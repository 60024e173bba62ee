------------------------------- MODULE Process -------------------------------
(***************************************************************************)
(* The elink process: its two nodes connect and reconnect (client.c,       *)
(* restart_authentication) out of one table of descriptors, the remote one *)
(* after asking a shell for the gateway's address (mk_popen, common.c).    *)
(* Who logs in over the connections, and how, is ElinkSystem's; what the   *)
(* recv threads do with a descriptor that was closed is Framing's.         *)
(*                                                                         *)
(* A server that goes down takes the node's connection with it, which the  *)
(* node notices when it next sends.  Only the heart thread replaces a      *)
(* connection, and it sends only once the node has been registered; before *)
(* that the client thread authenticates again and again on the one it has. *)
(***************************************************************************)
EXTENDS Integers, FiniteSets

CONSTANTS
    MaxFd,          \* the highest descriptor the process may have (RLIMIT_NOFILE - 1)
    Outputs,        \* how many bytes the command may print
    Room,           \* how many of them mk_popen's caller takes, size - 1
    PipeSize,       \* how many the pipe holds
    AddrLen,        \* how many ip_addr has room for, its terminator not counted
    PromptLocal     \* the local thread ignores SIGPIPE before the remote one first sends

ASSUME ProcessAssumption ==
    /\ MaxFd \in Nat /\ MaxFd >= 2
    /\ Outputs \subseteq Nat /\ Outputs # {}
    /\ Room \in Nat \ {0}
    /\ PipeSize \in Nat \ {0}
    /\ AddrLen \in Nat
    /\ PromptLocal \in BOOLEAN

VARIABLES
    status,     \* whether the process runs, or how it ended
    ignored,    \* SIGPIPE is ignored
    table,      \* what each descriptor is open for
    pc, fd,     \* each node: where its connecting thread is, and client_node_t.fd
    new,        \* ... the local variable fd of _local_socket_init, _remote_socket_init
    server, hung,   \* ... its server is there; its connection is not
    reg,        \* ... it has been registered, and its heart thread sends
    failed,     \* ... the connects that failed so far
    link,       \* mk_popen's pipe
    child, left, inpipe, total, \* its child, what that has to print, what is in the pipe, what was read
    address     \* how many bytes of it were copied to ip_addr

popen == <<link, child, left, inpipe, total, address>>
nodeVars == <<pc, fd, new, server, hung, reg, failed>>
vars == <<status, ignored, table, nodeVars, popen>>

Node == {"remote", "local"}
Fd == 0..MaxFd
Std == 0..2
NoFd == 0       \* client_node_t.fd of a node without a connection

(* Where a node starts to connect. *)
Again(n) == IF n = "remote" THEN "pipe" ELSE "socket"

Init ==
    /\ status = "running"
    /\ ignored = FALSE
    /\ table = [d \in Fd |-> IF d \in Std THEN "std" ELSE "closed"]
    /\ pc = [n \in Node |-> IF n = "local" THEN "signal" ELSE Again(n)]
    /\ fd = [n \in Node |-> NoFd]
    /\ new = [n \in Node |-> NoFd]
    /\ server \in [Node -> BOOLEAN]
    /\ hung = [n \in Node |-> FALSE]
    /\ failed = [n \in Node |-> 0]
    /\ link = [read |-> NoFd, write |-> NoFd]
    /\ reg = [n \in Node |-> FALSE]
    /\ child = "none" /\ left = 0 /\ inpipe = 0 /\ total = 0 /\ address = 0

Closed == {d \in Fd : table[d] = "closed"}
Lowest(S) == CHOOSE d \in S : \A e \in S : d <= e
Go(n, at) == pc' = [pc EXCEPT ![n] = at]
At(n, at) == status = "running" /\ pc[n] = at

-----------------------------------------------------------------------------
IgnoreSigpipe_Default ==
    /\ At("local", "signal")
    /\ Go("local", "socket")
    /\ UNCHANGED <<status, ignored, table, fd, new, server, hung, reg, failed, popen>>

(* local_client: ignore SIGPIPE, which kills a process that sends on a     *)
(* connection whose other end is gone.                                     *)
IgnoreSigpipe ==
    /\ At("local", "signal")
    /\ ignored' = TRUE
    /\ Go("local", "socket")
    /\ UNCHANGED <<status, table, fd, new, server, hung, reg, failed, popen>>

-----------------------------------------------------------------------------
(* _get_ip_addr: mk_popen runs a command and reads what it prints.         *)

(* _remote_socket_init starts with an empty ip_addr, and it stays empty if *)
(* pipe, fork or read fails (-3, -1, -2).                                  *)
OpenPipe ==
    /\ At("remote", "pipe")
    /\ address' = 0
    /\ IF Cardinality(Closed) < 2
       THEN Go("remote", "socket") /\ UNCHANGED <<table, link>>
       ELSE LET r == Lowest(Closed)
                w == Lowest(Closed \ {r})
            IN  /\ link' = [read |-> r, write |-> w]
                /\ table' = [table EXCEPT ![r] = "pipe", ![w] = "pipe"]
                /\ Go("remote", "fork")
    /\ UNCHANGED <<status, ignored, fd, new, server, hung, reg, failed, child, left, inpipe, total>>

Fork ==
    /\ At("remote", "fork")
    /\ child' = "running"
    /\ left' \in Outputs
    /\ inpipe' = 0 /\ total' = 0
    /\ Go("remote", "parent")
    /\ UNCHANGED <<status, ignored, table, link, fd, new, server, hung, reg, failed, address>>

ForkFails_LeavesPipe ==
    /\ At("remote", "fork")
    /\ Go("remote", "socket")
    /\ UNCHANGED <<status, ignored, table, fd, new, server, hung, reg, failed, popen>>

ForkFails ==
    /\ At("remote", "fork")
    /\ table' = [table EXCEPT ![link.read] = "closed", ![link.write] = "closed"]
    /\ Go("remote", "socket")
    /\ UNCHANGED <<status, ignored, fd, new, server, hung, reg, failed, popen>>

(* The parent's own end would keep the pipe from ever ending. *)
CloseWrite ==
    /\ At("remote", "parent")
    /\ table' = [table EXCEPT ![link.write] = "closed"]
    /\ Go("remote", "read")
    /\ UNCHANGED <<status, ignored, fd, new, server, hung, reg, failed, popen>>

ReadPipe_AsksForAll ==
    /\ At("remote", "read")
    /\ inpipe > 0
    /\ inpipe' = 0
    /\ total' = total + inpipe
    /\ UNCHANGED <<status, ignored, table, nodeVars, link, child, left, address>>

(* read asks for no more than there is room for. *)
ReadPipe ==
    LET bytes == IF inpipe < Room - total THEN inpipe ELSE Room - total
    IN  /\ At("remote", "read")
        /\ bytes > 0
        /\ inpipe' = inpipe - bytes
        /\ total' = total + bytes
        /\ UNCHANGED <<status, ignored, table, nodeVars, link, child, left, address>>

(* The caller's buffer is full, or the pipe has ended: it is empty and     *)
(* nobody can write to it any more.                                        *)
ReadEnds ==
    /\ At("remote", "read")
    /\ \/ total = Room
       \/ inpipe = 0 /\ child # "running" /\ table[link.write] # "pipe"
    /\ Go("remote", "close")
    /\ UNCHANGED <<status, ignored, table, fd, new, server, hung, reg, failed, popen>>

(* read gives -1: the same cleaning up, but nothing of what was read is used. *)
ReadFails ==
    /\ At("remote", "read")
    /\ total' = 0
    /\ Go("remote", "close")
    /\ UNCHANGED <<status, ignored, table, fd, new, server, hung, reg, failed,
                   link, child, left, inpipe, address>>

CloseRead_AfterWait ==
    /\ At("remote", "close")
    /\ child # "running"
    /\ table' = [table EXCEPT ![link.read] = "closed"]
    /\ Go("remote", "wait")
    /\ UNCHANGED <<status, ignored, fd, new, server, hung, reg, failed, popen>>

CloseRead ==
    /\ At("remote", "close")
    /\ table' = [table EXCEPT ![link.read] = "closed"]
    /\ Go("remote", "wait")
    /\ UNCHANGED <<status, ignored, fd, new, server, hung, reg, failed, popen>>

(* strcpy copies what was read to ip_addr, whose room it does not know: it *)
(* may write over what is behind it.                                       *)
WaitPid ==
    /\ At("remote", "wait")
    /\ child = "dead"
    /\ child' = "none"
    /\ left' = 0 /\ inpipe' = 0 /\ total' = 0
    /\ address' = total
    /\ status' \in IF total > AddrLen THEN {status, "smashed"} ELSE {status}
    /\ Go("remote", "socket")
    /\ UNCHANGED <<ignored, table, link, fd, new, server, hung, reg, failed>>

(* The child, external: it prints while somebody may read, and ends when   *)
(* it has printed everything, or prints to a pipe without a reader.        *)
Readable == pc["remote"] \in {"parent", "read", "close"}

ChildPrints ==
    /\ child = "running"
    /\ left > 0 /\ inpipe < PipeSize /\ Readable
    /\ left' = left - 1
    /\ inpipe' = inpipe + 1
    /\ UNCHANGED <<status, ignored, table, nodeVars, link, child, total, address>>

ChildEnds ==
    /\ child = "running"
    /\ left = 0 \/ ~Readable
    /\ child' = "dead"
    /\ UNCHANGED <<status, ignored, table, nodeVars, link, left, inpipe, total, address>>

-----------------------------------------------------------------------------
(* _local_socket_init, _remote_socket_init, and the loop around them.      *)

Socket(n) ==
    /\ At(n, "socket")
    /\ Closed # {}
    /\ new' = [new EXCEPT ![n] = Lowest(Closed)]
    /\ table' = [table EXCEPT ![Lowest(Closed)] = n]
    /\ Go(n, "connect")
    /\ UNCHANGED <<status, ignored, fd, server, hung, reg, failed, popen>>

(* Without a descriptor the remote node tries again in five seconds, the   *)
(* local one calls exit(1).                                                *)
SocketFails(n) ==
    /\ At(n, "socket")
    /\ Closed = {}
    /\ status' = IF n = "local" THEN "exited" ELSE status
    /\ Go(n, Again(n))
    /\ UNCHANGED <<ignored, table, fd, new, server, hung, reg, failed, popen>>

(* The remote node's address is empty, so 0.0.0.0, where no gateway is,    *)
(* unless the command has printed one.                                     *)
Reachable(n) == server[n] /\ (n = "remote" => address > 0)

(* client_init stores the descriptor in the node. *)
Connect(n) ==
    /\ At(n, "connect")
    /\ Reachable(n)
    /\ fd' = [fd EXCEPT ![n] = new[n]]
    /\ new' = [new EXCEPT ![n] = NoFd]
    /\ hung' = [hung EXCEPT ![n] = FALSE]
    /\ Go(n, "connected")
    /\ UNCHANGED <<status, ignored, table, server, reg, failed, popen>>

(* -1 is returned, and the descriptor is nowhere any more but in the table. *)
ConnectFails(n) ==
    /\ At(n, "connect")
    /\ ~Reachable(n)
    /\ failed' = [failed EXCEPT ![n] = @ + 1]
    /\ new' = [new EXCEPT ![n] = NoFd]
    /\ Go(n, Again(n))
    /\ UNCHANGED <<status, ignored, table, fd, server, hung, reg, popen>>

-----------------------------------------------------------------------------
SendFails_Unnoticed(n) ==
    /\ At(n, "connected")
    /\ hung[n]
    /\ PromptLocal => pc["local"] # "signal"
    /\ status' = IF ignored THEN status ELSE "killed"
    /\ UNCHANGED <<ignored, table, nodeVars, popen>>

(* The heart thread sees dev_reg_e.  The answer may have been under way    *)
(* when the connection ended.                                              *)
Register(n) ==
    /\ At(n, "connected")
    /\ ~reg[n]
    /\ reg' = [reg EXCEPT ![n] = TRUE]
    /\ UNCHANGED <<status, ignored, table, pc, fd, new, server, hung, failed, popen>>

(* A node sends on a connection that has ended: client_send_buf reports    *)
(* the error, unless SIGPIPE ends the process first.  The heart thread     *)
(* then restarts, in the keepalive's loop or in restart_authentication's;  *)
(* the client thread, which sends up to the first registration, calls      *)
(* start_authentication again on the same descriptor.                      *)
SendFails(n) ==
    /\ At(n, "connected")
    /\ hung[n]
    /\ PromptLocal => pc["local"] # "signal"
    /\ status' = IF ignored THEN status ELSE "killed"
    /\ Go(n, IF reg[n] THEN "restart" ELSE "connected")
    /\ UNCHANGED <<ignored, table, fd, new, server, hung, reg, failed, popen>>

(* restart_authentication: close(fd), and in the next statement fd = 0. *)
CloseFd(n) ==
    /\ At(n, "restart")
    /\ table' = [table EXCEPT ![fd[n]] = "closed"]
    /\ Go(n, "clear")
    /\ UNCHANGED <<status, ignored, fd, new, server, hung, reg, failed, popen>>

ClearFd_Left(n) ==
    /\ At(n, "clear")
    /\ Go(n, Again(n))
    /\ UNCHANGED <<status, ignored, table, fd, new, server, hung, reg, failed, popen>>

ClearFd(n) ==
    /\ At(n, "clear")
    /\ fd' = [fd EXCEPT ![n] = NoFd]
    /\ Go(n, Again(n))
    /\ UNCHANGED <<status, ignored, table, new, server, hung, reg, failed, popen>>

(* The environment. *)
ServerStops(n) ==
    /\ status = "running" /\ server[n]
    /\ server' = [server EXCEPT ![n] = FALSE]
    /\ hung' = [hung EXCEPT ![n] = pc[n] = "connected" \/ @]
    /\ UNCHANGED <<status, ignored, table, pc, fd, new, reg, failed, popen>>

ServerStarts(n) ==
    /\ status = "running" /\ ~server[n]
    /\ server' = [server EXCEPT ![n] = TRUE]
    /\ UNCHANGED <<status, ignored, table, pc, fd, new, hung, reg, failed, popen>>

-----------------------------------------------------------------------------
MkPopen ==
    OpenPipe \/ Fork \/ CloseWrite \/ ReadPipe \/ ReadEnds \/ CloseRead \/ WaitPid

PopenFails == ForkFails \/ ReadFails

Child == ChildPrints \/ ChildEnds

ClientInit(n) == Socket(n) \/ SocketFails(n) \/ Connect(n) \/ ConnectFails(n)

Restart(n) == SendFails(n) \/ CloseFd(n) \/ ClearFd(n)

Next ==
    \/ IgnoreSigpipe \/ MkPopen \/ PopenFails \/ Child
    \/ \E n \in Node : ClientInit(n) \/ Register(n) \/ Restart(n)
                     \/ ServerStops(n) \/ ServerStarts(n)

Spec == Init /\ [][Next]_vars

(* Every thread is scheduled, a node sends a keepalive now and then, and   *)
(* the command ends; nothing is assumed of the servers, that they register *)
(* a node included, and nothing fails because it has to.                   *)
Fairness ==
    /\ WF_vars(IgnoreSigpipe) /\ WF_vars(MkPopen) /\ WF_vars(Child)
    /\ \A n \in Node : WF_vars(ClientInit(n)) /\ WF_vars(Restart(n))

FairSpec == Spec /\ Fairness

-----------------------------------------------------------------------------
(* Properties. *)

PopenStates == {"fork", "parent", "read", "close", "wait"}
NodeStates == {"signal", "pipe", "socket", "connect", "connected", "restart", "clear"} \union PopenStates

(* Every variable has its type; descriptors are numbers of the table.      *)
TypeOK ==
    /\ status \in {"running", "exited", "killed", "smashed"}
    /\ ignored \in BOOLEAN
    /\ table \in [Fd -> {"closed", "std", "pipe"} \union Node]
    /\ pc \in [Node -> NodeStates]
    /\ fd \in [Node -> Fd]
    /\ new \in [Node -> Fd]
    /\ server \in [Node -> BOOLEAN]
    /\ hung \in [Node -> BOOLEAN]
    /\ reg \in [Node -> BOOLEAN]
    /\ failed \in [Node -> Nat]
    /\ link \in [read : Fd, write : Fd]
    /\ child \in {"none", "running", "dead"}
    /\ left \in Nat /\ inpipe \in 0..PipeSize /\ total \in 0..Room /\ address \in 0..Room

(* What a node's fd names, which its recv and heart threads read without a *)
(* lock, is its own connection or no connection: never the other node's,   *)
(* never a pipe, though closed numbers are given out again at once         *)
(* (authentication.c:35-38).  Between close and the next statement it may  *)
(* be anything; nobody can help that.                                      *)
OwnDescriptor ==
    \A n \in Node : pc[n] = "clear" \/ table[fd[n]] \in {n, "std"}

(* Each failed connect costs a descriptor for good (client.c:53, 90), and  *)
(* nothing else does: whatever mk_popen met, and however often a           *)
(* connection was lost, only these and the live connection are open.       *)
InUse(n) == {d \in Fd : table[d] = n}

DescriptorsInUse ==
    /\ \A n \in Node :
          Cardinality(InUse(n)) = failed[n] + (IF pc[n] \in {"connect", "connected", "restart"} THEN 1 ELSE 0)
    /\ pc["remote"] \notin PopenStates => \A d \in Fd : table[d] # "pipe"

(* client.c:89, try again when connect fails: as far as descriptors and    *)
(* signals go, a process ends only when so many connects have failed that  *)
(* the two that are left of the table may be in use, or when the gateway's *)
(* address was longer than ip_addr.  It is never killed by a connection    *)
(* that ended (local.c:77-80).                                             *)
Exhausted == failed["remote"] + failed["local"] >= Cardinality(Fd \ Std) - 2

EndsOnlyExhausted ==
    status # "running" => \/ status = "exited" /\ Exhausted
                          \/ status = "smashed" /\ address > AddrLen

(* mk_popen returns: the pipe ends when the child does, and the child does *)
(* not wait for a parent that waits for it, whatever it prints.            *)
PopenReturns ==
    pc["remote"] \in PopenStates ~> pc["remote"] \notin PopenStates \/ status # "running"

(* A node whose server stays gets connected and stays so, whatever the     *)
(* other node and the command do, unless failed connects have used up the  *)
(* descriptors or a long address has ended the process.  The exception is  *)
(* a node that lost its connection before it was registered: its heart     *)
(* thread does nothing (remote.c:51), and nobody replaces the connection.  *)
Connected(n) == pc[n] = "connected" /\ ~hung[n]

LostEarly(n) == pc[n] = "connected" /\ hung[n] /\ ~reg[n]

Reconnects ==
    \A n \in Node :
        <>[]server[n] => <>[]Connected(n) \/ <>[]LostEarly(n) \/ <>(Exhausted \/ status = "smashed")
=============================================================================
