----------------------------- MODULE ClientNode -----------------------------
(***************************************************************************)
(* One client node (local.c and remote.c run the same code on two          *)
(* independent client_node_t): the client thread, the heart thread and the *)
(* recv thread, which share the node without a lock.  One action is one    *)
(* stretch of code between two reads or writes of what they share.         *)
(***************************************************************************)
EXTENDS Link

CONSTANTS
    Timely,     \* TRUE: a handler ends before a sleep begun during it does
    DhFaults    \* which may fail: "init" (dhkey_init), "compute" (DH_compute_key)

ASSUME NodeAssumption == Timely \in BOOLEAN /\ DhFaults \subseteq {"init", "compute"}

VARIABLES
    link_state,     \* client_node_t.link_state
    fd,             \* client_node_t.fd: 0, or the number of the connection
    p_shared_key,   \* dhkey.p_shared_key
    p_dh,           \* dhkey.p_dh: 0 (NULL), a key pair, Bare or Dangling
    pc,             \* where each thread is
    goal,           \* the state start_authentication's while loop waits for
    out,            \* the message each thread has built and encrypted
    rmsg,           \* the message in recv_buf
    rdh,            \* gen_dh_shared_key's argument dh
    lastDh,         \* the last key pair dhkey_init generated
    slow,           \* threads whose sleep began while recv was in a handler
    crashed         \* the process died of a NULL or dangling pointer

nodeVars == <<link_state, fd, p_shared_key, p_dh>>
threadVars == <<pc, goal, out, rmsg, rdh, lastDh, slow, crashed>>
clientVars == <<nodeVars, threadVars>>

LinkStates == {"init_e", "connect_e", "key_req_e", "key_exc_e", "dev_reg_e"}

Authenticators == {"client", "heart"}
Threads == Authenticators \union {"recv"}

InitPlaces == {"free", "keys", "null", "wipe", "reset", "dhgen"}
AuthPlaces == InitPlaces \union {"check", "build", "send", "advance"}
RestartPlaces == {"close", "zero", "connect", "state"}
ClientPlaces == {"start", "done"} \union AuthPlaces
HeartPlaces ==
    {"none", "idle", "beat", "beatsend"} \union RestartPlaces \union AuthPlaces
RecvPlaces ==
    {"none", "idle", "got", "keyngack", "dh", "compute", "exchanged",
     "ack", "register", "get_status", "reply"}

Places == [client |-> ClientPlaces, heart |-> HeartPlaces, recv |-> RecvPlaces]

Goals == {"key_req_e", "key_exc_e", "dev_reg_e"}

(* p_dh: a key pair; a DH object dhkey_init failed to give keys, with pub_key *)
(* NULL beside it; one that was freed and is still pointed to.                *)
KeyPairs == 1..DhIds
Bare     == DhIds + 1
Dangling == DhIds + 2

-----------------------------------------------------------------------------
(* Threads: where one is, and how it moves on. *)

At(t, place) == ~crashed /\ pc[t] = place /\ t \notin slow

Goto(t, place) ==
    /\ pc' = [pc EXCEPT ![t] = place]
    /\ slow' = slow

(* sleep(): with Timely, t does not wake before the running handler ends. *)
Sleep(t, place) ==
    /\ pc' = [pc EXCEPT ![t] = place]
    /\ slow' = IF Timely /\ pc["recv"] \notin {"none", "idle"}
               THEN slow \union {t}
               ELSE slow

(* data_distribution returns and recv_buf is cleared for the next message. *)
HandlerDone ==
    /\ pc' = [pc EXCEPT !["recv"] = "idle"]
    /\ slow' = {}
    /\ rmsg' = NoMsg
    /\ rdh' = 0

Crash ==
    /\ crashed' = TRUE
    /\ UNCHANGED <<linkVars, nodeVars, pc, goal, out, rmsg, rdh, lastDh, slow>>

-----------------------------------------------------------------------------
(* Sending: msg_sent and client_send_buf. *)

(* The result of send(): "refused" is the -1 for fd <= 0, "broken" is *)
(* CONNECT_ERROR_E.                                                   *)
SendResult ==
    CASE fd = 0 -> "refused"
      [] fd # 0 /\ net \in {"up", "half"} -> "sent"
      [] OTHER -> "broken"

(* client_send_buf: waits for room; what a half-open connection takes is lost *)
Transmit(t) ==
    /\ (fd # 0 /\ net = "up") => Len(toGw) < Cap
    /\ toGw' = IF fd # 0 /\ net = "up" THEN Append(toGw, out[t]) ELSE toGw
    /\ out' = [out EXCEPT ![t] = NoMsg]
    /\ UNCHANGED <<net, nconn, toCli, session, lastGw>>

Prepare_Plain(t, type, pub) ==
    out' = [out EXCEPT ![t] = Message(type, NoKey, pub)]

(* msg_sent: encrypted if and only if p_shared_key is not NULL at this point *)
Prepare(t, type, pub) ==
    out' = [out EXCEPT ![t] = Message(type, p_shared_key, pub)]

-----------------------------------------------------------------------------
(* start_authentication, run by the client thread or by the heart thread *)

(* _init: dhkey_exit frees the DH object, which p_dh points to until line 19 *)
InitFree(t) ==
    /\ At(t, "free")
    /\ \/ p_dh = Dangling /\ Crash
       \/ /\ p_dh' = IF p_dh = 0 THEN 0 ELSE Dangling
          /\ Goto(t, "keys")
          /\ UNCHANGED <<linkVars, link_state, fd, p_shared_key, goal, out,
                         rmsg, rdh, lastDh, crashed>>

(* the four FREEs: the shared key is freed before its pointer is NULL *)
InitKeys(t) ==
    /\ At(t, "keys")
    /\ \/ p_shared_key = FreedKey /\ Crash
       \/ /\ p_shared_key' = IF p_shared_key = NoKey THEN NoKey ELSE FreedKey
          /\ Goto(t, "null")
          /\ UNCHANGED <<linkVars, link_state, fd, p_dh, goal, out, rmsg, rdh,
                         lastDh, crashed>>

InitNull(t) ==
    /\ At(t, "null")
    /\ p_shared_key' = NoKey
    /\ Goto(t, "wipe")
    /\ UNCHANGED <<linkVars, link_state, fd, p_dh, goal, out, rmsg, rdh,
                   lastDh, crashed>>

(* recv_buf is wiped, whatever recv is doing with it; a handler has what it *)
(* needs in its parsed copy                                                 *)
InitWipe(t) ==
    /\ At(t, "wipe")
    /\ rmsg' = IF pc["recv"] = "got" THEN NoMsg ELSE rmsg
    /\ Goto(t, "reset")
    /\ UNCHANGED <<linkVars, nodeVars, goal, out, rdh, lastDh, crashed>>

InitState_SkipsRequest(t) ==
    /\ At(t, "reset")
    /\ p_shared_key' = NoKey
    /\ p_dh' = 0
    /\ link_state' = "key_req_e"
    /\ Goto(t, "dhgen")
    /\ UNCHANGED <<linkVars, fd, goal, out, rmsg, rdh, lastDh, crashed>>

InitState(t) ==
    /\ At(t, "reset")
    /\ p_shared_key' = NoKey
    /\ p_dh' = 0
    /\ link_state' = "init_e"
    /\ Goto(t, "dhgen")
    /\ UNCHANGED <<linkVars, fd, goal, out, rmsg, rdh, lastDh, crashed>>

(* dhkey_init: a failure is logged and the authentication goes on without keys *)
DhGenerate(t) ==
    /\ At(t, "dhgen")
    /\ \/ /\ lastDh' = NextId(lastDh, DhIds)
          /\ p_dh' = lastDh'
       \/ /\ "init" \in DhFaults
          /\ p_dh' = Bare
          /\ lastDh' = lastDh
    /\ goal' = [goal EXCEPT ![t] = "key_req_e"]
    /\ Goto(t, "check")
    /\ UNCHANGED <<linkVars, link_state, fd, p_shared_key, out, rmsg, rdh,
                   crashed>>

NextGoal_SkipsExchange == [key_req_e |-> "dev_reg_e", key_exc_e |-> "dev_reg_e"]

(* the order of the three loops *)
NextGoal == [key_req_e |-> "key_exc_e", key_exc_e |-> "dev_reg_e"]

Finish_Again(t) == Goto(t, "free")

Finish_Ends(t) == Goto(t, "done")

(* start_authentication returns 0 *)
Finish(t) == IF t = "client" THEN Goto(t, "done") ELSE Sleep(t, "idle")

(* The conditions of the three while loops, evaluated after each sleep *)
CheckGoal(t) ==
    /\ At(t, "check")
    /\ \/ /\ link_state # goal[t]
          /\ Goto(t, "build")
          /\ goal' = goal
       \/ /\ link_state = goal[t] /\ goal[t] # "dev_reg_e"
          /\ goal' = [goal EXCEPT ![t] = NextGoal[@]]
          /\ Goto(t, "check")
       \/ /\ link_state = goal[t] /\ goal[t] = "dev_reg_e"
          /\ goal' = [goal EXCEPT ![t] = "key_req_e"]
          /\ Finish(t)
    /\ UNCHANGED <<linkVars, nodeVars, out, rmsg, rdh, lastDh, crashed>>

Request == [key_req_e |-> "keyngreq", key_exc_e |-> "dh", dev_reg_e |-> "dev_reg"]

(* send_secret_request, send_dh_info, send_dev_reg up to client_send_buf; *)
(* send_dh_info hands pub_key, NULL unless there are keys, to json-c      *)
BuildRequest(t) ==
    /\ At(t, "build")
    /\ IF goal[t] = "key_exc_e" /\ p_dh \notin KeyPairs
       THEN Crash
       ELSE /\ Prepare(t, Request[goal[t]], IF goal[t] = "key_exc_e" THEN p_dh ELSE 0)
            /\ Goto(t, "send")
            /\ UNCHANGED <<linkVars, nodeVars, goal, rmsg, rdh, lastDh, crashed>>

(* The client thread retries start_authentication, the heart thread *)
(* restart_authentication, which begins by closing the socket.      *)
Retry(t) == IF t = "client" THEN "free" ELSE "close"

Advances_OnAnySend(t) == SendResult = "sent"

(* if (ret > 0), after send_secret_request only *)
Advances(t) == SendResult = "sent" /\ goal[t] = "key_req_e"

SendRequest(t) ==
    /\ At(t, "send")
    /\ Transmit(t)
    /\ IF SendResult = "broken"
       THEN /\ Sleep(t, Retry(t))
            /\ goal' = [goal EXCEPT ![t] = "key_req_e"]
       ELSE /\ IF Advances(t)
               THEN Goto(t, "advance")
               ELSE Sleep(t, "check")
            /\ goal' = goal
    /\ UNCHANGED <<nodeVars, rmsg, rdh, lastDh, crashed>>

(* if (ret > 0) link_state = key_req_e: on the send, not on the keyngack *)
Advance(t) ==
    /\ At(t, "advance")
    /\ link_state' = "key_req_e"
    /\ Sleep(t, "check")
    /\ UNCHANGED <<linkVars, fd, p_shared_key, p_dh, goal, out, rmsg, rdh,
                   lastDh, crashed>>

Authenticate(t) ==
    \/ InitFree(t) \/ InitKeys(t) \/ InitNull(t) \/ InitWipe(t) \/ InitState(t)
    \/ DhGenerate(t) \/ CheckGoal(t) \/ BuildRequest(t) \/ SendRequest(t) \/ Advance(t)

-----------------------------------------------------------------------------
(* The client thread *)

(* client_init, then the recv and heart threads are created *)
Start ==
    /\ At("client", "start")
    /\ Open
    /\ fd' = nconn'
    /\ link_state' = "connect_e"
    /\ pc' = [client |-> "free", heart |-> "idle", recv |-> "idle"]
    /\ UNCHANGED <<p_shared_key, p_dh, goal, out, rmsg, rdh, lastDh, slow, crashed>>

ClientThread == Start \/ Authenticate("client")

-----------------------------------------------------------------------------
(* The heart thread *)

(* if (link_state == dev_reg_e) *)
HeartCheck ==
    /\ At("heart", "idle")
    /\ link_state = "dev_reg_e"
    /\ Goto("heart", "beat")
    /\ UNCHANGED <<linkVars, nodeVars, goal, out, rmsg, rdh, lastDh, crashed>>

HeartBuild ==
    /\ At("heart", "beat")
    /\ Prepare("heart", "keepalive", 0)
    /\ Goto("heart", "beatsend")
    /\ UNCHANGED <<linkVars, nodeVars, goal, rmsg, rdh, lastDh, crashed>>

HeartSend_WrongError ==
    /\ At("heart", "beatsend")
    /\ Transmit("heart")
    /\ IF SendResult = "refused" THEN Goto("heart", "close") ELSE Sleep("heart", "idle")
    /\ UNCHANGED <<nodeVars, goal, rmsg, rdh, lastDh, crashed>>

HeartSend ==
    /\ At("heart", "beatsend")
    /\ Transmit("heart")
    /\ IF SendResult = "broken" THEN Goto("heart", "close") ELSE Sleep("heart", "idle")
    /\ UNCHANGED <<nodeVars, goal, rmsg, rdh, lastDh, crashed>>

(* restart_authentication: close(fd); fd = 0; client_init; connect_e *)
RestartClose ==
    /\ At("heart", "close")
    /\ net' = "closed"
    /\ toGw' = <<>>
    /\ toCli' = <<>>
    /\ Goto("heart", "zero")
    /\ UNCHANGED <<nconn, session, lastGw, nodeVars, goal, out, rmsg, rdh,
                   lastDh, crashed>>

RestartZero ==
    /\ At("heart", "zero")
    /\ fd' = 0
    /\ Goto("heart", "connect")
    /\ UNCHANGED <<linkVars, link_state, p_shared_key, p_dh, goal, out, rmsg,
                   rdh, lastDh, crashed>>

RestartConnect ==
    /\ At("heart", "connect")
    /\ Open
    /\ fd' = nconn'
    /\ Goto("heart", "state")
    /\ UNCHANGED <<link_state, p_shared_key, p_dh, goal, out, rmsg, rdh,
                   lastDh, crashed>>

RestartState ==
    /\ At("heart", "state")
    /\ link_state' = "connect_e"
    /\ Goto("heart", "free")
    /\ UNCHANGED <<linkVars, fd, p_shared_key, p_dh, goal, out, rmsg, rdh,
                   lastDh, crashed>>

HeartThread ==
    \/ HeartCheck \/ HeartBuild \/ HeartSend
    \/ RestartClose \/ RestartZero \/ RestartConnect \/ RestartState
    \/ Authenticate("heart")

-----------------------------------------------------------------------------
(* The recv thread: receive, data_distribution, handler_event, handlers *)

Receive ==
    /\ At("recv", "idle")
    /\ fd # 0 /\ net \in {"up", "half"} /\ toCli # <<>>
    /\ rmsg' = Head(toCli)
    /\ toCli' = Tail(toCli)
    /\ Goto("recv", "got")
    /\ UNCHANGED <<net, nconn, toGw, session, lastGw, nodeVars, goal, out, rdh,
                   lastDh, crashed>>

(* plain JSON if p_shared_key is NULL, decrypted with it otherwise; *)
(* anything else does not parse and is dropped                      *)
Distribute ==
    /\ At("recv", "got")
    /\ IF rmsg.enc = p_shared_key /\ rmsg.type \in {"keyngack", "dh", "ack", "get_status"}
       THEN Goto("recv", rmsg.type) /\ UNCHANGED <<rmsg, rdh>>
       ELSE HandlerDone
    /\ UNCHANGED <<linkVars, nodeVars, goal, out, lastDh, crashed>>

RecvKeyngack ==
    /\ At("recv", "keyngack")
    /\ link_state' = "key_req_e"
    /\ HandlerDone
    /\ UNCHANGED <<linkVars, fd, p_shared_key, p_dh, goal, out, lastDh, crashed>>

(* gen_dh_shared_key up to memset: the key is no longer NULL.  DH_size of an *)
(* object without parameters, or of a freed one, may crash.                  *)
DhAlloc ==
    /\ At("recv", "dh")
    /\ \/ p_dh \notin KeyPairs /\ Crash
       \/ /\ p_dh # 0
          /\ p_shared_key' = ZeroKey
          /\ rdh' = p_dh
          /\ Goto("recv", "compute")
          /\ UNCHANGED <<linkVars, link_state, fd, p_dh, goal, out, rmsg,
                         lastDh, crashed>>

(* the DH object of the call, and the buffer, are still there *)
Intact == rdh = p_dh /\ rdh \in KeyPairs /\ p_shared_key \notin {NoKey, FreedKey}

(* DH_compute_key fails: no private key, the gateway's key is no good, or *)
(* there is only garbage to compute with.                                 *)
ComputeFails == rdh = Bare \/ rdh # p_dh \/ "compute" \in DhFaults

(* DH_compute_key: a failure writes nothing; writing to NULL crashes; what *)
(* was freed since the call gives a crash or a key computed from garbage.  *)
DhCompute ==
    /\ At("recv", "compute")
    /\ \/ ~Intact /\ rdh # Bare /\ Crash
       \/ /\ \/ Intact /\ p_shared_key' = [dh |-> rdh, gw |-> rmsg.pub]
             \/ ~Intact /\ rdh # Bare /\ p_shared_key # NoKey /\ p_shared_key' = BadKey
             \/ ComputeFails /\ p_shared_key' = p_shared_key
          /\ Goto("recv", "exchanged")
          /\ UNCHANGED <<linkVars, link_state, fd, p_dh, goal, out, rmsg, rdh,
                         lastDh, crashed>>

DhExchanged_FreesDh ==
    /\ At("recv", "exchanged")
    /\ link_state' = "key_exc_e"
    /\ p_dh' = Dangling
    /\ HandlerDone
    /\ UNCHANGED <<linkVars, fd, p_shared_key, goal, out, lastDh, crashed>>

(* link_state = key_exc_e, whether gen_dh_shared_key failed or not *)
DhExchanged ==
    /\ At("recv", "exchanged")
    /\ link_state' = "key_exc_e"
    /\ HandlerDone
    /\ UNCHANGED <<linkVars, fd, p_shared_key, p_dh, goal, out, lastDh, crashed>>

(* recv_ack: a log line separates the test of link_state from the write *)
AckCheck ==
    /\ At("recv", "ack")
    /\ IF link_state = "key_exc_e"
       THEN Goto("recv", "register") /\ UNCHANGED <<rmsg, rdh>>
       ELSE HandlerDone
    /\ UNCHANGED <<linkVars, nodeVars, goal, out, lastDh, crashed>>

AckRegister ==
    /\ At("recv", "register")
    /\ link_state' = "dev_reg_e"
    /\ HandlerDone
    /\ UNCHANGED <<linkVars, fd, p_shared_key, p_dh, goal, out, lastDh, crashed>>

(* handler_event, get_status: the reply is sent from the recv thread *)
StatusBuild ==
    /\ At("recv", "get_status")
    /\ Prepare("recv", "status", 0)
    /\ Goto("recv", "reply")
    /\ UNCHANGED <<linkVars, nodeVars, goal, rmsg, rdh, lastDh, crashed>>

StatusSend ==
    /\ At("recv", "reply")
    /\ Transmit("recv")
    /\ HandlerDone
    /\ UNCHANGED <<nodeVars, goal, lastDh, crashed>>

RecvThread ==
    \/ Receive \/ Distribute \/ RecvKeyngack \/ DhAlloc \/ DhCompute
    \/ DhExchanged \/ AckCheck \/ AckRegister \/ StatusBuild \/ StatusSend

-----------------------------------------------------------------------------
ClientInit ==
    /\ link_state = "init_e"
    /\ fd = 0
    /\ p_shared_key = NoKey
    /\ p_dh = 0
    /\ pc = [client |-> "start", heart |-> "none", recv |-> "none"]
    /\ goal = [t \in Authenticators |-> "key_req_e"]
    /\ out = [t \in Threads |-> NoMsg]
    /\ rmsg = NoMsg
    /\ rdh = 0
    /\ lastDh = 0
    /\ slow = {}
    /\ crashed = FALSE

PcTypeOK ==
    /\ pc \in [Threads -> ClientPlaces \union HeartPlaces \union RecvPlaces]
    /\ \A t \in Threads : pc[t] \in Places[t]

ClientTypeOK ==
    /\ link_state \in LinkStates
    /\ fd \in 0..MaxConn
    /\ p_shared_key \in Keys
    /\ p_dh \in 0..Dangling
    /\ PcTypeOK
    /\ goal \in [Authenticators -> Goals]
    /\ out \in [Threads -> ClientMessages]
    /\ rmsg \in GatewayMessages
    /\ rdh \in 0..Dangling
    /\ pc["recv"] \in {"dh", "compute"} => rmsg.type = "dh"
    /\ pc["recv"] = "compute" => rdh # 0
    /\ lastDh \in 0..DhIds
    /\ slow \subseteq Authenticators
    /\ crashed \in BOOLEAN
=============================================================================
