---------------------------- MODULE ProcessProofs ----------------------------
(***************************************************************************)
(* Process for every size of the descriptor table, every output of the     *)
(* command and every pipe: the types, and that no node ever holds another  *)
(* one's descriptor.                                                       *)
(***************************************************************************)
EXTENDS Process, FiniteSetTheorems, WellFoundedInduction, TLAPS

(***************************************************************************)
(* The kernel gives out a descriptor of the set, if there is one.          *)
(***************************************************************************)
LEMMA LowestIn ==
    ASSUME NEW S, S \subseteq Nat, S # {}
    PROVE  Lowest(S) \in S
<1>1. IsWellFoundedOn(OpToRel(<, Nat), Nat)
  BY NatLessThanWellFounded
<1>2. PICK d \in S : \A e \in S : ~ (<<e, d>> \in OpToRel(<, Nat))
  BY <1>1, WFMin
<1>3. \A e \in S : ~ (e < d)
  BY <1>2 DEF OpToRel
<1>4. \A e \in S : d <= e
  BY <1>3
<1> QED
  BY <1>4 DEF Lowest

LEMMA FdFacts == Fd \subseteq Nat /\ Std \subseteq Fd /\ NoFd \in Std /\ Closed \subseteq Fd
  BY ProcessAssumption DEF Fd, Std, NoFd, Closed

LEMMA LowestClosed ==
    ASSUME Closed # {}
    PROVE  Lowest(Closed) \in Fd /\ table[Lowest(Closed)] = "closed"
<1>1. Lowest(Closed) \in Closed
  BY FdFacts, LowestIn
<1> QED
  BY <1>1 DEF Closed

(* With two descriptors left, the second one is another. *)
LEMMA SecondClosed ==
    ASSUME ~ (Cardinality(Closed) < 2)
    PROVE  /\ Closed # {}
           /\ Lowest(Closed \ {Lowest(Closed)}) \in Fd
           /\ table[Lowest(Closed \ {Lowest(Closed)})] = "closed"
           /\ Lowest(Closed \ {Lowest(Closed)}) # Lowest(Closed)
<1>1. IsFiniteSet(Closed) /\ Cardinality(Closed) \in Nat
  <2>1. IsFiniteSet(Fd)
    BY ProcessAssumption, FS_Interval DEF Fd
  <2> QED
    BY <2>1, FdFacts, FS_Subset, FS_CardinalityType
<1>2. Closed # {}
  BY <1>1, FS_EmptySet
<1> DEFINE rest == Closed \ {Lowest(Closed)}
<1>3. rest # {}
  <2>1. SUFFICES ASSUME rest = {} PROVE FALSE
    OBVIOUS
  <2>2. Closed = {Lowest(Closed)}
    BY <2>1, <1>2
  <2>3. Cardinality({Lowest(Closed)}) = 1
    BY FS_Singleton
  <2> QED
    BY <2>2, <2>3
<1>4. rest \subseteq Nat
  BY FdFacts
<1> HIDE DEF rest
<1>5. Lowest(rest) \in rest
  BY <1>3, <1>4, LowestIn
<1> QED
  BY <1>2, <1>5 DEF rest, Closed

-----------------------------------------------------------------------------
(***************************************************************************)
(* TypeOK.                                                                 *)
(***************************************************************************)

LEMMA TypeInit == Init => TypeOK
<1> SUFFICES ASSUME Init PROVE TypeOK
  OBVIOUS
<1> USE DEF Init
<1>1. table \in [Fd -> {"closed", "std", "pipe"} \union Node]
  OBVIOUS
<1>2. pc \in [Node -> NodeStates]
  BY DEF NodeStates, Again, Node
<1>3. fd \in [Node -> Fd] /\ new \in [Node -> Fd] /\ link \in [read : Fd, write : Fd]
  BY FdFacts
<1>4. left \in Nat /\ inpipe \in 0..PipeSize /\ total \in 0..Room /\ address \in 0..Room
      /\ failed \in [Node -> Nat]
  BY ProcessAssumption
<1>5. status \in {"running", "exited", "killed", "smashed"} /\ reg \in [Node -> BOOLEAN] /\ ignored \in BOOLEAN /\ server \in [Node -> BOOLEAN]
      /\ hung \in [Node -> BOOLEAN] /\ child \in {"none", "running", "dead"}
  OBVIOUS
<1> QED
  BY <1>1, <1>2, <1>3, <1>4, <1>5 DEF TypeOK

LEMMA TypeStep == TypeOK /\ [Next]_vars => TypeOK'
<1> SUFFICES ASSUME TypeOK, [Next]_vars PROVE TypeOK'
  OBVIOUS
<1> USE DEF vars, nodeVars, popen, Go, At
<1>0. \A at \in NodeStates, n \in Node : [pc EXCEPT ![n] = at] \in [Node -> NodeStates]
  BY DEF TypeOK
<1>a. \A n \in Node : Again(n) \in NodeStates
  BY DEF Again, NodeStates
<1>b. "local" \in Node /\ "remote" \in Node
  BY DEF Node
<1>1. CASE UNCHANGED vars
  BY <1>1 DEF TypeOK
<1>2. CASE IgnoreSigpipe
  BY <1>2, <1>0, <1>b DEF TypeOK, IgnoreSigpipe, NodeStates
<1>3. CASE OpenPipe
  <2>1. CASE Cardinality(Closed) < 2
    BY <1>3, <2>1, <1>0, <1>b, ProcessAssumption DEF TypeOK, OpenPipe, NodeStates
  <2>2. CASE ~ (Cardinality(Closed) < 2)
    <3>1. Lowest(Closed) \in Fd /\ Lowest(Closed \ {Lowest(Closed)}) \in Fd
      BY <2>2, SecondClosed, LowestClosed
    <3>2. link' = [read |-> Lowest(Closed), write |-> Lowest(Closed \ {Lowest(Closed)})]
      BY <1>3, <2>2 DEF OpenPipe
    <3>3. table' = [table EXCEPT ![Lowest(Closed)] = "pipe",
                                 ![Lowest(Closed \ {Lowest(Closed)})] = "pipe"]
      BY <1>3, <2>2 DEF OpenPipe
    <3>4. pc' = [pc EXCEPT !["remote"] = "fork"]
      BY <1>3, <2>2 DEF OpenPipe
    <3>5. /\ UNCHANGED <<status, ignored, fd, new, server, hung, reg, failed,
                         child, left, inpipe, total>>
          /\ address' \in 0..Room
      BY <1>3, ProcessAssumption DEF OpenPipe
    <3>6. link' \in [read : Fd, write : Fd]
      BY <3>1, <3>2
    <3>7. table' \in [Fd -> {"closed", "std", "pipe"} \union Node]
      BY <3>1, <3>3 DEF TypeOK
    <3>8. pc' \in [Node -> NodeStates]
      BY <3>4, <1>0, <1>b DEF NodeStates, PopenStates
    <3> QED
      BY <3>5, <3>6, <3>7, <3>8 DEF TypeOK
  <2> QED
    BY <2>1, <2>2
<1>4. CASE Fork
  BY <1>4, <1>0, <1>b, ProcessAssumption DEF TypeOK, Fork, NodeStates, PopenStates
<1>5. CASE ForkFails
  BY <1>5, <1>0, <1>b DEF TypeOK, ForkFails, NodeStates, PopenStates
<1>6. CASE CloseWrite
  BY <1>6, <1>0, <1>b DEF TypeOK, CloseWrite, NodeStates, PopenStates
<1>7. CASE ReadPipe
  BY <1>7, ProcessAssumption DEF TypeOK, ReadPipe
<1>8. CASE ReadEnds \/ ReadFails
  BY <1>8, <1>0, <1>b, ProcessAssumption DEF TypeOK, ReadEnds, ReadFails, NodeStates, PopenStates
<1>9. CASE CloseRead
  BY <1>9, <1>0, <1>b DEF TypeOK, CloseRead, NodeStates, PopenStates
<1>10. CASE WaitPid
  BY <1>10, <1>0, <1>b, ProcessAssumption DEF TypeOK, WaitPid, NodeStates
<1>11. CASE ChildPrints
  BY <1>11, ProcessAssumption DEF TypeOK, ChildPrints
<1>12. CASE ChildEnds
  BY <1>12 DEF TypeOK, ChildEnds
<1>13. ASSUME NEW n \in Node, Socket(n) PROVE TypeOK'
  <2>1. Lowest(Closed) \in Fd
    BY <1>13, LowestClosed DEF Socket
  <2> QED
    BY <1>13, <2>1, <1>0 DEF TypeOK, Socket, NodeStates
<1>14. ASSUME NEW n \in Node, SocketFails(n) PROVE TypeOK'
  BY <1>14, <1>0, <1>a DEF TypeOK, SocketFails
<1>15. ASSUME NEW n \in Node, Connect(n) PROVE TypeOK'
  BY <1>15, <1>0, FdFacts DEF TypeOK, Connect, NodeStates
<1>16. ASSUME NEW n \in Node, ConnectFails(n) PROVE TypeOK'
  BY <1>16, <1>0, <1>a, FdFacts DEF TypeOK, ConnectFails
<1>17. ASSUME NEW n \in Node, SendFails(n) PROVE TypeOK'
  BY <1>17, <1>0 DEF TypeOK, SendFails, NodeStates
<1>21. ASSUME NEW n \in Node, Register(n) PROVE TypeOK'
  BY <1>21 DEF TypeOK, Register
<1>18. ASSUME NEW n \in Node, CloseFd(n) PROVE TypeOK'
  BY <1>18, <1>0 DEF TypeOK, CloseFd, NodeStates
<1>19. ASSUME NEW n \in Node, ClearFd(n) PROVE TypeOK'
  BY <1>19, <1>0, <1>a, FdFacts DEF TypeOK, ClearFd
<1>20. ASSUME NEW n \in Node, ServerStops(n) \/ ServerStarts(n) PROVE TypeOK'
  BY <1>20 DEF TypeOK, ServerStops, ServerStarts
<1> QED
  BY <1>1, <1>2, <1>3, <1>4, <1>5, <1>6, <1>7, <1>8, <1>9, <1>10, <1>11, <1>12, <1>13,
     <1>14, <1>15, <1>16, <1>17, <1>18, <1>19, <1>20, <1>21
     DEF Next, MkPopen, PopenFails, Child, ClientInit, Restart

(***************************************************************************)
(* Whatever the processes, the servers and the command do, each variable   *)
(* keeps its type (client.c, common.c).                                    *)
(***************************************************************************)
THEOREM ProcessTypeCorrect == Spec => []TypeOK
  BY TypeInit, TypeStep, PTL DEF Spec

-----------------------------------------------------------------------------
(***************************************************************************)
(* What every descriptor is open for: the first three are the process's    *)
(* own; a node's fd and new name its connection exactly while it has one;  *)
(* the pipe's ends are open from pipe() to the two close().                *)
(***************************************************************************)
StdOpen == \A d \in Fd : table[d] = "std" <=> d \in Std

Held(n) ==
    /\ pc[n] \in {"connected", "restart"} => table[fd[n]] = n
    /\ pc[n] = "connect" => table[new[n]] = n
    /\ pc[n] \notin {"connected", "restart", "clear"} => fd[n] = NoFd

PipeEnd(d) ==
    \/ pc["remote"] \in {"fork", "parent"} /\ d \in {link.read, link.write}
    \/ pc["remote"] \in {"read", "close"} /\ d = link.read

PipeInv ==
    /\ \A d \in Fd : table[d] = "pipe" <=> PipeEnd(d)
    /\ pc["remote"] \in {"fork", "parent"} => link.read # link.write

TableInv ==
    /\ StdOpen
    /\ \A n \in Node : Held(n)
    /\ PipeInv

LEMMA TableInit == Init => TableInv
<1> SUFFICES ASSUME Init PROVE TableInv
  OBVIOUS
<1>1. StdOpen
  BY FdFacts DEF Init, StdOpen
<1>2. \A n \in Node : Held(n)
  BY DEF Init, Held, Again
<1>3. PipeInv
  BY DEF Init, PipeInv, PipeEnd, Again, Node
<1> QED
  BY <1>1, <1>2, <1>3 DEF TableInv

(* A step that leaves the table and the places of the nodes alone. *)
LEMMA TableSame ==
    ASSUME TypeOK, TableInv, UNCHANGED <<table, pc, fd, new, link>>
    PROVE  TableInv'
BY DEF TableInv, StdOpen, Held, PipeInv, PipeEnd

LEMMA TableStep == TypeOK /\ TableInv /\ [Next]_vars => TableInv'
<1> SUFFICES ASSUME TypeOK, TableInv, [Next]_vars PROVE TableInv'
  OBVIOUS
<1> USE DEF vars, nodeVars, popen, Go, At
<1>0. /\ table \in [Fd -> {"closed", "std", "pipe"} \union Node]
      /\ pc \in [Node -> NodeStates]
      /\ fd \in [Node -> Fd] /\ new \in [Node -> Fd]
      /\ link.read \in Fd /\ link.write \in Fd
  BY DEF TypeOK
<1>b. "local" \in Node /\ "remote" \in Node
  BY DEF Node
<1>1. CASE UNCHANGED vars
  BY <1>1, TableSame
<1>2. CASE IgnoreSigpipe
  BY <1>2, <1>0, <1>b DEF TableInv, StdOpen, Held, PipeInv, PipeEnd, IgnoreSigpipe
<1>4. CASE Fork
  BY <1>4, <1>0, <1>b DEF TableInv, StdOpen, Held, PipeInv, PipeEnd, Fork
<1>5. CASE ForkFails
  <2>1. /\ table' = [table EXCEPT ![link.read] = "closed", ![link.write] = "closed"]
        /\ pc["remote"] = "fork" /\ pc' = [pc EXCEPT !["remote"] = "socket"]
        /\ UNCHANGED <<fd, new, link>>
    BY <1>5 DEF ForkFails
  <2>2. table[link.read] = "pipe" /\ table[link.write] = "pipe"
    BY <2>1, <1>0 DEF TableInv, PipeInv, PipeEnd
  <2>3. \A d \in Fd : table'[d] = IF d \in {link.read, link.write} THEN "closed" ELSE table[d]
    BY <2>1, <1>0
  <2>4. StdOpen'
    BY <2>2, <2>3, FdFacts DEF TableInv, StdOpen
  <2>5. ASSUME NEW n \in Node PROVE Held(n)'
    BY <2>1, <2>2, <2>3, <1>0, <1>b DEF TableInv, Held, Node
  <2>6. PipeInv'
    BY <2>1, <2>3, <1>0, <1>b DEF TableInv, PipeInv, PipeEnd
  <2> QED
    BY <2>4, <2>5, <2>6 DEF TableInv
<1>6. CASE CloseWrite
  BY <1>6, <1>0, <1>b DEF TableInv, StdOpen, Held, PipeInv, PipeEnd, CloseWrite, Node
<1>7. CASE ReadPipe \/ ChildPrints \/ ChildEnds
  BY <1>7, TableSame DEF ReadPipe, ChildPrints, ChildEnds
<1>8. CASE ReadEnds \/ ReadFails
  BY <1>8, <1>0, <1>b DEF TableInv, StdOpen, Held, PipeInv, PipeEnd, ReadEnds, ReadFails
<1>9. CASE CloseRead
  BY <1>9, <1>0, <1>b DEF TableInv, StdOpen, Held, PipeInv, PipeEnd, CloseRead, Node
<1>10. CASE WaitPid
  BY <1>10, <1>0, <1>b DEF TableInv, StdOpen, Held, PipeInv, PipeEnd, WaitPid
<1>13. ASSUME NEW n \in Node, Socket(n) PROVE TableInv'
  <2>1. Lowest(Closed) \in Fd /\ table[Lowest(Closed)] = "closed"
    BY <1>13, LowestClosed DEF Socket
  <2> QED
    BY <1>13, <2>1, <1>0, FdFacts DEF TableInv, StdOpen, Held, PipeInv, PipeEnd, Socket, Node
<1>14. ASSUME NEW n \in Node, SocketFails(n) PROVE TableInv'
  BY <1>14, <1>0 DEF TableInv, StdOpen, Held, PipeInv, PipeEnd, SocketFails, Again, Node
<1>15. ASSUME NEW n \in Node, Connect(n) PROVE TableInv'
  BY <1>15, <1>0 DEF TableInv, StdOpen, Held, PipeInv, PipeEnd, Connect, Node
<1>16. ASSUME NEW n \in Node, ConnectFails(n) PROVE TableInv'
  BY <1>16, <1>0 DEF TableInv, StdOpen, Held, PipeInv, PipeEnd, ConnectFails, Again, Node
<1>21. ASSUME NEW n \in Node, Register(n) PROVE TableInv'
  BY <1>21, TableSame DEF Register
<1>17. ASSUME NEW n \in Node, SendFails(n) PROVE TableInv'
  BY <1>17, <1>0 DEF TableInv, StdOpen, Held, PipeInv, PipeEnd, SendFails, Node
<1>18. ASSUME NEW n \in Node, CloseFd(n) PROVE TableInv'
  BY <1>18, <1>0, FdFacts DEF TableInv, StdOpen, Held, PipeInv, PipeEnd, CloseFd, Node
<1>19. ASSUME NEW n \in Node, ClearFd(n) PROVE TableInv'
  BY <1>19, <1>0 DEF TableInv, StdOpen, Held, PipeInv, PipeEnd, ClearFd, Again, Node
<1>20. ASSUME NEW n \in Node, ServerStops(n) \/ ServerStarts(n) PROVE TableInv'
  BY <1>20, TableSame DEF ServerStops, ServerStarts
<1>3. CASE OpenPipe
  <2>1. CASE Cardinality(Closed) < 2
    BY <1>3, <2>1, <1>0, <1>b DEF TableInv, StdOpen, Held, PipeInv, PipeEnd, OpenPipe
  <2>2. CASE ~ (Cardinality(Closed) < 2)
    <3> DEFINE r == Lowest(Closed)
               w == Lowest(Closed \ {r})
    <3>1. r \in Fd /\ w \in Fd /\ r # w /\ table[r] = "closed" /\ table[w] = "closed"
      BY <2>2, SecondClosed, LowestClosed
    <3>2. link' = [read |-> r, write |-> w]
      BY <1>3, <2>2 DEF OpenPipe
    <3>3. table' = [table EXCEPT ![r] = "pipe", ![w] = "pipe"]
      BY <1>3, <2>2 DEF OpenPipe
    <3>4. pc["remote"] = "pipe" /\ pc' = [pc EXCEPT !["remote"] = "fork"]
      BY <1>3, <2>2 DEF OpenPipe
    <3>5. UNCHANGED <<fd, new>>
      BY <1>3 DEF OpenPipe
    <3> HIDE DEF r, w
    <3>6. StdOpen'
      BY <3>1, <3>3, <1>0, FdFacts DEF TableInv, StdOpen
    <3>7. ASSUME NEW n \in Node PROVE Held(n)'
      BY <3>1, <3>3, <3>4, <3>5, <1>0, <1>b DEF TableInv, Held, Node
    <3>8. PipeInv'
      BY <3>1, <3>2, <3>3, <3>4, <1>0, <1>b DEF TableInv, PipeInv, PipeEnd
    <3> QED
      BY <3>6, <3>7, <3>8 DEF TableInv
  <2> QED
    BY <2>1, <2>2
<1> QED
  BY <1>1, <1>2, <1>3, <1>4, <1>5, <1>6, <1>7, <1>8, <1>9, <1>10, <1>13,
     <1>14, <1>15, <1>16, <1>17, <1>18, <1>19, <1>20, <1>21
     DEF Next, MkPopen, PopenFails, Child, ClientInit, Restart

LEMMA TableGivesOwn == TypeOK /\ TableInv => OwnDescriptor
<1> SUFFICES ASSUME TypeOK, TableInv, NEW n \in Node
             PROVE  pc[n] = "clear" \/ table[fd[n]] \in {n, "std"}
  BY DEF OwnDescriptor
<1>1. CASE pc[n] \in {"connected", "restart"}
  BY <1>1 DEF TableInv, Held
<1>2. CASE pc[n] \notin {"connected", "restart", "clear"}
  BY <1>2, FdFacts DEF TableInv, Held, StdOpen
<1> QED
  BY <1>1, <1>2

(***************************************************************************)
(* A node never reads or writes another one's connection, nor the pipe,    *)
(* though both nodes and mk_popen take descriptors out of one table and    *)
(* give them back (authentication.c:35-38).                                *)
(***************************************************************************)
THEOREM DescriptorsAreOwn == Spec => []OwnDescriptor
<1>1. Init => TypeOK /\ TableInv
  BY TypeInit, TableInit
<1>2. TypeOK /\ TableInv /\ [Next]_vars => (TypeOK /\ TableInv)'
  BY TypeStep, TableStep
<1>3. TypeOK /\ TableInv => OwnDescriptor
  BY TableGivesOwn
<1> QED
  BY <1>1, <1>2, <1>3, PTL DEF Spec

-----------------------------------------------------------------------------
(***************************************************************************)
(* How many descriptors a node has in use: one for each connect that       *)
(* failed, and its connection.                                             *)
(***************************************************************************)
Holding(n) == pc[n] \in {"connect", "connected", "restart"}

Counted(n) == Cardinality(InUse(n)) = failed[n] + (IF Holding(n) THEN 1 ELSE 0)

CountInv == \A n \in Node : Counted(n)

LEMMA InUseFinite ==
    ASSUME NEW n \in Node
    PROVE  IsFiniteSet(InUse(n)) /\ Cardinality(InUse(n)) \in Nat
<1>1. IsFiniteSet(Fd)
  BY ProcessAssumption, FS_Interval DEF Fd
<1> QED
  BY <1>1, FS_Subset, FS_CardinalityType DEF InUse

LEMMA CountInit == Init => CountInv
<1> SUFFICES ASSUME Init, NEW n \in Node PROVE Counted(n)
  BY DEF CountInv
<1>1. InUse(n) = {}
  BY DEF Init, InUse, Node
<1>2. Cardinality({}) = 0
  BY FS_EmptySet
<1>3. ~Holding(n) /\ failed[n] = 0
  BY DEF Init, Holding, Again
<1> QED
  BY <1>1, <1>2, <1>3 DEF Counted

(* A step that gives n no descriptor, takes none and counts none. *)
LEMMA CountSame ==
    ASSUME NEW n \in Node, Counted(n), failed'[n] = failed[n], Holding(n)' <=> Holding(n),
           \A d \in Fd : table'[d] = n <=> table[d] = n
    PROVE  Counted(n)'
<1>1. InUse(n)' = InUse(n)
  BY DEF InUse
<1> QED
  BY <1>1 DEF Counted

LEMMA CountStep == TypeOK /\ TableInv /\ CountInv /\ [Next]_vars => CountInv'
<1> SUFFICES ASSUME TypeOK, TableInv, CountInv, [Next]_vars, NEW n \in Node PROVE Counted(n)'
  BY DEF CountInv
<1> USE DEF vars, nodeVars, popen, Go, At
<1>0. /\ table \in [Fd -> {"closed", "std", "pipe"} \union Node]
      /\ pc \in [Node -> NodeStates]
      /\ fd \in [Node -> Fd] /\ failed \in [Node -> Nat]
      /\ link.read \in Fd /\ link.write \in Fd
      /\ n \notin {"closed", "std", "pipe"}
      /\ Counted(n)
  BY DEF TypeOK, CountInv, Node
<1>1. CASE UNCHANGED <<table, pc, failed>>
  BY <1>0, <1>1, CountSame DEF Holding
<1>2. CASE IgnoreSigpipe
  BY <1>0, <1>2, CountSame DEF Holding, IgnoreSigpipe
<1>3. CASE OpenPipe
  <2>1. CASE Cardinality(Closed) < 2
    BY <1>0, <1>3, <2>1, CountSame DEF Holding, OpenPipe
  <2>2. CASE ~ (Cardinality(Closed) < 2)
    <3> DEFINE r == Lowest(Closed)
               w == Lowest(Closed \ {r})
    <3>1. r \in Fd /\ w \in Fd /\ table[r] = "closed" /\ table[w] = "closed"
      BY <2>2, SecondClosed, LowestClosed
    <3>2. /\ table' = [table EXCEPT ![r] = "pipe", ![w] = "pipe"]
          /\ pc["remote"] = "pipe" /\ pc' = [pc EXCEPT !["remote"] = "fork"]
          /\ failed' = failed
      BY <1>3, <2>2 DEF OpenPipe
    <3> HIDE DEF r, w
    <3>3. \A d \in Fd : table'[d] = n <=> table[d] = n
      BY <1>0, <3>1, <3>2
    <3>4. Holding(n)' <=> Holding(n)
      BY <1>0, <3>2 DEF Holding
    <3> QED
      BY <1>0, <3>2, <3>3, <3>4, CountSame
  <2> QED
    BY <2>1, <2>2
<1>4. CASE Fork \/ WaitPid \/ ReadEnds \/ ReadFails
  BY <1>0, <1>4, CountSame DEF Holding, Fork, WaitPid, ReadEnds, ReadFails
<1>5. CASE ForkFails \/ CloseWrite \/ CloseRead
  <2>1. pc["remote"] = "fork" => table[link.read] = "pipe" /\ table[link.write] = "pipe"
    BY <1>0 DEF TableInv, PipeInv, PipeEnd
  <2>2. pc["remote"] = "parent" => table[link.write] = "pipe"
    BY <1>0 DEF TableInv, PipeInv, PipeEnd
  <2>3. pc["remote"] = "close" => table[link.read] = "pipe"
    BY <1>0 DEF TableInv, PipeInv, PipeEnd
  <2>4. \A d \in Fd : table'[d] = n <=> table[d] = n
    BY <1>0, <1>5, <2>1, <2>2, <2>3 DEF ForkFails, CloseWrite, CloseRead
  <2>5. Holding(n)' <=> Holding(n)
    BY <1>0, <1>5 DEF Holding, ForkFails, CloseWrite, CloseRead
  <2>6. failed' = failed
    BY <1>5 DEF ForkFails, CloseWrite, CloseRead
  <2> QED
    BY <1>0, <2>4, <2>5, <2>6, CountSame
<1>6. CASE ReadPipe \/ ChildPrints \/ ChildEnds
  BY <1>1, <1>6 DEF ReadPipe, ChildPrints, ChildEnds
<1>7. ASSUME NEW m \in Node, Socket(m) PROVE Counted(n)'
  <2> DEFINE d == Lowest(Closed)
  <2>1. d \in Fd /\ table[d] = "closed"
    BY <1>7, LowestClosed DEF Socket
  <2>2. /\ table' = [table EXCEPT ![d] = m] /\ failed' = failed
        /\ pc[m] = "socket" /\ pc' = [pc EXCEPT ![m] = "connect"]
    BY <1>7 DEF Socket
  <2> HIDE DEF d
  <2>3. CASE n # m
    <3>1. \A e \in Fd : table'[e] = n <=> table[e] = n
      BY <1>0, <2>1, <2>2, <2>3
    <3>2. Holding(n)' <=> Holding(n)
      BY <1>0, <2>2, <2>3 DEF Holding
    <3> QED
      BY <1>0, <2>2, <3>1, <3>2, CountSame
  <2>4. CASE n = m
    <3>1. InUse(n)' = InUse(n) \union {d} /\ d \notin InUse(n)
      BY <1>0, <2>1, <2>2, <2>4 DEF InUse
    <3>2. Cardinality(InUse(n)') = Cardinality(InUse(n)) + 1
      BY <3>1, InUseFinite, FS_AddElement
    <3>3. Holding(n)' /\ ~Holding(n)
      BY <1>0, <2>2, <2>4 DEF Holding
    <3> QED
      BY <1>0, <2>2, <3>2, <3>3 DEF Counted
  <2> QED
    BY <2>3, <2>4
<1>8. ASSUME NEW m \in Node, SocketFails(m) \/ Connect(m) \/ SendFails(m) \/ ClearFd(m)
      PROVE  Counted(n)'
  <2>1. Holding(n)' <=> Holding(n)
    BY <1>0, <1>8 DEF Holding, SocketFails, Connect, SendFails, ClearFd, Again
  <2>2. table' = table /\ failed' = failed
    BY <1>8 DEF SocketFails, Connect, SendFails, ClearFd
  <2> QED
    BY <1>0, <2>1, <2>2, CountSame
<1>9. ASSUME NEW m \in Node, ConnectFails(m) PROVE Counted(n)'
  <2>1. /\ table' = table /\ failed' = [failed EXCEPT ![m] = @ + 1]
        /\ pc[m] = "connect" /\ pc' = [pc EXCEPT ![m] = Again(m)]
    BY <1>9 DEF ConnectFails
  <2>2. CASE n # m
    <3>1. failed'[n] = failed[n] /\ (Holding(n)' <=> Holding(n))
      BY <1>0, <2>1, <2>2 DEF Holding
    <3> QED
      BY <1>0, <2>1, <3>1, CountSame
  <2>3. CASE n = m
    <3>1. InUse(n)' = InUse(n)
      BY <2>1 DEF InUse
    <3>2. Holding(n) /\ ~Holding(n)'
      BY <1>0, <2>1, <2>3 DEF Holding, Again
    <3>3. failed'[n] = failed[n] + 1
      BY <1>0, <2>1, <2>3
    <3> QED
      BY <1>0, <3>1, <3>2, <3>3 DEF Counted
  <2> QED
    BY <2>2, <2>3
<1>10. ASSUME NEW m \in Node, CloseFd(m) PROVE Counted(n)'
  <2>1. /\ table' = [table EXCEPT ![fd[m]] = "closed"] /\ failed' = failed
        /\ pc[m] = "restart" /\ pc' = [pc EXCEPT ![m] = "clear"]
    BY <1>10 DEF CloseFd
  <2>2. fd[m] \in Fd /\ table[fd[m]] = m
    BY <1>0, <2>1 DEF TableInv, Held
  <2>3. CASE n # m
    <3>1. \A e \in Fd : table'[e] = n <=> table[e] = n
      BY <1>0, <2>1, <2>2, <2>3
    <3>2. Holding(n)' <=> Holding(n)
      BY <1>0, <2>1, <2>3 DEF Holding
    <3> QED
      BY <1>0, <2>1, <3>1, <3>2, CountSame
  <2>4. CASE n = m
    <3>1. InUse(n)' = InUse(n) \ {fd[n]} /\ fd[n] \in InUse(n)
      BY <1>0, <2>1, <2>2, <2>4 DEF InUse
    <3>2. Cardinality(InUse(n)') = Cardinality(InUse(n)) - 1
      BY <3>1, InUseFinite, FS_RemoveElement
    <3>3. Holding(n) /\ ~Holding(n)'
      BY <1>0, <2>1, <2>4 DEF Holding
    <3> QED
      BY <1>0, <2>1, <3>2, <3>3 DEF Counted
  <2> QED
    BY <2>3, <2>4
<1>11. ASSUME NEW m \in Node, ServerStops(m) \/ ServerStarts(m) \/ Register(m) PROVE Counted(n)'
  BY <1>1, <1>11 DEF ServerStops, ServerStarts, Register
<1>12. CASE UNCHANGED vars
  BY <1>1, <1>12
<1> QED
  BY <1>2, <1>3, <1>4, <1>5, <1>6, <1>7, <1>8, <1>9, <1>10, <1>11, <1>12
     DEF Next, MkPopen, PopenFails, Child, ClientInit, Restart

LEMMA CountGivesInUse == TypeOK /\ TableInv /\ CountInv => DescriptorsInUse
<1> SUFFICES ASSUME TypeOK, TableInv, CountInv PROVE DescriptorsInUse
  OBVIOUS
<1>1. \A n \in Node :
         Cardinality(InUse(n)) = failed[n] + (IF pc[n] \in {"connect", "connected", "restart"} THEN 1 ELSE 0)
  BY DEF CountInv, Counted, Holding
<1>2. pc["remote"] \notin PopenStates => \A d \in Fd : table[d] # "pipe"
  BY DEF TableInv, PipeInv, PipeEnd, PopenStates
<1> QED
  BY <1>1, <1>2 DEF DescriptorsInUse

LEMMA InvInit == Init => TypeOK /\ TableInv /\ CountInv
  BY TypeInit, TableInit, CountInit

LEMMA InvStep ==
    TypeOK /\ TableInv /\ CountInv /\ [Next]_vars => (TypeOK /\ TableInv /\ CountInv)'
  BY TypeStep, TableStep, CountStep

(***************************************************************************)
(* However often connections are lost and whatever mk_popen meets, the     *)
(* descriptors in use are the live connection, the pipe while mk_popen     *)
(* runs, and one for each connect that failed: that leak is the only one   *)
(* (client.c:53, 90; common.c:25-91).                                      *)
(***************************************************************************)
THEOREM OnlyFailuresLeak == Spec => []DescriptorsInUse
  BY InvInit, InvStep, CountGivesInUse, PTL DEF Spec

-----------------------------------------------------------------------------
(***************************************************************************)
(* The end of the process.                                                 *)
(***************************************************************************)
EndInv ==
    /\ pc["local"] # "signal" => ignored
    /\ EndsOnlyExhausted

LEMMA UnionBound ==
    ASSUME NEW S, NEW T, IsFiniteSet(S), IsFiniteSet(T)
    PROVE  /\ IsFiniteSet(S \union T)
           /\ Cardinality(S \union T) <= Cardinality(S) + Cardinality(T)
<1>1. Cardinality(S) \in Nat /\ Cardinality(T) \in Nat
  BY FS_CardinalityType
<1>2. Cardinality(S \cap T) \in Nat
  BY FS_Subset, FS_CardinalityType
<1>3. /\ IsFiniteSet(S \union T)
      /\ Cardinality(S \union T) = Cardinality(S) + Cardinality(T) - Cardinality(S \cap T)
  BY FS_Union
<1> QED
  BY <1>1, <1>2, <1>3

(* When nothing is left, all but the pipe, or a connection of the remote   *)
(* node, went to failed connects.                                          *)
LEMMA NoneLeft ==
    ASSUME TypeOK, TableInv, CountInv, Closed = {}, pc["local"] = "socket"
    PROVE  Exhausted
<1> DEFINE R == InUse("remote")
           L == InUse("local")
           P == {d \in Fd : table[d] = "pipe"}
<1>0. "local" \in Node /\ "remote" \in Node
  BY DEF Node
<1>1. /\ IsFiniteSet(R) /\ IsFiniteSet(L) /\ IsFiniteSet(P)
      /\ Cardinality(R) \in Nat /\ Cardinality(L) \in Nat /\ Cardinality(P) \in Nat
  <2>1. IsFiniteSet(Fd)
    BY ProcessAssumption, FS_Interval DEF Fd
  <2> QED
    BY <2>1, <1>0, InUseFinite, FS_Subset, FS_CardinalityType
<1>2. Fd \ Std \subseteq R \union (L \union P)
  <2>1. SUFFICES ASSUME NEW d \in Fd, d \notin Std PROVE d \in R \union (L \union P)
    OBVIOUS
  <2>2. table[d] \in {"closed", "std", "pipe", "remote", "local"}
    BY DEF TypeOK, Node
  <2>3. table[d] # "closed"
    BY DEF Closed
  <2>4. table[d] # "std"
    BY <2>1 DEF TableInv, StdOpen
  <2> QED
    BY <2>2, <2>3, <2>4 DEF InUse
<1>3. Cardinality(L) = failed["local"] /\ failed["local"] \in Nat /\ failed["remote"] \in Nat
  BY <1>0 DEF CountInv, Counted, Holding, TypeOK
<1>4. Cardinality(R) + Cardinality(P) <= failed["remote"] + 2
  <2>1. Cardinality(R) = failed["remote"] + (IF Holding("remote") THEN 1 ELSE 0)
    BY <1>0 DEF CountInv, Counted
  <2>2. CASE Holding("remote")
    <3>1. P = {}
      BY <2>2 DEF TableInv, PipeInv, PipeEnd, Holding
    <3>2. Cardinality(P) = 0
      BY <3>1, FS_EmptySet
    <3> QED
      BY <1>3, <2>1, <2>2, <3>2
  <2>3. CASE ~Holding("remote")
    <3>1. P \subseteq {link.read} \union {link.write}
      BY DEF TableInv, PipeInv, PipeEnd
    <3>2. /\ IsFiniteSet({link.read}) /\ Cardinality({link.read}) = 1
          /\ IsFiniteSet({link.write}) /\ Cardinality({link.write}) = 1
      BY FS_Singleton
    <3>3. /\ IsFiniteSet({link.read} \union {link.write})
          /\ Cardinality({link.read} \union {link.write}) <= 1 + 1
      BY <3>2, UnionBound
    <3>4. /\ Cardinality({link.read} \union {link.write}) \in Nat
          /\ Cardinality(P) <= Cardinality({link.read} \union {link.write})
      BY <3>1, <3>3, FS_Subset, FS_CardinalityType
    <3> QED
      BY <1>1, <1>3, <2>1, <2>3, <3>3, <3>4
  <2> QED
    BY <2>2, <2>3
<1> HIDE DEF R, L, P
<1>5. /\ IsFiniteSet(L \union P) /\ Cardinality(L \union P) \in Nat
      /\ Cardinality(L \union P) <= Cardinality(L) + Cardinality(P)
  BY <1>1, UnionBound, FS_CardinalityType
<1>6. /\ IsFiniteSet(R \union (L \union P)) /\ Cardinality(R \union (L \union P)) \in Nat
      /\ Cardinality(R \union (L \union P)) <= Cardinality(R) + Cardinality(L \union P)
  BY <1>1, <1>5, UnionBound, FS_CardinalityType
<1>7. /\ Cardinality(Fd \ Std) \in Nat
      /\ Cardinality(Fd \ Std) <= Cardinality(R \union (L \union P))
  BY <1>2, <1>6, FS_Subset, FS_CardinalityType
<1> QED
  BY <1>1, <1>3, <1>4, <1>5, <1>6, <1>7 DEF Exhausted

LEMMA EndInit == Init => EndInv
  BY DEF Init, EndInv, EndsOnlyExhausted, Node

LEMMA ExhaustedStays ==
    ASSUME TypeOK, [Next]_vars, Exhausted
    PROVE  Exhausted'
<1>1. failed \in [Node -> Nat] /\ "local" \in Node /\ "remote" \in Node
  BY DEF TypeOK, Node
<1>2. failed'["remote"] \in Nat /\ failed'["local"] \in Nat
  BY <1>1, TypeStep DEF TypeOK
<1>3. failed["remote"] <= failed'["remote"] /\ failed["local"] <= failed'["local"]
  <2>1. failed' = failed \/ \E n \in Node : failed' = [failed EXCEPT ![n] = @ + 1]
    BY DEF Next, MkPopen, PopenFails, Child, ClientInit, Restart, vars, nodeVars, popen,
           IgnoreSigpipe, OpenPipe, Fork, ForkFails, CloseWrite, ReadPipe, ReadEnds, ReadFails,
           CloseRead, WaitPid, ChildPrints, ChildEnds, Socket, SocketFails, Connect, ConnectFails,
           SendFails, CloseFd, ClearFd, Register, ServerStops, ServerStarts
  <2> QED
    BY <1>1, <2>1
<1>4. Cardinality(Fd \ Std) \in Nat
  <2>1. IsFiniteSet(Fd)
    BY ProcessAssumption, FS_Interval DEF Fd
  <2> QED
    BY <2>1, FS_Subset, FS_CardinalityType
<1> QED
  BY <1>1, <1>2, <1>3, <1>4 DEF Exhausted

LEMMA EndStep ==
    ASSUME PromptLocal, TypeOK, TableInv, CountInv, EndInv, [Next]_vars
    PROVE  EndInv'
<1> USE DEF vars, nodeVars, popen, Go, At
<1>1. pc \in [Node -> NodeStates] /\ "local" \in Node
  BY DEF TypeOK, Node
<1>2. status' = status => EndsOnlyExhausted'
  <2>1. Exhausted => Exhausted'
    BY ExhaustedStays
  <2>2. status # "running" => \/ status = "exited" /\ Exhausted
                              \/ status = "smashed" /\ address > AddrLen
    BY DEF EndInv, EndsOnlyExhausted
  <2>3. status # "running" => address' = address
    BY DEF Next, MkPopen, PopenFails, Child, ClientInit, Restart,
           IgnoreSigpipe, OpenPipe, Fork, ForkFails, CloseWrite, ReadPipe, ReadEnds, ReadFails,
           CloseRead, WaitPid, ChildPrints, ChildEnds, Socket, SocketFails, Connect, ConnectFails,
           SendFails, CloseFd, ClearFd, Register, ServerStops, ServerStarts
  <2> QED
    BY <2>1, <2>2, <2>3 DEF EndsOnlyExhausted
<1>3. CASE UNCHANGED <<pc, ignored, status>>
  BY <1>2, <1>3 DEF EndInv
<1>4. CASE IgnoreSigpipe
  BY <1>2, <1>4 DEF EndInv, IgnoreSigpipe
<1>5. CASE MkPopen \/ PopenFails
  <2>1. ignored' = ignored /\ pc'["local"] = pc["local"]
    BY <1>1, <1>5 DEF MkPopen, PopenFails, OpenPipe, Fork, ForkFails, CloseWrite, ReadPipe,
                      ReadEnds, ReadFails, CloseRead, WaitPid
  <2>2. CASE WaitPid
    <3>1. \/ status' = status
          \/ status' = "smashed" /\ address' > AddrLen
      BY <2>2 DEF WaitPid
    <3> QED
      BY <1>2, <2>1, <3>1 DEF EndInv, EndsOnlyExhausted
  <2>3. CASE ~WaitPid
    <3>1. status' = status
      BY <1>5, <2>3 DEF MkPopen, PopenFails, OpenPipe, Fork, ForkFails, CloseWrite, ReadPipe,
                        ReadEnds, ReadFails, CloseRead
    <3> QED
      BY <1>2, <2>1, <3>1 DEF EndInv
  <2> QED
    BY <2>2, <2>3
<1>6. CASE Child
  BY <1>3, <1>6 DEF Child, ChildPrints, ChildEnds
<1>7. ASSUME NEW n \in Node, Socket(n) \/ Connect(n) \/ ConnectFails(n) \/ CloseFd(n) \/ ClearFd(n)
      PROVE  EndInv'
  <2>1. ignored' = ignored /\ status' = status
    BY <1>7 DEF Socket, Connect, ConnectFails, CloseFd, ClearFd
  <2>2. pc'["local"] # "signal" => pc["local"] # "signal"
    BY <1>1, <1>7 DEF Socket, Connect, ConnectFails, CloseFd, ClearFd
  <2> QED
    BY <1>2, <2>1, <2>2 DEF EndInv
<1>8. ASSUME NEW n \in Node, SocketFails(n) PROVE EndInv'
  <2>1. /\ status = "running" /\ ignored' = ignored /\ Closed = {} /\ pc[n] = "socket"
        /\ status' = IF n = "local" THEN "exited" ELSE status
    BY <1>8 DEF SocketFails
  <2>2. pc'["local"] # "signal" => pc["local"] # "signal"
    BY <1>1, <1>8 DEF SocketFails
  <2>3. CASE n = "local"
    <3>1. Exhausted'
      BY <2>1, <2>3, NoneLeft, ExhaustedStays
    <3> QED
      BY <2>1, <2>2, <2>3, <3>1 DEF EndInv, EndsOnlyExhausted
  <2>4. CASE n # "local"
    BY <1>2, <2>1, <2>2, <2>4 DEF EndInv
  <2> QED
    BY <2>3, <2>4
<1>9. ASSUME NEW n \in Node, SendFails(n) PROVE EndInv'
  <2>1. pc["local"] # "signal" /\ ignored' = ignored /\ status' = IF ignored THEN status ELSE "killed"
    BY <1>9 DEF SendFails
  <2>2. ignored
    BY <2>1 DEF EndInv
  <2> QED
    BY <1>2, <2>1, <2>2 DEF EndInv
<1>10. ASSUME NEW n \in Node, ServerStops(n) \/ ServerStarts(n) \/ Register(n) PROVE EndInv'
  BY <1>3, <1>10 DEF ServerStops, ServerStarts, Register
<1>11. CASE UNCHANGED vars
  BY <1>3, <1>11
<1> QED
  BY <1>4, <1>5, <1>6, <1>7, <1>8, <1>9, <1>10, <1>11 DEF Next, ClientInit, Restart

(***************************************************************************)
(* If the local thread ignores SIGPIPE before the remote node first sends, *)
(* descriptors and signals end the process only in the local node's        *)
(* exit(1), and only after so many failed connects that two descriptors at *)
(* most were not lost to them (client.c:89; local.c:77-80); the only other *)
(* end is an address longer than ip_addr (client.c:33, 65).                *)
(***************************************************************************)
THEOREM EndsWhenExhausted == ASSUME PromptLocal PROVE Spec => []EndsOnlyExhausted
<1>1. Init => TypeOK /\ TableInv /\ CountInv /\ EndInv
  BY InvInit, EndInit
<1>2. TypeOK /\ TableInv /\ CountInv /\ EndInv /\ [Next]_vars
        => (TypeOK /\ TableInv /\ CountInv /\ EndInv)'
  BY InvStep, EndStep
<1>3. EndInv => EndsOnlyExhausted
  BY DEF EndInv
<1> QED
  BY <1>1, <1>2, <1>3, PTL DEF Spec
=============================================================================
