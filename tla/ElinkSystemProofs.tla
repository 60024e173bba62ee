-------------------------- MODULE ElinkSystemProofs --------------------------
(***************************************************************************)
(* Theorems about the node, its gateway and the connection, for every      *)
(* capacity, number of connections and number of key pairs.                *)
(***************************************************************************)
EXTENDS ElinkSystem, TLAPS

(* What a stream of messages keeps its type under. *)
LEMMA AppendType ==
    ASSUME NEW S, NEW s \in Seq(S), NEW m \in S
    PROVE  Append(s, m) \in Seq(S)
OBVIOUS

LEMMA TailType ==
    ASSUME NEW S, NEW s \in Seq(S), s # <<>>
    PROVE  /\ Head(s) \in S
           /\ Tail(s) \in Seq(S)
OBVIOUS

(* A fresh key pair is numbered from 1, whatever the last one was. *)
LEMMA NextIdType ==
    ASSUME NEW n \in Nat \ {0}, NEW i \in 0..n
    PROVE  NextId(i, n) \in 1..n
BY DEF NextId

(* A message msg_sent builds is one the gateway may be sent. *)
LEMMA PreparedType ==
    ASSUME NEW type \in {"keyngreq", "dh", "dev_reg", "keepalive", "status", "none"},
           NEW enc \in Keys, NEW pub \in 0..DhIds,
           type = "dh" => pub # 0
    PROVE  Message(type, enc, pub) \in ClientMessages
BY DEF Message, ClientMessages

LEMMA RepliedType ==
    ASSUME NEW type \in {"keyngack", "dh", "ack", "get_status", "none"},
           NEW enc \in Keys, NEW pub \in 0..GwIds,
           type = "dh" => pub # 0
    PROVE  Message(type, enc, pub) \in GatewayMessages
BY DEF Message, GatewayMessages

LEMMA NoMsgType == NoMsg \in ClientMessages /\ NoMsg \in GatewayMessages
<1>1. NoKey \in Keys
  BY DEF Keys, NotComputed
<1> QED
  BY <1>1, PreparedType, RepliedType, LinkAssumption DEF NoMsg

-----------------------------------------------------------------------------
(* Type correctness: one lemma per thread, one step per action. *)

(* Moving one thread to a place of its own keeps the others where they are. *)
LEMMA MoveType ==
    ASSUME PcTypeOK, NEW t \in Threads, NEW place \in Places[t],
           pc' = [pc EXCEPT ![t] = place]
    PROVE  /\ PcTypeOK'
           /\ pc'[t] = place
           /\ \A u \in Threads \ {t} : pc'[u] = pc[u]
BY DEF PcTypeOK, Threads, Authenticators, Places

LEMMA SleepType ==
    ASSUME slow \subseteq Authenticators, NEW t \in Authenticators, NEW place,
           Goto(t, place) \/ Sleep(t, place)
    PROVE  /\ slow' \subseteq Authenticators
           /\ pc' = [pc EXCEPT ![t] = place]
BY DEF Goto, Sleep

LEMMA AuthPlaceType ==
    ASSUME NEW t \in Authenticators
    PROVE  /\ t \in Threads /\ "recv" \in Threads \ {t}
           /\ AuthPlaces \subseteq Places[t]
BY DEF Threads, Authenticators, Places, AuthPlaces, ClientPlaces, HeartPlaces

LEMMA NoKeyType == {NoKey, ZeroKey, BadKey, FreedKey} \subseteq Keys
BY DEF Keys, NotComputed

(* Where an authenticating thread goes. *)
LEMMA AuthenticateMoves ==
    ASSUME TypeOK, NEW t \in Authenticators, Authenticate(t)
    PROVE  /\ PcTypeOK'
           /\ pc'["recv"] = pc["recv"]
           /\ slow' \subseteq Authenticators
<1>1. CASE Crash
  BY <1>1 DEF Crash, TypeOK, ClientTypeOK, PcTypeOK
<1>2. CASE \E place \in Places[t] : Goto(t, place) \/ Sleep(t, place)
  <2>1. PICK place \in Places[t] : Goto(t, place) \/ Sleep(t, place)
    BY <1>2
  <2> QED
    BY <2>1, MoveType, SleepType, AuthPlaceType DEF TypeOK, ClientTypeOK
<1>3. {"check", "send", "advance", "build", Retry(t)} \union InitPlaces \subseteq Places[t]
  BY DEF Places, Authenticators, Retry, AuthPlaces, InitPlaces, RestartPlaces, ClientPlaces, HeartPlaces
<1>4. (IF t = "client" THEN "done" ELSE "idle") \in Places[t]
  BY DEF Places, Authenticators, ClientPlaces, HeartPlaces
<1>5. CASE CheckGoal(t)
  BY <1>2, <1>3, <1>4, <1>5 DEF CheckGoal, Finish
<1>6. CASE BuildRequest(t)
  BY <1>1, <1>2, <1>3, <1>6 DEF BuildRequest
<1>7. CASE SendRequest(t)
  BY <1>2, <1>3, <1>7 DEF SendRequest
<1>8. CASE InitFree(t) \/ InitKeys(t)
  BY <1>1, <1>2, <1>3, <1>8 DEF InitFree, InitKeys, InitPlaces
<1>9. CASE InitNull(t) \/ InitWipe(t) \/ InitState(t) \/ DhGenerate(t) \/ Advance(t)
  BY <1>2, <1>3, <1>9 DEF InitNull, InitWipe, InitState, DhGenerate, Advance, InitPlaces
<1> QED
  BY <1>5, <1>6, <1>7, <1>8, <1>9 DEF Authenticate

LEMMA AuthenticateType ==
    ASSUME TypeOK, NEW t \in Authenticators, Authenticate(t)
    PROVE  TypeOK'
<1>1. /\ PcTypeOK'
      /\ pc'["recv"] = pc["recv"]
      /\ slow' \subseteq Authenticators
  BY AuthenticateMoves
<1>2. t \in Threads
  BY DEF Threads
<1> USE <1>1, LinkAssumption
    DEF TypeOK, ClientTypeOK, LinkTypeOK, linkVars, nodeVars, Goals
<1>0. {0, Bare, Dangling} \subseteq 0..Dangling /\ \A i \in 0..DhIds : NextId(i, DhIds) \in 0..DhIds
  BY NextIdType DEF Bare, Dangling
<1>a. 0..DhIds \subseteq 0..Dangling
  BY DEF Dangling
<1>b. CASE Crash
  BY <1>b DEF Crash
<1>3. CASE (InitFree(t) \/ InitKeys(t) \/ InitNull(t)) /\ ~Crash
  BY <1>0, <1>3, NoKeyType DEF InitFree, InitKeys, InitNull
<1>4. CASE InitWipe(t) \/ InitState(t)
  BY <1>0, <1>4, NoKeyType, NoMsgType DEF InitWipe, InitState, LinkStates
<1>5. CASE DhGenerate(t)
  <2>1. lastDh' \in 0..DhIds /\ p_dh' \in 0..Dangling
    BY <1>0, <1>a, <1>5 DEF DhGenerate
  <2> QED
    BY <1>5, <2>1 DEF DhGenerate
<1>6. CASE CheckGoal(t)
  BY <1>6 DEF CheckGoal, NextGoal
<1>7. CASE BuildRequest(t)
  <2>1. CASE Crash
    BY <2>1 DEF Crash
  <2>2. CASE ~Crash
    <3> DEFINE pub == IF goal[t] = "key_exc_e" THEN p_dh ELSE 0
               m == Message(Request[goal[t]], p_shared_key, pub)
    <3>1. m \in ClientMessages
      <4>1. pub \in 0..DhIds /\ (Request[goal[t]] = "dh" => pub # 0)
        BY <1>7, <2>2 DEF BuildRequest, Request, KeyPairs
      <4>2. Request[goal[t]] \in {"keyngreq", "dh", "dev_reg"}
        BY DEF Request
      <4> HIDE DEF pub
      <4> QED
        BY <4>1, <4>2, PreparedType
    <3>2. out' = [out EXCEPT ![t] = m] /\ UNCHANGED <<linkVars, nodeVars, goal, rmsg, rdh, lastDh, crashed>>
      BY <1>7, <2>2 DEF BuildRequest, Prepare
    <3> HIDE DEF m
    <3>3. out' \in [Threads -> ClientMessages]
      BY <3>1, <3>2, <1>2
    <3> QED
      BY <3>2, <3>3
  <2> QED
    BY <2>1, <2>2
<1>8. CASE SendRequest(t)
  <2>1. toGw' \in Seq(ClientMessages) /\ out' \in [Threads -> ClientMessages]
    BY <1>2, <1>8, AppendType, NoMsgType DEF SendRequest, Transmit
  <2>2. UNCHANGED <<net, nconn, toCli, session, lastGw, nodeVars, rmsg, rdh, lastDh, crashed>>
    BY <1>8 DEF SendRequest, Transmit
  <2>3. goal' \in [Authenticators -> Goals]
    BY <1>8 DEF SendRequest
  <2> QED
    BY <2>1, <2>2, <2>3
<1>9. CASE Advance(t)
  BY <1>9 DEF Advance, LinkStates
<1> QED
  BY <1>b, <1>3, <1>4, <1>5, <1>6, <1>7, <1>8, <1>9 DEF Authenticate

LEMMA OpenType ==
    ASSUME LinkTypeOK, Open
    PROVE  LinkTypeOK' /\ nconn' \in 0..MaxConn
BY LinkAssumption, NoKeyType DEF LinkTypeOK, Open, NetStates, NewSession, Sessions

(* client_send_buf, whichever thread calls it *)
LEMMA TransmitType ==
    ASSUME LinkTypeOK, out \in [Threads -> ClientMessages],
           NEW t \in Threads, Transmit(t)
    PROVE  LinkTypeOK' /\ out' \in [Threads -> ClientMessages]
BY AppendType, NoMsgType DEF LinkTypeOK, Transmit

LEMMA PrepareType ==
    ASSUME p_shared_key \in Keys, out \in [Threads -> ClientMessages],
           NEW t \in Threads, NEW type \in {"keepalive", "status"},
           Prepare(t, type, 0)
    PROVE  out' \in [Threads -> ClientMessages]
<1>1. Message(type, p_shared_key, 0) \in ClientMessages
  BY PreparedType, LinkAssumption
<1> QED
  BY <1>1 DEF Prepare

LEMMA StartType ==
    ASSUME TypeOK, Start
    PROVE  TypeOK'
<1>1. LinkTypeOK' /\ nconn' \in 0..MaxConn
  BY OpenType DEF Start, TypeOK
<1>2. PcTypeOK' /\ pc'["recv"] = "idle"
  BY DEF Start, PcTypeOK, Threads, Authenticators, Places, ClientPlaces,
         HeartPlaces, RecvPlaces, AuthPlaces, InitPlaces
<1> QED
  BY <1>1, <1>2 DEF Start, TypeOK, ClientTypeOK, LinkStates

(* The steps of the heart thread outside start_authentication *)
HeartAlone ==
    HeartCheck \/ HeartBuild \/ HeartSend
    \/ RestartClose \/ RestartZero \/ RestartConnect \/ RestartState

LEMMA HeartMoves ==
    ASSUME TypeOK, HeartAlone
    PROVE  /\ PcTypeOK'
           /\ pc'["recv"] = pc["recv"]
           /\ slow' \subseteq Authenticators
<1>1. "heart" \in Authenticators
  BY DEF Authenticators
<1>2. PICK place \in Places["heart"] : Goto("heart", place) \/ Sleep("heart", place)
  <2>1. {"beat", "beatsend", "idle", "close", "zero", "connect", "state", "free"}
            \subseteq Places["heart"]
    BY DEF Places, HeartPlaces, RestartPlaces, AuthPlaces, InitPlaces
  <2> QED
    BY <2>1 DEF HeartAlone, HeartCheck, HeartBuild, HeartSend, RestartClose,
                RestartZero, RestartConnect, RestartState
<1> QED
  BY <1>1, <1>2, MoveType, SleepType, AuthPlaceType DEF TypeOK, ClientTypeOK

LEMMA HeartType ==
    ASSUME TypeOK, HeartAlone
    PROVE  TypeOK'
<1>1. /\ PcTypeOK'
      /\ pc'["recv"] = pc["recv"]
      /\ slow' \subseteq Authenticators
  BY HeartMoves
<1>2. "heart" \in Threads
  BY DEF Threads, Authenticators
<1> USE <1>1, LinkAssumption DEF TypeOK, ClientTypeOK, nodeVars
<1>3. CASE HeartCheck
  BY <1>3 DEF HeartCheck, LinkTypeOK, linkVars
<1>4. CASE HeartBuild
  BY <1>2, <1>4, PrepareType DEF HeartBuild, LinkTypeOK, linkVars
<1>5. CASE HeartSend
  <2>1. LinkTypeOK' /\ out' \in [Threads -> ClientMessages]
    BY <1>2, <1>5, TransmitType DEF HeartSend
  <2> QED
    BY <1>5, <2>1 DEF HeartSend
<1>6. CASE RestartClose
  BY <1>6 DEF RestartClose, LinkTypeOK, NetStates
<1>7. CASE RestartZero
  BY <1>7 DEF RestartZero, LinkTypeOK, linkVars
<1>8. CASE RestartConnect
  <2>1. LinkTypeOK' /\ nconn' \in 0..MaxConn
    BY <1>8, OpenType DEF RestartConnect
  <2> QED
    BY <1>8, <2>1 DEF RestartConnect
<1>9. CASE RestartState
  BY <1>9 DEF RestartState, LinkStates, LinkTypeOK, linkVars
<1> QED
  BY <1>3, <1>4, <1>5, <1>6, <1>7, <1>8, <1>9 DEF HeartAlone

(* data_distribution returns *)
LEMMA HandlerDoneType ==
    ASSUME PcTypeOK, HandlerDone
    PROVE  /\ PcTypeOK' /\ pc'["recv"] = "idle"
           /\ slow' \subseteq Authenticators
           /\ rmsg' \in GatewayMessages
           /\ rdh' \in 0..Dangling
<1>1. "recv" \in Threads /\ "idle" \in Places["recv"]
  BY DEF Threads, Places, RecvPlaces
<1>2. PcTypeOK' /\ pc'["recv"] = "idle"
  BY <1>1, MoveType DEF HandlerDone
<1>3. rmsg' \in GatewayMessages
  BY NoMsgType DEF HandlerDone
<1> QED
  BY <1>2, <1>3, LinkAssumption DEF HandlerDone, Dangling

LEMMA RecvGotoType ==
    ASSUME TypeOK, NEW place \in RecvPlaces, Goto("recv", place)
    PROVE  /\ PcTypeOK' /\ pc'["recv"] = place
           /\ slow' \subseteq Authenticators
<1>1. "recv" \in Threads /\ place \in Places["recv"]
  BY DEF Threads, Places
<1> QED
  BY <1>1, MoveType DEF Goto, TypeOK, ClientTypeOK

LEMMA RecvType ==
    ASSUME TypeOK, RecvThread
    PROVE  TypeOK'
<1>1. "recv" \in Threads
  BY DEF Threads
<1>2. {"idle", "got", "keyngack", "dh", "compute", "exchanged", "ack",
       "register", "get_status", "reply"} \subseteq RecvPlaces
  BY DEF RecvPlaces
<1> USE LinkAssumption DEF TypeOK, ClientTypeOK, nodeVars, At
<1>3. CASE Crash
  BY <1>3 DEF Crash, LinkTypeOK, linkVars, PcTypeOK
<1>4. CASE Receive
  <2>1. PcTypeOK' /\ pc'["recv"] = "got" /\ slow' \subseteq Authenticators
    BY <1>2, <1>4, RecvGotoType DEF Receive
  <2>2. rmsg' \in GatewayMessages /\ toCli' \in Seq(GatewayMessages)
    BY <1>4, TailType DEF Receive, LinkTypeOK
  <2> QED
    BY <1>4, <2>1, <2>2 DEF Receive, LinkTypeOK
<1>5. CASE Distribute
  <2> DEFINE ok == /\ rmsg.enc = p_shared_key
                   /\ rmsg.type \in {"keyngack", "dh", "ack", "get_status"}
  <2>1. CASE ~ok
    BY <1>5, <2>1, HandlerDoneType DEF Distribute, LinkTypeOK, linkVars
  <2>2. CASE ok
    <3>1. PcTypeOK' /\ pc'["recv"] = rmsg.type /\ slow' \subseteq Authenticators
      BY <1>2, <1>5, <2>2, RecvGotoType DEF Distribute
    <3>2. rmsg' = rmsg /\ rdh' = rdh /\ UNCHANGED <<linkVars, nodeVars, goal, out, lastDh, crashed>>
      BY <1>5, <2>2 DEF Distribute
    <3> QED
      BY <2>2, <3>1, <3>2 DEF LinkTypeOK, linkVars
  <2> QED
    BY <2>1, <2>2
<1>6. CASE RecvKeyngack
  BY <1>6, HandlerDoneType DEF RecvKeyngack, LinkTypeOK, linkVars, LinkStates
<1>7. CASE DhAlloc /\ ~Crash
  <2>1. PcTypeOK' /\ pc'["recv"] = "compute" /\ slow' \subseteq Authenticators
    BY <1>2, <1>7, RecvGotoType DEF DhAlloc
  <2> QED
    BY <1>7, <2>1, NoKeyType DEF DhAlloc, LinkTypeOK, linkVars
<1>8. CASE DhCompute /\ ~Crash
  <2>1. PcTypeOK' /\ pc'["recv"] = "exchanged" /\ slow' \subseteq Authenticators
    BY <1>2, <1>8, RecvGotoType DEF DhCompute
  <2>2. rmsg.pub \in 1..GwIds
    BY <1>8 DEF DhCompute, GatewayMessages
  <2>3. p_shared_key' \in Keys
    BY <1>8, <2>2, NoKeyType DEF DhCompute, Intact, KeyPairs, Keys
  <2> QED
    BY <1>8, <2>1, <2>3 DEF DhCompute, LinkTypeOK, linkVars
<1>9. CASE DhExchanged
  BY <1>9, HandlerDoneType DEF DhExchanged, LinkTypeOK, linkVars, LinkStates
<1>10. CASE AckCheck
  <2>1. CASE HandlerDone
    BY <1>10, <2>1, HandlerDoneType DEF AckCheck, LinkTypeOK, linkVars
  <2>2. CASE Goto("recv", "register") /\ UNCHANGED <<rmsg, rdh>>
    BY <1>2, <1>10, <2>2, RecvGotoType DEF AckCheck, LinkTypeOK, linkVars
  <2> QED
    BY <1>10, <2>1, <2>2 DEF AckCheck
<1>11. CASE AckRegister
  BY <1>11, HandlerDoneType DEF AckRegister, LinkTypeOK, linkVars, LinkStates
<1>12. CASE StatusBuild
  BY <1>1, <1>2, <1>12, RecvGotoType, PrepareType DEF StatusBuild, LinkTypeOK, linkVars
<1>13. CASE StatusSend
  BY <1>1, <1>13, HandlerDoneType, TransmitType DEF StatusSend
<1> QED
  BY <1>3, <1>4, <1>5, <1>6, <1>7, <1>8, <1>9, <1>10, <1>11, <1>12, <1>13
  DEF RecvThread

LEMMA ReplyType ==
    ASSUME LinkTypeOK,
           NEW type \in {"keyngack", "dh", "ack", "get_status"}, NEW pub \in 0..GwIds,
           type = "dh" => pub # 0,
           Reply(type, pub)
    PROVE  toCli' \in Seq(GatewayMessages)
<1>1. Message(type, session.key, pub) \in GatewayMessages
  BY RepliedType DEF LinkTypeOK, Sessions
<1> QED
  BY <1>1, AppendType DEF Reply, LinkTypeOK

LEMMA GatewayType ==
    ASSUME LinkTypeOK, GwHandle \/ GwRequest
    PROVE  LinkTypeOK'
<1> USE LinkAssumption
<1>1. CASE GwRequest
  <2>1. toCli' \in Seq(GatewayMessages)
    BY <1>1, ReplyType DEF GwRequest
  <2> QED
    BY <1>1, <2>1 DEF GwRequest, LinkTypeOK
<1>2. CASE GwHandle
  <2> DEFINE m == Head(toGw)
  <2>1. toGw' \in Seq(ClientMessages) /\ m \in ClientMessages /\ UNCHANGED <<net, nconn>>
    BY <1>2, TailType DEF GwHandle, LinkTypeOK
  <2>2. SUFFICES toCli' \in Seq(GatewayMessages) /\ session' \in Sessions /\ lastGw' \in 0..GwIds
    BY <2>1 DEF LinkTypeOK
  <2> HIDE DEF m
  <2>3. CASE GwNegotiate(m)
    <3>1. toCli' \in Seq(GatewayMessages)
      BY <2>3, ReplyType DEF GwNegotiate
    <3> QED
      BY <2>3, <3>1 DEF GwNegotiate, LinkTypeOK, Sessions
  <2>4. CASE GwExchange(m)
    <3>1. lastGw' \in 1..GwIds
      BY <2>4, NextIdType DEF GwExchange, LinkTypeOK
    <3>2. toCli' \in Seq(GatewayMessages)
      BY <2>4, <3>1, ReplyType DEF GwExchange
    <3>3. [dh |-> m.pub, gw |-> lastGw'] \in Keys
      BY <2>1, <2>4, <3>1 DEF GwExchange, Keys, ClientMessages
    <3> QED
      BY <2>4, <3>1, <3>2, <3>3 DEF GwExchange, LinkTypeOK, Sessions
  <2>5. CASE GwRegister(m)
    <3>1. toCli' \in Seq(GatewayMessages)
      BY <2>5, ReplyType DEF GwRegister
    <3> QED
      BY <2>5, <3>1 DEF GwRegister, LinkTypeOK, Sessions
  <2>6. CASE GwKeepalive(m)
    <3>1. toCli' \in Seq(GatewayMessages)
      BY <2>6, ReplyType DEF GwKeepalive, LinkTypeOK
    <3> QED
      BY <2>6, <3>1 DEF GwKeepalive, LinkTypeOK
  <2>7. CASE GwIgnore(m)
    BY <2>7 DEF GwIgnore, LinkTypeOK
  <2> QED
    BY <1>2, <2>3, <2>4, <2>5, <2>6, <2>7 DEF GwHandle, m
<1> QED
  BY <1>1, <1>2

LEMMA ClientTypeKept ==
    ASSUME ClientTypeOK, UNCHANGED clientVars
    PROVE  ClientTypeOK'
BY DEF ClientTypeOK, PcTypeOK, clientVars, nodeVars, threadVars

LEMMA TypeInit == Init => TypeOK
<1> SUFFICES ASSUME Init PROVE TypeOK
  OBVIOUS
<1>1. NoKey \in Keys
  BY NoKeyType
<1>2. LinkTypeOK
  BY <1>1, LinkAssumption DEF Init, LinkInit, LinkTypeOK, NetStates, Sessions, NewSession
<1>3. PcTypeOK
  BY DEF Init, ClientInit, PcTypeOK, Threads, Authenticators, Places,
         ClientPlaces, HeartPlaces, RecvPlaces
<1>4. pc["recv"] = "none"
  BY DEF Init, ClientInit
<1>5. out \in [Threads -> ClientMessages] /\ rmsg \in GatewayMessages
  BY NoMsgType DEF Init, ClientInit
<1>6. ClientTypeOK
  <2>1. /\ link_state \in LinkStates /\ fd \in 0..MaxConn /\ p_shared_key \in Keys
        /\ p_dh \in 0..Dangling /\ rdh \in 0..Dangling /\ lastDh \in 0..DhIds
    BY <1>1, LinkAssumption DEF Init, ClientInit, LinkStates, Dangling
  <2>2. /\ goal \in [Authenticators -> Goals]
        /\ slow \subseteq Authenticators
        /\ crashed \in BOOLEAN
    BY DEF Init, ClientInit, Goals
  <2> QED
    BY <1>3, <1>4, <1>5, <2>1, <2>2 DEF ClientTypeOK
<1> QED
  BY <1>2, <1>6 DEF TypeOK

(***************************************************************************)
(* Every variable keeps its type: in particular no message under a key     *)
(* that is not one, no handler on a message of another kind, and every     *)
(* thread in a place of its own code.                                      *)
(***************************************************************************)
THEOREM TypeCorrect == Spec => []TypeOK
<1>1. Init => TypeOK
  BY TypeInit
<1>2. TypeOK /\ [Next]_vars => TypeOK'
  <2> SUFFICES ASSUME TypeOK, [Next]_vars PROVE TypeOK'
    OBVIOUS
  <2>1. CASE ClientThread
    BY <2>1, StartType, AuthenticateType DEF ClientThread, Authenticators
  <2>2. CASE HeartThread
    BY <2>2, HeartType, AuthenticateType DEF HeartThread, HeartAlone, Authenticators
  <2>3. CASE RecvThread
    BY <2>3, RecvType
  <2>4. CASE HandleRequest \/ AskStatus
    <3>1. LinkTypeOK'
      BY <2>4, GatewayType DEF HandleRequest, AskStatus, TypeOK
    <3>2. UNCHANGED clientVars
      BY <2>4 DEF HandleRequest, AskStatus
    <3> QED
      BY <3>1, <3>2, ClientTypeKept DEF TypeOK
  <2>5. CASE Drop \/ Notice
    <3>1. LinkTypeOK'
      <4>1. CASE Drop
        BY <4>1 DEF Drop, TypeOK, LinkTypeOK, NetStates
      <4>2. CASE Notice
        BY <4>2 DEF Notice, TypeOK, LinkTypeOK, NetStates
      <4> QED
        BY <2>5, <4>1, <4>2
    <3>2. UNCHANGED clientVars
      BY <2>5 DEF Drop, Notice
    <3> QED
      BY <3>1, <3>2, ClientTypeKept DEF TypeOK
  <2>6. CASE UNCHANGED vars
    BY <2>6 DEF vars, linkVars, clientVars, nodeVars, threadVars, TypeOK,
       ClientTypeOK, LinkTypeOK, PcTypeOK
  <2> QED
    BY <2>1, <2>2, <2>3, <2>4, <2>5, <2>6 DEF Next
<1> QED
  BY <1>1, <1>2, PTL DEF Spec

-----------------------------------------------------------------------------
(***************************************************************************)
(* As long as connections break only after the client thread has           *)
(* registered, one thread at a time authenticates.  That is not inductive: *)
(* the heart thread turns to restarting because a send failed, so a        *)
(* connection that has broken must itself imply that the client thread is  *)
(* done, and the heart thread must not beat before there is a connection.  *)
(* Where a connection breaks in the client thread's last sleep two threads *)
(* authenticate, and what follows from here on does not hold.              *)
(***************************************************************************)
SingleAuthenticator ==
    pc["heart"] \in RestartPlaces \union AuthPlaces => pc["client"] = "done"

BrokenImpliesDone ==
    net \in {"half", "dead", "closed"} => pc["client"] = "done"

BeatingImpliesConnected ==
    net = "none" => pc["heart"] = "none"

AuthInv ==
    /\ SingleAuthenticator
    /\ BrokenImpliesDone
    /\ BeatingImpliesConnected

LEMMA AuthInvStep ==
    ASSUME DropWhen # "any", TypeOK, AuthInv, [Next]_vars
    PROVE  AuthInv'
<1> USE DEF AuthInv, SingleAuthenticator, BrokenImpliesDone,
        BeatingImpliesConnected, At, RestartPlaces, AuthPlaces, InitPlaces
<1>1. /\ "client" \in DOMAIN pc /\ "heart" \in DOMAIN pc /\ "recv" \in DOMAIN pc
      /\ net \in NetStates
  BY DEF TypeOK, ClientTypeOK, LinkTypeOK, PcTypeOK, Threads, Authenticators
<1>2. CASE Start
  BY <1>1, <1>2 DEF Start, Open
<1>3. CASE Authenticate("client")
  <2>1. pc["client"] # "done" /\ pc'["heart"] = pc["heart"] /\ net' = net
    BY <1>1, <1>3 DEF Authenticate, InitFree, InitKeys, InitNull, InitWipe, InitState, DhGenerate, CheckGoal,
       BuildRequest, SendRequest, Advance, Finish, Transmit, Goto, Sleep, Crash, linkVars
  <2> QED
    BY <2>1
<1>4. CASE Authenticate("heart")
  <2>1. pc["client"] = "done"
    BY <1>4 DEF Authenticate, InitFree, InitKeys, InitNull, InitWipe, InitState, DhGenerate, CheckGoal,
       BuildRequest, SendRequest, Advance
  <2>2. pc'["client"] = pc["client"] /\ net' = net
    BY <1>1, <1>4 DEF Authenticate, InitFree, InitKeys, InitNull, InitWipe, InitState, DhGenerate, CheckGoal,
       BuildRequest, SendRequest, Advance, Finish, Transmit, Goto, Sleep, Crash, linkVars
  <2>3. pc["heart"] # "none"
    BY <1>4 DEF Authenticate, InitFree, InitKeys, InitNull, InitWipe, InitState, DhGenerate, CheckGoal,
       BuildRequest, SendRequest, Advance
  <2> QED
    BY <2>1, <2>2, <2>3
<1>5. CASE HeartAlone
  <2>1. pc'["client"] = pc["client"]
    BY <1>1, <1>5 DEF HeartAlone, HeartCheck, HeartBuild, HeartSend, RestartClose,
       RestartZero, RestartConnect, RestartState, Goto, Sleep
  <2>2. CASE HeartCheck \/ HeartBuild
    BY <1>1, <2>1, <2>2 DEF HeartCheck, HeartBuild, Goto, linkVars
  <2>3. CASE HeartSend
    <3>1. SendResult = "broken" => net \in {"dead", "closed"}
      BY <1>1, <2>3 DEF HeartSend, SendResult, NetStates
    <3>2. net' = net /\ pc'["heart"] = IF SendResult = "broken" THEN "close" ELSE "idle"
      BY <1>1, <2>3 DEF HeartSend, Transmit, Goto, Sleep
    <3> QED
      BY <2>1, <2>3, <3>1, <3>2 DEF HeartSend
  <2>4. CASE RestartClose \/ RestartZero \/ RestartConnect \/ RestartState
    BY <1>1, <2>1, <2>4 DEF RestartClose, RestartZero, RestartConnect, RestartState,
       Goto, Open, linkVars
  <2> QED
    BY <1>5, <2>2, <2>3, <2>4 DEF HeartAlone
<1>6. CASE RecvThread
  <2>1. pc'["client"] = pc["client"] /\ pc'["heart"] = pc["heart"] /\ net' = net
    BY <1>1, <1>6 DEF RecvThread, Receive, Distribute, RecvKeyngack, DhAlloc, DhCompute,
       DhExchanged, AckCheck, AckRegister, StatusBuild, StatusSend, HandlerDone,
       Goto, Crash, Transmit, linkVars
  <2> QED
    BY <2>1
<1>7. CASE HandleRequest \/ AskStatus
  BY <1>7 DEF HandleRequest, AskStatus, GwHandle, GwRequest, clientVars, threadVars
<1>8. CASE Drop \/ Notice
  BY <1>8, DropAssumption DEF Drop, Notice, MayDrop, clientVars, threadVars
<1>9. CASE UNCHANGED vars
  BY <1>9 DEF vars, linkVars, clientVars, threadVars
<1> QED
  BY <1>2, <1>3, <1>4, <1>5, <1>6, <1>7, <1>8, <1>9
  DEF Next, ClientThread, HeartThread, HeartAlone

-----------------------------------------------------------------------------
(***************************************************************************)
(* Where the key material is missing or freed, a thread is between freeing *)
(* and generating it; so only recv_dh, which runs beside that thread, and  *)
(* a send_dh_info that goes on after dhkey_init has failed can die of it.  *)
(***************************************************************************)
CrashSite == p_dh = Bare \/ pc["recv"] \in {"dh", "compute"}

MaterialInv ==
    /\ p_dh = 0 => \/ pc["client"] \in {"start"} \union InitPlaces
                   \/ pc["heart"] \in InitPlaces
    /\ p_dh = Dangling =>
         \E t \in Authenticators : pc[t] \in {"keys", "null", "wipe", "reset"}
    /\ p_shared_key = FreedKey => \E t \in Authenticators : pc[t] = "null"
    /\ crashed => CrashSite

LEMMA DhValues ==
    /\ 0 \notin KeyPairs /\ Bare \notin KeyPairs /\ Dangling \notin KeyPairs
    /\ Bare # 0 /\ Dangling # 0 /\ Bare # Dangling
    /\ \A p \in 0..Dangling : p \in KeyPairs \union {0, Bare, Dangling}
    /\ \A i \in 0..DhIds : NextId(i, DhIds) \in KeyPairs
<1>1. DhIds \in Nat \ {0}
  BY LinkAssumption
<1>2. \A i \in 0..DhIds : NextId(i, DhIds) \in KeyPairs
  BY <1>1, NextIdType DEF KeyPairs
<1> QED
  BY <1>1, <1>2 DEF KeyPairs, Bare, Dangling

LEMMA KeyValues ==
    /\ NoKey # ZeroKey /\ NoKey # BadKey /\ NoKey # FreedKey
    /\ ZeroKey # BadKey /\ ZeroKey # FreedKey /\ BadKey # FreedKey
    /\ \A k \in NotComputed, d \in KeyPairs, g \in Nat : k # [dh |-> d, gw |-> g]
BY LinkAssumption DEF NoKey, ZeroKey, BadKey, FreedKey, NotComputed, KeyPairs

LEMMA MaterialStep ==
    ASSUME DropWhen # "any", TypeOK, AuthInv, MaterialInv, [Next]_vars
    PROVE  MaterialInv'
<1> USE DhValues, KeyValues DEF MaterialInv, CrashSite, At, Authenticators
<1>1. /\ DOMAIN pc = {"client", "heart", "recv"}
      /\ pc["client"] \in ClientPlaces /\ pc["heart"] \in HeartPlaces
      /\ p_dh \in 0..Dangling /\ lastDh \in 0..DhIds
  BY DEF TypeOK, ClientTypeOK, LinkTypeOK, PcTypeOK, Threads, Places
<1>2. CASE Start
  BY <1>1, <1>2 DEF Start, InitPlaces, AuthInv, SingleAuthenticator, AuthPlaces
<1>3. ASSUME NEW t \in Authenticators, Authenticate(t) PROVE MaterialInv'
  <2> DEFINE u == IF t = "client" THEN "heart" ELSE "client"
  <2>1. /\ pc[u] \notin InitPlaces \union {"start"}
        /\ t # u /\ u \in Authenticators /\ Authenticators = {t, u}
        /\ ~crashed /\ pc[t] \in AuthPlaces
    <3>1. ~crashed /\ pc[t] \in AuthPlaces
      BY <1>3 DEF Authenticate, InitFree, InitKeys, InitNull, InitWipe, InitState, DhGenerate,
         CheckGoal, BuildRequest, SendRequest, Advance, AuthPlaces, InitPlaces
    <3>2. pc["client"] \in AuthPlaces => pc["client"] # "done" /\ pc["heart"] \notin AuthPlaces
      BY DEF AuthInv, SingleAuthenticator, AuthPlaces, InitPlaces
    <3>3. pc["heart"] \in AuthPlaces => pc["client"] = "done"
      BY DEF AuthInv, SingleAuthenticator
    <3>4. pc["heart"] # "start" /\ InitPlaces \subseteq AuthPlaces /\ "done" \notin InitPlaces
      BY <1>1 DEF HeartPlaces, RestartPlaces, AuthPlaces, InitPlaces
    <3> QED
      BY <3>1, <3>2, <3>3, <3>4
  <2>2. CASE InitFree(t) \/ InitKeys(t)
    BY <1>1, <2>1, <2>2 DEF InitFree, InitKeys, Goto, InitPlaces
  <2>3. CASE InitNull(t) \/ InitWipe(t)
    BY <1>1, <2>1, <2>3 DEF InitNull, InitWipe, Goto, InitPlaces, nodeVars
  <2>4. CASE InitState(t) \/ DhGenerate(t)
    BY <1>1, <2>1, <2>4 DEF InitState, DhGenerate, Goto, InitPlaces
  <2>5. CASE BuildRequest(t)
    BY <1>1, <2>1, <2>5 DEF BuildRequest, Crash, Goto, InitPlaces, nodeVars
  <2>6. CASE CheckGoal(t) \/ SendRequest(t) \/ Advance(t)
    BY <1>1, <2>1, <2>6 DEF CheckGoal, SendRequest, Advance, Finish, Goto, Sleep, InitPlaces, nodeVars
  <2> QED
    BY <1>3, <2>2, <2>3, <2>4, <2>5, <2>6 DEF Authenticate
<1>4. CASE HeartAlone
  BY <1>1, <1>4 DEF HeartAlone, HeartCheck, HeartBuild, HeartSend, RestartClose,
     RestartZero, RestartConnect, RestartState, Goto, Sleep, InitPlaces, nodeVars
<1>5. CASE RecvThread
  <2>1. /\ pc'["client"] = pc["client"] /\ pc'["heart"] = pc["heart"] /\ p_dh' = p_dh
        /\ p_shared_key' = FreedKey => p_shared_key = FreedKey
        /\ ~crashed
        /\ crashed' => pc'["recv"] \in {"dh", "compute"}
    <3>1. CASE Crash
      BY <1>1, <1>5, <3>1 DEF Crash, nodeVars, RecvThread, Receive, Distribute, RecvKeyngack,
         DhAlloc, DhCompute, DhExchanged, AckCheck, AckRegister, StatusBuild, StatusSend
    <3>2. CASE DhAlloc /\ ~Crash
      BY <1>1, <3>2 DEF DhAlloc, Goto
    <3>3. CASE DhCompute /\ ~Crash
      <4>1. p_shared_key' = FreedKey => p_shared_key = FreedKey
        <5>1. CASE Intact /\ p_shared_key' = [dh |-> rdh, gw |-> rmsg.pub]
          BY <5>1 DEF Intact, FreedKey, KeyPairs
        <5> QED
          BY <3>3, <5>1 DEF DhCompute
      <4> QED
        BY <1>1, <3>3, <4>1 DEF DhCompute, Goto
    <3>4. CASE ~Crash /\ ~DhAlloc /\ ~DhCompute
      BY <1>1, <1>5, <3>4 DEF RecvThread, Receive, Distribute, RecvKeyngack, DhExchanged, AckCheck,
         AckRegister, StatusBuild, StatusSend, HandlerDone, Goto, nodeVars
    <3> QED
      BY <3>1, <3>2, <3>3, <3>4
  <2> QED
    BY <2>1
<1>6. CASE HandleRequest \/ AskStatus \/ Drop \/ Notice \/ UNCHANGED vars
  BY <1>6 DEF HandleRequest, AskStatus, Drop, Notice, vars, clientVars, threadVars, nodeVars
<1> QED
  BY <1>2, <1>3, <1>4, <1>5, <1>6 DEF Next, ClientThread, HeartThread, HeartAlone, Authenticators

LEMMA OneByOne ==
    ASSUME DropWhen # "any"
    PROVE  Spec => [](AuthInv /\ MaterialInv)
<1>1. Init => AuthInv /\ MaterialInv
  BY KeyValues, DhValues DEF Init, LinkInit, ClientInit, AuthInv, SingleAuthenticator,
     BrokenImpliesDone, BeatingImpliesConnected, RestartPlaces, AuthPlaces, InitPlaces, MaterialInv
<1>2. TypeOK /\ AuthInv /\ MaterialInv /\ [Next]_vars => AuthInv' /\ MaterialInv'
  BY AuthInvStep, MaterialStep
<1> QED
  BY <1>1, <1>2, TypeCorrect, PTL DEF Spec
=============================================================================
