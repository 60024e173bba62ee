----------------------------- MODULE OrderProofs -----------------------------
(***************************************************************************)
(* What the three threads of a node, its gateway and a connection that may *)
(* break add up to: requests, answers and the link state stay in the order *)
(* of the negotiation.  From that order follow that key material kills the *)
(* process only where dhkey_init failed, that nothing registers in the     *)
(* clear, that the negotiation comes first and that nothing but a restart  *)
(* takes the link state back.                                              *)
(*                                                                         *)
(* For every capacity and number of connections and key pairs, if          *)
(* connections break only once the client thread has registered and, where *)
(* they break, a handler ends before a sleep that began during it.         *)
(***************************************************************************)
EXTENDS ElinkSystemProofs

Gentle == DropWhen # "any" /\ (DropWhen = "never" \/ Timely)

(***************************************************************************)
(* The order of the negotiation: keyngreq and its answer, dh and its       *)
(* answer, then everything else that depends on them.  A status and the    *)
(* request for it have no place in it, nor has a wiped buffer.             *)
(***************************************************************************)
First == {"keyngreq", "keyngack"}
Third == {"dev_reg", "keepalive", "ack"}

MayFollow(a, b) ==
    /\ b \in First => a \notin Third \union {"dh"}
    /\ b = "dh" => a \notin Third

Types(s) == {s[i].type : i \in 1..Len(s)}

Sorted(s) == \A i, j \in 1..Len(s) : i < j => MayFollow(s[i].type, s[j].type)

(* What the link state and the recv thread have seen of the connection. *)
LinkType ==
    IF link_state = "key_exc_e" THEN "dh"
    ELSE IF link_state = "dev_reg_e" THEN "ack" ELSE "none"

Hand ==
    IF pc["recv"] = "got" THEN rmsg.type
    ELSE IF pc["recv"] = "keyngack" THEN "keyngack"
    ELSE IF pc["recv"] \in {"dh", "compute", "exchanged"} THEN "dh"
    ELSE IF pc["recv"] = "register" \/ (pc["recv"] = "ack" /\ LinkType # "none") THEN "ack"
    ELSE "none"

Seen == {LinkType, Hand}
Outs == {out[t].type : t \in Authenticators}

(* Places in start_authentication before and after the first request. *)
New(t) == pc[t] \in {"state"} \union InitPlaces
Greets(t) == pc[t] \in {"reset", "dhgen"}
Asks(t) == pc[t] \in {"check", "build", "send", "advance"}

-----------------------------------------------------------------------------
(* The parts of the inductive invariant. *)

(* The connection and where the threads are. *)
NetInv ==
    /\ net = "none" <=> pc["client"] = "start"
    /\ pc["heart"] = "none" <=> pc["client"] = "start"
    /\ pc["recv"] = "none" <=> pc["client"] = "start"
    /\ net \notin {"up", "half"} => toCli = <<>>
    /\ net # "up" => toGw = <<>>
    /\ pc["heart"] = "close" => net \in {"dead", "closed"}
    /\ pc["heart"] \in {"zero", "connect"} => net = "closed"
    /\ DropWhen = "never" => net \in {"none", "up"}

(* What a thread has built and not sent yet. *)
OutInv ==
    /\ \A t \in Authenticators :
         out[t].type = IF pc[t] = "send" THEN Request[goal[t]]
                       ELSE IF pc[t] = "beatsend" THEN "keepalive" ELSE "none"
    /\ out["recv"].type = IF pc["recv"] = "reply" THEN "status" ELSE "none"

(* A thread that waits for a state is at most one step of it away. *)
AskInv ==
    /\ \A t \in Authenticators : Asks(t) =>
         /\ goal[t] = "key_req_e" => link_state \in {"init_e", "key_req_e"}
         /\ goal[t] = "key_exc_e" => link_state \in {"key_req_e", "key_exc_e"}
         /\ goal[t] = "dev_reg_e" => link_state \in {"key_exc_e", "dev_reg_e"}
         /\ pc[t] = "advance" => goal[t] = "key_req_e"
    /\ \A t \in Authenticators : pc[t] = "dhgen" => link_state = "init_e"
    /\ pc["heart"] \in {"beat", "beatsend"} => link_state = "dev_reg_e"

(* Along the way of a message, from the request to be built over the two   *)
(* streams to the handler and the link state, nothing has been overtaken.  *)
OrderInv ==
    /\ MayFollow(LinkType, Hand)
    /\ \A a \in Seen, b \in Types(toCli) : MayFollow(a, b)
    /\ \A a \in Seen \union Types(toCli), b \in Types(toGw) : MayFollow(a, b)
    /\ \A a \in Seen \union Types(toCli) \union Types(toGw) \union Outs, b \in Outs :
          MayFollow(a, b)
    /\ Sorted(toCli) /\ Sorted(toGw)
    /\ \A t \in Authenticators : Asks(t) =>
          \A a \in Seen \union Types(toCli) \union Types(toGw) \union Outs :
             MayFollow(a, Request[goal[t]])

(* A handler that outlives its connection is a harmless one. *)
QuietPlaces == {"idle", "got", "ack", "get_status", "reply"}

FreshInv ==
    /\ pc["client"] \in {"start"} \union InitPlaces => pc["recv"] \in {"none", "idle"}
    /\ \A t \in Authenticators :
         New(t) =>
            /\ toCli = <<>> /\ Types(toGw) \subseteq {"status"}
            /\ net = "up" => session = NewSession
    /\ \A t \in Authenticators :
         pc[t] \in InitPlaces =>
            /\ link_state \in {"connect_e", "init_e"}
            /\ pc["recv"] \in QuietPlaces
            /\ MayFollow("ack", Hand)
    /\ pc["recv"] = "register" => link_state = "key_exc_e"
    /\ \A t \in Authenticators :
         /\ pc[t] \in {"wipe", "reset", "dhgen"} => p_shared_key = NoKey
         /\ Greets(t) => Hand = "none"
    /\ pc["heart"] \in RestartPlaces =>
         \/ pc["recv"] = "idle"
         \/ pc["heart"] = "close" /\ "heart" \in slow
         \/ link_state = "dev_reg_e" /\ pc["recv"] \in QuietPlaces

(* Whose key material exists, and who needs it: without a key pair of its  *)
(* own a node gets no answer to a "dh" it cannot send.                     *)
NoDh == "dh" \notin Seen \union Types(toCli) \union Types(toGw) \union Outs

KeyInv ==
    /\ link_state \in {"key_exc_e", "dev_reg_e"} \/ pc["recv"] \in {"compute", "exchanged", "register"}
          => p_shared_key # NoKey
    /\ p_dh = Bare => NoDh
    /\ pc["recv"] = "compute" => rdh = p_dh
    /\ crashed => p_dh = Bare

(* What goes out in the clear, and what does not. *)
Proper(m) ==
    /\ m.type = "keyngreq" => m.enc = NoKey
    /\ m.type \in {"dev_reg", "keepalive"} => m.enc # NoKey

AllProper(s) == \A i \in 1..Len(s) : Proper(s[i])

ClearInv ==
    /\ \A t \in Authenticators : Asks(t) /\ goal[t] = "key_req_e" => p_shared_key = NoKey
    /\ \A t \in Threads : Proper(out[t])
    /\ AllProper(toGw)

(* A gateway that has not been asked yet is about to be. *)
Silent ==
    /\ Types(toGw) \subseteq {"status"}
    /\ \E t \in Authenticators :
        \/ New(t)
        \/ /\ Asks(t) /\ goal[t] = "key_req_e" /\ pc[t] # "advance"
           /\ link_state = "init_e" /\ Hand = "none"

NegoInv ==
    net = "up" /\ session.phase = "new" =>
        /\ session.key = NoKey
        /\ toCli = <<>>
        /\ "keyngreq" \in Types(toGw) \/ Silent

(* Nothing is sent that was not built. *)
BuiltInv == "none" \notin Types(toGw)

IInv ==
    /\ TypeOK /\ AuthInv /\ MaterialInv /\ NetInv /\ OutInv /\ AskInv
    /\ OrderInv /\ FreshInv /\ KeyInv /\ ClearInv /\ NegoInv /\ BuiltInv

-----------------------------------------------------------------------------
(* Streams: what a message added or taken changes. *)

LEMMA TypesEmpty == Types(<<>>) = {} /\ Sorted(<<>>)
BY DEF Types, Sorted

LEMMA TypesAppend ==
    ASSUME NEW S, NEW s \in Seq(S), NEW m \in S
    PROVE  Types(Append(s, m)) = Types(s) \union {m.type}
<1>1. /\ Len(Append(s, m)) = Len(s) + 1
      /\ Append(s, m)[Len(s) + 1] = m
      /\ \A i \in 1..Len(s) : Append(s, m)[i] = s[i]
      /\ Len(s) \in Nat
  OBVIOUS
<1>2. 1..(Len(s) + 1) = 1..Len(s) \union {Len(s) + 1}
  BY <1>1
<1> QED  BY <1>1, <1>2 DEF Types

LEMMA TypesTail ==
    ASSUME NEW S, NEW s \in Seq(S), s # <<>>
    PROVE  /\ Head(s).type \in Types(s)
           /\ Types(s) = {Head(s).type} \union Types(Tail(s))
<1>1. /\ Len(s) \in Nat \ {0} /\ Len(Tail(s)) = Len(s) - 1 /\ Head(s) = s[1]
      /\ \A i \in 1..(Len(s) - 1) : Tail(s)[i] = s[i + 1]
  OBVIOUS
<1>2. ASSUME NEW i \in 1..Len(s) PROVE s[i].type \in {Head(s).type} \union Types(Tail(s))
  <2>1. CASE i = 1
    BY <1>1, <2>1
  <2>2. CASE i # 1
    <3>1. i - 1 \in 1..Len(Tail(s)) /\ Tail(s)[i - 1] = s[i]
      BY <1>1, <2>2
    <3> QED  BY <3>1 DEF Types
  <2> QED  BY <2>1, <2>2
<1>3. ASSUME NEW i \in 1..Len(Tail(s)) PROVE Tail(s)[i].type \in Types(s)
  <2>1. i + 1 \in 1..Len(s) /\ Tail(s)[i] = s[i + 1]
    BY <1>1
  <2> QED  BY <2>1 DEF Types
<1>4. Head(s).type \in Types(s)
  BY <1>1 DEF Types
<1> QED  BY <1>2, <1>3, <1>4 DEF Types

LEMMA SortedAppend ==
    ASSUME NEW S, NEW s \in Seq(S), NEW m \in S, Sorted(s),
           \A a \in Types(s) : MayFollow(a, m.type)
    PROVE  Sorted(Append(s, m))
<1>1. /\ Len(Append(s, m)) = Len(s) + 1 /\ Len(s) \in Nat
      /\ Append(s, m)[Len(s) + 1] = m
      /\ \A i \in 1..Len(s) : Append(s, m)[i] = s[i]
  OBVIOUS
<1> SUFFICES ASSUME NEW i \in 1..(Len(s) + 1), NEW j \in 1..(Len(s) + 1), i < j
             PROVE  MayFollow(Append(s, m)[i].type, Append(s, m)[j].type)
  BY <1>1 DEF Sorted
<1>2. i \in 1..Len(s) /\ s[i].type \in Types(s)
  BY <1>1 DEF Types
<1>3. CASE j \in 1..Len(s)
  BY <1>1, <1>2, <1>3 DEF Sorted
<1>4. CASE j = Len(s) + 1
  BY <1>1, <1>2, <1>4
<1> QED  BY <1>1, <1>3, <1>4

LEMMA SortedTail ==
    ASSUME NEW S, NEW s \in Seq(S), s # <<>>, Sorted(s)
    PROVE  /\ Sorted(Tail(s))
           /\ \A b \in Types(Tail(s)) : MayFollow(Head(s).type, b)
<1>1. /\ Len(s) \in Nat \ {0} /\ Len(Tail(s)) = Len(s) - 1 /\ Head(s) = s[1]
      /\ \A i \in 1..(Len(s) - 1) : Tail(s)[i] = s[i + 1] /\ i + 1 \in 1..Len(s)
  OBVIOUS
<1>2. ASSUME NEW i \in 1..Len(Tail(s)), NEW j \in 1..Len(Tail(s)), i < j
      PROVE  MayFollow(Tail(s)[i].type, Tail(s)[j].type)
  BY <1>1, <1>2 DEF Sorted
<1>3. ASSUME NEW i \in 1..Len(Tail(s)) PROVE MayFollow(Head(s).type, Tail(s)[i].type)
  BY <1>1 DEF Sorted
<1> QED  BY <1>2, <1>3 DEF Sorted, Types

LEMMA AllProperAppend ==
    ASSUME NEW S, NEW s \in Seq(S), NEW m \in S, AllProper(s), Proper(m)
    PROVE  AllProper(Append(s, m))
<1>1. /\ Len(Append(s, m)) = Len(s) + 1 /\ Len(s) \in Nat
      /\ Append(s, m)[Len(s) + 1] = m
      /\ \A i \in 1..Len(s) : Append(s, m)[i] = s[i]
  OBVIOUS
<1> SUFFICES ASSUME NEW i \in 1..(Len(s) + 1) PROVE Proper(Append(s, m)[i])
  BY <1>1 DEF AllProper
<1> QED  BY <1>1 DEF AllProper

LEMMA AllProperTail ==
    ASSUME NEW S, NEW s \in Seq(S), s # <<>>, AllProper(s)
    PROVE  AllProper(Tail(s)) /\ Proper(Head(s))
<1>1. /\ Len(s) \in Nat \ {0} /\ Len(Tail(s)) = Len(s) - 1 /\ Head(s) = s[1]
      /\ \A i \in 1..(Len(s) - 1) : Tail(s)[i] = s[i + 1] /\ i + 1 \in 1..Len(s)
  OBVIOUS
<1> QED  BY <1>1 DEF AllProper

-----------------------------------------------------------------------------
(* Where the threads are is known, and a step moves one of them. *)
LEMMA Places3 ==
    ASSUME TypeOK
    PROVE  /\ DOMAIN pc = {"client", "heart", "recv"}
           /\ DOMAIN out = {"client", "heart", "recv"}
           /\ DOMAIN goal = {"client", "heart"}
           /\ pc["client"] \in ClientPlaces /\ pc["heart"] \in HeartPlaces
           /\ pc["recv"] \in RecvPlaces
           /\ toGw \in Seq(ClientMessages) /\ toCli \in Seq(GatewayMessages)
           /\ net \in NetStates /\ link_state \in LinkStates
BY DEF TypeOK, ClientTypeOK, LinkTypeOK, PcTypeOK, Threads, Authenticators, Places

(* The recv thread moves itself and takes from toCli, or it crashes. *)
LEMMA RecvFrame ==
    ASSUME TypeOK, RecvThread
    PROVE  /\ pc'["client"] = pc["client"] /\ pc'["heart"] = pc["heart"]
           /\ pc["recv"] \notin {"none"} /\ pc'["recv"] # "none"
           /\ UNCHANGED <<net, nconn, session, lastGw, fd, p_dh, goal, lastDh>>
           /\ toCli' = toCli \/ (toCli # <<>> /\ toCli' = Tail(toCli))
           /\ toGw' = toGw \/ (pc["recv"] = "reply" /\ net = "up" /\ toGw' = Append(toGw, out["recv"]))
           /\ out'["client"] = out["client"] /\ out'["heart"] = out["heart"]
<1> USE Places3 DEF At, linkVars, nodeVars
<1>1. CASE Crash
  BY <1>1 DEF RecvThread, Receive, Distribute, RecvKeyngack, DhAlloc, DhCompute,
       DhExchanged, AckCheck, AckRegister, StatusBuild, StatusSend, Crash
<1>2. CASE Receive
  BY <1>2 DEF Receive, Goto
<1>3. CASE Distribute \/ AckCheck
  BY <1>3 DEF Distribute, AckCheck, Goto, HandlerDone
<1>4. CASE RecvKeyngack \/ DhExchanged \/ AckRegister
  BY <1>4 DEF RecvKeyngack, DhExchanged, AckRegister, HandlerDone
<1>5. CASE (DhAlloc \/ DhCompute) /\ ~Crash
  BY <1>5 DEF DhAlloc, DhCompute, Goto
<1>6. CASE StatusBuild
  BY <1>6 DEF StatusBuild, Goto, Prepare
<1>7. CASE StatusSend
  BY <1>7 DEF StatusSend, Transmit, HandlerDone
<1> QED  BY <1>1, <1>2, <1>3, <1>4, <1>5, <1>6, <1>7 DEF RecvThread

LEMMA HandKept ==
    ASSUME pc'["recv"] = pc["recv"], rmsg' = rmsg, link_state' = link_state
    PROVE  Hand' = Hand /\ LinkType' = LinkType
BY DEF Hand, LinkType

(* Between two messages the recv thread has less and less at hand, and what *)
(* it had is in the link state when it is done.                            *)
LEMMA RecvHand ==
    ASSUME TypeOK, RecvThread, ~Receive
    PROVE  /\ toCli' = toCli
           /\ Hand' \in {Hand, "none"} /\ LinkType' \in {LinkType, Hand, "none"}
           /\ (Hand' = "none" \/ LinkType' = LinkType)
<1> USE Places3 DEF At
<1>1. CASE Distribute \/ AckCheck
  BY <1>1 DEF Distribute, AckCheck, Goto, HandlerDone, Hand, LinkType, linkVars, nodeVars
<1>2. CASE DhAlloc \/ DhCompute
  BY <1>2 DEF DhAlloc, DhCompute, Goto, Crash, Hand, LinkType, linkVars, nodeVars
<1>3. CASE RecvKeyngack \/ DhExchanged \/ AckRegister
  BY <1>3 DEF RecvKeyngack, DhExchanged, AckRegister, HandlerDone, Hand, LinkType, linkVars
<1>4. CASE StatusBuild \/ StatusSend
  BY <1>4 DEF StatusBuild, StatusSend, Transmit, Goto, HandlerDone, Hand, LinkType, linkVars, nodeVars
<1> QED  BY <1>1, <1>2, <1>3, <1>4 DEF RecvThread

(* Three handlers write the link state. *)
LEMMA RecvLink ==
    ASSUME TypeOK, RecvThread
    PROVE  \/ link_state' = link_state
           \/ pc["recv"] = "keyngack" /\ link_state' = "key_req_e"
           \/ pc["recv"] = "exchanged" /\ link_state' = "key_exc_e"
           \/ pc["recv"] = "register" /\ link_state' = "dev_reg_e"
BY DEF RecvThread, Receive, Distribute, RecvKeyngack, DhAlloc, DhCompute, DhExchanged,
   AckCheck, AckRegister, StatusBuild, StatusSend, Crash, At, nodeVars

(* An authenticating thread moves itself, and leaves the streams of the    *)
(* gateway and what other threads have built alone.                        *)
LEMMA AuthFrame ==
    ASSUME TypeOK, NEW t \in Authenticators, Authenticate(t)
    PROVE  /\ \A u \in Threads \ {t} : pc'[u] = pc[u] /\ out'[u] = out[u]
           /\ \A u \in Authenticators \ {t} : goal'[u] = goal[u]
           /\ pc[t] \in AuthPlaces
           /\ UNCHANGED <<net, nconn, toCli, session, lastGw, fd>>
<1> USE Places3 DEF At, linkVars, nodeVars, Threads, Authenticators, AuthPlaces, InitPlaces
<1>1. CASE Crash
  BY <1>1 DEF Authenticate, InitFree, InitKeys, InitNull, InitWipe, InitState, DhGenerate, CheckGoal, BuildRequest,
     SendRequest, Advance, Crash
<1>2. CASE (InitFree(t) \/ InitKeys(t) \/ InitNull(t) \/ InitWipe(t) \/ InitState(t) \/ DhGenerate(t)) /\ ~Crash
  BY <1>2 DEF InitFree, InitKeys, InitNull, InitWipe, InitState, DhGenerate, Goto
<1>3. CASE CheckGoal(t)
  BY <1>3 DEF CheckGoal, Finish, Goto, Sleep
<1>4. CASE BuildRequest(t) /\ ~Crash
  BY <1>4 DEF BuildRequest, Prepare, Goto
<1>5. CASE SendRequest(t)
  BY <1>5 DEF SendRequest, Transmit, Goto, Sleep
<1>6. CASE Advance(t)
  BY <1>6 DEF Advance, Sleep
<1> QED  BY <1>1, <1>2, <1>3, <1>4, <1>5, <1>6 DEF Authenticate

LEMMA NetStep ==
    ASSUME Gentle, IInv, [Next]_vars, ~Crash, TypeOK', AuthInv'
    PROVE  NetInv'
<1> USE Places3 DEF IInv, NetInv, AuthInv, At
<1>1. CASE Start
  BY <1>1 DEF Start, Open
<1>2. ASSUME NEW t \in Authenticators, Authenticate(t) PROVE NetInv'
  <2>1. CASE SendRequest(t)
    BY <1>2, <2>1 DEF SendRequest, Transmit, Goto, Sleep, Retry, SendResult, Authenticators, NetStates, BrokenImpliesDone
  <2>2. CASE ~SendRequest(t)
    BY <1>2, <2>2 DEF Authenticate, InitFree, InitKeys, InitNull, InitWipe, InitState, DhGenerate, CheckGoal, BuildRequest, Advance, Finish, Goto, Sleep, Crash, linkVars, Authenticators
  <2> QED  BY <2>1, <2>2
<1>3. CASE HeartAlone
  BY <1>3 DEF HeartAlone, HeartCheck, HeartBuild, HeartSend, RestartClose,
       RestartZero, RestartConnect, RestartState, Goto, Sleep, Transmit, SendResult, linkVars, Open, NetStates
<1>4. CASE RecvThread
  BY <1>4, RecvFrame
<1>5. CASE HandleRequest \/ AskStatus
  BY <1>5 DEF HandleRequest, AskStatus, GwHandle, GwRequest, clientVars, threadVars
<1>6. CASE Drop \/ Notice
  BY <1>6 DEF Drop, Notice, MayDrop, clientVars, threadVars
<1>7. CASE UNCHANGED vars
  BY <1>7 DEF vars, linkVars, clientVars, threadVars
<1> QED
  BY <1>1, <1>2, <1>3, <1>4, <1>5, <1>6, <1>7 DEF Next, ClientThread, HeartThread, HeartAlone, Authenticators

LEMMA OutStep ==
    ASSUME Gentle, IInv, [Next]_vars, ~Crash, TypeOK', AuthInv'
    PROVE  OutInv'
<1> USE Places3 DEF IInv, OutInv, At
<1>1. CASE Start
  BY <1>1 DEF Start, Authenticators, NetInv
<1>2. ASSUME NEW t \in Authenticators, Authenticate(t) PROVE OutInv'
  <2> USE AuthFrame DEF Threads, Authenticators
  <2>1. CASE BuildRequest(t) /\ ~Crash
    BY <1>2, <2>1 DEF BuildRequest, Prepare, Message, Goto, linkVars
  <2>2. CASE SendRequest(t)
    BY <1>2, <2>2 DEF SendRequest, Transmit, Goto, Sleep, Retry, NoMsg, Message
  <2>3. CASE CheckGoal(t)
    BY <1>2, <2>3 DEF CheckGoal, Finish, Goto, Sleep
  <2>4. CASE InitFree(t) \/ InitKeys(t) \/ InitNull(t) \/ InitWipe(t) \/ InitState(t) \/ DhGenerate(t) \/ Advance(t)
    BY <1>2, <2>4 DEF InitFree, InitKeys, InitNull, InitWipe, InitState, DhGenerate, Advance, Goto, Sleep
  <2>5. CASE Crash
    BY <2>5 DEF Crash
  <2> QED  BY <1>2, <2>1, <2>2, <2>3, <2>4, <2>5 DEF Authenticate
<1>3. CASE HeartAlone
  BY <1>3 DEF HeartAlone, HeartCheck, HeartBuild, HeartSend, RestartClose, RestartZero,
     RestartConnect, RestartState, Prepare, Transmit, Message, NoMsg, Goto, Sleep, Authenticators
<1>4. CASE RecvThread
  <2>1. out'["recv"].type = IF pc'["recv"] = "reply" THEN "status" ELSE "none"
    <3>1. CASE StatusBuild \/ StatusSend
      BY <3>1 DEF StatusBuild, StatusSend, Prepare, Transmit, HandlerDone, Goto, Message, NoMsg
    <3>2. CASE Distribute
      BY <3>2 DEF Distribute, HandlerDone, Goto
    <3>3. CASE ~(StatusBuild \/ StatusSend \/ Distribute)
      BY <1>4, <3>3 DEF RecvThread, Receive, RecvKeyngack, DhAlloc, DhCompute,
         DhExchanged, AckCheck, AckRegister, Crash, HandlerDone, Goto
    <3> QED  BY <3>1, <3>2, <3>3
  <2> QED  BY <1>4, <2>1, RecvFrame DEF Authenticators
<1>5. CASE HandleRequest \/ AskStatus \/ Drop \/ Notice \/ UNCHANGED vars
  BY <1>5 DEF HandleRequest, AskStatus, Drop, Notice, vars, clientVars, threadVars
<1> QED
  BY <1>1, <1>2, <1>3, <1>4, <1>5 DEF Next, ClientThread, HeartThread, HeartAlone, Authenticators

LEMMA AskStep ==
    ASSUME Gentle, IInv, [Next]_vars, ~Crash, TypeOK', AuthInv'
    PROVE  AskInv'
<1> USE Places3 DEF IInv, AskInv, At, Asks
<1>1. CASE Start
  BY <1>1 DEF Start, Authenticators, NetInv
<1>2. ASSUME NEW t \in Authenticators, Authenticate(t) PROVE AskInv'
  <2> USE AuthFrame DEF Threads, Authenticators, AuthInv, SingleAuthenticator, AuthPlaces, InitPlaces, NetInv
  <2>1. CASE InitFree(t) \/ InitKeys(t) \/ InitNull(t) \/ InitWipe(t) \/ InitState(t)
    BY <1>2, <2>1 DEF InitFree, InitKeys, InitNull, InitWipe, InitState, Goto, FreshInv, Greets
  <2>2. CASE DhGenerate(t)
    BY <1>2, <2>2 DEF DhGenerate, Goto
  <2>3. CASE CheckGoal(t)
    <3>1. \/ goal'[t] = goal[t] \/ pc'[t] \in {"idle", "done"}
          \/ link_state = "key_req_e" /\ goal'[t] = "key_exc_e"
          \/ link_state = "key_exc_e" /\ goal'[t] = "dev_reg_e"
      BY <1>2, <2>3 DEF CheckGoal, Finish, Goto, Sleep, NextGoal, TypeOK, ClientTypeOK, Goals
    <3>2. UNCHANGED nodeVars /\ pc[t] = "check" /\ pc'[t] # "advance" /\ pc'[t] \notin {"dhgen", "beat", "beatsend"}
      BY <1>2, <2>3 DEF CheckGoal, Finish, Goto, Sleep
    <3> QED  BY <1>2, <3>1, <3>2 DEF nodeVars
  <2>4. CASE BuildRequest(t)
    BY <1>2, <2>4 DEF BuildRequest, Goto, nodeVars, Crash
  <2>5. CASE SendRequest(t)
    BY <1>2, <2>5 DEF SendRequest, Advances, Goto, Sleep, Retry, nodeVars
  <2>6. CASE Advance(t)
    BY <1>2, <2>6 DEF Advance, Sleep
  <2> QED  BY <1>2, <2>1, <2>2, <2>3, <2>4, <2>5, <2>6 DEF Authenticate
<1>3. CASE HeartAlone
  BY <1>3 DEF HeartAlone, HeartCheck, HeartBuild, HeartSend, RestartClose, RestartZero,
     RestartConnect, RestartState, Goto, Sleep, Authenticators, nodeVars, AuthInv, SingleAuthenticator, RestartPlaces, AuthPlaces, InitPlaces
<1>4. CASE RecvThread
  <2>1. \A t \in Authenticators :
           /\ pc'[t] = pc[t] /\ goal'[t] = goal[t]
           /\ goal[t] \in Goals
           /\ pc[t] = "dhgen" => Hand = "none"
    BY <1>4, RecvFrame DEF Authenticators, FreshInv, Greets, TypeOK, ClientTypeOK
  <2>2. MayFollow(LinkType, Hand) /\ \A t \in Authenticators : Asks(t) => MayFollow(Hand, Request[goal[t]])
    BY DEF OrderInv, Seen
  <2> QED
    BY <1>4, <2>1, <2>2, RecvLink DEF Authenticators, Hand, LinkType, MayFollow, First, Third, Request, Goals
<1>5. CASE HandleRequest \/ AskStatus \/ Drop \/ Notice \/ UNCHANGED vars
  BY <1>5 DEF HandleRequest, AskStatus, Drop, Notice, vars, clientVars, threadVars, nodeVars
<1> QED
  BY <1>1, <1>2, <1>3, <1>4, <1>5 DEF Next, ClientThread, HeartThread, HeartAlone, Authenticators

(* What a thread has built goes into the stream, and nothing else does. *)
LEMMA NoDhSent ==
    ASSUME TypeOK, NEW t \in Authenticators, Transmit(t)
    PROVE  /\ Types(toGw') \subseteq Types(toGw) \union Outs \union {"status"}
           /\ Outs' \subseteq Outs \union {"none", "keyngreq", "dev_reg", "keepalive"}
<1>1. out \in [Threads -> ClientMessages] /\ toGw \in Seq(ClientMessages) /\ t \in Threads /\ out[t].type \in Outs
  BY DEF TypeOK, ClientTypeOK, LinkTypeOK, Threads, Outs
<1>2. Types(Append(toGw, out[t])) = Types(toGw) \union {out[t].type}
  BY <1>1, TypesAppend
<1>3. Outs' \subseteq Outs \union {"none"}
  BY <1>1 DEF Outs, Transmit, NoMsg, Message, Threads
<1> QED  BY <1>1, <1>2, <1>3 DEF Transmit

(* Who has a "dh" at hand, or a key half computed, has a key pair. *)
LEMMA DhAtHand ==
    ASSUME IInv, Hand = "dh"
    PROVE  p_dh \in KeyPairs /\ p_shared_key # FreedKey
<1>1. pc["client"] \notin {"start"} \union InitPlaces /\ pc["heart"] \notin InitPlaces
  BY DEF IInv, FreshInv, Hand, MayFollow, Authenticators, First, Third
<1>2. p_dh # Bare
  BY DEF IInv, KeyInv, NoDh, Seen
<1>3. \A t \in Authenticators : pc[t] \notin {"keys", "null", "wipe", "reset"}
  BY <1>1 DEF Authenticators, InitPlaces
<1>4. p_dh \in 0..Dangling
  BY DEF IInv, TypeOK, ClientTypeOK
<1> QED  BY <1>1, <1>2, <1>3, <1>4, DhValues DEF IInv, MaterialInv

(* Without a key pair no "dh" comes about: not sent, so not answered. *)
LEMMA NoDhStep ==
    ASSUME Gentle, IInv, [Next]_vars, ~Crash, TypeOK', AuthInv', p_dh' = Bare
    PROVE  NoDh'
<1>b. TypeOK /\ TypeOK'
  BY DEF IInv
<1> USE <1>b, Places3, TypesEmpty, DhValues DEF At
<1>a. p_dh = Bare => NoDh
  BY DEF IInv, KeyInv
<1>s. ASSUME p_dh' = p_dh,
             Seen' \subseteq Seen \union Types(toCli) \union {"none"},
             Types(toCli') \subseteq Types(toCli) \union Types(toGw) \union {"keyngack", "ack", "get_status"},
             Types(toGw') \subseteq Types(toGw) \union Outs \union {"status"},
             Outs' \subseteq Outs \union {"none", "keyngreq", "dev_reg", "keepalive"}
      PROVE  NoDh'
  BY <1>a, <1>s DEF NoDh
<1>1. CASE Start
  <2>1. Hand' = "none" /\ LinkType' = "none" /\ toCli' = <<>> /\ toGw' = <<>> /\ out' = out /\ p_dh' = p_dh
    BY <1>1 DEF Start, Open, Hand, LinkType
  <2> QED  BY <2>1, <1>s DEF Seen, Outs
<1>2. ASSUME NEW t \in Authenticators, Authenticate(t) PROVE NoDh'
  <2> USE AuthFrame DEF Threads, Authenticators
  <2>1. CASE InitFree(t) \/ InitKeys(t) \/ InitNull(t) \/ InitWipe(t) \/ InitState(t) \/ Advance(t)
    <3>1. /\ UNCHANGED <<toCli, toGw, out>> /\ pc'["recv"] = pc["recv"]
          /\ p_dh' = p_dh
      BY <1>2, <2>1 DEF InitFree, InitKeys, InitNull, InitWipe, InitState, Advance, linkVars, nodeVars
    <3>2. Hand' \in {Hand, "none"} /\ LinkType' \in {LinkType, "none"}
      BY <2>1, <3>1 DEF InitFree, InitKeys, InitNull, InitWipe, InitState, Advance, Hand, LinkType, NoMsg, Message, nodeVars
    <3> QED  BY <1>s, <3>1, <3>2 DEF Seen, Outs
  <2>2. CASE DhGenerate(t)
    <3>1. /\ Hand = "none" /\ link_state = "init_e" /\ toCli = <<>> /\ Types(toGw) \subseteq {"status"}
          /\ UNCHANGED <<toCli, toGw, out, rmsg, link_state>> /\ pc'["recv"] = pc["recv"]
      BY <1>2, <2>2 DEF DhGenerate, IInv, FreshInv, Greets, New, AskInv, linkVars, InitPlaces
    <3>2. Hand' = "none" /\ LinkType' = "none"
      BY <3>1, HandKept DEF LinkType
    <3>3. \A u \in Authenticators : out[u].type = "none"
      BY <1>2, <2>2, <3>1 DEF DhGenerate, IInv, OutInv, AskInv, AuthInv, SingleAuthenticator, AuthPlaces, InitPlaces
    <3> QED  BY <3>1, <3>2, <3>3 DEF NoDh, Seen, Outs
  <2>3. CASE CheckGoal(t)
    <3>1. UNCHANGED <<toCli, toGw, out, rmsg, link_state, p_dh>> /\ pc'["recv"] = pc["recv"]
      BY <1>2, <2>3 DEF CheckGoal, linkVars, nodeVars
    <3> QED  BY <1>s, <3>1, HandKept DEF Seen, Outs
  <2>4. CASE BuildRequest(t)
    <3>1. /\ UNCHANGED <<toCli, toGw, rmsg, link_state, p_dh>> /\ pc'["recv"] = pc["recv"]
          /\ goal[t] \in Goals /\ goal[t] # "key_exc_e" /\ out'[t].type = Request[goal[t]]
      BY <1>2, <2>4 DEF BuildRequest, Prepare, Message, linkVars, nodeVars, TypeOK, ClientTypeOK
    <3>2. out'[t].type \in {"keyngreq", "dev_reg"}
      BY <3>1 DEF Goals, Request
    <3>3. Outs' \subseteq Outs \union {"keyngreq", "dev_reg"}
      BY <1>2, <3>2 DEF Outs
    <3> QED  BY <1>s, <3>1, <3>3, HandKept DEF Seen
  <2>5. CASE SendRequest(t)
    <3>1. UNCHANGED <<toCli, rmsg, link_state, p_dh>> /\ pc'["recv"] = pc["recv"] /\ Transmit(t)
      BY <1>2, <2>5 DEF SendRequest, nodeVars
    <3> QED  BY <1>s, <3>1, HandKept, NoDhSent DEF Seen
  <2> QED  BY <1>2, <2>1, <2>2, <2>3, <2>4, <2>5 DEF Authenticate
<1>3. CASE HeartAlone
  <2> USE DEF Authenticators, Threads
  <2>1. CASE HeartCheck \/ RestartClose \/ RestartZero \/ RestartConnect \/ RestartState
    <3>1. /\ UNCHANGED <<out, rmsg, p_dh>> /\ pc'["recv"] = pc["recv"]
          /\ toCli' \in {toCli, <<>>} /\ toGw' \in {toGw, <<>>}
          /\ LinkType' \in {LinkType, "none"}
      BY <2>1 DEF HeartCheck, RestartClose, RestartZero, RestartConnect, RestartState, Open,
         Goto, linkVars, nodeVars, LinkType
    <3>2. Hand' \in {Hand, "none"}
      BY <3>1 DEF Hand
    <3> QED  BY <1>s, <3>1, <3>2 DEF Seen, Outs
  <2>2. CASE HeartBuild
    <3>1. /\ UNCHANGED <<toCli, toGw, rmsg, link_state, p_dh>> /\ pc'["recv"] = pc["recv"]
          /\ out'["heart"].type = "keepalive" /\ out'["client"] = out["client"]
      BY <2>2 DEF HeartBuild, Prepare, Message, linkVars, nodeVars, Goto
    <3> QED  BY <1>s, <3>1, HandKept DEF Seen, Outs
  <2>3. CASE HeartSend
    <3>1. UNCHANGED <<toCli, rmsg, link_state, p_dh>> /\ pc'["recv"] = pc["recv"] /\ Transmit("heart")
      BY <2>3 DEF HeartSend, Goto, Sleep, nodeVars, Transmit
    <3> QED  BY <1>s, <3>1, HandKept, NoDhSent DEF Seen
  <2> QED  BY <1>3, <2>1, <2>2, <2>3 DEF HeartAlone
<1>4. CASE RecvThread
  <2> USE RecvFrame
  <2>1. Seen' \subseteq Seen \union Types(toCli) \union {"none"} /\ Types(toCli') \subseteq Types(toCli)
    <3>1. CASE Receive
      <4>1. Hand' = Head(toCli).type /\ LinkType' = LinkType /\ toCli # <<>> /\ toCli' = Tail(toCli)
        BY <3>1 DEF Receive, Goto, Hand, LinkType, nodeVars
      <4> QED  BY <4>1, TypesTail DEF Seen
    <3>2. CASE ~Receive
      BY <1>4, <3>2, RecvHand DEF Seen
    <3> QED  BY <3>1, <3>2
  <2>2. Types(toGw') \subseteq Types(toGw) \union {"status"}
    <3>1. pc["recv"] = "reply" => Types(Append(toGw, out["recv"])) = Types(toGw) \union {"status"}
      BY TypesAppend DEF IInv, OutInv, TypeOK, ClientTypeOK, Threads
    <3> QED  BY <1>4, <3>1
  <2>3. Outs' = Outs /\ p_dh' = p_dh
    BY <1>4 DEF Outs, Authenticators
  <2> QED  BY <1>s, <2>1, <2>2, <2>3
<1>5. CASE HandleRequest
  <2>1. /\ toGw # <<>> /\ toGw' = Tail(toGw)
        /\ UNCHANGED <<pc, out, rmsg, link_state, p_dh>>
    BY <1>5 DEF HandleRequest, GwHandle, clientVars, threadVars, nodeVars
  <2>2. Types(toGw') \subseteq Types(toGw) /\ Head(toGw).type \in Types(toGw)
    BY <2>1, TypesTail
  <2>3. Types(toCli') \subseteq Types(toCli) \union Types(toGw) \union {"keyngack", "ack"}
    <3>1. ASSUME NEW type \in {"keyngack", "dh", "ack"}, NEW pub \in 0..GwIds,
                 type = "dh" => pub # 0 /\ type = Head(toGw).type, Reply(type, pub)
          PROVE  Types(toCli') \subseteq Types(toCli) \union Types(toGw) \union {"keyngack", "ack"}
      <4>1. Message(type, session.key, pub) \in GatewayMessages
        BY <3>1, RepliedType DEF TypeOK, LinkTypeOK, Sessions
      <4>2. Types(toCli') = Types(toCli) \union {type}
        BY <3>1, <4>1, TypesAppend DEF Reply, Message
      <4> QED  BY <2>2, <3>1, <4>2
    <3>2. NextId(lastGw, GwIds) \in 1..GwIds /\ 1..GwIds \subseteq 0..GwIds \ {0} /\ 0 \in 0..GwIds
      <4>1. lastGw \in 0..GwIds
        BY DEF TypeOK, LinkTypeOK
      <4>2. GwIds \in Nat \ {0}
        BY LinkAssumption
      <4>3. NextId(lastGw, GwIds) \in 1..GwIds
        BY <4>1, <4>2, NextIdType
      <4> QED  BY <4>2, <4>3
    <3>3. CASE toCli' = toCli
      BY <3>3
    <3>4. CASE toCli' # toCli
      BY <1>5, <3>1, <3>2, <3>4 DEF HandleRequest, GwHandle, GwNegotiate, GwExchange, GwRegister, GwKeepalive, GwIgnore
    <3> QED  BY <3>3, <3>4
  <2> QED  BY <1>s, <2>1, <2>2, <2>3, HandKept DEF Seen, Outs
<1>6. CASE AskStatus
  <2>1. /\ UNCHANGED <<pc, out, rmsg, link_state, toGw, p_dh>> /\ toCli' = <<Message("get_status", session.key, 0)>>
    BY <1>6 DEF AskStatus, GwRequest, Reply, clientVars, threadVars, nodeVars
  <2>2. Types(toCli') = {"get_status"}
    BY <2>1 DEF Types, Message
  <2> QED  BY <1>s, <2>1, <2>2, HandKept DEF Seen, Outs
<1>7. CASE Drop \/ Notice \/ UNCHANGED vars
  <2>1. /\ UNCHANGED <<pc, out, rmsg, link_state, p_dh>>
        /\ toCli' \in {toCli, <<>>} /\ toGw' \in {toGw, <<>>}
    BY <1>7 DEF Drop, Notice, vars, linkVars, clientVars, threadVars, nodeVars
  <2> QED  BY <1>s, <2>1, HandKept DEF Seen, Outs
<1> QED
  BY <1>1, <1>2, <1>3, <1>4, <1>5, <1>6, <1>7 DEF Next, ClientThread, HeartThread, HeartAlone, Authenticators

LEMMA KeyStep ==
    ASSUME Gentle, IInv, [Next]_vars, ~Crash, TypeOK', AuthInv'
    PROVE  KeyInv'
<1>a. p_dh' = Bare => NoDh'
  BY NoDhStep
<1>b. crashed' => p_dh' = Bare
  <2>1. crashed' = crashed /\ (crashed => p_dh' = p_dh)
    BY DEF Next, ClientThread, HeartThread, Authenticate, RecvThread, Start, InitFree, InitKeys, InitNull,
       InitWipe, InitState, DhGenerate, CheckGoal, BuildRequest, SendRequest, Advance, HeartCheck, HeartBuild,
       HeartSend, RestartClose, RestartZero, RestartConnect, RestartState, Receive, Distribute, RecvKeyngack,
       DhAlloc, DhCompute, DhExchanged, AckCheck, AckRegister, StatusBuild, StatusSend, HandleRequest,
       AskStatus, Drop, Notice, vars, clientVars, threadVars, nodeVars, At
  <2> QED  BY <2>1 DEF IInv, KeyInv
<1> SUFFICES /\ link_state' \in {"key_exc_e", "dev_reg_e"} \/ pc'["recv"] \in {"compute", "exchanged", "register"}
                  => p_shared_key' # NoKey
             /\ pc'["recv"] = "compute" => rdh' = p_dh'
  BY <1>a, <1>b DEF KeyInv
<1> DEFINE Kept == /\ link_state' \in {"key_exc_e", "dev_reg_e"} \/ pc'["recv"] \in {"compute", "exchanged", "register"}
                        => p_shared_key' # NoKey
                   /\ pc'["recv"] = "compute" => rdh' = p_dh'
<1> USE Places3 DEF IInv, KeyInv, At, Greets
<1>1. CASE Start
  BY <1>1 DEF Start
<1>2. ASSUME NEW t \in Authenticators, Authenticate(t) PROVE Kept
  <2> USE AuthFrame DEF Threads, Authenticators, InitPlaces
  <2>1. CASE InitFree(t) \/ InitKeys(t) \/ InitNull(t) \/ InitWipe(t) \/ InitState(t) \/ DhGenerate(t)
    BY <1>2, <2>1 DEF InitFree, InitKeys, InitNull, InitWipe, InitState, DhGenerate, Goto, FreshInv, QuietPlaces, nodeVars
  <2>4. CASE CheckGoal(t)
    BY <1>2, <2>4 DEF CheckGoal, Finish, Goto, Sleep, nodeVars
  <2>5. CASE BuildRequest(t)
    BY <1>2, <2>5 DEF BuildRequest, Goto, nodeVars
  <2>6. CASE SendRequest(t)
    BY <1>2, <2>6 DEF SendRequest, Goto, Sleep, nodeVars
  <2>7. CASE Advance(t)
    BY <1>2, <2>7 DEF Advance, Sleep
  <2> QED  BY <1>2, <2>1, <2>4, <2>5, <2>6, <2>7 DEF Authenticate
<1>3. CASE HeartAlone
  BY <1>3 DEF HeartAlone, HeartCheck, HeartBuild, HeartSend, RestartClose, RestartZero,
     RestartConnect, RestartState, Goto, Sleep, nodeVars
<1>4. CASE RecvThread
  <2> USE RecvFrame
  <2>2. CASE Receive \/ Distribute \/ AckCheck
    BY <1>4, <2>2 DEF Receive, Distribute, AckCheck, Goto, HandlerDone, nodeVars
  <2>3. CASE RecvKeyngack \/ DhExchanged \/ AckRegister
    BY <1>4, <2>3 DEF RecvKeyngack, DhExchanged, AckRegister, HandlerDone
  <2>4. CASE DhAlloc
    BY <1>4, <2>4, KeyValues DEF DhAlloc, Goto
  <2>5. CASE DhCompute
    <3>1. Hand = "dh"
      BY <2>5 DEF DhCompute, Hand
    <3>2. p_shared_key' # NoKey
      BY <2>5, <3>1, DhAtHand, KeyValues DEF DhCompute, Intact, NoKey, KeyPairs
    <3> QED  BY <1>4, <2>5, <3>2 DEF DhCompute, Goto
  <2>6. CASE StatusBuild \/ StatusSend
    BY <1>4, <2>6 DEF StatusBuild, StatusSend, Goto, HandlerDone, nodeVars
  <2> QED  BY <1>4, <2>2, <2>3, <2>4, <2>5, <2>6 DEF RecvThread
<1>5. CASE HandleRequest \/ AskStatus \/ Drop \/ Notice \/ UNCHANGED vars
  BY <1>5 DEF HandleRequest, AskStatus, Drop, Notice, vars, clientVars, threadVars, nodeVars
<1> QED
  BY <1>1, <1>2, <1>3, <1>4, <1>5 DEF Next, ClientThread, HeartThread, HeartAlone, Authenticators

(* What kills the process leaves everything else as it was, and it is the  *)
(* missing key pair: all a handler works on is there.                      *)
LEMMA CrashStep ==
    ASSUME Gentle, IInv, [Next]_vars, Crash, TypeOK', AuthInv', MaterialInv'
    PROVE  IInv'
<1>1. UNCHANGED <<linkVars, nodeVars, pc, goal, out, rmsg, rdh, lastDh, slow>>
  BY DEF Crash
<1>2. p_dh = Bare
  <2> USE Places3, DhValues, KeyValues DEF At, IInv, Authenticators
  <2>1. CASE crashed
    BY <2>1 DEF KeyInv
  <2>2. ASSUME NEW t \in Authenticators, Authenticate(t), ~crashed PROVE p_dh = Bare
    <3> DEFINE u == IF t = "client" THEN "heart" ELSE "client"
    <3>1. crashed' = TRUE
      BY DEF Crash
    <3>2. pc[u] \notin {"start"} \union InitPlaces /\ Authenticators = {t, u}
      BY <2>2, AuthFrame DEF AuthInv, SingleAuthenticator, AuthPlaces, InitPlaces, HeartPlaces, RestartPlaces
    <3>3. CASE InitFree(t) \/ InitKeys(t)
      BY <2>2, <3>1, <3>2, <3>3 DEF InitFree, InitKeys, MaterialInv, InitPlaces
    <3>4. CASE BuildRequest(t)
      <4>1. p_dh \notin KeyPairs /\ pc[t] = "build"
        BY <2>2, <3>1, <3>4 DEF BuildRequest
      <4>2. p_dh \in 0..Dangling
        BY DEF TypeOK, ClientTypeOK
      <4> QED  BY <3>2, <4>1, <4>2 DEF MaterialInv, InitPlaces
    <3>5. CASE ~(InitFree(t) \/ InitKeys(t) \/ BuildRequest(t))
      BY <2>2, <3>1, <3>5 DEF Authenticate, InitNull, InitWipe, InitState, DhGenerate, CheckGoal, SendRequest, Advance
    <3> QED  BY <3>3, <3>4, <3>5
  <2>3. CASE RecvThread /\ ~crashed
    <3>1. crashed' = TRUE
      BY DEF Crash
    <3>2. ~DhAlloc
      <4>1. DhAlloc => Hand = "dh"
        BY DEF DhAlloc, Hand
      <4> QED  BY <2>3, <3>1, <4>1, DhAtHand DEF DhAlloc
    <3>3. ~DhCompute
      <4>1. DhCompute => Hand = "dh" /\ rdh = p_dh /\ p_shared_key # NoKey
        BY DEF DhCompute, Hand, KeyInv
      <4>2. DhCompute => Intact
        BY <4>1, DhAtHand DEF Intact
      <4> QED  BY <2>3, <3>1, <4>2 DEF DhCompute
    <3> QED  BY <2>3, <3>1, <3>2, <3>3 DEF RecvThread, Receive, Distribute, RecvKeyngack, DhExchanged,
       AckCheck, AckRegister, StatusBuild, StatusSend
  <2>4. CASE ~crashed /\ ~RecvThread /\ \A t \in Authenticators : ~Authenticate(t)
    BY <2>4 DEF Crash, Next, ClientThread, HeartThread, Start, HeartCheck, HeartBuild, HeartSend,
       RestartClose, RestartZero, RestartConnect, RestartState, HandleRequest, AskStatus, Drop, Notice,
       vars, clientVars, threadVars
  <2> QED  BY <2>1, <2>2, <2>3, <2>4
<1>3. UNCHANGED <<Hand, LinkType>>
  BY <1>1, HandKept DEF nodeVars
<1>4. UNCHANGED <<Seen, Outs, Types(toCli), Types(toGw), Sorted(toCli), Sorted(toGw)>>
  BY <1>1, <1>3 DEF Seen, Outs, linkVars
<1>5. UNCHANGED <<net, nconn, toGw, toCli, session, lastGw, link_state, fd, p_shared_key, p_dh>>
  BY <1>1 DEF linkVars, nodeVars
<1>6. NetInv' /\ OutInv' /\ AskInv'
  BY <1>1, <1>5 DEF IInv, NetInv, OutInv, AskInv, Asks
<1>7. OrderInv'
  BY <1>1, <1>3, <1>4, <1>5 DEF IInv, OrderInv, Asks
<1>8. FreshInv'
  BY <1>1, <1>3, <1>4, <1>5 DEF IInv, FreshInv, New, Greets
<1>9. KeyInv'
  BY <1>1, <1>2, <1>3, <1>4, <1>5 DEF IInv, KeyInv, NoDh
<1>10. ClearInv' /\ BuiltInv'
  BY <1>1, <1>4, <1>5 DEF IInv, ClearInv, BuiltInv, Asks, AllProper
<1>11. NegoInv'
  BY <1>1, <1>3, <1>4, <1>5 DEF IInv, NegoInv, Silent, New, Asks
<1> QED  BY <1>6, <1>7, <1>8, <1>9, <1>10, <1>11 DEF IInv

(* client_send_buf keeps what holds of the stream and of what is built. *)
LEMMA TransmitProper ==
    ASSUME TypeOK, NEW t \in Threads, Transmit(t),
           AllProper(toGw), \A u \in Threads : Proper(out[u])
    PROVE  AllProper(toGw') /\ \A u \in Threads : Proper(out'[u])
<1>1. out[t] \in ClientMessages /\ toGw \in Seq(ClientMessages) /\ out \in [Threads -> ClientMessages]
  BY DEF TypeOK, ClientTypeOK, LinkTypeOK
<1>2. AllProper(toGw')
  BY <1>1, AllProperAppend DEF Transmit
<1>3. Proper(NoMsg)
  BY DEF Proper, NoMsg, Message
<1> QED  BY <1>1, <1>2, <1>3 DEF Transmit

LEMMA PrepareProper ==
    ASSUME TypeOK, NEW t \in Threads, NEW type, NEW pub, Prepare(t, type, pub),
           \A u \in Threads : Proper(out[u]),
           type = "keyngreq" => p_shared_key = NoKey,
           type \in {"dev_reg", "keepalive"} => p_shared_key # NoKey
    PROVE  \A u \in Threads : Proper(out'[u])
<1>1. out \in [Threads -> ClientMessages]
  BY DEF TypeOK, ClientTypeOK
<1>2. Proper(Message(type, p_shared_key, pub))
  BY DEF Proper, Message
<1> QED  BY <1>1, <1>2 DEF Prepare

LEMMA ClearStep ==
    ASSUME Gentle, IInv, [Next]_vars, ~Crash, TypeOK', AuthInv'
    PROVE  ClearInv'
<1> USE Places3 DEF IInv, ClearInv, At, Asks
<1>0. AllProper(<<>>)
  BY DEF AllProper
<1>1. CASE Start
  BY <1>0, <1>1 DEF Start, Open, NetInv, Authenticators, Asks
<1>2. ASSUME NEW t \in Authenticators, Authenticate(t) PROVE ClearInv'
  <2> USE AuthFrame DEF Authenticators, AuthInv, SingleAuthenticator, AuthPlaces, InitPlaces
  <2>1. CASE InitFree(t) \/ InitKeys(t) \/ InitNull(t) \/ InitWipe(t) \/ InitState(t) \/ DhGenerate(t)
    BY <1>2, <2>1 DEF InitFree, InitKeys, InitNull, InitWipe, InitState, DhGenerate, Goto, FreshInv, Greets, linkVars, Threads
  <2>2. CASE CheckGoal(t)
    <3>1. goal'[t] = "key_req_e" /\ Asks(t)' => goal[t] = "key_req_e"
      BY <1>2, <2>2 DEF CheckGoal, Finish, Goto, Sleep, NextGoal, TypeOK, ClientTypeOK, Goals
    <3> QED  BY <1>2, <2>2, <3>1 DEF CheckGoal, linkVars, nodeVars, Threads
  <2>3. CASE BuildRequest(t) /\ ~Crash
    <3>1. t \in Threads /\ \E pub : Prepare(t, Request[goal[t]], pub)
      BY <2>3 DEF BuildRequest, Threads
    <3>2. /\ Request[goal[t]] = "keyngreq" => p_shared_key = NoKey
          /\ Request[goal[t]] \in {"dev_reg", "keepalive"} => p_shared_key # NoKey
      BY <2>3 DEF BuildRequest, Request, AskInv, KeyInv, TypeOK, ClientTypeOK, Goals
    <3>3. \A u \in Threads : Proper(out'[u])
      BY <3>1, <3>2, PrepareProper
    <3> QED  BY <1>2, <2>3, <3>3 DEF BuildRequest, Goto, linkVars, nodeVars, Threads
  <2>4. CASE SendRequest(t)
    <3>1. AllProper(toGw') /\ \A u \in Threads : Proper(out'[u])
      BY <2>4, TransmitProper DEF SendRequest, Threads
    <3>2. goal'[t] = "key_req_e" /\ Asks(t)' => goal[t] = "key_req_e"
      BY <1>2, <2>4 DEF SendRequest, Goto, Sleep, Retry
    <3> QED  BY <1>2, <2>4, <3>1, <3>2 DEF SendRequest, nodeVars, Threads
  <2>5. CASE Advance(t)
    BY <1>2, <2>5 DEF Advance, Sleep, linkVars, Threads
  <2>6. CASE Crash
    BY <2>6 DEF Crash, linkVars, nodeVars
  <2> QED  BY <1>2, <2>1, <2>2, <2>3, <2>4, <2>5, <2>6 DEF Authenticate
<1>3. CASE HeartAlone
  <2> USE DEF Authenticators, Threads
  <2>1. CASE HeartBuild
    <3>1. \A u \in Threads : Proper(out'[u])
      BY <2>1, PrepareProper DEF HeartBuild, AskInv, KeyInv
    <3> QED  BY <2>1, <3>1 DEF HeartBuild, Goto, linkVars, nodeVars
  <2>2. CASE HeartSend
    <3>1. AllProper(toGw') /\ \A u \in Threads : Proper(out'[u])
      BY <2>2, TransmitProper DEF HeartSend
    <3> QED  BY <2>2, <3>1 DEF HeartSend, Goto, Sleep, nodeVars
  <2>3. CASE ~(HeartBuild \/ HeartSend)
    BY <1>0, <1>3, <2>3 DEF HeartAlone, HeartCheck, RestartClose, RestartZero,
       RestartConnect, RestartState, Goto, linkVars, nodeVars, Open
  <2> QED  BY <2>1, <2>2, <2>3
<1>4. CASE RecvThread
  <2>1. /\ \A t \in Authenticators : pc'[t] = pc[t] /\ goal'[t] = goal[t]
        /\ AllProper(toGw')
        /\ \A u \in Threads : Proper(out'[u])
    <3>1. Proper(out'["recv"])
      BY <1>4, OutStep DEF OutInv, Proper
    <3>2. AllProper(toGw')
      <4>1. out["recv"] \in ClientMessages /\ Proper(out["recv"])
        BY DEF TypeOK, ClientTypeOK, Threads
      <4>2. AllProper(Append(toGw, out["recv"]))
        BY <4>1, AllProperAppend
      <4> QED  BY <1>4, <4>2, RecvFrame
    <3> QED  BY <1>4, <3>1, <3>2, RecvFrame DEF Threads, Authenticators
  <2>2. p_shared_key' # p_shared_key => pc["recv"] \in {"dh", "compute"}
    BY <1>4 DEF RecvThread, Receive, Distribute, RecvKeyngack, DhAlloc, DhCompute, DhExchanged,
       AckCheck, AckRegister, StatusBuild, StatusSend, Crash, nodeVars
  <2>3. ASSUME NEW t \in Authenticators, Asks(t), pc["recv"] \in {"dh", "compute"}
        PROVE  goal[t] # "key_req_e"
    BY <2>3 DEF OrderInv, Seen, Hand, MayFollow, First, Request
  <2> QED  BY <2>1, <2>2, <2>3
<1>5. CASE HandleRequest \/ AskStatus \/ Drop \/ Notice \/ UNCHANGED vars
  <2>1. UNCHANGED <<pc, goal, out, p_shared_key>>
    BY <1>5 DEF HandleRequest, AskStatus, Drop, Notice, vars, clientVars, threadVars, nodeVars
  <2>2. toGw' \in {toGw, <<>>} \/ (toGw # <<>> /\ toGw' = Tail(toGw))
    BY <1>5 DEF HandleRequest, AskStatus, GwHandle, GwRequest, Drop, Notice, vars, linkVars
  <2>3. AllProper(toGw')
    BY <1>0, <2>2, AllProperTail
  <2> QED  BY <2>1, <2>3
<1> QED
  BY <1>1, <1>2, <1>3, <1>4, <1>5 DEF Next, ClientThread, HeartThread, HeartAlone, Authenticators

LEMMA FreshStep ==
    ASSUME Gentle, IInv, [Next]_vars, ~Crash, TypeOK', AuthInv'
    PROVE  FreshInv'
<1> USE Places3, TypesEmpty DEF IInv, FreshInv, At, New, Greets, QuietPlaces, InitPlaces
<1>0. MayFollow("ack", "none")
  BY DEF MayFollow, First
<1>1. CASE Start
  BY <1>0, <1>1 DEF Start, Open, Authenticators, Hand, RestartPlaces
<1>2. ASSUME NEW t \in Authenticators, Authenticate(t) PROVE FreshInv'
  <2> USE AuthFrame DEF Threads, Authenticators, AuthInv, SingleAuthenticator, AuthPlaces, InitPlaces, RestartPlaces
  <2>1. CASE InitFree(t) \/ InitKeys(t) \/ InitNull(t)
    BY <1>0, <1>2, <2>1, HandKept DEF InitFree, InitKeys, InitNull, Goto, linkVars
  <2>0. CASE InitWipe(t)
    BY <1>0, <1>2, <2>0 DEF InitWipe, Goto, Hand, LinkType, NoMsg, Message, linkVars, nodeVars
  <2>2. CASE InitState(t) \/ DhGenerate(t)
    BY <1>0, <1>2, <2>2 DEF InitState, DhGenerate, Goto, Hand, LinkType, linkVars
  <2>3. CASE CheckGoal(t)
    BY <1>2, <2>3 DEF CheckGoal, Finish, Goto, Sleep, nodeVars
  <2>4. CASE BuildRequest(t)
    BY <1>2, <2>4 DEF BuildRequest, Goto, Crash, linkVars, nodeVars
  <2>5. CASE SendRequest(t)
    BY <1>2, <2>5 DEF SendRequest, Goto, Sleep, Retry, SendResult, nodeVars, NetInv, Gentle, BrokenImpliesDone, NetStates
  <2>6. CASE Advance(t)
    BY <1>2, <2>6 DEF Advance, Sleep, AskInv, Asks
  <2> QED  BY <1>2, <2>0, <2>1, <2>2, <2>3, <2>4, <2>5, <2>6 DEF Authenticate
<1>3. CASE HeartAlone
  <2> USE DEF Authenticators, AuthInv, SingleAuthenticator, AuthPlaces, InitPlaces, RestartPlaces
  <2>1. CASE HeartCheck \/ HeartBuild
    BY <2>1, HandKept DEF HeartCheck, HeartBuild, Goto, linkVars, nodeVars
  <2>2. CASE HeartSend
    <3>1. pc["recv"] # "none" /\ link_state = "dev_reg_e" /\ MayFollow("ack", Hand)
      BY <2>2 DEF HeartSend, NetInv, AskInv, OrderInv, LinkType
    <3>2. pc["recv"] \in QuietPlaces
      BY <3>1 DEF Hand, MayFollow, First, Third, RecvPlaces
    <3>3. UNCHANGED <<pc["client"], pc["recv"], rmsg, nodeVars>> /\ pc'["heart"] \in {"close", "idle"}
      BY <2>2 DEF HeartSend, Goto, Sleep
    <3> QED  BY <2>2, <3>1, <3>2, <3>3 DEF HeartSend, NetInv, nodeVars, ClientPlaces
  <2>3. CASE RestartClose \/ RestartZero
    BY <2>3, HandKept DEF RestartClose, RestartZero, Goto, linkVars, nodeVars
  <2>4. CASE RestartConnect
    BY <2>4, HandKept DEF RestartConnect, Goto, Open
  <2>5. CASE RestartState
    <3>1. pc["recv"] \in QuietPlaces /\ MayFollow("ack", Hand')
      BY <1>0, <2>5 DEF RestartState, Goto, Hand, LinkType, OrderInv
    <3> QED  BY <2>5, <3>1 DEF RestartState, Goto, linkVars
  <2> QED  BY <1>3, <2>1, <2>2, <2>3, <2>4, <2>5 DEF HeartAlone
<1>4. CASE RecvThread
  <2> USE RecvFrame DEF Authenticators
  <2>1. ASSUME NEW t \in Authenticators, New(t)
        PROVE  toCli' = <<>> /\ Types(toGw') \subseteq {"status"}
    <3>1. Types(toGw') \subseteq {"status"}
      <4>1. pc["recv"] = "reply" => Types(Append(toGw, out["recv"])) = Types(toGw) \union {"status"}
        BY TypesAppend DEF OutInv, TypeOK, ClientTypeOK, Threads
      <4> QED  BY <1>4, <2>1, <4>1
    <3> QED  BY <1>4, <2>1, <3>1
  <2>2. pc["heart"] \in RestartPlaces => ~Receive
    BY <2>1 DEF Receive, NetInv, RestartPlaces
  <2>3. MayFollow("ack", Hand) => MayFollow("ack", Hand') \/ Receive
    BY <1>0, <1>4, RecvHand
  <2>4. Hand = "none" => Hand' = "none" \/ Receive
    BY <1>4, RecvHand
  <2>5. pc["recv"] = "idle" => Receive
    BY <1>4 DEF RecvThread, Receive, Distribute, RecvKeyngack, DhAlloc, DhCompute, DhExchanged,
       AckCheck, AckRegister, StatusBuild, StatusSend
  <2>6. /\ pc["recv"] \in QuietPlaces /\ MayFollow("ack", Hand) /\ link_state # "key_exc_e" /\ ~Receive
              => pc'["recv"] \in QuietPlaces
        /\ pc'["recv"] = "register" => pc["recv"] = "register" \/ link_state = "key_exc_e"
        /\ slow' = slow \/ pc'["recv"] = "idle"
    <3>1. CASE Receive \/ Distribute \/ AckCheck
      BY <3>1 DEF Receive, Distribute, AckCheck, Goto, HandlerDone, Hand, MayFollow, First, Third
    <3>2. CASE RecvKeyngack \/ DhAlloc \/ DhCompute \/ DhExchanged
      BY <3>2 DEF RecvKeyngack, DhAlloc, DhCompute, DhExchanged, Goto, HandlerDone, Crash
    <3>3. CASE AckRegister \/ StatusBuild \/ StatusSend
      BY <3>3 DEF AckRegister, StatusBuild, StatusSend, Goto, HandlerDone
    <3> QED  BY <1>4, <3>1, <3>2, <3>3 DEF RecvThread
  <2>7. link_state' = link_state \/ pc["recv"] \in {"keyngack", "exchanged", "register"}
    BY <1>4, RecvLink
  <2>8. p_shared_key' = p_shared_key \/ Hand = "dh"
    BY <1>4 DEF RecvThread, Receive, Distribute, RecvKeyngack, DhAlloc, DhCompute, DhExchanged,
       AckCheck, AckRegister, StatusBuild, StatusSend, Crash, nodeVars, Hand
  <2>9. ASSUME pc["heart"] \in RestartPlaces PROVE FreshInv!6'
    <3>1. link_state = "dev_reg_e" => MayFollow("ack", Hand)
      BY DEF OrderInv, LinkType
    <3> QED  BY <1>4, <2>2, <2>5, <2>6, <2>7, <2>9, <3>1
  <2>10. ASSUME NEW t \in Authenticators, New(t) PROVE ~Receive
    BY <2>10 DEF Receive
  <2>11. ASSUME NEW t \in Authenticators, pc[t] \in InitPlaces
         PROVE  /\ link_state' \in {"connect_e", "init_e"}
                /\ pc'["recv"] \in QuietPlaces
                /\ MayFollow("ack", Hand')
                /\ Greets(t) => Hand' = "none"
                /\ pc[t] \in {"wipe", "reset", "dhgen"} => p_shared_key' = NoKey
    <3>1. MayFollow("ack", Hand) => Hand # "dh"
      BY DEF MayFollow, First, Third
    <3> QED
      BY <3>1, <1>4, <2>3, <2>4, <2>6, <2>7, <2>8, <2>10, <2>11
  <2>12. pc["client"] \notin {"start"} \union InitPlaces
    BY <1>4, <2>5, <2>10 DEF NetInv
  <2>13. /\ pc'["recv"] = "register" => link_state' = "key_exc_e"
         /\ pc'["client"] = pc["client"] /\ pc'["heart"] = pc["heart"]
    <3>1. pc["recv"] \in {"keyngack", "exchanged", "register"} => pc'["recv"] # "register"
      BY <1>4 DEF RecvThread, Receive, Distribute, RecvKeyngack, DhAlloc, DhCompute, DhExchanged,
         AckCheck, AckRegister, StatusBuild, StatusSend, Crash, HandlerDone, Goto
    <3> QED  BY <1>4, <2>6, <2>7, <3>1
  <2> QED  BY <1>4, <2>1, <2>9, <2>11, <2>12, <2>13
<1>5. CASE HandleRequest \/ AskStatus \/ Drop \/ Notice \/ UNCHANGED vars
  <2>1. UNCHANGED <<pc, rmsg, link_state, p_shared_key, slow>>
    BY <1>5 DEF HandleRequest, AskStatus, Drop, Notice, vars, clientVars, threadVars, nodeVars
  <2>2. Hand' = Hand
    BY <2>1, HandKept
  <2>3. ASSUME NEW t \in Authenticators, New(t)
        PROVE  /\ toCli' = <<>> /\ Types(toGw') \subseteq {"status"}
               /\ net' = "up" => session' = NewSession
    <3>1. CASE HandleRequest
      <4>1. Head(toGw).type = "status" /\ Types(Tail(toGw)) \subseteq {"status"}
        BY <2>3, <3>1, TypesTail DEF HandleRequest, GwHandle
      <4> QED  BY <2>3, <3>1, <4>1 DEF HandleRequest, GwHandle, GwNegotiate, GwExchange,
             GwRegister, GwKeepalive, GwIgnore
    <3>2. CASE AskStatus
      BY <2>3, <3>2 DEF AskStatus, GwRequest, NewSession
    <3>3. CASE Drop \/ Notice
      BY <2>3, <3>3 DEF Drop, Notice
    <3>4. CASE UNCHANGED vars
      BY <2>3, <3>4 DEF vars, linkVars
    <3> QED  BY <1>5, <3>1, <3>2, <3>3, <3>4
  <2> QED  BY <2>1, <2>2, <2>3
<1> QED
  BY <1>1, <1>2, <1>3, <1>4, <1>5 DEF Next, ClientThread, HeartThread, HeartAlone, Authenticators

-----------------------------------------------------------------------------
(* What has no place in the order follows anything and is followed by it;  *)
(* an answer has the place of its request.                                 *)
Neutral == {"none", "status", "get_status"}

LEMMA NeutralFollows ==
    ASSUME NEW a, NEW b, a \in Neutral \/ b \in Neutral \union Third
    PROVE  MayFollow(a, b)
BY DEF MayFollow, Neutral, First, Third

LEMMA AnswerFollows ==
    ASSUME NEW a, NEW b,
           \/ a \in First /\ b \in First
           \/ a \in Third /\ b \in Third
           \/ a = b
    PROVE  /\ MayFollow(a, b)
           /\ \A c : MayFollow(c, a) <=> MayFollow(c, b)
           /\ \A c : MayFollow(a, c) <=> MayFollow(b, c)
BY DEF MayFollow, First, Third

(* A request that still has to be made keeps its place or moves back. *)
AskKept(t) ==
    Asks(t)' =>
        \/ goal'[t] = "dev_reg_e"
        \/ Asks(t) /\ goal'[t] = goal[t]
        \/ Asks(t) /\ goal[t] = "key_req_e" /\ goal'[t] = "key_exc_e"

LEMMA AskKeptFollows ==
    ASSUME NEW t \in Authenticators, AskKept(t), Asks(t)', NEW a,
           Asks(t) => MayFollow(a, Request[goal[t]])
    PROVE  MayFollow(a, Request[goal'[t]])
BY DEF AskKept, Request, MayFollow, First, Third

(* Nothing comes that has a place in the order. *)
LEMMA NothingNew ==
    ASSUME OrderInv,
           MayFollow(LinkType', Hand'),
           Seen' \subseteq Seen \union Neutral,
           Types(toCli') \subseteq Types(toCli) \union Neutral,
           Types(toGw') \subseteq Types(toGw) \union Neutral,
           Outs' \subseteq Outs \union Neutral,
           Sorted(toCli'), Sorted(toGw'),
           \A t \in Authenticators : AskKept(t)
    PROVE  OrderInv'
<1> USE NeutralFollows DEF OrderInv
<1>1. \A a \in Seen', b \in Types(toCli') : MayFollow(a, b)
  OBVIOUS
<1>2. \A a \in Seen' \union Types(toCli'), b \in Types(toGw') : MayFollow(a, b)
  OBVIOUS
<1>3. \A a \in Seen' \union Types(toCli') \union Types(toGw') \union Outs', b \in Outs' : MayFollow(a, b)
  OBVIOUS
<1>4. ASSUME NEW t \in Authenticators, Asks(t)',
             NEW a \in Seen' \union Types(toCli') \union Types(toGw') \union Outs'
      PROVE  MayFollow(a, Request[goal'[t]])
  <2>1. CASE a \in Neutral
    BY <2>1
  <2>2. CASE a \notin Neutral
    BY <1>4, <2>2, AskKeptFollows
  <2> QED  BY <2>1, <2>2
<1> QED  BY <1>1, <1>2, <1>3, <1>4

(* Nothing that has a place in the order is left. *)
LEMMA AllNeutral ==
    ASSUME Seen' \union Types(toCli') \union Types(toGw') \union Outs' \subseteq Neutral,
           Sorted(toCli'), Sorted(toGw')
    PROVE  OrderInv'
BY NeutralFollows DEF OrderInv, Seen

(* The recv thread takes the first message of its stream. *)
LEMMA MessageTaken ==
    ASSUME TypeOK, OrderInv, toCli # <<>>, toCli' = Tail(toCli),
           LinkType' = LinkType, Hand' = Head(toCli).type,
           toGw' = toGw, out' = out, \A t \in Authenticators : AskKept(t)
    PROVE  OrderInv'
<1> DEFINE m == Head(toCli).type
<1>1. /\ m \in Types(toCli) /\ Types(toCli') \subseteq Types(toCli)
      /\ Sorted(toCli') /\ \A b \in Types(toCli') : MayFollow(m, b)
  BY TypesTail, SortedTail DEF TypeOK, LinkTypeOK, OrderInv
<1>2. Seen' = {LinkType, m} /\ Outs' = Outs /\ LinkType \in Seen
  BY DEF Seen, Outs
<1>3. MayFollow(LinkType', Hand')
  BY <1>1, <1>2 DEF OrderInv
<1>4. \A a \in Seen', b \in Types(toCli') : MayFollow(a, b)
  BY <1>1, <1>2 DEF OrderInv
<1>5. \A a \in Seen' \union Types(toCli'), b \in Types(toGw') : MayFollow(a, b)
  BY <1>1, <1>2 DEF OrderInv
<1>6. \A a \in Seen' \union Types(toCli') \union Types(toGw') \union Outs', b \in Outs' : MayFollow(a, b)
  BY <1>1, <1>2 DEF OrderInv
<1>7. ASSUME NEW t \in Authenticators, Asks(t)',
             NEW a \in Seen' \union Types(toCli') \union Types(toGw') \union Outs'
      PROVE  MayFollow(a, Request[goal'[t]])
  BY <1>1, <1>2, <1>7, AskKeptFollows DEF OrderInv
<1> QED  BY <1>1, <1>3, <1>4, <1>5, <1>6, <1>7 DEF OrderInv

(* The gateway takes a request and puts its answer in the same place. *)
LEMMA MessageAnswered ==
    ASSUME TypeOK, OrderInv, toGw # <<>>, toGw' = Tail(toGw),
           NEW m \in GatewayMessages, toCli' = Append(toCli, m),
           \/ Head(toGw).type \in First /\ m.type \in First
           \/ Head(toGw).type \in Third /\ m.type \in Third
           \/ Head(toGw).type = m.type,
           UNCHANGED clientVars
    PROVE  OrderInv'
<1> DEFINE r == Head(toGw).type
<1>1. /\ r \in Types(toGw) /\ Types(toGw') \subseteq Types(toGw)
      /\ Sorted(toGw') /\ \A b \in Types(toGw') : MayFollow(r, b)
  BY TypesTail, SortedTail DEF TypeOK, LinkTypeOK, OrderInv
<1>2. Seen' = Seen /\ Outs' = Outs /\ UNCHANGED <<pc, goal, LinkType, Hand>>
  BY DEF Seen, Outs, clientVars, threadVars, nodeVars, Hand, LinkType
<1>3. /\ \A c : MayFollow(c, m.type) <=> MayFollow(c, r)
      /\ \A c : MayFollow(m.type, c) <=> MayFollow(r, c)
  BY AnswerFollows
<1>4. Types(toCli') = Types(toCli) \union {m.type} /\ Sorted(toCli')
  BY <1>1, <1>3, TypesAppend, SortedAppend DEF TypeOK, LinkTypeOK, OrderInv
<1>5. \A a \in Seen', b \in Types(toCli') : MayFollow(a, b)
  BY <1>1, <1>2, <1>3, <1>4 DEF OrderInv
<1>6. \A a \in Seen' \union Types(toCli'), b \in Types(toGw') : MayFollow(a, b)
  BY <1>1, <1>2, <1>3, <1>4 DEF OrderInv
<1>7. \A a \in Seen' \union Types(toCli') \union Types(toGw') \union Outs', b \in Outs' : MayFollow(a, b)
  BY <1>1, <1>2, <1>3, <1>4 DEF OrderInv
<1>8. ASSUME NEW t \in Authenticators, Asks(t)',
             NEW a \in Seen' \union Types(toCli') \union Types(toGw') \union Outs'
      PROVE  MayFollow(a, Request[goal'[t]])
  BY <1>1, <1>2, <1>3, <1>4, <1>8 DEF OrderInv, Asks
<1> QED  BY <1>1, <1>2, <1>4, <1>5, <1>6, <1>7, <1>8 DEF OrderInv

(* A thread hands what it has built to the socket. *)
LEMMA MessageSent ==
    ASSUME TypeOK, OrderInv, NEW u \in Authenticators, Transmit(u),
           Seen' = Seen, MayFollow(LinkType', Hand'),
           \A t \in Authenticators : AskKept(t)
    PROVE  OrderInv'
<1>1. /\ out \in [Threads -> ClientMessages] /\ toGw \in Seq(ClientMessages) /\ u \in Threads
      /\ out[u].type \in Outs
  BY DEF TypeOK, ClientTypeOK, LinkTypeOK, Threads, Outs
<1>2. Outs' \subseteq Outs \union {"none"} /\ toCli' = toCli
  BY <1>1 DEF Outs, Transmit, NoMsg, Message, Threads
<1>3. toGw' = toGw \/ toGw' = Append(toGw, out[u])
  BY DEF Transmit
<1>4. /\ Types(Append(toGw, out[u])) = Types(toGw) \union {out[u].type}
      /\ Sorted(Append(toGw, out[u]))
  BY <1>1, TypesAppend, SortedAppend DEF OrderInv
<1>5. Types(toGw') \subseteq Types(toGw) \union Outs /\ Sorted(toGw')
  BY <1>1, <1>3, <1>4 DEF OrderInv
<1>6. \A a \in Seen', b \in Types(toCli') : MayFollow(a, b)
  BY <1>2 DEF OrderInv
<1>7. \A a \in Seen' \union Types(toCli'), b \in Types(toGw') : MayFollow(a, b)
  BY <1>2, <1>5 DEF OrderInv
<1>8. \A a \in Seen' \union Types(toCli') \union Types(toGw') \union Outs', b \in Outs' : MayFollow(a, b)
  BY <1>2, <1>5, NeutralFollows DEF OrderInv, Neutral
<1>9. ASSUME NEW t \in Authenticators, Asks(t)',
             NEW a \in Seen' \union Types(toCli') \union Types(toGw') \union Outs'
      PROVE  MayFollow(a, Request[goal'[t]])
  <2>1. CASE a = "none"
    BY <2>1, NeutralFollows DEF Neutral
  <2>2. CASE a # "none"
    BY <1>2, <1>5, <1>9, <2>2, AskKeptFollows DEF OrderInv
  <2> QED  BY <2>1, <2>2
<1> QED  BY <1>2, <1>5, <1>6, <1>7, <1>8, <1>9 DEF OrderInv

LEMMA OrderStep ==
    ASSUME Gentle, IInv, [Next]_vars, ~Crash, TypeOK', AuthInv'
    PROVE  OrderInv'
<1>b. TypeOK
  BY DEF IInv
<1> USE <1>b, Places3, TypesEmpty DEF At
<1>0. OrderInv /\ TypeOK /\ MayFollow(LinkType, Hand) /\ Sorted(toCli) /\ Sorted(toGw)
  BY DEF IInv, OrderInv
<1>a. \A a : MayFollow(a, "none") /\ MayFollow("none", a)
  BY NeutralFollows DEF Neutral
<1>1. CASE Start
  <2>1. Hand' = "none" /\ LinkType' = "none" /\ toCli' = <<>> /\ toGw' = <<>> /\ out' = out
    BY <1>1 DEF Start, Open, Hand, LinkType
  <2>2. \A t \in Authenticators : out[t].type = "none"
    BY <1>1 DEF Start, IInv, NetInv, OutInv, Authenticators
  <2> QED  BY <2>1, <2>2, AllNeutral DEF Seen, Outs, Neutral
<1>2. ASSUME NEW t \in Authenticators, Authenticate(t) PROVE OrderInv'
  <2> USE AuthFrame DEF Threads, Authenticators
  <2>1. CASE InitFree(t) \/ InitKeys(t) \/ InitNull(t) \/ InitWipe(t) \/ InitState(t) \/ Advance(t)
    <3>1. /\ UNCHANGED <<toCli, toGw, out, goal>>
          /\ pc'["recv"] = pc["recv"]
      BY <1>2, <2>1 DEF InitFree, InitKeys, InitNull, InitWipe, InitState, Advance, linkVars
    <3>2. Hand' \in {Hand, "none"} /\ LinkType' \in {LinkType, "none"}
          /\ (Hand' = "none" \/ LinkType' = "none" \/ LinkType' = LinkType)
      BY <2>1, <3>1 DEF InitFree, InitKeys, InitNull, InitWipe, InitState, Advance, Hand, LinkType, NoMsg, Message, nodeVars
    <3>3. MayFollow(LinkType', Hand')
      BY <1>0, <1>a, <3>2
    <3>4. \A u \in Authenticators : AskKept(u)
      BY <1>2, <2>1, <3>1 DEF AskKept, Asks, InitFree, InitKeys, InitNull, InitWipe, InitState, Advance, Goto, Sleep
    <3> QED  BY <1>0, <3>1, <3>2, <3>3, <3>4, NothingNew DEF Seen, Outs, Neutral
  <2>2. CASE DhGenerate(t)
    <3>1. /\ Hand = "none" /\ link_state = "init_e" /\ toCli = <<>> /\ Types(toGw) \subseteq {"status"}
          /\ UNCHANGED <<toCli, toGw, out, rmsg, link_state>> /\ pc'["recv"] = pc["recv"]
      BY <1>2, <2>2 DEF DhGenerate, IInv, FreshInv, Greets, New, AskInv, linkVars, InitPlaces
    <3>2. Hand' = "none" /\ LinkType' = "none"
      BY <3>1, HandKept DEF LinkType
    <3>3. \A u \in Authenticators : out[u].type = "none"
      BY <1>2, <2>2, <3>1 DEF DhGenerate, IInv, OutInv, AskInv, AuthInv, SingleAuthenticator, AuthPlaces, InitPlaces
    <3> QED  BY <1>0, <3>1, <3>2, <3>3, AllNeutral DEF Seen, Outs, Neutral
  <2>3. CASE CheckGoal(t)
    <3>1. /\ UNCHANGED <<toCli, toGw, out, rmsg, link_state>> /\ pc'["recv"] = pc["recv"]
          /\ goal[t] \in Goals
      BY <1>2, <2>3 DEF CheckGoal, linkVars, nodeVars, IInv, TypeOK, ClientTypeOK
    <3>2. \A u \in Authenticators : AskKept(u)
      BY <1>2, <2>3, <3>1 DEF AskKept, Asks, CheckGoal, Finish, Goto, Sleep, NextGoal, Goals
    <3> QED  BY <1>0, <3>1, <3>2, HandKept, NothingNew DEF Seen, Outs
  <2>4. CASE BuildRequest(t)
    <3>1. CASE Crash
      <4>1. UNCHANGED vars \/ UNCHANGED <<toCli, toGw, out, rmsg, link_state, pc, goal>>
        BY <3>1 DEF Crash, linkVars, nodeVars
      <4> QED  BY <1>0, <4>1, HandKept, NothingNew DEF Seen, Outs, AskKept, Asks, vars, linkVars, clientVars, nodeVars, threadVars
    <3>2. CASE ~Crash
      <4> DEFINE r == Request[goal[t]]
      <4>1. /\ UNCHANGED <<toCli, toGw, rmsg, link_state, goal>> /\ pc'["recv"] = pc["recv"]
            /\ goal[t] \in Goals /\ out'[t].type = r
        BY <1>2, <2>4, <3>2 DEF BuildRequest, Prepare, Message, linkVars, nodeVars, IInv, TypeOK, ClientTypeOK
      <4>2. Seen' = Seen /\ Hand' = Hand /\ LinkType' = LinkType
        BY <4>1, HandKept DEF Seen
      <4>3. /\ Outs' \subseteq Outs \union {r}
            /\ Asks(t) /\ \A u \in Authenticators : u # t => ~Asks(u)' /\ out'[u].type \in {"none", "keepalive"}
        BY <1>2, <2>4, <4>1 DEF BuildRequest, Outs, Asks, IInv, OutInv, AuthInv, SingleAuthenticator, AuthPlaces, InitPlaces
      <4>4. \A a \in Seen \union Types(toCli) \union Types(toGw) \union Outs : MayFollow(a, r)
        BY <4>3 DEF IInv, OrderInv
      <4>5. MayFollow(r, r) /\ MayFollow(r, "keepalive")
        BY AnswerFollows, NeutralFollows DEF Third
      <4>6. \A b \in Outs' : b \in {r, "none", "keepalive"}
        BY <4>1, <4>3 DEF Outs
      <4>7. \A a \in Seen \union Types(toCli) \union Types(toGw) \union Outs', b \in Outs' : MayFollow(a, b)
        BY <1>a, <4>3, <4>4, <4>5, <4>6, NeutralFollows DEF Third
      <4>8. ASSUME NEW u \in Authenticators, Asks(u)',
                   NEW a \in Seen' \union Types(toCli') \union Types(toGw') \union Outs'
            PROVE  MayFollow(a, Request[goal'[u]])
        BY <4>1, <4>2, <4>3, <4>4, <4>5, <4>8
      <4> QED  BY <1>0, <4>1, <4>2, <4>7, <4>8 DEF OrderInv
    <3> QED  BY <3>1, <3>2
  <2>5. CASE SendRequest(t)
    <3>1. UNCHANGED <<rmsg, link_state>> /\ pc'["recv"] = pc["recv"]
      BY <1>2, <2>5 DEF SendRequest, nodeVars
    <3>2. \A u \in Authenticators : AskKept(u)
      BY <1>2, <2>5 DEF AskKept, Asks, SendRequest, Goto, Sleep, Retry
    <3> QED  BY <1>0, <2>5, <3>1, <3>2, HandKept, MessageSent DEF Seen, SendRequest
  <2> QED  BY <1>2, <2>1, <2>2, <2>3, <2>4, <2>5 DEF Authenticate
<1>3. CASE HeartAlone
  <2> USE DEF Authenticators
  <2>1. CASE HeartCheck \/ RestartClose \/ RestartZero \/ RestartConnect \/ RestartState
    <3>1. /\ UNCHANGED <<out, goal>> /\ pc'["recv"] = pc["recv"] /\ rmsg' = rmsg
          /\ toCli' \in {toCli, <<>>} /\ toGw' \in {toGw, <<>>}
          /\ LinkType' \in {LinkType, "none"}
      BY <2>1 DEF HeartCheck, RestartClose, RestartZero, RestartConnect, RestartState, Open,
         Goto, linkVars, nodeVars, LinkType
    <3>2. Hand' \in {Hand, "none"}
      BY <3>1 DEF Hand
    <3>3. MayFollow(LinkType', Hand')
      BY <1>0, <1>a, <3>1, <3>2
    <3>4. \A u \in Authenticators : AskKept(u)
      BY <2>1, <3>1 DEF AskKept, Asks, HeartCheck, RestartClose, RestartZero, RestartConnect, RestartState, Goto
    <3> QED  BY <1>0, <3>1, <3>2, <3>3, <3>4, NothingNew DEF Seen, Outs, Neutral
  <2>2. CASE HeartBuild
    <3>1. /\ UNCHANGED <<toCli, toGw, rmsg, link_state, goal>> /\ pc'["recv"] = pc["recv"]
          /\ out'["heart"].type = "keepalive" /\ out'["client"] = out["client"]
          /\ \A u \in Authenticators : Asks(u)' => Asks(u) /\ goal'[u] = goal[u]
      BY <2>2 DEF HeartBuild, Prepare, Message, linkVars, nodeVars, Asks, Goto, Threads
    <3>2. Seen' = Seen /\ Hand' = Hand /\ LinkType' = LinkType
      BY <3>1, HandKept DEF Seen
    <3>3. \A u \in Authenticators : Asks(u) => goal[u] = "dev_reg_e"
      BY <2>2 DEF HeartBuild, IInv, AskInv, TypeOK, ClientTypeOK, Goals
    <3>4. out["client"].type \in {"none", "dev_reg"}
      BY <2>2, <3>3 DEF HeartBuild, IInv, OutInv, Asks, ClientPlaces, AuthPlaces, InitPlaces, Request
    <3>5. Outs' \subseteq {"none", "dev_reg", "keepalive"}
      BY <3>1, <3>4 DEF Outs
    <3>6. \A a : \A b \in {"none", "dev_reg", "keepalive"} : MayFollow(a, b)
      BY NeutralFollows DEF Neutral, Third
    <3>7. \A u \in Authenticators : Asks(u)' => Request[goal'[u]] = "dev_reg"
      BY <3>1, <3>3 DEF Request
    <3> QED  BY <1>0, <3>1, <3>2, <3>5, <3>6, <3>7 DEF OrderInv
  <2>3. CASE HeartSend
    <3>1. UNCHANGED <<rmsg, link_state>> /\ pc'["recv"] = pc["recv"]
      BY <2>3 DEF HeartSend, Goto, Sleep, nodeVars
    <3>2. \A u \in Authenticators : AskKept(u)
      BY <2>3 DEF AskKept, Asks, HeartSend, Goto, Sleep
    <3> QED  BY <1>0, <2>3, <3>1, <3>2, HandKept, MessageSent DEF Seen, HeartSend
  <2> QED  BY <1>3, <2>1, <2>2, <2>3 DEF HeartAlone
<1>4. CASE RecvThread
  <2> USE RecvFrame DEF Authenticators
  <2>0. \A u \in Authenticators : AskKept(u)
    BY <1>4 DEF AskKept, Asks
  <2>1. CASE Receive
    <3>1. Hand' = Head(toCli).type /\ LinkType' = LinkType /\ out' = out /\ toGw' = toGw
      BY <2>1 DEF Receive, Goto, Hand, LinkType, nodeVars
    <3> QED  BY <1>0, <2>0, <2>1, <3>1, MessageTaken DEF Receive
  <2>2. CASE ~Receive
    <3>1. /\ toCli' = toCli
          /\ Hand' \in {Hand, "none"} /\ LinkType' \in {LinkType, Hand, "none"}
          /\ (Hand' = "none" \/ LinkType' = LinkType)
      BY <1>4, <2>2, RecvHand
    <3>2. MayFollow(LinkType', Hand')
      BY <1>0, <1>a, <3>1
    <3>3. Types(toGw') \subseteq Types(toGw) \union {"status"} /\ Sorted(toGw')
      <4>1. CASE toGw' = toGw
        BY <1>0, <4>1
      <4>2. CASE toGw' # toGw
        <5>1. out["recv"].type = "status" /\ out["recv"] \in ClientMessages
          BY <1>4, <4>2 DEF IInv, OutInv, TypeOK, ClientTypeOK, Threads
        <5>2. \A a \in Types(toGw) : MayFollow(a, out["recv"].type)
          BY <5>1, NeutralFollows DEF Neutral
        <5>3. Sorted(Append(toGw, out["recv"]))
          BY <1>0, <5>1, <5>2, SortedAppend
        <5>4. Types(Append(toGw, out["recv"])) = Types(toGw) \union {"status"}
          BY <5>1, TypesAppend
        <5> QED  BY <1>4, <4>2, <5>3, <5>4
      <4> QED  BY <4>1, <4>2
    <3> QED  BY <1>0, <1>4, <2>0, <3>1, <3>2, <3>3, NothingNew DEF Seen, Outs, Neutral
  <2> QED  BY <2>1, <2>2
<1>5. CASE HandleRequest
  <2>1. toGw # <<>> /\ toGw' = Tail(toGw) /\ UNCHANGED clientVars
    BY <1>5 DEF HandleRequest, GwHandle
  <2>2. CASE toCli' = toCli
    <3>1. UNCHANGED <<pc, goal, out, rmsg, link_state>>
      BY <2>1 DEF clientVars, threadVars, nodeVars
    <3>2. Types(toGw') \subseteq Types(toGw) /\ Sorted(toGw')
      BY <1>0, <2>1, TypesTail, SortedTail
    <3> QED  BY <1>0, <2>2, <3>1, <3>2, HandKept, NothingNew DEF Seen, Outs, AskKept, Asks
  <2>3. CASE toCli' # toCli
    <3>1. PICK type \in {"keyngack", "dh", "ack"}, pub \in 0..GwIds :
             /\ toCli' = Append(toCli, Message(type, session.key, pub))
             /\ type = "dh" => pub # 0
             /\ \/ Head(toGw).type \in First /\ type \in First
                \/ Head(toGw).type \in Third /\ type \in Third
                \/ Head(toGw).type = type
      <4>1. NextId(lastGw, GwIds) \in 1..GwIds /\ 1..GwIds \subseteq 0..GwIds \ {0} /\ 0 \in 0..GwIds
        BY NextIdType, LinkAssumption DEF TypeOK, LinkTypeOK
      <4>2. CASE GwExchange(Head(toGw))
        BY <4>1, <4>2 DEF GwExchange, Reply
      <4>3. CASE GwNegotiate(Head(toGw))
        BY <4>1, <4>3 DEF GwNegotiate, Reply, First
      <4>4. CASE GwRegister(Head(toGw))
        BY <4>1, <4>4 DEF GwRegister, Reply, Third
      <4>5. CASE GwKeepalive(Head(toGw))
        BY <2>3, <4>1, <4>5 DEF GwKeepalive, Reply, Third
      <4> QED  BY <1>5, <2>3, <4>2, <4>3, <4>4, <4>5 DEF HandleRequest, GwHandle, GwIgnore
    <3>2. Message(type, session.key, pub) \in GatewayMessages
      BY <1>0, <3>1, RepliedType DEF TypeOK, LinkTypeOK, Sessions
    <3>3. Message(type, session.key, pub).type = type
      BY DEF Message
    <3> HIDE DEF Types, Sorted
    <3> QED  BY <1>0, <2>1, <3>1, <3>2, <3>3, MessageAnswered
  <2> QED  BY <2>2, <2>3
<1>6. CASE AskStatus
  <2>1. /\ UNCHANGED <<pc, goal, out, rmsg, link_state, toGw>> /\ toCli' = <<Message("get_status", session.key, 0)>>
    BY <1>6 DEF AskStatus, GwRequest, Reply, clientVars, threadVars, nodeVars
  <2>2. Types(toCli') = {"get_status"} /\ Sorted(toCli')
    BY <2>1, NeutralFollows DEF Types, Sorted, Message, Neutral
  <2> QED  BY <1>0, <2>1, <2>2, HandKept, NothingNew DEF Seen, Outs, AskKept, Asks, Neutral
<1>7. CASE Drop \/ Notice \/ UNCHANGED vars
  <2>1. /\ UNCHANGED <<pc, goal, out, rmsg, link_state>>
        /\ toCli' \in {toCli, <<>>} /\ toGw' \in {toGw, <<>>}
    BY <1>7 DEF Drop, Notice, vars, linkVars, clientVars, threadVars, nodeVars
  <2> QED  BY <1>0, <2>1, HandKept, NothingNew DEF Seen, Outs, AskKept, Asks
<1> QED
  BY <1>1, <1>2, <1>3, <1>4, <1>5, <1>6, <1>7 DEF Next, ClientThread, HeartThread, HeartAlone, Authenticators

LEMMA NegoStep ==
    ASSUME Gentle, IInv, [Next]_vars, ~Crash, TypeOK', AuthInv'
    PROVE  NegoInv'
<1>b. TypeOK /\ ClearInv /\ OrderInv
  BY DEF IInv
<1> USE <1>b, Places3, TypesEmpty DEF At, InitPlaces
<1> SUFFICES ASSUME net' = "up", session'.phase = "new"
             PROVE  /\ session'.key = NoKey
                    /\ toCli' = <<>>
                    /\ "keyngreq" \in Types(toGw') \/ Silent'
  BY DEF NegoInv
<1>a. net = "up" /\ session' = session =>
        /\ session.key = NoKey /\ toCli = <<>>
        /\ "keyngreq" \in Types(toGw) \/ Silent
  BY DEF IInv, NegoInv
<1>c. link_state = "dev_reg_e" /\ Silent => \E t \in Authenticators : pc[t] = "state"
  BY DEF Silent, IInv, FreshInv, New, Greets
<1>1. CASE Start
  BY <1>1 DEF Start, Open, NewSession, Silent, New, Authenticators
<1>2. ASSUME NEW t \in Authenticators, Authenticate(t)
      PROVE  /\ session'.key = NoKey /\ toCli' = <<>>
             /\ "keyngreq" \in Types(toGw') \/ Silent'
  <2> USE AuthFrame DEF Threads, Authenticators
  <2>1. /\ session'.key = NoKey /\ toCli' = <<>> /\ net = "up"
        /\ "keyngreq" \in Types(toGw) \/ Silent
    BY <1>2, <1>a
  <2>2. Silent => \/ New(t)
                  \/ /\ Asks(t) /\ goal[t] = "key_req_e" /\ pc[t] # "advance"
                     /\ link_state = "init_e" /\ Hand = "none"
    BY <1>2 DEF Silent, New, Asks, IInv, AuthInv, SingleAuthenticator, AuthPlaces, RestartPlaces
  <2>3. CASE InitFree(t) \/ InitKeys(t) \/ InitNull(t) \/ InitWipe(t) \/ InitState(t)
    BY <1>2, <2>1, <2>2, <2>3 DEF InitFree, InitKeys, InitNull, InitWipe, InitState, Goto, Silent, New, Asks, linkVars
  <2>4. CASE DhGenerate(t)
    <3>1. link_state' = "init_e" /\ Hand' = "none"
      BY <1>2, <2>4, HandKept DEF DhGenerate, IInv, AskInv, FreshInv, Greets
    <3> QED  BY <1>2, <2>1, <2>4, <3>1 DEF DhGenerate, Goto, Silent, New, Asks, linkVars
  <2>5. CASE CheckGoal(t) \/ BuildRequest(t)
    <3>1. UNCHANGED <<toGw, link_state, rmsg>> /\ pc'["recv"] = pc["recv"]
      BY <1>2, <2>5 DEF CheckGoal, BuildRequest, Crash, linkVars, nodeVars
    <3>2. goal[t] = "key_req_e" /\ link_state = "init_e" => Asks(t)' /\ goal'[t] = goal[t] /\ pc'[t] # "advance"
      BY <2>5 DEF CheckGoal, BuildRequest, Goto, Crash, Asks
    <3> QED  BY <1>2, <2>1, <2>2, <2>5, <3>1, <3>2, HandKept DEF Silent, New, CheckGoal, BuildRequest
  <2>6. CASE SendRequest(t)
    <3>1. UNCHANGED <<link_state, rmsg>> /\ pc'["recv"] = pc["recv"]
      BY <1>2, <2>6 DEF SendRequest, nodeVars
    <3>2. Types(Append(toGw, out[t])) = Types(toGw) \union {out[t].type}
      BY TypesAppend DEF TypeOK, ClientTypeOK
    <3>3. goal[t] = "key_req_e" => out[t].type = "keyngreq"
      BY <2>6 DEF SendRequest, IInv, OutInv, Request
    <3>4. toGw' = toGw => fd = 0 \/ toGw' = Append(toGw, out[t])
      BY <2>1, <2>6 DEF SendRequest, Transmit
    <3>5. CASE toGw' = Append(toGw, out[t])
      BY <2>1, <2>2, <2>6, <3>2, <3>3, <3>5 DEF SendRequest, New
    <3>6. CASE toGw' = toGw /\ fd = 0
      <4>1. pc'[t] = "check" /\ goal' = goal
        BY <2>6, <3>6 DEF SendRequest, SendResult, Advances, Goto, Sleep
      <4> QED  BY <2>1, <2>2, <2>6, <3>1, <3>6, <4>1, HandKept DEF SendRequest, New, Silent, Asks
    <3> QED  BY <2>6, <3>4, <3>5, <3>6 DEF SendRequest, Transmit
  <2>7. CASE Advance(t)
    BY <2>1, <2>2, <2>7 DEF Advance, New, linkVars
  <2> QED  BY <1>2, <2>3, <2>4, <2>5, <2>6, <2>7 DEF Authenticate
<1>3. CASE HeartAlone
  <2> USE DEF Authenticators
  <2>1. CASE HeartCheck \/ HeartBuild \/ HeartSend
    <3>1. link_state = "dev_reg_e" /\ net = "up" /\ pc["heart"] # "state" /\ pc["client"] # "state"
      BY <2>1 DEF HeartCheck, HeartBuild, HeartSend, Transmit, linkVars, IInv, AskInv, ClientPlaces, AuthPlaces
    <3>2. session.key = NoKey /\ toCli = <<>> /\ "keyngreq" \in Types(toGw) /\ session' = session /\ toCli' = toCli
      BY <1>a, <1>c, <2>1, <3>1 DEF HeartCheck, HeartBuild, HeartSend, Transmit, linkVars
    <3>3. Types(Append(toGw, out["heart"])) = Types(toGw) \union {out["heart"].type}
      BY TypesAppend DEF TypeOK, ClientTypeOK, Threads
    <3>4. toGw' \in {toGw, Append(toGw, out["heart"])}
      BY <2>1 DEF HeartCheck, HeartBuild, HeartSend, Transmit, linkVars
    <3> QED  BY <3>2, <3>3, <3>4
  <2>2. CASE RestartClose \/ RestartZero
    BY <2>2 DEF RestartClose, RestartZero, linkVars, IInv, NetInv
  <2>3. CASE RestartConnect
    BY <2>3 DEF RestartConnect, Open, Goto, NewSession, Silent, New
  <2>4. CASE RestartState
    BY <1>a, <2>4 DEF RestartState, Goto, linkVars, Silent, New
  <2> QED  BY <1>3, <2>1, <2>2, <2>3, <2>4 DEF HeartAlone
<1>4. CASE RecvThread
  <2> USE RecvFrame DEF Authenticators
  <2>1. /\ session.key = NoKey /\ toCli = <<>> /\ ~Receive
        /\ "keyngreq" \in Types(toGw) \/ Silent
    BY <1>4, <1>a DEF Receive
  <2>2. toCli' = <<>> /\ (Hand = "none" => Hand' = "none" /\ link_state' = link_state)
    <3>1. Hand = "none" => pc["recv"] \notin {"keyngack", "exchanged", "register"}
      BY DEF Hand
    <3> QED  BY <1>4, <2>1, <3>1, RecvHand, RecvLink
  <2>3. Types(toGw') \in {Types(toGw), Types(toGw) \union {"status"}}
    <3>1. pc["recv"] = "reply" => Types(Append(toGw, out["recv"])) = Types(toGw) \union {"status"}
      BY TypesAppend DEF IInv, OutInv, TypeOK, ClientTypeOK, Threads
    <3> QED  BY <1>4, <3>1
  <2>4. \A t \in Authenticators : pc'[t] = pc[t] /\ goal' = goal
    BY <1>4
  <2>5. Silent => Silent'
    BY <2>2, <2>3, <2>4 DEF Silent, New, Asks
  <2>6. session' = session
    BY <1>4
  <2> QED  BY <2>1, <2>2, <2>3, <2>5, <2>6
<1>5. CASE HandleRequest
  <2> DEFINE m == Head(toGw)
  <2>1. /\ toGw # <<>> /\ toGw' = Tail(toGw) /\ net = "up" /\ UNCHANGED clientVars
        /\ Types(toGw) = {m.type} \union Types(Tail(toGw)) /\ m.type \in Types(toGw)
        /\ \A b \in Types(Tail(toGw)) : MayFollow(m.type, b)
        /\ Proper(m)
        /\ session \in Sessions
    BY <1>5, TypesTail, SortedTail, AllProperTail DEF HandleRequest, GwHandle, OrderInv, ClearInv, TypeOK, LinkTypeOK
  <2>2. session.phase = "new"
    BY <1>5, <2>1 DEF HandleRequest, GwHandle, GwNegotiate, GwExchange, GwRegister, GwKeepalive, GwIgnore, Sessions
  <2>3. session.key = NoKey /\ toCli = <<>> /\ ("keyngreq" \in Types(toGw) \/ Silent)
    BY <2>1, <2>2 DEF IInv, NegoInv
  <2>4. CASE GwIgnore(m)
    <3>1. m.type # "keyngreq"
      BY <2>1, <2>3, <2>4 DEF GwIgnore, Readable, Proper
    <3>2. Silent => Silent'
      BY <2>1, HandKept DEF Silent, New, Asks, clientVars, threadVars, nodeVars
    <3> QED  BY <2>1, <2>3, <2>4, <3>1, <3>2 DEF GwIgnore
  <2>5. CASE ~GwIgnore(m)
    <3>1. m.type = "keyngreq"
      BY <1>5, <2>1, <2>3, <2>5 DEF HandleRequest, GwHandle, GwNegotiate, GwExchange, GwRegister,
         GwKeepalive, Silent, MayFollow, First, Third
    <3>2. session'.phase = "negotiated"
      BY <1>5, <2>1, <2>5, <3>1 DEF HandleRequest, GwHandle, GwNegotiate, GwExchange, GwRegister, GwKeepalive, Sessions
    <3> QED  BY <3>2
  <2> QED  BY <2>4, <2>5
<1>6. CASE AskStatus
  BY <1>6 DEF AskStatus, GwRequest
<1>7. CASE Drop \/ Notice
  BY <1>7 DEF Drop, Notice
<1>8. CASE UNCHANGED vars
  <2>1. Silent => Silent'
    BY <1>8, HandKept DEF Silent, New, Asks, vars, linkVars, clientVars, threadVars, nodeVars
  <2> QED  BY <1>8, <1>a, <2>1 DEF vars, linkVars
<1> QED
  BY <1>1, <1>2, <1>3, <1>4, <1>5, <1>6, <1>7, <1>8 DEF Next, ClientThread, HeartThread, HeartAlone, Authenticators

LEMMA BuiltStep ==
    ASSUME Gentle, IInv, [Next]_vars, ~Crash, TypeOK', AuthInv'
    PROVE  BuiltInv'
<1>1. /\ TypeOK /\ OutInv /\ BuiltInv
      /\ Types(<<>>) = {}
      /\ out \in [Threads -> ClientMessages] /\ toGw \in Seq(ClientMessages)
  BY TypesEmpty DEF IInv, TypeOK, ClientTypeOK, LinkTypeOK
<1> USE <1>1, Places3 DEF At
<1>2. ASSUME NEW t \in Threads, Transmit(t), out[t].type # "none" PROVE BuiltInv'
  BY <1>2, TypesAppend DEF Transmit, BuiltInv
<1>3. ASSUME toGw' \in {toGw, <<>>} \/ (toGw # <<>> /\ toGw' = Tail(toGw)) PROVE BuiltInv'
  BY <1>3, TypesTail DEF BuiltInv
<1>4. ASSUME NEW t \in Authenticators, Authenticate(t) PROVE BuiltInv'
  <2>1. CASE SendRequest(t)
    <3>1. t \in Threads /\ goal[t] \in Goals /\ out[t].type = Request[goal[t]]
      BY <2>1 DEF SendRequest, OutInv, TypeOK, ClientTypeOK, Threads
    <3> QED  BY <1>2, <2>1, <3>1 DEF SendRequest, Goals, Request
  <2>2. CASE ~SendRequest(t)
    BY <1>3, <1>4, <2>2 DEF Authenticate, InitFree, InitKeys, InitNull, InitWipe, InitState, DhGenerate, CheckGoal,
       BuildRequest, Advance, Crash, linkVars
  <2> QED  BY <2>1, <2>2
<1>5. CASE HeartAlone
  <2>1. CASE HeartSend
    BY <1>2, <2>1 DEF HeartSend, OutInv, Threads, Authenticators
  <2>2. CASE ~HeartSend
    BY <1>3, <1>5, <2>2 DEF HeartAlone, HeartCheck, HeartBuild, RestartClose, RestartZero,
       RestartConnect, RestartState, Open, linkVars
  <2> QED  BY <2>1, <2>2
<1>6. CASE RecvThread
  <2>1. CASE StatusSend
    BY <1>2, <2>1 DEF StatusSend, OutInv, Threads
  <2>2. CASE ~StatusSend
    BY <1>3, <1>6, <2>2 DEF RecvThread, Receive, Distribute, RecvKeyngack, DhAlloc, DhCompute,
       DhExchanged, AckCheck, AckRegister, StatusBuild, Crash, linkVars
  <2> QED  BY <2>1, <2>2
<1>7. CASE Start \/ HandleRequest \/ AskStatus \/ Drop \/ Notice \/ UNCHANGED vars
  BY <1>3, <1>7 DEF Start, HandleRequest, AskStatus, Drop, Notice, Open, GwHandle, GwRequest, vars, linkVars
<1> QED
  BY <1>4, <1>5, <1>6, <1>7 DEF Next, ClientThread, HeartThread, HeartAlone, Authenticators

-----------------------------------------------------------------------------
LEMMA IInvInit == Init => IInv
<1> SUFFICES ASSUME Init PROVE IInv
  OBVIOUS
<1> USE DEF Init, LinkInit, ClientInit
<1>1. toGw = <<>> /\ toCli = <<>> /\ Types(toGw) = {} /\ Types(toCli) = {} /\ Sorted(toGw) /\ Sorted(toCli)
  BY TypesEmpty
<1>2. LinkType = "none" /\ Hand = "none" /\ \A t \in Threads : out[t].type = "none"
  BY DEF LinkType, Hand, NoMsg, Message
<1>3. Seen = {"none"} /\ Outs \subseteq {"none"}
  BY <1>2 DEF Seen, Outs, Threads
<1>4. \A a, b : a = "none" => MayFollow(a, b) /\ MayFollow(b, a)
  BY NeutralFollows DEF Neutral
<1>5. pc["client"] = "start" /\ pc["heart"] = "none" /\ pc["recv"] = "none"
  OBVIOUS
<1>6. TypeOK
  BY TypeInit
<1>7. AuthInv
  BY DEF AuthInv, SingleAuthenticator, BrokenImpliesDone, BeatingImpliesConnected, RestartPlaces, AuthPlaces, InitPlaces
<1>8. NetInv /\ MaterialInv
  BY KeyValues, DhValues DEF NetInv, MaterialInv
<1>9. OutInv
  BY <1>2, <1>5 DEF OutInv, Threads, Authenticators
<1>10. AskInv
  BY <1>5 DEF AskInv, Asks, Authenticators
<1>11. OrderInv
  BY <1>1, <1>2, <1>3, <1>4, <1>5 DEF OrderInv, Asks, Authenticators
<1>12. FreshInv
  BY <1>5 DEF FreshInv, New, Greets, RestartPlaces, InitPlaces, Authenticators
<1>13. KeyInv
  BY <1>5, DhValues DEF KeyInv
<1>14. ClearInv
  BY <1>2, <1>5 DEF ClearInv, Asks, Authenticators, Threads, Proper, AllProper
<1>15. NegoInv /\ BuiltInv
  BY <1>1 DEF NegoInv, BuiltInv
<1> QED  BY <1>6, <1>7, <1>8, <1>9, <1>10, <1>11, <1>12, <1>13, <1>14, <1>15 DEF IInv

LEMMA IInvStep ==
    ASSUME Gentle, IInv, [Next]_vars, TypeOK'
    PROVE  IInv'
<1>1. AuthInv'
  BY AuthInvStep DEF IInv, Gentle
<1>2. MaterialInv'
  BY MaterialStep DEF IInv, Gentle
<1>3. CASE Crash
  BY <1>1, <1>2, <1>3, CrashStep
<1>4. CASE ~Crash
  BY <1>1, <1>2, <1>4, NetStep, OutStep, AskStep, OrderStep, FreshStep, KeyStep, ClearStep, NegoStep, BuiltStep
  DEF IInv
<1> QED
  BY <1>3, <1>4

LEMMA InOrder ==
    ASSUME Gentle
    PROVE  Spec => []IInv
<1>1. IInv /\ [Next]_vars /\ TypeOK' => IInv'
  BY IInvStep
<1> QED
  BY <1>1, IInvInit, TypeCorrect, PTL DEF Spec

-----------------------------------------------------------------------------
(***************************************************************************)
(* Unless a connection breaks before the client thread is done (then two   *)
(* threads may authenticate at once and free the same keys), key material  *)
(* kills the process in two ways only: send_dh_info without the key pair   *)
(* dhkey_init failed to make, and a recv_dh overtaken by an authentication *)
(* begun while it ran.  Where handlers end in time the second does not     *)
(* happen: a "dh" is at hand only after the thread that starts over has    *)
(* sent one itself, and what was at hand when a connection broke is done   *)
(* before it is replaced.                                                  *)
(***************************************************************************)
THEOREM OnlyKnownCrashes ==
    ASSUME DropWhen # "any"
    PROVE  Spec => []CrashesKnown
<1>1. CASE Timely
  <2>1. Gentle
    BY <1>1 DEF Gentle
  <2>2. IInv => CrashesKnown
    BY DEF IInv, KeyInv, CrashesKnown
  <2> QED
    BY <2>1, <2>2, InOrder, PTL
<1>2. CASE ~Timely
  <2>1. AuthInv /\ MaterialInv => CrashesKnown
    BY <1>2 DEF MaterialInv, CrashSite, CrashesKnown
  <2> QED
    BY <2>1, OneByOne, PTL
<1> QED
  BY <1>1, <1>2

(***************************************************************************)
(* Nothing a node registers or reports with (dev_reg, keepalive) goes out  *)
(* in the clear, though msg_sent only looks at a pointer that _init and    *)
(* recv_dh set and clear.                                                  *)
(***************************************************************************)
THEOREM NothingInTheClear ==
    ASSUME Gentle
    PROVE  Spec => []RegistrationEncrypted
<1>1. IInv => RegistrationEncrypted
  BY DEF IInv, ClearInv, AllProper, Proper, RegistrationEncrypted
<1> QED
  BY <1>1, InOrder, PTL

(***************************************************************************)
(* On a connection the gateway has not negotiated, keyngreq is ahead of    *)
(* everything else but a late status: nothing a thread built for an        *)
(* earlier connection gets ahead of the negotiation.                       *)
(***************************************************************************)
THEOREM KeyngreqFirst ==
    ASSUME Gentle
    PROVE  Spec => []NegotiationFirst
<1>1. IInv => NegotiationFirst
  <2> SUFFICES ASSUME IInv, NEW i \in 1..Len(toGw), net = "up", session.phase = "new",
                      toGw[i].type \notin {"keyngreq", "status"}
               PROVE  \E j \in 1..(i - 1) : toGw[j].type = "keyngreq"
    BY DEF NegotiationFirst
  <2>1. toGw[i].type \in Types(toGw) /\ toGw[i].type \in {"dh", "dev_reg", "keepalive"}
    <3>1. toGw \in Seq(ClientMessages)
      BY DEF IInv, TypeOK, LinkTypeOK
    <3>2. toGw[i] \in ClientMessages
      BY <3>1
    <3> QED  BY <3>2 DEF IInv, BuiltInv, Types, ClientMessages
  <2>2. PICK j \in 1..Len(toGw) : toGw[j].type = "keyngreq"
    BY <2>1 DEF IInv, NegoInv, Silent, Types
  <2>3. ~(i < j) /\ i # j
    BY <2>1, <2>2 DEF IInv, OrderInv, Sorted, MayFollow, First, Third
  <2>4. j \in 1..(i - 1)
    <3>1. Len(toGw) \in Nat
      BY DEF IInv, TypeOK, LinkTypeOK
    <3> QED  BY <2>3, <3>1
  <2> QED  BY <2>2, <2>4
<1> QED
  BY <1>1, InOrder, PTL

(***************************************************************************)
(* Nothing but a restart takes the link state back: recv_keyngack and      *)
(* recv_dh, which overwrite it unseen, never undo progress, however many   *)
(* times a request was repeated and answered.                              *)
(***************************************************************************)
THEOREM NoWayBack ==
    ASSUME Gentle
    PROVE  Spec => LinkStateMonotone
<1> DEFINE Back == Rank[link_state'] < Rank[link_state]
<1>1. IInv /\ [Next]_vars => [Back => Restarting]_vars
  <2> SUFFICES ASSUME IInv, Next, Back PROVE Restarting
    BY DEF vars
  <2> USE Places3 DEF IInv, At, Rank, LinkStates
  <2>1. CASE Start
    BY <2>1 DEF Start, Restarting, Authenticators
  <2>2. ASSUME NEW t \in Authenticators, Authenticate(t) PROVE Restarting
    <3>1. CASE InitState(t)
      BY <2>2, <3>1 DEF InitState, Goto, Restarting, Authenticators
    <3>2. CASE Advance(t)
      BY <3>2 DEF Advance, AskInv, Asks
    <3>3. CASE ~(InitState(t) \/ Advance(t))
      BY <2>2, <3>3 DEF Authenticate, InitFree, InitKeys, InitNull, InitWipe, DhGenerate, CheckGoal, BuildRequest, SendRequest, Crash, nodeVars
    <3> QED  BY <3>1, <3>2, <3>3
  <2>3. CASE HeartAlone
    <3>1. CASE RestartState
      BY <3>1 DEF RestartState, Goto, Restarting, Authenticators
    <3>2. CASE ~RestartState
      BY <2>3, <3>2 DEF HeartAlone, HeartCheck, HeartBuild, HeartSend, RestartClose, RestartZero, RestartConnect, nodeVars
    <3> QED  BY <3>1, <3>2
  <2>4. CASE RecvThread
    <3>1. MayFollow(LinkType, Hand)
      BY DEF OrderInv
    <3>2. CASE pc["recv"] = "keyngack" /\ link_state' = "key_req_e"
      BY <3>1, <3>2 DEF Hand, LinkType, MayFollow, First, Third
    <3>3. CASE pc["recv"] = "exchanged" /\ link_state' = "key_exc_e"
      BY <3>1, <3>3 DEF Hand, LinkType, MayFollow, First, Third
    <3>4. CASE pc["recv"] = "register" /\ link_state' = "dev_reg_e"
      BY <3>4 DEF FreshInv
    <3>5. CASE link_state' = link_state
      BY <3>5
    <3> QED  BY <2>4, <3>2, <3>3, <3>4, <3>5, RecvLink
  <2>5. CASE HandleRequest \/ AskStatus \/ Drop \/ Notice
    BY <2>5 DEF HandleRequest, AskStatus, Drop, Notice, clientVars, nodeVars
  <2> QED
    BY <2>1, <2>2, <2>3, <2>4, <2>5 DEF Next, ClientThread, HeartThread, HeartAlone, Authenticators
<1> QED
  BY <1>1, InOrder, PTL DEF Spec, LinkStateMonotone
=============================================================================
