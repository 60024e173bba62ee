------------------------------ MODULE KeyProofs ------------------------------
(***************************************************************************)
(* A client that is registered holds the key its gateway holds.  The       *)
(* requests of one exchange may be repeated, so several dh messages may be *)
(* under way; what keeps the two ends together is that the gateway reads a *)
(* second one only under the key that came out of the first.  A node whose *)
(* DH_compute_key failed does not get registered at all.                   *)
(*                                                                         *)
(* On top of the order of OrderProofs: two key pairs the gateway generates *)
(* in a row are different ones.                                            *)
(***************************************************************************)
EXTENDS OrderProofs

(* The dh messages of a stream, and those built but not sent. *)
Dhs(s) == {s[i] : i \in {j \in 1..Len(s) : s[j].type = "dh"}}

OutDhs == {out[t] : t \in {u \in Authenticators : out[u].type = "dh"}}

OneDh(s) == \A i, j \in 1..Len(s) : s[i].type = "dh" /\ s[j].type = "dh" => i = j

(* Behind a dh message that can be read under key are only such. *)
Caught(s, key) ==
    \A i, j \in 1..Len(s) :
        i < j /\ s[i].type = "dh" /\ s[i].enc = key /\ s[j].type = "dh" => s[j].enc = key

(* The gateway has a new key and the client has not computed it yet. *)
InHand ==
    \/ pc["recv"] \in {"dh", "compute"}
    \/ pc["recv"] = "got" /\ rmsg.type = "dh"

Pending == InHand \/ Dhs(toCli) # {}

(* Between client_init and _init a node still has the old connection's key. *)
Live == net = "up" /\ pc["heart"] \notin {"state", "free", "keys", "null"}

(* The gateway computed the key of an exchange and the node could not: it  *)
(* has a zeroed buffer, and neither end can read the other from then on.   *)
Unregistered == link_state # "dev_reg_e" /\ pc["recv"] \notin {"ack", "register"}

Lost ==
    /\ p_shared_key = ZeroKey /\ session.key # NoKey
    /\ Unregistered
    /\ \A m \in Dhs(toGw) \union OutDhs : m.enc # session.key

(* What the gateway sends goes in the clear or under a key it computed. *)
Sound(key) == key = NoKey \/ key.dh # 0

EncInv ==
    /\ \A i \in 1..Len(toCli) : Sound(toCli[i].enc)
    /\ pc["recv"] = "got" => Sound(rmsg.enc)

ChainInv ==
    /\ pc["client"] = "start" => p_shared_key = NoKey
    /\ session.key # NoKey => session.key.gw = lastGw /\ session.key.dh # 0
    /\ \A m \in Dhs(toGw) \union OutDhs : m.pub = p_dh
    /\ Live =>
        /\ InHand =>
            /\ Dhs(toCli) = {}
            /\ session.key = [dh |-> p_dh, gw |-> rmsg.pub]
            /\ pc["recv"] = "got" => rmsg.enc = p_shared_key
            /\ pc["recv"] = "compute" => p_shared_key = ZeroKey
        /\ OneDh(toCli)
        /\ \A m \in Dhs(toCli) :
            m.enc = p_shared_key /\ session.key = [dh |-> p_dh, gw |-> m.pub]
        /\ Pending =>
            /\ p_shared_key # session.key
            /\ \A m \in Dhs(toGw) \union OutDhs : m.enc # session.key
        /\ ~Pending =>
            \/ /\ p_shared_key = session.key
               /\ Caught(toGw, session.key)
               /\ (\E m \in Dhs(toGw) : m.enc = session.key)
                     => \A m \in OutDhs : m.enc = session.key
            \/ Lost

-----------------------------------------------------------------------------
(* Streams: what a message added or taken changes. *)

LEMMA DhsEmpty ==
    /\ Dhs(<<>>) = {} /\ OneDh(<<>>)
    /\ \A key : Caught(<<>>, key)
BY DEF Dhs, OneDh, Caught

LEMMA DhsAppend ==
    ASSUME NEW S, NEW s \in Seq(S), NEW m \in S
    PROVE  /\ Dhs(Append(s, m)) = Dhs(s) \union (IF m.type = "dh" THEN {m} ELSE {})
           /\ m.type # "dh" => Dhs(Append(s, m)) = Dhs(s)
           /\ OneDh(s) /\ (m.type = "dh" => Dhs(s) = {}) => OneDh(Append(s, m))
           /\ \A key : /\ Caught(s, key)
                       /\ m.type = "dh" /\ (\E d \in Dhs(s) : d.enc = key) => m.enc = key
                       => Caught(Append(s, m), key)
<1>1. /\ Len(Append(s, m)) = Len(s) + 1 /\ Len(s) \in Nat
      /\ Append(s, m)[Len(s) + 1] = m
      /\ \A i \in 1..Len(s) : Append(s, m)[i] = s[i]
      /\ 1..(Len(s) + 1) = 1..Len(s) \union {Len(s) + 1}
  <2>1. Len(s) \in Nat
    OBVIOUS
  <2> QED  BY <2>1
<1>2. Dhs(Append(s, m)) = Dhs(s) \union (IF m.type = "dh" THEN {m} ELSE {})
  <2>1. ASSUME NEW d \in Dhs(Append(s, m))
        PROVE  d \in Dhs(s) \/ (m.type = "dh" /\ d = m)
    <3>1. PICK i \in 1..(Len(s) + 1) : d = Append(s, m)[i] /\ d.type = "dh"
      BY <1>1 DEF Dhs
    <3>2. CASE i \in 1..Len(s)
      BY <1>1, <3>1, <3>2 DEF Dhs
    <3>3. CASE i = Len(s) + 1
      BY <1>1, <3>1, <3>3
    <3> QED  BY <1>1, <3>2, <3>3
  <2>2. ASSUME NEW d \in Dhs(s) PROVE d \in Dhs(Append(s, m))
    <3>1. PICK i \in 1..Len(s) : d = s[i] /\ d.type = "dh"
      BY DEF Dhs
    <3> QED  BY <1>1, <3>1 DEF Dhs
  <2>3. m.type = "dh" => m \in Dhs(Append(s, m))
    BY <1>1 DEF Dhs
  <2> QED  BY <2>1, <2>2, <2>3
<1>a. m.type # "dh" => Dhs(Append(s, m)) = Dhs(s)
  BY <1>2
<1>3. ASSUME OneDh(s), m.type = "dh" => Dhs(s) = {} PROVE OneDh(Append(s, m))
  <2>1. m.type = "dh" => \A i \in 1..Len(s) : s[i].type # "dh"
    BY <1>3 DEF Dhs
  <2>2. ASSUME NEW i \in 1..(Len(s) + 1), NEW j \in 1..(Len(s) + 1),
               Append(s, m)[i].type = "dh", Append(s, m)[j].type = "dh"
        PROVE  i = j
    <3>1. CASE i \in 1..Len(s) /\ j \in 1..Len(s)
      BY <1>1, <1>3, <2>2, <3>1 DEF OneDh
    <3>2. CASE i = Len(s) + 1 \/ j = Len(s) + 1
      BY <1>1, <2>1, <2>2, <3>2
    <3> QED  BY <1>1, <3>1, <3>2
  <2> QED  BY <1>1, <2>2 DEF OneDh
<1>4. ASSUME NEW key, Caught(s, key),
             m.type = "dh" /\ (\E d \in Dhs(s) : d.enc = key) => m.enc = key
      PROVE  Caught(Append(s, m), key)
  <2> SUFFICES ASSUME NEW i \in 1..(Len(s) + 1), NEW j \in 1..(Len(s) + 1), i < j,
                      Append(s, m)[i].type = "dh", Append(s, m)[i].enc = key,
                      Append(s, m)[j].type = "dh"
               PROVE  Append(s, m)[j].enc = key
    BY <1>1 DEF Caught
  <2>1. i \in 1..Len(s) /\ s[i] \in Dhs(s) /\ s[i].enc = key
    BY <1>1 DEF Dhs
  <2>2. CASE j \in 1..Len(s)
    BY <1>1, <1>4, <2>1, <2>2 DEF Caught
  <2>3. CASE j = Len(s) + 1
    BY <1>1, <1>4, <2>1, <2>3
  <2> QED  BY <1>1, <2>2, <2>3
<1> QED  BY <1>2, <1>a, <1>3, <1>4

LEMMA DhsTail ==
    ASSUME NEW S, NEW s \in Seq(S), s # <<>>
    PROVE  /\ Dhs(s) = Dhs(Tail(s)) \union (IF Head(s).type = "dh" THEN {Head(s)} ELSE {})
           /\ OneDh(s) => OneDh(Tail(s)) /\ (Head(s).type = "dh" => Dhs(Tail(s)) = {})
           /\ \A key : Caught(s, key) =>
                 /\ Caught(Tail(s), key)
                 /\ Head(s).type = "dh" /\ Head(s).enc = key => \A d \in Dhs(Tail(s)) : d.enc = key
<1>1. /\ Len(s) \in Nat \ {0} /\ Len(Tail(s)) = Len(s) - 1 /\ Head(s) = s[1]
      /\ \A i \in 1..(Len(s) - 1) : Tail(s)[i] = s[i + 1] /\ i + 1 \in 1..Len(s)
  OBVIOUS
<1>2. Dhs(s) = Dhs(Tail(s)) \union (IF Head(s).type = "dh" THEN {Head(s)} ELSE {})
  <2>1. ASSUME NEW d \in Dhs(s) PROVE d \in Dhs(Tail(s)) \/ (Head(s).type = "dh" /\ d = Head(s))
    <3>1. PICK i \in 1..Len(s) : d = s[i] /\ d.type = "dh"
      BY DEF Dhs
    <3>2. CASE i = 1
      BY <1>1, <3>1, <3>2
    <3>3. CASE i # 1
      <4>1. i - 1 \in 1..Len(Tail(s)) /\ Tail(s)[i - 1] = s[i]
        BY <1>1, <3>3
      <4> QED  BY <3>1, <4>1 DEF Dhs
    <3> QED  BY <3>2, <3>3
  <2>2. ASSUME NEW d \in Dhs(Tail(s)) PROVE d \in Dhs(s)
    <3>1. PICK i \in 1..Len(Tail(s)) : d = Tail(s)[i] /\ d.type = "dh"
      BY DEF Dhs
    <3> QED  BY <1>1, <3>1 DEF Dhs
  <2>3. Head(s).type = "dh" => Head(s) \in Dhs(s)
    BY <1>1 DEF Dhs
  <2> QED  BY <2>1, <2>2, <2>3
<1>3. ASSUME OneDh(s) PROVE OneDh(Tail(s)) /\ (Head(s).type = "dh" => Dhs(Tail(s)) = {})
  <2>1. OneDh(Tail(s))
    BY <1>1, <1>3 DEF OneDh
  <2>2. ASSUME Head(s).type = "dh", NEW i \in 1..Len(Tail(s)) PROVE Tail(s)[i].type # "dh"
    BY <1>1, <1>3, <2>2 DEF OneDh
  <2> QED  BY <2>1, <2>2 DEF Dhs
<1>4. ASSUME NEW key, Caught(s, key)
      PROVE  /\ Caught(Tail(s), key)
             /\ Head(s).type = "dh" /\ Head(s).enc = key => \A d \in Dhs(Tail(s)) : d.enc = key
  <2>1. Caught(Tail(s), key)
    BY <1>1, <1>4 DEF Caught
  <2>2. ASSUME Head(s).type = "dh", Head(s).enc = key, NEW i \in 1..Len(Tail(s)), Tail(s)[i].type = "dh"
        PROVE  Tail(s)[i].enc = key
    <3>1. 1 \in 1..Len(s) /\ i + 1 \in 1..Len(s) /\ 1 < i + 1
      BY <1>1
    <3> QED  BY <1>1, <1>4, <2>2, <3>1 DEF Caught
  <2> QED  BY <2>1, <2>2 DEF Dhs
<1> QED  BY <1>2, <1>3, <1>4

-----------------------------------------------------------------------------
(* A step that neither changes a key nor touches a dh message, but may lose *)
(* some of what is on its way to the gateway.                               *)
LEMMA ChainKept ==
    ASSUME ChainInv,
           session'.key = session.key, lastGw' = lastGw, p_dh' = p_dh,
           p_shared_key' = p_shared_key,
           pc'["client"] = "start" => pc["client"] = "start",
           InHand' <=> InHand,
           InHand => /\ rmsg' = rmsg
                     /\ pc'["recv"] \in {"got", "compute"} => pc'["recv"] = pc["recv"],
           Unregistered => Unregistered',
           Live' => /\ Live /\ Dhs(toCli') = Dhs(toCli) /\ OneDh(toCli')
                    /\ Caught(toGw, session.key) => Caught(toGw', session.key),
           Dhs(toGw') \subseteq Dhs(toGw), OutDhs' \subseteq OutDhs
    PROVE  ChainInv'
<1>1. Live' => (Pending' <=> Pending)
  BY DEF Pending
<1>2. Lost => Lost'
  BY DEF Lost
<1> QED
  BY <1>1, <1>2 DEF ChainInv

(* A step of a thread that builds or sends no dh message. *)
LEMMA OutDhsKept ==
    ASSUME \A t \in Authenticators : out'[t] = out[t] \/ out'[t].type # "dh"
    PROVE  OutDhs' \subseteq OutDhs
BY DEF OutDhs

(* A dh message is handed to the socket. *)
LEMMA ChainSent ==
    ASSUME TypeOK, ChainInv, NEW t \in Authenticators, Transmit(t),
           UNCHANGED <<p_dh, p_shared_key, rmsg, link_state>>,
           pc'["client"] # "start",
           pc'["recv"] = pc["recv"],
           Live' => Live,
           out[t].type = "dh",
           \A u \in Authenticators : u # t => out[u].type # "dh"
    PROVE  ChainInv'
<1>1. /\ out \in [Threads -> ClientMessages] /\ toGw \in Seq(ClientMessages) /\ t \in Threads
      /\ UNCHANGED <<net, toCli, session, lastGw>>
      /\ toGw' \in {toGw, Append(toGw, out[t])}
  BY DEF Transmit, TypeOK, ClientTypeOK, LinkTypeOK, Threads
<1>2. OutDhs' = {} /\ out[t] \in OutDhs
  BY <1>1 DEF OutDhs, Transmit, NoMsg, Message, Authenticators, Threads
<1>3. (Pending' <=> Pending) /\ (InHand' <=> InHand)
  BY <1>1 DEF Pending, InHand
<1>4. Dhs(toGw') \subseteq Dhs(toGw) \union OutDhs
  <2>1. Dhs(Append(toGw, out[t])) \subseteq Dhs(toGw) \union {out[t]}
    BY <1>1, DhsAppend
  <2> QED  BY <1>1, <1>2, <2>1
<1>5. Live /\ ~Pending /\ ~Lost => Caught(toGw', session.key)
  <2>1. ASSUME Live, ~Pending, ~Lost PROVE Caught(Append(toGw, out[t]), session.key)
    <3>1. Caught(toGw, session.key)
      BY <2>1 DEF ChainInv
    <3>2. (\E d \in Dhs(toGw) : d.enc = session.key) => out[t].enc = session.key
      BY <1>2, <2>1 DEF ChainInv
    <3> QED  BY <1>1, <3>1, <3>2, DhsAppend
  <2> QED  BY <1>1, <2>1 DEF ChainInv
<1>6. Lost => Lost'
  BY <1>1, <1>2, <1>4 DEF Lost, Unregistered
<1> QED  BY <1>1, <1>2, <1>3, <1>4, <1>5, <1>6 DEF ChainInv

(* A dh message is built: under the key in force. *)
LEMMA ChainBuilt ==
    ASSUME TypeOK, ChainInv, NEW t \in Authenticators,
           Prepare(t, "dh", p_dh), Live,
           UNCHANGED <<linkVars, nodeVars, rmsg>>,
           pc'["client"] # "start",
           pc'["recv"] = pc["recv"],
           \A u \in Authenticators : u # t => out[u].type # "dh"
    PROVE  ChainInv'
<1> DEFINE m == Message("dh", p_shared_key, p_dh)
<1>1. out \in [Threads -> ClientMessages] /\ t \in Threads
  BY DEF TypeOK, ClientTypeOK, Threads
<1>2. OutDhs' = {m}
  BY <1>1 DEF OutDhs, Prepare, Message, Authenticators, Threads
<1>3. (Pending' <=> Pending) /\ (InHand' <=> InHand)
  BY DEF Pending, InHand, linkVars
<1>4. m.pub = p_dh /\ m.enc = p_shared_key
  BY DEF Message
<1> HIDE DEF m
<1>5. Lost => Lost'
  <2>1. Lost => session.key.dh # 0
    BY DEF Lost, ChainInv
  <2> QED  BY <1>2, <1>4, <2>1 DEF Lost, Unregistered, linkVars, nodeVars, ZeroKey
<1> QED  BY <1>2, <1>3, <1>4, <1>5 DEF ChainInv, linkVars, nodeVars

(* Two key pairs in a row are different ones. *)
LEMMA NextIdFresh ==
    ASSUME NEW n \in Nat \ {0, 1}, NEW i \in 0..n
    PROVE  NextId(i, n) # i
<1>1. CASE i = n
  BY <1>1 DEF NextId
<1>2. CASE i # n
  <2>1. i % n = i
    BY <1>2
  <2> QED  BY <2>1 DEF NextId
<1> QED  BY <1>1, <1>2

(* The gateway reads a dh message: only one under the key in force, and    *)
(* whatever dh is still to come it can no longer read.                     *)
LEMMA ChainAnswered ==
    ASSUME GwIds # 1, TypeOK, ChainInv, Live,
           toGw # <<>>, toGw' = Tail(toGw), Readable(Head(toGw)), GwExchange(Head(toGw)),
           UNCHANGED <<net, clientVars>>
    PROVE  ChainInv'
<1> DEFINE m == Head(toGw)
           r == Message("dh", session.key, lastGw')
<1>1. /\ toGw \in Seq(ClientMessages) /\ toCli \in Seq(GatewayMessages) /\ m \in ClientMessages
      /\ m.type = "dh" /\ m.enc = session.key /\ m.pub # 0
      /\ lastGw \in 0..GwIds /\ session \in Sessions
  <2>1. toGw \in Seq(ClientMessages) /\ m \in ClientMessages
    BY DEF TypeOK, LinkTypeOK
  <2> QED  BY <2>1 DEF TypeOK, LinkTypeOK, Readable, GwExchange, ClientMessages
<1>2. Dhs(toGw) = Dhs(toGw') \union {m}
  BY <1>1, DhsTail
<1>3. ~Pending
  BY <1>1, <1>2 DEF ChainInv
<1>b. ~Lost
  BY <1>1, <1>2 DEF Lost
<1>4. p_shared_key = session.key /\ Dhs(toCli) = {} /\ ~InHand /\ m.pub = p_dh
  BY <1>2, <1>3, <1>b DEF ChainInv, Pending
<1>5. \A d \in Dhs(toGw') \union OutDhs : d.enc = session.key /\ d.pub = p_dh
  <2>1. Caught(toGw, session.key) /\ \A d \in OutDhs : d.enc = session.key
    BY <1>1, <1>2, <1>3, <1>b DEF ChainInv
  <2>2. \A d \in Dhs(Tail(toGw)) : d.enc = session.key
    BY <1>1, <2>1, DhsTail
  <2> QED  BY <1>2, <2>1, <2>2 DEF ChainInv
<1>6. lastGw' = NextId(lastGw, GwIds) /\ lastGw' # lastGw /\ lastGw' \in 1..GwIds
  <2>1. NextId(lastGw, GwIds) \in 1..GwIds /\ NextId(lastGw, GwIds) # lastGw
    BY <1>1, LinkAssumption, NextIdType, NextIdFresh
  <2> QED  BY <2>1 DEF GwExchange
<1>7. session'.key = [dh |-> p_dh, gw |-> lastGw'] /\ session'.key # session.key
  BY <1>1, <1>4, <1>6 DEF GwExchange, Sessions, ChainInv, NoKey
<1>8. r \in GatewayMessages /\ r.type = "dh" /\ r.enc = session.key /\ r.pub = lastGw'
  <2>1. session.key \in Keys /\ lastGw' \in 0..GwIds /\ lastGw' # 0
    BY <1>1, <1>6 DEF Sessions
  <2>2. r \in GatewayMessages
    BY <2>1, RepliedType
  <2> QED  BY <2>2 DEF Message
<1>9. Dhs(toCli') = {r} /\ OneDh(toCli')
  <2>1. toCli' = Append(toCli, r)
    BY DEF GwExchange, Reply
  <2>2. OneDh(toCli)
    BY <1>4 DEF OneDh, Dhs
  <2> HIDE DEF r
  <2> QED  BY <1>1, <1>4, <1>8, <2>1, <2>2, DhsAppend
<1>10. ~InHand' /\ OutDhs' = OutDhs /\ UNCHANGED <<pc, p_shared_key, p_dh>>
  BY <1>4 DEF InHand, OutDhs, clientVars, threadVars, nodeVars
<1> HIDE DEF r, m
<1> QED
  BY <1>1, <1>4, <1>5, <1>6, <1>7, <1>8, <1>9, <1>10 DEF ChainInv, Pending, NoKey

LEMMA DhsTypes ==
    ASSUME NEW s
    PROVE  /\ Dhs(s) = {} <=> "dh" \notin Types(s)
           /\ Dhs(s) = {} => OneDh(s) /\ \A key : Caught(s, key)
BY DEF Dhs, Types, OneDh, Caught

(* A thread that starts over finds no dh message anywhere. *)
LEMMA CleanStart ==
    ASSUME IInv, NEW t \in Authenticators, pc[t] \in InitPlaces
    PROVE  /\ Dhs(toGw) = {} /\ Dhs(toCli) = {} /\ OutDhs = {} /\ ~InHand /\ ~Pending
           /\ toCli = <<>>
           /\ net = "up" => session.key = NoKey
<1>1. TypeOK /\ FreshInv /\ AuthInv /\ OutInv /\ New(t)
  BY DEF IInv, New
<1> USE <1>1, Places3 DEF Authenticators
<1>2. toCli = <<>> /\ Types(toGw) \subseteq {"status"} /\ (net = "up" => session = NewSession)
  BY DEF FreshInv
<1>3. Dhs(toGw) = {} /\ Dhs(toCli) = {}
  BY <1>2, DhsTypes, DhsEmpty
<1>4. ~InHand
  BY DEF FreshInv, InHand, QuietPlaces, Hand, MayFollow, Third
<1>5. \A u \in Authenticators : out[u].type # "dh"
  <2>1. ASSUME NEW u \in Authenticators, Asks(u) PROVE FALSE
    BY <2>1 DEF Asks, InitPlaces, AuthInv, SingleAuthenticator, AuthPlaces
  <2> QED  BY <2>1 DEF OutInv, Asks
<1> QED  BY <1>2, <1>3, <1>4, <1>5 DEF Pending, OutDhs, NewSession

(* What _init and dhkey_init do, they do to a node nobody has asked yet. *)
LEMMA ChainFresh ==
    ASSUME IInv, ChainInv, NEW t \in Authenticators, ~Crash,
           InitFree(t) \/ InitKeys(t) \/ InitNull(t) \/ InitWipe(t) \/ InitState(t) \/ DhGenerate(t)
    PROVE  ChainInv'
<1> USE AuthFrame, Places3 DEF Threads, Authenticators, At
<1>1. /\ TypeOK /\ AuthInv /\ FreshInv /\ NetInv /\ pc[t] \in InitPlaces /\ Authenticate(t)
  BY DEF IInv, InitFree, InitKeys, InitNull, InitWipe, InitState, DhGenerate, InitPlaces, Authenticate
<1>2. /\ Dhs(toGw) = {} /\ Dhs(toCli) = {} /\ OutDhs = {} /\ ~InHand /\ toCli = <<>>
      /\ net = "up" => session.key = NoKey
  BY <1>1, CleanStart
<1>3. /\ UNCHANGED <<net, session, lastGw, toGw, toCli, out>>
      /\ pc'["recv"] = pc["recv"] /\ rmsg' \in {rmsg, NoMsg}
      /\ pc'[t] \in InitPlaces \union {"check"} /\ \A u \in Threads \ {t} : pc'[u] = pc[u]
  BY <1>1 DEF InitFree, InitKeys, InitNull, InitWipe, InitState, DhGenerate, linkVars, Goto, InitPlaces
<1>4. ~InHand' /\ ~Pending' /\ OutDhs' = {} /\ pc'["client"] # "start"
  BY <1>1, <1>2, <1>3 DEF InHand, Pending, OutDhs, NoMsg, Message, AuthInv, SingleAuthenticator, AuthPlaces, InitPlaces
<1>5. Live' => p_shared_key' = NoKey
  <2>1. CASE InitNull(t)
    BY <2>1 DEF InitNull
  <2>2. CASE InitWipe(t) \/ InitState(t) \/ DhGenerate(t)
    BY <1>1, <2>2 DEF InitWipe, InitState, DhGenerate, FreshInv, nodeVars
  <2>3. CASE InitFree(t) \/ InitKeys(t)
    <3>1. t = "heart" => ~Live'
      BY <1>1, <2>3 DEF InitFree, InitKeys, Goto, Live
    <3>2. t = "client" /\ Live' => Live
      BY <1>1, <1>3 DEF Live, AuthInv, SingleAuthenticator, AuthPlaces, InitPlaces
    <3>3. Live => p_shared_key = NoKey
      BY <1>2 DEF ChainInv, Pending, Lost, Live
    <3> QED  BY <2>3, <3>1, <3>2, <3>3 DEF InitFree, InitKeys
  <2> QED  BY <2>1, <2>2, <2>3
<1> QED
  BY <1>2, <1>3, <1>4, <1>5, DhsTypes DEF ChainInv, Live

LEMMA ChainStep ==
    ASSUME Gentle, GwIds # 1, IInv, EncInv, ChainInv, [Next]_vars
    PROVE  ChainInv'
<1>0. /\ TypeOK /\ AuthInv /\ MaterialInv /\ NetInv /\ OutInv /\ KeyInv /\ FreshInv /\ OrderInv
      /\ toGw \in Seq(ClientMessages) /\ toCli \in Seq(GatewayMessages)
      /\ out \in [Threads -> ClientMessages]
  BY DEF IInv, TypeOK, ClientTypeOK, LinkTypeOK
<1> USE <1>0, Places3, DhsEmpty DEF At
<1>a. Live => OneDh(toCli)
  BY DEF ChainInv
<1>b. CASE Crash
  <2>1. UNCHANGED <<session, lastGw, toGw, toCli, net, pc, rmsg, p_dh, p_shared_key, link_state, OutDhs, InHand, Live>>
    BY <1>b DEF Crash, linkVars, nodeVars, OutDhs, InHand, Live
  <2> QED  BY <1>a, <2>1, ChainKept DEF Unregistered
<1>1. CASE Start
  <2>1. /\ p_shared_key' = NoKey /\ session'.key = NoKey /\ toGw' = <<>> /\ toCli' = <<>>
        /\ pc'["recv"] = "idle" /\ pc'["client"] = "free" /\ out' = out
    BY <1>1 DEF Start, Open, NewSession, ChainInv
  <2>2. OutDhs' = {}
    BY <1>1, <2>1 DEF Start, OutDhs, OutInv, NetInv, Authenticators
  <2> QED  BY <2>1, <2>2 DEF ChainInv, Pending, InHand
<1>2. ASSUME NEW t \in Authenticators, Authenticate(t), ~Crash PROVE ChainInv'
  <2> USE AuthFrame DEF Threads, Authenticators
  <2>1. CASE InitFree(t) \/ InitKeys(t) \/ InitNull(t) \/ InitWipe(t) \/ InitState(t) \/ DhGenerate(t)
    BY <1>2, <2>1, ChainFresh
  <2>3. CASE BuildRequest(t) /\ goal[t] = "key_exc_e"
    <3>1. /\ Prepare(t, "dh", p_dh) /\ UNCHANGED <<linkVars, nodeVars, rmsg>>
          /\ pc'["recv"] = pc["recv"] /\ pc'["client"] # "start"
      BY <1>2, <2>3 DEF BuildRequest, Request, Goto, AuthInv, SingleAuthenticator, AuthPlaces
    <3>2. Live' => Live
      BY <1>2, <2>3 DEF BuildRequest, Live, Goto
    <3>3. \A u \in Authenticators : u # t => out[u].type # "dh"
      BY <1>2, <2>3 DEF BuildRequest, OutInv, AuthInv, SingleAuthenticator, AuthPlaces
    <3>4. CASE net = "up"
      <4>1. Live
        BY <1>2, <2>3, <3>4 DEF BuildRequest, Live, AuthInv, SingleAuthenticator, AuthPlaces, InitPlaces, RestartPlaces
      <4> QED  BY <3>1, <3>3, <4>1, ChainBuilt
    <3>5. CASE net # "up"
      <4>1. OutDhs' = {Message("dh", p_shared_key, p_dh)}
        BY <3>1, <3>3 DEF OutDhs, Prepare, Message
      <4> QED  BY <3>1, <3>5, <4>1 DEF ChainInv, Live, linkVars, nodeVars, Message
    <3> QED  BY <3>4, <3>5
  <2>4. CASE SendRequest(t) /\ out[t].type = "dh"
    <3>1. /\ Transmit(t) /\ UNCHANGED <<p_dh, p_shared_key, rmsg, link_state>>
          /\ pc'["recv"] = pc["recv"] /\ pc'["client"] # "start"
      BY <1>2, <2>4 DEF SendRequest, nodeVars, Goto, Sleep, Retry, AuthInv, SingleAuthenticator, AuthPlaces
    <3>2. Live' => Live
      BY <1>2, <2>4 DEF SendRequest, Live, Goto, Sleep, Retry, AuthInv, SingleAuthenticator, AuthPlaces, RestartPlaces
    <3>3. \A u \in Authenticators : u # t => out[u].type # "dh"
      BY <1>2, <2>4 DEF SendRequest, OutInv, AuthInv, SingleAuthenticator, AuthPlaces
    <3> QED  BY <2>4, <3>1, <3>2, <3>3, ChainSent
  <2>5. CASE \/ CheckGoal(t) \/ Advance(t)
             \/ BuildRequest(t) /\ goal[t] # "key_exc_e"
             \/ SendRequest(t) /\ out[t].type # "dh"
    <3>1. UNCHANGED <<p_dh, p_shared_key, rmsg, net, toCli, session, lastGw>> /\ pc'["recv"] = pc["recv"]
      BY <1>2, <2>5 DEF CheckGoal, Advance, BuildRequest, SendRequest, nodeVars, linkVars
    <3>2. pc'["client"] = "start" => pc["client"] = "start"
      BY <1>2, <2>5 DEF CheckGoal, Advance, BuildRequest, SendRequest, Finish, Goto, Sleep, Retry
    <3>3. Live' => Live
      BY <1>2, <2>5, <3>1 DEF CheckGoal, Advance, BuildRequest, SendRequest, Finish,
         Goto, Sleep, Retry, Live
    <3>4. /\ Dhs(toGw') = Dhs(toGw)
          /\ Caught(toGw, session.key) => Caught(toGw', session.key)
      <4>1. toGw' = toGw \/ (toGw' = Append(toGw, out[t]) /\ out[t].type # "dh")
        BY <2>5 DEF CheckGoal, Advance, BuildRequest, SendRequest, Transmit, nodeVars, linkVars
      <4> out[t] \in ClientMessages
        OBVIOUS
      <4>2. out[t].type # "dh" => Dhs(Append(toGw, out[t])) = Dhs(toGw)
        BY DhsAppend
      <4>3. out[t].type # "dh" /\ Caught(toGw, session.key) => Caught(Append(toGw, out[t]), session.key)
        BY DhsAppend
      <4> QED  BY <4>1, <4>2, <4>3
    <3>5. \A u \in Authenticators : out'[u] = out[u] \/ out'[u].type # "dh"
      <4>1. CASE BuildRequest(t) /\ goal[t] # "key_exc_e"
        BY <1>2, <4>1 DEF BuildRequest, Prepare, Message, Request, TypeOK, ClientTypeOK, Goals
      <4>2. CASE CheckGoal(t) \/ Advance(t) \/ SendRequest(t)
        BY <1>2, <2>5, <4>2 DEF CheckGoal, Advance, SendRequest, Transmit, NoMsg, Message
      <4> QED  BY <2>5, <4>1, <4>2
    <3>6. Unregistered => Unregistered'
      BY <1>2, <2>5, <3>1 DEF CheckGoal, Advance, BuildRequest, SendRequest, Unregistered, nodeVars
    <3> QED
      BY <1>a, <3>1, <3>2, <3>3, <3>4, <3>5, <3>6, OutDhsKept, ChainKept DEF InHand
  <2> QED  BY <1>2, <2>1, <2>3, <2>4, <2>5 DEF Authenticate
<1>3. CASE HeartAlone
  <2> USE DEF Authenticators
  <2>1. CASE RestartConnect
    <3>1. /\ session'.key = NoKey /\ toGw' = <<>> /\ OutDhs' = OutDhs /\ ~Live'
          /\ UNCHANGED <<p_dh, p_shared_key, lastGw>> /\ pc'["client"] = pc["client"]
      BY <2>1 DEF RestartConnect, Open, NewSession, Goto, Live, OutDhs
    <3> QED  BY <3>1 DEF ChainInv
  <2>2. CASE ~RestartConnect
    <3>1. /\ UNCHANGED <<p_dh, p_shared_key, rmsg, session, lastGw>> /\ pc'["recv"] = pc["recv"]
          /\ pc'["client"] = pc["client"]
      BY <1>3, <2>2 DEF HeartAlone, HeartCheck, HeartBuild, HeartSend, RestartClose, RestartZero,
         RestartState, Transmit, Goto, Sleep, nodeVars, linkVars
    <3>2. Live' => Live /\ toCli' = toCli
      BY <1>3, <2>2 DEF HeartAlone, HeartCheck, HeartBuild, HeartSend, RestartClose, RestartZero,
         RestartState, Transmit, Goto, Sleep, nodeVars, linkVars, Live
    <3>3. /\ Dhs(toGw') \subseteq Dhs(toGw)
          /\ Caught(toGw, session.key) => Caught(toGw', session.key)
      <4>1. toGw' \in {toGw, <<>>} \/ (toGw' = Append(toGw, out["heart"]) /\ HeartSend)
        BY <1>3, <2>2 DEF HeartAlone, HeartCheck, HeartBuild, HeartSend, RestartClose, RestartZero,
           RestartState, Transmit, nodeVars, linkVars
      <4>2. HeartSend => out["heart"].type # "dh" /\ out["heart"] \in ClientMessages
        BY DEF HeartSend, OutInv, Threads
      <4>3. HeartSend => Dhs(Append(toGw, out["heart"])) = Dhs(toGw)
        BY <4>2, DhsAppend
      <4>4. HeartSend /\ Caught(toGw, session.key) => Caught(Append(toGw, out["heart"]), session.key)
        BY <4>2, DhsAppend
      <4> QED  BY <4>1, <4>3, <4>4
    <3>4. \A u \in Authenticators : out'[u] = out[u] \/ out'[u].type # "dh"
      BY <1>3, <2>2 DEF HeartAlone, HeartCheck, HeartBuild, HeartSend, RestartClose, RestartZero,
         RestartState, Prepare, Transmit, Message, NoMsg
    <3>5. Unregistered => Unregistered'
      BY <1>3, <2>2, <3>1 DEF HeartAlone, HeartCheck, HeartBuild, HeartSend, RestartClose, RestartZero,
         RestartState, Unregistered, nodeVars
    <3> QED
      BY <1>a, <3>1, <3>2, <3>3, <3>4, <3>5, OutDhsKept, ChainKept DEF InHand
  <2> QED  BY <2>1, <2>2
<1>4. CASE RecvThread /\ ~Crash
  <2> USE RecvFrame DEF Authenticators
  <2>0. /\ pc'["client"] = pc["client"] /\ (Live' <=> Live) /\ OutDhs' = OutDhs
        /\ UNCHANGED <<session, lastGw, p_dh>> /\ pc["client"] # "start"
    BY <1>4 DEF Live, OutDhs, NetInv
  <2>1. CASE Receive
    <3> DEFINE m == Head(toCli)
    <3>1. /\ toCli # <<>> /\ toCli' = Tail(toCli) /\ rmsg' = m /\ ~InHand
          /\ UNCHANGED <<toGw, p_shared_key>> /\ pc'["recv"] = "got" /\ m \in GatewayMessages
      BY <2>1 DEF Receive, Goto, InHand, nodeVars
    <3>2. Dhs(toCli) = Dhs(toCli') \union (IF m.type = "dh" THEN {m} ELSE {})
      BY <3>1, DhsTail
    <3>3. Live => OneDh(toCli') /\ (m.type = "dh" => Dhs(toCli') = {})
      BY <1>a, <3>1, DhsTail
    <3>4. InHand' <=> m.type = "dh"
      BY <3>1 DEF InHand
    <3> HIDE DEF m
    <3>5. Pending' <=> Pending
      BY <3>1, <3>2, <3>4 DEF Pending
    <3>6. Lost => Lost'
      BY <2>0, <2>1, <3>1 DEF Receive, nodeVars, Lost, Unregistered
    <3> QED  BY <2>0, <3>1, <3>2, <3>3, <3>4, <3>5, <3>6 DEF ChainInv
  <2>2. CASE DhAlloc
    <3>1. /\ pc["recv"] = "dh" /\ pc'["recv"] = "compute" /\ p_shared_key' = ZeroKey /\ p_dh # 0
          /\ UNCHANGED <<toGw, toCli, rmsg>>
      BY <1>4, <2>2 DEF DhAlloc, KeyInv, Goto, linkVars
    <3>2. InHand /\ InHand' /\ Pending /\ Pending'
      BY <3>1 DEF InHand, Pending
    <3>3. Live => p_shared_key' # session.key
      BY <3>1, <3>2 DEF ChainInv, ZeroKey
    <3> QED  BY <2>0, <3>1, <3>2, <3>3 DEF ChainInv
  <2>3. CASE DhCompute
    <3>1. /\ pc["recv"] = "compute" /\ pc'["recv"] = "exchanged"
          /\ UNCHANGED <<toGw, toCli, rmsg, link_state>> /\ rdh = p_dh
      BY <1>4, <2>3 DEF DhCompute, KeyInv, Goto, linkVars
    <3>2. InHand /\ ~InHand' /\ Pending
      BY <3>1 DEF InHand, Pending
    <3>3. Live => p_shared_key' \in {[dh |-> p_dh, gw |-> rmsg.pub], ZeroKey}
      <4>1. Live => p_shared_key = ZeroKey
        BY <3>1, <3>2 DEF ChainInv
      <4>2. Hand = "dh" /\ p_dh # Bare
        BY <3>1 DEF Hand, KeyInv, NoDh, Seen
      <4>3. p_dh # Dangling
        BY <3>1 DEF MaterialInv, FreshInv, InitPlaces, QuietPlaces
      <4>4. p_dh \in KeyPairs
        BY <3>1, <4>2, <4>3, DhValues DEF TypeOK, ClientTypeOK
      <4> QED  BY <1>4, <2>3, <3>1, <4>1, <4>2, <4>4, KeyValues DEF DhCompute, Intact, ComputeFails
    <3>4. Live => /\ session.key = [dh |-> p_dh, gw |-> rmsg.pub] /\ session.key # NoKey
                  /\ Dhs(toCli') = {} /\ ~Pending'
                  /\ \A d \in Dhs(toGw') \union OutDhs' : d.enc # session.key
      <4>1. p_dh # 0
        BY <3>1 DEF TypeOK, ClientTypeOK
      <4> QED  BY <2>0, <3>1, <3>2, <4>1 DEF ChainInv, Pending, NoKey
    <3>5. Live => Caught(toGw', session.key)
      BY <3>4 DEF Caught, Dhs
    <3>6. Live /\ p_shared_key' = ZeroKey => Lost'
      <4>1. link_state # "dev_reg_e"
        BY <3>1 DEF OrderInv, LinkType, Hand, MayFollow, Third
      <4> QED  BY <2>0, <3>1, <3>4, <4>1 DEF Lost, Unregistered
    <3> QED  BY <2>0, <3>1, <3>2, <3>3, <3>4, <3>5, <3>6 DEF ChainInv
  <2>4. CASE Distribute
    <3>1. UNCHANGED <<toGw, toCli, p_shared_key, link_state>> /\ pc["recv"] = "got"
      BY <2>4 DEF Distribute, linkVars, nodeVars
    <3>2. Live => (InHand' <=> InHand)
      BY <2>4, <3>1 DEF Distribute, Goto, HandlerDone, InHand, ChainInv
    <3>3. InHand /\ InHand' => rmsg' = rmsg
      BY <2>4 DEF Distribute, HandlerDone, InHand
    <3>4. pc'["recv"] \notin {"got", "compute", "register"}
      BY <2>4 DEF Distribute, Goto, HandlerDone
    <3>5. Lost => Lost'
      <4>1. p_shared_key = ZeroKey => rmsg.enc # p_shared_key
        BY <3>1 DEF EncInv, Sound, ZeroKey, NoKey
      <4>2. p_shared_key = ZeroKey => pc'["recv"] = "idle"
        BY <2>4, <4>1 DEF Distribute, HandlerDone
      <4> QED  BY <2>0, <3>1, <4>2 DEF Lost, Unregistered
    <3> QED  BY <2>0, <3>1, <3>2, <3>3, <3>4, <3>5 DEF ChainInv, Pending
  <2>5. CASE ~(Receive \/ DhAlloc \/ DhCompute \/ Distribute)
    <3>1. /\ ~InHand /\ ~InHand' /\ p_shared_key' = p_shared_key /\ toCli' = toCli
      BY <1>4, <2>5 DEF RecvThread, RecvKeyngack, DhExchanged, AckCheck, AckRegister, StatusBuild,
         StatusSend, Transmit, Goto, HandlerDone, linkVars, nodeVars, InHand
    <3>3. Unregistered => Unregistered'
      BY <1>4, <2>5 DEF RecvThread, RecvKeyngack, DhExchanged, AckCheck, AckRegister, StatusBuild,
         StatusSend, Goto, HandlerDone, nodeVars, Unregistered
    <3>2. /\ Dhs(toGw') \subseteq Dhs(toGw)
          /\ Caught(toGw, session.key) => Caught(toGw', session.key)
      <4>1. toGw' = toGw \/ (pc["recv"] = "reply" /\ toGw' = Append(toGw, out["recv"]))
        BY <1>4
      <4>2. pc["recv"] = "reply" => out["recv"].type # "dh" /\ out["recv"] \in ClientMessages
        BY DEF OutInv, Threads
      <4>3. pc["recv"] = "reply" => Dhs(Append(toGw, out["recv"])) = Dhs(toGw)
        BY <4>2, DhsAppend
      <4>4. pc["recv"] = "reply" /\ Caught(toGw, session.key) => Caught(Append(toGw, out["recv"]), session.key)
        BY <4>2, DhsAppend
      <4> QED  BY <4>1, <4>3, <4>4
    <3> QED
      BY <1>a, <2>0, <3>1, <3>2, <3>3, ChainKept
  <2> QED  BY <2>1, <2>2, <2>3, <2>4, <2>5
<1>5. CASE HandleRequest
  <2> DEFINE m == Head(toGw)
  <2>1. /\ toGw # <<>> /\ toGw' = Tail(toGw) /\ UNCHANGED <<net, clientVars>> /\ net = "up"
        /\ m \in ClientMessages
    BY <1>5 DEF HandleRequest, GwHandle
  <2>2. CASE Readable(m) /\ GwExchange(m)
    <3>1. m.type = "dh" /\ m.type \in Types(toGw)
      BY <2>1, <2>2, TypesTail DEF GwExchange
    <3>2. Live
      BY <2>1, <3>1 DEF Live, FreshInv, New, InitPlaces, Authenticators
    <3> QED  BY <2>1, <2>2, <3>2, ChainAnswered
  <2>3. CASE ~(Readable(m) /\ GwExchange(m))
    <3>1. /\ session'.key = session.key /\ lastGw' = lastGw
          /\ \/ toCli' = toCli
             \/ \E type \in {"keyngack", "ack"} : toCli' = Append(toCli, Message(type, session.key, 0))
      BY <1>5, <2>3 DEF HandleRequest, GwHandle, GwNegotiate, GwRegister, GwKeepalive, GwIgnore, Reply,
         TypeOK, LinkTypeOK, Sessions
    <3>2. ASSUME NEW type \in {"keyngack", "ack"}, NEW r, r = Message(type, session.key, 0)
          PROVE  Dhs(Append(toCli, r)) = Dhs(toCli) /\ (OneDh(toCli) => OneDh(Append(toCli, r)))
      <4>1. r \in GatewayMessages
        <5>1. session.key \in Keys /\ 0 \in 0..GwIds
          BY LinkAssumption DEF TypeOK, LinkTypeOK, Sessions
        <5>2. Message(type, session.key, 0) \in GatewayMessages
          BY <5>1, RepliedType
        <5> QED  BY <3>2, <5>2
      <4>2. r.type # "dh"
        BY <3>2 DEF Message
      <4> QED  BY <4>1, <4>2, DhsAppend
    <3>3. Live => Dhs(toCli') = Dhs(toCli) /\ OneDh(toCli')
      BY <1>a, <3>1, <3>2
    <3>4. /\ Dhs(toGw') \subseteq Dhs(toGw)
          /\ Caught(toGw, session.key) => Caught(toGw', session.key)
      BY <2>1, DhsTail
    <3>5. UNCHANGED <<pc, rmsg, p_dh, p_shared_key, OutDhs, InHand, Live, Unregistered>>
      BY <2>1 DEF clientVars, threadVars, nodeVars, OutDhs, InHand, Live, Unregistered
    <3> QED
      BY <3>1, <3>3, <3>4, <3>5, ChainKept
  <2> QED  BY <2>2, <2>3
<1>6. CASE AskStatus
  <2>1. /\ toCli = <<>> /\ toCli' = <<Message("get_status", session.key, 0)>>
        /\ UNCHANGED <<session, lastGw, toGw, net, pc, rmsg, p_dh, p_shared_key, OutDhs, InHand, Live, Unregistered>>
    BY <1>6 DEF AskStatus, GwRequest, Reply, clientVars, threadVars, nodeVars, OutDhs, InHand, Live, Unregistered
  <2>2. Dhs(toCli') = {} /\ Dhs(toCli) = {} /\ OneDh(toCli')
    BY <2>1 DEF Dhs, OneDh, Message
  <2> QED  BY <2>1, <2>2, ChainKept
<1>7. CASE Drop \/ Notice
  <2>1. /\ ~Live' /\ Dhs(toGw') \subseteq Dhs(toGw)
        /\ UNCHANGED <<session, lastGw, pc, rmsg, p_dh, p_shared_key, OutDhs, InHand, Unregistered>>
    BY <1>7 DEF Drop, Notice, clientVars, threadVars, nodeVars, OutDhs, InHand, Live, Unregistered
  <2> QED  BY <2>1, ChainKept
<1>8. CASE UNCHANGED vars
  <2>1. UNCHANGED <<session, lastGw, toGw, toCli, net, pc, rmsg, p_dh, p_shared_key, OutDhs, InHand, Live, Unregistered>>
    BY <1>8 DEF vars, linkVars, clientVars, threadVars, nodeVars, OutDhs, InHand, Live, Unregistered
  <2> QED  BY <1>a, <2>1, ChainKept
<1> QED
  BY <1>b, <1>1, <1>2, <1>3, <1>4, <1>5, <1>6, <1>7, <1>8 DEF Next, ClientThread, HeartThread, HeartAlone, Authenticators

(* Keys the gateway computed, and no key at all, are what it encrypts under. *)
LEMMA EncReplied ==
    ASSUME TypeOK, EncInv, Sound(session.key), UNCHANGED <<pc, rmsg>>,
           NEW type, NEW pub, Reply(type, pub)
    PROVE  EncInv'
<1> DEFINE m == Message(type, session.key, pub)
<1>1. toCli' = Append(toCli, m) /\ m.enc = session.key
  BY DEF Reply, Message
<1>2. toCli \in Seq(GatewayMessages)
  BY DEF TypeOK, LinkTypeOK
<1> HIDE DEF m
<1>3. /\ Len(toCli') = Len(toCli) + 1 /\ toCli'[Len(toCli) + 1] = m /\ Len(toCli) \in Nat
      /\ \A i \in 1..Len(toCli) : toCli'[i] = toCli[i]
  BY <1>1, <1>2
<1> QED  BY <1>1, <1>3 DEF EncInv

LEMMA EncStep ==
    ASSUME IInv, EncInv, ChainInv, [Next]_vars
    PROVE  EncInv'
<1>0. /\ TypeOK /\ toGw \in Seq(ClientMessages) /\ toCli \in Seq(GatewayMessages)
      /\ Sound(session.key) /\ Len(<<>>) = 0
  BY DEF IInv, TypeOK, LinkTypeOK, ChainInv, Sound
<1> USE <1>0, Places3 DEF At, Authenticators
<1>a. ASSUME pc'["recv"] = "got" => pc["recv"] = "got",
             rmsg' \in {rmsg, NoMsg}, toCli' \in {toCli, <<>>}
      PROVE  EncInv'
  BY <1>a DEF EncInv, Sound, NoMsg, Message
<1>1. CASE Receive
  <2>1. /\ toCli # <<>> /\ rmsg' = toCli[1] /\ toCli' = Tail(toCli)
    BY <1>1 DEF Receive
  <2>2. /\ Len(toCli) \in Nat /\ Len(toCli) # 0 /\ Len(Tail(toCli)) = Len(toCli) - 1
        /\ \A i \in 1..Len(toCli) - 1 : Tail(toCli)[i] = toCli[i + 1]
    BY <2>1
  <2> QED  BY <2>1, <2>2 DEF EncInv
<1>2. CASE RecvThread /\ ~Receive
  BY <1>a, <1>2, RecvHand DEF RecvThread, Distribute, RecvKeyngack, DhAlloc, DhCompute, DhExchanged,
     AckCheck, AckRegister, StatusBuild, StatusSend, Crash, Goto, HandlerDone
<1>3. CASE Start
  BY <1>a, <1>3 DEF Start, Open
<1>4. ASSUME NEW t \in Authenticators, Authenticate(t) PROVE EncInv'
  <2>1. pc'["recv"] = pc["recv"] /\ toCli' = toCli
    BY <1>4, AuthFrame DEF Threads
  <2>2. rmsg' \in {rmsg, NoMsg}
    BY <1>4 DEF Authenticate, InitFree, InitKeys, InitNull, InitWipe, InitState, DhGenerate, CheckGoal,
       BuildRequest, SendRequest, Advance, Crash
  <2> QED  BY <1>a, <2>1, <2>2
<1>5. CASE HeartAlone
  BY <1>a, <1>5 DEF HeartAlone, HeartCheck, HeartBuild, HeartSend, RestartClose, RestartZero, RestartConnect,
     RestartState, Open, Transmit, Goto, Sleep, linkVars
<1>6. CASE HandleRequest \/ AskStatus
  <2>1. UNCHANGED <<pc, rmsg>>
    BY <1>6 DEF HandleRequest, AskStatus, clientVars, threadVars
  <2>2. toCli' = toCli \/ \E type \in {"keyngack", "dh", "ack", "get_status"}, pub \in {0, lastGw'} : Reply(type, pub)
    BY <1>6 DEF HandleRequest, AskStatus, GwHandle, GwRequest, GwNegotiate, GwExchange, GwRegister, GwKeepalive, GwIgnore
  <2> QED  BY <1>a, <2>1, <2>2, EncReplied
<1>7. CASE Drop \/ Notice \/ UNCHANGED vars
  BY <1>a, <1>7 DEF Drop, Notice, vars, linkVars, clientVars, threadVars
<1> QED
  BY <1>1, <1>2, <1>3, <1>4, <1>5, <1>6, <1>7 DEF Next, ClientThread, HeartThread, HeartAlone

-----------------------------------------------------------------------------
(***************************************************************************)
(* A registered client encrypts with the key its gateway decrypts with,    *)
(* however often a dh was repeated before the first answer came, whichever *)
(* connection it is, and whether its DH_compute_key works or not.          *)
(***************************************************************************)
THEOREM SameKey ==
    ASSUME Gentle, GwIds # 1
    PROVE  Spec => []KeyAgreement
<1>1. Init => ChainInv
  <2> SUFFICES ASSUME Init PROVE ChainInv
    OBVIOUS
  <2>1. OutDhs = {}
    BY DEF Init, ClientInit, OutDhs, NoMsg, Message, Threads
  <2> QED  BY <2>1, DhsEmpty DEF Init, LinkInit, ClientInit, ChainInv, Live, NewSession
<1>a. Init => EncInv
  BY DEF Init, LinkInit, ClientInit, EncInv
<1>2. IInv /\ EncInv /\ ChainInv /\ [Next]_vars => ChainInv' /\ EncInv'
  BY ChainStep, EncStep
<1>3. IInv /\ ChainInv => KeyAgreement
  <2> SUFFICES ASSUME IInv, ChainInv, link_state = "dev_reg_e", net = "up", pc["heart"] # "state"
               PROVE  p_shared_key = session.key
    BY DEF KeyAgreement
  <2>1. Live
    BY DEF Live, IInv, FreshInv, InitPlaces, Authenticators
  <2>2. LinkType = "ack" /\ MayFollow("ack", Hand) /\ \A b \in Types(toCli) : MayFollow("ack", b)
    BY DEF IInv, OrderInv, LinkType, Seen
  <2>3. ~InHand /\ "dh" \notin Types(toCli)
    BY <2>2 DEF InHand, Hand, MayFollow, Third
  <2> QED  BY <2>1, <2>3, DhsTypes DEF ChainInv, Pending, Lost, Unregistered
<1> QED
  BY <1>1, <1>a, <1>2, <1>3, InOrder, PTL DEF Spec
=============================================================================
