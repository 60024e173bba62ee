-------------------------------- MODULE Link --------------------------------
(***************************************************************************)
(* What a client node and the gateway share: the messages, the keys they   *)
(* are encrypted under, and the one stream connection between them.  A     *)
(* connection is a pair of FIFO byte streams; here each stream is a        *)
(* sequence of whole messages, at most Cap of them in flight, because the  *)
(* sockets are blocking (client.c:77 leaves O_NONBLOCK commented out) and  *)
(* a send waits for room.  The gateway is not part of this repository: its *)
(* half of a connection, session, is what the client's code relies on.     *)
(***************************************************************************)
EXTENDS Naturals, Sequences

CONSTANTS
    Cap,        \* messages a stream holds before send() blocks
    MaxConn,    \* connections a behaviour may use
    DhIds,      \* the client's DH key pairs are numbered 1..DhIds, cyclically
    GwIds       \* the gateway's DH key pairs, likewise 1..GwIds

ASSUME LinkAssumption ==
    /\ Cap \in Nat \ {0}
    /\ MaxConn \in Nat \ {0}
    /\ DhIds \in Nat \ {0}
    /\ GwIds \in Nat \ {0}

VARIABLES
    net,        \* what has become of the current connection, see NetStates
    nconn,      \* connections made so far
    toGw,       \* messages on their way from the client to the gateway
    toCli,      \* messages on their way from the gateway to the client
    session,    \* the gateway's state for the current connection
    lastGw      \* the last DH key pair the gateway generated

linkVars == <<net, nconn, toGw, toCli, session, lastGw>>

(***************************************************************************)
(* A shared key is named by the two key pairs it was computed from.  Four  *)
(* values are no such key: NoKey is the NULL pointer, ZeroKey the buffer   *)
(* gen_dh_shared_key has allocated and zeroed but not filled, BadKey what  *)
(* it computes from a DH object or into a buffer that was freed under it,  *)
(* FreedKey a buffer that is freed and still pointed to.                   *)
(***************************************************************************)
NoKey    == [dh |-> 0, gw |-> 0]
ZeroKey  == [dh |-> 0, gw |-> 1]
BadKey   == [dh |-> 0, gw |-> 2]
FreedKey == [dh |-> 0, gw |-> 3]

NotComputed == {NoKey, ZeroKey, BadKey, FreedKey}

Keys == [dh : 1..DhIds, gw : 1..GwIds] \union NotComputed

(***************************************************************************)
(* A message: enc is the key msg_sent encrypted it under, NoKey when it    *)
(* went out in the clear; pub is the public key a "dh" message carries, 0  *)
(* in the others.  Type "none" marks a wiped buffer.                       *)
(***************************************************************************)
ClientMessages ==
    {m \in [type : {"keyngreq", "dh", "dev_reg", "keepalive", "status", "none"},
            enc : Keys, pub : 0..DhIds] : m.type = "dh" => m.pub # 0}

GatewayMessages ==
    {m \in [type : {"keyngack", "dh", "ack", "get_status", "none"},
            enc : Keys, pub : 0..GwIds] : m.type = "dh" => m.pub # 0}

Message(type, enc, pub) == [type |-> type, enc |-> enc, pub |-> pub]

NoMsg == Message("none", NoKey, 0)

(***************************************************************************)
(* none: not connected yet.  up: established.  half: the gateway is gone   *)
(* but the client's kernel has not noticed.  dead: it has, and send and    *)
(* recv fail.  closed: the client closed the descriptor.                   *)
(***************************************************************************)
NetStates == {"none", "up", "half", "dead", "closed"}

Sessions == [phase : {"new", "negotiated", "registered"}, key : Keys]

NewSession == [phase |-> "new", key |-> NoKey]

(* The model's own numbering of key pairs: the next number after i. *)
NextId(i, n) == (i % n) + 1

(* connect() succeeds: a fresh pair of streams and a fresh session. *)
Open ==
    /\ nconn < MaxConn
    /\ nconn' = nconn + 1
    /\ net' = "up"
    /\ toGw' = <<>>
    /\ toCli' = <<>>
    /\ session' = NewSession
    /\ lastGw' = lastGw

LinkTypeOK ==
    /\ net \in NetStates
    /\ nconn \in 0..MaxConn
    /\ toGw \in Seq(ClientMessages)
    /\ toCli \in Seq(GatewayMessages)
    /\ session \in Sessions
    /\ lastGw \in 0..GwIds

LinkInit ==
    /\ net = "none"
    /\ nconn = 0
    /\ toGw = <<>>
    /\ toCli = <<>>
    /\ session = NewSession
    /\ lastGw = 0
=============================================================================
