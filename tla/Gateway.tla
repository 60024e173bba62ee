------------------------------- MODULE Gateway -------------------------------
(***************************************************************************)
(* The gateway at the other end of a node's connection.  It is not part of *)
(* this repository; it is the mirror of what the client's code needs of it *)
(* to work: it answers requests in order, encrypts and decrypts if and     *)
(* only if it has a shared key, and answers a "dh" under the key that was  *)
(* in force when the request came.                                         *)
(***************************************************************************)
EXTENDS Link

CONSTANT
    Requests    \* TRUE: the gateway sends get_status to a registered client

ASSUME RequestsAssumption == Requests \in BOOLEAN

Readable(m) == m.enc = session.key

CanReply == Len(toCli) < Cap

Reply(type, pub) == toCli' = Append(toCli, Message(type, session.key, pub))

GwNegotiate(m) ==
    /\ m.type = "keyngreq"
    /\ CanReply
    /\ Reply("keyngack", 0)
    /\ session' = [session EXCEPT !.phase = "negotiated"]
    /\ lastGw' = lastGw

GwExchange(m) ==
    /\ m.type = "dh"
    /\ CanReply
    /\ lastGw' = NextId(lastGw, GwIds)
    /\ Reply("dh", lastGw')
    /\ session' = [session EXCEPT !.key = [dh |-> m.pub, gw |-> lastGw']]

GwRegister(m) ==
    /\ m.type = "dev_reg"
    /\ CanReply
    /\ Reply("ack", 0)
    /\ session' = [session EXCEPT !.phase = "registered"]
    /\ lastGw' = lastGw

(***************************************************************************)
(* What the client does not wait for, the ack of a keepalive and a         *)
(* get_status, is sent only into an empty stream: the gateway keeps room   *)
(* for the answers it owes, or two full streams would block both ends.     *)
(***************************************************************************)
GwKeepalive(m) ==
    /\ m.type = "keepalive"
    /\ toCli' = toCli \/ (toCli = <<>> /\ Reply("ack", 0))
    /\ UNCHANGED <<session, lastGw>>

GwIgnore(m) ==
    /\ m.type = "status" \/ ~Readable(m)
    /\ UNCHANGED <<toCli, session, lastGw>>

GwHandle ==
    /\ net = "up"
    /\ toGw # <<>>
    /\ toGw' = Tail(toGw)
    /\ LET m == Head(toGw) IN
         \/ Readable(m) /\ (GwNegotiate(m) \/ GwExchange(m) \/ GwRegister(m) \/ GwKeepalive(m))
         \/ GwIgnore(m)
    /\ UNCHANGED <<net, nconn>>

GwRequest ==
    /\ Requests
    /\ net = "up"
    /\ session.phase = "registered"
    /\ toCli = <<>> /\ toGw = <<>>
    /\ Reply("get_status", 0)
    /\ UNCHANGED <<net, nconn, toGw, session, lastGw>>
=============================================================================
