----------------------------- MODULE ElinkSystem -----------------------------
(***************************************************************************)
(* A client node, its gateway and the connection between them, which may   *)
(* break.  The properties say what the three unsynchronised threads of the *)
(* client and the gateway's answers must add up to: both ends use the same *)
(* key, nothing that needs the key leaves without it, key material is not  *)
(* used once it is freed, and the client does get registered.              *)
(***************************************************************************)
EXTENDS ClientNode, Gateway

CONSTANT
    DropWhen    \* "never", "registered" (the client thread is done), "any"

ASSUME DropAssumption == DropWhen \in {"never", "registered", "any"}

vars == <<linkVars, clientVars>>

Init == LinkInit /\ ClientInit

-----------------------------------------------------------------------------
(* The network: a gateway that goes away takes with it what it had not read; *)
(* what it had sent can still be read until the client's kernel notices.     *)

MayDrop ==
    /\ DropWhen # "never"
    /\ DropWhen = "registered" => pc["client"] = "done"

Drop ==
    /\ net = "up"
    /\ MayDrop
    /\ nconn < MaxConn
    /\ net' = "half"
    /\ toGw' = <<>>
    /\ UNCHANGED <<nconn, toCli, session, lastGw, clientVars>>

Notice ==
    /\ net = "half"
    /\ net' = "dead"
    /\ toCli' = <<>>
    /\ UNCHANGED <<nconn, toGw, session, lastGw, clientVars>>

-----------------------------------------------------------------------------
HandleRequest == GwHandle /\ UNCHANGED clientVars
AskStatus == GwRequest /\ UNCHANGED clientVars

Next ==
    \/ ClientThread \/ HeartThread \/ RecvThread
    \/ HandleRequest \/ AskStatus
    \/ Drop \/ Notice

Spec == Init /\ [][Next]_vars

(***************************************************************************)
(* Each thread is scheduled, a live gateway handles what it is sent and a  *)
(* client's kernel notices a lost peer.  Nothing is assumed of how long a  *)
(* sleep takes against anything else, of drops or of get_status requests.  *)
(***************************************************************************)
Fairness ==
    /\ WF_vars(ClientThread)
    /\ WF_vars(HeartThread)
    /\ WF_vars(RecvThread)
    /\ WF_vars(HandleRequest)
    /\ WF_vars(Notice)

FairSpec == Spec /\ Fairness

-----------------------------------------------------------------------------
(* Type invariant of the whole system. *)
TypeOK == LinkTypeOK /\ ClientTypeOK

(***************************************************************************)
(* A client that considers itself registered (link_state is dev_reg_e) on  *)
(* a live connection encrypts with the key the gateway decrypts with: no   *)
(* interleaving of retransmitted requests, late answers and restarts       *)
(* leaves the two ends registered under different keys.  Between           *)
(* client_init and line 39 of authentication.c link_state still speaks of  *)
(* the connection that was lost.                                           *)
(***************************************************************************)
KeyAgreement ==
    link_state = "dev_reg_e" /\ net = "up" /\ pc["heart"] # "state"
        => p_shared_key = session.key

(***************************************************************************)
(* What a node itself sends after the key exchange (dev_reg, keepalive)    *)
(* never leaves in the clear, though msg_sent decides that by looking at a *)
(* pointer other threads set and clear.                                    *)
(***************************************************************************)
RegistrationEncrypted ==
    \A i \in 1..Len(toGw) :
        toGw[i].type \in {"dev_reg", "keepalive"} => toGw[i].enc # NoKey

(***************************************************************************)
(* The process dies of key material in two cases only: dhkey_init failed,  *)
(* start_authentication went on all the same and send_dh_info hands the    *)
(* NULL pub_key to json-c; or a recv_dh was overtaken by an                *)
(* authentication that began while it ran.  The thread that authenticates  *)
(* never sends keys that _init freed.                                      *)
(***************************************************************************)
CrashesKnown ==
    crashed =>
        \/ p_dh = Bare
        \/ ~Timely /\ pc["recv"] \in {"dh", "compute"}

(***************************************************************************)
(* Whatever connection it is, keyngreq is ahead of everything else the     *)
(* node sends on it by itself: nothing an earlier connection left behind   *)
(* gets ahead of the negotiation.                                          *)
(***************************************************************************)
NegotiationFirst ==
    \A i \in 1..Len(toGw) :
        net = "up" /\ session.phase = "new" /\ toGw[i].type \notin {"keyngreq", "status"}
            => \E j \in 1..(i - 1) : toGw[j].type = "keyngreq"

(***************************************************************************)
(* The link state only falls back when a thread restarts the               *)
(* authentication: no late or repeated answer of the gateway undoes        *)
(* progress, although recv_keyngack and recv_dh overwrite link_state       *)
(* without looking at it.                                                  *)
(***************************************************************************)
Rank == [init_e |-> 0, connect_e |-> 1, key_req_e |-> 2, key_exc_e |-> 3,
         dev_reg_e |-> 4]

Restarting ==
    \E t \in Authenticators :
        pc[t] \in {"start", "reset", "state"} /\ pc'[t] # pc[t]

LinkStateMonotone ==
    [][Rank[link_state'] < Rank[link_state] => Restarting]_vars

Registered ==
    /\ net = "up"
    /\ link_state = "dev_reg_e"
    /\ session.phase = "registered"
    /\ p_shared_key = session.key

(***************************************************************************)
(* The client gets registered, and both ends agree that it is; on a        *)
(* connection that does not break it stays so.                             *)
(***************************************************************************)
Registers == <>[]Registered

(***************************************************************************)
(* Every lost connection is noticed by the heartbeat and ends in a new     *)
(* registration, unless the keys fail: DH_compute_key has just left its    *)
(* buffer empty, or the process died.                                      *)
(***************************************************************************)
KeysFailed == crashed \/ (pc["recv"] = "exchanged" /\ p_shared_key = ZeroKey)

Reregisters == net = "half" ~> (Registered \/ KeysFailed)

(***************************************************************************)
(* client.c:147, 161: a connection the server closed is tried again,       *)
(* whichever thread finds out.                                             *)
(***************************************************************************)
LostLinkIsReplaced == net = "dead" ~> (net = "up" \/ crashed)

(***************************************************************************)
(* msg.c:36: a message is encrypted when the shared key has been           *)
(* generated; so no message is encrypted under a buffer that holds no key. *)
(***************************************************************************)
EncryptedUnderRealKey ==
    \A i \in 1..Len(toGw) : toGw[i].enc \notin {ZeroKey, BadKey, FreedKey}
=============================================================================
