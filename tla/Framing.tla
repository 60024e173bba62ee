------------------------------ MODULE Framing --------------------------------
(***************************************************************************)
(* How a recv thread (remote.c, local.c) cuts the byte stream of its       *)
(* socket into messages: a header is read, then as many bytes as it        *)
(* announces, then data_distribution gets recv_buf and msg_len.  The heart *)
(* thread may close and replace the descriptor at any moment, and each     *)
(* call of recv uses the descriptor of that moment.  Nothing in the loop   *)
(* looks at how long recv_buf is.                                          *)
(*                                                                         *)
(* A frame is a header of HeaderLen units, the last one of them its        *)
(* length, and a body.  A unit knows the frame it belongs to, its position *)
(* in it and the length of the frame's body.                               *)
(***************************************************************************)
EXTENDS Integers, Sequences

CONSTANTS
    HeaderLen,      \* ELINK_HEADER_LEN
    MaxBody,        \* the longest body the gateway sends
    BufLen,         \* MAX_BUF_LEN, the units recv_buf has room for
    Width,          \* msg_len is unsigned and counts modulo Width
    MaxFrames,      \* frames the gateway sends on one connection
    MaxConnections

(* The longest body a header can announce: an int32_t. *)
MaxLength == Width \div 2 - 1

ASSUME FramingAssumption ==
    /\ HeaderLen \in Nat \ {0, 1}
    /\ Width \in Nat
    /\ MaxBody \in 1..MaxLength
    /\ BufLen \in Nat \ {0}
    /\ MaxFrames \in Nat
    /\ MaxConnections \in Nat \ {0}

VARIABLES
    pc,         \* the recv thread reads a "header" or a "body"
    expected,   \* its local msg_len: what the header announced
    msg_len,    \* the node's msg_len: what was read of the body
    recv_buf,   \* the units of the body so far
    got,        \* messages data_distribution took out of recv_buf on this connection
    keyed,      \* p_shared_key is not NULL
    fate,       \* "alive", "died" of a bad read, "overrun": wrote behind recv_buf
    fd,         \* "open", "eof" (recv gives 0), "reset" and "closed" (recv gives -1)
    stream,     \* units that wait in the socket
    sent,       \* body lengths of the frames sent on this connection
    conns,      \* connections made so far
    fresh,      \* start_authentication has not yet run _init on this connection
    odd         \* what this connection met: see Benign

thread == <<pc, expected, msg_len, recv_buf, got, keyed, fate>>
socket == <<fd, stream, sent, conns, fresh>>
vars == <<thread, socket, odd>>

Units == [frame : 1..MaxFrames, pos : 1..HeaderLen + MaxBody, body : 1..MaxBody]

Zero == [frame |-> 0, pos |-> 0, body |-> 0]

Frame(f, len) == [i \in 1..HeaderLen + len |-> [frame |-> f, pos |-> i, body |-> len]]

BodyOf(f, len) == SubSeq(Frame(f, len), HeaderLen + 1, HeaderLen + len)

Init ==
    /\ pc = "header" /\ expected = 0 /\ msg_len = 0 /\ recv_buf = <<>> /\ got = <<>>
    /\ keyed = FALSE /\ fate = "alive"
    /\ fd = "open" /\ stream = <<>> /\ sent = <<>> /\ conns = 1 /\ fresh = TRUE
    /\ odd = {}

-----------------------------------------------------------------------------
(* The recv thread. *)

(* check_msg_header: what recv_buf announces.  Of a length cut short the   *)
(* missing part is 0, as recv_buf was zeroed; units that are no header may *)
(* announce anything, for neither the flag nor the length is looked at.    *)
IsHeader(hdr) ==
    /\ Len(hdr) = HeaderLen
    /\ \A i \in 1..HeaderLen : hdr[i].pos = i /\ hdr[i].frame = hdr[1].frame

Announced(hdr) ==
    IF IsHeader(hdr) THEN {hdr[1].body}
    ELSE IF Len(hdr) < HeaderLen /\ hdr[1].pos = 1 THEN 0..hdr[1].body
    ELSE -1..MaxLength

(* recv gives any part, not empty, of what was asked for and is there. *)
Received(asked, k) ==
    /\ fate = "alive"
    /\ fd \in {"open", "eof"}
    /\ k \in 1..asked /\ k <= Len(stream)
    /\ stream' = SubSeq(stream, k + 1, Len(stream))
    /\ UNCHANGED <<fd, sent, conns, fresh>>

(* Both lengths are compared as unsigned numbers. *)
Incomplete_Signed(m, len) == (IF m >= Width \div 2 THEN m - Width ELSE m) < len

Incomplete_Inclusive(m, len) == m <= len

Incomplete(m, len) == m < len

(* JSON ends where its first value does, whatever comes behind it. *)
HoldsBody(buf) ==
    /\ buf # <<>> /\ buf[1].body \in 1..Len(buf)
    /\ SubSeq(buf, 1, buf[1].body) = BodyOf(buf[1].frame, buf[1].body)

Taken(units) == got' = Append(got, [units |-> units, announced |-> expected])

(***************************************************************************)
(* data_distribution: without a key recv_buf is parsed, and the message    *)
(* may be the dh that gives the node its key; with one, m bytes of it are  *)
(* decrypted, and bin_print, which goes first, reads as many as m says: a  *)
(* wrapped m takes it gigabytes past recv_buf, and the process dies.       *)
(***************************************************************************)
Distribute(m, buf) ==
    \/ /\ keyed /\ m <= Len(buf)
       /\ Taken(SubSeq(buf, 1, m))
       /\ UNCHANGED <<keyed, fate>>
    \/ /\ keyed /\ m > Len(buf)
       /\ fate' = "died"
       /\ UNCHANGED <<got, keyed>>
    \/ /\ ~keyed /\ HoldsBody(buf)
       /\ Taken(SubSeq(buf, 1, buf[1].body))
       /\ keyed' \in BOOLEAN
       /\ UNCHANGED fate
    \/ /\ ~keyed /\ ~HoldsBody(buf)
       /\ UNCHANGED <<got, keyed, fate>>

(* An empty message reaches data_distribution as well, and is dropped. *)
ReadHeader(k) ==
    /\ pc = "header"
    /\ Received(HeaderLen, k)
    /\ odd' = IF k < HeaderLen THEN odd \union {"short header"} ELSE odd
    /\ \E len \in Announced(SubSeq(stream, 1, k)) :
          /\ pc' = IF len > 0 THEN "body" ELSE "header"
          /\ expected' = (IF len > 0 THEN len ELSE 0)
    /\ msg_len' = 0
    /\ recv_buf' = <<>>
    /\ UNCHANGED <<got, keyed, fate>>

(* The state after msg_len has become m and recv_buf holds buf. *)
BodyStep(m, buf) ==
    /\ msg_len' = m
    /\ recv_buf' = buf
    /\ UNCHANGED expected
    /\ \/ Incomplete(m, expected) /\ UNCHANGED <<pc, got, keyed, fate>>
       \/ ~Incomplete(m, expected) /\ pc' = "header" /\ Distribute(m, buf)

ReadBody_Overwrites(k) ==
    /\ pc = "body"
    /\ Received(expected, k)
    /\ odd' = IF k < expected THEN odd \union {"short body"} ELSE odd
    /\ BodyStep((msg_len + k) % Width,
                [i \in 1..msg_len + k |-> IF i <= k THEN stream[i]
                                          ELSE IF i <= Len(recv_buf) THEN recv_buf[i] ELSE Zero])

(* Every call asks for the whole body, wherever the last one ended, and     *)
(* however little room is left behind it.                                  *)
ReadBody(k) ==
    /\ pc = "body"
    /\ Received(expected, k)
    /\ odd' = IF k < expected THEN odd \union {"short body"} ELSE odd
    /\ IF msg_len + k > BufLen
       THEN fate' = "overrun" /\ UNCHANGED <<pc, expected, msg_len, recv_buf, got, keyed>>
       ELSE BodyStep((msg_len + k) % Width, SubSeq(recv_buf, 1, msg_len) \o SubSeq(stream, 1, k))

BodyFails_Unchanged ==
    /\ pc = "body" /\ fate = "alive"
    /\ fd \in {"reset", "closed"}
    /\ fd' = IF fd = "reset" THEN "eof" ELSE fd
    /\ UNCHANGED <<thread, stream, sent, conns, fresh, odd>>

(* recv gives -1, which is added like a length.  A reset shows once. *)
BodyFails ==
    /\ pc = "body" /\ fate = "alive"
    /\ fd \in {"reset", "closed"}
    /\ fd' = IF fd = "reset" THEN "eof" ELSE fd
    /\ BodyStep((msg_len - 1) % Width, recv_buf)
    /\ UNCHANGED <<stream, sent, conns, fresh, odd>>

RecvThread ==
    \/ \E k \in 1..HeaderLen : ReadHeader(k)
    \/ \E k \in 1..MaxLength : ReadBody(k)
    \/ BodyFails

-----------------------------------------------------------------------------
(* The gateway, the network, and the heart thread's reconnection. *)

Send(len) ==
    /\ fd = "open" /\ fate = "alive"
    /\ Len(sent) < MaxFrames
    /\ sent' = Append(sent, len)
    /\ stream' = stream \o Frame(Len(sent) + 1, len)
    /\ odd' = IF stream = <<>> /\ pc = "header" THEN odd ELSE odd \union {"crowded"}
    /\ UNCHANGED <<thread, fd, conns, fresh>>

(* The gateway goes away in order, and what it sent last may be missing... *)
HangUp(k) ==
    /\ fd = "open" /\ fate = "alive"
    /\ fd' = "eof"
    /\ stream' = SubSeq(stream, 1, k)
    /\ UNCHANGED <<thread, sent, conns, fresh, odd>>

(* ... or with a reset, and nothing more can be read. *)
Reset ==
    /\ fd = "open" /\ fate = "alive"
    /\ fd' = "reset"
    /\ stream' = <<>>
    /\ UNCHANGED <<thread, sent, conns, fresh, odd>>

(* restart_authentication closes the descriptor: of a registered node, which *)
(* has a key, or when the connection that replaced the first one fails too... *)
Close ==
    /\ fd # "closed" /\ fate = "alive"
    /\ keyed \/ conns > 1
    /\ conns < MaxConnections
    /\ fd' = "closed"
    /\ stream' = <<>>
    /\ UNCHANGED <<thread, sent, conns, fresh, odd>>

(* ... and client_init opens it again, whatever the recv thread is at. *)
Reconnect ==
    /\ fd = "closed" /\ fate = "alive"
    /\ fd' = "open"
    /\ conns' = conns + 1
    /\ sent' = <<>>
    /\ got' = <<>>
    /\ fresh' = TRUE
    /\ odd' = IF pc = "body" THEN {"mid body"} ELSE {}
    /\ UNCHANGED <<pc, expected, msg_len, recv_buf, keyed, fate, stream>>

(* start_authentication follows, in which _init frees the key and zeroes   *)
(* recv_buf under the hands of the recv thread; the client thread starts   *)
(* over on the first connection when a send fails.                         *)
ClearBuffer ==
    /\ fresh \/ (conns = 1 /\ fd \in {"eof", "reset"})
    /\ fd # "closed" /\ fate = "alive"
    /\ fresh' = FALSE
    /\ keyed' = FALSE
    /\ recv_buf' = [i \in 1..Len(recv_buf) |-> Zero]
    /\ odd' = IF pc = "body" /\ msg_len > 0 THEN odd \union {"cleared"} ELSE odd
    /\ UNCHANGED <<pc, expected, msg_len, got, fate, fd, stream, sent, conns>>

Next ==
    \/ RecvThread
    \/ \E len \in 1..MaxBody : Send(len)
    \/ \E k \in 0..Len(stream) : HangUp(k)
    \/ Reset \/ Close \/ Reconnect \/ ClearBuffer

Spec == Init /\ [][Next]_vars

(* The recv thread never stops reading; nothing else must happen. *)
FairSpec == Spec /\ WF_vars(RecvThread)

-----------------------------------------------------------------------------
(* Properties. *)

(* Types; a reader in the middle of a body has less of it than was announced, *)
(* and recv_buf never holds more than it has room for.                        *)
TypeOK ==
    /\ pc \in {"header", "body"}
    /\ expected \in 0..MaxLength
    /\ msg_len \in 0..Width - 1
    /\ recv_buf \in Seq(Units \union {Zero}) /\ Len(recv_buf) <= BufLen
    /\ pc = "body" => msg_len < expected /\ msg_len <= Len(recv_buf)
    /\ got \in Seq([units : Seq(Units \union {Zero}), announced : 1..MaxLength])
    /\ keyed \in BOOLEAN
    /\ fate \in {"alive", "died", "overrun"}
    /\ fd \in {"open", "eof", "reset", "closed"}
    /\ stream \in Seq(Units)
    /\ sent \in Seq(1..MaxBody) /\ Len(sent) <= MaxFrames
    /\ conns \in 1..MaxConnections
    /\ fd = "closed" => conns < MaxConnections
    /\ fresh \in BOOLEAN
    /\ odd \subseteq {"short header", "short body", "crowded", "mid body", "cleared"}

(* What the code relies on: headers arrive whole, the descriptor is not    *)
(* replaced and the buffer not cleared while a body is read, and a body    *)
(* that arrives in pieces has nothing behind it.                           *)
Benign ==
    /\ odd \intersect {"short header", "mid body", "cleared"} = {}
    /\ ~ {"short body", "crowded"} \subseteq odd

(* On a benign connection data_distribution takes the bodies of the frames *)
(* sent, whole, in order and none twice.                                   *)
FramesIntact ==
    Benign => /\ Len(got) <= Len(sent)
              /\ \A i \in 1..Len(got) : got[i].units = BodyOf(i, sent[i])

(* If the gateway keeps to bodies that fit recv_buf, nothing is written    *)
(* behind it on a benign connection; the code itself never compares.       *)
InBounds == MaxBody <= BufLen /\ Benign => fate # "overrun"

(* A frame sent on a benign connection reaches data_distribution, or the   *)
(* connection ends or stops being benign.                                  *)
Delivered ==
    \A i \in 1..MaxFrames :
        Len(sent) >= i ~> Len(got) >= i \/ fd # "open" \/ ~Benign

(* Once the descriptor is closed the thread does not stay in the body of   *)
(* the old connection: enough failing calls take msg_len below 0, which is *)
(* more than any length.  The next header is read if the node has no key;  *)
(* the process dies if it has one.                                         *)
LeavesBody ==
    fd = "closed" ~> pc = "header" \/ fd # "closed" \/ (fate = "died" /\ keyed)

=============================================================================
