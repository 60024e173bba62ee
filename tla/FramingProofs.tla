---------------------------- MODULE FramingProofs ----------------------------
(***************************************************************************)
(* Proofs about Framing for headers and bodies of any length an int32_t    *)
(* can say, any size of recv_buf, any number of frames and connections:    *)
(* what the handlers get on a benign connection are the bodies sent, whole *)
(* and in order, and what fits recv_buf is not written behind it.          *)
(***************************************************************************)
EXTENDS Framing, SequenceTheorems, TLAPS

(* off[f] is the place in stream where frame f begins, 1 or less if it was *)
(* read from; off[Len(sent) + 1] is the first place behind all frames.     *)
Offsets(off) ==
    /\ off \in [1..Len(sent) + 1 -> Int]
    /\ \A f, h \in 1..Len(sent) + 1 : f < h => off[f] < off[h]
    /\ \A f \in 1..Len(sent) : off[f + 1] = off[f] + HeaderLen + sent[f]
    /\ Len(stream) < off[Len(sent) + 1]
    /\ fd = "open" => Len(stream) + 1 = off[Len(sent) + 1]
    /\ \A f \in 1..Len(sent) : \A i \in 1..Len(stream) :
          off[f] <= i /\ i < off[f + 1]
              => stream[i] = [frame |-> f, pos |-> i - off[f] + 1, body |-> sent[f]]

(* The reader is where the frames say it is, and with a body in pieces     *)
(* only a crowded connection has something behind the frame being read.    *)
Reader(off) ==
    /\ pc = "header" => off[Len(got) + 1] = 1
    /\ pc = "body" =>
          /\ Len(got) < Len(sent)
          /\ off[Len(got) + 1] = 1 - HeaderLen - msg_len
          /\ expected = sent[Len(got) + 1]
          /\ \A i \in 1..msg_len :
                recv_buf[i] = [frame |-> Len(got) + 1, pos |-> HeaderLen + i, body |-> expected]
          /\ msg_len > 0 => "short body" \in odd
    /\ "crowded" \notin odd => Len(sent) <= Len(got) + 1

GotOK ==
    /\ Len(got) <= Len(sent)
    /\ \A i \in 1..Len(got) : got[i].units = BodyOf(i, sent[i])

Core ==
    /\ GotOK
    /\ fate = "alive" /\ (fd = "open" \/ stream # <<>>) => \E off : Offsets(off) /\ Reader(off)

(* A body that is not read to its end cannot be parsed: recv_buf has less  *)
(* of it than it says, or zeros.                                           *)
Partial ==
    pc = "body" =>
        /\ Len(recv_buf) < expected
        /\ \A i \in 1..Len(recv_buf) : recv_buf[i].body \in {0, expected}

FrameInv ==
    /\ TypeOK
    /\ fd \in {"reset", "closed"} => stream = <<>>
    /\ Benign => Core /\ Partial
    /\ InBounds

-----------------------------------------------------------------------------
(* Sequences of units. *)

LEMMA FrameUnits ==
    ASSUME NEW f \in 1..MaxFrames, NEW len \in 1..MaxBody
    PROVE  /\ Frame(f, len) \in Seq(Units)
           /\ Len(Frame(f, len)) = HeaderLen + len
           /\ \A i \in 1..HeaderLen + len :
                 Frame(f, len)[i] = [frame |-> f, pos |-> i, body |-> len]
<1>1. HeaderLen + len \in Nat
  BY FramingAssumption
<1>2. \A i \in 1..HeaderLen + len : [frame |-> f, pos |-> i, body |-> len] \in Units
  BY FramingAssumption DEF Units
<1>. QED  BY <1>1, <1>2 DEF Frame

LEMMA BodyUnits ==
    ASSUME NEW f \in 1..MaxFrames, NEW len \in 1..MaxBody
    PROVE  /\ BodyOf(f, len) \in Seq(Units)
           /\ Len(BodyOf(f, len)) = len
           /\ \A i \in 1..len :
                 BodyOf(f, len)[i] = [frame |-> f, pos |-> HeaderLen + i, body |-> len]
<1>. DEFINE a == HeaderLen + 1
            b == HeaderLen + len
<1>1. a \in Int /\ b \in Int /\ a <= b /\ b - a + 1 = len
  BY FramingAssumption
<1>2. \A i \in a..b : i \in 1..HeaderLen + len
  BY FramingAssumption
<1>3. \A i \in a..b : Frame(f, len)[i] \in Units
  <2>. HIDE DEF a, b
  <2>. QED  BY <1>2, FrameUnits, LenProperties
<1>4. /\ SubSeq(Frame(f, len), a, b) \in Seq(Units)
      /\ Len(SubSeq(Frame(f, len), a, b)) = len
      /\ \A i \in 1..len : SubSeq(Frame(f, len), a, b)[i] = Frame(f, len)[a + i - 1]
  BY <1>1, <1>3, SubSeqProperties
<1>5. \A i \in 1..len : a + i - 1 = HeaderLen + i /\ HeaderLen + i \in 1..HeaderLen + len
  BY FramingAssumption
<1>6. \A i \in 1..len : SubSeq(Frame(f, len), a, b)[i] = Frame(f, len)[HeaderLen + i]
  <2>. HIDE DEF a, b
  <2>. QED  BY <1>4, <1>5
<1>7. \A i \in 1..len : Frame(f, len)[HeaderLen + i]
                          = [frame |-> f, pos |-> HeaderLen + i, body |-> len]
  BY <1>5, FrameUnits
<1>. QED  BY <1>4, <1>6, <1>7 DEF BodyOf

LEMMA Parts ==
    ASSUME NEW S, NEW s \in Seq(S), NEW k \in 0..Len(s)
    PROVE  /\ SubSeq(s, 1, k) \in Seq(S)
           /\ Len(SubSeq(s, 1, k)) = k
           /\ \A i \in 1..k : SubSeq(s, 1, k)[i] = s[i]
           /\ SubSeq(s, k + 1, Len(s)) \in Seq(S)
           /\ Len(SubSeq(s, k + 1, Len(s))) = Len(s) - k
           /\ \A i \in 1..Len(s) - k : SubSeq(s, k + 1, Len(s))[i] = s[i + k]
<1>1. Len(s) \in Nat /\ \A i \in 1..Len(s) : s[i] \in S
  BY LenProperties
<1>2. /\ SubSeq(s, 1, k) \in Seq(S)
      /\ Len(SubSeq(s, 1, k)) = IF 1 <= k THEN k - 1 + 1 ELSE 0
      /\ \A i \in 1..k - 1 + 1 : SubSeq(s, 1, k)[i] = s[1 + i - 1]
  BY <1>1, SubSeqProperties
<1>3. /\ SubSeq(s, k + 1, Len(s)) \in Seq(S)
      /\ Len(SubSeq(s, k + 1, Len(s)))
            = IF k + 1 <= Len(s) THEN Len(s) - (k + 1) + 1 ELSE 0
      /\ \A i \in 1..Len(s) - (k + 1) + 1 : SubSeq(s, k + 1, Len(s))[i] = s[k + 1 + i - 1]
  BY <1>1, SubSeqProperties
<1>4. \A i \in 1..k : i \in 1..k - 1 + 1 /\ 1 + i - 1 = i
  BY <1>1
<1>5. \A i \in 1..Len(s) - k : i \in 1..Len(s) - (k + 1) + 1 /\ k + 1 + i - 1 = i + k
  BY <1>1
<1>. QED  BY <1>1, <1>2, <1>3, <1>4, <1>5

-----------------------------------------------------------------------------
(* Type correctness: one step per action. *)

LEMMA ReceivedType ==
    ASSUME TypeOK, NEW asked, NEW k, Received(asked, k)
    PROVE  /\ k \in Nat /\ 1 <= k /\ k <= Len(stream)
           /\ Len(stream) \in Nat
           /\ SubSeq(stream, 1, k) \in Seq(Units)
           /\ Len(SubSeq(stream, 1, k)) = k
           /\ \A i \in 1..k : SubSeq(stream, 1, k)[i] = stream[i]
           /\ stream' \in Seq(Units)
           /\ Len(stream') = Len(stream) - k
           /\ \A i \in 1..Len(stream') : stream'[i] = stream[i + k]
<1>1. stream \in Seq(Units) /\ Len(stream) \in Nat
  BY LenProperties DEF TypeOK
<1>2. k \in 0..Len(stream) /\ 1 <= k /\ k \in Nat
  BY <1>1 DEF Received
<1>3. stream' = SubSeq(stream, k + 1, Len(stream))
  BY DEF Received
<1>. QED  BY <1>1, <1>2, <1>3, Parts

(* What the width of msg_len leaves room for. *)
LEMMA WidthFacts ==
    /\ Width \in Nat /\ MaxLength \in Nat /\ MaxBody \in Nat /\ BufLen \in Nat
    /\ 1 <= MaxBody /\ MaxBody <= MaxLength
    /\ 2 * MaxLength < Width - 1
BY FramingAssumption DEF MaxLength

(* Whatever a header looks like, it announces a length that an int32_t can *)
(* say, or one that is negative. *)
LEMMA AnnouncedType ==
    ASSUME NEW hdr \in Seq(Units), hdr # <<>>, NEW len \in Announced(hdr)
    PROVE  len \in -1..MaxLength
<1>1. hdr[1] \in Units
  <2>1. 1 \in 1..Len(hdr)
    BY EmptySeq, LenProperties
  <2>. QED  BY <2>1
<1>2. hdr[1].body \in 1..MaxBody
  BY <1>1 DEF Units
<1>3. CASE IsHeader(hdr)
  BY <1>2, <1>3, WidthFacts DEF Announced
<1>4. CASE ~IsHeader(hdr) /\ Len(hdr) < HeaderLen /\ hdr[1].pos = 1
  BY <1>2, <1>4, WidthFacts DEF Announced
<1>5. CASE ~IsHeader(hdr) /\ ~(Len(hdr) < HeaderLen /\ hdr[1].pos = 1)
  BY <1>5 DEF Announced
<1>. QED  BY <1>3, <1>4, <1>5

Messages == [units : Seq(Units \union {Zero}), announced : 1..MaxLength]

(* data_distribution takes out of recv_buf what is in it, or nothing. *)
LEMMA DistributeType ==
    ASSUME TypeOK, expected \in 1..MaxLength,
           NEW m \in 0..Width - 1, NEW buf \in Seq(Units \union {Zero}), Distribute(m, buf)
    PROVE  /\ got' \in Seq(Messages)
           /\ keyed' \in BOOLEAN
           /\ fate' \in {"alive", "died", "overrun"}
<1>. DEFINE U == Units \union {Zero}
<1>1. /\ got \in Seq(Messages) /\ keyed \in BOOLEAN
      /\ fate \in {"alive", "died", "overrun"} /\ Len(buf) \in Nat
  BY LenProperties DEF TypeOK, Messages
<1>2. ASSUME NEW n \in 0..Len(buf), Taken(SubSeq(buf, 1, n))
      PROVE  got' \in Seq(Messages)
  <2>1. SubSeq(buf, 1, n) \in Seq(U)
    BY Parts
  <2>2. [units |-> SubSeq(buf, 1, n), announced |-> expected] \in Messages
    BY <2>1 DEF Messages
  <2>. QED  BY <1>1, <1>2, <2>2, AppendProperties DEF Taken
<1>3. CASE keyed /\ m <= Len(buf) /\ Taken(SubSeq(buf, 1, m)) /\ UNCHANGED <<keyed, fate>>
  <2>1. m \in 0..Len(buf)
    BY <1>1, <1>3, WidthFacts
  <2>. QED  BY <1>1, <1>2, <1>3, <2>1
<1>4. CASE keyed /\ m > Len(buf) /\ fate' = "died" /\ UNCHANGED <<got, keyed>>
  BY <1>1, <1>4
<1>5. CASE /\ ~keyed /\ HoldsBody(buf)
           /\ Taken(SubSeq(buf, 1, buf[1].body))
           /\ keyed' \in BOOLEAN /\ UNCHANGED fate
  <2>1. buf[1].body \in 0..Len(buf)
    BY <1>1, <1>5 DEF HoldsBody
  <2>. QED  BY <1>1, <1>2, <1>5, <2>1
<1>6. CASE ~keyed /\ ~HoldsBody(buf) /\ UNCHANGED <<got, keyed, fate>>
  BY <1>1, <1>6
<1>. QED  BY <1>3, <1>4, <1>5, <1>6 DEF Distribute

(* What TypeOK says of the numbers in the middle of a body. *)
LEMMA BodyNumbers ==
    ASSUME TypeOK, pc = "body"
    PROVE  /\ expected \in 1..MaxLength /\ expected \in Nat
           /\ msg_len \in Nat /\ msg_len < expected
           /\ Len(recv_buf) \in Nat /\ msg_len <= Len(recv_buf) /\ Len(recv_buf) <= BufLen
<1>1. /\ expected \in 0..MaxLength /\ msg_len \in 0..Width - 1 /\ msg_len < expected
      /\ msg_len <= Len(recv_buf) /\ Len(recv_buf) <= BufLen
  BY DEF TypeOK
<1>2. Len(recv_buf) \in Nat
  BY LenProperties DEF TypeOK
<1>. QED  BY <1>1, <1>2, WidthFacts

LEMMA BodyStepType ==
    ASSUME TypeOK, pc = "body",
           NEW m \in 0..Width - 1, NEW buf \in Seq(Units \union {Zero}),
           Len(buf) <= BufLen, m <= Len(buf) \/ m = Width - 1,
           BodyStep(m, buf)
    PROVE  /\ pc' \in {"header", "body"}
           /\ expected' \in 0..MaxLength
           /\ msg_len' \in 0..Width - 1
           /\ recv_buf' \in Seq(Units \union {Zero}) /\ Len(recv_buf') <= BufLen
           /\ pc' = "body" => msg_len' < expected' /\ msg_len' <= Len(recv_buf')
           /\ got' \in Seq(Messages)
           /\ keyed' \in BOOLEAN /\ fate' \in {"alive", "died", "overrun"}
<1>1. expected \in 1..MaxLength
  BY BodyNumbers
<1>2. ~(Width - 1 < expected)
  BY <1>1, WidthFacts
<1>3. msg_len' = m /\ recv_buf' = buf /\ expected' = expected
  BY DEF BodyStep
<1>4. CASE m < expected /\ UNCHANGED <<pc, got, keyed, fate>>
  <2>1. m <= Len(buf)
    BY <1>2, <1>4
  <2>. QED  BY <1>1, <1>3, <1>4, <2>1 DEF TypeOK, Messages
<1>5. CASE pc' = "header" /\ Distribute(m, buf)
  <2>1. /\ got' \in Seq(Messages)
        /\ keyed' \in BOOLEAN /\ fate' \in {"alive", "died", "overrun"}
    BY <1>1, <1>5, DistributeType
  <2>. QED  BY <1>1, <1>3, <1>5, <2>1
<1>. QED  BY <1>4, <1>5 DEF BodyStep, Incomplete

LEMMA ReadBodyFacts ==
    ASSUME TypeOK, NEW k, ReadBody(k)
    PROVE  /\ (msg_len + k) % Width = msg_len + k
           /\ msg_len + k \in 0..Width - 1
           /\ SubSeq(recv_buf, 1, msg_len) \o SubSeq(stream, 1, k) \in Seq(Units \union {Zero})
           /\ Len(SubSeq(recv_buf, 1, msg_len) \o SubSeq(stream, 1, k)) = msg_len + k
           /\ \A i \in 1..msg_len + k :
                 (SubSeq(recv_buf, 1, msg_len) \o SubSeq(stream, 1, k))[i]
                     = IF i <= msg_len THEN recv_buf[i] ELSE stream[i - msg_len]
<1>. DEFINE U == Units \union {Zero}
            old == SubSeq(recv_buf, 1, msg_len)
            new == SubSeq(stream, 1, k)
<1>1. k \in Nat /\ 1 <= k /\ k <= expected
  <2>1. k \in 1..expected /\ expected \in Nat
    BY BodyNumbers DEF ReadBody, Received
  <2>. QED  BY <2>1
<1>2. /\ msg_len \in Nat /\ expected \in Nat
      /\ msg_len \in 0..Len(recv_buf) /\ msg_len < expected /\ expected <= MaxLength
  <2>1. pc = "body"
    BY DEF ReadBody
  <2>2. /\ expected \in 1..MaxLength /\ expected \in Nat
        /\ msg_len \in Nat /\ msg_len < expected
        /\ Len(recv_buf) \in Nat /\ msg_len <= Len(recv_buf)
    BY <2>1, BodyNumbers
  <2>. QED  BY <2>2, WidthFacts
<1>3. old \in Seq(U) /\ Len(old) = msg_len /\ \A i \in 1..msg_len : old[i] = recv_buf[i]
  <2>1. recv_buf \in Seq(U)
    BY DEF TypeOK
  <2>. QED  BY <1>2, <2>1, Parts
<1>4. new \in Seq(U) /\ Len(new) = k /\ \A i \in 1..k : new[i] = stream[i]
  <2>1. new \in Seq(Units) /\ Len(new) = k /\ \A i \in 1..k : new[i] = stream[i]
    BY ReceivedType DEF ReadBody
  <2>. QED  BY <2>1, SeqMonotonic
<1>5. msg_len + k < 2 * MaxLength /\ msg_len \in Nat /\ expected \in Nat
  BY <1>1, <1>2, WidthFacts
<1>6. msg_len + k \in 0..Width - 1 /\ (msg_len + k) % Width = msg_len + k
  BY <1>1, <1>5, WidthFacts
<1>. HIDE DEF old, new
<1>7. /\ old \o new \in Seq(U)
      /\ Len(old \o new) = msg_len + k
      /\ \A i \in 1..msg_len + k : (old \o new)[i] = IF i <= msg_len THEN old[i] ELSE new[i - msg_len]
  BY <1>3, <1>4, ConcatProperties
<1>8. \A i \in 1..msg_len + k : (old \o new)[i] = IF i <= msg_len THEN recv_buf[i] ELSE stream[i - msg_len]
  <2>. TAKE i \in 1..msg_len + k
  <2>1. CASE i <= msg_len
    BY <1>1, <1>3, <1>5, <1>7, <2>1
  <2>2. CASE ~(i <= msg_len)
    <3>1. i - msg_len \in 1..k
      BY <1>1, <1>5, <2>2
    <3>. QED  BY <1>4, <1>7, <2>2, <3>1
  <2>. QED  BY <2>1, <2>2
<1>. QED  BY <1>5, <1>6, <1>7, <1>8 DEF old, new

LEMMA TypeStep ==
    ASSUME TypeOK, [Next]_vars
    PROVE  TypeOK'
<1>1. ASSUME NEW k \in 1..HeaderLen, ReadHeader(k) PROVE TypeOK'
  <2>1. stream' \in Seq(Units) /\ SubSeq(stream, 1, k) \in Seq(Units)
        /\ SubSeq(stream, 1, k) # <<>>
    <3>1. /\ Len(SubSeq(stream, 1, k)) = k /\ 1 <= k
          /\ stream' \in Seq(Units) /\ SubSeq(stream, 1, k) \in Seq(Units)
      BY <1>1, ReceivedType DEF ReadHeader
    <3>2. Len(SubSeq(stream, 1, k)) # 0 /\ Len(<<>>) = 0
      BY <3>1, EmptySeq
    <3>3. SubSeq(stream, 1, k) # <<>>
      BY <3>2
    <3>. QED  BY <3>1, <3>3
  <2>2. PICK len \in Announced(SubSeq(stream, 1, k)) :
           /\ pc' = IF len > 0 THEN "body" ELSE "header"
           /\ expected' = (IF len > 0 THEN len ELSE 0)
    BY <1>1 DEF ReadHeader
  <2>3. len \in -1..MaxLength
    BY <2>1, AnnouncedType
  <2>4. /\ expected' \in 0..MaxLength /\ pc' \in {"header", "body"}
        /\ pc' = "body" => 0 < expected'
    BY <2>2, <2>3, WidthFacts
  <2>5. msg_len' = 0 /\ recv_buf' = <<>> /\ got' = got /\ keyed' = keyed /\ fate' = fate
    BY <1>1 DEF ReadHeader
  <2>6. recv_buf' \in Seq(Units \union {Zero}) /\ Len(recv_buf') = 0
    BY <2>5, EmptySeq
  <2>7. /\ fd' = fd /\ sent' = sent /\ conns' = conns /\ fresh' = fresh
        /\ odd' \in {odd, odd \union {"short header"}}
    BY <1>1 DEF ReadHeader, Received
  <2>8. 0 <= BufLen /\ 0 \in 0..Width - 1
    BY WidthFacts
  <2>9. /\ msg_len' \in 0..Width - 1
        /\ Len(recv_buf') <= BufLen
        /\ pc' = "body" => msg_len' < expected' /\ msg_len' <= Len(recv_buf')
    BY <2>4, <2>5, <2>6, <2>8
  <2>10. /\ got' \in Seq([units : Seq(Units \union {Zero}), announced : 1..MaxLength])
         /\ keyed' \in BOOLEAN /\ fate' \in {"alive", "died", "overrun"}
         /\ sent' \in Seq(1..MaxBody) /\ Len(sent') <= MaxFrames
         /\ fd' \in {"open", "eof", "reset", "closed"}
         /\ conns' \in 1..MaxConnections /\ fresh' \in BOOLEAN
         /\ fd' = "closed" => conns' < MaxConnections
         /\ odd' \subseteq {"short header", "short body", "crowded", "mid body", "cleared"}
    BY <2>5, <2>7 DEF TypeOK
  <2>. QED  BY <2>1, <2>4, <2>6, <2>9, <2>10 DEF TypeOK
<1>2. ASSUME NEW k \in 1..MaxLength, ReadBody(k) PROVE TypeOK'
  <2>. DEFINE m == (msg_len + k) % Width
              buf == SubSeq(recv_buf, 1, msg_len) \o SubSeq(stream, 1, k)
  <2>1. stream' \in Seq(Units)
    BY <1>2, ReceivedType DEF ReadBody
  <2>2. /\ pc = "body"
        /\ fd' = fd /\ sent' = sent /\ conns' = conns /\ fresh' = fresh
        /\ odd' \in {odd, odd \union {"short body"}}
    BY <1>2 DEF ReadBody, Received
  <2>3. CASE /\ fate' = "overrun"
             /\ UNCHANGED <<pc, expected, msg_len, recv_buf, got, keyed>>
    BY <2>1, <2>2, <2>3 DEF TypeOK
  <2>4. CASE ~(msg_len + k > BufLen) /\ BodyStep(m, buf)
    <3>1. /\ m \in 0..Width - 1 /\ buf \in Seq(Units \union {Zero}) /\ Len(buf) = m
          /\ m = msg_len + k
      BY <1>2, ReadBodyFacts
    <3>2. m <= Len(buf) /\ Len(buf) <= BufLen
      BY <2>4, <3>1, WidthFacts
    <3>3. BodyStep(m, buf)
      BY <2>4
    <3>. HIDE DEF m, buf
    <3>4. /\ pc' \in {"header", "body"}
          /\ expected' \in 0..MaxLength
          /\ msg_len' \in 0..Width - 1
          /\ recv_buf' \in Seq(Units \union {Zero}) /\ Len(recv_buf') <= BufLen
          /\ pc' = "body" => msg_len' < expected' /\ msg_len' <= Len(recv_buf')
          /\ got' \in Seq(Messages)
          /\ keyed' \in BOOLEAN /\ fate' \in {"alive", "died", "overrun"}
      BY <2>2, <3>1, <3>2, <3>3, BodyStepType
    <3>. QED  BY <2>1, <2>2, <3>4 DEF TypeOK, Messages
  <2>. QED  BY <1>2, <2>3, <2>4 DEF ReadBody
<1>3. ASSUME BodyFails PROVE TypeOK'
  <2>1. /\ pc = "body" /\ BodyStep((msg_len - 1) % Width, recv_buf)
        /\ fd' \in {"eof", fd}
        /\ UNCHANGED <<stream, sent, conns, fresh, odd>>
    BY <1>3 DEF BodyFails
  <2>2. /\ (msg_len - 1) % Width \in 0..Width - 1
        /\ (msg_len - 1) % Width <= Len(recv_buf) \/ (msg_len - 1) % Width = Width - 1
    <3>1. msg_len \in Nat /\ Len(recv_buf) \in Nat /\ msg_len <= Len(recv_buf) /\ msg_len < Width
      BY <2>1, BodyNumbers, WidthFacts
    <3>2. CASE msg_len = 0
      <4>1. (msg_len - 1) % Width = Width - 1
        BY <3>2, WidthFacts
      <4>. QED  BY <4>1, WidthFacts
    <3>3. CASE msg_len # 0
      <4>1. (msg_len - 1) % Width = msg_len - 1
        BY <3>1, <3>3, WidthFacts
      <4>. QED  BY <3>1, <3>3, <4>1, WidthFacts
    <3>. QED  BY <3>2, <3>3
  <2>3. recv_buf \in Seq(Units \union {Zero}) /\ Len(recv_buf) <= BufLen
    BY DEF TypeOK
  <2>4. /\ pc' \in {"header", "body"}
        /\ expected' \in 0..MaxLength
        /\ msg_len' \in 0..Width - 1
        /\ recv_buf' \in Seq(Units \union {Zero}) /\ Len(recv_buf') <= BufLen
        /\ pc' = "body" => msg_len' < expected' /\ msg_len' <= Len(recv_buf')
        /\ got' \in Seq(Messages)
        /\ keyed' \in BOOLEAN /\ fate' \in {"alive", "died", "overrun"}
    BY <2>1, <2>2, <2>3, BodyStepType
  <2>. QED  BY <2>1, <2>4 DEF TypeOK, Messages
<1>4. ASSUME NEW len \in 1..MaxBody, Send(len) PROVE TypeOK'
  <2>1. Len(sent) \in Nat /\ Len(sent) + 1 \in 1..MaxFrames
    <3>1. Len(sent) \in Nat /\ Len(sent) < MaxFrames
      BY <1>4, LenProperties DEF Send, TypeOK
    <3>. QED  BY <3>1, FramingAssumption
  <2>2. stream' \in Seq(Units)
    BY <1>4, <2>1, FrameUnits, ConcatProperties DEF Send, TypeOK
  <2>3. sent' \in Seq(1..MaxBody) /\ Len(sent') <= MaxFrames
    <3>1. sent' = Append(sent, len)
      BY <1>4 DEF Send
    <3>2. sent \in Seq(1..MaxBody)
      BY DEF TypeOK
    <3>3. /\ Append(sent, len) \in Seq(1..MaxBody)
          /\ Len(Append(sent, len)) = Len(sent) + 1
      BY <3>2, AppendProperties
    <3>. QED  BY <2>1, <3>1, <3>3, FramingAssumption
  <2>. QED  BY <1>4, <2>2, <2>3 DEF Send, TypeOK, thread
<1>5. ASSUME NEW k \in 0..Len(stream), HangUp(k) PROVE TypeOK'
  <2>1. stream' \in Seq(Units)
    BY <1>5, Parts DEF HangUp, TypeOK
  <2>. QED  BY <1>5, <2>1 DEF HangUp, TypeOK, thread
<1>6. ASSUME Reset \/ Close PROVE TypeOK'
  BY <1>6, EmptySeq DEF Reset, Close, TypeOK, thread
<1>7. ASSUME Reconnect PROVE TypeOK'
  <2>1. conns' \in 1..MaxConnections
    <3>1. conns \in 1..MaxConnections /\ conns < MaxConnections /\ conns' = conns + 1
      BY <1>7 DEF Reconnect, TypeOK
    <3>. QED  BY <3>1, FramingAssumption
  <2>2. sent' \in Seq(1..MaxBody) /\ Len(sent') <= MaxFrames
    <3>1. sent' = <<>>
      BY <1>7 DEF Reconnect
    <3>2. Len(<<>>) = 0 /\ 0 <= MaxFrames
      BY EmptySeq, FramingAssumption
    <3>. QED  BY <3>1, <3>2, EmptySeq
  <2>. QED  BY <1>7, <2>1, <2>2, EmptySeq DEF Reconnect, TypeOK
<1>8. ASSUME ClearBuffer PROVE TypeOK'
  <2>1. Len(recv_buf) \in Nat
    BY LenProperties DEF TypeOK
  <2>2. recv_buf' \in Seq(Units \union {Zero}) /\ Len(recv_buf') = Len(recv_buf)
    BY <1>8, <2>1 DEF ClearBuffer
  <2>. QED  BY <1>8, <2>2 DEF ClearBuffer, TypeOK
<1>9. CASE UNCHANGED vars
  BY <1>9 DEF TypeOK, vars, thread, socket
<1>. QED
  BY <1>1, <1>2, <1>3, <1>4, <1>5, <1>6, <1>7, <1>8, <1>9 DEF Next, RecvThread

-----------------------------------------------------------------------------
(* The places of the frames. *)

LEMMA Places ==
    ASSUME TypeOK, NEW off, Offsets(off)
    PROVE  /\ Len(sent) \in Nat /\ Len(stream) \in Nat
           /\ \A f \in 1..Len(sent) + 1 : off[f] \in Int
           /\ \A f \in 1..Len(sent) : sent[f] \in 1..MaxBody /\ sent[f] \in Nat
           /\ \A f \in 1..Len(sent) : f + 1 \in 1..Len(sent) + 1 /\ f \in 1..Len(sent) + 1
<1>1. Len(sent) \in Nat /\ Len(stream) \in Nat /\ \A f \in 1..Len(sent) : sent[f] \in 1..MaxBody
  BY LenProperties DEF TypeOK
<1>2. \A f \in 1..Len(sent) + 1 : off[f] \in Int
  BY DEF Offsets
<1>. QED  BY <1>1, <1>2, FramingAssumption

(* Reading k units moves every frame k places forward. *)
LEMMA Shift ==
    ASSUME TypeOK, NEW off, Offsets(off), NEW asked, NEW k, Received(asked, k),
           NEW moved, moved = [f \in 1..Len(sent) + 1 |-> off[f] - k]
    PROVE  Offsets(moved)'
<1>1. /\ k \in Nat /\ 1 <= k /\ k <= Len(stream)
      /\ Len(stream') = Len(stream) - k
      /\ \A i \in 1..Len(stream') : stream'[i] = stream[i + k]
  BY ReceivedType
<1>2. sent' = sent /\ fd' = fd
  BY DEF Received
<1>3. /\ Len(sent) \in Nat /\ Len(stream) \in Nat
      /\ \A f \in 1..Len(sent) + 1 : off[f] \in Int
      /\ \A f \in 1..Len(sent) : sent[f] \in 1..MaxBody /\ sent[f] \in Nat
      /\ \A f \in 1..Len(sent) : f + 1 \in 1..Len(sent) + 1 /\ f \in 1..Len(sent) + 1
  BY Places
<1>4. moved \in [1..Len(sent) + 1 -> Int] /\ \A f \in 1..Len(sent) + 1 : moved[f] = off[f] - k
  BY <1>1, <1>3
<1>5. \A f, h \in 1..Len(sent) + 1 : f < h => moved[f] < moved[h]
  <2>1. \A f, h \in 1..Len(sent) + 1 : f < h => off[f] < off[h]
    BY DEF Offsets
  <2>. QED  BY <1>1, <1>3, <1>4, <2>1
<1>6. \A f \in 1..Len(sent) : moved[f + 1] = moved[f] + HeaderLen + sent[f]
  <2>1. \A f \in 1..Len(sent) : off[f + 1] = off[f] + HeaderLen + sent[f]
    BY DEF Offsets
  <2>. TAKE f \in 1..Len(sent)
  <2>2. /\ moved[f] = off[f] - k /\ moved[f + 1] = off[f + 1] - k
        /\ off[f] \in Int /\ off[f + 1] \in Int /\ sent[f] \in Nat
    BY <1>3, <1>4
  <2>3. off[f + 1] = off[f] + HeaderLen + sent[f]
    BY <2>1
  <2>4. k \in Nat /\ HeaderLen \in Nat
    BY <1>1, FramingAssumption
  <2>. QED  BY <2>2, <2>3, <2>4
<1>7. /\ Len(stream') < moved[Len(sent) + 1]
      /\ fd = "open" => Len(stream') + 1 = moved[Len(sent) + 1]
  <2>1. /\ Len(stream) < off[Len(sent) + 1]
        /\ fd = "open" => Len(stream) + 1 = off[Len(sent) + 1]
    BY DEF Offsets
  <2>2. Len(sent) + 1 \in 1..Len(sent) + 1
    BY <1>3
  <2>. QED  BY <1>1, <1>3, <1>4, <2>1, <2>2
<1>8. \A f \in 1..Len(sent) : \A i \in 1..Len(stream') :
         moved[f] <= i /\ i < moved[f + 1]
             => stream'[i] = [frame |-> f, pos |-> i - moved[f] + 1, body |-> sent[f]]
  <2>. SUFFICES ASSUME NEW f \in 1..Len(sent), NEW i \in 1..Len(stream'),
                       moved[f] <= i, i < moved[f + 1]
                PROVE  stream'[i] = [frame |-> f, pos |-> i - moved[f] + 1, body |-> sent[f]]
    OBVIOUS
  <2>1. /\ moved[f] = off[f] - k /\ moved[f + 1] = off[f + 1] - k
        /\ off[f] \in Int /\ off[f + 1] \in Int
    BY <1>3, <1>4
  <2>2. /\ i + k \in 1..Len(stream) /\ off[f] <= i + k /\ i + k < off[f + 1]
        /\ (i + k) - off[f] + 1 = i - moved[f] + 1
    BY <1>1, <1>3, <2>1
  <2>3. stream[i + k] = [frame |-> f, pos |-> (i + k) - off[f] + 1, body |-> sent[f]]
    BY <2>2 DEF Offsets
  <2>. QED  BY <1>1, <2>2, <2>3
<1>9. /\ moved \in [1..Len(sent') + 1 -> Int]
      /\ \A f, h \in 1..Len(sent') + 1 : f < h => moved[f] < moved[h]
  BY <1>2, <1>4, <1>5
<1>10. \A f \in 1..Len(sent') : moved[f + 1] = moved[f] + HeaderLen + sent'[f]
  BY <1>2, <1>6
<1>11. /\ Len(stream') < moved[Len(sent') + 1]
       /\ fd' = "open" => Len(stream') + 1 = moved[Len(sent') + 1]
  BY <1>2, <1>7
<1>12. \A f \in 1..Len(sent') : \A i \in 1..Len(stream') :
          moved[f] <= i /\ i < moved[f + 1]
              => stream'[i] = [frame |-> f, pos |-> i - moved[f] + 1, body |-> sent'[f]]
  BY <1>2, <1>8
<1>. QED  BY <1>9, <1>10, <1>11, <1>12 DEF Offsets

-----------------------------------------------------------------------------
(* The handlers' messages are the bodies sent: one lemma per action. *)

(* GotOK only depends on got and sent. *)
LEMMA GotKept ==
    ASSUME GotOK, UNCHANGED <<got, sent>>
    PROVE  GotOK'
<1>1. got' = got /\ sent' = sent
  OBVIOUS
<1>2. /\ Len(got') <= Len(sent')
      /\ \A i \in 1..Len(got') : got'[i].units = BodyOf(i, sent'[i])
  BY <1>1 DEF GotOK
<1>. QED  BY <1>2 DEF GotOK

LEMMA HeaderRead ==
    ASSUME FrameInv, Benign, Benign', NEW k \in 1..HeaderLen, ReadHeader(k)
    PROVE  Core'
<1>. DEFINE g == Len(got)
            hdr == SubSeq(stream, 1, k)
<1>1. TypeOK /\ Core
  BY DEF FrameInv
<1>2. /\ pc = "header" /\ Received(HeaderLen, k) /\ fate = "alive"
      /\ odd' = IF k < HeaderLen THEN odd \union {"short header"} ELSE odd
      /\ msg_len' = 0 /\ recv_buf' = <<>> /\ got' = got
  BY DEF ReadHeader, Received
<1>3. k = HeaderLen /\ k \in Nat
  <2>1. "short header" \notin odd'
    BY DEF Benign
  <2>2. ~(k < HeaderLen)
    BY <1>2, <2>1
  <2>. QED  BY <2>2, FramingAssumption
<1>4. odd' = odd
  <2>1. ~(k < HeaderLen)
    BY <1>3
  <2>. QED  BY <1>2, <2>1
<1>5. /\ 1 <= k /\ k <= Len(stream) /\ Len(stream) \in Nat
      /\ hdr \in Seq(Units) /\ Len(hdr) = k
      /\ \A i \in 1..k : hdr[i] = stream[i]
  BY <1>1, <1>2, ReceivedType
<1>6. stream # <<>>
  BY <1>3, <1>5, EmptySeq
<1>7. PICK off : Offsets(off) /\ Reader(off)
  BY <1>1, <1>2, <1>6 DEF Core
<1>8. /\ Len(sent) \in Nat
      /\ \A f \in 1..Len(sent) + 1 : off[f] \in Int
      /\ \A f \in 1..Len(sent) : sent[f] \in 1..MaxBody /\ sent[f] \in Nat
      /\ \A f \in 1..Len(sent) : f + 1 \in 1..Len(sent) + 1 /\ f \in 1..Len(sent) + 1
  BY <1>1, <1>7, Places
<1>9. g \in Nat /\ g <= Len(sent) /\ off[g + 1] = 1
  BY <1>1, <1>2, <1>7, LenProperties DEF TypeOK, Core, GotOK, Reader
<1>10. g < Len(sent)
  <2>1. Len(stream) < off[Len(sent) + 1]
    BY <1>7 DEF Offsets
  <2>2. g # Len(sent)
    BY <1>3, <1>5, <1>9, <2>1
  <2>. QED  BY <1>8, <1>9, <2>2
<1>11. g + 1 \in 1..Len(sent)
  BY <1>8, <1>9, <1>10
<1>. DEFINE body == sent[g + 1]
<1>12. body \in 1..MaxBody /\ body \in Nat /\ 0 < body
  BY <1>8, <1>11, FramingAssumption
<1>13. off[g + 1 + 1] = 1 + HeaderLen + body
  BY <1>7, <1>9, <1>11 DEF Offsets
<1>14. \A i \in 1..k : stream[i] = [frame |-> g + 1, pos |-> i, body |-> body]
  <2>. TAKE i \in 1..k
  <2>1. i \in 1..Len(stream) /\ 1 <= i /\ i < 1 + HeaderLen + body /\ i - 1 + 1 = i
    BY <1>3, <1>5, <1>12
  <2>2. off[g + 1] <= i /\ i < off[g + 1 + 1]
    BY <1>9, <1>13, <2>1
  <2>3. stream[i] = [frame |-> g + 1, pos |-> i - off[g + 1] + 1, body |-> body]
    BY <1>7, <1>11, <2>1, <2>2 DEF Offsets
  <2>. QED  BY <1>9, <2>1, <2>3
<1>15. Announced(hdr) = {body}
  <2>1. \A i \in 1..k : hdr[i] = [frame |-> g + 1, pos |-> i, body |-> body]
    BY <1>5, <1>14
  <2>2. 1 \in 1..k
    BY <1>3, <1>5
  <2>. HIDE DEF hdr, body
  <2>3. \A i \in 1..k : hdr[i].pos = i /\ hdr[i].frame = hdr[1].frame
    <3>. HIDE DEF g
    <3>. DEFINE Unit(i) == [frame |-> g + 1, pos |-> i, body |-> body]
    <3>1. \A i : Unit(i).frame = g + 1 /\ Unit(i).pos = i
      OBVIOUS
    <3>2. \A i \in 1..k : hdr[i] = Unit(i)
      BY <2>1
    <3>. HIDE DEF Unit
    <3>. QED  BY <2>2, <3>1, <3>2
  <2>4. IsHeader(hdr) /\ hdr[1].body = body
    BY <1>3, <1>5, <2>1, <2>2, <2>3 DEF IsHeader
  <2>. QED  BY <1>3, <1>5, <2>4 DEF Announced
<1>16. pc' = "body" /\ expected' = body
  <2>1. \E len \in Announced(hdr) :
           /\ pc' = IF len > 0 THEN "body" ELSE "header"
           /\ expected' = (IF len > 0 THEN len ELSE 0)
    BY DEF ReadHeader
  <2>. HIDE DEF hdr, body
  <2>. QED  BY <1>12, <1>15, <2>1
<1>17. PICK moved : moved = [f \in 1..Len(sent) + 1 |-> off[f] - k]
  OBVIOUS
<1>18. Offsets(moved)'
  BY <1>1, <1>2, <1>7, <1>17, Shift
<1>19. moved[g + 1] = 1 - HeaderLen - 0
  <2>1. moved[g + 1] = off[g + 1] - k
    BY <1>8, <1>11, <1>17
  <2>. QED  BY <1>3, <1>9, <2>1
<1>20. sent' = sent
  BY <1>2 DEF Received
<1>21. Reader(moved)'
  <2>1. "crowded" \notin odd => Len(sent) <= g + 1
    BY <1>7 DEF Reader
  <2>2. /\ Len(got') = g /\ Len(sent') = Len(sent) /\ sent'[g + 1] = body
        /\ odd' = odd /\ msg_len' = 0 /\ pc' = "body" /\ expected' = body
    BY <1>2, <1>4, <1>16, <1>20
  <2>. HIDE DEF g, body
  <2>3. /\ Len(got') < Len(sent')
        /\ moved[Len(got') + 1] = 1 - HeaderLen - msg_len'
        /\ expected' = sent'[Len(got') + 1]
    BY <1>10, <1>19, <2>2
  <2>4. 1..msg_len' = {} /\ ~(msg_len' > 0)
    BY <2>2
  <2>5. "crowded" \notin odd' => Len(sent') <= Len(got') + 1
    BY <2>1, <2>2
  <2>. QED  BY <2>2, <2>3, <2>4, <2>5 DEF Reader
<1>22. GotOK'
  BY <1>1, <1>2, <1>20, GotKept DEF Core
<1>. QED  BY <1>18, <1>21, <1>22 DEF Core

(* What is not a call of recv leaves a body in pieces as it is, or zeroes it. *)
LEMMA PartialKept ==
    ASSUME FrameInv, Benign, Benign',
           \/ \E k \in 1..HeaderLen : ReadHeader(k)
           \/ \E len \in 1..MaxBody : Send(len)
           \/ \E k \in 0..Len(stream) : HangUp(k)
           \/ Reset \/ Close \/ ClearBuffer \/ UNCHANGED vars
    PROVE  Partial' /\ fate' = fate
<1>1. Partial /\ TypeOK
  BY DEF FrameInv
<1>2. ASSUME NEW k \in 1..HeaderLen, ReadHeader(k) PROVE Partial' /\ fate' = fate
  <2>1. recv_buf' = <<>> /\ fate' = fate /\ msg_len' = 0
    BY <1>2 DEF ReadHeader
  <2>2. pc' = "body" => 0 < expected'
    <3>1. TypeOK'
      BY <1>1, <1>2, TypeStep DEF Next, RecvThread
    <3>. QED  BY <2>1, <3>1 DEF TypeOK
  <2>3. Len(recv_buf') = 0 /\ 1..0 = {}
    BY <2>1, EmptySeq
  <2>. QED  BY <2>1, <2>2, <2>3 DEF Partial
<1>3. CASE \/ \E len \in 1..MaxBody : Send(len)
           \/ \E k \in 0..Len(stream) : HangUp(k)
           \/ Reset \/ Close \/ UNCHANGED vars
  <2>1. UNCHANGED thread
    BY <1>3 DEF Send, HangUp, Reset, Close, vars
  <2>. QED  BY <1>1, <2>1 DEF thread, Partial
<1>4. CASE ClearBuffer
  <2>1. /\ pc' = pc /\ expected' = expected /\ fate' = fate
        /\ recv_buf' = [i \in 1..Len(recv_buf) |-> Zero]
    BY <1>4 DEF ClearBuffer
  <2>2. Len(recv_buf) \in Nat
    BY <1>1, LenProperties DEF TypeOK
  <2>3. Len(recv_buf') = Len(recv_buf) /\ \A i \in 1..Len(recv_buf) : recv_buf'[i] = Zero
    BY <2>1, <2>2
  <2>4. Zero.body = 0
    BY DEF Zero
  <2>. QED  BY <1>1, <2>1, <2>3, <2>4 DEF Partial
<1>. QED  BY <1>2, <1>3, <1>4

(* Where a reader in a body stands: what it reads next never belongs to *)
(* another frame, and fits what it has. *)
LEMMA BodyPlaces ==
    ASSUME FrameInv, Benign, NEW k, ReadBody(k), NEW off, Offsets(off), Reader(off)
    PROVE  /\ Len(got) \in Nat /\ Len(got) + 1 \in 1..Len(sent)
           /\ msg_len \in Nat /\ k \in Nat /\ 1 <= k
           /\ expected \in 1..MaxBody /\ expected \in Nat /\ expected = sent[Len(got) + 1]
           /\ off[Len(got) + 1] = 1 - HeaderLen - msg_len
           /\ off[Len(got) + 1 + 1] = 1 - msg_len + expected
           /\ msg_len + k <= expected
           /\ \A i \in 1..k : stream[i] = [frame |-> Len(got) + 1,
                                          pos |-> HeaderLen + (msg_len + i), body |-> expected]
<1>. DEFINE g == Len(got)
<1>1. TypeOK /\ pc = "body" /\ Received(expected, k)
  BY DEF FrameInv, ReadBody
<1>2. /\ expected \in Nat
      /\ msg_len \in Nat /\ msg_len < expected
  BY <1>1, BodyNumbers
<1>3. k \in Nat /\ 1 <= k /\ k <= Len(stream) /\ Len(stream) \in Nat /\ k <= expected
  <2>1. k \in 1..expected
    BY <1>1 DEF Received
  <2>2. k \in Nat /\ 1 <= k /\ k <= Len(stream) /\ Len(stream) \in Nat
    BY <1>1, ReceivedType
  <2>. QED  BY <1>2, <2>1, <2>2
<1>4. /\ g < Len(sent)
      /\ off[g + 1] = 1 - HeaderLen - msg_len
      /\ expected = sent[g + 1]
      /\ msg_len > 0 => "short body" \in odd
      /\ "crowded" \notin odd => Len(sent) <= g + 1
  BY <1>1 DEF Reader
<1>5. g \in Nat /\ Len(sent) \in Nat /\ HeaderLen \in Nat
  BY <1>1, LenProperties, FramingAssumption DEF TypeOK
<1>6. g + 1 \in 1..Len(sent) /\ HeaderLen \in Nat
  <2>1. g < Len(sent)
    BY <1>4
  <2>. QED  BY <1>5, <2>1
<1>7. off[g + 1 + 1] = 1 - msg_len + expected
  <2>1. off[g + 1 + 1] = off[g + 1] + HeaderLen + sent[g + 1]
    BY <1>6 DEF Offsets
  <2>2. off[g + 1 + 1] = (1 - HeaderLen - msg_len) + HeaderLen + expected
    BY <1>4, <2>1
  <2>. QED  BY <1>2, <1>5, <2>2
<1>8. msg_len + k <= expected
  <2>1. CASE msg_len = 0
    BY <1>2, <1>3, <2>1
  <2>2. CASE msg_len # 0
    <3>1. msg_len > 0
      BY <1>2, <2>2
    <3>2. "crowded" \notin odd
      BY <1>4, <3>1 DEF Benign
    <3>3. g < Len(sent) /\ Len(sent) <= g + 1
      BY <1>4, <3>2
    <3>4. Len(sent) + 1 = g + 1 + 1
      BY <1>5, <3>3
    <3>5. Len(stream) < off[g + 1 + 1]
      BY <3>4 DEF Offsets
    <3>. QED  BY <1>2, <1>3, <1>7, <3>5
  <2>. QED  BY <2>1, <2>2
<1>9. \A i \in 1..k : stream[i] = [frame |-> g + 1,
                                   pos |-> HeaderLen + (msg_len + i), body |-> expected]
  <2>. TAKE i \in 1..k
  <2>1. /\ i \in 1..Len(stream)
        /\ 1 - HeaderLen - msg_len <= i /\ i < 1 - msg_len + expected
        /\ i - (1 - HeaderLen - msg_len) + 1 = HeaderLen + (msg_len + i)
    BY <1>2, <1>3, <1>6, <1>8
  <2>2. off[g + 1] <= i /\ i < off[g + 1 + 1]
    BY <1>4, <1>7, <2>1
  <2>3. stream[i] = [frame |-> g + 1, pos |-> i - off[g + 1] + 1, body |-> sent[g + 1]]
    BY <1>6, <2>1, <2>2 DEF Offsets
  <2>. QED  BY <1>4, <2>1, <2>3
<1>10. expected \in 1..MaxBody
  BY <1>1, <1>4, <1>6, Places
<1>. QED  BY <1>2, <1>3, <1>4, <1>5, <1>6, <1>7, <1>8, <1>9, <1>10

LEMMA BodyRead ==
    ASSUME FrameInv, Benign, Benign', NEW k \in 1..MaxLength, ReadBody(k)
    PROVE  /\ Core' /\ Partial'
           /\ MaxBody <= BufLen => fate' # "overrun"
<1>. DEFINE g == Len(got)
            m == msg_len + k
            buf == SubSeq(recv_buf, 1, msg_len) \o SubSeq(stream, 1, k)
            Unit(i) == [frame |-> g + 1, pos |-> HeaderLen + i, body |-> expected]
<1>1. TypeOK /\ Core
  BY DEF FrameInv
<1>2. /\ pc = "body" /\ Received(expected, k) /\ fate = "alive"
      /\ odd' = IF k < expected THEN odd \union {"short body"} ELSE odd
      /\ \/ /\ m > BufLen /\ fate' = "overrun"
            /\ UNCHANGED <<pc, expected, msg_len, recv_buf, got, keyed>>
         \/ ~(m > BufLen) /\ BodyStep((msg_len + k) % Width, buf)
  BY DEF ReadBody, Received
<1>3. /\ (msg_len + k) % Width = m /\ m \in 0..Width - 1
      /\ buf \in Seq(Units \union {Zero}) /\ Len(buf) = m
      /\ \A i \in 1..m : buf[i] = IF i <= msg_len THEN recv_buf[i] ELSE stream[i - msg_len]
  BY <1>1, ReadBodyFacts
<1>4. stream # <<>>
  <2>1. k \in Nat /\ 1 <= k /\ k <= Len(stream)
    BY <1>1, <1>2, ReceivedType
  <2>. QED  BY <2>1, EmptySeq
<1>5. PICK off : Offsets(off) /\ Reader(off)
  BY <1>1, <1>2, <1>4 DEF Core
<1>6. /\ g \in Nat /\ g + 1 \in 1..Len(sent)
      /\ msg_len \in Nat /\ k \in Nat /\ 1 <= k
      /\ expected \in 1..MaxBody /\ expected \in Nat /\ expected = sent[g + 1]
      /\ off[g + 1] = 1 - HeaderLen - msg_len
      /\ off[g + 1 + 1] = 1 - msg_len + expected
      /\ m <= expected
      /\ \A i \in 1..k : stream[i] = Unit(msg_len + i)
  BY <1>5, BodyPlaces
<1>7. \A i \in 1..m : buf[i] = Unit(i)
  <2>1. \A i \in 1..msg_len : recv_buf[i] = Unit(i)
    BY <1>2, <1>5 DEF Reader
  <2>. HIDE DEF Unit, buf
  <2>. TAKE i \in 1..m
  <2>2. CASE i <= msg_len
    <3>1. i \in 1..msg_len
      BY <1>6, <2>2
    <3>2. buf[i] = recv_buf[i]
      BY <1>3, <2>2
    <3>. QED  BY <2>1, <3>1, <3>2
  <2>3. CASE ~(i <= msg_len)
    <3>1. i - msg_len \in 1..k /\ msg_len + (i - msg_len) = i
      BY <1>6, <2>3
    <3>2. stream[i - msg_len] = Unit(msg_len + (i - msg_len))
      BY <1>6, <3>1
    <3>. QED  BY <1>3, <2>3, <3>1, <3>2
  <2>. QED  BY <2>2, <2>3
<1>. HIDE DEF buf, m
<1>9. PICK moved : moved = [f \in 1..Len(sent) + 1 |-> off[f] - k]
  OBVIOUS
<1>10. Offsets(moved)'
  BY <1>1, <1>2, <1>5, <1>9, Shift
<1>11. sent' = sent
  BY <1>2 DEF Received
<1>12. /\ moved[g + 1] = off[g + 1] - k
       /\ moved[g + 1 + 1] = off[g + 1 + 1] - k
  <2>1. g + 1 \in 1..Len(sent) + 1 /\ g + 1 + 1 \in 1..Len(sent) + 1
    BY <1>1, <1>5, <1>6, Places
  <2>. QED  BY <1>9, <2>1
<1>13. "crowded" \notin odd' => Len(sent) <= g + 1
  BY <1>2, <1>5 DEF Reader
<1>14. m \in Nat /\ 0 < m /\ HeaderLen \in Nat
  BY <1>6, FramingAssumption DEF m
<1>8. CASE /\ m > BufLen /\ fate' = "overrun"
           /\ UNCHANGED <<pc, expected, msg_len, recv_buf, got, keyed>>
  <2>1. GotOK'
    BY <1>1, <1>8, <1>11, GotKept DEF Core
  <2>2. Partial'
    BY <1>8 DEF FrameInv, Partial
  <2>3. ~(MaxBody <= BufLen)
    BY <1>6, <1>8, <1>14, WidthFacts
  <2>. QED  BY <1>8, <2>1, <2>2, <2>3 DEF Core
<1>15. CASE BodyStep(m, buf) /\ m < expected
  <2>1. /\ msg_len' = m /\ recv_buf' = buf /\ expected' = expected
        /\ pc' = "body" /\ got' = got /\ fate' = "alive"
    BY <1>2, <1>15 DEF BodyStep, Incomplete
  <2>2. "short body" \in odd'
    <3>1. k < expected
      BY <1>6, <1>15 DEF m
    <3>. QED  BY <1>2, <3>1
  <2>3. moved[g + 1] = 1 - HeaderLen - m
    BY <1>6, <1>12, <1>14 DEF m
  <2>4. Len(got') = g /\ g < Len(sent)
    BY <1>6, <2>1
  <2>5. /\ Len(got') < Len(sent')
        /\ moved[Len(got') + 1] = 1 - HeaderLen - msg_len'
        /\ expected' = sent'[Len(got') + 1]
        /\ "crowded" \notin odd' => Len(sent') <= Len(got') + 1
    BY <1>6, <1>11, <1>13, <2>1, <2>3, <2>4
  <2>6. \A i \in 1..msg_len' :
           recv_buf'[i] = [frame |-> Len(got') + 1, pos |-> HeaderLen + i, body |-> expected']
    BY <1>7, <2>1, <2>4
  <2>7. Reader(moved)'
    BY <2>1, <2>2, <2>5, <2>6 DEF Reader
  <2>8. GotOK'
    BY <1>1, <1>11, <2>1, GotKept DEF Core
  <2>9. Partial'
    <3>1. \A i \in 1..m : buf[i].body = expected
      <4>1. \A i : Unit(i).body = expected
        OBVIOUS
      <4>. HIDE DEF Unit
      <4>. QED  BY <1>7, <4>1
    <3>. QED  BY <1>3, <1>15, <2>1, <3>1 DEF Partial
  <2>. QED  BY <1>10, <2>1, <2>7, <2>8, <2>9 DEF Core
<1>16. CASE BodyStep(m, buf) /\ ~(m < expected)
  <2>. DEFINE message == [units |-> SubSeq(buf, 1, m), announced |-> expected]
  <2>1. m = expected
    BY <1>6, <1>14, <1>16
  <2>4. SubSeq(buf, 1, m) = BodyOf(g + 1, expected)
    <3>1. m \in 0..Len(buf)
      BY <1>3, <1>14
    <3>2. /\ SubSeq(buf, 1, m) \in Seq(Units \union {Zero})
          /\ Len(SubSeq(buf, 1, m)) = m
          /\ \A i \in 1..m : SubSeq(buf, 1, m)[i] = buf[i]
      BY <1>3, <3>1, Parts
    <3>3. g + 1 \in 1..MaxFrames
      <4>1. Len(sent) \in Nat /\ Len(sent) <= MaxFrames
        BY <1>1, LenProperties DEF TypeOK
      <4>. QED  BY <1>6, <4>1, FramingAssumption
    <3>4. /\ BodyOf(g + 1, expected) \in Seq(Units)
          /\ Len(BodyOf(g + 1, expected)) = expected
          /\ \A i \in 1..expected : BodyOf(g + 1, expected)[i] = Unit(i)
      BY <1>6, <3>3, BodyUnits
    <3>5. BodyOf(g + 1, expected) \in Seq(Units \union {Zero})
      BY <3>4, SeqMonotonic
    <3>6. \A i \in 1..m : SubSeq(buf, 1, m)[i] = BodyOf(g + 1, expected)[i]
      <4>. HIDE DEF Unit
      <4>. QED  BY <1>7, <2>1, <3>2, <3>4
    <3>. QED  BY <2>1, <3>2, <3>4, <3>5, <3>6, SeqEqual
  <2>2. /\ pc' = "header" /\ got' = Append(got, message)
        /\ msg_len' = m /\ recv_buf' = buf /\ expected' = expected /\ fate' = "alive"
    <3>1. ~(m > Len(buf)) /\ m <= Len(buf) /\ buf # <<>>
      BY <1>3, <1>14, EmptySeq
    <3>2. buf[1].body = expected /\ buf[1].frame = g + 1
      <4>1. 1 \in 1..m /\ buf[1] = Unit(1)
        BY <1>7, <1>14
      <4>2. Unit(1).body = expected /\ Unit(1).frame = g + 1
        OBVIOUS
      <4>. HIDE DEF Unit
      <4>. QED  BY <4>1, <4>2
    <3>3. expected \in 1..Len(buf)
      BY <1>3, <1>14, <2>1
    <3>4. HoldsBody(buf)
      BY <2>1, <2>4, <3>1, <3>2, <3>3 DEF HoldsBody
    <3>5. Distribute(m, buf) /\ pc' = "header"
      BY <1>16 DEF BodyStep, Incomplete
    <3>6. msg_len' = m /\ recv_buf' = buf /\ expected' = expected
      BY <1>16 DEF BodyStep
    <3>7. Taken(SubSeq(buf, 1, m)) /\ fate' = fate
      BY <2>1, <3>1, <3>2, <3>4, <3>5 DEF Distribute
    <3>. QED  BY <1>2, <3>5, <3>6, <3>7 DEF Taken
  <2>3. /\ Len(got') = g + 1
        /\ \A i \in 1..g : got'[i] = got[i]
        /\ got'[g + 1] = message
    <3>1. got \in Seq([units : Seq(Units \union {Zero}), announced : 1..MaxLength])
      BY <1>1 DEF TypeOK
    <3>2. got' \in Seq([units : Seq(Units \union {Zero}), announced : 1..MaxLength])
      BY <1>1, TypeStep DEF Next, RecvThread, TypeOK
    <3>. HIDE DEF message
    <3>. QED  BY <1>6, <2>2, <3>1, <3>2
  <2>5. GotOK'
    <3>1. Len(got') <= Len(sent')
      BY <1>6, <1>11, <2>3
    <3>2. \A i \in 1..g + 1 : got'[i].units = BodyOf(i, sent[i])
      <4>. TAKE i \in 1..g + 1
      <4>1. CASE i = g + 1
        <5>1. message.units = SubSeq(buf, 1, m)
          OBVIOUS
        <5>. HIDE DEF message
        <5>. QED  BY <1>6, <2>3, <2>4, <4>1, <5>1
      <4>2. CASE i # g + 1
        <5>1. i \in 1..g
          BY <1>6, <4>2
        <5>. QED  BY <1>1, <2>3, <5>1 DEF Core, GotOK
      <4>. QED  BY <4>1, <4>2
    <3>3. \A i \in 1..Len(got') : got'[i].units = BodyOf(i, sent'[i])
      BY <1>11, <2>3, <3>2
    <3>. QED  BY <3>1, <3>3 DEF GotOK
  <2>6. Reader(moved)'
    <3>1. moved[g + 1 + 1] = 1
      BY <1>6, <1>12, <2>1 DEF m
    <3>2. moved[Len(got') + 1] = 1
      BY <2>3, <3>1
    <3>3. "crowded" \notin odd' => Len(sent') <= Len(got') + 1
      BY <1>6, <1>11, <1>13, <2>3
    <3>. QED  BY <2>2, <3>2, <3>3 DEF Reader
  <2>. QED  BY <1>10, <2>2, <2>5, <2>6 DEF Core, Partial
<1>. QED  BY <1>2, <1>3, <1>8, <1>15, <1>16

(* A call that fails hands nothing over: msg_len stays below what was      *)
(* announced, or wraps to more than recv_buf holds; then a node with a key *)
(* dies, and one without has nothing it could parse. *)
LEMMA FailedRead ==
    ASSUME FrameInv, Benign, BodyFails
    PROVE  /\ Core' /\ Partial'
           /\ fate' # "overrun"
<1>. DEFINE m == (msg_len - 1) % Width
<1>1. /\ TypeOK /\ Core /\ Partial /\ pc = "body" /\ stream = <<>> /\ fate = "alive"
      /\ BodyStep(m, recv_buf) /\ sent' = sent
  BY DEF FrameInv, BodyFails
<1>2. /\ expected \in Nat /\ msg_len \in Nat /\ msg_len < expected /\ expected < Width - 1
      /\ Len(recv_buf) \in Nat /\ Len(recv_buf) < Width - 1 /\ Width \in Nat
      /\ Len(recv_buf) < expected
  <2>1. Len(recv_buf) < expected
    BY <1>1 DEF Partial
  <2>. QED  BY <1>1, <2>1, BodyNumbers, WidthFacts
<1>3. m < expected \/ m > Len(recv_buf)
  <2>1. CASE msg_len = 0
    <3>1. m = Width - 1
      BY <2>1, <1>2
    <3>. QED  BY <1>2, <3>1
  <2>2. CASE msg_len # 0
    <3>1. m = msg_len - 1
      BY <1>2, <2>2
    <3>. QED  BY <1>2, <3>1
  <2>. QED  BY <2>1, <2>2
<1>4. ~HoldsBody(recv_buf)
  <2>. SUFFICES ASSUME HoldsBody(recv_buf) PROVE FALSE
    OBVIOUS
  <2>1. recv_buf[1].body \in 1..Len(recv_buf) /\ 1 \in 1..Len(recv_buf)
    BY <1>2 DEF HoldsBody
  <2>2. recv_buf[1].body \in {0, expected}
    BY <1>1, <2>1 DEF Partial
  <2>. QED  BY <1>2, <2>1, <2>2
<1>. HIDE DEF m
<1>5. ~(m <= Len(recv_buf)) \/ m < expected
  <2>1. m \in Int
    BY <1>2 DEF m
  <2>. QED  BY <1>2, <1>3, <2>1
<1>6. /\ got' = got /\ fate' # "overrun"
      /\ recv_buf' = recv_buf /\ expected' = expected
      /\ pc' \in {pc, "header"}
  <2>1. CASE m < expected /\ UNCHANGED <<pc, got, keyed, fate>>
    BY <1>1, <2>1 DEF BodyStep
  <2>2. CASE ~(m < expected) /\ pc' = "header" /\ Distribute(m, recv_buf)
    BY <1>1, <1>4, <1>5, <2>2 DEF BodyStep, Distribute
  <2>. QED  BY <1>1, <2>1, <2>2 DEF BodyStep, Incomplete
<1>7. GotOK'
  BY <1>1, <1>6, GotKept DEF Core
<1>8. fd' # "open" /\ stream' = <<>>
  BY <1>1 DEF BodyFails
<1>9. Partial'
  BY <1>1, <1>6 DEF Partial
<1>. QED  BY <1>6, <1>7, <1>8, <1>9 DEF Core

LEMMA Lost ==
    ASSUME FrameInv, Benign, Reset \/ Close
    PROVE  Core'
<1>1. fd' # "open" /\ stream' = <<>> /\ got' = got /\ sent' = sent
  BY DEF Reset, Close, thread
<1>2. GotOK'
  BY <1>1, GotKept DEF FrameInv, Core
<1>. QED  BY <1>1, <1>2 DEF Core

(* Neither Offsets nor Reader look at what a step like these changes. *)
LEMMA HungUp ==
    ASSUME FrameInv, Benign, NEW k \in 0..Len(stream), HangUp(k)
    PROVE  Core'
<1>1. /\ TypeOK /\ Core /\ fd = "open" /\ fd' = "eof" /\ fate = "alive"
      /\ stream' = SubSeq(stream, 1, k)
      /\ UNCHANGED <<pc, expected, msg_len, recv_buf, got, sent, odd>>
  BY DEF FrameInv, HangUp, thread
<1>2. /\ stream \in Seq(Units) /\ Len(stream) \in Nat
  BY <1>1, LenProperties DEF TypeOK
<1>3. Len(stream') = k /\ \A i \in 1..k : stream'[i] = stream[i] /\ i \in 1..Len(stream)
  BY <1>1, <1>2, Parts
<1>4. PICK off : Offsets(off) /\ Reader(off)
  BY <1>1 DEF Core
<1>5. Offsets(off)'
  <2>1. /\ Len(sent) \in Nat /\ Len(sent) + 1 \in 1..Len(sent) + 1
        /\ off[Len(sent) + 1] \in Int
    BY <1>1, <1>4, Places
  <2>2. Len(stream) < off[Len(sent) + 1]
    BY <1>4 DEF Offsets
  <2>3. k < off[Len(sent) + 1]
    BY <1>2, <2>1, <2>2
  <2>4. \A f \in 1..Len(sent) : \A i \in 1..Len(stream') :
           off[f] <= i /\ i < off[f + 1]
               => stream'[i] = [frame |-> f, pos |-> i - off[f] + 1, body |-> sent[f]]
    BY <1>3, <1>4 DEF Offsets
  <2>5. /\ off \in [1..Len(sent) + 1 -> Int]
        /\ \A f, h \in 1..Len(sent) + 1 : f < h => off[f] < off[h]
        /\ \A f \in 1..Len(sent) : off[f + 1] = off[f] + HeaderLen + sent[f]
    BY <1>4 DEF Offsets
  <2>6. sent' = sent /\ fd' # "open"
    BY <1>1
  <2>7. /\ off \in [1..Len(sent') + 1 -> Int]
        /\ \A f, h \in 1..Len(sent') + 1 : f < h => off[f] < off[h]
    BY <2>5, <2>6
  <2>8. \A f \in 1..Len(sent') : off[f + 1] = off[f] + HeaderLen + sent'[f]
    BY <2>5, <2>6
  <2>9. Len(stream') < off[Len(sent') + 1]
    BY <1>3, <2>3, <2>6
  <2>10. \A f \in 1..Len(sent') : \A i \in 1..Len(stream') :
            off[f] <= i /\ i < off[f + 1]
                => stream'[i] = [frame |-> f, pos |-> i - off[f] + 1, body |-> sent'[f]]
    BY <2>4, <2>6
  <2>. QED  BY <2>6, <2>7, <2>8, <2>9, <2>10 DEF Offsets
<1>6. Reader(off)'
  <2>1. /\ pc' = pc /\ expected' = expected /\ msg_len' = msg_len /\ recv_buf' = recv_buf
        /\ got' = got /\ sent' = sent /\ odd' = odd
    BY <1>1
  <2>2. Reader(off)
    BY <1>4
  <2>. QED  BY <2>1, <2>2 DEF Reader
<1>7. GotOK'
  BY <1>1, GotKept DEF Core
<1>. QED  BY <1>5, <1>6, <1>7 DEF Core

LEMMA Cleared ==
    ASSUME FrameInv, Benign, Benign', ClearBuffer
    PROVE  Core'
<1>1. /\ Core /\ fate = "alive"
      /\ UNCHANGED <<pc, expected, msg_len, got, fd, stream, sent>>
      /\ odd' = IF pc = "body" /\ msg_len > 0 THEN odd \union {"cleared"} ELSE odd
  BY DEF FrameInv, ClearBuffer
<1>2. ~(pc = "body" /\ msg_len > 0)
  BY <1>1 DEF Benign
<1>3. odd' = odd
  BY <1>1, <1>2
<1>4. GotOK'
  BY <1>1, GotKept DEF Core
<1>5. ASSUME NEW off, Offsets(off), Reader(off)
      PROVE  Offsets(off)' /\ Reader(off)'
  <2>1. Offsets(off)'
    <3>1. sent' = sent /\ stream' = stream /\ fd' = fd
      BY <1>1
    <3>. QED  BY <1>5, <3>1 DEF Offsets
  <2>2. pc = "body" => 1..msg_len = {}
    <3>1. pc = "body" => msg_len \in Nat
      BY BodyNumbers DEF FrameInv
    <3>. QED  BY <1>2, <3>1
  <2>3. /\ pc' = pc /\ expected' = expected /\ msg_len' = msg_len
        /\ got' = got /\ sent' = sent
    BY <1>1
  <2>4. pc' = "body" => \A i \in 1..msg_len' :
           recv_buf'[i] = [frame |-> Len(got') + 1, pos |-> HeaderLen + i, body |-> expected']
    BY <2>2, <2>3
  <2>5. /\ pc' = "header" => off[Len(got') + 1] = 1
        /\ pc' = "body" =>
              /\ Len(got') < Len(sent')
              /\ off[Len(got') + 1] = 1 - HeaderLen - msg_len'
              /\ expected' = sent'[Len(got') + 1]
              /\ msg_len' > 0 => "short body" \in odd'
        /\ "crowded" \notin odd' => Len(sent') <= Len(got') + 1
    BY <1>3, <1>5, <2>3 DEF Reader
  <2>. QED  BY <2>1, <2>4, <2>5 DEF Reader
<1>. QED  BY <1>1, <1>4, <1>5 DEF Core

LEMMA Sent ==
    ASSUME FrameInv, Benign, NEW len \in 1..MaxBody, Send(len)
    PROVE  Core'
<1>. DEFINE n == Len(sent)
            g == Len(got)
            L == Len(stream)
<1>1. /\ TypeOK /\ Core /\ fd = "open" /\ fate = "alive"
      /\ sent' = Append(sent, len)
      /\ stream' = stream \o Frame(n + 1, len)
      /\ odd' = IF stream = <<>> /\ pc = "header" THEN odd ELSE odd \union {"crowded"}
      /\ UNCHANGED <<pc, expected, msg_len, recv_buf, got, fd>>
  BY DEF FrameInv, Send, thread
<1>2. PICK off : Offsets(off) /\ Reader(off)
  BY <1>1 DEF Core
<1>3. /\ n \in Nat /\ L \in Nat
      /\ \A f \in 1..n + 1 : off[f] \in Int
      /\ \A f \in 1..n : sent[f] \in 1..MaxBody /\ sent[f] \in Nat
      /\ \A f \in 1..n : f + 1 \in 1..n + 1 /\ f \in 1..n + 1
  BY <1>1, <1>2, Places
<1>4. HeaderLen \in Nat /\ len \in Nat /\ 0 < len /\ n + 1 \in 1..MaxFrames
  <2>1. n < MaxFrames
    BY DEF Send
  <2>. QED  BY <1>3, <2>1, FramingAssumption
<1>5. off[n + 1] = L + 1
  BY <1>1, <1>2 DEF Offsets
<1>6. Len(sent') = n + 1 /\ sent'[n + 1] = len /\ \A f \in 1..n : sent'[f] = sent[f]
  <2>1. sent \in Seq(1..MaxBody)
    BY <1>1 DEF TypeOK
  <2>. QED  BY <1>1, <2>1, AppendProperties
<1>7. /\ Len(stream') = L + HeaderLen + len
      /\ \A i \in 1..L : stream'[i] = stream[i]
      /\ \A i \in L + 1..L + HeaderLen + len :
            stream'[i] = [frame |-> n + 1, pos |-> i - L, body |-> len]
  <2>. DEFINE new == Frame(n + 1, len)
  <2>1. stream \in Seq(Units)
    BY <1>1 DEF TypeOK
  <2>2. /\ new \in Seq(Units) /\ Len(new) = HeaderLen + len
        /\ \A i \in 1..HeaderLen + len : new[i] = [frame |-> n + 1, pos |-> i, body |-> len]
    BY <1>4, FrameUnits
  <2>. HIDE DEF new
  <2>3. /\ Len(stream \o new) = L + Len(new)
        /\ \A i \in 1..L + Len(new) : (stream \o new)[i] = IF i <= L THEN stream[i] ELSE new[i - L]
    BY <2>1, <2>2, ConcatProperties
  <2>4. stream' = stream \o new
    BY <1>1 DEF new
  <2>5. \A i \in 1..L : stream'[i] = stream[i]
    BY <1>3, <1>4, <2>2, <2>3, <2>4
  <2>6. \A i \in L + 1..L + HeaderLen + len :
           stream'[i] = [frame |-> n + 1, pos |-> i - L, body |-> len]
    <3>. TAKE i \in L + 1..L + HeaderLen + len
    <3>1. i \in 1..L + Len(new) /\ ~(i <= L) /\ i - L \in 1..HeaderLen + len
      BY <1>3, <1>4, <2>2
    <3>2. stream'[i] = new[i - L]
      BY <2>3, <2>4, <3>1
    <3>. QED  BY <2>2, <3>1, <3>2
  <2>7. Len(stream') = L + HeaderLen + len
    BY <1>3, <1>4, <2>2, <2>3, <2>4
  <2>. QED  BY <2>5, <2>6, <2>7
<1>8. PICK more : more = [f \in 1..n + 1 + 1 |->
                            IF f = n + 1 + 1 THEN L + 1 + HeaderLen + len ELSE off[f]]
  OBVIOUS
<1>9. /\ more[n + 1 + 1] = L + 1 + HeaderLen + len
      /\ \A f \in 1..n + 1 : more[f] = off[f]
      /\ more \in [1..n + 1 + 1 -> Int]
  <2>1. /\ n + 1 + 1 \in 1..n + 1 + 1
        /\ \A f \in 1..n + 1 : f \in 1..n + 1 + 1 /\ f # n + 1 + 1
        /\ \A f \in 1..n + 1 + 1 : f = n + 1 + 1 \/ f \in 1..n + 1
        /\ L + 1 + HeaderLen + len \in Int
    BY <1>3, <1>4
  <2>. QED  BY <1>3, <1>8, <2>1
<1>10. \A f, h \in 1..n + 1 + 1 : f < h => more[f] < more[h]
  <2>. SUFFICES ASSUME NEW f \in 1..n + 1 + 1, NEW h \in 1..n + 1 + 1, f < h
                PROVE  more[f] < more[h]
    OBVIOUS
  <2>1. f \in 1..n + 1 /\ n + 1 \in 1..n + 1
    BY <1>3
  <2>2. \A a, b \in 1..n + 1 : a < b => off[a] < off[b]
    BY <1>2 DEF Offsets
  <2>3. CASE h = n + 1 + 1
    <3>1. off[f] <= L + 1
      <4>1. CASE f = n + 1
        BY <1>3, <1>5, <4>1
      <4>2. CASE f # n + 1
        <5>1. f < n + 1
          BY <1>3, <2>1, <4>2
        <5>2. off[f] < off[n + 1]
          BY <2>1, <2>2, <5>1
        <5>. QED  BY <1>3, <1>5, <2>1, <5>2
      <4>. QED  BY <4>1, <4>2
    <3>2. off[f] \in Int /\ more[f] = off[f] /\ more[h] = L + 1 + HeaderLen + len
      BY <1>3, <1>9, <2>1, <2>3
    <3>. QED  BY <1>3, <1>4, <3>1, <3>2
  <2>4. CASE h # n + 1 + 1
    <3>1. h \in 1..n + 1
      BY <1>3, <2>4
    <3>. QED  BY <1>9, <2>1, <2>2, <3>1
  <2>. QED  BY <2>3, <2>4
<1>11. \A f \in 1..n + 1 : more[f + 1] = more[f] + HeaderLen + sent'[f]
  <2>. TAKE f \in 1..n + 1
  <2>1. CASE f = n + 1
    <3>1. more[n + 1] = L + 1
      BY <1>3, <1>5, <1>9
    <3>. QED  BY <1>3, <1>4, <1>6, <1>9, <2>1, <3>1
  <2>2. CASE f # n + 1
    <3>1. f \in 1..n /\ f + 1 \in 1..n + 1
      BY <1>3, <2>2
    <3>2. off[f + 1] = off[f] + HeaderLen + sent[f]
      BY <1>2, <3>1 DEF Offsets
    <3>. QED  BY <1>6, <1>9, <3>1, <3>2
  <2>. QED  BY <2>1, <2>2
<1>12. \A f \in 1..n + 1 : \A i \in 1..Len(stream') :
          more[f] <= i /\ i < more[f + 1]
              => stream'[i] = [frame |-> f, pos |-> i - more[f] + 1, body |-> sent'[f]]
  <2>. SUFFICES ASSUME NEW f \in 1..n + 1, NEW i \in 1..Len(stream'),
                       more[f] <= i, i < more[f + 1]
                PROVE  stream'[i] = [frame |-> f, pos |-> i - more[f] + 1, body |-> sent'[f]]
    OBVIOUS
  <2>1. CASE f = n + 1
    <3>1. more[f] = L + 1
      BY <1>3, <1>5, <1>9, <2>1
    <3>2. i \in L + 1..L + HeaderLen + len /\ i - more[f] + 1 = i - L
      BY <1>3, <1>4, <1>7, <3>1
    <3>. QED  BY <1>6, <1>7, <2>1, <3>2
  <2>2. CASE f # n + 1
    <3>1. f \in 1..n /\ f + 1 \in 1..n + 1
      <4>1. n \in Nat
        BY <1>3
      <4>. HIDE DEF n
      <4>. QED  BY <2>2, <4>1
    <3>2. more[f] = off[f] /\ more[f + 1] = off[f + 1]
      BY <1>9, <3>1
    <3>3. off[f + 1] <= L + 1
      <4>1. CASE f + 1 = n + 1
        BY <1>3, <1>5, <4>1
      <4>2. CASE f + 1 # n + 1
        <5>1. f + 1 < n + 1 /\ n + 1 \in 1..n + 1
          BY <1>3, <3>1, <4>2
        <5>2. off[f + 1] < off[n + 1]
          BY <1>2, <3>1, <5>1 DEF Offsets
        <5>. QED  BY <1>3, <1>5, <3>1, <5>2
      <4>. QED  BY <4>1, <4>2
    <3>4. i \in 1..L
      BY <1>3, <1>4, <1>7, <3>1, <3>2, <3>3
    <3>5. stream[i] = [frame |-> f, pos |-> i - off[f] + 1, body |-> sent[f]]
      BY <1>2, <3>1, <3>2, <3>4 DEF Offsets
    <3>. QED  BY <1>6, <1>7, <3>1, <3>2, <3>4, <3>5
  <2>. QED  BY <2>1, <2>2
<1>13. Offsets(more)'
  <2>1. /\ Len(stream') < more[n + 1 + 1]
        /\ Len(stream') + 1 = more[n + 1 + 1]
    BY <1>3, <1>4, <1>7, <1>9
  <2>2. /\ more \in [1..Len(sent') + 1 -> Int]
        /\ \A f, h \in 1..Len(sent') + 1 : f < h => more[f] < more[h]
    BY <1>6, <1>9, <1>10
  <2>3. \A f \in 1..Len(sent') : more[f + 1] = more[f] + HeaderLen + sent'[f]
    BY <1>6, <1>11
  <2>4. \A f \in 1..Len(sent') : \A i \in 1..Len(stream') :
           more[f] <= i /\ i < more[f + 1]
               => stream'[i] = [frame |-> f, pos |-> i - more[f] + 1, body |-> sent'[f]]
    BY <1>6, <1>12
  <2>5. Len(stream') < more[Len(sent') + 1] /\ Len(stream') + 1 = more[Len(sent') + 1]
    BY <1>6, <2>1
  <2>. QED  BY <2>2, <2>3, <2>4, <2>5 DEF Offsets
<1>14. g \in Nat /\ g <= n /\ g + 1 \in 1..n + 1
  <2>1. g \in Nat /\ g <= n
    BY <1>1, LenProperties DEF TypeOK, Core, GotOK
  <2>. QED  BY <1>3, <2>1
<1>15. Reader(more)'
  <2>1. /\ pc' = pc /\ expected' = expected /\ msg_len' = msg_len /\ recv_buf' = recv_buf
        /\ got' = got /\ Len(got') = g
    BY <1>1
  <2>2. more[g + 1] = off[g + 1]
    BY <1>9, <1>14
  <2>3. pc = "header" => off[g + 1] = 1
    BY <1>2 DEF Reader
  <2>4. pc = "body" =>
           /\ g < n
           /\ off[g + 1] = 1 - HeaderLen - msg_len
           /\ expected = sent[g + 1]
           /\ \A i \in 1..msg_len :
                 recv_buf[i] = [frame |-> g + 1, pos |-> HeaderLen + i, body |-> expected]
           /\ msg_len > 0 => "short body" \in odd
    BY <1>2 DEF Reader
  <2>5. odd \subseteq odd'
    BY <1>1
  <2>6. pc' = "header" => more[Len(got') + 1] = 1
    BY <2>1, <2>2, <2>3
  <2>7. pc' = "body" => Len(got') < Len(sent') /\ expected' = sent'[Len(got') + 1]
    <3>1. pc = "body" => g < n + 1 /\ g + 1 \in 1..n
      <4>1. pc = "body" => g < n
        BY <2>4
      <4>2. g \in Nat /\ n \in Nat
        BY <1>3, <1>14
      <4>. HIDE DEF g, n
      <4>. QED  BY <4>1, <4>2
    <3>. QED  BY <1>6, <2>1, <2>4, <3>1
  <2>8. pc' = "body" =>
           /\ more[Len(got') + 1] = 1 - HeaderLen - msg_len'
           /\ \A i \in 1..msg_len' :
                 recv_buf'[i] = [frame |-> Len(got') + 1, pos |-> HeaderLen + i, body |-> expected']
           /\ msg_len' > 0 => "short body" \in odd'
    BY <2>1, <2>2, <2>4, <2>5
  <2>9. "crowded" \notin odd' => Len(sent') <= Len(got') + 1
    <3>. SUFFICES ASSUME "crowded" \notin odd' PROVE n + 1 <= g + 1
      BY <1>6, <2>1
    <3>1. stream = <<>> /\ pc = "header"
      BY <1>1
    <3>2. off[n + 1] = 1 /\ off[g + 1] = 1
      BY <1>5, <2>3, <3>1, EmptySeq
    <3>3. ~(g + 1 < n + 1)
      <4>1. n + 1 \in 1..n + 1
        BY <1>3
      <4>2. g + 1 < n + 1 => off[g + 1] < off[n + 1]
        BY <1>2, <1>14, <4>1 DEF Offsets
      <4>. QED  BY <3>2, <4>2
    <3>. QED  BY <1>3, <1>14, <3>3
  <2>. QED  BY <2>6, <2>7, <2>8, <2>9 DEF Reader
<1>16. GotOK'
  <2>1. Len(got') = g /\ got' = got
    BY <1>1
  <2>2. Len(got') <= Len(sent')
    BY <1>3, <1>6, <1>14, <2>1
  <2>3. \A i \in 1..g : i \in 1..n
    BY <1>3, <1>14
  <2>4. \A i \in 1..g : got[i].units = BodyOf(i, sent[i])
    BY <1>1 DEF Core, GotOK
  <2>5. \A i \in 1..Len(got') : got'[i].units = BodyOf(i, sent'[i])
    BY <1>6, <2>1, <2>3, <2>4
  <2>. QED  BY <2>2, <2>5 DEF GotOK
<1>. QED  BY <1>13, <1>15, <1>16 DEF Core

(* A connection starts with nothing sent and the reader at its first unit; *)
(* a reader that is left in a body has met "mid body". *)
LEMMA Starts ==
    /\ Init => Core
    /\ FrameInv /\ Benign' /\ Reconnect => Core'
<1>1. PICK off : off = [f \in 1..1 |-> 1]
  OBVIOUS
<1>2. off \in [1..1 -> Int] /\ off[1] = 1 /\ Len(<<>>) = 0 /\ 1..0 = {} /\ 0 + 1 = 1
  BY <1>1, EmptySeq
<1>3. \A f, h \in 1..1 : ~(f < h)
  OBVIOUS
<1>4. ASSUME Init PROVE Core
  <2>1. /\ pc = "header" /\ Len(sent) = 0 /\ Len(got) = 0 /\ Len(stream) = 0
    BY <1>2, <1>4 DEF Init
  <2>2. Offsets(off)
    BY <1>2, <1>3, <2>1 DEF Offsets
  <2>3. Reader(off)
    BY <1>2, <2>1 DEF Reader
  <2>4. GotOK
    BY <1>2, <2>1 DEF GotOK
  <2>. QED  BY <2>2, <2>3, <2>4 DEF Core
<1>5. ASSUME FrameInv, Benign', Reconnect PROVE Core'
  <2>1. /\ fd = "closed" /\ sent' = <<>> /\ got' = <<>> /\ stream' = stream /\ pc' = pc
        /\ odd' = IF pc = "body" THEN {"mid body"} ELSE {}
    BY <1>5 DEF Reconnect
  <2>2. pc # "body"
    BY <1>5, <2>1 DEF Benign
  <2>3. pc \in {"header", "body"}
    BY <1>5 DEF FrameInv, TypeOK
  <2>4. stream = <<>>
    BY <1>5, <2>1 DEF FrameInv
  <2>5. /\ pc' = "header" /\ Len(sent') = 0 /\ Len(got') = 0 /\ Len(stream') = 0
    BY <1>2, <2>1, <2>2, <2>3, <2>4
  <2>6. Offsets(off)'
    BY <1>2, <1>3, <2>5 DEF Offsets
  <2>7. Reader(off)'
    BY <1>2, <2>5 DEF Reader
  <2>8. GotOK'
    BY <1>2, <2>5 DEF GotOK
  <2>. QED  BY <2>6, <2>7, <2>8 DEF Core
<1>. QED  BY <1>4, <1>5

LEMMA NothingHappens ==
    ASSUME FrameInv, Benign, UNCHANGED vars
    PROVE  Core'
<1>1. /\ Core
      /\ UNCHANGED <<pc, expected, msg_len, recv_buf, got, fate, fd, stream, sent, odd>>
  BY DEF FrameInv, vars, thread, socket
<1>2. GotOK'
  BY <1>1, GotKept DEF Core
<1>3. ASSUME NEW off, Offsets(off), Reader(off)
      PROVE  Offsets(off)' /\ Reader(off)'
  <2>1. Offsets(off)'
    <3>1. sent' = sent /\ stream' = stream /\ fd' = fd
      BY <1>1
    <3>. QED  BY <1>3, <3>1 DEF Offsets
  <2>2. Reader(off)'
    <3>1. /\ pc' = pc /\ expected' = expected /\ msg_len' = msg_len /\ recv_buf' = recv_buf
          /\ got' = got /\ sent' = sent /\ odd' = odd
      BY <1>1
    <3>. QED  BY <1>3, <3>1 DEF Reader
  <2>. QED  BY <2>1, <2>2
<1>. QED  BY <1>1, <1>2, <1>3 DEF Core

-----------------------------------------------------------------------------
(* The invariant and the theorems. *)

LEMMA InitType == Init => TypeOK
<1>. SUFFICES ASSUME Init PROVE TypeOK
  OBVIOUS
<1>1. /\ <<>> \in Seq(Units) /\ <<>> \in Seq(Units \union {Zero})
      /\ <<>> \in Seq(1..MaxBody)
      /\ <<>> \in Seq([units : Seq(Units \union {Zero}), announced : 1..MaxLength])
      /\ Len(<<>>) = 0
  BY EmptySeq
<1>2. /\ 0 \in 0..MaxLength /\ 0 \in 0..Width - 1 /\ 0 <= BufLen
      /\ 0 <= MaxFrames /\ 1 \in 1..MaxConnections
  BY FramingAssumption, WidthFacts
<1>. QED  BY <1>1, <1>2 DEF Init, TypeOK

LEMMA FrameInvHolds == Spec => []FrameInv
<1>1. Init => FrameInv
  <2>1. Init => Partial /\ InBounds
    BY DEF Init, Partial, InBounds
  <2>. QED  BY <2>1, InitType, Starts DEF FrameInv, Init
<1>2. FrameInv /\ [Next]_vars => FrameInv'
  <2>. SUFFICES ASSUME FrameInv, [Next]_vars PROVE FrameInv'
    OBVIOUS
  <2>1. TypeOK'
    BY TypeStep DEF FrameInv
  <2>2. fd' \in {"reset", "closed"} => stream' = <<>>
    <3>. SUFFICES ASSUME fd' \in {"reset", "closed"} PROVE stream' = <<>>
      OBVIOUS
    <3>1. CASE stream = <<>> /\ stream' = stream
      BY <3>1
    <3>2. CASE RecvThread
      <4>1. ASSUME NEW asked, NEW k, Received(asked, k) PROVE FALSE
        BY <4>1 DEF Received
      <4>2. BodyFails
        BY <3>2, <4>1 DEF RecvThread, ReadHeader, ReadBody
      <4>. QED  BY <4>2 DEF BodyFails, FrameInv
    <3>3. CASE \/ \E len \in 1..MaxBody : Send(len)
               \/ \E k \in 0..Len(stream) : HangUp(k)
               \/ Reset \/ Close \/ Reconnect
      BY <3>3 DEF Send, HangUp, Reset, Close, Reconnect
    <3>4. CASE ClearBuffer \/ UNCHANGED vars
      BY <3>4 DEF ClearBuffer, FrameInv, vars, socket
    <3>. QED  BY <3>2, <3>3, <3>4 DEF Next
  <2>3. ASSUME Benign' PROVE Core' /\ Partial' /\ InBounds'
    <3>1. CASE Reconnect
      <4>1. pc' # "body" /\ fate' = fate /\ fate = "alive"
        BY <2>3, <3>1 DEF Reconnect, Benign
      <4>. QED  BY <2>3, <3>1, <4>1, Starts DEF Partial, InBounds
    <3>2. CASE ~Reconnect
      <4>1. odd \subseteq odd'
        BY <3>2 DEF Next, RecvThread, ReadHeader, ReadBody, BodyFails, Send, HangUp, Reset,
                    Close, ClearBuffer, vars
      <4>2. Benign /\ (MaxBody <= BufLen => fate # "overrun")
        BY <2>3, <4>1 DEF Benign, FrameInv, InBounds
      <4>3. CASE \E k \in 1..MaxLength : ReadBody(k)
        BY <2>3, <4>2, <4>3, BodyRead DEF InBounds
      <4>4. CASE BodyFails
        BY <4>2, <4>4, FailedRead DEF InBounds
      <4>5. CASE \/ \E k \in 1..HeaderLen : ReadHeader(k)
                 \/ \E len \in 1..MaxBody : Send(len)
                 \/ \E k \in 0..Len(stream) : HangUp(k)
                 \/ Reset \/ Close \/ ClearBuffer \/ UNCHANGED vars
        <5>1. Partial' /\ fate' = fate
          BY <2>3, <4>2, <4>5, PartialKept
        <5>2. InBounds'
          BY <4>2, <5>1 DEF InBounds
        <5>3. Core'
          BY <2>3, <4>2, <4>5, HeaderRead, Sent, HungUp, Lost, Cleared, NothingHappens
        <5>. QED  BY <5>1, <5>2, <5>3
      <4>. QED  BY <3>2, <4>3, <4>4, <4>5 DEF Next, RecvThread
    <3>. QED  BY <3>1, <3>2
  <2>4. ~Benign' => InBounds'
    BY DEF InBounds
  <2>. QED  BY <2>1, <2>2, <2>3, <2>4 DEF FrameInv
<1>. QED  BY <1>1, <1>2, PTL DEF Spec

(* Whatever the header announces, up to the largest int32_t, however the    *)
(* stream is cut and whenever the descriptor is replaced, the recv thread's *)
(* own state is of its type up to the write that would leave recv_buf or    *)
(* the read that ends the process (remote.c:8-39): in the middle of a body  *)
(* it has less of it than was announced, and no more than recv_buf holds.   *)
THEOREM FramingTypeCorrect == Spec => []TypeOK
<1>1. FrameInv => TypeOK
  BY DEF FrameInv
<1>. QED  BY <1>1, FrameInvHolds, PTL

(* The messages that data_distribution takes on a benign connection are the *)
(* bodies the gateway sent, whole, in order and none twice, cut into any    *)
(* pieces, through any number of connections (remote.c:8-39, local.c:8-39,  *)
(* distribution.c:205-260).  Bodies may be as long as an int32_t can say; a *)
(* body longer than recv_buf is never among the messages taken, since the   *)
(* write that would complete it ends the behaviour.                         *)
THEOREM FramesIntactAlways == Spec => []FramesIntact
<1>1. FrameInv => FramesIntact
  BY DEF FrameInv, Core, GotOK, FramesIntact
<1>. QED  BY <1>1, FrameInvHolds, PTL

(* Nothing checks a length against MAX_BUF_LEN (remote.c:31-35), but with a *)
(* gateway whose bodies fit recv_buf nothing is written behind it on a      *)
(* benign connection, however the bodies are cut.                           *)
THEOREM StaysInBounds == Spec => []InBounds
<1>1. FrameInv => InBounds
  BY DEF FrameInv
<1>. QED  BY <1>1, FrameInvHolds, PTL
=============================================================================
