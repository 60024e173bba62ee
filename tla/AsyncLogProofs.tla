--------------------------- MODULE AsyncLogProofs ---------------------------
(***************************************************************************)
(* Proofs about AsyncLog for every size of the ring, of the lines and of   *)
(* the poll buffer, and for any set of threads: the ring and its flags     *)
(* stay consistent, no wakeup is lost, and the whole implements the        *)
(* bounded byte queue of LogQueue.                                         *)
(***************************************************************************)
EXTENDS AsyncLog, SequenceTheorems, TLAPS

(* The lock is held by whoever is between taking and releasing it. *)
LockInv ==
    /\ \A p \in Producers : pc[p] # "idle" => lock = p
    /\ out \in {"locked", "take", "release"} => lock = "output"

(* What was measured still holds when it is used, and a thread that logs   *)
(* has a line.                                                             *)
SizeInv ==
    /\ \A p \in Producers :
          /\ pc[p] # "idle" => line[p] \in Lines
          /\ pc[p] = "put" => space[p] = SpaceSize
    /\ out = "take" => used = UsedSize

(* poll_get_buf holds bytes from taking them until writing them, and the   *)
(* output thread exists once it was created.                               *)
HandInv ==
    /\ main = "init" => out = "none"
    /\ poll_get_buf # <<>> => out \in {"release", "write"}
    /\ out = "write" => poll_get_buf # <<>>

(* Every byte between the indices was put there by a producer. *)
BytesInv == \A k \in 0..(UsedSize - 1) : log_buf[Forward(read_index, k)] \in Byte

(* Bytes in the ring have a notice coming while the output thread cannot   *)
(* find them by itself.                                                    *)
WakeInv ==
    /\ (out \in {"none", "assert", "wait"} /\ UsedSize > 0) =>
          output_notice > 0 \/ \E p \in Producers : pc[p] = "notice"
    /\ (out = "release" /\ poll_get_buf = <<>>) => UsedSize = 0

RingType ==
    /\ log_buf \in [Slots -> Byte \union {Nul}]
    /\ write_index \in Slots
    /\ read_index \in Slots
    /\ buf_is_full \in BOOLEAN
    /\ buf_is_empty \in BOOLEAN

RingInv == RingType /\ FlagsAgree /\ BytesInv

AsyncInv == TypeOK /\ RingInv /\ LockInv /\ SizeInv /\ HandInv /\ WakeInv

-----------------------------------------------------------------------------
(* The ring. *)

(* The size computed from the indices and flags is the number of bytes     *)
(* held, and the extreme sizes are what the flags say.                     *)
LEMMA UsedFacts ==
    ASSUME RingType, FlagsAgree
    PROVE  /\ UsedSize \in 0..BufSize
           /\ UsedSize = BufSize <=> buf_is_full
           /\ UsedSize = 0 <=> buf_is_empty
  BY AsyncLogAssumption DEF RingType, FlagsAgree, UsedSize, Slots

(* An index moved by at most the size of the ring is an index. *)
LEMMA ForwardType ==
    ASSUME NEW i \in Slots, NEW n \in 0..BufSize
    PROVE  Forward(i, n) \in Slots
  BY AsyncLogAssumption DEF Slots, Forward

(* The contents are a sequence of bytes, as long as the ring is used. *)
LEMMA ContentsFacts ==
    ASSUME RingInv
    PROVE  /\ Contents \in Seq(Byte)
           /\ Len(Contents) = UsedSize
           /\ \A k \in 1..UsedSize : Contents[k] = log_buf[Forward(read_index, k - 1)]
<1>1. UsedSize \in Nat
  BY UsedFacts, AsyncLogAssumption DEF RingInv
<1>2. \A k \in 1..UsedSize : log_buf[Forward(read_index, k - 1)] \in Byte
  BY <1>1 DEF RingInv, BytesInv
<1>3. Contents \in [1..UsedSize -> Byte]
  BY <1>2 DEF Contents
<1>. QED  BY <1>1, <1>3, SeqDef DEF Contents

(* What a producer does to the ring: it appends the part of its line that  *)
(* fits.                                                                   *)
LEMMA PutRing ==
    ASSUME RingInv, NEW p \in Producers, Put(p),
           line[p] \in Lines, space[p] = SpaceSize
    PROVE  LET size == IF space[p] <= Len(line[p]) THEN space[p] ELSE Len(line[p])
           IN  /\ size \in 1..(BufSize - UsedSize)
               /\ size <= Len(line[p])
               /\ RingInv'
               /\ UsedSize' = UsedSize + size
               /\ \A k \in 0..(UsedSize - 1) :
                     log_buf'[Forward(read_index, k)] = log_buf[Forward(read_index, k)]
               /\ \A k \in 0..(size - 1) :
                     log_buf'[Forward(read_index, UsedSize + k)] = line[p][k + 1]
<1>. DEFINE size == IF space[p] <= Len(line[p]) THEN space[p] ELSE Len(line[p])
<1>. HIDE DEF size
<1>1. line[p] \in Seq(Byte) /\ Len(line[p]) \in Nat \ {0}
  <2>1. line[p] \in Seq(Byte) /\ line[p] # <<>>
    BY AsyncLogAssumption
  <2>. QED  BY <2>1, EmptySeq
<1>2. /\ UsedSize \in 0..BufSize
      /\ UsedSize = BufSize <=> buf_is_full
      /\ UsedSize = 0 <=> buf_is_empty
  BY UsedFacts DEF RingInv
<1>3. size \in 1..(BufSize - UsedSize) /\ size <= Len(line[p])
  BY <1>1, <1>2, AsyncLogAssumption DEF Put, SpaceSize, size
<1>4. /\ buf_is_full' = (buf_is_full \/ size = SpaceSize)
      /\ log_buf' = Copied(line[p], size)
      /\ write_index' = Forward(write_index, size)
      /\ buf_is_empty' = FALSE
      /\ read_index' = read_index
  BY <1>1, <1>2, AsyncLogAssumption DEF Put, SpaceSize, size
<1>5. \A k \in 1..Len(line[p]) : line[p][k] \in Byte
  BY <1>1, ElementOfSeq
<1>6. write_index = Forward(read_index, UsedSize)
  BY <1>2, AsyncLogAssumption DEF RingInv, RingType, FlagsAgree, UsedSize, Slots, Forward
<1>7. write_index' \in Slots
  BY <1>2, <1>3, <1>4, ForwardType, AsyncLogAssumption DEF RingInv, RingType
<1>8. log_buf' \in [Slots -> Byte \union {Nul}]
  BY <1>3, <1>4, <1>5, AsyncLogAssumption DEF Copied, Slots, RingInv, RingType
<1>9. RingType'
  BY <1>4, <1>7, <1>8 DEF RingInv, RingType
<1>10. FlagsAgree' /\ UsedSize' = UsedSize + size
  <2>1. CASE size = SpaceSize
    <3>1. buf_is_full' /\ ~buf_is_empty'
      BY <2>1, <1>4
    <3>2. write_index' = read_index' /\ UsedSize + size = BufSize
      BY <2>1, <1>2, <1>3, <1>4, <1>6, AsyncLogAssumption
         DEF RingInv, RingType, SpaceSize, Slots, Forward
    <3>3. UsedSize' = BufSize
      <4>1. ~(write_index' > read_index')
        BY <3>2, <1>9 DEF RingType, Slots
      <4>. QED  BY <3>1, <4>1 DEF UsedSize
    <3>. QED  BY <3>1, <3>2, <3>3 DEF FlagsAgree
  <2>2. CASE size < SpaceSize
    <3>1. ~buf_is_full' /\ ~buf_is_empty'
      <4>1. UsedSize # BufSize /\ size # SpaceSize
        BY <2>2, <1>2, <1>3, AsyncLogAssumption DEF SpaceSize
      <4>. QED  BY <4>1, <1>2, <1>4
    <3>2. /\ write_index' # read_index'
          /\ UsedSize + size = IF write_index' > read_index' THEN write_index' - read_index'
                              ELSE BufSize - (read_index' - write_index')
      BY <2>2, <1>2, <1>3, <1>4, <1>6, AsyncLogAssumption
         DEF RingInv, RingType, SpaceSize, Slots, Forward
    <3>3. UsedSize' = IF write_index' > read_index' THEN write_index' - read_index'
                      ELSE BufSize - (read_index' - write_index')
      BY <3>1 DEF UsedSize
    <3>4. FlagsAgree'
      BY <3>1, <3>2 DEF FlagsAgree
    <3>. QED  BY <3>2, <3>3, <3>4
  <2>3. size = SpaceSize \/ size < SpaceSize
    BY <1>2, <1>3, AsyncLogAssumption DEF SpaceSize
  <2>. QED  BY <2>1, <2>2, <2>3
<1>11. \A k \in 0..(UsedSize - 1) :
          log_buf'[Forward(read_index, k)] = log_buf[Forward(read_index, k)]
  <2>. SUFFICES ASSUME NEW k \in 0..(UsedSize - 1)
                PROVE  log_buf'[Forward(read_index, k)] = log_buf[Forward(read_index, k)]
    OBVIOUS
  <2>. DEFINE i == Forward(read_index, k)
  <2>1. /\ i \in Slots
        /\ ~(write_index <= i /\ i < write_index + size)
        /\ ~(i + BufSize < write_index + size)
    BY <1>2, <1>3, <1>6, AsyncLogAssumption DEF RingInv, RingType, Slots, Forward
  <2>. HIDE DEF i
  <2>2. log_buf'[i] = log_buf[i]
    BY <1>4, <2>1 DEF Copied
  <2>. QED  BY <2>2 DEF i
<1>12. \A k \in 0..(size - 1) :
          log_buf'[Forward(read_index, UsedSize + k)] = line[p][k + 1]
  BY <1>2, <1>3, <1>4, <1>6, AsyncLogAssumption
     DEF RingInv, RingType, Slots, Forward, Copied
<1>13. BytesInv'
  <2>. SUFFICES ASSUME NEW k \in 0..(UsedSize + size - 1)
                PROVE  log_buf'[Forward(read_index', k)] \in Byte
    BY <1>2, <1>3, <1>10, AsyncLogAssumption DEF BytesInv, Forward
  <2>0. read_index' = read_index
    BY <1>4
  <2>1. CASE k \in 0..(UsedSize - 1)
    BY <2>0, <2>1, <1>11 DEF RingInv, BytesInv
  <2>2. CASE k \in UsedSize..(UsedSize + size - 1)
    <3>. DEFINE j == k - UsedSize
    <3>1. j \in 0..(size - 1) /\ k = UsedSize + j /\ j + 1 \in 1..Len(line[p])
      BY <2>2, <1>1, <1>2, <1>3
    <3>. QED  BY <2>0, <3>1, <1>5, <1>12
  <2>. QED  BY <2>1, <2>2, <1>2, <1>3
<1>. QED  BY <1>3, <1>9, <1>10, <1>11, <1>12, <1>13 DEF RingInv, size

(* What the output thread does to the ring: it takes the oldest bytes. *)
LEMMA GetRing ==
    ASSUME RingInv, GetLog, used = UsedSize
    PROVE  LET size == IF TakesAll THEN used ELSE PollSize
           IN  /\ size \in 1..UsedSize
               /\ RingInv'
               /\ UsedSize' = UsedSize - size
               /\ poll_get_buf' = [k \in 1..size |-> log_buf[Forward(read_index, k - 1)]]
               /\ \A k \in 0..(UsedSize - size - 1) :
                     log_buf'[Forward(read_index', k)] = log_buf[Forward(read_index, size + k)]
<1>. DEFINE size == IF TakesAll THEN used ELSE PollSize
<1>1. /\ UsedSize \in 0..BufSize
      /\ UsedSize = BufSize <=> buf_is_full
      /\ UsedSize = 0 <=> buf_is_empty
  BY UsedFacts DEF RingInv
<1>2. size \in 1..UsedSize
  BY <1>1, AsyncLogAssumption DEF GetLog, TakesAll
<1>3. TakesAll <=> size = UsedSize
  BY <1>1, AsyncLogAssumption DEF TakesAll
<1>4. poll_get_buf' = [k \in 1..size |-> log_buf[Forward(read_index, k - 1)]]
  BY DEF GetLog, Fetched
<1>. HIDE DEF size
<1>5. /\ buf_is_empty' = (buf_is_empty \/ size = UsedSize)
      /\ read_index' = Forward(read_index, size)
      /\ buf_is_full' = FALSE
      /\ UNCHANGED <<log_buf, write_index>>
  BY <1>3 DEF GetLog, size
<1>6. write_index = Forward(read_index, UsedSize)
  BY <1>1, AsyncLogAssumption DEF RingInv, RingType, FlagsAgree, UsedSize, Slots, Forward
<1>7. read_index' \in Slots
  BY <1>1, <1>2, <1>5, ForwardType, AsyncLogAssumption DEF RingInv, RingType
<1>8. RingType'
  BY <1>5, <1>7 DEF RingInv, RingType
<1>9. FlagsAgree' /\ UsedSize' = UsedSize - size
  <2>1. CASE size = UsedSize
    <3>1. ~buf_is_full' /\ buf_is_empty'
      BY <2>1, <1>5
    <3>2. write_index' = read_index'
      BY <2>1, <1>5, <1>6
    <3>3. UsedSize' = 0
      <4>1. ~(write_index' > read_index')
        BY <3>2, <1>8 DEF RingType, Slots
      <4>. QED  BY <3>1, <4>1 DEF UsedSize
    <3>4. UsedSize - size = 0
      BY <2>1, <1>1
    <3>. QED  BY <3>1, <3>2, <3>3, <3>4 DEF FlagsAgree
  <2>2. CASE size < UsedSize
    <3>1. ~buf_is_full' /\ ~buf_is_empty'
      <4>1. UsedSize # 0 /\ size # UsedSize
        BY <2>2, <1>1, <1>2
      <4>. QED  BY <4>1, <1>1, <1>5
    <3>2. /\ write_index' # read_index'
          /\ UsedSize - size = IF write_index' > read_index' THEN write_index' - read_index'
                              ELSE BufSize - (read_index' - write_index')
      BY <2>2, <1>1, <1>2, <1>5, <1>6, AsyncLogAssumption
         DEF RingInv, RingType, Slots, Forward
    <3>3. UsedSize' = IF write_index' > read_index' THEN write_index' - read_index'
                      ELSE BufSize - (read_index' - write_index')
      BY <3>1 DEF UsedSize
    <3>4. FlagsAgree'
      BY <3>1, <3>2 DEF FlagsAgree
    <3>5. UsedSize' = UsedSize - size
      BY <3>2, <3>3
    <3>. QED  BY <3>4, <3>5
  <2>. QED  BY <2>1, <2>2, <1>1, <1>2
<1>10. \A k \in 0..(UsedSize - size - 1) :
          Forward(read_index', k) = Forward(read_index, size + k)
  BY <1>1, <1>2, <1>5, AsyncLogAssumption DEF RingInv, RingType, Slots, Forward
<1>11. BytesInv'
  <2>. SUFFICES ASSUME NEW k \in 0..(UsedSize - size - 1)
                PROVE  log_buf[Forward(read_index', k)] \in Byte
    BY <1>5, <1>9 DEF BytesInv, Forward
  <2>1. size + k \in 0..(UsedSize - 1)
    BY <1>1, <1>2
  <2>. QED  BY <2>1, <1>10 DEF RingInv, BytesInv
<1>. QED  BY <1>2, <1>4, <1>5, <1>8, <1>9, <1>10, <1>11 DEF RingInv, size

(* As sequences: a put appends to the contents ... *)
LEMMA PutAppends ==
    ASSUME RingInv, NEW p \in Producers, Put(p),
           line[p] \in Lines, space[p] = SpaceSize
    PROVE  Contents' = Contents \o
             SubSeq(line[p], 1, IF SpaceSize <= Len(line[p]) THEN SpaceSize ELSE Len(line[p]))
<1>. DEFINE size == IF space[p] <= Len(line[p]) THEN space[p] ELSE Len(line[p])
            part == SubSeq(line[p], 1, size)
<1>1. /\ size \in 1..(BufSize - UsedSize)
      /\ size <= Len(line[p])
      /\ RingInv'
      /\ UsedSize' = UsedSize + size
      /\ \A k \in 0..(UsedSize - 1) :
            log_buf'[Forward(read_index, k)] = log_buf[Forward(read_index, k)]
      /\ \A k \in 0..(size - 1) :
            log_buf'[Forward(read_index, UsedSize + k)] = line[p][k + 1]
  BY PutRing
<1>2. part = SubSeq(line[p], 1, IF SpaceSize <= Len(line[p]) THEN SpaceSize ELSE Len(line[p]))
  OBVIOUS
<1>. HIDE DEF size
<1>3. line[p] \in Seq(Byte)
  BY AsyncLogAssumption
<1>4. UsedSize \in 0..BufSize
  BY UsedFacts DEF RingInv
<1>5. size \in Nat \ {0}
  BY <1>1, <1>4, AsyncLogAssumption
<1>6. \A i \in 1..size : line[p][i] \in Byte
  BY <1>1, <1>3, <1>5, LenProperties
<1>7. /\ part \in Seq(Byte)
      /\ Len(part) = size
      /\ \A i \in 1..size : part[i] = line[p][i]
  BY <1>5, <1>6, SubSeqProperties
<1>. HIDE DEF part
<1>8. /\ Contents \in Seq(Byte)
      /\ Len(Contents) = UsedSize
      /\ \A k \in 1..UsedSize : Contents[k] = log_buf[Forward(read_index, k - 1)]
  BY ContentsFacts
<1>9. /\ Contents' \in Seq(Byte)
      /\ Len(Contents') = UsedSize'
      /\ \A k \in 1..UsedSize' : Contents'[k] = log_buf'[Forward(read_index', k - 1)]
  <2>1. \A k \in 1..UsedSize' : log_buf'[Forward(read_index', k - 1)] \in Byte
    BY <1>1, <1>4, <1>5 DEF RingInv, BytesInv, Forward
  <2>2. Contents' \in [1..UsedSize' -> Byte]
    BY <2>1 DEF Contents, Forward
  <2>3. UsedSize' \in Nat
    BY <1>1, <1>4, <1>5
  <2>. QED  BY <2>2, <2>3, SeqDef DEF Contents, Forward
<1>10. read_index' = read_index
  BY DEF Put
<1>11. /\ Contents \o part \in Seq(Byte)
       /\ Len(Contents \o part) = UsedSize + size
       /\ \A k \in 1..(UsedSize + size) : (Contents \o part)[k] =
             IF k <= UsedSize THEN Contents[k] ELSE part[k - UsedSize]
  BY <1>7, <1>8, ConcatProperties
<1>12. ASSUME NEW k \in 1..(UsedSize + size)
       PROVE  Contents'[k] = (Contents \o part)[k]
  <2>1. Contents'[k] = log_buf'[Forward(read_index, k - 1)]
    BY <1>1, <1>9, <1>10
  <2>2. CASE k <= UsedSize
    <3>1. k \in 1..UsedSize /\ k - 1 \in 0..(UsedSize - 1)
      BY <2>2, <1>4
    <3>2. log_buf'[Forward(read_index, k - 1)] = Contents[k]
      BY <3>1, <1>1, <1>8
    <3>. QED  BY <2>1, <2>2, <3>2, <1>11
  <2>3. CASE k > UsedSize
    <3>. DEFINE j == k - UsedSize - 1
    <3>1. j \in 0..(size - 1) /\ UsedSize + j = k - 1 /\ j + 1 = k - UsedSize /\ j + 1 \in 1..size
      BY <2>3, <1>4, <1>5
    <3>2. log_buf'[Forward(read_index, k - 1)] = line[p][j + 1]
      BY <3>1, <1>1
    <3>3. (Contents \o part)[k] = part[j + 1]
      BY <2>3, <3>1, <1>4, <1>11
    <3>. QED  BY <2>1, <3>1, <3>2, <3>3, <1>7
  <2>4. k <= UsedSize \/ k > UsedSize
    BY <1>4, <1>5
  <2>. QED  BY <2>2, <2>3, <2>4
<1>13. Contents' = Contents \o part
  BY <1>1, <1>9, <1>11, <1>12, SeqEqual
<1>. QED  BY <1>2, <1>13 DEF part

(* ... and the output thread takes a prefix. *)
LEMMA GetTakes ==
    ASSUME RingInv, GetLog, used = UsedSize
    PROVE  LET size == IF PollSize <= UsedSize THEN PollSize ELSE UsedSize
           IN  /\ poll_get_buf' = SubSeq(Contents, 1, size)
               /\ Contents' = SubSeq(Contents, size + 1, Len(Contents))
               /\ poll_get_buf' \in Seq(Byte) \ {<<>>}
               /\ Contents # <<>>
<1>. DEFINE size == IF TakesAll THEN used ELSE PollSize
<1>1. /\ size \in 1..UsedSize
      /\ RingInv'
      /\ UsedSize' = UsedSize - size
      /\ poll_get_buf' = [k \in 1..size |-> log_buf[Forward(read_index, k - 1)]]
      /\ \A k \in 0..(UsedSize - size - 1) :
            log_buf'[Forward(read_index', k)] = log_buf[Forward(read_index, size + k)]
  BY GetRing
<1>2. UsedSize \in 0..BufSize
  BY UsedFacts DEF RingInv
<1>3. size = IF PollSize <= UsedSize THEN PollSize ELSE UsedSize
  BY <1>2, AsyncLogAssumption DEF TakesAll
<1>. HIDE DEF size
<1>4. /\ Contents \in Seq(Byte)
      /\ Len(Contents) = UsedSize
      /\ \A k \in 1..UsedSize : Contents[k] = log_buf[Forward(read_index, k - 1)]
  BY ContentsFacts
<1>5. \A i \in 1..UsedSize : Contents[i] \in Byte
  BY <1>4, ElementOfSeq
<1>6. size \in Nat \ {0} /\ UsedSize \in Nat /\ size <= UsedSize
  BY <1>1, <1>2, AsyncLogAssumption
<1>7. poll_get_buf' = SubSeq(Contents, 1, size) /\ poll_get_buf' \in Seq(Byte) \ {<<>>}
  <2>1. /\ SubSeq(Contents, 1, size) \in Seq(Byte)
        /\ Len(SubSeq(Contents, 1, size)) = size
        /\ \A i \in 1..size : SubSeq(Contents, 1, size)[i] = Contents[i]
    BY <1>5, <1>6, SubSeqProperties
  <2>2. \A i \in 1..size : poll_get_buf'[i] = Contents[i]
    BY <1>1, <1>4, <1>6
  <2>3. poll_get_buf' \in Seq(Byte) /\ Len(poll_get_buf') = size
    <3>1. poll_get_buf' \in [1..size -> Byte]
      <4>1. \A k \in 1..size : log_buf[Forward(read_index, k - 1)] \in Byte
        <5>. TAKE k \in 1..size
        <5>1. k \in 1..UsedSize
          BY <1>6
        <5>. QED  BY <5>1, <1>4, <1>5
      <4>. QED  BY <4>1, <1>1
    <3>. QED  BY <3>1, <1>1, <1>6, SeqDef
  <2>4. poll_get_buf' = SubSeq(Contents, 1, size)
    BY <2>1, <2>2, <2>3, SeqEqual
  <2>. QED  BY <2>3, <2>4, <1>6, EmptySeq
<1>8. /\ Contents' \in Seq(Byte)
      /\ Len(Contents') = UsedSize - size
      /\ \A k \in 1..(UsedSize - size) : Contents'[k] = Contents[size + k]
  <2>1. \A k \in 1..(UsedSize - size) :
           log_buf'[Forward(read_index', k - 1)] = Contents[size + k]
    <3>. SUFFICES ASSUME NEW k \in 1..(UsedSize - size)
                  PROVE  log_buf'[Forward(read_index', k - 1)] = Contents[size + k]
      OBVIOUS
    <3>1. k - 1 \in 0..(UsedSize - size - 1) /\ size + k \in 1..UsedSize
          /\ size + (k - 1) = (size + k) - 1
      BY <1>6
    <3>. QED  BY <3>1, <1>1, <1>4
  <2>2. Contents' = [k \in 1..(UsedSize - size) |-> Contents[size + k]]
    BY <2>1, <1>1 DEF Contents, Forward
  <2>3. \A k \in 1..(UsedSize - size) : Contents[size + k] \in Byte
    BY <1>5, <1>6
  <2>4. Contents' \in [1..(UsedSize - size) -> Byte]
    BY <2>2, <2>3
  <2>5. UsedSize - size \in Nat
    BY <1>6
  <2>. HIDE DEF Contents
  <2>6. Contents' \in Seq(Byte)
    BY <2>4, <2>5, SeqDef
  <2>7. Len(Contents') = UsedSize - size
    BY <2>4, <2>5, <2>6, LenProperties
  <2>8. \A k \in 1..(UsedSize - size) : Contents'[k] = Contents[size + k]
    BY <2>2
  <2>. QED  BY <2>6, <2>7, <2>8
<1>9. Contents' = SubSeq(Contents, size + 1, Len(Contents))
  <2>1. /\ SubSeq(Contents, size + 1, UsedSize) \in Seq(Byte)
        /\ Len(SubSeq(Contents, size + 1, UsedSize)) = UsedSize - size
        /\ \A i \in 1..(UsedSize - size) : SubSeq(Contents, size + 1, UsedSize)[i] = Contents[size + i]
    BY <1>5, <1>6, SubSeqProperties
  <2>. QED  BY <2>1, <1>4, <1>8, SeqEqual
<1>10. Contents # <<>>
  BY <1>4, <1>6, EmptySeq
<1>. QED  BY <1>3, <1>7, <1>9, <1>10

-----------------------------------------------------------------------------
(* The invariant. *)

(* A step that leaves the ring alone changes nothing that is computed from it. *)
LEMMA RingKept ==
    ASSUME UNCHANGED ring
    PROVE  /\ UsedSize' = UsedSize
           /\ SpaceSize' = SpaceSize
           /\ Contents' = Contents
           /\ RingInv => RingInv'
<1>1. UsedSize' = UsedSize
  BY DEF ring, UsedSize
<1>. QED  BY <1>1 DEF ring, SpaceSize, Contents, RingInv, RingType, FlagsAgree, BytesInv, Forward

(* The state in which the program starts satisfies it. *)
LEMMA InitInv == ASSUME Init PROVE AsyncInv
<1>1. 0 \in Slots
  BY AsyncLogAssumption DEF Slots
<1>2. UsedSize = 0
  BY <1>1 DEF Init, UsedSize, Slots
<1>3. TypeOK
  BY <1>1, AsyncLogAssumption, EmptySeq DEF Init, TypeOK, ProducerStates, OutputStates, OutputLvl
<1>4. RingInv
  BY <1>2, <1>3 DEF Init, TypeOK, RingInv, RingType, FlagsAgree, BytesInv
<1>5. LockInv /\ SizeInv /\ HandInv /\ WakeInv
  BY <1>2 DEF Init, LockInv, SizeInv, HandInv, WakeInv
<1>. QED  BY <1>3, <1>4, <1>5 DEF AsyncInv

LEMMA CreateThreadStep ==
    ASSUME AsyncInv, CreateThread
    PROVE  AsyncInv'
<1>1. /\ UsedSize' = UsedSize
      /\ SpaceSize' = SpaceSize
      /\ RingInv'
  BY RingKept DEF CreateThread, AsyncInv
<1>2. TypeOK'
  BY AsyncLogAssumption
     DEF AsyncInv, TypeOK, CreateThread, ring, producer, output, ProducerStates, OutputStates, OutputLvl
<1>3. LockInv'
  BY AsyncLogAssumption DEF AsyncInv, TypeOK, LockInv, CreateThread, Lockable, producer, output
<1>4. SizeInv'
  BY <1>1 DEF AsyncInv, TypeOK, LockInv, SizeInv, CreateThread, producer, output
<1>5. HandInv'
  BY DEF AsyncInv, HandInv, CreateThread, Polled, producer, output
<1>6. WakeInv'
  BY <1>1 DEF AsyncInv, TypeOK, LockInv, SizeInv, HandInv, WakeInv, CreateThread, Polled, producer, output
<1>. QED  BY <1>1, <1>2, <1>3, <1>4, <1>5, <1>6 DEF AsyncInv

LEMMA InitDoneStep ==
    ASSUME AsyncInv, InitDone
    PROVE  AsyncInv'
<1>1. /\ UsedSize' = UsedSize
      /\ SpaceSize' = SpaceSize
      /\ RingInv'
  BY RingKept DEF InitDone, AsyncInv
<1>2. TypeOK'
  BY AsyncLogAssumption
     DEF AsyncInv, TypeOK, InitDone, ring, producer, output, ProducerStates, OutputStates, OutputLvl
<1>3. LockInv'
  BY AsyncLogAssumption DEF AsyncInv, TypeOK, LockInv, InitDone, Lockable, producer, output
<1>4. SizeInv'
  BY <1>1 DEF AsyncInv, TypeOK, LockInv, SizeInv, InitDone, producer, output
<1>5. HandInv'
  BY DEF AsyncInv, HandInv, InitDone, Polled, producer, output
<1>6. WakeInv'
  BY <1>1 DEF AsyncInv, TypeOK, LockInv, SizeInv, HandInv, WakeInv, InitDone, Polled, producer, output
<1>. QED  BY <1>1, <1>2, <1>3, <1>4, <1>5, <1>6 DEF AsyncInv

LEMMA OutputLockStep ==
    ASSUME AsyncInv, NEW p \in Producers, OutputLock(p)
    PROVE  AsyncInv'
<1>1. /\ UsedSize' = UsedSize
      /\ SpaceSize' = SpaceSize
      /\ RingInv'
  BY RingKept DEF OutputLock, AsyncInv
<1>2. TypeOK'
  BY AsyncLogAssumption
     DEF AsyncInv, TypeOK, OutputLock, ring, producer, output, ProducerStates, OutputStates, OutputLvl
<1>3. LockInv'
  BY AsyncLogAssumption DEF AsyncInv, TypeOK, LockInv, OutputLock, Lockable, producer, output
<1>4. SizeInv'
  BY <1>1 DEF AsyncInv, TypeOK, LockInv, SizeInv, OutputLock, producer, output
<1>5. HandInv'
  BY DEF AsyncInv, HandInv, OutputLock, Polled, producer, output
<1>6. WakeInv'
  BY <1>1 DEF AsyncInv, TypeOK, LockInv, SizeInv, HandInv, WakeInv, OutputLock, Polled, producer, output
<1>. QED  BY <1>1, <1>2, <1>3, <1>4, <1>5, <1>6 DEF AsyncInv

LEMMA OutputDirectStep ==
    ASSUME AsyncInv, NEW p \in Producers, OutputDirect(p)
    PROVE  AsyncInv'
<1>1. /\ UsedSize' = UsedSize
      /\ SpaceSize' = SpaceSize
      /\ RingInv'
  BY RingKept DEF OutputDirect, AsyncInv
<1>7. written' \in Seq(Byte)
  BY AsyncLogAssumption, ConcatProperties DEF AsyncInv, TypeOK, SizeInv, OutputDirect
<1>2. TypeOK'
  BY <1>7, AsyncLogAssumption
     DEF AsyncInv, TypeOK, OutputDirect, ring, producer, output, ProducerStates, OutputStates, OutputLvl
<1>3. LockInv'
  BY AsyncLogAssumption DEF AsyncInv, TypeOK, LockInv, OutputDirect, Lockable, producer, output
<1>4. SizeInv'
  BY <1>1 DEF AsyncInv, TypeOK, LockInv, SizeInv, OutputDirect, producer, output
<1>5. HandInv'
  BY DEF AsyncInv, HandInv, OutputDirect, Polled, producer, output
<1>6. WakeInv'
  BY <1>1 DEF AsyncInv, TypeOK, LockInv, SizeInv, HandInv, WakeInv, OutputDirect, Polled, producer, output
<1>. QED  BY <1>1, <1>2, <1>3, <1>4, <1>5, <1>6 DEF AsyncInv

LEMMA MeasureSpaceStep ==
    ASSUME AsyncInv, NEW p \in Producers, MeasureSpace(p)
    PROVE  AsyncInv'
<1>1. /\ UsedSize' = UsedSize
      /\ SpaceSize' = SpaceSize
      /\ RingInv'
  BY RingKept DEF MeasureSpace, AsyncInv
<1>2. TypeOK'
  BY AsyncLogAssumption, UsedFacts
     DEF AsyncInv, TypeOK, MeasureSpace, ring, producer, output, ProducerStates, OutputStates, OutputLvl, RingInv, RingType, SpaceSize
<1>3. LockInv'
  BY AsyncLogAssumption DEF AsyncInv, TypeOK, LockInv, MeasureSpace, Lockable, producer, output
<1>4. SizeInv'
  BY <1>1 DEF AsyncInv, TypeOK, LockInv, SizeInv, MeasureSpace, producer, output
<1>5. HandInv'
  BY DEF AsyncInv, HandInv, MeasureSpace, Polled, producer, output
<1>6. WakeInv'
  BY <1>1 DEF AsyncInv, TypeOK, LockInv, SizeInv, HandInv, WakeInv, MeasureSpace, Polled, producer, output
<1>. QED  BY <1>1, <1>2, <1>3, <1>4, <1>5, <1>6 DEF AsyncInv

LEMMA PutNothingStep ==
    ASSUME AsyncInv, NEW p \in Producers, PutNothing(p)
    PROVE  AsyncInv'
<1>1. /\ UsedSize' = UsedSize
      /\ SpaceSize' = SpaceSize
      /\ RingInv'
  BY RingKept DEF PutNothing, AsyncInv
<1>2. TypeOK'
  BY AsyncLogAssumption
     DEF AsyncInv, TypeOK, PutNothing, ring, producer, output, ProducerStates, OutputStates, OutputLvl
<1>3. LockInv'
  BY AsyncLogAssumption DEF AsyncInv, TypeOK, LockInv, PutNothing, Lockable, producer, output
<1>4. SizeInv'
  BY <1>1 DEF AsyncInv, TypeOK, LockInv, SizeInv, PutNothing, producer, output
<1>5. HandInv'
  BY DEF AsyncInv, HandInv, PutNothing, Polled, producer, output
<1>6. WakeInv'
  BY <1>1 DEF AsyncInv, TypeOK, LockInv, SizeInv, HandInv, WakeInv, PutNothing, Polled, producer, output
<1>. QED  BY <1>1, <1>2, <1>3, <1>4, <1>5, <1>6 DEF AsyncInv

LEMMA OutputNoticeStep ==
    ASSUME AsyncInv, NEW p \in Producers, OutputNotice(p)
    PROVE  AsyncInv'
<1>1. /\ UsedSize' = UsedSize
      /\ SpaceSize' = SpaceSize
      /\ RingInv'
  BY RingKept DEF OutputNotice, AsyncInv
<1>2. TypeOK'
  BY AsyncLogAssumption
     DEF AsyncInv, TypeOK, OutputNotice, ring, producer, output, ProducerStates, OutputStates, OutputLvl
<1>3. LockInv'
  BY AsyncLogAssumption DEF AsyncInv, TypeOK, LockInv, OutputNotice, Lockable, producer, output
<1>4. SizeInv'
  BY <1>1 DEF AsyncInv, TypeOK, LockInv, SizeInv, OutputNotice, producer, output
<1>5. HandInv'
  BY DEF AsyncInv, HandInv, OutputNotice, Polled, producer, output
<1>6. WakeInv'
  BY <1>1 DEF AsyncInv, TypeOK, LockInv, SizeInv, HandInv, WakeInv, OutputNotice, Polled, producer, output
<1>. QED  BY <1>1, <1>2, <1>3, <1>4, <1>5, <1>6 DEF AsyncInv

LEMMA OutputUnlockStep ==
    ASSUME AsyncInv, NEW p \in Producers, OutputUnlock(p)
    PROVE  AsyncInv'
<1>1. /\ UsedSize' = UsedSize
      /\ SpaceSize' = SpaceSize
      /\ RingInv'
  BY RingKept DEF OutputUnlock, AsyncInv
<1>2. TypeOK'
  BY AsyncLogAssumption, EmptySeq
     DEF AsyncInv, TypeOK, OutputUnlock, ring, producer, output, ProducerStates, OutputStates, OutputLvl
<1>3. LockInv'
  BY AsyncLogAssumption DEF AsyncInv, TypeOK, LockInv, OutputUnlock, Lockable, producer, output
<1>4. SizeInv'
  BY <1>1 DEF AsyncInv, TypeOK, LockInv, SizeInv, OutputUnlock, producer, output
<1>5. HandInv'
  BY DEF AsyncInv, HandInv, OutputUnlock, Polled, producer, output
<1>6. WakeInv'
  BY <1>1 DEF AsyncInv, TypeOK, LockInv, SizeInv, HandInv, WakeInv, OutputUnlock, Polled, producer, output
<1>. QED  BY <1>1, <1>2, <1>3, <1>4, <1>5, <1>6 DEF AsyncInv

LEMMA AssertInitStep ==
    ASSUME AsyncInv, AssertInit
    PROVE  AsyncInv'
<1>1. /\ UsedSize' = UsedSize
      /\ SpaceSize' = SpaceSize
      /\ RingInv'
  BY RingKept DEF AssertInit, AsyncInv
<1>2. TypeOK'
  BY AsyncLogAssumption
     DEF AsyncInv, TypeOK, AssertInit, ring, producer, output, ProducerStates, OutputStates, OutputLvl
<1>3. LockInv'
  BY AsyncLogAssumption DEF AsyncInv, TypeOK, LockInv, AssertInit, Lockable, producer, output
<1>4. SizeInv'
  BY <1>1 DEF AsyncInv, TypeOK, LockInv, SizeInv, AssertInit, producer, output
<1>5. HandInv'
  BY DEF AsyncInv, HandInv, AssertInit, Polled, producer, output
<1>6. WakeInv'
  BY <1>1 DEF AsyncInv, TypeOK, LockInv, SizeInv, HandInv, WakeInv, AssertInit, Polled, producer, output
<1>. QED  BY <1>1, <1>2, <1>3, <1>4, <1>5, <1>6 DEF AsyncInv

LEMMA AwaitNoticeStep ==
    ASSUME AsyncInv, AwaitNotice
    PROVE  AsyncInv'
<1>1. /\ UsedSize' = UsedSize
      /\ SpaceSize' = SpaceSize
      /\ RingInv'
  BY RingKept DEF AwaitNotice, AsyncInv
<1>2. TypeOK'
  BY AsyncLogAssumption
     DEF AsyncInv, TypeOK, AwaitNotice, ring, producer, output, ProducerStates, OutputStates, OutputLvl
<1>3. LockInv'
  BY AsyncLogAssumption DEF AsyncInv, TypeOK, LockInv, AwaitNotice, Lockable, producer, output
<1>4. SizeInv'
  BY <1>1 DEF AsyncInv, TypeOK, LockInv, SizeInv, AwaitNotice, producer, output
<1>5. HandInv'
  BY DEF AsyncInv, HandInv, AwaitNotice, Polled, producer, output
<1>6. WakeInv'
  BY <1>1 DEF AsyncInv, TypeOK, LockInv, SizeInv, HandInv, WakeInv, AwaitNotice, Polled, producer, output
<1>. QED  BY <1>1, <1>2, <1>3, <1>4, <1>5, <1>6 DEF AsyncInv

LEMMA GetLockStep ==
    ASSUME AsyncInv, GetLock
    PROVE  AsyncInv'
<1>1. /\ UsedSize' = UsedSize
      /\ SpaceSize' = SpaceSize
      /\ RingInv'
  BY RingKept DEF GetLock, AsyncInv
<1>2. TypeOK'
  BY AsyncLogAssumption
     DEF AsyncInv, TypeOK, GetLock, ring, producer, output, ProducerStates, OutputStates, OutputLvl
<1>3. LockInv'
  BY AsyncLogAssumption DEF AsyncInv, TypeOK, LockInv, GetLock, Lockable, producer, output
<1>4. SizeInv'
  BY <1>1 DEF AsyncInv, TypeOK, LockInv, SizeInv, GetLock, producer, output
<1>5. HandInv'
  BY DEF AsyncInv, HandInv, GetLock, Polled, producer, output
<1>6. WakeInv'
  BY <1>1 DEF AsyncInv, TypeOK, LockInv, SizeInv, HandInv, WakeInv, GetLock, Polled, producer, output
<1>. QED  BY <1>1, <1>2, <1>3, <1>4, <1>5, <1>6 DEF AsyncInv

LEMMA MeasureUsedStep ==
    ASSUME AsyncInv, MeasureUsed
    PROVE  AsyncInv'
<1>1. /\ UsedSize' = UsedSize
      /\ SpaceSize' = SpaceSize
      /\ RingInv'
  BY RingKept DEF MeasureUsed, AsyncInv
<1>2. TypeOK'
  BY AsyncLogAssumption, UsedFacts
     DEF AsyncInv, TypeOK, MeasureUsed, ring, producer, output, ProducerStates, OutputStates, OutputLvl, RingInv, RingType
<1>3. LockInv'
  BY AsyncLogAssumption DEF AsyncInv, TypeOK, LockInv, MeasureUsed, Lockable, producer, output
<1>4. SizeInv'
  BY <1>1 DEF AsyncInv, TypeOK, LockInv, SizeInv, MeasureUsed, producer, output
<1>5. HandInv'
  BY DEF AsyncInv, HandInv, MeasureUsed, Polled, producer, output
<1>6. WakeInv'
  BY <1>1 DEF AsyncInv, TypeOK, LockInv, SizeInv, HandInv, WakeInv, MeasureUsed, Polled, producer, output
<1>. QED  BY <1>1, <1>2, <1>3, <1>4, <1>5, <1>6 DEF AsyncInv

LEMMA GetNothingStep ==
    ASSUME AsyncInv, GetNothing
    PROVE  AsyncInv'
<1>1. /\ UsedSize' = UsedSize
      /\ SpaceSize' = SpaceSize
      /\ RingInv'
  BY RingKept DEF GetNothing, AsyncInv
<1>2. TypeOK'
  BY AsyncLogAssumption
     DEF AsyncInv, TypeOK, GetNothing, ring, producer, output, ProducerStates, OutputStates, OutputLvl
<1>3. LockInv'
  BY AsyncLogAssumption DEF AsyncInv, TypeOK, LockInv, GetNothing, Lockable, producer, output
<1>4. SizeInv'
  BY <1>1 DEF AsyncInv, TypeOK, LockInv, SizeInv, GetNothing, producer, output
<1>5. HandInv'
  BY DEF AsyncInv, HandInv, GetNothing, Polled, producer, output
<1>6. WakeInv'
  BY <1>1 DEF AsyncInv, TypeOK, LockInv, SizeInv, HandInv, WakeInv, GetNothing, Polled, producer, output
<1>. QED  BY <1>1, <1>2, <1>3, <1>4, <1>5, <1>6 DEF AsyncInv

LEMMA GetUnlockStep ==
    ASSUME AsyncInv, GetUnlock
    PROVE  AsyncInv'
<1>1. /\ UsedSize' = UsedSize
      /\ SpaceSize' = SpaceSize
      /\ RingInv'
  BY RingKept DEF GetUnlock, AsyncInv
<1>2. TypeOK'
  BY AsyncLogAssumption, EmptySeq
     DEF AsyncInv, TypeOK, GetUnlock, ring, producer, output, ProducerStates, OutputStates, OutputLvl
<1>3. LockInv'
  BY AsyncLogAssumption DEF AsyncInv, TypeOK, LockInv, GetUnlock, Lockable, producer, output
<1>4. SizeInv'
  BY <1>1 DEF AsyncInv, TypeOK, LockInv, SizeInv, GetUnlock, producer, output
<1>5. HandInv'
  BY DEF AsyncInv, HandInv, GetUnlock, Polled, producer, output
<1>6. WakeInv'
  BY <1>1 DEF AsyncInv, TypeOK, LockInv, SizeInv, HandInv, WakeInv, GetUnlock, Polled, producer, output
<1>. QED  BY <1>1, <1>2, <1>3, <1>4, <1>5, <1>6 DEF AsyncInv

LEMMA WriteLogStep ==
    ASSUME AsyncInv, WriteLog
    PROVE  AsyncInv'
<1>1. /\ UsedSize' = UsedSize
      /\ SpaceSize' = SpaceSize
      /\ RingInv'
  BY RingKept DEF WriteLog, AsyncInv
<1>2. TypeOK'
  <2>1. written' \in Seq(Byte) /\ poll_get_buf' \in Seq(Byte)
    BY ConcatProperties, EmptySeq DEF AsyncInv, TypeOK, WriteLog
  <2>2. out' = "get"
    BY DEF WriteLog, Polled
  <2>3. UNCHANGED <<ring, init_ok, output_notice, lock, main, producer, used>>
    BY DEF WriteLog
  <2>. QED
    BY <2>1, <2>2, <2>3 DEF AsyncInv, TypeOK, ring, producer, OutputStates
<1>3. /\ out' = "get" /\ poll_get_buf' = <<>>
      /\ UNCHANGED <<lock, main, pc, line, space>>
  BY DEF WriteLog, Polled, producer
<1>4. LockInv'
  BY <1>3 DEF AsyncInv, LockInv
<1>5. SizeInv'
  BY <1>1, <1>3 DEF AsyncInv, SizeInv
<1>6. HandInv' /\ WakeInv'
  BY <1>3 DEF AsyncInv, HandInv, WakeInv, WriteLog
<1>. QED  BY <1>1, <1>2, <1>4, <1>5, <1>6 DEF AsyncInv

LEMMA PutStep ==
    ASSUME AsyncInv, NEW p \in Producers, Put(p)
    PROVE  AsyncInv'
<1>1. line[p] \in Lines /\ space[p] = SpaceSize /\ lock = p
  BY DEF AsyncInv, SizeInv, LockInv, Put
<1>2. RingInv'
  BY <1>1, PutRing DEF AsyncInv
<1>3. /\ pc' = [pc EXCEPT ![p] = "notice"]
      /\ UNCHANGED <<init_ok, output_notice, lock, main, line, level, space, logged, output, written>>
  BY DEF Put
<1>4. TypeOK'
  BY <1>2, <1>3 DEF AsyncInv, TypeOK, RingInv, RingType, ProducerStates, output
<1>5. LockInv' /\ HandInv'
  BY <1>3 DEF AsyncInv, TypeOK, LockInv, HandInv, output, Put
<1>6. SizeInv'
  BY <1>1, <1>3, AsyncLogAssumption DEF AsyncInv, TypeOK, LockInv, SizeInv, output, Put
<1>7. WakeInv'
  <2>1. pc'[p] = "notice"
    BY <1>3 DEF AsyncInv, TypeOK
  <2>2. out # "release"
    BY <1>1, AsyncLogAssumption DEF AsyncInv, LockInv
  <2>. QED  BY <2>1, <2>2, <1>3 DEF WakeInv, output
<1>. QED  BY <1>2, <1>4, <1>5, <1>6, <1>7 DEF AsyncInv

LEMMA GetLogStep ==
    ASSUME AsyncInv, GetLog
    PROVE  AsyncInv'
<1>1. used = UsedSize /\ lock = "output"
  BY DEF AsyncInv, SizeInv, LockInv, GetLog
<1>2. RingInv' /\ poll_get_buf' \in Seq(Byte) \ {<<>>}
  BY <1>1, GetRing, GetTakes DEF AsyncInv
<1>3. /\ out' = "release"
      /\ UNCHANGED <<init_ok, output_notice, lock, main, producer, used, written>>
  BY DEF GetLog
<1>4. TypeOK'
  BY <1>2, <1>3 DEF AsyncInv, TypeOK, RingInv, RingType, OutputStates, producer
<1>5. LockInv'
  BY <1>1, <1>3 DEF AsyncInv, LockInv, producer
<1>6. SizeInv'
  <2>1. \A q \in Producers : pc[q] = "idle"
    BY <1>1, AsyncLogAssumption DEF AsyncInv, LockInv
  <2>. QED  BY <2>1, <1>3 DEF AsyncInv, SizeInv, producer
<1>7. HandInv' /\ WakeInv'
  BY <1>2, <1>3 DEF AsyncInv, HandInv, WakeInv, GetLog
<1>. QED  BY <1>2, <1>4, <1>5, <1>6, <1>7 DEF AsyncInv

(* Every step keeps the invariant, one lemma per action. *)
LEMMA NextStep == AsyncInv /\ [Next]_vars => AsyncInv'
<1>. SUFFICES ASSUME AsyncInv, [Next]_vars PROVE AsyncInv'
  OBVIOUS
<1>1. CASE CreateThread
  BY <1>1, CreateThreadStep
<1>2. CASE InitDone
  BY <1>2, InitDoneStep
<1>3. ASSUME NEW p \in Producers, OutputLock(p) \/ Log(p) PROVE AsyncInv'
  BY <1>3, OutputLockStep, MeasureSpaceStep, OutputDirectStep, PutStep, PutNothingStep,
     OutputNoticeStep, OutputUnlockStep DEF Log
<1>4. CASE AsyncOutput
  BY <1>4, AssertInitStep, AwaitNoticeStep, GetLockStep, MeasureUsedStep, GetLogStep,
     GetNothingStep, GetUnlockStep, WriteLogStep DEF AsyncOutput
<1>5. CASE UNCHANGED vars
  <2>1. UsedSize' = UsedSize /\ SpaceSize' = SpaceSize /\ RingInv'
    BY <1>5, RingKept DEF vars, AsyncInv
  <2>2. TypeOK'
    BY <1>5 DEF AsyncInv, TypeOK, vars, ring, producer, output
  <2>3. LockInv' /\ SizeInv' /\ HandInv' /\ WakeInv'
    BY <1>5, <2>1 DEF AsyncInv, LockInv, SizeInv, HandInv, WakeInv, vars, producer, output
  <2>. QED  BY <2>1, <2>2, <2>3 DEF AsyncInv
<1>. QED  BY <1>1, <1>2, <1>3, <1>4, <1>5 DEF Next

LEMMA Invariant == Spec => []AsyncInv
<1>1. Init => AsyncInv
  BY InitInv
<1>. QED  BY <1>1, NextStep, PTL DEF Spec

-----------------------------------------------------------------------------
(* The theorems. *)

(* The variables keep their types: no index ever leaves log_buf, whatever  *)
(* is put and taken (elog_async.c:145-153, 238-246).                       *)
THEOREM AsyncTypeCorrect == Spec => []TypeOK
<1>1. AsyncInv => TypeOK
  BY DEF AsyncInv
<1>. QED  BY <1>1, Invariant, PTL

(* The full and empty flags agree with the indices in every state.         *)
THEOREM RingFlagsAgree == Spec => []FlagsAgree
<1>1. AsyncInv => FlagsAgree
  BY DEF AsyncInv, RingInv
<1>. QED  BY <1>1, Invariant, PTL

(* The output thread never waits with bytes in the ring and no notice sent *)
(* or about to be sent.                                                    *)
THEOREM NoWakeupIsLost == Spec => []NoLostWakeup
<1>1. AsyncInv => NoLostWakeup
  BY DEF AsyncInv, WakeInv, NoLostWakeup
<1>. QED  BY <1>1, Invariant, PTL

(* Ring, lock and output thread implement the bounded byte queue: every    *)
(* initial state is one of an empty queue, a put is an Accept, a get a     *)
(* TakeSome, the writes are Direct and WriteOut, and all else is a stutter.*)
THEOREM ImplementsQueue == Spec => IsBoundedQueue
<1>1. Init => Queue!QueueInit
  <2>. SUFFICES ASSUME Init PROVE Queue!QueueInit
    OBVIOUS
  <2>1. UsedSize = 0 /\ RingInv
    BY InitInv, UsedFacts DEF Init, AsyncInv, RingInv
  <2>2. Contents = <<>>
    BY <2>1, ContentsFacts, EmptySeq
  <2>. QED  BY <2>2 DEF Init, Queue!QueueInit
<1>2. AsyncInv /\ [Next]_vars => [Queue!QueueNext]_(Queue!queueVars)
  <2>. SUFFICES ASSUME AsyncInv, [Next]_vars PROVE [Queue!QueueNext]_(Queue!queueVars)
    OBVIOUS
  <2>1. ASSUME UNCHANGED ring, UNCHANGED <<poll_get_buf, written>>
        PROVE  UNCHANGED Queue!queueVars
    BY <2>1, RingKept DEF Queue!queueVars
  <2>2. CASE CreateThread \/ InitDone
    BY <2>1, <2>2 DEF CreateThread, InitDone, output
  <2>3. ASSUME NEW p \in Producers, OutputLock(p) \/ Log(p)
        PROVE  [Queue!QueueNext]_(Queue!queueVars)
    <3>1. CASE OutputDirect(p)
      <4>1. Contents' = Contents
        BY <3>1, RingKept DEF OutputDirect
      <4>2. line[p] \in Lines
        BY <3>1 DEF AsyncInv, SizeInv, OutputDirect
      <4>3. Queue!Direct(line[p])
        BY <3>1, <4>1 DEF Queue!Direct, OutputDirect, output
      <4>. QED  BY <4>2, <4>3 DEF Queue!QueueNext
    <3>2. CASE Put(p)
      <4>1. line[p] \in Lines /\ space[p] = SpaceSize
        BY <3>2 DEF AsyncInv, SizeInv, Put
      <4>2. Contents' = Contents \o
              SubSeq(line[p], 1, IF SpaceSize <= Len(line[p]) THEN SpaceSize ELSE Len(line[p]))
        BY <3>2, <4>1, PutAppends DEF AsyncInv
      <4>3. SpaceSize = BufSize - Len(Contents)
        BY ContentsFacts DEF AsyncInv, SpaceSize
      <4>4. Queue!Accept(line[p])
        BY <3>2, <4>2, <4>3 DEF Queue!Accept, Queue!AtMost, Put, output
      <4>. QED  BY <4>1, <4>4 DEF Queue!QueueNext
    <3>3. CASE OutputLock(p) \/ MeasureSpace(p) \/ PutNothing(p) \/ OutputNotice(p) \/ OutputUnlock(p)
      BY <2>1, <3>3 DEF OutputLock, MeasureSpace, PutNothing, OutputNotice, OutputUnlock, output
    <3>. QED  BY <2>3, <3>1, <3>2, <3>3 DEF Log
  <2>4. CASE AsyncOutput
    <3>1. CASE GetLog
      <4>1. used = UsedSize /\ poll_get_buf = <<>>
        BY <3>1 DEF AsyncInv, SizeInv, HandInv, GetLog
      <4>2. Len(Contents) = UsedSize
        BY ContentsFacts DEF AsyncInv
      <4>3. Queue!TakeSome
        BY <3>1, <4>1, <4>2, GetTakes DEF Queue!TakeSome, Queue!AtMost, GetLog, AsyncInv
      <4>. QED  BY <4>3 DEF Queue!QueueNext
    <3>2. CASE WriteLog
      <4>1. poll_get_buf # <<>> /\ Contents' = Contents
        BY <3>2, RingKept DEF AsyncInv, HandInv, WriteLog
      <4>2. Queue!WriteOut
        BY <3>2, <4>1 DEF Queue!WriteOut, WriteLog
      <4>. QED  BY <4>2 DEF Queue!QueueNext
    <3>3. CASE AssertInit \/ AwaitNotice \/ GetLock \/ MeasureUsed \/ GetNothing \/ GetUnlock
      BY <2>1, <3>3 DEF AssertInit, AwaitNotice, GetLock, MeasureUsed, GetNothing, GetUnlock
    <3>. QED  BY <2>4, <3>1, <3>2, <3>3 DEF AsyncOutput
  <2>5. CASE UNCHANGED vars
    BY <2>1, <2>5 DEF vars, output
  <2>. QED  BY <2>2, <2>3, <2>4, <2>5 DEF Next
<1>. QED  BY <1>1, <1>2, Invariant, PTL DEF Spec, IsBoundedQueue, Queue!QueueSpec
=============================================================================
