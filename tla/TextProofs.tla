----------------------------- MODULE TextProofs -----------------------------
EXTENDS MCTexts, SequenceTheorems, WellFoundedInduction, TLAPS

(* The least of some numbers: every induction below goes by it. *)
LEMMA LeastOf ==
    ASSUME NEW N, N \subseteq Nat, N # {}
    PROVE  \E m \in N : \A k \in N : m <= k
<1>1. IsWellFoundedOn(OpToRel(<, Nat), Nat)
  BY NatLessThanWellFounded
<1>2. PICK m \in N : \A k \in N : ~ (<<k, m>> \in OpToRel(<, Nat))
  BY <1>1, WFMin
<1>3. \A k \in N : ~ (k < m)
  BY <1>2 DEF OpToRel
<1>4. \A k \in N : m <= k
  BY <1>3
<1> QED
  BY <1>4

(* Induction over the numbers up to n, for a set of numbers. *)
LEMMA UpTo ==
    ASSUME NEW n \in Nat, NEW K, 0 \in K, \A i \in 1..n : i - 1 \in K => i \in K
    PROVE  \A i \in 0..n : i \in K
<1> DEFINE N == {i \in 0..n : i \notin K}
<1>1. SUFFICES ASSUME N # {} PROVE FALSE
  OBVIOUS
<1>2. N \subseteq Nat
  OBVIOUS
<1>3. PICK m \in N : \A k \in N : m <= k
  BY <1>1, <1>2, LeastOf, Zenon
<1>4. m \in 1..n
  OBVIOUS
<1>5. m - 1 \in 0..n /\ ~(m <= m - 1)
  BY <1>4
<1>6. m - 1 \in K
  BY <1>3, <1>5
<1> QED
  BY <1>4, <1>6

LEMMA MaxIn ==
    ASSUME NEW n \in Nat, NEW s, s \subseteq 1..n, s # {}
    PROVE  Max(s) \in s /\ \A k \in s : k <= Max(s)
<1> DEFINE N == {n - k : k \in s}
<1>1. N \subseteq Nat
  OBVIOUS
<1>8. N # {}
  OBVIOUS
<1>2. PICK m \in N : \A j \in N : m <= j
  BY <1>1, <1>8, LeastOf, Zenon
<1>3. PICK k \in s : m = n - k
  OBVIOUS
<1>4. \A j \in s : n - k <= n - j
  BY <1>2, <1>3
<1>5. \A j \in s : k >= j
  <2> SUFFICES ASSUME NEW j \in s PROVE k >= j
    OBVIOUS
  <2>1. k \in Nat /\ j \in Nat /\ n - k <= n - j
    BY <1>4
  <2> QED
    BY <2>1
<1>6. \A j \in s : Max(s) >= j
  BY <1>5 DEF Max
<1>7. Max(s) \in s
  BY <1>5 DEF Max
<1> QED
  BY <1>6, <1>7

LEMMA MaxOfPrefix ==
    ASSUME NEW n \in Nat, n > 0
    PROVE  Max(1..n) = n /\ (1..n) \ {n} = 1..(n - 1)
<1>1. 1..n # {} /\ n \in 1..n
  OBVIOUS
<1>2. Max(1..n) \in 1..n /\ \A k \in 1..n : k <= Max(1..n)
  BY <1>1, MaxIn, Zenon
<1> QED
  BY <1>1, <1>2

(* What makes the fold of a sequence well defined: the recursion of        *)
(* MapThenFoldSet over all subsets of the sequence's domain has a solution. *)
Folds(f, n, base, step) ==
    \A s \in SUBSET (1..n) :
        f[s] = IF s = {} THEN base ELSE step[<<f[s \ {Max(s)}], Max(s)>>]

LEMMA FoldFirst ==
    ASSUME NEW V, NEW base \in V, NEW step
    PROVE  \E f \in [SUBSET (1..0) -> V] : Folds(f, 0, base, step)
<1> DEFINE f == [s \in SUBSET (1..0) |-> base]
<1>1. f \in [SUBSET (1..0) -> V]
  OBVIOUS
<1>2. ASSUME NEW s \in SUBSET (1..0) PROVE s = {} /\ f[s] = base
  <2>1. \A i \in 1..0 : FALSE
    OBVIOUS
  <2>2. s = {}
    BY <2>1
  <2> QED
    BY <2>2
<1>3. Folds(f, 0, base, step)
  BY <1>2 DEF Folds
<1> QED
  BY <1>1, <1>3

LEMMA FoldNext ==
    ASSUME NEW V, NEW base \in V, NEW m \in Nat, m > 0,
           NEW step, \A v \in V : step[<<v, m>>] \in V,
           NEW g \in [SUBSET (1..(m - 1)) -> V], Folds(g, m - 1, base, step)
    PROVE  \E f \in [SUBSET (1..m) -> V] : Folds(f, m, base, step)
<1> DEFINE f == [s \in SUBSET (1..m) |-> IF m \in s THEN step[<<g[s \ {m}], m>>] ELSE g[s]]
<1>1. ASSUME NEW s \in SUBSET (1..m)
      PROVE  s \ {m} \in SUBSET (1..(m - 1))
  OBVIOUS
<1>2. ASSUME NEW s \in SUBSET (1..m), m \notin s
      PROVE  s \in SUBSET (1..(m - 1)) /\ s \ {m} = s
  <2>1. s \ {m} = s
    BY <1>2
  <2> QED
    BY <2>1, <1>1
<1>3. ASSUME NEW s \in SUBSET (1..m)
      PROVE  f[s] \in V
  <2>1. CASE m \in s
    <3>1. g[s \ {m}] \in V
      BY <1>1
    <3> QED
      BY <3>1, <2>1
  <2>2. CASE m \notin s
    <3>1. g[s] \in V
      BY <2>2, <1>2
    <3> QED
      BY <3>1, <2>2
  <2> QED
    BY <2>1, <2>2
<1>4. ASSUME NEW s \in SUBSET (1..m), s # {}
      PROVE  f[s] = step[<<f[s \ {Max(s)}], Max(s)>>]
  <2>1. Max(s) \in s /\ \A k \in s : k <= Max(s)
    BY <1>4, MaxIn
  <2>2. s \ {Max(s)} \in SUBSET (1..m)
    OBVIOUS
  <2>3. CASE m \in s
    <3>1. Max(s) \in 1..m /\ m <= Max(s)
      BY <2>1, <2>3
    <3>2. Max(s) = m
      BY <3>1
    <3>3. f[s \ {m}] = g[s \ {m}]
      BY <2>2, <3>2
    <3> QED
      BY <3>2, <3>3, <2>3
  <2>4. CASE m \notin s
    <3>1. s \in SUBSET (1..(m - 1)) /\ f[s] = g[s]
      BY <2>4, <1>2
    <3>2. f[s \ {Max(s)}] = g[s \ {Max(s)}]
      BY <2>2, <2>4
    <3>3. g[s] = step[<<g[s \ {Max(s)}], Max(s)>>]
      BY <1>4, <3>1, Zenon DEF Folds
    <3> QED
      BY <3>1, <3>2, <3>3
  <2> QED
    BY <2>3, <2>4
<1>5. f[{}] = base
  <2>1. {} \in SUBSET (1..m) /\ {} \in SUBSET (1..(m - 1)) /\ m \notin {}
    OBVIOUS
  <2>2. f[{}] = g[{}]
    BY <2>1
  <2>3. g[{}] = base
    BY <2>1 DEF Folds
  <2> QED
    BY <2>2, <2>3
<1>6. Folds(f, m, base, step)
  <2> HIDE DEF f
  <2> QED
    BY <1>4, <1>5 DEF Folds
<1>7. f \in [SUBSET (1..m) -> V]
  BY <1>3
<1> QED
  BY <1>6, <1>7

LEMMA FoldExists ==
    ASSUME NEW V, NEW base \in V, NEW n \in Nat, NEW step,
           \A v \in V, i \in 1..n : step[<<v, i>>] \in V
    PROVE  \E f \in [SUBSET (1..n) -> V] : Folds(f, n, base, step)
<1> DEFINE Has(k) == \E f \in [SUBSET (1..k) -> V] : Folds(f, k, base, step)
           K == {k \in Nat : Has(k)}
<1>1. Has(0)
  BY FoldFirst
<1>2. ASSUME NEW m \in 1..n, Has(m - 1)
      PROVE  Has(m)
  <2>1. PICK g \in [SUBSET (1..(m - 1)) -> V] : Folds(g, m - 1, base, step)
    BY <1>2
  <2>2. m \in Nat /\ m > 0 /\ \A v \in V : step[<<v, m>>] \in V
    OBVIOUS
  <2> QED
    BY <2>1, <2>2, FoldNext
<1> HIDE DEF Has
<1>3. 0 \in K /\ \A i \in 1..n : i - 1 \in K => i \in K
  BY <1>1, <1>2
<1>4. n \in K
  <2>1. n \in 0..n
    OBVIOUS
  <2> HIDE DEF K
  <2> QED
    BY <1>3, <2>1, UpTo
<1> QED
  BY <1>4 DEF Has

-----------------------------------------------------------------------------
(* The decoder reads one character after the other.                        *)

Acc(phase, out, part) == [phase |-> phase, out |-> out, part |-> part]

States == [phase : 0..6, out : Seq(Nat), part : Nat]

LEMMA AccState ==
    ASSUME NEW phase \in 0..6, NEW out \in Seq(Nat), NEW part \in Nat
    PROVE  /\ Acc(phase, out, part) \in States
           /\ Acc(phase, out, part).phase = phase
           /\ Acc(phase, out, part).out = out
           /\ Acc(phase, out, part).part = part
  BY DEF Acc, States

LEMMA StateAcc ==
    ASSUME NEW acc \in States
    PROVE  /\ acc.phase \in 0..6 /\ acc.out \in Seq(Nat) /\ acc.part \in Nat
           /\ acc = Acc(acc.phase, acc.out, acc.part)
<1>1. acc.phase \in 0..6 /\ acc.out \in Seq(Nat) /\ acc.part \in Nat
  BY DEF States
<1>2. acc = Acc(acc.phase, acc.out, acc.part)
  BY DEF Acc, States
<1> QED
  BY <1>1, <1>2

(* White space is skipped, and nothing is read after an error. *)
LEMMA SkipIs ==
    ASSUME NEW acc \in States, NEW ch, NEW size, ch = Space \/ acc.phase = Wrong
    PROVE  Read(acc, ch, size) = acc
  BY DEF Read

LEMMA PadIs ==
    ASSUME NEW acc \in States, acc.phase # Wrong, NEW size
    PROVE  Read(acc, Pad, size) =
              IF acc.phase = 2 THEN Acc(WantPad, acc.out, acc.part)
              ELSE IF acc.phase \in {3, WantPad} /\ acc.part = 0 THEN Acc(Ended, acc.out, 0)
              ELSE Failed
<1>1. Read(acc, Pad, size) = PadRead(acc)
  BY DEF Read, Pad, Space
<1>2. \A q \in 0..6 : [acc EXCEPT !.phase = q] = Acc(q, acc.out, acc.part)
  BY DEF Acc, States
<1>3. WantPad \in 0..6 /\ Ended \in 0..6 /\ WantPad # 2 /\ WantPad # 3
  BY DEF WantPad, Ended
<1> QED
  BY <1>1, <1>2, <1>3 DEF PadRead

(* What reading a digit does in each phase. *)
LEMMA DigitIs ==
    ASSUME NEW acc \in States, NEW d \in Digits, NEW size \in Nat, acc.phase # Wrong
    PROVE  LET out == acc.out
               full == Len(out) >= size
               last == Len(out) + 1 >= size
           IN  /\ acc.phase = 0 => Read(acc, d, size) =
                     IF full THEN Failed ELSE Acc(1, out, d * 4)
               /\ acc.phase = 1 => Read(acc, d, size) =
                     IF full \/ (last /\ (d % 16) * 16 # 0) THEN Failed
                     ELSE Acc(2, Append(out, acc.part + d \div 16), (d % 16) * 16)
               /\ acc.phase = 2 => Read(acc, d, size) =
                     IF full \/ (last /\ (d % 4) * 64 # 0) THEN Failed
                     ELSE Acc(3, Append(out, acc.part + d \div 4), (d % 4) * 64)
               /\ acc.phase = 3 => Read(acc, d, size) =
                     IF full THEN Failed ELSE Acc(0, Append(out, acc.part + d), 0)
               /\ acc.phase \notin 0..3 => Read(acc, d, size) = Failed
<1>1. d # Space /\ d # Pad
  BY DEF Digits, Space, Pad
<1>2. Read(acc, d, size) = IF acc.phase \in 0..3 THEN DigitRead(acc, d, size) ELSE Failed
  BY <1>1 DEF Read
<1>3. \A byte, rest : acc.phase \in 0..3 => Complete(acc, byte, rest, size) =
         IF Len(acc.out) + 1 >= size /\ rest # 0 THEN Failed
         ELSE Acc((acc.phase + 1) % 4, Append(acc.out, byte), rest)
  BY DEF Complete, Acc
<1>4. ASSUME acc.phase = 0
      PROVE  Read(acc, d, size) =
                IF Len(acc.out) >= size THEN Failed
                ELSE Acc(1, acc.out, d * 4)
  <2>1. [acc EXCEPT !.phase = 1] = Acc(1, acc.out, acc.part)
    BY DEF Acc, States
  <2>2. [Acc(1, acc.out, acc.part) EXCEPT !.part = d * 4] = Acc(1, acc.out, d * 4)
    BY DEF Acc
  <2>3. [acc EXCEPT !.phase = 1, !.part = d * 4] = [[acc EXCEPT !.phase = 1] EXCEPT !.part = d * 4]
    BY DEF States
  <2>4. DigitRead(acc, d, size) = IF Len(acc.out) >= size THEN Failed
                                  ELSE [acc EXCEPT !.phase = 1, !.part = d * 4]
    BY <1>4 DEF DigitRead
  <2> QED
    <3>1. acc.phase \in 0..3
      BY <1>4
    <3>2. Read(acc, d, size) = DigitRead(acc, d, size)
      BY <1>2, <3>1
    <3> QED
      BY <2>1, <2>2, <2>3, <2>4, <3>2, Zenon
<1>5. ASSUME acc.phase = 1
      PROVE  Read(acc, d, size) =
                IF Len(acc.out) >= size \/ (Len(acc.out) + 1 >= size /\ (d % 16) * 16 # 0) THEN Failed
                ELSE Acc(2, Append(acc.out, acc.part + d \div 16), (d % 16) * 16)
  <2>1. DigitRead(acc, d, size) = IF Len(acc.out) >= size THEN Failed
                                  ELSE Complete(acc, acc.part + d \div 16, (d % 16) * 16, size)
    BY <1>5 DEF DigitRead
  <2>2. (acc.phase + 1) % 4 = 2 /\ acc.phase \in 0..3
    BY <1>5
  <2>3. Complete(acc, acc.part + d \div 16, (d % 16) * 16, size) =
           IF Len(acc.out) + 1 >= size /\ (d % 16) * 16 # 0 THEN Failed
           ELSE Acc(2, Append(acc.out, acc.part + d \div 16), (d % 16) * 16)
    <3> DEFINE byte == acc.part + d \div 16
               rest == (d % 16) * 16
    <3> HIDE DEF byte, rest
    <3>1. Complete(acc, byte, rest, size) =
             IF Len(acc.out) + 1 >= size /\ rest # 0 THEN Failed
             ELSE Acc(2, Append(acc.out, byte), rest)
      BY <1>3, <2>2
    <3> QED
      BY <3>1 DEF byte, rest
  <2>4. Read(acc, d, size) = DigitRead(acc, d, size)
    BY <1>2, <2>2
  <2> QED
    BY <2>1, <2>3, <2>4
<1>6. ASSUME acc.phase = 2
      PROVE  Read(acc, d, size) =
                IF Len(acc.out) >= size \/ (Len(acc.out) + 1 >= size /\ (d % 4) * 64 # 0) THEN Failed
                ELSE Acc(3, Append(acc.out, acc.part + d \div 4), (d % 4) * 64)
  <2>1. DigitRead(acc, d, size) = IF Len(acc.out) >= size THEN Failed
                                  ELSE Complete(acc, acc.part + d \div 4, (d % 4) * 64, size)
    BY <1>6 DEF DigitRead
  <2>2. (acc.phase + 1) % 4 = 3 /\ acc.phase \in 0..3
    BY <1>6
  <2>3. Complete(acc, acc.part + d \div 4, (d % 4) * 64, size) =
           IF Len(acc.out) + 1 >= size /\ (d % 4) * 64 # 0 THEN Failed
           ELSE Acc(3, Append(acc.out, acc.part + d \div 4), (d % 4) * 64)
    <3> DEFINE byte == acc.part + d \div 4
               rest == (d % 4) * 64
    <3> HIDE DEF byte, rest
    <3>1. Complete(acc, byte, rest, size) =
             IF Len(acc.out) + 1 >= size /\ rest # 0 THEN Failed
             ELSE Acc(3, Append(acc.out, byte), rest)
      BY <1>3, <2>2
    <3> QED
      BY <3>1 DEF byte, rest
  <2>4. Read(acc, d, size) = DigitRead(acc, d, size)
    BY <1>2, <2>2
  <2> QED
    BY <2>1, <2>3, <2>4
<1>7. ASSUME acc.phase = 3
      PROVE  Read(acc, d, size) =
                IF Len(acc.out) >= size THEN Failed
                ELSE Acc(0, Append(acc.out, acc.part + d), 0)
  <2>1. DigitRead(acc, d, size) = IF Len(acc.out) >= size THEN Failed
                                  ELSE Complete(acc, acc.part + d, 0, size)
    BY <1>7 DEF DigitRead
  <2>2. (acc.phase + 1) % 4 = 0 /\ acc.phase \in 0..3
    BY <1>7
  <2> QED
    BY <1>2, <1>3, <1>7, <2>1, <2>2
<1>8. acc.phase \notin 0..3 => Read(acc, d, size) = Failed
  BY <1>2
<1> QED
  BY <1>4, <1>5, <1>6, <1>7, <1>8

LEMMA OtherIs ==
    ASSUME NEW acc \in States, NEW ch, NEW size,
           acc.phase # Wrong, ch # Space, ch # Pad, ch \notin Digits
    PROVE  Read(acc, ch, size) = Failed
  BY DEF Read

LEMMA FailedState == Failed \in States /\ Failed.phase = Wrong
  BY DEF Failed, States, Wrong

LEMMA DigitNats ==
    ASSUME NEW d \in Digits
    PROVE  /\ d * 4 \in Nat /\ d \div 16 \in Nat /\ (d % 16) * 16 \in Nat
           /\ d \div 4 \in Nat /\ (d % 4) * 64 \in Nat /\ d \in Nat
  BY DEF Digits

LEMMA ReadState ==
    ASSUME NEW acc \in States, NEW ch \in Chars, NEW size \in Nat
    PROVE  Read(acc, ch, size) \in States
<1> USE FailedState
<1>1. CASE ch = Space \/ acc.phase = Wrong
  BY <1>1, SkipIs
<1>2. CASE ch = Pad /\ acc.phase # Wrong
  <2>1. WantPad \in 0..6 /\ Ended \in 0..6 /\ 0 \in Nat
    BY DEF WantPad, Ended
  <2>2. Acc(WantPad, acc.out, acc.part) \in States /\ Acc(Ended, acc.out, 0) \in States
    BY <2>1, StateAcc, AccState
  <2> QED
    BY <1>2, <2>2, PadIs
<1>3. CASE ch \in Digits /\ acc.phase # Wrong
  <2>1. acc.out \in Seq(Nat) /\ acc.part \in Nat
    BY StateAcc
  <2>2. \A x \in Nat : Append(acc.out, acc.part + x) \in Seq(Nat)
    BY <2>1
  <2>3. \A q \in 0..3, o \in Seq(Nat), x \in Nat : Acc(q, o, x) \in States
    BY AccState
  <2>4. 0 \in 0..3 /\ 1 \in 0..3 /\ 2 \in 0..3 /\ 3 \in 0..3 /\ 0 \in Nat
    OBVIOUS
  <2>5. /\ ch * 4 \in Nat /\ ch \div 16 \in Nat /\ (ch % 16) * 16 \in Nat
        /\ ch \div 4 \in Nat /\ (ch % 4) * 64 \in Nat /\ ch \in Nat
    BY <1>3, DigitNats
  <2>6. CASE acc.phase = 0
    BY <1>3, <2>1, <2>3, <2>4, <2>5, <2>6, DigitIs
  <2>7. CASE acc.phase = 1
    <3>1. Acc(2, Append(acc.out, acc.part + ch \div 16), (ch % 16) * 16) \in States
      BY <2>2, <2>3, <2>4, <2>5
    <3> QED
      BY <1>3, <2>7, <3>1, DigitIs
  <2>8. CASE acc.phase = 2
    <3>1. Acc(3, Append(acc.out, acc.part + ch \div 4), (ch % 4) * 64) \in States
      BY <2>2, <2>3, <2>4, <2>5
    <3> QED
      BY <1>3, <2>8, <3>1, DigitIs
  <2>9. CASE acc.phase = 3
    <3>1. Acc(0, Append(acc.out, acc.part + ch), 0) \in States
      BY <2>2, <2>3, <2>4, <2>5
    <3> QED
      BY <1>3, <2>9, <3>1, DigitIs
  <2>10. CASE acc.phase \notin 0..3
    BY <1>3, <2>10, DigitIs
  <2> QED
    BY <2>6, <2>7, <2>8, <2>9, <2>10
<1>4. CASE ch # Space /\ ch # Pad /\ ch \notin Digits /\ acc.phase # Wrong
  BY <1>4, OtherIs
<1> QED
  BY <1>1, <1>2, <1>3, <1>4

(* last in Decode *)
LastAcc(text, size) == FoldLeft(LAMBDA acc, ch : Read(acc, ch, size), Start, text)

LastOf(f, text, size) ==
    f = [s \in SUBSET DOMAIN text |->
            IF s = {} THEN Start ELSE Read(f[s \ {Max(s)}], text[Max(s)], size)]

LEMMA ReadRun ==
    ASSUME NEW text \in Seq(Chars), NEW size \in Nat
    PROVE  \E r \in [0..Len(text) -> States] :
              /\ r[0] = Start
              /\ \A i \in 1..Len(text) : r[i] = Read(r[i - 1], text[i], size)
              /\ Decode(text, size) = IF r[Len(text)].phase \in {0, Ended}
                                      THEN r[Len(text)].out ELSE Error
<1> DEFINE n == Len(text)
           step == [p \in States \X (1..n) |-> Read(p[1], text[p[2]], size)]
           chosen == CHOOSE f : LastOf(f, text, size)
<1>1. n \in Nat /\ DOMAIN text = 1..n /\ \A i \in 1..n : text[i] \in Chars
  OBVIOUS
<1>2. Start \in States
  BY DEF Start, States
<1>3. \A v \in States, i \in 1..n : step[<<v, i>>] = Read(v, text[i], size)
  OBVIOUS
<1>4. \A v \in States, i \in 1..n : step[<<v, i>>] \in States
  BY <1>1, <1>3, ReadState
<1> HIDE DEF n, step
<1>5. PICK f \in [SUBSET (1..n) -> States] : Folds(f, n, Start, step)
  BY <1>1, <1>2, <1>4, FoldExists, Zenon
<1>6. LastOf(f, text, size)
  <2>1. ASSUME NEW s \in SUBSET (1..n), s # {}
        PROVE  f[s] = Read(f[s \ {Max(s)}], text[Max(s)], size)
    <3>1. Max(s) \in 1..n
      BY <1>1, <2>1, MaxIn
    <3>2. s \ {Max(s)} \in SUBSET (1..n)
      OBVIOUS
    <3>3. f[s] = step[<<f[s \ {Max(s)}], Max(s)>>]
      BY <1>5, <2>1, Zenon DEF Folds
    <3> QED
      BY <1>3, <1>5, <3>1, <3>2, <3>3
  <2>2. f[{}] = Start
    BY <1>5 DEF Folds
  <2> QED
    BY <1>1, <1>5, <2>1, <2>2 DEF LastOf
<1>7. LastOf(chosen, text, size)
  BY <1>6
<1>8. chosen[1..n] = LastAcc(text, size)
  BY <1>1, Zenon DEF LastAcc, FoldLeft, MapThenFoldSet, LastOf
<1> HIDE DEF chosen
<1>9. chosen[1..0] = Start /\ \A i \in 1..n : chosen[1..i] = Read(chosen[1..(i - 1)], text[i], size)
  <2>1. ASSUME NEW i \in 1..n
        PROVE  chosen[1..i] = Read(chosen[1..(i - 1)], text[i], size)
    <3>1. Max(1..i) = i /\ (1..i) \ {i} = 1..(i - 1)
      BY <1>1, MaxOfPrefix
    <3>2. 1..i \in SUBSET (1..n) /\ 1..i # {}
      <4>1. i \in 1..i /\ \A k \in 1..i : k \in 1..n
        BY <1>1
      <4> QED
        BY <4>1
    <3>3. chosen[1..i] = Read(chosen[(1..i) \ {Max(1..i)}], text[Max(1..i)], size)
      BY <1>1, <1>7, <3>2, Zenon DEF LastOf
    <3> QED
      BY <3>1, <3>3, Zenon
  <2>2. 1..0 = {}
    OBVIOUS
  <2>3. {} \in SUBSET DOMAIN text
    OBVIOUS
  <2> QED
    BY <1>7, <2>1, <2>2, <2>3, Zenon DEF LastOf
<1>10. \A i \in 0..n : chosen[1..i] \in States
  <2> DEFINE K == {i \in 0..n : chosen[1..i] \in States}
  <2>1. 0 \in K
    BY <1>1, <1>2, <1>9
  <2>2. \A i \in 1..n : i - 1 \in K => i \in K
    BY <1>1, <1>9, ReadState
  <2>3. \A i \in 0..n : i \in K
    <3> HIDE DEF K
    <3> QED
      BY <1>1, <2>1, <2>2, UpTo
  <2> QED
    BY <2>3
<1> DEFINE r == [i \in 0..n |-> chosen[1..i]]
<1>11. r \in [0..n -> States]
  BY <1>10
<1>12. /\ r[0] = Start /\ r[n] = LastAcc(text, size)
       /\ \A i \in 1..n : r[i] = Read(r[i - 1], text[i], size)
  <2>1. \A i \in 1..n : i \in 0..n /\ i - 1 \in 0..n
    BY <1>1
  <2>2. 0 \in 0..n /\ n \in 0..n
    BY <1>1
  <2> QED
    BY <1>8, <1>9, <2>1, <2>2
<1>13. Decode(text, size) = IF r[n].phase \in {0, Ended} THEN r[n].out ELSE Error
  <2>1. Decode(text, size) = IF LastAcc(text, size).phase \in {0, Ended}
                             THEN LastAcc(text, size).out ELSE Error
    BY Zenon DEF Decode, LastAcc
  <2> QED
    BY <1>12, <2>1
<1> HIDE DEF r
<1> QED
  BY <1>11, <1>12, <1>13, Zenon DEF n

-----------------------------------------------------------------------------
LEMMA DigitsOf ==
    ASSUME NEW a \in Bytes, NEW b \in Bytes, NEW c \in Bytes
    PROVE  /\ \A j \in 1..4 : Digit(a, b, c, j) \in Digits
           /\ Digit(a, b, c, 1) * 4 = (a \div 4) * 4
           /\ (a \div 4) * 4 + Digit(a, b, c, 2) \div 16 = a
           /\ (Digit(a, b, c, 2) % 16) * 16 = (b \div 16) * 16
           /\ (b \div 16) * 16 + Digit(a, b, c, 3) \div 4 = b
           /\ (Digit(a, b, c, 3) % 4) * 64 = (c \div 64) * 64
           /\ (c \div 64) * 64 + Digit(a, b, c, 4) = c
<1>1. /\ Digit(a, b, c, 1) \in Digits /\ Digit(a, b, c, 2) \in Digits
      /\ Digit(a, b, c, 3) \in Digits /\ Digit(a, b, c, 4) \in Digits
  BY DEF Digit, Digits, Bytes
<1>2. \A j \in 1..4 : Digit(a, b, c, j) \in Digits
  BY <1>1
<1>3. Digit(a, b, c, 1) * 4 = (a \div 4) * 4
  BY DEF Digit, Bytes
<1>4. (a \div 4) * 4 + Digit(a, b, c, 2) \div 16 = a
  BY DEF Digit, Bytes
<1>5. (Digit(a, b, c, 2) % 16) * 16 = (b \div 16) * 16
  BY DEF Digit, Bytes
<1>6. (b \div 16) * 16 + Digit(a, b, c, 3) \div 4 = b
  BY DEF Digit, Bytes
<1>7. (Digit(a, b, c, 3) % 4) * 64 = (c \div 64) * 64
  BY DEF Digit, Bytes
<1>8. (c \div 64) * 64 + Digit(a, b, c, 4) = c
  BY DEF Digit, Bytes
<1> QED
  BY <1>2, <1>3, <1>4, <1>5, <1>6, <1>7, <1>8

(* Reading on while there is room. *)
LEMMA DigitStep ==
    ASSUME NEW o \in Seq(Nat), NEW p \in Nat, NEW d \in Digits, NEW size \in Nat,
           Len(o) + 1 < size
    PROVE  /\ Read(Acc(0, o, p), d, size) = Acc(1, o, d * 4)
           /\ Read(Acc(1, o, p), d, size) = Acc(2, Append(o, p + d \div 16), (d % 16) * 16)
           /\ Read(Acc(2, o, p), d, size) = Acc(3, Append(o, p + d \div 4), (d % 4) * 64)
           /\ Read(Acc(3, o, p), d, size) = Acc(0, Append(o, p + d), 0)
<1>1. Len(o) \in Nat /\ ~(Len(o) >= size) /\ ~(Len(o) + 1 >= size)
  OBVIOUS
<1>2. ASSUME NEW q \in 0..3
      PROVE  /\ Acc(q, o, p) \in States
             /\ Acc(q, o, p).phase = q /\ q # Wrong
             /\ Acc(q, o, p).out = o /\ Acc(q, o, p).part = p
  <2>1. q \in 0..6 /\ q # Wrong
    BY DEF Wrong
  <2> QED
    BY <2>1, AccState
<1>3. Read(Acc(0, o, p), d, size) = Acc(1, o, d * 4)
  BY <1>1, <1>2, DigitIs
<1>4. Read(Acc(1, o, p), d, size) = Acc(2, Append(o, p + d \div 16), (d % 16) * 16)
  BY <1>1, <1>2, DigitIs
<1>5. Read(Acc(2, o, p), d, size) = Acc(3, Append(o, p + d \div 4), (d % 4) * 64)
  BY <1>1, <1>2, DigitIs
<1>6. Read(Acc(3, o, p), d, size) = Acc(0, Append(o, p + d), 0)
  BY <1>1, <1>2, DigitIs
<1> QED
  BY <1>3, <1>4, <1>5, <1>6

LEMMA PadStep ==
    ASSUME NEW o \in Seq(Nat), NEW size \in Nat
    PROVE  /\ Read(Acc(2, o, 0), Pad, size) = Acc(WantPad, o, 0)
           /\ Read(Acc(3, o, 0), Pad, size) = Acc(Ended, o, 0)
           /\ Read(Acc(WantPad, o, 0), Pad, size) = Acc(Ended, o, 0)
<1>1. ASSUME NEW q \in {2, 3, WantPad}
      PROVE  /\ Acc(q, o, 0) \in States
             /\ Acc(q, o, 0).phase = q /\ q # Wrong
             /\ Acc(q, o, 0).out = o /\ Acc(q, o, 0).part = 0
  <2>1. q \in 0..6 /\ q # Wrong /\ 0 \in Nat
    BY DEF Wrong, WantPad
  <2> QED
    BY <2>1, AccState
<1>2. WantPad # 2
  BY DEF WantPad
<1> QED
  BY <1>1, <1>2, PadIs

(* The i-th character of a written number. *)
CharAt(src, i) ==
    LET first == 3 * ((i - 1) \div 4) + 1
        j == ((i - 1) % 4) + 1
    IN  IF first + j - 2 > Len(src) THEN Pad
        ELSE Digit(ByteAt(src, first), ByteAt(src, first + 1), ByteAt(src, first + 2), j)

LEMMA Written ==
    ASSUME NEW src \in Seq(Bytes)
    PROVE  /\ do_b64_encrypt(src) = [i \in 1..4 * Groups(Len(src)) |-> CharAt(src, i)]
           /\ do_b64_encrypt(src) \in Seq(Chars)
           /\ Len(do_b64_encrypt(src)) = 4 * Groups(Len(src))
           /\ do_b64_encrypt(src) # Error
<1> DEFINE n == 4 * Groups(Len(src))
           text == [i \in 1..n |-> CharAt(src, i)]
<1>1. Len(src) \in Nat /\ n \in Nat /\ \A i \in 1..Len(src) : src[i] \in Bytes
  BY DEF Groups
<1>2. \A i \in Nat : i > 0 => ByteAt(src, i) \in Bytes
  BY <1>1 DEF ByteAt, Bytes
<1>3. ASSUME NEW i \in 1..n
      PROVE  CharAt(src, i) \in Digits \union {Pad}
  <2> DEFINE first == 3 * ((i - 1) \div 4) + 1
             j == ((i - 1) % 4) + 1
  <2>1. first \in Nat /\ first > 0 /\ j \in 1..4
    BY <1>1
  <2> HIDE DEF first, j
  <2>2. Digit(ByteAt(src, first), ByteAt(src, first + 1), ByteAt(src, first + 2), j) \in Digits
    BY <2>1, <1>2, DigitsOf
  <2> QED
    BY <2>2 DEF CharAt, first, j
<1>4. \A i \in 1..n : CharAt(src, i) \in Chars
  BY <1>3 DEF Chars
<1>5. text \in Seq(Chars) /\ Len(text) = n
  BY <1>1, <1>4
<1>6. EncodeSize(Len(src)) = n + 1
  BY <1>1 DEF EncodeSize, B64_ENCODE_LEN, Groups
<1>7. Encode(src, EncodeSize(Len(src))) = IF Len(text) >= EncodeSize(Len(src)) THEN Error ELSE text
  BY Zenon DEF Encode, CharAt
<1>8. do_b64_encrypt(src) = text
  BY <1>1, <1>5, <1>6, <1>7 DEF do_b64_encrypt
<1>9. text # Error
  <2>1. n # 1
    BY <1>1 DEF Groups
  <2>2. Len(Error) = 1
    BY DEF Error
  <2> QED
    BY <1>5, <2>1, <2>2
<1> QED
  BY <1>5, <1>8, <1>9

(* The first bytes, as they are put together one by one. *)
First(src, k) == SubSeq(src, 1, k)

LEMMA FirstOf ==
    ASSUME NEW src \in Seq(Bytes)
    PROVE  /\ First(src, 0) = <<>> /\ First(src, Len(src)) = src
           /\ \A k \in 0..Len(src) : First(src, k) \in Seq(Nat) /\ Len(First(src, k)) = k
           /\ \A k \in 0..(Len(src) - 1) : Append(First(src, k), src[k + 1]) = First(src, k + 1)
<1>1. Len(src) \in Nat /\ \A i \in 1..Len(src) : src[i] \in Nat
  <2>1. \A i \in 1..Len(src) : src[i] \in Bytes
    OBVIOUS
  <2>2. Len(src) \in Nat
    OBVIOUS
  <2>3. \A x \in Bytes : x \in Nat
    BY DEF Bytes
  <2> QED
    BY <2>1, <2>2, <2>3
<1>2. First(src, 0) = <<>>
  BY <1>1 DEF First
<1>3. First(src, Len(src)) = src
  BY <1>1 DEF First
<1>4. \A k \in 0..Len(src) : First(src, k) \in Seq(Nat) /\ Len(First(src, k)) = k
  BY <1>1 DEF First
<1>5. \A k \in 0..(Len(src) - 1) : Append(First(src, k), src[k + 1]) = First(src, k + 1)
  BY <1>1 DEF First
<1> QED
  BY <1>2, <1>3, <1>4, <1>5

(* The four characters of a group. *)
LEMMA GroupChars ==
    ASSUME NEW src, Len(src) \in Nat, NEW q \in Nat
    PROVE  LET a == ByteAt(src, 3 * q + 1)
               b == ByteAt(src, 3 * q + 2)
               c == ByteAt(src, 3 * q + 3)
               n == Len(src)
           IN  /\ n >= 3 * q + 1 => CharAt(src, 4 * q + 1) = Digit(a, b, c, 1)
               /\ n >= 3 * q + 1 => CharAt(src, 4 * q + 2) = Digit(a, b, c, 2)
               /\ CharAt(src, 4 * q + 3) = IF n >= 3 * q + 2 THEN Digit(a, b, c, 3) ELSE Pad
               /\ CharAt(src, 4 * q + 4) = IF n >= 3 * q + 3 THEN Digit(a, b, c, 4) ELSE Pad
<1> DEFINE n == Len(src)
           k == 3 * q
           a == ByteAt(src, k + 1)
           b == ByteAt(src, k + 2)
           c == ByteAt(src, k + 3)
<1>1. n \in Nat /\ k \in Nat
  OBVIOUS
<1>2. ASSUME NEW j \in 1..4
      PROVE  CharAt(src, 4 * q + j) = IF k + 1 + j - 2 > n THEN Pad ELSE Digit(a, b, c, j)
  <2>1. k + 1 + 1 = k + 2 /\ k + 1 + 2 = k + 3
    BY <1>1
  <2>2. (4 * q + j - 1) \div 4 = q /\ ((4 * q + j - 1) % 4) + 1 = j
    OBVIOUS
  <2> DEFINE i == 4 * q + j
  <2>3. CharAt(src, i) =
           IF 3 * ((i - 1) \div 4) + 1 + (((i - 1) % 4) + 1) - 2 > n THEN Pad
           ELSE Digit(ByteAt(src, 3 * ((i - 1) \div 4) + 1),
                      ByteAt(src, 3 * ((i - 1) \div 4) + 1 + 1),
                      ByteAt(src, 3 * ((i - 1) \div 4) + 1 + 2), ((i - 1) % 4) + 1)
    BY Zenon DEF CharAt
  <2> QED
    BY <2>1, <2>2, <2>3
<1> HIDE DEF a, b, c, n, k
<1>3. /\ n >= k + 1 => CharAt(src, 4 * q + 1) = Digit(a, b, c, 1)
      /\ n >= k + 1 => CharAt(src, 4 * q + 2) = Digit(a, b, c, 2)
      /\ CharAt(src, 4 * q + 3) = IF n >= k + 2 THEN Digit(a, b, c, 3) ELSE Pad
      /\ CharAt(src, 4 * q + 4) = IF n >= k + 3 THEN Digit(a, b, c, 4) ELSE Pad
  BY <1>1, <1>2
<1> QED
  BY <1>3 DEF a, b, c, n, k

(* Four characters of a group are read as the bytes of the group. *)
LEMMA GroupRead ==
    ASSUME NEW src \in Seq(Bytes), NEW q \in Nat, 3 * q < Len(src),
           NEW size \in Nat, 3 * q + 3 < size, NEW r,
           r[4 * q] = Acc(0, First(src, 3 * q), 0),
           \A i \in (4 * q + 1)..(4 * q + 4) : r[i] = Read(r[i - 1], CharAt(src, i), size)
    PROVE  r[4 * q + 4] = IF Len(src) = 3 * q + 1 THEN Acc(Ended, src, 0)
                          ELSE IF Len(src) = 3 * q + 2 THEN Acc(Ended, src, 0)
                          ELSE Acc(0, First(src, 3 * q + 3), 0)
<1> DEFINE n == Len(src)
           k == 3 * q
           a == ByteAt(src, k + 1)
           b == ByteAt(src, k + 2)
           c == ByteAt(src, k + 3)
<1>1. n \in Nat /\ k \in Nat /\ k < n /\ \A i \in 1..n : src[i] \in Bytes
  OBVIOUS
<1>2. a \in Bytes /\ b \in Bytes /\ c \in Bytes
  BY <1>1 DEF ByteAt, Bytes
<1>3. /\ a = src[k + 1]
      /\ b = IF n >= k + 2 THEN src[k + 2] ELSE 0
      /\ c = IF n >= k + 3 THEN src[k + 3] ELSE 0
  BY <1>1 DEF ByteAt
<1>4. /\ CharAt(src, 4 * q + 1) = Digit(a, b, c, 1)
      /\ CharAt(src, 4 * q + 2) = Digit(a, b, c, 2)
      /\ CharAt(src, 4 * q + 3) = IF n >= k + 2 THEN Digit(a, b, c, 3) ELSE Pad
      /\ CharAt(src, 4 * q + 4) = IF n >= k + 3 THEN Digit(a, b, c, 4) ELSE Pad
  BY <1>1, GroupChars
<1>5. /\ \A i \in 0..n : First(src, i) \in Seq(Nat) /\ Len(First(src, i)) = i
      /\ \A i \in 0..(n - 1) : Append(First(src, i), src[i + 1]) = First(src, i + 1)
      /\ First(src, n) = src
  BY FirstOf
<1>6. /\ \A j \in 1..4 : Digit(a, b, c, j) \in Digits
      /\ Digit(a, b, c, 1) * 4 = (a \div 4) * 4
      /\ (a \div 4) * 4 + Digit(a, b, c, 2) \div 16 = a
      /\ (Digit(a, b, c, 2) % 16) * 16 = (b \div 16) * 16
      /\ (b \div 16) * 16 + Digit(a, b, c, 3) \div 4 = b
      /\ (Digit(a, b, c, 3) % 4) * 64 = (c \div 64) * 64
      /\ (c \div 64) * 64 + Digit(a, b, c, 4) = c
  BY <1>2, DigitsOf
<1>7. /\ r[4 * q + 1] = Read(r[4 * q], CharAt(src, 4 * q + 1), size)
      /\ r[4 * q + 2] = Read(r[4 * q + 1], CharAt(src, 4 * q + 2), size)
      /\ r[4 * q + 3] = Read(r[4 * q + 2], CharAt(src, 4 * q + 3), size)
      /\ r[4 * q + 4] = Read(r[4 * q + 3], CharAt(src, 4 * q + 4), size)
  OBVIOUS
<1>8. /\ (a \div 4) * 4 \in Nat /\ (b \div 16) * 16 \in Nat /\ (c \div 64) * 64 \in Nat
  <2>1. \A x \in Bytes : (x \div 4) * 4 \in Nat /\ (x \div 16) * 16 \in Nat /\ (x \div 64) * 64 \in Nat
    BY DEF Bytes
  <2> QED
    BY <1>2, <2>1
<1> HIDE DEF a, b, c, n, k
<1>9. r[4 * q + 1] = Acc(1, First(src, k), (a \div 4) * 4)
  <2>1. First(src, k) \in Seq(Nat) /\ Len(First(src, k)) + 1 < size
    BY <1>1, <1>5 DEF k
  <2>2. Read(Acc(0, First(src, k), 0), Digit(a, b, c, 1), size)
           = Acc(1, First(src, k), Digit(a, b, c, 1) * 4)
    BY <1>6, <2>1, DigitStep
  <2> QED
    BY <1>4, <1>6, <1>7, <2>2 DEF k
<1>10. r[4 * q + 2] = Acc(2, First(src, k + 1), (b \div 16) * 16)
  <2>1. /\ First(src, k) \in Seq(Nat) /\ Len(First(src, k)) + 1 < size
        /\ Append(First(src, k), a) = First(src, k + 1)
    <3>1. k \in 0..n /\ k \in 0..(n - 1) /\ k + 1 < size
      BY <1>1 DEF k
    <3> QED
      BY <1>3, <1>5, <3>1
  <2>2. Read(Acc(1, First(src, k), (a \div 4) * 4), Digit(a, b, c, 2), size)
           = Acc(2, Append(First(src, k), (a \div 4) * 4 + Digit(a, b, c, 2) \div 16),
                 (Digit(a, b, c, 2) % 16) * 16)
    BY <1>6, <1>8, <2>1, DigitStep
  <2> QED
    BY <1>4, <1>6, <1>7, <1>9, <2>1, <2>2
<1>11. CASE n = k + 1
  <2>1. b = 0 /\ (b \div 16) * 16 = 0 /\ First(src, k + 1) = src
    BY <1>1, <1>3, <1>5, <1>11
  <2>2. src \in Seq(Nat)
    BY <1>1, <1>5, <2>1, <1>11
  <2>3. r[4 * q + 3] = Acc(WantPad, src, 0)
    BY <1>1, <1>4, <1>7, <1>10, <1>11, <2>1, <2>2, PadStep
  <2>4. r[4 * q + 4] = Acc(Ended, src, 0)
    BY <1>1, <1>4, <1>7, <1>11, <2>2, <2>3, PadStep
  <2> QED
    BY <1>11, <2>4 DEF n, k
<1>12. CASE n >= k + 2
  <2>1. r[4 * q + 3] = Acc(3, First(src, k + 2), (c \div 64) * 64)
    <3>1. /\ First(src, k + 1) \in Seq(Nat) /\ Len(First(src, k + 1)) + 1 < size
          /\ Append(First(src, k + 1), b) = First(src, k + 2)
      <4>1. k + 1 \in 0..n /\ k + 1 \in 0..(n - 1) /\ k + 1 + 1 = k + 2 /\ k + 2 < size
        BY <1>1, <1>12 DEF k
      <4> QED
        BY <1>3, <1>5, <1>12, <4>1
    <3>2. Read(Acc(2, First(src, k + 1), (b \div 16) * 16), Digit(a, b, c, 3), size)
             = Acc(3, Append(First(src, k + 1), (b \div 16) * 16 + Digit(a, b, c, 3) \div 4),
                   (Digit(a, b, c, 3) % 4) * 64)
      BY <1>6, <1>8, <3>1, DigitStep
    <3> QED
      BY <1>4, <1>6, <1>7, <1>10, <1>12, <3>1, <3>2
  <2>2. CASE n = k + 2
    <3>1. c = 0 /\ (c \div 64) * 64 = 0 /\ First(src, k + 2) = src
      BY <1>1, <1>3, <1>5, <2>2
    <3>2. src \in Seq(Nat)
      BY <1>1, <1>5, <3>1, <2>2
    <3>3. r[4 * q + 4] = Acc(Ended, src, 0)
      BY <1>1, <1>4, <1>7, <2>1, <2>2, <3>1, <3>2, PadStep
    <3> QED
      BY <1>1, <2>2, <3>3 DEF n, k
  <2>3. CASE n >= k + 3
    <3>1. /\ First(src, k + 2) \in Seq(Nat) /\ Len(First(src, k + 2)) + 1 < size
          /\ Append(First(src, k + 2), c) = First(src, k + 3)
      <4>1. k + 2 \in 0..n /\ k + 2 \in 0..(n - 1) /\ k + 2 + 1 = k + 3 /\ k + 3 < size
        BY <1>1, <2>3 DEF k
      <4> QED
        BY <1>3, <1>5, <2>3, <4>1
    <3>2. Read(Acc(3, First(src, k + 2), (c \div 64) * 64), Digit(a, b, c, 4), size)
             = Acc(0, Append(First(src, k + 2), (c \div 64) * 64 + Digit(a, b, c, 4)), 0)
      BY <1>6, <1>8, <3>1, DigitStep
    <3>3. r[4 * q + 4] = Acc(0, First(src, k + 3), 0)
      BY <1>4, <1>6, <1>7, <2>1, <2>3, <3>1, <3>2
    <3> QED
      BY <1>1, <2>3, <3>3 DEF n, k
  <2> QED
    BY <1>1, <1>12, <2>2, <2>3
<1> QED
  BY <1>1, <1>11, <1>12

LEMMA NumberReadsBack ==
    ASSUME NEW src \in Seq(Bytes)
    PROVE  do_b64_decrypt(do_b64_encrypt(src)) = src
<1> DEFINE text == do_b64_encrypt(src)
           n == Len(src)
           g == Groups(n)
           size == DecodeSize(Len(text))
<1>1. /\ text = [i \in 1..4 * g |-> CharAt(src, i)] /\ text \in Seq(Chars) /\ Len(text) = 4 * g
  BY Written
<1>2. n \in Nat /\ g \in Nat /\ size = 3 * g + 1
  BY <1>1 DEF DecodeSize, B64_DECODE_LEN, Groups
<1> HIDE DEF text, size
<1>3. PICK r \in [0..Len(text) -> States] :
              /\ r[0] = Start
              /\ \A i \in 1..Len(text) : r[i] = Read(r[i - 1], text[i], size)
              /\ Decode(text, size) = IF r[Len(text)].phase \in {0, Ended}
                                      THEN r[Len(text)].out ELSE Error
  <2>1. text \in Seq(Chars) /\ size \in Nat
    BY <1>1, <1>2
  <2> QED
    BY <2>1, ReadRun, Zenon
<1>4. r[0] = Acc(0, First(src, 0), 0)
  BY <1>3, FirstOf DEF Start, Acc
<1>5. ASSUME NEW q \in Nat, 3 * q < n, r[4 * q] = Acc(0, First(src, 3 * q), 0)
      PROVE  r[4 * q + 4] = IF n = 3 * q + 1 THEN Acc(Ended, src, 0)
                            ELSE IF n = 3 * q + 2 THEN Acc(Ended, src, 0)
                            ELSE Acc(0, First(src, 3 * q + 3), 0)
  <2>1. q + 1 <= g /\ 3 * q + 3 < size
    BY <1>2, <1>5 DEF Groups
  <2>2. \A i \in (4 * q + 1)..(4 * q + 4) : r[i] = Read(r[i - 1], CharAt(src, i), size)
    <3> SUFFICES ASSUME NEW i \in (4 * q + 1)..(4 * q + 4)
                 PROVE  r[i] = Read(r[i - 1], CharAt(src, i), size)
      OBVIOUS
    <3>1. i \in 1..4 * g
      BY <1>2, <2>1
    <3>2. text[i] = CharAt(src, i) /\ i \in 1..Len(text)
      BY <1>1, <3>1
    <3> QED
      BY <1>3, <3>2
  <2>3. size \in Nat /\ 3 * q < Len(src) /\ r[4 * q] = Acc(0, First(src, 3 * q), 0)
    BY <1>2, <1>5
  <2> QED
    BY <2>1, <2>2, <2>3, GroupRead, Zenon
<1>6. \A q \in 0..(n \div 3) : r[4 * q] = Acc(0, First(src, 3 * q), 0)
  <2> DEFINE K == {q \in Nat : r[4 * q] = Acc(0, First(src, 3 * q), 0)}
  <2>1. 0 \in K
    BY <1>4
  <2>2. ASSUME NEW q \in 1..(n \div 3), q - 1 \in K
        PROVE  q \in K
    <3>1. /\ q - 1 \in Nat /\ 3 * (q - 1) < n /\ n # 3 * (q - 1) + 1 /\ n # 3 * (q - 1) + 2
          /\ 4 * (q - 1) + 4 = 4 * q /\ 3 * (q - 1) + 3 = 3 * q
      BY <1>2
    <3>2. r[4 * (q - 1) + 4] = Acc(0, First(src, 3 * (q - 1) + 3), 0)
      BY <1>5, <2>2, <3>1
    <3> QED
      BY <3>1, <3>2
  <2>3. n \div 3 \in Nat
    BY <1>2
  <2> HIDE DEF K
  <2>4. \A q \in 0..(n \div 3) : q \in K
    BY <2>1, <2>2, <2>3, UpTo
  <2> QED
    BY <2>4 DEF K
<1>7. r[4 * g] \in {Acc(0, src, 0), Acc(Ended, src, 0)}
  <2> DEFINE q == n \div 3
  <2>0. q \in Nat /\ q \in 0..(n \div 3)
    BY <1>2
  <2>1. q \in Nat /\ r[4 * q] = Acc(0, First(src, 3 * q), 0)
    BY <2>0, <1>6
  <2>2. CASE n = 3 * q
    <3>1. g = q
      BY <1>2, <2>2 DEF Groups
    <3> QED
      BY <2>1, <2>2, <3>1, FirstOf
  <2>3. CASE n # 3 * q
    <3>1. 4 * g = 4 * q + 4 /\ 3 * q < n /\ (n = 3 * q + 1 \/ n = 3 * q + 2)
      BY <1>2, <2>3 DEF Groups
    <3> QED
      BY <1>5, <2>1, <3>1
  <2> QED
    BY <2>2, <2>3
<1>8. Decode(text, size) = src
  <2>1. r[Len(text)].phase \in {0, Ended} /\ r[Len(text)].out = src
    <3>1. r[Len(text)] \in {Acc(0, src, 0), Acc(Ended, src, 0)}
      BY <1>1, <1>7
    <3>2. Acc(0, src, 0).phase = 0 /\ Acc(0, src, 0).out = src
      BY DEF Acc
    <3>3. Acc(Ended, src, 0).phase = Ended /\ Acc(Ended, src, 0).out = src
      BY DEF Acc
    <3> QED
      BY <3>1, <3>2, <3>3
  <2> QED
    BY <1>3, <2>1
<1> QED
  BY <1>8 DEF do_b64_decrypt, size, text

-----------------------------------------------------------------------------
(* How far the decoder is: a byte is not complete without its characters.  *)

Reached(acc, i) ==
    \E q \in Nat :
        \/ acc.phase = 0 /\ Len(acc.out) = 3 * q /\ 4 * q <= i
        \/ acc.phase = 1 /\ Len(acc.out) = 3 * q /\ 4 * q + 1 <= i
        \/ acc.phase = 2 /\ Len(acc.out) = 3 * q + 1 /\ 4 * q + 2 <= i
        \/ acc.phase = 3 /\ Len(acc.out) = 3 * q + 2 /\ 4 * q + 3 <= i
        \/ acc.phase = WantPad /\ Len(acc.out) = 3 * q + 1 /\ 4 * q + 3 <= i
        \/ acc.phase = Ended /\ Len(acc.out) \in {3 * q + 1, 3 * q + 2} /\ 4 * q + 4 <= i
        \/ acc.phase = Wrong

LEMMA ReachedNext ==
    ASSUME NEW acc \in States, NEW ch \in Chars, NEW size \in Nat, NEW i \in Nat,
           Reached(acc, i)
    PROVE  Reached(Read(acc, ch, size), i + 1)
<1> DEFINE next == Read(acc, ch, size)
<1>1. PICK q \in Nat :
        \/ acc.phase = 0 /\ Len(acc.out) = 3 * q /\ 4 * q <= i
        \/ acc.phase = 1 /\ Len(acc.out) = 3 * q /\ 4 * q + 1 <= i
        \/ acc.phase = 2 /\ Len(acc.out) = 3 * q + 1 /\ 4 * q + 2 <= i
        \/ acc.phase = 3 /\ Len(acc.out) = 3 * q + 2 /\ 4 * q + 3 <= i
        \/ acc.phase = WantPad /\ Len(acc.out) = 3 * q + 1 /\ 4 * q + 3 <= i
        \/ acc.phase = Ended /\ Len(acc.out) \in {3 * q + 1, 3 * q + 2} /\ 4 * q + 4 <= i
        \/ acc.phase = Wrong
  BY DEF Reached
<1>2. acc.out \in Seq(Nat) /\ acc.part \in Nat /\ Len(acc.out) \in Nat
  BY StateAcc
<1>3. Reached(Failed, i + 1)
  BY FailedState DEF Reached
<1>4. CASE ch = Space \/ acc.phase = Wrong
  <2>1. next = acc
    BY <1>4, SkipIs
  <2> QED
    BY <1>1, <1>2, <2>1 DEF Reached
<1>5. CASE ch = Pad /\ acc.phase # Wrong
  <2>1. CASE acc.phase = 2
    <3>1. next = Acc(WantPad, acc.out, acc.part)
      BY <1>5, <2>1, PadIs
    <3>2. Len(acc.out) = 3 * q + 1 /\ 4 * q + 3 <= i + 1
      BY <1>1, <1>2, <2>1 DEF WantPad, Ended, Wrong
    <3>3. next.phase = WantPad /\ next.out = acc.out
      BY <3>1 DEF Acc
    <3> QED
      BY <3>2, <3>3 DEF Reached
  <2>2. CASE acc.phase \in {3, WantPad} /\ acc.part = 0
    <3>1. next = Acc(Ended, acc.out, 0)
      BY <1>5, <2>2, PadIs DEF WantPad
    <3>2. Len(acc.out) \in {3 * q + 1, 3 * q + 2} /\ 4 * q + 4 <= i + 1
      BY <1>1, <1>2, <2>2 DEF WantPad, Ended, Wrong
    <3>3. next.phase = Ended /\ next.out = acc.out
      BY <3>1 DEF Acc
    <3> QED
      BY <3>2, <3>3 DEF Reached
  <2>3. CASE acc.phase # 2 /\ ~(acc.phase \in {3, WantPad} /\ acc.part = 0)
    BY <1>3, <1>5, <2>3, PadIs
  <2> QED
    BY <2>1, <2>2, <2>3
<1>6. CASE ch \in Digits /\ acc.phase # Wrong
  <2>1. SUFFICES ASSUME next # Failed PROVE Reached(next, i + 1)
    BY <1>3
  <2>2. ASSUME NEW x \in Nat
        PROVE  Len(Append(acc.out, x)) = Len(acc.out) + 1
    BY <1>2
  <2>3. /\ ch * 4 \in Nat /\ ch \div 16 \in Nat /\ (ch % 16) * 16 \in Nat
        /\ ch \div 4 \in Nat /\ (ch % 4) * 64 \in Nat /\ ch \in Nat
    BY <1>6, DigitNats
  <2>4. CASE acc.phase = 0
    <3>1. next = Acc(1, acc.out, ch * 4)
      BY <1>6, <2>1, <2>4, DigitIs
    <3>2. Len(acc.out) = 3 * q /\ 4 * q + 1 <= i + 1
      BY <1>1, <1>2, <2>4 DEF WantPad, Ended, Wrong
    <3>3. next.phase = 1 /\ next.out = acc.out
      BY <3>1 DEF Acc
    <3> QED
      BY <3>2, <3>3 DEF Reached
  <2>5. CASE acc.phase = 1
    <3>1. next = Acc(2, Append(acc.out, acc.part + ch \div 16), (ch % 16) * 16)
      BY <1>6, <2>1, <2>5, DigitIs
    <3>2. Len(acc.out) = 3 * q /\ 4 * q + 2 <= i + 1
      BY <1>1, <1>2, <2>5 DEF WantPad, Ended, Wrong
    <3>3. next.phase = 2 /\ Len(next.out) = 3 * q + 1
      BY <1>2, <2>2, <2>3, <3>1, <3>2 DEF Acc
    <3> QED
      BY <3>2, <3>3 DEF Reached
  <2>6. CASE acc.phase = 2
    <3>1. next = Acc(3, Append(acc.out, acc.part + ch \div 4), (ch % 4) * 64)
      BY <1>6, <2>1, <2>6, DigitIs
    <3>2. Len(acc.out) = 3 * q + 1 /\ 4 * q + 3 <= i + 1
      BY <1>1, <1>2, <2>6 DEF WantPad, Ended, Wrong
    <3>3. next.phase = 3 /\ Len(next.out) = 3 * q + 2
      <4>1. next.phase = 3 /\ next.out = Append(acc.out, acc.part + ch \div 4)
        BY <3>1 DEF Acc
      <4>2. acc.part + ch \div 4 \in Nat
        BY <1>2, <2>3
      <4>3. Len(next.out) = Len(acc.out) + 1
        BY <2>2, <4>1, <4>2
      <4> QED
        BY <3>2, <4>1, <4>3
    <3> QED
      BY <3>2, <3>3 DEF Reached
  <2>7. CASE acc.phase = 3
    <3>1. next = Acc(0, Append(acc.out, acc.part + ch), 0)
      BY <1>6, <2>1, <2>7, DigitIs
    <3>2. Len(acc.out) = 3 * q + 2 /\ 4 * (q + 1) <= i + 1
      BY <1>1, <1>2, <2>7 DEF WantPad, Ended, Wrong
    <3>3. next.phase = 0 /\ Len(next.out) = 3 * (q + 1) /\ q + 1 \in Nat
      <4>1. next.phase = 0 /\ next.out = Append(acc.out, acc.part + ch)
        BY <3>1 DEF Acc
      <4>2. acc.part + ch \in Nat
        BY <1>2, <2>3
      <4>3. Len(next.out) = Len(acc.out) + 1
        BY <2>2, <4>1, <4>2
      <4> QED
        BY <3>2, <4>1, <4>3
    <3> QED
      BY <3>2, <3>3 DEF Reached
  <2>8. CASE acc.phase \notin 0..3
    BY <1>6, <2>1, <2>8, DigitIs
  <2> QED
    BY <2>4, <2>5, <2>6, <2>7, <2>8
<1>7. CASE ch # Space /\ ch # Pad /\ ch \notin Digits /\ acc.phase # Wrong
  BY <1>3, <1>7, OtherIs
<1> QED
  BY <1>4, <1>5, <1>6, <1>7

(* The size of the buffer makes no other difference than an error, when    *)
(* the bytes do not fit.                                                   *)
LEMMA SizeOnlyFails ==
    ASSUME NEW acc \in States, NEW ch \in Chars, NEW a \in Nat, NEW b \in Nat, a <= b
    PROVE  \/ Read(acc, ch, a) = Read(acc, ch, b)
           \/ /\ Read(acc, ch, a) = Failed
              /\ Len(Read(acc, ch, b).out) >= a
<1>1. acc.out \in Seq(Nat) /\ acc.part \in Nat /\ Len(acc.out) \in Nat
  BY StateAcc
<1>2. CASE ch = Space \/ acc.phase = Wrong
  BY <1>2, SkipIs
<1>3. CASE ch = Pad /\ acc.phase # Wrong
  BY <1>3, PadIs
<1>4. CASE ch \in Digits /\ acc.phase # Wrong
  <2> DEFINE ra == Read(acc, ch, a)
             rb == Read(acc, ch, b)
             full(size) == Len(acc.out) >= size
             last(size) == Len(acc.out) + 1 >= size
  <2>1. ASSUME NEW x \in Nat
        PROVE  Len(Append(acc.out, x)) = Len(acc.out) + 1
    BY <1>1
  <2>2. /\ ch * 4 \in Nat /\ ch \div 16 \in Nat /\ (ch % 16) * 16 \in Nat
        /\ ch \div 4 \in Nat /\ (ch % 4) * 64 \in Nat /\ ch \in Nat
    BY <1>4, DigitNats
  <2>3. /\ full(b) => full(a)
        /\ last(b) => last(a)
    BY <1>1
  <2>4. CASE acc.phase = 0
    <3>1. ra = (IF full(a) THEN Failed ELSE Acc(1, acc.out, ch * 4))
      BY <1>4, <2>4, DigitIs
    <3>2. rb = (IF full(b) THEN Failed ELSE Acc(1, acc.out, ch * 4))
      BY <1>4, <2>4, DigitIs
    <3>3. Acc(1, acc.out, ch * 4).out = acc.out
      BY DEF Acc
    <3> QED
      BY <2>3, <3>1, <3>2, <3>3
  <2>5. CASE acc.phase = 1
    <3> DEFINE out == Append(acc.out, acc.part + ch \div 16)
               rest == (ch % 16) * 16
    <3>1. ra = (IF full(a) \/ (last(a) /\ rest # 0) THEN Failed ELSE Acc(2, out, rest))
      BY <1>4, <2>5, DigitIs
    <3>2. rb = (IF full(b) \/ (last(b) /\ rest # 0) THEN Failed ELSE Acc(2, out, rest))
      BY <1>4, <2>5, DigitIs
    <3>3. Acc(2, out, rest).out = out
      BY DEF Acc
    <3>4. Len(out) = Len(acc.out) + 1
      BY <1>1, <2>1, <2>2
    <3> HIDE DEF out, rest, ra, rb
    <3>5. full(a) \/ last(a) => Len(out) >= a
      BY <1>1, <3>4
    <3> QED
      BY <2>3, <3>1, <3>2, <3>3, <3>5 DEF ra, rb
  <2>6. CASE acc.phase = 2
    <3> DEFINE out == Append(acc.out, acc.part + ch \div 4)
               rest == (ch % 4) * 64
    <3>1. ra = (IF full(a) \/ (last(a) /\ rest # 0) THEN Failed ELSE Acc(3, out, rest))
      BY <1>4, <2>6, DigitIs
    <3>2. rb = (IF full(b) \/ (last(b) /\ rest # 0) THEN Failed ELSE Acc(3, out, rest))
      BY <1>4, <2>6, DigitIs
    <3>3. Acc(3, out, rest).out = out
      BY DEF Acc
    <3>4. Len(out) = Len(acc.out) + 1
      BY <1>1, <2>1, <2>2
    <3> HIDE DEF out, rest, ra, rb
    <3>5. full(a) \/ last(a) => Len(out) >= a
      BY <1>1, <3>4
    <3> QED
      BY <2>3, <3>1, <3>2, <3>3, <3>5 DEF ra, rb
  <2>7. CASE acc.phase = 3
    <3> DEFINE out == Append(acc.out, acc.part + ch)
    <3>1. ra = (IF full(a) THEN Failed ELSE Acc(0, out, 0))
      BY <1>4, <2>7, DigitIs
    <3>2. rb = (IF full(b) THEN Failed ELSE Acc(0, out, 0))
      BY <1>4, <2>7, DigitIs
    <3>3. Acc(0, out, 0).out = out
      BY DEF Acc
    <3>4. Len(out) = Len(acc.out) + 1
      BY <1>1, <2>1, <2>2
    <3> HIDE DEF out, ra, rb
    <3>5. full(a) => Len(out) >= a
      BY <1>1, <3>4
    <3> QED
      BY <2>3, <3>1, <3>2, <3>3, <3>5 DEF ra, rb
  <2>8. CASE acc.phase \notin 0..3
    BY <1>4, <2>8, DigitIs
  <2> QED
    BY <2>4, <2>5, <2>6, <2>7, <2>8
<1>5. CASE ch # Space /\ ch # Pad /\ ch \notin Digits /\ acc.phase # Wrong
  BY <1>5, OtherIs
<1> QED
  BY <1>2, <1>3, <1>4, <1>5

LEMMA FullStays ==
    ASSUME NEW acc \in States, NEW ch \in Chars, NEW a \in Nat, NEW b \in Nat,
           acc.phase = Wrong \/ Len(acc.out) >= a
    PROVE  Read(acc, ch, b).phase = Wrong \/ Len(Read(acc, ch, b).out) >= a
<1>1. acc.out \in Seq(Nat) /\ acc.part \in Nat /\ Len(acc.out) \in Nat
  BY StateAcc
<1>2. CASE ch = Space \/ acc.phase = Wrong
  BY <1>2, SkipIs
<1>3. CASE ch = Pad /\ acc.phase # Wrong
  <2>1. \A p, x : Acc(p, acc.out, x).out = acc.out
    BY DEF Acc
  <2> QED
    BY <1>3, <2>1, PadIs, FailedState
<1>4. CASE ch \in Digits /\ acc.phase # Wrong
  <2> DEFINE next == Read(acc, ch, b)
  <2>1. /\ ch \div 16 \in Nat /\ ch \div 4 \in Nat /\ ch \in Nat
    BY <1>4, DigitNats
  <2>2. ASSUME NEW x \in Nat
        PROVE  Len(Append(acc.out, acc.part + x)) >= a
    BY <1>1, <1>4
  <2>4. \/ next = Failed
        \/ next = Acc(1, acc.out, ch * 4)
        \/ next = Acc(2, Append(acc.out, acc.part + ch \div 16), (ch % 16) * 16)
        \/ next = Acc(3, Append(acc.out, acc.part + ch \div 4), (ch % 4) * 64)
        \/ next = Acc(0, Append(acc.out, acc.part + ch), 0)
    BY <1>4, DigitIs
  <2>5. Len(acc.out) >= a
    BY <1>4
  <2>6. /\ Len(Append(acc.out, acc.part + ch \div 16)) >= a
        /\ Len(Append(acc.out, acc.part + ch \div 4)) >= a
        /\ Len(Append(acc.out, acc.part + ch)) >= a
    BY <2>1, <2>2
  <2> HIDE DEF next
  <2>7. next = Failed \/ Len(next.out) >= a
    <3>1. CASE next = Acc(1, acc.out, ch * 4)
      BY <2>5, <3>1 DEF Acc
    <3>2. CASE next = Acc(2, Append(acc.out, acc.part + ch \div 16), (ch % 16) * 16)
      BY <2>6, <3>2 DEF Acc
    <3>3. CASE next = Acc(3, Append(acc.out, acc.part + ch \div 4), (ch % 4) * 64)
      BY <2>6, <3>3 DEF Acc
    <3>4. CASE next = Acc(0, Append(acc.out, acc.part + ch), 0)
      BY <2>6, <3>4 DEF Acc
    <3> QED
      BY <2>4, <3>1, <3>2, <3>3, <3>4
  <2> QED
    BY <2>7, FailedState DEF next
<1>5. CASE ch # Space /\ ch # Pad /\ ch \notin Digits /\ acc.phase # Wrong
  BY <1>5, OtherIs, FailedState
<1> QED
  BY <1>2, <1>3, <1>4, <1>5

(* A buffer of B64_DECODE_LEN is as good as one that is longer than the text. *)
LEMMA RoomIsEnough ==
    ASSUME NEW text \in Seq(Chars)
    PROVE  do_b64_decrypt(text) = Decode(text, Len(text) + 1)
<1> DEFINE n == Len(text)
           a == DecodeSize(n)
           b == n + 1
           k == n \div 4
<1>1. n \in Nat /\ k \in Nat /\ a = 3 * k + 1 /\ a \in Nat /\ b \in Nat /\ a <= b /\ n < 4 * k + 4
  BY DEF DecodeSize, B64_DECODE_LEN
<1>2. \A i \in 1..n : text[i] \in Chars
  OBVIOUS
<1> HIDE DEF n, a, b, k
<1>3. PICK s \in [0..n -> States] :
              /\ s[0] = Start
              /\ \A i \in 1..n : s[i] = Read(s[i - 1], text[i], a)
              /\ Decode(text, a) = IF s[n].phase \in {0, Ended} THEN s[n].out ELSE Error
  BY <1>1, ReadRun, Zenon DEF n
<1>4. PICK r \in [0..n -> States] :
              /\ r[0] = Start
              /\ \A i \in 1..n : r[i] = Read(r[i - 1], text[i], b)
              /\ Decode(text, b) = IF r[n].phase \in {0, Ended} THEN r[n].out ELSE Error
  BY <1>1, ReadRun, Zenon DEF n
<1> DEFINE Full(acc) == acc.phase = Wrong \/ Len(acc.out) >= a
           Good(i) == /\ Reached(r[i], i)
                      /\ s[i] = r[i] \/ (s[i].phase = Wrong /\ Full(r[i]))
           K == {i \in 0..n : Good(i)}
<1>5. 0 \in K
  <2>1. Reached(Start, 0)
    BY DEF Reached, Start
  <2> QED
    BY <1>1, <1>3, <1>4, <2>1
<1>6. ASSUME NEW i \in 1..n, i - 1 \in K
      PROVE  i \in K
  <2> DEFINE acc == r[i - 1]
             ch == text[i]
  <2>1. acc \in States /\ s[i - 1] \in States /\ ch \in Chars /\ i - 1 \in Nat
    BY <1>1, <1>2, <1>6
  <2>2. r[i] = Read(acc, ch, b) /\ s[i] = Read(s[i - 1], ch, a)
    BY <1>3, <1>4
  <2>3. Reached(acc, i - 1) /\ (s[i - 1] = acc \/ (s[i - 1].phase = Wrong /\ Full(acc)))
    BY <1>6
  <2> HIDE DEF acc, ch
  <2>4. Reached(r[i], i)
    <3>1. i - 1 + 1 = i
      OBVIOUS
    <3>2. Reached(Read(acc, ch, b), i - 1 + 1)
      BY <1>1, <2>1, <2>3, ReachedNext
    <3> QED
      BY <2>2, <3>1, <3>2
  <2>5. CASE s[i - 1] = acc
    <3>1. \/ s[i] = r[i]
          \/ s[i] = Failed /\ Len(r[i].out) >= a
      BY <1>1, <2>1, <2>2, <2>5, SizeOnlyFails
    <3> QED
      BY <2>4, <3>1, FailedState
  <2>6. CASE s[i - 1].phase = Wrong /\ Full(acc)
    <3>1. s[i] = s[i - 1]
      BY <2>1, <2>2, <2>6, SkipIs
    <3>2. Full(r[i])
      BY <1>1, <2>1, <2>2, <2>6, FullStays
    <3> QED
      BY <2>4, <2>6, <3>1, <3>2
  <2> QED
    BY <2>3, <2>5, <2>6
<1>7. Good(n)
  <2>1. n \in 0..n
    BY <1>1
  <2> HIDE DEF K
  <2>2. n \in K
    BY <1>1, <1>5, <1>6, <2>1, UpTo
  <2> QED
    BY <2>2 DEF K
<1>8. Full(r[n]) => r[n].phase \notin {0, Ended}
  <2>1. SUFFICES ASSUME Len(r[n].out) >= a, r[n].phase \in {0, Ended} PROVE FALSE
    BY DEF Wrong, Ended
  <2>2. PICK q \in Nat :
          \/ Len(r[n].out) = 3 * q /\ 4 * q <= n
          \/ Len(r[n].out) \in {3 * q + 1, 3 * q + 2} /\ 4 * q + 4 <= n
    BY <1>7, <2>1 DEF Reached, Wrong, Ended, WantPad
  <2> QED
    BY <1>1, <2>1, <2>2
<1>9. Decode(text, a) = Decode(text, b)
  <2>1. Wrong \notin {0, Ended}
    BY DEF Wrong, Ended
  <2> QED
    BY <1>3, <1>4, <1>7, <1>8, <2>1
<1> QED
  BY <1>9 DEF do_b64_decrypt, n, a, b

-----------------------------------------------------------------------------
(* What the decoder has read without an error, but for the white space, is *)
(* what the encoder writes, as far as the bytes are complete.              *)

WholeGroups(out, w, q) == \A i \in 1..4 * q : w[i] = CharAt(out, i)

Spelt(acc, w, q) ==
    LET out == acc.out
        part == acc.part
        a == out[3 * q + 1]
        b == out[3 * q + 2]
    IN  \/ /\ acc.phase = 0
           /\ Len(out) = 3 * q /\ Len(w) = 4 * q
        \/ /\ acc.phase = 1
           /\ Len(out) = 3 * q /\ Len(w) = 4 * q + 1
           /\ w[4 * q + 1] \in Digits /\ part = w[4 * q + 1] * 4
        \/ /\ acc.phase = 2
           /\ Len(out) = 3 * q + 1 /\ Len(w) = 4 * q + 2
           /\ part % 16 = 0 /\ part < 256
           /\ w[4 * q + 1] = a \div 4 /\ w[4 * q + 2] = (a % 4) * 16 + part \div 16
        \/ /\ acc.phase = 3
           /\ Len(out) = 3 * q + 2 /\ Len(w) = 4 * q + 3
           /\ part % 64 = 0 /\ part < 256
           /\ w[4 * q + 1] = a \div 4 /\ w[4 * q + 2] = (a % 4) * 16 + b \div 16
           /\ w[4 * q + 3] = (b % 16) * 4 + part \div 64
        \/ /\ acc.phase = WantPad
           /\ Len(out) = 3 * q + 1 /\ Len(w) = 4 * q + 3
           /\ w[4 * q + 1] = a \div 4 /\ w[4 * q + 2] = (a % 4) * 16 + part \div 16
           /\ w[4 * q + 3] = Pad
        \/ /\ acc.phase = Ended
           /\ Len(out) \in {3 * q + 1, 3 * q + 2} /\ Len(w) = 4 * q + 4
           /\ WholeGroups(out, w, q + 1)

SpeltSoFar(acc, w) ==
    \/ acc.phase = Wrong
    \/ acc.out \in Seq(Bytes) /\ \E q \in Nat : WholeGroups(acc.out, w, q) /\ Spelt(acc, w, q)

(* A group that is complete is not changed by the bytes behind it. *)
LEMMA GroupsKept ==
    ASSUME NEW out \in Seq(Bytes), NEW x \in Bytes, NEW q \in Nat, Len(out) >= 3 * q,
           NEW w \in Seq(Chars), NEW ch \in Chars, Len(w) >= 4 * q, WholeGroups(out, w, q)
    PROVE  /\ WholeGroups(Append(out, x), Append(w, ch), q)
           /\ WholeGroups(out, Append(w, ch), q)
<1>1. ASSUME NEW i \in 1..4 * q
      PROVE  Append(w, ch)[i] = w[i] /\ CharAt(Append(out, x), i) = CharAt(out, i)
  <2> DEFINE first == 3 * ((i - 1) \div 4) + 1
             j == ((i - 1) % 4) + 1
             more == Append(out, x)
  <2>1. first \in Nat /\ first > 0 /\ first + 2 <= Len(out) /\ j \in 1..4
    OBVIOUS
  <2>2. Len(more) = Len(out) + 1 /\ \A k \in 1..Len(out) : more[k] = out[k]
    OBVIOUS
  <2>3. /\ CharAt(out, i) = IF first + j - 2 > Len(out) THEN Pad
               ELSE Digit(ByteAt(out, first), ByteAt(out, first + 1), ByteAt(out, first + 2), j)
        /\ CharAt(more, i) = IF first + j - 2 > Len(more) THEN Pad
               ELSE Digit(ByteAt(more, first), ByteAt(more, first + 1), ByteAt(more, first + 2), j)
    BY Zenon DEF CharAt
  <2> HIDE DEF first, j, more
  <2>4. /\ ByteAt(more, first) = ByteAt(out, first)
        /\ ByteAt(more, first + 1) = ByteAt(out, first + 1)
        /\ ByteAt(more, first + 2) = ByteAt(out, first + 2)
    BY <2>1, <2>2 DEF ByteAt
  <2>5. ~(first + j - 2 > Len(out)) /\ ~(first + j - 2 > Len(more))
    BY <2>1, <2>2
  <2>6. CharAt(more, i) = CharAt(out, i)
    BY <2>3, <2>4, <2>5
  <2>7. Append(w, ch)[i] = w[i]
    OBVIOUS
  <2> QED
    BY <2>6, <2>7 DEF more
<1> QED
  BY <1>1 DEF WholeGroups

LEMMA NextGroup ==
    ASSUME NEW out, NEW w, NEW q \in Nat, WholeGroups(out, w, q),
           \A j \in 1..4 : w[4 * q + j] = CharAt(out, 4 * q + j)
    PROVE  WholeGroups(out, w, q + 1)
<1> SUFFICES ASSUME NEW i \in 1..4 * (q + 1)
             PROVE  w[i] = CharAt(out, i)
  BY DEF WholeGroups
<1>1. CASE i <= 4 * q
  BY <1>1 DEF WholeGroups
<1>2. CASE i > 4 * q
  <2>1. i - 4 * q \in 1..4 /\ 4 * q + (i - 4 * q) = i
    BY <1>2
  <2> QED
    BY <2>1
<1> QED
  BY <1>1, <1>2

(* Two digits make a byte that gives them back. *)
LEMMA SplitDigits ==
    ASSUME NEW d \in Digits
    PROVE  /\ \A e \in Digits : LET x == e * 4 + d \div 16
                                    rest == (d % 16) * 16
                                IN  /\ x \in Bytes /\ x \div 4 = e
                                    /\ (x % 4) * 16 + rest \div 16 = d
                                    /\ rest % 16 = 0 /\ rest < 256
           /\ \A p \in Nat : p % 16 = 0 /\ p < 256 =>
                                LET x == p + d \div 4
                                    rest == (d % 4) * 64
                                IN  /\ x \in Bytes /\ x \div 16 = p \div 16
                                    /\ (x % 16) * 4 + rest \div 64 = d
                                    /\ rest % 64 = 0 /\ rest < 256
           /\ \A p \in Nat : p % 64 = 0 /\ p < 256 =>
                                LET x == p + d
                                IN  x \in Bytes /\ x \div 64 = p \div 64 /\ x % 64 = d
<1>1. ASSUME NEW e \in Digits
      PROVE  LET x == e * 4 + d \div 16
                 rest == (d % 16) * 16
             IN  /\ x \in Bytes /\ x \div 4 = e
                 /\ (x % 4) * 16 + rest \div 16 = d
                 /\ rest % 16 = 0 /\ rest < 256
  BY DEF Digits, Bytes
<1>2. ASSUME NEW p \in Nat, p % 16 = 0, p < 256
      PROVE  LET x == p + d \div 4
                 rest == (d % 4) * 64
             IN  /\ x \in Bytes /\ x \div 16 = p \div 16
                 /\ (x % 16) * 4 + rest \div 64 = d
                 /\ rest % 64 = 0 /\ rest < 256
  BY <1>2 DEF Digits, Bytes
<1>3. ASSUME NEW p \in Nat, p % 64 = 0, p < 256
      PROVE  LET x == p + d
             IN  x \in Bytes /\ x \div 64 = p \div 64 /\ x % 64 = d
  BY <1>3 DEF Digits, Bytes
<1> QED
  BY <1>1, <1>2, <1>3

(* The groups that are written are there, and so are their bytes.          *)
LEMMA SpeltLength ==
    ASSUME NEW acc, NEW w, NEW q \in Nat, Spelt(acc, w, q)
    PROVE  Len(acc.out) >= 3 * q /\ Len(w) >= 4 * q
<1>1. PICK j \in 0..2, k \in 0..4 : Len(acc.out) = 3 * q + j /\ Len(w) = 4 * q + k
  <2>1. \/ Len(acc.out) = 3 * q + 0 /\ Len(w) = 4 * q + 0
        \/ Len(acc.out) = 3 * q + 0 /\ Len(w) = 4 * q + 1
        \/ Len(acc.out) = 3 * q + 1 /\ Len(w) = 4 * q + 2
        \/ Len(acc.out) = 3 * q + 2 /\ Len(w) = 4 * q + 3
        \/ Len(acc.out) = 3 * q + 1 /\ Len(w) = 4 * q + 3
        \/ Len(acc.out) = 3 * q + 1 /\ Len(w) = 4 * q + 4
        \/ Len(acc.out) = 3 * q + 2 /\ Len(w) = 4 * q + 4
    BY DEF Spelt
  <2> QED
    BY <2>1
<1> QED
  BY <1>1

LEMMA SpeltDigit ==
    ASSUME NEW acc \in States, NEW w \in Seq(Chars), NEW d \in Digits, NEW size \in Nat,
           acc.phase # Wrong, acc.out \in Seq(Bytes),
           NEW q \in Nat, WholeGroups(acc.out, w, q), Spelt(acc, w, q)
    PROVE  SpeltSoFar(Read(acc, d, size), Append(w, d))
<1> DEFINE next == Read(acc, d, size)
           out == acc.out
           p == acc.part
           v == Append(w, d)
           a == out[3 * q + 1]
           b == out[3 * q + 2]
<1>1. SUFFICES ASSUME next # Failed PROVE SpeltSoFar(next, v)
  BY FailedState DEF SpeltSoFar
<1>2. acc.phase \in 0..6 /\ p \in Nat /\ Len(out) \in Nat /\ Len(w) \in Nat /\ d \in Chars
  BY StateAcc DEF Chars
<1>3. /\ v \in Seq(Chars) /\ Len(v) = Len(w) + 1 /\ v[Len(w) + 1] = d
      /\ \A i \in 1..Len(w) : v[i] = w[i]
  BY <1>2
<1>4. ASSUME NEW x \in Bytes
      PROVE  /\ Append(out, x) \in Seq(Bytes)
             /\ Len(Append(out, x)) = Len(out) + 1
             /\ Append(out, x)[Len(out) + 1] = x
             /\ \A i \in 1..Len(out) : Append(out, x)[i] = out[i]
  BY <1>2
<1>5. Len(out) >= 3 * q /\ Len(w) >= 4 * q
  BY SpeltLength
<1>6. /\ WholeGroups(out, v, q)
      /\ \A x \in Bytes : WholeGroups(Append(out, x), v, q)
  <2>1. 0 \in Bytes
    BY DEF Bytes
  <2>2. ASSUME NEW x \in Bytes
        PROVE  WholeGroups(out, v, q) /\ WholeGroups(Append(out, x), v, q)
    BY <1>2, <1>5, GroupsKept
  <2> QED
    BY <2>1, <2>2
<1>7. CASE acc.phase = 0
  <2>1. next = Acc(1, out, d * 4)
    BY <1>1, <1>7, DigitIs
  <2>2. next.phase = 1 /\ next.out = out /\ next.part = d * 4
    BY <2>1 DEF Acc
  <2>3. Len(out) = 3 * q /\ Len(w) = 4 * q
    BY <1>7 DEF Spelt, WantPad, Ended
  <2>4. v[4 * q + 1] = d /\ Len(v) = 4 * q + 1
    BY <1>3, <2>3
  <2> HIDE DEF next, out, v
  <2>5. Spelt(next, v, q)
    BY <2>2, <2>3, <2>4 DEF Spelt
  <2> QED
    BY <1>6, <2>2, <2>5 DEF SpeltSoFar, out
<1>8. CASE acc.phase = 1
  <2> DEFINE x == p + d \div 16
             rest == (d % 16) * 16
             more == Append(out, x)
  <2>1. next = Acc(2, more, rest)
    BY <1>1, <1>8, DigitIs
  <2>2. next.phase = 2 /\ next.out = more /\ next.part = rest
    BY <2>1 DEF Acc
  <2>3. /\ Len(out) = 3 * q /\ Len(w) = 4 * q + 1
        /\ w[4 * q + 1] \in Digits /\ p = w[4 * q + 1] * 4
    BY <1>8 DEF Spelt, WantPad, Ended
  <2>4. /\ x \in Bytes /\ x \div 4 = w[4 * q + 1]
        /\ (x % 4) * 16 + rest \div 16 = d /\ rest % 16 = 0 /\ rest < 256
    BY <2>3, SplitDigits
  <2> HIDE DEF x, rest, p
  <2>5. /\ more \in Seq(Bytes) /\ Len(more) = 3 * q + 1 /\ more[3 * q + 1] = x
    BY <1>4, <2>3, <2>4
  <2>6. Len(v) = 4 * q + 2 /\ v[4 * q + 1] = w[4 * q + 1] /\ v[4 * q + 2] = d
    <3>1. 4 * q + 1 \in 1..Len(w) /\ Len(w) + 1 = 4 * q + 2
      BY <2>3
    <3> QED
      BY <1>3, <3>1
  <2>7. WholeGroups(more, v, q)
    BY <1>6, <2>4
  <2> HIDE DEF next, out, v, more
  <2>8. Spelt(next, v, q)
    BY <2>2, <2>4, <2>5, <2>6 DEF Spelt
  <2> QED
    BY <2>2, <2>5, <2>7, <2>8 DEF SpeltSoFar
<1>9. CASE acc.phase = 2
  <2> DEFINE x == p + d \div 4
             rest == (d % 4) * 64
             more == Append(out, x)
  <2>1. next = Acc(3, more, rest)
    BY <1>1, <1>9, DigitIs
  <2>2. next.phase = 3 /\ next.out = more /\ next.part = rest
    BY <2>1 DEF Acc
  <2>3. /\ Len(out) = 3 * q + 1 /\ Len(w) = 4 * q + 2
        /\ p % 16 = 0 /\ p < 256
        /\ w[4 * q + 1] = a \div 4 /\ w[4 * q + 2] = (a % 4) * 16 + p \div 16
    BY <1>9 DEF Spelt, WantPad, Ended
  <2>4. /\ x \in Bytes /\ x \div 16 = p \div 16
        /\ (x % 16) * 4 + rest \div 64 = d /\ rest % 64 = 0 /\ rest < 256
    BY <1>2, <2>3, SplitDigits
  <2> HIDE DEF x, rest, p
  <2>5. /\ more \in Seq(Bytes) /\ Len(more) = 3 * q + 2
        /\ more[3 * q + 1] = a /\ more[3 * q + 2] = x
    <3>1. 3 * q + 1 \in 1..Len(out) /\ Len(out) + 1 = 3 * q + 2
      BY <2>3
    <3> QED
      BY <1>4, <2>4, <3>1
  <2>6. /\ Len(v) = 4 * q + 3 /\ v[4 * q + 1] = w[4 * q + 1]
        /\ v[4 * q + 2] = w[4 * q + 2] /\ v[4 * q + 3] = d
    <3>0. Len(w) = 4 * q + 2
      BY <2>3
    <3>1. 4 * q + 1 \in 1..Len(w) /\ 4 * q + 2 \in 1..Len(w) /\ Len(w) + 1 = 4 * q + 3
      BY <3>0
    <3> QED
      BY <1>3, <3>1
  <2>7. WholeGroups(more, v, q)
    BY <1>6, <2>4
  <2> HIDE DEF next, out, v, more, a
  <2>8. Spelt(next, v, q)
    BY <2>2, <2>3, <2>4, <2>5, <2>6 DEF Spelt
  <2> QED
    BY <2>2, <2>5, <2>7, <2>8 DEF SpeltSoFar
<1>10. CASE acc.phase = 3
  <2> DEFINE x == p + d
             more == Append(out, x)
  <2>1. next = Acc(0, more, 0)
    BY <1>1, <1>10, DigitIs
  <2>2. next.phase = 0 /\ next.out = more /\ next.part = 0
    BY <2>1 DEF Acc
  <2>3. /\ Len(out) = 3 * q + 2 /\ Len(w) = 4 * q + 3
        /\ p % 64 = 0 /\ p < 256
        /\ w[4 * q + 1] = a \div 4 /\ w[4 * q + 2] = (a % 4) * 16 + b \div 16
        /\ w[4 * q + 3] = (b % 16) * 4 + p \div 64
    BY <1>10 DEF Spelt, WantPad, Ended
  <2>4. x \in Bytes /\ x \div 64 = p \div 64 /\ x % 64 = d
    BY <1>2, <2>3, SplitDigits
  <2> HIDE DEF x, p
  <2>5. /\ more \in Seq(Bytes) /\ Len(more) = 3 * (q + 1)
        /\ more[3 * q + 1] = a /\ more[3 * q + 2] = b /\ more[3 * q + 3] = x
    <3>1. /\ 3 * q + 1 \in 1..Len(out) /\ 3 * q + 2 \in 1..Len(out)
          /\ Len(out) + 1 = 3 * q + 3 /\ 3 * q + 3 = 3 * (q + 1)
      BY <2>3
    <3> QED
      BY <1>4, <2>4, <3>1
  <2>6. /\ Len(v) = 4 * (q + 1) /\ v[4 * q + 1] = w[4 * q + 1]
        /\ v[4 * q + 2] = w[4 * q + 2] /\ v[4 * q + 3] = w[4 * q + 3] /\ v[4 * q + 4] = d
    <3>1. /\ 4 * q + 1 \in 1..Len(w) /\ 4 * q + 2 \in 1..Len(w) /\ 4 * q + 3 \in 1..Len(w)
          /\ Len(w) + 1 = 4 * q + 4 /\ 4 * (q + 1) = 4 * q + 4
      BY <2>3
    <3> QED
      BY <1>3, <3>1
  <2>7. WholeGroups(more, v, q)
    BY <1>6, <2>4
  <2> HIDE DEF next, out, v, more, a, b
  <2>8. /\ ByteAt(more, 3 * q + 1) = a /\ ByteAt(more, 3 * q + 2) = b
        /\ ByteAt(more, 3 * q + 3) = x
    BY <2>5 DEF ByteAt
  <2>9. /\ CharAt(more, 4 * q + 1) = Digit(a, b, x, 1)
        /\ CharAt(more, 4 * q + 2) = Digit(a, b, x, 2)
        /\ CharAt(more, 4 * q + 3) = Digit(a, b, x, 3)
        /\ CharAt(more, 4 * q + 4) = Digit(a, b, x, 4)
    <3>1. Len(more) \in Nat /\ Len(more) >= 3 * q + 1 /\ Len(more) >= 3 * q + 2 /\ Len(more) >= 3 * q + 3
      BY <2>5
    <3> QED
      BY <2>8, <3>1, GroupChars
  <2>10. /\ Digit(a, b, x, 1) = w[4 * q + 1] /\ Digit(a, b, x, 2) = w[4 * q + 2]
         /\ Digit(a, b, x, 3) = w[4 * q + 3] /\ Digit(a, b, x, 4) = d
    BY <2>3, <2>4 DEF Digit
  <2>11. \A j \in 1..4 : v[4 * q + j] = CharAt(more, 4 * q + j)
    <3>1. \A j \in 1..4 : j \in {1, 2, 3, 4}
      OBVIOUS
    <3> QED
      BY <2>6, <2>9, <2>10, <3>1
  <2>12. WholeGroups(more, v, q + 1)
    BY <2>7, <2>11, NextGroup
  <2>13. Spelt(next, v, q + 1)
    BY <2>2, <2>5, <2>6 DEF Spelt
  <2> QED
    BY <2>2, <2>5, <2>12, <2>13 DEF SpeltSoFar
<1>11. CASE acc.phase \notin 0..3
  BY <1>1, <1>11, DigitIs
<1> QED
  BY <1>2, <1>7, <1>8, <1>9, <1>10, <1>11

LEMMA SpeltPad ==
    ASSUME NEW acc \in States, NEW w \in Seq(Chars), NEW size \in Nat,
           acc.phase # Wrong, acc.out \in Seq(Bytes),
           NEW q \in Nat, WholeGroups(acc.out, w, q), Spelt(acc, w, q)
    PROVE  SpeltSoFar(Read(acc, Pad, size), Append(w, Pad))
<1> DEFINE next == Read(acc, Pad, size)
           out == acc.out
           p == acc.part
           v == Append(w, Pad)
           a == out[3 * q + 1]
           b == out[3 * q + 2]
<1>1. acc.phase \in 0..6 /\ p \in Nat /\ Len(out) \in Nat /\ Len(w) \in Nat /\ Pad \in Chars
  BY StateAcc DEF Chars
<1>2. /\ v \in Seq(Chars) /\ Len(v) = Len(w) + 1 /\ v[Len(w) + 1] = Pad
      /\ \A i \in 1..Len(w) : v[i] = w[i]
  BY <1>1
<1>3. Len(out) >= 3 * q /\ Len(w) >= 4 * q
  BY SpeltLength
<1>4. WholeGroups(out, v, q)
  <2>1. 0 \in Bytes
    BY DEF Bytes
  <2> QED
    BY <1>1, <1>3, <2>1, GroupsKept
<1>5. CASE acc.phase = 2
  <2>1. next = Acc(WantPad, out, p)
    BY <1>5, PadIs
  <2>2. next.phase = WantPad /\ next.out = out /\ next.part = p
    BY <2>1 DEF Acc
  <2>3. /\ Len(out) = 3 * q + 1 /\ Len(w) = 4 * q + 2
        /\ w[4 * q + 1] = a \div 4 /\ w[4 * q + 2] = (a % 4) * 16 + p \div 16
    BY <1>5 DEF Spelt, WantPad, Ended
  <2>4. /\ Len(v) = 4 * q + 3 /\ v[4 * q + 1] = w[4 * q + 1]
        /\ v[4 * q + 2] = w[4 * q + 2] /\ v[4 * q + 3] = Pad
    <3>0. Len(w) = 4 * q + 2
      BY <2>3
    <3>1. 4 * q + 1 \in 1..Len(w) /\ 4 * q + 2 \in 1..Len(w) /\ Len(w) + 1 = 4 * q + 3
      BY <3>0
    <3> QED
      BY <1>2, <3>1
  <2> HIDE DEF next, out, v, p
  <2>5. Spelt(next, v, q)
    BY <2>2, <2>3, <2>4 DEF Spelt
  <2> QED
    BY <1>4, <2>2, <2>5 DEF SpeltSoFar, out, next, v
<1>6. CASE acc.phase \in {3, WantPad} /\ p = 0
  <2>1. next = Acc(Ended, out, 0)
    BY <1>6, PadIs DEF WantPad
  <2>2. next.phase = Ended /\ next.out = out
    BY <2>1 DEF Acc
  <2>3. \/ /\ Len(out) = 3 * q + 2 /\ Len(w) = 4 * q + 3
           /\ w[4 * q + 1] = a \div 4 /\ w[4 * q + 2] = (a % 4) * 16 + b \div 16
           /\ w[4 * q + 3] = (b % 16) * 4
        \/ /\ Len(out) = 3 * q + 1 /\ Len(w) = 4 * q + 3
           /\ w[4 * q + 1] = a \div 4 /\ w[4 * q + 2] = (a % 4) * 16
           /\ w[4 * q + 3] = Pad
    <3>1. \A k \in Int : k + 0 \div 16 = k /\ k + 0 \div 64 = k
      OBVIOUS
    <3>2. a \in Bytes /\ (Len(out) = 3 * q + 2 => b \in Bytes)
      <4>1. Len(out) >= 3 * q + 1
        BY <1>1, <1>6 DEF Spelt, WantPad, Ended
      <4>2. 3 * q + 1 \in 1..Len(out) /\ (Len(out) = 3 * q + 2 => 3 * q + 2 \in 1..Len(out))
        BY <1>1, <4>1
      <4> QED
        BY <4>2
    <3>3. \A y \in Bytes : (y % 4) * 16 \in Int /\ (y % 16) * 4 \in Int
      BY DEF Bytes
    <3>4. CASE acc.phase = 3
      <4>1. /\ Len(out) = 3 * q + 2 /\ Len(w) = 4 * q + 3
            /\ w[4 * q + 1] = a \div 4 /\ w[4 * q + 2] = (a % 4) * 16 + b \div 16
            /\ w[4 * q + 3] = (b % 16) * 4 + p \div 64
        BY <3>4 DEF Spelt, WantPad, Ended
      <4> QED
        BY <1>6, <3>1, <3>2, <3>3, <4>1
    <3>5. CASE acc.phase = WantPad
      <4>1. /\ Len(out) = 3 * q + 1 /\ Len(w) = 4 * q + 3
            /\ w[4 * q + 1] = a \div 4 /\ w[4 * q + 2] = (a % 4) * 16 + p \div 16
            /\ w[4 * q + 3] = Pad
        BY <3>5 DEF Spelt, WantPad, Ended
      <4> QED
        BY <1>6, <3>1, <3>2, <3>3, <4>1
    <3> QED
      BY <1>6, <3>4, <3>5
  <2>4. /\ Len(v) = 4 * q + 4 /\ v[4 * q + 1] = w[4 * q + 1]
        /\ v[4 * q + 2] = w[4 * q + 2] /\ v[4 * q + 3] = w[4 * q + 3] /\ v[4 * q + 4] = Pad
    <3>1. /\ 4 * q + 1 \in 1..Len(w) /\ 4 * q + 2 \in 1..Len(w) /\ 4 * q + 3 \in 1..Len(w)
          /\ Len(w) + 1 = 4 * q + 4
      BY <2>3
    <3> QED
      BY <1>2, <3>1
  <2> DEFINE bb == ByteAt(out, 3 * q + 2)
             cc == ByteAt(out, 3 * q + 3)
  <2>5. /\ ByteAt(out, 3 * q + 1) = a
        /\ bb = IF Len(out) = 3 * q + 2 THEN b ELSE 0
        /\ cc = 0
    BY <1>1, <2>3 DEF ByteAt
  <2>6. /\ CharAt(out, 4 * q + 1) = Digit(a, bb, cc, 1)
        /\ CharAt(out, 4 * q + 2) = Digit(a, bb, cc, 2)
        /\ CharAt(out, 4 * q + 3) = IF Len(out) = 3 * q + 2 THEN Digit(a, bb, cc, 3) ELSE Pad
        /\ CharAt(out, 4 * q + 4) = Pad
    BY <1>1, <2>3, <2>5, GroupChars
  <2> HIDE DEF next, out, v, a, b, bb, cc
  <2>7. a \in Bytes /\ bb \in Bytes
    <3>1. 3 * q + 1 \in 1..Len(out) /\ (Len(out) = 3 * q + 2 => 3 * q + 2 \in 1..Len(out))
      BY <2>3
    <3>2. a \in Bytes /\ (Len(out) = 3 * q + 2 => b \in Bytes)
      BY <3>1 DEF a, b, out
    <3>3. 0 \in Bytes
      BY DEF Bytes
    <3> QED
      BY <2>5, <3>2, <3>3
  <2>8. /\ Digit(a, bb, cc, 1) = w[4 * q + 1] /\ Digit(a, bb, cc, 2) = w[4 * q + 2]
        /\ Len(out) = 3 * q + 2 => Digit(a, bb, cc, 3) = w[4 * q + 3]
        /\ Len(out) # 3 * q + 2 => w[4 * q + 3] = Pad
    <3>1. Digit(a, bb, cc, 1) = a \div 4 /\ Digit(a, bb, cc, 2) = (a % 4) * 16 + bb \div 16
      BY DEF Digit
    <3>2. Digit(a, bb, cc, 3) = (bb % 16) * 4
      <4>1. Digit(a, bb, cc, 3) = (bb % 16) * 4 + cc \div 64
        BY DEF Digit
      <4>2. cc \div 64 = 0 /\ (bb % 16) * 4 \in Nat
        BY <2>5, <2>7 DEF Bytes
      <4> QED
        BY <4>1, <4>2
    <3>3. bb = 0 => (a % 4) * 16 + bb \div 16 = (a % 4) * 16
      BY <2>7 DEF Bytes
    <3> QED
      BY <2>3, <2>5, <3>1, <3>2, <3>3
  <2>9. \A j \in 1..4 : v[4 * q + j] = CharAt(out, 4 * q + j)
    <3>1. \A j \in 1..4 : j \in {1, 2, 3, 4}
      OBVIOUS
    <3> QED
      BY <2>4, <2>6, <2>8, <3>1
  <2>10. WholeGroups(out, v, q + 1)
    BY <1>4, <2>9, NextGroup
  <2>11. Spelt(next, v, q)
    BY <2>2, <2>3, <2>4, <2>10 DEF Spelt
  <2> QED
    BY <1>4, <2>2, <2>11 DEF SpeltSoFar, out, next, v
<1>7. CASE acc.phase # 2 /\ ~(acc.phase \in {3, WantPad} /\ p = 0)
  <2>1. next = Failed
    BY <1>7, PadIs
  <2> QED
    BY <2>1, FailedState DEF SpeltSoFar
<1> QED
  BY <1>5, <1>6, <1>7

-----------------------------------------------------------------------------
SolidOf(f, text) ==
    f = [s \in SUBSET DOMAIN text |->
            IF s = {} THEN <<>>
            ELSE IF text[Max(s)] = Space THEN f[s \ {Max(s)}]
                 ELSE Append(f[s \ {Max(s)}], text[Max(s)])]

LEMMA SolidRun ==
    ASSUME NEW text \in Seq(Chars)
    PROVE  \E w \in [0..Len(text) -> Seq(Chars)] :
              /\ w[0] = <<>>
              /\ \A i \in 1..Len(text) :
                    w[i] = IF text[i] = Space THEN w[i - 1] ELSE Append(w[i - 1], text[i])
              /\ w[Len(text)] = Solid(text)
<1> DEFINE n == Len(text)
           Next1(v, i) == IF text[i] = Space THEN v ELSE Append(v, text[i])
           step == [p \in Seq(Chars) \X (1..n) |-> Next1(p[1], p[2])]
           chosen == CHOOSE f : SolidOf(f, text)
<1>1. n \in Nat /\ DOMAIN text = 1..n /\ \A i \in 1..n : text[i] \in Chars
  OBVIOUS
<1>2. <<>> \in Seq(Chars)
  OBVIOUS
<1>3. \A v \in Seq(Chars), i \in 1..n : step[<<v, i>>] = Next1(v, i)
  OBVIOUS
<1>4. \A v \in Seq(Chars), i \in 1..n : Next1(v, i) \in Seq(Chars)
  BY <1>1
<1>5. \A v \in Seq(Chars), i \in 1..n : step[<<v, i>>] \in Seq(Chars)
  BY <1>3, <1>4
<1> HIDE DEF n, step
<1>6. PICK f \in [SUBSET (1..n) -> Seq(Chars)] : Folds(f, n, <<>>, step)
  BY <1>1, <1>2, <1>5, FoldExists, Zenon
<1>7. SolidOf(f, text)
  <2>1. ASSUME NEW s \in SUBSET (1..n), s # {}
        PROVE  f[s] = Next1(f[s \ {Max(s)}], Max(s))
    <3>1. Max(s) \in 1..n
      BY <1>1, <2>1, MaxIn
    <3>2. s \ {Max(s)} \in SUBSET (1..n)
      OBVIOUS
    <3>3. f[s] = step[<<f[s \ {Max(s)}], Max(s)>>]
      BY <1>6, <2>1, Zenon DEF Folds
    <3>4. f[s \ {Max(s)}] \in Seq(Chars)
      BY <1>6, <3>2
    <3> QED
      BY <1>3, <3>1, <3>3, <3>4, Zenon
  <2>2. f[{}] = <<>>
    BY <1>6 DEF Folds
  <2> QED
    BY <1>1, <1>6, <2>1, <2>2 DEF SolidOf
<1>8. SolidOf(chosen, text)
  BY <1>7
<1>9. chosen[1..n] = Solid(text)
  BY <1>1, Zenon DEF Solid, FoldLeft, MapThenFoldSet, SolidOf
<1> HIDE DEF chosen
<1>10. chosen[1..0] = <<>> /\ \A i \in 1..n : chosen[1..i] = Next1(chosen[1..(i - 1)], i)
  <2>1. ASSUME NEW i \in 1..n
        PROVE  chosen[1..i] = Next1(chosen[1..(i - 1)], i)
    <3>1. Max(1..i) = i /\ (1..i) \ {i} = 1..(i - 1)
      BY <1>1, MaxOfPrefix
    <3>2. 1..i \in SUBSET (1..n) /\ 1..i # {}
      <4>1. i \in 1..i /\ \A k \in 1..i : k \in 1..n
        BY <1>1
      <4> QED
        BY <4>1
    <3>3. chosen[1..i] = Next1(chosen[(1..i) \ {Max(1..i)}], Max(1..i))
      BY <1>1, <1>8, <3>2, Zenon DEF SolidOf
    <3> QED
      BY <3>1, <3>3, Zenon
  <2>2. 1..0 = {}
    OBVIOUS
  <2>3. {} \in SUBSET DOMAIN text
    OBVIOUS
  <2> QED
    BY <1>8, <2>1, <2>2, <2>3, Zenon DEF SolidOf
<1> HIDE DEF Next1
<1>11. \A i \in 0..n : chosen[1..i] \in Seq(Chars)
  <2> DEFINE K == {i \in 0..n : chosen[1..i] \in Seq(Chars)}
  <2>1. 0 \in K
    <3>1. chosen[1..0] \in Seq(Chars)
      BY <1>2, <1>10, Zenon
    <3> QED
      BY <1>1, <3>1
  <2>2. ASSUME NEW i \in 1..n, i - 1 \in K
        PROVE  i \in K
    <3>1. chosen[1..(i - 1)] \in Seq(Chars)
      BY <2>2
    <3>2. chosen[1..i] \in Seq(Chars)
      BY <1>4, <1>10, <3>1, Zenon
    <3> QED
      BY <3>2
  <2>3. \A i \in 0..n : i \in K
    <3> HIDE DEF K
    <3> QED
      BY <1>1, <2>1, <2>2, UpTo
  <2> QED
    BY <2>3
<1> DEFINE w == [i \in 0..n |-> chosen[1..i]]
<1>12. w \in [0..n -> Seq(Chars)]
  BY <1>11
<1>13. /\ w[0] = <<>> /\ w[n] = Solid(text)
       /\ \A i \in 1..n : w[i] = Next1(w[i - 1], i)
  <2>1. \A i \in 1..n : i \in 0..n /\ i - 1 \in 0..n
    BY <1>1
  <2>2. 0 \in 0..n /\ n \in 0..n
    BY <1>1
  <2> QED
    BY <1>9, <1>10, <2>1, <2>2
<1> HIDE DEF w
<1> QED
  BY <1>12, <1>13, Zenon DEF n, Next1

LEMMA SpeltNext ==
    ASSUME NEW acc \in States, NEW w \in Seq(Chars), NEW ch \in Chars, NEW size \in Nat,
           ch # Space, SpeltSoFar(acc, w)
    PROVE  SpeltSoFar(Read(acc, ch, size), Append(w, ch))
<1>1. CASE acc.phase = Wrong
  <2>1. Read(acc, ch, size) = acc
    BY <1>1, SkipIs
  <2> QED
    BY <1>1, <2>1 DEF SpeltSoFar
<1>2. CASE acc.phase # Wrong
  <2>1. PICK q \in Nat : WholeGroups(acc.out, w, q) /\ Spelt(acc, w, q)
    BY <1>2 DEF SpeltSoFar
  <2>2. acc.out \in Seq(Bytes)
    BY <1>2 DEF SpeltSoFar
  <2>3. CASE ch = Pad
    BY <1>2, <2>1, <2>2, <2>3, SpeltPad
  <2>4. CASE ch \in Digits
    BY <1>2, <2>1, <2>2, <2>4, SpeltDigit
  <2>5. CASE ch # Pad /\ ch \notin Digits
    <3>1. Read(acc, ch, size) = Failed
      BY <1>2, <2>5, OtherIs
    <3> QED
      BY <3>1, FailedState DEF SpeltSoFar
  <2> QED
    BY <2>3, <2>4, <2>5
<1> QED
  BY <1>1, <1>2

(* A text that is read has, but for its white space, the one spelling.     *)
LEMMA OneSpelling ==
    ASSUME NEW text \in Seq(Chars), do_b64_decrypt(text) # Error
    PROVE  do_b64_encrypt(do_b64_decrypt(text)) = Solid(text)
<1> DEFINE n == Len(text)
           size == DecodeSize(n)
<1>1. n \in Nat /\ size \in Nat /\ \A i \in 1..n : text[i] \in Chars
  BY DEF DecodeSize, B64_DECODE_LEN
<1> HIDE DEF n, size
<1>2. PICK r \in [0..n -> States] :
              /\ r[0] = Start
              /\ \A i \in 1..n : r[i] = Read(r[i - 1], text[i], size)
              /\ Decode(text, size) = IF r[n].phase \in {0, Ended} THEN r[n].out ELSE Error
  BY <1>1, ReadRun, Zenon DEF n
<1>3. PICK w \in [0..n -> Seq(Chars)] :
              /\ w[0] = <<>>
              /\ \A i \in 1..n : w[i] = IF text[i] = Space THEN w[i - 1] ELSE Append(w[i - 1], text[i])
              /\ w[n] = Solid(text)
  BY <1>1, SolidRun, Zenon DEF n
<1> DEFINE K == {i \in 0..n : SpeltSoFar(r[i], w[i])}
<1>4. 0 \in K
  <2>1. SpeltSoFar(Start, <<>>)
    <3>1. Start.out \in Seq(Bytes) /\ Start.phase = 0 /\ Len(Start.out) = 3 * 0
      BY DEF Start
    <3>2. WholeGroups(Start.out, <<>>, 0)
      BY DEF WholeGroups
    <3>3. Spelt(Start, <<>>, 0)
      BY <3>1 DEF Spelt
    <3> QED
      BY <3>1, <3>2, <3>3 DEF SpeltSoFar
  <2> QED
    BY <1>1, <1>2, <1>3, <2>1
<1>5. ASSUME NEW i \in 1..n, i - 1 \in K
      PROVE  i \in K
  <2>1. /\ r[i - 1] \in States /\ w[i - 1] \in Seq(Chars) /\ text[i] \in Chars
        /\ SpeltSoFar(r[i - 1], w[i - 1])
    BY <1>1, <1>5
  <2>2. r[i] = Read(r[i - 1], text[i], size)
    BY <1>2
  <2>3. CASE text[i] = Space
    <3>1. r[i] = r[i - 1] /\ w[i] = w[i - 1]
      BY <1>3, <2>1, <2>2, <2>3, SkipIs
    <3> QED
      BY <2>1, <3>1
  <2>4. CASE text[i] # Space
    <3>1. w[i] = Append(w[i - 1], text[i])
      BY <1>3, <2>4
    <3>2. SpeltSoFar(Read(r[i - 1], text[i], size), Append(w[i - 1], text[i]))
      BY <1>1, <2>1, <2>4, SpeltNext
    <3>3. SpeltSoFar(r[i], w[i])
      BY <2>2, <3>1, <3>2, Zenon
    <3> QED
      BY <3>3
  <2> QED
    BY <2>3, <2>4
<1>6. SpeltSoFar(r[n], w[n])
  <2>1. n \in 0..n
    BY <1>1
  <2> HIDE DEF K
  <2>2. n \in K
    BY <1>1, <1>4, <1>5, <2>1, UpTo
  <2> QED
    BY <2>2 DEF K
<1> DEFINE out == r[n].out
<1>7. do_b64_decrypt(text) = Decode(text, size)
  BY DEF do_b64_decrypt, n, size
<1>8. r[n].phase \in {0, Ended} /\ Decode(text, size) = out
  BY <1>2, <1>7
<1>9. w[n] \in Seq(Chars)
  BY <1>1, <1>3
<1>10. out \in Seq(Bytes) /\ \E q \in Nat : WholeGroups(out, w[n], q) /\ Spelt(r[n], w[n], q)
  BY <1>6, <1>8 DEF SpeltSoFar, Wrong, Ended
<1>11. PICK q \in Nat : WholeGroups(out, w[n], q) /\ Spelt(r[n], w[n], q)
  BY <1>10
<1>12. \E g \in Nat : WholeGroups(out, w[n], g) /\ Len(w[n]) = 4 * g /\ Groups(Len(out)) = g
  <2>1. CASE r[n].phase = 0
    <3>1. Len(out) = 3 * q /\ Len(w[n]) = 4 * q
      BY <1>11, <2>1 DEF Spelt, WantPad, Ended
    <3> QED
      BY <1>11, <3>1 DEF Groups
  <2>2. CASE r[n].phase = Ended
    <3>1. Len(out) \in {3 * q + 1, 3 * q + 2} /\ Len(w[n]) = 4 * q + 4 /\ WholeGroups(out, w[n], q + 1)
      BY <1>11, <2>2 DEF Spelt, WantPad, Ended
    <3>2. Groups(Len(out)) = q + 1 /\ q + 1 \in Nat /\ 4 * (q + 1) = 4 * q + 4
      <4>1. (3 * q + 1 + 2) \div 3 = q + 1 /\ (3 * q + 2 + 2) \div 3 = q + 1
        OBVIOUS
      <4>2. CASE Len(out) = 3 * q + 1
        BY <4>1, <4>2 DEF Groups
      <4>3. CASE Len(out) = 3 * q + 2
        BY <4>1, <4>3 DEF Groups
      <4> HIDE DEF out
      <4> QED
        BY <3>1, <4>2, <4>3
    <3> QED
      BY <3>1, <3>2
  <2> QED
    BY <1>8, <2>1, <2>2
<1>13. do_b64_encrypt(out) = w[n]
  <2>1. PICK g \in Nat : WholeGroups(out, w[n], g) /\ Len(w[n]) = 4 * g /\ Groups(Len(out)) = g
    BY <1>12
  <2>2. do_b64_encrypt(out) = [i \in 1..4 * g |-> CharAt(out, i)]
    BY <1>10, <2>1, Written
  <2>3. w[n] = [i \in 1..4 * g |-> w[n][i]]
    BY <1>9, <2>1
  <2>4. \A i \in 1..4 * g : w[n][i] = CharAt(out, i)
    BY <2>1 DEF WholeGroups
  <2> QED
    BY <2>2, <2>3, <2>4
<1> QED
  BY <1>3, <1>7, <1>8, <1>13

-----------------------------------------------------------------------------
(* A message that is sent.                                                 *)

Letters == Nat \ {0}

(* The text before the first 0, when it ends in zeros or not at all.       *)
LEMMA CStringOf ==
    ASSUME NEW msg \in Seq(Letters), NEW k \in Nat
    PROVE  S!CString(msg \o S!Zeros(k)) = msg
<1> DEFINE t == msg \o S!Zeros(k)
           n == Len(msg)
           I == {i \in 1..Len(t) : t[i] = 0}
<1>1. n \in Nat /\ msg \in Seq(Int) /\ DOMAIN msg = 1..n /\ \A i \in 1..n : msg[i] # 0
  BY DEF Letters
<1>2. PICK z \in Seq(Int) : z = S!Zeros(k) /\ Len(z) = k /\ \A i \in 1..k : z[i] = 0
  <2> DEFINE y == [i \in 1..k |-> 0]
  <2>1. y \in Seq(Int) /\ Len(y) = k /\ \A i \in 1..k : y[i] = 0
    OBVIOUS
  <2>2. y = S!Zeros(k)
    BY DEF S!Zeros
  <2> HIDE DEF y
  <2> QED
    BY <2>1, <2>2
<1>3. /\ t \in Seq(Int) /\ Len(t) = n + k
      /\ \A i \in 1..n : t[i] = msg[i]
      /\ \A i \in (n + 1)..(n + k) : t[i] = 0
  <2>1. t = msg \o z
    BY <1>2
  <2>2. Len(msg \o z) = n + k /\ \A i \in 1..(n + k) : (msg \o z)[i] = IF i <= n THEN msg[i] ELSE z[i - n]
    BY <1>1, <1>2
  <2>3. \A i \in (n + 1)..(n + k) : i \in 1..(n + k) /\ ~(i <= n) /\ i - n \in 1..k
    BY <1>1
  <2>4. \A i \in 1..n : i \in 1..(n + k) /\ i <= n
    BY <1>1
  <2> HIDE DEF t, n
  <2> QED
    BY <1>1, <1>2, <2>1, <2>2, <2>3, <2>4
<1>4. S!CString(t) = IF (IF I # {} THEN Min(I) ELSE 0) = 0 THEN t
                     ELSE SubSeq(t, 1, (IF I # {} THEN Min(I) ELSE 0) - 1)
  BY Zenon DEF S!CString, S!SelectInSeq, S!Min, Min
<1> HIDE DEF t, n
<1>5. I = (n + 1)..(n + k)
  <2>1. \A i \in 1..Len(t) : i \in 1..n \/ i \in (n + 1)..(n + k)
    BY <1>1, <1>3
  <2>2. \A i \in (n + 1)..(n + k) : i \in 1..Len(t)
    BY <1>1, <1>3
  <2> QED
    BY <1>1, <1>3, <2>1, <2>2
<1> HIDE DEF I
<1>6. CASE k = 0
  <2>1. I = {}
    BY <1>1, <1>5, <1>6
  <2>2. Len(t) = Len(msg) /\ \A i \in 1..Len(t) : t[i] = msg[i]
    BY <1>1, <1>3, <1>6 DEF n
  <2>3. t = msg
    BY <1>1, <1>3, <2>2, SeqEqual, Zenon
  <2> QED
    BY <1>4, <2>1, <2>3 DEF t
<1>7. CASE k > 0
  <2>1. n + 1 \in I /\ \A i \in I : n + 1 <= i
    BY <1>1, <1>5, <1>7
  <2>2. Min(I) = n + 1
    <3>1. Min(I) \in I /\ \A i \in I : Min(I) <= i
      BY <2>1 DEF Min
    <3>2. Min(I) \in Int
      BY <1>1, <1>5, <3>1
    <3> QED
      BY <1>1, <2>1, <3>1, <3>2
  <2>3. SubSeq(t, 1, n) = msg
    <3>1. SubSeq(t, 1, n) \in Seq(Int) /\ Len(SubSeq(t, 1, n)) = n
      BY <1>1, <1>3
    <3>2. \A i \in 1..n : SubSeq(t, 1, n)[i] = t[i]
      BY <1>1, <1>3
    <3> QED
      BY <1>1, <1>3, <3>1, <3>2, SeqEqual DEF n
  <2>4. I # {} /\ Min(I) # 0 /\ Min(I) - 1 = n
    BY <1>1, <2>1, <2>2
  <2>5. S!CString(t) = SubSeq(t, 1, n)
    BY <1>4, <2>4
  <2> QED
    BY <2>3, <2>5 DEF t
<1> QED
  BY <1>6, <1>7

(* The header tells the length of the body.                                *)
LEMMA HeaderRead ==
    ASSUME NEW n \in Nat
    PROVE  /\ S!check_msg_header(S!Header(n)) = n
           /\ S!Header(n) \in Seq(Int) /\ Len(S!Header(n)) = HeaderLen
<1> DEFINE h == [i \in 1..8 |-> IF i <= 4 THEN -1 ELSE IF i = 8 THEN n ELSE 0]
<1>1. h \in Seq(Int) /\ Len(h) = 8 /\ h[8] = n
  OBVIOUS
<1>2. S!Header(n) = h
  BY DEF S!Header, HeaderLen, Flag
<1> QED
  BY <1>1, <1>2 DEF S!check_msg_header, HeaderLen

(* A body that is not shorter than the header covers all of it.            *)
LEMMA HeaderCovered ==
    ASSUME NEW T, NEW body \in Seq(T), Len(body) >= HeaderLen
    PROVE  S!recv_buf([header |-> S!Header(Len(body)), body |-> body]) = body
<1> DEFINE rest == SubSeq(S!Header(Len(body)), Len(body) + 1, HeaderLen)
<1>1. Len(body) \in Nat /\ HeaderLen = 8
  BY DEF HeaderLen
<1>2. rest = <<>>
  <2>1. S!Header(Len(body)) \in Seq(Int)
    BY <1>1, HeaderRead
  <2> QED
    BY <1>1, <2>1
<1>3. S!Plain(rest) = <<>>
  <2> HIDE DEF rest
  <2>1. DOMAIN rest = {}
    BY <1>2
  <2>2. S!Plain(rest) = [i \in {} |-> S!Byte(NoKey, rest[i])]
    BY <2>1, Zenon DEF S!Plain
  <2>3. DOMAIN S!Plain(rest) = 1..0 /\ Len(<<>>) = 0 /\ <<>> \in Seq(Int)
    BY <2>2
  <2>4. <<>> = [i \in 1..0 |-> S!Byte(NoKey, rest[i])]
    OBVIOUS
  <2> QED
    BY <2>2, <2>3, <2>4
<1>4. S!recv_buf([header |-> S!Header(Len(body)), body |-> body]) = body \o S!Plain(rest)
  BY DEF S!recv_buf
<1> QED
  BY <1>3, <1>4

(* The padding fills the last block, by less than a block.                 *)
LEMMA PadLenOf ==
    ASSUME NEW n \in Nat
    PROVE  /\ S!PadLen(n) \in Nat /\ S!PadLen(n) % Block = 0
           /\ S!PadLen(n) - n \in 0..(Block - 1)
  BY DEF S!PadLen, Block

(* Without a key the text goes as it is.                                   *)
LEMMA SentPlain ==
    ASSUME NEW msg \in Seq(Letters), Len(msg) >= HeaderLen
    PROVE  LET frame == S!msg_sent(NoKey, msg)
           IN  /\ frame.body = S!Plain(msg) /\ Len(frame.body) = Len(msg)
               /\ frame.header = S!Header(Len(msg))
               /\ Len(msg) <= BufLen => S!data_distribution(NoKey, frame) = msg
<1> DEFINE n == Len(msg)
           body == [i \in 1..n |-> S!Byte(NoKey, msg[i])]
           frame == S!msg_sent(NoKey, msg)
           T == {S!Byte(NoKey, ch) : ch \in Letters}
<1>1. n \in Nat /\ n >= HeaderLen /\ DOMAIN msg = 1..n /\ \A i \in 1..n : msg[i] \in Letters
  OBVIOUS
<1>2. body \in Seq(T) /\ Len(body) = n /\ DOMAIN body = 1..n
  BY <1>1
<1>3. S!CString(msg) = msg
  <2>1. S!Zeros(0) = <<>>
    BY DEF S!Zeros
  <2>2. msg \o <<>> = msg
    OBVIOUS
  <2> QED
    BY <2>1, <2>2, CStringOf
<1>4. S!Plain(msg) = body
  BY <1>1 DEF S!Plain
<1>5. frame = [header |-> S!Header(n), body |-> body]
  BY <1>2, <1>3, <1>4 DEF S!msg_sent
<1>6. S!recv_buf(frame) = body
  BY <1>1, <1>2, <1>5, HeaderCovered
<1>7. \A i \in 1..n : body[i].key = NoKey /\ body[i].char = msg[i]
  BY DEF S!Byte
<1> HIDE DEF frame, body
<1>8. [i \in DOMAIN body |-> IF body[i].key = NoKey THEN body[i].char ELSE Flag]
        = [i \in 1..n |-> msg[i]]
  BY <1>2, <1>7
<1>9. [i \in 1..n |-> msg[i]] = msg
  BY <1>1
<1>10. n <= BufLen => S!data_distribution(NoKey, frame) = msg
  <2>1. S!check_msg_header(frame.header) = n
    BY <1>1, <1>5, HeaderRead
  <2>2. n <= BufLen => ~(n > BufLen)
    BY <1>1, TextsAssumption
  <2> HIDE DEF n
  <2> QED
    BY <1>3, <1>6, <1>8, <1>9, <2>1, <2>2 DEF S!data_distribution
<1> QED
  BY <1>2, <1>4, <1>5, <1>10 DEF frame

(* With a key it goes in whole blocks, and the other side that has the     *)
(* same key takes them for the text.                                       *)
LEMMA SentSealed ==
    ASSUME NEW msg \in Seq(Letters), Len(msg) >= HeaderLen, NEW key \in Keys, key # NoKey
    PROVE  LET frame == S!msg_sent(key, msg)
           IN  /\ Len(frame.body) = S!PadLen(Len(msg))
               /\ frame.header = S!Header(Len(frame.body))
               /\ Len(frame.body) <= BufLen => S!data_distribution(key, frame) = msg
<1> DEFINE n == Len(msg)
           m == S!PadLen(n)
           p == S!Padded(msg)
           body == [i \in 1..m |-> S!Byte(key, p[i])]
           frame == S!msg_sent(key, msg)
           T == {S!Byte(key, ch) : ch \in Int}
<1>1. n \in Nat /\ n >= HeaderLen /\ msg \in Seq(Int)
  BY DEF Letters
<1>2. m \in Nat /\ m % Block = 0 /\ m >= n /\ m - n \in Nat
  <2>1. m \in Nat /\ m % Block = 0 /\ m - n \in 0..(Block - 1)
    BY <1>1, PadLenOf, Zenon
  <2> HIDE DEF m, n
  <2>2. m >= n /\ m - n \in Nat
    BY <1>1, <2>1 DEF Block
  <2> QED
    BY <2>1, <2>2
<1> HIDE DEF m
<1>3. p = msg \o S!Zeros(m - n)
  BY DEF S!Padded, m
<1>4. p \in Seq(Int) /\ Len(p) = m /\ DOMAIN p = 1..m
  <2>1. S!Zeros(m - n) \in Seq(Int) /\ Len(S!Zeros(m - n)) = m - n
    <3> DEFINE y == [i \in 1..(m - n) |-> 0]
    <3>1. y \in Seq(Int) /\ Len(y) = m - n
      BY <1>2
    <3>2. y = S!Zeros(m - n)
      BY DEF S!Zeros
    <3> QED
      BY <3>1, <3>2
  <2> QED
    BY <1>1, <1>2, <1>3, <2>1
<1>5. S!CString(p) = msg
  BY <1>2, <1>3, CStringOf
<1> HIDE DEF p
<1>6. S!WholeBlocks(p) = p
  <2>1. S!WholeBlocks(p) = SubSeq(p, 1, m)
    BY <1>2, <1>4 DEF S!WholeBlocks
  <2> QED
    BY <1>4, <2>1
<1>7. body \in Seq(T) /\ Len(body) = m /\ DOMAIN body = 1..m
  BY <1>2, <1>4
<1>8. S!Encrypt(key, p) = body
  BY <1>4, <1>6 DEF S!Encrypt
<1>9. frame = [header |-> S!Header(m), body |-> body]
  BY <1>7, <1>8 DEF S!msg_sent, p
<1>10. S!recv_buf(frame) = body
  <2>1. Len(body) >= HeaderLen /\ body \in Seq(T)
    BY <1>1, <1>2, <1>7 DEF HeaderLen
  <2> HIDE DEF body, T
  <2> QED
    BY <1>7, <1>9, <2>1, HeaderCovered, Zenon
<1>11. \A i \in 1..m : body[i].key = key /\ body[i].char = p[i]
  BY DEF S!Byte
<1> HIDE DEF body, frame
<1>12. SubSeq(body, 1, m) = body /\ S!WholeBlocks(body) = body
  BY <1>2, <1>7 DEF S!WholeBlocks
<1>13. S!Decrypt(key, body) = p
  <2>1. S!Decrypt(key, body) = [i \in 1..m |-> p[i]]
    BY <1>7, <1>11, <1>12 DEF S!Decrypt
  <2> QED
    BY <1>4, <2>1
<1>14. S!check_msg_header(frame.header) = m
  BY <1>2, <1>9, HeaderRead
<1>15. m <= BufLen => S!data_distribution(key, frame) = msg
  <2>1. m <= BufLen => ~(m > BufLen)
    BY <1>2, TextsAssumption
  <2> QED
    BY <1>5, <1>10, <1>12, <1>13, <1>14, <2>1 DEF S!data_distribution
<1> QED
  BY <1>7, <1>9, <1>15 DEF frame, m

-----------------------------------------------------------------------------
(* A log line.  What the buffer holds is the front of all there is to say. *)

Kept(t, n) == SubSeq(t, 1, L!AtMost(Len(t), n))

(* The length and the characters of a front.                               *)
LEMMA KeptOf ==
    ASSUME NEW T, NEW t \in Seq(T), NEW n \in Nat
    PROVE  /\ Kept(t, n) \in Seq(T) /\ L!AtMost(Len(t), n) \in Nat
           /\ Len(Kept(t, n)) = L!AtMost(Len(t), n)
           /\ Len(Kept(t, n)) <= n /\ Len(Kept(t, n)) <= Len(t)
           /\ \A i \in 1..L!AtMost(Len(t), n) : i \in 1..Len(t) /\ Kept(t, n)[i] = t[i]
           /\ Len(t) <= n => Kept(t, n) = t
<1> DEFINE m == L!AtMost(Len(t), n)
<1>1. m \in Nat /\ m <= n /\ m <= Len(t) /\ (Len(t) <= n => m = Len(t))
  BY DEF L!AtMost
<1> HIDE DEF m
<1>2. Kept(t, n) = SubSeq(t, 1, m)
  BY DEF Kept, m
<1>3. Len(t) <= n => Kept(t, n) = t
  BY <1>1, <1>2
<1>4. /\ SubSeq(t, 1, m) \in Seq(T) /\ Len(SubSeq(t, 1, m)) = m
      /\ \A i \in 1..m : i \in 1..Len(t) /\ SubSeq(t, 1, m)[i] = t[i]
  BY <1>1
<1> QED
  BY <1>1, <1>2, <1>3, <1>4 DEF m

(* A front is known by its length and its characters.                      *)
LEMMA IsKept ==
    ASSUME NEW T, NEW t \in Seq(T), NEW n \in Nat, NEW s \in Seq(T),
           Len(s) = L!AtMost(Len(t), n), \A i \in 1..Len(s) : s[i] = t[i]
    PROVE  s = Kept(t, n)
<1>1. /\ Kept(t, n) \in Seq(T) /\ Len(Kept(t, n)) = Len(s)
      /\ \A i \in 1..Len(s) : Kept(t, n)[i] = s[i]
  BY KeptOf
<1> QED
  BY <1>1, SeqEqual

LEMMA ConcatOf ==
    ASSUME NEW T, NEW s \in Seq(T), NEW t \in Seq(T)
    PROVE  /\ s \o t \in Seq(T) /\ Len(s \o t) = Len(s) + Len(t)
           /\ \A i \in 1..(Len(s) + Len(t)) :
                 (s \o t)[i] = IF i <= Len(s) THEN s[i] ELSE t[i - Len(s)]
  OBVIOUS

(* elog_strcpy onto a front keeps the front of both (elog_utils.c:41-56).  *)
LEMMA CopyKept ==
    ASSUME NEW T, NEW t \in Seq(T), NEW more \in Seq(T)
    PROVE  L!Copy(Kept(t, LineBuf), more) = Kept(t \o more, LineBuf)
<1> DEFINE b == Kept(t, LineBuf)
           k == L!AtMost(Len(more), LineBuf - Len(b))
           s == b \o SubSeq(more, 1, k)
<1>1. LineBuf \in Nat /\ Len(t) \in Nat /\ Len(more) \in Nat
  BY DEF LineBuf
<1>2. /\ b \in Seq(T) /\ Len(b) \in Nat /\ Len(b) <= LineBuf /\ Len(b) = L!AtMost(Len(t), LineBuf)
      /\ \A i \in 1..Len(b) : b[i] = t[i]
  BY <1>1, KeptOf
<1> HIDE DEF b
<1>3. k \in Nat /\ k <= Len(more)
  BY <1>1, <1>2 DEF L!AtMost
<1>4. /\ SubSeq(more, 1, k) \in Seq(T) /\ Len(SubSeq(more, 1, k)) = k
      /\ \A i \in 1..k : SubSeq(more, 1, k)[i] = more[i]
  BY <1>3
<1>5. /\ s \in Seq(T) /\ Len(s) = Len(b) + k
      /\ \A i \in 1..(Len(b) + k) : s[i] = IF i <= Len(b) THEN b[i] ELSE more[i - Len(b)]
  <2> DEFINE x == SubSeq(more, 1, k)
  <2> HIDE DEF k
  <2>1. x \in Seq(T) /\ Len(x) = k /\ \A i \in 1..k : x[i] = more[i]
    BY <1>4
  <2> HIDE DEF x
  <2>2. /\ b \o x \in Seq(T) /\ Len(b \o x) = Len(b) + k
        /\ \A i \in 1..(Len(b) + k) : (b \o x)[i] = IF i <= Len(b) THEN b[i] ELSE x[i - Len(b)]
    <3>1. b \in Seq(T) /\ x \in Seq(T) /\ Len(x) = k
      BY <1>2, <2>1
    <3> HIDE DEF x
    <3> QED
      BY <3>1, ConcatOf
  <2>3. \A i \in 1..(Len(b) + k) : ~(i <= Len(b)) => i - Len(b) \in 1..k
    BY <1>2, <1>3
  <2>4. s = b \o x
    BY DEF x
  <2> HIDE DEF s
  <2> QED
    BY <2>1, <2>2, <2>3, <2>4
<1>6. /\ t \o more \in Seq(T) /\ Len(t \o more) = Len(t) + Len(more)
      /\ \A i \in 1..(Len(t) + Len(more)) :
            (t \o more)[i] = IF i <= Len(t) THEN t[i] ELSE more[i - Len(t)]
  OBVIOUS
<1>7. Len(b) + k = L!AtMost(Len(t) + Len(more), LineBuf)
  <2>1. Len(b) = L!AtMost(Len(t), LineBuf)
    BY <1>2
  <2>2. CASE Len(t) < LineBuf
    BY <1>1, <2>1, <2>2 DEF L!AtMost
  <2>3. CASE ~(Len(t) < LineBuf)
    BY <1>1, <2>1, <2>3 DEF L!AtMost
  <2> QED
    BY <2>2, <2>3
<1>8. k > 0 => Len(b) = Len(t)
  BY <1>1, <1>2, <1>3 DEF L!AtMost
<1>9. Len(b) <= Len(t)
  BY <1>1, <1>2 DEF L!AtMost
<1> HIDE DEF k, s
<1>10. \A i \in 1..Len(s) : s[i] = (t \o more)[i]
  <2> SUFFICES ASSUME NEW i \in 1..Len(s) PROVE s[i] = (t \o more)[i]
    OBVIOUS
  <2>1. i \in 1..(Len(b) + k) /\ i \in 1..(Len(t) + Len(more))
    <3>1. i \in 1..(Len(b) + k)
      BY <1>5
    <3>2. Len(b) + k <= Len(t) + Len(more) /\ Len(b) + k \in Nat
      <4>1. Len(b) \in Nat
        BY <1>2
      <4> QED
        BY <1>1, <1>3, <1>9, <4>1
    <3> QED
      BY <1>1, <3>1, <3>2
  <2>2. CASE i <= Len(b)
    BY <1>1, <1>2, <1>5, <1>6, <1>9, <2>1, <2>2
  <2>3. CASE ~(i <= Len(b))
    <3>1. k > 0 /\ Len(b) = Len(t)
      BY <1>2, <1>3, <1>8, <2>1, <2>3
    <3> QED
      BY <1>5, <1>6, <2>1, <2>3, <3>1
  <2> QED
    BY <2>2, <2>3
<1>11. s = Kept(t \o more, LineBuf)
  BY <1>1, <1>5, <1>6, <1>7, <1>10, IsKept
<1>12. L!Copy(b, more) = s
  BY DEF L!Copy, s, k
<1> QED
  BY <1>11, <1>12 DEF b

(* The values such a function takes at 1..i are the steps of a fold. *)
LEMMA FoldSteps ==
    ASSUME NEW n \in Nat, NEW base, NEW step, NEW f, Folds(f, n, base, step)
    PROVE  /\ f[1..0] = base
           /\ \A i \in 1..n : f[1..i] = step[<<f[1..(i - 1)], i>>]
<1>1. ASSUME NEW i \in 0..n
      PROVE  1..i \in SUBSET (1..n)
  OBVIOUS
<1>2. 1..0 = {}
  OBVIOUS
<1>3. f[1..0] = base
  BY <1>1, <1>2 DEF Folds
<1>4. ASSUME NEW i \in 1..n
      PROVE  f[1..i] = step[<<f[1..(i - 1)], i>>]
  <2>1. i \in Nat /\ i > 0 /\ i \in 0..n /\ 1..i # {}
    OBVIOUS
  <2>2. Max(1..i) = i /\ (1..i) \ {i} = 1..(i - 1)
    BY <2>1, MaxOfPrefix
  <2>3. f[1..i] = step[<<f[(1..i) \ {Max(1..i)}], Max(1..i)>>]
    BY <1>1, <2>1 DEF Folds
  <2> QED
    BY <2>2, <2>3
<1> QED
  BY <1>3, <1>4

Runs(r, n, base, step) == r[0] = base /\ \A i \in 1..n : r[i] = step[<<r[i - 1], i>>]

(* A function of the numbers up to n defined by recursion from the one before. *)
LEMMA RunExists ==
    ASSUME NEW V, NEW base \in V, NEW n \in Nat, NEW step,
           \A v \in V, i \in 1..n : step[<<v, i>>] \in V
    PROVE  \E r \in [0..n -> V] : Runs(r, n, base, step)
<1>1. PICK f \in [SUBSET (1..n) -> V] : Folds(f, n, base, step)
  BY FoldExists, Zenon
<1> DEFINE r == [i \in 0..n |-> f[1..i]]
<1>2. \A i \in 0..n : 1..i \in SUBSET (1..n)
  OBVIOUS
<1>3. r \in [0..n -> V]
  BY <1>2
<1>4. /\ f[1..0] = base
      /\ \A i \in 1..n : f[1..i] = step[<<f[1..(i - 1)], i>>]
  BY <1>1, FoldSteps
<1>5. r[0] = base
  BY <1>4
<1>6. ASSUME NEW i \in 1..n PROVE r[i] = step[<<r[i - 1], i>>]
  <2>1. i \in 0..n /\ i - 1 \in 0..n
    OBVIOUS
  <2>2. r[i] = f[1..i] /\ r[i - 1] = f[1..(i - 1)]
    BY <2>1, Zenon
  <2> QED
    BY <1>4, <2>2
<1> QED
  BY <1>3, <1>5, <1>6 DEF Runs
FlattenOf(f, ps) ==
    f = [i \in 1..Len(ps) |-> IF i = 1 THEN ps[i] ELSE f[i - 1] \o ps[i]]

LEMMA FlattenRun ==
    ASSUME NEW T, NEW ps \in Seq(Seq(T)), Len(ps) > 0
    PROVE  \E r \in [0..Len(ps) -> Seq(T)] :
              /\ r[0] = <<>> /\ \A i \in 1..Len(ps) : r[i] = r[i - 1] \o ps[i]
              /\ r[Len(ps)] = FlattenSeq(ps)
<1> DEFINE n == Len(ps)
           Next1(v, i) == v \o ps[i]
           step == [p \in Seq(T) \X (1..n) |-> Next1(p[1], p[2])]
           chosen == CHOOSE f : FlattenOf(f, ps)
<1>1. n \in Nat /\ n > 0 /\ <<>> \in Seq(T) /\ \A i \in 1..n : ps[i] \in Seq(T)
  OBVIOUS
<1> HIDE DEF n
<1>2. \A v \in Seq(T), i \in 1..n : step[<<v, i>>] = v \o ps[i]
  OBVIOUS
<1>3. \A v \in Seq(T), i \in 1..n : step[<<v, i>>] \in Seq(T)
  <2> HIDE DEF step
  <2> SUFFICES ASSUME NEW v \in Seq(T), NEW i \in 1..n PROVE step[<<v, i>>] \in Seq(T)
    BY Zenon
  <2>1. v \o ps[i] \in Seq(T)
    BY <1>1
  <2>2. step[<<v, i>>] = v \o ps[i]
    BY <1>2
  <2> QED
    BY <2>1, <2>2
<1> HIDE DEF step
<1>4. PICK r \in [0..n -> Seq(T)] : r[0] = <<>> /\ \A i \in 1..n : r[i] = step[<<r[i - 1], i>>]
  <2>1. <<>> \in Seq(T)
    BY <1>1
  <2>2. \E r \in [0..n -> Seq(T)] : Runs(r, n, <<>>, step)
    BY <1>1, <1>3, <2>1, RunExists, Zenon
  <2> QED
    BY <2>2 DEF Runs
<1>5. \A i \in 1..n : r[i] = r[i - 1] \o ps[i]
  <2> SUFFICES ASSUME NEW i \in 1..n PROVE r[i] = r[i - 1] \o ps[i]
    OBVIOUS
  <2>1. i - 1 \in 0..n
    BY <1>1
  <2>2. r[i - 1] \in Seq(T)
    BY <1>4, <2>1
  <2> QED
    BY <1>2, <1>4, <2>2
<1>6. r[1] = ps[1]
  <2>1. 1 \in 1..n /\ 1 - 1 = 0
    BY <1>1
  <2>2. r[1] = <<>> \o ps[1] /\ ps[1] \in Seq(T)
    BY <1>1, <1>4, <1>5, <2>1
  <2> QED
    BY <2>2
<1>7. FlattenOf([i \in 1..n |-> r[i]], ps)
  <2> DEFINE f == [i \in 1..n |-> r[i]]
  <2>1. ASSUME NEW i \in 1..n
        PROVE  f[i] = IF i = 1 THEN ps[i] ELSE f[i - 1] \o ps[i]
    <3>1. CASE i = 1
      BY <1>6, <3>1
    <3>2. CASE i # 1
      <4>1. i - 1 \in 1..n
        BY <1>1, <3>2
      <4> QED
        BY <1>5, <3>2, <4>1
    <3> QED
      BY <3>1, <3>2
  <2>2. f = [i \in 1..n |-> f[i]]
    OBVIOUS
  <2> HIDE DEF f
  <2>3. f = [i \in 1..n |-> IF i = 1 THEN ps[i] ELSE f[i - 1] \o ps[i]]
    BY <2>1, <2>2
  <2> QED
    BY <2>3 DEF FlattenOf, n, f
<1>8. FlattenOf(chosen, ps)
  BY <1>7
<1>9. chosen[n] = FlattenSeq(ps)
  <2>1. n # 0
    BY <1>1
  <2>2. FlattenSeq(ps) = IF n = 0 THEN ps ELSE chosen[n]
    BY DEF FlattenSeq, FlattenOf, n
  <2> QED
    BY <2>1, <2>2
<1> HIDE DEF chosen
<1>10. \A i \in 1..n : chosen[i] = IF i = 1 THEN ps[i] ELSE chosen[i - 1] \o ps[i]
  BY <1>8 DEF FlattenOf, n
<1>11. \A i \in 0..n : i = 0 \/ chosen[i] = r[i]
  <2> DEFINE K == {i \in 0..n : i = 0 \/ chosen[i] = r[i]}
  <2>1. 0 \in K
    BY <1>1
  <2>2. ASSUME NEW i \in 1..n, i - 1 \in K
        PROVE  i \in K
    <3>1. CASE i = 1
      BY <1>6, <1>10, <3>1
    <3>2. CASE i # 1
      <4>1. chosen[i - 1] = r[i - 1]
        BY <1>1, <2>2, <3>2
      <4>2. chosen[i] = r[i]
        BY <1>5, <1>10, <3>2, <4>1
      <4> QED
        BY <4>2
    <3> QED
      BY <3>1, <3>2
  <2>3. \A i \in 0..n : i \in K
    <3> HIDE DEF K
    <3> QED
      BY <1>1, <2>1, <2>2, UpTo
  <2> QED
    BY <2>3
<1>12. r[n] = FlattenSeq(ps)
  BY <1>1, <1>9, <1>11
<1> QED
  BY <1>4, <1>5, <1>12 DEF n

CopyOf(f, ps) ==
    f = [s \in SUBSET DOMAIN ps |->
            IF s = {} THEN <<>> ELSE L!Copy(f[s \ {Max(s)}], ps[Max(s)])]

(* The header is the front of all its pieces.                              *)
LEMMA CopiedPieces ==
    ASSUME NEW T, NEW ps \in Seq(Seq(T)), Len(ps) > 0
    PROVE  FlattenSeq(ps) \in Seq(T) /\ FoldLeft(L!Copy, <<>>, ps) = Kept(FlattenSeq(ps), LineBuf)
<1> DEFINE n == Len(ps)
           V == {b \in Seq(T) : Len(b) <= LineBuf}
           Next1(v, i) == L!Copy(v, ps[i])
           step == [p \in V \X (1..n) |-> Next1(p[1], p[2])]
           chosen == CHOOSE f : CopyOf(f, ps)
<1>1. n \in Nat /\ n > 0 /\ DOMAIN ps = 1..n /\ \A i \in 1..n : ps[i] \in Seq(T)
  OBVIOUS
<1>2. <<>> \in V
  BY DEF LineBuf
<1>3. \A v \in V, i \in 1..n : Next1(v, i) \in V
  <2> SUFFICES ASSUME NEW v \in V, NEW i \in 1..n PROVE Next1(v, i) \in V
    OBVIOUS
  <2>1. v = Kept(v, LineBuf)
    BY KeptOf DEF LineBuf
  <2>2. Next1(v, i) = Kept(v \o ps[i], LineBuf)
    BY <1>1, <2>1, CopyKept
  <2>3. v \o ps[i] \in Seq(T) /\ LineBuf \in Nat
    BY <1>1 DEF LineBuf
  <2>4. Kept(v \o ps[i], LineBuf) \in V
    BY <2>3, KeptOf
  <2> HIDE DEF Next1
  <2> QED
    BY <2>2, <2>4
<1>4. \A v \in V, i \in 1..n : step[<<v, i>>] = Next1(v, i)
  OBVIOUS
<1>5. \A v \in V, i \in 1..n : step[<<v, i>>] \in V
  <2> HIDE DEF step, V, Next1
  <2> SUFFICES ASSUME NEW v \in V, NEW i \in 1..n PROVE step[<<v, i>>] \in V
    BY Zenon
  <2>1. Next1(v, i) \in V
    BY <1>3, Zenon
  <2>2. step[<<v, i>>] = Next1(v, i)
    BY <1>4, Zenon
  <2> QED
    BY <2>1, <2>2
<1> HIDE DEF n, step, V
<1>6. PICK f \in [SUBSET (1..n) -> V] : Folds(f, n, <<>>, step)
  BY <1>1, <1>2, <1>5, FoldExists, Zenon
<1>7. CopyOf(f, ps)
  <2>1. ASSUME NEW s \in SUBSET (1..n), s # {}
        PROVE  f[s] = Next1(f[s \ {Max(s)}], Max(s))
    <3>1. Max(s) \in 1..n
      BY <1>1, <2>1, MaxIn
    <3>2. s \ {Max(s)} \in SUBSET (1..n)
      OBVIOUS
    <3>3. f[s] = step[<<f[s \ {Max(s)}], Max(s)>>]
      BY <1>6, <2>1, Zenon DEF Folds
    <3>4. f[s \ {Max(s)}] \in V
      BY <1>6, <3>2
    <3> QED
      BY <1>4, <3>1, <3>3, <3>4, Zenon
  <2>2. f[{}] = <<>>
    BY <1>6 DEF Folds
  <2> QED
    BY <1>1, <1>6, <2>1, <2>2 DEF CopyOf
<1>8. CopyOf(chosen, ps)
  BY <1>7
<1>9. chosen[1..n] = FoldLeft(L!Copy, <<>>, ps)
  BY <1>1, Zenon DEF FoldLeft, MapThenFoldSet, CopyOf
<1> HIDE DEF chosen
<1>10. chosen[1..0] = <<>> /\ \A i \in 1..n : chosen[1..i] = Next1(chosen[1..(i - 1)], i)
  <2>1. ASSUME NEW i \in 1..n
        PROVE  chosen[1..i] = Next1(chosen[1..(i - 1)], i)
    <3>1. Max(1..i) = i /\ (1..i) \ {i} = 1..(i - 1)
      BY <1>1, MaxOfPrefix
    <3>2. 1..i \in SUBSET (1..n) /\ 1..i # {}
      <4>1. i \in 1..i /\ \A k \in 1..i : k \in 1..n
        BY <1>1
      <4> QED
        BY <4>1
    <3>3. chosen[1..i] = Next1(chosen[(1..i) \ {Max(1..i)}], Max(1..i))
      BY <1>1, <1>8, <3>2, Zenon DEF CopyOf
    <3> QED
      BY <3>1, <3>3, Zenon
  <2>2. 1..0 = {}
    OBVIOUS
  <2>3. {} \in SUBSET DOMAIN ps
    OBVIOUS
  <2> QED
    BY <1>8, <2>1, <2>2, <2>3, Zenon DEF CopyOf
<1>11. PICK r \in [0..n -> Seq(T)] :
          /\ r[0] = <<>> /\ \A i \in 1..n : r[i] = r[i - 1] \o ps[i]
          /\ r[n] = FlattenSeq(ps)
  BY FlattenRun DEF n
<1>12. \A i \in 0..n : chosen[1..i] = Kept(r[i], LineBuf)
  <2> DEFINE K == {i \in 0..n : chosen[1..i] = Kept(r[i], LineBuf)}
  <2>1. 0 \in K
    <3>1. Kept(<<>>, LineBuf) = <<>>
      BY DEF Kept, L!AtMost, LineBuf
    <3>2. chosen[1..0] = Kept(r[0], LineBuf)
      BY <1>10, <1>11, <3>1, Zenon
    <3> QED
      BY <1>1, <3>2
  <2>2. ASSUME NEW i \in 1..n, i - 1 \in K
        PROVE  i \in K
    <3>1. r[i - 1] \in Seq(T) /\ ps[i] \in Seq(T)
      BY <1>1, <1>11, <2>2
    <3>2. chosen[1..i] = L!Copy(Kept(r[i - 1], LineBuf), ps[i])
      BY <1>10, <2>2
    <3>3. chosen[1..i] = Kept(r[i - 1] \o ps[i], LineBuf)
      BY <3>1, <3>2, CopyKept
    <3>4. chosen[1..i] = Kept(r[i], LineBuf)
      BY <1>11, <3>3
    <3> QED
      BY <3>4
  <2>3. \A i \in 0..n : i \in K
    <3> HIDE DEF K
    <3> QED
      BY <1>1, <2>1, <2>2, UpTo
  <2> QED
    BY <2>3
<1>13. n \in 0..n
  BY <1>1
<1> QED
  BY <1>9, <1>11, <1>12, <1>13

-----------------------------------------------------------------------------
(* All the characters that elog.c itself puts into a line.                 *)
Fixed == {"^", "[", "m", "1", "2", "3", "A", "E", "/", "\n", " ", "]", "(", ":", ")"}

Printable(G) == Fixed \subseteq G

(* A call whose texts are of the characters of a set.                      *)
IsCall(c, G) ==
    /\ c.level \in Levels /\ c.colour \in BOOLEAN
    /\ {c.tag, c.time, c.process, c.thread, c.file, c.func, c.line, c.message} \subseteq Seq(G)

LEMMA FixedTexts ==
    ASSUME NEW G, Printable(G)
    PROVE  /\ CsiStart \in Seq(G) /\ CsiEnd \in Seq(G) /\ L!Newline \in Seq(G)
           /\ \A l \in Levels : Colour[l] \in Seq(G) /\ LevelInfo[l] \in Seq(G)
           /\ L!Blank \in G
           /\ <<>> \in Seq(G) /\ <<L!Blank>> \in Seq(G)
           /\ <<"[">> \in Seq(G) /\ <<"]", L!Blank>> \in Seq(G)
           /\ <<"(">> \in Seq(G) /\ <<":">> \in Seq(G) /\ <<")">> \in Seq(G)
<1>1. /\ "^" \in G /\ "[" \in G /\ "m" \in G /\ "3" \in G /\ "1" \in G
      /\ "2" \in G /\ "A" \in G /\ "E" \in G /\ "/" \in G /\ "\n" \in G
      /\ " " \in G /\ "]" \in G /\ "(" \in G /\ ":" \in G /\ ")" \in G
  BY Zenon DEF Printable, Fixed
<1>2. \A a \in G, b \in G : <<a, b>> \in Seq(G) /\ <<a>> \in Seq(G)
  OBVIOUS
<1>3. \A l \in Levels : l = 0 \/ l = 1
  BY DEF Levels
<1>4. Colour[0] = <<"3", "1">> /\ Colour[1] = <<"3", "2">>
  BY DEF Colour, Levels
<1>5. LevelInfo[0] = <<"A", "/">> /\ LevelInfo[1] = <<"E", "/">>
  BY DEF LevelInfo, Levels
<1>6. CsiStart \in Seq(G) /\ CsiEnd \in Seq(G) /\ L!Newline \in Seq(G)
  BY <1>1, <1>2, Zenon DEF CsiStart, CsiEnd, L!Newline
<1>7. \A l \in Levels : Colour[l] \in Seq(G) /\ LevelInfo[l] \in Seq(G)
  <2>1. Colour[0] \in Seq(G) /\ Colour[1] \in Seq(G) /\ LevelInfo[0] \in Seq(G) /\ LevelInfo[1] \in Seq(G)
    BY <1>1, <1>2, <1>4, <1>5, Zenon
  <2> QED
    BY <1>3, <2>1, Zenon
<1>8. L!Blank \in G /\ <<L!Blank>> \in Seq(G) /\ <<"]", L!Blank>> \in Seq(G)
  BY <1>1, <1>2, Zenon DEF L!Blank
<1>9. <<>> \in Seq(G)
  OBVIOUS
<1> QED
  BY <1>1, <1>2, <1>6, <1>7, <1>8, <1>9, Zenon

LEMMA OptOf ==
    ASSUME NEW G, NEW condition, NEW t \in Seq(G)
    PROVE  L!Opt(condition, t) \in Seq(G)
<1>1. <<>> \in Seq(G)
  OBVIOUS
<1> QED
  BY <1>1, Zenon DEF L!Opt

LEMMA CallTexts ==
    ASSUME NEW G, NEW c, IsCall(c, G)
    PROVE  /\ c.level \in Levels /\ c.colour \in BOOLEAN /\ c.tag \in Seq(G) /\ c.time \in Seq(G)
           /\ c.process \in Seq(G) /\ c.thread \in Seq(G) /\ c.file \in Seq(G)
           /\ c.func \in Seq(G) /\ c.line \in Seq(G) /\ c.message \in Seq(G)
  BY Zenon DEF IsCall

LEMMA FillingOf ==
    ASSUME NEW G, Printable(G), NEW tag \in Seq(G)
    PROVE  /\ L!Filling(tag) \in Seq(G)
           /\ \A i \in 1..Len(L!Filling(tag)) : L!Filling(tag)[i] = L!Blank
<1> DEFINE k == TagMax \div 2 - Len(tag)
           f == [i \in 1..k |-> L!Blank]
<1>1. Len(tag) \in Nat /\ TagMax \div 2 = 3 /\ L!Blank \in G
  BY FixedTexts DEF TagMax
<1>2. CASE Len(tag) <= TagMax \div 2
  <2>1. k \in Nat
    BY <1>1, <1>2
  <2>2. L!Filling(tag) = f
    BY <1>2 DEF L!Filling, L!Opt
  <2> HIDE DEF k
  <2>3. f \in Seq(G) /\ Len(f) = k /\ \A i \in 1..k : f[i] = L!Blank
    BY <1>1, <2>1
  <2> QED
    BY <2>2, <2>3
<1>3. CASE ~(Len(tag) <= TagMax \div 2)
  <2>1. L!Filling(tag) = <<>>
    BY <1>3 DEF L!Filling, L!Opt
  <2> QED
    BY <2>1
<1> QED
  BY <1>2, <1>3

LEMMA SevenTexts ==
    ASSUME NEW G, NEW s1 \in Seq(G), NEW s2 \in Seq(G), NEW s3 \in Seq(G), NEW s4 \in Seq(G),
           NEW s5 \in Seq(G), NEW s6 \in Seq(G), NEW s7 \in Seq(G)
    PROVE  <<s1, s2, s3, s4, s5, s6, s7>> \in Seq(Seq(G))
  OBVIOUS

LEMMA EightTexts ==
    ASSUME NEW G, NEW s1 \in Seq(G), NEW s2 \in Seq(G), NEW s3 \in Seq(G), NEW s4 \in Seq(G),
           NEW s5 \in Seq(G), NEW s6 \in Seq(G), NEW s7 \in Seq(G), NEW s8 \in Seq(G)
    PROVE  <<s1, s2, s3, s4, s5, s6, s7, s8>> \in Seq(Seq(G))
  OBVIOUS

LEMMA Longer ==
    ASSUME NEW T, NEW s \in Seq(T), NEW t \in Seq(T), NEW n \in Nat, Len(s) >= n
    PROVE  s \o t \in Seq(T) /\ Len(s \o t) >= n
  OBVIOUS

LEMMA InfosOf ==
    ASSUME NEW G, Printable(G), NEW c, IsCall(c, G)
    PROVE  /\ L!TagInfo(c.tag) \in Seq(Seq(G)) /\ L!OriginInfo(c) \in Seq(Seq(G))
           /\ L!PlaceInfo(c) \in Seq(Seq(G))
<1>1. L!TagInfo(c.tag) \in Seq(Seq(G))
  <2>1. c.tag \in Seq(G) /\ L!Filling(c.tag) \in Seq(G) /\ <<L!Blank>> \in Seq(G)
    BY CallTexts, FillingOf, FixedTexts
  <2> QED
    BY <2>1 DEF L!TagInfo
<1>2. L!OriginInfo(c) \in Seq(Seq(G))
  <2>1. /\ <<"[">> \in Seq(G) /\ <<L!Blank>> \in Seq(G) /\ <<"]", L!Blank>> \in Seq(G)
        /\ c.time \in Seq(G) /\ c.process \in Seq(G) /\ c.thread \in Seq(G)
    BY CallTexts, FixedTexts
  <2> QED
    BY <2>1, OptOf, SevenTexts, Zenon DEF L!OriginInfo
<1>3. L!PlaceInfo(c) \in Seq(Seq(G))
  <2>1. SubSeq(c.line, 1, L!AtMost(Len(c.line), NumMax - 1)) \in Seq(G)
    <3>1. NumMax - 1 \in Nat
      BY DEF NumMax
    <3> QED
      BY <3>1, CallTexts, KeptOf DEF Kept
  <2>2. /\ <<"(">> \in Seq(G) /\ <<L!Blank>> \in Seq(G) /\ <<":">> \in Seq(G) /\ <<")">> \in Seq(G)
        /\ c.file \in Seq(G) /\ c.func \in Seq(G)
    BY CallTexts, FixedTexts
  <2> QED
    BY <2>1, <2>2, OptOf, EightTexts, Zenon DEF L!PlaceInfo
<1> QED
  BY <1>1, <1>2, <1>3

(* The pieces of a header are texts, whatever is shown.                    *)
LEMMA PiecesOf ==
    ASSUME NEW G, Printable(G), NEW c, IsCall(c, G)
    PROVE  L!Pieces(c) \in Seq(Seq(G)) /\ Len(L!Pieces(c)) > 0
<1> DEFINE first == <<L!Opt(c.colour, CsiStart), L!Opt(c.colour, Colour[c.level]),
                      L!Opt("LVL" \in c.formats, LevelInfo[c.level])>>
           a == L!Opt("TAG" \in c.formats, L!TagInfo(c.tag))
           b == L!Opt(c.formats \cap {"TIME", "P_INFO", "T_INFO"} # {}, L!OriginInfo(c))
           d == L!Opt(c.formats \cap {"DIR", "FUNC", "LINE"} # {}, L!PlaceInfo(c))
<1>0. 3 \in Nat
  OBVIOUS
<1>4. first \in Seq(Seq(G)) /\ Len(first) >= 3
  <2>1. CsiStart \in Seq(G) /\ Colour[c.level] \in Seq(G) /\ LevelInfo[c.level] \in Seq(G)
    BY CallTexts, FixedTexts
  <2>2. /\ L!Opt(c.colour, CsiStart) \in Seq(G) /\ L!Opt(c.colour, Colour[c.level]) \in Seq(G)
        /\ L!Opt("LVL" \in c.formats, LevelInfo[c.level]) \in Seq(G)
    BY <2>1, OptOf
  <2> QED
    BY <2>2
<1>5. a \in Seq(Seq(G)) /\ b \in Seq(Seq(G)) /\ d \in Seq(Seq(G))
  BY InfosOf, OptOf
<1>6. L!Pieces(c) = ((first \o a) \o b) \o d
  BY Zenon DEF L!Pieces
<1> HIDE DEF first, a, b, d
<1>7. first \o a \in Seq(Seq(G)) /\ Len(first \o a) >= 3
  BY <1>4, <1>5, <1>0, Longer, Zenon
<1>8. (first \o a) \o b \in Seq(Seq(G)) /\ Len((first \o a) \o b) >= 3
  BY <1>5, <1>7, <1>0, Longer, Zenon
<1>9. ((first \o a) \o b) \o d \in Seq(Seq(G)) /\ Len(((first \o a) \o b) \o d) >= 3
  BY <1>5, <1>8, <1>0, Longer, Zenon
<1>10. Len(L!Pieces(c)) \in Nat
  BY <1>6, <1>9
<1> QED
  BY <1>6, <1>9, <1>10

(* What elog_output keeps of all there is to say, before it ends the line. *)
BodyMax == LineBuf - Len(CsiEnd) - Len(L!Newline)

LEMMA Lengths ==
    /\ BodyMax \in Nat /\ LineBuf = BodyMax + 3 /\ LineBuf \in Nat
    /\ Len(CsiEnd) = 2 /\ Len(L!Newline) = 1
<1>1. Len(CsiEnd) = 2 /\ Len(L!Newline) = 1
  BY DEF CsiEnd, L!Newline
<1>2. LineBuf \in Nat /\ LineBuf > 3
  BY DEF LineBuf
<1>3. BodyMax = LineBuf - 2 - 1
  BY <1>1 DEF BodyMax
<1> HIDE DEF BodyMax, LineBuf
<1> QED
  BY <1>1, <1>2, <1>3

(* The header is the front of its pieces put together (elog.c:391-484).    *)
LEMMA HeaderIs ==
    ASSUME NEW G, Printable(G), NEW c, IsCall(c, G)
    PROVE  /\ FlattenSeq(L!Pieces(c)) \in Seq(G)
           /\ L!Header(c) = Kept(FlattenSeq(L!Pieces(c)), LineBuf)
<1>1. L!Pieces(c) \in Seq(Seq(G)) /\ Len(L!Pieces(c)) > 0
  BY PiecesOf
<1>2. /\ FlattenSeq(L!Pieces(c)) \in Seq(G)
      /\ FoldLeft(L!Copy, <<>>, L!Pieces(c)) = Kept(FlattenSeq(L!Pieces(c)), LineBuf)
  BY <1>1, CopiedPieces
<1>3. L!Header(c) = FoldLeft(L!Copy, <<>>, L!Pieces(c))
  BY Zenon DEF L!Header, L!FoldLeft, FoldLeft, L!MapThenFoldSet, MapThenFoldSet, L!Max, Max
<1> QED
  BY <1>2, <1>3

HasNul(U) == Nul \in U

(* vsnprintf behind a header: the front of both, and a NUL.                *)
LEMMA PrintedIs ==
    ASSUME NEW U, HasNul(U), NEW f \in Seq(U), NEW msg \in Seq(U), Len(f) < LineBuf
    PROVE  LET p == L!Printed(f, msg)
           IN  /\ p \in Seq(U) /\ Len(p) = L!AtMost(Len(f) + Len(msg), LineBuf - 1) + 1
               /\ \A i \in 1..(Len(p) - 1) : p[i] = (f \o msg)[i]
<1> DEFINE k == L!AtMost(Len(msg), LineBuf - Len(f) - 1)
           x == SubSeq(msg, 1, k)
           p == L!Printed(f, msg)
<1>1. Len(f) \in Nat /\ Len(msg) \in Nat /\ LineBuf \in Nat
  BY Lengths
<1>2. k \in Nat /\ k <= Len(msg) /\ Len(f) + k = L!AtMost(Len(f) + Len(msg), LineBuf - 1)
  BY <1>1 DEF L!AtMost
<1>3. p = f \o x \o <<Nul>>
  <2>1. Len(f) # LineBuf
    BY <1>1
  <2> QED
    BY <2>1, Zenon DEF L!Printed
<1> HIDE DEF k, p
<1>4. x \in Seq(U) /\ Len(x) = k /\ \A i \in 1..k : x[i] = msg[i]
  BY <1>1, <1>2
<1> HIDE DEF x
<1>5. /\ f \o x \in Seq(U) /\ Len(f \o x) = Len(f) + k
      /\ \A i \in 1..(Len(f) + k) : (f \o x)[i] = IF i <= Len(f) THEN f[i] ELSE x[i - Len(f)]
  BY <1>4, ConcatOf
<1>6. <<Nul>> \in Seq(U) /\ Len(<<Nul>>) = 1
  BY DEF HasNul
<1>7. /\ p \in Seq(U) /\ Len(p) = Len(f) + k + 1
      /\ \A i \in 1..(Len(f) + k + 1) :
            p[i] = IF i <= Len(f) + k THEN (f \o x)[i] ELSE <<Nul>>[i - (Len(f) + k)]
  BY <1>3, <1>5, <1>6, ConcatOf
<1>8. \A i \in 1..(Len(f) + Len(msg)) :
         (f \o msg)[i] = IF i <= Len(f) THEN f[i] ELSE msg[i - Len(f)]
  BY ConcatOf
<1>9. ASSUME NEW i \in 1..(Len(f) + k)
      PROVE  p[i] = (f \o msg)[i]
  <2>1. i \in 1..(Len(f) + k + 1) /\ i <= Len(f) + k /\ i \in 1..(Len(f) + Len(msg))
    BY <1>1, <1>2
  <2>2. p[i] = (f \o x)[i]
    BY <1>7, <2>1
  <2>3. CASE i <= Len(f)
    BY <1>5, <1>8, <2>1, <2>2, <2>3
  <2>4. CASE ~(i <= Len(f))
    <3>1. i - Len(f) \in 1..k
      BY <1>1, <1>2, <2>4
    <3>2. (f \o x)[i] = msg[i - Len(f)]
      BY <1>4, <1>5, <2>4, <3>1
    <3> QED
      BY <1>8, <2>1, <2>2, <2>4, <3>2
  <2> QED
    BY <2>3, <2>4
<1>10. Len(p) - 1 = Len(f) + k
  BY <1>1, <1>2, <1>7
<1> QED
  BY <1>2, <1>7, <1>9, <1>10 DEF p

(* What is kept before the ending is the front of the full text.           *)
LEMMA BodyIs ==
    ASSUME NEW G, Printable(G), NEW c, IsCall(c, G)
    PROVE  Whole(c) \in Seq(G) /\ L!Body(c) = Kept(Whole(c), BodyMax)
<1> DEFINE f == FlattenSeq(L!Pieces(c))
           h == L!Header(c)
           msg == c.message
           U == G \union {Nul}
           p == L!Printed(h, msg)
           r == L!Reserved(L!LogLen(h, msg))
           s == SubSeq(p, 1, r)
<1>1. f \in Seq(G) /\ h = Kept(f, LineBuf) /\ msg \in Seq(G)
  BY HeaderIs, CallTexts
<1>2. Whole(c) = f \o msg /\ L!Body(c) = s
  BY DEF Whole, L!Body
<1> HIDE DEF f, h, msg
<1>3. Len(f) \in Nat /\ Len(msg) \in Nat /\ LineBuf = BodyMax + 3 /\ BodyMax \in Nat
  BY <1>1, Lengths
<1>4. f \o msg \in Seq(G) /\ Len(f \o msg) = Len(f) + Len(msg)
  BY <1>1
<1>5. f \in Seq(U) /\ msg \in Seq(U) /\ f \o msg \in Seq(U) /\ h \in Seq(U)
  <2>1. \A t \in Seq(G) : t \in Seq(U)
    OBVIOUS
  <2>2. h \in Seq(G)
    BY <1>1, <1>3, KeptOf
  <2> QED
    BY <1>1, <1>4, <2>1, <2>2
<1>6. /\ Len(h) = L!AtMost(Len(f), LineBuf) /\ \A i \in 1..Len(h) : h[i] = f[i]
      /\ Len(f) <= LineBuf => h = f
  BY <1>1, <1>3, KeptOf
<1>7. r = L!AtMost(Len(f) + Len(msg), BodyMax)
  <2>1. r = L!AtMost(L!AtMost(Len(h) + Len(msg), LineBuf), BodyMax)
    BY <1>3, Lengths DEF L!Reserved, L!LogLen, BodyMax
  <2>2. Len(h) = IF Len(f) < LineBuf THEN Len(f) ELSE LineBuf
    BY <1>6 DEF L!AtMost
  <2> HIDE DEF r
  <2> QED
    BY <1>3, <2>1, <2>2 DEF L!AtMost
<1> HIDE DEF r
<1>8. r \in Nat /\ r <= BodyMax /\ r <= Len(f) + Len(msg)
  BY <1>3, <1>7 DEF L!AtMost
<1>9. p \in Seq(U) /\ Len(p) >= r /\ \A i \in 1..r : p[i] = (f \o msg)[i]
  <2>1. CASE Len(f) < LineBuf
    <3>1. h = f
      BY <1>3, <1>6, <2>1
    <3>2. /\ p \in Seq(U) /\ Len(p) = L!AtMost(Len(f) + Len(msg), BodyMax + 2) + 1
          /\ \A i \in 1..(Len(p) - 1) : p[i] = (f \o msg)[i]
      <4>1. Len(f) < LineBuf /\ LineBuf - 1 = BodyMax + 2
        BY <1>3, <2>1
      <4>3. HasNul(U)
        BY DEF HasNul
      <4>2. /\ p \in Seq(U) /\ Len(p) = L!AtMost(Len(f) + Len(msg), LineBuf - 1) + 1
            /\ \A i \in 1..(Len(p) - 1) : p[i] = (f \o msg)[i]
        BY <1>5, <3>1, <4>1, <4>3, PrintedIs, Zenon
      <4> QED
        BY <4>1, <4>2
    <3> HIDE DEF p
    <3>3. r <= Len(p) - 1 /\ Len(p) \in Nat
      BY <1>3, <1>7, <3>2 DEF L!AtMost
    <3>4. \A i \in 1..r : i \in 1..(Len(p) - 1)
      BY <1>8, <3>3
    <3> QED
      BY <1>8, <3>2, <3>3, <3>4
  <2>2. CASE ~(Len(f) < LineBuf)
    <3>1. Len(h) = LineBuf
      BY <1>3, <1>6, <2>2 DEF L!AtMost
    <3>2. p = h
      BY <1>3, <3>1 DEF L!Printed
    <3>3. \A i \in 1..r : i \in 1..Len(h) /\ i \in 1..Len(f)
      BY <1>3, <1>8, <2>2, <3>1
    <3>4. \A i \in 1..Len(f) : (f \o msg)[i] = f[i]
      BY <1>1
    <3> HIDE DEF p
    <3> QED
      BY <1>5, <1>6, <1>8, <3>1, <3>2, <3>3, <3>4
  <2> QED
    BY <2>1, <2>2
<1> HIDE DEF p
<1>10. /\ s \in Seq(U) /\ Len(s) = r
       /\ \A i \in 1..r : s[i] = p[i]
  BY <1>8, <1>9
<1> HIDE DEF s
<1>11. s = Kept(f \o msg, BodyMax)
  <2>1. Len(s) = L!AtMost(Len(f \o msg), BodyMax) /\ BodyMax \in Nat
    BY <1>3, <1>4, <1>7, <1>10
  <2>2. \A i \in 1..Len(s) : s[i] = (f \o msg)[i]
    BY <1>9, <1>10
  <2> QED
    BY <1>5, <1>10, <2>1, <2>2, IsKept
<1> QED
  BY <1>2, <1>4, <1>11

(* A line that is not dropped is that front and its ending.                *)
LEMMA LineIs ==
    ASSUME NEW G, Printable(G), NEW c, IsCall(c, G), NEW filter,
           L!elog_output(filter, c) # L!Dropped
    PROVE  /\ L!elog_output(filter, c) = L!Body(c) \o Ending(c)
           /\ Ending(c) \in Seq(G) /\ Len(Ending(c)) \in {1, 3} /\ (c.colour => Len(Ending(c)) = 3)
           /\ L!Body(c) \in Seq(G) /\ Len(L!Body(c)) \in 0..BodyMax
<1> DEFINE b == L!Body(c)
           x == L!Opt(c.colour, CsiEnd)
           y == L!Newline
<1>1. x \in Seq(G) /\ y \in Seq(G) /\ Len(y) = 1 /\ Len(x) \in {0, 2} /\ (c.colour => Len(x) = 2)
  <2>1. CsiEnd \in Seq(G) /\ y \in Seq(G)
    BY FixedTexts
  <2>2. x \in Seq(G)
    BY <2>1, OptOf
  <2>3. c.colour => x = CsiEnd
    BY DEF L!Opt
  <2>4. ~c.colour => x = <<>>
    BY DEF L!Opt
  <2> QED
    BY <2>1, <2>2, <2>3, <2>4, Lengths
<1>2. b \in Seq(G) /\ Len(b) \in 0..BodyMax
  <2>1. Whole(c) \in Seq(G) /\ b = Kept(Whole(c), BodyMax)
    BY BodyIs, Lengths
  <2> HIDE DEF b
  <2>2. b \in Seq(G) /\ Len(b) <= BodyMax
    BY <2>1, KeptOf, Lengths
  <2>3. Len(b) \in Nat
    BY <2>2
  <2> QED
    BY <2>2, <2>3
<1>3. L!elog_output(filter, c) = L!Copy(L!Copy(b, x), y)
  BY Zenon DEF L!elog_output
<1>4. Ending(c) = x \o y
  BY DEF Ending, L!Opt
<1> HIDE DEF b, x, y
<1>5. ASSUME NEW t \in Seq(G), Len(t) <= LineBuf
      PROVE  Kept(t, LineBuf) = t
  BY <1>5, KeptOf, Lengths
<1>6. Len(b) \in Nat /\ Len(x) \in Nat /\ Len(b) + Len(x) <= BodyMax + 2
  <2>1. \A n \in {0, 2} : n \in Nat /\ n <= 2
    OBVIOUS
  <2>2. Len(b) \in 0..BodyMax /\ BodyMax \in Nat
    BY <1>2, Lengths
  <2>3. Len(b) \in Nat /\ Len(b) <= BodyMax
    BY <2>2
  <2>4. Len(x) \in Nat /\ Len(x) <= 2
    BY <1>1, <2>1, Zenon
  <2> QED
    BY <2>2, <2>3, <2>4
<1>7. b \o x \in Seq(G) /\ Len(b \o x) = Len(b) + Len(x)
  BY <1>1, <1>2, ConcatOf
<1>8. (b \o x) \o y \in Seq(G) /\ Len((b \o x) \o y) = Len(b) + Len(x) + 1
  <2>1. y \in Seq(G) /\ Len(y) = 1
    BY <1>1
  <2> DEFINE z == b \o x
  <2>2. z \in Seq(G) /\ Len(z) = Len(b) + Len(x)
    BY <1>7
  <2> HIDE DEF z
  <2>3. z \o y \in Seq(G) /\ Len(z \o y) = Len(z) + Len(y)
    BY <2>1, <2>2, ConcatOf
  <2>4. z \o y \in Seq(G) /\ Len(z \o y) = Len(b) + Len(x) + 1
    BY <2>1, <2>2, <2>3
  <2> QED
    BY <2>4 DEF z
<1>9. x \o y \in Seq(G) /\ Len(x \o y) = Len(x) + 1
  BY <1>1, ConcatOf
<1>10. (b \o x) \o y = b \o (x \o y)
  BY <1>1, <1>2, ConcatAssociative
<1>11. L!Copy(b, x) = b \o x
  <2>1. Kept(b, LineBuf) = b /\ Kept(b \o x, LineBuf) = b \o x
    <3>1. Len(b) <= LineBuf /\ Len(b \o x) <= LineBuf
      BY <1>6, <1>7, Lengths
    <3> QED
      BY <1>2, <1>5, <1>7, <3>1
  <2>2. L!Copy(Kept(b, LineBuf), x) = Kept(b \o x, LineBuf)
    BY <1>1, <1>2, CopyKept
  <2> QED
    BY <2>1, <2>2
<1>12. L!Copy(b \o x, y) = (b \o x) \o y
  <2>1. Len(b \o x) <= LineBuf /\ Len((b \o x) \o y) <= LineBuf
    BY <1>6, <1>7, <1>8, Lengths
  <2>2. Kept(b \o x, LineBuf) = b \o x /\ Kept((b \o x) \o y, LineBuf) = (b \o x) \o y
    BY <1>5, <1>7, <1>8, <2>1
  <2>3. L!Copy(Kept(b \o x, LineBuf), y) = Kept((b \o x) \o y, LineBuf)
    BY <1>1, <1>7, CopyKept
  <2> QED
    BY <2>2, <2>3
<1>13. L!elog_output(filter, c) = b \o Ending(c)
  BY <1>3, <1>4, <1>10, <1>11, <1>12
<1>14. Len(Ending(c)) \in {1, 3} /\ (c.colour => Len(Ending(c)) = 3)
  BY <1>1, <1>4, <1>9
<1>15. b \in Seq(G) /\ Len(b) \in 0..BodyMax
  BY <1>2, Lengths
<1> QED
  BY <1>4, <1>9, <1>13, <1>14, <1>15 DEF b

LEMMA ReverseOf ==
    ASSUME NEW G, NEW t \in Seq(G)
    PROVE  /\ Reverse(t) \in Seq(G) /\ Len(Reverse(t)) = Len(t)
           /\ \A i \in 1..Len(t) : Reverse(t)[i] = t[(Len(t) - i) + 1]
<1>1. Reverse(t) = [i \in 1..Len(t) |-> t[(Len(t) - i) + 1]]
  BY DEF Reverse
<1>2. \A i \in 1..Len(t) : (Len(t) - i) + 1 \in 1..Len(t)
  OBVIOUS
<1>3. \A i \in 1..Len(t) : t[(Len(t) - i) + 1] \in G
  BY <1>2
<1> QED
  BY <1>1, <1>3

(* The community modules' IsSuffix, of a concatenation.                    *)
LEMMA SuffixOf ==
    ASSUME NEW G, NEW b \in Seq(G), NEW e \in Seq(G)
    PROVE  IsSuffix(e, b \o e)
<1> DEFINE z == b \o e
           p == Reverse(e)
           q == Reverse(z)
<1>1. /\ z \in Seq(G) /\ Len(z) = Len(b) + Len(e)
      /\ \A i \in 1..(Len(b) + Len(e)) : z[i] = IF i <= Len(b) THEN b[i] ELSE e[i - Len(b)]
  BY ConcatOf
<1> HIDE DEF z
<1>2. /\ p \in Seq(G) /\ Len(p) = Len(e)
      /\ \A i \in 1..Len(e) : p[i] = e[(Len(e) - i) + 1]
  BY ReverseOf
<1>3. /\ q \in Seq(G) /\ Len(q) = Len(z)
      /\ \A i \in 1..Len(z) : q[i] = z[(Len(z) - i) + 1]
  BY <1>1, ReverseOf
<1> HIDE DEF p, q
<1>4. ASSUME NEW i \in 1..Len(e)
      PROVE  p[i] = q[i]
  <2> DEFINE j == (Len(z) - i) + 1
             k == (Len(e) - i) + 1
  <2>1. i \in 1..Len(z) /\ j \in 1..(Len(b) + Len(e)) /\ ~(j <= Len(b)) /\ j - Len(b) = k
    BY <1>1
  <2>2. q[i] = z[j] /\ p[i] = e[k]
    BY <1>2, <1>3, <2>1
  <2> HIDE DEF j, k
  <2>3. z[j] = e[k]
    BY <1>1, <2>1
  <2> QED
    BY <2>2, <2>3
<1>5. Len(p) \in Nat /\ Len(q) \in Nat /\ Len(p) <= Len(q)
  BY <1>1, <1>2, <1>3
<1>6. SubSeq(p, 1, Len(p)) = SubSeq(q, 1, Len(p))
  BY <1>2, <1>3, <1>4, <1>5
<1> QED
  BY <1>5, <1>6 DEF IsSuffix, IsPrefix, p, q, z

LEMMA PrefixOf ==
    ASSUME NEW G, NEW t \in Seq(G), NEW n \in Nat
    PROVE  IsPrefix(Kept(t, n), t)
<1> DEFINE k == Kept(t, n)
<1>1. /\ k \in Seq(G) /\ Len(k) \in Nat /\ Len(k) <= Len(t)
      /\ \A i \in 1..Len(k) : i \in 1..Len(t) /\ k[i] = t[i]
  BY KeptOf
<1> HIDE DEF k
<1>2. SubSeq(k, 1, Len(k)) = SubSeq(t, 1, Len(k))
  BY <1>1
<1> QED
  BY <1>1, <1>2 DEF IsPrefix, k

(* What is left of a line without its ending.                              *)
LEMMA CutOf ==
    ASSUME NEW G, NEW b \in Seq(G), NEW e \in Seq(G)
    PROVE  SubSeq(b \o e, 1, Len(b \o e) - Len(e)) = b
<1> DEFINE z == b \o e
<1>1. /\ z \in Seq(G) /\ Len(z) = Len(b) + Len(e)
      /\ \A i \in 1..Len(b) : z[i] = b[i]
  OBVIOUS
<1> HIDE DEF z
<1>2. Len(z) - Len(e) = Len(b) /\ Len(b) <= Len(z) /\ Len(b) \in Nat
  BY <1>1
<1>3. SubSeq(z, 1, Len(b)) = b
  BY <1>1, <1>2
<1> QED
  BY <1>2, <1>3 DEF z

NoNul(G) == Nul \notin G

LEMMA NulFree ==
    ASSUME NEW G, NoNul(G), NEW t \in Seq(G)
    PROVE  Nul \notin Range(t)
<1>1. \A i \in DOMAIN t : t[i] \in G
  OBVIOUS
<1> QED
  BY <1>1, Zenon DEF Range, NoNul

(* A line of any texts is well formed (elog.c:419-534).                    *)
LEMMA LineGood ==
    ASSUME NEW G, Printable(G), NoNul(G), NEW c, IsCall(c, G), NEW filter, NEW line,
           line = L!elog_output(filter, c), line # L!Dropped
    PROVE  /\ Len(line) <= LineBuf
           /\ Nul \notin Range(line)
           /\ IsSuffix(Ending(c), line)
           /\ IsPrefix(Cut(line, c), Whole(c))
           /\ Len(Whole(c)) + Len(CsiEnd) + Len(L!Newline) <= LineBuf => Cut(line, c) = Whole(c)
<1> DEFINE b == L!Body(c)
           e == Ending(c)
           w == Whole(c)
<1>1. line = b \o e /\ e \in Seq(G) /\ Len(e) \in {1, 3} /\ b \in Seq(G) /\ Len(b) \in 0..BodyMax
  BY LineIs
<1>2. w \in Seq(G) /\ b = Kept(w, BodyMax)
  BY BodyIs
<1>3. Cut(line, c) = b
  BY <1>1, CutOf DEF Cut
<1>4. IsSuffix(e, line)
  BY <1>1, SuffixOf
<1>5. IsPrefix(b, w)
  BY <1>2, Lengths, PrefixOf
<1>6. Nul \notin Range(line)
  <2>1. line \in Seq(G)
    BY <1>1
  <2> QED
    BY <2>1, NulFree
<1> HIDE DEF b, e, w
<1>7. Len(line) <= LineBuf
  <2>1. \A n \in {1, 3} : n \in Nat /\ n <= 3
    OBVIOUS
  <2>2. Len(e) \in Nat /\ Len(e) <= 3
    BY <1>1, <2>1, Zenon
  <2>3. Len(b) \in Nat /\ Len(b) <= BodyMax
    BY <1>1, Lengths
  <2>4. Len(line) = Len(b) + Len(e)
    BY <1>1, ConcatOf
  <2> QED
    BY <2>2, <2>3, <2>4, Lengths
<1>8. Len(w) + Len(CsiEnd) + Len(L!Newline) <= LineBuf => b = w
  <2>1. Len(w) + Len(CsiEnd) + Len(L!Newline) <= LineBuf => Len(w) <= BodyMax
    BY <1>2, Lengths
  <2> QED
    BY <1>2, <2>1, Lengths, KeptOf
<1> QED
  BY <1>3, <1>4, <1>5, <1>6, <1>7, <1>8 DEF b, e, w

(* A raw line that fits is written as it is (elog.c:331-371).              *)
LEMMA RawGood ==
    ASSUME NEW G, NEW text \in Seq(G), Len(text) < LineBuf
    PROVE  L!elog_raw(text) = text
<1> DEFINE U == G \union {Nul}
           p == L!Printed(<<>>, text)
           n == Len(text)
<1>1. LineBuf \in Nat /\ n \in Nat /\ <<>> \in Seq(U) /\ text \in Seq(U) /\ HasNul(U) /\ Len(<<>>) = 0
  BY Lengths DEF HasNul
<1>2. Len(<<>>) < LineBuf
  BY <1>1
<1>3. /\ p \in Seq(U) /\ Len(p) = L!AtMost(Len(<<>>) + n, LineBuf - 1) + 1
      /\ \A i \in 1..(Len(p) - 1) : p[i] = (<<>> \o text)[i]
  BY <1>1, <1>2, PrintedIs, Zenon
<1>4. <<>> \o text = text
  OBVIOUS
<1>5. L!elog_raw(text) = SubSeq(p, 1, L!AtMost(Len(<<>>) + n, LineBuf))
  BY DEF L!elog_raw, L!LogLen
<1> HIDE DEF p, n, U
<1>6. L!AtMost(Len(<<>>) + n, LineBuf - 1) = n /\ L!AtMost(Len(<<>>) + n, LineBuf) = n
  BY <1>1 DEF L!AtMost, n
<1>7. Len(p) = n + 1 /\ \A i \in 1..n : p[i] = text[i]
  BY <1>1, <1>3, <1>4, <1>6
<1>8. /\ SubSeq(p, 1, n) \in Seq(U) /\ Len(SubSeq(p, 1, n)) = n
      /\ \A i \in 1..n : SubSeq(p, 1, n)[i] = p[i]
  BY <1>1, <1>3, <1>7
<1>9. SubSeq(p, 1, n) = text
  BY <1>1, <1>7, <1>8, SeqEqual DEF n
<1> QED
  BY <1>5, <1>6, <1>9

-----------------------------------------------------------------------------
(* What is used of concatenation, in forms the provers match at once.      *)
Assoc(s, t, u) == (s \o t) \o u = s \o (t \o u)

Joined(T, s, t, n, m) ==
    /\ s \o t \in Seq(T) /\ Len(s \o t) = n + m
    /\ \A i \in 1..n : (s \o t)[i] = s[i]
    /\ \A i \in 1..m : (s \o t)[n + i] = t[i]

LEMMA AssocOf ==
    ASSUME NEW T, NEW s \in Seq(T), NEW t \in Seq(T), NEW u \in Seq(T)
    PROVE  Assoc(s, t, u)
  BY ConcatAssociative DEF Assoc

LEMMA JoinedOf ==
    ASSUME NEW T, NEW s \in Seq(T), NEW t \in Seq(T), NEW n \in Nat, n = Len(s),
           NEW m \in Nat, m = Len(t)
    PROVE  Joined(T, s, t, n, m)
<1>1. \A i \in 1..n : i \in 1..(n + m) /\ i <= n
  OBVIOUS
<1>2. \A i \in 1..m : n + i \in 1..(n + m) /\ ~(n + i <= n) /\ (n + i) - n = i
  OBVIOUS
<1>3. /\ s \o t \in Seq(T) /\ Len(s \o t) = n + m
      /\ \A i \in 1..(n + m) : (s \o t)[i] = IF i <= n THEN s[i] ELSE t[i - n]
  BY ConcatOf
<1> QED
  BY <1>1, <1>2, <1>3 DEF Joined

Begins(T, s, t) == \E y \in Seq(T) : t = s \o y

(* The first pieces are the beginning of all of them.                      *)
LEMMA RunBegins ==
    ASSUME NEW T, NEW n \in Nat, NEW k \in 0..n, NEW ps, \A i \in 1..n : ps[i] \in Seq(T),
           NEW r \in [0..n -> Seq(T)], \A i \in 1..n : r[i] = r[i - 1] \o ps[i]
    PROVE  Begins(T, r[k], r[n])
<1> DEFINE More(i) == \E y \in Seq(T) : r[i] = r[k] \o y
           K == {i \in 0..n : i >= k => More(i)}
<1>1. r[k] \in Seq(T) /\ More(k)
  <2>1. r[k] \in Seq(T) /\ <<>> \in Seq(T) /\ r[k] \o <<>> = r[k]
    OBVIOUS
  <2> QED
    BY <2>1
<1>2. ASSUME NEW i \in 1..n, More(i - 1)
      PROVE  More(i)
  <2>1. PICK y \in Seq(T) : r[i - 1] = r[k] \o y
    BY <1>2
  <2>2. ps[i] \in Seq(T) /\ r[i] = (r[k] \o y) \o ps[i]
    BY <2>1
  <2>3. (r[k] \o y) \o ps[i] = r[k] \o (y \o ps[i])
    <3>1. r[k] \in Seq(T) /\ ps[i] \in Seq(T)
      BY <1>1, <2>2, Zenon
    <3> HIDE DEF More
    <3>2. Assoc(r[k], y, ps[i])
      BY <3>1, AssocOf, Zenon
    <3> QED
      BY <3>2 DEF Assoc
  <2>4. y \o ps[i] \in Seq(T)
    BY <2>2
  <2> QED
    BY <2>2, <2>3, <2>4
<1> HIDE DEF More
<1>3. 0 \in K
  <2>1. 0 >= k => k = 0
    OBVIOUS
  <2>2. 0 >= k => More(0)
    BY <1>1, <2>1
  <2> QED
    BY <2>2
<1>4. ASSUME NEW i \in 1..n, i - 1 \in K
      PROVE  i \in K
  <2>1. CASE i - 1 >= k
    BY <1>2, <1>4, <2>1
  <2>2. CASE ~(i - 1 >= k)
    <3>1. i >= k => i = k
      BY <2>2
    <3> QED
      BY <1>1, <3>1
  <2> QED
    BY <2>1, <2>2
<1>5. \A i \in 0..n : i \in K
  <2> HIDE DEF K
  <2> QED
    BY <1>3, <1>4, UpTo
<1>6. More(n)
  BY <1>5
<1> QED
  BY <1>6 DEF More, Begins

LEMMA FlattenBegins ==
    ASSUME NEW T, NEW ps \in Seq(Seq(T)), NEW n \in Nat, n = Len(ps), n >= 6
    PROVE  \E y \in Seq(T) :
              FlattenSeq(ps) = (((((ps[1] \o ps[2]) \o ps[3]) \o ps[4]) \o ps[5]) \o ps[6]) \o y
<1>1. \A i \in 1..n : ps[i] \in Seq(T)
  OBVIOUS
<1>2. PICK r \in [0..n -> Seq(T)] :
         /\ r[0] = <<>> /\ \A i \in 1..n : r[i] = r[i - 1] \o ps[i]
         /\ r[n] = FlattenSeq(ps)
  <2>1. Len(ps) > 0
    OBVIOUS
  <2> QED
    BY <2>1, FlattenRun
<1>3. Begins(T, r[6], r[n])
  <2>1. 6 \in 0..n
    OBVIOUS
  <2> QED
    BY <1>1, <1>2, <2>1, RunBegins, Zenon
<1>4. r[6] = ((((ps[1] \o ps[2]) \o ps[3]) \o ps[4]) \o ps[5]) \o ps[6]
  <2>1. 1 \in 1..n /\ 2 \in 1..n /\ 3 \in 1..n /\ 4 \in 1..n /\ 5 \in 1..n /\ 6 \in 1..n
    OBVIOUS
  <2>2. 1 - 1 = 0 /\ 2 - 1 = 1 /\ 3 - 1 = 2 /\ 4 - 1 = 3 /\ 5 - 1 = 4 /\ 6 - 1 = 5
    OBVIOUS
  <2>3. r[1] = <<>> \o ps[1]
    BY <1>2, <2>1, <2>2, Zenon
  <2>4. <<>> \o ps[1] = ps[1]
    BY <1>1, <2>1
  <2>5. r[2] = r[1] \o ps[2] /\ r[3] = r[2] \o ps[3]
    BY <1>2, <2>1, <2>2, Zenon
  <2>6. r[4] = r[3] \o ps[4] /\ r[5] = r[4] \o ps[5] /\ r[6] = r[5] \o ps[6]
    BY <1>2, <2>1, <2>2, Zenon
  <2> QED
    BY <2>3, <2>4, <2>5, <2>6, Zenon
<1> QED
  BY <1>2, <1>3, <1>4, Zenon DEF Begins

Lead(c) == (CsiStart \o Colour[c.level]) \o LevelInfo[c.level]

LEMMA LeadOf ==
    ASSUME NEW G, Printable(G), NEW c, IsCall(c, G)
    PROVE  /\ Lead(c) \in Seq(G) /\ Len(Lead(c)) = 6
           /\ Len(CsiStart) = 2 /\ Len(Colour[c.level]) = 2 /\ Len(LevelInfo[c.level]) = 2
           /\ Lead(c)[3] = Colour[c.level][1] /\ Lead(c)[4] = Colour[c.level][2]
<1>1. CsiStart \in Seq(G) /\ Colour[c.level] \in Seq(G) /\ LevelInfo[c.level] \in Seq(G)
  BY FixedTexts, CallTexts
<1>2. Len(CsiStart) = 2
  BY DEF CsiStart
<1>3. c.level \in Levels
  BY CallTexts
<1>4. Len(Colour[c.level]) = 2 /\ Len(LevelInfo[c.level]) = 2
  <2>1. \/ Colour[c.level] = <<"3", "1">>
        \/ Colour[c.level] = <<"3", "2">>
    BY <1>3 DEF Colour
  <2>2. \/ LevelInfo[c.level] = <<"A", "/">>
        \/ LevelInfo[c.level] = <<"E", "/">>
    BY <1>3 DEF LevelInfo
  <2> QED
    BY <2>1, <2>2
<1> DEFINE k == Colour[c.level]
           j == LevelInfo[c.level]
<1> HIDE DEF k, j
<1>5. /\ CsiStart \o k \in Seq(G) /\ Len(CsiStart \o k) = 4
      /\ (CsiStart \o k)[3] = k[1] /\ (CsiStart \o k)[4] = k[2]
  <2>1. k \in Seq(G) /\ Len(k) = 2
    BY <1>1, <1>4 DEF k
  <2>2. 2 \in Nat /\ 2 + 2 = 4 /\ 2 + 1 = 3 /\ 1 \in 1..2 /\ 2 \in 1..2
    OBVIOUS
  <2>3. Joined(G, CsiStart, k, 2, 2)
    BY <1>1, <1>2, <2>1, <2>2, JoinedOf, Zenon
  <2> QED
    BY <2>2, <2>3, Zenon DEF Joined
<1> DEFINE x == CsiStart \o k
<1> HIDE DEF x
<1>6. x \o j \in Seq(G) /\ Len(x \o j) = 6 /\ (x \o j)[3] = x[3] /\ (x \o j)[4] = x[4]
  <2>1. j \in Seq(G) /\ Len(j) = 2 /\ x \in Seq(G) /\ Len(x) = 4
    BY <1>1, <1>4, <1>5, Zenon DEF j, x
  <2>2. 2 \in Nat /\ 4 \in Nat /\ 4 + 2 = 6 /\ 3 \in 1..4 /\ 4 \in 1..4
    OBVIOUS
  <2>3. Joined(G, x, j, 4, 2)
    BY <2>1, <2>2, JoinedOf, Zenon
  <2> QED
    BY <2>2, <2>3, Zenon DEF Joined
<1> QED
  BY <1>2, <1>4, <1>5, <1>6 DEF Lead, k, j, x

(* A coloured line that shows level and tag begins with them, and a blank  *)
(* follows.                                                                *)
LEMMA WholeBegins ==
    ASSUME NEW G, Printable(G), NEW c, IsCall(c, G), c.colour, {"LVL", "TAG"} \subseteq c.formats
    PROVE  \E z \in Seq(G) : /\ Len(z) > 0 /\ z[1] = L!Blank
                             /\ Whole(c) = (Lead(c) \o c.tag) \o z
<1> DEFINE ps == L!Pieces(c)
           first == <<CsiStart, Colour[c.level], LevelInfo[c.level]>>
           info == <<c.tag, L!Filling(c.tag), <<L!Blank>>>>
           b == L!Opt(c.formats \cap {"TIME", "P_INFO", "T_INFO"} # {}, L!OriginInfo(c))
           d == L!Opt(c.formats \cap {"DIR", "FUNC", "LINE"} # {}, L!PlaceInfo(c))
<1>1. ps \in Seq(Seq(G))
  BY PiecesOf
<1>2. c.tag \in Seq(G) /\ c.message \in Seq(G) /\ L!Filling(c.tag) \in Seq(G) /\ <<L!Blank>> \in Seq(G)
  BY CallTexts, FillingOf, FixedTexts
<1>3. ps = ((first \o info) \o b) \o d
  <2>1. "LVL" \in c.formats /\ "TAG" \in c.formats
    OBVIOUS
  <2>2. /\ L!Opt(c.colour, CsiStart) = CsiStart /\ L!Opt(c.colour, Colour[c.level]) = Colour[c.level]
        /\ L!Opt("LVL" \in c.formats, LevelInfo[c.level]) = LevelInfo[c.level]
        /\ L!Opt("TAG" \in c.formats, L!TagInfo(c.tag)) = info
    BY <2>1, Zenon DEF L!Opt, L!TagInfo
  <2> QED
    BY <2>2, Zenon DEF L!Pieces
<1>4. /\ first \in Seq(Seq(G)) /\ Len(first) = 3 /\ info \in Seq(Seq(G)) /\ Len(info) = 3
      /\ first[1] = CsiStart /\ first[2] = Colour[c.level] /\ first[3] = LevelInfo[c.level]
      /\ info[1] = c.tag /\ info[2] = L!Filling(c.tag) /\ info[3] = <<L!Blank>>
  <2>1. CsiStart \in Seq(G) /\ Colour[c.level] \in Seq(G) /\ LevelInfo[c.level] \in Seq(G)
    BY FixedTexts, CallTexts
  <2> QED
    BY <1>2, <2>1
<1>5. b \in Seq(Seq(G)) /\ d \in Seq(Seq(G))
  BY InfosOf, OptOf
<1> HIDE DEF ps, first, info, b, d
<1> DEFINE x == first \o info
<1>6. /\ x \in Seq(Seq(G)) /\ Len(x) = 6
      /\ x[1] = first[1] /\ x[2] = first[2] /\ x[3] = first[3]
      /\ x[4] = info[1] /\ x[5] = info[2] /\ x[6] = info[3]
  <2>1. /\ 3 \in Nat /\ 3 + 3 = 6 /\ 3 + 1 = 4 /\ 3 + 2 = 5
        /\ 1 \in 1..3 /\ 2 \in 1..3 /\ 3 \in 1..3
    OBVIOUS
  <2>2. Joined(Seq(G), first, info, 3, 3)
    BY <1>4, <2>1, JoinedOf, Zenon
  <2> QED
    BY <2>1, <2>2, Zenon DEF Joined
<1> HIDE DEF x
<1> DEFINE y == x \o b
<1>7. PICK m \in Nat : m = Len(b)
  BY <1>5
<1>8. y \in Seq(Seq(G)) /\ Len(y) = 6 + m /\ \A i \in 1..6 : y[i] = x[i]
  <2>1. 6 \in Nat
    OBVIOUS
  <2> QED
    <3>1. Joined(Seq(G), x, b, 6, m)
      BY <1>5, <1>6, <1>7, <2>1, JoinedOf, Zenon
    <3> QED
      BY <3>1, Zenon DEF Joined
<1> HIDE DEF y
<1>9. PICK k \in Nat : k = Len(d)
  BY <1>5
<1>10. /\ ps \in Seq(Seq(G)) /\ Len(ps) = (6 + m) + k
       /\ \A i \in 1..6 : ps[i] = x[i]
  <2>1. ps = y \o d
    BY <1>3 DEF x, y
  <2>2. 6 + m \in Nat /\ \A i \in 1..6 : i \in 1..(6 + m)
    OBVIOUS
  <2>3. Joined(Seq(G), y, d, 6 + m, k)
    BY <1>5, <1>8, <1>9, <2>2, JoinedOf, Zenon
  <2> QED
    BY <1>8, <2>1, <2>2, <2>3, Zenon DEF Joined
<1>11. /\ ps[1] = CsiStart /\ ps[2] = Colour[c.level] /\ ps[3] = LevelInfo[c.level]
       /\ ps[4] = c.tag /\ ps[5] = L!Filling(c.tag) /\ ps[6] = <<L!Blank>>
  <2>1. 1 \in 1..6 /\ 2 \in 1..6 /\ 3 \in 1..6 /\ 4 \in 1..6 /\ 5 \in 1..6 /\ 6 \in 1..6
    OBVIOUS
  <2> QED
    BY <1>4, <1>6, <1>10, <2>1, Zenon
<1>12. PICK more \in Seq(G) :
          FlattenSeq(ps) = (((Lead(c) \o c.tag) \o L!Filling(c.tag)) \o <<L!Blank>>) \o more
  <2>1. \E more \in Seq(G) :
           FlattenSeq(ps) = (((((ps[1] \o ps[2]) \o ps[3]) \o ps[4]) \o ps[5]) \o ps[6]) \o more
    <3>1. (6 + m) + k \in Nat /\ (6 + m) + k >= 6
      OBVIOUS
    <3> QED
      BY <1>10, <3>1, FlattenBegins, Zenon
  <2> QED
    BY <1>11, <2>1 DEF Lead
<1> DEFINE l == Lead(c) \o c.tag
           f == L!Filling(c.tag)
           blank == <<L!Blank>>
           z == f \o (blank \o (more \o c.message))
<1>13. l \in Seq(G)
  BY <1>2, LeadOf, ConcatOf
<1>14. f \in Seq(G) /\ blank \in Seq(G) /\ c.message \in Seq(G)
  BY <1>2
<1>22. Len(blank) = 1 /\ blank[1] = L!Blank
  OBVIOUS
<1>15. Whole(c) = (((l \o f) \o blank) \o more) \o c.message
  BY <1>12 DEF Whole, ps
<1>16. \A i \in 1..Len(f) : f[i] = L!Blank
  BY <1>2, FillingOf
<1> HIDE DEF l, f, blank
<1>17. blank \o (more \o c.message) \in Seq(G)
  BY <1>14
<1>18. z \in Seq(G)
  BY <1>14, <1>17
<1>19. (((l \o f) \o blank) \o more) \o c.message = l \o z
  <2>1. l \o f \in Seq(G) /\ (l \o f) \o blank \in Seq(G) /\ more \o c.message \in Seq(G)
    BY <1>13, <1>14
  <2>2. (((l \o f) \o blank) \o more) \o c.message = ((l \o f) \o blank) \o (more \o c.message)
    <3>1. Assoc((l \o f) \o blank, more, c.message)
      BY <1>14, <1>12, <2>1, AssocOf, Zenon
    <3> QED
      BY <3>1, Zenon DEF Assoc
  <2>3. ((l \o f) \o blank) \o (more \o c.message) = (l \o f) \o (blank \o (more \o c.message))
    <3>1. Assoc(l \o f, blank, more \o c.message)
      BY <1>14, <2>1, AssocOf, Zenon
    <3> QED
      BY <3>1, Zenon DEF Assoc
  <2>4. (l \o f) \o (blank \o (more \o c.message)) = l \o z
    <3>1. Assoc(l, f, blank \o (more \o c.message))
      BY <1>13, <1>14, <1>17, AssocOf, Zenon
    <3> QED
      BY <3>1, Zenon DEF Assoc
  <2> QED
    BY <2>2, <2>3, <2>4
<1> DEFINE v == blank \o (more \o c.message)
<1>20. v \in Seq(G) /\ Len(v) > 0 /\ v[1] = L!Blank
  <2>1. more \o c.message \in Seq(G)
    BY <1>14
  <2>2. PICK n \in Nat : n = Len(more \o c.message)
    BY <2>1
  <2>3. 1 \in Nat /\ 1 \in 1..1 /\ 1 + n > 0
    OBVIOUS
  <2>4. Joined(G, blank, more \o c.message, 1, n)
    BY <1>14, <1>22, <2>1, <2>2, <2>3, JoinedOf, Zenon
  <2> QED
    BY <1>22, <2>3, <2>4, Zenon DEF Joined
<1>21. Len(f \o v) > 0 /\ (f \o v)[1] = L!Blank
  <2> HIDE DEF v
  <2>1. CASE Len(f) = 0
    <3>1. f = <<>>
      BY <1>14, <2>1
    <3>2. f \o v = v
      BY <1>20, <3>1
    <3> QED
      BY <1>20, <3>2
  <2>2. CASE Len(f) # 0
    <3>1. Len(f) \in Nat /\ 1 \in 1..Len(f)
      BY <1>14, <2>2
    <3>2. (f \o v)[1] = f[1] /\ Len(f \o v) > 0
      BY <1>14, <1>20, <3>1
    <3> QED
      BY <1>16, <3>1, <3>2
  <2> QED
    BY <2>1, <2>2
<1> QED
  BY <1>15, <1>18, <1>19, <1>21 DEF l

LEMMA TwoEach ==
    /\ Len(CsiStart) = 2
    /\ \A l \in Levels : Len(Colour[l]) = 2 /\ Len(LevelInfo[l]) = 2
<1>1. \A x, y : Len(<<x, y>>) = 2
  OBVIOUS
<1>2. CsiStart = <<"^", "[">>
  BY Zenon DEF CsiStart
<1>3. \A l \in Levels : \/ Colour[l] = <<"3", "1">>
                        \/ Colour[l] = <<"3", "2">>
  BY DEF Colour
<1>4. \A l \in Levels : \/ LevelInfo[l] = <<"A", "/">>
                        \/ LevelInfo[l] = <<"E", "/">>
  BY DEF LevelInfo
<1> QED
  BY <1>1, <1>2, <1>3, <1>4, Zenon

(* elog.c:601-632: the colour that follows the start of a line tells the   *)
(* level.                                                                  *)
LEMMA LevelRead ==
    ASSUME NEW G, NEW log \in Seq(G), Len(log) >= 4, NEW level \in Levels,
           log[3] = Colour[level][1], log[4] = Colour[level][2]
    PROVE  L!elog_find_lvl(log) = level
<1>2. /\ Levels = {0, 1}
      /\ Colour[0] = <<"3", "1">> /\ Colour[1] = <<"3", "2">>
  BY DEF Levels, Colour
<1>3. \A i \in Levels : Len(CsiStart) + 1 = 3 /\ Len(CsiStart) + Len(Colour[i]) = 4
  <2>1. 2 + 1 = 3 /\ 2 + 2 = 4
    OBVIOUS
  <2> QED
    BY <2>1, TwoEach, Zenon
<1>4. SubSeq(log, 3, 4) = <<log[3], log[4]>>
  <2> DEFINE m == SubSeq(log, 3, 4)
  <2>1. m \in Seq(G) /\ Len(m) = 2 /\ m[1] = log[3] /\ m[2] = log[4]
    OBVIOUS
  <2> HIDE DEF m
  <2>2. \A x, y : m \in Seq(G) /\ Len(m) = 2 /\ m[1] = x /\ m[2] = y => m = <<x, y>>
    OBVIOUS
  <2>3. m = <<log[3], log[4]>>
    BY <2>1, <2>2
  <2> QED
    BY <2>3 DEF m
<1>5. SubSeq(log, 3, 4) = Colour[level]
  BY <1>2, <1>4
<1>6. \A i \in Levels : Colour[i] = Colour[level] => i = level
  <2>1. Colour[0][2] # Colour[1][2]
    BY <1>2
  <2> QED
    BY <1>2, <2>1
<1> DEFINE Is(i) == SubSeq(log, Len(CsiStart) + 1, Len(CsiStart) + Len(Colour[i])) = Colour[i]
<1>7. \A i \in Levels : Is(i) <=> i = level
  BY <1>3, <1>5, <1>6
<1>8. L!elog_find_lvl(log) =
         IF \E i \in Levels : Is(i)
         THEN CHOOSE i \in Levels : Is(i) /\ \A j \in Levels : j < i => ~Is(j)
         ELSE -1
  BY Zenon DEF L!elog_find_lvl
<1> HIDE DEF Is
<1>9. \A i \in Levels : (Is(i) /\ \A j \in Levels : j < i => ~Is(j)) <=> i = level
  BY <1>7 DEF Levels
<1> QED
  BY <1>7, <1>8, <1>9

(* elog.c:645-667: a tag with no blank in it and one behind it is found.   *)
LEMMA TagRead ==
    ASSUME NEW G, NEW log \in Seq(G), NEW level \in Levels, NEW tag \in Seq(G),
           NEW n \in Nat, n = Len(tag), n < TagMax, Len(log) > 6 + n,
           \A i \in 1..n : log[6 + i] = tag[i] /\ tag[i] # L!Blank,
           log[(6 + n) + 1] = L!Blank
    PROVE  L!elog_find_tag(log, level) = tag
<1>1. (Len(CsiStart) + Len(Colour[level])) + Len(LevelInfo[level]) = 6
  <2>1. (2 + 2) + 2 = 6
    OBVIOUS
  <2> QED
    BY <2>1, TwoEach, Zenon
<1> DEFINE to == L!AtMost(6 + TagMax, Len(log))
           I == {i \in (6 + 1)..to : log[i] = L!Blank}
           end == (6 + n) + 1
<1>2. L!elog_find_tag(log, level) =
         LET e == IF I # {} THEN L!Min(I) ELSE 0
         IN  IF e = 0 THEN L!Dropped ELSE SubSeq(log, 6 + 1, e - 1)
  BY <1>1, Zenon DEF L!elog_find_tag, L!SelectInSubSeq
<1>3. TagMax \in Nat /\ Len(log) \in Nat
  BY DEF TagMax
<1>4. end \in (6 + 1)..to
  BY <1>3 DEF L!AtMost
<1>5. \A i \in (6 + 1)..to : log[i] = L!Blank => end <= i
  <2> SUFFICES ASSUME NEW i \in (6 + 1)..to, log[i] = L!Blank, ~(end <= i) PROVE FALSE
    BY <1>3 DEF L!AtMost
  <2>1. to \in Int
    BY <1>3 DEF L!AtMost
  <2>2. i - 6 \in 1..n /\ 6 + (i - 6) = i
    BY <2>1
  <2> QED
    BY <2>2, Zenon
<1> HIDE DEF to
<1>6. end \in I /\ \A i \in I : end <= i
  BY <1>4, <1>5
<1>7. I \subseteq Int
  BY DEF I
<1>8. L!Min(I) = end
  <2>1. \A i \in I : (\A k \in I : i <= k) => i = end
    BY <1>6, <1>7
  <2> HIDE DEF I, end
  <2> QED
    BY <1>6, <2>1 DEF L!Min
<1>9. L!elog_find_tag(log, level) = SubSeq(log, 7, 6 + n)
  <2>1. I # {} /\ end # 0 /\ end - 1 = 6 + n /\ 6 + 1 = 7
    BY <1>6
  <2> HIDE DEF I, end
  <2> QED
    BY <1>2, <1>8, <2>1
<1> QED
  BY <1>9

NoBlank(t) == \A i \in 1..Len(t) : t[i] # L!Blank

(* A coloured line with level and tag gives both back, unless the line     *)
(* had no room for the blank behind the tag.                               *)
LEMMA ReadBack ==
    ASSUME NEW G, Printable(G), NEW c, IsCall(c, G), NoBlank(c.tag), NEW filter, NEW line,
           line = L!elog_output(filter, c), line # L!Dropped,
           c.colour, {"LVL", "TAG"} \subseteq c.formats, Len(c.tag) < TagMax
    PROVE  /\ L!elog_find_lvl(line) = c.level
           /\ 6 + Len(c.tag) + 1 <= BodyMax => L!elog_find_tag(line, c.level) = c.tag
<1> DEFINE w == Whole(c)
           b == L!Body(c)
           e == Ending(c)
           a == Lead(c)
<1>1. w \in Seq(G) /\ b = Kept(w, BodyMax) /\ BodyMax \in Nat /\ BodyMax >= 6
  <2>1. BodyMax >= 6
    BY Lengths DEF LineBuf
  <2> QED
    BY <2>1, BodyIs, Lengths
<1>2. line = b \o e /\ e \in Seq(G) /\ b \in Seq(G)
  BY LineIs, Zenon
<1>3. /\ a \in Seq(G) /\ Len(a) = 6
      /\ a[3] = Colour[c.level][1] /\ a[4] = Colour[c.level][2]
  BY LeadOf, Zenon
<1>4. c.level \in Levels /\ c.tag \in Seq(G)
  BY CallTexts, Zenon
<1>5. PICK z \in Seq(G) : Len(z) > 0 /\ z[1] = L!Blank /\ w = (a \o c.tag) \o z
  BY WholeBegins, Zenon
<1>6. PICK n \in Nat : n = Len(c.tag)
  BY <1>4
<1>7. PICK m \in Nat : m = Len(z) /\ m > 0
  BY <1>5
<1>8. PICK j \in Nat : j = Len(e)
  BY <1>2
<1>9. PICK k \in Nat : k = Len(b)
  BY <1>2
<1> DEFINE p == a \o c.tag
<1> HIDE DEF w, b, e, a
<1>10. /\ p \in Seq(G) /\ Len(p) = 6 + n
       /\ \A i \in 1..6 : p[i] = a[i]
       /\ \A i \in 1..n : p[6 + i] = c.tag[i]
  <2>1. 6 \in Nat
    OBVIOUS
  <2>2. Joined(G, a, c.tag, 6, n)
    BY <1>3, <1>4, <1>6, <2>1, JoinedOf, Zenon
  <2> QED
    BY <2>2, Zenon DEF Joined
<1> HIDE DEF p
<1>11. /\ Len(w) = (6 + n) + m
       /\ \A i \in 1..(6 + n) : w[i] = p[i]
       /\ w[(6 + n) + 1] = L!Blank
  <2>1. 6 + n \in Nat /\ 1 \in 1..m
    BY <1>7
  <2>2. Joined(G, p, z, 6 + n, m)
    BY <1>5, <1>7, <1>10, <2>1, JoinedOf, Zenon
  <2>3. w = p \o z
    BY <1>5, Zenon DEF p
  <2> QED
    BY <1>5, <2>1, <2>2, <2>3, Zenon DEF Joined
<1>12. /\ k = L!AtMost(Len(w), BodyMax)
       /\ \A i \in 1..k : b[i] = w[i]
  BY <1>1, <1>9, KeptOf
<1>13. /\ line \in Seq(G) /\ Len(line) = k + j
       /\ \A i \in 1..k : line[i] = b[i]
  <2>1. Joined(G, b, e, k, j)
    BY <1>2, <1>8, <1>9, JoinedOf, Zenon
  <2> QED
    BY <1>2, <2>1, Zenon DEF Joined
<1>14. k >= 6 /\ (6 + n + 1 <= BodyMax => (6 + n) + 1 <= k)
  BY <1>1, <1>7, <1>11, <1>12 DEF L!AtMost
<1>15. L!elog_find_lvl(line) = c.level
  <2>1. 3 \in 1..k /\ 4 \in 1..k /\ 3 \in 1..6 /\ 4 \in 1..6
        /\ 3 \in 1..(6 + n) /\ 4 \in 1..(6 + n) /\ k + j >= 4
    BY <1>14
  <2>2. line[3] = a[3] /\ line[4] = a[4]
    <3>1. line[3] = w[3] /\ line[4] = w[4]
      BY <1>12, <1>13, <2>1, Zenon
    <3>2. w[3] = p[3] /\ w[4] = p[4]
      BY <1>11, <2>1, Zenon
    <3>3. p[3] = a[3] /\ p[4] = a[4]
      BY <1>10, <2>1, Zenon
    <3> QED
      BY <3>1, <3>2, <3>3, Zenon
  <2>3. line[3] = Colour[c.level][1] /\ line[4] = Colour[c.level][2] /\ Len(line) >= 4
    BY <1>3, <1>13, <2>1, <2>2
  <2> QED
    BY <1>4, <1>13, <2>3, LevelRead, Zenon
<1>16. ASSUME 6 + Len(c.tag) + 1 <= BodyMax
       PROVE  L!elog_find_tag(line, c.level) = c.tag
  <2>1. (6 + n) + 1 <= k /\ (6 + n) + 1 \in 1..k /\ k + j > 6 + n
    BY <1>6, <1>14, <1>16
  <2>2. \A i \in 1..n : 6 + i \in 1..k /\ 6 + i \in 1..(6 + n)
    BY <2>1
  <2>3. ASSUME NEW i \in 1..n
        PROVE  line[6 + i] = c.tag[i] /\ c.tag[i] # L!Blank
    <3>1. line[6 + i] = w[6 + i]
      BY <1>12, <1>13, <2>2, Zenon
    <3>2. w[6 + i] = p[6 + i]
      BY <1>11, <2>2, Zenon
    <3>3. p[6 + i] = c.tag[i]
      BY <1>10, Zenon
    <3>4. c.tag[i] # L!Blank
      BY <1>6, Zenon DEF NoBlank
    <3> QED
      BY <3>1, <3>2, <3>3, <3>4, Zenon
  <2>4. line[(6 + n) + 1] = L!Blank
    BY <1>11, <1>12, <1>13, <2>1, Zenon
  <2> QED
    <3>1. Len(line) > 6 + n /\ n < TagMax
      BY <1>6, <1>13, <2>1
    <3>2. \A i \in 1..n : line[6 + i] = c.tag[i] /\ c.tag[i] # L!Blank
      BY <2>3
    <3>3. line \in Seq(G) /\ c.level \in Levels /\ c.tag \in Seq(G) /\ n = Len(c.tag)
      BY <1>4, <1>6, <1>13, Zenon
    <3> HIDE <1>6
    <3> QED
      BY <2>4, <3>1, <3>2, <3>3, TagRead
<1> QED
  BY <1>15, <1>16

-----------------------------------------------------------------------------
(* The handlers a message calls: the tables are searched entry by entry,    *)
(* for each name of a request.                                             *)

(* The numbers up to i, as the folds take them. *)
LEMMA FirstNumbers ==
    ASSUME NEW n \in Nat, NEW i \in 1..n
    PROVE  /\ Max(1..i) = i /\ (1..i) \ {i} = 1..(i - 1)
           /\ 1..i \in SUBSET (1..n) /\ 1..i # {}
<1>1. i \in Nat /\ i > 0 /\ i \in 1..i /\ \A k \in 1..i : k \in 1..n
  OBVIOUS
<1> QED
  BY <1>1, MaxOfPrefix

OnlyOf(f, names, wanted) ==
    f = [s \in SUBSET DOMAIN names |->
            IF s = {} THEN <<>> ELSE IF names[Max(s)] \in wanted
                 THEN Append(f[s \ {Max(s)}], names[Max(s)]) ELSE f[s \ {Max(s)}]]

(* The names of a set are collected one by one. *)
LEMMA OnlyRun ==
    ASSUME NEW T, NEW names \in Seq(T), NEW wanted
    PROVE  \E w \in [0..Len(names) -> Seq(T)] :
              /\ w[0] = <<>>
              /\ \A i \in 1..Len(names) : w[i] = IF names[i] \in wanted THEN Append(w[i - 1], names[i]) ELSE w[i - 1]
              /\ w[Len(names)] = Only(names, wanted)
<1> DEFINE n == Len(names)
           Next1(v, i) == IF names[i] \in wanted THEN Append(v, names[i]) ELSE v
           step == [p \in Seq(T) \X (1..n) |-> Next1(p[1], p[2])]
           chosen == CHOOSE f : OnlyOf(f, names, wanted)
<1>1. n \in Nat /\ DOMAIN names = 1..n /\ \A i \in 1..n : names[i] \in T
  OBVIOUS
<1>2. <<>> \in Seq(T)
  OBVIOUS
<1>3. \A v \in Seq(T), i \in 1..n : step[<<v, i>>] = Next1(v, i)
  OBVIOUS
<1>4. \A v \in Seq(T), i \in 1..n : Next1(v, i) \in Seq(T)
  BY <1>1
<1>5. \A v \in Seq(T), i \in 1..n : step[<<v, i>>] \in Seq(T)
  BY <1>3, <1>4
<1> HIDE DEF n, step
<1>6. PICK f \in [SUBSET (1..n) -> Seq(T)] : Folds(f, n, <<>>, step)
  BY <1>1, <1>2, <1>5, FoldExists, Zenon
<1>7. OnlyOf(f, names, wanted)
  <2>1. ASSUME NEW s \in SUBSET (1..n), s # {}
        PROVE  f[s] = Next1(f[s \ {Max(s)}], Max(s))
    <3>1. Max(s) \in 1..n
      BY <1>1, <2>1, MaxIn
    <3>2. s \ {Max(s)} \in SUBSET (1..n)
      OBVIOUS
    <3>3. f[s] = step[<<f[s \ {Max(s)}], Max(s)>>]
      BY <1>6, <2>1, Zenon DEF Folds
    <3>4. f[s \ {Max(s)}] \in Seq(T)
      BY <1>6, <3>2
    <3> QED
      BY <1>3, <3>1, <3>3, <3>4, Zenon
  <2>2. f[{}] = <<>>
    BY <1>6 DEF Folds
  <2> HIDE DEF Next1
  <2>3. f = [s \in SUBSET (1..n) |-> IF s = {} THEN <<>> ELSE Next1(f[s \ {Max(s)}], Max(s))]
    BY <1>6, <2>1, <2>2
  <2> QED
    BY <1>1, <2>3, Zenon DEF OnlyOf, Next1
<1>8. OnlyOf(chosen, names, wanted)
  BY <1>7, Zenon
<1>9. chosen[1..n] = Only(names, wanted)
  BY <1>1, Zenon DEF Only, FoldLeft, MapThenFoldSet, OnlyOf
<1> HIDE DEF chosen
<1>10. chosen[1..0] = <<>> /\ \A i \in 1..n : chosen[1..i] = Next1(chosen[1..(i - 1)], i)
  <2>1. ASSUME NEW i \in 1..n
        PROVE  chosen[1..i] = Next1(chosen[1..(i - 1)], i)
    <3>1. /\ Max(1..i) = i /\ (1..i) \ {i} = 1..(i - 1)
          /\ 1..i \in SUBSET (1..n) /\ 1..i # {}
      BY <1>1, FirstNumbers
    <3>2. chosen[1..i] = Next1(chosen[(1..i) \ {Max(1..i)}], Max(1..i))
      BY <1>1, <1>8, <3>1, Zenon DEF OnlyOf
    <3> QED
      BY <3>1, <3>2, Zenon
  <2>2. 1..0 = {} /\ {} \in SUBSET DOMAIN names
    OBVIOUS
  <2> QED
    BY <1>8, <2>1, <2>2, Zenon DEF OnlyOf
<1> HIDE DEF Next1
<1>11. \A i \in 0..n : chosen[1..i] \in Seq(T)
  <2> DEFINE K == {i \in 0..n : chosen[1..i] \in Seq(T)}
  <2>1. 0 \in K
    <3>1. chosen[1..0] \in Seq(T)
      BY <1>2, <1>10, Zenon
    <3> QED
      BY <1>1, <3>1
  <2>2. ASSUME NEW i \in 1..n, i - 1 \in K
        PROVE  i \in K
    <3>1. chosen[1..(i - 1)] \in Seq(T)
      BY <2>2
    <3>2. chosen[1..i] \in Seq(T)
      BY <1>4, <1>10, <3>1, Zenon
    <3> QED
      BY <3>2
  <2>3. \A i \in 0..n : i \in K
    <3> HIDE DEF K
    <3> QED
      BY <1>1, <2>1, <2>2, UpTo
  <2> QED
    BY <2>3
<1> DEFINE w == [i \in 0..n |-> chosen[1..i]]
<1>12. w \in [0..n -> Seq(T)]
  BY <1>11
<1>13. /\ w[0] = <<>> /\ w[n] = Only(names, wanted)
       /\ \A i \in 1..n : w[i] = Next1(w[i - 1], i)
  <2>1. \A i \in 1..n : i \in 0..n /\ i - 1 \in 0..n
    BY <1>1
  <2>2. 0 \in 0..n /\ n \in 0..n
    BY <1>1
  <2> QED
    BY <1>9, <1>10, <2>1, <2>2
<1> HIDE DEF w
<1> QED
  BY <1>12, <1>13, Zenon DEF n, Next1

(* What handlers are called, and what they say. *)
Words == {D!StatusNames[i] : i \in 1..19} \union {"nihao", D!Null}

Searches == [called : Seq(Words), reply : Seq(Words), over : BOOLEAN]

(* The state of a search, put together and taken apart. *)
LEMMA SearchOf ==
    ASSUME NEW c \in Seq(Words), NEW y \in Seq(Words), NEW o \in BOOLEAN
    PROVE  /\ D!Search(c, y, o) \in Searches
           /\ D!Search(c, y, o).called = c /\ D!Search(c, y, o).reply = y
           /\ D!Search(c, y, o).over = o
  BY DEF D!Search, Searches

LEMMA SearchParts ==
    ASSUME NEW acc \in Searches
    PROVE  acc.called \in Seq(Words) /\ acc.reply \in Seq(Words) /\ acc.over \in BOOLEAN
  BY DEF Searches

Asks == D!elink_features_get_status

(* The entries of the table of get_status: a handler for each name. *)
LEMMA StatusTable ==
    /\ Asks \in Seq([type : Words, handler : Words]) /\ Len(Asks) = 19 /\ DOMAIN Asks = 1..19
    /\ \A i \in 1..19 : Asks[i] \in [type : Words, handler : Words]
    /\ \A i \in 1..19 : Asks[i].type = D!StatusNames[i] /\ Asks[i].handler = D!StatusNames[i]
<1>1. DOMAIN D!StatusNames = 1..19
  BY DEF D!StatusNames
<1>2. Asks = [i \in 1..19 |-> [type |-> D!StatusNames[i], handler |-> D!StatusNames[i]]]
  BY <1>1, Zenon DEF Asks, D!elink_features_get_status, D!Entry
<1>3. \A i \in 1..19 : D!StatusNames[i] \in Words
  BY DEF Words
<1> QED
  BY <1>2, <1>3

(* No name is in the table twice. *)
LEMMA NamesDiffer ==
    \A i, j \in 1..19 : D!StatusNames[i] = D!StatusNames[j] => i = j
  BY DEF D!StatusNames

(* Another entry, and any entry after the end, changes nothing. *)
LEMMA TriedIs ==
    ASSUME NEW acc \in Searches, NEW name, NEW e \in [type : Words, handler : Words]
    PROVE  /\ D!Tried(acc, name, e) \in Searches
           /\ acc.over \/ e.type # name => D!Tried(acc, name, e) = acc
<1>1. D!Answer(e.handler) \in Words
  BY DEF D!Answer, Words
<1>2. /\ Append(acc.called, e.handler) \in Seq(Words)
      /\ Append(acc.reply, D!Answer(e.handler)) \in Seq(Words)
      /\ acc.reply \in Seq(Words)
  BY <1>1, SearchParts
<1>3. /\ D!Search(Append(acc.called, e.handler), acc.reply, TRUE) \in Searches
      /\ D!Search(Append(acc.called, e.handler), Append(acc.reply, D!Answer(e.handler)), FALSE) \in Searches
  BY <1>2, SearchOf
<1> QED
  BY <1>3, Zenon DEF D!Tried, D!Hit

AskedOf(f, acc, name) ==
    f = [s \in SUBSET DOMAIN Asks |->
            IF s = {} THEN D!Search(acc.called, acc.reply, FALSE) ELSE D!Tried(f[s \ {Max(s)}], name, Asks[Max(s)])]

(* The table is looked through entry by entry. *)
LEMMA AskedRun ==
    ASSUME NEW acc \in Searches, NEW name
    PROVE  \E w \in [0..Len(Asks) -> Searches] :
              /\ w[0] = D!Search(acc.called, acc.reply, FALSE)
              /\ \A i \in 1..Len(Asks) : w[i] = D!Tried(w[i - 1], name, Asks[i])
              /\ w[Len(Asks)] = D!Asked(acc, name)
<1> DEFINE n == Len(Asks)
           Next1(v, i) == D!Tried(v, name, Asks[i])
           step == [p \in Searches \X (1..n) |-> Next1(p[1], p[2])]
           chosen == CHOOSE f : AskedOf(f, acc, name)
<1>1. n \in Nat /\ DOMAIN Asks = 1..n /\ \A i \in 1..n : Asks[i] \in [type : Words, handler : Words]
  <2>1. n = 19
    BY StatusTable
  <2> QED
    BY <2>1, StatusTable
<1>2. D!Search(acc.called, acc.reply, FALSE) \in Searches
  BY SearchParts, SearchOf
<1>3. \A v \in Searches, i \in 1..n : step[<<v, i>>] = Next1(v, i)
  OBVIOUS
<1>4. \A v \in Searches, i \in 1..n : Next1(v, i) \in Searches
  BY <1>1, TriedIs
<1>5. \A v \in Searches, i \in 1..n : step[<<v, i>>] \in Searches
  BY <1>3, <1>4
<1> HIDE DEF n, step
<1>6. PICK f \in [SUBSET (1..n) -> Searches] : Folds(f, n, D!Search(acc.called, acc.reply, FALSE), step)
  BY <1>1, <1>2, <1>5, FoldExists, Zenon
<1>7. AskedOf(f, acc, name)
  <2>1. ASSUME NEW s \in SUBSET (1..n), s # {}
        PROVE  f[s] = Next1(f[s \ {Max(s)}], Max(s))
    <3>1. Max(s) \in 1..n
      BY <1>1, <2>1, MaxIn
    <3>2. s \ {Max(s)} \in SUBSET (1..n)
      OBVIOUS
    <3>3. f[s] = step[<<f[s \ {Max(s)}], Max(s)>>]
      BY <1>6, <2>1, Zenon DEF Folds
    <3>4. f[s \ {Max(s)}] \in Searches
      BY <1>6, <3>2
    <3> QED
      BY <1>3, <3>1, <3>3, <3>4, Zenon
  <2>2. f[{}] = D!Search(acc.called, acc.reply, FALSE)
    BY <1>6 DEF Folds
  <2> HIDE DEF Next1
  <2>3. f = [s \in SUBSET (1..n) |-> IF s = {} THEN D!Search(acc.called, acc.reply, FALSE) ELSE Next1(f[s \ {Max(s)}], Max(s))]
    BY <1>6, <2>1, <2>2
  <2> QED
    BY <1>1, <2>3, Zenon DEF AskedOf, Next1
<1>8. AskedOf(chosen, acc, name)
  BY <1>7, Zenon
<1>9. chosen[1..n] = D!Asked(acc, name)
  BY <1>1, Zenon DEF D!Asked, D!FoldLeft, D!MapThenFoldSet, D!Max, Max, Asks, AskedOf
<1> HIDE DEF chosen
<1>10. chosen[1..0] = D!Search(acc.called, acc.reply, FALSE) /\ \A i \in 1..n : chosen[1..i] = Next1(chosen[1..(i - 1)], i)
  <2>1. ASSUME NEW i \in 1..n
        PROVE  chosen[1..i] = Next1(chosen[1..(i - 1)], i)
    <3>1. /\ Max(1..i) = i /\ (1..i) \ {i} = 1..(i - 1)
          /\ 1..i \in SUBSET (1..n) /\ 1..i # {}
      BY <1>1, FirstNumbers
    <3>2. chosen[1..i] = Next1(chosen[(1..i) \ {Max(1..i)}], Max(1..i))
      BY <1>1, <1>8, <3>1, Zenon DEF AskedOf
    <3> QED
      BY <3>1, <3>2, Zenon
  <2>2. 1..0 = {} /\ {} \in SUBSET DOMAIN Asks
    OBVIOUS
  <2> QED
    BY <1>8, <2>1, <2>2, Zenon DEF AskedOf
<1> HIDE DEF Next1
<1>11. \A i \in 0..n : chosen[1..i] \in Searches
  <2> DEFINE K == {i \in 0..n : chosen[1..i] \in Searches}
  <2>1. 0 \in K
    <3>1. chosen[1..0] \in Searches
      BY <1>2, <1>10, Zenon
    <3> QED
      BY <1>1, <3>1
  <2>2. ASSUME NEW i \in 1..n, i - 1 \in K
        PROVE  i \in K
    <3>1. chosen[1..(i - 1)] \in Searches
      BY <2>2
    <3>2. chosen[1..i] \in Searches
      BY <1>4, <1>10, <3>1, Zenon
    <3> QED
      BY <3>2
  <2>3. \A i \in 0..n : i \in K
    <3> HIDE DEF K
    <3> QED
      BY <1>1, <2>1, <2>2, UpTo
  <2> QED
    BY <2>3
<1> DEFINE w == [i \in 0..n |-> chosen[1..i]]
<1>12. w \in [0..n -> Searches]
  BY <1>11
<1>13. /\ w[0] = D!Search(acc.called, acc.reply, FALSE) /\ w[n] = D!Asked(acc, name)
       /\ \A i \in 1..n : w[i] = Next1(w[i - 1], i)
  <2>1. \A i \in 1..n : i \in 0..n /\ i - 1 \in 0..n
    BY <1>1
  <2>2. 0 \in 0..n /\ n \in 0..n
    BY <1>1
  <2> QED
    BY <1>9, <1>10, <2>1, <2>2
<1> HIDE DEF w
<1> QED
  BY <1>12, <1>13, Zenon DEF n, Next1

LEMMA AskedIn ==
    ASSUME NEW acc \in Searches, NEW name
    PROVE  D!Asked(acc, name) \in Searches
<1>1. PICK w \in [0..Len(Asks) -> Searches] : w[Len(Asks)] = D!Asked(acc, name)
  BY AskedRun
<1>2. Len(Asks) \in 0..Len(Asks)
  BY StatusTable
<1> QED
  BY <1>1, <1>2

NamesOf(f, names) ==
    f = [s \in SUBSET DOMAIN names |->
            IF s = {} THEN D!Search(<<>>, <<>>, FALSE) ELSE D!Asked(f[s \ {Max(s)}], names[Max(s)])]

(* A request is worked off name by name. *)
LEMMA NamesRun ==
    ASSUME NEW T, NEW names \in Seq(T)
    PROVE  \E w \in [0..Len(names) -> Searches] :
              /\ w[0] = D!Search(<<>>, <<>>, FALSE)
              /\ \A i \in 1..Len(names) : w[i] = D!Asked(w[i - 1], names[i])
              /\ w[Len(names)] = D!FoldLeft(D!Asked, D!Search(<<>>, <<>>, FALSE), names)
<1> DEFINE n == Len(names)
           Next1(v, i) == D!Asked(v, names[i])
           step == [p \in Searches \X (1..n) |-> Next1(p[1], p[2])]
           chosen == CHOOSE f : NamesOf(f, names)
<1>1. n \in Nat /\ DOMAIN names = 1..n /\ \A i \in 1..n : names[i] \in T
  OBVIOUS
<1>2. D!Search(<<>>, <<>>, FALSE) \in Searches
  <2>1. <<>> \in Seq(Words)
    OBVIOUS
  <2> QED
    BY <2>1, SearchOf
<1>3. \A v \in Searches, i \in 1..n : step[<<v, i>>] = Next1(v, i)
  OBVIOUS
<1>4. \A v \in Searches, i \in 1..n : Next1(v, i) \in Searches
  BY AskedIn
<1>5. \A v \in Searches, i \in 1..n : step[<<v, i>>] \in Searches
  BY <1>3, <1>4
<1> HIDE DEF n, step
<1>6. PICK f \in [SUBSET (1..n) -> Searches] : Folds(f, n, D!Search(<<>>, <<>>, FALSE), step)
  BY <1>1, <1>2, <1>5, FoldExists, Zenon
<1>7. NamesOf(f, names)
  <2>1. ASSUME NEW s \in SUBSET (1..n), s # {}
        PROVE  f[s] = Next1(f[s \ {Max(s)}], Max(s))
    <3>1. Max(s) \in 1..n
      BY <1>1, <2>1, MaxIn
    <3>2. s \ {Max(s)} \in SUBSET (1..n)
      OBVIOUS
    <3>3. f[s] = step[<<f[s \ {Max(s)}], Max(s)>>]
      BY <1>6, <2>1, Zenon DEF Folds
    <3>4. f[s \ {Max(s)}] \in Searches
      BY <1>6, <3>2
    <3> QED
      BY <1>3, <3>1, <3>3, <3>4, Zenon
  <2>2. f[{}] = D!Search(<<>>, <<>>, FALSE)
    BY <1>6 DEF Folds
  <2> HIDE DEF Next1
  <2>3. f = [s \in SUBSET (1..n) |-> IF s = {} THEN D!Search(<<>>, <<>>, FALSE) ELSE Next1(f[s \ {Max(s)}], Max(s))]
    BY <1>6, <2>1, <2>2
  <2> QED
    BY <1>1, <2>3, Zenon DEF NamesOf, Next1
<1>8. NamesOf(chosen, names)
  BY <1>7, Zenon
<1>9. chosen[1..n] = D!FoldLeft(D!Asked, D!Search(<<>>, <<>>, FALSE), names)
  BY <1>1, Zenon DEF D!FoldLeft, D!MapThenFoldSet, D!Max, Max, NamesOf
<1> HIDE DEF chosen
<1>10. chosen[1..0] = D!Search(<<>>, <<>>, FALSE) /\ \A i \in 1..n : chosen[1..i] = Next1(chosen[1..(i - 1)], i)
  <2>1. ASSUME NEW i \in 1..n
        PROVE  chosen[1..i] = Next1(chosen[1..(i - 1)], i)
    <3>1. /\ Max(1..i) = i /\ (1..i) \ {i} = 1..(i - 1)
          /\ 1..i \in SUBSET (1..n) /\ 1..i # {}
      BY <1>1, FirstNumbers
    <3>2. chosen[1..i] = Next1(chosen[(1..i) \ {Max(1..i)}], Max(1..i))
      BY <1>1, <1>8, <3>1, Zenon DEF NamesOf
    <3> QED
      BY <3>1, <3>2, Zenon
  <2>2. 1..0 = {} /\ {} \in SUBSET DOMAIN names
    OBVIOUS
  <2> QED
    BY <1>8, <2>1, <2>2, Zenon DEF NamesOf
<1> HIDE DEF Next1
<1>11. \A i \in 0..n : chosen[1..i] \in Searches
  <2> DEFINE K == {i \in 0..n : chosen[1..i] \in Searches}
  <2>1. 0 \in K
    <3>1. chosen[1..0] \in Searches
      BY <1>2, <1>10, Zenon
    <3> QED
      BY <1>1, <3>1
  <2>2. ASSUME NEW i \in 1..n, i - 1 \in K
        PROVE  i \in K
    <3>1. chosen[1..(i - 1)] \in Searches
      BY <2>2
    <3>2. chosen[1..i] \in Searches
      BY <1>4, <1>10, <3>1, Zenon
    <3> QED
      BY <3>2
  <2>3. \A i \in 0..n : i \in K
    <3> HIDE DEF K
    <3> QED
      BY <1>1, <2>1, <2>2, UpTo
  <2> QED
    BY <2>3
<1> DEFINE w == [i \in 0..n |-> chosen[1..i]]
<1>12. w \in [0..n -> Searches]
  BY <1>11
<1>13. /\ w[0] = D!Search(<<>>, <<>>, FALSE) /\ w[n] = D!FoldLeft(D!Asked, D!Search(<<>>, <<>>, FALSE), names)
       /\ \A i \in 1..n : w[i] = Next1(w[i - 1], i)
  <2>1. \A i \in 1..n : i \in 0..n /\ i - 1 \in 0..n
    BY <1>1
  <2>2. 0 \in 0..n /\ n \in 0..n
    BY <1>1
  <2> QED
    BY <1>9, <1>10, <2>1, <2>2
<1> HIDE DEF w
<1> QED
  BY <1>12, <1>13, Zenon DEF n, Next1

(* What one name of a request adds. *)
LEMMA AskedKnown ==
    ASSUME NEW acc \in Searches, NEW k \in 1..19
    PROVE  LET name == D!StatusNames[k]
               said == D!Answer(name)
           IN  D!Asked(acc, name) =
                  D!Search(Append(acc.called, name),
                           IF said = D!Null THEN acc.reply ELSE Append(acc.reply, said), said = D!Null)
<1> DEFINE name == D!StatusNames[k]
           said == D!Answer(name)
           start == D!Search(acc.called, acc.reply, FALSE)
           hit == D!Search(Append(acc.called, name),
                           IF said = D!Null THEN acc.reply ELSE Append(acc.reply, said), said = D!Null)
<1>1. PICK w \in [0..Len(Asks) -> Searches] :
         /\ w[0] = start
         /\ \A i \in 1..Len(Asks) : w[i] = D!Tried(w[i - 1], name, Asks[i])
         /\ w[Len(Asks)] = D!Asked(acc, name)
  BY AskedRun, Zenon
<1>2. Len(Asks) = 19
  BY StatusTable
<1>3. /\ start \in Searches /\ start.called = acc.called /\ start.reply = acc.reply
      /\ start.over = FALSE
  <2>1. acc.called \in Seq(Words) /\ acc.reply \in Seq(Words) /\ FALSE \in BOOLEAN
    BY SearchParts
  <2> QED
    BY <2>1, SearchOf, Zenon
<1>4. D!Tried(start, name, Asks[k]) = hit
  <2>1. Asks[k].type = name /\ Asks[k].handler = name
    BY StatusTable
  <2> HIDE DEF start, name
  <2> QED
    BY <1>3, <2>1, Zenon DEF D!Tried, D!Hit
<1>5. ASSUME NEW i \in 1..19, NEW v \in Searches, i # k
      PROVE  D!Tried(v, name, Asks[i]) = v
  <2>1. Asks[i].type # name
    <3>1. Asks[i].type = D!StatusNames[i]
      BY StatusTable
    <3>2. D!StatusNames[i] # D!StatusNames[k]
      BY <1>5, NamesDiffer
    <3> QED
      BY <3>1, <3>2
  <2>2. Asks[i] \in [type : Words, handler : Words]
    BY StatusTable
  <2> HIDE DEF name
  <2> QED
    BY <1>5, <2>1, <2>2, TriedIs, Zenon
<1> DEFINE Value(i) == IF i < k THEN start ELSE hit
           K == {i \in 0..19 : w[i] = Value(i)}
<1> HIDE DEF start, hit, name, said
<1>6. 0 \in K
  BY <1>1
<1>7. ASSUME NEW i \in 1..19, i - 1 \in K PROVE i \in K
  <2>1. w[i] = D!Tried(w[i - 1], name, Asks[i]) /\ w[i - 1] = Value(i - 1) /\ w[i - 1] \in Searches
    BY <1>1, <1>2, <1>7
  <2>2. CASE i = k
    <3>1. Value(i - 1) = start /\ Value(i) = hit
      BY <2>2
    <3> QED
      BY <1>4, <2>1, <2>2, <3>1
  <2>3. CASE i # k
    <3>1. Value(i - 1) = Value(i)
      BY <2>3
    <3>2. w[i] = w[i - 1]
      BY <1>5, <2>1, <2>3
    <3> QED
      BY <2>1, <3>1, <3>2
  <2> QED
    BY <2>2, <2>3
<1>8. 19 \in K
  <2> HIDE DEF K
  <2>1. \A i \in 0..19 : i \in K
    BY <1>6, <1>7, UpTo
  <2> QED
    BY <2>1
<1>9. w[19] = hit
  BY <1>8
<1> QED
  BY <1>1, <1>2, <1>9, Zenon DEF hit, name, said

(* A name that is not in the table adds nothing. *)
LEMMA AskedUnknown ==
    ASSUME NEW acc \in Searches, NEW name, \A k \in 1..19 : name # D!StatusNames[k]
    PROVE  D!Asked(acc, name) = D!Search(acc.called, acc.reply, FALSE)
<1>1. PICK w \in [0..Len(Asks) -> Searches] :
         /\ w[0] = D!Search(acc.called, acc.reply, FALSE)
         /\ \A i \in 1..Len(Asks) : w[i] = D!Tried(w[i - 1], name, Asks[i])
         /\ w[Len(Asks)] = D!Asked(acc, name)
  BY AskedRun, Zenon
<1>2. Len(Asks) = 19
  BY StatusTable
<1> DEFINE K == {i \in 0..19 : w[i] = w[0]}
<1>3. 0 \in K
  OBVIOUS
<1>4. ASSUME NEW i \in 1..19, i - 1 \in K PROVE i \in K
  <2>1. w[i] = D!Tried(w[i - 1], name, Asks[i]) /\ w[i - 1] \in Searches
    BY <1>1, <1>2
  <2>2. Asks[i].type # name /\ Asks[i] \in [type : Words, handler : Words]
    BY StatusTable
  <2>3. w[i] = w[i - 1]
    BY <2>1, <2>2, TriedIs
  <2> QED
    BY <1>4, <2>3
<1>5. 19 \in K
  <2> HIDE DEF K
  <2>1. \A i \in 0..19 : i \in K
    BY <1>3, <1>4, UpTo
  <2> QED
    BY <2>1
<1> QED
  BY <1>1, <1>2, <1>5

(* The names the table has, those among them that are answered, and the    *)
(* answers to some.                                                        *)
Known == {D!StatusNames[k] : k \in 1..19}

Heard == {name \in Known : D!Answer(name) # D!Null}

Said(h) == [i \in DOMAIN h |-> D!Answer(h[i])]

(* One more name, one more answer. *)
LEMMA SaidMore ==
    ASSUME NEW T, NEW h \in Seq(T), NEW x \in T
    PROVE  Said(Append(h, x)) = Append(Said(h), D!Answer(x))
<1>1. \A y : D!Answer(y) \in Words
  BY DEF D!Answer, Words
<1>2. Said(h) \in Seq(Words) /\ Len(Said(h)) = Len(h) /\ \A i \in 1..Len(h) : Said(h)[i] = D!Answer(h[i])
  BY <1>1 DEF Said
<1>3. /\ Said(Append(h, x)) \in Seq(Words) /\ Len(Said(Append(h, x))) = Len(h) + 1
      /\ \A i \in 1..(Len(h) + 1) : Said(Append(h, x))[i] = D!Answer(Append(h, x)[i])
  BY <1>1 DEF Said
<1>4. \A i \in 1..(Len(h) + 1) :
         Said(Append(h, x))[i] = IF i = Len(h) + 1 THEN D!Answer(x) ELSE D!Answer(h[i])
  BY <1>3
<1>5. /\ Append(Said(h), D!Answer(x)) \in Seq(Words)
      /\ Len(Append(Said(h), D!Answer(x))) = Len(h) + 1
      /\ \A i \in 1..(Len(h) + 1) :
            Append(Said(h), D!Answer(x))[i] = IF i = Len(h) + 1 THEN D!Answer(x) ELSE D!Answer(h[i])
  BY <1>1, <1>2
<1> QED
  BY <1>3, <1>4, <1>5, SeqEqual

(* A get_status calls and is told what its names ask for, in their order. *)
LEMMA GetStatusIs ==
    ASSUME NEW T, NEW names \in Seq(T)
    PROVE  D!GetStatus(names) = D!Outcome(Only(names, Known), FALSE, Said(Only(names, Heard)))
<1> DEFINE n == Len(names)
           none == D!Search(<<>>, <<>>, FALSE)
<1>1. n \in Nat /\ \A i \in 1..n : names[i] \in T
  OBVIOUS
<1>2. PICK w \in [0..n -> Searches] :
         /\ w[0] = none
         /\ \A i \in 1..n : w[i] = D!Asked(w[i - 1], names[i])
         /\ w[n] = D!FoldLeft(D!Asked, none, names)
  BY NamesRun, Zenon
<1>3. PICK a \in [0..n -> Seq(T)] :
         /\ a[0] = <<>>
         /\ \A i \in 1..n : a[i] = IF names[i] \in Known THEN Append(a[i - 1], names[i]) ELSE a[i - 1]
         /\ a[n] = Only(names, Known)
  BY OnlyRun
<1>4. PICK h \in [0..n -> Seq(T)] :
         /\ h[0] = <<>>
         /\ \A i \in 1..n : h[i] = IF names[i] \in Heard THEN Append(h[i - 1], names[i]) ELSE h[i - 1]
         /\ h[n] = Only(names, Heard)
  BY OnlyRun
<1> DEFINE K == {i \in 0..n : w[i].called = a[i] /\ w[i].reply = Said(h[i])}
<1> HIDE DEF n
<1>5. 0 \in K
  <2>1. w[0].called = <<>> /\ w[0].reply = <<>>
    BY <1>2 DEF D!Search
  <2>2. Said(<<>>) = <<>>
    BY DEF Said
  <2>3. w[0].called = a[0] /\ w[0].reply = Said(h[0])
    BY <1>3, <1>4, <2>1, <2>2, Zenon
  <2> QED
    BY <1>1, <2>3
<1>6. ASSUME NEW i \in 1..n, i - 1 \in K PROVE i \in K
  <2>1. /\ i \in 0..n /\ i - 1 \in 0..n /\ w[i - 1] \in Searches /\ h[i - 1] \in Seq(T) /\ names[i] \in T
        /\ w[i] = D!Asked(w[i - 1], names[i])
        /\ w[i - 1].called = a[i - 1] /\ w[i - 1].reply = Said(h[i - 1])
        /\ a[i] = IF names[i] \in Known THEN Append(a[i - 1], names[i]) ELSE a[i - 1]
        /\ h[i] = IF names[i] \in Heard THEN Append(h[i - 1], names[i]) ELSE h[i - 1]
    <3>1. i \in 0..n /\ i - 1 \in 0..n /\ names[i] \in T
      BY <1>1
    <3>2. w[i - 1].called = a[i - 1] /\ w[i - 1].reply = Said(h[i - 1])
      BY <1>6
    <3>3. w[i - 1] \in Searches /\ w[i] = D!Asked(w[i - 1], names[i])
      BY <1>2, <3>1
    <3>4. a[i] = IF names[i] \in Known THEN Append(a[i - 1], names[i]) ELSE a[i - 1]
      BY <1>3
    <3>5. /\ h[i - 1] \in Seq(T)
          /\ h[i] = IF names[i] \in Heard THEN Append(h[i - 1], names[i]) ELSE h[i - 1]
      BY <1>4, <3>1
    <3> QED
      BY <3>1, <3>2, <3>3, <3>4, <3>5, Zenon
  <2>2. w[i - 1].called \in Seq(Words) /\ w[i - 1].reply \in Seq(Words)
    BY <2>1, SearchParts
  <2>3. CASE names[i] \in Known
    <3> DEFINE said == D!Answer(names[i])
               reply == IF said = D!Null THEN w[i - 1].reply ELSE Append(w[i - 1].reply, said)
    <3>1. PICK k \in 1..19 : names[i] = D!StatusNames[k]
      BY <2>3 DEF Known
    <3>2. w[i] = D!Search(Append(w[i - 1].called, names[i]), reply, said = D!Null)
      <4>1. D!Asked(w[i - 1], D!StatusNames[k]) =
               D!Search(Append(w[i - 1].called, D!StatusNames[k]),
                        IF D!Answer(D!StatusNames[k]) = D!Null THEN w[i - 1].reply
                        ELSE Append(w[i - 1].reply, D!Answer(D!StatusNames[k])),
                        D!Answer(D!StatusNames[k]) = D!Null)
        BY <2>1, AskedKnown
      <4> QED
        BY <2>1, <3>1, <4>1, Zenon
    <3>3. w[i].called = Append(w[i - 1].called, names[i]) /\ w[i].reply = reply
      BY <3>2 DEF D!Search
    <3>4. w[i].called = a[i]
      BY <2>1, <2>3, <3>3
    <3>5. CASE said = D!Null
      <4>1. h[i] = h[i - 1] /\ reply = w[i - 1].reply
        BY <2>1, <3>5, Zenon DEF Heard
      <4> QED
        BY <2>1, <3>3, <3>4, <4>1
    <3>6. CASE said # D!Null
      <4>1. h[i] = Append(h[i - 1], names[i]) /\ reply = Append(w[i - 1].reply, said)
        BY <2>1, <2>3, <3>6, Zenon DEF Heard
      <4>2. Said(h[i]) = Append(Said(h[i - 1]), said)
        BY <2>1, <4>1, SaidMore
      <4>3. w[i].reply = Said(h[i])
        BY <2>1, <3>3, <4>1, <4>2
      <4> QED
        BY <2>1, <3>4, <4>3
    <3> QED
      BY <3>5, <3>6
  <2>4. CASE names[i] \notin Known
    <3>1. w[i] = D!Search(w[i - 1].called, w[i - 1].reply, FALSE)
      BY <2>1, <2>4, AskedUnknown DEF Known
    <3>2. w[i].called = w[i - 1].called /\ w[i].reply = w[i - 1].reply
      BY <3>1 DEF D!Search
    <3>3. a[i] = a[i - 1] /\ h[i] = h[i - 1]
      BY <2>1, <2>4 DEF Heard
    <3> QED
      BY <2>1, <3>2, <3>3
  <2> QED
    BY <2>3, <2>4
<1>7. n \in K
  <2> HIDE DEF K
  <2>1. \A i \in 0..n : i \in K
    BY <1>1, <1>5, <1>6, UpTo
  <2> QED
    BY <1>1, <2>1
<1>8. w[n].called = Only(names, Known) /\ w[n].reply = Said(Only(names, Heard))
  BY <1>3, <1>4, <1>7
<1> QED
  BY <1>2, <1>8, Zenon DEF D!GetStatus

(* The first of some positions is one of them. *)
LEMMA FirstIs ==
    ASSUME NEW n \in Nat, NEW I, I \subseteq 1..n, I # {}
    PROVE  D!Min(I) \in I
<1>1. PICK m \in I : \A k \in I : m <= k
  <2>1. I \subseteq Nat
    OBVIOUS
  <2> QED
    BY <2>1, LeastOf
<1> QED
  BY <1>1 DEF D!Min

(* What may be found in a name: itself and the names inside it. *)
LEMMA WithinIs ==
    ASSUME NEW w
    PROVE  /\ w \in D!Within(w)
           /\ \A t \in D!Within(w) :
                 \/ t = w
                 \/ t = "upgrade" /\ w = "upgrade_client"
                 \/ t = "wifi" \/ t = "load"
  BY DEF D!Within

Sets == D!elink_features_cfg

(* What counts of the table of cfg: upgrade, found in upgrade_client, has  *)
(* no handler either, and no other entry is found in a longer name.        *)
LEMMA CfgTable ==
    /\ Len(Sets) = 11 /\ DOMAIN Sets = 1..11
    /\ \A i \in 1..11 : Sets[i].type = "upgrade" => Sets[i].handler = D!Null
    /\ \A i \in 1..11 : Sets[i].type # "wifi" /\ Sets[i].type # "load"
    /\ Sets[5].type = "upgrade_client" /\ Sets[5].handler = D!Null
<1>1. Len(Sets) = 11 /\ DOMAIN Sets = 1..11
  BY DEF Sets, D!elink_features_cfg
<1>2. Sets[5].type = "upgrade_client" /\ Sets[5].handler = D!Null
  BY DEF Sets, D!elink_features_cfg, D!Entry
<1>3. \A i \in 1..11 : Sets[i].type = "upgrade" => Sets[i].handler = D!Null
  BY DEF Sets, D!elink_features_cfg, D!Entry
<1>4. \A i \in 1..11 : Sets[i].type # "wifi" /\ Sets[i].type # "load"
  BY DEF Sets, D!elink_features_cfg, D!Entry
<1> QED
  BY <1>1, <1>2, <1>3, <1>4

Named(words) == {e \in Range(Sets) : e.type \in words}

CfgGood(out, cfg) ==
    /\ out.crash => \E e \in cfg : e.handler = D!Null
    /\ Len(out.called) <= 1
    /\ Range(out.called) \subseteq {e.handler : e \in cfg}
    /\ cfg = {} <=> ~out.crash /\ out.called = <<>>

(* A cfg reaches one entry that it names, if it names any. *)
LEMMA CfgIs ==
    ASSUME NEW words
    PROVE  CfgGood(D!Cfg(words), Named(words))
<1> DEFINE I == {i \in 1..Len(Sets) : \E w \in words : Sets[i].type \in D!Within(w)}
           first == IF I # {} THEN D!Min(I) ELSE 0
           out == D!Cfg(words)
           cfg == Named(words)
<1>1. out = IF first = 0 THEN D!Outcome(<<>>, FALSE, D!NoReply)
            ELSE IF Sets[first].handler = D!Null THEN D!Outcome(<<>>, TRUE, D!NoReply)
            ELSE D!Outcome(<<Sets[first].handler>>, FALSE, D!NoReply)
  BY Zenon DEF D!Cfg, D!SelectInSeq, Sets
<1> HIDE DEF out
<1>2. Range(<<>>) = {} /\ Len(<<>>) = 0
  BY DEF Range
<1>3. \A h : Range(<<h>>) = {h} /\ Len(<<h>>) = 1 /\ <<h>> # <<>>
  BY DEF Range
<1>4. \A i \in 1..11 : Sets[i] \in Range(Sets)
  BY CfgTable DEF Range
<1>5. CASE I = {}
  <2>1. out.called = <<>> /\ out.crash = FALSE
    BY <1>1, <1>5 DEF D!Outcome
  <2>2. ASSUME NEW e \in cfg PROVE FALSE
    <3>1. e \in Range(Sets) /\ e.type \in words
      BY DEF Named
    <3>2. PICK i \in 1..11 : e = Sets[i]
      BY <3>1, CfgTable DEF Range
    <3>3. i \in I
      BY <3>1, <3>2, CfgTable, WithinIs
    <3> QED
      BY <1>5, <3>3
  <2> QED
    <3>1. /\ ~out.crash /\ out.called = <<>> /\ cfg = {}
          /\ Len(out.called) <= 1 /\ Range(out.called) = {}
      BY <1>2, <2>1, <2>2
    <3> QED
      BY <3>1, Zenon DEF CfgGood, out
<1>6. CASE I # {}
  <2>1. first \in I /\ first \in 1..11 /\ first # 0
    <3>1. I \subseteq 1..11
      BY CfgTable
    <3>2. D!Min(I) \in I
      BY <1>6, <3>1, FirstIs
    <3> QED
      BY <1>6, <3>1, <3>2
  <2>2. PICK w \in words : Sets[first].type \in D!Within(w)
    BY <2>1
  <2> HIDE DEF first, I
  <2>3. \/ Sets[first].type = w
        \/ w = "upgrade_client" /\ Sets[first].type = "upgrade"
    BY <2>1, <2>2, WithinIs, CfgTable
  <2>4. Sets[first].handler # D!Null => Sets[first] \in cfg
    <3>1. Sets[first].handler # D!Null => Sets[first].type = w
      BY <2>1, <2>3, CfgTable
    <3> QED
      BY <1>4, <2>1, <3>1 DEF Named
  <2>5. Sets[first].handler = D!Null => \E e \in cfg : e.handler = D!Null
    <3>1. CASE Sets[first].type = w
      <4>1. Sets[first] \in cfg
        BY <1>4, <2>1, <3>1 DEF Named
      <4> QED
        BY <4>1
    <3>2. CASE w = "upgrade_client"
      <4>1. Sets[5] \in cfg /\ Sets[5].handler = D!Null
        BY <1>4, <3>2, CfgTable DEF Named
      <4> QED
        BY <4>1
    <3> QED
      BY <2>3, <3>1, <3>2
  <2> HIDE DEF cfg
  <2>6. CASE Sets[first].handler = D!Null
    <3>1. out.called = <<>> /\ out.crash = TRUE
      BY <1>1, <2>1, <2>6 DEF D!Outcome
    <3>2. cfg # {}
      BY <2>5, <2>6
    <3> QED
      <4>1. /\ out.crash /\ Len(out.called) <= 1 /\ Range(out.called) = {}
        BY <1>2, <3>1
      <4> QED
        BY <2>5, <2>6, <3>2, <4>1, Zenon DEF CfgGood, cfg, out
  <2>7. CASE Sets[first].handler # D!Null
    <3>1. out.called = <<Sets[first].handler>> /\ out.crash = FALSE
      BY <1>1, <2>1, <2>7 DEF D!Outcome
    <3>2. Range(out.called) = {Sets[first].handler} /\ Len(out.called) = 1 /\ out.called # <<>>
      BY <1>3, <3>1
    <3> QED
      <4>1. ~out.crash /\ Len(out.called) <= 1
        BY <3>1, <3>2
      <4>2. cfg # {} /\ Range(out.called) \subseteq {e.handler : e \in cfg}
        BY <2>4, <2>7, <3>2
      <4> QED
        BY <3>2, <4>1, <4>2, Zenon DEF CfgGood, cfg, out
  <2> QED
    BY <2>6, <2>7
<1> QED
  BY <1>5, <1>6 DEF out

Features == D!elink_features

(* No type is in its table twice. *)
LEMMA TypeTable ==
    /\ Len(Features) = 12 /\ DOMAIN Features = 1..12
    /\ \A i, j \in 1..12 : Features[i].type = Features[j].type => i = j
<1>1. Len(Features) = 12 /\ DOMAIN Features = 1..12
  BY DEF Features, D!elink_features
<1>2. \A i, j \in 1..12 : Features[i].type = Features[j].type => i = j
  BY DEF Features, D!elink_features, D!Entry
<1> QED
  BY <1>1, <1>2

(* Any other type calls the handler of its entry, if it has one. *)
LEMMA ByTypeIs ==
    ASSUME NEW type
    PROVE  LET out == D!ByType(type)
           IN  /\ out.crash = FALSE
               /\ Range(out.called) =
                     {e.handler : e \in {e \in Range(Features) : e.type = type}} \ {D!Null}
<1> DEFINE I == {i \in 1..Len(Features) : Features[i].type = type}
           first == IF I # {} THEN D!Min(I) ELSE 0
           out == D!ByType(type)
           entries == {e \in Range(Features) : e.type = type}
<1>1. out = IF first = 0 \/ Features[first].handler = D!Null THEN D!Outcome(<<>>, FALSE, D!NoReply)
            ELSE D!Outcome(<<Features[first].handler>>, FALSE, D!NoReply)
  BY Zenon DEF D!ByType, D!SelectInSeq, Features
<1> HIDE DEF out
<1>2. Range(<<>>) = {} /\ \A h : Range(<<h>>) = {h}
  BY DEF Range
<1>3. \A e : e \in entries <=> \E i \in 1..12 : e = Features[i] /\ Features[i].type = type
  BY TypeTable DEF Range
<1>4. CASE I = {}
  <2>1. out.called = <<>> /\ out.crash = FALSE
    BY <1>1, <1>4 DEF D!Outcome
  <2>2. entries = {}
    BY <1>3, <1>4, TypeTable
  <2> QED
    BY <1>2, <2>1, <2>2 DEF out
<1>5. CASE I # {}
  <2>1. first \in I /\ first \in 1..12 /\ first # 0
    <3>1. I \subseteq 1..12
      BY TypeTable
    <3>2. D!Min(I) \in I
      BY <1>5, <3>1, FirstIs
    <3> QED
      BY <1>5, <3>1, <3>2
  <2>2. Features[first].type = type
    BY <2>1
  <2> HIDE DEF first, I
  <2>3. entries = {Features[first]}
    <3> HIDE DEF entries
    <3>1. Features[first] \in entries
      BY <1>3, <2>1, <2>2
    <3>2. ASSUME NEW e \in entries PROVE e = Features[first]
      <4>1. PICK i \in 1..12 : e = Features[i] /\ Features[i].type = type
        BY <1>3
      <4>2. i = first
        BY <2>1, <2>2, <4>1, TypeTable
      <4> QED
        BY <4>1, <4>2
    <3> QED
      BY <3>1, <3>2
  <2>4. {e.handler : e \in entries} = {Features[first].handler}
    BY <2>3
  <2> HIDE DEF entries
  <2>5. CASE Features[first].handler = D!Null
    <3>1. out.called = <<>> /\ out.crash = FALSE
      BY <1>1, <2>5 DEF D!Outcome
    <3>2. {e.handler : e \in entries} \ {D!Null} = {}
      BY <2>4, <2>5
    <3> QED
      BY <1>2, <3>1, <3>2, Zenon DEF out, entries
  <2>6. CASE Features[first].handler # D!Null
    <3>1. out.called = <<Features[first].handler>> /\ out.crash = FALSE
      BY <1>1, <2>1, <2>6 DEF D!Outcome
    <3>2. {e.handler : e \in entries} \ {D!Null} = {Features[first].handler}
      BY <2>4, <2>6
    <3> QED
      BY <1>2, <3>1, <3>2, Zenon DEF out, entries
  <2> QED
    BY <2>5, <2>6
<1> QED
  BY <1>4, <1>5

-----------------------------------------------------------------------------
(* The specification.  A state is an input, or an input and what the code  *)
(* made of it; the lemmas above are about every input.                     *)

Outgoing == [sender : Keys, receiver : Keys, message : Seq(Letters)]

(* The characters of the lines logged: none is the NUL.                    *)
Glyphs == Fixed \union {"t", "T", "P", "I", "f", "g", "x", "3"}

IsLogged(c) == IsCall(c, Glyphs) /\ NoBlank(c.tag)

(* Any names may be asked for. *)
IsRequest(r) == \E T : r.names \in Seq(T)

TextInv ==
    /\ stage \in {"number", "written"} => input \in Seq(Bytes)
    /\ stage \in {"text", "read"} => input \in Seq(Chars)
    /\ stage \in {"send", "sent"} => input \in Outgoing
    /\ stage = "written" => output = do_b64_encrypt(input)
    /\ stage = "read" => output = do_b64_decrypt(input)
    /\ stage = "sent" => output = S!msg_sent(input.sender, input.message)
    /\ stage \in {"request", "handled"} => IsRequest(input)
    /\ stage = "handled" => output = D!handler_event(input.type, input.names, input.words)
    /\ stage \in {"log", "logged"} => IsLogged(input.call)
    /\ stage \in {"raw", "logged raw"} => input \in Seq(Glyphs)
    /\ stage = "logged" => output = L!elog_output(input.filter, input.call)
    /\ stage = "logged raw" => output = L!elog_raw(input)

LEMMA GlyphsOf == Printable(Glyphs) /\ NoNul(Glyphs)
  BY DEF Printable, NoNul, Glyphs, Fixed, Nul

LEMMA RepOf ==
    ASSUME NEW G, NEW x \in G, NEW n \in Int
    PROVE  /\ Rep(n, x) \in Seq(G)
           /\ \A i \in 1..Len(Rep(n, x)) : Rep(n, x)[i] = x
<1>1. PICK k \in Nat : 1..n = 1..k
  <2>1. CASE n >= 0
    BY <2>1
  <2>2. CASE ~(n >= 0)
    <3>1. 1..n = 1..0
      BY <2>2
    <3> QED
      BY <3>1
  <2> QED
    BY <2>1, <2>2
<1> DEFINE s == [i \in 1..k |-> x]
<1>2. Rep(n, x) = s
  BY <1>1, Zenon DEF Rep
<1>3. s \in Seq(G) /\ Len(s) = k
  OBVIOUS
<1> QED
  BY <1>2, <1>3

(* Every call that is logged is one the lemmas are about.                  *)
LEMMA HeadingsLogged == \A c \in Headings : IsLogged(c)
<1> SUFFICES ASSUME NEW c \in Headings PROVE IsLogged(c)
  OBVIOUS
<1>1. /\ "t" \in Glyphs /\ "T" \in Glyphs /\ "P" \in Glyphs /\ "I" \in Glyphs
      /\ "f" \in Glyphs /\ "g" \in Glyphs /\ "x" \in Glyphs
      /\ "1" \in Glyphs /\ "2" \in Glyphs /\ "3" \in Glyphs
  BY DEF Glyphs, Fixed
<1>2. /\ c.level \in Levels /\ c.colour \in BOOLEAN
      /\ \E n \in TagLengths : c.tag = Rep(n, "t")
      /\ c.time = <<"T">> /\ c.process = <<"P">> /\ c.thread = <<"I">> /\ c.file = <<"f">>
      /\ c.func = <<"g">> /\ c.line = <<"1", "2", "3">> /\ c.message = <<>>
  BY Zenon DEF Headings
<1>3. PICK n \in TagLengths : c.tag = Rep(n, "t")
  BY <1>2
<1>4. n \in Int
  BY TextsAssumption
<1>5. c.tag \in Seq(Glyphs) /\ \A i \in 1..Len(c.tag) : c.tag[i] = "t"
  <2>1. /\ Rep(n, "t") \in Seq(Glyphs)
        /\ \A i \in 1..Len(Rep(n, "t")) : Rep(n, "t")[i] = "t"
    BY <1>1, <1>4, RepOf
  <2> QED
    BY <1>3, <2>1, Zenon
<1> HIDE DEF Glyphs
<1>6. /\ c.time \in Seq(Glyphs) /\ c.process \in Seq(Glyphs) /\ c.thread \in Seq(Glyphs)
      /\ c.file \in Seq(Glyphs) /\ c.func \in Seq(Glyphs)
  <2>1. \A x \in Glyphs : <<x>> \in Seq(Glyphs)
    OBVIOUS
  <2> QED
    BY <1>1, <1>2, <2>1, Zenon
<1>7. c.line \in Seq(Glyphs) /\ c.message \in Seq(Glyphs)
  <2>1. \A x, y, z \in Glyphs : <<x, y, z>> \in Seq(Glyphs)
    OBVIOUS
  <2>2. <<>> \in Seq(Glyphs)
    OBVIOUS
  <2> QED
    BY <1>1, <1>2, <2>1, <2>2, Zenon
<1>8. IsCall(c, Glyphs)
  BY <1>2, <1>5, <1>6, <1>7 DEF IsCall
<1>9. NoBlank(c.tag)
  <2>1. "t" # L!Blank
    BY DEF L!Blank
  <2> QED
    BY <1>5, <2>1, Zenon DEF NoBlank
<1> QED
  BY <1>8, <1>9 DEF IsLogged

LEMMA CallsLogged == \A c \in Calls : IsLogged(c)
<1>1. ASSUME NEW c \in Headings, NEW n \in Int
      PROVE  IsLogged([c EXCEPT !.message = Rep(n, "x")])
  <2> DEFINE d == [c EXCEPT !.message = Rep(n, "x")]
  <2>1. "x" \in Glyphs
    BY DEF Glyphs
  <2>2. Rep(n, "x") \in Seq(Glyphs)
    BY <2>1, RepOf
  <2>3. /\ d.message = Rep(n, "x") /\ d.level = c.level /\ d.colour = c.colour
        /\ d.tag = c.tag /\ d.time = c.time /\ d.process = c.process /\ d.thread = c.thread
        /\ d.file = c.file /\ d.func = c.func /\ d.line = c.line
    BY DEF Headings
  <2>4. IsCall(c, Glyphs) /\ NoBlank(c.tag)
    BY HeadingsLogged DEF IsLogged
  <2> HIDE DEF d
  <2>5. IsCall(d, Glyphs)
    BY <2>2, <2>3, <2>4 DEF IsCall
  <2>6. NoBlank(d.tag)
    BY <2>3, <2>4, Zenon
  <2> QED
    BY <2>5, <2>6 DEF IsLogged, d
<1>2. ASSUME NEW c \in Headings, NEW msg \in Messages(c)
      PROVE  \E n \in Int : msg = Rep(n, "x")
  <2>1. IsCall(c, Glyphs)
    BY HeadingsLogged DEF IsLogged
  <2>2. Len(L!Header(c)) \in Int
    <3>1. /\ FlattenSeq(L!Pieces(c)) \in Seq(Glyphs)
          /\ L!Header(c) = Kept(FlattenSeq(L!Pieces(c)), LineBuf)
      BY <2>1, GlyphsOf, HeaderIs, Zenon
    <3>2. LineBuf \in Nat
      BY Lengths
    <3>3. L!Header(c) \in Seq(Glyphs)
      <4>1. Kept(FlattenSeq(L!Pieces(c)), LineBuf) \in Seq(Glyphs)
        BY <3>1, <3>2, KeptOf
      <4> QED
        BY <3>1, <4>1, Zenon
    <3> QED
      BY <3>3
  <2>3. LineBuf - Len(L!Header(c)) \in Int
    BY <2>2 DEF LineBuf
  <2>4. \A room \in Int : {0} \union ((room - 5)..(room - 3) \cap Nat) \union (room - 1)..(room + 1)
                             \subseteq Int
    OBVIOUS
  <2> QED
    BY <2>3, <2>4, Zenon DEF Messages
<1>3. ASSUME NEW c \in Headings, NEW msg \in Messages(c)
      PROVE  IsLogged([c EXCEPT !.message = msg])
  BY <1>1, <1>2
<1> SUFFICES ASSUME NEW d \in Calls PROVE IsLogged(d)
  OBVIOUS
<1>4. PICK c \in Headings : d \in {[c EXCEPT !.message = msg] : msg \in Messages(c)}
  BY DEF Calls
<1>5. PICK msg \in Messages(c) : d = [c EXCEPT !.message = msg]
  BY <1>4
<1> QED
  BY <1>3, <1>5

LEMMA TextInit == Init => TextInv
<1>1. ASSUME NEW T, NEW U, T \subseteq U, NEW n \in Nat
      PROVE  BoundedSeq(T, n) \subseteq Seq(U)
  <2> SUFFICES ASSUME NEW m \in 0..n, NEW f \in [1..m -> T] PROVE f \in Seq(U)
    BY Zenon DEF BoundedSeq, SeqOf
  <2> QED
    BY <1>1
<1>2. BoundedSeq(SomeBytes, MaxBytes) \subseteq Seq(Bytes)
  BY <1>1, TextsAssumption
<1>3. BoundedSeq(SomeChars, MaxChars) \subseteq Seq(Chars)
  BY <1>1, TextsAssumption
<1>4. Sendings \subseteq Outgoing
  <2>1. \A n \in 0..MaxMessage : [i \in 1..n |-> i] \in Seq(Letters)
    BY TextsAssumption DEF Letters
  <2> QED
    BY <2>1 DEF Sendings, Outgoing
<1> SUFFICES ASSUME Init PROVE TextInv
  OBVIOUS
<1>5. CASE stage = "number" /\ input \in BoundedSeq(SomeBytes, MaxBytes)
  BY <1>2, <1>5 DEF TextInv
<1>6. CASE stage = "text" /\ input \in BoundedSeq(SomeChars, MaxChars)
  BY <1>3, <1>6 DEF TextInv
<1>7. CASE stage = "send" /\ input \in Sendings
  BY <1>4, <1>7 DEF TextInv
<1>8. CASE stage = "request" /\ input \in Requests
  <2>1. \A T : BoundedSeq(T, MaxNames) \subseteq Seq(T) /\ <<>> \in Seq(T)
    BY <1>1, TextsAssumption
  <2>2. \/ \E T : input.names \in BoundedSeq(T, MaxNames)
        \/ input.names = <<>>
    BY <1>8 DEF Requests, Request
  <2>3. IsRequest(input)
    BY <2>1, <2>2, Zenon DEF IsRequest
  <2> QED
    BY <1>8, <2>3 DEF TextInv
<1>9. CASE stage = "log" /\ input \in [filter : Filters, call : Calls]
  BY <1>9, CallsLogged DEF TextInv
<1>10. CASE stage = "raw" /\ input \in {Rep(n, "x") : n \in 0..(LineBuf + 2)}
  <2>1. PICK n \in 0..(LineBuf + 2) : input = Rep(n, "x")
    BY <1>10
  <2>2. "x" \in Glyphs /\ n \in Int
    BY DEF Glyphs
  <2>3. input \in Seq(Glyphs)
    BY <2>1, <2>2, RepOf, Zenon
  <2> QED
    BY <1>10, <2>3, Zenon DEF TextInv
<1> QED
  BY <1>5, <1>6, <1>7, <1>8, <1>9, <1>10, Zenon DEF Init

LEMMA TextStep == TextInv /\ [Next]_vars => TextInv'
<1> SUFFICES ASSUME TextInv, [Next]_vars PROVE TextInv'
  OBVIOUS
<1>1. CASE WriteNumber
  BY <1>1 DEF WriteNumber, Turn, TextInv
<1>2. CASE ReadText
  BY <1>2 DEF ReadText, Turn, TextInv
<1>3. CASE SendMessage
  BY <1>3 DEF SendMessage, Turn, TextInv
<1>4. CASE HandleMessage
  BY <1>4, Zenon DEF HandleMessage, Turn, TextInv
<1>5. CASE LogCall
  BY <1>5, Zenon DEF LogCall, Turn, TextInv
<1>6. CASE LogRaw
  BY <1>6, Zenon DEF LogRaw, Turn, TextInv
<1>7. CASE UNCHANGED vars
  <2>1. stage' = stage /\ input' = input /\ output' = output
    BY <1>7 DEF vars
  <2> QED
    BY <2>1, Zenon DEF TextInv
<1> QED
  BY <1>1, <1>2, <1>3, <1>4, <1>5, <1>6, <1>7, Zenon DEF Next

LEMMA TextAlways == Spec => []TextInv
  BY TextInit, TextStep, PTL DEF Spec

(* des.c:7-28: every number elink writes as text, however long and of      *)
(* whatever bytes, fits its buffer, and the other side reads the same.     *)
THEOREM NumbersComeThrough == Spec => []RoundTrip
<1>1. TextInv => RoundTrip
  BY NumberReadsBack, Written DEF TextInv, RoundTrip
<1> QED
  BY <1>1, TextAlways, PTL

(* base64.c:182-308: no text, however long, with white space and wrong     *)
(* characters anywhere, is read as bytes whose own text it is not.         *)
THEOREM NoSecondSpelling == Spec => []Canonical
<1>1. TextInv => Canonical
  BY OneSpelling DEF TextInv, Canonical
<1> QED
  BY <1>1, TextAlways, PTL

(* des.c:18-28: the buffer do_b64_cmd gives to a text of any length is     *)
(* never what makes it unreadable.                                         *)
THEOREM BufferLargeEnough == Spec => []RoomEnough
<1>1. TextInv => RoomEnough
  BY RoomIsEnough DEF TextInv, RoomEnough
<1> QED
  BY <1>1, TextAlways, PTL

(* msg.c:36-77, distribution.c:222-247: a message of any length from the   *)
(* header's to what recv_buf holds, the padding included, and with any     *)
(* size of recv_buf, is what the other side parses, if both have the same  *)
(* key or both none.                                                       *)
THEOREM MessagesComeThrough == Spec => []SealedReadsBack
<1>1. ASSUME TextInv, stage = "sent", Len(input.message) >= HeaderLen
      PROVE  /\ input.receiver = input.sender /\ Len(output.body) <= BufLen =>
                    S!data_distribution(input.receiver, output) = input.message
             /\ S!check_msg_header(output.header) = Len(output.body)
             /\ Len(output.body) - Len(input.message) \in 0..(Block - 1)
  <2> DEFINE msg == input.message
             key == input.sender
  <2>1. /\ msg \in Seq(Letters) /\ key \in Keys /\ Len(msg) \in Nat
        /\ output = S!msg_sent(key, msg)
    BY <1>1 DEF TextInv, Outgoing
  <2>2. CASE key = NoKey
    <3>1. /\ Len(output.body) = Len(msg) /\ output.header = S!Header(Len(msg))
          /\ Len(msg) <= BufLen => S!data_distribution(NoKey, output) = msg
      BY <1>1, <2>1, <2>2, SentPlain, Zenon
    <3>2. S!check_msg_header(output.header) = Len(msg)
      BY <2>1, <3>1, HeaderRead
    <3>3. Len(msg) - Len(msg) \in 0..(Block - 1)
      BY <2>1 DEF Block
    <3> QED
      BY <2>2, <3>1, <3>2, <3>3
  <2>3. CASE key # NoKey
    <3>1. /\ Len(output.body) = S!PadLen(Len(msg))
          /\ output.header = S!Header(Len(output.body))
          /\ Len(output.body) <= BufLen => S!data_distribution(key, output) = msg
      BY <1>1, <2>1, <2>3, SentSealed, Zenon
    <3>2. Len(output.body) \in Nat /\ Len(output.body) - Len(msg) \in 0..(Block - 1)
      BY <2>1, <3>1, PadLenOf
    <3>3. S!check_msg_header(output.header) = Len(output.body)
      BY <3>1, <3>2, HeaderRead
    <3> QED
      BY <3>1, <3>2, <3>3
  <2> QED
    BY <2>2, <2>3
<1>2. TextInv => SealedReadsBack
  BY <1>1, Zenon DEF SealedReadsBack
<1> QED
  BY <1>2, TextAlways, PTL

(* elog.c:419-534: a line of any texts ends as it should, holds no NUL and *)
(* says as much as the buffer has room for, the beginning of the rest; a   *)
(* raw line that fits is written as it is.                                 *)
THEOREM LinesComplete == Spec => []LineWellFormed
<1>1. ASSUME TextInv, stage = "logged", output # L!Dropped
      PROVE  LET c == input.call
             IN  /\ Len(output) <= LineBuf
                 /\ Nul \notin Range(output)
                 /\ IsSuffix(Ending(c), output)
                 /\ IsPrefix(Cut(output, c), Whole(c))
                 /\ Len(Whole(c)) + Len(CsiEnd) + Len(L!Newline) <= LineBuf =>
                       Cut(output, c) = Whole(c)
  <2>1. /\ IsCall(input.call, Glyphs)
        /\ output = L!elog_output(input.filter, input.call)
    BY <1>1, Zenon DEF TextInv, IsLogged
  <2> QED
    BY <1>1, <2>1, GlyphsOf, LineGood, Zenon
<1>2. ASSUME TextInv, stage = "logged raw", Len(input) < LineBuf
      PROVE  output = input
  <2>1. input \in Seq(Glyphs) /\ output = L!elog_raw(input)
    BY <1>2, Zenon DEF TextInv
  <2> QED
    BY <1>2, <2>1, RawGood, Zenon
<1>3. TextInv => LineWellFormed
  BY <1>1, <1>2, Zenon DEF LineWellFormed
<1> QED
  BY <1>3, TextAlways, PTL

(* elog.c:601-667: whatever else a coloured line says, its level and its   *)
(* tag are found in it as they were put there.                             *)
THEOREM LevelAndTagReadBack == Spec => []LevelAndTagFound
<1>1. ASSUME TextInv, stage = "logged", output # L!Dropped, input.call.colour,
             {"LVL", "TAG"} \subseteq input.call.formats, Len(input.call.tag) < TagMax
      PROVE  LET c == input.call
                 lvl == L!elog_find_lvl(output)
                 front == Len(CsiStart) + Len(Colour[c.level]) + Len(LevelInfo[c.level])
             IN  /\ lvl = c.level
                 /\ front + Len(c.tag) + 1 <= LineBuf - Len(Ending(c)) =>
                       L!elog_find_tag(output, lvl) = c.tag
  <2> DEFINE c == input.call
  <2>1. /\ IsCall(c, Glyphs) /\ NoBlank(c.tag)
        /\ output = L!elog_output(input.filter, c)
    BY <1>1, Zenon DEF TextInv, IsLogged
  <2>2. /\ L!elog_find_lvl(output) = c.level
        /\ 6 + Len(c.tag) + 1 <= BodyMax => L!elog_find_tag(output, c.level) = c.tag
    BY <1>1, <2>1, GlyphsOf, ReadBack, Zenon
  <2>3. Len(Ending(c)) = 3
    BY <1>1, <2>1, GlyphsOf, LineIs, Zenon
  <2>4. LineBuf - 3 = BodyMax
    BY Lengths
  <2>5. Len(CsiStart) + Len(Colour[c.level]) + Len(LevelInfo[c.level]) = 6
    <3>1. 2 + 2 + 2 = 6
      OBVIOUS
    <3> QED
      BY <2>1, <3>1, CallTexts, TwoEach, Zenon
  <2> QED
    BY <2>2, <2>3, <2>4, <2>5, Zenon
<1>2. TextInv => LevelAndTagFound
  BY <1>1, Zenon DEF LevelAndTagFound
<1> QED
  BY <1>2, TextAlways, PTL

(* Any get_status calls the handlers of the names it asks for and of no     *)
(* other, in its order, and answers with what they said; any cfg reaches    *)
(* one entry that it names; the other types never crash                     *)
(* (distribution.c:67-203).  The searches are those of lemmas GetStatusIs,  *)
(* CfgIs and ByTypeIs.                                                      *)
THEOREM HandlersAsked == Spec => []Dispatched
<1>1. ASSUME TextInv, stage = "handled" PROVE Dispatched
  <2> DEFINE cfg == {e \in Range(D!elink_features_cfg) : e.type \in input.words}
             known == {e.type : e \in Range(D!elink_features_get_status)}
             heard == Only(input.names, {name \in known : D!Answer(name) # D!Null})
  <2>1. output = D!handler_event(input.type, input.names, input.words) /\ IsRequest(input)
    BY <1>1, Zenon DEF TextInv
  <2>2. known = Known
    <3>1. \A e : e \in Range(Asks) <=> \E i \in 1..19 : e = Asks[i]
      BY StatusTable DEF Range
    <3>2. \A t : t \in {e.type : e \in Range(Asks)} <=> \E i \in 1..19 : t = D!StatusNames[i]
      BY <3>1, StatusTable
    <3> QED
      BY <3>2 DEF Known, Asks
  <2>3. heard = Only(input.names, Heard)
    BY <2>2, Zenon DEF Heard
  <2>4. CASE input.type = "get_status"
    <3>1. PICK T : input.names \in Seq(T)
      BY <2>1 DEF IsRequest
    <3>2. output = D!GetStatus(input.names)
      BY <2>1, <2>4 DEF D!handler_event
    <3>3. output = D!Outcome(Only(input.names, Known), FALSE, Said(Only(input.names, Heard)))
      BY <3>1, <3>2, GetStatusIs, Zenon
    <3>4. /\ output.called = Only(input.names, Known) /\ ~output.crash
          /\ output.reply = Said(Only(input.names, Heard))
      BY <3>3 DEF D!Outcome
    <3> HIDE DEF known, heard
    <3>5. /\ output.called = Only(input.names, known) /\ ~output.crash
          /\ output.reply = [i \in DOMAIN heard |-> D!Answer(heard[i])]
      BY <2>2, <2>3, <3>4, Zenon DEF Said
    <3> QED
      BY <2>4, <3>5, Zenon DEF Dispatched, known, heard
  <2>5. CASE input.type = "cfg"
    <3>1. output = D!Cfg(input.words)
      BY <2>1, <2>5 DEF D!handler_event
    <3>2. CfgGood(output, cfg)
      BY <3>1, CfgIs, Zenon DEF Named, Sets
    <3> HIDE DEF cfg
    <3>3. input.type # "get_status"
      BY <2>5
    <3> QED
      BY <2>5, <3>2, <3>3, Zenon DEF Dispatched, CfgGood, cfg
  <2>6. CASE input.type \notin {"get_status", "cfg"}
    <3>1. output = D!ByType(input.type)
      BY <2>1, <2>6 DEF D!handler_event
    <3>2. /\ ~output.crash
          /\ Range(output.called) =
                {e.handler : e \in {e \in Range(D!elink_features) : e.type = input.type}} \ {D!Null}
      BY <3>1, ByTypeIs DEF Features
    <3>3. input.type # "get_status" /\ input.type # "cfg"
      BY <2>6
    <3> QED
      BY <3>2, <3>3, Zenon DEF Dispatched
  <2> QED
    BY <2>4, <2>5, <2>6
<1>2. TextInv => Dispatched
  BY <1>1, Zenon DEF Dispatched
<1> QED
  BY <1>2, TextAlways, PTL
=============================================================================
