------------------------------- MODULE Base64 --------------------------------
(***************************************************************************)
(* base64.c, and do_b64_cmd (des.c), through which the DH numbers become   *)
(* text and are read again.  A character is the number of its digit, 0 to  *)
(* 63, or Pad, Space (any white space) or Other.                           *)
(***************************************************************************)
EXTENDS Integers, Sequences, SequencesExt

Pad == 64
Space == 65
Other == 66

Bytes == 0..255
Digits == 0..63
Chars == Digits \union {Pad, Space, Other}

Error == <<-1>>

-----------------------------------------------------------------------------
(* b64_encode: three bytes become four digits; a last group of one or two  *)
(* bytes is filled up with zeros, and what they alone make up with Pad.    *)

ByteAt(src, i) == IF i <= Len(src) THEN src[i] ELSE 0

Digit_NoCarry(a, b, c, j) ==
    CASE j = 1 -> a \div 4
      [] j = 2 -> (a % 4) * 16
      [] j = 3 -> (b % 16) * 4 + c \div 64
      [] j = 4 -> c % 64

Digit(a, b, c, j) ==
    CASE j = 1 -> a \div 4
      [] j = 2 -> (a % 4) * 16 + b \div 16
      [] j = 3 -> (b % 16) * 4 + c \div 64
      [] j = 4 -> c % 64

Groups(n) == (n + 2) \div 3

(* The groups before the last need not be looked at one by one: the i-th   *)
(* character belongs to group (i - 1) \div 4.  A text that leaves no room  *)
(* for the final NUL is an error.                                          *)
Encode(src, size) ==
    LET Char(i) ==
            LET first == 3 * ((i - 1) \div 4) + 1
                j == ((i - 1) % 4) + 1
            IN  IF first + j - 2 > Len(src) THEN Pad
                ELSE Digit(ByteAt(src, first), ByteAt(src, first + 1), ByteAt(src, first + 2), j)
        text == [i \in 1..4 * Groups(Len(src)) |-> Char(i)]
    IN  IF Len(text) >= size THEN Error ELSE text

-----------------------------------------------------------------------------
(* b64_decode reads a character at a time.  phase is its state, or how far *)
(* it is behind the first Pad; part is target[tarindex], the byte it puts  *)
(* together from two digits.                                               *)

WantPad == 4        \* one byte and one Pad were read
Ended == 5          \* only white space may follow
Wrong == 6

Start == [phase |-> 0, out |-> <<>>, part |-> 0]
Failed == [phase |-> Wrong, out |-> <<>>, part |-> 0]

(* The digit completes a byte, what is left of it begins the next one.     *)
Complete(acc, byte, rest, size) ==
    IF Len(acc.out) + 1 >= size /\ rest # 0 THEN Failed
    ELSE [phase |-> (acc.phase + 1) % 4, out |-> Append(acc.out, byte), part |-> rest]

DigitRead(acc, d, size) ==
    IF Len(acc.out) >= size THEN Failed
    ELSE CASE acc.phase = 0 -> [acc EXCEPT !.phase = 1, !.part = d * 4]
           [] acc.phase = 1 -> Complete(acc, acc.part + d \div 16, (d % 16) * 16, size)
           [] acc.phase = 2 -> Complete(acc, acc.part + d \div 4, (d % 4) * 64, size)
           [] acc.phase = 3 -> Complete(acc, acc.part + d, 0, size)

PadRead_IgnoresBits(acc) ==
    CASE acc.phase = 2 -> [acc EXCEPT !.phase = WantPad]
      [] acc.phase = 3 -> [acc EXCEPT !.phase = Ended]
      [] acc.phase = WantPad -> [acc EXCEPT !.phase = Ended]
      [] OTHER -> Failed

(* One byte is followed by two Pad, two bytes by one; bits of the last     *)
(* digit that belong to no byte must be 0.                                 *)
PadRead(acc) ==
    CASE acc.phase = 2 -> [acc EXCEPT !.phase = WantPad]
      [] acc.phase = 3 /\ acc.part = 0 -> [acc EXCEPT !.phase = Ended]
      [] acc.phase = WantPad /\ acc.part = 0 -> [acc EXCEPT !.phase = Ended]
      [] OTHER -> Failed

Read(acc, ch, size) ==
    IF ch = Space \/ acc.phase = Wrong THEN acc
    ELSE IF ch = Pad THEN PadRead(acc)
    ELSE IF ch \in Digits /\ acc.phase \in 0..3 THEN DigitRead(acc, ch, size)
    ELSE Failed

(* A text may end behind a whole group or behind its padding. *)
Decode(text, size) ==
    LET last == FoldLeft(LAMBDA acc, ch : Read(acc, ch, size), Start, text)
    IN  IF last.phase \in {0, Ended} THEN last.out ELSE Error

-----------------------------------------------------------------------------
(* do_b64_cmd: the buffers are as long as libubox's macros say.            *)

B64_ENCODE_LEN(n) == ((n + 2) \div 3) * 4 + 1
B64_DECODE_LEN(n) == (n \div 4) * 3 + 1

EncodeSize_NoNul(n) == ((n + 2) \div 3) * 4

EncodeSize(n) == B64_ENCODE_LEN(n)

DecodeSize_Groups(n) == (n \div 4) * 3 - 1

DecodeSize(n) == B64_DECODE_LEN(n)

do_b64_encrypt(src) == Encode(src, EncodeSize(Len(src)))

do_b64_decrypt(text) == Decode(text, DecodeSize(Len(text)))
=============================================================================
