------------------------------- MODULE LogLine -------------------------------
(***************************************************************************)
(* One line of EasyLogger (elog.c): what elog_output puts together in the  *)
(* buffer that all threads share, under the output lock that AsyncLog      *)
(* models, and gives to elog_async_output.  A text is a sequence of        *)
(* characters.  The texts the port supplies (time, process, thread) are    *)
(* parameters of the call like the rest.                                   *)
(***************************************************************************)
EXTENDS Integers, Sequences, SequencesExt

CONSTANTS
    LineBuf,            \* ELOG_LINE_BUF_SIZE
    TagMax,             \* ELOG_FILTER_TAG_MAX_LEN
    NumMax,             \* ELOG_LINE_NUM_MAX_LEN
    CsiStart, CsiEnd,   \* what begins and ends coloured text
    Levels,             \* 0..n
    Colour, LevelInfo,  \* each level's colour and name
    Nul                 \* the character a C string ends in

Newline == <<"\n">>
Blank == " "
Dropped == <<Nul>>

Formats == {"LVL", "TAG", "TIME", "P_INFO", "T_INFO", "DIR", "FUNC", "LINE"}

Opt(condition, text) == IF condition THEN text ELSE <<>>

AtMost(n, m) == IF n < m THEN n ELSE m

Has(text, part) ==
    \E i \in 0..(Len(text) - Len(part)) : SubSeq(text, i + 1, i + Len(part)) = part

-----------------------------------------------------------------------------
(* elog_strcpy: as much of a text as the buffer has room for. *)
Copy(buf, text) == buf \o SubSeq(text, 1, AtMost(Len(text), LineBuf - Len(buf)))

Filling(tag) ==
    Opt(Len(tag) <= TagMax \div 2, [i \in 1..(TagMax \div 2 - Len(tag)) |-> Blank])

TagInfo_NoBlank(tag) == <<tag, Filling(tag)>>

(* A short tag is filled up to half the length a tag may have. *)
TagInfo(tag) == <<tag, Filling(tag), <<Blank>>>>

OriginInfo(c) ==
    LET time == "TIME" \in c.formats
        process == "P_INFO" \in c.formats
        thread == "T_INFO" \in c.formats
    IN  <<<<"[">>,
          Opt(time, c.time), Opt(time /\ (process \/ thread), <<Blank>>),
          Opt(process, c.process), Opt(process /\ thread, <<Blank>>),
          Opt(thread, c.thread), <<"]", Blank>>>>

(* snprintf writes at most NumMax - 1 digits. *)
PlaceInfo(c) ==
    LET file == "DIR" \in c.formats
        func == "FUNC" \in c.formats
        line == "LINE" \in c.formats
    IN  <<<<"(">>,
          Opt(file, c.file), Opt(file /\ func, <<Blank>>), Opt(file /\ ~func /\ line, <<":">>),
          Opt(func, c.func), Opt(func /\ line, <<":">>),
          Opt(line, SubSeq(c.line, 1, AtMost(Len(c.line), NumMax - 1))), <<")">>>>

(* All that goes before the message. *)
Pieces(c) ==
    <<Opt(c.colour, CsiStart), Opt(c.colour, Colour[c.level]),
      Opt("LVL" \in c.formats, LevelInfo[c.level])>>
    \o Opt("TAG" \in c.formats, TagInfo(c.tag))
    \o Opt(c.formats \cap {"TIME", "P_INFO", "T_INFO"} # {}, OriginInfo(c))
    \o Opt(c.formats \cap {"DIR", "FUNC", "LINE"} # {}, PlaceInfo(c))

Header(c) == FoldLeft(Copy, <<>>, Pieces(c))

(* vsnprintf into what is left: the last place is the terminator's. *)
Printed(buf, text) ==
    IF Len(buf) = LineBuf THEN buf
    ELSE buf \o SubSeq(text, 1, AtMost(Len(text), LineBuf - Len(buf) - 1)) \o <<Nul>>

(* The length vsnprintf would have liked, at most the buffer's. *)
LogLen(buf, text) == AtMost(Len(buf) + Len(text), LineBuf)

Reserved_Newline(n) == AtMost(n, LineBuf - Len(Newline))

(* Room is kept for what ends the line, whether colours are on or not. *)
Reserved(n) == AtMost(n, LineBuf - Len(CsiEnd) - Len(Newline))

Body(c) ==
    SubSeq(Printed(Header(c), c.message), 1, Reserved(LogLen(Header(c), c.message)))

Passes(filter, c) == c.level <= filter.level /\ Has(c.tag, filter.tag)

elog_output(filter, c) ==
    IF ~Passes(filter, c) \/ ~Has(Body(c), filter.keyword) THEN Dropped
    ELSE Copy(Copy(Body(c), Opt(c.colour, CsiEnd)), Newline)

(* elog_raw: no header, nothing is reserved. *)
elog_raw(message) == SubSeq(Printed(<<>>, message), 1, LogLen(<<>>, message))

-----------------------------------------------------------------------------
(* Reading a coloured line back. *)

elog_find_lvl(log) ==
    LET is(i) == SubSeq(log, Len(CsiStart) + 1, Len(CsiStart) + Len(Colour[i])) = Colour[i]
    IN  IF \E i \in Levels : is(i)
        THEN CHOOSE i \in Levels : is(i) /\ \A j \in Levels : j < i => ~is(j)
        ELSE -1

elog_find_tag(log, lvl) ==
    LET from == Len(CsiStart) + Len(Colour[lvl]) + Len(LevelInfo[lvl])
        end  == SelectInSubSeq(log, from + 1, AtMost(from + TagMax, Len(log)),
                               LAMBDA ch : ch = Blank)
    IN  IF end = 0 THEN Dropped ELSE SubSeq(log, from + 1, end - 1)
=============================================================================
