------------------------------- MODULE MCTexts -------------------------------
(***************************************************************************)
(* The parts of elink that turn one text into another: base64 for the DH   *)
(* numbers (Base64), padding, encryption and header (Seal), the line of a  *)
(* log call (LogLine), the handlers a message calls (Dispatch).  Each      *)
(* initial state is an input, its one step what the code makes of it.      *)
(* Names, keys and characters are few, the lengths go past every boundary. *)
(***************************************************************************)
EXTENDS Base64

CONSTANTS
    SomeBytes, MaxBytes,    \* numbers to write
    SomeChars, MaxChars,    \* base64 texts to read
    MaxMessage,             \* length of a message to send
    BufLen,                 \* what recv_buf has room for
    MaxNames,               \* names in one get_status
    TagLengths

ASSUME TextsAssumption ==
    /\ SomeBytes \subseteq Bytes /\ SomeChars \subseteq Chars
    /\ MaxBytes \in Nat /\ MaxChars \in Nat /\ MaxMessage \in Nat /\ BufLen \in Nat
    /\ MaxNames \in Nat /\ TagLengths \subseteq Nat

-----------------------------------------------------------------------------
NoKey == "no key"
Keys == {NoKey, "key", "other key"}
Flag == -1
Overrun == <<Flag>>
Block == 16
HeaderLen == 8

S == INSTANCE Seal

D == INSTANCE Dispatch

LineBuf == 22
TagMax == 6
NumMax == 3
Levels == 0..1
CsiStart == <<"^", "[">>
CsiEnd == <<"^", "m">>
Colour == [l \in Levels |-> IF l = 0 THEN <<"3", "1">> ELSE <<"3", "2">>]
LevelInfo == [l \in Levels |-> IF l = 0 THEN <<"A", "/">> ELSE <<"E", "/">>]
Nul == "0"

L == INSTANCE LogLine

VARIABLES stage, input, output
vars == <<stage, input, output>>

-----------------------------------------------------------------------------
(* Inputs. *)

Rep(n, ch) == [i \in 1..n |-> ch]

Sendings ==
    [sender : Keys, receiver : Keys, message : {[i \in 1..n |-> i] : n \in 0..MaxMessage}]

Request(types, names, words) == [type : types, names : names, words : words]

Requests ==
    Request({"get_status"},
            BoundedSeq({"wifi", "wifiswitch", "load", "uploadspeed", "other"}, MaxNames), {{}})
    \union
    Request({"cfg"}, {<<>>},
            SUBSET {"radio", "wifiswitch", "upgrade", "upgrade_client", "reboot", "reset", "other"})
    \union
    Request({"keyngack", "dh", "ack", "keepalive", "status", "other"}, {<<>>}, {{}})

Filters ==
    {f \in [level : Levels, tag : {<<>>, <<"t", "t">>}, keyword : {<<>>, <<"x">>}] :
        f.level = 0 => f.tag = <<>> /\ f.keyword = <<>>}

(* Level and tag or not, with something else, with all or with none of it. *)
Shown ==
    {f \union g : f \in SUBSET {"LVL", "TAG"},
                 g \in {{}, {"TIME"}, {"P_INFO", "T_INFO"}, {"DIR", "LINE"}, {"FUNC"}, L!Formats}}

Headings ==
    [level : Levels, tag : {Rep(n, "t") : n \in TagLengths}, colour : BOOLEAN,
     formats : Shown, time : {<<"T">>}, process : {<<"P">>}, thread : {<<"I">>},
     file : {<<"f">>}, func : {<<"g">>}, line : {<<"1", "2", "3">>}, message : {<<>>}]

(* No message, and messages that end about where the buffer does. *)
Messages(c) ==
    LET room == LineBuf - Len(L!Header(c))
    IN  {Rep(n, "x") : n \in {0} \union ((room - 5)..(room - 3) \cap Nat) \union (room - 1)..(room + 1)}

Calls ==
    UNION {{[c EXCEPT !.message = msg] : msg \in Messages(c)} : c \in Headings}

Init ==
    /\ output = <<>>
    /\ \/ stage = "number" /\ input \in BoundedSeq(SomeBytes, MaxBytes)
       \/ stage = "text" /\ input \in BoundedSeq(SomeChars, MaxChars)
       \/ stage = "send" /\ input \in Sendings
       \/ stage = "request" /\ input \in Requests
       \/ stage = "log" /\ input \in [filter : Filters, call : Calls]
       \/ stage = "raw" /\ input \in {Rep(n, "x") : n \in 0..(LineBuf + 2)}

-----------------------------------------------------------------------------
Turn(from, to, result) ==
    /\ stage = from
    /\ stage' = to
    /\ output' = result
    /\ UNCHANGED input

WriteNumber == Turn("number", "written", do_b64_encrypt(input))

ReadText == Turn("text", "read", do_b64_decrypt(input))

SendMessage == Turn("send", "sent", S!msg_sent(input.sender, input.message))

HandleMessage ==
    Turn("request", "handled", D!handler_event(input.type, input.names, input.words))

LogCall == Turn("log", "logged", L!elog_output(input.filter, input.call))

LogRaw == Turn("raw", "logged raw", L!elog_raw(input))

Next == WriteNumber \/ ReadText \/ SendMessage \/ HandleMessage \/ LogCall \/ LogRaw

Spec == Init /\ [][Next]_vars

-----------------------------------------------------------------------------
(* A text without its white space. *)
Solid(t) == FoldLeft(LAMBDA acc, ch : IF ch = Space THEN acc ELSE Append(acc, ch), <<>>, t)

(* des.c:7-28, dhkey.c:69-81, handler.c:39: a number written by            *)
(* do_b64_cmd fits its buffer, and reads back as it was.                   *)
RoundTrip ==
    stage = "written" => output # Error /\ do_b64_decrypt(output) = input

(* base64.c:303-308: a text that can be read is, but for its white space,  *)
(* what would be written for the bytes read: none has a second spelling.   *)
Canonical ==
    stage = "read" /\ output # Error => do_b64_encrypt(output) = Solid(input)

(* The buffer of B64_DECODE_LEN is never what makes a text unreadable.     *)
RoomEnough ==
    stage = "read" => output = Decode(input, Len(input) + 1)

(* msg.c:36-77, distribution.c:222-247: between two sides that have the    *)
(* same key, or both none, the text that is parsed is the text that was    *)
(* sent: not cut off by the padding, not followed by what the buffer held  *)
(* before; encryption adds less than a block.  (A text shorter than the    *)
(* header is not safe from the rest of it, and nothing checks that one     *)
(* fits recv_buf: elink sends no shorter one, and no longer one is claimed *)
(* to come through.)                                                       *)
SealedReadsBack ==
    stage = "sent" /\ Len(input.message) >= HeaderLen =>
        /\ input.receiver = input.sender /\ Len(output.body) <= BufLen =>
              S!data_distribution(input.receiver, output) = input.message
        /\ S!check_msg_header(output.header) = Len(output.body)
        /\ Len(output.body) - Len(input.message) \in 0..(Block - 1)

(* The names of a set, in their order. *)
Only(names, wanted) ==
    FoldLeft(LAMBDA acc, name : IF name \in wanted THEN Append(acc, name) ELSE acc, <<>>, names)

(* distribution.c:67-203: a get_status calls the handlers of the names it  *)
(* asks for, all of those and no other, in its order, and is answered with *)
(* what they said and nothing else.  A cfg reaches one entry whose name is *)
(* in it, and does nothing only when there is none; it crashes only when   *)
(* it names an entry without a handler.  The other types never crash.      *)
Dispatched ==
    stage = "handled" =>
        LET cfg == {e \in Range(D!elink_features_cfg) : e.type \in input.words}
            known == {e.type : e \in Range(D!elink_features_get_status)}
            heard == Only(input.names, {name \in known : D!Answer(name) # D!Null})
        IN  CASE input.type = "get_status" ->
                    /\ output.called = Only(input.names, known)
                    /\ output.reply = [i \in DOMAIN heard |-> D!Answer(heard[i])]
                    /\ ~output.crash
              [] input.type = "cfg" ->
                    /\ output.crash => \E e \in cfg : e.handler = D!Null
                    /\ Len(output.called) <= 1
                    /\ Range(output.called) \subseteq {e.handler : e \in cfg}
                    /\ cfg = {} <=> ~output.crash /\ output.called = <<>>
              [] OTHER ->
                    /\ ~output.crash
                    /\ Range(output.called) =
                          {e.handler : e \in {e \in Range(D!elink_features) : e.type = input.type}} \ {D!Null}

Whole(c) == FlattenSeq(L!Pieces(c)) \o c.message

Ending(c) == (IF c.colour THEN CsiEnd ELSE <<>>) \o L!Newline

Cut(line, c) == SubSeq(line, 1, Len(line) - Len(Ending(c)))

(* elog.c:419-534: however much there is to say, a line ends with what ends *)
(* its colour and the newline, is no longer than the buffer and holds no   *)
(* NUL; what comes before is the beginning of the full text, and all of it *)
(* if that and the ending fit.  A raw line is written as it is.            *)
LineWellFormed ==
    /\ stage = "logged" /\ output # L!Dropped =>
          LET c == input.call
          IN  /\ Len(output) <= LineBuf
              /\ Nul \notin Range(output)
              /\ IsSuffix(Ending(c), output)
              /\ IsPrefix(Cut(output, c), Whole(c))
              /\ Len(Whole(c)) + Len(CsiEnd) + Len(L!Newline) <= LineBuf =>
                    Cut(output, c) = Whole(c)
    /\ stage = "logged raw" /\ Len(input) < LineBuf => output = input

(* elog.c:601-667: from a coloured line that shows level and tag, both are *)
(* found, unless the tag is as long as the search for its end, or the line *)
(* has no room for it.                                                     *)
LevelAndTagFound ==
    stage = "logged" /\ output # L!Dropped =>
        LET c == input.call
            lvl == L!elog_find_lvl(output)
            front == Len(CsiStart) + Len(Colour[c.level]) + Len(LevelInfo[c.level])
        IN  c.colour /\ {"LVL", "TAG"} \subseteq c.formats /\ Len(c.tag) < TagMax =>
                /\ lvl = c.level
                /\ front + Len(c.tag) + 1 <= LineBuf - Len(Ending(c)) =>
                      L!elog_find_tag(output, lvl) = c.tag
=============================================================================
