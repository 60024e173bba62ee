------------------------------ MODULE LogQueue ------------------------------
(***************************************************************************)
(* What the asynchronous logger promises to the threads that log: a        *)
(* bounded queue of bytes.  A line of a level that is output in the        *)
(* background is accepted at once, cut to what still fits; one writer      *)
(* takes the bytes out again in order, at most PollSize at a time, and     *)
(* writes them.  A line of a more urgent level is written straight away,   *)
(* ahead of everything still queued.                                       *)
(***************************************************************************)
EXTENDS Naturals, Sequences

CONSTANTS
    BufSize,    \* bytes the queue can hold
    PollSize,   \* bytes the writer takes at a time
    Lines       \* the log lines, non-empty sequences of bytes

VARIABLES
    queue,      \* accepted, not taken yet
    hand,       \* taken, not written yet
    written     \* the output

queueVars == <<queue, hand, written>>

AtMost(m, n) == IF m <= n THEN m ELSE n

Accept(line) ==
    /\ queue' = queue \o SubSeq(line, 1, AtMost(BufSize - Len(queue), Len(line)))
    /\ UNCHANGED <<hand, written>>

Direct(line) ==
    /\ written' = written \o line
    /\ UNCHANGED <<queue, hand>>

TakeSome ==
    LET n == AtMost(PollSize, Len(queue))
    IN  /\ queue # <<>>
        /\ hand = <<>>
        /\ hand' = SubSeq(queue, 1, n)
        /\ queue' = SubSeq(queue, n + 1, Len(queue))
        /\ UNCHANGED written

WriteOut ==
    /\ hand # <<>>
    /\ written' = written \o hand
    /\ hand' = <<>>
    /\ UNCHANGED queue

QueueInit == queue = <<>> /\ hand = <<>> /\ written = <<>>

QueueNext ==
    \/ \E line \in Lines : Accept(line) \/ Direct(line)
    \/ TakeSome
    \/ WriteOut

QueueSpec == QueueInit /\ [][QueueNext]_queueVars
=============================================================================
