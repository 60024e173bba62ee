------------------------------ MODULE AsyncLog ------------------------------
(***************************************************************************)
(* EasyLogger's asynchronous output (elog_async.c) as elink configures it: *)
(* any thread may log; elog_output and elog_raw hold the output lock while *)
(* they put the line into a ring buffer or, for urgent levels, write it;   *)
(* a thread of its own waits on a semaphore, takes bytes out of the ring   *)
(* under the same lock and writes them after releasing it.                 *)
(*                                                                         *)
(* Reading a size and using it are separate steps: that they belong        *)
(* together is what the lock is for.  What elog_port_output prints is kept *)
(* in written; printf is atomic.                                           *)
(***************************************************************************)
EXTENDS Naturals, Sequences

CONSTANTS
    Producers,  \* the threads that log
    BufSize,    \* OUTPUT_BUF_SIZE
    PollSize,   \* ELOG_ASYNC_POLL_GET_LOG_BUF_SIZE
    Byte, Nul,  \* characters, and what log_buf starts with
    Lines,      \* the lines that are logged
    Levels,     \* their levels
    MaxLines,   \* lines a behaviour may log
    PromptInit  \* elog_async_init returns before the new thread first runs

ASSUME AsyncLogAssumption ==
    /\ {"output", "nobody"} \cap Producers = {}
    /\ BufSize \in Nat \ {0}
    /\ PollSize \in Nat \ {0}
    /\ Lines \subseteq Seq(Byte) \ {<<>>}
    /\ Levels \subseteq Nat
    /\ MaxLines \in Nat
    /\ PromptInit \in BOOLEAN

VARIABLES
    log_buf, write_index, read_index, buf_is_full, buf_is_empty,
    init_ok,
    output_notice,  \* the semaphore's value
    lock,           \* who holds the output lock
    main,           \* where the thread that initialises is
    pc,             \* where each logging thread is
    line,           \* ... the line it logs
    level,          \* ... its level
    space,          \* ... async_put_log's local variable
    out,            \* where the output thread is
    used,           \* ... elog_async_get_log's local variable
    poll_get_buf,   \* ... what it took
    logged,         \* lines logged so far
    written         \* what elog_port_output has printed

ring == <<log_buf, write_index, read_index, buf_is_full, buf_is_empty>>
producer == <<pc, line, level, space, logged>>
output == <<out, used, poll_get_buf>>
vars == <<ring, init_ok, output_notice, lock, main, producer, output, written>>

Slots == 0..(BufSize - 1)

(* ELOG_ASYNC_OUTPUT_LVL: levels from DEBUG on are output in the background. *)
OutputLvl == 4

Init ==
    /\ log_buf = [i \in Slots |-> Nul]
    /\ write_index = 0
    /\ read_index = 0
    /\ buf_is_full = FALSE
    /\ buf_is_empty = TRUE
    /\ init_ok = FALSE
    /\ output_notice = 0
    /\ lock = "nobody"
    /\ main = "init"
    /\ pc = [p \in Producers |-> "idle"]
    /\ line = [p \in Producers |-> <<>>]
    /\ level = [p \in Producers |-> OutputLvl]
    /\ space = [p \in Producers |-> 0]
    /\ out = "none"
    /\ used = 0
    /\ poll_get_buf = <<>>
    /\ logged = 0
    /\ written = <<>>

-----------------------------------------------------------------------------
(* The ring. *)

(* elog_async_get_buf_used *)
UsedSize ==
    IF write_index > read_index THEN write_index - read_index
    ELSE IF buf_is_full THEN BufSize
    ELSE IF buf_is_empty THEN 0
    ELSE BufSize - (read_index - write_index)

SpaceSize == BufSize - UsedSize

Forward_LateWrap(i, n) == IF i + n <= BufSize THEN i + n ELSE i + n - BufSize

(* An index n places on, both branches of the two copies. *)
Forward(i, n) == IF i + n < BufSize THEN i + n ELSE i + n - BufSize

(* log_buf after the first n bytes of s were copied in at write_index: one *)
(* memcpy up to the end of the buffer, a second one from its start.        *)
Copied(s, n) ==
    [i \in Slots |->
        IF write_index <= i /\ i < write_index + n THEN s[i - write_index + 1]
        ELSE IF i + BufSize < write_index + n THEN s[i + BufSize - write_index + 1]
        ELSE log_buf[i]]

(* The n bytes from read_index on. *)
Fetched(n) == [k \in 1..n |-> log_buf[Forward(read_index, k - 1)]]

-----------------------------------------------------------------------------
(* elog_init and elog_start, in the thread that starts the program. *)

CreateThread ==
    /\ main = "init"
    /\ main' = "created"
    /\ out' = "assert"
    /\ UNCHANGED <<ring, init_ok, output_notice, lock, producer, used, poll_get_buf, written>>

InitDone ==
    /\ main = "created"
    /\ main' = "started"
    /\ init_ok' = TRUE
    /\ UNCHANGED <<ring, output_notice, lock, producer, output, written>>

-----------------------------------------------------------------------------
(* elog_output and elog_raw, in any thread once elog_start has returned.   *)

Lockable_Always == TRUE

Lockable == lock = "nobody"

OutputLock(p) ==
    /\ pc[p] = "idle"
    /\ main = "started"
    /\ logged < MaxLines
    /\ Lockable
    /\ lock' = p
    /\ logged' = logged + 1
    /\ \E l \in Lines, v \in Levels :
          /\ line' = [line EXCEPT ![p] = l]
          /\ level' = [level EXCEPT ![p] = v]
    /\ pc' = [pc EXCEPT ![p] = "output"]
    /\ UNCHANGED <<ring, init_ok, output_notice, main, space, output, written>>

(* An urgent line is printed at once, whatever is still in the ring. *)
OutputDirect(p) ==
    /\ pc[p] = "output"
    /\ level[p] < OutputLvl
    /\ written' = written \o line[p]
    /\ pc' = [pc EXCEPT ![p] = "unlock"]
    /\ UNCHANGED <<ring, init_ok, output_notice, lock, main, line, level, space, logged, output>>

MeasureSpace(p) ==
    /\ pc[p] = "output"
    /\ level[p] >= OutputLvl
    /\ space' = [space EXCEPT ![p] = SpaceSize]
    /\ pc' = [pc EXCEPT ![p] = "put"]
    /\ UNCHANGED <<ring, init_ok, output_notice, lock, main, line, level, logged, output, written>>

Put_FullIfCut(p) ==
    LET cut  == space[p] < Len(line[p])
        size == IF cut THEN space[p] ELSE Len(line[p])
    IN  /\ pc[p] = "put"
        /\ space[p] # 0
        /\ buf_is_full' = (buf_is_full \/ cut)
        /\ log_buf' = Copied(line[p], size)
        /\ write_index' = Forward(write_index, size)
        /\ buf_is_empty' = FALSE
        /\ pc' = [pc EXCEPT ![p] = "notice"]
        /\ UNCHANGED <<read_index, init_ok, output_notice, lock, main, line, level, space,
                       logged, output, written>>

(* async_put_log with room for at least one byte: the rest is dropped. *)
Put(p) ==
    LET fills == space[p] <= Len(line[p])
        size  == IF fills THEN space[p] ELSE Len(line[p])
    IN  /\ pc[p] = "put"
        /\ space[p] # 0
        /\ buf_is_full' = (buf_is_full \/ fills)
        /\ log_buf' = Copied(line[p], size)
        /\ write_index' = Forward(write_index, size)
        /\ buf_is_empty' = FALSE
        /\ pc' = [pc EXCEPT ![p] = "notice"]
        /\ UNCHANGED <<read_index, init_ok, output_notice, lock, main, line, level, space,
                       logged, output, written>>

(* async_put_log without room: the line is dropped and nobody is told. *)
PutNothing(p) ==
    /\ pc[p] = "put"
    /\ space[p] = 0
    /\ pc' = [pc EXCEPT ![p] = "unlock"]
    /\ UNCHANGED <<ring, init_ok, output_notice, lock, main, line, level, space, logged, output, written>>

OutputNotice(p) ==
    /\ pc[p] = "notice"
    /\ output_notice' = output_notice + 1
    /\ pc' = [pc EXCEPT ![p] = "unlock"]
    /\ UNCHANGED <<ring, init_ok, lock, main, line, level, space, logged, output, written>>

OutputUnlock(p) ==
    /\ pc[p] = "unlock"
    /\ lock' = "nobody"
    /\ pc' = [pc EXCEPT ![p] = "idle"]
    /\ line' = [line EXCEPT ![p] = <<>>]
    /\ level' = [level EXCEPT ![p] = OutputLvl]
    /\ space' = [space EXCEPT ![p] = 0]
    /\ UNCHANGED <<ring, init_ok, output_notice, main, logged, output, written>>

Log(p) == MeasureSpace(p) \/ OutputDirect(p) \/ Put(p) \/ PutNothing(p) \/ OutputNotice(p) \/ OutputUnlock(p)

-----------------------------------------------------------------------------
(* async_output, the output thread. *)

(* ELOG_ASSERT(init_ok): a failed assertion loops for ever (elog.h:57-66). *)
AssertInit ==
    /\ out = "assert"
    /\ PromptInit => init_ok
    /\ out' = IF init_ok THEN "wait" ELSE "stuck"
    /\ UNCHANGED <<ring, init_ok, output_notice, lock, main, producer, used, poll_get_buf, written>>

AwaitNotice ==
    /\ out = "wait"
    /\ output_notice > 0
    /\ output_notice' = output_notice - 1
    /\ out' = "get"
    /\ UNCHANGED <<ring, init_ok, lock, main, producer, used, poll_get_buf, written>>

GetLock ==
    /\ out = "get"
    /\ Lockable
    /\ lock' = "output"
    /\ out' = "locked"
    /\ UNCHANGED <<ring, init_ok, output_notice, main, producer, used, poll_get_buf, written>>

MeasureUsed ==
    /\ out = "locked"
    /\ used' = UsedSize
    /\ out' = "take"
    /\ UNCHANGED <<ring, init_ok, output_notice, lock, main, producer, poll_get_buf, written>>

TakesAll == used <= PollSize

GetLog ==
    LET size == IF TakesAll THEN used ELSE PollSize
    IN  /\ out = "take"
        /\ used # 0
        /\ buf_is_empty' = (buf_is_empty \/ TakesAll)
        /\ poll_get_buf' = Fetched(size)
        /\ read_index' = Forward(read_index, size)
        /\ buf_is_full' = FALSE
        /\ out' = "release"
        /\ UNCHANGED <<log_buf, write_index, init_ok, output_notice, lock, main, producer, used, written>>

GetNothing ==
    /\ out = "take"
    /\ used = 0
    /\ out' = "release"
    /\ UNCHANGED <<ring, init_ok, output_notice, lock, main, producer, used, poll_get_buf, written>>

GetUnlock ==
    /\ out = "release"
    /\ lock' = "nobody"
    /\ used' = 0
    /\ out' = IF poll_get_buf = <<>> THEN "wait" ELSE "write"
    /\ UNCHANGED <<ring, init_ok, output_notice, main, producer, poll_get_buf, written>>

Polled_Once == "wait"

(* After writing the thread polls again, without a notice. *)
Polled == "get"

(* elog_port_output, without the lock. *)
WriteLog ==
    /\ out = "write"
    /\ written' = written \o poll_get_buf
    /\ poll_get_buf' = <<>>
    /\ out' = Polled
    /\ UNCHANGED <<ring, init_ok, output_notice, lock, main, producer, used>>

AsyncOutput ==
    \/ AssertInit \/ AwaitNotice \/ GetLock \/ MeasureUsed
    \/ GetLog \/ GetNothing \/ GetUnlock \/ WriteLog

-----------------------------------------------------------------------------
Next ==
    \/ CreateThread \/ InitDone
    \/ \E p \in Producers : OutputLock(p) \/ Log(p)
    \/ AsyncOutput

Spec == Init /\ [][Next]_vars

(* A thread that is logging finishes, and the output thread is scheduled;  *)
(* no thread has to log.                                                   *)
Fairness ==
    /\ WF_vars(CreateThread \/ InitDone)
    /\ \A p \in Producers : WF_vars(Log(p))
    /\ WF_vars(AsyncOutput)

FairSpec == Spec /\ Fairness

-----------------------------------------------------------------------------
(* Properties. *)

ProducerStates == {"idle", "output", "put", "notice", "unlock"}
OutputStates == {"none", "assert", "stuck", "wait", "get", "locked", "take", "release", "write"}

(* Every variable has its type; the indices stay inside log_buf.           *)
TypeOK ==
    /\ log_buf \in [Slots -> Byte \union {Nul}]
    /\ write_index \in Slots
    /\ read_index \in Slots
    /\ buf_is_full \in BOOLEAN
    /\ buf_is_empty \in BOOLEAN
    /\ init_ok \in BOOLEAN
    /\ output_notice \in Nat
    /\ lock \in Producers \union {"output", "nobody"}
    /\ main \in {"init", "created", "started"}
    /\ pc \in [Producers -> ProducerStates]
    /\ line \in [Producers -> Lines \union {<<>>}]
    /\ level \in [Producers -> Levels \union {OutputLvl}]
    /\ space \in [Producers -> 0..BufSize]
    /\ out \in OutputStates
    /\ used \in 0..BufSize
    /\ poll_get_buf \in Seq(Byte)
    /\ logged \in Nat
    /\ written \in Seq(Byte)

(* What the ring holds, oldest byte first. *)
Contents == [k \in 1..UsedSize |-> log_buf[Forward(read_index, k - 1)]]

(* Equal indices mean empty or full, and the two flags say which: they are *)
(* never both up, and neither is up while the indices differ.  The flags   *)
(* are set and cleared at four places of elog_async.c under four different *)
(* conditions (142, 155, 235, 248).                                        *)
FlagsAgree ==
    /\ ~(buf_is_full /\ buf_is_empty)
    /\ (write_index = read_index) <=> (buf_is_full \/ buf_is_empty)

(* The output thread never sleeps on the semaphore while the ring holds    *)
(* bytes nobody will wake it for: sem_post comes after the line is in the  *)
(* ring, and the thread empties the ring before it waits again.            *)
NoLostWakeup ==
    (out = "wait" /\ UsedSize > 0) =>
        output_notice > 0 \/ \E p \in Producers : pc[p] = "notice"

(* The ring, the lock and the output thread together are a bounded byte    *)
(* queue: accepted bytes come out once, unchanged and in order, across the *)
(* wrap of either index, and a line loses its tail only to a full buffer.  *)
Queue == INSTANCE LogQueue
             WITH queue <- Contents, hand <- poll_get_buf, written <- written

IsBoundedQueue == Queue!QueueSpec

(* Whatever was accepted is written in the end: again and again the ring   *)
(* and the hands of the output thread are empty.                           *)
Drains == []<>(UsedSize = 0 /\ poll_get_buf = <<>>)

(* elog_async.c:286, ELOG_ASSERT(init_ok): the output thread starts only   *)
(* once elog_async_init has set init_ok.                                   *)
InitAsserted == out # "stuck"
=============================================================================
