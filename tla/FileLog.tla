------------------------------- MODULE FileLog -------------------------------
(***************************************************************************)
(* EasyLogger's log file (plugins/file) as elink configures it: records    *)
(* are appended to xxx.log; a file above the size limit is renamed to      *)
(* xxx.log.0, the older ones move on by one, the oldest is overwritten.    *)
(* Threads of several processes write, one at a time, under a System V     *)
(* semaphore whose operations the kernel undoes when a process dies.       *)
(*                                                                         *)
(* A record is the number of its write and has size 1.  Position 0 of the  *)
(* directory is xxx.log, position n+1 is xxx.log.n.                        *)
(***************************************************************************)
EXTENDS Integers, Sequences

CONSTANTS
    Processes, Writers,
    ProcessOf,      \* the process each writing thread belongs to
    MaxSize,        \* ELOG_FILE_MAX_SIZE
    MaxRotate,      \* ELOG_FILE_MAX_ROTATE
    Inodes,         \* names for files, whatever their place in the directory
    NoFile,
    MaxCalls,       \* calls of elog_file_write a behaviour may make
    MaxCrashes,     \* processes that may die
    InitSafe,       \* who creates the semaphore initialises it at once and does not die
    FopenFails      \* fopen may fail

ASSUME FileLogAssumption ==
    /\ ProcessOf \in [Writers -> Processes]
    /\ MaxSize \in Nat
    /\ MaxRotate \in Nat
    /\ NoFile \notin Inodes
    /\ MaxCalls \in Nat
    /\ MaxCrashes \in Nat
    /\ InitSafe \in BOOLEAN
    /\ FopenFails \in BOOLEAN

VARIABLES
    sem_exists,     \* semget has created the semaphore
    sem,            \* its value
    sem_otime,      \* it was operated on before
    proc,           \* how far each process is
    semid,          \* each process: has a semaphore to lock with
    fp,             \* ... the file it writes to
    fd,             \* ... the file whose size it looks at
    pc, n,          \* each writer: where it is, and its loop variable
    dir, data,      \* the directory, and what each file holds
    count,          \* records written so far
    calls, crashes

semVars == <<sem_exists, sem, sem_otime>>
procVars == <<proc, semid, fp, fd>>
disk == <<dir, data, count>>
bounds == <<calls, crashes>>
vars == <<semVars, procVars, pc, n, disk, bounds>>

Positions == 0..MaxRotate

Init ==
    /\ sem_exists = FALSE /\ sem = 0 /\ sem_otime = FALSE
    /\ proc = [p \in Processes |-> "down"]
    /\ semid = [p \in Processes |-> FALSE]
    /\ fp = [p \in Processes |-> NoFile]
    /\ fd = [p \in Processes |-> NoFile]
    /\ pc = [w \in Writers |-> "idle"]
    /\ n = [w \in Writers |-> 0]
    /\ dir = [i \in Positions |-> NoFile]
    /\ data = [f \in Inodes |-> <<>>]
    /\ count = 0
    /\ calls = 0 /\ crashes = 0

(* A file nobody can reach is gone: its inode may be used again. *)
Unused == {f \in Inodes : (\A i \in Positions : dir[i] # f) /\ (\A p \in Processes : fp[p] # f)}

-----------------------------------------------------------------------------
(* elog_file_init: lock_init and elog_file_config. *)

Boot(p) ==
    /\ proc[p] = "down"
    /\ proc' = [proc EXCEPT ![p] = "semget"]
    /\ UNCHANGED <<semVars, semid, fp, fd, pc, n, disk, bounds>>

SemCreate(p) ==
    /\ proc[p] = "semget"
    /\ ~sem_exists
    /\ sem_exists' = TRUE
    /\ sem' = 0
    /\ sem_otime' = FALSE
    /\ proc' = [proc EXCEPT ![p] = "setval"]
    /\ UNCHANGED <<semid, fp, fd, pc, n, disk, bounds>>

SemSetVal(p) ==
    /\ proc[p] = "setval"
    /\ sem' = 0
    /\ proc' = [proc EXCEPT ![p] = "up"]
    /\ UNCHANGED <<sem_exists, sem_otime, semid, fp, fd, pc, n, disk, bounds>>

(* The first semop both frees the lock and shows that it is initialised. *)
SemUp(p) ==
    /\ proc[p] = "up"
    /\ sem' = sem + 1
    /\ sem_otime' = TRUE
    /\ semid' = [semid EXCEPT ![p] = TRUE]
    /\ proc' = [proc EXCEPT ![p] = "config"]
    /\ UNCHANGED <<sem_exists, fp, fd, pc, n, disk, bounds>>

SemExists_Initialises(p) ==
    /\ proc[p] = "semget"
    /\ sem_exists
    /\ proc' = [proc EXCEPT ![p] = "setval"]
    /\ UNCHANGED <<semVars, semid, fp, fd, pc, n, disk, bounds>>

(* IPC_EXCL: who does not create the semaphore leaves its value alone. *)
SemExists(p) ==
    /\ proc[p] = "semget"
    /\ sem_exists
    /\ proc' = [proc EXCEPT ![p] = "open"]
    /\ UNCHANGED <<semVars, semid, fp, fd, pc, n, disk, bounds>>

LockOpen(p) ==
    /\ proc[p] = "open"
    /\ sem_otime
    /\ semid' = [semid EXCEPT ![p] = TRUE]
    /\ proc' = [proc EXCEPT ![p] = "config"]
    /\ UNCHANGED <<semVars, fp, fd, pc, n, disk, bounds>>

(* Ten looks, 10 ms apart, and sem_otime is still 0: run without a lock. *)
LockOpenFails(p) ==
    /\ proc[p] = "open"
    /\ ~sem_otime
    /\ ~InitSafe
    /\ proc' = [proc EXCEPT ![p] = "config"]
    /\ UNCHANGED <<semVars, semid, fp, fd, pc, n, disk, bounds>>

Opened_OldStream(p, f) ==
    /\ f = dir[0] \/ (dir[0] = NoFile /\ f \in Unused)
    /\ fp' = [fp EXCEPT ![p] = IF @ = NoFile THEN f ELSE @]
    /\ fd' = [fd EXCEPT ![p] = IF @ = NoFile THEN f ELSE @]
    /\ dir' = [dir EXCEPT ![0] = f]
    /\ data' = IF f = dir[0] THEN data ELSE [data EXCEPT ![f] = <<>>]

(* fopen(name, "a+") opens xxx.log, or creates it. *)
Opened(p, f) ==
    /\ f = dir[0] \/ (dir[0] = NoFile /\ f \in Unused)
    /\ fp' = [fp EXCEPT ![p] = f]
    /\ fd' = [fd EXCEPT ![p] = f]
    /\ dir' = [dir EXCEPT ![0] = f]
    /\ data' = IF f = dir[0] THEN data ELSE [data EXCEPT ![f] = <<>>]

(* elog_file_config takes the lock, opens the file and releases it. *)
Config(p) ==
    /\ proc[p] = "config"
    /\ semid[p] => sem > 0
    /\ \/ \E f \in Inodes : Opened(p, f)
       \/ FopenFails /\ UNCHANGED <<fp, fd, dir, data>>
    /\ proc' = [proc EXCEPT ![p] = "run"]
    /\ UNCHANGED <<semVars, semid, pc, n, count, bounds>>

-----------------------------------------------------------------------------
(* elog_file_write, in any thread of a running process. *)

Call(w) ==
    /\ pc[w] = "idle"
    /\ proc[ProcessOf[w]] = "run"
    /\ calls < MaxCalls
    /\ calls' = calls + 1
    /\ pc' = [pc EXCEPT ![w] = "wait"]
    /\ UNCHANGED <<semVars, procVars, n, disk, crashes>>

Lock(w) ==
    /\ pc[w] = "wait"
    /\ IF semid[ProcessOf[w]] THEN sem > 0 /\ sem' = sem - 1 ELSE sem' = sem
    /\ pc' = [pc EXCEPT ![w] = "fstat"]
    /\ UNCHANGED <<sem_exists, sem_otime, procVars, n, disk, bounds>>

(* fstat fails on a bad descriptor and leaves the size at 0. *)
TooBig(p) == fd[p] # NoFile /\ Len(data[fd[p]]) > MaxSize

Fstat(w) ==
    LET full == TooBig(ProcessOf[w])
    IN  /\ pc[w] = "fstat"
        /\ pc' = [pc EXCEPT ![w] = IF ~full THEN "append"
                                   ELSE IF MaxRotate = 0 THEN "unlock" ELSE "rename"]
        /\ n' = [n EXCEPT ![w] = IF full /\ MaxRotate > 0 THEN MaxRotate - 1 ELSE 0]
        /\ UNCHANGED <<semVars, procVars, disk, bounds>>

RenameAt(w, i) ==
    /\ pc[w] = "rename"
    /\ dir' = IF dir[i] = NoFile THEN dir
              ELSE [dir EXCEPT ![i + 1] = dir[i], ![i] = NoFile]
    /\ pc' = [pc EXCEPT ![w] = IF n[w] = 0 THEN "reopen" ELSE "rename"]
    /\ n' = [n EXCEPT ![w] = IF n[w] = 0 THEN 0 ELSE n[w] - 1]
    /\ UNCHANGED <<semVars, procVars, data, count, bounds>>

Rename_Upwards(w) == RenameAt(w, MaxRotate - 1 - n[w])

(* rename(xxx.log.n-1, xxx.log.n), which fails if there is no such file.  *)
(* The loop goes down, so that each name is free when the next one moves. *)
Rename(w) == RenameAt(w, n[w])

Reopen(w) ==
    /\ pc[w] = "reopen"
    /\ \E f \in Inodes : Opened(ProcessOf[w], f)
    /\ pc' = [pc EXCEPT ![w] = "append"]
    /\ UNCHANGED <<semVars, proc, semid, n, count, bounds>>

(* The record is dropped; the old file stays open but its size is no longer seen. *)
ReopenFails(w) ==
    /\ pc[w] = "reopen"
    /\ FopenFails
    /\ fd' = [fd EXCEPT ![ProcessOf[w]] = NoFile]
    /\ pc' = [pc EXCEPT ![w] = "unlock"]
    /\ UNCHANGED <<semVars, proc, semid, fp, n, disk, bounds>>

AppendRecord(w) ==
    LET f == fp[ProcessOf[w]]
    IN  /\ pc[w] = "append"
        /\ f # NoFile
        /\ count' = count + 1
        /\ data' = [data EXCEPT ![f] = @ \o <<count + 1>>]
        /\ pc' = [pc EXCEPT ![w] = "unlock"]
        /\ UNCHANGED <<semVars, procVars, n, dir, bounds>>

Unlock(w) ==
    /\ pc[w] = "unlock"
    /\ sem' = IF semid[ProcessOf[w]] THEN sem + 1 ELSE sem
    /\ pc' = [pc EXCEPT ![w] = "idle"]
    /\ UNCHANGED <<sem_exists, sem_otime, procVars, n, disk, bounds>>

-----------------------------------------------------------------------------
(* A process dies: its files are closed, and the kernel undoes its last    *)
(* operation on the semaphore (SEM_UNDO) if it held the lock.              *)

Section == {"fstat", "rename", "reopen", "append", "unlock"}

Holds(w) == pc[w] \in Section /\ semid[ProcessOf[w]]

Undone_Never(p) == sem

Undone(p) == IF \E w \in Writers : ProcessOf[w] = p /\ Holds(w) THEN sem + 1 ELSE sem

Die(p) ==
    /\ sem' = Undone(p)
    /\ proc' = [proc EXCEPT ![p] = "down"]
    /\ semid' = [semid EXCEPT ![p] = FALSE]
    /\ fp' = [fp EXCEPT ![p] = NoFile]
    /\ fd' = [fd EXCEPT ![p] = NoFile]
    /\ pc' = [w \in Writers |-> IF ProcessOf[w] = p THEN "idle" ELSE pc[w]]
    /\ n' = [w \in Writers |-> IF ProcessOf[w] = p THEN 0 ELSE n[w]]
    /\ UNCHANGED <<sem_exists, sem_otime, disk, calls>>

Crash(p) ==
    /\ proc[p] # "down"
    /\ InitSafe => proc[p] \notin {"setval", "up"}
    /\ crashes < MaxCrashes
    /\ crashes' = crashes + 1
    /\ Die(p)

(* The file could never be opened: fwrite gets a null pointer. *)
AppendNowhere(w) ==
    /\ pc[w] = "append"
    /\ fp[ProcessOf[w]] = NoFile
    /\ UNCHANGED crashes
    /\ Die(ProcessOf[w])

-----------------------------------------------------------------------------
Start(p) ==
    \/ Boot(p) \/ SemCreate(p) \/ SemSetVal(p) \/ SemUp(p)
    \/ SemExists(p) \/ LockOpen(p) \/ LockOpenFails(p) \/ Config(p)

Write(w) ==
    \/ Lock(w) \/ Fstat(w) \/ Rename(w) \/ Reopen(w) \/ ReopenFails(w)
    \/ AppendRecord(w) \/ AppendNowhere(w) \/ Unlock(w)

Next ==
    \/ \E p \in Processes : Start(p) \/ Crash(p)
    \/ \E w \in Writers : Call(w) \/ Write(w)

Spec == Init /\ [][Next]_vars

(* Started work is finished; nothing makes a process write, die or start   *)
(* over.  The kernel hands the semaphore to those who wait in turn.        *)
Fairness ==
    \A w \in Writers : WF_vars(Write(w) /\ pc[w] # "wait") /\ SF_vars(Lock(w))

FairSpec == Spec /\ Fairness

-----------------------------------------------------------------------------
(* Properties. *)

(* Every variable has its type; the semaphore is 0 or 1. *)
TypeOK ==
    /\ sem_exists \in BOOLEAN /\ sem \in {0, 1} /\ sem_otime \in BOOLEAN
    /\ proc \in [Processes -> {"down", "semget", "setval", "up", "open", "config", "run"}]
    /\ semid \in [Processes -> BOOLEAN]
    /\ fp \in [Processes -> Inodes \union {NoFile}]
    /\ fd \in [Processes -> Inodes \union {NoFile}]
    /\ pc \in [Writers -> Section \union {"idle", "wait"}]
    /\ n \in [Writers -> Positions]
    /\ dir \in [Positions -> Inodes \union {NoFile}]
    /\ data \in [Inodes -> Seq(Nat)]
    /\ count \in Nat /\ calls \in Nat /\ crashes \in Nat

(* Of all threads that have the semaphore to lock with one at a time looks *)
(* at the size, rotates and writes, however processes start, die and start *)
(* again, and whether or not their start succeeds.                         *)
OneWriter == \A v, w \in Writers : Holds(v) /\ Holds(w) => v = w

(* A thread that waits for the lock gets it or dies: who dies in the       *)
(* section gives the lock back.                                            *)
LockGranted == \A w \in Writers : pc[w] = "wait" ~> pc[w] # "wait"

(* The records at a position, and all of them, the oldest first. *)
RecordsAt(i) == IF dir[i] = NoFile THEN <<>> ELSE data[dir[i]]

Archive ==
    LET upTo[i \in Positions] == IF i = 0 THEN RecordsAt(0) ELSE RecordsAt(i) \o upTo[i - 1]
    IN  upTo[MaxRotate]

(* Rotation renames and forgets nothing but the oldest file: read from the *)
(* oldest to the newest, the files change by the record just written, or   *)
(* lose what was in the last of them; also when a process dies between two *)
(* renames and the next one starts in the middle.                          *)
KeepsRecords ==
    [][\/ Archive' = Archive
       \/ Archive' = Append(Archive, count')
       \/ Archive = RecordsAt(MaxRotate) \o Archive']_<<dir, data, count>>

(* "file max size" (elog_file.h:51): a file is not written to once it has  *)
(* outgrown the limit.                                                     *)
SizeBounded == \A f \in Inodes : Len(data[f]) <= MaxSize + 1
=============================================================================
