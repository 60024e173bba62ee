--------------------------- MODULE FileLogProofs ----------------------------
(***************************************************************************)
(* Proofs about FileLog for any number of processes and threads, any limit *)
(* and any number of rotated files: the semaphore admits one holder, the   *)
(* files keep to their limit, and rotation loses only what is oldest.      *)
(***************************************************************************)
EXTENDS FileLog, SequenceTheorems, WellFoundedInduction, TLAPS

(* How the value of the semaphore, its initialisation and its holders are  *)
(* related.                                                                *)
SemInv ==
    /\ \A w \in Writers : pc[w] # "idle" => proc[ProcessOf[w]] = "run"
    /\ \A p \in Processes : semid[p] => sem_otime
    /\ \A p \in Processes : proc[p] \in {"setval", "up"} => sem_exists /\ ~sem_otime
    /\ \A p, q \in Processes :
          proc[p] \in {"setval", "up"} /\ proc[q] \in {"setval", "up"} => p = q
    /\ ~sem_exists => ~sem_otime
    /\ ~sem_otime => sem = 0
    /\ sem = 1 => \A w \in Writers : ~Holds(w)

LockInv == TypeOK /\ SemInv /\ OneWriter

(* The first position of the renaming loop is one of the directory. *)
LEMMA LoopPositions ==
    0 \in Positions /\ (MaxRotate > 0 => MaxRotate - 1 \in Positions)
BY FileLogAssumption DEF Positions

(* One lemma for the steps that only change where a process or a thread is. *)
LEMMA StartStep ==
    ASSUME LockInv, NEW p \in Processes, Start(p)
    PROVE  LockInv'
<1>1. CASE Boot(p) \/ SemExists(p) \/ LockOpenFails(p)
  <2>1. TypeOK'
    BY <1>1 DEF LockInv, TypeOK, Boot, SemExists, LockOpenFails, semVars, disk, bounds
  <2>2. /\ UNCHANGED <<semVars, semid, pc>>
        /\ proc[p] \in {"down", "semget", "open"}
        /\ \E to \in {"semget", "open", "config"} : proc' = [proc EXCEPT ![p] = to]
    BY <1>1 DEF Boot, SemExists, LockOpenFails
  <2>3. \A w \in Writers : Holds(w)' <=> Holds(w)
    BY <2>2 DEF Holds
  <2>4. \A w \in Writers : pc'[w] # "idle" => proc'[ProcessOf[w]] = "run"
    BY <2>2, FileLogAssumption DEF LockInv, TypeOK, SemInv
  <2>5. \A q \in Processes : proc'[q] \in {"setval", "up"} => proc[q] \in {"setval", "up"}
    BY <2>2 DEF LockInv, TypeOK
  <2>6. SemInv'
    BY <2>2, <2>3, <2>4, <2>5 DEF LockInv, SemInv, semVars
  <2>7. OneWriter'
    BY <2>3 DEF LockInv, OneWriter
  <2>. QED  BY <2>1, <2>6, <2>7 DEF LockInv
<1>2. CASE SemCreate(p) \/ SemSetVal(p)
  <2>1. TypeOK'
    BY <1>2 DEF LockInv, TypeOK, SemCreate, SemSetVal, disk, bounds
  <2>2. SemInv' /\ OneWriter'
    BY <1>2, FileLogAssumption DEF LockInv, TypeOK, SemInv, OneWriter, Holds,
       SemCreate, SemSetVal, disk, bounds
  <2>. QED  BY <2>1, <2>2 DEF LockInv
<1>3. CASE SemUp(p) \/ LockOpen(p)
  <2>1. sem' \in {0, 1}
    BY <1>3 DEF LockInv, TypeOK, SemInv, SemUp, LockOpen, semVars
  <2>2. TypeOK'
    BY <1>3, <2>1 DEF LockInv, TypeOK, SemUp, LockOpen, semVars, disk, bounds
  <2>3. \A w \in Writers : Holds(w)' <=> Holds(w)
    BY <1>3, FileLogAssumption
       DEF LockInv, TypeOK, SemInv, Holds, Section, SemUp, LockOpen
  <2>4. SemInv'
    <3>1. \A w \in Writers : pc'[w] # "idle" => proc'[ProcessOf[w]] = "run"
      BY <1>3, FileLogAssumption DEF LockInv, TypeOK, SemInv, SemUp, LockOpen
    <3>2. \A q \in Processes :
             proc'[q] \in {"setval", "up"} => q # p /\ proc[q] \in {"setval", "up"}
      BY <1>3 DEF LockInv, TypeOK, SemUp, LockOpen
    <3>3. CASE SemUp(p)
      <4>1. ~sem_otime /\ \A q \in Processes : proc'[q] \notin {"setval", "up"}
        BY <3>2, <3>3 DEF LockInv, TypeOK, SemInv, SemUp
      <4>2. \A w \in Writers : ~Holds(w)
        BY <4>1, FileLogAssumption DEF LockInv, TypeOK, SemInv, Holds
      <4>. QED
        BY <2>3, <3>1, <3>3, <4>1, <4>2 DEF LockInv, TypeOK, SemInv, SemUp
    <3>4. CASE LockOpen(p)
      BY <2>3, <3>1, <3>2, <3>4 DEF LockInv, TypeOK, SemInv, LockOpen, semVars
    <3>. QED  BY <1>3, <3>3, <3>4
  <2>5. OneWriter'
    BY <2>3 DEF LockInv, OneWriter
  <2>. QED  BY <2>2, <2>4, <2>5 DEF LockInv
<1>4. CASE Config(p)
  <2>1. /\ fp' \in [Processes -> Inodes \union {NoFile}]
        /\ fd' \in [Processes -> Inodes \union {NoFile}]
        /\ dir' \in [Positions -> Inodes \union {NoFile}]
        /\ data' \in [Inodes -> Seq(Nat)]
    <3>1. CASE UNCHANGED <<fp, fd, dir, data>>
      BY <3>1 DEF LockInv, TypeOK
    <3>2. ASSUME NEW f \in Inodes, Opened(p, f)
          PROVE  <2>1
      BY <3>2, EmptySeq DEF LockInv, TypeOK, Opened
    <3>. QED  BY <1>4, <3>1, <3>2 DEF Config
  <2>2. TypeOK'
    BY <1>4, <2>1 DEF LockInv, TypeOK, Config, semVars, bounds
  <2>3. SemInv' /\ OneWriter'
    BY <1>4, FileLogAssumption DEF LockInv, TypeOK, SemInv, OneWriter, Holds,
       Config, semVars, bounds
  <2>. QED  BY <2>2, <2>3 DEF LockInv
<1>. QED  BY <1>1, <1>2, <1>3, <1>4 DEF Start

(* A process that dies releases the lock if, and only if, it held it. *)
LEMMA DieStep ==
    ASSUME LockInv, NEW p \in Processes, Die(p), crashes' \in Nat
    PROVE  LockInv'
<1>1. \A w \in Writers : Holds(w)' <=> Holds(w) /\ ProcessOf[w] # p
  BY FileLogAssumption DEF LockInv, TypeOK, Holds, Section, Die
<1>2. sem' \in {0, 1} /\ (sem' = 1 => \A w \in Writers : ~Holds(w)')
  <2>1. CASE \E w \in Writers : ProcessOf[w] = p /\ Holds(w)
    <3>1. PICK w \in Writers : ProcessOf[w] = p /\ Holds(w)
      BY <2>1
    <3>2. sem = 0 /\ sem' = 1
      BY <2>1, <3>1 DEF LockInv, TypeOK, SemInv, Die, Undone
    <3>3. \A v \in Writers : ~Holds(v)'
      BY <1>1, <3>1 DEF LockInv, OneWriter
    <3>. QED  BY <3>2, <3>3
  <2>2. CASE ~ \E w \in Writers : ProcessOf[w] = p /\ Holds(w)
    <3>1. sem' = sem
      BY <2>2 DEF Die, Undone
    <3>. QED  BY <1>1, <3>1 DEF LockInv, TypeOK, SemInv
  <2>. QED  BY <2>1, <2>2
<1>3. TypeOK'
  BY <1>2, LoopPositions DEF LockInv, TypeOK, Die, disk
<1>4. ~sem_otime => sem' = 0
  BY FileLogAssumption DEF LockInv, TypeOK, SemInv, Die, Undone, Holds
<1>5. SemInv'
  BY <1>2, <1>4, FileLogAssumption DEF LockInv, TypeOK, SemInv, Die
<1>6. OneWriter'
  BY <1>1 DEF LockInv, OneWriter
<1>. QED  BY <1>3, <1>5, <1>6 DEF LockInv

(* Steps of a writing thread that leave the semaphore alone: whoever held  *)
(* it holds it still.                                                      *)
LEMMA SectionStep ==
    ASSUME LockInv, NEW w \in Writers,
           UNCHANGED <<semVars, proc, semid>>,
           pc[w] \in Section, NEW to \in Section, pc' = [pc EXCEPT ![w] = to]
    PROVE  SemInv' /\ OneWriter'
<1>1. \A v \in Writers : Holds(v)' <=> Holds(v)
  BY DEF LockInv, TypeOK, Holds
<1>2. \A v \in Writers : pc'[v] # "idle" => pc[v] # "idle"
  BY DEF LockInv, TypeOK, Section
<1>3. SemInv'
  BY <1>1, <1>2 DEF LockInv, SemInv, semVars
<1>4. OneWriter'
  BY <1>1 DEF LockInv, OneWriter
<1>. QED  BY <1>3, <1>4

LEMMA WriteStep ==
    ASSUME LockInv, NEW w \in Writers, Call(w) \/ Write(w)
    PROVE  LockInv'
<1>0. ProcessOf[w] \in Processes
  BY FileLogAssumption
<1>1. CASE Call(w)
  <2>1. TypeOK'
    BY <1>1 DEF LockInv, TypeOK, Call, semVars, procVars, disk
  <2>2. \A v \in Writers : Holds(v)' <=> Holds(v)
    BY <1>1 DEF LockInv, TypeOK, Holds, Section, Call, procVars
  <2>3. SemInv' /\ OneWriter'
    BY <1>1, <2>2 DEF LockInv, TypeOK, SemInv, OneWriter, Call, semVars, procVars
  <2>. QED  BY <2>1, <2>3 DEF LockInv
<1>2. CASE Lock(w)
  <2>1. sem' \in {0, 1}
    BY <1>2 DEF LockInv, TypeOK, Lock
  <2>2. TypeOK'
    BY <1>2, <2>1 DEF LockInv, TypeOK, Lock, Section, procVars, disk, bounds
  <2>3. \A v \in Writers : Holds(v)' <=> Holds(v) \/ (v = w /\ semid[ProcessOf[w]])
    BY <1>2 DEF LockInv, TypeOK, Holds, Section, Lock, procVars
  <2>4. CASE semid[ProcessOf[w]]
    <3>1. sem = 1 /\ sem' = 0
      BY <1>2, <2>4 DEF LockInv, TypeOK, Lock
    <3>2. OneWriter'
      BY <2>3, <3>1 DEF LockInv, SemInv, OneWriter
    <3>3. SemInv'
      BY <1>2, <3>1 DEF LockInv, TypeOK, SemInv, Lock, procVars
    <3>. QED  BY <2>2, <3>2, <3>3 DEF LockInv
  <2>5. CASE ~semid[ProcessOf[w]]
    <3>1. OneWriter'
      BY <2>3, <2>5 DEF LockInv, OneWriter
    <3>2. SemInv'
      BY <1>2, <2>3, <2>5 DEF LockInv, TypeOK, SemInv, Lock, procVars
    <3>. QED  BY <2>2, <3>1, <3>2 DEF LockInv
  <2>. QED  BY <2>4, <2>5
<1>3. CASE Fstat(w)
  <2>1. TypeOK'
    BY <1>3, LoopPositions
       DEF LockInv, TypeOK, Fstat, Section, semVars, procVars, disk, bounds
  <2>2. SemInv' /\ OneWriter'
    BY <1>3, SectionStep DEF Fstat, Section, procVars
  <2>. QED  BY <2>1, <2>2 DEF LockInv
<1>4. CASE Rename(w)
  <2>1. dir' \in [Positions -> Inodes \union {NoFile}]
    <3>1. CASE dir[n[w]] = NoFile
      BY <1>4, <3>1 DEF LockInv, TypeOK, Rename, RenameAt
    <3>2. CASE dir[n[w]] # NoFile
      <4>1. n[w] \in Positions /\ dir[n[w]] \in Inodes
        BY <3>2 DEF LockInv, TypeOK
      <4>. QED  BY <1>4, <3>2, <4>1 DEF LockInv, TypeOK, Rename, RenameAt
    <3>. QED  BY <3>1, <3>2
  <2>2. n' \in [Writers -> Positions]
    <3>1. 0 \in Positions /\ (n[w] # 0 => n[w] - 1 \in Positions)
      BY FileLogAssumption DEF LockInv, TypeOK, Positions
    <3>. QED  BY <1>4, <3>1 DEF LockInv, TypeOK, Rename, RenameAt
  <2>3. TypeOK'
    BY <1>4, <2>1, <2>2
       DEF LockInv, TypeOK, Rename, RenameAt, Section, semVars, procVars, bounds
  <2>4. SemInv' /\ OneWriter'
    BY <1>4, SectionStep DEF Rename, RenameAt, Section, procVars
  <2>. QED  BY <2>3, <2>4 DEF LockInv
<1>5. CASE Reopen(w)
  <2>1. TypeOK'
    <3>1. PICK f \in Inodes : Opened(ProcessOf[w], f)
      BY <1>5 DEF Reopen
    <3>2. /\ fp' \in [Processes -> Inodes \union {NoFile}]
          /\ fd' \in [Processes -> Inodes \union {NoFile}]
          /\ dir' \in [Positions -> Inodes \union {NoFile}]
          /\ data' \in [Inodes -> Seq(Nat)]
      BY <3>1, EmptySeq DEF LockInv, TypeOK, Opened
    <3>. QED  BY <1>5, <3>2 DEF LockInv, TypeOK, Reopen, Section, semVars, bounds
  <2>2. SemInv' /\ OneWriter'
    BY <1>5, SectionStep DEF Reopen, Section
  <2>. QED  BY <2>1, <2>2 DEF LockInv
<1>6. CASE ReopenFails(w)
  <2>1. TypeOK'
    BY <1>6 DEF LockInv, TypeOK, ReopenFails, Section, semVars, disk, bounds
  <2>2. SemInv' /\ OneWriter'
    BY <1>6, SectionStep DEF ReopenFails, Section
  <2>. QED  BY <2>1, <2>2 DEF LockInv
<1>7. CASE AppendRecord(w)
  <2>1. data' \in [Inodes -> Seq(Nat)]
    <3>1. fp[ProcessOf[w]] \in Inodes
      BY <1>0, <1>7 DEF LockInv, TypeOK, AppendRecord
    <3>2. data[fp[ProcessOf[w]]] \o <<count + 1>> \in Seq(Nat)
      BY <3>1, ConcatProperties DEF LockInv, TypeOK
    <3>. QED  BY <1>7, <3>1, <3>2 DEF LockInv, TypeOK, AppendRecord
  <2>2. TypeOK'
    BY <1>7, <2>1 DEF LockInv, TypeOK, AppendRecord, Section, semVars, procVars, bounds
  <2>3. SemInv' /\ OneWriter'
    BY <1>7, SectionStep DEF AppendRecord, Section, procVars
  <2>. QED  BY <2>2, <2>3 DEF LockInv
<1>8. CASE AppendNowhere(w)
  BY <1>0, <1>8, DieStep DEF AppendNowhere, LockInv, TypeOK
<1>9. CASE Unlock(w)
  <2>1. \A v \in Writers : Holds(v)' <=> Holds(v) /\ v # w
    BY <1>9 DEF LockInv, TypeOK, Holds, Section, Unlock, procVars
  <2>2. CASE semid[ProcessOf[w]]
    <3>1. Holds(w)
      BY <1>9, <2>2 DEF Holds, Section, Unlock
    <3>2. sem = 0 /\ sem' = 1
      BY <1>9, <2>2, <3>1 DEF LockInv, TypeOK, SemInv, Unlock
    <3>3. \A v \in Writers : ~Holds(v)'
      BY <2>1, <3>1 DEF LockInv, OneWriter
    <3>4. TypeOK'
      BY <1>9, <3>2 DEF LockInv, TypeOK, Unlock, procVars, disk, bounds
    <3>5. SemInv'
      BY <1>0, <1>9, <2>2, <3>3 DEF LockInv, TypeOK, SemInv, Unlock, procVars
    <3>6. OneWriter'
      BY <3>3 DEF OneWriter
    <3>. QED  BY <3>4, <3>5, <3>6 DEF LockInv
  <2>3. CASE ~semid[ProcessOf[w]]
    <3>1. TypeOK'
      BY <1>9, <2>3 DEF LockInv, TypeOK, Unlock, procVars, disk, bounds
    <3>2. SemInv' /\ OneWriter'
      BY <1>9, <2>1, <2>3 DEF LockInv, TypeOK, SemInv, OneWriter, Unlock, procVars
    <3>. QED  BY <3>1, <3>2 DEF LockInv
  <2>. QED  BY <2>2, <2>3
<1>. QED  BY <1>1, <1>2, <1>3, <1>4, <1>5, <1>6, <1>7, <1>8, <1>9 DEF Write

LEMMA LockInvariant == Spec => []LockInv
<1>1. Init => LockInv
  <2>. SUFFICES ASSUME Init PROVE LockInv
    OBVIOUS
  <2>1. TypeOK
    BY EmptySeq, LoopPositions DEF Init, TypeOK
  <2>2. \A w \in Writers : ~Holds(w) /\ pc[w] = "idle"
    BY DEF Init, Holds, Section
  <2>3. \A p \in Processes : ~semid[p] /\ proc[p] = "down"
    BY DEF Init
  <2>4. SemInv
    BY <2>2, <2>3 DEF Init, SemInv
  <2>5. OneWriter
    BY <2>2 DEF OneWriter
  <2>. QED  BY <2>1, <2>4, <2>5 DEF LockInv
<1>2. LockInv /\ [Next]_vars => LockInv'
  <2>. SUFFICES ASSUME LockInv, [Next]_vars PROVE LockInv'
    OBVIOUS
  <2>1. ASSUME NEW p \in Processes, Crash(p) PROVE LockInv'
    BY <2>1, DieStep DEF Crash, LockInv, TypeOK
  <2>2. CASE UNCHANGED vars
    BY <2>2 DEF LockInv, TypeOK, SemInv, OneWriter, Holds, vars, semVars, procVars, disk, bounds
  <2>. QED  BY <2>1, <2>2, StartStep, WriteStep DEF Next
<1>. QED  BY <1>1, <1>2, PTL DEF Spec

-----------------------------------------------------------------------------
(* Every variable keeps its type, the semaphore is never 2. *)
THEOREM FileTypeCorrect == Spec => []TypeOK
<1>1. LockInv => TypeOK
  BY DEF LockInv
<1>. QED  BY <1>1, LockInvariant, PTL

(* At any time at most one thread of all processes holds the file lock,    *)
(* whatever dies, fails or is late (elog_file_port.c:52-126).              *)
THEOREM OneWriterAtATime == Spec => []OneWriter
<1>1. LockInv => OneWriter
  BY DEF LockInv
<1>. QED  BY <1>1, LockInvariant, PTL

-----------------------------------------------------------------------------
(***************************************************************************)
(* The size limit.  SizeBounded needs the lock and more: who is about to   *)
(* write has seen the size of the file it writes to, and nobody has        *)
(* written to it since; and who reopens finds no file of that name.        *)
(***************************************************************************)
Locked == \A p \in Processes : proc[p] \in {"config", "run"} => semid[p]

SeesItsFile == \A p \in Processes : fd[p] = fp[p]

RoomToWrite ==
    \A w \in Writers :
        pc[w] = "append" /\ fp[ProcessOf[w]] # NoFile
            => Len(data[fp[ProcessOf[w]]]) <= MaxSize

NameIsFree == \A w \in Writers : pc[w] = "reopen" => dir[0] = NoFile

SizeInv == LockInv /\ Locked /\ SeesItsFile /\ RoomToWrite /\ NameIsFree /\ SizeBounded

(* With a lock in every process one thread at a time is in the section. *)
LEMMA Alone ==
    ASSUME LockInv, Locked
    PROVE  /\ \A v, w \in Writers : pc[v] \in Section /\ pc[w] \in Section => v = w
           /\ \A p \in Processes : proc[p] \in {"config", "run"} /\ sem > 0
                 => \A w \in Writers : pc[w] \notin Section
<1>1. \A w \in Writers : pc[w] \in Section => Holds(w)
  BY FileLogAssumption DEF LockInv, SemInv, Locked, Holds, Section
<1>. QED
  BY <1>1 DEF LockInv, TypeOK, SemInv, OneWriter

(* fopen gives a process the file of that name or an empty one. *)
LEMMA OpenedSize ==
    ASSUME SizeInv, NEW p \in Processes, NEW f \in Inodes, Opened(p, f)
    PROVE  /\ SeesItsFile' /\ SizeBounded'
           /\ fp' = [fp EXCEPT ![p] = f]
           /\ dir[0] = NoFile => data'[f] = <<>>
<1>1. dir[0] = NoFile => f # dir[0]
  BY FileLogAssumption
<1>2. Len(<<>>) <= MaxSize + 1
  BY FileLogAssumption
<1>. QED
  BY <1>1, <1>2 DEF SizeInv, LockInv, TypeOK, SeesItsFile, SizeBounded, Opened

LEMMA SizeStep ==
    ASSUME InitSafe, ~FopenFails, SizeInv, [Next]_vars, LockInv'
    PROVE  SizeInv'
<1>. USE FileLogAssumption
<1>0. /\ LockInv /\ Locked /\ SeesItsFile /\ RoomToWrite /\ NameIsFree /\ SizeBounded /\ TypeOK
      /\ \A w \in Writers : ProcessOf[w] \in Processes
  BY DEF SizeInv, LockInv
<1>a. LockInv /\ Locked
  BY <1>0
<1>1. ASSUME NEW p \in Processes, Start(p) PROVE SizeInv'
  <2>1. CASE Config(p)
    <3>1. PICK f \in Inodes : Opened(p, f)
      BY <2>1 DEF Config
    <3>2. SeesItsFile' /\ SizeBounded'
      BY <3>1, OpenedSize
    <3>3. \A w \in Writers : pc[w] \notin Section
      BY <1>0, <2>1, <1>a, Alone DEF Config, Locked
    <3>4. pc' = pc /\ semid' = semid /\ proc' = [proc EXCEPT ![p] = "run"] /\ proc[p] = "config"
      BY <2>1 DEF Config
    <3>5. Locked'
      BY <1>0, <3>4 DEF TypeOK, Locked
    <3>6. RoomToWrite' /\ NameIsFree'
      BY <3>3, <3>4 DEF Section, RoomToWrite, NameIsFree
    <3>. QED  BY <3>2, <3>5, <3>6 DEF SizeInv
  <2>2. CASE ~Config(p)
    <3>1. UNCHANGED <<fp, fd, pc, dir, data>>
      BY <1>1, <2>2 DEF Start, Boot, SemCreate, SemSetVal, SemUp, SemExists, LockOpen, LockOpenFails, disk
    <3>2. Locked'
      BY <1>0, <1>1, <2>2 DEF Locked, TypeOK, Start, Boot, SemCreate, SemSetVal, SemUp, SemExists,
         LockOpen, LockOpenFails
    <3>. QED  BY <1>0, <3>1, <3>2 DEF SizeInv, SeesItsFile, RoomToWrite, NameIsFree, SizeBounded
  <2>. QED  BY <2>1, <2>2
<1>2. ASSUME NEW p \in Processes, Die(p) PROVE SizeInv'
  <2>1. \A w \in Writers : pc'[w] # "idle" => pc'[w] = pc[w] /\ ProcessOf[w] # p
    BY <1>2 DEF Die
  <2>2. dir' = dir /\ data' = data /\ \A q \in Processes : q # p => fp'[q] = fp[q]
    BY <1>0, <1>2 DEF Die, disk, TypeOK
  <2>3. Locked' /\ SeesItsFile'
    BY <1>0, <1>2 DEF Die, TypeOK, Locked, SeesItsFile
  <2>4. RoomToWrite' /\ NameIsFree' /\ SizeBounded'
    BY <1>0, <2>1, <2>2 DEF RoomToWrite, NameIsFree, SizeBounded
  <2>. QED  BY <2>3, <2>4 DEF SizeInv
<1>3. ASSUME NEW w \in Writers, Call(w) \/ Write(w) PROVE SizeInv'
  <2>. DEFINE p == ProcessOf[w]
  <2>0. p \in Processes
    BY <1>0
  <2>1. CASE Call(w) \/ Lock(w) \/ Unlock(w)
    <3>1. /\ UNCHANGED <<proc, semid, fp, fd, dir, data>>
          /\ \A v \in Writers : pc'[v] \in {"append", "reopen"} => pc[v] = pc'[v]
      BY <1>0, <2>1 DEF Call, Lock, Unlock, procVars, disk, TypeOK
    <3>. QED  BY <1>0, <3>1 DEF SizeInv, Locked, SeesItsFile, RoomToWrite, NameIsFree, SizeBounded
  <2>2. CASE Fstat(w)
    <3>1. /\ UNCHANGED <<proc, semid, fp, fd, dir, data>>
          /\ \A v \in Writers : v # w => pc'[v] = pc[v]
          /\ pc'[w] # "reopen" /\ (pc'[w] = "append" => ~TooBig(p))
      BY <1>0, <2>2 DEF Fstat, procVars, disk, TypeOK
    <3>2. ~TooBig(p) /\ fp[p] # NoFile => Len(data[fp[p]]) <= MaxSize
      BY <1>0, <2>0 DEF TooBig, SeesItsFile, TypeOK
    <3>. QED  BY <1>0, <3>1, <3>2 DEF SizeInv, Locked, SeesItsFile, RoomToWrite, NameIsFree, SizeBounded
  <2>3. CASE Rename(w)
    <3>1. /\ UNCHANGED <<proc, semid, fp, fd, data>> /\ pc[w] = "rename"
          /\ \A v \in Writers : v # w => pc'[v] = pc[v]
          /\ pc'[w] # "append"
      BY <1>0, <2>3 DEF Rename, RenameAt, procVars, TypeOK
    <3>2. pc'[w] = "reopen" => dir'[0] = NoFile
      BY <1>0, <2>3, LoopPositions DEF Rename, RenameAt, TypeOK, Positions
    <3>3. \A v \in Writers : v # w => pc[v] # "reopen"
      BY <3>1, <1>a, Alone DEF Section
    <3>. QED  BY <1>0, <3>1, <3>2, <3>3 DEF SizeInv, Locked, SeesItsFile, RoomToWrite, NameIsFree, SizeBounded
  <2>4. CASE Reopen(w)
    <3>1. PICK f \in Inodes : Opened(p, f)
      BY <2>4 DEF Reopen
    <3>2. pc[w] = "reopen" /\ pc' = [pc EXCEPT ![w] = "append"] /\ UNCHANGED <<proc, semid>>
      BY <2>4 DEF Reopen
    <3>3. dir[0] = NoFile
      BY <1>0, <3>2 DEF NameIsFree
    <3>4. SeesItsFile' /\ SizeBounded' /\ fp'[p] = f /\ data'[f] = <<>>
      BY <1>0, <2>0, <3>1, <3>3, OpenedSize DEF TypeOK
    <3>5. \A v \in Writers : v # w => pc'[v] \notin {"append", "reopen"}
      BY <1>0, <3>2, <1>a, Alone DEF Section, TypeOK
    <3>6. pc'[w] = "append"
      BY <1>0, <3>2 DEF TypeOK
    <3>7. RoomToWrite'
      BY <3>4, <3>5 DEF RoomToWrite
    <3>. QED  BY <1>0, <3>2, <3>4, <3>5, <3>6, <3>7 DEF SizeInv, Locked, NameIsFree
  <2>5. CASE ReopenFails(w)
    BY <2>5 DEF ReopenFails
  <2>6. CASE AppendRecord(w)
    <3>. DEFINE f == fp[p]
    <3>1. /\ f \in Inodes /\ Len(data[f]) <= MaxSize /\ data[f] \in Seq(Nat)
      BY <1>0, <2>0, <2>6 DEF AppendRecord, RoomToWrite, TypeOK
    <3>2. Len(data[f] \o <<count + 1>>) <= MaxSize + 1
      BY <1>0, <3>1 DEF TypeOK
    <3>3. SizeBounded'
      BY <1>0, <2>6, <3>1, <3>2 DEF AppendRecord, SizeBounded, TypeOK
    <3>4. /\ UNCHANGED <<proc, semid, fp, fd, dir>> /\ pc'[w] = "unlock" /\ pc[w] = "append"
          /\ \A v \in Writers : v # w => pc'[v] = pc[v]
      BY <1>0, <2>6 DEF AppendRecord, procVars, TypeOK
    <3>5. \A v \in Writers : v # w => pc[v] \notin {"append", "reopen"}
      BY <3>4, <1>a, Alone DEF Section
    <3>. QED  BY <1>0, <3>3, <3>4, <3>5 DEF SizeInv, Locked, SeesItsFile, RoomToWrite, NameIsFree
  <2>7. CASE AppendNowhere(w)
    BY <1>0, <1>2, <2>7 DEF AppendNowhere
  <2>. QED  BY <1>3, <2>1, <2>2, <2>3, <2>4, <2>5, <2>6, <2>7 DEF Write
<1>4. CASE UNCHANGED vars
  BY <1>0, <1>4 DEF SizeInv, Locked, SeesItsFile, RoomToWrite, NameIsFree, SizeBounded,
     vars, semVars, procVars, disk
<1>. QED  BY <1>1, <1>2, <1>3, <1>4 DEF Next, Crash

(* No file grows beyond the limit by more than the record that reached it, *)
(* with any number of processes and threads writing, rotating and dying.   *)
(* Both conditions are needed: after a failed fopen the size of the file   *)
(* that stays open is not seen any more, and without a semaphore two       *)
(* threads look at the size before either writes (elog_file.c:72-142).    *)
THEOREM SizeLimitKept ==
    ASSUME InitSafe, ~FopenFails
    PROVE  Spec => []SizeBounded
<1>1. Init /\ LockInv => SizeInv
  BY FileLogAssumption DEF Init, SizeInv, Locked, SeesItsFile, RoomToWrite, NameIsFree, SizeBounded
<1>2. SizeInv /\ [Next]_vars /\ LockInv' => SizeInv'
  BY SizeStep
<1>3. SizeInv => SizeBounded
  BY DEF SizeInv
<1>. QED  BY <1>1, <1>2, <1>3, LockInvariant, PTL DEF Spec

-----------------------------------------------------------------------------
(***************************************************************************)
(* What rotation keeps.  The archive is put together from the newest       *)
(* position to the oldest one; Joins(g, d, x) says that g is how it grows, *)
(* for a directory d and the contents x of the files.                      *)
(***************************************************************************)
Held(d, x, i) == IF d[i] = NoFile THEN <<>> ELSE x[d[i]]

Joins(g, d, x) ==
    /\ g[0] = Held(d, x, 0)
    /\ \A i \in 1..MaxRotate : g[i] = Held(d, x, i) \o g[i - 1]

(* The least of some numbers. *)
LEMMA LeastOf ==
    ASSUME NEW N, N \subseteq Nat, N # {}
    PROVE  \E m \in N : \A k \in N : m <= k
<1>1. IsWellFoundedOn(OpToRel(<, Nat), Nat)
  BY NatLessThanWellFounded
<1>2. PICK m \in N : \A k \in N : ~ (<<k, m>> \in OpToRel(<, Nat))
  BY <1>1, WFMin
<1>3. \A k \in N : ~ (k < m)
  BY <1>2 DEF OpToRel
<1>4. \A k \in N : m <= k
  BY <1>3
<1> QED
  BY <1>4

(* Induction over the positions of the directory. *)
LEMMA Upwards ==
    ASSUME NEW m \in Nat, NEW a \in 0..m, NEW K, a \in K,
           \A i \in (a + 1)..m : i - 1 \in K => i \in K
    PROVE  \A i \in a..m : i \in K
<1> DEFINE N == {i \in a..m : i \notin K}
<1>1. SUFFICES ASSUME N # {} PROVE FALSE
  OBVIOUS
<1>2. N \subseteq Nat
  OBVIOUS
<1>3. PICK k \in N : \A i \in N : k <= i
  BY <1>1, <1>2, LeastOf, Zenon
<1>6. k \in (a + 1)..m
  OBVIOUS
<1>7. k - 1 \in a..m /\ ~(k <= k - 1)
  BY <1>6
<1>8. k - 1 \in K
  BY <1>3, <1>7
<1> QED
  BY <1>6, <1>8

(* Such a function exists: it grows position by position, and a first      *)
(* position without one would have one by its predecessor.                 *)
LEMMA JoinsExists ==
    ASSUME NEW T, NEW h, \A i \in Positions : h[i] \in Seq(T)
    PROVE  \E g \in [Positions -> Seq(T)] :
              g[0] = h[0] /\ \A i \in 1..MaxRotate : g[i] = h[i] \o g[i - 1]
<1> DEFINE Good(k, g) == g[0] = h[0] /\ \A i \in 1..k : g[i] = h[i] \o g[i - 1]
           Has(k) == \E g \in [0..k -> Seq(T)] : Good(k, g)
           K == {k \in 0..MaxRotate : Has(k)}
<1> USE DEF Positions
<1>0. MaxRotate \in Nat
  BY FileLogAssumption
<1>1. Has(0)
  <2> DEFINE g == [i \in 0..0 |-> h[0]]
  <2>1. g \in [0..0 -> Seq(T)] /\ Good(0, g)
    BY <1>0
  <2> QED
    BY <2>1
<1>2. ASSUME NEW k \in 1..MaxRotate, Has(k - 1)
      PROVE  Has(k)
  <2>1. PICK g \in [0..(k - 1) -> Seq(T)] : Good(k - 1, g)
    BY <1>2
  <2> DEFINE f == [i \in 0..k |-> IF i = k THEN h[k] \o g[k - 1] ELSE g[i]]
  <2>2. f \in [0..k -> Seq(T)]
    <3>1. h[k] \o g[k - 1] \in Seq(T)
      BY <1>0
    <3>2. \A i \in 0..k : i # k => g[i] \in Seq(T)
      BY <1>0
    <3> QED
      BY <3>1, <3>2
  <2>3. f[0] = h[0]
    BY <1>0, <2>1
  <2>4. ASSUME NEW i \in 1..k PROVE f[i] = h[i] \o f[i - 1]
    <3>1. CASE i = k
      <4>1. k \in 0..k /\ k - 1 \in 0..k /\ k - 1 # k
        BY <1>0
      <4>2. f[k] = h[k] \o g[k - 1] /\ f[k - 1] = g[k - 1]
        BY <4>1
      <4> HIDE DEF f
      <4> QED
        BY <3>1, <4>2
    <3>2. CASE i # k
      <4>1. i \in 1..(k - 1) /\ f[i] = g[i] /\ f[i - 1] = g[i - 1]
        BY <1>0, <3>2
      <4> QED
        BY <2>1, <4>1
    <3> QED
      BY <3>1, <3>2
  <2> HIDE DEF f
  <2> QED
    BY <2>2, <2>3, <2>4
<1> HIDE DEF Has
<1>3. 0 \in K /\ \A i \in (0 + 1)..MaxRotate : i - 1 \in K => i \in K
  BY <1>0, <1>1, <1>2
<1>4. MaxRotate \in K
  <2>1. 0 \in 0..MaxRotate /\ MaxRotate \in 0..MaxRotate
    BY <1>0
  <2> HIDE DEF K
  <2> QED
    BY <1>0, <1>3, <2>1, Upwards
<1> QED
  BY <1>4 DEF Has

(* The archive is the last value of such a function. *)
ArchiveJoined ==
    \E g \in [Positions -> Seq(Nat)] : Joins(g, dir, data) /\ Archive = g[MaxRotate]

LEMMA ArchiveIsJoined == TypeOK => ArchiveJoined
<1> SUFFICES ASSUME TypeOK PROVE ArchiveJoined
  OBVIOUS
<1> DEFINE IsUpTo(g) == g = [i \in Positions |-> IF i = 0 THEN RecordsAt(0) ELSE RecordsAt(i) \o g[i - 1]]
           u == CHOOSE g : IsUpTo(g)
           h == [i \in Positions |-> RecordsAt(i)]
<1>0. MaxRotate \in Nat /\ 0 \in Positions /\ MaxRotate \in Positions
      /\ \A i \in 1..MaxRotate : i \in Positions /\ i # 0 /\ i - 1 \in Positions
  BY FileLogAssumption DEF Positions
<1>1. Archive = u[MaxRotate]
  BY Zenon DEF Archive
<1>2. \A i \in Positions : RecordsAt(i) \in Seq(Nat) /\ RecordsAt(i) = Held(dir, data, i)
  BY EmptySeq DEF TypeOK, RecordsAt, Held
<1>3. PICK g \in [Positions -> Seq(Nat)] :
         g[0] = h[0] /\ \A i \in 1..MaxRotate : g[i] = h[i] \o g[i - 1]
  <2>1. \A i \in Positions : h[i] \in Seq(Nat)
    BY <1>2
  <2> HIDE DEF h
  <2> QED
    BY <2>1, JoinsExists, Zenon
<1>4. IsUpTo(g)
  <2>1. \A i \in Positions : h[i] = RecordsAt(i)
    OBVIOUS
  <2> HIDE DEF h
  <2>2. ASSUME NEW i \in Positions
        PROVE  g[i] = IF i = 0 THEN RecordsAt(0) ELSE RecordsAt(i) \o g[i - 1]
    <3>1. i # 0 => i \in 1..MaxRotate
      BY FileLogAssumption DEF Positions
    <3> QED
      BY <1>0, <1>3, <2>1, <3>1
  <2>3. g = [i \in Positions |-> g[i]]
    BY <1>3
  <2> QED
    BY <2>2, <2>3
<1>5. IsUpTo(u)
  <2> HIDE DEF IsUpTo
  <2> QED
    BY <1>4, Zenon
<1> HIDE DEF u
<1>6. u = g
  <2>1. DOMAIN u = Positions /\ DOMAIN g = Positions
    BY <1>5
  <2> DEFINE K == {i \in Positions : u[i] = g[i]}
  <2>2. 0 \in K
    BY <1>0, <1>3, <1>5
  <2>3. \A i \in (0 + 1)..MaxRotate : i - 1 \in K => i \in K
    <3> SUFFICES ASSUME NEW i \in 1..MaxRotate, i - 1 \in K PROVE i \in K
      OBVIOUS
    <3>1. u[i] = RecordsAt(i) \o u[i - 1]
      <4>1. \A j \in Positions : u[j] = IF j = 0 THEN RecordsAt(0) ELSE RecordsAt(j) \o u[j - 1]
        BY <1>5, Zenon
      <4> HIDE DEF IsUpTo
      <4> QED
        BY <1>0, <4>1, Zenon
    <3>2. g[i] = RecordsAt(i) \o g[i - 1]
      <4>1. h[i] = RecordsAt(i)
        BY <1>0, Zenon
      <4> HIDE DEF h
      <4> QED
        BY <1>3, <4>1
    <3>3. u[i - 1] = g[i - 1]
      OBVIOUS
    <3> QED
      BY <1>0, <3>1, <3>2, <3>3
  <2>4. \A i \in 0..MaxRotate : i \in K
    <3> HIDE DEF K
    <3>1. 0 \in 0..MaxRotate
      BY <1>0
    <3> QED
      BY <1>0, <2>2, <2>3, <3>1, Upwards
  <2>5. \A i \in Positions : u[i] = g[i]
    BY <2>4 DEF Positions
  <2>6. u = [i \in Positions |-> u[i]]
    BY <1>5
  <2> QED
    BY <2>5, <2>6
<1>7. Joins(g, dir, data)
  <2>1. \A i \in Positions : h[i] = Held(dir, data, i)
    BY <1>2
  <2> HIDE DEF h
  <2> QED
    BY <1>0, <1>3, <2>1 DEF Joins
<1> QED
  BY <1>1, <1>6, <1>7 DEF ArchiveJoined

(* From where two archives agree, they agree as long as the files do. *)
Same(g, h, m) == g[m] = h[m]

Assoc(s, t, u) == s \o (t \o u) = (s \o t) \o u

(* Concatenation is associative, under a name for the provers.             *)
LEMMA AssocOf ==
    ASSUME NEW T, NEW s \in Seq(T), NEW t \in Seq(T), NEW u \in Seq(T)
    PROVE  Assoc(s, t, u)
  BY ConcatAssociative DEF Assoc

(* Equal at k, and the files above k the same up to m. *)
Agree(g, h, d, x, e, y, k, m) ==
    /\ Joins(g, d, x) /\ Joins(h, e, y)
    /\ k \in 0..MaxRotate /\ m \in k..MaxRotate
    /\ g[k] = h[k]
    /\ \A i \in (k + 1)..m : Held(d, x, i) = Held(e, y, i)

LEMMA JoinsSame ==
    ASSUME NEW g, NEW h, NEW d, NEW x, NEW e, NEW y, NEW k, NEW m, Agree(g, h, d, x, e, y, k, m)
    PROVE  Same(g, h, m)
<1> USE DEF Agree, Same
<1> DEFINE K == {i \in k..m : g[i] = h[i]}
<1>0. MaxRotate \in Nat
  BY FileLogAssumption
<1>1. k \in 0..m /\ m \in Nat /\ k \in K /\ m \in k..m
  BY <1>0
<1>2. ASSUME NEW i \in (k + 1)..m, i - 1 \in K PROVE i \in K
  <2>1. i \in 1..MaxRotate /\ i \in k..m
    BY <1>0
  <2>2. g[i] = Held(d, x, i) \o g[i - 1] /\ h[i] = Held(e, y, i) \o h[i - 1]
    BY <2>1 DEF Joins
  <2> QED
    BY <1>2, <2>1, <2>2
<1>3. \A i \in k..m : i \in K
  <2> HIDE DEF K
  <2> QED
    BY <1>1, <1>2, Upwards
<1> QED
  BY <1>1, <1>3

(* A file that moves on by one position leaves the archive as it is, but   *)
(* for a file that was the oldest and is replaced.                         *)
Moves(d, x, e, y, k) ==
    /\ k \in Nat /\ k < MaxRotate
    /\ Held(e, y, k) = <<>> /\ Held(e, y, k + 1) = Held(d, x, k)
    /\ \A i \in Positions : i # k /\ i # k + 1 => Held(e, y, i) = Held(d, x, i)
    /\ k + 1 < MaxRotate => Held(d, x, k + 1) = <<>>

(* What JoinsMoved asks of the files, and what it says of the archive.     *)
Texts(d, x, T) == \A i \in Positions : Held(d, x, i) \in Seq(T)

Rotated(g, h, d, x, m) == g[m] = h[m] \/ g[m] = Held(d, x, m) \o h[m]

LEMMA JoinsMoved ==
    ASSUME NEW T, NEW g \in [Positions -> Seq(T)], NEW h \in [Positions -> Seq(T)],
           NEW d, NEW x, NEW e, NEW y, Joins(g, d, x), Joins(h, e, y),
           Texts(d, x, T), NEW k, Moves(d, x, e, y, k)
    PROVE  Rotated(g, h, d, x, MaxRotate)
<1> USE DEF Positions, Moves, Texts, Rotated
<1>0. /\ MaxRotate \in Nat /\ k \in Positions /\ k + 1 \in Positions /\ k + 1 \in 1..MaxRotate
      /\ (k + 1) - 1 = k
  BY FileLogAssumption
<1>1. /\ g[k + 1] = Held(d, x, k + 1) \o g[k]
      /\ h[k + 1] = Held(d, x, k) \o h[k]
  BY <1>0 DEF Joins
<1>2. h[k + 1] = g[k]
  <2>1. CASE k = 0
    <3>1. g[k] = Held(d, x, k) /\ h[k] = <<>>
      BY <2>1 DEF Joins
    <3> QED
      BY <1>0, <1>1, <3>1
  <2>2. CASE k # 0
    <3>1. k \in 1..MaxRotate /\ k - 1 \in 0..MaxRotate /\ 0 \in 0..MaxRotate /\ k - 1 \in Positions
      BY <1>0, <2>2
    <3>2. g[0] = h[0]
      BY <1>0, <2>2 DEF Joins
    <3>3. \A i \in (0 + 1)..(k - 1) : Held(d, x, i) = Held(e, y, i)
      BY <1>0
    <3>4. g[k - 1] = h[k - 1]
      <4>1. k - 1 \in 0..MaxRotate
        BY <3>1
      <4>2. Agree(g, h, d, x, e, y, 0, k - 1)
        BY <3>1, <3>2, <3>3, <4>1 DEF Agree
      <4>3. Same(g, h, k - 1)
        BY <4>2, JoinsSame, Zenon
      <4> QED
        BY <4>3 DEF Same
    <3>5. g[k] = Held(d, x, k) \o g[k - 1] /\ h[k] = <<>> \o h[k - 1]
      BY <3>1 DEF Joins
    <3>6. h[k] = g[k - 1]
      BY <3>1, <3>4, <3>5
    <3> QED
      BY <1>1, <3>5, <3>6
  <2> QED
    BY <2>1, <2>2
<1>3. CASE k + 1 = MaxRotate
  BY <1>1, <1>2, <1>3
<1>4. CASE k + 1 # MaxRotate
  <2>1. k + 1 < MaxRotate
    BY <1>0, <1>4
  <2>2. g[k + 1] = h[k + 1]
    <3>1. g[k] \in Seq(T) /\ Held(d, x, k + 1) = <<>>
      BY <1>0, <2>1
    <3>2. \A s \in Seq(T) : <<>> \o s = s
      OBVIOUS
    <3> QED
      BY <1>1, <1>2, <3>1, <3>2, Zenon
  <2>3. k + 1 \in 0..MaxRotate /\ MaxRotate \in (k + 1)..MaxRotate
    BY <1>0
  <2>4. \A i \in ((k + 1) + 1)..MaxRotate : Held(d, x, i) = Held(e, y, i)
    BY <1>0
  <2>5. Agree(g, h, d, x, e, y, k + 1, MaxRotate)
    BY <2>2, <2>3, <2>4 DEF Agree
  <2>6. Same(g, h, MaxRotate)
    BY <2>5, JoinsSame, Zenon
  <2> QED
    BY <2>6 DEF Same
<1> QED
  BY <1>3, <1>4

(* A record written to the newest file is the last of the archive. *)
Adds(d, x, e, y, q, c) ==
    /\ q \in Positions /\ q \in {0, 1}
    /\ q = 1 => Held(d, x, 0) = <<>>
    /\ Held(e, y, q) = Held(d, x, q) \o <<c>>
    /\ \A i \in Positions : i # q => Held(e, y, i) = Held(d, x, i)

Longer(g, h, c, m) == h[m] = Append(g[m], c)

LEMMA JoinsAppended ==
    ASSUME NEW T, NEW g \in [Positions -> Seq(T)], NEW h \in [Positions -> Seq(T)],
           NEW d, NEW x, NEW e, NEW y, Joins(g, d, x), Joins(h, e, y),
           Texts(d, x, T), NEW c \in T, NEW q, Adds(d, x, e, y, q, c)
    PROVE  Longer(g, h, c, MaxRotate)
<1> USE DEF Positions, Adds, Texts, Longer
<1> DEFINE K == {i \in q..MaxRotate : h[i] = g[i] \o <<c>>}
<1>0. MaxRotate \in Nat /\ q \in 0..MaxRotate
  BY FileLogAssumption
<1>1. q \in K
  <2>1. CASE q = 0
    BY <1>0, <2>1 DEF Joins
  <2>2. CASE q # 0
    <3>1. q = 1 /\ 1 \in 1..MaxRotate /\ 0 \in Positions /\ 1 - 1 = 0
      BY <1>0, <2>2
    <3>2. g[0] = <<>> /\ h[0] = <<>>
      BY <3>1 DEF Joins
    <3>3. g[1] = Held(d, x, 1) \o g[0] /\ h[1] = Held(e, y, 1) \o h[0]
      BY <3>1 DEF Joins
    <3>4. Held(d, x, 1) \in Seq(T) /\ Held(e, y, 1) = Held(d, x, 1) \o <<c>>
      BY <3>1
    <3>5. h[1] = g[1] \o <<c>>
      <4>1. \A s \in Seq(T) : s \o <<>> = s
        OBVIOUS
      <4>2. Held(d, x, 1) \o <<c>> \in Seq(T)
        BY <3>4
      <4> QED
        BY <3>2, <3>3, <3>4, <4>1, <4>2, Zenon
    <3> QED
      BY <1>0, <3>1, <3>5
  <2> QED
    BY <2>1, <2>2
<1>2. ASSUME NEW i \in (q + 1)..MaxRotate, i - 1 \in K PROVE i \in K
  <2>1. /\ i \in 1..MaxRotate /\ i \in Positions /\ i # q /\ i - 1 \in Positions
        /\ i \in q..MaxRotate
    BY <1>0
  <2>2. g[i] = Held(d, x, i) \o g[i - 1] /\ h[i] = Held(d, x, i) \o h[i - 1]
    BY <2>1 DEF Joins
  <2>3. h[i - 1] = g[i - 1] \o <<c>>
    BY <1>2
  <2>4. Held(d, x, i) \in Seq(T) /\ g[i - 1] \in Seq(T) /\ <<c>> \in Seq(T)
    <3>1. \A v \in T : <<v>> \in Seq(T)
      OBVIOUS
    <3>2. g[i - 1] \in Seq(T)
      BY <2>1, Zenon
    <3> QED
      BY <2>1, <3>1, <3>2, Zenon
  <2>5. Held(d, x, i) \o (g[i - 1] \o <<c>>) = (Held(d, x, i) \o g[i - 1]) \o <<c>>
    <3>1. Assoc(Held(d, x, i), g[i - 1], <<c>>)
      BY <2>4, AssocOf, Zenon
    <3> QED
      BY <3>1 DEF Assoc
  <2> QED
    BY <2>1, <2>2, <2>3, <2>5
<1>3. \A i \in q..MaxRotate : i \in K
  <2> HIDE DEF K
  <2> QED
    BY <1>0, <1>1, <1>2, Upwards
<1>4. h[MaxRotate] = g[MaxRotate] \o <<c>>
  <2>1. MaxRotate \in q..MaxRotate
    BY <1>0
  <2> QED
    BY <1>3, <2>1
<1>5. g[MaxRotate] \in Seq(T)
  BY <1>0
<1> QED
  BY <1>4, <1>5

(* One process of the system writes to the log; elink is one.              *)
Single == \A p, q \in Processes : p = q

(* The stream a process writes to is the newest file there is. *)
Newest(f) ==
    \/ dir[0] = f
    \/ dir[0] = NoFile /\ MaxRotate > 0 /\ dir[1] = f

StreamInv ==
    \A p \in Processes :
        /\ proc[p] # "run" => fp[p] = NoFile
        /\ fd[p] # NoFile => fd[p] = fp[p]
        /\ fp[p] # NoFile => Newest(fp[p])
        /\ fd[p] # NoFile => dir[0] = fd[p] \/ \E w \in Writers : pc[w] = "reopen"

(* No file has two names. *)
OneName == \A i, j \in Positions : dir[i] = dir[j] /\ dir[i] # NoFile => i = j

(* Who rotates has an open file, and has moved away what is above. *)
RotateInv ==
    \A w \in Writers :
        /\ pc[w] \in {"rename", "reopen"} => fd[ProcessOf[w]] # NoFile
        /\ pc[w] = "rename" =>
              /\ n[w] < MaxRotate
              /\ n[w] + 1 < MaxRotate => dir[n[w] + 1] = NoFile
        /\ pc[w] = "reopen" => dir[0] = NoFile

KeepInv == LockInv /\ Locked /\ StreamInv /\ OneName /\ RotateInv

(* A process that runs has the semaphore. *)
LEMMA LockedStep ==
    ASSUME InitSafe, LockInv, Locked, [Next]_vars
    PROVE  Locked'
<1>0. TypeOK
  BY DEF LockInv
<1>1. ASSUME NEW p \in Processes, Start(p) PROVE Locked'
  BY <1>0, <1>1 DEF Locked, TypeOK, Start, Boot, SemCreate, SemSetVal, SemUp, SemExists,
     LockOpen, LockOpenFails, Config
<1>2. ASSUME NEW p \in Processes, Die(p) PROVE Locked'
  BY <1>0, <1>2 DEF Die, TypeOK, Locked
<1>3. ASSUME NEW w \in Writers, Call(w) \/ Write(w) PROVE Locked'
  <2>1. CASE AppendNowhere(w)
    BY <1>2, <2>1, FileLogAssumption DEF AppendNowhere
  <2>2. CASE ~AppendNowhere(w)
    <3>1. UNCHANGED <<proc, semid>>
      BY <1>3, <2>2 DEF Write, Call, Lock, Fstat, Rename, RenameAt, Reopen, ReopenFails, AppendRecord,
         Unlock, procVars
    <3> QED
      BY <3>1 DEF Locked
  <2> QED
    BY <2>1, <2>2
<1>4. CASE UNCHANGED vars
  BY <1>4 DEF vars, procVars, Locked
<1> QED
  BY <1>1, <1>2, <1>3, <1>4 DEF Next, Crash

(* fopen: the file is the newest one, and has no other name. *)
LEMMA OpenedNewest ==
    ASSUME TypeOK, OneName, NEW p \in Processes, NEW f \in Inodes, Opened(p, f)
    PROVE  OneName' /\ fp'[p] = f /\ fd'[p] = f /\ dir'[0] = f
<1>1. 0 \in Positions
  BY LoopPositions
<1>2. fp'[p] = f /\ fd'[p] = f /\ dir'[0] = f /\ f # NoFile
  BY <1>1, FileLogAssumption DEF TypeOK, Opened
<1>3. \A i \in Positions : i # 0 => dir'[i] = dir[i]
  BY DEF TypeOK, Opened
<1>4. \A i \in Positions : i # 0 => dir[i] # f
  BY <1>1, <1>2 DEF Opened, Unused, OneName
<1> QED
  BY <1>1, <1>2, <1>3, <1>4 DEF OneName

(* Every step keeps the stream the newest file, the names apart and the    *)
(* rotation where it was.                                                  *)
LEMMA KeepInvStep ==
    ASSUME Single, InitSafe, KeepInv, [Next]_vars, LockInv'
    PROVE  KeepInv'
<1> USE FileLogAssumption
<1>0. /\ LockInv /\ Locked /\ StreamInv /\ OneName /\ RotateInv /\ TypeOK
      /\ \A w \in Writers : ProcessOf[w] \in Processes
      /\ \A v, w \in Writers : pc[v] \in Section /\ pc[w] \in Section => v = w
      /\ \A w \in Writers : pc[w] # "idle" => proc[ProcessOf[w]] = "run"
      /\ 0 \in Positions /\ (MaxRotate > 0 => 1 \in Positions)
  <2>1. LockInv /\ Locked
    BY DEF KeepInv
  <2> QED
    BY <2>1, Alone DEF KeepInv, LockInv, SemInv, Positions
<1>00. Locked'
  BY <1>0, LockedStep
<1>1. ASSUME NEW p \in Processes, Start(p) PROVE StreamInv' /\ OneName' /\ RotateInv'
  <2>1. CASE Config(p) /\ \E f \in Inodes : Opened(p, f)
    <3>1. PICK f \in Inodes : Opened(p, f)
      BY <2>1
    <3>2. OneName' /\ fp'[p] = f /\ fd'[p] = f /\ dir'[0] = f
      BY <1>0, <3>1, OpenedNewest
    <3>3. \A w \in Writers : pc[w] = "idle"
      BY <1>0, <2>1 DEF Config, Single
    <3>4. pc' = pc /\ proc'[p] = "run"
      BY <1>0, <2>1 DEF Config, TypeOK
    <3>5. StreamInv'
      BY <3>2, <3>4 DEF StreamInv, Newest, Single
    <3>6. RotateInv'
      BY <3>3, <3>4 DEF RotateInv
    <3> QED
      BY <3>2, <3>5, <3>6
  <2>2. CASE ~(Config(p) /\ \E f \in Inodes : Opened(p, f))
    <3>1. UNCHANGED <<fp, fd, pc, n, dir>>
      BY <1>1, <2>2 DEF Start, Boot, SemCreate, SemSetVal, SemUp, SemExists, LockOpen, LockOpenFails,
         Config, disk
    <3>2. proc[p] # "run" /\ \A q \in Processes : q # p => proc'[q] = proc[q]
      BY <1>0, <1>1 DEF Start, Boot, SemCreate, SemSetVal, SemUp, SemExists, LockOpen, LockOpenFails,
         Config, TypeOK
    <3>3. StreamInv'
      BY <1>0, <3>1, <3>2 DEF StreamInv, Newest
    <3> QED
      BY <1>0, <3>1, <3>3 DEF OneName, RotateInv
  <2> QED
    BY <2>1, <2>2
<1>2. ASSUME NEW p \in Processes, Die(p) PROVE StreamInv' /\ OneName' /\ RotateInv'
  <2>1. dir' = dir /\ fp'[p] = NoFile /\ fd'[p] = NoFile
    BY <1>0, <1>2 DEF Die, disk, TypeOK
  <2>2. \A w \in Writers : pc'[w] = "idle"
    BY <1>0, <1>2 DEF Die, Single
  <2>3. StreamInv'
    BY <2>1 DEF StreamInv, Single
  <2> QED
    BY <1>0, <2>1, <2>2, <2>3 DEF OneName, RotateInv
<1>3. ASSUME NEW w \in Writers, Call(w) \/ Write(w)
      PROVE  StreamInv' /\ OneName' /\ RotateInv'
  <2> DEFINE p == ProcessOf[w]
  <2>0. p \in Processes
    BY <1>0
  <2>1. CASE Call(w) \/ Lock(w) \/ Unlock(w) \/ AppendRecord(w)
    <3>1. /\ UNCHANGED <<proc, fp, fd, dir, n>>
          /\ \A v \in Writers : pc'[v] \in {"rename", "reopen"} <=> pc[v] \in {"rename", "reopen"}
          /\ \A v \in Writers : pc'[v] \in {"rename", "reopen"} => pc'[v] = pc[v]
      BY <1>0, <2>1 DEF Call, Lock, Unlock, AppendRecord, procVars, disk, TypeOK
    <3>2. \A v \in Writers : pc[v] = "reopen" => pc'[v] = "reopen"
      BY <3>1
    <3>3. StreamInv'
      BY <1>0, <3>1, <3>2 DEF StreamInv, Newest
    <3> QED
      BY <1>0, <3>1, <3>3 DEF OneName, RotateInv
  <2>2. CASE Fstat(w)
    <3>1. /\ UNCHANGED <<proc, fp, fd, dir>>
          /\ pc[w] = "fstat" /\ pc'[w] # "reopen"
          /\ \A v \in Writers : v # w => pc'[v] = pc[v] /\ n'[v] = n[v]
          /\ pc'[w] = "rename" => TooBig(p) /\ MaxRotate > 0 /\ n'[w] = MaxRotate - 1
      BY <1>0, <2>2 DEF Fstat, procVars, disk, TypeOK
    <3>2. \A v \in Writers : pc[v] # "reopen"
      BY <1>0, <3>1 DEF Section
    <3>3. StreamInv'
      BY <1>0, <3>1, <3>2 DEF StreamInv, Newest
    <3>4. RotateInv'
      BY <1>0, <3>1 DEF RotateInv, TooBig
    <3> QED
      BY <1>0, <3>1, <3>3, <3>4 DEF OneName
  <2>3. CASE Rename(w)
    <3> DEFINE i == n[w]
    <3>1. /\ UNCHANGED <<proc, fp, fd>> /\ pc[w] = "rename"
          /\ \A v \in Writers : v # w => pc'[v] = pc[v] /\ n'[v] = n[v]
          /\ pc'[w] = IF i = 0 THEN "reopen" ELSE "rename"
          /\ n'[w] = IF i = 0 THEN 0 ELSE i - 1
      BY <1>0, <2>3 DEF Rename, RenameAt, procVars, TypeOK
    <3>2. /\ fd[p] # NoFile /\ i \in Nat /\ i < MaxRotate
          /\ i \in Positions /\ i + 1 \in Positions
          /\ i + 1 < MaxRotate => dir[i + 1] = NoFile
      BY <1>0, <3>1 DEF RotateInv, TypeOK, Positions
    <3>3. dir' = IF dir[i] = NoFile THEN dir ELSE [dir EXCEPT ![i + 1] = dir[i], ![i] = NoFile]
      BY <2>3 DEF Rename, RenameAt
    <3>4. \A v \in Writers : v # w => pc[v] \notin Section
      BY <1>0, <3>1 DEF Section
    <3>5. /\ dir'[i] = NoFile
          /\ dir[i] # NoFile => dir'[i + 1] = dir[i]
          /\ dir[i] = NoFile => dir'[i + 1] = dir[i + 1]
          /\ \A j \in Positions : j # i /\ j # i + 1 => dir'[j] = dir[j]
      BY <1>0, <3>2, <3>3 DEF TypeOK
    <3>6. dir[0] = fd[p] /\ fd[p] = fp[p] /\ proc[p] = "run"
      BY <1>0, <2>0, <3>1, <3>2, <3>4 DEF StreamInv, Section
    <3>7. OneName'
      BY <1>0, <3>2, <3>5 DEF OneName
    <3>8. CASE i = 0
      <4>1. dir'[0] = NoFile /\ dir'[1] = fp[p] /\ MaxRotate > 0 /\ pc'[w] = "reopen"
        BY <3>1, <3>2, <3>5, <3>6, <3>8
      <4>2. StreamInv'
        BY <2>0, <3>1, <3>6, <4>1 DEF StreamInv, Newest, Single
      <4>3. RotateInv'
        BY <3>1, <3>2, <3>4, <4>1 DEF RotateInv, Section
      <4> QED
        BY <3>7, <4>2, <4>3
    <3>9. CASE i # 0
      <4>1. dir'[0] = dir[0] /\ pc'[w] = "rename" /\ n'[w] = i - 1
        BY <1>0, <3>1, <3>2, <3>5, <3>9
      <4>2. StreamInv'
        BY <2>0, <3>1, <3>6, <4>1 DEF StreamInv, Newest, Single
      <4>3. n'[w] < MaxRotate /\ dir'[n'[w] + 1] = NoFile
        BY <3>2, <3>5, <4>1
      <4>4. RotateInv'
        BY <3>1, <3>2, <3>4, <4>1, <4>3 DEF RotateInv, Section
      <4> QED
        BY <3>7, <4>2, <4>4
    <3> QED
      BY <3>8, <3>9
  <2>4. CASE Reopen(w)
    <3>1. PICK f \in Inodes : Opened(p, f)
      BY <2>4 DEF Reopen
    <3>2. /\ pc[w] = "reopen" /\ pc' = [pc EXCEPT ![w] = "append"] /\ UNCHANGED <<proc, n>>
      BY <2>4 DEF Reopen
    <3>3. OneName' /\ fp'[p] = f /\ fd'[p] = f /\ dir'[0] = f
      BY <1>0, <2>0, <3>1, OpenedNewest
    <3>4. \A v \in Writers : pc'[v] \notin {"rename", "reopen"}
      BY <1>0, <3>2 DEF TypeOK, Section
    <3>5. proc'[p] = "run"
      BY <1>0, <3>2
    <3>6. StreamInv'
      BY <2>0, <3>3, <3>5 DEF StreamInv, Newest, Single
    <3> QED
      BY <3>3, <3>4, <3>6 DEF RotateInv
  <2>5. CASE ReopenFails(w)
    <3>1. /\ pc[w] = "reopen" /\ pc' = [pc EXCEPT ![w] = "unlock"]
          /\ UNCHANGED <<proc, fp, n, dir>> /\ fd'[p] = NoFile
      BY <1>0, <2>0, <2>5 DEF ReopenFails, disk, TypeOK
    <3>2. \A v \in Writers : pc'[v] \notin {"rename", "reopen"}
      BY <1>0, <3>1 DEF TypeOK, Section
    <3>3. StreamInv'
      BY <1>0, <2>0, <3>1 DEF StreamInv, Newest, Single
    <3> QED
      BY <1>0, <3>1, <3>2, <3>3 DEF OneName, RotateInv
  <2>6. CASE AppendNowhere(w)
    BY <1>2, <2>0, <2>6 DEF AppendNowhere
  <2> QED
    BY <1>3, <2>1, <2>2, <2>3, <2>4, <2>5, <2>6 DEF Write
<1>4. ASSUME UNCHANGED vars PROVE StreamInv' /\ OneName' /\ RotateInv'
  <2>1. proc' = proc /\ fp' = fp /\ fd' = fd /\ pc' = pc /\ n' = n /\ dir' = dir
    BY <1>4 DEF vars, procVars, disk
  <2> QED
    BY <1>0, <2>1 DEF StreamInv, Newest, OneName, RotateInv
<1>5. StreamInv' /\ OneName' /\ RotateInv'
  BY <1>1, <1>2, <1>3, <1>4, Zenon DEF Next, Crash
<1> QED
  BY <1>00, <1>5 DEF KeepInv

(* One step of the archive, as KeepsRecords allows it. *)
Kept ==
    \/ Archive' = Archive
    \/ Archive' = Append(Archive, count')
    \/ Archive = RecordsAt(MaxRotate) \o Archive'

(* The positions hold sequences of records. *)
LEMMA HeldOf ==
    ASSUME TypeOK
    PROVE  Texts(dir, data, Nat)
  BY EmptySeq DEF TypeOK, Held, Texts

(* fopen adds no record and hides none. *)
LEMMA OpenedKept ==
    ASSUME TypeOK, TypeOK', NEW p \in Processes, NEW f \in Inodes, Opened(p, f)
    PROVE  UNCHANGED <<dir, data>> \/ Kept
<1> USE FileLogAssumption
<1>0. 0 \in Positions /\ MaxRotate \in Nat
  BY LoopPositions
<1>1. CASE f = dir[0]
  BY <1>0, <1>1 DEF Opened, TypeOK
<1>2. CASE f # dir[0]
  <2>1. PICK g \in [Positions -> Seq(Nat)] : Joins(g, dir, data) /\ Archive = g[MaxRotate]
    BY ArchiveIsJoined DEF ArchiveJoined
  <2>2. ArchiveJoined'
    BY ArchiveIsJoined, PTL
  <2>3. PICK h \in [Positions -> Seq(Nat)] : Joins(h, dir', data') /\ Archive' = h[MaxRotate]
    BY <2>2 DEF ArchiveJoined
  <2>4. dir[0] = NoFile /\ f \in Unused
    BY <1>2 DEF Opened
  <2>5. /\ dir'[0] = f /\ f # NoFile /\ data'[f] = <<>>
        /\ \A i \in Positions : i # 0 => dir'[i] = dir[i]
        /\ \A i \in Positions : dir[i] # NoFile => data'[dir[i]] = data[dir[i]]
    BY <1>0, <1>2, <2>4 DEF Opened, Unused, TypeOK
  <2>6. \A i \in Positions : Held(dir, data, i) = Held(dir', data', i)
    BY <1>0, <2>4, <2>5 DEF Held
  <2>7. g[0] = h[0]
    BY <1>0, <2>1, <2>3, <2>6 DEF Joins
  <2>8. Agree(g, h, dir, data, dir', data', 0, MaxRotate)
    BY <1>0, <2>1, <2>3, <2>6, <2>7 DEF Agree, Positions
  <2>9. Same(g, h, MaxRotate)
    BY <2>8, JoinsSame, Zenon
  <2> QED
    BY <2>1, <2>3, <2>9 DEF Same, Kept
<1> QED
  BY <1>1, <1>2

(* A rename leaves the archive as it is or drops what the oldest file had. *)
LEMMA RenameKept ==
    ASSUME TypeOK, TypeOK', RotateInv, NEW w \in Writers, Rename(w)
    PROVE  UNCHANGED <<dir, data, count>> \/ Kept
<1> USE FileLogAssumption
<1> DEFINE k == n[w]
<1>1. /\ k \in Nat /\ k < MaxRotate /\ k \in Positions /\ k + 1 \in Positions
      /\ k + 1 < MaxRotate => dir[k + 1] = NoFile
  BY DEF Rename, RenameAt, RotateInv, TypeOK, Positions
<1>2. /\ dir' = IF dir[k] = NoFile THEN dir ELSE [dir EXCEPT ![k + 1] = dir[k], ![k] = NoFile]
      /\ data' = data /\ count' = count
  BY DEF Rename, RenameAt
<1>3. CASE dir[k] = NoFile
  BY <1>2, <1>3
<1>4. CASE dir[k] # NoFile
  <2>1. PICK g \in [Positions -> Seq(Nat)] : Joins(g, dir, data) /\ Archive = g[MaxRotate]
    BY ArchiveIsJoined DEF ArchiveJoined
  <2>2. ArchiveJoined'
    BY ArchiveIsJoined, PTL
  <2>3. PICK h \in [Positions -> Seq(Nat)] : Joins(h, dir', data') /\ Archive' = h[MaxRotate]
    BY <2>2 DEF ArchiveJoined
  <2>4. /\ dir'[k] = NoFile /\ dir'[k + 1] = dir[k]
        /\ \A j \in Positions : j # k /\ j # k + 1 => dir'[j] = dir[j]
    BY <1>1, <1>2, <1>4 DEF TypeOK
  <2>5. Moves(dir, data, dir', data', k)
    <3>1. Held(dir', data', k) = <<>>
      BY <2>4 DEF Held
    <3>2. Held(dir', data', k + 1) = Held(dir, data, k)
      BY <1>2, <1>4, <2>4 DEF Held
    <3>3. \A i \in Positions : i # k /\ i # k + 1 => Held(dir', data', i) = Held(dir, data, i)
      <4>1. data' = data
        BY <1>2
      <4> HIDE DEF k
      <4> QED
        BY <2>4, <4>1, Zenon DEF Held
    <3>4. k + 1 < MaxRotate => Held(dir, data, k + 1) = <<>>
      BY <1>1 DEF Held
    <3> HIDE DEF k
    <3> QED
      BY <1>1, <3>1, <3>2, <3>3, <3>4 DEF Moves
  <2>6. Texts(dir, data, Nat)
    BY HeldOf
  <2>7. Rotated(g, h, dir, data, MaxRotate)
    <3> HIDE DEF k
    <3> QED
      BY <2>1, <2>3, <2>5, <2>6, JoinsMoved, Zenon
  <2> QED
    BY <2>1, <2>3, <2>7 DEF Kept, RecordsAt, Held, Rotated
<1> QED
  BY <1>3, <1>4

(* A record is written behind all others. *)
LEMMA AppendKept ==
    ASSUME KeepInv, TypeOK', NEW w \in Writers, AppendRecord(w)
    PROVE  Kept
<1> USE FileLogAssumption
<1> DEFINE p == ProcessOf[w]
           f == fp[p]
<1>0. TypeOK /\ StreamInv /\ OneName /\ p \in Processes
  BY DEF KeepInv, LockInv
<1>1. /\ f # NoFile /\ dir' = dir /\ count' = count + 1 /\ count' \in Nat
      /\ data' = [data EXCEPT ![f] = @ \o <<count + 1>>]
  BY <1>0 DEF AppendRecord, TypeOK
<1>2. PICK q \in {0, 1} : /\ q \in Positions /\ dir[q] = f
                          /\ q = 1 => dir[0] = NoFile
  <2>1. Newest(f)
    BY <1>0, <1>1 DEF StreamInv
  <2> QED
    BY <2>1 DEF Newest, Positions
<1>3. /\ data'[f] = data[f] \o <<count'>>
      /\ \A i \in Positions : dir[i] # f /\ dir[i] # NoFile => data'[dir[i]] = data[dir[i]]
  BY <1>0, <1>1 DEF TypeOK
<1>4. \A i \in Positions : i # q => dir[i] # f
  BY <1>0, <1>1, <1>2 DEF OneName
<1>5. PICK g \in [Positions -> Seq(Nat)] : Joins(g, dir, data) /\ Archive = g[MaxRotate]
  BY <1>0, ArchiveIsJoined DEF ArchiveJoined
<1>6. ArchiveJoined'
  BY ArchiveIsJoined, PTL
<1>7. PICK h \in [Positions -> Seq(Nat)] : Joins(h, dir', data') /\ Archive' = h[MaxRotate]
  BY <1>6 DEF ArchiveJoined
<1>8. Adds(dir, data, dir', data', q, count')
  <2>1. q = 1 => Held(dir, data, 0) = <<>>
    BY <1>2 DEF Held
  <2> HIDE DEF f
  <2>2. Held(dir', data', q) = Held(dir, data, q) \o <<count'>>
    BY <1>1, <1>2, <1>3 DEF Held
  <2>3. \A i \in Positions : i # q => Held(dir', data', i) = Held(dir, data, i)
    BY <1>1, <1>3, <1>4 DEF Held
  <2> QED
    BY <1>2, <2>1, <2>2, <2>3 DEF Adds
<1>9. Texts(dir, data, Nat)
  BY <1>0, HeldOf
<1>10. Longer(g, h, count', MaxRotate)
  BY <1>1, <1>5, <1>7, <1>8, <1>9, JoinsAppended, Zenon
<1> QED
  BY <1>5, <1>7, <1>10 DEF Kept, Longer

(* Every step of the files is one that KeepsRecords allows. *)
LEMMA KeptStep ==
    ASSUME KeepInv, TypeOK', [Next]_vars
    PROVE  UNCHANGED <<dir, data, count>> \/ Kept
<1>0. TypeOK /\ RotateInv /\ \A w \in Writers : ProcessOf[w] \in Processes
  BY FileLogAssumption DEF KeepInv, LockInv
<1>1. ASSUME NEW p \in Processes, Start(p)
      PROVE  UNCHANGED <<dir, data, count>> \/ Kept
  <2>1. CASE \E f \in Inodes : Config(p) /\ Opened(p, f)
    BY <1>0, <2>1, OpenedKept DEF Config
  <2>2. CASE ~ \E f \in Inodes : Config(p) /\ Opened(p, f)
    BY <1>1, <2>2 DEF Start, Boot, SemCreate, SemSetVal, SemUp, SemExists, LockOpen, LockOpenFails,
       Config, disk
  <2> QED
    BY <2>1, <2>2
<1>2. ASSUME NEW p \in Processes, Die(p)
      PROVE  UNCHANGED <<dir, data, count>> \/ Kept
  BY <1>2 DEF Die, disk
<1>3. ASSUME NEW w \in Writers, Call(w) \/ Write(w)
      PROVE  UNCHANGED <<dir, data, count>> \/ Kept
  <2>1. CASE Call(w) \/ Lock(w) \/ Fstat(w) \/ ReopenFails(w) \/ Unlock(w)
    BY <2>1 DEF Call, Lock, Fstat, ReopenFails, Unlock, disk
  <2>2. CASE Rename(w)
    BY <1>0, <2>2, RenameKept
  <2>3. CASE Reopen(w)
    BY <1>0, <2>3, OpenedKept DEF Reopen
  <2>4. CASE AppendRecord(w)
    BY <2>4, AppendKept
  <2>5. CASE AppendNowhere(w)
    BY <1>0, <1>2, <2>5 DEF AppendNowhere
  <2> QED
    BY <1>3, <2>1, <2>2, <2>3, <2>4, <2>5 DEF Write
<1>4. ASSUME UNCHANGED vars PROVE UNCHANGED <<dir, data, count>> \/ Kept
  BY <1>4 DEF vars, disk
<1> QED
  BY <1>1, <1>2, <1>3, <1>4, Zenon DEF Next, Crash

(* Rotation keeps every record but those of the oldest file, in the order  *)
(* they were written, also over deaths in the middle of it and failures of *)
(* fopen, with any number of threads, files and records (elog_file.c:72-   *)
(* 142).  Both conditions are needed: a second process that did not rotate *)
(* goes on writing to the renamed file, and without the lock two threads   *)
(* rotate at once.                                                         *)
THEOREM RecordsKept ==
    ASSUME Single, InitSafe
    PROVE  Spec => KeepsRecords
<1>1. Init /\ LockInv => KeepInv
  BY FileLogAssumption, LoopPositions
     DEF Init, KeepInv, Locked, StreamInv, OneName, RotateInv
<1>2. KeepInv /\ [Next]_vars /\ LockInv' => KeepInv'
  BY KeepInvStep
<1>3. KeepInv /\ [Next]_vars /\ LockInv' => [Kept]_<<dir, data, count>>
  BY KeptStep DEF LockInv
<1>4. [Kept]_<<dir, data, count>> =>
        [\/ Archive' = Archive
         \/ Archive' = Append(Archive, count')
         \/ Archive = RecordsAt(MaxRotate) \o Archive']_<<dir, data, count>>
  BY DEF Kept
<1> QED
  BY <1>1, <1>2, <1>3, <1>4, LockInvariant, PTL DEF Spec, KeepsRecords
=============================================================================
