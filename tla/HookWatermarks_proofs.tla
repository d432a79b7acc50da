------------------------ MODULE HookWatermarks_proofs ------------------------
(* For every set of processes, sessions and files left behind: the types,    *)
(* and MarksKept as long as a persist can read what it lists (MergeMayFail   *)
(* = FALSE).                                                                 *)
EXTENDS HookWatermarks, TLAPS

-----------------------------------------------------------------------------
(* Marks.                                                                    *)

(* The merge of two sets of marks is one.                                    *)
LEMMA MergeType ==
    ASSUME NEW m \in Marks, NEW n \in Marks
    PROVE  Merge(m, n) \in Marks
BY WatermarksAssumption DEF Marks, Merge, Larger

(* The empty marks.                                                          *)
LEMMA NoMarksType == NoMarks \in Marks
BY WatermarksAssumption DEF Marks, NoMarks

(* What a file reads as.                                                     *)
LEMMA ReadType ==
    ASSUME NEW m \in Marks \cup {Missing}
    PROVE  Read(m) \in Marks
BY NoMarksType DEF Read

(* A merge holds both of what it merged.                                     *)
LEMMA MergeHolds ==
    ASSUME NEW m \in Marks, NEW n \in Marks
    PROVE  Within(m, Merge(m, n)) /\ Within(n, Merge(m, n))
BY WatermarksAssumption DEF Marks, Merge, Larger, Within

(* Within is reflexive.                                                      *)
LEMMA WithinItself ==
    ASSUME NEW m \in Marks
    PROVE  Within(m, m)
BY WatermarksAssumption DEF Marks, Within

(* Within is transitive.                                                     *)
LEMMA WithinTrans ==
    ASSUME NEW k \in Marks, NEW m \in Marks, NEW n \in Marks, Within(k, m), Within(m, n)
    PROVE  Within(k, n)
BY WatermarksAssumption DEF Marks, Within

(* A present, readable file reads as its marks.                              *)
LEMMA ReadFound ==
    ASSUME NEW m \in Marks
    PROVE  Read(m) = m
BY LeftAssumption DEF Read

(* No persist in progress.                                                   *)
LEMMA NoPersistType == NoPersist \in PersistState
BY NoMarksType, WatermarksAssumption DEF NoPersist, PersistState

(* No load in progress.                                                      *)
LEMMA NoLoadType == NoLoad \in LoadState
BY NoMarksType DEF NoLoad, LoadState

-----------------------------------------------------------------------------
(* The type invariant.                                                       *)

(* The initial state is well-typed.                                          *)
LEMMA InitType == Init => TypeOK
BY LeftAssumption, WatermarksAssumption, NoPersistType, NoLoadType
   DEF Init, TypeOK

(* A step changes one lane's load, or one process's persist.                 *)
LEMMA SetLoad ==
    ASSUME TypeOK, NEW p \in Proc, NEW l \in Lane, NEW r \in LoadState,
           load' = [load EXCEPT ![p][l] = r]
    PROVE  load' \in [Proc -> [Lane -> LoadState]]
<1>1. load[p] \in [Lane -> LoadState]
  BY DEF TypeOK
<1>2. [load[p] EXCEPT ![l] = r] \in [Lane -> LoadState]
  BY <1>1
<1>3. load' = [load EXCEPT ![p] = [load[p] EXCEPT ![l] = r]]
  OBVIOUS
<1> QED BY <1>2, <1>3 DEF TypeOK

(* A process's persist record replaced.                                      *)
LEMMA SetPersist ==
    ASSUME TypeOK, NEW p \in Proc, NEW r \in PersistState,
           persist' = [persist EXCEPT ![p] = r]
    PROVE  persist' \in [Proc -> PersistState]
BY DEF TypeOK

(* A noted mark keeps the types.                                             *)
LEMMA NotedType ==
    ASSUME NEW m \in Marks \cup {Missing}, NEW s \in Session, NEW ts \in 1..MaxTs
    PROVE  [Read(m) EXCEPT ![s] = Larger(@, ts)] \in Marks
<1>1. Read(m) \in Marks
  BY ReadType
<1> QED BY <1>1, WatermarksAssumption DEF Marks, Larger

(* noteWatermark keeps the types.                                            *)
LEMMA NoteType ==
    ASSUME TypeOK, NEW p \in Proc, NEW s \in Session, NEW ts \in 1..MaxTs, Note(p, s, ts)
    PROVE  TypeOK'
<1> DEFINE noted(m) == [Read(m) EXCEPT ![s] = Larger(@, ts)]
           held == IF cache[p] = Missing THEN pending[p] ELSE cache[p]
           dirty == persist[p].dirty \/ (persist[p].at = "write" /\ Read(held)[s] < ts)
           r == [persist[p] EXCEPT !.dirty = dirty]
<1>1. ASSUME NEW m \in Marks \cup {Missing}
      PROVE  noted(m) \in Marks
  BY NotedType
<1>2. noted(cache[p]) \in Marks /\ noted(pending[p]) \in Marks
  BY <1>1 DEF TypeOK
<1>3. cache' \in [Proc -> Marks \cup {Missing}] /\ pending' \in [Proc -> Marks \cup {Missing}]
  <2> HIDE DEF noted
  <2>1. \/ pending' = [pending EXCEPT ![p] = noted(pending[p])] /\ cache' = cache
        \/ cache' = [cache EXCEPT ![p] = noted(cache[p])] /\ pending' = pending
    BY DEF Note, noted
  <2> QED BY <1>2, <2>1 DEF TypeOK
<1>4. persist' \in [Proc -> PersistState]
  <2>1. dirty \in BOOLEAN
    BY Zenon DEF dirty, TypeOK, PersistState
  <2>2. persist' = [persist EXCEPT ![p] = r]
    BY Zenon DEF Note
  <2> HIDE DEF dirty
  <2>3. persist[p] \in PersistState
    BY DEF TypeOK
  <2>4. r \in PersistState
    BY <2>1, <2>3 DEF PersistState
  <2> HIDE DEF r
  <2> QED BY <2>2, <2>4, SetPersist
<1> QED BY <1>3, <1>4 DEF TypeOK, Note, disk

(* A load's record replaced.                                                 *)
LEMMA LoadStepType ==
    ASSUME TypeOK, NEW p \in Proc, NEW l \in Lane, NEW r \in LoadState,
           load' = [load EXCEPT ![p][l] = r], UNCHANGED <<disk, up, memory, persist>>
    PROVE  TypeOK'
BY SetLoad DEF TypeOK, disk, memory

(* A persist's record changed in one field.                                  *)
LEMMA PersistStepType ==
    ASSUME TypeOK, NEW p \in Proc, NEW r \in PersistState,
           persist' = [persist EXCEPT ![p] = r],
           file' \in [File -> Marks \cup {Missing}], age' \in [File -> 0..2],
           UNCHANGED <<up, memory, load>>
    PROVE  TypeOK'
BY SetPersist DEF TypeOK, memory

(* A load that begins.                                                       *)
LEMMA BeginLoadType ==
    ASSUME TypeOK, NEW p \in Proc, NEW s \in Session, BeginLoad(p, s)
    PROVE  TypeOK'
<1> DEFINE r == [load[p][s] EXCEPT !.at = "list"]
<1>1. s \in Lane /\ load[p][s] \in LoadState
  BY DEF TypeOK, Lane
<1>2. r \in LoadState
  BY <1>1 DEF LoadState
<1>3. load' = [load EXCEPT ![p][s] = r]
  BY DEF BeginLoad
<1> HIDE DEF r
<1> QED BY <1>1, <1>2, <1>3, LoadStepType DEF BeginLoad

(* A load that reads a file.                                                 *)
LEMMA LoadType ==
    ASSUME TypeOK, NEW p \in Proc, NEW l \in Lane, NEW f \in File,
           ListFiles(p, l) \/ ReadFile(p, l, f)
    PROVE  TypeOK'
<1>2. CASE ListFiles(p, l)
  <2> DEFINE r == [at |-> "read", todo |-> Listing, got |-> NoMarks]
  <2>1. r \in LoadState
    BY NoMarksType DEF LoadState, Listing
  <2>2. load' = [load EXCEPT ![p][l] = r]
    BY <1>2 DEF ListFiles
  <2> HIDE DEF r
  <2> QED BY <1>2, <2>1, <2>2, LoadStepType DEF ListFiles
<1>3. CASE ReadFile(p, l, f)
  <2> DEFINE r == [load[p][l] EXCEPT !.todo = @ \ {f}, !.got = Merge(@, Read(file[f]))]
  <2>1. load[p][l] \in LoadState /\ Read(file[f]) \in Marks
    BY ReadType DEF TypeOK
  <2>2. Merge(load[p][l].got, Read(file[f])) \in Marks
    BY <2>1, MergeType DEF LoadState
  <2>3. r \in LoadState
    BY <2>1, <2>2 DEF LoadState
  <2>4. load' = [load EXCEPT ![p][l] = r]
    BY <1>3 DEF ReadFile
  <2> HIDE DEF r
  <2> QED BY <1>3, <2>3, <2>4, LoadStepType DEF ReadFile
<1> QED BY <1>2, <1>3

(* A load that ends.                                                         *)
LEMMA EndLoadType ==
    ASSUME TypeOK, NEW p \in Proc, NEW l \in Lane, EndLoad(p, l)
    PROVE  TypeOK'
<1> DEFINE r == [persist[p] EXCEPT !.at = "list"]
<1>1. load[p][l] \in LoadState /\ persist[p] \in PersistState
  BY DEF TypeOK
<1>2. load[p][l].got \in Marks /\ r \in PersistState
  BY <1>1 DEF LoadState, PersistState
<1>3. cache' \in [Proc -> Marks \cup {Missing}] /\ pending' \in [Proc -> Marks \cup {Missing}]
  BY <1>2, MergeType DEF EndLoad, Loaded, TypeOK
<1>4. load' \in [Proc -> [Lane -> LoadState]]
  BY NoLoadType, SetLoad DEF EndLoad
<1>5. persist' = [persist EXCEPT ![p] = r] \/ persist' = persist
  BY DEF EndLoad
<1>6. persist' \in [Proc -> PersistState]
  <2> HIDE DEF r
  <2> QED BY <1>2, <1>5, SetPersist DEF TypeOK
<1> QED BY <1>3, <1>4, <1>6 DEF EndLoad, TypeOK, disk

(* A persist that begins.                                                    *)
LEMMA BeginPersistType ==
    ASSUME TypeOK, NEW p \in Proc, BeginPersist(p)
    PROVE  TypeOK'
<1> DEFINE r(at) == [NoPersist EXCEPT !.at = at]
           n == [load[p][Own] EXCEPT !.at = "list"]
<1>1. r("load") \in PersistState /\ r("list") \in PersistState
  BY NoPersistType DEF PersistState
<1>2. Own \in Lane /\ load[p][Own] \in LoadState
  BY DEF TypeOK, Lane
<1>3. n \in LoadState
  BY <1>2 DEF LoadState
<1>4. persist' = [persist EXCEPT ![p] = r("load")] \/ persist' = [persist EXCEPT ![p] = r("list")]
  BY DEF BeginPersist
<1>5. load' = [load EXCEPT ![p][Own] = n] \/ load' = load
  BY DEF BeginPersist
<1> HIDE DEF r, n
<1>6. persist' \in [Proc -> PersistState]
  BY <1>1, <1>4, SetPersist
<1>7. load' \in [Proc -> [Lane -> LoadState]]
  BY <1>2, <1>3, <1>5, SetLoad DEF TypeOK
<1> QED BY <1>6, <1>7 DEF BeginPersist, TypeOK, disk, memory

(* A persist that merges a file.                                             *)
LEMMA MergeStepType ==
    ASSUME TypeOK, NEW p \in Proc, NEW f \in File, ListAgain(p) \/ MergeFile(p, f)
    PROVE  TypeOK'
<1>1. persist[p] \in PersistState
  BY DEF TypeOK
<1>2. CASE ListAgain(p)
  <2> DEFINE r == [persist[p] EXCEPT !.at = "merge", !.entries = Listing, !.todo = Listing,
                                     !.got = NoMarks]
  <2>1. r \in PersistState
    BY <1>1, NoMarksType DEF PersistState, Listing
  <2>2. persist' = [persist EXCEPT ![p] = r]
    BY <1>2 DEF ListAgain
  <2>3. UNCHANGED <<disk, up, memory, load>>
    BY <1>2 DEF ListAgain
  <2> HIDE DEF r
  <2> QED BY <2>1, <2>2, <2>3, PersistStepType DEF TypeOK, disk
<1>3. CASE MergeFile(p, f)
  <2>1. PICK m \in Marks \cup {Missing} :
            persist' = [persist EXCEPT ![p].todo = @ \ {f}, ![p].got = Merge(@, Read(m))]
    BY <1>3 DEF MergeFile, TypeOK
  <2> DEFINE r == [persist[p] EXCEPT !.todo = @ \ {f}, !.got = Merge(@, Read(m))]
  <2>2. Merge(persist[p].got, Read(m)) \in Marks
    BY <1>1, MergeType, ReadType DEF PersistState
  <2>3. r \in PersistState
    BY <1>1, <2>2 DEF PersistState
  <2>4. persist' = [persist EXCEPT ![p] = r]
    BY <2>1
  <2> HIDE DEF r
  <2> QED BY <1>3, <2>3, <2>4, PersistStepType DEF MergeFile, TypeOK, disk
<1> QED BY <1>2, <1>3

(* A persist that takes its payload.                                         *)
LEMMA SnapshotType ==
    ASSUME TypeOK, NEW p \in Proc, Running(p), Snapshot(p)
    PROVE  TypeOK'
<1> DEFINE r == [persist[p] EXCEPT !.at = "write", !.payload = Payload(p), !.got = NoMarks]
<1>1. persist[p] \in PersistState /\ cache[p] \in Marks
  BY DEF TypeOK, Snapshot, Running
<1>2. Merge(cache[p], persist[p].got) \in Marks
  BY <1>1, MergeType DEF PersistState
<1>3. r \in PersistState
  BY <1>1, <1>2, NoMarksType DEF PersistState, Payload
<1>4. persist' = [persist EXCEPT ![p] = r]
  BY DEF Snapshot
<1> HIDE DEF r
<1>5. persist' \in [Proc -> PersistState]
  BY <1>3, <1>4, SetPersist
<1>6. cache' \in [Proc -> Marks \cup {Missing}]
  BY <1>2 DEF Snapshot, TypeOK
<1> QED BY <1>5, <1>6 DEF Snapshot, TypeOK, disk

(* A persist that writes its shard.                                          *)
LEMMA WriteType ==
    ASSUME TypeOK, NEW p \in Proc, Written(p) \/ NotWritten(p)
    PROVE  TypeOK'
<1>1. persist[p] \in PersistState /\ p \in File
  BY DEF TypeOK, File
<1>2. CASE Written(p)
  <2> DEFINE again == [NoPersist EXCEPT !.at = "list", !.cycle = persist[p].cycle + 1]
             done == [NoPersist EXCEPT !.at = "gc", !.entries = persist[p].entries]
             r == IF persist[p].dirty /\ persist[p].cycle < FollowupMax THEN again ELSE done
  <2>1. persist[p].cycle < FollowupMax => again \in PersistState
    <3>1. persist[p].cycle \in 0..FollowupMax
      BY <1>1 DEF PersistState
    <3>2. persist[p].cycle < FollowupMax => persist[p].cycle + 1 \in 0..FollowupMax
      BY <3>1, WatermarksAssumption
    <3> QED BY <3>2, NoPersistType DEF PersistState
  <2>2. done \in PersistState
    BY <1>1, NoPersistType DEF PersistState
  <2>3. persist' = [persist EXCEPT ![p] = r]
    BY <1>2 DEF Written, Followup
  <2> HIDE DEF again, done
  <2>4. r \in PersistState
    BY <2>1, <2>2
  <2>5. file' \in [File -> Marks \cup {Missing}] /\ age' \in [File -> 0..2]
    BY <1>1, <1>2 DEF Written, TypeOK, PersistState
  <2> HIDE DEF r
  <2> QED BY <1>2, <2>3, <2>4, <2>5, PersistStepType DEF Written
<1>3. CASE NotWritten(p)
  BY <1>3, NoPersistType, PersistStepType DEF NotWritten, TypeOK, disk
<1> QED BY <1>2, <1>3

(* A persist that reaps.                                                     *)
LEMMA ReapType ==
    ASSUME TypeOK, NEW p \in Proc, NEW f \in File,
           PickGarbage(p) \/ PickStale(p) \/ Unlink(p, f) \/ EndPersist(p)
    PROVE  TypeOK'
<1>1. persist[p] \in PersistState
  BY DEF TypeOK
<1>2. CASE PickGarbage(p)
  <2>1. PICK picked \in SUBSET persist[p].entries :
            persist' = [persist EXCEPT ![p].at = "sweep", ![p].entries = {}, ![p].doomed = picked]
    BY <1>2 DEF PickGarbage
  <2> DEFINE r == [persist[p] EXCEPT !.at = "sweep", !.entries = {}, !.doomed = picked]
  <2>2. r \in PersistState
    BY <1>1 DEF PersistState
  <2>3. persist' = [persist EXCEPT ![p] = r]
    BY <2>1
  <2> HIDE DEF r
  <2> QED BY <1>2, <2>2, <2>3, PersistStepType DEF PickGarbage, TypeOK, disk
<1>3. CASE PickStale(p)
  <2>1. PICK picked \in SUBSET Listing :
            persist' = [persist EXCEPT ![p].at = "unlink", ![p].doomed = picked]
    BY <1>3 DEF PickStale
  <2> DEFINE r == [persist[p] EXCEPT !.at = "unlink", !.doomed = picked]
  <2>2. r \in PersistState
    BY <1>1 DEF PersistState, Listing
  <2>3. persist' = [persist EXCEPT ![p] = r]
    BY <2>1
  <2> HIDE DEF r
  <2> QED BY <1>3, <2>2, <2>3, PersistStepType DEF PickStale, TypeOK, disk
<1>4. CASE Unlink(p, f)
  <2> DEFINE r == [persist[p] EXCEPT !.doomed = @ \ {f}]
  <2>1. r \in PersistState
    BY <1>1 DEF PersistState
  <2>2. persist' = [persist EXCEPT ![p] = r]
    BY <1>4 DEF Unlink
  <2>3. file' \in [File -> Marks \cup {Missing}] /\ age' \in [File -> 0..2]
    BY <1>4 DEF Unlink, TypeOK
  <2> HIDE DEF r
  <2> QED BY <1>4, <2>1, <2>2, <2>3, PersistStepType DEF Unlink
<1>5. CASE EndPersist(p)
  BY <1>5, NoPersistType, PersistStepType DEF EndPersist, TypeOK, disk
<1> QED BY <1>2, <1>3, <1>4, <1>5

(* A process that ends.                                                      *)
LEMMA CrashType ==
    ASSUME TypeOK, NEW p \in Proc, Crash(p)
    PROVE  TypeOK'
<1>1. [l \in Lane |-> NoLoad] \in [Lane -> LoadState]
  BY NoLoadType
<1>2. load' \in [Proc -> [Lane -> LoadState]]
  BY <1>1 DEF Crash, TypeOK
<1>3. persist' \in [Proc -> PersistState]
  BY NoPersistType DEF Crash, TypeOK
<1> QED BY <1>2, <1>3 DEF Crash, TypeOK, disk

(* Files that age.                                                           *)
LEMMA TimePassesType ==
    ASSUME TypeOK, NEW days \in Spans, TimePasses(days)
    PROVE  TypeOK'
<1>1. days \in 1..2
  BY WatermarksAssumption
<1>2. age' \in [File -> 0..2]
  BY <1>1 DEF TimePasses, TypeOK, Larger
<1> QED BY <1>2 DEF TimePasses, TypeOK, memory

(* The legacy file is one of the files.                                      *)
LEMMA LegacyFile == Legacy \in File
BY DEF File

(* Every step keeps the types.                                               *)
LEMMA StepType ==
    ASSUME TypeOK, MarksInv, [Next]_vars
    PROVE  TypeOK'
<1>1. CASE UNCHANGED vars
  BY <1>1 DEF vars, disk, memory, TypeOK
<1>2. ASSUME NEW p \in Proc, NEW s \in Session, NEW ts \in 1..MaxTs, Note(p, s, ts)
      PROVE  TypeOK'
  BY <1>2, NoteType
<1>3. ASSUME NEW p \in Proc, NEW s \in Session, BeginLoad(p, s)
      PROVE  TypeOK'
  BY <1>3, BeginLoadType
<1>4. ASSUME NEW p \in Proc, NEW l \in Lane, ListFiles(p, l) \/ EndLoad(p, l)
      PROVE  TypeOK'
  BY <1>4, LoadType, EndLoadType, LegacyFile
<1>5. ASSUME NEW p \in Proc, NEW l \in Lane, NEW f \in File, ReadFile(p, l, f)
      PROVE  TypeOK'
  BY <1>5, LoadType
<1>6. ASSUME NEW p \in Proc,
             \/ BeginPersist(p) \/ ListAgain(p) \/ Snapshot(p)
             \/ Written(p) \/ NotWritten(p) \/ PickGarbage(p) \/ PickStale(p) \/ EndPersist(p)
      PROVE  TypeOK'
  BY <1>6, BeginPersistType, MergeStepType, SnapshotType, WriteType, ReapType, LegacyFile
     DEF MarksInv
<1>7. ASSUME NEW p \in Proc, NEW f \in File, MergeFile(p, f) \/ Unlink(p, f)
      PROVE  TypeOK'
  BY <1>7, MergeStepType, ReapType
<1>8. ASSUME NEW p \in Proc, Crash(p)
      PROVE  TypeOK'
  BY <1>8, CrashType
<1>9. ASSUME NEW days \in Spans, TimePasses(days)
      PROVE  TypeOK'
  BY <1>9, TimePassesType
<1> QED BY <1>1, <1>2, <1>3, <1>4, <1>5, <1>6, <1>7, <1>8, <1>9 DEF Next

-----------------------------------------------------------------------------
(* The inductive invariant.                                                  *)
IndInv == TypeOK /\ MarksInv

(* The inductive invariant holds at first.                                   *)
LEMMA InitInv == Init => MarksInv
BY DEF Init, MarksInv, Folded, Running, Doomed, NoPersist, NoLoad, Lane

(* A process is not disturbed by what the others do in their own memory.     *)
LEMMA Frame ==
    ASSUME NEW q \in Proc, Folded(q), Running(q), Doomed(q), UNCHANGED <<disk, up>>,
           persist'[q] = persist[q], load'[q] = load[q], cache'[q] = cache[q]
    PROVE  Folded(q)' /\ Running(q)' /\ Doomed(q)'
BY DEF Folded, Old, Listing, Running, Doomed, Dead, disk

(* What an action leaves alone, and so what the step lemmas need of the      *)
(* processes that do not act.                                                *)
LEMMA Others ==
    ASSUME IndInv, NEW p \in Proc, UNCHANGED <<disk, up>>,
           \A q \in Proc \ {p} :
               persist'[q] = persist[q] /\ load'[q] = load[q] /\ cache'[q] = cache[q],
           Folded(p)' /\ Running(p)' /\ Doomed(p)'
    PROVE  MarksInv'
BY Frame DEF MarksInv, IndInv

(* A load of a process that runs may go on.                                  *)
LEMMA LoadInv ==
    ASSUME IndInv, NEW p \in Proc, NEW l \in Lane, NEW r \in LoadState,
           load' = [load EXCEPT ![p][l] = r], UNCHANGED <<disk, up, memory, persist>>,
           r.at # "idle" => p \in up /\ (l = Own => persist[p].at = "load")
    PROVE  MarksInv'
<1>1. Folded(p) /\ Running(p) /\ Doomed(p) /\ load \in [Proc -> [Lane -> LoadState]]
  BY DEF IndInv, MarksInv, TypeOK
<1>2. \A k \in Lane : load'[p][k] = IF k = l THEN r ELSE load[p][k]
  BY <1>1
<1>3. Folded(p)' /\ Doomed(p)'
  BY <1>1 DEF Folded, Old, Listing, Doomed, Dead, disk
<1>4. Running(p)'
  BY <1>1, <1>2 DEF Running, Lane, memory
<1>5. \A q \in Proc \ {p} : load'[q] = load[q]
  BY <1>1
<1> QED BY <1>3, <1>4, <1>5, Others DEF memory

(* The steps of a load keep the invariant.                                   *)
LEMMA LoadsInv ==
    ASSUME IndInv, NEW p \in Proc, NEW l \in Lane, NEW f \in File,
           (l \in Session /\ BeginLoad(p, l)) \/ ListFiles(p, l) \/ ReadFile(p, l, f)
    PROVE  MarksInv'
<1>1. Running(p) /\ load[p][l] \in LoadState /\ load'[p][l] \in LoadState
  <2>1. TypeOK'
    BY BeginLoadType, LoadType, LegacyFile DEF IndInv
  <2> QED BY <2>1 DEF IndInv, MarksInv, TypeOK
<1>2. CASE l \in Session /\ BeginLoad(p, l)
  <2> DEFINE r == [load[p][l] EXCEPT !.at = "list"]
  <2>1. load' = [load EXCEPT ![p][l] = r] /\ p \in up
    BY <1>2 DEF BeginLoad
  <2>2. r \in LoadState
    BY <1>1 DEF LoadState
  <2>3. l # Own
    BY <1>2, LeftAssumption
  <2>4. UNCHANGED <<disk, up, memory, persist>>
    BY <1>2 DEF BeginLoad
  <2> HIDE DEF r
  <2> QED BY <2>1, <2>2, <2>3, <2>4, LoadInv
<1>3. CASE ListFiles(p, l)
  <2> DEFINE r == [at |-> "read", todo |-> Listing, got |-> NoMarks]
  <2>1. load' = [load EXCEPT ![p][l] = r] /\ load[p][l].at # "idle"
    BY <1>3 DEF ListFiles
  <2>2. r \in LoadState
    BY NoMarksType DEF LoadState, Listing
  <2>3. p \in up /\ (l = Own => persist[p].at = "load")
    BY <1>1, <2>1 DEF Running
  <2>4. UNCHANGED <<disk, up, memory, persist>>
    BY <1>3 DEF ListFiles
  <2> HIDE DEF r
  <2> QED BY <2>1, <2>2, <2>3, <2>4, LoadInv
<1>4. CASE ReadFile(p, l, f)
  <2> DEFINE r == [load[p][l] EXCEPT !.todo = @ \ {f}, !.got = Merge(@, Read(file[f]))]
  <2>2. load' = [load EXCEPT ![p][l] = r]
    BY <1>4 DEF ReadFile
  <2>6. load[p][l].at # "idle"
    BY <1>4 DEF ReadFile
  <2>3. load'[p][l] = r
    BY <2>2 DEF IndInv, TypeOK
  <2>4. p \in up /\ (l = Own => persist[p].at = "load")
    BY <1>1, <2>6 DEF Running
  <2>5. UNCHANGED <<disk, up, memory, persist>>
    BY <1>4 DEF ReadFile
  <2> HIDE DEF r
  <2> QED BY <1>1, <2>2, <2>3, <2>4, <2>5, LoadInv
<1> QED BY <1>2, <1>3, <1>4

(* A note keeps it: it touches no file.                                      *)
LEMMA NoteInv ==
    ASSUME IndInv, NEW p \in Proc, NEW s \in Session, NEW ts \in 1..MaxTs, Note(p, s, ts)
    PROVE  MarksInv'
<1>1. Folded(p) /\ Running(p) /\ Doomed(p) /\ persist \in [Proc -> PersistState]
      /\ cache \in [Proc -> Marks \cup {Missing}]
  BY DEF IndInv, MarksInv, TypeOK
<1>2. \A q \in Proc \ {p} : persist'[q] = persist[q] /\ cache'[q] = cache[q]
  BY <1>1 DEF Note
<1>3. PICK d : persist' = [persist EXCEPT ![p] = [persist[p] EXCEPT !.dirty = d]]
  BY <1>1 DEF Note
<1>4. /\ persist'[p].at = persist[p].at /\ persist'[p].todo = persist[p].todo
      /\ persist'[p].got = persist[p].got /\ persist'[p].payload = persist[p].payload
      /\ persist'[p].doomed = persist[p].doomed
  BY <1>1, <1>3 DEF PersistState
<1>5. UNCHANGED <<disk, up, load>>
  BY DEF Note
<1>6. Folded(p)' /\ Doomed(p)'
  BY <1>1, <1>4, <1>5 DEF Folded, Old, Listing, Doomed, Dead, disk
<1>7. cache[p] # Missing => cache'[p] # Missing
  <2>1. \/ cache' = [cache EXCEPT ![p] = [Read(cache[p]) EXCEPT ![s] = Larger(@, ts)]]
        \/ cache' = cache
    BY DEF Note
  <2>2. [Read(cache[p]) EXCEPT ![s] = Larger(@, ts)] \in Marks
    BY <1>1, NotedType
  <2> QED BY <1>1, <2>1, <2>2, LeftAssumption
<1>8. Running(p)'
  BY <1>1, <1>4, <1>5, <1>7 DEF Running
<1> QED BY <1>2, <1>5, <1>6, <1>8, Others

(* So does a load's end, which replaces the cache.                           *)
LEMMA EndLoadInv ==
    ASSUME IndInv, NEW p \in Proc, NEW l \in Lane, EndLoad(p, l)
    PROVE  MarksInv'
<1>1. /\ Folded(p) /\ Running(p) /\ Doomed(p) /\ persist[p] \in PersistState
      /\ load \in [Proc -> [Lane -> LoadState]] /\ persist \in [Proc -> PersistState]
      /\ cache \in [Proc -> Marks \cup {Missing}] /\ pending \in [Proc -> Marks \cup {Missing}]
  BY DEF IndInv, MarksInv, TypeOK
<1>2. UNCHANGED <<disk, up>> /\ load' = [load EXCEPT ![p][l] = NoLoad]
  BY DEF EndLoad
<1>3. \A q \in Proc \ {p} :
          persist'[q] = persist[q] /\ load'[q] = load[q] /\ cache'[q] = cache[q]
  BY <1>1 DEF EndLoad, Loaded
<1>4. cache'[p] # Missing
  <2>1. load[p][l].got \in Marks
    BY <1>1 DEF LoadState
  <2>2. cache'[p] \in Marks
    BY <1>1, <2>1, MergeType DEF EndLoad, Loaded
  <2> QED BY <2>2, LeftAssumption
<1>5. \A k \in Lane : load'[p][k] = IF k = l THEN NoLoad ELSE load[p][k]
  BY <1>1, <1>2
<1>6. load[p][l].at # "idle"
  BY DEF EndLoad
<1>7. CASE l = Own
  <2>1. persist' = [persist EXCEPT ![p] = [persist[p] EXCEPT !.at = "list"]]
    BY <1>7 DEF EndLoad
  <2>2. persist'[p].at = "list" /\ persist'[p].doomed = persist[p].doomed
    BY <1>1, <2>1 DEF PersistState
  <2>3. persist[p].at = "load" /\ p \in up
    BY <1>1, <1>6, <1>7 DEF Running
  <2>4. Folded(p)' /\ Doomed(p)'
    BY <1>1, <2>2, <2>3 DEF Folded, Doomed
  <2>5. Running(p)'
    BY <1>1, <1>2, <1>4, <1>5, <1>7, <2>2, <2>3 DEF Running, NoLoad
  <2> QED BY <1>2, <1>3, <2>4, <2>5, Others
<1>8. CASE l # Own
  <2>1. persist' = persist
    BY <1>8 DEF EndLoad
  <2>2. Folded(p)' /\ Doomed(p)'
    BY <1>1, <1>2, <2>1 DEF Folded, Old, Listing, Doomed, Dead, disk
  <2>3. Running(p)'
    BY <1>1, <1>2, <1>4, <1>5, <1>8, <2>1 DEF Running, NoLoad, Lane
  <2> QED BY <1>2, <1>3, <2>2, <2>3, Others
<1> QED BY <1>7, <1>8

(* So does the begin of a persist.                                           *)
LEMMA BeginPersistInv ==
    ASSUME IndInv, NEW p \in Proc, BeginPersist(p)
    PROVE  MarksInv'
<1>1. /\ Running(p) /\ load \in [Proc -> [Lane -> LoadState]]
      /\ persist \in [Proc -> PersistState]
  BY DEF IndInv, MarksInv, TypeOK
<1>2. UNCHANGED <<disk, up, memory>> /\ p \in up
  BY DEF BeginPersist
<1>3. \A q \in Proc \ {p} :
          persist'[q] = persist[q] /\ load'[q] = load[q] /\ cache'[q] = cache[q]
  BY <1>1, <1>2 DEF BeginPersist, memory
<1>4. persist'[p].doomed = {}
  BY <1>1 DEF BeginPersist, NoPersist
<1>5. persist'[p].at = "load" \/ (persist'[p].at = "list" /\ cache[p] # Missing)
  BY <1>1 DEF BeginPersist, NoPersist
<1>6. Folded(p)' /\ Doomed(p)'
  BY <1>4, <1>5 DEF Folded, Doomed
<1>7. Running(p)'
  <2>1. load[p][Own].at = "idle"
    BY <1>1 DEF Running, BeginPersist
  <2>2. persist'[p].at = "load" \/ load' = load
    BY <1>1 DEF BeginPersist, NoPersist
  <2> QED BY <1>1, <1>2, <1>5, <2>1, <2>2 DEF Running, memory
<1> QED BY <1>2, <1>3, <1>6, <1>7, Others DEF memory

(* The steps of a persist between its listing and its writing.               *)
LEMMA MergeInv ==
    ASSUME IndInv, NEW p \in Proc, ListAgain(p) \/ \E f \in File : MergeFile(p, f)
    PROVE  MarksInv'
<1>1. /\ Folded(p) /\ Running(p) /\ Doomed(p)
      /\ persist[p] \in PersistState /\ persist \in [Proc -> PersistState]
      /\ file \in [File -> Marks \cup {Missing}]
  BY DEF IndInv, MarksInv, TypeOK
<1>2. CASE ListAgain(p)
  <2>1. UNCHANGED <<disk, up, memory, load>> /\ persist[p].at = "list"
    BY <1>2 DEF ListAgain
  <2>2. \A q \in Proc \ {p} : persist'[q] = persist[q]
    BY <1>1, <1>2 DEF ListAgain
  <2>3. /\ persist'[p].at = "merge" /\ persist'[p].todo = Listing
        /\ persist'[p].doomed = persist[p].doomed
    BY <1>1, <1>2 DEF ListAgain, PersistState
  <2>4. Folded(p)' /\ Doomed(p)'
    BY <1>1, <2>1, <2>3 DEF Folded, Old, Listing, Doomed, disk
  <2>5. Running(p)'
    BY <1>1, <2>1, <2>3 DEF Running, memory
  <2> QED BY <2>1, <2>2, <2>4, <2>5, Others DEF memory
<1>3. CASE \E f \in File : MergeFile(p, f)
  <2>1. PICK f \in File : MergeFile(p, f)
    BY <1>3
  <2>2. UNCHANGED <<disk, up, memory, load>> /\ persist[p].at = "merge"
    BY <2>1 DEF MergeFile
  <2>m. PICK m \in {file[f], Missing} :
            /\ persist' = [persist EXCEPT ![p].todo = @ \ {f}, ![p].got = Merge(@, Read(m))]
            /\ ~MergeMayFail => m = file[f]
    BY <2>1 DEF MergeFile
  <2> DEFINE got == Merge(persist[p].got, Read(m))
  <2>3. persist' = [persist EXCEPT ![p] = [persist[p] EXCEPT !.todo = @ \ {f}, !.got = got]]
    BY <2>m
  <2>4. \A q \in Proc \ {p} : persist'[q] = persist[q]
    BY <2>3
  <2>5. /\ persist'[p].at = "merge" /\ persist'[p].todo = persist[p].todo \ {f}
        /\ persist'[p].got = got /\ persist'[p].doomed = persist[p].doomed
    BY <1>1, <2>2, <2>3 DEF PersistState
  <2>6. m \in Marks \cup {Missing} /\ persist[p].got \in Marks /\ got \in Marks
    BY <1>1, ReadType, MergeType DEF PersistState
  <2>7. Within(persist[p].got, got) /\ (m # Missing => Within(m, got))
    BY <1>1, <2>6, ReadType, ReadFound, MergeHolds
  <2> HIDE DEF got
  <2>8. ASSUME ~MergeMayFail, NEW g \in Old(p), g \notin persist'[p].todo
        PROVE  Within(file[g], persist'[p].got)
    <3>1. file[g] \in Marks
      BY <1>1 DEF Old, Listing
    <3>2. CASE g = f
      BY <2>5, <2>7, <2>8, <2>m, <3>2 DEF Old, Listing
    <3>3. CASE g # f
      <4>1. Within(file[g], persist[p].got)
        BY <1>1, <2>2, <2>5, <2>8, <3>3 DEF Folded
      <4> QED BY <2>5, <2>6, <2>7, <3>1, <4>1, WithinTrans
    <3> QED BY <3>2, <3>3
  <2>9. Folded(p)' /\ Doomed(p)'
    BY <1>1, <2>2, <2>5, <2>8 DEF Folded, Old, Listing, Doomed, disk
  <2>10. Running(p)'
    BY <1>1, <2>2, <2>5 DEF Running, memory
  <2> QED BY <2>2, <2>4, <2>9, <2>10, Others DEF memory
<1> QED BY <1>2, <1>3

(* So does the payload a persist takes.                                      *)
LEMMA SnapshotInv ==
    ASSUME IndInv, NEW p \in Proc, Snapshot(p)
    PROVE  MarksInv'
<1>1. /\ Folded(p) /\ Running(p) /\ Doomed(p)
      /\ persist[p] \in PersistState /\ persist \in [Proc -> PersistState]
      /\ file \in [File -> Marks \cup {Missing}] /\ cache \in [Proc -> Marks \cup {Missing}]
  BY DEF IndInv, MarksInv, TypeOK
<1>2. UNCHANGED <<disk, up, pending, load>> /\ persist[p].at = "merge" /\ persist[p].todo = {}
  BY DEF Snapshot
<1>3. cache[p] \in Marks /\ persist[p].got \in Marks
  BY <1>1, <1>2 DEF Running, PersistState
<1>4. Payload(p) \in Marks /\ Within(persist[p].got, Payload(p))
  BY <1>3, MergeType, MergeHolds DEF Payload
<1>5. \A q \in Proc \ {p} : persist'[q] = persist[q] /\ cache'[q] = cache[q]
  BY <1>1 DEF Snapshot
<1>6. /\ persist'[p].at = "write" /\ persist'[p].payload = Payload(p)
      /\ persist'[p].doomed = persist[p].doomed
  <2> HIDE DEF Payload
  <2> QED BY <1>1 DEF Snapshot, PersistState
<1>7. cache'[p] # Missing
  <2>1. cache'[p] = Payload(p)
    BY <1>1 DEF Snapshot, Payload
  <2> QED BY <1>4, <2>1, LeftAssumption
<1>8. ASSUME ~MergeMayFail, NEW g \in Old(p)
      PROVE  Within(file[g], Payload(p))
  <2>1. file[g] \in Marks /\ Within(file[g], persist[p].got)
    BY <1>1, <1>2, <1>8 DEF Old, Listing, Folded
  <2> QED BY <1>3, <1>4, <2>1, WithinTrans
<1>9. Folded(p)' /\ Doomed(p)'
  BY <1>1, <1>2, <1>6, <1>8 DEF Folded, Old, Listing, Doomed, disk
<1>10. Running(p)'
  BY <1>1, <1>2, <1>6, <1>7 DEF Running
<1> QED BY <1>2, <1>5, <1>9, <1>10, Others

(* A shard just written is new, and so nobody's business but its owner's.    *)
LEMMA WrittenInv ==
    ASSUME IndInv, NEW p \in Proc, Written(p)
    PROVE  MarksInv'
<1>1. /\ Folded(p) /\ Running(p) /\ Doomed(p) /\ p \in File
      /\ persist[p] \in PersistState /\ persist \in [Proc -> PersistState]
      /\ file \in [File -> Marks \cup {Missing}] /\ age \in [File -> 0..2]
  BY DEF IndInv, MarksInv, TypeOK, File
<1>2. /\ UNCHANGED <<up, memory, load>> /\ persist[p].at = "write" /\ p \in up
      /\ file' = [file EXCEPT ![p] = persist[p].payload] /\ age' = [age EXCEPT ![p] = 0]
  BY <1>1 DEF Written, Running
<1>3. persist[p].payload \in Marks
  BY <1>1 DEF PersistState
<1>4. \A q \in Proc \ {p} : persist'[q] = persist[q]
  BY <1>1 DEF Written
<1>5. \A f \in File : f # p => file'[f] = file[f] /\ age'[f] = age[f]
  BY <1>1, <1>2
<1>6. file'[p] = persist[p].payload /\ age'[p] = 0
  BY <1>1, <1>2
<1>7. persist'[p].at \in {"list", "gc"} /\ persist'[p].doomed = {}
  BY <1>1 DEF Written, NoPersist
<1>8. Running(p)'
  BY <1>1, <1>2, <1>7 DEF Running, memory
<1>9. Folded(p)' /\ Doomed(p)'
  <2>1. file'[p] # Missing
    BY <1>3, <1>6, LeftAssumption
  <2>2. ASSUME ~MergeMayFail, NEW f \in Old(p)'
        PROVE  Within(file'[f], file'[p])
    <3>1. CASE f = p
      BY <1>3, <1>6, <3>1, WithinItself
    <3>2. CASE f # p
      <4>1. f \in Old(p)
        BY <1>5, <2>2, <3>2 DEF Old, Listing
      <4> QED BY <1>1, <1>2, <1>5, <1>6, <2>2, <3>2, <4>1 DEF Folded, Old, Listing
    <3> QED BY <3>1, <3>2
  <2> QED BY <1>7, <2>1, <2>2 DEF Folded, Doomed
<1>10. ASSUME NEW q \in Proc \ {p}
       PROVE  Folded(q)' /\ Running(q)' /\ Doomed(q)'
  <2>1. Folded(q) /\ Running(q) /\ Doomed(q) /\ persist'[q] = persist[q] /\ q \in File
    BY <1>4 DEF IndInv, MarksInv, File
  <2>2. Running(q)'
    BY <1>2, <2>1 DEF Running, memory
  <2>3. \A f \in Old(q)' : f # p /\ f \in Old(q)
    BY <1>5, <1>6 DEF Old, Listing
  <2>4. Folded(q)'
    BY <1>5, <2>1, <2>3 DEF Folded, Old, Listing
  <2>5. \A f \in persist[q].doomed : f # p
    BY <1>2, <2>1 DEF Doomed, Dead
  <2>6. persist[q].doomed \subseteq File
    BY <1>1 DEF PersistState
  <2>7. Doomed(q)'
    BY <1>2, <1>5, <2>1, <2>5, <2>6 DEF Doomed, Dead
  <2> QED BY <2>2, <2>4, <2>7
<1> QED BY <1>8, <1>9, <1>10 DEF MarksInv

(* So does the choice of what to reap, and the end of a persist.             *)
LEMMA PickInv ==
    ASSUME IndInv, NEW p \in Proc,
           NotWritten(p) \/ PickGarbage(p) \/ PickStale(p) \/ EndPersist(p)
    PROVE  MarksInv'
<1>1. /\ Folded(p) /\ Running(p) /\ Doomed(p)
      /\ persist[p] \in PersistState /\ persist \in [Proc -> PersistState]
      /\ age \in [File -> 0..2] /\ load \in [Proc -> [Lane -> LoadState]]
  BY DEF IndInv, MarksInv, TypeOK
<1>2. UNCHANGED <<disk, up, memory, load>>
      /\ \A q \in Proc \ {p} : persist'[q] = persist[q]
  BY <1>1 DEF NotWritten, PickGarbage, PickStale, EndPersist
<1>3. CASE NotWritten(p) \/ EndPersist(p)
  <2>1. persist'[p] = NoPersist /\ persist[p].at # "load"
    BY <1>1, <1>3 DEF NotWritten, EndPersist
  <2>2. Folded(p)' /\ Doomed(p)' /\ Running(p)'
    BY <1>1, <1>2, <2>1 DEF Folded, Doomed, Running, NoPersist
  <2> QED BY <1>2, <2>2, Others DEF memory
<1>4. CASE PickGarbage(p) \/ PickStale(p)
  <2>1. /\ persist[p].at \in {"gc", "sweep"} /\ persist'[p].at \in {"sweep", "unlink"}
        /\ \A f \in persist'[p].doomed :
               Dead(f) /\ f # p /\ f \in File /\ file[f] # Missing /\ age[f] >= 1
    <3>1. CASE PickGarbage(p)
      <4>1. PICK picked \in SUBSET {f \in persist[p].entries : Reapable(p, f, 1)} :
                persist' = [persist EXCEPT ![p].at = "sweep", ![p].entries = {},
                                           ![p].doomed = picked]
        BY <3>1 DEF PickGarbage
      <4>2. persist'[p].at = "sweep" /\ persist'[p].doomed = picked /\ persist[p].at = "gc"
        BY <1>1, <3>1, <4>1 DEF PersistState, PickGarbage
      <4> QED BY <4>2 DEF Reapable, ReapableByAge, Dead, File
    <3>2. CASE PickStale(p)
      <4>1. PICK picked \in SUBSET {f \in Listing : Reapable(p, f, 2)} :
                persist' = [persist EXCEPT ![p].at = "unlink", ![p].doomed = picked]
        BY <3>2 DEF PickStale
      <4>2. persist'[p].at = "unlink" /\ persist'[p].doomed = picked /\ persist[p].at = "sweep"
        BY <1>1, <3>2, <4>1 DEF PersistState, PickStale
      <4>3. \A f \in picked : f \in File /\ age[f] >= 2
        BY DEF Reapable, ReapableByAge, File
      <4> QED BY <1>1, <4>2, <4>3 DEF Reapable, ReapableByAge, Dead
    <3> QED BY <1>4, <3>1, <3>2
  <2>2. Folded(p)'
    BY <1>1, <1>2, <2>1 DEF Folded, Old, Listing, disk
  <2>3. Doomed(p)'
    BY <1>2, <2>1 DEF Doomed, Dead, disk
  <2>4. Running(p)'
    BY <1>1, <1>2, <2>1 DEF Running, memory
  <2> QED BY <1>2, <2>2, <2>3, <2>4, Others DEF memory
<1> QED BY <1>3, <1>4

(* A file is reaped only once its marks are elsewhere.                       *)
LEMMA UnlinkInv ==
    ASSUME IndInv, NEW p \in Proc, NEW f \in File, Unlink(p, f)
    PROVE  MarksInv'
<1>1. /\ Folded(p) /\ Running(p) /\ Doomed(p)
      /\ persist[p] \in PersistState /\ persist \in [Proc -> PersistState]
      /\ file \in [File -> Marks \cup {Missing}] /\ age \in [File -> 0..2]
  BY DEF IndInv, MarksInv, TypeOK
<1>2. /\ UNCHANGED <<up, memory, load>> /\ Dead(f) /\ f \notin up
      /\ persist' = [persist EXCEPT ![p] = [persist[p] EXCEPT !.doomed = @ \ {f}]]
      /\ persist[p].at \in {"sweep", "unlink"} /\ f # p
  BY <1>1 DEF Unlink, Doomed, Dead
<1>3. \A g \in File : /\ g # f => file'[g] = file[g] /\ age'[g] = age[g]
                      /\ g = f => file'[g] = Missing
  BY <1>1 DEF Unlink
<1>4. \A q \in Proc : /\ persist'[q].at = persist[q].at /\ persist'[q].todo = persist[q].todo
                      /\ persist'[q].got = persist[q].got
                      /\ persist'[q].payload = persist[q].payload
                      /\ persist'[q].doomed \subseteq persist[q].doomed
  BY <1>1, <1>2 DEF PersistState
<1> SUFFICES ASSUME NEW q \in Proc
             PROVE  Folded(q)' /\ Running(q)' /\ Doomed(q)'
  BY DEF MarksInv
<1>5. Folded(q) /\ Running(q) /\ Doomed(q) /\ q \in File /\ persist[q] \in PersistState
  BY DEF IndInv, MarksInv, TypeOK, File
<1>6. Running(q)'
  BY <1>2, <1>4, <1>5 DEF Running, memory
<1>7. \A g \in Old(q)' : g \in Old(q) /\ g # f
  BY <1>3 DEF Old, Listing
<1>8. q = f => persist[q].at = "idle"
  BY <1>2, <1>5 DEF Running
<1>9. Folded(q)'
  <2>1. CASE q = f
    BY <1>4, <1>8, <2>1 DEF Folded
  <2>2. CASE q # f
    BY <1>3, <1>4, <1>5, <1>7, <2>2 DEF Folded, Old, Listing
  <2> QED BY <2>1, <2>2
<1>10. Doomed(q)'
  <2>1. \A g \in persist'[q].doomed : g \in persist[q].doomed /\ g \in File
    BY <1>4, <1>5 DEF PersistState
  <2> QED BY <1>2, <1>3, <1>4, <1>5, <2>1 DEF Doomed, Dead
<1> QED BY <1>6, <1>9, <1>10

(* A crash touches no file, and makes one more process dead.                 *)
LEMMA CrashInv ==
    ASSUME IndInv, NEW p \in Proc, Crash(p)
    PROVE  MarksInv'
<1>1. /\ persist \in [Proc -> PersistState] /\ load \in [Proc -> [Lane -> LoadState]]
      /\ cache \in [Proc -> Marks \cup {Missing}]
  BY DEF IndInv, TypeOK
<1>2. UNCHANGED disk /\ up' = up \ {p}
  BY DEF Crash
<1>3. persist'[p] = NoPersist /\ load'[p] = [l \in Lane |-> NoLoad]
  BY <1>1 DEF Crash
<1>4. Folded(p)' /\ Running(p)' /\ Doomed(p)'
  BY <1>3 DEF Folded, Running, Doomed, NoPersist, NoLoad, Lane
<1>5. ASSUME NEW q \in Proc \ {p}
      PROVE  Folded(q)' /\ Running(q)' /\ Doomed(q)'
  <2>1. /\ Folded(q) /\ Running(q) /\ Doomed(q)
        /\ persist'[q] = persist[q] /\ load'[q] = load[q] /\ cache'[q] = cache[q]
    BY <1>1 DEF IndInv, MarksInv, Crash
  <2> QED BY <1>2, <2>1 DEF Folded, Old, Listing, Running, Doomed, Dead, disk
<1> QED BY <1>4, <1>5 DEF MarksInv

(* The files' ages bear no marks.                                            *)
LEMMA TimePassesInv ==
    ASSUME IndInv, NEW days \in Spans, TimePasses(days)
    PROVE  MarksInv'
<1> SUFFICES ASSUME NEW q \in Proc
             PROVE  Folded(q)' /\ Running(q)' /\ Doomed(q)'
  BY DEF MarksInv
<1>1. /\ Folded(q) /\ Running(q) /\ Doomed(q) /\ persist[q].at = "idle"
      /\ UNCHANGED <<file, up, memory, load, persist>>
  BY DEF IndInv, MarksInv, TimePasses
<1> QED BY <1>1 DEF Folded, Running, Doomed, memory

(* Every step keeps the invariant.                                           *)
LEMMA StepInv ==
    ASSUME IndInv, [Next]_vars
    PROVE  MarksInv'
<1>1. CASE UNCHANGED vars
  BY <1>1 DEF vars, disk, memory, IndInv, MarksInv, Folded, Old, Listing, Running, Doomed, Dead
<1>2. ASSUME NEW p \in Proc, NEW s \in Session, NEW ts \in 1..MaxTs, Note(p, s, ts)
      PROVE  MarksInv'
  BY <1>2, NoteInv
<1>3. ASSUME NEW p \in Proc, NEW s \in Session, BeginLoad(p, s)
      PROVE  MarksInv'
  BY <1>3, LoadsInv, LegacyFile DEF Lane
<1>4. ASSUME NEW p \in Proc, NEW l \in Lane, ListFiles(p, l) \/ EndLoad(p, l)
      PROVE  MarksInv'
  BY <1>4, LoadsInv, EndLoadInv, LegacyFile
<1>5. ASSUME NEW p \in Proc, NEW l \in Lane, NEW f \in File, ReadFile(p, l, f)
      PROVE  MarksInv'
  BY <1>5, LoadsInv
<1>6. ASSUME NEW p \in Proc,
             \/ BeginPersist(p) \/ ListAgain(p) \/ Snapshot(p)
             \/ Written(p) \/ NotWritten(p) \/ PickGarbage(p) \/ PickStale(p) \/ EndPersist(p)
      PROVE  MarksInv'
  BY <1>6, BeginPersistInv, MergeInv, SnapshotInv, WrittenInv, PickInv
<1>7. ASSUME NEW p \in Proc, NEW f \in File, MergeFile(p, f) \/ Unlink(p, f)
      PROVE  MarksInv'
  BY <1>7, MergeInv, UnlinkInv
<1>8. ASSUME NEW p \in Proc, Crash(p)
      PROVE  MarksInv'
  BY <1>8, CrashInv
<1>9. ASSUME NEW days \in Spans, TimePasses(days)
      PROVE  MarksInv'
  BY <1>9, TimePassesInv
<1> QED BY <1>1, <1>2, <1>3, <1>4, <1>5, <1>6, <1>7, <1>8, <1>9 DEF Next

(* Every state is well formed, and what the persist under way may reap is    *)
(* folded into what it writes, when no read of a merge may fail.             *)
THEOREM WatermarksSound == Spec => [](TypeOK /\ MarksInv)
<1>1. Init => IndInv
  BY InitType, InitInv DEF IndInv
<1>2. IndInv /\ [Next]_vars => IndInv'
  BY StepType, StepInv DEF IndInv
<1> QED BY <1>1, <1>2, PTL DEF Spec, IndInv

(* The step lemma of MarksKept: only the renaming of a shard and the reaping *)
(* of one touch a file, and both leave its marks in the shard of the writer. *)
LEMMA StepKeeps ==
    ASSUME IndInv, [Next]_vars, ~MergeMayFail
    PROVE  \A s \in Session : \A v \in Stored(s) : \E w \in Stored(s)' : w >= v
<1> SUFFICES ASSUME NEW s \in Session, NEW f \in Listing
             PROVE  \E g \in File : file'[g] # Missing /\ file'[g][s] >= file[f][s]
  BY DEF Stored, Listing
<1>1. /\ file \in [File -> Marks \cup {Missing}] /\ f \in File /\ file[f] \in Marks
      /\ persist \in [Proc -> PersistState]
  BY DEF IndInv, TypeOK, Listing
<1>2. file[f][s] \in Nat
  BY <1>1, WatermarksAssumption DEF Marks
<1>3. CASE file' = file
  BY <1>1, <1>2, <1>3 DEF Listing
<1>4. ASSUME NEW p \in Proc, Written(p)
      PROVE  \E g \in File : file'[g] # Missing /\ file'[g][s] >= file[f][s]
  <2>1. /\ persist[p].at = "write" /\ Folded(p) /\ p \in File
        /\ file' = [file EXCEPT ![p] = persist[p].payload]
        /\ persist[p].payload \in Marks
    BY <1>1, <1>4 DEF Written, IndInv, MarksInv, PersistState, File
  <2>2. CASE f = p
    <3>1. Within(file[f], persist[p].payload)
      BY <2>1, <2>2 DEF Folded, Old
    <3> QED BY <1>1, <2>1, <2>2, <3>1, WatermarksAssumption, LeftAssumption DEF Within, Marks
  <2>3. CASE f # p
    BY <1>1, <1>2, <2>1, <2>3 DEF Listing
  <2> QED BY <2>2, <2>3
<1>5. ASSUME NEW p \in Proc, NEW g \in File, Unlink(p, g)
      PROVE  \E h \in File : file'[h] # Missing /\ file'[h][s] >= file[f][s]
  <2>1. /\ Folded(p) /\ Doomed(p) /\ p \in File /\ g \in persist[p].doomed
        /\ file' = [file EXCEPT ![g] = Missing]
    BY <1>5 DEF Unlink, IndInv, MarksInv, File
  <2>2. CASE f = g
    <3>1. /\ persist[p].at \in {"sweep", "unlink"} /\ f # p /\ f \in Old(p)
      BY <2>1, <2>2 DEF Doomed, Old, Listing
    <3>2. file[p] # Missing /\ Within(file[f], file[p])
      BY <2>1, <3>1 DEF Folded
    <3> QED BY <1>1, <2>1, <2>2, <3>1, <3>2, WatermarksAssumption DEF Within, Marks
  <2>3. CASE f # g
    BY <1>1, <1>2, <2>1, <2>3 DEF Listing
  <2> QED BY <2>2, <2>3
<1>6. file' = file \/ \E p \in Proc : Written(p) \/ \E g \in File : Unlink(p, g)
  <2>1. CASE UNCHANGED vars
    BY <2>1 DEF vars, disk
  <2>2. ASSUME NEW p \in Proc, NEW q \in Session, NEW ts \in 1..MaxTs, Note(p, q, ts)
        PROVE  file' = file
    BY <2>2 DEF Note, disk
  <2>3. ASSUME NEW p \in Proc, NEW q \in Session, BeginLoad(p, q)
        PROVE  file' = file
    BY <2>3 DEF BeginLoad, disk
  <2>4. ASSUME NEW p \in Proc, NEW l \in Lane, ListFiles(p, l) \/ EndLoad(p, l)
        PROVE  file' = file
    BY <2>4 DEF ListFiles, EndLoad, disk
  <2>5. ASSUME NEW p \in Proc, NEW l \in Lane, NEW g \in File, ReadFile(p, l, g)
        PROVE  file' = file
    BY <2>5 DEF ReadFile, disk
  <2>6. ASSUME NEW p \in Proc,
               \/ BeginPersist(p) \/ ListAgain(p) \/ Snapshot(p) \/ NotWritten(p)
               \/ PickGarbage(p) \/ PickStale(p) \/ EndPersist(p) \/ Crash(p)
        PROVE  file' = file
    BY <2>6 DEF BeginPersist, ListAgain, Snapshot, NotWritten, PickGarbage, PickStale,
                EndPersist, Crash, disk
  <2>7. ASSUME NEW p \in Proc, NEW g \in File, MergeFile(p, g)
        PROVE  file' = file
    BY <2>7 DEF MergeFile, disk
  <2>8. ASSUME NEW days \in Spans, TimePasses(days)
        PROVE  file' = file
    BY <2>8 DEF TimePasses
  <2> QED BY <2>1, <2>2, <2>3, <2>4, <2>5, <2>6, <2>7, <2>8 DEF Next
<1> QED BY <1>3, <1>4, <1>5, <1>6

(* No acknowledged turn's mark is lost on disk, whoever reads, writes, dies  *)
(* or reaps at the same time, in any number, when no read of a merge fails.  *)
THEOREM MarksAreKept == ASSUME MergeMayFail = FALSE PROVE Spec => MarksKept
<1>1. IndInv /\ [Next]_vars
      => [\A s \in Session : \A v \in Stored(s) : \E w \in Stored(s)' : w >= v]_vars
  BY StepKeeps
<1>2. Spec => []IndInv
  BY WatermarksSound DEF IndInv
<1> QED BY <1>1, <1>2, PTL DEF Spec, MarksKept
=============================================================================
