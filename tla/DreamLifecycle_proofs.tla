----------------------- MODULE DreamLifecycle_proofs -----------------------
(* The safety of the dream engine, for every number of runs, rows, ranges,   *)
(* restarts and held events.                                                 *)
(*                                                                           *)
(* The trigger and the snapshotter each keep their own idea of the dream in  *)
(* flight: the safe-clear fires for the trigger's range, on the              *)
(* snapshotter's active snapshot.  SafeClear is therefore not inductive: the *)
(* proof carries that, while no boot met two unfinished runs, the active     *)
(* snapshot is the one the running chain is working on (OwnedOK), and that a *)
(* journal file's phases tell whether its answer is final (FileOK).          *)
(* The last part carries who answers for the dream in flight (TriggerOK).    *)
EXTENDS DreamLifecycle, SequenceTheorems, WellFoundedInduction, TLAPS

(* The phases of a file and its payload agree, and no answer was read from   *)
(* rows outside the snapshot.                                                *)
FileOK(f) ==
    /\ ~f.result.known => f.result = NoResult
    /\ \A res \in {f.result, f.seatA, f.seatB} : res.consumed \subseteq f.chunks
    /\ f.result.known <=> ("reflect_done" \in f.phases \/ "combine_done" \in f.phases)
    /\ "combine_done" \in f.phases => "reflect_b_done" \in f.phases
    /\ "reflect_done" \in f.phases =>
          "reflect_a_done" \notin f.phases /\ "reflect_b_done" \notin f.phases
    /\ Exists(f) => f.range \in Window

FilesOK == \A r \in Run : FileOK(journal[r])

(* What the position of the thread says of the run it works on.              *)
Attempt == {"register", "start", "reflect", "seat_a", "seat_b", "combine", "merge", "write"}
Asking == {"reflect", "seat_a", "seat_b", "combine"}
Settled == {"purge", "mark", "finish", "report"}

ChainOK ==
    /\ pc \notin {"idle", "capture"} => run \in Run
    /\ pc = "capture" => trig.range \in Window
    /\ pc \in Attempt => Exists(journal[run])
    /\ pc \in Asking => ~journal[run].result.known
    /\ pc = "reflect" => /\ "reflect_a_done" \notin journal[run].phases
                         /\ "reflect_b_done" \notin journal[run].phases
    /\ pc = "combine" => "reflect_b_done" \in journal[run].phases
    /\ pc \in {"merge", "write"} => journal[run].result.known
    /\ pc = "write" => journal[run].result.triples \ left \subseteq graph
    /\ pc \in Settled => run \in committed
    /\ \A r \in resumes : Exists(journal[r])
    /\ active # NoRun => Exists(journal[active])
    /\ pc = "mark" => active \in Run /\ Done(journal[active])

(* A committed run's answer is final, written and accounted for.             *)
CommittedOK ==
    \A r \in committed : /\ journal[r].result.known
                         /\ journal[r].result.triples \subseteq graph
                         /\ journal[r].result.consumed \subseteq covered

(* The chains waiting below the running one.                                 *)
OuterOK ==
    /\ pc = "idle" => outer = <<>>
    /\ pc \in {"idle", "capture"} => run = NoRun
    /\ \A i \in 1..Len(outer) : outer[i] \in committed /\ outer[i] # run
    /\ \A i, j \in 1..Len(outer) : outer[i] = outer[j] => i = j

(* Snapshotter, trigger and thread agree on the dream in flight.             *)
Owning == {"start", "reflect", "seat_a", "seat_b", "combine", "merge", "write", "purge", "mark"}

OwnedOK ==
    ~multi => /\ resumes # {} => resumes = {active} /\ trig.inFlight /\ pc = "idle"
              /\ \A r \in resumes : ~Done(journal[r])
              /\ pc \in Owning => active = run
              /\ pc \in Attempt => ~Done(journal[run])

IInv == /\ TypeOK /\ FilesOK /\ ChainOK /\ CommittedOK /\ OuterOK /\ OwnedOK
        /\ SafeClear /\ DoneIsWritten

-----------------------------------------------------------------------------
(* Facts about the operators the actions are built from.                     *)

(* Every run is a number above NoRun.                                        *)
LEMMA RunFacts == NoRun \notin Run /\ Run \subseteq Nat /\ \A r \in Run : r >= 1 /\ r <= MaxRuns
  BY BoundsAssumption DEF Run, NoRun

(* A nonempty set of runs has a first and a last one (Min and Max of a boot).*)
LEMMA LeastNatural ==
  ASSUME NEW S \in SUBSET Nat, S # {}
  PROVE  \E x \in S : \A y \in S : x =< y
  <1>1. PICK x \in S : \A y \in S : <<y, x>> \notin OpToRel(<, Nat)
    BY WFMin, NatLessThanWellFounded, Zenon
  <1>2. \A y \in S : <<y, x>> \in Nat \X Nat
    BY Zenon
  <1>3. \A y \in S : ~ (y < x)
    BY <1>1, <1>2, Zenon DEF OpToRel
  <1> QED
    BY <1>3

LEMMA MinOfRuns ==
  ASSUME NEW S \in SUBSET Run, S # {}
  PROVE  Min(S) \in S
  <1>1. \E x \in S : \A y \in S : x =< y
    BY LeastNatural, RunFacts
  <1> QED
    BY <1>1 DEF Min

LEMMA MaxOfRuns ==
  ASSUME NEW S \in SUBSET Run, S # {}
  PROVE  Max(S) \in S
  <1> DEFINE Mirror == {MaxRuns - s : s \in S}
  <1>1. Mirror \in SUBSET Nat /\ Mirror # {}
    <2>1. \A s \in S : MaxRuns - s \in Nat
      BY RunFacts, BoundsAssumption
    <2> QED
      BY <2>1
  <1> HIDE DEF Mirror
  <1>2. PICK x \in Mirror : \A y \in Mirror : x =< y
    BY <1>1, LeastNatural
  <1>3. PICK s \in S : x = MaxRuns - s
    BY DEF Mirror
  <1>4. \A y \in S : MaxRuns - y \in Mirror
    BY DEF Mirror
  <1>5. \A y \in S : s >= y
    BY <1>2, <1>3, <1>4, RunFacts, BoundsAssumption
  <1> QED
    BY <1>5 DEF Max

(* The trigger's methods return a trigger record (DreamTrigger).             *)
LEMMA SeqTypes ==
  ASSUME NEW S, NEW q \in Seq(S)
  PROVE  /\ \A x \in S : Append(q, x) \in Seq(S)
         /\ q # <<>> => Head(q) \in S /\ Tail(q) \in Seq(S)
  BY HeadTailProperties, AppendProperties

LEMMA TriggerHolds ==
  ASSUME NEW t \in Trigger, NEW w \in Window
  PROVE  /\ HoldManual(t, w) \in Trigger /\ HoldQueued(t, w) \in Trigger
         /\ DeferProviderEvent(t, w) \in Trigger
  <1>1. /\ Append(t.queued, w) \in Seq(Window) /\ Append(t.manual, w) \in Seq(Window)
        /\ Append(t.deferred, w) \in Seq(Window)
    BY SeqTypes DEF Trigger
  <1> QED
    BY <1>1 DEF Trigger, HoldManual, HoldQueued, HoldDeferred, DeferProviderEvent

LEMMA TriggerMoves ==
  ASSUME NEW t \in Trigger
  PROVE  /\ \A auto \in BOOLEAN : SetAutoTrigger(t, auto) \in Trigger
         /\ \A w \in Window : Launched(t, w) \in Trigger
         /\ \A w \in Window : Resume(t, w) \in Trigger /\ ResumeMerge(t, w) \in Trigger
         /\ Degraded(t) \in Trigger /\ OnSnapshotReady(t) \in Trigger
         /\ OnReflectComplete(t) \in Trigger /\ Finished(t) \in Trigger
         /\ OnDreamFailed(t) \in Trigger /\ NotifyActivity(t) \in Trigger
  <1> USE DEF Trigger, DreamState
  <1>1. \A auto \in BOOLEAN : SetAutoTrigger(t, auto) \in Trigger
    BY DEF SetAutoTrigger
  <1>2. \A w \in Window : Launched(t, w) \in Trigger
    BY DEF Launched
  <1>3. \A w \in Window : Resume(t, w) \in Trigger /\ ResumeMerge(t, w) \in Trigger
    BY DEF Resume, ResumeMerge
  <1>4. Degraded(t) \in Trigger /\ OnDreamFailed(t) \in Trigger
    BY DEF Degraded, OnDreamFailed
  <1>5. OnSnapshotReady(t) \in Trigger /\ OnReflectComplete(t) \in Trigger
    BY DEF OnSnapshotReady, OnReflectComplete
  <1>6. Finished(t) \in Trigger
    BY DEF Finished
  <1>7. NotifyActivity(t) \in Trigger
    BY DEF NotifyActivity
  <1> QED
    BY <1>1, <1>2, <1>3, <1>4, <1>5, <1>6, <1>7

LEMMA TriggerTakes ==
  ASSUME NEW t \in Trigger
  PROVE  /\ t.deferred # <<>> => TakeDeferred(t) \in Trigger /\ Head(t.deferred) \in Window
         /\ HasManualWork(t) => TakeOnce(t) \in Trigger /\ OnceWindow(t) \in Window
         /\ t.queued # <<>> => /\ [t EXCEPT !.queued = Tail(@)] \in Trigger
                               /\ Head(t.queued) \in Window
  <1>1. /\ t.queued \in Seq(Window) /\ t.manual \in Seq(Window) /\ t.deferred \in Seq(Window)
    BY DEF Trigger
  <1>2. /\ t.queued # <<>> => Head(t.queued) \in Window /\ Tail(t.queued) \in Seq(Window)
        /\ t.manual # <<>> => Head(t.manual) \in Window /\ Tail(t.manual) \in Seq(Window)
        /\ t.deferred # <<>> => Head(t.deferred) \in Window /\ Tail(t.deferred) \in Seq(Window)
    BY <1>1, SeqTypes
  <1>3. t.deferred # <<>> => TakeDeferred(t) \in Trigger
    BY <1>2 DEF Trigger, TakeDeferred
  <1>4. HasManualWork(t) => TakeOnce(t) \in Trigger /\ OnceWindow(t) \in Window
    BY <1>2 DEF Trigger, HasManualWork, TakeOnce, OnceWindow
  <1>5. t.queued # <<>> => [t EXCEPT !.queued = Tail(@)] \in Trigger
    BY <1>2 DEF Trigger
  <1> QED
    BY <1>2, <1>3, <1>4, <1>5

LEMMA NewTriggerType == \A auto \in BOOLEAN : NewTrigger(auto) \in Trigger
  BY DEF Trigger, DreamState, NewTrigger

(* Events are only added, a dream stays in flight, while one is in flight.   *)
LEMMA BusyKeeps ==
  ASSUME NEW t \in Trigger, t.inFlight
  PROVE  /\ \A auto : SetAutoTrigger(t, auto).inFlight /\ Busy(SetAutoTrigger(t, auto))
         /\ \A w : HoldManual(t, w).inFlight /\ HoldQueued(t, w).inFlight
         /\ \A w : DeferProviderEvent(t, w).inFlight
         /\ TakeDeferred(t).inFlight /\ Busy(TakeDeferred(t)) /\ Busy(t)
         /\ NotifyActivity(t).inFlight
  BY DEF Trigger, DreamState, SetAutoTrigger, Busy, HoldManual, HoldQueued, HoldDeferred,
         DeferProviderEvent, TakeDeferred, NotifyActivity

-----------------------------------------------------------------------------
(* Facts about journal files (DreamSnapshot).                                *)

LEMMA ResultTypes ==
  /\ NoResult \in Result
  /\ \A chunks \in SUBSET Chunk, b \in BOOLEAN : \A res \in SeatResults(chunks, b) :
        res \in Result /\ res.known /\ res.consumed \subseteq chunks
  /\ \A p, q \in Result : \A drop : Combined(p, q, drop) \in Result /\ Combined(p, q, drop).known
  <1>1. NoResult \in Result
    BY DEF NoResult, Result
  <1>2. ASSUME NEW chunks \in SUBSET Chunk, NEW b \in BOOLEAN, NEW res \in SeatResults(chunks, b)
        PROVE  res \in Result /\ res.known /\ res.consumed \subseteq chunks
    BY <1>2 DEF SeatResults, Result
  <1>3. ASSUME NEW p \in Result, NEW q \in Result, NEW drop
        PROVE  Combined(p, q, drop) \in Result /\ Combined(p, q, drop).known
    BY <1>3 DEF Combined, Result
  <1> QED
    BY <1>1, <1>2, <1>3

LEMMA FileTypes ==
  ASSUME NEW f \in File
  PROVE  /\ \A p \in Phase : WithPhase(f, p) \in File
         /\ \A p \in Phase, res \in Result : WithResult(f, p, res) \in File
         /\ \A res \in Result : WithSeatA(f, res) \in File /\ WithSeatB(f, res) \in File
         /\ ClearIds(f) \in SUBSET Chunk
  <1>1. \A p \in Phase : WithPhase(f, p) \in File
    BY DEF File, WithPhase
  <1>2. \A p \in Phase, res \in Result : WithResult(f, p, res) \in File
    BY DEF File, WithResult, WithPhase
  <1>3. \A res \in Result : WithSeatA(f, res) \in File /\ WithSeatB(f, res) \in File
    BY DEF File, WithSeatA, WithSeatB, WithPhase, Phase
  <1>4. ClearIds(f) \in SUBSET Chunk
    BY DEF ClearIds, File
  <1> QED
    BY <1>1, <1>2, <1>3, <1>4

LEMMA NewFiles ==
  /\ NoFile \in File /\ FileOK(NoFile) /\ ~Exists(NoFile)
  /\ \A w \in Window, rows \in SUBSET Chunk :
        /\ Captured(w, rows) \in File /\ FileOK(Captured(w, rows))
        /\ Exists(Captured(w, rows)) /\ ~Done(Captured(w, rows))
  BY ResultTypes
     DEF File, NoFile, NoResult, Captured, Phase, FileOK, Exists, Done

(* Every rewrite keeps phases and payload in agreement.                      *)
LEMMA RewrittenFiles ==
  ASSUME NEW f \in File, FileOK(f), Exists(f)
  PROVE  /\ FileOK(WithPhase(f, "merge_done"))
         /\ \A res \in Result : ~f.result.known /\ res.consumed \subseteq f.chunks =>
               FileOK(WithSeatA(f, res)) /\ FileOK(WithSeatB(f, res))
         /\ \A res \in Result :
               (/\ "reflect_a_done" \notin f.phases /\ "reflect_b_done" \notin f.phases
                /\ ~f.result.known /\ res.known /\ res.consumed \subseteq f.chunks)
                  => FileOK(WithResult(f, "reflect_done", res))
         /\ \A res \in Result :
               (/\ "reflect_b_done" \in f.phases /\ ~f.result.known /\ res.known
                /\ res.consumed \subseteq f.chunks)
                  => FileOK(WithResult(f, "combine_done", res))
  <1> USE DEF File, FileOK, Exists, WithPhase
  <1>1. FileOK(WithPhase(f, "merge_done"))
    OBVIOUS
  <1>2. ASSUME NEW res \in Result, ~f.result.known, res.consumed \subseteq f.chunks
        PROVE  FileOK(WithSeatA(f, res)) /\ FileOK(WithSeatB(f, res))
    BY <1>2 DEF WithSeatA, WithSeatB
  <1>3. ASSUME NEW res \in Result, "reflect_a_done" \notin f.phases,
               "reflect_b_done" \notin f.phases, ~f.result.known, res.known,
               res.consumed \subseteq f.chunks
        PROVE  FileOK(WithResult(f, "reflect_done", res))
    BY <1>3 DEF WithResult
  <1>4. ASSUME NEW res \in Result, "reflect_b_done" \in f.phases, ~f.result.known, res.known,
               res.consumed \subseteq f.chunks
        PROVE  FileOK(WithResult(f, "combine_done", res))
    BY <1>4 DEF WithResult
  <1> QED
    BY <1>1, <1>2, <1>3, <1>4

(* Where a consistent file resumes says whether its answer is journaled.     *)
LEMMA Boundaries ==
  ASSUME NEW f \in File, FileOK(f)
  PROVE  /\ Boundary(f) \in {"merge", "combine", "reflect_b", "reflect"}
         /\ Boundary(f) = "merge" <=> f.result.known
         /\ Boundary(f) = "combine" => "reflect_b_done" \in f.phases
         /\ Boundary(f) = "reflect" => /\ "reflect_a_done" \notin f.phases
                                       /\ "reflect_b_done" \notin f.phases
  BY DEF Boundary, FileOK, File

-----------------------------------------------------------------------------
(* The chains waiting below the running one.                                 *)

LEMMA NatPredecessor == \A m \in Nat : m # 0 => \E n \in Nat : m = n + 1 /\ m - 1 = n
  OBVIOUS

LEMMA PopLast ==
  ASSUME NEW S, NEW q \in Seq(S), q # <<>>
  PROVE  /\ Len(q) \in 1..Len(q) /\ q[Len(q)] \in S
         /\ SubSeq(q, 1, Len(q) - 1) \in Seq(S)
         /\ Len(SubSeq(q, 1, Len(q) - 1)) = Len(q) - 1
         /\ \A i \in 1..(Len(q) - 1) : SubSeq(q, 1, Len(q) - 1)[i] = q[i]
  <1>1. Len(q) \in Nat /\ Len(q) # 0
    BY LenProperties, EmptySeq
  <1>2. PICK n \in Nat : Len(q) = n + 1 /\ Len(q) - 1 = n
    BY <1>1, NatPredecessor
  <1>3. n + 1 \in 1..(n + 1) /\ \A i \in 1..n : i \in 1..(n + 1)
    OBVIOUS
  <1>4. q[n + 1] \in S /\ \A i \in 1..n : q[i] \in S
    BY <1>2, <1>3, ElementOfSeq
  <1>5. /\ SubSeq(q, 1, n) \in Seq(S)
        /\ Len(SubSeq(q, 1, n)) = IF 1 <= n THEN n - 1 + 1 ELSE 0
        /\ \A i \in 1..(n - 1 + 1) : SubSeq(q, 1, n)[i] = q[1 + i - 1]
    BY <1>4, SubSeqProperties
  <1>6. n - 1 + 1 = n /\ (1 <= n \/ n = 0) /\ \A i \in 1..n : 1 + i - 1 = i
    OBVIOUS
  <1>7. Len(SubSeq(q, 1, n)) = n /\ \A i \in 1..n : SubSeq(q, 1, n)[i] = q[i]
    BY <1>5, <1>6
  <1> QED
    BY <1>2, <1>3, <1>4, <1>5, <1>7

(* The end of a chain: the thread is idle, or back in a committed chain.     *)
LEMMA PoppedChain ==
  ASSUME TypeOK, OuterOK, EndChain
  PROVE  /\ outer' \in Seq(Run)
         /\ \/ pc' = "idle" /\ run' = NoRun /\ outer' = <<>>
            \/ pc' = "report" /\ run' \in Run /\ run' \in committed
         /\ \A i \in 1..Len(outer') : outer'[i] \in committed /\ outer'[i] # run'
         /\ \A i, j \in 1..Len(outer') : outer'[i] = outer'[j] => i = j
  <1>1. CASE outer = <<>>
    BY <1>1, EmptySeq DEF EndChain
  <1>2. CASE outer # <<>>
    <2>1. outer \in Seq(Run)
      BY DEF TypeOK
    <2>2. /\ Len(outer) \in 1..Len(outer) /\ outer[Len(outer)] \in Run
          /\ outer' \in Seq(Run) /\ Len(outer') = Len(outer) - 1
          /\ \A i \in 1..(Len(outer) - 1) : outer'[i] = outer[i]
          /\ run' = outer[Len(outer)] /\ pc' = "report"
      BY <1>2, <2>1, PopLast DEF EndChain
    <2>3. Len(outer) \in Nat
      BY <2>1, LenProperties
    <2>4. run' \in committed
      BY <2>2 DEF OuterOK
    <2>5. \A i \in 1..Len(outer') : outer'[i] = outer[i] /\ i \in 1..Len(outer) /\ i # Len(outer)
      BY <2>2, <2>3
    <2>6. \A i \in 1..Len(outer') : outer'[i] \in committed /\ outer'[i] # run'
      BY <2>2, <2>5 DEF OuterOK
    <2>7. \A i, j \in 1..Len(outer') : outer'[i] = outer'[j] => i = j
      BY <2>5 DEF OuterOK
    <2> QED
      BY <2>2, <2>4, <2>6, <2>7
  <1> QED
    BY <1>1, <1>2

-----------------------------------------------------------------------------
(* The steps, by what they disturb.                                          *)

(* A chain ends and nothing was written.                                     *)
LEMMA ChainEnds ==
  ASSUME IInv, pc # "idle", EndChain,
         UNCHANGED <<stored, consolidated, graph, journal, registered, active, activeDone, fresh,
                     releasing, resumes, committed, covered, recovered, multi, restarts>>,
         finished' \in SUBSET Run, trig' \in Trigger, left' \in SUBSET Chunk,
         strikes' \in [Window -> Nat], parked' \in SUBSET Window, clean' \in BOOLEAN
  PROVE  IInv'
  <1>1. /\ outer' \in Seq(Run)
        /\ \/ pc' = "idle" /\ run' = NoRun /\ outer' = <<>>
           \/ pc' = "report" /\ run' \in Run /\ run' \in committed
        /\ \A i \in 1..Len(outer') : outer'[i] \in committed /\ outer'[i] # run'
        /\ \A i, j \in 1..Len(outer') : outer'[i] = outer'[j] => i = j
    BY PoppedChain DEF IInv
  <1>2. TypeOK'
    BY <1>1 DEF IInv, TypeOK, PC
  <1>3. FilesOK'
    BY DEF IInv, FilesOK
  <1>4. ChainOK'
    BY <1>1 DEF IInv, ChainOK, Attempt, Asking, Settled
  <1>5. CommittedOK' /\ SafeClear' /\ DoneIsWritten'
    BY DEF IInv, CommittedOK, SafeClear, DoneIsWritten
  <1>6. OuterOK'
    BY <1>1, RunFacts DEF OuterOK
  <1>7. OwnedOK'
    BY <1>1 DEF IInv, OwnedOK, Owning, Attempt
  <1> QED
    BY <1>2, <1>3, <1>4, <1>5, <1>6, <1>7 DEF IInv

LEMMA FailedSteps ==
  ASSUME IInv
  PROVE  /\ CaptureFails => IInv'
         /\ RegisterFails => IInv'
         /\ SkipParked => IInv'
         /\ ReflectFails => IInv'
         /\ ChainRaises => IInv'
         /\ MergeDefers => IInv'
         /\ MergeFails => IInv'
         /\ Report => IInv'
  <1> USE DEF stores, chain, guards, history
  <1>1. /\ trig \in Trigger /\ left \in SUBSET Chunk /\ finished \in SUBSET Run
        /\ strikes \in [Window -> Nat] /\ parked \in SUBSET Window /\ clean \in BOOLEAN
        /\ Degraded(trig) \in Trigger /\ OnDreamFailed(trig) \in Trigger
    BY TriggerMoves DEF IInv, TypeOK
  <1>2. ASSUME CaptureFails PROVE IInv'
    BY <1>1, <1>2, ChainEnds DEF CaptureFails, LaunchFails
  <1>3. ASSUME RegisterFails PROVE IInv'
    BY <1>1, <1>3, ChainEnds DEF RegisterFails, LaunchFails
  <1>4. ASSUME SkipParked PROVE IInv'
    BY <1>1, <1>4, ChainEnds DEF SkipParked, Fail
  <1>5. ASSUME ReflectFails PROVE IInv'
    BY <1>1, <1>5, ChainEnds DEF ReflectFails, Fail
  <1>6. ASSUME ChainRaises PROVE IInv'
    BY <1>1, <1>6, ChainEnds DEF ChainRaises
  <1>7. ASSUME MergeDefers PROVE IInv'
    <2>1. journal[run].range \in Window
      BY <1>7 DEF MergeDefers, IInv, FilesOK, FileOK, ChainOK, Exists, Attempt
    <2>2. strikes' \in [Window -> Nat] /\ parked' \in SUBSET Window
      BY <1>1, <1>7, <2>1 DEF MergeDefers
    <2> QED
      BY <1>1, <1>7, <2>2, ChainEnds DEF MergeDefers, Fail
  <1>8. ASSUME MergeFails PROVE IInv'
    BY <1>1, <1>8, ChainEnds DEF MergeFails, Fail
  <1>9. ASSUME Report PROVE IInv'
    <2>1. finished' \in SUBSET Run
      BY <1>1, <1>9 DEF Report, IInv, TypeOK
    <2> QED
      BY <1>1, <1>9, <2>1, ChainEnds DEF Report
  <1> QED
    BY <1>2, <1>3, <1>4, <1>5, <1>6, <1>7, <1>8, <1>9

(* The thread is between chains and an event is held or launches a dream.    *)
LEMMA EventSteps ==
  ASSUME IInv, pc = "idle",
         UNCHANGED <<stores, active, activeDone, run, fresh, left, outer, resumes, guards,
                     history, clean>>,
         releasing' \in BOOLEAN, trig' \in Trigger,
         trig.inFlight => trig'.inFlight /\ pc' = pc,
         pc' = pc \/ (pc' = "capture" /\ trig'.range \in Window)
  PROVE  IInv'
  <1> USE DEF stores, guards, history
  <1>1. TypeOK'
    BY DEF IInv, TypeOK, PC
  <1>2. FilesOK' /\ CommittedOK' /\ SafeClear' /\ DoneIsWritten'
    BY DEF IInv, FilesOK, CommittedOK, SafeClear, DoneIsWritten
  <1>3. ChainOK'
    BY DEF IInv, ChainOK, Attempt, Asking, Settled
  <1>4. OuterOK'
    BY DEF IInv, OuterOK
  <1>5. OwnedOK'
    BY DEF IInv, OwnedOK, Owning, Attempt
  <1> QED
    BY <1>1, <1>2, <1>3, <1>4, <1>5 DEF IInv

LEMMA Deliveries ==
  ASSUME NEW t \in Trigger, NEW w \in Window, Deliver(t, w)
  PROVE  /\ trig' \in Trigger
         /\ t.inFlight => trig'.inFlight /\ pc' = pc
         /\ pc' = pc \/ (pc' = "capture" /\ trig'.range \in Window)
  <1>1. Launched(t, w).range = w
    BY DEF Launched, Trigger
  <1> QED
    BY <1>1, TriggerHolds, TriggerMoves, BusyKeeps DEF Deliver, Launch

LEMMA JobSteps ==
  ASSUME IInv
  PROVE  JobStep => IInv'
  <1> USE DEF stores, chain, guards, history, Idle
  <1>1. trig \in Trigger /\ AutoModes \subseteq BOOLEAN /\ releasing \in BOOLEAN
    BY ModesAssumption DEF IInv, TypeOK
  <1>2. ASSUME NEW w \in Window, NEW auto \in AutoModes, HandleEvent(w, auto)
        PROVE  IInv'
    <2> DEFINE t == SetAutoTrigger(trig, auto)
    <2>1. t \in Trigger /\ (trig.inFlight => t.inFlight)
      BY <1>1, TriggerMoves, BusyKeeps
    <2>2. CASE auto
      BY <1>1, <1>2, <2>1, <2>2, Deliveries, EventSteps DEF HandleEvent
    <2>3. CASE ~auto
      BY <1>1, <1>2, <2>1, <2>3, TriggerHolds, BusyKeeps, EventSteps DEF HandleEvent
    <2> QED
      BY <2>2, <2>3
  <1>3. ASSUME NEW w \in Window, HoldEvent(w)
        PROVE  IInv'
    BY <1>1, <1>3, TriggerHolds, BusyKeeps, EventSteps DEF HoldEvent
  <1>4. ASSUME NEW auto \in AutoModes, BeginRelease(auto)
        PROVE  IInv'
    BY <1>1, <1>4, TriggerMoves, BusyKeeps, EventSteps DEF BeginRelease
  <1>5. ASSUME ReleaseNext
        PROVE  IInv'
    <2>1. /\ TakeDeferred(trig) \in Trigger /\ Head(trig.deferred) \in Window
          /\ trig.inFlight => TakeDeferred(trig).inFlight
      BY <1>1, <1>5, TriggerTakes, BusyKeeps DEF ReleaseNext
    <2>2. CASE trig.auto
      BY <1>1, <1>5, <2>1, <2>2, Deliveries, EventSteps DEF ReleaseNext
    <2>3. CASE ~trig.auto
      BY <1>1, <1>5, <2>1, <2>3, TriggerHolds, BusyKeeps, EventSteps DEF ReleaseNext
    <2> QED
      BY <2>2, <2>3
  <1>6. ASSUME EndRelease
        PROVE  IInv'
    BY <1>1, <1>6, EventSteps DEF EndRelease
  <1>7. ASSUME DreamOnce
        PROVE  IInv'
    <2>1. TakeOnce(trig) \in Trigger /\ OnceWindow(trig) \in Window
      BY <1>1, <1>7, TriggerTakes DEF DreamOnce
    <2>2. /\ trig' \in Trigger /\ trig'.range \in Window /\ ~trig.inFlight
      BY <1>1, <1>7, <2>1, TriggerMoves DEF DreamOnce, Launch, Launched, Trigger, Busy
    <2> QED
      BY <1>1, <1>7, <2>2, EventSteps DEF DreamOnce, Launch
  <1>8. ASSUME NEW r \in Run, StartResume(r)
        PROVE  IInv'
    <2>1. r \in resumes /\ pc = "idle" /\ pc' = "start" /\ run' = r /\ resumes' = resumes \ {r}
      BY <1>8 DEF StartResume
    <2>2. TypeOK'
      BY <1>8 DEF StartResume, IInv, TypeOK, PC
    <2>3. FilesOK' /\ CommittedOK' /\ SafeClear' /\ DoneIsWritten'
      BY <1>8 DEF StartResume, IInv, FilesOK, CommittedOK, SafeClear, DoneIsWritten
    <2>4. ChainOK'
      BY <1>8, <2>1 DEF StartResume, IInv, ChainOK, Attempt, Asking, Settled
    <2>5. OuterOK'
      BY <1>8, <2>1, EmptySeq DEF StartResume, IInv, OuterOK
    <2>6. OwnedOK'
      BY <1>8, <2>1 DEF StartResume, IInv, OwnedOK, Owning, Attempt
    <2> QED
      BY <2>2, <2>3, <2>4, <2>5, <2>6 DEF IInv
  <1> QED
    BY <1>2, <1>3, <1>4, <1>5, <1>6, <1>7, <1>8 DEF JobStep

(* A row is stored, or a turn reaches the trigger.                           *)
LEMMA OutsideSteps ==
  ASSUME IInv
  PROVE  /\ \A c \in Chunk : Store(c) => IInv'
         /\ Activity => IInv'
  <1> USE DEF stores, chain, guards, history
  <1>1. ASSUME NEW c \in Chunk, Store(c)
        PROVE  IInv'
    <2>1. TypeOK'
      BY <1>1 DEF Store, IInv, TypeOK
    <2>2. FilesOK' /\ CommittedOK' /\ SafeClear' /\ DoneIsWritten' /\ ChainOK' /\ OuterOK' /\ OwnedOK'
      BY <1>1 DEF Store, IInv, FilesOK, CommittedOK, SafeClear, DoneIsWritten, ChainOK, OuterOK,
                  OwnedOK
    <2> QED
      BY <2>1, <2>2 DEF IInv
  <1>2. ASSUME Activity
        PROVE  IInv'
    <2>1. trig' \in Trigger /\ trig'.range = trig.range /\ (trig.inFlight => trig'.inFlight)
      BY <1>2, TriggerMoves, BusyKeeps DEF Activity, NotifyActivity, IInv, TypeOK, Trigger
    <2>2. TypeOK'
      BY <1>2, <2>1 DEF Activity, IInv, TypeOK
    <2>3. FilesOK' /\ CommittedOK' /\ SafeClear' /\ DoneIsWritten' /\ ChainOK' /\ OuterOK' /\ OwnedOK'
      BY <1>2, <2>1 DEF Activity, IInv, FilesOK, CommittedOK, SafeClear, DoneIsWritten, ChainOK,
                        OuterOK, OwnedOK
    <2> QED
      BY <2>2, <2>3 DEF IInv
  <1> QED
    BY <1>1, <1>2

(* A step of the running chain that leaves its file alone.                   *)
LEMMA QuietSteps ==
  ASSUME IInv
  PROVE  /\ Register => IInv'
         /\ \A vote \in VoteModes : Dispatch(vote) => IInv'
         /\ MergeBegins => IInv'
         /\ \A c \in Chunk : WriteTriple(c) => IInv'
         /\ MergeCommits => IInv'
         /\ PurgeSkips => IInv'
         /\ ClearRows => IInv'
         /\ PurgeFails => IInv'
  <1> USE DEF stores, chain, guards, history
  <1>1. trig \in Trigger /\ journal \in [Run -> File]
    BY DEF IInv, TypeOK
  <1>2. ASSUME Register PROVE IInv'
    <2>1. TypeOK'
      BY <1>1, <1>2, TriggerMoves DEF Register, IInv, TypeOK, PC, ChainOK
    <2>2. FilesOK' /\ CommittedOK' /\ SafeClear' /\ DoneIsWritten' /\ ChainOK' /\ OuterOK'
      BY <1>2 DEF Register, IInv, FilesOK, CommittedOK, SafeClear, DoneIsWritten, ChainOK, OuterOK,
                  Attempt, Asking, Settled
    <2>3. OwnedOK'
      BY <1>2 DEF Register, IInv, OwnedOK, Attempt, Owning
    <2> QED
      BY <2>1, <2>2, <2>3 DEF IInv
  <1>3. ASSUME NEW vote \in VoteModes, Dispatch(vote) PROVE IInv'
    <2>1. run \in Run /\ pc = "start"
      BY <1>3 DEF Dispatch, IInv, ChainOK
    <2>2. /\ journal[run] \in File /\ FileOK(journal[run])
      BY <1>1, <2>1 DEF IInv, FilesOK
    <2>3. /\ pc' = "merge" => journal[run].result.known
          /\ pc' \in Asking => ~journal[run].result.known
          /\ pc' = "combine" => "reflect_b_done" \in journal[run].phases
          /\ pc' = "reflect" => /\ "reflect_a_done" \notin journal[run].phases
                                /\ "reflect_b_done" \notin journal[run].phases
          /\ pc' \in {"merge", "combine", "seat_a", "seat_b", "reflect"}
      BY <1>3, <2>2, Boundaries DEF Dispatch, Asking
    <2>4. TypeOK'
      BY <1>3, <2>3 DEF Dispatch, IInv, TypeOK, PC
    <2>5. FilesOK' /\ CommittedOK' /\ SafeClear' /\ DoneIsWritten'
      BY <1>3 DEF Dispatch, IInv, FilesOK, CommittedOK, SafeClear, DoneIsWritten
    <2>6. ChainOK'
      BY <1>3, <2>1, <2>3 DEF Dispatch, IInv, ChainOK, Attempt, Asking, Settled
    <2>7. OuterOK' /\ OwnedOK'
      BY <1>3, <2>1, <2>3 DEF Dispatch, IInv, OuterOK, OwnedOK, Attempt, Owning
    <2> QED
      BY <2>4, <2>5, <2>6, <2>7 DEF IInv
  <1>4. ASSUME MergeBegins PROVE IInv'
    <2>1. run \in Run /\ journal[run].result.triples \in SUBSET Chunk
      BY <1>1, <1>4 DEF MergeBegins, IInv, ChainOK, File, Result
    <2>2. TypeOK'
      BY <1>4, <2>1 DEF MergeBegins, IInv, TypeOK, PC
    <2>3. FilesOK' /\ CommittedOK' /\ SafeClear' /\ DoneIsWritten' /\ ChainOK'
      BY <1>4 DEF MergeBegins, IInv, FilesOK, CommittedOK, SafeClear, DoneIsWritten, ChainOK,
                  Attempt, Asking, Settled
    <2>4. OuterOK' /\ OwnedOK'
      BY <1>4 DEF MergeBegins, IInv, OuterOK, OwnedOK, Attempt, Owning
    <2> QED
      BY <2>2, <2>3, <2>4 DEF IInv
  <1>5. ASSUME NEW c \in Chunk, WriteTriple(c) PROVE IInv'
    <2>1. graph \subseteq graph' /\ c \in graph' /\ left' = left \ {c} /\ pc = "write"
      BY <1>5 DEF WriteTriple
    <2>2. TypeOK'
      BY <1>5 DEF WriteTriple, IInv, TypeOK
    <2>3. CommittedOK' /\ SafeClear' /\ DoneIsWritten'
      BY <1>5, <2>1 DEF WriteTriple, IInv, CommittedOK, SafeClear, DoneIsWritten
    <2>4. FilesOK' /\ ChainOK'
      BY <1>5, <2>1 DEF WriteTriple, IInv, FilesOK, ChainOK, Attempt, Asking, Settled
    <2>5. OuterOK' /\ OwnedOK'
      BY <1>5 DEF WriteTriple, IInv, OuterOK, OwnedOK
    <2> QED
      BY <2>2, <2>3, <2>4, <2>5 DEF IInv
  <1>6. ASSUME MergeCommits PROVE IInv'
    <2>1. /\ run \in Run /\ pc = "write" /\ left = {}
          /\ journal[run].result.known /\ journal[run].result.triples \subseteq graph
          /\ committed' = committed \cup {run} /\ pc' \in {"purge", "report"}
          /\ covered' = covered \cup journal[run].result.consumed
      BY <1>6 DEF MergeCommits, IInv, ChainOK
    <2>2. journal[run].result.consumed \in SUBSET Chunk
      BY <1>1, <2>1 DEF File, Result
    <2>3. TypeOK'
      BY <1>6, <2>1, <2>2 DEF MergeCommits, IInv, TypeOK, PC
    <2>4. CommittedOK' /\ SafeClear' /\ DoneIsWritten' /\ FilesOK'
      BY <1>6, <2>1 DEF MergeCommits, IInv, CommittedOK, SafeClear, DoneIsWritten, FilesOK
    <2>5. ChainOK'
      BY <1>6, <2>1 DEF MergeCommits, IInv, ChainOK, Attempt, Asking, Settled
    <2>6. OuterOK' /\ OwnedOK'
      BY <1>6, <2>1 DEF MergeCommits, IInv, OuterOK, OwnedOK, Attempt, Owning
    <2> QED
      BY <2>3, <2>4, <2>5, <2>6 DEF IInv
  <1>7. ASSUME PurgeSkips PROVE IInv'
    <2>1. TypeOK' /\ FilesOK' /\ CommittedOK' /\ SafeClear' /\ DoneIsWritten'
      BY <1>7 DEF PurgeSkips, IInv, TypeOK, PC, FilesOK, CommittedOK, SafeClear, DoneIsWritten
    <2>2. ChainOK' /\ OuterOK' /\ OwnedOK'
      BY <1>7 DEF PurgeSkips, IInv, ChainOK, OuterOK, OwnedOK, Attempt, Asking, Settled, Owning
    <2> QED
      BY <2>1, <2>2 DEF IInv
  <1>8. ASSUME ClearRows PROVE IInv'
    <2>1. ASSUME ~multi PROVE ClearIds(journal[active]) \subseteq covered
      <3>1. active = run /\ run \in committed
        BY <1>8, <2>1 DEF ClearRows, IInv, OwnedOK, Owning, ChainOK, Settled
      <3> QED
        BY <3>1 DEF IInv, CommittedOK, ClearIds
    <2>2. ClearIds(journal[active]) \in SUBSET Chunk
      BY <1>1, <1>8, FileTypes DEF ClearRows, IInv, ChainOK
    <2>3. TypeOK'
      BY <1>8, <2>2 DEF ClearRows, IInv, TypeOK, PC
    <2>4. SafeClear'
      BY <1>8, <2>1 DEF ClearRows, IInv, SafeClear
    <2>5. FilesOK' /\ CommittedOK' /\ DoneIsWritten' /\ ChainOK' /\ OuterOK' /\ OwnedOK'
      BY <1>8 DEF ClearRows, IInv, FilesOK, CommittedOK, DoneIsWritten, ChainOK, OuterOK, OwnedOK,
                  Attempt, Asking, Settled, Owning
    <2> QED
      BY <2>3, <2>4, <2>5 DEF IInv
  <1>9. ASSUME PurgeFails PROVE IInv'
    <2>1. TypeOK' /\ FilesOK' /\ CommittedOK' /\ SafeClear' /\ DoneIsWritten'
      BY <1>9 DEF PurgeFails, IInv, TypeOK, PC, FilesOK, CommittedOK, SafeClear, DoneIsWritten
    <2>2. ChainOK' /\ OuterOK' /\ OwnedOK'
      BY <1>9 DEF PurgeFails, IInv, ChainOK, OuterOK, OwnedOK, Attempt, Asking, Settled, Owning
    <2> QED
      BY <2>1, <2>2 DEF IInv
  <1> QED
    BY <1>2, <1>3, <1>4, <1>5, <1>6, <1>7, <1>8, <1>9

(* The file of the running chain takes an answer.                            *)
LEMMA AnswerSteps ==
  ASSUME IInv, pc \in Asking,
         NEW f \in File, FileOK(f), Exists(f), Done(f) <=> Done(journal[run]),
         journal' = [journal EXCEPT ![run] = f], trig' \in Trigger, fresh' \in BOOLEAN,
         UNCHANGED <<stored, consolidated, graph, registered, finished, active, activeDone, run,
                     left, outer, releasing, resumes, guards, history, clean>>,
         \/ pc' = "seat_b" /\ ~f.result.known
         \/ pc' = "combine" /\ ~f.result.known /\ "reflect_b_done" \in f.phases
         \/ pc' = "merge" /\ f.result.known
  PROVE  IInv'
  <1> USE DEF guards, history
  <1>1. /\ run \in Run /\ run \notin committed /\ journal \in [Run -> File]
        /\ pc \notin {"idle", "capture", "mark"}
    BY DEF IInv, TypeOK, ChainOK, CommittedOK, Asking
  <1>2. /\ journal' \in [Run -> File] /\ journal'[run] = f
        /\ \A r \in Run : r # run => journal'[r] = journal[r]
    BY <1>1
  <1>3. TypeOK'
    BY <1>2 DEF IInv, TypeOK, PC
  <1>4. FilesOK'
    BY <1>1, <1>2 DEF IInv, FilesOK
  <1>5. \A r \in committed : r \in Run /\ journal'[r] = journal[r]
    BY <1>1, <1>2 DEF IInv, TypeOK
  <1>6. CommittedOK' /\ SafeClear'
    BY <1>5 DEF IInv, CommittedOK, SafeClear
  <1>7. \A r \in Run : (Exists(journal[r]) => Exists(journal'[r]))
                       /\ (Done(journal'[r]) <=> Done(journal[r]))
    BY <1>2
  <1>8. DoneIsWritten'
    BY <1>5, <1>7 DEF IInv, DoneIsWritten
  <1>9. resumes \subseteq Run /\ active \in Run \cup {NoRun}
    BY DEF IInv, TypeOK
  <1>10. ChainOK'
    BY <1>1, <1>2, <1>7, <1>9 DEF IInv, ChainOK, Attempt, Asking, Settled
  <1>11. OuterOK'
    BY <1>1 DEF IInv, OuterOK
  <1>12. OwnedOK'
    BY <1>1, <1>7, <1>9 DEF IInv, OwnedOK, Owning, Attempt, Asking
  <1> QED
    BY <1>3, <1>4, <1>6, <1>8, <1>10, <1>11, <1>12 DEF IInv

LEMMA AskingSteps ==
  ASSUME IInv
  PROVE  (Reflect \/ SeatA \/ SeatB \/ Combine) => IInv'
  <1>1. /\ trig \in Trigger /\ OnReflectComplete(trig) \in Trigger /\ fresh \in BOOLEAN
        /\ journal \in [Run -> File]
    BY TriggerMoves DEF IInv, TypeOK
  <1>2. ASSUME pc \in Asking
        PROVE  /\ run \in Run /\ journal[run] \in File /\ FileOK(journal[run])
               /\ Exists(journal[run]) /\ ~journal[run].result.known
               /\ \A res \in Answers : /\ res \in Result /\ res.known
                                        /\ res.consumed \subseteq journal[run].chunks
    <2>1. run \in Run /\ Exists(journal[run]) /\ ~journal[run].result.known
      BY <1>2 DEF IInv, ChainOK, Asking, Attempt
    <2>2. journal[run] \in File /\ FileOK(journal[run])
      BY <1>1, <2>1 DEF IInv, FilesOK
    <2>3. journal[run].chunks \in SUBSET Chunk
      BY <2>2 DEF File
    <2>4. \A res \in Answers : /\ res \in Result /\ res.known
                               /\ res.consumed \subseteq journal[run].chunks
      BY <2>3, ModesAssumption, ResultTypes DEF Answers
    <2> QED
      BY <2>1, <2>2, <2>4
  <1>3. ASSUME Reflect PROVE IInv'
    <2>1. PICK res \in Answers :
             journal' = [journal EXCEPT ![run] = WithResult(@, "reflect_done", res)]
      BY <1>3 DEF Reflect
    <2> DEFINE f == WithResult(journal[run], "reflect_done", res)
    <2>2. pc \in Asking /\ pc = "reflect"
      BY <1>3 DEF Reflect, Asking
    <2>3. /\ "reflect_a_done" \notin journal[run].phases
          /\ "reflect_b_done" \notin journal[run].phases
      BY <2>2 DEF IInv, ChainOK
    <2>4. f \in File /\ FileOK(f)
      BY <1>2, <2>2, <2>3, FileTypes, RewrittenFiles DEF Phase
    <2>5. Exists(f) /\ (Done(f) <=> Done(journal[run])) /\ f.result.known
      BY <1>2, <2>2 DEF WithResult, WithPhase, Exists, Done, File
    <2>6. journal' = [journal EXCEPT ![run] = f]
      BY <2>1
    <2> HIDE DEF f
    <2> QED
      BY <1>1, <1>3, <2>2, <2>4, <2>5, <2>6, AnswerSteps DEF Reflect
  <1>4. ASSUME SeatA PROVE IInv'
    <2>1. PICK res \in Answers : journal' = [journal EXCEPT ![run] = WithSeatA(@, res)]
      BY <1>4 DEF SeatA
    <2> DEFINE f == WithSeatA(journal[run], res)
    <2>2. pc \in Asking
      BY <1>4 DEF SeatA, Asking
    <2>3. f \in File /\ FileOK(f)
      BY <1>2, <2>2, FileTypes, RewrittenFiles
    <2>4. Exists(f) /\ (Done(f) <=> Done(journal[run])) /\ ~f.result.known
      BY <1>2, <2>2 DEF WithSeatA, WithPhase, Exists, Done, File
    <2>5. journal' = [journal EXCEPT ![run] = f]
      BY <2>1
    <2> HIDE DEF f
    <2> QED
      BY <1>1, <1>4, <2>2, <2>3, <2>4, <2>5, AnswerSteps DEF SeatA
  <1>5. ASSUME SeatB PROVE IInv'
    <2>1. PICK res \in Answers : journal' = [journal EXCEPT ![run] = WithSeatB(@, res)]
      BY <1>5 DEF SeatB
    <2> DEFINE f == WithSeatB(journal[run], res)
    <2>2. pc \in Asking
      BY <1>5 DEF SeatB, Asking
    <2>3. f \in File /\ FileOK(f)
      BY <1>2, <2>2, FileTypes, RewrittenFiles
    <2>4. /\ Exists(f) /\ (Done(f) <=> Done(journal[run])) /\ ~f.result.known
          /\ "reflect_b_done" \in f.phases
      BY <1>2, <2>2 DEF WithSeatB, WithPhase, Exists, Done, File
    <2>5. journal' = [journal EXCEPT ![run] = f]
      BY <2>1
    <2> HIDE DEF f
    <2> QED
      BY <1>1, <1>5, <2>2, <2>3, <2>4, <2>5, AnswerSteps DEF SeatB
  <1>6. ASSUME Combine PROVE IInv'
    <2> DEFINE g == journal[run]
    <2>1. PICK drop \in SUBSET (g.seatA.triples \cap g.seatB.triples) :
             journal' = [journal EXCEPT
                 ![run] = WithResult(@, "combine_done", Combined(g.seatA, g.seatB, drop))]
      BY <1>6 DEF Combine
    <2> DEFINE res == Combined(g.seatA, g.seatB, drop)
               f == WithResult(g, "combine_done", res)
    <2>2. pc \in Asking /\ pc = "combine"
      BY <1>6 DEF Combine, Asking
    <2>3. g.seatA \in Result /\ g.seatB \in Result
      BY <1>2, <2>2 DEF File
    <2>4. res \in Result /\ res.known /\ res.consumed \subseteq g.chunks
      BY <1>2, <2>2, <2>3, ResultTypes DEF Combined, FileOK
    <2>5. "reflect_b_done" \in g.phases
      BY <2>2 DEF IInv, ChainOK
    <2>6. f \in File /\ FileOK(f)
      BY <1>2, <2>2, <2>4, <2>5, FileTypes, RewrittenFiles DEF Phase
    <2>7. Exists(f) /\ (Done(f) <=> Done(journal[run])) /\ f.result.known
      BY <1>2, <2>2, <2>4 DEF WithResult, WithPhase, Exists, Done, File
    <2>8. journal' = [journal EXCEPT ![run] = f]
      BY <2>1
    <2> HIDE DEF f
    <2> QED
      BY <1>1, <1>6, <2>2, <2>6, <2>7, <2>8, AnswerSteps DEF Combine
  <1> QED
    BY <1>3, <1>4, <1>5, <1>6

(* A new run takes its snapshot.                                             *)
LEMMA CaptureStep ==
  ASSUME IInv, CaptureSnapshot
  PROVE  IInv'
  <1> USE DEF guards, history
  <1>1. /\ pc = "capture" /\ trig.range \in Window /\ stored \in SUBSET Chunk
        /\ journal \in [Run -> File] /\ run = NoRun
    BY DEF CaptureSnapshot, IInv, TypeOK, ChainOK, OuterOK
  <1>2. PICK r \in Run : /\ ~Exists(journal[r])
                         /\ journal' = [journal EXCEPT ![r] = Captured(trig.range, stored)]
                         /\ run' = r
    BY DEF CaptureSnapshot
  <1> DEFINE f == Captured(trig.range, stored)
  <1>3. f \in File /\ FileOK(f) /\ Exists(f) /\ ~Done(f)
    BY <1>1, NewFiles
  <1> HIDE DEF f
  <1>4. /\ journal' \in [Run -> File] /\ journal'[r] = f
        /\ \A q \in Run : q # r => journal'[q] = journal[q]
    BY <1>1, <1>2, <1>3 DEF f
  <1>5. ~journal[r].result.known
    BY <1>1, <1>2 DEF IInv, FilesOK, FileOK, Exists
  <1>6. r \notin committed /\ r \notin resumes /\ r # active
    BY <1>2, <1>5, RunFacts DEF IInv, CommittedOK, ChainOK
  <1>7. /\ pc' = "register" /\ run' = r
        /\ UNCHANGED <<stored, consolidated, graph, registered, finished, trig, active, activeDone,
                   left, outer, releasing, resumes, guards, history, clean>>
    BY <1>2 DEF CaptureSnapshot
  <1>8. TypeOK'
    BY <1>4, <1>7 DEF CaptureSnapshot, IInv, TypeOK, PC
  <1>9. FilesOK'
    BY <1>3, <1>4 DEF IInv, FilesOK
  <1>10. \A q \in committed : q \in Run /\ journal'[q] = journal[q]
    BY <1>4, <1>6 DEF IInv, TypeOK
  <1>11. CommittedOK' /\ SafeClear'
    BY <1>7, <1>10 DEF IInv, CommittedOK, SafeClear
  <1>12. DoneIsWritten'
    BY <1>3, <1>4, <1>7 DEF IInv, DoneIsWritten
  <1>13. resumes \subseteq Run /\ active \in Run \cup {NoRun}
    BY DEF IInv, TypeOK
  <1>14. ChainOK'
    BY <1>3, <1>4, <1>6, <1>7, <1>13 DEF IInv, ChainOK, Attempt, Asking, Settled
  <1>15. OuterOK'
    BY <1>6, <1>7 DEF IInv, OuterOK
  <1>16. OwnedOK'
    BY <1>1, <1>3, <1>4, <1>6, <1>7 DEF IInv, OwnedOK, Owning, Attempt
  <1> QED
    BY <1>8, <1>9, <1>11, <1>12, <1>14, <1>15, <1>16 DEF IInv

(* The safe-clear marks the active file done.                                *)
LEMMA MarkStep ==
  ASSUME IInv, MarkMergeDone
  PROVE  IInv'
  <1> USE DEF guards, history
  <1>1. /\ pc = "purge" /\ pc' = "mark" /\ active \in Run /\ journal \in [Run -> File]
        /\ Exists(journal[active]) /\ FileOK(journal[active])
    BY DEF MarkMergeDone, PurgeGuard, IInv, TypeOK, ChainOK, FilesOK
  <1> DEFINE f == WithPhase(journal[active], "merge_done")
  <1>2. f \in File /\ FileOK(f)
    BY <1>1, FileTypes, RewrittenFiles DEF Phase
  <1>3. Exists(f) /\ Done(f) /\ f.result = journal[active].result
    BY <1>1 DEF WithPhase, Exists, Done, File
  <1>4. journal' = [journal EXCEPT ![active] = f]
    BY DEF MarkMergeDone
  <1> HIDE DEF f
  <1>5. /\ journal' \in [Run -> File] /\ journal'[active] = f
        /\ \A q \in Run : q # active => journal'[q] = journal[q]
    BY <1>1, <1>2, <1>4
  <1>6. \A q \in Run : /\ journal'[q].result = journal[q].result
                       /\ Exists(journal[q]) => Exists(journal'[q])
    BY <1>3, <1>5
  <1>7. /\ committed \subseteq Run /\ resumes \subseteq Run /\ run \in Run
    BY <1>1 DEF IInv, TypeOK, ChainOK
  <1>8. TypeOK'
    BY <1>1, <1>5 DEF MarkMergeDone, IInv, TypeOK, PC
  <1>9. FilesOK'
    BY <1>2, <1>5 DEF IInv, FilesOK
  <1>10. CommittedOK' /\ SafeClear'
    BY <1>6, <1>7 DEF MarkMergeDone, IInv, CommittedOK, SafeClear
  <1>11. DoneIsWritten'
    <2>1. ASSUME ~multi, NEW r \in Run, Done(journal'[r])
          PROVE  r \in committed /\ journal'[r].result.triples \subseteq graph
      <3>1. active = run /\ run \in committed
        BY <1>1, <2>1 DEF IInv, OwnedOK, Owning, ChainOK, Settled
      <3>2. CASE r = active
        BY <1>6, <3>1, <3>2 DEF IInv, CommittedOK
      <3>3. CASE r # active
        BY <1>5, <2>1, <3>3 DEF IInv, DoneIsWritten
      <3> QED
        BY <3>2, <3>3
    <2> QED
      BY <2>1 DEF MarkMergeDone, DoneIsWritten
  <1>12. ChainOK'
    BY <1>1, <1>3, <1>5, <1>6, <1>7 DEF MarkMergeDone, IInv, ChainOK, Attempt, Asking, Settled
  <1>13. OuterOK'
    BY <1>1 DEF MarkMergeDone, IInv, OuterOK
  <1>14. OwnedOK'
    BY <1>1 DEF MarkMergeDone, IInv, OwnedOK, Owning, Attempt
  <1> QED
    BY <1>8, <1>9, <1>10, <1>11, <1>12, <1>13, <1>14 DEF IInv

(* The dream ends, or the oldest queued event launches the next inside it.   *)
LEMMA FinishStep ==
  ASSUME IInv, FinishDream
  PROVE  IInv'
  <1> USE DEF stores, guards, history
  <1>1. /\ pc = "finish" /\ run \in Run /\ run \in committed /\ outer \in Seq(Run)
        /\ trig \in Trigger /\ Finished(trig) \in Trigger
    BY TriggerMoves DEF FinishDream, IInv, TypeOK, ChainOK, Settled
  <1>2. CASE trig.queued = <<>>
    <2>1. trig' \in Trigger /\ pc' = "report" /\ UNCHANGED <<run, outer>>
      BY <1>1, <1>2 DEF FinishDream
    <2>2. TypeOK'
      BY <2>1 DEF FinishDream, IInv, TypeOK, PC
    <2>3. FilesOK' /\ CommittedOK' /\ SafeClear' /\ DoneIsWritten'
      BY DEF FinishDream, IInv, FilesOK, CommittedOK, SafeClear, DoneIsWritten
    <2>4. ChainOK' /\ OuterOK' /\ OwnedOK'
      BY <1>1, <2>1 DEF FinishDream, IInv, ChainOK, OuterOK, OwnedOK, Attempt, Asking, Settled, Owning
    <2> QED
      BY <2>2, <2>3, <2>4 DEF IInv
  <1>3. CASE trig.queued # <<>>
    <2> DEFINE t == [Finished(trig) EXCEPT !.queued = Tail(@)]
    <2>1. Finished(trig).queued = trig.queued
      BY <1>1 DEF Finished, Trigger
    <2>2. t \in Trigger /\ Head(trig.queued) \in Window
      BY <1>1, <1>3, <2>1, TriggerTakes
    <2>3. /\ trig' = Launched(t, Head(trig.queued)) /\ pc' = "capture"
          /\ outer' = Append(outer, run) /\ run' = NoRun
      BY <1>3 DEF FinishDream, Launch
    <2> HIDE DEF t
    <2>4. trig' \in Trigger /\ trig'.range \in Window
      <3>1. Launched(t, Head(trig.queued)).range = Head(trig.queued)
        BY <2>2 DEF Launched, Trigger
      <3> QED
        BY <2>2, <2>3, <3>1, TriggerMoves
    <2>5. /\ outer' \in Seq(Run) /\ Len(outer) \in Nat /\ Len(outer') = Len(outer) + 1
          /\ \A i \in 1..Len(outer) : outer'[i] = outer[i]
          /\ outer'[Len(outer) + 1] = run
      BY <1>1, <2>3, AppendProperties, LenProperties
    <2>6. \A i \in 1..Len(outer') : i \in 1..Len(outer) \/ i = Len(outer) + 1
      BY <2>5
    <2>7. TypeOK'
      BY <2>3, <2>4, <2>5 DEF FinishDream, IInv, TypeOK, PC
    <2>8. FilesOK' /\ CommittedOK' /\ SafeClear' /\ DoneIsWritten'
      BY DEF FinishDream, IInv, FilesOK, CommittedOK, SafeClear, DoneIsWritten
    <2>9. ChainOK' /\ OwnedOK'
      BY <1>1, <2>3, <2>4 DEF FinishDream, IInv, ChainOK, OwnedOK, Attempt, Asking, Settled, Owning
    <2>10. \A i \in 1..Len(outer') : outer'[i] \in committed' /\ outer'[i] # run'
      <3>1. committed' = committed /\ committed \subseteq Run /\ run' \notin Run
        BY <2>3, RunFacts DEF FinishDream, IInv, TypeOK
      <3>2. \A i \in 1..Len(outer') : outer'[i] \in committed
        BY <1>1, <2>5, <2>6 DEF IInv, OuterOK
      <3> QED
        BY <3>1, <3>2
    <2>11. \A i, j \in 1..Len(outer') : outer'[i] = outer'[j] => i = j
      BY <2>5, <2>6 DEF IInv, OuterOK
    <2>12. OuterOK'
      BY <2>3, <2>10, <2>11 DEF OuterOK
    <2> QED
      BY <2>7, <2>8, <2>9, <2>12 DEF IInv
  <1> QED
    BY <1>2, <1>3

(* A boot adopts the unfinished runs and puts the first in flight.           *)
LEMMA RestartStep ==
  ASSUME IInv, NEW auto \in AutoModes, Restart(auto)
  PROVE  IInv'
  <1> USE DEF stores
  <1>1. /\ auto \in BOOLEAN /\ NewTrigger(auto) \in Trigger /\ Unmerged \subseteq Run
        /\ journal \in [Run -> File]
    BY ModesAssumption, NewTriggerType DEF IInv, TypeOK, Unmerged
  <1>2. ASSUME Unmerged # {}
        PROVE  /\ Min(Unmerged) \in Unmerged /\ Max(Unmerged) \in Unmerged
               /\ Resumed(NewTrigger(auto), Min(Unmerged)) \in Trigger
               /\ Resumed(NewTrigger(auto), Min(Unmerged)).inFlight
    <2>1. Min(Unmerged) \in Unmerged /\ Max(Unmerged) \in Unmerged
      BY <1>1, <1>2, MinOfRuns, MaxOfRuns
    <2>2. journal[Min(Unmerged)].range \in Window
      BY <1>1, <2>1 DEF Unmerged, IInv, FilesOK, FileOK
    <2>3. Resumed(NewTrigger(auto), Min(Unmerged)) \in Trigger
      BY <1>1, <2>2, TriggerMoves DEF Resumed
    <2>4. ~Busy(NewTrigger(auto))
      BY DEF Busy, NewTrigger
    <2>5. Resumed(NewTrigger(auto), Min(Unmerged)).inFlight
      BY <1>1, <2>4 DEF Resumed, Resume, ResumeMerge, Trigger
    <2> QED
      BY <2>1, <2>3, <2>5
  <1>3. /\ trig' \in Trigger /\ active' \in Run \cup {NoRun}
        /\ active' # NoRun => active' \in Unmerged
        /\ Unmerged # {} => trig'.inFlight /\ active' \in Unmerged
    BY <1>1, <1>2, RunFacts DEF Restart
  <1>4. /\ pc' = "idle" /\ run' = NoRun /\ outer' = <<>> /\ resumes' = Unmerged /\ left' = {}
        /\ UNCHANGED <<stores, committed, covered>> /\ multi' \in BOOLEAN
        /\ ~multi' => ~multi /\ \A r, q \in Unmerged : r = q
    BY DEF Restart, IInv, TypeOK
  <1>5. /\ fresh' \in BOOLEAN /\ strikes' \in [Window -> Nat] /\ parked' = {} /\ clean' \in BOOLEAN
        /\ activeDone' \in BOOLEAN /\ releasing' \in BOOLEAN /\ recovered' = Unmerged
        /\ restarts' \in Nat
    <2>1. restarts' = restarts + 1 /\ restarts \in Nat
      BY DEF Restart, IInv, TypeOK
    <2>2. strikes' = [w \in Window |-> 0] /\ [w \in Window |-> 0] \in [Window -> Nat]
      BY DEF Restart
    <2>3. /\ fresh' = TRUE /\ parked' = {} /\ clean' = TRUE /\ activeDone' = FALSE
          /\ releasing' = FALSE /\ recovered' = Unmerged
      BY DEF Restart
    <2>4. strikes' \in [Window -> Nat]
      BY <2>2, Zenon
    <2>5. restarts' \in Nat
      BY <2>1
    <2> QED
      BY <2>3, <2>4, <2>5
  <1>6. TypeOK'
    BY <1>1, <1>3, <1>4, <1>5, EmptySeq DEF IInv, TypeOK, PC
  <1>7. FilesOK' /\ CommittedOK' /\ SafeClear' /\ DoneIsWritten'
    BY <1>4 DEF IInv, FilesOK, CommittedOK, SafeClear, DoneIsWritten
  <1>8. ChainOK'
    BY <1>3, <1>4 DEF ChainOK, Unmerged, Attempt, Asking, Settled
  <1>9. OuterOK'
    BY <1>4, EmptySeq DEF OuterOK
  <1>10. OwnedOK'
    BY <1>3, <1>4 DEF OwnedOK, Unmerged, Owning, Attempt
  <1> QED
    BY <1>6, <1>7, <1>8, <1>9, <1>10 DEF IInv

-----------------------------------------------------------------------------
(* The inductive invariant, and what follows from it.                        *)

LEMMA InitIInv == Init => IInv
  <1> SUFFICES ASSUME Init PROVE IInv
    OBVIOUS
  <1>1. trig \in Trigger
    BY ModesAssumption, NewTriggerType DEF Init
  <1>2. TypeOK
    BY <1>1, NewFiles, EmptySeq DEF Init, TypeOK, PC
  <1>3. FilesOK /\ CommittedOK /\ SafeClear /\ DoneIsWritten
    BY NewFiles DEF Init, FilesOK, CommittedOK, SafeClear, DoneIsWritten, NoFile, Done
  <1>4. ChainOK /\ OuterOK /\ OwnedOK
    BY EmptySeq DEF Init, ChainOK, OuterOK, OwnedOK, Attempt, Asking, Settled, Owning
  <1> QED
    BY <1>2, <1>3, <1>4 DEF IInv

LEMMA StutterIInv == IInv /\ UNCHANGED vars => IInv'
  BY DEF vars, stores, chain, guards, history, IInv, TypeOK, FilesOK, ChainOK, CommittedOK, OuterOK,
         OwnedOK, SafeClear, DoneIsWritten

LEMMA NextIInv == IInv /\ [Next]_vars => IInv'
  <1> SUFFICES ASSUME IInv, [Next]_vars PROVE IInv'
    OBVIOUS
  <1>1. CASE \E c \in Chunk : Store(c)
    BY <1>1, OutsideSteps
  <1>2. CASE Activity
    BY <1>2, OutsideSteps
  <1>3. CASE JobStep
    BY <1>3, JobSteps
  <1>4. CASE ChainStep
    <2>1. CASE \/ CaptureFails \/ RegisterFails \/ SkipParked \/ ReflectFails \/ ChainRaises
               \/ MergeDefers \/ MergeFails \/ Report
      BY <2>1, FailedSteps
    <2>2. CASE \/ Register \/ MergeBegins \/ MergeCommits \/ PurgeSkips \/ ClearRows \/ PurgeFails
               \/ \E vote \in VoteModes : Dispatch(vote)
               \/ \E c \in Chunk : WriteTriple(c)
      BY <2>2, QuietSteps
    <2>3. CASE Reflect \/ SeatA \/ SeatB \/ Combine
      BY <2>3, AskingSteps
    <2>4. CASE CaptureSnapshot
      BY <2>4, CaptureStep
    <2>5. CASE MarkMergeDone
      BY <2>5, MarkStep
    <2>6. CASE FinishDream
      BY <2>6, FinishStep
    <2> QED
      BY <1>4, <2>1, <2>2, <2>3, <2>4, <2>5, <2>6 DEF ChainStep
  <1>5. CASE \E auto \in AutoModes : Restart(auto)
    BY <1>5, RestartStep
  <1>6. CASE UNCHANGED vars
    BY <1>6, StutterIInv
  <1> QED
    BY <1>1, <1>2, <1>3, <1>4, <1>5, <1>6 DEF Next

(* The strengthening that carries every safety theorem below: what the       *)
(* journal, the trigger, the snapshotter and the thread say of the dream in  *)
(* flight agree in every reachable state.                                    *)
THEOREM Inductive == Spec => []IInv
  BY InitIInv, NextIInv, PTL DEF Spec

(* Every handler of the dream engine leaves every record well formed.        *)
THEOREM TypeCorrect == Spec => []TypeOK
  <1>1. IInv => TypeOK
    BY DEF IInv
  <1> QED
    BY <1>1, Inductive, PTL

(* The safe-clear (purge_snapshot) marks only rows whose knowledge a run     *)
(* wrote back, as long as no boot met two unfinished runs.                   *)
THEOREM SafeClearHolds == Spec => []SafeClear
  <1>1. IInv => SafeClear
    BY DEF IInv
  <1> QED
    BY <1>1, Inductive, PTL

(* merge_done in a journal file means the write-back of that run is complete.*)
THEOREM DoneIsWrittenHolds == Spec => []DoneIsWritten
  <1>1. IInv => DoneIsWritten
    BY DEF IInv
  <1> QED
    BY <1>1, Inductive, PTL

(* A committed merge is never executed again (NFR-2.3).                      *)
THEOREM NoReplayHolds == Spec => []NoReplay
  <1>1. IInv => NoReplay
    BY DEF IInv, OwnedOK, NoReplay, Attempt
  <1> QED
    BY <1>1, Inductive, PTL

-----------------------------------------------------------------------------
(* Which steps write the journal, and how.                                   *)

(* The rewritten file of one run, and what the rewrite was.                  *)
Rewrites(r, f, g) ==
    \/ pc = "capture" /\ ~Exists(f) /\ Exists(g) /\ ~Done(g) /\ g.result = NoResult
    \/ pc \in Asking /\ r = run /\ Exists(f) /\ Exists(g) /\ (Done(g) <=> Done(f))
         /\ ~f.result.known /\ (g.result = f.result \/ g.result.known)
    \/ pc = "purge" /\ r = active /\ Exists(f) /\ Exists(g) /\ Done(g) /\ g.result = f.result

(* Only these steps touch the journal, one run's file at a time.             *)
LEMMA JournalSteps ==
  ASSUME IInv, [Next]_vars
  PROVE  \/ journal' = journal
         \/ \E r \in Run, g \in File :
               /\ journal' = [journal EXCEPT ![r] = g]
               /\ Grows(journal[r], g) /\ Rewrites(r, journal[r], g)
               /\ UNCHANGED <<committed, consolidated, multi>>
  <1> USE DEF stores, chain, guards, history
  <1> DEFINE Goal == \/ journal' = journal
                     \/ \E r \in Run, g \in File :
                           /\ journal' = [journal EXCEPT ![r] = g]
                           /\ Grows(journal[r], g) /\ Rewrites(r, journal[r], g)
                           /\ UNCHANGED <<committed, consolidated, multi>>
  <1>1. journal \in [Run -> File]
    BY DEF IInv, TypeOK
  <1>2. CASE CaptureSnapshot
    <2>1. PICK r \in Run : ~Exists(journal[r])
                           /\ journal' = [journal EXCEPT ![r] = Captured(trig.range, stored)]
      BY <1>2 DEF CaptureSnapshot
    <2> DEFINE g == Captured(trig.range, stored)
    <2>2. g \in File /\ Exists(g) /\ ~Done(g) /\ g.result = NoResult /\ pc = "capture"
      BY <1>2, NewFiles DEF CaptureSnapshot, IInv, TypeOK, ChainOK, Captured
    <2>3. UNCHANGED <<committed, consolidated, multi>>
      BY <1>2 DEF CaptureSnapshot
    <2> HIDE DEF g
    <2> QED
      BY <2>1, <2>2, <2>3 DEF Grows, Rewrites, g
  <1>3. CASE Reflect \/ SeatA \/ SeatB \/ Combine
    <2>1. /\ pc \in Asking /\ UNCHANGED <<committed, consolidated, multi>>
      BY <1>3 DEF Reflect, SeatA, SeatB, Combine, Asking
    <2>2. /\ run \in Run /\ journal[run] \in File /\ ~journal[run].result.known
          /\ Exists(journal[run]) /\ journal[run].chunks \in SUBSET Chunk
          /\ journal[run].seatA \in Result /\ journal[run].seatB \in Result
      BY <1>1, <2>1 DEF IInv, ChainOK, Asking, Attempt, File
    <2>3. \A res \in Answers : res \in Result /\ res.known
      BY <2>2, ModesAssumption, ResultTypes DEF Answers
    <2>4. \A drop : Combined(journal[run].seatA, journal[run].seatB, drop) \in Result
                    /\ Combined(journal[run].seatA, journal[run].seatB, drop).known
      BY <2>2, ResultTypes
    <2>5. ASSUME NEW res \in Result, res.known, NEW p \in {"reflect_done", "combine_done"},
                 journal' = [journal EXCEPT ![run] = WithResult(@, p, res)]
          PROVE  Goal
      <3> DEFINE g == WithResult(journal[run], p, res)
      <3>1. g \in File
        BY <2>2, FileTypes DEF Phase
      <3>2. /\ g.phases = journal[run].phases \cup {p} /\ g.result = res
            /\ g.range = journal[run].range /\ g.chunks = journal[run].chunks
        BY <2>2 DEF WithResult, WithPhase, File
      <3>3. journal' = [journal EXCEPT ![run] = g]
        BY <2>5
      <3> HIDE DEF g
      <3>4. Exists(g) /\ (Done(g) <=> Done(journal[run])) /\ g.result.known
        BY <2>5, <3>2 DEF Exists, Done
      <3>5. Grows(journal[run], g)
        BY <2>2, <3>2 DEF Grows
      <3> QED
        BY <2>1, <2>2, <3>1, <3>3, <3>4, <3>5 DEF Rewrites
    <2>6. ASSUME NEW res \in Result,
                 \/ journal' = [journal EXCEPT ![run] = WithSeatA(@, res)]
                 \/ journal' = [journal EXCEPT ![run] = WithSeatB(@, res)]
          PROVE  Goal
      <3>1. PICK g : /\ g \in {WithSeatA(journal[run], res), WithSeatB(journal[run], res)}
                     /\ journal' = [journal EXCEPT ![run] = g]
        BY <2>6
      <3>2. g \in File
        BY <2>2, <3>1, FileTypes
      <3>3. PICK p \in {"reflect_a_done", "reflect_b_done"} :
               /\ g.phases = journal[run].phases \cup {p} /\ g.result = journal[run].result
               /\ g.range = journal[run].range /\ g.chunks = journal[run].chunks
        BY <2>2, <3>1 DEF WithSeatA, WithSeatB, WithPhase, File
      <3>4. Exists(g) /\ (Done(g) <=> Done(journal[run]))
        BY <3>3 DEF Exists, Done
      <3>5. Grows(journal[run], g)
        BY <3>3 DEF Grows
      <3> QED
        BY <2>1, <2>2, <3>1, <3>2, <3>3, <3>4, <3>5 DEF Rewrites
    <2>7. CASE Reflect
      BY <2>3, <2>5, <2>7 DEF Reflect
    <2>8. CASE SeatA
      BY <2>3, <2>6, <2>8 DEF SeatA
    <2>9. CASE SeatB
      BY <2>3, <2>6, <2>9 DEF SeatB
    <2>10. CASE Combine
      BY <2>4, <2>5, <2>10 DEF Combine
    <2> QED
      BY <1>3, <2>7, <2>8, <2>9, <2>10
  <1>4. CASE MarkMergeDone
    <2> DEFINE g == WithPhase(journal[active], "merge_done")
    <2>1. /\ pc = "purge" /\ active \in Run /\ Exists(journal[active])
          /\ journal[active] \in File /\ UNCHANGED <<committed, consolidated, multi>>
      BY <1>1, <1>4 DEF MarkMergeDone, PurgeGuard, IInv, TypeOK, ChainOK
    <2>2. g \in File
      BY <2>1, FileTypes DEF Phase
    <2>3. Grows(journal[active], g) /\ Exists(g) /\ Done(g) /\ g.result = journal[active].result
      BY <2>1 DEF Grows, WithPhase, Exists, Done, File
    <2>4. journal' = [journal EXCEPT ![active] = g]
      BY <1>4 DEF MarkMergeDone
    <2> HIDE DEF g
    <2> QED
      BY <2>1, <2>2, <2>3, <2>4 DEF Rewrites
  <1>5. CASE \/ CaptureFails \/ RegisterFails \/ SkipParked \/ ReflectFails \/ ChainRaises
             \/ MergeDefers \/ MergeFails \/ Report \/ Register \/ MergeBegins \/ MergeCommits
             \/ PurgeSkips \/ ClearRows \/ PurgeFails \/ FinishDream
             \/ \E vote \in VoteModes : Dispatch(vote)
    BY <1>5 DEF CaptureFails, RegisterFails, SkipParked, ReflectFails, ChainRaises, MergeDefers,
                MergeFails, Report, Register, MergeBegins, MergeCommits, PurgeSkips, ClearRows,
                PurgeFails, FinishDream, Dispatch
  <1>6. CASE \/ JobStep \/ Activity \/ UNCHANGED vars
             \/ \E auto \in AutoModes : Restart(auto)
    BY <1>6 DEF JobStep, HandleEvent, HoldEvent, BeginRelease, ReleaseNext, EndRelease, DreamOnce,
                StartResume, Activity, Restart, vars
  <1>7. CASE \/ \E c \in Chunk : Store(c)
             \/ \E c \in Chunk : WriteTriple(c)
    BY <1>7 DEF Store, WriteTriple
  <1> QED
    BY <1>2, <1>3, <1>4, <1>5, <1>6, <1>7 DEF Next, ChainStep

LEMMA NextGrows == IInv /\ [Next]_vars => FilesGrow
  <1> SUFFICES ASSUME IInv, [Next]_vars PROVE FilesGrow
    OBVIOUS
  <1>1. journal \in [Run -> File]
    BY DEF IInv, TypeOK
  <1>2. CASE journal' = journal
    BY <1>2 DEF FilesGrow, Grows
  <1>3. CASE \E r \in Run, g \in File :
                journal' = [journal EXCEPT ![r] = g] /\ Grows(journal[r], g)
    BY <1>1, <1>3 DEF FilesGrow, Grows
  <1> QED
    BY <1>2, <1>3, JournalSteps

(* A run's file is only ever added to (JournalGrows): scope, phases and a    *)
(* journaled answer survive every rewrite, so a crash resumes where the run  *)
(* was.                                                                      *)
THEOREM JournalOnlyGrows == Spec => JournalGrows
  BY NextGrows, Inductive, PTL DEF Spec, JournalGrows

-----------------------------------------------------------------------------
(* The detailed engine implements Consolidation.                             *)

(* Steps that change neither a file nor what the promise speaks of.          *)
LEMMA OtherSteps ==
  ASSUME IInv, [Next]_vars, journal' = journal
  PROVE  \/ UNCHANGED <<committed, consolidated, multi>>
         \/ MergeCommits
         \/ ClearRows
         \/ \E auto \in AutoModes : Restart(auto)
  <1> USE DEF stores, chain, guards, history
  <1>1. CASE \/ CaptureFails \/ RegisterFails \/ SkipParked \/ ReflectFails \/ ChainRaises
             \/ MergeDefers \/ MergeFails \/ Report \/ Register \/ MergeBegins
             \/ PurgeSkips \/ MarkMergeDone \/ PurgeFails \/ FinishDream \/ CaptureSnapshot
             \/ Reflect \/ SeatA \/ SeatB \/ Combine
             \/ \E vote \in VoteModes : Dispatch(vote)
    BY <1>1 DEF CaptureFails, RegisterFails, SkipParked, ReflectFails, ChainRaises, MergeDefers,
                MergeFails, Report, Register, MergeBegins, PurgeSkips, MarkMergeDone, PurgeFails,
                FinishDream, CaptureSnapshot, Reflect, SeatA, SeatB, Combine, Dispatch
  <1>2. CASE JobStep \/ Activity \/ UNCHANGED vars
    BY <1>2 DEF JobStep, HandleEvent, HoldEvent, BeginRelease, ReleaseNext, EndRelease, DreamOnce,
                StartResume, Activity, vars
  <1>3. CASE \/ \E c \in Chunk : Store(c)
             \/ \E c \in Chunk : WriteTriple(c)
    BY <1>3 DEF Store, WriteTriple
  <1> QED
    BY <1>1, <1>2, <1>3 DEF Next, ChainStep

Taken == {r \in Run : Exists(journal[r])}
Answered == {r \in Run : journal[r].result.known}
Given == [r \in Run |-> journal[r].result.consumed]
Closed == {r \in Run : Done(journal[r])}

LEMMA PromiseStep ==
  ASSUME IInv, [Next]_vars
  PROVE  [Promise!Next]_(Promise!promise)
  <1> USE DEF Taken, Answered, Given, Closed, stores, chain, guards, history
  <1> DEFINE Same == UNCHANGED <<Taken, Answered, Given, committed, Closed, consolidated, multi>>
  <1>1. Same => [Promise!Next]_(Promise!promise)
    BY DEF Promise!promise
  <1>2. journal \in [Run -> File] /\ committed \subseteq Run /\ active \in Run \cup {NoRun}
    BY DEF IInv, TypeOK
  <1>3. CASE journal' = journal
    <2>1. CASE UNCHANGED <<committed, consolidated, multi>>
      BY <1>1, <1>3, <2>1
    <2>2. CASE MergeCommits
      <3>1. run \in Answered /\ committed' = committed \cup {run}
        BY <2>2 DEF MergeCommits, IInv, ChainOK
      <3>2. UNCHANGED <<Taken, Answered, Given, Closed, consolidated, multi>>
        BY <1>3, <2>2 DEF MergeCommits
      <3>3. Promise!Write(run)
        BY <3>1, <3>2 DEF Promise!Write
      <3> QED
        BY <3>1, <3>3 DEF Promise!Next
    <2>3. CASE ClearRows
      <3> DEFINE rows == ClearIds(journal[active])
      <3>1. active \in Run /\ Done(journal[active]) /\ consolidated' = consolidated \cup rows
        BY <2>3 DEF ClearRows, IInv, ChainOK
      <3>2. rows \in SUBSET Chunk
        BY <1>2, <3>1, FileTypes
      <3>3. rows = Given[active] \/ multi
        <4>1. SUFFICES ASSUME ~multi PROVE rows = journal[active].result.consumed
          BY <3>1
        <4>2. active = run /\ run \in committed
          BY <2>3, <4>1 DEF ClearRows, IInv, OwnedOK, Owning, ChainOK, Settled
        <4>3. /\ journal[active].result.known
              /\ journal[active].result.consumed \subseteq journal[active].chunks
          BY <3>1, <4>2 DEF IInv, CommittedOK, FilesOK, FileOK
        <4> QED
          BY <4>3 DEF ClearIds
      <3>4. UNCHANGED <<Taken, Answered, Given, committed, Closed, multi>>
        BY <1>3, <2>3 DEF ClearRows
      <3> HIDE DEF rows
      <3>5. Promise!Clear(active)
        BY <3>1, <3>2, <3>3, <3>4 DEF Promise!Clear
      <3> QED
        BY <3>1, <3>5 DEF Promise!Next
    <2>4. CASE \E auto \in AutoModes : Restart(auto)
      <3>1. UNCHANGED <<Taken, Answered, Given, committed, Closed, consolidated>>
        BY <1>3, <2>4 DEF Restart
      <3>2. multi' = (multi \/ \E r, q \in Unmerged : r # q) /\ multi \in BOOLEAN
        BY <2>4 DEF Restart, IInv, TypeOK
      <3>3. Unmerged = Taken \ Closed
        BY DEF Unmerged
      <3>4. CASE \E r, q \in Unmerged : r # q
        <4>1. multi' = TRUE
          BY <3>2, <3>4
        <4>2. Promise!Confuse
          BY <3>1, <3>3, <3>4, <4>1 DEF Promise!Confuse
        <4> QED
          BY <4>2 DEF Promise!Next
      <3>5. CASE ~\E r, q \in Unmerged : r # q
        <4>1. multi' = multi
          BY <3>2, <3>5
        <4> QED
          BY <1>1, <3>1, <4>1
      <3> QED
        BY <3>4, <3>5
    <2> QED
      BY <1>3, <2>1, <2>2, <2>3, <2>4, OtherSteps
  <1>4. ASSUME NEW r \in Run, NEW g \in File, journal' = [journal EXCEPT ![r] = g],
               Rewrites(r, journal[r], g), UNCHANGED <<committed, consolidated, multi>>
        PROVE  [Promise!Next]_(Promise!promise)
    <2>1. /\ journal'[r] = g /\ \A q \in Run : q # r => journal'[q] = journal[q]
      BY <1>2, <1>4
    <2>2. CASE pc = "capture" /\ ~Exists(journal[r]) /\ Exists(g) /\ ~Done(g) /\ g.result = NoResult
      <3>1. journal[r].result = NoResult /\ ~Done(journal[r]) /\ ~NoResult.known
        BY <2>2 DEF IInv, FilesOK, FileOK, Exists, Done, NoResult
      <3>2. Taken' = Taken \cup {r} /\ r \notin Taken
        BY <2>1, <2>2
      <3>3. UNCHANGED <<Answered, Given, Closed>>
        BY <2>1, <2>2, <3>1
      <3>4. Promise!Take(r)
        BY <1>4, <3>2, <3>3 DEF Promise!Take
      <3> QED
        BY <3>4 DEF Promise!Next
    <2>3. CASE /\ pc \in Asking /\ r = run /\ Exists(journal[r]) /\ Exists(g)
               /\ (Done(g) <=> Done(journal[r])) /\ ~journal[r].result.known
               /\ (g.result = journal[r].result \/ g.result.known)
      <3>1. UNCHANGED <<Taken, Closed>>
        BY <2>1, <2>3
      <3>2. CASE g.result = journal[r].result
        <4>1. UNCHANGED <<Answered, Given>>
          BY <2>1, <3>2
        <4> QED
          BY <1>1, <1>4, <3>1, <4>1
      <3>3. CASE g.result.known
        <4>1. r \in Taken \ Answered /\ Answered' = Answered \cup {r}
          BY <2>1, <2>3, <3>3
        <4>2. Given' = [Given EXCEPT ![r] = g.result.consumed]
          BY <2>1
        <4>3. g.result.consumed \in SUBSET Chunk
          BY DEF File, Result
        <4>4. Promise!Answer(r, g.result.consumed)
          BY <1>4, <3>1, <4>1, <4>2 DEF Promise!Answer
        <4> QED
          BY <4>3, <4>4 DEF Promise!Next
      <3> QED
        BY <2>3, <3>2, <3>3
    <2>4. CASE /\ pc = "purge" /\ r = active /\ Exists(journal[r]) /\ Exists(g) /\ Done(g)
               /\ g.result = journal[r].result
      <3>1. UNCHANGED <<Taken, Answered, Given>> /\ Closed' = Closed \cup {r}
        BY <2>1, <2>4
      <3>2. CASE r \in Closed
        BY <1>1, <1>4, <3>1, <3>2
      <3>3. CASE r \notin Closed
        <4>1. r \in committed \/ multi
          BY <2>4 DEF IInv, OwnedOK, Owning, ChainOK, Settled
        <4>2. r \in Taken \ Closed
          BY <2>4, <3>3
        <4>3. Promise!Close(r)
          BY <1>4, <3>1, <4>1, <4>2 DEF Promise!Close
        <4> QED
          BY <4>3 DEF Promise!Next
      <3> QED
        BY <3>2, <3>3
    <2> QED
      BY <1>4, <2>2, <2>3, <2>4 DEF Rewrites
  <1> QED
    BY <1>3, <1>4, JournalSteps

(* The dream engine implements the promise of Consolidation: a run is taken  *)
(* once, answered once, written back before it is closed, and a closed run   *)
(* marks exactly the rows it was answered from, whatever fails or crashes.   *)
THEOREM Refinement == Spec => KeepsPromise
  <1>1. Init => Promise!Init
    BY DEF Init, Promise!Init, NoFile, NoResult, Exists, Done
  <1>2. IInv /\ [Next]_vars => [Promise!Next]_(Promise!promise)
    BY PromiseStep
  <1> QED
    BY <1>1, <1>2, Inductive, PTL DEF Spec, KeepsPromise, Promise!Spec

-----------------------------------------------------------------------------
(* Who answers for the trigger's dream in flight.                            *)
(*                                                                           *)
(* InFlightOwned is not inductive: it speaks only of the moments the thread  *)
(* has nothing to do.  The proof carries, for every position of the thread,  *)
(* that a dream in flight has a run that will end it: the one in the chain,  *)
(* or a recovery job still waiting.  A run whose answer is journaled goes    *)
(* straight to its merge, so it ends the dream only if the trigger already   *)
(* stands where on_merge_committed finishes (Owes).                          *)

Open == {"DREAMING", "MERGING", "INTERRUPTED", "ACCUMULATING"}
Owes(r) == journal[r].result.known => FinishesOnMerge(trig)
Owners == resumes \cup (IF pc \in Attempt THEN {run} ELSE {})

TriggerOK ==
    /\ trig.state \notin {"IDLE", "ACCUMULATING"} => trig.inFlight
    /\ pc \in {"capture", "register"} => trig.state = "TRIGGERED"
    /\ pc = "register" => ~journal[run].result.known
    /\ pc \notin {"capture", "register", "purge", "mark", "finish"} /\ trig.inFlight =>
          /\ trig.state \in Open
          /\ \E r \in Owners : Owes(r)

(* The run a boot found unfinished is still on its way to its safe-clear,    *)
(* and trigger and snapshotter both point at it.                             *)
Recovering(r) ==
    /\ trig.inFlight /\ trig.state \in Open /\ trig.range = journal[r].range
    /\ active = r /\ ~activeDone /\ Owes(r)
    /\ \/ pc = "idle" /\ r \in resumes
       \/ pc \in (Attempt \ {"register"}) \cup {"purge"} /\ run = r

RecoveryOK == ~multi /\ clean => \A r \in recovered : Done(journal[r]) \/ Recovering(r)

(* Methods that move events between holds leave the dream in flight alone.   *)
Same(t, u) == u.state = t.state /\ u.inFlight = t.inFlight /\ u.range = t.range

LEMMA HoldsAreSame ==
  ASSUME NEW t \in Trigger
  PROVE  /\ \A auto : Same(t, SetAutoTrigger(t, auto))
         /\ \A w : Same(t, HoldManual(t, w)) /\ Same(t, HoldQueued(t, w))
         /\ \A w : Same(t, DeferProviderEvent(t, w))
         /\ Same(t, TakeDeferred(t)) /\ Same(t, TakeOnce(t))
  BY DEF Trigger, Same, SetAutoTrigger, HoldManual, HoldQueued, HoldDeferred, DeferProviderEvent,
         TakeDeferred, TakeOnce

(* A turn interrupts a dream in flight, but never puts it beyond its merge.  *)
LEMMA ActivityKeeps ==
  ASSUME NEW t \in Trigger, t.state \notin {"IDLE", "ACCUMULATING"} => t.inFlight
  PROVE  /\ NotifyActivity(t).range = t.range
         /\ t.state = "TRIGGERED" => NotifyActivity(t) = t
         /\ t.inFlight /\ t.state \in Open =>
               NotifyActivity(t).inFlight /\ NotifyActivity(t).state \in Open
         /\ FinishesOnMerge(t) => FinishesOnMerge(NotifyActivity(t))
         /\ NotifyActivity(t).inFlight = t.inFlight
         /\ NotifyActivity(t).state \notin {"IDLE", "ACCUMULATING"} => NotifyActivity(t).inFlight
  BY DEF Trigger, DreamState, NotifyActivity, Open, FinishesOnMerge

(* After a reflect pass the dream in flight is ready to be finished.         *)
LEMMA ReflectReadies ==
  ASSUME NEW t \in Trigger, t.state \notin {"IDLE", "ACCUMULATING"} => t.inFlight
  PROVE  /\ Same(t, OnReflectComplete(t)) \/ OnReflectComplete(t).state = "MERGING"
         /\ OnReflectComplete(t).inFlight = t.inFlight /\ OnReflectComplete(t).range = t.range
         /\ t.inFlight /\ t.state \in Open =>
               OnReflectComplete(t).state = "MERGING" /\ FinishesOnMerge(OnReflectComplete(t))
  BY DEF Trigger, DreamState, OnReflectComplete, Same, Open, FinishesOnMerge

(* A failed dream is in flight no longer.                                    *)
LEMMA FailureClears ==
  ASSUME NEW t \in Trigger, t.state \notin {"IDLE", "ACCUMULATING"} => t.inFlight
  PROVE  /\ ~Degraded(t).inFlight /\ Degraded(t).state = "ACCUMULATING"
         /\ ~OnDreamFailed(t).inFlight /\ OnDreamFailed(t).state \in {"IDLE", "ACCUMULATING"}
         /\ ~Finished(t).inFlight /\ Finished(t).state = "IDLE"
  BY DEF Trigger, DreamState, Degraded, OnDreamFailed, Finished

(* An event that reaches an idle thread is held behind the dream in flight,  *)
(* or launches one of its own when there is none.                            *)
LEMMA DeliveredTrigger ==
  ASSUME NEW t \in Trigger, NEW w \in Window, Deliver(t, w),
         t.state \notin {"IDLE", "ACCUMULATING"} => t.inFlight
  PROVE  \/ t.inFlight /\ Same(t, trig') /\ pc' = pc
         \/ ~t.inFlight /\ trig'.inFlight /\ trig'.state = "TRIGGERED" /\ pc' = "capture"
  <1>1. CASE Busy(t)
    BY <1>1, HoldsAreSame DEF Deliver, Busy
  <1>2. CASE ~Busy(t)
    BY <1>2 DEF Deliver, Busy, Launch, Launched, Trigger
  <1> QED
    BY <1>1, <1>2

(* Every job that hands an event to the trigger is one of these.             *)
LEMMA EventOutcomes ==
  ASSUME IInv, trig.state \notin {"IDLE", "ACCUMULATING"} => trig.inFlight,
         \/ \E w \in Window, auto \in AutoModes : HandleEvent(w, auto)
         \/ \E w \in Window : HoldEvent(w)
         \/ \E auto \in AutoModes : BeginRelease(auto)
         \/ ReleaseNext \/ EndRelease \/ DreamOnce
  PROVE  /\ pc = "idle"
         /\ UNCHANGED <<journal, active, activeDone, run, resumes, recovered, multi, clean>>
         /\ \/ Same(trig, trig') /\ pc' = pc
            \/ ~trig.inFlight /\ trig'.inFlight /\ trig'.state = "TRIGGERED" /\ pc' = "capture"
  <1> USE DEF stores, chain, guards, history, Idle
  <1>1. trig \in Trigger /\ AutoModes \subseteq BOOLEAN
    BY ModesAssumption DEF IInv, TypeOK
  <1>2. ASSUME NEW w \in Window, NEW auto \in AutoModes, HandleEvent(w, auto)
        PROVE  \/ Same(trig, trig') /\ pc' = pc
               \/ ~trig.inFlight /\ trig'.inFlight /\ trig'.state = "TRIGGERED" /\ pc' = "capture"
    <2> DEFINE t == SetAutoTrigger(trig, auto)
    <2>1. t \in Trigger /\ Same(trig, t)
      BY <1>1, TriggerMoves, HoldsAreSame
    <2> HIDE DEF t
    <2>2. CASE auto
      <3>1. Deliver(t, w)
        BY <1>2, <2>2 DEF HandleEvent, t
      <3> QED
        BY <1>1, <2>1, <3>1, DeliveredTrigger DEF Same
    <2>3. CASE ~auto
      <3>1. trig' = HoldManual(t, w) /\ pc' = pc
        BY <1>2, <2>3 DEF HandleEvent, t
      <3> QED
        BY <2>1, <3>1, HoldsAreSame DEF Same
    <2> QED
      BY <2>2, <2>3
  <1>3. ASSUME NEW w \in Window, HoldEvent(w)
        PROVE  Same(trig, trig') /\ pc' = pc
    BY <1>1, <1>3, HoldsAreSame DEF HoldEvent
  <1>4. ASSUME NEW auto \in AutoModes, BeginRelease(auto)
        PROVE  Same(trig, trig') /\ pc' = pc
    BY <1>1, <1>4, HoldsAreSame DEF BeginRelease
  <1>5. ASSUME ReleaseNext
        PROVE  \/ Same(trig, trig') /\ pc' = pc
               \/ ~trig.inFlight /\ trig'.inFlight /\ trig'.state = "TRIGGERED" /\ pc' = "capture"
    <2> DEFINE t == TakeDeferred(trig)
    <2>1. t \in Trigger /\ Same(trig, t) /\ Head(trig.deferred) \in Window
      BY <1>1, <1>5, TriggerTakes, HoldsAreSame DEF ReleaseNext
    <2> HIDE DEF t
    <2>2. CASE trig.auto
      <3>1. Deliver(t, Head(trig.deferred))
        BY <1>5, <2>2 DEF ReleaseNext, t
      <3> QED
        BY <1>1, <2>1, <3>1, DeliveredTrigger DEF Same
    <2>3. CASE ~trig.auto
      <3>1. trig' = HoldManual(t, Head(trig.deferred)) /\ pc' = pc
        BY <1>5, <2>3 DEF ReleaseNext, t
      <3> QED
        BY <2>1, <3>1, HoldsAreSame DEF Same
    <2> QED
      BY <2>2, <2>3
  <1>6. ASSUME EndRelease
        PROVE  Same(trig, trig') /\ pc' = pc
    BY <1>6 DEF EndRelease, Same
  <1>7. ASSUME DreamOnce
        PROVE  ~trig.inFlight /\ trig'.inFlight /\ trig'.state = "TRIGGERED" /\ pc' = "capture"
    <2>1. TakeOnce(trig) \in Trigger
      BY <1>1, <1>7, TriggerTakes DEF DreamOnce
    <2> QED
      BY <1>7, <2>1 DEF DreamOnce, Launch, Launched, Trigger, Busy
  <1>8. /\ pc = "idle"
        /\ UNCHANGED <<journal, active, activeDone, run, resumes, recovered, multi, clean>>
    BY DEF HandleEvent, HoldEvent, BeginRelease, ReleaseNext, EndRelease, DreamOnce
  <1> QED
    BY <1>2, <1>3, <1>4, <1>5, <1>6, <1>7, <1>8

(* Positions from which the thread looks for a run that answers.             *)
Watching == PC \ {"capture", "register", "purge", "mark", "finish"}

(* The dream and the runs that answer for it are as they were.               *)
LEMMA SameDream ==
  ASSUME TriggerOK, Same(trig, trig'), journal' = journal,
         pc \in Watching, pc' \in Watching \cup {"purge"},
         pc' # "purge" => \A r \in Owners : Owes(r) => r \in Owners' \/ ~trig.inFlight
  PROVE  TriggerOK'
  BY DEF TriggerOK, Same, Owes, FinishesOnMerge, Watching, PC

(* A chain that failed leaves no dream in flight.                            *)
LEMMA NoDream ==
  ASSUME ~trig'.inFlight, trig'.state \in {"IDLE", "ACCUMULATING"},
         pc' \notin {"capture", "register"}
  PROVE  TriggerOK'
  BY DEF TriggerOK

LEMMA EndChainPlace ==
  ASSUME EndChain
  PROVE  pc' \in {"idle", "report"}
  BY DEF EndChain

LEMMA OwnedFailures ==
  ASSUME IInv, TriggerOK, ~ChainMayRaise,
         \/ CaptureFails \/ RegisterFails \/ SkipParked \/ ReflectFails \/ ChainRaises
         \/ MergeDefers \/ MergeFails
  PROVE  TriggerOK'
  <1>1. trig \in Trigger /\ (trig.state \notin {"IDLE", "ACCUMULATING"} => trig.inFlight)
    BY DEF IInv, TypeOK, TriggerOK
  <1>2. /\ EndChain
        /\ trig' = Degraded(trig) \/ trig' = OnDreamFailed(trig)
    BY DEF CaptureFails, RegisterFails, SkipParked, ReflectFails, ChainRaises, MergeDefers,
           MergeFails, LaunchFails, Fail
  <1> QED
    BY <1>1, <1>2, EndChainPlace, FailureClears, NoDream

(* The dream a reflect pass hands on: every run can end it now.              *)
LEMMA OwnedAnswers ==
  ASSUME IInv, TriggerOK, Reflect \/ SeatA \/ SeatB \/ Combine
  PROVE  TriggerOK'
  <1>1. trig \in Trigger /\ (trig.state \notin {"IDLE", "ACCUMULATING"} => trig.inFlight)
    BY DEF IInv, TypeOK, TriggerOK
  <1>2. /\ pc \in Asking /\ pc' \in {"merge", "seat_b", "combine"}
        /\ trig' = OnReflectComplete(trig) /\ UNCHANGED <<run, resumes>>
    BY DEF Reflect, SeatA, SeatB, Combine, Asking
  <1>3. CASE trig.inFlight
    <2>1. trig.state \in Open /\ run \in Owners'
      BY <1>2, <1>3 DEF TriggerOK, Owners, Asking, Attempt
    <2>2. trig'.state = "MERGING" /\ trig'.inFlight /\ FinishesOnMerge(trig)'
      BY <1>1, <1>2, <1>3, <2>1, ReflectReadies
    <2> QED
      BY <1>2, <2>1, <2>2 DEF TriggerOK, Owes, Open
  <1>4. CASE ~trig.inFlight
    <2>1. ~trig'.inFlight /\ trig'.state \in {"IDLE", "ACCUMULATING"}
      BY <1>1, <1>2, <1>4 DEF OnReflectComplete
    <2> QED
      BY <1>2, <2>1, NoDream
  <1> QED
    BY <1>3, <1>4

(* The steps of a chain that keep the dream, or end it.                      *)
LEMMA OwnedQuiet ==
  ASSUME IInv, TriggerOK,
         \/ CaptureSnapshot \/ Register \/ MergeBegins \/ MergeCommits
         \/ PurgeSkips \/ MarkMergeDone \/ ClearRows \/ PurgeFails \/ FinishDream \/ Report
         \/ \E vote \in VoteModes : Dispatch(vote)
         \/ \E c \in Chunk : WriteTriple(c)
  PROVE  TriggerOK'
  <1> USE DEF stores, chain, guards, history
  <1>1. /\ trig \in Trigger /\ (trig.state \notin {"IDLE", "ACCUMULATING"} => trig.inFlight)
        /\ journal \in [Run -> File]
    BY DEF IInv, TypeOK, TriggerOK
  <1>2. CASE CaptureSnapshot
    <2>1. PICK r \in Run : /\ journal' = [journal EXCEPT ![r] = Captured(trig.range, stored)]
                           /\ run' = r
      BY <1>2 DEF CaptureSnapshot
    <2>2. ~journal'[run'].result.known
      BY <1>1, <2>1 DEF Captured, NoResult
    <2> QED
      BY <1>2, <2>2 DEF CaptureSnapshot, TriggerOK
  <1>3. CASE Register
    <2>1. /\ pc = "register" /\ pc' = "start" /\ run' = run /\ journal' = journal
          /\ trig' = OnSnapshotReady(trig) /\ resumes' = resumes
      BY <1>3 DEF Register
    <2>2. trig'.state = "DREAMING" /\ trig'.inFlight
      BY <1>1, <2>1 DEF TriggerOK, OnSnapshotReady, Trigger
    <2>3. ~journal[run].result.known
      BY <2>1 DEF TriggerOK
    <2>4. run \in Owners' /\ Owes(run)'
      BY <2>1, <2>3 DEF Owners, Owes, Attempt
    <2> QED
      BY <2>1, <2>2, <2>4 DEF TriggerOK, Open
  <1>4. CASE \E vote \in VoteModes : Dispatch(vote)
    <2>1. PICK vote \in VoteModes : Dispatch(vote)
      BY <1>4
    <2>2. run \in Run /\ journal[run] \in File /\ FileOK(journal[run])
      BY <1>1, <2>1 DEF Dispatch, IInv, ChainOK, FilesOK
    <2>3. pc = "start" /\ pc' \in {"merge", "combine", "seat_a", "seat_b", "reflect"}
      BY <2>1, <2>2, Boundaries DEF Dispatch
    <2> QED
      BY <2>1, <2>3, SameDream DEF Dispatch, Same, Owners, Attempt, Watching, PC
  <1>5. CASE MergeBegins \/ \E c \in Chunk : WriteTriple(c)
    BY <1>5, SameDream DEF MergeBegins, WriteTriple, Same, Owners, Attempt, Watching, PC
  <1>6. CASE MergeCommits
    <2>1. /\ pc = "write" /\ journal[run].result.known
          /\ UNCHANGED <<trig, journal, run, resumes>>
          /\ pc' = IF FinishesOnMerge(trig) THEN "purge" ELSE "report"
      BY <1>6 DEF MergeCommits, IInv, ChainOK
    <2>2. CASE FinishesOnMerge(trig)
      BY <2>1, <2>2, SameDream DEF Same, Watching, PC
    <2>3. CASE ~FinishesOnMerge(trig)
      <3>1. ~Owes(run)
        BY <2>1, <2>3 DEF Owes
      <3> QED
        BY <2>1, <2>3, <3>1, SameDream DEF Same, Watching, PC, Owners, Attempt
    <2> QED
      BY <2>2, <2>3
  <1>7. CASE PurgeSkips \/ MarkMergeDone \/ ClearRows \/ PurgeFails
    BY <1>7 DEF PurgeSkips, MarkMergeDone, ClearRows, PurgeFails, TriggerOK
  <1>8. CASE FinishDream
    <2>1. Finished(trig) \in Trigger
      BY <1>1, TriggerMoves
    <2>2. CASE trig.queued = <<>>
      BY <1>1, <1>8, <2>2, FailureClears, NoDream DEF FinishDream
    <2>3. CASE trig.queued # <<>>
      BY <1>8, <2>1, <2>3 DEF FinishDream, Launch, Launched, Trigger, TriggerOK
    <2> QED
      BY <2>2, <2>3
  <1>9. CASE Report
    <2>1. pc = "report" /\ pc' \in {"idle", "report"} /\ UNCHANGED <<trig, journal, resumes>>
      BY <1>9, EndChainPlace DEF Report
    <2> QED
      BY <2>1, SameDream DEF Same, Owners, Attempt, Watching, PC
  <1> QED
    BY <1>2, <1>3, <1>4, <1>5, <1>6, <1>7, <1>8, <1>9

LEMMA OwnedOutside ==
  ASSUME IInv, TriggerOK,
         \/ \E c \in Chunk : Store(c)
         \/ Activity
         \/ JobStep
         \/ \E auto \in AutoModes : Restart(auto)
         \/ UNCHANGED vars
  PROVE  TriggerOK'
  <1> USE DEF stores, chain, guards, history
  <1>1. /\ trig \in Trigger /\ (trig.state \notin {"IDLE", "ACCUMULATING"} => trig.inFlight)
        /\ journal \in [Run -> File]
    BY DEF IInv, TypeOK, TriggerOK
  <1>2. CASE (\E c \in Chunk : Store(c)) \/ UNCHANGED vars
    BY <1>2 DEF Store, vars, TriggerOK, Owners, Owes
  <1>3. CASE Activity
    <2>1. trig' = NotifyActivity(trig) /\ UNCHANGED <<pc, run, resumes, journal>>
      BY <1>3 DEF Activity
    <2>2. CASE pc \in {"capture", "register", "purge", "mark", "finish"}
      BY <1>1, <2>1, <2>2, ActivityKeeps DEF TriggerOK
    <2>3. CASE pc \notin {"capture", "register", "purge", "mark", "finish"} /\ trig.inFlight
      BY <1>1, <2>1, <2>3, ActivityKeeps DEF TriggerOK, Owners, Owes
    <2>4. CASE pc \notin {"capture", "register", "purge", "mark", "finish"} /\ ~trig.inFlight
      <3>1. ~trig'.inFlight /\ trig'.state \in {"IDLE", "ACCUMULATING"}
        BY <1>1, <2>1, <2>4, ActivityKeeps
      <3> QED
        BY <2>1, <2>4, <3>1, NoDream
    <2> QED
      BY <2>2, <2>3, <2>4
  <1>4. CASE JobStep /\ ~ \E r \in Run : StartResume(r)
    <2>1. /\ pc = "idle" /\ UNCHANGED <<journal, run, resumes>>
          /\ \/ Same(trig, trig') /\ pc' = pc
             \/ trig'.inFlight /\ trig'.state = "TRIGGERED" /\ pc' = "capture"
      BY <1>1, <1>4, EventOutcomes DEF JobStep
    <2>2. CASE Same(trig, trig') /\ pc' = pc
      BY <2>1, <2>2, SameDream DEF Owners, Watching, PC
    <2>3. CASE trig'.inFlight /\ trig'.state = "TRIGGERED" /\ pc' = "capture"
      BY <2>3 DEF TriggerOK
    <2> QED
      BY <2>1, <2>2, <2>3
  <1>5. CASE \E r \in Run : StartResume(r)
    <2>1. PICK r \in Run : StartResume(r)
      BY <1>5
    <2>2. /\ pc = "idle" /\ pc' = "start" /\ run' = r /\ resumes' = resumes \ {r}
          /\ UNCHANGED <<journal, trig>>
      BY <2>1 DEF StartResume, Idle
    <2>3. \A q \in Owners : q \in Owners'
      BY <2>2 DEF Owners, Attempt
    <2> QED
      BY <2>2, <2>3, SameDream DEF Same, Watching, PC
  <1>6. CASE \E auto \in AutoModes : Restart(auto)
    <2>1. PICK auto \in AutoModes : Restart(auto)
      BY <1>6
    <2>2. pc' = "idle" /\ resumes' = Unmerged /\ journal' = journal
      BY <2>1 DEF Restart
    <2>3. CASE Unmerged = {}
      <3>1. trig' = NewTrigger(auto)
        BY <2>1, <2>3 DEF Restart
      <3> QED
        BY <2>2, <3>1, NoDream DEF NewTrigger
    <2>4. CASE Unmerged # {}
      <3>1. PICK first \in Run : first \in Unmerged /\ trig' = Resumed(NewTrigger(auto), first)
        BY <2>1, <2>4, MinOfRuns DEF Restart, Unmerged
      <3>2. journal[first] \in File /\ FileOK(journal[first])
        BY <1>1, <3>1 DEF IInv, FilesOK
      <3>3. Boundary(journal[first]) = "merge" <=> journal[first].result.known
        BY <3>2, Boundaries
      <3>4. /\ trig'.inFlight
            /\ trig'.state = IF journal[first].result.known THEN "MERGING" ELSE "DREAMING"
        BY <3>1, <3>3 DEF Resumed, ResumeMerge, Resume, Busy, NewTrigger
      <3>5. first \in Owners' /\ Owes(first)'
        BY <2>2, <3>1, <3>4 DEF Owners, Owes, FinishesOnMerge
      <3> QED
        BY <2>2, <3>4, <3>5 DEF TriggerOK, Open
    <2> QED
      BY <2>3, <2>4
  <1> QED
    BY <1>2, <1>3, <1>4, <1>5, <1>6 DEF JobStep

LEMMA NextOwned == ~ChainMayRaise /\ IInv /\ TriggerOK /\ [Next]_vars => TriggerOK'
  <1> SUFFICES ASSUME ~ChainMayRaise, IInv, TriggerOK, [Next]_vars PROVE TriggerOK'
    OBVIOUS
  <1>1. CASE ChainStep
    BY <1>1, OwnedFailures, OwnedAnswers, OwnedQuiet DEF ChainStep
  <1>2. CASE \/ \E c \in Chunk : Store(c)
             \/ Activity \/ JobStep
             \/ \E auto \in AutoModes : Restart(auto)
             \/ UNCHANGED vars
    BY <1>2, OwnedOutside
  <1> QED
    BY <1>1, <1>2 DEF Next

LEMMA InitOwned == Init => TriggerOK
  BY DEF Init, TriggerOK, NewTrigger

(* When the thread is between chains and every recovery job has run, the     *)
(* trigger is not in flight (handle_event, on_dream_failed, _finish).  The   *)
(* hypothesis is what the property is about: an exception that leaves the    *)
(* reflect pass of a recovery job reports nothing to the trigger.            *)
THEOREM InFlightIsOwned == ~ChainMayRaise => (Spec => []InFlightOwned)
  <1>1. TriggerOK => InFlightOwned
    BY DEF TriggerOK, InFlightOwned, Owners, Attempt
  <1>2. ASSUME ~ChainMayRaise PROVE Spec => []InFlightOwned
    <2>1. IInv /\ TriggerOK /\ [Next]_vars => TriggerOK'
      BY <1>2, NextOwned
    <2> QED
      BY <1>1, <2>1, InitOwned, Inductive, PTL DEF Spec
  <1> QED
    BY <1>2

-----------------------------------------------------------------------------
(* Boot recovery of one unfinished run terminates.                           *)

(* What lies between the boot and the safe-clear of the run it resumed.      *)
Underway == (Attempt \ {"register"}) \cup {"purge"}

(* Nothing forgets that this boot had a failure, or which run it resumed.    *)
LEMMA BootRemembers ==
  ASSUME [Next]_vars, ~ \E auto \in AutoModes : Restart(auto), clean'
  PROVE  clean /\ recovered' = recovered /\ multi' = multi
  <1> USE DEF stores, chain, guards, history
  <1>1. CASE ChainStep
    BY <1>1 DEF ChainStep, CaptureSnapshot, CaptureFails, Register, RegisterFails, SkipParked,
                Dispatch, Reflect, SeatA, SeatB, Combine, ReflectFails, ChainRaises, MergeDefers,
                MergeBegins, WriteTriple, MergeFails, MergeCommits, PurgeSkips, MarkMergeDone,
                ClearRows, PurgeFails, FinishDream, Report, LaunchFails, Fail
  <1>2. CASE JobStep
    BY <1>2 DEF JobStep, HandleEvent, HoldEvent, BeginRelease, ReleaseNext, EndRelease, DreamOnce,
                StartResume
  <1>3. CASE \/ \E c \in Chunk : Store(c)
             \/ Activity \/ UNCHANGED vars
    BY <1>3 DEF Store, Activity, vars
  <1> QED
    BY <1>1, <1>2, <1>3 DEF Next

LEMMA IdleOutsideChain ==
  ASSUME pc = "idle"
  PROVE  ~ChainStep
  BY DEF ChainStep, CaptureSnapshot, CaptureFails, Register, RegisterFails, SkipParked,
         Dispatch, Reflect, SeatA, SeatB, Combine, ReflectFails, ChainRaises, MergeDefers,
         MergeBegins, WriteTriple, MergeFails, MergeCommits, PurgeSkips, MarkMergeDone,
         ClearRows, PurgeFails, FinishDream, Report

(* A run waiting in the backlog stays the dream in flight until it starts.   *)
LEMMA WaitingStays ==
  ASSUME IInv, NEW r \in Run, Recovering(r), pc = "idle", r \in resumes, ~multi,
         \/ \E c \in Chunk : Store(c)
         \/ Activity \/ JobStep \/ UNCHANGED vars
  PROVE  Recovering(r)'
  <1> USE DEF stores, chain, guards, history
  <1>1. trig \in Trigger /\ trig.inFlight /\ trig.state \in Open
    BY DEF IInv, TypeOK, Recovering
  <1>2. CASE (\E c \in Chunk : Store(c)) \/ UNCHANGED vars
    BY <1>2 DEF Store, vars, Recovering, Owes
  <1>3. CASE Activity
    BY <1>1, <1>3, ActivityKeeps DEF Activity, Recovering, Owes
  <1>4. CASE JobStep /\ ~ \E q \in Run : StartResume(q)
    <2>1. /\ UNCHANGED <<journal, active, activeDone, run, resumes, pc>>
          /\ Same(trig, trig')
      BY <1>1, <1>4, EventOutcomes DEF JobStep
    <2> QED
      BY <2>1 DEF Recovering, Owes, FinishesOnMerge, Same
  <1>5. CASE \E q \in Run : StartResume(q)
    <2>1. PICK q \in Run : StartResume(q)
      BY <1>5
    <2>2. q = r
      BY <2>1 DEF StartResume, IInv, OwnedOK
    <2> QED
      BY <2>1, <2>2 DEF StartResume, Recovering, Owes, Attempt
  <1> QED
    BY <1>2, <1>3, <1>4, <1>5

(* A chain under way keeps the dream in flight until its safe-clear marks    *)
(* the file done, unless something fails.                                    *)
LEMMA UnderwayStays ==
  ASSUME IInv, FilesGrow, NEW r \in Run, Recovering(r), pc \in Underway, run = r, clean',
         ChainStep
  PROVE  Done(journal'[r]) \/ Recovering(r)'
  <1> USE DEF stores, chain, guards, history
  <1>1. /\ trig \in Trigger /\ trig.inFlight /\ trig.state \in Open
        /\ trig.range = journal[r].range /\ active = r /\ ~activeDone /\ Owes(r)
        /\ journal \in [Run -> File] /\ active # NoRun
    BY RunFacts DEF IInv, TypeOK, Recovering
  <1>2. Exists(journal[r]) \/ pc = "purge"
    BY DEF IInv, ChainOK, Underway
  <1>3. CASE Reflect \/ SeatA \/ SeatB \/ Combine
    <2>1. /\ pc' \in {"merge", "seat_b", "combine"} /\ trig' = OnReflectComplete(trig)
          /\ pc # "purge" /\ UNCHANGED <<run, active, activeDone>>
      BY <1>3 DEF Reflect, SeatA, SeatB, Combine
    <2>2. /\ trig'.inFlight /\ trig'.state = "MERGING" /\ FinishesOnMerge(trig)'
          /\ trig'.range = trig.range
      BY <1>1, <2>1, ReflectReadies
    <2>3. journal'[r].range = journal[r].range
      BY <1>2, <2>1 DEF FilesGrow, Grows
    <2> QED
      BY <1>1, <2>1, <2>2, <2>3 DEF Recovering, Owes, Open, Attempt
  <1>4. CASE \E vote \in VoteModes : Dispatch(vote)
    <2>1. PICK vote \in VoteModes : Dispatch(vote)
      BY <1>4
    <2>2. journal[run] \in File /\ FileOK(journal[run])
      BY <1>1 DEF IInv, FilesOK
    <2>3. pc' \in {"merge", "combine", "seat_a", "seat_b", "reflect"}
      BY <2>1, <2>2, Boundaries DEF Dispatch
    <2> QED
      BY <1>1, <2>1, <2>3 DEF Dispatch, Recovering, Owes, Attempt
  <1>5. CASE MergeBegins \/ \E c \in Chunk : WriteTriple(c)
    BY <1>1, <1>5 DEF MergeBegins, WriteTriple, Recovering, Owes, Attempt
  <1>6. CASE MergeCommits
    <2>1. /\ journal[run].result.known /\ pc' = IF FinishesOnMerge(trig) THEN "purge" ELSE "report"
          /\ UNCHANGED <<trig, journal, active, activeDone, run>>
      BY <1>6 DEF MergeCommits, IInv, ChainOK
    <2> QED
      BY <1>1, <2>1 DEF Recovering, Owes
  <1>7. CASE MarkMergeDone
    BY <1>1, <1>7 DEF MarkMergeDone, WithPhase, Done, File
  <1>8. CASE PurgeSkips
    BY <1>1, <1>8 DEF PurgeSkips, PurgeGuard
  <1>9. CASE \/ CaptureFails \/ RegisterFails \/ SkipParked \/ ReflectFails \/ ChainRaises
             \/ MergeDefers \/ MergeFails \/ PurgeFails
    BY <1>9 DEF CaptureFails, RegisterFails, SkipParked, ReflectFails, ChainRaises, MergeDefers,
                MergeFails, PurgeFails, LaunchFails, Fail
  <1>10. CASE CaptureSnapshot \/ Register \/ ClearRows \/ FinishDream \/ Report
    BY <1>10 DEF CaptureSnapshot, Register, ClearRows, FinishDream, Report, Underway, Attempt
  <1> QED
    BY <1>3, <1>4, <1>5, <1>6, <1>7, <1>8, <1>9, <1>10 DEF ChainStep

(* A row stored or a turn taken meanwhile changes nothing of that.           *)
LEMMA UnderwayUndisturbed ==
  ASSUME IInv, NEW r \in Run, Recovering(r), pc \in Underway, run = r,
         \/ \E c \in Chunk : Store(c)
         \/ Activity \/ UNCHANGED vars
  PROVE  Recovering(r)'
  <1> USE DEF stores, chain, guards, history
  <1>1. CASE (\E c \in Chunk : Store(c)) \/ UNCHANGED vars
    BY <1>1 DEF Store, vars, Recovering, Owes
  <1>2. CASE Activity
    <2>1. trig \in Trigger /\ trig.inFlight /\ trig.state \in Open
      BY DEF IInv, TypeOK, Recovering
    <2> QED
      BY <1>2, <2>1, ActivityKeeps DEF Activity, Recovering, Owes
  <1> QED
    BY <1>1, <1>2

(* The boot that found one unfinished run puts it in flight.                 *)
LEMMA BootRecovers ==
  ASSUME IInv, NEW auto \in AutoModes, Restart(auto), ~multi', NEW r \in recovered'
  PROVE  Recovering(r)'
  <1>1. /\ recovered' = Unmerged /\ resumes' = Unmerged /\ pc' = "idle" /\ journal' = journal
        /\ activeDone' = FALSE /\ r \in Unmerged /\ \A q \in Unmerged : q = r
    BY DEF Restart, stores
  <1>2. Min(Unmerged) = r /\ Max(Unmerged) = r /\ r \in Run
    BY <1>1, MinOfRuns, MaxOfRuns DEF Unmerged
  <1>3. active' = r /\ trig' = Resumed(NewTrigger(auto), r)
    BY <1>1, <1>2 DEF Restart
  <1>4. journal[r] \in File /\ FileOK(journal[r])
    BY <1>2 DEF IInv, TypeOK, FilesOK
  <1>5. Boundary(journal[r]) = "merge" <=> journal[r].result.known
    BY <1>4, Boundaries
  <1>6. /\ trig'.inFlight /\ trig'.range = journal[r].range
        /\ trig'.state = IF journal[r].result.known THEN "MERGING" ELSE "DREAMING"
    BY <1>3, <1>5 DEF Resumed, ResumeMerge, Resume, Busy, NewTrigger
  <1> QED
    BY <1>1, <1>3, <1>6 DEF Recovering, Owes, FinishesOnMerge, Open

LEMMA NextRecovery == IInv /\ RecoveryOK /\ [Next]_vars => RecoveryOK'
  <1> SUFFICES ASSUME IInv, RecoveryOK, [Next]_vars, ~multi', clean', NEW r \in recovered'
               PROVE  Done(journal'[r]) \/ Recovering(r)'
    BY DEF RecoveryOK
  <1>1. CASE \E auto \in AutoModes : Restart(auto)
    BY <1>1, BootRecovers
  <1>2. CASE ~ \E auto \in AutoModes : Restart(auto)
    <2>1. clean /\ ~multi /\ r \in recovered
      BY <1>2, BootRemembers
    <2>2. r \in Run /\ FilesGrow
      BY <2>1, NextGrows DEF IInv, TypeOK
    <2>3. CASE Done(journal[r])
      BY <2>2, <2>3 DEF FilesGrow, Grows, Done, Exists
    <2>4. CASE Recovering(r)
      <3>1. CASE pc = "idle" /\ r \in resumes
        <4>1. ~ChainStep
          BY <3>1, IdleOutsideChain
        <4> QED
          BY <1>2, <2>1, <2>2, <2>4, <3>1, <4>1, WaitingStays DEF Next
      <3>2. CASE pc \in Underway /\ run = r
        <4>1. ~JobStep
          BY <3>2 DEF JobStep, HandleEvent, HoldEvent, BeginRelease, ReleaseNext, EndRelease,
                      DreamOnce, StartResume, Idle, Underway, Attempt
        <4> QED
          BY <1>2, <2>2, <2>4, <3>2, <4>1, UnderwayStays, UnderwayUndisturbed DEF Next
      <3> QED
        BY <2>4, <3>1, <3>2 DEF Recovering, Underway
    <2> QED
      BY <2>1, <2>3, <2>4 DEF RecoveryOK
  <1> QED
    BY <1>1, <1>2

LEMMA InitRecovery == Init => RecoveryOK
  BY DEF Init, RecoveryOK

(* A boot that found one unfinished run and met no failure leaves that run   *)
(* merge_done: recovery terminates (resume, resume_merge).                   *)
THEOREM RecoveryCompletes == Spec => []RecoveryTerminates
  <1>1. RecoveryOK => RecoveryTerminates
    BY DEF RecoveryOK, RecoveryTerminates, Recovering, Attempt
  <1> QED
    BY <1>1, InitRecovery, NextRecovery, Inductive, PTL DEF Spec
=============================================================================
