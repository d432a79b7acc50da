--------------------------- MODULE DreamLifecycle ---------------------------
(* One profile's dreams, from the event that launches one to the safe-clear  *)
(* of the rows it consumed: DreamTrigger, FileSnapshotter, DreamPipeline,    *)
(* ReflectOrchestrator and Merger as daemon/app.py wires them.               *)
(*                                                                           *)
(* The chain capture - reflect - merge - clear is synchronous and runs on    *)
(* the one dream worker thread; it is cut here at every write that survives  *)
(* a crash, so that a restart, or a row stored by the capture lane, can fall *)
(* between any two of them.  pc is where the thread stands in the chain of   *)
(* run; a queued event launches its dream from inside the chain of the dream *)
(* before it, whose run then waits in outer.                                 *)
EXTENDS DreamTrigger, DreamSnapshot, FiniteSetsExt

CONSTANTS
    MaxRuns,        \* snapshot ids: dreams launched over the whole behaviour
    MaxHeld,        \* events held by the trigger at one time
    MaxRestarts,    \* crashes or stops followed by a boot
    ParkAfter,      \* _PARK_AFTER_IDENTICAL_DEFERRALS
    AutoModes,      \* values dream.auto_trigger may take
    VoteModes,      \* whether dream.ensemble may be "vote"
    BatchModes,     \* whether a backlog may be reflected in batches
    ActivityWired,  \* notify_activity is called on a new turn
    ChainMayRaise   \* a store error may escape a reflect pass (token metering)

ASSUME BoundsAssumption == MaxRuns \in Nat /\ MaxHeld \in Nat /\ MaxRestarts \in Nat
ASSUME ParkAssumption == ParkAfter \in Nat \ {0}
ASSUME ModesAssumption ==
    /\ AutoModes \subseteq BOOLEAN /\ VoteModes \subseteq BOOLEAN /\ BatchModes \subseteq BOOLEAN
    /\ ActivityWired \in BOOLEAN /\ ChainMayRaise \in BOOLEAN

Run == 1..MaxRuns       \* in creation order
NoRun == 0

VARIABLES
    \* the stores: they survive a restart
    stored,         \* rows of the vector store
    consolidated,   \* rows marked consolidated
    graph,          \* chunks whose triple is a node of the graph
    journal,        \* one snapshot file per run
    registered,     \* dream_runs rows
    finished,       \* dream_runs rows with a finish time
    \* the process
    trig,           \* the trigger's record
    active,         \* FileSnapshotter._active: the profile's snapshot
    activeDone,     \* merge_done is in the phases of that in-memory snapshot
    pc, run, fresh, left, outer,    \* the worker thread's chain
    releasing,      \* the thread is inside release_provider_events
    resumes,        \* boot-recovery jobs not yet run
    strikes,        \* DreamPipeline._deferred_attempts
    parked,         \* DreamPipeline._parked_windows
    \* history
    committed,      \* runs whose every triple was written back
    covered,        \* chunks the model was handed in a committed run
    recovered,      \* runs this boot resumed
    multi,          \* some boot resumed more than one run
    clean,          \* nothing failed, deferred or raised since this boot
    restarts

stores  == <<stored, consolidated, graph, journal, registered, finished>>
chain   == <<pc, run, fresh, left, outer>>
guards  == <<strikes, parked>>
history == <<committed, covered, recovered, multi, restarts>>
vars == <<stores, trig, active, activeDone, chain, releasing, resumes, guards, history, clean>>

PC == {"idle", "capture", "register", "start", "reflect", "seat_a", "seat_b", "combine",
       "merge", "write", "purge", "mark", "finish", "report"}

TypeOK ==
    /\ stored \in SUBSET Chunk /\ consolidated \in SUBSET Chunk /\ graph \in SUBSET Chunk
    /\ journal \in [Run -> File]
    /\ registered \in SUBSET Run /\ finished \in SUBSET Run
    /\ trig \in Trigger
    /\ active \in Run \cup {NoRun} /\ activeDone \in BOOLEAN
    /\ pc \in PC /\ run \in Run \cup {NoRun} /\ fresh \in BOOLEAN
    /\ left \in SUBSET Chunk /\ outer \in Seq(Run) /\ releasing \in BOOLEAN
    /\ resumes \in SUBSET Run
    /\ strikes \in [Window -> Nat] /\ parked \in SUBSET Window
    /\ committed \in SUBSET Run /\ covered \in SUBSET Chunk
    /\ recovered \in SUBSET Run /\ multi \in BOOLEAN /\ clean \in BOOLEAN
    /\ restarts \in Nat

Init ==
    /\ stored = {} /\ consolidated = {} /\ graph = {}
    /\ journal = [r \in Run |-> NoFile]
    /\ registered = {} /\ finished = {}
    /\ \E auto \in AutoModes : trig = NewTrigger(auto)
    /\ active = NoRun /\ activeDone = FALSE
    /\ pc = "idle" /\ run = NoRun /\ fresh = TRUE /\ left = {} /\ outer = <<>>
    /\ releasing = FALSE /\ resumes = {}
    /\ strikes = [w \in Window |-> 0] /\ parked = {}
    /\ committed = {} /\ covered = {} /\ recovered = {} /\ multi = FALSE /\ clean = TRUE
    /\ restarts = 0

-----------------------------------------------------------------------------
(* The capture lane stores a row.  It shares nothing else with the worker.   *)
Store(c) ==
    /\ c \notin stored
    /\ stored' = stored \cup {c}
    /\ UNCHANGED <<consolidated, graph, journal, registered, finished, trig, active,
                   activeDone, chain, releasing, resumes, guards, history, clean>>

(* A new turn reaches the trigger, at any point of the chain.                *)
Activity ==
    /\ ActivityWired
    /\ trig' = NotifyActivity(trig)
    /\ UNCHANGED <<stores, active, activeDone, chain, releasing, resumes, guards, history, clean>>

-----------------------------------------------------------------------------
(* Jobs the worker thread takes when it is between chains.                   *)

Idle == pc = "idle" /\ ~releasing
Held == Len(trig.queued) + Len(trig.manual) + Len(trig.deferred)

(* _launch up to the snapshot request: t is the record the event came to.    *)
Launch(t, w) == /\ trig' = Launched(t, w) /\ pc' = "capture"

(* _deliver                                                                  *)
Deliver(t, w) ==
    \/ /\ Busy(t)
       /\ trig' = HoldQueued(t, w)
       /\ UNCHANGED pc
    \/ /\ ~Busy(t)
       /\ Launch(t, w)

(* handle_event, the live auto flag read first (_DreamJob.run).              *)
HandleEvent(w, auto) ==
    /\ Idle /\ Held < MaxHeld
    /\ LET t == SetAutoTrigger(trig, auto)
       IN IF auto THEN Deliver(t, w)
                  ELSE trig' = HoldManual(t, w) /\ UNCHANGED pc
    /\ UNCHANGED <<stores, active, activeDone, run, fresh, left, outer, releasing, resumes,
                   guards, history, clean>>

(* The worker held the event back: the configured provider is unavailable.   *)
HoldEvent(w) ==
    /\ Idle /\ Held < MaxHeld
    /\ trig' = DeferProviderEvent(trig, w)
    /\ UNCHANGED <<stores, active, activeDone, chain, releasing, resumes, guards, history, clean>>

(* release_provider_events is a loop whose every delivery may run a dream.   *)
BeginRelease(auto) ==
    /\ Idle
    /\ trig' = SetAutoTrigger(trig, auto)
    /\ releasing' = TRUE
    /\ UNCHANGED <<stores, active, activeDone, chain, resumes, guards, history, clean>>

ReleaseNext ==
    /\ releasing /\ pc = "idle" /\ trig.deferred # <<>>
    /\ LET w == Head(trig.deferred)
           t == TakeDeferred(trig)
       IN IF trig.auto THEN Deliver(t, w)
                       ELSE trig' = HoldManual(t, w) /\ UNCHANGED pc
    /\ UNCHANGED <<stores, active, activeDone, run, fresh, left, outer, releasing, resumes,
                   guards, history, clean>>

EndRelease ==
    /\ releasing /\ pc = "idle" /\ trig.deferred = <<>>
    /\ releasing' = FALSE
    /\ UNCHANGED <<stores, trig, active, activeDone, chain, resumes, guards, history, clean>>

(* dream_once                                                                *)
DreamOnce ==
    /\ Idle /\ ~Busy(trig) /\ HasManualWork(trig)
    /\ Launch(TakeOnce(trig), OnceWindow(trig))
    /\ UNCHANGED <<stores, active, activeDone, run, fresh, left, outer, releasing, resumes,
                   guards, history, clean>>

(* A boot-recovery job: pipeline.run over the journaled snapshot.  Jobs that *)
(* met an unavailable provider go back to the backlog, so they need not run  *)
(* in the order the boot queued them.                                        *)
StartResume(r) ==
    /\ Idle /\ r \in resumes
    /\ resumes' = resumes \ {r}
    /\ run' = r /\ fresh' = FALSE /\ pc' = "start"
    /\ UNCHANGED <<stores, trig, active, activeDone, left, outer, releasing, guards, history, clean>>

-----------------------------------------------------------------------------
(* Where the thread goes when the chain of run is over: back to the chain    *)
(* that launched it, whose merge had committed, or to the next job.          *)
EndChain ==
    IF outer = <<>>
    THEN pc' = "idle" /\ run' = NoRun /\ outer' = <<>>
    ELSE /\ pc' = "report" /\ run' = outer[Len(outer)]
         /\ outer' = SubSeq(outer, 1, Len(outer) - 1)

(* The snapshot request returned ok = False: nothing is purged or reported.  *)
LaunchFails ==
    /\ trig' = Degraded(trig)
    /\ EndChain
    /\ clean' = FALSE

(* The snapshot file is written.                                             *)
CaptureSnapshot ==
    /\ pc = "capture"
    /\ \E r \in Run :
        /\ ~Exists(journal[r]) /\ \A q \in Run : Exists(journal[q]) <=> q < r
        /\ journal' = [journal EXCEPT ![r] = Captured(trig.range, stored)]
        /\ run' = r
    /\ fresh' = TRUE /\ pc' = "register"
    /\ UNCHANGED <<stored, consolidated, graph, registered, finished, trig, active, activeDone,
                   left, outer, releasing, resumes, guards, history, clean>>

(* The read or the file write failed.                                        *)
CaptureFails ==
    /\ pc = "capture"
    /\ LaunchFails
    /\ UNCHANGED <<stores, active, activeDone, fresh, left, releasing, resumes, guards, history>>

(* The run row is inserted; the snapshot becomes the profile's active one    *)
(* and on_ready enters the pipeline.                                         *)
Register ==
    /\ pc = "register"
    /\ registered' = registered \cup {run}
    /\ active' = run /\ activeDone' = FALSE
    /\ trig' = OnSnapshotReady(trig)
    /\ pc' = "start"
    /\ UNCHANGED <<stored, consolidated, graph, journal, finished, run, fresh, left, outer,
                   releasing, resumes, guards, history, clean>>

(* The insert failed after the file was written.                             *)
RegisterFails ==
    /\ pc = "register"
    /\ LaunchFails
    /\ UNCHANGED <<stores, active, activeDone, fresh, left, releasing, resumes, guards, history>>

(* An attempt ends without a commit; the file stays as it is.                *)
Fail ==
    /\ trig' = OnDreamFailed(trig)
    /\ EndChain
    /\ clean' = FALSE

(* pipeline.run: the parking guard, then the boundary the file resumes at.   *)
SkipParked ==
    /\ pc = "start" /\ journal[run].range \in parked
    /\ Fail
    /\ UNCHANGED <<stores, active, activeDone, fresh, left, releasing, resumes, guards, history>>

Dispatch(vote) ==
    /\ pc = "start" /\ journal[run].range \notin parked
    /\ pc' = CASE Boundary(journal[run]) = "merge"     -> "merge"
               [] Boundary(journal[run]) = "combine"   -> "combine"
               [] Boundary(journal[run]) = "reflect_b" -> "seat_b"
               [] Boundary(journal[run]) = "reflect"   -> IF vote THEN "seat_a" ELSE "reflect"
    /\ UNCHANGED <<stores, trig, active, activeDone, run, fresh, left, outer, releasing, resumes,
                   guards, history, clean>>

(* The answers a seat can give over the snapshot of the running chain.       *)
Answers == UNION {SeatResults(journal[run].chunks, b) : b \in BatchModes}

(* reflect: marker and result reach the file, then on_reflect_complete.      *)
Reflect ==
    /\ pc = "reflect"
    /\ \E res \in Answers :
          journal' = [journal EXCEPT ![run] = WithResult(@, "reflect_done", res)]
    /\ trig' = OnReflectComplete(trig)
    /\ pc' = "merge"
    /\ UNCHANGED <<stored, consolidated, graph, registered, finished, active, activeDone, run,
                   fresh, left, outer, releasing, resumes, guards, history, clean>>

(* reflect_vote_a, reflect_vote_b: each seat's answer in its own carrier.    *)
SeatA ==
    /\ pc = "seat_a"
    /\ \E res \in Answers : journal' = [journal EXCEPT ![run] = WithSeatA(@, res)]
    /\ trig' = OnReflectComplete(trig)
    /\ pc' = "seat_b"
    /\ UNCHANGED <<stored, consolidated, graph, registered, finished, active, activeDone, run,
                   fresh, left, outer, releasing, resumes, guards, history, clean>>

SeatB ==
    /\ pc = "seat_b"
    /\ \E res \in Answers : journal' = [journal EXCEPT ![run] = WithSeatB(@, res)]
    /\ trig' = OnReflectComplete(trig)
    /\ pc' = "combine"
    /\ UNCHANGED <<stored, consolidated, graph, registered, finished, active, activeDone, run,
                   fresh, left, outer, releasing, resumes, guards, history, clean>>

(* combine reads both seats back from the file.  From here on the attempt    *)
(* counts toward parking, even when a boot resumed it.                       *)
Combine ==
    /\ pc = "combine"
    /\ LET f == journal[run]
       IN /\ f.seatA.known /\ f.seatB.known
          /\ \E drop \in SUBSET (f.seatA.triples \cap f.seatB.triples) :
                journal' = [journal EXCEPT
                    ![run] = WithResult(@, "combine_done", Combined(f.seatA, f.seatB, drop))]
    /\ trig' = OnReflectComplete(trig)
    /\ fresh' = TRUE /\ pc' = "merge"
    /\ UNCHANGED <<stored, consolidated, graph, registered, finished, active, activeDone, run,
                   left, outer, releasing, resumes, guards, history, clean>>

(* The model or the journal write failed.                                    *)
ReflectFails ==
    /\ pc \in {"reflect", "seat_a", "seat_b", "combine"}
    /\ Fail
    /\ UNCHANGED <<stores, active, activeDone, fresh, left, releasing, resumes, guards, history>>

(* An exception leaves the reflect pass.  A fresh chain runs inside request, *)
(* which turns it into a failed launch; a boot-recovery job just dies.       *)
ChainRaises ==
    /\ ChainMayRaise /\ pc \in {"reflect", "seat_a", "seat_b"}
    /\ trig' = IF fresh THEN Degraded(trig) ELSE trig
    /\ EndChain
    /\ clean' = FALSE
    /\ UNCHANGED <<stores, active, activeDone, fresh, left, releasing, resumes, guards, history>>

-----------------------------------------------------------------------------
(* An empty result whose delta was truncated says nothing of the overflow.   *)
Deferred(res) == res.triples = {} /\ res.overflow # {} /\ ~res.batched

(* _merge holds the result back; fresh attempts count toward parking.        *)
MergeDefers ==
    /\ pc = "merge" /\ Deferred(journal[run].result)
    /\ LET w == journal[run].range
       IN IF fresh
          THEN /\ strikes' = [strikes EXCEPT ![w] = @ + 1]
               /\ parked' = IF strikes[w] + 1 >= ParkAfter THEN parked \cup {w} ELSE parked
          ELSE UNCHANGED guards
    /\ Fail
    /\ UNCHANGED <<stores, active, activeDone, fresh, left, releasing, resumes, history>>

MergeBegins ==
    /\ pc = "merge" /\ ~Deferred(journal[run].result)
    /\ left' = journal[run].result.triples
    /\ pc' = "write"
    /\ UNCHANGED <<stores, trig, active, activeDone, run, fresh, outer, releasing, resumes,
                   guards, history, clean>>

(* _write_triple: a new node, or the same node reinforced in place.          *)
WriteTriple(c) ==
    /\ pc = "write" /\ c \in left
    /\ graph' = graph \cup {c}
    /\ left' = left \ {c}
    /\ UNCHANGED <<stored, consolidated, journal, registered, finished, trig, active, activeDone,
                   pc, run, fresh, outer, releasing, resumes, guards, history, clean>>

(* Mutant of MergeFails: the failed write-back is taken for a commit.        *)
MergeFailsPurges ==
    /\ pc = "write"
    /\ left' = {} /\ pc' = "purge"
    /\ UNCHANGED <<stores, trig, active, activeDone, run, fresh, outer, releasing, resumes,
                   guards, history, clean>>

(* A graph or salvage-queue write failed; earlier triples stay written.      *)
MergeFails ==
    /\ pc = "write"
    /\ left' = {}
    /\ Fail
    /\ UNCHANGED <<stores, active, activeDone, fresh, releasing, resumes, guards, history>>

(* Mutant of MergeCommits: it commits with triples still to write.           *)
MergeCommitsEarly ==
    /\ pc = "write"
    /\ committed' = committed \cup {run}
    /\ covered' = covered \cup journal[run].result.consumed
    /\ left' = {} /\ pc' = "purge"
    /\ UNCHANGED <<stores, trig, active, activeDone, run, fresh, outer, releasing, resumes,
                   guards, recovered, multi, clean, restarts>>

(* Every triple is written: merge returns committed, the deferral count is   *)
(* dropped and on_merge_committed decides whether this ends the dream.       *)
MergeCommits ==
    /\ pc = "write" /\ left = {}
    /\ strikes' = [strikes EXCEPT ![journal[run].range] = 0]
    /\ committed' = committed \cup {run}
    /\ covered' = covered \cup journal[run].result.consumed
    /\ pc' = IF FinishesOnMerge(trig) THEN "purge" ELSE "report"
    /\ UNCHANGED <<stores, trig, active, activeDone, run, fresh, left, outer, releasing, resumes,
                   parked, recovered, multi, clean, restarts>>

-----------------------------------------------------------------------------
(* _finish: the safe-clear of the trigger's range, whatever comes of it,     *)
(* then the next queued event or the end of the dream.                       *)

PurgeGuard == active # NoRun /\ journal[active].range = trig.range /\ ~activeDone

PurgeSkips ==
    /\ pc = "purge" /\ ~PurgeGuard
    /\ pc' = "finish"
    /\ UNCHANGED <<stores, trig, active, activeDone, run, fresh, left, outer, releasing, resumes,
                   guards, history, clean>>

(* merge_done is in the file before any row is marked.                       *)
MarkMergeDone ==
    /\ pc = "purge" /\ PurgeGuard
    /\ journal' = [journal EXCEPT ![active] = WithPhase(@, "merge_done")]
    /\ activeDone' = TRUE
    /\ pc' = "mark"
    /\ UNCHANGED <<stored, consolidated, graph, registered, finished, trig, active, run, fresh,
                   left, outer, releasing, resumes, guards, history, clean>>

ClearRows ==
    /\ pc = "mark"
    /\ consolidated' = consolidated \cup ClearIds(journal[active])
    /\ pc' = "finish"
    /\ UNCHANGED <<stored, graph, journal, registered, finished, trig, active, activeDone, run,
                   fresh, left, outer, releasing, resumes, guards, history, clean>>

(* The journal write or the row update failed: logged, and the dream ends.   *)
PurgeFails ==
    /\ pc \in {"purge", "mark"}
    /\ pc = "purge" => PurgeGuard
    /\ pc' = "finish"
    /\ clean' = FALSE
    /\ UNCHANGED <<stores, trig, active, activeDone, run, fresh, left, outer, releasing, resumes,
                   guards, history>>

FinishDream ==
    /\ pc = "finish"
    /\ \/ /\ trig.queued = <<>>
          /\ trig' = Finished(trig)
          /\ pc' = "report"
          /\ UNCHANGED <<run, outer>>
       \/ /\ trig.queued # <<>>
          /\ Launch([Finished(trig) EXCEPT !.queued = Tail(@)], Head(trig.queued))
          /\ outer' = Append(outer, run) /\ run' = NoRun
    /\ UNCHANGED <<stores, active, activeDone, fresh, left, releasing, resumes, guards,
                   history, clean>>

(* on_run_committed, best effort, and the outcome; the chain is over.        *)
Report ==
    /\ pc = "report"
    /\ finished' \in {finished, finished \cup ({run} \cap registered)}
    /\ EndChain
    /\ UNCHANGED <<stored, consolidated, graph, journal, registered, trig, active, activeDone,
                   fresh, left, releasing, resumes, guards, history, clean>>

-----------------------------------------------------------------------------
(* The process dies or stops at any point and boots again.  _build_capture   *)
(* adopts every file whose merge is not done, oldest first, and asks the     *)
(* trigger to resume each: the last adopted stays active, and resume is a    *)
(* no-op once the first put the trigger in flight.                           *)

(* Mutant of Unmerged: finished files are adopted too.                       *)
EveryFile == {r \in Run : Exists(journal[r])}

Unmerged == {r \in Run : Exists(journal[r]) /\ ~Done(journal[r])}

Resumed(t, first) == IF Boundary(journal[first]) = "merge"
                     THEN ResumeMerge(t, journal[first].range)
                     ELSE Resume(t, journal[first].range)

Restart(auto) ==
    /\ restarts < MaxRestarts
    /\ restarts' = restarts + 1
    /\ trig' = IF Unmerged = {} THEN NewTrigger(auto)
                                ELSE Resumed(NewTrigger(auto), Min(Unmerged))
    /\ active' = IF Unmerged = {} THEN NoRun ELSE Max(Unmerged)
    /\ activeDone' = FALSE
    /\ pc' = "idle" /\ run' = NoRun /\ fresh' = TRUE /\ left' = {} /\ outer' = <<>>
    /\ releasing' = FALSE /\ resumes' = Unmerged
    /\ strikes' = [w \in Window |-> 0] /\ parked' = {}
    /\ recovered' = Unmerged /\ clean' = TRUE
    /\ multi' = (multi \/ \E r, q \in Unmerged : r # q)
    /\ UNCHANGED <<stores, committed, covered>>

(* One step of a chain the worker thread is in.                              *)
ChainStep ==
    \/ CaptureSnapshot \/ CaptureFails \/ Register \/ RegisterFails
    \/ SkipParked \/ \E vote \in VoteModes : Dispatch(vote)
    \/ Reflect \/ SeatA \/ SeatB \/ Combine \/ ReflectFails \/ ChainRaises
    \/ MergeDefers \/ MergeBegins \/ \E c \in Chunk : WriteTriple(c)
    \/ MergeFails \/ MergeCommits
    \/ PurgeSkips \/ MarkMergeDone \/ ClearRows \/ PurgeFails \/ FinishDream \/ Report

(* One step of a job between two chains.                                     *)
JobStep ==
    \/ \E w \in Window, auto \in AutoModes : HandleEvent(w, auto)
    \/ \E w \in Window : HoldEvent(w)
    \/ \E auto \in AutoModes : BeginRelease(auto)
    \/ ReleaseNext \/ EndRelease \/ DreamOnce
    \/ \E r \in Run : StartResume(r)

Next ==
    \/ \E c \in Chunk : Store(c)
    \/ Activity
    \/ JobStep
    \/ ChainStep
    \/ \E auto \in AutoModes : Restart(auto)

Spec == Init /\ [][Next]_vars

-----------------------------------------------------------------------------
(* Properties.                                                               *)

(* A row is marked consolidated only when some run that handed it to the     *)
(* model wrote all of its triples back: the safe-clear (purge_snapshot)      *)
(* never hides a row whose knowledge is not in the graph, across failures,   *)
(* retries, overflow and restarts.  Holds while no boot met two journals.    *)
SafeClear == ~multi => consolidated \subseteq covered

(* merge_done in a file means that run's write-back is complete: every       *)
(* triple it was answered is in the graph, so nothing is lost when boot      *)
(* recovery passes the file over (recover_snapshots).                        *)
DoneIsWritten ==
    ~multi => \A r \in Run : Done(journal[r]) =>
        r \in committed /\ journal[r].result.triples \subseteq graph

(* A chain that still has work before the safe-clear never runs on a file    *)
(* whose merge is done: a committed merge is never executed again (NFR-2.3). *)
NoReplay ==
    ~multi /\ pc \in {"start", "reflect", "seat_a", "seat_b", "combine", "merge", "write"}
        => ~Done(journal[run])

(* When the thread is between chains and every recovery job has run, the     *)
(* trigger is not in flight: a stale in-flight mark would queue every later  *)
(* event behind a dream that does not exist.                                 *)
InFlightOwned == pc = "idle" /\ resumes = {} => ~trig.inFlight

(* A boot that found one unfinished run and met no failure leaves that run   *)
(* merge_done: recovery terminates (resume, resume_merge).                   *)
RecoveryTerminates ==
    (~multi /\ clean /\ pc = "idle" /\ resumes = {}) => \A r \in recovered : Done(journal[r])

(* What a run's file says is only ever added to: its scope never moves, its  *)
(* phases never go back, and a journaled result is never rewritten or lost,  *)
(* so a crash resumes at the boundary the run had reached.                   *)
Grows(f, g) == Exists(f) => /\ f.phases \subseteq g.phases
                            /\ g.range = f.range /\ g.chunks = f.chunks
                            /\ f.result.known => g.result = f.result
FilesGrow == \A r \in Run : Grows(journal[r], journal'[r])
JournalGrows == [][FilesGrow]_vars

(* The engine keeps the promise of Consolidation.                            *)
Promise == INSTANCE Consolidation WITH
    taken    <- {r \in Run : Exists(journal[r])},
    answered <- {r \in Run : journal[r].result.known},
    given    <- [r \in Run |-> journal[r].result.consumed],
    written  <- committed,
    closed   <- {r \in Run : Done(journal[r])},
    cleared  <- consolidated,
    confused <- multi
KeepsPromise == Promise!Spec

-----------------------------------------------------------------------------
(* Statements of the source's own comments that the code does not keep.      *)

(* resume_merge: the seam fires the safe-clear exactly once and the journal  *)
(* marks the dream complete, terminating recovery - for every recovered run. *)
RecoveryAlwaysTerminates ==
    (clean /\ pc = "idle" /\ resumes = {}) => \A r \in recovered : Done(journal[r])

(* purge_snapshot: exactly the rows the model consumed are marked; chunks    *)
(* the model never saw stay unmarked for a later dream.                      *)
OnlyConsumedCleared == consolidated \subseteq UNION {journal[r].result.consumed : r \in Run}

(* request: a failed capture never mutates state, nothing is persisted.      *)
FailedCaptureLeavesNothing ==
    [][(pc = "register" /\ pc' \notin {"register", "start"} /\ restarts' = restarts)
          => ~Exists(journal'[run])]_vars

(* _record_and_finalize: batched must survive until the merge boundary, where *)
(* it tells a genuine empty verdict, which is committed, from truncation.    *)
BatchedVerdictCommits ==
    pc = "merge" /\ journal[run].seatA.batched /\ journal[run].seatB.batched
        => ~Deferred(journal[run].result)
=============================================================================
