---------------------------- MODULE DreamTrigger ----------------------------
(* The dream state machine of one profile: dream/trigger.py, DreamTrigger.   *)
(*                                                                           *)
(* The trigger's record is a value; every method of the class is an operator *)
(* from the record before the call to the record after it.  DreamLifecycle   *)
(* holds the record in a variable and calls the operators where the pipeline *)
(* and the worker call the methods.  Profiles never share a record (D5), so  *)
(* one record is the whole state of one profile.                             *)
EXTENDS TurnWindow, Sequences

DreamState == {"IDLE", "ACCUMULATING", "TRIGGERED", "DREAMING", "MERGING", "INTERRUPTED"}

(* _Profile, with the trigger-wide auto flag.  SNAPSHOTTING is entered only  *)
(* by a snapshotter whose request returns before on_ready; FileSnapshotter   *)
(* calls on_ready inside request, so the daemon never enters it.             *)
Trigger == [state: DreamState, inFlight: BOOLEAN, range: Window \cup {NoWindow},
            queued: Seq(Window), manual: Seq(Window), deferred: Seq(Window),
            auto: BOOLEAN]

NewTrigger(auto) ==
    [state |-> "IDLE", inFlight |-> FALSE, range |-> NoWindow,
     queued |-> <<>>, manual |-> <<>>, deferred |-> <<>>, auto |-> auto]

SetAutoTrigger(t, enabled) == [t EXCEPT !.auto = enabled]

-----------------------------------------------------------------------------
(* Intake: where an event is held.                                           *)

(* A dream is running for the profile: deliver queues, resume is a no-op.    *)
Busy(t) == t.inFlight \/ t.state \notin {"IDLE", "ACCUMULATING"}

HoldManual(t, w)   == [t EXCEPT !.manual   = Append(@, w)]
HoldQueued(t, w)   == [t EXCEPT !.queued   = Append(@, w)]
HoldDeferred(t, w) == [t EXCEPT !.deferred = Append(@, w)]

(* defer_provider_event: manual-first holds win over the provider hold.      *)
DeferProviderEvent(t, w) == IF t.auto THEN HoldDeferred(t, w) ELSE HoldManual(t, w)

(* The oldest deferred event leaves the provider hold.                       *)
TakeDeferred(t) == [t EXCEPT !.deferred = Tail(@)]

(* dream_once: the oldest pending-manual event, else the oldest overflow.    *)
HasManualWork(t) == t.manual # <<>> \/ t.queued # <<>>
OnceWindow(t) == IF t.manual # <<>> THEN Head(t.manual) ELSE Head(t.queued)
TakeOnce(t) == IF t.manual # <<>> THEN [t EXCEPT !.manual = Tail(@)]
                                  ELSE [t EXCEPT !.queued = Tail(@)]

-----------------------------------------------------------------------------
(* The life of one dream.                                                    *)

(* Mutant of Launched: the state waits for an on_ready that has been called. *)
LaunchedWaiting(t, w) == [t EXCEPT !.state = "SNAPSHOTTING", !.inFlight = TRUE, !.range = w]

Launched(t, w) == [t EXCEPT !.state = "TRIGGERED", !.inFlight = TRUE, !.range = w]

(* Mutant of Degraded: the failed launch keeps its in-flight mark.           *)
DegradedInFlight(t) == [t EXCEPT !.state = "ACCUMULATING", !.range = NoWindow]

(* A failed request or a failed dream: back to ACCUMULATING, nothing purged. *)
Degraded(t) == [t EXCEPT !.state = "ACCUMULATING", !.inFlight = FALSE, !.range = NoWindow]

OnSnapshotReady(t) == IF t.state = "TRIGGERED" THEN [t EXCEPT !.state = "DREAMING"] ELSE t

OnReflectComplete(t) ==
    IF t.state \in {"DREAMING", "INTERRUPTED"} \/ (t.state = "ACCUMULATING" /\ t.inFlight)
    THEN [t EXCEPT !.state = "MERGING"] ELSE t

(* on_merge_committed finishes the dream only from these states.             *)
FinishesOnMerge(t) == \/ t.state \in {"MERGING", "INTERRUPTED"}
                      \/ t.state = "ACCUMULATING" /\ t.inFlight

(* The part of _finish between the safe-clear and the next launch.           *)
Finished(t) == [t EXCEPT !.state = "IDLE", !.inFlight = FALSE, !.range = NoWindow]

OnDreamFailed(t) == IF t.inFlight THEN Degraded(t) ELSE t

Resume(t, w) ==
    IF Busy(t) THEN t ELSE [t EXCEPT !.state = "DREAMING", !.inFlight = TRUE, !.range = w]

(* Mutant of ResumeMerge: the dream is put back before its merge.            *)
ResumeMergeDreaming(t, w) ==
    IF Busy(t) THEN t ELSE [t EXCEPT !.state = "DREAMING", !.inFlight = TRUE, !.range = w]

ResumeMerge(t, w) ==
    IF Busy(t) THEN t ELSE [t EXCEPT !.state = "MERGING", !.inFlight = TRUE, !.range = w]

(* notify_activity: the 0-latency interruption seam.                         *)
NotifyActivity(t) ==
    CASE t.state = "IDLE"                   -> [t EXCEPT !.state = "ACCUMULATING"]
      [] t.state \in {"DREAMING", "MERGING"} -> [t EXCEPT !.state = "INTERRUPTED", !.inFlight = TRUE]
      [] t.state = "INTERRUPTED"            -> [t EXCEPT !.state = "ACCUMULATING"]
      [] OTHER                              -> t
=============================================================================
