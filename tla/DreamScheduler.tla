---------------------------- MODULE DreamScheduler ----------------------------
(* DreamScheduler of dream/trigger.py for one profile: which window is due,  *)
(* the fingerprint that keeps a window from being emitted again, and the     *)
(* retry streak fed by the outcomes the dream thread reports.                *)
(*                                                                           *)
(* The profile's turns are numbered in capture order and every turn earns    *)
(* one point.  The dream thread runs the emitted windows in order; what      *)
(* happens inside a dream is DreamLifecycle's.  The provider is up: a tick   *)
(* that finds it down does nothing (DreamWorker has that case).              *)
EXTENDS Integers, Sequences, FiniteSets, SequencesExt

CONSTANTS
    MaxTurn,        \* turns captured over the behaviour
    Floor, Cap,     \* dream.floor_pool_points, dream.pool_forced_cap
    MaxAttempts,    \* DREAM_RETRY_MAX
    PoolFires,      \* the capture pool fires dreams of its own
    Silent          \* a snapshot capture may fail, which reports no outcome

ASSUME SchedulerAssumption ==
    /\ MaxTurn \in Nat /\ Floor \in Nat \ {0} /\ Cap \in Nat \ {0}
    /\ MaxAttempts \in Nat \ {0} /\ PoolFires \in BOOLEAN /\ Silent \in BOOLEAN

VARIABLES
    captured,       \* turns 1..captured are stored
    consolidated,   \* turns a dream has marked
    gauge,          \* points pending in the score pool
    old,            \* turns up to old have passed the hard deadline
    last,           \* _last: the fingerprint of the last emission
    retry,          \* _retry: the failure streak
    outcomes,       \* _outcomes: reports the next tick applies
    jobs,           \* dreams queued for the worker thread, the first one running
    \* history
    emitted,        \* windows emitted on a rule
    owed,           \* a dream failed since the last re-fire
    mute            \* a dream ended without a report

store == <<captured, consolidated, gauge, old>>
history == <<emitted, owed, mute>>
vars == <<store, last, retry, outcomes, jobs, history>>

Turns == 1..MaxTurn
Window == [lo: Turns, hi: Turns]
Reason == {"forced_cap", "floor_idle", "hard_deadline"}
NoWindow == [lo |-> 0, hi |-> 0]
NoPrint == [reason |-> "none", window |-> NoWindow]
NoRetry == [reason |-> "none", window |-> NoWindow, attempts |-> 0, next |-> "never", givenUp |-> FALSE]

TypeOK ==
    /\ captured \in 0..MaxTurn /\ consolidated \subseteq 1..captured
    /\ gauge \in 0..captured /\ old \in 0..captured
    /\ last \in [reason: Reason, window: Window] \cup {NoPrint}
    /\ retry \in [reason: Reason, window: Window, attempts: 1..MaxAttempts,
                  next: {"never", "backoff", "due"}, givenUp: BOOLEAN] \cup {NoRetry}
    /\ outcomes \in Seq([window: Window, ok: BOOLEAN])
    /\ jobs \in Seq([window: Window, by: {"rule", "retry", "pool"}])
    /\ emitted \subseteq Window /\ owed \in BOOLEAN /\ mute \in BOOLEAN

Init ==
    /\ captured = 0 /\ consolidated = {} /\ gauge = 0 /\ old = 0
    /\ last = NoPrint /\ retry = NoRetry /\ outcomes = <<>> /\ jobs = <<>>
    /\ emitted = {} /\ owed = FALSE /\ mute = FALSE

-----------------------------------------------------------------------------
(* The profile.                                                              *)

Capture ==
    /\ captured < MaxTurn
    /\ captured' = captured + 1 /\ gauge' = gauge + 1
    /\ UNCHANGED <<consolidated, old, last, retry, outcomes, jobs, history>>

TimePasses ==
    /\ old < captured /\ old' = captured
    /\ UNCHANGED <<captured, consolidated, gauge, last, retry, outcomes, jobs, history>>

(* The pool fires over the turns it pooled since its last drain.             *)
PoolEvent ==
    /\ PoolFires /\ gauge >= Floor
    /\ jobs' = Append(jobs, [window |-> [lo |-> captured - gauge + 1, hi |-> captured], by |-> "pool"])
    /\ gauge' = 0
    /\ UNCHANGED <<captured, consolidated, old, last, retry, outcomes, history>>

(* A backoff counts from the moment the failure was reported: a streak whose *)
(* time has passed is due.                                                   *)
Due(streak, elapsed) ==
    IF elapsed /\ streak.next = "backoff" THEN [streak EXCEPT !.next = "due"] ELSE streak

BackoffElapses ==
    /\ retry.next = "backoff"
    /\ retry' = Due(retry, TRUE)
    /\ UNCHANGED <<store, last, outcomes, jobs, history>>

-----------------------------------------------------------------------------
(* The tick, on the event loop.                                              *)

Pending == (1..captured) \ consolidated
PendingWindow == [lo |-> CHOOSE t \in Pending : \A u \in Pending : t <= u,
                  hi |-> CHOOSE t \in Pending : \A u \in Pending : t >= u]

(* eligibility: the verdicts it can reach, over every idle time.             *)
Verdicts ==
    IF Pending = {} THEN {"none"}
    ELSE IF gauge >= Cap THEN {"forced_cap"}
    ELSE {v \in {"floor_idle"} : gauge >= Floor}
         \cup (IF \E t \in Pending : t <= old THEN {"hard_deadline"} ELSE {"none"})

(* Mutant of Failed: a streak never reaches its end.                         *)
FailedForEver(streak, window) ==
    LET first == streak = NoRetry
    IN IF first /\ last = NoPrint THEN streak
       ELSE [reason |-> IF first THEN last.reason ELSE streak.reason, window |-> window,
             attempts |-> IF streak.attempts = MaxAttempts THEN MaxAttempts ELSE streak.attempts + 1,
             next |-> "backoff", givenUp |-> FALSE]

(* Mutant of Failed: the streak counts one attempt too many.                 *)
FailedLate(streak, window) ==
    LET first == streak = NoRetry
        attempts == (IF streak.givenUp THEN 0 ELSE streak.attempts) + 1
        over == attempts > MaxAttempts
    IN IF first /\ last = NoPrint THEN streak
       ELSE [reason |-> IF first THEN last.reason ELSE streak.reason, window |-> window,
             attempts |-> attempts, next |-> IF over THEN "never" ELSE "backoff", givenUp |-> over]

(* _record_failure: the streak after one more failure.  A profile that was   *)
(* never emitted has none, and a streak given up starts again.               *)
Failed(streak, window) ==
    LET first == streak = NoRetry
        attempts == (IF streak.givenUp THEN 0 ELSE streak.attempts) + 1
        over == attempts >= MaxAttempts
    IN IF first /\ last = NoPrint THEN streak
       ELSE [reason |-> IF first THEN last.reason ELSE streak.reason, window |-> window,
             attempts |-> attempts, next |-> IF over THEN "never" ELSE "backoff", givenUp |-> over]

(* _drain_outcomes: every report since the last tick, in order.              *)
Applied == FoldLeft(LAMBDA streak, o : IF o.ok THEN NoRetry ELSE Failed(streak, o.window), retry, outcomes)

(* The rule's emission: none for the fingerprint of the last one.            *)
Fresh(verdict) == verdict # "none" /\ last # [reason |-> verdict, window |-> PendingWindow]
Emission(verdict) == IF Fresh(verdict) THEN <<[window |-> PendingWindow, by |-> "rule"]>> ELSE <<>>

(* Mutant of Waiting: the re-fired streak is not told to wait.               *)
WaitingNever(streak) == streak

(* _retry_due: a window whose backoff elapsed is re-fired, and its streak    *)
(* waits for the next outcome.                                               *)
Refire(streak) == IF streak.next = "due" THEN <<[window |-> streak.window, by |-> "retry"]>> ELSE <<>>
Waiting(streak) == IF streak.next = "due" THEN [streak EXCEPT !.next = "never"] ELSE streak

(* The reports are drained first and the streak they leave is looked at in   *)
(* the same tick: a failure reported long enough ago is re-fired at once.    *)
Tick ==
    \E verdict \in Verdicts, elapsed \in BOOLEAN : LET streak == Due(Applied, elapsed) IN
        /\ last' = IF Fresh(verdict) THEN [reason |-> verdict, window |-> PendingWindow] ELSE last
        /\ gauge' = IF Fresh(verdict) THEN 0 ELSE gauge
        /\ emitted' = IF Fresh(verdict) THEN emitted \cup {PendingWindow} ELSE emitted
        /\ jobs' = jobs \o Emission(verdict) \o Refire(streak)
        /\ retry' = Waiting(streak)
        /\ owed' = (owed /\ Refire(streak) = <<>>)
        /\ outcomes' = <<>>
        /\ UNCHANGED <<captured, consolidated, old, mute>>

-----------------------------------------------------------------------------
(* The dream thread.                                                         *)

(* Mutant of Commits: a dream that commits reports nothing.                  *)
CommitsSilently ==
    /\ jobs # <<>> /\ jobs' = Tail(jobs)
    /\ consolidated' = consolidated \cup (Head(jobs).window.lo..Head(jobs).window.hi)
    /\ UNCHANGED <<captured, gauge, old, last, retry, outcomes, history>>

(* The dream commits: its window is consolidated.                            *)
Commits ==
    /\ jobs # <<>> /\ jobs' = Tail(jobs)
    /\ consolidated' = consolidated \cup (Head(jobs).window.lo..Head(jobs).window.hi)
    /\ outcomes' = Append(outcomes, [window |-> Head(jobs).window, ok |-> TRUE])
    /\ UNCHANGED <<captured, gauge, old, last, retry, history>>

(* A reflect, a merge or a parked window fails: every one of them reports.   *)
DreamFails ==
    /\ jobs # <<>> /\ jobs' = Tail(jobs)
    /\ outcomes' = Append(outcomes, [window |-> Head(jobs).window, ok |-> FALSE])
    /\ owed' = TRUE
    /\ UNCHANGED <<store, last, retry, emitted, mute>>

(* The snapshot request fails: _launch degrades the trigger, nothing reports.*)
CaptureFails ==
    /\ Silent /\ jobs # <<>> /\ jobs' = Tail(jobs)
    /\ mute' = TRUE
    /\ UNCHANGED <<store, last, retry, outcomes, emitted, owed>>

Next ==
    \/ Capture \/ TimePasses \/ PoolEvent \/ BackoffElapses \/ Tick
    \/ Commits \/ DreamFails \/ CaptureFails

Spec == Init /\ [][Next]_vars

(* The loop ticks at its cadence, clocks run, and the thread ends each dream.*)
Fairness ==
    /\ WF_vars(Tick) /\ WF_vars(TimePasses) /\ WF_vars(BackoffElapses)
    /\ WF_vars(Commits \/ DreamFails \/ CaptureFails)
FairSpec == Spec /\ Fairness

-----------------------------------------------------------------------------
(* Properties.                                                               *)

Queued(who) == {i \in DOMAIN jobs : jobs[i].by = who}

(* One re-fire per failure: whatever the origin of the outcomes and however  *)
(* a tick groups them, between two re-sends a dream failed.                  *)
OneRefirePerFailure ==
    [][Cardinality(Queued("retry")') > Cardinality(Queued("retry")) => owed]_vars

(* A streak that waits for an outcome has one on its way, as long as every   *)
(* dream reported: otherwise nothing would ever move it again.               *)
StreakAwaitsSomething ==
    retry # NoRetry /\ ~retry.givenUp /\ retry.next = "never" =>
        Queued("retry") # {} \/ outcomes # <<>> \/ mute

(* A streak ends: by a dream that commits or by giving up, as long as every  *)
(* dream reports.                                                            *)
StreakSettles == retry # NoRetry ~> retry = NoRetry \/ retry.givenUp \/ mute

-----------------------------------------------------------------------------
(* Statements of the source's own comments that the code does not keep.      *)

(* The same window is never emitted again while its dream is queued or runs. *)
WindowOnceInFlight ==
    \A i, j \in Queued("rule") : jobs[i].window = jobs[j].window => i = j

(* A busy worker never has two re-fires stacked.                             *)
NeverStacked == Cardinality(Queued("retry")) <= 1

(* Only windows the scheduler emitted are re-fired.                          *)
RefiresOwnWindows == \A i \in Queued("retry") : jobs[i].window \in emitted

(* An emitted window is consolidated in the end, unless its streak gave up.  *)
NothingSitsForEver ==
    \A w \in Window : w \in emitted ~> (w.lo..w.hi \subseteq consolidated \/ retry.givenUp)
=============================================================================
