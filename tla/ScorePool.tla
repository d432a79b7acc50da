------------------------------ MODULE ScorePool ------------------------------
(* The score pool of one profile: capture/pool.py over the gauge row of      *)
(* storage/drivers/sqlite_meta.py, and the scheduler tick that reads and     *)
(* drains the same gauge (dream/trigger.py).                                 *)
(*                                                                           *)
(* Points are told apart by the turn that earned them, so a gauge is a set   *)
(* of turns and its balance the sum of their points.  add_points holds the   *)
(* pool's lock on the capture drain lane; it is cut at its two store writes, *)
(* because the scheduler reads the row without the lock and the process may  *)
(* die between them.                                                         *)
EXTENDS Integers, Sequences, FiniteSets, FiniteSetsExt

CONSTANTS
    Turn,           \* scored turns
    Session,        \* Session[t]: the session of t
    Index,          \* Index[t]: its turn_index, counted from 0 in its session
    Points,         \* Points[t]: its S value
    Threshold,      \* dream.floor_pool_points
    ForcedCap,      \* dream.pool_forced_cap
    CreditMayFail,  \* pool_credit may raise
    DrainMayFail,   \* pool_drain may raise
    SchedulerOn,    \* the scheduler ticks beside the capture lane
    MaxRestarts,
    MaxEvents       \* events over the behaviour: a drain that keeps failing re-emits

ASSUME PoolAssumption ==
    /\ IsFiniteSet(Turn)
    /\ Index \in [Turn -> Nat] /\ Points \in [Turn -> Nat]
    /\ Threshold \in Nat \ {0} /\ ForcedCap \in Nat \ {0}
    /\ DOMAIN Session = Turn /\ MaxRestarts \in Nat /\ MaxEvents \in Nat
    /\ CreditMayFail \in BOOLEAN /\ DrainMayFail \in BOOLEAN /\ SchedulerOn \in BOOLEAN

VARIABLES
    \* the process
    mem,        \* the in-memory ledger: turns pooled and their range
    quiet,      \* since last_add: none (last_add is None), recent, or idle
    ready,      \* event_gate: the dream route accepts dreams
    pc,         \* where the lane is in add_points, which holds the lock
    wasIdle,    \* the idle window had passed when the turn was added
    firing,     \* the event it is firing
    seen,       \* what the scheduler tick read and has not drained yet
    \* the store
    row, filed, \* the pending gauge; the points in the lifetime ledger
    \* history
    added,      \* turns add_points was called for
    credited,   \* turns whose credit reached the row
    events,     \* events handed to the sink or emitted, in order
    broken,     \* a store call failed since the last boot
    orphaned,   \* turns left in the row by a drain that raised after the reset, or
                \* by a boot that took its watermark for none
    restarts

process == <<mem, quiet, pc, wasIdle, firing, seen>>
history == <<added, credited, events, broken, orphaned, restarts>>
vars == <<process, ready, row, filed, history>>

Gauge == [turns: SUBSET Turn, start: Nat, end: Nat]
Event == [by: {"pool", "scheduler"}, gauge: Gauge]

(* Mutant of EmptyGauge: an empty range ends before turn 0.                  *)
EmptyGaugeBeforeZero == [turns |-> {}, start |-> 0, end |-> -1]

EmptyGauge == [turns |-> {}, start |-> 0, end |-> 0]
Balance(turns) == MapThenSumSet(LAMBDA t : Points[t], turns)
Nothing == [on |-> FALSE, turns |-> {}]

TypeOK ==
    /\ mem \in Gauge /\ row \in Gauge /\ firing \in Gauge /\ filed \in SUBSET Turn
    /\ quiet \in {"none", "recent", "idle"} /\ ready \in BOOLEAN
    /\ pc \in {"free", "credit", "decide", "drain", "sink"}
    /\ wasIdle \in BOOLEAN
    /\ seen \in [on: BOOLEAN, turns: SUBSET Turn]
    /\ added \in SUBSET Turn /\ credited \in SUBSET Turn
    /\ events \in Seq(Event)
    /\ broken \in BOOLEAN /\ orphaned \in SUBSET Turn /\ restarts \in Nat

Init ==
    /\ mem = EmptyGauge /\ quiet = "none" /\ ready = TRUE
    /\ pc = "free" /\ wasIdle = FALSE /\ firing = EmptyGauge
    /\ seen = Nothing
    /\ row = EmptyGauge /\ filed = {}
    /\ added = {} /\ credited = {} /\ events = <<>> /\ broken = FALSE /\ orphaned = {}
    /\ restarts = 0

-----------------------------------------------------------------------------
(* Mutant of Pooled: every credit starts the range again.                    *)
PooledRestarts(g, t) == [turns |-> g.turns \cup {t}, start |-> Index[t], end |-> Index[t]]

(* The ledger after one more turn: an empty gauge starts a range, a running  *)
(* one keeps its start and moves its end.                                    *)
Pooled(g, t) ==
    IF Balance(g.turns) = 0
    THEN [turns |-> {t}, start |-> Index[t], end |-> Index[t]]
    ELSE [turns |-> g.turns \cup {t}, start |-> g.start,
          end |-> IF Index[t] > g.end THEN Index[t] ELSE g.end]

(* add_points up to the credit.  A session's turns are scored in order.      *)
AddPoints(t) ==
    /\ pc = "free" /\ t \notin added
    /\ \A u \in Turn : Session[u] = Session[t] /\ Index[u] < Index[t] => u \in added
    /\ added' = added \cup {t}
    /\ mem' = Pooled(mem, t)
    /\ wasIdle' = (quiet = "idle") /\ quiet' = "recent"
    /\ pc' = "credit"
    /\ UNCHANGED <<ready, firing, seen, row, filed, credited, events, broken, orphaned, restarts>>

(* pool_credit: the row is overwritten with the ledger, not added to.        *)
Credit ==
    /\ pc = "credit"
    /\ row' = mem /\ credited' = credited \cup mem.turns
    /\ pc' = "decide"
    /\ UNCHANGED <<mem, quiet, ready, wasIdle, firing, seen, filed, added, events, broken,
                   orphaned, restarts>>

(* A store call raised: the lock is released, the ledger stays as it is.     *)
Raise ==
    /\ pc' = "free" /\ broken' = TRUE
    /\ UNCHANGED <<mem, quiet, ready, wasIdle, firing, seen, row, filed, added, credited,
                   events, restarts>>

CreditFails == CreditMayFail /\ pc = "credit" /\ Raise /\ UNCHANGED orphaned

Fires == ready /\ \/ Balance(mem.turns) >= ForcedCap
                  \/ Balance(mem.turns) >= Threshold /\ wasIdle

(* The gate and both thresholds; a fired ledger is reset before its drain.   *)
Decide ==
    /\ pc = "decide"
    /\ \/ /\ ~Fires
          /\ pc' = "free" /\ UNCHANGED <<mem, quiet, firing>>
       \/ /\ Fires
          /\ firing' = mem /\ mem' = EmptyGauge /\ quiet' = "none"
          /\ pc' = "drain"
    /\ UNCHANGED <<ready, wasIdle, seen, row, filed, added, credited, events, broken, orphaned, restarts>>

(* pool_drain, one transaction: the row's balance moves to the ledger table; *)
(* its watermark columns stay.                                               *)
MoveGauge == filed' = filed \cup row.turns /\ row' = [row EXCEPT !.turns = {}]

(* Mutant of Drain: the gauge is filed but its balance is not zeroed.        *)
DrainKeepsBalance ==
    /\ pc = "drain"
    /\ filed' = filed \cup row.turns /\ row' = row
    /\ pc' = "sink"
    /\ UNCHANGED <<mem, quiet, ready, wasIdle, firing, seen, added, credited, events, broken,
                   orphaned, restarts>>

Drain ==
    /\ pc = "drain"
    /\ MoveGauge
    /\ pc' = "sink"
    /\ UNCHANGED <<mem, quiet, ready, wasIdle, firing, seen, added, credited, events, broken,
                   orphaned, restarts>>

(* The ledger was reset already: the row's points wait for no one.           *)
DrainFails ==
    /\ DrainMayFail /\ pc = "drain" /\ Raise
    /\ orphaned' = orphaned \cup row.turns

Deliver ==
    /\ pc = "sink"
    /\ events' = Append(events, [by |-> "pool", gauge |-> firing])
    /\ pc' = "free"
    /\ UNCHANGED <<mem, quiet, ready, wasIdle, firing, seen, row, filed, added, credited,
                   broken, orphaned, restarts>>

-----------------------------------------------------------------------------
(* The scheduler tick: eligibility reads the row without the pool's lock,    *)
(* then drains through the pool, which takes it.                             *)

(* floor_idle and forced_cap; the store's idle time is the environment's.    *)
TickReads ==
    /\ SchedulerOn /\ ready /\ ~seen.on /\ Len(events) < MaxEvents
    /\ Balance(row.turns) >= Threshold
    /\ seen' = [on |-> TRUE, turns |-> row.turns]
    /\ UNCHANGED <<mem, quiet, ready, pc, wasIdle, firing, row, filed, history>>

(* hard_deadline: due whatever the balance; the event claims no points.      *)
TickPastDeadline ==
    /\ SchedulerOn /\ ready /\ ~seen.on /\ Len(events) < MaxEvents
    /\ seen' = [on |-> TRUE, turns |-> {}]
    /\ UNCHANGED <<mem, quiet, ready, pc, wasIdle, firing, row, filed, history>>

Emitted == IF seen.turns = {} THEN events
           ELSE Append(events, [by |-> "scheduler", gauge |-> [EmptyGauge EXCEPT !.turns = seen.turns]])

(* _drain_fired_points and _emit: the filed amount is not looked at.         *)
TickDrains ==
    /\ seen.on /\ pc = "free"
    /\ MoveGauge /\ mem' = EmptyGauge /\ quiet' = "none"
    /\ events' = Emitted /\ seen' = Nothing
    /\ UNCHANGED <<ready, pc, wasIdle, firing, added, credited, broken, orphaned, restarts>>

(* A failed drain leaves both ledgers, and never blocks the emission.        *)
TickDrainFails ==
    /\ DrainMayFail /\ seen.on /\ pc = "free"
    /\ events' = Emitted /\ seen' = Nothing /\ broken' = TRUE
    /\ UNCHANGED <<mem, quiet, ready, pc, wasIdle, firing, row, filed, added, credited, orphaned, restarts>>

-----------------------------------------------------------------------------
TimePasses ==
    /\ quiet = "recent" /\ quiet' = "idle"
    /\ UNCHANGED <<mem, ready, pc, wasIdle, firing, seen, row, filed, history>>

ProviderFlips ==
    /\ ready' = ~ready
    /\ UNCHANGED <<process, row, filed, history>>

(* Mutant of Restored: no balance is restored.                               *)
RestoredNever(r) == EmptyGauge

(* restore, from what pool_states reads back: a watermark that ends at turn  *)
(* 0 counts as none.                                                         *)
Restored(r) == IF Balance(r.turns) <= 0 \/ r.end = 0 THEN EmptyGauge ELSE r

Restart ==
    /\ restarts < MaxRestarts /\ restarts' = restarts + 1
    /\ mem' = Restored(row) /\ quiet' = "none"
    /\ pc' = "free" /\ wasIdle' = FALSE /\ firing' = EmptyGauge
    /\ seen' = Nothing /\ broken' = FALSE
    /\ orphaned' = IF row.end = 0 THEN orphaned \cup row.turns ELSE orphaned
    /\ UNCHANGED <<ready, row, filed, added, credited, events>>

Next ==
    \/ \E t \in Turn : AddPoints(t)
    \/ Credit \/ CreditFails \/ Decide \/ Drain \/ DrainFails \/ Deliver
    \/ TickReads \/ TickPastDeadline \/ TickDrains \/ TickDrainFails
    \/ TimePasses \/ ProviderFlips \/ Restart

Spec == Init /\ [][Next]_vars

-----------------------------------------------------------------------------
(* Properties.                                                               *)

Of(i) == events[i].gauge.turns
FiredBy(who) == {i \in DOMAIN events : events[i].by = who}

(* Once add_points handed an event to the sink its points are in the         *)
(* lifetime ledger and in neither gauge, whatever failed since and however   *)
(* often the daemon restarted: no dream the pool launches re-fires them.     *)
NeverRefired ==
    \A i \in FiredBy("pool") : Of(i) \subseteq filed /\ Of(i) \cap (row.turns \cup mem.turns) = {}

(* A point the row was credited with is pending in the row or filed, unless  *)
(* it was in the row when the lane's drain raised, or when a boot found a    *)
(* range that ends at turn 0: credits, drains of both callers, failed        *)
(* credits and other restarts move points, they never drop one.              *)
NoPointDropped == \A t \in credited : Points[t] > 0 => t \in row.turns \cup filed \cup orphaned

(* The range of a pool event covers every turn whose points fired it (the    *)
(* dream snapshots exactly that range).                                      *)
EventCoversItsTurns ==
    \A i \in FiredBy("pool") : \A t \in Of(i) :
        Points[t] > 0 => events[i].gauge.start <= Index[t] /\ Index[t] <= events[i].gauge.end

-----------------------------------------------------------------------------
(* Statements of the source's own comments that the code does not keep.      *)

(* The row mirrors the ledger whenever the lock is free and no store call    *)
(* failed since the boot, so a restart can restore the balance: not when the *)
(* balance began with a turn numbered 0.                                     *)
Mirrored == pc = "free" /\ ~broken => mem.turns = row.turns

(* The same points never trigger twice (DreamScheduler.eligibility).         *)
NoPointTwice == \A i, j \in DOMAIN events : i # j => Of(i) \cap Of(j) = {}
=============================================================================
