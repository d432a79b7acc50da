# mnemoseed-local: a verification project

MnemoSeed Local is a daemon that keeps an agent's memory on one machine. Host
plugins send it the events of a conversation; it cuts them into turns, scores
them, stores them, and now and then "dreams": it hands a window of stored turns
to a language model and writes the triples it is answered into a graph. What
must not happen is that evidence is lost, is marked as consolidated although no
model read it, or is consolidated again and again. Those guarantees do not
live in one function. They are kept, or not kept, by a trigger, a snapshot
journal, a worker thread, a scheduler, a score ledger, a capture lane, a
settings writer and a host plugin that fail, stop and restart independently.
This directory models those parts in TLA+, checks them with TLC and proves the
central invariants with TLAPS.

Paths below are relative to `src/src/mnemoseed_local/`.

Contents: 1 the system; 2 the modules; 3 how the modules correspond to the
code; 4 the runs; 5 fairness; 6 what is proved; 7 divergences; 8 what is not
modelled; 9 plan; 10 how to run.

## 1. The system

### 1.1 Components

| Component | Source | State it keeps | Operations | What makes it correct |
|---|---|---|---|---|
| Turn segmenter | `capture/segment.py` | open turn and turn count per session, settled sessions | ingest, flush, flush_all, settle | a turn closes once and its index is never used twice in a session |
| Capture pipelines | `capture/pipeline.py` | `_turns` and `_settled` of the buffer, `_stripped` (also the cursor) of the scorer | drain (strip, score, pool, write), prune_settled | every closed turn is scored once and stored; caches go with their session |
| Ingest API, idle sweeper | `daemon/ingest.py`, `daemon/idle_flush.py` | failure ledger of the sweeper, relay of fired events | /ingest, /flush, /session/end, run_once | an acknowledgement means applied; nothing waits for ever |
| Score pool | `capture/pool.py` over `storage/drivers/sqlite_meta.py` | in-memory balance and range per profile; the gauge row; the lifetime ledger | add_points, drain, restore | points are pending or filed, never both, never dropped; they fire once |
| Dream trigger | `dream/trigger.py` (`DreamTrigger`) | state, in-flight mark, range, three queues of events | handle_event, dream_once, resume(_merge), the pipeline's callbacks | one dream per profile; an in-flight mark has a dream behind it |
| Snapshots | `dream/snapshot.py` | one journal file per run, the active snapshot | request, journal rewrites, adopt, merge_done, purge_snapshot | a journal only grows; only rows the model read are marked |
| Reflect, combine | `dream/reflect.py`, `dream/combine.py` | none of their own: payloads in the journal | run, resume at a boundary | an answer is journaled once, with its marker |
| Merge | `dream/merge.py` | nodes of the graph | merge | a run is committed only if every triple was written |
| Dream pipeline | `dream/pipeline.py` | deferral counts, parked windows | run, outcome report | a window that only defers is parked, every attempt reports |
| Dream worker | `daemon/app.py` (`DreamWorker`) | job queue, offline backlog, consumer task, job in flight | submit_event, enqueue_resume, submit_dream_once, stop | no job is lost or run twice; callers are answered truthfully |
| Dream scheduler | `dream/trigger.py` (`DreamScheduler`) | last fingerprint, retry streak, queue of outcomes | tick, run_forever | one re-fire per failure; a streak ends |
| Provider readiness | `dream/readiness.py` | none kept between probes | is_ready | - |
| Drain lane, relay, lifespan | `daemon/app.py` | lane queue and thread; relay queue | drain, flush, startup, teardown | shutdown loses no turn |
| Reconciliation | `dream/nominate.py`, `consumer.py`, `adjudicate.py`, `ledger.py` | nominations, cursors, verdict ledger | scan, consume, adjudicate | a nomination is decided once |
| Decay | `decay/*.py` | weights and sweep cursor in the store | sweep, reinforce, rebuild | a sweep loses no reinforcement |
| Settings writer | `configwrite/*.py` | TOML file, version table, live config, generation | set, rollback, reconcile_boot | the three agree after any crash; an acknowledged value stays; linked keys stay linked |
| Console's settings page | `console/static/app.js` | the values shown, the generation they were read at | load, save under If-Match, toggle | a save replaces the value its reader saw |
| Stores | `storage/**` | SQLite tables, a graph, a vector table | one transaction per call | - |
| Retrieval | `retrieve/*.py` | none | rank and assemble | - |
| Memory API | `daemon/memory.py` | none | handlers over the stores | - |
| Models | `llm/**` | none | chat, embed | - |
| Runner, watchdog | `daemon/runner.py`, `daemon/watchdog.py`, ... | PID and state files | start, stop, watch | one daemon at a time |
| opencode plugin | `hosts/opencode/plugin.ts` | chain per session, requests in flight, fingerprints of replies; watermark cache; one watermark shard per process, on disk | hooks and bus events, post, reconcileSession, loadWatermarks, persistWatermarks and its two garbage collections | what the daemon refused is sent again; no reply is sent twice at a time; a mark is never lost |
| Gateway, other host hooks | `mcp_gateway/*`, `hosts/**` | short-lived processes | proxy, hooks, install | - |
| Instrument, evaluation, CLI, secrets, schema | `instrument/*`, `eval/*`, `cli.py`, `secrets/*`, `schema/*` | study ledger, key files | offline tools | - |

`PROJECT.json` lists each of them with its status and the reason.

### 1.2 Who calls whom

    plugin: event --> session chain --> reconcile (once) --> post, not awaited
        answer 2xx --> watermark; refused --> reconcile again at the next event
        idle, compaction --> persist: merge all shards, write own, reap the dead
    host plugin --HTTP--> ingest handlers --closed turns--> buffer
        handlers, idle sweeper, teardown --drain--> lane thread
        lane thread: strip, score --points--> ScorePool --event--> relay
        relay --on /session/end--> DreamWorker.submit_event
        DreamScheduler.tick (event loop) --event--> DreamWorker.submit_event
        dream_once (HTTP) --> DreamWorker.submit_dream_once
        boot: journals not merge_done --> adopt, DreamWorker.enqueue_resume
    DreamWorker consumer (event loop) --job--> one executor thread
        thread: DreamTrigger.handle_event -> FileSnapshotter.request
                -> DreamPipeline.run -> reflect -> merge -> on_merge_committed
                -> purge_snapshot -> next queued event (nested)
        DreamPipeline --outcome--> DreamScheduler (applied by its next tick)
    console, CLI --HTTP--> ConfigWriteService.set, rollback (one lock)
        set: config.toml, version table, live value; boot: load, reconcile each key

Four things run at once: the event loop (handlers, consumer, scheduler,
sweeper, teardown), the drain lane's thread, the dream worker's thread, and
whatever provider is on the other side. The loop and the lane share the turn
buffers; the scheduler and the lane share the gauge row; the dream thread and
the lane share the vector store; the dream thread and the scheduler share the
outcome queue. Outside the daemon, several plugin processes share one directory
of watermark files, and a console page shares the settings with whoever else
writes them.

### 1.3 What is hard

* A dream takes minutes and writes to four stores. A crash can fall between any
  two of its writes, and boot must tell from a file what is left to do.
* A row can be stored in a window that is being dreamed.
* The reflect pass may read only some of a window; the rest must be left for
  later, and "later" must not be for ever.
* A queued event starts its dream inside the merge callback of the one before.
* The provider is probed several times for one job and may change in between.
* Two ledgers of the same points, written one after the other, read by a third
  party without the lock.
* Handlers, sweeps and the shutdown drain the same sessions on a lane that
  reads buffer and cursor in two steps, while the loop prunes both.
* A setting is in three places, written one after the other; a crash or an
  exception falls between two of them, and the boot has to choose.
* Plugin processes merge, rewrite and reap each other's files with no lock and
  die without notice.
* A watermark moves with each acknowledgement, but what an outage left behind is
  replayed from the watermark.

`PROJECT.json`, "hazards", gives each at its line with the properties over it.

## 2. The modules

| Module | Models | Uses |
|---|---|---|
| `TurnWindow` | `TurnRange`: windows and which rows they cover | - |
| `DreamTrigger` | the trigger's record; one operator per method | `TurnWindow` |
| `DreamSnapshot` | journal files, answers, the combine, the safe-clear's rows | `TurnWindow` |
| `DreamLifecycle` | trigger + snapshotter + pipeline + reflect + merge on one thread, with the capture lane's stores, crashes and boots | `DreamTrigger`, `DreamSnapshot` |
| `Consolidation` | abstract: what the engine promises of evidence | - |
| `ScorePool` | `ScorePool`, the gauge row, the scheduler's drain | - |
| `DreamWorker` | queue, backlog, consumer, executor thread, stop | - |
| `DreamScheduler` | tick, fingerprint, streak, outcomes | - |
| `CaptureLanes` | segmenter, buffers, handlers, sweeper, lane thread, relay, teardown | - |
| `ConfigWrite` | file, version table, live configuration; set, rollback, boot; the page and its If-Match | - |
| `SettingsRegister` | abstract: what the settings promise, a durable register per key | - |
| `HookSession` | one session of the plugin: chain, posts, answers, reconciliation, watermark | - |
| `HookWatermarks` | the watermark files of several plugin processes | - |
| `MC_*` | small instances | their module |
| `DreamLifecycle_proofs`, `ScorePool_proofs`, `DreamWorker_proofs`, `DreamScheduler_proofs`, `CaptureLanes_proofs`, `ConfigWrite_proofs`, `HookWatermarks_proofs`, `HookSession_proofs` | theorems and proofs | their module, `TLAPS` |

Composition. `DreamLifecycle` is itself a composition: the trigger and the
journal are values with an operator per method, and every action of
`DreamLifecycle` calls all methods the code calls in that step. The other
modules cut the system at the calls in 1.2. `DreamWorker` treats a job as
something that runs, ends or raises, which is what `DreamLifecycle` says of a
chain. `DreamScheduler` sees a dream as a job that commits, fails with a report,
or ends with none. `CaptureLanes` hands turns and fired events on.
`ScorePool` is the part of the lane under the pool's lock, cut where the
scheduler or a crash can get in between. `HookSession` ends where `CaptureLanes`
begins, at the HTTP request, and sees the watermark files as one number that
outlives the process; that this number does not go back is what
`HookWatermarks` shows. One profile is modelled throughout:
trigger, pool, snapshotter and scheduler keep separate records per profile and
no operation touches two of them.

"Mutant of X" definitions stand beside the definition they alter and are used
by no action. Each is a plausible mistake (a lost guard, a swapped order, a
missing reset) that one of the properties has to notice; `PROJECT.json` pairs
them. They document what each property is sensitive to.

## 3. Correspondence with the code

`PROJECT.json`, "map", names the lines of every definition. The main
lines:

**DreamLifecycle.** Variables under "the stores" survive a boot; those under
"the process" do not. `journal[r]` is run `r`'s snapshot file, replaced as a
whole by `os.replace`, so a rewrite is one step. `pc` is where the worker thread
stands between two writes that survive a crash:

| pc | the code about to run |
|---|---|
| capture, register | `FileSnapshotter.request`: the file, then the `dream_runs` row |
| start | `on_ready` -> `DreamPipeline.run`: parked? which boundary? |
| reflect / seat_a, seat_b, combine | the single pass, or the two vote seats and their combine |
| merge, write | deferral of a truncated empty verdict; one triple after another |
| purge, mark | `on_merge_committed` -> `mark_merge_done`, then `purge_snapshot` |
| finish, report | `DreamTrigger._finish` (launches the next queued event), outcome report |

A nested dream pushes the outer run on `outer`. A triple is named by the row it
was distilled from; `graph` is the set of triples written. A model may answer
any set of triples over any rows it was handed (`SeatResults`).

**ScorePool.** Points carry the turn that earned them, so a balance is the sum
over a set and losing or doubling a point is visible. `add_points` is cut at its
two store calls: credit (overwrites the row with the ledger), decide (gate,
thresholds, reset), drain (one transaction), sink.

**DreamWorker.** The consumer task is cut at its awaits, the thread at the
start and the end of a job. `inflight` is the job the consumer awaits, `working`
the one the thread holds: a `stop` that gives up on a job forgets the first and
not the second, and the chain goes on. `provider` may change between any two
probes.

**DreamScheduler.** A tick applies every outcome since the last one, emits by
rule unless the fingerprint is the last one's, and re-fires a due streak; there
is no await in it, so it is one step. A backoff counts from the report of the
failure (`next_at = reported_at + interval`), not from the tick that applies it,
so the streak a tick has just re-armed may be due in that same tick (`Due`,
`elapsed`); otherwise `BackoffElapses` makes it due for a later one. Windows are
ranges of turn numbers.

**CaptureLanes.** A step of the loop is what runs between two awaits. The lane's
thread is cut where it reads the buffer, reads the cursor, scores a turn and
writes the batch. `Workload` says how many turns each session has, how many
drains may raise and whether the pool fires. `PruneCaches` and `AckEnd` are two
steps of one handler because the lane's thread can run between the two removals;
`LoopFree` keeps other loop steps out of the gap.

**ConfigWrite.** `op` is the write that holds the service's lock and `done` which
of the three copies it has changed: a set writes the file, then the version
(`set` patches before it records), a rollback the version first. `Fail` is an
exception between two of them, after which the daemon goes on with the lock
free; `Crash` may come anywhere. A boot loads the file (`Load`, which refuses a
broken link), then `ReconcileKey` takes the registry's keys in order, importing
one that has no version and otherwise letting the store win. Three keys stand for
the registry: the linked pair and a free one. An answer's values are
read before its generation (`ReadValues`, `ReadGeneration`), because the reading
routes take no lock. `SettingsRegister` is what this amounts to: a register per
key, whose value (`Restored`, what the next boot would make of file and versions)
the file decides until a boot has imported the key; after that one write at a time
does, in one step and at most once, and it is acknowledged only afterwards. Under
the refinement a set takes effect at `Record` and a rollback when it begins;
`PatchFile`, `Apply` and the page's steps are steps of no register.

**HookWatermarks.** One process has a cache, notes that came before the cache was
loaded, one load per session and one for the persist, and a persist that is a
loop over list, merge, write, followed by two collections of garbage. Reading a
directory and each file in it are steps of their own, in the order of names. The
shard is renamed into place, so the write is one step. Time passes in jumps of a
day or a week, the ages the two collections compare with, when no load or persist
is under way (each takes seconds).

**HookSession.** `chain` is the session's promise chain, `inflight` the posts
that are not awaited. A period is longer than the replay's overlap, so the
window of a replay is whole periods.

History variables (`committed`, `covered`, `multi`, `clean`; `added`,
`credited`, `orphaned`, `broken`; `lost`, `scored`, `covers`; `owed`, `mute`;
`acked`, `doubt`, `drift`, `strained`, `lapses`; `unmarked`, `spoilt`; ...)
record what happened for the properties and influence no action except where a
bound says so.

## 4. The runs

| Run | Checks | Bounds | States |
|---|---|---|---|
| `dream_core` | TypeOK, SafeClear, DoneIsWritten, NoReplay, InFlightOwned, RecoveryTerminates, JournalGrows, KeepsPromise (the refinement of Consolidation) | 2 rows; a narrow range over one and a wide range over both; 2 runs; 1 restart; parking after 1 deferral; at most 1 held event | 2.8 M |
| `dream_modes` | KeepsPromise | 1 row, 1 range, 2 runs, 1 restart; the two-seat vote; automatic or manual-first, changing at a boot; activity at any point; raised reflect passes | 2.0 M |
| `pool` | TypeOK, NeverRefired, NoPointDropped, EventCoversItsTurns | 4 turns of 3 points numbered from 0, floor 6, cap 9; 2 restarts; failing credits and drains; 3 events | 108 k |
| `worker` | TypeOK, EventsKept, ResumedOnce, HonestAnswers, RequestsAnswered | 2 journals, 2 events, 1 request, 3 provider changes, stop at any point; fair | 162 k |
| `scheduler` | TypeOK, StreakAwaitsSomething, OneRefirePerFailure, StreakSettles | 2 turns, floor 1, cap 2, 3 attempts, pool events, silent failures; fair | 32 k |
| `lanes` | TypeOK, ScoredOnce, NothingLostAtStop, AckMeansStored, TurnsPersist, RequestsAnswered | 2 sessions of 2 turns, or 1 with a raised drain and a pool that fires; one end and one flush each, any sweeps, shutdown, 3 drains queued; fair | 110 k |
| `watermarks` | TypeOK, MarksKept | 2 live processes, the shard of a dead one or the legacy file on disk; 1 session, 1 time; a crash, a day, a week; 1 follow-up cycle | 1.1 M |
| `hook` | OutagesCovered, OneReplyInFlight, TurnsArrive | 3 turns, one a reply; 2 periods, the daemon away in the first or not; 1 crash, 1 extra event; fair | 266 k |
| `config` | Converged, AckedInForce, LinkHeld, FreshSave, KeepsRegister (the refinement of SettingsRegister) | 2 writes or rollbacks, 2 boots, 1 hand edit, 1 exception, crashes anywhere | 2.2 M |
| `dream_two_journals` | RecoveryAlwaysTerminates is violated | as dream_core, parking after 2 | - |
| `config_restored` | NeverRefused is violated | 4 writes or rollbacks, 2 boots, no edit, no exception | - |
| `hook_leapfrogged` | NeverLeapfrogged is violated | 2 turns, one a reply; 2 periods; no crash, no extra event, no mixed answers | - |

Why these bounds are enough to be interesting. Two runs over two overlapping
ranges let an old run's journal, its snapshot and its range differ from the
current one's, and let a queued dream nest inside another; one restart falls at
every point of either. Two rows let an answer cover part of a window, and a row
arrive late. A single pass over two rows can overflow by one, so deferral and
parking occur. Four turns let the pool fire by the floor after an idle period
(2 turns), by the cap (3), and pool again after a fire; two restarts let a
restored balance be restored again. Two journals with three provider changes
let the provider go and come back while the second resume is queued, kept or
running. Three attempts let a streak count, give up and start again. Two
sessions let one session's end overlap the other's drain; two turns let a
drain read a prefix. Two live plugin processes can each read the dead one's shard
while the other reaps it, one of them may die with the fold only in memory, and
one time is enough because a lost mark shows as a lost maximum. Three turns over
two periods let an outage's turn be followed by one the daemon takes, and let the
replay meet the live event of a reply. Two writes let a page's save meet another
writer's between its two reads; two boots let a half-done write be reconciled and
the result be read again; the proofs of section 6 cover the rest.

Every bound is a CONSTANT used in a guard (`MaxRuns`, `MaxHeld`, `MaxRestarts`,
`MaxEvents`, `MaxFlips`, `MaxTurn`, `Repeats`, `MaxLane`, `MaxWrites`,
`MaxBoots`, `MaxEdits`, `MaxFailures`, `MaxTs`, `MaxPeriod`, `MaxCrashes`,
`MaxExtra`) or a component of `Workload` (`MaxTurns` is the most turns one
gives). Two of them cut behaviour rather than count something: `MaxHeld` (the
trigger's queues are unbounded in the code) and `MaxLane` (so is the lane).

Deadlock is checked in the `DreamLifecycle`, `ScorePool` and `HookSession` runs.
`DreamWorker`, `DreamScheduler`, `CaptureLanes`, `ConfigWrite` and
`HookWatermarks` may really stop: the daemon shuts down or is refused, the
bounded host or user has nothing more to say, every process has died. Their
configurations switch the check off.

Conditions in the properties are part of the statement:

* `~multi` (no boot has found two unfinished runs) in SafeClear, DoneIsWritten,
  NoReplay, RecoveryTerminates: the snapshotter keeps one active snapshot and
  the trigger one range, so the promise holds for one recovered run. Section 7
  shows that it does not for two.
* `clean` in RecoveryTerminates: nothing failed or deferred since the boot.
* `orphaned` in NoPointDropped: two things leave the row's points to nobody.
  `add_points` resets its ledger before a drain that may raise, and a boot takes
  a row whose range ends at turn 0 for an empty one. NoPointDropped says that
  these are the only ways to drop a point.
* `mute` in the scheduler's two streak properties: a snapshot request that fails
  reports no outcome, and nothing else lets a streak hang.
* `failures = 0` in ScoredOnce, NothingLostAtStop, TurnsPersist and `lost` in
  AckMeansStored: a drain that raises has moved its cursor.
* `drift` in Converged: the user rewrote `config.toml` since this boot's load, or
  an exception left it apart; `doubt` in AckedInForce: a write that was never
  acknowledged may be what boot restores.
* `strained` in LinkHeld: rollbacks, exceptions and hand edits do not
  cross-validate, or separate the copies; sets and crashes alone keep the link.
* `lapses` in FreshSave: the four ways a page's values may be older than its
  generation (the daemon restarted and counts again, the page renewed its
  generation but not its values, another write was under way while it read, an
  exception left a write half done).
* `spoilt` in OutagesCovered and TurnsArrive: the host's history could not be
  read, or a process died over an open request. `unmarked`: what the daemon had
  not taken when a process died that had never written a mark for the session;
  the next one finds no mark and skips the history. `AnswersMix = FALSE`: within
  one period the daemon takes requests or does not. Each of the three hides a loss
  the code meets, and two comments of `plugin.ts` deny it: `hook_leapfrogged` and
  section 7.
* `MergeMayFail = FALSE` in MarksKept: section 7 has the run without.
  `EarlyNotes` lets a note come before the session's load, as the tests do.
* `lanes` uses hosts that send one end and one flush for a session
  (`LateRequests = FALSE`: nothing follows the end). Section 7 has the run with
  late requests.
* Manual-first triggering (`AutoModes` holding FALSE), the vote, activity and
  raised passes are explored by `dream_modes`; that the other safety invariants
  hold in those modes too is what the theorems of section 6, stated for every
  value of the modes, add to the runs.
* `pool` numbers its turns from 0, as the segmenter does, in one session;
  section 7 has two sessions. `ChainMayRaise = FALSE` in InFlightOwned: section 7
  has the configuration without.

## 5. Fairness

* `DreamWorker`: the loop's ready steps and the thread's steps are weakly fair.
  The provider, the callers and the shutdown are not.
* `DreamScheduler`: the tick (its cadence), the passing of the backoff and of the
  deadline, and the end of the first queued dream. Not the pool, not capture,
  not success.
* `CaptureLanes`: the lane's thread, the continuation of a handler whose drain
  resolved, and the sweeper's tick over all idle sessions. Hosts owe nothing; a
  stop is never forced.
* `HookSession`: the tasks of the chain (the event loop runs them), the read of
  the host (it answers or times out), the answer to each post (`post` aborts at
  its timeout), the passing of time (strong: it needs a quiet moment, which
  events interrupt), and that a session is used again after all is quiet,
  because the plugin acts on events only. Not that a request succeeds while the
  daemon is away. `MaxPeriod` is the one in which it is back.
* `DreamLifecycle`, `ConfigWrite` and `HookWatermarks` state safety only. That a
  recovery job is reached is not claimed: a resume kept while the provider is
  offline starts only if some other job arrives (section 7).

## 6. What is proved

`DreamLifecycle_proofs` (for all rows, ranges, bounds and modes satisfying the
three assumptions of `DreamLifecycle` and the ones on windows in `TurnWindow`):

| Theorem | Statement |
|---|---|
| Inductive | Spec => []IInv |
| TypeCorrect | Spec => []TypeOK |
| SafeClearHolds | Spec => []SafeClear |
| DoneIsWrittenHolds | Spec => []DoneIsWritten |
| NoReplayHolds | Spec => []NoReplay |
| JournalOnlyGrows | Spec => JournalGrows |
| Refinement | Spec => KeepsPromise |
| InFlightIsOwned | ~ChainMayRaise => (Spec => []InFlightOwned) |
| RecoveryCompletes | Spec => []RecoveryTerminates |

`ScorePool_proofs` (for all turns, points, thresholds, failures, restarts and
schedules satisfying `PoolAssumption`): TypeCorrect, PoolInvariant (Spec =>
[]IInv), NeverRefiredHolds (Spec => []NeverRefired), NoneDropped (Spec =>
[]NoPointDropped), EventsCover (for any number of sessions, EventCoversItsTurns
in every behaviour where no turn from before a range joins it: Spec /\
[][JoinsWithin]_vars => []EventCoversItsTurns) and its corollary OneSessionCovers
(in a profile with one session the condition holds).

`DreamScheduler_proofs` (for all turns, thresholds and attempts satisfying
`SchedulerAssumption`): SchedulerSteady (Spec => []Steady), SchedulerTypes
(TypeOK), StreakNeverStuck (StreakAwaitsSomething), OneRefire (Spec =>
OneRefirePerFailure).

`CaptureLanes_proofs` (for all sessions, workloads, repeats and lane lengths
satisfying `LanesAssumption`): LanesSound (Spec => []Sound), LanesTypes (TypeOK),
AcksMeanStored (AckMeansStored), StopKeepsAll (NothingLostAtStop) and, when
`LateRequests = FALSE`, TurnsScoredOnce (ScoredOnce).

`ConfigWrite_proofs` (for all numbers of writes, boots, edits and failures, with
or without rollbacks): SettingsSound (Spec => []IInv), CopiesAgree (Converged),
AckedHolds (AckedInForce), LinkKept (LinkHeld), SavesAreFresh (FreshSave),
RegisterKept (Spec => KeepsRegister).

`HookWatermarks_proofs` (for all processes, sessions, times, files left behind,
spans and crashes satisfying the two assumptions): WatermarksSound (Spec =>
[]TypeOK) and, when `MergeMayFail = FALSE`, MarksAreKept (Spec => MarksKept).

`HookSession_proofs` (for all turns, replies, periods, crashes and repeated
events satisfying `SessionAssumption`): SessionSound (Spec => []Sound),
RepliesOnce (OneReplyInFlight) and, when `AnswersMix = FALSE`, NoHoles
(OutagesCovered).

`DreamWorker_proofs` (for all events, requests, journals and provider changes
satisfying `JobsAssumption`): WorkerSound (Spec => []IInv), WorkerTypes
(TypeOK), ResumesRunOnce (ResumedOnce), AnswersHonest (HonestAnswers),
NoEventLost (EventsKept), TicksAfterRecovery (Spec => RecoveryFirst: what
`run_forever` does, which no run checks; a comment and a test say otherwise, section
7).

The argument for the dream engine. SafeClear is not inductive: the clear is
fired by the trigger for *its* range on the snapshotter's *active* snapshot, two
pieces of state written by different objects at different times. `OwnedOK` says
that while no boot met two journals they belong to the run the thread is in
whenever the trigger could still reach the clear. `ChainOK` says what the
thread's position implies of that run's file (which phases are in it, that an
answer is journaled, which triples are still unwritten). `FilesOK` ties phases
and payload in one file: `merge_done` only after an answer, seat A before
seat B. `CommittedOK` says a committed run's triples are in the graph and its
rows in `covered`, and that a file that says `merge_done` belongs to a committed
run. `OuterOK` says the runs a nested dream waits in have all committed. Each
group of steps has its lemma (QuietSteps, AskingSteps, CaptureStep, MarkStep,
FinishStep, RestartStep, ...), one per conjunct a step can disturb; NextIInv
collects them. JournalOnlyGrows and Refinement use the invariant in both states
of a step: JournalGrows says of a run's scope and of its phases what KeepsPromise says
of its answer and of merge_done.

The argument for the dream in flight. InFlightOwned speaks only of an idle
thread; `TriggerOK` says for every position of the thread that a dream in flight
has a run that will end it, the one in the chain or a recovery job still
waiting. A run whose answer is journaled goes straight to its merge without
calling `on_reflect_complete`, so it ends the dream only if the trigger already
stands where `on_merge_committed` finishes (`Owes`). With several recovered
runs, one may commit without ending the dream; then the run the boot put in
flight is still waiting. `Recovering` says of the one run of a clean boot that
trigger, snapshotter and thread all point at it until the safe-clear, whose
guard therefore holds: `on_merge_committed` cannot pass it by.

The argument for the pool. NeverRefired needs: a filed point is in neither gauge
(`Apart`); while the lane is between its reset and its delivery, the points it
fires are in the row or already filed and not in the ledger (`Underway`); every
pool event's points are filed (`Told`); and every point anywhere was added, so
that a turn added now is new (`Known`). NoPointDropped needs that the row holds
what the ledger holds whenever the next credit would overwrite it (`Held`), which
fails exactly where `orphaned` grows: the lane past its reset, and a boot that
takes a range that ends at turn 0 for none. A balance is a sum over a set, so this
needs that a balance of 0 means no turn with points. EventCoversItsTurns holds of an
event if it holds of the gauges (`Ranges`): a ledger moves its end with each turn but
keeps the start of its first one, so it covers all it holds as long as no turn joins
it from before that start (`JoinsWithin`, a condition on the behaviour). Turns of one
session are added in the order of their indexes (`InOrder`), which gives the
condition; over two sessions it is not given, and section 7 has the counterexample.

The argument for the scheduler. A tick folds every report since the last one
into the streak. `Within` says that what it computes is a streak that has an
attempt left or has given up, over turns that exist; `RefireOwed` that a streak
waits for a re-fire, or has one due, only after a failure nobody re-fired; with
StreakAwaitsSomething they are inductive (`Steady`). The fold is unfolded to the
library's definition, StreaksExist shows that it is defined, and AppliedIs that
the streak after it is the last report's: cleared by a commit, counting by a
failure. So one tick re-fires once, whatever it groups, and when it re-fires the
streak it has just re-armed, the failure that re-armed it is the one that is owed.

The argument for the capture lane. Each turn is open, buffered, in the batch
that is scored, or stored, and `BufferOK` says which: a closed turn is saved or in
the batch, or it is in its buffer ahead of the cursor. `CursorOK` ties the drain
that runs to the cursor it read, unless the session is over and was pruned
meanwhile. `RequestOK` and `CoversOK` say that what a request covers is saved by
the time it is told so, since its drain reaches those turns; `StopOK` that after
the teardown's flush each turn is saved or has a drain in the lane. ScoredOnce
needs more, and is false for a host that goes on after an end: `EndOK` says that
the drain of a session's end is its last, `Once` that a turn ahead of the cursor
has not been scored.

The argument for the settings. None of the four safety properties is inductive, because
a write is under way for several steps. `OpOK` says which sets of copies a write
of each kind can have changed; `CopiesOK` says of each copy whether it holds the
new value or still agrees with the others, during a write and during a boot;
`AckedOK` ties the newest version to the last acknowledgement or to the values
in doubt. LinkHeld needs what the *next* boot will make of the file and the
table, before there is one: `LinkOK` says that both the file and the restored
configuration satisfy the link and that they differ in at most one of the two
keys, so every prefix of a reconciliation does too. `PageOK` says that a page
whose generation is current shows what is in force, up to the write about to
move it; FreshSave follows at the step that takes the lock. For RegisterKept the
invariant gives what the mapping needs: a boot finds every key imported before a
write can begin, so that patching the file changes nothing a restart finds, and a
write that is acknowledged has its version (`OpOK`).

The argument for the watermarks. WatermarksSound is proved whether or not a read of
a merge may fail. MarksKept, when none may, is an action property that fails only
at an unlink, so the invariant must say why what is unlinked is elsewhere:
`Folded` says that every file over a day old, and the process's own shard, is
either still to be read by the persist under way or within what it has read,
then within its payload, then within its shard on disk. That is stable although
others write, because a file that changes becomes young; it is why the
collections come after the write and compare ages. `Doomed` says that what is
picked is old and has a dead owner, who cannot write again, and `Running` that a
persist belongs to a live process with a cache.

The argument for the plugin's session. `ChainOK` says that every post in the chain
comes right after a reconciliation and is of the current period; `TimesOK` orders
the marks, the stamps and the window; `SentOK` says that a reply on its way has
its fingerprint, so neither lane posts it again. OutagesCovered rests on two facts
about an outage. `RefusedOK`: what is refused while the daemon is away is not
behind the mark. `ReplayedOK`: a recorded turn is held, or the session has not
reconciled and its mark is not past it; and once the daemon takes requests nothing
is posted before the replay, so an acknowledgement moves the mark when all that
is recorded is held. It takes what is `unmarked` for held, and holds only while
nothing is `spoilt`: a failed read lets a post go out before the replay, which is
how `hook_leapfrogged` violates NeverLeapfrogged.

The argument for the worker. `LoopOK` says the thread is idle unless the
consumer awaits it, or `stop` gave it up. `PlacesOK` says each request and each
resume is in one place. `RequestsOK` says a request under way is waiting and what
it is told is what its job did. `ResumesOK` says a resume is queued, kept, on the
thread or has run, and that those pending and those recovered are together the
ones booted: a count of 0 means that all have been recovered, which is what lets
the scheduler move. EventsKept is counted place by place, with lemmas on how many
times a job occurs in a tail and in a join of sequences.

Assumptions: `BoundsAssumption`, `ParkAssumption`, `ModesAssumption`, the
assumptions of `TurnWindow` on `NoWindow` and `Covers`, `PoolAssumption`,
`ConfigAssumption`, `WatermarksAssumption`, `LeftAssumption`,
`SessionAssumption`, `JobsAssumption`, `SchedulerAssumption`, `LanesAssumption`.
TLC evaluates them in every run of their module.

Four theorems have a hypothesis on a constant (MarksAreKept on `MergeMayFail`,
NoHoles on `AnswersMix`, InFlightIsOwned on `ChainMayRaise`, TurnsScoredOnce on
`LateRequests`), EventsCover one on the behaviour and its corollary one on the
sessions: what happens without it is in section 7, with the configuration that
shows it.

Induction over data. The library's induction theorems take an operator as a
parameter, which the provers cannot instantiate. Where a proof needs induction
(the sum of a balance, the fold of a tick's reports) it is stated of a set:
NatMin takes a least element from the well-foundedness of the naturals, NatInd
follows, and a fold is unfolded to the function the community modules choose,
whose existence is shown first.

Only model-checked, out of the prover's reach: liveness under fairness
(StreakSettles, TurnsPersist, TurnsArrive, and
RequestsAnswered of `DreamWorker` and of `CaptureLanes`). Every safety invariant
and action property of a passing run has a theorem.

## 7. Divergences

Statements of the source's comments that the code does not keep, found while
modelling. The first three are runs. The others are stated in the modules or are
conditions of a property in section 4; the table gives what to change in a
configuration to let TLC show them. Five have a configuration of their own:
`ScorePool_twice`, `DreamWorker_backlog`, `CaptureLanes_retried`,
`HookSession_unmarked` and `HookWatermarks_loads`.

| What happens | Property | Configuration |
|---|---|---|
| Boot resumes two unfinished runs; the second never gets merge_done and is merged at every boot (`daemon/app.py:946`, `dream/trigger.py:318`) | RecoveryAlwaysTerminates | run `dream_two_journals` |
| A rollback restores a value the other key of the linked pair forbids; it is acknowledged, and the next boot refuses the file (`configwrite/service.py:1179`, `config.py:712`) | NeverRefused | run `config_restored` |
| After an outage the host's history cannot be read once; the event that found out posts its own turn all the same, and the acknowledgement moves the watermark past the turns of the outage (`hosts/opencode/plugin.ts:2196`). "An outage hole can never be leapfrogged by a later acked turn" (`:2000`) | NeverLeapfrogged | run `hook_leapfrogged` |
| The scheduler reads the gauge without the pool's lock and ignores what its drain filed: points that just fired are emitted again (`dream/trigger.py:543`) | NoPointTwice | `ScorePool_twice.cfg` |
| A resume kept while offline starts only when some other job arrives, and the scheduler, which waits for it, emits none (`daemon/app.py:485`) | RetainedResumesRun | `DreamWorker_backlog.cfg` |
| The retry of a raised drain starts after its cursor and stores nothing (`capture/pipeline.py:305`, `:315`) | LostRetried | `CaptureLanes_retried.cfg` |
| After two recovered runs a clear marks rows no model saw (`dream/snapshot.py:324`) | OnlyConsumedCleared | as `dream_two_journals` |
| A failed snapshot request has written its file, which the next boot resumes (`dream/snapshot.py:225`) | FailedCaptureLeavesNothing | as `dream_two_journals` |
| A store error in token metering leaves the trigger in flight (`dream/reflect.py:909`) | InFlightOwned | `dream_two_journals` with ChainMayRaise = TRUE |
| The combine drops `batched`, so a genuine empty verdict of a batched vote is deferred (`dream/combine.py:140`) | BatchedVerdictCommits | as `dream_two_journals` with Window <- OneRange, Covers <- CoversOne, MaxRuns = 1, VoteModes = {TRUE}, BatchModes = {TRUE, FALSE} |
| A watermark of turn 0 counts as none: the balance is not restored (`storage/drivers/sqlite_meta.py:206`) | Mirrored | `ScorePool_twice.cfg` with SchedulerOn = FALSE, Index <- FromZero |
| A range that spans two sessions can exclude turns that fired it (`capture/pool.py:155`) | EventCoversItsTurns | `ScorePool_twice.cfg` with SchedulerOn = FALSE, Session <- TwoSessions, Index <- EachFromOne |
| A raised drain orphans the row's balance (`capture/pool.py:191`) | NoPointDropped without `orphaned` | `pool` |
| Resumes may start out of order (`daemon/app.py:457`) | ResumesInOrder | `worker` with no events |
| After a resume that raised the scheduler never ticks (`dream/trigger.py:800`). `tests/test_daemon_boot_recovery.py:17` says that it "still releases the drain signal (try/finally), so the scheduler starts" | SchedulerTicks | `DreamWorker_backlog.cfg` with MaxFlips = 0, MayRaise = TRUE |
| Nor while a resume hangs: "on timeout the scheduler ticks anyway" (`dream/trigger.py:447`; `tests/test_daemon_boot_recovery.py:19`: "after the bounded timeout it logs a warning and ticks anyway"), but the timeout is stored (`:515`) and never used | SchedulerTicks | `DreamWorker_backlog.cfg` with MaxFlips = 0 and without `WF_vars(ThreadEnds)` in `Fairness`; RecoveryFirst, proved, is why |
| An event deferred between two ticks is not released (`daemon/app.py:503`) | DeferredReleased | `DreamWorker_backlog.cfg` with Events = {e1}, Resumes <- NoJournal, MaxFlips = 2 |
| A job that raises while `stop` waits for it ends the teardown (`daemon/app.py:571`) | TeardownGoesOn | `DreamWorker_backlog.cfg` with MayRaise = MayStop = TRUE |
| A pending window is emitted again under another reason (`dream/trigger.py:626`) | WindowOnceInFlight | `scheduler` with Silent = FALSE |
| A second re-fire is stacked behind a queued one (`dream/trigger.py:714`) | NeverStacked | `scheduler` with MaxTurn = 3, Silent = FALSE |
| A window the scheduler never emitted is re-fired (`dream/trigger.py:716`) | RefiresOwnWindows | `scheduler` with MaxTurn = 3, Silent = FALSE |
| The success of one window clears the streak of another (`dream/trigger.py:692`) | NothingSitsForEver | `scheduler` with Cap = 3, PoolFires = Silent = FALSE |
| A failed snapshot request reports nothing (`dream/trigger.py:344`) | NothingSitsForEver | `scheduler` with MaxTurn = 1, PoolFires = FALSE |
| A drain between the two removals of a prune scores a session again (`capture/pipeline.py:361`) | ScoredOnce | `CaptureLanes_retried.cfg` with Workload <- OneQuiet, Repeats = 2, LateRequests = TRUE |
| One session's end sends the events of another whose turns are not written (`daemon/ingest.py:311`) | EventsAfterWrite | `lanes` with Workload <- EachFiring |
| Only a session end flushes the relay (`daemon/ingest.py:309`) | EventsSent | `CaptureLanes_retried.cfg` with Workload <- OneFiring |
| The daemon refuses one turn and takes a later one before the outage's turn is replayed; the watermark passes it by (`hosts/opencode/plugin.ts:2001`) | NeverLeapfrogged | `HookSession_outage.cfg` with AnswersMix = TRUE |
| An acknowledgement moves only the watermark in memory; a process that dies before it writes the session's first mark leaves none, and the next one skips the history with all the daemon refused or never got (`hosts/opencode/plugin.ts:2189`; marks are written at idle, compaction and deletion, `:2493`, `:2512`, `:2528`). "The FIRST acked turn from now on writes the watermark that makes the NEXT crash recoverable" (`:2180`) | FirstAckRecovers | `HookSession_unmarked.cfg` |
| Two loads of one process overlap and the second replaces the cache with what it read before a note (`hosts/opencode/plugin.ts:1650`) | NotesSurviveLoads | `HookWatermarks_loads.cfg` |
| A dead process's shard that cannot be read for a moment is left out of the merge and then reaped (`hosts/opencode/plugin.ts:1583`, `:1903`) | MarksKept | `watermarks` with MergeMayFail = TRUE |

## 8. What is not modelled

Left out of the modules that exist:

* texts: stripping, scoring weights, prompts, parsing and repair of answers,
  which node a triple meets in the graph; a chunk id a model makes up;
* the verify seat inside a reflect pass: it moves triples between two classes of
  an answer that is one of those the model may give;
* run rows and audit entries beyond their existence and finish time;
* the SNAPSHOTTING state of the trigger, which needs a snapshotter that answers
  later than its `request`; the daemon wires none;
* legacy and unreadable journal files;
* the transcript watermark of /ingest and the identity checks of the actor;
* the deadline of the teardown's lane stop: the model stops when the lane is
  empty, as it is within that deadline;
* the text of `config.toml` and the fact that it is rewritten in place
  (`configwrite/service.py:923`): a crash inside that one write, and what a
  truncated file parses to; keys of the registry beyond the three;
* of the plugin: tool results. They are posted as they end (stamped `Date.now()`,
  `plugin.ts:2573`) but replayed only under an assistant message that has
  completed since the window's start, stamped with its completion (`:2215`,
  `:2229`): one refused in the middle of a step, and reconciled before the step
  completes, is not replayed, and nothing here says otherwise. Also the hooks that
  inject context, the eviction of fingerprints past a thousand replies, the
  part of the history that compaction hides from the replay;
* `notify_activity` is modelled although the daemon does not call it; only
  `dream_modes` wires it.

Not modelled at all, with the reason in `PROJECT.json`: reconciliation, decay and
watchdog (section 9); graph and vector engines, models, retrieval, gateway, the
short-lived Python hooks, tools (no protocol state of their own).

Most of the repository's JavaScript is not the daemon's: `.github/skills` and
`.opencode/skills` hold two copies of a design-review skill for coding agents,
vendored from another project (a browser overlay, lint rules, a live server). No
part of the memory system calls it and it is not modelled. The system's own
JavaScript is the opencode plugin and the console, and its core is Python.

## 9. Plan

Order of work; the most important behaviour first.

1. Done: the dream engine (trigger, journal, pipeline, merge, recovery), its
   promise and the refinement; proofs of safety and refinement.
2. Done: the score pool, the worker, the scheduler and the capture lane, with
   their proofs.
3. Done: the settings writer with the console's If-Match, and its proofs; the
   opencode plugin's watermark files and its sessions, with proofs.
4. Done: the abstract specification of the settings and the proof that
   `ConfigWrite` implements it. Theorems to add: those of item 8.
5. `DecaySweep`: the sweep computes targets from rows it read and writes them in
   one batch (`decay/sweeper.py:190`) while the lane reinforces
   (`capture/stamper.py:318`). Two rows, two reinforcements, a crash between
   batch and cursor. Property: no reinforcement is lost, no decay applied twice.
6. `Reconciliation`: nominate, consume, adjudicate over a ledger with crashes.
   Property: a nomination is decided once, and the scan does not pass one over.
7. `Watchdog`: two states against a daemon that dies and is restarted.
8. Abstract specifications still to state: of `CaptureLanes`, a set of accepted
   turns that each become stored once; of `ScorePool`, points that are pending,
   then filed.

## 10. Running

    tlc -workers 2 -config DreamLifecycle_core.cfg MC_DreamLifecycle.tla
    tlapm DreamLifecycle_proofs.tla

The configuration and module of each run are in `PROJECT.json`. The longest
runs, `lanes`, the dream runs and `config`, take between one and two minutes on
two workers.
