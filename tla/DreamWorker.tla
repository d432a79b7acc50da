----------------------------- MODULE DreamWorker -----------------------------
(* DreamWorker of daemon/app.py: the consumer task on the event loop, the    *)
(* one thread that runs dream jobs, the offline backlog of boot resumes, the *)
(* events held back while the provider is down, and the teardown.            *)
(*                                                                           *)
(* What a job does to the trigger and the journal is DreamLifecycle's; here  *)
(* a job runs, ends, or raises.  Every readiness check of the worker and of  *)
(* the scheduler's tick probes the provider anew, so provider may differ     *)
(* between any two of them.                                                  *)
EXTENDS Integers, Sequences, FiniteSets, SequencesExt

CONSTANTS
    Events,         \* fired pool events, from the relay or the scheduler
    Manuals,        \* dream_once requests
    Resumes,        \* unfinished journals the boot found, in recover's order
    Release,        \* the job that releases deferred events
    NoJob,
    MaxFlips,       \* times the provider appears or goes away
    MayRaise,       \* a resumed chain may raise a store error
    MayStop         \* the daemon is shut down

Resumed == Range(Resumes)
Job == Events \cup Manuals \cup Resumed \cup {Release}

ASSUME JobsAssumption ==
    /\ Resumes \in Seq(Resumed) /\ IsInjective(Resumes)
    /\ Events \cap Manuals = {} /\ (Events \cup Manuals) \cap Resumed = {}
    /\ Release \notin Events \cup Manuals \cup Resumed /\ NoJob \notin Job
    /\ MaxFlips \in Nat /\ MayRaise \in BOOLEAN /\ MayStop \in BOOLEAN

VARIABLES
    provider, flips,
    \* the event loop
    booted,         \* boot resumes enqueued so far
    queue, backlog, \* the job queue; resumes kept while offline
    pending,        \* _resume_pending
    task,           \* the consumer: at its loop's top, at the queue, awaiting a job, gone
    inflight,       \* _inflight
    sched,          \* the scheduler's _ready_state
    daemon,         \* serving, stopping, draining the thread, stopped, or aborted
    \* the thread
    working,        \* the job it was handed last, its own also after stop gave it up
    thread,         \* that job's future
    deferred,       \* the trigger's deferred_provider
    \* history
    submitted, delivered, \* events enqueued, and handed to the trigger
    ran,            \* resumes the thread has begun, in order
    recovered,      \* resumes that completed
    launched,       \* requests whose job launched a dream
    answer          \* what each request was told

loopVars == <<booted, queue, backlog, pending, task, inflight, sched, daemon>>
threadVars == <<working, thread, deferred>>
history == <<submitted, delivered, ran, recovered, launched, answer>>
vars == <<provider, flips, loopVars, threadVars, history>>

Ended == {"launched", "not_launched", "done", "raised"}

TypeOK ==
    /\ provider \in BOOLEAN /\ flips \in 0..MaxFlips
    /\ booted \in 0..Len(Resumes) /\ queue \in Seq(Job) /\ backlog \in Seq(Resumed)
    /\ pending \in 0..Len(Resumes)
    /\ task \in {"top", "get", "job", "gone"} /\ inflight \in Job \cup {NoJob}
    /\ sched \in {"unknown", "up", "down"}
    /\ daemon \in {"serving", "stopping", "draining", "stopped", "aborted"}
    /\ thread \in {"idle", "handed", "running", "cancelled"} \cup Ended
    /\ working \in Job \cup {NoJob} /\ deferred \in Seq(Events)
    /\ submitted \subseteq Events /\ delivered \in Seq(Events)
    /\ ran \in Seq(Resumed) /\ recovered \subseteq Resumed
    /\ launched \subseteq Manuals
    /\ answer \in [Manuals -> {"none", "waiting", "launched", "not_launched"}]

Init ==
    /\ provider \in BOOLEAN /\ flips = 0
    /\ booted = 0 /\ queue = <<>> /\ backlog = <<>> /\ pending = 0
    /\ task = "top" /\ inflight = NoJob /\ sched = "unknown" /\ daemon = "serving"
    /\ working = NoJob /\ thread = "idle" /\ deferred = <<>>
    /\ submitted = {} /\ delivered = <<>> /\ ran = <<>> /\ recovered = {} /\ launched = {}
    /\ answer = [m \in Manuals |-> "none"]

Serving == booted = Len(Resumes) /\ daemon = "serving"

ProviderFlips ==
    /\ flips < MaxFlips /\ flips' = flips + 1 /\ provider' = ~provider
    /\ UNCHANGED <<loopVars, threadVars, history>>

-----------------------------------------------------------------------------
(* Submissions, on the event loop.                                           *)

(* Mutant of EnqueueResume: a resume kept while offline is not counted.      *)
EnqueueResumeUncounted ==
    /\ booted < Len(Resumes) /\ booted' = booted + 1
    /\ IF provider
       THEN queue' = Append(queue, Resumes[booted + 1]) /\ pending' = pending + 1 /\ UNCHANGED backlog
       ELSE backlog' = Append(backlog, Resumes[booted + 1]) /\ UNCHANGED <<queue, pending>>
    /\ UNCHANGED <<provider, flips, task, inflight, sched, daemon, threadVars, history>>

(* enqueue_resume: the lifespan enqueues every resume before the consumer    *)
(* task first runs.                                                          *)
EnqueueResume ==
    /\ booted < Len(Resumes) /\ booted' = booted + 1
    /\ pending' = pending + 1
    /\ \/ provider /\ queue' = Append(queue, Resumes[booted + 1]) /\ UNCHANGED backlog
       \/ ~provider /\ backlog' = Append(backlog, Resumes[booted + 1]) /\ UNCHANGED queue
    /\ UNCHANGED <<provider, flips, task, inflight, sched, daemon, threadVars, history>>

(* submit_event: the relay hands over an event the pool fired.               *)
SubmitEvent(e) ==
    /\ Serving /\ e \notin submitted
    /\ queue' = Append(queue, e) /\ submitted' = submitted \cup {e}
    /\ UNCHANGED <<provider, flips, booted, backlog, pending, task, inflight, sched, daemon,
                   threadVars, delivered, ran, recovered, launched, answer>>

(* resume_drained is set.                                                    *)
Drained == pending = 0

Released == IF sched = "down" THEN Append(queue, Release) ELSE queue

(* The scheduler's tick while recovery is over: on_provider_ready, then what *)
(* it emits, which is an event or nothing.                                   *)
Emission == {<<>>} \cup {<<e>> : e \in Events}

Tick(emit) ==
    /\ Serving /\ Drained /\ Range(emit) \cap submitted = {}
    /\ \/ /\ ~provider
          /\ sched' = "down" /\ UNCHANGED <<queue, submitted>>
       \/ /\ provider
          /\ sched' = "up"
          /\ queue' = Released \o emit /\ submitted' = submitted \cup Range(emit)
    /\ UNCHANGED <<provider, flips, booted, backlog, pending, task, inflight, daemon, threadVars,
                   delivered, ran, recovered, launched, answer>>

(* submit_dream_once.                                                        *)
SubmitManual(m) ==
    /\ Serving /\ answer[m] = "none"
    /\ \/ /\ ~provider
          /\ answer' = [answer EXCEPT ![m] = "not_launched"] /\ UNCHANGED queue
       \/ /\ provider
          /\ answer' = [answer EXCEPT ![m] = "waiting"] /\ queue' = Append(queue, m)
    /\ UNCHANGED <<provider, flips, booted, backlog, pending, task, inflight, sched, daemon,
                   threadVars, submitted, delivered, ran, recovered, launched>>

-----------------------------------------------------------------------------
(* The consumer task.                                                        *)

(* Mutant of Top: the backlog is copied, not moved.                          *)
TopCopiesBacklog ==
    /\ Serving /\ task = "top" /\ task' = "get"
    /\ queue' = IF provider THEN queue \o backlog ELSE queue
    /\ UNCHANGED <<provider, flips, booted, backlog, pending, inflight, sched, daemon, threadVars, history>>

(* The backlog joins the queue when the provider is back.                    *)
Top ==
    /\ Serving /\ task = "top" /\ task' = "get"
    /\ \/ provider /\ queue' = queue \o backlog /\ backlog' = <<>>
       \/ ~provider /\ UNCHANGED <<queue, backlog>>
    /\ UNCHANGED <<provider, flips, booted, pending, inflight, sched, daemon, threadVars, history>>

Accept ==
    /\ Serving /\ task = "get" /\ queue # <<>> /\ provider
    /\ inflight' = Head(queue) /\ queue' = Tail(queue)
    /\ task' = "job" /\ working' = Head(queue) /\ thread' = "handed"
    /\ UNCHANGED <<provider, flips, booted, backlog, pending, sched, daemon, deferred, history>>

(* Mutant of Turned: an event that is turned away is not held.               *)
TurnedUnheld(job) ==
    /\ backlog' = IF job \in Resumed THEN <<job>> \o backlog ELSE backlog
    /\ UNCHANGED deferred
    /\ answer' = [m \in Manuals |-> IF m = job THEN "not_launched" ELSE answer[m]]

(* What becomes of a job found while the provider is down: a resume goes     *)
(* back to the front of the backlog, an event is deferred in the trigger, a  *)
(* request is refused, a release is forgotten.                               *)
Turned(job) ==
    /\ backlog' = IF job \in Resumed THEN <<job>> \o backlog ELSE backlog
    /\ deferred' = IF job \in Events THEN Append(deferred, job) ELSE deferred
    /\ answer' = [m \in Manuals |-> IF m = job THEN "not_launched" ELSE answer[m]]

Reject ==
    /\ Serving /\ task = "get" /\ queue # <<>> /\ ~provider
    /\ inflight' = Head(queue) /\ queue' = Tail(queue)
    /\ Turned(Head(queue))
    /\ task' = "top"
    /\ UNCHANGED <<provider, flips, booted, pending, sched, daemon, working, thread, submitted,
                   delivered, ran, recovered, launched>>

(* _DreamJob.run: the thread hands the trigger one event, or every deferred  *)
(* one, or begins a resume.                                                  *)
ThreadBegins ==
    /\ thread = "handed" /\ thread' = "running"
    /\ \/ /\ working \in Events
          /\ delivered' = Append(delivered, working) /\ UNCHANGED <<deferred, ran>>
       \/ /\ working = Release
          /\ delivered' = delivered \o deferred /\ deferred' = <<>> /\ UNCHANGED ran
       \/ /\ working \in Resumed
          /\ ran' = Append(ran, working) /\ UNCHANGED <<deferred, delivered>>
       \/ /\ working \in Manuals
          /\ UNCHANGED <<deferred, delivered, ran>>
    /\ UNCHANGED <<provider, flips, loopVars, working, submitted, recovered, launched, answer>>

ThreadEnds ==
    /\ thread = "running"
    /\ \/ working \in Manuals /\ thread' = "launched" /\ launched' = launched \cup {working}
       \/ working \in Manuals /\ thread' = "not_launched" /\ UNCHANGED launched
       \/ working \notin Manuals /\ thread' = "done" /\ UNCHANGED launched
       \/ MayRaise /\ working \in Resumed /\ thread' = "raised" /\ UNCHANGED launched
    /\ UNCHANGED <<provider, flips, loopVars, working, deferred, submitted, delivered, ran,
                   recovered, answer>>

(* The job's future resolves: only a resume that returned counts.            *)
Complete ==
    /\ daemon = "serving" /\ task = "job" /\ thread \in Ended
    /\ LET finished == {inflight} \cap (IF thread = "done" THEN Resumed ELSE {})
       IN pending' = pending - Cardinality(finished) /\ recovered' = recovered \cup finished
    /\ answer' = [m \in Manuals |-> IF m = inflight THEN thread ELSE answer[m]]
    /\ inflight' = NoJob /\ working' = NoJob /\ thread' = "idle" /\ task' = "top"
    /\ UNCHANGED <<provider, flips, booted, queue, backlog, sched, daemon, deferred, submitted,
                   delivered, ran, launched>>

-----------------------------------------------------------------------------
(* stop: the teardown awaits it before it drains the capture lane.           *)

(* The task is cancelled at the await it stands at; cancelling it cancels    *)
(* the job's future too, which only a job the thread has not begun obeys.    *)
StopTask ==
    /\ MayStop /\ Serving
    /\ \/ task = "get" /\ queue = <<>>
       \/ task = "job"
    /\ task' = "gone" /\ daemon' = "stopping"
    /\ thread' = IF thread = "handed" THEN "cancelled" ELSE thread
    /\ UNCHANGED <<provider, flips, booted, queue, backlog, pending, inflight, sched, working,
                   deferred, history>>

(* Mutant of EmptyQueue: the queued requests are dropped with their jobs.    *)
EmptyQueueSilently ==
    /\ daemon = "stopping" /\ daemon' = "draining"
    /\ queue' = <<>>
    /\ UNCHANGED <<provider, flips, booted, backlog, pending, task, inflight, sched, threadVars, history>>

(* Queued jobs never launched: their requests are told so.                   *)
EmptyQueue ==
    /\ daemon = "stopping" /\ daemon' = "draining"
    /\ queue' = <<>>
    /\ answer' = [m \in Manuals |-> IF m \in Range(queue) THEN "not_launched" ELSE answer[m]]
    /\ UNCHANGED <<provider, flips, booted, backlog, pending, task, inflight, sched, threadVars,
                   submitted, delivered, ran, recovered, launched>>

(* Mutant of InflightAnswer: a job that ended counts as launched.            *)
InflightAnswerDone == IF thread \in Ended THEN "launched" ELSE "not_launched"

(* _inflight_launched: the future's result, FALSE unless it ended.           *)
InflightAnswer == IF thread = "launched" THEN "launched" ELSE "not_launched"

(* The bounded wait is over: the job ended or was cancelled, or the timeout  *)
(* passed and the chain is abandoned.                                        *)
StopEnds ==
    /\ daemon = "draining" /\ thread # "raised"
    /\ daemon' = "stopped"
    /\ answer' = [m \in Manuals |->
                    IF m = inflight /\ answer[m] = "waiting" THEN InflightAnswer ELSE answer[m]]
    /\ inflight' = NoJob
    /\ UNCHANGED <<provider, flips, booted, queue, backlog, pending, task, sched, threadVars,
                   submitted, delivered, ran, recovered, launched>>

(* The awaited job raised: so does stop, and the rest of the teardown.       *)
StopRaises ==
    /\ daemon = "draining" /\ thread = "raised"
    /\ daemon' = "aborted"
    /\ UNCHANGED <<provider, flips, booted, queue, backlog, pending, task, inflight, sched,
                   threadVars, history>>

-----------------------------------------------------------------------------
Next ==
    \/ ProviderFlips \/ EnqueueResume
    \/ \E e \in Events : SubmitEvent(e)
    \/ \E emit \in Emission : Tick(emit)
    \/ \E m \in Manuals : SubmitManual(m)
    \/ Top \/ Accept \/ Reject \/ ThreadBegins \/ ThreadEnds \/ Complete
    \/ StopTask \/ EmptyQueue \/ StopEnds \/ StopRaises

Spec == Init /\ [][Next]_vars

(* The loop runs what is ready, the scheduler ticks at its cadence and the   *)
(* thread runs what it is handed.  A chain ends because every model call has *)
(* a timeout; the provider, the submissions and a shutdown are not fair.     *)
Fairness ==
    /\ WF_vars(EnqueueResume) /\ WF_vars(\E emit \in Emission : Tick(emit))
    /\ WF_vars(Top) /\ WF_vars(Accept) /\ WF_vars(Reject) /\ WF_vars(Complete)
    /\ WF_vars(ThreadBegins) /\ WF_vars(ThreadEnds)
    /\ WF_vars(EmptyQueue) /\ WF_vars(StopEnds) /\ WF_vars(StopRaises)
FairSpec == Spec /\ Fairness

-----------------------------------------------------------------------------
(* Properties.                                                               *)

Times(e, s) == Cardinality({i \in DOMAIN s : s[i] = e})
OnThread(job) == IF working = job /\ thread \in {"handed", "cancelled"} THEN 1 ELSE 0

(* Until the shutdown an event the pool paid for is in one place: queued,    *)
(* handed to the thread, deferred, or delivered; an outage that starts       *)
(* between two probes neither loses nor doubles it.                          *)
EventsKept ==
    daemon = "serving" => \A e \in Events :
        Times(e, queue) + OnThread(e) + Times(e, deferred) + Times(e, delivered)
            = IF e \in submitted THEN 1 ELSE 0

(* No journal is resumed twice in one process.                               *)
ResumedOnce == IsInjective(ran)

(* A request told that a dream was launched had one launched, and a request  *)
(* told otherwise never has one, unless the shutdown abandoned its chain.    *)
HonestAnswers ==
    \A m \in Manuals :
        /\ answer[m] = "launched" => m \in launched
        /\ answer[m] = "not_launched" /\ m \in launched => daemon = "stopped"

(* Every request is answered, also when the daemon stops under it or the     *)
(* provider goes away.                                                       *)
RequestsAnswered == \A m \in Manuals : answer[m] = "waiting" ~> answer[m] # "waiting"

-----------------------------------------------------------------------------
(* What run_forever does: the scheduler ticks only when every boot resume    *)
(* has completed, for a tick would dream the window a resume is about to     *)
(* consolidate, and a resume that raised or hangs keeps it waiting for good. *)
(* The comment on RESUME_DRAIN_TIMEOUT_S and the boot recovery tests' own    *)
(* docstring say that it ticks anyway: see SchedulerTicks.                   *)
RecoveryFirst == [][sched' # sched => recovered = Resumed]_vars

-----------------------------------------------------------------------------
(* Statements of the source's own comments that the code does not keep.      *)

(* Resumes run in the order the boot queued them.                            *)
ResumesInOrder ==
    \A i, j \in DOMAIN ran : i < j =>
        \E a, b \in DOMAIN Resumes : a < b /\ Resumes[a] = ran[i] /\ Resumes[b] = ran[j]

(* A resume retained while offline runs once the provider is back for good.  *)
RetainedResumesRun == <>[]provider => <>(recovered = Resumed)

(* The scheduler ticks in the end: "the exception path: a resume job that    *)
(* raises still releases the drain signal" (test_daemon_boot_recovery), and  *)
(* on a wedged one "on timeout the scheduler ticks anyway" (trigger.py; the  *)
(* timeout is stored and never used).                                        *)
SchedulerTicks == <>[]provider => <>(sched = "up")

(* A deferred event is delivered once the provider is back for good.         *)
DeferredReleased == \A e \in Events : <>[]provider => ~<>[](e \in Range(deferred))

(* The teardown goes on to drain the capture lane.                           *)
TeardownGoesOn == daemon # "aborted"
-----------------------------------------------------------------------------
(* Why EventsKept, HonestAnswers, ResumedOnce and RecoveryFirst hold.        *)
Once == Manuals \cup Resumed       \* jobs there is one of; a release may be queued again
OnHand(job) == working = job /\ thread \notin {"idle", "cancelled"}
Single(q, job) == \A i, j \in DOMAIN q : q[i] = job /\ q[j] = job => i = j

(* While it serves, the thread is idle but for the job the consumer awaits;  *)
(* the shutdown leaves no job queued.                                        *)
LoopOK ==
    /\ daemon = "serving" => task # "gone" /\ (task = "job" <=> thread # "idle")
    /\ daemon \in {"draining", "stopped", "aborted"} => queue = <<>>
    /\ daemon # "serving" => booted = Len(Resumes)
    /\ thread # "idle" /\ daemon # "stopped" => working = inflight

(* Such a job is in one place.                                               *)
PlacesOK ==
    /\ \A job \in Once :
        /\ Single(queue, job)
        /\ job \in Range(backlog) \/ OnHand(job) => job \notin Range(queue)
        /\ OnHand(job) => job \notin Range(backlog)
    /\ IsInjective(backlog)

(* A request on its way waits; what it is told is what its job did.          *)
RequestsOK ==
    \A m \in Manuals :
        /\ m \in Range(queue) \/ (OnHand(m) /\ daemon # "stopped") => answer[m] = "waiting"
        /\ answer[m] = "launched" => m \in launched
        /\ m \in launched => answer[m] = "launched" \/ (working = m /\ thread = "launched")
        /\ working = m /\ thread = "launched" => m \in launched
        /\ working = m /\ thread \in Ended => thread \in {"launched", "not_launched"}

Boots == {Resumes[k] : k \in 1..booted}

(* A resume is queued, kept, on the thread, or has run; the ones that have   *)
(* completed are no longer pending.                                          *)
ResumesOK ==
    /\ \A job \in Resumed :
        job \in Range(queue) \cup Range(backlog) \cup Range(ran) \/ OnHand(job) => job \in Boots
    /\ IsInjective(ran)
    /\ \A job \in Range(ran) : /\ job \notin Range(queue) \cup Range(backlog)
                               /\ ~(working = job /\ thread = "handed")
    /\ recovered \subseteq Range(ran)
    /\ working \in Resumed /\ OnHand(working) /\ thread # "handed"
            => working \in Range(ran) \ recovered
    /\ pending + Cardinality(recovered) = booted

IInv == TypeOK /\ LoopOK /\ PlacesOK /\ RequestsOK /\ ResumesOK
=============================================================================
