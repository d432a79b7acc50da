----------------------------- MODULE CaptureLanes -----------------------------
(* From a host's events to stored chunks: the segmenter and its buffers      *)
(* (capture/segment.py, capture/pipeline.py), the request handlers and the   *)
(* idle sweeper on the event loop (daemon/ingest.py, daemon/idle_flush.py),  *)
(* the drain lane's one thread and the relay of fired dream events           *)
(* (DrainLane and _DreamRelay of daemon/app.py).                             *)
(*                                                                           *)
(* A session's turns are numbered as turn_index numbers them.  A step of the *)
(* event loop is what runs between two awaits; the lane's thread is cut      *)
(* where it reads or changes state the loop shares.                          *)
EXTENDS Integers, Sequences, FiniteSets, SequencesExt

CONSTANTS
    Session,
    Nobody, Sweeper, \* who submits a drain, other than a request
    Workload,       \* what may come: turns of each session, drains that raise,
                    \* whether the pool may fire while a turn is scored
    MaxTurns,       \* turns of a session at most
    Repeats,        \* requests of one kind for one session
    LateRequests,   \* a host sends /flush or a second /session/end after the first
    MaxLane,        \* drains queued at once
    MayStop         \* the daemon shuts down

Turn == Session \X (0..MaxTurns-1)
Request == [kind: {"end", "flush"}, session: Session, n: 1..Repeats]
Who == Request \cup {Sweeper, Nobody}

ASSUME LanesAssumption ==
    /\ IsFiniteSet(Session) /\ Nobody # Sweeper /\ {Nobody, Sweeper} \cap Request = {}
    /\ MaxTurns \in Nat /\ Repeats \in Nat /\ MaxLane \in Nat \ {0}
    /\ \A w \in Workload :
        w.turns \in [Session -> 0..MaxTurns] /\ w.failures \in Nat /\ w.fires \in BOOLEAN
    /\ LateRequests \in BOOLEAN /\ MayStop \in BOOLEAN

VARIABLES
    work,           \* the workload of this behaviour
    \* TurnSegmenter
    opened, open,   \* turns begun in a session; whether the last is still open
    settled,        \* /session/end closed it
    \* the buffers the loop and the lane share
    buffer,         \* length of the delegate's _turns
    boundary,       \* the delegate's _settled
    stripped,       \* length of _stripped, which the scorer takes as its cursor
    \* the lane
    lane,           \* drains queued
    cur,            \* the drain that runs
    failed,         \* the sweeper's failure ledger
    failures,
    \* the loop
    request,        \* where each handler is
    covers,         \* the turns closed when it submitted its drain
    pooled, relay,  \* turns pooled since the pool last fired; fired events
    daemon,
    \* outcome
    stored,         \* turns in the vector store
    scored,         \* how often each turn was scored
    sent,           \* events handed to the dream worker
    lost            \* turns in the batch of a drain that raised

segmenter == <<work, opened, open, settled>>
laneVars == <<lane, cur, failed, failures>>
loopVars == <<request, covers, daemon>>
outcome == <<stored, scored, sent, lost>>
vars == <<segmenter, buffer, boundary, stripped, laneVars, loopVars, pooled, relay, outcome>>

Idle == [phase |-> "idle", session |-> Nobody, who |-> Nobody, raw |-> 0, at |-> 0, batch |-> {}]

TypeOK ==
    /\ work \in Workload
    /\ opened \in [Session -> 0..MaxTurns] /\ open \in [Session -> BOOLEAN]
    /\ settled \in [Session -> BOOLEAN] /\ boundary \in [Session -> BOOLEAN]
    /\ buffer \in [Session -> 0..MaxTurns] /\ stripped \in [Session -> 0..MaxTurns]
    /\ lane \in Seq([session: Session, who: Who])
    /\ cur \in [phase: {"raw", "score", "raising"}, session: Session, who: Who,
               raw: 0..MaxTurns, at: 0..MaxTurns, batch: SUBSET Turn] \cup {Idle}
    /\ failed \subseteq Session /\ failures \in 0..work.failures
    /\ request \in [Request -> {"none", "waiting", "applied", "raised", "pruning", "acked", "error"}]
    /\ covers \in [Request -> SUBSET Turn]
    /\ pooled \subseteq Turn /\ relay \in Seq(SUBSET Turn)
    /\ daemon \in {"serving", "stopping", "stopped"}
    /\ stored \subseteq Turn /\ scored \in [Turn -> Nat] /\ sent \subseteq SUBSET Turn
    /\ lost \subseteq Turn

Init ==
    /\ work \in Workload
    /\ opened = [s \in Session |-> 0] /\ open = [s \in Session |-> FALSE]
    /\ settled = [s \in Session |-> FALSE] /\ boundary = [s \in Session |-> FALSE]
    /\ buffer = [s \in Session |-> 0] /\ stripped = [s \in Session |-> 0]
    /\ lane = <<>> /\ cur = Idle /\ failed = {} /\ failures = 0
    /\ request = [r \in Request |-> "none"] /\ covers = [r \in Request |-> {}]
    /\ pooled = {} /\ relay = <<>> /\ daemon = "serving"
    /\ stored = {} /\ scored = [t \in Turn |-> 0] /\ sent = {} /\ lost = {}

-----------------------------------------------------------------------------
(* The event loop.                                                           *)

Drain(s, who) == [session |-> s, who |-> who]

(* No handler is between the two removals of a prune, which has no await.    *)
LoopFree == \A r \in Request : request[r] # "pruning"

(* A turn that closes is appended to its session's buffer.                   *)
CloseTurns(S) ==
    buffer' = [s \in Session |-> IF s \in S /\ open[s] THEN buffer[s] + 1 ELSE buffer[s]]

(* Mutant of Closed: the closed turn stays the session's open turn.          *)
ClosedStaysOpen(S) == open

Closed(S) == [s \in Session |-> s \notin S /\ open[s]]

(* /ingest: an event that starts a turn closes the open one; one that        *)
(* belongs to the open turn changes nothing here.                            *)
Ingest(s) ==
    /\ LoopFree /\ daemon = "serving" /\ ~settled[s] /\ opened[s] < work.turns[s]
    /\ CloseTurns({s})
    /\ opened' = [opened EXCEPT ![s] = @ + 1] /\ open' = [open EXCEPT ![s] = TRUE]
    /\ UNCHANGED <<work, settled, boundary, stripped, laneVars, loopVars, pooled, relay, outcome>>

(* /session/end and /flush up to the await on the drain.  A repeated end     *)
(* settles nothing again but drains again; so does a flush of a settled one. *)
Submit(r) ==
    LET s == r.session
        closes == IF settled[s] THEN {} ELSE {s}
    IN /\ LoopFree /\ daemon = "serving" /\ request[r] = "none" /\ Len(lane) < MaxLane
       /\ opened[s] > 0 /\ (LateRequests \/ ~settled[s])
       /\ CloseTurns(closes) /\ open' = Closed(closes)
       /\ settled' = [settled EXCEPT ![s] = @ \/ r.kind = "end"]
       /\ boundary' = [boundary EXCEPT ![s] = @ \/ (r.kind = "end" /\ ~settled[s])]
       /\ lane' = Append(lane, Drain(s, r))
       /\ request' = [request EXCEPT ![r] = "waiting"]
       /\ covers' = [covers EXCEPT ![r] = {s} \X (0..opened[s]-1)]
       /\ UNCHANGED <<work, opened, stripped, cur, failed, failures, pooled, relay, daemon, outcome>>

(* The drain raised: the handler answers with an error and prunes nothing.   *)
AnswerError(r) ==
    /\ LoopFree /\ request[r] = "raised"
    /\ request' = [request EXCEPT ![r] = "error"]
    /\ UNCHANGED <<segmenter, buffer, boundary, stripped, laneVars, covers, daemon, pooled, relay, outcome>>

AckFlush(r) ==
    /\ LoopFree /\ request[r] = "applied" /\ r.kind = "flush"
    /\ request' = [request EXCEPT ![r] = "acked"]
    /\ UNCHANGED <<segmenter, buffer, boundary, stripped, laneVars, covers, daemon, pooled, relay, outcome>>

(* prune_settled of the scoring layer, then of the buffer: the lane's thread *)
(* may read between the two.                                                 *)
PruneCaches(r) ==
    /\ LoopFree /\ request[r] = "applied" /\ r.kind = "end"
    /\ stripped' = [stripped EXCEPT ![r.session] = IF boundary[r.session] THEN 0 ELSE @]
    /\ request' = [request EXCEPT ![r] = "pruning"]
    /\ UNCHANGED <<segmenter, buffer, boundary, laneVars, covers, daemon, pooled, relay, outcome>>

(* The buffer goes, the relay hands its events to the worker, and the end is *)
(* acknowledged.                                                             *)
AckEnd(r) ==
    /\ request[r] = "pruning"
    /\ buffer' = [buffer EXCEPT ![r.session] = IF boundary[r.session] THEN 0 ELSE @]
    /\ boundary' = [boundary EXCEPT ![r.session] = FALSE]
    /\ sent' = sent \cup Range(relay) /\ relay' = <<>>
    /\ request' = [request EXCEPT ![r] = "acked"]
    /\ UNCHANGED <<segmenter, stripped, laneVars, covers, daemon, pooled, stored, scored, lost>>

Swept(S) == [i \in 1..Cardinality(S) |-> Drain(SetToSeq(S)[i], Sweeper)]

(* Mutant of Sweep: idle sessions are flushed but only failed ones drained.  *)
SweepFailedOnly(S) ==
    /\ LoopFree /\ daemon = "serving" /\ Len(lane) + Cardinality(failed) <= MaxLane
    /\ S # {} /\ \A s \in S : open[s] /\ ~settled[s]
    /\ CloseTurns(S) /\ open' = Closed(S)
    /\ lane' = lane \o Swept(failed)
    /\ UNCHANGED <<work, opened, settled, boundary, stripped, cur, failed, failures, loopVars, pooled, relay, outcome>>

(* IdleFlushSweeper.run_once: sessions whose last drain raised, then idle    *)
(* ones (S), whose open turn is closed.                                      *)
Sweep(S) ==
    /\ LoopFree /\ daemon = "serving" /\ Len(lane) + Cardinality(failed) + Cardinality(S) <= MaxLane
    /\ S \cup failed # {} /\ \A s \in S : open[s] /\ ~settled[s]
    /\ CloseTurns(S) /\ open' = Closed(S)
    /\ lane' = lane \o Swept(failed) \o Swept(S)
    /\ UNCHANGED <<work, opened, settled, boundary, stripped, cur, failed, failures, loopVars, pooled, relay, outcome>>

Buffered == {s \in Session : buffer[s] > 0 \/ (open[s] /\ ~settled[s])}
Final(S) == [i \in 1..Cardinality(S) |-> Drain(SetToSeq(S)[i], Nobody)]

(* Mutant of Teardown: the open turns are not closed first.                  *)
TeardownLeavesOpen ==
    /\ MayStop /\ daemon = "serving" /\ \A r \in Request : request[r] \in {"none", "acked", "error"}
    /\ daemon' = "stopping"
    /\ lane' = lane \o Final({s \in Session : buffer[s] > 0})
    /\ UNCHANGED <<segmenter, buffer, boundary, stripped, cur, failed, failures, request, covers,
                   pooled, relay, outcome>>

(* The lifespan ends, after the server answered its requests: flush_all, one *)
(* drain for every buffered session.                                         *)
Teardown ==
    /\ MayStop /\ daemon = "serving" /\ \A r \in Request : request[r] \in {"none", "acked", "error"}
    /\ daemon' = "stopping"
    /\ CloseTurns(Session) /\ open' = Closed(Session)
    /\ lane' = lane \o Final(Buffered)
    /\ UNCHANGED <<work, opened, settled, boundary, stripped, cur, failed, failures, request, covers,
                   pooled, relay, outcome>>

(* DrainLane.stop, within its timeout.                                       *)
LaneStops ==
    /\ daemon = "stopping" /\ lane = <<>> /\ cur = Idle
    /\ daemon' = "stopped"
    /\ UNCHANGED <<segmenter, buffer, boundary, stripped, laneVars, request, covers, pooled, relay, outcome>>

-----------------------------------------------------------------------------
(* The lane's thread: WritingPipeline.drain.                                 *)

(* The buffer is copied first ...                                            *)
ReadRaw ==
    /\ cur = Idle /\ lane # <<>>
    /\ cur' = [Idle EXCEPT !.phase = "raw", !.session = Head(lane).session, !.who = Head(lane).who,
                           !.raw = buffer[Head(lane).session]]
    /\ lane' = Tail(lane)
    /\ UNCHANGED <<segmenter, buffer, boundary, stripped, failed, failures, loopVars, pooled, relay, outcome>>

(* ... and then the cursor into it is read.                                  *)
ReadCursor ==
    /\ cur.phase = "raw"
    /\ cur' = [cur EXCEPT !.phase = "score", !.at = stripped[cur.session]]
    /\ UNCHANGED <<segmenter, buffer, boundary, stripped, lane, failed, failures, loopVars, pooled, relay, outcome>>

(* Mutant of Advanced: a scored turn does not move the cursor.               *)
AdvancedNever == stripped

Advanced == [stripped EXCEPT ![cur.session] = @ + 1]

(* One turn is stripped and scored, and its points pooled: the pool may fire *)
(* over what it holds.                                                       *)
Score ==
    LET t == <<cur.session, cur.at>>
    IN /\ cur.phase = "score" /\ cur.at < cur.raw
       /\ stripped' = Advanced
       /\ scored' = [scored EXCEPT ![t] = @ + 1]
       /\ cur' = [cur EXCEPT !.at = @ + 1, !.batch = @ \cup {t}]
       /\ \/ pooled' = pooled \cup {t} /\ UNCHANGED relay
          \/ work.fires /\ relay' = Append(relay, pooled \cup {t}) /\ pooled' = {}
       /\ UNCHANGED <<segmenter, buffer, boundary, lane, failed, failures, loopVars, stored, sent, lost>>

(* pool_credit raises after the turn was stripped, or the store refuses the  *)
(* batch: the drain ends with its cursor advanced and nothing written.       *)
Raises ==
    /\ failures < work.failures /\ cur.phase = "score" /\ cur.batch # {}
    /\ failures' = failures + 1
    /\ cur' = [cur EXCEPT !.phase = "raising", !.batch = {}] /\ lost' = lost \cup cur.batch
    /\ UNCHANGED <<segmenter, buffer, boundary, stripped, lane, failed, loopVars, pooled, relay,
                   stored, scored, sent>>

(* Mutant of Written: only the last turn of the batch is written.            *)
WrittenLast == {t \in cur.batch : t[2] = cur.raw - 1}

Written == cur.batch

(* write_many, one batched store call, and the future resolves.              *)
Write ==
    /\ cur.phase = "score" /\ cur.at >= cur.raw
    /\ stored' = stored \cup Written
    /\ failed' = IF cur.who = Sweeper THEN failed \ {cur.session} ELSE failed
    /\ request' = [r \in Request |-> IF r = cur.who THEN "applied" ELSE request[r]]
    /\ cur' = Idle
    /\ UNCHANGED <<segmenter, buffer, boundary, stripped, lane, failures, covers, daemon, pooled,
                   relay, scored, sent, lost>>

(* Mutant of Fail: the handler's future is left unresolved.                  *)
FailSilently ==
    /\ cur.phase = "raising"
    /\ failed' = IF cur.who = Sweeper THEN failed \cup {cur.session} ELSE failed
    /\ cur' = Idle
    /\ UNCHANGED <<segmenter, buffer, boundary, stripped, lane, failures, loopVars, pooled, relay, outcome>>

(* A raised drain: its handler learns of it, the sweeper's ledger keeps it.  *)
Fail ==
    /\ cur.phase = "raising"
    /\ failed' = IF cur.who = Sweeper THEN failed \cup {cur.session} ELSE failed
    /\ request' = [r \in Request |-> IF r = cur.who THEN "raised" ELSE request[r]]
    /\ cur' = Idle
    /\ UNCHANGED <<segmenter, buffer, boundary, stripped, lane, failures, covers, daemon, pooled,
                   relay, outcome>>

-----------------------------------------------------------------------------
Next ==
    \/ \E s \in Session : Ingest(s)
    \/ \E r \in Request : Submit(r) \/ AnswerError(r) \/ AckFlush(r) \/ PruneCaches(r) \/ AckEnd(r)
    \/ \E S \in SUBSET Session : Sweep(S)
    \/ Teardown \/ LaneStops
    \/ ReadRaw \/ ReadCursor \/ Score \/ Raises \/ Write \/ Fail

Spec == Init /\ [][Next]_vars

(* The thread runs what is queued, handlers resume, and the sweeper ticks    *)
(* and finds every session that stays idle.  Hosts owe nothing.              *)
Fairness ==
    /\ WF_vars(ReadRaw) /\ WF_vars(ReadCursor) /\ WF_vars(Score) /\ WF_vars(Write) /\ WF_vars(Fail)
    /\ \A r \in Request :
           WF_vars(AnswerError(r)) /\ WF_vars(AckFlush(r)) /\ WF_vars(PruneCaches(r)) /\ WF_vars(AckEnd(r))
    /\ WF_vars(Sweep({s \in Session : open[s] /\ ~settled[s]}))
    /\ WF_vars(LaneStops)
FairSpec == Spec /\ Fairness

-----------------------------------------------------------------------------
(* Properties.                                                               *)

(* A request that was acknowledged has every turn closed when it came in the *)
(* store, but for the batch of a drain that raised: the ack means completed  *)
(* and applied.                                                              *)
AckMeansStored == \A r \in Request : request[r] = "acked" => covers[r] \subseteq stored \cup lost

(* No turn is scored twice, however flushes, sweeps, ends and the teardown   *)
(* interleave, as long as no drain raises: a second pass would credit its    *)
(* points to the pool again.                                                 *)
ScoredOnce == failures = 0 => \A t \in Turn : scored[t] <= 1

(* A daemon that stopped in time, and whose drains never raised, kept every  *)
(* turn it was told of.                                                      *)
NothingLostAtStop ==
    daemon = "stopped" /\ failures = 0 => \A s \in Session : {s} \X (0..opened[s]-1) \subseteq stored

(* Every turn reaches the store as long as no drain raises, also when the    *)
(* host goes silent in the middle of it or the daemon stops.                 *)
TurnsPersist == \A t \in Turn : opened[t[1]] > t[2] ~> (t \in stored \/ failures > 0)

(* No handler waits for ever on its drain, also when drains raise.           *)
RequestsAnswered ==
    \A r \in Request : request[r] = "waiting" ~> request[r] \in {"acked", "error"}

-----------------------------------------------------------------------------
(* Statements of the source's own comments that the code does not keep.      *)

(* The batch of a drain that raised is stored by a retry.                    *)
LostRetried == \A t \in Turn : t \in lost ~> t \in stored

(* A dream event reaches the worker only when the turns that fired it are in *)
(* the store: its snapshot contains them.                                    *)
EventsAfterWrite == \A e \in sent : e \subseteq stored

(* A fired event is handed to the worker in the end.                         *)
EventsSent == relay # <<>> ~> relay = <<>>
=============================================================================
