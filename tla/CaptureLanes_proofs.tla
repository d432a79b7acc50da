------------------------- MODULE CaptureLanes_proofs -------------------------
(* Proofs about CaptureLanes, for every number of sessions, turns, requests, *)
(* sweeps and raised drains: an acknowledgement means stored, a shutdown     *)
(* keeps every turn, and no turn is scored twice.                            *)
(*                                                                           *)
(* None of the three is inductive.  Turns are in four places (open, buffer,  *)
(* batch, store), a cursor says which of the buffered ones are done, and     *)
(* handlers wait on drains that sit in the lane: the invariant says where    *)
(* each turn of each session is, and which drain will reach it.              *)
EXTENDS CaptureLanes, FiniteSetTheorems, TLAPS

Saved == stored \cup lost
Closing(s) == IF open[s] THEN opened[s] - 1 ELSE opened[s]
TurnsOf(s) == {s} \X (0..opened[s]-1)

(* A session that is over and has every turn saved.                          *)
Over(s) == settled[s] /\ TurnsOf(s) \subseteq Saved

(* The drain that runs still reaches turn k of s.                            *)
Reaches(s, k) ==
    /\ cur.phase \in {"raw", "score"} /\ cur.session = s /\ k < cur.raw
    /\ IF cur.phase = "raw" THEN stripped[s] <= k ELSE cur.at <= k

(* A closed turn is saved, in the batch that is scored, or in its buffer and *)
(* ahead of the cursor; the buffer of a live session holds all of them.      *)
BufferOK(s) ==
    /\ opened[s] <= work.turns[s]
    /\ open[s] => opened[s] > 0 /\ ~settled[s]
    /\ boundary[s] => settled[s]
    /\ buffer[s] <= Closing(s)
    /\ ~settled[s] => buffer[s] = Closing(s) /\ stripped[s] <= buffer[s]
    /\ \A k \in 0..Closing(s)-1 :
           <<s, k>> \in Saved \cup cur.batch \/ (stripped[s] <= k /\ k < buffer[s])
BuffersOK == \A s \in Session : BufferOK(s)

(* The drain that runs has the session's cursor, unless the session is over  *)
(* and was pruned under it.                                                  *)
CursorOK ==
    /\ cur.phase \in {"raw", "raising"} => cur.batch = {}
    /\ cur.phase \in {"raw", "score"} => settled[cur.session] \/ cur.raw <= buffer[cur.session]
    /\ cur.phase = "score" => /\ stripped[cur.session] <= cur.at
                              /\ stripped[cur.session] = cur.at \/ Over(cur.session)

(* A drain belongs to the session of the request that waits for it, and the  *)
(* turns that request covers are saved or still to be reached by it.         *)
WaitsOK(d) == d.who \in Request => request[d.who] # "none" /\ d.who.session = d.session

CoversOK ==
    cur.who \in Request /\ cur.phase # "raising" =>
        \A k \in 0..MaxTurns-1 : <<cur.session, k>> \in covers[cur.who] =>
            <<cur.session, k>> \in Saved \cup cur.batch \/ Reaches(cur.session, k)

(* A request covers closed turns, an end all turns of its settled session;   *)
(* what was answered without an error is saved.                              *)
RequestOK(r) ==
    /\ request[r] # "none" => covers[r] \subseteq {r.session} \X (0..Closing(r.session)-1)
    /\ request[r] # "none" /\ r.kind = "end" =>
           settled[r.session] /\ covers[r] = TurnsOf(r.session)
    /\ request[r] \in {"applied", "pruning", "acked"} => covers[r] \subseteq Saved
    /\ request[r] = "pruning" => r.kind = "end"

RequestsOK ==
    /\ \A i \in DOMAIN lane : WaitsOK(lane[i])
    /\ WaitsOK(cur) /\ CoversOK
    /\ \A r \in Request : RequestOK(r)

(* Before any drain raised there is nothing to retry.                        *)
QuietOK ==
    failures = 0 => /\ lost = {} /\ failed = {} /\ cur.phase # "raising"
                    /\ \A r \in Request : request[r] \notin {"raised", "error"}

(* After the teardown every turn is saved or has a drain that reaches it.    *)
StopOK ==
    /\ daemon = "stopped" => lane = <<>> /\ cur = Idle
    /\ daemon # "serving" => \A s \in Session : ~open[s]
    /\ daemon # "serving" /\ failures = 0 =>
           \A s \in Session : \A k \in 0..opened[s]-1 :
               \/ <<s, k>> \in Saved \cup cur.batch \/ Reaches(s, k)
               \/ \E i \in DOMAIN lane : lane[i].session = s

Sound == TypeOK /\ BuffersOK /\ CursorOK /\ RequestsOK /\ QuietOK /\ StopOK

(* For hosts that send nothing after an end: a session has one end, no drain *)
(* follows the drain of the end, and only a pruned session has turns behind  *)
(* its cursor that are not scored ones.                                      *)
Ends(s) == {r \in Request : r.kind = "end" /\ r.session = s /\ request[r] # "none"}
Pruned(s) == \E r \in Ends(s) : request[r] \in {"pruning", "acked"}

EndOK(s, r) ==
    /\ Ends(s) = {r}
    /\ request[r] # "acked" => boundary[s]
    /\ request[r] = "acked" => buffer[s] = 0
    /\ request[r] \in {"applied", "pruning", "acked"} =>
           (cur = Idle \/ cur.session # s) /\ \A i \in DOMAIN lane : lane[i].session # s
    /\ cur.who = r => \A i \in DOMAIN lane : lane[i].session # s
    /\ \A i, j \in DOMAIN lane : i < j /\ lane[i].who = r => lane[j].session # s
LastDrain == failures = 0 => \A s \in Session : \A r \in Ends(s) : EndOK(s, r)

Once ==
    failures = 0 =>
        /\ \A s \in Session : \A k \in 0..MaxTurns-1 :
               scored[<<s, k>>] <= 1 /\ (~Pruned(s) /\ stripped[s] <= k => scored[<<s, k>>] = 0)
        /\ cur # Idle => ~Pruned(cur.session)
        /\ cur.phase = "score" => stripped[cur.session] = cur.at

Orderly == Sound /\ LastDrain /\ Once

-----------------------------------------------------------------------------
(* A set is listed in full.                                                  *)
LEMMA Listed ==
    ASSUME NEW S, IsFiniteSet(S)
    PROVE /\ Cardinality(S) \in Nat
          /\ SetToSeq(S) \in [1..Cardinality(S) -> S]
          /\ \A s \in S : \E i \in 1..Cardinality(S) : SetToSeq(S)[i] = s
<1> DEFINE D == 1..Cardinality(S)
<1>1. Cardinality(S) \in Nat /\ ExistsBijection(D, S)
    BY FS_CardinalityType
<1>2. PICK b : b \in Bijection(D, S)
    BY <1>1 DEF ExistsBijection
<1>3. b \in [D -> S] /\ IsInjective(b)
    BY <1>2 DEF Bijection, Injection
<1>4. SetToSeq(S) \in [D -> S] /\ IsInjective(SetToSeq(S))
    BY <1>3, Zenon DEF SetToSeq
<1>5. SetToSeq(S) \in Injection(D, S)
    BY <1>4 DEF Injection
<1>6. IsFiniteSet(D) /\ Cardinality(D) = Cardinality(S)
    BY <1>1, FS_Interval
<1>7. SetToSeq(S) \in Surjection(D, S)
    BY <1>5, <1>6, FS_Injection
<1> QED
    BY <1>1, <1>4, <1>7 DEF Surjection

Drains == [session: Session, who: Who]

(* The drains of a sweep and of the teardown: one for each session of S.     *)
LEMMA SweptIs ==
    ASSUME NEW S \in SUBSET Session
    PROVE /\ Swept(S) \in Seq(Drains)
          /\ \A i \in DOMAIN Swept(S) : Swept(S)[i].session \in S /\ Swept(S)[i].who = Sweeper
<1>1. IsFiniteSet(S)
    BY LanesAssumption, FS_Subset
<1>2. Cardinality(S) \in Nat /\ \A i \in 1..Cardinality(S) : SetToSeq(S)[i] \in S
    BY <1>1, Listed
<1>3. \A i \in 1..Cardinality(S) : Drain(SetToSeq(S)[i], Sweeper) \in Drains
    BY <1>2 DEF Drain, Drains, Who
<1>4. Swept(S) \in [1..Cardinality(S) -> Drains] /\ DOMAIN Swept(S) = 1..Cardinality(S)
    BY <1>3 DEF Swept
<1>5. \A i \in 1..Cardinality(S) : Swept(S)[i] = [session |-> SetToSeq(S)[i], who |-> Sweeper]
    BY DEF Swept, Drain
<1>6. Swept(S) \in Seq(Drains)
    BY <1>2, <1>4
<1> QED
    BY <1>2, <1>4, <1>5, <1>6

LEMMA FinalIs ==
    ASSUME NEW S \in SUBSET Session
    PROVE /\ Final(S) \in Seq(Drains)
          /\ \A i \in DOMAIN Final(S) : Final(S)[i].session \in S /\ Final(S)[i].who = Nobody
          /\ \A s \in S : \E i \in DOMAIN Final(S) : Final(S)[i].session = s
<1>1. IsFiniteSet(S)
    BY LanesAssumption, FS_Subset
<1>2. /\ Cardinality(S) \in Nat
      /\ \A i \in 1..Cardinality(S) : SetToSeq(S)[i] \in S
      /\ \A s \in S : \E i \in 1..Cardinality(S) : SetToSeq(S)[i] = s
    BY <1>1, Listed
<1>3. \A i \in 1..Cardinality(S) : Drain(SetToSeq(S)[i], Nobody) \in Drains
    BY <1>2 DEF Drain, Drains, Who
<1>4. Final(S) \in [1..Cardinality(S) -> Drains] /\ DOMAIN Final(S) = 1..Cardinality(S)
    BY <1>3 DEF Final
<1>5. \A i \in 1..Cardinality(S) : Final(S)[i] = [session |-> SetToSeq(S)[i], who |-> Nobody]
    BY DEF Final, Drain
<1>6. Final(S) \in Seq(Drains)
    BY <1>2, <1>4
<1> QED
    BY <1>2, <1>4, <1>5, <1>6

(* Drains are appended to the lane or taken from its head.                   *)
LEMMA Appended ==
    ASSUME NEW q \in Seq(Drains), NEW a \in Seq(Drains)
    PROVE /\ q \o a \in Seq(Drains)
          /\ \A i \in DOMAIN q : i \in DOMAIN (q \o a) /\ (q \o a)[i] = q[i]
          /\ \A i \in DOMAIN a : Len(q) + i \in DOMAIN (q \o a) /\ (q \o a)[Len(q) + i] = a[i]
          /\ \A i \in DOMAIN (q \o a) :
                 \/ i \in DOMAIN q /\ (q \o a)[i] = q[i]
                 \/ i > Len(q) /\ i - Len(q) \in DOMAIN a /\ (q \o a)[i] = a[i - Len(q)]
OBVIOUS

LEMMA OneMore ==
    ASSUME NEW q \in Seq(Drains), NEW d \in Drains
    PROVE /\ Append(q, d) \in Seq(Drains)
          /\ \A i \in DOMAIN q : i \in DOMAIN Append(q, d) /\ Append(q, d)[i] = q[i]
          /\ \A i \in DOMAIN Append(q, d) :
                 \/ i \in DOMAIN q /\ Append(q, d)[i] = q[i]
                 \/ i = Len(q) + 1 /\ Append(q, d)[i] = d
OBVIOUS

LEMMA Taken ==
    ASSUME NEW q \in Seq(Drains), q # <<>>
    PROVE /\ Tail(q) \in Seq(Drains) /\ Head(q) \in Drains
          /\ 1 \in DOMAIN q /\ Head(q) = q[1]
          /\ \A i \in DOMAIN Tail(q) : i + 1 \in DOMAIN q /\ Tail(q)[i] = q[i+1]
          /\ \A i \in DOMAIN q : i # 1 => i - 1 \in DOMAIN Tail(q) /\ Tail(q)[i-1] = q[i]
OBVIOUS

-----------------------------------------------------------------------------
(* Types.                                                                    *)

(* Closing turns keeps the buffers within their bound.                       *)
LEMMA CloseType ==
    ASSUME TypeOK, BuffersOK, NEW S, CloseTurns(S)
    PROVE buffer' \in [Session -> 0..MaxTurns] /\ Closed(S) \in [Session -> BOOLEAN]
<1>1. \A s \in Session : open[s] => buffer[s] + 1 \in 0..MaxTurns
    <2> SUFFICES ASSUME NEW s \in Session, open[s] PROVE buffer[s] + 1 \in 0..MaxTurns
        OBVIOUS
    <2>1. opened[s] \in 0..MaxTurns /\ buffer[s] \in 0..MaxTurns /\ MaxTurns \in Nat
        BY LanesAssumption DEF TypeOK
    <2>2. buffer[s] <= opened[s] - 1
        BY DEF BuffersOK, BufferOK, Closing
    <2> QED
        BY <2>1, <2>2
<1> QED
    BY <1>1 DEF TypeOK, CloseTurns, Closed

Phases == {"raw", "score", "raising"}
Curs == [phase: Phases, session: Session, who: Who, raw: 0..MaxTurns, at: 0..MaxTurns,
         batch: SUBSET Turn]

(* The drain that runs, taken apart.                                         *)
LEMMA CurIs ==
    ASSUME TypeOK
    PROVE /\ cur.phase \in {"idle"} \cup Phases
          /\ cur.phase = "idle" <=> cur = Idle
          /\ cur # Idle => cur \in Curs
BY DEF TypeOK, Curs, Phases, Idle

LEMMA ParamTypes ==
    /\ MaxTurns \in Nat
    /\ \A r \in Request : r.session \in Session /\ r.kind \in {"end", "flush"} /\ r \in Who
    /\ Sweeper \in Who /\ Nobody \in Who /\ Nobody # Sweeper
    /\ Nobody \notin Request /\ Sweeper \notin Request
BY LanesAssumption DEF Request, Who

(* Handlers move; the rest of the state keeps its type.                      *)
States == {"none", "waiting", "applied", "raised", "pruning", "acked", "error"}

LEMMA LaneType ==
    ASSUME TypeOK
    PROVE lane \in Seq(Drains) /\ failed \in SUBSET Session /\ request \in [Request -> States]
BY DEF TypeOK, Drains, States

LEMMA LoopTypes ==
    ASSUME Sound,
           \/ \E s \in Session : Ingest(s)
           \/ \E r \in Request : Submit(r)
           \/ \E S \in SUBSET Session : Sweep(S)
           \/ Teardown
    PROVE TypeOK'
<1>s. TypeOK /\ BuffersOK
    BY DEF Sound
<1> USE ParamTypes, LaneType, <1>s
<1>1. ASSUME NEW s \in Session, Ingest(s) PROVE TypeOK'
    <2>1. buffer' \in [Session -> 0..MaxTurns]
        BY <1>1, CloseType DEF Ingest
    <2>2. opened[s] + 1 \in 0..MaxTurns
        BY <1>1, LanesAssumption DEF Ingest, TypeOK
    <2> QED
        BY <1>1, <2>1, <2>2 DEF TypeOK, Ingest, laneVars, loopVars, outcome
<1>2. ASSUME NEW r \in Request, Submit(r) PROVE TypeOK'
    <2> DEFINE s == r.session
               closes == IF settled[s] THEN {} ELSE {s}
    <2>1. CloseTurns(closes) /\ open' = Closed(closes)
        BY <1>2 DEF Submit
    <2>2. buffer' \in [Session -> 0..MaxTurns] /\ open' \in [Session -> BOOLEAN]
        BY <2>1, CloseType
    <2>3. Drain(s, r) \in Drains
        BY DEF Drain, Drains
    <2>4. lane' \in Seq(Drains)
        BY <1>2, <2>3, OneMore DEF Submit
    <2>5. {s} \X (0..opened[s]-1) \subseteq Turn
        BY DEF TypeOK, Turn
    <2>6. covers' \in [Request -> SUBSET Turn]
        BY <1>2, <2>5 DEF Submit, TypeOK
    <2>7. settled' \in [Session -> BOOLEAN] /\ boundary' \in [Session -> BOOLEAN]
        BY <1>2 DEF Submit, TypeOK
    <2>8. request' \in [Request -> States]
        BY <1>2 DEF Submit, States
    <2> QED
        BY <1>2, <2>2, <2>4, <2>6, <2>7, <2>8 DEF TypeOK, Submit, outcome, Drains, States
<1>3. ASSUME NEW S \in SUBSET Session, Sweep(S) PROVE TypeOK'
    <2>1. CloseTurns(S) /\ open' = Closed(S)
        BY <1>3 DEF Sweep
    <2>2. buffer' \in [Session -> 0..MaxTurns] /\ open' \in [Session -> BOOLEAN]
        BY <2>1, CloseType
    <2>3. lane' = lane \o Swept(failed) \o Swept(S)
        BY <1>3 DEF Sweep
    <2>4. lane' \in Seq(Drains)
        BY <2>3, SweptIs, Appended
    <2> QED
        BY <1>3, <2>2, <2>4 DEF TypeOK, Sweep, loopVars, outcome, Drains
<1>4. CASE Teardown
    <2>1. CloseTurns(Session) /\ open' = Closed(Session)
        BY <1>4 DEF Teardown
    <2>2. buffer' \in [Session -> 0..MaxTurns] /\ open' \in [Session -> BOOLEAN]
        BY <2>1, CloseType
    <2>3. Buffered \in SUBSET Session /\ lane' = lane \o Final(Buffered)
        BY <1>4 DEF Teardown, Buffered
    <2>4. lane' \in Seq(Drains)
        BY <2>3, FinalIs, Appended
    <2> QED
        BY <1>4, <2>2, <2>4 DEF TypeOK, Teardown, outcome, Drains
<1> QED
    BY <1>1, <1>2, <1>3, <1>4

LEMMA HandlerTypes ==
    ASSUME TypeOK,
           \/ \E r \in Request : AnswerError(r) \/ AckFlush(r) \/ PruneCaches(r) \/ AckEnd(r)
           \/ LaneStops
    PROVE TypeOK'
<1> USE ParamTypes
<1>1. ASSUME NEW r \in Request, AnswerError(r) \/ AckFlush(r) PROVE TypeOK'
    BY <1>1 DEF TypeOK, AnswerError, AckFlush, segmenter, laneVars, outcome
<1>2. ASSUME NEW r \in Request, PruneCaches(r) PROVE TypeOK'
    BY <1>2 DEF TypeOK, PruneCaches, segmenter, laneVars, outcome
<1>3. ASSUME NEW r \in Request, AckEnd(r) PROVE TypeOK'
    <2>1. sent' \subseteq SUBSET Turn /\ relay' \in Seq(SUBSET Turn)
        BY <1>3 DEF AckEnd, TypeOK, Range
    <2>2. buffer' \in [Session -> 0..MaxTurns] /\ boundary' \in [Session -> BOOLEAN]
        BY <1>3 DEF AckEnd, TypeOK
    <2>3. request' \in [Request -> States]
        BY <1>3, LaneType DEF AckEnd, States
    <2> QED
        BY <1>3, <2>1, <2>2, <2>3 DEF TypeOK, AckEnd, segmenter, laneVars, States
<1>4. CASE LaneStops
    BY <1>4 DEF TypeOK, LaneStops, segmenter, laneVars, outcome
<1> QED
    BY <1>1, <1>2, <1>3, <1>4

LEMMA ThreadTypes ==
    ASSUME Sound, ReadRaw \/ ReadCursor \/ Score \/ Raises \/ Write \/ Fail
    PROVE TypeOK'
<1>s. TypeOK /\ CursorOK
    BY DEF Sound
<1> USE ParamTypes, LaneType, <1>s
<1>1. CASE ReadRaw
    <2>1. lane # <<>> /\ Head(lane) \in Drains /\ lane' \in Seq(Drains)
        BY <1>1, Taken DEF ReadRaw
    <2>2. buffer[Head(lane).session] \in 0..MaxTurns
        BY <2>1 DEF TypeOK, Drains
    <2>3. cur' = [phase |-> "raw", session |-> Head(lane).session, who |-> Head(lane).who,
                  raw |-> buffer[Head(lane).session], at |-> 0, batch |-> {}]
        BY <1>1 DEF ReadRaw, Idle
    <2>4. cur' \in Curs
        BY <2>1, <2>2, <2>3 DEF Curs, Phases, Drains
    <2> QED
        BY <1>1, <2>1, <2>4 DEF TypeOK, ReadRaw, segmenter, loopVars, outcome, Drains, Curs, Phases
<1>2. CASE ReadCursor
    <2>1. cur \in Curs
        BY <1>2, CurIs DEF ReadCursor, Idle
    <2>2. cur' \in Curs
        BY <1>2, <2>1 DEF ReadCursor, Curs, Phases, TypeOK
    <2> QED
        BY <1>2, <2>2 DEF TypeOK, ReadCursor, segmenter, loopVars, outcome, Curs, Phases
<1>3. CASE Score
    <2> DEFINE t == <<cur.session, cur.at>>
    <2>1. cur \in Curs /\ cur.phase = "score" /\ cur.at < cur.raw
        BY <1>3, CurIs DEF Score, Idle
    <2>2. cur.session \in Session /\ cur.at + 1 \in 0..MaxTurns /\ cur.at \in 0..MaxTurns-1
        BY <2>1 DEF Curs
    <2>3. t \in Turn
        BY <2>2 DEF Turn
    <2>4. cur' = [cur EXCEPT !.at = @ + 1, !.batch = @ \cup {t}]
        BY <1>3 DEF Score
    <2>5. cur' \in Curs
        BY <2>1, <2>2, <2>3, <2>4 DEF Curs
    <2>6. stripped' \in [Session -> 0..MaxTurns]
        <3>1. stripped[cur.session] <= cur.at /\ stripped[cur.session] \in 0..MaxTurns
            BY <2>1, <2>2 DEF CursorOK, TypeOK
        <3>2. stripped[cur.session] + 1 \in 0..MaxTurns
            BY <3>1, <2>2
        <3>3. stripped' = [stripped EXCEPT ![cur.session] = @ + 1]
            BY <1>3 DEF Score, Advanced
        <3> QED
            BY <3>2, <3>3 DEF TypeOK
    <2>7. scored' \in [Turn -> Nat]
        BY <1>3, <2>3 DEF Score, TypeOK
    <2>8. pooled' \subseteq Turn /\ relay' \in Seq(SUBSET Turn)
        <3>1. pooled \cup {t} \in SUBSET Turn /\ relay \in Seq(SUBSET Turn)
            BY <2>3 DEF TypeOK
        <3>2. Append(relay, pooled \cup {t}) \in Seq(SUBSET Turn)
            BY <3>1
        <3> QED
            BY <1>3, <3>1, <3>2 DEF Score
    <2> QED
        BY <1>3, <2>5, <2>6, <2>7, <2>8 DEF TypeOK, Score, segmenter, loopVars, Curs, Phases
<1>4. CASE Raises
    <2>1. cur \in Curs
        BY <1>4, CurIs DEF Raises, Idle
    <2>2. cur' \in Curs /\ lost' \subseteq Turn
        BY <1>4, <2>1 DEF Raises, Curs, Phases, TypeOK
    <2>3. failures' \in 0..work.failures
        BY <1>4, LanesAssumption DEF Raises, TypeOK
    <2> QED
        BY <1>4, <2>2, <2>3 DEF TypeOK, Raises, segmenter, loopVars, Curs, Phases
<1>5. CASE Write
    <2>1. cur \in Curs
        BY <1>5, CurIs DEF Write, Idle
    <2>2. stored' \subseteq Turn
        BY <1>5, <2>1 DEF Write, Written, Curs, TypeOK
    <2>3. failed' \subseteq Session /\ request' \in [Request -> States]
        BY <1>5 DEF Write, States
    <2> QED
        BY <1>5, <2>2, <2>3 DEF TypeOK, Write, segmenter, States
<1>6. CASE Fail
    <2>1. cur \in Curs
        BY <1>6, CurIs DEF Fail, Idle
    <2>3. failed' \subseteq Session /\ request' \in [Request -> States]
        BY <1>6, <2>1 DEF Fail, States, Curs
    <2> QED
        BY <1>6, <2>3 DEF TypeOK, Fail, segmenter, outcome, States
<1> QED
    BY <1>1, <1>2, <1>3, <1>4, <1>5, <1>6

(* What a sweep and the teardown add to the lane.                            *)
LEMMA SweptLane ==
    ASSUME TypeOK, NEW S \in SUBSET Session, Sweep(S)
    PROVE /\ \A i \in DOMAIN lane : i \in DOMAIN lane' /\ lane'[i] = lane[i]
          /\ \A i \in DOMAIN lane' :
                 \/ i \in DOMAIN lane /\ lane'[i] = lane[i]
                 \/ i > Len(lane) /\ lane'[i].who = Sweeper /\ lane'[i].session \in S \cup failed
<1>1. lane \in Seq(Drains) /\ failed \in SUBSET Session
    BY LaneType
<1> DEFINE a == Swept(failed)
           b == Swept(S)
           m == lane \o a
<1>2. /\ a \in Seq(Drains) /\ \A i \in DOMAIN a : a[i].session \in failed /\ a[i].who = Sweeper
      /\ b \in Seq(Drains) /\ \A i \in DOMAIN b : b[i].session \in S /\ b[i].who = Sweeper
    BY <1>1, SweptIs
<1>3. lane' = m \o b
    BY DEF Sweep
<1> HIDE DEF a, b
<1>4. /\ m \in Seq(Drains) /\ \A i \in DOMAIN lane : i \in DOMAIN m /\ m[i] = lane[i]
      /\ \A i \in DOMAIN m : \/ i \in DOMAIN lane /\ m[i] = lane[i]
                             \/ i > Len(lane) /\ m[i].who = Sweeper /\ m[i].session \in failed
      /\ Len(m) >= Len(lane)
    BY <1>1, <1>2, Appended
<1> HIDE DEF m
<1>5. /\ \A i \in DOMAIN m : i \in DOMAIN (m \o b) /\ (m \o b)[i] = m[i]
      /\ \A i \in DOMAIN (m \o b) : \/ i \in DOMAIN m /\ (m \o b)[i] = m[i]
                                    \/ i > Len(m) /\ i - Len(m) \in DOMAIN b /\ (m \o b)[i] = b[i - Len(m)]
    BY <1>2, <1>4, Appended
<1>6. Len(lane) \in Nat /\ Len(m) \in Nat /\ DOMAIN (m \o b) \subseteq Nat
    BY <1>1, <1>2, <1>4
<1> QED
    BY <1>2, <1>3, <1>4, <1>5, <1>6

LEMMA FinalLane ==
    ASSUME TypeOK, Teardown
    PROVE /\ \A i \in DOMAIN lane : i \in DOMAIN lane' /\ lane'[i] = lane[i]
          /\ \A i \in DOMAIN lane' :
                 \/ i \in DOMAIN lane /\ lane'[i] = lane[i]
                 \/ i > Len(lane) /\ lane'[i].who = Nobody /\ lane'[i].session \in Buffered
          /\ \A s \in Buffered : \E i \in DOMAIN lane' : lane'[i].session = s
<1>1. lane \in Seq(Drains) /\ Buffered \in SUBSET Session
    BY LaneType DEF Buffered
<1> DEFINE b == Final(Buffered)
<1>2. /\ b \in Seq(Drains) /\ \A i \in DOMAIN b : b[i].session \in Buffered /\ b[i].who = Nobody
      /\ \A s \in Buffered : \E i \in DOMAIN b : b[i].session = s
    BY <1>1, FinalIs
<1>3. lane' = lane \o b
    BY DEF Teardown
<1> HIDE DEF b
<1>4. /\ \A i \in DOMAIN lane : i \in DOMAIN (lane \o b) /\ (lane \o b)[i] = lane[i]
      /\ \A i \in DOMAIN b : Len(lane) + i \in DOMAIN (lane \o b) /\ (lane \o b)[Len(lane) + i] = b[i]
      /\ \A i \in DOMAIN (lane \o b) :
             \/ i \in DOMAIN lane /\ (lane \o b)[i] = lane[i]
             \/ i > Len(lane) /\ i - Len(lane) \in DOMAIN b /\ (lane \o b)[i] = b[i - Len(lane)]
    BY <1>1, <1>2, Appended
<1>5. \A i \in DOMAIN lane : i \in DOMAIN lane' /\ lane'[i] = lane[i]
    BY <1>3, <1>4
<1>6. ASSUME NEW i \in DOMAIN lane'
      PROVE \/ i \in DOMAIN lane /\ lane'[i] = lane[i]
            \/ i > Len(lane) /\ lane'[i].who = Nobody /\ lane'[i].session \in Buffered
    BY <1>2, <1>3, <1>4, <1>6
<1>7. ASSUME NEW s \in Buffered PROVE \E i \in DOMAIN lane' : lane'[i].session = s
    <2>1. PICK j \in DOMAIN b : b[j].session = s
        BY <1>2
    <2>2. Len(lane) + j \in DOMAIN lane' /\ lane'[Len(lane) + j] = b[j]
        BY <1>3, <1>4
    <2> QED
        BY <2>1, <2>2
<1> QED
    BY <1>5, <1>6, <1>7

(* Every step keeps every variable in its type.                              *)
LEMMA StepType == ASSUME Sound, [Next]_vars PROVE TypeOK'
<1>s. TypeOK
    BY DEF Sound
<1>1. CASE UNCHANGED vars
    BY <1>s, <1>1 DEF TypeOK, vars, segmenter, laneVars, loopVars, outcome
<1> QED
    BY <1>s, <1>1, LoopTypes, HandlerTypes, ThreadTypes DEF Next

-----------------------------------------------------------------------------
(* Buffers and cursors.                                                      *)

(* What is saved, settled and closed stays so.                               *)
LEMMA Monotone ==
    ASSUME Sound, [Next]_vars
    PROVE /\ work' = work /\ Saved \subseteq Saved'
          /\ \A s \in Session : /\ settled[s] => settled'[s] /\ opened'[s] = opened[s]
                                /\ opened[s] <= opened'[s] /\ Closing(s) <= Closing(s)'
<1>s. TypeOK
    BY DEF Sound
<1>1. work' = work /\ Saved \subseteq Saved'
    BY DEF Next, Ingest, Submit, AnswerError, AckFlush, PruneCaches, AckEnd, Sweep, Teardown, LaneStops,
           ReadRaw, ReadCursor, Score, Raises, Write, Fail, vars, segmenter, outcome, Saved
<1>2. CASE UNCHANGED <<opened, open, settled>>
    BY <1>1, <1>2, <1>s DEF Closing, TypeOK
<1>3. ASSUME NEW t \in Session, Ingest(t) PROVE
          \A s \in Session : /\ settled[s] => settled'[s] /\ opened'[s] = opened[s]
                             /\ opened[s] <= opened'[s] /\ Closing(s) <= Closing(s)'
    BY <1>3, <1>s DEF Ingest, TypeOK, Closing
<1>4. ASSUME opened' = opened, \E S : open' = Closed(S), \A s \in Session : settled[s] => settled'[s]
      PROVE \A s \in Session : /\ settled[s] => settled'[s] /\ opened'[s] = opened[s]
                               /\ opened[s] <= opened'[s] /\ Closing(s) <= Closing(s)'
    BY <1>4, <1>s DEF Closed, Closing, TypeOK
<1>5. ASSUME NEW r \in Request, Submit(r) PROVE \A s \in Session : settled[s] => settled'[s]
    BY <1>5, <1>s, ParamTypes DEF Submit, TypeOK
<1>6. (\E r \in Request : Submit(r)) \/ (\E S \in SUBSET Session : Sweep(S)) \/ Teardown
          => opened' = opened /\ \E S : open' = Closed(S)
    BY DEF Submit, Sweep, Teardown
<1>7. (\E S \in SUBSET Session : Sweep(S)) \/ Teardown => settled' = settled
    BY DEF Sweep, Teardown
<1>8. (\E s \in Session : Ingest(s)) \/ (\E r \in Request : Submit(r))
      \/ (\E S \in SUBSET Session : Sweep(S)) \/ Teardown \/ UNCHANGED <<opened, open, settled>>
    BY DEF Next, AnswerError, AckFlush, PruneCaches, AckEnd, LaneStops, ReadRaw, ReadCursor, Score,
           Raises, Write, Fail, vars, segmenter
<1> QED
    BY <1>1, <1>2, <1>3, <1>4, <1>5, <1>6, <1>7, <1>8

(* A session that is over stays over.                                        *)
LEMMA OverStays ==
    ASSUME Sound, [Next]_vars, NEW s \in Session, Over(s)
    PROVE Over(s)'
<1>1. settled'[s] /\ opened'[s] = opened[s] /\ Saved \subseteq Saved'
    BY Monotone DEF Over
<1> QED
    BY <1>1 DEF Over, TurnsOf

(* Closing turns keeps the buffers in order.                                 *)
LEMMA CloseKeeps ==
    ASSUME Sound, NEW S \in SUBSET Session, CloseTurns(S), open' = Closed(S),
           UNCHANGED <<work, opened, stripped, cur, stored, lost>>,
           \A s \in Session : /\ settled[s] => settled'[s]
                              /\ settled'[s] => settled[s] \/ s \in S
                              /\ boundary'[s] => settled'[s]
    PROVE BuffersOK' /\ \A s \in Session : buffer[s] <= buffer'[s]
<1>s. TypeOK /\ BuffersOK
    BY DEF Sound
<1> SUFFICES ASSUME NEW s \in Session PROVE BufferOK(s)' /\ buffer[s] <= buffer'[s]
    BY DEF BuffersOK
<1>1. BufferOK(s) /\ buffer[s] \in Nat /\ opened[s] \in Nat /\ stripped[s] \in Nat
    BY <1>s DEF BuffersOK, TypeOK
<1>2. buffer'[s] = (IF s \in S /\ open[s] THEN buffer[s] + 1 ELSE buffer[s])
      /\ open'[s] = (s \notin S /\ open[s])
    BY DEF CloseTurns, Closed
<1>3. CASE s \in S /\ open[s]
    <2>1. Closing(s) = opened[s] - 1 /\ Closing(s)' = opened[s] /\ buffer'[s] = buffer[s] + 1
          /\ buffer[s] = Closing(s) /\ stripped[s] <= buffer[s] /\ ~open'[s]
        BY <1>1, <1>2, <1>3 DEF BufferOK, Closing
    <2> QED
        BY <1>1, <2>1 DEF BufferOK, Saved
<1>4. CASE ~(s \in S /\ open[s])
    <2>1. buffer'[s] = buffer[s] /\ open'[s] = open[s] /\ Closing(s)' = Closing(s)
        BY <1>2, <1>4, <1>s DEF Closing, TypeOK
    <2>2. open[s] => ~settled'[s]
        BY <1>1, <1>4 DEF BufferOK
    <2> QED
        BY <1>1, <2>1, <2>2 DEF BufferOK, Saved
<1> QED
    BY <1>3, <1>4

LEMMA StepBuffers == ASSUME Sound, [Next]_vars PROVE BuffersOK'
<1>s. TypeOK /\ BuffersOK /\ CursorOK /\ RequestsOK
    BY DEF Sound
<1>t. TypeOK'
    BY StepType
<1> USE ParamTypes
<1>1. ASSUME NEW t \in Session, Ingest(t) PROVE BuffersOK'
    <2> SUFFICES ASSUME NEW s \in Session PROVE BufferOK(s)'
        BY DEF BuffersOK
    <2>1. BufferOK(s) /\ buffer[s] \in Nat /\ opened[s] \in Nat /\ stripped[s] \in Nat
        BY <1>s DEF BuffersOK, TypeOK
    <2>2. UNCHANGED <<work, settled, boundary, stripped, cur, stored, lost>>
        BY <1>1 DEF Ingest, laneVars, outcome
    <2>3. CASE s # t
        <3>1. UNCHANGED <<buffer[s], opened[s], open[s]>>
            BY <1>1, <2>3, <1>s DEF Ingest, CloseTurns, TypeOK
        <3> QED
            BY <2>1, <2>2, <3>1 DEF BufferOK, Closing, Saved
    <2>4. CASE s = t
        <3>1. opened'[s] = opened[s] + 1 /\ open'[s] /\ ~settled[s] /\ opened[s] < work.turns[s]
              /\ buffer'[s] = (IF open[s] THEN buffer[s] + 1 ELSE buffer[s])
            BY <1>1, <2>4, <1>s DEF Ingest, CloseTurns, TypeOK
        <3>2. buffer'[s] = opened[s] /\ Closing(s)' = opened[s] /\ stripped[s] <= buffer[s]
              /\ buffer[s] = Closing(s) /\ opened'[s] <= work.turns[s]
            <4>1. work.turns[s] \in Nat
                BY <1>s, LanesAssumption DEF TypeOK
            <4> QED
                BY <2>1, <3>1, <4>1 DEF BufferOK, Closing
        <3>3. \A k \in 0..opened[s]-1 : k \in 0..Closing(s)-1 \/ (k = buffer[s] /\ k < opened[s])
            BY <2>1, <3>2 DEF Closing
        <3> QED
            BY <2>1, <2>2, <3>1, <3>2, <3>3 DEF BufferOK, Saved
    <2> QED
        BY <2>3, <2>4
<1>2. ASSUME NEW r \in Request, Submit(r) PROVE BuffersOK'
    <2> DEFINE closes == IF settled[r.session] THEN {} ELSE {r.session}
    <2>1. CloseTurns(closes) /\ open' = Closed(closes) /\ closes \in SUBSET Session
          /\ UNCHANGED <<work, opened, stripped, cur, stored, lost>>
        BY <1>2 DEF Submit, outcome
    <2>2. \A s \in Session : /\ settled[s] => settled'[s]
                             /\ settled'[s] => settled[s] \/ s \in closes
                             /\ boundary'[s] => settled'[s]
        BY <1>2, <1>s DEF Submit, TypeOK, BuffersOK, BufferOK
    <2> QED
        BY <2>1, <2>2, CloseKeeps
<1>3. ASSUME NEW S \in SUBSET Session, Sweep(S) PROVE BuffersOK'
    <2>1. CloseTurns(S) /\ open' = Closed(S) /\ UNCHANGED <<work, opened, stripped, cur, stored, lost>>
          /\ UNCHANGED <<settled, boundary>>
        BY <1>3 DEF Sweep, outcome
    <2>2. \A s \in Session : boundary[s] => settled[s]
        BY <1>s DEF BuffersOK, BufferOK
    <2> QED
        BY <2>1, <2>2, CloseKeeps
<1>4. CASE Teardown
    <2>1. CloseTurns(Session) /\ open' = Closed(Session)
          /\ UNCHANGED <<work, opened, stripped, cur, stored, lost>> /\ UNCHANGED <<settled, boundary>>
        BY <1>4 DEF Teardown, outcome
    <2>2. \A s \in Session : boundary[s] => settled[s]
        BY <1>s DEF BuffersOK, BufferOK
    <2> QED
        BY <2>1, <2>2, CloseKeeps
<1>5. ASSUME NEW r \in Request, PruneCaches(r) PROVE BuffersOK'
    <2> SUFFICES ASSUME NEW s \in Session PROVE BufferOK(s)'
        BY DEF BuffersOK
    <2>1. BufferOK(s) /\ stripped[s] \in Nat /\ buffer[s] \in Nat /\ opened[s] \in Nat
        BY <1>s DEF BuffersOK, TypeOK
    <2>2. UNCHANGED <<work, opened, open, settled, boundary, buffer, cur, stored, lost>>
        BY <1>5 DEF PruneCaches, segmenter, laneVars, outcome
    <2>3. stripped'[s] = stripped[s] \/ stripped'[s] = 0
        BY <1>5, <1>s DEF PruneCaches, TypeOK
    <2> QED
        BY <2>1, <2>2, <2>3 DEF BufferOK, Closing, Saved
<1>6. ASSUME NEW r \in Request, AckEnd(r) PROVE BuffersOK'
    <2> SUFFICES ASSUME NEW s \in Session PROVE BufferOK(s)'
        BY DEF BuffersOK
    <2>1. BufferOK(s) /\ buffer[s] \in Nat /\ opened[s] \in Nat
        BY <1>s DEF BuffersOK, TypeOK
    <2>2. UNCHANGED <<work, opened, open, settled, stripped, cur, stored, lost>>
        BY <1>6 DEF AckEnd, segmenter, laneVars
    <2>3. CASE s # r.session \/ ~boundary[s]
        <3>1. buffer'[s] = buffer[s] /\ (boundary'[s] => boundary[s])
            BY <1>6, <2>3, <1>s DEF AckEnd, TypeOK
        <3> QED
            BY <2>1, <2>2, <3>1 DEF BufferOK, Closing, Saved
    <2>4. CASE s = r.session /\ boundary[s]
        <3>1. buffer'[s] = 0 /\ ~boundary'[s] /\ settled[s]
            BY <1>6, <2>1, <2>4, <1>s DEF AckEnd, TypeOK, BufferOK
        <3>2. TurnsOf(s) \subseteq Saved
            BY <1>6, <1>s, <2>4 DEF AckEnd, RequestsOK, RequestOK
        <3>3. Closing(s) = opened[s]
            BY <2>1, <3>1 DEF BufferOK, Closing
        <3>4. \A k \in 0..Closing(s)-1 : <<s, k>> \in Saved
            BY <3>2, <3>3 DEF TurnsOf
        <3> QED
            BY <2>1, <2>2, <3>1, <3>3, <3>4 DEF BufferOK, Closing, Saved
    <2> QED
        BY <2>3, <2>4
<1>7. CASE Score
    <2> SUFFICES ASSUME NEW s \in Session PROVE BufferOK(s)'
        BY DEF BuffersOK
    <2>1. BufferOK(s) /\ buffer[s] \in Nat /\ opened[s] \in Nat /\ stripped[s] \in Nat
        BY <1>s DEF BuffersOK, TypeOK
    <2>2. UNCHANGED <<work, opened, open, settled, boundary, buffer, stored, lost>>
        BY <1>7 DEF Score, segmenter
    <2>3. cur \in Curs /\ cur.phase = "score" /\ cur.at < cur.raw
        BY <1>7, <1>s, CurIs DEF Score, Idle
    <2>4. cur'.batch = cur.batch \cup {<<cur.session, cur.at>>}
        BY <1>7, <2>3 DEF Score, Curs
    <2>5. CASE s # cur.session
        <3>1. stripped'[s] = stripped[s]
            BY <1>7, <1>s, <2>5 DEF Score, Advanced, TypeOK
        <3> QED
            BY <2>1, <2>2, <2>4, <3>1 DEF BufferOK, Closing, Saved
    <2>6. CASE s = cur.session
        <3>1. stripped'[s] = stripped[s] + 1 /\ stripped[s] <= cur.at
            BY <1>7, <1>s, <2>3, <2>6 DEF Score, Advanced, TypeOK, CursorOK
        <3>2. cur.at \in Nat /\ cur.raw \in Nat
            BY <2>3 DEF Curs
        <3>3. ~settled[s] => stripped'[s] <= buffer[s]
            BY <1>s, <2>1, <2>3, <2>6, <3>1, <3>2 DEF CursorOK
        <3>4. CASE stripped[s] = cur.at
            <4>1. ASSUME NEW k \in 0..Closing(s)-1 PROVE
                      <<s, k>> \in Saved \cup cur'.batch \/ (stripped'[s] <= k /\ k < buffer[s])
                <5>1. CASE k = cur.at
                    BY <5>1, <2>4, <2>6
                <5>2. CASE k # cur.at
                    BY <5>2, <2>1, <2>4, <3>1, <3>2, <3>4 DEF BufferOK, Closing
                <5> QED
                    BY <5>1, <5>2
            <4> QED
                BY <2>1, <2>2, <3>3, <4>1 DEF BufferOK, Closing, Saved
        <3>5. CASE Over(s)
            <4>1. \A k \in 0..Closing(s)-1 : <<s, k>> \in Saved
                BY <3>5, <2>1 DEF Over, TurnsOf, Closing
            <4> QED
                BY <2>1, <2>2, <3>3, <4>1 DEF BufferOK, Closing, Saved
        <3> QED
            BY <1>s, <2>3, <2>6, <3>4, <3>5 DEF CursorOK
    <2> QED
        BY <2>5, <2>6
<1>8. CASE UNCHANGED <<work, opened, open, settled, boundary, buffer, stripped>>
           /\ Saved \cup cur.batch \subseteq Saved' \cup cur'.batch
    <2> SUFFICES ASSUME NEW s \in Session PROVE BufferOK(s)'
        BY DEF BuffersOK
    <2>1. BufferOK(s)
        BY <1>s DEF BuffersOK
    <2> QED
        BY <1>8, <2>1 DEF BufferOK, Closing
<1>9. (\E r \in Request : AnswerError(r) \/ AckFlush(r)) \/ LaneStops \/ UNCHANGED vars =>
          UNCHANGED <<work, opened, open, settled, boundary, buffer, stripped>>
          /\ Saved \cup cur.batch \subseteq Saved' \cup cur'.batch
    BY DEF AnswerError, AckFlush, LaneStops, vars, segmenter, laneVars, outcome, Saved
<1>10. ASSUME ReadRaw \/ ReadCursor \/ Raises \/ Write \/ Fail PROVE
          UNCHANGED <<work, opened, open, settled, boundary, buffer, stripped>>
          /\ Saved \cup cur.batch \subseteq Saved' \cup cur'.batch
    <2>1. CASE ReadRaw
        BY <2>1 DEF ReadRaw, segmenter, outcome, Saved, Idle
    <2>2. CASE ReadCursor
        <3>1. cur'.batch = cur.batch
            BY <2>2, <1>s, CurIs DEF ReadCursor, Curs, Idle
        <3> QED
            BY <2>2, <3>1 DEF ReadCursor, segmenter, outcome, Saved
    <2>3. CASE Raises
        BY <2>3 DEF Raises, segmenter, Saved
    <2>4. CASE Write
        BY <2>4 DEF Write, Written, segmenter, Saved
    <2>5. CASE Fail
        BY <2>5, <1>s DEF Fail, segmenter, outcome, Saved, CursorOK
    <2> QED
        BY <1>10, <2>1, <2>2, <2>3, <2>4, <2>5
<1> QED
    BY <1>1, <1>2, <1>3, <1>4, <1>5, <1>6, <1>7, <1>8, <1>9, <1>10 DEF Next

(* A running drain keeps its snapshot of the buffer within the buffer, and   *)
(* only a prune of a session that is over moves the cursor under it.         *)
LEMMA StepCursor == ASSUME Sound, [Next]_vars PROVE CursorOK'
<1>s. TypeOK /\ BuffersOK /\ CursorOK /\ RequestsOK
    BY DEF Sound
<1>t. TypeOK' /\ BuffersOK'
    BY StepType, StepBuffers
<1> USE ParamTypes
<1>o. \A s \in Session : Over(s) => Over(s)'
    BY OverStays
<1>c. cur # Idle => cur \in Curs
    BY <1>s, CurIs
<1>1. ASSUME UNCHANGED <<cur, stripped>>,
             \A s \in Session : settled[s] => settled'[s],
             \A s \in Session : buffer[s] <= buffer'[s] \/ settled'[s]
      PROVE CursorOK'
    <2>1. CASE cur = Idle
        BY <1>1, <2>1 DEF CursorOK, Idle
    <2>2. CASE cur # Idle
        <3>1. cur.session \in Session /\ cur.raw \in Nat
            BY <2>2, <1>c DEF Curs
        <3>2. buffer[cur.session] \in Nat /\ buffer'[cur.session] \in Nat
            BY <3>1, <1>s, <1>t DEF TypeOK
        <3> QED
            BY <1>1, <3>1, <3>2, <1>o, <1>s DEF CursorOK
    <2> QED
        BY <2>1, <2>2
<1>2. (\E s \in Session : Ingest(s)) \/ (\E r \in Request : Submit(r))
      \/ (\E S \in SUBSET Session : Sweep(S)) \/ Teardown
        => UNCHANGED <<cur, stripped>> /\ \E S : CloseTurns(S)
    BY DEF Ingest, Submit, Sweep, Teardown, laneVars
<1>3. ASSUME \E S : CloseTurns(S) PROVE \A s \in Session : buffer[s] <= buffer'[s]
    BY <1>3, <1>s DEF CloseTurns, TypeOK
<1>4. \A s \in Session : settled[s] => settled'[s]
    BY Monotone
<1>5. (\E r \in Request : AnswerError(r) \/ AckFlush(r)) \/ LaneStops \/ UNCHANGED vars
        => UNCHANGED <<cur, stripped, buffer>>
    BY DEF AnswerError, AckFlush, LaneStops, vars, laneVars
<1>6. ASSUME UNCHANGED buffer PROVE \A s \in Session : buffer[s] <= buffer'[s]
    BY <1>6, <1>s DEF TypeOK
<1>7. ASSUME NEW r \in Request, PruneCaches(r) PROVE CursorOK'
    <2>1. r.session \in Session /\ UNCHANGED <<cur, buffer, settled>>
          /\ stripped' = [stripped EXCEPT ![r.session] = IF boundary[r.session] THEN 0 ELSE @]
        BY <1>7 DEF PruneCaches, segmenter, laneVars
    <2>2. TurnsOf(r.session) \subseteq Saved /\ settled[r.session]
        BY <1>7, <1>s DEF PruneCaches, RequestsOK, RequestOK
    <2>3. Over(r.session)'
        BY <2>1, <2>2, <1>o DEF Over
    <2>4. ASSUME cur.phase = "score"
          PROVE stripped'[cur.session] <= cur.at
                /\ (stripped'[cur.session] = cur.at \/ Over(cur.session)')
        <3>1. cur.session \in Session /\ cur.at \in Nat /\ stripped[cur.session] \in Nat
            BY <2>4, <1>c, <1>s DEF Curs, Idle, TypeOK
        <3>2. CASE cur.session = r.session
            BY <2>1, <2>3, <2>4, <3>1, <3>2, <1>s DEF CursorOK, TypeOK
        <3>3. CASE cur.session # r.session
            BY <2>1, <2>4, <3>1, <3>3, <1>o, <1>s DEF CursorOK, TypeOK
        <3> QED
            BY <3>2, <3>3
    <2> QED
        BY <2>1, <2>4, <1>s DEF CursorOK
<1>8. ASSUME NEW r \in Request, AckEnd(r) PROVE CursorOK'
    <2>1. \A s \in Session : buffer[s] <= buffer'[s] \/ settled'[s]
        BY <1>8, <1>s DEF AckEnd, segmenter, TypeOK, BuffersOK, BufferOK
    <2>2. UNCHANGED <<cur, stripped>>
        BY <1>8 DEF AckEnd, laneVars
    <2> QED
        BY <2>1, <2>2, <1>1, <1>4
<1>9. CASE ReadRaw
    <2>1. cur'.phase = "raw" /\ cur'.batch = {} /\ cur'.session = Head(lane).session
          /\ cur'.raw = buffer[Head(lane).session] /\ buffer' = buffer
        BY <1>9 DEF ReadRaw, Idle
    <2>2. Head(lane).session \in Session
        BY <1>9, <1>s, LaneType, Taken DEF ReadRaw, Drains
    <2>3. buffer[Head(lane).session] \in Nat
        BY <2>2, <1>s DEF TypeOK
    <2> QED
        BY <2>1, <2>3 DEF CursorOK
<1>10. CASE ReadCursor
    <2>1. cur \in Curs
        BY <1>10, <1>c DEF ReadCursor, Idle
    <2>2. cur' = [cur EXCEPT !.phase = "score", !.at = stripped[cur.session]]
          /\ UNCHANGED <<stripped, buffer, settled>> /\ cur.phase = "raw"
        BY <1>10 DEF ReadCursor, segmenter
    <2>3. stripped[cur.session] \in Nat
        BY <2>1, <1>s DEF Curs, TypeOK
    <2> QED
        BY <2>1, <2>2, <2>3, <1>s DEF CursorOK, Curs
<1>11. CASE Score
    <2>1. cur \in Curs /\ cur.phase = "score"
        BY <1>11, <1>c DEF Score, Idle
    <2>2. cur'.phase = "score" /\ cur'.session = cur.session /\ cur'.raw = cur.raw /\ cur'.at = cur.at + 1
          /\ UNCHANGED <<buffer, settled>>
        BY <1>11, <2>1 DEF Score, segmenter, Curs
    <2>3. stripped'[cur.session] = stripped[cur.session] + 1
          /\ stripped[cur.session] \in Nat /\ cur.at \in Nat
        BY <1>11, <2>1, <1>s DEF Score, Advanced, TypeOK, Curs
    <2>p. PICK s \in Session : s = cur.session
        BY <2>1 DEF Curs
    <2>4. Over(s) => Over(s)'
        BY <1>o
    <2>5. stripped[s] <= cur.at /\ (stripped[s] = cur.at \/ Over(s))
          /\ (settled[s] \/ cur.raw <= buffer[s])
        BY <2>1, <2>p, <1>s DEF CursorOK
    <2>6. /\ stripped'[s] <= cur'.at
          /\ stripped'[s] = cur'.at \/ Over(s)'
        BY <2>2, <2>3, <2>4, <2>5, <2>p
    <2>7. cur'.session = s
        BY <2>2, <2>p
    <2> QED
        BY <2>2, <2>5, <2>6, <2>7 DEF CursorOK, Over, TurnsOf
<1>12. CASE Raises \/ Write \/ Fail
    <2>1. cur'.phase \in {"raising", "idle"} /\ (cur'.phase = "raising" => cur'.batch = {})
        <3>1. CASE Raises
            <4>1. cur \in Curs
                BY <3>1, <1>c DEF Raises, Idle
            <4> QED
                BY <3>1, <4>1 DEF Raises, Curs
        <3>2. CASE Write \/ Fail
            BY <3>2 DEF Write, Fail, Idle
        <3> QED
            BY <1>12, <3>1, <3>2
    <2> QED
        BY <2>1 DEF CursorOK
<1> QED
    BY <1>1, <1>2, <1>3, <1>4, <1>5, <1>6, <1>7, <1>8, <1>9, <1>10, <1>11, <1>12 DEF Next

-----------------------------------------------------------------------------
(* Requests.                                                                 *)

(* A request that moved on, or did not move, keeps what it covers.           *)
LEMMA RequestMoves ==
    ASSUME Sound, [Next]_vars, NEW r \in Request, RequestOK(r), request[r] # "none",
           covers'[r] = covers[r], request'[r] # "none",
           request'[r] = "pruning" => r.kind = "end",
           request'[r] \in {"applied", "pruning", "acked"} =>
               covers[r] \subseteq Saved' \/ request[r] \in {"applied", "pruning", "acked"}
    PROVE RequestOK(r)'
<1>1. r.session \in Session
    BY ParamTypes
<1>2. /\ settled[r.session] => settled'[r.session] /\ opened'[r.session] = opened[r.session]
      /\ Closing(r.session) <= Closing(r.session)' /\ Saved \subseteq Saved'
    BY <1>1, Monotone
<1>t. TypeOK /\ TypeOK'
    BY StepType DEF Sound
<1>3. Closing(r.session) \in Int /\ Closing(r.session)' \in Int
    BY <1>1, <1>t DEF TypeOK, Closing
<1>4. {r.session} \X (0..Closing(r.session)-1) \subseteq {r.session} \X (0..Closing(r.session)'-1)
    BY <1>2, <1>3
<1>5. settled[r.session] => TurnsOf(r.session)' = TurnsOf(r.session)
    BY <1>2 DEF TurnsOf
<1> QED
    BY <1>2, <1>4, <1>5 DEF RequestOK

(* Every action moves requests so that they keep what they cover.            *)
LEMMA RequestSteps ==
    ASSUME Sound, [Next]_vars
    PROVE /\ \A r \in Request : RequestOK(r)'
          /\ \A r \in Request : request[r] # "none" => request'[r] # "none"
<1>s. TypeOK /\ BuffersOK /\ RequestsOK
    BY DEF Sound
<1>r. WaitsOK(cur) /\ CoversOK /\ \A r \in Request : RequestOK(r)
    BY <1>s DEF RequestsOK
<1>l. request \in [Request -> States] /\ covers \in [Request -> SUBSET Turn]
    BY <1>s, LaneType DEF TypeOK
<1> USE ParamTypes
<1> DEFINE Kept(r) == RequestOK(r)' /\ (request[r] # "none" => request'[r] # "none")
<1> SUFFICES ASSUME NEW r \in Request PROVE Kept(r)
    OBVIOUS
<1>1. CASE request'[r] = request[r] /\ covers'[r] = covers[r]
    <2>1. CASE request[r] = "none"
        BY <1>1, <2>1 DEF RequestOK
    <2>2. CASE request[r] # "none"
        BY <1>1, <2>2, <1>r, RequestMoves DEF RequestOK
    <2> QED
        BY <1>1, <2>1, <2>2
<1>2. ASSUME NEW q \in Request, Submit(q), q = r PROVE Kept(r)
    <2> DEFINE s == r.session
    <2>1. request'[r] = "waiting" /\ covers'[r] = {s} \X (0..opened[s]-1) /\ opened' = opened
          /\ open'[s] = (settled[s] /\ open[s]) /\ (r.kind = "end" => settled'[s])
        BY <1>2, <1>l, <1>s DEF Submit, Closed, TypeOK
    <2>2. ~open'[s]
        BY <2>1, <1>s DEF BuffersOK, BufferOK
    <2> QED
        BY <2>1, <2>2 DEF RequestOK, Closing, TurnsOf
<1>3. ASSUME NEW q \in Request, Submit(q), q # r PROVE Kept(r)
    BY <1>1, <1>3, <1>l DEF Submit
<1>4. ASSUME NEW q \in Request, AnswerError(q) \/ AckFlush(q) \/ PruneCaches(q) \/ AckEnd(q)
      PROVE Kept(r)
    <2>1. covers' = covers /\ \E a \in {"error", "acked", "pruning"} : request' = [request EXCEPT ![q] = a]
        BY <1>4 DEF AnswerError, AckFlush, PruneCaches, AckEnd
    <2>2. CASE q # r
        BY <1>1, <1>l, <2>1, <2>2
    <2>3. CASE q = r
        <3>1. /\ request[r] \in {"raised", "applied", "pruning"} /\ request'[r] # "none"
              /\ request'[r] = "pruning" => r.kind = "end"
              /\ request'[r] \in {"applied", "pruning", "acked"} => request[r] \in {"applied", "pruning"}
            BY <1>4, <1>l, <2>3 DEF AnswerError, AckFlush, PruneCaches, AckEnd
        <3> QED
            BY <1>r, <2>1, <3>1, RequestMoves
    <2> QED
        BY <2>2, <2>3
<1>5. CASE Write \/ Fail
    <2>1. covers' = covers
        BY <1>5 DEF Write, Fail, loopVars
    <2>2. CASE r # cur.who
        BY <1>1, <1>5, <2>1, <2>2 DEF Write, Fail
    <2>3. CASE r = cur.who
        <3>1. request[r] # "none" /\ r.session = cur.session
            BY <1>r, <2>3 DEF WaitsOK
        <3>2. CASE Fail
            <4>1. request'[r] = "raised"
                BY <2>3, <3>2 DEF Fail
            <4> QED
                BY <1>r, <2>1, <3>1, <4>1, RequestMoves
        <3>3. CASE Write
            <4>1. request'[r] = "applied" /\ cur.phase = "score" /\ cur.at >= cur.raw
                  /\ Saved' = Saved \cup cur.batch
                BY <2>3, <3>3 DEF Write, Written, Saved
            <4>2. cur \in Curs
                BY <1>s, <4>1, CurIs DEF Idle
            <4>3. \A k \in 0..MaxTurns-1 : ~Reaches(cur.session, k)
                BY <4>1, <4>2 DEF Reaches, Curs
            <4>4. \A k \in 0..MaxTurns-1 : <<cur.session, k>> \in covers[r] => <<cur.session, k>> \in Saved'
                BY <1>r, <2>3, <4>1, <4>3 DEF CoversOK
            <4>5. covers[r] \subseteq Turn /\ covers[r] \subseteq {r.session} \X (0..Closing(r.session)-1)
                BY <1>l, <1>r, <3>1 DEF RequestOK
            <4>6. covers[r] \subseteq Saved'
                BY <3>1, <4>4, <4>5 DEF Turn
            <4> QED
                BY <1>r, <2>1, <3>1, <4>1, <4>6, RequestMoves
        <3> QED
            BY <1>5, <3>2, <3>3
    <2> QED
        BY <2>2, <2>3
<1>6. (\E s \in Session : Ingest(s)) \/ (\E S \in SUBSET Session : Sweep(S)) \/ Teardown \/ LaneStops
      \/ ReadRaw \/ ReadCursor \/ Score \/ Raises \/ UNCHANGED vars
          => UNCHANGED <<request, covers>>
    BY DEF Ingest, Sweep, Teardown, LaneStops, ReadRaw, ReadCursor, Score, Raises, vars, loopVars
<1> QED
    BY <1>1, <1>2, <1>3, <1>4, <1>5, <1>6 DEF Next

(* The drains that wait in the lane, and the one that runs.                  *)
LEMMA LaneSteps ==
    ASSUME Sound, [Next]_vars
    PROVE (\A i \in DOMAIN lane' : WaitsOK(lane[i])') /\ WaitsOK(cur)'
<1>s. TypeOK /\ RequestsOK
    BY DEF Sound
<1>l. lane \in Seq(Drains)
    BY <1>s, LaneType
<1> USE ParamTypes
<1> DEFINE Waits(d) == d.who \in Request => request'[d.who] # "none" /\ d.who.session = d.session
<1>1. \A d : WaitsOK(d) => Waits(d)
    BY RequestSteps DEF WaitsOK
<1>2. (\A i \in DOMAIN lane : Waits(lane[i])) /\ Waits(cur)
    BY <1>1, <1>s DEF RequestsOK
<1> DEFINE Goal == (\A i \in DOMAIN lane' : Waits(lane'[i])) /\ Waits(cur')
<1> SUFFICES Goal
    BY DEF WaitsOK
<1>3. CASE UNCHANGED <<lane, cur>>
    BY <1>2, <1>3
<1>4. ASSUME NEW q \in Request, Submit(q) PROVE Goal
    <2> DEFINE d == Drain(q.session, q)
    <2>1. d \in Drains /\ d.who = q /\ d.session = q.session
        BY DEF Drain, Drains
    <2>2. lane' = Append(lane, d) /\ cur' = cur /\ request'[q] = "waiting"
        BY <1>4, <1>s DEF Submit, TypeOK
    <2>3. Waits(d)
        BY <2>1, <2>2
    <2> QED
        BY <1>2, <1>l, <2>1, <2>2, <2>3, OneMore
<1>5. ASSUME NEW S \in SUBSET Session, Sweep(S) PROVE Goal
    <2>1. cur' = cur
        BY <1>5 DEF Sweep
    <2> QED
        BY <1>2, <1>5, <1>s, <2>1, SweptLane
<1>6. CASE Teardown
    <2>1. cur' = cur
        BY <1>6 DEF Teardown
    <2> QED
        BY <1>2, <1>6, <1>s, <2>1, FinalLane
<1>7. CASE ReadRaw
    <2>1. lane # <<>> /\ lane' = Tail(lane) /\ cur'.who = Head(lane).who /\ cur'.session = Head(lane).session
        BY <1>7 DEF ReadRaw, Idle
    <2>2. Waits(Head(lane)) /\ \A i \in DOMAIN Tail(lane) : Waits(Tail(lane)[i])
        BY <1>2, <1>l, <2>1, Taken
    <2> QED
        BY <2>1, <2>2
<1>8. CASE ReadCursor \/ Score \/ Raises
    <2>1. cur \in Curs
        BY <1>8, <1>s, CurIs DEF ReadCursor, Score, Raises, Idle
    <2>2. cur'.who = cur.who /\ cur'.session = cur.session /\ lane' = lane
        BY <1>8, <2>1 DEF ReadCursor, Score, Raises, Curs
    <2> QED
        BY <1>2, <2>2
<1>9. CASE Write \/ Fail
    BY <1>2, <1>9 DEF Write, Fail, Idle
<1>10. (\E s \in Session : Ingest(s)) \/ LaneStops \/ UNCHANGED vars
       \/ (\E r \in Request : AnswerError(r) \/ AckFlush(r) \/ PruneCaches(r) \/ AckEnd(r))
           => UNCHANGED <<lane, cur>>
    BY DEF Ingest, LaneStops, AnswerError, AckFlush, PruneCaches, AckEnd, vars, laneVars
<1> QED
    BY <1>3, <1>4, <1>5, <1>6, <1>7, <1>8, <1>9, <1>10 DEF Next

(* The drain that runs still reaches what its request covers.                *)
LEMMA CoversStep == ASSUME Sound, [Next]_vars PROVE CoversOK'
<1>s. TypeOK /\ BuffersOK /\ CursorOK /\ RequestsOK
    BY DEF Sound
<1>r. WaitsOK(cur) /\ CoversOK /\ (\A i \in DOMAIN lane : WaitsOK(lane[i]))
      /\ \A r \in Request : RequestOK(r)
    BY <1>s DEF RequestsOK
<1>l. lane \in Seq(Drains) /\ request \in [Request -> States] /\ covers \in [Request -> SUBSET Turn]
      /\ stripped \in [Session -> 0..MaxTurns]
    BY <1>s, LaneType DEF TypeOK
<1>m. Saved \subseteq Saved'
    BY Monotone
<1>c. cur # Idle => cur \in Curs
    BY <1>s, CurIs
<1> USE ParamTypes
<1>1. ASSUME cur' = cur, cur.who \in Request => covers'[cur.who] = covers[cur.who],
             \A s \in Session : stripped'[s] = stripped[s] \/ stripped'[s] = 0
      PROVE CoversOK'
    <2>1. CASE cur = Idle
        BY <1>1, <2>1 DEF CoversOK, Idle
    <2>2. CASE cur # Idle
        <3>1. cur.session \in Session /\ stripped[cur.session] \in Nat
            BY <2>2, <1>c, <1>l DEF Curs
        <3>2. stripped'[cur.session] = stripped[cur.session] \/ stripped'[cur.session] = 0
            BY <3>1, <1>1
        <3> QED
            BY <1>1, <1>m, <1>r, <3>1, <3>2 DEF CoversOK, Reaches
    <2> QED
        BY <2>1, <2>2
<1>2. ASSUME NEW q \in Request, Submit(q) PROVE CoversOK'
    <2>1. request[q] = "none" /\ UNCHANGED <<cur, stripped>>
          /\ \A r \in Request : r # q => covers'[r] = covers[r]
        BY <1>2, <1>l DEF Submit
    <2>2. cur.who \in Request => cur.who # q
        BY <2>1, <1>r DEF WaitsOK
    <2> QED
        BY <1>1, <2>1, <2>2
<1>3. ASSUME NEW q \in Request, PruneCaches(q) PROVE CoversOK'
    <2>1. UNCHANGED <<cur, covers>>
          /\ \A s \in Session : stripped'[s] = stripped[s] \/ stripped'[s] = 0
        BY <1>3, <1>l DEF PruneCaches, laneVars
    <2> QED
        BY <1>1, <2>1
<1>4. CASE ReadRaw
    <2> DEFINE d == Head(lane)
    <2>1. d \in Drains /\ WaitsOK(d)
        BY <1>4, <1>l, <1>r, Taken DEF ReadRaw
    <2>2. cur = Idle /\ cur'.phase = "raw" /\ cur'.session = d.session /\ cur'.who = d.who
          /\ cur'.raw = buffer[d.session] /\ UNCHANGED <<stripped, covers>>
        BY <1>4 DEF ReadRaw, Idle, loopVars
    <2> SUFFICES ASSUME d.who \in Request, NEW k \in 0..MaxTurns-1, <<d.session, k>> \in covers[d.who]
                 PROVE <<d.session, k>> \in Saved \/ (stripped[d.session] <= k /\ k < buffer[d.session])
        BY <1>m, <2>2 DEF CoversOK, Reaches
    <2>3. request[d.who] # "none" /\ d.who.session = d.session
        BY <2>1 DEF WaitsOK
    <2>4. k \in 0..Closing(d.session)-1
        BY <1>r, <2>3 DEF RequestOK
    <2>5. BufferOK(d.session)
        BY <1>s, <2>1 DEF BuffersOK, Drains
    <2> QED
        BY <2>2, <2>4, <2>5 DEF BufferOK, Idle
<1>5. CASE ReadCursor
    <2>1. cur \in Curs /\ cur.phase = "raw"
        BY <1>5, <1>c DEF ReadCursor, Idle
    <2>2. cur'.phase = "score" /\ cur'.session = cur.session /\ cur'.who = cur.who /\ cur'.raw = cur.raw
          /\ cur'.at = stripped[cur.session] /\ cur'.batch = cur.batch /\ covers' = covers
        BY <1>5, <2>1 DEF ReadCursor, Curs, loopVars
    <2> QED
        BY <1>m, <1>r, <2>1, <2>2 DEF CoversOK, Reaches
<1>6. CASE Score
    <2>1. cur \in Curs /\ cur.phase = "score"
        BY <1>6, <1>c DEF Score, Idle
    <2>2. cur'.phase = "score" /\ cur'.session = cur.session /\ cur'.who = cur.who /\ cur'.raw = cur.raw
          /\ cur'.at = cur.at + 1 /\ cur'.batch = cur.batch \cup {<<cur.session, cur.at>>}
          /\ covers' = covers
        BY <1>6, <2>1 DEF Score, Curs, loopVars
    <2>3. cur.at \in Nat /\ cur.raw \in Nat
        BY <2>1 DEF Curs
    <2> QED
        BY <1>m, <1>r, <2>1, <2>2, <2>3 DEF CoversOK, Reaches
<1>7. CASE Raises
    <2>1. cur \in Curs
        BY <1>7, <1>c DEF Raises, Idle
    <2> QED
        BY <1>7, <2>1 DEF Raises, Curs, CoversOK
<1>8. CASE Write \/ Fail
    BY <1>8 DEF Write, Fail, Idle, CoversOK
<1>9. (\E s \in Session : Ingest(s)) \/ (\E S \in SUBSET Session : Sweep(S)) \/ Teardown \/ LaneStops
      \/ (\E r \in Request : AnswerError(r) \/ AckFlush(r) \/ AckEnd(r)) \/ UNCHANGED vars
          => UNCHANGED <<cur, covers, stripped>>
    BY DEF Ingest, Sweep, Teardown, LaneStops, AnswerError, AckFlush, AckEnd, vars, loopVars, laneVars
<1> QED
    BY <1>1, <1>2, <1>3, <1>4, <1>5, <1>6, <1>7, <1>8, <1>9 DEF Next

LEMMA StepRequests == ASSUME Sound, [Next]_vars PROVE RequestsOK'
BY RequestSteps, LaneSteps, CoversStep DEF RequestsOK

-----------------------------------------------------------------------------
(* Failures and the teardown.                                                *)

LEMMA StepQuiet == ASSUME Sound, [Next]_vars PROVE QuietOK'
<1>s. TypeOK /\ QuietOK
    BY DEF Sound
<1>f. failures \in Nat
    BY <1>s, LanesAssumption DEF TypeOK
<1> SUFFICES ASSUME failures' = 0
             PROVE lost' = {} /\ failed' = {} /\ cur'.phase # "raising"
                   /\ \A r \in Request : request'[r] \notin {"raised", "error"}
    BY DEF QuietOK
<1>1. ~Raises
    BY <1>f DEF Raises
<1>2. failures = 0
    BY <1>1 DEF Next, Ingest, Submit, AnswerError, AckFlush, PruneCaches, AckEnd, Sweep, Teardown,
                LaneStops, ReadRaw, ReadCursor, Score, Write, Fail, vars, laneVars
<1>q. lost = {} /\ failed = {} /\ cur.phase # "raising"
      /\ \A r \in Request : request[r] \notin {"raised", "error"}
    BY <1>2, <1>s DEF QuietOK
<1>3. ~Fail /\ \A r \in Request : ~AnswerError(r)
    BY <1>q DEF Fail, AnswerError
<1>4. lost' = {}
    BY <1>1, <1>q DEF Next, Ingest, Submit, AnswerError, AckFlush, PruneCaches, AckEnd, Sweep,
                Teardown, LaneStops, ReadRaw, ReadCursor, Score, Write, Fail, vars, outcome
<1>5. failed' = {}
    BY <1>1, <1>3, <1>q DEF Next, Ingest, Submit, AnswerError, AckFlush, PruneCaches, AckEnd, Sweep,
                Teardown, LaneStops, ReadRaw, ReadCursor, Score, Write, vars, laneVars
<1>6. cur'.phase # "raising"
    <2>1. CASE ReadCursor \/ Score
        <3>1. cur \in Curs
            BY <2>1, <1>s, CurIs DEF ReadCursor, Score, Idle
        <3> QED
            BY <2>1, <3>1 DEF ReadCursor, Score, Curs
    <2>2. CASE ReadRaw \/ Write
        <3>1. ReadRaw => cur'.phase = "raw"
            BY DEF ReadRaw, Idle
        <3>2. Write => cur'.phase = "idle"
            BY DEF Write, Idle
        <3> QED
            BY <2>2, <3>1, <3>2
    <2>3. ReadCursor \/ Score \/ ReadRaw \/ Write \/ cur' = cur
        BY <1>1, <1>3 DEF Next, Ingest, Submit, AckFlush, PruneCaches, AckEnd, Sweep, Teardown, LaneStops,
           vars, laneVars
    <2> QED
        BY <2>1, <2>2, <2>3, <1>q
<1>7. \A r \in Request : request'[r] \notin {"raised", "error"}
    <2>1. request \in [Request -> States]
        BY <1>s, LaneType
    <2>2. ASSUME NEW q \in Request, Submit(q) \/ AckFlush(q) \/ PruneCaches(q) \/ AckEnd(q)
          PROVE \E a \in {"waiting", "acked", "pruning"} : request' = [request EXCEPT ![q] = a]
        BY <2>2 DEF Submit, AckFlush, PruneCaches, AckEnd
    <2>3. CASE Write
        BY <2>3, <1>q DEF Write
    <2>4. CASE UNCHANGED request
        BY <2>4, <1>q
    <2> QED
        BY <2>1, <2>2, <2>3, <2>4, <1>1, <1>3, <1>q DEF Next, Ingest, Sweep, Teardown, LaneStops,
           ReadRaw, ReadCursor, Score, vars, loopVars
<1> QED
    BY <1>4, <1>5, <1>6, <1>7

(* A turn that is saved, in the batch, or ahead of the drain that runs stays *)
(* so, as long as that drain does not raise.                                 *)
LEMMA ReachStep ==
    ASSUME Sound, [Next]_vars, ~Raises, cur.phase # "raising", NEW s \in Session, NEW k \in 0..MaxTurns-1,
           <<s, k>> \in Saved \cup cur.batch \/ Reaches(s, k)
    PROVE (<<s, k>> \in Saved \cup cur.batch \/ Reaches(s, k))'
<1>s. TypeOK /\ CursorOK
    BY DEF Sound
<1>m. Saved \subseteq Saved'
    BY Monotone
<1>l. stripped \in [Session -> 0..MaxTurns]
    BY <1>s DEF TypeOK
<1>c. cur # Idle => cur \in Curs
    BY <1>s, CurIs
<1> USE ParamTypes
<1>1. ASSUME cur' = cur, stripped'[s] = stripped[s] \/ stripped'[s] = 0
      PROVE (<<s, k>> \in Saved \cup cur.batch \/ Reaches(s, k))'
    BY <1>1, <1>m DEF Reaches
<1>2. ASSUME NEW r \in Request, PruneCaches(r) PROVE cur' = cur /\ (stripped'[s] = stripped[s] \/ stripped'[s] = 0)
    BY <1>2, <1>l DEF PruneCaches, laneVars
<1>3. CASE ReadRaw
    BY <1>3, <1>m DEF ReadRaw, Idle, Reaches
<1>4. CASE ReadCursor
    <2>1. cur \in Curs /\ cur.phase = "raw"
        BY <1>4, <1>c DEF ReadCursor, Idle
    <2>2. cur'.phase = "score" /\ cur'.session = cur.session /\ cur'.raw = cur.raw
          /\ cur'.at = stripped[cur.session] /\ cur'.batch = cur.batch
        BY <1>4, <2>1 DEF ReadCursor, Curs
    <2> QED
        BY <1>m, <2>1, <2>2 DEF Reaches
<1>5. CASE Score
    <2>1. cur \in Curs /\ cur.phase = "score"
        BY <1>5, <1>c DEF Score, Idle
    <2>2. cur'.phase = "score" /\ cur'.session = cur.session /\ cur'.raw = cur.raw
          /\ cur'.at = cur.at + 1 /\ cur'.batch = cur.batch \cup {<<cur.session, cur.at>>}
        BY <1>5, <2>1 DEF Score, Curs
    <2>3. cur.at \in Nat /\ cur.raw \in Nat
        BY <2>1 DEF Curs
    <2> QED
        BY <1>m, <2>1, <2>2, <2>3 DEF Reaches
<1>6. CASE Write
    <2>1. cur \in Curs /\ cur.phase = "score" /\ cur.at >= cur.raw
        BY <1>6, <1>c DEF Write, Idle
    <2>2. ~Reaches(s, k)
        BY <2>1 DEF Reaches, Curs
    <2> QED
        BY <1>6, <2>2 DEF Write, Written, Saved
<1>7. ~Fail
    BY DEF Fail
<1>8. (\E t \in Session : Ingest(t)) \/ (\E r \in Request : Submit(r)) \/ (\E S \in SUBSET Session : Sweep(S))
      \/ Teardown \/ LaneStops \/ (\E r \in Request : AnswerError(r) \/ AckFlush(r) \/ AckEnd(r))
      \/ UNCHANGED vars
          => UNCHANGED <<cur, stripped>>
    BY DEF Ingest, Submit, Sweep, Teardown, LaneStops, AnswerError, AckFlush, AckEnd, vars, laneVars
<1> QED
    BY <1>1, <1>2, <1>3, <1>4, <1>5, <1>6, <1>7, <1>8 DEF Next

LEMMA StepStop == ASSUME Sound, [Next]_vars PROVE StopOK'
<1>s. TypeOK /\ BuffersOK /\ CursorOK /\ QuietOK /\ StopOK
    BY DEF Sound
<1>t. TypeOK' /\ BuffersOK' /\ QuietOK'
    BY StepType, StepBuffers, StepQuiet
<1>l. lane \in Seq(Drains)
    BY <1>s, LaneType
<1> USE ParamTypes
<1>1. daemon # "serving" =>
          /\ \A s \in Session : ~Ingest(s)
          /\ \A r \in Request : ~Submit(r)
          /\ \A S \in SUBSET Session : ~Sweep(S)
          /\ ~Teardown
    BY DEF Ingest, Submit, Sweep, Teardown
<1>2. daemon # "serving" => UNCHANGED <<open, opened>> /\ daemon' # "serving"
    BY <1>1 DEF Next, AnswerError, AckFlush, PruneCaches, AckEnd, LaneStops, ReadRaw, ReadCursor, Score,
                Raises, Write, Fail, vars, segmenter, loopVars
<1>3. daemon' # daemon => Teardown \/ LaneStops
    BY DEF Next, Ingest, Submit, AnswerError, AckFlush, PruneCaches, AckEnd, Sweep, ReadRaw, ReadCursor,
           Score, Raises, Write, Fail, vars, loopVars
<1>4. daemon' = "stopped" => lane' = <<>> /\ cur' = Idle
    <2>1. CASE daemon = "stopped"
        <3>1. lane = <<>> /\ cur = Idle
            BY <1>s, <2>1 DEF StopOK
        <3> QED
            BY <1>1, <2>1, <3>1 DEF Next, AnswerError, AckFlush, PruneCaches, AckEnd, LaneStops, ReadRaw,
               ReadCursor, Score, Raises, Write, Fail, vars, laneVars, Idle
    <2>2. CASE LaneStops
        BY <2>2 DEF LaneStops, laneVars
    <2>3. Teardown => daemon' # "stopped"
        BY DEF Teardown
    <2> QED
        BY <1>3, <2>1, <2>2, <2>3
<1>5. daemon' # "serving" => \A s \in Session : ~open'[s]
    <2>1. CASE daemon # "serving"
        BY <1>2, <1>s, <2>1 DEF StopOK
    <2>2. Teardown => \A s \in Session : ~open'[s]
        BY DEF Teardown, Closed
    <2>3. LaneStops => daemon # "serving"
        BY DEF LaneStops
    <2> QED
        BY <1>3, <2>1, <2>2, <2>3
<1> DEFINE Held(s, k) == \/ <<s, k>> \in Saved \cup cur.batch \/ Reaches(s, k)
                         \/ \E i \in DOMAIN lane : lane[i].session = s
<1>6. ASSUME daemon' # "serving", failures' = 0, NEW s \in Session, NEW k \in 0..opened'[s]-1
      PROVE Held(s, k)'
    <2>1. ~open'[s] /\ opened'[s] \in 0..MaxTurns /\ BufferOK(s)'
        BY <1>5, <1>6, <1>t DEF TypeOK, BuffersOK
    <2>2. k \in 0..MaxTurns-1 /\ Closing(s)' = opened'[s]
        BY <2>1 DEF Closing
    <2>3. <<s, k>> \in (Saved \cup cur.batch)' \/ (stripped'[s] <= k /\ k < buffer'[s])
        BY <2>1, <2>2 DEF BufferOK
    <2>4. CASE Teardown
        <3>1. buffer[s] \in Nat /\ buffer'[s] = (IF open[s] THEN buffer[s] + 1 ELSE buffer[s])
              /\ (open[s] => ~settled[s])
            BY <2>4, <1>s DEF Teardown, CloseTurns, TypeOK, BuffersOK, BufferOK
        <3>2. stripped'[s] \in Nat
            BY <1>t DEF TypeOK
        <3>3. stripped'[s] <= k /\ k < buffer'[s] => s \in Buffered
            BY <3>1, <3>2 DEF Buffered
        <3> QED
            BY <1>s, <2>3, <2>4, <3>3, FinalLane
    <2>5. CASE daemon # "serving"
        <3>1. failures = 0 /\ ~Raises /\ cur.phase # "raising"
            <4>1. failures \in Nat
                BY <1>s, LanesAssumption DEF TypeOK
            <4>2. ~Raises
                BY <1>6, <4>1 DEF Raises
            <4>3. failures = 0
                BY <1>6, <4>2 DEF Next, Ingest, Submit, AnswerError, AckFlush, PruneCaches, AckEnd, Sweep,
                   Teardown, LaneStops, ReadRaw, ReadCursor, Score, Write, Fail, vars, laneVars
            <4> QED
                BY <4>2, <4>3, <1>s DEF QuietOK
        <3>2. Held(s, k)
            BY <1>2, <1>6, <1>s, <2>5, <3>1 DEF StopOK
        <3>3. CASE <<s, k>> \in Saved \cup cur.batch \/ Reaches(s, k)
            BY <2>2, <3>1, <3>3, ReachStep
        <3>4. CASE \E i \in DOMAIN lane : lane[i].session = s
            <4>1. CASE ReadRaw
                <5>1. lane' = Tail(lane) /\ lane # <<>> /\ cur'.phase = "raw" /\ cur'.session = Head(lane).session
                      /\ cur'.raw = buffer[Head(lane).session] /\ UNCHANGED <<buffer, stripped>>
                    BY <4>1 DEF ReadRaw, Idle
                <5>2. CASE Head(lane).session = s
                    BY <2>3, <5>1, <5>2 DEF Reaches
                <5>3. CASE Head(lane).session # s
                    <6>1. PICK i \in DOMAIN lane : lane[i].session = s
                        BY <3>4
                    <6>2. i # 1 /\ i - 1 \in DOMAIN Tail(lane) /\ Tail(lane)[i-1] = lane[i]
                        BY <1>l, <5>1, <5>3, <6>1, Taken
                    <6> QED
                        BY <5>1, <6>1, <6>2
                <5> QED
                    BY <5>2, <5>3
            <4>2. CASE ~ReadRaw
                <5>1. lane' = lane
                    BY <1>1, <2>5, <4>2 DEF Next, AnswerError, AckFlush, PruneCaches, AckEnd, LaneStops,
                       ReadCursor, Score, Raises, Write, Fail, vars, laneVars
                <5> QED
                    BY <3>4, <5>1
            <4> QED
                BY <4>1, <4>2
        <3> QED
            BY <3>2, <3>3, <3>4
    <2> QED
        BY <1>3, <1>6, <2>4, <2>5 DEF LaneStops
<1> QED
    BY <1>4, <1>5, <1>6 DEF StopOK

-----------------------------------------------------------------------------
(* The theorems.                                                             *)

LEMMA InitSound == Init => Sound
<1> SUFFICES ASSUME Init PROVE Sound
    OBVIOUS
<1> USE ParamTypes
<1>1. TypeOK
    <2>1. work \in Workload /\ work.failures \in Nat /\ work.turns \in [Session -> 0..MaxTurns]
        BY LanesAssumption DEF Init
    <2> QED
        BY <2>1 DEF Init, TypeOK
<1>2. BuffersOK
    <2>1. work.turns \in [Session -> 0..MaxTurns]
        BY LanesAssumption DEF Init
    <2> QED
        BY <2>1 DEF Init, BuffersOK, BufferOK, Closing
<1>3. CursorOK /\ RequestsOK /\ QuietOK /\ StopOK
    BY DEF Init, CursorOK, RequestsOK, WaitsOK, CoversOK, RequestOK, QuietOK, StopOK, Idle
<1> QED
    BY <1>1, <1>2, <1>3 DEF Sound

LEMMA SoundStep == ASSUME Sound, [Next]_vars PROVE Sound'
BY StepType, StepBuffers, StepCursor, StepRequests, StepQuiet, StepStop DEF Sound

(* The inductive invariant: buffers, cursors, requests and the teardown fit  *)
(* together whatever the order in which the loop and the lane's thread run.  *)
THEOREM LanesSound == Spec => []Sound
<1>1. Init => Sound
    BY InitSound
<1>2. Sound /\ [Next]_vars => Sound'
    BY SoundStep
<1> QED
    BY <1>1, <1>2, PTL DEF Spec

(* Every variable keeps its type: no cursor or buffer leaves 0..MaxTurns.    *)
THEOREM LanesTypes == Spec => []TypeOK
<1>1. Sound => TypeOK
    BY DEF Sound
<1> QED
    BY <1>1, LanesSound, PTL

(* An acknowledged /flush or /session/end has its turns stored, but for the  *)
(* batch of a drain that raised.                                             *)
THEOREM AcksMeanStored == Spec => []AckMeansStored
<1>1. Sound => AckMeansStored
    BY DEF Sound, RequestsOK, RequestOK, AckMeansStored, Saved
<1> QED
    BY <1>1, LanesSound, PTL

(* A daemon that stopped in time, and whose drains never raised, stored      *)
(* every turn it was told of.                                                *)
THEOREM StopKeepsAll == Spec => []NothingLostAtStop
<1>1. Sound => NothingLostAtStop
    <2> SUFFICES ASSUME Sound, daemon = "stopped", failures = 0, NEW s \in Session, NEW k \in 0..opened[s]-1
                 PROVE <<s, k>> \in stored
        BY DEF NothingLostAtStop
    <2>1. lane = <<>> /\ cur = Idle /\ lost = {}
        BY DEF Sound, StopOK, QuietOK
    <2>2. <<s, k>> \in Saved \cup cur.batch \/ Reaches(s, k) \/ \E i \in DOMAIN lane : lane[i].session = s
        BY DEF Sound, StopOK
    <2> QED
        BY <2>1, <2>2 DEF Idle, Reaches, Saved
<1> QED
    BY <1>1, LanesSound, PTL

-----------------------------------------------------------------------------
(* Hosts that send nothing after an end.                                     *)

(* As long as no drain raised, none did before.                              *)
LEMMA NoRaise ==
    ASSUME Sound, [Next]_vars, failures' = 0
    PROVE failures = 0 /\ ~Raises /\ ~Fail /\ failed = {} /\ \A r \in Request : request[r] \notin {"raised", "error"}
<1>s. TypeOK /\ QuietOK
    BY DEF Sound
<1>1. failures \in Nat
    BY <1>s, LanesAssumption DEF TypeOK
<1>2. ~Raises
    BY <1>1 DEF Raises
<1>3. failures = 0
    BY <1>2 DEF Next, Ingest, Submit, AnswerError, AckFlush, PruneCaches, AckEnd, Sweep,
                Teardown, LaneStops, ReadRaw, ReadCursor, Score, Write, Fail, vars, laneVars
<1> QED
    BY <1>2, <1>3, <1>s DEF QuietOK, Fail

(* The end of a session settled it, and its handler moves forward.           *)
LEMMA EndMoves ==
    ASSUME Sound, LastDrain, [Next]_vars, failures' = 0, NEW s \in Session, NEW r \in Ends(s)
    PROVE /\ EndOK(s, r) /\ settled[s] /\ ~open[s] /\ r \in Ends(s)'
          /\ request[r] = "acked" => request'[r] = "acked"
          /\ request[r] = "pruning" => request'[r] \in {"pruning", "acked"}
          /\ request'[r] = "acked" => request[r] = "acked" \/ AckEnd(r)
          /\ request'[r] = "pruning" => request[r] = "pruning" \/ PruneCaches(r)
          /\ request'[r] = "applied" => request[r] = "applied" \/ (Write /\ cur.who = r)
<1>s. TypeOK /\ RequestsOK /\ BuffersOK
    BY DEF Sound
<1>n. failures = 0 /\ ~Fail /\ request[r] \notin {"raised", "error"}
    BY NoRaise DEF Ends
<1>1. EndOK(s, r)
    BY <1>n DEF LastDrain
<1>2. r \in Request /\ r.kind = "end" /\ r.session = s /\ request[r] # "none"
    BY DEF Ends
<1>3. settled[s] /\ ~open[s]
    BY <1>2, <1>s DEF RequestsOK, RequestOK, BuffersOK, BufferOK
<1>4. r \in Ends(s)'
    BY <1>2, RequestSteps DEF Ends
<1>5. request \in [Request -> States] /\ WaitsOK(cur)
    BY <1>s, LaneType DEF RequestsOK
<1> DEFINE Moves == /\ request[r] = "acked" => request'[r] = "acked"
                    /\ request[r] = "pruning" => request'[r] \in {"pruning", "acked"}
                    /\ request'[r] = "acked" => request[r] = "acked" \/ AckEnd(r)
                    /\ request'[r] = "pruning" => request[r] = "pruning" \/ PruneCaches(r)
                    /\ request'[r] = "applied" => request[r] = "applied" \/ (Write /\ cur.who = r)
<1>6. ASSUME request'[r] = request[r] PROVE Moves
    BY <1>6
<1>7. ASSUME NEW q \in Request, Submit(q) PROVE Moves
    BY <1>2, <1>5, <1>6, <1>7 DEF Submit
<1>8. ASSUME NEW q \in Request, AnswerError(q) \/ AckFlush(q) PROVE Moves
    BY <1>2, <1>5, <1>6, <1>8, <1>n DEF AnswerError, AckFlush
<1>9. ASSUME NEW q \in Request, PruneCaches(q) PROVE Moves
    <2>1. CASE q # r
        BY <1>2, <1>5, <1>6, <1>9, <2>1 DEF PruneCaches
    <2>2. CASE q = r
        <3>1. PruneCaches(r) /\ request[r] = "applied" /\ request'[r] = "pruning"
            BY <1>2, <1>5, <1>9, <2>2 DEF PruneCaches
        <3> QED
            BY <3>1
    <2> QED
        BY <2>1, <2>2
<1>10. ASSUME NEW q \in Request, AckEnd(q) PROVE Moves
    <2>1. CASE q # r
        BY <1>2, <1>5, <1>6, <1>10, <2>1 DEF AckEnd
    <2>2. CASE q = r
        <3>1. AckEnd(r) /\ request[r] = "pruning" /\ request'[r] = "acked"
            BY <1>2, <1>5, <1>10, <2>2 DEF AckEnd
        <3> QED
            BY <3>1
    <2> QED
        BY <2>1, <2>2
<1>11. ASSUME Write PROVE Moves
    <2>1. CASE cur.who # r
        BY <1>2, <1>6, <1>11, <2>1 DEF Write
    <2>2. CASE cur.who = r
        <3>1. cur.session = s /\ cur # Idle
            BY <1>2, <1>5, <1>11, <2>2 DEF WaitsOK, Write, Idle
        <3>2. request[r] \notin {"applied", "pruning", "acked"}
            BY <1>1, <3>1 DEF EndOK
        <3>3. request'[r] = "applied"
            BY <1>2, <1>11, <2>2 DEF Write
        <3> QED
            BY <1>11, <2>2, <3>2, <3>3
    <2> QED
        BY <2>1, <2>2
<1>12. Moves
    BY <1>6, <1>7, <1>8, <1>9, <1>10, <1>11, <1>n DEF Next, Ingest, Sweep, Teardown, LaneStops, ReadRaw,
       ReadCursor, Score, Raises, vars, loopVars
<1> QED
    BY <1>1, <1>3, <1>4, <1>12

(* A settled session gets no further request.                                *)
LEMMA EndNew ==
    ASSUME Sound, ~LateRequests, [Next]_vars, failures' = 0, NEW s \in Session, NEW r \in Ends(s)'
    PROVE r \in Ends(s) \/ (Submit(r) /\ Ends(s) = {} /\ ~settled[s])
<1>s. TypeOK /\ RequestsOK
    BY DEF Sound
<1>1. r \in Request /\ r.kind = "end" /\ r.session = s /\ request'[r] # "none"
    BY DEF Ends
<1>2. request \in [Request -> States] /\ WaitsOK(cur)
    BY <1>s, LaneType DEF RequestsOK
<1>3. CASE request[r] # "none"
    BY <1>1, <1>3 DEF Ends
<1>4. CASE request[r] = "none"
    <2>1. Submit(r)
        <3>1. ASSUME NEW q \in Request, AnswerError(q) \/ AckFlush(q) \/ PruneCaches(q) \/ AckEnd(q)
              PROVE request'[r] = "none"
            BY <1>1, <1>2, <1>4, <3>1 DEF AnswerError, AckFlush, PruneCaches, AckEnd
        <3>2. Write \/ Fail => request'[r] = "none"
            BY <1>1, <1>2, <1>4 DEF Write, Fail, WaitsOK
        <3>3. ASSUME NEW q \in Request, Submit(q) PROVE q = r
            BY <1>1, <1>2, <1>4, <3>3 DEF Submit
        <3> QED
            BY <1>1, <1>4, <3>1, <3>2, <3>3 DEF Next, Ingest, Sweep, Teardown, LaneStops, ReadRaw,
               ReadCursor, Score, Raises, vars, loopVars
    <2>2. ~settled[s]
        BY <1>1, <2>1 DEF Submit
    <2>3. Ends(s) = {}
        BY <1>s, <2>2 DEF Ends, RequestsOK, RequestOK
    <2> QED
        BY <2>1, <2>2, <2>3
<1> QED
    BY <1>3, <1>4

(* Nothing is queued any more for a session whose end was submitted.         *)
LEMMA NothingQueued ==
    ASSUME Sound, LastDrain, ~LateRequests, [Next]_vars, failures' = 0, ~ReadRaw,
           NEW s \in Session, NEW r \in Ends(s), NEW i \in DOMAIN lane'
    PROVE (i \in DOMAIN lane /\ lane'[i] = lane[i]) \/ (i > Len(lane) /\ lane'[i].session # s)
<1>s. TypeOK
    BY DEF Sound
<1>l. lane \in Seq(Drains)
    BY <1>s, LaneType
<1>n. failed = {} /\ request[r] \notin {"raised", "error"}
    BY NoRaise DEF Ends
<1>e. EndOK(s, r) /\ settled[s] /\ ~open[s] /\ request[r] # "none" /\ r \in Request
    BY EndMoves DEF Ends
<1>1. ASSUME NEW q \in Request, Submit(q)
      PROVE (i \in DOMAIN lane /\ lane'[i] = lane[i]) \/ (i > Len(lane) /\ lane'[i].session # s)
    <2> DEFINE d == Drain(q.session, q)
    <2>1. lane' = Append(lane, d) /\ q.session # s
        BY <1>1, <1>e DEF Submit
    <2>2. d \in Drains /\ d.session # s
        BY <2>1, ParamTypes DEF Drain, Drains
    <2> HIDE DEF d
    <2>3. (i \in DOMAIN lane /\ lane'[i] = lane[i]) \/ (i = Len(lane) + 1 /\ lane'[i] = d)
        BY <1>l, <2>1, <2>2, OneMore
    <2> QED
        BY <1>l, <2>2, <2>3
<1>2. ASSUME NEW S \in SUBSET Session, Sweep(S)
      PROVE (i \in DOMAIN lane /\ lane'[i] = lane[i]) \/ (i > Len(lane) /\ lane'[i].session # s)
    <2>1. s \notin S
        BY <1>2, <1>e DEF Sweep
    <2> QED
        BY <1>2, <1>n, <1>s, <2>1, SweptLane
<1>3. CASE Teardown
    <2>1. request[r] = "acked"
        BY <1>3, <1>e, <1>n DEF Teardown
    <2>2. s \notin Buffered
        BY <1>e, <2>1 DEF EndOK, Buffered
    <2> QED
        BY <1>3, <1>s, <2>2, FinalLane
<1>4. (\E t \in Session : Ingest(t)) \/ LaneStops \/ ReadCursor \/ Score \/ Raises \/ Write \/ Fail
      \/ (\E q \in Request : AnswerError(q) \/ AckFlush(q) \/ PruneCaches(q) \/ AckEnd(q)) \/ UNCHANGED vars
          => lane' = lane
    BY DEF Ingest, LaneStops, ReadCursor, Score, Raises, Write, Fail, AnswerError, AckFlush, PruneCaches,
           AckEnd, vars, laneVars
<1> QED
    BY <1>1, <1>2, <1>3, <1>4 DEF Next

(* The drain that runs is a new one, the same one, or over.                  *)
LEMMA CurMoves ==
    ASSUME TypeOK, [Next]_vars
    PROVE \/ ReadRaw \/ cur' = Idle
          \/ cur # Idle /\ cur'.who = cur.who /\ cur'.session = cur.session
<1>1. CASE ReadCursor \/ Score \/ Raises
    <2>1. cur \in Curs /\ cur # Idle
        BY <1>1, CurIs DEF ReadCursor, Score, Raises, Idle
    <2> QED
        BY <1>1, <2>1 DEF ReadCursor, Score, Raises, Curs
<1>2. CASE cur' = cur
    BY <1>2
<1>3. CASE Write \/ Fail
    BY <1>3 DEF Write, Fail
<1> QED
    BY <1>1, <1>2, <1>3 DEF Next, Ingest, Submit, AnswerError, AckFlush, PruneCaches, AckEnd, Sweep, Teardown,
       LaneStops, vars, laneVars
LEMMA StepLast == ASSUME Sound, LastDrain, ~LateRequests, [Next]_vars PROVE LastDrain'
<1>s. TypeOK /\ BuffersOK /\ RequestsOK
    BY DEF Sound
<1>t. (\A i \in DOMAIN lane' : WaitsOK(lane[i])') /\ WaitsOK(cur)'
    BY LaneSteps
<1>l. lane \in Seq(Drains) /\ request \in [Request -> States]
    BY <1>s, LaneType
<1> USE ParamTypes
<1> SUFFICES ASSUME failures' = 0, NEW s \in Session, NEW r \in Ends(s)' PROVE EndOK(s, r)'
    BY DEF LastDrain
<1>r. r \in Request /\ r.kind = "end" /\ r.session = s
    BY DEF Ends
<1>1. CASE Submit(r) /\ Ends(s) = {} /\ ~settled[s]
    <2> DEFINE d == Drain(s, r)
    <2>1. /\ request[r] = "none" /\ request'[r] = "waiting" /\ boundary'[s] /\ cur' = cur
          /\ lane' = Append(lane, d)
        BY <1>1, <1>r, <1>l, <1>s DEF Submit, TypeOK
    <2>2. d \in Drains /\ d.who = r
        BY <1>r DEF Drain, Drains
    <2> HIDE DEF d
    <2>3. Ends(s)' = {r}
        <3>1. ASSUME NEW q \in Ends(s)' PROVE q = r
            <4>1. q \in Ends(s) \/ Submit(q)
                BY EndNew
            <4>2. q \in Request
                BY DEF Ends
            <4> QED
                BY <1>1, <1>l, <2>1, <4>1, <4>2 DEF Submit
        <3> QED
            BY <3>1
    <2>4. cur'.who # r
        BY <1>r, <1>s, <2>1 DEF RequestsOK, WaitsOK
    <2>5. ASSUME NEW i \in DOMAIN lane', NEW j \in DOMAIN lane', i < j, lane'[i].who = r PROVE FALSE
        <3>1. i \in DOMAIN lane /\ lane'[i] = lane[i]
            BY <1>l, <2>1, <2>2, <2>5
        <3> QED
            BY <1>r, <1>s, <2>1, <2>5, <3>1 DEF RequestsOK, WaitsOK
    <2> QED
        BY <2>1, <2>3, <2>4, <2>5 DEF EndOK
<1>2. CASE r \in Ends(s)
    <2>1. /\ EndOK(s, r) /\ settled[s] /\ ~open[s]
          /\ request[r] = "acked" => request'[r] = "acked"
          /\ request'[r] = "acked" => request[r] = "acked" \/ AckEnd(r)
          /\ request'[r] = "pruning" => request[r] = "pruning" \/ PruneCaches(r)
          /\ request'[r] = "applied" => request[r] = "applied" \/ (Write /\ cur.who = r)
        BY <1>2, EndMoves
    <2>2. Ends(s)' = {r}
        <3>1. ASSUME NEW q \in Ends(s)' PROVE q \in Ends(s)
            BY <2>1, EndNew
        <3> QED
            BY <2>1, <3>1 DEF EndOK
    <2>3. ASSUME request'[r] # "acked" PROVE boundary'[s]
        <3>1. boundary[s]
            BY <2>1, <2>3 DEF EndOK
        <3>2. ASSUME NEW q \in Request, AckEnd(q) PROVE q.session # s
            <4>1. q.kind = "end" /\ request[q] = "pruning"
                BY <3>2, <1>s DEF AckEnd, RequestsOK, RequestOK
            <4>2. q.session = s => q = r
                BY <2>1, <4>1, <3>2 DEF EndOK, Ends
            <4> QED
                BY <1>l, <2>3, <3>2, <4>2 DEF AckEnd
        <3>3. ASSUME NEW q \in Request, Submit(q) PROVE boundary'[s]
            BY <1>s, <3>1, <3>3 DEF Submit, TypeOK
        <3>4. ASSUME NEW q \in Request, AckEnd(q) PROVE boundary'[s]
            BY <1>s, <3>1, <3>2, <3>4 DEF AckEnd, TypeOK
        <3> QED
            BY <3>1, <3>3, <3>4 DEF Next, Ingest, AnswerError, AckFlush, PruneCaches, Sweep, Teardown, LaneStops,
               ReadRaw, ReadCursor, Score, Raises, Write, Fail, vars
    <2>4. ASSUME request'[r] = "acked" PROVE buffer'[s] = 0
        <3>1. CASE request[r] = "acked"
            <4>1. buffer[s] = 0
                BY <2>1, <3>1 DEF EndOK
            <4>2. ASSUME NEW q \in Request, AckEnd(q) PROVE buffer'[s] = 0
                BY <1>s, <4>1, <4>2 DEF AckEnd, TypeOK
            <4>3. ASSUME NEW S, CloseTurns(S) PROVE buffer'[s] = 0
                BY <2>1, <4>1, <4>3 DEF CloseTurns
            <4> QED
                BY <4>1, <4>2, <4>3 DEF Next, Ingest, Submit, AnswerError, AckFlush, PruneCaches, Sweep, Teardown,
                   LaneStops, ReadRaw, ReadCursor, Score, Raises, Write, Fail, vars
        <3>2. CASE request[r] # "acked"
            <4>1. AckEnd(r) /\ boundary[s]
                BY <2>1, <2>4, <3>2 DEF EndOK
            <4> QED
                BY <1>r, <1>s, <4>1 DEF AckEnd, TypeOK
        <3> QED
            BY <3>1, <3>2
    <2> DEFINE Free == \A i \in DOMAIN lane : lane[i].session # s
    <2>5. Free => Free'
        <3>1. CASE ReadRaw
            <4>1. lane # <<>> /\ lane' = Tail(lane)
                BY <3>1 DEF ReadRaw
            <4> QED
                BY <1>l, <4>1, Taken
        <3>2. CASE ~ReadRaw
            BY <1>2, <3>2, NothingQueued
        <3> QED
            BY <3>1, <3>2
    <2>6. ASSUME request'[r] \in {"applied", "pruning", "acked"} PROVE (cur' = Idle \/ cur'.session # s) /\ Free'
        <3>1. CASE request[r] \in {"applied", "pruning", "acked"}
            <4>1. (cur = Idle \/ cur.session # s) /\ Free
                BY <2>1, <3>1 DEF EndOK
            <4>2. ReadRaw => cur'.session # s
                <5>1. ReadRaw => lane # <<>> /\ cur'.session = Head(lane).session
                    BY DEF ReadRaw, Idle
                <5> QED
                    BY <1>l, <4>1, <5>1, Taken
            <4> QED
                BY <1>s, <2>5, <4>1, <4>2, CurMoves
        <3>2. CASE Write /\ cur.who = r
            BY <2>1, <2>5, <3>2 DEF EndOK, Write
        <3> QED
            BY <2>1, <2>6, <3>1, <3>2 DEF AckEnd, PruneCaches
    <2>7. ASSUME cur'.who = r PROVE Free'
        <3>1. CASE ReadRaw
            <4>1. lane # <<>> /\ lane' = Tail(lane) /\ cur'.who = Head(lane).who
                BY <3>1 DEF ReadRaw, Idle
            <4>2. 1 \in DOMAIN lane /\ lane[1].who = r /\ \A i \in DOMAIN lane : i \in Nat /\ (i # 1 => 1 < i)
                BY <1>l, <2>7, <4>1, Taken
            <4>3. \A i \in DOMAIN lane : i # 1 => lane[i].session # s
                BY <2>1, <4>2 DEF EndOK
            <4>4. \A i \in DOMAIN Tail(lane) : i + 1 \in DOMAIN lane /\ Tail(lane)[i] = lane[i+1] /\ i + 1 # 1
                BY <1>l, <4>1
            <4> QED
                BY <4>1, <4>3, <4>4
        <3>2. CASE ~ReadRaw
            <4>1. cur.who = r
                BY <1>r, <1>s, <2>7, <3>2, CurMoves DEF Idle
            <4> QED
                BY <2>1, <2>5, <4>1 DEF EndOK
        <3> QED
            BY <3>1, <3>2
    <2>8. ASSUME NEW i \in DOMAIN lane', NEW j \in DOMAIN lane', i < j, lane'[i].who = r PROVE lane'[j].session # s
        <3>1. CASE ReadRaw
            <4>1. lane # <<>> /\ lane' = Tail(lane)
                BY <3>1 DEF ReadRaw
            <4>2. i + 1 \in DOMAIN lane /\ j + 1 \in DOMAIN lane /\ i + 1 < j + 1
                  /\ lane'[i] = lane[i+1] /\ lane'[j] = lane[j+1]
                BY <1>l, <2>8, <4>1
            <4> QED
                BY <2>1, <2>8, <4>2 DEF EndOK
        <3>2. CASE ~ReadRaw
            <4>1. \A m \in DOMAIN lane' : (m \in DOMAIN lane /\ lane'[m] = lane[m])
                                          \/ (m > Len(lane) /\ lane'[m].session # s)
                BY <1>2, <3>2, NothingQueued
            <4>2. lane'[i].session = s
                BY <1>r, <1>t, <2>8 DEF WaitsOK
            <4>3. i \in DOMAIN lane /\ lane'[i] = lane[i]
                BY <4>1, <4>2
            <4> QED
                BY <2>1, <2>8, <4>1, <4>3 DEF EndOK
        <3> QED
            BY <3>1, <3>2
    <2> QED
        BY <2>2, <2>3, <2>4, <2>6, <2>7, <2>8 DEF EndOK
<1> QED
    BY <1>1, <1>2, EndNew
(* A session is pruned by the handler of its end, and stays pruned.          *)
LEMMA PrunedMoves ==
    ASSUME Sound, LastDrain, ~LateRequests, [Next]_vars, failures' = 0, NEW s \in Session
    PROVE /\ Pruned(s) => Pruned(s)'
          /\ Pruned(s)' => Pruned(s) \/ \E r \in Ends(s) : PruneCaches(r)
<1>1. ASSUME Pruned(s) PROVE Pruned(s)'
    <2>1. PICK r \in Ends(s) : request[r] \in {"pruning", "acked"}
        BY <1>1 DEF Pruned
    <2>2. r \in Ends(s)' /\ request'[r] \in {"pruning", "acked"}
        BY <2>1, EndMoves
    <2> QED
        BY <2>2 DEF Pruned
<1>2. ASSUME Pruned(s)' PROVE Pruned(s) \/ \E r \in Ends(s) : PruneCaches(r)
    <2>1. PICK r \in Ends(s)' : request'[r] \in {"pruning", "acked"}
        BY <1>2 DEF Pruned
    <2>2. CASE r \in Ends(s)
        <3>1. request[r] \in {"pruning", "acked"} \/ PruneCaches(r) \/ AckEnd(r)
            BY <2>1, <2>2, EndMoves
        <3>2. AckEnd(r) => request[r] = "pruning"
            BY DEF AckEnd
        <3> QED
            BY <2>2, <3>1, <3>2 DEF Pruned
    <2>3. CASE Submit(r)
        <3>1. request'[r] = "waiting"
            BY <2>3, LaneType, <2>1 DEF Submit, Sound, TypeOK, Ends
        <3> QED
            BY <2>1, <3>1
    <2> QED
        BY <2>2, <2>3, EndNew
<1> QED
    BY <1>1, <1>2

LEMMA StepOnce == ASSUME Sound, LastDrain, Once, ~LateRequests, [Next]_vars PROVE Once'
<1>s. TypeOK /\ RequestsOK /\ CursorOK
    BY DEF Sound
<1>l. lane \in Seq(Drains) /\ scored \in [Turn -> Nat] /\ stripped \in [Session -> 0..MaxTurns]
    BY <1>s, LaneType DEF TypeOK
<1> USE ParamTypes
<1> SUFFICES ASSUME failures' = 0
             PROVE /\ \A s \in Session : \A k \in 0..MaxTurns-1 :
                          scored'[<<s, k>>] <= 1 /\ (~Pruned(s)' /\ stripped'[s] <= k => scored'[<<s, k>>] = 0)
                   /\ cur' # Idle => ~Pruned(cur.session)'
                   /\ cur'.phase = "score" => stripped'[cur'.session] = cur'.at
    BY DEF Once
<1>o. /\ \A s \in Session : \A k \in 0..MaxTurns-1 :
             scored[<<s, k>>] <= 1 /\ (~Pruned(s) /\ stripped[s] <= k => scored[<<s, k>>] = 0)
      /\ cur # Idle => ~Pruned(cur.session)
      /\ cur.phase = "score" => stripped[cur.session] = cur.at
    BY NoRaise DEF Once
<1>c. cur # Idle => cur \in Curs
    BY <1>s, CurIs
<1>e. \A s \in Session : \A r \in Ends(s) : EndOK(s, r)
    BY EndMoves
<1>1. ASSUME NEW s \in Session, NEW k \in 0..MaxTurns-1
      PROVE scored'[<<s, k>>] <= 1 /\ (~Pruned(s)' /\ stripped'[s] <= k => scored'[<<s, k>>] = 0)
    <2>1. <<s, k>> \in Turn /\ scored[<<s, k>>] \in Nat /\ stripped[s] \in Nat
        BY <1>l DEF Turn
    <2>2. CASE Score
        <3>1. cur \in Curs /\ cur # Idle /\ cur.phase = "score"
            BY <2>2, <1>c DEF Score, Idle
        <3>2. cur.session \in Session /\ cur.at \in Nat /\ ~Pruned(cur.session) /\ stripped[cur.session] = cur.at
            BY <1>o, <3>1 DEF Curs
        <3>3. stripped'[cur.session] = cur.at + 1
            BY <1>l, <2>2, <3>2 DEF Score, Advanced
        <3>4. CASE s = cur.session /\ k = cur.at
            <4>1. scored[<<s, k>>] = 0
                BY <1>o, <2>1, <3>2, <3>4
            <4>2. scored'[<<s, k>>] = 1
                BY <1>l, <2>1, <2>2, <3>4, <4>1 DEF Score
            <4> QED
                BY <3>2, <3>3, <3>4, <4>2
        <3>5. CASE ~(s = cur.session /\ k = cur.at)
            <4>1. scored'[<<s, k>>] = scored[<<s, k>>]
                BY <1>l, <2>1, <2>2, <3>5 DEF Score
            <4>2. stripped'[s] >= stripped[s]
                BY <1>l, <2>1, <2>2, <3>2 DEF Score, Advanced
            <4>3. stripped'[s] <= k => stripped[s] <= k
                BY <2>1, <3>2, <3>3, <4>2, <1>l, <2>2 DEF Score, Advanced
            <4> QED
                BY <1>o, <4>1, <4>3, PrunedMoves
        <3> QED
            BY <3>4, <3>5
    <2>3. ASSUME NEW r \in Request, PruneCaches(r) PROVE scored' = scored /\ (stripped'[s] # stripped[s] => Pruned(s)')
        <3>1. scored' = scored
            BY <2>3 DEF PruneCaches, outcome
        <3>2. ASSUME stripped'[s] # stripped[s] PROVE Pruned(s)'
            <4>1. s = r.session /\ r.kind = "end" /\ request[r] = "applied"
                BY <1>l, <2>3, <3>2 DEF PruneCaches
            <4>2. r \in Ends(s)
                BY <4>1 DEF Ends
            <4>3. r \in Ends(s)'
                BY <4>2, EndMoves
            <4>4. request'[r] = "pruning"
                BY <1>s, LaneType, <2>3 DEF PruneCaches
            <4> QED
                BY <4>3, <4>4 DEF Pruned
        <3> QED
            BY <3>1, <3>2
    <2>4. Score \/ (\E r \in Request : PruneCaches(r)) \/ UNCHANGED <<scored, stripped>>
        BY DEF Next, Ingest, Submit, AnswerError, AckFlush, AckEnd, Sweep, Teardown, LaneStops, ReadRaw,
           ReadCursor, Raises, Write, Fail, vars, outcome
    <2>5. CASE ~Score
        BY <1>o, <2>3, <2>4, <2>5, PrunedMoves
    <2> QED
        BY <2>2, <2>5
<1>2. ASSUME cur' # Idle PROVE ~Pruned(cur.session)'
    <2>1. CASE ReadRaw
        <3>1. lane # <<>> /\ cur'.session = Head(lane).session
            BY <2>1 DEF ReadRaw, Idle
        <3>2. PICK s \in Session : s = Head(lane).session
            BY <1>l, <3>1, Taken DEF Drains
        <3>3. ~Pruned(s)
            <4>1. 1 \in DOMAIN lane /\ lane[1].session = s
                BY <1>l, <3>1, <3>2, Taken
            <4> QED
                BY <1>e, <4>1 DEF Pruned, EndOK
        <3>4. ~Pruned(s)'
            <4>1. \A r : ~(ReadRaw /\ PruneCaches(r))
                BY <1>l DEF ReadRaw, PruneCaches, laneVars, Idle
            <4> QED
                BY <2>1, <3>3, <4>1, PrunedMoves
        <3> QED
            BY <3>1, <3>2, <3>4 DEF Pruned, Ends
    <2>2. CASE ~ReadRaw
        <3>1. cur # Idle /\ cur'.session = cur.session
            BY <1>2, <1>s, <2>2, CurMoves
        <3>2. PICK s \in Session : s = cur.session
            BY <1>c, <3>1 DEF Curs
        <3>3. ~Pruned(s)
            BY <1>o, <3>1, <3>2
        <3>4. ASSUME NEW r \in Ends(s), PruneCaches(r) PROVE FALSE
            <4>1. request[r] = "applied"
                BY <3>4 DEF PruneCaches
            <4> QED
                BY <1>e, <3>1, <3>2, <4>1 DEF EndOK
        <3>5. ~Pruned(s)'
            BY <3>3, <3>4, PrunedMoves
        <3> QED
            BY <3>1, <3>2, <3>5 DEF Pruned, Ends
    <2> QED
        BY <2>1, <2>2
<1>3. ASSUME cur'.phase = "score" PROVE stripped'[cur'.session] = cur'.at
    <2>1. CASE ReadCursor
        <3>1. cur \in Curs
            BY <1>c, <2>1 DEF ReadCursor, Idle
        <3> QED
            BY <2>1, <3>1 DEF ReadCursor, Curs
    <2>2. CASE Score
        <3>1. cur \in Curs /\ cur.phase = "score"
            BY <1>c, <2>2 DEF Score, Idle
        <3>2. cur'.session = cur.session /\ cur'.at = cur.at + 1 /\ cur.session \in Session
            BY <2>2, <3>1 DEF Score, Curs
        <3>3. stripped'[cur.session] = stripped[cur.session] + 1
            BY <1>l, <2>2, <3>2 DEF Score, Advanced
        <3> QED
            BY <1>o, <3>1, <3>2, <3>3
    <2>3. ASSUME NEW r \in Request, PruneCaches(r) PROVE stripped'[cur'.session] = cur'.at
        <3>1. cur' = cur /\ request[r] = "applied" /\ r.kind = "end"
            BY <2>3 DEF PruneCaches, laneVars
        <3>2. cur \in Curs /\ cur # Idle
            BY <1>c, <1>3, <3>1 DEF Idle
        <3>3. r \in Ends(r.session)
            BY <3>1 DEF Ends
        <3>4. cur.session # r.session
            BY <1>e, <3>1, <3>2, <3>3 DEF EndOK
        <3>5. stripped'[cur.session] = stripped[cur.session]
            BY <1>l, <2>3, <3>2, <3>4 DEF PruneCaches, Curs
        <3> QED
            BY <1>3, <1>o, <3>1, <3>5
    <2>4. CASE UNCHANGED <<cur, stripped>>
        BY <1>3, <1>o, <2>4
    <2>5. ReadRaw => cur'.phase = "raw"
        BY DEF ReadRaw, Idle
    <2>6. Write \/ Fail => cur'.phase = "idle"
        BY DEF Write, Fail, Idle
    <2>7. ~Raises
        BY NoRaise
    <2> QED
        BY <1>3, <2>1, <2>2, <2>3, <2>4, <2>5, <2>6, <2>7 DEF Next, Ingest, Submit, AnswerError, AckFlush,
           AckEnd, Sweep, Teardown, LaneStops, vars, laneVars
<1> QED
    BY <1>1, <1>2, <1>3

(* No turn is scored twice while no drain raises, when hosts send nothing    *)
(* after a session's end: the prune of the end is the last thing that        *)
(* happens to the session's cursor.                                          *)
THEOREM TurnsScoredOnce == ~LateRequests => (Spec => []ScoredOnce)
<1> SUFFICES ASSUME ~LateRequests PROVE Spec => []ScoredOnce
    OBVIOUS
<1>1. Init => Orderly
    <2> SUFFICES ASSUME Init PROVE LastDrain /\ Once
        BY InitSound DEF Orderly
    <2>1. LastDrain
        BY DEF Init, LastDrain, Ends
    <2>2. Once
        BY DEF Init, Once, Turn, Idle
    <2> QED
        BY <2>1, <2>2
<1>2. Orderly /\ [Next]_vars => Orderly'
    BY SoundStep, StepLast, StepOnce DEF Orderly
<1>3. Orderly => ScoredOnce
    BY DEF Orderly, Once, ScoredOnce, Turn
<1> QED
    BY <1>1, <1>2, <1>3, PTL DEF Spec
=============================================================================
