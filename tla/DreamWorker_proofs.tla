-------------------------- MODULE DreamWorker_proofs --------------------------
(* Theorems about the dream worker and their proofs, for every number of     *)
(* events, requests, boot resumes and outages: no journal is resumed twice,  *)
(* what a request is told is what its job did, nothing is emitted before     *)
(* recovery is over, and no event the pool paid for is lost while the daemon *)
(* serves.                                                                   *)
EXTENDS DreamWorker, FiniteSetTheorems, TLAPS

-----------------------------------------------------------------------------
(* Sequences of jobs.                                                        *)

(* A sequence without repetition has each element once.                      *)
LEMMA InjectiveSingle ==
    ASSUME NEW S, NEW q \in Seq(S)
    PROVE  /\ Range(q) \subseteq S
           /\ IsInjective(q) <=> \A x \in S : Single(q, x)
           /\ \A x : x \notin Range(q) => Single(q, x)
<1>1. Len(q) \in Nat /\ DOMAIN q = 1..Len(q) /\ \A i \in 1..Len(q) : q[i] \in S OBVIOUS
<1>2. IsInjective(q) <=> \A x \in S : Single(q, x) BY <1>1 DEF IsInjective, Single
<1> QED BY <1>1, <1>2 DEF Range, Single

(* Two sequences joined.                                                     *)
LEMMA Joined ==
    ASSUME NEW S, NEW q \in Seq(S), NEW r \in Seq(S)
    PROVE  /\ q \o r \in Seq(S)
           /\ Range(q \o r) = Range(q) \cup Range(r)
           /\ \A x : Single(q, x) /\ Single(r, x) /\ (x \notin Range(q) \/ x \notin Range(r))
                     => Single(q \o r, x)
<1> DEFINE s == q \o r
<1>1. /\ s \in Seq(S) /\ Len(q) \in Nat /\ Len(r) \in Nat /\ Len(s) = Len(q) + Len(r)
      /\ DOMAIN q = 1..Len(q) /\ DOMAIN r = 1..Len(r) /\ DOMAIN s = 1..Len(s)
      /\ \A i \in 1..Len(q) : s[i] = q[i]
      /\ \A i \in 1..Len(r) : s[Len(q) + i] = r[i]
  OBVIOUS
<1> HIDE DEF s
<1>2. ASSUME NEW i \in DOMAIN s
      PROVE  \/ i \in DOMAIN q /\ s[i] = q[i] /\ s[i] \in Range(q)
             \/ i - Len(q) \in DOMAIN r /\ s[i] = r[i - Len(q)] /\ s[i] \in Range(r) /\ i > Len(q)
  <2>1. CASE i \in 1..Len(q) BY <2>1, <1>1 DEF Range
  <2>2. CASE i \notin 1..Len(q)
    <3>1. i - Len(q) \in 1..Len(r) /\ Len(q) + (i - Len(q)) = i /\ i > Len(q) BY <2>2, <1>1
    <3> QED BY <3>1, <1>1 DEF Range
  <2> QED BY <2>1, <2>2
<1>3. Range(s) = Range(q) \cup Range(r)
  <2>1. Range(s) \subseteq Range(q) \cup Range(r) BY <1>2 DEF Range
  <2>2. Range(q) \subseteq Range(s)
    <3> SUFFICES ASSUME NEW i \in 1..Len(q) PROVE q[i] \in Range(s) BY <1>1 DEF Range
    <3>1. i \in 1..Len(s) /\ s[i] = q[i] BY <1>1
    <3> QED BY <3>1, <1>1 DEF Range
  <2>3. Range(r) \subseteq Range(s)
    <3> SUFFICES ASSUME NEW i \in 1..Len(r) PROVE r[i] \in Range(s) BY <1>1 DEF Range
    <3>1. Len(q) + i \in 1..Len(s) /\ s[Len(q) + i] = r[i] BY <1>1
    <3> QED BY <3>1, <1>1 DEF Range
  <2> QED BY <2>1, <2>2, <2>3
<1>4. ASSUME NEW x, Single(q, x), Single(r, x), x \notin Range(q) \/ x \notin Range(r)
      PROVE  Single(s, x)
  <2> SUFFICES ASSUME NEW i \in DOMAIN s, NEW j \in DOMAIN s, s[i] = x, s[j] = x PROVE i = j
    BY DEF Single
  <2>1. i \in 1..Len(s) /\ j \in 1..Len(s) BY <1>1
  <2>2. CASE x \in Range(q)
    <3>1. i \in DOMAIN q /\ q[i] = x /\ j \in DOMAIN q /\ q[j] = x BY <2>2, <1>2, <1>4
    <3> QED BY <3>1, <1>4 DEF Single
  <2>3. CASE x \notin Range(q)
    <3>1. /\ i - Len(q) \in DOMAIN r /\ r[i - Len(q)] = x
          /\ j - Len(q) \in DOMAIN r /\ r[j - Len(q)] = x
      BY <2>3, <1>2
    <3>2. i - Len(q) = j - Len(q) BY <3>1, <1>4 DEF Single
    <3> QED BY <3>2, <2>1, <1>1
  <2> QED BY <2>2, <2>3
<1> QED BY <1>1, <1>3, <1>4 DEF s

(* One job put at the end, or at the front.                                  *)
LEMMA One ==
    ASSUME NEW S, NEW x \in S
    PROVE  /\ <<x>> \in Seq(S) /\ Range(<<x>>) = {x} /\ \A y : Single(<<x>>, y)
           /\ \A q \in Seq(S) : Append(q, x) = q \o <<x>>
  BY DEF Range, Single

(* A job that joins at either end a sequence it is not in.                   *)
LEMMA Distinct ==
    ASSUME NEW S, NEW q \in Seq(S), IsInjective(q), NEW x \in S, x \notin Range(q)
    PROVE  /\ Range(q \o <<x>>) = Range(q) \cup {x} /\ IsInjective(q \o <<x>>)
           /\ Append(q, x) = q \o <<x>>
           /\ Range(<<x>> \o q) = Range(q) \cup {x} /\ IsInjective(<<x>> \o q)
<1> DEFINE h == <<x>>
<1>1. h \in Seq(S) /\ Range(h) = {x} /\ \A y : Single(h, y) BY One
<1>2. \A y \in S : Single(q, y) BY InjectiveSingle
<1>3. Append(q, x) = q \o h BY One
<1> HIDE DEF h
<1>4. q \o h \in Seq(S) /\ Range(q \o h) = Range(q) \cup {x} /\ \A y \in S : Single(q \o h, y)
  BY <1>1, <1>2, Joined
<1>5. h \o q \in Seq(S) /\ Range(h \o q) = Range(q) \cup {x} /\ \A y \in S : Single(h \o q, y)
  BY <1>1, <1>2, Joined
<1>6. IsInjective(q \o h) BY <1>4, InjectiveSingle
<1>7. IsInjective(h \o q) BY <1>5, InjectiveSingle
<1> QED BY <1>3, <1>4, <1>5, <1>6, <1>7 DEF h

(* The first job taken off.                                                  *)
LEMMA TakenOff ==
    ASSUME NEW S, NEW q \in Seq(S), q # <<>>
    PROVE  /\ Head(q) \in S /\ Tail(q) \in Seq(S) /\ q = <<Head(q)>> \o Tail(q)
           /\ Range(q) = Range(Tail(q)) \cup {Head(q)}
           /\ \A x : Single(q, x) => Single(Tail(q), x)
           /\ Single(q, Head(q)) => Head(q) \notin Range(Tail(q))
<1>1. /\ Head(q) \in S /\ Tail(q) \in Seq(S) /\ Head(q) = q[1] /\ Len(q) \in Nat /\ Len(q) >= 1
      /\ Len(Tail(q)) = Len(q) - 1 /\ \A i \in 1..Len(q) - 1 : Tail(q)[i] = q[i + 1]
      /\ DOMAIN q = 1..Len(q) /\ DOMAIN Tail(q) = 1..Len(q) - 1
  OBVIOUS
<1>2. q = <<Head(q)>> \o Tail(q) OBVIOUS
<1>3. Range(q) = Range(Tail(q)) \cup {Head(q)}
  <2> DEFINE h == <<Head(q)>>
             r == Tail(q)
  <2>1. h \in Seq(S) /\ Range(h) = {Head(q)} BY <1>1, One
  <2>2. q = h \o r /\ r \in Seq(S) BY <1>1, <1>2
  <2> HIDE DEF h, r
  <2>3. Range(h \o r) = Range(h) \cup Range(r) BY <2>1, <2>2, Joined
  <2>4. Range(q) = Range(r) \cup {Head(q)} BY <2>1, <2>2, <2>3
  <2> QED BY <2>4 DEF r
<1>4. ASSUME NEW x, Single(q, x) PROVE Single(Tail(q), x)
  <2> SUFFICES ASSUME NEW i \in 1..Len(q) - 1, NEW j \in 1..Len(q) - 1, Tail(q)[i] = x, Tail(q)[j] = x
               PROVE  i = j
    BY <1>1 DEF Single
  <2>1. i + 1 \in DOMAIN q /\ j + 1 \in DOMAIN q /\ q[i + 1] = x /\ q[j + 1] = x BY <1>1
  <2>2. i + 1 = j + 1 BY <2>1, <1>4 DEF Single
  <2> QED BY <2>2
<1>5. ASSUME Single(q, Head(q)) PROVE Head(q) \notin Range(Tail(q))
  <2> SUFFICES ASSUME NEW i \in 1..Len(q) - 1, Tail(q)[i] = Head(q) PROVE FALSE
    BY <1>1 DEF Range
  <2>1. i + 1 \in DOMAIN q /\ 1 \in DOMAIN q /\ q[i + 1] = q[1] BY <1>1
  <2> QED BY <2>1, <1>1, <1>5 DEF Single
<1> QED BY <1>1, <1>2, <1>3, <1>4, <1>5

-----------------------------------------------------------------------------
(* Types.                                                                    *)

(* Jobs are of one kind each.                                                *)
LEMMA Kinds ==
    /\ Resumes \in Seq(Resumed) /\ Len(Resumes) \in Nat /\ Once \subseteq Job
    /\ Resumed \subseteq Job /\ Events \subseteq Job /\ Manuals \subseteq Job /\ Release \in Job
    /\ Events \cap Manuals = {} /\ Events \cap Resumed = {} /\ Manuals \cap Resumed = {}
    /\ Release \notin Once \cup Events /\ NoJob \notin Job
    /\ \A k \in 1..Len(Resumes) : Resumes[k] \in Resumed
  BY JobsAssumption DEF Job, Once

(* The boot has enqueued the first journals: as many as it counted.          *)
LEMMA BootsFinite ==
    ASSUME NEW n \in Nat
    PROVE  LET B == {Resumes[k] : k \in 1..n} IN IsFiniteSet(B) /\ Cardinality(B) <= n
<1> DEFINE B == {Resumes[k] : k \in 1..n}
           f == [k \in 1..n |-> Resumes[k]]
<1>1. f \in Surjection(1..n, B) BY DEF Surjection
<1>2. ExistsSurjection(1..n, B) BY <1>1, Zenon DEF ExistsSurjection
<1> QED BY <1>2, FS_NatSurjection, FS_SurjCardinalityBound

(* What the queue may join is of its type.                                   *)
LEMMA QueueJoins ==
    ASSUME TypeOK
    PROVE  /\ \A job \in Job : Append(queue, job) \in Seq(Job)
           /\ \A job \in Job : Range(Append(queue, job)) = Range(queue) \cup {job}
           /\ \A job \in Job : \A x : Single(queue, x) /\ (x # job \/ job \notin Range(queue))
                                    => Single(Append(queue, job), x)
<1>1. queue \in Seq(Job) BY DEF TypeOK
<1> SUFFICES ASSUME NEW job \in Job
             PROVE  /\ Append(queue, job) \in Seq(Job)
                    /\ Range(Append(queue, job)) = Range(queue) \cup {job}
                    /\ \A x : Single(queue, x) /\ (x # job \/ job \notin Range(queue))
                               => Single(Append(queue, job), x)
  OBVIOUS
<1> DEFINE h == <<job>>
<1>2. h \in Seq(Job) /\ Range(h) = {job} /\ (\A y : Single(h, y)) /\ Append(queue, job) = queue \o h
  BY <1>1, One
<1> HIDE DEF h
<1>3. /\ queue \o h \in Seq(Job) /\ Range(queue \o h) = Range(queue) \cup Range(h)
      /\ \A x : Single(queue, x) /\ Single(h, x) /\ (x \notin Range(queue) \/ x \notin Range(h))
                => Single(queue \o h, x)
  BY <1>1, <1>2, Joined
<1> QED BY <1>2, <1>3

(* No more resumes have completed than the boot enqueued.                    *)
LEMMA RecoveredCount ==
    ASSUME TypeOK, ResumesOK
    PROVE  /\ booted \in Nat /\ booted <= Len(Resumes) /\ pending \in Nat /\ Len(Resumes) \in Nat
           /\ IsFiniteSet(Boots) /\ Cardinality(Boots) \in Nat /\ Cardinality(Boots) <= booted
           /\ recovered \subseteq Boots /\ recovered \subseteq Resumed
           /\ IsFiniteSet(recovered) /\ Cardinality(recovered) \in Nat
           /\ pending + Cardinality(recovered) = booted
<1>1. /\ booted \in Nat /\ booted <= Len(Resumes) /\ pending \in Nat /\ pending <= Len(Resumes)
      /\ Len(Resumes) \in Nat
  BY Kinds DEF TypeOK
<1>2. IsFiniteSet(Boots) /\ Cardinality(Boots) <= booted BY <1>1, BootsFinite DEF Boots
<1>3. recovered \subseteq Boots /\ recovered \subseteq Resumed
  BY DEF ResumesOK, TypeOK
<1>4. IsFiniteSet(recovered) /\ Cardinality(recovered) \in Nat /\ Cardinality(Boots) \in Nat
  BY <1>2, <1>3, FS_Subset, FS_CardinalityType
<1>5. pending + Cardinality(recovered) = booted BY DEF ResumesOK
<1> QED BY <1>1, <1>2, <1>3, <1>4, <1>5

(* A resume that completes was pending, and is one of those enqueued.        *)
LEMMA Completes ==
    ASSUME TypeOK, ResumesOK, NEW F \in SUBSET {working},
           F \subseteq Resumed, F # {} => thread = "done"
    PROVE  /\ pending - Cardinality(F) \in 0..Len(Resumes)
           /\ recovered \cup F \subseteq Resumed
           /\ pending - Cardinality(F) + Cardinality(recovered \cup F) = booted
<1> DEFINE B == recovered \cup F
<1>1. /\ booted \in Nat /\ booted <= Len(Resumes) /\ pending \in Nat /\ Len(Resumes) \in Nat
      /\ IsFiniteSet(Boots) /\ Cardinality(Boots) \in Nat /\ Cardinality(Boots) <= booted
      /\ recovered \subseteq Boots /\ recovered \subseteq Resumed
      /\ Cardinality(recovered) \in Nat
      /\ pending + Cardinality(recovered) = booted
  BY RecoveredCount
<1>2. IsFiniteSet(recovered) BY RecoveredCount
<1>3. F \subseteq Boots
  <2> SUFFICES ASSUME working \in F PROVE working \in Boots OBVIOUS
  <2> QED BY DEF ResumesOK, OnHand
<1>4. recovered \cap F = {}
  <2> SUFFICES ASSUME working \in F PROVE working \notin recovered OBVIOUS
  <2> QED BY DEF ResumesOK, OnHand
<1>5. IsFiniteSet(F) BY <1>1, <1>3, FS_Subset
<1>6. Cardinality(F) \in Nat BY <1>5, FS_CardinalityType
<1>7. Cardinality(B) = Cardinality(recovered) + Cardinality(F)
  <2>1. Cardinality(B) = Cardinality(recovered) + Cardinality(F) - Cardinality(recovered \cap F)
    BY <1>2, <1>5, FS_Union
  <2>2. Cardinality(recovered \cap F) = 0 BY <1>4, FS_EmptySet
  <2> HIDE DEF B
  <2> QED BY <2>1, <2>2, <1>1, <1>6
<1>8. Cardinality(B) <= Cardinality(Boots) BY <1>1, <1>3, FS_Subset
<1>9. B \subseteq Resumed BY <1>1
<1> HIDE DEF B
<1>10. pending - Cardinality(F) \in 0..Len(Resumes) /\ pending - Cardinality(F) + Cardinality(B) = booted
  BY <1>1, <1>6, <1>7, <1>8
<1> QED BY <1>9, <1>10 DEF B

(* What a job that is turned away leaves behind is of its type.              *)
LEMMA TurnedType ==
    ASSUME TypeOK, NEW job \in Job, Turned(job)
    PROVE  /\ backlog' \in Seq(Resumed) /\ deferred' \in Seq(Events)
           /\ answer' \in [Manuals -> {"none", "waiting", "launched", "not_launched"}]
<1>1. backlog' \in Seq(Resumed)
  <2>1. CASE job \in Resumed
    <3>1. <<job>> \in Seq(Resumed) /\ backlog \in Seq(Resumed) BY <2>1 DEF TypeOK
    <3> QED BY <3>1, <2>1, Joined DEF Turned
  <2> QED BY <2>1 DEF Turned, TypeOK
<1>2. deferred' \in Seq(Events) BY DEF Turned, TypeOK
<1>3. answer' \in [Manuals -> {"none", "waiting", "launched", "not_launched"}] BY DEF Turned, TypeOK
<1> QED BY <1>1, <1>2, <1>3

(* What a tick emits: an event, or nothing.                                  *)
LEMMA EmissionType ==
    ASSUME NEW emit \in Emission
    PROVE  /\ emit \in Seq(Job) /\ Range(emit) \subseteq Events
           /\ \A x : Single(emit, x)
<1>1. CASE emit = <<>> BY <1>1 DEF Range, Single
<1>2. CASE emit # <<>>
  <2>1. PICK e \in Events : emit = <<e>> BY <1>2 DEF Emission
  <2>2. e \in Job BY Kinds
  <2> QED BY <2>1, <2>2, One
<1> QED BY <1>1, <1>2

(* Every step keeps the types.                                               *)
LEMMA StepType ==
    ASSUME IInv, Next
    PROVE  TypeOK'
<1> USE DEF loopVars, threadVars, history
<1>0. TypeOK /\ LoopOK /\ PlacesOK /\ RequestsOK /\ ResumesOK BY DEF IInv
<1>1. CASE ProviderFlips
  <2>1. flips' \in 0..MaxFlips BY <1>0, <1>1, JobsAssumption DEF ProviderFlips, TypeOK
  <2> QED BY <2>1, <1>0, <1>1 DEF ProviderFlips, TypeOK
<1>2. CASE EnqueueResume
  <2>1. Resumes[booted + 1] \in Resumed /\ Resumes[booted + 1] \in Job /\ booted' \in 0..Len(Resumes)
    BY <1>0, <1>2, Kinds DEF EnqueueResume, TypeOK
  <2>2. pending' \in 0..Len(Resumes)
    <3>1. /\ Cardinality(recovered) \in Nat /\ pending + Cardinality(recovered) = booted
          /\ pending \in Nat /\ booted \in Nat /\ Len(Resumes) \in Nat
      BY <1>0, RecoveredCount
    <3>2. booted < Len(Resumes) /\ pending' = pending + 1 BY <1>2 DEF EnqueueResume
    <3> QED BY <3>1, <3>2
  <2>3. queue' \in Seq(Job)
    <3>1. queue' = queue \/ queue' = Append(queue, Resumes[booted + 1]) BY <1>2 DEF EnqueueResume
    <3> QED BY <3>1, <2>1, <1>0, QueueJoins DEF TypeOK
  <2>4. backlog' \in Seq(Resumed)
    <3>1. backlog' = backlog \/ backlog' = Append(backlog, Resumes[booted + 1])
      BY <1>2 DEF EnqueueResume
    <3>2. backlog \in Seq(Resumed) BY <1>0 DEF TypeOK
    <3> QED BY <3>1, <3>2, <2>1, One, Joined
  <2> QED BY <2>1, <2>2, <2>3, <2>4, <1>0, <1>2 DEF EnqueueResume, TypeOK
<1>3. ASSUME NEW e \in Events, SubmitEvent(e) PROVE TypeOK'
  <2>1. queue' \in Seq(Job) BY <1>0, <1>3, Kinds DEF SubmitEvent, TypeOK
  <2> QED BY <2>1, <1>0, <1>3 DEF SubmitEvent, TypeOK
<1>4. ASSUME NEW emit \in Emission, Tick(emit) PROVE TypeOK'
  <2>1. emit \in Seq(Job) /\ Range(emit) \subseteq Events BY EmissionType
  <2>2. Released \in Seq(Job)
    <3>1. Released = queue \/ Released = Append(queue, Release) BY DEF Released
    <3>2. Release \in Job BY Kinds
    <3>3. Append(queue, Release) \in Seq(Job) /\ queue \in Seq(Job)
      BY <3>2, <1>0, QueueJoins DEF TypeOK
    <3> QED BY <3>1, <3>3
  <2>3. Released \o emit \in Seq(Job) BY <2>1, <2>2, Joined
  <2>4. queue' \in Seq(Job) /\ submitted' \subseteq Events /\ sched' \in {"up", "down"}
    BY <1>0, <2>1, <2>3, <1>4 DEF Tick, TypeOK
  <2> QED BY <2>4, <1>0, <1>4 DEF Tick, TypeOK
<1>5. ASSUME NEW m \in Manuals, SubmitManual(m) PROVE TypeOK'
  <2>1. queue' \in Seq(Job)
    <3>1. queue' = queue \/ queue' = Append(queue, m) BY <1>5 DEF SubmitManual
    <3>2. m \in Job BY Kinds
    <3>3. Append(queue, m) \in Seq(Job) /\ queue \in Seq(Job) BY <3>2, <1>0, QueueJoins DEF TypeOK
    <3> QED BY <3>1, <3>3
  <2>2. answer' \in [Manuals -> {"none", "waiting", "launched", "not_launched"}]
    BY <1>0, <1>5 DEF SubmitManual, TypeOK
  <2> QED BY <2>1, <2>2, <1>0, <1>5 DEF SubmitManual, TypeOK
<1>6. CASE Top
  <2>1. backlog \in Seq(Job) /\ queue \in Seq(Job)
    <3>1. backlog \in Seq(Resumed) /\ Resumed \subseteq Job BY <1>0, Kinds DEF TypeOK
    <3> QED BY <3>1, <1>0 DEF TypeOK
  <2>2. queue \o backlog \in Seq(Job) BY <2>1, Joined
  <2>3. queue' \in Seq(Job) /\ backlog' \in Seq(Resumed)
    <3>1. backlog \in Seq(Resumed) /\ <<>> \in Seq(Resumed) BY <1>0 DEF TypeOK
    <3>2. \/ queue' = queue \o backlog /\ backlog' = <<>>
          \/ queue' = queue /\ backlog' = backlog
      BY <1>6 DEF Top
    <3> QED BY <2>1, <2>2, <3>1, <3>2
  <2> QED BY <2>3, <1>0, <1>6 DEF Top, TypeOK
<1>7. CASE Accept
  <2>1. Head(queue) \in Job /\ Tail(queue) \in Seq(Job) BY <1>0, <1>7 DEF Accept, TypeOK
  <2> QED BY <2>1, <1>0, <1>7 DEF Accept, TypeOK
<1>8. CASE Reject
  <2>1. Head(queue) \in Job /\ Tail(queue) \in Seq(Job) BY <1>0, <1>8 DEF Reject, TypeOK
  <2>2. /\ backlog' \in Seq(Resumed) /\ deferred' \in Seq(Events)
        /\ answer' \in [Manuals -> {"none", "waiting", "launched", "not_launched"}]
    BY <2>1, <1>0, <1>8, TurnedType DEF Reject
  <2> QED BY <2>1, <2>2, <1>0, <1>8 DEF Reject, TypeOK
<1>9. CASE ThreadBegins
  <2>1. delivered' \in Seq(Events) /\ deferred' \in Seq(Events) /\ ran' \in Seq(Resumed)
    <3>1. CASE working = Release
      <4>1. delivered' = delivered \o deferred /\ deferred' = <<>> /\ ran' = ran
        BY <3>1, <1>9, Kinds DEF ThreadBegins, Once
      <4>2. delivered \in Seq(Events) /\ deferred \in Seq(Events) /\ ran \in Seq(Resumed)
        BY <1>0 DEF TypeOK
      <4>3. delivered \o deferred \in Seq(Events) BY <4>2, Joined
      <4> QED BY <4>1, <4>2, <4>3
    <3>2. CASE working # Release
      <4>1. deferred' = deferred /\ (ran' = ran \/ (working \in Resumed /\ ran' = Append(ran, working)))
        BY <3>2, <1>9 DEF ThreadBegins
      <4>2. delivered' = delivered \/ (working \in Events /\ delivered' = Append(delivered, working))
        BY <3>2, <1>9 DEF ThreadBegins
      <4>3. ran \in Seq(Resumed) /\ delivered \in Seq(Events) /\ deferred \in Seq(Events)
        BY <1>0 DEF TypeOK
      <4>4. ran' \in Seq(Resumed)
        <5>1. CASE ran' = ran BY <5>1, <4>3
        <5>2. CASE ran' # ran
          <6>1. working \in Resumed /\ ran' = Append(ran, working) BY <5>2, <4>1
          <6>2. Append(ran, working) \in Seq(Resumed)
            <7> HIDE DEF Resumed
            <7> QED BY <6>1, <4>3
          <6> QED BY <6>1, <6>2
        <5> QED BY <5>1, <5>2
      <4>5. delivered' \in Seq(Events) BY <4>2, <4>3
      <4> QED BY <4>1, <4>3, <4>4, <4>5
    <3> QED BY <3>1, <3>2
  <2> QED BY <2>1, <1>0, <1>9 DEF ThreadBegins, TypeOK
<1>10. CASE ThreadEnds
  <2>1. thread' \in Ended /\ launched' \subseteq Manuals BY <1>0, <1>10 DEF ThreadEnds, TypeOK, Ended
  <2> QED BY <2>1, <1>0, <1>10 DEF ThreadEnds, TypeOK
<1>11. CASE Complete
  <2> DEFINE F == {inflight} \cap (IF thread = "done" THEN Resumed ELSE {})
  <2>1. pending' = pending - Cardinality(F) /\ recovered' = recovered \cup F
    BY <1>11 DEF Complete
  <2>2. F \in SUBSET {working} /\ F \subseteq Resumed /\ (F # {} => thread = "done")
    BY <1>0, <1>11 DEF Complete, LoopOK
  <2> HIDE DEF F
  <2>3. pending' \in 0..Len(Resumes) /\ recovered' \subseteq Resumed
    BY <2>1, <2>2, <1>0, Completes
  <2>4. answer' \in [Manuals -> {"none", "waiting", "launched", "not_launched"}]
    BY <1>0, <1>11 DEF Complete, LoopOK, TypeOK, RequestsOK
  <2> QED BY <2>3, <2>4, <1>0, <1>11 DEF Complete, TypeOK
<1>12. CASE StopTask BY <1>0, <1>12 DEF StopTask, TypeOK
<1>13. CASE EmptyQueue
  <2>1. answer' \in [Manuals -> {"none", "waiting", "launched", "not_launched"}]
    BY <1>0, <1>13 DEF EmptyQueue, TypeOK
  <2> QED BY <2>1, <1>0, <1>13 DEF EmptyQueue, TypeOK
<1>14. CASE StopEnds
  <2>1. answer' \in [Manuals -> {"none", "waiting", "launched", "not_launched"}]
    BY <1>0, <1>14 DEF StopEnds, InflightAnswer, TypeOK
  <2> QED BY <2>1, <1>0, <1>14 DEF StopEnds, TypeOK
<1>15. CASE StopRaises BY <1>0, <1>15 DEF StopRaises, TypeOK
<1> QED
  BY <1>1, <1>2, <1>3, <1>4, <1>5, <1>6, <1>7, <1>8, <1>9, <1>10, <1>11, <1>12, <1>13, <1>14, <1>15
  DEF Next

-----------------------------------------------------------------------------
(* Where the jobs are.                                                       *)

(* Every step leaves the consumer and the thread in step.                    *)
LEMMA StepLoop ==
    ASSUME IInv, Next
    PROVE  LoopOK'
<1> USE DEF loopVars, threadVars, history, Ended
<1>0. TypeOK /\ LoopOK BY DEF IInv
<1>1. CASE ProviderFlips BY <1>0, <1>1 DEF ProviderFlips, LoopOK
<1>2. CASE EnqueueResume
  <2>1. daemon = "serving" BY <1>0, <1>2, Kinds DEF EnqueueResume, LoopOK, TypeOK
  <2> QED BY <2>1, <1>0, <1>2 DEF EnqueueResume, LoopOK
<1>3. ASSUME NEW e \in Events, SubmitEvent(e) PROVE LoopOK'
  BY <1>0, <1>3 DEF SubmitEvent, Serving, LoopOK
<1>4. ASSUME NEW emit \in Emission, Tick(emit) PROVE LoopOK'
  BY <1>0, <1>4 DEF Tick, Serving, LoopOK
<1>5. ASSUME NEW m \in Manuals, SubmitManual(m) PROVE LoopOK'
  BY <1>0, <1>5 DEF SubmitManual, Serving, LoopOK
<1>6. CASE Top BY <1>0, <1>6 DEF Top, Serving, LoopOK
<1>7. CASE Accept BY <1>0, <1>7 DEF Accept, Serving, LoopOK
<1>8. CASE Reject BY <1>0, <1>8 DEF Reject, Serving, LoopOK
<1>9. CASE ThreadBegins BY <1>0, <1>9 DEF ThreadBegins, LoopOK
<1>10. CASE ThreadEnds BY <1>0, <1>10 DEF ThreadEnds, LoopOK
<1>11. CASE Complete BY <1>0, <1>11 DEF Complete, LoopOK
<1>12. CASE StopTask BY <1>0, <1>12 DEF StopTask, Serving, LoopOK
<1>13. CASE EmptyQueue BY <1>0, <1>13 DEF EmptyQueue, LoopOK
<1>14. CASE StopEnds BY <1>0, <1>14 DEF StopEnds, LoopOK
<1>15. CASE StopRaises BY <1>0, <1>15 DEF StopRaises, LoopOK
<1> QED
  BY <1>1, <1>2, <1>3, <1>4, <1>5, <1>6, <1>7, <1>8, <1>9, <1>10, <1>11, <1>12, <1>13, <1>14, <1>15
  DEF Next

(* The resume the boot enqueues is a new one.                                *)
LEMMA Enqueues ==
    ASSUME IInv, EnqueueResume
    PROVE  \E r \in Resumed :
             /\ r \notin Boots /\ Boots' = Boots \cup {r}
             /\ r \notin Range(queue) \cup Range(backlog) \cup Range(ran) /\ ~OnHand(r)
             /\ pending' = pending + 1 /\ booted' = booted + 1
             /\ \/ queue' = Append(queue, r) /\ backlog' = backlog
                \/ queue' = queue /\ backlog' = Append(backlog, r)
<1> DEFINE r == Resumes[booted + 1]
<1>1. /\ booted \in Nat /\ booted + 1 \in 1..Len(Resumes) /\ r \in Resumed
      /\ Resumes \in Seq(Resumed)
  BY Kinds DEF IInv, TypeOK, EnqueueResume
<1>2. r \notin Boots
  <2> SUFFICES ASSUME NEW k \in 1..booted, Resumes[k] = r PROVE FALSE BY DEF Boots
  <2>1. k \in DOMAIN Resumes /\ booted + 1 \in DOMAIN Resumes /\ k # booted + 1 BY <1>1
  <2> QED BY <2>1, JobsAssumption DEF IsInjective
<1>3. Boots' = Boots \cup {r}
  <2>1. booted' = booted + 1 /\ 1..(booted + 1) = 1..booted \cup {booted + 1} BY <1>1 DEF EnqueueResume
  <2> QED BY <2>1 DEF Boots
<1>4. r \notin Range(queue) \cup Range(backlog) \cup Range(ran) /\ ~OnHand(r)
  BY <1>1, <1>2 DEF IInv, ResumesOK
<1>5. /\ pending' = pending + 1 /\ booted' = booted + 1
      /\ \/ queue' = Append(queue, r) /\ backlog' = backlog
         \/ queue' = queue /\ backlog' = Append(backlog, r)
  BY DEF EnqueueResume
<1> QED BY <1>1, <1>2, <1>3, <1>4, <1>5

(* A tick puts no request and no resume in the queue.                        *)
LEMMA Ticks ==
    ASSUME IInv, NEW emit \in Emission, Tick(emit)
    PROVE  /\ Range(queue) \subseteq Range(queue')
           /\ Range(queue') \subseteq Range(queue) \cup Events \cup {Release}
           /\ \A x \in Once : Single(queue, x) => Single(queue', x)
<1>1. /\ emit \in Seq(Job) /\ Range(emit) \subseteq Events /\ (\A x : Single(emit, x))
      /\ Events \cap Once = {} /\ Release \notin Once /\ Release \in Job
  BY EmissionType, Kinds DEF Once
<1>2. /\ Released \in Seq(Job) /\ Range(queue) \subseteq Range(Released)
      /\ Range(Released) \subseteq Range(queue) \cup {Release}
      /\ \A x \in Once : Single(queue, x) => Single(Released, x)
  <2>1. Released = queue \/ Released = Append(queue, Release) BY DEF Released
  <2>2. queue \in Seq(Job) BY DEF IInv, TypeOK
  <2>3. /\ Append(queue, Release) \in Seq(Job)
        /\ Range(Append(queue, Release)) = Range(queue) \cup {Release}
        /\ \A x : Single(queue, x) /\ (x # Release \/ Release \notin Range(queue))
                 => Single(Append(queue, Release), x)
    BY <1>1, QueueJoins DEF IInv
  <2> QED BY <2>1, <2>2, <2>3, <1>1
<1>3. queue' = queue \/ queue' = Released \o emit BY DEF Tick
<1> DEFINE q == Released
<1> HIDE DEF q
<1>4. /\ Range(q \o emit) = Range(q) \cup Range(emit)
      /\ \A x : Single(q, x) /\ Single(emit, x) /\ (x \notin Range(q) \/ x \notin Range(emit))
               => Single(q \o emit, x)
  BY <1>1, <1>2, Joined DEF q
<1> QED BY <1>1, <1>2, <1>3, <1>4 DEF q

(* The job the consumer takes is nowhere else.                               *)
LEMMA Takes ==
    ASSUME IInv, task = "get", daemon = "serving", queue # <<>>
    PROVE  /\ Head(queue) \in Job /\ Head(queue) \in Range(queue) /\ thread = "idle"
           /\ Range(queue) = Range(Tail(queue)) \cup {Head(queue)}
           /\ \A x : Single(queue, x) => Single(Tail(queue), x)
           /\ Head(queue) \in Once => Head(queue) \notin Range(Tail(queue)) \cup Range(backlog)
           /\ \A job : ~OnHand(job)
           /\ Tail(queue) \in Seq(Job)
<1>1. queue \in Seq(Job) BY DEF IInv, TypeOK
<1>2. /\ Head(queue) \in Job /\ Tail(queue) \in Seq(Job)
      /\ Range(queue) = Range(Tail(queue)) \cup {Head(queue)}
      /\ \A x : Single(queue, x) => Single(Tail(queue), x)
      /\ Single(queue, Head(queue)) => Head(queue) \notin Range(Tail(queue))
  BY <1>1, TakenOff
<1>3. thread = "idle" BY DEF IInv, LoopOK
<1> QED BY <1>2, <1>3 DEF IInv, PlacesOK, OnHand

(* Every step keeps each request and each resume in one place.               *)
LEMMA StepPlaces ==
    ASSUME IInv, Next
    PROVE  PlacesOK'
<1> USE DEF loopVars, threadVars, history, Ended
<1>0. TypeOK /\ LoopOK /\ PlacesOK /\ RequestsOK /\ ResumesOK BY DEF IInv
<1>s. ASSUME queue' = queue, backlog' = backlog, \A job : OnHand(job)' => OnHand(job)
      PROVE PlacesOK'
  BY <1>0, <1>s DEF PlacesOK
<1>k. Range(backlog) \subseteq Resumed /\ queue \in Seq(Job) /\ backlog \in Seq(Resumed)
  BY <1>0, InjectiveSingle DEF TypeOK
<1>1. CASE ProviderFlips BY <1>1, <1>s DEF ProviderFlips, OnHand
<1>2. CASE EnqueueResume
  <2>1. PICK r \in Resumed :
          /\ r \notin Range(queue) \cup Range(backlog) /\ ~OnHand(r)
          /\ \/ queue' = Append(queue, r) /\ backlog' = backlog
             \/ queue' = queue /\ backlog' = Append(backlog, r)
    BY <1>2, Enqueues
  <2>2. \A job : OnHand(job)' <=> OnHand(job) BY <1>2 DEF EnqueueResume, OnHand
  <2>3. CASE queue' = Append(queue, r) /\ backlog' = backlog
    <3>1. r \in Job BY Kinds
    <3>2. Range(queue') = Range(queue) \cup {r} /\ \A x : Single(queue, x) => Single(queue', x)
      BY <2>1, <2>3, <3>1, <1>0, QueueJoins
    <3> QED BY <2>1, <2>2, <2>3, <3>2, <1>0 DEF PlacesOK
  <2>4. CASE queue' = queue /\ backlog' = Append(backlog, r)
    <3>0. IsInjective(backlog) /\ backlog \in Seq(Resumed) /\ r \notin Range(backlog)
      BY <2>1, <1>0, <1>k DEF PlacesOK
    <3>1. Range(backlog') = Range(backlog) \cup {r} /\ IsInjective(backlog')
      <4>1. /\ Range(backlog \o <<r>>) = Range(backlog) \cup {r} /\ IsInjective(backlog \o <<r>>)
            /\ Append(backlog, r) = backlog \o <<r>>
        BY <3>0, Distinct
      <4> QED BY <2>4, <4>1, Zenon
    <3> QED BY <2>1, <2>2, <2>4, <3>1, <1>0 DEF PlacesOK
  <2> QED BY <2>1, <2>3, <2>4
<1>3. ASSUME NEW e \in Events, SubmitEvent(e) PROVE PlacesOK'
  <2>1. e \in Job /\ e \notin Once /\ queue' = Append(queue, e) /\ backlog' = backlog
        /\ \A job : OnHand(job)' <=> OnHand(job)
    BY <1>3, Kinds DEF SubmitEvent, OnHand, Once
  <2>2. Range(queue') = Range(queue) \cup {e} /\ \A x \in Once : Single(queue, x) => Single(queue', x)
    BY <2>1, <1>0, QueueJoins
  <2> QED BY <2>1, <2>2, <1>0 DEF PlacesOK
<1>4. ASSUME NEW emit \in Emission, Tick(emit) PROVE PlacesOK'
  <2>1. /\ Range(queue') \subseteq Range(queue) \cup Events \cup {Release}
        /\ \A x \in Once : Single(queue, x) => Single(queue', x)
    BY <1>4, Ticks
  <2>2. backlog' = backlog /\ \A job : OnHand(job)' <=> OnHand(job)
    BY <1>4 DEF Tick, OnHand
  <2>3. Once \cap (Events \cup {Release}) = {} BY Kinds DEF Once
  <2> QED BY <2>1, <2>2, <2>3, <1>0 DEF PlacesOK
<1>5. ASSUME NEW m \in Manuals, SubmitManual(m) PROVE PlacesOK'
  <2>1. backlog' = backlog /\ \A job : OnHand(job)' <=> OnHand(job)
    BY <1>5 DEF SubmitManual, OnHand
  <2>2. CASE queue' = queue BY <2>1, <2>2, <1>s
  <2>3. CASE queue' = Append(queue, m)
    <3>1. m \in Job /\ m \notin Resumed BY Kinds
    <3>2. m \notin Range(queue) /\ ~OnHand(m) /\ m \notin Range(backlog)
      BY <3>1, <1>0, <1>5, <1>k DEF SubmitManual, Serving, RequestsOK
    <3>3. Range(queue') = Range(queue) \cup {m} /\ \A x : Single(queue, x) => Single(queue', x)
      BY <2>3, <3>1, <3>2, <1>0, QueueJoins
    <3> QED BY <2>1, <3>2, <3>3, <1>0 DEF PlacesOK
  <2> QED BY <2>2, <2>3, <1>5 DEF SubmitManual
<1>6. CASE Top
  <2>1. thread = "idle" /\ thread' = "idle" BY <1>0, <1>6 DEF Top, Serving, LoopOK
  <2>2. \A job : ~OnHand(job)' BY <2>1 DEF OnHand
  <2>3. CASE queue' = queue /\ backlog' = backlog BY <2>2, <2>3, <1>s
  <2>4. CASE queue' = queue \o backlog /\ backlog' = <<>>
    <3>1. Range(backlog') = {} /\ IsInjective(backlog') BY <2>4 DEF Range, IsInjective
    <3>2. backlog \in Seq(Job) /\ \A x \in Once : Single(backlog, x)
      BY <1>0, <1>k, Kinds, InjectiveSingle DEF PlacesOK
    <3>3. \A x \in Once : Single(queue', x) BY <2>4, <3>2, <1>0, <1>k, Joined DEF PlacesOK
    <3> QED BY <2>2, <3>1, <3>3 DEF PlacesOK
  <2> QED BY <2>3, <2>4, <1>6 DEF Top
<1>7. CASE Accept
  <2> DEFINE h == Head(queue)
  <2>1. /\ Range(queue) = Range(Tail(queue)) \cup {h}
        /\ \A x : Single(queue, x) => Single(Tail(queue), x)
        /\ h \in Once => h \notin Range(Tail(queue)) \cup Range(backlog)
    BY <1>7, Takes DEF Accept, Serving
  <2>2. queue' = Tail(queue) /\ backlog' = backlog /\ \A job : OnHand(job)' => job = h
    BY <1>7 DEF Accept, OnHand
  <2> HIDE DEF h
  <2> QED BY <2>1, <2>2, <1>0 DEF PlacesOK
<1>8. CASE Reject
  <2> DEFINE h == Head(queue)
  <2>1. /\ Range(queue) = Range(Tail(queue)) \cup {h} /\ thread = "idle"
        /\ \A x : Single(queue, x) => Single(Tail(queue), x)
        /\ h \in Once => h \notin Range(Tail(queue)) \cup Range(backlog)
    BY <1>8, Takes DEF Reject, Serving
  <2>2. queue' = Tail(queue) /\ backlog' = (IF h \in Resumed THEN <<h>> \o backlog ELSE backlog)
        /\ \A job : ~OnHand(job)'
    BY <2>1, <1>8 DEF Reject, Turned, OnHand
  <2> HIDE DEF h
  <2>3. /\ Range(backlog') \subseteq Range(backlog) \cup ({h} \cap Resumed)
        /\ IsInjective(backlog')
    <3>1. CASE h \in Resumed
      <4>1. h \notin Range(backlog) /\ backlog' = <<h>> \o backlog BY <3>1, <2>1, <2>2 DEF Once
      <4>2. IsInjective(backlog) /\ backlog \in Seq(Resumed) BY <1>0, <1>k DEF PlacesOK
      <4>3. Range(<<h>> \o backlog) = Range(backlog) \cup {h} /\ IsInjective(<<h>> \o backlog)
        BY <3>1, <4>1, <4>2, Distinct
      <4> QED BY <3>1, <4>1, <4>3
    <3>2. CASE h \notin Resumed BY <3>2, <2>2, <1>0 DEF PlacesOK
    <3> QED BY <3>1, <3>2
  <2> QED BY <2>1, <2>2, <2>3, <1>0 DEF PlacesOK, Once
<1>9. CASE ThreadBegins BY <1>9, <1>s DEF ThreadBegins, OnHand
<1>10. CASE ThreadEnds BY <1>10, <1>s DEF ThreadEnds, OnHand
<1>11. CASE Complete BY <1>11, <1>s DEF Complete, OnHand
<1>12. CASE StopTask BY <1>12, <1>s DEF StopTask, OnHand
<1>13. CASE EmptyQueue
  <2>1. queue' = <<>> /\ backlog' = backlog /\ \A job : OnHand(job)' <=> OnHand(job)
    BY <1>13 DEF EmptyQueue, OnHand
  <2>2. Range(queue') = {} /\ \A x : Single(queue', x) BY <2>1 DEF Range, Single
  <2> QED BY <2>1, <2>2, <1>0 DEF PlacesOK
<1>14. CASE StopEnds BY <1>14, <1>s DEF StopEnds, OnHand
<1>15. CASE StopRaises BY <1>15, <1>s DEF StopRaises, OnHand
<1> QED
  BY <1>1, <1>2, <1>3, <1>4, <1>5, <1>6, <1>7, <1>8, <1>9, <1>10, <1>11, <1>12, <1>13, <1>14, <1>15
  DEF Next

-----------------------------------------------------------------------------
(* What requests are told.                                                   *)

(* Every step keeps the answers honest.                                      *)
LEMMA StepRequests ==
    ASSUME IInv, Next
    PROVE  RequestsOK'
<1> USE DEF loopVars, threadVars, history, Ended
<1>0. TypeOK /\ LoopOK /\ PlacesOK /\ RequestsOK /\ ResumesOK BY DEF IInv
<1>k. Manuals \subseteq Once /\ NoJob \notin Manuals BY Kinds DEF Once, Job
<1>s. ASSUME \A m \in Manuals : m \in Range(queue') => m \in Range(queue),
             \A m \in Manuals : OnHand(m)' => OnHand(m) \/ m \in Range(queue),
             answer' = answer, launched' = launched, daemon # "stopped",
             \A m \in Manuals : working = m /\ thread = "launched" => working' = m /\ thread' = "launched",
             \A m \in Manuals : working' = m /\ thread' \in Ended
                               => working = m /\ thread = thread'
      PROVE RequestsOK'
  BY <1>0, <1>s DEF RequestsOK
<1>1. CASE ProviderFlips BY <1>0, <1>1 DEF ProviderFlips, RequestsOK, OnHand
<1>2. CASE EnqueueResume
  <2>1. PICK r \in Resumed : queue' = Append(queue, r) \/ queue' = queue BY <1>2, Enqueues
  <2>2. r \in Job /\ r \notin Manuals BY Kinds
  <2>3. \A m \in Manuals : m \in Range(queue') => m \in Range(queue) BY <2>1, <2>2, <1>0, QueueJoins
  <2> QED BY <2>3, <1>0, <1>2 DEF EnqueueResume, RequestsOK, OnHand
<1>3. ASSUME NEW e \in Events, SubmitEvent(e) PROVE RequestsOK'
  <2>1. e \in Job /\ e \notin Manuals /\ queue' = Append(queue, e) BY <1>3, Kinds DEF SubmitEvent
  <2>2. \A m \in Manuals : m \in Range(queue') => m \in Range(queue) BY <2>1, <1>0, QueueJoins
  <2> QED BY <2>2, <1>3, <1>s DEF SubmitEvent, Serving, OnHand
<1>4. ASSUME NEW emit \in Emission, Tick(emit) PROVE RequestsOK'
  <2>1. Range(queue') \subseteq Range(queue) \cup Events \cup {Release} BY <1>4, Ticks
  <2>2. Manuals \cap (Events \cup {Release}) = {} BY Kinds DEF Once
  <2> QED BY <2>1, <2>2, <1>4, <1>s DEF Tick, Serving, OnHand
<1>5. ASSUME NEW m \in Manuals, SubmitManual(m) PROVE RequestsOK'
  <2>1. m \in Job BY Kinds
  <2>2. Range(queue') \subseteq Range(queue) \cup {m} BY <2>1, <1>0, <1>5, QueueJoins DEF SubmitManual
  <2>3. m \notin Range(queue) /\ ~OnHand(m) /\ m \notin launched
    BY <1>0, <1>5 DEF SubmitManual, Serving, RequestsOK, OnHand
  <2>4. working' = working /\ thread' = thread /\ launched' = launched /\ daemon' = daemon
    BY <1>5 DEF SubmitManual
  <2>5. CASE provider
    <3>1. \A t \in Manuals : answer'[t] = IF t = m THEN "waiting" ELSE answer[t]
      BY <2>5, <1>0, <1>5 DEF SubmitManual, TypeOK
    <3> QED BY <2>2, <2>3, <2>4, <3>1, <1>0 DEF RequestsOK, OnHand
  <2>6. CASE ~provider
    <3>1. /\ queue' = queue
          /\ \A t \in Manuals : answer'[t] = IF t = m THEN "not_launched" ELSE answer[t]
      BY <2>6, <1>0, <1>5 DEF SubmitManual, TypeOK
    <3> QED BY <2>3, <2>4, <3>1, <1>0 DEF RequestsOK, OnHand
  <2> QED BY <2>5, <2>6
<1>6. CASE Top
  <2>1. backlog \in Seq(Job) /\ queue \in Seq(Job) /\ Range(backlog) \subseteq Resumed
    BY <1>0, Kinds, InjectiveSingle DEF TypeOK
  <2>2. Range(queue') \subseteq Range(queue) \cup Resumed
    <3>1. queue' = queue \/ queue' = queue \o backlog BY <1>6 DEF Top
    <3>2. Range(queue \o backlog) = Range(queue) \cup Range(backlog) BY <2>1, Joined
    <3> QED BY <2>1, <3>1, <3>2
  <2>3. Manuals \cap Resumed = {} BY Kinds
  <2> QED BY <2>2, <2>3, <1>6, <1>s DEF Top, Serving, OnHand
<1>7. CASE Accept
  <2>1. Head(queue) \in Range(queue) /\ Range(Tail(queue)) \subseteq Range(queue) /\ thread = "idle"
    BY <1>7, Takes DEF Accept, Serving
  <2> QED BY <2>1, <1>7, <1>s DEF Accept, Serving, OnHand
<1>8. CASE Reject
  <2> DEFINE h == Head(queue)
  <2>1. /\ h \in Range(queue) /\ thread = "idle" /\ Range(Tail(queue)) \subseteq Range(queue)
        /\ h \in Once => h \notin Range(Tail(queue))
    BY <1>8, Takes DEF Reject, Serving
  <2>2. /\ queue' = Tail(queue) /\ thread' = "idle" /\ working' = working /\ launched' = launched
        /\ \A m \in Manuals : answer'[m] = IF m = h THEN "not_launched" ELSE answer[m]
    BY <2>1, <1>8 DEF Reject, Turned
  <2> HIDE DEF h
  <2>3. \A m \in Manuals : m \in launched => answer[m] = "launched"
    BY <2>1, <1>0 DEF RequestsOK
  <2>4. \A m \in Manuals : m = h => answer[m] = "waiting" BY <2>1, <1>0 DEF RequestsOK
  <2> QED BY <2>1, <2>2, <2>3, <2>4, <1>0, <1>k DEF RequestsOK, OnHand
<1>9. CASE ThreadBegins BY <1>0, <1>9 DEF ThreadBegins, RequestsOK, OnHand
<1>10. CASE ThreadEnds
  <2>1. /\ queue' = queue /\ working' = working /\ daemon' = daemon /\ answer' = answer
        /\ thread = "running" /\ thread' \in Ended
        /\ thread' = "launched" => launched' = launched \cup {working}
        /\ thread' # "launched" => launched' = launched
        /\ working \in Manuals => thread' \in {"launched", "not_launched"}
    BY <1>10, Kinds DEF ThreadEnds
  <2>2. CASE thread' = "launched" BY <2>1, <2>2, <1>0 DEF RequestsOK, OnHand
  <2>3. CASE thread' # "launched" BY <2>1, <2>3, <1>0 DEF RequestsOK, OnHand
  <2> QED BY <2>2, <2>3
<1>11. CASE Complete
  <2>1. /\ working = inflight /\ thread \in Ended /\ queue' = queue /\ launched' = launched
        /\ working' = NoJob /\ thread' = "idle"
        /\ \A m \in Manuals : answer'[m] = IF m = inflight THEN thread ELSE answer[m]
    BY <1>0, <1>11 DEF Complete, LoopOK
  <2>2. ASSUME NEW m \in Manuals, m = working
        PROVE  /\ m \notin Range(queue) /\ thread \in {"launched", "not_launched"}
               /\ m \in launched <=> thread = "launched"
    <3>1. OnHand(m) /\ daemon # "stopped" BY <2>1, <2>2, <1>11 DEF OnHand, Complete
    <3> QED BY <2>1, <2>2, <3>1, <1>0, <1>k DEF RequestsOK, PlacesOK
  <2> QED BY <2>1, <2>2, <1>0 DEF RequestsOK, OnHand
<1>12. CASE StopTask BY <1>0, <1>12 DEF StopTask, Serving, RequestsOK, OnHand
<1>13. CASE EmptyQueue
  <2>1. /\ queue' = <<>> /\ working' = working /\ thread' = thread /\ launched' = launched
        /\ daemon = "stopping" /\ daemon' = "draining"
        /\ \A m \in Manuals : answer'[m] = IF m \in Range(queue) THEN "not_launched" ELSE answer[m]
    BY <1>13 DEF EmptyQueue
  <2>2. Range(queue') = {} BY <2>1 DEF Range
  <2>3. \A m \in Manuals : m \in Range(queue) => ~OnHand(m) /\ answer[m] = "waiting" /\ m \notin launched
    BY <2>1, <1>0, <1>k DEF RequestsOK, PlacesOK, OnHand
  <2> QED BY <2>1, <2>2, <2>3, <1>0 DEF RequestsOK, OnHand
<1>14. CASE StopEnds
  <2>1. /\ queue' = <<>> /\ working' = working /\ thread' = thread /\ launched' = launched
        /\ daemon = "draining" /\ daemon' = "stopped"
        /\ \A m \in Manuals : answer'[m] = IF m = inflight /\ answer[m] = "waiting"
                                           THEN InflightAnswer ELSE answer[m]
    BY <1>0, <1>14 DEF StopEnds, LoopOK
  <2>2. Range(queue') = {} BY <2>1 DEF Range
  <2>3. ASSUME NEW m \in Manuals, thread = "launched", working = m
        PROVE  m = inflight /\ answer[m] = "waiting" /\ m \in launched
    <3>1. OnHand(m) /\ m = inflight BY <2>1, <2>3, <1>0 DEF OnHand, LoopOK
    <3> QED BY <2>1, <2>3, <3>1, <1>0 DEF RequestsOK
  <2>4. ASSUME NEW m \in Manuals, m = inflight, thread = "launched" PROVE working = m
    BY <2>1, <2>4, <1>0 DEF LoopOK
  <2> QED BY <2>1, <2>2, <2>3, <2>4, <1>0 DEF RequestsOK, InflightAnswer
<1>15. CASE StopRaises BY <1>0, <1>15 DEF StopRaises, RequestsOK, OnHand
<1> QED
  BY <1>1, <1>2, <1>3, <1>4, <1>5, <1>6, <1>7, <1>8, <1>9, <1>10, <1>11, <1>12, <1>13, <1>14, <1>15
  DEF Next

-----------------------------------------------------------------------------
(* Boot resumes.                                                             *)

(* Every step keeps each resume from being run again.                        *)
LEMMA StepResumes ==
    ASSUME IInv, Next
    PROVE  ResumesOK'
<1> USE DEF loopVars, threadVars, history, Ended
<1>0. TypeOK /\ LoopOK /\ PlacesOK /\ RequestsOK /\ ResumesOK BY DEF IInv
<1>k. /\ Range(backlog) \subseteq Resumed /\ queue \in Seq(Job) /\ backlog \in Seq(Resumed)
      /\ ran \in Seq(Resumed) /\ Range(ran) \subseteq Resumed /\ Resumed \subseteq Once
      /\ Resumed \cap (Manuals \cup Events \cup {Release, NoJob}) = {}
  BY <1>0, Kinds, InjectiveSingle DEF TypeOK, Once, Job
<1>s. ASSUME Resumed \cap (Range(queue') \cup Range(backlog')) \subseteq Range(queue) \cup Range(backlog),
             working' = working, thread' = thread, ran' = ran, recovered' = recovered,
             pending' = pending, booted' = booted
      PROVE  ResumesOK'
  <2>1. Boots' = Boots BY <1>s DEF Boots
  <2> QED BY <2>1, <1>0, <1>s, <1>k DEF ResumesOK, OnHand
<1>1. CASE ProviderFlips BY <1>1, <1>s DEF ProviderFlips
<1>2. CASE EnqueueResume
  <2>1. PICK r \in Resumed :
          /\ r \notin Boots /\ Boots' = Boots \cup {r}
          /\ r \notin Range(queue) \cup Range(backlog) \cup Range(ran)
          /\ pending' = pending + 1 /\ booted' = booted + 1
          /\ \/ queue' = Append(queue, r) /\ backlog' = backlog
             \/ queue' = queue /\ backlog' = Append(backlog, r)
    BY <1>2, Enqueues
  <2>2. Range(queue') \cup Range(backlog') = Range(queue) \cup Range(backlog) \cup {r}
    <3>1. r \in Job BY Kinds
    <3>2. Range(Append(queue, r)) = Range(queue) \cup {r} BY <3>1, <1>0, QueueJoins
    <3>0. IsInjective(backlog) /\ backlog \in Seq(Resumed) /\ r \notin Range(backlog)
      BY <2>1, <1>0, <1>k DEF PlacesOK
    <3>4. Range(backlog \o <<r>>) = Range(backlog) \cup {r} /\ Append(backlog, r) = backlog \o <<r>>
      BY <3>0, Distinct
    <3>3. Range(Append(backlog, r)) = Range(backlog) \cup {r} BY <3>4, Zenon
    <3> QED BY <2>1, <3>2, <3>3
  <2>3. working' = working /\ thread' = thread /\ ran' = ran /\ recovered' = recovered
    BY <1>2 DEF EnqueueResume
  <2>4. pending' + Cardinality(recovered') = booted'
    <3>1. /\ pending \in Nat /\ booted \in Nat /\ Cardinality(recovered) \in Nat
          /\ pending + Cardinality(recovered) = booted
      BY <1>0, RecoveredCount
    <3> QED BY <2>1, <2>3, <3>1
  <2> QED BY <2>1, <2>2, <2>3, <2>4, <1>0 DEF ResumesOK, OnHand
<1>3. ASSUME NEW e \in Events, SubmitEvent(e) PROVE ResumesOK'
  <2>1. Range(queue') = Range(queue) \cup {e} BY <1>0, <1>3, Kinds, QueueJoins DEF SubmitEvent
  <2> QED BY <2>1, <1>3, <1>k, <1>s DEF SubmitEvent
<1>4. ASSUME NEW emit \in Emission, Tick(emit) PROVE ResumesOK'
  <2>1. Range(queue') \subseteq Range(queue) \cup Events \cup {Release} BY <1>4, Ticks
  <2> QED BY <2>1, <1>4, <1>k, <1>s DEF Tick
<1>5. ASSUME NEW m \in Manuals, SubmitManual(m) PROVE ResumesOK'
  <2>1. Range(queue') \subseteq Range(queue) \cup {m}
    BY <1>0, <1>5, Kinds, QueueJoins DEF SubmitManual
  <2> QED BY <2>1, <1>5, <1>k, <1>s DEF SubmitManual
<1>6. CASE Top
  <2>1. backlog \in Seq(Job) /\ queue \in Seq(Job) BY <1>k, Kinds
  <2>2. Range(queue \o backlog) = Range(queue) \cup Range(backlog) BY <2>1, Joined
  <2>3. Range(queue') \cup Range(backlog') \subseteq Range(queue) \cup Range(backlog)
    <3>1. CASE provider
      <4>1. queue' = queue \o backlog /\ Range(backlog') = {} BY <3>1, <1>6 DEF Top, Range
      <4> QED BY <4>1, <2>2
    <3>2. CASE ~provider BY <3>2, <1>6 DEF Top
    <3> QED BY <3>1, <3>2
  <2> QED BY <2>3, <1>6, <1>s DEF Top
<1>7. CASE Accept
  <2> DEFINE h == Head(queue)
  <2>1. h \in Range(queue) /\ Range(Tail(queue)) \subseteq Range(queue) /\ \A job : ~OnHand(job)
    BY <1>7, Takes DEF Accept, Serving
  <2>2. /\ queue' = Tail(queue) /\ backlog' = backlog /\ working' = h /\ thread' = "handed"
        /\ ran' = ran /\ recovered' = recovered /\ pending' = pending /\ Boots' = Boots /\ booted' = booted
    BY <1>7 DEF Accept, Boots
  <2> HIDE DEF h
  <2> QED BY <2>1, <2>2, <1>0, <1>k DEF ResumesOK, OnHand
<1>8. CASE Reject
  <2> DEFINE h == Head(queue)
  <2>1. /\ h \in Range(queue) /\ Range(Tail(queue)) \subseteq Range(queue)
        /\ h \in Once => h \notin Range(backlog)
    BY <1>8, Takes DEF Reject, Serving
  <2>2. /\ queue' = Tail(queue) /\ backlog' = (IF h \in Resumed THEN <<h>> \o backlog ELSE backlog)
    BY <1>8 DEF Reject, Turned
  <2> HIDE DEF h
  <2>3. Range(backlog') \subseteq Range(backlog) \cup {h}
    <3>1. CASE h \in Resumed
      <4>1. backlog' = <<h>> \o backlog /\ h \notin Range(backlog) BY <3>1, <2>1, <2>2, <1>k
      <4>2. IsInjective(backlog) /\ backlog \in Seq(Resumed) BY <1>0, <1>k DEF PlacesOK
      <4>3. Range(<<h>> \o backlog) = Range(backlog) \cup {h} BY <3>1, <4>1, <4>2, Distinct
      <4> QED BY <4>1, <4>3
    <3>2. CASE h \notin Resumed BY <3>2, <2>2
    <3> QED BY <3>1, <3>2
  <2> QED BY <2>1, <2>2, <2>3, <1>8, <1>s DEF Reject
<1>9. CASE ThreadBegins
  <2>1. /\ queue' = queue /\ backlog' = backlog /\ working' = working /\ thread = "handed" /\ thread' = "running"
        /\ recovered' = recovered /\ pending' = pending /\ Boots' = Boots /\ booted' = booted
    BY <1>9 DEF ThreadBegins, Boots
  <2>2. CASE working \in Resumed
    <3>1. /\ OnHand(working) /\ working \notin Range(ran) \cup Range(queue) \cup Range(backlog)
          /\ working \in Boots
      BY <2>1, <2>2, <1>0, <1>k DEF OnHand, ResumesOK, PlacesOK
    <3>2. ran' = Append(ran, working) BY <2>2, <1>9, <1>k DEF ThreadBegins
    <3>3. Range(ran') = Range(ran) \cup {working} /\ IsInjective(ran')
      <4>1. IsInjective(ran) /\ ran \in Seq(Resumed) /\ working \notin Range(ran)
        BY <3>1, <1>0, <1>k DEF ResumesOK
      <4>2. /\ Range(ran \o <<working>>) = Range(ran) \cup {working} /\ IsInjective(ran \o <<working>>)
            /\ Append(ran, working) = ran \o <<working>>
        BY <2>2, <4>1, Distinct
      <4> QED BY <3>2, <4>2, Zenon
    <3> QED BY <2>1, <2>2, <3>1, <3>3, <1>0 DEF ResumesOK, OnHand
  <2>3. CASE working \notin Resumed
    <3>1. ran' = ran BY <2>3, <1>9 DEF ThreadBegins
    <3> QED BY <2>1, <2>3, <3>1, <1>0 DEF ResumesOK, OnHand
  <2> QED BY <2>2, <2>3
<1>10. CASE ThreadEnds
  <2>1. /\ queue' = queue /\ backlog' = backlog /\ working' = working /\ thread = "running" /\ thread' \in Ended
        /\ ran' = ran /\ recovered' = recovered /\ pending' = pending /\ Boots' = Boots /\ booted' = booted
    BY <1>10 DEF ThreadEnds, Boots
  <2> QED BY <2>1, <1>0 DEF ResumesOK, OnHand
<1>11. CASE Complete
  <2> DEFINE F == {inflight} \cap (IF thread = "done" THEN Resumed ELSE {})
  <2>1. /\ pending' = pending - Cardinality(F) /\ recovered' = recovered \cup F /\ thread' = "idle"
        /\ queue' = queue /\ backlog' = backlog /\ ran' = ran /\ Boots' = Boots /\ booted' = booted
        /\ thread \in Ended
    BY <1>11 DEF Complete, Boots
  <2>2. F \in SUBSET {working} /\ F \subseteq Resumed /\ (F # {} => thread = "done")
    BY <1>0, <1>11 DEF Complete, LoopOK
  <2> HIDE DEF F
  <2>3. pending' + Cardinality(recovered') = booted' BY <2>1, <2>2, <1>0, Completes
  <2>4. F \subseteq Range(ran) BY <2>2, <1>0 DEF ResumesOK, OnHand
  <2> QED BY <2>1, <2>3, <2>4, <1>0 DEF ResumesOK, OnHand
<1>12. CASE StopTask
  <2>1. /\ queue' = queue /\ backlog' = backlog /\ working' = working /\ thread' \in {thread, "cancelled"}
        /\ ran' = ran /\ recovered' = recovered /\ pending' = pending /\ Boots' = Boots /\ booted' = booted
    BY <1>12 DEF StopTask, Boots
  <2> QED BY <2>1, <1>0 DEF ResumesOK, OnHand
<1>13. CASE EmptyQueue
  <2>1. Range(queue') = {} BY <1>13 DEF EmptyQueue, Range
  <2> QED BY <2>1, <1>13, <1>s DEF EmptyQueue
<1>14. CASE StopEnds BY <1>14, <1>s DEF StopEnds
<1>15. CASE StopRaises BY <1>15, <1>s DEF StopRaises
<1> QED
  BY <1>1, <1>2, <1>3, <1>4, <1>5, <1>6, <1>7, <1>8, <1>9, <1>10, <1>11, <1>12, <1>13, <1>14, <1>15
  DEF Next

-----------------------------------------------------------------------------
(* Events.                                                                   *)

(* How often a job is in a sequence that is joined, taken from or empty.     *)
LEMMA TimesJoined ==
    ASSUME NEW S, NEW q \in Seq(S), NEW r \in Seq(S), NEW e
    PROVE  Times(e, q) \in Nat /\ Times(e, r) \in Nat /\ Times(e, q \o r) = Times(e, q) + Times(e, r)
<1> DEFINE s == q \o r
           A == {i \in 1..Len(q) : q[i] = e}
           B == {i \in 1..Len(r) : r[i] = e}
           C == {i \in 1..Len(s) : s[i] = e}
           shift == [i \in B |-> Len(q) + i]
           D == C \ A
<1>1. /\ Len(q) \in Nat /\ Len(r) \in Nat /\ Len(s) = Len(q) + Len(r)
      /\ DOMAIN q = 1..Len(q) /\ DOMAIN r = 1..Len(r) /\ DOMAIN s = 1..Len(s)
      /\ \A i \in 1..Len(q) : s[i] = q[i]
      /\ \A i \in 1..Len(r) : s[Len(q) + i] = r[i]
  OBVIOUS
<1>2. Times(e, q) = Cardinality(A) /\ Times(e, r) = Cardinality(B) /\ Times(e, s) = Cardinality(C)
  BY <1>1 DEF Times
<1>3. IsFiniteSet(1..Len(q)) /\ IsFiniteSet(1..Len(r)) BY <1>1, FS_Interval
<1>4. IsFiniteSet(A) /\ IsFiniteSet(B) BY <1>3, FS_Subset
<1> HIDE DEF s
<1>5. A \subseteq C BY <1>1
<1>6. shift \in Bijection(B, D)
  <2>1. ASSUME NEW i \in B PROVE Len(q) + i \in D
    <3>1. Len(q) + i \in 1..Len(s) /\ s[Len(q) + i] = e /\ Len(q) + i \notin 1..Len(q) BY <1>1
    <3> QED BY <3>1
  <2>2. ASSUME NEW j \in D PROVE \E i \in B : shift[i] = j
    <3>1. j \in 1..Len(s) /\ s[j] = e OBVIOUS
    <3>2. j \notin 1..Len(q) BY <3>1, <1>1
    <3>3. j - Len(q) \in 1..Len(r) /\ Len(q) + (j - Len(q)) = j BY <3>1, <3>2, <1>1
    <3>4. j - Len(q) \in B BY <3>1, <3>3, <1>1
    <3> QED BY <3>3, <3>4
  <2>3. shift \in [B -> D] BY <2>1
  <2>4. IsInjective(shift) BY <1>1 DEF IsInjective
  <2> QED BY <2>2, <2>3, <2>4 DEF Bijection, Injection, Surjection
<1>7. IsFiniteSet(D) /\ Cardinality(D) = Cardinality(B)
  <2>1. ExistsBijection(B, D) BY <1>6 DEF ExistsBijection
  <2> QED BY <2>1, <1>4, FS_Bijection
<1>8. C = A \cup D /\ A \cap D = {} BY <1>5
<1> HIDE DEF A, B, C, D
<1>9. Cardinality(A) \in Nat /\ Cardinality(B) \in Nat BY <1>4, FS_CardinalityType
<1>10. Cardinality(C) = Cardinality(A) + Cardinality(D) - Cardinality(A \cap D)
  BY <1>4, <1>7, <1>8, FS_Union
<1>11. Cardinality(A \cap D) = 0 BY <1>8, FS_EmptySet
<1> QED BY <1>2, <1>7, <1>9, <1>10, <1>11 DEF s

(* How often a job is in a sequence of one.                                  *)
LEMMA TimesOne == \A e, x : Times(e, <<x>>) = (IF x = e THEN 1 ELSE 0)
<1> SUFFICES ASSUME NEW e, NEW x PROVE Times(e, <<x>>) = (IF x = e THEN 1 ELSE 0) OBVIOUS
<1> DEFINE T == {i \in DOMAIN <<x>> : <<x>>[i] = e}
<1>1. T = IF x = e THEN {1} ELSE {} OBVIOUS
<1>2. Times(e, <<x>>) = Cardinality(T) BY DEF Times
<1> HIDE DEF T
<1> QED BY <1>1, <1>2, FS_Singleton, FS_EmptySet

(* A job that is not in a sequence is in it no time.                         *)
LEMMA TimesNone == \A q, e : e \notin Range(q) => Times(e, q) = 0
<1> SUFFICES ASSUME NEW q, NEW e, e \notin Range(q) PROVE Times(e, q) = 0 OBVIOUS
<1>1. {i \in DOMAIN q : q[i] = e} = {} BY DEF Range
<1> QED BY <1>1, FS_EmptySet DEF Times

(* One job put at the end.                                                   *)
LEMMA TimesAppend ==
    ASSUME NEW S, NEW q \in Seq(S), NEW x \in S, NEW e
    PROVE  Times(e, q) \in Nat /\ Times(e, Append(q, x)) = Times(e, q) + (IF x = e THEN 1 ELSE 0)
<1> DEFINE h == <<x>>
<1>1. h \in Seq(S) /\ Append(q, x) = q \o h BY One
<1>2. Times(e, h) = (IF x = e THEN 1 ELSE 0) BY TimesOne
<1> HIDE DEF h
<1>3. Times(e, q) \in Nat /\ Times(e, q \o h) = Times(e, q) + Times(e, h) BY <1>1, TimesJoined
<1> QED BY <1>1, <1>2, <1>3

(* The first job taken off.                                                  *)
LEMMA TimesTail ==
    ASSUME NEW S, NEW q \in Seq(S), q # <<>>, NEW e
    PROVE  /\ Times(e, Tail(q)) \in Nat
           /\ Times(e, q) = Times(e, Tail(q)) + (IF Head(q) = e THEN 1 ELSE 0)
<1> DEFINE h == <<Head(q)>>
           r == Tail(q)
<1>1. h \in Seq(S) /\ r \in Seq(S) /\ q = h \o r BY TakenOff, One
<1>2. Times(e, h) = (IF Head(q) = e THEN 1 ELSE 0) BY TimesOne
<1> HIDE DEF h, r
<1>3. Times(e, r) \in Nat /\ Times(e, h \o r) = Times(e, h) + Times(e, r) BY <1>1, TimesJoined
<1>4. Times(e, q) = Times(e, r) + (IF Head(q) = e THEN 1 ELSE 0) BY <1>1, <1>2, <1>3
<1> QED BY <1>3, <1>4 DEF r

(* Every step of a serving daemon keeps each event in one place.             *)
LEMMA StepEvents ==
    ASSUME IInv, EventsKept, Next
    PROVE  EventsKept'
<1> USE DEF loopVars, threadVars, history, Ended
<1>0. TypeOK /\ LoopOK BY DEF IInv
<1>k. /\ queue \in Seq(Job) /\ deferred \in Seq(Events) /\ delivered \in Seq(Events)
      /\ backlog \in Seq(Resumed) /\ Range(backlog) \subseteq Resumed
  BY <1>0, InjectiveSingle DEF TypeOK
<1> SUFFICES ASSUME daemon' = "serving", NEW e \in Events
             PROVE  Times(e, queue') + OnThread(e)' + Times(e, deferred') + Times(e, delivered')
                        = IF e \in submitted' THEN 1 ELSE 0
  BY DEF EventsKept
<1>e. e \in Job /\ e \notin Once \cup {Release, NoJob} BY Kinds DEF Once
<1>o. ASSUME daemon = "serving"
      PROVE  Times(e, queue) + OnThread(e) + Times(e, deferred) + Times(e, delivered)
                 = IF e \in submitted THEN 1 ELSE 0
  BY <1>o DEF EventsKept
<1>n. /\ Times(e, queue) \in Nat /\ Times(e, deferred) \in Nat /\ Times(e, delivered) \in Nat
      /\ OnThread(e) \in 0..1
  BY <1>k, TimesJoined DEF OnThread
<1>s. ASSUME daemon = "serving", Times(e, queue') = Times(e, queue), OnThread(e)' = OnThread(e),
             deferred' = deferred, delivered' = delivered, e \in submitted' <=> e \in submitted
      PROVE  Times(e, queue') + OnThread(e)' + Times(e, deferred') + Times(e, delivered')
                 = IF e \in submitted' THEN 1 ELSE 0
  BY <1>s, <1>o
<1>j. ASSUME NEW job \in Job
      PROVE  Times(e, Append(queue, job)) = Times(e, queue) + (IF job = e THEN 1 ELSE 0)
  BY <1>k, TimesAppend
<1>1. CASE ProviderFlips BY <1>1, <1>s DEF ProviderFlips, OnThread
<1>2. CASE EnqueueResume
  <2>1. PICK r \in Resumed : queue' = Append(queue, r) \/ queue' = queue BY <1>2, Enqueues DEF IInv
  <2>2. r \in Job /\ r # e BY <1>e, Kinds DEF Once
  <2>3. Times(e, queue') = Times(e, queue)
    <3>1. Times(e, Append(queue, r)) = Times(e, queue) + 0 BY <2>2, <1>j
    <3>2. Times(e, Append(queue, r)) = Times(e, queue) BY <3>1, <1>n
    <3> QED BY <2>1, <3>2, Zenon
  <2> QED BY <2>3, <1>2, <1>s DEF EnqueueResume, OnThread
<1>3. CASE \E x \in Events : SubmitEvent(x)
  <2>1. PICK x \in Events : SubmitEvent(x) BY <1>3
  <2>2. x \in Job BY Kinds
  <2>3. Times(e, queue') = Times(e, queue) + (IF x = e THEN 1 ELSE 0)
    BY <2>1, <2>2, <1>j DEF SubmitEvent
  <2>4. /\ daemon = "serving" /\ OnThread(e)' = OnThread(e) /\ deferred' = deferred /\ delivered' = delivered
        /\ x \notin submitted /\ submitted' = submitted \cup {x}
    BY <2>1 DEF SubmitEvent, Serving, OnThread
  <2> QED BY <2>3, <2>4, <1>o, <1>n
<1>4. CASE \E emit \in Emission : Tick(emit)
  <2>1. PICK emit \in Emission : Tick(emit) BY <1>4
  <2>2. emit \in Seq(Job) BY EmissionType
  <2>3. Released \in Seq(Job) /\ Times(e, Released) = Times(e, queue)
    <3>1. Released = queue \/ Released = Append(queue, Release) BY DEF Released
    <3>2. Release \in Job /\ Release # e BY <1>e, Kinds
    <3>3. Append(queue, Release) \in Seq(Job) BY <3>2, <1>0, QueueJoins
    <3>4. Times(e, Append(queue, Release)) = Times(e, queue) BY <3>2, <1>j, <1>n
    <3> QED BY <3>1, <3>3, <3>4, <1>k
  <2>4. /\ daemon = "serving" /\ OnThread(e)' = OnThread(e) /\ deferred' = deferred /\ delivered' = delivered
    BY <2>1 DEF Tick, Serving, OnThread
  <2>5. CASE queue' = queue /\ submitted' = submitted BY <2>4, <2>5, <1>s
  <2>6. CASE queue' = Released \o emit /\ submitted' = submitted \cup Range(emit)
    <3>1. Times(e, queue') = Times(e, queue) + Times(e, emit)
      <4> DEFINE q == Released
      <4>1. q \in Seq(Job) /\ Times(e, q) = Times(e, queue) BY <2>3
      <4>2. queue' = q \o emit BY <2>6
      <4> HIDE DEF q
      <4> QED BY <4>1, <4>2, <2>2, TimesJoined
    <3>2. CASE emit = <<>>
      <4>1. e \notin Range(emit) BY <3>2 DEF Range
      <4>2. Times(e, emit) = 0 BY <4>1, TimesNone
      <4> QED BY <2>4, <2>6, <3>1, <4>1, <4>2, <1>n, <1>s
    <3>3. CASE emit # <<>>
      <4>1. PICK x \in Events : emit = <<x>> BY <3>3 DEF Emission
      <4>2. Times(e, emit) = (IF x = e THEN 1 ELSE 0) BY <4>1, TimesOne
      <4>3. x \in Job BY Kinds
      <4>4. Range(emit) = {x} BY <4>1, <4>3, One
      <4>5. x \notin submitted BY <2>1, <4>4 DEF Tick
      <4>6. CASE x = e
        <5>1. e \notin submitted /\ e \in submitted' BY <4>4, <4>5, <4>6, <2>6
        <5>2. Times(e, queue') = Times(e, queue) + 1 BY <3>1, <4>2, <4>6
        <5> QED BY <2>4, <5>1, <5>2, <1>n, <1>o
      <4>7. CASE x # e
        <5>1. e \in submitted' <=> e \in submitted BY <4>4, <4>7, <2>6
        <5>2. Times(e, queue') = Times(e, queue) BY <3>1, <4>2, <4>7, <1>n
        <5> QED BY <2>4, <5>1, <5>2, <1>s
      <4> QED BY <4>6, <4>7
    <3> QED BY <3>2, <3>3
  <2> QED BY <2>1, <2>5, <2>6 DEF Tick
<1>5. CASE \E m \in Manuals : SubmitManual(m)
  <2>1. PICK m \in Manuals : SubmitManual(m) BY <1>5
  <2>2. m \in Job /\ m # e BY <1>e, Kinds DEF Once
  <2>3. queue' = queue \/ queue' = Append(queue, m) BY <2>1 DEF SubmitManual
  <2>4. Times(e, queue') = Times(e, queue)
    <3>1. Times(e, Append(queue, m)) = Times(e, queue) + 0 BY <2>2, <1>j
    <3>2. Times(e, Append(queue, m)) = Times(e, queue) BY <3>1, <1>n
    <3> QED BY <2>3, <3>2, Zenon
  <2> QED BY <2>1, <2>4, <1>s DEF SubmitManual, Serving, OnThread
<1>6. CASE Top
  <2>1. backlog \in Seq(Job) /\ e \notin Range(backlog) BY <1>e, <1>k, Kinds DEF Once
  <2>2. Times(e, backlog) = 0 BY <2>1, TimesNone
  <2>3. Times(e, queue \o backlog) = Times(e, queue) BY <2>1, <2>2, <1>k, <1>n, TimesJoined
  <2>4. queue' = queue \/ queue' = queue \o backlog BY <1>6 DEF Top
  <2>5. Times(e, queue') = Times(e, queue) BY <2>3, <2>4
  <2> QED BY <2>5, <1>6, <1>s DEF Top, Serving, OnThread
<1>7. CASE Accept
  <2>1. thread = "idle" /\ daemon = "serving" /\ queue # <<>> BY <1>7, Takes DEF Accept, Serving
  <2>2. /\ Times(e, Tail(queue)) \in Nat
        /\ Times(e, queue) = Times(e, Tail(queue)) + (IF Head(queue) = e THEN 1 ELSE 0)
    BY <2>1, <1>k, TimesTail
  <2>3. /\ OnThread(e) = 0 /\ OnThread(e)' = (IF Head(queue) = e THEN 1 ELSE 0)
        /\ queue' = Tail(queue) /\ deferred' = deferred /\ delivered' = delivered /\ submitted' = submitted
    BY <2>1, <1>7 DEF Accept, OnThread
  <2> QED BY <2>1, <2>2, <2>3, <1>o, <1>n
<1>8. CASE Reject
  <2> DEFINE h == Head(queue)
  <2>1. thread = "idle" /\ daemon = "serving" /\ queue # <<>> BY <1>8, Takes DEF Reject, Serving
  <2>2. /\ Times(e, Tail(queue)) \in Nat
        /\ Times(e, queue) = Times(e, Tail(queue)) + (IF h = e THEN 1 ELSE 0)
    BY <2>1, <1>k, TimesTail
  <2>3. /\ OnThread(e) = 0 /\ OnThread(e)' = 0 /\ queue' = Tail(queue)
        /\ deferred' = (IF h \in Events THEN Append(deferred, h) ELSE deferred)
        /\ delivered' = delivered /\ submitted' = submitted
    BY <2>1, <1>8 DEF Reject, Turned, OnThread
  <2> HIDE DEF h
  <2>4. Times(e, deferred') = Times(e, deferred) + (IF h = e THEN 1 ELSE 0)
    <3>1. CASE h \in Events BY <3>1, <2>3, <1>k, TimesAppend
    <3>2. CASE h \notin Events BY <3>2, <2>3, <1>n
    <3> QED BY <3>1, <3>2
  <2> QED BY <2>1, <2>2, <2>3, <2>4, <1>o, <1>n
<1>9. CASE ThreadBegins
  <2>1. /\ daemon = "serving" /\ queue' = queue /\ submitted' = submitted
        /\ OnThread(e) = (IF working = e THEN 1 ELSE 0) /\ OnThread(e)' = 0
    BY <1>9 DEF ThreadBegins, OnThread
  <2>2. CASE working \in Events
    <3>1. delivered' = Append(delivered, working) /\ deferred' = deferred
      BY <2>2, <1>9, Kinds DEF ThreadBegins, Once
    <3>2. Times(e, delivered') = Times(e, delivered) + (IF working = e THEN 1 ELSE 0)
      BY <2>2, <3>1, <1>k, TimesAppend
    <3> QED BY <2>1, <3>1, <3>2, <1>o, <1>n
  <2>3. CASE working = Release
    <3>1. delivered' = delivered \o deferred /\ deferred' = <<>> /\ working # e
      BY <2>3, <1>9, <1>e, Kinds DEF ThreadBegins, Once
    <3>2. Times(e, delivered') = Times(e, delivered) + Times(e, deferred)
      BY <3>1, <1>k, TimesJoined
    <3>3. Times(e, deferred') = 0
      <4>1. e \notin Range(<<>>) BY DEF Range
      <4> QED BY <3>1, <4>1, TimesNone
    <3> QED BY <2>1, <3>1, <3>2, <3>3, <1>o, <1>n
  <2>4. CASE working \notin Events \cup {Release}
    <3>1. delivered' = delivered /\ deferred' = deferred /\ working # e
      BY <2>4, <1>9 DEF ThreadBegins
    <3> QED BY <2>1, <3>1, <1>o, <1>n
  <2> QED BY <2>2, <2>3, <2>4
<1>10. CASE ThreadEnds BY <1>10, <1>s DEF ThreadEnds, OnThread
<1>11. CASE Complete BY <1>11, <1>s DEF Complete, OnThread
<1>12. CASE StopTask BY <1>12 DEF StopTask
<1>13. CASE EmptyQueue BY <1>13 DEF EmptyQueue
<1>14. CASE StopEnds BY <1>14 DEF StopEnds
<1>15. CASE StopRaises BY <1>15 DEF StopRaises
<1> QED
  BY <1>1, <1>2, <1>3, <1>4, <1>5, <1>6, <1>7, <1>8, <1>9, <1>10, <1>11, <1>12, <1>13, <1>14, <1>15
  DEF Next

-----------------------------------------------------------------------------
(* The theorems.                                                             *)

(* The worker's invariant holds at first.                                    *)
LEMMA InitSound == Init => IInv /\ EventsKept
<1> SUFFICES ASSUME Init PROVE IInv /\ EventsKept OBVIOUS
<1> USE DEF Init
<1>0. Range(<<>>) = {} /\ (\A x : Single(<<>>, x)) /\ IsInjective(<<>>)
  BY DEF Range, Single, IsInjective
<1>1. TypeOK
  <2>1. Len(Resumes) \in Nat /\ MaxFlips \in Nat BY Kinds, JobsAssumption
  <2>2. flips \in 0..MaxFlips /\ booted \in 0..Len(Resumes) /\ pending \in 0..Len(Resumes) BY <2>1
  <2> QED BY <2>2 DEF TypeOK
<1>2. LoopOK BY DEF LoopOK
<1>3. PlacesOK BY <1>0 DEF PlacesOK, OnHand
<1>4. RequestsOK BY <1>0, Kinds DEF RequestsOK, OnHand, Ended
<1>5. ResumesOK
  <2>1. Cardinality(recovered) = 0 BY FS_EmptySet
  <2> QED BY <1>0, <2>1 DEF ResumesOK, OnHand
<1>6. EventsKept
  <2>1. \A e \in Events : Times(e, <<>>) = 0 /\ OnThread(e) = 0 BY <1>0, TimesNone DEF OnThread
  <2> QED BY <2>1 DEF EventsKept
<1> QED BY <1>1, <1>2, <1>3, <1>4, <1>5, <1>6 DEF IInv

(* Steps that change nothing keep everything.                                *)
LEMMA StutterSound ==
    ASSUME UNCHANGED vars
    PROVE  (IInv => IInv') /\ (EventsKept => EventsKept')
<1> USE DEF vars, loopVars, threadVars, history
<1>1. TypeOK => TypeOK' BY DEF TypeOK
<1>2. LoopOK => LoopOK' BY DEF LoopOK
<1>3. PlacesOK => PlacesOK' BY DEF PlacesOK, OnHand
<1>4. RequestsOK => RequestsOK' BY DEF RequestsOK, OnHand
<1>5. ResumesOK => ResumesOK' BY DEF ResumesOK, OnHand, Boots
<1>6. EventsKept => EventsKept' BY DEF EventsKept, OnThread
<1> QED BY <1>1, <1>2, <1>3, <1>4, <1>5, <1>6 DEF IInv

(* Each request and each resume is in one place, requests wait while theirs  *)
(* is under way and what has run does not come back.                         *)
THEOREM WorkerSound == Spec => []IInv
<1>1. Init => IInv BY InitSound
<1>2. IInv /\ [Next]_vars => IInv'
  <2>1. IInv /\ Next => IInv' BY StepType, StepLoop, StepPlaces, StepRequests, StepResumes DEF IInv
  <2> QED BY <2>1, StutterSound
<1> QED BY <1>1, <1>2, PTL DEF Spec

(* Every variable of the worker keeps its type; in particular the resumes    *)
(* still pending are never fewer than none.                                  *)
THEOREM WorkerTypes == Spec => []TypeOK
<1>1. IInv => TypeOK BY DEF IInv
<1> QED BY <1>1, WorkerSound, PTL

(* DreamWorker resumes no journal twice, for any number of boot resumes,     *)
(* outages and submissions.                                                  *)
THEOREM ResumesRunOnce == Spec => []ResumedOnce
<1>1. IInv => ResumedOnce BY DEF IInv, ResumesOK, ResumedOnce
<1> QED BY <1>1, WorkerSound, PTL

(* submit_dream_once tells a caller what became of the dream, unless stop    *)
(* abandoned its chain.                                                      *)
THEOREM AnswersHonest == Spec => []HonestAnswers
<1>1. IInv => HonestAnswers BY DEF IInv, RequestsOK, HonestAnswers, OnHand
<1> QED BY <1>1, WorkerSound, PTL

(* No event is lost or doubled by the queue, the thread, the deferred events *)
(* and their release while the daemon serves.                                *)
THEOREM NoEventLost == Spec => []EventsKept
<1>1. Init => EventsKept BY InitSound
<1>2. IInv /\ EventsKept /\ [Next]_vars => EventsKept'
  <2>1. IInv /\ EventsKept /\ Next => EventsKept' BY StepEvents
  <2> QED BY <2>1, StutterSound
<1> QED BY <1>1, <1>2, WorkerSound, PTL DEF Spec

(* The scheduler's tick emits nothing before every boot resume is through,   *)
(* as run_forever has it; a comment and a test say otherwise (SchedulerTicks).*)
THEOREM TicksAfterRecovery == Spec => RecoveryFirst
<1>1. IInv /\ [Next]_vars => [sched' # sched => recovered = Resumed]_vars
  <2> SUFFICES ASSUME IInv, Next, sched' # sched PROVE recovered = Resumed OBVIOUS
  <2>1. \E emit \in Emission : Tick(emit)
    BY DEF Next, ProviderFlips, EnqueueResume, SubmitEvent, SubmitManual, Top, Accept, Reject,
           ThreadBegins, ThreadEnds, Complete, StopTask, EmptyQueue, StopEnds, StopRaises, loopVars
  <2>2. pending = 0 /\ booted = Len(Resumes) BY <2>1 DEF Tick, Serving, Drained
  <2>3. /\ recovered \subseteq Resumed /\ Cardinality(recovered) = Len(Resumes) /\ Len(Resumes) \in Nat
    BY <2>2, RecoveredCount DEF IInv
  <2>4. Resumed = {Resumes[k] : k \in 1..Len(Resumes)}
    <3>1. DOMAIN Resumes = 1..Len(Resumes) BY Kinds
    <3> QED BY <3>1 DEF Resumed, Range
  <2>5. IsFiniteSet(Resumed) /\ Cardinality(Resumed) <= Len(Resumes) BY <2>3, <2>4, BootsFinite
  <2>6. Cardinality(recovered) <= Cardinality(Resumed) /\ Cardinality(Resumed) \in Nat
    BY <2>3, <2>5, FS_Subset, FS_CardinalityType
  <2>7. Cardinality(recovered) = Cardinality(Resumed) BY <2>3, <2>5, <2>6
  <2> QED BY <2>3, <2>5, <2>7, FS_Subset
<1> QED BY <1>1, WorkerSound, PTL DEF Spec, RecoveryFirst
=============================================================================
