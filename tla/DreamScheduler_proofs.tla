------------------------ MODULE DreamScheduler_proofs ------------------------
(* Proofs about DreamScheduler: the retry streak the outcomes feed, for any  *)
(* number of turns, thresholds and attempts, and for outcomes grouped by the *)
(* ticks in any way.                                                         *)
EXTENDS DreamScheduler, WellFoundedInduction, FiniteSetTheorems, TLAPS

(* A streak that may go on has an attempt left, and no window reaches past   *)
(* the turns that are stored.                                                *)
Streaks ==
    {streak \in [reason: Reason, window: Window, attempts: 1..MaxAttempts,
                 next: {"never", "backoff", "due"}, givenUp: BOOLEAN] \cup {NoRetry} :
        streak.window.hi <= captured /\ (streak.givenUp \/ streak.attempts < MaxAttempts)}
Within ==
    /\ retry \in Streaks
    /\ \A i \in DOMAIN jobs : jobs[i].window.hi <= captured
    /\ \A i \in DOMAIN outcomes : outcomes[i].window.hi <= captured

(* A window waits for its re-fire, and a failure for the tick that applies   *)
(* it, only after a failure nobody re-fired yet.                             *)
RefireOwed ==
    retry.next \in {"backoff", "due"} \/ (\E i \in DOMAIN outcomes : ~outcomes[i].ok) => owed

Steady == TypeOK /\ Within /\ RefireOwed /\ StreakAwaitsSomething

-----------------------------------------------------------------------------
(* A set of numbers has a least member.                                      *)
LEMMA NatMin == ASSUME NEW T, T \subseteq Nat, T # {} PROVE \E m \in T : \A k \in T : m <= k
<1> DEFINE R == {ss \in Nat \X Nat : ss[1] < ss[2]}
<1>1. IsWellFoundedOn(R, Nat)
    BY NatLessThanWellFounded DEF OpToRel
<1>2. \A x, y \in Nat : y < x => <<y, x>> \in R
    OBVIOUS
<1> HIDE DEF R
<1>3. PICK x \in T : \A y \in T : ~ (<<y, x>> \in R)
    BY <1>1, WFMin
<1>4. \A y \in T : ~ (y < x)
    BY <1>2, <1>3
<1> QED
    BY <1>4

(* A bounded one has a greatest.                                             *)
LEMMA NatMax ==
    ASSUME NEW n \in Nat, NEW T, T \subseteq 0..n, T # {}
    PROVE \E m \in T : \A k \in T : m >= k
<1> DEFINE U == {n - k : k \in T}
<1>0. \A k \in T : k \in Nat /\ k <= n
    BY SMT
<1>a. \A k \in T : n - k \in Nat
    BY <1>0
<1>1. U \subseteq Nat /\ U # {}
    BY <1>a
<1>2. PICK u \in U : \A v \in U : u <= v
    BY <1>1, NatMin
<1>3. PICK m \in T : u = n - m
    BY <1>2
<1>4. ASSUME NEW k \in T PROVE m >= k
    <2>1. u <= n - k
        BY <1>2
    <2>2. k \in Nat /\ m \in Nat
        BY <1>0
    <2> QED
        BY <1>3, <2>1, <2>2
<1> QED
    BY <1>4

(* Induction on numbers, stated of a set.                                    *)
LEMMA NatInd ==
    ASSUME NEW S, 0 \in S, \A n \in Nat : n \in S => n+1 \in S
    PROVE Nat \subseteq S
<1> SUFFICES ASSUME Nat \ S # {} PROVE FALSE
    OBVIOUS
<1>1. PICK m \in Nat \ S : \A k \in Nat \ S : m <= k
    BY NatMin
<1>2. m # 0 /\ m - 1 \in Nat
    BY <1>1
<1>3. m - 1 \in S
    BY <1>1, <1>2
<1> QED
    BY <1>3, <1>2, <1>1

(* Sequences: their members, and what appending and removing one does.       *)
LEMMA Members ==
    ASSUME NEW R, NEW q \in Seq(R)
    PROVE /\ DOMAIN q = 1..Len(q) /\ Len(q) \in Nat
          /\ \A i \in DOMAIN q : q[i] \in R
          /\ q # <<>> => Len(q) \in DOMAIN q
OBVIOUS

-----------------------------------------------------------------------------
(* The streak that a tick computes from the reports it drains.               *)

(* One report.                                                               *)
Reported(streak, o) == IF o.ok THEN NoRetry ELSE Failed(streak, o.window)

(* The fold over the reports, one at a time from the last.                   *)
Top(s) == CHOOSE x \in s : \A y \in s : x >= y
StreakStep(iter, s) == IF s = {} THEN retry ELSE Reported(iter[s \ {Top(s)}], outcomes[Top(s)])
StreakOver(S) == CHOOSE iter : iter = [s \in SUBSET S |-> StreakStep(iter, s)]

LEMMA AppliedIsFold == Applied = StreakOver(DOMAIN outcomes)[DOMAIN outcomes]
BY DEF Applied, FoldLeft, MapThenFoldSet, Max, StreakOver, StreakStep, Reported, Top

LEMMA TopIn ==
    ASSUME NEW n \in Nat, NEW s, s \subseteq 0..n, s # {}
    PROVE Top(s) \in s /\ \A y \in s : Top(s) >= y
BY NatMax DEF Top

(* A report keeps a streak in order: within its attempts, over stored turns. *)
LEMMA ReportedStreak ==
    ASSUME TypeOK, NEW streak \in Streaks,
           NEW o \in [window: Window, ok: BOOLEAN], o.window.hi <= captured
    PROVE /\ Reported(streak, o) \in Streaks
          /\ Reported(streak, o).next # "due"
          /\ Reported(streak, o).next = "backoff" => ~o.ok
          /\ Reported(streak, o).next = "never" => Reported(streak, o) = NoRetry \/ Reported(streak, o).givenUp
<1>c. MaxAttempts \in Nat \ {0} /\ captured \in Nat
    BY SchedulerAssumption DEF TypeOK
<1>n. NoRetry \in Streaks
    BY <1>c DEF Streaks, NoRetry, NoWindow
<1>1. CASE o.ok
    BY <1>1, <1>n DEF Reported, NoRetry
<1>2. CASE ~o.ok
    <2> DEFINE attempts == (IF streak.givenUp THEN 0 ELSE streak.attempts) + 1
               reason == IF streak = NoRetry THEN last.reason ELSE streak.reason
               over == attempts >= MaxAttempts
               next == IF over THEN "never" ELSE "backoff"
               f == [reason |-> reason, window |-> o.window, attempts |-> attempts, next |-> next, givenUp |-> over]
    <2>1. CASE streak = NoRetry /\ last = NoPrint
        BY <1>2, <1>n, <2>1 DEF Reported, Failed, NoRetry
    <2>2. CASE ~(streak = NoRetry /\ last = NoPrint)
        <3>1. Reported(streak, o) = f
            BY <1>2, <2>2 DEF Reported, Failed
        <3>2. attempts \in 1..MaxAttempts
            BY <1>c DEF Streaks, NoRetry
        <3>3. reason \in Reason
            BY <2>2 DEF TypeOK, Streaks
        <3>4. f \in Streaks
            <4>1. over \in BOOLEAN /\ next \in {"never", "backoff", "due"} /\ (over \/ attempts < MaxAttempts)
                BY <1>c, <3>2
            <4> HIDE DEF attempts, reason, over, next
            <4> QED
                BY <3>2, <3>3, <4>1 DEF Streaks
        <3>5. f.next = next /\ f.givenUp = over
            OBVIOUS
        <3>6. next # "due" /\ (next = "never" => over)
            OBVIOUS
        <3> HIDE DEF f, next, over
        <3> QED
            BY <1>2, <3>1, <3>4, <3>5, <3>6
    <2> QED
        BY <2>1, <2>2
<1> QED
    BY <1>1, <1>2

(* The recursion over the reports has a solution: one for at most n reports  *)
(* extends to those of n + 1.                                                *)
LEMMA StreaksExist ==
    ASSUME TypeOK, Within, NEW S, S = DOMAIN outcomes
    PROVE /\ StreakOver(S) = [s \in SUBSET S |-> StreakStep(StreakOver(S), s)]
          /\ \A s \in SUBSET S : StreakOver(S)[s] \in Streaks
<1> DEFINE Small(n) == {s \in SUBSET S : Cardinality(s) <= n}
           Good(g, n) == g \in [Small(n) -> Streaks] /\ \A s \in Small(n) : g[s] = StreakStep(g, s)
           Sizes == {n \in Nat : \E g : Good(g, n)}
<1>t. outcomes \in Seq([window: Window, ok: BOOLEAN])
    BY DEF TypeOK
<1>f. S = 1..Len(outcomes) /\ Len(outcomes) \in Nat /\ IsFiniteSet(S)
    BY <1>t, Members, FS_Interval
<1>o. \A x \in S : outcomes[x] \in [window: Window, ok: BOOLEAN] /\ outcomes[x].window.hi <= captured
    BY <1>t, Members DEF Within
<1>1. \A s \in SUBSET S : IsFiniteSet(s) /\ Cardinality(s) \in Nat
    BY <1>f, FS_Subset, FS_CardinalityType
<1>2. 0 \in Sizes
    <2> DEFINE g == [s \in Small(0) |-> retry]
    <2>1. \A s \in Small(0) : s = {}
        BY <1>1, FS_EmptySet
    <2>2. Good(g, 0)
        BY <2>1 DEF StreakStep, Within
    <2> QED
        BY <2>2
<1>3. ASSUME NEW n \in Nat, n \in Sizes PROVE n+1 \in Sizes
    <2>1. PICK g : Good(g, n)
        BY <1>3
    <2> DEFINE h == [s \in Small(n+1) |-> StreakStep(g, s)]
    <2>2. ASSUME NEW s \in Small(n+1), s # {} PROVE s \ {Top(s)} \in Small(n) /\ Top(s) \in S
        <3>1. Top(s) \in s
            BY <1>f, <2>2, TopIn
        <3>2. Cardinality(s \ {Top(s)}) = Cardinality(s) - 1
            BY <3>1, <1>1, FS_RemoveElement
        <3> QED
            BY <3>1, <3>2, <1>1
    <2>3. Small(n) \subseteq Small(n+1)
        BY <1>1
    <2>4. h \in [Small(n+1) -> Streaks]
        <3> SUFFICES ASSUME NEW s \in Small(n+1) PROVE StreakStep(g, s) \in Streaks
            OBVIOUS
        <3>1. CASE s = {}
            BY <3>1 DEF StreakStep, Within
        <3>2. CASE s # {}
            <4>1. g[s \ {Top(s)}] \in Streaks
                BY <2>1, <2>2, <3>2
            <4> QED
                BY <1>o, <2>2, <3>2, <4>1, ReportedStreak DEF StreakStep
        <3> QED
            BY <3>1, <3>2
    <2>5. \A s \in Small(n) : h[s] = g[s]
        BY <2>1, <2>3
    <2>6. \A s \in Small(n+1) : h[s] = StreakStep(h, s)
        <3> SUFFICES ASSUME NEW s \in Small(n+1) PROVE StreakStep(g, s) = StreakStep(h, s)
            OBVIOUS
        <3> HIDE DEF h, Small
        <3>1. CASE s = {}
            BY <3>1 DEF StreakStep
        <3>2. CASE s # {}
            BY <3>2, <2>2, <2>5 DEF StreakStep
        <3> QED
            BY <3>1, <3>2
    <2> HIDE DEF h
    <2>7. Good(h, n+1)
        BY <2>4, <2>6
    <2> HIDE DEF Good
    <2>8. \E k : Good(k, n+1)
        BY <2>7
    <2> QED
        BY <2>8
<1> HIDE DEF Good
<1>4. Cardinality(S) \in Sizes
    <2>1. Nat \subseteq Sizes
        <3> HIDE DEF Sizes
        <3> QED BY <1>2, <1>3, NatInd
    <2> QED
        BY <2>1, <1>1
<1>5. PICK g : Good(g, Cardinality(S))
    BY <1>4
<1>6. Small(Cardinality(S)) = SUBSET S
    BY <1>f, FS_Subset, <1>1
<1>7. g = [s \in SUBSET S |-> StreakStep(g, s)]
    BY <1>5, <1>6 DEF Good
<1>8. StreakOver(S) = [s \in SUBSET S |-> StreakStep(StreakOver(S), s)]
    BY <1>7 DEF StreakOver
<1> DEFINE it == StreakOver(S)
<1> HIDE DEF it
<1>9. ASSUME NEW n \in Nat PROVE \A s \in Small(n) : it[s] \in Streaks
    <2> DEFINE In == {m \in Nat : \A s \in Small(m) : it[s] \in Streaks}
    <2>i. \A s \in SUBSET S : it[s] = StreakStep(it, s)
        BY <1>8 DEF it
    <2>1. 0 \in In
        <3>1. \A s \in Small(0) : s = {}
            BY <1>1, FS_EmptySet
        <3> QED
            BY <2>i, <3>1 DEF StreakStep, Within
    <2>2. ASSUME NEW m \in Nat, m \in In PROVE m+1 \in In
        <3> SUFFICES ASSUME NEW s \in Small(m+1) PROVE it[s] \in Streaks
            OBVIOUS
        <3>1. CASE s = {}
            BY <2>i, <3>1 DEF StreakStep, Within
        <3>2. CASE s # {}
            <4>1. Top(s) \in s
                BY <1>f, <3>2, TopIn
            <4>2. Cardinality(s \ {Top(s)}) = Cardinality(s) - 1
                BY <4>1, <1>1, FS_RemoveElement
            <4>3. s \ {Top(s)} \in Small(m)
                BY <4>1, <4>2, <1>1
            <4>4. it[s \ {Top(s)}] \in Streaks
                BY <2>2, <4>3
            <4>5. it[s] = Reported(it[s \ {Top(s)}], outcomes[Top(s)])
                <5>1. s \in SUBSET S
                    BY DEF Small
                <5>2. it[s] = StreakStep(it, s)
                    BY <2>i, <5>1
                <5> QED
                    BY <3>2, <5>2 DEF StreakStep
            <4>6. Top(s) \in S
                BY <4>1
            <4>7. Reported(it[s \ {Top(s)}], outcomes[Top(s)]) \in Streaks
                BY <1>o, <4>4, <4>6, ReportedStreak
            <4> QED
                BY <4>5, <4>7
        <3> QED
            BY <3>1, <3>2
    <2> HIDE DEF In
    <2>3. n \in In
        BY <2>1, <2>2, NatInd
    <2> QED
        BY <2>3 DEF In
<1>10. \A s \in SUBSET S : it[s] \in Streaks
    BY <1>1, <1>6, <1>9
<1> QED
    BY <1>8, <1>10 DEF it

(* What a tick makes of the reports: the streak of before if there are none, *)
(* else what the last of them makes of some streak.                          *)
LEMMA AppliedIs ==
    ASSUME TypeOK, Within
    PROVE /\ Applied \in Streaks
          /\ outcomes = <<>> => Applied = retry
          /\ outcomes # <<>> =>
                 /\ Applied.next # "due"
                 /\ Applied.next = "backoff" => \E i \in DOMAIN outcomes : ~outcomes[i].ok
                 /\ Applied.next = "never" => Applied = NoRetry \/ Applied.givenUp
<1> DEFINE S == DOMAIN outcomes
           it == StreakOver(S)
<1>1. /\ it = [s \in SUBSET S |-> StreakStep(it, s)]
      /\ \A s \in SUBSET S : it[s] \in Streaks
    BY StreaksExist
<1>t. outcomes \in Seq([window: Window, ok: BOOLEAN])
    BY DEF TypeOK
<1>2. S = 1..Len(outcomes) /\ Len(outcomes) \in Nat /\ S \subseteq 0..Len(outcomes)
    BY <1>t, Members
<1>3. Applied = it[S]
    BY AppliedIsFold
<1> HIDE DEF it
<1>4. Applied \in Streaks /\ Applied = StreakStep(it, S)
    BY <1>1, <1>3
<1>5. CASE outcomes = <<>>
    <2>1. S = {}
        BY <1>5
    <2> QED
        BY <1>4, <1>5, <2>1 DEF StreakStep
<1>6. CASE outcomes # <<>>
    <2>1. S # {}
        BY <1>6, <1>t, Members
    <2>2. Top(S) \in S
        BY <1>2, <2>1, TopIn
    <2> DEFINE o == outcomes[Top(S)]
               streak == it[S \ {Top(S)}]
    <2>3. Applied = Reported(streak, o)
        BY <1>4, <2>1 DEF StreakStep
    <2>4. streak \in Streaks /\ o \in [window: Window, ok: BOOLEAN] /\ o.window.hi <= captured
        BY <1>1, <1>t, <2>2, Members DEF Within
    <2> HIDE DEF streak, o
    <2>5. Applied.next # "due" /\ (Applied.next = "backoff" => ~o.ok)
          /\ (Applied.next = "never" => Applied = NoRetry \/ Applied.givenUp)
        BY <2>3, <2>4, ReportedStreak
    <2> QED
        BY <1>4, <1>6, <2>2, <2>5 DEF o
<1> QED
    BY <1>5, <1>6

-----------------------------------------------------------------------------
(* Steps.                                                                    *)

Job == [window: Window, by: {"rule", "retry", "pool"}]
Report == [window: Window, ok: BOOLEAN]

(* Members of a queue that grew, or lost its head.                           *)
LEMMA Grown ==
    ASSUME NEW R, NEW q \in Seq(R), NEW e \in R
    PROVE /\ Append(q, e) \in Seq(R)
          /\ \A i \in DOMAIN q : i \in DOMAIN Append(q, e) /\ Append(q, e)[i] = q[i]
          /\ \A i \in DOMAIN Append(q, e) : (i \in DOMAIN q /\ Append(q, e)[i] = q[i]) \/ Append(q, e)[i] = e
          /\ Append(q, e) # <<>>
OBVIOUS

LEMMA Joined ==
    ASSUME NEW R, NEW q \in Seq(R), NEW a \in Seq(R)
    PROVE /\ q \o a \in Seq(R)
          /\ \A i \in DOMAIN q : i \in DOMAIN (q \o a) /\ (q \o a)[i] = q[i]
          /\ \A i \in DOMAIN a : Len(q) + i \in DOMAIN (q \o a) /\ (q \o a)[Len(q) + i] = a[i]
          /\ \A i \in DOMAIN (q \o a) :
                 \/ i \in DOMAIN q /\ (q \o a)[i] = q[i]
                 \/ i - Len(q) \in DOMAIN a /\ (q \o a)[i] = a[i - Len(q)]
OBVIOUS

LEMMA Shifted ==
    ASSUME NEW R, NEW q \in Seq(R), q # <<>>
    PROVE /\ Tail(q) \in Seq(R) /\ Head(q) \in R /\ 1 \in DOMAIN q /\ Head(q) = q[1]
          /\ \A i \in DOMAIN Tail(q) : i + 1 \in DOMAIN q /\ Tail(q)[i] = q[i+1]
OBVIOUS

(* The window a tick may emit: of pending turns, none past the stored ones.  *)
LEMMA PendingIs ==
    ASSUME TypeOK, NEW verdict \in Verdicts, Fresh(verdict)
    PROVE PendingWindow \in Window /\ PendingWindow.hi <= captured /\ verdict \in Reason
<1>c. captured \in Nat /\ captured <= MaxTurn /\ MaxTurn \in Nat
    BY SchedulerAssumption DEF TypeOK
<1>1. Pending # {} /\ verdict \in Reason
    BY DEF Verdicts, Fresh, Reason
<1>2. \A t \in Pending : t \in Nat /\ 1 <= t /\ t <= captured
    BY <1>c DEF Pending
<1>3. Pending \subseteq Nat /\ Pending \subseteq 0..captured
    BY <1>2, <1>c
<1>4. \E t \in Pending : \A u \in Pending : t <= u
    BY <1>1, <1>3, NatMin
<1>5. \E t \in Pending : \A u \in Pending : t >= u
    BY <1>1, <1>3, <1>c, NatMax
<1>6. PendingWindow.lo \in Pending /\ PendingWindow.hi \in Pending
    BY <1>4, <1>5 DEF PendingWindow
<1>7. PendingWindow.lo \in Turns /\ PendingWindow.hi \in Turns /\ PendingWindow.hi <= captured
    BY <1>c, <1>2, <1>6 DEF Turns
<1>8. PendingWindow = [lo |-> PendingWindow.lo, hi |-> PendingWindow.hi]
    BY DEF PendingWindow
<1> QED
    BY <1>1, <1>7, <1>8 DEF Window

(* What a tick hands to the worker: a window the rule emits, then the one    *)
(* whose backoff elapsed.                                                    *)
LEMMA EmissionIs ==
    ASSUME TypeOK, NEW verdict \in Verdicts
    PROVE /\ Emission(verdict) \in Seq(Job)
          /\ \A i \in DOMAIN Emission(verdict) :
                 Emission(verdict)[i].by = "rule" /\ Emission(verdict)[i].window.hi <= captured
<1>1. CASE Fresh(verdict)
    <2> DEFINE e == [window |-> PendingWindow, by |-> "rule"]
    <2>1. e \in Job /\ e.by = "rule" /\ e.window.hi <= captured
        BY <1>1, PendingIs DEF Job
    <2>2. Emission(verdict) = <<e>>
        BY <1>1 DEF Emission
    <2> HIDE DEF e
    <2> QED
        BY <2>1, <2>2
<1>2. CASE ~Fresh(verdict)
    BY <1>2 DEF Emission
<1> QED
    BY <1>1, <1>2

LEMMA RefireIs ==
    ASSUME TypeOK, NEW streak \in Streaks
    PROVE /\ Refire(streak) \in Seq(Job)
          /\ \A i \in DOMAIN Refire(streak) :
                 Refire(streak)[i].by = "retry" /\ Refire(streak)[i].window.hi <= captured
          /\ streak.next # "due" => Refire(streak) = <<>>
          /\ streak.next = "due" => 1 \in DOMAIN Refire(streak)
          /\ Waiting(streak) \in Streaks
          /\ Waiting(streak).next \in {"backoff", "due"} => Waiting(streak) = streak /\ streak.next = "backoff"
<1>1. CASE streak.next = "due"
    <2> DEFINE e == [window |-> streak.window, by |-> "retry"]
    <2>1. streak \in [reason: Reason, window: Window, attempts: 1..MaxAttempts,
                      next: {"never", "backoff", "due"}, givenUp: BOOLEAN]
        BY <1>1 DEF Streaks, NoRetry
    <2>2. e \in Job /\ e.by = "retry" /\ e.window.hi <= captured
        BY <2>1 DEF Job, Streaks
    <2>3. Refire(streak) = <<e>>
        BY <1>1 DEF Refire
    <2>4. Waiting(streak) = [streak EXCEPT !.next = "never"]
        BY <1>1 DEF Waiting
    <2>5. Waiting(streak) \in Streaks /\ Waiting(streak).next = "never"
        BY <2>1, <2>4 DEF Streaks
    <2> HIDE DEF e
    <2> QED
        BY <1>1, <2>2, <2>3, <2>5
<1>2. CASE streak.next # "due"
    <2>1. Refire(streak) = <<>> /\ Waiting(streak) = streak
        BY <1>2 DEF Refire, Waiting
    <2>2. DOMAIN Refire(streak) = {} /\ Refire(streak) \in Seq(Job)
        BY <2>1
    <2>3. streak.next \in {"never", "backoff", "due"}
        BY DEF Streaks, NoRetry
    <2> QED
        BY <1>2, <2>1, <2>2, <2>3
<1> QED
    BY <1>1, <1>2

(* A streak whose backoff has elapsed is due, any other is left alone.       *)
LEMMA DueIs ==
    ASSUME NEW streak \in Streaks, NEW elapsed \in BOOLEAN
    PROVE /\ Due(streak, elapsed) \in Streaks
          /\ Due(streak, elapsed).next = "due" => streak.next \in {"backoff", "due"}
          /\ Due(streak, elapsed).next # "due" => Due(streak, elapsed) = streak
<1>1. CASE elapsed /\ streak.next = "backoff"
    <2>1. streak \in [reason: Reason, window: Window, attempts: 1..MaxAttempts,
                      next: {"never", "backoff", "due"}, givenUp: BOOLEAN]
        BY <1>1 DEF Streaks, NoRetry
    <2>2. Due(streak, elapsed) = [streak EXCEPT !.next = "due"]
        BY <1>1 DEF Due
    <2> QED
        BY <1>1, <2>1, <2>2 DEF Streaks
<1>2. CASE ~(elapsed /\ streak.next = "backoff")
    <2>1. Due(streak, elapsed) = streak
        BY <1>2 DEF Due
    <2>2. streak.next \in {"never", "backoff", "due"}
        BY DEF Streaks, NoRetry
    <2> QED
        BY <2>1, <2>2
<1> QED
    BY <1>1, <1>2

(* The queue after a tick.                                                   *)
LEMMA TickJobs ==
    ASSUME TypeOK, Within, NEW verdict \in Verdicts, NEW streak \in Streaks,
           jobs' = jobs \o Emission(verdict) \o Refire(streak)
    PROVE /\ jobs' \in Seq(Job)
          /\ \A i \in DOMAIN jobs : i \in DOMAIN jobs' /\ jobs'[i] = jobs[i]
          /\ \A i \in DOMAIN jobs' : jobs'[i].window.hi <= captured
          /\ streak.next # "due" =>
                 \A i \in DOMAIN jobs' : jobs'[i].by = "retry" => i \in DOMAIN jobs
          /\ streak.next = "due" => \E i \in DOMAIN jobs' : jobs'[i].by = "retry"
<1> DEFINE a == Emission(verdict)
           b == Refire(streak)
           m == jobs \o a
<1>1. jobs \in Seq(Job) 
    BY DEF TypeOK, Job
<1>2. a \in Seq(Job) /\ \A i \in DOMAIN a : a[i].by = "rule" /\ a[i].window.hi <= captured
    BY EmissionIs
<1>3. /\ b \in Seq(Job) /\ \A i \in DOMAIN b : b[i].by = "retry" /\ b[i].window.hi <= captured
      /\ streak.next # "due" => b = <<>>
      /\ streak.next = "due" => 1 \in DOMAIN b
    BY <1>1, RefireIs
<1>4. jobs' = m \o b
    OBVIOUS
<1>w. \A i \in DOMAIN jobs : jobs[i].window.hi <= captured
    BY DEF Within
<1> HIDE DEF a, b
<1>5. /\ m \in Seq(Job) /\ \A i \in DOMAIN jobs : i \in DOMAIN m /\ m[i] = jobs[i]
      /\ \A i \in DOMAIN m : \/ i \in DOMAIN jobs /\ m[i] = jobs[i]
                             \/ m[i].by = "rule" /\ m[i].window.hi <= captured
    BY <1>1, <1>2, Joined
<1> HIDE DEF m
<1>6. /\ m \o b \in Seq(Job)
      /\ \A i \in DOMAIN m : i \in DOMAIN (m \o b) /\ (m \o b)[i] = m[i]
      /\ \A i \in DOMAIN b : Len(m) + i \in DOMAIN (m \o b) /\ (m \o b)[Len(m) + i] = b[i]
      /\ \A i \in DOMAIN (m \o b) : \/ i \in DOMAIN m /\ (m \o b)[i] = m[i]
                                    \/ i - Len(m) \in DOMAIN b /\ (m \o b)[i] = b[i - Len(m)]
    BY <1>3, <1>5, Joined
<1>7. \A i \in DOMAIN jobs : i \in DOMAIN jobs' /\ jobs'[i] = jobs[i]
    BY <1>4, <1>5, <1>6
<1>8. \A i \in DOMAIN jobs' : jobs'[i].window.hi <= captured
    BY <1>3, <1>4, <1>5, <1>6, <1>w
<1>9. ASSUME streak.next # "due", NEW i \in DOMAIN jobs', jobs'[i].by = "retry" PROVE i \in DOMAIN jobs
    <2>1. b = <<>>
        BY <1>3, <1>9
    <2>2. DOMAIN b = {}
        BY <2>1
    <2>3. i \in DOMAIN m /\ m[i].by = "retry"
        BY <1>4, <1>6, <1>9, <2>2
    <2> QED
        BY <1>5, <2>3
<1>10. ASSUME streak.next = "due" PROVE \E i \in DOMAIN jobs' : jobs'[i].by = "retry"
    <2>1. Len(m) + 1 \in DOMAIN jobs' /\ jobs'[Len(m) + 1] = b[1] /\ 1 \in DOMAIN b
        BY <1>3, <1>4, <1>6, <1>10
    <2> QED
        BY <1>3, <2>1
<1> QED
    BY <1>4, <1>6, <1>7, <1>8, <1>9, <1>10

(* A tick keeps everything in order.                                         *)
LEMMA TickStep == ASSUME Steady, Tick PROVE Steady'
<1>s. TypeOK /\ Within /\ RefireOwed /\ StreakAwaitsSomething
    BY DEF Steady
<1>a. /\ Applied \in Streaks
      /\ outcomes = <<>> => Applied = retry
      /\ outcomes # <<>> =>
             /\ Applied.next # "due"
             /\ Applied.next = "backoff" => \E i \in DOMAIN outcomes : ~outcomes[i].ok
             /\ Applied.next = "never" => Applied = NoRetry \/ Applied.givenUp
    BY <1>s, AppliedIs
<1>0. PICK verdict \in Verdicts, elapsed \in BOOLEAN :
        /\ last' = IF Fresh(verdict) THEN [reason |-> verdict, window |-> PendingWindow] ELSE last
        /\ gauge' = IF Fresh(verdict) THEN 0 ELSE gauge
        /\ emitted' = IF Fresh(verdict) THEN emitted \cup {PendingWindow} ELSE emitted
        /\ jobs' = jobs \o Emission(verdict) \o Refire(Due(Applied, elapsed))
        /\ retry' = Waiting(Due(Applied, elapsed))
        /\ owed' = (owed /\ Refire(Due(Applied, elapsed)) = <<>>)
        /\ outcomes' = <<>>
        /\ UNCHANGED <<captured, consolidated, old, mute>>
    BY DEF Tick
<1> DEFINE streak == Due(Applied, elapsed)
<1>3. /\ streak \in Streaks
      /\ streak.next = "due" => Applied.next \in {"backoff", "due"}
      /\ streak.next # "due" => streak = Applied
    BY <1>a, DueIs
<1> HIDE DEF streak
<1>1. /\ last' = IF Fresh(verdict) THEN [reason |-> verdict, window |-> PendingWindow] ELSE last
      /\ gauge' = IF Fresh(verdict) THEN 0 ELSE gauge
      /\ emitted' = IF Fresh(verdict) THEN emitted \cup {PendingWindow} ELSE emitted
      /\ jobs' = jobs \o Emission(verdict) \o Refire(streak)
      /\ retry' = Waiting(streak)
      /\ owed' = (owed /\ Refire(streak) = <<>>)
      /\ outcomes' = <<>>
      /\ UNCHANGED <<captured, consolidated, old, mute>>
    BY <1>0 DEF streak
<1>2. /\ jobs' \in Seq(Job)
      /\ \A i \in DOMAIN jobs : i \in DOMAIN jobs' /\ jobs'[i] = jobs[i]
      /\ \A i \in DOMAIN jobs' : jobs'[i].window.hi <= captured
      /\ streak.next = "due" => \E i \in DOMAIN jobs' : jobs'[i].by = "retry"
    BY <1>1, <1>3, <1>s, TickJobs
<1>4. /\ retry' \in Streaks
      /\ retry'.next \in {"backoff", "due"} => retry' = streak /\ streak.next = "backoff"
      /\ streak.next # "due" => Refire(streak) = <<>>
    BY <1>1, <1>3, <1>s, RefireIs
<1>5. TypeOK'
    <2>1. last' \in [reason: Reason, window: Window] \cup {NoPrint} /\ emitted' \subseteq Window
          /\ gauge' \in 0..captured
        BY <1>1, <1>s, PendingIs DEF TypeOK
    <2>2. retry' \in [reason: Reason, window: Window, attempts: 1..MaxAttempts,
                      next: {"never", "backoff", "due"}, givenUp: BOOLEAN] \cup {NoRetry}
        BY <1>4 DEF Streaks
    <2>3. outcomes' \in Seq([window: Window, ok: BOOLEAN]) /\ owed' \in BOOLEAN
        BY <1>1
    <2> QED
        BY <1>1, <1>2, <1>s, <2>1, <2>2, <2>3 DEF TypeOK, Job
<1>6. Within'
    <2>1. retry' \in Streaks'
        BY <1>1, <1>4 DEF Streaks
    <2>2. DOMAIN outcomes' = {}
        BY <1>1
    <2> QED
        BY <1>1, <1>2, <2>1, <2>2 DEF Within
<1>7. RefireOwed'
    <2>0. DOMAIN outcomes' = {}
        BY <1>1
    <2> SUFFICES ASSUME retry'.next \in {"backoff", "due"} PROVE owed'
        BY <2>0 DEF RefireOwed
    <2>1. Applied.next = "backoff" /\ Refire(streak) = <<>>
        BY <1>3, <1>4
    <2>2. owed
        BY <1>a, <1>s, <2>1 DEF RefireOwed
    <2> QED
        BY <1>1, <2>1, <2>2
<1>8. StreakAwaitsSomething'
    <2> SUFFICES ASSUME retry' # NoRetry, ~retry'.givenUp, retry'.next = "never"
                 PROVE (\E i \in DOMAIN jobs' : jobs'[i].by = "retry") \/ mute'
        BY DEF StreakAwaitsSomething, Queued
    <2>1. CASE streak.next = "due"
        BY <1>2, <2>1
    <2>2. CASE streak.next # "due"
        <3>1. retry' = Applied
            BY <1>1, <1>3, <2>2 DEF Waiting
        <3>2. outcomes = <<>> /\ Applied = retry
            BY <1>a, <3>1
        <3>3. Queued("retry") # {} \/ mute
            BY <1>s, <3>1, <3>2 DEF StreakAwaitsSomething
        <3> QED
            BY <1>1, <1>2, <3>3 DEF Queued
    <2> QED
        BY <2>1, <2>2
<1> QED
    BY <1>5, <1>6, <1>7, <1>8 DEF Steady

(* The profile's steps and the dream thread's.                               *)
LEMMA SteadyStep == ASSUME Steady, [Next]_vars PROVE Steady'
<1>s. TypeOK /\ Within /\ RefireOwed /\ StreakAwaitsSomething
    BY DEF Steady
<1>c. /\ MaxTurn \in Nat /\ captured \in Nat /\ captured <= MaxTurn /\ gauge \in Nat /\ gauge <= captured
      /\ Floor \in Nat \ {0}
    BY <1>s, SchedulerAssumption DEF TypeOK
<1>q. jobs \in Seq(Job) /\ outcomes \in Seq(Report)
    BY <1>s DEF TypeOK, Job, Report
<1>1. ASSUME Capture \/ TimePasses PROVE Steady'
    <2>1. TypeOK'
        <3>1. CASE Capture
            <4>1. captured' \in 0..MaxTurn /\ gauge' \in 0..captured' /\ old' \in 0..captured'
                  /\ consolidated' \subseteq 1..captured'
                BY <1>c, <1>s, <3>1 DEF Capture, TypeOK
            <4> QED
                BY <1>s, <3>1, <4>1 DEF Capture, TypeOK, history
        <3>2. CASE TimePasses
            BY <1>c, <1>s, <3>2 DEF TimePasses, TypeOK, history
        <3> QED
            BY <1>1, <3>1, <3>2
    <2>2. captured <= captured' /\ captured' \in Nat /\ UNCHANGED <<retry, outcomes, jobs, owed, mute>>
        BY <1>1, <1>c DEF Capture, TimePasses, history
    <2>3. Within'
        <3>1. retry' \in Streaks'
            <4>1. retry.window.hi \in Nat
                BY <1>s DEF TypeOK, Window, Turns, NoRetry, NoWindow
            <4> QED
                BY <1>c, <1>s, <2>2, <4>1 DEF Within, Streaks
        <3>2. ASSUME NEW i \in DOMAIN jobs PROVE jobs[i].window.hi <= captured'
            <4>r. jobs[i] \in Job
                BY <1>q, <3>2, Members
            <4>1. jobs[i].window.hi \in Nat
                BY <4>r DEF Job, Window, Turns
            <4> QED
                BY <1>c, <1>s, <2>2, <4>1 DEF Within
        <3>3. ASSUME NEW i \in DOMAIN outcomes PROVE outcomes[i].window.hi <= captured'
            <4>r. outcomes[i] \in Report
                BY <1>q, <3>3, Members
            <4>1. outcomes[i].window.hi \in Nat
                BY <4>r DEF Report, Window, Turns
            <4> QED
                BY <1>c, <1>s, <2>2, <4>1 DEF Within
        <3> QED
            BY <2>2, <3>1, <3>2, <3>3 DEF Within
    <2> QED
        BY <1>s, <2>1, <2>2, <2>3 DEF Steady, RefireOwed, StreakAwaitsSomething, Queued
<1>2. ASSUME PoolEvent PROVE Steady'
    <2> DEFINE w == [lo |-> captured - gauge + 1, hi |-> captured]
               e == [window |-> w, by |-> "pool"]
    <2>1. captured - gauge + 1 \in Turns /\ captured \in Turns
        BY <1>2, <1>c DEF PoolEvent, Turns
    <2>2. e \in Job /\ e.window.hi = captured
        BY <2>1 DEF Job, Window
    <2>3. jobs' = Append(jobs, e) /\ gauge' = 0
          /\ UNCHANGED <<captured, consolidated, old, last, retry, outcomes, emitted, owed, mute>>
        BY <1>2 DEF PoolEvent, history
    <2> HIDE DEF e
    <2>4. /\ jobs' \in Seq(Job)
          /\ \A i \in DOMAIN jobs : i \in DOMAIN jobs' /\ jobs'[i] = jobs[i]
          /\ \A i \in DOMAIN jobs' : (i \in DOMAIN jobs /\ jobs'[i] = jobs[i]) \/ jobs'[i] = e
        BY <1>q, <2>2, <2>3, Grown
    <2>5. TypeOK'
        BY <1>c, <1>s, <2>3, <2>4 DEF TypeOK, Job
    <2>6. Within'
        BY <1>c, <1>s, <2>2, <2>3, <2>4 DEF Within, Streaks
    <2>7. RefireOwed' /\ StreakAwaitsSomething'
        BY <1>s, <2>3, <2>4 DEF RefireOwed, StreakAwaitsSomething, Queued
    <2> QED
        BY <2>5, <2>6, <2>7 DEF Steady
<1>3. ASSUME BackoffElapses PROVE Steady'
    <2>1. retry \in [reason: Reason, window: Window, attempts: 1..MaxAttempts,
                     next: {"never", "backoff", "due"}, givenUp: BOOLEAN] /\ retry.next = "backoff"
        BY <1>3, <1>s DEF BackoffElapses, TypeOK, NoRetry
    <2>2. retry' = [retry EXCEPT !.next = "due"]
          /\ UNCHANGED <<captured, consolidated, gauge, old, last, outcomes, jobs, emitted, owed, mute>>
        BY <1>3 DEF BackoffElapses, Due, store, history
    <2>3. TypeOK'
        BY <1>s, <2>1, <2>2 DEF TypeOK
    <2>4. retry' \in Streaks /\ retry'.next = "due" /\ owed
        BY <1>s, <2>1, <2>2 DEF Within, Streaks, RefireOwed
    <2> QED
        BY <1>s, <2>2, <2>3, <2>4 DEF Steady, Within, Streaks, RefireOwed, StreakAwaitsSomething
<1>4. ASSUME Commits \/ DreamFails PROVE Steady'
    <2>1. PICK ok \in BOOLEAN :
              /\ outcomes' = Append(outcomes, [window |-> Head(jobs).window, ok |-> ok])
              /\ (ok /\ owed' = owed) \/ owed' = TRUE
        BY <1>4 DEF Commits, DreamFails, history
    <2> DEFINE o == [window |-> Head(jobs).window, ok |-> ok]
    <2>2. jobs # <<>> /\ jobs' = Tail(jobs)
          /\ UNCHANGED <<captured, gauge, old, last, retry, emitted, mute>>
          /\ owed' \in BOOLEAN /\ ((ok /\ owed' = owed) \/ owed' = TRUE)
        BY <1>4, <1>s, <2>1 DEF Commits, DreamFails, store, history, TypeOK
    <2>3. Head(jobs) \in Job /\ Head(jobs).window.hi <= captured /\ jobs' \in Seq(Job)
          /\ \A i \in DOMAIN jobs' : i + 1 \in DOMAIN jobs /\ jobs'[i] = jobs[i+1]
        BY <1>q, <1>s, <2>2, Shifted DEF Within
    <2>4. o \in Report /\ o.window.hi <= captured
        BY <2>3 DEF Report, Job
    <2>5. consolidated' \subseteq 1..captured
        <3>1. consolidated' = consolidated \/ consolidated' = consolidated \cup (Head(jobs).window.lo..Head(jobs).window.hi)
            BY <1>4 DEF Commits, DreamFails, store
        <3>2. Head(jobs).window.lo \in Nat \ {0} /\ Head(jobs).window.hi \in Nat
            BY <2>3 DEF Job, Window, Turns
        <3>3. (Head(jobs).window.lo..Head(jobs).window.hi) \subseteq 1..captured
            BY <1>c, <2>3, <3>2
        <3> QED
            BY <1>s, <3>1, <3>3 DEF TypeOK
    <2> HIDE DEF o
    <2>6. /\ outcomes' \in Seq(Report) /\ outcomes' # <<>>
          /\ \A i \in DOMAIN outcomes' : (i \in DOMAIN outcomes /\ outcomes'[i] = outcomes[i]) \/ outcomes'[i] = o
        BY <1>q, <2>1, <2>4, Grown DEF o
    <2>7. TypeOK'
        BY <1>s, <2>2, <2>3, <2>5, <2>6 DEF TypeOK, Job, Report
    <2>8. Within'
        BY <1>s, <2>2, <2>3, <2>4, <2>6 DEF Within, Streaks
    <2>9. RefireOwed' /\ StreakAwaitsSomething'
        BY <1>s, <2>2, <2>6 DEF RefireOwed, StreakAwaitsSomething, o
    <2> QED
        BY <2>7, <2>8, <2>9 DEF Steady
<1>5. ASSUME CaptureFails PROVE Steady'
    <2>2. jobs # <<>> /\ jobs' = Tail(jobs) /\ mute'
          /\ UNCHANGED <<captured, consolidated, gauge, old, last, retry, outcomes, emitted, owed>>
        BY <1>5 DEF CaptureFails, store
    <2>3. jobs' \in Seq(Job)
          /\ \A i \in DOMAIN jobs' : i + 1 \in DOMAIN jobs /\ jobs'[i] = jobs[i+1]
        BY <1>q, <2>2, Shifted
    <2>4. TypeOK'
        BY <1>5, <1>s, <2>2, <2>3 DEF CaptureFails, TypeOK, Job
    <2>5. Within'
        BY <1>s, <2>2, <2>3 DEF Within, Streaks
    <2> QED
        BY <1>s, <2>2, <2>4, <2>5 DEF Steady, RefireOwed, StreakAwaitsSomething
<1>6. CASE UNCHANGED vars
    BY <1>6, <1>s DEF Steady, TypeOK, Within, Streaks, RefireOwed, StreakAwaitsSomething, Queued,
       vars, store, history
<1> QED
    BY <1>1, <1>2, <1>3, <1>4, <1>5, <1>6, TickStep DEF Next

LEMMA InitSteady == Init => Steady
<1> SUFFICES ASSUME Init PROVE Steady
    OBVIOUS
<1>c. MaxTurn \in Nat /\ MaxAttempts \in Nat \ {0}
    BY SchedulerAssumption
<1>1. TypeOK
    <2>1. captured \in 0..MaxTurn /\ consolidated \subseteq 1..captured /\ gauge \in 0..captured /\ old \in 0..captured
        BY <1>c DEF Init
    <2>2. outcomes \in Seq([window: Window, ok: BOOLEAN])
          /\ jobs \in Seq([window: Window, by: {"rule", "retry", "pool"}])
        BY DEF Init
    <2> QED
        BY <2>1, <2>2 DEF Init, TypeOK
<1>2. NoRetry \in Streaks
    BY <1>c DEF Init, Streaks, NoRetry, NoWindow
<1>3. Within
    BY <1>2 DEF Init, Within
<1>4. RefireOwed /\ StreakAwaitsSomething
    BY DEF Init, RefireOwed, StreakAwaitsSomething, NoRetry
<1> QED
    BY <1>1, <1>3, <1>4 DEF Steady

(* The inductive invariant.                                                  *)
THEOREM SchedulerSteady == Spec => []Steady
<1>1. Steady /\ [Next]_vars => Steady'
    BY SteadyStep
<1> QED
    BY <1>1, InitSteady, PTL DEF Spec

(* Every variable keeps its type; no window reaches past the stored turns.   *)
THEOREM SchedulerTypes == Spec => []TypeOK
<1>1. Steady => TypeOK
    BY DEF Steady
<1> QED
    BY <1>1, SchedulerSteady, PTL

(* A retry streak that waits for an outcome has one on its way, unless a     *)
(* dream ended without a report.                                             *)
THEOREM StreakNeverStuck == Spec => []StreakAwaitsSomething
<1>1. Steady => StreakAwaitsSomething
    BY DEF Steady
<1> QED
    BY <1>1, SchedulerSteady, PTL

-----------------------------------------------------------------------------
(* Re-fires are counted.                                                     *)

(* A step that queues no re-fire does not make them more.                    *)
LEMMA FewerRefires ==
    ASSUME jobs \in Seq(Job), NEW d \in {0, 1},
           \A i \in Queued("retry")' : i \in Nat /\ i + d \in Queued("retry")
    PROVE ~(Cardinality(Queued("retry")') > Cardinality(Queued("retry")))
<1> DEFINE Q == Queued("retry")
           P == Queued("retry")'
           f == [i \in P |-> i + d]
<1>1. IsFiniteSet(Q)
    <2>1. Q \subseteq 1..Len(jobs) /\ Len(jobs) \in Nat
        BY Members DEF Queued
    <2>2. IsFiniteSet(1..Len(jobs))
        BY <2>1, FS_Interval
    <2>3. Q \in SUBSET (1..Len(jobs))
        BY <2>1
    <2> HIDE DEF Q
    <2> QED
        BY <2>2, <2>3, FS_Subset
<1>2. f \in Injection(P, Q)
    <2>1. f \in [P -> Q]
        OBVIOUS
    <2>2. \A i, j \in P : f[i] = f[j] => i = j
        OBVIOUS
    <2> QED
        BY <2>1, <2>2, Zenon DEF Injection, IsInjective
<1> HIDE DEF P, Q, f
<1>3. IsFiniteSet(P) /\ Cardinality(P) <= Cardinality(Q)
    BY <1>1, <1>2, FS_Injection
<1>4. Cardinality(P) \in Nat /\ Cardinality(Q) \in Nat
    BY <1>1, <1>3, FS_CardinalityType
<1> QED
    BY <1>3, <1>4 DEF P, Q

LEMMA RefireStep ==
    ASSUME Steady, [Next]_vars, Cardinality(Queued("retry")') > Cardinality(Queued("retry"))
    PROVE owed
<1>s. TypeOK /\ Within /\ RefireOwed
    BY DEF Steady
<1>q. jobs \in Seq(Job)
    BY <1>s DEF TypeOK, Job
<1>n. \A i \in DOMAIN jobs : i \in Nat /\ i + 0 = i
    BY <1>q, Members
<1>1. ASSUME jobs' = jobs PROVE FALSE
    BY <1>1, <1>n, <1>q, FewerRefires DEF Queued
<1>2. ASSUME PoolEvent PROVE FALSE
    <2> DEFINE e == [window |-> [lo |-> captured - gauge + 1, hi |-> captured], by |-> "pool"]
    <2>1. jobs' = Append(jobs, e) /\ e.by = "pool"
        BY <1>2 DEF PoolEvent
    <2> HIDE DEF e
    <2>2. \A i \in DOMAIN jobs' : (i \in DOMAIN jobs /\ jobs'[i] = jobs[i]) \/ jobs'[i] = e
        BY <1>q, <2>1
    <2>3. \A i \in Queued("retry")' : i \in Nat /\ i + 0 \in Queued("retry")
        BY <1>n, <2>1, <2>2 DEF Queued
    <2> QED
        BY <1>q, <2>3, FewerRefires
<1>3. ASSUME Commits \/ DreamFails \/ CaptureFails PROVE FALSE
    <2>1. jobs # <<>> /\ jobs' = Tail(jobs)
        BY <1>3 DEF Commits, DreamFails, CaptureFails
    <2>2. \A i \in DOMAIN jobs' : i \in Nat /\ i + 1 \in DOMAIN jobs /\ jobs'[i] = jobs[i+1]
        BY <1>q, <2>1
    <2>3. \A i \in Queued("retry")' : i \in Nat /\ i + 1 \in Queued("retry")
        BY <2>2 DEF Queued
    <2> QED
        BY <1>q, <2>3, FewerRefires
<1>4. ASSUME Tick PROVE owed
    <2>1. PICK verdict \in Verdicts, elapsed \in BOOLEAN :
              jobs' = jobs \o Emission(verdict) \o Refire(Due(Applied, elapsed))
        BY <1>4 DEF Tick
    <2> DEFINE streak == Due(Applied, elapsed)
    <2>2. /\ streak \in Streaks
          /\ streak.next = "due" => Applied.next \in {"backoff", "due"}
        BY <1>s, AppliedIs, DueIs
    <2>3. jobs' = jobs \o Emission(verdict) \o Refire(streak)
        BY <2>1
    <2> HIDE DEF streak
    <2>4. CASE streak.next = "due"
        BY <1>s, <2>2, <2>4, AppliedIs DEF RefireOwed
    <2>5. CASE streak.next # "due"
        <3>1. \A i \in DOMAIN jobs' : jobs'[i].by = "retry" => i \in DOMAIN jobs /\ jobs'[i] = jobs[i]
            BY <1>s, <2>2, <2>3, <2>5, TickJobs
        <3>2. \A i \in Queued("retry")' : i \in Nat /\ i + 0 \in Queued("retry")
            BY <1>n, <3>1 DEF Queued
        <3> QED
            BY <1>q, <3>2, FewerRefires
    <2> QED
        BY <2>4, <2>5
<1>5. Capture \/ TimePasses \/ BackoffElapses \/ UNCHANGED vars => jobs' = jobs
    BY DEF Capture, TimePasses, BackoffElapses, vars
<1> QED
    BY <1>1, <1>2, <1>3, <1>4, <1>5 DEF Next

(* One re-fire per failure: however the ticks group the outcomes, and        *)
(* whichever dream they are of, a window is re-sent only after a failure     *)
(* that no re-fire has answered yet.                                         *)
THEOREM OneRefire == Spec => OneRefirePerFailure
<1>1. Steady /\ [Next]_vars => [Cardinality(Queued("retry")') > Cardinality(Queued("retry")) => owed]_vars
    BY RefireStep
<1> QED
    BY <1>1, SchedulerSteady, PTL DEF Spec, OneRefirePerFailure
=============================================================================
