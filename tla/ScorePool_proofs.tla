--------------------------- MODULE ScorePool_proofs ---------------------------
(* Proofs about ScorePool: no dream the pool launches re-fires its points,   *)
(* no point is dropped, and an event covers the turns that fired it, for     *)
(* every set of turns, thresholds, failures and number of restarts.          *)
EXTENDS ScorePool, WellFoundedInduction, FiniteSetTheorems, TLAPS

(* Every turn the pool knows of was added once.                              *)
Known == mem.turns \cup row.turns \cup filed \cup firing.turns \subseteq added

(* A filed turn is pending nowhere.                                          *)
Apart == filed \cap (mem.turns \cup row.turns) = {}

(* What the two ledgers and the event hold while add_points has the lock.    *)
Underway ==
    /\ pc = "decide" => row = mem
    /\ pc = "drain" => row.turns = firing.turns /\ mem.turns = {}
    /\ pc = "sink" => firing.turns \subseteq filed

(* The points of every event the pool delivered are filed.                   *)
Told == \A i \in FiredBy("pool") : Of(i) \subseteq filed

IInv == TypeOK /\ Known /\ Apart /\ Underway /\ Told

-----------------------------------------------------------------------------
(* A ledger is well formed after a credit and after a restore.               *)
LEMMA PooledType ==
    ASSUME NEW g \in Gauge, NEW t \in Turn
    PROVE Pooled(g, t) \in Gauge /\ Pooled(g, t).turns \subseteq g.turns \cup {t}
BY PoolAssumption DEF Pooled, Gauge

LEMMA RestoredType ==
    ASSUME NEW r \in Gauge
    PROVE Restored(r) \in Gauge /\ Restored(r).turns \subseteq r.turns
BY DEF Restored, EmptyGauge, Gauge

LEMMA EmptyTypes == EmptyGauge \in Gauge /\ Nothing \in [on: BOOLEAN, turns: SUBSET Turn]
BY DEF EmptyGauge, Nothing, Gauge

LEMMA GaugeParts ==
    ASSUME NEW g \in Gauge
    PROVE g.turns \subseteq Turn /\ [g EXCEPT !.turns = {}] \in Gauge /\ [g EXCEPT !.turns = {}].turns = {}
BY DEF Gauge

LEMMA AppendType ==
    ASSUME NEW S, NEW s \in Seq(S), NEW e \in S
    PROVE Append(s, e) \in Seq(S)
OBVIOUS

(* Nothing an event says changes when another is appended.                   *)
LEMMA AppendKeeps ==
    ASSUME TypeOK, NEW e \in Event,
           events' = Append(events, e)
    PROVE /\ events' \in Seq(Event)
          /\ DOMAIN events' = DOMAIN events \cup {Len(events) + 1}
          /\ \A i \in DOMAIN events : events'[i] = events[i]
          /\ events'[Len(events) + 1] = e
BY DEF TypeOK

-----------------------------------------------------------------------------
(* Every action keeps every variable in its type.                            *)
LEMMA TypeInductive == TypeOK /\ [Next]_vars => TypeOK'
<1> SUFFICES ASSUME TypeOK, [Next]_vars PROVE TypeOK'
    OBVIOUS
<1> USE DEF TypeOK
<1>1. ASSUME NEW t \in Turn, AddPoints(t) PROVE TypeOK'
    <2>1. mem' \in Gauge
        BY <1>1, PooledType DEF AddPoints
    <2>2. quiet' \in {"none", "recent", "idle"} /\ wasIdle' \in BOOLEAN /\ added' \in SUBSET Turn
        BY <1>1 DEF AddPoints
    <2>3. pc' \in {"free", "credit", "decide", "drain", "sink"}
        BY <1>1 DEF AddPoints
    <2>4. UNCHANGED <<ready, firing, seen, row, filed, credited, events, broken, orphaned, restarts>>
        BY <1>1 DEF AddPoints
    <2> QED
        BY <2>1, <2>2, <2>3, <2>4
<1>2. CASE Credit
    BY <1>2, GaugeParts DEF Credit
<1>3. CASE CreditFails
    BY <1>3 DEF CreditFails, Raise
<1>4. CASE Decide
    BY <1>4, EmptyTypes DEF Decide
<1>5. CASE Drain
    BY <1>5, GaugeParts DEF Drain, MoveGauge
<1>6. CASE DrainFails
    BY <1>6, GaugeParts DEF DrainFails, Raise
<1>7. CASE Deliver
    BY <1>7, AppendType DEF Deliver, Event
<1>8. CASE TickReads
    BY <1>8, GaugeParts DEF TickReads, process, history
<1>9. CASE TickPastDeadline
    BY <1>9 DEF TickPastDeadline, process, history
<1>10. Emitted \in Seq(Event)
    <2> DEFINE e == [by |-> "scheduler", gauge |-> [EmptyGauge EXCEPT !.turns = seen.turns]]
    <2>1. [EmptyGauge EXCEPT !.turns = seen.turns] \in Gauge
        BY DEF EmptyGauge, Gauge
    <2>2. e \in Event
        BY <2>1 DEF Event
    <2>3. Emitted = events \/ Emitted = Append(events, e)
        BY DEF Emitted
    <2> HIDE DEF e
    <2> QED
        BY <2>2, <2>3, AppendType
<1>11. CASE TickDrains
    BY <1>10, <1>11, EmptyTypes, GaugeParts DEF TickDrains, MoveGauge
<1>12. CASE TickDrainFails
    BY <1>10, <1>12, EmptyTypes DEF TickDrainFails
<1>13. CASE TimePasses
    BY <1>13 DEF TimePasses, history
<1>14. CASE ProviderFlips
    BY <1>14 DEF ProviderFlips, process, history
<1>15. CASE Restart
    <2>1. mem' \in Gauge /\ firing' \in Gauge /\ seen' \in [on: BOOLEAN, turns: SUBSET Turn]
        BY <1>15, RestoredType, EmptyTypes DEF Restart
    <2>2. quiet' \in {"none", "recent", "idle"} /\ wasIdle' \in BOOLEAN /\ broken' \in BOOLEAN
        BY <1>15 DEF Restart
    <2>3. pc' \in {"free", "credit", "decide", "drain", "sink"}
        BY <1>15 DEF Restart
    <2>4. UNCHANGED <<ready, row, filed, added, credited, events>> /\ orphaned' \in SUBSET Turn
        BY <1>15, GaugeParts DEF Restart
    <2>5. restarts' \in Nat
        <3>1. restarts' = restarts + 1 /\ restarts \in Nat
            BY <1>15 DEF Restart
        <3> QED
            BY <3>1
    <2> QED
        BY <2>1, <2>2, <2>3, <2>4, <2>5
<1>16. CASE UNCHANGED vars
    BY <1>16 DEF vars, process, history
<1> QED
    BY <1>1, <1>2, <1>3, <1>4, <1>5, <1>6, <1>7, <1>8, <1>9, <1>11, <1>12, <1>13, <1>14, <1>15,
       <1>16 DEF Next

(* Every variable starts in its type.                                        *)
LEMMA InitType == Init => TypeOK
<1> SUFFICES ASSUME Init PROVE TypeOK
    OBVIOUS
<1>1. mem \in Gauge /\ row \in Gauge /\ firing \in Gauge
    BY EmptyTypes DEF Init
<1>2. seen \in [on: BOOLEAN, turns: SUBSET Turn]
    BY EmptyTypes DEF Init
<1>3. quiet \in {"none", "recent", "idle"} /\ pc \in {"free", "credit", "decide", "drain", "sink"}
    BY DEF Init
<1>4. ready \in BOOLEAN /\ wasIdle \in BOOLEAN /\ broken \in BOOLEAN /\ restarts \in Nat
    BY DEF Init
<1>5. filed \in SUBSET Turn /\ added \in SUBSET Turn /\ credited \in SUBSET Turn
      /\ orphaned \in SUBSET Turn
    BY DEF Init
<1>6. events \in Seq(Event)
    BY DEF Init
<1> QED
    BY <1>1, <1>2, <1>3, <1>4, <1>5, <1>6 DEF TypeOK

(* TypeOK in every reachable state.                                          *)
THEOREM TypeCorrect == Spec => []TypeOK
    BY InitType, TypeInductive, PTL DEF Spec

-----------------------------------------------------------------------------
(* The scheduler's emission adds no pool event.                              *)
LEMMA EmittedTells ==
    ASSUME TypeOK, events' = Emitted, NEW F, \A i \in FiredBy("pool") : Of(i) \subseteq F
    PROVE (\A i \in FiredBy("pool") : Of(i) \subseteq F)'
<1>1. CASE seen.turns = {}
    BY <1>1 DEF Emitted, FiredBy, Of
<1>2. CASE seen.turns # {}
    <2> DEFINE e == [by |-> "scheduler", gauge |-> [EmptyGauge EXCEPT !.turns = seen.turns]]
    <2>1. e \in Event /\ events' = Append(events, e)
        BY <1>2 DEF Emitted, EmptyGauge, TypeOK, Event, Gauge
    <2>2. e.by # "pool"
        OBVIOUS
    <2> HIDE DEF e
    <2> QED
        BY <2>1, <2>2, AppendKeeps DEF FiredBy, Of
<1> QED
    BY <1>1, <1>2

(* The rest of the inductive invariant, one step per action.                 *)
LEMMA PoolInductive == IInv /\ [Next]_vars => (Known /\ Apart /\ Underway /\ Told)'
<1> SUFFICES ASSUME IInv, [Next]_vars PROVE (Known /\ Apart /\ Underway /\ Told)'
    OBVIOUS
<1> USE DEF IInv, Known, Apart, Underway
<1>1. ASSUME NEW t \in Turn, AddPoints(t) PROVE (Known /\ Apart /\ Underway /\ Told)'
    <2>1. Pooled(mem, t).turns \subseteq mem.turns \cup {t}
        BY PooledType DEF TypeOK
    <2> QED
        BY <1>1, <2>1 DEF AddPoints, Told, FiredBy, Of
<1>2. CASE Credit
    BY <1>2 DEF Credit, Told, FiredBy, Of
<1>3. CASE CreditFails
    BY <1>3 DEF CreditFails, Raise, Told, FiredBy, Of
<1>4. CASE Decide
    BY <1>4 DEF Decide, EmptyGauge, Told, FiredBy, Of
<1>5. CASE Drain
    BY <1>5, GaugeParts DEF Drain, MoveGauge, Told, FiredBy, Of, TypeOK
<1>6. CASE DrainFails
    BY <1>6 DEF DrainFails, Raise, Told, FiredBy, Of
<1>7. CASE Deliver
    <2> DEFINE e == [by |-> "pool", gauge |-> firing]
    <2>1. e \in Event /\ events' = Append(events, e)
        BY <1>7 DEF Deliver, TypeOK, Event
    <2>2. e.gauge.turns \subseteq filed /\ filed' = filed
        BY <1>7 DEF Deliver
    <2> HIDE DEF e
    <2>3. Told'
        BY <2>1, <2>2, AppendKeeps DEF FiredBy, Of, Told
    <2> QED
        BY <1>7, <2>3 DEF Deliver
<1>8. CASE TickReads
    BY <1>8 DEF TickReads, process, history, Told, FiredBy, Of
<1>9. CASE TickPastDeadline
    BY <1>9 DEF TickPastDeadline, process, history, Told, FiredBy, Of
<1>10. CASE TickDrains
    <2>1. filed \subseteq filed' /\ events' = Emitted
        BY <1>10 DEF TickDrains, MoveGauge
    <2>2. \A i \in FiredBy("pool") : Of(i) \subseteq filed'
        BY <2>1 DEF Told
    <2>3. Told'
        BY <2>1, <2>2, EmittedTells DEF Told
    <2> QED
        BY <1>10, <2>3, GaugeParts DEF TickDrains, MoveGauge, EmptyGauge, TypeOK
<1>11. CASE TickDrainFails
    <2>1. Told'
        BY <1>11, EmittedTells DEF TickDrainFails, Told
    <2> QED
        BY <1>11, <2>1 DEF TickDrainFails
<1>12. CASE TimePasses
    BY <1>12 DEF TimePasses, history, Told, FiredBy, Of
<1>13. CASE ProviderFlips
    BY <1>13 DEF ProviderFlips, process, history, Told, FiredBy, Of
<1>14. CASE Restart
    <2>1. Restored(row).turns \subseteq row.turns
        BY RestoredType DEF TypeOK
    <2>2. Told'
        BY <1>14 DEF Restart, Told, FiredBy, Of
    <2> QED
        BY <1>14, <2>1, <2>2 DEF Restart, EmptyGauge
<1>15. CASE UNCHANGED vars
    BY <1>15 DEF vars, process, history, Told, FiredBy, Of
<1> QED
    BY <1>1, <1>2, <1>3, <1>4, <1>5, <1>6, <1>7, <1>8, <1>9, <1>10, <1>11, <1>12, <1>13, <1>14,
       <1>15 DEF Next

(* The inductive invariant of the pool.                                      *)
THEOREM PoolInvariant == Spec => []IInv
<1>1. Init => IInv
    <2>1. Init => Known /\ Apart /\ Underway /\ Told
        BY DEF Init, EmptyGauge, Known, Apart, Underway, Told, FiredBy
    <2> QED
        BY InitType, <2>1 DEF IInv
<1>2. IInv /\ [Next]_vars => IInv'
    BY TypeInductive, PoolInductive DEF IInv
<1> QED
    BY <1>1, <1>2, PTL DEF Spec

(* A pool event's points are filed and pending nowhere, for ever.            *)
THEOREM NeverRefiredHolds == Spec => []NeverRefired
<1>1. IInv => NeverRefired
    BY DEF IInv, Apart, Told, NeverRefired
<1> QED
    BY <1>1, PoolInvariant, PTL

-----------------------------------------------------------------------------
(* A set of numbers has a least one.                                         *)
LEMMA NatMin == ASSUME NEW T, T \subseteq Nat, T # {} PROVE \E m \in T : \A k \in T : m <= k
<1> DEFINE R == {ss \in Nat \X Nat : ss[1] < ss[2]}
<1>1. IsWellFoundedOn(R, Nat)
    BY NatLessThanWellFounded DEF OpToRel
<1>2. \A x, y \in Nat : y < x => <<y, x>> \in R
    OBVIOUS
<1> HIDE DEF R
<1>3. PICK x \in T : \A y \in T : ~ (<<y, x>> \in R)
    BY <1>1, WFMin
<1>4. \A y \in T : ~ (y < x)
    BY <1>2, <1>3
<1> QED
    BY <1>4

(* Induction on numbers, stated of a set.                                    *)
LEMMA NatInd ==
    ASSUME NEW S, 0 \in S, \A n \in Nat : n \in S => n+1 \in S
    PROVE Nat \subseteq S
<1> SUFFICES ASSUME Nat \ S # {} PROVE FALSE
    OBVIOUS
<1>1. PICK m \in Nat \ S : \A k \in Nat \ S : m <= k
    BY NatMin
<1>2. m # 0 /\ m - 1 \in Nat
    BY <1>1
<1>3. m - 1 \in S
    BY <1>1, <1>2
<1> QED
    BY <1>3, <1>2, <1>1

(* The sum over a set of turns, one turn at a time.                          *)
Pick(s) == CHOOSE x \in s : TRUE
SumStep(iter, s) == IF s = {} THEN 0 ELSE Points[Pick(s)] + iter[s \ {Pick(s)}]
Sums(S) == CHOOSE iter : iter = [s \in SUBSET S |-> SumStep(iter, s)]

(* A balance is what the folds of the library compute.                       *)
LEMMA BalanceIsSum == ASSUME NEW S PROVE Balance(S) = Sums(S)[S]
BY DEF Balance, MapThenSumSet, MapThenFoldSet, Sums, SumStep, Pick

(* What a step of the sum takes is in the set.                               *)
LEMMA PickIn == ASSUME NEW s, s # {} PROVE Pick(s) \in s
BY DEF Pick

(* The recursion of the sum has a solution: one for the subsets of at most n *)
(* turns extends to those of n + 1.                                          *)
LEMMA SumsExist ==
    ASSUME NEW S, IsFiniteSet(S), \A t \in S : Points[t] \in Nat
    PROVE Sums(S) = [s \in SUBSET S |-> SumStep(Sums(S), s)]
<1> DEFINE Small(n) == {s \in SUBSET S : Cardinality(s) <= n}
           Good(g, n) == g \in [Small(n) -> Nat] /\ \A s \in Small(n) : g[s] = SumStep(g, s)
           Sizes == {n \in Nat : \E g : Good(g, n)}
<1>1. \A s \in SUBSET S : IsFiniteSet(s) /\ Cardinality(s) \in Nat
    BY FS_Subset, FS_CardinalityType
<1>2. 0 \in Sizes
    <2> DEFINE g == [s \in Small(0) |-> 0]
    <2>1. \A s \in Small(0) : s = {}
        BY <1>1, FS_EmptySet
    <2>2. Good(g, 0)
        BY <2>1 DEF SumStep
    <2> QED
        BY <2>2
<1>3. ASSUME NEW n \in Nat, n \in Sizes PROVE n+1 \in Sizes
    <2>1. PICK g : Good(g, n)
        BY <1>3
    <2> DEFINE h == [s \in Small(n+1) |-> SumStep(g, s)]
    <2>2. ASSUME NEW s \in Small(n+1), s # {} PROVE s \ {Pick(s)} \in Small(n) /\ Pick(s) \in S
        <3>1. Pick(s) \in s
            BY <2>2, PickIn
        <3>2. Cardinality(s \ {Pick(s)}) = Cardinality(s) - 1
            BY <3>1, <1>1, FS_RemoveElement
        <3> QED
            BY <3>1, <3>2, <1>1
    <2>3. Small(n) \subseteq Small(n+1)
        BY <1>1
    <2>4. h \in [Small(n+1) -> Nat]
        <3>1. \A s \in Small(n+1) : SumStep(g, s) \in Nat
            BY <2>1, <2>2 DEF SumStep
        <3> QED
            BY <3>1
    <2>5. \A s \in Small(n) : h[s] = g[s]
        BY <2>1, <2>3
    <2>6. \A s \in Small(n+1) : h[s] = SumStep(h, s)
        <3> SUFFICES ASSUME NEW s \in Small(n+1) PROVE SumStep(g, s) = SumStep(h, s)
            OBVIOUS
        <3> HIDE DEF h, Small
        <3>1. CASE s = {}
            BY <3>1 DEF SumStep
        <3>2. CASE s # {}
            BY <3>2, <2>2, <2>5 DEF SumStep
        <3> QED
            BY <3>1, <3>2
    <2> HIDE DEF h
    <2>7. Good(h, n+1)
        BY <2>4, <2>6
    <2> HIDE DEF Good
    <2>8. \E k : Good(k, n+1)
        BY <2>7
    <2> QED
        BY <2>8
<1> HIDE DEF Good
<1>4. Cardinality(S) \in Sizes
    <2>1. Nat \subseteq Sizes
        <3> HIDE DEF Sizes
        <3> QED BY <1>2, <1>3, NatInd
    <2> QED
        BY <2>1, <1>1
<1>5. PICK g : Good(g, Cardinality(S))
    BY <1>4
<1>6. Small(Cardinality(S)) = SUBSET S
    BY FS_Subset, <1>1
<1>7. g = [s \in SUBSET S |-> SumStep(g, s)]
    BY <1>5, <1>6 DEF Good
<1> QED
    BY <1>7 DEF Sums

(* A balance is a number, and 0 when no turn in it earned a point.           *)
LEMMA BalanceFacts ==
    ASSUME NEW S, IsFiniteSet(S), \A t \in S : Points[t] \in Nat
    PROVE /\ Balance(S) \in Nat
          /\ Balance(S) = 0 <=> \A t \in S : Points[t] = 0
<1> DEFINE f == Sums(S)
           Fact(s) == f[s] \in Nat /\ (f[s] = 0 <=> \A t \in s : Points[t] = 0)
           Sizes == {n \in Nat : \A s \in SUBSET S : Cardinality(s) = n => Fact(s)}
<1>1. \A s \in SUBSET S : IsFiniteSet(s) /\ Cardinality(s) \in Nat
    BY FS_Subset, FS_CardinalityType
<1>2. \A s \in SUBSET S : f[s] = SumStep(f, s)
    BY SumsExist
<1> HIDE DEF f
<1>3. 0 \in Sizes
    <2>1. \A s \in SUBSET S : Cardinality(s) = 0 => s = {}
        BY <1>1, FS_EmptySet
    <2> QED
        BY <2>1, <1>2 DEF SumStep
<1>4. ASSUME NEW n \in Nat, n \in Sizes PROVE n+1 \in Sizes
    <2> SUFFICES ASSUME NEW s \in SUBSET S, Cardinality(s) = n+1 PROVE Fact(s)
        OBVIOUS
    <2> DEFINE p == Pick(s)
    <2>1. s # {}
        <3>1. Cardinality(s) # 0
            OBVIOUS
        <3> QED
            BY <3>1, <1>1, FS_EmptySet
    <2>2. p \in s
        BY <2>1, PickIn
    <2> HIDE DEF p
    <2>3. Cardinality(s \ {p}) = n
        <3>1. Cardinality(s \ {p}) = Cardinality(s) - 1
            BY <2>2, <1>1, FS_RemoveElement
        <3> QED
            BY <3>1
    <2>4. Fact(s \ {p})
        BY <2>3, <1>4
    <2>5. f[s] = Points[p] + f[s \ {p}]
        BY <1>2, <2>1 DEF SumStep, p
    <2>6. Points[p] \in Nat
        BY <2>2
    <2> QED
        BY <2>2, <2>4, <2>5, <2>6
<1>5. Fact(S)
    <2> HIDE DEF Sizes
    <2>1. Nat \subseteq Sizes
        BY <1>3, <1>4, NatInd
    <2> USE DEF Sizes
    <2> QED
        BY <2>1, <1>1
<1> QED
    BY <1>5, BalanceIsSum DEF f

-----------------------------------------------------------------------------
(* No point is dropped.                                                      *)

(* Turns are finitely many, so every balance is a sum.                       *)
LEMMA Balances ==
    ASSUME NEW S \in SUBSET Turn
    PROVE /\ Balance(S) \in Nat
          /\ Balance(S) = 0 <=> \A t \in S : Points[t] = 0
<1>1. IsFiniteSet(S) /\ \A t \in S : Points[t] \in Nat
    BY PoolAssumption, FS_Subset
<1> QED
    BY <1>1, BalanceFacts

(* A credit of the ledger loses none of the row's points, unless the lane is *)
(* past its reset.                                                           *)
Held ==
    pc # "drain" => \A t \in row.turns : Points[t] > 0 => t \in mem.turns \cup orphaned

(* A ledger that takes one more turn drops worthless turns only.             *)
LEMMA PooledKeeps ==
    ASSUME NEW g \in Gauge, NEW t \in Turn, NEW u \in g.turns, Points[u] > 0
    PROVE u \in Pooled(g, t).turns
<1>1. g.turns \in SUBSET Turn
    BY DEF Gauge
<1>2. Balance(g.turns) # 0
    BY <1>1, Balances, PoolAssumption
<1> QED
    BY <1>2 DEF Pooled

(* What a boot restores has the row's points, unless its range ends at 0.    *)
LEMMA RestoredKeeps ==
    ASSUME NEW r \in Gauge, r.end # 0, NEW u \in r.turns, Points[u] > 0
    PROVE u \in Restored(r).turns
<1>1. r.turns \in SUBSET Turn
    BY DEF Gauge
<1>2. Balance(r.turns) # 0 /\ Balance(r.turns) \in Nat
    BY <1>1, Balances, PoolAssumption
<1> QED
    BY <1>2 DEF Restored

(* One step per action that moves a gauge; the others leave all of it alone. *)
LEMMA HeldStep == IInv /\ Held /\ NoPointDropped /\ [Next]_vars => Held' /\ NoPointDropped'
<1> SUFFICES ASSUME IInv, Held, NoPointDropped, [Next]_vars PROVE Held' /\ NoPointDropped'
    OBVIOUS
<1>t. TypeOK /\ Underway
    BY DEF IInv
<1>g. mem \in Gauge /\ row \in Gauge /\ row.turns \subseteq Turn
    BY <1>t DEF TypeOK, Gauge
<1> USE DEF Held, NoPointDropped
<1>1. ASSUME NEW t \in Turn, AddPoints(t) PROVE Held' /\ NoPointDropped'
    <2>1. \A u \in mem.turns : Points[u] > 0 => u \in mem'.turns
        BY <1>1, <1>g, PooledKeeps DEF AddPoints
    <2> QED
        BY <1>1, <2>1 DEF AddPoints
<1>2. CASE Credit
    BY <1>2 DEF Credit
<1>3. CASE CreditFails
    BY <1>3 DEF CreditFails, Raise
<1>4. CASE Decide
    BY <1>4, <1>t DEF Decide, Underway
<1>5. CASE Drain
    BY <1>5, <1>g, GaugeParts DEF Drain, MoveGauge
<1>6. CASE DrainFails
    BY <1>6 DEF DrainFails, Raise
<1>7. CASE Deliver
    BY <1>7 DEF Deliver
<1>8. CASE TickReads \/ TickPastDeadline
    BY <1>8 DEF TickReads, TickPastDeadline, history
<1>9. CASE TickDrains
    BY <1>9, <1>g, GaugeParts DEF TickDrains, MoveGauge
<1>10. CASE TickDrainFails
    BY <1>10 DEF TickDrainFails
<1>11. CASE TimePasses \/ ProviderFlips
    BY <1>11 DEF TimePasses, ProviderFlips, process, history
<1>12. CASE Restart
    <2>1. \A u \in row.turns : Points[u] > 0 => u \in mem'.turns \/ row.end = 0
        BY <1>12, <1>g, RestoredKeeps DEF Restart
    <2> QED
        BY <1>12, <2>1 DEF Restart
<1>13. CASE UNCHANGED vars
    BY <1>13 DEF vars, process, history
<1> QED
    BY <1>1, <1>2, <1>3, <1>4, <1>5, <1>6, <1>7, <1>8, <1>9, <1>10, <1>11, <1>12, <1>13 DEF Next

(* Every credited point is pending in the row, filed, or was left behind in  *)
(* one of the two ways orphaned records.                                     *)
THEOREM NoneDropped == Spec => []NoPointDropped
<1>1. Init => Held /\ NoPointDropped
    BY DEF Init, EmptyGauge, Held, NoPointDropped
<1>2. IInv /\ Held /\ NoPointDropped /\ [Next]_vars => (Held /\ NoPointDropped)'
    BY HeldStep
<1> QED
    BY <1>1, <1>2, PoolInvariant, PTL DEF Spec

-----------------------------------------------------------------------------
(* What an event covers, for any number of sessions.  The range has one start *)
(* for all of them, so what matters is the index of a turn that joins a      *)
(* balance: pool.py does not look at it, and the start stays.                *)

(* A step that adds a turn to a balance adds none from before its range.     *)
JoinsWithin == \A t \in Turn : AddPoints(t) /\ Balance(mem.turns) # 0 => mem.start <= Index[t]

(* The range of a gauge covers every turn that earned a point.               *)
Spans(g) == \A t \in g.turns : Points[t] > 0 => g.start <= Index[t] /\ Index[t] <= g.end
Ranges == Spans(mem) /\ Spans(row) /\ Spans(firing)

(* A turn that does not precede the range extends it.                        *)
LEMMA PooledSpans ==
    ASSUME NEW g \in Gauge, Spans(g), NEW t \in Turn,
           Balance(g.turns) # 0 => g.start <= Index[t]
    PROVE Spans(Pooled(g, t))
<1> USE PoolAssumption
<1>1. g.turns \in SUBSET Turn /\ g.start \in Nat /\ g.end \in Nat
    BY DEF Gauge
<1>2. CASE Balance(g.turns) = 0
    BY <1>2 DEF Pooled, Spans
<1>3. CASE Balance(g.turns) # 0
    BY <1>1, <1>3 DEF Pooled, Spans
<1> QED
    BY <1>2, <1>3

(* The three ranges cover their turns after every step.                      *)
LEMMA RangesStep ==
    ASSUME IInv, Ranges, [Next]_vars, [JoinsWithin]_vars
    PROVE Ranges'
<1>t. TypeOK
    BY DEF IInv
<1>g. mem \in Gauge /\ row \in Gauge /\ row.turns \subseteq Turn
    BY <1>t DEF TypeOK, Gauge
<1>1. ASSUME NEW t \in Turn, AddPoints(t) PROVE Ranges'
    <2>1. CASE JoinsWithin
        <3>1. Spans(Pooled(mem, t))
            BY <1>1, <1>g, <2>1, PooledSpans DEF Ranges, JoinsWithin
        <3> QED
            BY <1>1, <3>1 DEF AddPoints, Ranges, Spans
    <2>2. CASE UNCHANGED vars
        BY <2>2 DEF vars, process, Ranges, Spans
    <2> QED
        BY <2>1, <2>2
<1>e. Spans(EmptyGauge)
    BY DEF Spans, EmptyGauge
<1>r. Spans(Restored(row)) /\ Spans([row EXCEPT !.turns = {}])
    BY <1>e, <1>g, GaugeParts DEF Restored, Ranges, Spans
<1> HIDE DEF Spans
<1> USE DEF Ranges
<1>2. CASE Credit
    BY <1>2 DEF Credit
<1>3. CASE CreditFails \/ DrainFails
    BY <1>3 DEF CreditFails, DrainFails, Raise
<1>4. CASE Decide
    BY <1>4, <1>e DEF Decide
<1>5. CASE Drain
    BY <1>5, <1>r DEF Drain, MoveGauge
<1>6. CASE Deliver
    BY <1>6 DEF Deliver
<1>7. CASE TickReads \/ TickPastDeadline
    BY <1>7 DEF TickReads, TickPastDeadline, history
<1>8. CASE TickDrains
    BY <1>8, <1>r, <1>e DEF TickDrains, MoveGauge
<1>9. CASE TickDrainFails
    BY <1>9 DEF TickDrainFails
<1>10. CASE TimePasses \/ ProviderFlips
    BY <1>10 DEF TimePasses, ProviderFlips, process, history
<1>11. CASE Restart
    BY <1>11, <1>r, <1>e DEF Restart
<1>12. CASE UNCHANGED vars
    BY <1>12 DEF vars, process, history
<1> QED
    BY <1>1, <1>2, <1>3, <1>4, <1>5, <1>6, <1>7, <1>8, <1>9, <1>10, <1>11, <1>12 DEF Next

(* A step appends no event, the scheduler's, or the one the lane fired.      *)
LEMMA EventsStep ==
    ASSUME IInv, Ranges, EventCoversItsTurns, [Next]_vars
    PROVE EventCoversItsTurns'
<1>t. TypeOK
    BY DEF IInv
<1>1. CASE events' = events
    BY <1>1 DEF EventCoversItsTurns, FiredBy, Of
<1>2. CASE Deliver
    <2> DEFINE e == [by |-> "pool", gauge |-> firing]
    <2>1. e \in Event /\ events' = Append(events, e)
        BY <1>2, <1>t DEF Deliver, TypeOK, Event
    <2>2. e.gauge = firing /\ Spans(firing)
        BY DEF Ranges
    <2> HIDE DEF e
    <2> QED
        BY <2>1, <2>2, <1>t, AppendKeeps DEF FiredBy, Of, EventCoversItsTurns, Spans
<1>3. CASE events' = Emitted /\ seen.turns # {}
    <2> DEFINE e == [by |-> "scheduler", gauge |-> [EmptyGauge EXCEPT !.turns = seen.turns]]
    <2>1. e \in Event /\ events' = Append(events, e)
        BY <1>3, <1>t DEF Emitted, EmptyGauge, TypeOK, Event, Gauge
    <2>2. e.by # "pool"
        OBVIOUS
    <2> HIDE DEF e
    <2> QED
        BY <2>1, <2>2, <1>t, AppendKeeps DEF FiredBy, Of, EventCoversItsTurns
<1>4. events' = events \/ Deliver \/ events' = Emitted
    BY DEF Next, AddPoints, Credit, CreditFails, Raise, Decide, Drain, DrainFails, TickReads,
           TickPastDeadline, TickDrains, TickDrainFails, TimePasses, ProviderFlips, Restart, vars,
           process, history
<1> QED
    BY <1>1, <1>2, <1>3, <1>4 DEF Emitted

(* With any number of sessions, the range of a pool event covers every turn  *)
(* whose points fired it unless a turn from before the range joined it; that *)
(* happens, and section 7 of the README shows how.                           *)
THEOREM EventsCover == Spec /\ [][JoinsWithin]_vars => []EventCoversItsTurns
<1> DEFINE I == Ranges /\ EventCoversItsTurns
<1>1. Init => I
    BY DEF Init, EmptyGauge, Ranges, Spans, EventCoversItsTurns, FiredBy
<1>2. IInv /\ I /\ [Next]_vars /\ [JoinsWithin]_vars => I'
    BY RangesStep, EventsStep
<1>3. I => EventCoversItsTurns
    OBVIOUS
<1> HIDE DEF I
<1> QED
    BY <1>1, <1>2, <1>3, PoolInvariant, PTL DEF Spec

(* A profile with one session, whose turns are added in the order of their   *)
(* indexes.                                                                  *)
OneSession == \A t, u \in Turn : Session[t] = Session[u]
InOrder == \A t \in added : \A u \in Turn : Index[u] < Index[t] => u \in added

(* No turn of the one session comes before a range it joins.                 *)
LEMMA OneSessionJoins ==
    ASSUME OneSession, IInv, InOrder, Ranges, [Next]_vars
    PROVE InOrder' /\ [JoinsWithin]_vars
<1>t. TypeOK /\ Known
    BY DEF IInv
<1>g. mem \in Gauge /\ mem.turns \in SUBSET Turn /\ mem.start \in Nat /\ mem.turns \subseteq added
    BY <1>t DEF TypeOK, Gauge, Known
<1>1. ASSUME NEW t \in Turn, AddPoints(t) PROVE InOrder'
    <2>1. \A u \in Turn : Index[u] < Index[t] => u \in added
        BY <1>1 DEF AddPoints, OneSession
    <2> QED
        BY <1>1, <2>1 DEF AddPoints, InOrder
<1>2. ASSUME NEW t \in Turn, AddPoints(t), Balance(mem.turns) # 0 PROVE mem.start <= Index[t]
    <2>1. \A u \in added : Index[u] <= Index[t]
        BY <1>2, <1>t, PoolAssumption DEF AddPoints, InOrder, TypeOK
    <2>2. PICK u \in mem.turns : Points[u] # 0
        BY <1>g, <1>2, Balances
    <2>3. Points[u] > 0 /\ Index[u] \in Nat /\ Index[t] \in Nat
        BY <2>2, <1>g, PoolAssumption
    <2>4. mem.start <= Index[u]
        BY <2>3 DEF Ranges, Spans
    <2> QED
        BY <1>g, <2>1, <2>3, <2>4
<1>3. [JoinsWithin]_vars
    BY <1>2 DEF JoinsWithin
<1>4. ASSUME added' = added PROVE InOrder'
    BY <1>4 DEF InOrder
<1>5. added' = added \/ \E t \in Turn : AddPoints(t)
    BY DEF Next, AddPoints, Credit, CreditFails, Raise, Decide, Drain, DrainFails, Deliver, TickReads,
           TickPastDeadline, TickDrains, TickDrainFails, TimePasses, ProviderFlips, Restart, vars,
           process, history
<1>6. InOrder'
    BY <1>1, <1>4, <1>5
<1> QED
    BY <1>3, <1>6

(* So in a profile with one session the range always covers its turns.       *)
COROLLARY OneSessionCovers == OneSession => (Spec => []EventCoversItsTurns)
<1> SUFFICES ASSUME OneSession PROVE Spec => []EventCoversItsTurns
    OBVIOUS
<1> DEFINE I == InOrder /\ Ranges /\ EventCoversItsTurns
<1>1. Init => I
    BY DEF Init, EmptyGauge, InOrder, Ranges, Spans, EventCoversItsTurns, FiredBy
<1>2. IInv /\ I /\ [Next]_vars => I'
    BY OneSessionJoins, RangesStep, EventsStep
<1>3. I => EventCoversItsTurns
    OBVIOUS
<1> HIDE DEF I
<1> QED
    BY <1>1, <1>2, <1>3, PoolInvariant, PTL DEF Spec
=============================================================================
