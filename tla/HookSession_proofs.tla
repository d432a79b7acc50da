-------------------------- MODULE HookSession_proofs --------------------------
(* Theorems about the opencode plugin's sessions and their proofs: a reply   *)
(* is never on its way twice, whatever fails, and an outage leaves no hole   *)
(* behind when the daemon does not refuse one request while it takes         *)
(* another.                                                                  *)
EXTENDS HookSession, TLAPS

USE DEF Reconcile

-----------------------------------------------------------------------------
(* The chain as a sequence of tasks.                                         *)
Task == Turn \cup {Reconcile}
Elems(q) == {q[i] : i \in 1..Len(q)}
Ordered(q) == \A i \in 2..Len(q) : q[i] # Reconcile => q[i-1] = Reconcile

(* The first task of a chain that has one.                                   *)
LEMMA FirstTask ==
    ASSUME NEW q \in Seq(Task), Len(q) >= 1
    PROVE  q # <<>> /\ Head(q) = q[1]
  OBVIOUS

(* A task taken off the chain.                                               *)
LEMMA TakeTask ==
    ASSUME NEW q \in Seq(Task), q # <<>>, Ordered(q)
    PROVE  /\ Tail(q) \in Seq(Task) /\ Head(q) \in Task
           /\ Head(q) \in Elems(q)
           /\ Elems(Tail(q)) \subseteq Elems(q) /\ Elems(q) \subseteq Elems(Tail(q)) \cup {Head(q)}
           /\ Ordered(Tail(q))
           /\ Tail(q) # <<>> /\ Head(Tail(q)) # Reconcile => Head(q) = Reconcile
<1>1. Len(q) \in Nat /\ Len(q) >= 1 /\ Head(q) = q[1] /\ Tail(q) \in Seq(Task) /\ q[1] \in Task
  OBVIOUS
<1>2. Len(Tail(q)) = Len(q) - 1 /\ \A i \in 1..Len(q) - 1 : Tail(q)[i] = q[i+1]
  OBVIOUS
<1>3. Elems(Tail(q)) \subseteq Elems(q)
  BY <1>1, <1>2 DEF Elems
<1>4. Elems(q) \subseteq Elems(Tail(q)) \cup {Head(q)}
  <2> SUFFICES ASSUME NEW i \in 1..Len(q), i # 1 PROVE q[i] \in Elems(Tail(q))
    BY <1>1 DEF Elems
  <2>1. i - 1 \in 1..Len(q) - 1 /\ Tail(q)[i - 1] = q[i]
    BY <1>1, <1>2
  <2> QED BY <2>1, <1>2 DEF Elems
<1>5. Ordered(Tail(q))
  <2> SUFFICES ASSUME NEW i \in 2..Len(Tail(q)), Tail(q)[i] # Reconcile PROVE Tail(q)[i-1] = Reconcile
    BY DEF Ordered
  <2>1. i + 1 \in 2..Len(q) /\ Tail(q)[i] = q[i+1] /\ Tail(q)[i-1] = q[i] /\ i + 1 - 1 = i
    BY <1>1, <1>2
  <2> QED BY <2>1 DEF Ordered
<1>6. ASSUME Tail(q) # <<>>, Head(Tail(q)) # Reconcile PROVE Head(q) = Reconcile
  <2>1. Len(Tail(q)) >= 1 /\ Head(Tail(q)) = Tail(q)[1] /\ Tail(q)[1] = q[2] /\ 2 \in 2..Len(q)
    BY <1>1, <1>2, <1>6
  <2> QED BY <2>1, <1>1, <1>6 DEF Ordered
<1> QED BY <1>1, <1>3, <1>4, <1>5, <1>6 DEF Elems

(* A reconciliation put at its end.                                          *)
LEMMA AddReconcile ==
    ASSUME NEW q \in Seq(Task), Ordered(q)
    PROVE  LET r == Append(q, Reconcile) IN
           /\ r \in Seq(Task) /\ r # <<>> /\ Ordered(r)
           /\ Elems(r) = Elems(q) \cup {Reconcile}
           /\ Head(r) = IF q = <<>> THEN Reconcile ELSE Head(q)
<1> DEFINE r == Append(q, Reconcile)
<1>1. Reconcile \in Task BY DEF Task
<1>2. r \in Seq(Task) /\ Len(r) = Len(q) + 1 /\ Len(q) \in Nat
      /\ r[Len(q) + 1] = Reconcile /\ \A i \in 1..Len(q) : r[i] = q[i]
  BY <1>1
<1>3. r # <<>> /\ Head(r) = r[1]
  <2> HIDE DEF r
  <2> QED BY <1>2, FirstTask
<1>4. Head(r) = IF q = <<>> THEN Reconcile ELSE Head(q)
  <2>1. CASE q = <<>> BY <2>1, <1>2, <1>3
  <2>2. CASE q # <<>>
    <3>1. 1 \in 1..Len(q) /\ Head(q) = q[1] BY <2>2
    <3> QED BY <3>1, <2>2, <1>2, <1>3
  <2> QED BY <2>1, <2>2
<1>5. Ordered(r)
  <2> SUFFICES ASSUME NEW i \in 2..Len(r), r[i] # Reconcile PROVE r[i-1] = Reconcile
    BY DEF Ordered
  <2>1. i \in 2..Len(q) /\ i - 1 \in 1..Len(q) /\ i \in 1..Len(q) BY <1>2
  <2>2. r[i] = q[i] /\ r[i-1] = q[i-1] BY <2>1, <1>2
  <2> QED BY <2>1, <2>2 DEF Ordered
<1>6. Elems(r) = Elems(q) \cup {Reconcile}
  <2>1. 1..Len(r) = 1..Len(q) \cup {Len(q) + 1} BY <1>2
  <2> HIDE DEF r
  <2> QED BY <2>1, <1>2 DEF Elems
<1> QED BY <1>2, <1>3, <1>4, <1>5, <1>6

(* A reconciliation and a post put at its end.                               *)
LEMMA AddTurn ==
    ASSUME NEW q \in Seq(Task), Ordered(q), NEW m \in Turn
    PROVE  LET r == q \o <<Reconcile, m>> IN
           /\ r \in Seq(Task) /\ r # <<>> /\ Ordered(r)
           /\ Elems(r) = Elems(q) \cup {Reconcile, m}
           /\ Head(r) = IF q = <<>> THEN Reconcile ELSE Head(q)
<1> DEFINE r == q \o <<Reconcile, m>>
<1>1. Reconcile \in Task /\ m \in Task BY DEF Task
<1>2. r \in Seq(Task) /\ Len(r) = Len(q) + 2 /\ Len(q) \in Nat
      /\ r[Len(q) + 1] = Reconcile /\ r[Len(q) + 2] = m /\ \A i \in 1..Len(q) : r[i] = q[i]
  BY <1>1
<1>3. r # <<>> /\ Head(r) = r[1]
  <2> HIDE DEF r
  <2> QED BY <1>2, FirstTask
<1>4. Head(r) = IF q = <<>> THEN Reconcile ELSE Head(q)
  <2>1. CASE q = <<>> BY <2>1, <1>2, <1>3
  <2>2. CASE q # <<>>
    <3>1. 1 \in 1..Len(q) /\ Head(q) = q[1] BY <2>2
    <3> QED BY <3>1, <2>2, <1>2, <1>3
  <2> QED BY <2>1, <2>2
<1>5. Ordered(r)
  <2> SUFFICES ASSUME NEW i \in 2..Len(r), r[i] # Reconcile PROVE r[i-1] = Reconcile
    BY DEF Ordered
  <2>1. CASE i = Len(q) + 2 BY <2>1, <1>2
  <2>2. CASE i # Len(q) + 2
    <3>1. i \in 2..Len(q) /\ i - 1 \in 1..Len(q) /\ i \in 1..Len(q) BY <1>2, <2>2
    <3>2. r[i] = q[i] /\ r[i-1] = q[i-1] BY <3>1, <1>2
    <3> QED BY <3>1, <3>2 DEF Ordered
  <2> QED BY <2>1, <2>2
<1>6. Elems(r) = Elems(q) \cup {Reconcile, m}
  <2>1. 1..Len(r) = 1..Len(q) \cup {Len(q) + 1, Len(q) + 2} BY <1>2
  <2> HIDE DEF r
  <2> QED BY <2>1, <1>2 DEF Elems
<1> QED BY <1>2, <1>3, <1>4, <1>5, <1>6
-----------------------------------------------------------------------------
(* Types.                                                                    *)

(* A turn is no reconciliation, and the chain is a sequence of tasks.        *)
LEMMA Tasks ==
    /\ Reconcile \notin Turn /\ Turn \subseteq Nat /\ Replies \subseteq Turn /\ Reconcile \in Task
    /\ Period \subseteq Nat \ {0} /\ 0 \notin Period
    /\ TypeOK => chain \in Seq(Task)
    /\ Queued = Elems(chain) /\ (ChainOK => Ordered(chain))
  BY SessionAssumption DEF Turn, Period, Task, TypeOK, Queued, Elems, ChainOK, Ordered

(* What post() does to the requests and the fingerprints.                    *)
LEMMA Posted ==
    ASSUME TypeOK, NEW S \in SUBSET Turn, Post(S)
    PROVE  /\ inflight' \in [Turn -> Nat] /\ sent' \in SUBSET Replies /\ sent' = sent \cup (S \cap Replies)
           /\ \A m \in S : inflight'[m] = inflight[m] + 1
           /\ \A m \in Turn \ S : inflight'[m] = inflight[m]
  BY DEF Post, TypeOK

(* What is posted are turns without a fingerprint.                           *)
LEMMA FreshTurns ==
    ASSUME TypeOK
    PROVE  /\ Replayed \subseteq Turn /\ Replayed \cap sent = {}
           /\ \A m \in Recorded : stamp[m] >= window => m \in Replayed \cup sent
           /\ \A m \in Replayed : m \in Recorded /\ stamp[m] >= window
           /\ \A t \in Turn : Fresh({t}) = {t} \ sent
  BY DEF Replayed, Fresh, Recorded

(* A task that leaves the chain.                                             *)
LEMMA Taken ==
    ASSUME TypeOK, ChainOK, chain # <<>>, chain' = Tail(chain)
    PROVE  /\ chain' \in Seq(Task) /\ Head(chain) \in Task /\ Head(chain) \in Queued
           /\ Queued' \subseteq Queued /\ Queued \subseteq Queued' \cup {Head(chain)}
           /\ Ordered(chain')
           /\ chain' # <<>> /\ Head(chain') # Reconcile => Head(chain) = Reconcile
  BY TakeTask, Tasks DEF Queued, Elems

(* A task that joins it.                                                     *)
LEMMA Enqueued ==
    ASSUME TypeOK, ChainOK, NEW m \in Turn,
           chain' = Append(chain, Reconcile) \/ chain' = chain \o <<Reconcile, m>>
    PROVE  /\ chain' \in Seq(Task) /\ chain' # <<>> /\ Ordered(chain')
           /\ Queued' \subseteq Queued \cup {Reconcile, m} /\ Queued \subseteq Queued'
           /\ chain' = chain \o <<Reconcile, m>> => m \in Queued'
           /\ Head(chain') = IF chain = <<>> THEN Reconcile ELSE Head(chain)
<1>1. chain \in Seq(Task) /\ Ordered(chain) /\ Queued = Elems(chain) BY Tasks
<1>2. Queued' = Elems(chain') BY DEF Queued, Elems
<1>3. CASE chain' = Append(chain, Reconcile)
  <2>1. /\ chain' \in Seq(Task) /\ chain' # <<>> /\ Ordered(chain')
        /\ Elems(chain') = Elems(chain) \cup {Reconcile}
        /\ Head(chain') = IF chain = <<>> THEN Reconcile ELSE Head(chain)
    BY <1>1, <1>3, AddReconcile
  <2>2. chain' # chain \o <<Reconcile, m>>
    BY <1>1, <1>3, Tasks DEF Task
  <2> QED BY <2>1, <2>2, <1>1, <1>2
<1>4. CASE chain' = chain \o <<Reconcile, m>>
  <2>1. /\ chain' \in Seq(Task) /\ chain' # <<>> /\ Ordered(chain')
        /\ Elems(chain') = Elems(chain) \cup {Reconcile, m}
        /\ Head(chain') = IF chain = <<>> THEN Reconcile ELSE Head(chain)
    BY <1>1, <1>4, AddTurn
  <2> QED BY <2>1, <1>1, <1>2
<1> QED BY <1>3, <1>4

(* Every step keeps the types.                                               *)
LEMMA StepType ==
    ASSUME TypeOK, ChainOK, TimesOK, Next
    PROVE  TypeOK'
<1> DEFINE Others == /\ now' \in Period /\ stamp' \in [Turn -> Period \cup {0}] /\ up' \in BOOLEAN
                     /\ window' \in Period \cup {0} /\ reconciled' \in BOOLEAN
                     /\ mark' \in Period \cup {0} /\ saved' \in Period \cup {0}
                     /\ stored' \subseteq Turn /\ unmarked' \subseteq Turn /\ spoilt' \in BOOLEAN
                     /\ crashes' \in 0..MaxCrashes /\ extra' \in 0..MaxExtra
           Requests == sent' \subseteq Replies /\ inflight' \in [Turn -> Nat]
           Tasked == chain' \in Seq(Task)
<1>q. Others /\ Requests /\ Tasked => TypeOK' BY DEF TypeOK, Task
<1>t. chain \in Seq(Task) BY Tasks
<1> USE SessionAssumption
<1>1. ASSUME NEW m \in Turn, Record(m) PROVE TypeOK'
  <2>1. Tasked BY <1>1, Enqueued DEF Record
  <2>2. Others /\ Requests BY <1>1 DEF Record, TypeOK, counters, history
  <2> QED BY <2>1, <2>2, <1>q
<1>2. ASSUME NEW m \in Turn, Redeliver(m) PROVE TypeOK'
  <2>1. Tasked BY <1>2, Enqueued DEF Redeliver
  <2>2. Others /\ Requests BY <1>2 DEF Redeliver, TypeOK, host, history
  <2> QED BY <2>1, <2>2, <1>q
<1>3. ASSUME OtherEvent PROVE TypeOK'
  <2>1. Tasked BY <1>3, Enqueued DEF OtherEvent, Recorded
  <2>2. Others /\ Requests BY <1>3 DEF OtherEvent, TypeOK, host, history
  <2> QED BY <2>1, <2>2, <1>q
<1>4. ASSUME PersistMark PROVE TypeOK'
  <2>1. Others /\ Requests /\ Tasked BY <1>4, <1>t DEF PersistMark, TypeOK, host, process, history, counters
  <2> QED BY <2>1, <1>q
<1>5. ASSUME PostTurn PROVE TypeOK'
  <2>1. Tasked /\ Head(chain) \in Turn BY <1>5, Taken DEF PostTurn, Task
  <2>2. Fresh({Head(chain)}) \in SUBSET Turn BY <2>1 DEF Fresh
  <2>3. Requests BY <2>2, <1>5, Posted DEF PostTurn
  <2>4. Others BY <1>5 DEF PostTurn, TypeOK, host, history, counters
  <2> QED BY <2>1, <2>3, <2>4, <1>q
<1>6. ASSUME AlreadyReconciled PROVE TypeOK'
  <2>1. Tasked BY <1>6, Taken DEF AlreadyReconciled, NextIsReconcile
  <2>2. Others /\ Requests BY <1>6 DEF AlreadyReconciled, TypeOK, host, history, counters
  <2> QED BY <2>1, <2>2, <1>q
<1>7. ASSUME SkipHistory PROVE TypeOK'
  <2>1. Tasked BY <1>7, Taken DEF SkipHistory, NextIsReconcile
  <2>2. Others /\ Requests BY <1>7 DEF SkipHistory, TypeOK, host, counters, history
  <2> QED BY <2>1, <2>2, <1>q
<1>8. ASSUME ReadHost PROVE TypeOK'
  <2>1. Others /\ Requests /\ Tasked BY <1>8, <1>t DEF ReadHost, TypeOK, host, history, counters
  <2> QED BY <2>1, <1>q
<1>9. ASSUME ReadFailed PROVE TypeOK'
  <2>1. Tasked BY <1>9, Taken DEF ReadFailed, TimesOK
  <2>2. Others /\ Requests BY <1>9 DEF ReadFailed, TypeOK, host, counters
  <2> QED BY <2>1, <2>2, <1>q
<1>10. ASSUME Replay PROVE TypeOK'
  <2>1. Tasked BY <1>10, Taken DEF Replay, TimesOK
  <2>2. Requests BY <1>10, Posted, FreshTurns DEF Replay
  <2>3. Others BY <1>10 DEF Replay, TypeOK, host, history, counters
  <2> QED BY <2>1, <2>2, <2>3, <1>q
<1>11. ASSUME NEW m \in Turn, Ack(m) PROVE TypeOK'
  <2>1. Others /\ Requests /\ Tasked
    BY <1>11, <1>t DEF Ack, Answered, TypeOK, host, history, counters
  <2> QED BY <2>1, <1>q
<1>12. ASSUME NEW m \in Turn, Nack(m) PROVE TypeOK'
  <2>0. inflight[m] \in Nat \ {0} /\ inflight' = [inflight EXCEPT ![m] = inflight[m] - 1]
    BY <1>12 DEF Nack, Answered, TypeOK
  <2>1. Requests /\ Tasked
    <3>1. inflight' \in [Turn -> Nat] BY <2>0 DEF TypeOK
    <3>2. sent' \subseteq Replies BY <1>12 DEF Nack, TypeOK
    <3>3. Tasked BY <1>12, <1>t DEF Nack
    <3> QED BY <3>1, <3>2, <3>3
  <2>2. Others BY <1>12 DEF Nack, Rearmed, TypeOK, host, history, counters
  <2> QED BY <2>1, <2>2, <1>q
<1>13. ASSUME NextPeriod PROVE TypeOK'
  <2>0. now' \in Period /\ up' \in BOOLEAN
    <3>1. now' = now + 1 /\ now < MaxPeriod /\ now \in 1..MaxPeriod
      BY <1>13 DEF NextPeriod, TypeOK, Period
    <3>2. now' \in Period BY <3>1 DEF Period
    <3>3. up' \in BOOLEAN BY <1>13 DEF NextPeriod
    <3> QED BY <3>2, <3>3
  <2>1. Others BY <2>0, <1>13 DEF NextPeriod, TypeOK, process, history, counters
  <2>2. Requests /\ Tasked BY <1>13, <1>t DEF NextPeriod, TypeOK, process
  <2> QED BY <2>1, <2>2, <1>q
<1>14. ASSUME Crash PROVE TypeOK'
  <2>1. Requests /\ Tasked BY <1>14 DEF Crash, TypeOK, Task
  <2>0. stored' \subseteq Turn BY <1>14 DEF Crash, TypeOK
  <2>3. crashes' \in 0..MaxCrashes BY <1>14 DEF Crash, TypeOK
  <2>4. spoilt' \in BOOLEAN BY <1>14, Zenon DEF Crash
  <2>5. /\ window' = 0 /\ reconciled' = FALSE /\ mark' = saved
        /\ UNCHANGED <<now, stamp, up, saved, extra>>
    BY <1>14 DEF Crash, host
  <2>6. unmarked' \subseteq Turn BY <1>14 DEF Crash, TypeOK, Recorded
  <2>2. Others BY <2>0, <2>3, <2>4, <2>5, <2>6 DEF TypeOK
  <2> QED BY <2>1, <2>2, <1>q
<1> QED
  BY <1>1, <1>2, <1>3, <1>4, <1>5, <1>6, <1>7, <1>8, <1>9, <1>10, <1>11, <1>12, <1>13, <1>14
  DEF Next

-----------------------------------------------------------------------------
(* The chain.                                                                *)

(* Every step keeps the order of the chain.                                  *)
LEMMA StepChain ==
    ASSUME TypeOK, ChainOK, TimesOK, Next
    PROVE  ChainOK'
<1> DEFINE Current(q) == \A m \in q \cap Turn : stamp'[m] = now'
<1>q. Ordered(chain') /\ Current(Queued') => ChainOK' BY DEF ChainOK, Ordered
<1>o. Ordered(chain) /\ \A m \in Queued \cap Turn : stamp[m] = now BY Tasks DEF ChainOK
<1>s. ASSUME chain' = chain, stamp' = stamp, now' = now PROVE ChainOK'
  BY <1>s, <1>o, <1>q DEF Queued
<1>t. ASSUME chain # <<>>, chain' = Tail(chain), stamp' = stamp, now' = now PROVE ChainOK'
  <2>1. Ordered(chain') /\ Queued' \subseteq Queued BY <1>t, Taken
  <2> QED BY <2>1, <1>t, <1>o, <1>q
<1>1. ASSUME NEW m \in Turn, Record(m) PROVE ChainOK'
  <2>1. Ordered(chain') /\ Queued' \subseteq Queued \cup {Reconcile, m} BY <1>1, Enqueued DEF Record
  <2>2. Current(Queued') BY <2>1, <1>1, <1>o, Tasks DEF Record, TypeOK
  <2> QED BY <2>1, <2>2, <1>q
<1>2. ASSUME NEW m \in Turn, Redeliver(m) PROVE ChainOK'
  <2>1. Ordered(chain') /\ Queued' \subseteq Queued \cup {Reconcile, m} BY <1>2, Enqueued DEF Redeliver
  <2>2. Current(Queued') BY <2>1, <1>2, <1>o, Tasks DEF Redeliver, host
  <2> QED BY <2>1, <2>2, <1>q
<1>3. ASSUME OtherEvent PROVE ChainOK'
  <2>1. Ordered(chain') /\ Queued' = Queued \cup {Reconcile}
    <3>1. chain' = Append(chain, Reconcile) /\ chain \in Seq(Task) BY <1>3, Tasks DEF OtherEvent
    <3>2. Ordered(chain') /\ Elems(chain') = Elems(chain) \cup {Reconcile} BY <3>1, <1>o, AddReconcile
    <3> QED BY <3>2 DEF Queued, Elems
  <2>2. Current(Queued') BY <2>1, <1>3, <1>o, Tasks DEF OtherEvent, host
  <2> QED BY <2>1, <2>2, <1>q
<1>4. CASE PersistMark BY <1>4, <1>s DEF PersistMark, host, process
<1>5. CASE PostTurn BY <1>5, <1>t DEF PostTurn, host
<1>6. CASE AlreadyReconciled BY <1>6, <1>t DEF AlreadyReconciled, NextIsReconcile, host
<1>7. CASE SkipHistory BY <1>7, <1>t DEF SkipHistory, NextIsReconcile, host
<1>8. CASE ReadHost BY <1>8, <1>s DEF ReadHost, host
<1>9. CASE ReadFailed BY <1>9, <1>t DEF ReadFailed, TimesOK, host
<1>10. CASE Replay BY <1>10, <1>t DEF Replay, TimesOK, host
<1>11. ASSUME NEW m \in Turn, Ack(m) PROVE ChainOK' BY <1>11, <1>s DEF Ack, host
<1>12. ASSUME NEW m \in Turn, Nack(m) PROVE ChainOK' BY <1>12, <1>s DEF Nack, host
<1>e. ASSUME chain' = <<>> PROVE ChainOK'
  <2>1. Ordered(<<>>) BY DEF Ordered
  <2>2. Queued' = {} BY <1>e DEF Queued
  <2> QED BY <1>e, <2>1, <2>2, <1>q
<1>13. CASE NextPeriod BY <1>13, <1>e DEF NextPeriod, Busy, process
<1>14. CASE Crash BY <1>14, <1>e DEF Crash
<1> QED
  BY <1>1, <1>2, <1>3, <1>4, <1>5, <1>6, <1>7, <1>8, <1>9, <1>10, <1>11, <1>12, <1>13, <1>14
  DEF Next

-----------------------------------------------------------------------------
(* Fingerprints.                                                             *)

(* Every step keeps a reply from being on its way twice.                     *)
LEMMA StepSent ==
    ASSUME TypeOK, ChainOK, TimesOK, SentOK, Next
    PROVE  SentOK'
<1>s. ASSUME inflight' = inflight, sent' = sent, stored \subseteq stored' PROVE SentOK'
  BY <1>s DEF SentOK
<1>p. ASSUME NEW S \in SUBSET Turn, S \cap sent = {}, Post(S), stored' = stored PROVE SentOK'
  <2>1. ASSUME NEW m \in Replies PROVE inflight'[m] <= 1 /\ (inflight'[m] > 0 => m \in sent')
    <3>1. m \in Turn /\ inflight[m] \in Nat BY Tasks DEF TypeOK
    <3>2. CASE m \in S
      <4>1. inflight[m] = 0 BY <3>1, <3>2, <1>p, <2>1 DEF SentOK
      <4> QED BY <4>1, <3>2, <1>p, <2>1, Posted
    <3>3. CASE m \notin S BY <3>3, <3>1, <1>p, <2>1, Posted DEF SentOK
    <3> QED BY <3>2, <3>3
  <2>2. ASSUME NEW m \in sent' PROVE inflight'[m] > 0 \/ m \in stored'
    <3>1. m \in Turn /\ inflight[m] \in Nat BY <1>p, Posted, Tasks DEF TypeOK
    <3>2. CASE m \in S BY <3>1, <3>2, <1>p, Posted
    <3>3. CASE m \notin S
      <4>1. m \in sent /\ inflight'[m] = inflight[m] BY <3>1, <3>3, <1>p, Posted
      <4> QED BY <4>1, <1>p DEF SentOK
    <3> QED BY <3>2, <3>3
  <2> QED BY <2>1, <2>2 DEF SentOK
<1>1. ASSUME NEW m \in Turn, Record(m) \/ Redeliver(m) PROVE SentOK'
  BY <1>1, <1>s DEF Record, Redeliver
<1>2. CASE OtherEvent BY <1>2, <1>s DEF OtherEvent
<1>3. CASE PersistMark BY <1>3, <1>s DEF PersistMark, process
<1>4. CASE PostTurn
  <2>1. Head(chain) \in Turn BY <1>4, Taken DEF PostTurn, Task
  <2>2. Fresh({Head(chain)}) \in SUBSET Turn /\ Fresh({Head(chain)}) \cap sent = {} BY <2>1 DEF Fresh
  <2> QED BY <2>2, <1>4, <1>p DEF PostTurn
<1>5. CASE AlreadyReconciled \/ SkipHistory \/ ReadHost \/ ReadFailed
  BY <1>5, <1>s DEF AlreadyReconciled, SkipHistory, ReadHost, ReadFailed
<1>6. CASE Replay BY <1>6, <1>p, FreshTurns DEF Replay
<1>7. ASSUME NEW m \in Turn, Ack(m) PROVE SentOK'
  BY <1>7, Tasks DEF Ack, Answered, SentOK, TypeOK
<1>8. ASSUME NEW m \in Turn, Nack(m) PROVE SentOK'
  <2>1. stored \subseteq stored' /\ sent' = sent \ {m} /\ inflight[m] > 0
        /\ inflight' = [inflight EXCEPT ![m] = inflight[m] - 1]
    BY <1>8 DEF Nack, Answered
  <2> QED BY <2>1, Tasks DEF SentOK, TypeOK
<1>9. CASE NextPeriod BY <1>9, <1>s DEF NextPeriod, process
<1>10. CASE Crash BY <1>10, Tasks DEF Crash, SentOK
<1> QED BY <1>1, <1>2, <1>3, <1>4, <1>5, <1>6, <1>7, <1>8, <1>9, <1>10 DEF Next
-----------------------------------------------------------------------------
(* Marks, windows and what is refused.                                       *)

(* A session that starts posting has reconciled, and so has a mark.          *)
LEMMA StepTimes ==
    ASSUME TypeOK, ChainOK, TimesOK, RefusedOK, Next
    PROVE  TimesOK'
<1> DEFINE Begun(w, m, u, rec, q) == w # 0 => /\ w <= m /\ (u \/ w = m) /\ ~rec
                                             /\ q # <<>> /\ Head(q) = Reconcile
<1>q. ASSUME \A m \in Turn : stamp'[m] <= now', saved' <= mark', mark' <= now',
             Posting' \/ reconciled' => mark' # 0, Begun(window', mark', up', reconciled', chain')
      PROVE TimesOK'
  BY <1>q DEF TimesOK
<1>n. /\ now \in Nat /\ mark \in Nat /\ saved \in Nat /\ window \in Nat /\ now # 0
      /\ \A m \in Turn : stamp[m] \in Nat /\ inflight[m] \in Nat
  BY Tasks, 0 \in Nat DEF TypeOK
<1>o. /\ \A m \in Turn : stamp[m] <= now
      /\ saved <= mark /\ mark <= now /\ (Posting \/ reconciled => mark # 0)
      /\ Begun(window, mark, up, reconciled, chain)
  BY DEF TimesOK
<1> HIDE DEF Begun
<1>e. ASSUME NEW t \in Turn, chain' = Append(chain, Reconcile) \/ chain' = chain \o <<Reconcile, t>>,
             now' = now, \A m \in Turn : stamp'[m] \in {stamp[m], now}, up' = up,
             window' = window, reconciled' = reconciled, mark' = mark, saved' = saved, inflight' = inflight
      PROVE TimesOK'
  <2>1. chain' # <<>> /\ Head(chain') = (IF chain = <<>> THEN Reconcile ELSE Head(chain))
    BY <1>e, Enqueued
  <2>2. Posting' => Posting BY <2>1, <1>e DEF Posting
  <2>3. Begun(window', mark', up', reconciled', chain') BY <2>1, <1>e, <1>o DEF Begun
  <2> QED BY <2>2, <2>3, <1>e, <1>o, <1>n, <1>q
<1>1. ASSUME NEW m \in Turn, Record(m) PROVE TimesOK'
  BY <1>1, <1>e DEF Record, TypeOK
<1>2. ASSUME NEW m \in Turn, Redeliver(m) PROVE TimesOK'
  BY <1>2, <1>e DEF Redeliver, host
<1>3. CASE OtherEvent BY <1>3, <1>e DEF OtherEvent, Recorded, host
<1>4. CASE PersistMark
  <2>1. Posting' = Posting BY <1>4 DEF PersistMark, process, Posting
  <2>2. Begun(window', mark', up', reconciled', chain') BY <1>4, <1>o DEF PersistMark, host, process
  <2> QED BY <2>1, <2>2, <1>4, <1>o, <1>n, <1>q DEF PersistMark, host, process
<1>5. CASE PostTurn
  <2>1. Posting /\ window = 0 BY <1>5, <1>o DEF PostTurn, Posting, Begun
  <2>2. Begun(window', mark', up', reconciled', chain') BY <2>1, <1>5 DEF PostTurn, Begun
  <2> QED BY <2>1, <2>2, <1>5, <1>o, <1>q DEF PostTurn, host
<1>6. CASE AlreadyReconciled
  <2>1. window' = 0 /\ mark # 0 BY <1>6, <1>o DEF AlreadyReconciled, NextIsReconcile
  <2>2. Begun(window', mark', up', reconciled', chain') BY <2>1 DEF Begun
  <2> QED BY <2>1, <2>2, <1>6, <1>o, <1>q DEF AlreadyReconciled, host
<1>7. CASE SkipHistory
  <2>1. window' = 0 /\ mark' = now /\ saved' = saved /\ now' = now /\ stamp' = stamp
    BY <1>7 DEF SkipHistory, NextIsReconcile, host
  <2>2. Begun(window', mark', up', reconciled', chain') BY <2>1 DEF Begun
  <2> QED BY <2>1, <2>2, <1>o, <1>n, <1>q
<1>8. CASE ReadHost
  <2>1. Posting' => Posting BY <1>8 DEF ReadHost, NextIsReconcile, Posting
  <2>2. Begun(window', mark', up', reconciled', chain')
    BY <1>8, <1>n DEF ReadHost, NextIsReconcile, Begun
  <2> QED BY <2>1, <2>2, <1>8, <1>o, <1>q DEF ReadHost, host
<1>9. CASE ReadFailed \/ Replay
  <2>1. window # 0 /\ window <= mark BY <1>9, <1>o DEF ReadFailed, Replay, Begun
  <2>2. mark' # 0 /\ mark' = mark /\ saved' = saved /\ now' = now /\ stamp' = stamp
    BY <2>1, <1>9, <1>n DEF ReadFailed, Replay, host
  <2>3. Begun(window', mark', up', reconciled', chain') BY <1>9 DEF ReadFailed, Replay, Begun
  <2> QED BY <2>2, <2>3, <1>o, <1>q
<1>10. ASSUME NEW m \in Turn, Ack(m) PROVE TimesOK'
  <2>1. inflight[m] > 0 /\ up /\ up' = up /\ Posting /\ mark # 0 BY <1>10, <1>o DEF Ack, Answered, Posting, host
  <2>2. mark <= mark' /\ mark' <= now /\ mark' # 0 BY <2>1, <1>10, <1>o, <1>n DEF Ack
  <2>3. Begun(window', mark', up', reconciled', chain')
    BY <2>1, <2>2, <1>10, <1>o, <1>n DEF Ack, Begun, TypeOK
  <2> QED BY <2>2, <2>3, <1>10, <1>o, <1>n, <1>q DEF Ack, host, TypeOK
<1>11. ASSUME NEW m \in Turn, Nack(m) PROVE TimesOK'
  <2>1. mark # 0 BY <1>11, <1>o DEF Nack, Answered, Posting
  <2>2. Begun(window', mark', up', reconciled', chain')
    BY <1>11, <1>o DEF Nack, Rearmed, Begun, host
  <2> QED BY <2>1, <2>2, <1>11, <1>o, <1>q DEF Nack, host
<1>12. CASE NextPeriod
  <2>1. chain = <<>> /\ window = 0 /\ \A m \in Turn : inflight[m] = 0
    BY <1>12, <1>o, <1>n DEF NextPeriod, Busy, Begun
  <2>2. window' = 0 /\ chain' = <<>> /\ inflight' = inflight BY <2>1, <1>12 DEF NextPeriod, process
  <2>3. ~Posting' BY <2>1, <2>2 DEF Posting
  <2>4. Begun(window', mark', up', reconciled', chain') BY <2>2 DEF Begun
  <2> QED BY <2>3, <2>4, <1>12, <1>o, <1>n, <1>q DEF NextPeriod, process
<1>13. CASE Crash
  <2>1. ~Posting' BY <1>13 DEF Crash, Posting
  <2>2. Begun(window', mark', up', reconciled', chain') BY <1>13 DEF Crash, Begun
  <2> QED BY <2>1, <2>2, <1>13, <1>o, <1>n, <1>q DEF Crash, host
<1> QED
  BY <1>1, <1>2, <1>3, <1>4, <1>5, <1>6, <1>7, <1>8, <1>9, <1>10, <1>11, <1>12, <1>13 DEF Next
(* What the daemon refuses while it is away is not behind the mark.          *)
LEMMA StepRefused ==
    ASSUME TypeOK, ChainOK, TimesOK, RefusedOK, Next
    PROVE  RefusedOK'
<1>n. /\ now \in Nat /\ mark \in Nat /\ now # 0 /\ mark <= now
      /\ \A m \in Turn : stamp[m] \in Nat /\ inflight[m] \in Nat
  BY Tasks, 0 \in Nat DEF TypeOK, TimesOK
<1>s. ASSUME up' = up, stamp' = stamp, mark' = mark, \A m \in Turn : inflight'[m] > 0 => inflight[m] > 0
      PROVE RefusedOK'
  BY <1>s DEF RefusedOK
<1>1. ASSUME NEW m \in Turn, Record(m) PROVE RefusedOK'
  <2> SUFFICES ASSUME ~up', NEW t \in Turn, inflight'[t] > 0 PROVE stamp'[t] # 0 /\ mark' <= stamp'[t]
    BY DEF RefusedOK
  <2>1. up' = up /\ mark' = mark /\ inflight' = inflight /\ stamp' = [stamp EXCEPT ![m] = now]
    BY <1>1 DEF Record
  <2> QED BY <2>1, <1>n DEF RefusedOK, TypeOK
<1>2. ASSUME NEW m \in Turn, Redeliver(m) PROVE RefusedOK' BY <1>2, <1>s DEF Redeliver, host
<1>3. CASE OtherEvent \/ PersistMark BY <1>3, <1>s DEF OtherEvent, PersistMark, host, process
<1>4. CASE PostTurn
  <2> DEFINE h == Head(chain)
  <2>1. h \in Turn /\ h \in Queued BY <1>4, Taken DEF PostTurn, Task
  <2>2. stamp[h] = now BY <2>1 DEF ChainOK
  <2>3. Fresh({h}) \in SUBSET Turn /\ Fresh({h}) \subseteq {h} /\ Post(Fresh({h}))
        /\ up' = up /\ mark' = mark /\ stamp' = stamp
    BY <2>1, <1>4 DEF Fresh, PostTurn, host
  <2>4. \A t \in Turn \ {h} : inflight'[t] = inflight[t] BY <2>3, Posted
  <2> QED BY <2>2, <2>3, <2>4, <1>n DEF RefusedOK
<1>5. CASE AlreadyReconciled \/ ReadHost \/ ReadFailed
  BY <1>5, <1>s DEF AlreadyReconciled, ReadHost, ReadFailed, host
<1>6. CASE SkipHistory
  <2>1. \A m \in Turn : ~(inflight[m] > 0) BY <1>6 DEF SkipHistory, TimesOK, Posting
  <2> QED BY <2>1, <1>6 DEF SkipHistory, RefusedOK
<1>7. CASE Replay
  <2>1. up' = up /\ mark' = mark /\ stamp' = stamp /\ Post(Replayed) /\ window # 0
    BY <1>7 DEF Replay, host
  <2>2. \A t \in Turn \ Replayed : inflight'[t] = inflight[t] BY <2>1, FreshTurns, Posted
  <2>3. \A t \in Replayed : stamp[t] # 0 /\ (~up => mark <= stamp[t])
    BY <2>1, <1>n, FreshTurns DEF Recorded, TimesOK
  <2> QED BY <2>1, <2>2, <2>3 DEF RefusedOK
<1>8. ASSUME NEW m \in Turn, Ack(m) PROVE RefusedOK' BY <1>8 DEF Ack, host, RefusedOK
<1>9. ASSUME NEW m \in Turn, Nack(m) PROVE RefusedOK'
  <2>1. \A t \in Turn : inflight'[t] > 0 => inflight[t] > 0
    BY <1>9, <1>n DEF Nack, Answered, TypeOK
  <2> QED BY <2>1, <1>9, <1>s DEF Nack, host
<1>10. CASE NextPeriod
  <2>1. \A m \in Turn : ~(inflight'[m] > 0) BY <1>10 DEF NextPeriod, Busy, process
  <2> QED BY <2>1 DEF RefusedOK
<1>11. CASE Crash
  <2>1. \A m \in Turn : inflight'[m] = 0 BY <1>11 DEF Crash
  <2> QED BY <2>1 DEF RefusedOK
<1> QED BY <1>1, <1>2, <1>3, <1>4, <1>5, <1>6, <1>7, <1>8, <1>9, <1>10, <1>11 DEF Next

-----------------------------------------------------------------------------
(* Outages.                                                                  *)

(* Every step keeps each turn held, or in the replay to come.                *)
LEMMA StepReplayed ==
    ASSUME TypeOK, ChainOK, TimesOK, SentOK, RefusedOK, ReplayedOK, ~AnswersMix, Next
    PROVE  ReplayedOK'
<1> DEFINE Ahead(m) == ~reconciled /\ mark # 0 /\ mark <= stamp[m]
<1>n. /\ now \in Nat /\ mark \in Nat /\ saved \in Nat /\ window \in Nat
      /\ \A m \in Turn : stamp[m] \in Nat /\ inflight[m] \in Nat
      /\ saved <= mark /\ mark <= now
  BY Tasks, 0 \in Nat DEF TypeOK, TimesOK
<1>r. Recorded \subseteq Turn BY DEF Recorded
<1>o. ASSUME ~spoilt
      PROVE  (\A m \in Recorded : Held(m) \/ Ahead(m)) /\ (up /\ Posting => AllHeld)
  BY <1>o DEF ReplayedOK
<1>q. ASSUME ~spoilt' => /\ \A m \in Recorded' : Held(m)' \/ Ahead(m)'
                         /\ up' /\ Posting' => AllHeld'
      PROVE ReplayedOK'
  BY <1>q DEF ReplayedOK
<1>a. ASSUME ~spoilt' => \A m \in Recorded' : Held(m)' PROVE ReplayedOK'
  BY <1>a, <1>q DEF AllHeld
<1>e. ASSUME Queued \subseteq Queued', \A m \in Recorded' : m \in Recorded \cup Queued',
             stored' = stored, unmarked' = unmarked, inflight' = inflight, spoilt' = spoilt,
             reconciled' = reconciled, mark' = mark, up' = up, Posting' => Posting,
             \A m \in Turn : stamp'[m] \in {stamp[m], now}
      PROVE ReplayedOK'
  <2>1. \A m \in Turn : Held(m) => Held(m)' BY <1>e DEF Held
  <2>2. \A m \in Turn : Ahead(m) => Ahead(m)' BY <1>e, <1>n
  <2>3. \A m \in Queued' : Held(m)' BY DEF Held
  <2>4. AllHeld => AllHeld' BY <2>1, <2>3, <1>e, <1>r DEF AllHeld
  <2> QED BY <2>1, <2>2, <2>3, <2>4, <1>e, <1>o, <1>r, <1>q
<1>1. ASSUME NEW m \in Turn, Record(m) PROVE ReplayedOK'
  <2>1. Queued \subseteq Queued' /\ m \in Queued' /\ chain' # <<>>
        /\ Head(chain') = IF chain = <<>> THEN Reconcile ELSE Head(chain)
    BY <1>1, Enqueued DEF Record
  <2>2. stamp' = [stamp EXCEPT ![m] = now] BY <1>1 DEF Record
  <2>3. \A t \in Recorded' : t \in Recorded \cup Queued' BY <2>1, <2>2 DEF Recorded, TypeOK
  <2>4. Posting' => Posting BY <2>1, <1>1 DEF Record, Posting
  <2> QED BY <2>1, <2>2, <2>3, <2>4, <1>1, <1>e DEF Record, history, TypeOK
<1>2. ASSUME NEW m \in Turn, Redeliver(m) PROVE ReplayedOK'
  <2>1. Queued \subseteq Queued' /\ chain' # <<>>
        /\ Head(chain') = IF chain = <<>> THEN Reconcile ELSE Head(chain)
    BY <1>2, Enqueued DEF Redeliver
  <2>2. Posting' => Posting BY <2>1, <1>2 DEF Redeliver, Posting
  <2>3. Recorded' = Recorded BY <1>2 DEF Redeliver, host, Recorded
  <2> QED BY <2>1, <2>2, <2>3, <1>2, <1>e DEF Redeliver, host, history
<1>3. CASE OtherEvent
  <2>0. PICK t \in Turn : TRUE BY <1>3 DEF OtherEvent, Recorded
  <2>1. Queued \subseteq Queued' /\ chain' # <<>>
        /\ Head(chain') = IF chain = <<>> THEN Reconcile ELSE Head(chain)
    BY <2>0, <1>3, Enqueued DEF OtherEvent
  <2>2. Posting' => Posting BY <2>1, <1>3 DEF OtherEvent, Posting
  <2>3. Recorded' = Recorded BY <1>3 DEF OtherEvent, host, Recorded
  <2> QED BY <2>1, <2>2, <2>3, <1>3, <1>e DEF OtherEvent, host, history
<1>4. CASE PersistMark \/ ReadHost
  <2>1. /\ chain' = chain /\ stamp' = stamp /\ inflight' = inflight /\ stored' = stored
        /\ unmarked' = unmarked /\ spoilt' = spoilt /\ reconciled' = reconciled
        /\ mark' = mark /\ up' = up
    BY <1>4 DEF PersistMark, ReadHost, host, process, history
  <2>2. Queued' = Queued /\ Recorded' = Recorded /\ Posting' = Posting
    BY <2>1 DEF Queued, Recorded, Posting
  <2> QED BY <2>1, <2>2, <1>e
<1>5. CASE PostTurn
  <2> DEFINE h == Head(chain)
  <2>1. h \in Turn /\ Queued \subseteq Queued' \cup {h} BY <1>5, Taken DEF PostTurn, Task
  <2>2. /\ Fresh({h}) \in SUBSET Turn /\ Fresh({h}) = {h} \ sent /\ Post(Fresh({h}))
        /\ stored' = stored /\ unmarked' = unmarked /\ spoilt' = spoilt /\ up' = up
        /\ stamp' = stamp /\ mark' = mark /\ reconciled' = reconciled /\ Posting
    BY <2>1, <1>5, FreshTurns DEF PostTurn, host, history, Posting, Fresh
  <2>3. \A t \in Turn : inflight[t] > 0 => inflight'[t] > 0 BY <2>2, <1>n, Posted
  <2>4. inflight'[h] > 0 \/ h \in stored'
    <3>1. CASE h \in sent BY <3>1, <2>1, <2>2, <2>3 DEF SentOK
    <3>2. CASE h \notin sent
      <4>1. h \in Fresh({h}) BY <3>2, <2>2
      <4>2. inflight'[h] = inflight[h] + 1 BY <4>1, <2>2, Posted
      <4> QED BY <4>2, <2>1, <1>n
    <3> QED BY <3>1, <3>2
  <2>5. \A t \in Turn : Held(t) => Held(t)' BY <2>1, <2>2, <2>3, <2>4 DEF Held
  <2>6. Recorded' = Recorded BY <2>2 DEF Recorded
  <2>7. AllHeld => AllHeld' BY <2>5, <2>6, <1>r DEF AllHeld
  <2> QED BY <2>2, <2>5, <2>6, <2>7, <1>o, <1>r, <1>q
<1>6. CASE AlreadyReconciled
  <2>1. Queued \subseteq Queued' \cup {Reconcile} BY <1>6, Taken DEF AlreadyReconciled, NextIsReconcile
  <2>2. /\ stored' = stored /\ unmarked' = unmarked /\ spoilt' = spoilt /\ inflight' = inflight
        /\ stamp' = stamp /\ reconciled
    BY <1>6 DEF AlreadyReconciled, host, history
  <2>3. \A t \in Turn : Held(t) => Held(t)' BY <2>1, <2>2, Tasks DEF Held
  <2>4. Recorded' = Recorded BY <2>2 DEF Recorded
  <2> QED BY <2>2, <2>3, <2>4, <1>o, <1>r, <1>a
<1>7. CASE SkipHistory
  <2>1. Queued \subseteq Queued' \cup {Reconcile} BY <1>7, Taken DEF SkipHistory, NextIsReconcile
  <2>2. /\ stored' = stored /\ unmarked' = unmarked /\ spoilt' = spoilt /\ inflight' = inflight
        /\ stamp' = stamp /\ mark = 0
    BY <1>7 DEF SkipHistory, host, history
  <2>3. \A t \in Turn : Held(t) => Held(t)' BY <2>1, <2>2, Tasks DEF Held
  <2>4. Recorded' = Recorded BY <2>2 DEF Recorded
  <2> QED BY <2>2, <2>3, <2>4, <1>o, <1>r, <1>a
<1>8. CASE ReadFailed BY <1>8, <1>a DEF ReadFailed
<1>9. CASE Replay
  <2>1. chain # <<>> /\ Head(chain) = Reconcile /\ window <= mark BY <1>9 DEF Replay, TimesOK
  <2>2. Queued \subseteq Queued' \cup {Reconcile} BY <2>1, <1>9, Taken DEF Replay
  <2>3. /\ stored' = stored /\ unmarked' = unmarked /\ spoilt' = spoilt /\ stamp' = stamp /\ Post(Replayed)
    BY <1>9 DEF Replay, host, history
  <2>4. \A t \in Turn : inflight[t] > 0 => inflight'[t] > 0 BY <2>3, <1>n, Posted, FreshTurns
  <2>5. \A t \in Turn : Held(t) => Held(t)' BY <2>2, <2>3, <2>4, Tasks DEF Held
  <2>6. \A t \in Replayed : Held(t)' BY <2>3, <1>n, Posted, FreshTurns DEF Held
  <2>7. \A t \in sent : Held(t) BY DEF SentOK, Held
  <2>8. \A t \in Recorded : Ahead(t) => t \in Replayed \cup sent BY <2>1, <1>n, <1>r, FreshTurns
  <2>9. Recorded' = Recorded BY <2>3 DEF Recorded
  <2> QED BY <2>3, <2>5, <2>6, <2>7, <2>8, <2>9, <1>o, <1>r, <1>a
<1>10. ASSUME NEW m \in Turn, Ack(m) PROVE ReplayedOK'
  <2>1. /\ up /\ Posting /\ stored' = stored \cup {m} /\ spoilt' = spoilt /\ unmarked' = unmarked
        /\ chain' = chain /\ stamp' = stamp /\ \A t \in Turn \ {m} : inflight'[t] = inflight[t]
    BY <1>10 DEF Ack, Answered, Posting, host, history, TypeOK
  <2>2. Queued' = Queued /\ Recorded' = Recorded BY <2>1 DEF Queued, Recorded
  <2>3. \A t \in Turn : Held(t) => Held(t)' BY <2>1, <2>2 DEF Held
  <2> QED BY <2>1, <2>2, <2>3, <1>o, <1>r, <1>a DEF AllHeld
<1>11. ASSUME NEW m \in Turn, Nack(m) PROVE ReplayedOK'
  <2>1. /\ Posting /\ stored \subseteq stored' /\ (up => m \in stored') /\ spoilt' = spoilt
        /\ unmarked' = unmarked /\ up' = up /\ mark' = mark /\ reconciled' = FALSE /\ chain' = chain
        /\ stamp' = stamp /\ \A t \in Turn \ {m} : inflight'[t] = inflight[t]
    BY <1>11 DEF Nack, Answered, Rearmed, Posting, host, history, TypeOK
  <2>2. Queued' = Queued /\ Recorded' = Recorded BY <2>1 DEF Queued, Recorded
  <2>3. \A t \in Turn : Held(t) => Held(t)' \/ (t = m /\ ~up) BY <2>1, <2>2 DEF Held
  <2>4. ~up => mark # 0 /\ mark <= stamp[m] BY <1>11, <2>1 DEF Nack, Answered, RefusedOK, TimesOK
  <2>5. CASE up BY <2>5, <2>1, <2>2, <2>3, <1>o, <1>r, <1>a DEF AllHeld
  <2>6. CASE ~up
    <3>1. \A t \in Recorded : Held(t) \/ Ahead(t) => Held(t)' \/ Ahead(t)'
      BY <2>1, <2>3, <2>4, <2>6, <1>r
    <3> QED BY <3>1, <2>6, <2>1, <2>2, <1>o, <1>q
  <2> QED BY <2>5, <2>6
<1>12. CASE NextPeriod
  <2>1. /\ chain' = chain /\ inflight' = inflight /\ stored' = stored /\ unmarked' = unmarked
        /\ spoilt' = spoilt /\ mark' = mark /\ reconciled' = reconciled /\ stamp' = stamp
    BY <1>12 DEF NextPeriod, process, history
  <2>2. ~Posting' BY <1>12, <2>1 DEF NextPeriod, Busy, Posting
  <2>3. Queued' = Queued /\ Recorded' = Recorded BY <2>1 DEF Queued, Recorded
  <2>4. \A t \in Turn : (Held(t) => Held(t)') /\ (Ahead(t) => Ahead(t)') BY <2>1, <2>3 DEF Held
  <2> QED BY <2>1, <2>2, <2>3, <2>4, <1>o, <1>r, <1>q
<1>13. CASE Crash
  <2>1. ~Posting' BY <1>13 DEF Crash, Posting
  <2>2. /\ stored \subseteq stored' /\ unmarked \subseteq unmarked' /\ stamp' = stamp
        /\ reconciled' = FALSE /\ mark' = saved
        /\ saved = 0 => Recorded \ stored' \subseteq unmarked'
    BY <1>13 DEF Crash, host
  <2>3. ~spoilt' => ~spoilt /\ \A t \in Turn : ~(inflight[t] > 0) BY <1>13, Zenon DEF Crash
  <2>4. Recorded' = Recorded BY <2>2 DEF Recorded
  <2>5. ASSUME ~spoilt', NEW t \in Recorded PROVE Held(t)' \/ Ahead(t)'
    <3>1. CASE t \in stored \cup unmarked BY <3>1, <2>2 DEF Held
    <3>2. CASE saved = 0 BY <3>2, <2>2 DEF Held
    <3>3. CASE saved # 0 /\ t \in Queued
      <4>1. stamp[t] = now BY <3>3, <1>r DEF ChainOK
      <4> QED BY <4>1, <3>3, <2>2, <1>n
    <3>4. CASE saved # 0 /\ Ahead(t) BY <3>4, <2>2, <1>n, <1>r
    <3> QED BY <3>1, <3>2, <3>3, <3>4, <2>5, <2>3, <1>o, <1>r DEF Held
  <2> QED BY <2>1, <2>4, <2>5, <1>q
<1> QED
  BY <1>1, <1>2, <1>3, <1>4, <1>5, <1>6, <1>7, <1>8, <1>9, <1>10, <1>11, <1>12, <1>13 DEF Next

-----------------------------------------------------------------------------
(* The theorems.                                                             *)
(* The session's invariant holds at first.                                   *)
LEMMA InitSound == Init => Sound /\ ReplayedOK
<1> SUFFICES ASSUME Init PROVE Sound /\ ReplayedOK OBVIOUS
<1> USE SessionAssumption DEF Init
<1>1. TypeOK
  <2>1. 1 \in Period /\ inflight \in [Turn -> Nat] /\ stamp \in [Turn -> Period \cup {0}] BY DEF Period
  <2>2. chain \in Seq(Turn \cup {Reconcile}) OBVIOUS
  <2>3. crashes \in 0..MaxCrashes /\ extra \in 0..MaxExtra OBVIOUS
  <2> QED BY <2>1, <2>2, <2>3 DEF TypeOK
<1>2. Queued = {} /\ Recorded = {} /\ ~Posting BY DEF Queued, Recorded, Posting
<1>3. ChainOK BY <1>2 DEF ChainOK
<1>4. TimesOK /\ SentOK /\ RefusedOK BY <1>2 DEF TimesOK, SentOK, RefusedOK, Turn
<1>5. ReplayedOK BY <1>2 DEF ReplayedOK, AllHeld
<1> QED BY <1>1, <1>3, <1>4, <1>5 DEF Sound

(* Steps that change nothing keep everything.                                *)
LEMMA StutterSound ==
    ASSUME UNCHANGED vars
    PROVE  /\ Sound => Sound'
           /\ ReplayedOK => ReplayedOK'
<1> USE DEF vars, host, process, counters, history, Queued, Recorded, Posting
<1>1. (TypeOK => TypeOK') /\ (ChainOK => ChainOK') BY DEF TypeOK, ChainOK
<1>2. (TimesOK => TimesOK') /\ (SentOK => SentOK') /\ (RefusedOK => RefusedOK')
  BY DEF TimesOK, SentOK, RefusedOK
<1>3. ReplayedOK => ReplayedOK' BY DEF ReplayedOK, AllHeld, Held
<1> QED BY <1>1, <1>2, <1>3 DEF Sound

(* The chain runs in order, fingerprints are kept and marks stay behind what *)
(* is refused, whatever the daemon answers.                                  *)
THEOREM SessionSound == Spec => []Sound
<1>1. Init => Sound BY InitSound
<1>2. Sound /\ [Next]_vars => Sound'
  <2>1. Sound /\ Next => Sound' BY StepType, StepChain, StepTimes, StepSent, StepRefused DEF Sound
  <2> QED BY <2>1, StutterSound
<1> QED BY <1>1, <1>2, PTL DEF Spec

(* post() and reconcileSession never have one reply on its way twice, for    *)
(* any number of turns, periods, crashes and repeated events, also when the  *)
(* daemon refuses one request and takes another.                             *)
THEOREM RepliesOnce == Spec => []OneReplyInFlight
<1>1. Sound => OneReplyInFlight BY DEF Sound, SentOK, OneReplyInFlight
<1> QED BY <1>1, SessionSound, PTL

(* What the daemon did not take is in the chain, on its way or in the window *)
(* of the next replay, for any number of turns, periods, crashes and         *)
(* repeated events: unless a process died that had never written the         *)
(* session's mark (unmarked), a read of the host failed or a process died    *)
(* over an open request (spoilt), and when the daemon does not refuse one    *)
(* request while it takes another (~AnswersMix).                             *)
THEOREM NoHoles == ~AnswersMix => (Spec => []OutagesCovered)
<1> SUFFICES ASSUME ~AnswersMix PROVE Spec => []OutagesCovered OBVIOUS
<1>1. Init => ReplayedOK BY InitSound
<1>2. Sound /\ ReplayedOK /\ [Next]_vars => ReplayedOK'
  <2>1. Sound /\ ReplayedOK /\ Next => ReplayedOK' BY StepReplayed DEF Sound
  <2> QED BY <2>1, StutterSound
<1>3. ReplayedOK => OutagesCovered BY DEF ReplayedOK, OutagesCovered, Covered, Held
<1> QED BY <1>1, <1>2, <1>3, SessionSound, PTL DEF Spec
=============================================================================
