------------------------- MODULE ConfigWrite_proofs --------------------------
(* The settings stay together, for every number of writes, boots, edits and  *)
(* failures.                                                                 *)
EXTENDS ConfigWrite, TLAPS

(* The three keys and what they may hold.                                    *)
LEMMA Keys == Key = {"auto_trigger", "ensemble", "hardware_tier"}
  BY DEF Key, Slots

(* The values of each key.                                                   *)
LEMMA Values ==
    /\ Value("auto_trigger") = {"false", "true"}
    /\ Value("ensemble") = {"off", "verify"}
    /\ Value("hardware_tier") = {"standard", "lite"}
  BY DEF Value

(* Each key's values are among those of all.                                 *)
LEMMA AnyValues == \A k \in Key : Value(k) \subseteq AnyValue
  BY DEF AnyValue

(* A configuration with one key changed is a configuration.                  *)
LEMMA Patched ==
    ASSUME NEW c \in Config, NEW k \in Key, NEW v \in Value(k)
    PROVE  [c EXCEPT ![k] = v] \in Config
  BY AnyValues DEF Config, AnyValue

(* A configuration gives each key a value of its own.                        *)
LEMMA ConfigValue ==
    ASSUME NEW c \in Config, NEW k \in Key
    PROVE  c[k] \in Value(k)
  BY DEF Config

(* The factory settings are a configuration.                                 *)
LEMMA FactoryConfig == Factory \in Config
  BY Keys, Values DEF Factory, Config

(* The newest of a list of versions.                                         *)
LEMMA LastAppended ==
    ASSUME NEW S, NEW s \in Seq(S), NEW x \in S
    PROVE  /\ Append(s, x) \in Seq(S) /\ Append(s, x) # <<>>
           /\ Last(Append(s, x)) = x
  BY DEF Last

(* A list of one version.                                                    *)
LEMMA LastOne ==
    ASSUME NEW S, NEW x \in S
    PROVE  <<x>> \in Seq(S) /\ <<x>> # <<>> /\ Last(<<x>>) = x
  BY DEF Last

(* The newest version is one of the values.                                  *)
LEMMA LastIn ==
    ASSUME NEW S, NEW s \in Seq(S), s # <<>>
    PROVE  Last(s) \in S
  BY DEF Last

(* No write: nothing done.                                                   *)
LEMMA NoOpType ==
    /\ NoOp \in OpState
    /\ NoOp.val \in Value(NoOp.key) /\ NoOp.done = {} /\ NoOp.kind = "none"
  BY Keys, Values, AnyValues DEF NoOp, OpState

(* The closed page.                                                          *)
LEMMA NoPageType == NoPage \in PageState
  BY FactoryConfig, ConfigAssumption DEF NoPage, PageState

(* The initial state is well-typed.                                          *)
LEMMA InitType == Init => TypeOK
<1> SUFFICES ASSUME Init PROVE TypeOK
  OBVIOUS
<1>1. acked \in [Key -> AnyValue] /\ doubt \in [Key -> SUBSET AnyValue]
  <2>1. \A k \in Key : Factory[k] \in AnyValue
    BY FactoryConfig, ConfigValue, AnyValues
  <2> QED BY <2>1, Keys DEF Init, Factory
<1>2. db \in [Key -> Seq(AnyValue)] /\ \A k \in Key : db[k] \in Seq(Value(k))
  BY DEF Init
<1>3. op = NoOp /\ page = NoPage /\ file = Factory /\ live = Factory /\ left = <<>>
  BY DEF Init
<1>4. left \in Seq(Key)
  BY <1>3
<1>5. /\ generation \in 0..MaxWrites /\ writes \in 0..MaxWrites /\ boots \in 0..MaxBoots
      /\ edits \in 0..MaxEdits /\ failures \in 0..MaxFailures
  BY ConfigAssumption DEF Init
<1>6. at \in {"down", "boot", "up", "refused"} /\ drift \in BOOLEAN
      /\ strained \subseteq Strain /\ lapses \subseteq Lapse
  BY DEF Init
<1>7. file \in Config /\ live \in Config /\ page \in PageState
      /\ op \in OpState /\ op.val \in Value(op.key)
  BY <1>3, NoOpType, NoPageType, FactoryConfig
<1> QED
  BY <1>1, <1>2, <1>4, <1>5, <1>6, <1>7 DEF TypeOK

-----------------------------------------------------------------------------
(* Type correctness, action by action.                                       *)

(* So is what boots, crashes and hand edits leave.                           *)
LEMMA BootType ==
    ASSUME TypeOK, OpOK, Load \/ ReconcileKey \/ Booted \/ Crash \/ \E c \in Config : HandEdit(c)
    PROVE  TypeOK'
<1>1. CASE Load
  <2>1. Slots \in Seq(Key)
    BY DEF Slots, Key
  <2>2. left' \in Seq(Key) /\ live' \in Config
    BY <1>1, <2>1 DEF Load, TypeOK
  <2>3. op' = NoOp
    BY <1>1 DEF Load
  <2>4. generation' \in 0..MaxWrites /\ boots' \in 0..MaxBoots
    BY <1>1, ConfigAssumption DEF Load, TypeOK
  <2>6. /\ drift' \in BOOLEAN /\ at' \in {"down", "boot", "up", "refused"}
        /\ lapses' \subseteq Lapse
    BY <1>1 DEF Load, TypeOK, Lapse
  <2>5. op' \in OpState /\ op'.val \in Value(op'.key)
    BY <2>3, NoOpType
  <2> QED
    BY <1>1, <2>2, <2>4, <2>5, <2>6 DEF Load, TypeOK
<1>2. CASE ReconcileKey
  <2> DEFINE k == Head(left)
  <2>1. k \in Key /\ left' \in Seq(Key)
    BY <1>2 DEF ReconcileKey, TypeOK
  <2>2. live[k] \in Value(k) /\ live[k] \in AnyValue
    BY <2>1, ConfigValue, AnyValues DEF TypeOK
  <2>3. CASE db[k] = <<>>
    <3>1. db' = [db EXCEPT ![k] = <<live[k]>>] /\ acked' = [acked EXCEPT ![k] = live[k]]
          /\ UNCHANGED <<live, file>>
      BY <1>2, <2>3 DEF ReconcileKey, Reconciled
    <3>2. <<live[k]>> \in Seq(Value(k)) /\ <<live[k]>> \in Seq(AnyValue)
      BY <2>2, LastOne
    <3>3. db' \in [Key -> Seq(AnyValue)] /\ \A j \in Key : db'[j] \in Seq(Value(j))
      BY <3>1, <3>2, <2>1 DEF TypeOK
    <3>4. acked' \in [Key -> AnyValue]
      BY <3>1, <2>2, <2>1 DEF TypeOK
    <3> QED BY <1>2, <2>1, <3>1, <3>3, <3>4 DEF ReconcileKey, TypeOK, counters
  <2>4. CASE db[k] # <<>>
    <3>1. live' = [live EXCEPT ![k] = Last(db[k])] /\ UNCHANGED <<db, acked>>
          /\ file' \in {file, [file EXCEPT ![k] = Last(db[k])]}
      BY <1>2, <2>4 DEF ReconcileKey, Reconciled
    <3>2. Last(db[k]) \in Value(k)
      BY <2>1, <2>4, LastIn DEF TypeOK
    <3> HIDE DEF k
    <3>3. live' \in Config /\ file' \in Config
      <4>1. live \in Config /\ file \in Config
        BY DEF TypeOK
      <4>2. [live EXCEPT ![k] = Last(db[k])] \in Config
        BY <4>1, <3>2, <2>1, Patched
      <4>3. [file EXCEPT ![k] = Last(db[k])] \in Config
        BY <4>1, <3>2, <2>1, Patched
      <4> QED BY <3>1, <4>1, <4>2, <4>3
    <3>4. UNCHANGED <<at, generation, op, page, doubt, drift, strained, lapses, counters>>
      BY <1>2 DEF ReconcileKey
    <3> QED BY <2>1, <3>1, <3>3, <3>4 DEF TypeOK, counters
  <2> QED BY <2>3, <2>4
<1>3. CASE Booted
  BY <1>3 DEF Booted, TypeOK, history, counters
<1>4. CASE Crash
  <2>1. op' = NoOp /\ left' = <<>>
    BY <1>4 DEF Crash
  <2>2. doubt' \in [Key -> SUBSET AnyValue]
    BY <1>4 DEF Crash, TypeOK, OpState
  <2>3. left' \in Seq(Key)
    BY <2>1
  <2>4. op' \in OpState /\ op'.val \in Value(op'.key)
    BY <2>1, NoOpType
  <2> QED BY <1>4, <2>2, <2>3, <2>4 DEF Crash, TypeOK, counters
<1>5. ASSUME NEW c \in Config, HandEdit(c)
      PROVE  TypeOK'
  BY <1>5, ConfigAssumption DEF HandEdit, TypeOK, daemon, Strain
<1> QED BY <1>1, <1>2, <1>3, <1>4, <1>5

(* A write that begins, whatever its kind.                                   *)
LEMMA BeginType ==
    ASSUME TypeOK, OpOK, NEW k \in Key, NEW v \in Value(k),
           NEW kind \in {"set", "rollback"}, NEW by \in {"other", "form", "toggle"},
           NEW done \in SUBSET {"file", "db", "live"},
           at = "up", op = NoOp, writes < MaxWrites, Begin(kind, k, v, by, done),
           file' \in Config, db' \in [Key -> Seq(AnyValue)],
           \A j \in Key : db'[j] \in Seq(Value(j)), UNCHANGED page,
           strained' \in {strained, strained \cup {"rollback"}}
    PROVE  TypeOK'
<1>1. op' = [kind |-> kind, key |-> k, val |-> v, by |-> by, done |-> done]
  BY DEF Begin
<1>2. v \in AnyValue
  BY AnyValues
<1>3. op' \in OpState /\ op'.val \in Value(op'.key)
  BY <1>1, <1>2 DEF OpState
<1> QED BY <1>3, ConfigAssumption DEF Begin, TypeOK, Strain

(* A set that begins.                                                        *)
LEMMA BeginSetType ==
    ASSUME TypeOK, OpOK, NEW k \in Key, NEW v, NEW by \in {"other", "form", "toggle"},
           BeginSet(k, v, by)
    PROVE  TypeOK'
<1>1. v \in Value(k) /\ at = "up" /\ op = NoOp /\ writes < MaxWrites
      /\ Begin("set", k, v, by, {"file"}) /\ UNCHANGED <<db, page, strained>>
  BY DEF BeginSet, Free
<1>2. file' \in Config
  BY <1>1, Patched DEF BeginSet, TypeOK
<1> QED BY <1>1, <1>2, BeginType DEF TypeOK

(* A rollback that begins.                                                   *)
LEMMA RollbackType ==
    ASSUME TypeOK, OpOK, NEW k \in Key, NEW n, Rollback(k, n)
    PROVE  TypeOK'
<1>1. /\ n \in DOMAIN db[k] /\ at = "up" /\ op = NoOp /\ writes < MaxWrites
      /\ db' = [db EXCEPT ![k] = Append(@, db[k][n])]
      /\ Begin("rollback", k, db[k][n], "other", {"db"})
      /\ strained' = strained \cup {"rollback"} /\ UNCHANGED <<file, page>>
  BY DEF Rollback, Free
<1>2. db[k][n] \in Value(k) /\ db[k][n] \in AnyValue
  BY <1>1, AnyValues DEF TypeOK
<1>3. Append(db[k], db[k][n]) \in Seq(Value(k)) /\ Append(db[k], db[k][n]) \in Seq(AnyValue)
  BY <1>2, LastAppended DEF TypeOK
<1>4. db' \in [Key -> Seq(AnyValue)] /\ \A j \in Key : db'[j] \in Seq(Value(j))
  BY <1>1, <1>3 DEF TypeOK
<1>5. file' \in Config
  BY <1>1 DEF TypeOK
<1> QED BY <1>1, <1>2, <1>4, <1>5, BeginType

(* A step of a write adds to what is done.                                   *)
LEMMA DoneType ==
    ASSUME TypeOK, NEW x \in {"file", "db", "live"}, op' = [op EXCEPT !.done = @ \cup {x}]
    PROVE  /\ op' \in OpState /\ op'.val \in Value(op'.key) /\ op'.key = op.key /\ op'.val = op.val
           /\ op'.kind = op.kind /\ op'.by = op.by /\ op'.done = op.done \cup {x}
  BY DEF TypeOK, OpState

(* The later steps of a write.                                               *)
LEMMA WriteType ==
    ASSUME TypeOK, OpOK, Record \/ PatchFile \/ Apply \/ Finish \/ AuditFails \/ Fail
    PROVE  TypeOK'
<1> USE DEF counters, history
<1>k. op.key \in Key /\ op.val \in Value(op.key) /\ op.val \in AnyValue
  BY DEF TypeOK, OpState
<1>1. CASE Record
  <2>1. Append(db[op.key], op.val) \in Seq(Value(op.key)) /\ Append(db[op.key], op.val) \in Seq(AnyValue)
    BY <1>k, LastAppended DEF TypeOK
  <2>2. db' \in [Key -> Seq(AnyValue)] /\ \A j \in Key : db'[j] \in Seq(Value(j))
    BY <1>1, <2>1, <1>k DEF TypeOK, Record
  <2>3. op' = [op EXCEPT !.done = @ \cup {"db"}]
    BY <1>1 DEF Record
  <2> QED BY <1>1, <2>2, <2>3, DoneType DEF TypeOK, Record
<1>2. CASE PatchFile
  <2>1. file' \in Config
    BY <1>2, <1>k, Patched DEF TypeOK, PatchFile
  <2>2. op' = [op EXCEPT !.done = @ \cup {"file"}]
    BY <1>2 DEF PatchFile
  <2> QED BY <1>2, <2>1, <2>2, DoneType DEF TypeOK, PatchFile
<1>3. CASE Apply
  <2>1. live' \in Config
    BY <1>3, <1>k, Patched DEF TypeOK, Apply
  <2>2. op' = [op EXCEPT !.done = @ \cup {"live"}]
    BY <1>3 DEF Apply
  <2> QED BY <1>3, <2>1, <2>2, DoneType DEF TypeOK, Apply
<1>4. ASSUME generation' = Bumped, op # NoOp
      PROVE  generation' \in 0..MaxWrites
  <2>1. generation \in Nat /\ writes \in 0..MaxWrites /\ generation < writes
    BY <1>4 DEF OpOK, TypeOK
  <2> QED BY <2>1, <1>4, ConfigAssumption DEF Bumped
<1>5. CASE Finish
  <2>1. acked' \in [Key -> AnyValue] /\ doubt' \in [Key -> SUBSET AnyValue]
    BY <1>5, <1>k DEF Finish, TypeOK
  <2>2. page' \in PageState
    <3>1. page' \in {page, [page EXCEPT !.at = "closed"], [page EXCEPT !.at = "refresh"]}
      BY <1>5 DEF Finish
    <3> QED BY <3>1 DEF TypeOK, PageState
  <2>3. op # NoOp /\ op' = NoOp
    BY <1>5, NoOpType DEF Finish
  <2> QED BY <1>5, <1>4, <2>1, <2>2, <2>3, NoOpType DEF Finish, TypeOK, Lapse
<1>6. CASE AuditFails
  <2>1. doubt' \in [Key -> SUBSET AnyValue]
    BY <1>6, <1>k DEF AuditFails, TypeOK
  <2>2. op # NoOp /\ op' = NoOp
    BY <1>6, NoOpType DEF AuditFails
  <2> QED BY <1>6, <1>4, <2>1, <2>2, NoOpType, ConfigAssumption DEF AuditFails, TypeOK, Lapse
<1>7. CASE Fail
  <2>1. doubt' \in [Key -> SUBSET AnyValue]
    BY <1>7, <1>k DEF Fail, TypeOK
  <2>2. op' = NoOp
    BY <1>7 DEF Fail
  <2> QED BY <1>7, <2>1, <2>2, NoOpType, ConfigAssumption DEF Fail, TypeOK, Lapse, Strain
<1> QED BY <1>1, <1>2, <1>3, <1>5, <1>6, <1>7

(* The steps of the page.                                                    *)
LEMMA PageType ==
    ASSUME TypeOK, ReadValues \/ ReadGeneration \/ RefreshGeneration \/ RefreshFails
    PROVE  TypeOK'
<1>1. page' \in PageState
  BY DEF ReadValues, ReadGeneration, RefreshGeneration, RefreshFails, TypeOK, PageState
<1> QED
  BY <1>1 DEF ReadValues, ReadGeneration, RefreshGeneration, RefreshFails, TypeOK, daemon,
              history, counters, Lapse

(* Every step keeps the types.                                               *)
LEMMA StepType == TypeOK /\ OpOK /\ [Next]_vars => TypeOK'
<1> SUFFICES ASSUME TypeOK, OpOK, [Next]_vars PROVE TypeOK'
  OBVIOUS
<1>1. CASE Load \/ ReconcileKey \/ Booted \/ Crash \/ \E c \in Config : HandEdit(c)
  BY <1>1, BootType
<1>2. ASSUME NEW k \in Key, NEW v \in Value(k), Set(k, v) \/ Save(k, v)
      PROVE  TypeOK'
  BY <1>2, BeginSetType DEF Set, Save
<1>3. ASSUME NEW k \in Key, NEW n \in 1..MaxWrites + MaxBoots, Rollback(k, n)
      PROVE  TypeOK'
  BY <1>3, RollbackType
<1>4. CASE Toggle
  BY <1>4, BeginSetType, Keys DEF Toggle
<1>5. CASE Record \/ PatchFile \/ Apply \/ Finish \/ AuditFails \/ Fail
  BY <1>5, WriteType
<1>6. CASE ReadValues \/ ReadGeneration \/ RefreshGeneration \/ RefreshFails
  BY <1>6, PageType
<1>7. CASE UNCHANGED vars
  BY <1>7 DEF vars, TypeOK, daemon, history, counters
<1> QED BY <1>1, <1>2, <1>3, <1>4, <1>5, <1>6, <1>7 DEF Next

-----------------------------------------------------------------------------
(* Facts the other invariants share.                                         *)

(* Who begins a write by the form has a page that matches.                   *)
LEMMA Steps ==
    ASSUME [Next]_vars
    PROVE  \/ Load \/ ReconcileKey \/ Booted \/ Crash \/ \E c \in Config : HandEdit(c)
           \/ \E k \in Key, v \in AnyValue, by \in {"other", "form", "toggle"} :
                /\ BeginSet(k, v, by)
                /\ by = "form" => page.at = "shown" /\ Matches(page.gen)
           \/ \E k \in Key, n \in 1..MaxWrites + MaxBoots : Rollback(k, n)
           \/ Record \/ PatchFile \/ Apply \/ Finish \/ AuditFails \/ Fail
           \/ ReadValues \/ ReadGeneration \/ RefreshGeneration \/ RefreshFails
           \/ UNCHANGED vars
<1>1. ASSUME NEW k \in Key, NEW v \in Value(k), Set(k, v) \/ Save(k, v)
      PROVE  \E by \in {"other", "form", "toggle"} :
                BeginSet(k, v, by) /\ (by = "form" => page.at = "shown" /\ Matches(page.gen))
  BY <1>1 DEF Set, Save
<1>2. ASSUME Toggle
      PROVE  \E v \in AnyValue : BeginSet("auto_trigger", v, "toggle")
  BY <1>2, Keys, AnyValues DEF Toggle
<1> QED BY <1>1, <1>2, AnyValues, Keys DEF Next

(* A write's operation, as its begin leaves it.                              *)
LEMMA Begun ==
    ASSUME NEW kind \in {"set", "rollback"}, NEW k, NEW v, NEW by, NEW done,
           Begin(kind, k, v, by, done)
    PROVE  /\ op' # NoOp /\ op'.kind = kind /\ op'.key = k /\ op'.val = v /\ op'.by = by
           /\ op'.done = done
  BY DEF Begin, NoOp

(* A step in the middle of a write, and how far it is.                       *)
LEMMA Continued ==
    ASSUME TypeOK, Record \/ PatchFile \/ Apply
    PROVE  /\ op # NoOp /\ op' # NoOp /\ op'.kind = op.kind /\ op'.key = op.key
           /\ op'.val = op.val /\ op'.by = op.by
           /\ Record => op'.done = {"file", "db"} /\ op.done = {"file"} /\ op.kind = "set"
           /\ PatchFile => op'.done = {"file", "db"} /\ op.done = {"db"} /\ op.kind = "rollback"
           /\ Apply => op'.done = {"file", "db", "live"} /\ op.done = {"file", "db"}
<1>1. op.done # {}
  BY DEF Record, PatchFile, Apply
<1>2. \E x \in {"file", "db", "live"} : op' = [op EXCEPT !.done = @ \cup {x}]
  BY DEF Record, PatchFile, Apply
<1>3. op # NoOp
  BY <1>1, NoOpType
<1>4. op'.kind = op.kind /\ op'.key = op.key /\ op'.val = op.val /\ op'.by = op.by
  BY <1>2, DoneType
<1>5. Record => op'.done = op.done \cup {"db"} /\ op.done = {"file"} /\ op.kind = "set"
  BY DoneType DEF Record
<1>6. PatchFile => op'.done = op.done \cup {"file"} /\ op.done = {"db"} /\ op.kind = "rollback"
  BY DoneType DEF PatchFile
<1>7. Apply => op'.done = op.done \cup {"live"} /\ op.done = {"file", "db"}
  BY DoneType DEF Apply
<1>8. op' # NoOp
  BY <1>5, <1>6, <1>7, NoOpType
<1> QED BY <1>3, <1>4, <1>5, <1>6, <1>7, <1>8

(* After its last step no write holds the lock.                              *)
LEMMA Ended ==
    ASSUME TypeOK, Finish \/ AuditFails \/ Fail
    PROVE  op # NoOp /\ op' = NoOp /\ op'.done = {} /\ op'.kind = "none"
  BY NoOpType DEF Finish, AuditFails, Fail

(* What is done is known from the kind of the write.                         *)
LEMMA DoneKnown ==
    ASSUME OpOK, TypeOK, op # NoOp
    PROVE  /\ at = "up" /\ left = <<>> /\ op.key \in Key /\ op.val \in Value(op.key)
           /\ op.done \in {{"file"}, {"db"}, {"file", "db"}, {"file", "db", "live"}}
           /\ op.kind \in {"set", "rollback"}
  BY DEF OpOK, TypeOK, OpState

(* The slot looked at is the only one that stops waiting.                    *)
LEMMA WaitingTail ==
    ASSUME TypeOK, left # <<>>, left' = Tail(left)
    PROVE  Head(left) \in Key /\ Waiting \subseteq Waiting' \cup {Head(left)}
<1>1. left \in Seq(Key) /\ Len(left) \in Nat /\ Len(left) > 0
  BY DEF TypeOK
<1>2. ASSUME NEW i \in DOMAIN left, i # 1
      PROVE  left[i] \in Waiting'
  <2>1. i - 1 \in DOMAIN left' /\ left'[i - 1] = left[i]
    BY <1>1, <1>2
  <2> QED BY <2>1 DEF Waiting
<1>3. Head(left) = left[1] /\ Head(left) \in Key
  BY <1>1
<1> QED BY <1>2, <1>3 DEF Waiting

-----------------------------------------------------------------------------
(* A write goes through its steps in order, while the daemon is up.          *)
LEMMA OpStep == IInv /\ [Next]_vars => OpOK'
<1> SUFFICES ASSUME IInv, [Next]_vars PROVE OpOK'
  OBVIOUS
<1>0. TypeOK /\ OpOK /\ CopiesOK /\ generation \in Nat /\ writes \in Nat
  BY DEF IInv, TypeOK
<1>1. CASE Load
  <2>1. op' = NoOp /\ at' # "up" /\ generation' = 0 /\ writes' = writes
    BY <1>1 DEF Load
  <2> QED BY <2>1, <1>0, NoOpType DEF OpOK
<1>2. CASE ReconcileKey
  <2>1. op = NoOp /\ op' = NoOp /\ at' # "up" /\ generation' = generation /\ writes' = writes
    BY <1>2, <1>0 DEF ReconcileKey, OpOK, counters
  <2> QED BY <2>1, <1>0, NoOpType DEF OpOK
<1>3. CASE Booted
  <2>1. op = NoOp /\ op' = NoOp /\ left' = <<>> /\ generation' = generation /\ writes' = writes
        /\ db' = db
    BY <1>3, <1>0 DEF Booted, OpOK, counters
  <2>2. Waiting = {}
    BY <1>3 DEF Booted, Waiting
  <2>3. \A k \in Key : db'[k] # <<>>
    BY <2>1, <2>2, <1>0, <1>3 DEF CopiesOK, Booted
  <2> QED BY <2>1, <2>3, <1>0, NoOpType DEF OpOK
<1>4. CASE Crash
  <2>1. op' = NoOp /\ at' # "up" /\ generation' = generation /\ writes' = writes
    BY <1>4 DEF Crash, counters
  <2> QED BY <2>1, <1>0, NoOpType DEF OpOK
<1>5. ASSUME NEW c \in Config, HandEdit(c)
      PROVE  OpOK'
  BY <1>5, <1>0 DEF HandEdit, daemon, OpOK
<1>6. ASSUME NEW k \in Key, NEW v \in AnyValue, NEW by \in {"other", "form", "toggle"},
             BeginSet(k, v, by)
      PROVE  OpOK'
  <2>1. op'.kind = "set" /\ op'.done = {"file"} /\ at = "up" /\ at' = at
    BY <1>6, Begun DEF BeginSet, Free, Begin
  <2>2. writes' = writes + 1 /\ UNCHANGED <<db, left, generation>>
    BY <1>6 DEF BeginSet, Begin
  <2> QED BY <2>1, <2>2, <1>0 DEF OpOK
<1>7. ASSUME NEW k \in Key, NEW n \in 1..MaxWrites + MaxBoots, Rollback(k, n)
      PROVE  OpOK'
  <2>1. op'.kind = "rollback" /\ op'.done = {"db"} /\ at = "up" /\ at' = at
    BY <1>7, Begun DEF Rollback, Free, Begin
  <2>2. writes' = writes + 1 /\ UNCHANGED <<left, generation>>
        /\ db' = [db EXCEPT ![k] = Append(@, db[k][n])] /\ n \in DOMAIN db[k]
    BY <1>7 DEF Rollback, Begin
  <2>3. db[k] \in Seq(AnyValue) /\ db[k][n] \in AnyValue
    BY <2>2, <1>0 DEF TypeOK
  <2>4. Append(db[k], db[k][n]) # <<>>
    BY <2>3, LastAppended
  <2>5. \A j \in Key : db'[j] # <<>>
    BY <2>1, <2>2, <2>4, <1>0 DEF OpOK, TypeOK
  <2> QED BY <2>1, <2>2, <2>5, <1>0 DEF OpOK
<1>8. CASE Record \/ PatchFile \/ Apply
  <2>1. UNCHANGED <<at, left, generation, writes>>
    BY <1>8 DEF Record, PatchFile, Apply, counters
  <2>2. op # NoOp /\ op'.kind = op.kind /\ at = "up"
        /\ (op'.kind = "set" => op'.done \in {{"file", "db"}, {"file", "db", "live"}})
        /\ (op'.kind = "rollback" => op'.done \in {{"file", "db"}, {"file", "db", "live"}})
    BY <1>8, <1>0, Continued, DoneKnown
  <2>3. \A j \in Key : db'[j] # <<>>
    <3>1. CASE Record
      <4>1. db[op.key] \in Seq(AnyValue) /\ op.val \in AnyValue /\ op.key \in Key
        BY <1>0 DEF TypeOK, OpState
      <4>2. Append(db[op.key], op.val) # <<>>
        BY <4>1, LastAppended
      <4>3. db' = [db EXCEPT ![op.key] = Append(@, op.val)]
        BY <3>1 DEF Record
      <4> QED BY <4>1, <4>2, <4>3, <1>0, <2>2 DEF OpOK, TypeOK
    <3>2. CASE ~Record
      BY <1>8, <3>2, <1>0, <2>2 DEF PatchFile, Apply, OpOK
    <3> QED BY <3>1, <3>2
  <2> QED BY <2>1, <2>2, <2>3, <1>0 DEF OpOK
<1>9. CASE Finish \/ AuditFails \/ Fail
  <2>1. op # NoOp /\ op' = NoOp /\ UNCHANGED <<at, left, db, writes>>
        /\ generation' \in {generation, generation + 1}
    BY <1>9, <1>0, Ended DEF Finish, AuditFails, Fail, Bumped, counters
  <2> QED BY <2>1, <1>0, NoOpType DEF OpOK
<1>10. CASE ReadValues \/ ReadGeneration \/ RefreshGeneration \/ RefreshFails \/ UNCHANGED vars
  BY <1>10, <1>0 DEF ReadValues, ReadGeneration, RefreshGeneration, RefreshFails, vars, daemon,
                    counters, OpOK
<1> QED BY Steps, <1>1, <1>2, <1>3, <1>4, <1>5, <1>6, <1>7, <1>8, <1>9, <1>10

-----------------------------------------------------------------------------
(* What the steps of a boot and of a write do to the copies.                 *)

(* A key reconcile_boot imports, or restores from the store.                 *)
LEMMA ReconcileStep ==
    ASSUME TypeOK, OpOK, ReconcileKey
    PROVE  \E k \in Key :
             /\ k = Head(left) /\ left # <<>> /\ at = "boot" /\ at' = "boot" /\ op = NoOp
             /\ Waiting \subseteq Waiting' \cup {k}
             /\ db'[k] # <<>> /\ live'[k] = Last(db'[k])
             /\ db[k] # <<>> => db' = db /\ acked' = acked
             /\ db[k] = <<>> => live' = live /\ file' = file /\ acked'[k] = live[k] /\ Last(db'[k]) = live[k]
             /\ (file'[k] = file[k] /\ live'[k] = live[k]) \/ file'[k] = live'[k]
             /\ \A j \in Key \ {k} : /\ file'[j] = file[j] /\ live'[j] = live[j]
                                     /\ db'[j] = db[j] /\ acked'[j] = acked[j]
             /\ UNCHANGED <<at, op, page, doubt, drift, strained, lapses, generation>>
<1> DEFINE k == Head(left)
<1>1. k \in Key /\ left # <<>> /\ Waiting \subseteq Waiting' \cup {k}
  BY WaitingTail DEF ReconcileKey
<1>2. at = "boot" /\ op = NoOp /\ Reconciled(k)
      /\ acked' = (IF db[k] = <<>> THEN [acked EXCEPT ![k] = live[k]] ELSE acked)
      /\ UNCHANGED <<at, op, page, doubt, drift, strained, lapses, generation>>
  BY DEF ReconcileKey, OpOK
<1>3. /\ file \in [Key -> AnyValue] /\ live \in [Key -> AnyValue]
      /\ db \in [Key -> Seq(AnyValue)] /\ acked \in [Key -> AnyValue]
  BY DEF TypeOK, Config, AnyValue
<1> HIDE DEF k
<1>4. CASE db[k] = <<>>
  <2>1. Last(<<live[k]>>) = live[k] /\ <<live[k]>> # <<>>
    BY <1>1, <1>3, LastOne
  <2>2. db' = [db EXCEPT ![k] = <<live[k]>>] /\ acked' = [acked EXCEPT ![k] = live[k]]
        /\ live' = live /\ file' = file
    BY <1>2, <1>4 DEF Reconciled
  <2>3. db'[k] = <<live[k]>> /\ acked'[k] = live[k]
        /\ \A j \in Key \ {k} : db'[j] = db[j] /\ acked'[j] = acked[j]
    BY <2>2, <1>1, <1>3
  <2>4. k = Head(left)
    BY DEF k
  <2> QED BY <1>1, <1>2, <1>4, <2>1, <2>2, <2>3, <2>4
<1>5. CASE db[k] # <<>>
  <2>1. live' = [live EXCEPT ![k] = Last(db[k])] /\ db' = db /\ acked' = acked
        /\ file' = (IF live[k] = Last(db[k]) THEN file ELSE [file EXCEPT ![k] = Last(db[k])])
    BY <1>2, <1>5 DEF Reconciled
  <2>2. live'[k] = Last(db[k]) /\ \A j \in Key \ {k} : live'[j] = live[j] /\ file'[j] = file[j]
    BY <2>1, <1>1, <1>3
  <2>3. (file'[k] = file[k] /\ live'[k] = live[k]) \/ file'[k] = live'[k]
    BY <2>1, <2>2, <1>1, <1>3
  <2>4. k = Head(left)
    BY DEF k
  <2> QED BY <1>1, <1>2, <1>5, <2>1, <2>2, <2>3, <2>4
<1> QED BY <1>4, <1>5

(* A set patches the file.                                                   *)
LEMMA SetBegins ==
    ASSUME TypeOK, NEW k \in Key, NEW v \in AnyValue, NEW by, BeginSet(k, v, by)
    PROVE  /\ at = "up" /\ at' = "up" /\ op = NoOp /\ op' # NoOp /\ op'.kind = "set"
           /\ op'.key = k /\ op'.val = v /\ op'.by = by /\ op'.done = {"file"}
           /\ file' = [file EXCEPT ![k] = v] /\ file'[k] = v
           /\ \A j \in Key \ {k} : file'[j] = file[j]
           /\ v \in Value(k) /\ Linked([live EXCEPT ![k] = v])
           /\ UNCHANGED <<db, live, left, acked, doubt, drift, strained, lapses, page, generation>>
<1>1. op' # NoOp /\ op'.kind = "set" /\ op'.key = k /\ op'.val = v /\ op'.by = by /\ op'.done = {"file"}
  BY Begun DEF BeginSet
<1>2. file' = [file EXCEPT ![k] = v] /\ file \in [Key -> AnyValue]
  BY DEF BeginSet, TypeOK, Config, AnyValue
<1>3. file'[k] = v /\ \A j \in Key \ {k} : file'[j] = file[j]
  BY <1>2
<1> QED BY <1>1, <1>2, <1>3 DEF BeginSet, Begin, Free, Admits

(* A rollback appends a version.                                             *)
LEMMA RollbackBegins ==
    ASSUME TypeOK, NEW k \in Key, NEW n, Rollback(k, n)
    PROVE  /\ at = "up" /\ at' = "up" /\ op = NoOp /\ op' # NoOp /\ op'.kind = "rollback"
           /\ op'.key = k /\ op'.by = "other" /\ op'.done = {"db"}
           /\ db'[k] # <<>> /\ Last(db'[k]) = op'.val
           /\ \A j \in Key \ {k} : db'[j] = db[j]
           /\ strained' # {}
           /\ UNCHANGED <<file, live, left, acked, doubt, drift, lapses, page, generation>>
<1>1. /\ n \in DOMAIN db[k] /\ Begin("rollback", k, db[k][n], "other", {"db"})
      /\ db' = [db EXCEPT ![k] = Append(@, db[k][n])] /\ strained' # {}
      /\ at = "up" /\ op = NoOp /\ UNCHANGED <<file, page>>
  BY DEF Rollback, Free
<1>2. op' # NoOp /\ op'.kind = "rollback" /\ op'.key = k /\ op'.val = db[k][n]
      /\ op'.by = "other" /\ op'.done = {"db"}
  BY <1>1, Begun
<1>3. db \in [Key -> Seq(AnyValue)] /\ db[k] \in Seq(AnyValue) /\ db[k][n] \in AnyValue
  BY <1>1 DEF TypeOK
<1>4. Append(db[k], db[k][n]) # <<>> /\ Last(Append(db[k], db[k][n])) = db[k][n]
  BY <1>3, LastAppended
<1>5. db'[k] = Append(db[k], db[k][n]) /\ \A j \in Key \ {k} : db'[j] = db[j]
  BY <1>1, <1>3
<1> QED BY <1>1, <1>2, <1>4, <1>5 DEF Begin

(* A write's next step changes one copy of its key, and only that.           *)
LEMMA WriteGoesOn ==
    ASSUME TypeOK, OpOK, Record \/ PatchFile \/ Apply
    PROVE  /\ at = "up" /\ op # NoOp /\ op' # NoOp /\ op'.kind = op.kind /\ op'.key = op.key
           /\ op'.val = op.val /\ op'.by = op.by /\ op.key \in Key /\ op.val \in Value(op.key)
           /\ Record => /\ op'.done = {"file", "db"} /\ op.done = {"file"} /\ op.kind = "set"
                        /\ Last(db'[op.key]) = op.val /\ db'[op.key] # <<>>
                        /\ file' = file /\ live' = live
           /\ PatchFile => /\ op'.done = {"file", "db"} /\ op.done = {"db"} /\ op.kind = "rollback"
                           /\ file'[op.key] = op.val /\ db' = db /\ live' = live
           /\ Apply => /\ op'.done = {"file", "db", "live"} /\ op.done = {"file", "db"}
                       /\ live' = [live EXCEPT ![op.key] = op.val] /\ live'[op.key] = op.val
                       /\ db' = db /\ file' = file
           /\ \A j \in Key \ {op.key} : file'[j] = file[j] /\ db'[j] = db[j] /\ live'[j] = live[j]
           /\ UNCHANGED <<at, left, acked, doubt, drift, strained, lapses, page, generation>>
<1>1. op # NoOp /\ op.key \in Key /\ op.val \in Value(op.key) /\ op.val \in AnyValue /\ at = "up"
  BY Continued, DoneKnown, AnyValues
<1>2. /\ file \in [Key -> AnyValue] /\ live \in [Key -> AnyValue] /\ db \in [Key -> Seq(AnyValue)]
  BY DEF TypeOK, Config, AnyValue
<1>3. UNCHANGED <<at, left, acked, doubt, drift, strained, lapses, page, generation>>
  BY DEF Record, PatchFile, Apply, history
<1>4. CASE Record
  <2>1. db' = [db EXCEPT ![op.key] = Append(@, op.val)] /\ file' = file /\ live' = live
    BY <1>4 DEF Record
  <2>2. Append(db[op.key], op.val) # <<>> /\ Last(Append(db[op.key], op.val)) = op.val
    BY <1>1, <1>2, LastAppended
  <2>3. db'[op.key] = Append(db[op.key], op.val) /\ \A j \in Key \ {op.key} : db'[j] = db[j]
    BY <2>1, <1>1, <1>2
  <2>4. ~PatchFile /\ ~Apply
    BY <1>4 DEF Record, PatchFile, Apply
  <2> QED BY <1>1, <1>3, <1>4, <2>1, <2>2, <2>3, <2>4, Continued
<1>5. CASE PatchFile
  <2>1. file' = [file EXCEPT ![op.key] = op.val] /\ db' = db /\ live' = live
    BY <1>5 DEF PatchFile
  <2>2. file'[op.key] = op.val /\ \A j \in Key \ {op.key} : file'[j] = file[j]
    BY <2>1, <1>1, <1>2
  <2>3. ~Record /\ ~Apply
    BY <1>5 DEF Record, PatchFile, Apply
  <2> QED BY <1>1, <1>3, <1>5, <2>1, <2>2, <2>3, Continued
<1>6. CASE Apply
  <2>1. live' = [live EXCEPT ![op.key] = op.val] /\ db' = db /\ file' = file
    BY <1>6 DEF Apply
  <2>2. live'[op.key] = op.val /\ \A j \in Key \ {op.key} : live'[j] = live[j]
    BY <2>1, <1>1, <1>2
  <2>3. ~Record /\ ~PatchFile
    <3>1. {"file", "db"} # {"file"} /\ {"file", "db"} # {"db"}
      <4>1. "db" \in {"file", "db"} /\ "file" \in {"file", "db"}
        OBVIOUS
      <4>2. "db" \notin {"file"} /\ "file" \notin {"db"}
        OBVIOUS
      <4> QED BY <4>1, <4>2
    <3> QED BY <1>6, <3>1 DEF Record, PatchFile, Apply
  <2> QED BY <1>1, <1>3, <1>6, <2>1, <2>2, <2>3, Continued
<1> QED BY <1>4, <1>5, <1>6

(* How a write ends: acknowledged, or in doubt.                              *)
LEMMA WriteEnds ==
    ASSUME TypeOK, OpOK, Finish \/ AuditFails \/ Fail
    PROVE  /\ at = "up" /\ op # NoOp /\ op' = NoOp /\ op.key \in Key
           /\ UNCHANGED <<file, db, live, at, left>>
           /\ Finish => acked'[op.key] = op.val
           /\ ~Finish => acked' = acked /\ op.val \in doubt'[op.key] /\ doubt[op.key] \subseteq doubt'[op.key]
           /\ \A j \in Key \ {op.key} : acked'[j] = acked[j] /\ doubt'[j] = doubt[j]
           /\ Finish \/ AuditFails => op.done = {"file", "db", "live"} /\ drift' = drift /\ strained' = strained
                                      /\ generation' = generation + 1
                                      /\ (page.at = "reading" => lapses' # {})
           /\ ~(Finish \/ AuditFails) => drift' /\ strained' # {} /\ lapses' # {}
           /\ lapses \subseteq lapses'
<1>1. op # NoOp /\ op' = NoOp /\ op.key \in Key /\ at = "up"
  BY Ended, DoneKnown
<1>2. acked \in [Key -> AnyValue] /\ doubt \in [Key -> SUBSET AnyValue]
  BY DEF TypeOK
<1>3. CASE Finish
  <2>1. acked' = [acked EXCEPT ![op.key] = op.val] /\ doubt' = [doubt EXCEPT ![op.key] = {}]
    BY <1>3 DEF Finish
  <2>2. acked'[op.key] = op.val /\ \A j \in Key \ {op.key} : acked'[j] = acked[j] /\ doubt'[j] = doubt[j]
    BY <2>1, <1>1, <1>2
  <2> QED BY <1>1, <1>3, <2>2 DEF Finish, Bumped
<1>4. CASE ~Finish
  <2>1. acked' = acked /\ doubt' = [doubt EXCEPT ![op.key] = @ \cup {op.val}]
    BY <1>4 DEF AuditFails, Fail
  <2>2. op.val \in doubt'[op.key] /\ doubt[op.key] \subseteq doubt'[op.key]
        /\ \A j \in Key \ {op.key} : doubt'[j] = doubt[j]
    BY <2>1, <1>1, <1>2
  <2> QED BY <1>1, <1>4, <2>1, <2>2 DEF AuditFails, Fail, Bumped
<1> QED BY <1>3, <1>4

(* The page's own steps leave the daemon alone.                              *)
LEMMA PageOnly ==
    ASSUME ReadValues \/ ReadGeneration \/ RefreshGeneration \/ RefreshFails \/ UNCHANGED vars
    PROVE  UNCHANGED <<file, db, at, live, generation, left, op, acked, doubt, drift, strained>>
  BY DEF ReadValues, ReadGeneration, RefreshGeneration, RefreshFails, vars, daemon, history


-----------------------------------------------------------------------------
(* The three copies move together, a step of the write at a time.            *)
LEMMA CopiesStep == IInv /\ [Next]_vars => CopiesOK'
<1> SUFFICES ASSUME IInv, [Next]_vars PROVE CopiesOK'
  OBVIOUS
<1>0. TypeOK /\ OpOK /\ CopiesOK
  BY DEF IInv
<1> USE DEF Done, Settled, Same
<1>1. CASE Load
  <2>1. op' = NoOp /\ at' # "up" /\ (at' = "boot" => live' = file /\ file' = file /\ left' = Slots)
    BY <1>1 DEF Load
  <2>2. left' = Slots => Waiting' = Key
    BY DEF Waiting, Key
  <2> QED BY <2>1, <2>2 DEF CopiesOK
<1>2. CASE ReconcileKey
  <2>1. PICK k \in Key :
          /\ at = "boot" /\ at' = "boot" /\ op = NoOp /\ op' = op /\ drift' = drift
          /\ Waiting \subseteq Waiting' \cup {k}
          /\ db'[k] # <<>> /\ live'[k] = Last(db'[k])
          /\ (file'[k] = file[k] /\ live'[k] = live[k]) \/ file'[k] = live'[k]
          /\ \A j \in Key \ {k} : file'[j] = file[j] /\ live'[j] = live[j] /\ db'[j] = db[j]
    BY <1>2, <1>0, ReconcileStep
  <2>2. ASSUME NEW j \in Key, j \notin Waiting'
        PROVE  db'[j] # <<>> /\ live'[j] = Last(db'[j])
    BY <2>1, <2>2, <1>0 DEF CopiesOK
  <2>3. ~drift => \A j \in Key : file'[j] = live'[j]
    BY <2>1, <1>0 DEF CopiesOK
  <2> QED BY <2>1, <2>2, <2>3 DEF CopiesOK
<1>3. CASE Booted
  <2>1. op = NoOp /\ op' = NoOp /\ at = "boot" /\ at' = "up" /\ UNCHANGED <<file, db, live, drift>>
    BY <1>3, <1>0 DEF Booted, OpOK, history
  <2>2. Waiting = {}
    BY <1>3 DEF Booted, Waiting
  <2>3. ~drift => \A k \in Key : file[k] = live[k] /\ live[k] = Last(db[k])
    BY <2>1, <2>2, <1>0 DEF CopiesOK
  <2> QED BY <2>1, <2>3 DEF CopiesOK
<1>4. CASE Crash
  <2>1. op' = NoOp /\ at' = "down"
    BY <1>4 DEF Crash
  <2> QED BY <2>1 DEF CopiesOK
<1>5. ASSUME NEW c \in Config, HandEdit(c)
      PROVE  CopiesOK'
  <2>1. drift' /\ UNCHANGED <<db, live, at, op, left>>
    BY <1>5 DEF HandEdit, daemon
  <2> QED BY <2>1, <1>0 DEF CopiesOK, Waiting
<1>6. ASSUME NEW k \in Key, NEW v \in AnyValue, NEW by \in {"other", "form", "toggle"},
             BeginSet(k, v, by)
      PROVE  CopiesOK'
  <2>1. /\ at = "up" /\ at' = "up" /\ op = NoOp /\ op' # NoOp /\ op'.key = k /\ op'.val = v
        /\ op'.done = {"file"} /\ file'[k] = v /\ drift' = drift /\ db' = db /\ live' = live
        /\ \A j \in Key \ {k} : file'[j] = file[j]
    BY <1>6, <1>0, SetBegins
  <2>2. ~drift => \A j \in Key : file[j] = live[j] /\ live[j] = Last(db[j])
    BY <2>1, <1>0 DEF CopiesOK
  <2> QED BY <2>1, <2>2 DEF CopiesOK
<1>7. ASSUME NEW k \in Key, NEW n \in 1..MaxWrites + MaxBoots, Rollback(k, n)
      PROVE  CopiesOK'
  <2>1. /\ at = "up" /\ at' = "up" /\ op = NoOp /\ op' # NoOp /\ op'.key = k
        /\ op'.done = {"db"} /\ Last(db'[k]) = op'.val /\ drift' = drift /\ file' = file /\ live' = live
        /\ \A j \in Key \ {k} : db'[j] = db[j]
    BY <1>7, <1>0, RollbackBegins
  <2>2. ~drift => \A j \in Key : file[j] = live[j] /\ live[j] = Last(db[j])
    BY <2>1, <1>0 DEF CopiesOK
  <2> QED BY <2>1, <2>2 DEF CopiesOK
<1>8. CASE Record \/ PatchFile \/ Apply
  <2>1. /\ at = "up" /\ at' = at /\ drift' = drift /\ op # NoOp /\ op' # NoOp /\ op'.key = op.key
        /\ op'.val = op.val /\ op.key \in Key
        /\ \A j \in Key \ {op.key} : file'[j] = file[j] /\ db'[j] = db[j] /\ live'[j] = live[j]
    BY <1>8, <1>0, WriteGoesOn
  <2>2. ~drift => \A j \in Key : Settled(j)' => Same(j)'
    BY <2>1, <1>0 DEF CopiesOK
  <2>3. CASE Record
    <3>1. /\ op'.done = {"file", "db"} /\ op.done = {"file"} /\ Last(db'[op.key]) = op.val
          /\ file' = file /\ live' = live
      BY <2>3, <1>0, WriteGoesOn
    <3> QED BY <2>1, <2>2, <3>1, <1>0 DEF CopiesOK
  <2>4. CASE PatchFile
    <3>1. /\ op'.done = {"file", "db"} /\ op.done = {"db"} /\ file'[op.key] = op.val
          /\ db' = db /\ live' = live
      BY <2>4, <1>0, WriteGoesOn
    <3> QED BY <2>1, <2>2, <3>1, <1>0 DEF CopiesOK
  <2>5. CASE Apply
    <3>1. /\ op'.done = {"file", "db", "live"} /\ op.done = {"file", "db"} /\ live'[op.key] = op.val
          /\ db' = db /\ file' = file
      BY <2>5, <1>0, WriteGoesOn
    <3> QED BY <2>1, <2>2, <3>1, <1>0 DEF CopiesOK
  <2> QED BY <1>8, <2>3, <2>4, <2>5
<1>9. CASE Finish \/ AuditFails \/ Fail
  <2>1. /\ at = "up" /\ at' = at /\ op # NoOp /\ op' = NoOp /\ op.key \in Key
        /\ UNCHANGED <<file, db, live>>
        /\ drift' \/ (drift' = drift /\ op.done = {"file", "db", "live"})
    BY <1>9, <1>0, WriteEnds
  <2>2. ~drift' => Same(op.key)
    BY <2>1, <1>0 DEF CopiesOK
  <2>3. ~drift' => \A j \in Key : Same(j)
    BY <2>1, <2>2, <1>0 DEF CopiesOK
  <2> QED BY <2>1, <2>3 DEF CopiesOK
<1>10. CASE ReadValues \/ ReadGeneration \/ RefreshGeneration \/ RefreshFails \/ UNCHANGED vars
  <2>1. UNCHANGED <<file, db, at, live, left, op, drift>>
    BY <1>10, PageOnly
  <2> QED BY <2>1, <1>0 DEF CopiesOK, Waiting
<1> QED BY Steps, <1>1, <1>2, <1>3, <1>4, <1>5, <1>6, <1>7, <1>8, <1>9, <1>10

(* What the store and the daemon hold was acknowledged or is in doubt.       *)
LEMMA AckedStep == IInv /\ [Next]_vars => AckedOK'
<1> SUFFICES ASSUME IInv, [Next]_vars PROVE AckedOK'
  OBVIOUS
<1>0. TypeOK /\ OpOK /\ CopiesOK /\ AckedOK
  BY DEF IInv
<1> USE DEF Done
<1>1. CASE Load
  <2>1. op = NoOp /\ op' = NoOp /\ at' # "up" /\ UNCHANGED <<db, acked, doubt>>
    BY <1>1, <1>0 DEF Load, OpOK
  <2> QED BY <2>1, <1>0 DEF AckedOK
<1>2. CASE ReconcileKey
  <2>1. PICK k \in Key :
          /\ at' = "boot" /\ op = NoOp /\ op' = op /\ doubt' = doubt
          /\ db[k] # <<>> => db' = db /\ acked' = acked
          /\ db[k] = <<>> => acked'[k] = live[k] /\ Last(db'[k]) = live[k]
          /\ \A j \in Key \ {k} : db'[j] = db[j] /\ acked'[j] = acked[j]
    BY <1>2, <1>0, ReconcileStep
  <2> QED BY <2>1, <1>0 DEF AckedOK
<1>3. CASE Booted
  <2>1. op = NoOp /\ op' = NoOp /\ at = "boot" /\ at' = "up" /\ UNCHANGED <<db, live, acked, doubt>>
    BY <1>3, <1>0 DEF Booted, OpOK, history
  <2>2. Waiting = {}
    BY <1>3 DEF Booted, Waiting
  <2>3. \A k \in Key : db[k] # <<>> /\ live[k] = Last(db[k])
    BY <2>1, <2>2, <1>0 DEF CopiesOK
  <2> QED BY <2>1, <2>3, <1>0 DEF AckedOK
<1>4. CASE Crash
  <2>1. op' = NoOp /\ at' = "down" /\ db' = db /\ acked' = acked
    BY <1>4 DEF Crash
  <2>2. CASE op.done = {}
    <3>1. ~Done("db") /\ doubt' = doubt
      BY <2>2, <1>4 DEF Crash
    <3> QED BY <2>1, <3>1, <1>0 DEF AckedOK
  <2>3. CASE op.done # {}
    <3>1. op # NoOp /\ op.key \in Key
      BY <2>3, <1>0, DoneKnown, NoOpType
    <3>2. doubt' = [doubt EXCEPT ![op.key] = @ \cup {op.val}] /\ doubt \in [Key -> SUBSET AnyValue]
      BY <2>3, <1>4, <1>0 DEF Crash, TypeOK
    <3>3. op.val \in doubt'[op.key] /\ \A j \in Key : doubt[j] \subseteq doubt'[j]
      BY <3>1, <3>2
    <3>4. Done("db") => Last(db[op.key]) = op.val
      BY <1>0 DEF CopiesOK
    <3> QED BY <2>1, <3>1, <3>3, <3>4, <1>0 DEF AckedOK
  <2> QED BY <2>2, <2>3
<1>5. ASSUME NEW c \in Config, HandEdit(c)
      PROVE  AckedOK'
  BY <1>5, <1>0 DEF HandEdit, daemon, AckedOK
<1>6. ASSUME NEW k \in Key, NEW v \in AnyValue, NEW by \in {"other", "form", "toggle"},
             BeginSet(k, v, by)
      PROVE  AckedOK'
  <2>1. at = "up" /\ op = NoOp /\ UNCHANGED <<at, db, live, acked, doubt>>
    BY <1>6, <1>0, SetBegins
  <2> QED BY <2>1, <1>0 DEF AckedOK
<1>7. ASSUME NEW k \in Key, NEW n \in 1..MaxWrites + MaxBoots, Rollback(k, n)
      PROVE  AckedOK'
  <2>1. /\ at = "up" /\ at' = at /\ op = NoOp /\ op' # NoOp /\ op'.key = k /\ op'.done = {"db"}
        /\ UNCHANGED <<live, acked, doubt>> /\ \A j \in Key \ {k} : db'[j] = db[j]
    BY <1>7, <1>0, RollbackBegins
  <2> QED BY <2>1, <1>0 DEF AckedOK
<1>8. CASE Record \/ PatchFile \/ Apply
  <2>1. /\ at = "up" /\ at' = at /\ op # NoOp /\ op' # NoOp /\ op'.key = op.key /\ op.key \in Key
        /\ \A j \in Key \ {op.key} : db'[j] = db[j] /\ live'[j] = live[j]
        /\ UNCHANGED <<acked, doubt>>
    BY <1>8, <1>0, WriteGoesOn
  <2>2. CASE Record \/ PatchFile
    <3>1. "db" \in op'.done /\ live' = live /\ "live" \notin op.done
      BY <2>2, <1>0, WriteGoesOn
    <3> QED BY <2>1, <3>1, <1>0 DEF AckedOK
  <2>3. CASE Apply
    <3>1. "db" \in op'.done /\ "live" \in op'.done
      BY <2>3, <1>0, WriteGoesOn
    <3> QED BY <2>1, <3>1, <1>0 DEF AckedOK
  <2> QED BY <1>8, <2>2, <2>3
<1>9. CASE Finish \/ AuditFails \/ Fail
  <2>1. /\ at = "up" /\ at' = at /\ op # NoOp /\ op' = NoOp /\ op.key \in Key /\ UNCHANGED <<db, live>>
        /\ \A j \in Key \ {op.key} : acked'[j] = acked[j] /\ doubt'[j] = doubt[j]
    BY <1>9, <1>0, WriteEnds
  <2>2. op.val \in {acked'[op.key]} \cup doubt'[op.key]
    BY <1>9, <1>0, WriteEnds
  <2>3. Done("db") => Last(db[op.key]) = op.val
    BY <1>0 DEF CopiesOK
  <2>4. Done("live") => live[op.key] = op.val
    BY <1>0 DEF CopiesOK
  <2>5. CASE Finish
    <3>1. op.done = {"file", "db", "live"}
      BY <2>5, <1>0, WriteEnds
    <3> QED BY <2>1, <2>2, <2>3, <2>4, <3>1, <1>0 DEF AckedOK
  <2>6. CASE ~Finish
    <3>1. acked' = acked /\ doubt[op.key] \subseteq doubt'[op.key]
      BY <2>6, <1>9, <1>0, WriteEnds
    <3> QED BY <2>1, <2>2, <2>3, <2>4, <3>1, <1>0 DEF AckedOK
  <2> QED BY <2>5, <2>6
<1>10. CASE ReadValues \/ ReadGeneration \/ RefreshGeneration \/ RefreshFails \/ UNCHANGED vars
  <2>1. UNCHANGED <<db, at, live, op, acked, doubt>>
    BY <1>10, PageOnly
  <2> QED BY <2>1, <1>0 DEF AckedOK
<1> QED BY Steps, <1>1, <1>2, <1>3, <1>4, <1>5, <1>6, <1>7, <1>8, <1>9, <1>10

(* The next boot finds a file it accepts.                                    *)
LEMMA LinkStep == IInv /\ [Next]_vars => LinkOK'
<1> SUFFICES ASSUME IInv, [Next]_vars, strained' = {} PROVE LinkOK'
  BY DEF LinkOK
<1>0. TypeOK /\ OpOK /\ CopiesOK /\ LinkOK
  BY DEF IInv
<1> USE DEF Linked, Restored, Primary
<1>1. CASE Load
  <2>1. /\ op' = NoOp /\ drift' = FALSE /\ UNCHANGED <<file, db, strained>>
        /\ at' = (IF Linked(file) THEN "boot" ELSE "refused")
    BY <1>1 DEF Load
  <2> QED BY <2>1, <1>0, NoOpType DEF LinkOK
<1>2. CASE ReconcileKey
  <2>1. PICK k \in Key :
          /\ at = "boot" /\ at' = "boot" /\ op' = op /\ drift' = drift /\ strained' = strained
          /\ db'[k] # <<>> /\ live'[k] = Last(db'[k])
          /\ db[k] # <<>> => db' = db
          /\ db[k] = <<>> => live' = live /\ file' = file /\ Last(db'[k]) = live[k]
          /\ (file'[k] = file[k] /\ live'[k] = live[k]) \/ file'[k] = live'[k]
          /\ \A j \in Key \ {k} : file'[j] = file[j] /\ live'[j] = live[j] /\ db'[j] = db[j]
    BY <1>2, <1>0, ReconcileStep
  <2>2. \A j \in Key : file[j] = live[j]
    BY <2>1, <1>0 DEF CopiesOK, LinkOK
  <2>3. file'[k] = Primary(k) /\ Primary(k)' = Primary(k)
    BY <2>1, <2>2
  <2>4. \A j \in Key : Primary(j)' = Primary(j) /\ (j = k \/ file'[j] = file[j])
    BY <2>1, <2>3
  <2>5. Linked(file') /\ \/ file'["ensemble"] = Primary("ensemble")
                         \/ file'["hardware_tier"] = Primary("hardware_tier")
    BY <2>1, <2>3, <2>4, <1>0, Keys DEF LinkOK
  <2> HIDE DEF Primary
  <2>6. Linked(Restored)'
    BY <2>1, <2>4, <1>0, Keys DEF LinkOK
  <2> QED BY <2>1, <2>4, <2>5, <2>6, <1>0, Keys DEF LinkOK
<1>3. CASE Booted
  <2>1. op' = op /\ at = "boot" /\ at' = "up" /\ UNCHANGED <<file, db, live, drift, strained>>
    BY <1>3, <1>0 DEF Booted, history
  <2>2. Waiting = {}
    BY <1>3 DEF Booted, Waiting
  <2>3. \A k \in Key : Primary(k) = live[k]
    BY <2>1, <2>2, <1>0 DEF CopiesOK
  <2> QED BY <2>1, <2>3, <1>0, Keys DEF LinkOK
<1>4. CASE Crash
  <2>1. op' = NoOp /\ at' = "down" /\ UNCHANGED <<file, db, drift, strained>>
    BY <1>4 DEF Crash
  <2> QED BY <2>1, <1>0, NoOpType DEF LinkOK
<1>5. ASSUME NEW c \in Config, HandEdit(c)
      PROVE  LinkOK'
  BY <1>5 DEF HandEdit
<1>6. ASSUME NEW k \in Key, NEW v \in AnyValue, NEW by \in {"other", "form", "toggle"},
             BeginSet(k, v, by)
      PROVE  LinkOK'
  <2>1. /\ at = "up" /\ at' = "up" /\ op = NoOp /\ op'.kind = "set" /\ drift' = drift
        /\ strained' = strained /\ db' = db /\ live' = live
        /\ file' = [file EXCEPT ![k] = v] /\ Linked([live EXCEPT ![k] = v])
    BY <1>6, <1>0, SetBegins
  <2>2. \A j \in Key : db[j] # <<>> /\ file[j] = live[j] /\ live[j] = Last(db[j])
    BY <2>1, <1>0 DEF CopiesOK, OpOK, LinkOK, Settled, Same
  <2>3. file \in [Key -> AnyValue] /\ live \in [Key -> AnyValue]
    BY <1>0 DEF TypeOK, Config, AnyValue
  <2>4. file = live
    BY <2>2, <2>3
  <2>5. Linked(file')
    BY <2>1, <2>4
  <2>6. file'["ensemble"] = file["ensemble"] \/ file'["hardware_tier"] = file["hardware_tier"]
    BY <2>1, <2>3, Keys
  <2>7. \A j \in Key : Primary(j)' = Primary(j) /\ Primary(j) = file[j]
    BY <2>1, <2>2
  <2> HIDE DEF Primary
  <2>8. Linked(Restored)'
    BY <2>1, <2>7, <1>0, Keys DEF LinkOK
  <2> QED BY <2>1, <2>5, <2>6, <2>7, <2>8, <1>0, Keys DEF LinkOK
<1>7. ASSUME NEW k \in Key, NEW n \in 1..MaxWrites + MaxBoots, Rollback(k, n)
      PROVE  LinkOK'
  BY <1>7, <1>0, RollbackBegins
<1>8. CASE Record \/ PatchFile \/ Apply
  <2>1. /\ at = "up" /\ at' = at /\ drift' = drift /\ strained' = strained /\ op # NoOp
        /\ op'.kind = op.kind /\ op.key \in Key
        /\ \A j \in Key \ {op.key} : file'[j] = file[j] /\ db'[j] = db[j] /\ live'[j] = live[j]
    BY <1>8, <1>0, WriteGoesOn
  <2>2. op.kind # "rollback" /\ ~drift /\ \A j \in Key : db[j] # <<>>
    BY <2>1, <1>0 DEF LinkOK, OpOK
  <2>3. \A j \in Key \ {op.key} : file[j] = live[j] /\ live[j] = Last(db[j])
    BY <2>1, <2>2, <1>0 DEF CopiesOK, Settled, Same
  <2>4. CASE Record
    <3>1. /\ op.done = {"file"} /\ Last(db'[op.key]) = op.val /\ db'[op.key] # <<>>
          /\ file' = file /\ live' = live
      BY <2>4, <1>0, WriteGoesOn
    <3>2. file[op.key] = op.val
      BY <2>1, <2>2, <3>1, <1>0 DEF CopiesOK, Done
    <3>3. \A j \in Key : Primary(j)' = file[j]
      BY <2>1, <2>2, <2>3, <3>1, <3>2
    <3> HIDE DEF Primary
    <3>4. Linked(Restored)'
      BY <2>1, <3>3, <1>0, Keys DEF LinkOK
    <3> QED BY <2>1, <2>2, <3>1, <3>3, <3>4, <1>0, Keys DEF LinkOK
  <2>5. CASE PatchFile
    BY <2>5, <2>2, <1>0, WriteGoesOn
  <2>6. CASE Apply
    <3>1. op.done = {"file", "db"} /\ live'[op.key] = op.val /\ db' = db /\ file' = file
      BY <2>6, <1>0, WriteGoesOn
    <3>2. file[op.key] = op.val
      BY <2>1, <2>2, <3>1, <1>0 DEF CopiesOK, Done
    <3>3. \A j \in Key : live'[j] = file[j]
      BY <2>1, <2>3, <3>1, <3>2
    <3>4. Linked(live')
      BY <2>1, <3>3, <1>0, Keys DEF LinkOK
    <3> QED BY <2>1, <2>2, <3>1, <3>4, <1>0 DEF LinkOK
  <2> QED BY <1>8, <2>4, <2>5, <2>6
<1>9. CASE Finish \/ AuditFails \/ Fail
  <2>1. /\ at' = at /\ op' = NoOp /\ UNCHANGED <<file, db, live>>
        /\ drift' = drift /\ strained' = strained
    BY <1>9, <1>0, WriteEnds
  <2> QED BY <2>1, <1>0, NoOpType DEF LinkOK
<1>10. CASE ReadValues \/ ReadGeneration \/ RefreshGeneration \/ RefreshFails \/ UNCHANGED vars
  <2>1. UNCHANGED <<file, db, at, live, op, drift, strained>>
    BY <1>10, PageOnly
  <2> QED BY <2>1, <1>0 DEF LinkOK
<1> QED BY Steps, <1>1, <1>2, <1>3, <1>4, <1>5, <1>6, <1>7, <1>8, <1>9, <1>10

(* What the page shows, when it is read.                                     *)
LEMMA PageRead ==
    ASSUME TypeOK, ReadValues \/ ReadGeneration \/ RefreshGeneration \/ RefreshFails
    PROVE  /\ ReadValues => page'.at = "reading" /\ page'.shown = live /\ at = "up"
           /\ ReadGeneration => /\ page.at = "reading" /\ page'.at = "shown" /\ page'.shown = page.shown
                                /\ page'.gen = generation /\ at = "up" /\ lapses' = lapses
           /\ RefreshGeneration \/ RefreshFails => lapses' # {}
  BY DEF TypeOK, PageState, ReadValues, ReadGeneration, RefreshGeneration, RefreshFails, history

(* The page shows what is in force at its generation.                        *)
LEMMA PageStep == IInv /\ [Next]_vars => PageOK'
<1> SUFFICES ASSUME IInv, [Next]_vars PROVE PageOK'
  OBVIOUS
<1>0. TypeOK /\ OpOK /\ PageOK /\ generation \in Nat
  BY DEF IInv, TypeOK
<1> USE DEF Done
<1>1. CASE Load
  <2>1. "restart" \in lapses'
    BY <1>1 DEF Load
  <2> QED BY <2>1 DEF PageOK
<1>2. CASE ReconcileKey
  <2>1. at = "boot" /\ at' = "boot" /\ lapses' = lapses
    BY <1>2, <1>0, ReconcileStep
  <2> QED BY <2>1, <1>0 DEF PageOK
<1>3. CASE Booted
  <2>1. at = "boot" /\ lapses' = lapses /\ at' = "up"
    BY <1>3 DEF Booted, history
  <2> QED BY <2>1, <1>0 DEF PageOK
<1>4. CASE Crash
  <2>1. at' = "down"
    BY <1>4 DEF Crash
  <2> QED BY <2>1 DEF PageOK
<1>5. ASSUME NEW c \in Config, HandEdit(c)
      PROVE  PageOK'
  BY <1>5, <1>0 DEF HandEdit, daemon, PageOK
<1>6. ASSUME NEW k \in Key, NEW v \in AnyValue, NEW by \in {"other", "form", "toggle"},
             BeginSet(k, v, by)
      PROVE  PageOK'
  <2>1. at = "up" /\ at' = "up" /\ op = NoOp /\ UNCHANGED <<live, lapses, page, generation>>
    BY <1>6, <1>0, SetBegins
  <2> QED BY <2>1, <1>0 DEF PageOK
<1>7. ASSUME NEW k \in Key, NEW n \in 1..MaxWrites + MaxBoots, Rollback(k, n)
      PROVE  PageOK'
  <2>1. at = "up" /\ at' = "up" /\ op = NoOp /\ UNCHANGED <<live, lapses, page, generation>>
    BY <1>7, <1>0, RollbackBegins
  <2> QED BY <2>1, <1>0 DEF PageOK
<1>8. CASE Record \/ PatchFile \/ Apply
  <2>1. /\ at = "up" /\ at' = at /\ op' # NoOp /\ op'.key = op.key
        /\ \A j \in Key \ {op.key} : live'[j] = live[j]
        /\ "live" \notin op.done /\ ("live" \in op'.done \/ live' = live)
        /\ UNCHANGED <<lapses, page, generation>>
    BY <1>8, <1>0, WriteGoesOn
  <2> QED BY <2>1, <1>0 DEF PageOK
<1>9. CASE Finish \/ AuditFails \/ Fail
  <2>1. SUFFICES ASSUME lapses' = {}, at' = "up"
                 PROVE  /\ page'.at # "reading"
                        /\ page'.at = "shown" => page'.gen \in 0..generation' /\ page'.gen # generation'
    <3>1. at' = "up"
      BY <1>9, <1>0, WriteEnds
    <3> QED BY <2>1, <3>1 DEF PageOK
  <2>2. /\ at = "up" /\ lapses = {} /\ page.at # "reading" /\ generation' = generation + 1
        /\ Finish \/ AuditFails
    BY <2>1, <1>9, <1>0, WriteEnds
  <2>3. page.at = "shown" => page.gen \in 0..generation
    BY <2>2, <1>0 DEF PageOK
  <2>4. page' = page \/ page' = [page EXCEPT !.at = "closed"] \/ page' = [page EXCEPT !.at = "refresh"]
    BY <2>2 DEF Finish, AuditFails
  <2>5. page' = page \/ page'.at \in {"closed", "refresh"}
    BY <2>4, <1>0 DEF TypeOK, PageState
  <2> QED BY <2>2, <2>3, <2>5, <1>0
<1>10. CASE ReadValues \/ ReadGeneration \/ RefreshGeneration \/ RefreshFails
  <2>1. UNCHANGED <<at, live, generation, op>>
    BY <1>10, PageOnly
  <2>2. CASE ReadValues
    <3>1. page'.at = "reading" /\ page'.shown = live /\ at = "up"
      BY <2>2, <1>0, PageRead
    <3> QED BY <2>1, <3>1 DEF PageOK
  <2>3. CASE ReadGeneration
    <3>1. /\ page.at = "reading" /\ page'.at = "shown" /\ page'.shown = page.shown
          /\ page'.gen = generation /\ at = "up" /\ lapses' = lapses
      BY <2>3, <1>0, PageRead
    <3> QED BY <2>1, <3>1, <1>0 DEF PageOK
  <2>4. CASE RefreshGeneration \/ RefreshFails
    <3>1. lapses' # {} /\ lapses \subseteq lapses'
      BY <2>4, <1>0, PageRead DEF RefreshGeneration, RefreshFails
    <3> QED BY <2>1, <3>1, <1>0 DEF PageOK
  <2> QED BY <1>10, <2>2, <2>3, <2>4
<1>11. CASE UNCHANGED vars
  BY <1>11, <1>0 DEF vars, daemon, history, PageOK
<1> QED BY Steps, <1>1, <1>2, <1>3, <1>4, <1>5, <1>6, <1>7, <1>8, <1>9, <1>10, <1>11

-----------------------------------------------------------------------------
(* The inductive invariant holds at first.                                   *)
LEMMA InitInv == Init => IInv
<1> SUFFICES ASSUME Init PROVE IInv
  OBVIOUS
<1>1. TypeOK
  BY InitType
<1>2. op = NoOp /\ at = "down" /\ file = Factory /\ db = [k \in Key |-> <<>>] /\ drift = FALSE
  BY DEF Init
<1>3. generation <= writes
  BY DEF Init
<1>4. OpOK
  BY <1>2, <1>3, NoOpType DEF OpOK
<1>5. CopiesOK /\ AckedOK /\ PageOK
  BY <1>2 DEF CopiesOK, AckedOK, PageOK, Done
<1>6. \A k \in Key : Primary(k) = file[k]
  BY <1>2 DEF Primary
<1>7. Linked(file) /\ Linked(Restored)
  BY <1>2, <1>6, Keys DEF Linked, Restored, Factory
<1>8. LinkOK
  BY <1>2, <1>6, <1>7, NoOpType, Keys DEF LinkOK
<1> QED BY <1>1, <1>4, <1>5, <1>8 DEF IInv

(* Every reachable state is one the steps of boots and writes explain.       *)
THEOREM SettingsSound == Spec => []IInv
<1>1. IInv /\ [Next]_vars => IInv'
  <2> SUFFICES ASSUME IInv, [Next]_vars PROVE IInv'
    OBVIOUS
  <2>1. TypeOK'
    BY StepType DEF IInv
  <2> QED BY <2>1, OpStep, CopiesStep, AckedStep, LinkStep, PageStep DEF IInv
<1> QED BY <1>1, InitInv, PTL DEF Spec

(* After a boot, and after every write, config.toml, the store and the live  *)
(* configuration agree (configwrite/service.py, reconcile_boot and set).     *)
THEOREM CopiesAgree == Spec => []Converged
<1>1. IInv => Converged
  BY DEF IInv, CopiesOK, Converged, Settled, Same
<1> QED BY <1>1, SettingsSound, PTL

(* An acknowledged write survives every restart, whatever was interrupted.   *)
THEOREM AckedHolds == Spec => []AckedInForce
<1>1. IInv => AckedInForce
  BY DEF IInv, AckedOK, AckedInForce, Done
<1> QED BY <1>1, SettingsSound, PTL

(* The daemon's own sets, interrupted at any step, leave a file that loads.  *)
THEOREM LinkKept == Spec => []LinkHeld
<1>1. IInv => LinkHeld
  BY DEF IInv, LinkOK, LinkHeld
<1> QED BY <1>1, SettingsSound, PTL

(* A save under If-Match, with no lapse, changes a value its page showed.    *)
THEOREM SavesAreFresh == Spec => FreshSave
<1>1. IInv /\ [Next]_vars => [\A k \in Key : op = NoOp /\ op'.by = "form" /\ op'.key = k /\ lapses = {}
                                             => page.shown[k] = live[k]]_vars
  <2> SUFFICES ASSUME IInv, [Next]_vars, NEW k \in Key,
                      op = NoOp, op'.by = "form", op'.key = k, lapses = {}
               PROVE  page.shown[k] = live[k]
    OBVIOUS
  <2>0. TypeOK /\ OpOK /\ PageOK
    BY DEF IInv
  <2>1. NoOp.by # "form"
    BY DEF NoOp
  <2>2. op' # NoOp /\ op' # op
    BY <2>1
  <2>3. ~(Load \/ ReconcileKey \/ Booted \/ Crash \/ \E c \in Config : HandEdit(c))
    BY <2>2 DEF Load, ReconcileKey, Booted, Crash, HandEdit, daemon
  <2>4. ~(Record \/ PatchFile \/ Apply)
    BY <2>0, WriteGoesOn
  <2>5. ~(Finish \/ AuditFails \/ Fail)
    BY <2>0, WriteEnds
  <2>6. ~(ReadValues \/ ReadGeneration \/ RefreshGeneration \/ RefreshFails \/ UNCHANGED vars)
    BY <2>2, PageOnly
  <2>7. ~ \E j \in Key, n \in 1..MaxWrites + MaxBoots : Rollback(j, n)
    BY <2>0, RollbackBegins
  <2>8. PICK j \in Key, v \in AnyValue, by \in {"other", "form", "toggle"} :
          BeginSet(j, v, by) /\ (by = "form" => page.at = "shown" /\ Matches(page.gen))
    BY Steps, <2>3, <2>4, <2>5, <2>6, <2>7
  <2>9. at = "up" /\ by = "form"
    BY <2>8, <2>0, SetBegins
  <2>10. page.at = "shown" /\ Matches(page.gen)
    BY <2>8, <2>9
  <2>11. page.gen \in 0..generation /\ generation \in Nat
    BY <2>9, <2>10, <2>0 DEF PageOK, TypeOK
  <2>12. page.gen = generation
    BY <2>10, <2>11 DEF Matches, NoGeneration
  <2> QED BY <2>9, <2>10, <2>12, <2>0 DEF PageOK, Done
<1> QED BY <1>1, SettingsSound, PTL DEF Spec, FreshSave

-----------------------------------------------------------------------------
(* The detailed settings implement SettingsRegister.                         *)

(* What a boot finds is a configuration.                                     *)
LEMMA RestoredConfig ==
    ASSUME NEW f \in Config, NEW d, \A k \in Key : d[k] \in Seq(Value(k))
    PROVE  [k \in Key |-> IF d[k] = <<>> THEN f[k] ELSE Last(d[k])] \in Config
<1>1. ASSUME NEW k \in Key
      PROVE  (IF d[k] = <<>> THEN f[k] ELSE Last(d[k])) \in Value(k)
  BY LastIn, ConfigValue
<1> QED BY <1>1, AnyValues DEF Config, AnyValue

(* Each value of a key is one the file may hold.                             *)
LEMMA Possible ==
    ASSUME NEW k \in Key, NEW v \in Value(k)
    PROVE  v \in Register!ValueOf(k)
<1>1. [Factory EXCEPT ![k] = v] \in Config
  BY FactoryConfig, Patched
<1>2. [Factory EXCEPT ![k] = v][k] = v
  BY FactoryConfig DEF Config
<1> QED BY <1>1, <1>2 DEF Register!ValueOf

(* A step that leaves writes, imports and imported values as they were       *)
(* changes at most what the file decides.                                    *)
LEMMA FileSteps ==
    ASSUME TypeOK, TypeOK', UNCHANGED <<UnderWay, acked, Imported>>,
           \A k \in Imported : Primary(k)' = Primary(k)
    PROVE  Register!Edit
<1>1. Restored' \in Config
  BY RestoredConfig DEF TypeOK, Restored, Primary
<1>2. \A k \in Key \ (Key \ Imported) : Restored'[k] = Restored[k]
  BY DEF Restored, Imported
<1> QED BY <1>1, <1>2 DEF Register!Edit, Register!ChangesOnly
(* The state a write is in, as the register sees it.                         *)
LEMMA UnderWayIs ==
    /\ op = NoOp => UnderWay = {}
    /\ op # NoOp /\ "db" \in op.done => UnderWay = {Register!Write(op.key, op.val, TRUE)}
    /\ op # NoOp /\ "db" \notin op.done => UnderWay = {Register!Write(op.key, op.val, FALSE)}
    /\ op' = NoOp => UnderWay' = {}
    /\ op' # NoOp /\ "db" \in op'.done => UnderWay' = {Register!Write(op'.key, op'.val, TRUE)}
    /\ op' # NoOp /\ "db" \notin op'.done => UnderWay' = {Register!Write(op'.key, op'.val, FALSE)}
<1>1. ("db" \in op.done) \in BOOLEAN /\ ("db" \in op'.done) \in BOOLEAN
  OBVIOUS
<1> QED BY <1>1 DEF UnderWay, Register!Write

(* A restart finds the newest version of each imported key.                  *)
LEMMA RestoredIs ==
    /\ \A k \in Key : Restored[k] = Primary(k) /\ Restored'[k] = Primary(k)'
    /\ Restored = [k \in Key |-> Restored[k]] /\ Restored' = [k \in Key |-> Restored'[k]]
    /\ \A k \in Imported : db[k] # <<>> /\ Primary(k) = Last(db[k])
    /\ \A k \in Key : db'[k] # <<>> => k \in Imported' /\ Primary(k)' = Last(db'[k])
  BY DEF Restored, Primary, Imported

(* A version appended to one key: the value a restart finds of that key.     *)
LEMMA OneAppended ==
    ASSUME NEW k \in Key, NEW v, Imported = Key, db'[k] # <<>>, Last(db'[k]) = v,
           \A j \in Key \ {k} : db'[j] = db[j]
    PROVE  Imported' = Imported /\ Restored' = [Restored EXCEPT ![k] = v]
<1>1. Imported' = Imported
  BY DEF Imported
<1>2. \A j \in Key : Restored'[j] = IF j = k THEN v ELSE Restored[j]
  BY <1>1, RestoredIs DEF Imported, Primary
<1> QED BY <1>1, <1>2, RestoredIs

(* Once every key is imported only its versions tell what a restart finds.   *)
LEMMA SameStore ==
    ASSUME Imported = Key, db' = db
    PROVE  UNCHANGED <<Imported, Restored>>
  BY DEF Imported, Restored, Primary

(* Each step of the settings is one of the register's, or none.              *)
LEMMA RegisterStep ==
    ASSUME IInv, IInv', [Next]_vars
    PROVE  [Register!Next]_(Register!register)
<1>0. TypeOK /\ OpOK /\ TypeOK'
  BY DEF IInv
<1>1. at = "up" => Imported = Key
  BY <1>0 DEF OpOK, Imported
<1>2. ASSUME Register!Edit
      PROVE  [Register!Next]_(Register!register)
  BY <1>2 DEF Register!Next
<1>3. CASE Load
  <2>1. op = NoOp /\ op' = NoOp /\ UNCHANGED <<db, file, acked>>
    BY <1>3, <1>0 DEF Load, OpOK
  <2>2. UNCHANGED <<Imported, UnderWay>> /\ \A k \in Key : Primary(k)' = Primary(k)
    BY <2>1 DEF Imported, UnderWay, Primary
  <2>3. Register!Edit
    BY <2>1, <2>2, <1>0, FileSteps DEF Imported
  <2> QED BY <2>3, <1>2
<1>4. CASE ReconcileKey
  <2>1. PICK k \in Key :
          /\ op = NoOp /\ op' = op /\ db'[k] # <<>>
          /\ db[k] # <<>> => db' = db /\ acked' = acked
          /\ db[k] = <<>> => live' = live /\ file' = file /\ acked'[k] = live[k] /\ Last(db'[k]) = live[k]
          /\ \A j \in Key \ {k} : /\ file'[j] = file[j] /\ db'[j] = db[j] /\ acked'[j] = acked[j]
    BY <1>4, <1>0, ReconcileStep
  <2>2. CASE db[k] # <<>>
    <3>1. db' = db /\ acked' = acked /\ UnderWay' = UnderWay /\ Imported' = Imported
      BY <2>1, <2>2 DEF UnderWay, Imported
    <3>2. \A j \in Imported : Primary(j)' = Primary(j)
      BY <3>1 DEF Primary, Imported
    <3>3. Register!Edit
      BY <3>1, <3>2, <1>0, FileSteps
    <3> QED BY <3>3, <1>2
  <2>3. CASE db[k] = <<>>
    <3>1. k \notin Imported /\ Imported' = Imported \cup {k} /\ UnderWay = {} /\ UnderWay' = {}
      BY <2>1, <2>3, UnderWayIs DEF Imported
    <3>2. Restored' \in Config /\ \A j \in Key \ {k} : Restored'[j] = Restored[j]
      <4>1. Restored' \in Config
        BY <1>0, RestoredConfig DEF TypeOK, Restored, Primary
      <4> QED BY <4>1, <2>1, <2>3 DEF Restored, Primary
    <3>3. Restored'[k] = acked'[k]
      BY <2>1, <2>3, RestoredIs
    <3>4. acked' = [acked EXCEPT ![k] = Restored'[k]]
      BY <2>1, <3>3, <1>0 DEF TypeOK
    <3>5. Register!Adopt(k)
      BY <3>1, <3>2, <3>4 DEF Register!Adopt, Register!ChangesOnly
    <3> QED BY <3>5 DEF Register!Next
  <2> QED BY <2>2, <2>3
<1>5. CASE Booted \/ \E c \in Config : HandEdit(c)
  <2>1. UNCHANGED <<db, op, acked>>
    BY <1>5 DEF Booted, HandEdit, daemon, history
  <2>2. UNCHANGED <<Imported, UnderWay>> /\ \A k \in Imported : Primary(k)' = Primary(k)
    BY <2>1 DEF Imported, UnderWay, Primary
  <2>3. Register!Edit
    BY <2>1, <2>2, <1>0, FileSteps
  <2> QED BY <2>3, <1>2
<1>6. CASE Crash
  <2>1. op' = NoOp /\ UNCHANGED <<db, file, acked>>
    BY <1>6 DEF Crash
  <2>2. UNCHANGED <<Imported, Restored>> /\ UnderWay' = {}
    BY <2>1, UnderWayIs DEF Imported, Restored, Primary
  <2>3. CASE UnderWay = {}
    BY <2>1, <2>2, <2>3 DEF Register!register
  <2>4. CASE UnderWay # {}
    BY <2>1, <2>2, <2>4 DEF Register!Next, Register!Abandon
  <2> QED BY <2>3, <2>4
<1>7. ASSUME NEW k \in Key, NEW v \in AnyValue, NEW by \in {"other", "form", "toggle"},
             BeginSet(k, v, by)
      PROVE  [Register!Next]_(Register!register)
  <2>1. /\ at = "up" /\ op = NoOp /\ op' # NoOp /\ op'.key = k /\ op'.val = v
        /\ op'.done = {"file"} /\ v \in Value(k) /\ UNCHANGED <<db, acked>>
    BY <1>7, <1>0, SetBegins
  <2>2. UNCHANGED <<Imported, Restored>> /\ Imported = Key
    BY <2>1, <1>1, SameStore
  <2>3. UnderWay = {} /\ UnderWay' = {Register!Write(k, v, FALSE)}
    BY <2>1, UnderWayIs
  <2>4. Register!Ask(k, v) /\ v \in Register!ValueOf(k)
    BY <2>1, <2>2, <2>3, Possible DEF Register!Ask
  <2> QED BY <2>2, <2>3, <2>4 DEF Register!Next, Register!Begin
<1>8. ASSUME NEW k \in Key, NEW n \in 1..MaxWrites + MaxBoots, Rollback(k, n)
      PROVE  [Register!Next]_(Register!register)
  <2>1. /\ at = "up" /\ op = NoOp /\ op' # NoOp /\ op'.key = k /\ op'.done = {"db"}
        /\ db'[k] # <<>> /\ Last(db'[k]) = op'.val /\ acked' = acked
        /\ \A j \in Key \ {k} : db'[j] = db[j]
    BY <1>8, <1>0, RollbackBegins
  <2> DEFINE v == op'.val
  <2>2. v \in Value(k)
    BY <2>1, <1>0 DEF TypeOK
  <2>3. Imported = Key /\ Imported' = Imported /\ Restored' = [Restored EXCEPT ![k] = v]
    BY <2>1, <1>1, OneAppended
  <2>4. UnderWay = {} /\ UnderWay' = {Register!Write(k, v, TRUE)}
    BY <2>1, UnderWayIs
  <2>5. Register!Put(k, v) /\ v \in Register!ValueOf(k)
    BY <2>1, <2>2, <2>3, <2>4, Possible DEF Register!Put
  <2> QED BY <2>3, <2>4, <2>5 DEF Register!Next, Register!Begin
<1>9. CASE Record
  <2>1. /\ at = "up" /\ op # NoOp /\ op' # NoOp /\ op'.key = op.key /\ op'.val = op.val
        /\ op.key \in Key /\ op'.done = {"file", "db"} /\ op.done = {"file"}
        /\ Last(db'[op.key]) = op.val /\ db'[op.key] # <<>>
        /\ \A j \in Key \ {op.key} : db'[j] = db[j]
        /\ acked' = acked
    BY <1>9, <1>0, WriteGoesOn
  <2>2. Imported' = Imported /\ Restored' = [Restored EXCEPT ![op.key] = op.val]
    BY <2>1, <1>1, OneAppended
  <2>3. /\ UnderWay = {Register!Write(op.key, op.val, FALSE)}
        /\ UnderWay' = {Register!Write(op.key, op.val, TRUE)}
    BY <2>1, UnderWayIs
  <2>4. Register!Keep
    BY <2>1, <2>2, <2>3 DEF Register!Keep, Register!Write
  <2> QED BY <2>4 DEF Register!Next
<1>10. CASE PatchFile \/ Apply
  <2>1. /\ at = "up" /\ op # NoOp /\ op' # NoOp /\ op'.key = op.key /\ op'.val = op.val
        /\ "db" \in op.done /\ "db" \in op'.done /\ UNCHANGED <<db, acked>>
    BY <1>10, <1>0, WriteGoesOn
  <2>2. UNCHANGED <<Imported, Restored, UnderWay>>
    BY <2>1, <1>1, SameStore, UnderWayIs
  <2> QED BY <2>1, <2>2 DEF Register!register
<1>11. CASE Finish \/ AuditFails \/ Fail
  <2>1. /\ at = "up" /\ op # NoOp /\ op' = NoOp /\ op.key \in Key /\ db' = db
        /\ Finish => acked' = [acked EXCEPT ![op.key] = op.val] /\ op.done = {"file", "db", "live"}
        /\ ~Finish => acked' = acked
    BY <1>11, <1>0, WriteEnds DEF Finish
  <2>2. UNCHANGED <<Imported, Restored>>
    BY <2>1, <1>1, SameStore
  <2>3. UnderWay # {} /\ UnderWay' = {} /\ (Finish => UnderWay = {Register!Write(op.key, op.val, TRUE)})
    BY <2>1, UnderWayIs
  <2>4. CASE Finish
    <3>1. Register!Acknowledge
      BY <2>1, <2>2, <2>3, <2>4 DEF Register!Acknowledge, Register!Write
    <3> QED BY <3>1 DEF Register!Next
  <2>5. CASE ~Finish
    <3>1. Register!Abandon
      BY <2>1, <2>2, <2>3, <2>5 DEF Register!Abandon
    <3> QED BY <3>1 DEF Register!Next
  <2> QED BY <2>4, <2>5
<1>12. CASE ReadValues \/ ReadGeneration \/ RefreshGeneration \/ RefreshFails \/ UNCHANGED vars
  <2>1. UNCHANGED <<file, db, op, acked>>
    BY <1>12, PageOnly
  <2> QED BY <2>1 DEF Register!register, Restored, Primary, Imported, UnderWay
<1> QED BY Steps, <1>3, <1>4, <1>5, <1>6, <1>7, <1>8, <1>9, <1>10, <1>11, <1>12

(* File, store and live configuration are one durable register per key       *)
(* (SettingsRegister): a write takes effect at its version, in one step and  *)
(* at most once, is acknowledged only after that, and no edit of config.toml *)
(* changes a key a boot has imported (service.py, reconcile_boot and set).   *)
THEOREM RegisterKept == Spec => KeepsRegister
<1>1. Init => Register!Init
  <2> SUFFICES ASSUME Init PROVE Register!Init
    OBVIOUS
  <2>1. Restored = Factory
    <3>1. \A k \in Key : Primary(k) = Factory[k]
      BY DEF Init, Primary
    <3> QED BY <3>1, Keys DEF Restored, Factory
  <2>2. acked = Factory /\ Imported = {} /\ UnderWay = {}
    BY DEF Init, Imported, UnderWay
  <2> QED BY <2>1, <2>2, FactoryConfig DEF Register!Init
<1>2. IInv /\ IInv' /\ [Next]_vars => [Register!Next]_(Register!register)
  BY RegisterStep
<1> QED BY <1>1, <1>2, SettingsSound, PTL DEF Spec, KeepsRegister, Register!Spec
==============================================================================
