----------------------------- MODULE ConfigWrite -----------------------------
(* The settings: the daemon's one writer (configwrite/service.py), which     *)
(* keeps config.toml, the versioned store and the live configuration in step *)
(* under its lock, the boot that reconciles them, and a console page         *)
(* (console/static/app.js) that writes under If-Match.                       *)
(*                                                                           *)
(* Three of the registry's keys stand for it: the linked pair and one that   *)
(* is free.  The read surfaces take no lock.  A failure is an exception of   *)
(* the file system or of the store, after which the daemon goes on.          *)
EXTENDS Integers, Sequences, SequencesExt

CONSTANTS
    MaxWrites,      \* writes accepted over the whole behaviour
    MaxBoots,
    MaxEdits,       \* times the user rewrites config.toml
    MaxFailures,    \* exceptions in the middle of a write
    Rollbacks       \* versions are restored

ASSUME ConfigAssumption ==
    /\ MaxWrites \in Nat /\ MaxBoots \in Nat /\ MaxEdits \in Nat /\ MaxFailures \in Nat
    /\ Rollbacks \in BOOLEAN

Slots == <<"auto_trigger", "ensemble", "hardware_tier">>    \* _SLOT_KEYS, in order
Key == {Slots[i] : i \in DOMAIN Slots}
Value(k) == CASE k = "auto_trigger" -> {"false", "true"}
              [] k = "ensemble" -> {"off", "verify"}
              [] k = "hardware_tier" -> {"standard", "lite"}
Config == {c \in [Key -> UNION {Value(k) : k \in Key}] : \A k \in Key : c[k] \in Value(k)}
Factory == [auto_trigger |-> "false", ensemble |-> "off", hardware_tier |-> "standard"]

\* What _validate at load and the cross-validation of the two keys refuse.
Linked(c) == c["hardware_tier"] = "lite" => c["ensemble"] = "off"

VARIABLES
    file,           \* config.toml
    db,             \* the versions of each key
    \* the daemon
    at,             \* "down", "boot", "up", or "refused": the load raised
    live, generation,
    left,           \* slots reconcile_boot has not looked at
    op,             \* the write that holds the lock
    \* the console page
    page,
    \* history
    acked,          \* per key, the value of its last acknowledged write
    doubt,          \* per key, values an unacknowledged write may have left since
    drift,          \* config.toml may differ from the store since this boot's load
    strained,       \* reasons for which the link between two keys may be broken
    lapses,         \* reasons for which the page's values may be older than its generation
    writes, boots, edits, failures

daemon == <<at, live, generation, left, op>>
counters == <<writes, boots, edits, failures>>
history == <<acked, doubt, drift, strained, lapses>>
vars == <<file, db, daemon, page, history, counters>>

NoOp == [kind |-> "none", key |-> "auto_trigger", val |-> "false", by |-> "none", done |-> {}]
NoPage == [at |-> "closed", shown |-> Factory, gen |-> 0]

NoGeneration == 0 - 1       \* null: the page writes without If-Match

Strain == {"rollback", "failure", "edit"}
Lapse == {"restart", "refresh", "overlap", "failure"}
AnyValue == UNION {Value(k) : k \in Key}

OpState == [kind: {"none", "set", "rollback"}, key: Key, val: AnyValue,
            by: {"none", "other", "form", "toggle"}, done: SUBSET {"file", "db", "live"}]
PageState == [at: {"closed", "reading", "shown", "refresh"}, shown: Config,
              gen: 0..MaxWrites \cup {NoGeneration}]

TypeOK ==
    /\ file \in Config
    /\ db \in [Key -> Seq(AnyValue)] /\ \A k \in Key : db[k] \in Seq(Value(k))
    /\ at \in {"down", "boot", "up", "refused"}
    /\ live \in Config /\ generation \in 0..MaxWrites /\ left \in Seq(Key)
    /\ op \in OpState /\ op.val \in Value(op.key) /\ page \in PageState
    /\ acked \in [Key -> AnyValue] /\ doubt \in [Key -> SUBSET AnyValue]
    /\ drift \in BOOLEAN /\ strained \subseteq Strain /\ lapses \subseteq Lapse
    /\ writes \in 0..MaxWrites /\ boots \in 0..MaxBoots
    /\ edits \in 0..MaxEdits /\ failures \in 0..MaxFailures

Init ==
    /\ file = Factory /\ db = [k \in Key |-> <<>>]
    /\ at = "down" /\ live = Factory /\ generation = 0 /\ left = <<>> /\ op = NoOp
    /\ page = NoPage
    /\ acked = Factory /\ doubt = [k \in Key |-> {}]
    /\ drift = FALSE /\ strained = {} /\ lapses = {}
    /\ writes = 0 /\ boots = 0 /\ edits = 0 /\ failures = 0

-----------------------------------------------------------------------------
(* Boot.                                                                     *)

(* load_config: the file, or its defaults, is the live configuration; one    *)
(* that breaks the link is refused, and the daemon does not come up.         *)
Load ==
    /\ at \in {"down", "refused"} /\ boots < MaxBoots
    /\ boots' = boots + 1
    /\ IF Linked(file)
       THEN at' = "boot" /\ live' = file /\ left' = Slots
       ELSE at' = "refused" /\ UNCHANGED <<live, left>>
    /\ generation' = 0 /\ op' = NoOp
    /\ drift' = FALSE /\ lapses' = lapses \cup {"restart"}
    /\ UNCHANGED <<file, db, page, acked, doubt, strained, writes, edits, failures>>

(* Mutants of Reconciled: the file wins when both have a value; the mirror   *)
(* is left as it is.                                                         *)
FileWins(k) ==
    /\ db' = [db EXCEPT ![k] = Append(@, live[k])]
    /\ UNCHANGED <<live, file>>

StoreWinsLive(k) ==
    IF db[k] = <<>>
    THEN db' = [db EXCEPT ![k] = <<live[k]>>] /\ UNCHANGED <<live, file>>
    ELSE live' = [live EXCEPT ![k] = Last(db[k])] /\ UNCHANGED <<db, file>>

(* reconcile_boot for one key: a key the store does not have is imported,    *)
(* otherwise the store wins and the file is its mirror.                      *)
Reconciled(k) ==
    IF db[k] = <<>>
    THEN db' = [db EXCEPT ![k] = <<live[k]>>] /\ UNCHANGED <<live, file>>
    ELSE /\ live' = [live EXCEPT ![k] = Last(db[k])]
         /\ file' = IF live[k] = Last(db[k]) THEN file ELSE [file EXCEPT ![k] = Last(db[k])]
         /\ UNCHANGED db

ReconcileKey ==
    /\ at = "boot" /\ left # <<>>
    /\ LET k == Head(left) IN
        /\ Reconciled(k)
        /\ acked' = IF db[k] = <<>> THEN [acked EXCEPT ![k] = live[k]] ELSE acked
    /\ left' = Tail(left)
    /\ UNCHANGED <<at, generation, op, page, doubt, drift, strained, lapses, counters>>

Booted ==
    /\ at = "boot" /\ left = <<>>
    /\ at' = "up"
    /\ UNCHANGED <<file, db, live, generation, left, op, page, history, counters>>

(* The process ends between any two steps.                                   *)
Crash ==
    /\ at \in {"boot", "up"}
    /\ at' = "down" /\ left' = <<>> /\ op' = NoOp
    /\ doubt' = IF op.done = {} THEN doubt ELSE [doubt EXCEPT ![op.key] = @ \cup {op.val}]
    /\ UNCHANGED <<file, db, live, generation, page, acked, drift, strained, lapses, counters>>

(* The user leaves a file the daemon would load.                             *)
HandEdit(c) ==
    /\ edits < MaxEdits /\ c # file /\ Linked(c)
    /\ file' = c /\ edits' = edits + 1
    /\ drift' = TRUE /\ strained' = strained \cup {"edit"}
    /\ UNCHANGED <<db, daemon, page, acked, doubt, lapses, writes, boots, failures>>

-----------------------------------------------------------------------------
(* ConfigWriteService.set and rollback, under the lock.                      *)
Free == at = "up" /\ op = NoOp /\ writes < MaxWrites

(* Mutant of Admits: only the write of the ensemble is checked.              *)
AdmitsEnsemble(k, v) == k = "ensemble" => Linked([live EXCEPT ![k] = v])

Admits(k, v) == Linked([live EXCEPT ![k] = v])

Begin(kind, k, v, by, done) ==
    /\ op' = [kind |-> kind, key |-> k, val |-> v, by |-> by, done |-> done]
    /\ writes' = writes + 1
    /\ UNCHANGED <<at, live, generation, left, acked, doubt, drift, lapses, boots, edits, failures>>

(* set: validated against the live configuration, then the file is patched.  *)
BeginSet(k, v, by) ==
    /\ Free /\ v \in Value(k) /\ Admits(k, v)
    /\ file' = [file EXCEPT ![k] = v]
    /\ Begin("set", k, v, by, {"file"})
    /\ UNCHANGED <<db, page, strained>>

Set(k, v) == BeginSet(k, v, "other")        \* no If-Match

(* rollback: the store appends the old version; nothing is validated.        *)
Rollback(k, n) ==
    /\ Free /\ Rollbacks /\ n \in DOMAIN db[k]
    /\ db' = [db EXCEPT ![k] = Append(@, db[k][n])]
    /\ Begin("rollback", k, db[k][n], "other", {"db"})
    /\ strained' = strained \cup {"rollback"}
    /\ UNCHANGED <<file, page>>

Record ==
    /\ op.kind = "set" /\ op.done = {"file"}
    /\ db' = [db EXCEPT ![op.key] = Append(@, op.val)]
    /\ op' = [op EXCEPT !.done = @ \cup {"db"}]
    /\ UNCHANGED <<file, at, live, generation, left, page, history, counters>>

PatchFile ==
    /\ op.kind = "rollback" /\ op.done = {"db"}
    /\ file' = [file EXCEPT ![op.key] = op.val]
    /\ op' = [op EXCEPT !.done = @ \cup {"file"}]
    /\ UNCHANGED <<db, at, live, generation, left, page, history, counters>>

Apply ==
    /\ op.done = {"file", "db"}
    /\ live' = [live EXCEPT ![op.key] = op.val]
    /\ op' = [op EXCEPT !.done = @ \cup {"live"}]
    /\ UNCHANGED <<file, db, at, generation, left, page, history, counters>>

Bumped == generation + 1

(* The generation moves and the writer is told.  The page then reloads, or   *)
(* fetches the new generation alone when the write came from a toggle.       *)
Finish ==
    /\ op.done = {"file", "db", "live"}
    /\ generation' = Bumped
    /\ op' = NoOp
    /\ acked' = [acked EXCEPT ![op.key] = op.val]
    /\ doubt' = [doubt EXCEPT ![op.key] = {}]
    /\ page' = CASE op.by = "form" -> [page EXCEPT !.at = "closed"]
                 [] op.by = "toggle" -> [page EXCEPT !.at = "refresh"]
                 [] OTHER -> page
    /\ lapses' = lapses \cup (IF page.at = "reading" THEN {"overlap"} ELSE {})
    /\ UNCHANGED <<file, db, at, live, left, drift, strained, counters>>

(* The audit raises: everything is done, and the writer is told of an error. *)
AuditFails ==
    /\ op.done = {"file", "db", "live"} /\ failures < MaxFailures
    /\ failures' = failures + 1
    /\ generation' = Bumped
    /\ op' = NoOp
    /\ doubt' = [doubt EXCEPT ![op.key] = @ \cup {op.val}]
    /\ lapses' = lapses \cup (IF page.at = "reading" THEN {"overlap"} ELSE {})
    /\ UNCHANGED <<file, db, at, live, left, page, acked, drift, strained, writes, boots, edits>>

(* The next call of the write raises.                                        *)
Fail ==
    /\ op.done # {} /\ op.done # {"file", "db"} /\ failures < MaxFailures
    /\ failures' = failures + 1
    /\ op' = NoOp
    /\ doubt' = [doubt EXCEPT ![op.key] = @ \cup {op.val}]
    /\ drift' = TRUE /\ strained' = strained \cup {"failure"}
    /\ lapses' = lapses \cup {"failure"}
    /\ UNCHANGED <<file, db, at, live, generation, left, page, acked, writes, boots, edits>>

-----------------------------------------------------------------------------
(* The console page.                                                         *)

(* loadConfigPage: the answer's values are read before its generation.       *)
ReadValues ==
    /\ at = "up" /\ page.at \in {"closed", "shown"}
    /\ page' = [page EXCEPT !.at = "reading", !.shown = live]
    /\ lapses' = {}
    /\ UNCHANGED <<file, db, daemon, acked, doubt, drift, strained, counters>>

ReadGeneration ==
    /\ at = "up" /\ page.at = "reading"
    /\ page' = [page EXCEPT !.at = "shown", !.gen = generation]
    /\ UNCHANGED <<file, db, daemon, history, counters>>

(* refreshConfigGeneration, after the toggle's own write.                    *)
RefreshGeneration ==
    /\ at = "up" /\ page.at = "refresh"
    /\ page' = [page EXCEPT !.at = "shown", !.gen = generation]
    /\ lapses' = lapses \cup {"refresh"}
    /\ UNCHANGED <<file, db, daemon, acked, doubt, drift, strained, counters>>

(* The fetch fails, and the page goes on without a generation.               *)
RefreshFails ==
    /\ page.at = "refresh"
    /\ page' = [page EXCEPT !.at = "shown", !.gen = NoGeneration]
    /\ lapses' = lapses \cup {"refresh"}
    /\ UNCHANGED <<file, db, daemon, acked, doubt, drift, strained, counters>>

(* Mutant of Matches: any generation of this process is good enough.         *)
MatchesOlder(gen) == gen <= generation

Matches(gen) == gen \in {generation, NoGeneration}

Save(k, v) == page.at = "shown" /\ Matches(page.gen) /\ BeginSet(k, v, "form")

Toggle ==
    /\ page.at = "shown" /\ Matches(page.gen)
    /\ \E v \in Value("auto_trigger") : BeginSet("auto_trigger", v, "toggle")

Next ==
    \/ Load \/ ReconcileKey \/ Booted \/ Crash
    \/ \E c \in Config : HandEdit(c)
    \/ \E k \in Key : \/ \E v \in Value(k) : Set(k, v) \/ Save(k, v)
                      \/ \E n \in 1..MaxWrites + MaxBoots : Rollback(k, n)
    \/ Record \/ PatchFile \/ Apply \/ Finish \/ AuditFails \/ Fail
    \/ ReadValues \/ ReadGeneration \/ RefreshGeneration \/ RefreshFails \/ Toggle

Spec == Init /\ [][Next]_vars

-----------------------------------------------------------------------------
(* After a boot the three copies agree, whatever crash, failure or hand edit *)
(* came before it, and each write keeps them together.                       *)
Converged ==
    at = "up" /\ op = NoOp /\ ~drift => \A k \in Key : file[k] = live[k] /\ live[k] = Last(db[k])

(* A write that was acknowledged is in force after every later boot, until   *)
(* a later write of that key: the store is primary, the file is a mirror.    *)
AckedInForce ==
    at = "up" /\ op = NoOp => \A k \in Key : live[k] \in {acked[k]} \cup doubt[k]

(* "the linkage holds in BOTH directions", and so no boot is refused: while  *)
(* nothing but writes and crashes happens.                                   *)
LinkHeld == strained = {} => at # "refused" /\ (at = "up" => Linked(live))

(* A write under If-Match does not undo one its page never showed.           *)
FreshSave ==
    [][\A k \in Key : op = NoOp /\ op'.by = "form" /\ op'.key = k /\ lapses = {}
                      => page.shown[k] = live[k]]_vars

(* What the next boot makes of the file and the versions.                    *)
Primary(k) == IF db[k] = <<>> THEN file[k] ELSE Last(db[k])
Restored == [k \in Key |-> Primary(k)]

(* What the copies say of the keys as registers: those a boot has imported,  *)
(* and the write under way, which has taken effect once it has its version.  *)
Imported == {k \in Key : db[k] # <<>>}
UnderWay == IF op = NoOp THEN {}
            ELSE {[key |-> op.key, val |-> op.val, kept |-> "db" \in op.done]}

Register == INSTANCE SettingsRegister WITH
    Setting <- Config, value <- Restored, adopted <- Imported,
    writing <- UnderWay, told <- acked

(* The three copies are one durable register per key (SettingsRegister): a   *)
(* write takes effect at its version, once, and an edit of config.toml never *)
(* changes what a boot has imported.                                         *)
KeepsRegister == Register!Spec

(* What the cross-validation of the two keys is for: "the linkage holds in   *)
(* BOTH directions" (configwrite/service.py, _cross_validate_lite_ensemble), *)
(* so the daemon's own writes never leave a file load_config refuses.        *)
NeverRefused == at # "refused"

-----------------------------------------------------------------------------
(* Why they hold, for a write or a boot that may end between any two of its  *)
(* steps.                                                                    *)
Waiting == {left[i] : i \in DOMAIN left}
Settled(k) == op.key # k \/ op = NoOp
Done(x) == op # NoOp /\ x \in op.done
Same(k) == file[k] = live[k] /\ live[k] = Last(db[k])

(* A write goes through its steps while the daemon is up.                    *)
OpOK ==
    /\ op # NoOp => at = "up" /\ op.kind # "none"
    /\ op.kind = "set" => op.done \in {{"file"}, {"file", "db"}, {"file", "db", "live"}}
    /\ op.kind = "rollback" => op.done \in {{"db"}, {"file", "db"}, {"file", "db", "live"}}
    /\ at = "up" => left = <<>> /\ \A k \in Key : db[k] # <<>>
    /\ generation <= writes /\ (op # NoOp => generation < writes)

(* What it has done so far is done.                                          *)
CopiesOK ==
    /\ at = "boot" => \A k \in Key \ Waiting : db[k] # <<>> /\ live[k] = Last(db[k])
    /\ at = "boot" /\ ~drift => \A k \in Key : file[k] = live[k]
    /\ at = "up" /\ ~drift => \A k \in Key : Settled(k) => Same(k)
    /\ Done("file") /\ ~drift => file[op.key] = op.val
    /\ Done("db") => Last(db[op.key]) = op.val
    /\ Done("live") => live[op.key] = op.val
    /\ op # NoOp /\ ~drift /\ ~Done("file") => file[op.key] = live[op.key]
    /\ op # NoOp /\ ~drift /\ ~Done("db") => Last(db[op.key]) = live[op.key]

(* The newest version of a key is acknowledged, or in doubt, or under way.   *)
AckedOK ==
    \A k \in Key :
        /\ db[k] # <<>> => \/ Last(db[k]) \in {acked[k]} \cup doubt[k]
                          \/ (Done("db") /\ op.key = k)
        /\ at = "up" => \/ live[k] \in {acked[k]} \cup doubt[k]
                       \/ (Done("live") /\ op.key = k)

(* Without edits, failures and rollbacks the file is that, or one key away.  *)
LinkOK ==
    strained = {} =>
        /\ ~drift /\ at # "refused" /\ op.kind # "rollback"
        /\ Linked(file) /\ Linked(Restored)
        /\ at = "up" => Linked(live)
        /\ \/ file["ensemble"] = Primary("ensemble")
           \/ file["hardware_tier"] = Primary("hardware_tier")

(* While nothing has lapsed, a page whose generation is the current one      *)
(* shows what is in force, but for the write that is about to move it.       *)
PageOK ==
    /\ at = "boot" => "restart" \in lapses
    /\ lapses = {} /\ at = "up" =>
        /\ page.at = "reading" => \A k \in Key : page.shown[k] = live[k] \/ (Done("live") /\ op.key = k)
        /\ page.at = "shown" =>
            /\ page.gen \in 0..generation
            /\ page.gen = generation =>
                \A k \in Key : page.shown[k] = live[k] \/ (Done("live") /\ op.key = k)

IInv == TypeOK /\ OpOK /\ CopiesOK /\ AckedOK /\ LinkOK /\ PageOK
=============================================================================
