--------------------------- MODULE HookWatermarks ----------------------------
(* The watermark files of the opencode hook plugin                           *)
(* (hosts/opencode/plugin.ts): every OpenCode process keeps, per session, the *)
(* time of the newest turn the daemon acknowledged, writes its marks to a     *)
(* shard of its own, merges the shards of the others and reaps those of the   *)
(* dead.  The processes share nothing but the directory.                      *)
(*                                                                            *)
(* A mark of 0 is an absent one: noteWatermark and the merge compare with     *)
(* "?? 0".  A process that crashes never returns; the next one has another    *)
(* pid and uuid.  A step ends where the code awaits.                          *)
EXTENDS Integers, FiniteSets

CONSTANTS
    Proc,           \* the pids of the plugin processes, at one time or another
    Gone,           \* those of them that died before
    Left,           \* the directories they may have left
    Session,
    Missing,        \* no such file, or no such map
    Legacy,         \* hook-watermarks.json, which nobody writes any more
    MaxTs,          \* latest time a turn is acknowledged at
    Spans,          \* how far time jumps: over a day (1) or a week (2)
    FollowupMax,    \* WATERMARK_DIRTY_FOLLOWUP_MAX
    MaxCrashes,     \* processes that die
    MergeMayFail,   \* a file the persist merges may be unreadable for a moment
    EarlyNotes      \* a note may come before the session's reconcile has loaded

ASSUME WatermarksAssumption ==
    /\ Proc \subseteq Nat /\ Legacy \in Nat \ Proc /\ Gone \subseteq Proc
    /\ MaxTs \in Nat /\ Spans \subseteq 1..2 /\ FollowupMax \in Nat /\ MaxCrashes \in Nat
    /\ MergeMayFail \in BOOLEAN /\ EarlyNotes \in BOOLEAN

File == Proc \cup {Legacy}
Marks == [Session -> 0..MaxTs]
NoMarks == [s \in Session |-> 0]

\* The lane of loadWatermarks that persistWatermarksBody calls.
Own == "persist"
Lane == Session \cup {Own}

ASSUME LeftAssumption ==
    /\ Missing \notin Marks /\ Own \notin Session
    /\ Left \subseteq [File -> Marks \cup {Missing}]
    /\ \A f \in Left, p \in Proc \ Gone : f[p] = Missing

VARIABLES
    file,       \* contents on disk
    age,        \* of each file: under a day, under a week (0, 1), or more (2)
    up,         \* processes that have not died
    cache,      \* watermarksCache
    pending,    \* pendingWatermarks
    load,       \* loadWatermarks, once per session's reconcile and once for the persist
    persist     \* persistWatermarksBody, serialized by persistChain

disk == <<file, age>>
memory == <<cache, pending>>
vars == <<disk, up, memory, load, persist>>

NoLoad == [at |-> "idle", todo |-> {}, got |-> NoMarks]
NoPersist == [at |-> "idle", entries |-> {}, todo |-> {}, got |-> NoMarks,
              payload |-> NoMarks, dirty |-> FALSE, cycle |-> 0, doomed |-> {}]

LoadState == [at: {"idle", "list", "read"}, todo: SUBSET File, got: Marks]
PersistState ==
    [at: {"idle", "load", "list", "merge", "write", "gc", "sweep", "unlink"},
     entries: SUBSET File, todo: SUBSET File, got: Marks, payload: Marks,
     dirty: BOOLEAN, cycle: 0..FollowupMax, doomed: SUBSET File]

TypeOK ==
    /\ file \in [File -> Marks \cup {Missing}] /\ age \in [File -> 0..2]
    /\ up \subseteq Proc
    /\ cache \in [Proc -> Marks \cup {Missing}] /\ pending \in [Proc -> Marks \cup {Missing}]
    /\ load \in [Proc -> [Lane -> LoadState]]
    /\ persist \in [Proc -> PersistState]

Init ==
    /\ file \in Left
    /\ age = [f \in File |-> 0] /\ up = Proc \ Gone
    /\ cache = [p \in Proc |-> Missing] /\ pending = [p \in Proc |-> Missing]
    /\ load = [p \in Proc |-> [l \in Lane |-> NoLoad]]
    /\ persist = [p \in Proc |-> NoPersist]

-----------------------------------------------------------------------------
Larger(a, b) == IF a < b THEN b ELSE a
Merge(m, n) == [s \in Session |-> Larger(m[s], n[s])]
Read(m) == IF m = Missing THEN NoMarks ELSE m
Listing == {f \in File : file[f] # Missing}
Dead(f) == f \in Proc \ up

(* noteWatermark: before the first load the note waits in the pending map;   *)
(* the session's chain loads before it posts, so only the test seam gets     *)
(* there (EarlyNotes).  A persist that is writing its payload learns that it *)
(* is out of date.                                                           *)
Note(p, s, ts) ==
    LET noted(m) == [Read(m) EXCEPT ![s] = Larger(@, ts)]
        held == IF cache[p] = Missing THEN pending[p] ELSE cache[p]
    IN /\ p \in up
       /\ EarlyNotes \/ (cache[p] # Missing /\ load[p][s].at = "idle")
       /\ IF cache[p] = Missing
          THEN pending' = [pending EXCEPT ![p] = noted(@)] /\ UNCHANGED cache
          ELSE cache' = [cache EXCEPT ![p] = noted(@)] /\ UNCHANGED pending
       /\ persist' = [persist EXCEPT
                        ![p].dirty = @ \/ (persist[p].at = "write" /\ Read(held)[s] < ts)]
       /\ UNCHANGED <<disk, up, load>>

-----------------------------------------------------------------------------
(* loadWatermarks.  Only the first statement looks at the cache, so several  *)
(* loads of one process may be under way.                                    *)
BeginLoad(p, s) ==
    /\ p \in up /\ cache[p] = Missing /\ load[p][s].at = "idle"
    /\ load' = [load EXCEPT ![p][s].at = "list"]
    /\ UNCHANGED <<disk, up, memory, persist>>

ListFiles(p, l) ==
    /\ load[p][l].at = "list"
    /\ load' = [load EXCEPT ![p][l] = [at |-> "read", todo |-> Listing, got |-> NoMarks]]
    /\ UNCHANGED <<disk, up, memory, persist>>

(* readMergedWatermarksFromDisk takes the files in the order of their names, *)
(* and skips one that is gone.                                               *)
First(todo) == {f \in todo : \A g \in todo : f <= g}

ReadFile(p, l, f) ==
    /\ load[p][l].at = "read" /\ f \in First(load[p][l].todo)
    /\ load' = [load EXCEPT ![p][l].todo = @ \ {f}, ![p][l].got = Merge(@, Read(file[f]))]
    /\ UNCHANGED <<disk, up, memory, persist>>

(* The merged marks become the cache: with the pending notes folded in, when *)
(* there are any, and otherwise as they are.                                 *)
Loaded(p, got) ==
    /\ cache' = [cache EXCEPT ![p] = IF pending[p] = Missing THEN got ELSE Merge(pending[p], got)]
    /\ pending' = [pending EXCEPT ![p] = Missing]

EndLoad(p, l) ==
    /\ load[p][l].at = "read" /\ load[p][l].todo = {}
    /\ Loaded(p, load[p][l].got)
    /\ load' = [load EXCEPT ![p][l] = NoLoad]
    /\ persist' = IF l = Own THEN [persist EXCEPT ![p].at = "list"] ELSE persist
    /\ UNCHANGED <<disk, up>>

-----------------------------------------------------------------------------
(* persistWatermarksBody.                                                    *)
BeginPersist(p) ==
    /\ p \in up /\ persist[p].at = "idle"
    /\ IF cache[p] = Missing
       THEN /\ persist' = [persist EXCEPT ![p] = [NoPersist EXCEPT !.at = "load"]]
            /\ load' = [load EXCEPT ![p][Own].at = "list"]
       ELSE /\ persist' = [persist EXCEPT ![p] = [NoPersist EXCEPT !.at = "list"]]
            /\ UNCHANGED load
    /\ UNCHANGED <<disk, up, memory>>

(* The head of a write cycle lists the directory anew.                       *)
ListAgain(p) ==
    /\ persist[p].at = "list"
    /\ persist' = [persist EXCEPT ![p].at = "merge", ![p].entries = Listing,
                                  ![p].todo = Listing, ![p].got = NoMarks]
    /\ UNCHANGED <<disk, up, memory, load>>

MergeFile(p, f) ==
    /\ persist[p].at = "merge" /\ f \in First(persist[p].todo)
    /\ \E m \in {file[f]} \cup (IF MergeMayFail THEN {Missing} ELSE {}) :
        persist' = [persist EXCEPT ![p].todo = @ \ {f}, ![p].got = Merge(@, Read(m))]
    /\ UNCHANGED <<disk, up, memory, load>>

Payload(p) == Merge(cache[p], persist[p].got)

(* The merge enters the cache and the payload is serialized, with no await   *)
(* in between.                                                               *)
Snapshot(p) ==
    /\ persist[p].at = "merge" /\ persist[p].todo = {}
    /\ cache' = [cache EXCEPT ![p] = Merge(@, persist[p].got)]
    /\ persist' = [persist EXCEPT ![p].at = "write", ![p].payload = Payload(p),
                                  ![p].got = NoMarks]
    /\ UNCHANGED <<disk, up, pending, load>>

(* Mutant of Followup: one cycle too many.                                   *)
FollowupOver(p) == persist[p].dirty /\ persist[p].cycle <= FollowupMax

(* A note that came while the payload was written is written by a further    *)
(* cycle, up to FollowupMax of them.                                         *)
Followup(p) == persist[p].dirty /\ persist[p].cycle < FollowupMax

(* writeOwnShardWithRetry renamed the shard into place.                      *)
Written(p) ==
    /\ persist[p].at = "write"
    /\ file' = [file EXCEPT ![p] = persist[p].payload] /\ age' = [age EXCEPT ![p] = 0]
    /\ persist' = IF Followup(p)
                  THEN [persist EXCEPT ![p] = [NoPersist EXCEPT !.at = "list", !.cycle = persist[p].cycle + 1]]
                  ELSE [persist EXCEPT ![p] = [NoPersist EXCEPT
                                                  !.at = "gc", !.entries = persist[p].entries]]
    /\ UNCHANGED <<up, memory, load>>

(* Five attempts failed: nothing is reaped either.                           *)
NotWritten(p) ==
    /\ persist[p].at = "write"
    /\ persist' = [persist EXCEPT ![p] = NoPersist]
    /\ UNCHANGED <<disk, up, memory, load>>

(* Mutant of Reapable: the file's age alone decides.                         *)
ReapableByAge(p, f, days) == f \in Proc \ {p} /\ file[f] # Missing /\ age[f] >= days

Reapable(p, f, days) == ReapableByAge(p, f, days) /\ Dead(f)

(* collectWatermarkGarbage picks from the listing of the last cycle what is  *)
(* over a day old and has a dead owner; a file it cannot read is left.       *)
PickGarbage(p) ==
    /\ persist[p].at = "gc"
    /\ \E picked \in SUBSET {f \in persist[p].entries : Reapable(p, f, 1)} :
        persist' = [persist EXCEPT ![p].at = "sweep", ![p].entries = {},
                                      ![p].doomed = picked]
    /\ UNCHANGED <<disk, up, memory, load>>

Unlink(p, f) ==
    /\ f \in persist[p].doomed
    /\ file' = [file EXCEPT ![f] = Missing] /\ age' = [age EXCEPT ![f] = 0]
    /\ persist' = [persist EXCEPT ![p].doomed = @ \ {f}]
    /\ UNCHANGED <<up, memory, load>>

(* sweepStaleWatermarkArtifacts lists the directory itself and takes what is *)
(* over a week old.                                                          *)
PickStale(p) ==
    /\ persist[p].at = "sweep" /\ persist[p].doomed = {}
    /\ \E picked \in SUBSET {f \in Listing : Reapable(p, f, 2)} :
        persist' = [persist EXCEPT ![p].at = "unlink", ![p].doomed = picked]
    /\ UNCHANGED <<disk, up, memory, load>>

EndPersist(p) ==
    /\ persist[p].at = "unlink" /\ persist[p].doomed = {}
    /\ persist' = [persist EXCEPT ![p] = NoPersist]
    /\ UNCHANGED <<disk, up, memory, load>>

-----------------------------------------------------------------------------
Crash(p) ==
    /\ p \in up /\ Cardinality((Proc \ Gone) \ up) < MaxCrashes
    /\ up' = up \ {p}
    /\ cache' = [cache EXCEPT ![p] = Missing] /\ pending' = [pending EXCEPT ![p] = Missing]
    /\ load' = [load EXCEPT ![p] = [l \in Lane |-> NoLoad]]
    /\ persist' = [persist EXCEPT ![p] = NoPersist]
    /\ UNCHANGED disk

(* A day or a week goes by.  No load and no persist spans one: each write is *)
(* tried five times, a tenth of a second apart at most.                      *)
TimePasses(days) ==
    /\ \A p \in Proc : persist[p].at = "idle" /\ \A l \in Lane : load[p][l].at = "idle"
    /\ \E f \in File : file[f] # Missing /\ age[f] < days
    /\ age' = [f \in File |-> IF file[f] # Missing THEN Larger(age[f], days) ELSE 0]
    /\ UNCHANGED <<file, up, memory, load, persist>>

Next ==
    \/ \E p \in Proc :
        \/ \E s \in Session, ts \in 1..MaxTs : Note(p, s, ts)
        \/ \E s \in Session : BeginLoad(p, s)
        \/ \E l \in Lane : ListFiles(p, l) \/ EndLoad(p, l)
        \/ \E l \in Lane, f \in File : ReadFile(p, l, f)
        \/ BeginPersist(p) \/ ListAgain(p) \/ Snapshot(p)
        \/ Written(p) \/ NotWritten(p) \/ PickGarbage(p) \/ PickStale(p) \/ EndPersist(p)
        \/ \E f \in File : MergeFile(p, f) \/ Unlink(p, f)
        \/ Crash(p)
    \/ \E days \in Spans : TimePasses(days)

Spec == Init /\ [][Next]_vars

-----------------------------------------------------------------------------
(* The newest mark of a session that some file holds never goes back: a      *)
(* shard is reaped only when another file holds its marks, whoever reads,    *)
(* writes, dies or reaps at the same time.                                   *)
Stored(s) == {file[f][s] : f \in Listing}

MarksKept ==
    [][\A s \in Session : \A v \in Stored(s) : \E w \in Stored(s)' : w >= v]_vars

(* What a live process knows of a session, in memory or on disk, never goes  *)
(* back: "no acked turn is ever dropped by load ordering".                   *)
Known(p, s) == Stored(s) \cup {Read(cache[p])[s], Read(pending[p])[s]}

NotesSurviveLoads ==
    [][\A p \in up, s \in Session :
        p \in up' => \A v \in Known(p, s) : \E w \in Known(p, s)' : w >= v]_vars

-----------------------------------------------------------------------------
(* Why MarksKept holds: unless a read of the merge may fail, what is over a  *)
(* day old, and the process's own shard, has been read by the persist under  *)
(* way, and is in what it writes.                                            *)
Within(m, n) == \A s \in Session : m[s] <= n[s]
Old(p) == {f \in Listing : f = p \/ age[f] >= 1}

Folded(p) == ~MergeMayFail =>
    /\ persist[p].at = "merge" =>
        \A f \in Old(p) : f \in persist[p].todo \/ Within(file[f], persist[p].got)
    /\ persist[p].at = "write" => \A f \in Old(p) : Within(file[f], persist[p].payload)
    /\ persist[p].at \in {"gc", "sweep", "unlink"} =>
        /\ file[p] # Missing
        /\ \A f \in Old(p) : Within(file[f], file[p])

(* A persist or a load runs in a live process only, and what is about to be  *)
(* reaped is old and without an owner.                                       *)
Running(p) ==
    /\ persist[p].at # "idle" => p \in up
    /\ persist[p].at \notin {"idle", "load"} => cache[p] # Missing
    /\ \A l \in Lane : load[p][l].at # "idle" => p \in up
    /\ load[p][Own].at # "idle" => persist[p].at = "load"

Doomed(p) ==
    \A f \in persist[p].doomed :
        /\ persist[p].at \in {"sweep", "unlink"} /\ f # p /\ Dead(f)
        /\ file[f] # Missing => age[f] >= 1

MarksInv == \A p \in Proc : Folded(p) /\ Running(p) /\ Doomed(p)
=============================================================================
