---------------------------- MODULE Consolidation ----------------------------
(* What the dream engine promises of a profile's evidence, whatever crashes: *)
(* a run takes a snapshot once, is answered once, is written back before it  *)
(* is closed, and only a closed run marks rows consolidated: all the rows    *)
(* its answer was read from, and no others.                                  *)
(*                                                                           *)
(* The promise holds as long as every boot found at most one unfinished run; *)
(* Confuse is the boot that found more, after which a closed run may be one  *)
(* that was never written back, and any rows may be marked.                  *)
EXTENDS Integers

CONSTANTS Chunk, Run

VARIABLES taken, answered, given, written, closed, cleared, confused
promise == <<taken, answered, given, written, closed, cleared, confused>>

Init ==
    /\ taken = {} /\ answered = {} /\ given = [r \in Run |-> {}]
    /\ written = {} /\ closed = {} /\ cleared = {} /\ confused = FALSE

Take(r) ==
    /\ r \notin taken
    /\ taken' = taken \cup {r}
    /\ UNCHANGED <<answered, given, written, closed, cleared, confused>>

Answer(r, rows) ==
    /\ r \in taken \ answered
    /\ answered' = answered \cup {r}
    /\ given' = [given EXCEPT ![r] = rows]
    /\ UNCHANGED <<taken, written, closed, cleared, confused>>

Write(r) ==
    /\ r \in answered
    /\ written' = written \cup {r}
    /\ UNCHANGED <<taken, answered, given, closed, cleared, confused>>

Close(r) ==
    /\ r \in taken \ closed
    /\ r \in written \/ confused
    /\ closed' = closed \cup {r}
    /\ UNCHANGED <<taken, answered, given, written, cleared, confused>>

Clear(r) ==
    /\ r \in closed
    /\ \E rows \in SUBSET Chunk :
          /\ rows = given[r] \/ confused
          /\ cleared' = cleared \cup rows
    /\ UNCHANGED <<taken, answered, given, written, closed, confused>>

Confuse ==
    /\ \E r, q \in taken \ closed : r # q
    /\ confused' = TRUE
    /\ UNCHANGED <<taken, answered, given, written, closed, cleared>>

Next ==
    \/ \E r \in Run : Take(r) \/ Write(r) \/ Close(r) \/ Clear(r)
    \/ \E r \in Run, rows \in SUBSET Chunk : Answer(r, rows)
    \/ Confuse

Spec == Init /\ [][Next]_promise
=============================================================================
