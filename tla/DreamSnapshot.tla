---------------------------- MODULE DreamSnapshot ----------------------------
(* The journal of a dream run: dream/snapshot.py, and the result payload of  *)
(* dream/reflect.py and dream/combine.py it carries.                         *)
(*                                                                           *)
(* One file per run, replaced atomically (tmp + os.replace), read back after *)
(* a crash.  A file is a value here; each method that rewrites it is an      *)
(* operator from the file before to the file after.  Chunk texts, stamps and *)
(* triples' words are abstracted: a triple is named by the chunk it was      *)
(* distilled from.                                                           *)
EXTENDS TurnWindow, Integers, FiniteSets

Phase == {"snapshot_done", "reflect_done", "reflect_a_done", "reflect_b_done",
          "combine_done", "merge_done"}

-----------------------------------------------------------------------------
(* ReflectionResult: what a reflect pass hands to the merge.  consumed is    *)
(* the set of rows packed into the prompt, overflow those left for a later   *)
(* dream.                                                                    *)

Result == [known: BOOLEAN, consumed: SUBSET Chunk, triples: SUBSET Chunk,
           overflow: SUBSET Chunk, batched: BOOLEAN]

NoResult == [known |-> FALSE, consumed |-> {}, triples |-> {}, overflow |-> {},
             batched |-> FALSE]

(* What one seat can answer over a set of chunks.  A single pack whose every *)
(* chunk is over budget is deferred before the model is called, so it has no *)
(* result; batches exist only when the chunks do not fit one pack.           *)
SeatResults(chunks, batched) ==
    {r \in [known: {TRUE}, consumed: SUBSET chunks, triples: SUBSET chunks,
            overflow: SUBSET chunks, batched: {batched}] :
        /\ r.triples \subseteq r.consumed
        /\ r.overflow = chunks \ r.consumed
        /\ IF batched THEN Cardinality(chunks) > 1
                      ELSE r.consumed = {} => chunks = {}}

(* combine_results: agreed and single-side triples survive, contradicted     *)
(* ones (drop) do not; the allow-lists are united; batched is not carried.   *)
Combined(a, b, drop) ==
    [known |-> TRUE, consumed |-> a.consumed \cup b.consumed,
     triples |-> (a.triples \cup b.triples) \ drop,
     overflow |-> a.overflow \cup b.overflow, batched |-> FALSE]

-----------------------------------------------------------------------------
File == [range: Window \cup {NoWindow}, chunks: SUBSET Chunk, phases: SUBSET Phase,
         result: Result, seatA: Result, seatB: Result]

(* No file was written for the run: every written file carries a phase.      *)
NoFile == [range |-> NoWindow, chunks |-> {}, phases |-> {},
           result |-> NoResult, seatA |-> NoResult, seatB |-> NoResult]

Exists(f) == f.phases # {}
Done(f) == "merge_done" \in f.phases

(* _capture: the rows in the store that overlap the range, consolidated or   *)
(* not, of every session.                                                    *)
Captured(w, rows) ==
    [range |-> w, chunks |-> rows \cap Covers[w], phases |-> {"snapshot_done"},
     result |-> NoResult, seatA |-> NoResult, seatB |-> NoResult]

(* Mutant of WithPhase: the phase takes the place of those before it.        *)
OnlyPhase(f, p) == [f EXCEPT !.phases = {p}]

WithPhase(f, p) == [f EXCEPT !.phases = @ \cup {p}]

(* _finalize and _finalize_combined: marker and payload in one file write.   *)
WithResult(f, p, r) == WithPhase([f EXCEPT !.result = r], p)
WithSeatA(f, r) == WithPhase([f EXCEPT !.seatA = r], "reflect_a_done")
WithSeatB(f, r) == WithPhase([f EXCEPT !.seatB = r], "reflect_b_done")

(* resume_boundary, for a file whose merge is not done.                      *)
Boundary(f) ==
    IF "reflect_b_done" \in f.phases
    THEN IF "combine_done" \in f.phases THEN "merge" ELSE "combine"
    ELSE IF "reflect_a_done" \in f.phases THEN "reflect_b"
    ELSE IF "reflect_done" \in f.phases THEN "merge" ELSE "reflect"

(* Mutant of ClearIds: the rows the model never saw are marked as well.      *)
ClearAll(f) == f.chunks

(* purge_snapshot's rows: the journaled allow-list, or every row of the      *)
(* snapshot when no reflect pass journaled one.                              *)
ClearIds(f) == IF f.result.known THEN f.chunks \cap f.result.consumed ELSE f.chunks
=============================================================================
