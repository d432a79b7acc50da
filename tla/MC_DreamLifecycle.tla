-------------------------- MODULE MC_DreamLifecycle --------------------------
(* Small instances of DreamLifecycle.  Two rows; a narrow range that holds   *)
(* the first and a wide one that holds both, so that a snapshot can be       *)
(* taken with and without the second row, and two runs can share a range or  *)
(* not.                                                                      *)
EXTENDS DreamLifecycle

CONSTANTS c1, c2, narrow, wide

TwoRows == {c1, c2}
OneRow == {c1}
OneRange == {wide}
TwoRanges == {narrow, wide}
CoversOne == [w \in OneRange |-> {c1, c2}]
CoversRow == [w \in OneRange |-> {c1}]
CoversTwo == [w \in TwoRanges |-> IF w = narrow THEN {c1} ELSE {c1, c2}]
=============================================================================
