----------------------------- MODULE MC_ScorePool -----------------------------
(* Small instances of ScorePool: four turns of three points each against a   *)
(* floor of 6 and a cap of 9, so two turns reach the floor and three the     *)
(* cap.                                                                      *)
EXTENDS ScorePool

Four == 1..4
Three == [t \in Four |-> 3]
OneSession == [t \in Four |-> "a"]
FromOne == [t \in Four |-> t]           \* a session whose turn 0 was pooled before
FromZero == [t \in Four |-> t - 1]
TwoSessions == [t \in Four |-> IF t <= 2 THEN "a" ELSE "b"]
EachFromOne == [t \in Four |-> IF t <= 2 THEN t ELSE t - 2]
=============================================================================
