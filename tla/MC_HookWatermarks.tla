-------------------------- MODULE MC_HookWatermarks --------------------------
(* Small instances of HookWatermarks: what the dead process and the legacy   *)
(* file may hold when the others start.                                      *)
EXTENDS HookWatermarks

Marked(ts) == [s \in Session |-> ts]
Holding(shard, legacy) ==
    [f \in File |-> IF f \in Gone THEN shard ELSE IF f = Legacy THEN legacy ELSE Missing]

Empty == Holding(Missing, Missing)
Fresh == {Empty}
Inherited == {Empty, Holding(Marked(1), Missing), Holding(NoMarks, Marked(1))}
=============================================================================
