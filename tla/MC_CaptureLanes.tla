--------------------------- MODULE MC_CaptureLanes ---------------------------
(* Small instances of CaptureLanes; sessions are model values.               *)
EXTENDS CaptureLanes

CONSTANTS a, b

Both == {a, b}

(* Two sessions whose drains go well, and one whose drain may raise while    *)
(* the pool fires.                                                           *)
Quiet == [turns |-> (a :> 2) @@ (b :> 2), failures |-> 0, fires |-> FALSE]
Raising == [turns |-> (a :> 2) @@ (b :> 0), failures |-> 1, fires |-> TRUE]
QuietAndRaising == {Quiet, Raising}

(* One session of one turn whose drain raises; the same without a failure;   *)
(* one turn each while the pool fires; one session alone while it fires.     *)
JustOne == {[turns |-> (a :> 1) @@ (b :> 0), failures |-> 1, fires |-> FALSE]}
OneQuiet == {[turns |-> (a :> 1) @@ (b :> 0), failures |-> 0, fires |-> FALSE]}
EachFiring == {[turns |-> (a :> 1) @@ (b :> 1), failures |-> 0, fires |-> TRUE]}
OneFiring == {[turns |-> (a :> 1) @@ (b :> 0), failures |-> 0, fires |-> TRUE]}
=============================================================================
