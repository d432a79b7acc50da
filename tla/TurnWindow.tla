----------------------------- MODULE TurnWindow -----------------------------
(* Turn ranges (storage/ports.py, TurnRange), the scope every dream is given *)
(* and every journal file records.  The dream engine compares them for       *)
(* equality and asks which rows overlap one; nothing else of them is kept.   *)
CONSTANTS
    Chunk,       \* rows of the vector store
    Window,      \* turn ranges an event or a snapshot can carry
    NoWindow,    \* no range: current_range is None, the run has no file
    Covers       \* Covers[w]: the chunks whose turns overlap the range w

ASSUME NoWindowAssumption == NoWindow \notin Window
ASSUME CoversAssumption == Covers \in [Window -> SUBSET Chunk]
=============================================================================
