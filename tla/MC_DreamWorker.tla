---------------------------- MODULE MC_DreamWorker ----------------------------
(* Small instances of DreamWorker: two boot journals at most.                *)
EXTENDS DreamWorker

CONSTANTS r1, r2

TwoJournals == <<r1, r2>>
OneJournal == <<r1>>
NoJournal == <<>>
==============================================================================
