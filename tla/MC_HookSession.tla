--------------------------- MODULE MC_HookSession ----------------------------
(* Small instances of HookSession.                                           *)
EXTENDS HookSession
=============================================================================
