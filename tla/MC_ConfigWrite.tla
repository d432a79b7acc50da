--------------------------- MODULE MC_ConfigWrite ----------------------------
(* Small instances of ConfigWrite.                                           *)
EXTENDS ConfigWrite
=============================================================================
