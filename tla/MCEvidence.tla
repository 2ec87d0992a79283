----------------------------- MODULE MCEvidence -----------------------------
(* Small instances of Evidence for TLC.                                     *)
EXTENDS Evidence, TLC
=============================================================================
