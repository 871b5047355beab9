------------------------------- MODULE MCJob -------------------------------
(***************************************************************************)
(* Two jobs for TLC.                                                       *)
(***************************************************************************)
EXTENDS Job

CONSTANTS j1, j2
=============================================================================
