------------------------------- MODULE MCOAuth ------------------------------
(***************************************************************************)
(* Instances of OAuth for TLC.                                              *)
(***************************************************************************)
EXTENDS OAuth, TLC

CONSTANTS r1, r2

=============================================================================
