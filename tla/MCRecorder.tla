---------------------------- MODULE MCRecorder ----------------------------
(***************************************************************************)
(* Instances of Recorder for TLC.                                          *)
(***************************************************************************)
EXTENDS Recorder, TLC

CONSTANTS r1, r2, r3, w1, w2

\* Behaviours without failures, and behaviours with any of them.
FairAndFoul == {{}, FaultKinds}

=============================================================================
