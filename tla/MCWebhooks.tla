----------------------------- MODULE MCWebhooks -----------------------------
(***************************************************************************)
(* Instances of Webhooks for TLC.                                           *)
(***************************************************************************)
EXTENDS Webhooks, TLC

CONSTANTS w1, w2, d1, d2

=============================================================================
