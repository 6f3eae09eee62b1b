------------------------------ MODULE Circuit ------------------------------
(***************************************************************************)
(* What the breaker promises about one circuit, without clocks, Redis or   *)
(* messages: three states, of which half-open admits a bounded number of   *)
(* probes per trial and is left only on a probe's verdict (or when the     *)
(* circuit is forgotten: its key expired, or an operator reset it).        *)
(* Breaker implements this specification (Breaker!Promise).                *)
(***************************************************************************)
EXTENDS Naturals

CONSTANT Quota    \* HalfOpenProbes

VARIABLES
  mode,     \* "closed", "open" or "half_open"
  probing   \* probes given out in the present trial

cvars == <<mode, probing>>

CInit == mode = "closed" /\ probing = 0

\* Too many of the recent results were failures.
Trip == mode = "closed" /\ mode' = "open" /\ probing' = 0

\* The open period is over.
Cool == mode = "open" /\ mode' = "half_open" /\ probing' = 0

Probe ==
  /\ mode = "half_open" /\ probing < Quota
  /\ probing' = probing + 1 /\ UNCHANGED mode

\* The probes of a trial stayed silent too long: a new trial begins.
Retrial ==
  /\ mode = "half_open" /\ probing > 0
  /\ probing' = 1 /\ UNCHANGED mode

Verdict(ok) ==
  /\ mode = "half_open" /\ probing > 0
  /\ mode' = (IF ok THEN "closed" ELSE "open") /\ probing' = 0

Forget == mode # "closed" /\ mode' = "closed" /\ probing' = 0

CNext == Trip \/ Cool \/ Probe \/ Retrial \/ (\E ok \in BOOLEAN : Verdict(ok)) \/ Forget

CSpec == CInit /\ [][CNext]_cvars

=============================================================================
