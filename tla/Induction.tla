------------------------------ MODULE Induction ------------------------------
(***************************************************************************)
(* Induction over the naturals, stated for a set of numbers instead of a   *)
(* predicate, so that the provers at hand can apply it: from the fact that *)
(* < is well founded, which gives every set of numbers a least element.    *)
(***************************************************************************)
EXTENDS Integers, WellFoundedInduction, TLAPS

Precedes == {p \in Nat \X Nat : p[1] < p[2]}

\* A set with 0 and the successor of each of its numbers has all of them.
LEMMA SetInduction ==
  ASSUME NEW S, 0 \in S, \A n \in Nat : n \in S => n + 1 \in S
  PROVE  Nat \subseteq S
<1> DEFINE Missing == Nat \ S
<1> SUFFICES ASSUME Missing # {} PROVE FALSE
  OBVIOUS
<1>1. IsWellFoundedOn(Precedes, Nat)
  BY NatLessThanWellFounded DEF OpToRel, Precedes
<1>2. PICK n \in Missing : \A m \in Missing : <<m, n>> \notin Precedes
  BY <1>1, WFMin
<1>3. n # 0 /\ n - 1 \in Nat /\ <<n - 1, n>> \in Precedes
  BY DEF Precedes
<1>4. QED
  BY <1>2, <1>3

=============================================================================
