---------------------------- MODULE LeastNumber -----------------------------
(***************************************************************************)
(* A non-empty set of natural numbers has a least one: the form in which   *)
(* the proofs argue from each stage of a run to the next.                  *)
(***************************************************************************)
EXTENDS Integers, TLAPS, WellFoundedInduction

LEMMA MinimalOf ==
    ASSUME NEW R, IsWellFoundedOn(R, Nat), NEW S, S \subseteq Nat, S # {}
    PROVE  \E n \in S : \A k \in S : ~ (<<k, n>> \in R)
BY WFMin, Zenon

\* There is no number that fails without a first one that does.
LEMMA LeastOf ==
    ASSUME NEW S, S \subseteq Nat, S # {}
    PROVE  \E n \in S : \A k \in S : n <= k
<1>. DEFINE R == {p \in Nat \X Nat : p[1] < p[2]}
<1>1. IsWellFoundedOn(R, Nat)
  BY NatLessThanWellFounded, Zenon DEF OpToRel
<1>2. PICK n \in S : \A k \in S : ~ (<<k, n>> \in R)
  BY <1>1, MinimalOf, Zenon
<1>3. ASSUME NEW k \in S PROVE n <= k
  <2>1. ~ (<<k, n>> \in R)
    BY <1>2
  <2>2. k \in Nat /\ n \in Nat
    OBVIOUS
  <2>. QED  BY <2>1, <2>2
<1>. QED  BY <1>3
=============================================================================
