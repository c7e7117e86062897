------------------------------- MODULE Facts -------------------------------
(***************************************************************************)
(* Facts that the proofs of this project share: about the natural numbers, *)
(* and about Reach, which is the least set that holds the seed and follows *)
(* the edges.                                                              *)
(***************************************************************************)
EXTENDS Integers, Closure, TLAPS, WellFoundedInduction

NatLess == {p \in Nat \X Nat : p[1] < p[2]}

(* The library's well-foundedness of < on Nat, for a relation the SMT      *)
(* backend can expand.                                                     *)
LEMMA NatLessWF == IsWellFoundedOn(NatLess, Nat)
<1>1. OpToRel(<, Nat) = NatLess
  BY Zenon DEF OpToRel, NatLess
<1>2. QED BY <1>1, NatLessThanWellFounded, Zenon

(* A non-empty set of naturals has a least element: the minimum the code   *)
(* takes over authority ranks exists, and proofs by induction pick a least *)
(* counterexample.                                                         *)
LEMMA NatMin ==
  ASSUME NEW T \in SUBSET Nat, T # {}
  PROVE  \E m \in T : \A n \in T : m <= n
<1>1. PICK m \in T : \A n \in T : ~ (<<n, m>> \in NatLess)
  BY NatLessWF, WFMin, Zenon
<1>2. ASSUME NEW n \in T PROVE m <= n
  <2>1. <<n, m>> \notin NatLess  BY <1>1
  <2>2. n \in Nat /\ m \in Nat  OBVIOUS
  <2>3. CASE n < m
    <3>1. <<n, m>> \in NatLess  BY <2>2, <2>3 DEF NatLess
    <3>2. QED BY <2>1, <3>1
  <2>4. QED BY <2>2, <2>3
<1>3. QED BY <1>2

-----------------------------------------------------------------------------
LEMMA ReachInBelief == ASSUME NEW E, NEW S PROVE Reach(E, S) \in SUBSET Belief
BY DEF Reach

LEMMA ReachBase ==
  ASSUME NEW E, NEW S \in SUBSET Belief
  PROVE  S \subseteq Reach(E, S)
BY DEF Reach

LEMMA ReachLeast ==
  ASSUME NEW E, NEW S, NEW T \in SUBSET Belief,
         S \subseteq T, ClosedUnder(E, T)
  PROVE  Reach(E, S) \subseteq T
BY DEF Reach

LEMMA ReachStep ==
  ASSUME NEW E, NEW S, NEW x \in Reach(E, S), NEW y \in Belief, <<x, y>> \in E
  PROVE  y \in Reach(E, S)
<1> SUFFICES ASSUME NEW T \in SUBSET Belief, S \subseteq T, ClosedUnder(E, T)
             PROVE  y \in T
  BY DEF Reach
<1>1. x \in T
  BY DEF Reach
<1>2. QED BY <1>1 DEF ClosedUnder

LEMMA ReachClosed ==
  ASSUME NEW E \in SUBSET (Belief \X Belief), NEW S
  PROVE  ClosedUnder(E, Reach(E, S))
<1> SUFFICES ASSUME NEW e \in E, e[1] \in Reach(E, S) PROVE e[2] \in Reach(E, S)
  BY DEF ClosedUnder
<1>1. e = <<e[1], e[2]>> /\ e[2] \in Belief
  OBVIOUS
<1>2. QED BY <1>1, ReachStep

(* More edges, or a seed reached already, reach no less.                   *)
LEMMA ReachMonotone ==
  ASSUME NEW E, NEW F \in SUBSET (Belief \X Belief), NEW R, NEW S,
         E \subseteq F, R \subseteq Reach(F, S)
  PROVE  Reach(E, R) \subseteq Reach(F, S)
<1>1. ClosedUnder(E, Reach(F, S))
  BY ReachClosed DEF ClosedUnder
<1>2. QED BY <1>1, ReachLeast, ReachInBelief

(* A member outside the seed is reached over some edge from a member.      *)
LEMMA ReachParent ==
  ASSUME NEW E \in SUBSET (Belief \X Belief), NEW S \in SUBSET Belief,
         NEW y \in Reach(E, S), y \notin S
  PROVE  \E x \in Reach(E, S) : <<x, y>> \in E
<1> SUFFICES ASSUME \A x \in Reach(E, S) : <<x, y>> \notin E PROVE FALSE
  OBVIOUS
<1> DEFINE T == Reach(E, S) \ {y}
<1>1. S \subseteq T /\ T \in SUBSET Belief
  BY ReachBase, ReachInBelief
<1>2. ASSUME NEW e \in E, e[1] \in T PROVE e[2] \in T
  <2>1. e = <<e[1], e[2]>>
    OBVIOUS
  <2>2. e[2] \in Reach(E, S)
    BY <1>2, ReachClosed DEF ClosedUnder
  <2>3. e[2] # y
    BY <1>2, <2>1
  <2>4. QED BY <2>2, <2>3
<1>3. ClosedUnder(E, T)
  BY <1>2 DEF ClosedUnder
<1>4. QED BY <1>1, <1>3, ReachLeast
=============================================================================
