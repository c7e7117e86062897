---------------------------- MODULE TaintProofs ----------------------------
(***************************************************************************)
(* What compute_closure returns on every snapshot, whatever its size and   *)
(* the bounds K and MAX_ROUNDS.                                            *)
(*                                                                         *)
(* The inductive invariant LoopInv is the loop invariant of the function:  *)
(* members come only over edges that taint (FromSeed), each from another   *)
(* member (Parented); a member left behind has been followed to its        *)
(* children (Followed) and, unless a search was truncated, to its          *)
(* neighbours (Compared); and after the first round every recorded         *)
(* descendant is in (SeedWalked).                                          *)
(***************************************************************************)
EXTENDS Taint, Facts, FiniteSetTheorems

FromSeed ==
  /\ store.seed \subseteq closure
  /\ closure \subseteq Reach(store.derived \cup edges, store.seed)
  /\ edges \subseteq (closure \X closure) \cap JoinEdges

Followed ==
  \A x \in closure \ frontier :
    /\ x \in probed
    /\ \A y \in Belief : <<x, y>> \in store.derived => y \in closure

Compared ==
  ~truncated => \A x \in probed, y \in Belief : Joins(x, y) => y \in closure

SeedWalked ==
  IF rounds = 0 THEN closure = store.seed /\ frontier = store.seed
  ELSE Reach(store.derived, store.seed) \subseteq closure

Parented ==
  \A y \in closure \ store.seed : \E x \in closure : <<x, y>> \in store.derived \cup edges

LoopInv ==
  TypeOK /\ FromSeed /\ Parented /\ Followed /\ Compared /\ SeedWalked /\ (capped => rounds > 0)

-----------------------------------------------------------------------------
LEMMA InitInv == Init => LoopInv
<1> SUFFICES ASSUME Init PROVE LoopInv
  OBVIOUS
<1>1. store \in Store /\ store.seed \in SUBSET Belief
  BY TaintConstants DEF Init, Store
<1>2. TypeOK
  <2>1. rounds \in 0..MaxRounds
    BY TaintConstants DEF Init
  <2>2. closure \subseteq Belief /\ frontier \subseteq closure /\ probed \subseteq closure
    BY <1>1 DEF Init
  <2>3. edges \subseteq Edge /\ capped \in BOOLEAN /\ truncated \in BOOLEAN
    BY DEF Init
  <2>4. QED BY <1>1, <2>1, <2>2, <2>3 DEF TypeOK
<1>3. FromSeed
  BY <1>1, ReachBase DEF Init, FromSeed
<1>4. QED BY <1>2, <1>3 DEF Init, LoopInv, Parented, Followed, Compared, SeedWalked

(* One turn of the loop, whatever hits the probes turned up. *)
LEMMA RoundKeepsInv == LoopInv /\ Round => LoopInv'
<1> SUFFICES ASSUME LoopInv, Round PROVE LoopInv'
  OBVIOUS
<1> USE DEF LoopInv
<1> DEFINE explicit == NewDescendants(frontier)
           covered == closure \cup explicit
           probes == (frontier \cup explicit) \ probed
           hits == {y \in Belief \ covered : \E x \in probes : Joins(x, y)}
<1>0. PICK implicit \in SUBSET hits : \E best \in [implicit -> probes] :
        /\ \A y \in hits \ implicit, x \in probes : Joins(x, y) => Overflows(x)
        /\ \A y \in implicit : Joins(best[y], y)
        /\ closure' = covered \cup implicit
        /\ probed' = probed \cup probes
        /\ edges' = edges \cup InferredEdges(best)
        /\ frontier' = NextFrontier(explicit, implicit)
        /\ truncated' = (truncated \/ \E x \in probes : Cardinality(Hot(x)) >= MaxK)
  BY DEF Round
<1>1. PICK best \in [implicit -> probes] :
        /\ \A y \in hits \ implicit, x \in probes : Joins(x, y) => Overflows(x)
        /\ \A y \in implicit : Joins(best[y], y)
        /\ closure' = covered \cup implicit
        /\ probed' = probed \cup probes
        /\ edges' = edges \cup InferredEdges(best)
        /\ frontier' = NextFrontier(explicit, implicit)
        /\ truncated' = (truncated \/ \E x \in probes : Cardinality(Hot(x)) >= MaxK)
  BY <1>0
<1>2. UNCHANGED <<store, capped>> /\ rounds' = rounds + 1 /\ rounds < MaxRounds /\ ~capped
  BY TaintConstants DEF Round, Exhausted, TypeOK
<1>3. /\ store.seed \in SUBSET Belief /\ store.derived \in SUBSET (Belief \X Belief)
      /\ closure \subseteq Belief /\ frontier \subseteq closure
  BY DEF TypeOK, Store, Edge
<1>4. explicit = Reach(store.derived, frontier) \ closure
  BY DEF NewDescendants
<1>5. explicit \subseteq Belief /\ covered \subseteq Belief /\ probes \subseteq covered
  BY <1>3, <1>4, ReachInBelief
<1> HIDE DEF explicit
<1>6. frontier' = explicit \cup implicit
  BY <1>1 DEF NextFrontier
<1>7. \A x, y : Joins(x, y)' <=> Joins(x, y)
  BY <1>2 DEF Joins, Hot
<1>8. InferredEdges(best) \subseteq (probes \X implicit) \cap JoinEdges
  <2>1. \A y \in implicit : best[y] \in probes /\ <<best[y], y>> \in JoinEdges
    BY <1>1, <1>5 DEF JoinEdges, Edge
  <2>2. QED BY <2>1 DEF InferredEdges
<1>9. \A y \in implicit : <<best[y], y>> \in InferredEdges(best)
  BY <1>1 DEF InferredEdges
<1>10. TypeOK'
  <2>1. edges' \subseteq Edge
    BY <1>1, <1>5, <1>8 DEF TypeOK, Edge
  <2>2. closure' \subseteq Belief /\ frontier' \subseteq closure' /\ probed' \subseteq closure'
    BY <1>1, <1>5, <1>6 DEF TypeOK
  <2>3. rounds' \in 0..MaxRounds
    BY <1>2, TaintConstants DEF TypeOK
  <2>4. QED BY <1>1, <1>2, <2>1, <2>2, <2>3 DEF TypeOK
<1>11. FromSeed'
  <2> DEFINE R == Reach(store.derived \cup edges', store.seed)
  <2>1. store.derived \cup edges' \in SUBSET (Belief \X Belief)
    BY <1>3, <1>10 DEF TypeOK, Edge
  <2>2. closure \subseteq R
    BY <1>1, <2>1, ReachMonotone, ReachBase, <1>3 DEF FromSeed
  <2>3. Reach(store.derived, frontier) \subseteq R
    <3>1. frontier \subseteq R
      BY <1>3, <2>2
    <3>2. store.derived \subseteq store.derived \cup edges'
      OBVIOUS
    <3>3. QED BY <2>1, <3>1, <3>2, ReachMonotone
  <2>4. covered \subseteq R
    BY <1>4, <2>2, <2>3
  <2>5. implicit \subseteq R
    <3>1. \A y \in implicit : best[y] \in R /\ <<best[y], y>> \in edges' /\ y \in Belief
      BY <1>1, <1>5, <1>9, <2>4
    <3>2. QED BY <3>1, ReachStep
  <2>6. closure' \subseteq R
    BY <1>1, <2>4, <2>5
  <2>7. edges' \subseteq (closure' \X closure') \cap JoinEdges
    BY <1>1, <1>5, <1>8 DEF FromSeed
  <2>8. JoinEdges' = JoinEdges
    BY <1>7 DEF JoinEdges
  <2>9. QED BY <1>1, <1>2, <2>6, <2>7, <2>8 DEF FromSeed
<1>12. Followed'
  <2> SUFFICES ASSUME NEW x \in closure', x \notin frontier'
               PROVE  /\ x \in probed'
                      /\ \A y \in Belief : <<x, y>> \in store.derived => y \in closure'
    BY <1>2 DEF Followed
  <2>1. x \in closure /\ x \notin explicit
    BY <1>1, <1>6
  <2>2. CASE x \in frontier
    <3>1. x \in probed'
      BY <1>1, <2>2
    <3>2. x \in Reach(store.derived, frontier)
      BY <1>3, <2>2, ReachBase
    <3>3. \A y \in Belief : <<x, y>> \in store.derived =>
            y \in Reach(store.derived, frontier)
      BY <3>2, ReachStep
    <3>4. QED BY <1>1, <1>4, <3>1, <3>3
  <2>3. CASE x \notin frontier
    BY <1>1, <2>1, <2>3 DEF Followed
  <2>4. QED BY <2>2, <2>3
<1>13. Compared'
  <2> SUFFICES ASSUME ~truncated', NEW x \in probed', NEW y \in Belief, Joins(x, y)
               PROVE  y \in closure'
    BY <1>7 DEF Compared
  <2>1. CASE x \in probed
    BY <1>1, <2>1 DEF Compared
  <2>2. CASE x \in probes
    <3>1. Hot(x) \subseteq Belief
      BY DEF Hot
    <3>2. Cardinality(Hot(x)) \in Nat
      BY <3>1, TaintConstants, FS_Subset, FS_CardinalityType
    <3>3. ~Overflows(x)
      <4>1. ~(Cardinality(Hot(x)) >= MaxK)
        BY <1>1, <2>2, Zenon
      <4>2. QED BY <3>2, <4>1, TaintConstants DEF Overflows
    <3>4. y \in covered \/ y \in hits
      BY <2>2
    <3>5. QED BY <1>1, <2>2, <3>3, <3>4
  <2>3. QED BY <1>1, <2>1, <2>2
<1>14. SeedWalked'
  <2>1. CASE rounds = 0
    <3>1. Reach(store.derived, store.seed) \subseteq covered
      BY <1>4, <2>1 DEF SeedWalked
    <3>2. rounds' # 0
      BY <1>2, <2>1
    <3>3. QED BY <1>1, <1>2, <3>1, <3>2 DEF SeedWalked
  <2>2. CASE rounds # 0
    BY <1>1, <1>2, <2>2 DEF SeedWalked, TypeOK
  <2>3. QED BY <2>1, <2>2
<1>15. Parented'
  <2> SUFFICES ASSUME NEW y \in closure', y \notin store.seed
               PROVE  \E x \in closure' : <<x, y>> \in store.derived \cup edges'
    BY <1>2 DEF Parented
  <2>1. CASE y \in closure
    BY <1>1, <2>1 DEF Parented
  <2>2. CASE y \in explicit
    <3>1. \E x \in Reach(store.derived, frontier) : <<x, y>> \in store.derived
      BY <1>3, <1>4, <2>2, ReachParent
    <3>2. Reach(store.derived, frontier) \subseteq closure'
      BY <1>1, <1>4
    <3>3. QED BY <3>1, <3>2
  <2>3. CASE y \in implicit
    BY <1>1, <1>5, <1>9, <2>3
  <2>4. QED BY <1>1, <2>1, <2>2, <2>3
<1>16. QED BY <1>2, <1>10, <1>11, <1>12, <1>13, <1>14, <1>15, TaintConstants DEF TypeOK

LEMMA LoopInvStep == LoopInv /\ [Next]_vars => LoopInv'
<1> SUFFICES ASSUME LoopInv, [Next]_vars PROVE LoopInv'
  OBVIOUS
<1>1. ASSUME UNCHANGED <<store, closure, frontier, probed, edges, rounds, truncated>>,
             capped' => rounds > 0, capped' \in BOOLEAN
      PROVE  LoopInv'
  BY <1>1 DEF LoopInv, TypeOK, FromSeed, Parented, Followed, Compared, SeedWalked, JoinEdges,
     Joins, Hot
<1>2. CASE Round
  BY <1>2, RoundKeepsInv
<1>3. CASE Cap
  BY <1>1, <1>3, TaintConstants DEF Cap, Exhausted, LoopInv, TypeOK
<1>4. CASE UNCHANGED vars
  BY <1>1, <1>4 DEF vars, LoopInv, TypeOK
<1>5. QED BY <1>2, <1>3, <1>4 DEF Next

LEMMA LoopInvHolds == Spec => []LoopInv
<1>1. QED BY InitInv, LoopInvStep, PTL DEF Spec

(* The state of the loop is well formed on every snapshot. *)
THEOREM TaintTypeCorrect == Spec => []TypeOK
<1>1. LoopInv => TypeOK
  BY DEF LoopInv
<1>2. QED BY <1>1, LoopInvHolds, PTL

-----------------------------------------------------------------------------
LEMMA InvReturnsContract == LoopInv => ReturnsContract
<1> SUFFICES ASSUME LoopInv, Returned
             PROVE  MeetsContract(closure, edges, store.seed, store.derived,
                                  JoinEdges, capped \/ truncated)
  BY DEF ReturnsContract
<1> USE DEF LoopInv
<1> DEFINE All == store.derived \cup JoinEdges
<1>1. /\ All \in SUBSET (Belief \X Belief) /\ closure \in SUBSET Belief
      /\ store.seed \in SUBSET Belief /\ store.derived \in SUBSET (Belief \X Belief)
  BY DEF TypeOK, Store, Edge, JoinEdges
<1>2. Reach(store.derived, store.seed) \subseteq closure
  <2>1. CASE rounds = 0
    <3>1. store.seed = {} /\ closure = {}
      BY <2>1 DEF SeedWalked, Returned
    <3>2. ClosedUnder(store.derived, {})
      BY DEF ClosedUnder
    <3>3. QED BY <3>1, <3>2, <1>1, ReachLeast
  <2>2. QED BY <2>1 DEF SeedWalked
<1>3. closure \subseteq Reach(All, store.seed)
  <2>1. store.derived \cup edges \subseteq All
    BY DEF FromSeed
  <2>2. Reach(store.derived \cup edges, store.seed) \subseteq Reach(All, store.seed)
    BY <1>1, <2>1, ReachMonotone, ReachBase
  <2>3. QED BY <2>2 DEF FromSeed
<1>4. ASSUME ~capped, ~truncated PROVE closure = Reach(All, store.seed)
  <2>1. frontier = {}
    BY <1>4 DEF Returned
  <2>2. ASSUME NEW e \in All, e[1] \in closure PROVE e[2] \in closure
    <3>1. e = <<e[1], e[2]>> /\ e[2] \in Belief
      BY <1>1
    <3>2. CASE e \in store.derived
      BY <2>1, <2>2, <3>1, <3>2 DEF Followed
    <3>3. CASE e \in JoinEdges
      BY <1>4, <2>1, <2>2, <3>1, <3>3 DEF Followed, Compared, JoinEdges
    <3>4. QED BY <3>2, <3>3
  <2>3. ClosedUnder(All, closure)
    BY <2>2 DEF ClosedUnder
  <2>4. Reach(All, store.seed) \subseteq closure
    BY <1>1, <2>3, ReachLeast DEF FromSeed
  <2>5. QED BY <1>3, <2>4
<1>5. QED BY <1>2, <1>4 DEF MeetsContract, FromSeed

(* Every closure compute_closure returns keeps the contract a recant       *)
(* relies on, for every derivation graph, similarity and bound.            *)
THEOREM EngineKeepsContract == Spec => []ReturnsContract
<1>1. QED BY LoopInvHolds, InvReturnsContract, PTL

LEMMA InvEdgesExplain == LoopInv => EdgesExplainClosure
<1> SUFFICES ASSUME LoopInv, Returned, ~capped
             PROVE  closure = Reach(store.derived \cup edges, store.seed)
  BY DEF EdgesExplainClosure
<1> USE DEF LoopInv
<1>1. frontier = {} /\ closure \in SUBSET Belief
  BY DEF Returned, TypeOK
<1>2. store.derived \in SUBSET (Belief \X Belief)
  BY DEF TypeOK, Store, Edge
<1>3. ASSUME NEW e \in store.derived \cup edges, e[1] \in closure PROVE e[2] \in closure
  <2>1. CASE e \in edges
    BY <2>1 DEF FromSeed
  <2>2. CASE e \in store.derived
    <3>1. e = <<e[1], e[2]>> /\ e[2] \in Belief
      BY <1>2, <2>2
    <3>2. QED BY <1>1, <1>3, <2>2, <3>1 DEF Followed
  <2>3. QED BY <2>1, <2>2
<1>4. ClosedUnder(store.derived \cup edges, closure)
  BY <1>3 DEF ClosedUnder
<1>5. Reach(store.derived \cup edges, store.seed) \subseteq closure
  BY <1>1, <1>4, ReachLeast DEF FromSeed
<1>6. QED BY <1>5 DEF FromSeed

(* The inferred edges a recant stores, walked with the derivations, give   *)
(* back the closure it flipped (engine.py:278-290, quarantine/app.py:167-184). *)
THEOREM EvidenceExplainsClosure == Spec => []EdgesExplainClosure
<1>1. QED BY LoopInvHolds, InvEdgesExplain, PTL

LEMMA InvIndependent == LoopInv => IndependentSourceHolds
<1> SUFFICES ASSUME LoopInv, NEW y \in closure, y \in store.sourced, y \notin store.seed,
                    \A x \in closure : <<x, y>> \notin store.derived \cup store.related
             PROVE  FALSE
  BY DEF IndependentSourceHolds
<1> USE DEF LoopInv
<1>1. PICK x \in closure : <<x, y>> \in store.derived \cup edges
  BY DEF Parented
<1>2. <<x, y>> \in edges
  BY <1>1
<1>3. Joins(x, y)
  BY <1>2 DEF FromSeed, JoinEdges
<1>4. QED BY <1>1, <1>3 DEF Joins

(* Similarity alone never taints a belief that has a source of its own     *)
(* (engine.py:246-256).                                                    *)
THEOREM IndependentSourcesStayOut == Spec => []IndependentSourceHolds
<1>1. QED BY LoopInvHolds, InvIndependent, PTL
-----------------------------------------------------------------------------
(* The pace of the loop: a round that leaves something to visit has found  *)
(* a member; only the last one may have found none.                        *)
Found == closure \ store.seed

Paced == /\ frontier # {} => rounds <= Cardinality(Found)
         /\ rounds <= 1 + Cardinality(Found)

LEMMA FoundFinite == LoopInv => IsFiniteSet(Found) /\ Cardinality(Found) \in Nat
<1> SUFFICES ASSUME LoopInv PROVE IsFiniteSet(Found) /\ Cardinality(Found) \in Nat
  OBVIOUS
<1>1. Found \subseteq Belief
  BY DEF LoopInv, TypeOK, Found
<1>2. QED BY <1>1, TaintConstants, FS_Subset, FS_CardinalityType

LEMMA InitPaced == Init => Paced
<1> SUFFICES ASSUME Init PROVE Paced
  OBVIOUS
<1>1. Found = {} /\ rounds = 0
  BY DEF Init, Found
<1>2. Cardinality(Found) = 0
  BY <1>1, FS_EmptySet
<1>3. QED BY <1>1, <1>2 DEF Paced

LEMMA RoundKeepsPace == LoopInv /\ LoopInv' /\ Paced /\ Round => Paced'
<1> SUFFICES ASSUME LoopInv, LoopInv', Paced, Round PROVE Paced'
  OBVIOUS
<1>1. rounds' = rounds + 1 /\ rounds \in Nat /\ frontier # {} /\ store' = store
  BY DEF Round, LoopInv, TypeOK
<1>2. closure \subseteq closure' /\ frontier' = closure' \ closure
  BY DEF Round, NewDescendants, NextFrontier
<1>3. IsFiniteSet(Found') /\ Cardinality(Found') \in Nat /\ Cardinality(Found) \in Nat
  <2>1. Found' \subseteq Belief
    BY DEF LoopInv, TypeOK, Found
  <2>2. QED BY <2>1, FoundFinite, TaintConstants, FS_Subset, FS_CardinalityType
<1>4. Found \subseteq Found'
  BY <1>1, <1>2 DEF Found
<1>5. rounds <= Cardinality(Found)
  BY <1>1 DEF Paced
<1>6. Cardinality(Found) <= Cardinality(Found')
  BY <1>3, <1>4, FS_Subset
<1>7. ASSUME frontier' # {} PROVE Cardinality(Found) < Cardinality(Found')
  <2>1. Found # Found'
    BY <1>1, <1>2, <1>7 DEF Found, LoopInv, FromSeed
  <2>2. QED BY <1>3, <1>4, <1>6, <2>1, FS_Subset
<1>8. QED BY <1>1, <1>3, <1>5, <1>6, <1>7 DEF Paced

LEMMA PacedStep == LoopInv /\ LoopInv' /\ Paced /\ [Next]_vars => Paced'
<1> SUFFICES ASSUME LoopInv, LoopInv', Paced, [Next]_vars PROVE Paced'
  OBVIOUS
<1>1. CASE Round
  BY <1>1, RoundKeepsPace
<1>2. CASE Cap
  BY <1>2 DEF Cap, Paced, Found
<1>3. CASE UNCHANGED vars
  BY <1>3 DEF vars, Paced, Found
<1>4. QED BY <1>1, <1>2, <1>3 DEF Next

(* On every derivation graph, cyclic ones included, the loop takes at most *)
(* one round more than it finds beliefs (engine.py:176-280).             *)
THEOREM RoundsAreProductive == Spec => []RoundsMakeProgress
<1>1. Paced => RoundsMakeProgress
  BY DEF Paced, Found, RoundsMakeProgress
<1>2. QED BY <1>1, InitPaced, PacedStep, LoopInvHolds, PTL DEF Spec

-----------------------------------------------------------------------------
(* Completeness.  Neither incompleteness flag goes up without its cause:   *)
(* the cap, only after a chain of rounds that each found a member; the     *)
(* truncation, only when a member has MaxK beliefs close to it.            *)
FlagsHaveCause ==
  /\ capped => MaxRounds <= Cardinality(Found)
  /\ truncated => \E x \in closure : MaxK <= Cardinality(Hot(x))

Caused ==
  /\ capped => frontier # {} /\ rounds = MaxRounds
  /\ truncated => \E x \in probed : MaxK <= Cardinality(Hot(x))

LEMMA CausedStep == LoopInv /\ LoopInv' /\ Caused /\ [Next]_vars => Caused'
<1> SUFFICES ASSUME LoopInv, LoopInv', Caused, [Next]_vars PROVE Caused'
  OBVIOUS
<1>1. CASE Round
  <2>1. ~capped' /\ store' = store
    BY <1>1 DEF Round
  <2>2. PICK probes : /\ probed' = probed \cup probes
                      /\ truncated' = (truncated \/ \E x \in probes : Cardinality(Hot(x)) >= MaxK)
    BY <1>1 DEF Round
  <2>3. \A x : Hot(x)' = Hot(x)
    BY <2>1 DEF Hot
  <2>4. ASSUME truncated' PROVE \E x \in probed' : MaxK <= Cardinality(Hot(x)')
    <3>1. CASE truncated
      BY <2>2, <2>3, <3>1 DEF Caused
    <3>2. CASE ~truncated
      <4>1. PICK x \in probes : Cardinality(Hot(x)) >= MaxK
        BY <2>2, <2>4, <3>2, Zenon
      <4>2. Hot(x) \subseteq Belief
        BY DEF Hot
      <4>3. Cardinality(Hot(x)) \in Nat /\ MaxK \in Nat
        BY <4>2, TaintConstants, FS_Subset, FS_CardinalityType
      <4>4. MaxK <= Cardinality(Hot(x))
        BY <4>1, <4>3
      <4>5. QED BY <2>2, <2>3, <4>1, <4>4
    <3>3. QED BY <3>1, <3>2
  <2>5. QED BY <2>1, <2>4 DEF Caused
<1>2. CASE Cap
  <2>1. rounds = MaxRounds /\ frontier # {}
    BY <1>2, TaintConstants DEF Cap, Exhausted, LoopInv, TypeOK
  <2>2. UNCHANGED <<store, frontier, probed, rounds, truncated>>
    BY <1>2 DEF Cap
  <2>3. QED BY <2>1, <2>2 DEF Caused, Hot
<1>3. CASE UNCHANGED vars
  BY <1>3 DEF vars, Caused, Hot
<1>4. QED BY <1>1, <1>2, <1>3 DEF Next

LEMMA CausedHolds == Spec => [](LoopInv /\ Paced /\ Caused)
<1>1. Init => Caused
  BY DEF Init, Caused
<1>2. QED BY <1>1, InitInv, LoopInvStep, InitPaced, PacedStep, CausedStep, PTL DEF Spec

(* The cap cuts only real chains short, and a search is called truncated   *)
(* only when some member really has that many neighbours, on every         *)
(* snapshot (engine.py:182-184).                                           *)
THEOREM FlagsAreEarned == Spec => []FlagsHaveCause
<1>1. LoopInv /\ Paced /\ Caused => FlagsHaveCause
  BY DEF LoopInv, TypeOK, Paced, Caused, FlagsHaveCause
<1>2. QED BY <1>1, CausedHolds, PTL

(* A closure over a store of no more than MaxRounds beliefs, and fewer     *)
(* than MaxK, is whole: neither flag can be up, and it is all that         *)
(* derivations and similarity reach (engine.py:3-10).                      *)
THEOREM SmallStoresGetWholeClosures ==
  ASSUME Cardinality(Belief) <= MaxRounds, Cardinality(Belief) < MaxK
  PROVE  Spec => [](Returned => /\ ~capped /\ ~truncated
                                /\ closure = Reach(store.derived \cup JoinEdges, store.seed))
<1>1. ASSUME LoopInv, Paced, Caused, FlagsHaveCause, ReturnsContract, Returned
      PROVE  /\ ~capped /\ ~truncated
             /\ closure = Reach(store.derived \cup JoinEdges, store.seed)
  <2>1. /\ Cardinality(Belief) \in Nat /\ MaxRounds \in Nat /\ MaxK \in Nat
        /\ IsFiniteSet(Belief)
    BY TaintConstants, FS_CardinalityType
  <2>2. ~truncated
    <3>1. ASSUME NEW x PROVE Cardinality(Hot(x)) \in Nat /\ Cardinality(Hot(x)) <= Cardinality(Belief)
      <4>1. Hot(x) \subseteq Belief
        BY DEF Hot
      <4>2. QED BY <2>1, <4>1, FS_Subset, FS_CardinalityType
    <3>2. \A x : ~(MaxK <= Cardinality(Hot(x)))
      BY <2>1, <3>1
    <3>3. QED BY <1>1, <3>2 DEF FlagsHaveCause
  <2>3. ASSUME capped PROVE FALSE
    <3>1. Found \subseteq Belief /\ Cardinality(Found) \in Nat
      BY <1>1, FoundFinite DEF LoopInv, TypeOK, Found
    <3>2. Cardinality(Found) <= Cardinality(Belief)
      BY <2>1, <3>1, FS_Subset
    <3>3. Cardinality(Found) = Cardinality(Belief)
      BY <1>1, <2>1, <2>3, <3>1, <3>2 DEF FlagsHaveCause
    <3>4. Found = Belief
      BY <2>1, <3>1, <3>3, FS_Subset
    <3>5. store.seed = {}
      BY <1>1, <3>4 DEF Found, LoopInv, TypeOK, Store
    <3>6. Reach(store.derived \cup edges, {}) = {}
      <4>1. ClosedUnder(store.derived \cup edges, {})
        BY DEF ClosedUnder
      <4>2. QED BY <4>1, ReachLeast
    <3>7. closure = {}
      BY <1>1, <3>5, <3>6 DEF LoopInv, FromSeed
    <3>8. QED BY <1>1, <2>3, <3>7 DEF Caused, LoopInv, TypeOK
  <2>4. QED BY <1>1, <2>2, <2>3 DEF ReturnsContract, MeetsContract
<1>2. QED BY <1>1, CausedHolds, FlagsAreEarned, EngineKeepsContract, PTL
=============================================================================
