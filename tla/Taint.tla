------------------------------- MODULE Taint -------------------------------
(***************************************************************************)
(* compute_closure (services/taint_engine/engine.py): the contamination    *)
(* closure of a source, explicit descendants and vector neighbours in      *)
(* alternating rounds.                                                     *)
(*                                                                         *)
(* The function runs inside the caller's SERIALIZABLE transaction, so the  *)
(* rows it reads are one snapshot, the variable store, that no step        *)
(* changes; a step is one turn of the while loop.  Left out: embeddings    *)
(* (only similarity matters), the evidence labels of an inferred edge, and *)
(* timing.                                                                 *)
(***************************************************************************)
EXTENDS Integers, FiniteSets, Closure

CONSTANTS
  Stores,      \* snapshots the closure may be computed over
  Threshold,   \* default_threshold()
  MaxK,        \* KNN_MAX_K: neighbours a probe can see
  MaxRounds    \* MAX_ROUNDS

Edge == Belief \X Belief

Store == [seed       : SUBSET Belief,        \* beliefs citing the source
          derived    : SUBSET Edge,          \* derivations, <<parent, child>>
          similarity : [Edge -> Nat],        \* 1 - cosine distance
          sourced    : SUBSET Belief,        \* beliefs with a source_id
          related    : SUBSET Edge,          \* semantic_relations, equal text
          taintable  : SUBSET Belief,        \* status active or suspect
          recent     : SUBSET Belief]        \* created_at >= window_start

ASSUME TaintConstants ==
  /\ IsFiniteSet(Belief)
  /\ Stores \subseteq Store
  /\ Threshold \in Nat /\ MaxK \in Nat /\ MaxRounds \in Nat \ {0}

VARIABLES
  store,      \* the snapshot
  closure,    \* members found so far
  frontier,   \* members whose neighbours are still to be visited
  probed,     \* members already used as a kNN probe
  edges,      \* inferred edges <<parent, child>>
  rounds, capped, truncated

vars == <<store, closure, frontier, probed, edges, rounds, capped, truncated>>

TypeOK ==
  /\ store \in Store
  /\ closure \subseteq Belief
  /\ frontier \subseteq closure
  /\ probed \subseteq closure
  /\ edges \subseteq Edge
  /\ rounds \in 0..MaxRounds
  /\ capped \in BOOLEAN /\ truncated \in BOOLEAN

Init ==
  /\ store \in Stores
  /\ closure = store.seed /\ frontier = store.seed
  /\ probed = {} /\ edges = {} /\ rounds = 0
  /\ capped = FALSE /\ truncated = FALSE

-----------------------------------------------------------------------------
(* _knn_hits: a probe sees every belief at least Threshold close to it,    *)
(* itself included, or the MaxK closest of them.                           *)
Hot(x) == {y \in Belief : store.similarity[<<x, y>>] >= Threshold}
Overflows(x) == Cardinality(Hot(x)) > MaxK

(* The filter on a hit: taintable and created since the source entered; a  *)
(* belief with its own source only when it is known to say the same.       *)
(* (Mutated form: any close neighbour joins.)                              *)
AnyNeighbour(x, y) ==
  y # x /\ y \in Hot(x) /\ y \in store.taintable /\ y \in store.recent
Joins(x, y) ==
  /\ y # x /\ y \in Hot(x)
  /\ y \in store.taintable
  /\ y \in store.recent
  /\ y \in store.sourced => <<x, y>> \in store.related

(* _explicit_descendants minus the closure: the recursive walk over the    *)
(* derivations.  (Mutated form: members already visited come back.)        *)
Revisited(F) == Reach(store.derived, F)
NewDescendants(F) == Reach(store.derived, F) \ closure

(* The runaway guard.  (Mutated form: one round too many.)                 *)
LateExhausted == rounds > MaxRounds
Exhausted == rounds >= MaxRounds

(* The next round visits what this one added.  (Mutated form: the hits are *)
(* not walked.)                                                            *)
ExplicitFrontier(explicit, implicit) == explicit
NextFrontier(explicit, implicit) == explicit \cup implicit

(* A hit is recorded as derived from the probe that found it.  (Mutated    *)
(* form: parent and child swapped.)                                        *)
AsChildEdges(best) == {<<y, best[y]>> : y \in DOMAIN best}
InferredEdges(best) == {<<best[y], y>> : y \in DOMAIN best}

(* One turn of the loop.  A probe that overflows may miss any of its hits. *)
Round ==
  /\ frontier # {} /\ ~capped
  /\ ~Exhausted
  /\ rounds' = rounds + 1
  /\ LET explicit == NewDescendants(frontier)
         covered == closure \cup explicit
         probes == (frontier \cup explicit) \ probed
         hits == {y \in Belief \ covered : \E x \in probes : Joins(x, y)}
     IN \E implicit \in SUBSET hits : \E best \in [implicit -> probes] :
          /\ \A y \in hits \ implicit, x \in probes : Joins(x, y) => Overflows(x)
          /\ \A y \in implicit :
               /\ Joins(best[y], y)
               /\ \A x \in probes : Joins(x, y) /\ ~Overflows(x) =>
                    store.similarity[<<x, y>>] <= store.similarity[<<best[y], y>>]
          /\ closure' = covered \cup implicit
          /\ probed' = probed \cup probes
          /\ edges' = edges \cup InferredEdges(best)
          /\ frontier' = NextFrontier(explicit, implicit)
          /\ truncated' = (truncated \/ \E x \in probes : Cardinality(Hot(x)) >= MaxK)
  /\ UNCHANGED <<store, capped>>

(* The runaway guard: members are left unvisited. *)
Cap ==
  /\ frontier # {} /\ ~capped
  /\ Exhausted
  /\ capped' = TRUE
  /\ UNCHANGED <<store, closure, frontier, probed, edges, rounds, truncated>>

Next == Round \/ Cap
Spec == Init /\ [][Next]_vars

-----------------------------------------------------------------------------
(* Properties. *)

Returned == frontier = {} \/ capped

(* The edges a hit may be inferred over in this snapshot. *)
JoinEdges == {e \in Edge : Joins(e[1], e[2])}

(* What the engine hands to a recant keeps the contract the recant relies  *)
(* on: whole unless one of the two incompleteness flags is up, and even    *)
(* then it holds every recorded descendant of the source (the promise of   *)
(* engine.py:3-10 and of the warnings in quarantine/app.py:327-333).       *)
ReturnsContract ==
  Returned => MeetsContract(closure, edges, store.seed, store.derived,
                            JoinEdges, capped \/ truncated)

(* The evidence explains the verdict: following derivations and the        *)
(* inferred edges the recant will store from the seed gives exactly the    *)
(* closure, so a later explicit walk finds the same beliefs.               *)
EdgesExplainClosure ==
  Returned /\ ~capped => closure = Reach(store.derived \cup edges, store.seed)

(* A belief with a source of its own is never tainted by similarity alone  *)
(* (engine.py:251-255): it cites the source, derives from a tainted belief *)
(* or is known to say the same as one.                                     *)
IndependentSourceHolds ==
  \A y \in closure \cap store.sourced :
    \/ y \in store.seed
    \/ \E x \in closure : <<x, y>> \in store.derived \cup store.related

(* Every round but the last finds a new member, so the loop ends on any    *)
(* graph and the cap (engine.py:182-184) only cuts real chains short.      *)
RoundsMakeProgress == rounds <= 1 + Cardinality(closure \ store.seed)
=============================================================================
