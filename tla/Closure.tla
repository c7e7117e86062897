------------------------------ MODULE Closure ------------------------------
(***************************************************************************)
(* Reachability over taint edges <<from, to>>, and what a recant may rely  *)
(* on when it flips the closure that compute_closure returned              *)
(* (services/taint_engine/engine.py).  Taint shows that the engine keeps   *)
(* the contract; Ledger recants over any closure the contract admits.      *)
(***************************************************************************)
CONSTANT Belief

ClosedUnder(E, T) == \A e \in E : e[1] \in T => e[2] \in T

(* WITH RECURSIVE: the least set of beliefs that holds S and follows E.    *)
Reach(E, S) ==
  {b \in Belief : \A T \in SUBSET Belief :
                    S \subseteq T /\ ClosedUnder(E, T) => b \in T}

(* A whole closure is everything reachable over derivations and inferred   *)
(* similarity; a partial one (a round cap or a truncated neighbour search) *)
(* still holds all that derives from the seed.  Either way the inferred    *)
(* edges handed back lie inside it and account for every member.           *)
MeetsContract(C, inferred, seed, derived, joins, partial) ==
  /\ Reach(derived, seed) \subseteq C
  /\ inferred \subseteq (C \X C) \cap joins
  /\ C \subseteq Reach(derived \cup inferred, seed)
  /\ partial \/ C = Reach(derived \cup joins, seed)
=============================================================================
