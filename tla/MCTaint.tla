------------------------------ MODULE MCTaint ------------------------------
(* Small snapshots for Taint: every derivation graph in which a child is   *)
(* newer than its parents, every symmetric similarity, and a choice of     *)
(* which beliefs have a source, a relation or a taintable status.          *)
EXTENDS Taint

MCBelief == 1..4
Older == {e \in Edge : e[1] < e[2]}
Both(N) == N \cup {<<e[2], e[1]>> : e \in N} \cup {<<b, b>> : b \in Belief}

(* Belief 1 cites the source; 4 has another source. *)
Snapshot(derived, near, related, taintable) ==
  [seed |-> {1}, derived |-> derived,
   similarity |-> [e \in Edge |-> IF e \in Both(near)
                                  THEN IF 4 \in {e[1], e[2]} THEN 2 ELSE 1 ELSE 0],
   sourced |-> {1, 4}, related |-> related,
   taintable |-> taintable, recent |-> Belief]

MCStores ==
  {Snapshot(D, N, R, T) : D \in SUBSET Older, N \in SUBSET Older,
                          R \in {{}, {<<2, 4>>}}, T \in {Belief, Belief \ {3}}}
=============================================================================
