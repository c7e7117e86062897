------------------------------ MODULE MCFanout ------------------------------
(* Small instances of Fanout for TLC. *)
EXTENDS Fanout, TLC

CONSTANTS b1, b2, a1, w1, w2, w3, local, peer

(* One action resting on both beliefs. *)
MCSupport == a1 :> {b1, b2}
NoSupport == <<>>

(* Two workers share a consumer name, a third has its own. *)
ThreeWorkers == (w1 :> local) @@ (w2 :> local) @@ (w3 :> peer)
OneEach == (w1 :> local) @@ (w2 :> peer)
TwoWorkers == (w1 :> local) @@ (w2 :> local)

Ids == Permutations({b1, b2})
=============================================================================
