------------------------------ MODULE MCGuard ------------------------------
(* Small instances of Guard for TLC. *)
EXTENDS Guard, TLC

CONSTANTS b1, b2, d1, d2

(* One belief that satisfies the strict policy, one that does not. *)
MCAuthority == (b1 :> 70) @@ (b2 :> 10)

Refund == [risk |-> "effect", required |-> 70, confirmable |-> TRUE]
Lookup == [risk |-> "read", required |-> 10, confirmable |-> FALSE]
TwoPolicies == {Refund, Lookup}
=============================================================================
