---------------------------- MODULE MCForensics -----------------------------
(* A small instance of Forensics for TLC. *)
EXTENDS Forensics, TLC

CONSTANTS b1, b2, c1, c2, c3

(* The beliefs are of two agents; the others only have leaves. *)
MCOwner == (b1 :> 1) @@ (b2 :> 2)

Calls == Permutations({c1, c2, c3})
=============================================================================
