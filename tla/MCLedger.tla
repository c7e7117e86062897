------------------------------ MODULE MCLedger ------------------------------
(* Small instances of Ledger for TLC. *)
EXTENDS Ledger, TLC

CONSTANTS b1, b2, b3, s1, i1, i2, c1, c2

(* s1 is untrusted (10), s2 verified (60). *)
MCRank == [s \in Source |-> IF s = s1 THEN 10 ELSE 60]

(* All contents are paraphrases of each other. *)
MCNear == Content \X Content

Ids == Permutations({b1, b2, b3}) \cup Permutations({i1, i2})
PairIds == Permutations({b1, b2}) \cup Permutations({i1, i2})
             \cup Permutations({c1, c2})
=============================================================================
