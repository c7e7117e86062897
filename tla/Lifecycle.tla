----------------------------- MODULE Lifecycle -----------------------------
(***************************************************************************)
(* What becomes of a belief, and who answers for it: the part of the       *)
(* ledger that the other services rely on and the modules about them       *)
(* repeat in their own terms.  A belief is born active or suspect; a       *)
(* recant takes active and suspect ones to quarantined, all in the commit  *)
(* that lists them under its event; the TTL job may take any row away; and *)
(* nothing goes back.  Ledger, Fanout and Forensics implement it.          *)
(***************************************************************************)
CONSTANTS
  Belief,
  Event      \* a recant's: its incident, signed action and outbox event

VARIABLES
  status,    \* beliefs.status, "unwritten" before and "gone" after the row
  opened,    \* events of the recants committed so far
  flipped    \* what each of them lists

vars == <<status, opened, flipped>>

Init ==
  /\ status = [b \in Belief |-> "unwritten"]
  /\ opened = {}
  /\ flipped = [e \in Event |-> {}]

Write(b, birth) ==
  /\ status[b] = "unwritten"
  /\ status' = [status EXCEPT ![b] = birth]
  /\ UNCHANGED <<opened, flipped>>

Flip(e, F) ==
  /\ e \notin opened
  /\ \A b \in F : status[b] \in {"active", "suspect"}
  /\ status' = [b \in Belief |-> IF b \in F THEN "quarantined" ELSE status[b]]
  /\ opened' = opened \cup {e}
  /\ flipped' = [flipped EXCEPT ![e] = F]

Delete(b) ==
  /\ status[b] \notin {"unwritten", "gone"}
  /\ status' = [status EXCEPT ![b] = "gone"]
  /\ UNCHANGED <<opened, flipped>>

Next ==
  \/ \E b \in Belief, birth \in {"active", "suspect"} : Write(b, birth)
  \/ \E e \in Event, F \in SUBSET Belief : Flip(e, F)
  \/ \E b \in Belief : Delete(b)

Spec == Init /\ [][Next]_vars
=============================================================================
