------------------------------ MODULE Delivery ------------------------------
(***************************************************************************)
(* What the outbox promises its consumers, by whichever way an event takes *)
(* to them: the poller's (Fanout) or the changefeed's (Transport).  Only   *)
(* what was posted is applied, a consumer applies an event once, and it    *)
(* does so in the end or the way has given up on it.  Where an event goes  *)
(* that was given up is the way's affair: to an operator or nowhere.       *)
(***************************************************************************)
EXTENDS Naturals, Sequences

CONSTANTS Event, Consumer

VARIABLES
  posted,   \* events in the outbox
  applied,  \* the <<event, consumer>> pairs applied, in commit order
  givenUp   \* pairs the way has given up on

vars == <<posted, applied, givenUp>>

Init ==
  /\ posted = {}
  /\ applied = <<>>
  /\ givenUp = {}

Post(e) ==
  /\ posted' = posted \cup {e}
  /\ UNCHANGED <<applied, givenUp>>

IsApplied(e, c) == \E i \in DOMAIN applied : applied[i] = <<e, c>>

Apply(e, c) ==
  /\ e \in posted
  /\ ~IsApplied(e, c)
  /\ applied' = Append(applied, <<e, c>>)
  /\ UNCHANGED <<posted, givenUp>>

(* An event may be given up although its consumer has applied it and only  *)
(* failed to say so.                                                       *)
GiveUp(e, c) ==
  /\ e \in posted
  /\ givenUp' = givenUp \cup {<<e, c>>}
  /\ UNCHANGED <<posted, applied>>

Next ==
  \/ \E e \in Event : Post(e)
  \/ \E e \in Event, c \in Consumer : Apply(e, c) \/ GiveUp(e, c)

Safe == Init /\ [][Next]_vars

Live ==
  \A e \in Event, c \in Consumer :
    e \in posted ~> (IsApplied(e, c) \/ <<e, c>> \in givenUp)
=============================================================================
