------------------------------- MODULE Fanout -------------------------------
(***************************************************************************)
(* The eviction fanout: fanout/worker.py and fanout/handler.py, and the    *)
(* agents whose working memory it cleans (fleet/agents.py).                *)
(*                                                                         *)
(* A recant leaves one event in the outbox (memory_events).  Workers poll  *)
(* it: a pass reads a batch of events its consumer has no delivery row     *)
(* for, then applies them one transaction each: delete the evicted beliefs *)
(* from agent_memory, abort the pending actions resting on them, write an  *)
(* eviction receipt and the delivery row.  Workers may share a consumer    *)
(* name, hold a batch that has gone stale, and die at any point.           *)
(*                                                                         *)
(* Meanwhile an agent mirrors what it wrote: the gateway answers 201, the  *)
(* text is added to agent_memory in a transaction of its own, and the      *)
(* belief's status is read again in a third one.  The recant, the workers  *)
(* and these steps interleave freely, and the TTL job may delete the       *)
(* beliefs themselves, whose mirrors no foreign key ties to them.          *)
(*                                                                         *)
(* Left out: malformed events, which no handler of this program writes;    *)
(* the ORDER BY of the poll, which the code calls best effort; similarity  *)
(* search and transcripts.                                                 *)
(***************************************************************************)
EXTENDS Integers, Sequences, FiniteSets

CONSTANTS
  Belief,      \* beliefs.belief_id, and agent_memory.id
  Action,      \* agent_actions.action_id
  Support,     \* agent_actions.derived_from
  Event,       \* memory_events.event_id of recant events
  Consumer,    \* durable consumer names
  Worker,      \* worker processes
  ConsumerOf,  \* --consumer
  BatchLimit,  \* worker.py BATCH_LIMIT
  MaxCrashes,  \* bound: times a worker dies
  AgentsStop,  \* may the agents' process die?
  RowsExpire,  \* do the beliefs cite an untrusted source, and nothing them?
  NoEvent      \* an event id not in the outbox

ASSUME FanoutConstants ==
  /\ Support \in [Action -> SUBSET Belief]
  /\ ConsumerOf \in [Worker -> Consumer]
  /\ BatchLimit \in Nat \ {0}
  /\ MaxCrashes \in Nat
  /\ AgentsStop \in BOOLEAN
  /\ RowsExpire \in BOOLEAN
  /\ \A B \in SUBSET Belief : B # NoEvent

VARIABLES
  status,     \* beliefs.status; "unwritten" before the gateway's 201,
              \* "gone" once the TTL job deleted the row
  mirror,     \* how far the agent is with mirroring a belief
  memory,     \* agent_memory.id
  action,     \* agent_actions.status
  outbox,     \* the beliefs each recant event evicts
  delivered,  \* fanout_deliveries: the primary key (event_id, consumer)
  receipts,   \* memory_events of kind eviction, in commit order
  batch,      \* per worker: events its pass has read and not come to yet
  crashes     \* times a worker died so far

vars == <<status, mirror, memory, action, outbox, delivered, receipts,
          batch, crashes>>

Posted == {e \in Event : outbox[e] # NoEvent}

ReceiptRow == [event : Event, consumer : Consumer,
               evicted : SUBSET Belief, aborted : SUBSET Action]

TypeOK ==
  /\ status \in [Belief -> {"unwritten", "active", "suspect", "quarantined", "gone"}]
  /\ mirror \in [Belief -> {"none", "written", "added", "finished", "stopped"}]
  /\ memory \subseteq Belief
  /\ action \in [Action -> {"none", "pending", "aborted"}]
  /\ outbox \in [Event -> (SUBSET Belief) \cup {NoEvent}]
  /\ delivered \subseteq Posted \X Consumer
  /\ receipts \in Seq(ReceiptRow)
  /\ batch \in [Worker -> SUBSET Posted]
  /\ crashes \in 0 .. MaxCrashes

Init ==
  /\ status = [b \in Belief |-> "unwritten"]
  /\ mirror = [b \in Belief |-> "none"]
  /\ memory = {}
  /\ action = [a \in Action |-> "none"]
  /\ outbox = [e \in Event |-> NoEvent]
  /\ delivered = {}
  /\ receipts = <<>>
  /\ batch = [w \in Worker |-> {}]
  /\ crashes = 0

-----------------------------------------------------------------------------
(* The agents. *)

(* The gateway's 201 (module Ledger): only a belief born active goes on to *)
(* working memory.                                                         *)
WriteBelief(b, birth) ==
  /\ status[b] = "unwritten"
  /\ status' = [status EXCEPT ![b] = birth]
  /\ mirror' = [mirror EXCEPT ![b] =
                  IF birth = "active" THEN "written" ELSE "finished"]
  /\ UNCHANGED <<memory, action, outbox, delivered, receipts, batch, crashes>>

(* add_texts: an upsert under the belief's id, committed at once. *)
AddTexts(b) ==
  /\ mirror[b] = "written"
  /\ memory' = memory \cup {b}
  /\ mirror' = [mirror EXCEPT ![b] = "added"]
  /\ UNCHANGED <<status, action, outbox, delivered, receipts, batch, crashes>>

(* The recheck: remove the mirror of a belief that flipped meanwhile.  An  *)
(* assertion expects the row to be there.  (Mutated form: the flip is seen *)
(* and the mirror left there.)                                             *)
RecheckLeaves(b) ==
  /\ mirror[b] = "added"
  /\ mirror' = [mirror EXCEPT ![b] = "finished"]
  /\ UNCHANGED <<status, memory, action, outbox, delivered, receipts, batch,
                 crashes>>
Recheck(b) ==
  /\ mirror[b] = "added"
  /\ memory' = IF status[b] \in {"active", "gone"} THEN memory ELSE memory \ {b}
  /\ mirror' = [mirror EXCEPT ![b] =
                  IF status[b] = "gone" THEN "stopped" ELSE "finished"]
  /\ UNCHANGED <<status, action, outbox, delivered, receipts, batch, crashes>>

(* The process dies; a second run refuses to start (AlreadySeeded). *)
AgentStops(b) ==
  /\ AgentsStop
  /\ mirror[b] \in {"written", "added"}
  /\ mirror' = [mirror EXCEPT ![b] = "stopped"]
  /\ UNCHANGED <<status, memory, action, outbox, delivered, receipts, batch,
                 crashes>>

(* _enqueue_action, after the beliefs it names: whatever became of them. *)
EnqueueAction(a) ==
  /\ action[a] = "none"
  /\ \A b \in Support[a] : mirror[b] = "finished"
  /\ action' = [action EXCEPT ![a] = "pending"]
  /\ UNCHANGED <<status, mirror, memory, outbox, delivered, receipts, batch,
                 crashes>>

-----------------------------------------------------------------------------
(* A recant over closure C (module Guard): the flip and its event, which   *)
(* names the newly flipped beliefs and may name none.                      *)
Recant(e, C) ==
  LET flipped == {b \in C : status[b] \in {"active", "suspect"}}
  IN /\ outbox[e] = NoEvent
     /\ status' = [b \in Belief |->
                     IF b \in flipped THEN "quarantined" ELSE status[b]]
     /\ outbox' = [outbox EXCEPT ![e] = flipped]
     /\ UNCHANGED <<mirror, memory, action, delivered, receipts, batch, crashes>>

(* The row-level TTL job deletes an expired belief.  Nothing tells the     *)
(* mirror, and the delete of apply_evictions joins with beliefs.           *)
DeleteByTTL(b) ==
  /\ RowsExpire
  /\ status[b] \notin {"unwritten", "gone"}
  /\ status' = [status EXCEPT ![b] = "gone"]
  /\ UNCHANGED <<mirror, memory, action, outbox, delivered, receipts, batch,
                 crashes>>

-----------------------------------------------------------------------------
(* The workers. *)

(* POLL_SQL: recant events without a delivery row of this consumer.        *)
(* (Mutated form: without one of any consumer.)                            *)
UndeliveredByAll(c) == {e \in Posted : \A d \in Consumer : <<e, d>> \notin delivered}
Undelivered(c) == {e \in Posted : <<e, c>> \notin delivered}

(* LIMIT: all of them, or as many as fit. *)
Batches(S) ==
  {B \in SUBSET S : B = S \/ Cardinality(B) = BatchLimit}

Poll(w) ==
  /\ batch[w] = {}
  /\ Undelivered(ConsumerOf[w]) # {}
  /\ \E B \in Batches(Undelivered(ConsumerOf[w])) :
       /\ Cardinality(B) <= BatchLimit
       /\ batch' = [batch EXCEPT ![w] = B]
  /\ UNCHANGED <<status, mirror, memory, action, outbox, delivered, receipts,
                 crashes>>

(* apply_evictions: the rows event e deletes, those of beliefs still there *)
(* in the tenant, and the actions it aborts.                               *)
(* (Mutated forms: a join that spares rows no longer active; the status    *)
(* filter dropped; containment in place of overlap.)                       *)
EvictsActive(e) == {b \in outbox[e] \cap memory : status[b] = "active"}
AbortsSettled(e) == {a \in Action : action[a] # "none" /\ Support[a] \cap outbox[e] # {}}
AbortsWholly(e) == {a \in Action : action[a] = "pending" /\ Support[a] \subseteq outbox[e]}
Evicts(e) == {b \in outbox[e] \cap memory : status[b] # "gone"}
Aborts(e) == {a \in Action : action[a] = "pending" /\ Support[a] \cap outbox[e] # {}}

(* The three writes.  (Mutated form: the action's status and status_reason *)
(* are swapped.)                                                           *)
ApplySwapped(e, c) ==
  /\ memory' = memory \ Evicts(e)
  /\ action' = [a \in Action |-> IF a \in Aborts(e) THEN "recant" ELSE action[a]]
  /\ receipts' = Append(receipts, [event |-> e, consumer |-> c,
                                   evicted |-> Evicts(e), aborted |-> Aborts(e)])
Apply(e, c) ==
  /\ memory' = memory \ Evicts(e)
  /\ action' = [a \in Action |-> IF a \in Aborts(e) THEN "aborted" ELSE action[a]]
  /\ receipts' = Append(receipts, [event |-> e, consumer |-> c,
                                   evicted |-> Evicts(e), aborted |-> Aborts(e)])

(* record_delivery: a second row under the key is a UniqueViolation.       *)
(* (Mutated form: no such key.)                                            *)
RecordsAgain(e, c) == TRUE
Records(e, c) == <<e, c>> \notin delivered

(* deliver_event, one transaction. *)
Deliver(w, e) ==
  /\ e \in batch[w]
  /\ Records(e, ConsumerOf[w])
  /\ Apply(e, ConsumerOf[w])
  /\ delivered' = delivered \cup {<<e, ConsumerOf[w]>>}
  /\ batch' = [batch EXCEPT ![w] = @ \ {e}]
  /\ UNCHANGED <<status, mirror, outbox, crashes>>

(* The same transaction lost to a peer of the same name, and rolled back. *)
LoseRace(w, e) ==
  /\ e \in batch[w]
  /\ ~Records(e, ConsumerOf[w])
  /\ batch' = [batch EXCEPT ![w] = @ \ {e}]
  /\ UNCHANGED <<status, mirror, memory, action, outbox, delivered, receipts,
                 crashes>>

(* The worker dies, inside a transaction or between two: what it had not   *)
(* committed is gone, and so is its batch.                                 *)
WorkerDies(w) ==
  /\ crashes < MaxCrashes
  /\ batch[w] # {}
  /\ batch' = [batch EXCEPT ![w] = {}]
  /\ crashes' = crashes + 1
  /\ UNCHANGED <<status, mirror, memory, action, outbox, delivered, receipts>>

-----------------------------------------------------------------------------
Mirroring(b) == AddTexts(b) \/ Recheck(b)
Working(w) == Poll(w) \/ \E e \in Event : Deliver(w, e) \/ LoseRace(w, e)

Next ==
  \/ \E b \in Belief, birth \in {"active", "suspect"} : WriteBelief(b, birth)
  \/ \E b \in Belief : Mirroring(b) \/ AgentStops(b)
  \/ \E a \in Action : EnqueueAction(a)
  \/ \E e \in Event,
       C \in SUBSET {b \in Belief : status[b] \notin {"unwritten", "gone"}} :
       Recant(e, C)
  \/ \E b \in Belief : DeleteByTTL(b)
  \/ \E w \in Worker : Working(w) \/ WorkerDies(w)

Spec == Init /\ [][Next]_vars

(* Workers poll for ever, and a mirror that was begun is gone on with. *)
FairSpec ==
  /\ Spec
  /\ \A w \in Worker : WF_vars(Working(w))
  /\ \A b \in Belief : WF_vars(Mirroring(b))

-----------------------------------------------------------------------------
(* Properties. *)

Rows == DOMAIN receipts

(* The effect of an event is exactly once per consumer, whoever raced on   *)
(* it, died in it or came back to it with a stale batch: one receipt for   *)
(* every delivery row and for no other pair (migration 0006).              *)
ExactlyOnce ==
  /\ \A i, j \in Rows :
       receipts[i].event = receipts[j].event
         /\ receipts[i].consumer = receipts[j].consumer => i = j
  /\ delivered = {<<receipts[i].event, receipts[i].consumer>> : i \in Rows}

(* The receipts account for every effect, however many consumers there     *)
(* are: an action is aborted by exactly the one receipt that lists it, on  *)
(* an event that evicts what it rests on, and no memory row is claimed by  *)
(* two receipts (fanout/handler.py:154-171).                               *)
ReceiptsAccount ==
  /\ \A a \in Action :
       action[a] = "aborted" <=> \E i \in Rows : a \in receipts[i].aborted
  /\ \A i \in Rows : \A a \in receipts[i].aborted :
       Support[a] \cap outbox[receipts[i].event] # {}
  /\ \A i, j \in Rows : i # j =>
       /\ receipts[i].aborted \cap receipts[j].aborted = {}
       /\ receipts[i].evicted \cap receipts[j].evicted = {}

(* A quarantined belief is in working memory only while somebody is still  *)
(* bound to remove it: an event no consumer has applied yet, or the        *)
(* agent's recheck.  This is what fleet/agents.py:73-78 claims to have     *)
(* closed; it rests on the agent living to make the recheck.               *)
NoResidue ==
  \A b \in memory : status[b] = "quarantined" =>
    \/ mirror[b] = "added"
    \/ \E e \in Posted : b \in outbox[e] /\ \A c \in Consumer : <<e, c>> \notin delivered

(* An action that rests on recanted evidence, and one some event not yet   *)
(* applied by all will abort.                                              *)
Doomed(a) == action[a] = "pending" /\ \E b \in Support[a] : status[b] = "quarantined"
Owed(a) == \E e \in Posted, c \in Consumer :
             Support[a] \cap outbox[e] # {} /\ <<e, c>> \notin delivered

(* The abort misses late actions and no others.  The schema says what the  *)
(* overlap catches: actions enqueued between recant and worker pass        *)
(* (0006_fanout_and_actions.sql:20-22).  _enqueue_action looks at no       *)
(* status (fleet/agents.py:143-173), so an action enqueued after the       *)
(* delivery stays pending; but no race of recants, workers, crashes and    *)
(* expiries makes another such action, or takes an event from one owed it. *)
OnlyLateActionsEscape ==
  [][\A a \in Action : Doomed(a)' /\ ~Owed(a)'
                       => (Doomed(a) /\ ~Owed(a)) \/ EnqueueAction(a)]_vars

(* The outbox keeps what it promises: what is applied was posted, each     *)
(* consumer somebody works for applies an event once, and no event is      *)
(* skipped (fanout/worker.py:3-15).                                        *)
Promise == INSTANCE Delivery WITH
  Consumer <- {ConsumerOf[w] : w \in Worker},
  posted <- Posted,
  applied <- [i \in DOMAIN receipts |-> <<receipts[i].event, receipts[i].consumer>>],
  givenUp <- {}
KeepsDelivery == Promise!Safe /\ Promise!Live

(* "The durable outbox then evicts those beliefs from agent working        *)
(* memory" (README.md:7-8): it comes clean and stays clean of what was     *)
(* recanted, as long as the worker comes before the TTL job.               *)
MemoryComesClean ==
  \A b \in Belief : [](status[b] = "quarantined" => <>[](b \notin memory))
=============================================================================
