----------------------------- MODULE Transport ------------------------------
(***************************************************************************)
(* The cloud way of an event from the outbox to the evictor: a changefeed  *)
(* posts envelopes of rows to the receiver (fanout/lambda_entry.py), which *)
(* puts them on EventBridge; the bus hands them to AWS Lambda, which       *)
(* invokes the consumer (fanout/consumer_entry.py) from a queue of its     *)
(* own; and the consumer applies each in one transaction.                  *)
(*                                                                         *)
(* Everything on the way is tried again.  The feed posts a row until an    *)
(* envelope with it was answered 200, and forgets some of those answers    *)
(* when it restarts.  The bus hands a message over until Lambda takes it,  *)
(* twice perhaps, or, after the attempts or the day of the target's        *)
(* RetryPolicy, moves it to the dead-letter queue.  That policy ends with  *)
(* the hand-over, for EventBridge invokes a function asynchronously: an    *)
(* invocation that raises is tried again from Lambda's queue, and after    *)
(* MaxAttempts invocations the message is discarded, since                 *)
(* fanout/iac/deploy.sh gives the consumer no on-failure destination, no   *)
(* dead-letter queue and no event-invoke configuration.                    *)
(*                                                                         *)
(* Several invocations of each function run at a time and may die at any   *)
(* step.  An event too large for the bus travels as a reference to an      *)
(* object put beforehand.                                                  *)
(*                                                                         *)
(* Left out: authorization of the webhook and malformed input; a           *)
(* deployment without a manifest bucket, and manifests above the           *)
(* consumer's MAX_MANIFEST_BYTES; rows of other kinds and deletes, which   *)
(* the receiver skips; the content of events, which no party alters and    *)
(* the consumer compares with the outbox row; and a message that Lambda    *)
(* drops for its age, having found no time for it.  Messages of one event  *)
(* that wait at one place after as many attempts are counted as one.       *)
(***************************************************************************)
EXTENDS Integers, Sequences, FiniteSets

CONSTANTS
  Event,        \* memory_events.event_id of recant events
  Oversized,    \* events above MAX_ENTRY_BYTES
  Receiver,     \* concurrent invocations of the receiver
  Evictor,      \* concurrent invocations of the consumer
  BatchSize,    \* lambda_entry.py PUTEVENTS_BATCH
  MaxAttempts,  \* invocations Lambda makes of a message: 1 and its retries
  MaxFaults,    \* bound: receiver failures, rejected batches, feed restarts
                \* and hand-overs the bus does not hear of
  Nothing       \* what an idle evictor holds

ASSUME TransportConstants ==
  /\ Oversized \subseteq Event
  /\ BatchSize \in Nat \ {0}
  /\ MaxAttempts \in Nat \ {0}
  /\ MaxFaults \in Nat
  /\ Nothing \notin Event \X Nat

VARIABLES
  outbox,     \* recant events in memory_events
  acked,      \* rows the feed knows to be taken
  envelope,   \* per receiver: the rows of its POST; {} while it is idle
  unput,      \* per receiver: oversized events still to be put
  unsent,     \* per receiver: entries still to be sent
  manifests,  \* fanout/{tenant}/{event_id}.json
  bus,        \* events with a message the bus has to hand over
  dlq,        \* events with a message in the dead-letter queue
  queue,      \* Lambda's: <<event, invocations that failed>>
  discarded,  \* events Lambda gave up on (history: nothing records them)
  held,       \* per evictor: the message it was invoked with
  step,       \* per evictor: what it does next
  delivered,  \* fanout_deliveries of this consumer
  applied,    \* events whose evictions were applied, in commit order
  faults      \* faults so far

vars == <<outbox, acked, envelope, unput, unsent, manifests, bus, dlq, queue,
          discarded, held, step, delivered, applied, faults>>
receiverVars == <<envelope, unput, unsent>>
busVars == <<bus, dlq>>
queueVars == <<queue, discarded>>
evictorVars == <<held, step, delivered, applied>>

Message == outbox \X (0 .. (MaxAttempts - 1))

TypeOK ==
  /\ outbox \subseteq Event
  /\ acked \subseteq outbox
  /\ envelope \in [Receiver -> SUBSET outbox]
  /\ unput \in [Receiver -> SUBSET Oversized]
  /\ unsent \in [Receiver -> SUBSET outbox]
  /\ \A r \in Receiver : unput[r] \subseteq unsent[r] /\ unsent[r] \subseteq envelope[r]
  /\ manifests \subseteq Oversized
  /\ bus \subseteq outbox
  /\ dlq \subseteq outbox
  /\ queue \subseteq Message
  /\ discarded \subseteq outbox
  /\ held \in [Evictor -> Message \cup {Nothing}]
  /\ step \in [Evictor -> {"idle", "apply", "answer"}]
  /\ delivered \subseteq outbox
  /\ applied \in Seq(outbox)
  /\ faults \in 0 .. MaxFaults

Init ==
  /\ outbox = {}
  /\ acked = {}
  /\ envelope = [r \in Receiver |-> {}]
  /\ unput = [r \in Receiver |-> {}]
  /\ unsent = [r \in Receiver |-> {}]
  /\ manifests = {}
  /\ bus = {}
  /\ dlq = {}
  /\ queue = {}
  /\ discarded = {}
  /\ held = [k \in Evictor |-> Nothing]
  /\ step = [k \in Evictor |-> "idle"]
  /\ delivered = {}
  /\ applied = <<>>
  /\ faults = 0

(* A recant posts its event (module Guard). *)
Recant(e) ==
  /\ e \notin outbox
  /\ outbox' = outbox \cup {e}
  /\ UNCHANGED <<acked, receiverVars, manifests, busVars, queueVars, evictorVars, faults>>

-----------------------------------------------------------------------------
(* The feed and the receiver. *)

(* The feed posts rows it has no 200 for, while an earlier POST of them    *)
(* may be running on; parse_webhook_envelope.                              *)
Receive(r, B) ==
  /\ envelope[r] = {}
  /\ B # {}
  /\ B \subseteq outbox \ acked
  /\ envelope' = [envelope EXCEPT ![r] = B]
  /\ unput' = [unput EXCEPT ![r] = B \cap Oversized]
  /\ unsent' = [unsent EXCEPT ![r] = B]
  /\ UNCHANGED <<outbox, acked, manifests, busVars, queueVars, evictorVars, faults>>

(* to_entries puts the manifests before anything is sent. *)
PutManifest(r, e) ==
  /\ e \in unput[r]
  /\ manifests' = manifests \cup {e}
  /\ unput' = [unput EXCEPT ![r] = @ \ {e}]
  /\ UNCHANGED <<outbox, acked, envelope, unsent, busVars, queueVars, evictorVars, faults>>

(* The next slice of ten, or what is left. *)
Batches(r) ==
  {B \in SUBSET unsent[r] : B # {} /\ (B = unsent[r] \/ Cardinality(B) = BatchSize)
                                   /\ Cardinality(B) <= BatchSize}

(* (Mutated form: an entry is sent while its manifest is being put.) *)
PutEventsEarly(r, B) ==
  /\ B \in Batches(r)
  /\ bus' = bus \cup B
  /\ unsent' = [unsent EXCEPT ![r] = @ \ B]
  /\ unput' = [unput EXCEPT ![r] = @ \ B]
  /\ UNCHANGED <<outbox, acked, envelope, manifests, dlq, queueVars, evictorVars, faults>>
PutEvents(r, B) ==
  /\ unput[r] = {}
  /\ B \in Batches(r)
  /\ bus' = bus \cup B
  /\ unsent' = [unsent EXCEPT ![r] = @ \ B]
  /\ UNCHANGED <<outbox, acked, envelope, unput, manifests, dlq, queueVars, evictorVars, faults>>

Quit(r) ==
  /\ envelope' = [envelope EXCEPT ![r] = {}]
  /\ unput' = [unput EXCEPT ![r] = {}]
  /\ unsent' = [unsent EXCEPT ![r] = {}]

(* FailedEntryCount: the bus takes A of the batch, and the handler raises. *)
(* (Mutated form: the count is ignored, as the call itself succeeded.)     *)
PutSomeAndGoOn(r, B, A) ==
  /\ faults < MaxFaults
  /\ unput[r] = {}
  /\ B \in Batches(r)
  /\ bus' = bus \cup A
  /\ unsent' = [unsent EXCEPT ![r] = @ \ B]
  /\ faults' = faults + 1
  /\ UNCHANGED <<outbox, acked, envelope, unput, manifests, dlq, queueVars, evictorVars>>
PutSome(r, B, A) ==
  /\ faults < MaxFaults
  /\ unput[r] = {}
  /\ B \in Batches(r)
  /\ bus' = bus \cup A
  /\ Quit(r)
  /\ faults' = faults + 1
  /\ UNCHANGED <<outbox, acked, manifests, dlq, queueVars, evictorVars>>

(* The 200. *)
Acknowledge(r) ==
  /\ envelope[r] # {}
  /\ unsent[r] = {}
  /\ acked' = acked \cup envelope[r]
  /\ Quit(r)
  /\ UNCHANGED <<outbox, manifests, busVars, queueVars, evictorVars, faults>>

(* The invocation raises, times out or dies, or its answer is lost. *)
ReceiverFails(r) ==
  /\ faults < MaxFaults
  /\ envelope[r] # {}
  /\ Quit(r)
  /\ faults' = faults + 1
  /\ UNCHANGED <<outbox, acked, manifests, busVars, queueVars, evictorVars>>

(* The feed restarts from its last checkpoint. *)
FeedRestarts(A) ==
  /\ faults < MaxFaults
  /\ acked' = acked \ A
  /\ faults' = faults + 1
  /\ UNCHANGED <<outbox, receiverVars, manifests, busVars, queueVars, evictorVars>>

-----------------------------------------------------------------------------
(* The bus, with the target's RetryPolicy and DeadLetterConfig. *)

(* Lambda takes the message; the bus may not hear of it and try again.     *)
HandOver(e, heard) ==
  /\ e \in bus
  /\ heard \/ faults < MaxFaults
  /\ queue' = queue \cup {<<e, 0>>}
  /\ bus' = IF heard THEN bus \ {e} ELSE bus
  /\ faults' = IF heard THEN faults ELSE faults + 1
  /\ UNCHANGED <<outbox, acked, receiverVars, manifests, dlq, discarded, evictorVars>>

(* Lambda refused the message too often or for too long. *)
DeadLetter(e) ==
  /\ e \in bus
  /\ bus' = bus \ {e}
  /\ dlq' = dlq \cup {e}
  /\ UNCHANGED <<outbox, acked, receiverVars, manifests, queueVars, evictorVars, faults>>

-----------------------------------------------------------------------------
(* Lambda's queue and the consumer. *)

(* The message stays in the queue while an invocation runs. *)
Invoke(k, m) ==
  /\ step[k] = "idle"
  /\ m \in queue
  /\ held' = [held EXCEPT ![k] = m]
  /\ step' = [step EXCEPT ![k] = "apply"]
  /\ UNCHANGED <<outbox, acked, receiverVars, manifests, busVars, queueVars, delivered,
                 applied, faults>>

EventOf(k) == held[k][1]

(* _resolve_manifest: the reference has to lead somewhere.  Manifests stay *)
(* and never change, so reading one is no step of its own.                 *)
Resolves(e) == e \in Oversized => e \in manifests

(* apply_evictions and record_delivery, one transaction; what it does to   *)
(* memory and actions is in module Fanout.  (Mutated form: the delivery    *)
(* rows have no primary key.)                                              *)
ApplyAgain(k) ==
  /\ step[k] = "apply"
  /\ Resolves(EventOf(k))
  /\ delivered' = delivered \cup {EventOf(k)}
  /\ applied' = Append(applied, EventOf(k))
  /\ step' = [step EXCEPT ![k] = "answer"]
  /\ UNCHANGED <<outbox, acked, receiverVars, manifests, busVars, queueVars, held, faults>>
Apply(k) ==
  /\ step[k] = "apply"
  /\ Resolves(EventOf(k))
  /\ EventOf(k) \notin delivered
  /\ delivered' = delivered \cup {EventOf(k)}
  /\ applied' = Append(applied, EventOf(k))
  /\ step' = [step EXCEPT ![k] = "answer"]
  /\ UNCHANGED <<outbox, acked, receiverVars, manifests, busVars, queueVars, held, faults>>

(* The UniqueViolation: the transaction rolled back whole. *)
FindDuplicate(k) ==
  /\ step[k] = "apply"
  /\ Resolves(EventOf(k))
  /\ EventOf(k) \in delivered
  /\ step' = [step EXCEPT ![k] = "answer"]
  /\ UNCHANGED <<outbox, acked, receiverVars, manifests, busVars, queueVars, held,
                 delivered, applied, faults>>

(* An invocation is over, with the messages M put back in place of its own.*)
Finish(k, M) ==
  /\ queue' = (queue \ {held[k]}) \cup M
  /\ held' = [held EXCEPT ![k] = Nothing]
  /\ step' = [step EXCEPT ![k] = "idle"]
  /\ UNCHANGED <<outbox, acked, receiverVars, manifests, busVars, delivered, applied,
                 faults>>

(* It succeeded, and Lambda is done with the message. *)
Answer(k) ==
  /\ step[k] = "answer"
  /\ Finish(k, {})
  /\ UNCHANGED discarded

(* It raised or died, before its commit or after: Lambda tries again.      *)
(* (Mutated form: one attempt too many.)                                   *)
MayRetryAgain(m) == m[2] < MaxAttempts
MayRetry(m) == m[2] + 1 < MaxAttempts
Retry(k) ==
  /\ held[k] \in queue
  /\ MayRetry(held[k])
  /\ Finish(k, {<<EventOf(k), held[k][2] + 1>>})
  /\ UNCHANGED discarded

(* Likewise, and it was the last attempt. *)
Discard(k) ==
  /\ held[k] \in queue
  /\ ~MayRetry(held[k])
  /\ Finish(k, {})
  /\ discarded' = discarded \cup {EventOf(k)}

(* It failed, and the message is no longer the queue's: another invocation *)
(* with it ended before.                                                   *)
FailUnheeded(k) ==
  /\ held[k] \notin queue \cup {Nothing}
  /\ Finish(k, {})
  /\ UNCHANGED discarded

-----------------------------------------------------------------------------
Posting == \E r \in Receiver, B \in SUBSET Event : Receive(r, B)
Sending(r) ==
  \/ \E e \in Event : PutManifest(r, e)
  \/ \E B \in SUBSET Event : PutEvents(r, B)
  \/ Acknowledge(r)
HandingOver == \E e \in Event : HandOver(e, TRUE)
Invoking == \E k \in Evictor, m \in queue : Invoke(k, m)
Evicting(k) == Apply(k) \/ FindDuplicate(k) \/ Answer(k)

Next ==
  \/ \E e \in Event : Recant(e) \/ HandOver(e, FALSE) \/ DeadLetter(e)
  \/ Posting
  \/ \E r \in Receiver : Sending(r) \/ ReceiverFails(r)
  \/ \E r \in Receiver, B \in SUBSET Event : \E A \in SUBSET B \ {B} : PutSome(r, B, A)
  \/ \E A \in SUBSET acked : FeedRestarts(A)
  \/ HandingOver
  \/ Invoking
  \/ \E k \in Evictor : Evicting(k) \/ Retry(k) \/ Discard(k) \/ FailUnheeded(k)

Spec == Init /\ [][Next]_vars

(* As long as the feed, the bus or an invocation can go on, one of them    *)
(* does, and not by failing.                                               *)
Progress ==
  \/ Posting \/ \E r \in Receiver : Sending(r)
  \/ HandingOver
  \/ Invoking \/ \E k \in Evictor : Evicting(k)
FairSpec == Spec /\ WF_vars(Progress)

-----------------------------------------------------------------------------
(* Properties. *)

Queued == {m[1] : m \in queue}

(* A row the feed will not post again is on its way, applied or set aside, *)
(* unless the consumer failed on it MaxAttempts times: a batch the bus     *)
(* took in part, a lost answer, a hand-over the bus did not hear of, and a *)
(* feed that restarts lose nothing (lambda_entry.py:168-184).              *)
AcknowledgedIsCarried ==
  acked \subseteq bus \cup Queued \cup delivered \cup dlq \cup discarded

(* Nor does Lambda: "EventBridge retries for up to 24 hours and routes     *)
(* exhausted deliveries to an SQS dead-letter queue"                       *)
(* (docs/security-and-guard.md:263-264), an invocation that raises being   *)
(* "Lambda error -> EventBridge retry -> DLQ" (consumer_entry.py:141-142). *)
FailuresReachTheQueue == acked \subseteq bus \cup Queued \cup delivered \cup dlq

(* Whatever message the consumer gets, today or when an operator redrives  *)
(* the dead-letter queue, it can read: the manifest it refers to is there  *)
(* (lambda_entry.py:65-123, consumer_entry.py:89-128).                     *)
MessagesAreReadable == (bus \cup Queued \cup dlq) \cap Oversized \subseteq manifests

(* The way is one of the outbox's: each event is applied once, however     *)
(* often it was posted, put, handed over or tried, and in the end it is    *)
(* applied, in the dead-letter queue, or given up by Lambda                *)
(* (consumer_entry.py:1-10).                                               *)
Promise == INSTANCE Delivery WITH
  Consumer <- {"cloud-evictor"},
  posted <- outbox,
  applied <- [i \in DOMAIN applied |-> <<applied[i], "cloud-evictor">>],
  givenUp <- (dlq \cup discarded) \X {"cloud-evictor"}
KeepsDelivery == Promise!Safe /\ Promise!Live
=============================================================================
