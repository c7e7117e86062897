--------------------------- MODULE TransportProofs --------------------------
(***************************************************************************)
(* Theorems about Transport, for any number of events, receivers,          *)
(* evictors, attempts and faults.                                          *)
(*                                                                         *)
(* An event is carried because the receiver never counts an entry as sent  *)
(* before the bus has it (SentIsCarried), and a message is readable        *)
(* because an entry is not sent before its manifest is put (PutInTime).    *)
(***************************************************************************)
EXTENDS Transport, TLAPS

(* What an evictor holds, and that it answers only for what is applied. *)
EvictorsHold ==
  \A k \in Evictor :
    /\ step[k] = "idle" <=> held[k] = Nothing
    /\ step[k] = "answer" => EventOf(k) \in delivered

LogIsDelivered == delivered = {applied[i] : i \in DOMAIN applied}

Carried == bus \cup Queued \cup delivered \cup dlq \cup discarded

SentIsCarried == \A r \in Receiver : envelope[r] \ unsent[r] \subseteq Carried

PutInTime == \A r \in Receiver : envelope[r] \cap Oversized \subseteq unput[r] \cup manifests

WayInv == TypeOK /\ EvictorsHold

TransportInv ==
  /\ WayInv
  /\ LogIsDelivered
  /\ SentIsCarried /\ AcknowledgedIsCarried
  /\ PutInTime /\ MessagesAreReadable

-----------------------------------------------------------------------------
LEMMA BatchIsUnsent ==
  ASSUME TypeOK, NEW r \in Receiver, NEW B \in SUBSET Event, B \in Batches(r)
  PROVE  B \subseteq unsent[r] /\ B \subseteq envelope[r] /\ B \subseteq outbox
  BY DEF Batches, TypeOK

LEMMA MessageHasEvent ==
  ASSUME NEW m \in Message
  PROVE  m = <<m[1], m[2]>> /\ m[1] \in outbox /\ m[2] \in 0 .. (MaxAttempts - 1)
  BY DEF Message

LEMMA NothingIsNoMessage == TypeOK => Nothing \notin Message
<1> SUFFICES ASSUME TypeOK, Nothing \in Message PROVE FALSE
  OBVIOUS
<1>1. Nothing \in Event \X Nat
  BY TransportConstants DEF TypeOK, Message
<1>2. QED BY <1>1, TransportConstants

LEMMA BusyHolds ==
  ASSUME WayInv, NEW k \in Evictor, step[k] # "idle"
  PROVE  held[k] \in Message /\ EventOf(k) \in outbox
<1>1. held[k] \in Message
  BY DEF WayInv, TypeOK, EvictorsHold
<1>2. QED BY <1>1, MessageHasEvent DEF EventOf

LEMMA QueuedIsPosted == TypeOK => Queued \subseteq outbox
BY MessageHasEvent DEF TypeOK, Queued

(* The state of the way after an evictor is done with an invocation. *)
LEMMA FinishKeepsWay ==
  ASSUME WayInv, NEW k \in Evictor, NEW M \in SUBSET Message, Finish(k, M),
         discarded' \subseteq outbox
  PROVE  WayInv'
<1>0. TypeOK /\ EvictorsHold /\ Message' = Message
  BY DEF WayInv, Finish, Message
<1>1. queue' \subseteq Message
  BY <1>0 DEF Finish, TypeOK
<1>2. held' \in [Evictor -> Message \cup {Nothing}]
      /\ step' \in [Evictor -> {"idle", "apply", "answer"}]
  BY <1>0 DEF Finish, TypeOK
<1>3. TypeOK'
  BY <1>0, <1>1, <1>2 DEF Finish, receiverVars, busVars, TypeOK
<1>4. EvictorsHold'
  BY <1>0 DEF Finish, TypeOK, EvictorsHold, EventOf
<1>5. QED BY <1>3, <1>4 DEF WayInv

(* Steps that leave the evictors and Lambda's queue as they are. *)
LEMMA OthersKeepWay ==
  ASSUME WayInv, UNCHANGED <<queueVars, evictorVars>>,
         outbox \subseteq outbox',
         TypeOK => /\ outbox' \subseteq Event /\ acked' \subseteq outbox'
                   /\ envelope' \in [Receiver -> SUBSET outbox']
                   /\ unput' \in [Receiver -> SUBSET Oversized]
                   /\ unsent' \in [Receiver -> SUBSET outbox']
                   /\ \A r \in Receiver : unput'[r] \subseteq unsent'[r]
                                          /\ unsent'[r] \subseteq envelope'[r]
                   /\ manifests' \subseteq Oversized
                   /\ bus' \subseteq outbox' /\ dlq' \subseteq outbox'
                   /\ faults' \in 0 .. MaxFaults
  PROVE  WayInv'
<1>0. TypeOK /\ EvictorsHold
  BY DEF WayInv
<1>1. Message \subseteq Message'
  BY DEF Message
<1>2. /\ queue' \subseteq Message' /\ discarded' \subseteq outbox'
      /\ held' \in [Evictor -> Message' \cup {Nothing}]
      /\ step' \in [Evictor -> {"idle", "apply", "answer"}]
      /\ delivered' \subseteq outbox' /\ applied' \in Seq(outbox')
  BY <1>0, <1>1 DEF queueVars, evictorVars, TypeOK
<1>3. TypeOK'
  BY <1>0, <1>2 DEF TypeOK
<1>4. EvictorsHold'
  BY <1>0 DEF evictorVars, EvictorsHold, EventOf
<1>5. QED BY <1>3, <1>4 DEF WayInv

LEMMA WayStep == WayInv /\ [Next]_vars => WayInv'
<1> SUFFICES ASSUME WayInv, [Next]_vars PROVE WayInv'
  OBVIOUS
<1>0. TypeOK /\ EvictorsHold
  BY DEF WayInv
<1>1. CASE UNCHANGED vars
  BY <1>1 DEF vars, receiverVars, busVars, queueVars, evictorVars, WayInv, TypeOK,
              EvictorsHold, EventOf, Message
<1>2. ASSUME NEW e \in Event, Recant(e) PROVE WayInv'
  BY <1>0, <1>2, OthersKeepWay DEF Recant, receiverVars, busVars, TypeOK
<1>3. ASSUME NEW r \in Receiver, NEW B \in SUBSET Event, Receive(r, B) PROVE WayInv'
  BY <1>0, <1>3, OthersKeepWay DEF Receive, busVars, TypeOK
<1>4. ASSUME NEW r \in Receiver, NEW e \in Event, PutManifest(r, e) PROVE WayInv'
  BY <1>0, <1>4, OthersKeepWay DEF PutManifest, busVars, TypeOK
<1>5. ASSUME NEW r \in Receiver, NEW B \in SUBSET Event, PutEvents(r, B) PROVE WayInv'
  <2>1. B \subseteq unsent[r] /\ B \subseteq outbox
    BY <1>0, <1>5, BatchIsUnsent DEF PutEvents
  <2>2. QED BY <1>0, <1>5, <2>1, OthersKeepWay DEF PutEvents, TypeOK
<1>6. ASSUME NEW r \in Receiver, Acknowledge(r) PROVE WayInv'
  BY <1>0, <1>6, OthersKeepWay DEF Acknowledge, Quit, busVars, TypeOK
<1>7. ASSUME NEW r \in Receiver, ReceiverFails(r) PROVE WayInv'
  <2>1. faults' \in 0 .. MaxFaults
    BY <1>0, <1>7, TransportConstants DEF ReceiverFails, TypeOK
  <2>2. QED BY <1>0, <1>7, <2>1, OthersKeepWay DEF ReceiverFails, Quit, busVars, TypeOK
<1>8. ASSUME NEW r \in Receiver, NEW B \in SUBSET Event, NEW A \in SUBSET B,
             PutSome(r, B, A)
      PROVE  WayInv'
  <2>1. A \subseteq outbox
    BY <1>0, <1>8, BatchIsUnsent DEF PutSome
  <2>2. faults' \in 0 .. MaxFaults
    BY <1>0, <1>8, TransportConstants DEF PutSome, TypeOK
  <2>3. QED BY <1>0, <1>8, <2>1, <2>2, OthersKeepWay DEF PutSome, Quit, TypeOK
<1>9. ASSUME NEW A \in SUBSET acked, FeedRestarts(A) PROVE WayInv'
  <2>1. faults' \in 0 .. MaxFaults
    BY <1>0, <1>9, TransportConstants DEF FeedRestarts, TypeOK
  <2>2. QED BY <1>0, <1>9, <2>1, OthersKeepWay DEF FeedRestarts, receiverVars, busVars, TypeOK
<1>10. ASSUME NEW e \in Event, NEW heard \in BOOLEAN, HandOver(e, heard) PROVE WayInv'
  <2>1. Message' = Message /\ <<e, 0>> \in Message
    BY <1>0, <1>10, TransportConstants DEF HandOver, Message, TypeOK
  <2>2. faults' \in 0 .. MaxFaults
    BY <1>0, <1>10, TransportConstants DEF HandOver, TypeOK
  <2>3. bus' \subseteq outbox /\ queue' \subseteq Message
    BY <1>0, <1>10, <2>1 DEF HandOver, TypeOK
  <2>4. TypeOK'
    BY <1>0, <1>10, <2>1, <2>2, <2>3 DEF HandOver, receiverVars, evictorVars, TypeOK
  <2>5. EvictorsHold'
    BY <1>0, <1>10 DEF HandOver, evictorVars, EvictorsHold, EventOf
  <2>6. QED BY <2>4, <2>5 DEF WayInv
<1>11. ASSUME NEW e \in Event, DeadLetter(e) PROVE WayInv'
  BY <1>0, <1>11, OthersKeepWay DEF DeadLetter, receiverVars, TypeOK
<1>12. ASSUME NEW k \in Evictor, NEW m \in queue, Invoke(k, m) PROVE WayInv'
  <2>1. m \in Message /\ m # Nothing /\ Message' = Message
    BY <1>0, <1>12, NothingIsNoMessage DEF Invoke, TypeOK, Message
  <2>2. held' \in [Evictor -> Message \cup {Nothing}]
        /\ step' \in [Evictor -> {"idle", "apply", "answer"}]
    BY <1>0, <1>12, <2>1 DEF Invoke, TypeOK
  <2>3. TypeOK'
    BY <1>0, <1>12, <2>1, <2>2 DEF Invoke, receiverVars, busVars, queueVars, TypeOK
  <2>4. EvictorsHold'
    BY <1>0, <1>12, <2>1 DEF Invoke, TypeOK, EvictorsHold, EventOf
  <2>5. QED BY <2>3, <2>4 DEF WayInv
<1>13. ASSUME NEW k \in Evictor, Apply(k) PROVE WayInv'
  <2>1. EventOf(k) \in outbox /\ Message' = Message
    BY <1>13, BusyHolds DEF Apply, Message
  <2>2. applied' \in Seq(outbox)
    BY <1>0, <1>13, <2>1 DEF Apply, TypeOK
  <2>3. TypeOK'
    BY <1>0, <1>13, <2>1, <2>2 DEF Apply, receiverVars, busVars, queueVars, TypeOK
  <2>4. EvictorsHold'
    BY <1>0, <1>13 DEF Apply, TypeOK, EvictorsHold, EventOf
  <2>5. QED BY <2>3, <2>4 DEF WayInv
<1>14. ASSUME NEW k \in Evictor, FindDuplicate(k) PROVE WayInv'
  <2>1. TypeOK'
    BY <1>0, <1>14 DEF FindDuplicate, receiverVars, busVars, queueVars, TypeOK, Message
  <2>2. EvictorsHold'
    BY <1>0, <1>14 DEF FindDuplicate, TypeOK, EvictorsHold, EventOf
  <2>3. QED BY <2>1, <2>2 DEF WayInv
<1>15. ASSUME NEW k \in Evictor, Answer(k) \/ FailUnheeded(k) PROVE WayInv'
  BY <1>0, <1>15, FinishKeepsWay DEF Answer, FailUnheeded, TypeOK
<1>16. ASSUME NEW k \in Evictor, Retry(k) PROVE WayInv'
  <2>1. held[k] \in Message
    BY <1>0, <1>16 DEF Retry, TypeOK
  <2>2. <<EventOf(k), held[k][2] + 1>> \in Message
    BY <1>16, <2>1, TransportConstants DEF Retry, MayRetry, Message, EventOf
  <2>3. QED BY <1>0, <1>16, <2>2, FinishKeepsWay DEF Retry, TypeOK
<1>17. ASSUME NEW k \in Evictor, Discard(k) PROVE WayInv'
  <2>1. EventOf(k) \in outbox
    BY <1>0, <1>17, MessageHasEvent DEF Discard, TypeOK, EventOf
  <2>2. QED BY <1>0, <1>17, <2>1, FinishKeepsWay DEF Discard, TypeOK
<1>18. QED BY <1>1, <1>2, <1>3, <1>4, <1>5, <1>6, <1>7, <1>8, <1>9, <1>10, <1>11, <1>12,
              <1>13, <1>14, <1>15, <1>16, <1>17
         DEF Next, Posting, Sending, HandingOver, Invoking, Evicting

LEMMA InitInv == Init => TransportInv
<1> SUFFICES ASSUME Init PROVE TransportInv
  OBVIOUS
<1>1. TypeOK
  BY TransportConstants DEF Init, TypeOK
<1>2. EvictorsHold /\ LogIsDelivered
  BY DEF Init, EvictorsHold, LogIsDelivered
<1>3. SentIsCarried /\ AcknowledgedIsCarried /\ PutInTime /\ MessagesAreReadable
  BY DEF Init, SentIsCarried, AcknowledgedIsCarried, PutInTime, MessagesAreReadable, Queued
<1>4. QED BY <1>1, <1>2, <1>3 DEF TransportInv, WayInv

(* The transport's variables keep their types. *)
THEOREM TransportTypeCorrect == Spec => []TypeOK
<1>1. Init => WayInv
  BY InitInv DEF TransportInv
<1>2. WayInv => TypeOK
  BY DEF WayInv
<1>3. QED BY <1>1, <1>2, WayStep, PTL DEF Spec
-----------------------------------------------------------------------------
(* Nothing that is carried is lost. *)
LEMMA CarriedStays == WayInv /\ [Next]_vars => Carried \subseteq Carried'
<1> SUFFICES ASSUME WayInv, [Next]_vars PROVE Carried \subseteq Carried'
  OBVIOUS
<1>0. TypeOK
  BY DEF WayInv
<1>1. ASSUME bus \subseteq bus', queue \subseteq queue', delivered \subseteq delivered',
             dlq \subseteq dlq', discarded \subseteq discarded'
      PROVE  Carried \subseteq Carried'
  BY <1>1 DEF Carried, Queued
<1>2. CASE UNCHANGED vars
  BY <1>1, <1>2 DEF vars, busVars, queueVars, evictorVars
<1>3. ASSUME NEW e \in Event, Recant(e) PROVE Carried \subseteq Carried'
  BY <1>1, <1>3 DEF Recant, busVars, queueVars, evictorVars
<1>4. ASSUME Posting PROVE Carried \subseteq Carried'
  BY <1>1, <1>4 DEF Posting, Receive, busVars, queueVars, evictorVars
<1>5. ASSUME NEW r \in Receiver, Sending(r) PROVE Carried \subseteq Carried'
  BY <1>1, <1>5 DEF Sending, PutManifest, PutEvents, Acknowledge, busVars, queueVars, evictorVars
<1>6. ASSUME NEW r \in Receiver, ReceiverFails(r) PROVE Carried \subseteq Carried'
  BY <1>1, <1>6 DEF ReceiverFails, busVars, queueVars, evictorVars
<1>7. ASSUME NEW r \in Receiver, NEW B, NEW A, PutSome(r, B, A)
      PROVE  Carried \subseteq Carried'
  BY <1>1, <1>7 DEF PutSome, queueVars, evictorVars
<1>8. ASSUME NEW A \in SUBSET acked, FeedRestarts(A) PROVE Carried \subseteq Carried'
  BY <1>1, <1>8 DEF FeedRestarts, busVars, queueVars, evictorVars
<1>9. ASSUME NEW e \in Event, NEW heard \in BOOLEAN, HandOver(e, heard)
      PROVE  Carried \subseteq Carried'
  <2>1. bus \subseteq bus' \cup {e} /\ queue \subseteq queue'
    BY <1>9 DEF HandOver
  <2>2. <<e, 0>> \in queue' /\ <<e, 0>>[1] = e
    BY <1>9 DEF HandOver
  <2>3. e \in Queued' /\ Queued \subseteq Queued'
    BY <2>1, <2>2 DEF Queued
  <2>4. UNCHANGED <<delivered, dlq, discarded>>
    BY <1>9 DEF HandOver, evictorVars
  <2>5. QED BY <2>1, <2>3, <2>4 DEF Carried
<1>10. ASSUME NEW e \in Event, DeadLetter(e) PROVE Carried \subseteq Carried'
  BY <1>10 DEF DeadLetter, queueVars, evictorVars, Carried, Queued
<1>11. ASSUME Invoking PROVE Carried \subseteq Carried'
  BY <1>1, <1>11 DEF Invoking, Invoke, busVars, queueVars
<1>12. ASSUME NEW k \in Evictor, Apply(k) \/ FindDuplicate(k)
       PROVE  Carried \subseteq Carried'
  BY <1>1, <1>12 DEF Apply, FindDuplicate, busVars, queueVars
<1>13. ASSUME NEW k \in Evictor, NEW M, Finish(k, M), discarded \subseteq discarded',
              held[k] \in queue =>
                EventOf(k) \in delivered \cup discarded' \cup {m[1] : m \in M}
       PROVE  Carried \subseteq Carried'
  <2>1. UNCHANGED <<bus, dlq, delivered>> /\ queue' = (queue \ {held[k]}) \cup M
    BY <1>13 DEF Finish, busVars
  <2>2. \A m \in queue : m[1] \in delivered \cup discarded' \cup Queued'
    <3> SUFFICES ASSUME NEW m \in queue PROVE m[1] \in delivered \cup discarded' \cup Queued'
      OBVIOUS
    <3>1. CASE m = held[k]
      BY <1>13, <2>1, <3>1 DEF EventOf, Queued
    <3>2. CASE m # held[k]
      BY <2>1, <3>2 DEF Queued
    <3>3. QED BY <3>1, <3>2
  <2>3. QED BY <1>13, <2>1, <2>2 DEF Carried, Queued
<1>14. ASSUME NEW k \in Evictor, Answer(k) PROVE Carried \subseteq Carried'
  <2>1. EventOf(k) \in delivered
    BY <1>14 DEF Answer, WayInv, EvictorsHold
  <2>2. QED BY <1>13, <1>14, <2>1 DEF Answer
<1>15. ASSUME NEW k \in Evictor, Retry(k) PROVE Carried \subseteq Carried'
  <2>1. <<EventOf(k), held[k][2] + 1>>[1] = EventOf(k)
    OBVIOUS
  <2>2. QED BY <1>13, <1>15, <2>1 DEF Retry
<1>16. ASSUME NEW k \in Evictor, Discard(k) \/ FailUnheeded(k)
       PROVE  Carried \subseteq Carried'
  BY <1>13, <1>16 DEF Discard, FailUnheeded
<1>17. QED BY <1>2, <1>3, <1>4, <1>5, <1>6, <1>7, <1>8, <1>9, <1>10, <1>11, <1>12, <1>14,
              <1>15, <1>16
         DEF Next, HandingOver, Evicting

LEMMA CarriedStep == TransportInv /\ [Next]_vars => (SentIsCarried /\ AcknowledgedIsCarried)'
<1> SUFFICES ASSUME TransportInv, [Next]_vars
             PROVE  SentIsCarried' /\ AcknowledgedIsCarried'
  OBVIOUS
<1>0. /\ TypeOK /\ Carried \subseteq Carried'
      /\ acked \subseteq Carried
      /\ \A r \in Receiver : envelope[r] \ unsent[r] \subseteq Carried
  BY CarriedStays DEF TransportInv, WayInv, AcknowledgedIsCarried, SentIsCarried, Carried
<1>1. ASSUME acked' \subseteq Carried,
             \A r \in Receiver : envelope'[r] \ unsent'[r] \subseteq Carried'
      PROVE  SentIsCarried' /\ AcknowledgedIsCarried'
  BY <1>0, <1>1 DEF SentIsCarried, AcknowledgedIsCarried, Carried
<1>2. ASSUME acked' \subseteq acked, UNCHANGED receiverVars
      PROVE  SentIsCarried' /\ AcknowledgedIsCarried'
  BY <1>0, <1>1, <1>2 DEF receiverVars
<1>3. CASE UNCHANGED vars
  BY <1>2, <1>3 DEF vars, receiverVars
<1>4. ASSUME NEW e \in Event, Recant(e) PROVE SentIsCarried' /\ AcknowledgedIsCarried'
  BY <1>2, <1>4 DEF Recant
<1>5. ASSUME NEW r \in Receiver, NEW B \in SUBSET Event, Receive(r, B)
      PROVE  SentIsCarried' /\ AcknowledgedIsCarried'
  BY <1>0, <1>1, <1>5 DEF Receive, TypeOK
<1>6. ASSUME NEW r \in Receiver, NEW e \in Event, PutManifest(r, e)
      PROVE  SentIsCarried' /\ AcknowledgedIsCarried'
  BY <1>0, <1>1, <1>6 DEF PutManifest
<1>7. ASSUME NEW r \in Receiver, NEW B \in SUBSET Event, PutEvents(r, B)
      PROVE  SentIsCarried' /\ AcknowledgedIsCarried'
  <2>1. B \subseteq Carried'
    BY <1>7 DEF PutEvents, Carried
  <2>2. QED BY <1>0, <1>1, <1>7, <2>1 DEF PutEvents, TypeOK
<1>8. ASSUME NEW r \in Receiver, Acknowledge(r)
      PROVE  SentIsCarried' /\ AcknowledgedIsCarried'
  <2>1. envelope[r] \subseteq Carried
    BY <1>0, <1>8 DEF Acknowledge
  <2>2. QED BY <1>0, <1>1, <1>8, <2>1 DEF Acknowledge, Quit, TypeOK
<1>9. ASSUME NEW r \in Receiver, Quit(r), acked' = acked
      PROVE  SentIsCarried' /\ AcknowledgedIsCarried'
  BY <1>0, <1>1, <1>9 DEF Quit, TypeOK
<1>10. ASSUME NEW A \in SUBSET acked, FeedRestarts(A)
       PROVE  SentIsCarried' /\ AcknowledgedIsCarried'
  BY <1>2, <1>10 DEF FeedRestarts
<1>11. ASSUME NEW k \in Evictor, NEW m \in queue, Invoke(k, m)
       PROVE  SentIsCarried' /\ AcknowledgedIsCarried'
  BY <1>2, <1>11 DEF Invoke
<1>12. ASSUME NEW k \in Evictor, Apply(k) \/ FindDuplicate(k)
       PROVE  SentIsCarried' /\ AcknowledgedIsCarried'
  BY <1>2, <1>12 DEF Apply, FindDuplicate
<1>13. ASSUME NEW k \in Evictor, NEW M, Finish(k, M)
       PROVE  SentIsCarried' /\ AcknowledgedIsCarried'
  BY <1>2, <1>13 DEF Finish
<1>14. ASSUME NEW e \in Event, NEW heard \in BOOLEAN, HandOver(e, heard) \/ DeadLetter(e)
       PROVE  SentIsCarried' /\ AcknowledgedIsCarried'
  BY <1>2, <1>14 DEF HandOver, DeadLetter
<1>15. QED BY <1>3, <1>4, <1>5, <1>6, <1>7, <1>8, <1>9, <1>10, <1>11, <1>12, <1>13, <1>14
         DEF Next, Posting, Sending, HandingOver, Invoking, Evicting, ReceiverFails,
             PutSome, Answer, Retry, Discard, FailUnheeded

LEMMA ReadableStep == TransportInv /\ [Next]_vars => (PutInTime /\ MessagesAreReadable)'
<1> SUFFICES ASSUME TransportInv, [Next]_vars PROVE PutInTime' /\ MessagesAreReadable'
  OBVIOUS
<1>0. /\ TypeOK
      /\ \A r \in Receiver : envelope[r] \cap Oversized \subseteq unput[r] \cup manifests
      /\ (bus \cup Queued \cup dlq) \cap Oversized \subseteq manifests
  BY DEF TransportInv, WayInv, PutInTime, MessagesAreReadable
<1>1. ASSUME UNCHANGED <<receiverVars, manifests>>,
             bus' \cup Queued' \cup dlq' \subseteq bus \cup Queued \cup dlq
      PROVE  PutInTime' /\ MessagesAreReadable'
  BY <1>0, <1>1 DEF receiverVars, PutInTime, MessagesAreReadable
<1>2. CASE UNCHANGED vars
  BY <1>1, <1>2 DEF vars, receiverVars, busVars, queueVars, Queued
<1>3. ASSUME NEW e \in Event, Recant(e) PROVE PutInTime' /\ MessagesAreReadable'
  BY <1>1, <1>3 DEF Recant, busVars, queueVars, Queued
<1>4. ASSUME NEW r \in Receiver, NEW B \in SUBSET Event, Receive(r, B)
      PROVE  PutInTime' /\ MessagesAreReadable'
  BY <1>0, <1>4 DEF Receive, busVars, queueVars, Queued, TypeOK, PutInTime,
                      MessagesAreReadable
<1>5. ASSUME NEW r \in Receiver, NEW e \in Event, PutManifest(r, e)
      PROVE  PutInTime' /\ MessagesAreReadable'
  BY <1>0, <1>5 DEF PutManifest, busVars, queueVars, Queued, TypeOK, PutInTime,
                      MessagesAreReadable
<1>6. ASSUME NEW r \in Receiver, NEW B \in SUBSET Event, B \in Batches(r), unput[r] = {}
      PROVE  B \cap Oversized \subseteq manifests
  BY <1>0, <1>6, BatchIsUnsent
<1>7. ASSUME NEW r \in Receiver, NEW B \in SUBSET Event, PutEvents(r, B)
      PROVE  PutInTime' /\ MessagesAreReadable'
  BY <1>0, <1>6, <1>7 DEF PutEvents, queueVars, Queued, PutInTime, MessagesAreReadable
<1>8. ASSUME NEW r \in Receiver, Quit(r), manifests' = manifests PROVE PutInTime'
  BY <1>0, <1>8 DEF Quit, TypeOK, PutInTime
<1>9. ASSUME NEW r \in Receiver, NEW B \in SUBSET Event, NEW A \in SUBSET B,
             PutSome(r, B, A)
      PROVE  PutInTime' /\ MessagesAreReadable'
  BY <1>0, <1>6, <1>8, <1>9 DEF PutSome, queueVars, Queued, MessagesAreReadable
<1>10. ASSUME NEW r \in Receiver, Acknowledge(r) \/ ReceiverFails(r)
       PROVE  PutInTime' /\ MessagesAreReadable'
  BY <1>0, <1>8, <1>10 DEF Acknowledge, ReceiverFails, busVars, queueVars, Queued,
                                MessagesAreReadable
<1>11. ASSUME NEW A \in SUBSET acked, FeedRestarts(A)
       PROVE  PutInTime' /\ MessagesAreReadable'
  BY <1>1, <1>11 DEF FeedRestarts, busVars, queueVars, Queued
<1>12. ASSUME NEW e \in Event, NEW heard \in BOOLEAN, HandOver(e, heard)
       PROVE  PutInTime' /\ MessagesAreReadable'
  <2>1. UNCHANGED <<receiverVars, manifests, dlq>> /\ bus' \subseteq bus /\ e \in bus
    BY <1>12 DEF HandOver
  <2>2. Queued' \subseteq Queued \cup {e}
    BY <1>12 DEF HandOver, Queued
  <2>3. QED BY <1>1, <2>1, <2>2
<1>13. ASSUME NEW e \in Event, DeadLetter(e) PROVE PutInTime' /\ MessagesAreReadable'
  BY <1>1, <1>13 DEF DeadLetter, queueVars, Queued
<1>14. ASSUME NEW k \in Evictor, NEW m \in queue, Invoke(k, m)
       PROVE  PutInTime' /\ MessagesAreReadable'
  BY <1>1, <1>14 DEF Invoke, busVars, queueVars, Queued
<1>15. ASSUME NEW k \in Evictor, Apply(k) \/ FindDuplicate(k)
       PROVE  PutInTime' /\ MessagesAreReadable'
  BY <1>1, <1>15 DEF Apply, FindDuplicate, busVars, queueVars, Queued
<1>16. ASSUME NEW k \in Evictor, NEW M, Finish(k, M), {m[1] : m \in M} \subseteq Queued
       PROVE  PutInTime' /\ MessagesAreReadable'
  <2>1. UNCHANGED <<receiverVars, manifests, bus, dlq>> /\ queue' \subseteq queue \cup M
    BY <1>16 DEF Finish, busVars
  <2>2. Queued' \subseteq Queued
    BY <1>16, <2>1 DEF Queued
  <2>3. QED BY <1>1, <2>1, <2>2
<1>17. ASSUME NEW k \in Evictor, Answer(k) \/ Discard(k) \/ FailUnheeded(k)
       PROVE  PutInTime' /\ MessagesAreReadable'
  BY <1>16, <1>17 DEF Answer, Discard, FailUnheeded
<1>18. ASSUME NEW k \in Evictor, Retry(k) PROVE PutInTime' /\ MessagesAreReadable'
  <2>1. EventOf(k) \in Queued
    BY <1>18 DEF Retry, EventOf, Queued
  <2>2. QED BY <1>16, <1>18, <2>1 DEF Retry
<1>19. QED BY <1>2, <1>3, <1>4, <1>5, <1>7, <1>9, <1>10, <1>11, <1>12, <1>13, <1>14, <1>15,
              <1>17, <1>18
         DEF Next, Posting, Sending, HandingOver, Invoking, Evicting

(* A commit of the consumer, by what it does to the log. *)
LEMMA ApplyEffect ==
  ASSUME TransportInv, NEW k \in Evictor, Apply(k)
  PROVE  /\ EventOf(k) \in outbox /\ EventOf(k) \notin delivered
         /\ applied' = Append(applied, EventOf(k))
         /\ DOMAIN applied = 1 .. Len(applied) /\ Len(applied) \in Nat
         /\ DOMAIN applied' = 1 .. (Len(applied) + 1)
         /\ applied'[Len(applied) + 1] = EventOf(k)
         /\ \A i \in DOMAIN applied : applied'[i] = applied[i]
<1>1. WayInv /\ applied \in Seq(outbox)
  BY DEF TransportInv, WayInv, TypeOK
<1>2. EventOf(k) \in outbox
  BY <1>1, BusyHolds DEF Apply
<1>3. applied' = Append(applied, EventOf(k)) /\ EventOf(k) \notin delivered
  BY DEF Apply
<1>4. QED BY <1>1, <1>2, <1>3

LEMMA LogStep == TransportInv /\ [Next]_vars => LogIsDelivered'
<1> SUFFICES ASSUME TransportInv, [Next]_vars PROVE LogIsDelivered'
  OBVIOUS
<1>1. ASSUME UNCHANGED <<delivered, applied>> PROVE LogIsDelivered'
  BY <1>1 DEF TransportInv, LogIsDelivered
<1>2. ASSUME NEW k \in Evictor, Apply(k) PROVE LogIsDelivered'
  <2>1. delivered' = delivered \cup {EventOf(k)}
    BY <1>2 DEF Apply
  <2>2. DOMAIN applied' = DOMAIN applied \cup {Len(applied) + 1}
    <3>1. /\ DOMAIN applied = 1 .. Len(applied) /\ Len(applied) \in Nat
          /\ DOMAIN applied' = 1 .. (Len(applied) + 1)
      BY <1>2, ApplyEffect
    <3>2. QED BY <3>1
  <2>3. {applied'[i] : i \in DOMAIN applied'}
          = {applied[i] : i \in DOMAIN applied} \cup {EventOf(k)}
    BY <1>2, <2>2, ApplyEffect
  <2>4. QED BY <2>1, <2>3 DEF TransportInv, LogIsDelivered
<1>3. CASE UNCHANGED vars
  BY <1>1, <1>3 DEF vars, evictorVars
<1>4. ASSUME \/ \E e \in Event : Recant(e)
             \/ Posting
             \/ \E r \in Receiver : Sending(r) \/ ReceiverFails(r)
             \/ \E r \in Receiver, B \in SUBSET Event : \E A \in SUBSET B : PutSome(r, B, A)
             \/ \E A \in SUBSET acked : FeedRestarts(A)
      PROVE  UNCHANGED <<delivered, applied>>
  BY <1>4 DEF Recant, Posting, Receive, Sending, PutManifest, PutEvents, Acknowledge,
              ReceiverFails, PutSome, FeedRestarts, evictorVars
<1>5. ASSUME \/ Invoking
             \/ \E e \in Event : HandOver(e, TRUE) \/ HandOver(e, FALSE) \/ DeadLetter(e)
             \/ \E k \in Evictor : \/ FindDuplicate(k) \/ Answer(k) \/ Retry(k)
                                   \/ Discard(k) \/ FailUnheeded(k)
      PROVE  UNCHANGED <<delivered, applied>>
  BY <1>5 DEF Invoking, Invoke, HandOver, DeadLetter, FindDuplicate, Answer, Retry, Discard,
              FailUnheeded, Finish, evictorVars
<1>6. QED BY <1>1, <1>2, <1>3, <1>4, <1>5 DEF Next, HandingOver, Evicting

LEMMA TransportInvHolds == Spec => []TransportInv
<1>1. TransportInv /\ [Next]_vars => TransportInv'
  BY WayStep, CarriedStep, ReadableStep, LogStep DEF TransportInv
<1>2. QED BY <1>1, InitInv, PTL DEF Spec

(* A row the feed will not post again is on its way, applied, in the       *)
(* dead-letter queue, or one the consumer failed on in every invocation    *)
(* Lambda makes of it: the receiver, the feed and the bus lose nothing     *)
(* (fanout/lambda_entry.py:168-184).                                       *)
THEOREM OnlyTheConsumerLoses == Spec => []AcknowledgedIsCarried
<1>1. TransportInv => AcknowledgedIsCarried
  BY DEF TransportInv
<1>2. QED BY <1>1, TransportInvHolds, PTL

(* No message, redriven ones included, refers to a manifest that is not    *)
(* there (fanout/lambda_entry.py:65-123).                                  *)
THEOREM EveryMessageIsReadable == Spec => []MessagesAreReadable
<1>1. TransportInv => MessagesAreReadable
  BY DEF TransportInv
<1>2. QED BY <1>1, TransportInvHolds, PTL

-----------------------------------------------------------------------------
(* The log of Delivery. *)
Log == [i \in DOMAIN applied |-> <<applied[i], "cloud-evictor">>]

LEMMA ApplyIsApply ==
  ASSUME TransportInv, NEW k \in Evictor, Apply(k)
  PROVE  Promise!Apply(EventOf(k), "cloud-evictor")
<1> DEFINE p == <<EventOf(k), "cloud-evictor">>
<1>1. Len(Log) = Len(applied) /\ Log \in Seq(outbox \X {"cloud-evictor"})
  <2>1. applied \in Seq(outbox)
    BY DEF TransportInv, WayInv, TypeOK
  <2>2. Log \in [1 .. Len(applied) -> outbox \X {"cloud-evictor"}] /\ Len(applied) \in Nat
    BY <2>1 DEF Log
  <2>3. QED BY <2>2
<1>2. Log' = [i \in 1 .. (Len(applied) + 1) |-> IF i = Len(applied) + 1 THEN p ELSE Log[i]]
  BY ApplyEffect DEF Log
<1>3. Log' = Append(Log, p)
  BY <1>1, <1>2
<1>4. ~Promise!IsApplied(EventOf(k), "cloud-evictor")
  BY ApplyEffect DEF TransportInv, LogIsDelivered, Promise!IsApplied
<1>5. UNCHANGED <<outbox, dlq, discarded>>
  BY DEF Apply, busVars, queueVars
<1>6. QED BY <1>3, <1>4, <1>5, ApplyEffect DEF Promise!Apply, Log

LEMMA TransportRefines == TransportInv /\ [Next]_vars => [Promise!Next]_(Promise!vars)
<1> SUFFICES ASSUME TransportInv, [Next]_vars PROVE [Promise!Next]_(Promise!vars)
  OBVIOUS
<1>1. ASSUME UNCHANGED <<outbox, applied, dlq, discarded>> PROVE UNCHANGED Promise!vars
  BY <1>1 DEF Promise!vars
<1>2. CASE UNCHANGED vars
  BY <1>1, <1>2 DEF vars, busVars, queueVars, evictorVars
<1>3. ASSUME NEW e \in Event, Recant(e) PROVE Promise!Post(e)
  BY <1>3 DEF Recant, busVars, queueVars, evictorVars, Promise!Post
<1>4. ASSUME NEW k \in Evictor, Apply(k)
      PROVE  EventOf(k) \in Event /\ Promise!Apply(EventOf(k), "cloud-evictor")
  BY <1>4, ApplyIsApply, ApplyEffect DEF TransportInv, WayInv, TypeOK
<1>5. ASSUME NEW e \in outbox, UNCHANGED <<outbox, applied>>,
             dlq' \cup discarded' = dlq \cup discarded \cup {e}
      PROVE  e \in Event /\ Promise!GiveUp(e, "cloud-evictor")
  <2>1. e \in Event
    BY DEF TransportInv, WayInv, TypeOK
  <2>2. (dlq' \cup discarded') \X {"cloud-evictor"}
          = ((dlq \cup discarded) \X {"cloud-evictor"}) \cup {<<e, "cloud-evictor">>}
    BY <1>5
  <2>3. QED BY <1>5, <2>1, <2>2 DEF Promise!GiveUp
<1>6. ASSUME NEW e \in Event, DeadLetter(e) PROVE Promise!GiveUp(e, "cloud-evictor")
  <2>1. e \in outbox
    BY <1>6 DEF DeadLetter, TransportInv, WayInv, TypeOK
  <2>2. QED BY <1>5, <1>6, <2>1 DEF DeadLetter, queueVars, evictorVars
<1>7. ASSUME NEW k \in Evictor, Discard(k)
      PROVE  EventOf(k) \in Event /\ Promise!GiveUp(EventOf(k), "cloud-evictor")
  <2>1. EventOf(k) \in outbox
    BY <1>7, MessageHasEvent DEF Discard, TransportInv, WayInv, TypeOK, EventOf
  <2>2. QED BY <1>5, <1>7, <2>1 DEF Discard, Finish, busVars
<1>8. ASSUME \/ Posting
             \/ \E r \in Receiver : Sending(r) \/ ReceiverFails(r)
             \/ \E r \in Receiver, B \in SUBSET Event : \E A \in SUBSET B : PutSome(r, B, A)
             \/ \E A \in SUBSET acked : FeedRestarts(A)
      PROVE  UNCHANGED <<outbox, applied, dlq, discarded>>
  BY <1>8 DEF Posting, Receive, Sending, PutManifest, PutEvents, Acknowledge,
              ReceiverFails, PutSome, FeedRestarts, busVars, queueVars, evictorVars
<1>9. ASSUME \/ Invoking
             \/ \E e \in Event : HandOver(e, TRUE) \/ HandOver(e, FALSE)
             \/ \E k \in Evictor : FindDuplicate(k) \/ Answer(k) \/ Retry(k) \/ FailUnheeded(k)
      PROVE  UNCHANGED <<outbox, applied, dlq, discarded>>
  BY <1>9 DEF Invoking, Invoke, HandOver, FindDuplicate, Answer, Retry, FailUnheeded, Finish,
              busVars, queueVars, evictorVars
<1>10. QED BY <1>1, <1>2, <1>3, <1>4, <1>6, <1>7, <1>8, <1>9
         DEF Next, HandingOver, Evicting, Promise!Next

(* The changefeed's way keeps the outbox's promise: nothing is applied     *)
(* that was not posted, and nothing twice (fanout/consumer_entry.py:1-10). *)
THEOREM TransportKeepsPromise == Spec => Promise!Safe
<1>1. Init => Promise!Init
  BY DEF Init, Promise!Init
<1>2. QED BY <1>1, TransportInvHolds, TransportRefines, PTL DEF Spec, Promise!Safe
=============================================================================
