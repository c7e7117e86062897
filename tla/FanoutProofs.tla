---------------------------- MODULE FanoutProofs ----------------------------
(***************************************************************************)
(* Theorems about Fanout, for any number of beliefs, actions, events,      *)
(* workers, consumers and crashes.                                         *)
(*                                                                         *)
(* A worker may hold an event its consumer has long delivered; all that    *)
(* protects the effect is the delivery row, which commits with it.  The    *)
(* receipts then account for each effect because what an event removes     *)
(* does not come back: a settled action stays settled, and an agent adds   *)
(* a belief to working memory once (MirroredOnce).                         *)
(***************************************************************************)
EXTENDS Fanout, TLAPS

MirroredOnce ==
  \A b \in Belief :
    /\ status[b] = "unwritten" <=> mirror[b] = "none"
    /\ mirror[b] \in {"none", "written"} =>
         b \notin memory /\ \A i \in Rows : b \notin receipts[i].evicted
    /\ b \in memory => \A i \in Rows : b \notin receipts[i].evicted

FanoutInv == TypeOK /\ ExactlyOnce /\ ReceiptsAccount /\ MirroredOnce

-----------------------------------------------------------------------------
LEMMA PostedEvicts ==
  ASSUME TypeOK, NEW e \in Posted
  PROVE  outbox[e] \in SUBSET Belief
<1>1. e \in Event /\ outbox[e] # NoEvent
  BY DEF Posted
<1>2. outbox[e] \in (SUBSET Belief) \cup {NoEvent}
  BY <1>1 DEF TypeOK
<1>3. QED BY <1>1, <1>2

LEMMA RowTyped ==
  ASSUME TypeOK, NEW i \in Rows
  PROVE  /\ receipts[i] \in ReceiptRow
         /\ receipts[i].event \in Event /\ receipts[i].consumer \in Consumer
         /\ receipts[i].evicted \subseteq Belief /\ receipts[i].aborted \subseteq Action
<1>1. receipts[i] \in ReceiptRow
  BY DEF TypeOK, Rows
<1>2. QED BY <1>1 DEF ReceiptRow

(* A commit of event e for consumer c. *)
LEMMA DeliverEffect ==
  ASSUME TypeOK, NEW w \in Worker, NEW e \in Event, Deliver(w, e)
  PROVE  LET c == ConsumerOf[w]
             row == [event |-> e, consumer |-> c, evicted |-> Evicts(e),
                     aborted |-> Aborts(e)]
         IN /\ e \in Posted /\ c \in Consumer /\ <<e, c>> \notin delivered
            /\ row \in ReceiptRow
            /\ receipts' = Append(receipts, row)
            /\ Rows' = Rows \cup {Len(receipts) + 1}
            /\ Len(receipts) + 1 \notin Rows
            /\ receipts'[Len(receipts) + 1] = row
            /\ \A i \in Rows : receipts'[i] = receipts[i]
            /\ receipts' \in Seq(ReceiptRow)
            /\ delivered' = delivered \cup {<<e, c>>}
            /\ memory' = memory \ Evicts(e)
            /\ action' = [a \in Action |-> IF a \in Aborts(e) THEN "aborted"
                                           ELSE action[a]]
<1> DEFINE c == ConsumerOf[w]
           row == [event |-> e, consumer |-> c, evicted |-> Evicts(e),
                   aborted |-> Aborts(e)]
<1>1. e \in Posted /\ c \in Consumer /\ <<e, c>> \notin delivered
  BY FanoutConstants DEF Deliver, Records, TypeOK
<1>2. Evicts(e) \subseteq Belief /\ Aborts(e) \subseteq Action
  BY <1>1, PostedEvicts DEF Evicts, Aborts
<1>3. row \in ReceiptRow
  BY <1>1, <1>2 DEF ReceiptRow
<1>4. /\ receipts' = Append(receipts, row)
      /\ delivered' = delivered \cup {<<e, c>>}
      /\ memory' = memory \ Evicts(e)
      /\ action' = [a \in Action |-> IF a \in Aborts(e) THEN "aborted" ELSE action[a]]
  BY DEF Deliver, Apply
<1> HIDE DEF row
<1>5. receipts \in Seq(ReceiptRow)
  BY DEF TypeOK
<1>6. /\ receipts' \in Seq(ReceiptRow)
      /\ Rows' = Rows \cup {Len(receipts) + 1} /\ Len(receipts) + 1 \notin Rows
      /\ receipts'[Len(receipts) + 1] = row
      /\ \A i \in Rows : receipts'[i] = receipts[i]
  BY <1>3, <1>4, <1>5 DEF Rows
<1>7. QED BY <1>1, <1>3, <1>4, <1>6 DEF row

-----------------------------------------------------------------------------
LEMMA TypeStep == TypeOK /\ [Next]_vars => TypeOK'
<1> SUFFICES ASSUME TypeOK, [Next]_vars PROVE TypeOK'
  OBVIOUS
<1>1. CASE UNCHANGED vars
  BY <1>1 DEF vars, TypeOK, Posted
<1>2. ASSUME NEW b \in Belief, NEW birth \in {"active", "suspect"},
             WriteBelief(b, birth)
      PROVE  TypeOK'
  BY <1>2 DEF WriteBelief, TypeOK, Posted
<1>3. ASSUME NEW b \in Belief, AddTexts(b) PROVE TypeOK'
  BY <1>3 DEF AddTexts, TypeOK, Posted
<1>4. ASSUME NEW b \in Belief, Recheck(b) PROVE TypeOK'
  BY <1>4 DEF Recheck, TypeOK, Posted
<1>5. ASSUME NEW b \in Belief, AgentStops(b) PROVE TypeOK'
  BY <1>5 DEF AgentStops, TypeOK, Posted
<1>6. ASSUME NEW a \in Action, EnqueueAction(a) PROVE TypeOK'
  BY <1>6 DEF EnqueueAction, TypeOK, Posted
<1>7. ASSUME NEW e \in Event,
             NEW C \in SUBSET {b \in Belief : status[b] \notin {"unwritten", "gone"}},
             Recant(e, C)
      PROVE  TypeOK'
  <2> DEFINE flipped == {b \in C : status[b] \in {"active", "suspect"}}
  <2>1. flipped \in SUBSET Belief /\ flipped # NoEvent
    BY FanoutConstants
  <2>2. outbox' = [outbox EXCEPT ![e] = flipped] /\ outbox[e] = NoEvent
    BY <1>7 DEF Recant
  <2> HIDE DEF flipped
  <2>3. outbox' \in [Event -> (SUBSET Belief) \cup {NoEvent}] /\ Posted' = Posted \cup {e}
    BY <2>1, <2>2 DEF TypeOK, Posted
  <2>4. status' \in [Belief -> {"unwritten", "active", "suspect", "quarantined", "gone"}]
    BY <1>7 DEF Recant, TypeOK
  <2>5. QED BY <1>7, <2>3, <2>4 DEF Recant, TypeOK
<1>8. ASSUME NEW b \in Belief, DeleteByTTL(b) PROVE TypeOK'
  BY <1>8 DEF DeleteByTTL, TypeOK, Posted
<1>9. ASSUME NEW w \in Worker, Poll(w) PROVE TypeOK'
  <2>1. PICK B \in Batches(Undelivered(ConsumerOf[w])) : batch' = [batch EXCEPT ![w] = B]
    BY <1>9 DEF Poll
  <2>2. B \subseteq Posted
    BY <2>1 DEF Batches, Undelivered
  <2>3. QED BY <1>9, <2>1, <2>2 DEF Poll, TypeOK, Posted
<1>10. ASSUME NEW w \in Worker, NEW e \in Event, Deliver(w, e) PROVE TypeOK'
  <2>1. /\ e \in Posted /\ ConsumerOf[w] \in Consumer
        /\ delivered' = delivered \cup {<<e, ConsumerOf[w]>>}
    BY <1>10, DeliverEffect
  <2>2. receipts' \in Seq(ReceiptRow)
    BY <1>10, DeliverEffect
  <2>3. /\ memory' \subseteq Belief
        /\ action' \in [Action -> {"none", "pending", "aborted"}]
    BY <1>10 DEF Deliver, Apply, TypeOK
  <2>4. Posted' = Posted /\ batch' = [batch EXCEPT ![w] = @ \ {e}]
    BY <1>10 DEF Deliver, Posted
  <2>5. QED BY <1>10, <2>1, <2>2, <2>3, <2>4 DEF Deliver, TypeOK
<1>11. ASSUME NEW w \in Worker, NEW e \in Event, LoseRace(w, e) PROVE TypeOK'
  BY <1>11 DEF LoseRace, TypeOK, Posted
<1>12. ASSUME NEW w \in Worker, WorkerDies(w) PROVE TypeOK'
  BY <1>12, FanoutConstants DEF WorkerDies, TypeOK, Posted
<1>13. QED BY <1>1, <1>2, <1>3, <1>4, <1>5, <1>6, <1>7, <1>8, <1>9, <1>10, <1>11, <1>12
         DEF Next, Mirroring, Working

LEMMA InitInv == Init => FanoutInv
<1> SUFFICES ASSUME Init PROVE FanoutInv
  OBVIOUS
<1>1. receipts = <<>> /\ Rows = {}
  BY DEF Init, Rows
<1>2. TypeOK
  <2>1. receipts \in Seq(ReceiptRow)
    BY <1>1
  <2>2. batch \in [Worker -> SUBSET Posted] /\ outbox \in [Event -> (SUBSET Belief) \cup {NoEvent}]
    BY DEF Init
  <2>3. crashes \in 0 .. MaxCrashes
    BY FanoutConstants DEF Init
  <2>4. QED BY <2>1, <2>2, <2>3 DEF Init, TypeOK
<1>3. QED BY <1>1, <1>2 DEF Init, FanoutInv, ExactlyOnce, ReceiptsAccount, MirroredOnce

(* The fanout's variables keep their types. *)
THEOREM FanoutTypeCorrect == Spec => []TypeOK
<1>1. Init => TypeOK
  BY InitInv DEF FanoutInv
<1>2. QED BY <1>1, TypeStep, PTL DEF Spec

-----------------------------------------------------------------------------
(* A step that writes no receipt, no delivery and no abort. *)
LEMMA QuietKeepsInv ==
  ASSUME FanoutInv, TypeOK', UNCHANGED <<delivered, receipts>>,
         \A a \in Action : action'[a] = "aborted" <=> action[a] = "aborted",
         \A e \in Posted : outbox'[e] = outbox[e],
         MirroredOnce'
  PROVE  FanoutInv'
<1>1. Rows' = Rows
  BY DEF Rows
<1>2. ExactlyOnce'
  BY <1>1 DEF FanoutInv, ExactlyOnce
<1>3. \A i \in Rows : receipts[i].event \in Posted
  <2>1. \A i \in Rows : <<receipts[i].event, receipts[i].consumer>> \in delivered
    BY DEF FanoutInv, ExactlyOnce
  <2>2. delivered \subseteq Posted \X Consumer
    BY DEF FanoutInv, TypeOK
  <2>3. QED BY <2>1, <2>2
<1>4. ReceiptsAccount'
  BY <1>1, <1>3 DEF FanoutInv, ReceiptsAccount
<1>5. QED BY <1>2, <1>4 DEF FanoutInv

LEMMA DeliverKeepsInv ==
  ASSUME FanoutInv, TypeOK', NEW w \in Worker, NEW e \in Event, Deliver(w, e)
  PROVE  FanoutInv'
<1> DEFINE c == ConsumerOf[w]
           n == Len(receipts) + 1
           row == [event |-> e, consumer |-> c, evicted |-> Evicts(e),
                   aborted |-> Aborts(e)]
<1>1. /\ e \in Posted /\ <<e, c>> \notin delivered
      /\ delivered' = delivered \cup {<<e, c>>}
  BY DeliverEffect DEF FanoutInv
<1>2. /\ Rows' = Rows \cup {n} /\ n \notin Rows
      /\ receipts'[n] = row
      /\ \A i \in Rows : receipts'[i] = receipts[i]
  BY DeliverEffect DEF FanoutInv
<1>3. /\ memory' = memory \ Evicts(e)
      /\ action' = [a \in Action |-> IF a \in Aborts(e) THEN "aborted" ELSE action[a]]
  BY DeliverEffect DEF FanoutInv
<1>4. UNCHANGED <<status, mirror, outbox>>
  BY DEF Deliver
<1>5. row.event = e /\ row.consumer = c /\ row.evicted = Evicts(e) /\ row.aborted = Aborts(e)
  OBVIOUS
<1>6. Evicts(e) \subseteq memory /\ Evicts(e) \subseteq outbox[e]
  BY DEF Evicts
<1>7. \A a \in Aborts(e) :
        a \in Action /\ action[a] = "pending" /\ Support[a] \cap outbox[e] # {}
  BY DEF Aborts
<1> HIDE DEF n, row, c
<1>8. ExactlyOnce'
  <2>1. \A i \in Rows : <<receipts[i].event, receipts[i].consumer>> # <<e, c>>
    BY <1>1 DEF FanoutInv, ExactlyOnce
  <2>2. \A i, j \in Rows' :
          receipts'[i].event = receipts'[j].event
            /\ receipts'[i].consumer = receipts'[j].consumer => i = j
    BY <1>2, <1>5, <2>1 DEF FanoutInv, ExactlyOnce
  <2>3. delivered' = {<<receipts'[i].event, receipts'[i].consumer>> : i \in Rows'}
    BY <1>1, <1>2, <1>5 DEF FanoutInv, ExactlyOnce
  <2>4. QED BY <2>2, <2>3 DEF ExactlyOnce
<1>9. ReceiptsAccount'
  <2>1. ASSUME NEW a \in Action
        PROVE  action'[a] = "aborted" <=> \E i \in Rows' : a \in receipts'[i].aborted
    <3>1. CASE a \in Aborts(e)
      BY <1>2, <1>3, <1>5, <3>1
    <3>2. CASE a \notin Aborts(e)
      BY <1>2, <1>3, <1>5, <3>2 DEF FanoutInv, ReceiptsAccount
    <3>3. QED BY <3>1, <3>2
  <2>2. \A i \in Rows : receipts[i].aborted \cap Aborts(e) = {}
    <3>1. \A i \in Rows : \A a \in receipts[i].aborted :
            a \in Action /\ action[a] = "aborted"
      BY RowTyped DEF FanoutInv, ReceiptsAccount
    <3>2. QED BY <1>7, <3>1
  <2>3. \A i \in Rows : receipts[i].evicted \cap Evicts(e) = {}
    BY <1>6 DEF FanoutInv, MirroredOnce, TypeOK
  <2>4. \A i, j \in Rows' : i # j =>
          /\ receipts'[i].aborted \cap receipts'[j].aborted = {}
          /\ receipts'[i].evicted \cap receipts'[j].evicted = {}
    BY <1>2, <1>5, <2>2, <2>3 DEF FanoutInv, ReceiptsAccount
  <2>5. \A i \in Rows' : \A a \in receipts'[i].aborted :
          Support[a] \cap outbox'[receipts'[i].event] # {}
    BY <1>2, <1>4, <1>5, <1>7 DEF FanoutInv, ReceiptsAccount
  <2>6. QED BY <2>1, <2>4, <2>5 DEF ReceiptsAccount
<1>10. MirroredOnce'
  BY <1>2, <1>3, <1>4, <1>5, <1>6 DEF FanoutInv, MirroredOnce
<1>11. QED BY <1>8, <1>9, <1>10 DEF FanoutInv

(* A step of an agent, a recant or the TTL job, by what it does to the     *)
(* mirrors: only what was just written is added.                           *)
LEMMA MirrorStep ==
  ASSUME FanoutInv, UNCHANGED receipts,
         \A b \in Belief :
           /\ status'[b] = "unwritten" <=> mirror'[b] = "none"
           /\ mirror'[b] \in {"none", "written"} =>
                mirror[b] \in {"none", "written"} /\ b \notin memory'
           /\ b \in memory' => b \in memory \/ mirror[b] = "written"
  PROVE  MirroredOnce'
<1>1. Rows' = Rows
  BY DEF Rows
<1>2. QED BY <1>1 DEF FanoutInv, MirroredOnce

LEMMA FanoutInvStep == FanoutInv /\ [Next]_vars => FanoutInv'
<1> SUFFICES ASSUME FanoutInv, [Next]_vars PROVE FanoutInv'
  OBVIOUS
<1>0. TypeOK /\ TypeOK'
  BY TypeStep DEF FanoutInv
<1>1. ASSUME UNCHANGED <<status, mirror, memory, action, outbox, delivered, receipts>>
      PROVE  FanoutInv'
  <2>1. Rows' = Rows
    BY <1>1 DEF Rows
  <2>2. QED BY <1>0, <1>1, <2>1 DEF FanoutInv, ExactlyOnce, ReceiptsAccount, MirroredOnce
<1>2. CASE UNCHANGED vars
  BY <1>1, <1>2 DEF vars
<1>3. ASSUME NEW b \in Belief, NEW birth \in {"active", "suspect"},
             WriteBelief(b, birth)
      PROVE  FanoutInv'
  <2>1. MirroredOnce'
    <3>1. mirror[b] = "none" /\ b \notin memory
      BY <1>3 DEF WriteBelief, FanoutInv, MirroredOnce
    <3>2. QED BY <1>0, <1>3, <3>1, MirrorStep
              DEF WriteBelief, FanoutInv, MirroredOnce, TypeOK
  <2>2. QED BY <1>0, <1>3, <2>1, QuietKeepsInv DEF WriteBelief
<1>4. ASSUME NEW b \in Belief, AddTexts(b) PROVE FanoutInv'
  <2>1. MirroredOnce'
    BY <1>0, <1>4, MirrorStep DEF AddTexts, FanoutInv, MirroredOnce, TypeOK
  <2>2. QED BY <1>0, <1>4, <2>1, QuietKeepsInv DEF AddTexts
<1>5. ASSUME NEW b \in Belief, Recheck(b) PROVE FanoutInv'
  <2>1. MirroredOnce'
    BY <1>0, <1>5, MirrorStep DEF Recheck, FanoutInv, MirroredOnce, TypeOK
  <2>2. QED BY <1>0, <1>5, <2>1, QuietKeepsInv DEF Recheck
<1>6. ASSUME NEW b \in Belief, AgentStops(b) PROVE FanoutInv'
  <2>1. MirroredOnce'
    BY <1>0, <1>6, MirrorStep DEF AgentStops, FanoutInv, MirroredOnce, TypeOK
  <2>2. QED BY <1>0, <1>6, <2>1, QuietKeepsInv DEF AgentStops
<1>7. ASSUME NEW a \in Action, EnqueueAction(a) PROVE FanoutInv'
  <2>1. /\ UNCHANGED <<delivered, receipts, outbox>> /\ MirroredOnce'
    BY <1>0, <1>7, MirrorStep DEF EnqueueAction, FanoutInv, MirroredOnce
  <2>2. \A x \in Action : action'[x] = "aborted" <=> action[x] = "aborted"
    BY <1>0, <1>7 DEF EnqueueAction, TypeOK
  <2>3. QED BY <1>0, <2>1, <2>2, QuietKeepsInv
<1>8. ASSUME NEW e \in Event,
             NEW C \in SUBSET {b \in Belief : status[b] \notin {"unwritten", "gone"}},
             Recant(e, C)
      PROVE  FanoutInv'
  <2>1. \A x \in Posted : outbox'[x] = outbox[x]
    BY <1>0, <1>8 DEF Recant, TypeOK, Posted
  <2>2. \A b \in Belief : status'[b] = "unwritten" <=> status[b] = "unwritten"
    BY <1>8 DEF Recant
  <2>3. MirroredOnce'
    BY <1>8, <2>2, MirrorStep DEF Recant, FanoutInv, MirroredOnce
  <2>4. QED BY <1>0, <1>8, <2>1, <2>3, QuietKeepsInv DEF Recant
<1>9. ASSUME NEW b \in Belief, DeleteByTTL(b) PROVE FanoutInv'
  <2>1. MirroredOnce'
    BY <1>0, <1>9, MirrorStep DEF DeleteByTTL, FanoutInv, MirroredOnce, TypeOK
  <2>2. QED BY <1>0, <1>9, <2>1, QuietKeepsInv DEF DeleteByTTL
<1>10. ASSUME NEW w \in Worker, Poll(w) PROVE FanoutInv'
  BY <1>1, <1>10 DEF Poll
<1>11. ASSUME NEW w \in Worker, NEW e \in Event, Deliver(w, e) PROVE FanoutInv'
  BY <1>0, <1>11, DeliverKeepsInv
<1>12. ASSUME NEW w \in Worker, NEW e \in Event, LoseRace(w, e) PROVE FanoutInv'
  BY <1>1, <1>12 DEF LoseRace
<1>13. ASSUME NEW w \in Worker, WorkerDies(w) PROVE FanoutInv'
  BY <1>1, <1>13 DEF WorkerDies
<1>14. QED BY <1>2, <1>3, <1>4, <1>5, <1>6, <1>7, <1>8, <1>9, <1>10, <1>11, <1>12, <1>13
         DEF Next, Mirroring, Working

LEMMA FanoutInvHolds == Spec => []FanoutInv
  BY InitInv, FanoutInvStep, PTL DEF Spec

(* However many workers race on an event, die in it or come back to it,    *)
(* its effect is exactly once per consumer (fanout/worker.py:55-112).      *)
THEOREM DeliveriesAreExactlyOnce == Spec => []ExactlyOnce
<1>1. FanoutInv => ExactlyOnce
  BY DEF FanoutInv
<1>2. QED BY <1>1, FanoutInvHolds, PTL

(* The receipts account for every abort and every eviction, for any number *)
(* of consumers (fanout/handler.py:154-202).                               *)
THEOREM ReceiptsAccountForEffects == Spec => []ReceiptsAccount
<1>1. FanoutInv => ReceiptsAccount
  BY DEF FanoutInv
<1>2. QED BY <1>1, FanoutInvHolds, PTL

-----------------------------------------------------------------------------
(* What may be left in working memory of a recanted belief. *)
ResidueIsOfStopped ==
  \A b \in memory : status[b] = "quarantined" =>
    \/ mirror[b] \in {"added", "stopped"}
    \/ \E e \in Posted : b \in outbox[e] /\ \A c \in Consumer : <<e, c>> \notin delivered

LEMMA ResidueStep == TypeOK /\ ResidueIsOfStopped /\ [Next]_vars => ResidueIsOfStopped'
<1> SUFFICES ASSUME TypeOK, ResidueIsOfStopped, [Next]_vars PROVE ResidueIsOfStopped'
  OBVIOUS
<1>0. TypeOK'
  BY TypeStep
<1>1. ASSUME UNCHANGED <<status, mirror, memory, outbox, delivered>> PROVE ResidueIsOfStopped'
  BY <1>1 DEF ResidueIsOfStopped, Posted
<1>2. CASE UNCHANGED vars
  BY <1>1, <1>2 DEF vars
<1>3. ASSUME NEW b \in Belief, NEW birth \in {"active", "suspect"},
             WriteBelief(b, birth)
      PROVE  ResidueIsOfStopped'
  BY <1>3 DEF WriteBelief, ResidueIsOfStopped, Posted, TypeOK
<1>4. ASSUME NEW b \in Belief, AddTexts(b) PROVE ResidueIsOfStopped'
  BY <1>4 DEF AddTexts, ResidueIsOfStopped, Posted, TypeOK
<1>5. ASSUME NEW b \in Belief, Recheck(b) PROVE ResidueIsOfStopped'
  BY <1>5 DEF Recheck, ResidueIsOfStopped, Posted, TypeOK
<1>6. ASSUME NEW b \in Belief, AgentStops(b) PROVE ResidueIsOfStopped'
  BY <1>6 DEF AgentStops, ResidueIsOfStopped, Posted, TypeOK
<1>7. ASSUME NEW a \in Action, EnqueueAction(a) PROVE ResidueIsOfStopped'
  BY <1>1, <1>7 DEF EnqueueAction
<1>8. ASSUME NEW e \in Event,
             NEW C \in SUBSET {b \in Belief : status[b] \notin {"unwritten", "gone"}},
             Recant(e, C)
      PROVE  ResidueIsOfStopped'
  <2> DEFINE flipped == {b \in C : status[b] \in {"active", "suspect"}}
  <2>1. /\ outbox[e] = NoEvent
        /\ status' = [b \in Belief |-> IF b \in flipped THEN "quarantined" ELSE status[b]]
        /\ outbox' = [outbox EXCEPT ![e] = flipped]
        /\ UNCHANGED <<mirror, memory, delivered>>
    BY <1>8 DEF Recant
  <2>2. flipped \in SUBSET Belief /\ flipped # NoEvent
    BY FanoutConstants
  <2> HIDE DEF flipped
  <2>3. outbox'[e] = flipped /\ \A x \in Event : x # e => outbox'[x] = outbox[x]
    BY <2>1 DEF TypeOK
  <2>4. e \in Posted' /\ Posted \subseteq Posted'
    BY <2>1, <2>2, <2>3 DEF Posted
  <2>5. \A c \in Consumer : <<e, c>> \notin delivered
    <3>1. e \notin Posted
      BY <2>1 DEF Posted
    <3>2. QED BY <3>1 DEF TypeOK
  <2>6. ASSUME NEW b \in memory, status'[b] = "quarantined", mirror[b] \notin {"added", "stopped"}
        PROVE  \E x \in Posted' :
                 b \in outbox'[x] /\ \A c \in Consumer : <<x, c>> \notin delivered
    <3>1. CASE b \in flipped
      BY <2>3, <2>4, <2>5, <3>1
    <3>2. CASE b \notin flipped
      <4>1. status[b] = "quarantined"
        BY <2>1, <2>6, <3>2 DEF TypeOK
      <4>2. PICK x \in Posted : b \in outbox[x]
              /\ \A c \in Consumer : <<x, c>> \notin delivered
        BY <2>6, <4>1 DEF ResidueIsOfStopped
      <4>3. x # e /\ x \in Event
        BY <2>1, <4>2 DEF Posted
      <4>4. QED BY <2>3, <2>4, <4>2, <4>3
    <3>3. QED BY <3>1, <3>2
  <2>7. QED BY <2>1, <2>6 DEF ResidueIsOfStopped
<1>9. ASSUME NEW b \in Belief, DeleteByTTL(b) PROVE ResidueIsOfStopped'
  BY <1>9 DEF DeleteByTTL, ResidueIsOfStopped, Posted, TypeOK
<1>10. ASSUME NEW w \in Worker, Poll(w) PROVE ResidueIsOfStopped'
  BY <1>1, <1>10 DEF Poll
<1>11. ASSUME NEW w \in Worker, NEW e \in Event, Deliver(w, e) PROVE ResidueIsOfStopped'
  <2>1. /\ memory' = memory \ Evicts(e) /\ delivered' = delivered \cup {<<e, ConsumerOf[w]>>}
        /\ UNCHANGED <<status, mirror, outbox>>
    BY <1>11 DEF Deliver, Apply
  <2>2. \A b \in memory' : status[b] = "quarantined" => b \notin outbox[e]
    BY <2>1 DEF Evicts
  <2>3. Posted' = Posted
    BY <2>1 DEF Posted
  <2>4. QED BY <2>1, <2>2, <2>3 DEF ResidueIsOfStopped
<1>12. ASSUME NEW w \in Worker, NEW e \in Event, LoseRace(w, e) PROVE ResidueIsOfStopped'
  BY <1>1, <1>12 DEF LoseRace
<1>13. ASSUME NEW w \in Worker, WorkerDies(w) PROVE ResidueIsOfStopped'
  BY <1>1, <1>13 DEF WorkerDies
<1>14. QED BY <1>2, <1>3, <1>4, <1>5, <1>6, <1>7, <1>8, <1>9, <1>10, <1>11, <1>12, <1>13
         DEF Next, Mirroring, Working

(* Whatever workers, recants, expiries and crashes do, a recanted belief   *)
(* stays in working memory with nobody bound to remove it only where the   *)
(* agents' process died in the middle of mirroring that very belief        *)
(* (fleet/agents.py:55-99).                                                *)
THEOREM OnlyStoppedAgentsLeaveResidue == Spec => []ResidueIsOfStopped
<1>1. Init => ResidueIsOfStopped
  BY DEF Init, ResidueIsOfStopped
<1>2. QED BY <1>1, ResidueStep, FanoutTypeCorrect, PTL DEF Spec

(* A process that lives stops only at a belief whose row is gone. *)
StoppedAreGone == \A b \in Belief : mirror[b] = "stopped" => status[b] = "gone"

LEMMA StoppedStep ==
  ASSUME AgentsStop = FALSE
  PROVE  TypeOK /\ StoppedAreGone /\ [Next]_vars => StoppedAreGone'
<1> SUFFICES ASSUME TypeOK, StoppedAreGone, [Next]_vars PROVE StoppedAreGone'
  OBVIOUS
<1>1. CASE UNCHANGED <<status, mirror>>
  BY <1>1 DEF StoppedAreGone
<1>2. CASE UNCHANGED vars
  BY <1>1, <1>2 DEF vars
<1>3. ASSUME NEW b \in Belief, NEW birth \in {"active", "suspect"},
             WriteBelief(b, birth)
      PROVE  StoppedAreGone'
  BY <1>3 DEF WriteBelief, StoppedAreGone, TypeOK
<1>4. ASSUME NEW b \in Belief, Mirroring(b) \/ AgentStops(b) PROVE StoppedAreGone'
  BY <1>4 DEF Mirroring, AddTexts, Recheck, AgentStops, StoppedAreGone, TypeOK
<1>5. ASSUME NEW e \in Event,
             NEW C \in SUBSET {b \in Belief : status[b] \notin {"unwritten", "gone"}},
             Recant(e, C)
      PROVE  StoppedAreGone'
  BY <1>5 DEF Recant, StoppedAreGone, TypeOK
<1>6. ASSUME NEW b \in Belief, DeleteByTTL(b) PROVE StoppedAreGone'
  BY <1>6 DEF DeleteByTTL, StoppedAreGone, TypeOK
<1>7. ASSUME \/ \E a \in Action : EnqueueAction(a)
             \/ \E w \in Worker : Working(w) \/ WorkerDies(w)
      PROVE  UNCHANGED <<status, mirror>>
  BY <1>7 DEF EnqueueAction, Working, Poll, Deliver, LoseRace, WorkerDies
<1>8. QED BY <1>1, <1>2, <1>3, <1>4, <1>5, <1>6, <1>7 DEF Next

(* The comment at fleet/agents.py:73-78, with the hypothesis it leaves     *)
(* out: as long as the agents' process lives, every recanted mirror has    *)
(* somebody bound to remove it.                                            *)
THEOREM LivingAgentsLeaveNoResidue ==
  ASSUME AgentsStop = FALSE PROVE Spec => []NoResidue
<1>1. Init => StoppedAreGone
  BY DEF Init, StoppedAreGone
<1>2. TypeOK /\ ResidueIsOfStopped /\ StoppedAreGone => NoResidue
  BY DEF TypeOK, ResidueIsOfStopped, StoppedAreGone, NoResidue
<1>3. QED BY <1>1, <1>2, StoppedStep, OnlyStoppedAgentsLeaveResidue, FanoutTypeCorrect,
             PTL DEF Spec

-----------------------------------------------------------------------------
(* A pending action loses what it is owed only to a delivery, and that     *)
(* delivery aborts it.                                                     *)
LEMMA DeliverPaysWhatIsOwed ==
  ASSUME TypeOK, NEW w \in Worker, NEW e \in Event, Deliver(w, e),
         NEW a \in Action, Doomed(a)', ~Owed(a)'
  PROVE  Doomed(a) /\ ~Owed(a)
<1>1. /\ action' = [x \in Action |-> IF x \in Aborts(e) THEN "aborted" ELSE action[x]]
      /\ delivered' = delivered \cup {<<e, ConsumerOf[w]>>}
      /\ UNCHANGED <<status, outbox>>
  BY DEF Deliver, Apply
<1>2. a \notin Aborts(e) /\ action[a] = "pending"
  BY <1>1 DEF Doomed
<1>3. Support[a] \cap outbox[e] = {}
  BY <1>2 DEF Aborts
<1>4. ASSUME NEW x \in Posted, NEW c \in Consumer,
             Support[a] \cap outbox[x] # {}, <<x, c>> \notin delivered
      PROVE  FALSE
  <2>1. x # e
    BY <1>3, <1>4
  <2>2. <<x, c>> \notin delivered' /\ x \in Posted' /\ outbox'[x] = outbox[x]
    BY <1>1, <1>4, <2>1 DEF Posted
  <2>3. QED BY <1>4, <2>2 DEF Owed
<1>5. Doomed(a)
  BY <1>1, <1>2 DEF Doomed
<1>6. QED BY <1>4, <1>5 DEF Owed

(* A recant that dooms an action owes it the event. *)
LEMMA RecantOwes ==
  ASSUME TypeOK, Consumer # {}, NEW e \in Event,
         NEW C \in SUBSET {b \in Belief : status[b] \notin {"unwritten", "gone"}},
         Recant(e, C), NEW a \in Action, Doomed(a)', ~Owed(a)'
  PROVE  Doomed(a) /\ ~Owed(a)
<1> DEFINE flipped == {b \in C : status[b] \in {"active", "suspect"}}
<1>1. /\ outbox[e] = NoEvent
      /\ status' = [b \in Belief |-> IF b \in flipped THEN "quarantined" ELSE status[b]]
      /\ outbox' = [outbox EXCEPT ![e] = flipped]
      /\ UNCHANGED <<action, delivered>>
  BY DEF Recant
<1>2. flipped \in SUBSET Belief /\ flipped # NoEvent
  BY FanoutConstants
<1> HIDE DEF flipped
<1>3. outbox'[e] = flipped /\ \A x \in Event : x # e => outbox'[x] = outbox[x]
  BY <1>1 DEF TypeOK
<1>4. e \in Posted' /\ \A x \in Posted : x \in Posted' /\ x # e /\ x \in Event
  BY <1>1, <1>2, <1>3 DEF Posted
<1>5. \A c \in Consumer : <<e, c>> \notin delivered
  <2>1. e \notin Posted
    BY <1>1 DEF Posted
  <2>2. QED BY <2>1 DEF TypeOK
<1>6. Support[a] \cap flipped = {}
  BY <1>1, <1>3, <1>4, <1>5 DEF Owed
<1>7. Doomed(a)
  <2>1. PICK b \in Support[a] : status'[b] = "quarantined"
    BY DEF Doomed
  <2>2. b \in Belief /\ b \notin flipped
    BY <1>6, <2>1, FanoutConstants
  <2>3. status[b] = "quarantined"
    BY <1>1, <2>1, <2>2
  <2>4. action[a] = "pending"
    BY <1>1 DEF Doomed
  <2>5. QED BY <2>3, <2>4 DEF Doomed
<1>8. ~Owed(a)
  BY <1>1, <1>3, <1>4 DEF Owed
<1>9. QED BY <1>7, <1>8

(* The abort of recanted evidence misses late actions and no others: an    *)
(* action resting on a quarantined belief with no delivery left to abort   *)
(* it was enqueued that way, after every consumer had applied the recant.  *)
(* No race of recants, workers, crashes and expiries makes another         *)
(* (fanout/handler.py:162-170, fleet/agents.py:143-173).                   *)
THEOREM OnlyLateActionsAreMissed ==
  ASSUME Consumer # {} PROVE Spec => OnlyLateActionsEscape
<1>1. TypeOK /\ [Next]_vars
        => [\A a \in Action : Doomed(a)' /\ ~Owed(a)'
              => (Doomed(a) /\ ~Owed(a)) \/ EnqueueAction(a)]_vars
  <2> SUFFICES ASSUME TypeOK, Next, NEW a \in Action, Doomed(a)', ~Owed(a)'
               PROVE  (Doomed(a) /\ ~Owed(a)) \/ EnqueueAction(a)
    OBVIOUS
  <2>1. ASSUME UNCHANGED <<action, outbox, delivered>>,
               \A b \in Belief : status'[b] = "quarantined" => status[b] = "quarantined"
        PROVE  Doomed(a) /\ ~Owed(a)
    <3>1. Support[a] \subseteq Belief
      BY FanoutConstants
    <3>2. Doomed(a)
      BY <2>1, <3>1 DEF Doomed
    <3>3. ~Owed(a)
      BY <2>1 DEF Owed, Posted
    <3>4. QED BY <3>2, <3>3
  <2>2. ASSUME NEW b \in Belief, NEW birth \in {"active", "suspect"},
               WriteBelief(b, birth)
        PROVE  Doomed(a) /\ ~Owed(a)
    BY <2>1, <2>2 DEF WriteBelief, TypeOK
  <2>3. ASSUME NEW b \in Belief, Mirroring(b) \/ AgentStops(b)
        PROVE  Doomed(a) /\ ~Owed(a)
    BY <2>1, <2>3 DEF Mirroring, AddTexts, Recheck, AgentStops
  <2>4. ASSUME NEW x \in Action, EnqueueAction(x)
        PROVE  (Doomed(a) /\ ~Owed(a)) \/ EnqueueAction(a)
    <3>1. CASE x = a
      BY <2>4, <3>1
    <3>2. CASE x # a
      BY <2>4, <3>2 DEF EnqueueAction, Doomed, Owed, Posted, TypeOK
    <3>3. QED BY <3>1, <3>2
  <2>5. ASSUME NEW e \in Event,
               NEW C \in SUBSET {b \in Belief : status[b] \notin {"unwritten", "gone"}},
               Recant(e, C)
        PROVE  Doomed(a) /\ ~Owed(a)
    BY <2>5, RecantOwes
  <2>6. ASSUME NEW b \in Belief, DeleteByTTL(b) PROVE Doomed(a) /\ ~Owed(a)
    BY <2>1, <2>6 DEF DeleteByTTL, TypeOK
  <2>7. ASSUME NEW w \in Worker, NEW e \in Event, Deliver(w, e)
        PROVE  Doomed(a) /\ ~Owed(a)
    BY <2>7, DeliverPaysWhatIsOwed
  <2>8. ASSUME NEW w \in Worker,
               Poll(w) \/ WorkerDies(w) \/ \E e \in Event : LoseRace(w, e)
        PROVE  Doomed(a) /\ ~Owed(a)
    BY <2>1, <2>8 DEF Poll, WorkerDies, LoseRace
  <2>9. QED BY <2>2, <2>3, <2>4, <2>5, <2>6, <2>7, <2>8 DEF Next, Working
<1>2. QED BY <1>1, FanoutTypeCorrect, PTL DEF Spec, OnlyLateActionsEscape

-----------------------------------------------------------------------------
(* The log of Delivery, read off the receipts. *)
Log == [i \in Rows |-> <<receipts[i].event, receipts[i].consumer>>]

LEMMA DeliverIsApply ==
  ASSUME FanoutInv, NEW w \in Worker, NEW e \in Event, Deliver(w, e)
  PROVE  Promise!Apply(e, ConsumerOf[w])
<1> DEFINE c == ConsumerOf[w]
           n == Len(receipts) + 1
           row == [event |-> e, consumer |-> c, evicted |-> Evicts(e), aborted |-> Aborts(e)]
<1>1. TypeOK /\ ExactlyOnce
  BY DEF FanoutInv
<1>2. e \in Posted /\ <<e, c>> \notin delivered
  BY <1>1, DeliverEffect
<1>3. /\ receipts' = Append(receipts, row) /\ Rows' = Rows \cup {n} /\ n \notin Rows
      /\ receipts'[n] = row /\ \A i \in Rows : receipts'[i] = receipts[i]
  BY <1>1, DeliverEffect
<1>4. row.event = e /\ row.consumer = c
  OBVIOUS
<1> HIDE DEF row
<1>5. \A i \in Rows : Log[i] # <<e, c>>
  BY <1>1, <1>2 DEF ExactlyOnce, Log
<1>6. Rows = 1..Len(Log) /\ Len(Log) = Len(receipts) /\ Log \in Seq(Event \X Consumer)
      /\ DOMAIN Log = Rows
  <2>1. receipts \in Seq(ReceiptRow)
    BY <1>1 DEF TypeOK
  <2>2. Rows = 1..Len(receipts) /\ Len(receipts) \in Nat
    BY <2>1 DEF Rows
  <2>3. \A i \in Rows : Log[i] \in Event \X Consumer
    BY <1>1, RowTyped DEF Log
  <2>4. Log \in [1..Len(receipts) -> Event \X Consumer]
    BY <2>2, <2>3 DEF Log
  <2>5. QED BY <2>2, <2>4
<1>7. Log' = Append(Log, <<e, c>>)
  <2>1. DOMAIN Log' = Rows' /\ \A i \in Rows' : Log'[i] = <<receipts'[i].event, receipts'[i].consumer>>
    BY DEF Log
  <2>2. \A i \in Rows : Log'[i] = Log[i]
    BY <1>3, <2>1 DEF Log
  <2>3. Log'[n] = <<e, c>>
    BY <1>3, <1>4, <2>1
  <2>4. Log' = [i \in Rows' |-> Log'[i]]
    BY DEF Log
  <2>5. Append(Log, <<e, c>>) = [i \in 1..n |-> IF i = n THEN <<e, c>> ELSE Log[i]]
    BY <1>6
  <2>6. Rows' = 1..n
    BY <1>3, <1>6
  <2>7. QED BY <2>2, <2>3, <2>4, <2>5, <2>6, <1>3
<1>8. Posted' = Posted
  BY DEF Deliver, Posted
<1>9. ~Promise!IsApplied(e, c)
  BY <1>5, <1>6 DEF Promise!IsApplied, Log, Rows
<1>10. QED BY <1>2, <1>7, <1>8, <1>9 DEF Promise!Apply, Log, Rows

LEMMA FanoutRefines == FanoutInv /\ [Next]_vars => [Promise!Next]_(Promise!vars)
<1> SUFFICES ASSUME FanoutInv, [Next]_vars PROVE [Promise!Next]_(Promise!vars)
  OBVIOUS
<1>1. ASSUME UNCHANGED <<outbox, receipts>> PROVE UNCHANGED Promise!vars
  BY <1>1 DEF Promise!vars, Posted
<1>2. CASE UNCHANGED vars
  BY <1>1, <1>2 DEF vars
<1>3. ASSUME NEW e \in Event,
             NEW C \in SUBSET {b \in Belief : status[b] \notin {"unwritten", "gone"}},
             Recant(e, C)
      PROVE  Promise!Post(e)
  <2> DEFINE flipped == {b \in C : status[b] \in {"active", "suspect"}}
  <2>1. flipped \in SUBSET Belief /\ flipped # NoEvent
    BY FanoutConstants
  <2>2. outbox' = [outbox EXCEPT ![e] = flipped] /\ receipts' = receipts
    BY <1>3 DEF Recant
  <2> HIDE DEF flipped
  <2>3. Posted' = Posted \cup {e}
    BY <2>1, <2>2 DEF Posted, FanoutInv, TypeOK
  <2>4. QED BY <2>2, <2>3 DEF Promise!Post
<1>4. ASSUME NEW w \in Worker, NEW e \in Event, Deliver(w, e)
      PROVE  Promise!Apply(e, ConsumerOf[w])
  BY <1>4, DeliverIsApply
<1>5. ASSUME \/ \E b \in Belief, birth \in {"active", "suspect"} : WriteBelief(b, birth)
             \/ \E b \in Belief : Mirroring(b) \/ AgentStops(b) \/ DeleteByTTL(b)
             \/ \E a \in Action : EnqueueAction(a)
             \/ \E w \in Worker : Poll(w) \/ WorkerDies(w)
             \/ \E w \in Worker, e \in Event : LoseRace(w, e)
      PROVE  UNCHANGED <<outbox, receipts>>
  BY <1>5 DEF WriteBelief, Mirroring, AddTexts, Recheck, AgentStops, DeleteByTTL,
              EnqueueAction, Poll, WorkerDies, LoseRace
<1>6. QED BY <1>1, <1>2, <1>3, <1>4, <1>5 DEF Next, Working, Promise!Next

(* The poller keeps the outbox's promise: nothing is applied that was not  *)
(* posted, and nothing twice (fanout/worker.py:3-9).                       *)
THEOREM FanoutKeepsPromise == Spec => Promise!Safe
<1>1. Init => Promise!Init
  <2> SUFFICES ASSUME Init PROVE Promise!Init
    OBVIOUS
  <2>1. receipts = <<>> /\ Posted = {}
    BY DEF Init, Posted
  <2>2. QED BY <2>1 DEF Promise!Init
<1>2. QED BY <1>1, FanoutInvHolds, FanoutRefines, PTL DEF Spec, Promise!Safe

-----------------------------------------------------------------------------
(* What happens to beliefs here is what the ledger does to them. *)
FlippedBy == [e \in Event |-> IF e \in Posted THEN outbox[e] ELSE {}]
Life == INSTANCE Lifecycle WITH opened <- Posted, flipped <- FlippedBy

LEMMA RecantIsFlip ==
  ASSUME TypeOK, NEW e \in Event,
         NEW C \in SUBSET {b \in Belief : status[b] \notin {"unwritten", "gone"}},
         Recant(e, C)
  PROVE  Life!Next
<1> DEFINE F == {b \in C : status[b] \in {"active", "suspect"}}
           g == [FlippedBy EXCEPT ![e] = F]
<1>1. F \in SUBSET Belief /\ F # NoEvent /\ \A b \in F : status[b] \in {"active", "suspect"}
  BY FanoutConstants
<1>2. /\ e \notin Posted
      /\ status' = [b \in Belief |-> IF b \in F THEN "quarantined" ELSE status[b]]
      /\ outbox' = [outbox EXCEPT ![e] = F]
  BY DEF Recant, Posted
<1> HIDE DEF F
<1>3. outbox'[e] = F /\ \A x \in Event : x # e => outbox'[x] = outbox[x]
  BY <1>2 DEF TypeOK
<1>4. Posted' = Posted \cup {e}
  BY <1>1, <1>3 DEF Posted
<1>5. \A x \in Event : FlippedBy'[x] = IF x = e THEN F ELSE FlippedBy[x]
  BY <1>3, <1>4 DEF FlippedBy
<1>6. FlippedBy' = g
  <2>1. FlippedBy' = [x \in Event |-> FlippedBy'[x]]
    BY DEF FlippedBy
  <2>2. g = [x \in Event |-> IF x = e THEN F ELSE FlippedBy[x]]
    BY DEF FlippedBy
  <2> HIDE DEF FlippedBy
  <2>3. QED BY <1>5, <2>1, <2>2
<1>7. Life!Flip(e, F)
  BY <1>1, <1>2, <1>4, <1>6 DEF Life!Flip
<1>8. QED BY <1>1, <1>7 DEF Life!Next

LEMMA LifeStep == TypeOK /\ [Next]_vars => [Life!Next]_(Life!vars)
<1> SUFFICES ASSUME TypeOK, [Next]_vars PROVE [Life!Next]_(Life!vars)
  OBVIOUS
<1>1. ASSUME UNCHANGED outbox PROVE UNCHANGED <<Posted, FlippedBy>>
  BY <1>1 DEF Posted, FlippedBy
<1>2. ASSUME \/ UNCHANGED vars
             \/ \E b \in Belief : Mirroring(b) \/ AgentStops(b)
             \/ \E a \in Action : EnqueueAction(a)
             \/ \E w \in Worker : Working(w) \/ WorkerDies(w)
      PROVE  UNCHANGED <<status, outbox>>
  BY <1>2 DEF vars, Mirroring, AddTexts, Recheck, AgentStops, EnqueueAction,
              Working, Poll, Deliver, LoseRace, WorkerDies
<1>3. ASSUME NEW b \in Belief, NEW birth \in {"active", "suspect"}, WriteBelief(b, birth)
      PROVE  Life!Next
  <2>1. Life!Write(b, birth)
    BY <1>1, <1>3 DEF WriteBelief, Life!Write
  <2>2. QED BY <2>1 DEF Life!Next
<1>4. ASSUME NEW e \in Event,
             NEW C \in SUBSET {b \in Belief : status[b] \notin {"unwritten", "gone"}},
             Recant(e, C)
      PROVE  Life!Next
  BY <1>4, RecantIsFlip
<1>5. ASSUME NEW b \in Belief, DeleteByTTL(b) PROVE Life!Next
  <2>1. Life!Delete(b)
    BY <1>1, <1>5 DEF DeleteByTTL, Life!Delete
  <2>2. QED BY <2>1 DEF Life!Next
<1>6. QED BY <1>1, <1>2, <1>3, <1>4, <1>5 DEF Next, Life!vars

(* The beliefs, recants and expiries around the workers keep to the        *)
(* lifecycle that the ledger keeps (LedgerKeepsLifecycle).                 *)
THEOREM FanoutKeepsLifecycle == Spec => Life!Spec
<1>1. Init => Life!Init
  BY DEF Init, Life!Init, Posted, FlippedBy
<1>2. QED BY <1>1, LifeStep, FanoutTypeCorrect, PTL DEF Spec, Life!Spec
=============================================================================
