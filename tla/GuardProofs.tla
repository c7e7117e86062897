---------------------------- MODULE GuardProofs ----------------------------
(***************************************************************************)
(* TLAPS proofs about Guard, for any sets of beliefs, principals, receipts *)
(* and decisions, any policies and either authentication mode.             *)
(***************************************************************************)
EXTENDS Guard, TLAPS

Shared == INSTANCE Facts  \* its reachability is over the beliefs of Guard

(* What the step from "issued" to "settled" never breaks.  The evictions   *)
(* waiting in the outbox name only beliefs that stopped being active, and  *)
(* a live permit touches none of them: this is why a delivery that comes   *)
(* late cannot abort an action that may still execute.                     *)
IssuedIsDecided ==
  \A d \in Decision :
    /\ permit[d].issued => decision[d] # Absent
    /\ action[d] = "none" <=> ~permit[d].issued

EvictedIsInactive ==
  \A E \in outbox : \A b \in E : status[b] \in {"quarantined", "gone"}

LiveIsNotEvicted ==
  \A d \in Decision : Live(d) => \A E \in outbox : E \cap decision[d].support = {}

GuardInv ==
  /\ TypeOK
  /\ IssuedIsDecided
  /\ EvictedIsInactive
  /\ LiveIsNotEvicted
  /\ QuarantineRevokes
  /\ PermitSettlesAction
  /\ DoomedIsQueued

-----------------------------------------------------------------------------
(* Judge answers a verdict, and allows only on evidence that is all active. *)
LEMMA JudgeVerdict ==
  ASSUME NEW S, NEW r, NEW pol
  PROVE  /\ Judge(S, r, pol) \in Verdict
         /\ Judge(S, r, pol) = "allow" =>
              ~Refused(S, r, pol) /\ Sufficient(S, pol) /\ S \subseteq Active
  BY DEF Judge, Verdict, Refused

(* The observed authority is a natural number no belief falls short of. *)
LEMMA ObservedIsLeast ==
  ASSUME NEW S \in SUBSET Belief
  PROVE  /\ Observed(S) \in Nat
         /\ \A b \in S : Observed(S) <= Authority[b]
<1>1. CASE S = {}
  BY <1>1 DEF Observed
<1>2. CASE S # {}
  <2> DEFINE R == {Authority[b] : b \in S}
  <2>1. R \in SUBSET Nat /\ R # {}
    BY <1>2, GuardConstants
  <2>2. \E m \in R : \A n \in R : m <= n
    BY <2>1, Shared!NatMin
  <2>3. \E r \in R : \A b \in S : r <= Authority[b]
    BY <2>2
  <2>4. Observed(S) = CHOOSE r \in R : \A b \in S : r <= Authority[b]
    BY <1>2 DEF Observed
  <2>5. Observed(S) \in R /\ \A b \in S : Observed(S) <= Authority[b]
    BY <2>3, <2>4
  <2>6. QED BY <2>1, <2>5
<1>3. QED BY <1>1, <1>2

(* A decision that exists is a row, and its support names beliefs. *)
LEMMA RowTyped ==
  ASSUME TypeOK, NEW d \in Decision, decision[d] # Absent
  PROVE  /\ decision[d] \in Row
         /\ decision[d].support \subseteq Belief
  BY DEF TypeOK, Row

-----------------------------------------------------------------------------
(* Issuing a permit keeps permits and actions well-formed. *)
LEMMA IssueTyped ==
  ASSUME TypeOK, NEW d \in Decision, IssuePermit(d)
  PROVE  /\ permit' \in [Decision -> [issued : BOOLEAN, consumed : BOOLEAN,
                                      revoked : BOOLEAN]]
         /\ action' \in [Decision -> {"none", "pending", "executed", "aborted"}]
<1>1. permit[d] \in [issued : BOOLEAN, consumed : BOOLEAN, revoked : BOOLEAN]
  BY DEF TypeOK
<1>2. [permit[d] EXCEPT !.issued = TRUE]
        \in [issued : BOOLEAN, consumed : BOOLEAN, revoked : BOOLEAN]
  BY <1>1
<1>3. permit' = [permit EXCEPT ![d] = [permit[d] EXCEPT !.issued = TRUE]]
  BY DEF IssuePermit, TypeOK
<1>4. QED BY <1>2, <1>3 DEF IssuePermit, TypeOK

(* Every step keeps every table's rows well-formed. *)
LEMMA TypeStep == TypeOK /\ [Next]_vars => TypeOK'
<1> SUFFICES ASSUME TypeOK, [Next]_vars PROVE TypeOK'
  OBVIOUS
<1>1. ASSUME NEW r \in Receipt, NEW p \in Caller(Writer), NEW B \in SUBSET Belief,
             CreateReceipt(r, p, B)
      PROVE  TypeOK'
  <2>1. p \in Writer \cup Operator \cup {Nobody}
    BY DEF Caller
  <2>2. QED BY <1>1, <2>1 DEF CreateReceipt, TypeOK
<1>2. ASSUME NEW d \in Decision, NEW p \in Caller(Writer), NEW S \in SUBSET Belief,
             NEW r \in Receipt \cup {NoReceipt}, Authorize(d, p, S, r)
      PROVE  TypeOK'
  <2> DEFINE v == Judge(S, r, policy)
             row == [verdict |-> v, by |-> p, support |-> S, receipt |-> r,
                     risk |-> policy.risk, required |-> policy.required,
                     observed |-> Observed(S), supersedes |-> NoDecision]
  <2>1. p \in Writer \cup Operator \cup {Nobody}
    BY DEF Caller
  <2>2. v \in Verdict /\ Observed(S) \in Nat
    BY JudgeVerdict, ObservedIsLeast
  <2>3. policy.risk \in RiskClass /\ policy.required \in Nat
    BY GuardConstants DEF TypeOK, Policy
  <2>4. row \in Row
    BY <2>1, <2>2, <2>3 DEF Row
  <2>5. decision' = [decision EXCEPT ![d] = row]
    BY <1>2 DEF Authorize
  <2>6. decision' \in [Decision -> Row \cup {Absent}]
    BY <2>4, <2>5 DEF TypeOK
  <2>7. /\ permit' \in [Decision -> [issued : BOOLEAN, consumed : BOOLEAN,
                                     revoked : BOOLEAN]]
        /\ action' \in [Decision -> {"none", "pending", "executed", "aborted"}]
    <3>1. CASE v = "allow"
      BY <1>2, <3>1, IssueTyped DEF Authorize
    <3>2. CASE v # "allow"
      BY <1>2, <3>2 DEF Authorize, TypeOK
    <3>3. QED BY <3>1, <3>2
  <2>8. QED BY <1>2, <2>6, <2>7 DEF Authorize, TypeOK
<1>3. ASSUME NEW c \in Decision, NEW d \in Decision, NEW p \in Caller(Operator),
             Confirm(c, d, p)
      PROVE  TypeOK'
  <2> DEFINE row == [decision[c] EXCEPT
                       !.verdict = "allow", !.by = p, !.supersedes = c,
                       !.observed = IF @ >= UserConfirmed THEN @ ELSE UserConfirmed]
  <2>1. p \in Writer \cup Operator \cup {Nobody}
    BY DEF Caller
  <2>2. decision[c] \in Row
    BY <1>3, RowTyped DEF Confirm, MayConfirm, Absent
  <2>3. row \in Row
    BY <2>1, <2>2 DEF Row, Verdict, UserConfirmed
  <2>4. decision' = [decision EXCEPT ![d] = row]
    BY <1>3 DEF Confirm
  <2>5. decision' \in [Decision -> Row \cup {Absent}]
    BY <2>3, <2>4 DEF TypeOK
  <2>6. /\ permit' \in [Decision -> [issued : BOOLEAN, consumed : BOOLEAN,
                                     revoked : BOOLEAN]]
        /\ action' \in [Decision -> {"none", "pending", "executed", "aborted"}]
    BY <1>3, IssueTyped DEF Confirm
  <2>7. QED BY <1>3, <2>5, <2>6 DEF Confirm, TypeOK
<1>4. ASSUME NEW d \in Decision, Consume(d) PROVE TypeOK'
  BY <1>4 DEF Consume, TypeOK
<1>5. ASSUME NEW d \in Decision, ConsumeRefused(d) PROVE TypeOK'
  BY <1>5 DEF ConsumeRefused, RevokeAndAbort, TypeOK
<1>6. ASSUME NEW C \in SUBSET {b \in Belief : status[b] # "gone"}, Recant(C)
      PROVE  TypeOK'
  <2>1. status' \in [Belief -> {"active", "suspect", "quarantined", "gone"}]
    BY <1>6 DEF Recant, TypeOK
  <2>2. permit' \in [Decision -> [issued : BOOLEAN, consumed : BOOLEAN,
                                  revoked : BOOLEAN]]
    BY <1>6 DEF Recant, TypeOK
  <2>3. outbox' \subseteq SUBSET Belief
    BY <1>6 DEF Recant, TypeOK
  <2>4. QED BY <1>6, <2>1, <2>2, <2>3 DEF Recant, TypeOK
<1>7. ASSUME NEW E \in outbox, Deliver(E) PROVE TypeOK'
  BY <1>7 DEF Deliver, TypeOK
<1>8. ASSUME NEW b \in Belief, DeleteByTTL(b) PROVE TypeOK'
  BY <1>8 DEF DeleteByTTL, TypeOK
<1>9. ASSUME NEW x \in Receipt \cup Decision, Expire(x) PROVE TypeOK'
  BY <1>9 DEF Expire, TypeOK
<1>10. ASSUME NEW pol \in Policies, PutPolicy(pol) PROVE TypeOK'
  BY <1>10 DEF PutPolicy, TypeOK
<1>11. CASE UNCHANGED vars
  BY <1>11 DEF vars, TypeOK
<1>12. QED
  BY <1>1, <1>2, <1>3, <1>4, <1>5, <1>6, <1>7, <1>8, <1>9, <1>10, <1>11 DEF Next

(* Spec keeps TypeOK: no handler writes a malformed row. *)
THEOREM GuardTypeCorrect == Spec => []TypeOK
<1>1. Init => TypeOK
  BY DEF Init, TypeOK, Unissued
<1>2. QED BY <1>1, TypeStep, PTL DEF Spec

-----------------------------------------------------------------------------
(* A new decision disturbs no other; with a permit, its support is active, *)
(* so no waiting eviction and no quarantined belief touches it.            *)
LEMMA DecideKeepsInv ==
  ASSUME GuardInv, TypeOK',
         NEW d \in Decision, NEW row \in Row,
         decision[d] = Absent,
         decision' = [decision EXCEPT ![d] = row],
         UNCHANGED <<status, outbox>>,
         \/ UNCHANGED <<permit, action>>
         \/ IssuePermit(d) /\ row.support \subseteq Active
  PROVE  GuardInv'
<1> USE DEF GuardInv
<1>1. /\ ~permit[d].issued
      /\ action[d] = "none"
      /\ ~permit[d].consumed
  BY DEF IssuedIsDecided, PermitSettlesAction
<1>2. row # Absent /\ decision'[d] = row
  BY DEF Row, Absent, Verdict, TypeOK
<1>3. \A e \in Decision : e # d => decision'[e] = decision[e]
  BY DEF TypeOK
<1>4. CASE UNCHANGED <<permit, action>>
  <2>1. \A e \in Decision : permit'[e].issued => e # d
    BY <1>1, <1>4
  <2>2. IssuedIsDecided'
    BY <1>2, <1>3, <1>4 DEF IssuedIsDecided
  <2>3. EvictedIsInactive'
    BY DEF EvictedIsInactive
  <2>4. LiveIsNotEvicted' /\ QuarantineRevokes'
    BY <1>3, <1>4, <2>1 DEF LiveIsNotEvicted, QuarantineRevokes, Live
  <2>5. PermitSettlesAction'
    BY <1>4 DEF PermitSettlesAction, Live
  <2>6. \A e \in Decision : action'[e] = "pending" => e # d
    BY <1>1, <1>4
  <2>7. DoomedIsQueued'
    BY <1>3, <1>4, <2>6 DEF DoomedIsQueued
  <2>8. QED BY <2>2, <2>3, <2>4, <2>5, <2>7
<1>5. CASE IssuePermit(d) /\ row.support \subseteq Active
  <2>1. \A e \in Decision : e # d => permit'[e] = permit[e] /\ action'[e] = action[e]
    BY <1>5 DEF IssuePermit, TypeOK
  <2>2. /\ permit'[d].issued
        /\ permit'[d].consumed = permit[d].consumed
        /\ permit'[d].revoked = permit[d].revoked
        /\ action'[d] = "pending"
    BY <1>5 DEF IssuePermit, TypeOK
  <2>3. IssuedIsDecided'
    BY <1>2, <1>3, <2>1, <2>2 DEF IssuedIsDecided
  <2>4. EvictedIsInactive'
    BY DEF EvictedIsInactive
  <2>5. \A b \in row.support : status[b] = "active"
    BY <1>5 DEF Active
  <2>6. \A E \in outbox : E \cap row.support = {}
    BY <2>5 DEF EvictedIsInactive
  <2>7. LiveIsNotEvicted'
    BY <1>2, <1>3, <2>1, <2>6 DEF LiveIsNotEvicted, Live
  <2>8. QuarantineRevokes'
    BY <1>2, <1>3, <2>1, <2>5 DEF QuarantineRevokes, Live
  <2>9. PermitSettlesAction'
    BY <1>1, <2>1, <2>2 DEF PermitSettlesAction, Live
  <2>10. DoomedIsQueued'
    BY <1>2, <1>3, <2>1, <2>5 DEF DoomedIsQueued
  <2>11. QED BY <2>3, <2>4, <2>7, <2>8, <2>9, <2>10
<1>6. QED BY <1>4, <1>5

(* Settling one permit, by consuming it or by revoking it and aborting the *)
(* action, keeps the invariant: the permit is no longer live.              *)
LEMMA SettleKeepsInv ==
  ASSUME GuardInv, TypeOK', NEW d \in Decision,
         Consume(d) \/ ConsumeRefused(d)
  PROVE  GuardInv'
<1> USE DEF GuardInv
<1>1. Live(d) /\ action[d] = "pending" /\ permit[d].issued
  BY DEF Consume, ConsumeRefused, Usable, Live, PermitSettlesAction
<1>2. UNCHANGED <<status, decision, outbox>>
  BY DEF Consume, ConsumeRefused
<1>3. \A e \in Decision : e # d => permit'[e] = permit[e] /\ action'[e] = action[e]
  BY DEF Consume, ConsumeRefused, RevokeAndAbort, TypeOK
<1>4. /\ permit'[d].issued
      /\ \/ /\ permit'[d].consumed /\ ~permit'[d].revoked /\ action'[d] = "executed"
         \/ /\ ~permit'[d].consumed /\ permit'[d].revoked /\ action'[d] = "aborted"
  BY <1>1 DEF Consume, ConsumeRefused, RevokeAndAbort, TypeOK, Live
<1>5. IssuedIsDecided'
  BY <1>1, <1>2, <1>3, <1>4 DEF IssuedIsDecided
<1>6. EvictedIsInactive'
  BY <1>2 DEF EvictedIsInactive
<1>7. LiveIsNotEvicted' /\ QuarantineRevokes'
  BY <1>2, <1>3, <1>4 DEF LiveIsNotEvicted, QuarantineRevokes, Live
<1>8. PermitSettlesAction'
  BY <1>3, <1>4 DEF PermitSettlesAction, Live
<1>9. DoomedIsQueued'
  BY <1>2, <1>3, <1>4 DEF DoomedIsQueued
<1>10. QED BY <1>5, <1>6, <1>7, <1>8, <1>9

(* A recant withdraws every live permit its closure touches and queues the *)
(* eviction of every belief it flips, so the three relations between       *)
(* permits, actions and the outbox survive it.                             *)
LEMMA RecantKeepsInv ==
  ASSUME GuardInv, TypeOK', NEW C \in SUBSET Belief, Recant(C)
  PROVE  GuardInv'
<1> USE DEF GuardInv
<1> DEFINE flipped == {b \in C : status[b] \in {"active", "suspect"}}
<1>1. /\ status' = [b \in Belief |-> IF b \in flipped THEN "quarantined" ELSE status[b]]
      /\ outbox' = outbox \cup {flipped}
      /\ UNCHANGED <<decision, action>>
  BY DEF Recant
<1>2. \A d \in Decision :
        permit'[d] = IF Withdraws(d, C)
                     THEN [permit[d] EXCEPT !.revoked = TRUE] ELSE permit[d]
  BY DEF Recant
<1>3. \A d \in Decision :
        /\ permit'[d].issued = permit[d].issued
        /\ permit'[d].consumed = permit[d].consumed
        /\ permit[d].revoked => permit'[d].revoked
        /\ permit'[d].revoked => permit[d].revoked \/ Withdraws(d, C)
        /\ Withdraws(d, C) => permit'[d].revoked
  BY <1>2 DEF TypeOK
<1>4. \A d \in Decision : Live(d)' =>
        Live(d) /\ decision[d].support \cap C = {}
  BY <1>3 DEF Live, Withdraws
<1>5. IssuedIsDecided'
  BY <1>1, <1>3 DEF IssuedIsDecided
<1>6. EvictedIsInactive'
  BY <1>1 DEF EvictedIsInactive, TypeOK
<1>7. LiveIsNotEvicted'
  BY <1>1, <1>4 DEF LiveIsNotEvicted
<1>8. QuarantineRevokes'
  <2> SUFFICES ASSUME NEW d \in Decision, Live(d)', NEW b \in decision[d].support
               PROVE  status'[b] # "quarantined"
    BY <1>1 DEF QuarantineRevokes
  <2>1. b \in Belief
    BY <1>4, RowTyped DEF IssuedIsDecided, Live
  <2>2. b \notin C /\ status[b] # "quarantined"
    BY <1>4 DEF QuarantineRevokes
  <2>3. QED BY <1>1, <2>1, <2>2
<1>9. PermitSettlesAction'
  <2> SUFFICES ASSUME NEW d \in Decision
               PROVE  /\ permit'[d].consumed <=> action'[d] = "executed"
                      /\ permit'[d].revoked => ~permit'[d].consumed
                      /\ Live(d)' => action'[d] = "pending"
    BY DEF PermitSettlesAction
  <2>1. permit'[d].consumed <=> action'[d] = "executed"
    BY <1>1, <1>3 DEF PermitSettlesAction
  <2>2. permit'[d].revoked => ~permit'[d].consumed
    BY <1>3 DEF PermitSettlesAction, Withdraws
  <2>3. Live(d)' => action'[d] = "pending"
    BY <1>1, <1>4 DEF PermitSettlesAction
  <2>4. QED BY <2>1, <2>2, <2>3
<1>10. DoomedIsQueued'
  <2> SUFFICES ASSUME NEW d \in Decision, action[d] = "pending",
                      NEW b \in decision[d].support, status'[b] = "quarantined"
               PROVE  \E E \in outbox' : E \cap decision[d].support # {}
    BY <1>1 DEF DoomedIsQueued
  <2>1. b \in Belief
    BY RowTyped DEF IssuedIsDecided
  <2>2. CASE status[b] = "quarantined"
    BY <1>1, <2>2 DEF DoomedIsQueued
  <2>3. CASE status[b] # "quarantined"
    <3>1. b \in flipped
      BY <1>1, <2>1, <2>3
    <3>2. flipped \in outbox' /\ b \in flipped \cap decision[d].support
      BY <1>1, <3>1
    <3>3. QED BY <3>2
  <2>4. QED BY <2>2, <2>3
<1>11. QED BY <1>5, <1>6, <1>7, <1>8, <1>9, <1>10

(* Delivering an event aborts every pending action it names, so the event  *)
(* may leave the outbox; no live permit is named by it.                    *)
LEMMA DeliverKeepsInv ==
  ASSUME GuardInv, TypeOK', NEW E \in outbox, Deliver(E)
  PROVE  GuardInv'
<1> USE DEF GuardInv
<1>1. /\ outbox' = outbox \ {E}
      /\ UNCHANGED <<status, decision, permit>>
      /\ \A d \in Decision :
           action'[d] = IF Aborts(d, E) THEN "aborted" ELSE action[d]
  BY DEF Deliver
<1>2. \A d \in Decision : Live(d)' => Live(d) /\ ~Aborts(d, E)
  BY <1>1 DEF Live, Aborts, LiveIsNotEvicted
<1>3. IssuedIsDecided'
  BY <1>1 DEF IssuedIsDecided, Aborts
<1>4. EvictedIsInactive' /\ LiveIsNotEvicted' /\ QuarantineRevokes'
  BY <1>1, <1>2 DEF EvictedIsInactive, LiveIsNotEvicted, QuarantineRevokes
<1>5. PermitSettlesAction'
  <2> SUFFICES ASSUME NEW d \in Decision
               PROVE  /\ permit'[d].consumed <=> action'[d] = "executed"
                      /\ permit'[d].revoked => ~permit'[d].consumed
                      /\ Live(d)' => action'[d] = "pending"
    BY DEF PermitSettlesAction
  <2>1. permit'[d].consumed <=> action'[d] = "executed"
    BY <1>1 DEF PermitSettlesAction, Aborts
  <2>2. permit'[d].revoked => ~permit'[d].consumed
    BY <1>1 DEF PermitSettlesAction
  <2>3. Live(d)' => action'[d] = "pending"
    BY <1>1, <1>2 DEF PermitSettlesAction
  <2>4. QED BY <2>1, <2>2, <2>3
<1>6. DoomedIsQueued'
  <2> SUFFICES ASSUME NEW d \in Decision, action'[d] = "pending",
                      NEW b \in decision[d].support, status[b] = "quarantined"
               PROVE  \E F \in outbox' : F \cap decision[d].support # {}
    BY <1>1 DEF DoomedIsQueued
  <2>1. action[d] = "pending" /\ E \cap decision[d].support = {}
    BY <1>1 DEF Aborts
  <2>2. PICK F \in outbox : F \cap decision[d].support # {}
    BY <2>1 DEF DoomedIsQueued
  <2>3. F # E
    BY <2>1, <2>2
  <2>4. QED BY <1>1, <2>2, <2>3
<1>7. QED BY <1>3, <1>4, <1>5, <1>6

(* Deleting a row can only shrink what the invariant speaks about.         *)
LEMMA DeleteKeepsInv ==
  ASSUME GuardInv, TypeOK', NEW b \in Belief, DeleteByTTL(b)
  PROVE  GuardInv'
<1> USE DEF GuardInv
<1>1. UNCHANGED <<decision, permit, action, outbox>>
  BY DEF DeleteByTTL
<1>2. \A x : status'[x] = "quarantined" => status[x] = "quarantined"
  BY DEF DeleteByTTL, TypeOK
<1>3. \A x \in Belief : status'[x] = status[x] \/ status'[x] = "gone"
  BY DEF DeleteByTTL, TypeOK
<1>4. IssuedIsDecided' /\ LiveIsNotEvicted' /\ PermitSettlesAction'
  BY <1>1 DEF IssuedIsDecided, LiveIsNotEvicted, PermitSettlesAction, Live
<1>5. EvictedIsInactive'
  BY <1>1, <1>3 DEF EvictedIsInactive, TypeOK
<1>6. QuarantineRevokes' /\ DoomedIsQueued'
  BY <1>1, <1>2 DEF QuarantineRevokes, DoomedIsQueued, Live
<1>7. QED BY <1>4, <1>5, <1>6

(* The invariant is inductive: one step per handler. *)
LEMMA GuardInvStep == GuardInv /\ [Next]_vars => GuardInv'
<1> SUFFICES ASSUME GuardInv, [Next]_vars PROVE GuardInv'
  OBVIOUS
<1>0. TypeOK /\ TypeOK'
  BY TypeStep DEF GuardInv
<1>1. ASSUME NEW r \in Receipt, NEW p \in Caller(Writer), NEW B \in SUBSET Belief,
             CreateReceipt(r, p, B)
      PROVE  GuardInv'
  BY <1>0, <1>1 DEF CreateReceipt, GuardInv, IssuedIsDecided, EvictedIsInactive,
     LiveIsNotEvicted, QuarantineRevokes, PermitSettlesAction, DoomedIsQueued, Live
<1>2. ASSUME NEW d \in Decision, NEW p \in Caller(Writer), NEW S \in SUBSET Belief,
             NEW r \in Receipt \cup {NoReceipt}, Authorize(d, p, S, r)
      PROVE  GuardInv'
  <2> DEFINE row == [verdict |-> Judge(S, r, policy), by |-> p, support |-> S,
                     receipt |-> r, risk |-> policy.risk,
                     required |-> policy.required, observed |-> Observed(S),
                     supersedes |-> NoDecision]
  <2>1. decision' = [decision EXCEPT ![d] = row] /\ decision[d] = Absent
    BY <1>2 DEF Authorize
  <2>2. decision'[d] = row /\ row # Absent
    BY <1>0, <2>1, JudgeVerdict DEF TypeOK, Absent, Verdict
  <2>3. row \in Row
    BY <1>0, <2>2, RowTyped DEF TypeOK
  <2>4. \/ UNCHANGED <<permit, action>>
        \/ IssuePermit(d) /\ row.support \subseteq Active
    BY <1>2, JudgeVerdict DEF Authorize
  <2>5. UNCHANGED <<status, outbox>>
    BY <1>2 DEF Authorize
  <2> HIDE DEF row
  <2>6. QED BY <1>0, <2>1, <2>3, <2>4, <2>5, DecideKeepsInv
<1>3. ASSUME NEW c \in Decision, NEW d \in Decision, NEW p \in Caller(Operator),
             Confirm(c, d, p)
      PROVE  GuardInv'
  <2> DEFINE row == [decision[c] EXCEPT
                       !.verdict = "allow", !.by = p, !.supersedes = c,
                       !.observed = IF @ >= UserConfirmed THEN @ ELSE UserConfirmed]
  <2>1. decision' = [decision EXCEPT ![d] = row] /\ decision[d] = Absent
    BY <1>3 DEF Confirm
  <2>2. decision[c] \in Row
    BY <1>0, <1>3, RowTyped DEF Confirm, MayConfirm, Absent
  <2>3. p \in Writer \cup Operator \cup {Nobody}
    BY DEF Caller
  <2>4. row \in Row
    BY <2>2, <2>3 DEF Row, Verdict, UserConfirmed
  <2>5. row.support = decision[c].support
    BY <2>2 DEF Row
  <2>6. IssuePermit(d) /\ row.support \subseteq Active
    BY <1>3, <2>5 DEF Confirm
  <2>7. UNCHANGED <<status, outbox>>
    BY <1>3 DEF Confirm
  <2> HIDE DEF row
  <2>8. QED BY <1>0, <2>1, <2>4, <2>6, <2>7, DecideKeepsInv
<1>4. ASSUME NEW d \in Decision, Consume(d) \/ ConsumeRefused(d) PROVE GuardInv'
  BY <1>0, <1>4, SettleKeepsInv
<1>5. ASSUME NEW C \in SUBSET {b \in Belief : status[b] # "gone"}, Recant(C)
      PROVE  GuardInv'
  BY <1>0, <1>5, RecantKeepsInv
<1>6. ASSUME NEW E \in outbox, Deliver(E) PROVE GuardInv'
  BY <1>0, <1>6, DeliverKeepsInv
<1>7. ASSUME NEW b \in Belief, DeleteByTTL(b) PROVE GuardInv'
  BY <1>0, <1>7, DeleteKeepsInv
<1>8. ASSUME NEW x \in Receipt \cup Decision, Expire(x) PROVE GuardInv'
  BY <1>0, <1>8 DEF Expire, GuardInv, IssuedIsDecided, EvictedIsInactive,
     LiveIsNotEvicted, QuarantineRevokes, PermitSettlesAction, DoomedIsQueued, Live
<1>9. ASSUME NEW pol \in Policies, PutPolicy(pol) PROVE GuardInv'
  BY <1>0, <1>9 DEF PutPolicy, GuardInv, IssuedIsDecided, EvictedIsInactive,
     LiveIsNotEvicted, QuarantineRevokes, PermitSettlesAction, DoomedIsQueued, Live
<1>10. CASE UNCHANGED vars
  BY <1>0, <1>10 DEF vars, GuardInv, IssuedIsDecided, EvictedIsInactive,
     LiveIsNotEvicted, QuarantineRevokes, PermitSettlesAction, DoomedIsQueued, Live
<1>11. QED
  BY <1>1, <1>2, <1>3, <1>4, <1>5, <1>6, <1>7, <1>8, <1>9, <1>10 DEF Next

(* The invariant holds of every behaviour of the guard. *)
LEMMA GuardInvHolds == Spec => []GuardInv
<1>1. Init => GuardInv
  <2> SUFFICES ASSUME Init PROVE GuardInv
    OBVIOUS
  <2>1. TypeOK
    BY DEF Init, TypeOK, Unissued
  <2>2. QED
    BY <2>1 DEF Init, GuardInv, IssuedIsDecided, EvictedIsInactive,
       LiveIsNotEvicted, QuarantineRevokes, PermitSettlesAction, DoomedIsQueued, Live
<1>2. QED BY <1>1, GuardInvStep, PTL DEF Spec

(* A recant is effective on execution at the instant it commits: no permit *)
(* that can still be spent rests on a quarantined belief.                  *)
THEOREM RecantRevokesSynchronously == Spec => []QuarantineRevokes
<1>1. GuardInv => QuarantineRevokes
  BY DEF GuardInv
<1>2. QED BY <1>1, GuardInvHolds, PTL

(* Permit and action row never disagree, however late the worker delivers. *)
THEOREM PermitAndActionAgree == Spec => []PermitSettlesAction
<1>1. GuardInv => PermitSettlesAction
  BY DEF GuardInv
<1>2. QED BY <1>1, GuardInvHolds, PTL

(* No abort is ever lost: a doomed pending action is named in the outbox.  *)
THEOREM NoAbortIsLost == Spec => []DoomedIsQueued
<1>1. GuardInv => DoomedIsQueued
  BY DEF GuardInv
<1>2. QED BY <1>1, GuardInvHolds, PTL

-----------------------------------------------------------------------------
(* One step of an action's life. *)
Settles ==
  \A d \in Decision : action'[d] # action[d] =>
    /\ action[d] \in {"none", "pending"}
    /\ action'[d] = "executed" =>
         \A b \in decision[d].support : status[b] = "active"

LEMMA SettlesStep == GuardInv /\ [Next]_vars => [Settles]_vars
<1> SUFFICES ASSUME GuardInv, Next PROVE Settles
  OBVIOUS
<1> USE DEF GuardInv, Settles
<1>1. ASSUME NEW r \in Receipt, NEW p \in Caller(Writer), NEW B \in SUBSET Belief,
             CreateReceipt(r, p, B)
      PROVE  Settles
  BY <1>1 DEF CreateReceipt
<1>2. ASSUME NEW d \in Decision, NEW p \in Caller(Writer), NEW S \in SUBSET Belief,
             NEW r \in Receipt \cup {NoReceipt}, Authorize(d, p, S, r)
      PROVE  Settles
  <2>1. action[d] = "none"
    BY <1>2 DEF Authorize, IssuedIsDecided
  <2>2. \A e \in Decision : action'[e] # action[e] => e = d /\ action'[e] = "pending"
    BY <1>2 DEF Authorize, IssuePermit, TypeOK
  <2>3. QED BY <2>1, <2>2
<1>3. ASSUME NEW c \in Decision, NEW d \in Decision, NEW p \in Caller(Operator),
             Confirm(c, d, p)
      PROVE  Settles
  <2>1. action[d] = "none"
    BY <1>3 DEF Confirm, IssuedIsDecided
  <2>2. \A e \in Decision : action'[e] # action[e] => e = d /\ action'[e] = "pending"
    BY <1>3 DEF Confirm, IssuePermit, TypeOK
  <2>3. QED BY <2>1, <2>2
<1>4. ASSUME NEW d \in Decision, Consume(d) \/ ConsumeRefused(d)
      PROVE  Settles
  <2>1. action[d] = "pending"
    BY <1>4 DEF Consume, ConsumeRefused, Usable, Live, PermitSettlesAction
  <2>2. \A e \in Decision : action'[e] # action[e] => e = d
    BY <1>4 DEF Consume, ConsumeRefused, RevokeAndAbort, TypeOK
  <2>3. action'[d] = "executed" => \A b \in decision[d].support : status[b] = "active"
    BY <1>4, <2>1 DEF Consume, ConsumeRefused, RevokeAndAbort, EvidenceHolds, Active,
       TypeOK
  <2>4. QED BY <2>1, <2>2, <2>3
<1>5. ASSUME NEW C \in SUBSET {b \in Belief : status[b] # "gone"}, Recant(C)
      PROVE  Settles
  BY <1>5 DEF Recant
<1>6. ASSUME NEW E \in outbox, Deliver(E) PROVE Settles
  BY <1>6 DEF Deliver, Aborts
<1>7. ASSUME NEW b \in Belief, DeleteByTTL(b) PROVE Settles
  BY <1>7 DEF DeleteByTTL
<1>8. ASSUME NEW x \in Receipt \cup Decision, Expire(x) PROVE Settles
  BY <1>8 DEF Expire
<1>9. ASSUME NEW pol \in Policies, PutPolicy(pol) PROVE Settles
  BY <1>9 DEF PutPolicy
<1>10. QED
  BY <1>1, <1>2, <1>3, <1>4, <1>5, <1>6, <1>7, <1>8, <1>9 DEF Next

(* An action starts only on active evidence and is settled once. *)
THEOREM ExecutionOnActiveEvidence == Spec => ExecutesOnActiveEvidence
  BY SettlesStep, GuardInvHolds, PTL DEF Spec, Settles, ExecutesOnActiveEvidence

-----------------------------------------------------------------------------
(* An action that has not run, with evidence that is no longer active. *)
Barred(d) ==
  /\ decision[d] # Absent
  /\ action[d] # "executed"
  /\ \E b \in decision[d].support : status[b] # "active"

(* No decision is ever rewritten, and no belief becomes active again. *)
LEMMA RecordsAreFinal ==
  ASSUME TypeOK, Next
  PROVE  /\ \A d \in Decision : decision[d] # Absent => decision'[d] = decision[d]
         /\ \A b \in Belief : status[b] # "active" => status'[b] # "active"
<1>1. ASSUME UNCHANGED <<decision, status>>
      PROVE  /\ \A d \in Decision : decision[d] # Absent => decision'[d] = decision[d]
             /\ \A b \in Belief : status[b] # "active" => status'[b] # "active"
  BY <1>1
<1>2. ASSUME NEW r \in Receipt, NEW p \in Caller(Writer), NEW B \in SUBSET Belief,
             CreateReceipt(r, p, B)
      PROVE  UNCHANGED <<decision, status>>
  BY <1>2 DEF CreateReceipt
<1>3. ASSUME NEW d \in Decision, NEW row, decision[d] = Absent,
             decision' = [decision EXCEPT ![d] = row], UNCHANGED status
      PROVE  /\ \A e \in Decision : decision[e] # Absent => decision'[e] = decision[e]
             /\ \A b \in Belief : status[b] # "active" => status'[b] # "active"
  BY <1>3 DEF TypeOK
<1>4. ASSUME NEW d \in Decision, NEW p \in Caller(Writer), NEW S \in SUBSET Belief,
             NEW r \in Receipt \cup {NoReceipt}, Authorize(d, p, S, r)
      PROVE  /\ \A e \in Decision : decision[e] # Absent => decision'[e] = decision[e]
             /\ \A b \in Belief : status[b] # "active" => status'[b] # "active"
  BY <1>3, <1>4 DEF Authorize
<1>5. ASSUME NEW c \in Decision, NEW d \in Decision, NEW p \in Caller(Operator),
             Confirm(c, d, p)
      PROVE  /\ \A e \in Decision : decision[e] # Absent => decision'[e] = decision[e]
             /\ \A b \in Belief : status[b] # "active" => status'[b] # "active"
  BY <1>3, <1>5 DEF Confirm
<1>6. ASSUME NEW d \in Decision, Consume(d) \/ ConsumeRefused(d)
      PROVE  UNCHANGED <<decision, status>>
  BY <1>6 DEF Consume, ConsumeRefused
<1>7. ASSUME NEW C \in SUBSET {b \in Belief : status[b] # "gone"}, Recant(C)
      PROVE  /\ \A d \in Decision : decision[d] # Absent => decision'[d] = decision[d]
             /\ \A b \in Belief : status[b] # "active" => status'[b] # "active"
  BY <1>7 DEF Recant, TypeOK
<1>8. ASSUME NEW b \in Belief, DeleteByTTL(b)
      PROVE  /\ \A d \in Decision : decision[d] # Absent => decision'[d] = decision[d]
             /\ \A x \in Belief : status[x] # "active" => status'[x] # "active"
  BY <1>8 DEF DeleteByTTL, TypeOK
<1>9. ASSUME \/ \E E \in outbox : Deliver(E)
             \/ \E x \in Receipt \cup Decision : Expire(x)
             \/ \E pol \in Policies : PutPolicy(pol)
      PROVE  UNCHANGED <<decision, status>>
  BY <1>9 DEF Deliver, Expire, PutPolicy
<1>10. QED BY <1>1, <1>2, <1>4, <1>5, <1>6, <1>7, <1>8, <1>9 DEF Next

LEMMA BarredStep ==
  ASSUME NEW d \in Decision
  PROVE  GuardInv /\ Barred(d) /\ [Next]_vars => Barred(d)'
<1> SUFFICES ASSUME GuardInv, Barred(d), [Next]_vars PROVE Barred(d)'
  OBVIOUS
<1>1. CASE UNCHANGED vars
  BY <1>1 DEF vars, Barred
<1>2. CASE Next
  <2>1. TypeOK /\ decision'[d] = decision[d] /\ decision[d].support \subseteq Belief
    BY <1>2, RecordsAreFinal, RowTyped DEF GuardInv, Barred
  <2>2. \E b \in decision[d].support : status'[b] # "active"
    BY <1>2, <2>1, RecordsAreFinal DEF Barred
  <2>3. action'[d] # "executed"
    <3>1. Settles \/ UNCHANGED vars
      BY SettlesStep
    <3>2. QED BY <3>1 DEF Settles, Barred, vars
  <2>4. QED BY <2>1, <2>2, <2>3 DEF Barred
<1>3. QED BY <1>1, <1>2

(* An action whose evidence is withdrawn before it runs never runs: not    *)
(* when the abort is late or the evidence has expired, not on a permit     *)
(* still unspent, and not after any number of later recants, confirmations *)
(* and policy changes (guard/app.py:951-975, quarantine/app.py:239-251).   *)
THEOREM WithdrawnEvidenceBarsForGood ==
  ASSUME NEW d \in Decision
  PROVE  Spec => [](Barred(d) => [](action[d] # "executed"))
<1>1. Barred(d) => action[d] # "executed"
  BY DEF Barred
<1>2. QED BY <1>1, BarredStep, GuardInvHolds, PTL DEF Spec

-----------------------------------------------------------------------------
(* What makes an allow stay earned: a decision that supersedes another one *)
(* consumed its only confirmation, and a receipt once cited is never       *)
(* issued again to someone else.                                           *)
SupersedesOnce ==
  \A d \in Decision : decision[d] # Absent =>
    decision[d].supersedes \in confirmed \cup {NoDecision}

ReceiptsHeld ==
  /\ \A d \in Decision :
       decision[d] # Absent /\ decision[d].receipt # NoReceipt
         => Issued(decision[d].receipt)
  /\ AuthRequired => \A r \in Receipt : Issued(r) => receipt[r].to # Nobody

(* A decision that may still be confirmed has the receipt it needs. *)
ConfirmsAreBacked ==
  \A d \in Decision :
    decision[d].verdict = "confirm" => BehindReceipt(decision[d], decision[d].by)

EarnedInv ==
  TypeOK /\ SupersedesOnce /\ ReceiptsHeld /\ ConfirmsAreBacked /\ AllowIsEarned

(* Authorizing records a decision that is no allow, or one its evidence    *)
(* earns by its authority.                                                 *)
LEMMA AuthorizeKeepsEarned ==
  ASSUME EarnedInv, TypeOK',
         NEW d \in Decision, NEW p \in Caller(Writer), NEW S \in SUBSET Belief,
         NEW r \in Receipt \cup {NoReceipt}, Authorize(d, p, S, r)
  PROVE  EarnedInv'
<1> DEFINE row == [verdict |-> Judge(S, r, policy), by |-> p, support |-> S,
                   receipt |-> r, risk |-> policy.risk,
                   required |-> policy.required, observed |-> Observed(S),
                   supersedes |-> NoDecision]
<1> USE DEF EarnedInv
<1>1. decision[d] = Absent /\ decision'[d] = row
  BY DEF Authorize, TypeOK
<1>2. \A e \in Decision : e # d => decision'[e] = decision[e]
  BY DEF Authorize, TypeOK
<1>3. UNCHANGED <<receipt, confirmed>>
  BY DEF Authorize
<1>4. r # NoReceipt => Issued(r) /\ receipt[r].to \in {Nobody, p}
  BY DEF Authorize, Loads
<1>5. SupersedesOnce'
  BY <1>1, <1>2, <1>3 DEF SupersedesOnce
<1>6. ReceiptsHeld'
  BY <1>1, <1>2, <1>3, <1>4 DEF ReceiptsHeld, Issued
<1>7. \A b \in S : Observed(S) <= Authority[b]
  BY ObservedIsLeast
<1>8. row.verdict # "deny" => BehindReceipt(row, p)
  <2> SUFFICES ASSUME row.verdict # "deny", AuthRequired, policy.risk # "read"
               PROVE  r # NoReceipt /\ receipt[r].to = p
    BY DEF BehindReceipt
  <2>1. r # NoReceipt
    BY DEF Judge, Refused
  <2>2. QED BY <1>4, <2>1 DEF ReceiptsHeld
<1>9. decision'[d].verdict = "allow" => EarnedByAuthority(d)'
  <2> SUFFICES ASSUME decision'[d].verdict = "allow"
               PROVE  EarnedByAuthority(d)'
    OBVIOUS
  <2>1. ~Refused(S, r, policy) /\ Sufficient(S, policy)
    BY <1>1, JudgeVerdict
  <2>2. \A b \in S : Authority[b] >= policy.required
    <3>1. policy.required \in Nat /\ Observed(S) \in Nat
      BY GuardConstants, ObservedIsLeast DEF TypeOK, Policy
    <3>2. QED BY <1>7, <2>1, <3>1, GuardConstants DEF Sufficient
  <2>3. row.verdict = "allow"
    BY <1>1
  <2>4. QED BY <1>1, <1>3, <1>8, <2>1, <2>2, <2>3 DEF EarnedByAuthority, Sufficient, BehindReceipt
<1>10. ASSUME NEW e \in Decision, e # d, decision[e].verdict = "allow"
      PROVE  (EarnedByAuthority(e) \/ EarnedByConfirmation(e))'
  <2>1. CASE EarnedByAuthority(e)
    BY <1>2, <1>3, <1>10, <2>1 DEF EarnedByAuthority, BehindReceipt
  <2>2. CASE EarnedByConfirmation(e)
    <3> DEFINE c == decision[e].supersedes
    <3>1. c \in Decision /\ c # d /\ c # NoDecision
      BY <1>1, <2>2, GuardConstants DEF EarnedByConfirmation, TypeOK, Absent
    <3>2. QED BY <1>1, <1>2, <1>3, <1>10, <2>2, <3>1 DEF EarnedByConfirmation,
                     BehindReceipt
  <2>3. QED BY <1>10, <2>1, <2>2 DEF AllowIsEarned
<1>11. AllowIsEarned'
  BY <1>2, <1>9, <1>10 DEF AllowIsEarned
<1>12. ConfirmsAreBacked'
  <2> HIDE DEF row
  <2>1. row.by = p /\ row.risk = policy.risk /\ row.receipt = r
    BY DEF row
  <2>2. \A e \in Decision : e # d /\ decision'[e].verdict = "confirm"
          => (BehindReceipt(decision[e], decision[e].by))'
    BY <1>2, <1>3 DEF ConfirmsAreBacked, BehindReceipt
  <2>3. decision'[d].verdict = "confirm" => (BehindReceipt(decision[d], decision[d].by))'
    BY <1>1, <1>3, <1>8, <2>1 DEF BehindReceipt
  <2>4. QED BY <2>2, <2>3 DEF ConfirmsAreBacked
<1>13. QED BY <1>5, <1>6, <1>11, <1>12

(* Confirming adds the one allow that supersedes the confirmed decision.   *)
LEMMA ConfirmKeepsEarned ==
  ASSUME EarnedInv, TypeOK',
         NEW c \in Decision, NEW d \in Decision, NEW p \in Caller(Operator),
         Confirm(c, d, p)
  PROVE  EarnedInv'
<1> DEFINE row == [decision[c] EXCEPT
                     !.verdict = "allow", !.by = p, !.supersedes = c,
                     !.observed = IF @ >= UserConfirmed THEN @ ELSE UserConfirmed]
<1> USE DEF EarnedInv
<1>1. /\ decision[c] # Absent /\ decision[c] \in Row
      /\ decision[c].verdict = "confirm"
  BY RowTyped DEF Confirm, MayConfirm, Absent
<1>2. decision[d] = Absent /\ decision'[d] = row /\ c # d
  BY <1>1 DEF Confirm, TypeOK
<1>3. \A e \in Decision : e # d => decision'[e] = decision[e]
  BY DEF Confirm, TypeOK
<1>4. receipt' = receipt /\ confirmed' = confirmed \cup {c} /\ c \notin confirmed
  BY DEF Confirm
<1>5. /\ row.verdict = "allow" /\ row.by = p /\ row.supersedes = c
      /\ row.support = decision[c].support /\ row.receipt = decision[c].receipt
      /\ row.risk = decision[c].risk
      /\ row.observed >= UserConfirmed
  BY <1>1 DEF Row, UserConfirmed
<1>6. SupersedesOnce'
  BY <1>2, <1>3, <1>4, <1>5 DEF SupersedesOnce
<1>7. ReceiptsHeld'
  <2> HIDE DEF row
  <2>1. ASSUME NEW e \in Decision,
               decision'[e] # Absent, decision'[e].receipt # NoReceipt
        PROVE  Issued(decision'[e].receipt)
    <3>1. CASE e = d
      BY <1>1, <1>2, <1>5, <2>1, <3>1 DEF ReceiptsHeld
    <3>2. CASE e # d
      BY <1>3, <2>1, <3>2 DEF ReceiptsHeld
    <3>3. QED BY <3>1, <3>2
  <2>2. QED BY <1>4, <2>1 DEF ReceiptsHeld, Issued
<1>8. \A e \in Decision : decision[e] # Absent => decision[e].supersedes # c
  BY <1>4, GuardConstants DEF SupersedesOnce
<1>9. EarnedByConfirmation(d)'
  <2>1. AuthRequired => decision[c].by # p
    BY DEF Confirm, MayConfirm
  <2>2. decision'[c] = decision[c]
    BY <1>2, <1>3
  <2> HIDE DEF row
  <2>3. \A e \in Decision :
          decision'[e] # Absent /\ decision'[e].supersedes = c => e = d
    BY <1>3, <1>8
  <2>4. BehindReceipt(decision[d], decision[c].by)'
    BY <1>1, <1>2, <1>4, <1>5, <2>2 DEF ConfirmsAreBacked, BehindReceipt
  <2>5. QED BY <1>1, <1>2, <1>4, <1>5, <2>1, <2>2, <2>3, <2>4 DEF EarnedByConfirmation
<1>10. ASSUME NEW e \in Decision, e # d, decision[e].verdict = "allow"
       PROVE  (EarnedByAuthority(e) \/ EarnedByConfirmation(e))'
  <2>1. CASE EarnedByAuthority(e)
    BY <1>3, <1>4, <1>10, <2>1 DEF EarnedByAuthority, BehindReceipt
  <2>2. CASE EarnedByConfirmation(e)
    <3> DEFINE k == decision[e].supersedes
    <3>1. k \in Decision /\ k # d /\ k \in confirmed
      BY <1>2, <2>2 DEF EarnedByConfirmation, TypeOK, Absent
    <3>2. k # c
      BY <1>4, <3>1
    <3> HIDE DEF row
    <3>3. QED BY <1>2, <1>3, <1>4, <1>5, <1>10, <2>2, <3>1, <3>2
              DEF EarnedByConfirmation, BehindReceipt
  <2>3. QED BY <1>10, <2>1, <2>2 DEF AllowIsEarned
<1>11. AllowIsEarned'
  BY <1>3, <1>9, <1>10 DEF AllowIsEarned
<1>12. ConfirmsAreBacked'
  <2> HIDE DEF row
  <2>1. QED BY <1>2, <1>3, <1>4, <1>5 DEF ConfirmsAreBacked, BehindReceipt
<1>13. QED BY <1>6, <1>7, <1>11, <1>12

(* A receipt is issued once, to a principal, and earns nothing yet.        *)
LEMMA ReceiptKeepsEarned ==
  ASSUME EarnedInv,
         NEW r \in Receipt, NEW p \in Caller(Writer), NEW B \in SUBSET Belief,
         CreateReceipt(r, p, B)
  PROVE  SupersedesOnce' /\ ReceiptsHeld' /\ ConfirmsAreBacked' /\ AllowIsEarned'
<1> USE DEF EarnedInv
<1>1. UNCHANGED <<decision, confirmed>> /\ ~Issued(r) /\ B # {}
  BY DEF CreateReceipt
<1>2. receipt' = [receipt EXCEPT ![r] = [to |-> p, beliefs |-> B]]
  BY DEF CreateReceipt
<1>3. \A q \in Receipt : q # r => receipt'[q] = receipt[q]
  BY <1>2 DEF TypeOK
<1>4. receipt'[r].to = p /\ receipt'[r].beliefs = B
  BY <1>2 DEF TypeOK
<1>5. SupersedesOnce'
  BY <1>1 DEF SupersedesOnce
<1>6. \A e \in Decision :
        decision[e] # Absent => decision[e].receipt \in Receipt \cup {NoReceipt}
  BY RowTyped DEF Row
<1>7. ReceiptsHeld'
  <2>1. AuthRequired => p # Nobody
    BY GuardConstants DEF Caller
  <2>2. AuthRequired => \A q \in Receipt : Issued(q)' => receipt'[q].to # Nobody
    BY <1>3, <1>4, <2>1 DEF ReceiptsHeld, Issued
  <2>3. ASSUME NEW e \in Decision, decision[e] # Absent,
               decision[e].receipt # NoReceipt
        PROVE  receipt'[decision[e].receipt].beliefs # {}
    BY <1>1, <1>3, <1>4, <1>6, <2>3 DEF ReceiptsHeld, Issued
  <2>4. QED BY <1>1, <2>2, <2>3 DEF ReceiptsHeld, Issued
<1>8. ASSUME NEW e \in Decision, decision[e] # Absent, decision[e].receipt # NoReceipt
      PROVE  receipt'[decision[e].receipt] = receipt[decision[e].receipt]
  <2>1. decision[e].receipt \in Receipt /\ decision[e].receipt # r
    BY <1>1, <1>6, <1>8 DEF ReceiptsHeld
  <2>2. QED BY <1>3, <2>1
<1>9. ConfirmsAreBacked'
  <2>1. \A e \in Decision : decision[e].verdict = "confirm" => decision[e] # Absent
    BY DEF Absent
  <2>2. QED BY <1>1, <1>8, <2>1 DEF ConfirmsAreBacked, BehindReceipt
<1>10. ASSUME NEW e \in Decision, decision[e].verdict = "allow"
       PROVE  (EarnedByAuthority(e) \/ EarnedByConfirmation(e))'
  <2>1. decision[e] # Absent
    BY <1>10 DEF Absent
  <2>2. CASE EarnedByAuthority(e)
    BY <1>1, <1>8, <2>1, <2>2 DEF EarnedByAuthority, BehindReceipt
  <2>3. CASE EarnedByConfirmation(e)
    BY <1>1, <1>8, <2>1, <2>3 DEF EarnedByConfirmation, BehindReceipt
  <2>4. QED BY <1>10, <2>2, <2>3 DEF AllowIsEarned
<1>11. QED BY <1>1, <1>5, <1>7, <1>9, <1>10 DEF AllowIsEarned

LEMMA EarnedInvStep == EarnedInv /\ TypeOK' /\ [Next]_vars => EarnedInv'
<1> SUFFICES ASSUME EarnedInv, TypeOK', [Next]_vars PROVE EarnedInv'
  OBVIOUS
(* Whatever leaves decisions, confirmations and receipts alone keeps it.   *)
<1>1. ASSUME UNCHANGED <<decision, confirmed, receipt>> PROVE EarnedInv'
  BY <1>1 DEF EarnedInv, SupersedesOnce, ReceiptsHeld, Issued, AllowIsEarned,
     ConfirmsAreBacked, EarnedByAuthority, EarnedByConfirmation, BehindReceipt
<1>2. CASE UNCHANGED vars
  BY <1>1, <1>2 DEF vars
<1>3. ASSUME NEW r \in Receipt, NEW p \in Caller(Writer), NEW B \in SUBSET Belief,
             CreateReceipt(r, p, B)
      PROVE  EarnedInv'
  BY <1>3, ReceiptKeepsEarned DEF EarnedInv
<1>4. ASSUME NEW d \in Decision, NEW p \in Caller(Writer), NEW S \in SUBSET Belief,
             NEW r \in Receipt \cup {NoReceipt}, Authorize(d, p, S, r)
      PROVE  EarnedInv'
  BY <1>4, AuthorizeKeepsEarned
<1>5. ASSUME NEW c \in Decision, NEW d \in Decision, NEW p \in Caller(Operator),
             Confirm(c, d, p)
      PROVE  EarnedInv'
  BY <1>5, ConfirmKeepsEarned
<1>6. ASSUME NEW d \in Decision, Consume(d) \/ ConsumeRefused(d) PROVE EarnedInv'
  BY <1>1, <1>6 DEF Consume, ConsumeRefused
<1>7. ASSUME NEW C \in SUBSET {b \in Belief : status[b] # "gone"}, Recant(C)
      PROVE  EarnedInv'
  BY <1>1, <1>7 DEF Recant
<1>8. ASSUME NEW E \in outbox, Deliver(E) PROVE EarnedInv'
  BY <1>1, <1>8 DEF Deliver
<1>9. ASSUME NEW b \in Belief, DeleteByTTL(b) PROVE EarnedInv'
  BY <1>1, <1>9 DEF DeleteByTTL
<1>10. ASSUME NEW x \in Receipt \cup Decision, Expire(x) PROVE EarnedInv'
  BY <1>1, <1>10 DEF Expire
<1>11. ASSUME NEW pol \in Policies, PutPolicy(pol) PROVE EarnedInv'
  BY <1>1, <1>11 DEF PutPolicy
<1>12. QED
  BY <1>2, <1>3, <1>4, <1>5, <1>6, <1>7, <1>8, <1>9, <1>10, <1>11 DEF Next

LEMMA EarnedInvHolds == Spec => []EarnedInv
<1>1. Init => EarnedInv
  <2> SUFFICES ASSUME Init PROVE EarnedInv
    OBVIOUS
  <2>1. TypeOK  BY DEF Init, TypeOK, Unissued
  <2>2. QED
    BY <2>1 DEF Init, EarnedInv, SupersedesOnce, ReceiptsHeld, Issued, Unissued,
       ConfirmsAreBacked, AllowIsEarned, Absent
<1>2. QED BY <1>1, EarnedInvStep, GuardTypeCorrect, PTL DEF Spec

(* Every allow the guard ever recorded was earned: by evidence at least as *)
(* strong as the policy of the time and a receipt of the requester's own,  *)
(* or by one independent confirmation (guard/app.py:561-586, 741-795).     *)
THEOREM AllowsAreEarned == Spec => []AllowIsEarned
<1>1. EarnedInv => AllowIsEarned
  BY DEF EarnedInv
<1>2. QED BY <1>1, EarnedInvHolds, PTL

-----------------------------------------------------------------------------
(* A permit is issued with an allow and with nothing else. *)
PermitsAreAllows ==
  \A d \in Decision : permit[d].issued <=> decision[d].verdict = "allow"

LEMMA DecideKeepsPermits ==
  ASSUME TypeOK, IssuedIsDecided, PermitsAreAllows, NEW d \in Decision, NEW row,
         decision[d] = Absent, decision' = [decision EXCEPT ![d] = row],
         IF row.verdict = "allow" THEN IssuePermit(d) ELSE UNCHANGED <<permit, action>>
  PROVE  PermitsAreAllows'
<1>1. decision'[d] = row /\ \A e \in Decision : e # d => decision'[e] = decision[e]
  BY DEF TypeOK
<1>2. ~permit[d].issued
  BY DEF IssuedIsDecided
<1>3. permit'[d].issued <=> row.verdict = "allow"
  BY <1>2 DEF IssuePermit, TypeOK
<1>4. \A e \in Decision : e # d => permit'[e] = permit[e]
  BY DEF IssuePermit, TypeOK
<1>5. QED BY <1>1, <1>3, <1>4 DEF PermitsAreAllows

LEMMA PermitsStep == GuardInv /\ PermitsAreAllows /\ [Next]_vars => PermitsAreAllows'
<1> SUFFICES ASSUME GuardInv, PermitsAreAllows, [Next]_vars PROVE PermitsAreAllows'
  OBVIOUS
<1>0. TypeOK /\ IssuedIsDecided
  BY DEF GuardInv
<1>1. ASSUME decision' = decision,
             \A d \in Decision : permit'[d].issued = permit[d].issued
      PROVE  PermitsAreAllows'
  BY <1>1 DEF PermitsAreAllows
<1>2. ASSUME NEW d \in Decision, NEW p \in Caller(Writer), NEW S \in SUBSET Belief,
             NEW r \in Receipt \cup {NoReceipt}, Authorize(d, p, S, r)
      PROVE  PermitsAreAllows'
  <2> DEFINE row == [verdict |-> Judge(S, r, policy), by |-> p, support |-> S,
                     receipt |-> r, risk |-> policy.risk,
                     required |-> policy.required, observed |-> Observed(S),
                     supersedes |-> NoDecision]
  <2>1. /\ decision[d] = Absent /\ decision' = [decision EXCEPT ![d] = row]
        /\ row.verdict = Judge(S, r, policy)
        /\ IF Judge(S, r, policy) = "allow" THEN IssuePermit(d)
           ELSE UNCHANGED <<permit, action>>
    BY <1>2 DEF Authorize
  <2> HIDE DEF row
  <2>2. QED BY <1>0, <2>1, DecideKeepsPermits
<1>3. ASSUME NEW c \in Decision, NEW d \in Decision, NEW p \in Caller(Operator),
             Confirm(c, d, p)
      PROVE  PermitsAreAllows'
  <2> DEFINE row == [decision[c] EXCEPT
                       !.verdict = "allow", !.by = p, !.supersedes = c,
                       !.observed = IF @ >= UserConfirmed THEN @ ELSE UserConfirmed]
  <2>1. decision[c] \in Row
    BY <1>0, <1>3, RowTyped DEF Confirm, MayConfirm, Absent
  <2>2. /\ decision[d] = Absent /\ decision' = [decision EXCEPT ![d] = row]
        /\ IssuePermit(d)
    BY <1>3 DEF Confirm
  <2>3. row.verdict = "allow"
    BY <2>1 DEF Row
  <2> HIDE DEF row
  <2>4. QED BY <1>0, <2>2, <2>3, DecideKeepsPermits
<1>4. ASSUME NEW d \in Decision, Consume(d) \/ ConsumeRefused(d) PROVE PermitsAreAllows'
  BY <1>0, <1>1, <1>4 DEF Consume, ConsumeRefused, RevokeAndAbort, TypeOK
<1>5. ASSUME NEW C \in SUBSET {b \in Belief : status[b] # "gone"}, Recant(C)
      PROVE  PermitsAreAllows'
  BY <1>0, <1>1, <1>5 DEF Recant, TypeOK
<1>6. ASSUME \/ \E r \in Receipt, p \in Caller(Writer), B \in SUBSET Belief :
                  CreateReceipt(r, p, B)
             \/ \E E \in outbox : Deliver(E)
             \/ \E b \in Belief : DeleteByTTL(b)
             \/ \E x \in Receipt \cup Decision : Expire(x)
             \/ \E pol \in Policies : PutPolicy(pol)
             \/ UNCHANGED vars
      PROVE  UNCHANGED <<decision, permit>>
  BY <1>6 DEF CreateReceipt, Deliver, DeleteByTTL, Expire, PutPolicy, vars
<1>7. QED BY <1>1, <1>2, <1>3, <1>4, <1>5, <1>6 DEF Next

(* Nothing runs unearned: an action that was executed had an allow, and    *)
(* that allow was earned by its evidence's authority or by an independent  *)
(* confirmation (guard/app.py:561-640, 951-975).                           *)
THEOREM NothingRunsUnearned ==
  Spec => [](\A d \in Decision : action[d] = "executed" =>
               /\ decision[d].verdict = "allow"
               /\ EarnedByAuthority(d) \/ EarnedByConfirmation(d))
<1> DEFINE Ran == \A d \in Decision : action[d] = "executed" =>
                    /\ decision[d].verdict = "allow"
                    /\ EarnedByAuthority(d) \/ EarnedByConfirmation(d)
<1>1. Init => PermitsAreAllows
  BY DEF Init, PermitsAreAllows, Absent
<1>2. GuardInv /\ AllowIsEarned /\ PermitsAreAllows => Ran
  BY DEF GuardInv, IssuedIsDecided, AllowIsEarned, PermitsAreAllows
<1>3. QED BY <1>1, <1>2, PermitsStep, GuardInvHolds, AllowsAreEarned, PTL DEF Spec
=============================================================================
