------------------------------- MODULE Guard -------------------------------
(***************************************************************************)
(* The action gate (services/guard/app.py) and what a recant does to it    *)
(* (services/quarantine/app.py) within one tenant.                         *)
(*                                                                         *)
(* An agent asks to run a tool and names the beliefs its request rests on, *)
(* directly or through a signed context receipt.  The guard answers allow, *)
(* confirm or deny; an allow carries a one-use permit and a pending row in *)
(* agent_actions.  The executor consumes the permit at the tool boundary.  *)
(* Meanwhile an operator may recant a source, the TTL job may delete an    *)
(* untrusted belief, receipts and permits may run out, and the outbox      *)
(* worker aborts pending actions some time after the recant.               *)
(*                                                                         *)
(* Every handler is one SERIALIZABLE transaction (run_tenant_txn), so it   *)
(* is one action here; a request the code rejects (an HTTPException) rolls *)
(* back and is no step.  Left out: signatures and digests, whose inputs    *)
(* are rows no handler updates, and the replay of a request under its      *)
(* idempotency key (module Idempotency).                                   *)
(***************************************************************************)
EXTENDS Integers, FiniteSets

CONSTANTS
  Belief,        \* belief ids
  Writer,        \* principals with the writer role
  Operator,      \* principals with the operator role
  Receipt,       \* context receipt ids (uuid4)
  Decision,      \* decision ids (uuid4); a decision has at most one permit
  Policies,      \* tool policies an administrator may register
  Authority,     \* beliefs.authority_rank, fixed when the belief is written
  AuthRequired,  \* auth_required(): FALSE only outside production
  Nobody,        \* principal_id IS NULL: the development principal
  NoReceipt,     \* context_receipt_id IS NULL
  NoDecision     \* supersedes_decision_id IS NULL

(* authority.py: the rank of an independent confirmation. *)
UserConfirmed == 70

RiskClass == {"read", "navigate", "effect", "purchase", "credential"}
Policy == [risk : RiskClass, required : Nat, confirmable : BOOLEAN]

ASSUME GuardConstants ==
  /\ Authority \in [Belief -> Nat]
  /\ Policies \subseteq Policy
  /\ AuthRequired \in BOOLEAN
  /\ NoReceipt \notin Receipt
  /\ NoDecision \notin Decision
  /\ Nobody \notin Writer \cup Operator

VARIABLES
  status,     \* beliefs.status; "gone" once the TTL job deleted the row
  receipt,    \* context_receipts: who it was issued to, what it covers
  decision,   \* action_decisions
  permit,     \* action_permits: the columns consumed_at, revoked_at
  action,     \* agent_actions.status of the row behind each permit
  confirmed,  \* action_confirmations: decisions confirmed
  outbox,     \* evictions of the recant events not yet delivered
  expired,    \* receipts and permits whose expires_at has passed
  policy      \* tool_policies row the next request resolves to

vars == <<status, receipt, decision, permit, action, confirmed, outbox,
          expired, policy>>

-----------------------------------------------------------------------------
(* The caller of a request: a principal, or nobody in development mode. *)
Caller(role) == IF AuthRequired THEN role ELSE {Nobody}

Active == {b \in Belief : status[b] = "active"}

(* min(row.authority_rank for row in rows, default = 0). *)
Observed(S) ==
  IF S = {} THEN 0
  ELSE CHOOSE r \in {Authority[b] : b \in S} : \A b \in S : r <= Authority[b]

Verdict == {"allow", "confirm", "deny"}

Row == [verdict : Verdict, by : Writer \cup Operator \cup {Nobody},
        support : SUBSET Belief, receipt : Receipt \cup {NoReceipt},
        risk : RiskClass, required : Nat, observed : Nat,
        supersedes : Decision \cup {NoDecision}]

(* No row yet under this id. *)
Absent == [verdict |-> "none"]
Unissued == [to |-> Nobody, beliefs |-> {}]

Decided == {d \in Decision : decision[d] # Absent}
Permitted == {d \in Decision : permit[d].issued}
Issued(r) == receipt[r].beliefs # {}

TypeOK ==
  /\ status \in [Belief -> {"active", "suspect", "quarantined", "gone"}]
  /\ receipt \in [Receipt -> [to : Writer \cup Operator \cup {Nobody},
                              beliefs : SUBSET Belief]]
  /\ decision \in [Decision -> Row \cup {Absent}]
  /\ permit \in [Decision -> [issued : BOOLEAN, consumed : BOOLEAN,
                              revoked : BOOLEAN]]
  /\ action \in [Decision -> {"none", "pending", "executed", "aborted"}]
  /\ confirmed \subseteq Decision
  /\ outbox \subseteq SUBSET Belief
  /\ expired \subseteq Receipt \cup Decision
  /\ policy \in Policies

(* Beliefs are born active or suspect (module Ledger). *)
Init ==
  /\ status \in [Belief -> {"active", "suspect"}]
  /\ receipt = [r \in Receipt |-> Unissued]
  /\ decision = [d \in Decision |-> Absent]
  /\ permit = [d \in Decision |->
                 [issued |-> FALSE, consumed |-> FALSE, revoked |-> FALSE]]
  /\ action = [d \in Decision |-> "none"]
  /\ confirmed = {}
  /\ outbox = {}
  /\ expired = {}
  /\ policy \in Policies

-----------------------------------------------------------------------------
(* POST /contexts/receipts: every belief must be active; the receipt is    *)
(* bound to the principal that asked for it.                               *)
CreateReceipt(r, p, B) ==
  /\ ~Issued(r)
  /\ B # {} /\ B \subseteq Active
  /\ receipt' = [receipt EXCEPT ![r] = [to |-> p, beliefs |-> B]]
  /\ UNCHANGED <<status, decision, permit, action, confirmed, outbox,
                 expired, policy>>

(* _load_context_receipt: unexpired, issued to the expected principal (a   *)
(* receipt of the development principal binds nobody), evidence unchanged. *)
Loads(r, issuedTo) ==
  /\ Issued(r)
  /\ r \notin expired
  /\ receipt[r].to \in {Nobody, issuedTo}
  /\ receipt[r].beliefs \subseteq Active

(* authorize_action's verdict on support S behind receipt r under pol: the *)
(* two unconditional denials, then authority, then confirmation.           *)
Refused(S, r, pol) ==
  \/ ~(S \subseteq Active)
  \/ AuthRequired /\ pol.risk # "read" /\ r = NoReceipt

Sufficient(S, pol) == S # {} /\ Observed(S) >= pol.required

Judge(S, r, pol) ==
  IF Refused(S, r, pol) THEN "deny"
  ELSE IF Sufficient(S, pol) THEN "allow"
  ELSE IF pol.confirmable THEN "confirm" ELSE "deny"

(* _issue_permit: the permit row and the pending agent_actions row. *)
IssuePermit(d) ==
  /\ permit' = [permit EXCEPT ![d].issued = TRUE]
  /\ action' = [action EXCEPT ![d] = "pending"]

(* POST /actions/authorize.  A receipt fixes the support; an explicit list *)
(* beside it must name the same beliefs.  A deleted support belief is      *)
(* unknown (422), a suspect or quarantined one is recorded as a denial.    *)
Authorize(d, p, S, r) ==
  /\ decision[d] = Absent
  /\ r # NoReceipt => Loads(r, p) /\ S = receipt[r].beliefs
  /\ \A b \in S : status[b] # "gone"
  /\ LET v == Judge(S, r, policy)
     IN /\ decision' = [decision EXCEPT ![d] =
             [verdict |-> v, by |-> p, support |-> S, receipt |-> r,
              risk |-> policy.risk, required |-> policy.required,
              observed |-> Observed(S), supersedes |-> NoDecision]]
        /\ IF v = "allow" THEN IssuePermit(d) ELSE UNCHANGED <<permit, action>>
  /\ UNCHANGED <<status, receipt, confirmed, outbox, expired, policy>>

(* May p confirm c?  Not the principal that asked for it, in production.   *)
(* (Mutated form: anyone may.)                                             *)
AnyoneConfirms(c, p) == decision[c].verdict = "confirm"
MayConfirm(c, p) ==
  /\ decision[c].verdict = "confirm"
  /\ ~(AuthRequired /\ decision[c].by = p)

(* POST /actions/decisions/{c}/confirm: an operator, not the requester,    *)
(* turns a confirm into a superseding allow d; the evidence is checked     *)
(* again, the policy is the one recorded with the decision.                *)
Confirm(c, d, p) ==
  /\ MayConfirm(c, p)
  /\ decision[d] = Absent
  /\ decision[c].receipt # NoReceipt => Loads(decision[c].receipt, decision[c].by)
  /\ decision[c].support \subseteq Active
  /\ c \notin confirmed
  /\ confirmed' = confirmed \cup {c}
  /\ decision' = [decision EXCEPT ![d] =
       [decision[c] EXCEPT
          !.verdict = "allow", !.by = p, !.supersedes = c,
          !.observed = IF @ >= UserConfirmed THEN @ ELSE UserConfirmed]]
  /\ IssuePermit(d)
  /\ UNCHANGED <<status, receipt, outbox, expired, policy>>

(* A permit the consume handler gets past its first four refusals with. *)
Usable(d) ==
  /\ permit[d].issued
  /\ ~permit[d].consumed
  /\ ~permit[d].revoked
  /\ d \notin expired

(* _verified_support of the permit's decision: all there and all active.   *)
(* (Mutated form: none of it quarantined.)                                 *)
NoneQuarantined(d) == \A b \in decision[d].support : status[b] # "quarantined"
EvidenceHolds(d) == decision[d].support \subseteq Active

(* POST /actions/permits/consume, the call that authorizes execution. *)
Consume(d) ==
  /\ Usable(d)
  /\ EvidenceHolds(d)
  /\ permit' = [permit EXCEPT ![d].consumed = TRUE]
  /\ action' = [action EXCEPT ![d] = IF @ = "pending" THEN "executed" ELSE @]
  /\ UNCHANGED <<status, receipt, decision, confirmed, outbox, expired, policy>>

(* What the refusal below writes.  (Mutated forms: the permit is left      *)
(* usable; the action's status and status_reason are swapped.)             *)
AbortOnly(d) ==
  /\ permit' = permit
  /\ action' = [action EXCEPT ![d] = IF @ = "pending" THEN "aborted" ELSE @]
ReasonAsStatus(d) ==
  /\ permit' = [permit EXCEPT ![d].revoked = TRUE]
  /\ action' = [action EXCEPT ![d] =
                  IF @ = "pending" THEN "support_unavailable" ELSE @]
RevokeAndAbort(d) ==
  /\ permit' = [permit EXCEPT ![d].revoked = TRUE]
  /\ action' = [action EXCEPT ![d] = IF @ = "pending" THEN "aborted" ELSE @]

(* Consume when a support belief is no longer there: the refusal is        *)
(* returned, not raised, so the revocation and the abort commit.           *)
ConsumeRefused(d) ==
  /\ Usable(d)
  /\ ~EvidenceHolds(d)
  /\ RevokeAndAbort(d)
  /\ UNCHANGED <<status, receipt, decision, confirmed, outbox, expired, policy>>

(* The permits a recant of closure C withdraws: support && C.  (Mutated    *)
(* form: only those resting on nothing else.)                              *)
WithdrawsWholly(d, C) ==
  /\ permit[d].issued /\ ~permit[d].consumed
  /\ decision[d].support \subseteq C
Withdraws(d, C) ==
  /\ permit[d].issued /\ ~permit[d].consumed
  /\ decision[d].support \cap C # {}

(* POST /recant over the closure C the taint engine computed: the flip,    *)
(* the revocation of every unused permit resting on C and the outbox event *)
(* naming the beliefs this recant flipped, in one commit.                  *)
Recant(C) ==
  LET flipped == {b \in C : status[b] \in {"active", "suspect"}}
  IN /\ status' = [b \in Belief |->
                     IF b \in flipped THEN "quarantined" ELSE status[b]]
     /\ permit' = [d \in Decision |->
          IF Withdraws(d, C)
          THEN [permit[d] EXCEPT !.revoked = TRUE] ELSE permit[d]]
     /\ outbox' = outbox \cup {flipped}
     /\ UNCHANGED <<receipt, decision, action, confirmed, expired, policy>>

(* The pending actions an event evicting E aborts: derived_from && E.      *)
(* (Mutated form: only those resting on nothing else.)                     *)
AbortsWholly(d, E) == action[d] = "pending" /\ decision[d].support \subseteq E
Aborts(d, E) == action[d] = "pending" /\ decision[d].support \cap E # {}

(* The outbox worker (module Fanout) applies one event, whole.             *)
Deliver(E) ==
  /\ E \in outbox
  /\ outbox' = outbox \ {E}
  /\ action' = [d \in Decision |->
       IF Aborts(d, E) THEN "aborted" ELSE action[d]]
  /\ UNCHANGED <<status, receipt, decision, permit, confirmed, expired, policy>>

(* The row-level TTL job deletes an untrusted belief that nothing          *)
(* references; support_belief_ids is an array, so it blocks nothing.       *)
DeleteByTTL(b) ==
  /\ status[b] # "gone"
  /\ status' = [status EXCEPT ![b] = "gone"]
  /\ UNCHANGED <<receipt, decision, permit, action, confirmed, outbox,
                 expired, policy>>

(* Time passes the expires_at of a receipt or of a permit. *)
Expire(x) ==
  /\ \/ x \in Receipt /\ Issued(x)
     \/ x \in Permitted
  /\ x \notin expired
  /\ expired' = expired \cup {x}
  /\ UNCHANGED <<status, receipt, decision, permit, action, confirmed,
                 outbox, policy>>

(* PUT /policies/tools/{tool}. *)
PutPolicy(pol) ==
  /\ policy' = pol
  /\ UNCHANGED <<status, receipt, decision, permit, action, confirmed,
                 outbox, expired>>

-----------------------------------------------------------------------------
Next ==
  \/ \E r \in Receipt, p \in Caller(Writer), B \in SUBSET Belief :
       CreateReceipt(r, p, B)
  \/ \E d \in Decision, p \in Caller(Writer), S \in SUBSET Belief,
       r \in Receipt \cup {NoReceipt} : Authorize(d, p, S, r)
  \/ \E c, d \in Decision, p \in Caller(Operator) : Confirm(c, d, p)
  \/ \E d \in Decision : Consume(d) \/ ConsumeRefused(d)
  \/ \E C \in SUBSET {b \in Belief : status[b] # "gone"} : Recant(C)
  \/ \E E \in outbox : Deliver(E)
  \/ \E b \in Belief : DeleteByTTL(b)
  \/ \E x \in Receipt \cup Decision : Expire(x)
  \/ \E pol \in Policies : PutPolicy(pol)

Spec == Init /\ [][Next]_vars

(* The worker polls until its outbox is empty, so it keeps delivering. *)
FairSpec == Spec /\ \A E \in SUBSET Belief : WF_vars(Deliver(E))

-----------------------------------------------------------------------------
(* Properties. *)

Live(d) == permit[d].issued /\ ~permit[d].consumed /\ ~permit[d].revoked

(* A permit that can still be spent rests on no quarantined belief: the    *)
(* recant commit itself withdraws every such permit, whatever was issued,  *)
(* confirmed, delivered or deleted before (quarantine/app.py:236-251).     *)
QuarantineRevokes ==
  \A d \in Decision : Live(d) =>
    \A b \in decision[d].support : status[b] # "quarantined"

(* The permit and the action row tell one story.  A spent permit executed  *)
(* its action, was never revoked, and no late outbox delivery of an older  *)
(* recant ever turned an executable action into an aborted one; a revoked  *)
(* permit's action is never executed (guard/app.py:952-975,                *)
(* fanout/handler.py:163-171).                                             *)
PermitSettlesAction ==
  \A d \in Decision :
    /\ permit[d].consumed <=> action[d] = "executed"
    /\ permit[d].revoked => ~permit[d].consumed
    /\ Live(d) => action[d] = "pending"

(* The fanout owes every abort it has not done: a pending action resting   *)
(* on a quarantined belief is named by an event still in the outbox.       *)
DoomedIsQueued ==
  \A d \in Decision :
    action[d] = "pending"
      /\ (\E b \in decision[d].support : status[b] = "quarantined")
    => \E E \in outbox : E \cap decision[d].support # {}

(* Row rests on a receipt p was issued, unless it needs none. *)
BehindReceipt(row, p) ==
  AuthRequired /\ row.risk # "read" =>
    row.receipt # NoReceipt /\ receipt[row.receipt].to = p

EarnedByAuthority(d) ==
  LET row == decision[d]
  IN /\ row.supersedes = NoDecision
     /\ row.support # {}
     /\ \A b \in row.support : Authority[b] >= row.required
     /\ BehindReceipt(row, row.by)

EarnedByConfirmation(d) ==
  LET c == decision[d].supersedes
  IN /\ c \in confirmed
     /\ decision[c].verdict = "confirm"
     /\ decision[c].support = decision[d].support
     /\ BehindReceipt(decision[d], decision[c].by)
     /\ AuthRequired => decision[c].by # decision[d].by
     /\ decision[d].observed >= UserConfirmed
     /\ \A e \in Decision :
          decision[e] # Absent /\ decision[e].supersedes = c => e = d

(* Every allow was earned: by the authority of its evidence under the      *)
(* policy in force, or by exactly one independent confirmation of a        *)
(* decision on the same evidence; and in both cases behind a receipt of    *)
(* the requester's own where the policy asks for one.                      *)
AllowIsEarned ==
  \A d \in Decision : decision[d].verdict = "allow" =>
    EarnedByAuthority(d) \/ EarnedByConfirmation(d)

(* No action ever starts after its evidence is gone: the step that         *)
(* executes an action sees all of its support active, and an action once   *)
(* executed or aborted is settled for good.                                *)
ExecutesOnActiveEvidence ==
  [][\A d \in Decision : action'[d] # action[d] =>
       /\ action[d] \in {"none", "pending"}
       /\ action'[d] = "executed" =>
            \A b \in decision[d].support : status[b] = "active"]_vars

(* Whatever the executor does or leaves undone, an action whose evidence   *)
(* was recanted is settled once the worker has run.                        *)
Doomed(d) ==
  action[d] = "pending"
    /\ \E b \in decision[d].support : status[b] = "quarantined"
DoomedIsAborted ==
  \A d \in Decision : Doomed(d) ~> action[d] = "aborted"
=============================================================================
