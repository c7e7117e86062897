# A verification project for recant

recant keeps an attested ledger of what AI agents believe, where each belief came
from and what was derived from it.  When a source turns out to be poisoned, one
call *recants* it: everything contaminated is quarantined in one commit, permits
to act on it are withdrawn in the same commit, and an outbox event makes workers
clean the agents' working memory.  This directory holds TLA+ models of that
program, translated from its source, with instances TLC checks and theorems
TLAPS proves.  Paths below are relative to the repository root (`src/` in
`PROJECT.json`).

## 1. Inventory

| Component | State | Operations | Interacts through |
|---|---|---|---|
| Attest gateway (`services/attest_gateway`) | `agents` (chain heads), `sources`, `beliefs`, `derivations` (explicit), signed attestations | create agent, create source, create belief, verify an agent's chain | the database; the guard's context receipts; incidents decide how a belief is born |
| Taint engine (`services/taint_engine/engine.py`) | none of its own: a loop over one snapshot | `compute_closure` | called inside the recant's transaction; reads derivations, relations, embeddings |
| Claim verifier (`taint_engine/relations.py`) | `semantic_relations` (through the guard) | verify a relation | its verdicts steer the engine |
| Quarantine service (`services/quarantine`) | `incidents`, `quarantine_actions`, outbox (`memory_events`) | preview, recant | flips beliefs, revokes permits, posts the event |
| Guard (`services/guard`) | `context_receipts`, `action_decisions`, `action_confirmations`, `action_permits`, `agent_actions`, `tool_policies` | issue a receipt, authorize, confirm, consume, put policy | reads belief status; its permits are revoked by a recant; its actions are aborted by the worker |
| Idempotency keys (`services/common/idempotency.py`) | `idempotency_records` | `replay` (claim or answer), `store` | inside the transaction of every mutating handler |
| Transactions (`services/common/db.py`) | none | run, roll back, retry on 40001 | every handler |
| Eviction fanout (`fanout/worker.py`, `handler.py`) | `fanout_deliveries`, `agent_memory`, `agent_actions`, eviction receipts | poll, apply, record | several workers and consumers over one outbox |
| Lambda transport (`fanout/lambda_entry.py`, `consumer_entry.py`, `iac/deploy.sh`) | manifests in a bucket; the bus with its dead-letter queue; Lambda's queue of invocations | changefeed webhook, EventBridge put, hand-over, consume | the same apply as the worker, under a consumer name of its own |
| Fleet (`fleet/`) | `agent_memory`, `agent_actions` | write a belief, mirror it, recheck, enqueue an action | races the recant and the worker |
| Forensics (`services/forensics`) | `custody_checkpoints`, external copies and evidence bundles in buckets | checkpoint, publish, verify, archive an incident, affidavit, timelines | reads everything; chains its checkpoints; its buckets are no part of any transaction |
| Migrations (`db/migrate.py`, `db/migrations`) | `schema_migrations`, the TTL jobs | apply, expire | the TTL job deletes rows behind every handler's back |
| Investigator, console, embedder, ops scripts | read-only or pure | | |

What is hard here, and hard to test:

* **Concurrency between services.**  Each handler is one SERIALIZABLE transaction,
  but a request of a user spans several: authorize, later confirm, later consume;
  write a belief, later mirror it, later recheck.  A recant, the worker, the TTL
  job and a clock come between any two.
* **Two mechanisms for one promise.**  A recant revokes permits at once and aborts
  actions later, through the outbox; both write the same pair of rows.
* **Laundering.**  A belief may derive from many, over several agents, before or
  after a recant, with a search that was cut short; its origins and its authority
  must survive all of that.
* **A loop with two ways to stop early.**  The closure alternates between a graph
  walk and a neighbour search, under a round cap and a result limit.
* **Retries on every level.**  Clients repeat calls under a key, transactions are
  retried by the driver, workers repeat passes, events are delivered per consumer.
* **State outside the database.**  Checkpoint copies, evidence bundles, manifests and
  messages are written between transactions, by calls that may die in between.
* **A clock.**  Expiry is compared with the time a transaction began; rows are
  deleted by a job nobody calls.

`PROJECT.json` lists the hazards at their lines with the properties that would
catch them.  What makes each component correct is stated as its properties, below.

## 2. Modules

| Module | Models | Lines of code it stands for |
|---|---|---|
| `Guard` | the action gate and what a recant does to it | `services/guard/app.py`, `policy.py`, `quarantine/app.py`, `fanout/handler.py` |
| `Closure` | the contract between the engine and a recant: reachability, and what a whole or an incomplete closure holds | `taint_engine/engine.py:71-86` |
| `Taint` | `compute_closure`, one step per turn of its loop | `taint_engine/engine.py` |
| `Ledger` | sources, beliefs, chains, derivations, relations, recants, expiry | `attest_gateway/app.py`, `quarantine/app.py`, `guard/app.py:1127-1180` |
| `Once` | abstract: what an Idempotency-Key promises, one step per call | |
| `Idempotency` | detailed: claim, wait, store, commit, retry, expiry | `common/idempotency.py`, `common/db.py` |
| `Fanout` | outbox, workers, working memory and the agents that fill it | `fanout/worker.py`, `handler.py`, `fleet/agents.py` |
| `Delivery` | abstract: what the outbox promises a consumer, by whichever way | |
| `Transport` | changefeed, receiver, bus, consumer | `fanout/lambda_entry.py`, `consumer_entry.py`, `iac/deploy.sh` |
| `Lifecycle` | abstract: what becomes of a belief, and which recant answers for it | |
| `Forensics` | checkpoints and their publication, the archive of an incident, over a ledger that goes on | `forensics/app.py`, `checkpoint.py`, `archive.py`, `attest_gateway/app.py:182-249` |
| `GuardProofs`, `TaintProofs`, `LedgerProofs`, `IdempotencyProofs`, `FanoutProofs`, `ForensicsProofs`, `TransportProofs` | theorems | |
| `Facts` | lemmas on minima and on reachability, used by the proofs | |
| `MCGuard`, `MCTaint`, `MCLedger`, `MCFanout`, `MCForensics` | values of the constants for TLC | |

How they fit together:

* `Taint` and `Ledger` meet in `Closure!MeetsContract`.  `Taint` proves that the
  engine keeps the contract on any snapshot; `Ledger`'s recant takes *any* closure
  that meets it, so what holds in `Ledger` does not rest on details of the engine.
* `Guard`'s recant takes an arbitrary set as closure and `Guard`'s delivery is one
  step: `Fanout` shows that a delivery's effect happens once, whole, whatever the
  workers do.
* `Guard` and `Ledger` leave retried and repeated calls to `Idempotency`, which
  shows that a handler under a key takes effect once per window.
* `Once` is the abstract specification; `Idempotency` implements it under the
  mapping of `Promise` (a record forgets its status; a call in a transaction has
  not happened yet).
* `Delivery` is the second abstract specification, and two very different programs
  implement it: the poller (`Fanout`, any number of consumers, nothing given up) and
  the changefeed (`Transport`, one consumer, which may give an event up, to the
  dead-letter queue or to nobody).  Its log is read off
  the eviction receipts in the one and off the commits of the consumer in the other.
* `Lifecycle` is the third, and ties the modules that hold a copy of `beliefs.status`
  together: a belief is born active or suspect, one recant flips it and lists it under
  its event, the TTL job deletes it, and nothing else happens to it.  `Ledger` (status
  and incidents), `Fanout` (status and outbox) and `Forensics` (its one recant)
  implement it; the mappings are the `Life` instances of their proof modules.  `Guard`
  has the same statuses, but its outbox forgets an event that was delivered, so it
  keeps no log of the recants to map to Lifecycle's; it has theorems of its own instead.

### Guard

`status` is `beliefs.status`, with `"gone"` for a row the TTL job deleted;
`receipt`, `decision`, `permit`, `action`, `confirmed` and `policy` are the tables
named beside them; `outbox` holds the belief sets of events not yet delivered;
`expired` the receipts and permits whose `expires_at` has passed.  `CreateReceipt`,
`Authorize`, `Confirm`, `Consume`, `PutPolicy` and `Recant` are the handlers.  A
consume that finds its evidence gone (`ConsumeRefused`) answers 409 *and commits*
a revocation and an abort, as `guard/app.py:952-962` does.  An HTTPException rolls
its transaction back and is no step.  Signatures, digests and the permit token are
left out: the rows they cover are never updated.  The decision of the two denials,
the authority comparison and the confirmation is `Judge`.

### Taint and Closure

`store` is the snapshot the transaction reads.  `Round` is one turn of the while
loop: walk down the derivations, then probe every new member for neighbours; each
hit is kept with its best probe, and the next frontier is what both steps added.
`Cap` is the runaway guard.  A probe with more than `KNN_MAX_K` neighbours over the
threshold (`Overflows`) may miss any of them and raises `truncated` (at equality it
raises it as well, as the code does).  The vector index is taken to be exact below
that limit: an approximate index that silently misses a neighbour is outside the
model, and so is the doubling by which `_knn_hits` reaches the limit.  A belief
without an embedding has similarity 0.  `related` is "says the same": equal text
after normalisation, or a recorded equivalence or entailment.

### Ledger

Beliefs carry their agent's sequence number and predecessor, their source, the
authority and the origins computed at birth, and a status.  `CreateBelief` is the
whole handler: the receipt, the parents, the status at birth (suspect when the
source was recanted or a parent is suspect or quarantined), the head update and the
equivalence rows for equal claims.  Receipts are represented by the set of beliefs
they cover, which must be active.  A hash is represented by the belief it
identifies.  `DeleteByTTL` deletes a belief of an untrusted source when no foreign
key holds it.

### Once and Idempotency

`tx` is a call's transaction: open, claimed (its key row is written and locks out
others) or closed.  `Claim`, `Conflict` and `Replay` are the three outcomes of
`replay`; `Commit` the handler's writes, `store` and the commit; `Retry` a
serialization failure, at most `MaxRetries` attempts; `Rollback` everything else
that ends without a trace.  An answer may be lost.  `now()` is the time the
transaction began, kept in `tx[r].at`.

### Fanout

`Poll` reads a batch; `Deliver` applies one event in one transaction (evictions,
aborts, receipt, delivery row); `LoseRace` is the unique violation that rolls all of
it back; `WorkerDies` loses the batch.  On the agents' side `WriteBelief`,
`AddTexts` and `Recheck` are three transactions, and `AgentStops` a process that
dies between them.  `DeleteByTTL` removes beliefs while their mirrors stay.

### Delivery and Transport

`Receive` is a POST of the changefeed: any rows it has no 200 for, while an earlier
POST of them may be running on.  `PutManifest`, `PutEvents` and `Acknowledge` are what
`lambda_entry.handler` does with them, in that order; `PutSome` is a response with a
`FailedEntryCount`, after which the handler raises; `ReceiverFails` any other way to
end without a 200, and `FeedRestarts` a feed that forgets some of its progress.
From there an event passes through two services with retries of their own:

* The bus hands it to Lambda (`HandOver`, of which the bus may not hear, and then it
  does so again) or, when Lambda refuses it too often or for too long, moves it to the
  dead-letter queue (`DeadLetter`).  The `RetryPolicy` and `DeadLetterConfig` of
  `deploy.sh:145` govern this and no more: EventBridge invokes a function
  asynchronously, and for the bus the event is delivered once Lambda has queued it.
* Lambda's `queue` holds each event with the number of invocations that failed on it.
  `Invoke`, `Apply`, `FindDuplicate` and `Answer` are an invocation of the consumer:
  `_resolve_manifest` is the guard `Resolves`, the transaction is one step, and the
  unique violation another.  One that raises or dies, before its commit or after it, is
  `Retry` while Lambda allows another (two by default), and then `Discard`, since
  `ensure_fn` configures no destination for what failed; `FailUnheeded` when another
  invocation took the message off the queue meanwhile.  `discarded` is a history
  variable: in the deployment nothing records such an event.

Messages of one event that wait at one place after as many attempts count as one.  What
the transaction does to memory and actions is `Fanout`'s subject: it is the same
`apply_evictions`.

### Forensics

`head` is `agents.head_seq`; as chains are append-only (`Ledger`) it stands for the
hash too.  A checkpoint call is four steps: `Begin` fixes its `now()`, `Commit` holds
the tenant's row, reads the heads and the predecessor and inserts the row, `Publish` or
`PublishFails` writes the copy, `SetUri` notes it.  A call that dies takes no next step.
`MerkleRoot` pairs hashes level by level as `checkpoint.merkle_root` does, with
injective hashes; a row keeps the heads themselves and `RootsTellHeadsApart` justifies
that.  An archive is `ReadSummary`, a `ReadCustody` per affected agent, each in a
transaction of its own, then `PutIncident`, a `PutCustody` per agent and
`ArchiveAnswers`; all archives of an incident write the same keys.

Some of what the model shows is behaviour, not a defect the code's documents deny:

* A transaction that waited on the tenant's row commits with an older `created_at`
  than the checkpoint before it.  The next checkpoint then links past it, so the chain
  forks there, and `GET /checkpoints/latest` answers with a checkpoint that was not
  the last to commit.  `ChainGoesForward` says what remains true.
* `GET /checkpoints/{id}/verify` answers `external_copy_valid: false` both for a copy
  that differs and whenever it cannot read the bucket (`forensics/app.py:804-807`; the
  parameter `readable` of `ExternalCopyValid`), so a good copy may be reported bad.
  `ExternalCopyAgrees` says that the copy is exact, and hence that a verdict from a
  bucket that was read is never `false` by the service's own doing.
* After a 502 the checkpoint stays in the database without `external_uri`, though the
  object may exist; nothing publishes it later, and `POST /checkpoints` takes no
  Idempotency-Key.
* An archive that dies after `incident.json` leaves a bundle in part; one that is slow
  may overwrite a newer archive's documents with its older ones; and an agent whose
  recanted beliefs the TTL job removed is not among the affected.
  `BundleCoversIncident` is what holds all the same.

## 3. What the runs check

| Run | Instance | Shows |
|---|---|---|
| `guard` | 2 beliefs (ranks 70 and 10), 1 writer, 2 operators of whom one is the writer, 1 receipt, 2 decisions, 2 policies, authentication on; 662,220 states | permits, actions and evidence stay consistent; allows are earned; an action resting on recanted evidence is eventually aborted |
| `taint` | every graph of older-to-newer derivations over 4 beliefs, every symmetric similarity, with and without a relation, with and without a non-taintable belief; K = 3, 2 rounds; 58,958 states | what the engine returns meets its contract |
| `ledger` | 3 beliefs, 2 sources (one untrusted), 2 incidents, receipts required; 108,752 states | recanted origins stay out, authority never grows, each belief is flipped once |
| `ledger_relations` | 2 beliefs, 2 sources (one untrusted), 2 contents, 2 verdicts, 2 incidents, receipts optional; 59,926 states | no active belief rests on one that is not; verification finds exactly the deletions, of the first row and of the last |
| `ledger_expiry` | violated | see Findings |
| `idempotency` | 3 calls, 1 key and calls without one, 2 digests, a window of 1 and a clock to 1, 2 attempts; 292,698 states | refinement of `Once`, one effect per window, true answers, every transaction ends |
| `fanout` | 2 beliefs, 1 action on both, 2 events, 3 workers of whom 2 share a consumer, batches of 2, 1 crash, agents that die, beliefs that expire; 3,380,517 states | effects happen once; receipts account for them; only an action enqueued late escapes its abort |
| `fanout_live` | 2 workers with a consumer each, batches of 1, 1 crash; 82,387 states | refinement of `Delivery`, its liveness included; no residue, working memory comes clean |
| `fanout_residue` | violated | see Findings |
| `forensics` | 5 agents, one of them created on the way, 2 beliefs of 2 agents, one of which expires, 1 recant, 3 calls, each a checkpoint or an archive; 1,030,101 states | checkpoints link forward, tell heads apart and agree with their copies; bundles cover their incident |
| `transport` | 2 events, 1 oversized, 1 receiver, 2 evictors, batches of 2, 3 invocations of a message (Lambda's default), 1 fault; 650,575 states | what is acknowledged is lost only to a consumer that fails every time, every message is readable, refinement of `Delivery` with its liveness |
| `transport_loss` | violated | see Findings |

**Bounds.** Two decisions are what a confirmation and the decision it supersedes need,
and what a permit issued before and one issued after a recant need; two beliefs
distinguish "rests on something recanted" from "rests only on that". Three ledger
beliefs give a chain of derivations and a belief with two parents; two incidents give
overlapping closures. The deletions of rows in the middle of a chain need three rows and
relations, too many states; there the theorem `VerificationTellsDeletions` is what shows
the property. Four beliefs are three hops, so a walk and a probe alternate both ways
round; a cap of two rounds fires on closures that are complete and on ones that are not,
and K is small enough to overflow. Three calls are the one that takes effect, the one
that waits on it with an old clock, and the one that comes after the window. Three
workers are a race under one name and an independent consumer. Five agents make a Merkle
tree with an odd bottom level and an odd one above it; three calls are two checkpoints
that race and the one that comes after, or archives that overwrite each other. Two
evictors are a duplicate invocation; two events in a batch of two, one of them larger
than the bus takes, are an envelope of which the bus may take either part. (A later
batch that fails after an earlier one was taken is `ReceiverFails` between the two.) One
receiver is enough for overlapping POSTs of a row one after the other. With two
receivers, or with two faults, liveness is beyond a few minutes; the invariants hold
with two faults over 5,609,365 states, and the theorems are for any number of both.
Named bounds: `MaxNow` (the clock stops), `MaxCrashes`, `MaxFaults` (receiver failures,
rejected batches, feed restarts, hand-overs the bus does not hear of; failures of the
consumer are bounded by `MaxAttempts`, which is Lambda's); ids are used once.

**Deadlock** is checked for `Guard`.  The other models stop when their ids, their
clock or their loop run out, so their instances say `CHECK_DEADLOCK FALSE`.

**Symmetry** is used only in runs without liveness or refinement.

### Properties, by the promise they state

* `QuarantineRevokes`: after the commit of a recant, no spendable permit rests on
  anything quarantined.  `ExecutesOnActiveEvidence`: an action is executed only
  while all its evidence is active, and settled once.  `PermitSettlesAction`: the
  two rows agree, so a late delivery never aborts what was or may be executed.
  `DoomedIsQueued`, `DoomedIsAborted`: what the recant left pending, the outbox
  still owes, and pays.  `AllowIsEarned`: every allow has the authority its policy
  asked for or exactly one confirmation, by somebody else, and the receipt it needs.
* `ReturnsContract`: the closure is the least set closed under derivation and
  taint, unless a flag says it is incomplete, and always has every recorded
  descendant.  `EdgesExplainClosure`: the stored edges reach exactly the closure.
  `IndependentSourceHolds`: similarity alone never taints a sourced belief.
  `RoundsMakeProgress`: the cap cuts only real chains.
* `RecantedOriginsStayOut`, `AuthorityNeverGrows`, `EachFlippedOnce`,
  `ActiveRestsOnActive`: see `Ledger`.  `ChainTellsDeletions`:
  `verify_agent_chain` accepts an agent's chain if and only if the TTL job deleted none
  of its rows, be it the first, one in the middle, the last or all of them.
* `OncePerWindow`, `AnswersAreTrue`, `ConflictsAreReal`, `KeepsPromise`,
  `EveryCallEnds`: see `Idempotency`.
* `ExactlyOnce`, `ReceiptsAccount`, `NoResidue`, `MemoryComesClean`: see `Fanout`.
  `OnlyLateActionsEscape`: `_enqueue_action` asks for no status
  (`fleet/agents.py:143-173`), so an action enqueued after a recant was delivered stays
  pending for ever; the schema promises no more (`0006_fanout_and_actions.sql:20-22`,
  though `docs/plans/2026-07-10-week3.md:114-115` does), and the guard's own path
  refuses inactive support.  The property is that nothing else leaves an action so.
* `KeepsDelivery`: only what was posted is applied, once per consumer, and in the end
  it is applied or given up; of `Fanout`, which never gives up, and of `Transport`.
  `AcknowledgedIsCarried`: a row the feed was told is taken is on the bus, in Lambda's
  queue, applied, in the dead-letter queue, or one the consumer failed on every time.
  `MessagesAreReadable`: no message refers to an object that is not there.
* `ChainGoesForward`, `RootsTellHeadsApart`, `ExternalCopyAgrees`,
  `BundleCoversIncident`: see `Forensics`.

### Fairness

* `Guard`: weak fairness of each event's delivery.  `worker.main` polls for ever and
  reads every undelivered event; `Fanout` checks that no event is skipped.
* `Idempotency`: weak fairness of each call's next statement.  A handler is a loop
  that ends or raises; waiting for the row is not fairness' business, it is what the
  property tests.  Nothing is assumed of retries, rollbacks, the TTL job or the clock.
* `Fanout`: weak fairness of each worker's pass (`while True` in `worker.main`, and
  a crashed worker is restarted), and of a mirror that was begun (straight-line code in
  `_mirror`).  Where the agents' process may die the mirror's steps are disabled, so
  fairness asks nothing of it.
* `Transport`: as long as the feed, the bus, Lambda or an invocation can take a step that is no
  failure, one of them does (`Progress`).  All of them are retrying by design, and this is
  less than fairness of each.  The faults are bounded, which is the assumption that
  liveness of a retrying system cannot do without.
* `Forensics` has none: a call may stop anywhere.

## 4. Findings

* **`ledger_expiry`** (`db/migrations/0003_row_ttl.sql:8`).  `docs/plan.md:36` says
  the TTL job never severs provenance because foreign keys block it.  A belief that
  nothing derives from and that derives from nothing has no such key: the job
  deletes it, the agent's head still names it, and the chain stops verifying.
  `ChainTellsDeletions` is what holds: verification tells of that deletion, and of
  nothing else.
* **`transport_loss`** (`fanout/iac/deploy.sh:145`).  `docs/security-and-guard.md:263-264`
  says that exhausted deliveries end in the dead-letter queue, and the docstring of
  `consumer_entry.handler` that an invocation that raises is retried by EventBridge.
  The target's retry policy ends with the hand-over to Lambda.  A consumer that fails in
  three invocations, say because the database is away for a few minutes, loses the
  event: the recant's evictions and aborts do not happen under that consumer's name, and
  no queue holds them.  `AcknowledgedIsCarried` is what holds: nothing else is lost.
  An on-failure destination or a dead-letter queue of the function would close it.
* **`fanout_residue`** (`fleet/agents.py:62`).  The comment on the recheck says the
  two outcomes of the race are covered.  A process that dies between `add_texts` and
  the recheck leaves a quarantined belief in working memory after its event was
  delivered, and a second run refuses to start.  `OnlyStoppedAgentsLeaveResidue`
  proves that nothing but such a death leaves one.
* Not a run of its own: with `RowsExpire = TRUE`, `MemoryComesClean` fails in the
  instance of `fanout_live`.  The delete of `apply_evictions` joins with `beliefs`
  (`fanout/handler.py:154`), so a recanted row that expired before its delivery leaves
  its mirror behind.  `fanout_live` assumes the worker comes before the TTL job.

## 5. What is proved

TLAPS checks these for every value of the constants, under the assumptions the
modules name (`GuardConstants`, `TaintConstants`, `LedgerConstants`,
`IdempotencyConstants`, `FanoutConstants`, `ForensicsConstants`,
`TransportConstants`): types of the parameters, that the null values are not ordinary
ones, and that a table has finitely many rows (beliefs in `Taint`, agents enrolled at
the start in `Forensics`).  A theorem that needs more says so in its own hypothesis.

* **Guard** (`GuardProofs`).  `TypeOK`, `QuarantineRevokes`, `PermitSettlesAction`,
  `DoomedIsQueued` and, from them, the action property `ExecutesOnActiveEvidence`.
  None of the four is inductive alone.  The delivery of an old event is the step that
  threatens `PermitSettlesAction`: it would abort the action of a live permit if the
  permit could rest on what the event evicts.  `GuardInv` adds the two facts that
  exclude it: an undelivered event names only beliefs that are no longer active
  (`EvictedIsInactive`), and live permits touch none of them (`LiveIsNotEvicted`),
  because a permit is issued on active evidence only and withdrawn by the recant that
  posts the event.  `AllowIsEarned` has an invariant of its own, `EarnedInv`: what a
  decision recorded about its receipt and its predecessor never changes, and a decision
  that waits for confirmation has the receipt it needs (`ConfirmsAreBacked`).
  * `WithdrawnEvidenceBarsForGood`, about all futures at once: an action whose evidence
    is withdrawn before it runs never runs.  `Barred` is stable because a decision's row
    is final, no belief becomes active again, and the only step that executes an action
    finds its evidence active (`SettlesStep`).
  * `NothingRunsUnearned` joins the two halves of the gate: a permit exists only for a
    decision that is an allow (`PermitsAreAllows`), an execution spends a permit, and
    every allow was earned.
* **Taint** (`TaintProofs`).  `TypeOK`, `ReturnsContract`, `EdgesExplainClosure`,
  `IndependentSourceHolds`, by the loop invariant `LoopInv`: members came over
  tainting edges only; a member behind the frontier has been followed to its children
  and, unless a search was truncated, to its neighbours; after one round the recorded
  descendants of the seed are in.  On exit this is the contract, for any `MaxK` and
  `MaxRounds`.  `RoundsMakeProgress` by `Paced`: a round that leaves a frontier has
  found a member, so the number found keeps pace with the rounds.
  * The contract promises little once a flag is up, so it matters when one can be.
    `FlagsAreEarned`: `capped` means that at least `MaxRounds` members were found,
    `truncated` that a member has at least `MaxK` close neighbours (by `Caused`, which
    remembers why a flag went up, and `Paced`).  Hence `SmallStoresGetWholeClosures`:
    without a flag and whole, whenever the store has at most `MAX_ROUNDS` beliefs and
    fewer than `KNN_MAX_K` (10 and 320 in `engine.py`).
* **Ledger** (`LedgerProofs`).  `TypeOK`, `RecantedOriginsStayOut`,
  `AuthorityNeverGrows`, `EachFlippedOnce`, `ActiveRestsOnActive`, `CustodyUnbroken`,
  `ChainTellsDeletions`.  `RecantedOriginsStayOut` needs `Rooted`: whatever has a
  source among its origins is reachable over derivations from a belief that cites the
  source.  That is why a recant, which follows derivations, catches all of it; writes
  keep it because origins are inherited only along recorded derivations, and the TTL
  job keeps it because a row it may delete starts none.  `AuthorityNeverGrows` is first
  proved of single derivations and carried to chains by the minimality of `Reach`
  (`ReachLeast`), with no induction over data.
  `ActiveRestsOnActive` is inductive given the types; its one hard step is the recant,
  where the contract makes the closure closed under derivations, so an active child
  has no flipped parent.  `CustodyUnbroken` needs only that an agent at sequence 0
  still has the genesis hash.
  * `VerificationTellsDeletions` is `ChainTellsDeletions` of chains of any length.  If
    nothing was deleted, `CustodyUnbroken` is what verification checks
    (`WholeChainVerifies`).  If a row was (`CutChainFails`), either the agent's head
    names no surviving row, or some row survives above the deleted one; the lowest such
    row then has a `prev_hash` that names a row verification does not see.
  * `LedgerKeepsLifecycle`: every step of the ledger is a step of `Lifecycle` or changes
    nothing of it.  From it `NothingIsReinstated`: a belief that is suspect, quarantined
    or gone is never active again.  `Guard` takes that for granted in its recants.
* **Idempotency** (`IdempotencyProofs`).  `TypeOK`, `OncePerWindow`, `AnswersAreTrue`,
  `ConflictsAreReal`, and that every step of the protocol is a step of `Once` or
  changes nothing a client can see (`IdempotencyKeepsPromise`).  A key's row is the only
  memory of what was done under it and the TTL job erases it, so the invariant says
  what row and clock remember together: an effect has its window behind it, or the row
  is there and outlives the window (`Remembered`); and a claim was made while no row
  was current and nobody else can write the row until it ends (`ClaimsStand`).  Both
  compare with the time a transaction *began*: the proof is where one sees that a call
  that waited on the row with an old clock cannot take effect in the first one's window.
* **Fanout** (`FanoutProofs`).  `TypeOK`, `ExactlyOnce`, `ReceiptsAccount` for any
  number of workers, consumers and crashes, with agents that stop and beliefs that
  expire.  The invariant is that what an event removes does not come back
  (`MirroredOnce`).
  * `OnlyStoppedAgentsLeaveResidue`, with no hypothesis: a recanted belief stays in
    memory with nobody bound to remove it only if the agents' process died while
    mirroring that belief.  `NoResidue` under `AgentsStop = FALSE`
    (`LivingAgentsLeaveNoResidue`) is a corollary, and the hypothesis is just what the
    comment in `fleet/agents.py` leaves out and `fanout_residue` refutes.
  * `OnlyLateActionsAreMissed`: an action pending on quarantined evidence which no
    delivery is left to abort (`Doomed` and not `Owed`) got there in the step that
    enqueued it.  A recant owes its event to every consumer (`RecantOwes`), and a
    delivery cannot drop what is owed without aborting it (`DeliverPaysWhatIsOwed`).
    It supposes that there is a consumer.
  * `FanoutKeepsPromise`: every step is a step of `Delivery` on the log of the receipts,
    or changes nothing of it.  `FanoutKeepsLifecycle`: likewise of `Lifecycle` on status
    and outbox.
* **Forensics** (`ForensicsProofs`).  `TypeOK`, `ChainGoesForward`,
  `ExternalCopyAgrees`, `BundleCoversIncident`, `RootsTellHeadsApart`, for any number
  of agents, beliefs and calls.  The chain goes forward because a row's heads were the
  agents' heads when it committed and heads only grow, so the order of commits is the
  order of the heads whatever `created_at` says.  The copy agrees because a row's signed
  part is never updated; the theorem is about what is stored, and leaves verification
  free to fail at reading it.  The bundle covers its incident because what was put is struck
  off the call's list and the keys are only ever overwritten, never deleted, and because
  a chain is read after the recant that opened the incident.
  * `RootTellsLeaves`: two lists of distinct leaves with one Merkle root are one list.
    The tree is built level by level, so this is an induction; since the induction
    theorems of the library are out of the provers' reach, the step is proved of
    one level (`PairUpTells`: what pairs up to equal levels is equal, padding included)
    and carried to the leaves by a least pair of rounds at which unequal trees would
    meet (`LevelsTell`).  That the leaves differ is needed: a list of odd length has the
    same root with its last leaf repeated.  `custody_leaves` makes
    one leaf of each agent, which is how `RootsTellStatesApart` follows.
  * `ForensicsKeepsLifecycle`, for the ledger it reads.
* **Transport** (`TransportProofs`).  `TypeOK`, `AcknowledgedIsCarried`,
  `MessagesAreReadable`, and that every step is a step of `Delivery` or a stutter
  (`TransportKeepsPromise`), for any number of events, receivers, evictors and faults.
  An entry is struck off `unsent` only when the bus has it (`SentIsCarried`), and from
  there an event only moves on: to Lambda's queue or the dead-letter queue, and off
  Lambda's queue once it is delivered, back with one attempt less, or discarded after
  the last (`CarriedStays`).  An oversized entry is unsent while its manifest is unput
  (`PutInTime`).  `OnlyTheConsumerLoses` is the theorem on `AcknowledgedIsCarried`.

Every invariant and action property the passing runs check is thus also a theorem.
Only model-checked: liveness (`DoomedIsAborted`, `EveryCallEnds`, `MemoryComesClean`
and the live half of `KeepsDelivery`), which is out of the prover's reach.  Only
proved: `CustodyUnbroken`, of which `ChainTellsDeletions` is the visible side,
`Lifecycle`'s refinements and the theorems above without a property of a run,
which are consequences of what the runs check or complements of the findings.

## 6. Not modelled, and why

* Signatures, hashes, token encodings and encryption: functions of rows no handler
  updates.  A model of them would assume what it shows.
* The deterministic and the model-backed claim verifier, the embedder, the
  investigator and its SQL filter: text in, verdict out.  `Ledger` lets the verifier
  report anything in `Verdicts`.
* Malformed outbox events: no handler of this program writes one.
* The preview, the affidavit's wording, the board and the timelines, the console:
  read-only.
* The Python client: it keeps no state and repeats no call.
* Provisioning and the load scripts: one insert after the other.
* The migration runner (`db/migrate.py`): one sequential program.  Read, not modelled:
  it executes a file's statements in autocommit and records the file after the last, so
  a crash between `CREATE VECTOR INDEX` of `0002`, which has no `IF NOT EXISTS`, and
  the record makes every later run fail, although the repository's README calls it
  safe to repeat.
* Manifests above `MAX_MANIFEST_BYTES`: the receiver puts them, the consumer refuses
  them on every attempt, and Lambda discards the event: `Discard` by another cause.
* Tenants: every statement is filtered by one, and a model is of one tenant.

## 7. Plan

Done: every component that writes.  What could follow:

1. A composition of `Ledger` and `Guard` over shared belief status, to drop the
   arbitrary closure from `Guard`'s recant; `Lifecycle` is the half of it that is done.
2. Pure algorithms against reference definitions: the adaptive search of `_knn_hits`,
   policy resolution (`policy.py`), the deterministic claim verifier.
3. The migration runner, with a crash and a rerun.
