---------------------------- MODULE Idempotency ----------------------------
(***************************************************************************)
(* services/common/idempotency.py, and the transactions it runs in         *)
(* (services/common/db.py): a mutation under an Idempotency-Key.           *)
(*                                                                         *)
(* Every mutating handler opens a SERIALIZABLE transaction, claims its key *)
(* (replay), does its writes, stores its response under the key (store)    *)
(* and commits.  The claim takes the row of the key, so a second call      *)
(* under the same key waits for the first one's commit or rollback.  A     *)
(* transaction the database could not serialize is rolled back and run     *)
(* again, MaxRetries times at most; the handler may refuse, the process    *)
(* may die, the answer may get lost, and the client may ask again.         *)
(*                                                                         *)
(* Left out: what the response says and how it is encrypted; it stands     *)
(* here for the call whose effect it describes.  now() is the time the     *)
(* transaction began, not the time it commits.                             *)
(***************************************************************************)
EXTENDS Integers, FiniteSets

CONSTANTS Request, Key, Digest, Window, NoKey, NoCall, Free,
          MaxRetries,  \* db.py MAX_RETRIES
          MaxNow       \* bound: the clock stops here

Call == [scope : Key \cup {NoKey}, digest : Digest]
Record == [digest : Digest, status : {0, 200}, body : Request, expires : Nat]

ASSUME IdempotencyConstants ==
  /\ Window \in Nat \ {0}
  /\ MaxRetries \in Nat \ {0}
  /\ MaxNow \in Nat
  /\ NoKey \notin Key
  /\ NoCall \notin Call
  /\ Free \notin Record
  /\ Free \notin [digest : Digest, by : Request, expires : Nat]
  /\ "none" \notin Request /\ "lost" \notin Request /\ "conflict" \notin Request

VARIABLES
  now,      \* the database's clock
  call,     \* per call: the key's scope and the request digest
  tx,       \* per call: its transaction
  record,   \* idempotency_records, committed rows by primary key
  effects,  \* the writes that were committed, and when
  answer    \* what the client was told

vars == <<now, call, tx, record, effects, answer>>

Closed == [phase |-> "closed", at |-> 0, tries |-> 0]

TypeOK ==
  /\ now \in Nat
  /\ call \in [Request -> Call \cup {NoCall}]
  /\ tx \in [Request -> [phase : {"closed", "open", "claimed"},
                         at : Nat, tries : 0 .. MaxRetries]]
  /\ record \in [Key -> Record \cup {Free}]
  /\ effects \subseteq [by : Request, scope : Key \cup {NoKey},
                        at : Nat, done : Nat]
  /\ answer \in [Request -> Request \cup {"none", "lost", "conflict"}]

Init ==
  /\ now = 0
  /\ call = [r \in Request |-> NoCall]
  /\ tx = [r \in Request |-> Closed]
  /\ record = [s \in Key |-> Free]
  /\ effects = {}
  /\ answer = [r \in Request |-> "none"]

-----------------------------------------------------------------------------
(* A call arrives and its transaction begins. *)
Submit(r, c) ==
  /\ call[r] = NoCall
  /\ call' = [call EXCEPT ![r] = c]
  /\ tx' = [tx EXCEPT ![r] = [phase |-> "open", at |-> now, tries |-> 1]]
  /\ UNCHANGED <<now, record, effects, answer>>

(* The transaction is over and the client hears a, or nothing. *)
Close(r, a) ==
  /\ tx' = [tx EXCEPT ![r] = Closed]
  /\ \E heard \in {a, "lost"} : answer' = [answer EXCEPT ![r] = heard]

(* Another transaction has written the row and has not committed: wait. *)
Locked(s) == \E q \in Request : tx[q].phase = "claimed" /\ call[q].scope = s

(* The row is there and has not expired at t (expires_at <= now()). *)
Current(s, t) == record[s] # Free /\ record[s].expires > t

(* replay's statement can run: r's call has a key and the row is free. *)
AtRow(r) ==
  /\ tx[r].phase = "open"
  /\ call[r].scope # NoKey
  /\ ~Locked(call[r].scope)

(* replay returned None: no row, an expired one, or one that was never     *)
(* completed for the same request.                                         *)
Claimable(r) ==
  LET row == record[call[r].scope]
  IN Current(call[r].scope, tx[r].at) =>
       row.digest = call[r].digest /\ row.status = 0

Claim(r) ==
  /\ tx[r].phase = "open"
  /\ call[r].scope # NoKey => AtRow(r) /\ Claimable(r)
  /\ tx' = [tx EXCEPT ![r].phase = "claimed"]
  /\ UNCHANGED <<now, call, record, effects, answer>>

(* replay raised 409. *)
Conflict(r) ==
  /\ AtRow(r)
  /\ Current(call[r].scope, tx[r].at)
  /\ record[call[r].scope].digest # call[r].digest
  /\ Close(r, "conflict")
  /\ UNCHANGED <<now, call, record, effects>>

(* replay returned the stored response.  (Mutated form: whatever the       *)
(* request said.)                                                          *)
ReplayUnchecked(r) ==
  /\ AtRow(r)
  /\ Current(call[r].scope, tx[r].at)
  /\ record[call[r].scope].status # 0
  /\ Close(r, record[call[r].scope].body)
  /\ UNCHANGED <<now, call, record, effects>>
Replay(r) ==
  /\ AtRow(r)
  /\ Current(call[r].scope, tx[r].at)
  /\ record[call[r].scope].digest = call[r].digest
  /\ record[call[r].scope].status # 0
  /\ Close(r, record[call[r].scope].body)
  /\ UNCHANGED <<now, call, record, effects>>

(* The row the claim and then store leave in the transaction.  (Mutated    *)
(* form: the handler returns without store.)                               *)
NeverStored(r) ==
  [digest |-> call[r].digest, status |-> 0, body |-> r,
   expires |-> tx[r].at + Window]
Stored(r) ==
  [digest |-> call[r].digest, status |-> 200, body |-> r,
   expires |-> tx[r].at + Window]

(* The writes, the response and the claim commit as one. *)
Commit(r) ==
  /\ tx[r].phase = "claimed"
  /\ record' = IF call[r].scope = NoKey THEN record
               ELSE [record EXCEPT ![call[r].scope] = Stored(r)]
  /\ effects' = effects \cup
       {[by |-> r, scope |-> call[r].scope, at |-> tx[r].at, done |-> now]}
  /\ Close(r, r)
  /\ UNCHANGED <<now, call>>

(* retry_serialization: 40001 rolls back, the next attempt begins now.     *)
(* (Mutated forms: one attempt too many; attempts are not counted.)        *)
RetryOnceMore(r) ==
  /\ tx[r].phase # "closed"
  /\ tx[r].tries <= MaxRetries
  /\ tx' = [tx EXCEPT ![r] =
              [phase |-> "open", at |-> now, tries |-> @.tries + 1]]
  /\ UNCHANGED <<now, call, record, effects, answer>>
RetryForever(r) ==
  /\ tx[r].phase # "closed"
  /\ tx' = [tx EXCEPT ![r] = [phase |-> "open", at |-> now, tries |-> @.tries]]
  /\ UNCHANGED <<now, call, record, effects, answer>>
Retry(r) ==
  /\ tx[r].phase # "closed"
  /\ tx[r].tries < MaxRetries
  /\ tx' = [tx EXCEPT ![r] =
              [phase |-> "open", at |-> now, tries |-> @.tries + 1]]
  /\ UNCHANGED <<now, call, record, effects, answer>>

(* The handler refuses, the attempts run out or the process dies.          *)
(* (Mutated form: the claim was committed on its own, and stays.)          *)
RollbackKeepsClaim(r) ==
  /\ tx[r].phase # "closed"
  /\ Close(r, "lost")
  /\ record' = IF tx[r].phase # "claimed" \/ call[r].scope = NoKey THEN record
               ELSE [record EXCEPT ![call[r].scope] =
                       [digest |-> call[r].digest, status |-> 0, body |-> r,
                        expires |-> tx[r].at + Window]]
  /\ UNCHANGED <<now, call, effects>>
Rollback(r) ==
  /\ tx[r].phase # "closed"
  /\ Close(r, "lost")
  /\ UNCHANGED <<now, call, record, effects>>

(* The TTL job deletes an expired row no transaction holds.  (Mutated      *)
(* form: any row.)                                                         *)
DropAny(s) ==
  /\ record[s] # Free
  /\ ~Locked(s)
  /\ record' = [record EXCEPT ![s] = Free]
  /\ UNCHANGED <<now, call, tx, effects, answer>>
DropExpired(s) ==
  /\ record[s] # Free /\ ~Current(s, now)
  /\ ~Locked(s)
  /\ record' = [record EXCEPT ![s] = Free]
  /\ UNCHANGED <<now, call, tx, effects, answer>>

Tick ==
  /\ now < MaxNow
  /\ now' = now + 1
  /\ UNCHANGED <<call, tx, record, effects, answer>>

-----------------------------------------------------------------------------
Handle(r) == Claim(r) \/ Conflict(r) \/ Replay(r) \/ Commit(r)

Next ==
  \/ \E r \in Request, c \in Call : Submit(r, c)
  \/ \E r \in Request : Handle(r) \/ Retry(r) \/ Rollback(r)
  \/ \E s \in Key : DropExpired(s)
  \/ Tick

Spec == Init /\ [][Next]_vars

(* A transaction that can go on does. *)
FairSpec == Spec /\ \A r \in Request : WF_vars(Handle(r))

-----------------------------------------------------------------------------
(* Properties. *)

(* A key takes effect once in its window: of two committed writes under    *)
(* one key, one was committed only after the window of the other one had   *)
(* passed, however the calls, the retries and the TTL job interleave.      *)
OncePerWindow ==
  \A e, f \in effects :
    e # f /\ e.scope = f.scope /\ e.scope # NoKey =>
      e.at + Window <= f.done \/ f.at + Window <= e.done

(* A client is told only of an effect its own request had: the answer      *)
(* names a committed write of the same key and the same request digest, so *)
(* no answer comes from a rolled-back attempt or another request's row.    *)
AnswersAreTrue ==
  \A r \in Request : answer[r] \in Request =>
    /\ \E e \in effects : e.by = answer[r] /\ e.scope = call[r].scope
    /\ call[answer[r]].digest = call[r].digest
    /\ call[r].scope = NoKey => answer[r] = r

(* A 409 is owed to a committed write of another request under the key,    *)
(* never to a placeholder whose own transaction was rolled back.           *)
ConflictsAreReal ==
  \A r \in Request : answer[r] = "conflict" =>
    \E e \in effects :
      e.scope = call[r].scope /\ call[e.by].digest # call[r].digest

(* No call waits forever behind the claim of another one. *)
EveryCallEnds == \A r \in Request : tx[r].phase # "closed" ~> tx[r].phase = "closed"

(* The transactional handling of keys implements the one-step promise.     *)
Promise == INSTANCE Once WITH
  kept <- [s \in Key |->
             IF record[s] = Free THEN Free
             ELSE [digest |-> record[s].digest, by |-> record[s].body,
                   expires |-> record[s].expires]]
KeepsPromise == Promise!Spec
=============================================================================
