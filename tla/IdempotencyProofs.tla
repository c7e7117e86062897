------------------------- MODULE IdempotencyProofs -------------------------
(***************************************************************************)
(* Theorems about Idempotency, for any number of calls and keys, any       *)
(* window and any number of attempts.                                      *)
(*                                                                         *)
(* The row of a key is the only memory of what was done under it, and the  *)
(* TTL job forgets it.  So the invariant says what the row and the clock   *)
(* remember together: an effect whose window is not over is remembered by  *)
(* a row that outlives the window (Remembered), and whoever has claimed    *)
(* the row did so when it bound nobody, which stays so while the claim     *)
(* holds the row (ClaimsStand).                                            *)
(***************************************************************************)
EXTENDS Idempotency, TLAPS

(* An open transaction belongs to a call that was not answered, and began  *)
(* in the past.                                                            *)
OpenCalls ==
  \A r \in Request :
    /\ tx[r].phase # "closed" =>
         call[r] # NoCall /\ answer[r] = "none" /\ tx[r].at <= now
    /\ call[r] = NoCall => answer[r] = "none"

ClaimsStand ==
  \A r \in Request : tx[r].phase = "claimed" /\ call[r].scope # NoKey =>
    /\ ~Current(call[r].scope, tx[r].at)
    /\ \A q \in Request :
         tx[q].phase = "claimed" /\ call[q].scope = call[r].scope => q = r

(* A committed row is complete and tells of an effect under its key. *)
RowsAreComplete ==
  \A s \in Key : record[s] # Free =>
    /\ record[s].status = 200
    /\ call[record[s].body] # NoCall
    /\ call[record[s].body].digest = record[s].digest
    /\ \E e \in effects : e.by = record[s].body /\ e.scope = s

EffectsAreCalls ==
  \A e \in effects :
    call[e.by] # NoCall /\ call[e.by].scope = e.scope /\ e.done <= now

Remembered ==
  \A e \in effects : e.scope # NoKey =>
    \/ e.at + Window <= now
    \/ record[e.scope] # Free /\ e.at + Window <= record[e.scope].expires

KeyInv ==
  /\ TypeOK
  /\ OpenCalls
  /\ ClaimsStand
  /\ RowsAreComplete
  /\ EffectsAreCalls
  /\ Remembered
  /\ OncePerWindow
  /\ AnswersAreTrue
  /\ ConflictsAreReal

-----------------------------------------------------------------------------
(* What a call that is being handled looks like. *)
LEMMA CallTyped ==
  ASSUME TypeOK, NEW r \in Request, call[r] # NoCall
  PROVE  /\ call[r] \in Call
         /\ call[r].digest \in Digest
         /\ call[r].scope \in Key \cup {NoKey}
  BY DEF TypeOK, Call

LEMMA RowTyped ==
  ASSUME TypeOK, NEW s \in Key, record[s] # Free
  PROVE  /\ record[s] \in Record
         /\ record[s].body \in Request /\ record[s].digest \in Digest
         /\ record[s].expires \in Nat
  BY DEF TypeOK, Record

LEMMA TxTyped ==
  ASSUME TypeOK, NEW r \in Request
  PROVE  /\ tx[r].phase \in {"closed", "open", "claimed"}
         /\ tx[r].at \in Nat /\ tx[r].tries \in 0 .. MaxRetries
  BY DEF TypeOK

(* The end of a transaction touches one call only. *)
LEMMA CloseEffect ==
  ASSUME TypeOK, NEW r \in Request, NEW a \in Request \cup {"lost", "conflict"},
         Close(r, a)
  PROVE  /\ tx' \in [Request -> [phase : {"closed", "open", "claimed"},
                                 at : Nat, tries : 0 .. MaxRetries]]
         /\ answer' \in [Request -> Request \cup {"none", "lost", "conflict"}]
         /\ tx'[r].phase = "closed"
         /\ answer'[r] \in {a, "lost"}
         /\ \A q \in Request : q # r => tx'[q] = tx[q] /\ answer'[q] = answer[q]
<1>1. Closed \in [phase : {"closed", "open", "claimed"},
                  at : Nat, tries : 0 .. MaxRetries] /\ Closed.phase = "closed"
  BY IdempotencyConstants DEF Closed
<1>2. tx' = [tx EXCEPT ![r] = Closed]
  BY DEF Close
<1>3. PICK heard \in {a, "lost"} : answer' = [answer EXCEPT ![r] = heard]
  BY DEF Close
<1>4. QED BY <1>1, <1>2, <1>3 DEF TypeOK

-----------------------------------------------------------------------------
(* Types, and which calls are open: neither is inductive without the other. *)
LEMMA TypeStep == TypeOK /\ OpenCalls /\ [Next]_vars => TypeOK' /\ OpenCalls'
<1> DEFINE Goal == TypeOK /\ OpenCalls
<1> SUFFICES ASSUME TypeOK, OpenCalls, [Next]_vars PROVE Goal'
  OBVIOUS
<1>0. \A r \in Request : tx[r].at \in Nat
  BY TxTyped
<1>1. CASE UNCHANGED vars
  BY <1>1 DEF vars, TypeOK, OpenCalls
<1>2. ASSUME NEW r \in Request, NEW c \in Call, Submit(r, c) PROVE Goal'
  <2>1. TypeOK'
    BY <1>2, IdempotencyConstants DEF Submit, TypeOK
  <2>2. OpenCalls'
    BY <1>2, IdempotencyConstants DEF Submit, TypeOK, OpenCalls
  <2>3. QED BY <2>1, <2>2
<1>3. ASSUME NEW r \in Request, Claim(r) PROVE Goal'
  <2>1. [tx[r] EXCEPT !.phase = "claimed"]
          \in [phase : {"closed", "open", "claimed"}, at : Nat, tries : 0 .. MaxRetries]
    BY DEF TypeOK
  <2>2. TypeOK'
    BY <1>3, <2>1 DEF Claim, TypeOK
  <2>3. OpenCalls'
    BY <1>3 DEF Claim, TypeOK, OpenCalls
  <2>4. QED BY <2>2, <2>3
<1>4. ASSUME NEW r \in Request, NEW a \in Request \cup {"lost", "conflict"},
             Close(r, a), tx[r].phase # "closed", now' = now, call' = call,
             record' \in [Key -> Record \cup {Free}],
             effects' \subseteq [by : Request, scope : Key \cup {NoKey},
                                 at : Nat, done : Nat]
      PROVE  Goal'
  <2>1. TypeOK'
    BY <1>4, CloseEffect DEF TypeOK
  <2>2. \A q \in Request : q # r => tx'[q] = tx[q] /\ answer'[q] = answer[q]
    BY <1>4, CloseEffect
  <2>3. tx'[r].phase = "closed"
    BY <1>4, CloseEffect
  <2>4. OpenCalls'
    BY <1>4, <2>2, <2>3 DEF OpenCalls
  <2>5. QED BY <2>1, <2>4
<1>5. ASSUME NEW r \in Request, Conflict(r) PROVE Goal'
  BY <1>4, <1>5 DEF Conflict, AtRow, TypeOK
<1>6. ASSUME NEW r \in Request, Replay(r) PROVE Goal'
  <2>1. tx[r].phase = "open" /\ call[r].scope # NoKey /\ record[call[r].scope] # Free
    BY <1>6 DEF Replay, AtRow, Current
  <2>2. call[r].scope \in Key
    BY <2>1, CallTyped DEF OpenCalls
  <2>3. record[call[r].scope].body \in Request
    BY <2>1, <2>2, RowTyped
  <2>4. QED BY <1>4, <1>6, <2>1, <2>3 DEF Replay, TypeOK
<1>7. ASSUME NEW r \in Request, Commit(r) PROVE Goal'
  <2>1. tx[r].phase = "claimed"
    BY <1>7 DEF Commit
  <2>2. call[r].digest \in Digest /\ call[r].scope \in Key \cup {NoKey}
    BY <2>1, CallTyped DEF OpenCalls
  <2>3. tx[r].at + Window \in Nat
    BY <1>0, IdempotencyConstants
  <2>4. Stored(r) \in Record
    BY <2>2, <2>3 DEF Stored, Record
  <2>5. record' \in [Key -> Record \cup {Free}]
    BY <1>7, <2>4 DEF Commit, TypeOK
  <2>6. effects' \subseteq [by : Request, scope : Key \cup {NoKey}, at : Nat, done : Nat]
    BY <1>0, <1>7, <2>2 DEF Commit, TypeOK
  <2>7. QED BY <1>4, <1>7, <2>1, <2>5, <2>6 DEF Commit
<1>8. ASSUME NEW r \in Request, Retry(r) PROVE Goal'
  <2>1. [phase |-> "open", at |-> now, tries |-> tx[r].tries + 1]
          \in [phase : {"closed", "open", "claimed"}, at : Nat, tries : 0 .. MaxRetries]
    BY <1>8, TxTyped, IdempotencyConstants DEF Retry, TypeOK
  <2>2. TypeOK'
    BY <1>8, <2>1 DEF Retry, TypeOK
  <2>3. OpenCalls'
    BY <1>8 DEF Retry, TypeOK, OpenCalls
  <2>4. QED BY <2>2, <2>3
<1>9. ASSUME NEW r \in Request, Rollback(r) PROVE Goal'
  BY <1>4, <1>9 DEF Rollback, TypeOK
<1>10. ASSUME NEW s \in Key, DropExpired(s) PROVE Goal'
  BY <1>10 DEF DropExpired, TypeOK, OpenCalls
<1>11. CASE Tick
  BY <1>0, <1>11 DEF Tick, TypeOK, OpenCalls
<1>12. QED BY <1>1, <1>2, <1>3, <1>5, <1>6, <1>7, <1>8, <1>9, <1>10, <1>11
         DEF Next, Handle

(* The protocol's variables keep their types for any number of calls.      *)
THEOREM KeysTypeCorrect == Spec => []TypeOK
<1>1. Init => TypeOK /\ OpenCalls
  BY IdempotencyConstants DEF Init, TypeOK, OpenCalls, Closed
<1>2. QED BY <1>1, TypeStep, PTL DEF Spec

-----------------------------------------------------------------------------
(* A claim holds while nobody else can write its row. *)
LEMMA ClaimOwnsRow ==
  ASSUME KeyInv, NEW r \in Request, tx[r].phase = "claimed", call[r].scope # NoKey
  PROVE  /\ call[r].scope \in Key
         /\ record[call[r].scope] # Free => record[call[r].scope].expires <= tx[r].at
         /\ tx[r].at <= now /\ answer[r] = "none" /\ call[r] # NoCall
<1>1. call[r] # NoCall /\ answer[r] = "none" /\ tx[r].at <= now
  BY DEF KeyInv, OpenCalls
<1>2. call[r].scope \in Key
  BY <1>1, CallTyped DEF KeyInv
<1>3. ~Current(call[r].scope, tx[r].at)
  BY DEF KeyInv, ClaimsStand
<1>4. record[call[r].scope] # Free =>
        record[call[r].scope].expires \in Nat /\ tx[r].at \in Nat
  BY <1>2, RowTyped, TxTyped DEF KeyInv
<1>5. QED BY <1>1, <1>2, <1>3, <1>4 DEF Current

LEMMA SubmitKeepsInv ==
  ASSUME KeyInv, TypeOK', OpenCalls', NEW r \in Request, NEW c \in Call, Submit(r, c)
  PROVE  KeyInv'
<1>1. /\ call[r] = NoCall /\ tx'[r].phase = "open"
      /\ \A q \in Request : q # r => tx'[q] = tx[q] /\ call'[q] = call[q]
      /\ now' = now /\ record' = record /\ effects' = effects /\ answer' = answer
  BY DEF Submit, KeyInv, TypeOK
<1>2. \A q \in Request : call[q] # NoCall => q # r /\ call'[q] = call[q]
  BY <1>1
<1>3. ClaimsStand'
  BY <1>1 DEF KeyInv, ClaimsStand, Current
<1>4. RowsAreComplete'
  <2>1. \A s \in Key : record[s] # Free => record[s].body \in Request
    BY RowTyped DEF KeyInv
  <2>2. QED BY <1>1, <1>2, <2>1 DEF KeyInv, RowsAreComplete
<1>5. \A e \in effects : e.by \in Request
  BY DEF KeyInv, TypeOK
<1>6. EffectsAreCalls'
  BY <1>1, <1>2, <1>5 DEF KeyInv, EffectsAreCalls
<1>7. Remembered' /\ OncePerWindow'
  BY <1>1 DEF KeyInv, Remembered, OncePerWindow
<1>8. \A q \in Request : answer[q] # "none" => call[q] # NoCall
  BY DEF KeyInv, OpenCalls
<1>9. AnswersAreTrue'
  <2>1. \A q \in Request : answer[q] \in Request =>
          q # r /\ answer[q] # r
    BY <1>1, <1>8, IdempotencyConstants DEF KeyInv, AnswersAreTrue, EffectsAreCalls
  <2>2. QED BY <1>1, <2>1 DEF KeyInv, AnswersAreTrue
<1>10. ConflictsAreReal'
  <2>1. \A q \in Request : answer[q] = "conflict" => q # r
    BY <1>1, <1>8
  <2>2. \A e \in effects : e.by # r
    BY <1>1 DEF KeyInv, EffectsAreCalls
  <2>3. QED BY <1>1, <1>5, <2>1, <2>2 DEF KeyInv, ConflictsAreReal
<1>11. QED BY <1>3, <1>4, <1>6, <1>7, <1>9, <1>10 DEF KeyInv

LEMMA ClaimKeepsInv ==
  ASSUME KeyInv, TypeOK', OpenCalls', NEW r \in Request, Claim(r)
  PROVE  KeyInv'
<1>1. /\ tx[r].phase = "open" /\ tx'[r].phase = "claimed" /\ tx'[r].at = tx[r].at
      /\ \A q \in Request : q # r => tx'[q] = tx[q]
      /\ now' = now /\ call' = call /\ record' = record
      /\ effects' = effects /\ answer' = answer
  BY DEF Claim, KeyInv, TypeOK
<1>2. ASSUME call[r].scope # NoKey
      PROVE  /\ ~Current(call[r].scope, tx[r].at)
             /\ \A q \in Request : tx[q].phase = "claimed" => call[q].scope # call[r].scope
  <2>1. AtRow(r) /\ Claimable(r)
    BY <1>2 DEF Claim
  <2>2. call[r].scope \in Key
    BY <1>1, <1>2, CallTyped DEF KeyInv, OpenCalls
  <2>3. record[call[r].scope] # Free => record[call[r].scope].status # 0
    BY <2>2 DEF KeyInv, RowsAreComplete
  <2>4. QED BY <2>1, <2>3 DEF Claimable, AtRow, Locked, Current
<1>3. ClaimsStand'
  BY <1>1, <1>2 DEF KeyInv, ClaimsStand, Current
<1>4. RowsAreComplete' /\ EffectsAreCalls' /\ Remembered' /\ OncePerWindow'
  BY <1>1 DEF KeyInv, RowsAreComplete, EffectsAreCalls, Remembered, OncePerWindow
<1>5. AnswersAreTrue' /\ ConflictsAreReal'
  BY <1>1 DEF KeyInv, AnswersAreTrue, ConflictsAreReal
<1>6. QED BY <1>3, <1>4, <1>5 DEF KeyInv

(* A transaction that ends without a write: a refusal, an answer of the    *)
(* row or a failure.                                                       *)
LEMMA EndKeepsInv ==
  ASSUME KeyInv, TypeOK', OpenCalls', NEW r \in Request,
         NEW a \in Request \cup {"lost", "conflict"}, Close(r, a),
         UNCHANGED <<now, call, record, effects>>,
         a \in Request =>
           /\ \E e \in effects : e.by = a /\ e.scope = call[r].scope
           /\ call[a].digest = call[r].digest
           /\ call[r].scope = NoKey => a = r,
         a = "conflict" =>
           \E e \in effects :
             e.scope = call[r].scope /\ call[e.by].digest # call[r].digest
  PROVE  KeyInv'
<1>1. /\ tx'[r].phase = "closed" /\ answer'[r] \in {a, "lost"}
      /\ \A q \in Request : q # r => tx'[q] = tx[q] /\ answer'[q] = answer[q]
  BY CloseEffect DEF KeyInv
<1>2. ClaimsStand'
  BY <1>1 DEF KeyInv, ClaimsStand, Current
<1>3. RowsAreComplete' /\ EffectsAreCalls' /\ Remembered' /\ OncePerWindow'
  BY DEF KeyInv, RowsAreComplete, EffectsAreCalls, Remembered, OncePerWindow
<1>4. AnswersAreTrue'
  <2>1. answer'[r] \in Request => answer'[r] = a /\ a \in Request
    BY <1>1, IdempotencyConstants
  <2>2. QED BY <1>1, <2>1 DEF KeyInv, AnswersAreTrue
<1>5. ConflictsAreReal'
  <2>1. answer'[r] = "conflict" => a = "conflict"
    BY <1>1, IdempotencyConstants
  <2>2. QED BY <1>1, <2>1 DEF KeyInv, ConflictsAreReal
<1>6. QED BY <1>2, <1>3, <1>4, <1>5 DEF KeyInv

(* The row a call is answered from. *)
LEMMA RowAtRow ==
  ASSUME KeyInv, NEW r \in Request, AtRow(r), Current(call[r].scope, tx[r].at)
  PROVE  LET row == record[call[r].scope]
         IN /\ call[r].scope \in Key /\ call[r].scope # NoKey
            /\ row.body \in Request
            /\ call[row.body].digest = row.digest
            /\ \E e \in effects : e.by = row.body /\ e.scope = call[r].scope
<1>1. call[r].scope \in Key /\ call[r].scope # NoKey
  BY CallTyped DEF AtRow, KeyInv, OpenCalls
<1>2. record[call[r].scope] # Free
  BY DEF Current
<1>3. QED BY <1>1, <1>2, RowTyped DEF KeyInv, RowsAreComplete

(* The commit: the one step that has an effect. *)
LEMMA CommitKeepsInv ==
  ASSUME KeyInv, TypeOK', OpenCalls', NEW r \in Request, Commit(r)
  PROVE  KeyInv'
<1> DEFINE s == call[r].scope
           f == [by |-> r, scope |-> s, at |-> tx[r].at, done |-> now]
<1>1. /\ tx[r].phase = "claimed" /\ now' = now /\ call' = call
      /\ effects' = effects \cup {f}
      /\ record' = IF s = NoKey THEN record ELSE [record EXCEPT ![s] = Stored(r)]
  BY DEF Commit
<1>2. /\ tx'[r].phase = "closed" /\ answer'[r] \in {r, "lost"}
      /\ \A q \in Request : q # r => tx'[q] = tx[q] /\ answer'[q] = answer[q]
  BY CloseEffect DEF Commit, KeyInv
<1>3. call[r] # NoCall /\ tx[r].at \in Nat /\ tx[r].at <= now /\ now \in Nat
  BY <1>1, TxTyped DEF KeyInv, OpenCalls, TypeOK
<1>4. s # NoKey => s \in Key
  BY <1>3, CallTyped DEF KeyInv
<1>5. /\ Stored(r).status = 200 /\ Stored(r).body = r
      /\ Stored(r).digest = call[r].digest /\ Stored(r).expires = tx[r].at + Window
      /\ s # NoKey => record'[s] = Stored(r)
      /\ \A k \in Key : k # s => record'[k] = record[k]
  BY <1>1, <1>4 DEF Stored, KeyInv, TypeOK
<1>6. s # NoKey => record'[s] # Free
  BY <1>4, <1>3, <1>5, CallTyped, IdempotencyConstants DEF Stored, Record, KeyInv
<1>7. \A e \in effects :
        /\ e.at \in Nat /\ e.done \in Nat /\ e.by \in Request
        /\ e.scope \in Key \cup {NoKey}
  BY DEF KeyInv, TypeOK
<1>8. \A e \in effects : e.scope = s /\ s # NoKey => e.at + Window <= now
  <2>1. ASSUME NEW e \in effects, e.scope = s, s # NoKey PROVE e.at + Window <= now
    <3>1. CASE e.at + Window <= now
      BY <3>1
    <3>2. CASE record[s] # Free /\ e.at + Window <= record[s].expires
      <4>1. record[s].expires <= tx[r].at /\ record[s].expires \in Nat
        BY <1>1, <1>4, <2>1, <3>2, ClaimOwnsRow, RowTyped DEF KeyInv
      <4>2. QED BY <1>3, <1>7, <2>1, <3>2, <4>1, IdempotencyConstants
    <3>3. QED BY <2>1, <3>1, <3>2 DEF KeyInv, Remembered
  <2>2. QED BY <2>1
<1>9. ClaimsStand'
  <2>1. \A q \in Request : tx'[q].phase = "claimed" => q # r
    BY <1>2
  <2>2. \A q \in Request : tx'[q].phase = "claimed" /\ call[q].scope # NoKey =>
          call[q].scope # s /\ call[q].scope \in Key
    <3>1. ASSUME NEW q \in Request, tx'[q].phase = "claimed", call[q].scope # NoKey
          PROVE  call[q].scope # s /\ call[q].scope \in Key
      <4>1. tx[q].phase = "claimed" /\ q # r
        BY <1>2, <2>1, <3>1
      <4>2. call[q].scope \in Key
        BY <3>1, <4>1, ClaimOwnsRow
      <4>3. call[q].scope # s
        BY <1>1, <3>1, <4>1 DEF KeyInv, ClaimsStand
      <4>4. QED BY <4>2, <4>3
    <3>2. QED BY <3>1
  <2>3. QED BY <1>1, <1>2, <1>5, <2>1, <2>2 DEF KeyInv, ClaimsStand, Current
<1>10. RowsAreComplete'
  <2>1. ASSUME NEW k \in Key, record'[k] # Free
        PROVE  /\ record'[k].status = 200 /\ call[record'[k].body] # NoCall
               /\ call[record'[k].body].digest = record'[k].digest
               /\ \E e \in effects' : e.by = record'[k].body /\ e.scope = k
    <3>1. CASE record'[k] = record[k]
      BY <1>1, <2>1, <3>1 DEF KeyInv, RowsAreComplete
    <3>2. CASE k = s /\ record'[k] = Stored(r)
      <4>1. f \in effects' /\ f.by = r /\ f.scope = s
        BY <1>1
      <4>2. record'[k].status = 200 /\ record'[k].body = r
              /\ record'[k].digest = call[r].digest
        BY <1>5, <3>2
      <4>3. QED BY <1>3, <3>2, <4>1, <4>2
    <3>3. QED BY <1>5, <3>1, <3>2, IdempotencyConstants
  <2>2. QED BY <1>1, <2>1 DEF RowsAreComplete
<1>11. EffectsAreCalls'
  BY <1>1, <1>3 DEF KeyInv, EffectsAreCalls
<1>12. Remembered'
  <2>1. ASSUME NEW e \in effects', e.scope # NoKey
        PROVE  \/ e.at + Window <= now
               \/ record'[e.scope] # Free /\ e.at + Window <= record'[e.scope].expires
    <3>1. CASE e = f
      BY <1>3, <1>5, <1>6, <2>1, <3>1, IdempotencyConstants
    <3>2. CASE e \in effects /\ e.scope = s
      BY <1>8, <2>1, <3>2
    <3>3. CASE e \in effects /\ e.scope # s
      BY <1>5, <1>7, <2>1, <3>3 DEF KeyInv, Remembered
    <3>4. QED BY <1>1, <3>1, <3>2, <3>3
  <2>2. QED BY <1>1, <2>1 DEF Remembered
<1>13. OncePerWindow'
  BY <1>1, <1>8 DEF KeyInv, OncePerWindow
<1>14. AnswersAreTrue'
  <2>1. ASSUME NEW q \in Request, answer'[q] \in Request
        PROVE  /\ \E e \in effects' : e.by = answer'[q] /\ e.scope = call[q].scope
               /\ call[answer'[q]].digest = call[q].digest
               /\ call[q].scope = NoKey => answer'[q] = q
    <3>1. CASE q = r
      <4>1. answer'[q] = r
        BY <1>2, <2>1, <3>1, IdempotencyConstants
      <4>2. f \in effects' /\ f.by = r /\ f.scope = s
        BY <1>1
      <4>3. QED BY <1>1, <3>1, <4>1, <4>2
    <3>2. CASE q # r
      BY <1>1, <1>2, <2>1, <3>2 DEF KeyInv, AnswersAreTrue
    <3>3. QED BY <3>1, <3>2
  <2>2. QED BY <1>1, <2>1 DEF AnswersAreTrue
<1>15. ConflictsAreReal'
  BY <1>1, <1>2, IdempotencyConstants DEF KeyInv, ConflictsAreReal
<1>16. QED BY <1>9, <1>10, <1>11, <1>12, <1>13, <1>14, <1>15 DEF KeyInv

LEMMA KeyInvStep == KeyInv /\ [Next]_vars => KeyInv'
<1> SUFFICES ASSUME KeyInv, [Next]_vars PROVE KeyInv'
  OBVIOUS
<1>0. TypeOK' /\ OpenCalls'
  BY TypeStep DEF KeyInv
<1>1. CASE UNCHANGED vars
  BY <1>0, <1>1 DEF vars, KeyInv, ClaimsStand, RowsAreComplete, EffectsAreCalls,
     Remembered, OncePerWindow, AnswersAreTrue, ConflictsAreReal, Current
<1>2. ASSUME NEW r \in Request, NEW c \in Call, Submit(r, c) PROVE KeyInv'
  BY <1>0, <1>2, SubmitKeepsInv
<1>3. ASSUME NEW r \in Request, Claim(r) PROVE KeyInv'
  BY <1>0, <1>3, ClaimKeepsInv
<1>4. ASSUME NEW r \in Request, Conflict(r) PROVE KeyInv'
  <2>1. \E e \in effects :
          e.scope = call[r].scope /\ call[e.by].digest # call[r].digest
    BY <1>4, RowAtRow DEF Conflict
  <2>2. "conflict" \notin Request
    BY IdempotencyConstants
  <2>3. QED BY <1>0, <1>4, <2>1, <2>2, EndKeepsInv DEF Conflict
<1>5. ASSUME NEW r \in Request, Replay(r) PROVE KeyInv'
  <2> DEFINE a == record[call[r].scope].body
  <2>1. /\ a \in Request /\ a # "conflict" /\ call[r].scope # NoKey
        /\ call[a].digest = call[r].digest
        /\ \E e \in effects : e.by = a /\ e.scope = call[r].scope
    BY <1>5, RowAtRow, IdempotencyConstants DEF Replay
  <2>2. Close(r, a) /\ UNCHANGED <<now, call, record, effects>>
    BY <1>5 DEF Replay
  <2> HIDE DEF a
  <2>3. QED BY <1>0, <2>1, <2>2, EndKeepsInv
<1>6. ASSUME NEW r \in Request, Commit(r) PROVE KeyInv'
  BY <1>0, <1>6, CommitKeepsInv
<1>7. ASSUME NEW r \in Request, Retry(r) PROVE KeyInv'
  <2>1. /\ tx'[r].phase = "open" /\ \A q \in Request : q # r => tx'[q] = tx[q]
        /\ UNCHANGED <<now, call, record, effects, answer>>
    BY <1>7 DEF Retry, KeyInv, TypeOK
  <2>2. ClaimsStand'
    BY <2>1 DEF KeyInv, ClaimsStand, Current
  <2>3. QED BY <1>0, <2>1, <2>2 DEF KeyInv, RowsAreComplete, EffectsAreCalls,
               Remembered, OncePerWindow, AnswersAreTrue, ConflictsAreReal
<1>8. ASSUME NEW r \in Request, Rollback(r) PROVE KeyInv'
  <2>1. "lost" \notin Request /\ "lost" # "conflict"
    BY IdempotencyConstants
  <2>2. QED BY <1>0, <1>8, <2>1, EndKeepsInv DEF Rollback
<1>9. ASSUME NEW s \in Key, DropExpired(s) PROVE KeyInv'
  <2>1. /\ record[s] # Free /\ record[s].expires <= now
        /\ record' = [record EXCEPT ![s] = Free]
        /\ UNCHANGED <<now, call, tx, effects, answer>>
    BY <1>9, RowTyped DEF DropExpired, Current, KeyInv, TypeOK
  <2>2. record'[s] = Free /\ \A k \in Key : k # s => record'[k] = record[k]
    BY <2>1 DEF KeyInv, TypeOK
  <2>3. ClaimsStand'
    <3>1. \A r \in Request : tx[r].phase = "claimed" /\ call[r].scope # NoKey =>
            call[r].scope \in Key
      BY ClaimOwnsRow
    <3>2. QED BY <2>1, <2>2, <3>1 DEF KeyInv, ClaimsStand, Current
  <2>4. RowsAreComplete'
    BY <2>1, <2>2 DEF KeyInv, RowsAreComplete
  <2>5. Remembered'
    <3>1. ASSUME NEW e \in effects, e.scope # NoKey
          PROVE  \/ e.at + Window <= now
                 \/ record'[e.scope] # Free /\ e.at + Window <= record'[e.scope].expires
      <4>1. e.scope \in Key /\ e.at \in Nat /\ now \in Nat /\ record[s].expires \in Nat
        BY <2>1, <3>1, RowTyped DEF KeyInv, TypeOK
      <4>2. \/ e.at + Window <= now
            \/ record[e.scope] # Free /\ e.at + Window <= record[e.scope].expires
        BY <3>1 DEF KeyInv, Remembered
      <4>3. QED BY <2>1, <2>2, <4>1, <4>2, IdempotencyConstants
    <3>2. QED BY <2>1, <3>1 DEF Remembered
  <2>6. QED BY <1>0, <2>1, <2>3, <2>4, <2>5 DEF KeyInv, EffectsAreCalls,
               OncePerWindow, AnswersAreTrue, ConflictsAreReal
<1>10. CASE Tick
  <2>1. /\ now' = now + 1 /\ now \in Nat
        /\ UNCHANGED <<call, tx, record, effects, answer>>
    BY <1>10 DEF Tick, KeyInv, TypeOK
  <2>2. \A e \in effects : e.at \in Nat /\ e.done \in Nat
    BY DEF KeyInv, TypeOK
  <2>3. EffectsAreCalls' /\ Remembered'
    BY <2>1, <2>2, IdempotencyConstants DEF KeyInv, EffectsAreCalls, Remembered
  <2>4. QED BY <1>0, <2>1, <2>3 DEF KeyInv, ClaimsStand, RowsAreComplete,
               OncePerWindow, AnswersAreTrue, ConflictsAreReal, Current
<1>11. QED BY <1>1, <1>2, <1>3, <1>4, <1>5, <1>6, <1>7, <1>8, <1>9, <1>10
         DEF Next, Handle

LEMMA KeyInvHolds == Spec => []KeyInv
<1>1. Init => KeyInv
  <2> SUFFICES ASSUME Init PROVE KeyInv
    OBVIOUS
  <2>1. TypeOK /\ OpenCalls
    BY IdempotencyConstants DEF Init, TypeOK, OpenCalls, Closed
  <2>2. ClaimsStand /\ RowsAreComplete /\ EffectsAreCalls /\ Remembered
    BY DEF Init, ClaimsStand, RowsAreComplete, EffectsAreCalls, Remembered, Closed
  <2>3. OncePerWindow /\ AnswersAreTrue /\ ConflictsAreReal
    BY IdempotencyConstants DEF Init, OncePerWindow, AnswersAreTrue, ConflictsAreReal
  <2>4. QED BY <2>1, <2>2, <2>3 DEF KeyInv
<1>2. QED BY <1>1, KeyInvStep, PTL DEF Spec

(* However calls, retries, rollbacks, expiry and the TTL job interleave, a *)
(* key takes effect once in its window (idempotency.py:117-179).           *)
THEOREM KeysTakeEffectOnce == Spec => []OncePerWindow
<1>1. KeyInv => OncePerWindow
  BY DEF KeyInv
<1>2. QED BY <1>1, KeyInvHolds, PTL

(* No client is told of an effect that was rolled back, or of another      *)
(* request's (idempotency.py:172-198).                                     *)
THEOREM AnswersTellOfEffects == Spec => []AnswersAreTrue
<1>1. KeyInv => AnswersAreTrue
  BY DEF KeyInv
<1>2. QED BY <1>1, KeyInvHolds, PTL

(* A conflict is owed to a committed write (idempotency.py:172-177).       *)
THEOREM ConflictsTellOfEffects == Spec => []ConflictsAreReal
<1>1. KeyInv => ConflictsAreReal
  BY DEF KeyInv
<1>2. QED BY <1>1, KeyInvHolds, PTL

-----------------------------------------------------------------------------
(* The refinement: what a key is bound to, seen from outside. *)
Kept == [s \in Key |-> IF record[s] = Free THEN Free
                       ELSE [digest |-> record[s].digest, by |-> record[s].body,
                             expires |-> record[s].expires]]

(* A row that is current for a transaction binds at the time it began. *)
LEMMA KeptBinds ==
  ASSUME TypeOK, NEW s \in Key, NEW t
  PROVE  /\ Promise!Binds(s, t) <=> Current(s, t)
         /\ record[s] # Free => /\ Kept[s].digest = record[s].digest
                                /\ Kept[s].by = record[s].body
<1>1. CASE record[s] = Free
  BY <1>1 DEF Kept, Promise!Binds, Current
<1>2. CASE record[s] # Free
  <2>1. [digest |-> record[s].digest, by |-> record[s].body,
         expires |-> record[s].expires] # Free
    BY <1>2, RowTyped, IdempotencyConstants
  <2>2. QED BY <1>2, <2>1 DEF Kept, Promise!Binds, Current
<1>3. QED BY <1>1, <1>2

(* An open transaction is, from outside, a call still unanswered. *)
LEMMA OpenIsUnanswered ==
  ASSUME KeyInv, NEW r \in Request, tx[r].phase # "closed"
  PROVE  Promise!Unanswered(r) /\ tx[r].at \in 0 .. now
  BY TxTyped DEF KeyInv, OpenCalls, Promise!Unanswered, TypeOK

LEMMA CommitIsPerform ==
  ASSUME KeyInv, NEW r \in Request, Commit(r)
  PROVE  Promise!Perform(r)
<1> DEFINE s == call[r].scope
<1>1. tx[r].phase = "claimed" /\ call' = call /\ now' = now
  BY DEF Commit
<1>2. Promise!Unanswered(r) /\ tx[r].at \in 0 .. now
  BY <1>1, OpenIsUnanswered
<1>3. Promise!Tell(r, r)
  BY DEF Commit, Close, Promise!Tell
<1>4. effects' = effects \cup {[by |-> r, scope |-> s, at |-> tx[r].at, done |-> now]}
  BY DEF Commit
<1>5. CASE s = NoKey
  <2>1. record' = record
    BY <1>5 DEF Commit
  <2>2. Kept' = Kept
    BY <2>1 DEF Kept
  <2>3. QED BY <1>1, <1>2, <1>3, <1>4, <1>5, <2>2 DEF Kept, Promise!Perform
<1>6. CASE s # NoKey
  <2>1. s \in Key /\ ~Current(s, tx[r].at)
    BY <1>1, <1>6, ClaimOwnsRow DEF KeyInv, ClaimsStand
  <2>2. ~Promise!Binds(s, tx[r].at)
    BY <2>1, KeptBinds DEF KeyInv
  <2>3. /\ record'[s] = Stored(r) /\ \A k \in Key : k # s => record'[k] = record[k]
    BY <1>6, <2>1 DEF Commit, KeyInv, TypeOK
  <2>4. Stored(r) \in Record
    BY <1>1, CallTyped, TxTyped, IdempotencyConstants DEF Stored, Record, KeyInv, OpenCalls
  <2>5. Kept' = [Kept EXCEPT ![s] = [digest |-> call[r].digest, by |-> r,
                                     expires |-> tx[r].at + Window]]
    <3>1. Kept'[s] = [digest |-> call[r].digest, by |-> r, expires |-> tx[r].at + Window]
      <4>1. record'[s] # Free
        BY <2>3, <2>4, IdempotencyConstants
      <4>2. /\ record'[s].digest = call[r].digest /\ record'[s].body = r
            /\ record'[s].expires = tx[r].at + Window
        BY <2>3 DEF Stored
      <4>3. QED BY <2>1, <4>1, <4>2 DEF Kept
    <3>2. \A k \in Key : k # s => Kept'[k] = Kept[k]
      BY <2>3 DEF Kept
    <3>3. QED BY <3>1, <3>2 DEF Kept
  <2>6. QED BY <1>1, <1>2, <1>3, <1>4, <1>6, <2>2, <2>5 DEF Kept, Promise!Perform
<1>7. QED BY <1>5, <1>6

LEMMA StepRefines == KeyInv /\ [Next]_vars => [Promise!Next]_(Promise!vars)
<1> SUFFICES ASSUME KeyInv, [Next]_vars PROVE [Promise!Next]_(Promise!vars)
  OBVIOUS
<1>1. ASSUME UNCHANGED <<now, call, record, effects, answer>>
      PROVE  UNCHANGED Promise!vars
  BY <1>1 DEF Promise!vars
<1>2. CASE UNCHANGED vars
  BY <1>1, <1>2 DEF vars
<1>3. ASSUME NEW r \in Request, NEW c \in Call, Submit(r, c) PROVE Promise!Submit(r)
  BY <1>3 DEF Submit, Promise!Submit, Call
<1>4. ASSUME NEW r \in Request, Claim(r) \/ Retry(r) PROVE UNCHANGED Promise!vars
  BY <1>1, <1>4 DEF Claim, Retry
<1>5. ASSUME NEW r \in Request, Conflict(r) PROVE Promise!Conflict(r)
  <2>1. call[r].scope \in Key /\ call[r].scope # NoKey
    BY <1>5, RowAtRow DEF Conflict
  <2>2. Promise!Unanswered(r) /\ tx[r].at \in 0 .. now
    BY <1>5, OpenIsUnanswered DEF Conflict, AtRow
  <2>3. Promise!Binds(call[r].scope, tx[r].at)
    BY <1>5, <2>1, KeptBinds DEF Conflict, KeyInv
  <2>4. Kept[call[r].scope].digest # call[r].digest
    BY <1>5, <2>1, KeptBinds DEF Conflict, KeyInv, Current
  <2>5. Promise!Tell(r, "conflict")
    BY <1>5 DEF Conflict, Close, Promise!Tell
  <2>6. UNCHANGED <<now, call, effects>> /\ Kept' = Kept
    BY <1>5 DEF Conflict, Kept
  <2>7. QED BY <2>1, <2>2, <2>3, <2>4, <2>5, <2>6 DEF Promise!Conflict, Kept
<1>6. ASSUME NEW r \in Request, Replay(r) PROVE Promise!Replay(r)
  <2>1. call[r].scope \in Key /\ call[r].scope # NoKey
    BY <1>6, RowAtRow DEF Replay
  <2>2. Promise!Unanswered(r) /\ tx[r].at \in 0 .. now
    BY <1>6, OpenIsUnanswered DEF Replay, AtRow
  <2>3. Promise!Binds(call[r].scope, tx[r].at)
    BY <1>6, <2>1, KeptBinds DEF Replay, KeyInv
  <2>4. /\ Kept[call[r].scope].digest = call[r].digest
        /\ Kept[call[r].scope].by = record[call[r].scope].body
    BY <1>6, <2>1, KeptBinds DEF Replay, KeyInv, Current
  <2>5. Promise!Tell(r, record[call[r].scope].body)
    BY <1>6 DEF Replay, Close, Promise!Tell
  <2>6. UNCHANGED <<now, call, effects>> /\ Kept' = Kept
    BY <1>6 DEF Replay, Kept
  <2>7. QED BY <2>1, <2>2, <2>3, <2>4, <2>5, <2>6 DEF Promise!Replay, Kept
<1>7. ASSUME NEW r \in Request, Commit(r) PROVE Promise!Perform(r)
  BY <1>7, CommitIsPerform
<1>8. ASSUME NEW r \in Request, Rollback(r) PROVE Promise!Fail(r)
  <2>1. Promise!Unanswered(r)
    BY <1>8, OpenIsUnanswered DEF Rollback
  <2>2. Promise!Tell(r, "lost")
    BY <1>8 DEF Rollback, Close, Promise!Tell
  <2>3. QED BY <1>8, <2>1, <2>2 DEF Rollback, Promise!Fail
<1>9. ASSUME NEW s \in Key, DropExpired(s) PROVE Promise!Forget(s)
  <2>1. record[s] # Free /\ ~Promise!Binds(s, now)
    BY <1>9, KeptBinds DEF DropExpired, KeyInv
  <2>2. Kept[s] # Free
    BY <2>1, RowTyped, IdempotencyConstants DEF Kept, KeyInv
  <2>3. Kept' = [Kept EXCEPT ![s] = Free]
    BY <1>9 DEF DropExpired, Kept, KeyInv, TypeOK
  <2>4. QED BY <1>9, <2>1, <2>2, <2>3 DEF DropExpired, Promise!Forget, Kept
<1>10. CASE Tick
  BY <1>10 DEF Tick, Promise!Tick, Promise!Next
<1>11. QED BY <1>2, <1>3, <1>4, <1>5, <1>6, <1>7, <1>8, <1>9, <1>10
         DEF Next, Handle, Promise!Next

(* The transactional protocol implements the one-step promise, step by     *)
(* step, for any number of calls under any number of keys.                 *)
THEOREM IdempotencyKeepsPromise == Spec => KeepsPromise
<1>1. Init => Promise!Init
  BY DEF Init, Promise!Init
<1>2. QED BY <1>1, KeyInvHolds, StepRefines, PTL DEF Spec, KeepsPromise, Promise!Spec
=============================================================================
