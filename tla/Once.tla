-------------------------------- MODULE Once --------------------------------
(***************************************************************************)
(* What an Idempotency-Key promises a client, as one step per call: no     *)
(* transactions, locks or retries.  A call under a key either takes        *)
(* effect, or is told what the key's effect told, or is refused because    *)
(* the key was spent on another request.  An answer may get lost on its    *)
(* way.  The key binds for Window, counted from a timestamp that is never  *)
(* later than the effect.  Module Idempotency implements it.               *)
(***************************************************************************)
EXTENDS Integers

CONSTANTS
  Request,   \* single calls; a client that asks again makes another one
  Key,       \* what a key is scoped by: tenant, principal, method, path, key
  Digest,    \* canonical hashes of request bodies
  Window,    \* how long a key binds: 24 hours
  NoKey,     \* a call without an Idempotency-Key
  NoCall,    \* a call not made yet
  Free       \* a key that binds nobody

VARIABLES
  now,      \* the clock
  call,     \* what each call asks for
  kept,     \* per key: the effect it is bound to
  effects,  \* every write that took effect, and when
  answer    \* per call: the call whose effect it was told of, or a word

vars == <<now, call, kept, effects, answer>>

Init ==
  /\ now = 0
  /\ call = [r \in Request |-> NoCall]
  /\ kept = [s \in Key |-> Free]
  /\ effects = {}
  /\ answer = [r \in Request |-> "none"]

Submit(r) ==
  /\ call[r] = NoCall
  /\ \E c \in [scope : Key \cup {NoKey}, digest : Digest] :
       call' = [call EXCEPT ![r] = c]
  /\ UNCHANGED <<now, kept, effects, answer>>

Unanswered(r) == call[r] # NoCall /\ answer[r] = "none"

(* The client hears a, or nothing. *)
Tell(r, a) == \E heard \in {a, "lost"} : answer' = [answer EXCEPT ![r] = heard]

(* The key binds at time t. *)
Binds(s, t) == kept[s] # Free /\ t < kept[s].expires

Perform(r) ==
  /\ Unanswered(r)
  /\ Tell(r, r)
  /\ \E t \in 0 .. now :
       /\ effects' = effects \cup
            {[by |-> r, scope |-> call[r].scope, at |-> t, done |-> now]}
       /\ IF call[r].scope = NoKey THEN kept' = kept
          ELSE /\ ~Binds(call[r].scope, t)
               /\ kept' = [kept EXCEPT ![call[r].scope] =
                    [digest |-> call[r].digest, by |-> r, expires |-> t + Window]]
  /\ UNCHANGED <<now, call>>

Replay(r) ==
  /\ Unanswered(r)
  /\ call[r].scope # NoKey
  /\ \E t \in 0 .. now : Binds(call[r].scope, t)
  /\ kept[call[r].scope].digest = call[r].digest
  /\ Tell(r, kept[call[r].scope].by)
  /\ UNCHANGED <<now, call, kept, effects>>

Conflict(r) ==
  /\ Unanswered(r)
  /\ call[r].scope # NoKey
  /\ \E t \in 0 .. now : Binds(call[r].scope, t)
  /\ kept[call[r].scope].digest # call[r].digest
  /\ Tell(r, "conflict")
  /\ UNCHANGED <<now, call, kept, effects>>

(* Refused or failed, without a trace. *)
Fail(r) ==
  /\ Unanswered(r)
  /\ Tell(r, "lost")
  /\ UNCHANGED <<now, call, kept, effects>>

Forget(s) ==
  /\ kept[s] # Free /\ ~Binds(s, now)
  /\ kept' = [kept EXCEPT ![s] = Free]
  /\ UNCHANGED <<now, call, effects, answer>>

Tick == now' = now + 1 /\ UNCHANGED <<call, kept, effects, answer>>

Next ==
  \/ \E r \in Request :
       Submit(r) \/ Perform(r) \/ Replay(r) \/ Conflict(r) \/ Fail(r)
  \/ \E s \in Key : Forget(s)
  \/ Tick

Spec == Init /\ [][Next]_vars
=============================================================================
