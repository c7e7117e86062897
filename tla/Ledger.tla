------------------------------- MODULE Ledger -------------------------------
(***************************************************************************)
(* The attested ledger of one tenant: the attest gateway writes sources    *)
(* and beliefs (services/attest_gateway/app.py), an operator recants a     *)
(* source (services/quarantine/app.py), and the row-level TTL job deletes  *)
(* untrusted beliefs (db/migrations/0003_row_ttl.sql).                     *)
(*                                                                         *)
(* Each handler is one SERIALIZABLE transaction and one action; a rejected *)
(* request is no step.  The hash of a belief is injective in what it       *)
(* binds, so it is represented by the belief id.  A context receipt over   *)
(* beliefs that are all active can always be had and one over any other    *)
(* set is refused, so a receipt is represented by the set it covers.  The  *)
(* closure a recant flips is any one the engine's contract admits (module  *)
(* Closure, kept by the engine: module Taint).                             *)
(***************************************************************************)
EXTENDS Integers, FiniteSets, Closure

CONSTANTS
  Agent, Source,
  Incident,            \* incident ids (uuid)
  Content,             \* what a belief may say
  Near,                \* pairs of contents at least a threshold similar
  Verdicts,            \* relations the claim verifier may report
  Rank,                \* rank_for_trust_tier of each source's tier
  Untrusted,           \* sources of tier untrusted: their beliefs expire
  ProvenanceRequired,  \* _provenance_required()
  NoSource,            \* source_id IS NULL
  Genesis              \* chain.GENESIS

RelationKind == {"equivalent", "entails", "contradicts", "related", "unknown"}

ASSUME LedgerConstants ==
  /\ Near \subseteq Content \X Content
  /\ Verdicts \subseteq RelationKind
  /\ Rank \in [Source -> Nat]
  /\ Untrusted \subseteq Source
  /\ ProvenanceRequired \in BOOLEAN
  /\ NoSource \notin Source
  /\ Genesis \notin Belief

VARIABLES
  source,     \* sources: the beliefs that existed when it was registered
  belief,     \* beliefs
  head,       \* agents: head_seq, head_hash
  explicit,   \* derivations of kind explicit, <<parent, child>>
  inferred,   \* derivations of kind inferred, <<parent, child>>
  relation,   \* semantic_relations, <<left, right, kind>>
  incident    \* incidents with their signed action and outbox event

vars == <<source, belief, head, explicit, inferred, relation, incident>>

Status == {"active", "suspect", "quarantined", "gone"}
Row == [agent : Agent, seq : Nat, prev : Belief \cup {Genesis}, content : Content,
        source : Source \cup {NoSource}, rank : Nat, origins : SUBSET Source,
        status : Status]
Absent == [status |-> "absent"]
Unregistered == [known |-> FALSE]

Registered == {s \in Source : source[s].known}
Written == {b \in Belief : belief[b] # Absent}
Present == {b \in Written : belief[b].status # "gone"}
Active == {b \in Present : belief[b].status = "active"}
Derived == explicit \cup inferred
Opened == {i \in Incident : incident[i].open}
Recanted == {incident[i].source : i \in Opened}

TypeOK ==
  /\ source \in [Source -> [known : {TRUE}, before : SUBSET Belief] \cup {Unregistered}]
  /\ belief \in [Belief -> Row \cup {Absent}]
  /\ head \in [Agent -> [seq : Nat, hash : Belief \cup {Genesis}]]
  /\ explicit \subseteq Present \X Present
  /\ inferred \subseteq Present \X Present
  /\ relation \subseteq Present \X Present \X RelationKind
  /\ incident \in [Incident -> [open : {TRUE}, source : Source, partial : BOOLEAN,
                                flipped : SUBSET Belief] \cup {[open |-> FALSE]}]

Init ==
  /\ source = [s \in Source |-> Unregistered]
  /\ belief = [b \in Belief |-> Absent]
  /\ head = [a \in Agent |-> [seq |-> 0, hash |-> Genesis]]
  /\ explicit = {} /\ inferred = {} /\ relation = {}
  /\ incident = [i \in Incident |-> [open |-> FALSE]]

-----------------------------------------------------------------------------
(* POST /sources. *)
CreateSource(s) ==
  /\ s \notin Registered
  /\ source' = [source EXCEPT ![s] = [known |-> TRUE, before |-> Written]]
  /\ UNCHANGED <<belief, head, explicit, inferred, relation, incident>>

(* The authority of a belief: the least of its inputs, zero without any.   *)
(* (Mutated form: the source alone decides when there is one.)             *)
SourceRank(s, parents) ==
  IF s # NoSource THEN Rank[s]
  ELSE IF parents = {} THEN 0
  ELSE CHOOSE r \in {belief[p].rank : p \in parents} :
         \A p \in parents : r <= belief[p].rank
Authority(s, parents) ==
  LET inputs == {belief[p].rank : p \in parents}
                  \cup (IF s = NoSource THEN {} ELSE {Rank[s]})
  IN IF inputs = {} THEN 0 ELSE CHOOSE r \in inputs : \A q \in inputs : r <= q

Origins(s, parents) ==
  (IF s = NoSource THEN {} ELSE {s}) \cup UNION {belief[p].origins : p \in parents}

(* The status at birth.  (Mutated forms: the source's incidents are not    *)
(* looked at; only quarantined parents count.)                             *)
BornOfParents(s, parents) ==
  IF \E p \in parents : belief[p].status \in {"suspect", "quarantined"}
  THEN "suspect" ELSE "active"
BornPastSuspects(s, parents) ==
  IF s \in Recanted \/ \E p \in parents : belief[p].status = "quarantined"
  THEN "suspect" ELSE "active"
Born(s, parents) ==
  IF s \in Recanted \/ \E p \in parents : belief[p].status \in {"suspect", "quarantined"}
  THEN "suspect" ELSE "active"

(* The agent's head after a belief b. *)
Advance(a, b) == [seq |-> head[a].seq + 1, hash |-> b]

(* POST /beliefs: agent a says c, citing source s, deriving from the       *)
(* parents P it declares and from those its receipt covers, R.             *)
CreateBelief(b, a, c, s, P, R) ==
  LET parents == P \cup R
  IN /\ b \notin Written
     /\ ProvenanceRequired => R # {} \/ (P = {} /\ s # NoSource)
     /\ R # {} => P \subseteq R /\ R \subseteq Active
     /\ P \subseteq Present
     /\ s \in Registered \cup {NoSource}
     /\ belief' = [belief EXCEPT ![b] =
          [agent |-> a, seq |-> head[a].seq + 1, prev |-> head[a].hash,
           content |-> c, source |-> s, rank |-> Authority(s, parents),
           origins |-> Origins(s, parents), status |-> Born(s, parents)]]
     /\ head' = [head EXCEPT ![a] = Advance(a, b)]
     /\ explicit' = explicit \cup {<<p, b>> : p \in parents}
     /\ relation' = relation \cup
          (IF s = NoSource THEN {}
           ELSE {<<o, b, "equivalent">> :
                   o \in {x \in Present : belief[x].source # NoSource
                                            /\ belief[x].content = c}})
     /\ UNCHANGED <<source, inferred, incident>>

(* POST /semantic-relations/verify: the claim verifier's verdict replaces  *)
(* what was recorded for the ordered pair.                                 *)
VerifyRelation(l, r, kind) ==
  /\ l # r
  /\ relation' = {t \in relation : ~(t[1] = l /\ t[2] = r)} \cup {<<l, r, kind>>}
  /\ UNCHANGED <<source, belief, head, explicit, inferred, incident>>

-----------------------------------------------------------------------------
(* The pairs over which the engine infers taint when s is recanted.        *)
SaysTheSame(x, y) ==
  \/ belief[x].content = belief[y].content
  \/ <<x, y, "equivalent">> \in relation
  \/ <<y, x, "equivalent">> \in relation
  \/ <<x, y, "entails">> \in relation

Taints(s, x, y) ==
  /\ x # y
  /\ <<belief[x].content, belief[y].content>> \in Near
  /\ belief[y].status \in {"active", "suspect"}
  /\ y \notin source[s].before
  /\ belief[y].source # NoSource => SaysTheSame(x, y)
Joins(s) == {e \in Present \X Present : Taints(s, e[1], e[2])}

Seed(s) == {b \in Present : belief[b].source = s}

(* What a recant flips of the closure.  (Mutated form: the whole closure   *)
(* is flipped, and evicted, again.)                                        *)
WholeClosure(C) == C
NewlyFlipped(C) == {b \in C : belief[b].status \in {"active", "suspect"}}

(* POST /recant: one commit flips the closure C, stores the inferred edges *)
(* that explain it and opens the incident with its action and event.       *)
Recant(i, s, C, joins, partial) ==
  /\ i \notin Opened
  /\ s \in Registered
  /\ MeetsContract(C, joins, Seed(s), Derived, Joins(s), partial)
  /\ inferred' = inferred \cup (joins \ explicit)
  /\ belief' = [b \in Belief |-> IF b \in NewlyFlipped(C)
                                 THEN [belief[b] EXCEPT !.status = "quarantined"]
                                 ELSE belief[b]]
  /\ incident' = [incident EXCEPT ![i] =
       [open |-> TRUE, source |-> s, partial |-> partial, flipped |-> NewlyFlipped(C)]]
  /\ UNCHANGED <<source, head, explicit, relation>>

(* A foreign key of derivations or semantic_relations holds the row.       *)
(* (Mutated form: only its children do.)                                   *)
HasChild(b) == \E e \in Derived : b = e[1]
Referenced(b) ==
  \/ \E e \in Derived : b \in {e[1], e[2]}
  \/ \E t \in relation : b \in {t[1], t[2]}

(* The TTL job: an expired row is deleted unless something references it.  *)
DeleteByTTL(b) ==
  /\ b \in Present
  /\ belief[b].source \in Untrusted
  /\ ~Referenced(b)
  /\ belief' = [belief EXCEPT ![b].status = "gone"]
  /\ UNCHANGED <<source, head, explicit, inferred, relation, incident>>

-----------------------------------------------------------------------------
Next ==
  \/ \E s \in Source : CreateSource(s)
  \/ \E b \in Belief, a \in Agent, c \in Content, s \in Source \cup {NoSource},
       P \in SUBSET Present, R \in SUBSET Present : CreateBelief(b, a, c, s, P, R)
  \/ \E l, r \in Present, kind \in Verdicts : VerifyRelation(l, r, kind)
  \/ \E i \in Incident, s \in Registered, C \in SUBSET Present, partial \in BOOLEAN :
       \E joins \in SUBSET ((C \X C) \cap Joins(s)) : Recant(i, s, C, joins, partial)
  \/ \E b \in Belief : DeleteByTTL(b)

Spec == Init /\ [][Next]_vars

-----------------------------------------------------------------------------
(* Properties. *)

(* Once a source is recanted nothing that stems from it is active again:   *)
(* however it was derived, before the recant or after it, over any number  *)
(* of agents and steps, and even when the recant's neighbour search was    *)
(* cut short (quarantine/app.py:1-8, attest_gateway/app.py:539-551).       *)
RecantedOriginsStayOut ==
  \A b \in Active : belief[b].origins \cap Recanted = {}

(* An active belief rests on active beliefs, unless a recant reported that *)
(* its closure was incomplete (the warnings of quarantine/app.py:327-333). *)
ActiveRestsOnActive ==
  (\A i \in Opened : ~incident[i].partial) =>
    \A e \in Derived : belief[e[2]].status = "active" => belief[e[1]].status = "active"

(* Authority is never laundered: along any chain of recorded derivations a *)
(* belief has no more authority than any ancestor, and forgets no source   *)
(* (attest_gateway/app.py:531-537).                                        *)
AuthorityNeverGrows ==
  \A x \in Present : \A y \in Reach(explicit, {x}) :
    belief[y].rank <= belief[x].rank /\ belief[x].origins \subseteq belief[y].origins

(* The signed actions account for every quarantine: a belief is flipped,   *)
(* and so evicted, by exactly one incident (quarantine/app.py:251-255).    *)
EachFlippedOnce ==
  /\ \A i, j \in Opened : i # j => incident[i].flipped \cap incident[j].flipped = {}
  /\ {b \in Present : belief[b].status = "quarantined"} =
       Present \cap UNION {incident[i].flipped : i \in Opened}

(* Custody: an agent's beliefs are numbered without gap or repetition up   *)
(* to the head, each is linked to its predecessor, and a row is missing    *)
(* only where the TTL job deleted one (attest_gateway/app.py:553-554,      *)
(* 642-646).                                                               *)
CustodyUnbroken ==
  \A a \in Agent :
    LET mine == {b \in Written : belief[b].agent = a}
    IN /\ \A n \in 1..head[a].seq : \E b \in mine : belief[b].seq = n
       /\ \A b, d \in mine : belief[b].seq = belief[d].seq => b = d
       /\ \A b \in mine :
            /\ belief[b].seq \in 1..head[a].seq
            /\ belief[b].seq = head[a].seq <=> b = head[a].hash
            /\ IF belief[b].seq = 1 THEN belief[b].prev = Genesis
               ELSE \E d \in mine : /\ belief[d].seq = belief[b].seq - 1
                                    /\ belief[b].prev = d

(* verify_agent_chain's verdict on the rows still there: linked from the   *)
(* genesis, no gap, ending at the head.  (Mutated form: where they end is  *)
(* not compared with the head.)                                            *)
Linked(rows) ==
  \A b \in rows :
    LET before == {d \in rows : belief[d].seq < belief[b].seq}
    IN belief[b].prev \in
         IF before = {} THEN {Genesis}
         ELSE {d \in before : \A e \in before : belief[e].seq <= belief[d].seq}
LinkedOnly(a) == Linked({b \in Present : belief[b].agent = a})
Verifies(a) ==
  LET rows == {b \in Present : belief[b].agent = a}
      last == {b \in rows : \A d \in rows : belief[d].seq <= belief[b].seq}
  IN /\ Linked(rows)
     /\ head[a].hash \in IF rows = {} THEN {Genesis} ELSE last

(* Verification fails exactly where a row is missing: it accepts the chain *)
(* of an agent if and only if the TTL job deleted none of its beliefs,     *)
(* wherever in the chain they stood (attest_gateway/app.py:731-757,        *)
(* chain.py:127-147).                                                      *)
ChainTellsDeletions ==
  \A a \in Agent :
    Verifies(a) <=> \A b \in Written : belief[b].agent = a => b \in Present

(* The custody chain of every agent verifies at any time: "Row-level TTL   *)
(* stays FK-blocked ... the job errors, rows persist, provenance is never  *)
(* severed" (docs/plan.md:36).                                             *)
ChainVerifies == \A a \in Agent : Verifies(a)
=============================================================================
