----------------------------- MODULE Forensics ------------------------------
(***************************************************************************)
(* What the forensics service writes outside the database                  *)
(* (services/forensics/app.py, checkpoint.py, archive.py): custody         *)
(* checkpoints over the agents' chain heads, and the evidence bundle of an *)
(* incident.  The ledger goes on under both: agents and beliefs are added, *)
(* a recant flips beliefs, the TTL job deletes rows.                       *)
(*                                                                         *)
(* A checkpoint is one transaction, which inserts a row linked to the      *)
(* previous one, then an object in the bucket, then a transaction that     *)
(* notes the object's URI.  An archive reads the incident and then each    *)
(* affected agent's custody chain in a transaction of its own, and writes  *)
(* the bundle object by object under keys every archive of the incident    *)
(* shares.  Nothing obliges a call to take its next step: one that fails   *)
(* or whose process dies takes none, and leaves what it has written.       *)
(*                                                                         *)
(* now() is fixed when a transaction begins, and a transaction may wait    *)
(* for the tenant's row after that; an attempt that was rolled back leaves *)
(* nothing, so a call begins with its last attempt.  A chain is append     *)
(* only (module Ledger), so head_seq stands for head_hash as well.         *)
(*                                                                         *)
(* Left out: signatures and keys; affidavit.txt, which words the facts of  *)
(* incident.json; the bundle's event timeline; a deployment that has no    *)
(* buckets; the read-only board, provenance and AOST queries.              *)
(***************************************************************************)
EXTENDS Integers, Sequences, FiniteSets

CONSTANTS
  Agent,       \* agents.agent_id, in the order of the uuids
  Enrolled,    \* the agents there are to begin with
  Belief,      \* beliefs.belief_id
  Owner,       \* beliefs.agent_id
  Call,        \* single calls; a checkpoint call is its checkpoint_id
  Expiring,    \* the beliefs that cite an untrusted source, and no belief them
  NoIncident, NoDoc

ASSUME ForensicsConstants ==
  /\ Agent \subseteq Nat
  /\ Enrolled \subseteq Agent /\ IsFiniteSet(Enrolled)
  /\ Owner \in [Belief -> Agent]
  /\ Expiring \subseteq Belief
  /\ \A B \in SUBSET Belief : B # NoIncident

VARIABLES
  head,      \* agents: head_seq of each agent there is, -1 before that
  belief,    \* beliefs.status; "gone" once the TTL job deleted the row
  incident,  \* the incident's signed newly_flipped_ids
  stage,     \* how far each call has come
  clock,     \* transactions begun so far
  created,   \* per checkpoint call: created_at
  rows,      \* custody_checkpoints, in commit order
  bucket,    \* checkpoints/{tenant}/{checkpoint_id}.json
  summary,   \* per archive call: the incident as it read it
  custody,   \* per archive call: the custody chains it read
  bundle     \* incidents/{incident_id}/...

vars == <<head, belief, incident, stage, clock, created, rows, bucket, summary,
          custody, bundle>>
ledgerVars == <<head, belief, incident>>
checkpointVars == <<clock, created, rows, bucket>>
archiveVars == <<summary, custody, bundle>>

Agents == {a \in Agent : head[a] >= 0}
Present == {b \in Belief : belief[b] \notin {"unwritten", "gone"}}

Init ==
  /\ head = [a \in Agent |-> IF a \in Enrolled THEN 0 ELSE -1]
  /\ belief = [b \in Belief |-> "unwritten"]
  /\ incident = NoIncident
  /\ stage = [c \in Call |-> "new"]
  /\ clock = 0
  /\ created = [c \in Call |-> 0]
  /\ rows = <<>>
  /\ bucket = [c \in Call |-> NoDoc]
  /\ summary = [c \in Call |-> NoDoc]
  /\ custody = [c \in Call |-> [a \in Agent |-> NoDoc]]
  /\ bundle = [incident |-> NoDoc, custody |-> [a \in Agent |-> NoDoc]]

-----------------------------------------------------------------------------
(* The ledger. *)

CreateAgent(a) ==
  /\ a \notin Agents
  /\ head' = [head EXCEPT ![a] = 0]
  /\ UNCHANGED <<belief, incident, stage, checkpointVars, archiveVars>>

WriteBelief(b) ==
  /\ belief[b] = "unwritten"
  /\ Owner[b] \in Agents
  /\ belief' = [belief EXCEPT ![b] = "active"]
  /\ head' = [head EXCEPT ![Owner[b]] = @ + 1]
  /\ UNCHANGED <<incident, stage, checkpointVars, archiveVars>>

(* A recant opens its incident and signs for what it flips in one commit.  *)
Recant(F) ==
  /\ incident = NoIncident
  /\ \A b \in F : belief[b] = "active"
  /\ incident' = F
  /\ belief' = [b \in Belief |-> IF b \in F THEN "quarantined" ELSE belief[b]]
  /\ UNCHANGED <<head, stage, checkpointVars, archiveVars>>

DeleteByTTL(b) ==
  /\ b \in Expiring \cap Present
  /\ belief' = [belief EXCEPT ![b] = "gone"]
  /\ UNCHANGED <<head, incident, stage, checkpointVars, archiveVars>>

-----------------------------------------------------------------------------
(* The Merkle tree.  Hashes are injective, so a digest is what it hashes;  *)
(* the prefixes keep leaves and nodes apart.  A root is told by the heads  *)
(* it was computed from (RootsTellHeadsApart), and the rows below hold     *)
(* those.                                                                  *)

(* custody_leaves: one leaf per agent there is, in the order of the ids. *)
CustodyLeaves(heads) ==
  LET known == {a \in Agent : heads[a] >= 0}
      place(a) == Cardinality({x \in known : x <= a})
      sorted == [i \in 1..Cardinality(known) |-> CHOOSE a \in known : place(a) = i]
  IN [i \in DOMAIN sorted |-> <<sorted[i], heads[sorted[i]]>>]

(* The next level; the last hash of an odd one is paired with itself.      *)
(* (Mutated form: the last hash of an odd level is left over.)             *)
PairUpEven(level) ==
  [i \in 1..(Len(level) \div 2) |-> <<"node", level[2 * i - 1], level[2 * i]>>]
PairUp(level) ==
  LET even == IF Len(level) % 2 = 0 THEN level ELSE Append(level, level[Len(level)])
  IN [i \in 1..(Len(even) \div 2) |-> <<"node", even[2 * i - 1], even[2 * i]>>]

(* The levels from the leaves up: the loop stays on one of a single hash,  *)
(* which as many rounds as there are leaves are enough to reach.           *)
Round(level) == IF Len(level) > 1 THEN PairUp(level) ELSE level
Leaves(leaves) == [i \in DOMAIN leaves |-> <<"leaf", leaves[i]>>]
Levels(leaves) ==
  LET level[k \in 0..Len(leaves)] ==
        IF k = 0 THEN Leaves(leaves) ELSE Round(level[k - 1])
  IN level

MerkleRoot(leaves) ==
  IF leaves = <<>> THEN <<"empty">> ELSE Levels(leaves)[Len(leaves)][1]

(* Of a checkpoint's heads, or, in GET /checkpoints/{id}/verify, of        *)
(* today's.                                                                *)
Root(heads) == MerkleRoot(CustodyLeaves(heads))

-----------------------------------------------------------------------------
(* POST /checkpoints. *)

(* The newest row, by created_at.  (Mutated form: ORDER BY without DESC.) *)
Oldest == CHOOSE i \in DOMAIN rows : \A j \in DOMAIN rows : rows[i].created <= rows[j].created
Latest == CHOOSE i \in DOMAIN rows : \A j \in DOMAIN rows : rows[j].created <= rows[i].created

PreviousOldest == IF rows = <<>> THEN NoDoc ELSE rows[Oldest].heads
Previous == IF rows = <<>> THEN NoDoc ELSE rows[Latest].heads

(* The transaction begins: its now() is fixed. *)
Begin(c) ==
  /\ stage[c] = "new"
  /\ stage' = [stage EXCEPT ![c] = "begun"]
  /\ clock' = clock + 1
  /\ created' = [created EXCEPT ![c] = clock + 1]
  /\ UNCHANGED <<ledgerVars, rows, bucket, archiveVars>>

(* It holds the tenant's row, reads heads and predecessor, and commits. *)
Commit(c) ==
  /\ stage[c] = "begun"
  /\ stage' = [stage EXCEPT ![c] = "stored"]
  /\ rows' = Append(rows, [id |-> c, heads |-> head, previous |-> Previous,
                           created |-> created[c], published |-> FALSE])
  /\ UNCHANGED <<ledgerVars, clock, created, bucket, archiveVars>>

(* published_document: what was signed of a row. *)
Document(row) ==
  [id |-> row.id, heads |-> row.heads, previous |-> row.previous,
   created |-> row.created]
RowOf(c) == CHOOSE i \in DOMAIN rows : rows[i].id = c
Published(c) == [bucket EXCEPT ![c] = Document(rows[RowOf(c)])]

Publish(c) ==
  /\ stage[c] = "stored"
  /\ bucket' = Published(c)
  /\ stage' = [stage EXCEPT ![c] = "published"]
  /\ UNCHANGED <<ledgerVars, clock, created, rows, archiveVars>>

(* The 502: put_object raised, before the object was stored or after.      *)
(* (Mutated forms: the row is updated all the same; the call is run again  *)
(* from its transaction.)                                                  *)
PublishFailsQuietly(c) ==
  /\ stage[c] = "stored"
  /\ bucket' \in {bucket, Published(c)}
  /\ stage' = [stage EXCEPT ![c] = "published"]
  /\ UNCHANGED <<ledgerVars, clock, created, rows, archiveVars>>
PublishRunsAgain(c) ==
  /\ stage[c] = "stored"
  /\ bucket' \in {bucket, Published(c)}
  /\ stage' = [stage EXCEPT ![c] = "begun"]
  /\ UNCHANGED <<ledgerVars, clock, created, rows, archiveVars>>
PublishFails(c) ==
  /\ stage[c] = "stored"
  /\ bucket' \in {bucket, Published(c)}
  /\ stage' = [stage EXCEPT ![c] = "failed"]
  /\ UNCHANGED <<ledgerVars, clock, created, rows, archiveVars>>

SetUri(c) ==
  /\ stage[c] = "published"
  /\ rows' = [rows EXCEPT ![RowOf(c)].published = TRUE]
  /\ stage' = [stage EXCEPT ![c] = "answered"]
  /\ UNCHANGED <<ledgerVars, clock, created, bucket, archiveVars>>

(* GET /checkpoints/{id}/verify, of the i-th row: null while it has no     *)
(* external copy; and whatever keeps the bucket from being read, the       *)
(* answer is the one for a copy that differs.                              *)
ExternalCopyValid(i, readable) ==
  IF rows[i].published
    THEN IF readable /\ bucket[rows[i].id] = Document(rows[i]) THEN "true" ELSE "false"
    ELSE "null"

-----------------------------------------------------------------------------
(* POST /incidents/{id}/archive. *)

(* incident_summary: agents_affected joins with the beliefs still there. *)
ReadSummary(c) ==
  /\ stage[c] = "new"
  /\ incident # NoIncident
  /\ summary' = [summary EXCEPT ![c] =
       [flipped |-> incident, affected |-> {Owner[b] : b \in incident \cap Present}]]
  /\ stage' = [stage EXCEPT ![c] = "archiving"]
  /\ UNCHANGED <<ledgerVars, checkpointVars, custody, bundle>>

Chain(a) == {<<b, belief[b]>> : b \in {x \in Present : Owner[x] = a}}
Unread(c) == {a \in summary[c].affected : custody[c][a] = NoDoc}

(* custody_chain, a transaction per agent. *)
ReadCustody(c, a) ==
  /\ stage[c] = "archiving"
  /\ a \in Unread(c)
  /\ custody' = [custody EXCEPT ![c][a] = Chain(a)]
  /\ UNCHANGED <<ledgerVars, stage, checkpointVars, summary, bundle>>

(* put_bundle: incident.json first. *)
PutIncident(c) ==
  /\ stage[c] = "archiving"
  /\ Unread(c) = {}
  /\ bundle' = [bundle EXCEPT !.incident = summary[c]]
  /\ stage' = [stage EXCEPT ![c] = "putting"]
  /\ UNCHANGED <<ledgerVars, checkpointVars, summary, custody>>

(* custody/{agent_id}.json; what was put is struck off.  (Mutated form: a  *)
(* put that fails is passed over.)                                         *)
PutOrPassOver(c, a) ==
  /\ stage[c] = "putting"
  /\ custody[c][a] # NoDoc
  /\ bundle' \in {bundle, [bundle EXCEPT !.custody[a] = custody[c][a]]}
  /\ custody' = [custody EXCEPT ![c][a] = NoDoc]
  /\ UNCHANGED <<ledgerVars, stage, checkpointVars, summary>>
PutCustody(c, a) ==
  /\ stage[c] = "putting"
  /\ custody[c][a] # NoDoc
  /\ bundle' = [bundle EXCEPT !.custody[a] = custody[c][a]]
  /\ custody' = [custody EXCEPT ![c][a] = NoDoc]
  /\ UNCHANGED <<ledgerVars, stage, checkpointVars, summary>>

ArchiveAnswers(c) ==
  /\ stage[c] = "putting"
  /\ \A a \in Agent : custody[c][a] = NoDoc
  /\ stage' = [stage EXCEPT ![c] = "archived"]
  /\ UNCHANGED <<ledgerVars, checkpointVars, archiveVars>>

-----------------------------------------------------------------------------
Next ==
  \/ \E a \in Agent : CreateAgent(a)
  \/ \E b \in Belief : WriteBelief(b) \/ DeleteByTTL(b)
  \/ \E F \in SUBSET Belief : Recant(F)
  \/ \E c \in Call : Begin(c) \/ Commit(c) \/ Publish(c) \/ PublishFails(c) \/ SetUri(c)
  \/ \E c \in Call : ReadSummary(c) \/ PutIncident(c) \/ ArchiveAnswers(c)
  \/ \E c \in Call, a \in Agent : ReadCustody(c, a) \/ PutCustody(c, a)

Spec == Init /\ [][Next]_vars

-----------------------------------------------------------------------------
(* Properties. *)

HeadRows == [Agent -> Nat \cup {-1}]
Doc == [id : Call, heads : HeadRows, previous : HeadRows \cup {NoDoc}, created : Nat]
Row == [id : Call, heads : HeadRows, previous : HeadRows \cup {NoDoc}, created : Nat,
        published : BOOLEAN]
Summary == [flipped : SUBSET Belief, affected : SUBSET Agent]
ChainDoc == SUBSET (Belief \X {"active", "quarantined"})
Stage == {"new", "begun", "stored", "published", "answered",
          "archiving", "putting", "archived", "failed"}

TypeOK ==
  /\ head \in HeadRows
  /\ belief \in [Belief -> {"unwritten", "active", "quarantined", "gone"}]
  /\ incident \in (SUBSET Belief) \cup {NoIncident}
  /\ stage \in [Call -> Stage]
  /\ clock \in Nat
  /\ created \in [Call -> Nat]
  /\ rows \in Seq(Row)
  /\ \A i, j \in DOMAIN rows : rows[i].id = rows[j].id => i = j
  /\ bucket \in [Call -> Doc \cup {NoDoc}]
  /\ summary \in [Call -> Summary \cup {NoDoc}]
  /\ custody \in [Call -> [Agent -> ChainDoc \cup {NoDoc}]]
  /\ bundle \in [incident : Summary \cup {NoDoc}, custody : [Agent -> ChainDoc \cup {NoDoc}]]

(* The checkpoints form a chain that only goes forward: in commit order    *)
(* each but the first is linked to an earlier one, which knew no agent and *)
(* no belief this one does not know.  It is the one just before, unless    *)
(* that one's transaction began before another's that committed earlier    *)
(* (forensics/app.py:625-645).                                             *)
ChainGoesForward ==
  \A i \in DOMAIN rows :
    IF i = 1 THEN rows[i].previous = NoDoc
    ELSE /\ \E j \in 1..(i - 1) : rows[i].previous = rows[j].heads
         /\ \A a \in Agent : rows[i].previous[a] <= rows[i].heads[a]
         /\ (\A j \in 1..(i - 1) : rows[j].created <= rows[i - 1].created)
              => rows[i].previous = rows[i - 1].heads

(* Equal roots mean equal heads, however many agents there are: between    *)
(* any two checkpoints, and in the "current state" verdict of verify       *)
(* (checkpoint.py:31-42, app.py:791-792).                                  *)
RootsTellHeadsApart ==
  LET heads == {head} \cup {rows[i].heads : i \in DOMAIN rows}
      roots == {<<Root(h), h>> : h \in heads}
  IN \A p, q \in roots : p[1] = q[1] => p[2] = q[2]

(* The bucket never holds a checkpoint the database does not, whatever     *)
(* failed, and a copy the row points to is exact: where verify reads the   *)
(* bucket, a "false" is no trace of how the checkpoint was made            *)
(* (app.py:686-705, 793-802).                                              *)
ExternalCopyAgrees ==
  /\ \A i \in DOMAIN rows : rows[i].published => ExternalCopyValid(i, TRUE) = "true"
  /\ \A c \in Call : bucket[c] # NoDoc =>
       \E i \in DOMAIN rows : bucket[c] = Document(rows[i])

(* Once an archive has answered, the bundle has the custody chain of each  *)
(* agent that archive found affected, and no chain in it shows a belief of *)
(* the incident as anything but quarantined, whichever later archives of   *)
(* the incident overwrote, left half done or died in (archive.py:3-8).     *)
BundleCoversIncident ==
  /\ \A c \in Call : stage[c] = "archived" =>
       /\ bundle.incident \in Summary
       /\ \A a \in summary[c].affected : bundle.custody[a] # NoDoc
  /\ \A a \in Agent : bundle.custody[a] # NoDoc =>
       \A row \in bundle.custody[a] : row[1] \in incident => row[2] = "quarantined"
=============================================================================
