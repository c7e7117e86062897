-------------------------- MODULE ForensicsProofs --------------------------
(***************************************************************************)
(* Theorems about Forensics, for any agents, beliefs and calls.            *)
(*                                                                         *)
(* A checkpoint call owns its row and its object: the row exists from the  *)
(* commit on, and the object is what the call signed.  An archive owns     *)
(* nothing, since all archives write the same keys; what saves the bundle  *)
(* is that no key is ever removed, and that a belief of the incident never *)
(* turns active again.                                                     *)
(***************************************************************************)
EXTENDS Forensics, TLAPS, FiniteSetTheorems

Shared == INSTANCE Facts  \* its reachability is over the beliefs here

Checkpointing == {"stored", "published", "answered", "failed"}

(* A row belongs to a call that committed it, with the call's created_at,  *)
(* and what it says the agents knew they still know.                       *)
RowsBelong ==
  /\ \A i \in DOMAIN rows :
       /\ stage[rows[i].id] \in Checkpointing
       /\ rows[i].created = created[rows[i].id]
       /\ \A a \in Agent : rows[i].heads[a] <= head[a]
  /\ \A c \in Call : stage[c] \in {"stored", "published"} =>
       \E i \in DOMAIN rows : rows[i].id = c

(* Calls that have begun have created_at values of their own. *)
TimesDiffer ==
  /\ \A c \in Call : created[c] <= clock
  /\ \A c \in Call : stage[c] \in {"begun"} \cup Checkpointing => created[c] > 0
  /\ \A c, d \in Call : created[c] = created[d] /\ created[c] > 0 => c = d

(* An object is the copy of its own call's row, and is there when the row  *)
(* says so.                                                                *)
ObjectsBelong ==
  /\ \A c \in Call : bucket[c] # NoDoc =>
       \E i \in DOMAIN rows : rows[i].id = c /\ bucket[c] = Document(rows[i])
  /\ \A i \in DOMAIN rows :
       rows[i].published \/ stage[rows[i].id] = "published" =>
         bucket[rows[i].id] = Document(rows[i])

(* Archives run on an incident whose beliefs stay quarantined while they   *)
(* are there, and read nothing that says otherwise.                        *)
Clean(chain) == \A row \in chain : row[1] \in incident => row[2] = "quarantined"
ReadsAreClean ==
  /\ \A c \in Call : stage[c] \in {"archiving", "putting", "archived"} =>
       incident # NoIncident /\ summary[c] \in Summary
  /\ incident # NoIncident =>
       \A b \in Belief : b \in incident => belief[b] \in {"quarantined", "gone"}
  /\ \A c \in Call, a \in Agent :
       custody[c][a] # NoDoc => incident # NoIncident /\ Clean(custody[c][a])
  /\ \A a \in Agent :
       bundle.custody[a] # NoDoc => incident # NoIncident /\ Clean(bundle.custody[a])

(* What an archive has yet to put it still holds. *)
NothingIsDropped ==
  /\ \A c \in Call : stage[c] \in {"putting", "archived"} =>
       /\ bundle.incident \in Summary
       /\ \A a \in summary[c].affected :
            custody[c][a] # NoDoc \/ bundle.custody[a] # NoDoc
  /\ \A c \in Call, a \in Agent : stage[c] = "archived" => custody[c][a] = NoDoc

CustodyInv ==
  TypeOK /\ RowsBelong /\ TimesDiffer /\ ChainGoesForward /\ ObjectsBelong
ArchiveInv == ReadsAreClean /\ NothingIsDropped

-----------------------------------------------------------------------------
LEMMA RowTyped ==
  ASSUME TypeOK, NEW i \in DOMAIN rows
  PROVE  /\ rows[i] \in Row /\ rows[i].id \in Call /\ rows[i].heads \in HeadRows
         /\ rows[i].previous \in HeadRows \cup {NoDoc}
         /\ rows[i].created \in Nat /\ rows[i].published \in BOOLEAN
<1>1. rows[i] \in Row
  BY DEF TypeOK
<1>2. QED BY <1>1 DEF Row

LEMMA RowOfIsRow ==
  ASSUME TypeOK, RowsBelong, NEW c \in Call, stage[c] \in {"stored", "published"}
  PROVE  RowOf(c) \in DOMAIN rows /\ rows[RowOf(c)].id = c
<1>1. \E i \in DOMAIN rows : rows[i].id = c
  BY DEF RowsBelong
<1>2. QED BY <1>1 DEF RowOf

(* The newest row exists: no created_at is ahead of the clock. *)
LEMMA LatestIsLast ==
  ASSUME TypeOK, RowsBelong, TimesDiffer, rows # <<>>
  PROVE  /\ Latest \in DOMAIN rows
         /\ \A j \in DOMAIN rows : rows[j].created <= rows[Latest].created
<1> DEFINE ages == {clock - rows[i].created : i \in DOMAIN rows}
<1>1. 1 \in DOMAIN rows
  <2>1. rows \in Seq(Row)
    BY DEF TypeOK
  <2>2. QED BY <2>1
<1>2. \A i \in DOMAIN rows : rows[i].created \in Nat /\ rows[i].created <= clock
  BY RowTyped DEF RowsBelong, TimesDiffer
<1>3. ages \in SUBSET Nat /\ ages # {}
  BY <1>1, <1>2 DEF TypeOK
<1>4. \E m \in ages : \A n \in ages : m <= n
  BY <1>3, Shared!NatMin
<1>5. PICK i \in DOMAIN rows : \A j \in DOMAIN rows :
        clock - rows[i].created <= clock - rows[j].created
  BY <1>4
<1>6. clock \in Nat
  BY DEF TypeOK
<1>7. \A j \in DOMAIN rows : rows[j].created <= rows[i].created
  BY <1>2, <1>5, <1>6
<1>8. QED BY <1>7 DEF Latest

LEMMA PreviousTyped ==
  ASSUME TypeOK, RowsBelong, TimesDiffer
  PROVE  Previous \in HeadRows \cup {NoDoc}
<1>1. CASE rows = <<>>
  BY <1>1 DEF Previous
<1>2. CASE rows # <<>>
  BY <1>2, LatestIsLast, RowTyped DEF Previous
<1>3. QED BY <1>1, <1>2

(* The commit of a checkpoint. *)
LEMMA CommitEffect ==
  ASSUME TypeOK, RowsBelong, TimesDiffer, NEW c \in Call, Commit(c)
  PROVE  LET row == [id |-> c, heads |-> head, previous |-> Previous,
                     created |-> created[c], published |-> FALSE]
             n == Len(rows) + 1
         IN /\ row \in Row
            /\ n \in Nat /\ n \notin DOMAIN rows
            /\ DOMAIN rows = 1..Len(rows) /\ Len(rows) \in Nat
            /\ rows' \in Seq(Row) /\ DOMAIN rows' = DOMAIN rows \cup {n}
            /\ rows'[n] = row
            /\ \A i \in DOMAIN rows : rows'[i] = rows[i] /\ rows[i].id # c
            /\ stage' = [stage EXCEPT ![c] = "stored"]
            /\ stage[c] = "begun"
<1> DEFINE row == [id |-> c, heads |-> head, previous |-> Previous,
                   created |-> created[c], published |-> FALSE]
           n == Len(rows) + 1
<1>1. row \in Row
  BY PreviousTyped DEF Row, TypeOK
<1>2. rows' = Append(rows, row)
  BY DEF Commit
<1> HIDE DEF row
<1>3. rows \in Seq(Row)
  BY DEF TypeOK
<1>4. /\ n \in Nat /\ n \notin DOMAIN rows
      /\ DOMAIN rows = 1..Len(rows) /\ Len(rows) \in Nat
      /\ rows' \in Seq(Row) /\ DOMAIN rows' = DOMAIN rows \cup {n}
      /\ rows'[n] = row
      /\ \A i \in DOMAIN rows : rows'[i] = rows[i]
  BY <1>1, <1>2, <1>3
<1>5. \A i \in DOMAIN rows : rows[i].id # c
  BY DEF Commit, RowsBelong, Checkpointing
<1>6. QED BY <1>1, <1>4, <1>5 DEF Commit, row

(* The second transaction of a checkpoint touches one field of its row.    *)
LEMMA SetUriEffect ==
  ASSUME TypeOK, RowsBelong, NEW c \in Call, SetUri(c)
  PROVE  /\ rows' \in Seq(Row) /\ DOMAIN rows' = DOMAIN rows
         /\ \A i \in DOMAIN rows :
              /\ rows'[i].id = rows[i].id /\ rows'[i].heads = rows[i].heads
              /\ rows'[i].previous = rows[i].previous
              /\ rows'[i].created = rows[i].created
              /\ rows'[i].published => rows[i].published \/ rows[i].id = c
         /\ stage' = [stage EXCEPT ![c] = "answered"]
         /\ stage[c] = "published"
<1> DEFINE k == RowOf(c)
<1>1. k \in DOMAIN rows /\ rows[k].id = c
  BY RowOfIsRow DEF SetUri
<1>2. rows' = [rows EXCEPT ![k].published = TRUE]
  BY DEF SetUri
<1> HIDE DEF k
<1>3. rows \in Seq(Row)
  BY DEF TypeOK
<1>4. \A i \in DOMAIN rows : rows[i] \in Row
  BY RowTyped
<1>5. [rows[k] EXCEPT !.published = TRUE] \in Row
  BY <1>1, <1>4 DEF Row
<1>6. /\ rows' \in Seq(Row) /\ DOMAIN rows' = DOMAIN rows
      /\ \A i \in DOMAIN rows :
           rows'[i] = IF i = k THEN [rows[k] EXCEPT !.published = TRUE] ELSE rows[i]
  BY <1>1, <1>2, <1>3, <1>5
<1>7. ASSUME NEW i \in DOMAIN rows
      PROVE  /\ rows'[i].id = rows[i].id /\ rows'[i].heads = rows[i].heads
             /\ rows'[i].previous = rows[i].previous
             /\ rows'[i].created = rows[i].created
             /\ rows'[i].published => rows[i].published \/ rows[i].id = c
  BY <1>1, <1>4, <1>6 DEF Row
<1>8. QED BY <1>6, <1>7 DEF SetUri

-----------------------------------------------------------------------------
LEMMA BundlePut ==
  ASSUME TypeOK, NEW a \in Agent, NEW chain \in ChainDoc,
         bundle' = [bundle EXCEPT !.custody[a] = chain]
  PROVE  /\ bundle' \in [incident : Summary \cup {NoDoc},
                         custody : [Agent -> ChainDoc \cup {NoDoc}]]
         /\ bundle'.incident = bundle.incident
         /\ bundle'.custody = [bundle.custody EXCEPT ![a] = chain]
BY DEF TypeOK

LEMMA TypeStep ==
  TypeOK /\ RowsBelong /\ TimesDiffer /\ [Next]_vars => TypeOK'
<1> SUFFICES ASSUME TypeOK, RowsBelong, TimesDiffer, [Next]_vars PROVE TypeOK'
  OBVIOUS
<1>1. CASE UNCHANGED vars
  BY <1>1 DEF vars, TypeOK
<1>2. ASSUME NEW a \in Agent, CreateAgent(a) PROVE TypeOK'
  <2>1. head' \in HeadRows
    BY <1>2 DEF CreateAgent, TypeOK, HeadRows
  <2>2. QED BY <1>2, <2>1 DEF CreateAgent, TypeOK, checkpointVars, archiveVars
<1>3. ASSUME NEW b \in Belief, WriteBelief(b) PROVE TypeOK'
  <2>1. Owner[b] \in Agent /\ head[Owner[b]] >= 0
    BY <1>3 DEF WriteBelief, Agents
  <2>2. head' \in HeadRows
    <3> DEFINE o == Owner[b]
    <3>1. head \in [Agent -> Nat \cup {-1}] /\ o \in Agent /\ head[o] >= 0
      BY <2>1 DEF TypeOK, HeadRows
    <3>2. head' = [head EXCEPT ![o] = head[o] + 1]
      BY <1>3 DEF WriteBelief
    <3> HIDE DEF o
    <3>3. head[o] + 1 \in Nat
      BY <3>1
    <3>4. QED BY <3>1, <3>2, <3>3 DEF HeadRows
  <2>3. belief' \in [Belief -> {"unwritten", "active", "quarantined", "gone"}]
    BY <1>3 DEF WriteBelief, TypeOK
  <2>4. QED BY <1>3, <2>2, <2>3 DEF WriteBelief, TypeOK, checkpointVars, archiveVars
<1>4. ASSUME NEW b \in Belief, DeleteByTTL(b) PROVE TypeOK'
  BY <1>4 DEF DeleteByTTL, TypeOK, checkpointVars, archiveVars
<1>5. ASSUME NEW F \in SUBSET Belief, Recant(F) PROVE TypeOK'
  <2>1. belief' \in [Belief -> {"unwritten", "active", "quarantined", "gone"}]
    BY <1>5 DEF Recant, TypeOK
  <2>2. QED BY <1>5, <2>1 DEF Recant, TypeOK, checkpointVars, archiveVars
<1>6. ASSUME NEW c \in Call, Begin(c) PROVE TypeOK'
  <2>1. stage' \in [Call -> Stage] /\ clock' \in Nat /\ created' \in [Call -> Nat]
    BY <1>6 DEF Begin, TypeOK, Stage
  <2>2. QED BY <1>6, <2>1 DEF Begin, TypeOK, ledgerVars, archiveVars
<1>7. ASSUME NEW c \in Call, Commit(c) PROVE TypeOK'
  <2> DEFINE n == Len(rows) + 1
  <2>1. /\ rows' \in Seq(Row) /\ DOMAIN rows' = DOMAIN rows \cup {n}
        /\ rows'[n] = [id |-> c, heads |-> head, previous |-> Previous,
                       created |-> created[c], published |-> FALSE]
        /\ \A i \in DOMAIN rows : rows'[i].id = rows[i].id /\ rows[i].id # c
        /\ stage' = [stage EXCEPT ![c] = "stored"]
    BY <1>7, CommitEffect, Zenon
  <2> HIDE DEF n
  <2>2. \A i, j \in DOMAIN rows' : rows'[i].id = rows'[j].id => i = j
    <3>1. rows'[n].id = c
      BY <2>1
    <3>2. QED BY <2>1, <3>1 DEF TypeOK
  <2>3. stage' \in [Call -> Stage]
    BY <2>1 DEF TypeOK, Stage
  <2>4. QED BY <1>7, <2>1, <2>2, <2>3 DEF Commit, TypeOK, ledgerVars, archiveVars
<1>8. ASSUME NEW c \in Call, Published(c) = bucket', stage[c] = "stored"
      PROVE  bucket' \in [Call -> Doc \cup {NoDoc}]
  <2>1. Document(rows[RowOf(c)]) \in Doc
    BY <1>8, RowOfIsRow, RowTyped DEF Document, Doc
  <2>2. QED BY <1>8, <2>1 DEF Published, TypeOK
<1>9. ASSUME NEW c \in Call, Publish(c) PROVE TypeOK'
  BY <1>8, <1>9 DEF Publish, TypeOK, Stage, ledgerVars, archiveVars
<1>10. ASSUME NEW c \in Call, PublishFails(c) PROVE TypeOK'
  BY <1>8, <1>10 DEF PublishFails, TypeOK, Stage, ledgerVars, archiveVars
<1>11. ASSUME NEW c \in Call, SetUri(c) PROVE TypeOK'
  <2>1. /\ rows' \in Seq(Row) /\ DOMAIN rows' = DOMAIN rows
        /\ \A i \in DOMAIN rows : rows'[i].id = rows[i].id
    BY <1>11, SetUriEffect
  <2>2. QED BY <1>11, <2>1 DEF SetUri, TypeOK, Stage, ledgerVars, archiveVars
<1>12. ASSUME NEW c \in Call, ReadSummary(c) PROVE TypeOK'
  <2>1. incident \in SUBSET Belief
    BY <1>12 DEF ReadSummary, TypeOK
  <2>2. [flipped |-> incident, affected |-> {Owner[b] : b \in incident \cap Present}]
          \in Summary
    BY <2>1, ForensicsConstants DEF Summary
  <2>3. summary' \in [Call -> Summary \cup {NoDoc}]
    BY <1>12, <2>2 DEF ReadSummary, TypeOK
  <2>4. QED BY <1>12, <2>3 DEF ReadSummary, TypeOK, Stage, ledgerVars, checkpointVars
<1>13. ASSUME NEW c \in Call, PutIncident(c) PROVE TypeOK'
  <2>1. bundle' \in [incident : Summary \cup {NoDoc},
                     custody : [Agent -> ChainDoc \cup {NoDoc}]]
    BY <1>13 DEF PutIncident, TypeOK
  <2>2. QED BY <1>13, <2>1 DEF PutIncident, TypeOK, Stage, ledgerVars, checkpointVars
<1>14. ASSUME NEW c \in Call, ArchiveAnswers(c) PROVE TypeOK'
  BY <1>14 DEF ArchiveAnswers, TypeOK, Stage, ledgerVars, checkpointVars, archiveVars
<1>15. ASSUME NEW c \in Call, NEW a \in Agent, ReadCustody(c, a) PROVE TypeOK'
  <2>1. Chain(a) \in ChainDoc
    BY DEF Chain, ChainDoc, Present, TypeOK
  <2>2. custody' \in [Call -> [Agent -> ChainDoc \cup {NoDoc}]]
    BY <1>15, <2>1 DEF ReadCustody, TypeOK
  <2>3. QED BY <1>15, <2>2 DEF ReadCustody, TypeOK, ledgerVars, checkpointVars
<1>16. ASSUME NEW c \in Call, NEW a \in Agent, PutCustody(c, a) PROVE TypeOK'
  <2>1. custody[c][a] \in ChainDoc
    BY <1>16 DEF PutCustody, TypeOK
  <2>2. custody' \in [Call -> [Agent -> ChainDoc \cup {NoDoc}]]
    BY <1>16 DEF PutCustody, TypeOK
  <2>3. bundle' \in [incident : Summary \cup {NoDoc},
                     custody : [Agent -> ChainDoc \cup {NoDoc}]]
    BY <1>16, <2>1, BundlePut DEF PutCustody
  <2>4. QED BY <1>16, <2>2, <2>3 DEF PutCustody, TypeOK, ledgerVars, checkpointVars
<1>17. QED BY <1>1, <1>2, <1>3, <1>4, <1>5, <1>6, <1>7, <1>9, <1>10, <1>11, <1>12,
              <1>13, <1>14, <1>15, <1>16 DEF Next

-----------------------------------------------------------------------------
(* The steps that no checkpoint invariant notices, and those that no       *)
(* archive invariant does.                                                 *)
Idle == {"new", "archiving", "putting", "archived"}
QuietForCheckpoints ==
  /\ UNCHANGED <<clock, created, rows, bucket>>
  /\ \A a \in Agent : head[a] <= head'[a]
  /\ \A c \in Call : stage'[c] = stage[c] \/ {stage[c], stage'[c]} \subseteq Idle

QuietForArchives ==
  /\ UNCHANGED <<belief, incident, summary, custody, bundle>>
  /\ \A c \in Call : stage'[c] = stage[c]
       \/ {stage[c], stage'[c]} \subseteq {"new", "begun"} \cup Checkpointing

LEMMA QuietCheckpoints ==
  ASSUME TypeOK, RowsBelong, TimesDiffer, ChainGoesForward, ObjectsBelong,
         TypeOK', QuietForCheckpoints
  PROVE  RowsBelong' /\ TimesDiffer' /\ ChainGoesForward' /\ ObjectsBelong'
<1>1. \A c \in Call, s \in {"begun"} \cup Checkpointing : stage'[c] = s <=> stage[c] = s
  BY DEF QuietForCheckpoints, Idle, Checkpointing
<1>2. \A i \in DOMAIN rows : rows[i].id \in Call
  BY RowTyped
<1>3. UNCHANGED <<clock, created, rows, bucket>>
  BY DEF QuietForCheckpoints
<1>4. \A i \in DOMAIN rows, a \in Agent : rows[i].heads[a] <= head'[a]
  <2> SUFFICES ASSUME NEW i \in DOMAIN rows, NEW a \in Agent
               PROVE  rows[i].heads[a] <= head'[a]
    OBVIOUS
  <2>1. rows[i].heads[a] <= head[a] /\ head[a] <= head'[a]
    BY DEF RowsBelong, QuietForCheckpoints
  <2>2. rows[i].heads[a] \in Int /\ head[a] \in Int /\ head'[a] \in Int
    BY RowTyped DEF HeadRows, TypeOK
  <2>3. QED BY <2>1, <2>2
<1>5. RowsBelong'
  BY <1>1, <1>2, <1>3, <1>4 DEF RowsBelong, Checkpointing
<1>6. TimesDiffer'
  BY <1>1, <1>3 DEF TimesDiffer
<1>7. ChainGoesForward'
  BY <1>3 DEF ChainGoesForward
<1>8. ObjectsBelong'
  BY <1>1, <1>2, <1>3 DEF ObjectsBelong, Checkpointing, Document
<1>9. QED BY <1>5, <1>6, <1>7, <1>8

LEMMA QuietArchives ==
  ASSUME ReadsAreClean, NothingIsDropped, QuietForArchives
  PROVE  ReadsAreClean' /\ NothingIsDropped'
<1>1. \A c \in Call, s \in {"archiving", "putting", "archived"} :
        stage'[c] = s <=> stage[c] = s
  BY DEF QuietForArchives, Checkpointing
<1>2. UNCHANGED <<belief, incident, summary, custody, bundle>>
  BY DEF QuietForArchives
<1>3. \A c \in Call, a \in Agent : Clean(custody[c][a])' <=> Clean(custody[c][a])
  BY <1>2 DEF Clean
<1>4. \A a \in Agent : Clean(bundle.custody[a])' <=> Clean(bundle.custody[a])
  BY <1>2 DEF Clean
<1>5. ReadsAreClean'
  BY <1>1, <1>2, <1>3, <1>4 DEF ReadsAreClean
<1>6. NothingIsDropped'
  BY <1>1, <1>2 DEF NothingIsDropped
<1>7. QED BY <1>5, <1>6

LEMMA LedgerSteps ==
  ASSUME TypeOK,
         \/ \E a \in Agent : CreateAgent(a)
         \/ \E b \in Belief : WriteBelief(b) \/ DeleteByTTL(b)
         \/ \E F \in SUBSET Belief : Recant(F)
  PROVE  QuietForCheckpoints
<1>1. \A a \in Agent : head[a] \in Int
  BY DEF TypeOK, HeadRows
<1>2. ASSUME NEW a \in Agent, CreateAgent(a) PROVE QuietForCheckpoints
  <2>1. head[a] <= 0
    BY <1>1, <1>2 DEF CreateAgent, Agents
  <2>2. \A x \in Agent : head[x] <= head'[x]
    BY <1>1, <1>2, <2>1 DEF CreateAgent, TypeOK, HeadRows
  <2>3. QED BY <1>2, <2>2 DEF CreateAgent, QuietForCheckpoints, checkpointVars
<1>3. ASSUME NEW b \in Belief, WriteBelief(b) PROVE QuietForCheckpoints
  <2>1. \A x \in Agent : head[x] <= head'[x]
    BY <1>1, <1>3 DEF WriteBelief, TypeOK, HeadRows
  <2>2. QED BY <1>3, <2>1 DEF WriteBelief, QuietForCheckpoints, checkpointVars
<1>4. ASSUME NEW b \in Belief, DeleteByTTL(b) PROVE QuietForCheckpoints
  BY <1>1, <1>4 DEF DeleteByTTL, QuietForCheckpoints, checkpointVars
<1>5. ASSUME NEW F \in SUBSET Belief, Recant(F) PROVE QuietForCheckpoints
  BY <1>1, <1>5 DEF Recant, QuietForCheckpoints, checkpointVars
<1>6. QED BY <1>2, <1>3, <1>4, <1>5

LEMMA ArchiveSteps ==
  ASSUME TypeOK,
         \/ \E c \in Call : ReadSummary(c) \/ PutIncident(c) \/ ArchiveAnswers(c)
         \/ \E c \in Call, a \in Agent : ReadCustody(c, a) \/ PutCustody(c, a)
  PROVE  QuietForCheckpoints
<1>1. \A a \in Agent : head[a] <= head[a]
  <2>1. head \in [Agent -> Nat \cup {-1}]
    BY DEF TypeOK, HeadRows
  <2>2. \A a \in Agent : head[a] \in Int
    BY <2>1
  <2>3. QED BY <2>2
<1>2. UNCHANGED <<head, clock, created, rows, bucket>>
  BY DEF ReadSummary, PutIncident, ArchiveAnswers, ReadCustody, PutCustody, ledgerVars,
         checkpointVars
<1>3. \A c \in Call : stage'[c] = stage[c] \/ {stage[c], stage'[c]} \subseteq Idle
  BY DEF ReadSummary, PutIncident, ArchiveAnswers, ReadCustody, PutCustody, Idle, TypeOK
<1>4. QED BY <1>1, <1>2, <1>3 DEF QuietForCheckpoints

LEMMA CheckpointSteps ==
  ASSUME TypeOK,
         \E c \in Call : Begin(c) \/ Commit(c) \/ Publish(c) \/ PublishFails(c) \/ SetUri(c)
  PROVE  QuietForArchives
<1>1. UNCHANGED <<belief, incident, summary, custody, bundle>>
  BY DEF Begin, Commit, Publish, PublishFails, SetUri, ledgerVars, archiveVars
<1>2. \A c \in Call : stage'[c] = stage[c]
         \/ {stage[c], stage'[c]} \subseteq {"new", "begun"} \cup Checkpointing
  BY DEF Begin, Commit, Publish, PublishFails, SetUri, Checkpointing, TypeOK
<1>3. QED BY <1>1, <1>2 DEF QuietForArchives

-----------------------------------------------------------------------------
(* What each step of a checkpoint call keeps. *)
LEMMA BeginKeeps ==
  ASSUME TypeOK, RowsBelong, TimesDiffer, ChainGoesForward, ObjectsBelong,
         NEW c \in Call, Begin(c)
  PROVE  RowsBelong' /\ TimesDiffer' /\ ChainGoesForward' /\ ObjectsBelong'
<1>1. /\ stage[c] = "new" /\ stage' = [stage EXCEPT ![c] = "begun"]
      /\ clock' = clock + 1 /\ created' = [created EXCEPT ![c] = clock + 1]
      /\ rows' = rows /\ bucket' = bucket /\ head' = head
  BY DEF Begin, ledgerVars
<1>2. \A i \in DOMAIN rows : rows[i].id \in Call /\ rows[i].id # c
  BY <1>1, RowTyped DEF RowsBelong, Checkpointing
<1>3. clock \in Nat /\ created \in [Call -> Nat] /\ stage \in [Call -> Stage]
  BY DEF TypeOK
<1>4. RowsBelong'
  BY <1>1, <1>2, <1>3 DEF RowsBelong, Checkpointing
<1>5. TimesDiffer'
  <2>1. /\ created'[c] = clock + 1 /\ clock + 1 > 0 /\ clock + 1 = clock'
        /\ \A d \in Call \ {c} : created'[d] = created[d] /\ stage'[d] = stage[d]
    BY <1>1, <1>3
  <2>2. \A d \in Call : created[d] \in Nat /\ created[d] <= clock /\ created[d] < clock + 1
    BY <1>3 DEF TimesDiffer
  <2>3. \A d \in Call : created'[d] <= clock'
    BY <1>3, <2>1, <2>2
  <2>4. \A d \in Call : stage'[d] \in {"begun"} \cup Checkpointing => created'[d] > 0
    BY <2>1 DEF TimesDiffer
  <2>5. \A d, e \in Call : created'[d] = created'[e] /\ created'[d] > 0 => d = e
    BY <2>1, <2>2 DEF TimesDiffer
  <2>6. QED BY <2>3, <2>4, <2>5 DEF TimesDiffer
<1>6. ChainGoesForward'
  BY <1>1 DEF ChainGoesForward
<1>7. ObjectsBelong'
  BY <1>1, <1>2, <1>3 DEF ObjectsBelong, Document
<1>8. QED BY <1>4, <1>5, <1>6, <1>7

LEMMA CommitKeeps ==
  ASSUME TypeOK, RowsBelong, TimesDiffer, ChainGoesForward, ObjectsBelong,
         NEW c \in Call, Commit(c)
  PROVE  RowsBelong' /\ TimesDiffer' /\ ChainGoesForward' /\ ObjectsBelong'
<1> DEFINE row == [id |-> c, heads |-> head, previous |-> Previous,
                   created |-> created[c], published |-> FALSE]
           n == Len(rows) + 1
<1>1. /\ n \in Nat /\ n \notin DOMAIN rows
      /\ DOMAIN rows = 1..Len(rows) /\ Len(rows) \in Nat
      /\ DOMAIN rows' = DOMAIN rows \cup {n} /\ rows'[n] = row
      /\ \A i \in DOMAIN rows : rows'[i] = rows[i] /\ rows[i].id # c
      /\ stage' = [stage EXCEPT ![c] = "stored"] /\ stage[c] = "begun"
  BY CommitEffect, Zenon
<1>2. UNCHANGED <<head, clock, created, bucket>>
  BY DEF Commit, ledgerVars
<1>3. /\ rows'[n].id = c /\ rows'[n].heads = head /\ rows'[n].previous = Previous
      /\ rows'[n].created = created[c] /\ rows'[n].published = FALSE
  BY <1>1
<1> HIDE DEF row
<1>4. /\ stage \in [Call -> Stage]
      /\ \A i \in DOMAIN rows : rows[i].id \in Call /\ rows[i].created \in Nat
      /\ \A a \in Agent : head[a] \in Int
  BY RowTyped DEF TypeOK, HeadRows
<1>5. stage'[c] = "stored" /\ \A d \in Call \ {c} : stage'[d] = stage[d]
  BY <1>1, <1>4
<1>6. RowsBelong'
  <2>1. ASSUME NEW i \in DOMAIN rows'
        PROVE  /\ stage'[rows'[i].id] \in Checkpointing
               /\ rows'[i].created = created'[rows'[i].id]
               /\ \A a \in Agent : rows'[i].heads[a] <= head'[a]
    <3>1. CASE i = n
      BY <1>2, <1>3, <1>4, <1>5, <3>1 DEF Checkpointing
    <3>2. CASE i \in DOMAIN rows
      BY <1>1, <1>2, <1>4, <1>5, <3>2 DEF RowsBelong
    <3>3. QED BY <1>1, <2>1, <3>1, <3>2
  <2>2. ASSUME NEW d \in Call, stage'[d] \in {"stored", "published"}
        PROVE  \E i \in DOMAIN rows' : rows'[i].id = d
    BY <1>1, <1>3, <1>5, <2>2 DEF RowsBelong
  <2>3. QED BY <2>1, <2>2 DEF RowsBelong
<1>7. TimesDiffer'
  BY <1>1, <1>2, <1>5 DEF TimesDiffer, Checkpointing
<1>8. ChainGoesForward'
  <2> DEFINE Forward(s, i) ==
        IF i = 1 THEN s[i].previous = NoDoc
        ELSE /\ \E j \in 1..(i - 1) : s[i].previous = s[j].heads
             /\ \A a \in Agent : s[i].previous[a] <= s[i].heads[a]
             /\ (\A j \in 1..(i - 1) : s[j].created <= s[i - 1].created)
                  => s[i].previous = s[i - 1].heads
  <2>1. ASSUME NEW i \in DOMAIN rows PROVE Forward(rows', i)
    <3>1. Forward(rows, i)
      BY DEF ChainGoesForward
    <3>2. i \in Nat /\ (\A j \in 1..(i - 1) : j \in DOMAIN rows)
          /\ (i # 1 => i - 1 \in DOMAIN rows)
      BY <1>1
    <3>3. rows'[i] = rows[i] /\ (\A j \in 1..(i - 1) : rows'[j] = rows[j])
          /\ (i # 1 => rows'[i - 1] = rows[i - 1])
      BY <1>1, <3>2
    <3>4. QED BY <3>1, <3>3
  <2>2. Forward(rows', n)
    <3>1. CASE n = 1
      <4>1. rows = <<>>
        <5>1. rows \in Seq(Row) /\ Len(rows) = 0
          BY <1>1, <3>1 DEF TypeOK
        <5>2. QED BY <5>1
      <4>2. QED BY <1>3, <3>1, <4>1 DEF Previous
    <3>2. CASE n # 1
      <4>1. rows # <<>> /\ n - 1 \in DOMAIN rows /\ 1..(n - 1) = DOMAIN rows
        BY <1>1, <3>2
      <4>2. /\ Latest \in DOMAIN rows
            /\ \A j \in DOMAIN rows : rows[j].created <= rows[Latest].created
        BY <4>1, LatestIsLast
      <4>3. rows'[n].previous = rows[Latest].heads
        BY <1>3, <4>1 DEF Previous
      <4>4. \A j \in DOMAIN rows : rows'[j] = rows[j]
        BY <1>1
      <4>5. \A a \in Agent : rows[Latest].heads[a] <= head[a]
        BY <4>2 DEF RowsBelong
      <4>6. ASSUME \A j \in DOMAIN rows : rows[j].created <= rows[n - 1].created
            PROVE  Latest = n - 1
        <5>1. rows[Latest].created = rows[n - 1].created
          BY <1>4, <4>1, <4>2, <4>6
        <5>2. rows[Latest].created > 0
          BY <1>4, <4>2 DEF RowsBelong, TimesDiffer
        <5>3. rows[Latest].id = rows[n - 1].id
          BY <1>4, <4>1, <4>2, <5>1, <5>2 DEF RowsBelong, TimesDiffer
        <5>4. QED BY <4>1, <4>2, <5>3 DEF TypeOK
      <4>7. /\ \E j \in 1..(n - 1) : rows'[n].previous = rows'[j].heads
            /\ \A a \in Agent : rows'[n].previous[a] <= rows'[n].heads[a]
        BY <1>3, <4>1, <4>2, <4>3, <4>4, <4>5
      <4>8. (\A j \in 1..(n - 1) : rows'[j].created <= rows'[n - 1].created)
              => rows'[n].previous = rows'[n - 1].heads
        BY <4>1, <4>3, <4>4, <4>6
      <4>9. QED BY <3>2, <4>7, <4>8
    <3>3. QED BY <3>1, <3>2
  <2> HIDE DEF n
  <2>3. \A i \in DOMAIN rows' : Forward(rows', i)
    BY <1>1, <2>1, <2>2
  <2>4. QED BY <2>3 DEF ChainGoesForward
<1>9. ObjectsBelong'
  <2>1. \A d \in Call : bucket'[d] = bucket[d]
    BY <1>2
  <2>2. \A i \in DOMAIN rows : Document(rows'[i]) = Document(rows[i])
    BY <1>1
  <2>3. ASSUME NEW d \in Call, bucket'[d] # NoDoc
        PROVE  \E i \in DOMAIN rows' : rows'[i].id = d /\ bucket'[d] = Document(rows'[i])
    BY <1>1, <2>1, <2>2, <2>3 DEF ObjectsBelong
  <2>4. ASSUME NEW i \in DOMAIN rows',
               rows'[i].published \/ stage'[rows'[i].id] = "published"
        PROVE  bucket'[rows'[i].id] = Document(rows'[i])
    <3>1. i # n
      BY <1>3, <1>5, <2>4
    <3>2. i \in DOMAIN rows
      BY <1>1, <3>1
    <3>3. rows'[i] = rows[i] /\ stage'[rows[i].id] = stage[rows[i].id]
      BY <1>1, <1>4, <1>5, <3>2
    <3>4. QED BY <1>2, <2>4, <3>2, <3>3 DEF ObjectsBelong
  <2>5. QED BY <2>3, <2>4 DEF ObjectsBelong
<1>10. QED BY <1>6, <1>7, <1>8, <1>9

(* The object put, whether or not the call hears of it. *)
LEMMA PutKeeps ==
  ASSUME TypeOK, RowsBelong, TimesDiffer, ChainGoesForward, ObjectsBelong,
         NEW c \in Call, stage[c] = "stored",
         NEW s \in {"published", "failed"}, stage' = [stage EXCEPT ![c] = s],
         bucket' = Published(c) \/ (s = "failed" /\ bucket' = bucket),
         UNCHANGED <<head, clock, created, rows>>
  PROVE  RowsBelong' /\ TimesDiffer' /\ ChainGoesForward' /\ ObjectsBelong'
<1> DEFINE k == RowOf(c)
<1>1. k \in DOMAIN rows /\ rows[k].id = c
  BY RowOfIsRow
<1>2. Published(c) = [bucket EXCEPT ![c] = Document(rows[k])]
  BY DEF Published
<1> HIDE DEF k
<1>3. /\ stage'[c] = s /\ \A d \in Call \ {c} : stage'[d] = stage[d]
      /\ \A d \in Call \ {c} : bucket'[d] = bucket[d]
      /\ bucket'[c] = Document(rows[k]) \/ (s = "failed" /\ bucket'[c] = bucket[c])
  BY <1>2 DEF TypeOK
<1>4. /\ \A i \in DOMAIN rows : rows[i].id \in Call
      /\ \A i \in DOMAIN rows : rows[i].id = c => i = k
  BY <1>1, RowTyped DEF TypeOK
<1>5. RowsBelong'
  BY <1>3, <1>4 DEF RowsBelong, Checkpointing
<1>6. TimesDiffer'
  BY <1>3 DEF TimesDiffer, Checkpointing
<1>7. ChainGoesForward'
  BY DEF ChainGoesForward
<1>8. ASSUME NEW d \in Call, bucket'[d] # NoDoc
      PROVE  \E i \in DOMAIN rows : rows[i].id = d /\ bucket'[d] = Document(rows[i])
  BY <1>1, <1>3, <1>8 DEF ObjectsBelong
<1>9. ASSUME NEW i \in DOMAIN rows,
             rows[i].published \/ stage'[rows[i].id] = "published"
      PROVE  bucket'[rows[i].id] = Document(rows[i])
  <2>1. CASE i = k
    <3>1. CASE bucket'[c] = Document(rows[k])
      BY <1>1, <2>1, <3>1
    <3>2. CASE s = "failed" /\ bucket'[c] = bucket[c]
      BY <1>1, <1>3, <1>9, <2>1, <3>2 DEF ObjectsBelong
    <3>3. QED BY <1>3, <3>1, <3>2
  <2>2. CASE i # k
    BY <1>3, <1>4, <1>9, <2>2 DEF ObjectsBelong
  <2>3. QED BY <2>1, <2>2
<1>10. ObjectsBelong'
  BY <1>8, <1>9 DEF ObjectsBelong, Document
<1>11. QED BY <1>5, <1>6, <1>7, <1>10

LEMMA SetUriKeeps ==
  ASSUME TypeOK, RowsBelong, TimesDiffer, ChainGoesForward, ObjectsBelong,
         NEW c \in Call, SetUri(c)
  PROVE  RowsBelong' /\ TimesDiffer' /\ ChainGoesForward' /\ ObjectsBelong'
<1>1. /\ DOMAIN rows' = DOMAIN rows
      /\ \A i \in DOMAIN rows :
           /\ rows'[i].id = rows[i].id /\ rows'[i].heads = rows[i].heads
           /\ rows'[i].previous = rows[i].previous
           /\ rows'[i].created = rows[i].created
           /\ rows'[i].published => rows[i].published \/ rows[i].id = c
      /\ stage' = [stage EXCEPT ![c] = "answered"]
      /\ stage[c] = "published"
  BY SetUriEffect
<1>2. UNCHANGED <<head, clock, created, bucket>>
  BY DEF SetUri, ledgerVars
<1>3. stage'[c] = "answered" /\ \A d \in Call \ {c} : stage'[d] = stage[d]
  BY <1>1 DEF TypeOK
<1>4. \A i \in DOMAIN rows : rows[i].id \in Call
  BY RowTyped
<1>5. RowsBelong'
  BY <1>1, <1>2, <1>3, <1>4 DEF RowsBelong, Checkpointing
<1>6. TimesDiffer'
  BY <1>1, <1>2, <1>3 DEF TimesDiffer, Checkpointing
<1>7. ChainGoesForward'
  <2>1. rows \in Seq(Row)
    BY DEF TypeOK
  <2>2. \A i \in DOMAIN rows : \A j \in 1..(i - 1) : j \in DOMAIN rows
    BY <2>1
  <2>3. \A i \in DOMAIN rows : i # 1 => i - 1 \in 1..(i - 1) /\ i - 1 \in DOMAIN rows
    BY <2>1
  <2>4. QED BY <1>1, <2>2, <2>3 DEF ChainGoesForward
<1>8. \A i \in DOMAIN rows : Document(rows'[i]) = Document(rows[i])
  BY <1>1 DEF Document
<1>9. ASSUME NEW i \in DOMAIN rows',
             rows'[i].published \/ stage'[rows'[i].id] = "published"
      PROVE  bucket'[rows'[i].id] = Document(rows'[i])
  <2>1. rows[i].published \/ stage[rows[i].id] = "published"
    BY <1>1, <1>3, <1>4, <1>9
  <2>2. QED BY <1>1, <1>2, <1>8, <2>1 DEF ObjectsBelong
<1>10. \A d \in Call : bucket'[d] # NoDoc =>
         \E i \in DOMAIN rows' : rows'[i].id = d /\ bucket'[d] = Document(rows'[i])
  BY <1>1, <1>2, <1>8 DEF ObjectsBelong
<1>11. ObjectsBelong'
  BY <1>9, <1>10 DEF ObjectsBelong
<1>12. QED BY <1>5, <1>6, <1>7, <1>11

LEMMA CustodyInit == Init => CustodyInv
<1> SUFFICES ASSUME Init PROVE CustodyInv
  OBVIOUS
<1>1. rows \in Seq(Row) /\ DOMAIN rows = {}
  BY DEF Init
<1>2. head \in HeadRows /\ clock \in Nat /\ created \in [Call -> Nat]
  BY DEF Init, HeadRows
<1>3. TypeOK
  BY <1>1, <1>2 DEF Init, TypeOK, Stage
<1>4. RowsBelong /\ TimesDiffer /\ ChainGoesForward /\ ObjectsBelong
  BY <1>1 DEF Init, RowsBelong, TimesDiffer, ChainGoesForward, ObjectsBelong, Checkpointing
<1>5. QED BY <1>3, <1>4 DEF CustodyInv

LEMMA CustodyStep == CustodyInv /\ [Next]_vars => CustodyInv'
<1> SUFFICES ASSUME CustodyInv, [Next]_vars PROVE CustodyInv'
  OBVIOUS
<1> USE DEF CustodyInv
<1>1. TypeOK'
  BY TypeStep
<1>2. CASE UNCHANGED vars
  BY <1>1, <1>2 DEF vars, RowsBelong, TimesDiffer, ChainGoesForward, ObjectsBelong, Document
<1>3. CASE QuietForCheckpoints
  BY <1>1, <1>3, QuietCheckpoints
<1>4. ASSUME NEW c \in Call, Begin(c) PROVE CustodyInv'
  BY <1>1, <1>4, BeginKeeps
<1>5. ASSUME NEW c \in Call, Commit(c) PROVE CustodyInv'
  BY <1>1, <1>5, CommitKeeps
<1>6. ASSUME NEW c \in Call, Publish(c) PROVE CustodyInv'
  BY <1>1, <1>6, PutKeeps DEF Publish, ledgerVars
<1>7. ASSUME NEW c \in Call, PublishFails(c) PROVE CustodyInv'
  BY <1>1, <1>7, PutKeeps DEF PublishFails, ledgerVars
<1>8. ASSUME NEW c \in Call, SetUri(c) PROVE CustodyInv'
  BY <1>1, <1>8, SetUriKeeps
<1>9. QED BY <1>2, <1>3, <1>4, <1>5, <1>6, <1>7, <1>8, LedgerSteps, ArchiveSteps DEF Next

LEMMA CustodyHolds == Spec => []CustodyInv
BY CustodyInit, CustodyStep, PTL DEF Spec

(* The types of the checkpoint and archive state, in every behaviour. *)
THEOREM ForensicsTypeCorrect == Spec => []TypeOK
BY CustodyHolds, PTL DEF CustodyInv

(* The chain of checkpoints goes forward (TLC checks it for five agents    *)
(* and three calls).                                                       *)
THEOREM CheckpointsGoForward == Spec => []ChainGoesForward
BY CustodyHolds, PTL DEF CustodyInv

(* The bucket holds only checkpoints the database holds, whatever failed,  *)
(* and the copy of a published one is exact: verify finds it wanting only  *)
(* when it cannot read the bucket (forensics/app.py:793-807).              *)
THEOREM CopiesAgree == Spec => []ExternalCopyAgrees
<1>1. CustodyInv => ExternalCopyAgrees
  BY DEF CustodyInv, ObjectsBelong, ExternalCopyAgrees, ExternalCopyValid
<1>2. QED BY <1>1, CustodyHolds, PTL

-----------------------------------------------------------------------------
(* What each step on the archive's data keeps. *)
LEMMA LedgerKeepsArchives ==
  ASSUME TypeOK, ArchiveInv,
         \/ \E a \in Agent : CreateAgent(a)
         \/ \E b \in Belief : WriteBelief(b) \/ DeleteByTTL(b)
         \/ \E F \in SUBSET Belief : Recant(F)
  PROVE  ArchiveInv'
<1>1. UNCHANGED <<stage, summary, custody, bundle>>
  BY DEF CreateAgent, WriteBelief, DeleteByTTL, Recant, archiveVars
<1>2. belief \in [Belief -> {"unwritten", "active", "quarantined", "gone"}]
  BY DEF TypeOK
<1>3. incident # NoIncident => incident' = incident
  BY DEF CreateAgent, WriteBelief, DeleteByTTL, Recant
<1>4. incident' # NoIncident =>
        \A b \in Belief : b \in incident' => belief'[b] \in {"quarantined", "gone"}
  BY <1>2 DEF CreateAgent, WriteBelief, DeleteByTTL, Recant, Present, ArchiveInv,
              ReadsAreClean
<1>5. \A c \in Call : stage[c] \in {"archiving", "putting", "archived"} =>
        incident' # NoIncident /\ summary[c] \in Summary
  BY <1>3 DEF ArchiveInv, ReadsAreClean
<1>6. \A c \in Call, a \in Agent : custody[c][a] # NoDoc =>
        incident' # NoIncident /\ incident' = incident /\ Clean(custody[c][a])
  BY <1>3 DEF ArchiveInv, ReadsAreClean
<1>7. \A a \in Agent : bundle.custody[a] # NoDoc =>
        incident' # NoIncident /\ incident' = incident /\ Clean(bundle.custody[a])
  BY <1>3 DEF ArchiveInv, ReadsAreClean
<1>8. ReadsAreClean'
  BY <1>1, <1>4, <1>5, <1>6, <1>7 DEF ReadsAreClean, Clean
<1>9. NothingIsDropped'
  BY <1>1 DEF ArchiveInv, NothingIsDropped
<1>10. QED BY <1>8, <1>9 DEF ArchiveInv

LEMMA ReadSummaryKeeps ==
  ASSUME TypeOK, TypeOK', ArchiveInv, NEW c \in Call, ReadSummary(c)
  PROVE  ArchiveInv'
<1>1. /\ stage[c] = "new" /\ incident # NoIncident
      /\ stage' = [stage EXCEPT ![c] = "archiving"]
      /\ UNCHANGED <<belief, incident, custody, bundle>>
  BY DEF ReadSummary, ledgerVars
<1>2. \A d \in Call : d # c => stage'[d] = stage[d] /\ summary'[d] = summary[d]
  BY DEF ReadSummary, TypeOK
<1>3. stage'[c] = "archiving"
  BY <1>1 DEF TypeOK
<1>4. summary'[c] \in Summary
  <2>1. incident \in SUBSET Belief
    BY <1>1 DEF TypeOK
  <2>2. {Owner[b] : b \in incident \cap Present} \in SUBSET Agent
    BY <2>1, ForensicsConstants
  <2>3. summary'[c] =
          [flipped |-> incident, affected |-> {Owner[b] : b \in incident \cap Present}]
    BY DEF ReadSummary, TypeOK
  <2>4. QED BY <2>1, <2>2, <2>3 DEF Summary
<1>5. ReadsAreClean'
  BY <1>1, <1>2, <1>3, <1>4 DEF ArchiveInv, ReadsAreClean, Clean
<1>6. NothingIsDropped'
  BY <1>1, <1>2, <1>3 DEF ArchiveInv, NothingIsDropped
<1>7. QED BY <1>5, <1>6 DEF ArchiveInv

LEMMA ReadCustodyKeeps ==
  ASSUME TypeOK, ArchiveInv, NEW c \in Call, NEW a \in Agent, ReadCustody(c, a)
  PROVE  ArchiveInv'
<1>1. /\ stage[c] = "archiving"
      /\ custody' = [custody EXCEPT ![c][a] = Chain(a)]
      /\ UNCHANGED <<belief, incident, stage, summary, bundle>>
  BY DEF ReadCustody, ledgerVars
<1>2. \A d \in Call, x \in Agent :
        custody'[d][x] = IF d = c /\ x = a THEN Chain(a) ELSE custody[d][x]
  BY <1>1 DEF TypeOK
<1>3. incident # NoIncident /\ Clean(Chain(a))
  <2>1. incident # NoIncident
    BY <1>1 DEF ArchiveInv, ReadsAreClean
  <2>2. ASSUME NEW b \in Present, b \in incident PROVE belief[b] = "quarantined"
    BY <2>1, <2>2 DEF ArchiveInv, ReadsAreClean, Present
  <2>3. \A row \in Chain(a) : row[1] \in Present /\ row[2] = belief[row[1]]
    BY DEF Chain
  <2>4. QED BY <2>1, <2>2, <2>3 DEF Clean
<1>4. ReadsAreClean'
  BY <1>1, <1>2, <1>3 DEF ArchiveInv, ReadsAreClean, Clean
<1>5. NothingIsDropped'
  BY <1>1, <1>2 DEF ArchiveInv, NothingIsDropped
<1>6. QED BY <1>4, <1>5 DEF ArchiveInv

LEMMA PutIncidentKeeps ==
  ASSUME TypeOK, ArchiveInv, NEW c \in Call, PutIncident(c)
  PROVE  ArchiveInv'
<1>1. /\ stage[c] = "archiving" /\ Unread(c) = {}
      /\ stage' = [stage EXCEPT ![c] = "putting"]
      /\ UNCHANGED <<belief, incident, summary, custody>>
  BY DEF PutIncident, ledgerVars
<1>2. stage'[c] = "putting" /\ \A d \in Call \ {c} : stage'[d] = stage[d]
  BY <1>1 DEF TypeOK
<1>3. bundle'.incident = summary[c] /\ bundle'.custody = bundle.custody
  BY DEF PutIncident, TypeOK
<1>4. incident # NoIncident /\ summary[c] \in Summary
  BY <1>1 DEF ArchiveInv, ReadsAreClean
<1>5. ReadsAreClean'
  BY <1>1, <1>2, <1>3, <1>4 DEF ArchiveInv, ReadsAreClean, Clean
<1>6. \A a \in summary[c].affected : custody[c][a] # NoDoc
  BY <1>1 DEF Unread
<1>7. NothingIsDropped'
  BY <1>1, <1>2, <1>3, <1>4, <1>6 DEF ArchiveInv, NothingIsDropped
<1>8. QED BY <1>5, <1>7 DEF ArchiveInv

LEMMA PutCustodyKeeps ==
  ASSUME TypeOK, ArchiveInv, NEW c \in Call, NEW a \in Agent, PutCustody(c, a)
  PROVE  ArchiveInv'
<1>1. /\ stage[c] = "putting" /\ custody[c][a] # NoDoc
      /\ custody' = [custody EXCEPT ![c][a] = NoDoc]
      /\ UNCHANGED <<belief, incident, stage, summary>>
  BY DEF PutCustody, ledgerVars
<1>2. custody[c][a] \in ChainDoc
  BY <1>1 DEF TypeOK
<1>3. /\ bundle'.incident = bundle.incident
      /\ bundle'.custody = [bundle.custody EXCEPT ![a] = custody[c][a]]
  BY <1>2, BundlePut DEF PutCustody
<1>4. \A x \in Agent :
        bundle'.custody[x] = IF x = a THEN custody[c][a] ELSE bundle.custody[x]
  BY <1>3 DEF TypeOK
<1>5. \A d \in Call, x \in Agent :
        custody'[d][x] = IF d = c /\ x = a THEN NoDoc ELSE custody[d][x]
  BY <1>1 DEF TypeOK
<1>6. ReadsAreClean'
  BY <1>1, <1>4, <1>5 DEF ArchiveInv, ReadsAreClean, Clean
<1>7. ASSUME NEW d \in Call, stage[d] \in {"putting", "archived"},
             NEW x \in summary[d].affected
      PROVE  custody'[d][x] # NoDoc \/ bundle'.custody[x] # NoDoc
  <2>1. x \in Agent
    BY <1>7 DEF ArchiveInv, ReadsAreClean, Summary
  <2>2. custody[d][x] # NoDoc \/ bundle.custody[x] # NoDoc
    BY <1>7 DEF ArchiveInv, NothingIsDropped
  <2>3. QED BY <1>1, <1>4, <1>5, <2>1, <2>2
<1>8. NothingIsDropped'
  BY <1>1, <1>3, <1>5, <1>7 DEF ArchiveInv, NothingIsDropped
<1>9. QED BY <1>6, <1>8 DEF ArchiveInv

LEMMA ArchiveAnswersKeeps ==
  ASSUME TypeOK, ArchiveInv, NEW c \in Call, ArchiveAnswers(c)
  PROVE  ArchiveInv'
<1>1. /\ stage[c] = "putting" /\ \A a \in Agent : custody[c][a] = NoDoc
      /\ stage' = [stage EXCEPT ![c] = "archived"]
      /\ UNCHANGED <<belief, incident, summary, custody, bundle>>
  BY DEF ArchiveAnswers, ledgerVars, archiveVars
<1>2. stage'[c] = "archived" /\ \A d \in Call \ {c} : stage'[d] = stage[d]
  BY <1>1 DEF TypeOK
<1>3. ReadsAreClean'
  BY <1>1, <1>2 DEF ArchiveInv, ReadsAreClean, Clean
<1>4. NothingIsDropped'
  BY <1>1, <1>2 DEF ArchiveInv, NothingIsDropped
<1>5. QED BY <1>3, <1>4 DEF ArchiveInv

LEMMA ArchiveInit == Init => ArchiveInv
BY DEF Init, ArchiveInv, ReadsAreClean, NothingIsDropped, Clean

LEMMA ArchiveStep == TypeOK /\ TypeOK' /\ ArchiveInv /\ [Next]_vars => ArchiveInv'
<1> SUFFICES ASSUME TypeOK, TypeOK', ArchiveInv, [Next]_vars PROVE ArchiveInv'
  OBVIOUS
<1>1. CASE UNCHANGED vars
  BY <1>1 DEF vars, ArchiveInv, ReadsAreClean, NothingIsDropped, Clean
<1>2. CASE QuietForArchives
  BY <1>2, QuietArchives DEF ArchiveInv
<1>3. ASSUME NEW c \in Call, ReadSummary(c) \/ PutIncident(c) \/ ArchiveAnswers(c)
      PROVE  ArchiveInv'
  BY <1>3, ReadSummaryKeeps, PutIncidentKeeps, ArchiveAnswersKeeps
<1>4. ASSUME NEW c \in Call, NEW a \in Agent, ReadCustody(c, a) \/ PutCustody(c, a)
      PROVE  ArchiveInv'
  BY <1>4, ReadCustodyKeeps, PutCustodyKeeps
<1>5. QED BY <1>1, <1>2, <1>3, <1>4, LedgerKeepsArchives, CheckpointSteps DEF Next

(* The bundle covers the incident, whichever archives ran, failed or died. *)
THEOREM BundlesCoverIncidents == Spec => []BundleCoversIncident
<1>1. Spec => []ArchiveInv
  BY ForensicsTypeCorrect, ArchiveInit, ArchiveStep, PTL DEF Spec
<1>2. TypeOK /\ ArchiveInv => BundleCoversIncident
  <2> SUFFICES ASSUME TypeOK, ArchiveInv PROVE BundleCoversIncident
    OBVIOUS
  <2>1. ASSUME NEW c \in Call, stage[c] = "archived", NEW a \in summary[c].affected
        PROVE  bundle.custody[a] # NoDoc
    <3>1. a \in Agent
      BY <2>1 DEF ArchiveInv, ReadsAreClean, Summary
    <3>2. QED BY <2>1, <3>1 DEF ArchiveInv, NothingIsDropped
  <2>2. ASSUME NEW a \in Agent, bundle.custody[a] # NoDoc
        PROVE  \A row \in bundle.custody[a] : row[1] \in incident => row[2] = "quarantined"
    BY <2>2 DEF ArchiveInv, ReadsAreClean, Clean
  <2>3. QED BY <2>1, <2>2 DEF ArchiveInv, NothingIsDropped, BundleCoversIncident
<1>3. QED BY <1>1, <1>2, ForensicsTypeCorrect, PTL
-----------------------------------------------------------------------------
(* The Merkle tree.  A level is a list of hashes that is not empty; those  *)
(* of a custody tree have no hash twice, which is what makes the padding   *)
(* of odd levels harmless.                                                 *)
IsLevel(s) == \E S : s \in Seq(S) /\ Len(s) > 0
Distinct(s) == \A i, j \in DOMAIN s : s[i] = s[j] => i = j

(* A list indexed from 1 is a sequence of what it holds. *)
LEMMA SeqFrom ==
  ASSUME NEW n \in Nat, NEW s, s = [i \in 1..n |-> s[i]]
  PROVE  /\ s \in Seq({s[i] : i \in 1..n})
         /\ Len(s) = n /\ DOMAIN s = 1..n
<1>1. s \in [1..n -> {s[i] : i \in 1..n}]
  OBVIOUS
<1>2. QED BY <1>1, SMT

(* The next level has half as many nodes, rounded up; the last node of an  *)
(* odd one holds its hash twice.                                           *)
LEMMA PairUpNodes ==
  ASSUME NEW S, NEW s \in Seq(S), Len(s) > 0
  PROVE  LET half == (Len(s) + 1) \div 2
         IN  PairUp(s) = [i \in 1..half |->
               <<"node", s[2 * i - 1], s[IF 2 * i <= Len(s) THEN 2 * i ELSE 2 * i - 1]>>]
<1> DEFINE n == Len(s)
           half == (n + 1) \div 2
           even == IF n % 2 = 0 THEN s ELSE Append(s, s[n])
<1>1. n \in Nat /\ n > 0 /\ half \in Nat
  OBVIOUS
<1>2. s[n] \in S
  OBVIOUS
<1>3. Len(even) \div 2 = half
  <2>1. CASE n % 2 = 0
    BY <1>1, <2>1
  <2>2. CASE n % 2 # 0
    BY <1>1, <1>2, <2>2
  <2>3. QED BY <2>1, <2>2
<1>4. ASSUME NEW i \in 1..half
      PROVE  /\ even[2 * i - 1] = s[2 * i - 1]
             /\ even[2 * i] = s[IF 2 * i <= n THEN 2 * i ELSE 2 * i - 1]
  <2>1. CASE n % 2 = 0
    <3>1. 2 * i <= n
      BY <1>1, <2>1
    <3>2. QED BY <2>1, <3>1
  <2>2. CASE n % 2 # 0
    <3>1. 2 * i <= n + 1 /\ even = Append(s, s[n])
      BY <1>1, <2>2
    <3>2. CASE 2 * i <= n
      BY <1>1, <1>2, <3>1, <3>2
    <3>3. CASE 2 * i = n + 1
      BY <1>1, <1>2, <3>1, <3>3
    <3>4. QED BY <1>1, <3>1, <3>2, <3>3
  <2>3. QED BY <2>1, <2>2
<1>5. PairUp(s) = [i \in 1..(Len(even) \div 2) |-> <<"node", even[2 * i - 1], even[2 * i]>>]
  BY DEF PairUp
<1> HIDE DEF n, half, even
<1>6. PairUp(s) = [i \in 1..half |->
         <<"node", s[2 * i - 1], s[IF 2 * i <= n THEN 2 * i ELSE 2 * i - 1]>>]
  BY <1>3, <1>4, <1>5
<1>7. QED BY <1>6 DEF n, half

LEMMA PairUpLevel ==
  ASSUME NEW s, IsLevel(s)
  PROVE  LET half == (Len(s) + 1) \div 2
         IN  /\ IsLevel(PairUp(s)) /\ Len(PairUp(s)) = half /\ DOMAIN PairUp(s) = 1..half
             /\ \A i \in 1..half :
                  /\ PairUp(s)[i][1] = "node"
                  /\ PairUp(s)[i][2] = s[2 * i - 1]
                  /\ PairUp(s)[i][3] = s[IF 2 * i <= Len(s) THEN 2 * i ELSE 2 * i - 1]
<1>1. PICK S : s \in Seq(S) /\ Len(s) > 0
  BY DEF IsLevel
<1> DEFINE n == Len(s)
           half == (n + 1) \div 2
           t == PairUp(s)
<1>2. half \in Nat /\ half > 0
  BY <1>1
<1>3. t = [i \in 1..half |->
        <<"node", s[2 * i - 1], s[IF 2 * i <= n THEN 2 * i ELSE 2 * i - 1]>>]
  BY <1>1, PairUpNodes
<1> HIDE DEF n, half, t
<1>4. t = [i \in 1..half |-> t[i]]
  BY <1>3
<1>5. t \in Seq({t[i] : i \in 1..half}) /\ Len(t) = half /\ DOMAIN t = 1..half
  BY <1>2, <1>4, SeqFrom
<1>6. \A i \in 1..half :
        /\ t[i][1] = "node"
        /\ t[i][2] = s[2 * i - 1]
        /\ t[i][3] = s[IF 2 * i <= n THEN 2 * i ELSE 2 * i - 1]
  BY <1>3
<1>7. IsLevel(t)
  BY <1>2, <1>5 DEF IsLevel
<1>8. QED BY <1>5, <1>6, <1>7 DEF n, half, t

LEMMA LevelDomain ==
  ASSUME NEW s, IsLevel(s)
  PROVE  Len(s) \in Nat /\ Len(s) > 0 /\ DOMAIN s = 1..Len(s)
         /\ s = [i \in 1..Len(s) |-> s[i]]
<1>1. PICK S : s \in Seq(S) /\ Len(s) > 0
  BY DEF IsLevel
<1>2. QED BY <1>1

(* Hashes that differ make nodes that differ. *)
LEMMA PairUpDistinct ==
  ASSUME NEW s, IsLevel(s), Distinct(s)
  PROVE  Distinct(PairUp(s))
<1> DEFINE n == Len(s)
           half == (n + 1) \div 2
           t == PairUp(s)
<1>1. n \in Nat /\ n > 0 /\ DOMAIN s = 1..n
  BY LevelDomain
<1>2. DOMAIN t = 1..half /\ \A i \in 1..half : t[i][2] = s[2 * i - 1]
  BY PairUpLevel
<1> HIDE DEF t
<1>3. \A i \in 1..half : 2 * i - 1 \in 1..n /\ i \in Int
  BY <1>1
<1> HIDE DEF half, n
<1>4. ASSUME NEW i \in 1..half, NEW j \in 1..half, t[i] = t[j] PROVE i = j
  <2>1. s[2 * i - 1] = s[2 * j - 1]
    BY <1>2, <1>4
  <2>2. 2 * i - 1 = 2 * j - 1
    BY <1>1, <1>3, <2>1 DEF Distinct
  <2>3. QED BY <1>3, <2>2
<1>5. Distinct(t)
  BY <1>2, <1>4 DEF Distinct
<1>6. QED BY <1>5 DEF t

LEMMA HalfOf ==
  ASSUME NEW n \in Nat, n > 0
  PROVE  LET half == (n + 1) \div 2
         IN  half \in Nat /\ half > 0 /\ (n = 2 * half \/ n = 2 * half - 1)
OBVIOUS

(* A level is told by the next one.  One with an odd number of hashes has  *)
(* a node that pairs a hash with itself, which no even one has.            *)
LEMMA PairUpTells ==
  ASSUME NEW r, NEW s, IsLevel(r), IsLevel(s), Distinct(r), Distinct(s),
         PairUp(r) = PairUp(s)
  PROVE  r = s
<1> DEFINE m == Len(r)
           n == Len(s)
           half == (m + 1) \div 2
           t == PairUp(r)
<1>1. /\ m \in Nat /\ m > 0 /\ DOMAIN r = 1..m /\ r = [i \in 1..m |-> r[i]]
      /\ n \in Nat /\ n > 0 /\ DOMAIN s = 1..n /\ s = [i \in 1..n |-> s[i]]
  BY LevelDomain
<1>2. Len(t) = half /\ \A i \in 1..half :
        t[i][2] = r[2 * i - 1] /\ t[i][3] = r[IF 2 * i <= m THEN 2 * i ELSE 2 * i - 1]
  BY PairUpLevel
<1>3. Len(t) = (n + 1) \div 2 /\ \A i \in 1..((n + 1) \div 2) :
        t[i][2] = s[2 * i - 1] /\ t[i][3] = s[IF 2 * i <= n THEN 2 * i ELSE 2 * i - 1]
  BY PairUpLevel
<1>4. half = (n + 1) \div 2
  BY <1>2, <1>3
<1>5. /\ half \in Nat /\ half > 0
      /\ m = 2 * half \/ m = 2 * half - 1
      /\ n = 2 * half \/ n = 2 * half - 1
  BY <1>1, <1>4, HalfOf
<1>6. \A i \in 1..half :
        /\ r[2 * i - 1] = s[2 * i - 1]
        /\ r[IF 2 * i <= m THEN 2 * i ELSE 2 * i - 1] = s[IF 2 * i <= n THEN 2 * i ELSE 2 * i - 1]
  BY <1>2, <1>3, <1>4
<1> HIDE DEF t, m, n, half
<1>7. m = n
  <2>1. CASE m = 2 * half /\ n = 2 * half - 1
    <3>1. 2 * half <= m /\ ~ (2 * half <= n) /\ half \in 1..half
      BY <1>5, <2>1
    <3>2. r[2 * half] = s[2 * half - 1] /\ r[2 * half - 1] = s[2 * half - 1]
      BY <1>6, <3>1
    <3>3. 2 * half \in DOMAIN r /\ 2 * half - 1 \in DOMAIN r
      BY <1>1, <1>5, <2>1
    <3>4. 2 * half = 2 * half - 1
      BY <3>2, <3>3 DEF Distinct
    <3>5. QED BY <1>5, <3>4
  <2>2. CASE n = 2 * half /\ m = 2 * half - 1
    <3>1. 2 * half <= n /\ ~ (2 * half <= m) /\ half \in 1..half
      BY <1>5, <2>2
    <3>2. s[2 * half] = r[2 * half - 1] /\ s[2 * half - 1] = r[2 * half - 1]
      BY <1>6, <3>1
    <3>3. 2 * half \in DOMAIN s /\ 2 * half - 1 \in DOMAIN s
      BY <1>1, <1>5, <2>2
    <3>4. 2 * half = 2 * half - 1
      BY <3>2, <3>3 DEF Distinct
    <3>5. QED BY <1>5, <3>4
  <2>3. QED BY <1>5, <2>1, <2>2
<1>8. ASSUME NEW j \in 1..m PROVE r[j] = s[j]
  <2>1. PICK i \in 1..half : j = 2 * i \/ j = 2 * i - 1
    <3>1. j \in Nat /\ j > 0 /\ j <= m
      BY <1>1
    <3>2. (j + 1) \div 2 \in Nat /\ (j + 1) \div 2 > 0
          /\ (j = 2 * ((j + 1) \div 2) \/ j = 2 * ((j + 1) \div 2) - 1)
      BY <3>1, HalfOf
    <3>3. (j + 1) \div 2 \in 1..half
      BY <1>5, <3>1, <3>2
    <3>4. QED BY <3>2, <3>3
  <2>2. CASE j = 2 * i
    BY <1>6, <1>7, <2>1, <2>2
  <2>3. CASE j = 2 * i - 1
    BY <1>6, <2>1, <2>3
  <2>4. QED BY <2>1, <2>2, <2>3
<1>9. QED BY <1>1, <1>7, <1>8

-----------------------------------------------------------------------------
(* The levels of a tree, as a recursion: there is a function that makes    *)
(* them, round by round, since no least number of rounds is without one.   *)
LevelsTo(f, leaves, n) ==
  f = [k \in 0..n |-> IF k = 0 THEN Leaves(leaves) ELSE Round(f[k - 1])]

LEMMA LevelsExist == \A leaves : \A n \in Nat : \E f : LevelsTo(f, leaves, n)
<1> SUFFICES ASSUME NEW leaves PROVE \A n \in Nat : \E f : LevelsTo(f, leaves, n)
  OBVIOUS
<1> DEFINE Missing == {n \in Nat : ~ \E f : LevelsTo(f, leaves, n)}
<1>1. ASSUME Missing # {} PROVE FALSE
  <2>1. PICK n \in Missing : \A k \in Missing : n <= k
    BY <1>1, Shared!NatMin
  <2>2. n \in Nat /\ ~ \E f : LevelsTo(f, leaves, n)
    BY <2>1
  <2>3. CASE n = 0
    <3> DEFINE f == [k \in 0..0 |-> Leaves(leaves)]
    <3>1. LevelsTo(f, leaves, 0)
      <4>1. [k \in 0..0 |-> IF k = 0 THEN Leaves(leaves) ELSE Round(f[k - 1])] = f
        OBVIOUS
      <4>2. QED BY <4>1 DEF LevelsTo
    <3>2. QED BY <2>2, <2>3, <3>1
  <2>4. CASE n > 0
    <3>1. n - 1 \in Nat /\ n - 1 \notin Missing
      BY <2>1, <2>2, <2>4
    <3>2. PICK g : LevelsTo(g, leaves, n - 1)
      BY <3>1
    <3> DEFINE f == [k \in 0..n |-> IF k = n THEN Round(g[n - 1]) ELSE g[k]]
    <3>3. ASSUME NEW k \in 0..n
          PROVE  f[k] = IF k = 0 THEN Leaves(leaves) ELSE Round(f[k - 1])
      <4>1. CASE k = n
        <5>1. k # 0 /\ k - 1 \in 0..n /\ k - 1 # n
          BY <2>2, <2>4, <4>1
        <5>2. QED BY <4>1, <5>1
      <4>2. CASE k # n
        <5>1. k \in 0..(n - 1)
          BY <2>2, <4>2
        <5>2. g[k] = IF k = 0 THEN Leaves(leaves) ELSE Round(g[k - 1])
          BY <3>2, <5>1 DEF LevelsTo
        <5>3. k # 0 => k - 1 \in 0..n /\ k - 1 # n
          BY <2>2, <5>1
        <5>4. QED BY <4>2, <5>2, <5>3
      <4>3. QED BY <4>1, <4>2
    <3>4. LevelsTo(f, leaves, n)
      BY <3>3, Zenon DEF LevelsTo
    <3>5. QED BY <2>2, <3>4
  <2>5. QED BY <2>2, <2>3, <2>4
<1>2. QED BY <1>1

LEMMA LevelsAre ==
  ASSUME NEW leaves, Len(leaves) \in Nat
  PROVE  \A k \in 0..Len(leaves) : Levels(leaves)[k] =
           IF k = 0 THEN Leaves(leaves) ELSE Round(Levels(leaves)[k - 1])
<1> DEFINE n == Len(leaves)
           F == CHOOSE f : LevelsTo(f, leaves, n)
<1>1. LevelsTo(F, leaves, n)
  BY LevelsExist, Zenon
<1>2. Levels(leaves) = F
  BY Zenon DEF Levels, LevelsTo
<1>3. QED BY <1>1, <1>2, Zenon DEF LevelsTo

(* What every level is, k rounds up. *)
Labelled(s) == \A i \in DOMAIN s : s[i][1] \in {"leaf", "node"}
Shrunk(s, n, k) == Len(s) = 1 \/ Len(s) + k <= n

LEMMA RoundKeeps ==
  ASSUME NEW s, IsLevel(s), Distinct(s), Labelled(s), NEW n \in Nat, NEW k \in Nat,
         Shrunk(s, n, k)
  PROVE  LET t == Round(s)
         IN  IsLevel(t) /\ Distinct(t) /\ Labelled(t) /\ Shrunk(t, n, k + 1)
<1>1. CASE ~ (Len(s) > 1)
  <2>1. Round(s) = s
    BY <1>1 DEF Round
  <2>2. Len(s) = 1
    BY <1>1, LevelDomain
  <2>3. QED BY <2>1, <2>2 DEF Shrunk
<1>2. CASE Len(s) > 1
  <2>1. Round(s) = PairUp(s)
    BY <1>2 DEF Round
  <2>2. IsLevel(PairUp(s)) /\ Distinct(PairUp(s))
    BY PairUpLevel, PairUpDistinct
  <2>3. Labelled(PairUp(s))
    BY PairUpLevel DEF Labelled
  <2>4. Len(PairUp(s)) = (Len(s) + 1) \div 2
    BY PairUpLevel
  <2>5. Len(s) \in Nat /\ Len(s) + k <= n
    BY <1>2, LevelDomain DEF Shrunk
  <2>6. (Len(s) + 1) \div 2 + (k + 1) <= n
    <3>1. (Len(s) + 1) \div 2 \in Nat /\ (Len(s) + 1) \div 2 < Len(s)
      BY <1>2, <2>5, HalfOf
    <3>2. QED BY <2>5, <3>1
  <2>7. Shrunk(PairUp(s), n, k + 1)
    BY <2>4, <2>6 DEF Shrunk
  <2>8. QED BY <2>1, <2>2, <2>3, <2>7
<1>3. QED BY <1>1, <1>2

LEMMA LeavesAreLevel ==
  ASSUME NEW leaves, IsLevel(leaves), Distinct(leaves)
  PROVE  LET t == Leaves(leaves)
         IN  /\ IsLevel(t) /\ Distinct(t) /\ Labelled(t) /\ Shrunk(t, Len(leaves), 0)
             /\ t[1][1] = "leaf"
<1> DEFINE n == Len(leaves)
           t == Leaves(leaves)
<1>1. n \in Nat /\ n > 0 /\ DOMAIN leaves = 1..n
  BY LevelDomain
<1>2. t = [i \in 1..n |-> <<"leaf", leaves[i]>>]
  BY <1>1 DEF Leaves
<1> HIDE DEF t, n
<1>3. t = [i \in 1..n |-> t[i]]
  BY <1>2
<1>4. IsLevel(t) /\ Len(t) = n /\ DOMAIN t = 1..n
  BY <1>1, <1>3, SeqFrom DEF IsLevel
<1>5. Distinct(t)
  BY <1>1, <1>2, <1>4 DEF Distinct
<1>6. Labelled(t) /\ t[1][1] = "leaf"
  BY <1>1, <1>2, <1>4 DEF Labelled
<1>7. Shrunk(t, n, 0)
  BY <1>1, <1>4 DEF Shrunk
<1>8. QED BY <1>4, <1>5, <1>6, <1>7 DEF t, n

LEMMA LevelsKeep ==
  ASSUME NEW leaves, IsLevel(leaves), Distinct(leaves)
  PROVE  \A k \in 0..Len(leaves) :
           LET t == Levels(leaves)[k]
           IN  IsLevel(t) /\ Distinct(t) /\ Labelled(t) /\ Shrunk(t, Len(leaves), k)
<1> DEFINE n == Len(leaves)
           level == Levels(leaves)
           Good(k) == /\ IsLevel(level[k]) /\ Distinct(level[k])
                      /\ Labelled(level[k]) /\ Shrunk(level[k], n, k)
           Bad == {k \in 0..n : ~ Good(k)}
<1>1. n \in Nat
  BY LevelDomain
<1>2. \A k \in 0..n : level[k] = IF k = 0 THEN Leaves(leaves) ELSE Round(level[k - 1])
  BY <1>1, LevelsAre
<1> HIDE DEF level
<1>3. ASSUME Bad # {} PROVE FALSE
  <2>1. Bad \in SUBSET Nat
    OBVIOUS
  <2>2. PICK k \in Bad : \A j \in Bad : k <= j
    <3> HIDE DEF Bad
    <3>1. QED BY <1>3, <2>1, Shared!NatMin
  <2>3. k \in 0..n /\ ~ Good(k)
    BY <2>2
  <2>4. CASE k = 0
    <3>1. level[k] = Leaves(leaves)
      BY <1>2, <2>3, <2>4
    <3>2. QED BY <2>3, <2>4, <3>1, LeavesAreLevel
  <2>5. CASE k # 0
    <3>1. k - 1 \in 0..n /\ k - 1 \in Nat /\ k - 1 \notin Bad /\ (k - 1) + 1 = k
      BY <1>1, <2>2, <2>3, <2>5
    <3>2. Good(k - 1)
      BY <3>1
    <3>3. level[k] = Round(level[k - 1])
      BY <1>2, <2>3, <2>5
    <3>4. Good((k - 1) + 1)
      <4>1. level[(k - 1) + 1] = Round(level[k - 1])
        BY <3>1, <3>3
      <4>2. QED BY <1>1, <3>1, <3>2, <4>1, RoundKeeps
    <3>5. QED BY <2>3, <3>1, <3>4
  <2>6. QED BY <2>4, <2>5
<1>4. QED BY <1>3 DEF level

(* Two trees with a level in common, wherever it is in each, have the same *)
(* leaves: of the pairs of rounds at which unequal trees would meet, a     *)
(* least one has a round that paired nothing, a node that is a leaf, or    *)
(* trees that met a round earlier.                                         *)
LEMMA LevelsTell ==
  ASSUME NEW A, NEW B, IsLevel(A), IsLevel(B), Distinct(A), Distinct(B),
         NEW i \in 0..Len(A), NEW j \in 0..Len(B), Levels(A)[i] = Levels(B)[j]
  PROVE  A = B
<1> SUFFICES ASSUME A # B PROVE FALSE
  OBVIOUS
<1> DEFINE m == Len(A)
           n == Len(B)
           up == Levels(A)
           vp == Levels(B)
           Meets == {s \in Nat : \E k \in 0..m, l \in 0..n : s = k + l /\ up[k] = vp[l]}
<1>1. m \in Nat /\ n \in Nat
  BY LevelDomain
<1>2. /\ \A k \in 0..m : up[k] = IF k = 0 THEN Leaves(A) ELSE Round(up[k - 1])
      /\ \A l \in 0..n : vp[l] = IF l = 0 THEN Leaves(B) ELSE Round(vp[l - 1])
  BY <1>1, LevelsAre
<1>3. /\ \A k \in 0..m : IsLevel(up[k]) /\ Distinct(up[k])
      /\ \A l \in 0..n : IsLevel(vp[l]) /\ Distinct(vp[l])
  BY LevelsKeep
<1>4. Meets # {} /\ Meets \in SUBSET Nat
  <2>1. i + j \in Meets
    BY <1>1
  <2>2. QED BY <2>1
<1>5. PICK s \in Meets : \A r \in Meets : s <= r
  <2> HIDE DEF Meets
  <2>1. QED BY <1>4, Shared!NatMin
<1>6. PICK k \in 0..m, l \in 0..n : s = k + l /\ up[k] = vp[l]
  BY <1>5
<1>7. ASSUME NEW x \in 0..m, NEW y \in 0..n, up[x] = vp[y] PROVE s <= x + y
  <2>1. x + y \in Nat
    BY <1>1
  <2>2. x + y \in Meets
    BY <1>7, <2>1
  <2>3. QED BY <1>5, <2>2
<1>8. Leaves(A) # Leaves(B)
  <2>1. A = [x \in 1..m |-> A[x]] /\ DOMAIN A = 1..m
        /\ B = [x \in 1..n |-> B[x]] /\ DOMAIN B = 1..n
    BY LevelDomain
  <2>2. ASSUME Leaves(A) = Leaves(B) PROVE FALSE
    <3>1. DOMAIN Leaves(A) = 1..m /\ DOMAIN Leaves(B) = 1..n
      BY <2>1 DEF Leaves
    <3>2. 1..m = 1..n
      BY <2>2, <3>1
    <3>3. ASSUME NEW x \in 1..m PROVE A[x] = B[x]
      <4>1. Leaves(A)[x] = <<"leaf", A[x]>> /\ Leaves(B)[x] = <<"leaf", B[x]>>
        BY <2>1, <3>2 DEF Leaves
      <4>2. QED BY <2>2, <4>1
    <3>4. A = B
      BY <2>1, <3>2, <3>3, Zenon
    <3>5. QED BY <3>4
  <2>3. QED BY <2>2
<1> HIDE DEF m, n, up, vp, Meets
<1>9. CASE k > 0 /\ up[k] = up[k - 1]
  <2>1. k - 1 \in 0..m /\ ~ (s <= (k - 1) + l)
    BY <1>1, <1>6, <1>9
  <2>2. QED BY <1>6, <1>7, <1>9, <2>1
<1>10. CASE l > 0 /\ vp[l] = vp[l - 1]
  <2>1. l - 1 \in 0..n /\ ~ (s <= k + (l - 1))
    BY <1>1, <1>6, <1>10
  <2>2. QED BY <1>6, <1>7, <1>10, <2>1
<1>11. CASE k = 0 /\ l = 0
  BY <1>1, <1>2, <1>6, <1>8, <1>11
<1>12. ASSUME NEW t, IsLevel(t) PROVE Round(t) = t \/ Round(t)[1][1] = "node"
  <2>1. CASE Len(t) > 1
    <3>1. Round(t) = PairUp(t) /\ 1 \in 1..((Len(t) + 1) \div 2)
      BY <2>1, <1>12, LevelDomain, HalfOf DEF Round
    <3>2. QED BY <1>12, <3>1, PairUpLevel
  <2>2. QED BY <2>1 DEF Round
<1>13. CASE k > 0 /\ l = 0
  <2>1. k - 1 \in 0..m /\ up[k] = Round(up[k - 1]) /\ vp[l] = Leaves(B)
    BY <1>1, <1>2, <1>6, <1>13
  <2>2. up[k] = up[k - 1] \/ up[k][1][1] = "node"
    BY <1>3, <1>12, <2>1
  <2>3. vp[l][1][1] = "leaf"
    BY <2>1, LeavesAreLevel
  <2>4. QED BY <1>6, <1>9, <1>13, <2>2, <2>3
<1>14. CASE k = 0 /\ l > 0
  <2>1. l - 1 \in 0..n /\ vp[l] = Round(vp[l - 1]) /\ up[k] = Leaves(A)
    BY <1>1, <1>2, <1>6, <1>14
  <2>2. vp[l] = vp[l - 1] \/ vp[l][1][1] = "node"
    BY <1>3, <1>12, <2>1
  <2>3. up[k][1][1] = "leaf"
    BY <2>1, LeavesAreLevel
  <2>4. QED BY <1>6, <1>10, <1>14, <2>2, <2>3
<1>15. CASE k > 0 /\ l > 0
  <2>1. /\ k - 1 \in 0..m /\ up[k] = Round(up[k - 1])
        /\ l - 1 \in 0..n /\ vp[l] = Round(vp[l - 1])
    BY <1>1, <1>2, <1>6, <1>15
  <2>2. CASE up[k] # up[k - 1] /\ vp[l] # vp[l - 1]
    <3>1. up[k] = PairUp(up[k - 1]) /\ vp[l] = PairUp(vp[l - 1])
      BY <2>1, <2>2 DEF Round
    <3>2. up[k - 1] = vp[l - 1]
      BY <1>3, <1>6, <2>1, <3>1, PairUpTells
    <3>3. ~ (s <= (k - 1) + (l - 1))
      BY <1>1, <1>6, <2>1
    <3>4. QED BY <1>7, <2>1, <3>2, <3>3
  <2>3. QED BY <1>9, <1>10, <1>15, <2>2
<1>16. QED BY <1>1, <1>6, <1>11, <1>13, <1>14, <1>15

(* Two lists of leaves, each of leaves that differ, have the same root only *)
(* if they are the same list, however long either is: padding an odd level *)
(* with its last hash, the prefixes of leaves and nodes and the digest of  *)
(* the empty tree leave no two alike (checkpoint.py:31-42).                *)
THEOREM RootTellsLeaves ==
  ASSUME NEW A, NEW B,
         A = <<>> \/ (IsLevel(A) /\ Distinct(A)),
         B = <<>> \/ (IsLevel(B) /\ Distinct(B)),
         MerkleRoot(A) = MerkleRoot(B)
  PROVE  A = B
<1>1. ASSUME NEW C, IsLevel(C), Distinct(C)
      PROVE  LET top == Levels(C)[Len(C)]
             IN  /\ C # <<>> /\ Len(C) \in 0..Len(C) /\ MerkleRoot(C) = top[1]
                 /\ top = [x \in 1..1 |-> MerkleRoot(C)]
                 /\ MerkleRoot(C)[1] \in {"leaf", "node"}
  <2> DEFINE n == Len(C)
             top == Levels(C)[n]
  <2>1. n \in Nat /\ n > 0 /\ n \in 0..n
    BY <1>1, LevelDomain
  <2>2. IsLevel(top) /\ Labelled(top) /\ Shrunk(top, n, n)
    BY <1>1, <2>1, LevelsKeep
  <2>3. C # <<>>
    BY <2>1
  <2>4. MerkleRoot(C) = top[1]
    BY <2>3 DEF MerkleRoot
  <2> HIDE DEF top, n
  <2>5. Len(top) = 1
    BY <2>1, <2>2, LevelDomain DEF Shrunk
  <2>6. top = [x \in 1..1 |-> top[x]] /\ DOMAIN top = 1..1
    BY <2>2, <2>5, LevelDomain
  <2>7. top = [x \in 1..1 |-> top[1]]
    BY <2>6
  <2>8. top[1][1] \in {"leaf", "node"}
    BY <2>2, <2>6 DEF Labelled
  <2>9. QED BY <2>1, <2>3, <2>4, <2>7, <2>8 DEF top, n
<1>2. MerkleRoot(<<>>)[1] = "empty"
  BY DEF MerkleRoot
<1>3. CASE A = <<>>
  BY <1>1, <1>2, <1>3
<1>4. CASE B = <<>>
  BY <1>1, <1>2, <1>4
<1>5. CASE IsLevel(A) /\ Distinct(A) /\ IsLevel(B) /\ Distinct(B)
  <2>1. Levels(A)[Len(A)] = Levels(B)[Len(B)]
    BY <1>1, <1>5
  <2>2. Len(A) \in 0..Len(A) /\ Len(B) \in 0..Len(B)
    BY <1>1, <1>5
  <2>3. QED BY <1>5, <2>1, <2>2, LevelsTell
<1>6. QED BY <1>3, <1>4, <1>5

-----------------------------------------------------------------------------
(* The leaves: one per agent there is, in the order of the ids.            *)
Known(heads) == {a \in Agent : heads[a] >= 0}
Place(K, a) == Cardinality({x \in K : x <= a})

(* Each place from the first to the last is that of one agent. *)
LEMMA PlacesAreFilled ==
  ASSUME NEW K \in SUBSET Nat, IsFiniteSet(K)
  PROVE  LET n == Cardinality(K)
         IN  /\ n \in Nat
             /\ \A a \in K : Place(K, a) \in 1..n
             /\ \A a, b \in K : Place(K, a) = Place(K, b) => a = b
             /\ \A i \in 1..n : \E a \in K : Place(K, a) = i
<1> DEFINE n == Cardinality(K)
           UpTo(a) == {x \in K : x <= a}
<1>1. n \in Nat
  BY FS_CardinalityType
<1>2. ASSUME NEW a \in K
      PROVE  IsFiniteSet(UpTo(a)) /\ Cardinality(UpTo(a)) \in 1..n
  <2>1. UpTo(a) \in SUBSET K /\ a \in UpTo(a)
    OBVIOUS
  <2>2. IsFiniteSet(UpTo(a)) /\ Cardinality(UpTo(a)) <= n
    BY <2>1, FS_Subset
  <2>3. Cardinality(UpTo(a)) \in Nat /\ Cardinality(UpTo(a)) # 0
    <3> HIDE DEF UpTo
    <3>1. UpTo(a) # {}
      BY <2>1
    <3>2. QED BY <2>2, <3>1, FS_CardinalityType, FS_EmptySet
  <2>4. QED BY <1>1, <2>2, <2>3
<1>3. ASSUME NEW a \in K, NEW b \in K, a < b
      PROVE  Cardinality(UpTo(a)) # Cardinality(UpTo(b))
  <2>1. UpTo(a) \in SUBSET UpTo(b) /\ UpTo(a) # UpTo(b)
    <3>1. a \in Nat /\ b \in Nat
      OBVIOUS
    <3>2. \A x \in UpTo(a) : x \in UpTo(b)
      BY <1>3, <3>1
    <3>3. b \in UpTo(b) /\ b \notin UpTo(a)
      BY <1>3, <3>1
    <3>4. QED BY <3>2, <3>3
  <2> HIDE DEF UpTo
  <2>2. QED BY <1>2, <2>1, FS_Subset
<1>4. ASSUME NEW a \in K, NEW b \in K, Cardinality(UpTo(a)) = Cardinality(UpTo(b))
      PROVE  a = b
  <2>1. a \in Nat /\ b \in Nat
    OBVIOUS
  <2> HIDE DEF UpTo
  <2>2. ~ (a < b) /\ ~ (b < a)
    BY <1>3, <1>4
  <2>3. QED BY <2>1, <2>2
<1> DEFINE f == [a \in K |-> Cardinality(UpTo(a))]
<1>5. f \in Surjection(K, 1..n)
  <2>1. f \in Injection(K, 1..n)
    <3>1. f \in [K -> 1..n]
      BY <1>2
    <3>2. \A a, b \in K : f[a] = f[b] => a = b
      BY <1>4
    <3> HIDE DEF f
    <3>3. QED BY <3>1, <3>2 DEF Injection, IsInjective
  <2>2. IsFiniteSet(1..n) /\ Cardinality(1..n) = n
    BY <1>1, FS_Interval
  <2> HIDE DEF f
  <2>3. QED BY <2>1, <2>2, FS_Injection
<1>6. ASSUME NEW i \in 1..n PROVE \E a \in K : Cardinality(UpTo(a)) = i
  <2>1. PICK a \in K : f[a] = i
    <3> HIDE DEF f
    <3>1. QED BY <1>5 DEF Surjection
  <2>2. QED BY <2>1
<1>7. QED BY <1>1, <1>2, <1>4, <1>6 DEF Place

LEMMA LeafOf ==
  ASSUME NEW heads, IsFiniteSet(Known(heads))
  PROVE  LET n == Cardinality(Known(heads))
             leaves == CustodyLeaves(heads)
         IN  /\ n \in Nat /\ DOMAIN leaves = 1..n
             /\ leaves = [i \in 1..n |-> leaves[i]]
             /\ \A i \in 1..n : \E a \in Known(heads) :
                  Place(Known(heads), a) = i /\ leaves[i] = <<a, heads[a]>>
             /\ \A a \in Known(heads) : \E i \in 1..n : leaves[i] = <<a, heads[a]>>
<1> DEFINE K == Known(heads)
           n == Cardinality(K)
           sorted == [i \in 1..n |-> CHOOSE a \in K : Place(K, a) = i]
           leaves == CustodyLeaves(heads)
<1>1. leaves = [i \in DOMAIN sorted |-> <<sorted[i], heads[sorted[i]]>>]
  BY Zenon DEF CustodyLeaves, Known, Place
<1>2. K \in SUBSET Nat
  BY ForensicsConstants DEF Known
<1> HIDE DEF K, leaves
<1>3. /\ n \in Nat /\ \A a \in K : Place(K, a) \in 1..n
      /\ \A a, b \in K : Place(K, a) = Place(K, b) => a = b
      /\ \A i \in 1..n : \E a \in K : Place(K, a) = i
  <2>1. IsFiniteSet(K)
    BY DEF K
  <2>2. QED BY <1>2, <2>1, PlacesAreFilled
<1> HIDE DEF n
<1>4. ASSUME NEW i \in 1..n PROVE sorted[i] \in K /\ Place(K, sorted[i]) = i
  BY <1>3
<1>5. ASSUME NEW a \in K PROVE sorted[Place(K, a)] = a
  BY <1>3, <1>4
<1> HIDE DEF sorted
<1>6. DOMAIN sorted = 1..n
  BY DEF sorted
<1>7. leaves = [i \in 1..n |-> <<sorted[i], heads[sorted[i]]>>]
  BY <1>1, <1>6
<1>8. \A i \in 1..n : \E a \in K : Place(K, a) = i /\ leaves[i] = <<a, heads[a]>>
  BY <1>4, <1>7
<1>9. \A a \in K : \E i \in 1..n : leaves[i] = <<a, heads[a]>>
  BY <1>3, <1>5, <1>7
<1>10. DOMAIN leaves = 1..n /\ leaves = [i \in 1..n |-> leaves[i]]
  BY <1>7
<1>11. QED BY <1>3, <1>8, <1>9, <1>10 DEF K, n, leaves

LEMMA LeavesAreDistinct ==
  ASSUME NEW heads, IsFiniteSet(Known(heads))
  PROVE  LET leaves == CustodyLeaves(heads)
         IN  leaves = <<>> \/ (IsLevel(leaves) /\ Distinct(leaves))
<1> DEFINE n == Cardinality(Known(heads))
           leaves == CustodyLeaves(heads)
<1>1. /\ n \in Nat /\ DOMAIN leaves = 1..n
      /\ leaves = [i \in 1..n |-> leaves[i]]
      /\ \A i \in 1..n : \E a \in Known(heads) :
           Place(Known(heads), a) = i /\ leaves[i] = <<a, heads[a]>>
  BY LeafOf
<1> HIDE DEF n, leaves
<1>2. CASE n = 0
  <2>1. leaves = <<>>
    BY <1>1, <1>2
  <2>2. QED BY <2>1 DEF leaves
<1>3. CASE n > 0
  <2>1. IsLevel(leaves)
    BY <1>1, <1>3, SeqFrom DEF IsLevel
  <2>2. Distinct(leaves)
    <3>1. ASSUME NEW i \in 1..n, NEW j \in 1..n, leaves[i] = leaves[j] PROVE i = j
      <4>1. PICK a \in Known(heads) :
              Place(Known(heads), a) = i /\ leaves[i] = <<a, heads[a]>>
        BY <1>1
      <4>2. PICK b \in Known(heads) :
              Place(Known(heads), b) = j /\ leaves[j] = <<b, heads[b]>>
        BY <1>1
      <4>3. a = b
        <5>1. leaves[i][1] = a
          BY <4>1
        <5>2. leaves[j][1] = b
          BY <4>2
        <5>3. QED BY <3>1, <5>1, <5>2
      <4>4. QED BY <4>1, <4>2, <4>3
    <3>2. QED BY <1>1, <3>1 DEF Distinct
  <2>3. QED BY <2>1, <2>2 DEF leaves
<1>4. QED BY <1>1, <1>2, <1>3

(* A root tells the heads it was computed from. *)
LEMMA RootTellsHeads ==
  ASSUME NEW g \in HeadRows, NEW h \in HeadRows,
         IsFiniteSet(Known(g)), IsFiniteSet(Known(h)), Root(g) = Root(h)
  PROVE  g = h
<1>1. CustodyLeaves(g) = CustodyLeaves(h)
  BY RootTellsLeaves, LeavesAreDistinct DEF Root
<1>2. ASSUME NEW x \in HeadRows, NEW y \in HeadRows,
             IsFiniteSet(Known(x)), IsFiniteSet(Known(y)),
             CustodyLeaves(x) = CustodyLeaves(y), NEW a \in Known(x)
      PROVE  a \in Known(y) /\ x[a] = y[a]
  <2> DEFINE m == Cardinality(Known(x))
             n == Cardinality(Known(y))
  <2>1. PICK i \in 1..m : CustodyLeaves(x)[i] = <<a, x[a]>>
    BY <1>2, LeafOf
  <2>2. DOMAIN CustodyLeaves(x) = 1..m /\ DOMAIN CustodyLeaves(y) = 1..n
    BY <1>2, LeafOf
  <2>3. i \in 1..n
    BY <1>2, <2>2
  <2>4. PICK b \in Known(y) : CustodyLeaves(y)[i] = <<b, y[b]>>
    BY <1>2, <2>3, LeafOf
  <2>5. QED BY <1>2, <2>1, <2>4
<1>3. ASSUME NEW a \in Agent PROVE g[a] = h[a]
  <2>1. CASE a \in Known(g)
    BY <1>1, <1>2, <2>1
  <2>2. CASE a \in Known(h)
    BY <1>1, <1>2, <2>2
  <2>3. CASE a \notin Known(g) /\ a \notin Known(h)
    <3>1. g[a] = -1 /\ h[a] = -1
      BY <2>3 DEF Known, HeadRows
    <3>2. QED BY <3>1
  <2>4. QED BY <2>1, <2>2, <2>3
<1>4. QED BY <1>3 DEF HeadRows

-----------------------------------------------------------------------------
(* The agents of a tenant are finitely many, so their heads have a tree:   *)
(* each is one of those enrolled at first or was created by a step.        *)
LEMMA AgentsFinite == Spec => []IsFiniteSet(Agents)
<1>1. Init => IsFiniteSet(Agents)
  <2> SUFFICES ASSUME Init PROVE IsFiniteSet(Agents)
    OBVIOUS
  <2>1. \A a \in Agent : head[a] >= 0 <=> a \in Enrolled
    BY DEF Init
  <2>2. Agents = Enrolled
    BY <2>1, ForensicsConstants DEF Agents
  <2>3. QED BY <2>2, ForensicsConstants
<1>2. TypeOK /\ IsFiniteSet(Agents) /\ [Next]_vars => IsFiniteSet(Agents)'
  <2> SUFFICES ASSUME TypeOK, IsFiniteSet(Agents), [Next]_vars PROVE IsFiniteSet(Agents)'
    OBVIOUS
  <2>1. CASE UNCHANGED head
    <3>1. Agents' = Agents
      BY <2>1 DEF Agents
    <3>2. QED BY <3>1
  <2>2. ASSUME NEW a \in Agent, CreateAgent(a) PROVE IsFiniteSet(Agents)'
    <3>1. Agents' = Agents \cup {a}
      BY <2>2 DEF CreateAgent, Agents, TypeOK, HeadRows
    <3>2. QED BY <3>1, FS_AddElement
  <2>3. ASSUME NEW b \in Belief, WriteBelief(b) PROVE IsFiniteSet(Agents)'
    <3> DEFINE o == Owner[b]
    <3>1. /\ head \in [Agent -> Nat \cup {-1}] /\ o \in Agent /\ head[o] >= 0
          /\ head' = [head EXCEPT ![o] = head[o] + 1]
      BY <2>3 DEF WriteBelief, Agents, TypeOK, HeadRows
    <3> HIDE DEF o
    <3>2. \A a \in Agent : head'[a] >= 0 <=> head[a] >= 0
      BY <3>1
    <3>3. Agents' = Agents
      BY <3>2 DEF Agents
    <3>4. QED BY <3>3
  <2>4. QED
    BY <2>1, <2>2, <2>3 DEF Next, vars, ledgerVars, checkpointVars, archiveVars,
       DeleteByTTL, Recant, Begin, Commit, Publish, PublishFails, SetUri,
       ReadSummary, ReadCustody, PutIncident, PutCustody, ArchiveAnswers
<1>3. QED BY <1>1, <1>2, ForensicsTypeCorrect, PTL DEF Spec

(* Equal roots mean equal heads, between any two checkpoints and between a *)
(* checkpoint and the state now, for any number of agents.                 *)
THEOREM RootsTellStatesApart == Spec => []RootsTellHeadsApart
<1>1. CustodyInv /\ IsFiniteSet(Agents) => RootsTellHeadsApart
  <2> SUFFICES ASSUME CustodyInv, IsFiniteSet(Agents) PROVE RootsTellHeadsApart
    OBVIOUS
  <2> DEFINE states == {head} \cup {rows[i].heads : i \in DOMAIN rows}
  <2>1. head \in HeadRows /\ Known(head) = Agents
    BY DEF CustodyInv, TypeOK, Known, Agents
  <2>2. ASSUME NEW i \in DOMAIN rows
        PROVE  rows[i].heads \in HeadRows /\ IsFiniteSet(Known(rows[i].heads))
    <3>1. rows[i].heads \in HeadRows
      BY RowTyped DEF CustodyInv
    <3>2. \A a \in Agent : rows[i].heads[a] <= head[a]
      BY DEF CustodyInv, RowsBelong
    <3>3. Known(rows[i].heads) \in SUBSET Agents
      BY <2>1, <3>1, <3>2 DEF Known, HeadRows
    <3>4. QED BY <3>1, <3>3, FS_Subset
  <2>3. \A h \in states : h \in HeadRows /\ IsFiniteSet(Known(h))
    BY <2>1, <2>2
  <2>4. \A g, h \in states : Root(g) = Root(h) => g = h
    BY <2>3, RootTellsHeads
  <2> HIDE DEF states
  <2>5. \A p, q \in {<<Root(h), h>> : h \in states} : p[1] = q[1] => p[2] = q[2]
    BY <2>4
  <2>6. QED BY <2>5, Zenon DEF RootsTellHeadsApart, states
<1>2. QED BY <1>1, CustodyHolds, AgentsFinite, PTL

-----------------------------------------------------------------------------
(* The one recant of this module, as an event of the lifecycle. *)
Incidents == {1}
OpenedHere == IF incident = NoIncident THEN {} ELSE Incidents
FlippedHere == [e \in Incidents |-> IF incident = NoIncident THEN {} ELSE incident]
Life == INSTANCE Lifecycle WITH
  Event <- Incidents, status <- belief, opened <- OpenedHere, flipped <- FlippedHere

LEMMA RecantIsFlip ==
  ASSUME NEW F \in SUBSET Belief, Recant(F) PROVE Life!Flip(1, F)
<1>1. F # NoIncident
  BY ForensicsConstants
<1>2. incident = NoIncident /\ incident' = F
  BY DEF Recant
<1>3. FlippedHere' = [FlippedHere EXCEPT ![1] = F]
  BY <1>1, <1>2 DEF FlippedHere, Incidents
<1>4. OpenedHere = {} /\ OpenedHere' = OpenedHere \cup {1}
  BY <1>1, <1>2 DEF OpenedHere, Incidents
<1>5. QED BY <1>3, <1>4 DEF Recant, Life!Flip

LEMMA LifeStep == [Next]_vars => [Life!Next]_(Life!vars)
<1> SUFFICES ASSUME [Next]_vars PROVE [Life!Next]_(Life!vars)
  OBVIOUS
<1>1. ASSUME UNCHANGED incident PROVE UNCHANGED <<OpenedHere, FlippedHere>>
  BY <1>1 DEF OpenedHere, FlippedHere
<1>2. ASSUME \/ UNCHANGED vars
             \/ \E a \in Agent : CreateAgent(a)
             \/ \E c \in Call :
                  Begin(c) \/ Commit(c) \/ Publish(c) \/ PublishFails(c) \/ SetUri(c)
             \/ \E c \in Call : ReadSummary(c) \/ PutIncident(c) \/ ArchiveAnswers(c)
             \/ \E c \in Call, a \in Agent : ReadCustody(c, a) \/ PutCustody(c, a)
      PROVE  UNCHANGED <<belief, incident>>
  BY <1>2 DEF vars, ledgerVars, CreateAgent, Begin, Commit, Publish, PublishFails, SetUri,
              ReadSummary, PutIncident, ArchiveAnswers, ReadCustody, PutCustody
<1>3. ASSUME NEW b \in Belief, WriteBelief(b) PROVE Life!Next
  <2>1. Life!Write(b, "active")
    BY <1>1, <1>3 DEF WriteBelief, Life!Write
  <2>2. QED BY <2>1 DEF Life!Next
<1>4. ASSUME NEW b \in Belief, DeleteByTTL(b) PROVE Life!Next
  <2>1. Life!Delete(b)
    BY <1>1, <1>4 DEF DeleteByTTL, Present, Life!Delete
  <2>2. QED BY <2>1 DEF Life!Next
<1>5. ASSUME NEW F \in SUBSET Belief, Recant(F) PROVE Life!Next
  BY <1>5, RecantIsFlip DEF Life!Next, Incidents
<1>6. QED BY <1>1, <1>2, <1>3, <1>4, <1>5 DEF Next, Life!vars

(* What checkpoints and archives read is a ledger that keeps to the        *)
(* lifecycle (LedgerKeepsLifecycle).                                       *)
THEOREM ForensicsKeepsLifecycle == Spec => Life!Spec
<1>1. Init => Life!Init
  BY DEF Init, Life!Init, OpenedHere, FlippedHere, Incidents
<1>2. QED BY <1>1, LifeStep, PTL DEF Spec, Life!Spec
=============================================================================
