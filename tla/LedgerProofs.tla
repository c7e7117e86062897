---------------------------- MODULE LedgerProofs ----------------------------
(***************************************************************************)
(* Theorems about Ledger, for any number of agents, sources, beliefs and   *)
(* recants.                                                                *)
(*                                                                         *)
(* A recant flips what is reachable from the beliefs citing its source, so *)
(* it silences a source only if every belief that lists the source among   *)
(* its origins is reachable that way.  That is Rooted, the strengthening   *)
(* the main theorem needs: writes keep it because a new belief inherits    *)
(* origins only from parents it is linked to, and the TTL job because the  *)
(* row it deletes starts no derivation.                                    *)
(***************************************************************************)
EXTENDS Ledger, Facts

LEMMA RowTyped ==
  ASSUME TypeOK, NEW b \in Written
  PROVE  /\ b \in Belief /\ belief[b] \in Row
         /\ belief[b].status \in Status
         /\ belief[b].rank \in Nat /\ belief[b].origins \subseteq Source
BY DEF TypeOK, Written, Row

LEMMA RowIsNotAbsent == \A r \in Row : r # Absent
BY DEF Row, Absent, Status

LEMMA QuarantinedRow ==
  ASSUME NEW r \in Row, NEW q, q = [r EXCEPT !.status = "quarantined"]
  PROVE  /\ q \in Row /\ q.status = "quarantined"
         /\ q.origins = r.origins /\ q.rank = r.rank /\ q.source = r.source
         /\ q.agent = r.agent /\ q.seq = r.seq /\ q.prev = r.prev
BY DEF Row, Status

(* The authority computed for a belief is at most each of its inputs.      *)
LEMMA AuthorityIsLeast ==
  ASSUME TypeOK, NEW s \in Source \cup {NoSource}, NEW parents \in SUBSET Written
  PROVE  /\ Authority(s, parents) \in Nat
         /\ \A p \in parents : Authority(s, parents) <= belief[p].rank
<1> DEFINE inputs == {belief[p].rank : p \in parents}
                       \cup (IF s = NoSource THEN {} ELSE {Rank[s]})
<1>1. inputs \in SUBSET Nat
  BY RowTyped, LedgerConstants
<1>2. \A p \in parents : belief[p].rank \in inputs
  OBVIOUS
<1>3. Authority(s, parents) =
        IF inputs = {} THEN 0 ELSE CHOOSE r \in inputs : \A q \in inputs : r <= q
  BY DEF Authority
<1> HIDE DEF inputs
<1>4. CASE inputs = {}
  BY <1>2, <1>3, <1>4
<1>5. CASE inputs # {}
  <2>1. \E r \in inputs : \A q \in inputs : r <= q
    BY <1>1, <1>5, NatMin
  <2>2. Authority(s, parents) = CHOOSE r \in inputs : \A q \in inputs : r <= q
    BY <1>3, <1>5
  <2>3. /\ Authority(s, parents) \in inputs
        /\ \A q \in inputs : Authority(s, parents) <= q
    BY <2>1, <2>2
  <2>4. QED BY <1>1, <1>2, <2>3
<1>6. QED BY <1>4, <1>5

-----------------------------------------------------------------------------
(* What each action does to the rows. *)
LEMMA CreateEffect ==
  ASSUME TypeOK,
         NEW b \in Belief, NEW a \in Agent, NEW c \in Content,
         NEW s \in Source \cup {NoSource},
         NEW P \in SUBSET Present, NEW R \in SUBSET Present,
         CreateBelief(b, a, c, s, P, R)
  PROVE  /\ belief'[b] \in Row
         /\ belief'[b].status = Born(s, P \cup R)
         /\ belief'[b].source = s
         /\ belief'[b].rank = Authority(s, P \cup R)
         /\ belief'[b].origins = Origins(s, P \cup R)
         /\ \A x \in Belief : x # b => belief'[x] = belief[x]
         /\ b \notin Written
         /\ Written' = Written \cup {b} /\ Present' = Present \cup {b}
<1> DEFINE row == [agent |-> a, seq |-> head[a].seq + 1, prev |-> head[a].hash,
                   content |-> c, source |-> s, rank |-> Authority(s, P \cup R),
                   origins |-> Origins(s, P \cup R), status |-> Born(s, P \cup R)]
<1>1. /\ belief' = [belief EXCEPT ![b] = row]
      /\ b \notin Written
      /\ explicit' = explicit \cup {<<p, b>> : p \in P \cup R}
  BY DEF CreateBelief
<1>2. Authority(s, P \cup R) \in Nat
  BY AuthorityIsLeast DEF Present
<1>3. Origins(s, P \cup R) \subseteq Source
  BY RowTyped DEF Origins, Present
<1>4. Born(s, P \cup R) \in {"active", "suspect"}
  BY DEF Born
<1>5. head[a].seq + 1 \in Nat /\ head[a].hash \in Belief \cup {Genesis}
  BY DEF TypeOK
<1>6. row \in Row
  BY <1>2, <1>3, <1>4, <1>5 DEF Row, Status
<1>7. belief'[b] = row /\ \A x \in Belief : x # b => belief'[x] = belief[x]
  BY <1>1 DEF TypeOK
<1>8. row.status = Born(s, P \cup R) /\ row.status # "gone"
  BY <1>4
<1>9. row # Absent
  BY <1>6, RowIsNotAbsent
<1> HIDE DEF row
<1>10. Written' = Written \cup {b}
  BY <1>7, <1>9 DEF Written
<1>11. Present' = Present \cup {b}
  BY <1>1, <1>7, <1>8, <1>10 DEF Present, Written
<1>12. QED BY <1>1, <1>6, <1>7, <1>10, <1>11 DEF row

LEMMA RecantEffect ==
  ASSUME TypeOK,
         NEW i \in Incident, NEW s \in Registered, NEW C \in SUBSET Present,
         NEW partial \in BOOLEAN, NEW joins \in SUBSET (C \X C),
         Recant(i, s, C, joins, partial)
  PROVE  /\ \A x \in Belief :
              /\ belief[x] \in Row => belief'[x] \in Row
              /\ belief'[x].origins = belief[x].origins
              /\ belief'[x].rank = belief[x].rank
              /\ belief'[x].source = belief[x].source
              /\ belief'[x].status = IF x \in NewlyFlipped(C) THEN "quarantined"
                                     ELSE belief[x].status
         /\ belief' \in [Belief -> Row \cup {Absent}]
         /\ Written' = Written /\ Present' = Present
         /\ Opened' = Opened \cup {i} /\ i \notin Opened
         /\ Recanted' = Recanted \cup {s}
<1>1. belief' = [x \in Belief |-> IF x \in NewlyFlipped(C)
                                  THEN [belief[x] EXCEPT !.status = "quarantined"]
                                  ELSE belief[x]]
  BY DEF Recant
<1>2. \A x \in NewlyFlipped(C) : x \in Present /\ belief[x] \in Row
  BY RowTyped DEF NewlyFlipped, Present
<1>3. \A x \in NewlyFlipped(C) : belief'[x] = [belief[x] EXCEPT !.status = "quarantined"]
  BY <1>1, <1>2, RowTyped DEF Present
<1>4. \A x \in Belief : x \notin NewlyFlipped(C) => belief'[x] = belief[x]
  BY <1>1
<1>5. \A x \in NewlyFlipped(C) :
        /\ belief'[x] \in Row /\ belief'[x].status = "quarantined"
        /\ belief'[x].origins = belief[x].origins
        /\ belief'[x].rank = belief[x].rank
        /\ belief'[x].source = belief[x].source
  BY <1>2, <1>3, QuarantinedRow
<1>6. Written' = Written
  BY <1>2, <1>4, <1>5, RowIsNotAbsent DEF Written, Present
<1>7. Present' = Present
  BY <1>2, <1>4, <1>5, <1>6, RowTyped DEF Present
<1>8. belief' \in [Belief -> Row \cup {Absent}]
  BY <1>1, <1>3, <1>4, <1>5 DEF TypeOK
<1>9. /\ i \notin Opened
      /\ incident' = [incident EXCEPT ![i] =
           [open |-> TRUE, source |-> s, partial |-> partial, flipped |-> NewlyFlipped(C)]]
  BY DEF Recant
<1>10. /\ incident'[i].open /\ incident'[i].source = s
       /\ \A j \in Incident : j # i => incident'[j] = incident[j]
  BY <1>9 DEF TypeOK
<1>11. Opened' = Opened \cup {i}
  BY <1>10 DEF Opened
<1>12. Recanted' = Recanted \cup {s}
  BY <1>9, <1>10, <1>11 DEF Recanted, Opened
<1>13. QED BY <1>4, <1>5, <1>6, <1>7, <1>8, <1>9, <1>11, <1>12

(* The TTL job takes one row, which no derivation touches.                 *)
LEMMA DeleteEffect ==
  ASSUME TypeOK, NEW b \in Belief, DeleteByTTL(b)
  PROVE  /\ belief' \in [Belief -> Row \cup {Absent}]
         /\ belief'[b].status = "gone"
         /\ \A x \in Belief : x # b => belief'[x] = belief[x]
         /\ Written' = Written /\ Present' = Present \ {b}
         /\ \A e \in Derived : b # e[1] /\ b # e[2]
         /\ \A t \in relation : b # t[1] /\ b # t[2]
<1>1. /\ b \in Present /\ belief[b] \in Row
      /\ belief' = [belief EXCEPT ![b].status = "gone"]
  BY RowTyped DEF DeleteByTTL, Present
<1>2. /\ belief'[b] = [belief[b] EXCEPT !.status = "gone"]
      /\ \A x \in Belief : x # b => belief'[x] = belief[x]
  BY <1>1 DEF TypeOK
<1>3. belief'[b] \in Row /\ belief'[b].status = "gone"
  BY <1>1, <1>2 DEF Row, Status
<1>4. belief' \in [Belief -> Row \cup {Absent}]
  BY <1>1, <1>2, <1>3 DEF TypeOK
<1>5. Written' = Written
  BY <1>1, <1>2, <1>3, RowIsNotAbsent DEF Written, Present
<1>6. Present' = Present \ {b}
  BY <1>2, <1>3, <1>5 DEF Present, Written
<1>7. QED BY <1>2, <1>3, <1>4, <1>5, <1>6 DEF DeleteByTTL, Referenced

-----------------------------------------------------------------------------
LEMMA TypeStep == TypeOK /\ [Next]_vars => TypeOK'
<1> SUFFICES ASSUME TypeOK, [Next]_vars PROVE TypeOK'
  OBVIOUS
<1>1. CASE UNCHANGED vars
  BY <1>1 DEF TypeOK, vars, Present, Written
<1>2. ASSUME NEW s \in Source, CreateSource(s) PROVE TypeOK'
  <2>1. Written \subseteq Belief
    BY DEF Written
  <2>2. source' \in [Source -> [known : {TRUE}, before : SUBSET Belief] \cup {Unregistered}]
    BY <1>2, <2>1 DEF CreateSource, TypeOK
  <2>3. QED BY <1>2, <2>2 DEF CreateSource, TypeOK, Present, Written
<1>3. ASSUME NEW b \in Belief, NEW a \in Agent, NEW c \in Content,
             NEW s \in Source \cup {NoSource},
             NEW P \in SUBSET Present, NEW R \in SUBSET Present,
             CreateBelief(b, a, c, s, P, R)
      PROVE  TypeOK'
  <2>1. /\ belief'[b] \in Row /\ Present' = Present \cup {b}
        /\ \A x \in Belief : x # b => belief'[x] = belief[x]
        /\ explicit' = explicit \cup {<<p, b>> : p \in P \cup R}
    <3>1. belief'[b] \in Row
      BY <1>3, CreateEffect
    <3>2. Present' = Present \cup {b}
      BY <1>3, CreateEffect
    <3>3. \A x \in Belief : x # b => belief'[x] = belief[x]
      BY <1>3, CreateEffect
    <3>4. explicit' = explicit \cup {<<p, b>> : p \in P \cup R}
      BY <1>3 DEF CreateBelief
    <3>5. QED BY <3>1, <3>2, <3>3, <3>4
  <2>2. belief' \in [Belief -> Row \cup {Absent}]
    BY <1>3, <2>1 DEF CreateBelief, TypeOK
  <2>3. head' \in [Agent -> [seq : Nat, hash : Belief \cup {Genesis}]]
    <3>1. Advance(a, b) \in [seq : Nat, hash : Belief \cup {Genesis}]
      BY DEF Advance, TypeOK
    <3>2. QED BY <1>3, <3>1 DEF CreateBelief, TypeOK
  <2>4. explicit' \subseteq Present' \X Present'
    BY <2>1 DEF TypeOK
  <2>5. relation' \subseteq Present' \X Present' \X RelationKind
    <3>1. relation' \subseteq relation \cup {<<o, b, "equivalent">> : o \in Present}
      BY <1>3 DEF CreateBelief
    <3>2. QED BY <2>1, <3>1 DEF TypeOK, RelationKind
  <2>6. UNCHANGED <<source, inferred, incident>>
    BY <1>3 DEF CreateBelief
  <2>7. QED BY <2>1, <2>2, <2>3, <2>4, <2>5, <2>6 DEF TypeOK
<1>4. ASSUME NEW l \in Present, NEW r \in Present, NEW kind \in Verdicts,
             VerifyRelation(l, r, kind)
      PROVE  TypeOK'
  <2>1. relation' \subseteq Present \X Present \X RelationKind
    <3>1. <<l, r, kind>> \in Present \X Present \X RelationKind
      BY LedgerConstants
    <3>2. relation' \subseteq relation \cup {<<l, r, kind>>}
      BY <1>4 DEF VerifyRelation
    <3>3. QED BY <3>1, <3>2 DEF TypeOK
  <2>2. UNCHANGED <<source, belief, head, explicit, inferred, incident>>
    BY <1>4 DEF VerifyRelation
  <2>3. Present' = Present
    BY <2>2 DEF Present, Written
  <2>4. QED BY <2>1, <2>2, <2>3 DEF TypeOK
<1>5. ASSUME NEW i \in Incident, NEW s \in Registered, NEW C \in SUBSET Present,
             NEW partial \in BOOLEAN, NEW joins \in SUBSET ((C \X C) \cap Joins(s)),
             Recant(i, s, C, joins, partial)
      PROVE  TypeOK'
  <2>1. belief' \in [Belief -> Row \cup {Absent}] /\ Present' = Present
    BY <1>5, RecantEffect
  <2>2. NewlyFlipped(C) \subseteq Belief
    BY DEF NewlyFlipped, Present, Written
  <2>3. incident' \in [Incident -> [open : {TRUE}, source : Source, partial : BOOLEAN,
                                    flipped : SUBSET Belief] \cup {[open |-> FALSE]}]
    BY <1>5, <2>2 DEF Recant, TypeOK, Registered
  <2>4. inferred' \subseteq Present' \X Present'
    BY <1>5, <2>1 DEF Recant, TypeOK
  <2>5. UNCHANGED <<source, head, explicit, relation>>
    BY <1>5 DEF Recant
  <2>6. QED BY <2>1, <2>3, <2>4, <2>5 DEF TypeOK
<1>6. ASSUME NEW b \in Belief, DeleteByTTL(b) PROVE TypeOK'
  <2>1. /\ belief' \in [Belief -> Row \cup {Absent}] /\ Present' = Present \ {b}
        /\ \A e \in Derived : b # e[1] /\ b # e[2]
        /\ \A t \in relation : b # t[1] /\ b # t[2]
    BY <1>6, DeleteEffect
  <2>2. UNCHANGED <<source, head, explicit, inferred, relation, incident>>
    BY <1>6 DEF DeleteByTTL
  <2>3. explicit' \subseteq Present' \X Present' /\ inferred' \subseteq Present' \X Present'
    BY <2>1, <2>2 DEF TypeOK, Derived
  <2>4. relation' \subseteq Present' \X Present' \X RelationKind
    BY <2>1, <2>2 DEF TypeOK
  <2>5. QED BY <2>1, <2>2, <2>3, <2>4 DEF TypeOK
<1>7. QED BY <1>1, <1>2, <1>3, <1>4, <1>5, <1>6 DEF Next

(* Every row keeps its shape, and no derivation or relation ever refers to *)
(* a row that is not there.                                                *)
THEOREM LedgerTypeCorrect == Spec => []TypeOK
<1>1. Init => TypeOK
  BY DEF Init, TypeOK, Present
<1>2. QED BY <1>1, TypeStep, PTL DEF Spec

-----------------------------------------------------------------------------
(* Every belief is reachable from the beliefs that cite each of its        *)
(* origins, so a recant of that origin finds it.                           *)
Rooted ==
  \A b \in Present : \A s \in belief[b].origins : b \in Reach(Derived, Seed(s))

LedgerInv == TypeOK /\ Rooted /\ RecantedOriginsStayOut

LEMMA DerivedTyped == TypeOK => Derived \in SUBSET (Belief \X Belief)
BY DEF TypeOK, Derived, Present, Written

LEMMA SeedTyped == ASSUME NEW s PROVE Seed(s) \in SUBSET Belief
BY DEF Seed, Present, Written

(* A new belief takes its origins from its source and its parents.         *)
LEMMA CreateKeepsInv ==
  ASSUME LedgerInv, TypeOK',
         NEW b \in Belief, NEW a \in Agent, NEW c \in Content,
         NEW s \in Source \cup {NoSource},
         NEW P \in SUBSET Present, NEW R \in SUBSET Present,
         CreateBelief(b, a, c, s, P, R)
  PROVE  LedgerInv'
<1> USE DEF LedgerInv
<1> DEFINE parents == P \cup R
<1>1. /\ belief'[b].status = Born(s, parents)
      /\ belief'[b].source = s
      /\ belief'[b].origins = Origins(s, parents)
  BY CreateEffect
<1>2. /\ \A x \in Belief : x # b => belief'[x] = belief[x]
      /\ Present' = Present \cup {b} /\ b \notin Present
  BY CreateEffect DEF Present
<1>3. /\ explicit' = explicit \cup {<<p, b>> : p \in parents}
      /\ UNCHANGED <<source, inferred, incident>>
  BY DEF CreateBelief
<1>4. Derived \subseteq Derived' /\ \A p \in parents : <<p, b>> \in Derived'
  BY <1>3 DEF Derived
<1>5. \A o : Seed(o) \subseteq Seed(o)'
  BY <1>2 DEF Seed, Present, Written
<1>6. Derived' \in SUBSET (Belief \X Belief)
  BY DEF TypeOK, Derived, Present, Written
<1>7. \A o : Reach(Derived, Seed(o)) \subseteq Reach(Derived', Seed(o)')
  <2> TAKE o
  <2>1. Seed(o)' \in SUBSET Belief
    BY DEF Seed, Present, Written
  <2>2. Seed(o) \subseteq Reach(Derived', Seed(o)')
    BY <1>5, <2>1, ReachBase
  <2>3. QED BY <1>4, <1>6, <2>2, ReachMonotone
<1>8. Rooted'
  <2> SUFFICES ASSUME NEW x \in Present', NEW o \in belief'[x].origins
               PROVE  x \in Reach(Derived', Seed(o)')
    BY DEF Rooted
  <2>1. CASE x # b
    <3>1. x \in Present /\ belief'[x] = belief[x]
      BY <1>2, <2>1 DEF Present, Written
    <3>2. QED BY <1>7, <3>1 DEF Rooted
  <2>2. CASE x = b
    <3>1. o = s \/ \E p \in parents : o \in belief[p].origins
      BY <1>1, <2>2 DEF Origins
    <3>2. CASE o = s
      <4>1. x \in Seed(o)'
        BY <1>1, <2>2, <3>2 DEF Seed
      <4>2. Seed(o)' \in SUBSET Belief
        BY DEF Seed, Present, Written
      <4>3. QED BY <4>1, <4>2, ReachBase
    <3>3. ASSUME NEW p \in parents, o \in belief[p].origins
          PROVE  x \in Reach(Derived', Seed(o)')
      <4>1. p \in Reach(Derived', Seed(o)')
        BY <1>7, <3>3 DEF Rooted
      <4>2. <<p, x>> \in Derived' /\ x \in Belief
        BY <1>4, <2>2
      <4>3. QED BY <4>1, <4>2, ReachStep
    <3>4. QED BY <3>1, <3>2, <3>3
  <2>3. QED BY <2>1, <2>2
<1>9. RecantedOriginsStayOut'
  <2>1. Recanted' = Recanted
    BY <1>3 DEF Recanted, Opened
  <2> SUFFICES ASSUME NEW x \in Active' PROVE belief'[x].origins \cap Recanted = {}
    BY <2>1 DEF RecantedOriginsStayOut
  <2>2. CASE x # b
    BY <1>2, <2>2 DEF RecantedOriginsStayOut, Active, Present, Written
  <2>3. CASE x = b
    <3>1. /\ s \notin Recanted
          /\ \A p \in parents : belief[p].status \notin {"suspect", "quarantined"}
      BY <1>1, <2>3 DEF Active, Born
    <3>2. \A p \in parents : p \in Active
      BY <3>1, RowTyped DEF Active, Present, Status
    <3>3. QED BY <1>1, <2>3, <3>1, <3>2 DEF RecantedOriginsStayOut, Origins
  <2>4. QED BY <2>2, <2>3
<1>10. QED BY <1>8, <1>9

(* A recant flips all that its source reaches; nothing else changes.       *)
LEMMA RecantKeepsInv ==
  ASSUME LedgerInv, TypeOK',
         NEW i \in Incident, NEW s \in Registered, NEW C \in SUBSET Present,
         NEW partial \in BOOLEAN, NEW joins \in SUBSET (C \X C),
         Recant(i, s, C, joins, partial)
  PROVE  LedgerInv'
<1> USE DEF LedgerInv
<1>1. \A x \in Belief :
        /\ belief'[x].origins = belief[x].origins
        /\ belief'[x].source = belief[x].source
        /\ belief'[x].status = IF x \in NewlyFlipped(C) THEN "quarantined"
                               ELSE belief[x].status
  BY RecantEffect
<1>2. Present' = Present /\ Recanted' = Recanted \cup {s}
  <2>1. Present' = Present
    BY RecantEffect
  <2>2. Recanted' = Recanted \cup {s}
    BY RecantEffect
  <2>3. QED BY <2>1, <2>2
<1>3. Derived \subseteq Derived' /\ Derived' \in SUBSET (Belief \X Belief)
  <2>1. Derived \subseteq Derived'
    BY DEF Recant, Derived
  <2>2. Derived' \in SUBSET (Belief \X Belief)
    BY DEF TypeOK, Derived, Present, Written
  <2>3. QED BY <2>1, <2>2
<1>4. \A o : Seed(o)' = Seed(o)
  BY <1>1, <1>2 DEF Seed, Present, Written
<1>5. \A o : Reach(Derived, Seed(o)) \subseteq Reach(Derived', Seed(o)')
  <2> TAKE o
  <2>1. Seed(o) \subseteq Reach(Derived', Seed(o)')
    BY <1>4, SeedTyped, ReachBase
  <2>2. QED BY <1>3, <2>1, ReachMonotone
<1>6. Rooted'
  BY <1>1, <1>2, <1>5 DEF Rooted, Present, Written
<1>7. Reach(Derived, Seed(s)) \subseteq C
  BY DEF Recant, MeetsContract
<1>8. RecantedOriginsStayOut'
  <2> SUFFICES ASSUME NEW x \in Active'
               PROVE  belief'[x].origins \cap (Recanted \cup {s}) = {}
    BY <1>2 DEF RecantedOriginsStayOut
  <2>1. x \in Present /\ x \in Belief
    BY <1>2 DEF Active, Present, Written
  <2>2. x \in Active /\ x \notin C
    BY <1>1, <2>1 DEF Active, NewlyFlipped
  <2>3. s \notin belief[x].origins
    BY <1>7, <2>1, <2>2 DEF Rooted
  <2>4. QED BY <1>1, <2>1, <2>2, <2>3 DEF RecantedOriginsStayOut
<1>9. QED BY <1>6, <1>8

(* The row the TTL job deletes starts no derivation, so whatever was       *)
(* reachable still is.                                                     *)
LEMMA DeleteKeepsInv ==
  ASSUME LedgerInv, TypeOK', NEW b \in Belief, DeleteByTTL(b)
  PROVE  LedgerInv'
<1> USE DEF LedgerInv
<1>1. /\ \A x \in Belief : x # b => belief'[x] = belief[x]
      /\ Present' = Present \ {b}
      /\ \A e \in Derived : b # e[1] /\ b # e[2]
  BY DeleteEffect
<1>2. UNCHANGED <<explicit, inferred, incident>> /\ Derived' = Derived
  BY DEF DeleteByTTL, Derived
<1>3. \A o : Seed(o)' = Seed(o) \ {b}
  BY <1>1 DEF Seed, Present, Written
<1>4. \A o : Reach(Derived, Seed(o)) \subseteq Reach(Derived, Seed(o)') \cup {b}
  <2> TAKE o
  <2> DEFINE T == Reach(Derived, Seed(o)') \cup {b}
  <2>1. Seed(o)' \in SUBSET Belief /\ Derived \in SUBSET (Belief \X Belief)
    BY <1>3, SeedTyped, DerivedTyped
  <2>2. Seed(o) \subseteq T
    BY <1>3, <2>1, ReachBase
  <2>3. ClosedUnder(Derived, Reach(Derived, Seed(o)'))
    BY <2>1, ReachClosed
  <2>4. ClosedUnder(Derived, T)
    BY <1>1, <2>3 DEF ClosedUnder
  <2>5. T \in SUBSET Belief
    BY ReachInBelief
  <2>6. QED BY <2>2, <2>4, <2>5, ReachLeast
<1>5. Rooted'
  <2> SUFFICES ASSUME NEW x \in Present', NEW o \in belief'[x].origins
               PROVE  x \in Reach(Derived, Seed(o)')
    BY <1>2 DEF Rooted
  <2>1. x \in Present /\ x # b /\ belief'[x] = belief[x]
    BY <1>1 DEF Present, Written
  <2>2. QED BY <1>4, <2>1 DEF Rooted
<1>6. RecantedOriginsStayOut'
  <2>1. Recanted' = Recanted
    BY <1>2 DEF Recanted, Opened
  <2>2. \A x \in Active' : x \in Active /\ belief'[x] = belief[x]
    BY <1>1 DEF Active, Present, Written
  <2>3. QED BY <2>1, <2>2 DEF RecantedOriginsStayOut
<1>7. QED BY <1>5, <1>6

LEMMA LedgerInvStep == LedgerInv /\ [Next]_vars => LedgerInv'
<1> SUFFICES ASSUME LedgerInv, [Next]_vars PROVE LedgerInv'
  OBVIOUS
<1>1. TypeOK'
  BY TypeStep DEF LedgerInv
<1>2. ASSUME UNCHANGED <<belief, explicit, inferred, incident>> PROVE LedgerInv'
  BY <1>1, <1>2 DEF LedgerInv, Rooted, RecantedOriginsStayOut, Active, Present,
     Written, Derived, Seed, Recanted, Opened
<1>3. CASE UNCHANGED vars
  BY <1>2, <1>3 DEF vars
<1>4. ASSUME NEW s \in Source, CreateSource(s) PROVE LedgerInv'
  BY <1>2, <1>4 DEF CreateSource
<1>5. ASSUME NEW b \in Belief, NEW a \in Agent, NEW c \in Content,
             NEW s \in Source \cup {NoSource},
             NEW P \in SUBSET Present, NEW R \in SUBSET Present,
             CreateBelief(b, a, c, s, P, R)
      PROVE  LedgerInv'
  BY <1>1, <1>5, CreateKeepsInv
<1>6. ASSUME NEW l \in Present, NEW r \in Present, NEW kind \in Verdicts,
             VerifyRelation(l, r, kind)
      PROVE  LedgerInv'
  BY <1>2, <1>6 DEF VerifyRelation
<1>7. ASSUME NEW i \in Incident, NEW s \in Registered, NEW C \in SUBSET Present,
             NEW partial \in BOOLEAN, NEW joins \in SUBSET ((C \X C) \cap Joins(s)),
             Recant(i, s, C, joins, partial)
      PROVE  LedgerInv'
  BY <1>1, <1>7, RecantKeepsInv
<1>8. ASSUME NEW b \in Belief, DeleteByTTL(b) PROVE LedgerInv'
  BY <1>1, <1>8, DeleteKeepsInv
<1>9. QED BY <1>3, <1>4, <1>5, <1>6, <1>7, <1>8 DEF Next

LEMMA LedgerInvHolds == Spec => []LedgerInv
<1>1. Init => LedgerInv
  BY DEF Init, LedgerInv, TypeOK, Rooted, RecantedOriginsStayOut, Active, Present, Written
<1>2. QED BY <1>1, LedgerInvStep, PTL DEF Spec

(* A recanted source stays recanted: at no time is a belief active that    *)
(* has it among its origins, on any ledger, also when a recant's           *)
(* neighbour search was incomplete (quarantine/app.py:142-348,             *)
(* attest_gateway/app.py:347-682).                                         *)
THEOREM RecantIsFinal == Spec => []RecantedOriginsStayOut
<1>1. LedgerInv => RecantedOriginsStayOut
  BY DEF LedgerInv
<1>2. QED BY <1>1, LedgerInvHolds, PTL

-----------------------------------------------------------------------------
(* Authority, one derivation at a time. *)
AuthoritySteps ==
  \A e \in explicit :
    /\ belief[e[2]].rank <= belief[e[1]].rank
    /\ belief[e[1]].origins \subseteq belief[e[2]].origins

LEMMA AuthorityStep ==
  TypeOK /\ TypeOK' /\ AuthoritySteps /\ [Next]_vars => AuthoritySteps'
<1> SUFFICES ASSUME TypeOK, TypeOK', AuthoritySteps, [Next]_vars
             PROVE  AuthoritySteps'
  OBVIOUS
<1>1. \A e \in explicit : e[1] \in Present /\ e[2] \in Present
  BY DEF TypeOK
<1>2. ASSUME explicit' = explicit,
             \A x \in Written : /\ belief'[x].rank = belief[x].rank
                               /\ belief'[x].origins = belief[x].origins
      PROVE  AuthoritySteps'
  BY <1>1, <1>2 DEF AuthoritySteps, Present
<1>3. CASE UNCHANGED vars
  BY <1>2, <1>3 DEF vars
<1>4. ASSUME NEW s \in Source, CreateSource(s) PROVE AuthoritySteps'
  BY <1>2, <1>4 DEF CreateSource
<1>5. ASSUME NEW b \in Belief, NEW a \in Agent, NEW c \in Content,
             NEW s \in Source \cup {NoSource},
             NEW P \in SUBSET Present, NEW R \in SUBSET Present,
             CreateBelief(b, a, c, s, P, R)
      PROVE  AuthoritySteps'
  <2>1. /\ belief'[b].rank = Authority(s, P \cup R)
        /\ belief'[b].origins = Origins(s, P \cup R)
    BY <1>5, CreateEffect
  <2>2. /\ \A x \in Belief : x # b => belief'[x] = belief[x]
        /\ b \notin Written
    BY <1>5, CreateEffect
  <2>3. explicit' = explicit \cup {<<p, b>> : p \in P \cup R}
    BY <1>5 DEF CreateBelief
  <2>4. ASSUME NEW e \in explicit
        PROVE  /\ belief'[e[2]].rank <= belief'[e[1]].rank
               /\ belief'[e[1]].origins \subseteq belief'[e[2]].origins
    BY <1>1, <2>2 DEF AuthoritySteps, Present, Written
  <2>5. ASSUME NEW p \in P \cup R
        PROVE  /\ belief'[b].rank <= belief'[p].rank
               /\ belief'[p].origins \subseteq belief'[b].origins
    <3>1. belief'[p] = belief[p]
      BY <2>2 DEF Present, Written
    <3>2. P \cup R \in SUBSET Written
      BY DEF Present
    <3>3. Authority(s, P \cup R) <= belief[p].rank
      BY <3>2, AuthorityIsLeast
    <3>4. belief[p].origins \subseteq Origins(s, P \cup R)
      BY DEF Origins
    <3>5. QED BY <2>1, <3>1, <3>3, <3>4
  <2>6. QED BY <2>3, <2>4, <2>5 DEF AuthoritySteps
<1>6. ASSUME NEW l \in Present, NEW r \in Present, NEW kind \in Verdicts,
             VerifyRelation(l, r, kind)
      PROVE  AuthoritySteps'
  BY <1>2, <1>6 DEF VerifyRelation
<1>7. ASSUME NEW i \in Incident, NEW s \in Registered, NEW C \in SUBSET Present,
             NEW partial \in BOOLEAN, NEW joins \in SUBSET ((C \X C) \cap Joins(s)),
             Recant(i, s, C, joins, partial)
      PROVE  AuthoritySteps'
  <2>1. \A x \in Belief : /\ belief'[x].rank = belief[x].rank
                          /\ belief'[x].origins = belief[x].origins
    BY <1>7, RecantEffect
  <2>2. QED BY <1>2, <1>7, <2>1 DEF Recant, Written
<1>8. ASSUME NEW b \in Belief, DeleteByTTL(b) PROVE AuthoritySteps'
  <2>1. /\ \A x \in Belief : x # b => belief'[x] = belief[x]
        /\ \A e \in Derived : b # e[1] /\ b # e[2]
    BY <1>8, DeleteEffect
  <2>2. explicit' = explicit
    BY <1>8 DEF DeleteByTTL
  <2>3. QED BY <1>1, <2>1, <2>2 DEF AuthoritySteps, Derived, Present, Written
<1>9. QED BY <1>3, <1>4, <1>5, <1>6, <1>7, <1>8 DEF Next

LEMMA StepsBoundChains == TypeOK /\ AuthoritySteps => AuthorityNeverGrows
<1> SUFFICES ASSUME TypeOK, AuthoritySteps, NEW x \in Present, NEW z \in Reach(explicit, {x})
             PROVE  /\ belief[z].rank <= belief[x].rank
                    /\ belief[x].origins \subseteq belief[z].origins
  BY DEF AuthorityNeverGrows
<1> DEFINE T == {y \in Present : /\ belief[y].rank <= belief[x].rank
                                 /\ belief[x].origins \subseteq belief[y].origins}
<1>1. \A y \in Present : belief[y].rank \in Nat
  BY RowTyped DEF Present
<1>2. {x} \subseteq T /\ T \in SUBSET Belief
  BY <1>1 DEF Present, Written
<1>3. ClosedUnder(explicit, T)
  <2> SUFFICES ASSUME NEW e \in explicit, e[1] \in T PROVE e[2] \in T
    BY DEF ClosedUnder
  <2>1. e[2] \in Present /\ e[1] \in Present
    BY DEF TypeOK
  <2>2. belief[e[2]].rank <= belief[e[1]].rank /\ belief[e[1]].rank <= belief[x].rank
    BY DEF AuthoritySteps
  <2>3. belief[e[2]].rank <= belief[x].rank
    BY <1>1, <2>1, <2>2
  <2>4. QED BY <2>1, <2>3 DEF AuthoritySteps
<1>4. z \in T
  BY <1>2, <1>3, ReachLeast
<1>5. QED BY <1>4

(* No chain of derivations, across agents and receipts, ever raises        *)
(* authority or drops an origin (attest_gateway/app.py:531-537).           *)
THEOREM AuthorityIsNotLaundered == Spec => []AuthorityNeverGrows
<1>1. Init => AuthoritySteps
  BY DEF Init, AuthoritySteps
<1>2. QED BY <1>1, AuthorityStep, StepsBoundChains, LedgerTypeCorrect, PTL DEF Spec

-----------------------------------------------------------------------------
Quarantined == {b \in Present : belief[b].status = "quarantined"}

FlipInv ==
  /\ EachFlippedOnce
  /\ \A i \in Opened : incident[i].flipped \subseteq Written

LEMMA FlipStep == TypeOK /\ TypeOK' /\ FlipInv /\ [Next]_vars => FlipInv'
<1> SUFFICES ASSUME TypeOK, TypeOK', FlipInv, [Next]_vars PROVE FlipInv'
  OBVIOUS
<1>1. ASSUME UNCHANGED <<belief, incident>> PROVE FlipInv'
  BY <1>1 DEF FlipInv, EachFlippedOnce, Opened, Present, Written
<1>2. CASE UNCHANGED vars
  BY <1>1, <1>2 DEF vars
<1>3. ASSUME NEW s \in Source, CreateSource(s) PROVE FlipInv'
  BY <1>1, <1>3 DEF CreateSource
<1>4. ASSUME NEW b \in Belief, NEW a \in Agent, NEW c \in Content,
             NEW s \in Source \cup {NoSource},
             NEW P \in SUBSET Present, NEW R \in SUBSET Present,
             CreateBelief(b, a, c, s, P, R)
      PROVE  FlipInv'
  <2>0. b \notin Written
    BY <1>4 DEF CreateBelief
  <2>1. /\ \A x \in Belief : x # b => belief'[x] = belief[x]
        /\ belief'[b].status = Born(s, P \cup R)
    BY <1>4, CreateEffect
  <2>2. Present' = Present \cup {b} /\ Written' = Written \cup {b}
    BY <1>4, CreateEffect
  <2>3. incident' = incident
    BY <1>4 DEF CreateBelief
  <2>4. belief'[b].status # "quarantined"
    BY <2>1 DEF Born
  <2>5. Quarantined' = Quarantined
    BY <2>0, <2>1, <2>2, <2>4 DEF Quarantined, Present, Written
  <2>6. b \notin UNION {incident[i].flipped : i \in Opened}
    BY <2>0 DEF FlipInv
  <2>7. QED BY <2>2, <2>3, <2>5, <2>6 DEF FlipInv, EachFlippedOnce, Quarantined, Opened
<1>5. ASSUME NEW l \in Present, NEW r \in Present, NEW kind \in Verdicts,
             VerifyRelation(l, r, kind)
      PROVE  FlipInv'
  BY <1>1, <1>5 DEF VerifyRelation
<1>6. ASSUME NEW i \in Incident, NEW s \in Registered, NEW C \in SUBSET Present,
             NEW partial \in BOOLEAN, NEW joins \in SUBSET ((C \X C) \cap Joins(s)),
             Recant(i, s, C, joins, partial)
      PROVE  FlipInv'
  <2> DEFINE F == NewlyFlipped(C)
             Before == UNION {incident[j].flipped : j \in Opened}
  <2>1. /\ \A x \in Belief : belief'[x].status = IF x \in F THEN "quarantined"
                                                 ELSE belief[x].status
        /\ Present' = Present /\ Written' = Written
    BY <1>6, RecantEffect
  <2>2. Opened' = Opened \cup {i} /\ i \notin Opened
    <3>1. Opened' = Opened \cup {i}
      BY <1>6, RecantEffect
    <3>2. QED BY <1>6, <3>1 DEF Recant
  <2>3. /\ incident'[i].flipped = F
        /\ \A j \in Incident : j # i => incident'[j] = incident[j]
    BY <1>6 DEF Recant, TypeOK
  <2>4. F \subseteq Present /\ F \cap Quarantined = {}
    BY DEF NewlyFlipped, Quarantined
  <2>5. F \cap Before = {}
    BY <2>4 DEF FlipInv, EachFlippedOnce, Quarantined
  <2>6. \A j \in Opened : j # i /\ incident'[j] = incident[j]
    BY <2>2, <2>3 DEF Opened
  <2> HIDE DEF F
  <2>7. \A j, k \in Opened' : j # k => incident'[j].flipped \cap incident'[k].flipped = {}
    BY <2>2, <2>3, <2>5, <2>6 DEF FlipInv, EachFlippedOnce
  <2>8. Quarantined' = Quarantined \cup F
    BY <2>1, <2>4 DEF Quarantined, Present, Written
  <2>9. UNION {incident'[j].flipped : j \in Opened'} = Before \cup F
    BY <2>2, <2>3, <2>6
  <2>10. Quarantined' = Present' \cap UNION {incident'[j].flipped : j \in Opened'}
    BY <2>1, <2>4, <2>8, <2>9 DEF FlipInv, EachFlippedOnce, Quarantined
  <2>11. \A j \in Opened' : incident'[j].flipped \subseteq Written'
    BY <2>1, <2>2, <2>3, <2>4, <2>6 DEF FlipInv, Present
  <2>12. QED BY <2>7, <2>10, <2>11 DEF FlipInv, EachFlippedOnce, Quarantined
<1>7. ASSUME NEW b \in Belief, DeleteByTTL(b) PROVE FlipInv'
  <2>1. /\ \A x \in Belief : x # b => belief'[x] = belief[x]
        /\ Present' = Present \ {b} /\ Written' = Written
    BY <1>7, DeleteEffect
  <2>2. incident' = incident
    BY <1>7 DEF DeleteByTTL
  <2>3. Quarantined' = Quarantined \ {b}
    BY <2>1 DEF Quarantined, Present, Written
  <2>4. QED BY <2>1, <2>2, <2>3 DEF FlipInv, EachFlippedOnce, Quarantined, Opened
<1>8. QED BY <1>2, <1>3, <1>4, <1>5, <1>6, <1>7 DEF Next

(* The signed actions partition the quarantined beliefs: each is flipped,  *)
(* and announced for eviction, by exactly one recant                       *)
(* (quarantine/app.py:186-287).                                            *)
THEOREM IncidentsAccountForQuarantine == Spec => []EachFlippedOnce
<1>1. Init => FlipInv
  BY DEF Init, FlipInv, EachFlippedOnce, Opened, Present, Written
<1>2. FlipInv => EachFlippedOnce
  BY DEF FlipInv
<1>3. QED BY <1>1, <1>2, FlipStep, LedgerTypeCorrect, PTL DEF Spec

-----------------------------------------------------------------------------
(* While every recant was whole, an active belief rests on active ones. *)
Whole == \A i \in Opened : ~incident[i].partial
RestInv == Whole => \A e \in Derived : belief[e[2]].status = "active" =>
                                       belief[e[1]].status = "active"

LEMMA RestStep == TypeOK /\ RestInv /\ [Next]_vars => RestInv'
<1> SUFFICES ASSUME TypeOK, RestInv, [Next]_vars, Whole',
                    NEW e \in Derived', belief'[e[2]].status = "active"
             PROVE  belief'[e[1]].status = "active"
  BY DEF RestInv
<1> DEFINE Rests == belief'[e[1]].status = "active"
<1>1. ASSUME UNCHANGED <<belief, explicit, inferred, incident>> PROVE Rests
  BY <1>1 DEF RestInv, Whole, Opened, Derived
<1>2. CASE UNCHANGED vars
  BY <1>1, <1>2 DEF vars
<1>3. ASSUME NEW s \in Source, CreateSource(s) PROVE Rests
  BY <1>1, <1>3 DEF CreateSource
<1>4. ASSUME NEW b \in Belief, NEW a \in Agent, NEW c \in Content,
             NEW s \in Source \cup {NoSource},
             NEW P \in SUBSET Present, NEW R \in SUBSET Present,
             CreateBelief(b, a, c, s, P, R)
      PROVE  Rests
  <2>0. b \notin Written
    BY <1>4 DEF CreateBelief
  <2>1. /\ \A x \in Belief : x # b => belief'[x] = belief[x]
        /\ belief'[b].status = Born(s, P \cup R)
    BY <1>4, CreateEffect
  <2>2. /\ explicit' = explicit \cup {<<p, b>> : p \in P \cup R}
        /\ UNCHANGED <<inferred, incident>>
    BY <1>4 DEF CreateBelief
  <2>3. CASE e \in Derived
    <3>1. e[1] \in Belief /\ e[2] \in Belief /\ e[1] # b /\ e[2] # b
      BY <2>0, <2>3 DEF TypeOK, Derived, Present, Written
    <3>2. Whole
      BY <2>2 DEF Whole, Opened
    <3>3. QED BY <2>1, <2>3, <3>1, <3>2 DEF RestInv
  <2>4. CASE e \notin Derived
    <3>1. PICK p \in P \cup R : e = <<p, b>>
      BY <2>2, <2>4 DEF Derived
    <3>2. p \in Present /\ p \in Belief /\ p # b
      BY <2>0 DEF Present, Written
    <3>3. belief[p].status \notin {"suspect", "quarantined"}
      BY <2>1, <3>1 DEF Born
    <3>4. belief[p].status = "active"
      BY <3>2, <3>3, RowTyped DEF Present, Status
    <3>5. QED BY <2>1, <3>1, <3>2, <3>4
  <2>5. QED BY <2>3, <2>4
<1>5. ASSUME NEW l \in Present, NEW r \in Present, NEW kind \in Verdicts,
             VerifyRelation(l, r, kind)
      PROVE  Rests
  BY <1>1, <1>5 DEF VerifyRelation
<1>6. ASSUME NEW i \in Incident, NEW s \in Registered, NEW C \in SUBSET Present,
             NEW partial \in BOOLEAN, NEW joins \in SUBSET ((C \X C) \cap Joins(s)),
             Recant(i, s, C, joins, partial)
      PROVE  Rests
  <2>0. joins \in SUBSET (C \X C)
    OBVIOUS
  <2>1. \A x \in Belief : belief'[x].status = IF x \in NewlyFlipped(C) THEN "quarantined"
                                              ELSE belief[x].status
    BY <1>6, <2>0, RecantEffect
  <2>2. Opened' = Opened \cup {i} /\ i \notin Opened
    <3>1. i \notin Opened
      BY <1>6 DEF Recant
    <3>2. incident'[i].open /\ \A j \in Incident : j # i => incident'[j] = incident[j]
      BY <1>6 DEF Recant, TypeOK
    <3>3. QED BY <3>1, <3>2 DEF Opened
  <2>3. incident'[i].partial = partial /\ \A j \in Incident : j # i => incident'[j] = incident[j]
    BY <1>6 DEF Recant, TypeOK
  <2>4. Whole /\ ~partial
    BY <2>2, <2>3 DEF Whole, Opened
  <2>5. Derived \cup Joins(s) \in SUBSET (Belief \X Belief)
    BY DerivedTyped DEF Joins, Present, Written
  <2>6. C = Reach(Derived \cup Joins(s), Seed(s))
    BY <1>6, <2>4 DEF Recant, MeetsContract
  <2>7. ClosedUnder(Derived \cup Joins(s), C)
    BY <2>5, <2>6, ReachClosed
  <2>8. CASE e \in Derived
    <3>1. e[1] \in Belief /\ e[2] \in Belief
      BY <2>8, DerivedTyped
    <3>2. e[2] \notin C
      BY <2>1, <3>1 DEF NewlyFlipped
    <3>3. e[1] \notin C
      BY <2>7, <2>8, <3>2 DEF ClosedUnder
    <3>4. e[1] \notin NewlyFlipped(C) /\ e[2] \notin NewlyFlipped(C)
      BY <3>2, <3>3 DEF NewlyFlipped
    <3>5. QED BY <2>1, <2>4, <2>8, <3>1, <3>4 DEF RestInv
  <2>9. CASE e \notin Derived
    <3>1. e \in joins
      BY <1>6, <2>9 DEF Recant, Derived
    <3>2. e[2] \in C /\ e[2] \in Belief
      <4>1. e \in C \X C
        BY <3>1
      <4>2. C \subseteq Belief
        BY DEF Present, Written
      <4>3. QED BY <4>1, <4>2
    <3>3. QED BY <2>1, <3>2 DEF NewlyFlipped
  <2>10. QED BY <2>8, <2>9
<1>7. ASSUME NEW b \in Belief, DeleteByTTL(b) PROVE Rests
  <2>1. \A x \in Belief : x # b => belief'[x] = belief[x]
    BY <1>7, DeleteEffect
  <2>2. UNCHANGED <<explicit, inferred, incident>>
    BY <1>7 DEF DeleteByTTL
  <2>3. e \in Derived /\ b # e[1] /\ b # e[2] /\ e[1] \in Belief /\ e[2] \in Belief
    BY <1>7, <2>2, DeleteEffect, DerivedTyped DEF Derived
  <2>4. QED BY <2>1, <2>2, <2>3 DEF RestInv, Whole, Opened
<1>8. QED BY <1>2, <1>3, <1>4, <1>5, <1>6, <1>7 DEF Next

(* Unless a recant reported an incomplete closure, no active belief rests  *)
(* on one that is not: what was flipped took its descendants with it, and  *)
(* what is written later on top of it is born suspect                      *)
(* (quarantine/app.py:186-199, attest_gateway/app.py:539-551).             *)
THEOREM ActiveBeliefsRestOnActive == Spec => []ActiveRestsOnActive
<1>1. Init => RestInv
  BY DEF Init, RestInv, Derived
<1>2. RestInv => ActiveRestsOnActive
  BY DEF RestInv, Whole, ActiveRestsOnActive
<1>3. QED BY <1>1, <1>2, RestStep, LedgerTypeCorrect, PTL DEF Spec

-----------------------------------------------------------------------------
(* Custody.  The head names the last belief of its agent, or none. *)
Mine(a) == {b \in Written : belief[b].agent = a}
CustodyInv ==
  /\ CustodyUnbroken
  /\ \A a \in Agent : head[a].seq = 0 => head[a].hash = Genesis

(* What rows say about custody is written once. *)
LEMMA CustodyKept ==
  ASSUME CustodyInv, Written' = Written, UNCHANGED head,
         \A b \in Written : /\ belief'[b].agent = belief[b].agent
                            /\ belief'[b].seq = belief[b].seq
                            /\ belief'[b].prev = belief[b].prev
  PROVE  CustodyInv'
  BY DEF CustodyInv, CustodyUnbroken

LEMMA CreateKeepsCustody ==
  ASSUME TypeOK, CustodyInv,
         NEW b \in Belief, NEW a \in Agent, NEW c \in Content,
         NEW s \in Source \cup {NoSource},
         NEW P \in SUBSET Present, NEW R \in SUBSET Present,
         CreateBelief(b, a, c, s, P, R)
  PROVE  CustodyInv'
<1>1. /\ b \notin Written
      /\ belief' = [belief EXCEPT ![b] =
           [agent |-> a, seq |-> head[a].seq + 1, prev |-> head[a].hash,
            content |-> c, source |-> s, rank |-> Authority(s, P \cup R),
            origins |-> Origins(s, P \cup R), status |-> Born(s, P \cup R)]]
      /\ head' = [head EXCEPT ![a] = Advance(a, b)]
  BY DEF CreateBelief
<1>2. /\ belief'[b].agent = a /\ belief'[b].seq = head[a].seq + 1
      /\ belief'[b].prev = head[a].hash
      /\ \A x \in Belief : x # b => belief'[x] = belief[x]
  BY <1>1 DEF TypeOK
<1>3. Written' = Written \cup {b}
  BY CreateEffect
<1>4. /\ head'[a].seq = head[a].seq + 1 /\ head'[a].hash = b
      /\ \A x \in Agent : x # a => head'[x] = head[x]
  BY <1>1 DEF TypeOK, Advance
<1>5. /\ \A x \in Agent : head[x].seq \in Nat
      /\ \A x \in Written : x \in Belief /\ belief[x].seq \in Nat
  BY RowTyped DEF TypeOK, Row
<1>6. \A x \in Written : x # b
  BY <1>1
<1>7. ASSUME NEW x \in Agent, x # a
      PROVE  Mine(x)' = Mine(x)
  BY <1>2, <1>3, <1>5, <1>6, <1>7 DEF Mine
<1>8. Mine(a)' = Mine(a) \cup {b}
  BY <1>2, <1>3, <1>5, <1>6 DEF Mine
<1>9. ASSUME NEW x \in Agent
      PROVE  /\ \A n \in 1..head'[x].seq : \E d \in Mine(x)' : belief'[d].seq = n
             /\ \A d, f \in Mine(x)' : belief'[d].seq = belief'[f].seq => d = f
             /\ \A d \in Mine(x)' :
                  /\ belief'[d].seq \in 1..head'[x].seq
                  /\ belief'[d].seq = head'[x].seq <=> d = head'[x].hash
                  /\ IF belief'[d].seq = 1 THEN belief'[d].prev = Genesis
                     ELSE \E f \in Mine(x)' : /\ belief'[f].seq = belief'[d].seq - 1
                                              /\ belief'[d].prev = f
             /\ head'[x].seq = 0 => head'[x].hash = Genesis
  <2>1. /\ \A n \in 1..head[x].seq : \E d \in Mine(x) : belief[d].seq = n
        /\ \A d, f \in Mine(x) : belief[d].seq = belief[f].seq => d = f
        /\ \A d \in Mine(x) :
             /\ belief[d].seq \in 1..head[x].seq
             /\ belief[d].seq = head[x].seq <=> d = head[x].hash
             /\ IF belief[d].seq = 1 THEN belief[d].prev = Genesis
                ELSE \E f \in Mine(x) : /\ belief[f].seq = belief[d].seq - 1
                                        /\ belief[d].prev = f
        /\ head[x].seq = 0 => head[x].hash = Genesis
    BY DEF CustodyInv, CustodyUnbroken, Mine
  <2>2. \A d \in Mine(x) : d # b /\ belief'[d] = belief[d]
    BY <1>2, <1>5, <1>6 DEF Mine
  <2>3. CASE x # a
    BY <1>4, <1>7, <2>1, <2>2, <2>3
  <2>4. CASE x = a
    <3>1. \A n \in 1..head'[a].seq : \E d \in Mine(a)' : belief'[d].seq = n
      <4>1. ASSUME NEW n \in 1..(head[a].seq + 1)
            PROVE  \E d \in Mine(a)' : belief'[d].seq = n
        <5>1. CASE n = head[a].seq + 1
          BY <1>2, <1>8, <5>1
        <5>2. CASE n # head[a].seq + 1
          <6>1. n \in 1..head[a].seq
            BY <1>5, <4>1, <5>2
          <6>2. PICK d \in Mine(a) : belief[d].seq = n
            BY <2>1, <2>4, <6>1
          <6>3. QED BY <1>8, <2>2, <2>4, <6>2
        <5>3. QED BY <5>1, <5>2
      <4>2. QED BY <1>4, <4>1
    <3>2. \A d \in Mine(a) : belief'[d].seq \in 1..head[a].seq
      BY <2>1, <2>2, <2>4
    <3>3. \A d, f \in Mine(a)' : belief'[d].seq = belief'[f].seq => d = f
      BY <1>2, <1>5, <1>8, <2>1, <2>2, <2>4, <3>2
    <3>4. ASSUME NEW d \in Mine(a)'
          PROVE  /\ belief'[d].seq \in 1..head'[a].seq
                 /\ belief'[d].seq = head'[a].seq <=> d = head'[a].hash
                 /\ IF belief'[d].seq = 1 THEN belief'[d].prev = Genesis
                    ELSE \E f \in Mine(a)' : /\ belief'[f].seq = belief'[d].seq - 1
                                             /\ belief'[d].prev = f
      <4>1. CASE d = b
        <5>1. CASE head[a].seq = 0
          BY <1>2, <1>4, <2>1, <2>4, <4>1, <5>1
        <5>2. CASE head[a].seq # 0
          <6>1. head[a].seq \in 1..head[a].seq
            BY <1>5, <5>2
          <6>2. PICK f \in Mine(a) : belief[f].seq = head[a].seq
            BY <2>1, <2>4, <6>1
          <6>3. f = head[a].hash
            BY <2>1, <2>4, <6>2
          <6>4. f \in Mine(a)' /\ belief'[f].seq = belief'[b].seq - 1 /\ belief'[b].prev = f
            BY <1>2, <1>5, <1>8, <2>2, <2>4, <6>2, <6>3
          <6>5. belief'[b].seq = head'[a].seq /\ belief'[b].seq \in 1..head'[a].seq
                  /\ belief'[b].seq # 1
            BY <1>2, <1>4, <1>5, <5>2
          <6>6. QED BY <1>4, <4>1, <6>4, <6>5
        <5>3. QED BY <5>1, <5>2
      <4>2. CASE d \in Mine(a)
        <5>1. belief'[d] = belief[d] /\ d # b
          BY <2>2, <2>4, <4>2
        <5>2. belief[d].seq \in 1..head[a].seq
          BY <2>1, <2>4, <4>2
        <5>3. /\ belief'[d].seq \in 1..head'[a].seq
              /\ belief'[d].seq = head'[a].seq <=> d = head'[a].hash
          BY <1>4, <1>5, <5>1, <5>2
        <5>4. IF belief'[d].seq = 1 THEN belief'[d].prev = Genesis
              ELSE \E f \in Mine(a)' : /\ belief'[f].seq = belief'[d].seq - 1
                                       /\ belief'[d].prev = f
          BY <1>8, <2>1, <2>2, <2>4, <4>2, <5>1
        <5>5. QED BY <5>3, <5>4
      <4>3. QED BY <1>8, <4>1, <4>2
    <3>5. head'[a].seq # 0
      BY <1>4, <1>5
    <3>6. QED BY <2>4, <3>1, <3>3, <3>4, <3>5
  <2>5. QED BY <2>3, <2>4
<1>10. QED BY <1>9 DEF CustodyInv, CustodyUnbroken, Mine

LEMMA CustodyStep == TypeOK /\ CustodyInv /\ [Next]_vars => CustodyInv'
<1> SUFFICES ASSUME TypeOK, CustodyInv, [Next]_vars PROVE CustodyInv'
  OBVIOUS
<1>1. ASSUME UNCHANGED <<belief, head>> PROVE CustodyInv'
  BY <1>1, CustodyKept DEF Written
<1>2. CASE UNCHANGED vars
  BY <1>1, <1>2 DEF vars
<1>3. ASSUME NEW s \in Source, CreateSource(s) PROVE CustodyInv'
  BY <1>1, <1>3 DEF CreateSource
<1>4. ASSUME NEW b \in Belief, NEW a \in Agent, NEW c \in Content,
             NEW s \in Source \cup {NoSource},
             NEW P \in SUBSET Present, NEW R \in SUBSET Present,
             CreateBelief(b, a, c, s, P, R)
      PROVE  CustodyInv'
  BY <1>4, CreateKeepsCustody
<1>5. ASSUME NEW l \in Present, NEW r \in Present, NEW kind \in Verdicts,
             VerifyRelation(l, r, kind)
      PROVE  CustodyInv'
  BY <1>1, <1>5 DEF VerifyRelation
<1>6. ASSUME NEW i \in Incident, NEW s \in Registered, NEW C \in SUBSET Present,
             NEW partial \in BOOLEAN, NEW joins \in SUBSET ((C \X C) \cap Joins(s)),
             Recant(i, s, C, joins, partial)
      PROVE  CustodyInv'
  <2>1. \A x \in Written : /\ belief'[x].agent = belief[x].agent
                           /\ belief'[x].seq = belief[x].seq
                           /\ belief'[x].prev = belief[x].prev
    <3>1. ASSUME NEW x \in Written
          PROVE  /\ belief'[x].agent = belief[x].agent /\ belief'[x].seq = belief[x].seq
                 /\ belief'[x].prev = belief[x].prev
      <4>1. x \in Belief /\ belief[x] \in Row
        BY RowTyped
      <4>2. belief'[x] = IF x \in NewlyFlipped(C)
                         THEN [belief[x] EXCEPT !.status = "quarantined"] ELSE belief[x]
        BY <1>6, <4>1 DEF Recant
      <4>3. QED BY <4>1, <4>2, QuarantinedRow
    <3>2. QED BY <3>1
  <2>2. Written' = Written
    BY <1>6, RecantEffect
  <2>3. head' = head
    BY <1>6 DEF Recant
  <2>4. QED BY <2>1, <2>2, <2>3, CustodyKept
<1>7. ASSUME NEW b \in Belief, DeleteByTTL(b) PROVE CustodyInv'
  <2>1. Written' = Written /\ head' = head
    BY <1>7, DeleteEffect DEF DeleteByTTL
  <2>2. \A x \in Written : /\ belief'[x].agent = belief[x].agent
                           /\ belief'[x].seq = belief[x].seq
                           /\ belief'[x].prev = belief[x].prev
    <3>1. belief' = [belief EXCEPT ![b].status = "gone"] /\ belief[b] \in Row
      BY <1>7, RowTyped DEF DeleteByTTL, Present
    <3>2. QED BY <3>1, RowTyped DEF TypeOK, Row
  <2>3. QED BY <2>1, <2>2, CustodyKept
<1>8. QED BY <1>2, <1>3, <1>4, <1>5, <1>6, <1>7 DEF Next

(* An agent's beliefs are numbered without gap or repetition, each linked  *)
(* to its predecessor, for any number of agents and beliefs, recants and   *)
(* expiries (attest_gateway/app.py:553-586).                               *)
THEOREM CustodyIsUnbroken == Spec => []CustodyUnbroken
<1>1. Init => CustodyInv
  BY DEF Init, CustodyInv, CustodyUnbroken, Written
<1>2. CustodyInv => CustodyUnbroken
  BY DEF CustodyInv
<1>3. QED BY <1>1, <1>2, CustodyStep, LedgerTypeCorrect, PTL DEF Spec

-----------------------------------------------------------------------------
(* Verification.  What custody says of one agent, and the rows it verifies.*)
LEMMA CustodyOf ==
  ASSUME TypeOK, CustodyInv, NEW a \in Agent
  PROVE  /\ head[a].seq \in Nat
         /\ \A b \in Mine(a) : b \in Belief /\ belief[b].seq \in 1..head[a].seq
         /\ \A n \in 1..head[a].seq : \E b \in Mine(a) : belief[b].seq = n
         /\ \A b, d \in Mine(a) : belief[b].seq = belief[d].seq => b = d
         /\ \A b \in Mine(a) : belief[b].seq = head[a].seq <=> b = head[a].hash
         /\ \A b \in Mine(a) :
              IF belief[b].seq = 1 THEN belief[b].prev = Genesis
              ELSE \E d \in Mine(a) : belief[d].seq = belief[b].seq - 1 /\ belief[b].prev = d
         /\ head[a].seq = 0 => head[a].hash = Genesis
<1>1. head[a].seq \in Nat
  BY DEF TypeOK
<1>2. \A b \in Mine(a) : b \in Belief
  BY DEF Mine, Written
<1>3. QED BY <1>1, <1>2 DEF CustodyInv, CustodyUnbroken, Mine

(* Nothing deleted: each row follows the one before it. *)
LEMMA WholeChainVerifies ==
  ASSUME TypeOK, CustodyInv, NEW a \in Agent, Mine(a) \subseteq Present
  PROVE  Verifies(a)
<1> DEFINE rows == {b \in Present : belief[b].agent = a}
<1>1. rows = Mine(a)
  BY DEF Mine, Present
<1> HIDE DEF rows
<1>2. ASSUME NEW b \in rows
      PROVE  LET before == {d \in rows : belief[d].seq < belief[b].seq}
             IN belief[b].prev \in
                  IF before = {} THEN {Genesis}
                  ELSE {d \in before : \A e \in before : belief[e].seq <= belief[d].seq}
  <2> DEFINE before == {d \in rows : belief[d].seq < belief[b].seq}
  <2>1. /\ head[a].seq \in Nat
        /\ \A d \in rows : belief[d].seq \in 1..head[a].seq
    BY <1>1, CustodyOf
  <2>2. CASE belief[b].seq = 1
    <3>1. before = {}
      BY <2>1, <2>2
    <3>2. belief[b].prev = Genesis
      BY <1>1, <2>2, CustodyOf
    <3>3. QED BY <3>1, <3>2
  <2>3. CASE belief[b].seq # 1
    <3>1. PICK d \in rows : belief[d].seq = belief[b].seq - 1 /\ belief[b].prev = d
      BY <1>1, <2>3, CustodyOf
    <3>2. d \in before
      BY <2>1, <3>1
    <3>3. \A e \in before : belief[e].seq <= belief[d].seq
      BY <2>1, <3>1
    <3> HIDE DEF before
    <3>4. before # {} /\ belief[b].prev \in {x \in before : \A e \in before : belief[e].seq <= belief[x].seq}
      BY <3>1, <3>2, <3>3
    <3>5. QED BY <3>4 DEF before
  <2>4. QED BY <2>2, <2>3
<1>3. Linked(rows)
  BY <1>2 DEF Linked
<1>4. head[a].hash \in IF rows = {} THEN {Genesis}
                       ELSE {b \in rows : \A d \in rows : belief[d].seq <= belief[b].seq}
  <2>1. CASE rows = {}
    <3>1. head[a].seq = 0
      <4>1. head[a].seq \in Nat /\ (head[a].seq \in 1..head[a].seq => \E b \in rows : TRUE)
        BY <1>1, CustodyOf
      <4>2. QED BY <2>1, <4>1
    <3>2. QED BY <2>1, <3>1, CustodyOf
  <2>2. CASE rows # {}
    <3>1. PICK x \in rows : TRUE
      BY <2>2
    <3>2. head[a].seq \in Nat /\ belief[x].seq \in 1..head[a].seq
      BY <1>1, CustodyOf
    <3>3. head[a].seq \in 1..head[a].seq
      BY <3>2
    <3>4. PICK h \in rows : belief[h].seq = head[a].seq
      BY <1>1, <3>3, CustodyOf
    <3>5. h = head[a].hash
      BY <1>1, <3>4, CustodyOf
    <3>6. \A d \in rows : belief[d].seq <= belief[h].seq
      <4>1. ASSUME NEW d \in rows PROVE belief[d].seq <= belief[h].seq
        <5>1. belief[d].seq \in 1..head[a].seq
          BY <1>1, CustodyOf
        <5>2. QED BY <3>2, <3>4, <5>1
      <4>2. QED BY <4>1
    <3>7. QED BY <2>2, <3>4, <3>5, <3>6
  <2>3. QED BY <2>1, <2>2
<1>5. QED BY <1>3, <1>4 DEF Verifies, rows

(* One deleted: the first row after it that is left has lost the row its   *)
(* hash links to, and there is one or else the head is missing.            *)
LEMMA CutChainFails ==
  ASSUME TypeOK, CustodyInv, NEW a \in Agent, NEW g \in Mine(a), g \notin Present
  PROVE  ~ Verifies(a)
<1> SUFFICES ASSUME Verifies(a) PROVE FALSE
  OBVIOUS
<1> DEFINE rows == {b \in Present : belief[b].agent = a}
<1> DEFINE k == belief[g].seq
<1> DEFINE n == head[a].seq
<1>1. /\ rows \subseteq Mine(a) /\ g \notin rows
  BY DEF Mine, Present
<1>2. /\ Linked(rows)
      /\ head[a].hash \in rows \cup {Genesis}
  BY DEF Verifies
<1>3. \A b \in rows : belief[b].prev \in rows \cup {Genesis}
  <2> HIDE DEF rows
  <2>1. QED BY <1>2 DEF Linked
<1> HIDE DEF rows
<1>4. n \in Nat /\ k \in 1..n
  BY CustodyOf
<1>5. Genesis \notin Belief
  BY LedgerConstants
<1>6. PICK h \in rows : belief[h].seq = n
  <2>1. n \in 1..n
    BY <1>4
  <2>2. PICK h \in Mine(a) : belief[h].seq = n
    BY <2>1, CustodyOf
  <2>3. h = head[a].hash /\ h \in Belief
    BY <2>2, CustodyOf
  <2>4. QED BY <1>2, <1>5, <2>2, <2>3
<1>7. \A x \in rows : belief[x].seq \in 1..n /\ belief[x].seq # k
  BY <1>1, CustodyOf
<1> DEFINE later == {m \in Nat : m > k /\ \E x \in rows : belief[x].seq = m}
<1>8. n \in later
  BY <1>4, <1>6, <1>7
<1>9. PICK m \in later : \A q \in later : m <= q
  <2> HIDE DEF later
  <2>1. later # {}  BY <1>8
  <2>2. later \in SUBSET Nat  BY DEF later
  <2>3. QED BY <2>1, <2>2, NatMin
<1>10. PICK e \in rows : belief[e].seq = m
  BY <1>9
<1>11. m \in Nat /\ m > k /\ k \in Nat /\ k >= 1
  BY <1>4, <1>9
<1>12. PICK d \in Mine(a) : belief[d].seq = m - 1 /\ belief[e].prev = d
  <2>1. belief[e].seq # 1  BY <1>10, <1>11
  <2>2. QED BY <1>1, <1>10, <2>1, CustodyOf
<1>13. d \in rows
  <2>1. d \in Belief  BY CustodyOf
  <2>2. QED BY <1>3, <1>5, <1>10, <1>12, <2>1
<1>14. m - 1 \in later
  <2>1. m - 1 # k  BY <1>7, <1>12, <1>13
  <2>2. m - 1 \in Nat /\ m - 1 > k  BY <1>11, <2>1
  <2>3. QED BY <1>12, <1>13, <2>2
<1>15. m <= m - 1
  BY <1>9, <1>14
<1>16. QED BY <1>11, <1>15

(* An agent's chain verifies if and only if the TTL job took none of its   *)
(* rows: a deletion anywhere is told, and nothing else that agents, the    *)
(* verifier or recants do makes a chain fail, for chains of any length.    *)
(* (attest_gateway/app.py:731-757, 0003_row_ttl.sql:8).                    *)
THEOREM VerificationTellsDeletions == Spec => []ChainTellsDeletions
<1>1. Init => CustodyInv
  BY DEF Init, CustodyInv, CustodyUnbroken, Written
<1>2. TypeOK /\ CustodyInv => ChainTellsDeletions
  <2> SUFFICES ASSUME TypeOK, CustodyInv, NEW a \in Agent
               PROVE  Verifies(a) <=> Mine(a) \subseteq Present
    BY DEF ChainTellsDeletions, Mine
  <2>1. QED BY WholeChainVerifies, CutChainFails
<1>3. QED BY <1>1, <1>2, CustodyStep, LedgerTypeCorrect, PTL DEF Spec

-----------------------------------------------------------------------------
(* The ledger takes beliefs through the lifecycle the others rely on. *)
StatusOf == [b \in Belief |-> IF b \in Written THEN belief[b].status ELSE "unwritten"]
FlippedBy == [i \in Incident |-> IF i \in Opened THEN incident[i].flipped ELSE {}]
Life == INSTANCE Lifecycle WITH
  Event <- Incident, status <- StatusOf, opened <- Opened, flipped <- FlippedBy

(* A function over beliefs or incidents, by its values. *)
LEMMA MappedStep ==
  /\ \A f : (\A b \in Belief : StatusOf'[b] = f[b]) /\ f = [b \in Belief |-> f[b]]
            => StatusOf' = f
  /\ \A f : (\A i \in Incident : FlippedBy'[i] = f[i]) /\ f = [i \in Incident |-> f[i]]
            => FlippedBy' = f
<1>1. /\ StatusOf' = [b \in Belief |-> StatusOf'[b]]
      /\ FlippedBy' = [i \in Incident |-> FlippedBy'[i]]
  BY DEF StatusOf, FlippedBy
<1> HIDE DEF StatusOf, FlippedBy
<1>2. ASSUME NEW f, \A b \in Belief : StatusOf'[b] = f[b], f = [b \in Belief |-> f[b]]
      PROVE  StatusOf' = f
  BY <1>1, <1>2
<1>3. ASSUME NEW f, \A i \in Incident : FlippedBy'[i] = f[i], f = [i \in Incident |-> f[i]]
      PROVE  FlippedBy' = f
  BY <1>1, <1>3
<1>4. QED BY <1>2, <1>3

LEMMA IncidentsKept == UNCHANGED incident => UNCHANGED <<Opened, FlippedBy>>
BY DEF Opened, FlippedBy

LEMMA CreateIsWrite ==
  ASSUME TypeOK,
         NEW b \in Belief, NEW a \in Agent, NEW c \in Content,
         NEW s \in Source \cup {NoSource},
         NEW P \in SUBSET Present, NEW R \in SUBSET Present,
         CreateBelief(b, a, c, s, P, R)
  PROVE  Life!Write(b, Born(s, P \cup R))
<1>0. /\ b \notin Written /\ Written' = Written \cup {b}
      /\ belief'[b].status = Born(s, P \cup R)
      /\ \A x \in Belief : x # b => belief'[x] = belief[x]
  <2>1. Written' = Written \cup {b}
    BY CreateEffect
  <2>2. belief'[b].status = Born(s, P \cup R)
    <3> DEFINE row == [agent |-> a, seq |-> head[a].seq + 1, prev |-> head[a].hash,
                       content |-> c, source |-> s, rank |-> Authority(s, P \cup R),
                       origins |-> Origins(s, P \cup R), status |-> Born(s, P \cup R)]
    <3>1. belief' = [belief EXCEPT ![b] = row] /\ row.status = Born(s, P \cup R)
      BY DEF CreateBelief
    <3> HIDE DEF row
    <3>2. QED BY <3>1 DEF TypeOK
  <2>3. \A x \in Belief : x # b => belief'[x] = belief[x]
    BY CreateEffect
  <2>4. QED BY <2>1, <2>2, <2>3 DEF CreateBelief
<1> DEFINE f == [StatusOf EXCEPT ![b] = Born(s, P \cup R)]
<1>1. b \notin Written /\ StatusOf[b] = "unwritten"
  BY <1>0 DEF StatusOf
<1>2. \A x \in Belief : f[x] = IF x = b THEN Born(s, P \cup R) ELSE StatusOf[x]
  BY DEF StatusOf
<1>3. \A x \in Belief : StatusOf'[x] = f[x]
  <2>1. StatusOf'[b] = Born(s, P \cup R)
    BY <1>0 DEF StatusOf
  <2>2. \A x \in Belief : x # b => StatusOf'[x] = StatusOf[x]
    BY <1>0 DEF StatusOf
  <2>3. QED BY <1>2, <2>1, <2>2
<1>4. f = [x \in Belief |-> f[x]]
  BY DEF StatusOf
<1>5. StatusOf' = f
  BY <1>3, <1>4, MappedStep
<1>6. UNCHANGED <<Opened, FlippedBy>>
  BY IncidentsKept DEF CreateBelief
<1>7. QED BY <1>1, <1>5, <1>6 DEF Life!Write

LEMMA RecantIsFlip ==
  ASSUME TypeOK,
         NEW i \in Incident, NEW s \in Registered, NEW C \in SUBSET Present,
         NEW partial \in BOOLEAN, NEW joins \in SUBSET ((C \X C) \cap Joins(s)),
         Recant(i, s, C, joins, partial)
  PROVE  Life!Flip(i, NewlyFlipped(C))
<1> DEFINE F == NewlyFlipped(C)
           f == [b \in Belief |-> IF b \in F THEN "quarantined" ELSE StatusOf[b]]
           g == [FlippedBy EXCEPT ![i] = F]
<1>1. F \subseteq Written /\ \A b \in F : StatusOf[b] \in {"active", "suspect"}
  BY DEF NewlyFlipped, Present, Written, StatusOf
<1>2. \A x \in Belief : StatusOf'[x] = f[x]
  BY <1>1, RecantEffect DEF StatusOf
<1>3. StatusOf' = f
  BY <1>2, MappedStep
<1>4. /\ i \notin Opened /\ Opened' = Opened \cup {i}
      /\ incident'[i].flipped = F
      /\ \A j \in Incident : j # i => incident'[j] = incident[j]
  <2> DEFINE o == [open |-> TRUE, source |-> s, partial |-> partial,
                   flipped |-> NewlyFlipped(C)]
  <2>1. /\ incident' = [incident EXCEPT ![i] = o]
        /\ o.flipped = F /\ o.open
        /\ i \notin Opened
    BY DEF Recant
  <2> HIDE DEF o, F
  <2>2. /\ incident'[i] = o
        /\ \A j \in Incident : j # i => incident'[j] = incident[j]
    BY <2>1 DEF TypeOK
  <2>3. Opened' = Opened \cup {i}
    BY <2>1, <2>2 DEF Opened
  <2>4. QED BY <2>1, <2>2, <2>3
<1>5. \A j \in Incident : FlippedBy'[j] = g[j]
  BY <1>4 DEF FlippedBy
<1>6. FlippedBy' = g
  <2>1. g = [j \in Incident |-> g[j]]
    BY DEF FlippedBy
  <2>2. QED BY <1>5, <2>1, MappedStep
<1>7. QED BY <1>1, <1>3, <1>4, <1>6 DEF Life!Flip

LEMMA DeleteIsDelete ==
  ASSUME TypeOK, NEW b \in Belief, DeleteByTTL(b)
  PROVE  Life!Delete(b)
<1> DEFINE f == [StatusOf EXCEPT ![b] = "gone"]
<1>1. b \in Present
  BY DEF DeleteByTTL
<1>2. StatusOf[b] \notin {"unwritten", "gone"}
  BY <1>1, RowTyped DEF StatusOf, Present, TypeOK, Row, Status
<1>3. \A x \in Belief : f[x] = IF x = b THEN "gone" ELSE StatusOf[x]
  BY DEF StatusOf
<1>4. \A x \in Belief : StatusOf'[x] = f[x]
  <2>1. StatusOf'[b] = "gone"
    BY <1>1, DeleteEffect DEF StatusOf, Present
  <2>2. \A x \in Belief : x # b => StatusOf'[x] = StatusOf[x]
    BY DeleteEffect DEF StatusOf
  <2>3. QED BY <1>3, <2>1, <2>2
<1>5. StatusOf' = f
  <2>1. f = [x \in Belief |-> f[x]]
    BY DEF StatusOf
  <2>2. QED BY <1>4, <2>1, MappedStep
<1>6. UNCHANGED <<Opened, FlippedBy>>
  BY IncidentsKept DEF DeleteByTTL
<1>7. QED BY <1>2, <1>5, <1>6 DEF Life!Delete

LEMMA LifeStep == TypeOK /\ [Next]_vars => [Life!Next]_(Life!vars)
<1> SUFFICES ASSUME TypeOK, [Next]_vars PROVE [Life!Next]_(Life!vars)
  OBVIOUS
<1>1. ASSUME UNCHANGED <<belief, incident>> PROVE UNCHANGED Life!vars
  BY <1>1 DEF Life!vars, StatusOf, FlippedBy, Opened, Written
<1>2. ASSUME \/ UNCHANGED vars
             \/ \E s \in Source : CreateSource(s)
             \/ \E l, r \in Present, kind \in Verdicts : VerifyRelation(l, r, kind)
      PROVE  UNCHANGED <<belief, incident>>
  BY <1>2 DEF vars, CreateSource, VerifyRelation
<1>3. ASSUME NEW b \in Belief, NEW a \in Agent, NEW c \in Content,
             NEW s \in Source \cup {NoSource},
             NEW P \in SUBSET Present, NEW R \in SUBSET Present,
             CreateBelief(b, a, c, s, P, R)
      PROVE  Life!Next
  <2>1. Born(s, P \cup R) \in {"active", "suspect"}
    BY DEF Born
  <2>2. QED BY <1>3, <2>1, CreateIsWrite DEF Life!Next
<1>4. ASSUME NEW i \in Incident, NEW s \in Registered, NEW C \in SUBSET Present,
             NEW partial \in BOOLEAN, NEW joins \in SUBSET ((C \X C) \cap Joins(s)),
             Recant(i, s, C, joins, partial)
      PROVE  Life!Next
  <2>1. NewlyFlipped(C) \in SUBSET Belief
    BY DEF NewlyFlipped, Present, Written
  <2>2. QED BY <1>4, <2>1, RecantIsFlip DEF Life!Next
<1>5. ASSUME NEW b \in Belief, DeleteByTTL(b) PROVE Life!Next
  BY <1>5, DeleteIsDelete DEF Life!Next
<1>6. QED BY <1>1, <1>2, <1>3, <1>4, <1>5 DEF Next

(* Every behaviour of the ledger is one of the lifecycle: each belief is   *)
(* born active or suspect and flipped at most once, in the commit that     *)
(* lists it, and nothing brings it back (quarantine/app.py:191-287).       *)
THEOREM LedgerKeepsLifecycle == Spec => Life!Spec
<1>1. Init => Life!Init
  BY DEF Init, Life!Init, StatusOf, FlippedBy, Opened, Written
<1>2. QED BY <1>1, LifeStep, LedgerTypeCorrect, PTL DEF Spec, Life!Spec

(* Once a belief is anything but active it is never active again, whatever *)
(* is written, related, recanted or deleted afterwards: what the permit    *)
(* gate of module Guard rests on (quarantine/app.py:191-199).              *)
THEOREM NothingIsReinstated ==
  ASSUME NEW b \in Belief
  PROVE  Spec => [](StatusOf[b] \in {"suspect", "quarantined", "gone"}
                      => [](StatusOf[b] # "active"))
<1> DEFINE Out == StatusOf[b] \in {"suspect", "quarantined", "gone"}
<1>1. Out /\ [Life!Next]_(Life!vars) => Out'
  <2> SUFFICES ASSUME Out, [Life!Next]_(Life!vars) PROVE Out'
    OBVIOUS
  <2> HIDE DEF StatusOf
  <2>1. CASE UNCHANGED Life!vars
    BY <2>1 DEF Life!vars
  <2>2. ASSUME NEW x \in Belief, NEW birth \in {"active", "suspect"}, Life!Write(x, birth)
        PROVE  Out'
    <3>1. StatusOf' = [StatusOf EXCEPT ![x] = birth] /\ x # b
      BY <2>2 DEF Life!Write
    <3>2. QED BY <3>1
  <2>3. ASSUME NEW e \in Incident, NEW F \in SUBSET Belief, Life!Flip(e, F) PROVE Out'
    <3>1. StatusOf' = [x \in Belief |-> IF x \in F THEN "quarantined" ELSE StatusOf[x]]
      BY <2>3 DEF Life!Flip
    <3>2. QED BY <3>1
  <2>4. ASSUME NEW x \in Belief, Life!Delete(x) PROVE Out'
    <3>1. StatusOf' = [StatusOf EXCEPT ![x] = "gone"]
      BY <2>4 DEF Life!Delete
    <3>2. CASE x = b
      <4>1. DOMAIN StatusOf = Belief
        BY DEF StatusOf
      <4>2. QED BY <3>1, <3>2, <4>1
    <3>3. CASE x # b
      BY <3>1, <3>3
    <3>4. QED BY <3>2, <3>3
  <2>5. QED BY <2>1, <2>2, <2>3, <2>4 DEF Life!Next
<1>2. Out => StatusOf[b] # "active"
  OBVIOUS
<1>3. QED BY <1>1, <1>2, LedgerKeepsLifecycle, PTL DEF Life!Spec
=============================================================================
