-------------------------- MODULE LearningStoreProofs --------------------------
(***************************************************************************)
(* What the operations of the learning store keep true of a database, for  *)
(* every set of candidates and every database: LearningStore is an         *)
(* operation library, so these are lemmas about operators.                 *)
(***************************************************************************)
EXTENDS LearningStore, NaturalsInduction, WellFoundedInduction, TLAPS

-------------------------------------------------------------------------------
(* The largest of a bounded set of numbers.                                *)

LEMMA LeastNumber ==
  ASSUME NEW T \in SUBSET Nat, T # {}
  PROVE  \E x \in T : \A y \in T : x <= y
<1> DEFINE R == {pair \in Nat \X Nat : pair[1] < pair[2]}
<1>1. IsWellFoundedOn(R, Nat)
  BY NatLessThanWellFounded, Zenon DEF OpToRel
<1>2. PICK x \in T : \A y \in T : ~(<<y, x>> \in R)
  <2> HIDE DEF R
  <2> QED BY <1>1, WFMin
<1>3. ASSUME NEW y \in T PROVE x <= y
  <2>1. x \in Nat /\ y \in Nat /\ <<y, x>> \notin R
    BY <1>2
  <2>2. ~(y < x)
    BY <2>1
  <2> QED BY <2>1, <2>2
<1> QED BY <1>3

LEMMA MaxIs ==
  ASSUME NEW n \in Nat, NEW S \in SUBSET (0..n), S # {}
  PROVE  Max(S) \in S /\ Max(S) \in 0..n /\ \A m \in S : m <= Max(S)
<1> DEFINE T == {n - m : m \in S}
<1>0. \A m \in S : m \in Nat /\ m <= n
  OBVIOUS
<1>1. T \in SUBSET Nat /\ T # {}
  <2>1. \A m \in S : n - m \in Nat
    BY <1>0
  <2>2. PICK m \in S : TRUE
    OBVIOUS
  <2>3. n - m \in T
    BY <2>2
  <2> QED BY <2>1, <2>3
<1>2. \E x \in T : \A y \in T : x <= y
  <2> HIDE DEF T
  <2> QED BY <1>1, LeastNumber
<1>3. PICK x \in S : \A m \in S : n - x <= n - m
  BY <1>2
<1>4. ASSUME NEW m \in S PROVE x >= m
  <2>1. n - x <= n - m
    BY <1>3
  <2>2. m \in Nat /\ x \in Nat
    BY <1>0
  <2> QED BY <2>1, <2>2
<1> HIDE DEF T
<1>5. \E z \in S : \A y \in S : z >= y
  BY <1>4
<1>6. Max(S) \in S /\ \A y \in S : Max(S) >= y
  BY <1>5 DEF Max
<1>7. ASSUME NEW m \in S PROVE m <= Max(S)
  <2>1. m \in Nat /\ Max(S) \in Nat /\ Max(S) >= m
    BY <1>0, <1>6
  <2> QED BY <2>1
<1> QED BY <1>6, <1>7

-------------------------------------------------------------------------------
(* What is active for an item depends on the ledger alone.                 *)

ActivationsUpTo(db, n, item) ==
    {i \in 1..n : /\ db.ledger[i].item = item
                  /\ db.ledger[i].type \in Activations}

\* The knowledge that was active for an item after the first n events.
KnowledgeAt(db, n, item) ==
    IF ActivationsUpTo(db, n, item) = {} THEN None
    ELSE db.ledger[Max(ActivationsUpTo(db, n, item))].after

\* A database that holds everything another one does.
Extends(db, after) ==
    /\ Len(db.ledger) <= Len(after.ledger)
    /\ Len(db.versions) <= Len(after.versions)
    /\ \A i \in DOMAIN db.ledger : after.ledger[i] = db.ledger[i]
    /\ \A i \in DOMAIN db.versions : after.versions[i] = db.versions[i]

LEMMA Fields ==
  ASSUME NEW db \in Database
  PROVE  /\ db.ledger \in Seq(Event) /\ Len(db.ledger) \in Nat
         /\ DOMAIN db.ledger = 1..Len(db.ledger)
         /\ \A i \in DOMAIN db.ledger : db.ledger[i] \in Event
         /\ db.versions \in Seq(Version) /\ Len(db.versions) \in Nat
         /\ DOMAIN db.versions = 1..Len(db.versions)
         /\ \A i \in DOMAIN db.versions : db.versions[i] \in Version
BY DEF Database

LEMMA KnowledgeStable ==
  ASSUME NEW db \in Database, NEW after \in Database, Extends(db, after),
         NEW n \in 0..Len(db.ledger), NEW item
  PROVE  KnowledgeAt(after, n, item) = KnowledgeAt(db, n, item)
<1>1. ASSUME NEW i \in 1..n PROVE after.ledger[i] = db.ledger[i]
  BY Fields DEF Extends
<1>2. ActivationsUpTo(after, n, item) = ActivationsUpTo(db, n, item)
  BY <1>1 DEF ActivationsUpTo
<1>3. CASE ActivationsUpTo(db, n, item) = {}
  BY <1>2, <1>3 DEF KnowledgeAt
<1>4. CASE ActivationsUpTo(db, n, item) # {}
  <2>1. n \in Nat /\ ActivationsUpTo(db, n, item) \in SUBSET (0..n)
    BY Fields DEF ActivationsUpTo
  <2>2. Max(ActivationsUpTo(db, n, item)) \in 1..n
    BY <1>4, <2>1, MaxIs DEF ActivationsUpTo
  <2> QED BY <1>1, <1>2, <1>4, <2>2 DEF KnowledgeAt
<1> QED BY <1>3, <1>4

\* The active row of an item is one of its snapshots, and resolves.
LEMMA ActiveIs ==
  ASSUME NEW db, Sound(db), NEW item \in Candidate
  PROVE  /\ ~Unresolved(db, item)
         /\ ActiveKnowledge(db, item) = KnowledgeAt(db, Len(db.ledger), item)
         /\ ActiveKnowledge(db, item) \in Knowledge \cup {None}
         /\ HasActive(db, item) =>
               /\ ActiveKnowledge(db, item) # None
               /\ \E i \in DOMAIN db.versions : ActiveRow(db, item) = db.versions[i]
<1> DEFINE S == ActivationsOf(db, item)
           n == Len(db.ledger)
           e == db.ledger[Max(S)]
<1>1. db \in Database
  BY DEF Sound
<1>2. n \in Nat /\ S = ActivationsUpTo(db, n, item) /\ S \in SUBSET (0..n)
  BY <1>1, Fields DEF ActivationsOf, ActivationsUpTo
<1>3. CASE S = {}
  BY <1>2, <1>3 DEF HasActive, Unresolved, ActiveKnowledge, KnowledgeAt
<1>4. CASE S # {}
  <2>1. Max(S) \in S
    BY <1>2, <1>4, MaxIs
  <2>2. /\ Max(S) \in DOMAIN db.ledger /\ e \in Event /\ e.item = item
        /\ e.type \in Activations /\ e.after \in Knowledge \cup {None}
    <3>1. Max(S) \in DOMAIN db.ledger /\ e.item = item /\ e.type \in Activations
      BY <2>1 DEF ActivationsOf
    <3>2. e \in Event
      BY <1>1, <3>1, Fields
    <3> QED BY <3>1, <3>2 DEF Event
  <2>3. KnowledgeAt(db, n, item) = e.after
    BY <1>2, <1>4 DEF KnowledgeAt
  <2>4. ActivationOf(db, item) = e
    BY DEF ActivationOf
  <2> HIDE DEF e
  <2>5. CASE e.after = None
    BY <2>3, <2>4, <2>5 DEF HasActive, Unresolved, ActiveKnowledge
  <2>6. CASE e.after # None
    <3> DEFINE A == ActiveSnapshots(db, item)
    <3>1. HasActive(db, item)
      BY <1>4, <2>4, <2>6 DEF HasActive
    <3>2. \E j \in SnapshotsOf(db, item, e.after) : db.versions[j].cand = e.cand
      BY <2>2, <2>6 DEF Sound, SnapshotsKept, e
    <3>3. A # {}
      BY <2>4, <3>2 DEF ActiveSnapshots
    <3>4. Len(db.versions) \in Nat /\ A \in SUBSET (0..Len(db.versions))
      BY <1>1, Fields DEF ActiveSnapshots, SnapshotsOf
    <3>5. Max(A) \in A
      BY <3>3, <3>4, MaxIs
    <3>6. Max(A) \in DOMAIN db.versions /\ ActiveRow(db, item).know = e.after
      BY <2>4, <3>5 DEF ActiveRow, ActiveSnapshots, SnapshotsOf
    <3> QED BY <2>2, <2>3, <2>6, <3>1, <3>3, <3>6 DEF Unresolved, ActiveKnowledge, ActiveRow
  <2> QED BY <2>5, <2>6
<1> QED BY <1>3, <1>4

-------------------------------------------------------------------------------
(* A transaction adds one event, and at most one row.                      *)

\* The step from one database to the next: one event, and what was there stays.
Grows(db, after, e) ==
    /\ after \in Database
    /\ Extends(db, after)
    /\ Len(after.ledger) = Len(db.ledger) + 1
    /\ after.ledger[Len(after.ledger)] = e

LEMMA AppendIs ==
  ASSUME NEW S, NEW s \in Seq(S), NEW x \in S
  PROVE  /\ Append(s, x) \in Seq(S)
         /\ Len(Append(s, x)) = Len(s) + 1
         /\ Append(s, x)[Len(s) + 1] = x
         /\ \A i \in DOMAIN s : Append(s, x)[i] = s[i]
OBVIOUS

LEMMA ConcatOne ==
  ASSUME NEW S, NEW s \in Seq(S), NEW x \in S
  PROVE  s \o <<x>> = Append(s, x)
OBVIOUS

LEMMA ConcatNone ==
  ASSUME NEW S, NEW s \in Seq(S)
  PROVE  s \o <<>> = s
OBVIOUS

LEMMA WrittenRow ==
  ASSUME NEW db \in Database, NEW e \in Event, NEW row \in Version
  PROVE  LET after == Written(db, e, <<row>>)
         IN /\ Grows(db, after, e)
            /\ Len(after.versions) = Len(db.versions) + 1
            /\ after.versions[Len(after.versions)] = row
<1> DEFINE after == Written(db, e, <<row>>)
<1>1. after.ledger = Append(db.ledger, e) /\ after.versions = Append(db.versions, row)
  BY Fields, ConcatOne DEF Written
<1>0. after = [ledger |-> after.ledger, versions |-> after.versions]
  BY DEF Written
<1> HIDE DEF after
<1>2. /\ after.ledger \in Seq(Event)
      /\ Len(after.ledger) = Len(db.ledger) + 1
      /\ after.ledger[Len(after.ledger)] = e
      /\ \A i \in DOMAIN db.ledger : after.ledger[i] = db.ledger[i]
  BY <1>1, Fields, AppendIs
<1>3. /\ after.versions \in Seq(Version)
      /\ Len(after.versions) = Len(db.versions) + 1
      /\ after.versions[Len(after.versions)] = row
      /\ \A i \in DOMAIN db.versions : after.versions[i] = db.versions[i]
  BY <1>1, Fields, AppendIs
<1>4. after \in Database
  BY <1>0, <1>2, <1>3 DEF Database
<1> QED BY <1>2, <1>3, <1>4, Fields DEF Grows, Extends, after

LEMMA WrittenAlone ==
  ASSUME NEW db \in Database, NEW e \in Event
  PROVE  LET after == Written(db, e, <<>>)
         IN Grows(db, after, e) /\ after.versions = db.versions
<1> DEFINE after == Written(db, e, <<>>)
<1>1. after.ledger = Append(db.ledger, e) /\ after.versions = db.versions
  BY Fields, ConcatNone DEF Written
<1>0. after = [ledger |-> after.ledger, versions |-> after.versions]
  BY DEF Written
<1> HIDE DEF after
<1>2. /\ after.ledger \in Seq(Event)
      /\ Len(after.ledger) = Len(db.ledger) + 1
      /\ after.ledger[Len(after.ledger)] = e
      /\ \A i \in DOMAIN db.ledger : after.ledger[i] = db.ledger[i]
  BY <1>1, Fields, AppendIs
<1>4. after \in Database
  BY <1>0, <1>1, <1>2, Fields DEF Database
<1> QED BY <1>1, <1>2, <1>4, Fields DEF Grows, Extends, after

LEMMA ExtendsReflexive ==
  ASSUME NEW db \in Database
  PROVE  Extends(db, db)
BY Fields DEF Extends

LEMMA ClimbedStays ==
  ASSUME NEW db \in Database, NEW after \in Database, Extends(db, after),
         NEW c, NEW level, Climbed(db, c, level)
  PROVE  Climbed(after, c, level)
<1> SUFFICES ASSUME NEW l \in Level, 1 < Rank[l] /\ Rank[l] <= Rank[level]
             PROVE  \E i \in RowsAt(after, c, l) :
                       /\ after.versions[i].rcpt.passed
                       /\ l = "enterprise" \/ (l = "approved" /\ c \in Sensitive)
                             => after.versions[i].rcpt.reviewed
  BY DEF Climbed
<1>1. PICK i \in RowsAt(db, c, l) :
             /\ db.versions[i].rcpt.passed
             /\ l = "enterprise" \/ (l = "approved" /\ c \in Sensitive)
                   => db.versions[i].rcpt.reviewed
  BY DEF Climbed
<1>2. i \in DOMAIN db.versions /\ db.versions[i].cand = c /\ db.versions[i].level = l
  BY DEF RowsAt, RowsOf
<1>3. after.versions[i] = db.versions[i] /\ i \in DOMAIN after.versions
  BY <1>2, Fields DEF Extends
<1>4. i \in RowsAt(after, c, l)
  BY <1>2, <1>3 DEF RowsAt, RowsOf
<1> QED BY <1>1, <1>3, <1>4

\* The snapshots the older events need are still there.
LEMMA SnapshotsStay ==
  ASSUME NEW db, Sound(db), NEW after, NEW e, Grows(db, after, e),
         e.type \in Activations /\ e.after # None =>
            \E j \in SnapshotsOf(after, e.item, e.after) : after.versions[j].cand = e.cand
  PROVE  SnapshotsKept(after)
<1>1. db \in Database /\ after \in Database /\ Extends(db, after)
  BY DEF Sound, Grows
<1> SUFFICES ASSUME NEW i \in DOMAIN after.ledger,
                    after.ledger[i].type \in Activations, after.ledger[i].after # None
             PROVE  \E j \in SnapshotsOf(after, after.ledger[i].item, after.ledger[i].after) :
                       after.versions[j].cand = after.ledger[i].cand
  BY DEF SnapshotsKept
<1>2. CASE i \in DOMAIN db.ledger
  <2> DEFINE f == db.ledger[i]
  <2>1. after.ledger[i] = f
    BY <1>1, <1>2 DEF Extends
  <2> HIDE DEF f
  <2>2. PICK j \in SnapshotsOf(db, f.item, f.after) : db.versions[j].cand = f.cand
    BY <1>2, <2>1 DEF Sound, SnapshotsKept, f
  <2>3. j \in DOMAIN db.versions /\ db.versions[j].item = f.item
        /\ db.versions[j].know = f.after /\ db.versions[j].disp = "active_snapshot"
    BY DEF SnapshotsOf
  <2>4. after.versions[j] = db.versions[j] /\ j \in DOMAIN after.versions
    BY <1>1, <2>3, Fields DEF Extends
  <2> QED BY <2>1, <2>2, <2>3, <2>4 DEF SnapshotsOf
<1>3. CASE i \notin DOMAIN db.ledger
  <2>1. i = Len(after.ledger)
    BY <1>1, <1>3, Fields DEF Grows
  <2> QED BY <2>1 DEF Grows
<1> QED BY <1>2, <1>3

LEMMA StageEventsStay ==
  ASSUME NEW db \in Database, NEW after \in Database, Extends(db, after), NEW c
  PROVE  StageEvents(db, c) \subseteq StageEvents(after, c)
BY Fields DEF StageEvents, Extends

\* An event without a row.
LEMMA AloneSound ==
  ASSUME NEW db, Sound(db), NEW after, NEW e, Grows(db, after, e),
         after.versions = db.versions,
         e.type \in Activations /\ e.after # None =>
            \E j \in SnapshotsOf(db, e.item, e.after) : db.versions[j].cand = e.cand
  PROVE  Sound(after)
<1>1. db \in Database /\ after \in Database /\ Extends(db, after)
  BY DEF Sound, Grows
<1>2. UniqueRows(after)
  BY DEF Sound, UniqueRows
<1>3. LevelsClimbed(after)
  BY <1>1, ClimbedStays DEF Sound, LevelsClimbed
<1>4. SnapshotsKept(after)
  BY SnapshotsStay DEF SnapshotsOf
<1>5. StagedOverBase(after)
  <2> SUFFICES ASSUME NEW c \in Candidate \ Creates, RowsAt(after, c, "candidate") # {}
               PROVE  StageEvents(after, c) # {}
    BY DEF StagedOverBase
  <2>1. RowsAt(db, c, "candidate") # {}
    BY DEF RowsAt, RowsOf
  <2> QED BY <1>1, <2>1, StageEventsStay DEF Sound, StagedOverBase
<1> QED BY <1>1, <1>2, <1>3, <1>4, <1>5 DEF Sound

\* An event with a row of a level its candidate did not have.
LEMMA RowSound ==
  ASSUME NEW db, Sound(db), NEW after, NEW e, Grows(db, after, e),
         Len(after.versions) = Len(db.versions) + 1,
         NEW row, after.versions[Len(after.versions)] = row,
         RowsAt(db, row.cand, row.level) = {},
         Climbed(after, row.cand, row.level),
         row.level = "candidate" /\ row.cand \notin Creates =>
            StageEvents(after, row.cand) # {},
         e.type \in Activations /\ e.after # None =>
            \E j \in SnapshotsOf(after, e.item, e.after) : after.versions[j].cand = e.cand
  PROVE  Sound(after)
<1> DEFINE n == Len(after.versions)
<1>1. db \in Database /\ after \in Database /\ Extends(db, after)
  BY DEF Sound, Grows
<1>2. /\ n \in DOMAIN after.versions /\ n \notin DOMAIN db.versions
      /\ DOMAIN after.versions = DOMAIN db.versions \cup {n}
      /\ \A i \in DOMAIN db.versions : after.versions[i] = db.versions[i]
  BY <1>1, Fields DEF Extends
<1>3. ASSUME NEW i \in DOMAIN db.versions
      PROVE  ~(db.versions[i].cand = row.cand /\ db.versions[i].level = row.level)
  BY DEF RowsAt, RowsOf
<1> HIDE DEF n
<1>4. UniqueRows(after)
  <2> SUFFICES ASSUME NEW i \in DOMAIN after.versions, NEW j \in DOMAIN after.versions,
                      after.versions[i].cand = after.versions[j].cand,
                      after.versions[i].level = after.versions[j].level
               PROVE  i = j
    BY DEF UniqueRows
  <2>1. CASE i \in DOMAIN db.versions /\ j \in DOMAIN db.versions
    BY <1>2, <2>1 DEF Sound, UniqueRows
  <2>2. CASE i = n /\ j \in DOMAIN db.versions
    BY <1>2, <1>3, <2>2 DEF n
  <2>3. CASE i \in DOMAIN db.versions /\ j = n
    BY <1>2, <1>3, <2>3 DEF n
  <2> QED BY <1>2, <2>1, <2>2, <2>3
<1>5. LevelsClimbed(after)
  <2> SUFFICES ASSUME NEW i \in DOMAIN after.versions
               PROVE  Climbed(after, after.versions[i].cand, after.versions[i].level)
    BY DEF LevelsClimbed
  <2>1. CASE i \in DOMAIN db.versions
    BY <1>1, <1>2, <2>1, ClimbedStays DEF Sound, LevelsClimbed
  <2>2. CASE i = n
    BY <2>2 DEF n
  <2> QED BY <1>2, <2>1, <2>2
<1>6. SnapshotsKept(after)
  BY SnapshotsStay
<1>7. StagedOverBase(after)
  <2> SUFFICES ASSUME NEW c \in Candidate \ Creates, RowsAt(after, c, "candidate") # {}
               PROVE  StageEvents(after, c) # {}
    BY DEF StagedOverBase
  <2>1. PICK i \in DOMAIN after.versions :
                /\ after.versions[i].cand = c /\ after.versions[i].level = "candidate"
    BY DEF RowsAt, RowsOf
  <2>2. CASE i \in DOMAIN db.versions
    <3>1. i \in RowsAt(db, c, "candidate")
      BY <1>2, <2>1, <2>2 DEF RowsAt, RowsOf
    <3> QED BY <1>1, <3>1, StageEventsStay DEF Sound, StagedOverBase
  <2>3. CASE i = n
    BY <2>1, <2>3 DEF n
  <2> QED BY <1>2, <2>2, <2>3
<1> QED BY <1>1, <1>4, <1>5, <1>6, <1>7 DEF Sound

-------------------------------------------------------------------------------
(* The operations.                                                         *)

\* What a transaction wrote last says what was active for its item before it.
Books(db, after) ==
    LET e == after.ledger[Len(after.ledger)]
    IN /\ Grows(db, after, e)
       /\ e.before = KnowledgeAt(db, Len(db.ledger), e.item)

LEMMA ItemIs ==
  ASSUME NEW c \in Candidate
  PROVE  ItemOf(c) \in Candidate /\ Content[c] \in Knowledge /\ Base[c] \in Knowledge
BY StoreAssumption DEF ItemOf

LEMMA Ranks ==
  /\ Level = {"candidate", "validated", "approved", "enterprise"}
  /\ Rank["candidate"] = 1 /\ Rank["validated"] = 2
  /\ Rank["approved"] = 3 /\ Rank["enterprise"] = 4
BY DEF Level, Rank

LEMMA StageSound ==
  ASSUME NEW db, Sound(db), NEW c \in Candidate, NEW after \in Stage(db, c)
  PROVE  /\ Sound(after)
         /\ RowsAt(after, c, "candidate") # {}
         /\ after # db =>
               /\ Books(db, after)
               /\ after.ledger[Len(after.ledger)].cand = c
               /\ after.ledger[Len(after.ledger)].item = ItemOf(c)
               /\ after.ledger[Len(after.ledger)].type = "stage"
<1>1. CASE RowsAt(db, c, "candidate") # {}
  BY <1>1 DEF Stage
<1>2. CASE RowsAt(db, c, "candidate") = {}
  <2> DEFINE item == ItemOf(c)
             e == [type |-> "stage", item |-> item, cand |-> c, know |-> Content[c],
                   before |-> ActiveKnowledge(db, item), after |-> None]
             row == [item |-> item, cand |-> c, know |-> Content[c],
                     level |-> "candidate", disp |-> "staged", rcpt |-> None]
  <2>1. after = Written(db, e, <<row>>) /\ Stageable(db, c)
    BY <1>2 DEF Stage, StagedWrite
  <2>2. /\ db \in Database /\ item \in Candidate /\ Content[c] \in Knowledge
        /\ ActiveKnowledge(db, item) \in Knowledge \cup {None}
        /\ ActiveKnowledge(db, item) = KnowledgeAt(db, Len(db.ledger), item)
    <3>1. db \in Database /\ item \in Candidate /\ Content[c] \in Knowledge
      BY ItemIs DEF Sound
    <3> QED BY <3>1, ActiveIs
  <2>3. c \notin Creates => ActiveKnowledge(db, item) = Base[c]
    BY <2>1 DEF Stageable
  <2> HIDE DEF item
  <2>4. e \in Event /\ row \in Version
    BY <2>2, Ranks DEF Event, EventType, Version
  <2>5. /\ e.type = "stage" /\ e.cand = c /\ e.item = item
        /\ e.before = ActiveKnowledge(db, item)
        /\ row.cand = c /\ row.level = "candidate"
    OBVIOUS
  <2> HIDE DEF e, row
  <2>6. /\ Grows(db, after, e)
        /\ Len(after.versions) = Len(db.versions) + 1
        /\ after.versions[Len(after.versions)] = row
    BY <2>1, <2>2, <2>4, WrittenRow
  <2>7. after \in Database /\ after.ledger[Len(after.ledger)] = e
    BY <2>6 DEF Grows
  <2>8. Climbed(after, c, "candidate")
    BY Ranks DEF Climbed
  <2>9. c \notin Creates => StageEvents(after, c) # {}
    <3>1. Len(after.ledger) \in DOMAIN after.ledger
      BY <2>2, <2>6, <2>7, Fields DEF Grows
    <3> QED BY <2>3, <2>5, <2>7, <3>1 DEF StageEvents
  <2>10. e.type \notin Activations
    BY <2>5 DEF Activations
  <2>11. Sound(after)
    BY <1>2, <2>5, <2>6, <2>8, <2>9, <2>10, RowSound
  <2>12. Len(after.versions) \in RowsAt(after, c, "candidate")
    <3>1. Len(after.versions) \in DOMAIN after.versions
      BY <2>2, <2>6, <2>7, Fields
    <3> QED BY <2>5, <2>6, <3>1 DEF RowsAt, RowsOf
  <2>13. Books(db, after)
    BY <2>2, <2>5, <2>6, <2>7 DEF Books
  <2> QED BY <2>5, <2>7, <2>11, <2>12, <2>13 DEF item
<1> QED BY <1>1, <1>2

LEMMA PromoteSound ==
  ASSUME NEW db, Sound(db), NEW c \in Candidate, NEW target \in Level,
         NEW r \in Receipt, NEW after \in Promote(db, c, target, r)
  PROVE  /\ Sound(after)
         /\ after # db =>
               /\ Books(db, after)
               /\ after.ledger[Len(after.ledger)].cand = c
               /\ after.ledger[Len(after.ledger)].item = ItemOf(c)
               /\ after.ledger[Len(after.ledger)].type
                     \in {"validate", "activate", "enterprise"}
<1>1. CASE RowsAt(db, c, target) # {}
  BY <1>1 DEF Promote
<1>2. CASE RowsAt(db, c, target) = {}
  <2> DEFINE item == ItemOf(c)
             activates == ActivatesAt(db, item, target)
             e == [type |-> IF ~activates THEN "validate"
                            ELSE IF target = "enterprise" THEN "enterprise"
                            ELSE "activate",
                   item |-> item, cand |-> c, know |-> Content[c],
                   before |-> ActiveKnowledge(db, item),
                   after |-> IF activates THEN Content[c] ELSE None]
             row == [item |-> item, cand |-> c, know |-> Content[c], level |-> target,
                     disp |-> IF activates THEN "active_snapshot" ELSE "staged",
                     rcpt |-> r]
  <2>1. /\ after = Written(db, e, <<row>>)
        /\ RowsOf(db, c) # {} /\ PolicyAllows(c, CurrentLevel(db, c), target, r)
    BY <1>2 DEF Promote, PromotedWrite
  <2>2. /\ db \in Database /\ item \in Candidate /\ Content[c] \in Knowledge
        /\ ActiveKnowledge(db, item) \in Knowledge \cup {None}
        /\ ActiveKnowledge(db, item) = KnowledgeAt(db, Len(db.ledger), item)
    <3>1. db \in Database /\ item \in Candidate /\ Content[c] \in Knowledge
      BY ItemIs DEF Sound
    <3> QED BY <3>1, ActiveIs
  <2> HIDE DEF item, activates
  <2>4. e \in Event /\ row \in Version
    BY <2>2 DEF Event, EventType, Version
  <2>5. /\ e.cand = c /\ e.item = item /\ e.before = ActiveKnowledge(db, item)
        /\ row.cand = c /\ row.level = target /\ row.item = item /\ row.rcpt = r
        /\ row.know = Content[c]
        /\ ~activates => e.type = "validate"
        /\ e.type \in {"validate", "activate", "enterprise"}
        /\ activates => e.after = Content[c] /\ row.disp = "active_snapshot"
    OBVIOUS
  <2> HIDE DEF e, row
  <2>6. /\ Grows(db, after, e)
        /\ Len(after.versions) = Len(db.versions) + 1
        /\ after.versions[Len(after.versions)] = row
    BY <2>1, <2>2, <2>4, WrittenRow
  <2>7. after \in Database /\ Extends(db, after) /\ after.ledger[Len(after.ledger)] = e
    BY <2>6 DEF Grows
  <2>8. Len(after.versions) \in DOMAIN after.versions
    BY <2>2, <2>6, <2>7, Fields
  <2>9. Climbed(after, c, target)
    <3> DEFINE old == Max(RowsOf(db, c))
    <3>1. old \in DOMAIN db.versions /\ db.versions[old].cand = c
      <4>1. Len(db.versions) \in Nat /\ RowsOf(db, c) \in SUBSET (0..Len(db.versions))
        BY <2>2, Fields DEF RowsOf
      <4>2. old \in RowsOf(db, c)
        BY <2>1, <4>1, MaxIs
      <4> QED BY <4>2 DEF RowsOf
    <3> DEFINE below == CurrentLevel(db, c)
    <3>2. below \in Level /\ Climbed(after, c, below)
      <4>1. below = db.versions[old].level
        BY DEF CurrentLevel
      <4>2. Climbed(db, c, below) /\ below \in Level
        BY <2>2, <3>1, <4>1, Fields DEF Sound, LevelsClimbed, Version
      <4> QED BY <2>2, <2>7, <4>2, ClimbedStays
    <3> HIDE DEF below
    <3>3. Rank[target] = Rank[below] + 1 /\ r.passed
          /\ (target \in ActiveLevels /\ (target = "enterprise" \/ c \in Sensitive)
                => r.reviewed)
      BY <2>1 DEF PolicyAllows, below
    <3>4. ASSUME NEW l \in Level, 1 < Rank[l], Rank[l] <= Rank[target]
          PROVE  \E i \in RowsAt(after, c, l) :
                    /\ after.versions[i].rcpt.passed
                    /\ l = "enterprise" \/ (l = "approved" /\ c \in Sensitive)
                          => after.versions[i].rcpt.reviewed
      <4>1. CASE Rank[l] <= Rank[below]
        BY <3>2, <3>4, <4>1 DEF Climbed
      <4>2. CASE l = target
        <5>1. Len(after.versions) \in RowsAt(after, c, l)
          BY <2>5, <2>6, <2>8, <4>2 DEF RowsAt, RowsOf
        <5> QED BY <2>5, <2>6, <3>3, <4>2, <5>1 DEF ActiveLevels
      <4> QED BY <3>2, <3>3, <3>4, <4>1, <4>2, Ranks
    <3> QED BY <3>4 DEF Climbed
  <2>10. target # "candidate"
    <3>1. CurrentLevel(db, c) \in Level
      <4>1. Len(db.versions) \in Nat /\ RowsOf(db, c) \in SUBSET (0..Len(db.versions))
        BY <2>2, Fields DEF RowsOf
      <4>2. Max(RowsOf(db, c)) \in RowsOf(db, c)
        BY <2>1, <4>1, MaxIs
      <4> QED BY <2>2, <4>2, Fields DEF RowsOf, CurrentLevel, Version
    <3> QED BY <2>1, <3>1, Ranks DEF PolicyAllows
  <2>11. e.type \in Activations /\ e.after # None =>
            \E j \in SnapshotsOf(after, e.item, e.after) : after.versions[j].cand = e.cand
    <3>1. e.type \in Activations => activates
      BY <2>5 DEF Activations
    <3>2. activates => Len(after.versions) \in SnapshotsOf(after, e.item, e.after)
      BY <2>5, <2>6, <2>8 DEF SnapshotsOf
    <3> QED BY <2>5, <2>6, <3>1, <3>2
  <2>12. Sound(after)
    BY <1>2, <2>5, <2>6, <2>9, <2>10, <2>11, RowSound
  <2>13. Books(db, after)
    BY <2>2, <2>5, <2>6, <2>7 DEF Books
  <2> QED BY <2>5, <2>7, <2>12, <2>13 DEF item
<1> QED BY <1>1, <1>2

LEMMA ArchiveSound ==
  ASSUME NEW db, Sound(db), NEW item \in Candidate, NEW k \in Knowledge,
         NEW after \in Archive(db, item, k)
  PROVE  /\ Sound(after) /\ Books(db, after)
         /\ after.ledger[Len(after.ledger)].type = "archive"
<1> DEFINE e == [type |-> "archive", item |-> item,
                 cand |-> ActiveRow(db, item).cand, know |-> k,
                 before |-> k, after |-> None]
<1>1. /\ after = Written(db, e, <<>>) /\ HasActive(db, item)
      /\ ActiveKnowledge(db, item) = k
  BY DEF Archive
<1>2. /\ db \in Database /\ ActiveRow(db, item).cand \in Candidate
      /\ ActiveKnowledge(db, item) = KnowledgeAt(db, Len(db.ledger), item)
  <2>1. db \in Database
    BY DEF Sound
  <2>2. PICK i \in DOMAIN db.versions : ActiveRow(db, item) = db.versions[i]
    BY <1>1, ActiveIs
  <2> QED BY <2>1, <2>2, ActiveIs, Fields DEF Version
<1>3. e \in Event
  BY <1>2 DEF Event, EventType
<1>4. e.item = item /\ e.before = k /\ e.after = None /\ e.type = "archive"
  OBVIOUS
<1> HIDE DEF e
<1>5. Grows(db, after, e) /\ after.versions = db.versions
  BY <1>1, <1>2, <1>3, WrittenAlone
<1>6. Sound(after)
  BY <1>4, <1>5, AloneSound
<1> QED BY <1>1, <1>2, <1>4, <1>5, <1>6 DEF Books, Grows

LEMMA RollbackSound ==
  ASSUME NEW db, Sound(db), NEW item \in Candidate, NEW k \in Knowledge,
         NEW x \in Knowledge \cup {None}, NEW after \in Rollback(db, item, k, x)
  PROVE  /\ Sound(after) /\ Books(db, after)
         /\ after.ledger[Len(after.ledger)].type = "rollback"
<1> DEFINE rows == SnapshotsOf(db, item, k)
           e == [type |-> "rollback", item |-> item,
                 cand |-> db.versions[Max(rows)].cand, know |-> k,
                 before |-> x, after |-> k]
<1>1. /\ after = Written(db, e, <<>>) /\ rows # {}
      /\ ActiveKnowledge(db, item) = x
  BY DEF Rollback, RollbackTargets
<1>2. /\ db \in Database
      /\ ActiveKnowledge(db, item) = KnowledgeAt(db, Len(db.ledger), item)
  BY ActiveIs DEF Sound
<1>3. Max(rows) \in rows
  <2>1. Len(db.versions) \in Nat /\ rows \in SUBSET (0..Len(db.versions))
    BY <1>2, Fields DEF SnapshotsOf
  <2> QED BY <1>1, <2>1, MaxIs
<1>4. db.versions[Max(rows)].cand \in Candidate
  BY <1>2, <1>3, Fields DEF SnapshotsOf, Version
<1>5. e \in Event
  BY <1>4 DEF Event, EventType
<1>6. /\ e.item = item /\ e.before = x /\ e.after = k /\ e.type = "rollback"
      /\ e.cand = db.versions[Max(rows)].cand
  OBVIOUS
<1> HIDE DEF e
<1>7. Grows(db, after, e) /\ after.versions = db.versions
  BY <1>1, <1>2, <1>5, WrittenAlone
<1>8. Sound(after)
  BY <1>3, <1>6, <1>7, AloneSound
<1> QED BY <1>1, <1>2, <1>6, <1>7, <1>8 DEF Books, Grows

\* A new database is sound: soundness is what its operations make of it.
LEMMA EmptySound == Sound([ledger |-> <<>>, versions |-> <<>>])
<1> DEFINE db == [ledger |-> <<>>, versions |-> <<>>]
<1>1. db \in Database
  BY DEF Database
<1>2. DOMAIN db.ledger = {} /\ DOMAIN db.versions = {}
  OBVIOUS
<1> HIDE DEF db
<1>3. Sound(db)
  BY <1>1, <1>2 DEF Sound, UniqueRows, LevelsClimbed, SnapshotsKept, StagedOverBase,
                    RowsAt, RowsOf
<1> QED BY <1>3 DEF db

================================================================================
