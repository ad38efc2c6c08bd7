------------------------- MODULE LearningRuntimeProofs -------------------------
(***************************************************************************)
(* Theorems about LearningRuntime, for every set of processes, candidates  *)
(* and grants, every sound initial store and all bounds.                   *)
(***************************************************************************)
EXTENDS LearningRuntime, LearningStoreProofs, FiniteSetTheorems

-------------------------------------------------------------------------------
(* The inductive invariant.                                                *)

Committed == {"operated", "checked", "counted", "listed",
              "captured", "journaled", "witnessed"}

Reading == {"counted", "listed"}

Signing == {"captured", "journaled", "witnessed"}

\* What a call has set when it is at a place.
Placed(c) ==
    /\ c.pc = "idle" => c = Idle
    /\ c.pc \in {"verified", "operated"} => c.before # None
    /\ c.pc = "verified" => c.pos = 0
    /\ c.pc = "operated" => c.kind \in Kind \ {"bootstrap", "key_rotation"}
    /\ c.pc \in {"checked"} \cup Reading \cup Signing =>
          /\ c.kind \in Kind
          /\ c.kind = "bootstrap" <=> c.before = None
          /\ c.kind \in {"bootstrap", "key_rotation"} => c.pos = 0
    /\ c.pc \in Reading \cup Signing => c.state \in StateType

\* The record a call was built on is a record of the accepted chain.
BuiltOn(c) ==
    c.before # None => /\ c.before.seq \in Chain
                       /\ journal[c.before.seq] = c.before

\* The event a call wrote is later than the record the call was built on, is of
\* the call's kind, says what was active before it, and is about the candidate
\* the call is bound to.
Applied(c) ==
    c.pos # 0 =>
       LET e == store.ledger[c.pos]
       IN /\ c.before # None /\ c.before.state.events < c.pos
          /\ e.type \in EventsOf(c.kind)
          /\ e.before = KnowledgeAt(store, c.pos - 1, e.item)
          /\ c.bound # None => e.cand = c.bound.cand /\ e.item = ItemOf(c.bound.cand)

\* A gate's binding names a state in which the revision was over its base.
OverBase(b) ==
    b # None /\ b.gated =>
       KnowledgeAt(store, b.state.events, ItemOf(b.cand)) = Base[b.cand]

\* A bound call was built on the state it is bound to, and has staged the
\* revision it is for once it is past the operation.
Bound(c) ==
    c.bound # None =>
       /\ c.before # None /\ c.bound.state = c.before.state
       /\ OverBase(c.bound)
       /\ c.bound.use = "revision" =>
             /\ c.bound.cand \in Revision
             /\ c.pc \in Committed => StageEvents(store, c.bound.cand) # {}

\* The ledger was read after the operation: what the call has counted includes
\* the event it wrote and the one that staged the revision it is for.
Counts(c) ==
    c.pc \in Reading =>
       /\ c.pos <= c.state.events
       /\ c.bound # None /\ c.bound.use = "revision" =>
             \E i \in StageEvents(store, c.bound.cand) : i <= c.state.events

\* What a mutation is about to sign, or has signed, is one event more than the
\* record it was built on covers, and its own event if it wrote one.
Captures(c) ==
    c.pc \in Signing =>
       \/ c.kind = "bootstrap" /\ c.before = None
       \/ c.kind = "key_rotation" /\ c.before # None /\ c.pos = 0
       \/ /\ c.before # None
          /\ c.state.events = c.before.state.events + 1
          /\ c.pos # 0 => c.pos = c.state.events

CallInv ==
    \A p \in Proc :
       /\ Placed(call[p]) /\ BuiltOn(call[p]) /\ Applied(call[p])
       /\ Bound(call[p]) /\ Counts(call[p]) /\ Captures(call[p])

TypeInv == TypeOK /\ Sound(store) /\ CallInv

\* A revision has been staged by an event that a signed record covers.
Staged(c) == \E i \in StageEvents(store, c) : i <= Signed

\* What has been prepared or approved, and for whom a coordinator works.
BindingInv ==
    /\ \A p \in Proc : /\ OverBase(ceremony[p])
                       /\ ceremony[p] # None => ceremony[p].use = "promotion"
    /\ \A c \in Revision :
          /\ approval[c] # None =>
                approval[c].use = "revision" /\ approval[c].cand = c /\ ~approval[c].gated
          /\ work[c] # None => approval[c] # None

StagedInv ==
    \A c \in Revision :
       /\ work[c] # None /\ work[c].staged => Staged(c)
       /\ receipt[c] = "STAGED" => Staged(c)

\* The processes that may still write an event on the state they verified.
Writers == {p \in Proc : call[p].pc = "verified"}

UnsignedInv == Len(store.ledger) - Signed + Cardinality(Writers) <= Cardinality(Proc)

-------------------------------------------------------------------------------
(* What stays true while the store and the journal grow.                   *)

\* The database and the journal keep what they hold.
Growth ==
    /\ Sound(store) /\ Sound(store') /\ Extends(store, store')
    /\ Len(store'.ledger) <= MaxLedger
    /\ Len(journal) <= Len(journal')
    /\ \A i \in DOMAIN journal : journal'[i] = journal[i]
    /\ journal' \in Seq(Record')
    /\ witness' \in Record' \cup {None}

LEMMA TypesGrow ==
  ASSUME Growth
  PROVE  /\ StateType \subseteq StateType' /\ Record \subseteq Record'
         /\ BindingType \subseteq BindingType' /\ Call \subseteq Call'
<1>1. /\ Len(store.ledger) \in Nat /\ Len(store'.ledger) \in Nat
      /\ Len(store.versions) \in Nat /\ Len(store'.versions) \in Nat
      /\ Len(store.ledger) <= Len(store'.ledger)
      /\ Len(store.versions) <= Len(store'.versions)
  BY Fields DEF Growth, Sound, Extends
<1>2. 0..Len(store.ledger) \subseteq 0..Len(store'.ledger)
  BY <1>1
<1>3. 0..Len(store.versions) \subseteq 0..Len(store'.versions)
  BY <1>1
<1>4. StateType \subseteq StateType'
  BY <1>2, <1>3 DEF StateType
<1>5. Record \subseteq Record'
  BY <1>4, Zenon DEF Record
<1>6. BindingType \subseteq BindingType'
  BY <1>4, Zenon DEF BindingType
<1>7. Call \subseteq Call'
  BY <1>2, <1>4, <1>5, <1>6 DEF Call
<1> QED BY <1>4, <1>5, <1>6, <1>7

LEMMA RecordIs ==
  ASSUME TypeOK, NEW r \in Record
  PROVE  /\ r # None
         /\ r.seq \in Nat /\ r.state \in StateType
         /\ r.state.events \in 0..Len(store.ledger) /\ r.state.events \in Nat
<1>1. Len(store.ledger) \in Nat /\ Len(store.versions) \in Nat
  BY Fields DEF TypeOK
<1>2. /\ r.state \in [events : Nat, rows : Nat, head : HeadEvent \cup {None}]
      /\ r.state.events \in 0..Len(store.ledger) /\ r.state.events \in Nat
  BY <1>1 DEF Record, StateType
<1>3. r \in [seq : Nat, kind : Kind, key : Key, own : Nat,
             state : [events : Nat, rows : Nat, head : HeadEvent \cup {None}]]
  BY <1>2 DEF Record
<1> QED BY <1>2, <1>3, NoneAssumption DEF Record

LEMMA JournalIs ==
  ASSUME TypeOK
  PROVE  /\ Len(journal) \in Nat /\ DOMAIN journal = 1..Len(journal)
         /\ \A i \in DOMAIN journal : journal[i] \in Record
         /\ Chain \subseteq DOMAIN journal
BY DEF TypeOK, Chain

LEMMA ChainStays ==
  ASSUME TypeOK, Growth
  PROVE  Chain \subseteq Chain'
<1> SUFFICES ASSUME NEW i \in Chain PROVE i \in Chain'
  OBVIOUS
<1>1. i \in DOMAIN journal /\ \A j \in 1..i : journal[j].seq = j
  BY DEF Chain
<1>2. /\ Len(journal) \in Nat /\ DOMAIN journal = 1..Len(journal)
      /\ Len(journal') \in Nat /\ DOMAIN journal' = 1..Len(journal')
      /\ Len(journal) <= Len(journal')
  BY JournalIs DEF Growth
<1>3. i \in DOMAIN journal'
  BY <1>1, <1>2
<1>4. \A j \in 1..i : journal'[j].seq = j
  BY <1>1, <1>2 DEF Growth
<1> QED BY <1>3, <1>4 DEF Chain

LEMMA BindingIs ==
  ASSUME TypeOK, NEW b \in BindingType
  PROVE  /\ b.cand \in Candidate /\ b.level \in Level
         /\ b.state.events \in 0..Len(store.ledger)
BY DEF BindingType, StateType

LEMMA OverBaseStays ==
  ASSUME TypeOK, Growth, NEW b \in BindingType \cup {None}, OverBase(b)
  PROVE  b # None /\ b.gated =>
            KnowledgeAt(store', b.state.events, ItemOf(b.cand)) = Base[b.cand]
<1> SUFFICES ASSUME b # None, b.gated
             PROVE  KnowledgeAt(store', b.state.events, ItemOf(b.cand)) = Base[b.cand]
  OBVIOUS
<1>1. b.state.events \in 0..Len(store.ledger)
  BY BindingIs
<1>2. store \in Database /\ store' \in Database /\ Extends(store, store')
  BY DEF Growth, Sound
<1> QED BY <1>1, <1>2, KnowledgeStable DEF OverBase

\* A call that does not move keeps its part of the invariant.
LEMMA CallStays ==
  ASSUME TypeInv, Growth, NEW q \in Proc, call'[q] = call[q]
  PROVE  (/\ Placed(call[q]) /\ BuiltOn(call[q]) /\ Applied(call[q])
          /\ Bound(call[q]) /\ Counts(call[q]) /\ Captures(call[q]))'
<1> DEFINE c == call[q]
<1>0. TypeOK /\ Sound(store) /\ store \in Database /\ store' \in Database
      /\ Extends(store, store')
  BY DEF TypeInv, Growth, Sound
<1>1. /\ c \in Call /\ Placed(c) /\ BuiltOn(c) /\ Applied(c) /\ Bound(c)
      /\ Counts(c) /\ Captures(c)
  BY DEF TypeInv, TypeOK, CallInv
<1>2. /\ c.pos \in 0..Len(store.ledger) /\ c.before \in Record \cup {None}
      /\ c.bound \in BindingType \cup {None} /\ c.state \in StateType \cup {None}
  BY <1>1 DEF Call
<1>3. call'[q] = c
  OBVIOUS
<1>4. \A i \in DOMAIN store.ledger : store'.ledger[i] = store.ledger[i]
  BY <1>0 DEF Extends
<1>5. Len(store.ledger) \in Nat /\ DOMAIN store.ledger = 1..Len(store.ledger)
  BY <1>0, Fields
<1> HIDE DEF c
<1>6. Placed(call[q])'
  BY <1>1, <1>3, TypesGrow DEF Placed
<1>7. BuiltOn(call[q])'
  BY <1>0, <1>1, <1>3, ChainStays, JournalIs DEF BuiltOn, Growth
<1>8. Applied(call[q])'
  <2> SUFFICES ASSUME c.pos # 0
               PROVE  LET e == store'.ledger[c.pos]
                      IN /\ c.before # None /\ c.before.state.events < c.pos
                         /\ e.type \in EventsOf(c.kind)
                         /\ e.before = KnowledgeAt(store', c.pos - 1, e.item)
                         /\ c.bound # None => e.cand = c.bound.cand
                                              /\ e.item = ItemOf(c.bound.cand)
    BY <1>3 DEF Applied
  <2>1. c.pos \in DOMAIN store.ledger /\ c.pos - 1 \in 0..Len(store.ledger)
    BY <1>2, <1>5
  <2>2. store'.ledger[c.pos] = store.ledger[c.pos]
    BY <1>4, <2>1
  <2> QED BY <1>0, <1>1, <2>1, <2>2, KnowledgeStable DEF Applied
<1>9. Bound(call[q])'
  <2> SUFFICES ASSUME c.bound # None
               PROVE  /\ c.before # None /\ c.bound.state = c.before.state
                      /\ c.bound.gated =>
                            KnowledgeAt(store', c.bound.state.events, ItemOf(c.bound.cand))
                               = Base[c.bound.cand]
                      /\ c.bound.use = "revision" =>
                           /\ c.bound.cand \in Revision
                           /\ c.pc \in Committed => StageEvents(store', c.bound.cand) # {}
    BY <1>3 DEF Bound, OverBase
  <2>1. StageEvents(store, c.bound.cand) \subseteq StageEvents(store', c.bound.cand)
    BY <1>0, StageEventsStay
  <2>2. OverBase(c.bound)
    BY <1>1 DEF Bound
  <2> QED BY <1>0, <1>1, <1>2, <2>1, <2>2, OverBaseStays DEF Bound
<1>10. Counts(call[q])'
  <2> SUFFICES ASSUME c.pc \in Reading, c.bound # None, c.bound.use = "revision"
               PROVE  \E i \in StageEvents(store', c.bound.cand) : i <= c.state.events
    BY <1>1, <1>3 DEF Counts
  <2>1. StageEvents(store, c.bound.cand) \subseteq StageEvents(store', c.bound.cand)
    BY <1>0, StageEventsStay
  <2> QED BY <1>1, <2>1 DEF Counts
<1>11. Captures(call[q])'
  BY <1>1, <1>3 DEF Captures
<1> QED BY <1>6, <1>7, <1>8, <1>9, <1>10, <1>11

\* ... and so do all calls when none moves.
LEMMA CallsStay ==
  ASSUME TypeInv, Growth, call' = call
  PROVE  (call \in [Proc -> Call] /\ CallInv)'
<1>1. call' \in [Proc -> Call']
  BY TypesGrow DEF TypeInv, TypeOK
<1>2. CallInv'
  BY CallStays DEF CallInv
<1> QED BY <1>1, <1>2

\* One call moves.
LEMMA CallFrame ==
  ASSUME TypeInv, Growth, NEW p \in Proc, NEW c,
         call' = [call EXCEPT ![p] = c], c \in Call',
         (/\ Placed(call[p]) /\ BuiltOn(call[p]) /\ Applied(call[p])
          /\ Bound(call[p]) /\ Counts(call[p]) /\ Captures(call[p]))'
  PROVE  (call \in [Proc -> Call] /\ CallInv)'
<1>1. call \in [Proc -> Call] /\ Call \subseteq Call'
  BY TypesGrow DEF TypeInv, TypeOK
<1>2. call' \in [Proc -> Call']
  BY <1>1
<1>3. \A q \in Proc : q # p => call'[q] = call[q]
  BY <1>1
<1>4. CallInv'
  BY <1>3, CallStays DEF CallInv
<1> QED BY <1>2, <1>4

-------------------------------------------------------------------------------
(* The steps of a call keep the invariant.                                 *)

CallsKept == Growth /\ (call \in [Proc -> Call] /\ CallInv)'

LEMMA Still ==
  ASSUME TypeInv, UNCHANGED <<store, journal, witness>>
  PROVE  Growth /\ StateType' = StateType /\ Record' = Record
         /\ BindingType' = BindingType /\ Call' = Call /\ Chain' = Chain
<1>1. /\ StateType' = StateType /\ Record' = Record
      /\ BindingType' = BindingType /\ Call' = Call /\ Chain' = Chain
  BY DEF StateType, Record, BindingType, Call, Chain
<1>2. store \in Database /\ Extends(store, store)
  BY ExtendsReflexive DEF TypeInv, Sound
<1>3. Len(journal) \in Nat
  BY DEF TypeInv, TypeOK
<1> QED BY <1>1, <1>2, <1>3 DEF Growth, TypeInv, TypeOK

LEMMA DigestIs ==
  ASSUME TypeOK
  PROVE  /\ Digest \in StateType /\ Digest.events = Len(store.ledger)
         /\ HeadOf(store) \in HeadEvent \cup {None}
         /\ Len(store.ledger) \in Nat /\ DOMAIN store.ledger = 1..Len(store.ledger)
<1>1. /\ Len(store.ledger) \in Nat /\ Len(store.versions) \in Nat
      /\ DOMAIN store.ledger = 1..Len(store.ledger) /\ store.ledger \in Seq(Event)
      /\ \A i \in DOMAIN store.ledger : store.ledger[i] \in Event
  BY Fields DEF TypeOK
<1>2. HeadOf(store) \in HeadEvent \cup {None}
  <2>1. CASE store.ledger = <<>>
    BY <2>1 DEF HeadOf
  <2>2. CASE store.ledger # <<>>
    <3>1. Len(store.ledger) \in DOMAIN store.ledger
      BY <1>1, <2>2
    <3> QED BY <1>1, <2>2, <3>1 DEF HeadOf, HeadEvent, Event
  <2> QED BY <2>1, <2>2
<1> QED BY <1>1, <1>2 DEF Digest, StateType

\* The head of a verified journal is the last record of the chain.
LEMMA HeadIs ==
  ASSUME TypeOK, JournalVerified
  PROVE  /\ Latest \in Record /\ Latest.seq \in Chain /\ journal[Latest.seq] = Latest
         /\ Latest.seq = Len(journal) /\ Chain = DOMAIN journal
<1>1. journal # <<>> /\ \A i \in DOMAIN journal : journal[i].seq = i
  BY DEF JournalVerified
<1>2. Len(journal) \in Nat /\ DOMAIN journal = 1..Len(journal) /\ Len(journal) # 0
  BY <1>1, JournalIs DEF TypeOK
<1>3. Len(journal) \in DOMAIN journal
  BY <1>2
<1>4. Chain = DOMAIN journal
  BY <1>1, <1>2 DEF Chain
<1> QED BY <1>1, <1>3, <1>4, JournalIs DEF Latest

LEMMA IdleIs ==
  ASSUME TypeInv, NEW p \in Proc, call[p].pc = "idle"
  PROVE  call[p] = [pc |-> "idle", bound |-> None, before |-> None, kind |-> None,
                    pos |-> 0, state |-> None]
BY DEF TypeInv, CallInv, Placed, Idle

LEMMA VerifyKeeps ==
  ASSUME TypeInv, NEW p \in Proc, NEW b \in BindingType \cup {None}, OverBase(b),
         b # None /\ b.use = "revision" => b.cand \in Revision, Verify(p, b)
  PROVE  CallsKept
<1>1. TypeOK /\ call \in [Proc -> Call] /\ call[p] \in Call
  BY DEF TypeInv, TypeOK
<1>2. PICK head \in IF b = None THEN VerifiedHead ELSE ExpectedHead(b) :
             call' = [call EXCEPT ![p] = [call[p] EXCEPT !.pc = "verified",
                                             !.before = head, !.bound = b]]
  BY <1>1 DEF Verify
<1>3. head \in VerifiedHead /\ (b # None => head.state = b.state)
  BY <1>2 DEF ExpectedHead
<1>4. JournalVerified /\ head = Latest
  BY <1>3 DEF VerifiedHead, StoreVerified
<1>5. head \in Record /\ head # None /\ head.seq \in Chain /\ journal[head.seq] = head
  BY <1>1, <1>4, HeadIs, RecordIs
<1> DEFINE d == call[p]
           c == [d EXCEPT !.pc = "verified", !.before = head, !.bound = b]
<1>6. /\ d.kind = None /\ d.pos = 0 /\ d.state = None /\ d \in Call
  BY <1>1, IdleIs DEF Verify
<1>7. call' = [call EXCEPT ![p] = c]
  BY <1>2
<1>8. Growth /\ Call' = Call /\ StateType' = StateType /\ Chain' = Chain
      /\ store' = store /\ journal' = journal
  BY Still DEF Verify
<1> HIDE DEF d
<1>9. c \in Call'
  BY <1>5, <1>6, <1>8 DEF Call, Phase
<1>10. call'[p] = c
  BY <1>1, <1>7
<1>11. /\ c.pc = "verified" /\ c.bound = b /\ c.before = head /\ c.kind = None
       /\ c.pos = 0 /\ c.state = None
  BY <1>6 DEF Call
<1> HIDE DEF c
<1>12. Placed(call[p])'
  BY <1>5, <1>10, <1>11 DEF Placed, Reading, Signing
<1>13. BuiltOn(call[p])'
  BY <1>5, <1>8, <1>10, <1>11 DEF BuiltOn
<1>14. Applied(call[p])'
  BY <1>10, <1>11 DEF Applied
<1>15. Bound(call[p])'
  BY <1>3, <1>5, <1>8, <1>10, <1>11 DEF Bound, OverBase, Committed
<1>16. Counts(call[p])' /\ Captures(call[p])'
  BY <1>10, <1>11 DEF Counts, Captures, Reading, Signing
<1> QED BY <1>7, <1>8, <1>9, <1>12, <1>13, <1>14, <1>15, <1>16, CallFrame DEF CallsKept

LEMMA CommitKeeps ==
  ASSUME TypeInv, NEW p \in Proc, NEW kind \in Kind \ {"bootstrap", "key_rotation"},
         NEW db, Sound(db), db = store \/ Books(store, db),
         db # store => db.ledger[Len(db.ledger)].type \in EventsOf(kind),
         call[p].pc = "verified",
         call[p].bound # None =>
            /\ db # store => /\ db.ledger[Len(db.ledger)].cand = call[p].bound.cand
                             /\ db.ledger[Len(db.ledger)].item = ItemOf(call[p].bound.cand)
            /\ call[p].bound.use = "revision" => StageEvents(db, call[p].bound.cand) # {},
         Commit(p, kind, db)
  PROVE  CallsKept
<1> DEFINE d == call[p]
           n == IF db = store THEN 0 ELSE Len(db.ledger)
           c == [d EXCEPT !.pc = "operated", !.kind = kind, !.pos = n]
<1>1. TypeOK /\ call \in [Proc -> Call] /\ d \in Call /\ store \in Database
      /\ db \in Database
  BY DEF TypeInv, TypeOK, Sound
<1>2. store' = db /\ journal' = journal /\ witness' = witness
      /\ Len(db.ledger) <= MaxLedger
  BY DEF Commit
<1>3. Extends(store, db) /\ (db # store => Len(db.ledger) = Len(store.ledger) + 1)
  BY <1>1, ExtendsReflexive DEF Books, Grows
<1>4. Growth
  <2>1. StateType \subseteq StateType'
    <3>1. /\ Len(store.ledger) \in Nat /\ Len(db.ledger) \in Nat
          /\ Len(store.versions) \in Nat /\ Len(db.versions) \in Nat
          /\ Len(store.ledger) <= Len(db.ledger)
          /\ Len(store.versions) <= Len(db.versions)
      BY <1>1, <1>3, Fields DEF Extends
    <3>2. /\ 0..Len(store.ledger) \subseteq 0..Len(db.ledger)
          /\ 0..Len(store.versions) \subseteq 0..Len(db.versions)
      BY <3>1
    <3> QED BY <1>2, <3>2 DEF StateType
  <2>2. Record \subseteq Record'
    BY <2>1, Zenon DEF Record
  <2>3. journal \in Seq(Record') /\ witness \in Record' \cup {None} /\ Len(journal) \in Nat
    BY <1>1, <2>2 DEF TypeOK
  <2> QED BY <1>2, <1>3, <2>3 DEF Growth, TypeInv
<1>5. call' = [call EXCEPT ![p] = c]
  BY DEF Commit
<1>6. d \in Call' /\ StateType \subseteq StateType' /\ Chain \subseteq Chain'
  BY <1>1, <1>4, TypesGrow, ChainStays
<1>7. n \in 0..Len(db.ledger) /\ Len(db.ledger) \in Nat
      /\ DOMAIN db.ledger = 1..Len(db.ledger)
  BY <1>1, Fields
<1>8. /\ d.pc = "verified" /\ d.before # None /\ d.before \in Record
      /\ Placed(d) /\ BuiltOn(d) /\ Bound(d)
  BY <1>1 DEF TypeInv, CallInv, Placed, Call
<1> HIDE DEF d, n
<1>9. /\ c.pc = "operated" /\ c.kind = kind /\ c.pos = n /\ c.bound = d.bound
      /\ c.before = d.before /\ c.state = d.state
  BY <1>1 DEF Call
<1>10. c \in Call'
  BY <1>2, <1>6, <1>7 DEF Call, Phase
<1>11. call'[p] = c
  BY <1>1, <1>5
<1> HIDE DEF c
<1>12. Placed(call[p])'
  BY <1>8, <1>9, <1>11 DEF Placed, Reading, Signing
<1>13. BuiltOn(call[p])'
  BY <1>2, <1>6, <1>8, <1>9, <1>11 DEF BuiltOn
<1>14. Applied(call[p])'
  <2> SUFFICES ASSUME n # 0
               PROVE  LET e == db.ledger[n]
                      IN /\ d.before # None /\ d.before.state.events < n
                         /\ e.type \in EventsOf(kind)
                         /\ e.before = KnowledgeAt(db, n - 1, e.item)
                         /\ d.bound # None => e.cand = d.bound.cand
                                              /\ e.item = ItemOf(d.bound.cand)
    BY <1>2, <1>9, <1>11 DEF Applied
  <2>1. n = Len(db.ledger) /\ db # store /\ Books(store, db)
    BY DEF n
  <2>2. d.before.state.events \in 0..Len(store.ledger) /\ Len(store.ledger) \in Nat
    BY <1>1, <1>8, RecordIs, Fields
  <2>3. d.before.state.events < n /\ n - 1 = Len(store.ledger)
        /\ Len(store.ledger) \in 0..Len(store.ledger)
    BY <1>3, <2>1, <2>2
  <2>4. db.ledger[n].before = KnowledgeAt(db, n - 1, db.ledger[n].item)
    BY <1>1, <1>3, <2>1, <2>3, KnowledgeStable DEF Books
  <2> QED BY <1>8, <2>1, <2>3, <2>4 DEF d
<1>15. Bound(call[p])'
  <2> SUFFICES ASSUME d.bound # None
               PROVE  /\ d.before # None /\ d.bound.state = d.before.state
                      /\ d.bound.gated =>
                            KnowledgeAt(db, d.bound.state.events, ItemOf(d.bound.cand))
                               = Base[d.bound.cand]
                      /\ d.bound.use = "revision" =>
                           /\ d.bound.cand \in Revision
                           /\ StageEvents(db, d.bound.cand) # {}
    BY <1>2, <1>9, <1>11 DEF Bound, OverBase
  <2>1. d.bound \in BindingType \cup {None} /\ OverBase(d.bound)
    BY <1>1, <1>8 DEF Call, Bound
  <2> QED BY <1>1, <1>2, <1>4, <1>8, <2>1, OverBaseStays DEF Bound, d
<1>16. Counts(call[p])' /\ Captures(call[p])'
  BY <1>9, <1>11 DEF Counts, Captures, Reading, Signing
<1> QED BY <1>4, <1>5, <1>10, <1>12, <1>13, <1>14, <1>15, <1>16, CallFrame DEF CallsKept

\* A call goes on, and the store stays.
LEMMA MoveKeeps ==
  ASSUME TypeInv, Growth, store' = store, NEW p \in Proc, NEW c \in Call,
         call' = [call EXCEPT ![p] = c],
         c.pos = call[p].pos /\ c.bound = call[p].bound /\ c.before = call[p].before,
         c.kind = call[p].kind \/ call[p].pos = 0,
         c.bound # None /\ c.pc \in Committed => call[p].pc \in Committed,
         Placed(c), Counts(c), Captures(c)
  PROVE  CallsKept
<1> DEFINE d == call[p]
<1>1. TypeOK /\ call \in [Proc -> Call] /\ call'[p] = c
  BY DEF TypeInv, TypeOK
<1>2. c \in Call' /\ StateType' = StateType /\ Chain \subseteq Chain'
  BY <1>1, TypesGrow, ChainStays DEF StateType
<1>3. BuiltOn(d) /\ Applied(d) /\ Bound(d)
  BY DEF TypeInv, CallInv
<1>4. /\ c.pos = d.pos /\ c.bound = d.bound /\ c.before = d.before
      /\ c.kind = d.kind \/ d.pos = 0
      /\ c.bound # None /\ c.pc \in Committed => d.pc \in Committed
  OBVIOUS
<1> HIDE DEF d
<1>5. Placed(call[p])'
  BY <1>1, <1>2 DEF Placed
<1>6. BuiltOn(call[p])'
  BY <1>1, <1>2, <1>3, <1>4, JournalIs DEF BuiltOn, Growth
<1>7. Applied(call[p])'
  BY <1>1, <1>3, <1>4 DEF Applied
<1>8. Bound(call[p])'
  BY <1>1, <1>3, <1>4 DEF Bound, OverBase
<1>9. Counts(call[p])' /\ Captures(call[p])'
  BY <1>1 DEF Counts, Captures
<1> QED BY <1>2, <1>5, <1>6, <1>7, <1>8, <1>9, CallFrame DEF CallsKept

LEMMA CallIs ==
  ASSUME TypeInv, NEW p \in Proc
  PROVE  /\ TypeOK /\ call \in [Proc -> Call] /\ call[p] \in Call
         /\ Placed(call[p]) /\ Applied(call[p]) /\ Bound(call[p])
         /\ Counts(call[p]) /\ Captures(call[p])
BY DEF TypeInv, TypeOK, CallInv

\* A call goes on with what it has.
LEMMA PcKeeps ==
  ASSUME TypeInv, Growth, store' = store, NEW p \in Proc, NEW x \in Phase,
         \/ x = "checked" /\ call[p].pc = "operated"
         \/ x \in Signing /\ call[p].pc \in Signing,
         call' = [call EXCEPT ![p].pc = x]
  PROVE  CallsKept
<1> DEFINE d == call[p]
           c == [d EXCEPT !.pc = x]
<1>1. d \in Call /\ Placed(d) /\ Captures(d)
  BY CallIs
<1>2. call' = [call EXCEPT ![p] = c]
  OBVIOUS
<1>3. \/ x = "checked" /\ d.pc = "operated"
      \/ x \in Signing /\ d.pc \in Signing
  OBVIOUS
<1>4. /\ c \in Call /\ c.pc = x /\ c.kind = d.kind /\ c.pos = d.pos
      /\ c.bound = d.bound /\ c.before = d.before /\ c.state = d.state
  <2> HIDE DEF d
  <2> QED BY <1>1 DEF Call
<1> HIDE DEF c
<1>5. Placed(c) /\ Counts(c) /\ Captures(c)
  <2> HIDE DEF d
  <2> QED BY <1>1, <1>3, <1>4 DEF Placed, Counts, Captures, Reading, Signing
<1>6. d.pc \in Committed
  BY <1>3 DEF Committed, Signing
<1> QED BY <1>2, <1>4, <1>5, <1>6, MoveKeeps

LEMMA RecheckKeeps ==
  ASSUME TypeInv, NEW p \in Proc, Recheck(p)
  PROVE  CallsKept
<1>1. Growth
  BY Still DEF Recheck
<1> QED BY <1>1, PcKeeps DEF Recheck, Phase

\* rotate_key and bootstrap go straight to the capture.
LEMMA StraightKeeps ==
  ASSUME TypeInv, NEW p \in Proc, Rotate(p) \/ Bootstrap(p)
  PROVE  CallsKept
<1>0. Growth /\ store' = store
  BY Still DEF Rotate, Bootstrap
<1>1. call[p] \in Call /\ Placed(call[p])
  BY CallIs
<1>2. \E kind \in {"key_rotation", "bootstrap"} :
         /\ call' = [call EXCEPT ![p] = [call[p] EXCEPT !.pc = "checked", !.kind = kind]]
         /\ kind = "bootstrap" <=> call[p].before = None
         /\ call[p].bound = None /\ call[p].pos = 0
  <2>1. CASE Rotate(p)
    <3>1. call[p].before # None /\ call[p].bound = None /\ call[p].pos = 0
      BY <1>1, <2>1 DEF Rotate, Serves, Placed
    <3> QED BY <2>1, <3>1 DEF Rotate
  <2>2. CASE Bootstrap(p)
    <3>1. call[p].before = None /\ call[p].bound = None /\ call[p].pos = 0
      BY <2>2, IdleIs DEF Bootstrap
    <3> QED BY <2>2, <3>1 DEF Bootstrap
  <2> QED BY <2>1, <2>2
<1>3. PICK kind \in {"key_rotation", "bootstrap"} :
         /\ call' = [call EXCEPT ![p] = [call[p] EXCEPT !.pc = "checked", !.kind = kind]]
         /\ kind = "bootstrap" <=> call[p].before = None
         /\ call[p].bound = None /\ call[p].pos = 0
  BY <1>2
<1> DEFINE d == call[p]
           c == [d EXCEPT !.pc = "checked", !.kind = kind]
<1>4. /\ c \in Call /\ c.pc = "checked" /\ c.kind = kind /\ c.pos = d.pos
      /\ c.bound = d.bound /\ c.before = d.before
  <2>1. d \in Call /\ kind \in Kind
    BY <1>1 DEF Kind
  <2> HIDE DEF d
  <2> QED BY <2>1 DEF Call, Phase
<1>5. call' = [call EXCEPT ![p] = c]
  BY <1>3
<1> HIDE DEF c
<1>6. Placed(c) /\ Counts(c) /\ Captures(c)
  BY <1>3, <1>4 DEF Placed, Counts, Captures, Reading, Signing, Kind
<1> QED BY <1>0, <1>3, <1>4, <1>5, <1>6, MoveKeeps

\* The two queries before the last.
LEMMA ReadKeeps ==
  ASSUME TypeInv, NEW p \in Proc, ReadLedger(p) \/ ReadVersions(p)
  PROVE  CallsKept
<1>0. Growth /\ store' = store
  BY Still DEF ReadLedger, ReadVersions
<1> DEFINE d == call[p]
<1>1. TypeOK /\ d \in Call /\ Placed(d) /\ Bound(d) /\ Counts(d)
  BY CallIs
<1>2. /\ Digest \in StateType /\ Digest.events = Len(store.ledger)
      /\ Len(store.ledger) \in Nat
  BY <1>1, DigestIs
<1>3. \E x \in Reading, st \in StateType :
         /\ call' = [call EXCEPT ![p] = [call[p] EXCEPT !.pc = x, !.state = st]]
         /\ \/ d.pc = "checked" /\ st.events = Len(store.ledger)
            \/ d.pc = "counted" /\ st.events = d.state.events
  <2>1. CASE ReadLedger(p)
    <3> DEFINE st == [events |-> Len(store.ledger), rows |-> 0, head |-> None]
    <3>1. st \in StateType /\ st.events = Len(store.ledger)
      <4>1. Len(store.versions) \in Nat
        BY <1>1, Fields DEF TypeOK
      <4> QED BY <1>2, <4>1 DEF StateType
    <3>2. /\ call' = [call EXCEPT ![p] = [call[p] EXCEPT !.pc = "counted", !.state = st]]
          /\ d.pc = "checked"
      BY <2>1 DEF ReadLedger
    <3> HIDE DEF st
    <3> QED BY <3>1, <3>2 DEF Reading
  <2>2. CASE ReadVersions(p)
    <3> DEFINE st == [d.state EXCEPT !.rows = Digest.rows]
    <3>1. d.pc = "counted" /\ d.state \in StateType
      BY <1>1, <2>2 DEF ReadVersions, Placed, Reading
    <3>2. st \in StateType /\ st.events = d.state.events
      <4> HIDE DEF d
      <4> QED BY <1>2, <3>1 DEF StateType
    <3>3. call' = [call EXCEPT ![p] = [call[p] EXCEPT !.pc = "listed", !.state = st]]
      BY <2>2 DEF ReadVersions
    <3> HIDE DEF st
    <3> QED BY <3>1, <3>2, <3>3 DEF Reading
  <2> QED BY <2>1, <2>2
<1>4. PICK x \in Reading, st \in StateType :
         /\ call' = [call EXCEPT ![p] = [call[p] EXCEPT !.pc = x, !.state = st]]
         /\ \/ d.pc = "checked" /\ st.events = Len(store.ledger)
            \/ d.pc = "counted" /\ st.events = d.state.events
  BY <1>3
<1> DEFINE c == [d EXCEPT !.pc = x, !.state = st]
<1>5. /\ c \in Call /\ c.pc = x /\ c.kind = d.kind /\ c.pos = d.pos
      /\ c.bound = d.bound /\ c.before = d.before /\ c.state = st
  <2> HIDE DEF d
  <2> QED BY <1>1 DEF Call, Phase, Reading
<1>6. call' = [call EXCEPT ![p] = c]
  BY <1>4
<1>7. d.pc \in Committed /\ d.pos \in 0..Len(store.ledger) /\ d.pc # "idle"
  BY <1>1, <1>4 DEF Committed, Call
<1> HIDE DEF c
<1>8. Placed(c) /\ Captures(c)
  <2> HIDE DEF d
  <2> QED BY <1>1, <1>4, <1>5 DEF Placed, Captures, Reading, Signing
<1>9. Counts(c)
  <2> SUFFICES /\ d.pos <= st.events
               /\ d.bound # None /\ d.bound.use = "revision" =>
                     \E i \in StageEvents(store, d.bound.cand) : i <= st.events
    BY <1>5 DEF Counts
  <2>1. CASE d.pc = "counted" /\ st.events = d.state.events
    BY <1>1, <2>1 DEF Counts, Reading
  <2>2. CASE d.pc = "checked" /\ st.events = Len(store.ledger)
    <3>1. ASSUME d.bound # None, d.bound.use = "revision"
          PROVE  \E i \in StageEvents(store, d.bound.cand) : i <= st.events
      <4>1. StageEvents(store, d.bound.cand) # {}
        BY <1>1, <1>7, <3>1 DEF Bound
      <4>2. StageEvents(store, d.bound.cand) \subseteq 1..Len(store.ledger)
        BY <1>1, DigestIs DEF StageEvents
      <4> QED BY <1>2, <2>2, <4>1, <4>2
    <3> QED BY <1>2, <1>7, <2>2, <3>1
  <2> QED BY <1>4, <2>1, <2>2
<1> QED BY <1>0, <1>5, <1>6, <1>7, <1>8, <1>9, MoveKeeps

\* The last query, and the checks of what has been captured.
LEMMA CaptureKeeps ==
  ASSUME TypeInv, NEW p \in Proc, Capture(p)
  PROVE  CallsKept
<1>0. Growth /\ store' = store
  BY Still DEF Capture
<1> DEFINE d == call[p]
           st == [d.state EXCEPT !.head = HeadOf(store)]
           c == [d EXCEPT !.pc = "captured", !.state = st]
<1>1. TypeOK /\ d \in Call /\ Placed(d) /\ Applied(d) /\ Counts(d)
  BY CallIs
<1>2. /\ d.pc = "listed" /\ call' = [call EXCEPT ![p] = c]
      /\ d.kind \notin {"bootstrap", "key_rotation"} => Advances(d.before, d.kind, st)
  BY DEF Capture, Captured, MayCapture
<1>3. /\ d.state \in StateType /\ d.kind \in Kind
      /\ d.kind = "bootstrap" <=> d.before = None
      /\ d.kind \in {"bootstrap", "key_rotation"} => d.pos = 0
      /\ d.pos <= d.state.events
      /\ d.pos \in Nat /\ d.before \in Record \cup {None}
  BY <1>1, <1>2, DigestIs DEF Placed, Counts, Reading, Call
<1>4. st \in StateType /\ st.events = d.state.events
  <2> HIDE DEF d
  <2> QED BY <1>1, <1>3, DigestIs DEF StateType
<1> HIDE DEF st
<1>5. /\ c \in Call /\ c.pc = "captured" /\ c.kind = d.kind /\ c.pos = d.pos
      /\ c.bound = d.bound /\ c.before = d.before /\ c.state = st
  <2> HIDE DEF d
  <2> QED BY <1>1, <1>4 DEF Call, Phase
<1> HIDE DEF c
<1>6. Placed(c) /\ Counts(c)
  BY <1>3, <1>4, <1>5 DEF Placed, Counts, Reading, Signing
<1>7. Captures(c)
  <2>1. CASE d.kind = "bootstrap"
    BY <1>3, <1>5, <2>1 DEF Captures
  <2>2. CASE d.kind = "key_rotation"
    BY <1>3, <1>5, <2>2 DEF Captures
  <2>3. CASE d.kind \notin {"bootstrap", "key_rotation"}
    <3>1. d.before # None /\ d.before.state.events \in Nat
      BY <1>1, <1>3, <2>3, RecordIs
    <3>2. st.events = d.before.state.events + 1
      BY <1>2, <2>3 DEF Advances
    <3>3. d.pos # 0 => d.before.state.events < d.pos
      BY <1>1 DEF Applied
    <3>4. d.pos # 0 => d.pos = st.events
      BY <1>3, <1>4, <3>1, <3>2, <3>3
    <3> QED BY <1>5, <3>1, <3>2, <3>4 DEF Captures
  <2> QED BY <2>1, <2>2, <2>3
<1>8. d.pc \in Committed
  BY <1>2 DEF Committed
<1> QED BY <1>0, <1>2, <1>5, <1>6, <1>7, <1>8, MoveKeeps

LEMMA RecordOfIs ==
  ASSUME TypeInv, NEW p \in Proc, call[p].pc \in Signing
  PROVE  RecordOf(p) \in Record
<1>1. TypeOK /\ call[p] \in Call /\ Placed(call[p])
  BY DEF TypeInv, TypeOK, CallInv
<1>2. call[p].state \in StateType /\ call[p].kind \in Kind
  BY <1>1 DEF Placed, Signing
<1>3. call[p].before # None => call[p].before.seq \in Nat
  BY <1>1, RecordIs DEF Call
<1>4. (IF call[p].before = None THEN 1 ELSE call[p].before.seq + 1) \in Nat
  BY <1>3
<1>5. ActiveKey[p] \in Key /\ call[p].pos \in Nat
  BY <1>1, DigestIs DEF Key, Call
<1> QED BY <1>2, <1>4, <1>5 DEF RecordOf, Record

\* The journal takes one more record.
LEMMA JournalGrows ==
  ASSUME TypeInv, NEW r \in Record, journal' = Append(journal, r),
         UNCHANGED <<store, witness>>
  PROVE  /\ Growth /\ Record' = Record /\ StateType' = StateType
         /\ Len(journal') = Len(journal) + 1 /\ journal'[Len(journal) + 1] = r
<1>1. TypeOK /\ journal \in Seq(Record)
  BY DEF TypeInv, TypeOK
<1>2. StateType' = StateType /\ Record' = Record
  BY DEF StateType, Record
<1>3. /\ journal' \in Seq(Record) /\ Len(journal') = Len(journal) + 1
      /\ journal'[Len(journal) + 1] = r
      /\ \A i \in DOMAIN journal : journal'[i] = journal[i]
  BY <1>1, AppendIs
<1>4. Len(journal) \in Nat /\ Len(journal) <= Len(journal')
  BY <1>1, <1>3
<1>5. store \in Database /\ Extends(store, store)
  BY ExtendsReflexive DEF TypeInv, Sound
<1> QED BY <1>1, <1>2, <1>3, <1>4, <1>5 DEF Growth, TypeInv, TypeOK

LEMMA AppendJournalKeeps ==
  ASSUME TypeInv, NEW p \in Proc, AppendJournal(p)
  PROVE  CallsKept
<1>1. RecordOf(p) \in Record
  BY RecordOfIs DEF AppendJournal, Signing
<1>2. Growth /\ store' = store
  BY <1>1, JournalGrows DEF AppendJournal
<1> QED BY <1>2, PcKeeps DEF AppendJournal, Phase, Signing

LEMMA WriteWitnessKeeps ==
  ASSUME TypeInv, NEW p \in Proc, WriteWitness(p)
  PROVE  CallsKept
<1>1. RecordOf(p) \in Record
  BY RecordOfIs DEF WriteWitness, Signing
<1>2. StateType' = StateType /\ Record' = Record /\ store' = store
  BY DEF StateType, Record, WriteWitness
<1>3. Growth
  <2>1. store \in Database /\ Extends(store, store) /\ Len(journal) \in Nat
    BY ExtendsReflexive DEF TypeInv, TypeOK, Sound
  <2> QED BY <1>1, <1>2, <2>1 DEF Growth, TypeInv, TypeOK, WriteWitness
<1> QED BY <1>2, <1>3, PcKeeps DEF WriteWitness, Phase, Signing

LEMMA IdleKeeps ==
  ASSUME TypeInv, Growth, NEW p \in Proc, call' = [call EXCEPT ![p] = Idle]
  PROVE  CallsKept
<1>1. call'[p] = Idle
  BY DEF TypeInv, TypeOK
<1>2. Idle \in Call'
  <2>1. Len(store'.ledger) \in Nat
    BY Fields DEF Growth, Sound
  <2> QED BY <2>1 DEF Idle, Call, Phase
<1>3. (Placed(call[p]) /\ BuiltOn(call[p]) /\ Applied(call[p]))'
  BY <1>1 DEF Idle, Placed, BuiltOn, Applied, Reading, Signing
<1>4. (Bound(call[p]) /\ Counts(call[p]) /\ Captures(call[p]))'
  BY <1>1 DEF Idle, Bound, Counts, Captures, Reading, Signing
<1> QED BY <1>2, <1>3, <1>4, CallFrame DEF CallsKept

LEMMA TornIs ==
  ASSUME TypeOK
  PROVE  Torn \in Record /\ Torn.seq = 0
<1>1. Len(store.ledger) \in Nat /\ Len(store.versions) \in Nat
  BY Fields DEF TypeOK
<1> QED BY <1>1 DEF Torn, Record, StateType, Kind, Key

LEMMA EndKeeps ==
  ASSUME TypeInv, NEW p \in Proc, Return(p) \/ Abandon(p) \/ TornAppend(p)
  PROVE  CallsKept
<1>1. CASE Return(p)
  BY <1>1, Still, IdleKeeps DEF Return
<1>2. CASE Abandon(p)
  BY <1>2, Still, IdleKeeps DEF Abandon
<1>3. CASE TornAppend(p)
  <2>1. Torn \in Record
    BY TornIs DEF TypeInv
  <2> QED BY <1>3, <2>1, JournalGrows, IdleKeeps DEF TornAppend
<1> QED BY <1>1, <1>2, <1>3

-------------------------------------------------------------------------------
(* The operations.                                                         *)

LEMMA OperationKeeps ==
  ASSUME TypeInv, NEW p \in Proc, Operation(p)
  PROVE  CallsKept
<1>0. Sound(store) /\ call[p].pc = "verified" /\ call[p].bound = None
  BY DEF TypeInv, Operation, ArchiveStep, RollbackStep, Serves
<1>1. CASE \E c \in Candidate \ Revision : StageStep(p, c)
  <2>0. PICK c \in Candidate : StageStep(p, c)
    BY <1>1
  <2>1. PICK db \in Stage(store, c) : Commit(p, "stage", db)
    BY <2>0 DEF StageStep
  <2>2. /\ Sound(db) /\ (db = store \/ Books(store, db))
        /\ db # store => db.ledger[Len(db.ledger)].type = "stage"
    BY <1>0, <2>1, StageSound
  <2> QED BY <1>0, <2>1, <2>2, CommitKeeps DEF Kind, EventsOf
<1>2. CASE \E c \in Candidate, l \in Level, r \in Offered : PromoteStep(p, c, l, r)
  <2>0. PICK c \in Candidate, l \in Level, r \in Offered : PromoteStep(p, c, l, r)
    BY <1>2
  <2>1. PICK db \in Promote(store, c, l, r) : Commit(p, "promote", db)
    BY <2>0 DEF PromoteStep
  <2>2. /\ Sound(db) /\ (db = store \/ Books(store, db))
        /\ db # store =>
              db.ledger[Len(db.ledger)].type \in {"validate", "activate", "enterprise"}
    BY <1>0, <2>1, PromoteSound, CheckpointAssumption
  <2> QED BY <1>0, <2>1, <2>2, CommitKeeps DEF Kind, EventsOf
<1>3. CASE ArchiveStep(p)
  <2>0. PICK item \in Candidate, k \in Knowledge :
                \E db \in Archive(store, item, k) : Commit(p, "archive", db)
    BY <1>3 DEF ArchiveStep
  <2>1. PICK db \in Archive(store, item, k) : Commit(p, "archive", db)
    BY <2>0
  <2>2. Sound(db) /\ Books(store, db) /\ db.ledger[Len(db.ledger)].type = "archive"
    BY <1>0, <2>1, ArchiveSound
  <2> QED BY <1>0, <2>1, <2>2, CommitKeeps DEF Kind, EventsOf
<1>4. CASE RollbackStep(p)
  <2>0. PICK item \in Candidate, k \in Knowledge, x \in Knowledge \cup {None} :
                \E db \in Rollback(store, item, k, x) : Commit(p, "rollback", db)
    BY <1>4 DEF RollbackStep
  <2>1. PICK db \in Rollback(store, item, k, x) : Commit(p, "rollback", db)
    BY <2>0
  <2>2. Sound(db) /\ Books(store, db) /\ db.ledger[Len(db.ledger)].type = "rollback"
    BY <1>0, <2>1, RollbackSound
  <2> QED BY <1>0, <2>1, <2>2, CommitKeeps DEF Kind, EventsOf
<1> QED BY <1>1, <1>2, <1>3, <1>4 DEF Operation

LEMMA BoundReceiptIs ==
  ASSUME NEW target, NEW r \in Offered
  PROVE  BoundReceipt(target, r) \in Receipt
<1>1. r \in Receipt
  BY CheckpointAssumption
<1> QED BY <1>1 DEF BoundReceipt, GateReceipt, Receipt

LEMMA BoundOperationKeeps ==
  ASSUME TypeInv, NEW p \in Proc, BoundOperation(p)
  PROVE  CallsKept
<1> DEFINE b == call[p].bound
<1>0. /\ Sound(store) /\ TypeOK /\ call[p].pc = "verified" /\ call[p] \in Call
      /\ b # None /\ b \in BindingType
      /\ Bound(call[p])
  BY DEF TypeInv, TypeOK, BoundOperation, CallInv, Call
<1>00. b.cand \in Candidate /\ b.level \in Level
  BY <1>0, BindingIs
<1>1. CASE b.use = "revision" /\ StageStep(p, b.cand)
  <2>1. PICK db \in Stage(store, b.cand) : Commit(p, "stage", db)
    BY <1>1 DEF StageStep
  <2>2. /\ Sound(db)
        /\ RowsAt(db, b.cand, "candidate") # {}
        /\ db # store => /\ Books(store, db)
                         /\ db.ledger[Len(db.ledger)].cand = b.cand
                         /\ db.ledger[Len(db.ledger)].item = ItemOf(b.cand)
                         /\ db.ledger[Len(db.ledger)].type = "stage"
    BY <1>0, <1>00, <2>1, StageSound
  <2>3. b.cand \in Candidate \ Creates
    BY <1>0, <1>1, RuntimeAssumption DEF Bound
  <2>4. StageEvents(db, b.cand) # {}
    BY <2>2, <2>3 DEF Sound, StagedOverBase
  <2> QED BY <1>0, <2>1, <2>2, <2>4, CommitKeeps DEF Kind, EventsOf
<1>2. CASE /\ b.use = "promotion"
           /\ \E r \in Offered : PromoteStep(p, b.cand, b.level, BoundReceipt(b.level, r))
  <2>0. PICK r \in Receipt : PromoteStep(p, b.cand, b.level, r)
    BY <1>2, BoundReceiptIs
  <2>1. PICK db \in Promote(store, b.cand, b.level, r) : Commit(p, "promote", db)
    BY <2>0 DEF PromoteStep
  <2>2. /\ Sound(db)
        /\ db # store => /\ Books(store, db)
                         /\ db.ledger[Len(db.ledger)].cand = b.cand
                         /\ db.ledger[Len(db.ledger)].item = ItemOf(b.cand)
                         /\ db.ledger[Len(db.ledger)].type
                               \in {"validate", "activate", "enterprise"}
    BY <1>0, <1>00, <2>1, PromoteSound
  <2>3. b.use # "revision"
    BY <1>2
  <2> QED BY <1>0, <2>1, <2>2, <2>3, CommitKeeps DEF Kind, EventsOf
<1> QED BY <1>1, <1>2 DEF BoundOperation

-------------------------------------------------------------------------------
(* The services over the checkpoints.                                      *)

RestTypes ==
    /\ ceremony \in [Proc -> BindingType \cup {None}]
    /\ approval \in [Revision -> BindingType \cup {None}]
    /\ receipt \in [Revision -> {"none", "claimed", "closed", "STAGED"}]
    /\ work \in [Revision -> [proc : Proc, staged : BOOLEAN] \cup {None}]

LEMMA Together ==
  ASSUME TypeInv, CallsKept, RestTypes'
  PROVE  Growth /\ TypeInv'
<1>1. Sound(store') /\ store' \in Database /\ UniqueRows(store')
  BY DEF CallsKept, Growth, Sound
<1> QED BY <1>1 DEF CallsKept, Growth, RestTypes, TypeInv, TypeOK

LEMMA CeremonyStays ==
  ASSUME TypeInv, BindingInv, Growth, ceremony' = ceremony
  PROVE  /\ ceremony' \in [Proc -> BindingType' \cup {None}]
         /\ \A p \in Proc : /\ OverBase(ceremony[p])'
                            /\ (ceremony[p] # None => ceremony[p].use = "promotion")'
<1>1. TypeOK /\ ceremony \in [Proc -> BindingType \cup {None}]
  BY DEF TypeInv, TypeOK
<1>2. ceremony' \in [Proc -> BindingType' \cup {None}]
  BY <1>1, TypesGrow
<1>3. ASSUME NEW p \in Proc PROVE OverBase(ceremony[p])'
  <2>1. ceremony[p] \in BindingType \cup {None} /\ OverBase(ceremony[p])
    BY <1>1 DEF BindingInv
  <2> QED BY <1>1, <2>1, OverBaseStays DEF OverBase
<1> QED BY <1>2, <1>3 DEF BindingInv

\* What the revision services keep stays when they do not move.
LEMMA RevisionsStay ==
  ASSUME TypeInv, BindingInv, Growth, approval' = approval
  PROVE  approval' \in [Revision -> BindingType' \cup {None}]
BY TypesGrow DEF TypeInv, TypeOK

\* The steps that move a call and nothing else.
LEMMA CallStep ==
  ASSUME TypeInv, BindingInv, CallsKept, UNCHANGED <<ceremony, revisionVars>>
  PROVE  Growth /\ TypeInv' /\ BindingInv'
<1>1. Growth /\ UNCHANGED <<ceremony, approval, receipt, work>>
  BY DEF CallsKept, revisionVars
<1>2. RestTypes'
  BY <1>1, CeremonyStays, RevisionsStay DEF RestTypes, TypeInv, TypeOK
<1>3. BindingInv'
  BY <1>1, CeremonyStays DEF BindingInv
<1> QED BY <1>2, <1>3, Together

LEMMA WorkAfterIs ==
  ASSUME TypeOK, NEW p, NEW staged \in BOOLEAN
  PROVE  /\ WorkAfter(p, staged) \in [Revision -> [proc : Proc, staged : BOOLEAN] \cup {None}]
         /\ \A c \in Revision : WorkAfter(p, staged)[c] # None => work[c] # None
         /\ \A c \in Revision :
               WorkAfter(p, staged)[c] # None /\ WorkAfter(p, staged)[c].staged =>
                  \/ work[c].staged
                  \/ staged /\ WorksOn(p, c) /\ call[p].bound = approval[c]
<1>1. \A c \in Revision : work[c] \in [proc : Proc, staged : BOOLEAN] \cup {None}
  BY DEF TypeOK
<1>2. ASSUME NEW c \in Revision
      PROVE  LET w == WorkAfter(p, staged)[c]
             IN /\ w \in [proc : Proc, staged : BOOLEAN] \cup {None}
                /\ w # None => work[c] # None
                /\ w # None /\ w.staged =>
                     \/ work[c].staged
                     \/ staged /\ WorksOn(p, c) /\ call[p].bound = approval[c]
  <2>1. work[c] \in [proc : Proc, staged : BOOLEAN] \cup {None}
    BY <1>1
  <2>2. CASE WorksOn(p, c) /\ call[p].bound = approval[c]
    <3>1. work[c] \in [proc : Proc, staged : BOOLEAN] /\ work[c] # None
      BY <2>1, <2>2 DEF WorksOn
    <3>2. WorkAfter(p, staged)[c] = IF staged THEN [work[c] EXCEPT !.staged = TRUE] ELSE None
      BY <2>2 DEF WorkAfter
    <3> QED BY <2>2, <3>1, <3>2
  <2>3. CASE ~(WorksOn(p, c) /\ call[p].bound = approval[c])
    <3>1. WorkAfter(p, staged)[c] = work[c]
      BY <2>3 DEF WorkAfter
    <3> QED BY <2>1, <3>1
  <2> QED BY <2>2, <2>3
<1>3. DOMAIN WorkAfter(p, staged) = Revision
      /\ WorkAfter(p, staged) = [c \in Revision |-> WorkAfter(p, staged)[c]]
  BY DEF WorkAfter
<1> QED BY <1>2, <1>3

LEMMA EndStep ==
  ASSUME TypeInv, BindingInv, NEW p \in Proc, End(p)
  PROVE  Growth /\ TypeInv' /\ BindingInv'
<1>1. CallsKept
  BY EndKeeps DEF End
<1>2. PICK staged \in BOOLEAN : work' = WorkAfter(p, staged)
  BY DEF End
<1>3. Growth /\ UNCHANGED <<ceremony, approval, receipt>> /\ TypeOK
  BY <1>1 DEF CallsKept, End, TypeInv
<1>4. RestTypes'
  BY <1>2, <1>3, WorkAfterIs, CeremonyStays, RevisionsStay DEF RestTypes, TypeOK
<1>5. BindingInv'
  BY <1>2, <1>3, WorkAfterIs, CeremonyStays DEF BindingInv
<1> QED BY <1>1, <1>4, <1>5, Together

LEMMA VerifiedHeadIs ==
  ASSUME TypeInv, NEW head \in VerifiedHead
  PROVE  /\ head.seq \in Nat /\ head.state \in StateType
         /\ head.state.events = Len(store.ledger)
<1>1. StoreVerified /\ head = Latest /\ TypeOK
  BY DEF VerifiedHead, TypeInv
<1>2. head \in Record /\ head.state = Digest
  BY <1>1, HeadIs DEF StoreVerified
<1> QED BY <1>1, <1>2, RecordIs, DigestIs

LEMMA PrepareStep ==
  ASSUME TypeInv, BindingInv, NEW p \in Proc, Prepare(p) \/ PrepareGate(p)
  PROVE  Growth /\ TypeInv' /\ BindingInv'
<1>1. UNCHANGED <<store, journal, witness, call, approval, receipt, work>>
  BY DEF Prepare, PrepareGate, checkpointVars, revisionVars
<1>2. Growth /\ CallsKept /\ BindingType' = BindingType
  BY <1>1, Still, CallsStay DEF CallsKept
<1>3. \E b \in BindingType : /\ ceremony' = [ceremony EXCEPT ![p] = b]
                             /\ OverBase(b) /\ b.use = "promotion"
  <2>1. CASE Prepare(p)
    <3>1. PICK head \in VerifiedHead, g \in Granted :
             ceremony' = [ceremony EXCEPT ![p] = Binding("promotion", g[1], g[2], head, FALSE)]
      BY <2>1 DEF Prepare
    <3>2. g[1] \in Candidate /\ g[2] \in Level
      BY RuntimeAssumption, Ranks DEF ActiveLevels
    <3> DEFINE b == Binding("promotion", g[1], g[2], head, FALSE)
    <3> HIDE DEF b
    <3>3. b \in BindingType /\ b.use = "promotion" /\ b.gated = FALSE
      BY <3>2, VerifiedHeadIs DEF b, Binding, BindingType
    <3> QED BY <3>1, <3>3 DEF OverBase, b
  <2>2. CASE PrepareGate(p)
    <3>0. PICK head \in VerifiedHead, c \in Evaluated :
             \E l \in NextTransition(c) :
                ceremony' = [ceremony EXCEPT ![p] = Binding("promotion", c, l, head, TRUE)]
      BY <2>2 DEF PrepareGate
    <3>1. PICK l \in NextTransition(c) :
             ceremony' = [ceremony EXCEPT ![p] = Binding("promotion", c, l, head, TRUE)]
      BY <3>0
    <3>2. c \in Candidate /\ l \in Level /\ OverItsBase(c)
      BY RuntimeAssumption DEF Evaluated, NextTransition
    <3> DEFINE b == Binding("promotion", c, l, head, TRUE)
    <3> HIDE DEF b
    <3>3. /\ b \in BindingType /\ b.use = "promotion" /\ b.cand = c
          /\ b.state.events = Len(store.ledger)
      BY <3>2, VerifiedHeadIs DEF b, Binding, BindingType
    <3>4. KnowledgeAt(store, Len(store.ledger), ItemOf(c)) = Base[c]
      BY <3>2, ActiveIs, ItemIs DEF OverItsBase, TypeInv
    <3> QED BY <3>1, <3>3, <3>4 DEF OverBase, b
  <2> QED BY <2>1, <2>2
<1>4. PICK b \in BindingType : /\ ceremony' = [ceremony EXCEPT ![p] = b]
                               /\ OverBase(b) /\ b.use = "promotion"
  BY <1>3
<1>5. ceremony \in [Proc -> BindingType \cup {None}]
  BY DEF TypeInv, TypeOK
<1>6. RestTypes'
  BY <1>1, <1>2, <1>4, <1>5 DEF RestTypes, TypeInv, TypeOK
<1>7. BindingInv'
  <2>1. ASSUME NEW q \in Proc
        PROVE  OverBase(ceremony[q])' /\ (ceremony'[q] # None => ceremony'[q].use = "promotion")
    <3>1. CASE q = p
      BY <1>1, <1>4, <1>5, <3>1 DEF OverBase
    <3>2. CASE q # p
      <4>1. ceremony'[q] = ceremony[q]
        BY <1>4, <1>5, <3>2
      <4> QED BY <1>1, <4>1 DEF BindingInv, OverBase
    <3> QED BY <3>1, <3>2
  <2> QED BY <1>1, <2>1 DEF BindingInv
<1> QED BY <1>2, <1>6, <1>7, Together

LEMMA VerifyCeremonyStep ==
  ASSUME TypeInv, BindingInv, NEW p \in Proc, VerifyCeremony(p)
  PROVE  Growth /\ TypeInv' /\ BindingInv'
<1>1. /\ Verify(p, ceremony[p]) /\ ceremony' = [ceremony EXCEPT ![p] = None]
      /\ UNCHANGED <<approval, receipt, work>> /\ ceremony[p] # None
  BY DEF VerifyCeremony, revisionVars
<1>2. /\ ceremony \in [Proc -> BindingType \cup {None}]
      /\ ceremony[p] \in BindingType \cup {None}
  BY DEF TypeInv, TypeOK
<1>3. OverBase(ceremony[p]) /\ ceremony[p].use = "promotion"
  BY <1>1 DEF BindingInv
<1>4. CallsKept
  BY <1>1, <1>2, <1>3, VerifyKeeps
<1>5. BindingType' = BindingType /\ store' = store
  BY <1>1, Still DEF Verify
<1>6. RestTypes'
  BY <1>1, <1>2, <1>5 DEF RestTypes, TypeInv, TypeOK
<1>7. BindingInv'
  <2>1. ASSUME NEW q \in Proc
        PROVE  OverBase(ceremony[q])' /\ (ceremony'[q] # None => ceremony'[q].use = "promotion")
    <3>1. CASE q = p
      BY <1>1, <1>2, <3>1 DEF OverBase
    <3>2. CASE q # p
      <4>1. ceremony'[q] = ceremony[q]
        BY <1>1, <1>2, <3>2
      <4> QED BY <1>5, <4>1 DEF BindingInv, OverBase
    <3> QED BY <3>1, <3>2
  <2> QED BY <1>1, <2>1 DEF BindingInv
<1> QED BY <1>4, <1>6, <1>7, Together

LEMMA ReviseStep ==
  ASSUME TypeInv, BindingInv, NEW p \in Proc, NEW c \in Revision, Revise(p, c)
  PROVE  Growth /\ TypeInv' /\ BindingInv'
<1>0. /\ ceremony \in [Proc -> BindingType \cup {None}]
      /\ approval \in [Revision -> BindingType \cup {None}]
      /\ receipt \in [Revision -> {"none", "claimed", "closed", "STAGED"}]
      /\ work \in [Revision -> [proc : Proc, staged : BOOLEAN] \cup {None}]
  BY DEF TypeInv, TypeOK
<1>1. CASE VerifyRevision(p, c)
  <2>1. WorksOn(p, c) /\ Verify(p, approval[c]) /\ UNCHANGED <<ceremony, revisionVars>>
    BY <1>1 DEF VerifyRevision
  <2>2. approval[c] \in BindingType \cup {None} /\ approval[c] # None
    BY <1>0, <2>1 DEF BindingInv, WorksOn
  <2>3. OverBase(approval[c]) /\ approval[c].cand \in Revision
    BY <2>2 DEF BindingInv, OverBase
  <2> QED BY <2>1, <2>2, <2>3, VerifyKeeps, CallStep
<1>2. ASSUME UNCHANGED <<store, journal, witness, call, ceremony>>, RestTypes',
             \A x \in Revision :
                /\ approval'[x] # None =>
                      /\ approval'[x].use = "revision" /\ approval'[x].cand = x
                      /\ ~approval'[x].gated
                /\ work'[x] # None => approval'[x] # None
      PROVE  Growth /\ TypeInv' /\ BindingInv'
  <2>1. Growth /\ CallsKept
    BY <1>2, Still, CallsStay DEF CallsKept
  <2>2. BindingInv'
    BY <1>2, <2>1, CeremonyStays DEF BindingInv
  <2> QED BY <1>2, <2>1, <2>2, Together
<1>3. CASE Approve(p, c)
  <2>1. /\ UNCHANGED <<store, journal, witness, call, ceremony, receipt, work>>
        /\ BindingType' = BindingType
    BY <1>3, Still DEF Approve, checkpointVars
  <2>2. PICK head \in VerifiedHead :
           approval' = [approval EXCEPT ![c] = Binding("revision", c, "candidate", head, FALSE)]
    BY <1>3 DEF Approve
  <2> DEFINE b == Binding("revision", c, "candidate", head, FALSE)
  <2>3. /\ b \in BindingType /\ b.use = "revision" /\ b.cand = c /\ ~b.gated
    BY VerifiedHeadIs, RuntimeAssumption, Ranks DEF Binding, BindingType
  <2> HIDE DEF b
  <2>4. approval' = [approval EXCEPT ![c] = b]
    BY <2>2 DEF b
  <2>5. RestTypes'
    BY <1>0, <2>1, <2>3, <2>4 DEF RestTypes
  <2>6. /\ approval'[c] = b
        /\ \A x \in Revision : x # c => approval'[x] = approval[x]
    BY <1>0, <2>4
  <2>7. b # None \/ work[c] = None
    BY <1>3 DEF Approve, BindingInv
  <2> QED BY <1>2, <2>1, <2>3, <2>5, <2>6, <2>7 DEF BindingInv
<1>4. CASE Claim(p, c)
  <2>1. /\ UNCHANGED <<store, journal, witness, call, ceremony, approval>>
        /\ BindingType' = BindingType
    BY <1>4, Still DEF Claim, checkpointVars
  <2>2. /\ receipt' = [receipt EXCEPT ![c] = "claimed"]
        /\ work' = [work EXCEPT ![c] = [proc |-> p, staged |-> FALSE]]
        /\ approval[c] # None
    BY <1>4 DEF Claim, StillApproved
  <2>3. RestTypes'
    BY <1>0, <2>1, <2>2 DEF RestTypes
  <2>4. \A x \in Revision : x # c => work'[x] = work[x]
    BY <1>0, <2>2
  <2> QED BY <1>2, <2>1, <2>2, <2>3, <2>4 DEF BindingInv
<1>5. CASE CloseRevision(p, c) \/ CompleteRevision(p, c) \/ LoseWorker(p, c)
  <2>1. /\ UNCHANGED <<store, journal, witness, call, ceremony, approval>>
        /\ BindingType' = BindingType
    BY <1>5, Still DEF CloseRevision, CompleteRevision, LoseWorker, checkpointVars
  <2>2. /\ \E x \in {"closed", "STAGED", receipt[c]} : receipt' = [receipt EXCEPT ![c] = x]
        /\ work' = [work EXCEPT ![c] = None]
    BY <1>0, <1>5 DEF CloseRevision, CompleteRevision, LoseWorker
  <2>3. RestTypes'
    BY <1>0, <2>1, <2>2 DEF RestTypes
  <2>4. work'[c] = None /\ \A x \in Revision : x # c => work'[x] = work[x]
    BY <1>0, <2>2
  <2> QED BY <1>2, <2>1, <2>3, <2>4 DEF BindingInv
<1> QED BY <1>1, <1>3, <1>4, <1>5 DEF Revise

LEMMA StepStep ==
  ASSUME TypeInv, BindingInv, NEW p \in Proc, Step(p)
  PROVE  Growth /\ TypeInv' /\ BindingInv'
<1>1. UNCHANGED <<ceremony, revisionVars>>
  BY DEF Step
<1>2. CASE Verify(p, None)
  BY <1>1, <1>2, VerifyKeeps, CallStep DEF OverBase
<1>3. CASE Recheck(p)
  BY <1>1, <1>3, RecheckKeeps, CallStep
<1>4. CASE Rotate(p) \/ Bootstrap(p)
  BY <1>1, <1>4, StraightKeeps, CallStep
<1>7. CASE ReadLedger(p) \/ ReadVersions(p)
  BY <1>1, <1>7, ReadKeeps, CallStep
<1>8. CASE Capture(p)
  BY <1>1, <1>8, CaptureKeeps, CallStep
<1>5. CASE AppendJournal(p)
  BY <1>1, <1>5, AppendJournalKeeps, CallStep
<1>6. CASE WriteWitness(p)
  BY <1>1, <1>6, WriteWitnessKeeps, CallStep
<1> QED BY <1>2, <1>3, <1>4, <1>5, <1>6, <1>7, <1>8 DEF Step

LEMMA InitHolds ==
  ASSUME Init
  PROVE  TypeInv /\ BindingInv
<1>1. store = Initial /\ Sound(store) /\ Len(store.ledger) <= MaxLedger
      /\ store \in Database /\ UniqueRows(store)
  BY InitialAssumption DEF Init, CheckpointInit, Sound
<1>2. Idle \in Call
  BY <1>1, Fields DEF Idle, Call, Phase
<1>3. \A p \in Proc : call[p] = Idle
  BY DEF Init, CheckpointInit
<1>4. TypeOK
  BY <1>1, <1>2 DEF Init, CheckpointInit, TypeOK
<1>5. /\ Placed(Idle) /\ BuiltOn(Idle) /\ Applied(Idle) /\ Bound(Idle)
      /\ Counts(Idle) /\ Captures(Idle)
  BY DEF Idle, Placed, BuiltOn, Applied, Bound, Counts, Captures, Reading, Signing
<1>6. CallInv
  BY <1>3, <1>5 DEF CallInv
<1>7. BindingInv
  BY DEF Init, BindingInv, OverBase
<1> QED BY <1>1, <1>4, <1>6, <1>7 DEF TypeInv

LEMMA NextHolds ==
  ASSUME TypeInv, BindingInv, [Next]_vars
  PROVE  Growth /\ TypeInv' /\ BindingInv'
<1>1. CASE UNCHANGED vars
  <2>1. UNCHANGED <<store, journal, witness, call, ceremony, revisionVars>>
    BY <1>1 DEF vars, checkpointVars
  <2>2. CallsKept
    BY <2>1, Still, CallsStay DEF CallsKept
  <2> QED BY <2>1, <2>2, CallStep
<1>2. ASSUME NEW p \in Proc,
             \/ Step(p) \/ Operation(p) \/ BoundOperation(p) \/ End(p)
             \/ Prepare(p) \/ PrepareGate(p) \/ VerifyCeremony(p)
             \/ \E c \in Revision : Revise(p, c)
      PROVE  Growth /\ TypeInv' /\ BindingInv'
  <2>1. CASE Step(p)
    BY <2>1, StepStep
  <2>2. CASE Operation(p)
    BY <2>2, OperationKeeps, CallStep DEF Operation
  <2>3. CASE BoundOperation(p)
    BY <2>3, BoundOperationKeeps, CallStep DEF BoundOperation
  <2>4. CASE End(p)
    BY <2>4, EndStep
  <2>5. CASE Prepare(p) \/ PrepareGate(p)
    BY <2>5, PrepareStep
  <2>6. CASE VerifyCeremony(p)
    BY <2>6, VerifyCeremonyStep
  <2>7. CASE \E c \in Revision : Revise(p, c)
    BY <2>7, ReviseStep
  <2> QED BY <1>2, <2>1, <2>2, <2>3, <2>4, <2>5, <2>6, <2>7
<1> QED BY <1>1, <1>2 DEF Next

LEMMA InductiveInvariant == Spec => [](TypeInv /\ BindingInv)
<1>1. Init => TypeInv /\ BindingInv
  BY InitHolds
<1>2. TypeInv /\ BindingInv /\ [Next]_vars => (TypeInv /\ BindingInv)'
  BY NextHolds
<1> QED BY <1>1, <1>2, PTL DEF Spec

(* Every variable of the learning services has its type: in particular no  *)
(* captured, signed or approved state is ahead of the store, and the       *)
(* unique index of the version rows is never violated, whatever calls are  *)
(* interleaved and wherever they stop.                                     *)
THEOREM TypeCorrect == Spec => []TypeOK
<1>1. TypeInv /\ BindingInv => TypeOK
  BY DEF TypeInv
<1> QED BY <1>1, InductiveInvariant, PTL

(* What is active for an item is always a snapshot whose candidate went up *)
(* every level below it with receipts the policy accepts: promote, archive *)
(* and rollback of AdaptiveLearningStore never leave an item without one.  *)
THEOREM ActiveIsReviewed == Spec => []ActiveReviewed
<1>1. TypeInv => ActiveReviewed
  <2> SUFFICES ASSUME TypeInv, NEW item \in Candidate, HasActive(store, item)
               PROVE  /\ ~Unresolved(store, item)
                      /\ Climbed(store, ActiveRow(store, item).cand,
                                 ActiveRow(store, item).level)
    BY DEF ActiveReviewed
  <2>1. Sound(store)
    BY DEF TypeInv
  <2>2. PICK i \in DOMAIN store.versions : ActiveRow(store, item) = store.versions[i]
    BY <2>1, ActiveIs
  <2> QED BY <2>1, <2>2, ActiveIs DEF Sound, LevelsClimbed
<1> QED BY <1>1, InductiveInvariant, PTL

-------------------------------------------------------------------------------
(* What the accepted chain of the journal covers.                          *)

\* The store was there before the checkpoints.
Older == Len(Initial.ledger) <= Len(store.ledger)

\* What Signed is: the largest number of events a record of the chain names.
SignedFacts ==
    /\ Signed \in 0..Len(store.ledger)
    /\ Len(Initial.ledger) <= Signed
    /\ \A i \in Chain : journal[i].state.events <= Signed
    /\ \/ Signed = Len(Initial.ledger)
       \/ \E i \in Chain : Signed = journal[i].state.events

LEMMA SignedIs == TypeInv /\ Older => SignedFacts
<1> SUFFICES ASSUME TypeInv, Older PROVE SignedFacts
  OBVIOUS
<1> DEFINE S == {Len(Initial.ledger)} \cup {journal[i].state.events : i \in Chain}
<1>1. TypeOK /\ Len(store.ledger) \in Nat
  BY DigestIs DEF TypeInv
<1>2. Len(Initial.ledger) \in Nat
  BY InitialAssumption, Fields DEF Sound
<1>3. \A i \in Chain : journal[i].state.events \in 0..Len(store.ledger)
  BY <1>1, JournalIs, RecordIs
<1>4. S \in SUBSET (0..Len(store.ledger)) /\ S # {}
  BY <1>1, <1>2, <1>3 DEF Older
<1>5. Max(S) \in S /\ Max(S) \in 0..Len(store.ledger) /\ \A m \in S : m <= Max(S)
  <2> HIDE DEF S
  <2> QED BY <1>1, <1>4, MaxIs
<1>6. Signed = Max(S)
  BY DEF Signed
<1> QED BY <1>5, <1>6 DEF SignedFacts

LEMMA SignedGrows ==
  ASSUME TypeInv, Older, Growth, TypeInv'
  PROVE  Older' /\ Signed <= Signed' /\ Signed \in Nat /\ Signed' \in Nat
<1>1. TypeOK /\ Len(store.ledger) \in Nat /\ Len(store'.ledger) \in Nat
      /\ Len(Initial.ledger) \in Nat /\ Len(store.ledger) <= Len(store'.ledger)
  BY InitialAssumption, Fields DEF TypeInv, Growth, Sound, Extends
<1>2. Older'
  BY <1>1 DEF Older
<1>3. /\ Signed \in 0..Len(store.ledger)
      /\ \/ Signed = Len(Initial.ledger)
         \/ \E i \in Chain : Signed = journal[i].state.events
  BY SignedIs DEF SignedFacts
<1>4. /\ Signed' \in 0..Len(store'.ledger)
      /\ Len(Initial.ledger) <= Signed'
      /\ \A i \in Chain' : journal'[i].state.events <= Signed'
  <2>1. SignedFacts'
    BY <1>2, SignedIs, PTL
  <2> QED BY <2>1 DEF SignedFacts
<1>5. \A i \in Chain : i \in Chain' /\ journal'[i] = journal[i]
  BY <1>1, ChainStays, JournalIs DEF Growth
<1>6. Signed <= Signed'
  BY <1>3, <1>4, <1>5
<1> QED BY <1>1, <1>2, <1>3, <1>4, <1>6

LEMMA ChainInvariant == Spec => [](TypeInv /\ BindingInv /\ Older)
<1>1. Init => TypeInv /\ BindingInv /\ Older
  <2>1. Init => store = Initial
    BY DEF Init, CheckpointInit
  <2>2. Len(Initial.ledger) \in Nat
    BY InitialAssumption, Fields DEF Sound
  <2> QED BY <2>1, <2>2, InitHolds DEF Older
<1>2. TypeInv /\ BindingInv /\ Older /\ [Next]_vars => (TypeInv /\ BindingInv /\ Older)'
  BY NextHolds, SignedGrows
<1> QED BY <1>1, <1>2, PTL DEF Spec

\* What a call that may return has written or staged, a record of the chain covers.
LEMMA ReturnIs ==
  ASSUME TypeInv, Older, NEW p \in Proc, MayReturn(p)
  PROVE  /\ call[p].pos <= Signed
         /\ call[p].bound # None /\ call[p].bound.use = "revision" =>
               Staged(call[p].bound.cand)
<1> DEFINE c == call[p]
<1>1. TypeOK /\ Placed(c) /\ BuiltOn(c) /\ Bound(c) /\ Counts(c) /\ c \in Call
      /\ Len(store.ledger) \in Nat /\ Digest.events = Len(store.ledger)
      /\ DOMAIN store.ledger = 1..Len(store.ledger)
  BY DigestIs DEF TypeInv, TypeOK, CallInv
<1>2. c.pos \in 0..Len(store.ledger) /\ c.before \in Record \cup {None}
  BY <1>1 DEF Call
<1>3. Signed \in Nat /\ \A i \in Chain : journal[i].state.events <= Signed
  BY <1>1, SignedIs DEF SignedFacts
<1>4. CASE c.pc = "witnessed" /\ StoreVerified
  <2>1. Latest.seq \in Chain /\ journal[Latest.seq] = Latest /\ Latest.state = Digest
    BY <1>1, <1>4, HeadIs DEF StoreVerified
  <2>2. Len(store.ledger) <= Signed
    BY <1>1, <1>3, <2>1
  <2>3. ASSUME c.bound # None, c.bound.use = "revision" PROVE Staged(c.bound.cand)
    <3>1. StageEvents(store, c.bound.cand) # {}
      BY <1>1, <1>4, <2>3 DEF Bound, Committed
    <3>2. StageEvents(store, c.bound.cand) \subseteq 1..Len(store.ledger)
      BY <1>1 DEF StageEvents
    <3> QED BY <1>1, <1>3, <2>2, <3>1, <3>2 DEF Staged
  <2> QED BY <1>1, <1>2, <1>3, <2>2, <2>3
<1>5. CASE /\ c.pc = "listed" /\ c.kind \notin {"bootstrap", "key_rotation"}
           /\ Captured(p) = c.before.state
  <2>1. c.before # None /\ c.state \in StateType
    BY <1>1, <1>5 DEF Placed, Reading
  <2>2. c.before.seq \in Chain /\ journal[c.before.seq] = c.before
    BY <1>1, <2>1 DEF BuiltOn
  <2>3. c.before.state.events = c.state.events
    <3>1. Captured(p).events = c.state.events
      <4>1. Captured(p) = [c.state EXCEPT !.head = HeadOf(store)]
        BY DEF Captured
      <4> HIDE DEF c
      <4> QED BY <2>1, <4>1 DEF StateType
    <3> QED BY <1>5, <3>1
  <2>4. c.state.events <= Signed /\ c.state.events \in Nat
    BY <1>1, <1>2, <1>3, <2>1, <2>2, <2>3, RecordIs
  <2>5. c.pos <= c.state.events
    BY <1>1, <1>5 DEF Counts, Reading
  <2>6. ASSUME c.bound # None, c.bound.use = "revision" PROVE Staged(c.bound.cand)
    <3>1. PICK i \in StageEvents(store, c.bound.cand) : i <= c.state.events
      BY <1>1, <1>5, <2>6 DEF Counts, Reading
    <3>2. i \in Nat
      BY <1>1 DEF StageEvents
    <3> QED BY <1>3, <2>4, <3>1, <3>2 DEF Staged
  <2> QED BY <1>1, <1>2, <1>3, <2>4, <2>5, <2>6
<1> QED BY <1>4, <1>5 DEF MayReturn

(* When a gateway is about to report success, the event it wrote is        *)
(* covered by a record of the journal's accepted chain.                    *)
THEOREM SuccessesAreSigned == Spec => []SuccessIsSigned
<1>1. TypeInv /\ Older => SuccessIsSigned
  <2> SUFFICES ASSUME TypeInv, Older, NEW p \in Proc, MayReturn(p)
               PROVE  call[p].pos <= Signed
    BY DEF SuccessIsSigned, Succeeding
  <2> QED BY ReturnIs
<1> QED BY <1>1, ChainInvariant, PTL

\* The event of a call that may return is the next one after its record.
LEMMA SuccessIs ==
  ASSUME TypeInv, NEW p \in Succeeding
  PROVE  /\ call[p].before # None /\ call[p].pos = call[p].before.state.events + 1
         /\ call[p].bound # None => call[p].bound.state = call[p].before.state
<1>1. p \in Proc /\ MayReturn(p) /\ call[p].pos # 0
  BY DEF Succeeding
<1>2. /\ TypeOK /\ call[p] \in Call /\ Placed(call[p]) /\ Applied(call[p])
      /\ Bound(call[p]) /\ Counts(call[p]) /\ Captures(call[p])
  BY <1>1 DEF TypeInv, TypeOK, CallInv
<1>3. call[p].before # None /\ call[p].before.state.events < call[p].pos
  BY <1>1, <1>2 DEF Applied
<1>4. /\ call[p].before.state.events \in Nat /\ call[p].pos \in 0..Len(store.ledger)
      /\ Len(store.ledger) \in Nat /\ Digest.events = Len(store.ledger)
  BY <1>2, <1>3, RecordIs, DigestIs DEF Call
<1>5. CASE call[p].pc = "witnessed"
  <2>1. \/ call[p].before = None
        \/ call[p].pos = 0
        \/ /\ call[p].state.events = call[p].before.state.events + 1
           /\ call[p].pos # 0 => call[p].pos = call[p].state.events
    BY <1>2, <1>5, Zenon DEF Captures, Signing
  <2>2. call[p].pos = call[p].before.state.events + 1
    BY <1>1, <1>3, <2>1
  <2>3. call[p].bound # None => call[p].bound.state = call[p].before.state
    BY <1>2 DEF Bound
  <2> QED BY <1>3, <2>2, <2>3
<1>6. CASE call[p].pc = "listed" /\ Captured(p) = call[p].before.state
  <2>1. call[p].state \in StateType /\ call[p].pos <= call[p].state.events
    BY <1>2, <1>6 DEF Placed, Counts, Reading
  <2>2. Captured(p).events = call[p].state.events
    <3> DEFINE st == call[p].state
    <3>1. Captured(p) = [st EXCEPT !.head = HeadOf(store)] /\ st \in StateType
      BY <2>1 DEF Captured
    <3> HIDE DEF st
    <3>2. Captured(p).events = st.events
      BY <3>1 DEF StateType
    <3> QED BY <3>2 DEF st
  <2> QED BY <1>3, <1>4, <1>6, <2>1, <2>2
<1> QED BY <1>1, <1>2, <1>3, <1>5, <1>6 DEF MayReturn, Bound

(* When a gateway is about to report success, the event it wrote was       *)
(* applied to exactly the state the caller relied on: the state the        *)
(* approval or the evaluation was made on, or the one the call verified.   *)
THEOREM SuccessesAreInformed == Spec => []SuccessIsInformed
<1>1. TypeInv => SuccessIsInformed
  BY SuccessIs DEF SuccessIsInformed, BasisOf
<1> QED BY <1>1, ChainInvariant, PTL

(* A gate that is told that its promotion succeeded has promoted a         *)
(* revision over exactly the knowledge the revision was written against.   *)
THEOREM GatesPromoteOverBase == Spec => []RevisionsOverBase
<1>1. TypeInv => RevisionsOverBase
  <2> SUFFICES ASSUME TypeInv, NEW p \in Succeeding, call[p].bound # None,
                      call[p].bound.gated
               PROVE  store.ledger[call[p].pos].before = Base[call[p].bound.cand]
    BY DEF RevisionsOverBase
  <2> DEFINE c == call[p]
             e == store.ledger[c.pos]
  <2>1. p \in Proc /\ c.pos # 0
    BY DEF Succeeding
  <2>2. TypeOK /\ c \in Call /\ Applied(c) /\ Bound(c)
    BY <2>1 DEF TypeInv, TypeOK, CallInv
  <2>3. /\ c.before # None /\ c.pos = c.before.state.events + 1
        /\ c.bound.state = c.before.state
    BY SuccessIs
  <2>4. c.before.state.events \in Nat
    BY <2>2, <2>3, RecordIs DEF Call
  <2>5. /\ e.before = KnowledgeAt(store, c.pos - 1, e.item)
        /\ e.item = ItemOf(c.bound.cand)
    BY <2>1, <2>2 DEF Applied
  <2>6. KnowledgeAt(store, c.bound.state.events, ItemOf(c.bound.cand)) = Base[c.bound.cand]
    BY <2>2 DEF Bound, OverBase
  <2>7. c.pos - 1 = c.bound.state.events
    BY <2>3, <2>4
  <2> QED BY <2>5, <2>6, <2>7
<1> QED BY <1>1, ChainInvariant, PTL

-------------------------------------------------------------------------------
(* How the journal grows.                                                  *)

\* Every step appends one record, a torn line, or nothing.
LEMMA JournalStep ==
  ASSUME TypeInv, [Next]_vars
  PROVE  \/ journal' = journal
         \/ \E p \in Proc : AppendJournal(p)
         \/ journal' = Append(journal, Torn)
<1>1. CASE UNCHANGED vars
  BY <1>1 DEF vars, checkpointVars
<1>2. ASSUME NEW p \in Proc, Step(p)
      PROVE  journal' = journal \/ AppendJournal(p)
  BY <1>2 DEF Step, Verify, Recheck, ReadLedger, ReadVersions, Capture, Rotate, Bootstrap,
              WriteWitness
<1>3. ASSUME NEW p \in Proc, Operation(p) \/ BoundOperation(p)
      PROVE  journal' = journal
  BY <1>3 DEF Operation, BoundOperation, StageStep, PromoteStep, ArchiveStep, RollbackStep,
              Commit
<1>4. ASSUME NEW p \in Proc, End(p)
      PROVE  journal' = journal \/ journal' = Append(journal, Torn)
  BY <1>4 DEF End, Return, Abandon, TornAppend
<1>5. ASSUME NEW p \in Proc, Prepare(p) \/ PrepareGate(p) \/ VerifyCeremony(p)
      PROVE  journal' = journal
  BY <1>5 DEF Prepare, PrepareGate, VerifyCeremony, Verify, checkpointVars
<1>6. ASSUME NEW p \in Proc, NEW c \in Revision, Revise(p, c)
      PROVE  journal' = journal
  BY <1>6 DEF Revise, Approve, Claim, CloseRevision, VerifyRevision, CompleteRevision,
              LoseWorker, Verify, checkpointVars
<1> QED BY <1>1, <1>2, <1>3, <1>4, <1>5, <1>6 DEF Next

LEMMA StepwiseStep ==
  ASSUME TypeInv, BindingInv, RecordsStepwise, [Next]_vars
  PROVE  RecordsStepwise'
<1>1. TypeOK /\ Growth /\ TypeInv'
  BY NextHolds DEF TypeInv
<1>2. /\ Len(journal) \in Nat /\ DOMAIN journal = 1..Len(journal)
      /\ Len(store.ledger) \in Nat /\ DOMAIN store.ledger = 1..Len(store.ledger)
  BY <1>1, JournalIs, DigestIs
<1>3. /\ \A i \in DOMAIN journal : journal'[i] = journal[i] /\ journal[i] \in Record
      /\ \A i \in DOMAIN store.ledger : store'.ledger[i] = store.ledger[i]
  BY <1>1, JournalIs DEF Growth, Extends
<1> DEFINE Follows(r, before) ==
              r.kind # "key_rotation" => r.state.events = before.state.events + 1
           Owns(r, db) ==
              r.own # 0 => /\ r.own = r.state.events
                           /\ db.ledger[r.state.events].type \in EventsOf(r.kind)
<1> SUFFICES ASSUME NEW i \in Chain' \ {1}
             PROVE  Follows(journal'[i], journal'[i - 1]) /\ Owns(journal'[i], store')
  BY DEF RecordsStepwise
<1>4. i \in DOMAIN journal' /\ \A j \in 1..i : journal'[j].seq = j
  BY DEF Chain
<1>5. Len(journal') \in Nat /\ DOMAIN journal' = 1..Len(journal')
  BY <1>1 DEF Growth
<1>6. i \in Nat /\ i >= 2
  BY <1>4, <1>5
<1>7. CASE i \in DOMAIN journal
  <2>1. i \in Chain \ {1}
    BY <1>2, <1>3, <1>4, <1>6, <1>7 DEF Chain
  <2>2. i - 1 \in DOMAIN journal
    BY <1>2, <1>6, <1>7
  <2>3. journal'[i] = journal[i] /\ journal'[i - 1] = journal[i - 1]
    BY <1>3, <1>7, <2>2
  <2>4. Follows(journal[i], journal[i - 1]) /\ Owns(journal[i], store)
    BY <2>1 DEF RecordsStepwise
  <2>5. journal[i].state.events \in 0..Len(store.ledger)
    BY <1>1, <1>3, <1>7, RecordIs
  <2>6. journal[i].own # 0 => journal[i].state.events \in DOMAIN store.ledger
    BY <1>2, <2>4, <2>5
  <2> QED BY <1>3, <2>3, <2>4, <2>6
<1>8. CASE i \notin DOMAIN journal
  <2>1. journal' # journal
    BY <1>4, <1>8
  <2>2. CASE journal' = Append(journal, Torn)
    <3>1. journal \in Seq(Record) /\ Torn \in Record /\ Torn.seq = 0
      BY <1>1, TornIs DEF TypeOK
    <3>2. Len(journal') = Len(journal) + 1 /\ journal'[Len(journal) + 1] = Torn
      BY <2>2, <3>1, AppendIs
    <3>3. i = Len(journal) + 1
      BY <1>2, <1>4, <1>5, <1>6, <1>8, <3>2
    <3> QED BY <1>4, <1>6, <3>1, <3>2, <3>3
  <2>3. CASE \E p \in Proc : AppendJournal(p)
    <3>1. PICK p \in Proc : AppendJournal(p)
      BY <2>3
    <3> DEFINE c == call[p]
               r == RecordOf(p)
    <3>2. c.pc = "captured" /\ journal' = Append(journal, r) /\ store' = store
      BY <3>1 DEF AppendJournal
    <3>3. r \in Record /\ journal \in Seq(Record)
      BY <1>1, <3>2, RecordOfIs DEF Signing, TypeOK
    <3>4. Len(journal') = Len(journal) + 1 /\ journal'[Len(journal) + 1] = r
      BY <3>2, <3>3, AppendIs
    <3>5. i = Len(journal) + 1
      BY <1>2, <1>4, <1>5, <1>6, <1>8, <3>4
    <3>6. journal'[i] = r /\ r.seq = i
      BY <1>4, <1>6, <3>4, <3>5
    <3>7. r.state = c.state /\ r.kind = c.kind /\ r.own = c.pos
          /\ r.seq = IF c.before = None THEN 1 ELSE c.before.seq + 1
      BY DEF RecordOf
    <3>8. /\ c \in Call /\ BuiltOn(c) /\ Applied(c) /\ Captures(c)
      BY <1>1 DEF TypeInv, TypeOK, CallInv
    <3> HIDE DEF c, r
    <3>9. c.before # None /\ i = c.before.seq + 1
      BY <1>6, <3>6, <3>7
    <3>10. c.before.seq \in Chain /\ journal[c.before.seq] = c.before /\ c.before.seq \in Nat
      BY <1>1, <3>8, <3>9, RecordIs DEF BuiltOn, Call
    <3>11. journal'[i - 1] = c.before
      BY <1>1, <1>3, <3>9, <3>10, JournalIs
    <3>12. /\ c.kind # "key_rotation" => c.state.events = c.before.state.events + 1
           /\ c.pos # 0 => c.pos = c.state.events
      BY <3>2, <3>8, <3>9, Zenon DEF Captures, Signing
    <3>13. c.pos # 0 => store.ledger[c.pos].type \in EventsOf(c.kind)
      BY <3>8 DEF Applied
    <3> QED BY <3>2, <3>6, <3>7, <3>11, <3>12, <3>13
  <2> QED BY <2>1, <2>2, <2>3, JournalStep
<1> QED BY <1>7, <1>8

(* A record of the accepted chain that is not a key rotation extends the   *)
(* record before it by exactly one event, and when the call that signed it *)
(* has written an event, that is the one, and of the record's kind: for    *)
(* any number of authorities, whatever they commit between the three       *)
(* queries of the capture.  Of a call that replayed what was stored it     *)
(* says the first part only: such a call may sign another's event.         *)
THEOREM RecordsAreStepwise == Spec => []RecordsStepwise
<1>1. Init => RecordsStepwise
  BY DEF Init, CheckpointInit, RecordsStepwise, Chain
<1>2. TypeInv /\ BindingInv /\ RecordsStepwise /\ [Next]_vars => RecordsStepwise'
  BY StepwiseStep
<1> QED BY <1>1, <1>2, InductiveInvariant, PTL DEF Spec

-------------------------------------------------------------------------------
(* How far the store may run ahead of its records.                         *)

\* A call that moves to another place leaves the others where they are.
LEMMA OthersStay ==
  ASSUME TypeOK, NEW p \in Proc, NEW c, call' = [call EXCEPT ![p] = c]
  PROVE  Writers' = IF c.pc = "verified" THEN Writers \cup {p} ELSE Writers \ {p}
<1>1. call'[p] = c /\ \A q \in Proc : q # p => call'[q] = call[q]
  BY DEF TypeOK
<1> QED BY <1>1 DEF Writers

\* A step verifies the store, or writes one event for a process that had
\* verified it, or neither lets a process write nor writes.
LEMMA WriterStep ==
  ASSUME TypeInv, [Next]_vars
  PROVE  \/ StoreVerified /\ UNCHANGED <<store, journal>>
         \/ store' = store /\ Writers' \subseteq Writers
         \/ \E p \in Writers : /\ Writers' = Writers \ {p}
                               /\ Len(store'.ledger) <= Len(store.ledger) + 1
<1>0. TypeOK /\ call \in [Proc -> Call] /\ Sound(store) /\ Len(store.ledger) \in Nat
  BY DigestIs DEF TypeInv, TypeOK
<1>1. ASSUME call' = call PROVE Writers' = Writers
  BY <1>1 DEF Writers
<1>2. CASE UNCHANGED vars
  BY <1>1, <1>2 DEF vars, checkpointVars
<1>3. ASSUME NEW p \in Proc, NEW b, Verify(p, b)
      PROVE  StoreVerified /\ UNCHANGED <<store, journal>>
  <2>1. VerifiedHead # {}
    BY <1>3 DEF Verify, ExpectedHead
  <2> QED BY <1>3, <2>1 DEF Verify, VerifiedHead
<1>4. ASSUME NEW p \in Proc, NEW c, call' = [call EXCEPT ![p] = c], c.pc # "verified"
      PROVE  Writers' = Writers \ {p}
  BY <1>0, <1>4, OthersStay
<1>5. ASSUME NEW p \in Proc, Step(p)
      PROVE  \/ StoreVerified /\ UNCHANGED <<store, journal>>
             \/ store' = store /\ Writers' \subseteq Writers
  <2>0. call[p] \in Call
    BY <1>0
  <2>1. CASE Verify(p, None)
    BY <1>3, <2>1
  <2>2. ASSUME NEW x \in {"checked", "journaled", "witnessed"}, store' = store,
               call' = [call EXCEPT ![p].pc = x]
        PROVE  store' = store /\ Writers' \subseteq Writers
    <3> DEFINE c == [call[p] EXCEPT !.pc = x]
    <3>1. call' = [call EXCEPT ![p] = c] /\ c.pc # "verified"
      BY <2>0, <2>2 DEF Call
    <3> HIDE DEF c
    <3>2. Writers' = Writers \ {p}
      BY <1>4, <3>1
    <3> QED BY <2>2, <3>2
  <2>3. ASSUME NEW x \in {"counted", "listed", "captured"}, NEW st, store' = store,
               call' = [call EXCEPT ![p] = [call[p] EXCEPT !.pc = x, !.state = st]]
        PROVE  store' = store /\ Writers' \subseteq Writers
    <3> DEFINE c == [call[p] EXCEPT !.pc = x, !.state = st]
    <3>1. call' = [call EXCEPT ![p] = c] /\ c.pc # "verified"
      BY <2>0, <2>3 DEF Call
    <3> HIDE DEF c
    <3>2. Writers' = Writers \ {p}
      BY <1>4, <3>1
    <3> QED BY <2>3, <3>2
  <2>4. CASE Recheck(p)
    BY <2>2, <2>4 DEF Recheck
  <2>5. CASE ReadLedger(p) \/ ReadVersions(p) \/ Capture(p)
    BY <2>3, <2>5 DEF ReadLedger, ReadVersions, Capture
  <2>6. CASE AppendJournal(p)
    BY <2>2, <2>6 DEF AppendJournal
  <2>7. CASE WriteWitness(p)
    BY <2>2, <2>7 DEF WriteWitness
  <2>8. ASSUME NEW kind, store' = store,
               call' = [call EXCEPT ![p] = [call[p] EXCEPT !.pc = "checked", !.kind = kind]]
        PROVE  store' = store /\ Writers' \subseteq Writers
    <3> DEFINE c == [call[p] EXCEPT !.pc = "checked", !.kind = kind]
    <3>1. call' = [call EXCEPT ![p] = c] /\ c.pc # "verified"
      BY <2>0, <2>8 DEF Call
    <3> HIDE DEF c
    <3>2. Writers' = Writers \ {p}
      BY <1>4, <3>1
    <3> QED BY <2>8, <3>2
  <2>9. CASE Rotate(p) \/ Bootstrap(p)
    BY <2>8, <2>9 DEF Rotate, Bootstrap
  <2> QED BY <1>5, <2>1, <2>4, <2>5, <2>6, <2>7, <2>9 DEF Step
<1>6. ASSUME NEW p \in Proc, NEW kind, NEW db, call[p].pc = "verified",
             Len(db.ledger) <= Len(store.ledger) + 1, Commit(p, kind, db)
      PROVE  /\ p \in Writers /\ Writers' = Writers \ {p}
             /\ Len(store'.ledger) <= Len(store.ledger) + 1
  <2> DEFINE c == [call[p] EXCEPT !.pc = "operated", !.kind = kind,
                                  !.pos = IF db = store THEN 0 ELSE Len(db.ledger)]
  <2>1. call' = [call EXCEPT ![p] = c] /\ store' = db
    BY <1>6 DEF Commit
  <2>2. c.pc # "verified"
    BY <1>0 DEF Call
  <2> HIDE DEF c
  <2> QED BY <1>4, <1>6, <2>1, <2>2 DEF Writers
<1>7. ASSUME NEW db, db = store \/ Books(store, db)
      PROVE  Len(db.ledger) <= Len(store.ledger) + 1
  BY <1>0, <1>7 DEF Books, Grows
<1>8. ASSUME NEW p \in Proc, Operation(p)
      PROVE  \E q \in Writers : /\ Writers' = Writers \ {q}
                                /\ Len(store'.ledger) <= Len(store.ledger) + 1
  <2>0. call[p].pc = "verified"
    BY <1>8 DEF Operation, ArchiveStep, RollbackStep, Serves
  <2>1. CASE \E c \in Candidate \ Revision : StageStep(p, c)
    BY <1>0, <1>6, <1>7, <2>0, <2>1, StageSound DEF StageStep
  <2>2. CASE \E c \in Candidate, l \in Level, r \in Offered : PromoteStep(p, c, l, r)
    BY <1>0, <1>6, <1>7, <2>0, <2>2, PromoteSound, CheckpointAssumption DEF PromoteStep
  <2>3. CASE ArchiveStep(p)
    BY <1>0, <1>6, <1>7, <2>0, <2>3, ArchiveSound DEF ArchiveStep
  <2>4. CASE RollbackStep(p)
    BY <1>0, <1>6, <1>7, <2>0, <2>4, RollbackSound DEF RollbackStep
  <2> QED BY <1>8, <2>1, <2>2, <2>3, <2>4 DEF Operation
<1>9. ASSUME NEW p \in Proc, BoundOperation(p)
      PROVE  \E q \in Writers : /\ Writers' = Writers \ {q}
                                /\ Len(store'.ledger) <= Len(store.ledger) + 1
  <2> DEFINE b == call[p].bound
  <2>0. call[p].pc = "verified" /\ b \in BindingType
    BY <1>0, <1>9 DEF BoundOperation, Call
  <2>1. b.cand \in Candidate /\ b.level \in Level
    BY <1>0, <2>0, BindingIs
  <2>2. CASE StageStep(p, b.cand)
    BY <1>0, <1>6, <1>7, <2>0, <2>1, <2>2, StageSound DEF StageStep
  <2>3. CASE \E r \in Offered : PromoteStep(p, b.cand, b.level, BoundReceipt(b.level, r))
    BY <1>0, <1>6, <1>7, <2>0, <2>1, <2>3, PromoteSound, BoundReceiptIs DEF PromoteStep
  <2> QED BY <1>9, <2>2, <2>3 DEF BoundOperation
<1>10. ASSUME NEW p \in Proc, End(p)
       PROVE  store' = store /\ Writers' \subseteq Writers
  <2>1. call' = [call EXCEPT ![p] = Idle] /\ store' = store
    BY <1>10 DEF End, Return, Abandon, TornAppend
  <2>2. Idle.pc # "verified"
    BY DEF Idle
  <2> QED BY <1>4, <2>1, <2>2
<1>11. ASSUME NEW p \in Proc, Prepare(p) \/ PrepareGate(p) \/ VerifyCeremony(p)
       PROVE  \/ StoreVerified /\ UNCHANGED <<store, journal>>
              \/ store' = store /\ Writers' \subseteq Writers
  BY <1>1, <1>3, <1>11 DEF Prepare, PrepareGate, VerifyCeremony, checkpointVars
<1>12. ASSUME NEW p \in Proc, NEW c \in Revision, Revise(p, c)
       PROVE  \/ StoreVerified /\ UNCHANGED <<store, journal>>
              \/ store' = store /\ Writers' \subseteq Writers
  BY <1>1, <1>3, <1>12 DEF Revise, Approve, Claim, CloseRevision, VerifyRevision,
                           CompleteRevision, LoseWorker, checkpointVars
<1> QED BY <1>2, <1>5, <1>8, <1>9, <1>10, <1>11, <1>12 DEF Next

LEMMA WritersCount ==
  /\ IsFiniteSet(Proc) /\ Cardinality(Proc) \in Nat
  /\ IsFiniteSet(Writers) /\ Cardinality(Writers) \in Nat
  /\ Cardinality(Writers) <= Cardinality(Proc)
<1>1. IsFiniteSet(Proc) /\ Writers \in SUBSET Proc
  BY CheckpointAssumption DEF Writers
<1> QED BY <1>1, FS_Subset, FS_CardinalityType

LEMMA UnsignedStep ==
  ASSUME TypeInv, BindingInv, Older, UnsignedInv, [Next]_vars
  PROVE  UnsignedInv'
<1>1. TypeOK /\ Growth /\ TypeInv' /\ Older' /\ Signed <= Signed'
      /\ Signed \in Nat /\ Signed' \in Nat
  BY NextHolds, SignedGrows DEF TypeInv
<1>2. Len(store.ledger) \in Nat /\ Len(store'.ledger) \in Nat
  BY <1>1, Fields DEF TypeOK, Growth, Sound
<1> DEFINE k == Cardinality(Writers)
           m == Cardinality(Writers')
           n == Cardinality(Proc)
<1>3. k \in Nat /\ n \in Nat /\ k <= n /\ IsFiniteSet(Writers)
  BY WritersCount
<1>4. m \in Nat /\ m <= n
  <2>1. Writers' \in SUBSET Proc /\ IsFiniteSet(Proc)
    BY CheckpointAssumption DEF Writers
  <2> QED BY <2>1, FS_Subset, FS_CardinalityType
<1>5. Len(store.ledger) - Signed + k <= n
  BY DEF UnsignedInv
<1>6. CASE StoreVerified /\ UNCHANGED <<store, journal>>
  <2>1. Latest.seq \in Chain /\ journal[Latest.seq] = Latest /\ Latest.state = Digest
    BY <1>1, <1>6, HeadIs DEF StoreVerified
  <2>2. Len(store.ledger) <= Signed
    BY <1>1, <2>1, SignedIs, DigestIs DEF SignedFacts
  <2>3. store' = store
    BY <1>6
  <2> HIDE DEF k, m, n
  <2>4. Len(store'.ledger) - Signed' + m <= n
    BY <1>1, <1>2, <1>3, <1>4, <2>2, <2>3
  <2> QED BY <2>4 DEF UnsignedInv, m, n
<1>7. CASE store' = store /\ Writers' \subseteq Writers
  <2>1. m <= k
    BY <1>3, <1>7, FS_Subset
  <2> HIDE DEF k, m, n
  <2>2. Len(store'.ledger) - Signed' + m <= n
    BY <1>1, <1>2, <1>3, <1>4, <1>5, <1>7, <2>1
  <2> QED BY <2>2 DEF UnsignedInv, m, n
<1>8. CASE \E p \in Writers : /\ Writers' = Writers \ {p}
                              /\ Len(store'.ledger) <= Len(store.ledger) + 1
  <2>1. m = k - 1
    BY <1>3, <1>8, FS_RemoveElement
  <2> HIDE DEF k, m, n
  <2>2. Len(store'.ledger) - Signed' + m <= n
    BY <1>1, <1>2, <1>3, <1>4, <1>5, <1>8, <2>1
  <2> QED BY <2>2 DEF UnsignedInv, m, n
<1> QED BY <1>6, <1>7, <1>8, WriterStep

(* However calls interleave and wherever they stop, at most one event per  *)
(* authority is not covered by a signed record: a process writes once on   *)
(* the state it verified, and what is not signed makes verification raise. *)
THEOREM UnsignedIsBounded == Spec => []UnsignedBounded
<1>1. Init => UnsignedInv
  <2> SUFFICES ASSUME Init PROVE UnsignedInv
    OBVIOUS
  <2>1. TypeInv /\ Older /\ store = Initial
    <3>1. Len(Initial.ledger) \in Nat
      BY InitialAssumption, Fields DEF Sound
    <3> QED BY <3>1, InitHolds DEF Init, CheckpointInit, Older
  <2>2. Signed \in 0..Len(store.ledger) /\ Len(store.ledger) <= Signed
        /\ Len(store.ledger) \in Nat
    BY <2>1, SignedIs, DigestIs DEF SignedFacts, TypeInv
  <2>3. Writers = {}
    BY DEF Writers, Init, CheckpointInit, Idle
  <2>4. Cardinality(Writers) = 0 /\ Cardinality(Proc) \in Nat
    BY <2>3, FS_EmptySet, WritersCount
  <2> QED BY <2>2, <2>4 DEF UnsignedInv
<1>2. TypeInv /\ BindingInv /\ Older /\ UnsignedInv /\ [Next]_vars => UnsignedInv'
  BY UnsignedStep
<1>3. TypeInv /\ Older /\ UnsignedInv => UnsignedBounded
  <2> SUFFICES ASSUME TypeInv, Older, UnsignedInv PROVE UnsignedBounded
    OBVIOUS
  <2>1. Signed \in 0..Len(store.ledger) /\ Len(store.ledger) \in Nat
    BY SignedIs, DigestIs DEF SignedFacts, TypeInv
  <2> QED BY <2>1, WritersCount DEF UnsignedInv, UnsignedBounded
<1> QED BY <1>1, <1>2, <1>3, ChainInvariant, PTL DEF Spec

-------------------------------------------------------------------------------
(* Revision receipts.                                                      *)

LEMMA StagedStays ==
  ASSUME TypeInv, Older, Growth, TypeInv', NEW c, Staged(c)
  PROVE  Staged(c)'
<1>1. PICK i \in StageEvents(store, c) : i <= Signed
  BY DEF Staged
<1>2. i \in StageEvents(store', c)
  BY StageEventsStay DEF Growth, Sound
<1>3. i \in Nat /\ Signed <= Signed' /\ Signed \in Nat /\ Signed' \in Nat
  BY SignedGrows, DigestIs DEF TypeInv, StageEvents
<1> QED BY <1>1, <1>2, <1>3 DEF Staged

LEMMA StagedStep ==
  ASSUME TypeInv, BindingInv, Older, StagedInv, [Next]_vars
  PROVE  StagedInv'
<1>0. TypeOK /\ Growth /\ TypeInv'
      /\ \A c \in Revision : work[c] \in [proc : Proc, staged : BOOLEAN] \cup {None}
  BY NextHolds DEF TypeInv, TypeOK
<1>1. ASSUME \A c \in Revision :
                /\ work'[c] # None /\ work'[c].staged =>
                      (work[c] # None /\ work[c].staged) \/ Staged(c)
                /\ receipt'[c] = "STAGED" =>
                      receipt[c] = "STAGED" \/ (work[c] # None /\ work[c].staged)
      PROVE  StagedInv'
  BY <1>0, <1>1, StagedStays DEF StagedInv
<1>2. CASE UNCHANGED <<receipt, work>>
  BY <1>1, <1>2
<1>3. ASSUME NEW p \in Proc, End(p) PROVE StagedInv'
  <2>1. PICK staged \in BOOLEAN : /\ work' = WorkAfter(p, staged)
                                  /\ staged => MayReturn(p)
    BY <1>3 DEF End, Return
  <2>2. receipt' = receipt
    BY <1>3 DEF End
  <2>3. ASSUME NEW c \in Revision, MayReturn(p), WorksOn(p, c), call[p].bound = approval[c]
        PROVE  Staged(c)
    <3>1. approval[c] # None /\ approval[c].use = "revision" /\ approval[c].cand = c
      BY <2>3 DEF BindingInv, WorksOn
    <3> QED BY <2>3, <3>1, ReturnIs
  <2>4. ASSUME NEW c \in Revision, work'[c] # None, work'[c].staged
        PROVE  (work[c] # None /\ work[c].staged) \/ Staged(c)
    <3>1. work[c] # None
      BY <1>0, <2>1, <2>4, WorkAfterIs
    <3>2. work[c].staged \/ (staged /\ WorksOn(p, c) /\ call[p].bound = approval[c])
      BY <1>0, <2>1, <2>4, WorkAfterIs
    <3> QED BY <2>1, <2>3, <3>1, <3>2
  <2> QED BY <1>1, <2>2, <2>4
<1>4. ASSUME NEW p \in Proc, NEW c \in Revision, Revise(p, c) PROVE StagedInv'
  <2>0. /\ receipt \in [Revision -> {"none", "claimed", "closed", "STAGED"}]
        /\ work \in [Revision -> [proc : Proc, staged : BOOLEAN] \cup {None}]
    BY <1>0 DEF TypeOK
  <2>1. CASE Approve(p, c) \/ VerifyRevision(p, c)
    BY <1>2, <2>1 DEF Approve, VerifyRevision, revisionVars
  <2>2. CASE Claim(p, c)
    <3>1. /\ receipt' = [receipt EXCEPT ![c] = "claimed"]
          /\ work' = [work EXCEPT ![c] = [proc |-> p, staged |-> FALSE]]
      BY <2>2 DEF Claim
    <3> QED BY <1>1, <2>0, <3>1
  <2>3. CASE CloseRevision(p, c)
    <3>1. /\ receipt' = [receipt EXCEPT ![c] = "closed"] /\ work' = [work EXCEPT ![c] = None]
      BY <2>3 DEF CloseRevision
    <3> QED BY <1>1, <2>0, <3>1
  <2>4. CASE CompleteRevision(p, c)
    <3>1. /\ receipt' = [receipt EXCEPT ![c] = "STAGED"] /\ work' = [work EXCEPT ![c] = None]
          /\ work[c] # None /\ work[c].staged
      BY <2>4 DEF CompleteRevision, MayComplete, WorksOn
    <3> QED BY <1>1, <2>0, <3>1
  <2>5. CASE LoseWorker(p, c)
    <3>1. receipt' = receipt /\ work' = [work EXCEPT ![c] = None]
      BY <2>5 DEF LoseWorker
    <3> QED BY <1>1, <2>0, <3>1
  <2> QED BY <1>4, <2>1, <2>2, <2>3, <2>4, <2>5 DEF Revise
<1>5. CASE UNCHANGED vars
  BY <1>2, <1>5 DEF vars, revisionVars
<1>6. ASSUME NEW p \in Proc,
             \/ Step(p) \/ Operation(p) \/ BoundOperation(p)
             \/ Prepare(p) \/ PrepareGate(p) \/ VerifyCeremony(p)
      PROVE  StagedInv'
  BY <1>2, <1>6 DEF Step, Operation, BoundOperation, Prepare, PrepareGate, VerifyCeremony,
                    revisionVars
<1> QED BY <1>3, <1>4, <1>5, <1>6 DEF Next

(* A completed revision receipt says the truth: the revision was staged,   *)
(* over the knowledge it was approved for, and a signed record covers it.  *)
THEOREM ReceiptsAreTrue == Spec => []ReceiptsTrue
<1>1. Init => StagedInv
  BY DEF Init, StagedInv
<1>2. TypeInv /\ BindingInv /\ Older /\ StagedInv /\ [Next]_vars => StagedInv'
  BY StagedStep
<1>3. StagedInv => ReceiptsTrue
  BY DEF StagedInv, ReceiptsTrue, Staged
<1> QED BY <1>1, <1>2, <1>3, ChainInvariant, PTL DEF Spec

================================================================================
