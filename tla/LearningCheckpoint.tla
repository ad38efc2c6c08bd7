--------------------------- MODULE LearningCheckpoint ---------------------------
(***************************************************************************)
(* The checkpoint authority of the learning store and the gateways over    *)
(* it: every mutation is bracketed by a verification of store, journal and *)
(* witness and by a signed record of the new state.  The database, the     *)
(* journal and the witness are three files written one after another, and  *)
(* the only lock is a thread lock inside one authority object, so the      *)
(* steps of two authorities interleave and a call may stop between any two *)
(* of its steps.                                                           *)
(*                                                                         *)
(* Nothing here rewrites a file, so hashes are replaced by what they       *)
(* stand for.  The store only grows, one event at a time, so the digest of *)
(* its state is the number of its events and rows, and what its last event *)
(* is about.  A record stands for its own hash, and names its predecessor  *)
(* by its sequence number: the record at position i - 1 is the one a       *)
(* record numbered i was built on.  Every authority holds every key;       *)
(* ActiveKey is the one it signs with.                                     *)
(*                                                                         *)
(* capture_learning_store_state makes three queries, each a transaction of *)
(* its own: the ledger, the rows, the last event.  What is captured to be  *)
(* signed takes a step for each.                                           *)
(*                                                                         *)
(* _verify_store reads the journal, the witness and then the store in the  *)
(* three queries.  It is one step here, at the moment of its journal read. *)
(* The counts of a signed state are never ahead of the store and the store *)
(* only grows, so counts that match the record later matched it then; no   *)
(* event had come since the ledger was read for the record, so its last    *)
(* event was the last one then, too.  A torn read only raises, which       *)
(* Abandon covers.                                                         *)
(***************************************************************************)
EXTENDS LearningStore

CONSTANTS
    Proc,           \* processes, each with one authority object
    Operator,       \* those that serve the staging and operator gateways
    ActiveKey,      \* the key each authority signs with
    Initial,        \* the store before it is first checkpointed
    Offered,        \* the receipts callers of promote bring
    MaxLedger,      \* bound on the ledger
    MaxJournal      \* bound on the journal

ASSUME CheckpointAssumption ==
    /\ IsFiniteSet(Proc)
    /\ Operator \subseteq Proc
    /\ Offered \subseteq Receipt
    /\ MaxLedger \in Nat
    /\ MaxJournal \in Nat

\* The store's own operations have written what is first checkpointed.
ASSUME InitialAssumption == Sound(Initial) /\ Len(Initial.ledger) <= MaxLedger

VARIABLES
    store,          \* the database: ledger and version rows
    journal,        \* the records of the journal file, in order
    witness,        \* the record the witness file names, or None
    call            \* the gateway call each authority is serving

checkpointVars == <<store, journal, witness, call>>

Kind == {"bootstrap", "stage", "promote", "archive", "rollback", "key_rotation"}

Key == {ActiveKey[p] : p \in Proc} \cup {None}

\* What is captured of the last event.
HeadEvent == [type : EventType, item : Candidate, cand : Candidate]

\* No record of the journal is taken for the absence of one.  own is history: the
\* event the signing call wrote itself, or 0.
ASSUME NoneAssumption ==
    None \notin [seq : Nat, kind : Kind, key : Key, own : Nat,
                 state : [events : Nat, rows : Nat, head : HeadEvent \cup {None}]]

Phase == {"idle", "verified", "operated", "checked", "counted", "listed",
          "captured", "journaled", "witnessed"}

Idle == [pc |-> "idle", bound |-> None, before |-> None, kind |-> None,
         pos |-> 0, state |-> None]

HeadOf(db) ==
    IF db.ledger = <<>> THEN None
    ELSE LET e == db.ledger[Len(db.ledger)]
         IN [type |-> e.type, item |-> e.item, cand |-> e.cand]

\* What capture_learning_store_state returns when nothing is committed meanwhile.
Digest == [events |-> Len(store.ledger), rows |-> Len(store.versions),
           head |-> HeadOf(store)]

\* What a journal line that a crash cut short reads as: no record.
Torn == [seq |-> 0, kind |-> "bootstrap", key |-> None, own |-> 0,
         state |-> [events |-> 0, rows |-> 0, head |-> None]]

CheckpointInit ==
    /\ store = Initial
    /\ journal = <<>>
    /\ witness = None
    /\ call = [p \in Proc |-> Idle]

(***************************************************************************)
(* Verification.                                                           *)
(***************************************************************************)

Latest == journal[Len(journal)]

\* _verify_journal: no gap in the sequence, and the witness names the head.
JournalVerified ==
    /\ journal # <<>>
    /\ \A i \in DOMAIN journal : journal[i].seq = i
    /\ witness = Latest

StoreVerified == JournalVerified /\ Latest.state = Digest

\* A plausible slip: only the journal and its witness are compared.
HeadOfJournal == IF JournalVerified THEN {Latest} ELSE {}

\* The record a new call is built on: the head, when everything matches it.
VerifiedHead == IF StoreVerified THEN {Latest} ELSE {}

\* A plausible slip: the expectation is not compared.
AnyVerifiedHead(expected) == VerifiedHead

\* _verify_store of the bound authorities: the head must be the one that the
\* reviewer's approval or the evaluation was prepared on.
ExpectedHead(expected) ==
    {r \in VerifiedHead : r.seq = expected.seq /\ r.state = expected.state}

(***************************************************************************)
(* The steps of a call.                                                    *)
(***************************************************************************)

\* The first step of _mutate and of rotate_key, with the expectation that
\* expect_promotion and its like have put in place, or None.
Verify(p, bound) ==
    /\ call[p].pc = "idle"
    /\ \E head \in IF bound = None THEN VerifiedHead ELSE ExpectedHead(bound) :
          call' = [call EXCEPT ![p] = [@ EXCEPT !.pc = "verified", !.before = head,
                                                !.bound = bound]]
    /\ UNCHANGED <<store, journal, witness>>

Serves(p, bound) == call[p].pc = "verified" /\ call[p].bound = bound

\* The store operation commits; a replay leaves the database as it is.
Commit(p, kind, db) ==
    /\ Len(db.ledger) <= MaxLedger
    /\ store' = db
    /\ call' = [call EXCEPT ![p] =
                   [@ EXCEPT !.pc = "operated", !.kind = kind,
                             !.pos = IF db = store THEN 0 ELSE Len(db.ledger)]]
    /\ UNCHANGED <<journal, witness>>

StageStep(p, c) ==
    \E db \in Stage(store, c) : Commit(p, "stage", db)

PromoteStep(p, c, target, r) ==
    \E db \in Promote(store, c, target, r) : Commit(p, "promote", db)

ArchiveStep(p) ==
    /\ Serves(p, None)
    /\ \E item \in Candidate, k \in Knowledge :
          \E db \in Archive(store, item, k) : Commit(p, "archive", db)

RollbackStep(p) ==
    /\ Serves(p, None)
    /\ \E item \in Candidate, k \in Knowledge, e \in Knowledge \cup {None} :
          \E db \in Rollback(store, item, k, e) : Commit(p, "rollback", db)

\* _advance reads the journal again: the head must still be the one verified.
Recheck(p) ==
    /\ call[p].pc = "operated"
    /\ JournalVerified
    /\ Latest = call[p].before
    /\ call' = [call EXCEPT ![p].pc = "checked"]
    /\ UNCHANGED <<store, journal, witness>>

\* rotate_key captures the store a second time.
Rotate(p) ==
    /\ Serves(p, None)
    /\ call[p].before.key # ActiveKey[p]
    /\ call' = [call EXCEPT ![p] = [@ EXCEPT !.pc = "checked", !.kind = "key_rotation"]]
    /\ UNCHANGED <<store, journal, witness>>

\* bootstrap signs whatever the store holds as the first record.
Bootstrap(p) ==
    /\ call[p].pc = "idle"
    /\ journal = <<>> /\ witness = None
    /\ call' = [call EXCEPT ![p] = [@ EXCEPT !.pc = "checked", !.kind = "bootstrap"]]
    /\ UNCHANGED <<store, journal, witness>>

(***************************************************************************)
(* capture_learning_store_state, and what is done with it.                 *)
(***************************************************************************)

\* _verify_ledger_conn.
ReadLedger(p) ==
    /\ call[p].pc = "checked"
    /\ call' = [call EXCEPT ![p] =
                   [@ EXCEPT !.pc = "counted",
                             !.state = [events |-> Len(store.ledger), rows |-> 0,
                                        head |-> None]]]
    /\ UNCHANGED <<store, journal, witness>>

ReadVersions(p) ==
    /\ call[p].pc = "counted"
    /\ call' = [call EXCEPT ![p] = [@ EXCEPT !.pc = "listed", !.state.rows = Digest.rows]]
    /\ UNCHANGED <<store, journal, witness>>

\* What the call has captured once it reads the last event, too.
Captured(p) == [call[p].state EXCEPT !.head = HeadOf(store)]

EventsOf(kind) ==
    CASE kind = "promote" -> {"validate", "activate", "enterprise"}
      [] OTHER -> {kind}

VersionDelta(kind) == IF kind \in {"stage", "promote"} THEN 1 ELSE 0

\* A plausible slip: only the type of the last event is looked at.
AdvancesByType(before, kind, state) ==
    state.head # None /\ state.head.type \in EventsOf(kind)

\* The checks of _advance: exactly one event more than in the record the call was
\* built on, with or without its row, and a last event of the call's kind.
Advances(before, kind, state) ==
    /\ state.events = before.state.events + 1
    /\ state.rows = before.state.rows + VersionDelta(kind)
    /\ state.head # None /\ state.head.type \in EventsOf(kind)

\* bootstrap and rotate_key compare what they captured with nothing.
MayCapture(p) ==
    call[p].kind \notin {"bootstrap", "key_rotation"} =>
       /\ Captured(p) # call[p].before.state
       /\ Advances(call[p].before, call[p].kind, Captured(p))

Capture(p) ==
    /\ call[p].pc = "listed"
    /\ MayCapture(p)
    /\ call' = [call EXCEPT ![p] = [@ EXCEPT !.pc = "captured", !.state = Captured(p)]]
    /\ UNCHANGED <<store, journal, witness>>

RecordOf(p) ==
    [seq |-> IF call[p].before = None THEN 1 ELSE call[p].before.seq + 1,
     state |-> call[p].state, kind |-> call[p].kind, key |-> ActiveKey[p],
     own |-> call[p].pos]

AppendJournal(p) ==
    /\ call[p].pc = "captured"
    /\ Len(journal) < MaxJournal
    /\ journal' = Append(journal, RecordOf(p))
    /\ call' = [call EXCEPT ![p].pc = "journaled"]
    /\ UNCHANGED <<store, witness>>

\* The process dies, or the disk fills up, in the middle of the write.
TornAppend(p) ==
    /\ call[p].pc = "captured"
    /\ Len(journal) < MaxJournal
    /\ journal' = Append(journal, Torn)
    /\ call' = [call EXCEPT ![p] = Idle]
    /\ UNCHANGED <<store, witness>>

WriteWitness(p) ==
    /\ call[p].pc = "journaled"
    /\ witness' = RecordOf(p)
    /\ call' = [call EXCEPT ![p].pc = "witnessed"]
    /\ UNCHANGED <<store, journal>>

\* A plausible slip: the call returns without verifying what it wrote.
MayReturnUnverified(p) == call[p].pc = "witnessed"

\* The call may return: after the last verification, or at once when a mutation
\* has captured the state the call was built on.
MayReturn(p) ==
    \/ call[p].pc = "witnessed" /\ StoreVerified
    \/ /\ call[p].pc = "listed" /\ call[p].kind \notin {"bootstrap", "key_rotation"}
       /\ Captured(p) = call[p].before.state

Return(p) ==
    /\ MayReturn(p)
    /\ call' = [call EXCEPT ![p] = Idle]
    /\ UNCHANGED <<store, journal, witness>>

\* The call ends without a result: an operation or a check raised, a write
\* failed, the process died, or verify() was all that was asked for.
Abandon(p) ==
    /\ call[p].pc # "idle"
    /\ call' = [call EXCEPT ![p] = Idle]
    /\ UNCHANGED <<store, journal, witness>>

================================================================================
