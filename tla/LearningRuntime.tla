----------------------------- MODULE LearningRuntime -----------------------------
(***************************************************************************)
(* The services over the checkpointed learning store, and the store with   *)
(* them: the authenticated promotion ceremony, and the curation revision   *)
(* workflow, in which a reviewer approves the revision of an active item,  *)
(* an isolated worker writes it, and gates stage, validate and activate it *)
(* on exactly the states that were approved or evaluated.                  *)
(*                                                                         *)
(* A revision is a candidate whose id is derived from its approval: only   *)
(* the revision coordinator stages it.  The worker is outside: it offers   *)
(* nothing, something the coordinator rejects, or the revision.  Sessions  *)
(* and grants are the set of promotions a reviewer may make.               *)
(***************************************************************************)
EXTENDS LearningCheckpoint

CONSTANTS
    Revision,       \* the candidates that are revisions
    Reviewer,       \* the processes that run the reviewers' services
    Granted         \* the <<candidate, level>> pairs a reviewer may promote

ASSUME RuntimeAssumption ==
    /\ Revision \subseteq Candidate \ Creates
    /\ Reviewer \subseteq Proc
    /\ Granted \subseteq Candidate \X ActiveLevels

VARIABLES
    ceremony,       \* what each reviewer has prepared: a binding, or None
    approval,       \* the approval of a revision, or None
    receipt,        \* the receipt file of a revision
    work            \* the coordinator that works on a revision, or None

revisionVars == <<approval, receipt, work>>

vars == <<checkpointVars, ceremony, revisionVars>>

\* An expectation: what is to be done, and the record it was prepared on.
Binding(use, c, target, head, gated) ==
    [use |-> use, cand |-> c, level |-> target, seq |-> head.seq,
     state |-> head.state, gated |-> gated]

Init ==
    /\ CheckpointInit
    /\ ceremony = [p \in Proc |-> None]
    /\ approval = [c \in Revision |-> None]
    /\ receipt = [c \in Revision |-> "none"]
    /\ work = [c \in Revision |-> None]

(***************************************************************************)
(* Curation revisions.                                                     *)
(***************************************************************************)

OverItsBase(c) ==
    /\ HasActive(store, ItemOf(c)) /\ ~Unresolved(store, ItemOf(c))
    /\ ActiveKnowledge(store, ItemOf(c)) = Base[c]

\* AuthenticatedCurationRevisionApprovalService.approve.
Approve(p, c) ==
    /\ p \in Reviewer /\ call[p].pc = "idle"
    /\ approval[c] = None
    /\ OverItsBase(c)
    /\ <<c, ActiveRow(store, ItemOf(c)).level>> \in Granted
    /\ \E head \in VerifiedHead :
          approval' = [approval EXCEPT ![c] =
                          Binding("revision", c, "candidate", head, FALSE)]
    /\ UNCHANGED <<checkpointVars, ceremony, receipt, work>>

\* CurationRevisionCoordinator._bind: the approval names the state there is.
StillApproved(c) == approval[c] # None /\ ExpectedHead(approval[c]) # {}

\* revise_and_stage up to the worker: the claim is an exclusive creation of the
\* receipt file, so an approval is worked on once.
Claim(p, c) ==
    /\ call[p].pc = "idle"
    /\ StillApproved(c)
    /\ receipt[c] = "none"
    /\ receipt' = [receipt EXCEPT ![c] = "claimed"]
    /\ work' = [work EXCEPT ![c] = [proc |-> p, staged |-> FALSE]]
    /\ UNCHANGED <<checkpointVars, ceremony, approval>>

WorksOn(p, c) == work[c] # None /\ work[c].proc = p

\* The worker had nothing to offer, or nothing acceptable.
CloseRevision(p, c) ==
    /\ WorksOn(p, c) /\ ~work[c].staged /\ call[p].bound # approval[c]
    /\ receipt' = [receipt EXCEPT ![c] = "closed"]
    /\ work' = [work EXCEPT ![c] = None]
    /\ UNCHANGED <<checkpointVars, ceremony, approval>>

VerifyRevision(p, c) ==
    /\ WorksOn(p, c) /\ ~work[c].staged
    /\ Verify(p, approval[c])
    /\ UNCHANGED <<ceremony, revisionVars>>

\* A plausible slip: the receipt is completed before the stage has returned.
MayCompleteEarly(p, c) == WorksOn(p, c)

MayComplete(p, c) == WorksOn(p, c) /\ work[c].staged

CompleteRevision(p, c) ==
    /\ MayComplete(p, c)
    /\ receipt[c] = "claimed"
    /\ receipt' = [receipt EXCEPT ![c] = "STAGED"]
    /\ work' = [work EXCEPT ![c] = None]
    /\ UNCHANGED <<checkpointVars, ceremony, approval>>

\* The worker fails or its process dies: the receipt stays claimed.
LoseWorker(p, c) ==
    /\ WorksOn(p, c) /\ call[p].bound # approval[c]
    /\ work' = [work EXCEPT ![c] = None]
    /\ UNCHANGED <<checkpointVars, ceremony, approval, receipt>>

(***************************************************************************)
(* Ceremonies.                                                             *)
(***************************************************************************)

\* AuthenticatedLearningPromotionService.prepare.
Prepare(p) ==
    /\ p \in Reviewer /\ call[p].pc = "idle"
    /\ \E head \in VerifiedHead, g \in Granted :
          ceremony' = [ceremony EXCEPT ![p] =
                          Binding("promotion", g[1], g[2], head, FALSE)]
    /\ UNCHANGED <<checkpointVars, revisionVars>>

\* RevisionEvaluationPackage.next_transition.
NextTransition(c) ==
    LET current == CurrentLevel(store, c)
    IN {l \in Level :
          /\ Rank[l] = Rank[current] + 1
          /\ l = "enterprise" =>
                ActiveRow(store, ItemOf(c)).level = "enterprise"}

\* A plausible slip: the evaluation does not look at the active item.
AnyStagedRevision ==
    {c \in Revision : /\ receipt[c] = "STAGED"
                      /\ RowsOf(store, c) # {}
                      /\ store.versions[Max(RowsOf(store, c))].disp = "staged"}

\* The revisions DeterministicRevisionEvaluator.compile passes: staged through
\* a completed receipt, and still over their base.
Evaluated ==
    {c \in Revision : /\ receipt[c] = "STAGED"
                      /\ RowsOf(store, c) # {}
                      /\ store.versions[Max(RowsOf(store, c))].disp = "staged"
                      /\ OverItsBase(c)}

\* The activation gate prepares an ordinary ceremony, which needs a grant; the
\* validation gate needs none.
GateGranted(c, l) == l = "validated" \/ <<c, l>> \in Granted

\* require_fresh_pass, in the validation and in the activation gate.
PrepareGate(p) ==
    /\ p \in Reviewer /\ call[p].pc = "idle"
    /\ \E head \in VerifiedHead, c \in Evaluated : \E l \in NextTransition(c) :
          /\ GateGranted(c, l)
          /\ ceremony' = [ceremony EXCEPT ![p] =
                             Binding("promotion", c, l, head, TRUE)]
    /\ UNCHANGED <<checkpointVars, revisionVars>>

\* AuthenticatedLearningPromotionService.promote and validate_candidate up to the
\* store operation.  A ceremony that passes is not kept: the same state would
\* give the same ceremony, and on a later state it is refused.
VerifyCeremony(p) ==
    /\ ceremony[p] # None
    /\ Verify(p, ceremony[p])
    /\ ceremony' = [ceremony EXCEPT ![p] = None]
    /\ UNCHANGED revisionVars

(***************************************************************************)
(* The store operations, bound and unbound.                                *)
(***************************************************************************)

\* The receipt the validation gate writes: every check passed, no reviewer.
GateReceipt == [passed |-> TRUE, reviewed |-> FALSE]

\* The service puts the authenticated reviewer in the place of the reviewers
\* the receipt names.
BoundReceipt(target, r) ==
    IF target \in ActiveLevels THEN [r EXCEPT !.reviewed = TRUE] ELSE GateReceipt

BoundOperation(p) ==
    /\ call[p].pc = "verified" /\ call[p].bound # None
    /\ LET b == call[p].bound
       IN \/ b.use = "revision" /\ StageStep(p, b.cand)
          \/ /\ b.use = "promotion"
             /\ \E r \in Offered :
                   PromoteStep(p, b.cand, b.level, BoundReceipt(b.level, r))
    /\ UNCHANGED <<ceremony, revisionVars>>

Operation(p) ==
    /\ \/ /\ Serves(p, None)
          /\ \E c \in Candidate \ Revision : StageStep(p, c)
       \/ /\ Serves(p, None)
          /\ \E c \in Candidate, l \in Level, r \in Offered : PromoteStep(p, c, l, r)
       \/ ArchiveStep(p)
       \/ RollbackStep(p)
    /\ UNCHANGED <<ceremony, revisionVars>>

\* How the end of a call reaches the coordinator it was made for.
WorkAfter(p, staged) ==
    [c \in Revision |->
       IF WorksOn(p, c) /\ call[p].bound = approval[c]
       THEN IF staged THEN [work[c] EXCEPT !.staged = TRUE] ELSE None
       ELSE work[c]]

End(p) ==
    /\ \/ Return(p) /\ work' = WorkAfter(p, TRUE)
       \/ Abandon(p) /\ work' = WorkAfter(p, FALSE)
       \/ TornAppend(p) /\ work' = WorkAfter(p, FALSE)
    /\ UNCHANGED <<ceremony, approval, receipt>>

Step(p) ==
    /\ \/ p \in Operator /\ Verify(p, None)
       \/ Recheck(p)
       \/ ReadLedger(p)
       \/ ReadVersions(p)
       \/ Capture(p)
       \/ Rotate(p)
       \/ Bootstrap(p)
       \/ AppendJournal(p)
       \/ WriteWitness(p)
    /\ UNCHANGED <<ceremony, revisionVars>>

Revise(p, c) ==
    \/ Approve(p, c)
    \/ Claim(p, c)
    \/ CloseRevision(p, c)
    \/ VerifyRevision(p, c)
    \/ CompleteRevision(p, c)
    \/ LoseWorker(p, c)

Next ==
    \E p \in Proc :
       \/ Step(p) \/ Operation(p) \/ BoundOperation(p) \/ End(p)
       \/ Prepare(p) \/ PrepareGate(p) \/ VerifyCeremony(p)
       \/ \E c \in Revision : Revise(p, c)

Spec == Init /\ [][Next]_vars

(***************************************************************************)
(* Properties.                                                             *)
(***************************************************************************)

StateType == [events : 0..Len(store.ledger), rows : 0..Len(store.versions),
              head : HeadEvent \cup {None}]

Record == [seq : Nat, state : StateType, kind : Kind, key : Key, own : Nat]

BindingType == [use : {"revision", "promotion"}, cand : Candidate, level : Level,
                seq : Nat, state : StateType, gated : BOOLEAN]

Call == [pc : Phase, bound : BindingType \cup {None}, before : Record \cup {None},
         kind : Kind \cup {None}, pos : 0..Len(store.ledger),
         state : StateType \cup {None}]

\* Every variable has its type, no candidate has two rows at one level (the
\* unique index of learning_versions), and no captured, signed or approved
\* state is ahead of the store.
TypeOK ==
    /\ store \in Database /\ UniqueRows(store)
    /\ Len(store.ledger) <= MaxLedger
    /\ journal \in Seq(Record)
    /\ witness \in Record \cup {None}
    /\ call \in [Proc -> Call]
    /\ ceremony \in [Proc -> BindingType \cup {None}]
    /\ approval \in [Revision -> BindingType \cup {None}]
    /\ receipt \in [Revision -> {"none", "claimed", "closed", "STAGED"}]
    /\ work \in [Revision -> [proc : Proc, staged : BOOLEAN] \cup {None}]

\* The records the chain check accepts from the start of the journal.
Chain == {i \in DOMAIN journal : \A j \in 1..i : journal[j].seq = j}

\* How many events are older than the checkpoints or covered by an accepted
\* record of the journal.
Signed == Max({Len(Initial.ledger)} \cup {journal[i].state.events : i \in Chain})

\* A record of the accepted chain that is not a key rotation extends the record
\* before it by exactly one event; and when the call that signed it has written an
\* event, that is the one, and it is of the record's kind, although the capture is
\* three queries and other authorities commit between them.  The exception is the
\* call that replayed what was stored: it signs the event of another authority,
\* as its own kind when the kinds agree or a third event has come in between
\* (LearningCheckpointAuthority._advance, capture_learning_store_state).
RecordsStepwise ==
    \A i \in Chain \ {1} :
       LET r == journal[i]
           now == r.state.events
       IN /\ r.kind # "key_rotation" => now = journal[i - 1].state.events + 1
          /\ r.own # 0 => r.own = now /\ store.ledger[now].type \in EventsOf(r.kind)

\* The authorities whose call is about to tell its caller that the mutation it
\* wrote has succeeded.
Succeeding == {p \in Proc : MayReturn(p) /\ call[p].pos # 0}

\* How many events the state had that the caller relied on: the state that was
\* approved or evaluated, or the state the call itself verified.
BasisOf(p) ==
    IF call[p].bound = None THEN call[p].before.state.events
    ELSE call[p].bound.state.events

\* A mutation whose caller is told that it succeeded is covered by a record of
\* the accepted chain.
SuccessIsSigned == \A p \in Succeeding : call[p].pos <= Signed

\* A mutation whose caller is told that it succeeded was applied to exactly the
\* state the caller relied on, and to no event more, whatever the other
\* authorities did between the approval and the commit.
SuccessIsInformed == \A p \in Succeeding : call[p].pos = BasisOf(p) + 1

\* However calls stop, at most one event per authority is not covered by a
\* signed record: after a crash nothing more is written through the gateways.
UnsignedBounded == Len(store.ledger) - Signed <= Cardinality(Proc)

\* What is active for an item is always a snapshot, never the missing one that
\* would make every later operation on the item raise, and its candidate went
\* up every level below it with receipts the policy accepts.
ActiveReviewed ==
    \A item \in Candidate :
       HasActive(store, item) =>
          /\ ~Unresolved(store, item)
          /\ LET row == ActiveRow(store, item)
             IN Climbed(store, row.cand, row.level)

\* A completed revision receipt says the truth: the revision was staged, over
\* the knowledge it was approved for, and a signed record covers it.
ReceiptsTrue ==
    \A c \in Revision :
       receipt[c] = "STAGED" =>
          \E i \in StageEvents(store, c) : i <= Signed

\* A gate that is told that its promotion succeeded has promoted a revision over
\* exactly the knowledge the revision was written against.
RevisionsOverBase ==
    \A p \in Succeeding :
       call[p].bound # None /\ call[p].bound.gated =>
          store.ledger[call[p].pos].before = Base[call[p].bound.cand]

================================================================================
