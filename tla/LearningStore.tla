----------------------------- MODULE LearningStore -----------------------------
(***************************************************************************)
(* The adaptive learning store: an append-only ledger of events and an     *)
(* append-only table of version rows, both written by one BEGIN IMMEDIATE  *)
(* transaction per operation.  An operation is a set-valued function of    *)
(* the database: the empty set when the code raises, the database itself   *)
(* when the call replays what is already stored, and the new database      *)
(* otherwise.                                                              *)
(*                                                                         *)
(* A hash is the value it is the hash of.  The hash chain of the ledger    *)
(* and the recomputation of every row's hashes detect a rewritten file;    *)
(* nothing here rewrites one, so those checks always pass and are left     *)
(* out.                                                                    *)
(***************************************************************************)
EXTENDS Integers, Sequences, FiniteSets, FiniteSetsExt

CONSTANTS
    Candidate,      \* candidate ids
    Creates,        \* the candidates whose action is create
    Target,         \* the item a patch or supersede candidate is for
    Base,           \* ... and the knowledge it was written against
    Knowledge,      \* knowledge hashes
    Content,        \* the knowledge hash of each candidate
    Sensitive,      \* candidates of a domain or a risk that needs reviewers
    None

ASSUME StoreAssumption ==
    /\ Creates \subseteq Candidate
    /\ Target \in [Candidate -> Candidate]
    /\ Content \in [Candidate -> Knowledge]
    /\ Base \in [Candidate -> Knowledge]
    /\ Sensitive \subseteq Candidate
    /\ None \notin Knowledge

Rank == [candidate |-> 1, validated |-> 2, approved |-> 3, enterprise |-> 4]

Level == DOMAIN Rank

ActiveLevels == {"approved", "enterprise"}

\* A validation receipt: whether every check passed, and whether it names the
\* reviewers the policy may ask for.
Receipt == [passed : BOOLEAN, reviewed : BOOLEAN]

EventType == {"stage", "validate", "activate", "enterprise", "archive", "rollback"}

Activations == {"activate", "enterprise", "archive", "rollback"}

Event == [type : EventType, item : Candidate, cand : Candidate,
          know : Knowledge, before : Knowledge \cup {None},
          after : Knowledge \cup {None}]

Version == [item : Candidate, cand : Candidate, know : Knowledge, level : Level,
            disp : {"staged", "active_snapshot"}, rcpt : Receipt \cup {None}]

Database == [ledger : Seq(Event), versions : Seq(Version)]

ItemOf(c) == IF c \in Creates THEN c ELSE Target[c]

(***************************************************************************)
(* Reading the database.                                                   *)
(***************************************************************************)

\* The rows of the table that satisfy a condition are named by their ids.
RowsOf(db, c) == {i \in DOMAIN db.versions : db.versions[i].cand = c}

RowsAt(db, c, l) == {i \in RowsOf(db, c) : db.versions[i].level = l}

ActivationsOf(db, item) ==
    {i \in DOMAIN db.ledger : /\ db.ledger[i].item = item
                              /\ db.ledger[i].type \in Activations}

\* The last event that changed what is active for an item, and the snapshots
\* it can stand for.
ActivationOf(db, item) == db.ledger[Max(ActivationsOf(db, item))]

SnapshotsOf(db, item, know) ==
    {i \in DOMAIN db.versions : /\ db.versions[i].item = item
                                /\ db.versions[i].know = know
                                /\ db.versions[i].disp = "active_snapshot"}

HasActive(db, item) ==
    /\ ActivationsOf(db, item) # {}
    /\ ActivationOf(db, item).after # None

ActiveSnapshots(db, item) ==
    {i \in SnapshotsOf(db, item, ActivationOf(db, item).after) :
        db.versions[i].cand = ActivationOf(db, item).cand}

\* ACTIVE_SNAPSHOT_MISSING: every later operation on the item raises.
Unresolved(db, item) == HasActive(db, item) /\ ActiveSnapshots(db, item) = {}

ActiveRow(db, item) == db.versions[Max(ActiveSnapshots(db, item))]

ActiveKnowledge(db, item) ==
    IF HasActive(db, item) THEN ActiveRow(db, item).know ELSE None

\* A transaction: one ledger event and, for stage and promote, one row.
Written(db, event, rows) ==
    [ledger |-> Append(db.ledger, event), versions |-> db.versions \o rows]

(***************************************************************************)
(* The operations.                                                         *)
(***************************************************************************)

Stageable(db, c) ==
    LET item == ItemOf(c)
    IN /\ ~Unresolved(db, item)
       /\ IF c \in Creates
          THEN ~HasActive(db, item)
          ELSE HasActive(db, item) /\ Base[c] = ActiveKnowledge(db, item)

StagedWrite(db, c) ==
    Written(db,
            [type |-> "stage", item |-> ItemOf(c), cand |-> c, know |-> Content[c],
             before |-> ActiveKnowledge(db, ItemOf(c)), after |-> None],
            <<[item |-> ItemOf(c), cand |-> c, know |-> Content[c],
               level |-> "candidate", disp |-> "staged", rcpt |-> None]>>)

\* A plausible slip: a candidate that is already staged is staged again.
StageAgain(db, c) == IF Stageable(db, c) THEN {StagedWrite(db, c)} ELSE {}

Stage(db, c) ==
    IF RowsAt(db, c, "candidate") # {} THEN {db}
    ELSE IF Stageable(db, c) THEN {StagedWrite(db, c)} ELSE {}

\* AdaptiveLearningPolicy.evaluate: one level at a time, a passing receipt, and
\* reviewers where the level or the candidate asks for them.
PolicyAllows(c, current, target, r) ==
    /\ Rank[target] = Rank[current] + 1
    /\ r.passed
    /\ target \in ActiveLevels /\ (target = "enterprise" \/ c \in Sensitive)
          => r.reviewed

CurrentLevel(db, c) == db.versions[Max(RowsOf(db, c))].level

ActivatesAt(db, item, target) ==
    /\ target \in ActiveLevels
    /\ ~ /\ target = "approved"
         /\ HasActive(db, item)
         /\ ActiveRow(db, item).level = "enterprise"

PromotedWrite(db, c, target, r) ==
    LET item == ItemOf(c)
        activates == ActivatesAt(db, item, target)
    IN Written(db,
               [type |-> IF ~activates THEN "validate"
                         ELSE IF target = "enterprise" THEN "enterprise"
                         ELSE "activate",
                item |-> item, cand |-> c, know |-> Content[c],
                before |-> ActiveKnowledge(db, item),
                after |-> IF activates THEN Content[c] ELSE None],
               <<[item |-> item, cand |-> c, know |-> Content[c], level |-> target,
                  disp |-> IF activates THEN "active_snapshot" ELSE "staged",
                  rcpt |-> r]>>)

Promote(db, c, target, r) ==
    LET existing == RowsAt(db, c, target)
    IN IF existing # {}
       THEN {d \in {db} : \A i \in existing : db.versions[i].rcpt = r}
       ELSE IF /\ RowsOf(db, c) # {}
               /\ PolicyAllows(c, CurrentLevel(db, c), target, r)
               /\ ~Unresolved(db, ItemOf(c))
            THEN {PromotedWrite(db, c, target, r)}
            ELSE {}

Archive(db, item, expected) ==
    IF Unresolved(db, item) \/ ~HasActive(db, item) THEN {}
    ELSE IF ActiveKnowledge(db, item) # expected THEN {}
    ELSE {Written(db,
                  [type |-> "archive", item |-> item,
                   cand |-> ActiveRow(db, item).cand, know |-> expected,
                   before |-> expected, after |-> None],
                  <<>>)}

\* A plausible slip: any row with the knowledge will do as a rollback target.
AnyRowWith(db, item, know) ==
    {i \in DOMAIN db.versions : /\ db.versions[i].item = item
                                /\ db.versions[i].know = know}

RollbackTargets(db, item, target) == SnapshotsOf(db, item, target)

Rollback(db, item, target, expected) ==
    LET rows == RollbackTargets(db, item, target)
    IN IF \/ Unresolved(db, item)
          \/ ActiveKnowledge(db, item) # expected
          \/ rows = {}
       THEN {}
       ELSE {Written(db,
                     [type |-> "rollback", item |-> item,
                      cand |-> db.versions[Max(rows)].cand, know |-> target,
                      before |-> expected, after |-> target],
                     <<>>)}

(***************************************************************************)
(* What the operations keep true of a database.                            *)
(***************************************************************************)

\* The unique index of learning_versions.
UniqueRows(db) ==
    \A i, j \in DOMAIN db.versions :
       /\ db.versions[i].cand = db.versions[j].cand
       /\ db.versions[i].level = db.versions[j].level
       => i = j

\* A candidate has a row, with a receipt the policy accepts, for every level
\* above the first up to the given one.
Climbed(db, c, level) ==
    \A l \in Level :
       1 < Rank[l] /\ Rank[l] <= Rank[level] =>
          \E i \in RowsAt(db, c, l) :
             LET r == db.versions[i].rcpt
             IN /\ r.passed
                /\ l = "enterprise" \/ (l = "approved" /\ c \in Sensitive) => r.reviewed

LevelsClimbed(db) ==
    \A i \in DOMAIN db.versions : Climbed(db, db.versions[i].cand, db.versions[i].level)

\* What an event made active has its snapshot.
SnapshotsKept(db) ==
    \A i \in DOMAIN db.ledger :
       LET e == db.ledger[i]
       IN e.type \in Activations /\ e.after # None =>
             \E j \in SnapshotsOf(db, e.item, e.after) : db.versions[j].cand = e.cand

\* The event that staged a candidate over the knowledge it was written against.
StageEvents(db, c) ==
    {i \in DOMAIN db.ledger : /\ db.ledger[i].type = "stage"
                              /\ db.ledger[i].cand = c
                              /\ db.ledger[i].before = Base[c]}

StagedOverBase(db) ==
    \A c \in Candidate \ Creates : RowsAt(db, c, "candidate") # {} => StageEvents(db, c) # {}

Sound(db) ==
    /\ db \in Database
    /\ UniqueRows(db)
    /\ LevelsClimbed(db)
    /\ SnapshotsKept(db)
    /\ StagedOverBase(db)

================================================================================
