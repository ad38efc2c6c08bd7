-------------------------- MODULE ExecutionRuntime --------------------------
(***************************************************************************)
(* Runtime instances that compose a writer lease, the fenced checkpoint    *)
(* repository and an ExecutionScheduler for the same (task, plan) pair     *)
(* (execution_runtime_composition.py, execution_scheduler.py,              *)
(* runtime_scheduler.py, capability_revocation.py).                        *)
(*                                                                         *)
(* An instance is a single-threaded process.  Its scheduler works on an    *)
(* in-memory copy of the tables that is read once, at start; every access  *)
(* to the database after that is one step, and other instances, the        *)
(* operator and the clock run between any two of them.  A crash loses the  *)
(* memory and nothing else.  Calls that fail before they change anything   *)
(* (most refusals of issue_dispatch) leave every variable alone and are    *)
(* not steps.                                                              *)
(***************************************************************************)
EXTENDS ExecutionCheckpoint

CONSTANTS
    Proc,               \* the runtime instances
    RunOf,              \* RunOf[p]: the run_id instance p is started with
    ApprovalRequired,   \* the nodes with approval_required
    Tool,               \* the capabilities of the task contract
    AllowedTools,       \* AllowedTools[n]: the allowed_tools of node n
    MaxConcurrency,     \* max_concurrency of the scheduler
    MaxSequence,        \* bound on the dispatch sequence numbers tried
    NoNode              \* no issue_dispatch call is under way

ASSUME RuntimeAssumption ==
    /\ RunOf \in [Proc -> Run]
    /\ ApprovalRequired \subseteq Node
    /\ AllowedTools \in [Node -> SUBSET Tool]
    /\ MaxConcurrency \in Nat \ {0}
    /\ MaxSequence \in Nat
    /\ NoNode \notin Node

VARIABLES
    revoked,        \* the durable capability revocations
    pc,             \* where the instance is, see Phase
    held,           \* generation of the lease the instance was given
    view,           \* dispatch sequences read by load, 0 where no row
    done,           \* _observations: the status of each observed node
    inFlight,       \* keys of _in_flight
    recovery,       \* keys of _recovery_required
    approved,       \* _approved_nodes
    sequence,       \* _dispatch_sequence
    cancelled,      \* _cancelled
    target,         \* the node of the issue_dispatch call under way
    handedOut       \* history: tickets issue_dispatch returned, per node

memory == <<held, view, done, inFlight, recovery, approved, sequence,
            cancelled, target>>
durable == <<lease, tableVars, budgetVars, revoked>>
vars == <<durable, pc, memory, handedOut>>

Phase == {"down",           \* not running
          "claimed",        \* the lease transaction returned
          "fenced",         \* load found the lease current
          "dispatches",     \* load read the dispatch rows
          "observations",   \* load read the observation rows
          "idle",           \* the scheduler is constructed
          "admitted",       \* issue_dispatch passed its revalidation
          "recording"}      \* issue_dispatch is about to record the ticket

Working == {"idle", "admitted", "recording"}

NoView == [n \in Node |-> 0]
NothingDone == [n \in Node |-> "NONE"]

TypeOK ==
    /\ lease \in Lease
    /\ BudgetTypeOK
    /\ CheckpointTypeOK
    /\ revoked \in SUBSET Tool
    /\ pc \in [Proc -> Phase]
    /\ held \in [Proc -> Nat]
    /\ view \in [Proc -> [Node -> Nat]]
    /\ done \in [Proc -> [Node -> Outcome \cup {"NONE"}]]
    /\ inFlight \in [Proc -> SUBSET Node]
    /\ recovery \in [Proc -> SUBSET Node]
    /\ approved \in [Proc -> SUBSET Node]
    /\ sequence \in [Proc -> Nat]
    /\ cancelled \in [Proc -> BOOLEAN]
    /\ target \in [Proc -> Node \cup {NoNode}]
    /\ \A p \in Proc : pc[p] \in {"admitted", "recording"} => target[p] \in Node
    /\ handedOut \in [Node -> Nat]

Init ==
    /\ LeaseInit
    /\ BudgetInit
    /\ CheckpointInit
    /\ revoked = {}
    /\ pc = [p \in Proc |-> "down"]
    /\ held = [p \in Proc |-> 0]
    /\ view = [p \in Proc |-> NoView]
    /\ done = [p \in Proc |-> NothingDone]
    /\ inFlight = [p \in Proc |-> {}]
    /\ recovery = [p \in Proc |-> {}]
    /\ approved = [p \in Proc |-> {}]
    /\ sequence = [p \in Proc |-> 0]
    /\ cancelled = [p \in Proc |-> FALSE]
    /\ target = [p \in Proc |-> NoNode]
    /\ handedOut = [n \in Node |-> 0]

Goto(p, phase) == pc' = [pc EXCEPT ![p] = phase]

-----------------------------------------------------------------------------
(* Starting an instance: claim, then load in four reads, then restore.     *)

Claim(p) ==
    /\ pc[p] = "down"
    /\ ClaimLease(RunOf[p])
    /\ held' = [held EXCEPT ![p] = lease'.generation]
    /\ Goto(p, "claimed")
    /\ UNCHANGED <<tableVars, budgetVars, revoked, view, done, inFlight,
                   recovery, approved, sequence, cancelled, target, handedOut>>

(* initialize and load both check the lease, each in a transaction of its  *)
(* own; the later of the two checks is this step.                          *)
RequireCurrent(p) ==
    /\ pc[p] = "claimed"
    /\ IsCurrent(held[p])
    /\ Goto(p, "fenced")
    /\ UNCHANGED <<durable, memory, handedOut>>

ReadDispatches(p) ==
    /\ pc[p] = "fenced"
    /\ view' = [view EXCEPT ![p] = [n \in Node |-> dispatchRow[n].sequence]]
    /\ Goto(p, "dispatches")
    /\ UNCHANGED <<durable, held, done, inFlight, recovery, approved,
                   sequence, cancelled, target, handedOut>>

ReadObservations(p) ==
    /\ pc[p] = "dispatches"
    /\ done' = [done EXCEPT ![p] = [n \in Node |-> observationRow[n].status]]
    /\ Goto(p, "observations")
    /\ UNCHANGED <<durable, held, view, inFlight, recovery, approved,
                   sequence, cancelled, target, handedOut>>

(* The checks of load and _restore_checkpoint on dispatch sequences v and  *)
(* observed statuses d: no orphaned observation, no duplicate sequence, no *)
(* dispatch before its dependencies succeeded.                             *)
Restorable(v, d) ==
    /\ \A n \in Node : d[n] # "NONE" => v[n] > 0
    /\ \A m, n \in Node : v[m] = v[n] /\ v[n] > 0 => m = n
    /\ \A n \in Node : v[n] > 0 => \A k \in DependsOn[n] : d[k] = "SUCCEEDED"

(* Mutant: the sequence counter starts again after a restart.              *)
IsLargestReset(s, v) == s = 0

IsLargest(s, v) ==
    /\ \A n \in Node : v[n] <= s
    /\ s = 0 \/ \E n \in Node : v[n] = s

(* Mutant: the unfinished tickets are not restored.                        *)
NoRecovery(p) == {}

(* The tickets without an observation become RECOVERY_REQUIRED.            *)
RecoveryRequired(p) == {n \in Node : view[p][n] > 0 /\ done[p][n] = "NONE"}

(* Mutant: the durable cancellation is not restored.                       *)
NeverCancelled == FALSE

CancellationFound == cancelledBy # 0

(* The cancellation row and the fence bindings are read in this step, and  *)
(* the caller re-approved exactly the dispatched approval nodes.           *)
Restore(p) ==
    /\ pc[p] = "observations"
    /\ Restorable(view[p], done[p])
    /\ BindingsValid
    /\ recovery' = [recovery EXCEPT ![p] = RecoveryRequired(p)]
    /\ approved' = [approved EXCEPT
         ![p] = {n \in ApprovalRequired : view[p][n] > 0}]
    /\ \E s \in 0..MaxSequence :
         /\ IsLargest(s, view[p])
         /\ sequence' = [sequence EXCEPT ![p] = s]
    /\ cancelled' = [cancelled EXCEPT ![p] = CancellationFound]
    /\ view' = [view EXCEPT ![p] = NoView]
    /\ Goto(p, "idle")
    /\ UNCHANGED <<durable, held, done, inFlight, target, handedOut>>

(* A process dies, or the composition raises: a check of Restore failed,   *)
(* the lease was superseded before RequireCurrent, a re-approval was       *)
(* missing.  The lease row stays as it is.                                 *)
Crash(p) ==
    /\ pc[p] # "down"
    /\ Goto(p, "down")
    /\ held' = [held EXCEPT ![p] = 0]
    /\ view' = [view EXCEPT ![p] = NoView]
    /\ done' = [done EXCEPT ![p] = NothingDone]
    /\ inFlight' = [inFlight EXCEPT ![p] = {}]
    /\ recovery' = [recovery EXCEPT ![p] = {}]
    /\ approved' = [approved EXCEPT ![p] = {}]
    /\ sequence' = [sequence EXCEPT ![p] = 0]
    /\ cancelled' = [cancelled EXCEPT ![p] = FALSE]
    /\ target' = [target EXCEPT ![p] = NoNode]
    /\ UNCHANGED <<durable, handedOut>>

-----------------------------------------------------------------------------
(* issue_dispatch: memory checks and revalidation, preflight, commit.      *)

(* Mutant: a dependency only has to be finished.                           *)
ReadyAfterAnyOutcome(p, n) ==
    /\ done[p][n] = "NONE"
    /\ \A k \in DependsOn[n] : done[p][k] # "NONE"

(* The node is READY for RuntimeScheduler.evaluate on the instance's       *)
(* observations, once the caller's approval is added for a node that       *)
(* requires one.                                                           *)
Ready(p, n) ==
    /\ done[p][n] = "NONE"
    /\ \A k \in DependsOn[n] : done[p][k] = "SUCCEEDED"

(* Mutant: unfinished tickets of an earlier instance do not block.         *)
MayIssueAroundRecovery(p, n) ==
    /\ ~cancelled[p]
    /\ n \notin inFlight[p] \cup recovery[p]
    /\ Cardinality(inFlight[p]) < MaxConcurrency

(* The early returns of issue_dispatch: a cancelled scheduler, a ticket of *)
(* the node in flight, any ticket that awaits recovery, backpressure.      *)
MayIssue(p, n) ==
    /\ ~cancelled[p]
    /\ n \notin inFlight[p]
    /\ recovery[p] = {}
    /\ Cardinality(inFlight[p]) < MaxConcurrency

(* The deadline and the revocations are read one after the other; both     *)
(* only ever grow, so the checks that pass one by one also pass at the     *)
(* time of the first.                                                      *)
Admit(p, n) ==
    /\ pc[p] = "idle"
    /\ sequence[p] < MaxSequence
    /\ MayIssue(p, n)
    /\ Ready(p, n)
    /\ ~expired
    /\ AllowedTools[n] \cap revoked = {}
    /\ target' = [target EXCEPT ![p] = n]
    /\ Goto(p, "admitted")
    /\ UNCHANGED <<durable, held, view, done, inFlight, recovery, approved,
                   sequence, cancelled, handedOut>>

(* DispatchBudgetPreflightGuard.reserve reads the budget and charges       *)
(* nothing; then the next sequence number is taken.                        *)
Preflight(p) ==
    /\ pc[p] = "admitted"
    /\ StepAvailable
    /\ sequence' = [sequence EXCEPT ![p] = @ + 1]
    /\ Goto(p, "recording")
    /\ UNCHANGED <<durable, held, view, done, inFlight, recovery, approved,
                   cancelled, target, handedOut>>

PreflightDenied(p) ==
    /\ pc[p] = "admitted"
    /\ ~StepAvailable
    /\ target' = [target EXCEPT ![p] = NoNode]
    /\ Goto(p, "idle")
    /\ UNCHANGED <<durable, held, view, done, inFlight, recovery, approved,
                   sequence, cancelled, handedOut>>

CommitDispatch(p) ==
    LET n == target[p] IN
    /\ pc[p] = "recording"
    /\ \/ RecordDispatch(n, sequence[p], held[p])
       \/ ReplayDispatch(n, sequence[p], held[p])
    /\ inFlight' = [inFlight EXCEPT ![p] = @ \cup {n}]
    /\ approved' = [approved EXCEPT ![p] = @ \cup ({n} \cap ApprovalRequired)]
    /\ handedOut' = [handedOut EXCEPT ![n] = @ + 1]
    /\ target' = [target EXCEPT ![p] = NoNode]
    /\ Goto(p, "idle")
    /\ UNCHANGED <<lease, revoked, held, view, done, recovery, sequence,
                   cancelled>>

(* The transaction was refused by one of its checks or rolled back by an   *)
(* error; the sequence number stays consumed.                              *)
DispatchFailed(p) ==
    /\ pc[p] = "recording"
    /\ target' = [target EXCEPT ![p] = NoNode]
    /\ Goto(p, "idle")
    /\ UNCHANGED <<durable, held, view, done, inFlight, recovery, approved,
                   sequence, cancelled, handedOut>>

-----------------------------------------------------------------------------
(* The other calls of a running instance.                                  *)

AcceptObservation(p, n, outcome) ==
    /\ pc[p] = "idle"
    /\ n \in inFlight[p] \cup recovery[p]
    /\ n \in ApprovalRequired => n \in approved[p]
    /\ \/ RecordObservation(n, outcome, held[p])
       \/ ReplayObservation(n, outcome, held[p])
    /\ done' = [done EXCEPT ![p] = [@ EXCEPT ![n] = outcome]]
    /\ inFlight' = [inFlight EXCEPT ![p] = @ \ {n}]
    /\ recovery' = [recovery EXCEPT ![p] = @ \ {n}]
    /\ UNCHANGED <<lease, budgetVars, revoked, pc, held, view, approved,
                   sequence, cancelled, target, handedOut>>

(* The instance stops issuing before it records the cancellation, and      *)
(* stays stopped when the record fails.                                    *)
Cancel(p) ==
    /\ pc[p] = "idle"
    /\ cancelled' = [cancelled EXCEPT ![p] = TRUE]
    /\ RecordCancellation(held[p]) \/ UNCHANGED tableVars
    /\ UNCHANGED <<lease, budgetVars, revoked, pc, held, view, done, inFlight,
                   recovery, approved, sequence, target, handedOut>>

Release(p) ==
    /\ pc[p] = "idle"
    /\ ReleaseLease(held[p])
    /\ UNCHANGED <<tableVars, budgetVars, revoked, pc, memory, handedOut>>

(* workspace-capability revoke: INSERT OR IGNORE, there is no restore.     *)
Revoke(t) ==
    /\ revoked' = revoked \cup {t}
    /\ UNCHANGED <<lease, tableVars, budgetVars, pc, memory, handedOut>>

Environment ==
    /\ ChargeOther \/ Expire
    /\ UNCHANGED <<lease, tableVars, revoked, pc, memory, handedOut>>

Start(p) ==
    \/ Claim(p)
    \/ RequireCurrent(p)
    \/ ReadDispatches(p)
    \/ ReadObservations(p)
    \/ Restore(p)

Issue(p) ==
    \/ \E n \in Node : Admit(p, n)
    \/ Preflight(p)
    \/ PreflightDenied(p)
    \/ CommitDispatch(p)
    \/ DispatchFailed(p)

Settle(p) ==
    \E n \in Node, outcome \in Outcome : AcceptObservation(p, n, outcome)

Next ==
    \/ \E p \in Proc : \/ Start(p) \/ Issue(p) \/ Settle(p)
                       \/ Cancel(p) \/ Release(p) \/ Crash(p)
    \/ \E t \in Tool : Revoke(t)
    \/ Environment

Spec == Init /\ [][Next]_vars

(***************************************************************************)
(* Fairness for the liveness property: an instance that is down is started *)
(* again, a start that is not overtaken by a crash for ever completes, and *)
(* the executor of a ticket eventually reports.  Nothing is assumed of the *)
(* caller that issues, cancels or releases, nor of the operator.           *)
(***************************************************************************)
Fairness ==
    \A p \in Proc :
        /\ WF_vars(Claim(p))
        /\ SF_vars(RequireCurrent(p))
        /\ SF_vars(ReadDispatches(p))
        /\ SF_vars(ReadObservations(p))
        /\ SF_vars(Restore(p))
        /\ SF_vars(Settle(p))
        /\ WF_vars(PreflightDenied(p) \/ Preflight(p))
        /\ WF_vars(CommitDispatch(p) \/ DispatchFailed(p))

FairSpec == Spec /\ Fairness

-----------------------------------------------------------------------------
(* The instance holds the lease that is the ACTIVE row now.                *)
Holder(p) == pc[p] # "down" /\ IsCurrent(held[p])

(***************************************************************************)
(* The scheduler decides on memory it read once, at start.  While its      *)
(* lease is current that memory still equals the tables: observations,     *)
(* unfinished tickets and cancellation are all known to it, and its        *)
(* sequence counter is not behind any recorded ticket.  (execution_        *)
(* scheduler.py keeps no lock on the tables between its calls; only the    *)
(* writer fence keeps other writers out.)                                  *)
(***************************************************************************)
MemoryMatches(p) ==
    /\ \A n \in Node : done[p][n] = observationRow[n].status
    /\ inFlight[p] \cup recovery[p] = Unsettled
    /\ cancelledBy # 0 => cancelled[p]
    /\ \A n \in Node : dispatchRow[n].sequence <= sequence[p]

MemoryCoherent ==
    \A p \in Proc : Holder(p) /\ pc[p] \in Working => MemoryMatches(p)

(***************************************************************************)
(* Whatever crashed, was superseded or rolled back, the tables satisfy     *)
(* every check of load and _restore_checkpoint: the same ACTIVE run        *)
(* restarted after process failure can resume its own unfinished dispatch. *)
(***************************************************************************)
RestartPossible ==
    /\ Restorable([n \in Node |-> dispatchRow[n].sequence],
                  [n \in Node |-> observationRow[n].status])
    /\ BindingsValid

(***************************************************************************)
(* issue_dispatch returns a ticket for a node at most once, over all       *)
(* instances and restarts, and a returned ticket is a recorded one: work   *)
(* is never replayed automatically.                                        *)
(***************************************************************************)
TicketsHandedOutOnce ==
    \A n \in Node : handedOut[n] = IF Dispatched(n) THEN 1 ELSE 0

(* A step is charged for a node exactly when its dispatch is recorded: a   *)
(* failed checkpoint burns no step and a refused step leaves no dispatch.  *)
ReservationsMatchDispatches == reserved = DispatchedNodes

(***************************************************************************)
(* max_concurrency bounds the unfinished dispatches of the plan, not only  *)
(* those of one instance: a restart or a new generation does not reset it. *)
(***************************************************************************)
BoundedUnsettled == Cardinality(Unsettled) <= MaxConcurrency

(***************************************************************************)
(* Unfinished dispatches of two generations never coexist: a superseding   *)
(* run does not dispatch around the work its predecessor left behind.      *)
(***************************************************************************)
UnsettledOfOneGeneration ==
    \A m, n \in Unsettled : dispatchRow[m].generation = dispatchRow[n].generation

-----------------------------------------------------------------------------
(***************************************************************************)
(* The inductive invariant of the proofs, for instances with distinct run  *)
(* identifiers.  It adds to the properties above why they hold: a lease    *)
(* that is not current never becomes current again; the two copies load    *)
(* reads stay equal to the tables until they are used; an issue_dispatch   *)
(* call that is under way was admitted on memory that is still right.      *)
(***************************************************************************)
DistinctRuns == \A p, q \in Proc : RunOf[p] = RunOf[q] => p = q

(* What the memory of a holder of the current lease says of the tables.    *)
HolderCoherent(p) ==
    /\ pc[p] \in {"dispatches", "observations"} =>
         \A n \in Node : view[p][n] = dispatchRow[n].sequence
    /\ pc[p] = "observations" =>
         \A n \in Node : done[p][n] = observationRow[n].status
    /\ pc[p] \in Working => MemoryMatches(p)
    /\ pc[p] \in Working =>
         \A n \in inFlight[p] : dispatchRow[n].generation = held[p]
    /\ pc[p] = "recording" =>
         \A n \in Node : dispatchRow[n].sequence < sequence[p]

InstanceInvariant(p) ==
    /\ pc[p] # "down" => held[p] <= lease.generation
    /\ pc[p] # "down" /\ held[p] = lease.generation => lease.run = RunOf[p]
    /\ pc[p] \notin Working => inFlight[p] = {}
    /\ pc[p] \in {"admitted", "recording"} =>
         MayIssue(p, target[p]) /\ Ready(p, target[p])
    /\ Holder(p) => HolderCoherent(p)

TablesInvariant ==
    /\ \A n \in Node : dispatchRow[n].generation <= lease.generation
    /\ RestartPossible
    /\ UnsettledOfOneGeneration
    /\ BoundedUnsettled
    /\ ReservationsMatchDispatches
    /\ TicketsHandedOutOnce
    /\ StepAccounting

FenceInvariant == TablesInvariant /\ \A p \in Proc : InstanceInvariant(p)

-----------------------------------------------------------------------------
(* No step records a dispatch once a cancellation is recorded, by any      *)
(* writer of any generation.                                               *)
NoDispatchAfterCancellation ==
    [][cancelledBy # 0 => dispatchRow' = dispatchRow]_vars

(***************************************************************************)
(* Work left behind by a superseded or released generation stays           *)
(* RECOVERY_REQUIRED: no later step settles it, and none dispatches        *)
(* anything else while it is there.                                        *)
(***************************************************************************)
Abandoned(n) == n \in Unsettled /\ ~IsCurrent(dispatchRow[n].generation)

AbandonedFreezesPlan ==
    [][\A n \in Node : Abandoned(n) =>
          /\ Abandoned(n)'
          /\ dispatchRow' = dispatchRow
          /\ observationRow' = observationRow]_vars

(***************************************************************************)
(* Every recorded dispatch is eventually settled, by the instance that     *)
(* issued it or by a restarted one of the same run, unless its generation  *)
(* is superseded or released.                                              *)
(***************************************************************************)
DispatchesSettle ==
    \A n \in Node : n \in Unsettled ~> Observed(n) \/ Abandoned(n)

(***************************************************************************)
(* The tables are a dispatch ledger: each transaction is one ledger step   *)
(* or changes nothing the ledger sees.                                     *)
(***************************************************************************)
Ledger == INSTANCE DispatchLedger WITH
    entries <- DispatchedNodes,
    outcomes <- [n \in Node |-> observationRow[n].status],
    closed <- cancelledBy # 0,
    charged <- stepsUsed

ImplementsLedger == Ledger!LedgerSpec
=============================================================================
