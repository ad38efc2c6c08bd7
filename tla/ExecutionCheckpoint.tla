------------------------ MODULE ExecutionCheckpoint ------------------------
(***************************************************************************)
(* The durable checkpoint tables of one (task, plan) pair and the          *)
(* writer-fenced, budget-atomic transactions that write them               *)
(* (execution_checkpoint.py, execution_checkpoint_writer_fence.py,         *)
(* execution_dispatch_budget.py).  One operator is one BEGIN IMMEDIATE     *)
(* transaction: it commits all its conjuncts or, when one of them is       *)
(* false, raises and changes nothing.                                      *)
(*                                                                         *)
(* Each protected event is followed, in its own transaction, by a          *)
(* WRITER_FENCE_BOUND receipt; the receipt is the field generation of the  *)
(* row it binds.  A ticket identifier is a digest of the node and the      *)
(* dispatch sequence, so the pair (node, sequence) stands for it.          *)
(***************************************************************************)
EXTENDS RuntimeWriterLease, TaskExecutionBudget

CONSTANTS
    DependsOn,      \* DependsOn[n]: the nodes whose success n waits for
    Outcome         \* the observation statuses an executor may report

ASSUME PlanAssumption == DependsOn \in [Node -> SUBSET Node]
ASSUME OutcomeAssumption ==
    /\ Outcome \subseteq {"SUCCEEDED", "FAILED", "PARTIAL", "CANCELLED"}
    /\ "NONE" \notin Outcome

VARIABLES
    dispatchRow,    \* execution_dispatch_checkpoints, by node
    observationRow, \* execution_observation_checkpoints, by node
    cancelledBy     \* generation bound to the latest CANCELLED event, or 0

tableVars == <<dispatchRow, observationRow, cancelledBy>>

DispatchRow == [sequence : Nat, generation : Nat]
ObservationRow == [status : Outcome \cup {"NONE"}, generation : Nat]

CheckpointTypeOK ==
    /\ dispatchRow \in [Node -> DispatchRow]
    /\ observationRow \in [Node -> ObservationRow]
    /\ cancelledBy \in Nat

CheckpointInit ==
    /\ dispatchRow = [n \in Node |-> [sequence |-> 0, generation |-> 0]]
    /\ observationRow = [n \in Node |-> [status |-> "NONE", generation |-> 0]]
    /\ cancelledBy = 0

Dispatched(n) == dispatchRow[n].sequence > 0
Observed(n) == observationRow[n].status # "NONE"
DispatchedNodes == {n \in Node : Dispatched(n)}

(* A dispatch whose observation never became durable.                      *)
Unsettled == {n \in Node : Dispatched(n) /\ ~Observed(n)}

(* record_dispatch of a new ticket: fence, charge, row and receipts.       *)
RecordDispatch(n, s, g) ==
    /\ IsCurrent(g)
    /\ ~Dispatched(n)
    /\ ReserveStep(n)
    /\ dispatchRow' = [dispatchRow EXCEPT
                         ![n] = [sequence |-> s, generation |-> g]]
    /\ UNCHANGED <<observationRow, cancelledBy>>

(* Mutant: the receipt of an equal ticket is returned before the fence.    *)
ReplayDispatchUnfenced(n, s, g) ==
    /\ dispatchRow[n].sequence = s
    /\ n \in reserved
    /\ UNCHANGED <<tableVars, budgetVars>>

(* record_dispatch of a ticket that is already there: the same ticket,     *)
(* bound to the caller's generation, with its reservation, is returned     *)
(* again; nothing is written.                                              *)
ReplayDispatch(n, s, g) ==
    /\ IsCurrent(g)
    /\ dispatchRow[n] = [sequence |-> s, generation |-> g]
    /\ n \in reserved
    /\ UNCHANGED <<tableVars, budgetVars>>

(* Mutant: any current writer may settle any dispatch.                     *)
RecordObservationOfAnyGeneration(n, outcome, g) ==
    /\ IsCurrent(g)
    /\ Dispatched(n)
    /\ ~Observed(n)
    /\ observationRow' = [observationRow EXCEPT
                            ![n] = [status |-> outcome, generation |-> g]]
    /\ UNCHANGED <<dispatchRow, cancelledBy>>

(* record_observation: only the generation that issued the dispatch may    *)
(* settle it.                                                              *)
RecordObservation(n, outcome, g) ==
    /\ IsCurrent(g)
    /\ Dispatched(n)
    /\ dispatchRow[n].generation = g
    /\ ~Observed(n)
    /\ observationRow' = [observationRow EXCEPT
                            ![n] = [status |-> outcome, generation |-> g]]
    /\ UNCHANGED <<dispatchRow, cancelledBy>>

(* record_observation of an observation that is already there.             *)
ReplayObservation(n, outcome, g) ==
    /\ IsCurrent(g)
    /\ dispatchRow[n].generation = g
    /\ observationRow[n] = [status |-> outcome, generation |-> g]
    /\ UNCHANGED tableVars

(* Mutant: the receipt names the run where the generation belongs.         *)
RecordCancellationByRun(g) ==
    /\ IsCurrent(g)
    /\ cancelledBy' = lease.run
    /\ UNCHANGED <<dispatchRow, observationRow>>

(* record_cancellation: appends a CANCELLED event, or finds its own latest *)
(* one and returns.                                                        *)
RecordCancellation(g) ==
    /\ IsCurrent(g)
    /\ cancelledBy' = g
    /\ UNCHANGED <<dispatchRow, observationRow>>

(* verify_writer_fence_bindings: every observation is bound to the writer  *)
(* that issued its dispatch.                                               *)
BindingsValid ==
    \A n \in Node : Observed(n) =>
        /\ Dispatched(n)
        /\ observationRow[n].generation = dispatchRow[n].generation
=============================================================================
