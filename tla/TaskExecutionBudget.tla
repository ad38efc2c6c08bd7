------------------------ MODULE TaskExecutionBudget ------------------------
(***************************************************************************)
(* The step dimension of a task's persistent execution budget (store.py,   *)
(* execution_budget.py) and the per-node reservation index that makes a    *)
(* dispatch charge exactly one step (execution_dispatch_budget.py).  The   *)
(* other dimensions of the row (tool calls, retries, escalations) are not  *)
(* charged by a dispatch and are left out.                                 *)
(***************************************************************************)
EXTENDS Naturals, FiniteSets

CONSTANTS
    Node,           \* the nodes of the execution plan
    MaxSteps,       \* max_steps of the bound task contract
    MaxOtherSteps   \* bound on the steps charged by other users of the task

ASSUME NodeAssumption == IsFiniteSet(Node)
ASSUME BudgetAssumption == MaxSteps \in Nat /\ MaxOtherSteps \in Nat

VARIABLES
    stepsUsed,      \* steps_used of task_execution_budget_usage
    otherSteps,     \* history: the steps not charged by a dispatch
    reserved,       \* the nodes with a row in the reservation index
    expired         \* the wall-time deadline has passed

budgetVars == <<stepsUsed, otherSteps, reserved, expired>>

BudgetTypeOK ==
    /\ stepsUsed \in Nat
    /\ otherSteps \in Nat
    /\ reserved \in SUBSET Node
    /\ expired \in BOOLEAN

BudgetInit ==
    /\ stepsUsed = 0
    /\ otherSteps = 0
    /\ reserved = {}
    /\ expired = FALSE

StepAvailable == ~expired /\ stepsUsed + 1 <= MaxSteps

(* Mutant: trusts the preflight and does not check the limit again.        *)
ReserveStepUnchecked(n) ==
    /\ n \notin reserved
    /\ ~expired
    /\ stepsUsed' = stepsUsed + 1
    /\ reserved' = reserved \cup {n}
    /\ UNCHANGED <<otherSteps, expired>>

(* reserve_new_in_transaction: the charge and the index row, inside the    *)
(* caller's transaction.                                                   *)
ReserveStep(n) ==
    /\ n \notin reserved
    /\ StepAvailable
    /\ stepsUsed' = stepsUsed + 1
    /\ reserved' = reserved \cup {n}
    /\ UNCHANGED <<otherSteps, expired>>

(* reserve_task_execution_budget(steps=1): any other part of the runtime   *)
(* that spends a step of the same task.                                    *)
ChargeOther ==
    /\ otherSteps < MaxOtherSteps
    /\ StepAvailable
    /\ stepsUsed' = stepsUsed + 1
    /\ otherSteps' = otherSteps + 1
    /\ UNCHANGED <<reserved, expired>>

(* The clock reaches deadline_at, which no operation moves.                *)
Expire ==
    /\ ~expired
    /\ expired' = TRUE
    /\ UNCHANGED <<stepsUsed, otherSteps, reserved>>

(***************************************************************************)
(* Every dispatch charge is backed by exactly one reservation row, nothing *)
(* is charged twice, and the limit of the task contract is never exceeded, *)
(* whoever charges the steps and however the transactions interleave.      *)
(***************************************************************************)
StepAccounting ==
    /\ stepsUsed = Cardinality(reserved) + otherSteps
    /\ stepsUsed <= MaxSteps
=============================================================================
