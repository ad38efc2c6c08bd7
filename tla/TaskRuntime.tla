----------------------------- MODULE TaskRuntime -----------------------------
(***************************************************************************)
(* What the workflow controllers share in the task store: the status of    *)
(* the workflow's task and of its lane tasks, the validator ledger, the    *)
(* execution budgets, linked for a lane (store.py, validator_ledger.py,    *)
(* runtime_validation.py, linked_execution_budget.py), and what the agents *)
(* do to them (agents/research.py, agents/presentation.py).                *)
(*                                                                         *)
(* Steps, tool calls, retries and escalations are the same reservation on  *)
(* different columns; one column stands for them.  A reservation that      *)
(* meets a locked database is retried and may fail like an exhausted one.  *)
(***************************************************************************)
EXTENDS Naturals, FiniteSetsExt

CONSTANTS
    Parent,         \* the task of the workflow
    Lane,           \* the tasks of its parallel lanes
    MaxUnits        \* the budget of each task contract

ASSUME TaskAssumption ==
    /\ Parent \notin Lane
    /\ IsFiniteSet(Lane)
    /\ MaxUnits \in Nat

VARIABLES
    status,         \* the status column of each task
    results,        \* the latest result of each required validator
    used,           \* units used of each budget
    expired,        \* tasks whose deadline has passed
    granted         \* history: reservations that returned, by task

tasks == <<status, results, used, expired, granted>>

Task == Lane \cup {Parent}
Validator == {"policy", "evidence", "schema"}
Stage == {"research", "presentation"}
TaskStatus == {"NEW", "RESEARCHING", "RESEARCH_COMPLETED", "PRESENTATION_CREATING",
               "PRESENTATION_COMPLETED", "WAITING_HUMAN", "FAILED", "DONE"}

TasksOK ==
    /\ status \in [Task -> TaskStatus]
    /\ results \in [Task -> [Validator -> {"none", "passed", "failed"}]]
    /\ used \in [Task -> Nat]
    /\ expired \subseteq Task
    /\ granted \in [Task -> Nat]

TasksInit ==
    /\ status = [t \in Task |-> "NEW"]
    /\ results = [t \in Task |-> [v \in Validator |-> "none"]]
    /\ used = [t \in Task |-> 0]
    /\ expired = {}
    /\ granted = [t \in Task |-> 0]

-----------------------------------------------------------------------------
SetStatus(t, s) == status' = [status EXCEPT ![t] = s]

RecordResult(t, v, passed) ==
    results' = [results EXCEPT ![t][v] = IF passed THEN "passed" ELSE "failed"]

(* TaskVerificationState.verified: the latest result of every required     *)
(* validator has passed.                                                   *)
Verified(t) == \A v \in Validator : results[t][v] = "passed"

(* Mutant: a lane charges its own budget only.                             *)
UnlinkedBudgets(t) == {t}

(* The rows a reservation of t is charged to in one transaction.           *)
Budgets(t) == IF t \in Lane THEN {t, Parent} ELSE {t}

BudgetActive(t) == Budgets(t) \cap expired = {}

Reserve(t) ==
    /\ BudgetActive(t)
    /\ \A b \in Budgets(t) : used[b] < MaxUnits
    /\ used' = [b \in Task |-> IF b \in Budgets(t) THEN used[b] + 1 ELSE used[b]]
    /\ granted' = [granted EXCEPT ![t] = @ + 1]

(* The deadline of a bound budget passes.                                  *)
Expire(t) ==
    /\ results[t]["policy"] # "none"
    /\ t \notin expired
    /\ expired' = expired \cup {t}
    /\ UNCHANGED <<status, results, used, granted>>

-----------------------------------------------------------------------------
(* The run of an agent: it refuses what it finds, or starts and then       *)
(* returns or raises.  Model and tool calls charge the budget meanwhile.   *)
AgentRefuses(t, stage) ==
    \E s \in {status[t]} \cup (IF stage = "research" THEN {} ELSE {"WAITING_HUMAN", "FAILED"}) :
      SetStatus(t, s)

AgentStarts(t, stage) ==
    SetStatus(t, IF stage = "research" THEN "RESEARCHING" ELSE "PRESENTATION_CREATING")

AgentReturns(t, stage) ==
    \E s \in IF stage = "research" THEN {"RESEARCH_COMPLETED", "WAITING_HUMAN"}
                                   ELSE {"PRESENTATION_COMPLETED"} :
      SetStatus(t, s)

AgentRaises(t, stage) ==
    IF stage = "research" THEN UNCHANGED status ELSE SetStatus(t, "FAILED")

(* record_research_evidence and record_presentation_validation: a result   *)
(* passes only for a completed stage, and the artifacts decide the rest.   *)
StageValidator(stage) == IF stage = "research" THEN "evidence" ELSE "schema"
StageCompleted(stage) ==
    IF stage = "research" THEN "RESEARCH_COMPLETED" ELSE "PRESENTATION_COMPLETED"

RecordStage(t, stage, passed) ==
    /\ passed => status[t] = StageCompleted(stage)
    /\ RecordResult(t, StageValidator(stage), passed)
=============================================================================
