--------------------------- MODULE WorkflowRunner ---------------------------
(***************************************************************************)
(* The V2 dispatch of a fixed chain (workflow_dispatch.py) and the runner  *)
(* it calls (workflow.py run_task): research, presentation, verdict, and   *)
(* the daily report whatever the verdict.  The dispatch record is file     *)
(* with profile "v2"; the runner's progress is in memory only.             *)
(***************************************************************************)
EXTENDS WorkflowStateMachine

AdmittedV2 == {c \in Contract : AdmitV2(c)}

PrepareV2(c) ==
    /\ call = Idle /\ file = NoFile
    /\ c \in AdmittedV2
    /\ contract' = c
    /\ Write([Prepared(c, "v2") EXCEPT !.current = NoNode])
    /\ UNCHANGED <<local, history, tasks>>

(* execute: the record is claimed under the lock, the run is outside it;   *)
(* an exception between the two leaves the record executing, see Escape.   *)
Execute ==
    /\ call = Idle /\ file.profile = "v2" /\ file.status = "prepared"
    /\ Write([file EXCEPT !.status = "executing"])
    /\ call' = [Idle EXCEPT !.at = "v2_begin", !.stage = "research"]
    /\ UNCHANGED <<contract, lane, history, tasks>>

StageNode == CHOOSE n \in contract.node : contract.role[n] = call.stage
ReportNode == CHOOSE n \in contract.node : contract.role[n] = "daily_report"

RunBegin ==
    /\ call.at = "v2_begin"
    /\ \/ RecordResult(Parent, "policy", TRUE) /\ Goto("v2_reserve")
       \/ RecordResult(Parent, "policy", FALSE) /\ Goto("v2_except")
    /\ UNCHANGED <<contract, file, lane, history, status, used, expired, granted>>

RunReserve ==
    /\ call.at = "v2_reserve"
    /\ \/ Reserve(Parent) /\ Goto("v2_agent")
       \/ Goto("v2_broken") /\ UNCHANGED <<used, granted>>
    /\ UNCHANGED <<contract, file, lane, history, status, results, expired>>

RunStart ==
    /\ call.at = "v2_agent"
    /\ Counted(StageNode)
    /\ \/ AgentStarts(Parent, call.stage) /\ Goto("v2_working")
       \/ AgentRefuses(Parent, call.stage) /\ Goto("v2_broken")
    /\ UNCHANGED <<contract, file, lane, shown, decided, crashed, escaped,
                   results, used, expired, granted>>

RunEnd ==
    /\ call.at = "v2_working"
    /\ \/ AgentReturns(Parent, call.stage) /\ Goto("v2_record")
       \/ AgentRaises(Parent, call.stage) /\ Goto("v2_broken")
    /\ UNCHANGED <<contract, file, lane, history, results, used, expired, granted>>

(* A stage that raised: its validator is recorded, and the raise goes on.  *)
RunBroken(passed) ==
    /\ call.at = "v2_broken"
    /\ RecordStage(Parent, call.stage, passed)
    /\ Goto("v2_except")
    /\ UNCHANGED <<contract, file, lane, history, status, used, expired, granted>>

RunRecord(passed) ==
    /\ call.at = "v2_record"
    /\ RecordStage(Parent, call.stage, passed)
    /\ call' = [call EXCEPT
                  !.stage = IF passed THEN "presentation" ELSE @,
                  !.at = IF ~passed THEN "v2_gate"
                         ELSE IF call.stage = "research" THEN "v2_reserve" ELSE "v2_verify"]
    /\ UNCHANGED <<contract, file, lane, history, status, used, expired, granted>>

(* The research gate leaves a task that waits for a human alone; any other *)
(* validator that did not pass fails the task.                             *)
RunGate ==
    /\ call.at = "v2_gate"
    /\ IF call.stage = "research" /\ status[Parent] = "WAITING_HUMAN"
       THEN UNCHANGED status /\ call' = [call EXCEPT !.at = "v2_daily", !.outcome = "blocked"]
       ELSE SetStatus(Parent, "FAILED")
            /\ call' = [call EXCEPT !.at = "v2_daily", !.outcome = "failed"]
    /\ UNCHANGED <<contract, file, lane, history, results, used, expired, granted>>

RunVerify ==
    /\ call.at = "v2_verify"
    /\ \/ /\ Verified(Parent) /\ BudgetActive(Parent)
          /\ SetStatus(Parent, "DONE")
          /\ call' = [call EXCEPT !.at = "v2_daily", !.outcome = "completed"]
       \/ /\ ~Verified(Parent) /\ SetStatus(Parent, "FAILED") /\ Goto("v2_except")
       \/ Goto("v2_except") /\ UNCHANGED status
    /\ UNCHANGED <<contract, file, lane, history, results, used, expired, granted>>

RunExcept ==
    /\ call.at = "v2_except"
    /\ IF status[Parent] \in {"FAILED", "WAITING_HUMAN"} THEN UNCHANGED status
       ELSE SetStatus(Parent, "FAILED")
    /\ call' = [call EXCEPT !.at = "v2_daily", !.outcome = "failed"]
    /\ UNCHANGED <<contract, file, lane, history, results, used, expired, granted>>

RunReport ==
    /\ call.at = "v2_daily"
    /\ Counted(ReportNode)
    /\ Goto("v2_end") \/ Goto("v2_unreported")
    /\ UNCHANGED <<contract, file, lane, shown, decided, crashed, escaped, tasks>>

(* A report that fails fails the task, a finished one too.                 *)
RunUnreported ==
    /\ call.at = "v2_unreported"
    /\ SetStatus(Parent, "FAILED")
    /\ call' = [call EXCEPT !.at = "v2_end", !.outcome = "failed"]
    /\ UNCHANGED <<contract, file, lane, history, results, used, expired, granted>>

FinishExecute ==
    /\ call.at = "v2_end"
    /\ Write([file EXCEPT !.status = IF call.outcome = "completed"
                                     THEN "completed" ELSE "failed"])
    /\ Return
    /\ UNCHANGED <<contract, lane, history, tasks>>

RunStep ==
    \/ RunBegin \/ RunReserve \/ RunStart \/ RunEnd
    \/ (\E passed \in BOOLEAN : RunBroken(passed) \/ RunRecord(passed))
    \/ RunGate \/ RunVerify \/ RunExcept
    \/ RunReport \/ RunUnreported \/ FinishExecute
=============================================================================
