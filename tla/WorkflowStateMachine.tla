------------------------ MODULE WorkflowStateMachine ------------------------
(***************************************************************************)
(* The workflow state machine, V4 with aggregate budgets                   *)
(* (workflow_state_machine.py; a contract without a fork runs the V3       *)
(* code it inherits).  One workflow, prepared, started and decided by      *)
(* administrators, executed inside their calls under the controller's      *)
(* lock, with two lane threads in a parallel region.                       *)
(*                                                                         *)
(* Every durable write (the state file, a status, a validator result, a    *)
(* budget row) is one step, so a crash can separate any two of them.  The  *)
(* controller works on a copy of the file that it writes back after each   *)
(* change; the copy differs from the file only inside decide_checkpoint,   *)
(* where call holds the difference.                                        *)
(***************************************************************************)
EXTENDS WorkflowGraph, TaskRuntime

CONSTANTS
    Node,           \* node ids
    Contract        \* the contracts that are submitted

ASSUME ContractAssumption ==
    /\ NoNode \notin Node
    /\ Cardinality(Lane) = 2
    /\ \A c \in Contract :
         /\ c.node \subseteq Node /\ IsFiniteSet(c.node)
         /\ c.depends \in [c.node -> SUBSET c.node]

VARIABLES
    contract,       \* the contract artifact
    file,           \* the state file (V3/V4) or dispatch record (V2)
    call,           \* the call under way, see Idle
    lane,           \* the lane threads
    shown,          \* history: approval nodes whose checkpoint was shown, with revision
    ran,            \* history: runs of each agent node
    decided,        \* history: decisions taken
    crashed,        \* history: the process died inside a call
    escaped         \* history: an exception left a call outside its handler

local == <<call, lane>>
history == <<shown, ran, decided, crashed, escaped>>
vars == <<contract, file, local, history, tasks>>

-----------------------------------------------------------------------------
NoCheckpoint == [node |-> NoNode, revision |-> 0, pending |-> FALSE, prior |-> "NEW"]
NoValidation == [source |-> "none", passed |-> FALSE]
NoFile == [profile |-> "none", status |-> "absent", revision |-> 0, current |-> NoNode,
           completed |-> {}, checkpoint |-> NoCheckpoint, last |-> NoValidation,
           bound |-> FALSE, reason |-> "none", region |-> "none"]
Prepared(c, profile) ==
    [NoFile EXCEPT !.profile = profile, !.status = "prepared", !.revision = 1,
                   !.current = CHOOSE r \in c.node : c.depends[r] = {}]

(* A call: where it is, the stage an agent runs for it, the decision it    *)
(* carries and, in V2, its outcome.                                        *)
Idle == [at |-> "idle", stage |-> "none", decision |-> "none", seen |-> NoNode,
         outcome |-> "none"]
NoThread == [at |-> "none", stage |-> "research", verified |-> FALSE]

Role(n) == contract.role[n]
Goto(at) == call' = [call EXCEPT !.at = at]
Return == call' = Idle
Raise == call' = [Idle EXCEPT !.at = "raised"]
Write(f) == file' = f

Counted(n) == ran' = [ran EXCEPT ![n] = @ + 1]

-----------------------------------------------------------------------------
(* prepare, where the contract is admitted.                                *)
Admitted == {c \in Contract : AdmitV4(c)}

Prepare(c) ==
    /\ call = Idle /\ file = NoFile
    /\ c \in Admitted
    /\ contract' = c
    /\ Write(Prepared(c, "v4"))
    /\ UNCHANGED <<local, history, tasks>>

(* Mutant: a workflow that was interrupted can be started again.           *)
PreparedOrRunning == file.status \in {"prepared", "running"}

Startable == file.status = "prepared"

(* start: only a prepared workflow, with the fingerprint of the            *)
(* preparation.                                                            *)
Start ==
    /\ call = Idle /\ file.profile = "v4" /\ Startable
    /\ Write([file EXCEPT !.status = "running", !.revision = @ + 1])
    /\ Goto("authorized")
    /\ UNCHANGED <<contract, lane, history, tasks>>

(* The activity is recorded, the contract is loaded, and the try block     *)
(* around _advance is entered; before that an exception leaves the call,   *)
(* see Escape.                                                             *)
EnterTry ==
    /\ call.at = "authorized"
    /\ Goto("advance")
    /\ UNCHANGED <<contract, file, lane, history, tasks>>

(* The calls an _advance loop makes at its current node.                   *)
At(role) == call.at = "advance" /\ file.current # NoNode /\ Role(file.current) = role

(* _next_unconditional, or nothing when it raises.                         *)
Successor(n) ==
    {m \in Children(contract, n) :
       Children(contract, n) = {m} /\ contract.cond[m] = NoCond}

(* _select_branch.                                                         *)
Branch(n, outcome) == {m \in Children(contract, n) : contract.cond[m] = outcome}

(* Mutant: the next node is recorded as completed, too.                    *)
CompletedAhead(n, next) ==
    [file EXCEPT !.completed = @ \cup {n, next}, !.current = next, !.revision = @ + 1]

(* _complete_node.                                                         *)
Completed(n, next) ==
    [file EXCEPT !.completed = @ \cup {n}, !.current = next, !.revision = @ + 1]

CompleteTo(nexts) ==
    \/ /\ \E m \in nexts : Write(Completed(file.current, m))
       /\ Goto("advance")
    \/ nexts = {} /\ Raise /\ UNCHANGED file

Pass ==
    /\ \/ At("input")
       \/ At("validation") /\ file.last # NoValidation
       \/ call.at = "complete"
    /\ CompleteTo(Successor(file.current))
    /\ UNCHANGED <<contract, lane, history, tasks>>

Decision ==
    /\ At("decision") /\ file.last # NoValidation
    /\ CompleteTo(Branch(file.current, IF file.last.passed THEN "passed" ELSE "failed"))
    /\ UNCHANGED <<contract, lane, history, tasks>>

(* _run_presentation asks for research evidence that has passed.           *)
MayPresent == file.last = [source |-> "research", passed |-> TRUE]

(* The ways into a raise that change nothing before it.                    *)
Refused ==
    /\ \/ (At("validation") \/ At("decision")) /\ file.last = NoValidation
       \/ At("presentation") /\ ~MayPresent
       \/ At("parallel_join")
       \/ At("parallel_fork") /\ file.region # "none"
       \/ call.at = "advance" /\ file.current = NoNode
    /\ Raise
    /\ UNCHANGED <<contract, file, lane, history, tasks>>

-----------------------------------------------------------------------------
(* _runtime_context: bridge.begin records the policy result, then the      *)
(* file says that the runtime is bound.                                    *)
Begins ==
    \/ At("research")
    \/ At("parallel_fork") /\ file.region = "none"
    \/ At("presentation") /\ MayPresent
StageOf(role) == IF role = "presentation" THEN "presentation" ELSE "research"

Begin ==
    /\ Begins /\ ~file.bound
    /\ \/ RecordResult(Parent, "policy", TRUE) /\ Goto("bound")
       \/ RecordResult(Parent, "policy", FALSE) /\ Raise
    /\ UNCHANGED <<contract, file, lane, history, status, used, expired, granted>>

WriteBound ==
    /\ call.at = "bound"
    /\ Write([file EXCEPT !.bound = TRUE])
    /\ Goto("advance")
    /\ UNCHANGED <<contract, lane, history, tasks>>

(* budget.reserve for an agent node or for the region; a budget that is    *)
(* used up or over, or a database that stays locked, raises.               *)
ReserveNode ==
    /\ Begins /\ file.bound
    /\ \/ /\ Reserve(Parent)
          /\ call' = [call EXCEPT !.at = IF At("parallel_fork") THEN "region" ELSE "agent",
                                  !.stage = StageOf(Role(file.current))]
       \/ Raise /\ UNCHANGED <<used, granted>>
    /\ UNCHANGED <<contract, file, lane, history, status, results, expired>>

StartAgent ==
    /\ call.at = "agent"
    /\ Counted(file.current)
    /\ \/ AgentStarts(Parent, call.stage) /\ Goto("working")
       \/ AgentRefuses(Parent, call.stage) /\ Raise
    /\ UNCHANGED <<contract, file, lane, shown, decided, crashed, escaped,
                   results, used, expired, granted>>

EndAgent ==
    /\ call.at = "working"
    /\ \/ AgentReturns(Parent, call.stage) /\ Goto("record")
       \/ AgentRaises(Parent, call.stage) /\ Raise
    /\ UNCHANGED <<contract, file, lane, history, results, used, expired, granted>>

RecordNode(passed) ==
    /\ call.at = "record"
    /\ RecordStage(Parent, call.stage, passed)
    /\ Goto(IF passed THEN "passed" ELSE "failed")
    /\ UNCHANGED <<contract, file, lane, history, status, used, expired, granted>>

WriteLast ==
    /\ call.at \in {"passed", "failed"}
    /\ Write([file EXCEPT !.last = [source |-> call.stage, passed |-> call.at = "passed"]])
    /\ Goto("complete")
    /\ UNCHANGED <<contract, lane, history, tasks>>

(* _run_daily_report, which no budget bounds.                              *)
RunDaily ==
    /\ At("daily_report")
    /\ Counted(file.current)
    /\ Goto("complete") \/ Raise
    /\ UNCHANGED <<contract, file, lane, shown, decided, crashed, escaped, tasks>>

-----------------------------------------------------------------------------
(* Mutant: the status to restore is not the one of the task.               *)
PriorForgotten == "NEW"

PriorStatus == status[Parent]

(* _pause_for_approval: the file first, the task status second.            *)
Pause ==
    /\ At("approval")
    /\ Write([file EXCEPT !.status = "paused", !.revision = @ + 1,
                !.checkpoint = [node |-> file.current, revision |-> file.revision + 1,
                                pending |-> TRUE, prior |-> PriorStatus]])
    /\ Goto("pausing")
    /\ UNCHANGED <<contract, lane, history, tasks>>

Wait ==
    /\ call.at = "pausing"
    /\ SetStatus(Parent, "WAITING_HUMAN")
    /\ Return
    /\ UNCHANGED <<contract, file, lane, history, results, used, expired, granted>>

(* status: an administrator reads the pending checkpoint.                  *)
Fingerprint == [node |-> file.checkpoint.node, revision |-> file.checkpoint.revision]

Show ==
    /\ file.status = "paused" /\ Fingerprint \notin shown
    /\ shown' = shown \cup {Fingerprint}
    /\ UNCHANGED <<contract, file, local, ran, decided, crashed, escaped, tasks>>

(* Mutant: the fingerprint leaves out the checkpoint it belongs to.        *)
AnyFingerprint(fp) == TRUE

FingerprintMatches(fp) == fp = Fingerprint

(* decide_checkpoint with a fingerprint that was shown at some time: the   *)
(* prior task status is restored before the decision is written.           *)
Decide(fp, decision) ==
    /\ call = Idle
    /\ file.profile = "v4" /\ file.status = "paused" /\ file.checkpoint.pending
    /\ FingerprintMatches(fp)
    /\ decision = "approved" => Branch(file.checkpoint.node, "approved") # {}
    /\ SetStatus(Parent, file.checkpoint.prior)
    /\ call' = [Idle EXCEPT !.at = "deciding", !.decision = decision, !.seen = fp.node]
    /\ UNCHANGED <<contract, file, lane, history, results, used, expired, granted>>

(* Mutant: a rejection leaves no terminal reason.                          *)
ReasonKept == file.reason

DecisionReason == IF call.decision = "rejected" THEN "approval_rejected" ELSE file.reason

WriteDecision ==
    LET n == file.checkpoint.node
        targets == Branch(n, call.decision)
        consumed == [Completed(n, NoNode) EXCEPT
                       !.checkpoint.pending = FALSE,
                       !.reason = DecisionReason]
    IN
    /\ call.at = "deciding"
    /\ decided' = decided \cup {[node |-> n, revision |-> file.checkpoint.revision,
                                 seen |-> call.seen, decision |-> call.decision]}
    /\ \/ /\ targets = {}
          /\ Write([consumed EXCEPT !.status = "rejected"])
          /\ Return
       \/ /\ \E m \in targets :
               Write([consumed EXCEPT !.status = "running", !.current = m])
          /\ call' = [Idle EXCEPT !.at = "authorized"]
    /\ UNCHANGED <<contract, lane, shown, ran, crashed, escaped, tasks>>

-----------------------------------------------------------------------------
(* _run_parallel_region: starting is written, the lane tasks are created,  *)
(* running is written and both threads are started.                        *)
StartRegion ==
    /\ call.at = "region"
    /\ Write([file EXCEPT !.region = "starting"])
    /\ Goto("spawn")
    /\ UNCHANGED <<contract, lane, history, tasks>>

SpawnLanes ==
    /\ call.at = "spawn"
    /\ Write([file EXCEPT !.region = "running"])
    /\ lane' = [l \in Lane |-> [NoThread EXCEPT !.at = "begin"]]
    /\ Goto("lanes")
    /\ UNCHANGED <<contract, history, tasks>>

(* The node of lane l in a stage: lanes are the forks children in order.   *)
LaneResearch == CHOOSE f \in [Lane -> Children(contract, Fork(contract))] :
                  \A l, k \in Lane : f[l] = f[k] => l = k
LaneNode(l) ==
    IF lane[l].stage = "research" THEN LaneResearch[l]
    ELSE CHOOSE p \in Children(contract, LaneResearch[l]) : TRUE

LaneGoto(l, at) == lane' = [lane EXCEPT ![l].at = at]

(* _child_runtime: bridge.begin of the lane task, outside the try block.   *)
LaneBegin(l) ==
    /\ lane[l].at = "begin"
    /\ \/ RecordResult(l, "policy", TRUE) /\ LaneGoto(l, "reserve")
       \/ RecordResult(l, "policy", FALSE) /\ LaneGoto(l, "raised")
    /\ UNCHANGED <<contract, file, call, history, status, used, expired, granted>>

LaneReserve(l) ==
    /\ lane[l].at = "reserve"
    /\ \/ Reserve(l) /\ LaneGoto(l, "agent")
       \/ LaneGoto(l, "except") /\ UNCHANGED <<used, granted>>
    /\ UNCHANGED <<contract, file, call, history, status, results, expired>>

LaneStartAgent(l) ==
    /\ lane[l].at = "agent"
    /\ Counted(LaneNode(l))
    /\ \/ AgentStarts(l, lane[l].stage) /\ LaneGoto(l, "working")
       \/ AgentRefuses(l, lane[l].stage) /\ LaneGoto(l, "except")
    /\ UNCHANGED <<contract, file, call, shown, decided, crashed, escaped,
                   results, used, expired, granted>>

LaneEndAgent(l) ==
    /\ lane[l].at = "working"
    /\ \/ AgentReturns(l, lane[l].stage) /\ LaneGoto(l, "record")
       \/ AgentRaises(l, lane[l].stage) /\ LaneGoto(l, "except")
    /\ UNCHANGED <<contract, file, call, history, results, used, expired, granted>>

(* The evidence decides whether the lane goes on to its presentation.      *)
LaneRecord(l, passed) ==
    /\ lane[l].at = "record"
    /\ RecordStage(l, lane[l].stage, passed)
    /\ lane' = [lane EXCEPT ![l].stage = "presentation",
                  ![l].at = IF ~passed THEN "except"
                            ELSE IF lane[l].stage = "research" THEN "reserve" ELSE "verify"]
    /\ UNCHANGED <<contract, file, call, history, status, used, expired, granted>>

LaneVerify(l) ==
    /\ lane[l].at = "verify"
    /\ SetStatus(l, IF Verified(l) THEN "DONE" ELSE "FAILED")
    /\ lane' = [lane EXCEPT ![l].at = "ended", ![l].verified = Verified(l)]
    /\ UNCHANGED <<contract, file, call, history, results, used, expired, granted>>

(* A failed stage or an exception inside the try block.                    *)
LaneFail(l) ==
    /\ lane[l].at = "except"
    /\ SetStatus(l, "FAILED")
    /\ LaneGoto(l, "ended")
    /\ UNCHANGED <<contract, file, call, history, results, used, expired, granted>>

LaneStep(l) ==
    \/ LaneBegin(l) \/ LaneReserve(l) \/ LaneStartAgent(l) \/ LaneEndAgent(l)
    \/ (\E passed \in BOOLEAN : LaneRecord(l, passed))
    \/ LaneVerify(l) \/ LaneFail(l)

-----------------------------------------------------------------------------
AllVerified == \A l \in Lane : lane[l].verified

(* Mutant: a lane whose thread raised is waited for.                       *)
LaneReturned(l) == lane[l].at = "ended"

LaneOver(l) == lane[l].at \in {"ended", "raised"}

(* The pool is left when both threads have ended; a lane that raised       *)
(* raises here.  Then the aggregate results are recorded, one by one.      *)
LanesEnd ==
    /\ call.at = "lanes"
    /\ \A l \in Lane : LaneOver(l)
    /\ IF \E l \in Lane : lane[l].at = "raised" THEN Raise ELSE Goto("join_evidence")
    /\ UNCHANGED <<contract, file, lane, history, tasks>>

RecordAggregate ==
    /\ \/ /\ call.at = "join_evidence"
          /\ RecordResult(Parent, "evidence", AllVerified) /\ Goto("join_schema")
       \/ /\ call.at = "join_schema"
          /\ RecordResult(Parent, "schema", AllVerified) /\ Goto("joined")
    /\ UNCHANGED <<contract, file, lane, history, status, used, expired, granted>>

WriteRegion ==
    /\ call.at = "joined"
    /\ Write([file EXCEPT !.region = "completed",
                !.last = [source |-> "parallel_branches", passed |-> AllVerified]])
    /\ Goto("leave")
    /\ UNCHANGED <<contract, lane, history, tasks>>

LaneNodes == UNION {{r} \cup Children(contract, r) : r \in Children(contract, Fork(contract))}

(* _complete_parallel_region: the whole region is completed in one write.  *)
LeaveRegion ==
    LET join == Join(contract) IN
    /\ call.at = "leave"
    /\ \/ /\ \E m \in Successor(join) :
               Write([Completed(join, m) EXCEPT !.completed =
                        @ \cup {Fork(contract)} \cup LaneNodes])
          /\ Goto("advance")
       \/ Successor(join) = {} /\ Raise /\ UNCHANGED file
    /\ lane' = [l \in Lane |-> NoThread]
    /\ UNCHANGED <<contract, history, tasks>>

-----------------------------------------------------------------------------
(* _finish_output.                                                         *)
Output ==
    /\ At("output")
    /\ Write(Completed(file.current, NoNode))
    /\ Goto("finish")
    /\ UNCHANGED <<contract, lane, history, tasks>>

FinishRejected ==
    /\ call.at = "finish" /\ file.reason = "approval_rejected"
    /\ Write([file EXCEPT !.status = "rejected"])
    /\ Return
    /\ UNCHANGED <<contract, lane, history, tasks>>

VerdictPassed == file.last.passed /\ Verified(Parent)

FinishBlocked ==
    /\ call.at = "finish" /\ file.reason # "approval_rejected"
    /\ ~VerdictPassed
    /\ file.last.passed => BudgetActive(Parent)
    /\ Write([file EXCEPT !.status = "blocked",
                !.reason = IF file.last.passed THEN "required_validator_missing"
                                               ELSE "validation_failed"])
    /\ Goto("blocked")
    /\ UNCHANGED <<contract, lane, history, tasks>>

(* DONE in the store, then completed in the file; the budget must still be *)
(* active, and a read of it can raise.                                     *)
FinishDone ==
    /\ call.at = "finish" /\ file.reason # "approval_rejected"
    /\ file.last.passed
    /\ \/ VerdictPassed /\ BudgetActive(Parent)
          /\ SetStatus(Parent, "DONE") /\ Goto("done")
       \/ Raise /\ UNCHANGED status
    /\ UNCHANGED <<contract, file, lane, history, results, used, expired, granted>>

WriteCompleted ==
    /\ call.at = "done"
    /\ Write([file EXCEPT !.status = "completed", !.reason = "verified"])
    /\ Return
    /\ UNCHANGED <<contract, lane, history, tasks>>

MarkBlocked ==
    /\ call.at = "blocked"
    /\ SetStatus(Parent, "FAILED")
    /\ Return
    /\ UNCHANGED <<contract, file, lane, history, results, used, expired, granted>>

(* _mark_runtime_failure: the file, then the status unless it is FAILED or *)
(* WAITING_HUMAN.                                                          *)
MarkFailure ==
    /\ call.at = "raised"
    /\ Write([file EXCEPT !.status = "failed", !.reason = "runtime_exception"])
    /\ Goto("failing")
    /\ lane' = [l \in Lane |-> NoThread]
    /\ UNCHANGED <<contract, history, tasks>>

MarkFailed ==
    /\ call.at = "failing"
    /\ IF status[Parent] \in {"FAILED", "WAITING_HUMAN"} THEN UNCHANGED status
       ELSE SetStatus(Parent, "FAILED")
    /\ Return
    /\ UNCHANGED <<contract, file, lane, history, results, used, expired, granted>>

-----------------------------------------------------------------------------
(* A model or tool call of a running agent charges the budget.             *)
Charge(t) ==
    /\ \/ t = Parent /\ call.at \in {"working", "v2_working"}
       \/ t \in Lane /\ lane[t].at = "working"
    /\ Reserve(t)
    /\ UNCHANGED <<contract, file, local, history, status, results, expired>>

TimePasses(t) == Expire(t) /\ UNCHANGED <<contract, file, local, history>>

(* The process dies: the call and the lane threads are gone.               *)
Crash ==
    /\ call # Idle
    /\ Return
    /\ lane' = [l \in Lane |-> NoThread]
    /\ crashed' = TRUE
    /\ UNCHANGED <<contract, file, shown, ran, decided, escaped, tasks>>

(* An exception that no handler turns into a state of the file: before the *)
(* try block of start, decide_checkpoint and execute, inside               *)
(* _mark_runtime_failure, and where execute writes its last record.        *)
Unhandled == {"authorized", "raised", "v2_begin", "v2_end"}

Escape ==
    /\ call.at \in Unhandled
    /\ Return
    /\ lane' = [l \in Lane |-> NoThread]
    /\ escaped' = TRUE
    /\ UNCHANGED <<contract, file, shown, ran, decided, crashed, tasks>>

(* What the lock holder does inside start and decide_checkpoint.           *)
CallStep ==
    \/ EnterTry \/ Pass \/ Decision \/ Refused \/ Begin \/ WriteBound \/ ReserveNode
    \/ StartAgent \/ EndAgent \/ (\E passed \in BOOLEAN : RecordNode(passed))
    \/ WriteLast \/ RunDaily \/ Pause \/ Wait \/ WriteDecision
    \/ StartRegion \/ SpawnLanes \/ LanesEnd \/ RecordAggregate
    \/ WriteRegion \/ LeaveRegion
    \/ Output \/ FinishRejected \/ FinishBlocked \/ FinishDone
    \/ WriteCompleted \/ MarkBlocked \/ MarkFailure \/ MarkFailed
=============================================================================
