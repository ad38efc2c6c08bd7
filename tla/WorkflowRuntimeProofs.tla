------------------------ MODULE WorkflowRuntimeProofs ------------------------
(***************************************************************************)
(* Proofs about WorkflowRuntime, for any contracts, nodes and budgets.     *)
(***************************************************************************)
EXTENDS WorkflowRuntime, WorkflowGraphProofs

(* Where a call of the state machine, of the V2 runner and of a lane is.   *)
CallAt4 == {"authorized", "advance", "bound", "agent", "working", "record", "passed", "failed",
            "complete", "region", "spawn", "lanes", "join_evidence", "join_schema",
            "joined", "leave", "finish", "done", "raised"}
AtAgent == {"agent", "working", "record", "passed", "failed"}
InRegion == {"region", "spawn", "lanes", "join_evidence", "join_schema", "joined", "leave"}
CallAt2 == {"v2_begin", "v2_reserve", "v2_agent", "v2_working", "v2_record", "v2_broken",
            "v2_gate", "v2_verify", "v2_except", "v2_daily", "v2_end", "v2_unreported"}
LaneWorks == {"begin", "reserve", "agent", "working", "record", "verify", "except"}

(* The values of the records.  The module types what the model leaves      *)
(* untyped: the file, the call and the threads.                            *)
Place == Node \cup {NoNode}
CheckpointRecord == [node : Place, revision : Nat, pending : BOOLEAN, prior : TaskStatus]
Profile == {"none", "v2", "v4"}
FileStatus == {"absent", "prepared", "executing", "running", "paused",
               "completed", "rejected", "blocked", "failed"}
ValidationRecord ==
    [source : {"none", "research", "presentation", "parallel_branches"}, passed : BOOLEAN]
Reason == {"none", "approval_rejected", "required_validator_missing",
           "validation_failed", "verified", "runtime_exception"}
Region == {"none", "starting", "running", "completed"}
FileRecord ==
    [profile : Profile, status : FileStatus, revision : Nat, current : Place,
     completed : SUBSET Place, checkpoint : CheckpointRecord, last : ValidationRecord,
     bound : BOOLEAN, reason : Reason, region : Region]
CallRecord ==
    [at : CallAt4 \cup CallAt2 \cup {"idle", "pausing", "deciding", "blocked", "failing"},
     stage : {"none", "research", "presentation"},
     decision : {"none", "approved", "rejected"}, seen : Place,
     outcome : {"none", "blocked", "failed", "completed"}]
ThreadRecord ==
    [at : {"none", "ended", "raised"} \cup LaneWorks, stage : Stage, verified : BOOLEAN]
RecordsOK ==
    /\ TasksOK
    /\ file \in FileRecord
    /\ call \in CallRecord
    /\ lane \in [Lane -> ThreadRecord]
    /\ ran \in [Node -> Nat]
    /\ crashed \in BOOLEAN /\ escaped \in BOOLEAN

(* Where a V2 call is, and what its record can say.                        *)
V2Control ==
    /\ contract \in AdmittedV2
    /\ file.status \in {"prepared", "executing", "completed", "failed"}
    /\ call.at \in CallAt2 \cup {"idle"}
    /\ call.at \in CallAt2 => file.status = "executing" /\ call.stage \in Stage
    /\ file.current = NoNode /\ file.completed = {} /\ decided = {}
    /\ file.checkpoint = NoCheckpoint /\ file.reason = "none"

(* The status of the file follows the call: it is running while a call     *)
(* works, and what a call that has ended left.                             *)
V4Status ==
    /\ file.status \notin {"absent", "executing"}
    /\ call.at \notin CallAt2
    /\ call.at \in CallAt4 => file.status = "running"
    /\ call.at \in {"pausing", "deciding"} => file.status = "paused"
    /\ call.at = "blocked" => file.status = "blocked"
    /\ call.at = "failing" => file.status = "failed"

(* The role of the current node at each place of a call, and the region.   *)
V4Place ==
    /\ call.at \in AtAgent => file.current # NoNode /\ Role(file.current) \in Stage
    /\ call.at = "complete" =>
         /\ file.current # NoNode
         /\ Role(file.current) \in {"research", "presentation", "daily_report"}
    /\ call.at \in InRegion =>
         file.current # NoNode /\ Role(file.current) = "parallel_fork"
    /\ call.at \in {"finish", "done", "blocked"} => file.current = NoNode
    /\ call.at = "region" => file.region = "none"
    /\ call.at = "spawn" => file.region = "starting"
    /\ call.at \in {"lanes", "join_evidence", "join_schema", "joined"} =>
         file.region = "running"

(* A paused file waits at an approval with a pending checkpoint.           *)
V4Checkpoint ==
    /\ file.status = "paused" =>
         /\ file.current # NoNode /\ Role(file.current) = "approval"
         /\ file.checkpoint.pending /\ file.checkpoint.node = file.current
    /\ file.checkpoint.node \in contract.node \cup {NoNode}
    /\ call.at = "deciding" =>
         call.seen = file.checkpoint.node /\ call.decision # "none"

(* Where calls and files can be together.                                  *)
ControlInv ==
    /\ file.profile = "none" => /\ file = NoFile /\ call = Idle /\ decided = {}
                                /\ \A n \in Node : ran[n] = 0
    /\ file.profile = "v2" => V2Control
    /\ file.profile = "v4" =>
         contract \in Admitted /\ V4Status /\ V4Place /\ V4Checkpoint

Visited == file.completed \cup ({file.current} \ {NoNode})

(* The nodes visited so far are closed under parents, no decided approval  *)
(* has a child on another branch, and the region is entered as a whole.    *)
EdgeInv ==
    file.profile = "v4" =>
      /\ Visited \subseteq contract.node
      /\ file.current \notin file.completed
      /\ \A n \in Visited : contract.depends[n] \subseteq file.completed
      /\ \A d \in decided : d.node \in file.completed /\ Role(d.node) = "approval"
      /\ \A d \in decided, n \in Visited :
           d.node \in contract.depends[n] => contract.cond[n] = d.decision
      /\ IsParallel(contract) =>
           /\ file.current \notin LaneNodes \cup {Join(contract)}
           /\ Fork(contract) \notin file.completed =>
                file.completed \cap (LaneNodes \cup {Join(contract)}) = {}

(* Decisions are informed and final.                                       *)
DecisionInv ==
    /\ \A d \in decided : d.seen = d.node
    /\ \A d1, d2 \in decided : d1.node = d2.node => d1 = d2

(* Only nodes that were visited, or are in a lane, have run.               *)
RanVisited ==
    \A n \in Node :
      ran[n] > 0 => n \in Visited \/ (IsParallel(contract) /\ n \in LaneNodes)

(* The current node has not run before its agent is started.               *)
Fresh == call.at \in {"authorized", "advance", "bound", "agent"} \/ file.status \in {"paused", "prepared"}

CurrentFresh == file.current # NoNode /\ Fresh => ran[file.current] = 0

(* No lane node runs before its thread starts its agent.                   *)
LanesFresh ==
    IsParallel(contract) =>
      /\ file.region \in {"none", "starting"} => \A n \in LaneNodes : ran[n] = 0
      /\ \A l \in Lane :
           /\ lane[l].at = "begin" => lane[l].stage = "research"
           /\ lane[l].at \in {"begin", "reserve", "agent"} => ran[LaneNode(l)] = 0
           /\ lane[l].at \in LaneWorks \ {"except"} /\ lane[l].stage = "research" =>
                ran[LanePresentation(l)] = 0

RanInv ==
    file.profile = "v4" =>
      /\ RanVisited /\ CurrentFresh /\ LanesFresh
      /\ \A n \in Node : ran[n] <= 1

LaneSpan == {"lanes", "join_evidence", "join_schema", "joined", "leave", "raised"}

(* Threads live inside a call in its region; a verified lane is DONE.      *)
LaneInv ==
    \A l \in Lane :
      /\ lane[l].at # "none" => file.profile = "v4" /\ call.at \in LaneSpan
      /\ lane[l].at \in LaneWorks => call.at = "lanes"
      /\ lane[l].verified => lane[l].at = "ended" /\ status[l] = "DONE" /\ Verified(l)

(* A passed validation of a parallel contract is that of its verified      *)
(* lanes, and nothing behind the join is visited without one.              *)
JoinPassed ==
    file.last.passed =>
      file.region = "completed" /\ \A l \in Lane : status[l] = "DONE" /\ Verified(l)

BehindJoin ==
    {m \in contract.node :
       contract.cond[m] = "passed" /\ contract.depends[m] \cap Children(contract, Join(contract)) # {}}

JoinInv ==
    file.profile = "v4" /\ IsParallel(contract) =>
      /\ JoinPassed
      /\ Visited \cap BehindJoin # {} => file.last.passed

(* Where a DONE task can be, and what that says.                           *)
DoneStates ==
    status[Parent] = "DONE" =>
      /\ call.at \in {"done", "idle", "v2_daily", "v2_end", "v2_unreported"}
      /\ call.at \in {"v2_daily", "v2_end", "v2_unreported"} => call.outcome = "completed"
      /\ Verified(Parent)
      /\ file.status \in {"running", "executing", "completed"}
      /\ file.reason # "approval_rejected"

DoneCalls ==
    /\ call.at = "done" => status[Parent] = "DONE"
    /\ call.at \in {"v2_daily", "v2_end", "v2_unreported"} /\ call.outcome = "completed" =>
         status[Parent] = "DONE"
    /\ file.status = "completed" => status[Parent] = "DONE"

(* Completed approvals were approved, or the workflow is on its way to     *)
(* rejected.                                                               *)
ApprovalsKept ==
    file.status # "failed" =>
      \A n \in file.completed :
        Role(n) = "approval" => n \in Approved \/ file.reason = "approval_rejected"

DoneInv == DoneStates /\ DoneCalls /\ ApprovalsKept

(* The status of a paused task waits or is the one to restore.             *)
PauseInv ==
    file.status = "paused" =>
      status[Parent] \in {"WAITING_HUMAN", file.checkpoint.prior} /\ file.checkpoint.prior # "DONE"

(* The V2 runner starts each stage once, and the report once.              *)
Ran2Inv ==
    file.profile = "v2" =>
      /\ \A n \in Node : ran[n] <= 1
      /\ file.status = "prepared" => \A n \in Node : ran[n] = 0
      /\ call.at \in {"v2_begin", "v2_reserve", "v2_agent"} => ran[StageNode] = 0
      /\ call.at \in CallAt2 /\ call.stage = "research" => ran[NodeFor(contract, "presentation")] = 0
      /\ call.at \in CallAt2 \ {"v2_end", "v2_unreported"} => ran[ReportNode] = 0
-----------------------------------------------------------------------------
(* Types.                                                                  *)

LEMMA ParentIsTask == Parent \in Task /\ Lane \subseteq Task /\ Parent \notin Lane
  BY TaskAssumption DEF Task

LEMMA ResultTyped ==
  ASSUME TasksOK, NEW t \in Task, NEW v \in Validator, NEW passed, RecordResult(t, v, passed)
  PROVE  results' \in [Task -> [Validator -> {"none", "passed", "failed"}]]
  BY DEF TasksOK, RecordResult

LEMMA StatusTyped ==
  ASSUME TasksOK, NEW t \in Task, NEW s \in TaskStatus, SetStatus(t, s)
  PROVE  status' \in [Task -> TaskStatus]
  BY DEF TasksOK, SetStatus

LEMMA ReserveTyped ==
  ASSUME TasksOK, NEW t \in Task, Reserve(t)
  PROVE  used' \in [Task -> Nat] /\ granted' \in [Task -> Nat]
  BY DEF TasksOK, Reserve

LEMMA AgentTyped ==
  ASSUME TasksOK, NEW t \in Task, NEW stage,
         \/ AgentStarts(t, stage) \/ AgentRefuses(t, stage)
         \/ AgentReturns(t, stage) \/ AgentRaises(t, stage)
  PROVE  status' \in [Task -> TaskStatus]
<1>1. \/ UNCHANGED status
      \/ \E s \in TaskStatus : SetStatus(t, s)
  BY DEF AgentStarts, AgentRefuses, AgentReturns, AgentRaises, TasksOK, TaskStatus
<1> QED BY <1>1, StatusTyped DEF TasksOK

LEMMA StageTyped ==
  ASSUME TasksOK, NEW t \in Task, NEW stage, NEW passed, RecordStage(t, stage, passed)
  PROVE  results' \in [Task -> [Validator -> {"none", "passed", "failed"}]]
<1>1. StageValidator(stage) \in Validator
  BY DEF StageValidator, Validator
<1> QED BY <1>1, ResultTyped DEF RecordStage

(* What a step may do to the task store.                                   *)
StatusStep == UNCHANGED status \/ status' \in [Task -> TaskStatus]
ResultsStep == UNCHANGED results \/ results' \in [Task -> [Validator -> {"none", "passed", "failed"}]]
BudgetStep == UNCHANGED <<used, granted>> \/ \E t \in Task : Reserve(t)
ExpiredStep == UNCHANGED expired \/ \E t \in Task : expired' = expired \cup {t}

LEMMA TasksStepOK ==
  ASSUME TasksOK, StatusStep, ResultsStep, BudgetStep, ExpiredStep
  PROVE  TasksOK'
<1>1. used' \in [Task -> Nat] /\ granted' \in [Task -> Nat]
  BY ReserveTyped DEF BudgetStep, TasksOK
<1> QED BY <1>1 DEF TasksOK, StatusStep, ResultsStep, ExpiredStep

LEMMA StepTasks ==
  ASSUME RecordsOK, [Next]_vars
  PROVE  TasksOK'
<1> USE ParentIsTask
<1> USE DEF StatusStep, ResultsStep, BudgetStep, ExpiredStep
<1>0. TasksOK /\ status[Parent] \in TaskStatus /\ file.checkpoint.prior \in TaskStatus
  BY DEF RecordsOK, TasksOK, FileRecord, CheckpointRecord
<1>1. ASSUME UNCHANGED tasks PROVE TasksOK'
  BY <1>0, <1>1 DEF tasks, TasksOK
<1>2. ASSUME NEW t \in Task, NEW v \in Validator, NEW passed, RecordResult(t, v, passed),
             UNCHANGED <<status, used, expired, granted>>
      PROVE  TasksOK'
  BY <1>0, <1>2, ResultTyped, TasksStepOK
<1>3. ASSUME NEW t \in Task, NEW s \in TaskStatus, SetStatus(t, s),
             UNCHANGED <<results, used, expired, granted>>
      PROVE  TasksOK'
  BY <1>0, <1>3, StatusTyped, TasksStepOK
<1>4. ASSUME NEW t \in Task, Reserve(t), UNCHANGED <<status, results, expired>>
      PROVE  TasksOK'
  BY <1>0, <1>4, TasksStepOK
<1>5. ASSUME NEW t \in Task, NEW stage, NEW passed, RecordStage(t, stage, passed),
             UNCHANGED <<status, used, expired, granted>>
      PROVE  TasksOK'
  BY <1>0, <1>5, StageTyped, TasksStepOK
<1>6. ASSUME NEW t \in Task, NEW stage,
             \/ AgentStarts(t, stage) \/ AgentRefuses(t, stage)
             \/ AgentReturns(t, stage) \/ AgentRaises(t, stage),
             UNCHANGED <<results, used, expired, granted>>
      PROVE  TasksOK'
  BY <1>0, <1>6, AgentTyped, TasksStepOK
<1>7. \A v \in {"policy", "evidence", "schema"} : v \in Validator
  BY DEF Validator
<1>8. {"FAILED", "DONE", "WAITING_HUMAN"} \subseteq TaskStatus
  BY DEF TaskStatus
<1>20. ASSUME CallStep PROVE TasksOK'
  <2>1. CASE Begin
    BY <1>2, <1>7, <2>1 DEF Begin
  <2>2. CASE ReserveNode
    BY <1>1, <1>4, <2>2 DEF ReserveNode, tasks
  <2>3. CASE StartAgent \/ EndAgent
    BY <1>6, <2>3 DEF StartAgent, EndAgent
  <2>4. ASSUME NEW passed \in BOOLEAN, RecordNode(passed) PROVE TasksOK'
    BY <1>5, <2>4 DEF RecordNode
  <2>5. CASE Wait \/ MarkBlocked \/ FinishDone \/ MarkFailed
    BY <1>1, <1>3, <1>8, <2>5 DEF Wait, MarkBlocked, FinishDone, MarkFailed, tasks
  <2>6. CASE RecordAggregate
    BY <1>2, <1>7, <2>6 DEF RecordAggregate
  <2>7. CASE \/ Pass \/ Decision \/ EnterTry \/ Refused \/ WriteBound \/ WriteLast \/ RunDaily \/ Pause
             \/ WriteDecision \/ StartRegion \/ SpawnLanes \/ LanesEnd \/ WriteRegion
             \/ LeaveRegion \/ Output \/ FinishRejected \/ FinishBlocked \/ WriteCompleted
             \/ MarkFailure
    BY <1>1, <2>7 DEF Pass, Decision, EnterTry, Refused, WriteBound, WriteLast, RunDaily, Pause,
      WriteDecision, StartRegion, SpawnLanes, LanesEnd, WriteRegion, LeaveRegion, Output,
      FinishRejected, FinishBlocked, WriteCompleted, MarkFailure
  <2> QED BY <1>20, <2>1, <2>2, <2>3, <2>4, <2>5, <2>6, <2>7 DEF CallStep
<1>21. ASSUME RunStep PROVE TasksOK'
  <2>1. CASE RunBegin
    BY <1>2, <1>7, <2>1 DEF RunBegin
  <2>2. CASE RunReserve
    BY <1>1, <1>4, <2>2 DEF RunReserve, tasks
  <2>3. CASE RunStart \/ RunEnd
    BY <1>6, <2>3 DEF RunStart, RunEnd
  <2>4. ASSUME NEW passed \in BOOLEAN, RunBroken(passed) \/ RunRecord(passed) PROVE TasksOK'
    BY <1>5, <2>4 DEF RunBroken, RunRecord
  <2>5. CASE RunGate \/ RunVerify \/ RunExcept \/ RunUnreported
    BY <1>1, <1>3, <1>8, <2>5 DEF RunGate, RunVerify, RunExcept, RunUnreported, tasks
  <2>6. CASE RunReport \/ FinishExecute
    BY <1>1, <2>6 DEF RunReport, FinishExecute
  <2> QED BY <1>21, <2>1, <2>2, <2>3, <2>4, <2>5, <2>6 DEF RunStep
<1>22. ASSUME NEW l \in Lane, LaneStep(l) PROVE TasksOK'
  <2>1. CASE LaneBegin(l)
    BY <1>2, <1>7, <2>1 DEF LaneBegin
  <2>2. CASE LaneReserve(l)
    BY <1>1, <1>4, <2>2 DEF LaneReserve, tasks
  <2>3. CASE LaneStartAgent(l) \/ LaneEndAgent(l)
    BY <1>6, <2>3 DEF LaneStartAgent, LaneEndAgent
  <2>4. ASSUME NEW passed \in BOOLEAN, LaneRecord(l, passed) PROVE TasksOK'
    BY <1>5, <2>4 DEF LaneRecord
  <2>5. CASE LaneVerify(l) \/ LaneFail(l)
    BY <1>3, <1>8, <2>5 DEF LaneVerify, LaneFail
  <2> QED BY <1>22, <2>1, <2>2, <2>3, <2>4, <2>5 DEF LaneStep
<1>23. ASSUME NEW t \in Task, Charge(t) \/ TimePasses(t) PROVE TasksOK'
  BY <1>0, <1>4, <1>23, TasksStepOK DEF Charge, TimePasses, Expire
<1>24. ASSUME NEW fp \in shown, NEW d \in {"approved", "rejected"}, Decide(fp, d) PROVE TasksOK'
  BY <1>0, <1>3, <1>24 DEF Decide
<1>25. ASSUME NEW c \in Contract, Prepare(c) \/ PrepareV2(c) PROVE TasksOK'
  BY <1>1, <1>25 DEF Prepare, PrepareV2
<1>26. ASSUME Start \/ Execute \/ Show \/ Crash \/ Escape \/ UNCHANGED vars PROVE TasksOK'
  BY <1>1, <1>26 DEF Start, Execute, Show, Crash, Escape, vars
<1> QED BY <1>20, <1>21, <1>22, <1>23, <1>24, <1>25, <1>26 DEF Next

LEMMA StepCall ==
  ASSUME RecordsOK, [Next]_vars
  PROVE  call' \in CallRecord
<1> USE DEF CallAt4, CallAt2
<1>0. call \in CallRecord
  BY DEF RecordsOK
<1>1. ASSUME UNCHANGED call PROVE call' \in CallRecord
  BY <1>0, <1>1
<1>2. ASSUME NEW at \in CallAt4 \cup CallAt2 \cup {"idle", "pausing", "deciding", "blocked", "failing"},
             Goto(at)
      PROVE  call' \in CallRecord
  BY <1>0, <1>2 DEF Goto, CallRecord
<1>3. ASSUME Return \/ Raise PROVE call' \in CallRecord
  BY <1>3 DEF Return, Raise, Idle, CallRecord, Place
<1>4. ASSUME NEW outcome \in {"blocked", "failed", "completed"}, NEW at \in CallAt2,
             call' = [call EXCEPT !.at = at, !.outcome = outcome]
      PROVE  call' \in CallRecord
  BY <1>0, <1>4 DEF CallRecord
<1>20. ASSUME CallStep PROVE call' \in CallRecord
  <2>1. CASE ReserveNode
    BY <1>0, <1>3, <2>1 DEF ReserveNode, CallRecord, StageOf
  <2>2. CASE WriteDecision
    BY <1>3, <2>2 DEF WriteDecision, CallRecord, Idle, Place
  <2>3. CASE \/ Begin \/ StartAgent \/ EndAgent \/ Wait \/ MarkBlocked \/ FinishDone
             \/ MarkFailed \/ RecordAggregate
    BY <1>2, <1>3, <2>3 DEF Begin, StartAgent, EndAgent, Wait, MarkBlocked, FinishDone,
      MarkFailed, RecordAggregate
  <2>4. ASSUME NEW passed \in BOOLEAN, RecordNode(passed) PROVE call' \in CallRecord
    BY <1>2, <2>4 DEF RecordNode
  <2>5. CASE \/ Pass \/ Decision \/ EnterTry \/ Refused \/ WriteBound \/ WriteLast \/ RunDaily \/ Pause
             \/ StartRegion \/ SpawnLanes
    BY <1>2, <1>3, <2>5 DEF Pass, Decision, CompleteTo, EnterTry, Refused, WriteBound, WriteLast, RunDaily, Pause,
      StartRegion, SpawnLanes
  <2>6. CASE \/ LanesEnd \/ WriteRegion
             \/ LeaveRegion \/ Output \/ FinishRejected \/ FinishBlocked \/ WriteCompleted
             \/ MarkFailure
    BY <1>2, <1>3, <2>6 DEF LanesEnd, WriteRegion, LeaveRegion, Output,
      FinishRejected, FinishBlocked, WriteCompleted, MarkFailure
  <2> QED BY <1>20, <2>1, <2>2, <2>3, <2>4, <2>5, <2>6 DEF CallStep
<1>21. ASSUME RunStep PROVE call' \in CallRecord
  <2>1. CASE RunBegin \/ RunReserve \/ RunStart \/ RunEnd \/ RunReport
    BY <1>2, <2>1 DEF RunBegin, RunReserve, RunStart, RunEnd, RunReport
  <2>2. ASSUME NEW passed \in BOOLEAN, RunBroken(passed) PROVE call' \in CallRecord
    BY <1>2, <2>2 DEF RunBroken
  <2>3. ASSUME NEW passed \in BOOLEAN, RunRecord(passed) PROVE call' \in CallRecord
    BY <1>0, <2>3 DEF RunRecord, CallRecord
  <2>4. CASE RunGate \/ RunVerify \/ RunExcept \/ RunUnreported
    BY <1>2, <1>4, <2>4 DEF RunGate, RunVerify, RunExcept, RunUnreported
  <2>5. CASE FinishExecute
    BY <1>3, <2>5 DEF FinishExecute
  <2> QED BY <1>21, <2>1, <2>2, <2>3, <2>4, <2>5 DEF RunStep
<1>22. ASSUME NEW l \in Lane, LaneStep(l) PROVE call' \in CallRecord
  BY <1>1, <1>22 DEF LaneStep, LaneBegin, LaneReserve, LaneStartAgent, LaneEndAgent,
    LaneRecord, LaneVerify, LaneFail
<1>23. ASSUME NEW t \in Task, Charge(t) \/ TimePasses(t) PROVE call' \in CallRecord
  BY <1>1, <1>23 DEF Charge, TimePasses, local
<1>24. ASSUME NEW fp \in shown, NEW d \in {"approved", "rejected"}, Decide(fp, d)
       PROVE  call' \in CallRecord
  <2>1. fp.node \in Place
    BY <1>24 DEF Decide, FingerprintMatches, Fingerprint, RecordsOK, FileRecord, CheckpointRecord
  <2> QED BY <1>24, <2>1 DEF Decide, CallRecord, Idle
<1>25. ASSUME NEW c \in Contract, Prepare(c) \/ PrepareV2(c) PROVE call' \in CallRecord
  BY <1>1, <1>25 DEF Prepare, PrepareV2, local
<1>26. CASE Start \/ Crash \/ Escape
  BY <1>2, <1>3, <1>26 DEF Start, Crash, Escape
<1>27. CASE Execute
  BY <1>27 DEF Execute, Idle, CallRecord, Place
<1>28. CASE Show \/ UNCHANGED vars
  BY <1>1, <1>28 DEF Show, vars, local
<1> QED BY <1>20, <1>21, <1>22, <1>23, <1>24, <1>25, <1>26, <1>27, <1>28 DEF Next

LEMMA StepLane ==
  ASSUME RecordsOK, [Next]_vars
  PROVE  lane' \in [Lane -> ThreadRecord]
<1> USE DEF LaneWorks
<1>0. lane \in [Lane -> ThreadRecord]
  BY DEF RecordsOK
<1>1. ASSUME UNCHANGED lane PROVE lane' \in [Lane -> ThreadRecord]
  BY <1>0, <1>1
<1>2. ASSUME NEW l \in Lane, NEW at \in {"none", "ended", "raised"} \cup LaneWorks, LaneGoto(l, at)
      PROVE  lane' \in [Lane -> ThreadRecord]
  BY <1>0, <1>2 DEF LaneGoto, ThreadRecord
<1>3. ASSUME lane' = [l \in Lane |-> NoThread] PROVE lane' \in [Lane -> ThreadRecord]
  BY <1>3 DEF NoThread, ThreadRecord, Stage
<1>4. CASE SpawnLanes
  BY <1>4 DEF SpawnLanes, NoThread, ThreadRecord, Stage
<1>5. CASE LeaveRegion \/ MarkFailure \/ Crash \/ Escape
  BY <1>3, <1>5 DEF LeaveRegion, MarkFailure, Crash, Escape
<1>20. ASSUME CallStep, ~SpawnLanes, ~LeaveRegion, ~MarkFailure PROVE UNCHANGED lane
  BY <1>20 DEF CallStep, Pass, Decision, EnterTry, Refused, Begin, WriteBound, ReserveNode,
    StartAgent, EndAgent, RecordNode, WriteLast, RunDaily, Pause, Wait, WriteDecision,
    StartRegion, LanesEnd, RecordAggregate, WriteRegion, Output, FinishRejected,
    FinishBlocked, FinishDone, WriteCompleted, MarkBlocked, MarkFailed
<1>21. ASSUME RunStep PROVE UNCHANGED lane
  BY <1>21 DEF RunStep, RunBegin, RunReserve, RunStart, RunEnd, RunBroken, RunRecord,
    RunGate, RunVerify, RunExcept, RunReport, RunUnreported, FinishExecute
<1>22. ASSUME NEW l \in Lane, LaneStep(l) PROVE lane' \in [Lane -> ThreadRecord]
  <2>1. CASE LaneBegin(l) \/ LaneReserve(l) \/ LaneStartAgent(l) \/ LaneEndAgent(l) \/ LaneFail(l)
    BY <1>2, <2>1 DEF LaneBegin, LaneReserve, LaneStartAgent, LaneEndAgent, LaneFail
  <2>2. ASSUME NEW passed \in BOOLEAN, LaneRecord(l, passed) PROVE lane' \in [Lane -> ThreadRecord]
    BY <1>0, <2>2 DEF LaneRecord, ThreadRecord, Stage
  <2>3. CASE LaneVerify(l)
    BY <1>0, <2>3 DEF LaneVerify, ThreadRecord, Verified
  <2> QED BY <1>22, <2>1, <2>2, <2>3 DEF LaneStep
<1>23. ASSUME NEW t \in Task, Charge(t) \/ TimePasses(t) PROVE UNCHANGED lane
  BY <1>23 DEF Charge, TimePasses, local
<1>24. ASSUME NEW fp \in shown, NEW d \in {"approved", "rejected"}, Decide(fp, d)
       PROVE  UNCHANGED lane
  BY <1>24 DEF Decide
<1>25. ASSUME NEW c \in Contract, Prepare(c) \/ PrepareV2(c) PROVE UNCHANGED lane
  BY <1>25 DEF Prepare, PrepareV2, local
<1>26. ASSUME Start \/ Execute \/ Show \/ UNCHANGED vars PROVE UNCHANGED lane
  BY <1>26 DEF Start, Execute, Show, vars, local
<1> QED BY <1>1, <1>4, <1>5, <1>20, <1>21, <1>22, <1>23, <1>24, <1>25, <1>26 DEF Next

(* The contract of a workflow, and where its calls can be.                 *)
LEMMA Contracted ==
  ASSUME RecordsOK, ControlInv, file.profile # "none"
  PROVE  /\ contract \in Contract /\ contract.node \subseteq Node
         /\ \A n \in contract.node : Children(contract, n) \subseteq contract.node
         /\ \A n : Children(contract, n) \subseteq Place
<1>1. contract \in Contract
  BY DEF ControlInv, V2Control, Admitted, AdmittedV2, RecordsOK, FileRecord, Profile
<1>2. \A n : Children(contract, n) \subseteq contract.node
  BY DEF Children
<1> QED BY <1>1, <1>2, ContractIs DEF Place

LEMMA Engaged ==
  ASSUME RecordsOK, ControlInv, call.at # "idle"
  PROVE  file.profile \in {"v2", "v4"}
  BY DEF RecordsOK, FileRecord, ControlInv, Idle, Profile

LEMMA CallStepIsV4 ==
  ASSUME RecordsOK, ControlInv, CallStep
  PROVE  file.profile = "v4" /\ call.at # "idle" /\ call.at \notin CallAt2
<1>1. call.at # "idle" /\ call.at \notin CallAt2
  BY DEF CallStep, Pass, Decision, EnterTry, Refused, Begin, Begins, WriteBound, ReserveNode, At,
    StartAgent, EndAgent, RecordNode, WriteLast, RunDaily, Pause, Wait, WriteDecision,
    StartRegion, SpawnLanes, LanesEnd, RecordAggregate, WriteRegion, LeaveRegion, Output,
    FinishRejected, FinishBlocked, FinishDone, WriteCompleted, MarkBlocked, MarkFailure,
    MarkFailed, CallAt2
<1> QED BY <1>1, Engaged DEF ControlInv, V2Control, V4Status

LEMMA RunStepIsV2 ==
  ASSUME RecordsOK, ControlInv, RunStep
  PROVE  file.profile = "v2" /\ call.at \in CallAt2 /\ call.at # "idle"
<1>1. call.at \in CallAt2 /\ call.at # "idle"
  BY DEF RunStep, RunBegin, RunReserve, RunStart, RunEnd, RunBroken, RunRecord,
    RunGate, RunVerify, RunExcept, RunReport, RunUnreported, FinishExecute, CallAt2
<1> QED BY <1>1, Engaged DEF ControlInv, V2Control, V4Status

(* The region of a parallel contract.                                      *)
LEMMA RegionIs ==
  ASSUME RecordsOK, ControlInv, EdgeInv, call.at \in InRegion
  PROVE  /\ file.profile = "v4" /\ contract \in Admitted /\ IsParallel(contract)
         /\ file.current = Fork(contract) /\ file.current \in contract.node
         /\ Join(contract) \in contract.node /\ LaneNodes \subseteq contract.node
         /\ ForkShaped(contract) /\ Shaped(contract)
<1>1. file.profile = "v4" /\ contract \in Admitted /\ Role(file.current) = "parallel_fork"
      /\ file.current # NoNode
  BY Engaged DEF ControlInv, V2Control, V4Place, InRegion, CallAt2
<1>2. file.current \in contract.node
  BY <1>1 DEF EdgeInv, Visited
<1>3. IsParallel(contract)
  BY <1>1, <1>2 DEF IsParallel, Role, ParallelRole
<1>4. file.current = Fork(contract)
  BY <1>1, <1>2, <1>3, ForkIs DEF Having, Role
<1> QED BY <1>1, <1>2, <1>3, <1>4, ForkIs, LaneNodesAre, AdmittedForkShaped, AdmittedShaped

LEMMA RootIs ==
  ASSUME NEW c \in Contract, Shaped(c)
  PROVE  LET r == CHOOSE r \in c.node : c.depends[r] = {}
         IN  r \in c.node /\ c.depends[r] = {} /\ c.role[r] = "input"
  BY DEF Shaped, RootsOf

LEMMA StepFile ==
  ASSUME RecordsOK, ControlInv, EdgeInv, [Next]_vars
  PROVE  file' \in FileRecord
<1> USE DEF Write
<1>0. file \in FileRecord /\ call \in CallRecord /\ status[Parent] \in TaskStatus
  BY ParentIsTask DEF RecordsOK, TasksOK
<1>1. ASSUME UNCHANGED file PROVE file' \in FileRecord
  BY <1>0, <1>1
<1>v. /\ {"prepared", "executing", "running", "paused", "completed", "rejected",
          "blocked", "failed"} \subseteq FileStatus
      /\ {"verified", "runtime_exception", "required_validator_missing",
          "validation_failed"} \subseteq Reason
      /\ {"starting", "running", "completed"} \subseteq Region
      /\ {"v2", "v4"} \subseteq Profile
  BY DEF FileStatus, Reason, Region, Profile
<1> USE <1>v
<1>2. NoFile \in FileRecord
  BY DEF Profile, FileStatus, ValidationRecord, Reason, Region, NoFile, FileRecord, NoCheckpoint, NoValidation, CheckpointRecord, Place, TaskStatus
<1>3. ASSUME NEW n \in Place, NEW m \in Place PROVE Completed(n, m) \in FileRecord
  <2>1. file.completed \cup {n} \in SUBSET Place /\ file.revision + 1 \in Nat
    BY <1>0 DEF FileRecord
  <2> QED BY <1>0, <2>1 DEF Completed, FileRecord
<1>4. ASSUME NEW c \in Contract, Prepare(c) \/ PrepareV2(c) PROVE file' \in FileRecord
  <2>1. CASE PrepareV2(c)
    BY <1>2, <2>1 DEF PrepareV2, Prepared, FileRecord, Place
  <2>2. CASE Prepare(c)
    <3> DEFINE r == CHOOSE r \in c.node : c.depends[r] = {}
    <3>1. r \in Place
      BY <2>2, AdmittedShaped, RootIs, ContractIs DEF Prepare, Place
    <3> QED BY <1>2, <2>2, <3>1 DEF Prepare, Prepared, FileRecord
  <2> QED BY <1>4, <2>1, <2>2
<1>r. file.revision + 1 \in Nat
  BY <1>0 DEF FileRecord
<1>5. CASE Start \/ Execute
  <2>1. CASE Start
    BY <1>0, <1>r, <2>1 DEF Start, FileRecord
  <2>2. CASE Execute
    BY <1>0, <2>2 DEF Execute, FileRecord
  <2> QED BY <1>5, <2>1, <2>2
<1>20. ASSUME CallStep PROVE file' \in FileRecord
  <2> USE <1>0
  <2>0. file.current \in Place /\ file.checkpoint \in CheckpointRecord /\ file.checkpoint.node \in Place
        /\ file.revision \in Nat
    BY DEF FileRecord, CheckpointRecord
  <2>1. \A n : Children(contract, n) \subseteq Place
    BY <1>20, CallStepIsV4, Contracted
  <2>2. \A n, x : Successor(n) \subseteq Place /\ Branch(n, x) \subseteq Place
    BY <2>1 DEF Successor, Branch
  <2>3. CASE Pass \/ Decision
    <3>1. \/ UNCHANGED file
          \/ \E m \in Place : file' = Completed(file.current, m)
      BY <2>2, <2>3 DEF Pass, Decision, CompleteTo
    <3> QED BY <1>1, <1>3, <2>0, <3>1
  <2>4. CASE WriteBound \/ WriteLast \/ StartRegion \/ SpawnLanes
    <3>1. [source |-> call.stage, passed |-> call.at = "passed"] \in ValidationRecord
      BY DEF CallRecord, ValidationRecord
    <3>2. CASE WriteLast
      BY <3>1, <3>2 DEF WriteLast, FileRecord
    <3>3. CASE WriteBound \/ StartRegion \/ SpawnLanes
      BY <3>3 DEF WriteBound, StartRegion, SpawnLanes, FileRecord
    <3> QED BY <2>4, <3>2, <3>3
  <2>5. CASE WriteRegion
    <3>1. [source |-> "parallel_branches", passed |-> AllVerified] \in ValidationRecord
      BY DEF AllVerified, ValidationRecord
    <3> QED BY <2>5, <3>1 DEF WriteRegion, FileRecord
  <2>6. CASE Pause
    <3>1. [node |-> file.current, revision |-> file.revision + 1, pending |-> TRUE,
           prior |-> PriorStatus] \in CheckpointRecord
      BY <2>0 DEF CheckpointRecord, PriorStatus
    <3> QED BY <1>r, <2>6, <3>1 DEF Pause, FileRecord
  <2>7. CASE WriteDecision
    <3> DEFINE f == Completed(file.checkpoint.node, NoNode)
    <3>1. f \in FileRecord /\ f.checkpoint \in CheckpointRecord
      <4>1. f \in FileRecord
        BY <1>3, <2>0 DEF Place
      <4> QED BY <4>1 DEF FileRecord
    <3>2. [f.checkpoint EXCEPT !.pending = FALSE] \in CheckpointRecord
      BY <3>1 DEF CheckpointRecord
    <3>3. DecisionReason \in Reason
      BY DEF DecisionReason, FileRecord, Reason
    <3> HIDE DEF f
    <3>4. [f EXCEPT !.checkpoint.pending = FALSE, !.reason = DecisionReason] \in FileRecord
      BY <3>1, <3>2, <3>3 DEF FileRecord
    <3> DEFINE g == [f EXCEPT !.checkpoint.pending = FALSE, !.reason = DecisionReason]
    <3>5. \/ file' = [g EXCEPT !.status = "rejected"]
          \/ \E m \in Place : file' = [g EXCEPT !.status = "running", !.current = m]
      BY <2>2, <2>7 DEF WriteDecision, f
    <3> HIDE DEF g
    <3>6. g \in FileRecord
      BY <3>4 DEF g
    <3> QED BY <3>5, <3>6 DEF FileRecord
  <2>8. CASE LeaveRegion
    <3>1. call.at \in InRegion
      BY <2>8 DEF LeaveRegion, InRegion
    <3>2. Fork(contract) \in Place /\ Join(contract) \in Place /\ LaneNodes \subseteq Place
      BY <3>1, RegionIs, AdmittedShaped, ContractIs DEF Place
    <3>3. \/ UNCHANGED file
          \/ \E m \in Place : file' = [Completed(Join(contract), m) EXCEPT !.completed =
                                         @ \cup {Fork(contract)} \cup LaneNodes]
      BY <2>2, <2>8 DEF LeaveRegion
    <3>4. ASSUME NEW m \in Place
          PROVE  [Completed(Join(contract), m) EXCEPT !.completed =
                    @ \cup {Fork(contract)} \cup LaneNodes] \in FileRecord
      <4> DEFINE g == Completed(Join(contract), m)
      <4>1. g \in FileRecord
        BY <1>3, <3>2
      <4> HIDE DEF g
      <4>2. [g EXCEPT !.completed = @ \cup {Fork(contract)} \cup LaneNodes] \in FileRecord
        BY <3>2, <4>1 DEF FileRecord
      <4> QED BY <4>2 DEF g
    <3> QED BY <1>1, <3>3, <3>4
  <2>9. CASE Output
    BY <1>3, <2>0, <2>9 DEF Output, Place
  <2>10. CASE FinishRejected \/ FinishBlocked \/ WriteCompleted \/ MarkFailure
    BY <2>10 DEF FinishRejected, FinishBlocked, WriteCompleted, MarkFailure, FileRecord
  <2>11. ASSUME NEW passed \in BOOLEAN, RecordNode(passed) PROVE UNCHANGED file
    BY <2>11 DEF RecordNode
  <2>12. CASE \/ EnterTry \/ Refused \/ Begin \/ ReserveNode \/ StartAgent \/ EndAgent \/ RunDaily
              \/ Wait \/ LanesEnd \/ RecordAggregate \/ FinishDone \/ MarkBlocked \/ MarkFailed
    BY <1>1, <2>12 DEF EnterTry, Refused, Begin, ReserveNode, StartAgent, EndAgent, RunDaily,
      Wait, LanesEnd, RecordAggregate, FinishDone, MarkBlocked, MarkFailed
  <2> QED BY <1>1, <1>20, <2>3, <2>4, <2>5, <2>6, <2>7, <2>8, <2>9, <2>10, <2>11, <2>12 DEF CallStep
<1>21. ASSUME RunStep PROVE file' \in FileRecord
  <2>1. CASE FinishExecute
    BY <1>0, <2>1 DEF FinishExecute, FileRecord
  <2>2. ASSUME ~FinishExecute PROVE UNCHANGED file
    BY <1>21, <2>2 DEF RunStep, RunBegin, RunReserve, RunStart, RunEnd, RunBroken, RunRecord,
      RunGate, RunVerify, RunExcept, RunReport, RunUnreported
  <2> QED BY <1>1, <2>1, <2>2
<1>22. ASSUME NEW l \in Lane, LaneStep(l) PROVE UNCHANGED file
  BY <1>22 DEF LaneStep, LaneBegin, LaneReserve, LaneStartAgent, LaneEndAgent,
    LaneRecord, LaneVerify, LaneFail
<1>23. ASSUME NEW t \in Task, Charge(t) \/ TimePasses(t) PROVE UNCHANGED file
  BY <1>23 DEF Charge, TimePasses
<1>24. ASSUME NEW fp \in shown, NEW d \in {"approved", "rejected"}, Decide(fp, d)
       PROVE  UNCHANGED file
  BY <1>24 DEF Decide
<1>25. ASSUME Show \/ Crash \/ Escape \/ UNCHANGED vars PROVE UNCHANGED file
  BY <1>25 DEF Show, Crash, Escape, vars
<1> QED BY <1>1, <1>4, <1>5, <1>20, <1>21, <1>22, <1>23, <1>24, <1>25 DEF Next

LEMMA StepRan ==
  ASSUME RecordsOK, [Next]_vars
  PROVE  ran' \in [Node -> Nat]
<1>0. ran \in [Node -> Nat]
  BY DEF RecordsOK
<1>1. ASSUME UNCHANGED ran PROVE ran' \in [Node -> Nat]
  BY <1>0, <1>1
<1>2. ASSUME NEW n, Counted(n) PROVE ran' \in [Node -> Nat]
  <2>1. CASE n \in Node
    BY <1>0, <1>2, <2>1 DEF Counted
  <2>2. CASE n \notin Node
    <3>1. ran' = ran
      BY <1>0, <1>2, <2>2 DEF Counted
    <3> QED BY <1>0, <3>1
  <2> QED BY <2>1, <2>2
<1>20. ASSUME CallStep PROVE ran' \in [Node -> Nat]
  <2>1. CASE StartAgent \/ RunDaily
    BY <1>2, <2>1 DEF StartAgent, RunDaily
  <2>2. ASSUME ~StartAgent, ~RunDaily PROVE UNCHANGED ran
    BY <1>20, <2>2 DEF CallStep, history, Pass, Decision, EnterTry, Refused, Begin, WriteBound, ReserveNode,
      EndAgent, RecordNode, WriteLast, Pause, Wait, WriteDecision, StartRegion, SpawnLanes,
      LanesEnd, RecordAggregate, WriteRegion, LeaveRegion, Output, FinishRejected,
      FinishBlocked, FinishDone, WriteCompleted, MarkBlocked, MarkFailure, MarkFailed
  <2> QED BY <1>1, <2>1, <2>2
<1>21. ASSUME RunStep PROVE ran' \in [Node -> Nat]
  <2>1. CASE RunStart \/ RunReport
    BY <1>2, <2>1 DEF RunStart, RunReport
  <2>2. ASSUME ~RunStart, ~RunReport PROVE UNCHANGED ran
    BY <1>21, <2>2 DEF RunStep, history, RunBegin, RunReserve, RunEnd, RunBroken, RunRecord,
      RunGate, RunVerify, RunExcept, RunUnreported, FinishExecute
  <2> QED BY <1>1, <2>1, <2>2
<1>22. ASSUME NEW l \in Lane, LaneStep(l) PROVE ran' \in [Node -> Nat]
  <2>1. CASE LaneStartAgent(l)
    BY <1>2, <2>1 DEF LaneStartAgent
  <2>2. ASSUME ~LaneStartAgent(l) PROVE UNCHANGED ran
    BY <1>22, <2>2 DEF LaneStep, history, LaneBegin, LaneReserve,
      LaneEndAgent, LaneRecord, LaneVerify, LaneFail
  <2> QED BY <1>1, <2>1, <2>2
<1>23. ASSUME NEW t \in Task, Charge(t) \/ TimePasses(t) PROVE UNCHANGED ran
  BY <1>23 DEF Charge, TimePasses, history
<1>24. ASSUME NEW fp \in shown, NEW d \in {"approved", "rejected"}, Decide(fp, d)
       PROVE  UNCHANGED ran
  BY <1>24 DEF Decide, history
<1>25. ASSUME NEW c \in Contract, Prepare(c) \/ PrepareV2(c) PROVE UNCHANGED ran
  BY <1>25 DEF Prepare, PrepareV2, history
<1>26. ASSUME Start \/ Execute \/ Show \/ Crash \/ Escape \/ UNCHANGED vars PROVE UNCHANGED ran
  BY <1>26 DEF Start, Execute, Show, Crash, Escape, vars, history
<1> QED BY <1>1, <1>20, <1>21, <1>22, <1>23, <1>24, <1>25, <1>26 DEF Next

LEMMA StepCrashed ==
  ASSUME RecordsOK, [Next]_vars
  PROVE  crashed' \in BOOLEAN /\ escaped' \in BOOLEAN
<1>1. /\ UNCHANGED crashed \/ crashed' = TRUE
      /\ UNCHANGED escaped \/ escaped' = TRUE
  BY DEF Next, vars, history, CallStep, Pass, Decision, EnterTry, Refused, Begin, WriteBound, ReserveNode,
      StartAgent, RunDaily,
      EndAgent, RecordNode, WriteLast, Pause, Wait, WriteDecision, StartRegion, SpawnLanes,
      LanesEnd, RecordAggregate, WriteRegion, LeaveRegion, Output, FinishRejected,
      FinishBlocked, FinishDone, WriteCompleted, MarkBlocked, MarkFailure, MarkFailed,
      RunStep, RunBegin, RunReserve, RunStart, RunReport, RunEnd, RunBroken, RunRecord,
      RunGate, RunVerify, RunExcept, RunUnreported, FinishExecute,
      LaneStep, LaneBegin, LaneReserve, LaneStartAgent,
      LaneEndAgent, LaneRecord, LaneVerify, LaneFail, Charge, TimePasses, Decide,
      Prepare, PrepareV2, Start, Execute, Show, Crash, Escape
<1> QED BY <1>1 DEF RecordsOK

LEMMA StepRecords ==
  ASSUME RecordsOK, ControlInv, EdgeInv, [Next]_vars
  PROVE  RecordsOK'
  BY StepTasks, StepFile, StepCall, StepLane, StepRan, StepCrashed DEF RecordsOK

LEMMA InitRecords == Init => RecordsOK
<1> SUFFICES ASSUME Init PROVE RecordsOK
  OBVIOUS
<1>1. TasksOK
  BY DEF Init, TasksInit, TasksOK, TaskStatus
<1>2. file \in FileRecord
  BY DEF Init, FileRecord, NoFile, NoCheckpoint, NoValidation, Profile, FileStatus,
    CheckpointRecord, ValidationRecord, Reason, Region, Place, TaskStatus
<1>3. call \in CallRecord
  BY DEF Init, CallRecord, Idle, Place
<1>4. lane \in [Lane -> ThreadRecord]
  BY DEF Init, ThreadRecord, NoThread, Stage
<1> QED BY <1>1, <1>2, <1>3, <1>4 DEF Init, RecordsOK

-----------------------------------------------------------------------------
(* Where the calls of a workflow can be.                                   *)

(* What the writes that move a workflow do to its file.                    *)
LEMMA MoveWrites ==
  ASSUME file \in FileRecord, call \in CallRecord, Pass \/ Decision
  PROVE  /\ UNCHANGED <<contract, lane, history, tasks>>
         /\ \/ file' = file /\ call'.at = "raised"
            \/ /\ call'.at = "advance" /\ file'.completed = file.completed \cup {file.current}
               /\ file'.profile = file.profile /\ file'.status = file.status
               /\ file'.checkpoint = file.checkpoint /\ file'.last = file.last
               /\ file'.reason = file.reason /\ file'.region = file.region
               /\ \/ Pass /\ file'.current \in Successor(file.current)
                  \/ /\ Decision
                     /\ file'.current \in Branch(file.current,
                                               IF file.last.passed THEN "passed" ELSE "failed")
<1> USE DEF Write, Goto, Raise, Idle
<1>1. ASSUME NEW nexts, CompleteTo(nexts)
      PROVE  \/ file' = file /\ call'.at = "raised"
             \/ /\ call'.at = "advance" /\ file'.completed = file.completed \cup {file.current}
                /\ file'.profile = file.profile /\ file'.status = file.status
                /\ file'.checkpoint = file.checkpoint /\ file'.last = file.last
                /\ file'.reason = file.reason /\ file'.region = file.region
                /\ file'.current \in nexts
  <2>1. CASE nexts = {} /\ Raise /\ UNCHANGED file
    BY <2>1
  <2>2. ASSUME NEW m \in nexts, file' = Completed(file.current, m), Goto("advance")
        PROVE  /\ call'.at = "advance" /\ file'.completed = file.completed \cup {file.current}
               /\ file'.profile = file.profile /\ file'.status = file.status
               /\ file'.checkpoint = file.checkpoint /\ file'.last = file.last
               /\ file'.reason = file.reason /\ file'.region = file.region
               /\ file'.current \in nexts
    BY <2>2 DEF Completed, FileRecord, CallRecord
  <2> QED BY <1>1, <2>1, <2>2 DEF CompleteTo
<1>2. CASE Pass
  BY <1>1, <1>2 DEF Pass
<1>3. CASE Decision
  BY <1>1, <1>3 DEF Decision
<1> QED BY <1>2, <1>3

LEMMA DecisionWrites ==
  ASSUME file \in FileRecord, call \in CallRecord, WriteDecision
  PROVE  /\ UNCHANGED <<contract, lane, shown, ran, crashed, escaped, tasks>>
         /\ file'.completed = file.completed \cup {file.checkpoint.node}
         /\ file'.profile = file.profile /\ file'.last = file.last
         /\ file'.reason = DecisionReason /\ file'.region = file.region
         /\ file'.checkpoint.node = file.checkpoint.node
         /\ file'.checkpoint.prior = file.checkpoint.prior
         /\ \/ /\ file'.status = "rejected" /\ call'.at = "idle" /\ file'.current = NoNode
               /\ Branch(file.checkpoint.node, call.decision) = {}
            \/ /\ file'.status = "running" /\ call'.at = "authorized"
               /\ file'.current \in Branch(file.checkpoint.node, call.decision)
<1> DEFINE n == file.checkpoint.node
           done == Completed(n, NoNode)
           consumed == [done EXCEPT !.checkpoint.pending = FALSE, !.reason = DecisionReason]
<1>0. UNCHANGED <<contract, lane, shown, ran, crashed, escaped, tasks>>
  BY DEF WriteDecision
<1>1. \/ /\ file' = [consumed EXCEPT !.status = "rejected"] /\ call'.at = "idle"
         /\ Branch(n, call.decision) = {}
      \/ /\ \E m \in Branch(n, call.decision) :
              file' = [consumed EXCEPT !.status = "running", !.current = m]
         /\ call'.at = "authorized"
  <2>1. CASE Branch(n, call.decision) = {} /\ call' = Idle
             /\ file' = [consumed EXCEPT !.status = "rejected"]
    BY <2>1 DEF Idle
  <2>2. CASE (\E m \in Branch(n, call.decision) :
              file' = [consumed EXCEPT !.status = "running", !.current = m])
             /\ call' = [Idle EXCEPT !.at = "authorized"]
    BY <2>2 DEF Idle
  <2> QED BY <2>1, <2>2 DEF WriteDecision, Write, Return
<1>2. /\ done.completed = file.completed \cup {n} /\ done.current = NoNode
      /\ done.profile = file.profile /\ done.last = file.last /\ done.region = file.region
      /\ done.checkpoint = file.checkpoint
      /\ DOMAIN done = DOMAIN file
  BY DEF Completed, FileRecord
<1>3. DOMAIN file = {"profile", "status", "revision", "current", "completed", "checkpoint",
                     "last", "bound", "reason", "region"}
  BY DEF FileRecord
<1>4. file.checkpoint \in CheckpointRecord
  BY DEF FileRecord
<1> HIDE DEF done
<1>5. /\ consumed.completed = file.completed \cup {n} /\ consumed.current = NoNode
      /\ consumed.profile = file.profile /\ consumed.last = file.last
      /\ consumed.region = file.region /\ consumed.reason = DecisionReason
      /\ consumed.checkpoint.node = n
      /\ consumed.checkpoint.prior = file.checkpoint.prior
      /\ DOMAIN consumed = DOMAIN file
  BY <1>2, <1>3, <1>4 DEF CheckpointRecord
<1> HIDE DEF consumed
<1>6. CASE file' = [consumed EXCEPT !.status = "rejected"]
  BY <1>0, <1>1, <1>3, <1>5, <1>6
<1>7. ASSUME NEW m \in Branch(n, call.decision),
             file' = [consumed EXCEPT !.status = "running", !.current = m],
             call'.at = "authorized"
      PROVE  /\ file'.completed = file.completed \cup {file.checkpoint.node}
             /\ file'.profile = file.profile /\ file'.last = file.last
             /\ file'.reason = DecisionReason /\ file'.region = file.region
             /\ file'.checkpoint.node = file.checkpoint.node
             /\ file'.checkpoint.prior = file.checkpoint.prior
             /\ file'.status = "running" /\ call'.at = "authorized"
             /\ file'.current \in Branch(file.checkpoint.node, call.decision)
  BY <1>3, <1>5, <1>7
<1> QED BY <1>0, <1>1, <1>6, <1>7

LEMMA LeaveWrites ==
  ASSUME file \in FileRecord, call \in CallRecord, LeaveRegion
  PROVE  /\ UNCHANGED <<contract, history, tasks>>
         /\ lane' = [l \in Lane |-> NoThread] /\ call.at = "leave"
         /\ \/ file' = file /\ call'.at = "raised"
            \/ /\ call'.at = "advance"
               /\ file'.completed = file.completed \cup {Join(contract), Fork(contract)} \cup LaneNodes
               /\ file'.profile = file.profile /\ file'.status = file.status
               /\ file'.checkpoint = file.checkpoint /\ file'.last = file.last
               /\ file'.reason = file.reason /\ file'.region = file.region
               /\ file'.current \in Successor(Join(contract))
<1> USE DEF Write, Goto, Raise, Idle
<1>0. UNCHANGED <<contract, history, tasks>> /\ lane' = [l \in Lane |-> NoThread]
      /\ call.at = "leave"
  BY DEF LeaveRegion
<1>1. CASE Successor(Join(contract)) = {} /\ Raise /\ UNCHANGED file
  BY <1>0, <1>1
<1>2. ASSUME NEW m \in Successor(Join(contract)), Goto("advance"),
             file' = [Completed(Join(contract), m) EXCEPT !.completed =
                        @ \cup {Fork(contract)} \cup LaneNodes]
      PROVE  /\ call'.at = "advance"
             /\ file'.completed = file.completed \cup {Join(contract), Fork(contract)} \cup LaneNodes
             /\ file'.profile = file.profile /\ file'.status = file.status
             /\ file'.checkpoint = file.checkpoint /\ file'.last = file.last
             /\ file'.reason = file.reason /\ file'.region = file.region
             /\ file'.current \in Successor(Join(contract))
  <2> DEFINE g == Completed(Join(contract), m)
  <2>1. /\ g.completed = file.completed \cup {Join(contract)} /\ g.current = m
        /\ g.profile = file.profile /\ g.last = file.last /\ g.region = file.region
        /\ g.status = file.status /\ g.reason = file.reason
        /\ g.checkpoint = file.checkpoint
        /\ DOMAIN g = DOMAIN file
    BY DEF Completed, FileRecord
  <2>2. DOMAIN file = {"profile", "status", "revision", "current", "completed", "checkpoint",
                       "last", "bound", "reason", "region"}
    BY DEF FileRecord
  <2> HIDE DEF g
  <2>3. file' = [g EXCEPT !.completed = @ \cup {Fork(contract)} \cup LaneNodes]
    BY <1>2 DEF g
  <2>4. call'.at = "advance"
    BY <1>2 DEF CallRecord
  <2> QED BY <2>1, <2>2, <2>3, <2>4
<1> QED BY <1>0, <1>1, <1>2 DEF LeaveRegion

V4Control == contract \in Admitted /\ V4Status /\ V4Place /\ V4Checkpoint

LEMMA StepV4Control ==
  ASSUME RecordsOK, ControlInv, EdgeInv, CallStep
  PROVE  file'.profile = "v4" /\ V4Control'
<1> USE DEF Write, Goto, Return, Raise, Idle
<1>0. /\ file.profile = "v4" /\ call.at # "idle" /\ V4Control
      /\ file \in FileRecord /\ call \in CallRecord
      /\ file.current # NoNode => file.current \in contract.node
  BY CallStepIsV4 DEF ControlInv, V4Control, RecordsOK, EdgeInv, Visited
<1>c. contract' = contract
  BY DEF CallStep, Pass, Decision, EnterTry, Refused, Begin, WriteBound, ReserveNode,
      StartAgent, RunDaily, EndAgent, RecordNode, WriteLast, Pause, Wait, WriteDecision,
      StartRegion, SpawnLanes, LanesEnd, RecordAggregate, WriteRegion, LeaveRegion, Output,
      FinishRejected, FinishBlocked, FinishDone, WriteCompleted, MarkBlocked, MarkFailure,
      MarkFailed
<1> USE <1>0, <1>c DEF V4Control, Role
<1>1. CASE Pass \/ Decision
  <2>1. call.at \in CallAt4
    BY <1>1 DEF Pass, Decision, At, CallAt4
  <2>2. /\ file'.profile = "v4" /\ file'.status = file.status
        /\ file'.checkpoint = file.checkpoint
        /\ call'.at \in {"raised", "advance"}
    BY <1>1, MoveWrites
  <2> QED BY <2>1, <2>2 DEF V4Status, V4Place, V4Checkpoint, CallAt4, CallAt2, AtAgent, InRegion
<1>2. ASSUME UNCHANGED file, call'.at = "raised", call.at \in CallAt4
      PROVE  file'.profile = "v4" /\ V4Control'
  BY <1>2 DEF V4Status, V4Place, V4Checkpoint, CallAt4, CallAt2, AtAgent, InRegion
<1>3. CASE EnterTry \/ Refused
  <2>1. CASE EnterTry
    <3>1. file' = file /\ call.at = "authorized" /\ call'.at = "advance"
      BY <2>1 DEF EnterTry, CallRecord
    <3> QED BY <3>1 DEF V4Status, V4Place, V4Checkpoint, CallAt4, CallAt2, AtAgent, InRegion
  <2>2. CASE Refused
    BY <1>2, <2>2 DEF Refused, At, CallAt4
  <2> QED BY <1>3, <2>1, <2>2
<1>4. CASE Begin \/ ReserveNode
  <2>1. call.at = "advance" /\ file' = file /\ file.current # NoNode
        /\ call'.at \in {"raised", "bound", "region", "agent"}
        /\ (call'.at = "region" => Role(file.current) = "parallel_fork" /\ file.region = "none")
        /\ (call'.at = "agent" => Role(file.current) \in Stage)
    BY <1>4 DEF Begin, ReserveNode, Begins, At, CallRecord, Stage
  <2> QED BY <2>1 DEF V4Status, V4Place, V4Checkpoint, CallAt4, CallAt2, AtAgent, InRegion
<1>5. CASE WriteBound \/ WriteLast
  <2>1. /\ file'.profile = "v4" /\ file'.status = file.status
        /\ file'.checkpoint = file.checkpoint /\ file'.current = file.current
        /\ \/ call.at = "bound" /\ call'.at = "advance"
           \/ call.at \in {"passed", "failed"} /\ call'.at = "complete"
    BY <1>5 DEF WriteBound, WriteLast, FileRecord, CallRecord
  <2> QED BY <2>1 DEF V4Status, V4Place, V4Checkpoint, CallAt4, CallAt2, AtAgent, InRegion, Stage
<1>6. ASSUME StartAgent \/ EndAgent \/ \E passed \in BOOLEAN : RecordNode(passed)
      PROVE  file'.profile = "v4" /\ V4Control'
  <2>1. /\ file' = file /\ call.at \in AtAgent
        /\ call'.at \in AtAgent \cup {"raised"}
    BY <1>6 DEF StartAgent, EndAgent, RecordNode, CallRecord, AtAgent
  <2> QED BY <2>1 DEF V4Status, V4Place, V4Checkpoint, CallAt4, CallAt2, AtAgent, InRegion
<1>7. CASE RunDaily
  <2>1. /\ file' = file /\ call.at = "advance" /\ call'.at \in {"complete", "raised"}
        /\ file.current # NoNode /\ Role(file.current) = "daily_report"
    BY <1>7 DEF RunDaily, At, CallRecord
  <2> QED BY <2>1 DEF V4Status, V4Place, V4Checkpoint, CallAt4, CallAt2, AtAgent, InRegion
<1>8. CASE Pause
  <2>1. /\ file'.profile = "v4" /\ file'.status = "paused" /\ file'.current = file.current
        /\ file'.checkpoint.pending /\ file'.checkpoint.node = file.current
        /\ call'.at = "pausing" /\ file.current # NoNode /\ Role(file.current) = "approval"
    BY <1>8 DEF Pause, At, FileRecord, CallRecord
  <2> QED BY <2>1 DEF V4Status, V4Place, V4Checkpoint, CallAt4, CallAt2, AtAgent, InRegion
<1>9. CASE Wait \/ MarkBlocked \/ MarkFailed
  <2>1. file' = file /\ call'.at = "idle"
    BY <1>9 DEF Wait, MarkBlocked, MarkFailed
  <2> QED BY <2>1 DEF V4Status, V4Place, V4Checkpoint, CallAt4, CallAt2, AtAgent, InRegion
<1>10. CASE WriteDecision
  <2>1. /\ file'.profile = "v4" /\ file'.checkpoint.node = file.checkpoint.node
        /\ \/ file'.status = "rejected" /\ call'.at = "idle"
           \/ file'.status = "running" /\ call'.at = "authorized"
    BY <1>10, DecisionWrites
  <2> QED BY <2>1 DEF V4Status, V4Place, V4Checkpoint, CallAt4, CallAt2, AtAgent, InRegion
<1>11. CASE StartRegion \/ SpawnLanes \/ WriteRegion
  <2>1. /\ file'.profile = "v4" /\ file'.status = file.status
        /\ file'.checkpoint = file.checkpoint /\ file'.current = file.current
        /\ \/ call.at = "region" /\ call'.at = "spawn" /\ file'.region = "starting"
           \/ call.at = "spawn" /\ call'.at = "lanes" /\ file'.region = "running"
           \/ call.at = "joined" /\ call'.at = "leave" /\ file'.region = "completed"
    <3>1. CASE StartRegion
      BY <3>1 DEF StartRegion, FileRecord, CallRecord
    <3>2. CASE SpawnLanes
      BY <3>2 DEF SpawnLanes, FileRecord, CallRecord
    <3>3. CASE WriteRegion
      BY <3>3 DEF WriteRegion, FileRecord, CallRecord
    <3> QED BY <1>11, <3>1, <3>2, <3>3
  <2> QED BY <2>1 DEF V4Status, V4Place, V4Checkpoint, CallAt4, CallAt2, AtAgent, InRegion
<1>12. CASE LanesEnd \/ RecordAggregate
  <2>1. /\ file' = file
        /\ \/ call.at = "lanes" /\ call'.at \in {"raised", "join_evidence"}
           \/ call.at = "join_evidence" /\ call'.at = "join_schema"
           \/ call.at = "join_schema" /\ call'.at = "joined"
    BY <1>12 DEF LanesEnd, RecordAggregate, CallRecord
  <2> QED BY <2>1 DEF V4Status, V4Place, V4Checkpoint, CallAt4, CallAt2, AtAgent, InRegion
<1>13. CASE LeaveRegion
  <2>1. /\ call.at = "leave" /\ file'.profile = "v4" /\ file'.status = file.status
        /\ file'.checkpoint = file.checkpoint
        /\ call'.at \in {"raised", "advance"}
    BY <1>13, LeaveWrites
  <2> QED BY <2>1 DEF V4Status, V4Place, V4Checkpoint, CallAt4, CallAt2, AtAgent, InRegion
<1>14. CASE Output
  <2>1. /\ file'.profile = "v4" /\ file'.status = file.status
        /\ file'.checkpoint = file.checkpoint /\ file'.current = NoNode
        /\ call.at = "advance" /\ call'.at = "finish"
    BY <1>14 DEF Output, At, Completed, FileRecord, CallRecord
  <2> QED BY <2>1 DEF V4Status, V4Place, V4Checkpoint, CallAt4, CallAt2, AtAgent, InRegion
<1>15. CASE FinishRejected \/ FinishBlocked \/ WriteCompleted \/ MarkFailure
  <2>1. /\ file'.profile = "v4" /\ file'.checkpoint = file.checkpoint
        /\ file'.current = file.current
        /\ \/ file'.status \in {"rejected", "completed"} /\ call'.at = "idle"
           \/ file'.status = "blocked" /\ call.at = "finish" /\ call'.at = "blocked"
           \/ file'.status = "failed" /\ call'.at = "failing"
    <3>1. CASE FinishRejected
      BY <3>1 DEF FinishRejected, FileRecord, CallRecord
    <3>2. CASE FinishBlocked
      BY <3>2 DEF FinishBlocked, FileRecord, CallRecord
    <3>3. CASE WriteCompleted
      BY <3>3 DEF WriteCompleted, FileRecord, CallRecord
    <3>4. CASE MarkFailure
      BY <3>4 DEF MarkFailure, FileRecord, CallRecord
    <3> QED BY <1>15, <3>1, <3>2, <3>3, <3>4
  <2> QED BY <2>1 DEF V4Status, V4Place, V4Checkpoint, CallAt4, CallAt2, AtAgent, InRegion
<1>16. CASE FinishDone
  <2>1. file' = file /\ call.at = "finish" /\ call'.at \in {"done", "raised"}
    BY <1>16 DEF FinishDone, CallRecord
  <2> QED BY <2>1 DEF V4Status, V4Place, V4Checkpoint, CallAt4, CallAt2, AtAgent, InRegion
<1> QED
  BY <1>1, <1>3, <1>4, <1>5, <1>6, <1>7, <1>8, <1>9, <1>10, <1>11, <1>12, <1>13, <1>14,
     <1>15, <1>16 DEF CallStep

LEMMA StepV2Control ==
  ASSUME RecordsOK, ControlInv, RunStep
  PROVE  file'.profile = "v2" /\ V2Control' /\ call.at \in CallAt2 /\ UNCHANGED <<contract, decided>>
<1> USE DEF Write, Goto, Return, Idle
<1>0. /\ file.profile = "v2" /\ call.at \in CallAt2 /\ V2Control
      /\ file \in FileRecord /\ call \in CallRecord
  BY RunStepIsV2 DEF ControlInv, RecordsOK
<1>1. UNCHANGED <<contract, decided>>
  BY DEF RunStep, history, RunBegin, RunReserve, RunStart, RunReport, RunEnd, RunBroken, RunRecord,
    RunGate, RunVerify, RunExcept, RunUnreported, FinishExecute
<1> USE <1>0, <1>1 DEF V2Control
<1>2. CASE FinishExecute
  <2>1. /\ file'.profile = "v2" /\ file'.status \in {"completed", "failed"} /\ call'.at = "idle"
        /\ file'.current = file.current /\ file'.completed = file.completed
        /\ file'.checkpoint = file.checkpoint /\ file'.reason = file.reason
    BY <1>2 DEF FinishExecute, FileRecord
  <2> QED BY <2>1 DEF CallAt2
<1>3. ASSUME UNCHANGED file, call'.at \in CallAt2, call'.stage \in Stage
      PROVE  file'.profile = "v2" /\ V2Control'
  BY <1>3 DEF CallAt2
<1>4. ASSUME UNCHANGED file, NEW at \in CallAt2, Goto(at)
      PROVE  file'.profile = "v2" /\ V2Control'
  <2>1. call'.at = at /\ call'.stage = call.stage
    BY <1>4 DEF CallRecord
  <2> QED BY <1>3, <1>4, <2>1
<1>5. ASSUME UNCHANGED file, NEW at \in CallAt2, NEW outcome,
             call' = [call EXCEPT !.at = at, !.outcome = outcome]
      PROVE  file'.profile = "v2" /\ V2Control'
  <2>1. call'.at = at /\ call'.stage = call.stage
    BY <1>5 DEF CallRecord
  <2> QED BY <1>3, <1>5, <2>1
<1>6. \A at \in {"v2_reserve", "v2_except", "v2_agent", "v2_broken", "v2_working", "v2_record",
                 "v2_daily", "v2_end", "v2_unreported", "v2_gate", "v2_verify"} : at \in CallAt2
  BY DEF CallAt2
<1> HIDE DEF Goto
<1>7. CASE RunBegin \/ RunReserve \/ RunStart \/ RunEnd \/ RunReport
  BY <1>4, <1>6, <1>7 DEF RunBegin, RunReserve, RunStart, RunEnd, RunReport
<1>8. ASSUME NEW passed \in BOOLEAN, RunBroken(passed) PROVE file'.profile = "v2" /\ V2Control'
  BY <1>4, <1>6, <1>8 DEF RunBroken
<1>9. ASSUME NEW passed \in BOOLEAN, RunRecord(passed) PROVE file'.profile = "v2" /\ V2Control'
  <2>1. /\ file' = file /\ call'.at \in {"v2_gate", "v2_reserve", "v2_verify"}
        /\ call'.stage \in {"presentation", call.stage}
    BY <1>9 DEF RunRecord, CallRecord
  <2> QED BY <1>3, <1>6, <2>1 DEF Stage
<1>10. CASE RunGate \/ RunVerify \/ RunExcept \/ RunUnreported
  BY <1>4, <1>5, <1>6, <1>10 DEF RunGate, RunVerify, RunExcept, RunUnreported
<1> QED BY <1>2, <1>7, <1>8, <1>9, <1>10 DEF RunStep

(* Steps that no controller takes.                                         *)
LEMMA LaneStepWorks ==
  ASSUME NEW l \in Lane, LaneStep(l)
  PROVE  lane[l].at \in LaneWorks /\ UNCHANGED <<contract, file, call, shown, decided, crashed>>
  BY DEF LaneStep, LaneBegin, LaneReserve, LaneStartAgent,
      LaneEndAgent, LaneRecord, LaneVerify, LaneFail, LaneWorks, history

LEMMA LaneStepInRegion ==
  ASSUME RecordsOK, ControlInv, LaneInv, NEW l \in Lane, LaneStep(l)
  PROVE  file.profile = "v4" /\ call.at = "lanes"
<1>1. lane[l].at \in LaneWorks /\ lane[l].at # "none"
  BY LaneStepWorks DEF LaneWorks
<1> QED BY <1>1 DEF LaneInv

LEMMA StepControl ==
  ASSUME RecordsOK, ControlInv, EdgeInv, LaneInv, [Next]_vars
  PROVE  ControlInv'
<1>0. file \in FileRecord /\ call \in CallRecord
  BY DEF RecordsOK
<1>1. ASSUME UNCHANGED <<contract, file, call, decided, ran>> PROVE ControlInv'
  BY <1>1 DEF ControlInv, V2Control, V4Status, V4Place, V4Checkpoint, Role
<1>2. ASSUME file'.profile = "v4", V4Control' PROVE ControlInv'
  BY <1>2 DEF ControlInv, V4Control
<1>3. ASSUME file'.profile = "v2", V2Control' PROVE ControlInv'
  BY <1>3 DEF ControlInv
<1>4. CASE CallStep
  BY <1>2, <1>4, StepV4Control
<1>5. CASE RunStep
  BY <1>3, <1>5, StepV2Control
<1>6. ASSUME NEW l \in Lane, LaneStep(l) PROVE ControlInv'
  <2>1. file.profile = "v4" /\ UNCHANGED <<contract, file, call>>
    BY <1>6, LaneStepWorks, LaneStepInRegion
  <2> QED BY <1>2, <2>1 DEF ControlInv, V4Control, V4Status, V4Place, V4Checkpoint, Role
<1>7. ASSUME NEW c \in Contract, Prepare(c) PROVE ControlInv'
  <2>1. /\ file'.profile = "v4" /\ file'.status = "prepared" /\ file'.checkpoint = NoCheckpoint
        /\ call' = Idle /\ contract' \in Admitted
    BY <1>7 DEF Prepare, Prepared, Write, NoFile, local
  <2> QED BY <1>2, <2>1 DEF V4Control, V4Status, V4Place, V4Checkpoint, Idle, NoCheckpoint,
        CallAt4, CallAt2, AtAgent, InRegion
<1>8. ASSUME NEW c \in Contract, PrepareV2(c) PROVE ControlInv'
  <2>1. /\ file'.profile = "v2" /\ file'.status = "prepared" /\ file'.checkpoint = NoCheckpoint
        /\ file'.current = NoNode /\ file'.completed = {} /\ file'.reason = "none"
        /\ call' = Idle /\ contract' \in AdmittedV2
    BY <1>8 DEF PrepareV2, Prepared, Write, NoFile, local
  <2>2. decided' = {}
    BY <1>8 DEF PrepareV2, ControlInv, NoFile, history
  <2> QED BY <1>3, <2>1, <2>2 DEF V2Control, Idle, CallAt2
<1>9. CASE Start
  <2>1. /\ file'.profile = "v4" /\ file'.status = "running" /\ file'.checkpoint = file.checkpoint
        /\ call'.at = "authorized" /\ contract' = contract /\ file.profile = "v4"
    BY <1>0, <1>9 DEF Start, Write, Goto, FileRecord, CallRecord
  <2> QED BY <1>2, <2>1 DEF ControlInv, V4Control, V4Status, V4Place, V4Checkpoint,
        CallAt4, CallAt2, AtAgent, InRegion
<1>10. CASE Execute
  <2>1. /\ file'.profile = "v2" /\ file'.status = "executing" /\ file'.checkpoint = file.checkpoint
        /\ file'.current = file.current /\ file'.completed = file.completed
        /\ file'.reason = file.reason /\ call'.at = "v2_begin" /\ call'.stage = "research"
        /\ UNCHANGED <<contract, decided>> /\ file.profile = "v2"
    BY <1>0, <1>10 DEF Execute, Write, Idle, FileRecord, history
  <2> QED BY <1>3, <2>1 DEF ControlInv, V2Control, CallAt2, Stage
<1>11. ASSUME NEW fp \in shown, NEW d \in {"approved", "rejected"}, Decide(fp, d)
       PROVE  ControlInv'
  <2>1. /\ file.profile = "v4" /\ file.status = "paused" /\ UNCHANGED <<contract, file>>
        /\ call'.at = "deciding" /\ call'.decision = d /\ call'.seen = file.checkpoint.node
    BY <1>11 DEF Decide, FingerprintMatches, Fingerprint, Idle
  <2> QED BY <1>2, <2>1 DEF ControlInv, V4Control, V4Status, V4Place, V4Checkpoint, Role,
        CallAt4, CallAt2, AtAgent, InRegion
<1>12. CASE Crash \/ Escape
  <2>1. /\ UNCHANGED <<contract, file, decided, ran>> /\ call' = Idle
    BY <1>12 DEF Crash, Escape, Return
  <2>2. CASE file.profile = "v4"
    BY <1>2, <2>1, <2>2 DEF ControlInv, V4Control, V4Status, V4Place, V4Checkpoint, Role,
        Idle, CallAt4, CallAt2, AtAgent, InRegion
  <2>3. CASE file.profile = "v2"
    BY <1>3, <2>1, <2>3 DEF ControlInv, V2Control, Idle, CallAt2
  <2>4. CASE file.profile = "none"
    BY <1>12, <2>4 DEF ControlInv, Crash, Escape, Unhandled, Idle
  <2> QED BY <1>0, <2>2, <2>3, <2>4 DEF FileRecord, Profile
<1>13. ASSUME NEW t \in Task, Charge(t) \/ TimePasses(t) PROVE ControlInv'
  BY <1>1, <1>13 DEF Charge, TimePasses, local, history
<1>14. CASE Show \/ UNCHANGED vars
  BY <1>1, <1>14 DEF Show, vars, local, history
<1> QED BY <1>4, <1>5, <1>6, <1>7, <1>8, <1>9, <1>10, <1>11, <1>12, <1>13, <1>14 DEF Next

-----------------------------------------------------------------------------
(* Work follows the edges.                                                 *)

(* A step from the current node to a child enters a node whose one parent  *)
(* is the current one, and that was not visited before.                    *)
LEMMA ChildIsNew ==
  ASSUME RecordsOK, ControlInv, EdgeInv, file.profile = "v4", file.current # NoNode,
         Role(file.current) # "parallel_fork", NEW m \in Children(contract, file.current)
  PROVE  /\ contract \in Admitted /\ file.current \in contract.node
         /\ m \in contract.node /\ m # NoNode /\ contract.depends[m] = {file.current}
         /\ m \notin file.completed /\ m # file.current
         /\ IsParallel(contract) => m \notin LaneNodes \cup {Join(contract)}
<1> DEFINE n == file.current
<1>1. contract \in Admitted /\ contract \in Contract /\ Shaped(contract)
  BY AdmittedShaped DEF ControlInv
<1>2. n \in contract.node /\ m \in contract.node /\ n \in contract.depends[m]
  BY DEF EdgeInv, Visited, Children
<1>3. m # NoNode /\ m # n
  BY <1>1, <1>2, ContractIs DEF Shaped
<1>4. m \notin file.completed
  BY <1>2 DEF EdgeInv, Visited
<1>5. CASE ~IsParallel(contract)
  <2>1. contract.role[m] # "parallel_join"
    BY <1>2, <1>5 DEF IsParallel, ParallelRole
  <2> QED BY <1>1, <1>2, <1>3, <1>4, <1>5, <2>1 DEF Shaped
<1>6. CASE IsParallel(contract)
  <2>1. ForkShaped(contract) /\ n \notin LaneNodes /\ n # Fork(contract)
    BY <1>1, <1>6, AdmittedForkShaped, ForkIs DEF EdgeInv, Role
  <2>2. m # Join(contract)
    <3>1. contract.depends[Join(contract)] \subseteq LaneNodes
      BY <2>1 DEF ForkShaped, LaneNodes
    <3> QED BY <1>2, <2>1, <3>1
  <2>3. contract.role[m] # "parallel_join"
    BY <1>2, <2>1, <2>2 DEF ForkShaped, Having
  <2>4. contract.depends[m] = {n}
    BY <1>1, <1>2, <2>3 DEF Shaped
  <2>5. m \notin LaneNodes
    <3>1. SUFFICES ASSUME NEW r \in Children(contract, Fork(contract)),
                          m \in {r} \cup Children(contract, r)
                   PROVE  FALSE
      BY DEF LaneNodes
    <3>2. CASE m = r
      BY <2>1, <2>4, <3>2 DEF ForkShaped
    <3>3. CASE m \in Children(contract, r)
      <4>1. n = r
        BY <2>4, <3>3 DEF Children
      <4>2. r \in LaneNodes
        BY DEF LaneNodes
      <4> QED BY <2>1, <4>1, <4>2
    <3> QED BY <3>1, <3>2, <3>3
  <2> QED BY <1>1, <1>2, <1>3, <1>4, <2>2, <2>4, <2>5
<1> QED BY <1>5, <1>6

LEMMA EdgeFrame ==
  ASSUME EdgeInv, UNCHANGED <<contract, decided>>, file'.profile = file.profile,
         file'.current = file.current, file'.completed = file.completed
  PROVE  EdgeInv'
  BY DEF EdgeInv, Visited, Role, LaneNodes

(* The current node is completed and a child of it entered.                *)
LEMMA EdgeMoves ==
  ASSUME RecordsOK, ControlInv, EdgeInv, file.profile = "v4", file.current # NoNode,
         Role(file.current) # "parallel_fork",
         contract' = contract, file'.profile = "v4",
         file'.completed = file.completed \cup {file.current},
         file'.current \in Children(contract, file.current) \cup {NoNode},
         \/ decided' = decided
         \/ \E d : /\ decided' = decided \cup {d} /\ d.node = file.current
                   /\ Role(d.node) = "approval"
                   /\ file'.current # NoNode => contract.cond[file'.current] = d.decision
  PROVE  EdgeInv'
<1> DEFINE n == file.current
           m == file'.current
<1>1. n \in contract.node /\ n \notin file.completed /\ contract.depends[n] \subseteq file.completed
  BY DEF EdgeInv, Visited
<1>2. m # NoNode => /\ m \in contract.node /\ contract.depends[m] = {n}
                    /\ m \notin file.completed /\ m # n
                    /\ IsParallel(contract) => m \notin LaneNodes \cup {Join(contract)}
  BY ChildIsNew
<1>3. NoNode \notin contract.node /\ file.completed \subseteq contract.node
  BY AdmittedShaped, ContractIs DEF ControlInv, EdgeInv, Visited
<1>4. /\ \A x \in Visited' : x \in file.completed \/ x = n \/ (x = m /\ m # NoNode)
      /\ Visited' \subseteq contract.node
  BY <1>1, <1>2, <1>3 DEF Visited
<1>5. file'.current \notin file'.completed
  BY <1>1, <1>2, <1>3
<1>6. \A x \in Visited' : contract.depends[x] \subseteq file'.completed
  BY <1>1, <1>2, <1>4 DEF EdgeInv, Visited
<1>7. \A d \in decided' : d.node \in file'.completed /\ Role(d.node) = "approval"
  BY DEF EdgeInv
<1>8. ASSUME NEW d \in decided', NEW x \in Visited', d.node \in contract.depends[x]
      PROVE  contract.cond[x] = d.decision
  <2>1. CASE x \in file.completed \/ x = n
    <3>1. d.node \in file.completed
      BY <1>1, <1>8, <2>1 DEF EdgeInv, Visited
    <3>2. d \in decided
      BY <1>1, <3>1
    <3> QED BY <1>8, <2>1, <3>2 DEF EdgeInv, Visited
  <2>2. CASE x = m /\ m # NoNode
    <3>1. d.node = n
      BY <1>2, <1>8, <2>2
    <3>2. d \notin decided
      BY <1>1, <3>1 DEF EdgeInv
    <3> QED BY <2>2, <3>2
  <2> QED BY <1>4, <2>1, <2>2
<1>9. ASSUME IsParallel(contract)
      PROVE  /\ file'.current \notin LaneNodes \cup {Join(contract)}
             /\ Fork(contract) \notin file'.completed =>
                  file'.completed \cap (LaneNodes \cup {Join(contract)}) = {}
  <2>1. n \notin LaneNodes \cup {Join(contract)} /\ LaneNodes \cup {Join(contract)} \subseteq contract.node
    BY <1>9, LaneNodesAre, ForkIs DEF EdgeInv, ControlInv
  <2> QED BY <1>2, <1>3, <1>9, <2>1 DEF EdgeInv
<1> HIDE DEF n, m
<1> QED BY <1>4, <1>5, <1>6, <1>7, <1>8, <1>9 DEF EdgeInv, Role, LaneNodes

(* Behind the region: its nodes are new, and so is what follows the join.  *)
LEMMA JoinIsNew ==
  ASSUME RecordsOK, ControlInv, EdgeInv, call.at \in InRegion,
         NEW m \in Successor(Join(contract))
  PROVE  /\ contract \in Admitted /\ IsParallel(contract)
         /\ file.completed \cap (LaneNodes \cup {Join(contract)}) = {}
         /\ m \in contract.node /\ m # NoNode /\ contract.depends[m] = {Join(contract)}
         /\ m \notin file.completed \cup {Join(contract), Fork(contract)} \cup LaneNodes
<1>1. /\ file.profile = "v4" /\ contract \in Admitted /\ IsParallel(contract)
      /\ file.current = Fork(contract) /\ file.current \in contract.node
      /\ Join(contract) \in contract.node /\ LaneNodes \subseteq contract.node
      /\ ForkShaped(contract) /\ Shaped(contract)
  BY RegionIs
<1>2. JoinShaped(contract) /\ contract \in Contract
  BY <1>1, AdmittedJoinShaped, AdmittedShaped
<1>3. Fork(contract) \notin file.completed
  BY <1>1 DEF EdgeInv
<1>4. file.completed \cap (LaneNodes \cup {Join(contract)}) = {}
  BY <1>1, <1>3 DEF EdgeInv
<1>5. m \in Children(contract, Join(contract)) /\ contract.role[m] = "decision"
  BY <1>2 DEF Successor, JoinShaped
<1>6. m \in contract.node /\ m # NoNode /\ Join(contract) \in contract.depends[m]
  BY <1>2, <1>5, ContractIs DEF Children
<1>7. contract.depends[m] = {Join(contract)}
  BY <1>1, <1>5, <1>6 DEF Shaped
<1>8. m \notin file.completed
  BY <1>1, <1>4, <1>7 DEF EdgeInv, Visited
<1>9. m \notin LaneNodes /\ m # Join(contract) /\ m # Fork(contract)
  <2>1. m # Join(contract) /\ m # Fork(contract)
    BY <1>1, <1>5, ForkIs
  <2>2. SUFFICES ASSUME NEW r \in Children(contract, Fork(contract)),
                        m \in {r} \cup Children(contract, r)
                 PROVE  FALSE
    BY <2>1 DEF LaneNodes
  <2> QED BY <1>1, <1>5, <2>2 DEF ForkShaped
<1> QED BY <1>1, <1>4, <1>6, <1>7, <1>8, <1>9

LEMMA EdgeLeaves ==
  ASSUME RecordsOK, ControlInv, EdgeInv, call.at \in InRegion,
         UNCHANGED <<contract, decided>>, file'.profile = "v4",
         file'.completed = file.completed \cup {Join(contract), Fork(contract)} \cup LaneNodes,
         file'.current \in Successor(Join(contract))
  PROVE  EdgeInv'
<1> DEFINE m == file'.current
<1>1. /\ file.profile = "v4" /\ contract \in Admitted /\ IsParallel(contract)
      /\ file.current = Fork(contract) /\ file.current \in contract.node
      /\ Join(contract) \in contract.node /\ LaneNodes \subseteq contract.node
      /\ ForkShaped(contract) /\ Shaped(contract)
  BY RegionIs
<1>2. /\ file.completed \cap (LaneNodes \cup {Join(contract)}) = {}
      /\ m \in contract.node /\ m # NoNode /\ contract.depends[m] = {Join(contract)}
      /\ m \notin file'.completed
  BY JoinIsNew
<1>3. \A x \in LaneNodes : contract.depends[x] \subseteq LaneNodes \cup {Fork(contract)}
                           /\ contract.role[x] # "approval"
                           /\ \A y \in contract.depends[x] : contract.role[y] # "approval"
  <2> SUFFICES ASSUME NEW r \in Children(contract, Fork(contract)),
                      NEW x \in {r} \cup Children(contract, r)
               PROVE  /\ contract.depends[x] \subseteq LaneNodes \cup {Fork(contract)}
                      /\ contract.role[x] # "approval"
                      /\ \A y \in contract.depends[x] : contract.role[y] # "approval"
    BY DEF LaneNodes
  <2>1. r \in LaneNodes /\ contract.role[r] = "research" /\ contract.depends[r] = {Fork(contract)}
    BY <1>1 DEF LaneNodes, ForkShaped
  <2>2. contract.role[Fork(contract)] = "parallel_fork"
    BY <1>1, ForkIs
  <2>3. CASE x = r
    BY <2>1, <2>2, <2>3
  <2>4. CASE x \in Children(contract, r)
    <3>1. contract.role[x] = "presentation" /\ contract.depends[x] = {r}
      BY <1>1, <2>4 DEF ForkShaped
    <3> QED BY <2>1, <3>1
  <2> QED BY <2>3, <2>4
<1>4. /\ contract.depends[Join(contract)] \subseteq LaneNodes
      /\ contract.role[Join(contract)] = "parallel_join"
  BY <1>1, ForkIs DEF ForkShaped, LaneNodes
<1>5. contract.depends[Fork(contract)] \subseteq file.completed /\ file.completed \subseteq contract.node
  BY <1>1, AdmittedShaped, ContractIs DEF EdgeInv, Visited
<1>6. Visited' = file.completed \cup {Join(contract), Fork(contract), m} \cup LaneNodes
  BY <1>2 DEF Visited
<1>7. Visited' \subseteq contract.node
  BY <1>1, <1>2, <1>5, <1>6
<1>8. \A x \in Visited' : contract.depends[x] \subseteq file'.completed
  BY <1>1, <1>2, <1>3, <1>4, <1>5, <1>6 DEF EdgeInv, Visited
<1>9. \A d \in decided' : d.node \in file'.completed /\ Role(d.node) = "approval"
  BY <1>1 DEF EdgeInv
<1>10. ASSUME NEW d \in decided', NEW x \in Visited', d.node \in contract.depends[x]
       PROVE  contract.cond[x] = d.decision
  <2>0. d \in decided /\ contract.role[d.node] = "approval" /\ d.node \in file.completed
    BY <1>1 DEF EdgeInv, Role
  <2>1. CASE x \in file.completed \cup {Fork(contract)}
    BY <1>1, <1>10, <2>0, <2>1, AdmittedShaped, ContractIs DEF EdgeInv, Visited
  <2>2. CASE x \in LaneNodes
    BY <1>3, <1>10, <2>0, <2>2
  <2>3. CASE x = Join(contract)
    BY <1>3, <1>4, <1>10, <2>0, <2>3
  <2>4. CASE x = m
    BY <1>2, <1>4, <1>10, <2>0, <2>4
  <2> QED BY <1>6, <2>1, <2>2, <2>3, <2>4
<1>11. file'.current \notin LaneNodes \cup {Join(contract)} /\ Fork(contract) \in file'.completed
  BY <1>2
<1> HIDE DEF m
<1> QED BY <1>2, <1>7, <1>8, <1>9, <1>10, <1>11 DEF EdgeInv, Role, LaneNodes, m

(* A workflow begins at the root, outside the lanes.                       *)
LEMMA EdgeBegins ==
  ASSUME RecordsOK, ControlInv, NEW c \in Contract, Prepare(c)
  PROVE  EdgeInv'
<1> DEFINE r == CHOOSE r \in c.node : c.depends[r] = {}
<1>1. c \in Admitted /\ contract' = c /\ Shaped(c)
  BY AdmittedShaped DEF Prepare
<1>2. r \in c.node /\ c.depends[r] = {} /\ c.role[r] = "input"
  BY <1>1, RootIs
<1>3. r # NoNode
  BY <1>2, ContractIs
<1>4. file'.current = r /\ file'.completed = {}
  BY DEF Prepare, Prepared, Write, NoFile
<1>5. decided' = {}
  BY DEF Prepare, ControlInv, NoFile, history
<1>6. IsParallel(c) => r \notin LanesOf(c) \cup {Join(c)}
  <2> SUFFICES ASSUME IsParallel(c) PROVE r \notin LanesOf(c) \cup {Join(c)}
    OBVIOUS
  <2>1. ForkShaped(c) /\ c.role[Join(c)] = "parallel_join"
    BY <1>1, AdmittedForkShaped, ForkIs
  <2> HIDE DEF r
  <2>2. \A x \in Children(c, Fork(c)) :
          r # x /\ \A y \in Children(c, x) : r # y
    BY <1>2, <2>1 DEF ForkShaped
  <2>3. r \notin LanesOf(c)
    BY <2>2 DEF LanesOf
  <2> QED BY <1>2, <2>1, <2>3
<1>7. LaneNodes' = LanesOf(c)
  BY <1>1 DEF LaneNodes, LanesOf
<1> HIDE DEF r
<1> QED BY <1>1, <1>2, <1>3, <1>4, <1>5, <1>6, <1>7 DEF EdgeInv, Visited

LEMMA StepEdge ==
  ASSUME RecordsOK, ControlInv, EdgeInv, [Next]_vars
  PROVE  EdgeInv'
<1> USE DEF Write
<1>0. file \in FileRecord /\ call \in CallRecord
  BY DEF RecordsOK
<1>1. ASSUME UNCHANGED <<contract, decided, file>> PROVE EdgeInv'
  BY <1>1, EdgeFrame
<1>2. ASSUME UNCHANGED <<contract, decided>>, file'.profile = file.profile,
             file'.current = file.current, file'.completed = file.completed
      PROVE EdgeInv'
  BY <1>2, EdgeFrame
<1>3. ASSUME NEW c \in Contract, Prepare(c) PROVE EdgeInv'
  BY <1>3, EdgeBegins
<1>4. ASSUME NEW c \in Contract, PrepareV2(c) PROVE EdgeInv'
  <2>1. file'.profile = "v2"
    BY <1>4 DEF PrepareV2, Prepared, NoFile
  <2> QED BY <2>1 DEF EdgeInv
<1>5. CASE Start \/ Execute
  <2>1. CASE Start
    BY <1>0, <1>2, <2>1 DEF Start, FileRecord, history
  <2>2. CASE Execute
    BY <1>0, <1>2, <2>2 DEF Execute, FileRecord, history
  <2> QED BY <1>5, <2>1, <2>2
<1>20. ASSUME CallStep PROVE EdgeInv'
  <2>0. file.profile = "v4" /\ V4Status /\ V4Place /\ V4Checkpoint
    BY <1>20, CallStepIsV4 DEF ControlInv
  <2>1. CASE Pass \/ Decision
    <3>1. file.current # NoNode /\ Role(file.current) # "parallel_fork"
      BY <2>0, <2>1 DEF Pass, Decision, At, V4Place
    <3>2. UNCHANGED <<contract, decided>>
      BY <1>0, <2>1, MoveWrites DEF history
    <3>3. \/ file' = file
          \/ /\ file'.completed = file.completed \cup {file.current}
             /\ file'.profile = "v4"
             /\ file'.current \in Children(contract, file.current)
      BY <1>0, <2>0, <2>1, MoveWrites DEF Successor, Branch
    <3> QED BY <1>1, <2>0, <3>1, <3>2, <3>3, EdgeMoves
  <2>2. CASE WriteDecision
    <3> DEFINE d == [node |-> file.checkpoint.node, revision |-> file.checkpoint.revision,
                     seen |-> call.seen, decision |-> call.decision]
    <3>1. /\ file.current # NoNode /\ Role(file.current) = "approval"
          /\ file.checkpoint.node = file.current
      BY <2>0, <2>2 DEF WriteDecision, V4Status, V4Checkpoint
    <3>2. decided' = decided \cup {d} /\ d.node = file.current /\ d.decision = call.decision
      BY <2>2, <3>1 DEF WriteDecision
    <3>3. /\ contract' = contract
          /\ file'.completed = file.completed \cup {file.current} /\ file'.profile = "v4"
          /\ \/ file'.current = NoNode
             \/ /\ file'.current \in Children(contract, file.current)
                /\ contract.cond[file'.current] = call.decision
      BY <1>0, <2>0, <2>2, <3>1, DecisionWrites DEF Branch
    <3> HIDE DEF d
    <3> QED BY <2>0, <3>1, <3>2, <3>3, EdgeMoves
  <2>3. CASE LeaveRegion
    <3>1. call.at \in InRegion /\ UNCHANGED <<contract, decided>>
      BY <1>0, <2>3, LeaveWrites DEF InRegion, history
    <3>2. \/ file' = file
          \/ /\ file'.completed = file.completed \cup {Join(contract), Fork(contract)} \cup LaneNodes
             /\ file'.profile = "v4" /\ file'.current \in Successor(Join(contract))
      BY <1>0, <2>0, <2>3, LeaveWrites
    <3> QED BY <1>1, <3>1, <3>2, EdgeLeaves
  <2>4. CASE Output
    <3>1. /\ file.current # NoNode /\ Role(file.current) = "output"
          /\ UNCHANGED <<contract, decided>>
      BY <2>4 DEF Output, At, history
    <3>2. /\ file'.completed = file.completed \cup {file.current}
          /\ file'.profile = "v4" /\ file'.current = NoNode
      BY <1>0, <2>0, <2>4 DEF Output, Completed, FileRecord
    <3> QED BY <2>0, <3>1, <3>2, EdgeMoves
  <2>5. CASE WriteBound \/ WriteLast \/ StartRegion \/ SpawnLanes
    <3>1. CASE WriteBound
      BY <1>0, <1>2, <3>1 DEF WriteBound, FileRecord, history
    <3>2. CASE WriteLast
      BY <1>0, <1>2, <3>2 DEF WriteLast, FileRecord, history
    <3>3. CASE StartRegion
      BY <1>0, <1>2, <3>3 DEF StartRegion, FileRecord, history
    <3>4. CASE SpawnLanes
      BY <1>0, <1>2, <3>4 DEF SpawnLanes, FileRecord, history
    <3> QED BY <2>5, <3>1, <3>2, <3>3, <3>4
  <2>6. CASE WriteRegion \/ Pause \/ FinishRejected
    <3>1. CASE WriteRegion
      BY <1>0, <1>2, <3>1 DEF WriteRegion, FileRecord, history
    <3>2. CASE Pause
      BY <1>0, <1>2, <3>2 DEF Pause, FileRecord, history
    <3>3. CASE FinishRejected
      BY <1>0, <1>2, <3>3 DEF FinishRejected, FileRecord, history
    <3> QED BY <2>6, <3>1, <3>2, <3>3
  <2>7. CASE FinishBlocked \/ WriteCompleted \/ MarkFailure
    <3>1. CASE FinishBlocked
      BY <1>0, <1>2, <3>1 DEF FinishBlocked, FileRecord, history
    <3>2. CASE WriteCompleted
      BY <1>0, <1>2, <3>2 DEF WriteCompleted, FileRecord, history
    <3>3. CASE MarkFailure
      BY <1>0, <1>2, <3>3 DEF MarkFailure, FileRecord, history
    <3> QED BY <2>7, <3>1, <3>2, <3>3
  <2>8. ASSUME NEW passed \in BOOLEAN, RecordNode(passed) PROVE EdgeInv'
    BY <1>1, <2>8 DEF RecordNode, history
  <2>9. CASE \/ EnterTry \/ Refused \/ Begin \/ ReserveNode \/ StartAgent \/ EndAgent \/ RunDaily
             \/ Wait \/ LanesEnd \/ RecordAggregate \/ FinishDone \/ MarkBlocked \/ MarkFailed
    BY <1>1, <2>9 DEF EnterTry, Refused, Begin, ReserveNode, StartAgent, EndAgent, RunDaily,
      Wait, LanesEnd, RecordAggregate, FinishDone, MarkBlocked, MarkFailed, history
  <2> QED BY <1>20, <2>1, <2>2, <2>3, <2>4, <2>5, <2>6, <2>7, <2>8, <2>9 DEF CallStep
<1>21. CASE RunStep
  BY <1>21, StepV2Control DEF EdgeInv
<1>22. ASSUME NEW l \in Lane, LaneStep(l) PROVE EdgeInv'
  BY <1>1, <1>22, LaneStepWorks
<1>23. ASSUME NEW t \in Task, Charge(t) \/ TimePasses(t) PROVE EdgeInv'
  BY <1>1, <1>23 DEF Charge, TimePasses, history
<1>24. ASSUME NEW fp \in shown, NEW d \in {"approved", "rejected"}, Decide(fp, d) PROVE EdgeInv'
  BY <1>1, <1>24 DEF Decide, history
<1>25. CASE Show \/ Crash \/ Escape \/ UNCHANGED vars
  BY <1>1, <1>25 DEF Show, Crash, Escape, vars, history
<1> QED BY <1>3, <1>4, <1>5, <1>20, <1>21, <1>22, <1>23, <1>24, <1>25 DEF Next

-----------------------------------------------------------------------------
(* The lane threads.                                                       *)

LEMMA InitLane == Init => LaneInv
  BY DEF Init, LaneInv, NoThread, LaneWorks

LEMMA LanesCleared ==
  ASSUME lane' = [l \in Lane |-> NoThread]
  PROVE  LaneInv'
  BY DEF LaneInv, NoThread, LaneWorks

LEMMA LanesQuiet ==
  ASSUME LaneInv, lane' = lane, call.at \notin LaneSpan
  PROVE  LaneInv'
<1>1. \A l \in Lane : lane[l].at = "none" /\ ~lane[l].verified
  BY DEF LaneInv
<1> QED BY <1>1 DEF LaneInv, LaneWorks

LEMMA ResultOf ==
  ASSUME TasksOK, NEW t \in Task, NEW v \in Validator, NEW passed, RecordResult(t, v, passed),
         NEW u \in Task, u # t
  PROVE  results'[u] = results[u]
  BY DEF TasksOK, RecordResult

LEMMA StatusOf ==
  ASSUME TasksOK, NEW t \in Task, NEW s, SetStatus(t, s)
  PROVE  status'[t] = s /\ \A u \in Task : u # t => status'[u] = status[u]
  BY DEF TasksOK, SetStatus

LEMMA AgentStatusOf ==
  ASSUME TasksOK, NEW t \in Task, NEW stage,
         \/ AgentStarts(t, stage) \/ AgentRefuses(t, stage)
         \/ AgentReturns(t, stage) \/ AgentRaises(t, stage)
  PROVE  /\ \A u \in Task : u # t => status'[u] = status[u]
         /\ status[t] # "DONE" => status'[t] # "DONE"
<1>1. \/ UNCHANGED status
      \/ \E s \in TaskStatus : SetStatus(t, s) /\ (status[t] # "DONE" => s # "DONE")
  BY DEF AgentStarts, AgentRefuses, AgentReturns, AgentRaises, TasksOK, TaskStatus
<1> QED BY <1>1, StatusOf

LEMMA StageResultOf ==
  ASSUME TasksOK, NEW t \in Task, NEW stage, NEW passed, RecordStage(t, stage, passed),
         NEW u \in Task, u # t
  PROVE  results'[u] = results[u]
<1>1. StageValidator(stage) \in Validator
  BY DEF StageValidator, Validator
<1> QED BY <1>1, ResultOf DEF RecordStage

(* A step of a lane touches nothing of the other tasks.                    *)
LEMMA LaneStepOwn ==
  ASSUME RecordsOK, NEW l \in Lane, LaneStep(l)
  PROVE  /\ \A t \in Task \ {l} : status'[t] = status[t] /\ results'[t] = results[t]
         /\ \A k \in Lane \ {l} : lane'[k] = lane[k]
<1> USE ParentIsTask
<1>0. TasksOK /\ lane \in [Lane -> ThreadRecord]
  BY DEF RecordsOK
<1>v. \A v \in {"policy", "evidence", "schema"} : v \in Validator
  BY DEF Validator
<1>1. \A k \in Lane \ {l} : lane'[k] = lane[k]
  BY <1>0 DEF LaneStep, LaneBegin, LaneReserve, LaneStartAgent,
      LaneEndAgent, LaneRecord, LaneVerify, LaneFail, LaneGoto
<1>2. CASE LaneBegin(l)
  BY <1>0, <1>1, <1>2, <1>v, ResultOf DEF LaneBegin
<1>3. CASE LaneReserve(l)
  BY <1>1, <1>3 DEF LaneReserve
<1>4. CASE LaneStartAgent(l) \/ LaneEndAgent(l)
  BY <1>0, <1>1, <1>4, AgentStatusOf DEF LaneStartAgent, LaneEndAgent
<1>5. ASSUME NEW passed \in BOOLEAN, LaneRecord(l, passed)
      PROVE  \A t \in Task \ {l} : status'[t] = status[t] /\ results'[t] = results[t]
  BY <1>0, <1>5, StageResultOf DEF LaneRecord
<1>6. CASE LaneVerify(l) \/ LaneFail(l)
  BY <1>0, <1>1, <1>6, StatusOf DEF LaneVerify, LaneFail
<1> QED BY <1>1, <1>2, <1>3, <1>4, <1>5, <1>6 DEF LaneStep

LEMMA StepLaneInv ==
  ASSUME RecordsOK, ControlInv, LaneInv, [Next]_vars
  PROVE  LaneInv'
<1> USE ParentIsTask
<1> USE DEF Goto, Raise, Idle
<1>0. TasksOK /\ file \in FileRecord /\ call \in CallRecord /\ lane \in [Lane -> ThreadRecord]
  BY DEF RecordsOK
<1>v. \A v \in {"policy", "evidence", "schema"} : v \in Validator
  BY DEF Validator
<1>1. ASSUME UNCHANGED <<lane, status, results>>, call'.at = call.at, file'.profile = file.profile
      PROVE LaneInv'
  BY <1>1 DEF LaneInv, Verified
<1>2. CASE LeaveRegion \/ MarkFailure \/ Crash \/ Escape
  BY <1>2, LanesCleared DEF LeaveRegion, MarkFailure, Crash, Escape
<1>3. CASE SpawnLanes
  <2>1. /\ call'.at = "lanes" /\ call.at = "spawn"
        /\ \A l \in Lane : lane'[l].at = "begin" /\ lane'[l].verified = FALSE
    BY <1>0, <1>3 DEF SpawnLanes, NoThread, CallRecord
  <2>2. CallStep
    BY <1>3 DEF CallStep
  <2>3. file'.profile = "v4"
    BY <1>0, <1>3, <2>2, CallStepIsV4 DEF SpawnLanes, Write, FileRecord
  <2> QED BY <2>1, <2>3 DEF LaneInv, LaneSpan
<1>4. CASE LanesEnd
  <2>1. /\ UNCHANGED <<file, lane, status, results>>
        /\ call'.at \in {"raised", "join_evidence"}
        /\ \A l \in Lane : lane[l].at \notin LaneWorks
    BY <1>0, <1>4 DEF LanesEnd, LaneOver, LaneWorks, CallRecord, tasks
  <2>2. call.at = "lanes"
    BY <1>4 DEF LanesEnd
  <2> QED BY <2>1, <2>2 DEF LaneInv, LaneSpan, Verified
<1>5. CASE RecordAggregate \/ WriteRegion
  <2>1. /\ UNCHANGED <<lane, status>> /\ file'.profile = file.profile
        /\ call.at # "lanes" /\ call'.at \in {"join_schema", "joined", "leave"}
    <3>1. CASE RecordAggregate
      BY <1>0, <3>1 DEF RecordAggregate, CallRecord
    <3>2. CASE WriteRegion
      BY <1>0, <3>2 DEF WriteRegion, Write, FileRecord, CallRecord, tasks
    <3> QED BY <1>5, <3>1, <3>2
  <2>2. \A l \in Lane : results'[l] = results[l]
    <3>1. CASE RecordAggregate
      BY <1>0, <1>v, <3>1, ResultOf DEF RecordAggregate
    <3>2. CASE WriteRegion
      BY <3>2 DEF WriteRegion, tasks
    <3> QED BY <1>5, <3>1, <3>2
  <2> QED BY <2>1, <2>2 DEF LaneInv, LaneSpan, Verified
<1>6. ASSUME NEW l \in Lane, LaneStep(l) PROVE LaneInv'
  <2>1. /\ file.profile = "v4" /\ call.at = "lanes" /\ lane[l].at \in LaneWorks
        /\ UNCHANGED <<contract, file, call>>
    BY <1>6, LaneStepWorks, LaneStepInRegion
  <2>2. \A k \in Lane \ {l} : /\ lane'[k] = lane[k]
                              /\ status'[k] = status[k] /\ results'[k] = results[k]
    BY <1>6, LaneStepOwn
  <2>3. ~lane[l].verified
    BY <2>1 DEF LaneInv, LaneWorks
  <2>4. lane'[l].verified => lane'[l].at = "ended" /\ status'[l] = "DONE" /\ Verified(l)'
    <3>1. CASE LaneVerify(l)
      <4>1. lane'[l].at = "ended" /\ lane'[l].verified = Verified(l) /\ results' = results
        BY <1>0, <3>1 DEF LaneVerify, ThreadRecord
      <4>2. Verified(l) => status'[l] = "DONE"
        BY <1>0, <3>1, StatusOf DEF LaneVerify
      <4> QED BY <4>1, <4>2 DEF Verified
    <3>2. CASE ~LaneVerify(l)
      <4>1. lane'[l].verified = lane[l].verified
        BY <1>0, <1>6, <3>2 DEF LaneStep, LaneBegin, LaneReserve, LaneStartAgent,
          LaneEndAgent, LaneRecord, LaneFail, LaneGoto, ThreadRecord
      <4> QED BY <2>3, <4>1
    <3> QED BY <3>1, <3>2
  <2> QED BY <2>1, <2>2, <2>4 DEF LaneInv, LaneSpan, Verified
<1>7. ASSUME NEW t \in Task, Charge(t) \/ TimePasses(t) PROVE LaneInv'
  BY <1>1, <1>7 DEF Charge, TimePasses, Expire, local
<1>8. CASE Show \/ UNCHANGED vars
  BY <1>1, <1>8 DEF Show, vars, local, tasks
<1>9. CASE RunStep
  <2>1. call.at \notin LaneSpan
    BY <1>9, RunStepIsV2 DEF LaneSpan, CallAt2
  <2>2. lane' = lane
    BY <1>9 DEF RunStep, RunBegin, RunReserve, RunStart, RunReport, RunEnd, RunBroken, RunRecord,
      RunGate, RunVerify, RunExcept, RunUnreported, FinishExecute
  <2> QED BY <2>1, <2>2, LanesQuiet
<1>10. ASSUME CallStep, ~LeaveRegion, ~MarkFailure, ~SpawnLanes, ~LanesEnd, ~RecordAggregate,
              ~WriteRegion
       PROVE  LaneInv'
  <2>1. call.at \notin LaneSpan /\ lane' = lane
    BY <1>10 DEF CallStep, LaneSpan, Pass, Decision, At, EnterTry, Refused, Begin, Begins, WriteBound,
      ReserveNode, StartAgent, EndAgent, RecordNode, WriteLast, RunDaily, Pause, Wait,
      WriteDecision, StartRegion, Output, FinishRejected,
      FinishBlocked, FinishDone, WriteCompleted, MarkBlocked, MarkFailed
  <2> QED BY <2>1, LanesQuiet
<1>11. ASSUME call = Idle, lane' = lane PROVE LaneInv'
  BY <1>11, LanesQuiet DEF LaneSpan
<1>12. ASSUME NEW fp \in shown, NEW d \in {"approved", "rejected"}, Decide(fp, d) PROVE LaneInv'
  BY <1>11, <1>12 DEF Decide
<1>13. ASSUME NEW c \in Contract, Prepare(c) \/ PrepareV2(c) PROVE LaneInv'
  BY <1>11, <1>13 DEF Prepare, PrepareV2, local
<1>14. CASE Start \/ Execute
  BY <1>11, <1>14 DEF Start, Execute
<1> QED BY <1>2, <1>3, <1>4, <1>5, <1>6, <1>7, <1>8, <1>9, <1>10, <1>12, <1>13, <1>14 DEF Next

-----------------------------------------------------------------------------
(* The budget of the workflow.                                             *)

LEMMA StepBudget ==
  ASSUME [Next]_vars
  PROVE  BudgetStep
<1> USE ParentIsTask DEF BudgetStep
<1>1. ASSUME CallStep PROVE BudgetStep
  BY <1>1 DEF CallStep, tasks, Pass, Decision, EnterTry, Refused, Begin, WriteBound, ReserveNode,
      StartAgent, RunDaily, EndAgent, RecordNode, WriteLast, Pause, Wait, WriteDecision,
      StartRegion, SpawnLanes, LanesEnd, RecordAggregate, WriteRegion, LeaveRegion, Output,
      FinishRejected, FinishBlocked, FinishDone, WriteCompleted, MarkBlocked, MarkFailure,
      MarkFailed
<1>2. ASSUME RunStep PROVE BudgetStep
  BY <1>2 DEF RunStep, tasks, RunBegin, RunReserve, RunStart, RunReport, RunEnd, RunBroken,
      RunRecord, RunGate, RunVerify, RunExcept, RunUnreported, FinishExecute
<1>3. ASSUME NEW l \in Lane, LaneStep(l) PROVE BudgetStep
  BY <1>3 DEF LaneStep, LaneBegin, LaneReserve, LaneStartAgent, LaneEndAgent, LaneRecord,
      LaneVerify, LaneFail
<1>4. ASSUME NEW t \in Task, Charge(t) \/ TimePasses(t) PROVE BudgetStep
  BY <1>4 DEF Charge, TimePasses, Expire
<1>5. ASSUME NEW fp \in shown, NEW d \in {"approved", "rejected"}, Decide(fp, d) PROVE BudgetStep
  BY <1>5 DEF Decide
<1>6. ASSUME NEW c \in Contract, Prepare(c) \/ PrepareV2(c) PROVE BudgetStep
  BY <1>6 DEF Prepare, PrepareV2, tasks
<1>7. ASSUME Start \/ Execute \/ Show \/ Crash \/ Escape \/ UNCHANGED vars PROVE BudgetStep
  BY <1>7 DEF Start, Execute, Show, Crash, Escape, vars, tasks
<1> QED BY <1>1, <1>2, <1>3, <1>4, <1>5, <1>6, <1>7 DEF Next

LEMMA InitBudget == Init => AggregateBudget
  BY ParentIsTask, TaskAssumption DEF Init, TasksInit, AggregateBudget, Task

(* A grant of a lane is charged to the workflow too, and to no other lane. *)
LEMMA StepAggregate ==
  ASSUME TasksOK, AggregateBudget, [Next]_vars
  PROVE  AggregateBudget'
<1> USE ParentIsTask
<1>0. used \in [Task -> Nat] /\ granted \in [Task -> Nat] /\ MaxUnits \in Nat
  BY TaskAssumption DEF TasksOK
<1>1. CASE UNCHANGED <<used, granted>>
  BY <1>1 DEF AggregateBudget
<1>2. CASE Reserve(Parent)
  <2>1. /\ used'[Parent] = used[Parent] + 1 /\ used[Parent] < MaxUnits
        /\ granted'[Parent] = granted[Parent] + 1
        /\ \A l \in Lane : used'[l] = used[l] /\ granted'[l] = granted[l]
    BY <1>0, <1>2 DEF Reserve, Budgets, Task
  <2>2. \A l \in Lane : used[l] \in Nat /\ granted[l] \in Nat
    BY <1>0
  <2>3. used[Parent] \in Nat /\ granted[Parent] \in Nat
    BY <1>0
  <2> QED BY <1>0, <2>1, <2>2, <2>3 DEF AggregateBudget
<1>3. ASSUME NEW t \in Lane, Reserve(t) PROVE AggregateBudget'
  <2>1. /\ used'[Parent] = used[Parent] + 1 /\ used[Parent] < MaxUnits
        /\ granted'[Parent] = granted[Parent]
        /\ used'[t] = used[t] + 1 /\ granted'[t] = granted[t] + 1
        /\ \A l \in Lane \ {t} : used'[l] = used[l] /\ granted'[l] = granted[l]
    BY <1>0, <1>3 DEF Reserve, Budgets, Task
  <2>2. /\ \A l \in Lane : used[l] \in Nat /\ granted[l] \in Nat
        /\ used[Parent] \in Nat /\ granted[Parent] \in Nat
    BY <1>0
  <2>3. \A k, l \in Lane : k # l => t = k \/ t = l
    BY ExactlyTwo, TaskAssumption, ContractAssumption
  <2>4. ASSUME NEW k \in Lane, NEW l \in Lane, k # l
        PROVE  used'[Parent] = granted'[Parent] + granted'[k] + granted'[l]
    <3>1. used[Parent] = granted[Parent] + granted[k] + granted[l]
      BY <2>4 DEF AggregateBudget
    <3>2. CASE t = k
      BY <2>1, <2>2, <2>4, <3>1, <3>2
    <3>3. CASE t = l
      BY <2>1, <2>2, <2>4, <3>1, <3>3
    <3> QED BY <2>3, <2>4, <3>2, <3>3
  <2>5. used'[Parent] <= MaxUnits
    BY <1>0, <2>1, <2>2
  <2>6. \A l \in Lane : used'[l] = granted'[l]
    BY <2>1, <2>2 DEF AggregateBudget
  <2> QED BY <2>4, <2>5, <2>6 DEF AggregateBudget
<1> QED BY <1>1, <1>2, <1>3, StepBudget DEF BudgetStep, Task

-----------------------------------------------------------------------------
(* The beginning.                                                          *)

LEMMA InitControl == Init => ControlInv /\ EdgeInv
  BY DEF Init, ControlInv, EdgeInv, NoFile

-----------------------------------------------------------------------------
(* Decisions.                                                              *)

LEMMA StepDecision ==
  ASSUME RecordsOK, ControlInv, EdgeInv, DecisionInv, [Next]_vars
  PROVE  DecisionInv'
<1>1. CASE UNCHANGED decided
  BY <1>1 DEF DecisionInv
<1>2. CASE WriteDecision
  <2> DEFINE d == [node |-> file.checkpoint.node, revision |-> file.checkpoint.revision,
                   seen |-> call.seen, decision |-> call.decision]
  <2>0. CallStep
    BY <1>2 DEF CallStep
  <2>1. file.profile = "v4" /\ V4Status /\ V4Checkpoint /\ call.at = "deciding"
    BY <1>2, <2>0, CallStepIsV4 DEF ControlInv, WriteDecision
  <2>2. call.seen = file.checkpoint.node /\ file.checkpoint.node = file.current
    BY <2>1 DEF V4Status, V4Checkpoint
  <2>3. decided' = decided \cup {d} /\ d.seen = d.node /\ d.node = file.current
    BY <1>2, <2>2 DEF WriteDecision
  <2>4. \A x \in decided : x.node # file.current
    BY <2>1 DEF EdgeInv
  <2> HIDE DEF d
  <2> QED BY <2>3, <2>4 DEF DecisionInv
<1>3. CASE [Next]_vars /\ ~WriteDecision
  <2>1. UNCHANGED decided
  BY <1>3 DEF Next, vars, history, CallStep, Pass, Decision, EnterTry, Refused, Begin, WriteBound, ReserveNode,
      StartAgent, RunDaily,
      EndAgent, RecordNode, WriteLast, Pause, Wait, StartRegion, SpawnLanes,
      LanesEnd, RecordAggregate, WriteRegion, LeaveRegion, Output, FinishRejected,
      FinishBlocked, FinishDone, WriteCompleted, MarkBlocked, MarkFailure, MarkFailed,
      RunStep, RunBegin, RunReserve, RunStart, RunReport, RunEnd, RunBroken, RunRecord,
      RunGate, RunVerify, RunExcept, RunUnreported, FinishExecute,
      LaneStep, LaneBegin, LaneReserve, LaneStartAgent,
      LaneEndAgent, LaneRecord, LaneVerify, LaneFail, Charge, TimePasses, Decide,
      Prepare, PrepareV2, Start, Execute, Show, Crash, Escape
  <2> QED BY <1>1, <2>1
<1> QED BY <1>2, <1>3

-----------------------------------------------------------------------------
(* DONE.                                                                   *)

(* The steps that neither make the task DONE nor find it so.               *)
LEMMA NotDone ==
  ASSUME status'[Parent] # "DONE", file'.status # "completed",
         \/ call'.at \notin {"done", "v2_daily", "v2_end", "v2_unreported"}
         \/ call'.at # "done" /\ call'.outcome # "completed"
  PROVE  DoneStates' /\ DoneCalls'
  BY DEF DoneStates, DoneCalls

LEMMA DoneFrame ==
  ASSUME DoneStates, DoneCalls, status'[Parent] = status[Parent],
         results'[Parent] = results[Parent], UNCHANGED <<file, call>>
  PROVE  DoneStates' /\ DoneCalls'
  BY DEF DoneStates, DoneCalls, Verified

LEMMA CallStatus ==
  ASSUME RecordsOK, CallStep, ~FinishDone, status[Parent] # "DONE"
  PROVE  status'[Parent] # "DONE"
<1> USE ParentIsTask
<1>0. TasksOK
  BY DEF RecordsOK
<1>1. CASE StartAgent \/ EndAgent
  BY <1>0, <1>1, AgentStatusOf DEF StartAgent, EndAgent
<1>2. CASE Wait \/ MarkBlocked \/ MarkFailed
  BY <1>0, <1>2, StatusOf DEF Wait, MarkBlocked, MarkFailed
<1>3. ASSUME ~StartAgent, ~EndAgent, ~Wait, ~MarkBlocked, ~MarkFailed PROVE UNCHANGED status
  BY <1>3 DEF CallStep, tasks, Pass, Decision, EnterTry, Refused, Begin, WriteBound, ReserveNode,
      RunDaily, RecordNode, WriteLast, Pause, WriteDecision,
      StartRegion, SpawnLanes, LanesEnd, RecordAggregate, WriteRegion, LeaveRegion, Output,
      FinishRejected, FinishBlocked, WriteCompleted, MarkFailure
<1> QED BY <1>1, <1>2, <1>3

LEMMA CallMoves ==
  ASSUME RecordsOK, CallStep, ~FinishDone, ~WriteCompleted, file.status # "completed"
  PROVE  call'.at # "done" /\ file'.status # "completed" /\ call.at \notin {"done", "idle"}
<1> USE DEF Write, Goto, Return, Raise, Idle
<1>0. file \in FileRecord /\ call \in CallRecord
  BY DEF RecordsOK
<1>1. CASE Pass \/ Decision
  <2>1. call.at \in {"advance", "complete"}
    BY <1>1 DEF Pass, Decision, At
  <2> QED BY <1>0, <1>1, <2>1, MoveWrites
<1>2. CASE WriteDecision
  <2>1. call.at = "deciding"
    BY <1>2 DEF WriteDecision
  <2> QED BY <1>0, <1>2, <2>1, DecisionWrites
<1>3. CASE LeaveRegion
  BY <1>0, <1>3, LeaveWrites
<1>4. CASE WriteBound
  BY <1>0, <1>4 DEF WriteBound, FileRecord, CallRecord
<1>5. CASE WriteLast
  BY <1>0, <1>5 DEF WriteLast, FileRecord, CallRecord
<1>6. CASE Pause
  BY <1>0, <1>6 DEF Pause, At, FileRecord, CallRecord
<1>7. CASE StartRegion
  BY <1>0, <1>7 DEF StartRegion, FileRecord, CallRecord
<1>8. CASE SpawnLanes
  BY <1>0, <1>8 DEF SpawnLanes, FileRecord, CallRecord
<1>9. CASE WriteRegion
  BY <1>0, <1>9 DEF WriteRegion, FileRecord, CallRecord
<1>10. CASE Output
  BY <1>0, <1>10 DEF Output, At, Completed, FileRecord, CallRecord
<1>11. CASE FinishRejected \/ FinishBlocked
  <2>1. CASE FinishRejected
    BY <1>0, <2>1 DEF FinishRejected, FileRecord, CallRecord
  <2>2. CASE FinishBlocked
    BY <1>0, <2>2 DEF FinishBlocked, FileRecord, CallRecord
  <2> QED BY <1>11, <2>1, <2>2
<1>12. CASE MarkFailure
  BY <1>0, <1>12 DEF MarkFailure, FileRecord, CallRecord
<1>13. ASSUME NEW passed \in BOOLEAN, RecordNode(passed)
       PROVE  call'.at # "done" /\ file'.status # "completed" /\ call.at \notin {"done", "idle"}
  BY <1>0, <1>13 DEF RecordNode, CallRecord
<1>14. CASE \/ EnterTry \/ Refused \/ Begin \/ ReserveNode \/ StartAgent \/ EndAgent \/ RunDaily
  <2>1. file' = file /\ call.at \in {"authorized", "advance", "agent", "working"}
    BY <1>14 DEF EnterTry, Refused, Begin, Begins, At, ReserveNode, StartAgent, EndAgent, RunDaily
  <2>2. call'.at # "done"
    BY <1>0, <1>14 DEF EnterTry, Refused, Begin, ReserveNode, StartAgent, EndAgent, RunDaily, CallRecord
  <2> QED BY <2>1, <2>2
<1>15. CASE Wait \/ LanesEnd \/ RecordAggregate \/ MarkBlocked \/ MarkFailed
  BY <1>0, <1>15 DEF Wait, LanesEnd, RecordAggregate, MarkBlocked, MarkFailed, CallRecord
<1> QED
  BY <1>1, <1>2, <1>3, <1>4, <1>5, <1>6, <1>7, <1>8, <1>9, <1>10, <1>11, <1>12, <1>13, <1>14,
     <1>15 DEF CallStep

LEMMA CallDone ==
  ASSUME RecordsOK, ControlInv, EdgeInv, DoneStates, DoneCalls, CallStep
  PROVE  DoneStates' /\ DoneCalls'
<1> USE ParentIsTask
<1>0. /\ TasksOK /\ file \in FileRecord /\ call \in CallRecord
      /\ file.profile = "v4" /\ V4Status /\ call.at \notin CallAt2 /\ call.at # "idle"
  BY CallStepIsV4 DEF RecordsOK, ControlInv
<1>1. CASE FinishDone
  <2>1. status[Parent] # "DONE" /\ file.status = "running" /\ file.reason # "approval_rejected"
        /\ UNCHANGED <<file, results>>
    BY <1>0, <1>1 DEF FinishDone, DoneStates, V4Status, CallAt4
  <2>2. CASE VerdictPassed /\ SetStatus(Parent, "DONE") /\ Goto("done")
    <3>1. status'[Parent] = "DONE" /\ call'.at = "done" /\ Verified(Parent)'
      BY <1>0, <2>1, <2>2, StatusOf DEF VerdictPassed, Goto, CallRecord, Verified
    <3> QED BY <2>1, <3>1 DEF DoneStates, DoneCalls
  <2>3. CASE Raise /\ UNCHANGED status
    BY <2>1, <2>3, NotDone DEF Raise, Idle
  <2> QED BY <1>1, <2>2, <2>3 DEF FinishDone
<1>2. CASE WriteCompleted
  <2>1. /\ status[Parent] = "DONE" /\ UNCHANGED <<status, results>> /\ call'.at = "idle"
        /\ file'.status = "completed" /\ file'.reason = "verified"
    BY <1>0, <1>2 DEF WriteCompleted, DoneCalls, Write, Return, Idle, FileRecord, tasks
  <2> QED BY <2>1 DEF DoneStates, DoneCalls, Verified
<1>3. CASE ~FinishDone /\ ~WriteCompleted
  <2>0. file.status # "completed"
    <3>1. call.at \in CallAt4 \cup {"pausing", "deciding", "blocked", "failing"}
      BY <1>0 DEF CallRecord
    <3> QED BY <1>0, <3>1 DEF V4Status
  <2>1. call'.at # "done" /\ file'.status # "completed" /\ call.at \notin {"done", "idle"}
    BY <1>3, <2>0, CallMoves
  <2>2. status[Parent] # "DONE"
    BY <1>0, <2>1 DEF DoneStates, CallAt2
  <2>3. status'[Parent] # "DONE"
    BY <1>3, <2>2, CallStatus
  <2>4. call'.at \notin CallAt2
    BY StepV4Control DEF V4Control, V4Status
  <2> QED BY <2>1, <2>3, <2>4, NotDone DEF CallAt2
<1> QED BY <1>1, <1>2, <1>3

LEMMA RunDone ==
  ASSUME RecordsOK, ControlInv, DoneStates, DoneCalls, RunStep
  PROVE  DoneStates' /\ DoneCalls'
<1> USE ParentIsTask
<1> USE DEF Goto
<1>0. /\ TasksOK /\ file \in FileRecord /\ call \in CallRecord
      /\ file.profile = "v2" /\ V2Control /\ call.at \in CallAt2 /\ file.status = "executing"
  BY RunStepIsV2 DEF RecordsOK, ControlInv, V2Control
<1>1. CASE RunVerify
  <2>1. status[Parent] # "DONE" /\ UNCHANGED <<file, results>>
    BY <1>1 DEF RunVerify, DoneStates
  <2>2. CASE /\ Verified(Parent) /\ SetStatus(Parent, "DONE")
             /\ call' = [call EXCEPT !.at = "v2_daily", !.outcome = "completed"]
    <3>1. /\ status'[Parent] = "DONE" /\ call'.at = "v2_daily" /\ call'.outcome = "completed"
          /\ Verified(Parent)'
      BY <1>0, <2>1, <2>2, StatusOf DEF CallRecord, Verified
    <3> QED BY <1>0, <2>1, <3>1 DEF DoneStates, DoneCalls, V2Control
  <2>3. CASE (SetStatus(Parent, "FAILED") \/ UNCHANGED status) /\ Goto("v2_except")
    <3>1. status'[Parent] # "DONE"
      BY <1>0, <2>1, <2>3, StatusOf
    <3>2. call'.at = "v2_except" /\ file'.status # "completed"
      BY <1>0, <2>1, <2>3 DEF CallRecord
    <3> QED BY <3>1, <3>2, NotDone
  <2> QED BY <1>1, <2>2, <2>3 DEF RunVerify
<1>2. CASE RunBegin \/ RunReserve \/ \E passed \in BOOLEAN : RunBroken(passed) \/ RunRecord(passed)
  <2>1. status' = status /\ file' = file
        /\ call.at \in {"v2_begin", "v2_reserve", "v2_broken", "v2_record"}
    BY <1>2 DEF RunBegin, RunReserve, RunBroken, RunRecord
  <2>2. call'.at \in {"v2_reserve", "v2_except", "v2_agent", "v2_broken", "v2_gate", "v2_verify"}
    BY <1>0, <1>2 DEF RunBegin, RunReserve, RunBroken, RunRecord, CallRecord
  <2> QED BY <1>0, <2>1, <2>2, NotDone DEF DoneStates
<1>3. CASE RunStart \/ RunEnd
  <2>1. file' = file /\ call.at \in {"v2_agent", "v2_working"}
        /\ call'.at \in {"v2_working", "v2_record", "v2_broken"}
    BY <1>0, <1>3 DEF RunStart, RunEnd, CallRecord
  <2>2. status'[Parent] # "DONE"
    BY <1>0, <1>3, <2>1, AgentStatusOf DEF RunStart, RunEnd, DoneStates
  <2> QED BY <1>0, <2>1, <2>2, NotDone
<1>4. CASE RunGate \/ RunExcept
  <2>1. file' = file /\ call.at \in {"v2_gate", "v2_except"}
        /\ call'.at = "v2_daily" /\ call'.outcome # "completed"
    BY <1>0, <1>4 DEF RunGate, RunExcept, CallRecord
  <2>2. status'[Parent] # "DONE"
    BY <1>0, <1>4, <2>1, StatusOf DEF RunGate, RunExcept, DoneStates
  <2> QED BY <1>0, <2>1, <2>2, NotDone
<1>5. CASE RunReport
  <2>1. /\ UNCHANGED <<file, status, results>> /\ call'.outcome = call.outcome
        /\ call.at = "v2_daily" /\ call'.at \in {"v2_end", "v2_unreported"}
    BY <1>0, <1>5 DEF RunReport, CallRecord, tasks
  <2> QED BY <2>1 DEF DoneStates, DoneCalls, Verified
<1>6. CASE RunUnreported
  <2>1. file' = file /\ call'.at = "v2_end" /\ call'.outcome = "failed"
    BY <1>0, <1>6 DEF RunUnreported, CallRecord
  <2>2. status'[Parent] # "DONE"
    BY <1>0, <1>6, StatusOf DEF RunUnreported
  <2> QED BY <1>0, <2>1, <2>2, NotDone
<1>7. CASE FinishExecute
  <2>1. /\ UNCHANGED <<status, results>> /\ call'.at = "idle" /\ call.at = "v2_end"
        /\ file'.status = (IF call.outcome = "completed" THEN "completed" ELSE "failed")
        /\ file'.reason = file.reason
    BY <1>0, <1>7 DEF FinishExecute, Write, Return, Idle, FileRecord, tasks
  <2> QED BY <2>1 DEF DoneStates, DoneCalls, Verified
<1> QED BY <1>1, <1>2, <1>3, <1>4, <1>5, <1>6, <1>7 DEF RunStep

LEMMA StepDoneStates ==
  ASSUME RecordsOK, ControlInv, EdgeInv, LaneInv, PauseInv, DoneStates, DoneCalls, [Next]_vars
  PROVE  DoneStates' /\ DoneCalls'
<1> USE ParentIsTask
<1>0. TasksOK /\ file \in FileRecord /\ call \in CallRecord
  BY DEF RecordsOK
<1>1. CASE CallStep
  BY <1>1, CallDone
<1>2. CASE RunStep
  BY <1>2, RunDone
<1>3. ASSUME NEW l \in Lane, LaneStep(l) PROVE DoneStates' /\ DoneCalls'
  BY <1>3, LaneStepOwn, LaneStepWorks, DoneFrame
<1>4. ASSUME NEW t \in Task, Charge(t) \/ TimePasses(t) PROVE DoneStates' /\ DoneCalls'
  BY <1>4, DoneFrame DEF Charge, TimePasses, Expire, local
<1>5. CASE Show \/ UNCHANGED vars
  BY <1>5, DoneFrame DEF Show, vars, local, tasks
<1>6. CASE Crash \/ Escape
  <2>1. UNCHANGED <<file, status, results>> /\ call'.at = "idle"
    BY <1>6 DEF Crash, Escape, Return, Idle, tasks
  <2> QED BY <2>1 DEF DoneStates, DoneCalls, Verified
<1>7. ASSUME NEW c \in Contract, Prepare(c) \/ PrepareV2(c) PROVE DoneStates' /\ DoneCalls'
  <2>1. status' = status /\ file.status = "absent" /\ call'.at = "idle" /\ file'.status = "prepared"
    <3>1. CASE Prepare(c)
      BY <3>1 DEF Prepare, Prepared, Write, NoFile, Idle, tasks, local
    <3>2. CASE PrepareV2(c)
      BY <3>2 DEF PrepareV2, Prepared, Write, NoFile, Idle, tasks, local
    <3> QED BY <1>7, <3>1, <3>2
  <2> QED BY <2>1, NotDone DEF DoneStates
<1>8. CASE Start \/ Execute
  <2>1. status' = status /\ file.status = "prepared"
    BY <1>8 DEF Start, Execute, Startable, tasks
  <2>2. CASE Start
    BY <1>0, <2>1, <2>2, NotDone DEF Start, Write, Goto, FileRecord, CallRecord, DoneStates
  <2>3. CASE Execute
    BY <1>0, <2>1, <2>3, NotDone DEF Execute, Write, Idle, FileRecord, DoneStates
  <2> QED BY <1>8, <2>2, <2>3
<1>9. ASSUME NEW fp \in shown, NEW d \in {"approved", "rejected"}, Decide(fp, d)
      PROVE  DoneStates' /\ DoneCalls'
  <2>1. /\ file' = file /\ file.status = "paused" /\ call'.at = "deciding"
        /\ SetStatus(Parent, file.checkpoint.prior)
    BY <1>9 DEF Decide, Idle
  <2>2. status'[Parent] = file.checkpoint.prior
    BY <1>0, <2>1, StatusOf
  <2> QED BY <2>1, <2>2, NotDone DEF PauseInv
<1> QED BY <1>1, <1>2, <1>3, <1>4, <1>5, <1>6, <1>7, <1>8, <1>9 DEF Next

LEMMA ApprovalFrame ==
  ASSUME ApprovalsKept, contract' = contract, decided \subseteq decided',
         file'.status # "failed" => file.status # "failed",
         file.reason = "approval_rejected" => file'.reason = "approval_rejected",
         \A n \in file'.completed \ file.completed :
           Role(n) = "approval" => n \in Approved' \/ file'.reason = "approval_rejected"
  PROVE  ApprovalsKept'
<1>1. Approved \subseteq Approved'
  BY DEF Approved
<1> QED BY <1>1 DEF ApprovalsKept, Role

LEMMA CallApprovals ==
  ASSUME RecordsOK, ControlInv, EdgeInv, DoneInv, CallStep
  PROVE  ApprovalsKept'
<1> USE DEF Write
<1>0. /\ file \in FileRecord /\ call \in CallRecord /\ ApprovalsKept
      /\ file.profile = "v4" /\ V4Status /\ V4Place /\ V4Checkpoint
  BY CallStepIsV4 DEF RecordsOK, ControlInv, DoneInv
<1>1. ASSUME UNCHANGED <<contract, decided>>, file'.completed = file.completed,
             file'.status = file.status, file'.reason = file.reason
      PROVE  ApprovalsKept'
  BY <1>0, <1>1, ApprovalFrame
<1>2. CASE Pass \/ Decision
  <2>1. file.current # NoNode /\ Role(file.current) # "approval"
    BY <1>0, <1>2 DEF Pass, Decision, At, V4Place
  <2>2. UNCHANGED <<contract, decided>>
    BY <1>0, <1>2, MoveWrites DEF history
  <2>3. /\ file'.completed \subseteq file.completed \cup {file.current}
        /\ file'.status = file.status /\ file'.reason = file.reason
    BY <1>0, <1>2, MoveWrites
  <2> QED BY <1>0, <2>1, <2>2, <2>3, ApprovalFrame
<1>3. CASE Output
  <2>1. Role(file.current) # "approval" /\ UNCHANGED <<contract, decided>>
    BY <1>3 DEF Output, At, history
  <2>2. /\ file'.completed = file.completed \cup {file.current}
        /\ file'.status = file.status /\ file'.reason = file.reason
    BY <1>0, <1>3 DEF Output, Completed, FileRecord
  <2> QED BY <1>0, <2>1, <2>2, ApprovalFrame
<1>4. CASE LeaveRegion
  <2>1. UNCHANGED <<contract, decided>> /\ call.at \in InRegion
    BY <1>0, <1>4, LeaveWrites DEF history, InRegion
  <2>2. /\ file'.completed \subseteq
             file.completed \cup {Join(contract), Fork(contract)} \cup LaneNodes
        /\ file'.status = file.status /\ file'.reason = file.reason
    BY <1>0, <1>4, LeaveWrites
  <2>3. contract \in Admitted /\ IsParallel(contract) /\ ForkShaped(contract)
    BY <2>1, RegionIs
  <2>4. contract.role[Fork(contract)] # "approval" /\ contract.role[Join(contract)] # "approval"
    BY <2>3, ForkIs
  <2>5. \A n \in LaneNodes : contract.role[n] # "approval"
    <3> SUFFICES ASSUME NEW r \in Children(contract, Fork(contract)),
                        NEW n \in {r} \cup Children(contract, r)
                 PROVE  contract.role[n] # "approval"
      BY DEF LaneNodes
    <3> QED BY <2>3 DEF ForkShaped
  <2> QED BY <1>0, <2>1, <2>2, <2>4, <2>5, ApprovalFrame DEF Role
<1>5. CASE WriteDecision
  <2> DEFINE d == [node |-> file.checkpoint.node, revision |-> file.checkpoint.revision,
                   seen |-> call.seen, decision |-> call.decision]
  <2>1. call.decision \in {"approved", "rejected"}
    BY <1>0, <1>5 DEF WriteDecision, V4Checkpoint, CallRecord
  <2>2. decided' = decided \cup {d} /\ d.node = file.checkpoint.node /\ d.decision = call.decision
    BY <1>5 DEF WriteDecision
  <2>3. /\ contract' = contract /\ file'.status # "failed" /\ file'.reason = DecisionReason
        /\ file'.completed = file.completed \cup {file.checkpoint.node}
    BY <1>0, <1>5, DecisionWrites
  <2>4. file.status # "failed"
    BY <1>0, <1>5 DEF WriteDecision, V4Status
  <2> HIDE DEF d
  <2>5. call.decision = "approved" => file.checkpoint.node \in Approved'
    BY <2>2 DEF Approved
  <2> QED BY <1>0, <2>1, <2>2, <2>3, <2>4, <2>5, ApprovalFrame DEF DecisionReason
<1>6. CASE MarkFailure
  <2>1. file'.status = "failed"
    BY <1>0, <1>6 DEF MarkFailure, FileRecord
  <2> QED BY <2>1 DEF ApprovalsKept
<1>7. CASE FinishRejected \/ FinishBlocked \/ WriteCompleted \/ Pause
  <2>1. file.status # "failed" /\ UNCHANGED <<contract, decided>>
    BY <1>0, <1>7 DEF FinishRejected, FinishBlocked, WriteCompleted, Pause, At, V4Status, CallAt4,
      history
  <2>2. file'.completed = file.completed
    <3>1. CASE FinishRejected
      BY <1>0, <3>1 DEF FinishRejected, FileRecord
    <3>2. CASE FinishBlocked
      BY <1>0, <3>2 DEF FinishBlocked, FileRecord
    <3>3. CASE WriteCompleted
      BY <1>0, <3>3 DEF WriteCompleted, FileRecord
    <3>4. CASE Pause
      BY <1>0, <3>4 DEF Pause, FileRecord
    <3> QED BY <1>7, <3>1, <3>2, <3>3, <3>4
  <2>3. file.reason = "approval_rejected" => file'.reason = "approval_rejected"
    <3>1. CASE FinishRejected
      BY <1>0, <3>1 DEF FinishRejected, FileRecord
    <3>2. CASE FinishBlocked
      BY <3>2 DEF FinishBlocked
    <3>3. CASE WriteCompleted
      BY <3>3 DEF WriteCompleted, DoneInv, DoneStates, DoneCalls
    <3>4. CASE Pause
      BY <1>0, <3>4 DEF Pause, FileRecord
    <3> QED BY <1>7, <3>1, <3>2, <3>3, <3>4
  <2> QED BY <1>0, <2>1, <2>2, <2>3, ApprovalFrame
<1>8. CASE WriteBound \/ WriteLast
  <2>1. CASE WriteBound
    BY <1>0, <1>1, <2>1 DEF WriteBound, FileRecord, history
  <2>2. CASE WriteLast
    BY <1>0, <1>1, <2>2 DEF WriteLast, FileRecord, history
  <2> QED BY <1>8, <2>1, <2>2
<1>9. CASE StartRegion \/ SpawnLanes \/ WriteRegion
  <2>1. CASE StartRegion
    BY <1>0, <1>1, <2>1 DEF StartRegion, FileRecord, history
  <2>2. CASE SpawnLanes
    BY <1>0, <1>1, <2>2 DEF SpawnLanes, FileRecord, history
  <2>3. CASE WriteRegion
    BY <1>0, <1>1, <2>3 DEF WriteRegion, FileRecord, history
  <2> QED BY <1>9, <2>1, <2>2, <2>3
<1>10. ASSUME NEW passed \in BOOLEAN, RecordNode(passed) PROVE ApprovalsKept'
  BY <1>1, <1>10 DEF RecordNode, history
<1>11. CASE \/ EnterTry \/ Refused \/ Begin \/ ReserveNode \/ StartAgent \/ EndAgent \/ RunDaily
            \/ Wait \/ LanesEnd \/ RecordAggregate \/ FinishDone \/ MarkBlocked \/ MarkFailed
  BY <1>1, <1>11 DEF EnterTry, Refused, Begin, ReserveNode, StartAgent, EndAgent, RunDaily,
      Wait, LanesEnd, RecordAggregate, FinishDone, MarkBlocked, MarkFailed, history
<1> QED
  BY <1>2, <1>3, <1>4, <1>5, <1>6, <1>7, <1>8, <1>9, <1>10, <1>11 DEF CallStep

LEMMA StepDone ==
  ASSUME RecordsOK, ControlInv, EdgeInv, LaneInv, PauseInv, DoneInv, [Next]_vars
  PROVE  DoneInv'
<1>0. /\ file \in FileRecord /\ call \in CallRecord
      /\ DoneStates /\ DoneCalls /\ ApprovalsKept
  BY DEF RecordsOK, DoneInv
<1>1. DoneStates' /\ DoneCalls'
  BY <1>0, StepDoneStates
<1>2. ASSUME UNCHANGED <<contract, file, decided>> PROVE ApprovalsKept'
  BY <1>0, <1>2, ApprovalFrame
<1>3. ASSUME CallStep PROVE ApprovalsKept'
  BY <1>3, CallApprovals
<1>4. ASSUME RunStep PROVE ApprovalsKept'
  BY <1>4, StepV2Control DEF V2Control, ApprovalsKept
<1>5. ASSUME NEW l \in Lane, LaneStep(l) PROVE ApprovalsKept'
  BY <1>2, <1>5, LaneStepWorks
<1>6. ASSUME NEW t \in Task, Charge(t) \/ TimePasses(t) PROVE ApprovalsKept'
  BY <1>2, <1>6 DEF Charge, TimePasses, history
<1>7. ASSUME NEW fp \in shown, NEW d \in {"approved", "rejected"}, Decide(fp, d)
      PROVE  ApprovalsKept'
  BY <1>2, <1>7 DEF Decide, history
<1>8. ASSUME Show \/ Crash \/ Escape \/ UNCHANGED vars PROVE ApprovalsKept'
  BY <1>2, <1>8 DEF Show, Crash, Escape, vars, history
<1>9. ASSUME NEW c \in Contract, Prepare(c) \/ PrepareV2(c) PROVE ApprovalsKept'
  <2>1. file'.completed = {}
    <3>1. CASE Prepare(c)
      BY <3>1 DEF Prepare, Prepared, Write, NoFile
    <3>2. CASE PrepareV2(c)
      BY <3>2 DEF PrepareV2, Prepared, Write, NoFile
    <3> QED BY <1>9, <3>1, <3>2
  <2> QED BY <2>1 DEF ApprovalsKept
<1>10. ASSUME Start \/ Execute PROVE ApprovalsKept'
  <2>1. /\ UNCHANGED <<contract, decided>> /\ file'.completed = file.completed
        /\ file.status = "prepared" /\ file'.reason = file.reason
    <3>1. CASE Start
      BY <1>0, <3>1 DEF Start, Startable, Write, FileRecord, history
    <3>2. CASE Execute
      BY <1>0, <3>2 DEF Execute, Write, FileRecord, history
    <3> QED BY <1>10, <3>1, <3>2
  <2> QED BY <1>0, <2>1, ApprovalFrame
<1>11. ApprovalsKept'
  BY <1>3, <1>4, <1>5, <1>6, <1>7, <1>8, <1>9, <1>10 DEF Next
<1> QED BY <1>1, <1>11 DEF DoneInv

LEMMA InitDone == Init => DoneInv /\ PauseInv
  BY ParentIsTask DEF Init, TasksInit, DoneInv, DoneStates, DoneCalls, ApprovalsKept, PauseInv, NoFile, Idle

-----------------------------------------------------------------------------
(* Pauses.                                                                 *)

LEMMA StepPause ==
  ASSUME RecordsOK, ControlInv, LaneInv, DoneInv, PauseInv, [Next]_vars
  PROVE  PauseInv'
<1> USE ParentIsTask
<1> USE DEF Write
<1>0. TasksOK /\ file \in FileRecord /\ call \in CallRecord /\ Profile = {"none", "v2", "v4"}
  BY DEF RecordsOK, Profile
<1>1. ASSUME file' = file, status'[Parent] = status[Parent] PROVE PauseInv'
  BY <1>1 DEF PauseInv
<1>2. CASE Pause
  <2>1. file'.checkpoint.prior = status[Parent] /\ status' = status /\ call.at = "advance"
    BY <1>0, <1>2 DEF Pause, At, PriorStatus, FileRecord, tasks
  <2> QED BY <2>1 DEF PauseInv, DoneInv, DoneStates
<1>3. CASE Wait
  <2>1. file' = file /\ status'[Parent] = "WAITING_HUMAN"
    BY <1>0, <1>3, StatusOf DEF Wait
  <2> QED BY <2>1 DEF PauseInv
<1>4. ASSUME NEW fp \in shown, NEW d \in {"approved", "rejected"}, Decide(fp, d) PROVE PauseInv'
  <2>1. file' = file /\ status'[Parent] = file.checkpoint.prior
    BY <1>0, <1>4, StatusOf DEF Decide
  <2> QED BY <2>1 DEF PauseInv
<1>5. ASSUME file'.status # "paused" PROVE PauseInv'
  BY <1>5 DEF PauseInv
<1>6. ASSUME CallStep, ~Pause, ~Wait PROVE PauseInv'
  <2>0. file.profile = "v4" /\ V4Status
    BY <1>6, CallStepIsV4 DEF ControlInv
  <2>1. CASE WriteDecision
    BY <1>0, <1>5, <2>1, DecisionWrites
  <2>2. CASE ~WriteDecision
    <3>1. file.status # "paused" /\ call.at \in CallAt4 \cup {"blocked", "failing"}
      <4>1. call.at \in CallAt4 \cup {"blocked", "failing"}
        BY <1>6, <2>2 DEF CallStep, Pass, Decision, EnterTry, Refused, Begin, Begins, WriteBound,
          ReserveNode, At, StartAgent, EndAgent, RecordNode, WriteLast, RunDaily,
          StartRegion, SpawnLanes, LanesEnd, RecordAggregate, WriteRegion, LeaveRegion, Output,
          FinishRejected, FinishBlocked, FinishDone, WriteCompleted, MarkBlocked, MarkFailure,
          MarkFailed, CallAt4
      <4> QED BY <2>0, <4>1 DEF V4Status
    <3>2. CASE Pass \/ Decision
      BY <1>0, <1>5, <3>1, <3>2, MoveWrites
    <3>3. CASE LeaveRegion
      BY <1>0, <1>5, <3>1, <3>3, LeaveWrites
    <3>4. CASE WriteBound \/ WriteLast \/ StartRegion
      <4>1. CASE WriteBound
        BY <1>0, <1>5, <3>1, <4>1 DEF WriteBound, FileRecord
      <4>2. CASE WriteLast
        BY <1>0, <1>5, <3>1, <4>2 DEF WriteLast, FileRecord
      <4>3. CASE StartRegion
        BY <1>0, <1>5, <3>1, <4>3 DEF StartRegion, FileRecord
      <4> QED BY <3>4, <4>1, <4>2, <4>3
    <3>5. CASE SpawnLanes \/ WriteRegion \/ Output
      <4>1. CASE SpawnLanes
        BY <1>0, <1>5, <3>1, <4>1 DEF SpawnLanes, FileRecord
      <4>2. CASE WriteRegion
        BY <1>0, <1>5, <3>1, <4>2 DEF WriteRegion, FileRecord
      <4>3. CASE Output
        BY <1>0, <1>5, <3>1, <4>3 DEF Output, Completed, FileRecord
      <4> QED BY <3>5, <4>1, <4>2, <4>3
    <3>6. CASE FinishRejected \/ FinishBlocked \/ WriteCompleted \/ MarkFailure
      <4>1. CASE FinishRejected
        BY <1>0, <1>5, <4>1 DEF FinishRejected, FileRecord
      <4>2. CASE FinishBlocked
        BY <1>0, <1>5, <4>2 DEF FinishBlocked, FileRecord
      <4>3. CASE WriteCompleted
        BY <1>0, <1>5, <4>3 DEF WriteCompleted, FileRecord
      <4>4. CASE MarkFailure
        BY <1>0, <1>5, <4>4 DEF MarkFailure, FileRecord
      <4> QED BY <3>6, <4>1, <4>2, <4>3, <4>4
    <3>7. ASSUME NEW passed \in BOOLEAN, RecordNode(passed) PROVE file' = file
      BY <3>7 DEF RecordNode
    <3>8. ASSUME \/ EnterTry \/ Refused \/ Begin \/ ReserveNode \/ StartAgent \/ EndAgent \/ RunDaily
                 \/ LanesEnd \/ RecordAggregate \/ FinishDone \/ MarkBlocked \/ MarkFailed
          PROVE  file' = file
      BY <3>8 DEF EnterTry, Refused, Begin, ReserveNode, StartAgent, EndAgent, RunDaily,
        LanesEnd, RecordAggregate, FinishDone, MarkBlocked, MarkFailed
    <3> QED BY <1>5, <1>6, <2>2, <3>1, <3>2, <3>3, <3>4, <3>5, <3>6, <3>7, <3>8 DEF CallStep
  <2> QED BY <2>1, <2>2
<1>7. CASE RunStep
  BY <1>5, <1>7, StepV2Control DEF V2Control
<1>8. ASSUME NEW l \in Lane, LaneStep(l) PROVE PauseInv'
  BY <1>1, <1>8, LaneStepOwn, LaneStepWorks
<1>9. ASSUME NEW t \in Task, Charge(t) \/ TimePasses(t) PROVE PauseInv'
  BY <1>1, <1>9 DEF Charge, TimePasses, Expire
<1>10. CASE Show \/ Crash \/ Escape \/ UNCHANGED vars
  BY <1>1, <1>10 DEF Show, Crash, Escape, vars, tasks
<1>11. ASSUME NEW c \in Contract, Prepare(c) \/ PrepareV2(c) PROVE PauseInv'
  <2>1. CASE Prepare(c)
    BY <1>5, <2>1 DEF Prepare, Prepared, NoFile
  <2>2. CASE PrepareV2(c)
    BY <1>5, <2>2 DEF PrepareV2, Prepared, NoFile
  <2> QED BY <1>11, <2>1, <2>2
<1>12. CASE Start
  BY <1>0, <1>5, <1>12 DEF Start, FileRecord
<1>13. CASE Execute
  BY <1>0, <1>5, <1>13 DEF Execute, FileRecord
<1> QED
  BY <1>2, <1>3, <1>4, <1>6, <1>7, <1>8, <1>9, <1>10, <1>11, <1>12, <1>13 DEF Next

-----------------------------------------------------------------------------
(* Nodes run once: V4.                                                     *)

LEMMA RanFrame ==
  ASSUME RanInv, UNCHANGED <<contract, ran>>, file'.profile = file.profile,
         Visited \subseteq Visited', CurrentFresh',
         file'.region \in {"none", "starting"} => file.region \in {"none", "starting"},
         lane' = lane \/ lane' = [l \in Lane |-> NoThread]
  PROVE  RanInv'
<1> SUFFICES ASSUME file.profile = "v4" PROVE RanInv'
  BY DEF RanInv
<1>1. RanVisited /\ LanesFresh /\ \A n \in Node : ran[n] <= 1
  BY DEF RanInv
<1>2. RanVisited'
  BY <1>1 DEF RanVisited, LaneNodes
<1>3. LanesFresh'
  <2>1. CASE lane' = lane
    <3>1. /\ LaneNodes' = LaneNodes
          /\ \A l \in Lane : /\ LaneNode(l)' = LaneNode(l)
                             /\ LanePresentation(l)' = LanePresentation(l)
      BY <2>1 DEF LaneNodes, LaneNode, LanePresentation, LaneResearch
    <3> QED BY <1>1, <2>1, <3>1 DEF LanesFresh
  <2>2. CASE lane' = [l \in Lane |-> NoThread]
    <3>1. \A l \in Lane : lane'[l].at = "none"
      BY <2>2 DEF NoThread
    <3> QED BY <1>1, <3>1 DEF LanesFresh, LaneNodes, LaneWorks
  <2> QED BY <2>1, <2>2
<1> QED BY <1>1, <1>2, <1>3 DEF RanInv

LEMMA RanQuiet ==
  ASSUME RanInv, UNCHANGED <<contract, ran, file>>, Fresh' => Fresh,
         lane' = lane \/ lane' = [l \in Lane |-> NoThread]
  PROVE  RanInv'
<1> SUFFICES ASSUME file.profile = "v4" PROVE RanInv'
  BY DEF RanInv
<1>1. CurrentFresh'
  BY DEF RanInv, CurrentFresh
<1>2. Visited' = Visited
  BY DEF Visited
<1> HIDE DEF Visited
<1> QED BY <1>1, <1>2, RanFrame

(* A node outside the lanes that was never current has not run.            *)
LEMMA NewIsFresh ==
  ASSUME RanInv, RecordsOK, file.profile = "v4", NEW m \in Node, m \notin Visited,
         IsParallel(contract) => m \notin LaneNodes
  PROVE  ran[m] = 0
<1>1. ran[m] \in Nat /\ ~(ran[m] > 0)
  BY DEF RanInv, RanVisited, RecordsOK
<1> QED BY <1>1

(* The current node runs.                                                  *)
LEMMA RanCurrent ==
  ASSUME RecordsOK, ControlInv, EdgeInv, RanInv, file.profile = "v4",
         file.current # NoNode, Fresh, Counted(file.current),
         UNCHANGED <<contract, file, lane>>, ~Fresh'
  PROVE  RanInv'
<1> DEFINE n == file.current
<1>0. ran \in [Node -> Nat] /\ n \in Node /\ n \in Visited
  BY Contracted DEF RecordsOK, EdgeInv, Visited
<1>1. ran[n] = 0
  BY DEF RanInv, CurrentFresh
<1>2. ran'[n] = 1 /\ \A x \in Node : x # n => ran'[x] = ran[x]
  BY <1>0, <1>1 DEF Counted
<1>3. RanVisited /\ LanesFresh /\ \A x \in Node : ran[x] <= 1
  BY DEF RanInv
<1>4. RanVisited'
  BY <1>0, <1>2, <1>3 DEF RanVisited, LaneNodes, Visited
<1>5. CurrentFresh'
  BY DEF CurrentFresh
<1>6. LanesFresh'
  <2> SUFFICES ASSUME IsParallel(contract) PROVE LanesFresh'
    BY DEF LanesFresh
  <2>1. contract \in Admitted /\ contract \in Contract
    BY AdmittedShaped DEF ControlInv
  <2>2. n \notin LaneNodes /\ LaneNodes \subseteq contract.node /\ contract.node \subseteq Node
    BY <2>1, LaneNodesAre, ContractIs DEF EdgeInv
  <2>3. \A x \in LaneNodes : ran'[x] = ran[x]
    BY <1>2, <2>2
  <2>4. \A l \in Lane : LaneNode(l) \in LaneNodes /\ LanePresentation(l) \in LaneNodes
    BY <2>1, LaneNodesAre DEF LaneNode, LanePresentation
  <2>5. /\ LaneNodes' = LaneNodes
        /\ \A l \in Lane : LaneNode(l)' = LaneNode(l) /\ LanePresentation(l)' = LanePresentation(l)
    BY DEF LaneNodes, LaneNode, LanePresentation, LaneResearch
  <2> HIDE DEF n
  <2> QED BY <1>3, <2>3, <2>4, <2>5 DEF LanesFresh
<1>7. \A x \in Node : ran'[x] <= 1
  BY <1>2, <1>3
<1> QED BY <1>4, <1>5, <1>6, <1>7 DEF RanInv

LEMMA LaneRan ==
  ASSUME RecordsOK, ControlInv, EdgeInv, LaneInv, RanInv, NEW l \in Lane, LaneStep(l)
  PROVE  RanInv'
<1>0. /\ file.profile = "v4" /\ call.at = "lanes" /\ lane[l].at \in LaneWorks
      /\ UNCHANGED <<contract, file, call>>
  BY LaneStepWorks, LaneStepInRegion
<1>1. /\ contract \in Admitted /\ IsParallel(contract) /\ contract \in Contract
      /\ file.current \in Visited /\ file.region = "running"
  BY <1>0, RegionIs, AdmittedShaped DEF InRegion, ControlInv, V4Place, Visited
<1>2. /\ RanVisited /\ CurrentFresh /\ LanesFresh /\ \A n \in Node : ran[n] <= 1
      /\ ran \in [Node -> Nat] /\ lane \in [Lane -> ThreadRecord]
  BY <1>0 DEF RanInv, RecordsOK
<1>3. file.status = "running"
  BY <1>0 DEF ControlInv, V4Status, CallAt4
<1>4. CurrentFresh'
  BY <1>0, <1>3 DEF CurrentFresh, Fresh
<1>5. LaneNodes \subseteq Node
  BY <1>1, LaneNodesAre, ContractIs
<1>6. \A k \in Lane : /\ LaneResearch[k] \in LaneNodes /\ LanePresentation(k) \in LaneNodes
                      /\ LaneNode(k) = IF lane[k].stage = "research" THEN LaneResearch[k]
                                       ELSE LanePresentation(k)
  BY <1>1, LaneNodesAre DEF LaneNode, LanePresentation
<1>7. /\ LaneNodes' = LaneNodes /\ Visited' = Visited
      /\ \A k \in Lane : /\ LanePresentation(k)' = LanePresentation(k)
                         /\ LaneResearch'[k] = LaneResearch[k]
  BY <1>0 DEF LaneNodes, Visited, LanePresentation, LaneResearch
<1>8. \A k \in Lane : LaneNode(k)' = IF lane'[k].stage = "research" THEN LaneResearch[k]
                                     ELSE LanePresentation(k)
  BY <1>0 DEF LaneNode, LanePresentation, LaneResearch
<1>9. \A k \in Lane \ {l} : lane'[k] = lane[k]
  BY LaneStepOwn
<1>10. CASE LaneStartAgent(l)
  <2> DEFINE n == LaneNode(l)
  <2>1. /\ lane[l].at = "agent" /\ ran' = [ran EXCEPT ![n] = @ + 1]
        /\ lane'[l].at \in {"working", "except"} /\ lane'[l].stage = lane[l].stage
    BY <1>2, <1>10 DEF LaneStartAgent, Counted, LaneGoto, ThreadRecord
  <2>2. n \in LaneNodes /\ n \in Node /\ ran[n] = 0
    BY <1>1, <1>2, <1>5, <1>6, <2>1 DEF LanesFresh
  <2>3. ran'[n] = 1 /\ \A x \in Node : x # n => ran'[x] = ran[x]
    BY <1>2, <2>1, <2>2
  <2>4. RanVisited'
    BY <1>0, <1>1, <1>2, <1>7, <2>2, <2>3 DEF RanVisited
  <2>5. \A k \in Lane \ {l} : n # LaneNode(k) /\ n # LanePresentation(k)
    <3> SUFFICES ASSUME NEW k \in Lane, k # l PROVE n # LaneNode(k) /\ n # LanePresentation(k)
      OBVIOUS
    <3>1. /\ LaneResearch[l] # LaneResearch[k] /\ LaneResearch[l] # LanePresentation(k)
          /\ LanePresentation(l) # LanePresentation(k) /\ LaneResearch[k] # LanePresentation(l)
      BY <1>1, LaneNodesAre
    <3> QED BY <1>6, <3>1
  <2>6. lane[l].stage = "research" => n # LanePresentation(l)
    BY <1>1, <1>6, LaneNodesAre
  <2>7. LanesFresh'
    <3> HIDE DEF n
    <3>1. /\ lane'[l].at \notin {"begin", "reserve", "agent"}
          /\ lane'[l].stage = "research" => ran'[LanePresentation(l)] = 0
      <4>1. lane[l].stage = "research" => ran[LanePresentation(l)] = 0
        BY <1>1, <1>2, <2>1 DEF LanesFresh, LaneWorks
      <4> QED BY <1>5, <1>6, <2>1, <2>3, <2>6, <4>1
    <3>2. \A k \in Lane \ {l} :
            /\ lane'[k].at = "begin" => lane'[k].stage = "research"
            /\ lane'[k].at \in {"begin", "reserve", "agent"} => ran'[LaneNode(k)'] = 0
            /\ lane'[k].at \in LaneWorks \ {"except"} /\ lane'[k].stage = "research" =>
                 ran'[LanePresentation(k)] = 0
      <4> SUFFICES ASSUME NEW k \in Lane, k # l
                   PROVE  /\ lane'[k].at = "begin" => lane'[k].stage = "research"
                          /\ lane'[k].at \in {"begin", "reserve", "agent"} => ran'[LaneNode(k)'] = 0
                          /\ lane'[k].at \in LaneWorks \ {"except"} /\ lane'[k].stage = "research" =>
                               ran'[LanePresentation(k)] = 0
        OBVIOUS
      <4>1. lane'[k] = lane[k] /\ LaneNode(k)' = LaneNode(k)
        BY <1>6, <1>8, <1>9
      <4>2. ran'[LaneNode(k)] = ran[LaneNode(k)] /\ ran'[LanePresentation(k)] = ran[LanePresentation(k)]
        BY <1>5, <1>6, <2>3, <2>5
      <4> QED BY <1>1, <1>2, <4>1, <4>2 DEF LanesFresh
    <3> QED BY <1>0, <1>1, <1>7, <3>1, <3>2 DEF LanesFresh
  <2>8. \A x \in Node : ran'[x] <= 1
    BY <1>2, <2>3
  <2> QED BY <1>4, <2>4, <2>7, <2>8 DEF RanInv
<1>11. CASE ~LaneStartAgent(l)
  <2>1. ran' = ran
    BY <1>11 DEF LaneStep, LaneBegin, LaneReserve, LaneEndAgent, LaneRecord,
      LaneVerify, LaneFail, history
  <2>2. RanVisited'
    BY <1>0, <1>2, <1>7, <2>1 DEF RanVisited
  <2>3. /\ lane'[l].at # "begin"
        /\ \/ lane'[l].at \notin LaneWorks \/ lane'[l].at = "except"
           \/ /\ lane'[l].stage = lane[l].stage /\ lane[l].at # "except"
              /\ lane'[l].at \in {"reserve", "agent"} => lane[l].at \in {"begin", "reserve", "agent"}
           \/ lane[l].at = "record" /\ lane'[l].stage = "presentation" /\
              (lane'[l].at \in {"reserve", "agent"} => lane[l].stage = "research")
    <3>0. ASSUME NEW at, LaneGoto(l, at) PROVE lane'[l].at = at /\ lane'[l].stage = lane[l].stage
      BY <1>2, <3>0 DEF LaneGoto, ThreadRecord
    <3>1. CASE LaneBegin(l) \/ LaneReserve(l) \/ LaneEndAgent(l) \/ LaneFail(l)
      <4>1. CASE LaneBegin(l)
        <5>1. lane[l].at = "begin" /\ (LaneGoto(l, "reserve") \/ LaneGoto(l, "raised"))
          BY <4>1 DEF LaneBegin
        <5> QED BY <3>0, <5>1 DEF LaneWorks
      <4>2. CASE LaneReserve(l)
        BY <3>0, <4>2 DEF LaneReserve
      <4>3. CASE LaneEndAgent(l)
        BY <3>0, <4>3 DEF LaneEndAgent
      <4>4. CASE LaneFail(l)
        BY <3>0, <4>4 DEF LaneFail, LaneWorks
      <4> QED BY <3>1, <4>1, <4>2, <4>3, <4>4
    <3>2. CASE LaneVerify(l)
      BY <1>2, <3>2 DEF LaneVerify, LaneWorks, ThreadRecord
    <3>3. ASSUME NEW passed \in BOOLEAN, LaneRecord(l, passed)
          PROVE  /\ lane'[l].at # "begin"
                 /\ lane[l].at = "record" /\ lane'[l].stage = "presentation"
                 /\ lane'[l].at \in {"reserve", "agent"} => lane[l].stage = "research"
      BY <1>2, <3>3 DEF LaneRecord, ThreadRecord
    <3> QED BY <1>11, <3>1, <3>2, <3>3 DEF LaneStep
  <2>4. /\ lane[l].at \in {"begin", "reserve", "agent"} => ran[LaneNode(l)] = 0
        /\ lane[l].at \in LaneWorks \ {"except"} /\ lane[l].stage = "research" =>
             ran[LanePresentation(l)] = 0
    BY <1>1, <1>2 DEF LanesFresh
  <2>5. /\ lane'[l].at \in {"reserve", "agent"} => ran[LaneNode(l)'] = 0
        /\ lane'[l].at \in LaneWorks \ {"except"} /\ lane'[l].stage = "research" =>
             ran[LanePresentation(l)] = 0
    BY <1>0, <1>6, <1>8, <2>3, <2>4 DEF LaneWorks
  <2>6. \A k \in Lane \ {l} :
          /\ lane'[k].at = "begin" => lane'[k].stage = "research"
          /\ lane'[k].at \in {"begin", "reserve", "agent"} => ran[LaneNode(k)'] = 0
          /\ lane'[k].at \in LaneWorks \ {"except"} /\ lane'[k].stage = "research" =>
               ran[LanePresentation(k)] = 0
    BY <1>1, <1>2, <1>6, <1>8, <1>9 DEF LanesFresh
  <2>7. LanesFresh'
    BY <1>0, <1>1, <1>7, <2>1, <2>3, <2>5, <2>6 DEF LanesFresh
  <2> QED BY <1>2, <1>4, <2>1, <2>2, <2>7 DEF RanInv
<1> QED BY <1>10, <1>11

LEMMA RanSpawn ==
  ASSUME RecordsOK, ControlInv, EdgeInv, RanInv, SpawnLanes
  PROVE  RanInv'
<1>0. file \in FileRecord /\ call \in CallRecord
  BY DEF RecordsOK
<1>1. call.at = "spawn" /\ UNCHANGED <<contract, ran>>
  BY DEF SpawnLanes, history
<1>2. /\ contract \in Admitted /\ IsParallel(contract) /\ file.profile = "v4"
  BY <1>1, RegionIs DEF InRegion
<1>3. /\ file'.profile = "v4" /\ file'.current = file.current /\ file'.completed = file.completed
      /\ file'.region = "running" /\ file'.status = file.status /\ call'.at = "lanes"
      /\ \A l \in Lane : lane'[l].at = "begin" /\ lane'[l].stage = "research"
  BY <1>0, <1>2 DEF SpawnLanes, Write, Goto, FileRecord, CallRecord, NoThread
<1>4. file.region = "starting" /\ file.status = "running"
  BY <1>1, <1>2 DEF ControlInv, V4Place, V4Status, CallAt4
<1>5. RanVisited /\ LanesFresh /\ \A n \in Node : ran[n] <= 1
  BY <1>2 DEF RanInv
<1>6. \A n \in LaneNodes : ran[n] = 0
  BY <1>2, <1>4, <1>5 DEF LanesFresh
<1>7. LaneNodes' = LaneNodes /\ Visited' = Visited
  BY <1>1, <1>3 DEF LaneNodes, Visited
<1>8. \A l \in Lane : LaneNode(l)' \in LaneNodes /\ LanePresentation(l)' \in LaneNodes
  <2>1. \A l \in Lane : LaneNode(l)' = LaneResearch[l] /\ LanePresentation(l)' = LanePresentation(l)
    BY <1>1, <1>3 DEF LaneNode, LanePresentation, LaneResearch
  <2> QED BY <1>2, <2>1, LaneNodesAre
<1>9. RanVisited'
  BY <1>1, <1>5, <1>7 DEF RanVisited
<1>10. CurrentFresh'
  BY <1>3, <1>4 DEF CurrentFresh, Fresh
<1>11. LanesFresh'
  BY <1>1, <1>3, <1>6, <1>8 DEF LanesFresh
<1> QED BY <1>1, <1>5, <1>9, <1>10, <1>11 DEF RanInv

LEMMA CallRan ==
  ASSUME RecordsOK, ControlInv, EdgeInv, RanInv, CallStep
  PROVE  RanInv'
<1> USE DEF Write
<1>0. /\ file \in FileRecord /\ call \in CallRecord
      /\ file.profile = "v4" /\ V4Status /\ V4Place /\ V4Checkpoint /\ CurrentFresh
  BY CallStepIsV4 DEF RecordsOK, ControlInv, RanInv
<1>1. ASSUME UNCHANGED <<contract, ran>>, file'.profile = file.profile,
             file'.current = file.current, file'.completed = file.completed, Fresh' => Fresh,
             file'.region \in {"none", "starting"} => file.region \in {"none", "starting"},
             lane' = lane \/ lane' = [l \in Lane |-> NoThread]
      PROVE  RanInv'
  <2>1. CurrentFresh'
    BY <1>0, <1>1 DEF CurrentFresh
  <2>2. Visited' = Visited
    BY <1>1 DEF Visited
  <2> QED BY <1>1, <2>1, <2>2, RanFrame
<1>2. ASSUME NEW m \in Node, m \notin Visited, IsParallel(contract) => m \notin LaneNodes,
             file'.current = m, UNCHANGED ran
      PROVE  CurrentFresh'
  BY <1>0, <1>2, NewIsFresh DEF CurrentFresh
<1>3. ASSUME file.current # NoNode, Role(file.current) # "parallel_fork",
             file'.current \in Children(contract, file.current),
             UNCHANGED <<contract, ran, lane>>, file'.profile = file.profile,
             file'.completed = file.completed \cup {file.current}, file'.region = file.region
      PROVE  RanInv'
  <2>1. /\ file'.current \in contract.node /\ file'.current \notin Visited
        /\ IsParallel(contract) => file'.current \notin LaneNodes
    BY <1>0, <1>3, ChildIsNew DEF Visited
  <2>2. file'.current \in Node
    BY <1>0, <2>1, Contracted
  <2>3. CurrentFresh'
    BY <1>2, <1>3, <2>1, <2>2
  <2>4. Visited \subseteq Visited'
    BY <1>3 DEF Visited
  <2> QED BY <1>3, <2>3, <2>4, RanFrame
<1>4. CASE Pass \/ Decision
  <2>1. /\ file.current # NoNode /\ Role(file.current) # "parallel_fork"
        /\ file.status = "running"
    BY <1>0, <1>4 DEF Pass, Decision, At, V4Place, V4Status, CallAt4
  <2>2. UNCHANGED <<contract, ran, lane>>
    BY <1>0, <1>4, MoveWrites DEF history
  <2>3. \/ file' = file /\ call'.at = "raised"
        \/ /\ file'.completed = file.completed \cup {file.current}
           /\ file'.profile = file.profile /\ file'.region = file.region
           /\ file'.current \in Children(contract, file.current)
    BY <1>0, <1>4, MoveWrites DEF Successor, Branch
  <2>4. CASE file' = file /\ call'.at = "raised"
    BY <1>1, <2>1, <2>2, <2>4 DEF Fresh
  <2> QED BY <1>3, <2>1, <2>2, <2>3, <2>4
<1>5. CASE WriteDecision
  <2>1. /\ file.current # NoNode /\ Role(file.current) = "approval"
        /\ file.checkpoint.node = file.current
    BY <1>0, <1>5 DEF WriteDecision, V4Status, V4Checkpoint
  <2>2. /\ UNCHANGED <<contract, ran, lane>>
        /\ file'.completed = file.completed \cup {file.current} /\ file'.profile = file.profile
        /\ file'.region = file.region
        /\ \/ file'.current = NoNode
           \/ file'.current \in Children(contract, file.current)
    BY <1>0, <1>5, <2>1, DecisionWrites DEF Branch
  <2>3. CASE file'.current = NoNode
    <3>1. CurrentFresh' /\ Visited \subseteq Visited'
      BY <2>2, <2>3 DEF CurrentFresh, Visited
    <3> QED BY <2>2, <3>1, RanFrame
  <2> QED BY <1>3, <2>1, <2>2, <2>3
<1>6. CASE LeaveRegion
  <2>1. /\ UNCHANGED <<contract, ran>> /\ lane' = [l \in Lane |-> NoThread]
        /\ call.at \in InRegion /\ call.at \in CallAt4
    BY <1>0, <1>6, LeaveWrites DEF history, InRegion, CallAt4
  <2>2. CASE file' = file /\ call'.at = "raised"
    BY <1>0, <1>1, <2>1, <2>2 DEF Fresh, V4Status
  <2>3. CASE /\ file'.completed = file.completed \cup {Join(contract), Fork(contract)} \cup LaneNodes
             /\ file'.profile = file.profile /\ file'.region = file.region
             /\ file'.current \in Successor(Join(contract))
    <3>0. file.current = Fork(contract) /\ contract.node \subseteq Node
      BY <1>0, <2>1, RegionIs, Contracted
    <3>1. file'.current \in Node /\ file'.current \notin Visited /\ file'.current \notin LaneNodes
      BY <2>1, <2>3, <3>0, JoinIsNew DEF Visited
    <3>2. CurrentFresh'
      BY <1>2, <2>1, <3>1
    <3>3. Visited \subseteq Visited'
      BY <2>3, <3>0 DEF Visited
    <3> QED BY <2>1, <2>3, <3>2, <3>3, RanFrame
  <2> QED BY <1>0, <1>6, <2>2, <2>3, LeaveWrites
<1>7. CASE Output
  <2>1. /\ file'.completed = file.completed \cup {file.current} /\ file'.current = NoNode
        /\ file'.profile = file.profile /\ file'.region = file.region
        /\ UNCHANGED <<contract, ran, lane>>
    BY <1>0, <1>7 DEF Output, Completed, FileRecord, history
  <2>2. CurrentFresh' /\ Visited \subseteq Visited'
    BY <2>1 DEF CurrentFresh, Visited
  <2> QED BY <2>1, <2>2, RanFrame
<1>8. CASE StartAgent \/ RunDaily
  <2>1. /\ call.at \in {"agent", "advance"} /\ file.current # NoNode
        /\ Counted(file.current) /\ UNCHANGED <<contract, file, lane>>
        /\ call'.at \in {"working", "raised", "complete"}
    BY <1>0, <1>8 DEF StartAgent, RunDaily, At, Goto, Raise, Idle, CallRecord, V4Place, AtAgent
  <2>2. Fresh /\ ~Fresh'
    BY <1>0, <2>1 DEF Fresh, V4Status, CallAt4
  <2> QED BY <1>0, <2>1, <2>2, RanCurrent
<1>9. CASE SpawnLanes
  BY <1>9, RanSpawn
<1>10. CASE WriteBound \/ WriteLast \/ Pause
  <2>1. CASE WriteBound
    BY <1>0, <1>1, <2>1 DEF WriteBound, FileRecord, history, Fresh
  <2>2. CASE WriteLast
    <3>1. file.status = "running"
      BY <1>0, <2>2 DEF WriteLast, V4Status, CallAt4
    <3> QED BY <1>0, <1>1, <2>2, <3>1 DEF WriteLast, FileRecord, CallRecord, Goto, history, Fresh
  <2>3. CASE Pause
    BY <1>0, <1>1, <2>3 DEF Pause, At, FileRecord, history, Fresh
  <2> QED BY <1>10, <2>1, <2>2, <2>3
<1>11. CASE StartRegion \/ WriteRegion
  <2>0. file.status = "running"
    BY <1>0, <1>11 DEF StartRegion, WriteRegion, V4Status, CallAt4
  <2>1. CASE StartRegion
    <3>1. file.region = "none"
      BY <1>0, <2>1 DEF StartRegion, V4Place
    <3> QED BY <1>0, <1>1, <2>0, <2>1, <3>1 DEF StartRegion, FileRecord, CallRecord, Goto, history, Fresh
  <2>2. CASE WriteRegion
    BY <1>0, <1>1, <2>0, <2>2 DEF WriteRegion, FileRecord, CallRecord, Goto, history, Fresh
  <2> QED BY <1>11, <2>1, <2>2
<1>12. CASE FinishRejected \/ FinishBlocked \/ WriteCompleted \/ MarkFailure
  <2>1. /\ UNCHANGED <<contract, ran>>
        /\ lane' = lane \/ lane' = [l \in Lane |-> NoThread]
    BY <1>12 DEF FinishRejected, FinishBlocked, WriteCompleted, MarkFailure, history
  <2>2. /\ file'.profile = file.profile /\ file'.current = file.current
        /\ file'.completed = file.completed /\ file'.region = file.region
        /\ file'.status \in {"rejected", "blocked", "completed", "failed"}
    <3>1. CASE FinishRejected
      BY <1>0, <3>1 DEF FinishRejected, FileRecord
    <3>2. CASE FinishBlocked
      BY <1>0, <3>2 DEF FinishBlocked, FileRecord
    <3>3. CASE WriteCompleted
      BY <1>0, <3>3 DEF WriteCompleted, FileRecord
    <3>4. CASE MarkFailure
      BY <1>0, <3>4 DEF MarkFailure, FileRecord
    <3> QED BY <1>12, <3>1, <3>2, <3>3, <3>4
  <2>3. call'.at \in {"idle", "blocked", "failing"}
    BY <1>0, <1>12 DEF FinishRejected, FinishBlocked, WriteCompleted, MarkFailure, Return, Goto,
      Idle, CallRecord
  <2>4. ~Fresh'
    BY <2>2, <2>3 DEF Fresh
  <2> QED BY <1>1, <2>1, <2>2, <2>4
<1>13. CASE EnterTry \/ Begin \/ ReserveNode
  <2>1. UNCHANGED <<contract, ran, file, lane>> /\ call.at \in {"authorized", "advance"}
    BY <1>13 DEF EnterTry, Begin, ReserveNode, Begins, At, history
  <2>2. Fresh
    BY <2>1 DEF Fresh
  <2> QED BY <1>1, <2>1, <2>2
<1>14. ASSUME NEW passed \in BOOLEAN, RecordNode(passed) PROVE RanInv'
  BY <1>0, <1>1, <1>14 DEF RecordNode, Goto, CallRecord, history, Fresh
<1>15. CASE \/ Refused \/ EndAgent
            \/ Wait \/ LanesEnd \/ RecordAggregate \/ FinishDone \/ MarkBlocked \/ MarkFailed
  <2>1. UNCHANGED <<contract, ran, file, lane>>
    BY <1>15 DEF Refused, EndAgent, Wait, LanesEnd, RecordAggregate, FinishDone, MarkBlocked,
      MarkFailed, history
  <2>2. call'.at \notin {"authorized", "advance", "bound", "agent"}
    BY <1>0, <1>15 DEF Refused, EndAgent, Wait, LanesEnd, RecordAggregate, FinishDone, MarkBlocked,
      MarkFailed, Return, Raise, Goto, Idle, CallRecord
  <2> QED BY <1>1, <2>1, <2>2 DEF Fresh
<1> QED
  BY <1>4, <1>5, <1>6, <1>7, <1>8, <1>9, <1>10, <1>11, <1>12, <1>13, <1>14, <1>15 DEF CallStep

LEMMA StepRanInv ==
  ASSUME RecordsOK, ControlInv, EdgeInv, LaneInv, RanInv, [Next]_vars
  PROVE  RanInv'
<1>0. file \in FileRecord /\ call \in CallRecord
  BY DEF RecordsOK
<1>1. CASE CallStep
  BY <1>1, CallRan
<1>2. CASE RunStep
  BY <1>2, StepV2Control DEF RanInv
<1>3. ASSUME NEW l \in Lane, LaneStep(l) PROVE RanInv'
  BY <1>3, LaneRan
<1>4. ASSUME NEW c \in Contract, Prepare(c) PROVE RanInv'
  <2> DEFINE r == CHOOSE r \in c.node : c.depends[r] = {}
  <2>1. /\ contract' = c /\ c \in Admitted /\ Shaped(c)
        /\ ran' = ran /\ lane' = lane /\ file = NoFile /\ call = Idle
    BY <1>4, AdmittedShaped DEF Prepare, history, local
  <2>2. r \in c.node
    BY <2>1, RootIs
  <2>3. r \in Node /\ c.node \subseteq Node
    BY <2>2, ContractIs
  <2>4. \A n \in Node : ran[n] = 0
    BY <2>1 DEF ControlInv, NoFile
  <2>5. file'.current = r
    BY <1>4 DEF Prepare, Prepared, Write, NoFile
  <2>6. \A l \in Lane : lane'[l].at = "none"
    BY <2>1 DEF LaneInv, LaneSpan, Idle
  <2>7. RanVisited' /\ \A n \in Node : ran'[n] <= 1
    BY <2>1, <2>4 DEF RanVisited
  <2> HIDE DEF r
  <2>8. CurrentFresh'
    BY <2>1, <2>3, <2>4, <2>5 DEF CurrentFresh
  <2>9. LanesFresh'
    <3>1. IsParallel(contract') => LaneNodes' \subseteq Node
      <4> SUFFICES ASSUME IsParallel(c) PROVE LaneNodes' \subseteq Node
        BY <2>1
      <4>1. LaneNodes' \subseteq c.node
        BY <2>1, ContractIs DEF LaneNodes, Children
      <4> QED BY <2>3, <4>1
    <3> QED BY <2>1, <2>4, <2>6, <3>1 DEF LanesFresh, LaneWorks
  <2> QED BY <2>7, <2>8, <2>9 DEF RanInv
<1>5. ASSUME NEW c \in Contract, PrepareV2(c) PROVE RanInv'
  <2>1. file'.profile = "v2"
    BY <1>5 DEF PrepareV2, Prepared, Write, NoFile
  <2> QED BY <2>1 DEF RanInv
<1>6. CASE Execute
  <2>1. file'.profile = "v2"
    BY <1>0, <1>6 DEF Execute, Write, FileRecord
  <2> QED BY <2>1 DEF RanInv
<1>7. CASE Start
  <2>1. /\ UNCHANGED <<contract, ran, lane>> /\ file.status = "prepared"
        /\ file'.profile = file.profile /\ file'.current = file.current
        /\ file'.completed = file.completed /\ file'.region = file.region
        /\ file.profile = "v4"
    BY <1>0, <1>7 DEF Start, Startable, Write, FileRecord, history
  <2>2. CurrentFresh' /\ Visited' = Visited
    BY <2>1 DEF RanInv, CurrentFresh, Fresh, Visited
  <2> QED BY <2>1, <2>2, RanFrame
<1>8. ASSUME NEW fp \in shown, NEW d \in {"approved", "rejected"}, Decide(fp, d) PROVE RanInv'
  <2>1. UNCHANGED <<contract, ran, file, lane>> /\ file.status = "paused"
    BY <1>8 DEF Decide, history
  <2> QED BY <2>1, RanQuiet DEF Fresh
<1>9. CASE Crash \/ Escape
  <2>1. UNCHANGED <<contract, ran, file>> /\ lane' = [l \in Lane |-> NoThread] /\ call'.at = "idle"
    BY <1>9 DEF Crash, Escape, Return, Idle
  <2> QED BY <2>1, RanQuiet DEF Fresh
<1>10. ASSUME NEW t \in Task, Charge(t) \/ TimePasses(t) PROVE RanInv'
  BY <1>10, RanQuiet DEF Charge, TimePasses, local, history, Fresh
<1>11. CASE Show \/ UNCHANGED vars
  BY <1>11, RanQuiet DEF Show, vars, local, history, Fresh
<1> QED
  BY <1>1, <1>2, <1>3, <1>4, <1>5, <1>6, <1>7, <1>8, <1>9, <1>10, <1>11 DEF Next

-----------------------------------------------------------------------------
(* Nodes run once: V2.                                                     *)

LEMMA Ran2Frame ==
  ASSUME Ran2Inv, UNCHANGED <<contract, ran>>, file'.profile = file.profile,
         file'.status # "prepared", call.at \in CallAt2, call'.stage = call.stage,
         call'.at \in CallAt2 => /\ call'.at \in {"v2_begin", "v2_reserve", "v2_agent"} =>
                                      call.at \in {"v2_begin", "v2_reserve", "v2_agent"}
                                 /\ call.at \in {"v2_end", "v2_unreported"} =>
                                      call'.at \in {"v2_end", "v2_unreported"}
  PROVE  Ran2Inv'
<1>1. StageNode' = StageNode /\ ReportNode' = ReportNode
  BY DEF StageNode, ReportNode
<1>2. {"v2_begin", "v2_reserve", "v2_agent"} \subseteq CallAt2
  BY DEF CallAt2
<1> HIDE DEF StageNode, ReportNode, NodeFor
<1> QED BY <1>1, <1>2 DEF Ran2Inv

LEMMA ChainNodes ==
  ASSUME RecordsOK, ControlInv, file.profile = "v2"
  PROVE  /\ NodeFor(contract, "presentation") \in Node
         /\ ReportNode \in Node /\ ReportNode # NodeFor(contract, "presentation")
         /\ call.stage \in Stage => /\ StageNode = NodeFor(contract, call.stage)
                                    /\ StageNode \in Node /\ StageNode # ReportNode
                                    /\ call.stage = "research" =>
                                         StageNode # NodeFor(contract, "presentation")
<1>1. contract \in AdmittedV2 /\ contract.node \subseteq Node
  BY Contracted DEF ControlInv, V2Control
<1>2. /\ ReportNode = NodeFor(contract, "daily_report")
      /\ StageNode = NodeFor(contract, call.stage)
  BY DEF ReportNode, StageNode, NodeFor
<1>3. \A role \in {"research", "presentation", "daily_report"} :
        NodeFor(contract, role) \in contract.node /\ contract.role[NodeFor(contract, role)] = role
  BY <1>1, ChainNode
<1>4. /\ NodeFor(contract, "presentation") \in Node /\ ReportNode \in Node
      /\ ReportNode # NodeFor(contract, "presentation")
  BY <1>1, <1>2, <1>3
<1>5. ASSUME call.stage \in Stage
      PROVE  /\ StageNode \in Node /\ StageNode # ReportNode
             /\ call.stage = "research" => StageNode # NodeFor(contract, "presentation")
  BY <1>1, <1>2, <1>3, <1>5 DEF Stage
<1> QED BY <1>2, <1>4, <1>5

LEMMA RunRan ==
  ASSUME RecordsOK, ControlInv, Ran2Inv, RunStep
  PROVE  Ran2Inv'
<1> USE DEF Goto
<1>0. /\ file \in FileRecord /\ call \in CallRecord /\ ran \in [Node -> Nat]
      /\ file.profile = "v2" /\ V2Control /\ call.at \in CallAt2 /\ file.status = "executing"
      /\ call.stage \in Stage
  BY RunStepIsV2 DEF RecordsOK, ControlInv, V2Control
<1>1. UNCHANGED contract
  BY StepV2Control
<1>2. /\ NodeFor(contract, "presentation") \in Node
      /\ ReportNode \in Node /\ ReportNode # NodeFor(contract, "presentation")
      /\ StageNode = NodeFor(contract, call.stage)
      /\ StageNode \in Node /\ StageNode # ReportNode
      /\ call.stage = "research" => StageNode # NodeFor(contract, "presentation")
  BY <1>0, ChainNodes
<1>3. /\ \A n \in Node : ran[n] <= 1
      /\ call.at \in {"v2_begin", "v2_reserve", "v2_agent"} => ran[StageNode] = 0
      /\ call.stage = "research" => ran[NodeFor(contract, "presentation")] = 0
      /\ call.at \in CallAt2 \ {"v2_end", "v2_unreported"} => ran[ReportNode] = 0
  BY <1>0 DEF Ran2Inv
<1>4. CASE RunStart
  <2>1. /\ file' = file /\ call.at = "v2_agent" /\ call'.at \in {"v2_working", "v2_broken"}
        /\ call'.stage = call.stage /\ ran' = [ran EXCEPT ![StageNode] = @ + 1]
    BY <1>0, <1>4 DEF RunStart, CallRecord, Counted
  <2>2. StageNode' = StageNode /\ ReportNode' = ReportNode
    BY <1>1, <2>1 DEF StageNode, ReportNode
  <2>3. ran'[StageNode] = 1 /\ \A n \in Node : n # StageNode => ran'[n] = ran[n]
    BY <1>0, <1>2, <1>3, <2>1
  <2> HIDE DEF StageNode, ReportNode, NodeFor
  <2>4. \A n \in Node : ran'[n] <= 1
    BY <1>3, <2>3
  <2>5. ran'[ReportNode] = 0
    BY <1>2, <1>3, <2>1, <2>3 DEF CallAt2
  <2>6. call.stage = "research" => ran'[NodeFor(contract, "presentation")] = 0
    BY <1>2, <1>3, <2>3
  <2> QED BY <1>0, <1>1, <2>1, <2>2, <2>4, <2>5, <2>6 DEF Ran2Inv
<1>5. CASE RunReport
  <2>1. /\ file' = file /\ call.at = "v2_daily" /\ call'.at \in {"v2_end", "v2_unreported"}
        /\ call'.stage = call.stage /\ ran' = [ran EXCEPT ![ReportNode] = @ + 1]
    BY <1>0, <1>5 DEF RunReport, CallRecord, Counted
  <2>2. ran'[ReportNode] = 1 /\ \A n \in Node : n # ReportNode => ran'[n] = ran[n]
    BY <1>0, <1>2, <1>3, <2>1 DEF CallAt2
  <2> HIDE DEF StageNode, ReportNode, NodeFor
  <2>3. \A n \in Node : ran'[n] <= 1
    BY <1>3, <2>2
  <2>4. call.stage = "research" => ran'[NodeFor(contract, "presentation")] = 0
    BY <1>2, <1>3, <2>2
  <2> QED BY <1>0, <1>1, <2>1, <2>3, <2>4 DEF Ran2Inv
<1>6. ASSUME NEW passed \in BOOLEAN, RunRecord(passed) PROVE Ran2Inv'
  <2>1. /\ UNCHANGED <<contract, file, ran>> /\ call.at = "v2_record"
        /\ \/ call'.at \in {"v2_gate", "v2_verify"}
           \/ call'.at = "v2_reserve" /\ call.stage = "research"
        /\ call'.stage \in {"presentation", call.stage}
        /\ call'.at = "v2_reserve" => call'.stage = "presentation"
    BY <1>0, <1>6 DEF RunRecord, CallRecord, history
  <2>2. /\ ReportNode' = ReportNode
        /\ call'.stage = "presentation" => StageNode' = NodeFor(contract, "presentation")
    BY <2>1 DEF StageNode, ReportNode, NodeFor
  <2>3. ran[ReportNode] = 0
    BY <1>3, <2>1 DEF CallAt2
  <2> HIDE DEF StageNode, ReportNode, NodeFor
  <2> QED BY <1>0, <1>3, <2>1, <2>2, <2>3 DEF Ran2Inv, Stage
<1>7. CASE FinishExecute
  <2>1. UNCHANGED ran /\ call'.at = "idle" /\ file'.status \in {"completed", "failed"}
    BY <1>0, <1>7 DEF FinishExecute, Write, Return, Idle, FileRecord, history
  <2> QED BY <1>3, <2>1 DEF Ran2Inv, CallAt2
<1>8. ASSUME NEW passed \in BOOLEAN, RunBroken(passed) PROVE Ran2Inv'
  BY <1>0, <1>8, Ran2Frame DEF RunBroken, CallRecord, history
<1>9. CASE RunBegin \/ RunReserve \/ RunEnd
  <2>1. /\ UNCHANGED <<contract, file, ran>> /\ call'.stage = call.stage
        /\ call.at \in {"v2_begin", "v2_reserve", "v2_working"}
        /\ call'.at \in {"v2_reserve", "v2_agent"} => call.at \in {"v2_begin", "v2_reserve"}
        /\ call'.at # "v2_begin"
    BY <1>0, <1>9 DEF RunBegin, RunReserve, RunEnd, CallRecord, history
  <2> QED BY <1>0, <2>1, Ran2Frame
<1>10. CASE RunGate \/ RunVerify \/ RunExcept \/ RunUnreported
  <2>1. /\ UNCHANGED <<contract, file, ran>> /\ call'.stage = call.stage
        /\ call'.at \in {"v2_daily", "v2_except", "v2_end"}
        /\ call.at \in {"v2_end", "v2_unreported"} => call'.at = "v2_end"
    BY <1>0, <1>10 DEF RunGate, RunVerify, RunExcept, RunUnreported, CallRecord, history
  <2> QED BY <1>0, <2>1, Ran2Frame
<1> QED BY <1>4, <1>5, <1>6, <1>7, <1>8, <1>9, <1>10 DEF RunStep

LEMMA StepRan2 ==
  ASSUME RecordsOK, ControlInv, EdgeInv, LaneInv, Ran2Inv, [Next]_vars
  PROVE  Ran2Inv'
<1>0. file \in FileRecord /\ call \in CallRecord
  BY DEF RecordsOK
<1>1. ASSUME file'.profile # "v2" PROVE Ran2Inv'
  BY <1>1 DEF Ran2Inv
<1>2. ASSUME UNCHANGED <<contract, file, call, ran>> PROVE Ran2Inv'
  BY <1>2 DEF Ran2Inv, StageNode, ReportNode
<1>3. CASE CallStep
  BY <1>1, <1>3, StepV4Control
<1>4. CASE RunStep
  BY <1>4, RunRan
<1>5. ASSUME NEW l \in Lane, LaneStep(l) PROVE Ran2Inv'
  BY <1>1, <1>5, LaneStepWorks, LaneStepInRegion
<1>6. ASSUME NEW c \in Contract, Prepare(c) PROVE Ran2Inv'
  <2>1. file'.profile = "v4"
    BY <1>6 DEF Prepare, Prepared, Write, NoFile
  <2> QED BY <1>1, <2>1
<1>7. ASSUME NEW c \in Contract, PrepareV2(c) PROVE Ran2Inv'
  <2>1. \A n \in Node : ran'[n] = 0
    BY <1>7 DEF PrepareV2, ControlInv, NoFile, history
  <2>2. call'.at = "idle"
    BY <1>7 DEF PrepareV2, Idle, local
  <2> QED BY <2>1, <2>2 DEF Ran2Inv, CallAt2
<1>8. CASE Execute
  <2>1. /\ UNCHANGED <<contract, ran>> /\ file.profile = "v2" /\ file.status = "prepared"
        /\ call'.at = "v2_begin" /\ call'.stage = "research"
        /\ file'.profile = "v2" /\ file'.status = "executing"
    BY <1>0, <1>8 DEF Execute, Write, Idle, FileRecord, history
  <2>2. \A n \in Node : ran[n] = 0
    BY <2>1 DEF Ran2Inv
  <2>3. contract \in AdmittedV2 /\ contract.node \subseteq Node
    BY <2>1, Contracted DEF ControlInv, V2Control
  <2>4. \A role \in {"research", "presentation", "daily_report"} : NodeFor(contract, role) \in Node
    BY <2>3, ChainNode
  <2>5. StageNode' = NodeFor(contract, "research") /\ ReportNode' = NodeFor(contract, "daily_report")
    BY <2>1 DEF StageNode, ReportNode, NodeFor
  <2> HIDE DEF StageNode, ReportNode, NodeFor
  <2> QED BY <2>1, <2>2, <2>4, <2>5 DEF Ran2Inv
<1>9. CASE Start
  BY <1>0, <1>1, <1>9 DEF Start, Write, FileRecord
<1>10. ASSUME NEW fp \in shown, NEW d \in {"approved", "rejected"}, Decide(fp, d) PROVE Ran2Inv'
  BY <1>1, <1>10 DEF Decide
<1>11. CASE Crash \/ Escape
  <2>1. UNCHANGED <<contract, file, ran>> /\ call'.at = "idle"
    BY <1>11 DEF Crash, Escape, Return, Idle
  <2> QED BY <2>1 DEF Ran2Inv, CallAt2
<1>12. ASSUME NEW t \in Task, Charge(t) \/ TimePasses(t) PROVE Ran2Inv'
  BY <1>2, <1>12 DEF Charge, TimePasses, local, history
<1>13. CASE Show \/ UNCHANGED vars
  BY <1>2, <1>13 DEF Show, vars, local, history
<1> QED
  BY <1>3, <1>4, <1>5, <1>6, <1>7, <1>8, <1>9, <1>10, <1>11, <1>12, <1>13 DEF Next

LEMMA InitRan == Init => RanInv /\ Ran2Inv /\ DecisionInv /\ JoinInv
  BY DEF Init, RanInv, Ran2Inv, DecisionInv, JoinInv, NoFile

-----------------------------------------------------------------------------
(* What is behind the join was reached over verified lanes.                *)

LEMMA JoinFrame ==
  ASSUME JoinInv, contract' = contract, file'.profile = file.profile, file'.last = file.last,
         file.last.passed => /\ file'.region = file.region
                             /\ \A l \in Lane : /\ status'[l] = status[l]
                                                /\ results'[l] = results[l],
         ~file.last.passed => Visited' \cap BehindJoin \subseteq Visited
  PROVE  JoinInv'
<1> SUFFICES ASSUME file.profile = "v4", IsParallel(contract) PROVE JoinInv'
  BY DEF JoinInv
<1>1. JoinPassed'
  BY DEF JoinInv, JoinPassed, Verified
<1>2. BehindJoin' = BehindJoin
  BY DEF BehindJoin
<1> QED BY <1>1, <1>2 DEF JoinInv

LEMMA JoinPlaces ==
  ASSUME contract \in Admitted, IsParallel(contract)
  PROVE  /\ \A m \in BehindJoin : \E d \in contract.depends[m] :
              contract.role[d] = "decision" /\ d \in contract.node /\ Join(contract) \in contract.depends[d]
         /\ (LaneNodes \cup {Join(contract)}) \cap BehindJoin = {}
<1>0. contract \in Contract /\ Shaped(contract) /\ ForkShaped(contract) /\ JoinShaped(contract)
  BY AdmittedShaped, AdmittedForkShaped, AdmittedJoinShaped
<1>1. ASSUME NEW m \in BehindJoin
      PROVE  \E d \in contract.depends[m] :
               contract.role[d] = "decision" /\ d \in contract.node /\ Join(contract) \in contract.depends[d]
  <2>1. PICK d \in contract.depends[m] : d \in Children(contract, Join(contract))
    BY DEF BehindJoin
  <2> QED BY <1>0, <2>1 DEF JoinShaped, Children
<1>2. ASSUME NEW m \in LaneNodes PROVE \A p \in contract.depends[m] : contract.role[p] # "decision"
  <2>1. PICK r \in Children(contract, Fork(contract)) : m \in {r} \cup Children(contract, r)
    BY DEF LaneNodes
  <2>2. contract.role[r] = "research" /\ contract.depends[r] = {Fork(contract)}
        /\ contract.role[Fork(contract)] = "parallel_fork"
    BY <1>0, ForkIs DEF ForkShaped
  <2>3. m = r \/ contract.depends[m] = {r}
    BY <1>0, <2>1 DEF ForkShaped
  <2> QED BY <2>2, <2>3
<1>3. \A p \in contract.depends[Join(contract)] : contract.role[p] # "decision"
  <2> SUFFICES ASSUME NEW r \in Children(contract, Fork(contract)), NEW p \in Children(contract, r)
               PROVE  contract.role[p] # "decision"
    BY <1>0 DEF ForkShaped
  <2> QED BY <1>0 DEF ForkShaped
<1> QED BY <1>1, <1>2, <1>3

LEMMA CallJoin ==
  ASSUME RecordsOK, ControlInv, EdgeInv, LaneInv, JoinInv, CallStep
  PROVE  JoinInv'
<1> USE DEF Write
<1> USE ParentIsTask
<1>0. /\ file \in FileRecord /\ call \in CallRecord /\ TasksOK
      /\ file.profile = "v4" /\ V4Status /\ V4Place /\ V4Checkpoint /\ contract \in Admitted
  BY CallStepIsV4 DEF RecordsOK, ControlInv
<1>p. contract' = contract /\ file'.profile = "v4"
  <2>1. contract' = contract
    BY DEF CallStep, Pass, Decision, EnterTry, Refused, Begin, WriteBound, ReserveNode,
      StartAgent, RunDaily, EndAgent, RecordNode, WriteLast, Pause, Wait, WriteDecision,
      StartRegion, SpawnLanes, LanesEnd, RecordAggregate, WriteRegion, LeaveRegion, Output,
      FinishRejected, FinishBlocked, FinishDone, WriteCompleted, MarkBlocked, MarkFailure,
      MarkFailed
  <2> QED BY <2>1, StepV4Control
<1> SUFFICES ASSUME IsParallel(contract) PROVE JoinInv'
  BY <1>p DEF JoinInv
<1>j. JoinPassed /\ (Visited \cap BehindJoin # {} => file.last.passed)
  BY <1>0 DEF JoinInv
<1>1. ASSUME UNCHANGED <<status, results>>, file'.last = file.last,
             file'.region = file.region, file'.current = file.current,
             file'.completed = file.completed
      PROVE  JoinInv'
  <2>1. Visited' = Visited
    BY <1>1 DEF Visited
  <2> QED BY <1>0, <1>1, <1>p, <2>1, JoinFrame
<1>2. CASE Pass \/ Decision
  <2>1. UNCHANGED <<status, results>>
    BY <1>0, <1>2, MoveWrites DEF tasks
  <2>2. file'.last = file.last /\ file'.region = file.region
    BY <1>0, <1>2, MoveWrites
  <2>3. CASE file' = file
    BY <1>1, <2>1, <2>3
  <2>4. CASE /\ file'.completed = file.completed \cup {file.current}
             /\ contract.cond[file'.current] = "passed" => file.last.passed
    <3>1. file.current # NoNode
      BY <1>0, <1>2 DEF Pass, Decision, At, V4Place
    <3>2. Visited' \subseteq Visited \cup {file'.current}
      BY <2>4, <3>1 DEF Visited
    <3>3. ~file.last.passed => file'.current \notin BehindJoin
      BY <2>4 DEF BehindJoin
    <3> QED BY <1>0, <1>p, <2>1, <2>2, <3>2, <3>3, JoinFrame
  <2>5. \/ file' = file
        \/ /\ file'.completed = file.completed \cup {file.current}
           /\ contract.cond[file'.current] = "passed" => file.last.passed
    BY <1>0, <1>2, MoveWrites DEF Successor, Branch, NoCond
  <2> QED BY <2>3, <2>4, <2>5
<1>3. CASE WriteDecision
  <2>1. /\ file.current # NoNode /\ file.checkpoint.node = file.current
        /\ call.decision \in {"approved", "rejected"}
    BY <1>0, <1>3 DEF WriteDecision, V4Status, V4Checkpoint, CallRecord
  <2>2. UNCHANGED <<status, results>> /\ file'.last = file.last /\ file'.region = file.region
    BY <1>0, <1>3, DecisionWrites DEF tasks
  <2>3. /\ file'.completed = file.completed \cup {file.current}
        /\ \/ file'.current = NoNode
           \/ contract.cond[file'.current] = call.decision
    BY <1>0, <1>3, <2>1, DecisionWrites DEF Branch
  <2>4. Visited' \subseteq Visited \cup ({file'.current} \ {NoNode})
    BY <2>1, <2>3 DEF Visited
  <2>5. file'.current # NoNode => file'.current \notin BehindJoin
    BY <2>1, <2>3 DEF BehindJoin
  <2> QED BY <1>0, <1>p, <2>2, <2>4, <2>5, JoinFrame
<1>4. CASE LeaveRegion
  <2>1. UNCHANGED <<status, results>> /\ file'.last = file.last /\ file'.region = file.region
        /\ call.at \in InRegion
    BY <1>0, <1>4, LeaveWrites DEF tasks, InRegion
  <2>2. CASE file' = file
    BY <1>1, <2>1, <2>2
  <2>3. CASE /\ file'.completed = file.completed \cup {Join(contract), Fork(contract)} \cup LaneNodes
             /\ file'.current \in Successor(Join(contract))
    <3>1. file.current = Fork(contract) /\ Fork(contract) \in contract.node
      BY <2>1, RegionIs
    <3>2. Fork(contract) \in Visited
      BY <1>0, <3>1, AdmittedShaped, ContractIs DEF Visited
    <3>3. Visited' \subseteq Visited \cup {Join(contract), file'.current} \cup LaneNodes
      BY <2>3, <3>2 DEF Visited
    <3>4. file'.current \notin BehindJoin
      BY <2>3 DEF Successor, BehindJoin, NoCond
    <3>5. Visited' \cap BehindJoin \subseteq Visited
      BY <1>0, <3>3, <3>4, JoinPlaces
    <3> QED BY <1>0, <1>p, <2>1, <3>5, JoinFrame
  <2> QED BY <1>0, <1>4, <2>2, <2>3, LeaveWrites
<1>5. CASE Output
  <2>1. /\ UNCHANGED <<status, results>> /\ file'.last = file.last /\ file'.region = file.region
        /\ file'.completed = file.completed \cup {file.current} /\ file'.current = NoNode
        /\ file.current # NoNode
    BY <1>0, <1>5 DEF Output, At, Completed, FileRecord, tasks
  <2>2. Visited' = Visited
    BY <2>1 DEF Visited
  <2> QED BY <1>0, <1>p, <2>1, <2>2, JoinFrame
<1>6. CASE WriteLast
  <2>1. call.at \in AtAgent
    BY <1>6 DEF WriteLast, AtAgent
  <2>2. file.current # NoNode /\ contract.role[file.current] \in Stage
    BY <1>0, <2>1 DEF V4Place, Role
  <2>3. file.current \in contract.node /\ file.current \notin LaneNodes
    BY <1>0, <2>2 DEF EdgeInv, Visited
  <2>4. LaneNodes = LanesOf(contract)
    BY DEF LaneNodes, LanesOf
  <2> QED BY <1>0, <2>2, <2>3, <2>4, AdmittedForkShaped DEF ForkShaped
<1>7. CASE WriteRegion
  <2>1. /\ UNCHANGED <<status, results>> /\ file'.region = "completed"
        /\ file'.last.passed = AllVerified
        /\ file'.current = file.current /\ file'.completed = file.completed
        /\ call.at \in InRegion
    BY <1>0, <1>7 DEF WriteRegion, FileRecord, tasks, InRegion
  <2>2. JoinPassed'
    <3>1. AllVerified => \A l \in Lane : status[l] = "DONE" /\ Verified(l)
      BY DEF AllVerified, LaneInv
    <3>2. \A l \in Lane : status'[l] = status[l] /\ Verified(l)' = Verified(l)
      BY <2>1 DEF Verified
    <3>3. file'.last.passed => AllVerified
      BY <2>1
    <3> HIDE DEF AllVerified, Verified
    <3> QED BY <2>1, <3>1, <3>2, <3>3 DEF JoinPassed
  <2>3. BehindJoin \cap Visited = {}
    <3> SUFFICES ASSUME NEW m \in BehindJoin, m \in Visited PROVE FALSE
      OBVIOUS
    <3>1. Join(contract) \notin file.completed
      <4>1. file.current = Fork(contract)
        BY <2>1, RegionIs
      <4> QED BY <1>0, <4>1 DEF EdgeInv
    <3>2. PICK d \in contract.depends[m] : d \in contract.node /\ Join(contract) \in contract.depends[d]
      BY <1>0, JoinPlaces
    <3>3. d \in file.completed
      BY <1>0, <3>2 DEF EdgeInv
    <3> QED BY <1>0, <3>1, <3>2, <3>3 DEF EdgeInv, Visited
  <2>4. Visited' = Visited /\ BehindJoin' = BehindJoin
    BY <1>p, <2>1 DEF Visited, BehindJoin
  <2> QED BY <2>2, <2>3, <2>4 DEF JoinInv
<1>8. CASE StartRegion \/ SpawnLanes
  <2>1. ~file.last.passed
    BY <1>0, <1>8, <1>j DEF StartRegion, SpawnLanes, V4Place, JoinPassed
  <2>2. file'.last = file.last /\ file'.current = file.current /\ file'.completed = file.completed
    <3>1. CASE StartRegion
      BY <1>0, <3>1 DEF StartRegion, FileRecord
    <3>2. CASE SpawnLanes
      BY <1>0, <3>2 DEF SpawnLanes, FileRecord
    <3> QED BY <1>8, <3>1, <3>2
  <2>3. Visited' = Visited
    BY <2>2 DEF Visited
  <2> QED BY <1>0, <1>p, <2>1, <2>2, <2>3, JoinFrame
<1>9. CASE WriteBound \/ Pause \/ FinishRejected
  <2>0. UNCHANGED <<status, results>>
    BY <1>9 DEF WriteBound, Pause, FinishRejected, tasks
  <2>1. CASE WriteBound
    BY <1>0, <1>1, <2>0, <2>1 DEF WriteBound, FileRecord
  <2>2. CASE Pause
    BY <1>0, <1>1, <2>0, <2>2 DEF Pause, FileRecord
  <2>3. CASE FinishRejected
    BY <1>0, <1>1, <2>0, <2>3 DEF FinishRejected, FileRecord
  <2> QED BY <1>9, <2>1, <2>2, <2>3
<1>10. CASE FinishBlocked \/ WriteCompleted \/ MarkFailure
  <2>0. UNCHANGED <<status, results>>
    BY <1>10 DEF FinishBlocked, WriteCompleted, MarkFailure, tasks
  <2>1. CASE FinishBlocked
    BY <1>0, <1>1, <2>0, <2>1 DEF FinishBlocked, FileRecord
  <2>2. CASE WriteCompleted
    BY <1>0, <1>1, <2>0, <2>2 DEF WriteCompleted, FileRecord
  <2>3. CASE MarkFailure
    BY <1>0, <1>1, <2>0, <2>3 DEF MarkFailure, FileRecord
  <2> QED BY <1>10, <2>1, <2>2, <2>3
<1>11. ASSUME UNCHANGED file, \A l \in Lane : status'[l] = status[l] /\ results'[l] = results[l]
       PROVE  JoinInv'
  <2>1. Visited' = Visited
    BY <1>11 DEF Visited
  <2> QED BY <1>0, <1>11, <1>p, <2>1, JoinFrame
<1>v. \A v \in {"policy", "evidence", "schema"} : v \in Validator
  BY DEF Validator
<1>12. CASE Begin \/ RecordAggregate
  <2>1. UNCHANGED file /\ \A l \in Lane : status'[l] = status[l] /\ results'[l] = results[l]
    BY <1>0, <1>v, <1>12, ResultOf DEF Begin, RecordAggregate
  <2> QED BY <1>11, <2>1
<1>13. ASSUME NEW passed \in BOOLEAN, RecordNode(passed) PROVE JoinInv'
  BY <1>0, <1>11, <1>13, StageResultOf DEF RecordNode
<1>14. CASE StartAgent \/ EndAgent
  <2>1. UNCHANGED file /\ \A l \in Lane : status'[l] = status[l] /\ results'[l] = results[l]
    BY <1>0, <1>14, AgentStatusOf DEF StartAgent, EndAgent
  <2> QED BY <1>11, <2>1
<1>15. CASE Wait \/ FinishDone \/ MarkBlocked \/ MarkFailed
  <2>1. UNCHANGED file /\ \A l \in Lane : status'[l] = status[l] /\ results'[l] = results[l]
    BY <1>0, <1>15, StatusOf DEF Wait, FinishDone, MarkBlocked, MarkFailed
  <2> QED BY <1>11, <2>1
<1>16. CASE EnterTry \/ Refused \/ ReserveNode \/ RunDaily \/ LanesEnd
  BY <1>11, <1>16 DEF EnterTry, Refused, ReserveNode, RunDaily, LanesEnd, tasks
<1> QED
  BY <1>2, <1>3, <1>4, <1>5, <1>6, <1>7, <1>8, <1>9, <1>10, <1>12, <1>13, <1>14, <1>15, <1>16
     DEF CallStep

LEMMA StepJoin ==
  ASSUME RecordsOK, ControlInv, EdgeInv, LaneInv, JoinInv, [Next]_vars
  PROVE  JoinInv'
<1> USE ParentIsTask
<1>0. file \in FileRecord /\ call \in CallRecord /\ TasksOK
  BY DEF RecordsOK
<1>1. ASSUME UNCHANGED <<contract, file, status, results>> PROVE JoinInv'
  <2>1. Visited' = Visited
    BY <1>1 DEF Visited
  <2> QED BY <1>1, <2>1, JoinFrame
<1>2. ASSUME file'.profile # "v4" PROVE JoinInv'
  BY <1>2 DEF JoinInv
<1>3. CASE CallStep
  BY <1>3, CallJoin
<1>4. CASE RunStep
  BY <1>2, <1>4, StepV2Control
<1>5. ASSUME NEW l \in Lane, LaneStep(l) PROVE JoinInv'
  <2>1. file.profile = "v4" /\ call.at = "lanes" /\ UNCHANGED <<contract, file>>
    BY <1>5, LaneStepWorks, LaneStepInRegion
  <2>2. IsParallel(contract) => ~file.last.passed
    BY <2>1 DEF ControlInv, V4Place, JoinInv, JoinPassed
  <2>3. Visited' = Visited
    BY <2>1 DEF Visited
  <2>4. IsParallel(contract)
    BY <2>1, RegionIs DEF InRegion
  <2> QED BY <2>1, <2>2, <2>3, <2>4, JoinFrame
<1>6. ASSUME NEW c \in Contract, Prepare(c) PROVE JoinInv'
  <2> DEFINE r == CHOOSE r \in c.node : c.depends[r] = {}
  <2>1. contract' = c /\ Shaped(c)
    BY <1>6, AdmittedShaped DEF Prepare
  <2>2. c.depends[r] = {}
    BY <2>1, RootIs
  <2>3. file'.current = r /\ file'.completed = {} /\ file'.last.passed = FALSE
    BY <1>6 DEF Prepare, Prepared, Write, NoFile, NoValidation
  <2> HIDE DEF r
  <2>4. Visited' \subseteq {r} /\ r \notin BehindJoin'
    BY <2>1, <2>2, <2>3 DEF Visited, BehindJoin
  <2> QED BY <2>3, <2>4 DEF JoinInv, JoinPassed
<1>7. ASSUME NEW c \in Contract, PrepareV2(c) PROVE JoinInv'
  <2>1. file'.profile = "v2"
    BY <1>7 DEF PrepareV2, Prepared, Write, NoFile
  <2> QED BY <1>2, <2>1
<1>8. CASE Execute
  BY <1>0, <1>2, <1>8 DEF Execute, Write, FileRecord
<1>9. CASE Start
  <2>1. /\ UNCHANGED <<contract, status, results>> /\ file'.profile = file.profile
        /\ file'.current = file.current /\ file'.completed = file.completed
        /\ file'.region = file.region /\ file'.last = file.last
    BY <1>0, <1>9 DEF Start, Write, FileRecord, tasks
  <2>2. Visited' = Visited
    BY <2>1 DEF Visited
  <2> QED BY <2>1, <2>2, JoinFrame
<1>10. ASSUME NEW fp \in shown, NEW d \in {"approved", "rejected"}, Decide(fp, d) PROVE JoinInv'
  <2>1. /\ UNCHANGED <<contract, file>>
        /\ \A l \in Lane : status'[l] = status[l] /\ results'[l] = results[l]
    BY <1>0, <1>10, StatusOf DEF Decide
  <2>2. Visited' = Visited
    BY <2>1 DEF Visited
  <2> QED BY <2>1, <2>2, JoinFrame
<1>11. ASSUME NEW t \in Task, Charge(t) \/ TimePasses(t) PROVE JoinInv'
  BY <1>1, <1>11 DEF Charge, TimePasses, Expire
<1>12. CASE Show \/ Crash \/ Escape \/ UNCHANGED vars
  BY <1>1, <1>12 DEF Show, Crash, Escape, vars, tasks
<1> QED
  BY <1>3, <1>4, <1>5, <1>6, <1>7, <1>8, <1>9, <1>10, <1>11, <1>12 DEF Next

-----------------------------------------------------------------------------
(* The inductive invariant of the workflow system.                         *)
WorkflowInv ==
    /\ RecordsOK /\ ControlInv /\ EdgeInv /\ LaneInv
    /\ DecisionInv /\ PauseInv /\ DoneInv
    /\ RanInv /\ Ran2Inv /\ JoinInv
    /\ AggregateBudget

LEMMA InitWorkflow == Init => WorkflowInv
  BY InitRecords, InitControl, InitLane, InitDone, InitRan, InitBudget DEF WorkflowInv

LEMMA StepWorkflow == WorkflowInv /\ [Next]_vars => WorkflowInv'
<1> SUFFICES ASSUME WorkflowInv, [Next]_vars PROVE WorkflowInv'
  OBVIOUS
<1>0. /\ RecordsOK /\ ControlInv /\ EdgeInv /\ LaneInv
      /\ DecisionInv /\ PauseInv /\ DoneInv
      /\ RanInv /\ Ran2Inv /\ JoinInv /\ AggregateBudget /\ TasksOK
  BY DEF WorkflowInv, RecordsOK
<1>1. RecordsOK' /\ ControlInv' /\ EdgeInv' /\ LaneInv'
  BY <1>0, StepRecords, StepControl, StepEdge, StepLaneInv
<1>2. DecisionInv' /\ PauseInv' /\ DoneInv'
  BY <1>0, StepDecision, StepPause, StepDone
<1>3. RanInv' /\ Ran2Inv' /\ JoinInv'
  BY <1>0, StepRanInv, StepRan2, StepJoin
<1>4. AggregateBudget'
  BY <1>0, StepAggregate
<1> QED BY <1>1, <1>2, <1>3, <1>4 DEF WorkflowInv

LEMMA WorkflowInvariant == Spec => []WorkflowInv
  BY InitWorkflow, StepWorkflow, PTL DEF Spec

(* The records keep their shape, and a state file belongs to an admitted   *)
(* contract and its current node is not among the completed ones, under    *)
(* every write of the controllers, the lane threads and the V2 runner.     *)
THEOREM TypeCorrect == Spec => []TypeOK
<1>1. ASSUME WorkflowInv PROVE TypeOK
  <2>0. RecordsOK /\ ControlInv /\ EdgeInv
    BY <1>1 DEF WorkflowInv
  <2>1. /\ TasksOK /\ file.profile \in Profile /\ file.status \in FileStatus
        /\ file.revision \in Nat /\ file.checkpoint \in CheckpointRecord
        /\ file.region \in Region /\ ran \in [Node -> Nat]
        /\ crashed \in BOOLEAN /\ escaped \in BOOLEAN
    BY <2>0 DEF RecordsOK, FileRecord
  <2>2. file.checkpoint.prior \in TaskStatus
    BY <2>1 DEF CheckpointRecord
  <2>3. ASSUME file.status # "absent"
        PROVE  /\ contract \in Contract
               /\ file.current \in contract.node \cup {NoNode}
               /\ file.completed \subseteq contract.node \ {file.current}
               /\ file.checkpoint.node \in contract.node \cup {NoNode}
    <3>1. CASE file.profile = "none"
      BY <2>0, <2>3, <3>1 DEF ControlInv, NoFile
    <3>2. CASE file.profile = "v2"
      BY <2>0, <3>2 DEF ControlInv, V2Control, AdmittedV2, NoCheckpoint
    <3>3. CASE file.profile = "v4"
      BY <2>0, <3>3 DEF ControlInv, V4Checkpoint, Admitted, EdgeInv, Visited
    <3> QED BY <2>1, <3>1, <3>2, <3>3 DEF Profile
  <2> QED BY <2>1, <2>2, <2>3 DEF TypeOK, Profile, FileStatus, Region
<1> QED BY <1>1, WorkflowInvariant, PTL

(* DONE means verified: _finish_output and the V2 runner write DONE, and   *)
(* completed after it, only for a task whose validators have passed and on *)
(* a path whose approvals were all granted, whatever crashes in between.   *)
THEOREM DoneMeansVerified == Spec => []DoneIsVerified
<1>1. WorkflowInv => DoneIsVerified
  BY DEF WorkflowInv, DoneInv, DoneStates, DoneCalls, ApprovalsKept, DoneIsVerified
<1> QED BY <1>1, WorkflowInvariant, PTL

(* Work follows the edges: _advance, decide_checkpoint and                 *)
(* _complete_parallel_region enter a node only behind completed parents    *)
(* and over the branch that was decided, and the report of a parallel      *)
(* contract runs only when both lanes are verified.                        *)
THEOREM WorkFollowsEdges == Spec => []FollowsEdges
<1>1. ASSUME WorkflowInv PROVE FollowsEdges
  <2> SUFFICES ASSUME file.profile = "v4", NEW n \in Entered
               PROVE  /\ contract.depends[n] \subseteq file.completed
                      /\ \A d \in decided :
                           d.node \in contract.depends[n] => contract.cond[n] = d.decision
                      /\ Role(n) = "daily_report" /\ ran[n] > 0 /\ IsParallel(contract) =>
                           \A l \in Lane : status[l] = "DONE" /\ Verified(l)
    BY DEF FollowsEdges
  <2>0. RecordsOK /\ ControlInv /\ EdgeInv /\ RanInv /\ JoinInv
    BY <1>1 DEF WorkflowInv
  <2>1. contract \in Admitted /\ contract \in Contract /\ NoNode \notin contract.node
        /\ contract.node \subseteq Node
    BY <2>0, AdmittedShaped, ContractIs DEF ControlInv
  <2>2. n \in Visited
    <3>1. n \in contract.node /\ n \in Node /\ n # NoNode
      BY <2>1 DEF Entered
    <3>2. CASE ran[n] > 0
      BY <2>0, <3>1, <3>2 DEF RanInv, RanVisited, Entered
    <3>3. CASE n \in file.completed \/ n = file.current
      BY <3>1, <3>3 DEF Visited
    <3> QED BY <3>2, <3>3 DEF Entered
  <2>3. ASSUME Role(n) = "daily_report", IsParallel(contract)
        PROVE  \A l \in Lane : status[l] = "DONE" /\ Verified(l)
    <3>1. PICK dec \in contract.node, m \in contract.node :
            /\ Children(contract, Join(contract)) = {dec}
            /\ m \in Children(contract, dec) /\ contract.cond[m] = "passed"
            /\ Having(contract, "daily_report") \subseteq Reaches(contract)[m]
      BY <2>1, <2>3, AdmittedJoinShaped DEF JoinShaped
    <3>2. Visited \subseteq contract.node /\ \A x \in Visited : contract.depends[x] \subseteq Visited
      BY <2>0 DEF EdgeInv, Visited
    <3>3. n \in Reaches(contract)[m]
      BY <2>2, <2>3, <3>1, <3>2 DEF Having, Role
    <3>4. m \in Visited
      BY <2>2, <3>2, <3>3, AncestorsIn
    <3>5. m \in BehindJoin
      BY <3>1 DEF BehindJoin, Children
    <3> QED BY <2>0, <2>3, <3>4, <3>5 DEF JoinInv, JoinPassed
  <2> QED BY <2>0, <2>2, <2>3 DEF EdgeInv
<1> QED BY <1>1, WorkflowInvariant, PTL

(* No agent node runs twice: neither the state machine, its lane threads   *)
(* nor the V2 runner repeats a node after a crash, a decision or a retry.  *)
THEOREM NodesRunOnce == Spec => []RunOnce
<1>1. ASSUME WorkflowInv PROVE RunOnce
  <2>1. RecordsOK /\ ControlInv /\ RanInv /\ Ran2Inv
    BY <1>1 DEF WorkflowInv
  <2>2. CASE file.profile = "none"
    BY <2>1, <2>2 DEF ControlInv, RunOnce
  <2>3. CASE file.profile # "none"
    BY <2>1, <2>3 DEF RecordsOK, FileRecord, Profile, RanInv, Ran2Inv, RunOnce
  <2> QED BY <2>2, <2>3
<1> QED BY <1>1, WorkflowInvariant, PTL

(* The linked budgets: what the workflow's task and its two lanes were     *)
(* granted is what the workflow's row counts, and it stays in its bound,   *)
(* however the reservations interleave.                                    *)
THEOREM BudgetIsAggregate == Spec => []AggregateBudget
<1>1. WorkflowInv => AggregateBudget
  BY DEF WorkflowInv
<1> QED BY <1>1, WorkflowInvariant, PTL

(* decide_checkpoint takes a decision with the checkpoint of the very node *)
(* in view, and once.                                                      *)
THEOREM DecisionsAreInformed == Spec => []DecisionsInformed
<1>1. WorkflowInv => DecisionsInformed
  BY DEF WorkflowInv, DecisionInv, DecisionsInformed
<1> QED BY <1>1, WorkflowInvariant, PTL

(* _pause_for_approval survives crashes: a paused file has its checkpoint  *)
(* pending at its current node, the status to restore, and no branch of    *)
(* the node entered.                                                       *)
THEOREM PausesAreDurable == Spec => []PauseIsDurable
<1>1. ASSUME WorkflowInv PROVE PauseIsDurable
  <2> SUFFICES ASSUME file.status = "paused" PROVE PauseIsDurable
    BY DEF PauseIsDurable
  <2>0. RecordsOK /\ ControlInv /\ EdgeInv /\ RanInv /\ PauseInv
    BY <1>1 DEF WorkflowInv
  <2>1. file.profile = "v4"
    BY <2>0 DEF RecordsOK, FileRecord, Profile, ControlInv, V2Control, NoFile
  <2>2. /\ file.current # NoNode /\ Role(file.current) = "approval"
        /\ file.checkpoint.pending /\ file.checkpoint.node = file.current
        /\ file.current \notin file.completed
    BY <2>0, <2>1 DEF ControlInv, V4Checkpoint, EdgeInv
  <2>3. ASSUME NEW m \in Children(contract, file.current)
        PROVE  m \notin file.completed /\ ~(m \in Node /\ ran[m] > 0)
    <3>1. /\ m \notin file.completed /\ m # file.current
          /\ IsParallel(contract) => m \notin LaneNodes
      BY <2>0, <2>1, <2>2, ChildIsNew
    <3>2. m \notin Visited
      BY <3>1 DEF Visited
    <3>3. m \in Node => ran[m] = 0
      BY <2>0, <2>1, <3>1, <3>2, NewIsFresh
    <3> QED BY <3>1, <3>3
  <2>4. Children(contract, file.current) \cap (file.completed \cup {n \in Node : ran[n] > 0}) = {}
    BY <2>3
  <2> QED BY <2>0, <2>2, <2>4 DEF PauseIsDurable, PauseInv
<1> QED BY <1>1, WorkflowInvariant, PTL
=============================================================================
