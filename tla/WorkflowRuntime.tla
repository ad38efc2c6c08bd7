--------------------------- MODULE WorkflowRuntime ---------------------------
(***************************************************************************)
(* The workflow system: a contract is prepared by the V2 dispatch or by    *)
(* the V4 state machine, then executed, paused, decided and interrupted.   *)
(***************************************************************************)
EXTENDS WorkflowRunner

Init ==
    /\ contract = [node |-> {}]
    /\ file = NoFile
    /\ call = Idle
    /\ lane = [l \in Lane |-> NoThread]
    /\ shown = {}
    /\ ran = [n \in Node |-> 0]
    /\ decided = {}
    /\ crashed = FALSE
    /\ escaped = FALSE
    /\ TasksInit

Next ==
    \/ \E c \in Contract : Prepare(c) \/ PrepareV2(c)
    \/ Start \/ Execute \/ CallStep \/ RunStep
    \/ \E fp \in shown, d \in {"approved", "rejected"} : Decide(fp, d)
    \/ \E l \in Lane : LaneStep(l)
    \/ \E t \in Task : Charge(t) \/ TimePasses(t)
    \/ Show \/ Crash \/ Escape

(* A call that was made goes on: agents end, and threads are scheduled.    *)
(* Nothing is assumed of administrators, deadlines, crashes or exceptions. *)
Fairness ==
    /\ WF_vars(CallStep) /\ WF_vars(RunStep)
    /\ \A l \in Lane : WF_vars(LaneStep(l))

Spec == Init /\ [][Next]_vars
FairSpec == Spec /\ Fairness

-----------------------------------------------------------------------------
(* The records have their shape, a state file that exists belongs to a     *)
(* contract, and its current node is not a completed one.                  *)
TypeOK ==
    /\ TasksOK
    /\ file.profile \in {"none", "v2", "v4"}
    /\ file.status \in {"absent", "prepared", "executing", "running", "paused",
                        "completed", "rejected", "blocked", "failed"}
    /\ file.revision \in Nat
    /\ file.status # "absent" =>
         /\ contract \in Contract
         /\ file.current \in contract.node \cup {NoNode}
         /\ file.completed \subseteq contract.node \ {file.current}
         /\ file.checkpoint.node \in contract.node \cup {NoNode}
    /\ file.checkpoint.prior \in TaskStatus
    /\ file.region \in {"none", "starting", "running", "completed"}
    /\ ran \in [Node -> Nat]
    /\ crashed \in BOOLEAN /\ escaped \in BOOLEAN

(***************************************************************************)
(* DONE means verified: every required validator's latest result passed,   *)
(* and every approval on the path that was taken was approved by a human,  *)
(* whatever crashed in between; and the file says completed only then.     *)
(***************************************************************************)
Approved == {d.node : d \in {x \in decided : x.decision = "approved"}}

DoneIsVerified ==
    /\ status[Parent] = "DONE" \/ file.status = "completed" =>
         /\ Verified(Parent)
         /\ \A n \in file.completed : Role(n) = "approval" => n \in Approved
    /\ file.status = "completed" => status[Parent] = "DONE"

(***************************************************************************)
(* Work follows the edges of the contract: a node is entered only when all *)
(* its parents are completed, behind an approval only over the outcome     *)
(* the human chose, and the report of a parallel workflow runs only when   *)
(* both lanes were verified.                                               *)
(***************************************************************************)
Entered ==
    {n \in contract.node : ran[n] > 0 \/ n \in file.completed \/ n = file.current}
    \ (IF IsParallel(contract) THEN LaneNodes ELSE {})

FollowsEdges ==
    file.profile = "v4" =>
      \A n \in Entered :
        /\ contract.depends[n] \subseteq file.completed
        /\ \A d \in decided :
             d.node \in contract.depends[n] => contract.cond[n] = d.decision
        /\ Role(n) = "daily_report" /\ ran[n] > 0 /\ IsParallel(contract) =>
             \A l \in Lane : status[l] = "DONE" /\ Verified(l)

(***************************************************************************)
(* No agent node runs twice: no sequence of calls, decisions and crashes   *)
(* makes the controllers repeat a side effect.                             *)
(***************************************************************************)
RunOnce == \A n \in Node : ran[n] <= 1

(***************************************************************************)
(* The budget of the workflow bounds what its task and its lanes were      *)
(* granted together, however the reservations of the lanes interleave,     *)
(* and no grant is charged to one of the two rows only.                    *)
(***************************************************************************)
AggregateBudget ==
    /\ \A k, l \in Lane :
         k # l => used[Parent] = granted[Parent] + granted[k] + granted[l]
    /\ used[Parent] <= MaxUnits
    /\ \A l \in Lane : used[l] = granted[l]

(***************************************************************************)
(* A decision is informed and final: it was taken with the checkpoint of   *)
(* the very node in view, and a checkpoint is decided at most once.        *)
(***************************************************************************)
DecisionsInformed ==
    /\ \A d \in decided : d.seen = d.node
    /\ \A d1, d2 \in decided : d1.node = d2.node => d1 = d2

(***************************************************************************)
(* A pause survives crashes: a paused workflow has a pending checkpoint at *)
(* its current node, its task shows WAITING_HUMAN or the status that will  *)
(* be restored, and nothing of the node's branches has been entered.       *)
(***************************************************************************)
PauseIsDurable ==
    file.status = "paused" =>
      /\ file.checkpoint.pending
      /\ file.checkpoint.node = file.current
      /\ file.current \notin file.completed
      /\ status[Parent] \in {"WAITING_HUMAN", file.checkpoint.prior}
      /\ Children(contract, file.current) \cap (file.completed \cup {n \in Node : ran[n] > 0}) = {}

(***************************************************************************)
(* A workflow that runs comes to a pause or an end unless its process dies *)
(* or an exception leaves the call where no handler writes the file: no    *)
(* node, branch, lane or exception of the execution itself leaves the call *)
(* hanging or the file running behind it.                                  *)
(***************************************************************************)
RunsToRest ==
    file.status \in {"running", "executing"} ~>
      (file.status \notin {"running", "executing"} \/ crashed \/ escaped)

(***************************************************************************)
(* decide_checkpoint restores the status of the task "so WAITING_HUMAN     *)
(* never remains terminal": a workflow that ended after its checkpoint was *)
(* decided, without a crash, does not leave its task waiting.              *)
(***************************************************************************)
WaitingNeverTerminal ==
    /\ call = Idle /\ ~crashed /\ decided # {}
    /\ file.status \in {"completed", "rejected", "blocked", "failed"}
    => status[Parent] # "WAITING_HUMAN"
=============================================================================
