---------------------------- MODULE WorkflowGraph ----------------------------
(***************************************************************************)
(* Workflow contracts and their admission (workflow_design.py,             *)
(* workflow_dispatch.py, workflow_state_machine.py).                       *)
(*                                                                         *)
(* A contract is a record: node is the set of node ids, role[n] the kind   *)
(* and action of n in one value (the admitted pairs are one to one),       *)
(* depends[n] its parents, cond[n] the normalised condition on the edge    *)
(* into it, NoCond for none, and eligible says that the trigger is manual, *)
(* the risk low and the data class that of the running zone.               *)
(***************************************************************************)
EXTENDS FiniteSets, Naturals

NoCond == "always"
NoNode == "none"
RunnableRole == {"input", "research", "validation", "decision", "approval",
                 "presentation", "daily_report", "output"}
ParallelRole == {"parallel_fork", "parallel_join"}

Children(c, n) == {m \in c.node : n \in c.depends[m]}
Having(c, role) == {n \in c.node : c.role[n] = role}
RootsOf(c) == {n \in c.node : c.depends[n] = {}}

(* Reaches(c)[m]: m and the nodes downstream of it.  No set closed under   *)
(* parents has one of them without m.                                      *)
Reaches(c) ==
    LET closed == {S \in SUBSET c.node : \A n \in S : c.depends[n] \subseteq S} IN
    [m \in c.node |-> {n \in c.node : \A S \in closed : n \in S => m \in S}]

(* validate_contract: parents are known nodes and the graph has no cycle.  *)
ValidGraph(c) ==
    LET reach == Reaches(c) IN
    /\ \A n \in c.node : c.depends[n] \subseteq c.node \ {n}
    /\ \A m, n \in c.node : m # n => ~(n \in reach[m] /\ m \in reach[n])

(* _BRANCH_CONDITIONS.                                                     *)
Outcomes(role) ==
    CASE role = "decision" -> {"passed", "failed"}
      [] role = "approval" -> {"approved", "rejected"}
      [] OTHER -> {}

(* The edges out of a node: conditions only behind a decision or an        *)
(* approval, each outcome once, and a failed or rejected branch ends at    *)
(* an output at once.                                                      *)
BranchesAdmitted(c, n) ==
    LET branch == Children(c, n) IN
    IF Outcomes(c.role[n]) # {}
    THEN /\ \A m \in branch :
              /\ c.cond[m] \in Outcomes(c.role[n])
              /\ c.cond[m] \in {"failed", "rejected"} => c.role[m] = "output"
         /\ \A m1, m2 \in branch : c.cond[m1] = c.cond[m2] => m1 = m2
    ELSE \/ c.role[n] = "parallel_fork"
         \/ \A m \in branch : c.cond[m] = NoCond

LeavesAreOutputs(c) ==
    \A n \in c.node : Children(c, n) = {} => c.role[n] = "output"

SingleInput(c) ==
    \E r \in c.node : RootsOf(c) = {r} /\ Having(c, "input") = {r}

(* WorkflowStateMachineController._admit: a tree with one of each agent,   *)
(* in their order along every path.                                        *)
AdmitV3(c) ==
    LET reach == Reaches(c)
        Above(n, role) == \E m \in Having(c, role) : m # n /\ n \in reach[m] IN
    /\ c.eligible /\ ValidGraph(c) /\ SingleInput(c)
    /\ \A role \in {"research", "presentation", "daily_report"} :
         Cardinality(Having(c, role)) = 1
    /\ \A n \in c.node :
         /\ c.role[n] \in RunnableRole
         /\ Cardinality(c.depends[n]) <= 1
         /\ Cardinality(Children(c, n)) <= 2
         /\ Cardinality(Children(c, n)) > 1 => c.role[n] \in {"decision", "approval"}
         /\ BranchesAdmitted(c, n)
         /\ c.role[n] = "presentation" => Above(n, "research")
         /\ c.role[n] = "daily_report" => Above(n, "presentation")
         /\ c.role[n] = "decision" => Above(n, "research") \/ Above(n, "presentation")
    /\ LeavesAreOutputs(c)
    /\ \A r \in RootsOf(c) : reach[r] = c.node

(* _parallel_plan: one fork into two lanes, research then presentation     *)
(* each, one join of exactly these, then a decision with both outcomes.    *)
IsParallel(c) == \E n \in c.node : c.role[n] \in ParallelRole

ParallelPlanned(c) ==
    \E fork, join, decision \in c.node :
      /\ Having(c, "parallel_fork") = {fork}
      /\ Having(c, "parallel_join") = {join}
      /\ Cardinality(Children(c, fork)) = 2
      /\ \A r \in Children(c, fork) :
           /\ c.role[r] = "research" /\ c.cond[r] = NoCond
           /\ \E p \in c.node :
                /\ Children(c, r) = {p} /\ Children(c, p) = {join}
                /\ c.role[p] = "presentation" /\ c.cond[p] = NoCond
      /\ c.depends[join] = UNION {Children(c, r) : r \in Children(c, fork)}
      /\ c.cond[join] = NoCond
      /\ Children(c, join) = {decision}
      /\ c.role[decision] = "decision"
      /\ {c.cond[m] : m \in Children(c, decision)} = {"passed", "failed"}
      /\ \A m \in Children(c, decision) :
           c.cond[m] = "failed" => c.role[m] = "output"

Fork(c) == CHOOSE n \in c.node : c.role[n] = "parallel_fork"
Join(c) == CHOOSE n \in c.node : c.role[n] = "parallel_join"

(* Mutant: the report may stand anywhere in a parallel graph.              *)
AnywhereReport(c) == TRUE

(* The report is only reachable over the passed edge behind the join.      *)
ReportBehindJoin(c) ==
    LET reach == Reaches(c) IN
    \A d \in Children(c, Join(c)), m \in c.node :
      m \in Children(c, d) /\ c.cond[m] = "passed"
        => /\ Having(c, "daily_report") \subseteq reach[m]
           /\ Join(c) \notin reach[m]

(* WorkflowStateMachineV4Controller._admit.                                *)
AdmitV4(c) ==
    LET reach == Reaches(c) IN
    IF ~IsParallel(c) THEN AdmitV3(c)
    ELSE /\ c.eligible /\ ValidGraph(c) /\ ParallelPlanned(c) /\ SingleInput(c)
         /\ Cardinality(Having(c, "research")) = 2
         /\ Cardinality(Having(c, "presentation")) = 2
         /\ Cardinality(Having(c, "daily_report")) = 1
         /\ \A n \in c.node :
              /\ c.role[n] \in RunnableRole \cup ParallelRole
              /\ Cardinality(c.depends[n]) > 1 => c.role[n] = "parallel_join"
              /\ Cardinality(Children(c, n)) <= 2
              /\ Cardinality(Children(c, n)) > 1
                   => c.role[n] \in {"decision", "approval"} \cup ParallelRole
              /\ c.role[n] = "parallel_join" => Cardinality(Children(c, n)) = 1
              /\ BranchesAdmitted(c, n)
         /\ LeavesAreOutputs(c)
         /\ \A r \in RootsOf(c) : reach[r] = c.node
         /\ ReportBehindJoin(c)

(* WorkflowDispatchController._admit: the fixed chain, with or without a   *)
(* validation behind the research.                                         *)
AdmitV2(c) ==
    LET Follows(r1, r2) ==
          \E m \in Having(c, r1), n \in Having(c, r2) : Children(c, m) = {n} IN
    /\ c.eligible /\ ValidGraph(c)
    /\ \A n \in c.node :
         /\ c.cond[n] = NoCond
         /\ Cardinality(c.depends[n]) <= 1 /\ Cardinality(Children(c, n)) <= 1
    /\ \A role \in {"input", "research", "presentation", "daily_report", "output"} :
         Cardinality(Having(c, role)) = 1
    /\ Follows("input", "research")
    /\ Follows("presentation", "daily_report") /\ Follows("daily_report", "output")
    /\ \/ Cardinality(c.node) = 5 /\ Follows("research", "presentation")
       \/ /\ Cardinality(c.node) = 6
          /\ Follows("research", "validation")
          /\ Follows("validation", "presentation")
=============================================================================
