-------------------------- MODULE MCWorkflowRuntime --------------------------
(***************************************************************************)
(* Instances of WorkflowRuntime: every chain of the five required nodes    *)
(* with up to two control nodes between them, with and without a failed or *)
(* rejected branch, and parallel graphs with approvals and reports in      *)
(* admitted and in other places.                                           *)
(***************************************************************************)
EXTENDS WorkflowRuntime, Sequences, TLC

CONSTANTS l1, l2
MCLane == {l1, l2}

MCNode == {"in", "res", "pre", "rep", "out", "c1", "c2", "x1", "x2",
           "fork", "r1", "r2", "p1", "p2", "join", "dec"}

BaseRole == [n \in MCNode |->
    CASE n = "in" -> "input" [] n \in {"res", "r1", "r2"} -> "research"
      [] n \in {"pre", "p1", "p2"} -> "presentation" [] n = "rep" -> "daily_report"
      [] n = "fork" -> "parallel_fork" [] n = "join" -> "parallel_join"
      [] n = "dec" -> "decision" [] OTHER -> "output"]

Good(role) == CASE role = "decision" -> "passed" [] role = "approval" -> "approved"
                [] OTHER -> NoCond
Bad(role) == IF role = "decision" THEN "failed" ELSE "rejected"

\* The contract whose nodes have the given roles and parents: the edge into
\* x1, x2 is the bad outcome of its parent, any other edge the good one.
Build(role, depends) ==
    [node |-> DOMAIN depends, role |-> [n \in DOMAIN depends |-> role[n]],
     depends |-> depends, eligible |-> TRUE,
     cond |-> [n \in DOMAIN depends |->
                 IF depends[n] = {} THEN NoCond
                 ELSE LET p == CHOOSE p \in depends[n] : TRUE IN
                      IF n \in {"x1", "x2"} THEN Bad(role[p]) ELSE Good(role[p])]]

Chained(seq) == [n \in {seq[i] : i \in DOMAIN seq} |->
    LET i == CHOOSE i \in DOMAIN seq : seq[i] = n IN
    IF i = 1 THEN {} ELSE {seq[i - 1]}]

Base == <<"in", "res", "pre", "rep", "out">>
Insert(seq, i, n) == SubSeq(seq, 1, i) \o <<n>> \o SubSeq(seq, i + 1, Len(seq))
Exits(depends, ns) == depends @@ [x \in {IF n = "c1" THEN "x1" ELSE "x2" : n \in ns} |->
                                    {IF x = "x1" THEN "c1" ELSE "c2"}]

ControlRole == {"validation", "decision", "approval"}

OneControl ==
    {Build([BaseRole EXCEPT !["c1"] = r],
           Exits(Chained(Insert(Base, i, "c1")), IF e THEN {"c1"} ELSE {})) :
       r \in ControlRole, i \in 1..4, e \in BOOLEAN}
TwoControls ==
    {Build([BaseRole EXCEPT !["c1"] = r1, !["c2"] = r2],
           Exits(Chained(Insert(Insert(Base, j, "c2"), i, "c1")), e)) :
       r1, r2 \in {"decision", "approval"}, i \in 2..3, j \in 3..4,
       e \in {{"c1"}, {"c1", "c2"}}}

Lanes(entry) ==
    [n \in {"fork", "r1", "r2", "p1", "p2", "join", "dec", "x1"} |->
       CASE n = "fork" -> {entry} [] n \in {"r1", "r2"} -> {"fork"}
         [] n = "p1" -> {"r1"} [] n = "p2" -> {"r2"} [] n = "join" -> {"p1", "p2"}
         [] n = "dec" -> {"join"} [] OTHER -> {"dec"}]
Parallel ==
    {Build([BaseRole EXCEPT !["c1"] = "approval", !["c2"] = "approval"],
           Chained(before) @@ Lanes(before[Len(before)])
             @@ [n \in {after[i] : i \in DOMAIN after} |->
                   LET i == CHOOSE i \in DOMAIN after : after[i] = n IN
                   IF i = 1 THEN {"dec"} ELSE {after[i - 1]}]) :
       <<before, after>> \in {<< <<"in">>, <<"rep", "out">> >>,
                             << <<"in">>, <<"rep", "c2", "out">> >>,
                             << <<"in", "c1">>, <<"c2", "rep", "out">> >>}}
  \cup
    {Build(BaseRole, Chained(<<"in", "rep">>) @@ Lanes("rep") @@ ("out" :> {"dec"}))}

MCContract == {Build(BaseRole, Chained(Base))} \cup OneControl \cup TwoControls \cup Parallel
=============================================================================
