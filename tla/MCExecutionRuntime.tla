------------------------- MODULE MCExecutionRuntime -------------------------
(***************************************************************************)
(* Instances of ExecutionRuntime for TLC.  The plan has a node that waits  *)
(* for another and one independent node that needs an approval.            *)
(***************************************************************************)
EXTENDS ExecutionRuntime

CONSTANTS a, b, c, p1, p2, r1, r2, t

MCNode == {a, b, c}
MCOneNode == {a}
MCDependsOn == [n \in Node |-> IF n = c THEN {a} ELSE {}]
MCAllowedTools == [n \in Node |-> IF n = a THEN {t} ELSE {}]
MCNoTools == [n \in Node |-> {}]

(* Two instances started by two different runs. *)
MCDistinctRuns == [p \in Proc |-> IF p = p1 THEN r1 ELSE r2]

=============================================================================
