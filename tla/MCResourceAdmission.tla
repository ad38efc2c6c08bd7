------------------------- MODULE MCResourceAdmission -------------------------
(***************************************************************************)
(* Instances of ResourceAdmission for TLC: two models of which only one    *)
(* fits at a time and a small one that fits next to either.                *)
(***************************************************************************)
EXTENDS ResourceAdmission, TLC

CONSTANTS r1, r2, gpu0, dual, large, other, small

MCSize == [m \in Model |-> IF m = small THEN 2 ELSE 4]

(* All callers use one manager configuration. *)
MCOneScope == [r \in Request |-> gpu0]

(* A caller of the single-GPU worker and one of the dual-GPU worker. *)
MCTwoWorkers == [r \in Request |-> IF r = r1 THEN gpu0 ELSE dual]

(* Callers of one scope are interchangeable. *)
MCSymmetry == Permutations(Request)
=============================================================================
