--------------------------- MODULE DispatchLedger ---------------------------
(***************************************************************************)
(* What the execution runtime promises about one plan, whichever instances *)
(* write it and however often they crash: a ledger in which a node is      *)
(* dispatched at most once, after its dependencies succeeded, never after  *)
(* a cancellation, never beyond the concurrency or the step limit, and is  *)
(* settled at most once.  It knows nothing of leases, memory or processes. *)
(***************************************************************************)
EXTENDS Naturals, FiniteSets

CONSTANTS Node, DependsOn, Outcome, MaxConcurrency, MaxSteps

VARIABLES
    entries,    \* the nodes that were dispatched
    outcomes,   \* the status each dispatched node was settled with
    closed,     \* the plan was cancelled
    charged     \* the steps charged to the task

ledgerVars == <<entries, outcomes, closed, charged>>

Outstanding == {n \in entries : outcomes[n] = "NONE"}

LedgerInit ==
    /\ entries = {}
    /\ outcomes = [n \in Node |-> "NONE"]
    /\ closed = FALSE
    /\ charged = 0

Charge ==
    /\ charged < MaxSteps
    /\ charged' = charged + 1

Dispatch(n) ==
    /\ ~closed
    /\ n \notin entries
    /\ \A k \in DependsOn[n] : outcomes[k] = "SUCCEEDED"
    /\ Cardinality(Outstanding) < MaxConcurrency
    /\ Charge
    /\ entries' = entries \cup {n}
    /\ UNCHANGED <<outcomes, closed>>

SettleOnce(n, outcome) ==
    /\ n \in Outstanding
    /\ outcomes' = [outcomes EXCEPT ![n] = outcome]
    /\ UNCHANGED <<entries, closed, charged>>

Close ==
    /\ closed' = TRUE
    /\ UNCHANGED <<entries, outcomes, charged>>

LedgerNext ==
    \/ \E n \in Node : Dispatch(n)
    \/ \E n \in Node, outcome \in Outcome : SettleOnce(n, outcome)
    \/ Close
    \/ Charge /\ UNCHANGED <<entries, outcomes, closed>>

LedgerSpec == LedgerInit /\ [][LedgerNext]_ledgerVars
=============================================================================
