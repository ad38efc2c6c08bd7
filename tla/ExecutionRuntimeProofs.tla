----------------------- MODULE ExecutionRuntimeProofs -----------------------
(***************************************************************************)
(* Proofs about ExecutionRuntime, for every plan, every set of instances   *)
(* and every bound.                                                        *)
(***************************************************************************)
EXTENDS ExecutionRuntime, FiniteSetTheorems, TLAPS

USE RunAssumption, GenerationAssumption, NodeAssumption, BudgetAssumption,
    PlanAssumption, OutcomeAssumption, RuntimeAssumption

-----------------------------------------------------------------------------
(* What each transaction and each action does to the types.                *)

LEMMA InitTypeOK == Init => TypeOK
<1> SUFFICES ASSUME Init PROVE TypeOK
  OBVIOUS
<1>1. lease \in Lease /\ BudgetTypeOK
  BY DEF Init, LeaseInit, Lease, LeaseStatus, BudgetInit, BudgetTypeOK
<1>2. CheckpointTypeOK
  BY DEF Init, CheckpointInit, CheckpointTypeOK, DispatchRow, ObservationRow
<1>3. NoView \in [Node -> Nat] /\ NothingDone \in [Node -> Outcome \cup {"NONE"}]
  BY DEF NoView, NothingDone
<1> QED BY <1>1, <1>2, <1>3 DEF Init, TypeOK, Phase

(* Every step of every action keeps every variable in its type.            *)
LEMMA StepTypeOK == TypeOK /\ [Next]_vars => TypeOK'
<1> SUFFICES ASSUME TypeOK, [Next]_vars PROVE TypeOK'
  OBVIOUS
<1> USE DEF TypeOK, Goto
<1>1. ASSUME NEW p \in Proc, Claim(p) PROVE TypeOK'
  <2>1. lease' \in Lease
    BY <1>1 DEF Claim, ClaimLease, Lease, LeaseStatus
  <2>2. lease'.generation \in Nat
    BY <2>1 DEF Lease
  <2> QED BY <1>1, <2>1, <2>2
      DEF Claim, Phase, tableVars, budgetVars, BudgetTypeOK, CheckpointTypeOK
<1>2. ASSUME NEW p \in Proc, RequireCurrent(p) PROVE TypeOK'
  BY <1>2 DEF RequireCurrent, Phase, durable, memory, tableVars, budgetVars,
              BudgetTypeOK, CheckpointTypeOK
<1>3. ASSUME NEW p \in Proc, ReadDispatches(p) PROVE TypeOK'
  <2>1. [n \in Node |-> dispatchRow[n].sequence] \in [Node -> Nat]
    BY DEF CheckpointTypeOK, DispatchRow
  <2> QED BY <1>3, <2>1 DEF ReadDispatches, Phase, durable, tableVars,
      budgetVars, BudgetTypeOK, CheckpointTypeOK
<1>4. ASSUME NEW p \in Proc, ReadObservations(p) PROVE TypeOK'
  <2>1. [n \in Node |-> observationRow[n].status]
          \in [Node -> Outcome \cup {"NONE"}]
    BY DEF CheckpointTypeOK, ObservationRow
  <2> QED BY <1>4, <2>1 DEF ReadObservations, Phase, durable, tableVars,
      budgetVars, BudgetTypeOK, CheckpointTypeOK
<1>5. ASSUME NEW p \in Proc, Restore(p) PROVE TypeOK'
  BY <1>5 DEF Restore, Phase, RecoveryRequired, NoView, CancellationFound,
              durable, tableVars, budgetVars, BudgetTypeOK, CheckpointTypeOK
<1>6. ASSUME NEW p \in Proc, Crash(p) PROVE TypeOK'
  BY <1>6 DEF Crash, Phase, NoView, NothingDone, durable, tableVars,
              budgetVars, BudgetTypeOK, CheckpointTypeOK
<1>7. ASSUME NEW p \in Proc, NEW n \in Node, Admit(p, n) PROVE TypeOK'
  BY <1>7 DEF Admit, Phase, durable, tableVars, budgetVars, BudgetTypeOK,
              CheckpointTypeOK
<1>8. ASSUME NEW p \in Proc, Preflight(p) PROVE TypeOK'
  BY <1>8 DEF Preflight, Phase, durable, tableVars, budgetVars, BudgetTypeOK,
              CheckpointTypeOK
<1>9. ASSUME NEW p \in Proc, PreflightDenied(p) PROVE TypeOK'
  BY <1>9 DEF PreflightDenied, Phase, durable, tableVars, budgetVars,
              BudgetTypeOK, CheckpointTypeOK
<1>10. ASSUME NEW p \in Proc, CommitDispatch(p) PROVE TypeOK'
  <2> DEFINE n == target[p]
  <2>1. n \in Node
    BY <1>10 DEF CommitDispatch
  <2>2. CheckpointTypeOK'
    <3>1. CASE RecordDispatch(n, sequence[p], held[p])
      <4>1. [sequence |-> sequence[p], generation |-> held[p]] \in DispatchRow
        BY DEF DispatchRow
      <4> QED BY <2>1, <3>1, <4>1 DEF RecordDispatch, CheckpointTypeOK
    <3>2. CASE ReplayDispatch(n, sequence[p], held[p])
      BY <3>2 DEF ReplayDispatch, CheckpointTypeOK, tableVars
    <3> QED BY <1>10, <3>1, <3>2 DEF CommitDispatch
  <2>3. BudgetTypeOK'
    BY <1>10, <2>1 DEF CommitDispatch, RecordDispatch, ReplayDispatch, ReserveStep,
                 budgetVars, BudgetTypeOK
  <2> QED BY <1>10, <2>1, <2>2, <2>3 DEF CommitDispatch, Phase
<1>11. ASSUME NEW p \in Proc, DispatchFailed(p) PROVE TypeOK'
  BY <1>11 DEF DispatchFailed, Phase, durable, tableVars, budgetVars,
               BudgetTypeOK, CheckpointTypeOK
<1>12. ASSUME NEW p \in Proc, Settle(p) PROVE TypeOK'
  <2>1. PICK n \in Node, outcome \in Outcome : AcceptObservation(p, n, outcome)
    BY <1>12 DEF Settle
  <2>2. CheckpointTypeOK'
    <3>1. [status |-> outcome, generation |-> held[p]] \in ObservationRow
      BY DEF ObservationRow
    <3>2. CASE RecordObservation(n, outcome, held[p])
      BY <3>1, <3>2 DEF RecordObservation, CheckpointTypeOK
    <3>3. CASE ReplayObservation(n, outcome, held[p])
      BY <3>3 DEF ReplayObservation, CheckpointTypeOK, tableVars
    <3> QED BY <2>1, <3>2, <3>3 DEF AcceptObservation
  <2> QED BY <2>1, <2>2 DEF AcceptObservation, budgetVars, BudgetTypeOK
<1>13. ASSUME NEW p \in Proc, Cancel(p) PROVE TypeOK'
  BY <1>13 DEF Cancel, RecordCancellation, tableVars, budgetVars,
               BudgetTypeOK, CheckpointTypeOK
<1>14. ASSUME NEW p \in Proc, Release(p) PROVE TypeOK'
  <2>1. lease' \in Lease
    BY <1>14 DEF Release, ReleaseLease, Lease, LeaseStatus
  <2> QED BY <1>14, <2>1 DEF Release, memory, tableVars, budgetVars,
          BudgetTypeOK, CheckpointTypeOK
<1>15. ASSUME NEW t \in Tool, Revoke(t) PROVE TypeOK'
  BY <1>15 DEF Revoke, memory, tableVars, budgetVars, BudgetTypeOK,
               CheckpointTypeOK
<1>16. ASSUME Environment PROVE TypeOK'
  <2>1. ASSUME ChargeOther PROVE BudgetTypeOK'
    BY <2>1 DEF ChargeOther, BudgetTypeOK
  <2>2. ASSUME Expire PROVE BudgetTypeOK'
    BY <2>2 DEF Expire, BudgetTypeOK
  <2>3. BudgetTypeOK'
    BY <1>16, <2>1, <2>2 DEF Environment
  <2> QED BY <1>16, <2>3 DEF Environment, memory, tableVars, CheckpointTypeOK
<1>17. CASE UNCHANGED vars
  BY <1>17 DEF vars, durable, memory, tableVars, budgetVars, BudgetTypeOK,
               CheckpointTypeOK
<1> QED
  BY <1>1, <1>2, <1>3, <1>4, <1>5, <1>6, <1>7, <1>8, <1>9, <1>10, <1>11,
     <1>12, <1>13, <1>14, <1>15, <1>16, <1>17 DEF Next, Start, Issue

(***************************************************************************)
(* Every variable of the lease, the tables, the budget and the memory of   *)
(* each instance keeps its type, for any plan and any number of instances. *)
(***************************************************************************)
THEOREM TypeCorrect == Spec => []TypeOK
<1>1. QED BY InitTypeOK, StepTypeOK, PTL DEF Spec

-----------------------------------------------------------------------------
(* Facts about the fence.                                                  *)

(* The step leaves the memory of instance q alone.                         *)
Untouched(q) ==
    /\ pc'[q] = pc[q] /\ held'[q] = held[q] /\ view'[q] = view[q]
    /\ done'[q] = done[q] /\ inFlight'[q] = inFlight[q]
    /\ recovery'[q] = recovery[q] /\ sequence'[q] = sequence[q]
    /\ cancelled'[q] = cancelled[q] /\ target'[q] = target[q]

(* Two instances never hold the current lease at the same time.            *)
LEMMA HolderUnique ==
  ASSUME TypeOK, DistinctRuns, NEW p \in Proc, NEW q \in Proc,
         InstanceInvariant(p), InstanceInvariant(q), Holder(p), Holder(q)
  PROVE  p = q
<1>1. lease.run = RunOf[p] /\ lease.run = RunOf[q]
  BY DEF InstanceInvariant, Holder, IsCurrent
<1> QED BY <1>1 DEF DistinctRuns

(* A step that leaves the memory of q alone preserves what is known of q,  *)
(* if q is not made a holder and the tables only change under others.      *)
LEMMA InstanceFrame ==
  ASSUME TypeOK, TypeOK', NEW q \in Proc, InstanceInvariant(q),
         Untouched(q),
         lease.generation <= lease'.generation,
         lease'.generation = lease.generation => lease'.run = lease.run,
         Holder(q)' => Holder(q) /\ UNCHANGED tableVars
  PROVE  InstanceInvariant(q)'
<1>1. lease.generation \in Nat /\ lease'.generation \in Nat /\ held[q] \in Nat
  BY DEF TypeOK, Lease
<1> USE DEF Untouched
<1>2. pc'[q] # "down" =>
        /\ held'[q] <= lease'.generation
        /\ held'[q] = lease'.generation => lease'.run = RunOf[q]
  BY <1>1 DEF InstanceInvariant
<1>3. pc'[q] \notin Working => inFlight'[q] = {}
  BY DEF InstanceInvariant
<1>4. pc'[q] \in {"admitted", "recording"} =>
        MayIssue(q, target[q])' /\ Ready(q, target[q])'
  BY DEF InstanceInvariant, MayIssue, Ready
<1>5. Holder(q)' => HolderCoherent(q)'
  <2> SUFFICES ASSUME Holder(q)' PROVE HolderCoherent(q)'
    OBVIOUS
  <2>1. HolderCoherent(q) /\ UNCHANGED tableVars
    BY DEF InstanceInvariant
  <2> QED BY <2>1 DEF HolderCoherent, MemoryMatches, Unsettled, Dispatched,
                      Observed, tableVars
<1> QED BY <1>2, <1>3, <1>4, <1>5 DEF InstanceInvariant

(* The invariant of the tables only speaks of the tables, the charges and  *)
(* the generation of the lease.                                            *)
LEMMA TablesFrame ==
  ASSUME TypeOK, TypeOK', TablesInvariant, UNCHANGED tableVars,
         UNCHANGED <<reserved, stepsUsed, otherSteps, handedOut>>,
         lease.generation <= lease'.generation
  PROVE  TablesInvariant'
<1>1. lease.generation \in Nat /\ lease'.generation \in Nat
  BY DEF TypeOK, Lease
<1>2. \A n \in Node : dispatchRow[n].generation \in Nat
  BY DEF TypeOK, CheckpointTypeOK, DispatchRow
<1>3. \A n \in Node : dispatchRow'[n].generation <= lease'.generation
  BY <1>1, <1>2 DEF TablesInvariant, tableVars
<1>4. RestartPossible'
  BY DEF TablesInvariant, RestartPossible, Restorable, BindingsValid,
         Observed, Dispatched, tableVars
<1>5. Unsettled' = Unsettled /\ DispatchedNodes' = DispatchedNodes
  BY DEF Unsettled, DispatchedNodes, Observed, Dispatched, tableVars
<1>6. UnsettledOfOneGeneration' /\ BoundedUnsettled'
  BY <1>5 DEF TablesInvariant, UnsettledOfOneGeneration, BoundedUnsettled,
              tableVars
<1>7. ReservationsMatchDispatches' /\ TicketsHandedOutOnce' /\ StepAccounting'
  BY <1>5 DEF TablesInvariant, ReservationsMatchDispatches,
              TicketsHandedOutOnce, StepAccounting, Dispatched, tableVars
<1> QED BY <1>3, <1>4, <1>6, <1>7 DEF TablesInvariant

(* A step of p that leaves the lease, the tables and the memory of all     *)
(* other instances alone only has to preserve what is known of p.          *)
LEMMA LocalStep ==
  ASSUME TypeOK, TypeOK', FenceInvariant, NEW p \in Proc,
         UNCHANGED <<lease, tableVars, reserved, stepsUsed, otherSteps,
                     handedOut>>,
         \A q \in Proc \ {p} : Untouched(q),
         InstanceInvariant(p)'
  PROVE  FenceInvariant'
<1>1. lease.generation \in Nat
  BY DEF TypeOK, Lease
<1>2. TablesInvariant'
  BY <1>1, TablesFrame DEF FenceInvariant
<1>3. ASSUME NEW q \in Proc \ {p} PROVE InstanceInvariant(q)'
  <2>1. Holder(q)' => Holder(q) /\ UNCHANGED tableVars
    BY DEF Holder, IsCurrent, Untouched
  <2>2. InstanceInvariant(q)
    BY DEF FenceInvariant
  <2> QED BY <1>1, <2>1, <2>2, InstanceFrame
<1> QED BY <1>2, <1>3 DEF FenceInvariant

-----------------------------------------------------------------------------
(* One lemma per action, or group of actions that move nothing durable.    *)

LEMMA InitFence == Init => FenceInvariant
<1> SUFFICES ASSUME Init PROVE FenceInvariant
  OBVIOUS
<1>1. /\ \A n \in Node : /\ dispatchRow[n] = [sequence |-> 0, generation |-> 0]
                         /\ observationRow[n] = [status |-> "NONE", generation |-> 0]
      /\ lease.generation = 0
  BY DEF Init, CheckpointInit, LeaseInit
<1>2. Unsettled = {} /\ DispatchedNodes = {}
  BY <1>1 DEF Unsettled, DispatchedNodes, Dispatched
<1>3. Cardinality({}) = 0
  BY FS_EmptySet
<1>4. RestartPossible
  BY <1>1 DEF RestartPossible, Restorable, BindingsValid, Observed
<1>5. UnsettledOfOneGeneration /\ BoundedUnsettled
  BY <1>2, <1>3 DEF UnsettledOfOneGeneration, BoundedUnsettled
<1>6. ReservationsMatchDispatches /\ StepAccounting
  BY <1>2, <1>3 DEF ReservationsMatchDispatches, StepAccounting, Init, BudgetInit
<1>7. TicketsHandedOutOnce
  BY <1>1 DEF TicketsHandedOutOnce, Dispatched, Init
<1>8. TablesInvariant
  BY <1>1, <1>4, <1>5, <1>6, <1>7 DEF TablesInvariant
<1>9. ASSUME NEW p \in Proc PROVE InstanceInvariant(p)
  <2>1. pc[p] = "down" /\ inFlight[p] = {}
    BY DEF Init
  <2> QED BY <2>1 DEF InstanceInvariant, Holder, Working
<1> QED BY <1>8, <1>9 DEF FenceInvariant

(* A claim either returns the lease the run already holds or supersedes    *)
(* every other holder; the claimant itself has read nothing yet.           *)
LEMMA ClaimFence ==
  ASSUME TypeOK, TypeOK', FenceInvariant, NEW p \in Proc, Claim(p)
  PROVE  FenceInvariant'
<1>1. lease.generation \in Nat /\ lease'.generation \in Nat
  BY DEF TypeOK, Lease
<1>2. /\ lease.generation <= lease'.generation
      /\ lease'.generation = lease.generation => lease' = lease
      /\ lease'.run = RunOf[p]
  BY <1>1 DEF Claim, ClaimLease, Resumes
<1>3. TablesInvariant'
  BY <1>2, TablesFrame DEF FenceInvariant, Claim, budgetVars
<1>4. ASSUME NEW q \in Proc, q # p PROVE InstanceInvariant(q)'
  <2>1. InstanceInvariant(q)
    BY DEF FenceInvariant
  <2>2. Untouched(q) /\ UNCHANGED tableVars
    BY <1>4 DEF Claim, Goto, TypeOK, Untouched
  <2>3. held[q] \in Nat
    BY DEF TypeOK
  <2>4. Holder(q)' => Holder(q) /\ UNCHANGED tableVars
    BY <1>1, <1>2, <2>1, <2>2, <2>3
       DEF Holder, IsCurrent, InstanceInvariant, Untouched
  <2> QED BY <1>2, <2>1, <2>2, <2>4, InstanceFrame
<1>5. InstanceInvariant(p)'
  <2>1. /\ pc'[p] = "claimed" /\ held'[p] = lease'.generation
        /\ inFlight'[p] = inFlight[p] /\ pc[p] = "down"
    BY DEF Claim, Goto, TypeOK
  <2>2. inFlight[p] = {}
    BY <2>1 DEF FenceInvariant, InstanceInvariant, Working
  <2> QED BY <1>1, <1>2, <2>1, <2>2
          DEF InstanceInvariant, HolderCoherent, Working
<1> QED BY <1>3, <1>4, <1>5 DEF FenceInvariant

LEMMA LoadFence ==
  ASSUME TypeOK, TypeOK', FenceInvariant, NEW p \in Proc,
         RequireCurrent(p) \/ ReadDispatches(p) \/ ReadObservations(p)
  PROVE  FenceInvariant'
<1>1. InstanceInvariant(p)
  BY DEF FenceInvariant
<1>2. UNCHANGED <<lease, tableVars, reserved, stepsUsed, otherSteps, handedOut>>
  BY DEF RequireCurrent, ReadDispatches, ReadObservations, durable, budgetVars
<1>3. \A q \in Proc \ {p} : Untouched(q)
  BY DEF RequireCurrent, ReadDispatches, ReadObservations, memory, Goto, TypeOK,
         Untouched
<1>4. held'[p] = held[p] /\ inFlight'[p] = inFlight[p] /\ pc[p] # "down"
      /\ inFlight[p] = {} /\ pc'[p] \notin Working /\ pc'[p] # "down"
  BY <1>1 DEF RequireCurrent, ReadDispatches, ReadObservations, memory, Goto,
              TypeOK, InstanceInvariant, Working
<1>5. Holder(p)' => Holder(p)
  BY <1>2, <1>4 DEF Holder, IsCurrent
<1>6. Holder(p)' => HolderCoherent(p)'
  <2>1. CASE RequireCurrent(p)
    BY <2>1 DEF RequireCurrent, HolderCoherent, Goto, TypeOK, Working
  <2>2. CASE ReadDispatches(p)
    BY <1>2, <2>2 DEF ReadDispatches, HolderCoherent, Goto, TypeOK, Working,
                      tableVars
  <2>3. CASE ReadObservations(p)
    <3>1. /\ pc[p] = "dispatches" /\ pc'[p] = "observations"
          /\ view'[p] = view[p]
          /\ done'[p] = [n \in Node |-> observationRow[n].status]
      BY <2>3 DEF ReadObservations, Goto, TypeOK
    <3>2. Holder(p)' => HolderCoherent(p)
      BY <1>1, <1>5 DEF InstanceInvariant
    <3> QED BY <1>2, <3>1, <3>2 DEF HolderCoherent, Working, tableVars
  <2> QED BY <2>1, <2>2, <2>3
<1>7. InstanceInvariant(p)'
  BY <1>1, <1>2, <1>4, <1>6 DEF InstanceInvariant, Working
<1> QED BY <1>2, <1>3, <1>7, LocalStep

(* The restored memory is what the tables hold, if the lease is current.   *)
LEMMA RestoreFence ==
  ASSUME TypeOK, TypeOK', FenceInvariant, NEW p \in Proc, Restore(p)
  PROVE  FenceInvariant'
<1>1. InstanceInvariant(p)
  BY DEF FenceInvariant
<1>2. UNCHANGED <<lease, tableVars, reserved, stepsUsed, otherSteps, handedOut>>
  BY DEF Restore, durable, budgetVars
<1>3. \A q \in Proc \ {p} : Untouched(q)
  BY DEF Restore, Goto, TypeOK, Untouched
<1>4. /\ pc[p] = "observations" /\ pc'[p] = "idle"
      /\ held'[p] = held[p] /\ done'[p] = done[p]
      /\ recovery'[p] = RecoveryRequired(p)
      /\ cancelled'[p] = CancellationFound
  BY DEF Restore, Goto, TypeOK
<1>5. inFlight'[p] = {}
  BY <1>1, <1>4 DEF Restore, InstanceInvariant, Working
<1>6. IsLargest(sequence'[p], view[p])
  BY DEF Restore, TypeOK
<1>7. ASSUME Holder(p)' PROVE HolderCoherent(p)'
  <2>1. HolderCoherent(p)
    BY <1>1, <1>2, <1>4, <1>7 DEF InstanceInvariant, Holder, IsCurrent
  <2>2. \A n \in Node : /\ view[p][n] = dispatchRow[n].sequence
                        /\ done[p][n] = observationRow[n].status
    BY <1>4, <2>1 DEF HolderCoherent
  <2>3. RecoveryRequired(p) = Unsettled
    BY <2>2 DEF RecoveryRequired, Unsettled, Dispatched, Observed
  <2>4. Unsettled' = Unsettled
    BY <1>2 DEF Unsettled, Dispatched, Observed, tableVars
  <2>5. \A n \in Node : dispatchRow'[n].sequence <= sequence'[p]
    BY <1>2, <1>6, <2>2 DEF IsLargest, tableVars
  <2>6. MemoryMatches(p)'
    BY <1>2, <1>4, <1>5, <2>2, <2>3, <2>4, <2>5
       DEF MemoryMatches, CancellationFound, tableVars
  <2> QED BY <1>4, <1>5, <2>6 DEF HolderCoherent
<1>8. InstanceInvariant(p)'
  BY <1>1, <1>2, <1>4, <1>5, <1>7 DEF InstanceInvariant
<1> QED BY <1>2, <1>3, <1>8, LocalStep

LEMMA CrashFence ==
  ASSUME TypeOK, TypeOK', FenceInvariant, NEW p \in Proc, Crash(p)
  PROVE  FenceInvariant'
<1>1. UNCHANGED <<lease, tableVars, reserved, stepsUsed, otherSteps, handedOut>>
  BY DEF Crash, durable, budgetVars
<1>2. \A q \in Proc \ {p} : Untouched(q)
  BY DEF Crash, Goto, TypeOK, Untouched
<1>3. pc'[p] = "down" /\ inFlight'[p] = {}
  BY DEF Crash, Goto, TypeOK
<1>4. InstanceInvariant(p)'
  BY <1>3 DEF InstanceInvariant, Holder
<1> QED BY <1>1, <1>2, <1>4, LocalStep

(* The steps of issue_dispatch that record nothing.                        *)
LEMMA IssueFence ==
  ASSUME TypeOK, TypeOK', FenceInvariant, NEW p \in Proc,
         \/ \E n \in Node : Admit(p, n)
         \/ Preflight(p) \/ PreflightDenied(p) \/ DispatchFailed(p)
  PROVE  FenceInvariant'
<1>1. InstanceInvariant(p)
  BY DEF FenceInvariant
<1>2. UNCHANGED <<lease, tableVars, reserved, stepsUsed, otherSteps, handedOut>>
  BY DEF Admit, Preflight, PreflightDenied, DispatchFailed, durable, budgetVars
<1>3. \A q \in Proc \ {p} : Untouched(q)
  BY DEF Admit, Preflight, PreflightDenied, DispatchFailed, Goto, TypeOK,
         Untouched
<1>4. /\ held'[p] = held[p] /\ done'[p] = done[p] /\ view'[p] = view[p]
      /\ inFlight'[p] = inFlight[p] /\ recovery'[p] = recovery[p]
      /\ cancelled'[p] = cancelled[p]
      /\ pc[p] \in Working /\ pc'[p] \in Working
  BY DEF Admit, Preflight, PreflightDenied, DispatchFailed, Goto, TypeOK,
         Working
<1>5. pc'[p] = "recording" => sequence'[p] = sequence[p] + 1
  BY DEF Admit, Preflight, PreflightDenied, DispatchFailed, Goto, TypeOK
<1>6. sequence'[p] \in {sequence[p], sequence[p] + 1} /\ sequence[p] \in Nat
  BY DEF Admit, Preflight, PreflightDenied, DispatchFailed, TypeOK
<1>7. pc'[p] \in {"admitted", "recording"} =>
        MayIssue(p, target[p])' /\ Ready(p, target[p])'
  <2>1. CASE \E n \in Node : Admit(p, n)
    BY <1>4, <2>1 DEF Admit, MayIssue, Ready, TypeOK
  <2>2. CASE Preflight(p)
    BY <1>1, <1>4, <2>2 DEF Preflight, MayIssue, Ready, InstanceInvariant
  <2>3. CASE PreflightDenied(p) \/ DispatchFailed(p)
    BY <2>3 DEF PreflightDenied, DispatchFailed, Goto, TypeOK
  <2> QED BY <2>1, <2>2, <2>3
<1>8. ASSUME Holder(p)' PROVE HolderCoherent(p)'
  <2>1. HolderCoherent(p)
    BY <1>1, <1>2, <1>4, <1>8
       DEF InstanceInvariant, Holder, IsCurrent, Working
  <2>2. \A n \in Node : /\ dispatchRow[n].sequence \in Nat
                        /\ dispatchRow[n].sequence <= sequence[p]
    BY <1>4, <2>1 DEF HolderCoherent, MemoryMatches, TypeOK, CheckpointTypeOK,
                      DispatchRow
  <2>3. \A n \in Node :
          /\ dispatchRow'[n].sequence <= sequence'[p]
          /\ pc'[p] = "recording" => dispatchRow'[n].sequence < sequence'[p]
    BY <1>2, <1>5, <1>6, <2>2 DEF tableVars
  <2>4. Unsettled' = Unsettled
    BY <1>2 DEF Unsettled, Dispatched, Observed, tableVars
  <2>5. MemoryMatches(p)'
    BY <1>2, <1>4, <2>1, <2>3, <2>4
       DEF HolderCoherent, MemoryMatches, tableVars
  <2> QED BY <1>2, <1>4, <2>1, <2>3, <2>5
          DEF HolderCoherent, Working, tableVars
<1>9. InstanceInvariant(p)'
  BY <1>1, <1>2, <1>4, <1>7, <1>8 DEF InstanceInvariant, Working
<1> QED BY <1>2, <1>3, <1>9, LocalStep

(* What holds for an instance whose record transaction found its lease     *)
(* current: every other instance is fenced out, before and after.          *)
LEMMA WriterFrame ==
  ASSUME TypeOK, TypeOK', DistinctRuns, FenceInvariant, NEW p \in Proc,
         Holder(p), UNCHANGED lease,
         NEW q \in Proc \ {p}, Untouched(q)
  PROVE  InstanceInvariant(q)'
<1>1. InstanceInvariant(p) /\ InstanceInvariant(q)
  BY DEF FenceInvariant
<1>2. ~Holder(q)
  BY <1>1, HolderUnique
<1>3. ~Holder(q)'
  BY <1>2 DEF Holder, IsCurrent, Untouched
<1>4. lease.generation \in Nat
  BY DEF TypeOK, Lease
<1> QED BY <1>1, <1>3, <1>4, InstanceFrame

(* cancel and release_writer.                                              *)
LEMMA CancelFence ==
  ASSUME TypeOK, TypeOK', DistinctRuns, FenceInvariant, NEW p \in Proc,
         Cancel(p)
  PROVE  FenceInvariant'
<1>1. InstanceInvariant(p) /\ TablesInvariant
  BY DEF FenceInvariant
<1>2. /\ UNCHANGED <<lease, dispatchRow, observationRow, reserved, stepsUsed,
                     otherSteps, handedOut>>
      /\ cancelledBy' # cancelledBy => Holder(p)
  BY DEF Cancel, RecordCancellation, Holder, tableVars, budgetVars
<1>3. \A q \in Proc \ {p} : Untouched(q)
  BY DEF Cancel, TypeOK, Untouched
<1>4. /\ pc[p] = "idle" /\ pc'[p] = "idle" /\ held'[p] = held[p]
      /\ done'[p] = done[p] /\ inFlight'[p] = inFlight[p]
      /\ recovery'[p] = recovery[p] /\ sequence'[p] = sequence[p]
      /\ cancelled'[p] = TRUE
  BY DEF Cancel, TypeOK
<1>5. Unsettled' = Unsettled /\ DispatchedNodes' = DispatchedNodes
  BY <1>2 DEF Unsettled, DispatchedNodes, Dispatched, Observed
<1>6. TablesInvariant'
  BY <1>1, <1>2, <1>5
     DEF TablesInvariant, RestartPossible, Restorable, BindingsValid, Observed,
         Dispatched, UnsettledOfOneGeneration, BoundedUnsettled,
         ReservationsMatchDispatches, TicketsHandedOutOnce, StepAccounting
<1>7. Holder(p)' => HolderCoherent(p)'
  BY <1>1, <1>2, <1>4, <1>5 DEF InstanceInvariant, HolderCoherent,
     MemoryMatches, Holder, IsCurrent
<1>8. InstanceInvariant(p)'
  BY <1>1, <1>2, <1>4, <1>7 DEF InstanceInvariant
<1>9. ASSUME NEW q \in Proc \ {p} PROVE InstanceInvariant(q)'
  <2>1. CASE cancelledBy' # cancelledBy
    BY <1>2, <1>3, <2>1, WriterFrame
  <2>2. CASE cancelledBy' = cancelledBy
    <3>1. Holder(q)' => Holder(q) /\ UNCHANGED tableVars
      BY <1>2, <1>3, <2>2 DEF Holder, IsCurrent, Untouched, tableVars
    <3>2. lease.generation \in Nat /\ InstanceInvariant(q)
      BY DEF TypeOK, Lease, FenceInvariant
    <3> QED BY <1>2, <1>3, <3>1, <3>2, InstanceFrame
  <2> QED BY <2>1, <2>2
<1> QED BY <1>6, <1>8, <1>9 DEF FenceInvariant

LEMMA ReleaseFence ==
  ASSUME TypeOK, TypeOK', FenceInvariant, NEW p \in Proc, Release(p)
  PROVE  FenceInvariant'
<1>1. /\ lease'.generation = lease.generation /\ lease'.run = lease.run
      /\ lease'.status = "RELEASED" /\ lease.generation \in Nat
  BY DEF Release, ReleaseLease, TypeOK, Lease
<1>2. TablesInvariant'
  BY <1>1, TablesFrame DEF FenceInvariant, Release, budgetVars
<1>3. ASSUME NEW q \in Proc PROVE InstanceInvariant(q)'
  <2>1. ~Holder(q)'
    BY <1>1 DEF Holder, IsCurrent
  <2>2. Untouched(q)
    BY DEF Release, memory, Untouched
  <2> QED BY <1>1, <2>1, <2>2, InstanceFrame DEF FenceInvariant
<1> QED BY <1>2, <1>3 DEF FenceInvariant

LEMMA UnsettledFinite ==
  /\ IsFiniteSet(Unsettled)
  /\ \A S \in SUBSET Node : IsFiniteSet(S) /\ Cardinality(S) \in Nat
<1>1. \A S \in SUBSET Node : IsFiniteSet(S) /\ Cardinality(S) \in Nat
  BY FS_Subset, FS_CardinalityType
<1>2. Unsettled \in SUBSET Node
  BY DEF Unsettled
<1> QED BY <1>1, <1>2

(* A dispatch is recorded only while the memory that admitted it is the    *)
(* tables, so the node is new, its sequence is the largest, its            *)
(* dependencies succeeded, the plan is not cancelled and every other       *)
(* unfinished dispatch is of the same generation.  The replay branch of    *)
(* record_dispatch is never taken by issue_dispatch.                       *)
LEMMA CommitGuard ==
  ASSUME TypeOK, FenceInvariant, NEW p \in Proc, CommitDispatch(p)
  PROVE  /\ pc[p] = "recording" /\ target[p] \in Node
         /\ Holder(p) /\ HolderCoherent(p) /\ MemoryMatches(p)
         /\ RecordDispatch(target[p], sequence[p], held[p])
         /\ sequence[p] \in Nat /\ sequence[p] > 0 /\ held[p] \in Nat
         /\ \A m \in Node : /\ dispatchRow[m].sequence \in Nat
                            /\ dispatchRow[m].sequence < sequence[p]
         /\ observationRow[target[p]].status = "NONE"
         /\ \A k \in DependsOn[target[p]] : observationRow[k].status = "SUCCEEDED"
         /\ recovery[p] = {} /\ inFlight[p] = Unsettled
         /\ Cardinality(Unsettled) < MaxConcurrency
         /\ cancelledBy = 0
<1> DEFINE n == target[p]
<1>1. InstanceInvariant(p)
  BY DEF FenceInvariant
<1>2. pc[p] = "recording" /\ n \in Node
  BY DEF CommitDispatch, TypeOK
<1>3. Holder(p)
  BY <1>2 DEF CommitDispatch, RecordDispatch, ReplayDispatch, Holder
<1>4. HolderCoherent(p) /\ MayIssue(p, n) /\ Ready(p, n)
  BY <1>1, <1>2, <1>3 DEF InstanceInvariant
<1>5. \A m \in Node : /\ dispatchRow[m].sequence \in Nat
                      /\ dispatchRow[m].sequence < sequence[p]
  BY <1>2, <1>4 DEF HolderCoherent, TypeOK, CheckpointTypeOK, DispatchRow
<1>6. sequence[p] \in Nat /\ sequence[p] > 0 /\ held[p] \in Nat
  <2>1. dispatchRow[n].sequence \in Nat /\ dispatchRow[n].sequence < sequence[p]
    BY <1>2, <1>5
  <2>2. sequence[p] \in Nat /\ held[p] \in Nat
    BY DEF TypeOK
  <2> QED BY <2>1, <2>2
<1>7. RecordDispatch(n, sequence[p], held[p])
  BY <1>2, <1>5, <1>6 DEF CommitDispatch, ReplayDispatch
<1>8. MemoryMatches(p)
  BY <1>2, <1>4 DEF HolderCoherent, Working
<1>9. DependsOn[n] \subseteq Node
  BY <1>2
<1>10. /\ observationRow[n].status = "NONE"
       /\ \A k \in DependsOn[n] : observationRow[k].status = "SUCCEEDED"
       /\ recovery[p] = {} /\ inFlight[p] = Unsettled
       /\ Cardinality(Unsettled) < MaxConcurrency
       /\ cancelledBy = 0
  BY <1>2, <1>4, <1>8, <1>9 DEF MemoryMatches, MayIssue, Ready
<1> QED BY <1>2, <1>3, <1>4, <1>5, <1>6, <1>7, <1>8, <1>10

LEMMA CommitFence ==
  ASSUME TypeOK, TypeOK', DistinctRuns, FenceInvariant, NEW p \in Proc,
         CommitDispatch(p)
  PROVE  FenceInvariant'
<1> DEFINE n == target[p]
<1>1. InstanceInvariant(p) /\ TablesInvariant
  BY DEF FenceInvariant
<1>2. pc[p] = "recording" /\ n \in Node
  BY CommitGuard
<1>3. Holder(p)
  BY CommitGuard
<1>4. HolderCoherent(p)
  BY CommitGuard
<1>5. \A m \in Node : /\ dispatchRow[m].sequence \in Nat
                      /\ dispatchRow[m].sequence < sequence[p]
  BY CommitGuard
<1>6. sequence[p] \in Nat /\ sequence[p] > 0 /\ held[p] \in Nat
  BY CommitGuard
<1>7. RecordDispatch(n, sequence[p], held[p])
  BY CommitGuard
<1>8. /\ UNCHANGED <<lease, observationRow, cancelledBy, otherSteps>>
      /\ stepsUsed' = stepsUsed + 1 /\ reserved' = reserved \cup {n}
      /\ n \notin reserved /\ stepsUsed + 1 <= MaxSteps
      /\ ~Dispatched(n)
  BY <1>7 DEF CommitDispatch, RecordDispatch, ReserveStep, StepAvailable
<1>9. /\ dispatchRow'[n].sequence = sequence[p]
      /\ dispatchRow'[n].generation = held[p]
      /\ \A m \in Node \ {n} : dispatchRow'[m] = dispatchRow[m]
  BY <1>2, <1>7 DEF RecordDispatch, TypeOK, CheckpointTypeOK
<1>10. MemoryMatches(p)
  BY CommitGuard
<1>11. /\ observationRow[n].status = "NONE"
       /\ \A k \in DependsOn[n] : observationRow[k].status = "SUCCEEDED"
       /\ recovery[p] = {} /\ inFlight[p] = Unsettled
       /\ Cardinality(Unsettled) < MaxConcurrency
  BY CommitGuard
<1>12. \A m \in Node : Dispatched(m)' <=> (Dispatched(m) \/ m = n)
  BY <1>6, <1>9 DEF Dispatched
<1>13. /\ Unsettled' = Unsettled \cup {n} /\ n \notin Unsettled
       /\ DispatchedNodes' = DispatchedNodes \cup {n}
  BY <1>2, <1>8, <1>11, <1>12 DEF Unsettled, Observed, DispatchedNodes
<1>14. RestartPossible'
  <2> DEFINE v == [m \in Node |-> dispatchRow[m].sequence]
             d == [m \in Node |-> observationRow[m].status]
  <2>1. Restorable(v, d) /\ BindingsValid
    BY <1>1 DEF TablesInvariant, RestartPossible
  <2>2. /\ \A m \in Node : observationRow[m].status # "NONE" =>
             dispatchRow[m].sequence > 0
        /\ \A k, m \in Node :
             dispatchRow[k].sequence = dispatchRow[m].sequence
               /\ dispatchRow[m].sequence > 0 => k = m
        /\ \A m \in Node : dispatchRow[m].sequence > 0 =>
             \A k \in DependsOn[m] : observationRow[k].status = "SUCCEEDED"
    BY <2>1 DEF Restorable
  <2>3. /\ \A m \in Node : observationRow'[m].status # "NONE" =>
             dispatchRow'[m].sequence > 0
        /\ \A k, m \in Node :
             dispatchRow'[k].sequence = dispatchRow'[m].sequence
               /\ dispatchRow'[m].sequence > 0 => k = m
    BY <1>5, <1>6, <1>8, <1>9, <2>2
  <2>4. \A m \in Node : dispatchRow'[m].sequence > 0 =>
          \A k \in DependsOn[m] : observationRow'[k].status = "SUCCEEDED"
    BY <1>8, <1>9, <1>11, <2>2
  <2>5. BindingsValid'
    BY <1>8, <1>9, <1>11, <1>12, <2>1 DEF BindingsValid, Observed
  <2> HIDE DEF n
  <2>6. Restorable([m \in Node |-> dispatchRow'[m].sequence],
                   [m \in Node |-> observationRow'[m].status])
    BY <2>3, <2>4 DEF Restorable
  <2> QED BY <2>5, <2>6 DEF RestartPossible
<1>15. UnsettledOfOneGeneration'
  <2>1. \A m \in Unsettled : dispatchRow[m].generation = held[p]
    BY <1>2, <1>4, <1>11 DEF HolderCoherent, Working
  <2>2. \A m \in Unsettled : m \in Node
    BY DEF Unsettled
  <2> QED BY <1>9, <1>13, <2>1, <2>2 DEF UnsettledOfOneGeneration
<1>16. BoundedUnsettled'
  <2>1. Cardinality(Unsettled \cup {n}) = Cardinality(Unsettled) + 1
    BY <1>13, UnsettledFinite, FS_AddElement
  <2>2. Cardinality(Unsettled) \in Nat
    BY UnsettledFinite, FS_CardinalityType
  <2> QED BY <1>11, <1>13, <2>1, <2>2 DEF BoundedUnsettled
<1>17. ReservationsMatchDispatches'
  BY <1>1, <1>8, <1>13 DEF TablesInvariant, ReservationsMatchDispatches
<1>18. TicketsHandedOutOnce'
  <2>1. handedOut' = [handedOut EXCEPT ![n] = @ + 1]
    BY DEF CommitDispatch
  <2> QED BY <1>1, <1>2, <1>8, <1>12, <2>1
          DEF TablesInvariant, TicketsHandedOutOnce, TypeOK
<1>19. StepAccounting'
  <2>1. reserved \in SUBSET Node
    BY DEF TypeOK, BudgetTypeOK
  <2>2. Cardinality(reserved \cup {n}) = Cardinality(reserved) + 1
    BY <1>8, <2>1, UnsettledFinite, FS_AddElement
  <2>3. Cardinality(reserved) \in Nat /\ otherSteps \in Nat
    BY <2>1, UnsettledFinite DEF TypeOK, BudgetTypeOK
  <2> QED BY <1>1, <1>8, <2>2, <2>3 DEF TablesInvariant, StepAccounting
<1>20. held[p] = lease.generation
  BY <1>3 DEF Holder, IsCurrent
<1>21. TablesInvariant'
  <2>1. \A m \in Node : dispatchRow'[m].generation <= lease'.generation
    BY <1>1, <1>6, <1>8, <1>9, <1>20 DEF TablesInvariant
  <2> QED BY <2>1, <1>14, <1>15, <1>16, <1>17, <1>18, <1>19 DEF TablesInvariant
<1>22. /\ pc'[p] = "idle" /\ held'[p] = held[p] /\ done'[p] = done[p]
       /\ inFlight'[p] = inFlight[p] \cup {n} /\ recovery'[p] = recovery[p]
       /\ sequence'[p] = sequence[p] /\ cancelled'[p] = cancelled[p]
  BY DEF CommitDispatch, Goto, TypeOK
<1>23. HolderCoherent(p)'
  <2>1. MemoryMatches(p)'
    <3>1. \A m \in Node : dispatchRow'[m].sequence <= sequence'[p]
      BY <1>5, <1>6, <1>9, <1>22
    <3> QED BY <1>8, <1>10, <1>11, <1>13, <1>22, <3>1 DEF MemoryMatches
  <2>2. \A m \in inFlight'[p] : dispatchRow'[m].generation = held'[p]
    <3>1. \A m \in inFlight[p] : m \in Node /\ dispatchRow[m].generation = held[p]
      BY <1>2, <1>4 DEF HolderCoherent, Working, TypeOK
    <3> QED BY <1>9, <1>22, <3>1
  <2> QED BY <1>22, <2>1, <2>2 DEF HolderCoherent
<1>24. InstanceInvariant(p)'
  BY <1>1, <1>2, <1>8, <1>22, <1>23 DEF InstanceInvariant, Working
<1>25. ASSUME NEW q \in Proc \ {p} PROVE InstanceInvariant(q)'
  <2>1. Untouched(q)
    BY DEF CommitDispatch, Goto, TypeOK, Untouched
  <2> QED BY <1>3, <1>8, <2>1, WriterFrame
<1> QED BY <1>21, <1>24, <1>25 DEF FenceInvariant

(* An accepted observation settles a dispatch of the writer's own          *)
(* generation that nothing depended on yet.                                *)
LEMMA SettleFence ==
  ASSUME TypeOK, TypeOK', DistinctRuns, FenceInvariant, NEW p \in Proc,
         NEW n \in Node, NEW outcome \in Outcome,
         AcceptObservation(p, n, outcome)
  PROVE  FenceInvariant' /\ RecordObservation(n, outcome, held[p])
<1>1. InstanceInvariant(p) /\ TablesInvariant /\ pc[p] = "idle"
  BY DEF FenceInvariant, AcceptObservation
<1>2. Holder(p)
  BY <1>1 DEF AcceptObservation, RecordObservation, ReplayObservation, Holder
<1>3. HolderCoherent(p) /\ MemoryMatches(p)
  BY <1>1, <1>2 DEF InstanceInvariant, HolderCoherent, Working
<1>4. n \in Unsettled
  BY <1>3 DEF AcceptObservation, MemoryMatches
<1>5. RecordObservation(n, outcome, held[p])
  <2>1. observationRow[n].status = "NONE"
    BY <1>4 DEF Unsettled, Observed
  <2>2. ~ReplayObservation(n, outcome, held[p])
    BY <2>1 DEF ReplayObservation
  <2> QED BY <2>2 DEF AcceptObservation
<1>6. /\ UNCHANGED <<lease, dispatchRow, cancelledBy, reserved, stepsUsed,
                     otherSteps, handedOut>>
      /\ observationRow'[n] = [status |-> outcome, generation |-> held[p]]
      /\ \A m \in Node \ {n} : observationRow'[m] = observationRow[m]
      /\ dispatchRow[n].generation = held[p]
      /\ outcome # "NONE"
  BY <1>5 DEF AcceptObservation, RecordObservation, TypeOK, CheckpointTypeOK,
              budgetVars
<1>7. /\ Unsettled' = Unsettled \ {n}
      /\ DispatchedNodes' = DispatchedNodes
      /\ observationRow[n].status = "NONE" /\ Dispatched(n)
  BY <1>4, <1>6 DEF Unsettled, DispatchedNodes, Dispatched, Observed
<1>8. RestartPossible'
  <2>1. /\ Restorable([m \in Node |-> dispatchRow[m].sequence],
                      [m \in Node |-> observationRow[m].status])
        /\ BindingsValid
    BY <1>1 DEF TablesInvariant, RestartPossible
  <2>2. /\ \A m \in Node : observationRow[m].status # "NONE" =>
             dispatchRow[m].sequence > 0
        /\ \A k, m \in Node :
             dispatchRow[k].sequence = dispatchRow[m].sequence
               /\ dispatchRow[m].sequence > 0 => k = m
        /\ \A m \in Node : dispatchRow[m].sequence > 0 =>
             \A k \in DependsOn[m] : observationRow[k].status = "SUCCEEDED"
    BY <2>1 DEF Restorable
  <2>3. \A m \in Node : DependsOn[m] \subseteq Node
    OBVIOUS
  <2>4. \A m \in Node : dispatchRow'[m].sequence > 0 =>
          \A k \in DependsOn[m] : observationRow'[k].status = "SUCCEEDED"
    BY <1>6, <1>7, <2>2, <2>3
  <2>5. Restorable([m \in Node |-> dispatchRow'[m].sequence],
                   [m \in Node |-> observationRow'[m].status])
    BY <1>6, <1>7, <2>2, <2>4 DEF Restorable, Dispatched
  <2>6. BindingsValid'
    BY <1>6, <1>7, <2>1 DEF BindingsValid, Observed, Dispatched
  <2> QED BY <2>5, <2>6 DEF RestartPossible
<1>9. UnsettledOfOneGeneration'
  BY <1>1, <1>6, <1>7 DEF TablesInvariant, UnsettledOfOneGeneration
<1>10. BoundedUnsettled'
  <2>1. Cardinality(Unsettled \ {n}) <= Cardinality(Unsettled)
    <3>1. Unsettled \ {n} \subseteq Unsettled
      OBVIOUS
    <3> QED BY <3>1, UnsettledFinite, FS_Subset
  <2>2. Cardinality(Unsettled) \in Nat /\ Cardinality(Unsettled \ {n}) \in Nat
    BY UnsettledFinite, FS_Subset, FS_CardinalityType
  <2> QED BY <1>1, <1>7, <2>1, <2>2 DEF TablesInvariant, BoundedUnsettled
<1>11. /\ ReservationsMatchDispatches' /\ TicketsHandedOutOnce'
       /\ StepAccounting'
       /\ \A m \in Node : dispatchRow'[m].generation <= lease'.generation
  BY <1>1, <1>6, <1>7 DEF TablesInvariant, ReservationsMatchDispatches,
     TicketsHandedOutOnce, StepAccounting, Dispatched
<1>12. TablesInvariant'
  BY <1>8, <1>9, <1>10, <1>11 DEF TablesInvariant
<1>13. /\ pc'[p] = "idle" /\ held'[p] = held[p] /\ view'[p] = view[p]
       /\ done'[p] = [done[p] EXCEPT ![n] = outcome]
       /\ inFlight'[p] = inFlight[p] \ {n}
       /\ recovery'[p] = recovery[p] \ {n}
       /\ sequence'[p] = sequence[p] /\ cancelled'[p] = cancelled[p]
  BY <1>1 DEF AcceptObservation, TypeOK
<1>14. HolderCoherent(p)'
  <2>1. \A m \in Node : done'[p][m] = observationRow'[m].status
    <3>1. DOMAIN done[p] = Node
      BY DEF TypeOK
    <3>2. done'[p][n] = outcome /\ \A m \in Node \ {n} : done'[p][m] = done[p][m]
      BY <1>13, <3>1
    <3>3. observationRow'[n].status = outcome
      BY <1>6
    <3> QED BY <1>3, <1>6, <3>2, <3>3 DEF MemoryMatches
  <2>2. MemoryMatches(p)'
    BY <1>3, <1>6, <1>7, <1>13, <2>1 DEF MemoryMatches
  <2> QED BY <1>1, <1>3, <1>6, <1>13, <2>2 DEF HolderCoherent, Working
<1>15. InstanceInvariant(p)'
  BY <1>1, <1>6, <1>13, <1>14 DEF InstanceInvariant, Working
<1>16. ASSUME NEW q \in Proc \ {p} PROVE InstanceInvariant(q)'
  <2>1. Untouched(q)
    BY DEF AcceptObservation, TypeOK, Untouched
  <2> QED BY <1>2, <1>6, <2>1, WriterFrame
<1> QED BY <1>5, <1>12, <1>15, <1>16 DEF FenceInvariant

(* The operator, the clock and the other users of the budget.              *)
LEMMA OutsideFence ==
  ASSUME TypeOK, TypeOK', FenceInvariant,
         (\E t \in Tool : Revoke(t)) \/ Environment \/ UNCHANGED vars
  PROVE  FenceInvariant'
<1>1. UNCHANGED <<lease, tableVars, handedOut, reserved, pc, memory>>
  BY DEF Revoke, Environment, ChargeOther, Expire, vars, durable, budgetVars
<1>2. StepAccounting'
  <2>1. stepsUsed \in Nat /\ otherSteps \in Nat /\ reserved \in SUBSET Node
    BY DEF TypeOK, BudgetTypeOK
  <2>2. Cardinality(reserved) \in Nat
    BY <2>1, UnsettledFinite
  <2>3. StepAccounting
    BY DEF FenceInvariant, TablesInvariant
  <2>4. CASE ChargeOther
    BY <1>1, <2>1, <2>2, <2>3, <2>4 DEF StepAccounting, ChargeOther, StepAvailable
  <2>5. CASE UNCHANGED <<stepsUsed, otherSteps>>
    BY <1>1, <2>3, <2>5 DEF StepAccounting
  <2> QED BY <2>4, <2>5 DEF Revoke, Environment, Expire, vars, durable,
                            budgetVars
<1>3. Unsettled' = Unsettled /\ DispatchedNodes' = DispatchedNodes
  BY <1>1 DEF Unsettled, DispatchedNodes, Observed, Dispatched, tableVars
<1>4. TablesInvariant'
  BY <1>1, <1>2, <1>3 DEF FenceInvariant, TablesInvariant, RestartPossible,
     Restorable, BindingsValid, Observed, Dispatched, UnsettledOfOneGeneration,
     BoundedUnsettled, ReservationsMatchDispatches, TicketsHandedOutOnce,
     tableVars
<1>5. ASSUME NEW q \in Proc PROVE InstanceInvariant(q)'
  <2>1. Untouched(q)
    BY <1>1 DEF memory, Untouched
  <2>2. Holder(q)' => Holder(q) /\ UNCHANGED tableVars
    BY <1>1, <2>1 DEF Holder, IsCurrent, Untouched
  <2>3. lease.generation \in Nat
    BY DEF TypeOK, Lease
  <2> QED BY <1>1, <2>1, <2>2, <2>3, InstanceFrame DEF FenceInvariant
<1> QED BY <1>4, <1>5 DEF FenceInvariant

LEMMA StepFence ==
  ASSUME DistinctRuns, TypeOK, FenceInvariant, [Next]_vars
  PROVE  FenceInvariant'
<1>1. TypeOK'
  BY StepTypeOK
<1>2. ASSUME NEW p \in Proc, Start(p) PROVE FenceInvariant'
  BY <1>1, <1>2, ClaimFence, LoadFence, RestoreFence DEF Start
<1>3. ASSUME NEW p \in Proc, Issue(p) PROVE FenceInvariant'
  BY <1>1, <1>3, IssueFence, CommitFence DEF Issue
<1>4. ASSUME NEW p \in Proc, Settle(p) PROVE FenceInvariant'
  BY <1>1, <1>4, SettleFence DEF Settle
<1>5. ASSUME NEW p \in Proc, Cancel(p) \/ Release(p) \/ Crash(p)
      PROVE  FenceInvariant'
  BY <1>1, <1>5, CancelFence, ReleaseFence, CrashFence
<1>6. CASE (\E t \in Tool : Revoke(t)) \/ Environment \/ UNCHANGED vars
  BY <1>1, <1>6, OutsideFence
<1> QED BY <1>2, <1>3, <1>4, <1>5, <1>6 DEF Next

(***************************************************************************)
(* The writer fence is enough: for instances with distinct run             *)
(* identifiers, any plan, any bounds and any number of crashes and         *)
(* takeovers, the invariant holds in every reachable state.                *)
(***************************************************************************)
THEOREM FenceHolds == ASSUME DistinctRuns PROVE Spec => []FenceInvariant
<1>1. Init => FenceInvariant
  BY InitFence
<1>2. TypeOK /\ FenceInvariant /\ [Next]_vars => FenceInvariant'
  BY StepFence
<1> QED BY <1>1, <1>2, TypeCorrect, PTL DEF Spec

(***************************************************************************)
(* The scheduler of the current writer always decides on the tables as     *)
(* they are, although it read them only once.                              *)
(***************************************************************************)
THEOREM MemoryStaysCoherent == ASSUME DistinctRuns PROVE Spec => []MemoryCoherent
<1>1. FenceInvariant => MemoryCoherent
  BY DEF FenceInvariant, InstanceInvariant, HolderCoherent, MemoryCoherent
<1> QED BY <1>1, FenceHolds, PTL

(* No crash or takeover ever leaves tables that load would refuse.         *)
THEOREM RestartAlwaysPossible == ASSUME DistinctRuns PROVE Spec => []RestartPossible
<1>1. FenceInvariant => RestartPossible
  BY DEF FenceInvariant, TablesInvariant
<1> QED BY <1>1, FenceHolds, PTL

(* No ticket of a node is ever handed out twice.                           *)
THEOREM NoAutomaticReplay == ASSUME DistinctRuns PROVE Spec => []TicketsHandedOutOnce
<1>1. FenceInvariant => TicketsHandedOutOnce
  BY DEF FenceInvariant, TablesInvariant
<1> QED BY <1>1, FenceHolds, PTL

(* The concurrency bound holds for the plan across restarts and takeovers. *)
THEOREM ConcurrencyBounded == ASSUME DistinctRuns PROVE Spec => []BoundedUnsettled
<1>1. FenceInvariant => BoundedUnsettled
  BY DEF FenceInvariant, TablesInvariant
<1> QED BY <1>1, FenceHolds, PTL

(* Steps are charged once per dispatch and never beyond the contract.      *)
THEOREM BudgetExact ==
  ASSUME DistinctRuns PROVE Spec => [](StepAccounting /\ ReservationsMatchDispatches)
<1>1. FenceInvariant => StepAccounting /\ ReservationsMatchDispatches
  BY DEF FenceInvariant, TablesInvariant
<1> QED BY <1>1, FenceHolds, PTL

(* Unfinished dispatches of two generations never coexist.                 *)
THEOREM OneGenerationUnsettled ==
  ASSUME DistinctRuns PROVE Spec => []UnsettledOfOneGeneration
<1>1. FenceInvariant => UnsettledOfOneGeneration
  BY DEF FenceInvariant, TablesInvariant
<1> QED BY <1>1, FenceHolds, PTL

-----------------------------------------------------------------------------
(* What a step may never do.                                               *)

(* Only a recorded dispatch changes the dispatch rows, and only a recorded *)
(* observation of the same generation the observation rows.                *)
LEMMA RowsChangeByWriter ==
  ASSUME DistinctRuns, TypeOK, FenceInvariant, [Next]_vars,
         ~ \E p \in Proc : CommitDispatch(p),
         ~ \E p \in Proc, n \in Node, outcome \in Outcome :
              AcceptObservation(p, n, outcome)
  PROVE  UNCHANGED <<dispatchRow, observationRow>>
  BY DEF Next, Start, Issue, Settle, Claim, RequireCurrent, ReadDispatches,
         ReadObservations, Restore, Crash, Admit, Preflight, PreflightDenied,
         DispatchFailed, Cancel, RecordCancellation, Release, Revoke,
         Environment, vars, durable, tableVars

(***************************************************************************)
(* A durable cancellation is final: no writer of any generation records a  *)
(* dispatch after it, not even one that was under way.                     *)
(***************************************************************************)
THEOREM CancellationIsFinal ==
  ASSUME DistinctRuns PROVE Spec => NoDispatchAfterCancellation
<1>1. ASSUME TypeOK, FenceInvariant, [Next]_vars, cancelledBy # 0
      PROVE  dispatchRow' = dispatchRow
  <2>1. ~ \E p \in Proc : CommitDispatch(p)
    BY <1>1, CommitGuard
  <2>2. CASE \E p \in Proc, n \in Node, outcome \in Outcome :
               AcceptObservation(p, n, outcome)
    BY <2>2 DEF AcceptObservation, RecordObservation, ReplayObservation,
                tableVars
  <2> QED BY <1>1, <2>1, <2>2, RowsChangeByWriter
<1>2. TypeOK /\ FenceInvariant /\ [Next]_vars =>
        [cancelledBy # 0 => dispatchRow' = dispatchRow]_vars
  BY <1>1
<1> QED BY <1>2, TypeCorrect, FenceHolds, PTL
        DEF Spec, NoDispatchAfterCancellation

(* The lease never returns to a generation that was superseded.            *)
LEMMA StaleStaysStale ==
  ASSUME TypeOK, [Next]_vars, NEW g \in Nat, g <= lease.generation, ~IsCurrent(g)
  PROVE  ~IsCurrent(g)'
<1>1. lease.generation \in Nat
  BY DEF TypeOK, Lease
<1>2. ASSUME NEW p \in Proc, Claim(p) PROVE ~IsCurrent(g)'
  BY <1>1, <1>2 DEF Claim, ClaimLease, IsCurrent
<1>3. ASSUME NEW p \in Proc, Release(p) PROVE ~IsCurrent(g)'
  BY <1>3 DEF Release, ReleaseLease, IsCurrent, TypeOK, Lease
<1>4. ASSUME UNCHANGED lease PROVE ~IsCurrent(g)'
  BY <1>4 DEF IsCurrent
<1> QED BY <1>2, <1>3, <1>4 DEF Next, Start, Issue, Settle, RequireCurrent,
  ReadDispatches, ReadObservations, Restore, Crash, Admit, Preflight,
  PreflightDenied, CommitDispatch, DispatchFailed, AcceptObservation, Cancel,
  Revoke, Environment, vars, durable

(***************************************************************************)
(* Work a superseded or released generation left unfinished is never       *)
(* settled and nothing is dispatched around it.                            *)
(***************************************************************************)
THEOREM AbandonedIsFinal ==
  ASSUME DistinctRuns PROVE Spec => AbandonedFreezesPlan
<1>1. ASSUME TypeOK, FenceInvariant, [Next]_vars, NEW n \in Node, Abandoned(n)
      PROVE  /\ Abandoned(n)'
             /\ dispatchRow' = dispatchRow
             /\ observationRow' = observationRow
  <2>1. ~ \E p \in Proc : CommitDispatch(p)
    <3> SUFFICES ASSUME NEW p \in Proc, CommitDispatch(p) PROVE FALSE
      OBVIOUS
    <3>1. n \in inFlight[p] /\ HolderCoherent(p) /\ Holder(p) /\ pc[p] \in Working
      BY <1>1, CommitGuard DEF Abandoned, Working
    <3>2. dispatchRow[n].generation = held[p]
      BY <3>1 DEF HolderCoherent
    <3> QED BY <1>1, <3>1, <3>2 DEF Abandoned, Holder
  <2>2. ~ \E p \in Proc, m \in Node, outcome \in Outcome :
            AcceptObservation(p, m, outcome)
    <3> SUFFICES ASSUME NEW p \in Proc, NEW m \in Node, NEW outcome \in Outcome,
                        AcceptObservation(p, m, outcome)
                 PROVE  FALSE
      OBVIOUS
    <3>1. TypeOK'
      BY <1>1, StepTypeOK
    <3>2. RecordObservation(m, outcome, held[p])
      BY <1>1, <3>1, SettleFence
    <3>3. m \in Unsettled
      BY <3>2 DEF RecordObservation, Unsettled
    <3>4. dispatchRow[m].generation = dispatchRow[n].generation
      BY <1>1, <3>3 DEF Abandoned, FenceInvariant, TablesInvariant,
                        UnsettledOfOneGeneration
    <3> QED BY <1>1, <3>2, <3>4 DEF RecordObservation, Abandoned
  <2>3. UNCHANGED <<dispatchRow, observationRow>>
    BY <1>1, <2>1, <2>2, RowsChangeByWriter
  <2>4. dispatchRow[n].generation \in Nat
    BY <1>1 DEF TypeOK, CheckpointTypeOK, DispatchRow
  <2>5. dispatchRow[n].generation <= lease.generation
    BY <1>1 DEF FenceInvariant, TablesInvariant
  <2> DEFINE g == dispatchRow[n].generation
  <2>6. ~IsCurrent(g)
    BY <1>1 DEF Abandoned
  <2>7. ~(lease'.status = "ACTIVE" /\ lease'.generation = g)
    <3> HIDE DEF g
    <3>1. g \in Nat /\ g <= lease.generation
      BY <2>4, <2>5 DEF g
    <3> QED BY <1>1, <2>6, <3>1, StaleStaysStale DEF IsCurrent
  <2> QED BY <1>1, <2>3, <2>7 DEF Abandoned, Unsettled, Dispatched, Observed,
                                  IsCurrent
<1>2. TypeOK /\ FenceInvariant /\ [Next]_vars =>
        [\A n \in Node : Abandoned(n) =>
            /\ Abandoned(n)'
            /\ dispatchRow' = dispatchRow
            /\ observationRow' = observationRow]_vars
  BY <1>1
<1> QED BY <1>2, TypeCorrect, FenceHolds, PTL DEF Spec, AbandonedFreezesPlan

-----------------------------------------------------------------------------
(* The runtime implements the dispatch ledger.                             *)

(* A lease that is ACTIVE has been issued.                                 *)
LeaseIssued == lease.status = "ACTIVE" => lease.generation > 0

LEMMA IssuedHolds == Spec => []LeaseIssued
<1>1. Init => LeaseIssued
  BY DEF Init, LeaseInit, LeaseIssued
<1>2. ASSUME TypeOK, LeaseIssued, [Next]_vars PROVE LeaseIssued'
  <2>1. lease.generation \in Nat
    BY <1>2 DEF TypeOK, Lease
  <2>2. ASSUME NEW p \in Proc, Claim(p) PROVE LeaseIssued'
    BY <1>2, <2>1, <2>2 DEF Claim, ClaimLease, LeaseIssued
  <2>3. ASSUME NEW p \in Proc, Release(p) PROVE LeaseIssued'
    BY <1>2, <2>3 DEF Release, ReleaseLease, LeaseIssued, TypeOK, Lease
  <2>4. ASSUME UNCHANGED lease PROVE LeaseIssued'
    BY <1>2, <2>4 DEF LeaseIssued
  <2> QED BY <1>2, <2>2, <2>3, <2>4 DEF Next, Start, Issue, Settle,
    RequireCurrent, ReadDispatches, ReadObservations, Restore, Crash, Admit,
    Preflight, PreflightDenied, CommitDispatch, DispatchFailed,
    AcceptObservation, Cancel, Revoke, Environment, vars, durable
<1> QED BY <1>1, <1>2, TypeCorrect, PTL DEF Spec

LEMMA LedgerCardinality == \A S : Ledger!Cardinality(S) = Cardinality(S)
  BY DEF Ledger!Cardinality, Cardinality

(* The outstanding entries of the ledger are the unsettled dispatches.     *)
LEMMA OutstandingIsUnsettled == Ledger!Outstanding = Unsettled
  BY DEF Ledger!Outstanding, Unsettled, DispatchedNodes, Observed

LEMMA LedgerInitially == Init => Ledger!LedgerInit
<1> SUFFICES ASSUME Init PROVE Ledger!LedgerInit
  OBVIOUS
<1>1. DispatchedNodes = {}
  BY DEF Init, CheckpointInit, DispatchedNodes, Dispatched
<1>2. [n \in Node |-> observationRow[n].status] = [n \in Node |-> "NONE"]
  BY DEF Init, CheckpointInit
<1> QED BY <1>1, <1>2 DEF Ledger!LedgerInit, Init, CheckpointInit, BudgetInit

LEMMA LedgerDispatches ==
  ASSUME TypeOK, FenceInvariant, NEW p \in Proc, CommitDispatch(p)
  PROVE  Ledger!LedgerNext
<1> DEFINE n == target[p]
<1>1. n \in Node /\ RecordDispatch(n, sequence[p], held[p])
  BY CommitGuard
<1>2. /\ UNCHANGED <<observationRow, cancelledBy>>
      /\ stepsUsed' = stepsUsed + 1 /\ stepsUsed + 1 <= MaxSteps
      /\ stepsUsed \in Nat /\ ~Dispatched(n)
  BY <1>1 DEF RecordDispatch, ReserveStep, StepAvailable, TypeOK, BudgetTypeOK
<1>3. DispatchedNodes' = DispatchedNodes \cup {n}
  <2>1. /\ dispatchRow'[n].sequence = sequence[p]
        /\ \A m \in Node \ {n} : dispatchRow'[m] = dispatchRow[m]
    BY <1>1 DEF RecordDispatch, TypeOK, CheckpointTypeOK
  <2>2. sequence[p] > 0
    BY CommitGuard
  <2> QED BY <1>1, <2>1, <2>2 DEF DispatchedNodes, Dispatched
<1>4. n \notin DispatchedNodes
  BY <1>2 DEF DispatchedNodes
<1>5. /\ \A k \in DependsOn[n] : [m \in Node |-> observationRow[m].status][k]
                                   = "SUCCEEDED"
      /\ Ledger!Cardinality(Ledger!Outstanding) < MaxConcurrency
      /\ ~(cancelledBy # 0)
  <2>1. DependsOn[n] \subseteq Node
    BY <1>1
  <2> QED BY <2>1, CommitGuard, OutstandingIsUnsettled, LedgerCardinality
<1>6. Ledger!Charge
  BY <1>2 DEF Ledger!Charge
<1> HIDE DEF n
<1>7. Ledger!Dispatch(n)
  BY <1>2, <1>3, <1>4, <1>5, <1>6 DEF Ledger!Dispatch
<1> QED BY <1>1, <1>7 DEF Ledger!LedgerNext

LEMMA LedgerSettles ==
  ASSUME TypeOK, TypeOK', DistinctRuns, FenceInvariant, NEW p \in Proc,
         NEW n \in Node, NEW outcome \in Outcome,
         AcceptObservation(p, n, outcome)
  PROVE  Ledger!LedgerNext
<1>1. RecordObservation(n, outcome, held[p])
  BY SettleFence
<1>2. /\ UNCHANGED <<dispatchRow, cancelledBy, stepsUsed>>
      /\ observationRow'[n].status = outcome
      /\ \A m \in Node \ {n} : observationRow'[m] = observationRow[m]
  BY <1>1 DEF RecordObservation, AcceptObservation, TypeOK, CheckpointTypeOK,
              budgetVars
<1>3. [m \in Node |-> observationRow[m].status]'
        = [[m \in Node |-> observationRow[m].status] EXCEPT ![n] = outcome]
  BY <1>2
<1>4. n \in Ledger!Outstanding
  BY <1>1, OutstandingIsUnsettled DEF RecordObservation, Unsettled
<1>5. DispatchedNodes' = DispatchedNodes
  BY <1>2 DEF DispatchedNodes, Dispatched
<1>6. Ledger!SettleOnce(n, outcome)
  BY <1>2, <1>3, <1>4, <1>5 DEF Ledger!SettleOnce
<1> QED BY <1>6 DEF Ledger!LedgerNext

LEMMA LedgerStep ==
  ASSUME DistinctRuns, TypeOK, FenceInvariant, LeaseIssued, [Next]_vars
  PROVE  [Ledger!LedgerNext]_(Ledger!ledgerVars)
<1>1. ASSUME NEW p \in Proc, CommitDispatch(p) PROVE Ledger!LedgerNext
  BY <1>1, LedgerDispatches
<1>2. ASSUME NEW p \in Proc, NEW n \in Node, NEW outcome \in Outcome,
             AcceptObservation(p, n, outcome)
      PROVE  Ledger!LedgerNext
  BY <1>2, StepTypeOK, LedgerSettles
<1>3. ASSUME ~ \E p \in Proc : CommitDispatch(p),
             ~ \E p \in Proc, n \in Node, outcome \in Outcome :
                 AcceptObservation(p, n, outcome)
      PROVE  [Ledger!LedgerNext]_(Ledger!ledgerVars)
  <2>1. UNCHANGED <<dispatchRow, observationRow>>
    BY <1>3, RowsChangeByWriter
  <2>2. /\ DispatchedNodes' = DispatchedNodes
        /\ [n \in Node |-> observationRow[n].status]'
             = [n \in Node |-> observationRow[n].status]
    BY <2>1 DEF DispatchedNodes, Dispatched
  <2>3. CASE \E p \in Proc : Cancel(p)
    <3>1. PICK p \in Proc : Cancel(p)
      BY <2>3
    <3>2. stepsUsed' = stepsUsed
      BY <3>1 DEF Cancel, budgetVars
    <3>3. CASE cancelledBy' = cancelledBy
      BY <2>2, <3>2, <3>3 DEF Ledger!ledgerVars
    <3>4. CASE cancelledBy' # cancelledBy
      <4>1. cancelledBy' = lease.generation /\ lease.status = "ACTIVE"
        BY <3>1, <3>4 DEF Cancel, RecordCancellation, IsCurrent, tableVars
      <4>2. (cancelledBy # 0)' = TRUE
        BY <4>1 DEF LeaseIssued, TypeOK, Lease
      <4>3. Ledger!Close
        BY <2>2, <3>2, <4>2 DEF Ledger!Close
      <4> QED BY <4>3 DEF Ledger!LedgerNext
    <3> QED BY <3>3, <3>4
  <2>4. CASE Environment
    <3>1. cancelledBy' = cancelledBy
      BY <2>4 DEF Environment, tableVars
    <3>2. CASE ChargeOther
      <4>1. Ledger!Charge
        BY <3>2 DEF ChargeOther, StepAvailable, Ledger!Charge, TypeOK,
                    BudgetTypeOK
      <4> QED BY <2>2, <3>1, <4>1 DEF Ledger!LedgerNext
    <3>3. CASE Expire
      BY <2>2, <3>1, <3>3 DEF Expire, Ledger!ledgerVars
    <3> QED BY <2>4, <3>2, <3>3 DEF Environment
  <2>5. ASSUME ~ \E p \in Proc : Cancel(p), ~Environment
        PROVE  UNCHANGED <<cancelledBy, stepsUsed>>
    BY <1>3, <2>5 DEF Next, Start, Issue, Settle, Claim, RequireCurrent,
       ReadDispatches, ReadObservations, Restore, Crash, Admit, Preflight,
       PreflightDenied, DispatchFailed, Release, Revoke, vars, durable,
       tableVars, budgetVars
  <2> QED BY <2>2, <2>3, <2>4, <2>5 DEF Ledger!ledgerVars
<1> QED BY <1>1, <1>2, <1>3

(***************************************************************************)
(* Instances, leases, crashes and memory together are a dispatch ledger:   *)
(* dispatched once, after the dependencies, within the limits, never after *)
(* a cancellation, settled once.                                           *)
(***************************************************************************)
THEOREM RuntimeImplementsLedger ==
  ASSUME DistinctRuns PROVE Spec => ImplementsLedger
<1>1. TypeOK /\ FenceInvariant /\ LeaseIssued /\ [Next]_vars =>
        [Ledger!LedgerNext]_(Ledger!ledgerVars)
  BY LedgerStep
<1> QED BY <1>1, LedgerInitially, TypeCorrect, FenceHolds, IssuedHolds, PTL
        DEF Spec, ImplementsLedger, Ledger!LedgerSpec
=============================================================================
