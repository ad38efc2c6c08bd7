---------------------- MODULE PersistentSchedulerProofs ----------------------
(***************************************************************************)
(* Proofs about PersistentScheduler, for any number of schedules, callers  *)
(* and instants.                                                           *)
(***************************************************************************)
EXTENDS PersistentScheduler, WellFoundedInduction, TLAPS

USE ScheduleAssumption, CallAssumption

-----------------------------------------------------------------------------
(* What _next_cron and _next_interval return.                              *)

LEMMA LeastNatural ==
  ASSUME NEW T \in SUBSET Nat, T # {}
  PROVE  \E x \in T : \A y \in T : x <= y
<1> DEFINE R == {pair \in Nat \X Nat : pair[1] < pair[2]}
<1>1. IsWellFoundedOn(R, Nat)
  BY NatLessThanWellFounded, Zenon DEF OpToRel
<1>2. PICK x \in T : \A y \in T : ~(<<y, x>> \in R)
  <2> HIDE DEF R
  <2> QED BY <1>1, WFMin
<1>3. ASSUME NEW y \in T PROVE x <= y
  <2>1. x \in Nat /\ y \in Nat /\ <<y, x>> \notin R
    BY <1>2
  <2>2. ~(y < x)
    BY <2>1
  <2> QED BY <2>1, <2>2
<1> QED BY <1>3

LEMMA NextCronLater ==
  ASSUME NEW s \in Schedule, NEW now \in Nat, HasNextCron(s, now)
  PROVE  NextCron(s, now) \in Nat /\ NextCron(s, now) > now
<1> DEFINE T == {t \in CronMatch[s] : t > now}
<1>1. T \in SUBSET Nat /\ T # {}
  BY DEF HasNextCron
<1>2. \E x \in T : \A y \in T : x <= y
  <2> HIDE DEF T
  <2> QED BY <1>1, LeastNatural
<1>3. \E t \in CronMatch[s] :
        t > now /\ \A u \in CronMatch[s] : u > now => t <= u
  BY <1>2
<1> QED BY <1>3 DEF NextCron

LEMMA NextIntervalLater ==
  ASSUME NEW s \in Schedule, NEW scheduled \in Nat, NEW now \in Nat
  PROVE  /\ NextInterval(s, scheduled, now) \in Nat
         /\ NextInterval(s, scheduled, now) >= scheduled
         /\ scheduled <= now => NextInterval(s, scheduled, now) > scheduled
<1>1. CASE scheduled > now
  BY <1>1 DEF NextInterval
<1>2. CASE scheduled <= now
  <2> DEFINE q == (now - scheduled) \div Interval[s]
             i == Interval[s]
  <2>1. i \in Nat /\ i > 0
    OBVIOUS
  <2>2. now - scheduled \in Nat
    BY <1>2
  <2>3. q \in Nat
    BY <2>1, <2>2
  <2>4. (q + 1) * i \in Nat /\ (q + 1) * i > 0
    <3> HIDE DEF q, i
    <3> QED BY <2>1, <2>3
  <2>5. NextInterval(s, scheduled, now) = scheduled + (q + 1) * i
    BY <1>2 DEF NextInterval
  <2> HIDE DEF q, i
  <2> QED BY <2>4, <2>5
<1> QED BY <1>1, <1>2

LEMMA NextLater ==
  ASSUME TypeOK, NEW s \in Schedule, NEW now \in Nat, HasNext(s, now)
  PROVE  /\ NextAfterRow(s, now) \in Nat
         /\ s \notin Cron => NextAfterRow(s, now) >= jobs[s].next
         /\ s \notin Cron /\ jobs[s].next <= now =>
              NextAfterRow(s, now) > jobs[s].next
<1>1. jobs[s].next \in Nat
  BY DEF TypeOK, Job
<1> QED BY <1>1, NextCronLater, NextIntervalLater DEF NextAfterRow, HasNext

LEMMA FirstRunNatural ==
  ASSUME NEW s \in Schedule, NEW now \in Nat, NEW start \in Nat, HasNext(s, now)
  PROVE  FirstRun(s, start, now) \in Nat
  BY NextCronLater, NextIntervalLater DEF FirstRun, HasNext

-----------------------------------------------------------------------------
(* Type correctness.                                                       *)

LEMMA RowsUpdated ==
  /\ \A j \in Job : [j EXCEPT !.enabled = FALSE] \in Job
  /\ \A j \in Job, n \in Nat : [j EXCEPT !.next = n] \in Job
  /\ \A j \in Job, n \in Nat : [j EXCEPT !.enabled = TRUE, !.next = n] \in Job
  /\ \A c \in Claim, x \in Unresolved \cup Terminal :
       [c EXCEPT !.status = x] \in Claim
<1>1. \A j \in Job : [j EXCEPT !.enabled = FALSE] \in Job
  BY DEF Job
<1>2. \A j \in Job, n \in Nat : [j EXCEPT !.next = n] \in Job
  BY DEF Job
<1>3. \A j \in Job, n \in Nat : [j EXCEPT !.enabled = TRUE, !.next = n] \in Job
  BY DEF Job
<1>4. \A c \in Claim, x \in Unresolved \cup Terminal :
        [c EXCEPT !.status = x] \in Claim
  BY DEF Claim
<1> QED BY <1>1, <1>2, <1>3, <1>4

LEMMA InitTypeOK == Init => TypeOK
  BY DEF Init, TypeOK, Job, Claim, Instant

LEMMA StampedNatural ==
  ASSUME TypeOK, NEW w \in Caller, stamp[w] # NoStamp
  PROVE  stamp[w] \in Nat /\ stamp[w] \in Instant
  BY DEF TypeOK, Instant

LEMMA StepTypeOK == TypeOK /\ [Next]_vars => TypeOK'
<1> SUFFICES ASSUME TypeOK, [Next]_vars PROVE TypeOK'
  OBVIOUS
<1> USE DEF Return
<1>1. CASE Advance
  BY <1>1 DEF Advance, TypeOK, Instant
<1>2. ASSUME NEW s \in Schedule, ContractChanges(s) PROVE TypeOK'
  <2>1. PICK d \in Contract \cup {NoContract} : contract' = [contract EXCEPT ![s] = d]
    BY <1>2 DEF ContractChanges
  <2>2. contract' \in [Schedule -> Contract \cup {NoContract}]
    BY <2>1 DEF TypeOK
  <2> QED BY <1>2, <2>2 DEF ContractChanges, TypeOK
<1>3. ASSUME NEW w \in Caller, ReadClock(w) PROVE TypeOK'
  BY <1>3 DEF ReadClock, TypeOK
<1>4. ASSUME NEW w \in Caller, NEW s \in Schedule, Register(w, s) PROVE TypeOK'
  <2>1. stamp[w] \in Nat /\ HasNext(s, stamp[w]) /\ contract[s] # NoContract
    BY <1>4, StampedNatural DEF Register
  <2>2. PICK start \in Instant \cup {stamp[w] + Interval[s]} :
          /\ jobs' = [jobs EXCEPT ![s] =
               [present |-> TRUE, enabled |-> TRUE,
                next |-> FirstRun(s, start, stamp[w]), digest |-> contract[s]]]
          /\ anchor' = [anchor EXCEPT ![s] = FirstRun(s, start, stamp[w])]
    BY <1>4 DEF Register
  <2>3. start \in Nat
    BY <2>1 DEF Instant
  <2>4. FirstRun(s, start, stamp[w]) \in Nat
    BY <2>1, <2>3, FirstRunNatural
  <2>5. [present |-> TRUE, enabled |-> TRUE,
         next |-> FirstRun(s, start, stamp[w]), digest |-> contract[s]] \in Job
    BY <2>4 DEF TypeOK, Job
  <2>6. jobs' \in [Schedule -> Job] /\ anchor' \in [Schedule -> Nat]
    BY <2>2, <2>4, <2>5 DEF TypeOK
  <2> QED BY <1>4, <2>6 DEF Register, TypeOK
<1>5. ASSUME NEW w \in Caller, NEW s \in Schedule, Disable(w, s) PROVE TypeOK'
  <2>1. [jobs[s] EXCEPT !.enabled = FALSE] \in Job
    BY RowsUpdated DEF TypeOK
  <2>2. jobs' = [jobs EXCEPT ![s] = [jobs[s] EXCEPT !.enabled = FALSE]]
    BY <1>5 DEF Disable, TypeOK
  <2> QED BY <1>5, <2>1, <2>2 DEF Disable, TypeOK
<1>6. ASSUME NEW w \in Caller, NEW s \in Schedule, Enable(w, s) PROVE TypeOK'
  <2> DEFINE row == [jobs[s] EXCEPT !.enabled = TRUE,
                                    !.next = NextAfterRow(s, stamp[w])]
  <2>1. NextAfterRow(s, stamp[w]) \in Nat
    BY <1>6, StampedNatural, NextLater DEF Enable
  <2>2. row \in Job
    BY <2>1, RowsUpdated DEF TypeOK
  <2>3. jobs' = [jobs EXCEPT ![s] = row]
    BY <1>6 DEF Enable, TypeOK
  <2>4. jobs' \in [Schedule -> Job]
    <3> HIDE DEF row
    <3> QED BY <2>2, <2>3 DEF TypeOK
  <2> QED BY <1>6, <2>4 DEF Enable, TypeOK
<1>7. ASSUME NEW w \in Caller, ClaimDue(w) PROVE TypeOK'
  <2> DEFINE now == stamp[w]
  <2>1. now \in Nat /\ ~TickRaises(now)
    BY <1>7, StampedNatural DEF ClaimDue
  <2>2. [status |-> "CLAIMED", lease |-> now + LeaseTime] \in Claim
    BY <2>1 DEF Claim, Unresolved
  <2>3. claims' \in [Schedule -> [Instant -> Claim]]
    BY <1>7, <2>2 DEF ClaimDue, TypeOK
  <2>4. handedOut' \in [Schedule -> [Instant -> Nat]]
    BY <1>7 DEF ClaimDue, TypeOK
  <2>5. ASSUME NEW s \in Schedule PROVE jobs'[s] \in Job
    <3>1. jobs[s] \in Job
      BY DEF TypeOK
    <3>2. CASE s \in Claimed(now)
      <4>1. NextAfterRow(s, now) \in Nat
        BY <2>1, <3>2, NextLater DEF TickRaises
      <4>2. jobs'[s] = [jobs[s] EXCEPT !.next = NextAfterRow(s, now)]
        BY <1>7, <3>2 DEF ClaimDue
      <4>3. [jobs[s] EXCEPT !.next = NextAfterRow(s, now)] \in Job
        <5> HIDE DEF now
        <5> QED BY <3>1, <4>1, RowsUpdated
      <4> QED BY <4>2, <4>3
    <3>3. CASE s \notin Claimed(now)
      <4>1. jobs'[s] \in {jobs[s], [jobs[s] EXCEPT !.enabled = FALSE]}
        BY <1>7, <3>3 DEF ClaimDue
      <4> QED BY <3>1, <4>1, RowsUpdated
    <3> QED BY <3>2, <3>3
  <2>6. jobs' \in [Schedule -> Job]
    <3>1. jobs' = [s \in Schedule |-> jobs'[s]]
      BY <1>7 DEF ClaimDue
    <3> QED BY <2>5, <3>1
  <2> QED BY <1>7, <2>3, <2>4, <2>6 DEF ClaimDue, TypeOK
<1>8. ASSUME NEW w \in Caller, ClaimDueRaises(w) PROVE TypeOK'
  BY <1>8 DEF ClaimDueRaises, TypeOK
<1>9. ASSUME NEW w \in Caller, MarkExpired(w) PROVE TypeOK'
  <2>1. PICK marked : claims' = [s \in Schedule |-> [t \in Instant |->
              IF <<s, t>> \in marked
              THEN [claims[s][t] EXCEPT !.status = "RECOVERY_REQUIRED"]
              ELSE claims[s][t]]]
    BY <1>9 DEF MarkExpired
  <2>2. \A s \in Schedule, t \in Instant :
          [claims[s][t] EXCEPT !.status = "RECOVERY_REQUIRED"] \in Claim
    <3>1. \A s \in Schedule, t \in Instant : claims[s][t] \in Claim
      BY DEF TypeOK
    <3>2. "RECOVERY_REQUIRED" \in Unresolved
      BY DEF Unresolved
    <3> QED BY <3>1, <3>2, RowsUpdated
  <2>3. claims' \in [Schedule -> [Instant -> Claim]]
    BY <2>1, <2>2 DEF TypeOK
  <2> QED BY <1>9, <2>3 DEF MarkExpired, TypeOK
<1>10. ASSUME NEW s \in Schedule, NEW t \in Instant, NEW status \in Outcome,
              CompleteClaim(s, t, status)
       PROVE  TypeOK'
  <2>1. [claims[s][t] EXCEPT !.status = status] \in Claim
    <3>1. claims[s][t] \in Claim /\ status \in Terminal
      BY DEF TypeOK
    <3> QED BY <3>1, RowsUpdated
  <2>2. claims' = [claims EXCEPT ![s] = [claims[s] EXCEPT ![t] =
                     [claims[s][t] EXCEPT !.status = status]]]
    BY <1>10 DEF CompleteClaim, TypeOK
  <2>3. claims' \in [Schedule -> [Instant -> Claim]]
    BY <2>1, <2>2 DEF TypeOK
  <2> QED BY <1>10, <2>3 DEF CompleteClaim, TypeOK
<1>11. CASE UNCHANGED vars
  BY <1>11 DEF vars, TypeOK
<1> QED
  BY <1>1, <1>2, <1>3, <1>4, <1>5, <1>6, <1>7, <1>8, <1>9, <1>10, <1>11
     DEF Next, Operate, Tick, Complete

(* Every row keeps its type: in particular each next_run_at the scheduler  *)
(* computes exists, for any interval and any cron expression.              *)
THEOREM TypeCorrect == Spec => []TypeOK
<1>1. QED BY InitTypeOK, StepTypeOK, PTL DEF Spec

-----------------------------------------------------------------------------
(* The claims of one schedule.                                             *)

LEMMA InitClaims == Init => ClaimInvariant
  BY DEF Init, ClaimInvariant, NoClaimsUnregistered, NoOverlap, HandedOutOnce,
         IntervalsAdvance, AdvancedBeyond, Unresolved

(* A step that leaves the claims alone, registers only new rows and never  *)
(* moves the next run of an interval schedule back.                        *)
LEMMA ClaimsFrame ==
  ASSUME TypeOK, TypeOK', ClaimInvariant, UNCHANGED <<claims, handedOut>>,
         \A s \in Schedule : jobs[s].present =>
            /\ jobs'[s].present
            /\ s \notin Cron => jobs[s].next <= jobs'[s].next
  PROVE  ClaimInvariant'
<1>1. NoClaimsUnregistered' /\ NoOverlap' /\ HandedOutOnce'
  BY DEF ClaimInvariant, NoClaimsUnregistered, NoOverlap, HandedOutOnce
<1>2. ASSUME NEW s \in Schedule \ Cron, NEW t \in Instant,
             claims[s][t].status # "NONE"
      PROVE  t < jobs'[s].next
  <2>1. jobs[s].present /\ t < jobs[s].next
    BY <1>2 DEF ClaimInvariant, NoClaimsUnregistered, IntervalsAdvance,
                AdvancedBeyond
  <2>2. jobs[s].next \in Nat /\ jobs'[s].next \in Nat /\ t \in Nat
    BY DEF TypeOK, Job, Instant
  <2> QED BY <2>1, <2>2
<1>3. IntervalsAdvance'
  BY <1>2 DEF IntervalsAdvance, AdvancedBeyond
<1> QED BY <1>1, <1>3 DEF ClaimInvariant

(* A tick claims an occurrence nobody claimed, of a schedule without an    *)
(* unresolved claim, and moves an interval schedule beyond it.             *)
LEMMA TickClaims ==
  ASSUME TypeOK, TypeOK', ClaimInvariant, NEW w \in Caller, ClaimDue(w)
  PROVE  ClaimInvariant'
<1> DEFINE now == stamp[w]
<1>1. now \in Nat /\ ~TickRaises(now)
  BY StampedNatural DEF ClaimDue
<1>2. ASSUME NEW s \in Schedule, s \in Claimed(now)
      PROVE  /\ jobs[s].present /\ jobs[s].next <= now /\ ~HasUnresolvedClaim(s)
             /\ claims[s][jobs[s].next].status = "NONE" /\ HasNext(s, now)
             /\ jobs[s].next \in Instant
  <2>1. jobs[s].present /\ jobs[s].next <= now /\ ~HasUnresolvedClaim(s)
    BY <1>2 DEF Claimed, Visited, Selected, Due, Claimable
  <2>2. now <= MaxTime /\ jobs[s].next \in Nat
    BY StampedNatural DEF ClaimDue, Instant, TypeOK, Job
  <2>3. jobs[s].next \in Instant
    BY <1>1, <2>1, <2>2 DEF Instant
  <2> QED BY <1>1, <1>2, <2>1, <2>3 DEF TickRaises
<1>3. \A s \in Schedule, t \in Instant :
        /\ s \in Claimed(now) /\ t = jobs[s].next =>
             /\ claims'[s][t].status = "CLAIMED"
             /\ handedOut'[s][t] = handedOut[s][t] + 1
        /\ ~(s \in Claimed(now) /\ t = jobs[s].next) =>
             /\ claims'[s][t] = claims[s][t]
             /\ handedOut'[s][t] = handedOut[s][t]
  BY DEF ClaimDue
<1>4. \A s \in Schedule :
        /\ s \in Claimed(now) =>
             /\ jobs'[s].next = NextAfterRow(s, now)
             /\ jobs'[s].present = jobs[s].present
        /\ s \notin Claimed(now) =>
             /\ jobs'[s].next = jobs[s].next
             /\ jobs'[s].present = jobs[s].present
  <2> SUFFICES ASSUME NEW s \in Schedule
               PROVE  /\ s \in Claimed(now) =>
                           /\ jobs'[s].next = NextAfterRow(s, now)
                           /\ jobs'[s].present = jobs[s].present
                      /\ s \notin Claimed(now) =>
                           /\ jobs'[s].next = jobs[s].next
                           /\ jobs'[s].present = jobs[s].present
    OBVIOUS
  <2>1. jobs[s] \in Job
    BY DEF TypeOK
  <2>2. CASE s \in Claimed(now)
    <3>1. jobs'[s] = [jobs[s] EXCEPT !.next = NextAfterRow(s, now)]
      BY <2>2 DEF ClaimDue
    <3> QED BY <2>1, <2>2, <3>1 DEF Job
  <2>3. CASE s \notin Claimed(now)
    <3>1. jobs'[s] \in {jobs[s], [jobs[s] EXCEPT !.enabled = FALSE]}
      BY <2>3 DEF ClaimDue
    <3> QED BY <2>1, <2>3, <3>1 DEF Job
  <2> QED BY <2>2, <2>3
<1> HIDE DEF now
<1>5. NoClaimsUnregistered'
  BY <1>2, <1>3, <1>4 DEF ClaimInvariant, NoClaimsUnregistered
<1>6. NoOverlap'
  <2> SUFFICES ASSUME NEW s \in Schedule, NEW t \in Instant, NEW u \in Instant,
                      claims'[s][t].status \in Unresolved,
                      claims'[s][u].status \in Unresolved
               PROVE  t = u
    BY DEF NoOverlap
  <2>1. CASE s \in Claimed(now)
    <3>1. \A x \in Instant : x # jobs[s].next => claims'[s][x].status \notin Unresolved
      BY <1>2, <1>3, <2>1 DEF HasUnresolvedClaim
    <3> QED BY <3>1
  <2>2. CASE s \notin Claimed(now)
    BY <1>3, <2>2 DEF ClaimInvariant, NoOverlap
  <2> QED BY <2>1, <2>2
<1>7. HandedOutOnce'
  <2> SUFFICES ASSUME NEW s \in Schedule, NEW t \in Instant
               PROVE  handedOut'[s][t]
                        = IF claims'[s][t].status = "NONE" THEN 0 ELSE 1
    BY DEF HandedOutOnce
  <2>1. handedOut[s][t] = IF claims[s][t].status = "NONE" THEN 0 ELSE 1
    BY DEF ClaimInvariant, HandedOutOnce
  <2> QED BY <1>2, <1>3, <2>1
<1>8. IntervalsAdvance'
  <2> SUFFICES ASSUME NEW s \in Schedule \ Cron, NEW t \in Instant,
                      claims'[s][t].status # "NONE"
               PROVE  t < jobs'[s].next
    BY DEF IntervalsAdvance, AdvancedBeyond
  <2>1. jobs[s].next \in Nat /\ jobs'[s].next \in Nat /\ t \in Nat
    BY DEF TypeOK, Job, Instant
  <2>2. claims[s][t].status # "NONE" => t < jobs[s].next
    BY DEF ClaimInvariant, IntervalsAdvance, AdvancedBeyond
  <2>3. CASE s \in Claimed(now)
    <3>1. jobs'[s].next > jobs[s].next
      BY <1>1, <1>2, <1>4, <2>3, NextLater
    <3>2. t <= jobs[s].next
      BY <1>3, <2>1, <2>2, <2>3
    <3> QED BY <2>1, <3>1, <3>2
  <2>4. CASE s \notin Claimed(now)
    BY <1>3, <1>4, <2>2, <2>4
  <2> QED BY <2>3, <2>4
<1> QED BY <1>5, <1>6, <1>7, <1>8 DEF ClaimInvariant

(* Expiry and completion keep a claim a claim, and create none.            *)
LEMMA ResolvingClaims ==
  ASSUME TypeOK, ClaimInvariant, UNCHANGED <<jobs, handedOut>>,
         \A s \in Schedule, t \in Instant :
            /\ claims'[s][t].status = "NONE" <=> claims[s][t].status = "NONE"
            /\ claims'[s][t].status \in Unresolved =>
                 claims[s][t].status \in Unresolved
  PROVE  ClaimInvariant'
  BY DEF ClaimInvariant, NoClaimsUnregistered, NoOverlap, HandedOutOnce,
         IntervalsAdvance, AdvancedBeyond

LEMMA StepClaims ==
  ASSUME TypeOK, ClaimInvariant, [Next]_vars
  PROVE  ClaimInvariant'
<1>1. TypeOK'
  BY StepTypeOK
<1>2. \A s \in Schedule : jobs[s] \in Job /\ jobs[s].next \in Nat
  BY DEF TypeOK, Job
<1>3. ASSUME UNCHANGED <<claims, handedOut, jobs>> PROVE ClaimInvariant'
  <2>1. \A s \in Schedule : jobs[s].next <= jobs'[s].next
    BY <1>2, <1>3
  <2> QED BY <1>1, <1>3, <2>1, ClaimsFrame
<1>4. ASSUME NEW w \in Caller, NEW s \in Schedule, Register(w, s)
      PROVE  ClaimInvariant'
  <2>1. \A u \in Schedule : jobs[u].present => jobs'[u] = jobs[u]
    BY <1>4 DEF Register, TypeOK
  <2> QED BY <1>1, <1>2, <1>4, <2>1, ClaimsFrame DEF Register
<1>5. ASSUME NEW w \in Caller, NEW s \in Schedule, Disable(w, s)
      PROVE  ClaimInvariant'
  <2>1. \A u \in Schedule : /\ jobs'[u].present = jobs[u].present
                            /\ jobs'[u].next = jobs[u].next
    BY <1>2, <1>5 DEF Disable, TypeOK, Job
  <2> QED BY <1>1, <1>2, <1>5, <2>1, ClaimsFrame DEF Disable
<1>6. ASSUME NEW w \in Caller, NEW s \in Schedule, Enable(w, s)
      PROVE  ClaimInvariant'
  <2> DEFINE now == stamp[w]
  <2>1. now \in Nat /\ HasNext(s, now)
    BY <1>6, StampedNatural DEF Enable
  <2>2. \A u \in Schedule \ {s} : jobs'[u] = jobs[u]
    BY <1>6 DEF Enable, TypeOK
  <2>3. jobs'[s].present = jobs[s].present /\ jobs'[s].next = NextAfterRow(s, now)
    BY <1>2, <1>6 DEF Enable, TypeOK, Job
  <2>4. s \notin Cron => jobs[s].next <= jobs'[s].next
    <3>1. s \notin Cron => NextAfterRow(s, now) >= jobs[s].next
      <4> HIDE DEF now
      <4> QED BY <2>1, NextLater
    <3>2. NextAfterRow(s, now) \in Nat
      <4> HIDE DEF now
      <4> QED BY <2>1, NextLater
    <3> QED BY <1>2, <2>3, <3>1, <3>2
  <2>5. \A u \in Schedule : jobs[u].present =>
          /\ jobs'[u].present
          /\ u \notin Cron => jobs[u].next <= jobs'[u].next
    <3> HIDE DEF now
    <3> QED BY <1>2, <2>2, <2>3, <2>4
  <2>6. UNCHANGED <<claims, handedOut>>
    BY <1>6 DEF Enable
  <2> HIDE DEF now
  <2> QED BY <1>1, <2>5, <2>6, ClaimsFrame
<1>7. ASSUME NEW w \in Caller, ClaimDue(w) PROVE ClaimInvariant'
  BY <1>1, <1>7, TickClaims
<1>8. ASSUME NEW w \in Caller, MarkExpired(w) PROVE ClaimInvariant'
  <2>1. PICK marked \in SUBSET Expired(stamp[w]) :
          claims' = [s \in Schedule |-> [t \in Instant |->
              IF <<s, t>> \in marked
              THEN [claims[s][t] EXCEPT !.status = "RECOVERY_REQUIRED"]
              ELSE claims[s][t]]]
    BY <1>8 DEF MarkExpired
  <2>2. ASSUME NEW s \in Schedule, NEW t \in Instant
        PROVE  \/ claims'[s][t] = claims[s][t]
               \/ /\ claims[s][t].status = "CLAIMED"
                  /\ claims'[s][t].status = "RECOVERY_REQUIRED"
    <3>1. claims[s][t] \in Claim
      BY DEF TypeOK
    <3>2. CASE <<s, t>> \in marked
      <4>1. claims[s][t].status = "CLAIMED"
        BY <3>2 DEF Expired
      <4>2. claims'[s][t] = [claims[s][t] EXCEPT !.status = "RECOVERY_REQUIRED"]
        BY <2>1, <3>2
      <4> QED BY <3>1, <4>1, <4>2 DEF Claim
    <3>3. CASE <<s, t>> \notin marked
      BY <2>1, <3>3
    <3> QED BY <3>2, <3>3
  <2>3. \A s \in Schedule, t \in Instant :
          /\ claims'[s][t].status = "NONE" <=> claims[s][t].status = "NONE"
          /\ claims'[s][t].status \in Unresolved =>
               claims[s][t].status \in Unresolved
    BY <2>2 DEF Unresolved
  <2> QED BY <1>8, <2>3, ResolvingClaims DEF MarkExpired
<1>9. ASSUME NEW s \in Schedule, NEW t \in Instant, NEW status \in Outcome,
             CompleteClaim(s, t, status)
      PROVE  ClaimInvariant'
  <2>1. claims[s][t].status \in Unresolved /\ claims'[s][t].status = status
    BY <1>9 DEF CompleteClaim, TypeOK, Claim
  <2>2. \A u \in Schedule, x \in Instant :
          <<u, x>> # <<s, t>> => claims'[u][x] = claims[u][x]
    BY <1>9 DEF CompleteClaim, TypeOK
  <2>3. \A u \in Schedule, x \in Instant :
          /\ claims'[u][x].status = "NONE" <=> claims[u][x].status = "NONE"
          /\ claims'[u][x].status \in Unresolved =>
               claims[u][x].status \in Unresolved
    BY <2>1, <2>2 DEF Unresolved, Terminal
  <2> QED BY <1>9, <2>3, ResolvingClaims DEF CompleteClaim
<1> QED
  BY <1>3, <1>4, <1>5, <1>6, <1>7, <1>8, <1>9
     DEF Next, Operate, Tick, Complete, Advance, ContractChanges, ReadClock,
         ClaimDueRaises, vars

(***************************************************************************)
(* For any schedules and callers, however stale the time a call works      *)
(* with: no two occurrences of a schedule are unresolved together, no      *)
(* occurrence is handed out twice, and the next run of an interval         *)
(* schedule is beyond every claimed occurrence.                            *)
(***************************************************************************)
THEOREM ClaimsHold == Spec => []ClaimInvariant
<1>1. TypeOK /\ ClaimInvariant /\ [Next]_vars => ClaimInvariant'
  BY StepClaims
<1> QED BY <1>1, InitClaims, TypeCorrect, PTL DEF Spec

(* Occurrences of one schedule never overlap.                              *)
THEOREM NeverOverlaps == Spec => []NoOverlap
<1>1. ClaimInvariant => NoOverlap
  BY DEF ClaimInvariant
<1> QED BY <1>1, ClaimsHold, PTL

(* claim_due returns each occurrence at most once.                         *)
THEOREM NeverReplayed == Spec => []HandedOutOnce
<1>1. ClaimInvariant => HandedOutOnce
  BY DEF ClaimInvariant
<1> QED BY <1>1, ClaimsHold, PTL

(* An interval schedule never meets the UNIQUE constraint.                 *)
THEOREM IntervalsDurablyAdvanced == Spec => []IntervalsAdvance
<1>1. ClaimInvariant => IntervalsAdvance
  BY DEF ClaimInvariant
<1> QED BY <1>1, ClaimsHold, PTL
-----------------------------------------------------------------------------
(* The grid of an interval schedule: its points are reached from the first *)
(* run in whole intervals, and a step of _next_interval is one of them.    *)

OnPoint(s, t) == \E k \in Nat : t = anchor[s] + k * Interval[s]

GridInvariant ==
    \A s \in Schedule \ Cron :
      /\ jobs[s].present => OnPoint(s, jobs[s].next)
      /\ \A t \in Instant : claims[s][t].status # "NONE" => OnPoint(s, t)

LEMMA WholeIntervals ==
  ASSUME NEW k \in Nat, NEW d \in Nat \ {0}
  PROVE  k * d \in Nat /\ (k * d) % d = 0
  OBVIOUS

LEMMA NextIntervalPoint ==
  ASSUME NEW s \in Schedule, NEW scheduled \in Nat, NEW now \in Nat
  PROVE  \E q \in Nat : NextInterval(s, scheduled, now) = scheduled + q * Interval[s]
<1> DEFINE i == Interval[s]
<1>1. i \in Nat \ {0}
  OBVIOUS
<1>2. CASE scheduled > now
  <2>1. NextInterval(s, scheduled, now) = scheduled
    BY <1>2 DEF NextInterval
  <2>2. scheduled = scheduled + 0 * i
    <3> HIDE DEF i
    <3> QED BY <1>1
  <2> QED BY <2>1, <2>2
<1>3. CASE scheduled <= now
  <2> DEFINE q == (now - scheduled) \div Interval[s]
  <2>1. now - scheduled \in Nat
    BY <1>3
  <2>2. q \in Nat
    BY <1>1, <2>1
  <2>3. NextInterval(s, scheduled, now) = scheduled + (q + 1) * i
    BY <1>3 DEF NextInterval
  <2>4. q + 1 \in Nat
    <3> HIDE DEF q
    <3> QED BY <2>2
  <2> HIDE DEF q
  <2> QED BY <2>3, <2>4
<1> QED BY <1>2, <1>3

LEMMA NextStaysOnGrid ==
  ASSUME TypeOK, NEW s \in Schedule \ Cron, NEW now \in Nat, OnPoint(s, jobs[s].next)
  PROVE  OnPoint(s, NextAfterRow(s, now))
<1> DEFINE i == Interval[s]
           a == anchor[s]
<1>1. i \in Nat \ {0} /\ a \in Nat
  BY DEF TypeOK
<1>2. jobs[s].next \in Nat
  BY DEF TypeOK, Job
<1>3. PICK k \in Nat : jobs[s].next = a + k * i
  BY DEF OnPoint
<1>4. PICK q \in Nat : NextAfterRow(s, now) = jobs[s].next + q * i
  <2>1. NextAfterRow(s, now) = NextInterval(s, jobs[s].next, now)
    BY DEF NextAfterRow
  <2> QED BY <1>2, <2>1, NextIntervalPoint
<1>5. NextAfterRow(s, now) = a + (k + q) * i
  <2>1. (k + q) * i = k * i + q * i /\ k * i \in Nat /\ q * i \in Nat
    <3> HIDE DEF i
    <3> QED BY <1>1
  <2> HIDE DEF i, a
  <2> QED BY <1>1, <1>3, <1>4, <2>1
<1>6. k + q \in Nat
  OBVIOUS
<1> QED BY <1>5, <1>6 DEF OnPoint

LEMMA InitGrid == Init => GridInvariant
  BY DEF Init, GridInvariant

(* A step that keeps the first runs and adds no claim, and whose rows stay *)
(* on their grids.                                                         *)
LEMMA GridFrame ==
  ASSUME GridInvariant, anchor' = anchor,
         \A s \in Schedule \ Cron :
           /\ jobs'[s].present => jobs[s].present /\ OnPoint(s, jobs'[s].next)
           /\ \A t \in Instant : claims'[s][t].status # "NONE" =>
                claims[s][t].status # "NONE" \/ OnPoint(s, t)
  PROVE  GridInvariant'
  BY DEF GridInvariant, OnPoint

LEMMA StepGrid ==
  ASSUME TypeOK, ClaimInvariant, GridInvariant, [Next]_vars
  PROVE  GridInvariant'
<1>1. \A s \in Schedule : jobs[s] \in Job /\ jobs[s].next \in Nat
  BY DEF TypeOK, Job
<1>2. ASSUME UNCHANGED <<anchor, jobs, claims>> PROVE GridInvariant'
  BY <1>2 DEF GridInvariant, OnPoint
<1>3. ASSUME NEW w \in Caller, NEW s \in Schedule, Register(w, s)
      PROVE  GridInvariant'
  <2>1. \A u \in Schedule \ {s} : jobs'[u] = jobs[u] /\ anchor'[u] = anchor[u]
    BY <1>3 DEF Register, TypeOK
  <2>2. claims' = claims
    BY <1>3 DEF Register
  <2>3. \A t \in Instant : claims[s][t].status = "NONE"
    BY <1>3 DEF Register, ClaimInvariant, NoClaimsUnregistered
  <2>4. jobs'[s].next = anchor'[s] /\ anchor'[s] \in Nat
    <3>1. TypeOK'
      BY StepTypeOK
    <3>2. jobs'[s].next = anchor'[s]
      BY <1>3 DEF Register, TypeOK
    <3> QED BY <3>1, <3>2 DEF TypeOK
  <2>5. jobs'[s].next = anchor'[s] + 0 * Interval[s]
    BY <2>4
  <2>6. (OnPoint(s, jobs[s].next))'
    BY <2>5 DEF OnPoint
  <2>7. \A u \in (Schedule \ Cron) \ {s} :
          /\ jobs'[u].present => (OnPoint(u, jobs[u].next))'
          /\ \A t \in Instant : claims'[u][t].status # "NONE" => (OnPoint(u, t))'
    BY <2>1, <2>2 DEF GridInvariant, OnPoint
  <2> QED BY <2>2, <2>3, <2>6, <2>7 DEF GridInvariant
<1>4. ASSUME NEW w \in Caller, NEW s \in Schedule, Disable(w, s)
      PROVE  GridInvariant'
  <2>1. \A u \in Schedule : /\ jobs'[u].present = jobs[u].present
                            /\ jobs'[u].next = jobs[u].next
    BY <1>1, <1>4 DEF Disable, TypeOK, Job
  <2> QED BY <1>4, <2>1, GridFrame DEF Disable, GridInvariant
<1>5. ASSUME NEW w \in Caller, NEW s \in Schedule, Enable(w, s)
      PROVE  GridInvariant'
  <2>1. stamp[w] \in Nat /\ jobs[s].present
    BY <1>5, StampedNatural DEF Enable
  <2>2. \A u \in Schedule \ {s} : jobs'[u] = jobs[u]
    BY <1>5 DEF Enable, TypeOK
  <2>3. jobs'[s].next = NextAfterRow(s, stamp[w])
    BY <1>1, <1>5 DEF Enable, TypeOK, Job
  <2>4. s \notin Cron => OnPoint(s, jobs'[s].next)
    BY <2>1, <2>3, NextStaysOnGrid DEF GridInvariant
  <2>5. \A u \in Schedule \ Cron :
          jobs'[u].present => jobs[u].present /\ OnPoint(u, jobs'[u].next)
    BY <2>1, <2>2, <2>4 DEF GridInvariant
  <2> QED BY <1>5, <2>5, GridFrame DEF Enable
<1>6. ASSUME NEW w \in Caller, ClaimDue(w) PROVE GridInvariant'
  <2> DEFINE now == stamp[w]
  <2>1. now \in Nat
    BY <1>6, StampedNatural DEF ClaimDue
  <2>2. \A s \in Claimed(now) : s \in Schedule /\ jobs[s].present
    BY DEF Claimed, Visited, Selected, Due
  <2>3. ASSUME NEW s \in Schedule \ Cron
        PROVE  jobs'[s].present => jobs[s].present /\ OnPoint(s, jobs'[s].next)
    <3>1. CASE s \in Claimed(now)
      <4>1. jobs'[s] = [jobs[s] EXCEPT !.next = NextAfterRow(s, now)]
        BY <1>6, <3>1 DEF ClaimDue
      <4>2. jobs'[s].next = NextAfterRow(s, now)
        BY <1>1, <4>1 DEF Job
      <4> HIDE DEF now
      <4> QED BY <2>1, <2>2, <3>1, <4>2, NextStaysOnGrid DEF GridInvariant
    <3>2. CASE s \notin Claimed(now)
      <4>1. jobs'[s] \in {jobs[s], [jobs[s] EXCEPT !.enabled = FALSE]}
        BY <1>6, <3>2 DEF ClaimDue
      <4>2. jobs'[s].next = jobs[s].next /\ jobs'[s].present = jobs[s].present
        BY <1>1, <4>1 DEF Job
      <4> QED BY <4>2 DEF GridInvariant
    <3> QED BY <3>1, <3>2
  <2>4. ASSUME NEW s \in Schedule \ Cron, NEW t \in Instant,
               claims'[s][t].status # "NONE"
        PROVE  claims[s][t].status # "NONE" \/ OnPoint(s, t)
    <3>1. CASE s \in Claimed(now) /\ t = jobs[s].next
      BY <2>2, <3>1 DEF GridInvariant
    <3>2. CASE ~(s \in Claimed(now) /\ t = jobs[s].next)
      <4>1. claims'[s][t] = claims[s][t]
        BY <1>6, <3>2 DEF ClaimDue
      <4> QED BY <2>4, <4>1
    <3> QED BY <3>1, <3>2
  <2>5. anchor' = anchor
    BY <1>6 DEF ClaimDue
  <2> HIDE DEF now
  <2> QED BY <2>3, <2>4, <2>5, GridFrame
<1>7. ASSUME NEW w \in Caller, MarkExpired(w) PROVE GridInvariant'
  <2>1. PICK marked \in SUBSET Expired(stamp[w]) :
          claims' = [s \in Schedule |-> [t \in Instant |->
              IF <<s, t>> \in marked
              THEN [claims[s][t] EXCEPT !.status = "RECOVERY_REQUIRED"]
              ELSE claims[s][t]]]
    BY <1>7 DEF MarkExpired
  <2>2. ASSUME NEW s \in Schedule \ Cron, NEW t \in Instant,
               claims'[s][t].status # "NONE"
        PROVE  claims[s][t].status # "NONE"
    <3>1. CASE <<s, t>> \in marked
      BY <3>1 DEF Expired
    <3>2. CASE <<s, t>> \notin marked
      BY <2>1, <2>2, <3>2
    <3> QED BY <3>1, <3>2
  <2> QED BY <1>7, <2>2, GridFrame DEF MarkExpired, GridInvariant
<1>8. ASSUME NEW s \in Schedule, NEW t \in Instant, NEW status \in Outcome,
             CompleteClaim(s, t, status)
      PROVE  GridInvariant'
  <2>1. claims[s][t].status # "NONE"
    BY <1>8 DEF CompleteClaim, Unresolved
  <2>2. \A u \in Schedule, x \in Instant :
          <<u, x>> # <<s, t>> => claims'[u][x] = claims[u][x]
    BY <1>8 DEF CompleteClaim, TypeOK
  <2> QED BY <1>8, <2>1, <2>2, GridFrame DEF CompleteClaim, GridInvariant
<1> QED
  BY <1>2, <1>3, <1>4, <1>5, <1>6, <1>7, <1>8
     DEF Next, Operate, Tick, Complete, Advance, ContractChanges, ReadClock,
         ClaimDueRaises, vars

(***************************************************************************)
(* Missed occurrences are coalesced without drift: whatever an interval    *)
(* schedule is claimed for is a whole number of intervals after its first  *)
(* run, however late and by whomever it was claimed or enabled again.      *)
(***************************************************************************)
THEOREM ClaimsAreOnGrid == Spec => []OnGrid
<1>1. TypeOK /\ GridInvariant => OnGrid
  <2> SUFFICES ASSUME TypeOK, GridInvariant, NEW s \in Schedule \ Cron,
                      NEW t \in Instant, claims[s][t].status # "NONE"
               PROVE  anchor[s] <= t /\ (t - anchor[s]) % Interval[s] = 0
    BY DEF OnGrid
  <2> DEFINE i == Interval[s]
             a == anchor[s]
  <2>1. i \in Nat \ {0} /\ a \in Nat
    BY DEF TypeOK
  <2>2. PICK k \in Nat : t = a + k * i
    BY DEF GridInvariant, OnPoint
  <2>3. k * i \in Nat /\ (k * i) % i = 0
    <3> HIDE DEF i
    <3> QED BY <2>1, WholeIntervals
  <2>4. a <= t /\ t - a = k * i
    <3> DEFINE x == k * i
    <3> HIDE DEF i, a, x
    <3> QED BY <2>1, <2>2, <2>3 DEF x
  <2> QED BY <2>3, <2>4
<1>2. TypeOK /\ ClaimInvariant /\ GridInvariant /\ [Next]_vars => GridInvariant'
  BY StepGrid
<1> QED BY <1>1, <1>2, InitGrid, TypeCorrect, ClaimsHold, PTL DEF Spec
=============================================================================
