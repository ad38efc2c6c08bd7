------------------------- MODULE PersistentScheduler -------------------------
(***************************************************************************)
(* The persistent wall-clock scheduler (persistent_scheduler.py): schedule *)
(* rows, the claims of their due occurrences, and the callers that tick,   *)
(* expire, complete, enable and disable them from several processes.       *)
(*                                                                         *)
(* Every call reads the wall clock first and then waits for its BEGIN      *)
(* IMMEDIATE transaction, so the time a transaction works with may be      *)
(* older than the commits before it: ReadClock and the operation are two   *)
(* steps.  A transaction that raises is rolled back as a whole.  The event *)
(* chain only records what the other tables hold and is left out.          *)
(***************************************************************************)
EXTENDS Naturals, FiniteSets

CONSTANTS
    Schedule,       \* schedule ids
    Rank,           \* Rank[s]: position of s in the order of the ids
    Cron,           \* the schedules of kind "cron"; the others are intervals
    CronMatch,      \* CronMatch[s]: the minutes the expression of s matches
    Interval,       \* Interval[s]: interval_seconds of s
    Caller,         \* the processes that call the scheduler
    Outcome,        \* the terminal statuses the executors report
    Contract,       \* the contract digests of a task
    NoContract,     \* the task has no contract row
    NoStamp,        \* no call is under way
    MaxDuePerTick,  \* _MAX_DUE_PER_TICK
    Limit,          \* limit of claim_due
    RecoveryLimit,  \* limit of mark_expired_claims_recovery_required
    LeaseTime,      \* lease_seconds
    MaxTime         \* bound on the wall clock

Instant == 0..MaxTime
Terminal == {"SUCCEEDED", "FAILED", "CANCELLED"}
Unresolved == {"CLAIMED", "RECOVERY_REQUIRED"}

ASSUME ScheduleAssumption ==
    /\ IsFiniteSet(Schedule)
    /\ Rank \in [Schedule -> Nat]
    /\ \A s, u \in Schedule : Rank[s] = Rank[u] => s = u
    /\ Cron \subseteq Schedule
    /\ CronMatch \in [Schedule -> SUBSET Nat]
    /\ Interval \in [Schedule -> Nat \ {0}]
ASSUME CallAssumption ==
    /\ Outcome \subseteq Terminal
    /\ NoContract \notin Contract
    /\ NoStamp \notin Nat
    /\ {MaxDuePerTick, Limit, RecoveryLimit, LeaseTime} \subseteq Nat \ {0}
    /\ MaxTime \in Nat

VARIABLES
    clock,      \* the wall clock
    contract,   \* task_contracts, of the task of each schedule
    stamp,      \* the time a caller read for the call under way
    jobs,       \* scheduled_jobs
    claims,     \* schedule_claims, by schedule and scheduled_for
    anchor,     \* history: the first next_run_at of each schedule
    handedOut   \* history: the claims claim_due returned

vars == <<clock, contract, stamp, jobs, claims, anchor, handedOut>>

Job == [present : BOOLEAN, enabled : BOOLEAN, next : Nat,
        digest : Contract \cup {NoContract}]
Claim == [status : {"NONE"} \cup Unresolved \cup Terminal, lease : Nat]

TypeOK ==
    /\ clock \in Instant
    /\ contract \in [Schedule -> Contract \cup {NoContract}]
    /\ stamp \in [Caller -> Instant \cup {NoStamp}]
    /\ jobs \in [Schedule -> Job]
    /\ claims \in [Schedule -> [Instant -> Claim]]
    /\ anchor \in [Schedule -> Nat]
    /\ handedOut \in [Schedule -> [Instant -> Nat]]

Init ==
    /\ clock = 0
    /\ contract \in [Schedule -> Contract \cup {NoContract}]
    /\ stamp = [w \in Caller |-> NoStamp]
    /\ jobs = [s \in Schedule |-> [present |-> FALSE, enabled |-> FALSE,
                                   next |-> 0, digest |-> NoContract]]
    /\ claims = [s \in Schedule |-> [t \in Instant |->
                                       [status |-> "NONE", lease |-> 0]]]
    /\ anchor = [s \in Schedule |-> 0]
    /\ handedOut = [s \in Schedule |-> [t \in Instant |-> 0]]

-----------------------------------------------------------------------------
(* Mutant: the next interval is counted from now.                          *)
NextIntervalFromNow(s, scheduled, now) ==
    IF scheduled > now THEN scheduled ELSE now + Interval[s]

(* Mutant: one interval too few.                                           *)
NextIntervalShort(s, scheduled, now) ==
    IF scheduled > now
    THEN scheduled
    ELSE scheduled + ((now - scheduled) \div Interval[s]) * Interval[s]

(* _next_interval: stays where it is while in the future, otherwise the    *)
(* first point of the grid beyond now.                                     *)
NextInterval(s, scheduled, now) ==
    IF scheduled > now
    THEN scheduled
    ELSE scheduled + ((now - scheduled) \div Interval[s] + 1) * Interval[s]

(* _next_cron: the first matching minute after now, within the horizon.    *)
HasNextCron(s, now) == \E t \in CronMatch[s] : t > now

NextCron(s, now) ==
    CHOOSE t \in CronMatch[s] :
        t > now /\ \A u \in CronMatch[s] : u > now => t <= u

HasNext(s, now) == s \in Cron => HasNextCron(s, now)

NextAfterRow(s, now) ==
    IF s \in Cron THEN NextCron(s, now) ELSE NextInterval(s, jobs[s].next, now)

(* Mutant: only a claim whose lease runs is in the way.                    *)
HasClaimRunning(s) == \E t \in Instant : claims[s][t].status = "CLAIMED"

HasUnresolvedClaim(s) ==
    \E t \in Instant : claims[s][t].status \in Unresolved

ContractHolds(s) ==
    contract[s] # NoContract /\ contract[s] = jobs[s].digest

Return(w) == stamp' = [stamp EXCEPT ![w] = NoStamp]

-----------------------------------------------------------------------------
(* Time passes; a caller reads it at the start of a call.                  *)
Advance ==
    /\ clock < MaxTime
    /\ clock' = clock + 1
    /\ UNCHANGED <<contract, stamp, jobs, claims, anchor, handedOut>>

ReadClock(w) ==
    /\ stamp[w] = NoStamp
    /\ stamp' = [stamp EXCEPT ![w] = clock]
    /\ UNCHANGED <<clock, contract, jobs, claims, anchor, handedOut>>

(* The contract row of a task is lost, or bound again: the store refuses   *)
(* to change a row that is there.                                          *)
ContractChanges(s) ==
    /\ contract' \in {[contract EXCEPT ![s] = d] :
                        d \in IF contract[s] = NoContract THEN Contract
                                                          ELSE {NoContract}}
    /\ UNCHANGED <<clock, stamp, jobs, claims, anchor, handedOut>>

(* register_interval (start_at given or not) and register_cron.            *)
FirstRun(s, start, now) ==
    IF s \in Cron THEN NextCron(s, now)
    ELSE IF start < now THEN NextInterval(s, start, now) ELSE start

Register(w, s) ==
    /\ stamp[w] # NoStamp
    /\ ~jobs[s].present
    /\ contract[s] # NoContract
    /\ HasNext(s, stamp[w])
    /\ \E start \in Instant \cup {stamp[w] + Interval[s]} :
         /\ jobs' = [jobs EXCEPT ![s] =
              [present |-> TRUE, enabled |-> TRUE,
               next |-> FirstRun(s, start, stamp[w]), digest |-> contract[s]]]
         /\ anchor' = [anchor EXCEPT ![s] = FirstRun(s, start, stamp[w])]
    /\ Return(w)
    /\ UNCHANGED <<clock, contract, claims, handedOut>>

Disable(w, s) ==
    /\ stamp[w] # NoStamp
    /\ jobs[s].present
    /\ jobs' = [jobs EXCEPT ![s].enabled = FALSE]
    /\ Return(w)
    /\ UNCHANGED <<clock, contract, claims, anchor, handedOut>>

(* enable also accepts a schedule that is enabled already, and moves its   *)
(* next_run_at.                                                            *)
Enable(w, s) ==
    /\ stamp[w] # NoStamp
    /\ jobs[s].present
    /\ ContractHolds(s)
    /\ HasNext(s, stamp[w])
    /\ jobs' = [jobs EXCEPT ![s].enabled = TRUE,
                            ![s].next = NextAfterRow(s, stamp[w])]
    /\ Return(w)
    /\ UNCHANGED <<clock, contract, claims, anchor, handedOut>>

-----------------------------------------------------------------------------
(* claim_due: one transaction over the due rows, in the order of           *)
(* (next_run_at, schedule_id).                                             *)
Due(now) ==
    {s \in Schedule : jobs[s].present /\ jobs[s].enabled /\ jobs[s].next <= now}

Before(s, u) ==
    \/ jobs[s].next < jobs[u].next
    \/ jobs[s].next = jobs[u].next /\ Rank[s] < Rank[u]

(* The SELECT returns the first MaxDuePerTick due rows.                    *)
Selected(now) ==
    {s \in Due(now) : Cardinality({u \in Due(now) : Before(u, s)}) < MaxDuePerTick}

Claimable(s) == ~HasUnresolvedClaim(s) /\ ContractHolds(s)

(* Mutant: rows the loop only skips count towards the limit.               *)
VisitedCountingSkipped(now) ==
    {s \in Selected(now) :
        Cardinality({u \in Selected(now) : Before(u, s)}) < Limit}

(* The loop breaks once Limit claims were made; blocked rows and rows it   *)
(* disables do not count.                                                  *)
Visited(now) ==
    {s \in Selected(now) :
        Cardinality({u \in Selected(now) : Before(u, s) /\ Claimable(u)}) < Limit}

Claimed(now) == {s \in Visited(now) : Claimable(s)}

AutoDisabled(now) ==
    {s \in Visited(now) : ~HasUnresolvedClaim(s) /\ ~ContractHolds(s)}

(* Mutant: the claim row is replaced instead of refused.                   *)
NeverRaises(now) == FALSE

(* The whole tick raises: no next run within the horizon, or the UNIQUE    *)
(* constraint on (schedule_id, scheduled_for).                             *)
TickRaises(now) ==
    \E s \in Claimed(now) :
        \/ ~HasNext(s, now)
        \/ claims[s][jobs[s].next].status # "NONE"

ClaimDue(w) ==
    LET now == stamp[w] IN
    /\ now # NoStamp
    /\ ~TickRaises(now)
    /\ claims' = [s \in Schedule |-> [t \in Instant |->
         IF s \in Claimed(now) /\ t = jobs[s].next
         THEN [status |-> "CLAIMED", lease |-> now + LeaseTime]
         ELSE claims[s][t]]]
    /\ handedOut' = [s \in Schedule |-> [t \in Instant |->
         IF s \in Claimed(now) /\ t = jobs[s].next
         THEN handedOut[s][t] + 1
         ELSE handedOut[s][t]]]
    /\ jobs' = [s \in Schedule |->
         IF s \in Claimed(now)
         THEN [jobs[s] EXCEPT !.next = NextAfterRow(s, now)]
         ELSE IF s \in AutoDisabled(now)
              THEN [jobs[s] EXCEPT !.enabled = FALSE]
              ELSE jobs[s]]
    /\ Return(w)
    /\ UNCHANGED <<clock, contract, anchor>>

ClaimDueRaises(w) ==
    /\ stamp[w] # NoStamp
    /\ TickRaises(stamp[w])
    /\ Return(w)
    /\ UNCHANGED <<clock, contract, jobs, claims, anchor, handedOut>>

(* mark_expired_claims_recovery_required: at most RecoveryLimit claims,    *)
(* the longest expired first.                                              *)
Expired(now) ==
    {x \in Schedule \X Instant :
        /\ claims[x[1]][x[2]].status = "CLAIMED"
        /\ claims[x[1]][x[2]].lease <= now}

MarkExpired(w) ==
    /\ stamp[w] # NoStamp
    /\ \E marked \in SUBSET Expired(stamp[w]) :
         /\ \A x \in marked, y \in Expired(stamp[w]) \ marked :
              claims[x[1]][x[2]].lease <= claims[y[1]][y[2]].lease
         /\ \/ marked = Expired(stamp[w]) /\ Cardinality(marked) <= RecoveryLimit
            \/ Cardinality(marked) = RecoveryLimit
         /\ claims' = [s \in Schedule |-> [t \in Instant |->
              IF <<s, t>> \in marked
              THEN [claims[s][t] EXCEPT !.status = "RECOVERY_REQUIRED"]
              ELSE claims[s][t]]]
    /\ Return(w)
    /\ UNCHANGED <<clock, contract, jobs, anchor, handedOut>>

(* Mutant: the reported status is not validated.                           *)
CompleteClaimUnvalidated(s, t, status) ==
    /\ claims[s][t].status \in Unresolved
    /\ claims' = [claims EXCEPT ![s][t].status = "UNKNOWN"]
    /\ UNCHANGED <<clock, contract, stamp, jobs, anchor, handedOut>>

(* complete_claim, by the executor, in time or late.  On a terminal claim  *)
(* it returns or raises and changes nothing.                               *)
CompleteClaim(s, t, status) ==
    /\ claims[s][t].status \in Unresolved
    /\ claims' = [claims EXCEPT ![s][t].status = status]
    /\ UNCHANGED <<clock, contract, stamp, jobs, anchor, handedOut>>

Operate(w) ==
    \/ \E s \in Schedule : Register(w, s) \/ Enable(w, s) \/ Disable(w, s)
    \/ MarkExpired(w)

Tick(w) == ClaimDue(w) \/ ClaimDueRaises(w)

Complete ==
    \E s \in Schedule, t \in Instant, status \in Outcome :
        CompleteClaim(s, t, status)

Next ==
    \/ Advance
    \/ \E s \in Schedule : ContractChanges(s)
    \/ \E w \in Caller : ReadClock(w) \/ Operate(w) \/ Tick(w)
    \/ Complete

Spec == Init /\ [][Next]_vars

(* The host keeps ticking.  Executors, operators and the clock may stop.   *)
Fairness == \A w \in Caller : WF_vars(ReadClock(w)) /\ SF_vars(Tick(w))

FairSpec == Spec /\ Fairness

-----------------------------------------------------------------------------
(***************************************************************************)
(* Unresolved claims block later occurrences for the same schedule: two    *)
(* occurrences of a schedule are never executed at the same time, also     *)
(* when the first one's lease expired and nobody knows its outcome.        *)
(***************************************************************************)
NoOverlap ==
    \A s \in Schedule : \A t, u \in Instant :
        claims[s][t].status \in Unresolved /\ claims[s][u].status \in Unresolved
            => t = u

(***************************************************************************)
(* Expired claims are never automatically replayed: claim_due returns an   *)
(* occurrence at most once, over all callers, restarts and rollbacks.      *)
(***************************************************************************)
HandedOutOnce ==
    \A s \in Schedule, t \in Instant :
        handedOut[s][t] = IF claims[s][t].status = "NONE" THEN 0 ELSE 1

(***************************************************************************)
(* Missed occurrences are coalesced without drift: every claim of an       *)
(* interval schedule is for a point of the grid that starts at its first   *)
(* run, however late it was claimed or enabled again.                      *)
(***************************************************************************)
OnGrid ==
    \A s \in Schedule \ Cron, t \in Instant :
        claims[s][t].status # "NONE" =>
            anchor[s] <= t /\ (t - anchor[s]) % Interval[s] = 0

(***************************************************************************)
(* A claimed occurrence is durably advanced: next_run_at of a schedule is  *)
(* beyond every occurrence that was claimed, so no tick meets the UNIQUE   *)
(* constraint.                                                             *)
(***************************************************************************)
AdvancedBeyond(s) ==
    \A t \in Instant : claims[s][t].status # "NONE" => t < jobs[s].next

IntervalsAdvance == \A s \in Schedule \ Cron : AdvancedBeyond(s)

DurablyAdvanced == \A s \in Schedule : AdvancedBeyond(s)

(***************************************************************************)
(* The inductive invariant of the proofs: a schedule without a row has no  *)
(* claims.                                                                 *)
(***************************************************************************)
NoClaimsUnregistered ==
    \A s \in Schedule, t \in Instant :
        ~jobs[s].present => claims[s][t].status = "NONE"

ClaimInvariant ==
    NoClaimsUnregistered /\ NoOverlap /\ HandedOutOnce /\ IntervalsAdvance

(***************************************************************************)
(* Progress of claim_due: a schedule that is due, under its bound contract *)
(* and without an unresolved claim of its own is claimed, disabled or      *)
(* moved, unless again and again one of two things of the other rows holds *)
(* it up: the MaxDuePerTick rows the SELECT returns before it all have an  *)
(* unresolved claim, or the tick raises over a row it would claim and      *)
(* takes back its other claims with it.  Fewer blocked rows, and rows the  *)
(* tick disables, never hold it up.                                        *)
(***************************************************************************)
Waiting(s) == s \in Due(clock) /\ Claimable(s)

WindowBlocked(s) ==
    Cardinality({u \in Due(clock) : Before(u, s) /\ HasUnresolvedClaim(u)})
        >= MaxDuePerTick

DueIsClaimed ==
    \A s \in Schedule :
        Waiting(s) ~> (~Waiting(s) \/ WindowBlocked(s) \/ TickRaises(clock))
=============================================================================
