--------------------------- MODULE HourlyMonitoring ---------------------------
(***************************************************************************)
(* The hourly security monitoring: SecurityMonitoringService.run_hourly    *)
(* and initialize, called by the timer, the command line and the console   *)
(* (security_monitoring/service.py, hourly.py, locking.py, storage.py).    *)
(*                                                                         *)
(* Every SQLite transaction is one step.  A call synchronizes the          *)
(* inventory, lists it, takes the lock of the hour, collects, stores and   *)
(* writes its receipt; it can raise or die anywhere.  Time is counted in   *)
(* ticks.  An asset stands for its collectors and what they report.        *)
(***************************************************************************)
EXTENDS Integers, Sequences, FiniteSets

CONSTANTS
    Proc,           \* processes and threads that call the services
    Asset,          \* the assets of the database
    Inventory,      \* the assets of the configuration, in its order
    Leftover,       \* the rows an earlier configuration left enabled
    HourTicks,      \* ticks of an hour
    StaleAfter,     \* HOURLY_LOCK_STALE_AFTER_SECONDS
    Timed,          \* the ones among them that the hourly timer starts
    RunCap,         \* TimeoutStartSec of the hourly service
    MaxTime,        \* bound of the clock
    MaxAttempt,     \* bound of the attempts at one hour
    MaxCalls,       \* bound of the calls
    None

Configured == {Inventory[i] : i \in DOMAIN Inventory}

ASSUME MonitoringAssumption ==
    /\ Inventory \in Seq(Asset) /\ Inventory # <<>>
    /\ Leftover \subseteq Asset
    /\ HourTicks \in Nat \ {0}
    /\ StaleAfter \in Nat /\ RunCap \in Nat /\ MaxTime \in Nat /\ MaxAttempt \in Nat /\ MaxCalls \in Nat
    /\ Timed \subseteq Proc /\ RunCap <= StaleAfter
    /\ None \notin [owner : Proc, at : 0..MaxTime]

VARIABLES
    clock,
    enabled,        \* approved_assets: the enabled rows
    lock,           \* hourly_locks: the row of each slot, or None
    outlived,       \* history: the slots whose lock was taken from a run without a
                    \* limit of time that was still at work
    runs,           \* hourly_runs
    observed,       \* observations with their event: <<<<slot, attempt>>, asset>>
    bound,          \* the ones whose entity context is stored, too
    call,           \* the call of each process
    begun           \* how many calls were made

hourlyVars == <<clock, enabled, lock, outlived, runs, observed, bound, call, begun>>

Slot == 0..(MaxTime \div HourTicks)

\* hourly_slot_key.
SlotOf(time) == time \div HourTicks

\* No call, or one that has ended.  assets are the rows list_enabled_assets
\* returned, active the ones among them that were still enabled when read, and
\* left what is still to be read or stored.
Idle == [pc |-> "idle", use |-> "none", todo |-> 0, sched |-> 0, started |-> 0,
         assets |-> {}, active |-> {}, left |-> {}, item |-> None, attempt |-> 0,
         status |-> "none", read |-> <<{}, {}, {}>>]

At(p, pc) == call[p].pc = pc
Goto(p, pc) == call' = [call EXCEPT ![p].pc = pc]
SlotIn(p) == SlotOf(call[p].sched)

\* A process with no call makes one.
Enter(p, record) ==
    /\ At(p, "idle") /\ begun < MaxCalls
    /\ begun' = begun + 1
    /\ call' = [call EXCEPT ![p] = record]

\* The finally block: all that is left of the call is its lock and its deadline.
Leave(p) == call' = [call EXCEPT ![p] =
    [Idle EXCEPT !.pc = "release", !.sched = call[p].sched, !.started = call[p].started]]

HourlyInit ==
    /\ clock = 0
    /\ enabled = Leftover
    /\ lock = [s \in Slot |-> None]
    /\ outlived = {}
    /\ runs = {}
    /\ observed = {}
    /\ bound = {}
    /\ call = [p \in Proc |-> Idle]
    /\ begun = 0

(***************************************************************************)
(* sync_inventory: all rows are disabled in one transaction, then each     *)
(* configured asset is written in one of its own.                          *)
(***************************************************************************)

AfterDisable == {}

Begin(p, use) ==
    /\ Enter(p, [Idle EXCEPT !.pc = "sync", !.use = use, !.todo = 1])
    /\ enabled' = AfterDisable
    /\ UNCHANGED <<clock, lock, outlived, runs, observed, bound>>

\* What follows an asset: the next one; after the last one the end of
\* initialize, or the hour of the run, which is read from the clock.
AfterUpsert(p) ==
    IF call[p].todo < Len(Inventory) THEN [call[p] EXCEPT !.todo = @ + 1]
    ELSE IF call[p].use = "initialize" THEN Idle
    ELSE [call[p] EXCEPT !.pc = "list", !.todo = 0, !.sched = clock]

\* upsert_asset.
Upsert(p) ==
    /\ At(p, "sync")
    /\ enabled' = enabled \cup {Inventory[call[p].todo]}
    /\ call' = [call EXCEPT ![p] = AfterUpsert(p)]
    /\ UNCHANGED <<clock, lock, outlived, runs, observed, bound, begun>>

(***************************************************************************)
(* HourlyMonitoringRunner.run.                                             *)
(***************************************************************************)

\* list_enabled_assets: the ids first, then each row.  started_at is read
\* after the last row.
ListIds(p) ==
    /\ At(p, "list")
    /\ call' = [call EXCEPT ![p].assets = enabled, ![p].left = enabled, ![p].pc = "rows"]
    /\ UNCHANGED <<clock, enabled, lock, outlived, runs, observed, bound, begun>>

ReadRow(p) ==
    /\ At(p, "rows") /\ call[p].left # {}
    /\ LET a == CHOOSE a \in call[p].left : TRUE
       IN call' = [call EXCEPT ![p].left = @ \ {a},
                               ![p].active = IF a \in enabled THEN @ \cup {a} ELSE @]
    /\ UNCHANGED <<clock, enabled, lock, outlived, runs, observed, bound, begun>>

ReadClock(p) ==
    /\ At(p, "rows") /\ call[p].left = {}
    /\ call' = [call EXCEPT ![p].started = clock, ![p].pc = "acquire"]
    /\ UNCHANGED <<clock, enabled, lock, outlived, runs, observed, bound, begun>>

\* A plausible slip: the threshold itself counts as stale.
StaleAtThreshold(age) == age >= StaleAfter

IsStale(age) == age > StaleAfter

HoldsLock == {"locked", "insert", "collect", "store", "bind"}
BeforeLock == {"sync", "list", "rows", "acquire"}

\* The lock of the slot belongs to a run without a limit of time that is at work.
OwnerAtWork(slot) ==
    /\ lock[slot] # None
    /\ \E q \in Proc \ Timed :
          q = lock[slot].owner /\ call[q].pc \in HoldsLock /\ SlotIn(q) = slot

\* HourlyRunLockManager.acquire; the age is taken against the caller's clock, and
\* nothing tells whether the owner is still at work.
Acquire(p) ==
    LET held == lock[SlotIn(p)] IN
    /\ At(p, "acquire")
    /\ IF held = None THEN TRUE ELSE IsStale(call[p].started - held.at)
    /\ outlived' = outlived \cup {s \in {SlotIn(p)} : OwnerAtWork(s)}
    /\ lock' = [lock EXCEPT ![SlotIn(p)] = [owner |-> p, at |-> call[p].started]]
    /\ Goto(p, "locked")
    /\ UNCHANGED <<clock, enabled, runs, observed, bound, begun>>

RunsOf(slot) == {r \in runs : r.slot = slot}
Attempts(slot) == {r.attempt : r \in RunsOf(slot)}
LastAttempt(slot) == CHOOSE n \in Attempts(slot) \cup {0} :
                        \A m \in Attempts(slot) : m <= n

IsTerminal(r) == r.status # "collecting"

\* _latest_terminal_receipt.
Terminal(slot) == {r \in RunsOf(slot) : r.attempt = LastAttempt(slot) /\ IsTerminal(r)}

Replay(p) ==
    /\ At(p, "locked") /\ Terminal(SlotIn(p)) # {}
    /\ Leave(p)
    /\ UNCHANGED <<clock, enabled, lock, outlived, runs, observed, bound, begun>>

\* A plausible slip: the count of the last attempt is used again.
SameNumber(slot) == LastAttempt(slot)

\* _next_attempt.
NextNumber(slot) == LastAttempt(slot) + 1

NextAttempt(p) ==
    /\ At(p, "locked") /\ Terminal(SlotIn(p)) = {}
    /\ LastAttempt(SlotIn(p)) < MaxAttempt
    /\ call' = [call EXCEPT ![p].pc = "insert", ![p].attempt = NextNumber(SlotIn(p))]
    /\ UNCHANGED <<clock, enabled, lock, outlived, runs, observed, bound, begun>>

Receipt(p, status, seen) ==
    [slot |-> SlotIn(p), attempt |-> call[p].attempt, sched |-> call[p].sched,
     owner |-> p, expected |-> call[p].assets, seen |-> seen, status |-> status]

\* The first put_hourly_receipt: (slot, attempt) is unique.
InsertReceipt(p) ==
    /\ At(p, "insert") /\ call[p].attempt \notin Attempts(SlotIn(p))
    /\ runs' = runs \cup {Receipt(p, "collecting", {})}
    /\ Goto(p, "collect")
    /\ UNCHANGED <<clock, enabled, lock, outlived, observed, bound, begun>>

\* The collectors, with their retries: the plan has no work for a row that was
\* read as disabled, and any other asset may fail.
Collect(p) ==
    /\ At(p, "collect")
    /\ \E covered \in SUBSET call[p].active :
          call' = [call EXCEPT ![p].pc = "store", ![p].active = covered, ![p].left = covered]
    /\ UNCHANGED <<clock, enabled, lock, outlived, runs, observed, bound, begun>>

Evidence(p, a) == <<<<SlotIn(p), call[p].attempt>>, a>>

\* add_observation and add_event, in the order in which the collectors ended.
StoreObservation(p) ==
    /\ At(p, "store")
    /\ \E a \in call[p].left :
          /\ observed' = observed \cup {Evidence(p, a)}
          /\ call' = [call EXCEPT ![p].pc = "bind", ![p].item = a, ![p].left = @ \ {a}]
    /\ UNCHANGED <<clock, enabled, lock, outlived, runs, bound, begun>>

\* EventEntityContextStore.put: the asset must be enabled now.
BindContext(p) ==
    /\ At(p, "bind") /\ call[p].item \in enabled
    /\ bound' = bound \cup {Evidence(p, call[p].item)}
    /\ call' = [call EXCEPT ![p].pc = "store", ![p].item = None]
    /\ UNCHANGED <<clock, enabled, lock, outlived, runs, observed, begun>>

\* A plausible slip: the receipt is written before the evidence.
FinalizesEarly(p) == At(p, "store")

MayFinalize(p) == At(p, "store") /\ call[p].left = {}

FinalStatus(p) ==
    IF call[p].assets # {} /\ call[p].active = call[p].assets THEN "completed" ELSE "partial"

\* The second put_hourly_receipt updates the row of this run.
Finalize(p) ==
    /\ MayFinalize(p)
    /\ runs' = (runs \ {Receipt(p, "collecting", {})})
                 \cup {Receipt(p, FinalStatus(p), call[p].active)}
    /\ Leave(p)
    /\ UNCHANGED <<clock, enabled, lock, outlived, observed, bound, begun>>

\* release, in the finally block: only a lock of this owner is deleted.
Release(p) ==
    /\ At(p, "release")
    /\ lock' = [lock EXCEPT ![SlotIn(p)] =
                  IF @ = None THEN None ELSE IF @.owner = p THEN None ELSE @]
    /\ call' = [call EXCEPT ![p] = Idle]
    /\ UNCHANGED <<clock, enabled, outlived, runs, observed, bound, begun>>

\* A lock that is held, a database that stays locked, a refused context or
\* receipt, a plan over its limits: the call raises, through the finally block
\* when it has the lock.
HourlyRaises(p) ==
    /\ \/ call[p].pc \in HoldsLock /\ Leave(p)
       \/ call[p].pc \in BeforeLock /\ call' = [call EXCEPT ![p] = Idle]
    /\ UNCHANGED <<clock, enabled, lock, outlived, runs, observed, bound, begun>>

HourlyStep(p) ==
    \/ Begin(p, "hourly") \/ Begin(p, "initialize")
    \/ Upsert(p) \/ ListIds(p) \/ ReadRow(p) \/ ReadClock(p)
    \/ Acquire(p) \/ Replay(p) \/ NextAttempt(p) \/ InsertReceipt(p)
    \/ Collect(p) \/ StoreObservation(p) \/ BindContext(p) \/ Finalize(p)
    \/ Release(p) \/ HourlyRaises(p)

\* The calls whose run has read its clock.
Running == {p \in Proc : call[p].pc \in HoldsLock \cup {"acquire", "release"}}

\* Time passes.  systemd stops a run of the timer that has lasted RunCap before it
\* does; a run of the command line or of the console lasts as long as it takes.
Tick ==
    /\ clock < MaxTime
    /\ \A p \in Running \cap Timed : clock - call[p].started < RunCap
    /\ clock' = clock + 1
    /\ UNCHANGED <<enabled, lock, outlived, runs, observed, bound, call, begun>>
================================================================================
