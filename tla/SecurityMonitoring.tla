-------------------------- MODULE SecurityMonitoring --------------------------
(***************************************************************************)
(* The hourly runs and the daily report over one database, called from     *)
(* several processes, any of which may die between two steps: its locks    *)
(* stay behind.                                                            *)
(***************************************************************************)
EXTENDS DailyReporting

vars == <<hourlyVars, reportVars>>

Init == HourlyInit /\ ReportInit

\* A process is killed: by its operator, by TimeoutStartSec, by a power cut.
Crash(p) ==
    /\ ~At(p, "idle")
    /\ call' = [call EXCEPT ![p] = Idle]
    /\ UNCHANGED <<clock, enabled, lock, outlived, runs, observed, bound, begun, reportVars>>

Next ==
    \/ \E p \in Proc : HourlyStep(p) /\ UNCHANGED reportVars
    \/ \E p \in Proc : ReportStep(p)
    \/ \E p \in Proc : Crash(p)
    \/ Tick /\ UNCHANGED reportVars

Spec == Init /\ [][Next]_vars

(***************************************************************************)
(* Properties.                                                             *)
(***************************************************************************)

RunKey == Slot \X (1..MaxAttempt)

Call == [pc : {"idle", "sync", "list", "rows", "release", "unlock"}
                 \cup {"acquire"} \cup HoldsLock \cup Reporting,
         use : {"none", "hourly", "initialize", "cycle", "retry"},
         todo : Nat, sched : 0..MaxTime, started : 0..MaxTime,
         assets : SUBSET Asset, active : SUBSET Asset, left : SUBSET Asset,
         item : Asset \cup {None}, attempt : 0..(MaxAttempt + MaxArchive),
         status : {"none", "pending_nas", "archived"},
         read : [1..3 -> SUBSET RunKey]]

Run == [slot : Slot, attempt : 1..MaxAttempt, sched : 0..MaxTime, owner : Proc,
        expected : SUBSET Asset, seen : SUBSET Asset,
        status : {"collecting", "completed", "partial"}]

\* The type of the tables, the files and the calls.
TypeOK ==
    /\ clock \in 0..MaxTime
    /\ enabled \subseteq Asset
    /\ lock \in [Slot -> {None} \cup [owner : Proc, at : 0..MaxTime]]
    /\ outlived \subseteq Slot
    /\ runs \subseteq Run
    /\ observed \subseteq RunKey \X Asset /\ bound \subseteq RunKey \X Asset
    /\ call \in [Proc -> Call]
    /\ begun \in 0..MaxCalls
    /\ reportLock \in BOOLEAN
    /\ bundle \in {None} \cup [1..3 -> SUBSET RunKey]
    /\ nas \in [PeriodIndex -> {None} \cup [1..3 -> SUBSET RunKey]]
    /\ bare \in [PeriodIndex -> {None} \cup [1..3 -> SUBSET RunKey]]
    /\ archives \in [PeriodIndex -> [1..MaxArchive -> {"none", "pending_nas", "archived"}]]
    /\ reports \in [PeriodIndex -> {"none", "pending_nas", "completed"}]

Finalized == {s \in Slot : \E r \in runs : r.slot = s /\ r.status # "collecting"}
EvidenceOf(s) == {e \in observed \cup bound : e[1][1] = s}

\* The hour is left as it is: its receipt, its runs and the evidence under it.
Kept(s) == s \in Finalized' /\ RunsOf(s)' = RunsOf(s) /\ EvidenceOf(s)' = EvidenceOf(s)

\* Once an hour has a terminal receipt, no call adds or changes a run of that
\* hour or stores evidence under it: not one that waited for the lock, not one
\* that reclaimed a stale lock after a crash, and not a run of the timer however
\* long it lasts.  The one exception is an hour in which a run of the command line
\* or of the console outlived its lock: both runs then write it, since no write
\* looks at the lock (_latest_terminal_receipt, HourlyRunLockManager.acquire).
FinalizedIsFinal == [][\A s \in Finalized \ outlived : Kept(s)]_vars

\* Receipts tell the truth.  No run expects an asset that is not configured,
\* whatever rows an earlier configuration left and however the calls of
\* sync_inventory overlap; and a terminal receipt counts an asset as observed only
\* if this run's observation of it and the context of its event are stored,
\* whatever other call disabled the asset in between (EventEntityContextStore.put).
ReceiptTruthful ==
    \A r \in runs :
        /\ r.expected \subseteq Configured
        /\ r.status # "collecting" => \A a \in r.seen : <<<<r.slot, r.attempt>>, a>> \in bound

\* The windows of a bundle are nested although each is read in a transaction of
\* its own while runs are being added: no run is counted today and missing in
\* the 7 days (build_deterministic_report).
WindowsNested ==
    bundle # None => bundle[1] \subseteq bundle[2] /\ bundle[2] \subseteq bundle[3]

\* Receipts that say archived or completed are backed, now and at every later
\* time, by a copy of the bundle that is in the spool, which no cycle or retry
\* rebuilds, also when they race and the archive comes and goes.  The copy is in
\* the archive of their period or, when it was unmounted after the one test of
\* the mount, below the bare mount point only: a receipt does not tell which
\* (archive_existing_bundle, put_report, retry_pending_archive).
ReceiptsBacked ==
    \A k \in PeriodIndex :
        ("archived" \in {archives[k][n] : n \in 1..MaxArchive} \/ reports[k] = "completed")
            => bundle # None /\ bundle \in Found(k)

\* An hour that is reported as completed has seen every configured asset: what
\* was not collected shows as a gap (docs: "Data gaps are visible").
DataGapsVisible ==
    \A r \in runs : r.status = "completed" => Configured \subseteq r.seen
================================================================================
