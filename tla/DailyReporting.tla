---------------------------- MODULE DailyReporting ----------------------------
(***************************************************************************)
(* The daily report over the hourly runs and its archive                   *)
(* (security_monitoring/report_orchestrator.py, reporting.py,              *)
(* nas_archive.py, report_state.py): the reporting cycle of one day under  *)
(* its lock file, and the retry of the archive, which takes no lock.       *)
(*                                                                         *)
(* A bundle is what it says: the hourly runs its three windows counted.    *)
(* Its manifest is the bundle itself.  A write into a temporary directory  *)
(* is visible when it is renamed, so it is no step.  The archive comes     *)
(* and goes at any time.  archive_existing_bundle tests the mount once;    *)
(* unmounted after that, its paths lead into the directory below the mount *)
(* point, which mkdir(parents=True) fills like the archive.                *)
(***************************************************************************)
EXTENDS HourlyMonitoring

CONSTANTS
    Period,         \* the kinds of report of the day, in order
    WindowStart,    \* where the three windows begin
    Cutoff,         \* where they end
    MaxArchive      \* max_archive_attempts_per_run

ASSUME ReportingAssumption ==
    /\ Period \in Seq(STRING) /\ Period # <<>>
    /\ WindowStart \in [1..3 -> Int] /\ Cutoff \in Nat
    /\ WindowStart[3] <= WindowStart[2] /\ WindowStart[2] <= WindowStart[1]
    /\ MaxArchive \in Nat \ {0}
    /\ None \notin [1..3 -> SUBSET (Slot \X (1..MaxAttempt))]

VARIABLES
    reportLock,     \* the lock file of the day exists
    bundle,         \* the bundle in the spool, or None
    nas,            \* the bundle archived for each period, or None
    bare,           \* the bundle below the bare mount point, or None
    archives,       \* archive_receipts: status of each period and attempt
    reports         \* report_receipts: status of each period

reportVars == <<reportLock, bundle, nas, bare, archives, reports>>

PeriodIndex == DOMAIN Period

ReportInit ==
    /\ reportLock = FALSE
    /\ bundle = None
    /\ nas = [k \in PeriodIndex |-> None]
    /\ bare = [k \in PeriodIndex |-> None]
    /\ archives = [k \in PeriodIndex |-> [n \in 1..MaxArchive |-> "none"]]
    /\ reports = [k \in PeriodIndex |-> "none"]

Cycle(p) == call[p].use = "cycle"
Archiving == {"archive", "copy", "stored"}
Unlocking == [Idle EXCEPT !.pc = "unlock"]
Reporting == {"windows", "write", "report"} \cup Archiving

\* A plausible slip: the report is built again whenever the cycle runs.
AlwaysFresh == TRUE

\* The day has no bundle yet.
Fresh == bundle = None

\* run_reporting_cycle: the lock file of the day is created exclusively, and an
\* earlier bundle is taken as it is.
OpenCycle(p) ==
    /\ Enter(p, [Idle EXCEPT !.use = "cycle", !.todo = 1, !.attempt = 1,
                             !.pc = IF Fresh THEN "windows" ELSE "archive"])
    /\ ~reportLock
    /\ reportLock' = TRUE
    /\ UNCHANGED <<clock, enabled, lock, outlived, runs, observed, bound>>
    /\ UNCHANGED <<bundle, nas, bare, archives, reports>>

\* What _window_summary counts from a start to the cutoff.
Window(start) ==
    {<<r.slot, r.attempt>> : r \in {x \in runs : start <= x.sched /\ x.sched <= Cutoff}}

\* A plausible slip: the longest window is read first.
LongestFirst(n) == 4 - n

\* build_deterministic_report reads today, 7 days and 30 days, each in a
\* transaction of its own.
WindowOrder(n) == n

\* The call after the next window is read.
AfterWindow(p) ==
    LET w == WindowOrder(call[p].todo)
    IN [call[p] EXCEPT !.read = [@ EXCEPT ![w] = Window(WindowStart[w])],
                       !.todo = IF @ = 3 THEN 1 ELSE @ + 1,
                       !.pc = IF call[p].todo = 3 THEN "write" ELSE "windows"]

ReadWindow(p) ==
    /\ At(p, "windows")
    /\ call' = [call EXCEPT ![p] = AfterWindow(p)]
    /\ UNCHANGED <<clock, enabled, lock, outlived, runs, observed, bound, begun, reportVars>>

\* write_report_bundle.
WriteBundle(p) ==
    /\ At(p, "write") /\ Fresh
    /\ bundle' = call[p].read
    /\ call' = [call EXCEPT ![p].pc = "archive", ![p].read = Idle.read]
    /\ UNCHANGED <<clock, enabled, lock, outlived, runs, observed, bound, begun>>
    /\ UNCHANGED <<reportLock, nas, bare, archives, reports>>

\* retry_pending_archive takes no lock.
Retry(p) ==
    /\ bundle # None
    /\ \E k \in PeriodIndex, n \in 1..MaxArchive :
          Enter(p, [Idle EXCEPT !.use = "retry", !.todo = k, !.attempt = n, !.pc = "archive"])
    /\ UNCHANGED <<clock, enabled, lock, outlived, runs, observed, bound, reportVars>>

(***************************************************************************)
(* archive_existing_bundle.                                                *)
(***************************************************************************)

\* Where the path of the period leads: into the archive or, once it is unmounted,
\* below the bare mount point.
Found(k) == {nas[k], bare[k]}

\* The outcome of the checks: the archive is not mounted, or the bundle is where
\* the path leads already, or it has to be copied.
CheckNas(p) ==
    LET k == call[p].todo IN
    /\ At(p, "archive")
    /\ \/ call' = [call EXCEPT ![p].pc = "stored", ![p].status = "pending_nas"]
       \/ /\ bundle # None /\ bundle \in Found(k)
          /\ call' = [call EXCEPT ![p].pc = "stored", ![p].status = "archived"]
       \/ None \in Found(k) /\ Goto(p, "copy")
    /\ UNCHANGED <<clock, enabled, lock, outlived, runs, observed, bound, begun, reportVars>>

\* The copy in the temporary directory is verified and renamed: a directory that
\* exists by now is not replaced.  Unmounted or mounted between mkdir and the
\* rename, it raises; unmounted before, it succeeds and the archive gets nothing.
CopyNas(p) ==
    LET k == call[p].todo IN
    /\ At(p, "copy")
    /\ \/ nas[k] = None /\ nas' = [nas EXCEPT ![k] = bundle] /\ UNCHANGED bare
       \/ bare[k] = None /\ bare' = [bare EXCEPT ![k] = bundle] /\ UNCHANGED nas
    /\ call' = [call EXCEPT ![p].pc = "stored", ![p].status = "archived"]
    /\ UNCHANGED <<clock, enabled, lock, outlived, runs, observed, bound, begun>>
    /\ UNCHANGED <<reportLock, bundle, archives, reports>>

\* put_archive; a retry is done with it.
PutArchive(p) ==
    /\ At(p, "stored")
    /\ archives' = [archives EXCEPT ![call[p].todo][call[p].attempt] = call[p].status]
    /\ IF Cycle(p) THEN Goto(p, "report") ELSE call' = [call EXCEPT ![p] = Idle]
    /\ UNCHANGED <<clock, enabled, lock, outlived, runs, observed, bound, begun>>
    /\ UNCHANGED <<reportLock, bundle, nas, bare, reports>>

ReportStatus(status) == IF status = "archived" THEN "completed" ELSE "pending_nas"

\* The next period, or the end of the cycle.
AfterReport(p) ==
    IF call[p].todo < Len(Period)
      THEN [call[p] EXCEPT !.todo = @ + 1, !.pc = "archive", !.status = "none"]
      ELSE Unlocking

\* put_report.
PutReport(p) ==
    /\ At(p, "report")
    /\ reports' = [reports EXCEPT ![call[p].todo] = ReportStatus(call[p].status)]
    /\ call' = [call EXCEPT ![p] = AfterReport(p)]
    /\ UNCHANGED <<clock, enabled, lock, outlived, runs, observed, bound, begun>>
    /\ UNCHANGED <<reportLock, bundle, nas, bare, archives>>

\* ReportRunLock.__exit__.
Unlock(p) ==
    /\ At(p, "unlock")
    /\ reportLock' = FALSE
    /\ call' = [call EXCEPT ![p] = Idle]
    /\ UNCHANGED <<clock, enabled, lock, outlived, runs, observed, bound, begun>>
    /\ UNCHANGED <<bundle, nas, bare, archives, reports>>

\* A query over its limit, a bundle or an archive that does not verify, a full
\* disk, a directory in the way: the cycle leaves through __exit__.
ReportRaises(p) ==
    /\ call[p].pc \in Reporting
    /\ call' = [call EXCEPT ![p] = IF Cycle(p) THEN Unlocking ELSE Idle]
    /\ UNCHANGED <<clock, enabled, lock, outlived, runs, observed, bound, begun, reportVars>>

ReportStep(p) ==
    \/ OpenCycle(p) \/ ReadWindow(p) \/ WriteBundle(p) \/ Retry(p) \/ CheckNas(p)
    \/ CopyNas(p) \/ PutArchive(p) \/ PutReport(p) \/ Unlock(p) \/ ReportRaises(p)
================================================================================
