------------------------ MODULE MCPersistentScheduler ------------------------
(***************************************************************************)
(* Instances of PersistentScheduler for TLC: an interval schedule and a    *)
(* cron schedule, two cron schedules, or two intervals and a cron.         *)
(***************************************************************************)
EXTENDS PersistentScheduler, TLC

CONSTANTS s1, s2, s3, w1, w2

(* The callers are interchangeable. *)
MCSymmetry == Permutations(Caller)

MCRank == [s \in Schedule |-> CASE s = s1 -> 1 [] s = s2 -> 2 [] OTHER -> 3]
MCInterval == [s \in Schedule |-> IF s = s1 THEN 2 ELSE 1]
MCShortestInterval == [s \in Schedule |-> 1]

(* An expression that matches every other minute, beyond the bound too. *)
MCEveryOtherMinute == [s \in Schedule |-> {1, 3, 5}]

(* An expression like "0 0 29 2 *": after its match there is no other one *)
(* within the search horizon.                                             *)
MCMatchesOnce == [s \in Schedule |-> {1}]
=============================================================================
