------------------------- MODULE RuntimeWriterLease -------------------------
(***************************************************************************)
(* The durable writer lease of one (task, plan) pair                       *)
(* (runtime_writer_lease.py).  The table holds at most one row per pair;   *)
(* every mutation is one BEGIN IMMEDIATE transaction, so every operator    *)
(* below is one atomic step.                                               *)
(*                                                                         *)
(* A lease is compared by fingerprint, a digest of run, generation, issue  *)
(* time and status.  A generation is issued once, to one run, at one time, *)
(* so the generation stands for the fingerprint of an ACTIVE lease.        *)
(***************************************************************************)
EXTENDS Naturals

CONSTANTS
    Run,            \* the durable run identifiers that may own the plan
    NoRun,          \* the owner of a lease row that does not exist yet
    MaxGeneration   \* bound on the number of generations ever issued

ASSUME RunAssumption == NoRun \notin Run
ASSUME GenerationAssumption == MaxGeneration \in Nat

VARIABLE lease

LeaseStatus == {"NONE", "ACTIVE", "RELEASED"}

Lease == [run : Run \cup {NoRun}, generation : Nat, status : LeaseStatus]

LeaseInit == lease = [run |-> NoRun, generation |-> 0, status |-> "NONE"]

(***************************************************************************)
(* The run that already owns the ACTIVE row gets its own lease back, with  *)
(* the same generation: this is how a restarted run resumes.  Any other    *)
(* claim supersedes the row (ACTIVE or RELEASED) with the next generation. *)
(***************************************************************************)
Resumes(r) == lease.status = "ACTIVE" /\ lease.run = r

ClaimLease(r) ==
    IF Resumes(r)
    THEN UNCHANGED lease
    ELSE /\ lease.generation < MaxGeneration
         /\ lease' = [run |-> r, generation |-> lease.generation + 1,
                      status |-> "ACTIVE"]

(* Mutant: any ACTIVE row passes, whatever its generation.                 *)
IsCurrentWithoutGeneration(g) == lease.status = "ACTIVE"

(* require_current_in_transaction: the exact lease is the ACTIVE row.      *)
IsCurrent(g) == lease.status = "ACTIVE" /\ lease.generation = g

(* A release of a superseded generation is refused; a repeated one is a    *)
(* no-op.                                                                  *)
ReleaseLease(g) ==
    /\ lease.generation = g
    /\ lease' = [lease EXCEPT !.status = "RELEASED"]
=============================================================================
