-------------------------- MODULE ResourceAdmission --------------------------
(***************************************************************************)
(* Admission of local models to GPU memory (resource_budget.py): requests  *)
(* from several processes decide under a file lock, reserve under a second *)
(* acquisition of it, let the model server load the model, and release.    *)
(*                                                                         *)
(* A scope is one ResourceBudgetManager configuration: its reservation     *)
(* file, its admission lock, its generation lock and its model server.     *)
(* The managers of a worker pool (worker_pool.py) are scopes that share    *)
(* GPUs.  One memory pool stands for a GPU; the placement over several     *)
(* GPUs is left out, and so are the RAM, power and temperature limits,     *)
(* which can only refuse a request that memory would admit.                *)
(*                                                                         *)
(* A file lock is free when no request is where it would hold it; the      *)
(* operating system frees the locks of a process that dies.                *)
(***************************************************************************)
EXTENDS Naturals, FiniteSetsExt

CONSTANTS
    Request,        \* callers of admit, each in a process or thread
    Scope,          \* manager configurations
    ScopeOf,        \* ScopeOf[r]: the configuration caller r uses
    Model,          \* model names
    Size,           \* Size[m]: estimate_model_bytes, and what a load takes
    Capacity,       \* max_vram_percent of the GPU, in bytes
    Serialize,      \* serialize_generation
    MaxCount,       \* bound on the count of a reservation
    NoModel         \* no admit call is under way

ASSUME AdmissionAssumption ==
    /\ IsFiniteSet(Scope) /\ IsFiniteSet(Model)
    /\ ScopeOf \in [Request -> Scope]
    /\ Size \in [Model -> Nat \ {0}]
    /\ Capacity \in Nat
    /\ Serialize \in BOOLEAN
    /\ MaxCount \in Nat \ {0}
    /\ NoModel \notin Model

VARIABLES
    pc,             \* where the admit call of a request is, see Phase
    want,           \* its model
    seenUsed,       \* gpu_used_bytes of its snapshot
    estimate,       \* estimated_model_bytes of its decision
    sawLoaded,      \* its snapshot found the model loaded
    reservations,   \* the reservation file of each scope
    loaded,         \* the models resident in each scope's server
    lapsed          \* history: an entry expired under a decision, see Expire

call == <<want, seenUsed, estimate, sawLoaded>>
vars == <<pc, call, reservations, loaded, lapsed>>

Phase == {"idle",       \* no call, or waiting for the generation lock
          "queued",     \* waiting for the admission lock
          "probing",    \* holds the admission lock, GPU memory is read
          "allowed",    \* the decision is made and the lock is free again
          "running",    \* inside the with block of the caller
          "ending"}     \* in the finally block

Reservation == [bytes : Nat, count : 0..MaxCount]
NoReservation == [bytes |-> 0, count |-> 0]

TypeOK ==
    /\ pc \in [Request -> Phase]
    /\ want \in [Request -> Model \cup {NoModel}]
    /\ \A r \in Request : pc[r] # "idle" => want[r] \in Model
    /\ seenUsed \in [Request -> Nat]
    /\ estimate \in [Request -> Nat]
    /\ sawLoaded \in [Request -> BOOLEAN]
    /\ reservations \in [Scope -> [Model -> Reservation]]
    /\ \A s \in Scope, m \in Model :
         reservations[s][m].count = 0 <=> reservations[s][m].bytes = 0
    /\ loaded \in [Scope -> SUBSET Model]
    /\ lapsed \in BOOLEAN

Init ==
    /\ pc = [r \in Request |-> "idle"]
    /\ want = [r \in Request |-> NoModel]
    /\ seenUsed = [r \in Request |-> 0]
    /\ estimate = [r \in Request |-> 0]
    /\ sawLoaded = [r \in Request |-> FALSE]
    /\ reservations = [s \in Scope |-> [m \in Model |-> NoReservation]]
    /\ loaded = [s \in Scope |-> {}]
    /\ lapsed = FALSE

-----------------------------------------------------------------------------
Of(s) == {r \in Request : ScopeOf[r] = s}
GenerationFree(s) == \A r \in Of(s) : pc[r] = "idle"
AdmissionFree(s) == \A r \in Of(s) : pc[r] # "probing"

(* What nvidia-smi reports: the models of every server on the GPU.         *)
Used == SumFunction([s \in Scope |-> SumFunctionOnSet(Size, loaded[s])])

Reserved(s, m) == reservations[s][m].count > 0

(* The reserved bytes of the models that are not loaded.                   *)
ReservedBytes(s) ==
    SumFunctionOnSet([m \in Model |-> reservations[s][m].bytes], Model \ loaded[s])

CandidateBytes(r) ==
    LET s == ScopeOf[r] IN
    IF want[r] \in loaded[s] \/ Reserved(s, want[r]) THEN 0 ELSE Size[want[r]]

(* Mutant: the reservations of others are left out of the projection.      *)
FitsUnreserved(r) == seenUsed[r] + CandidateBytes(r) <= Capacity

(* _decision with _balanced_projection on one GPU.                         *)
Fits(r) ==
    /\ seenUsed[r] < Capacity
    /\ seenUsed[r] + CandidateBytes(r) + ReservedBytes(ScopeOf[r]) <= Capacity

Goto(r, phase) == pc' = [pc EXCEPT ![r] = phase]

Return(r) ==
    /\ Goto(r, "idle")
    /\ want' = [want EXCEPT ![r] = NoModel]
    /\ seenUsed' = [seenUsed EXCEPT ![r] = 0]
    /\ estimate' = [estimate EXCEPT ![r] = 0]
    /\ sawLoaded' = [sawLoaded EXCEPT ![r] = FALSE]

-----------------------------------------------------------------------------
(* admit starts: the generation lock, unless generation is not serialized. *)
Begin(r, m) ==
    /\ pc[r] = "idle"
    /\ Serialize => GenerationFree(ScopeOf[r])
    /\ want' = [want EXCEPT ![r] = m]
    /\ Goto(r, "queued")
    /\ UNCHANGED <<seenUsed, estimate, sawLoaded, reservations, loaded, lapsed>>

(* _wait_for_decision: snapshot asks the GPU first and the model server    *)
(* second; loads and unloads are not under the admission lock.             *)
Probe(r) ==
    /\ pc[r] = "queued"
    /\ AdmissionFree(ScopeOf[r])
    /\ seenUsed' = [seenUsed EXCEPT ![r] = Used]
    /\ Goto(r, "probing")
    /\ UNCHANGED <<want, estimate, sawLoaded, reservations, loaded, lapsed>>

Allow(r) ==
    /\ pc[r] = "probing"
    /\ Fits(r)
    /\ estimate' = [estimate EXCEPT ![r] = CandidateBytes(r)]
    /\ sawLoaded' = [sawLoaded EXCEPT ![r] = want[r] \in loaded[ScopeOf[r]]]
    /\ Goto(r, "allowed")
    /\ UNCHANGED <<want, seenUsed, reservations, loaded, lapsed>>

(* A busy GPU: the lock is released and the request tries again.           *)
Busy(r) ==
    /\ pc[r] = "probing"
    /\ Goto(r, "queued")
    /\ UNCHANGED <<call, reservations, loaded, lapsed>>

(* Refused: it does not fit, another limit is exceeded, the wait for a     *)
(* busy GPU timed out, or a probe failed.  The finally block still runs.   *)
Deny(r) ==
    /\ pc[r] = "probing"
    /\ Goto(r, "ending")
    /\ UNCHANGED <<call, reservations, loaded, lapsed>>

(* The reservation, under the admission lock again but decided before.     *)
Reserve(r) ==
    LET s == ScopeOf[r]
        m == want[r] IN
    /\ pc[r] = "allowed"
    /\ AdmissionFree(s)
    /\ \/ /\ sawLoaded[r]
          /\ UNCHANGED reservations
       \/ /\ ~sawLoaded[r]
          /\ Reserved(s, m)
          /\ reservations[s][m].count < MaxCount
          /\ reservations' = [reservations EXCEPT ![s][m].count = @ + 1]
       \/ /\ ~sawLoaded[r]
          /\ ~Reserved(s, m)
          /\ reservations' = [reservations EXCEPT
               ![s][m] = [bytes |-> IF estimate[r] = 0 THEN 1 ELSE estimate[r],
                          count |-> 1]]
    /\ Goto(r, "running")
    /\ UNCHANGED <<call, loaded, lapsed>>

(* The generation ends, or fails, whether or not it loaded the model.      *)
Finish(r) ==
    /\ pc[r] = "running"
    /\ Goto(r, "ending")
    /\ UNCHANGED <<call, reservations, loaded, lapsed>>

(* Mutant: the entry stays behind when its last user is gone.              *)
ReleasedKeepingBytes(x) == [bytes |-> x.bytes, count |-> x.count - 1]

Released(x) ==
    IF x.count <= 1 THEN NoReservation ELSE [x EXCEPT !.count = @ - 1]

(* The finally block takes one from the count of the model, whoever added  *)
(* it, and frees the generation lock.                                      *)
Release(r) ==
    LET s == ScopeOf[r]
        m == want[r] IN
    /\ pc[r] = "ending"
    /\ AdmissionFree(s)
    /\ IF Reserved(s, m)
       THEN reservations' = [reservations EXCEPT ![s][m] = Released(@)]
       ELSE UNCHANGED reservations
    /\ Return(r)
    /\ UNCHANGED <<loaded, lapsed>>

(* The process dies; what it reserved stays in the file.                   *)
Crash(r) ==
    /\ pc[r] # "idle"
    /\ Return(r)
    /\ UNCHANGED <<reservations, loaded, lapsed>>

-----------------------------------------------------------------------------
(* The model server loads the model of a running request, and unloads one  *)
(* that no running request uses.                                           *)
Load(r) ==
    /\ pc[r] = "running"
    /\ want[r] \notin loaded[ScopeOf[r]]
    /\ loaded' = [loaded EXCEPT ![ScopeOf[r]] = @ \cup {want[r]}]
    /\ UNCHANGED <<pc, call, reservations, lapsed>>

Unload(s, m) ==
    /\ m \in loaded[s]
    /\ \A r \in Of(s) : pc[r] = "running" => want[r] # m
    /\ loaded' = [loaded EXCEPT ![s] = @ \ {m}]
    /\ UNCHANGED <<pc, call, reservations, lapsed>>

(* The call of r is between a decision that did not find its model loaded  *)
(* and the reservation.                                                    *)
Relies(r, m) == pc[r] = "allowed" /\ want[r] = m /\ ~sawLoaded[r]

(* _read_reservations drops an entry that was not touched for its          *)
(* lifetime.  A decision that counted on the entry finds it gone, and its  *)
(* reservation writes a new one with max(1, 0) bytes.                      *)
Expire(s, m) ==
    /\ Reserved(s, m)
    /\ AdmissionFree(s)
    /\ reservations' = [reservations EXCEPT ![s][m] = NoReservation]
    /\ lapsed' = (lapsed \/ \E r \in Of(s) : Relies(r, m))
    /\ UNCHANGED <<pc, call, loaded>>

Step(r) ==
    \/ \E m \in Model : Begin(r, m)
    \/ Probe(r)
    \/ Allow(r)
    \/ Busy(r)
    \/ Deny(r)
    \/ Reserve(r)
    \/ Finish(r)
    \/ Release(r)
    \/ Crash(r)

Next ==
    \/ \E r \in Request : Step(r) \/ Load(r)
    \/ \E s \in Scope, m \in Model : Unload(s, m) \/ Expire(s, m)

Spec == Init /\ [][Next]_vars

-----------------------------------------------------------------------------
(***************************************************************************)
(* The VRAM limit is hard: the models that are resident never take more    *)
(* than the budget, however the decisions, reservations and loads of the   *)
(* requests interleave.                                                    *)
(***************************************************************************)
WithinBudget == Used <= Capacity

(***************************************************************************)
(* What is resident and what was promised to requests, the crashed ones    *)
(* included, fits together: neither a crash between reservation and load   *)
(* nor an entry that expires lets later requests be promised the same      *)
(* bytes, as long as no entry expired between a decision that counted on   *)
(* it and the reservation of that decision.                                *)
(***************************************************************************)
CommitmentsFit ==
    ~lapsed => \A s \in Scope : Used + ReservedBytes(s) <= Capacity
=============================================================================
