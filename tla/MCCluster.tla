----------------------------- MODULE MCCluster -----------------------------
(***************************************************************************)
(* The request router: its placements of adapters and of States, and the   *)
(* load it shares out. Each part is a behaviour of its own; Parts names    *)
(* those of a run. Calls are interchangeable, and so are the versions of an*)
(* adapter and the signatures of a State.                                  *)
(***************************************************************************)
EXTENDS AdapterReplication, TLC

CONSTANTS Parts, None

VARIABLES
  part,
  state_entry, stateEpoch, state_call, state_store, upload, state_late,
  state_faults, state_lost, state_acked, state_gone,
  inflight, unhealthy, next, sessions, placed, sched_call, failures, picks

Full == {Versions}
MCBackends == 1..2
Symmetric == Permutations(Calls) \cup Permutations(Versions)

\* Uploads and deletions of one State id, with retries and two faults.
State == INSTANCE StateReplication WITH
  Backends <- {1, 2}, Signatures <- Versions, Attempts <- 2, MaxOpen <- 2,
  MaxFaults <- 2, entry <- state_entry, call <- state_call,
  store <- state_store, late <- state_late, faults <- state_faults,
  lost <- state_lost, acked <- state_acked, gone <- state_gone
ASSUME State!StateAssumption

stateVars ==
  <<state_entry, stateEpoch, state_call, state_store, upload, state_late,
    state_faults, state_lost, state_acked, state_gone>>
stateOff ==
  /\ state_entry = None /\ stateEpoch = None /\ state_call = None
  /\ state_store = None /\ upload = None /\ state_late = None /\ state_faults = None
  /\ state_lost = None /\ state_acked = None /\ state_gone = None

\* Three workers, one of twice the capacity, one of which may fail.
Scheduler == INSTANCE RouterScheduler WITH
  Backends <- {1, 2, 3}, Weight <- <<1, 2, 1>>, Sizes <- {1, 3},
  Sessions <- {"s1"}, MaxFailures <- 1, call <- sched_call
ASSUME Scheduler!SchedulerAssumption

schedVars ==
  <<inflight, unhealthy, next, sessions, placed, sched_call, failures, picks>>
schedOff ==
  /\ inflight = None /\ unhealthy = None /\ next = None /\ sessions = None
  /\ placed = None /\ sched_call = None /\ failures = None /\ picks = None

-----------------------------------------------------------------------------
\* The behaviour is about one part; the variables of the others stay None,
\* those of AdapterReplication as they are at first.
SuiteInit ==
  /\ part \in Parts
  /\ Init
  /\ CASE part = "state" -> State!Init [] OTHER -> stateOff
  /\ CASE part = "scheduler" -> Scheduler!Init [] OTHER -> schedOff

\* Uploads and deletions of adapters.
AdapterStep ==
  /\ part = "adapter" /\ Next
  /\ UNCHANGED <<part, stateVars, schedVars>>

StateStep ==
  /\ part = "state" /\ State!Next
  /\ UNCHANGED <<part, vars, schedVars>>

SchedulerStep ==
  /\ part = "scheduler" /\ Scheduler!Next
  /\ UNCHANGED <<part, vars, stateVars>>

SuiteNext ==
  \/ AdapterStep
  \/ StateStep
  \/ SchedulerStep

suiteVars == <<part, vars, stateVars, schedVars>>

SuiteSpec == SuiteInit /\ [][SuiteNext]_suiteVars

-----------------------------------------------------------------------------
\* No deletion is undone by retries, late effects or partial broadcasts: a
\* version of an adapter deleted by name is offered nowhere until it is
\* uploaded again, nor a deleted State, through lists as well; and the workers
\* offered for a State hold the bytes of its upload, which stay ready until it
\* is deleted. Lists of adapters are not in this run.
PlacementsAreTrue ==
  /\ part = "adapter" => VersionStaysDeleted
  /\ part = "state" => /\ State!TypeOK
                       /\ State!DeletionIsFinal
                       /\ State!ReplicasAgree
                       /\ State!UploadStaysReady

\* The load counted for a worker is that of the requests it serves, a request
\* goes where it is least, equals take turns, and a session stays on its
\* worker while that is healthy and placed.
LoadIsShared ==
  /\ [](part = "scheduler" => /\ Scheduler!TypeOK
                              /\ Scheduler!InflightIsReserved
                              /\ Scheduler!LeastLoaded
                              /\ Scheduler!TiesRotate)
  /\ [][part = "scheduler" => Scheduler!SessionSticksStep]_schedVars
=============================================================================
