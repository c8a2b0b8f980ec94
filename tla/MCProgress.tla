----------------------------- MODULE MCProgress -----------------------------
(***************************************************************************)
(* What must end: the launcher's handlers and its shutdown, and the router's*)
(* mutations of adapters and States. Each part is a behaviour of its own;  *)
(* Parts names those of a run.                                             *)
(***************************************************************************)
EXTENDS Launcher, TLC

CONSTANTS Parts, None

VARIABLES
  part,
  pin_proc, pin_child, pin_closing, pin_devices, pin_config, pin_mu, pin_call,
  pin_running,
  adapter_entry, adapterEpoch, adapter_call, adapter_store, adapter_late,
  adapter_faults, adapter_lost, adapter_acked, adapter_gone,
  state_entry, stateEpoch, state_call, state_store, upload, state_late,
  state_faults, state_lost, state_acked, state_gone

\* A launcher with one of its cards pinned.
Pinned == INSTANCE Launcher WITH
  Pin <- {CHOOSE n \in Cards : TRUE}, proc <- pin_proc, child <- pin_child,
  closing <- pin_closing, devices <- pin_devices, config <- pin_config,
  mu <- pin_mu, call <- pin_call, running <- pin_running
ASSUME Pinned!LauncherAssumption

pinVars ==
  <<pin_proc, pin_child, pin_closing, pin_devices, pin_config, pin_mu,
    pin_call, pin_running>>
pinOff ==
  /\ pin_proc = None /\ pin_child = None /\ pin_closing = None /\ pin_devices = None
  /\ pin_config = None /\ pin_mu = None /\ pin_call = None /\ pin_running = None

\* Adapters, with retries, listings and inference, on workers that start
\* empty or full; the versions are named like the cards.
Infer == INSTANCE AdapterReplication WITH
  Backends <- {1, 2}, Versions <- Cards, Attempts <- 2,
  InitialStores <- {{}, Cards},
  Kinds <- {"upload", "delete", "list", "infer"}, MaxOpen <- 2,
  MaxFaults <- 1, entry <- adapter_entry, call <- adapter_call,
  store <- adapter_store, late <- adapter_late, faults <- adapter_faults,
  lost <- adapter_lost, acked <- adapter_acked, gone <- adapter_gone
ASSUME Infer!ReplicationAssumption

adapterVars ==
  <<adapter_entry, adapterEpoch, adapter_call, adapter_store, adapter_late,
    adapter_faults, adapter_lost, adapter_acked, adapter_gone>>
adapterOff ==
  /\ adapter_entry = None /\ adapterEpoch = None /\ adapter_call = None
  /\ adapter_store = None /\ adapter_late = None /\ adapter_faults = None
  /\ adapter_lost = None /\ adapter_acked = None /\ adapter_gone = None

\* Uploads and deletions of one State id, with a fault.
Mutations == INSTANCE StateReplication WITH
  Backends <- {1, 2}, Signatures <- Cards, Attempts <- 2, MaxOpen <- 2,
  MaxFaults <- 1, entry <- state_entry, call <- state_call,
  store <- state_store, late <- state_late, faults <- state_faults,
  lost <- state_lost, acked <- state_acked, gone <- state_gone
ASSUME Mutations!StateAssumption

stateVars ==
  <<state_entry, stateEpoch, state_call, state_store, upload, state_late,
    state_faults, state_lost, state_acked, state_gone>>
stateOff ==
  /\ state_entry = None /\ stateEpoch = None /\ state_call = None
  /\ state_store = None /\ upload = None /\ state_late = None /\ state_faults = None
  /\ state_lost = None /\ state_acked = None /\ state_gone = None

-----------------------------------------------------------------------------
\* The behaviour is about one part; the variables of the others stay None,
\* those of Launcher as they are at first.
SuiteInit ==
  /\ part \in Parts
  /\ Init
  /\ CASE part = "pinned" -> Pinned!Init [] OTHER -> pinOff
  /\ CASE part = "infer" -> Infer!Init [] OTHER -> adapterOff
  /\ CASE part = "mutations" -> Mutations!Init [] OTHER -> stateOff

\* A launcher whose cards are not pinned.
LauncherStep ==
  /\ part = "launcher" /\ Next
  /\ UNCHANGED <<part, pinVars, adapterVars, stateVars>>

PinnedStep ==
  /\ part = "pinned" /\ Pinned!Next
  /\ UNCHANGED <<part, vars, adapterVars, stateVars>>

InferStep ==
  /\ part = "infer" /\ Infer!Next
  /\ UNCHANGED <<part, vars, pinVars, stateVars>>

MutationsStep ==
  /\ part = "mutations" /\ Mutations!Next
  /\ UNCHANGED <<part, vars, pinVars, adapterVars>>

SuiteNext ==
  \/ LauncherStep
  \/ PinnedStep
  \/ InferStep
  \/ MutationsStep

suiteVars == <<part, vars, pinVars, adapterVars, stateVars>>

\* Every attempt of the router has a deadline, so its handlers go on; so do
\* those of the launcher, whose children exit when they are killed.
SuiteFairness ==
  /\ \A c \in Threads : WF_vars(part = "launcher" /\ Handle(c))
  /\ WF_vars(part = "launcher" /\ Wait)
  /\ WF_vars(part = "launcher" /\ Exit)
  /\ \A c \in Calls : WF_adapterVars(part = "infer" /\ Infer!Handle(c))
  /\ \A c \in Calls : WF_stateVars(part = "mutations" /\ Mutations!Handle(c))

SuiteSpec == SuiteInit /\ [][SuiteNext]_suiteVars /\ SuiteFairness

-----------------------------------------------------------------------------
\* What is shown is what is: the launcher's state of a process says whether
\* there is one, a restart finds the previous one gone, and a pinned
\* launcher's children see the pinned card; a worker is offered only for
\* adapters it has or has lost by itself since (the router cannot know), and
\* what an upload acknowledged stays ready until it is deleted or so lost.
ShownIsReal ==
  /\ part = "launcher" => /\ TypeOK
                          /\ ChildHasStruct
                          /\ LockIsHeld
                          /\ StateIsTrue
                          /\ RestartAfterExit
  /\ part = "pinned" => Pinned!PinRespected
  /\ part = "infer" => /\ Infer!TypeOK
                       /\ Infer!ReadyIsReal
                       /\ Infer!AckedStaysReady

\* Every request to the launcher is answered and it exits on a signal, though
\* no child ever obeys; and neither an adapter nor a State id stays blocked:
\* whatever is lost, every mutation completes.
EveryoneEnds ==
  []<>(/\ part = "launcher" /\ running => \A c \in Threads : call[c].pc \in {"new", "done"}
       /\ part = "infer" => ~adapter_entry.busy
       /\ part = "mutations" => ~state_entry.active)
=============================================================================
