------------------------------ MODULE Launcher ------------------------------
(***************************************************************************)
(* The Launcher's supervision of its three child processes: the inference  *)
(* runtime, a tuning job and a quantization job (process and launcher in   *)
(* main.go, the handlers in api.go, the choice of cards in devices.go).    *)
(* One mutex, l.mu, serialises the handlers; a child ends on its own, is   *)
(* reaped by a goroutine of its own, and may outlive a stop that times out.*)
(***************************************************************************)
EXTENDS Naturals, Sequences, FiniteSets

CONSTANTS
  Cards,                \* the GPUs of the machine
  Pin,                  \* the cards of --card; {} without the flag
  Calls,                \* HTTP requests
  Signal                \* the goroutine that waits for SIGINT and SIGTERM

Procs == {"runtime", "tuning", "quantization"}
Threads == Calls \cup {Signal}
Nobody == "nobody"

ASSUME LauncherAssumption == Pin \subseteq Cards /\ Signal \notin Calls /\ Nobody \notin Threads

VARIABLES
  proc,                 \* the process structs
  child,                \* the operating system's processes (external)
  closing,              \* reaped launches whose done channel is still open
  devices,              \* runtimeDevices and tuningDevices
  config,               \* l.config, as far as restart and load depend on it
  mu,                   \* who holds l.mu
  call,                 \* the handler of each request, and of the signal
  running               \* the launcher itself has not exited

vars == <<proc, child, closing, devices, config, mu, call, running>>

\* visible_devices of a request: absent, the empty string, or some cards.
Absent == [given |-> FALSE, cards |-> {}]
Requests == {Absent} \cup [given : {TRUE}, cards : SUBSET Cards]

Explicit(cards) == [explicit |-> TRUE, cards |-> cards]
Unpinned == [explicit |-> FALSE, cards |-> Cards]     \* the child sees all of them

NoChild == [st |-> "none", killed |-> FALSE, ok |-> TRUE, cards |-> {}]

NewCall == [kind |-> "none", pc |-> "new", visible |-> Absent, todo |-> <<>>,
            gen |-> 0]
Returned == [NewCall EXCEPT !.pc = "done"]

Init ==
  /\ proc = [p \in Procs |-> [cmd |-> FALSE, state |-> "offline", gen |-> 0]]
  /\ child = [p \in Procs |-> NoChild]
  /\ closing = {}
  /\ devices = [p \in {"runtime", "tuning"} |-> Explicit({})]
  /\ config = [saved |-> FALSE, visible |-> Absent]
  /\ mu = Nobody
  /\ call = [c \in Threads |-> NewCall]
  /\ running = TRUE

-----------------------------------------------------------------------------

validateDeviceRequest(v) == Pin = {} \/ ~v.given \/ v.cards = Pin

\* The card with the most free VRAM is any of them, or cannot be sampled.
resolveVisibleDevices(v) ==
  IF v.given THEN {IF v.cards = {} THEN Unpinned ELSE Explicit(v.cards)}
  ELSE IF Pin # {} THEN {Explicit(Pin)}
  ELSE {Explicit({card}) : card \in Cards} \cup {Unpinned}

\* Mutant: cards that are not pinned are not compared.
devicesOverlapNamed(a, b) == a.explicit /\ b.explicit /\ a.cards \cap b.cards # {}

devicesOverlap(a, b) == ~a.explicit \/ ~b.explicit \/ a.cards \cap b.cards # {}

active(p) == proc[p].cmd

\* process.launch once cmd.Start has succeeded.
Launch(p, d) ==
  /\ proc' = [proc EXCEPT ![p] = [cmd |-> TRUE, state |-> "starting", gen |-> @.gen + 1]]
  /\ child' = [child EXCEPT ![p] = [NoChild EXCEPT !.st = "up", !.cards = d.cards]]

Failed(p) == proc' = [proc EXCEPT ![p].state = "error"]

Return(c) ==
  /\ call' = [call EXCEPT ![c] = Returned]
  /\ mu' = Nobody

-----------------------------------------------------------------------------
StartRequest(c, v) ==
  /\ running /\ mu = Nobody /\ call[c].pc = "new"
  /\ mu' = c
  /\ call' = [call EXCEPT ![c] = [@ EXCEPT !.kind = "start", !.pc = "start", !.visible = v]]
  /\ UNCHANGED <<proc, child, closing, devices, config, running>>

\* stop and restart of the runtime; restart keeps the saved choice of cards.
RuntimeRequest(c, kind) ==
  /\ running /\ mu = Nobody /\ call[c].pc = "new"
  /\ mu' = c
  /\ call' = [call EXCEPT ![c] = [@ EXCEPT !.kind = kind, !.pc = "stop",
                                   !.todo = <<"runtime">>, !.visible = config.visible]]
  /\ UNCHANGED <<proc, child, closing, devices, config, running>>

JobStopRequest(c, p) ==
  /\ running /\ mu = Nobody /\ call[c].pc = "new"
  /\ mu' = c
  /\ call' = [call EXCEPT ![c] = [@ EXCEPT !.kind = "stop", !.pc = "stop", !.todo = <<p>>]]
  /\ UNCHANGED <<proc, child, closing, devices, config, running>>

JobRequest(c, p, v) ==
  /\ running /\ mu = Nobody /\ call[c].pc = "new"
  /\ mu' = c
  /\ call' = [call EXCEPT ![c] = [@ EXCEPT !.kind = "job", !.pc = "job", !.todo = <<p>>,
                                   !.visible = v]]
  /\ UNCHANGED <<proc, child, closing, devices, config, running>>

\* runtimeLoad reads the configuration and refuses a wrong card before it stops.
LoadRequest(c, v) ==
  /\ running /\ mu = Nobody /\ call[c].pc = "new" /\ v # [given |-> TRUE, cards |-> {}]
  /\ call' = [call EXCEPT ![c] =
       IF config.saved /\ validateDeviceRequest(v)
       THEN [@ EXCEPT !.kind = "load", !.pc = "lock", !.visible = v, !.todo = <<"runtime">>]
       ELSE Returned]
  /\ UNCHANGED <<proc, child, closing, devices, config, mu, running>>

SignalArrives ==
  /\ running /\ call[Signal].pc = "new"
  /\ call' = [call EXCEPT ![Signal] =
       [@ EXCEPT !.kind = "signal", !.pc = "lock",
                 !.todo = <<"runtime", "tuning", "quantization">>]]
  /\ UNCHANGED <<proc, child, closing, devices, config, mu, running>>

LockToStop(c) ==
  /\ running /\ mu = Nobody /\ call[c].pc = "lock"
  /\ mu' = c
  /\ call' = [call EXCEPT ![c].pc = "stop"]
  /\ UNCHANGED <<proc, child, closing, devices, config, running>>

-----------------------------------------------------------------------------
\* What a handler does behind process.stop.
AfterStop(c) ==
  IF Len(call[c].todo) > 1
  THEN call' = [call EXCEPT ![c].pc = "stop", ![c].todo = Tail(@)] /\ UNCHANGED mu
  ELSE CASE call[c].kind = "stop" -> Return(c)
         [] call[c].kind = "signal" ->
              call' = [call EXCEPT ![c].pc = "exit"] /\ mu' = Nobody
         [] OTHER -> call' = [call EXCEPT ![c].pc = "start"] /\ UNCHANGED mu

\* stop(): nothing to do without a child, otherwise kill it and wait.
Stop(c) ==
  /\ running /\ call[c].pc = "stop"
  /\ LET p == Head(call[c].todo) IN
     IF ~active(p) THEN AfterStop(c) /\ UNCHANGED <<proc, child>>
     ELSE /\ proc' = [proc EXCEPT ![p].state = "stopping"]
          /\ child' = [child EXCEPT ![p].killed = TRUE]
          /\ call' = [call EXCEPT ![c].pc = "waiting", ![c].gen = proc[p].gen]
          /\ UNCHANGED mu
  /\ UNCHANGED <<closing, devices, config, running>>

DoneClosed(p, g) == ~(proc[p].cmd /\ proc[p].gen = g) /\ <<p, g>> \notin closing

StopDone(c) ==
  /\ running /\ call[c].pc = "waiting" /\ DoneClosed(Head(call[c].todo), call[c].gen)
  /\ AfterStop(c)
  /\ UNCHANGED <<proc, child, closing, devices, config, running>>

\* Mutant: the wait has no end.
AfterTimeoutStays(c) == UNCHANGED <<call, mu>>

\* The handler gives up; the signal's goroutine ignores the error.
AfterTimeout(c) == IF c = Signal THEN AfterStop(c) ELSE Return(c)

StopTimeout(c) ==
  /\ running /\ call[c].pc = "waiting" /\ ~DoneClosed(Head(call[c].todo), call[c].gen)
  /\ AfterTimeout(c)
  /\ UNCHANGED <<proc, child, closing, devices, config, running>>

-----------------------------------------------------------------------------
StartAllowed(v, d) ==
  /\ validateDeviceRequest(v)
  /\ ~(active("tuning") /\ devicesOverlap(d, devices["tuning"]))
  /\ ~active("runtime")

\* launcher.start: refused, or failing on its arguments, its port or its file
\* (runtimeAction makes that the runtime's state, runtimeLoad only if Start fails).
StartFails(c) ==
  /\ running /\ call[c].pc = "start"
  /\ \/ ~active("runtime") /\ Failed("runtime")
     \/ active("runtime") /\ UNCHANGED proc
     \/ call[c].kind = "load" /\ UNCHANGED proc
  /\ Return(c)
  /\ UNCHANGED <<child, closing, devices, config, running>>

Start(c, d) ==
  /\ running /\ call[c].pc = "start"
  /\ d \in resolveVisibleDevices(call[c].visible) /\ StartAllowed(call[c].visible, d)
  /\ Launch("runtime", d)
  /\ config' = [saved |-> TRUE, visible |-> call[c].visible]
  /\ devices' = [devices EXCEPT !["runtime"] = d]
  /\ IF call[c].kind = "load"
     THEN call' = [call EXCEPT ![c].pc = "spec"] /\ mu' = Nobody
     ELSE Return(c)
  /\ UNCHANGED <<closing, running>>

\* runtimeLoad goes on without the lock: it reads what the runtime was given,
ReadSpec(c) ==
  /\ running /\ mu = Nobody /\ call[c].pc = "spec"
  /\ call' = [call EXCEPT ![c].pc = "poll"]
  /\ UNCHANGED <<proc, child, closing, devices, config, mu, running>>

Serving == child["runtime"].st = "serving" /\ proc["runtime"].state # "stopping"

\* waits for a runtime that serves, and gives up on an error or the deadline,
PollReady(c) ==
  /\ running /\ call[c].pc = "poll"
  /\ \/ Serving /\ call' = [call EXCEPT ![c].pc = "model"]
     \/ ~Serving /\ call' = [call EXCEPT ![c] = Returned]
  /\ UNCHANGED <<proc, child, closing, devices, config, mu, running>>

\* and has the model loaded by whatever runtime serves the port.
LoadModel(c) ==
  /\ running /\ call[c].pc = "model"
  /\ call' = [call EXCEPT ![c] = Returned]
  /\ UNCHANGED <<proc, child, closing, devices, config, mu, running>>

-----------------------------------------------------------------------------
JobAllowed(p, v, d) ==
  /\ ~active(p)
  /\ p = "tuning" => /\ validateDeviceRequest(v)
                     /\ ~(active("runtime") /\ devicesOverlap(d, devices["runtime"]))

JobFails(c) ==
  /\ running /\ call[c].pc = "job"
  /\ LET p == Head(call[c].todo) IN
       \/ UNCHANGED proc
       \/ /\ \E d \in resolveVisibleDevices(call[c].visible) : JobAllowed(p, call[c].visible, d)
          /\ Failed(p)
  /\ Return(c)
  /\ UNCHANGED <<child, closing, devices, config, running>>

\* Only tuning is given cards; the quantizer runs on the CPU.
Job(c, d) ==
  /\ running /\ call[c].pc = "job"
  /\ LET p == Head(call[c].todo) IN
     /\ IF p = "tuning" THEN d \in resolveVisibleDevices(call[c].visible)
        ELSE d = Explicit({})
     /\ JobAllowed(p, call[c].visible, d)
     /\ Launch(p, d)
     /\ devices' = IF p = "tuning" THEN [devices EXCEPT ![p] = d] ELSE devices
  /\ call' = [call EXCEPT ![c].pc = "mark"]
  /\ UNCHANGED <<closing, config, mu, running>>

\* Mutant: the job is marked running although it may have ended already.
MarkedAlways(p) == [proc EXCEPT ![p].state = "running"]

Marked(p) == IF proc[p].cmd THEN [proc EXCEPT ![p].state = "running"] ELSE proc

MarkRunning(c) ==
  /\ running /\ call[c].pc = "mark"
  /\ proc' = Marked(Head(call[c].todo))
  /\ Return(c)
  /\ UNCHANGED <<child, closing, devices, config, running>>

-----------------------------------------------------------------------------
ChildServes ==
  /\ child["runtime"].st = "up" /\ ~child["runtime"].killed
  /\ child' = [child EXCEPT !["runtime"].st = "serving"]
  /\ UNCHANGED <<proc, closing, devices, config, mu, call, running>>

ChildExits(p, ok) ==
  /\ child[p].st \in {"up", "serving"} /\ (child[p].killed => ~ok)
  /\ child' = [child EXCEPT ![p] = [@ EXCEPT !.st = "exited", !.ok = ok]]
  /\ UNCHANGED <<proc, closing, devices, config, mu, call, running>>

\* The goroutine of launch: Wait, the new state, and later close(done).
Reap(p) ==
  /\ running /\ child[p].st = "exited"
  /\ proc' = [proc EXCEPT ![p] =
       [@ EXCEPT !.cmd = FALSE,
                 !.state = IF proc[p].state = "stopping" THEN "offline"
                           ELSE IF child[p].ok THEN "completed" ELSE "error"]]
  /\ child' = [child EXCEPT ![p] = NoChild]
  /\ closing' = closing \cup {<<p, proc[p].gen>>}
  /\ UNCHANGED <<devices, config, mu, call, running>>

CloseDone(p, g) ==
  /\ running /\ <<p, g>> \in closing
  /\ closing' = closing \ {<<p, g>>}
  /\ UNCHANGED <<proc, child, devices, config, mu, call, running>>

\* server.Shutdown makes Serve return, and main with it, handlers or not.
Exit ==
  /\ running /\ call[Signal].pc = "exit"
  /\ running' = FALSE
  /\ UNCHANGED <<proc, child, closing, devices, config, mu, call>>

-----------------------------------------------------------------------------
Arrive(c) ==
  \/ \E v \in Requests : StartRequest(c, v) \/ LoadRequest(c, v) \/ JobRequest(c, "tuning", v)
  \/ JobRequest(c, "quantization", Absent)
  \/ \E kind \in {"stop", "restart"} : RuntimeRequest(c, kind)
  \/ \E p \in {"tuning", "quantization"} : JobStopRequest(c, p)

Handle(c) ==
  \/ LockToStop(c) \/ Stop(c) \/ StopDone(c) \/ StopTimeout(c)
  \/ StartFails(c) \/ JobFails(c) \/ MarkRunning(c)
  \/ \E d \in {Unpinned} \cup {Explicit(s) : s \in SUBSET Cards} : Start(c, d) \/ Job(c, d)
  \/ ReadSpec(c) \/ PollReady(c) \/ LoadModel(c)

Wait == \E p \in Procs : Reap(p) \/ \E g \in 1..proc[p].gen : CloseDone(p, g)

Next ==
  \/ \E c \in Calls : Arrive(c)
  \/ SignalArrives
  \/ \E c \in Threads : Handle(c)
  \/ ChildServes
  \/ \E p \in Procs, ok \in BOOLEAN : ChildExits(p, ok)
  \/ Wait
  \/ Exit

\* Goroutines are scheduled and their timers expire; children need do nothing.
Spec ==
  /\ Init /\ [][Next]_vars
  /\ \A c \in Threads : WF_vars(Handle(c))
  /\ WF_vars(Wait) /\ WF_vars(Exit)

-----------------------------------------------------------------------------
ProcStates == {"offline", "starting", "running", "stopping", "completed", "error"}
Device == [explicit : BOOLEAN, cards : SUBSET Cards]
Handler == [kind : {"none", "start", "stop", "restart", "load", "job", "signal"},
            pc : {"new", "lock", "stop", "waiting", "start", "spec", "poll", "model", "job",
                  "mark", "exit", "done"},
            visible : Requests, todo : Seq(Procs), gen : Nat]
Locked == {"stop", "waiting", "start", "job", "mark"}   \* handlers that hold l.mu

\* Types of the launcher's fields, its children and its handlers.
TypeOK ==
  /\ proc \in [Procs -> [cmd : BOOLEAN, state : ProcStates, gen : Nat]]
  /\ child \in [Procs -> [st : {"none", "up", "serving", "exited"}, killed : BOOLEAN,
                          ok : BOOLEAN, cards : SUBSET Cards]]
  /\ closing \subseteq Procs \X Nat
  /\ devices \in [{"runtime", "tuning"} -> Device]
  /\ config \in [saved : BOOLEAN, visible : Requests]
  /\ mu \in Threads \cup {Nobody}
  /\ call \in [Threads -> Handler]
  /\ running \in BOOLEAN

Alive(p) == child[p].st \in {"up", "serving"}

\* The runtime and a tuning job never run on a common card: not when one is
\* still dying behind a stop that timed out, nor after restarts and loads that
\* resolve their cards anew (control-plane-api.md, exclusion per card).
GpuExclusive ==
  Alive("runtime") /\ Alive("tuning") =>
    child["runtime"].cards \cap child["tuning"].cards = {}

\* --card is a hard restriction: no GPU process sees another card, whatever a
\* request or a saved configuration says.
PinRespected ==
  Pin # {} => \A p \in {"runtime", "tuning"} : Alive(p) => child[p].cards = Pin

\* The state shown for a process says whether there is one, even when it ends
\* before the handler that launched it has marked it as running.
StateIsTrue ==
  \A p \in Procs :
    proc[p].cmd <=> proc[p].state \in {"starting", "running", "stopping"}

\* A process struct has a command exactly while its child exists unreaped.
ChildHasStruct == \A p \in Procs : proc[p].cmd <=> child[p].st # "none"

\* l.mu is held by exactly the handler that is past its lock.
LockIsHeld == \A c \in Threads : call[c].pc \in Locked <=> mu = c

\* A restart and a load launch the runtime only when the previous one is gone.
RestartAfterExit ==
  \A c \in Calls : call[c].kind \in {"restart", "load"} /\ call[c].pc = "start" =>
    child["runtime"].st = "none"

=============================================================================
