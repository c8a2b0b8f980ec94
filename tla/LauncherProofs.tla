---------------------------- MODULE LauncherProofs ----------------------------
(***************************************************************************)
(* Proofs about the launcher's supervision, for any cards, pinned or not,   *)
(* and any number of requests: the runtime and a tuning job never share a  *)
(* card, --card binds every GPU process, and the state shown is true.      *)
(***************************************************************************)
EXTENDS Launcher, TLAPS

(* What a handler relies on: under l.mu it finds its processes in `todo`,   *)
(* waits for the child it killed, and restarts or loads only when the      *)
(* runtime's child is gone.                                                *)
HandlerShape(h, ps, cs) ==
  /\ h.pc \in {"lock", "stop", "waiting"} => h.todo # <<>>
  /\ h.pc \in {"lock", "stop", "waiting"} /\ h.kind \in {"restart", "load"} => h.todo = <<"runtime">>
  /\ h.pc \in {"job", "mark"} => h.todo \in {<<"tuning">>, <<"quantization">>}
  /\ h.pc = "waiting" => h.gen = ps[Head(h.todo)].gen
  /\ h.pc = "start" /\ h.kind \in {"restart", "load"} => cs["runtime"].st = "none"

(* A GPU child runs on the cards noted for it, and the cards noted for two  *)
(* that run do not overlap; an unpinned one is taken to use every card.    *)
ChildUsesItsDevices ==
  \A p \in {"runtime", "tuning"} : proc[p].cmd => child[p].cards = devices[p].cards
DevicesApart ==
  proc["runtime"].cmd /\ proc["tuning"].cmd => ~devicesOverlap(devices["runtime"], devices["tuning"])

(* The inductive invariant: what holds of the processes, and of handlers.   *)
World    == ChildHasStruct /\ StateIsTrue /\ ChildUsesItsDevices /\ DevicesApart /\ PinRespected
Handlers == /\ LockIsHeld /\ \A c \in Threads : HandlerShape(call[c], proc, child)
            /\ call[Signal].kind \in {"none", "signal"}
IInv     == TypeOK /\ World /\ Handlers

-----------------------------------------------------------------------------
ChildRecord == [st : {"none", "up", "serving", "exited"}, killed : BOOLEAN, ok : BOOLEAN,
                cards : SUBSET Cards]
ProcRecord == [cmd : BOOLEAN, state : ProcStates, gen : Nat]

(* The constant records have their types.                                   *)
LEMMA RecordTypes ==
  /\ NewCall \in Handler /\ Returned \in Handler /\ Returned.pc = "done" /\ NewCall.pc = "new"
  /\ Absent \in Requests /\ Unpinned \in Device /\ NoChild \in ChildRecord
  /\ \A cards \in SUBSET Cards : Explicit(cards) \in Device
<1>1. Absent \in Requests
  BY DEF Requests
<1>2. <<>> \in Seq(Procs)
  OBVIOUS
<1>3. NewCall \in Handler /\ NewCall.pc = "new"
  BY <1>1, <1>2 DEF NewCall, Handler
<1>4. Returned \in Handler /\ Returned.pc = "done"
  BY <1>3 DEF Returned, Handler
<1>5. Unpinned \in Device /\ NoChild \in ChildRecord
  BY DEF Unpinned, Device, NoChild, ChildRecord
<1>6. \A cards \in SUBSET Cards : Explicit(cards) \in Device
  BY DEF Explicit, Device
<1> QED BY <1>1, <1>3, <1>4, <1>5, <1>6

(* The cards a request resolves to.                                        *)
LEMMA ResolvedType ==
  ASSUME NEW v \in Requests, NEW d \in resolveVisibleDevices(v)
  PROVE  d \in Device
<1>1. v.cards \in SUBSET Cards
  <2>1. CASE v = Absent
    BY <2>1 DEF Absent
  <2>2. CASE v \in [given : {TRUE}, cards : SUBSET Cards]
    BY <2>2
  <2> QED BY <2>1, <2>2 DEF Requests
<1> QED BY <1>1, RecordTypes, LauncherAssumption DEF resolveVisibleDevices

(* --card leaves one choice: a request that passed the check resolves to it. *)
LEMMA ResolvedIsPinned ==
  ASSUME NEW v \in Requests, NEW d \in resolveVisibleDevices(v), validateDeviceRequest(v), Pin # {}
  PROVE  d.cards = Pin
<1>1. CASE v.given
  <2>1. v.cards = Pin
    BY <1>1 DEF validateDeviceRequest
  <2>2. d = Explicit(v.cards)
    BY <1>1, <2>1 DEF resolveVisibleDevices
  <2> QED BY <2>1, <2>2 DEF Explicit
<1>2. CASE ~v.given
  <2>1. d = Explicit(Pin)
    BY <1>2 DEF resolveVisibleDevices
  <2> QED BY <2>1 DEF Explicit
<1> QED BY <1>1, <1>2

(* Whether two choices of cards overlap does not depend on their order.     *)
LEMMA OverlapSymmetric ==
  ASSUME NEW a, NEW b
  PROVE  devicesOverlap(a, b) <=> devicesOverlap(b, a)
  BY DEF devicesOverlap

-----------------------------------------------------------------------------
(* One handler moves under l.mu, or takes it, or gives it back.             *)
LEMMA LockedMove ==
  ASSUME IInv, NEW c \in Threads, NEW r \in Handler, call' = [call EXCEPT ![c] = r],
         mu \in {Nobody, c}, mu' = IF r.pc \in Locked THEN c ELSE Nobody,
         HandlerShape(r, proc', child'), c = Signal => r.kind \in {"none", "signal"}
  PROVE  Handlers' /\ call' \in [Threads -> Handler] /\ mu' \in Threads \cup {Nobody}
<1>1. call \in [Threads -> Handler] /\ Nobody \notin Threads
  BY LauncherAssumption DEF IInv, TypeOK
<1>2. /\ call' \in [Threads -> Handler] /\ call'[c] = r
      /\ \A e \in Threads : e # c => call'[e] = call[e]
  BY <1>1
<1>3. \A e \in Threads : e # c => call[e].pc \notin Locked
  BY <1>1 DEF IInv, Handlers, LockIsHeld
<1>4. LockIsHeld'
  BY <1>1, <1>2, <1>3 DEF LockIsHeld
<1>5. ASSUME NEW e \in Threads, e # c PROVE HandlerShape(call[e], proc, child)'
  <2>1. HandlerShape(call[e], proc, child)
    BY DEF IInv, Handlers
  <2>2. call[e].pc \notin Locked /\ call'[e] = call[e]
    BY <1>2, <1>3, <1>5
  <2> QED BY <2>1, <2>2 DEF HandlerShape, Locked
<1>6. HandlerShape(call[c], proc, child)'
  BY <1>2 DEF HandlerShape
<1>7. call'[Signal].kind \in {"none", "signal"}
  BY <1>2 DEF IInv, Handlers, Threads
<1> QED BY <1>1, <1>2, <1>4, <1>5, <1>6, <1>7 DEF Handlers

(* One handler moves without l.mu, and touches neither process nor child.   *)
LEMMA FreeMove ==
  ASSUME IInv, NEW c \in Threads, NEW r \in Handler, call' = [call EXCEPT ![c] = r],
         call[c].pc \notin Locked, r.pc \notin Locked,
         r.pc = "lock" => r.todo # <<>> /\ (r.kind \in {"restart", "load"} => r.todo = <<"runtime">>),
         c = Signal => r.kind \in {"none", "signal"}, UNCHANGED <<mu, proc, child>>
  PROVE  Handlers' /\ call' \in [Threads -> Handler]
<1>1. call \in [Threads -> Handler]
  BY DEF IInv, TypeOK
<1>2. /\ call' \in [Threads -> Handler] /\ call'[c] = r
      /\ \A e \in Threads : e # c => call'[e] = call[e]
  BY <1>1
<1>3. LockIsHeld'
  BY <1>1, <1>2 DEF IInv, Handlers, LockIsHeld
<1>4. ASSUME NEW e \in Threads, e # c PROVE HandlerShape(call[e], proc, child)'
  BY <1>2, <1>4 DEF IInv, Handlers, HandlerShape
<1>5. HandlerShape(call[c], proc, child)'
  BY <1>2 DEF HandlerShape, Locked
<1>6. call'[Signal].kind \in {"none", "signal"}
  BY <1>2 DEF IInv, Handlers, Threads
<1> QED BY <1>2, <1>3, <1>4, <1>5, <1>6 DEF Handlers

(* Nothing moves but a child or its process struct: no handler depends on   *)
(* more than generations and on the runtime's child being gone.            *)
LEMMA HandlersFrame ==
  ASSUME IInv, UNCHANGED <<call, mu>>, \A p \in Procs : proc'[p].gen = proc[p].gen,
         child["runtime"].st = "none" => child'["runtime"].st = "none"
  PROVE  Handlers'
<1>1. LockIsHeld'
  BY DEF IInv, Handlers, LockIsHeld
<1>2. ASSUME NEW c \in Threads PROVE HandlerShape(call[c], proc, child)'
  <2>1. HandlerShape(call[c], proc, child) /\ call'[c] = call[c] /\ call[c].todo \in Seq(Procs)
    BY DEF IInv, Handlers, TypeOK, Handler
  <2>2. call[c].pc = "waiting" => Head(call[c].todo) \in Procs
    BY <2>1 DEF HandlerShape
  <2> QED BY <2>1, <2>2 DEF HandlerShape
<1> QED BY <1>1, <1>2 DEF IInv, Handlers

(* Nothing about the children changes while they and their devices stay.    *)
LEMMA WorldFrame ==
  ASSUME IInv, UNCHANGED <<proc, child, devices>>
  PROVE  World'
  BY DEF IInv, World, ChildHasStruct, StateIsTrue, ChildUsesItsDevices, DevicesApart, PinRespected,
         Alive, devicesOverlap

(* process.launch: the one place where a child comes to be.                 *)
LEMMA WorldLaunch ==
  ASSUME IInv, NEW p \in Procs, NEW d \in Device, Launch(p, d), ~active(p),
         devices' = IF p \in {"runtime", "tuning"} THEN [devices EXCEPT ![p] = d] ELSE devices,
         p = "runtime" => ~(active("tuning") /\ devicesOverlap(d, devices["tuning"])),
         p = "tuning" => ~(active("runtime") /\ devicesOverlap(d, devices["runtime"])),
         p \in {"runtime", "tuning"} /\ Pin # {} => d.cards = Pin
  PROVE  /\ World' /\ proc' \in [Procs -> ProcRecord] /\ child' \in [Procs -> ChildRecord]
         /\ devices' \in [{"runtime", "tuning"} -> Device]
<1>1. /\ proc \in [Procs -> ProcRecord] /\ child \in [Procs -> ChildRecord]
      /\ devices \in [{"runtime", "tuning"} -> Device] /\ d.cards \in SUBSET Cards
  BY DEF IInv, TypeOK, ProcRecord, ChildRecord, Device
<1> DEFINE new == [NoChild EXCEPT !.st = "up", !.cards = d.cards]
<1>2. new \in ChildRecord /\ new.st = "up" /\ new.cards = d.cards
  BY <1>1, RecordTypes DEF ChildRecord
<1>3. child' = [child EXCEPT ![p] = new]
  BY DEF Launch
<1> HIDE DEF new
<1>4. /\ proc' \in [Procs -> ProcRecord] /\ proc'[p].cmd /\ proc'[p].state = "starting"
      /\ \A q \in Procs : q # p => proc'[q] = proc[q]
  BY <1>1 DEF Launch, ProcRecord, ProcStates
<1>5. /\ child' \in [Procs -> ChildRecord] /\ child'[p] = new
      /\ \A q \in Procs : q # p => child'[q] = child[q]
  BY <1>1, <1>2, <1>3
<1>6. /\ devices' \in [{"runtime", "tuning"} -> Device]
      /\ \A q \in {"runtime", "tuning"} : devices'[q] = IF q = p THEN d ELSE devices[q]
  BY <1>1
<1>7. ChildHasStruct' /\ StateIsTrue'
  BY <1>2, <1>4, <1>5 DEF IInv, World, ChildHasStruct, StateIsTrue
<1>8. ChildUsesItsDevices'
  BY <1>2, <1>4, <1>5, <1>6 DEF IInv, World, ChildUsesItsDevices, Procs
<1>9. DevicesApart'
  <2>1. CASE p = "runtime"
    BY <1>4, <1>6, <2>1 DEF DevicesApart, active, Procs, devicesOverlap
  <2>2. CASE p = "tuning"
    BY <1>4, <1>6, <2>2 DEF DevicesApart, active, Procs, devicesOverlap
  <2>3. CASE p = "quantization"
    BY <1>4, <1>6, <2>3 DEF IInv, World, DevicesApart, active, Procs, devicesOverlap
  <2> QED BY <2>1, <2>2, <2>3 DEF Procs
<1>10. PinRespected'
  BY <1>2, <1>5 DEF IInv, World, PinRespected, Alive, Procs
<1> QED BY <1>4, <1>5, <1>6, <1>7, <1>8, <1>9, <1>10 DEF World

(* A new state for a process struct that fits its having a command or not,  *)
(* and perhaps a signal to its child.                                      *)
LEMMA WorldState ==
  ASSUME IInv, NEW p \in Procs, NEW st \in ProcStates, proc' = [proc EXCEPT ![p].state = st],
         proc[p].cmd <=> st \in {"starting", "running", "stopping"},
         child' = child \/ child' = [child EXCEPT ![p].killed = TRUE], devices' = devices
  PROVE  /\ World' /\ proc' \in [Procs -> ProcRecord] /\ child' \in [Procs -> ChildRecord]
         /\ \A q \in Procs : proc'[q].gen = proc[q].gen /\ child'[q].st = child[q].st
<1>1. proc \in [Procs -> ProcRecord] /\ child \in [Procs -> ChildRecord]
  BY DEF IInv, TypeOK, ProcRecord, ChildRecord
<1>2. /\ proc' \in [Procs -> ProcRecord] /\ proc'[p].state = st
      /\ \A q \in Procs : /\ proc'[q].cmd = proc[q].cmd /\ proc'[q].gen = proc[q].gen
                          /\ q # p => proc'[q].state = proc[q].state
  BY <1>1 DEF ProcRecord
<1>3. /\ child' \in [Procs -> ChildRecord]
      /\ \A q \in Procs : child'[q].st = child[q].st /\ child'[q].cards = child[q].cards
  <2>1. CASE child' = child
    BY <1>1, <2>1
  <2>2. CASE child' = [child EXCEPT ![p].killed = TRUE]
    BY <1>1, <2>2 DEF ChildRecord
  <2> QED BY <2>1, <2>2
<1>4. World'
  <2>1. ChildHasStruct' /\ StateIsTrue'
    BY <1>2, <1>3 DEF IInv, World, ChildHasStruct, StateIsTrue
  <2>2. ChildUsesItsDevices' /\ DevicesApart'
    BY <1>2, <1>3 DEF IInv, World, ChildUsesItsDevices, DevicesApart, Procs, devicesOverlap
  <2>3. PinRespected'
    BY <1>3 DEF IInv, World, PinRespected, Alive, Procs
  <2> QED BY <2>1, <2>2, <2>3 DEF World
<1> QED BY <1>2, <1>3, <1>4

-----------------------------------------------------------------------------
(* Initially there is no child.                                             *)
LEMMA InitIInv == Init => IInv
<1> SUFFICES ASSUME Init PROVE IInv
  OBVIOUS
<1>1. TypeOK
  <2>1. proc \in [Procs -> [cmd : BOOLEAN, state : ProcStates, gen : Nat]]
    BY DEF Init, ProcStates
  <2>2. /\ child \in [Procs -> [st : {"none", "up", "serving", "exited"}, killed : BOOLEAN,
                                 ok : BOOLEAN, cards : SUBSET Cards]]
        /\ devices \in [{"runtime", "tuning"} -> Device] /\ call \in [Threads -> Handler]
        /\ config \in [saved : BOOLEAN, visible : Requests]
    BY RecordTypes DEF Init, ChildRecord
  <2> QED BY <2>1, <2>2 DEF Init, TypeOK
<1>2. World
  BY DEF Init, World, ChildHasStruct, StateIsTrue, ChildUsesItsDevices, DevicesApart, PinRespected,
         Alive, NoChild, Procs
<1>3. Handlers
  BY LauncherAssumption, RecordTypes
  DEF Init, Handlers, LockIsHeld, HandlerShape, Locked, NewCall, Threads
<1> QED BY <1>1, <1>2, <1>3 DEF IInv

-----------------------------------------------------------------------------
(* Requests that take l.mu at once.                                        *)
LEMMA ArrivalUnderLock ==
  ASSUME IInv, NEW c \in Calls,
         \/ \E v \in Requests : StartRequest(c, v) \/ JobRequest(c, "tuning", v)
         \/ JobRequest(c, "quantization", Absent)
         \/ \E kind \in {"stop", "restart"} : RuntimeRequest(c, kind)
         \/ \E p \in {"tuning", "quantization"} : JobStopRequest(c, p)
  PROVE  IInv'
<1>1. call[c] \in Handler /\ c \in Threads /\ c # Signal /\ config.visible \in Requests
  BY LauncherAssumption DEF IInv, TypeOK, Threads
<1>2. PICK r \in Handler : /\ call' = [call EXCEPT ![c] = r] /\ r.pc \in {"start", "job", "stop"}
                          /\ HandlerShape(r, proc', child')
  <2>1. CASE \E v \in Requests : StartRequest(c, v)
    <3> PICK v \in Requests : StartRequest(c, v) BY <2>1
    <3> DEFINE r == [call[c] EXCEPT !.kind = "start", !.pc = "start", !.visible = v]
    <3>1. r \in Handler /\ r.pc = "start" /\ r.kind = "start"
      BY <1>1 DEF Handler
    <3>2. call' = [call EXCEPT ![c] = r]
      BY DEF StartRequest
    <3> HIDE DEF r
    <3> QED BY <3>1, <3>2 DEF HandlerShape
  <2>2. CASE \E v \in Requests : JobRequest(c, "tuning", v) \/ JobRequest(c, "quantization", Absent)
    <3> PICK v \in Requests, p \in {"tuning", "quantization"} : JobRequest(c, p, v)
      BY <2>2, RecordTypes
    <3> DEFINE r == [call[c] EXCEPT !.kind = "job", !.pc = "job", !.todo = <<p>>, !.visible = v]
    <3>1. <<p>> \in Seq(Procs)
      BY DEF Procs
    <3>2. r \in Handler /\ r.pc = "job" /\ r.todo \in {<<"tuning">>, <<"quantization">>}
      BY <1>1, <3>1 DEF Handler
    <3>3. call' = [call EXCEPT ![c] = r]
      BY DEF JobRequest
    <3> HIDE DEF r
    <3> QED BY <3>2, <3>3 DEF HandlerShape
  <2>3. CASE \E kind \in {"stop", "restart"} : RuntimeRequest(c, kind)
    <3> PICK kind \in {"stop", "restart"} : RuntimeRequest(c, kind) BY <2>3
    <3> DEFINE r == [call[c] EXCEPT !.kind = kind, !.pc = "stop", !.todo = <<"runtime">>,
                                    !.visible = config.visible]
    <3>1. <<"runtime">> \in Seq(Procs) /\ <<"runtime">> # <<>>
      BY DEF Procs
    <3>2. r \in Handler /\ r.pc = "stop" /\ r.todo = <<"runtime">>
      BY <1>1, <3>1 DEF Handler
    <3>3. call' = [call EXCEPT ![c] = r]
      BY DEF RuntimeRequest
    <3> HIDE DEF r
    <3> QED BY <3>1, <3>2, <3>3 DEF HandlerShape
  <2>4. CASE \E p \in {"tuning", "quantization"} : JobStopRequest(c, p)
    <3> PICK p \in {"tuning", "quantization"} : JobStopRequest(c, p) BY <2>4
    <3> DEFINE r == [call[c] EXCEPT !.kind = "stop", !.pc = "stop", !.todo = <<p>>]
    <3>1. <<p>> \in Seq(Procs) /\ <<p>> # <<>>
      BY DEF Procs
    <3>2. r \in Handler /\ r.pc = "stop" /\ r.kind = "stop" /\ r.todo # <<>>
      BY <1>1, <3>1 DEF Handler
    <3>3. call' = [call EXCEPT ![c] = r]
      BY DEF JobStopRequest
    <3> HIDE DEF r
    <3> QED BY <3>2, <3>3 DEF HandlerShape
  <2> QED BY <2>1, <2>2, <2>3, <2>4, RecordTypes
<1>3. mu = Nobody /\ mu' = c /\ UNCHANGED <<proc, child, closing, devices, config, running>>
  BY DEF StartRequest, JobRequest, RuntimeRequest, JobStopRequest
<1>4. Handlers' /\ call' \in [Threads -> Handler] /\ mu' \in Threads \cup {Nobody}
  BY <1>1, <1>2, <1>3, LockedMove DEF Locked
<1>5. World'
  BY <1>3, WorldFrame
<1>6. TypeOK'
  BY <1>3, <1>4 DEF IInv, TypeOK
<1> QED BY <1>4, <1>5, <1>6 DEF IInv

(* A load that reads its configuration first, and the signal.               *)
LEMMA ArrivalWithoutLock ==
  ASSUME IInv, (\E c \in Calls, v \in Requests : LoadRequest(c, v)) \/ SignalArrives
  PROVE  IInv'
<1>1. Signal \in Threads /\ Signal \notin Calls /\ Calls \subseteq Threads
  BY LauncherAssumption DEF Threads
<1>2. PICK c \in Threads, r \in Handler :
        /\ call' = [call EXCEPT ![c] = r] /\ call[c].pc = "new" /\ r.pc \in {"lock", "done"}
        /\ r.pc = "lock" => r.todo # <<>> /\ (r.kind \in {"restart", "load"} => r.todo = <<"runtime">>)
        /\ c = Signal => r.kind \in {"none", "signal"}
  <2>1. CASE \E c \in Calls, v \in Requests : LoadRequest(c, v)
    <3> PICK c \in Calls, v \in Requests : LoadRequest(c, v) BY <2>1
    <3> DEFINE r == [call[c] EXCEPT !.kind = "load", !.pc = "lock", !.visible = v,
                                    !.todo = <<"runtime">>]
    <3>1. <<"runtime">> \in Seq(Procs) /\ <<"runtime">> # <<>> /\ c \in Threads /\ c # Signal
      BY <1>1 DEF Procs
    <3>2. call[c] \in Handler
      BY <3>1 DEF IInv, TypeOK
    <3>3. r \in Handler /\ r.pc = "lock" /\ r.todo = <<"runtime">>
      BY <3>1, <3>2 DEF Handler
    <3>4. call[c].pc = "new" /\ call' = [call EXCEPT ![c] = IF config.saved /\ validateDeviceRequest(v)
                                                           THEN r ELSE Returned]
      BY DEF LoadRequest
    <3> HIDE DEF r
    <3>5. CASE config.saved /\ validateDeviceRequest(v)
      BY <3>1, <3>3, <3>4, <3>5
    <3>6. CASE ~(config.saved /\ validateDeviceRequest(v))
      BY <3>1, <3>4, <3>6, RecordTypes
    <3> QED BY <3>5, <3>6
  <2>2. CASE SignalArrives
    <3> DEFINE todo == <<"runtime", "tuning", "quantization">>
               r == [call[Signal] EXCEPT !.kind = "signal", !.pc = "lock", !.todo = todo]
    <3>1. todo \in Seq(Procs) /\ todo # <<>>
      BY DEF Procs
    <3>2. call[Signal] \in Handler
      BY <1>1 DEF IInv, TypeOK
    <3> HIDE DEF todo
    <3>3. r \in Handler /\ r.pc = "lock" /\ r.kind = "signal" /\ r.todo # <<>>
      BY <3>1, <3>2 DEF Handler
    <3>4. call[Signal].pc = "new" /\ call' = [call EXCEPT ![Signal] = r]
      BY <2>2 DEF SignalArrives, todo
    <3> HIDE DEF r
    <3> QED BY <1>1, <3>3, <3>4
  <2> QED BY <2>1, <2>2
<1>3. UNCHANGED <<proc, child, closing, devices, config, mu, running>>
  BY DEF LoadRequest, SignalArrives
<1>4. Handlers' /\ call' \in [Threads -> Handler]
  BY <1>2, <1>3, FreeMove DEF Locked
<1>5. World'
  BY <1>3, WorldFrame
<1>6. TypeOK'
  BY <1>3, <1>4 DEF IInv, TypeOK
<1> QED BY <1>4, <1>5, <1>6 DEF IInv

(* A stop call gets the supervisor's mutex.                                 *)
LEMMA LockToStopStep ==
  ASSUME IInv, NEW c \in Threads, LockToStop(c)
  PROVE  IInv'
<1> DEFINE r == [call[c] EXCEPT !.pc = "stop"]
<1>1. /\ call[c] \in Handler /\ call \in [Threads -> Handler] /\ call[c].pc = "lock"
      /\ mu = Nobody /\ mu' = c /\ call' = [call EXCEPT ![c] = r]
      /\ UNCHANGED <<proc, child, closing, devices, config, running>>
  BY DEF LockToStop, IInv, TypeOK
<1>2. r \in Handler /\ r.pc = "stop" /\ r.todo = call[c].todo /\ r.kind = call[c].kind
  BY <1>1 DEF Handler
<1>3. HandlerShape(call[c], proc, child) /\ (c = Signal => r.kind \in {"none", "signal"})
  BY <1>2 DEF IInv, Handlers
<1> HIDE DEF r
<1>4. HandlerShape(r, proc', child')
  BY <1>1, <1>2, <1>3 DEF HandlerShape
<1>5. Handlers' /\ call' \in [Threads -> Handler] /\ mu' \in Threads \cup {Nobody}
  BY <1>1, <1>2, <1>3, <1>4, LockedMove DEF Locked
<1>6. World'
  BY <1>1, WorldFrame
<1>7. TypeOK'
  BY <1>1, <1>5 DEF IInv, TypeOK
<1> QED BY <1>5, <1>6, <1>7 DEF IInv

-----------------------------------------------------------------------------
(* A handler that is past its lock.                                        *)
LEMMA UnderLock ==
  ASSUME IInv, NEW c \in Threads, call[c].pc \in Locked
  PROVE  /\ mu = c /\ call[c] \in Handler /\ call \in [Threads -> Handler] /\ HandlerShape(call[c], proc, child)
         /\ c = Signal => call[c].kind \in {"none", "signal"}
         /\ call[c].pc \in {"stop", "waiting"} => call[c].todo # <<>> /\ Head(call[c].todo) \in Procs
<1>1. /\ mu = c /\ call[c] \in Handler /\ call \in [Threads -> Handler] /\ HandlerShape(call[c], proc, child)
      /\ c = Signal => call[c].kind \in {"none", "signal"}
  BY DEF IInv, Handlers, LockIsHeld, TypeOK
<1>2. call[c].todo \in Seq(Procs)
  BY <1>1 DEF Handler
<1>3. call[c].pc \in {"stop", "waiting"} => call[c].todo # <<>>
  BY <1>1 DEF HandlerShape
<1> QED BY <1>1, <1>2, <1>3

(* A handler returns and unlocks.                                           *)
LEMMA ReturnMoves ==
  ASSUME IInv, NEW c \in Threads, call[c].pc \in Locked, Return(c)
  PROVE  Handlers' /\ call' \in [Threads -> Handler] /\ mu' \in Threads \cup {Nobody}
<1>1. Returned \in Handler /\ Returned.pc \notin Locked /\ Returned.kind = "none"
  BY RecordTypes DEF Locked, Returned, NewCall
<1>2. HandlerShape(Returned, proc', child')
  BY RecordTypes DEF HandlerShape, Returned, NewCall
<1>3. mu = c /\ call' = [call EXCEPT ![c] = Returned] /\ mu' = Nobody
  BY UnderLock DEF Return
<1> QED BY <1>1, <1>2, <1>3, LockedMove

(* What follows a stop: the signal's next process, an answer, or the start   *)
(* of a restart or a load, for which the child must be gone.                *)
LEMMA AfterStopMoves ==
  ASSUME IInv, NEW c \in Threads, call[c].pc \in {"stop", "waiting"}, AfterStop(c),
         call[c].kind \in {"restart", "load"} => ~active("runtime"), UNCHANGED <<proc, child>>
  PROVE  Handlers' /\ call' \in [Threads -> Handler] /\ mu' \in Threads \cup {Nobody}
<1>1. /\ mu = c /\ call[c] \in Handler /\ call \in [Threads -> Handler] /\ HandlerShape(call[c], proc, child)
      /\ c = Signal => call[c].kind \in {"none", "signal"}
      /\ call[c].todo \in Seq(Procs) /\ call[c].todo # <<>>
  BY UnderLock DEF Locked, Handler
<1>2. CASE Len(call[c].todo) > 1
  <2> DEFINE r == [call[c] EXCEPT !.pc = "stop", !.todo = Tail(@)]
  <2>1. call' = [call EXCEPT ![c] = r] /\ mu' = mu
    BY <1>1, <1>2 DEF AfterStop
  <2>2. Tail(call[c].todo) \in Seq(Procs) /\ Tail(call[c].todo) # <<>>
    <3>1. \A t \in Seq(Procs) : Len(t) > 1 => Tail(t) \in Seq(Procs) /\ Tail(t) # <<>>
      OBVIOUS
    <3> QED BY <1>1, <1>2, <3>1
  <2>3. r \in Handler /\ r.pc = "stop" /\ r.todo # <<>> /\ r.kind = call[c].kind
    BY <1>1, <2>2 DEF Handler
  <2>4. call[c].kind \notin {"restart", "load"}
    <3>1. Len(<<"runtime">>) = 1
      OBVIOUS
    <3>2. call[c].kind \in {"restart", "load"} => call[c].todo = <<"runtime">>
      BY <1>1 DEF HandlerShape
    <3>3. call[c].kind \in {"restart", "load"} => Len(call[c].todo) = 1
      BY <3>1, <3>2
    <3>4. ~(1 > 1)
      OBVIOUS
    <3> QED BY <1>2, <3>3, <3>4, Zenon
  <2> HIDE DEF r
  <2>5. HandlerShape(r, proc', child')
    BY <2>3, <2>4 DEF HandlerShape
  <2> QED BY <1>1, <2>1, <2>3, <2>5, LockedMove DEF Locked
<1>3. CASE ~(Len(call[c].todo) > 1) /\ call[c].kind = "stop"
  BY <1>3, ReturnMoves DEF AfterStop, Locked
<1>4. CASE ~(Len(call[c].todo) > 1) /\ call[c].kind = "signal"
  <2> DEFINE r == [call[c] EXCEPT !.pc = "exit"]
  <2>1. call' = [call EXCEPT ![c] = r] /\ mu' = Nobody
    BY <1>1, <1>4 DEF AfterStop
  <2>2. r \in Handler /\ r.pc = "exit" /\ r.kind = "signal"
    BY <1>1, <1>4 DEF Handler
  <2> HIDE DEF r
  <2>3. HandlerShape(r, proc', child')
    BY <2>2 DEF HandlerShape
  <2> QED BY <1>1, <2>1, <2>2, <2>3, LockedMove DEF Locked
<1>5. CASE ~(Len(call[c].todo) > 1) /\ call[c].kind \notin {"stop", "signal"}
  <2> DEFINE r == [call[c] EXCEPT !.pc = "start"]
  <2>1. call' = [call EXCEPT ![c] = r] /\ mu' = c
    BY <1>1, <1>5 DEF AfterStop
  <2>2. r \in Handler /\ r.pc = "start" /\ r.kind = call[c].kind
    BY <1>1 DEF Handler
  <2>3. r.kind \in {"restart", "load"} => child'["runtime"].st = "none"
    BY <2>2 DEF IInv, World, ChildHasStruct, active, Procs
  <2> HIDE DEF r
  <2>4. HandlerShape(r, proc', child')
    BY <2>2, <2>3 DEF HandlerShape
  <2> QED BY <1>1, <2>1, <2>2, <2>4, LockedMove DEF Locked
<1> QED BY <1>2, <1>3, <1>4, <1>5

(* stop(): the struct keeps its command while the child is killed.          *)
LEMMA StopStep ==
  ASSUME IInv, NEW c \in Threads, Stop(c)
  PROVE  IInv'
<1> DEFINE p == Head(call[c].todo)
<1>1. /\ call[c].pc = "stop" /\ mu = c /\ call[c] \in Handler /\ call \in [Threads -> Handler]
      /\ HandlerShape(call[c], proc, child) /\ p \in Procs /\ call[c].todo # <<>>
      /\ c = Signal => call[c].kind \in {"none", "signal"}
      /\ UNCHANGED <<closing, devices, config, running>>
  BY UnderLock DEF Stop, Locked
<1>2. CASE ~active(p)
  <2>1. AfterStop(c) /\ UNCHANGED <<proc, child>>
    BY <1>2 DEF Stop
  <2>2. call[c].kind \in {"restart", "load"} => ~active("runtime")
    <3>1. Head(<<"runtime">>) = "runtime"
      OBVIOUS
    <3> QED BY <1>1, <1>2, <3>1 DEF HandlerShape
  <2>3. Handlers' /\ call' \in [Threads -> Handler] /\ mu' \in Threads \cup {Nobody}
    BY <1>1, <2>1, <2>2, AfterStopMoves
  <2>4. World'
    BY <1>1, <2>1, WorldFrame
  <2>5. TypeOK'
    BY <1>1, <2>1, <2>3 DEF IInv, TypeOK
  <2> QED BY <2>3, <2>4, <2>5 DEF IInv
<1>3. CASE active(p)
  <2> DEFINE r == [call[c] EXCEPT !.pc = "waiting", !.gen = proc[p].gen]
  <2>1. /\ proc' = [proc EXCEPT ![p].state = "stopping"]
        /\ child' = [child EXCEPT ![p].killed = TRUE]
        /\ call' = [call EXCEPT ![c] = r] /\ mu' = c
    BY <1>1, <1>3 DEF Stop
  <2>2. proc[p].gen \in Nat
    BY <1>1 DEF IInv, TypeOK
  <2>3. /\ r \in Handler /\ r.pc = "waiting" /\ r.gen = proc[p].gen /\ r.todo = call[c].todo
        /\ r.kind = call[c].kind
    BY <1>1, <2>2 DEF Handler
  <2>4. /\ World' /\ proc' \in [Procs -> ProcRecord] /\ child' \in [Procs -> ChildRecord]
        /\ \A q \in Procs : proc'[q].gen = proc[q].gen
    <3>1. "stopping" \in ProcStates /\ proc[p].cmd
      BY <1>3 DEF active, ProcStates
    <3> HIDE DEF p
    <3> QED BY <1>1, <2>1, <3>1, WorldState
  <2> HIDE DEF r
  <2>5. HandlerShape(r, proc', child')
    BY <1>1, <2>3, <2>4 DEF HandlerShape
  <2>6. Handlers' /\ call' \in [Threads -> Handler] /\ mu' \in Threads \cup {Nobody}
    BY <1>1, <2>1, <2>3, <2>5, LockedMove DEF Locked
  <2>7. TypeOK'
    BY <1>1, <2>4, <2>6 DEF IInv, TypeOK, ProcRecord, ChildRecord
  <2> QED BY <2>4, <2>6, <2>7 DEF IInv
<1> QED BY <1>2, <1>3

(* The wait ends with the channel's closing: no other handler has launched   *)
(* the process meanwhile, so a closed channel means that it has no child.   *)
LEMMA StopDoneStep ==
  ASSUME IInv, NEW c \in Threads, StopDone(c)
  PROVE  IInv'
<1>1. /\ call[c].pc = "waiting" /\ HandlerShape(call[c], proc, child) /\ AfterStop(c)
      /\ DoneClosed(Head(call[c].todo), call[c].gen)
      /\ UNCHANGED <<proc, child, closing, devices, config, running>>
  BY UnderLock DEF StopDone, Locked
<1>2. call[c].kind \in {"restart", "load"} => ~active("runtime")
  <2>1. Head(<<"runtime">>) = "runtime"
    OBVIOUS
  <2> QED BY <1>1, <2>1 DEF HandlerShape, DoneClosed, active
<1>3. Handlers' /\ call' \in [Threads -> Handler] /\ mu' \in Threads \cup {Nobody}
  BY <1>1, <1>2, AfterStopMoves
<1>4. World'
  BY <1>1, WorldFrame
<1>5. TypeOK'
  BY <1>1, <1>3 DEF IInv, TypeOK
<1> QED BY <1>3, <1>4, <1>5 DEF IInv

(* After the timeout only the signal goes on, and it starts nothing.        *)
LEMMA StopTimeoutStep ==
  ASSUME IInv, NEW c \in Threads, StopTimeout(c)
  PROVE  IInv'
<1>1. /\ call[c].pc = "waiting" /\ AfterTimeout(c)
      /\ UNCHANGED <<proc, child, closing, devices, config, running>>
      /\ c = Signal => call[c].kind \in {"none", "signal"}
  BY UnderLock DEF StopTimeout, Locked
<1>2. Handlers' /\ call' \in [Threads -> Handler] /\ mu' \in Threads \cup {Nobody}
  <2>1. CASE c = Signal
    BY <1>1, <2>1, AfterStopMoves DEF AfterTimeout
  <2>2. CASE c # Signal
    BY <1>1, <2>2, ReturnMoves DEF AfterTimeout, Locked
  <2> QED BY <2>1, <2>2
<1>3. World'
  BY <1>1, WorldFrame
<1>4. TypeOK'
  BY <1>1, <1>2 DEF IInv, TypeOK
<1> QED BY <1>2, <1>3, <1>4 DEF IInv

-----------------------------------------------------------------------------
(* start: refused or failing, the runtime is not running and may be shown   *)
(* in error.                                                               *)
LEMMA StartFailsStep ==
  ASSUME IInv, NEW c \in Threads, StartFails(c)
  PROVE  IInv'
<1>1. /\ call[c].pc \in Locked /\ Return(c) /\ UNCHANGED <<child, closing, devices, config, running>>
      /\ proc' = proc \/ (~active("runtime") /\ Failed("runtime"))
  BY DEF StartFails, Locked
<1>2. Handlers' /\ call' \in [Threads -> Handler] /\ mu' \in Threads \cup {Nobody}
  BY <1>1, ReturnMoves
<1>3. World' /\ proc' \in [Procs -> ProcRecord]
  <2>1. CASE proc' = proc
    BY <1>1, <2>1, WorldFrame DEF IInv, TypeOK, ProcRecord
  <2>2. CASE ~active("runtime") /\ Failed("runtime")
    <3>1. /\ "runtime" \in Procs /\ "error" \in ProcStates /\ ~proc["runtime"].cmd
          /\ proc' = [proc EXCEPT !["runtime"].state = "error"]
      BY <2>2 DEF active, Failed, Procs, ProcStates
    <3> QED BY <1>1, <3>1, WorldState
  <2> QED BY <1>1, <2>1, <2>2
<1>4. TypeOK'
  BY <1>1, <1>2, <1>3 DEF IInv, TypeOK, ProcRecord
<1> QED BY <1>2, <1>3, <1>4 DEF IInv

(* start: the runtime is launched on cards that a tuning job does not use.   *)
LEMMA StartStep ==
  ASSUME IInv, NEW c \in Threads, NEW d, Start(c, d)
  PROVE  IInv'
<1>1. /\ call[c].pc = "start" /\ mu = c /\ call[c] \in Handler
      /\ call \in [Threads -> Handler]
      /\ c = Signal => call[c].kind \in {"none", "signal"}
      /\ UNCHANGED <<closing, running>>
  BY UnderLock DEF Start, Locked
<1>2. call[c].visible \in Requests /\ config' \in [saved : BOOLEAN, visible : Requests]
  <2>1. call[c].visible \in Requests
    BY <1>1 DEF Handler
  <2> QED BY <2>1 DEF Start
<1>3. /\ d \in resolveVisibleDevices(call[c].visible) /\ StartAllowed(call[c].visible, d)
      /\ Launch("runtime", d) /\ devices' = [devices EXCEPT !["runtime"] = d]
  BY DEF Start
<1>4. d \in Device /\ (Pin # {} => d.cards = Pin)
  BY <1>2, <1>3, ResolvedType, ResolvedIsPinned DEF StartAllowed
<1>5. /\ World' /\ proc' \in [Procs -> ProcRecord] /\ child' \in [Procs -> ChildRecord]
      /\ devices' \in [{"runtime", "tuning"} -> Device]
  <2>1. ~active("runtime") /\ ~(active("tuning") /\ devicesOverlap(d, devices["tuning"]))
    BY <1>3 DEF StartAllowed
  <2>2. "runtime" \in Procs
    BY DEF Procs
  <2> QED BY <1>3, <1>4, <2>1, <2>2, WorldLaunch
<1>6. Handlers' /\ call' \in [Threads -> Handler] /\ mu' \in Threads \cup {Nobody}
  <2>1. CASE call[c].kind = "load"
    <3> DEFINE r == [call[c] EXCEPT !.pc = "spec"]
    <3>1. call' = [call EXCEPT ![c] = r] /\ mu' = Nobody
      BY <1>1, <2>1 DEF Start
    <3>2. r \in Handler /\ r.pc = "spec" /\ r.kind = call[c].kind
      BY <1>1 DEF Handler
    <3> HIDE DEF r
    <3>3. HandlerShape(r, proc', child')
      BY <3>2 DEF HandlerShape
    <3> QED BY <1>1, <3>1, <3>2, <3>3, LockedMove DEF Locked
  <2>2. CASE call[c].kind # "load"
    BY <1>1, <2>2, ReturnMoves DEF Start, Locked
  <2> QED BY <2>1, <2>2
<1>7. TypeOK'
  BY <1>1, <1>2, <1>5, <1>6 DEF IInv, TypeOK, ProcRecord, ChildRecord
<1> QED BY <1>5, <1>6, <1>7 DEF IInv

(* A load goes on without l.mu.                                            *)
LEMMA LoadSteps ==
  ASSUME IInv, NEW c \in Threads, ReadSpec(c) \/ PollReady(c) \/ LoadModel(c)
  PROVE  IInv'
<1>1. call \in [Threads -> Handler] /\ call[c] \in Handler
      /\ (c = Signal => call[c].kind \in {"none", "signal"})
  BY DEF IInv, TypeOK, Handlers
<1>2. PICK r \in Handler :
        /\ call' = [call EXCEPT ![c] = r] /\ r.pc \in {"poll", "model", "done"}
        /\ r.kind \in {call[c].kind, "none"}
  <2>1. ASSUME NEW pc \in {"poll", "model"}, call' = [call EXCEPT ![c].pc = pc]
        PROVE  \E r \in Handler : /\ call' = [call EXCEPT ![c] = r] /\ r.pc \in {"poll", "model", "done"}
                                  /\ r.kind \in {call[c].kind, "none"}
    <3> DEFINE r == [call[c] EXCEPT !.pc = pc]
    <3>1. r \in Handler /\ r.pc = pc /\ r.kind = call[c].kind
      BY <1>1 DEF Handler
    <3>2. call' = [call EXCEPT ![c] = r]
      BY <1>1, <2>1
    <3> HIDE DEF r
    <3> QED BY <3>1, <3>2
  <2>2. CASE call' = [call EXCEPT ![c] = Returned]
    <3>1. Returned \in Handler /\ Returned.pc = "done" /\ Returned.kind = "none"
      BY RecordTypes DEF Returned, NewCall
    <3> QED BY <2>2, <3>1
  <2>3. \/ call' = [call EXCEPT ![c].pc = "poll"] \/ call' = [call EXCEPT ![c].pc = "model"]
        \/ call' = [call EXCEPT ![c] = Returned]
    BY DEF ReadSpec, PollReady, LoadModel
  <2> QED BY <2>1, <2>2, <2>3
<1>3. /\ call[c].pc \in {"spec", "poll", "model"}
      /\ UNCHANGED <<proc, child, closing, devices, config, mu, running>>
  BY DEF ReadSpec, PollReady, LoadModel
<1>4. Handlers' /\ call' \in [Threads -> Handler]
  BY <1>1, <1>2, <1>3, FreeMove DEF Locked
<1>5. World'
  BY <1>3, WorldFrame
<1>6. TypeOK'
  BY <1>3, <1>4 DEF IInv, TypeOK
<1> QED BY <1>4, <1>5, <1>6 DEF IInv

-----------------------------------------------------------------------------
(* A job's handler has one process, and it is no runtime.                   *)
LEMMA JobProcess ==
  ASSUME IInv, NEW c \in Threads, call[c].pc \in {"job", "mark"}
  PROVE  Head(call[c].todo) \in {"tuning", "quantization"}
<1>1. call[c].todo = <<"tuning">> \/ call[c].todo = <<"quantization">>
  BY UnderLock DEF HandlerShape, Locked
<1>2. Head(<<"tuning">>) = "tuning" /\ Head(<<"quantization">>) = "quantization"
  OBVIOUS
<1> QED BY <1>1, <1>2

(* A start job fails.                                                       *)
LEMMA JobFailsStep ==
  ASSUME IInv, NEW c \in Threads, JobFails(c)
  PROVE  IInv'
<1> DEFINE p == Head(call[c].todo)
<1>1. /\ call[c].pc = "job" /\ Return(c) /\ UNCHANGED <<child, closing, devices, config, running>>
      /\ proc' = proc \/ (~active(p) /\ Failed(p))
  BY DEF JobFails, JobAllowed
<1>2. p \in Procs
  BY <1>1, JobProcess DEF Procs
<1> HIDE DEF p
<1>3. Handlers' /\ call' \in [Threads -> Handler] /\ mu' \in Threads \cup {Nobody}
  BY <1>1, ReturnMoves DEF Locked
<1>4. World' /\ proc' \in [Procs -> ProcRecord]
  <2>1. CASE proc' = proc
    BY <1>1, <2>1, WorldFrame DEF IInv, TypeOK, ProcRecord
  <2>2. CASE ~active(p) /\ Failed(p)
    <3>1. "error" \in ProcStates /\ ~proc[p].cmd /\ proc' = [proc EXCEPT ![p].state = "error"]
      BY <2>2 DEF active, Failed, ProcStates
    <3> QED BY <1>1, <1>2, <3>1, WorldState
  <2> QED BY <1>1, <2>1, <2>2
<1>5. TypeOK'
  BY <1>1, <1>3, <1>4 DEF IInv, TypeOK, ProcRecord
<1> QED BY <1>3, <1>4, <1>5 DEF IInv

(* A tuning job is launched on cards that the runtime does not use; a        *)
(* quantization job is given none.                                         *)
LEMMA JobStep ==
  ASSUME IInv, NEW c \in Threads, NEW d, Job(c, d)
  PROVE  IInv'
<1> DEFINE p == Head(call[c].todo)
           r == [call[c] EXCEPT !.pc = "mark"]
<1>1. /\ call[c].pc = "job" /\ mu = c /\ mu' = mu /\ call[c] \in Handler
      /\ call \in [Threads -> Handler] /\ HandlerShape(call[c], proc, child)
      /\ c = Signal => call[c].kind \in {"none", "signal"}
      /\ call' = [call EXCEPT ![c] = r] /\ UNCHANGED <<closing, config, running>>
  BY UnderLock DEF Job, Locked
<1>2. p \in {"tuning", "quantization"} /\ p \in Procs
  BY <1>1, JobProcess DEF Procs
<1>3. /\ IF p = "tuning" THEN d \in resolveVisibleDevices(call[c].visible) ELSE d = Explicit({})
      /\ JobAllowed(p, call[c].visible, d) /\ Launch(p, d)
      /\ devices' = IF p = "tuning" THEN [devices EXCEPT ![p] = d] ELSE devices
  BY DEF Job
<1>4. r \in Handler /\ r.pc = "mark" /\ r.kind = call[c].kind /\ r.todo = call[c].todo
  BY <1>1 DEF Handler
<1> HIDE DEF p, r
<1>5. d \in Device /\ (p = "tuning" /\ Pin # {} => d.cards = Pin)
  <2>1. call[c].visible \in Requests /\ {} \in SUBSET Cards
    BY <1>1 DEF Handler
  <2>2. CASE p = "tuning"
    BY <1>3, <2>1, <2>2, ResolvedType, ResolvedIsPinned DEF JobAllowed
  <2>3. CASE p # "tuning"
    BY <1>3, <2>1, <2>3, RecordTypes
  <2> QED BY <2>2, <2>3
<1>6. /\ World' /\ proc' \in [Procs -> ProcRecord] /\ child' \in [Procs -> ChildRecord]
      /\ devices' \in [{"runtime", "tuning"} -> Device]
  <2>1. /\ ~active(p)
        /\ p = "tuning" => ~(active("runtime") /\ devicesOverlap(d, devices["runtime"]))
    BY <1>3 DEF JobAllowed
  <2>2. devices' = IF p \in {"runtime", "tuning"} THEN [devices EXCEPT ![p] = d] ELSE devices
    BY <1>2, <1>3
  <2> QED BY <1>2, <1>3, <1>5, <2>1, <2>2, WorldLaunch
<1>7. HandlerShape(r, proc', child')
  BY <1>1, <1>4 DEF HandlerShape
<1>8. Handlers' /\ call' \in [Threads -> Handler] /\ mu' \in Threads \cup {Nobody}
  BY <1>1, <1>4, <1>7, LockedMove DEF Locked
<1>9. TypeOK'
  BY <1>1, <1>6, <1>8 DEF IInv, TypeOK, ProcRecord, ChildRecord
<1> QED BY <1>6, <1>8, <1>9 DEF IInv

(* The handler marks its job as running only if it has not ended meanwhile.  *)
LEMMA MarkRunningStep ==
  ASSUME IInv, NEW c \in Threads, MarkRunning(c)
  PROVE  IInv'
<1> DEFINE p == Head(call[c].todo)
<1>1. /\ call[c].pc = "mark" /\ Return(c) /\ UNCHANGED <<child, closing, devices, config, running>>
      /\ proc' = Marked(p)
  BY DEF MarkRunning
<1>2. p \in Procs
  BY <1>1, JobProcess DEF Procs
<1> HIDE DEF p
<1>3. Handlers' /\ call' \in [Threads -> Handler] /\ mu' \in Threads \cup {Nobody}
  BY <1>1, ReturnMoves DEF Locked
<1>4. World' /\ proc' \in [Procs -> ProcRecord]
  <2>1. CASE ~proc[p].cmd
    BY <1>1, <2>1, WorldFrame DEF Marked, IInv, TypeOK, ProcRecord
  <2>2. CASE proc[p].cmd
    <3>1. "running" \in ProcStates /\ proc' = [proc EXCEPT ![p].state = "running"]
      BY <1>1, <2>2 DEF Marked, ProcStates
    <3> QED BY <1>1, <1>2, <2>2, <3>1, WorldState
  <2> QED BY <2>1, <2>2
<1>5. TypeOK'
  BY <1>1, <1>3, <1>4 DEF IInv, TypeOK, ProcRecord
<1> QED BY <1>3, <1>4, <1>5 DEF IInv

-----------------------------------------------------------------------------
(* A child begins to serve or ends; its struct notices only when it is      *)
(* reaped.                                                                 *)
LEMMA ChildSteps ==
  ASSUME IInv, ChildServes \/ \E p \in Procs, ok \in BOOLEAN : ChildExits(p, ok)
  PROVE  IInv'
<1>1. child \in [Procs -> ChildRecord] /\ UNCHANGED <<proc, closing, devices, config, mu, call, running>>
  BY DEF IInv, TypeOK, ChildRecord, ChildServes, ChildExits
<1>2. /\ child' \in [Procs -> ChildRecord]
      /\ \A q \in Procs : /\ child'[q].cards = child[q].cards
                          /\ child'[q].st = "none" <=> child[q].st = "none"
                          /\ child'[q].st \in {"up", "serving"} => child[q].st \in {"up", "serving"}
  <2>1. CASE ChildServes
    <3>1. "runtime" \in Procs /\ child["runtime"].st = "up"
          /\ child' = [child EXCEPT !["runtime"].st = "serving"]
      BY <2>1 DEF ChildServes, Procs
    <3> QED BY <1>1, <3>1 DEF ChildRecord
  <2>2. CASE \E p \in Procs, ok \in BOOLEAN : ChildExits(p, ok)
    <3> PICK p \in Procs, ok \in BOOLEAN : ChildExits(p, ok) BY <2>2
    <3> DEFINE ended == [child[p] EXCEPT !.st = "exited", !.ok = ok]
    <3>1. /\ child[p] \in ChildRecord /\ child[p].st \in {"up", "serving"}
          /\ child' = [child EXCEPT ![p] = ended]
      BY <1>1 DEF ChildExits
    <3>2. ended \in ChildRecord /\ ended.st = "exited" /\ ended.cards = child[p].cards
      BY <3>1 DEF ChildRecord
    <3> HIDE DEF ended
    <3> QED BY <1>1, <3>1, <3>2
  <2> QED BY <2>1, <2>2
<1>3. World'
  <2>1. ChildHasStruct' /\ StateIsTrue'
    BY <1>1, <1>2 DEF IInv, World, ChildHasStruct, StateIsTrue
  <2>2. ChildUsesItsDevices' /\ DevicesApart'
    BY <1>1, <1>2 DEF IInv, World, ChildUsesItsDevices, DevicesApart, Procs, devicesOverlap
  <2>3. PinRespected'
    BY <1>2 DEF IInv, World, PinRespected, Alive, Procs
  <2> QED BY <2>1, <2>2, <2>3 DEF World
<1>4. Handlers'
  BY <1>1, <1>2, HandlersFrame DEF Procs
<1>5. TypeOK'
  BY <1>1, <1>2 DEF IInv, TypeOK, ChildRecord
<1> QED BY <1>3, <1>4, <1>5 DEF IInv

(* The goroutine of launch: child and command go together.                  *)
LEMMA ReapStep ==
  ASSUME IInv, NEW p \in Procs, Reap(p)
  PROVE  IInv'
<1> DEFINE st == IF proc[p].state = "stopping" THEN "offline"
                 ELSE IF child[p].ok THEN "completed" ELSE "error"
           reaped == [proc[p] EXCEPT !.cmd = FALSE, !.state = st]
<1>1. /\ proc \in [Procs -> ProcRecord] /\ child \in [Procs -> ChildRecord]
      /\ closing \subseteq Procs \X Nat /\ proc[p] \in ProcRecord
  BY DEF IInv, TypeOK, ProcRecord, ChildRecord
<1>2. /\ proc' = [proc EXCEPT ![p] = reaped] /\ child' = [child EXCEPT ![p] = NoChild]
      /\ closing' = closing \cup {<<p, proc[p].gen>>}
      /\ UNCHANGED <<devices, config, mu, call, running>>
  <2>1. proc' = [proc EXCEPT ![p] = reaped]
    BY <1>1 DEF Reap
  <2> QED BY <2>1 DEF Reap
<1>3. st \in {"offline", "completed", "error"}
  OBVIOUS
<1> HIDE DEF st
<1>4. /\ reaped \in ProcRecord /\ ~reaped.cmd /\ reaped.state = st /\ reaped.gen = proc[p].gen
      /\ proc[p].gen \in Nat
  BY <1>1, <1>3 DEF ProcRecord, ProcStates
<1>5. NoChild \in ChildRecord /\ NoChild.st = "none"
  BY RecordTypes DEF NoChild
<1> HIDE DEF reaped
<1>6. /\ proc' \in [Procs -> ProcRecord] /\ proc'[p] = reaped
      /\ child' \in [Procs -> ChildRecord] /\ child'[p] = NoChild
      /\ \A q \in Procs : q # p => proc'[q] = proc[q] /\ child'[q] = child[q]
  BY <1>1, <1>2, <1>4, <1>5
<1>7. World'
  <2>1. ChildHasStruct'
    BY <1>4, <1>5, <1>6 DEF IInv, World, ChildHasStruct
  <2>2. StateIsTrue'
    BY <1>3, <1>4, <1>6 DEF IInv, World, StateIsTrue
  <2>3. ChildUsesItsDevices' /\ DevicesApart'
    BY <1>2, <1>4, <1>6 DEF IInv, World, ChildUsesItsDevices, DevicesApart, Procs, devicesOverlap
  <2>4. PinRespected'
    BY <1>5, <1>6 DEF IInv, World, PinRespected, Alive, Procs
  <2> QED BY <2>1, <2>2, <2>3, <2>4 DEF World
<1>8. Handlers'
  <2>1. \A q \in Procs : proc'[q].gen = proc[q].gen
    BY <1>4, <1>6
  <2>2. child["runtime"].st = "none" => child'["runtime"].st = "none"
    BY <1>5, <1>6 DEF Procs
  <2> QED BY <1>2, <2>1, <2>2, HandlersFrame
<1>9. closing' \subseteq Procs \X Nat
  BY <1>1, <1>2, <1>4
<1>10. TypeOK'
  BY <1>2, <1>6, <1>9 DEF IInv, TypeOK, ProcRecord, ChildRecord
<1> QED BY <1>7, <1>8, <1>10 DEF IInv

(* Nothing but a channel, the launcher's own life or nothing at all changes. *)
LEMMA QuietStep ==
  ASSUME IInv, UNCHANGED <<proc, child, devices, config, mu, call>>,
         closing' \subseteq closing, running' \in BOOLEAN
  PROVE  IInv'
<1>1. World' /\ Handlers'
  BY WorldFrame, HandlersFrame
<1>2. TypeOK'
  BY DEF IInv, TypeOK
<1> QED BY <1>1, <1>2 DEF IInv

-----------------------------------------------------------------------------
(* Every step keeps the invariant.                                          *)
LEMMA NextIInv == IInv /\ [Next]_vars => IInv'
<1> SUFFICES ASSUME IInv, [Next]_vars PROVE IInv'
  OBVIOUS
<1>1. ASSUME NEW c \in Calls, Arrive(c) PROVE IInv'
  BY <1>1, ArrivalUnderLock, ArrivalWithoutLock DEF Arrive
<1>2. ASSUME NEW c \in Threads, Handle(c) PROVE IInv'
  <2>1. CASE LockToStop(c) \/ Stop(c) \/ StopDone(c) \/ StopTimeout(c)
    BY <2>1, LockToStopStep, StopStep, StopDoneStep, StopTimeoutStep
  <2>2. CASE StartFails(c) \/ JobFails(c) \/ MarkRunning(c)
    BY <2>2, StartFailsStep, JobFailsStep, MarkRunningStep
  <2>3. CASE \E d \in {Unpinned} \cup {Explicit(s) : s \in SUBSET Cards} : Start(c, d) \/ Job(c, d)
    BY <2>3, StartStep, JobStep
  <2>4. CASE ReadSpec(c) \/ PollReady(c) \/ LoadModel(c)
    BY <2>4, LoadSteps
  <2> QED BY <1>2, <2>1, <2>2, <2>3, <2>4 DEF Handle
<1>3. CASE Wait
  <2>1. ASSUME NEW p \in Procs, NEW g, CloseDone(p, g) PROVE IInv'
    <3>1. UNCHANGED <<proc, child, devices, config, mu, call, running>> /\ closing' \subseteq closing
      BY <2>1 DEF CloseDone
    <3>2. running' \in BOOLEAN
      BY <3>1 DEF IInv, TypeOK
    <3> QED BY <3>1, <3>2, QuietStep
  <2> QED BY <1>3, <2>1, ReapStep DEF Wait
<1>4. CASE Exit
  BY <1>4, QuietStep DEF Exit
<1>5. CASE UNCHANGED vars
  <2>1. running' \in BOOLEAN
    BY <1>5 DEF vars, IInv, TypeOK
  <2> QED BY <1>5, <2>1, QuietStep DEF vars
<1>6. CASE SignalArrives
  BY <1>6, ArrivalWithoutLock
<1>7. CASE ChildServes \/ \E p \in Procs, ok \in BOOLEAN : ChildExits(p, ok)
  BY <1>7, ChildSteps
<1> QED BY <1>1, <1>2, <1>3, <1>4, <1>5, <1>6, <1>7 DEF Next

(* The invariant holds throughout, with any cards, pinned or not, and any   *)
(* requests.                                                               *)
THEOREM Invariance == Spec => []IInv
<1> QED BY InitIInv, NextIInv, PTL DEF Spec

(* The launcher's fields, its children and its handlers keep their types.   *)
THEOREM TypeCorrect == Spec => []TypeOK
<1>1. IInv => TypeOK
  BY DEF IInv
<1> QED BY <1>1, Invariance, PTL

(* launcher.start and the tuning handler: the runtime and a tuning job never *)
(* run on a common card, also when a stop has timed out.                   *)
THEOREM GpusAreExclusive == Spec => []GpuExclusive
<1>1. IInv => GpuExclusive
  <2> SUFFICES ASSUME IInv, Alive("runtime"), Alive("tuning")
               PROVE  child["runtime"].cards \cap child["tuning"].cards = {}
    BY DEF GpuExclusive
  <2>1. proc["runtime"].cmd /\ proc["tuning"].cmd
    BY DEF IInv, World, ChildHasStruct, Alive, Procs
  <2>2. child["runtime"].cards = devices["runtime"].cards /\ child["tuning"].cards = devices["tuning"].cards
    BY <2>1 DEF IInv, World, ChildUsesItsDevices
  <2>3. ~devicesOverlap(devices["runtime"], devices["tuning"])
    BY <2>1 DEF IInv, World, DevicesApart
  <2> QED BY <2>2, <2>3 DEF devicesOverlap
<1> QED BY <1>1, Invariance, PTL

(* --card: a GPU process that lives sees the pinned cards, whatever requests *)
(* and saved configurations ask for.                                       *)
THEOREM PinBinds == Spec => []PinRespected
<1>1. IInv => PinRespected
  BY DEF IInv, World
<1> QED BY <1>1, Invariance, PTL

(* The state shown for a process says whether it has a child, also when the  *)
(* child ends before its handler marks it as running.                      *)
THEOREM StatesAreTrue == Spec => [](StateIsTrue /\ ChildHasStruct)
<1>1. IInv => StateIsTrue /\ ChildHasStruct
  BY DEF IInv, World
<1> QED BY <1>1, Invariance, PTL

(* restart and load launch the runtime only behind the end of the one they   *)
(* stopped, although its channel is closed later than it is reaped.         *)
THEOREM RestartsFollowExits == Spec => []RestartAfterExit
<1>1. IInv => RestartAfterExit
  BY DEF IInv, Handlers, HandlerShape, RestartAfterExit, Threads
<1> QED BY <1>1, Invariance, PTL

(* l.mu is held by one handler at most, the one that is past its lock.       *)
THEOREM HandlersExclude == Spec => []LockIsHeld
<1>1. IInv => LockIsHeld
  BY DEF IInv, Handlers
<1> QED BY <1>1, Invariance, PTL
=============================================================================
