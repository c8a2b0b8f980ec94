----------------------------- MODULE ModelRouter -----------------------------
(***************************************************************************)
(* ModelRouter in dynamic mode: inference requests lease the resident       *)
(* model, POST /v1/model/load calls queue first-in first-out and replace it *)
(* when no lease is counted.  An engine is named by the load call that      *)
(* built it and lives while current_engine_, a lease or that call refers to *)
(* it; a lease gives its count back before its reference.                  *)
(***************************************************************************)
EXTENDS Naturals, Sequences, FiniteSets, FiniteSetTheorems, TLAPS

CONSTANTS
  Requests,     \* inference requests, one lease each
  Loads,        \* load() calls
  Models,       \* ids of the files found in the model directory
  Wanted,       \* Wanted[l]: the id in the request, perhaps unknown
  Broken,       \* models whose loading may fail
  None          \* no engine, no id

ASSUME LoadsAssumption ==
  /\ IsFiniteSet(Requests) /\ Broken \subseteq Models
  /\ None \notin Loads /\ None \notin Models
  /\ DOMAIN Wanted = Loads

VARIABLES
  current_engine, current_id,
  active_leases, loading, load_queue,
  lease,        \* lease[r]: the engine r's lease refers to
  request,      \* progress of each request
  call          \* progress of each load() call

vars == <<current_engine, current_id, active_leases, loading, load_queue, lease, request, call>>

RequestStages == {"new", "using", "releasing", "ended", "refused"}
CallStages    == {"new", "waiting", "building", "loaded", "kept", "threw"}
RequestEnded  == {"ended", "refused"}
CallEnded     == {"loaded", "kept", "threw"}

Init ==
  /\ current_engine = None /\ current_id = None
  /\ active_leases = 0 /\ loading = FALSE /\ load_queue = <<>>
  /\ lease = [r \in Requests |-> None]
  /\ request = [r \in Requests |-> "new"]
  /\ call = [l \in Loads |-> "new"]

-----------------------------------------------------------------------------
(* acquire() waits out a load in progress; without a model it throws.      *)
WaitsForModel == ~loading /\ current_engine # None
MayAcquire == ~loading

Acquire(r) ==
  /\ request[r] = "new" /\ MayAcquire
  /\ IF current_engine = None
       THEN /\ request' = [request EXCEPT ![r] = "refused"]
            /\ UNCHANGED <<active_leases, lease>>
       ELSE /\ request' = [request EXCEPT ![r] = "using"]
            /\ active_leases' = active_leases + 1
            /\ lease' = [lease EXCEPT ![r] = current_engine]
  /\ UNCHANGED <<current_engine, current_id, loading, load_queue, call>>

(* Lease::release(): the count first, under the mutex, then the reference.  *)
ReleaseCount(r) ==
  /\ request[r] = "using"
  /\ request' = [request EXCEPT ![r] = "releasing"]
  /\ active_leases' = active_leases - 1
  /\ UNCHANGED <<current_engine, current_id, loading, load_queue, lease, call>>
ReleaseEngine(r) ==
  /\ request[r] = "releasing"
  /\ request' = [request EXCEPT ![r] = "ended"]
  /\ lease' = [lease EXCEPT ![r] = None]
  /\ UNCHANGED <<current_engine, current_id, active_leases, loading, load_queue, call>>

-----------------------------------------------------------------------------
(* load(): an unknown id throws, others take a ticket.                     *)
Queue(l) ==
  /\ call[l] = "new"
  /\ IF Wanted[l] \in Models
       THEN /\ call' = [call EXCEPT ![l] = "waiting"]
            /\ load_queue' = Append(load_queue, l)
       ELSE /\ call' = [call EXCEPT ![l] = "threw"]
            /\ UNCHANGED load_queue
  /\ UNCHANGED <<current_engine, current_id, active_leases, loading, lease, request>>

WhenIdle(l) == Head(load_queue) = l /\ ~loading
MayLoad(l) == Head(load_queue) = l /\ ~loading /\ active_leases = 0

AfterKept == Tail(load_queue)

(* Its turn: keep a model that is already resident, or drop the old one     *)
(* and build the new one outside the mutex.                                *)
Begin(l) ==
  /\ call[l] = "waiting" /\ MayLoad(l)
  /\ IF current_engine # None /\ current_id = Wanted[l]
       THEN /\ call' = [call EXCEPT ![l] = "kept"]
            /\ load_queue' = AfterKept
            /\ UNCHANGED <<loading, current_engine, current_id>>
       ELSE /\ call' = [call EXCEPT ![l] = "building"]
            /\ loading' = TRUE
            /\ current_engine' = None /\ current_id' = None
            /\ UNCHANGED load_queue
  /\ UNCHANGED <<active_leases, lease, request>>

Loaded(l) ==
  /\ call[l] = "building"
  /\ current_engine' = l /\ current_id' = Wanted[l]
  /\ loading' = FALSE /\ load_queue' = Tail(load_queue)
  /\ call' = [call EXCEPT ![l] = "loaded"]
  /\ UNCHANGED <<active_leases, lease, request>>

FailedKeepsLoading == TRUE
LoadingAfterFailure == FALSE
Failed(l) ==
  /\ call[l] = "building" /\ Wanted[l] \in Broken
  /\ loading' = LoadingAfterFailure /\ load_queue' = Tail(load_queue)
  /\ call' = [call EXCEPT ![l] = "threw"]
  /\ UNCHANGED <<current_engine, current_id, active_leases, lease, request>>

Request(r) == Acquire(r) \/ ReleaseCount(r) \/ ReleaseEngine(r)
Load(l) == Queue(l) \/ Begin(l) \/ Loaded(l) \/ Failed(l)

Next == (\E r \in Requests : Request(r)) \/ (\E l \in Loads : Load(l))

Spec == Init /\ [][Next]_vars

-----------------------------------------------------------------------------
(* Types of the router's fields and of the callers' progress.              *)
TypeOK ==
  /\ current_engine \in Loads \cup {None} /\ current_id \in Models \cup {None}
  /\ active_leases \in Nat /\ loading \in BOOLEAN /\ load_queue \in Seq(Loads)
  /\ lease \in [Requests -> Loads \cup {None}]
  /\ request \in [Requests -> RequestStages] /\ call \in [Loads -> CallStages]

Using == {r \in Requests : request[r] = "using"}

(* A lease pins the resident model: while a request uses its engine no load *)
(* is in progress, that engine stays the current one, and the count is the  *)
(* number of such requests.                                                *)
LeasePinsModel ==
  /\ active_leases = Cardinality(Using)
  /\ \A r \in Using : ~loading /\ current_engine # None /\ lease[r] = current_engine

(* The id reported to clients names the resident engine's model, and a load *)
(* in progress is exactly the head of the queue, alone.                    *)
ModelIsConsistent ==
  /\ current_id = IF current_engine = None THEN None ELSE Wanted[current_engine]
  /\ loading => load_queue # <<>>
  /\ \A l \in Loads : call[l] = "building" <=> (loading /\ load_queue # <<>> /\ load_queue[1] = l)

(* Every load that was queued is one that waits or builds, once.           *)
QueueIsWaiters ==
  /\ {load_queue[i] : i \in 1..Len(load_queue)} = {l \in Loads : call[l] \in {"waiting", "building"}}
  /\ \A i, j \in 1..Len(load_queue) : load_queue[i] = load_queue[j] => i = j

-----------------------------------------------------------------------------
(***************************************************************************)
(* Theorems, for any number of requests, load() calls and models: a lease  *)
(* pins the resident model, and the id shown, the flag `loading` and the   *)
(* queue of loads agree.                                                   *)
(***************************************************************************)

(* A load that was queued asked for a model that exists: it may become the  *)
(* resident one.                                                           *)
QueuedIsKnown == \A l \in Loads : call[l] \in {"waiting", "building"} => Wanted[l] \in Models

(* The inductive invariant.  A lease is safe because no load is in progress *)
(* while one is counted; that the load in progress is the head of the queue *)
(* needs the queue to hold exactly the loads that wait, each once.         *)
IInv == TypeOK /\ QueuedIsKnown /\ QueueIsWaiters /\ ModelIsConsistent /\ LeasePinsModel

-----------------------------------------------------------------------------
(* The elements of a queue, and a queue that holds none of them twice.      *)
Elements(s) == {s[i] : i \in 1..Len(s)}
Distinct(s) == \A i, j \in 1..Len(s) : s[i] = s[j] => i = j

(* A new element takes the last place.                                     *)
LEMMA AppendDistinct ==
  ASSUME NEW S, NEW s \in Seq(S), NEW e \in S, e \notin Elements(s), Distinct(s)
  PROVE  /\ Append(s, e) \in Seq(S)
         /\ Elements(Append(s, e)) = Elements(s) \cup {e}
         /\ Distinct(Append(s, e))
         /\ Append(s, e) # <<>>
         /\ s # <<>> => Append(s, e)[1] = s[1]
         /\ s = <<>> => Append(s, e)[1] = e
<1> DEFINE t == Append(s, e)
<1>1. t \in Seq(S) /\ Len(t) = Len(s) + 1 /\ t[Len(s) + 1] = e
  OBVIOUS
<1>2. \A i \in 1..Len(s) : t[i] = s[i]
  OBVIOUS
<1>3. Len(s) \in Nat /\ (s # <<>> <=> Len(s) > 0)
  OBVIOUS
<1>4. Elements(t) = Elements(s) \cup {e}
  <2>1. \A i \in 1..Len(t) : i \in 1..Len(s) \/ i = Len(s) + 1
    BY <1>1, <1>3
  <2>2. 1..Len(s) \subseteq 1..Len(t) /\ Len(s) + 1 \in 1..Len(t)
    BY <1>1, <1>3
  <2> HIDE DEF t
  <2> QED BY <1>1, <1>2, <2>1, <2>2 DEF Elements
<1>5. Distinct(t)
  <2> HIDE DEF t
  <2> SUFFICES ASSUME NEW i \in 1..Len(t), NEW j \in 1..Len(t), t[i] = t[j] PROVE i = j
    BY DEF Distinct
  <2>1. CASE i \in 1..Len(s) /\ j \in 1..Len(s)
    BY <1>2, <2>1 DEF Distinct
  <2>2. CASE i \in 1..Len(s) /\ j = Len(s) + 1
    BY <1>1, <1>2, <2>2 DEF Elements
  <2>3. CASE i = Len(s) + 1 /\ j \in 1..Len(s)
    BY <1>1, <1>2, <2>3 DEF Elements
  <2> QED BY <1>1, <1>3, <2>1, <2>2, <2>3
<1> QED BY <1>1, <1>2, <1>3, <1>4, <1>5

(* The first element leaves, and only it.                                  *)
LEMMA TailDistinct ==
  ASSUME NEW S, NEW s \in Seq(S), s # <<>>, Distinct(s)
  PROVE  /\ Tail(s) \in Seq(S)
         /\ Elements(Tail(s)) = Elements(s) \ {s[1]}
         /\ Distinct(Tail(s))
<1> DEFINE t == Tail(s)
<1>1. Len(s) \in Nat /\ Len(s) > 0 /\ t \in Seq(S) /\ Len(t) = Len(s) - 1
  OBVIOUS
<1>2. \A i \in 1..Len(t) : i + 1 \in 1..Len(s) /\ t[i] = s[i + 1]
  OBVIOUS
<1> HIDE DEF t
<1>3. Distinct(t)
  BY <1>1, <1>2 DEF Distinct
<1>4. Elements(t) = Elements(s) \ {s[1]}
  <2>1. ASSUME NEW e \in Elements(t) PROVE e \in Elements(s) \ {s[1]}
    <3> PICK i \in 1..Len(t) : e = t[i] BY <2>1 DEF Elements
    <3>1. i + 1 \in 1..Len(s) /\ e = s[i + 1] /\ 1 \in 1..Len(s) /\ i + 1 # 1
      BY <1>1, <1>2
    <3> QED BY <3>1 DEF Elements, Distinct
  <2>2. ASSUME NEW e \in Elements(s), e # s[1] PROVE e \in Elements(t)
    <3> PICK i \in 1..Len(s) : e = s[i] BY DEF Elements
    <3>1. i - 1 \in 1..Len(t) /\ i = (i - 1) + 1
      BY <1>1, <2>2
    <3>2. t[i - 1] = s[(i - 1) + 1]
      BY <1>2, <3>1
    <3> QED BY <3>1, <3>2 DEF Elements
  <2> QED BY <2>1, <2>2
<1> QED BY <1>1, <1>3, <1>4 DEF t

-----------------------------------------------------------------------------
(* The invariant's parts in the words of the lemmas above.                 *)
LEMMA QueueShape ==
  ASSUME IInv
  PROVE  /\ load_queue \in Seq(Loads) /\ Distinct(load_queue)
         /\ Elements(load_queue) = {l \in Loads : call[l] \in {"waiting", "building"}}
         /\ load_queue # <<>> => load_queue[1] \in Loads /\ load_queue[1] \in Elements(load_queue)
<1>1. load_queue \in Seq(Loads) /\ Distinct(load_queue)
  BY DEF IInv, TypeOK, QueueIsWaiters, Distinct
<1>2. load_queue # <<>> => 1 \in 1..Len(load_queue) /\ load_queue[1] \in Loads
  BY <1>1
<1> QED BY <1>1, <1>2 DEF IInv, QueueIsWaiters, Elements

(* A load that waits or builds finds the queue not empty.                   *)
LEMMA SomeoneIsHead ==
  ASSUME IInv, NEW l \in Loads, call[l] \in {"waiting", "building"}
  PROVE  load_queue # <<>> /\ Head(load_queue) = load_queue[1]
<1>1. load_queue \in Seq(Loads) /\ l \in Elements(load_queue)
  BY QueueShape
<1>2. load_queue # <<>>
  BY <1>1 DEF Elements
<1> QED BY <1>1, <1>2

(* Initially no model is loaded.                                            *)
LEMMA InitIInv == Init => IInv
<1> SUFFICES ASSUME Init PROVE IInv
  OBVIOUS
<1>1. TypeOK
  <2>1. request \in [Requests -> RequestStages] /\ call \in [Loads -> CallStages]
    BY DEF Init, RequestStages, CallStages
  <2>2. lease \in [Requests -> Loads \cup {None}] /\ load_queue \in Seq(Loads)
    BY DEF Init
  <2> QED BY <2>1, <2>2 DEF Init, TypeOK
<1>2. QueuedIsKnown /\ QueueIsWaiters /\ ModelIsConsistent
  <2>1. 1..Len(load_queue) = {}
    BY DEF Init
  <2>2. \A l \in Loads : call[l] = "new"
    BY DEF Init
  <2>3. QueueIsWaiters
    BY <2>1, <2>2 DEF QueueIsWaiters
  <2>4. QueuedIsKnown /\ ModelIsConsistent
    BY <2>2 DEF Init, QueuedIsKnown, ModelIsConsistent
  <2> QED BY <2>3, <2>4
<1>3. LeasePinsModel
  BY FS_EmptySet DEF Init, LeasePinsModel, Using
<1> QED BY <1>1, <1>2, <1>3 DEF IInv

-----------------------------------------------------------------------------
(* The users of a model are finitely many, and one more or one less of them *)
(* is one lease more or less.                                              *)
LEMMA UsersFinite == IsFiniteSet(Using)
<1>1. Using \subseteq Requests
  BY DEF Using
<1> QED BY <1>1, FS_Subset, LoadsAssumption

(* acquire() takes a lease on the loaded model.                             *)
LEMMA AcquireStep ==
  ASSUME IInv, NEW r \in Requests, Acquire(r)
  PROVE  IInv'
<1> USE DEF IInv
<1>1. CASE current_engine = None
  <2>1. request' = [request EXCEPT ![r] = "refused"] /\ request[r] = "new"
        /\ UNCHANGED <<current_engine, current_id, active_leases, loading, load_queue, lease, call>>
    BY <1>1 DEF Acquire
  <2>2. TypeOK'
    BY <2>1 DEF TypeOK, RequestStages
  <2>3. Using' = Using
    BY <2>1 DEF Using, TypeOK
  <2>4. LeasePinsModel'
    BY <2>1, <2>3 DEF LeasePinsModel
  <2> QED BY <2>1, <2>2, <2>4 DEF QueuedIsKnown, QueueIsWaiters, ModelIsConsistent
<1>2. CASE current_engine # None
  <2>1. /\ request' = [request EXCEPT ![r] = "using"] /\ request[r] = "new" /\ ~loading
        /\ active_leases' = active_leases + 1
        /\ lease' = [lease EXCEPT ![r] = current_engine]
        /\ UNCHANGED <<current_engine, current_id, loading, load_queue, call>>
    BY <1>2 DEF Acquire, MayAcquire
  <2>2. TypeOK'
    BY <2>1 DEF TypeOK, RequestStages
  <2>3. Using' = Using \cup {r} /\ r \notin Using
    BY <2>1 DEF Using, TypeOK
  <2>4. Cardinality(Using') = Cardinality(Using) + 1
    BY <2>3, UsersFinite, FS_AddElement
  <2>5. \A q \in Using' : lease'[q] = current_engine
    BY <2>1, <2>3 DEF LeasePinsModel, TypeOK, Using
  <2>6. LeasePinsModel'
    BY <1>2, <2>1, <2>4, <2>5 DEF LeasePinsModel
  <2> QED BY <2>1, <2>2, <2>6 DEF QueuedIsKnown, QueueIsWaiters, ModelIsConsistent
<1> QED BY <1>1, <1>2

(* The lease counts itself off.                                             *)
LEMMA ReleaseCountStep ==
  ASSUME IInv, NEW r \in Requests, ReleaseCount(r)
  PROVE  IInv'
<1> USE DEF IInv, ReleaseCount
<1>1. Using' = Using \ {r} /\ r \in Using
  BY DEF Using, TypeOK
<1>2. Cardinality(Using') = Cardinality(Using) - 1 /\ Cardinality(Using') \in Nat
  BY <1>1, UsersFinite, FS_RemoveElement, FS_CardinalityType
<1>3. TypeOK'
  BY <1>2 DEF TypeOK, RequestStages, LeasePinsModel
<1>4. LeasePinsModel'
  BY <1>1, <1>2 DEF LeasePinsModel
<1> QED BY <1>3, <1>4 DEF QueuedIsKnown, QueueIsWaiters, ModelIsConsistent

(* The lease lets go of the engine.                                         *)
LEMMA ReleaseEngineStep ==
  ASSUME IInv, NEW r \in Requests, ReleaseEngine(r)
  PROVE  IInv'
<1> USE DEF IInv, ReleaseEngine
<1>1. TypeOK'
  BY DEF TypeOK, RequestStages
<1>2. Using' = Using /\ r \notin Using
  BY DEF Using, TypeOK
<1>3. \A q \in Using' : lease'[q] = lease[q]
  BY <1>2 DEF Using, TypeOK
<1>4. LeasePinsModel'
  BY <1>2, <1>3 DEF LeasePinsModel
<1> QED BY <1>1, <1>4 DEF QueuedIsKnown, QueueIsWaiters, ModelIsConsistent

-----------------------------------------------------------------------------
(* A load takes a ticket behind the others; it cannot be the one that builds.*)
LEMMA QueueStep ==
  ASSUME IInv, NEW l \in Loads, Queue(l)
  PROVE  IInv'
<1>1. /\ call[l] = "new" /\ l \notin Elements(load_queue)
      /\ UNCHANGED <<current_engine, current_id, active_leases, loading, lease, request>>
  BY QueueShape DEF Queue
<1>2. LeasePinsModel'
  BY <1>1 DEF IInv, LeasePinsModel, Using
<1>3. CASE Wanted[l] \notin Models
  <2>1. call' = [call EXCEPT ![l] = "threw"] /\ load_queue' = load_queue
    BY <1>3 DEF Queue
  <2>2. TypeOK'
    BY <1>1, <2>1 DEF IInv, TypeOK, CallStages
  <2>3. \A k \in Loads : \A v \in {"waiting", "building"} : call'[k] = v <=> call[k] = v
    BY <1>1, <2>1 DEF IInv, TypeOK
  <2>4. QueuedIsKnown' /\ ModelIsConsistent'
    BY <1>1, <2>1, <2>3 DEF IInv, QueuedIsKnown, ModelIsConsistent
  <2>5. QueueIsWaiters'
    BY <1>1, <2>1, <2>3 DEF IInv, QueueIsWaiters
  <2> QED BY <1>2, <2>2, <2>4, <2>5 DEF IInv
<1>4. CASE Wanted[l] \in Models
  <2>1. call' = [call EXCEPT ![l] = "waiting"] /\ load_queue' = Append(load_queue, l)
    BY <1>4 DEF Queue
  <2>2. /\ load_queue' \in Seq(Loads) /\ Distinct(load_queue') /\ load_queue' # <<>>
        /\ Elements(load_queue') = Elements(load_queue) \cup {l}
        /\ load_queue # <<>> => load_queue'[1] = load_queue[1]
    BY <1>1, <2>1, QueueShape, AppendDistinct
  <2>3. TypeOK'
    BY <1>1, <2>1, <2>2 DEF IInv, TypeOK, CallStages
  <2>4. \A k \in Loads : k # l => call'[k] = call[k]
    BY <2>1 DEF IInv, TypeOK
  <2>5. call'[l] = "waiting"
    BY <2>1 DEF IInv, TypeOK
  <2>6. QueuedIsKnown'
    BY <1>4, <2>4, <2>5 DEF IInv, QueuedIsKnown
  <2>7. QueueIsWaiters'
    <3>1. Elements(load_queue') = {k \in Loads : call'[k] \in {"waiting", "building"}}
      BY <2>2, <2>4, <2>5, QueueShape
    <3> QED BY <2>2, <3>1 DEF QueueIsWaiters, Elements, Distinct
  <2>8. ModelIsConsistent'
    <3>1. loading => load_queue # <<>>
      BY DEF IInv, ModelIsConsistent
    <3>2. \A k \in Loads : call'[k] = "building" <=> call[k] = "building"
      BY <1>1, <2>4, <2>5
    <3>3. loading => load_queue[1] # l
      BY <1>1, <3>1, QueueShape
    <3> QED BY <1>1, <2>2, <3>1, <3>2, <3>3 DEF IInv, ModelIsConsistent
  <2> QED BY <1>2, <2>3, <2>6, <2>7, <2>8 DEF IInv
<1> QED BY <1>3, <1>4

(* What the head's leaving does to the queue of those that wait, when the   *)
(* head is the one load whose call has come to an end.                     *)
LEMMA HeadLeaves ==
  ASSUME IInv, NEW l \in Loads, load_queue # <<>>, load_queue[1] = l,
         load_queue' = Tail(load_queue),
         NEW v \in CallEnded, call' = [call EXCEPT ![l] = v]
  PROVE  load_queue' \in Seq(Loads) /\ call' \in [Loads -> CallStages] /\ QueueIsWaiters'
<1>1. /\ load_queue' \in Seq(Loads) /\ Distinct(load_queue')
      /\ Elements(load_queue') = Elements(load_queue) \ {l}
  BY QueueShape, TailDistinct
<1>2. call' \in [Loads -> CallStages] /\ call'[l] \notin {"waiting", "building"}
  BY DEF IInv, TypeOK, CallStages, CallEnded
<1>3. \A k \in Loads : k # l => call'[k] = call[k]
  BY DEF IInv, TypeOK
<1>4. Elements(load_queue') = {k \in Loads : call'[k] \in {"waiting", "building"}}
  BY <1>1, <1>2, <1>3, QueueShape
<1> QED BY <1>1, <1>2, <1>4 DEF QueueIsWaiters, Elements, Distinct

(* A load begins when no lease is counted: there is no user then.          *)
LEMMA BeginStep ==
  ASSUME IInv, NEW l \in Loads, Begin(l)
  PROVE  IInv'
<1>1. /\ call[l] = "waiting" /\ ~loading /\ active_leases = 0
      /\ load_queue # <<>> /\ load_queue[1] = l
      /\ UNCHANGED <<active_leases, lease, request>>
  BY SomeoneIsHead DEF Begin, MayLoad
<1>2. Using = {} /\ Using' = {}
  BY <1>1, UsersFinite, FS_EmptySet DEF IInv, LeasePinsModel, Using
<1>3. LeasePinsModel'
  BY <1>1, <1>2, FS_EmptySet DEF LeasePinsModel
<1>4. \A k \in Loads : call[k] # "building"
  BY <1>1 DEF IInv, ModelIsConsistent
<1>5. CASE current_engine # None /\ current_id = Wanted[l]
  <2>1. /\ call' = [call EXCEPT ![l] = "kept"] /\ load_queue' = Tail(load_queue)
        /\ UNCHANGED <<loading, current_engine, current_id>>
    BY <1>5 DEF Begin, AfterKept
  <2>2. load_queue' \in Seq(Loads) /\ call' \in [Loads -> CallStages] /\ QueueIsWaiters'
    BY <1>1, <2>1, HeadLeaves DEF CallEnded
  <2>3. TypeOK'
    BY <1>1, <2>1, <2>2 DEF IInv, TypeOK
  <2>4. QueuedIsKnown'
    BY <2>1 DEF IInv, QueuedIsKnown, TypeOK
  <2>5. \A k \in Loads : call'[k] # "building"
    BY <1>4, <2>1 DEF IInv, TypeOK
  <2>6. ModelIsConsistent'
    BY <1>1, <2>1, <2>5 DEF IInv, ModelIsConsistent
  <2> QED BY <1>3, <2>2, <2>3, <2>4, <2>6 DEF IInv
<1>6. CASE ~(current_engine # None /\ current_id = Wanted[l])
  <2>1. /\ call' = [call EXCEPT ![l] = "building"] /\ load_queue' = load_queue
        /\ loading' = TRUE /\ current_engine' = None /\ current_id' = None
    BY <1>6 DEF Begin
  <2>2. TypeOK'
    BY <1>1, <2>1 DEF IInv, TypeOK, CallStages
  <2>3. /\ \A k \in Loads : k # l => call'[k] = call[k]
        /\ call'[l] = "building"
    BY <2>1 DEF IInv, TypeOK
  <2>4. QueuedIsKnown'
    BY <1>1, <2>3 DEF IInv, QueuedIsKnown
  <2>5. {k \in Loads : call'[k] \in {"waiting", "building"}}
          = {k \in Loads : call[k] \in {"waiting", "building"}}
    BY <1>1, <2>3
  <2>6. QueueIsWaiters'
    BY <2>1, <2>5 DEF IInv, QueueIsWaiters
  <2>7. ModelIsConsistent'
    BY <1>1, <1>4, <2>1, <2>3 DEF ModelIsConsistent
  <2> QED BY <1>3, <2>2, <2>4, <2>6, <2>7 DEF IInv
<1> QED BY <1>5, <1>6

(* The load in progress is the head, and no lease is counted.              *)
LEMMA BuildingIsHead ==
  ASSUME IInv, NEW l \in Loads, call[l] = "building"
  PROVE  /\ loading /\ load_queue # <<>> /\ load_queue[1] = l /\ Using = {}
         /\ \A k \in Loads : k # l => call[k] # "building"
<1>1. loading /\ load_queue # <<>> /\ load_queue[1] = l
  BY DEF IInv, ModelIsConsistent
<1> QED BY <1>1 DEF IInv, ModelIsConsistent, LeasePinsModel

(* The load succeeds and the model is installed.                            *)
LEMMA LoadedStep ==
  ASSUME IInv, NEW l \in Loads, Loaded(l)
  PROVE  IInv'
<1>1. /\ call[l] = "building" /\ current_engine' = l /\ current_id' = Wanted[l]
      /\ loading' = FALSE /\ load_queue' = Tail(load_queue)
      /\ call' = [call EXCEPT ![l] = "loaded"]
      /\ UNCHANGED <<active_leases, lease, request>>
  BY DEF Loaded
<1>2. load_queue' \in Seq(Loads) /\ call' \in [Loads -> CallStages] /\ QueueIsWaiters'
  BY <1>1, BuildingIsHead, HeadLeaves DEF CallEnded
<1>3. Wanted[l] \in Models
  BY <1>1 DEF IInv, QueuedIsKnown
<1>4. TypeOK'
  BY <1>1, <1>2, <1>3 DEF IInv, TypeOK
<1>5. Using' = {} /\ Using = {}
  BY <1>1, BuildingIsHead DEF Using
<1>6. LeasePinsModel'
  BY <1>1, <1>5 DEF IInv, LeasePinsModel
<1>7. QueuedIsKnown'
  BY <1>1 DEF IInv, QueuedIsKnown, TypeOK
<1>8. \A k \in Loads : call'[k] # "building"
  BY <1>1, BuildingIsHead DEF IInv, TypeOK
<1>9. ModelIsConsistent'
  BY <1>1, <1>8, LoadsAssumption DEF ModelIsConsistent
<1> QED BY <1>2, <1>4, <1>6, <1>7, <1>9 DEF IInv

(* The load fails and the router has no model.                              *)
LEMMA FailedStep ==
  ASSUME IInv, NEW l \in Loads, Failed(l)
  PROVE  IInv'
<1>1. /\ call[l] = "building" /\ loading' = FALSE /\ load_queue' = Tail(load_queue)
      /\ call' = [call EXCEPT ![l] = "threw"]
      /\ UNCHANGED <<current_engine, current_id, active_leases, lease, request>>
  BY DEF Failed, LoadingAfterFailure
<1>2. load_queue' \in Seq(Loads) /\ call' \in [Loads -> CallStages] /\ QueueIsWaiters'
  BY <1>1, BuildingIsHead, HeadLeaves DEF CallEnded
<1>3. TypeOK'
  BY <1>1, <1>2 DEF IInv, TypeOK
<1>4. Using' = {} /\ Using = {}
  BY <1>1, BuildingIsHead DEF Using
<1>5. LeasePinsModel'
  BY <1>1, <1>4 DEF IInv, LeasePinsModel
<1>6. QueuedIsKnown'
  BY <1>1 DEF IInv, QueuedIsKnown, TypeOK
<1>7. \A k \in Loads : call'[k] # "building"
  BY <1>1, BuildingIsHead DEF IInv, TypeOK
<1>8. ModelIsConsistent'
  BY <1>1, <1>7 DEF IInv, ModelIsConsistent
<1> QED BY <1>2, <1>3, <1>5, <1>6, <1>8 DEF IInv

-----------------------------------------------------------------------------
(* Every step keeps the invariant.                                          *)
LEMMA NextIInv == IInv /\ [Next]_vars => IInv'
<1> SUFFICES ASSUME IInv, [Next]_vars PROVE IInv'
  OBVIOUS
<1>1. ASSUME NEW r \in Requests, Request(r) PROVE IInv'
  BY <1>1, AcquireStep, ReleaseCountStep, ReleaseEngineStep DEF Request
<1>2. ASSUME NEW l \in Loads, Load(l) PROVE IInv'
  BY <1>2, QueueStep, BeginStep, LoadedStep, FailedStep DEF Load
<1>3. CASE UNCHANGED vars
  BY <1>3 DEF vars, IInv, TypeOK, QueuedIsKnown, QueueIsWaiters, ModelIsConsistent,
              LeasePinsModel, Using
<1> QED BY <1>1, <1>2, <1>3 DEF Next

(* In every behaviour of the router, whatever requests and loads there are, *)
(* the invariant holds: types, the queue, the id shown and the leases.     *)
THEOREM Invariance == Spec => []IInv
<1> QED BY InitIInv, NextIInv, PTL DEF Spec

(* ModelRouter's fields and the callers' progress keep their types.        *)
THEOREM TypeCorrect == Spec => []TypeOK
<1>1. IInv => TypeOK
  BY DEF IInv
<1> QED BY <1>1, Invariance, PTL

(* acquire(), release() and load(): no load is in progress while a lease is *)
(* counted, its engine is the resident one, and the count is exact.        *)
THEOREM LeasesPinTheModel == Spec => []LeasePinsModel
<1>1. IInv => LeasePinsModel
  BY DEF IInv
<1> QED BY <1>1, Invariance, PTL

(* The id the router shows names the resident model, also after a load that *)
(* failed, and the load in progress is the head of the queue and alone.    *)
THEOREM ModelStaysConsistent == Spec => []ModelIsConsistent
<1>1. IInv => ModelIsConsistent
  BY DEF IInv
<1> QED BY <1>1, Invariance, PTL

(* Every load that holds a ticket waits or builds, and holds one only.     *)
THEOREM QueueHoldsTheWaiters == Spec => []QueueIsWaiters
<1>1. IInv => QueueIsWaiters
  BY DEF IInv
<1> QED BY <1>1, Invariance, PTL

-----------------------------------------------------------------------------
(* Requests and loads do not change the resident model under a lease: a     *)
(* step that changes it has no user before or after it.                    *)
ModelChangesUnleased ==
  [][current_engine' # current_engine => Using = {} /\ Using' = {}]_vars

(* Only Begin and Loaded assign current_engine_, both while no lease is     *)
(* counted, and the queue's waiters keep acquire() out in between.         *)
THEOREM ChangesAreUnleased == Spec => ModelChangesUnleased
<1> DEFINE Quiet == current_engine' # current_engine => Using = {} /\ Using' = {}
<1>1. ASSUME IInv, [Next]_vars PROVE [Quiet]_vars
  <2>1. ASSUME NEW l \in Loads, Begin(l) PROVE Quiet
    <3>1. active_leases = 0 /\ request' = request
      BY <2>1 DEF Begin, MayLoad
    <3> QED BY <1>1, <3>1, UsersFinite, FS_EmptySet DEF IInv, LeasePinsModel, Using
  <2>2. ASSUME NEW l \in Loads, Loaded(l) PROVE Quiet
    <3>1. call[l] = "building" /\ request' = request
      BY <2>2 DEF Loaded
    <3> QED BY <1>1, <3>1, BuildingIsHead DEF Using
  <2>3. ASSUME NEW l \in Loads, Queue(l) \/ Failed(l) PROVE Quiet
    BY <2>3 DEF Queue, Failed
  <2>4. ASSUME NEW r \in Requests, Request(r) PROVE Quiet
    BY <2>4 DEF Request, Acquire, ReleaseCount, ReleaseEngine
  <2>5. CASE UNCHANGED vars
    BY <2>5
  <2> HIDE DEF Quiet
  <2> QED BY <1>1, <2>1, <2>2, <2>3, <2>4, <2>5 DEF Next, Load
<1> HIDE DEF Quiet
<1>2. Spec => [][Quiet]_vars
  BY <1>1, Invariance, PTL DEF Spec
<1> QED BY <1>2 DEF Quiet, ModelChangesUnleased
=============================================================================
