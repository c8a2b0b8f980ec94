----------------------------- MODULE AdapterCache -----------------------------
(***************************************************************************)
(* AdapterCache: adapters registered in RAM, uploaded to the GPU on first    *)
(* use and leased by requests.  Every operation runs under mutex_; what the  *)
(* shared pointers of requests hold decides what may be evicted and what     *)
(* still counts as RAM, and that changes without the mutex.                 *)
(*                                                                         *)
(* A package is identified with its content version; sizes are in units.     *)
(* `used` of the residents is kept as the order of gpu, least recent first.  *)
(***************************************************************************)
EXTENDS Naturals, Sequences, SequencesExt, FiniteSetsExt

CONSTANTS
  Ids, Versions,
  Size,                                  \* Size[v]: payload of version v
  RamBudget, GpuBudget, StagingBudget,
  Requests,
  None

ASSUME BudgetAssumption ==
  /\ Size \in [Versions -> Nat \ {0}]
  /\ RamBudget \in Nat /\ GpuBudget \in Nat /\ StagingBudget \in Nat

VARIABLES
  registry,      \* registry_[id]: versions registered under id
  order,         \* registration_order_[id]
  latest,        \* latest_[id], or None
  gpu,           \* gpu_: resident versions, least recently used first
  gpu_bytes,     \* stats_.gpu_bytes
  req,           \* req[r]: stage, version of its handle, its GPU lease
  trimming       \* a DELETE handler is between erase() and trim()

vars == <<registry, order, latest, gpu, gpu_bytes, req, trimming>>
registered == <<registry, order, latest>>

Stages == {"new", "bound", "running", "pausing", "paused"}

NoRequest == [stage |-> "new", handle |-> None, lease |-> "none"]

TypeOK ==
  /\ registry \in [Ids -> SUBSET Versions]
  /\ order \in [Ids -> Seq(Versions)]
  /\ latest \in [Ids -> Versions \cup {None}]
  /\ gpu \in Seq(Versions) /\ gpu_bytes \in Nat /\ trimming \in BOOLEAN
  /\ req \in [Requests -> [stage : Stages, handle : Versions \cup {None},
                           lease : {"none", "cached", "evicted"}]]

Init ==
  /\ registry = [id \in Ids |-> {}] /\ order = [id \in Ids |-> <<>>]
  /\ latest = [id \in Ids |-> None]
  /\ gpu = <<>> /\ gpu_bytes = 0 /\ trimming = FALSE
  /\ req = [r \in Requests |-> NoRequest]

(* remove() and erase() on a sequence: the others stay in their order.      *)
Without(s, vs) ==
  LET rest[i \in 0..Len(s)] ==
        IF i = 0 THEN <<>>
        ELSE IF s[i] \in vs THEN rest[i - 1] ELSE Append(rest[i - 1], s[i])
  IN  rest[Len(s)]

Bytes(vs) == MapThenSumSet(LAMBDA v : Size[v], vs)

(* Packages some shared_ptr keeps in RAM: account_ram() over host_lifetimes_. *)
InRam == (UNION {registry[id] : id \in Ids}) \cup ({req[r].handle : r \in Requests} \ {None})
Holds(r, v) == req[r].handle = v /\ req[r].lease = "cached"
Leased(v) == \E r \in Requests : Holds(r, v)      \* lease.use_count() > 1

-----------------------------------------------------------------------------
(* register_adapter(): the package is read within what is left of the RAM    *)
(* budget; a version already alive is shared, whoever holds it.             *)
Fits(v) == Size[v] + Bytes(InRam) <= RamBudget

SetLatest(id, v) ==
  /\ order' = [order EXCEPT ![id] = Append(Without(@, {v}), v)]
  /\ latest' = [latest EXCEPT ![id] = v]

Register(id, v) ==
  /\ Fits(v)
  /\ registry' = [registry EXCEPT ![id] = @ \cup {v}]
  /\ SetLatest(id, v)
  /\ UNCHANGED <<gpu, gpu_bytes, req, trimming>>

(* erase(): one version, the newest of the others taking its place.          *)
LatestStays(id, v) == latest[id]
LatestWithout(id, v) ==
  LET others == Without(order[id], {v})
  IN  IF others = <<>> THEN None ELSE IF latest[id] = v THEN Last(others) ELSE latest[id]

EraseVersion(id, v) ==
  /\ registry[id] # {} /\ ~trimming
  /\ registry' = [registry EXCEPT ![id] = @ \ {v}]
  /\ order' = [order EXCEPT ![id] = Without(@, {v})]
  /\ latest' = [latest EXCEPT ![id] = LatestWithout(id, v)]
  /\ trimming' = TRUE
  /\ UNCHANGED <<gpu, gpu_bytes, req>>

EraseAll(id) ==
  /\ registry[id] # {} /\ ~trimming
  /\ registry' = [registry EXCEPT ![id] = {}]
  /\ order' = [order EXCEPT ![id] = <<>>]
  /\ latest' = [latest EXCEPT ![id] = None]
  /\ trimming' = TRUE
  /\ UNCHANGED <<gpu, gpu_bytes, req>>

(* trim() and the loop of admit_gpu() drop residents that no request leases.  *)
KeepResident(vs) == gpu
Evict(vs) == Without(gpu, vs)
EvictedFrom(requests, vs) ==
  [r \in Requests |-> IF requests[r].handle \in vs /\ requests[r].lease = "cached"
                        THEN [requests[r] EXCEPT !.lease = "evicted"] ELSE requests[r]]
AnyResident == ToSet(gpu)
Idle == {v \in ToSet(gpu) : ~Leased(v)}

Trim ==
  /\ trimming
  /\ gpu' = Evict(Idle) /\ gpu_bytes' = gpu_bytes - Bytes(Idle)
  /\ req' = EvictedFrom(req, Idle)
  /\ trimming' = FALSE /\ UNCHANGED registered

(* resolve(): a version by name, or the latest.                             *)
Resolve(r, id, v) ==
  /\ req[r].stage = "new" /\ registry[id] # {} /\ v \in registry[id] \cup {latest[id]}
  /\ req' = [req EXCEPT ![r].stage = "bound", ![r].handle = v]
  /\ UNCHANGED <<registered, gpu, gpu_bytes, trimming>>

(* acquire(): a hit shares the resident copy.                               *)
Hit(r) ==
  LET v == req[r].handle
  IN  /\ req[r].stage = "bound" /\ v \in ToSet(gpu)
      /\ gpu' = Append(Without(gpu, {v}), v)
      /\ req' = [req EXCEPT ![r].stage = "running", ![r].lease = "cached"]
      /\ UNCHANGED <<registered, gpu_bytes, trimming>>

(* admit_gpu(): idle residents leave, least recently used first, until n      *)
(* more units fit; all of them when that is not enough.                     *)
Victims(n) ==
  LET idle == Without(gpu, ToSet(gpu) \ Idle)
      room == {k \in 0 .. Len(idle) :
                 gpu_bytes - Bytes(ToSet(SubSeq(idle, 1, k))) + n <= GpuBudget}
  IN  IF room = {} THEN ToSet(idle) ELSE ToSet(SubSeq(idle, 1, Min(room)))

Missed(r) == req[r].stage = "bound" /\ req[r].handle \notin ToSet(gpu)

(* The upload ends in the same critical section, before anyone else looks.   *)
Miss(r) ==
  LET v  == req[r].handle
      vs == Victims(Size[v])
  IN  /\ Missed(r) /\ Size[v] <= StagingBudget /\ Size[v] <= GpuBudget
      /\ gpu_bytes - Bytes(vs) + Size[v] <= GpuBudget
      /\ gpu' = Append(Evict(vs), v)
      /\ gpu_bytes' = gpu_bytes - Bytes(vs) + Size[v]
      /\ req' = [EvictedFrom(req, vs) EXCEPT ![r].stage = "running", ![r].lease = "cached"]
      /\ UNCHANGED <<registered, trimming>>

(* Too large for staging or the GPU, no room beside active leases, or a CUDA  *)
(* call that fails after the evictions: the request is answered with an error.*)
Fail(r) ==
  LET v  == req[r].handle
      vs == IF Size[v] > StagingBudget \/ Size[v] > GpuBudget THEN {} ELSE Victims(Size[v])
  IN  /\ Missed(r)
      /\ gpu' = Evict(vs) /\ gpu_bytes' = gpu_bytes - Bytes(vs)
      /\ req' = [EvictedFrom(req, vs) EXCEPT ![r] = NoRequest]
      /\ UNCHANGED <<registered, trimming>>

(* A pause gives the lease back, trims, and keeps the handle.               *)
Pause(r) ==
  /\ req[r].stage = "running"
  /\ req' = [req EXCEPT ![r].stage = "pausing", ![r].lease = "none"]
  /\ UNCHANGED <<registered, gpu, gpu_bytes, trimming>>

TrimPaused(r) ==
  /\ req[r].stage = "pausing"
  /\ gpu' = Evict(Idle) /\ gpu_bytes' = gpu_bytes - Bytes(Idle)
  /\ req' = [EvictedFrom(req, Idle) EXCEPT ![r].stage = "paused"]
  /\ UNCHANGED <<registered, trimming>>

Resume(r) ==
  /\ req[r].stage = "paused"
  /\ req' = [req EXCEPT ![r].stage = "bound"]
  /\ UNCHANGED <<registered, gpu, gpu_bytes, trimming>>

Finish(r) ==
  /\ req[r].stage \in {"running", "bound"}
  /\ req' = [req EXCEPT ![r] = NoRequest]
  /\ UNCHANGED <<registered, gpu, gpu_bytes, trimming>>

Next ==
  \/ \E id \in Ids, v \in Versions : Register(id, v) \/ EraseVersion(id, v)
  \/ \E id \in Ids : EraseAll(id)
  \/ Trim
  \/ \E r \in Requests, id \in Ids, v \in Versions : Resolve(r, id, v)
  \/ \E r \in Requests : \/ Hit(r) \/ Miss(r) \/ Fail(r) \/ Finish(r)
                         \/ Pause(r) \/ TrimPaused(r) \/ Resume(r)

Spec == Init /\ [][Next]_vars

-----------------------------------------------------------------------------
(* The payloads on the device, resident or leased, stay within the GPU        *)
(* budget and gpu_bytes is their exact count: a lease always protects the     *)
(* resident copy, and no version is on the device twice.                    *)
OnDevice == MapThenSumSet(LAMBDA r : Size[req[r].handle], {r \in Requests : req[r].lease = "evicted"})
GpuWithinBudget ==
  /\ IsInjective(gpu) /\ gpu_bytes = Bytes(ToSet(gpu))
  /\ gpu_bytes + OnDevice <= GpuBudget

(* A request that decodes uses weights that are still resident: eviction,     *)
(* trim, deletion and failed uploads of others leave its lease alone.        *)
RunningIsResident ==
  \A r \in Requests : req[r].stage = "running" =>
    req[r].lease = "cached" /\ req[r].handle \in ToSet(gpu)

(* Registered packages and those that only requests still hold together stay   *)
(* within the RAM budget ("RAM counts active deleted-version handles").      *)
RamWithinBudget == Bytes(InRam) <= RamBudget

(* latest_ is the most recently registered of the versions that remain, so     *)
(* that resolve() without a version never misses a registered id.            *)
LatestIsNewest ==
  \A id \in Ids :
    /\ ToSet(order[id]) = registry[id] /\ IsInjective(order[id])
    /\ latest[id] = IF order[id] = <<>> THEN None ELSE Last(order[id])

(* No order of uploads, evictions, pauses and deletions exceeds a budget.    *)
WithinBudgets == GpuWithinBudget /\ RamWithinBudget

==============================================================================
