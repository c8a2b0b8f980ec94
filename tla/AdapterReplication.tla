------------------------- MODULE AdapterReplication -------------------------
(***************************************************************************)
(* The Go router's replication of one adapter id: uploads, deletions and   *)
(* lists that are broadcast to every worker, and the placement the router  *)
(* keeps of them (adapter_placement.go, adapter_sync.go, resource_sync.go  *)
(* and internal/broadcast).  Requests and answers may be lost, an attempt  *)
(* that timed out may take effect later, workers may lose what they hold.  *)
(* Placements of different ids share only adapterEpoch.                    *)
(***************************************************************************)
EXTENDS Integers, Sequences, FiniteSets, FiniteSetsExt

CONSTANTS
  Backends,             \* 1..n, in the order of the configuration
  Versions,             \* content versions of the id
  Calls,                \* HTTP requests to the router
  Attempts,             \* adapter_upload_max_attempts
  InitialStores,        \* what the workers may have when the router starts
  Kinds,                \* which requests are made: upload, delete, list, infer
  MaxOpen,              \* bound: requests handled at a time
  MaxFaults             \* bound: failed attempts, restarts and late effects

ASSUME ReplicationAssumption ==
  /\ IsFiniteSet(Backends) /\ Backends = 1..Cardinality(Backends) /\ Backends # {}
  /\ Attempts \in Nat \ {0} /\ MaxFaults \in Nat /\ MaxOpen \in Nat
  /\ Kinds \subseteq {"upload", "delete", "list", "infer"}
  /\ IsFiniteSet(Versions) /\ InitialStores \subseteq SUBSET Versions
  /\ "no version" \notin Versions /\ "no call" \notin Calls

VARIABLES
  entry,                \* s.adapters[id]
  adapterEpoch,         \* s.adapterEpoch
  call,                 \* the handler of each request
  store,                \* versions each worker has (external)
  late,                 \* attempts given up that a worker may still perform
  faults,               \* faults so far
  lost,                 \* history: versions a worker lost without a broadcast
  acked,                \* history: <<version, worker>>, acknowledged uploads that
                        \* neither a deletion nor the worker has undone
  gone                  \* history: <<version, with the whole id>>, deletions that
                        \* no upload of the version has followed

vars == <<entry, adapterEpoch, call, store, late, faults, lost, acked, gone>>

NoVersion == "no version"
NoCall == "no call"

\* A placement; owner tells the mutation that created it from every other.
Empty(owner) ==
  [present |-> TRUE, owner |-> owner, ready |-> [v \in {} |-> {}], current |-> NoVersion,
   busy |-> FALSE, deleted |-> FALSE, deletedVersions |-> {}]
NoEntry == [Empty(NoCall) EXCEPT !.present = FALSE]

NewCall == [kind |-> "none", pc |-> "new", version |-> NoVersion,
            file |-> [b \in Backends |-> NoVersion], epoch |-> 0,
            previous |-> NoEntry, rollback |-> FALSE, backend |-> 0,
            net |-> [b \in Backends |-> [st |-> "idle", tries |-> 0, items |-> {}]]]

Returned == [NewCall EXCEPT !.pc = "done"]

\* The router starts while workers may already have adapters.
Init ==
  /\ entry = NoEntry /\ adapterEpoch = 0
  /\ call = [c \in Calls |-> NewCall]
  /\ \E s \in InitialStores : store = [b \in Backends |-> s]
  /\ late = {} /\ faults = 0
  /\ lost = [b \in Backends |-> {}]
  /\ acked = {} /\ gone = {}

\* A request reaches the router.
Arrives(c, kind) ==
  /\ call[c].pc = "new" /\ kind \in Kinds
  /\ Cardinality({d \in Calls : call[d].pc \notin {"new", "done"}}) < MaxOpen

-----------------------------------------------------------------------------

\* beginAdapterMutation: a copy of the placement, busy; `deleted` starts false.
Placement(c) ==
  [entry EXCEPT !.present = TRUE, !.owner = c, !.busy = TRUE, !.deleted = FALSE]

\* What a deletion does to the copy before it is broadcast; no version: all.
Disabled(e, v) ==
  IF v = NoVersion
  THEN [e EXCEPT !.ready = [x \in {} |-> {}], !.current = NoVersion, !.deleted = TRUE]
  ELSE [e EXCEPT !.ready = [x \in DOMAIN @ \ {v} |-> @[x]],
                 !.deletedVersions = @ \cup {v},
                 !.current = IF @ = v THEN NoVersion ELSE @]

Broadcast(c, r) ==
  [r EXCEPT !.pc = "broadcast",
            !.net = [b \in Backends |-> [st |-> "sent", tries |-> 0, items |-> {}]]]

\* POST and DELETE /v1/adapters: 409 while another mutation runs.  A POST by
\* path registers what each worker finds there.
BeginMutation(c, kind, v, file) ==
  /\ Arrives(c, kind)
  /\ IF entry.busy
     THEN /\ call' = [call EXCEPT ![c] = Returned]
          /\ UNCHANGED <<entry, adapterEpoch>>
     ELSE /\ entry' = IF kind = "delete" THEN Disabled(Placement(c), v) ELSE Placement(c)
          /\ adapterEpoch' = adapterEpoch + 1
          /\ call' = [call EXCEPT ![c] =
               Broadcast(c, [@ EXCEPT !.kind = kind, !.version = v, !.file = file,
                                      !.previous = entry])]
  /\ gone' = {g \in gone : ~(g[2] /\ \E b \in Backends : file[b] = g[1])}
  /\ UNCHANGED <<store, late, faults, lost, acked>>

\* GET /v1/adapters, and the discovery an inference asks for.
SnapshotAndList(c, r) == Broadcast(c, [r EXCEPT !.epoch = adapterEpoch])

BeginList(c) ==
  /\ Arrives(c, "list")
  /\ call' = [call EXCEPT ![c] = SnapshotAndList(c, [@ EXCEPT !.kind = "list"])]
  /\ UNCHANGED <<entry, adapterEpoch, store, late, faults, lost, acked, gone>>

-----------------------------------------------------------------------------
\* What request c asks of worker b, and what that does to a store s.
Order(c, b) == <<b, call[c].kind,
                 IF call[c].kind = "upload" THEN call[c].file[b] ELSE call[c].version>>
Effect(order, s) ==
  CASE order[2] = "upload" -> s \cup {order[3]}
    [] order[2] = "delete" -> IF order[3] = NoVersion THEN {} ELSE s \ {order[3]}
    [] OTHER -> s

Mutates(c) == call[c].kind \in {"upload", "delete"}

Perform(c, b) ==
  /\ store' = [store EXCEPT ![b] = Effect(Order(c, b), @)]
  /\ lost' = [lost EXCEPT ![b] = @ \ store'[b]]

\* An answer of worker b, with its list for a GET.
Answered(c, b) ==
  /\ call[c].pc = "broadcast" /\ call[c].net[b].st = "sent"
  /\ Perform(c, b)
  /\ call' = [call EXCEPT ![c].net[b] = [@ EXCEPT !.st = "ok", !.items = store[b]]]
  /\ UNCHANGED <<entry, adapterEpoch, late, faults, acked, gone>>

\* A deterministic rejection (400, 401, ...): no effect, no further attempt.
Rejected(c, b) ==
  /\ call[c].pc = "broadcast" /\ call[c].net[b].st = "sent" /\ Mutates(c)
  /\ call' = [call EXCEPT ![c].net[b].st = "rejected"]
  /\ UNCHANGED <<entry, adapterEpoch, store, late, faults, lost, acked, gone>>

\* An attempt fails or times out, with its effect done, not done, or yet to
\* come; only uploads are tried again.
AttemptFails(c, b) ==
  /\ call[c].pc = "broadcast" /\ call[c].net[b].st = "sent" /\ faults < MaxFaults
  /\ faults' = faults + 1
  /\ call' = [call EXCEPT ![c].net[b] =
       IF call[c].kind = "upload" /\ @.tries + 1 < Attempts
       THEN [@ EXCEPT !.tries = call[c].net[b].tries + 1] ELSE [@ EXCEPT !.st = "err"]]
  /\ \/ Perform(c, b) /\ Mutates(c) /\ UNCHANGED late
     \/ UNCHANGED <<store, lost, late>>
     \/ late' = late \cup {Order(c, b)} /\ Mutates(c) /\ UNCHANGED <<store, lost>>
  /\ UNCHANGED <<entry, adapterEpoch, acked, gone>>

\* A worker performs a request whose sender no longer waits.
LateEffect(order) ==
  /\ late' = late \ {order}
  /\ LET b == order[1] IN
     /\ store' = [store EXCEPT ![b] = Effect(order, @)]
     /\ lost' = [lost EXCEPT ![b] = (@ \cup store[b]) \ store'[b]]
     /\ acked' = {a \in acked : a[2] = b => a[1] \in store'[b]}
  /\ UNCHANGED <<entry, adapterEpoch, call, faults, gone>>

\* A worker restarts with an empty registry.
Restart(b) ==
  /\ faults < MaxFaults /\ store[b] # {}
  /\ faults' = faults + 1
  /\ lost' = [lost EXCEPT ![b] = @ \cup store[b]]
  /\ store' = [store EXCEPT ![b] = {}]
  /\ acked' = {a \in acked : a[2] # b}
  /\ UNCHANGED <<entry, adapterEpoch, call, late, gone>>

AllAnswered(c) ==
  call[c].pc = "broadcast" /\ \A b \in Backends : call[c].net[b].st # "sent"

-----------------------------------------------------------------------------
\* rejectedMutation: nothing but deterministic rejections.
rejectedMutation(c) == \A b \in Backends : call[c].net[b].st = "rejected"

Acknowledged(c) == {b \in Backends : call[c].net[b].st = "ok"}
\* The version of the first acknowledgment; others that differ are failures.
Canonical(c) == call[c].file[Min(Acknowledged(c))]
Confirmed(c) == {b \in Acknowledged(c) : call[c].file[b] = Canonical(c)}

ReadyOn(e, v) == IF v \in DOMAIN e.ready THEN e.ready[v] ELSE {}
WithReady(e, v, nodes) ==
  [e EXCEPT !.ready = [x \in DOMAIN @ \cup {v} |-> IF x = v THEN nodes ELSE @[x]]]

\* The validators of serveSynchronizedAdapters on every good answer.
Validated(c) ==
  IF call[c].kind # "upload" \/ Acknowledged(c) = {} THEN entry
  ELSE LET v == Canonical(c)
       IN [WithReady(entry, v, ReadyOn(entry, v) \cup Confirmed(c)) EXCEPT
             !.current = v, !.deletedVersions = @ \ {v}]

\* Mutant: the placement is completed whoever owns it.
CompletesAny(c, e) == e.busy

\* finishAdapterMutation acts on the mutation's own, still busy placement.
Completes(c, e) == e.owner = c /\ e.busy

Completed(c, e, rollback) ==
  IF ~Completes(c, e) THEN e
  ELSE IF rollback THEN call[c].previous ELSE [e EXCEPT !.busy = FALSE]

\* Validation and complete(), before the client's answer.
FinishMutation(c) ==
  /\ AllAnswered(c) /\ Mutates(c)
  /\ LET back == rejectedMutation(c) IN
     /\ entry' = Completed(c, Validated(c), back)
     /\ adapterEpoch' = adapterEpoch + 1
     /\ call' = [call EXCEPT ![c].pc = "reply", ![c].rollback = back]
     /\ IF call[c].kind = "upload"
        THEN /\ acked' = acked \cup (IF Acknowledged(c) = {} THEN {}
                                     ELSE {<<Canonical(c), b>> : b \in
                                       {x \in Confirmed(c) : Canonical(c) \in store[x]}})
             /\ gone' = {g \in gone : Acknowledged(c) = {} \/ g[1] # Canonical(c)}
        ELSE LET vs == IF call[c].version = NoVersion THEN Versions ELSE {call[c].version}
             IN /\ acked' = IF back THEN acked ELSE {a \in acked : a[1] \notin vs}
                /\ gone' = IF back THEN gone
                           ELSE gone \cup {<<v, call[c].version = NoVersion>> : v \in vs}
  /\ UNCHANGED <<store, late, faults, lost>>

\* The deferred complete() once the answer is written: nothing is left to do,
\* unless another mutation has begun meanwhile.
DeferredComplete(c) ==
  /\ call[c].pc = "reply"
  /\ entry' = Completed(c, entry, call[c].rollback)
  /\ adapterEpoch' = IF Completes(c, entry) THEN adapterEpoch + 1 ELSE adapterEpoch
  /\ call' = [call EXCEPT ![c] = Returned]
  /\ UNCHANGED <<store, late, faults, lost, acked, gone>>

-----------------------------------------------------------------------------

\* A list is used only if no mutation began or ended since its snapshot.
Fresh(c) == adapterEpoch = call[c].epoch

\* observeAdapterList of worker b: what it lists is ready on it, and of the
\* versions known what it does not list is not.
Observed(e, b, items) ==
  LET base == IF e.present THEN e ELSE Empty(NoCall)
      known == [v \in DOMAIN base.ready |->
                 IF v \in items THEN base.ready[v] \cup {b} ELSE base.ready[v] \ {b}]
      added == items \ (base.deletedVersions \cup DOMAIN known)
  IN IF (e.present /\ (e.busy \/ e.deleted)) \/ (~e.present /\ items = {}) THEN e
     ELSE [base EXCEPT !.ready = [v \in DOMAIN known \cup added |->
                                   IF v \in added THEN {b} ELSE known[v]]]

\* The answers of the workers one after the other; errors observe nothing.
Observe(c) ==
  /\ AllAnswered(c) /\ ~Mutates(c) /\ \E b \in Backends : call[c].net[b].st # "idle"
  /\ LET b == Min({x \in Backends : call[c].net[x].st # "idle"}) IN
     /\ entry' = IF call[c].net[b].st = "ok" /\ Fresh(c)
                 THEN Observed(entry, b, call[c].net[b].items) ELSE entry
     /\ call' = [call EXCEPT ![c].net[b].st = "idle"]
  /\ UNCHANGED <<adapterEpoch, store, late, faults, lost, acked, gone>>

ObservedAll(c) ==
  /\ call[c].pc = "broadcast" /\ ~Mutates(c)
  /\ \A b \in Backends : call[c].net[b].st = "idle"
  /\ call' = [call EXCEPT ![c] = IF @.kind = "list" THEN Returned
                                 ELSE [@ EXCEPT !.pc = "listed"]]
  /\ UNCHANGED <<entry, adapterEpoch, store, late, faults, lost, acked, gone>>

-----------------------------------------------------------------------------
\* resolveAdapterVersion: the current version, or the only one known.
Resolved(v) ==
  CASE ~entry.present \/ entry.busy \/ entry.deleted \/ v \in entry.deletedVersions -> v
    [] v # NoVersion -> v
    [] entry.current # NoVersion -> entry.current
    [] Cardinality(DOMAIN entry.ready) = 1 -> CHOOSE x \in DOMAIN entry.ready : TRUE
    [] OTHER -> NoVersion

\* ... and whether the lists are to be fetched before the choice.
NeedsRefresh(v) ==
  \/ ~entry.present
  \/ /\ ~entry.busy /\ ~entry.deleted /\ v \notin entry.deletedVersions
     /\ ReadyOn(entry, Resolved(v)) = {}

BeginInference(c, v) ==
  /\ Arrives(c, "infer")
  /\ LET r == [call[c] EXCEPT !.kind = "infer", !.version = Resolved(v)]
     IN call' = [call EXCEPT ![c] =
          IF NeedsRefresh(v) THEN SnapshotAndList(c, r) ELSE [r EXCEPT !.pc = "resolved"]]
  /\ UNCHANGED <<entry, adapterEpoch, store, late, faults, lost, acked, gone>>

adapterReadyLocked(v, b) ==
  entry.present /\ ~entry.busy /\ ~entry.deleted /\ b \in ReadyOn(entry, v)

\* After the lists the version is resolved once more.
ResolveAgain(c) ==
  /\ call[c].pc = "listed"
  /\ call' = [call EXCEPT ![c].pc = "resolved", ![c].version = Resolved(@)]
  /\ UNCHANGED <<entry, adapterEpoch, store, late, faults, lost, acked, gone>>

\* acquireWithAdapter, under the lock again: one of the workers that are ready
\* by then, as load and health have it.
Acquire(c, b) ==
  /\ call[c].kind = "infer" /\ call[c].pc = "resolved"
  /\ adapterReadyLocked(call[c].version, b)
  /\ call' = [call EXCEPT ![c].pc = "forward", ![c].backend = b]
  /\ UNCHANGED <<entry, adapterEpoch, store, late, faults, lost, acked, gone>>

\* 503: no worker is ready, or none of the ready ones is healthy.
Unavailable(c) ==
  /\ call[c].kind = "infer" /\ call[c].pc = "resolved"
  /\ call' = [call EXCEPT ![c] = Returned]
  /\ UNCHANGED <<entry, adapterEpoch, store, late, faults, lost, acked, gone>>

\* The worker answers, or the transport fails, which says nothing of adapters.
Forward(c) ==
  /\ call[c].pc = "forward"
  /\ \E missing \in {FALSE, call[c].version \notin store[call[c].backend]} :
       call' = [call EXCEPT ![c] = IF missing THEN [@ EXCEPT !.pc = "missing"]
                                   ELSE Returned]
  /\ UNCHANGED <<entry, adapterEpoch, store, late, faults, lost, acked, gone>>

\* adapterUnavailable: "unknown adapter id" or "unknown adapter version".
MarkUnavailable(c) ==
  /\ call[c].pc = "missing"
  /\ LET v == call[c].version
         b == call[c].backend
     IN /\ entry' = IF entry.present /\ v \in DOMAIN entry.ready
                    THEN [entry EXCEPT !.ready[v] = @ \ {b}] ELSE entry
        /\ acked' = acked \ {<<v, b>>}
  /\ call' = [call EXCEPT ![c] = Returned]
  /\ UNCHANGED <<adapterEpoch, store, late, faults, lost, gone>>

-----------------------------------------------------------------------------
\* Steps of a handler; a broadcast answers or times out.
Handle(c) ==
  \/ \E b \in Backends : Answered(c, b) \/ Rejected(c, b) \/ AttemptFails(c, b)
  \/ FinishMutation(c) \/ DeferredComplete(c)
  \/ Observe(c) \/ ObservedAll(c)
  \/ ResolveAgain(c) \/ \E b \in Backends : Acquire(c, b)
  \/ Unavailable(c) \/ Forward(c) \/ MarkUnavailable(c)

NoFiles == [b \in Backends |-> NoVersion]

Next ==
  \/ \E c \in Calls :
       \/ \E file \in [Backends -> Versions] : BeginMutation(c, "upload", NoVersion, file)
       \/ \E v \in Versions \cup {NoVersion} :
            BeginMutation(c, "delete", v, NoFiles) \/ BeginInference(c, v)
       \/ BeginList(c)
       \/ Handle(c)
  \/ \E order \in late : LateEffect(order)
  \/ \E b \in Backends : Restart(b)

\* Every attempt has a deadline, so each broadcast and each handler goes on.
Spec == Init /\ [][Next]_vars /\ \A c \in Calls : WF_vars(Handle(c))

-----------------------------------------------------------------------------
ReadyMap == UNION {[D -> SUBSET Backends] : D \in SUBSET Versions}
VersionNames == Versions \cup {NoVersion}
PlacementRecord ==
  [present : BOOLEAN, owner : Calls \cup {NoCall},
   ready : ReadyMap, current : VersionNames, busy : BOOLEAN, deleted : BOOLEAN, deletedVersions : SUBSET Versions]
Orders == (Backends \X {"upload"} \X Versions) \cup (Backends \X {"delete"} \X VersionNames)
NetRecord ==
  [st : {"idle", "sent", "ok", "rejected", "err"}, tries : Nat, items : SUBSET Versions]
CallRecord ==
  [kind : {"none", "upload", "delete", "list", "infer"},
   pc : {"new", "broadcast", "reply", "listed", "resolved", "forward", "missing", "done"},
   version : VersionNames, file : [Backends -> VersionNames], epoch : Nat, previous : PlacementRecord,
   rollback : BOOLEAN, backend : Backends \cup {0}, net : [Backends -> NetRecord]]

\* Types; a placement is busy exactly while a mutation is under way.
TypeOK ==
  /\ entry \in PlacementRecord
  /\ adapterEpoch \in Nat
  /\ call \in [Calls -> CallRecord]
  /\ store \in [Backends -> SUBSET Versions]
  /\ late \subseteq Orders
  /\ faults \in Nat
  /\ lost \in [Backends -> SUBSET Versions]
  /\ acked \subseteq Versions \X Backends
  /\ gone \subseteq Versions \X BOOLEAN
  /\ entry.busy => \E c \in Calls : call[c].pc = "broadcast" /\ Mutates(c)

\* "Concurrent mutations of the same ID return 409; inference for that ID is
\* blocked during mutations" (router README): a mutation keeps its own busy
\* placement until it completes it, whatever an earlier handler's deferred
\* complete() does (adapter_placement.go:51).
MutationIsExclusive ==
  \A c \in Calls : call[c].pc = "broadcast" /\ Mutates(c) => entry.owner = c /\ entry.busy

\* A worker is offered to inference only for a version it has, or lost by
\* itself since: no order of uploads, partial deletions, retries and lists
\* leaves a version ready on a worker from which it was deleted.
ReadyIsReal ==
  \A v \in Versions, b \in Backends :
    adapterReadyLocked(v, b) => v \in store[b] \cup lost[b]

\* "Stale lists cannot undo upload/delete mutations" (router README): what a
\* completed upload acknowledged stays ready, through every list taken before
\* or during it and every failed list, until a deletion or the worker itself.
AckedStaysReady ==
  ~entry.busy => \A a \in acked : adapterReadyLocked(a[1], a[2])

\* A version deleted by name and acknowledged by no upload since is offered nowhere, even
\* where the deletion did not reach a worker that still lists it.
VersionStaysDeleted ==
  ~entry.busy => \A g \in gone : ~g[2] => ReadyOn(entry, g[1]) = {}

\* "Uncertain deletion stays disabled" (router README): the same for versions
\* deleted with the whole id and not uploaded again.
DeletedStaysDisabled ==
  \A g \in gone, b \in Backends : ~adapterReadyLocked(g[1], b)

=============================================================================
