-------------------------- MODULE StateReplication --------------------------
(***************************************************************************)
(* The Go router's replication of one uploaded State: state_placement.go,  *)
(* state_sync.go and state_http.go over the same broadcast as adapters.    *)
(* An id has the UUID of one upload, so an id is uploaded once and, when   *)
(* the router has been restarted, is known to it only by lists.            *)
(***************************************************************************)
EXTENDS Integers, FiniteSets, FiniteSetsExt

CONSTANTS
  Backends,             \* 1..n, in the order of the configuration
  Signatures,           \* sizes and tensor structures a worker may report
  Calls,                \* HTTP requests to the router
  Attempts,             \* state_upload_max_attempts
  MaxOpen,              \* bound: requests handled at a time
  MaxFaults             \* bound: failed attempts and restarts

StateAssumption ==
  /\ Backends = 1..Cardinality(Backends) /\ Backends # {}
  /\ Signatures # {}
  /\ Attempts \in Nat \ {0} /\ MaxOpen \in Nat /\ MaxFaults \in Nat

VARIABLES
  entry,                \* s.states[id]
  stateEpoch,           \* s.stateEpoch
  call,                 \* the handler of each request
  store,                \* what each worker has under the id (external)
  upload,               \* the one upload: its content, and whether it was sent
  late,                 \* attempts given up that a worker may still perform
  faults,               \* faults so far
  lost,                 \* history: workers that lost it without a broadcast
  acked,                \* history: workers that acknowledged the upload and kept it
  gone                  \* history: a deletion was not rejected

vars == <<entry, stateEpoch, call, store, upload, late, faults, lost, acked, gone>>

Nothing == "nothing"
NoCall == "no call"

Entry(owner, deleted) ==
  [present |-> TRUE, owner |-> owner, ready |-> {}, active |-> TRUE,
   deleted |-> deleted, signature |-> Nothing]
NoEntry == [Entry(NoCall, FALSE) EXCEPT !.present = FALSE, !.active = FALSE]

NewCall == [kind |-> "none", pc |-> "new", epoch |-> 0, previous |-> NoEntry,
            backend |-> 0, rollback |-> FALSE,
            net |-> [b \in Backends |-> [st |-> "idle", tries |-> 0, info |-> Nothing]]]
Returned == [NewCall EXCEPT !.pc = "done"]

\* Either the id is yet to be uploaded, or workers have it from before the
\* router started, perhaps not the same file.
Init ==
  /\ entry = NoEntry /\ stateEpoch = 0
  /\ call = [c \in Calls |-> NewCall]
  /\ \/ /\ store = [b \in Backends |-> Nothing]
        /\ \E s \in Signatures : upload = [content |-> s, sent |-> FALSE]
     \/ /\ store \in [Backends -> Signatures \cup {Nothing}]
        /\ upload = [content |-> Nothing, sent |-> TRUE]
  /\ late = {} /\ faults = 0 /\ lost = {} /\ acked = {} /\ gone = FALSE

Arrives(c) ==
  /\ call[c].pc = "new"
  /\ Cardinality({d \in Calls : call[d].pc \notin {"new", "done"}}) < MaxOpen

-----------------------------------------------------------------------------
Broadcast(r, kind) ==
  [r EXCEPT !.kind = kind, !.pc = "broadcast",
            !.net = [b \in Backends |-> [st |-> "sent", tries |-> 0, info |-> Nothing]]]

\* beginStateMutation: a placement of its own, 409 while another is active.
Begin(c, kind) ==
  IF entry.active
  THEN call' = [call EXCEPT ![c] = Returned] /\ UNCHANGED <<entry, stateEpoch>>
  ELSE /\ stateEpoch' = stateEpoch + 1
       /\ entry' = Entry(c, kind = "delete")
       /\ call' = [call EXCEPT ![c] = Broadcast([@ EXCEPT !.previous = entry], kind)]

BeginUpload(c) ==
  /\ Arrives(c) /\ ~upload.sent
  /\ upload' = [upload EXCEPT !.sent = TRUE]
  /\ Begin(c, "upload")
  /\ UNCHANGED <<store, late, faults, lost, acked, gone>>

BeginDelete(c) ==
  /\ Arrives(c) /\ upload.sent
  /\ Begin(c, "delete")
  /\ UNCHANGED <<store, upload, late, faults, lost, acked, gone>>

\* /v1/state/list, and refreshState for an inference that needs it.
List(r, kind) == Broadcast([r EXCEPT !.epoch = stateEpoch], kind)

BeginList(c) ==
  /\ Arrives(c)
  /\ call' = [call EXCEPT ![c] = List(@, "list")]
  /\ UNCHANGED <<entry, stateEpoch, store, upload, late, faults, lost, acked, gone>>

needsStateRefresh ==
  ~entry.present \/ (~entry.active /\ ~entry.deleted /\ entry.ready = {})

BeginInference(c) ==
  /\ Arrives(c)
  /\ call' = [call EXCEPT ![c] = IF needsStateRefresh THEN List(@, "infer")
                                 ELSE [@ EXCEPT !.kind = "infer", !.pc = "resolved"]]
  /\ UNCHANGED <<entry, stateEpoch, store, upload, late, faults, lost, acked, gone>>

-----------------------------------------------------------------------------
Mutates(c) == call[c].kind \in {"upload", "delete"}

\* What a worker has after an order of this kind; it keeps a file it has.
Effect(kind, old) ==
  CASE kind = "upload" -> IF old = Nothing THEN upload.content ELSE old
    [] kind = "delete" -> Nothing
    [] OTHER -> old

Perform(kind, b) == store' = [store EXCEPT ![b] = Effect(kind, @)]

Answered(c, b) ==
  /\ call[c].pc = "broadcast" /\ call[c].net[b].st = "sent"
  /\ Perform(call[c].kind, b)
  /\ lost' = IF store'[b] # Nothing THEN lost \ {b} ELSE lost
  /\ call' = [call EXCEPT ![c].net[b] = [@ EXCEPT !.st = "ok", !.info = store'[b]]]
  /\ UNCHANGED <<entry, stateEpoch, upload, late, faults, acked, gone>>

Rejected(c, b) ==
  /\ call[c].pc = "broadcast" /\ call[c].net[b].st = "sent" /\ Mutates(c)
  /\ call' = [call EXCEPT ![c].net[b].st = "rejected"]
  /\ UNCHANGED <<entry, stateEpoch, store, upload, late, faults, lost, acked, gone>>

\* Only uploads are tried again; the effect is done, not done or yet to come.
AttemptFails(c, b) ==
  /\ call[c].pc = "broadcast" /\ call[c].net[b].st = "sent" /\ faults < MaxFaults
  /\ faults' = faults + 1
  /\ call' = [call EXCEPT ![c].net[b] =
       IF call[c].kind = "upload" /\ @.tries + 1 < Attempts
       THEN [@ EXCEPT !.tries = @ + 1] ELSE [@ EXCEPT !.st = "err"]]
  /\ \/ Perform(call[c].kind, b) /\ Mutates(c) /\ UNCHANGED late
     \/ UNCHANGED <<store, late>>
     \/ late' = late \cup {<<call[c].kind, b>>} /\ Mutates(c) /\ UNCHANGED store
  /\ UNCHANGED <<entry, stateEpoch, upload, lost, acked, gone>>

LateEffect(kind, b) ==
  /\ <<kind, b>> \in late
  /\ late' = late \ {<<kind, b>>}
  /\ Perform(kind, b)
  /\ lost' = IF store[b] # Nothing /\ store'[b] = Nothing THEN lost \cup {b} ELSE lost
  /\ acked' = IF store'[b] = Nothing THEN acked \ {b} ELSE acked
  /\ UNCHANGED <<entry, stateEpoch, call, upload, faults, gone>>

\* "A restarted runtime can lose its temporary State store" (proxy.go:105).
Restart(b) ==
  /\ faults < MaxFaults /\ store[b] # Nothing
  /\ faults' = faults + 1
  /\ store' = [store EXCEPT ![b] = Nothing]
  /\ lost' = lost \cup {b} /\ acked' = acked \ {b}
  /\ UNCHANGED <<entry, stateEpoch, call, upload, late, gone>>

-----------------------------------------------------------------------------
AllAnswered(c) ==
  call[c].pc = "broadcast" /\ \A b \in Backends : call[c].net[b].st # "sent"

rejectedMutation(c) == \A b \in Backends : call[c].net[b].st = "rejected"

\* confirmState on every good answer of an upload; the first sets the signature.
Acks(c) == {b \in Backends : call[c].net[b].st = "ok"}
Confirmed(e, c) ==
  IF call[c].kind # "upload" \/ Acks(c) = {} THEN e
  ELSE LET first == call[c].net[Min(Acks(c))].info
       IN [e EXCEPT !.signature = first,
                    !.ready = @ \cup {b \in Acks(c) : call[c].net[b].info = first}]

\* Mutant: any uncertain deletion gives the old placement back.
RollbackUncertain(c) ==
  call[c].kind = "delete" /\ \E b \in Backends : call[c].net[b].st # "ok"

\* A rejected upload leaves an empty placement, a rejected deletion the old one.
Rollback(c) == call[c].kind = "delete" /\ rejectedMutation(c)

\* "Lists begun during the mutation are stale too" (state_placement.go:80).
EpochAfterFinish == stateEpoch + 1

Finished(c) ==
  IF Rollback(c) THEN call[c].previous
  ELSE [Confirmed(entry, c) EXCEPT !.active = FALSE]

\* finishStateMutation; the second, deferred call finds nothing to finish.
FinishMutation(c) ==
  /\ AllAnswered(c) /\ Mutates(c)
  /\ stateEpoch' = EpochAfterFinish
  /\ entry' = Finished(c)
  /\ call' = [call EXCEPT ![c] = Returned]
  /\ gone' = (gone \/ (call[c].kind = "delete" /\ ~rejectedMutation(c)))
  /\ acked' = IF call[c].kind = "upload"
              THEN {b \in Confirmed(entry, c).ready : store[b] # Nothing}
              ELSE IF rejectedMutation(c) THEN acked ELSE {}
  /\ UNCHANGED <<store, upload, late, faults, lost>>

\* observeStateList of one worker: the first to list an unknown id defines it.
Observed(e, b, info) ==
  IF e.active \/ e.deleted \/ (~e.present /\ info = Nothing) THEN e
  ELSE LET base == IF e.present THEN e
                   ELSE [NoEntry EXCEPT !.present = TRUE, !.signature = info]
       IN [base EXCEPT !.ready =
             IF info # Nothing /\ base.signature \in {Nothing, info}
             THEN @ \cup {b} ELSE @ \ {b}]

Fresh(c) == stateEpoch = call[c].epoch

Observe(c) ==
  /\ AllAnswered(c) /\ ~Mutates(c) /\ \E b \in Backends : call[c].net[b].st # "idle"
  /\ LET b == Min({x \in Backends : call[c].net[x].st # "idle"}) IN
     /\ entry' = IF call[c].net[b].st = "ok" /\ Fresh(c)
                 THEN Observed(entry, b, call[c].net[b].info) ELSE entry
     /\ call' = [call EXCEPT ![c].net[b].st = "idle"]
  /\ UNCHANGED <<stateEpoch, store, upload, late, faults, lost, acked, gone>>

ObservedAll(c) ==
  /\ call[c].pc = "broadcast" /\ ~Mutates(c)
  /\ \A b \in Backends : call[c].net[b].st = "idle"
  /\ call' = [call EXCEPT ![c] = IF @.kind = "list" THEN Returned
                                 ELSE [@ EXCEPT !.pc = "resolved"]]
  /\ UNCHANGED <<entry, stateEpoch, store, upload, late, faults, lost, acked, gone>>

-----------------------------------------------------------------------------
stateReadyLocked(b) ==
  entry.present /\ ~entry.active /\ ~entry.deleted /\ b \in entry.ready

Acquire(c, b) ==
  /\ call[c].kind = "infer" /\ call[c].pc = "resolved" /\ stateReadyLocked(b)
  /\ call' = [call EXCEPT ![c].pc = "forward", ![c].backend = b]
  /\ UNCHANGED <<entry, stateEpoch, store, upload, late, faults, lost, acked, gone>>

\* 503: "no fallback to a zero State".
Unavailable(c) ==
  /\ call[c].kind = "infer" /\ call[c].pc = "resolved"
  /\ call' = [call EXCEPT ![c] = Returned]
  /\ UNCHANGED <<entry, stateEpoch, store, upload, late, faults, lost, acked, gone>>

Forward(c) ==
  /\ call[c].pc = "forward"
  /\ \E missing \in {FALSE, store[call[c].backend] = Nothing} :
       call' = [call EXCEPT ![c] = IF missing THEN [@ EXCEPT !.pc = "missing"] ELSE Returned]
  /\ UNCHANGED <<entry, stateEpoch, store, upload, late, faults, lost, acked, gone>>

\* stateUnavailable: the worker said "uploaded state not found".
MarkUnavailable(c) ==
  /\ call[c].pc = "missing"
  /\ entry' = IF entry.present THEN [entry EXCEPT !.ready = @ \ {call[c].backend}] ELSE entry
  /\ acked' = acked \ {call[c].backend}
  /\ call' = [call EXCEPT ![c] = Returned]
  /\ UNCHANGED <<stateEpoch, store, upload, late, faults, lost, gone>>

-----------------------------------------------------------------------------
Handle(c) ==
  \/ \E b \in Backends : Answered(c, b) \/ Rejected(c, b) \/ AttemptFails(c, b)
  \/ FinishMutation(c) \/ Observe(c) \/ ObservedAll(c)
  \/ \E b \in Backends : Acquire(c, b)
  \/ Unavailable(c) \/ Forward(c) \/ MarkUnavailable(c)

Next ==
  \/ \E c \in Calls : BeginUpload(c) \/ BeginDelete(c) \/ BeginList(c)
                      \/ BeginInference(c) \/ Handle(c)
  \/ \E kind \in {"upload", "delete"}, b \in Backends : LateEffect(kind, b)
  \/ \E b \in Backends : Restart(b)

\* Every attempt has a deadline, so each broadcast and each handler goes on.
Spec == Init /\ [][Next]_vars /\ \A c \in Calls : WF_vars(Handle(c))

-----------------------------------------------------------------------------
\* Types; a placement is active only while its own mutation is broadcast.
TypeOK ==
  /\ entry.ready \subseteq Backends
  /\ entry.signature \in Signatures \cup {Nothing}
  /\ stateEpoch \in 0..(2 * Cardinality(Calls))
  /\ store \in [Backends -> Signatures \cup {Nothing}]
  /\ entry.active => \E c \in Calls : /\ c = entry.owner /\ Mutates(c)
                                      /\ call[c].pc = "broadcast"

\* A State whose deletion was not rejected by every worker is never offered
\* again: not by lists, not by an upload attempt that lands late, not by a
\* second deletion that is rejected (router README, "uncertain deletion stays
\* blocked").
DeletionIsFinal == gone => \A b \in Backends : ~stateReadyLocked(b)

\* What a completed upload acknowledged stays ready until a deletion, or until
\* the worker loses it: no list taken before or during the upload removes it,
\* nor does a deletion that every worker rejects.
UploadStaysReady == ~entry.active => \A b \in acked : stateReadyLocked(b)

\* All workers offered for one id hold the same State, except those that lost
\* it by themselves since: inference may go to any of them.
ReplicasAgree ==
  \A b, d \in Backends :
    stateReadyLocked(b) /\ stateReadyLocked(d) /\ b \notin lost /\ d \notin lost =>
      store[b] = store[d] /\ store[b] # Nothing

=============================================================================
