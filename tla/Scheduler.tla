------------------------------ MODULE Scheduler ------------------------------
(***************************************************************************)
(* The continuous-batching scheduler of the inference engine               *)
(* (InferenceEngine::Scheduler): HTTP worker threads call generate(), one   *)
(* GPU owner thread (loop()) decodes the rows of all requests together.     *)
(*                                                                         *)
(* The two sides meet only in the scheduler's mutex (stopping, prefill,     *)
(* incoming), in each request's mutex (events, done) and in the request's   *)
(* atomic `cancelled`.  The owner's walks over rows are therefore split     *)
(* into one action per row, since each row reads `cancelled` and the event  *)
(* queue of its request afresh; what lies between two such reads is one     *)
(* action.  complete() reads `cancelled` twice and locks the queue up to    *)
(* three times; a consumer that acts in between ends with the same stats    *)
(* and the same events as one that acts just before, so it is one step.     *)
(*                                                                         *)
(* Data: a token is a count.  A state slice is the row it belongs to and    *)
(* the number of tokens it has consumed; a sampler row is the number of     *)
(* tokens in its penalty history; the text of an event is its number of     *)
(* tokens.                                                                 *)
(***************************************************************************)
EXTENDS Naturals, Sequences, FiniteSets, SequencesExt

CONSTANTS
  Requests,        \* one generate() call each
  Rows,            \* rows of all requests
  Owner,           \* Owner[r]: the request of row r
  RowsOf,          \* RowsOf[q]: the rows of q, in index order
  Adapters,        \* group keys: adapter identity and WKV precision
  AdapterOf,       \* AdapterOf[q]: the group key of q
  MaxTokens,       \* MaxTokens[q]: options.max_tokens
  TextStop,        \* requests whose options carry stop strings
  NotifyTextStop,  \* requests with an on_row_stop callback
  Controlled,      \* requests with a should_stop callback
  Flaky,           \* requests whose callbacks may refuse or throw
  BadOptions,      \* requests with a temperature out of range
  PrefillChunks,   \* PrefillChunks[q]: prompt chunks before generate()
  ChunkSize,       \* tokens buffered before a flush (0: only at the end)
  MaxRows,         \* --decode-batch-size
  EventLimit,      \* 128 in the code
  Failing,         \* group keys whose backend calls may fail
  MayStop,         \* whether the scheduler is ever destroyed
  Stalled          \* callers that may stop delivering for ever

ASSUME ConstantsAssumption ==
  /\ Owner \in [Rows -> Requests]
  /\ RowsOf \in [Requests -> Seq(Rows)]
  /\ \A q \in Requests : /\ Len(RowsOf[q]) > 0
                         /\ \A i \in 1..Len(RowsOf[q]) : Owner[RowsOf[q][i]] = q
  /\ \A r \in Rows : \E i \in 1..Len(RowsOf[Owner[r]]) : RowsOf[Owner[r]][i] = r
  /\ \A q \in Requests : \A i, j \in 1..Len(RowsOf[q]) :
        RowsOf[q][i] = RowsOf[q][j] => i = j
  /\ Adapters # {}
  /\ AdapterOf \in [Requests -> Adapters]
  /\ MaxTokens \in [Requests -> Nat]
  /\ PrefillChunks \in [Requests -> Nat]
  /\ TextStop \subseteq Requests /\ NotifyTextStop \subseteq Requests
  /\ Controlled \subseteq Requests /\ Flaky \subseteq Requests
  /\ BadOptions \subseteq Requests /\ IsFiniteSet(Rows)
  /\ Failing \subseteq Adapters /\ MayStop \in BOOLEAN
  /\ ChunkSize \in Nat /\ MaxRows \in Nat \ {0} /\ EventLimit \in Nat \ {0}
  /\ Stalled \subseteq Requests

VARIABLES
  stopping,      \* the destructor has begun
  prefill,       \* queued prefill chunks, named by their request
  incoming,      \* requests submitted and not yet seen by the owner
  client,        \* each caller's thread: stage, chunks done, its local batch
  req,           \* the shared Request objects
  row,           \* the Row objects
  exported,      \* each row's slice of its request's state and logits
  delivered,     \* tokens accepted by the caller's emit (history)
  groups,        \* one Group per key; absent = no rows and no incoming
  pending_rows,
  loop           \* the owner thread's local variables

queues    == <<stopping, prefill, incoming>>
callers   == <<client, delivered>>
objects   == <<req, row, exported>>
placement == <<groups, pending_rows>>
vars == <<stopping, prefill, incoming, client, req, row, exported, delivered,
          groups, pending_rows, loop>>

-----------------------------------------------------------------------------
Event    == [row : Rows, tokens : Nat, stop : BOOLEAN]
Slice    == [of : Rows, fed : Nat]
Slot     == [of : Rows, fed : Nat, hist : Nat]
LiveRow  == [row : Rows, old : Nat]
Group    == [rows : Seq(Rows), incoming : Seq(Rows), slots : Seq(Slot)]
Stages   == {"new", "prefilling", "waiting", "delivering", "returned", "threw"}
Ended    == {"returned", "threw"}
Phases   == {"top", "arrive", "admit", "chunk", "check", "sweep", "rebuild", "sample",
             "forward", "fail", "exited"}

EmptyGroup == [rows |-> <<>>, incoming |-> <<>>, slots |-> <<>>]
Members(a) == groups[a].rows \o groups[a].incoming
Absent(a)  == Members(a) = <<>>

Init ==
  /\ stopping = FALSE
  /\ prefill = <<>>
  /\ incoming = <<>>
  /\ client = [q \in Requests |->
       [stage |-> "new", chunks |-> 0, batch |-> <<>>,
        done |-> FALSE, accepting |-> TRUE, callback_error |-> FALSE]]
  /\ req = [q \in Requests |->
       [events |-> <<>>, cancelled |-> FALSE, done |-> FALSE, error |-> FALSE,
        remaining |-> Len(RowsOf[q])]]
  /\ row = [r \in Rows |->
       [step |-> 0, pending |-> 0, buffered |-> 0, finished |-> FALSE,
        completed |-> FALSE, saved_sampler |-> 0, reason |-> "length",
        matched |-> FALSE]]
  /\ exported = [r \in Rows |-> [of |-> r, fed |-> 0]]
  /\ delivered = [r \in Rows |-> 0]
  /\ groups = [a \in Adapters |-> EmptyGroup]
  /\ pending_rows = <<>>
  /\ loop = [pc |-> "top", shutdown |-> FALSE, arrivals |-> <<>>,
             chunk |-> <<>>, at |-> 1,
             occupied |-> 0, todo |-> {}, cur |-> CHOOSE a \in Adapters : TRUE,
             pass |-> 1, live |-> <<>>]

-----------------------------------------------------------------------------
(* The callers.  execute_prefill() queues one chunk and waits for it.      *)
SubmitPrefill(q) ==
  /\ client[q].stage = "new" /\ client[q].chunks < PrefillChunks[q]
  /\ IF stopping
       THEN client' = [client EXCEPT ![q].stage = "threw"] /\ UNCHANGED prefill
       ELSE /\ client' = [client EXCEPT ![q].stage = "prefilling"]
            /\ prefill' = Append(prefill, q)
  /\ UNCHANGED <<stopping, incoming, objects, delivered, placement, loop>>

(* generate() up to the wait: a bad request never reaches the owner.       *)
SubmitGenerate(q) ==
  /\ client[q].stage = "new" /\ client[q].chunks >= PrefillChunks[q]
  /\ IF stopping \/ q \in BadOptions
       THEN client' = [client EXCEPT ![q].stage = "threw"] /\ UNCHANGED incoming
       ELSE /\ client' = [client EXCEPT ![q].stage = "waiting"]
            /\ incoming' = Append(incoming, q)
  /\ UNCHANGED <<stopping, prefill, objects, delivered, placement, loop>>

(* One turn of generate()'s loop: take the queued events and `done` under  *)
(* the request's mutex (a 10 ms timeout that finds neither is a stutter).  *)
Take(q) ==
  /\ client[q].stage = "waiting"
  /\ req[q].done \/ req[q].events # <<>>
  /\ client' = [client EXCEPT ![q].stage = "delivering", ![q].done = req[q].done,
                              ![q].batch = req[q].events]
  /\ req' = [req EXCEPT ![q].events = <<>>]
  /\ UNCHANGED <<queues, row, exported, delivered, placement, loop>>

(* Deliver one event outside the lock: on_row_stop, then emit.  emit may    *)
(* accept, refuse (no more emits, cancel) or throw (drop the rest, cancel). *)
Accept(q, e) ==
  /\ client[q].accepting
  /\ delivered' = [delivered EXCEPT ![e.row] = @ + e.tokens]
  /\ client' = [client EXCEPT ![q].batch = Tail(@)]
  /\ UNCHANGED req
Refuse(q) ==
  /\ q \in Flaky /\ client[q].accepting
  /\ client' = [client EXCEPT ![q].batch = Tail(@), ![q].accepting = FALSE]
  /\ req' = [req EXCEPT ![q].cancelled = TRUE]
  /\ UNCHANGED delivered
Throw(q, e) ==
  /\ q \in Flaky
  /\ client[q].accepting \/ (e.stop /\ q \in NotifyTextStop)
  /\ client' = [client EXCEPT ![q].batch = <<>>, ![q].callback_error = TRUE]
  /\ req' = [req EXCEPT ![q].cancelled = TRUE]
  /\ UNCHANGED delivered
Skip(q) ==
  /\ ~client[q].accepting
  /\ client' = [client EXCEPT ![q].batch = Tail(@)]
  /\ UNCHANGED <<req, delivered>>
Drop(q) ==
  /\ client' = [client EXCEPT ![q].batch = <<>>]
  /\ UNCHANGED <<req, delivered>>

Deliver(q) ==
  /\ client[q].stage = "delivering" /\ client[q].batch # <<>>
  /\ IF client[q].callback_error
       THEN Drop(q)
       ELSE LET e == Head(client[q].batch)
            IN  Accept(q, e) \/ Refuse(q) \/ Throw(q, e) \/ Skip(q)
  /\ UNCHANGED <<queues, row, exported, placement, loop>>

(* mark_interrupted(): every "length" of the request becomes "stop".       *)
Interrupted(rw, q) ==
  [s \in Rows |-> IF Owner[s] = q THEN [rw[s] EXCEPT !.reason = "stop"] ELSE rw[s]]

(* The batch is delivered: wait again, or leave generate().                *)
Conclude(q) ==
  /\ client[q].stage = "delivering" /\ client[q].batch = <<>>
  /\ LET fails == client[q].callback_error \/ req[q].error
         next  == CASE ~client[q].done -> "waiting"
                    [] client[q].done /\ fails -> "threw"
                    [] client[q].done /\ ~fails -> "returned"
     IN  /\ client' = [client EXCEPT ![q].stage = next]
         /\ row' = IF next = "returned" /\ req[q].cancelled
                     THEN Interrupted(row, q) ELSE row
  /\ UNCHANGED <<queues, req, exported, delivered, placement, loop>>

(* ~Scheduler(): from here on submissions throw; the worker is joined.     *)
Destroy ==
  /\ MayStop /\ ~stopping
  /\ stopping' = TRUE
  /\ UNCHANGED <<prefill, incoming, callers, objects, placement, loop>>

-----------------------------------------------------------------------------
(* What the owner does to one row.                                         *)
Backpressured(q) == Len(req[q].events) >= EventLimit

TextEvent(r, n) ==
  IF n = 0 THEN <<>> ELSE <<[row |-> r, tokens |-> n, stop |-> FALSE]>>
StopEvent(r, cancelled) ==
  IF /\ row[r].reason = "stop" /\ ~cancelled
     /\ Owner[r] \in NotifyTextStop \/ ~row[r].matched
    THEN <<[row |-> r, tokens |-> 0, stop |-> TRUE]>> ELSE <<>>

FinalEvents(r, cancelled) == TextEvent(r, row[r].pending) \o StopEvent(r, cancelled)

(* complete(row): flush what is left, notify a stop, count the row down,    *)
(* and with the request's last row set done.  `cancelled` is the flag the   *)
(* call reads.                                                             *)
CompleteRow(r, cancelled) ==
  LET rw == [row EXCEPT ![r].completed = TRUE, ![r].pending = 0, ![r].buffered = 0]
  IN  IF row[r].completed THEN row
      ELSE IF cancelled THEN Interrupted(rw, Owner[r]) ELSE rw
CountDownLate(r, cancelled) ==
  [req EXCEPT ![Owner[r]].events = @ \o FinalEvents(r, cancelled),
              ![Owner[r]].remaining = @ - 1,
              ![Owner[r]].done = req[Owner[r]].remaining = 0]
CountDown(r, cancelled) ==
  [req EXCEPT ![Owner[r]].events = @ \o FinalEvents(r, cancelled),
              ![Owner[r]].remaining = @ - 1,
              ![Owner[r]].done = req[Owner[r]].remaining = 1]
CompleteReq(r, cancelled) == IF row[r].completed THEN req ELSE CountDown(r, cancelled)

(* export_row(group, slot): the slot's content goes to the request.        *)
Export(r, slot) == [exported EXCEPT ![r] = [of |-> slot.of, fed |-> slot.fed]]

-----------------------------------------------------------------------------
(* The owner's loop.  It sleeps while there is nothing to do; waiting rows  *)
(* alone wake it every 10 ms.  Under the mutex it takes all arrivals and at *)
(* most one prefill chunk, and reads `stopping`.                           *)
Awake == \/ incoming # <<>> \/ prefill # <<>> \/ stopping \/ pending_rows # <<>>
         \/ \E a \in Adapters : ~Absent(a)

LoopTop ==
  /\ loop.pc = "top" /\ Awake
  /\ incoming' = <<>>
  /\ prefill' = IF prefill = <<>> THEN <<>> ELSE Tail(prefill)
  /\ loop' = [loop EXCEPT !.pc = "arrive", !.arrivals = incoming,
                          !.shutdown = stopping,
                          !.chunk = IF prefill = <<>> THEN <<>> ELSE <<Head(prefill)>>]
  /\ UNCHANGED <<stopping, callers, objects, placement>>

(* admit(req): its rows join the pending ones, in index order.             *)
Admit ==
  /\ loop.pc = "arrive" /\ loop.arrivals # <<>>
  /\ pending_rows' = pending_rows \o RowsOf[Head(loop.arrivals)]
  /\ loop' = [loop EXCEPT !.arrivals = Tail(@)]
  /\ UNCHANGED <<queues, callers, objects, groups>>

(* A shutdown cancels every pending request; then admit_pending() counts   *)
(* the occupied slots, all groups together.                                *)
Places == UNION {{a} \X (1..Len(Members(a))) : a \in Adapters}
Cancel(qs) ==
  [q \in Requests |-> IF q \in qs THEN [req[q] EXCEPT !.cancelled = TRUE] ELSE req[q]]
OwnersOf(s) == {Owner[s[i]] : i \in 1..Len(s)}

PendingSurviveShutdown == req
PendingAfterShutdown == IF loop.shutdown THEN Cancel(OwnersOf(pending_rows)) ELSE req

Arrived ==
  /\ loop.pc = "arrive" /\ loop.arrivals = <<>>
  /\ req' = PendingAfterShutdown
  /\ loop' = [loop EXCEPT !.pc = "admit", !.at = 1, !.occupied = Cardinality(Places)]
  /\ UNCHANGED <<queues, callers, row, exported, placement>>

(* admit_pending(), one pending row: complete a cancelled or empty one,    *)
(* leave it while there is no slot or its caller lags, else give it a slot. *)
DeadIfEmpty(r) == MaxTokens[Owner[r]] <= 0
Dead(r) == req[Owner[r]].cancelled \/ MaxTokens[Owner[r]] <= 0
NoFreeSlotOffByOne == loop.occupied > MaxRows
NoFreeSlot == loop.occupied >= MaxRows

AdmitRow ==
  /\ loop.pc = "admit" /\ loop.at <= Len(pending_rows)
  /\ LET r == pending_rows[loop.at]
         q == Owner[r]
     IN  \/ /\ Dead(r)
            /\ row' = CompleteRow(r, req[q].cancelled)
            /\ req' = CompleteReq(r, req[q].cancelled)
            /\ pending_rows' = RemoveAt(pending_rows, loop.at)
            /\ UNCHANGED <<groups, loop>>
         \/ /\ ~Dead(r)
            /\ NoFreeSlot \/ Backpressured(q)
            /\ loop' = [loop EXCEPT !.at = @ + 1]
            /\ UNCHANGED <<row, req, placement>>
         \/ /\ ~Dead(r)
            /\ ~NoFreeSlot /\ ~Backpressured(q)
            /\ groups' = [groups EXCEPT ![AdapterOf[q]].incoming = Append(@, r)]
            /\ loop' = [loop EXCEPT !.occupied = @ + 1]
            /\ pending_rows' = RemoveAt(pending_rows, loop.at)
            /\ UNCHANGED <<row, req>>
  /\ UNCHANGED <<queues, callers, exported>>

AdmitDone ==
  /\ loop.pc = "admit" /\ loop.at > Len(pending_rows)
  /\ loop' = [loop EXCEPT !.pc = "chunk", !.at = 1, !.occupied = 0]
  /\ UNCHANGED <<queues, callers, objects, placement>>

(* The prefill chunk taken at the top; its exception goes to its caller.   *)
RunChunk ==
  /\ loop.pc = "chunk"
  /\ \/ /\ loop.chunk = <<>>
        /\ UNCHANGED client
     \/ /\ loop.chunk # <<>>
        /\ \/ client' = [client EXCEPT ![loop.chunk[1]].stage = "new",
                                       ![loop.chunk[1]].chunks = @ + 1]
           \/ client' = [client EXCEPT ![loop.chunk[1]].stage = "threw"]
  /\ loop' = [loop EXCEPT !.pc = "check", !.chunk = <<>>]
  /\ UNCHANGED <<queues, objects, delivered, placement>>

(* should_stop(), once per request with a row in a group or pending: it     *)
(* goes on, stops the request, or throws into it.  Then the sweep begins.   *)
Resident == (UNION {ToSet(Members(a)) : a \in Adapters}) \cup ToSet(pending_rows)

CheckControls ==
  /\ loop.pc = "check"
  /\ LET asked == {q \in Controlled : /\ ~req[q].cancelled
                                      /\ \E r \in Resident : Owner[r] = q /\ ~row[r].completed}
     IN  \E answer \in [asked -> {"go", "stop", "throw"}] :
           req' = [q \in Requests |->
                     IF q \in asked /\ answer[q] # "go"
                       THEN [req[q] EXCEPT !.cancelled = TRUE, !.error = answer[q] = "throw"]
                       ELSE req[q]]
  /\ loop' = [loop EXCEPT !.pc = "sweep", !.todo = {a \in Adapters : ~Absent(a)}]
  /\ UNCHANGED <<queues, callers, row, exported, placement>>

(* The sweep: step() each group, in any order.                             *)
BeginStep(a) ==
  /\ loop.pc = "sweep" /\ a \in loop.todo
  /\ req' = IF loop.shutdown THEN Cancel(OwnersOf(Members(a))) ELSE req
  /\ loop' = [loop EXCEPT !.pc = "rebuild", !.todo = @ \ {a}, !.cur = a,
                          !.pass = 1, !.at = 1, !.live = <<>>]
  /\ UNCHANGED <<queues, callers, row, exported, placement>>

(* The end of a sweep: a shutdown ends the loop once nothing is left.      *)
EndSweep ==
  /\ loop.pc = "sweep" /\ loop.todo = {}
  /\ LET drained == /\ \A a \in Adapters : Absent(a)
                    /\ pending_rows = <<>> /\ incoming = <<>> /\ prefill = <<>>
     IN  loop' = [loop EXCEPT !.pc = IF loop.shutdown /\ drained THEN "exited" ELSE "top"]
  /\ UNCHANGED <<queues, callers, objects, placement>>

-----------------------------------------------------------------------------
(* step(group) = rebuild(allow_pause); sample; rebuild; forward; rebuild.   *)
(* rebuild(), one member: an old row that is finished or cancelled is       *)
(* exported and completed; one whose caller lags is exported and returned   *)
(* to the pending rows (first pass only); the others live on.              *)
Current == groups[loop.cur]

Leaves(r) == req[Owner[r]].cancelled \/ row[r].finished

RebuildRow ==
  /\ loop.pc = "rebuild" /\ loop.at <= Len(Members(loop.cur))
  /\ LET r == Members(loop.cur)[loop.at]
         q == Owner[r]
         old == loop.at <= Len(Current.rows)
         ends == IF old THEN Leaves(r) ELSE Dead(r)
         pauses == old /\ loop.pass = 1 /\ Backpressured(q)
     IN  \/ /\ old /\ row[r].completed
            /\ loop' = [loop EXCEPT !.at = @ + 1]
            /\ UNCHANGED <<objects, pending_rows>>
         \/ /\ ~(old /\ row[r].completed) /\ ends
            /\ exported' = IF old THEN Export(r, Current.slots[loop.at]) ELSE exported
            /\ row' = CompleteRow(r, req[q].cancelled)
            /\ req' = CompleteReq(r, req[q].cancelled)
            /\ loop' = [loop EXCEPT !.at = @ + 1]
            /\ UNCHANGED pending_rows
         \/ /\ ~(old /\ row[r].completed) /\ ~ends /\ pauses
            /\ exported' = Export(r, Current.slots[loop.at])
            /\ row' = [row EXCEPT ![r].saved_sampler = Current.slots[loop.at].hist]
            /\ pending_rows' = Append(pending_rows, r)
            /\ loop' = [loop EXCEPT !.at = @ + 1]
            /\ UNCHANGED req
         \/ /\ ~(old /\ row[r].completed) /\ ~ends /\ ~pauses
            /\ loop' = [loop EXCEPT !.at = @ + 1,
                          !.live = Append(@, [row |-> r, old |-> IF old THEN loop.at ELSE 0])]
            /\ UNCHANGED <<objects, pending_rows>>
  /\ UNCHANGED <<queues, callers, groups>>

(* rebuild(), the new batch: old rows keep their slot's state, logits and   *)
(* sampler, a newcomer starts from its request's state and its saved one.   *)
PackedSlotNewSampler(l) ==
  IF l.old > 0 THEN Current.slots[l.old]
  ELSE [of |-> exported[l.row].of, fed |-> exported[l.row].fed, hist |-> 0]
PackedSlot(l) ==
  IF l.old > 0 THEN Current.slots[l.old]
  ELSE [of |-> exported[l.row].of, fed |-> exported[l.row].fed,
        hist |-> row[l.row].saved_sampler]

AfterRebuild(empty) ==
  CASE loop.pass = 1 /\ ~empty -> "sample"
    [] loop.pass = 2 /\ ~empty -> "forward"
    [] loop.pass = 3 \/ empty  -> "sweep"

Rebuilt(leftover) ==
  [rows     |-> [i \in 1..Len(loop.live) |-> loop.live[i].row],
   incoming |-> leftover,
   slots    |-> [i \in 1..Len(loop.live) |-> PackedSlot(loop.live[i])]]
RebuiltKeepingIncoming == Rebuilt(Current.incoming)
RebuiltGroup == Rebuilt(<<>>)

RebuildCommit ==
  /\ loop.pc = "rebuild" /\ loop.at > Len(Members(loop.cur))
  /\ groups' = [groups EXCEPT ![loop.cur] = RebuiltGroup]
  /\ row' = [r \in Rows |->
       IF [row |-> r, old |-> 0] \in ToSet(loop.live)
         THEN [row[r] EXCEPT !.saved_sampler = 0] ELSE row[r]]
  /\ loop' = [loop EXCEPT !.pc = AfterRebuild(loop.live = <<>>), !.at = 1, !.live = <<>>]
  /\ UNCHANGED <<queues, callers, req, exported, pending_rows>>

(* Sampling, one row.  EOS (only without stop strings) finishes the row and *)
(* is not shown; any other token is shown, may match a stop string, and is  *)
(* flushed once a chunk is full, less an incomplete UTF-8 tail.            *)
SampleEos(r) ==
  /\ Owner[r] \notin TextStop
  /\ row' = [row EXCEPT ![r].reason = "stop", ![r].finished = TRUE]
  /\ UNCHANGED req

SampleToken(r) ==
  LET q == Owner[r]
      n == row[r].pending + 1
      full == ChunkSize > 0 /\ row[r].buffered + 1 >= ChunkSize
  IN  \E match \in (IF q \in TextStop THEN BOOLEAN ELSE {FALSE}),
         kept \in (IF full THEN 0..n ELSE {n}) :
        /\ row' = [row EXCEPT
             ![r].step = @ + 1, ![r].pending = kept,
             ![r].buffered = IF full THEN 0 ELSE @ + 1,
             ![r].matched = @ \/ match,
             ![r].reason = IF match THEN "stop" ELSE @]
        /\ req' = [req EXCEPT ![q].events = @ \o TextEvent(r, n - kept)]

SampleRow ==
  /\ loop.pc = "sample" /\ loop.at <= Len(Current.rows)
  /\ SampleEos(Current.rows[loop.at]) \/ SampleToken(Current.rows[loop.at])
  /\ groups' = [groups EXCEPT ![loop.cur].slots[loop.at].hist = @ + 1]
  /\ loop' = [loop EXCEPT !.at = @ + 1]
  /\ UNCHANGED <<queues, callers, exported, pending_rows>>

SampleDone ==
  /\ loop.pc = "sample" /\ loop.at > Len(Current.rows)
  /\ loop' = [loop EXCEPT !.pc = "rebuild", !.pass = 2, !.at = 1, !.live = <<>>]
  /\ UNCHANGED <<queues, callers, objects, placement>>

(* forward_decode(): every slot consumes its row's token; rows at their     *)
(* length limit or with a matched stop string finish.                      *)
Fed(slots) == [i \in 1..Len(slots) |-> [slots[i] EXCEPT !.fed = @ + 1]]
Forward ==
  /\ loop.pc = "forward"
  /\ groups' = [groups EXCEPT ![loop.cur].slots = Fed(@)]
  /\ row' = [r \in Rows |->
       IF /\ r \in ToSet(Current.rows)
          /\ row[r].step >= MaxTokens[Owner[r]] \/ row[r].reason = "stop"
         THEN [row[r] EXCEPT !.finished = TRUE] ELSE row[r]]
  /\ loop' = [loop EXCEPT !.pc = "rebuild", !.pass = 3, !.at = 1, !.live = <<>>]
  /\ UNCHANGED <<queues, callers, req, exported, pending_rows>>

(* An exception of the backend or of sampling (a CUDA error ends the        *)
(* process instead) leaves step() and fails the whole group: every row not  *)
(* yet completed completes with the error.                                 *)
StepThrows ==
  /\ loop.pc \in {"rebuild", "sample", "forward"} /\ loop.cur \in Failing
  /\ loop' = [loop EXCEPT !.pc = "fail", !.at = 1]
  /\ UNCHANGED <<queues, callers, objects, placement>>

FailRow ==
  /\ loop.pc = "fail" /\ loop.at <= Len(Members(loop.cur))
  /\ LET r == Members(loop.cur)[loop.at]
     IN  /\ row' = CompleteRow(r, TRUE)
         /\ req' = IF row[r].completed THEN req
                   ELSE [CompleteReq(r, TRUE) EXCEPT ![Owner[r]].error = TRUE,
                                                     ![Owner[r]].cancelled = TRUE]
  /\ loop' = [loop EXCEPT !.at = @ + 1]
  /\ UNCHANGED <<queues, callers, exported, placement>>

FailDone ==
  /\ loop.pc = "fail" /\ loop.at > Len(Members(loop.cur))
  /\ groups' = [groups EXCEPT ![loop.cur] = EmptyGroup]
  /\ loop' = [loop EXCEPT !.pc = "sweep", !.at = 1, !.pass = 1, !.live = <<>>]
  /\ UNCHANGED <<queues, callers, objects, pending_rows>>

-----------------------------------------------------------------------------
Client(q) == \/ SubmitPrefill(q) \/ SubmitGenerate(q)
             \/ Take(q) \/ Deliver(q) \/ Conclude(q)

Loop == \/ LoopTop \/ Admit \/ Arrived \/ AdmitRow \/ AdmitDone \/ RunChunk
        \/ CheckControls \/ (\E a \in Adapters : BeginStep(a)) \/ EndSweep
        \/ RebuildRow \/ RebuildCommit \/ SampleRow \/ SampleDone \/ Forward
        \/ StepThrows \/ FailRow \/ FailDone

(* Every caller has left; the owner sleeps or has been joined.             *)
Terminated == /\ \A q \in Requests : client[q].stage \in Ended
              /\ loop.pc = "exited" \/ (loop.pc = "top" /\ ~MayStop)
              /\ UNCHANGED vars

Next == Loop \/ (\E q \in Requests : Client(q)) \/ Destroy \/ Terminated

Spec == Init /\ [][Next]_vars

-----------------------------------------------------------------------------
ClientRecord == [stage : Stages, chunks : Nat, batch : Seq(Event), done : BOOLEAN,
                 accepting : BOOLEAN, callback_error : BOOLEAN]
RequestRecord == [events : Seq(Event), cancelled : BOOLEAN, done : BOOLEAN,
                  error : BOOLEAN, remaining : Nat]
RowRecord == [step : Nat, pending : Nat, buffered : Nat, finished : BOOLEAN,
              completed : BOOLEAN, saved_sampler : Nat,
              reason : {"length", "stop"}, matched : BOOLEAN]
LoopRecord == [pc : Phases, shutdown : BOOLEAN, arrivals : Seq(Requests),
               chunk : Seq(Requests), at : Nat, occupied : Nat,
               todo : SUBSET Adapters, cur : Adapters, pass : 1..3,
               live : Seq(LiveRow)]

(* Types of the variables (queues, Request, Row and Group objects, the     *)
(* owner's locals).                                                        *)
TypeOK ==
  /\ stopping \in BOOLEAN
  /\ prefill \in Seq(Requests)
  /\ incoming \in Seq(Requests)
  /\ client \in [Requests -> ClientRecord]
  /\ req \in [Requests -> RequestRecord]
  /\ row \in [Rows -> RowRecord]
  /\ exported \in [Rows -> Slice]
  /\ delivered \in [Rows -> Nat]
  /\ groups \in [Adapters -> Group]
  /\ pending_rows \in Seq(Rows)
  /\ loop \in LoopRecord

-----------------------------------------------------------------------------
(* --decode-batch-size bounds the rows of all groups together, also while  *)
(* rows pause, finish, fail and are admitted again.                        *)
SlotCap == Cardinality(Places) <= MaxRows

(* remaining counts the rows complete() has not seen, and done is set with *)
(* the last of them: no path (finish, cancel, pause then failure, shutdown)*)
(* completes a row twice or forgets one.                                   *)
CompletionAccounting ==
  \A q \in Requests :
    /\ req[q].remaining = Cardinality({r \in Rows : Owner[r] = q /\ ~row[r].completed})
    /\ req[q].done <=> req[q].remaining = 0

(* A row that is still to complete has exactly one home: its request waits *)
(* in incoming or arrivals, or it is pending, or in one position of the    *)
(* group of its adapter.  While a group is rebuilt or failed, a row paused *)
(* by that rebuild is pending and still listed by the group.               *)
Homes(r) ==
  Cardinality({i \in 1..Len(incoming) : incoming[i] = Owner[r]})
  + Cardinality({i \in 1..Len(loop.arrivals) : loop.arrivals[i] = Owner[r]})
  + Cardinality({i \in 1..Len(pending_rows) : pending_rows[i] = r})
  + Cardinality({p \in Places : Members(p[1])[p[2]] = r})

RowHasOneHome ==
  \A r \in Rows :
    LET q == Owner[r]
        inside == client[q].stage \in {"waiting", "delivering"}
    IN  ~row[r].completed =>
          IF loop.pc \in {"rebuild", "fail"} /\ r \in ToSet(Members(loop.cur))
            THEN inside /\ Homes(r) = IF r \in ToSet(pending_rows) THEN 2 ELSE 1
            ELSE Homes(r) = IF inside THEN 1 ELSE 0

(* generate() leaves only after the owner has let go of all its rows, so   *)
(* the caller may destroy state and logits: no row of a call that has      *)
(* ended is sampled, forwarded or in the batch being built, and those      *)
(* still listed are completed ones, which the owner drops untouched.       *)
CallerOutlivesRows ==
  LET batch == {loop.live[i].row : i \in 1..Len(loop.live)}
               \cup IF loop.pc \in {"sample", "forward"} THEN ToSet(Current.rows) ELSE {}
  IN  /\ \A r \in Resident : client[Owner[r]].stage \in Ended => row[r].completed
      /\ loop.pc # "fail" => \A r \in batch : client[Owner[r]].stage \notin Ended

-----------------------------------------------------------------------------
(* A row is sampled from its own slot, whose state has consumed exactly    *)
(* the tokens the row has shown and whose penalty history holds exactly    *)
(* those: packing, pausing and resuming lose, repeat and mix up nothing.   *)
SampledFromOwnState ==
  loop.pc = "sample" =>
    \A i \in loop.at..Len(Current.rows) :
      LET r == Current.rows[i]
      IN  Current.slots[i] = [of |-> r, fed |-> row[r].step, hist |-> row[r].step]

TokensOf(e, r) == IF e.row = r THEN e.tokens ELSE 0
TokensIn(s, r) ==
  LET sum[i \in 0..Len(s)] == IF i = 0 THEN 0 ELSE sum[i - 1] + TokensOf(s[i], r)
  IN  sum[Len(s)]

(* No output is lost or repeated while the caller accepts it: what it has  *)
(* got, what it holds, what is queued and what is buffered in the row make *)
(* up the tokens generated so far.                                         *)
OutputConserved ==
  \A r \in Rows :
    LET q == Owner[r]
    IN  client[q].accepting /\ ~client[q].callback_error =>
          delivered[r] + TokensIn(client[q].batch, r) + TokensIn(req[q].events, r)
            + row[r].pending = row[r].step

(* A call that returns and never refused output (it ended by itself, or    *)
(* should_stop or the shutdown stopped it) has delivered every token, and  *)
(* its state has consumed every one of them and nothing else, so that a    *)
(* session or a paused request can go on from it.                          *)
ReturnedStateMatchesOutput ==
  \A r \in Rows :
    LET c == client[Owner[r]]
    IN  c.stage = "returned" /\ c.accepting =>
          /\ delivered[r] = row[r].step
          /\ exported[r] = [of |-> r, fed |-> row[r].step]

(* Also a cancelled call of a single row returns a state that has consumed *)
(* every token its caller accepted, whenever the cancellation came.        *)
SingleRowStateCoversOutput ==
  \A q \in Requests :
    Len(RowsOf[q]) = 1 /\ client[q].stage = "returned" =>
      LET r == RowsOf[q][1]
      IN  exported[r].of = r /\ delivered[r] <= exported[r].fed

(* The same for calls of several rows.                                     *)
StateCoversOutput ==
  \A r \in Rows :
    client[Owner[r]].stage = "returned" => delivered[r] <= exported[r].fed

(* The stop notice of a row is its last event: nothing follows it in what  *)
(* the caller holds or will take.                                          *)
StopNoticeIsLast ==
  \A q \in Requests :
    LET s == client[q].batch \o req[q].events
    IN  \A i, j \in 1..Len(s) : s[i].stop /\ i < j => s[j].row # s[i].row

(* Backpressure bounds the queue of a caller that does not read: below the *)
(* limit when last checked, then at most one flush per row in that sweep   *)
(* and two events per row when it completes.                               *)
EventQueueBounded ==
  \A q \in Requests : Len(req[q].events) <= EventLimit - 1 + 3 * Len(RowsOf[q])

(* What a caller and its state see of its rows is what was generated, each *)
(* of the properties above.                                                *)
OutputIsFaithful ==
  /\ SampledFromOwnState
  /\ OutputConserved
  /\ ReturnedStateMatchesOutput
  /\ SingleRowStateCoversOutput
  /\ StopNoticeIsLast
  /\ EventQueueBounded

-----------------------------------------------------------------------------
(* The owner thread runs whenever it can; so does a caller's thread unless *)
(* its callback blocks for ever.                                           *)
Fairness == /\ WF_vars(Loop)
            /\ \A q \in Requests \ Stalled : WF_vars(Client(q))
FairSpec == Spec /\ Fairness

(* Every call of a caller that keeps reading ends, even if the others      *)
(* never read again.                                                       *)
EveryCallEnds == \A q \in Requests \ Stalled : <>(client[q].stage \in Ended)

(* The destructor's join returns: the owner drains and exits, with no help *)
(* from callers that no longer read.                                       *)
DestructorReturns == stopping ~> loop.pc = "exited"

(* Nobody waits for ever for another's thread, neither a caller for the    *)
(* owner nor the destructor for both.                                      *)
EveryoneReturns == EveryCallEnds /\ DestructorReturns
=============================================================================
