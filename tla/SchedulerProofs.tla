--------------------------- MODULE SchedulerProofs ---------------------------
(***************************************************************************)
(* Proofs about the scheduler, for any number of calls, rows, group keys    *)
(* and slots, in three parts, each with an invariant on top of the last:    *)
(*   IInv  the types, what array accesses rely on, and the counts of rows;  *)
(*   HInv  where a row is: a row to complete is in exactly one of the       *)
(*         owner's queues and groups while its caller is inside generate(), *)
(*         but that a row paused by a rebuild is pending before the group   *)
(*         drops it, so it has two places while a group is rebuilt;         *)
(*   OInv  what a call gets: slots and saved states that have consumed the  *)
(*         tokens of their rows, and the events queued of them.             *)
(***************************************************************************)
EXTENDS Scheduler, FiniteSetTheorems, WellFoundedInduction, TLAPS

(* What the owner's array accesses rely on: a group has one slot per row,   *)
(* and a rebuild in progress has looked at more members than it kept.      *)
SlotPerRow == \A k \in Adapters : Len(groups[k].slots) = Len(groups[k].rows)
RebuildShape ==
  loop.pc = "rebuild" =>
    /\ loop.at <= Len(Members(loop.cur)) + 1
    /\ Len(loop.live) < loop.at
    /\ \A i \in 1..Len(loop.live) : loop.live[i].old <= Len(groups[loop.cur].rows)
Shape == loop.at > 0 /\ SlotPerRow /\ RebuildShape

(* The slots in use are finitely many and within the cap, and during       *)
(* admit_pending() `occupied` counts them.                                 *)
Capacity ==
  /\ IsFiniteSet(Places)
  /\ SlotCap
  /\ loop.pc = "admit" => loop.occupied = Cardinality(Places)

(* The inductive invariant. *)
IInv == TypeOK /\ Shape /\ CompletionAccounting /\ Capacity

-----------------------------------------------------------------------------
(* Updating one record of a variable keeps its type. *)
LEMMA ClientStage ==
  ASSUME NEW f \in [Requests -> ClientRecord], NEW q \in Requests, NEW v \in Stages
  PROVE  [f EXCEPT ![q].stage = v] \in [Requests -> ClientRecord]
  BY DEF ClientRecord
(* generate() takes the queued events and whether the call is done. *)
LEMMA ClientTake ==
  ASSUME NEW f \in [Requests -> ClientRecord], NEW q \in Requests,
         NEW s \in Stages, NEW d \in BOOLEAN, NEW t \in Seq(Event)
  PROVE  [f EXCEPT ![q].stage = s, ![q].done = d, ![q].batch = t] \in [Requests -> ClientRecord]
  BY DEF ClientRecord
(* generate() has handed one event to emit. *)
LEMMA ClientBatch ==
  ASSUME NEW f \in [Requests -> ClientRecord], NEW q \in Requests, NEW t \in Seq(Event)
  PROVE  [f EXCEPT ![q].batch = t] \in [Requests -> ClientRecord]
  BY DEF ClientRecord
(* emit answered false: no more events are handed over. *)
LEMMA ClientRefuse ==
  ASSUME NEW f \in [Requests -> ClientRecord], NEW q \in Requests, NEW t \in Seq(Event)
  PROVE  [f EXCEPT ![q].batch = t, ![q].accepting = FALSE] \in [Requests -> ClientRecord]
  BY DEF ClientRecord
(* emit threw: the exception is kept until the rows are done. *)
LEMMA ClientThrow ==
  ASSUME NEW f \in [Requests -> ClientRecord], NEW q \in Requests, NEW t \in Seq(Event)
  PROVE  [f EXCEPT ![q].batch = t, ![q].callback_error = TRUE] \in [Requests -> ClientRecord]
  BY DEF ClientRecord
(* execute_prefill() got one chunk back. *)
LEMMA ClientChunk ==
  ASSUME NEW f \in [Requests -> ClientRecord], NEW q \in Requests,
         NEW s \in Stages, NEW n \in Nat
  PROVE  [f EXCEPT ![q].stage = s, ![q].chunks = n] \in [Requests -> ClientRecord]
  BY DEF ClientRecord
(* Queuing or taking events keeps the requests' type. *)
LEMMA RequestEvents ==
  ASSUME NEW f \in [Requests -> RequestRecord], NEW q \in Requests, NEW e \in Seq(Event)
  PROVE  [f EXCEPT ![q].events = e] \in [Requests -> RequestRecord]
  BY DEF RequestRecord
(* Setting cancelled keeps the requests' type. *)
LEMMA RequestCancel ==
  ASSUME NEW f \in [Requests -> RequestRecord], NEW q \in Requests
  PROVE  [f EXCEPT ![q].cancelled = TRUE] \in [Requests -> RequestRecord]
  BY DEF RequestRecord
(* Storing an exception keeps the requests' type. *)
LEMMA RequestFail ==
  ASSUME NEW f \in [Requests -> RequestRecord], NEW q \in Requests
  PROVE  [f EXCEPT ![q].error = TRUE, ![q].cancelled = TRUE] \in [Requests -> RequestRecord]
  BY DEF RequestRecord
(* complete() queues events, counts down and may set done. *)
LEMMA RequestCount ==
  ASSUME NEW f \in [Requests -> RequestRecord], NEW q \in Requests,
         NEW e \in Seq(Event), NEW n \in Nat, NEW d \in BOOLEAN
  PROVE  [f EXCEPT ![q].events = e, ![q].remaining = n, ![q].done = d]
           \in [Requests -> RequestRecord]
  BY DEF RequestRecord
(* complete() marks the row and empties its text buffer. *)
LEMMA RowDone ==
  ASSUME NEW f \in [Rows -> RowRecord], NEW r \in Rows
  PROVE  [f EXCEPT ![r].completed = TRUE, ![r].pending = 0, ![r].buffered = 0]
           \in [Rows -> RowRecord]
  BY Zenon DEF RowRecord
(* step() marks a row that sampled an end token. *)
LEMMA RowEnded ==
  ASSUME NEW f \in [Rows -> RowRecord], NEW r \in Rows
  PROVE  [f EXCEPT ![r].reason = "stop", ![r].finished = TRUE] \in [Rows -> RowRecord]
  BY DEF RowRecord
(* rebuild() saves the sampler of a row it sets aside. *)
LEMMA RowPaused ==
  ASSUME NEW f \in [Rows -> RowRecord], NEW r \in Rows, NEW n \in Nat
  PROVE  [f EXCEPT ![r].saved_sampler = n] \in [Rows -> RowRecord]
  BY DEF RowRecord
(* A sequence of one element. *)
LEMMA SingletonSeq == ASSUME NEW S, NEW e \in S PROVE <<e>> \in Seq(S)
  OBVIOUS
(* What flush() and complete() queue are events. *)
LEMMA EventTypes ==
  ASSUME TypeOK, NEW r \in Rows, NEW n \in Nat, NEW c \in BOOLEAN
  PROVE  /\ TextEvent(r, n) \in Seq(Event)
         /\ StopEvent(r, c) \in Seq(Event)
         /\ FinalEvents(r, c) \in Seq(Event)
<1>1. \A k \in Nat : TextEvent(r, k) \in Seq(Event)
  <2> TAKE k \in Nat
  <2>1. [row |-> r, tokens |-> k, stop |-> FALSE] \in Event
    BY DEF Event
  <2>2. <<[row |-> r, tokens |-> k, stop |-> FALSE]>> \in Seq(Event)
    BY <2>1, SingletonSeq
  <2>3. <<>> \in Seq(Event)
    OBVIOUS
  <2> QED BY <2>2, <2>3 DEF TextEvent
<1>2. StopEvent(r, c) \in Seq(Event)
  <2>1. [row |-> r, tokens |-> 0, stop |-> TRUE] \in Event
    BY DEF Event
  <2>2. <<[row |-> r, tokens |-> 0, stop |-> TRUE]>> \in Seq(Event)
    BY <2>1, SingletonSeq
  <2>3. <<>> \in Seq(Event)
    OBVIOUS
  <2> QED BY <2>2, <2>3 DEF StopEvent
<1>3. row[r].pending \in Nat
  BY DEF TypeOK, RowRecord
<1>4. TextEvent(r, row[r].pending) \in Seq(Event)
  BY <1>1, <1>3
<1> QED BY <1>1, <1>2, <1>4 DEF FinalEvents

-----------------------------------------------------------------------------
(* Every step keeps the types: one lemma per action or family of actions. *)
LEMMA InitType == Init => TypeOK
<1> SUFFICES ASSUME Init PROVE TypeOK
  OBVIOUS
<1>1. stopping \in BOOLEAN
  BY DEF Init
<1>2. prefill \in Seq(Requests) /\ incoming \in Seq(Requests) /\ pending_rows \in Seq(Rows)
  BY DEF Init
<1>3. client \in [Requests -> ClientRecord]
  <2>1. <<>> \in Seq(Event) /\ "new" \in Stages
    BY DEF Stages
  <2> QED BY <2>1 DEF Init, ClientRecord
<1>4. req \in [Requests -> RequestRecord]
  <2>1. <<>> \in Seq(Event) /\ \A q \in Requests : Len(RowsOf[q]) \in Nat
    BY ConstantsAssumption
  <2> QED BY <2>1 DEF Init, RequestRecord
<1>5. row \in [Rows -> RowRecord]
  BY DEF Init, RowRecord
<1>6. exported \in [Rows -> Slice] /\ delivered \in [Rows -> Nat]
  BY DEF Init, Slice
<1>7. groups \in [Adapters -> Group]
  <2>1. <<>> \in Seq(Rows) /\ <<>> \in Seq(Slot)
    OBVIOUS
  <2> QED BY <2>1 DEF Init, Group, EmptyGroup
<1>8. loop \in LoopRecord
  <2>1. <<>> \in Seq(Requests) /\ <<>> \in Seq(LiveRow) /\ "top" \in Phases
    BY DEF Phases
  <2>2. (CHOOSE a \in Adapters : TRUE) \in Adapters
    BY ConstantsAssumption
  <2>3. {} \in SUBSET Adapters /\ 1 \in 1..3
    OBVIOUS
  <2> QED BY <2>1, <2>2, <2>3 DEF Init, LoopRecord
<1> QED BY <1>1, <1>2, <1>3, <1>4, <1>5, <1>6, <1>7, <1>8 DEF TypeOK

(* execute_prefill() and generate() submit their work. *)
LEMMA SubmitType ==
  ASSUME TypeOK, NEW q \in Requests, SubmitPrefill(q) \/ SubmitGenerate(q)
  PROVE  TypeOK'
<1>1. client' \in [Requests -> ClientRecord]
  <2>1. client \in [Requests -> ClientRecord]
    BY DEF TypeOK
  <2>2. \E v \in Stages : client' = [client EXCEPT ![q].stage = v]
    BY DEF SubmitPrefill, SubmitGenerate, Stages
  <2> QED BY <2>1, <2>2, ClientStage
<1>2. prefill' \in Seq(Requests) /\ incoming' \in Seq(Requests)
  <2>1. prefill \in Seq(Requests) /\ incoming \in Seq(Requests)
    BY DEF TypeOK
  <2>2. Append(prefill, q) \in Seq(Requests) /\ Append(incoming, q) \in Seq(Requests)
    BY <2>1
  <2> QED BY <2>1, <2>2 DEF SubmitPrefill, SubmitGenerate
<1> QED BY <1>1, <1>2 DEF TypeOK, SubmitPrefill, SubmitGenerate, objects, placement

(* generate() wakes up and takes the queued events. *)
LEMMA TakeType ==
  ASSUME TypeOK, NEW q \in Requests, Take(q)
  PROVE  TypeOK'
<1>1. /\ client \in [Requests -> ClientRecord] /\ req \in [Requests -> RequestRecord]
      /\ req[q].done \in BOOLEAN /\ req[q].events \in Seq(Event)
      /\ "delivering" \in Stages /\ <<>> \in Seq(Event)
  BY DEF TypeOK, RequestRecord, Stages
<1>2. client' \in [Requests -> ClientRecord]
  BY <1>1, ClientTake, Zenon DEF Take
<1>3. req' \in [Requests -> RequestRecord]
  BY <1>1, RequestEvents DEF Take
<1> QED BY <1>2, <1>3 DEF TypeOK, Take, queues, placement

(* emit accepts, refuses, throws or is skipped. *)
LEMMA DeliverType ==
  ASSUME TypeOK, NEW q \in Requests, Deliver(q)
  PROVE  TypeOK'
<1>1. client \in [Requests -> ClientRecord] /\ req \in [Requests -> RequestRecord]
  BY DEF TypeOK
<1>2. client[q].batch \in Seq(Event) /\ client[q].batch # <<>>
  BY <1>1 DEF Deliver, ClientRecord
<1>3. /\ Tail(client[q].batch) \in Seq(Event) /\ Head(client[q].batch) \in Event
      /\ <<>> \in Seq(Event)
  BY <1>2
<1>4. client' \in [Requests -> ClientRecord]
  <2>1. \E t \in Seq(Event) :
           \/ client' = [client EXCEPT ![q].batch = t]
           \/ client' = [client EXCEPT ![q].batch = t, ![q].accepting = FALSE]
           \/ client' = [client EXCEPT ![q].batch = t, ![q].callback_error = TRUE]
    BY <1>3 DEF Deliver, Accept, Refuse, Throw, Skip, Drop
  <2> QED BY <1>1, <2>1, ClientBatch, ClientRefuse, ClientThrow
<1>5. req' \in [Requests -> RequestRecord]
  <2>1. req' = req \/ req' = [req EXCEPT ![q].cancelled = TRUE]
    BY DEF Deliver, Accept, Refuse, Throw, Skip, Drop
  <2> QED BY <1>1, <2>1, RequestCancel
<1>6. delivered' \in [Rows -> Nat]
  <2>1. \/ delivered' = delivered
        \/ delivered' = [delivered EXCEPT ![Head(client[q].batch).row]
                                            = @ + Head(client[q].batch).tokens]
    BY DEF Deliver, Accept, Refuse, Throw, Skip, Drop
  <2>2. Head(client[q].batch).row \in Rows /\ Head(client[q].batch).tokens \in Nat
    BY <1>3 DEF Event
  <2>3. delivered \in [Rows -> Nat]
    BY DEF TypeOK
  <2> QED BY <2>1, <2>2, <2>3
<1> QED BY <1>4, <1>5, <1>6 DEF TypeOK, Deliver, queues, placement

(* mark_interrupted() keeps the rows' type. *)
LEMMA InterruptedType ==
  ASSUME NEW f \in [Rows -> RowRecord], NEW q \in Requests
  PROVE  Interrupted(f, q) \in [Rows -> RowRecord]
<1>1. \A s \in Rows : [f[s] EXCEPT !.reason = "stop"] \in RowRecord
  BY DEF RowRecord
<1> QED BY <1>1 DEF Interrupted

(* generate() returns. *)
LEMMA ConcludeType ==
  ASSUME TypeOK, NEW q \in Requests, Conclude(q)
  PROVE  TypeOK'
<1>1. client \in [Requests -> ClientRecord] /\ row \in [Rows -> RowRecord]
  BY DEF TypeOK
<1>2. client[q].done \in BOOLEAN
  BY <1>1 DEF ClientRecord
<1>3. client' \in [Requests -> ClientRecord]
  <2>1. \E v \in Stages : client' = [client EXCEPT ![q].stage = v]
    BY <1>2 DEF Conclude, Stages
  <2> QED BY <1>1, <2>1, ClientStage
<1>4. row' \in [Rows -> RowRecord]
  <2>1. row' = row \/ row' = Interrupted(row, q)
    BY DEF Conclude
  <2> QED BY <1>1, <2>1, InterruptedType
<1> QED BY <1>3, <1>4 DEF TypeOK, Conclude, queues, placement

(* The destructor asks the owner to stop. *)
LEMMA DestroyType ==
  ASSUME TypeOK, Destroy
  PROVE  TypeOK'
  BY DEF TypeOK, Destroy, callers, objects, placement

(* The owner wakes up and swaps in what arrived. *)
LEMMA LoopTopType ==
  ASSUME TypeOK, LoopTop
  PROVE  TypeOK'
<1>1. prefill \in Seq(Requests) /\ incoming \in Seq(Requests) /\ loop \in LoopRecord
      /\ stopping \in BOOLEAN
  BY DEF TypeOK
<1>2. prefill # <<>> => Tail(prefill) \in Seq(Requests) /\ Head(prefill) \in Requests
  BY <1>1
<1>3. <<>> \in Seq(Requests)
  OBVIOUS
<1>4. prefill' \in Seq(Requests) /\ incoming' \in Seq(Requests)
  BY <1>1, <1>2, <1>3 DEF LoopTop
<1>5. loop' \in LoopRecord
  <2> DEFINE c == IF prefill = <<>> THEN <<>> ELSE <<Head(prefill)>>
  <2>1. c \in Seq(Requests)
    BY <1>2, <1>3, SingletonSeq
  <2>2. loop' = [loop EXCEPT !.pc = "arrive", !.arrivals = incoming, !.shutdown = stopping,
                             !.chunk = c]
    BY DEF LoopTop
  <2> HIDE DEF c
  <2> QED BY <1>1, <2>1, <2>2 DEF LoopRecord, Phases
<1> QED BY <1>4, <1>5 DEF TypeOK, LoopTop, callers, objects, placement

(* admit() turns an arrived request into pending rows. *)
LEMMA AdmitType ==
  ASSUME TypeOK, Admit
  PROVE  TypeOK'
<1>1. loop \in LoopRecord /\ loop.arrivals \in Seq(Requests) /\ pending_rows \in Seq(Rows)
  BY DEF TypeOK, LoopRecord
<1>2. Head(loop.arrivals) \in Requests /\ Tail(loop.arrivals) \in Seq(Requests)
  BY <1>1 DEF Admit
<1>3. pending_rows' \in Seq(Rows)
  <2>1. RowsOf[Head(loop.arrivals)] \in Seq(Rows)
    BY <1>2, ConstantsAssumption
  <2> QED BY <1>1, <2>1 DEF Admit
<1>4. loop' \in LoopRecord
  BY <1>1, <1>2 DEF Admit, LoopRecord
<1> QED BY <1>3, <1>4 DEF TypeOK, Admit, queues, callers, objects

(* Erasing one element leaves a sequence. *)
LEMMA RemoveAtType ==
  ASSUME NEW S, NEW s \in Seq(S), NEW i \in 1..Len(s)
  PROVE  RemoveAt(s, i) \in Seq(S)
  BY DEF RemoveAt

(* The members of a group: its rows, then the ones to join. *)
LEMMA MembersType ==
  ASSUME TypeOK, NEW a \in Adapters
  PROVE  /\ groups[a] \in Group
         /\ groups[a].rows \in Seq(Rows) /\ groups[a].incoming \in Seq(Rows)
         /\ groups[a].slots \in Seq(Slot)
         /\ Members(a) \in Seq(Rows)
         /\ Len(Members(a)) = Len(groups[a].rows) + Len(groups[a].incoming)
<1>1. groups[a] \in Group
  BY DEF TypeOK
<1>2. /\ groups[a].rows \in Seq(Rows) /\ groups[a].incoming \in Seq(Rows)
      /\ groups[a].slots \in Seq(Slot)
  BY <1>1 DEF Group
<1> QED BY <1>1, <1>2 DEF Members

(* Cancelling some requests keeps their type. *)
LEMMA CancelType ==
  ASSUME TypeOK, NEW S
  PROVE  Cancel(S) \in [Requests -> RequestRecord]
<1>1. req \in [Requests -> RequestRecord]
  BY DEF TypeOK
<1>2. \A q \in Requests : [req[q] EXCEPT !.cancelled = TRUE] \in RequestRecord
  BY <1>1 DEF RequestRecord
<1> QED BY <1>1, <1>2 DEF Cancel

(* The rows of q that complete() has not seen. *)
Uncompleted(q) == {r \in Rows : Owner[r] = q /\ ~row[r].completed}

(* The accounting, for one request. *)
LEMMA UncompletedFacts ==
  ASSUME TypeOK, CompletionAccounting, NEW q \in Requests
  PROVE  /\ IsFiniteSet(Uncompleted(q))
         /\ Cardinality(Uncompleted(q)) \in Nat
         /\ req[q].remaining = Cardinality(Uncompleted(q))
         /\ req[q].done <=> req[q].remaining = 0
<1>1. IsFiniteSet(Rows) /\ Uncompleted(q) \subseteq Rows
  BY ConstantsAssumption DEF Uncompleted
<1>2. IsFiniteSet(Uncompleted(q))
  BY <1>1, FS_Subset
<1>3. Cardinality(Uncompleted(q)) \in Nat
  BY <1>2, FS_CardinalityType
<1> QED BY <1>2, <1>3 DEF CompletionAccounting, Uncompleted

(* While a row is not completed its request's count is not 0. *)
LEMMA RemainingPositive ==
  ASSUME TypeOK, CompletionAccounting, NEW r \in Rows, ~row[r].completed
  PROVE  Owner[r] \in Requests /\ req[Owner[r]].remaining \in Nat \ {0}
<1>1. Owner[r] \in Requests
  BY ConstantsAssumption
<1>2. r \in Uncompleted(Owner[r])
  BY DEF Uncompleted
<1>3. Cardinality(Uncompleted(Owner[r])) # 0
  BY <1>1, <1>2, UncompletedFacts, FS_EmptySet
<1> QED BY <1>1, <1>3, UncompletedFacts

(* What complete() does to the row keeps its type. *)
LEMMA CompleteRowType ==
  ASSUME TypeOK, NEW r \in Rows, NEW c \in BOOLEAN
  PROVE  CompleteRow(r, c) \in [Rows -> RowRecord]
<1> DEFINE rw == [row EXCEPT ![r].completed = TRUE, ![r].pending = 0, ![r].buffered = 0]
<1>1. row \in [Rows -> RowRecord] /\ Owner[r] \in Requests
  BY ConstantsAssumption DEF TypeOK
<1>2. rw \in [Rows -> RowRecord]
  BY <1>1, RowDone, Zenon
<1>3. CompleteRow(r, c) = row \/ CompleteRow(r, c) = rw
      \/ CompleteRow(r, c) = Interrupted(rw, Owner[r])
  BY DEF CompleteRow
<1> HIDE DEF rw
<1> QED BY <1>1, <1>2, <1>3, InterruptedType

(* What complete() does to the request keeps its type: the count exists. *)
LEMMA CompleteReqType ==
  ASSUME TypeOK, CompletionAccounting, NEW r \in Rows, NEW c \in BOOLEAN
  PROVE  CompleteReq(r, c) \in [Requests -> RequestRecord]
<1>1. req \in [Requests -> RequestRecord]
  BY DEF TypeOK
<1>2. CASE row[r].completed
  BY <1>1, <1>2 DEF CompleteReq
<1>3. CASE ~row[r].completed
  <2> DEFINE q == Owner[r]
             e == req[q].events \o FinalEvents(r, c)
             n == req[q].remaining - 1
             d == req[q].remaining = 1
  <2>1. q \in Requests /\ req[q].remaining \in Nat \ {0}
    BY <1>3, RemainingPositive
  <2>2. n \in Nat /\ d \in BOOLEAN
    BY <2>1
  <2>3. e \in Seq(Event)
    <3>1. req[q].events \in Seq(Event)
      BY <1>1, <2>1 DEF RequestRecord
    <3>2. FinalEvents(r, c) \in Seq(Event)
      BY EventTypes
    <3> QED BY <3>1, <3>2
  <2>4. CompleteReq(r, c) = [req EXCEPT ![q].events = e, ![q].remaining = n, ![q].done = d]
    BY <1>1, <1>3, <2>1 DEF CompleteReq, CountDown
  <2>5. \A b \in BOOLEAN :
          [req EXCEPT ![q].events = e, ![q].remaining = n, ![q].done = b]
            \in [Requests -> RequestRecord]
    <3> HIDE DEF q, e, n
    <3> QED BY <1>1, <2>1, <2>2, <2>3, RequestCount, Zenon
  <2> QED BY <2>2, <2>4, <2>5
<1> QED BY <1>2, <1>3

(* A shutdown cancels the pending rows; the slots in use are counted. *)
LEMMA ArrivedType ==
  ASSUME TypeOK, Capacity, Arrived
  PROVE  TypeOK'
<1>1. req' \in [Requests -> RequestRecord]
  <2>1. req' = req \/ req' = Cancel(OwnersOf(pending_rows))
    BY DEF Arrived, PendingAfterShutdown
  <2>2. req \in [Requests -> RequestRecord]
    BY DEF TypeOK
  <2> QED BY <2>1, <2>2, CancelType
<1>2. loop' \in LoopRecord
  <2> DEFINE n == Cardinality(Places)
  <2>1. n \in Nat
    BY FS_CardinalityType DEF Capacity
  <2>2. loop \in LoopRecord /\ "admit" \in Phases
    BY DEF TypeOK, Phases
  <2>3. loop' = [loop EXCEPT !.pc = "admit", !.at = 1, !.occupied = n]
    BY DEF Arrived
  <2> HIDE DEF n
  <2> QED BY <2>1, <2>2, <2>3, Zenon DEF LoopRecord
<1> QED BY <1>1, <1>2 DEF TypeOK, Arrived, queues, callers, placement

(* admit_pending() drops, leaves or admits one pending row. *)
LEMMA AdmitRowType ==
  ASSUME TypeOK, Shape, CompletionAccounting, AdmitRow
  PROVE  TypeOK'
<1> DEFINE r == pending_rows[loop.at]
           q == Owner[r]
<1>1. loop \in LoopRecord /\ pending_rows \in Seq(Rows) /\ groups \in [Adapters -> Group]
      /\ row \in [Rows -> RowRecord] /\ req \in [Requests -> RequestRecord]
  BY DEF TypeOK
<1>2. loop.at \in 1..Len(pending_rows) /\ loop.at \in Nat /\ loop.occupied \in Nat
  BY <1>1 DEF AdmitRow, LoopRecord, Shape
<1>3. r \in Rows /\ q \in Requests /\ AdapterOf[q] \in Adapters
  <2>1. r \in Rows
    BY <1>1, <1>2
  <2> HIDE DEF r
  <2> QED BY <2>1, ConstantsAssumption
<1>4. req[q].cancelled \in BOOLEAN
  BY <1>1, <1>3 DEF RequestRecord
<1>5. pending_rows' \in Seq(Rows)
  <2>1. RemoveAt(pending_rows, loop.at) \in Seq(Rows)
    BY <1>1, <1>2, RemoveAtType
  <2> QED BY <1>1, <2>1, Zenon DEF AdmitRow, placement
<1>6. row' \in [Rows -> RowRecord]
  BY <1>1, <1>3, <1>4, CompleteRowType, Zenon DEF AdmitRow
<1>7. req' \in [Requests -> RequestRecord]
  BY <1>1, <1>3, <1>4, CompleteReqType, Zenon DEF AdmitRow
<1>8. groups' \in [Adapters -> Group]
  <2> DEFINE s == Append(groups[AdapterOf[q]].incoming, r)
  <2>1. s \in Seq(Rows)
    <3>1. groups[AdapterOf[q]].incoming \in Seq(Rows)
      BY <1>3, MembersType
    <3> HIDE DEF r
    <3> QED BY <1>3, <3>1
  <2>2. groups' = groups \/ groups' = [groups EXCEPT ![AdapterOf[q]].incoming = s]
    BY <1>1, <1>3, Zenon DEF AdmitRow, placement
  <2> HIDE DEF s, q
  <2> QED BY <1>1, <1>3, <2>1, <2>2 DEF Group
<1>9. loop' \in LoopRecord
  <2> DEFINE n == loop.at + 1
             o == loop.occupied + 1
  <2>1. n \in Nat /\ o \in Nat
    BY <1>2
  <2>2. loop' = loop \/ loop' = [loop EXCEPT !.at = n] \/ loop' = [loop EXCEPT !.occupied = o]
    BY <1>1 DEF AdmitRow, LoopRecord
  <2> HIDE DEF n, o
  <2> QED BY <1>1, <2>1, <2>2 DEF LoopRecord
<1> QED BY <1>5, <1>6, <1>7, <1>8, <1>9, Zenon DEF TypeOK, AdmitRow, queues, callers

(* admit_pending() returns. *)
LEMMA AdmitDoneType ==
  ASSUME TypeOK, AdmitDone
  PROVE  TypeOK'
<1>1. loop' \in LoopRecord
  BY DEF TypeOK, AdmitDone, LoopRecord, Phases
<1> QED BY <1>1 DEF TypeOK, AdmitDone, queues, callers, objects, placement

(* The owner runs one prefill chunk. *)
LEMMA RunChunkType ==
  ASSUME TypeOK, RunChunk
  PROVE  TypeOK'
<1>1. loop \in LoopRecord /\ client \in [Requests -> ClientRecord]
  BY DEF TypeOK
<1>2. loop' \in LoopRecord
  <2>1. <<>> \in Seq(Requests) /\ "check" \in Phases
    BY DEF Phases
  <2> QED BY <1>1, <2>1 DEF RunChunk, LoopRecord
<1>3. client' \in [Requests -> ClientRecord]
  <2>1. CASE loop.chunk = <<>>
    BY <1>1, <2>1 DEF RunChunk
  <2>2. CASE loop.chunk # <<>>
    <3> DEFINE q == loop.chunk[1]
               n == client[q].chunks + 1
    <3>1. q \in Requests
      <4>1. loop.chunk \in Seq(Requests)
        BY <1>1 DEF LoopRecord
      <4> QED BY <2>2, <4>1
    <3>2. n \in Nat
      BY <1>1, <3>1 DEF ClientRecord
    <3>3. \/ client' = [client EXCEPT ![q].stage = "new", ![q].chunks = n]
          \/ client' = [client EXCEPT ![q].stage = "threw"]
      BY <1>1, <2>2, <3>1 DEF RunChunk
    <3>4. "new" \in Stages /\ "threw" \in Stages
      BY DEF Stages
    <3> HIDE DEF q, n
    <3> QED BY <1>1, <3>1, <3>2, <3>3, <3>4, ClientStage, ClientChunk
  <2> QED BY <2>1, <2>2
<1> QED BY <1>2, <1>3 DEF TypeOK, RunChunk, queues, objects, placement

(* The owner asks every should_stop. *)
LEMMA CheckControlsType ==
  ASSUME TypeOK, CheckControls
  PROVE  TypeOK'
<1>1. loop \in LoopRecord /\ req \in [Requests -> RequestRecord]
  BY DEF TypeOK
<1>2. loop' \in LoopRecord
  <2> DEFINE t == {a \in Adapters : ~Absent(a)}
  <2>1. t \in SUBSET Adapters /\ "sweep" \in Phases
    BY DEF Phases
  <2>2. loop' = [loop EXCEPT !.pc = "sweep", !.todo = t]
    BY Zenon DEF CheckControls
  <2> HIDE DEF t
  <2> QED BY <1>1, <2>1, <2>2 DEF LoopRecord
<1>3. req' \in [Requests -> RequestRecord]
  <2>1. \A q \in Requests, b \in BOOLEAN :
          [req[q] EXCEPT !.cancelled = TRUE, !.error = b] \in RequestRecord
    BY <1>1 DEF RequestRecord
  <2> DEFINE asked == {q \in Controlled :
                /\ ~req[q].cancelled
                /\ \E r \in Resident : Owner[r] = q /\ ~row[r].completed}
  <2>2. PICK answer \in [asked -> {"go", "stop", "throw"}] :
          req' = [q \in Requests |->
                    IF q \in asked /\ answer[q] # "go"
                      THEN [req[q] EXCEPT !.cancelled = TRUE, !.error = answer[q] = "throw"]
                      ELSE req[q]]
    BY Zenon DEF CheckControls
  <2>3. \A q \in Requests : (answer[q] = "throw") \in BOOLEAN
    OBVIOUS
  <2> HIDE DEF asked
  <2> QED BY <1>1, <2>1, <2>2, <2>3, Zenon
<1> QED BY <1>2, <1>3, Zenon DEF TypeOK, CheckControls, queues, callers, placement

(* A pass over a group starts at its first member. *)
LEMMA LoopRestart ==
  ASSUME NEW l \in LoopRecord, NEW p \in Phases, NEW n \in 1..3
  PROVE  [l EXCEPT !.pc = p, !.pass = n, !.at = 1, !.live = <<>>] \in LoopRecord
<1>1. <<>> \in Seq(LiveRow)
  OBVIOUS
<1> QED BY <1>1 DEF LoopRecord

(* step() begins with one group. *)
LEMMA BeginStepType ==
  ASSUME TypeOK, NEW a \in Adapters, BeginStep(a)
  PROVE  TypeOK'
<1>1. loop \in LoopRecord /\ req \in [Requests -> RequestRecord]
  BY DEF TypeOK
<1>2. req' \in [Requests -> RequestRecord]
  BY <1>1, CancelType DEF BeginStep
<1>3. loop' \in LoopRecord
  <2> DEFINE t == loop.todo \ {a}
  <2> DEFINE l == [loop EXCEPT !.todo = t, !.cur = a]
  <2>1. t \in SUBSET Adapters /\ "rebuild" \in Phases /\ 1 \in 1..3
    BY <1>1 DEF Phases, LoopRecord
  <2>2. l \in LoopRecord
    <3> HIDE DEF t
    <3> QED BY <1>1, <2>1 DEF LoopRecord
  <2>3. loop' = [l EXCEPT !.pc = "rebuild", !.pass = 1, !.at = 1, !.live = <<>>]
    BY <1>1 DEF BeginStep, LoopRecord
  <2> HIDE DEF l
  <2> QED BY <2>1, <2>2, <2>3, LoopRestart, Zenon
<1> QED BY <1>2, <1>3 DEF TypeOK, BeginStep, queues, callers, placement

(* The sweep over the groups ends. *)
LEMMA EndSweepType ==
  ASSUME TypeOK, EndSweep
  PROVE  TypeOK'
<1>1. loop \in LoopRecord
  BY DEF TypeOK
<1>2. \E v \in Phases : loop' = [loop EXCEPT !.pc = v]
  BY DEF EndSweep, Phases
<1>3. loop' \in LoopRecord
  BY <1>1, <1>2 DEF LoopRecord
<1> QED BY <1>3 DEF TypeOK, EndSweep, queues, callers, objects, placement

(* The member that rebuild() or fail() looks at exists, and has a slot if old. *)
LEMMA RebuildRowFacts ==
  ASSUME TypeOK, Shape, loop.pc \in {"rebuild", "fail"}, loop.at <= Len(Members(loop.cur))
  PROVE  /\ loop.cur \in Adapters /\ loop.at \in 1..Len(Members(loop.cur))
         /\ Members(loop.cur)[loop.at] \in Rows
         /\ loop.at <= Len(Current.rows) =>
              /\ Current.slots[loop.at] \in Slot
              /\ Current.slots[loop.at].of \in Rows
              /\ Current.slots[loop.at].fed \in Nat
              /\ Current.slots[loop.at].hist \in Nat
<1>1. loop.cur \in Adapters /\ loop.at \in Nat /\ loop.at > 0
  BY DEF TypeOK, LoopRecord, Shape
<1>2. /\ Members(loop.cur) \in Seq(Rows) /\ groups[loop.cur].slots \in Seq(Slot)
      /\ groups[loop.cur].rows \in Seq(Rows)
  BY <1>1, MembersType
<1>3. loop.at \in 1..Len(Members(loop.cur)) /\ Members(loop.cur)[loop.at] \in Rows
  BY <1>1, <1>2
<1>4. Len(groups[loop.cur].slots) = Len(groups[loop.cur].rows)
  BY <1>1 DEF Shape, SlotPerRow
<1>5. loop.at <= Len(groups[loop.cur].rows) => groups[loop.cur].slots[loop.at] \in Slot
  BY <1>1, <1>2, <1>4
<1>6. \A s \in Slot : s.of \in Rows /\ s.fed \in Nat /\ s.hist \in Nat
  BY DEF Slot
<1> QED BY <1>1, <1>3, <1>5, <1>6 DEF Current

(* The member that a walk or a failure looks at. *)
LEMMA MemberAt ==
  ASSUME TypeOK, Shape, FailRow \/ RebuildRow
  PROVE  /\ loop.cur \in Adapters /\ loop.at \in 1..Len(Members(loop.cur))
         /\ Members(loop.cur)[loop.at] \in Rows
         /\ (FailRow => loop.pc = "fail") /\ (RebuildRow => loop.pc = "rebuild")
         /\ loop.at <= Len(Current.rows) =>
              /\ Current.slots[loop.at] \in Slot
              /\ Current.slots[loop.at].of \in Rows
              /\ Current.slots[loop.at].fed \in Nat
              /\ Current.slots[loop.at].hist \in Nat
<1>1. FailRow => loop.pc = "fail" /\ loop.at <= Len(Members(loop.cur))
  BY Zenon DEF FailRow
<1>2. RebuildRow => loop.pc = "rebuild" /\ loop.at <= Len(Members(loop.cur))
  BY Zenon DEF RebuildRow
<1> QED BY <1>1, <1>2, RebuildRowFacts

(* export_row() stores a slice of state. *)
LEMMA ExportType ==
  ASSUME TypeOK, NEW r \in Rows, NEW s \in Slot
  PROVE  Export(r, s) \in [Rows -> Slice]
<1>1. [of |-> s.of, fed |-> s.fed] \in Slice
  BY DEF Slot, Slice
<1>2. exported \in [Rows -> Slice]
  BY DEF TypeOK
<1> QED BY <1>1, <1>2 DEF Export

(* rebuild() exports, sets aside or keeps one member. *)
LEMMA RebuildRowType ==
  ASSUME TypeOK, Shape, CompletionAccounting, RebuildRow
  PROVE  TypeOK'
<1> DEFINE r == Members(loop.cur)[loop.at]
           q == Owner[r]
           old == loop.at <= Len(Current.rows)
<1>1. /\ loop.cur \in Adapters /\ loop.at \in 1..Len(Members(loop.cur))
      /\ r \in Rows
      /\ old => /\ Current.slots[loop.at] \in Slot
                /\ Current.slots[loop.at].hist \in Nat
  BY MemberAt, Zenon
<1>2. /\ loop \in LoopRecord /\ pending_rows \in Seq(Rows) /\ exported \in [Rows -> Slice]
      /\ row \in [Rows -> RowRecord] /\ req \in [Requests -> RequestRecord]
  BY DEF TypeOK
<1>3. q \in Requests /\ req[q].cancelled \in BOOLEAN
  <2> HIDE DEF r
  <2>1. q \in Requests
    BY <1>1, ConstantsAssumption
  <2> QED BY <1>2, <2>1 DEF RequestRecord
<1>4. row' \in [Rows -> RowRecord]
  <2> DEFINE h == Current.slots[loop.at].hist
  <2>1. \/ row' = row \/ row' = CompleteRow(r, req[q].cancelled)
        \/ h \in Nat /\ row' = [row EXCEPT ![r].saved_sampler = h]
    BY <1>1 DEF RebuildRow, objects
  <2> HIDE DEF r, q, h
  <2>2. CompleteRow(r, req[q].cancelled) \in [Rows -> RowRecord]
    BY <1>1, <1>3, CompleteRowType
  <2>3. h \in Nat => [row EXCEPT ![r].saved_sampler = h] \in [Rows -> RowRecord]
    BY <1>1, <1>2, RowPaused
  <2> QED BY <1>2, <2>1, <2>2, <2>3
<1>5. req' \in [Requests -> RequestRecord]
  <2>1. req' = req \/ req' = CompleteReq(r, req[q].cancelled)
    BY DEF RebuildRow, objects
  <2> HIDE DEF r, q
  <2> QED BY <1>1, <1>2, <1>3, <2>1, CompleteReqType
<1>6. exported' \in [Rows -> Slice]
  <2>1. exported' = exported \/ (old /\ exported' = Export(r, Current.slots[loop.at]))
    BY DEF RebuildRow, objects
  <2> HIDE DEF r, old
  <2> QED BY <1>1, <1>2, <2>1, ExportType
<1>7. pending_rows' \in Seq(Rows)
  <2>1. pending_rows' = pending_rows \/ pending_rows' = Append(pending_rows, r)
    BY DEF RebuildRow, objects
  <2> HIDE DEF r
  <2> QED BY <1>1, <1>2, <2>1
<1>8. loop' \in LoopRecord
  <2> DEFINE n == loop.at + 1
             o == IF old THEN loop.at ELSE 0
             t == Append(loop.live, [row |-> r, old |-> o])
  <2>1. n \in Nat /\ o \in Nat
    BY <1>1
  <2>2. t \in Seq(LiveRow)
    <3> HIDE DEF r, o
    <3>1. [row |-> r, old |-> o] \in LiveRow
      BY <1>1, <2>1 DEF LiveRow
    <3>2. loop.live \in Seq(LiveRow)
      BY <1>2 DEF LoopRecord
    <3> QED BY <3>1, <3>2
  <2>3. loop' = [loop EXCEPT !.at = n] \/ loop' = [loop EXCEPT !.at = n, !.live = t]
    BY DEF RebuildRow
  <2> HIDE DEF n, t
  <2> QED BY <1>2, <2>1, <2>2, <2>3 DEF LoopRecord
<1> QED BY <1>4, <1>5, <1>6, <1>7, <1>8 DEF TypeOK, RebuildRow, queues, callers

(* The slot of a kept row in the packed group. *)
LEMMA PackedSlotType ==
  ASSUME TypeOK, Shape, NEW l \in LiveRow, l.old <= Len(groups[loop.cur].rows)
  PROVE  PackedSlot(l) \in Slot
<1>1. loop.cur \in Adapters /\ l.row \in Rows /\ l.old \in Nat
  BY DEF TypeOK, LoopRecord, LiveRow
<1>2. /\ groups[loop.cur].slots \in Seq(Slot)
      /\ l.old <= Len(groups[loop.cur].slots)
  BY <1>1, MembersType DEF Shape, SlotPerRow
<1>3. exported[l.row] \in Slice /\ row[l.row] \in RowRecord
  BY <1>1 DEF TypeOK
<1>4. exported[l.row].of \in Rows /\ exported[l.row].fed \in Nat
      /\ row[l.row].saved_sampler \in Nat
  BY <1>3 DEF Slice, RowRecord
<1>5. CASE l.old > 0
  <2>1. groups[loop.cur].slots[l.old] \in Slot
    BY <1>1, <1>2, <1>5
  <2> QED BY <1>5, <2>1 DEF PackedSlot, Current
<1>6. CASE ~(l.old > 0)
  <2> DEFINE o == exported[l.row].of
             n == exported[l.row].fed
             h == row[l.row].saved_sampler
  <2>1. PackedSlot(l) = [of |-> o, fed |-> n, hist |-> h]
    BY <1>6 DEF PackedSlot
  <2>2. o \in Rows /\ n \in Nat /\ h \in Nat
    BY <1>4
  <2> HIDE DEF o, n, h
  <2> QED BY <2>1, <2>2 DEF Slot
<1> QED BY <1>5, <1>6

(* The packed group has one slot for every kept row. *)
LEMMA RebuiltType ==
  ASSUME TypeOK, Shape, loop.pc = "rebuild"
  PROVE  /\ RebuiltGroup \in Group
         /\ Len(RebuiltGroup.rows) = Len(loop.live)
         /\ Len(RebuiltGroup.slots) = Len(loop.live)
         /\ RebuiltGroup.incoming = <<>>
<1>1. loop.live \in Seq(LiveRow) /\ loop.cur \in Adapters
  BY DEF TypeOK, LoopRecord
<1>2. \A i \in 1..Len(loop.live) : loop.live[i] \in LiveRow
  BY <1>1
<1>3. \A l \in LiveRow : l.row \in Rows
  BY DEF LiveRow
<1>4. \A i \in 1..Len(loop.live) : PackedSlot(loop.live[i]) \in Slot
  BY <1>2, PackedSlotType DEF Shape, RebuildShape
<1>5. [i \in 1..Len(loop.live) |-> loop.live[i].row] \in Seq(Rows)
  BY <1>1, <1>2, <1>3
<1>6. [i \in 1..Len(loop.live) |-> PackedSlot(loop.live[i])] \in Seq(Slot)
  BY <1>1, <1>4
<1>7. <<>> \in Seq(Rows)
  OBVIOUS
<1>8. RebuiltGroup \in Group
  BY <1>5, <1>6, <1>7 DEF RebuiltGroup, Rebuilt, Group
<1> QED BY <1>1, <1>8 DEF RebuiltGroup, Rebuilt

(* rebuild() installs the packed group. *)
LEMMA RebuildCommitType ==
  ASSUME TypeOK, Shape, RebuildCommit
  PROVE  TypeOK'
<1>1. /\ loop \in LoopRecord /\ row \in [Rows -> RowRecord]
      /\ groups \in [Adapters -> Group] /\ loop.cur \in Adapters /\ loop.pass \in 1..3
  BY DEF TypeOK, LoopRecord
<1>2. groups' \in [Adapters -> Group]
  <2>1. RebuiltGroup \in Group
    BY RebuiltType DEF RebuildCommit
  <2> QED BY <1>1, <2>1 DEF RebuildCommit
<1>3. row' \in [Rows -> RowRecord]
  <2>1. \A r \in Rows : [row[r] EXCEPT !.saved_sampler = 0] \in RowRecord
    BY <1>1 DEF RowRecord
  <2> QED BY <1>1, <2>1 DEF RebuildCommit
<1>4. loop' \in LoopRecord
  <2> DEFINE v == AfterRebuild(loop.live = <<>>)
  <2>1. v \in Phases
    BY <1>1 DEF AfterRebuild, Phases
  <2>2. loop' = [loop EXCEPT !.pc = v, !.at = 1, !.live = <<>>]
    BY DEF RebuildCommit
  <2>3. <<>> \in Seq(LiveRow)
    OBVIOUS
  <2> HIDE DEF v
  <2> QED BY <1>1, <2>1, <2>2, <2>3 DEF LoopRecord
<1> QED BY <1>2, <1>3, <1>4 DEF TypeOK, RebuildCommit, queues, callers

(* step() buffers a sampled token and may flush. *)
LEMMA SampleTokenType ==
  ASSUME TypeOK, NEW r \in Rows, SampleToken(r)
  PROVE  row' \in [Rows -> RowRecord] /\ req' \in [Requests -> RequestRecord]
<1>1. row \in [Rows -> RowRecord] /\ req \in [Requests -> RequestRecord] /\ Owner[r] \in Requests
  BY ConstantsAssumption DEF TypeOK
<1>2. /\ row[r].step \in Nat /\ row[r].pending \in Nat /\ row[r].buffered \in Nat
      /\ row[r].matched \in BOOLEAN /\ row[r].reason \in {"length", "stop"}
  BY <1>1 DEF RowRecord
<1> DEFINE q == Owner[r]
           n == row[r].pending + 1
           full == ChunkSize > 0 /\ row[r].buffered + 1 >= ChunkSize
           b == IF full THEN 0 ELSE row[r].buffered + 1
<1>3. PICK match \in (IF q \in TextStop THEN BOOLEAN ELSE {FALSE}),
           kept \in (IF full THEN 0..n ELSE {n}) :
        /\ row' = [row EXCEPT
             ![r].step = @ + 1, ![r].pending = kept,
             ![r].buffered = IF full THEN 0 ELSE @ + 1,
             ![r].matched = @ \/ match,
             ![r].reason = IF match THEN "stop" ELSE @]
        /\ req' = [req EXCEPT ![q].events = @ \o TextEvent(r, n - kept)]
  BY Zenon DEF SampleToken
<1>4. match \in BOOLEAN /\ kept \in Nat /\ n \in Nat /\ n - kept \in Nat /\ b \in Nat
  <2>1. n \in Nat /\ b \in Nat
    BY <1>2
  <2>2. match \in BOOLEAN
    OBVIOUS
  <2> HIDE DEF full, n
  <2>3. kept \in 0..n
    BY <2>1
  <2> QED BY <2>1, <2>2, <2>3
<1>5. row' \in [Rows -> RowRecord]
  <2> DEFINE st == row[r].step + 1
             m == row[r].matched \/ match
             re == IF match THEN "stop" ELSE row[r].reason
  <2>1. m \in BOOLEAN
    BY <1>2
  <2>4. st \in Nat /\ re \in {"length", "stop"}
    BY <1>2
  <2>2. row' = [row EXCEPT ![r] = [row[r] EXCEPT !.step = st, !.pending = kept,
                                     !.buffered = b, !.matched = m, !.reason = re]]
    BY <1>1, <1>3
  <2>3. \A v \in BOOLEAN :
          [row[r] EXCEPT !.step = st, !.pending = kept, !.buffered = b, !.matched = v,
                         !.reason = re] \in RowRecord
    <3>1. kept \in Nat /\ b \in Nat /\ row[r] \in RowRecord
      BY <1>1, <1>4
    <3> HIDE DEF st, re, b
    <3> QED BY <3>1, <2>4 DEF RowRecord
  <2> HIDE DEF st, m, re, b
  <2> QED BY <1>1, <2>1, <2>2, <2>3, Zenon
<1>6. req' \in [Requests -> RequestRecord]
  <2> DEFINE e == req[q].events \o TextEvent(r, n - kept)
  <2>1. TextEvent(r, n - kept) \in Seq(Event)
    BY <1>4, EventTypes
  <2>2. req[q].events \in Seq(Event)
    BY <1>1 DEF RequestRecord
  <2>3. e \in Seq(Event)
    BY <2>1, <2>2
  <2>4. req' = [req EXCEPT ![q].events = e]
    BY <1>1, <1>3
  <2> HIDE DEF e
  <2> QED BY <1>1, <2>3, <2>4, RequestEvents
<1> QED BY <1>5, <1>6

(* The row that step() samples for exists and has a slot. *)
LEMMA SampleFacts ==
  ASSUME TypeOK, Shape, loop.at <= Len(Current.rows)
  PROVE  /\ loop.cur \in Adapters /\ loop.at \in 1..Len(Current.rows)
         /\ Current.rows[loop.at] \in Rows
         /\ loop.at \in 1..Len(groups[loop.cur].slots)
         /\ groups[loop.cur].slots[loop.at] \in Slot
<1>1. loop.cur \in Adapters /\ loop.at \in Nat /\ loop.at > 0
  BY DEF TypeOK, LoopRecord, Shape
<1>2. groups[loop.cur].rows \in Seq(Rows) /\ groups[loop.cur].slots \in Seq(Slot)
  BY <1>1, MembersType
<1>3. Len(groups[loop.cur].slots) = Len(groups[loop.cur].rows)
  BY <1>1 DEF Shape, SlotPerRow
<1>4. loop.at \in 1..Len(groups[loop.cur].rows)
  BY <1>1, <1>2 DEF Current
<1> QED BY <1>1, <1>2, <1>3, <1>4 DEF Current

(* Replacing the slots of a group keeps the groups' type. *)
LEMMA SlotsUpdate ==
  ASSUME TypeOK, NEW a \in Adapters, NEW t \in Seq(Slot)
  PROVE  [groups EXCEPT ![a].slots = t] \in [Adapters -> Group]
<1>1. groups \in [Adapters -> Group]
  BY DEF TypeOK
<1> QED BY <1>1 DEF Group

(* Sampling replaces the slots of the group by as many. *)
LEMMA SampleRowGroups ==
  ASSUME TypeOK, Shape, SampleRow
  PROVE  \E t \in Seq(Slot) : /\ Len(t) = Len(groups[loop.cur].slots)
                              /\ groups' = [groups EXCEPT ![loop.cur].slots = t]
<1> DEFINE ss == groups[loop.cur].slots
           x == [ss[loop.at] EXCEPT !.hist = @ + 1]
           t == [ss EXCEPT ![loop.at] = x]
<1>1. /\ loop.cur \in Adapters /\ loop.at \in 1..Len(ss) /\ ss[loop.at] \in Slot
  BY SampleFacts DEF SampleRow
<1>2. ss \in Seq(Slot)
  BY <1>1, MembersType
<1>3. x \in Slot
  BY <1>1 DEF Slot
<1>4. t \in Seq(Slot) /\ Len(t) = Len(ss)
  <2> HIDE DEF x, ss
  <2> QED BY <1>1, <1>2, <1>3
<1>5. groups' = [groups EXCEPT ![loop.cur].slots = t]
  <2>1. groups \in [Adapters -> Group]
    BY DEF TypeOK
  <2> QED BY <1>1, <2>1 DEF SampleRow, Group, Slot
<1> QED BY <1>4, <1>5

(* step() samples for one row. *)
LEMMA SampleRowType ==
  ASSUME TypeOK, Shape, SampleRow
  PROVE  TypeOK'
<1> DEFINE r == Current.rows[loop.at]
<1>1. loop.cur \in Adapters /\ r \in Rows
  BY SampleFacts DEF SampleRow
<1>2. row' \in [Rows -> RowRecord] /\ req' \in [Requests -> RequestRecord]
  <2>1. SampleEos(r) \/ SampleToken(r)
    BY DEF SampleRow
  <2>2. row \in [Rows -> RowRecord] /\ req \in [Requests -> RequestRecord]
    BY DEF TypeOK
  <2> HIDE DEF r
  <2>3. CASE SampleEos(r)
    BY <1>1, <2>2, <2>3, RowEnded DEF SampleEos
  <2>4. CASE SampleToken(r)
    BY <1>1, <2>4, SampleTokenType
  <2> QED BY <2>1, <2>3, <2>4
<1>3. groups' \in [Adapters -> Group]
  BY <1>1, SampleRowGroups, SlotsUpdate
<1>4. loop' \in LoopRecord
  <2> DEFINE n == loop.at + 1
  <2>1. loop \in LoopRecord /\ n \in Nat
    BY DEF TypeOK, LoopRecord
  <2>2. loop' = [loop EXCEPT !.at = n]
    BY DEF SampleRow
  <2> HIDE DEF n
  <2> QED BY <2>1, <2>2 DEF LoopRecord
<1> QED BY <1>2, <1>3, <1>4 DEF TypeOK, SampleRow, queues, callers

(* step() has sampled for every row. *)
LEMMA SampleDoneType ==
  ASSUME TypeOK, SampleDone
  PROVE  TypeOK'
<1>1. loop \in LoopRecord /\ "rebuild" \in Phases /\ 2 \in 1..3
  BY DEF TypeOK, Phases
<1>2. loop' = [loop EXCEPT !.pc = "rebuild", !.pass = 2, !.at = 1, !.live = <<>>]
  BY DEF SampleDone
<1>3. loop' \in LoopRecord
  BY <1>1, <1>2, LoopRestart, Zenon
<1> QED BY <1>3 DEF TypeOK, SampleDone, queues, callers, objects, placement

(* forward_decode() replaces the slots of the group by as many. *)
LEMMA ForwardGroups ==
  ASSUME TypeOK, Forward
  PROVE  \E t \in Seq(Slot) : /\ Len(t) = Len(groups[loop.cur].slots)
                              /\ groups' = [groups EXCEPT ![loop.cur].slots = t]
<1> DEFINE ss == groups[loop.cur].slots
           t == Fed(ss)
<1>1. loop.cur \in Adapters
  BY DEF TypeOK, LoopRecord
<1>2. ss \in Seq(Slot)
  BY <1>1, MembersType
<1>3. \A i \in 1..Len(ss) : [ss[i] EXCEPT !.fed = @ + 1] \in Slot
  <2> TAKE i \in 1..Len(ss)
  <2>1. ss[i] \in Slot
    BY <1>2
  <2> QED BY <2>1 DEF Slot
<1>4. t \in Seq(Slot) /\ Len(t) = Len(ss)
  <2> HIDE DEF ss
  <2> QED BY <1>2, <1>3 DEF Fed
<1>5. groups' = [groups EXCEPT ![loop.cur].slots = t]
  <2>1. groups \in [Adapters -> Group]
    BY DEF TypeOK
  <2> QED BY <1>1, <2>1 DEF Forward
<1> QED BY <1>4, <1>5

(* forward_decode() feeds every row its token. *)
LEMMA ForwardType ==
  ASSUME TypeOK, Forward
  PROVE  TypeOK'
<1>1. loop \in LoopRecord /\ "rebuild" \in Phases /\ 3 \in 1..3 /\ loop.cur \in Adapters
  BY DEF TypeOK, Phases, LoopRecord
<1>2. loop' \in LoopRecord
  <2>1. loop' = [loop EXCEPT !.pc = "rebuild", !.pass = 3, !.at = 1, !.live = <<>>]
    BY DEF Forward
  <2> QED BY <1>1, <2>1, LoopRestart, Zenon
<1>3. row' \in [Rows -> RowRecord]
  <2>1. \A r \in Rows : row[r] \in RowRecord /\ [row[r] EXCEPT !.finished = TRUE] \in RowRecord
    BY DEF TypeOK, RowRecord
  <2> QED BY <2>1 DEF Forward
<1>4. groups' \in [Adapters -> Group]
  BY <1>1, ForwardGroups, SlotsUpdate
<1> QED BY <1>2, <1>3, <1>4 DEF TypeOK, Forward, queues, callers

(* A step throws. *)
LEMMA StepThrowsType ==
  ASSUME TypeOK, StepThrows
  PROVE  TypeOK'
<1>1. loop' \in LoopRecord
  BY Zenon DEF TypeOK, StepThrows, LoopRecord, Phases
<1> QED BY <1>1 DEF TypeOK, StepThrows, queues, callers, objects, placement

(* fail() completes one member with the exception. *)
LEMMA FailRowType ==
  ASSUME TypeOK, Shape, CompletionAccounting, FailRow
  PROVE  TypeOK'
<1> DEFINE r == Members(loop.cur)[loop.at]
<1>1. r \in Rows
  BY MemberAt, Zenon
<1>2. row' \in [Rows -> RowRecord]
  BY <1>1, CompleteRowType DEF FailRow
<1>3. req' \in [Requests -> RequestRecord]
  <2> DEFINE f == CompleteReq(r, TRUE)
  <2>1. req' = req \/ req' = [f EXCEPT ![Owner[r]].error = TRUE, ![Owner[r]].cancelled = TRUE]
    BY Zenon DEF FailRow
  <2>2. req \in [Requests -> RequestRecord] /\ Owner[r] \in Requests
    <3> HIDE DEF r
    <3> QED BY <1>1, ConstantsAssumption DEF TypeOK
  <2>3. f \in [Requests -> RequestRecord]
    BY <1>1, CompleteReqType
  <2> HIDE DEF f, r
  <2> QED BY <2>1, <2>2, <2>3, RequestFail
<1>4. loop' \in LoopRecord
  <2> DEFINE n == loop.at + 1
  <2>1. loop \in LoopRecord /\ n \in Nat
    BY DEF TypeOK, LoopRecord
  <2>2. loop' = [loop EXCEPT !.at = n]
    BY DEF FailRow
  <2> HIDE DEF n
  <2> QED BY <2>1, <2>2 DEF LoopRecord
<1> QED BY <1>2, <1>3, <1>4, Zenon DEF TypeOK, FailRow, queues, callers, placement

(* fail() empties the group. *)
LEMMA FailDoneType ==
  ASSUME TypeOK, FailDone
  PROVE  TypeOK'
<1>1. loop \in LoopRecord /\ "sweep" \in Phases /\ 1 \in 1..3 /\ loop.cur \in Adapters
      /\ groups \in [Adapters -> Group]
  BY DEF TypeOK, Phases, LoopRecord
<1>2. loop' \in LoopRecord
  <2>1. loop' = [loop EXCEPT !.pc = "sweep", !.pass = 1, !.at = 1, !.live = <<>>]
    BY DEF FailDone
  <2> QED BY <1>1, <2>1, LoopRestart, Zenon
<1>3. groups' \in [Adapters -> Group]
  <2>1. <<>> \in Seq(Rows) /\ <<>> \in Seq(Slot)
    OBVIOUS
  <2>2. EmptyGroup \in Group
    BY <2>1 DEF EmptyGroup, Group
  <2> QED BY <1>1, <2>2 DEF FailDone
<1> QED BY <1>2, <1>3 DEF TypeOK, FailDone, queues, callers, objects

(* Every step keeps the types. *)
LEMMA TypeStep == IInv /\ [Next]_vars => TypeOK'
<1> SUFFICES ASSUME IInv, [Next]_vars PROVE TypeOK'
  OBVIOUS
<1>1. TypeOK /\ Shape /\ CompletionAccounting /\ Capacity
  BY DEF IInv
<1>2. CASE UNCHANGED vars
  BY <1>1, <1>2 DEF vars, TypeOK
<1>3. CASE \E q \in Requests : Client(q)
  BY <1>1, <1>3, SubmitType, TakeType, DeliverType, ConcludeType DEF Client
<1>4. CASE Loop
  BY <1>1, <1>4, LoopTopType, AdmitType, ArrivedType, AdmitRowType, AdmitDoneType,
     RunChunkType, CheckControlsType, BeginStepType, EndSweepType, RebuildRowType,
     RebuildCommitType, SampleRowType, SampleDoneType, ForwardType, StepThrowsType,
     FailRowType, FailDoneType DEF Loop
<1> QED BY <1>1, <1>2, <1>3, <1>4, DestroyType DEF Next, Terminated

-----------------------------------------------------------------------------
(* Every step keeps the shape of the groups and of a rebuild in progress. *)
LEMMA ShapeFrame ==
  ASSUME Shape, groups' = groups, loop' = loop
  PROVE  Shape'
  BY DEF Shape, SlotPerRow, RebuildShape, Members

(* Outside a rebuild only the slots matter. *)
LEMMA ShapeOut ==
  ASSUME SlotPerRow', loop'.at > 0, loop'.pc # "rebuild"
  PROVE  Shape'
  BY DEF Shape, RebuildShape

(* The length of a concatenation is a number. *)
LEMMA ConcatLength ==
  ASSUME NEW S, NEW s \in Seq(S), NEW t \in Seq(S)
  PROVE  Len(s \o t) \in Nat
  OBVIOUS

(* Appending to the second part of a concatenation adds one. *)
LEMMA AppendedLength ==
  ASSUME NEW S, NEW s \in Seq(S), NEW t \in Seq(S), NEW e \in S
  PROVE  Len(s \o Append(t, e)) = Len(s \o t) + 1
  OBVIOUS

(* A rebuild that has just begun has kept nobody. *)
LEMMA ShapeRestart ==
  ASSUME TypeOK', SlotPerRow', loop'.at = 1, loop'.live = <<>>
  PROVE  Shape'
<1>1. (loop.cur \in Adapters)'
  BY DEF TypeOK, LoopRecord
<1>2. Len(Members(loop.cur))' \in Nat
  <2>1. groups'[loop'.cur] \in Group
    BY <1>1 DEF TypeOK
  <2>2. groups'[loop'.cur].rows \in Seq(Rows) /\ groups'[loop'.cur].incoming \in Seq(Rows)
    BY <2>1 DEF Group
  <2> DEFINE u == groups'[loop'.cur].rows \o groups'[loop'.cur].incoming
  <2>3. Len(u) \in Nat
    BY <2>2, ConcatLength
  <2>4. Members(loop.cur)' = u
    BY DEF Members
  <2> QED BY <2>3, <2>4
<1> QED BY <1>2 DEF Shape, RebuildShape

(* New contents of the slots keep one slot per row. *)
LEMMA SlotsShape ==
  ASSUME TypeOK, SlotPerRow, NEW t \in Seq(Slot), Len(t) = Len(groups[loop.cur].slots),
         groups' = [groups EXCEPT ![loop.cur].slots = t]
  PROVE  SlotPerRow'
<1>1. groups \in [Adapters -> Group] /\ loop.cur \in Adapters
  BY DEF TypeOK, LoopRecord
<1> QED BY <1>1 DEF SlotPerRow, Group

(* rebuild() keeps at most one more row for the member it has looked at. *)
LEMMA RebuildRowShape ==
  ASSUME TypeOK, Shape, RebuildRow
  PROVE  Shape'
<1> DEFINE r == Members(loop.cur)[loop.at]
           o == IF loop.at <= Len(Current.rows) THEN loop.at ELSE 0
           x == [row |-> r, old |-> o]
<1>1. /\ loop \in LoopRecord /\ loop.live \in Seq(LiveRow) /\ loop.at \in Nat
      /\ loop.cur \in Adapters
  BY DEF TypeOK, LoopRecord
<1>2. groups' = groups /\ SlotPerRow'
  BY DEF RebuildRow, Shape, SlotPerRow
<1>3. loop' = [loop EXCEPT !.at = loop.at + 1]
      \/ loop' = [loop EXCEPT !.at = loop.at + 1, !.live = Append(loop.live, x)]
  BY DEF RebuildRow
<1>4. /\ loop'.at = loop.at + 1 /\ loop'.cur = loop.cur /\ loop'.pc = loop.pc
      /\ loop'.live = loop.live \/ loop'.live = Append(loop.live, x)
  <2> HIDE DEF x
  <2> QED BY <1>1, <1>3 DEF LoopRecord
<1>5. /\ loop.at <= Len(Members(loop.cur)) /\ Len(loop.live) < loop.at
      /\ \A i \in 1..Len(loop.live) : loop.live[i].old <= Len(groups[loop.cur].rows)
  BY DEF RebuildRow, Shape, RebuildShape
<1>6. Members(loop.cur)' = Members(loop.cur) /\ Len(Members(loop.cur)) \in Nat
  <2>1. Members(loop.cur) \in Seq(Rows)
    BY <1>1, MembersType
  <2>2. Members(loop.cur)' = Members(loop.cur)
    BY <1>2, <1>4 DEF Members
  <2> QED BY <2>1, <2>2
<1>7. x.old <= Len(groups[loop.cur].rows)
  <2>1. groups[loop.cur].rows \in Seq(Rows)
    BY <1>1, MembersType
  <2> QED BY <1>1, <2>1 DEF Current
<1>8. CASE loop'.live = loop.live
  BY <1>1, <1>2, <1>4, <1>5, <1>6, <1>8 DEF Shape, RebuildShape
<1>9. CASE loop'.live = Append(loop.live, x)
  <2> HIDE DEF x
  <2>1. Len(loop'.live) = Len(loop.live) + 1
    BY <1>1, <1>9
  <2>2. \A i \in 1..Len(loop'.live) :
          loop'.live[i] = IF i = Len(loop.live) + 1 THEN x ELSE loop.live[i]
    BY <1>1, <1>9
  <2>3. ASSUME NEW i \in 1..Len(loop'.live)
        PROVE  loop'.live[i].old <= Len(groups[loop.cur].rows)
    <3>1. CASE i = Len(loop.live) + 1
      BY <1>7, <2>2, <3>1
    <3>2. CASE i # Len(loop.live) + 1
      <4>1. i \in 1..Len(loop.live)
        BY <1>1, <2>1, <3>2
      <4> QED BY <1>1, <1>5, <2>2, <3>2, <4>1
    <3> QED BY <3>1, <3>2
  <2> QED BY <1>1, <1>2, <1>4, <1>5, <1>6, <2>1, <2>3 DEF Shape, RebuildShape
<1> QED BY <1>4, <1>8, <1>9

(* The packed group has one slot per row. *)
LEMMA RebuildCommitShape ==
  ASSUME TypeOK, Shape, RebuildCommit
  PROVE  Shape'
<1>1. /\ loop \in LoopRecord /\ groups \in [Adapters -> Group]
      /\ loop.cur \in Adapters /\ loop.pass \in 1..3
  BY DEF TypeOK, LoopRecord
<1>2. loop'.at = 1 /\ loop'.pc = AfterRebuild(loop.live = <<>>)
  BY <1>1 DEF RebuildCommit, LoopRecord
<1>3. loop'.pc # "rebuild"
  BY <1>1, <1>2 DEF AfterRebuild
<1>4. SlotPerRow'
  <2>1. Len(RebuiltGroup.slots) = Len(RebuiltGroup.rows)
    BY RebuiltType DEF RebuildCommit
  <2>2. groups' = [groups EXCEPT ![loop.cur] = RebuiltGroup]
    BY DEF RebuildCommit
  <2> QED BY <1>1, <2>1, <2>2 DEF Shape, SlotPerRow
<1> QED BY <1>2, <1>3, <1>4, ShapeOut

(* An admitted row waits in incoming and has no slot yet. *)
LEMMA AdmitRowShape ==
  ASSUME TypeOK, Shape, AdmitRow
  PROVE  Shape'
<1> DEFINE a == AdapterOf[Owner[pending_rows[loop.at]]]
           u == Append(groups[a].incoming, pending_rows[loop.at])
<1>1. /\ loop \in LoopRecord /\ groups \in [Adapters -> Group] /\ loop.at \in Nat
  BY DEF TypeOK, LoopRecord
<1>2. \/ loop' = loop \/ loop' = [loop EXCEPT !.at = loop.at + 1]
      \/ loop' = [loop EXCEPT !.occupied = loop.occupied + 1]
  BY Zenon DEF AdmitRow
<1>3. loop'.pc = "admit" /\ loop'.at > 0
  BY <1>1, <1>2 DEF AdmitRow, Shape, LoopRecord
<1>4. groups' = groups \/ groups' = [groups EXCEPT ![a].incoming = u]
  BY Zenon DEF AdmitRow, placement
<1>5. SlotPerRow'
  <2> HIDE DEF a, u
  <2> QED BY <1>1, <1>4 DEF Shape, SlotPerRow, Group
<1> QED BY <1>3, <1>5, ShapeOut

(* Every step keeps the shape. *)
LEMMA ShapeStep == IInv /\ TypeOK' /\ [Next]_vars => Shape'
<1> SUFFICES ASSUME TypeOK, Shape, TypeOK', [Next]_vars PROVE Shape'
  BY DEF IInv
<1>1. loop \in LoopRecord /\ loop.at \in Nat /\ loop.at > 0 /\ SlotPerRow
      /\ groups \in [Adapters -> Group] /\ loop.cur \in Adapters
  BY DEF TypeOK, LoopRecord, Shape
<1>2. ASSUME groups' = groups PROVE SlotPerRow'
  BY <1>1, <1>2 DEF SlotPerRow
<1>3. CASE UNCHANGED vars
  BY <1>3, ShapeFrame DEF vars
<1>4. CASE \E q \in Requests : Client(q)
  BY <1>4, ShapeFrame DEF Client, SubmitPrefill, SubmitGenerate, Take, Deliver, Conclude, placement
<1>5. CASE Destroy
  BY <1>5, ShapeFrame DEF Destroy, placement
<1>6. CASE LoopTop \/ Admit \/ Arrived \/ AdmitDone \/ RunChunk \/ CheckControls
  <2>1. groups' = groups
    BY <1>6, Zenon DEF LoopTop, Admit, Arrived, AdmitDone, RunChunk, CheckControls, placement
  <2>2. loop'.at > 0 /\ loop'.pc # "rebuild"
    <3>1. CASE LoopTop
      BY <1>1, <3>1 DEF LoopTop, LoopRecord
    <3>2. CASE Admit
      BY <1>1, <3>2 DEF Admit, LoopRecord
    <3>3. CASE Arrived
      <4>1. \E n : loop' = [loop EXCEPT !.pc = "admit", !.at = 1, !.occupied = n]
        BY <3>3, Zenon DEF Arrived
      <4> QED BY <1>1, <4>1 DEF LoopRecord
    <3>6. CASE AdmitDone
      BY <1>1, <3>6 DEF AdmitDone, LoopRecord
    <3>4. CASE RunChunk
      BY <1>1, <3>4 DEF RunChunk, LoopRecord
    <3>5. CASE CheckControls
      BY <1>1, <3>5, Zenon DEF CheckControls, LoopRecord
    <3> QED BY <1>6, <3>1, <3>2, <3>3, <3>4, <3>5, <3>6
  <2> QED BY <1>2, <2>1, <2>2, ShapeOut
<1>7. CASE EndSweep \/ StepThrows \/ FailRow
  <2>1. groups' = groups
    BY <1>7 DEF EndSweep, StepThrows, FailRow, placement
  <2>2. loop'.at > 0 /\ loop'.pc # "rebuild"
    <3>1. CASE EndSweep
      BY <1>1, <3>1 DEF EndSweep, LoopRecord
    <3>2. CASE StepThrows
      BY <1>1, <3>2 DEF StepThrows, LoopRecord
    <3>3. CASE FailRow
      <4>1. loop' = [loop EXCEPT !.at = @ + 1] /\ loop.pc = "fail"
        BY <3>3, Zenon DEF FailRow
      <4> QED BY <1>1, <4>1 DEF LoopRecord
    <3> QED BY <1>7, <3>1, <3>2, <3>3
  <2> QED BY <1>2, <2>1, <2>2, ShapeOut
<1>8. CASE (\E a \in Adapters : BeginStep(a)) \/ SampleDone
  <2>1. groups' = groups
    BY <1>8, Zenon DEF BeginStep, SampleDone, placement
  <2>2. loop'.at = 1 /\ loop'.live = <<>>
    BY <1>1, <1>8, Zenon DEF BeginStep, SampleDone, LoopRecord
  <2> QED BY <1>2, <2>1, <2>2, ShapeRestart
<1>9. CASE SampleRow
  <2>1. SlotPerRow'
    BY <1>1, <1>9, SampleRowGroups, SlotsShape
  <2>2. loop'.at > 0 /\ loop'.pc # "rebuild"
    BY <1>1, <1>9 DEF SampleRow, LoopRecord
  <2> QED BY <2>1, <2>2, ShapeOut
<1>10. CASE Forward
  <2>1. SlotPerRow'
    BY <1>1, <1>10, ForwardGroups, SlotsShape
  <2>2. loop'.at = 1 /\ loop'.live = <<>>
    BY <1>1, <1>10 DEF Forward, LoopRecord
  <2> QED BY <2>1, <2>2, ShapeRestart
<1>11. CASE FailDone
  <2>1. SlotPerRow'
    BY <1>1, <1>11 DEF FailDone, EmptyGroup, SlotPerRow
  <2>2. loop'.at > 0 /\ loop'.pc # "rebuild"
    BY <1>1, <1>11 DEF FailDone, LoopRecord
  <2> QED BY <2>1, <2>2, ShapeOut
<1> QED BY <1>3, <1>4, <1>5, <1>6, <1>7, <1>8, <1>9, <1>10, <1>11, AdmitRowShape,
       RebuildRowShape, RebuildCommitShape DEF Next, Loop, Terminated

-----------------------------------------------------------------------------
(* Every step keeps the count of the rows still to complete. *)
LEMMA AccountingFrame ==
  ASSUME CompletionAccounting,
         \A q \in Requests : /\ req'[q].remaining = req[q].remaining
                             /\ req'[q].done <=> req[q].done,
         \A r \in Rows : row'[r].completed <=> row[r].completed
  PROVE  CompletionAccounting'
<1> SUFFICES ASSUME NEW q \in Requests
             PROVE  /\ req'[q].remaining = Cardinality(Uncompleted(q)')
                    /\ req'[q].done <=> req'[q].remaining = 0
  BY DEF CompletionAccounting, Uncompleted
<1>1. Uncompleted(q)' = Uncompleted(q)
  BY DEF Uncompleted
<1>2. /\ req[q].remaining = Cardinality(Uncompleted(q))
      /\ req[q].done <=> req[q].remaining = 0
  BY DEF CompletionAccounting, Uncompleted
<1> QED BY <1>1, <1>2

(* One more completed row, counted once. *)
LEMMA AccountingComplete ==
  ASSUME TypeOK, CompletionAccounting, NEW r \in Rows, ~row[r].completed,
         \A s \in Rows : row'[s].completed <=> (s = r \/ row[s].completed),
         req'[Owner[r]].remaining = req[Owner[r]].remaining - 1,
         req'[Owner[r]].done <=> req[Owner[r]].remaining = 1,
         \A q \in Requests \ {Owner[r]} : /\ req'[q].remaining = req[q].remaining
                                          /\ req'[q].done <=> req[q].done
  PROVE  CompletionAccounting'
<1> SUFFICES ASSUME NEW q \in Requests
             PROVE  /\ req'[q].remaining = Cardinality(Uncompleted(q)')
                    /\ req'[q].done <=> req'[q].remaining = 0
  BY DEF CompletionAccounting, Uncompleted
<1>1. /\ IsFiniteSet(Uncompleted(q)) /\ Cardinality(Uncompleted(q)) \in Nat
      /\ req[q].remaining = Cardinality(Uncompleted(q))
      /\ req[q].done <=> req[q].remaining = 0
  BY UncompletedFacts
<1>2. CASE q = Owner[r]
  <2>1. r \in Uncompleted(q) /\ Uncompleted(q)' = Uncompleted(q) \ {r}
    BY <1>2 DEF Uncompleted
  <2>2. Cardinality(Uncompleted(q)') = Cardinality(Uncompleted(q)) - 1
    BY <1>1, <2>1, FS_RemoveElement
  <2> QED BY <1>1, <1>2, <2>2
<1>3. CASE q # Owner[r]
  <2>1. Uncompleted(q)' = Uncompleted(q)
    BY <1>3 DEF Uncompleted
  <2> QED BY <1>1, <1>3, <2>1
<1> QED BY <1>2, <1>3

(* complete() marks exactly its row. *)
LEMMA CompleteRowFacts ==
  ASSUME TypeOK, NEW r \in Rows, NEW c \in BOOLEAN
  PROVE  \A s \in Rows : CompleteRow(r, c)[s].completed <=> (s = r \/ row[s].completed)
<1> DEFINE rw == [row EXCEPT ![r].completed = TRUE, ![r].pending = 0, ![r].buffered = 0]
<1>1. row \in [Rows -> RowRecord]
  BY DEF TypeOK
<1>2. \A s \in Rows : rw[s].completed <=> (s = r \/ row[s].completed)
  BY <1>1 DEF RowRecord
<1>3. rw \in [Rows -> RowRecord]
  BY <1>1, RowDone, Zenon
<1> HIDE DEF rw
<1>4. \A s \in Rows : Interrupted(rw, Owner[r])[s].completed <=> rw[s].completed
  BY <1>3 DEF Interrupted, RowRecord
<1> QED BY <1>2, <1>4 DEF CompleteRow, rw

(* complete() counts down exactly its row's request. *)
LEMMA CompleteReqFacts ==
  ASSUME TypeOK, NEW r \in Rows, NEW c \in BOOLEAN, ~row[r].completed
  PROVE  /\ CompleteReq(r, c)[Owner[r]].remaining = req[Owner[r]].remaining - 1
         /\ CompleteReq(r, c)[Owner[r]].done <=> req[Owner[r]].remaining = 1
         /\ \A q \in Requests \ {Owner[r]} : CompleteReq(r, c)[q] = req[q]
<1> DEFINE e == req[Owner[r]].events \o FinalEvents(r, c)
           n == req[Owner[r]].remaining - 1
           d == req[Owner[r]].remaining = 1
<1>1. req \in [Requests -> RequestRecord] /\ Owner[r] \in Requests
  BY ConstantsAssumption DEF TypeOK
<1>2. CompleteReq(r, c) = [req EXCEPT ![Owner[r]].events = e, ![Owner[r]].remaining = n,
                                      ![Owner[r]].done = d]
  BY DEF CompleteReq, CountDown
<1> HIDE DEF e, n, d
<1>3. /\ CompleteReq(r, c)[Owner[r]].remaining = n /\ CompleteReq(r, c)[Owner[r]].done = d
      /\ \A q \in Requests \ {Owner[r]} : CompleteReq(r, c)[q] = req[q]
  BY <1>1, <1>2 DEF RequestRecord
<1> QED BY <1>3 DEF n, d

(* What complete(row) does to both, in a step that may also set the other   *)
(* fields of the request.                                                  *)
LEMMA AccountingAfterComplete ==
  ASSUME TypeOK, CompletionAccounting, NEW r \in Rows, NEW c \in BOOLEAN,
         row' = CompleteRow(r, c), req' = CompleteReq(r, c)
  PROVE  CompletionAccounting'
<1>1. CASE row[r].completed
  <2>1. row' = row /\ req' = req
    BY <1>1 DEF CompleteRow, CompleteReq
  <2> QED BY <2>1, AccountingFrame
<1>2. CASE ~row[r].completed
  <2>1. \A s \in Rows : row'[s].completed <=> (s = r \/ row[s].completed)
    BY CompleteRowFacts
  <2>2. /\ req'[Owner[r]].remaining = req[Owner[r]].remaining - 1
        /\ req'[Owner[r]].done <=> req[Owner[r]].remaining = 1
        /\ \A q \in Requests \ {Owner[r]} : req'[q] = req[q]
    BY <1>2, CompleteReqFacts
  <2> QED BY <1>2, <2>1, <2>2, AccountingComplete
<1> QED BY <1>1, <1>2

(* A row's completion mark survives every update of its other fields, and   *)
(* the count and mark of a request every update of its other fields.       *)
SameCompleted == \A r \in Rows : row'[r].completed <=> row[r].completed
SameCount == \A q \in Requests : /\ req'[q].remaining = req[q].remaining
                                 /\ req'[q].done <=> req[q].done

(* Cancelling changes no count. *)
LEMMA CancelCount ==
  ASSUME TypeOK, NEW S, req' = Cancel(S)
  PROVE  SameCount
<1>1. req \in [Requests -> RequestRecord]
  BY DEF TypeOK
<1> QED BY <1>1 DEF Cancel, SameCount, RequestRecord

(* The callers change no count. *)
LEMMA ClientAccounting ==
  ASSUME TypeOK, CompletionAccounting, NEW q \in Requests, Client(q)
  PROVE  CompletionAccounting'
<1>1. row \in [Rows -> RowRecord] /\ req \in [Requests -> RequestRecord]
  BY DEF TypeOK
<1>2. SameCompleted
  <2>1. row' = row \/ row' = Interrupted(row, q)
    BY DEF Client, SubmitPrefill, SubmitGenerate, Take, Deliver, Conclude, objects
  <2> QED BY <1>1, <2>1 DEF Interrupted, SameCompleted, RowRecord
<1>3. SameCount
  <2>1. \/ req' = req \/ req' = [req EXCEPT ![q].events = <<>>]
        \/ req' = [req EXCEPT ![q].cancelled = TRUE]
    BY DEF Client, SubmitPrefill, SubmitGenerate, Take, Deliver, Conclude, Accept, Refuse,
           Throw, Skip, Drop, objects
  <2>2. CASE req' = req
    BY <2>2 DEF SameCount
  <2>3. CASE req' = [req EXCEPT ![q].events = <<>>]
    BY <1>1, <2>3 DEF SameCount, RequestRecord
  <2>4. CASE req' = [req EXCEPT ![q].cancelled = TRUE]
    BY <1>1, <2>4 DEF SameCount, RequestRecord
  <2> QED BY <2>1, <2>2, <2>3, <2>4
<1> QED BY <1>2, <1>3, AccountingFrame DEF SameCompleted, SameCount

(* Sampling changes no count. *)
LEMMA SampleAccounting ==
  ASSUME TypeOK, Shape, CompletionAccounting, SampleRow
  PROVE  CompletionAccounting'
<1> DEFINE r == Current.rows[loop.at]
<1>1. row \in [Rows -> RowRecord] /\ req \in [Requests -> RequestRecord] /\ r \in Rows
  BY SampleFacts DEF TypeOK, SampleRow
<1>2. SampleEos(r) \/ SampleToken(r)
  BY DEF SampleRow
<1> HIDE DEF r
<1>3. CASE SampleEos(r)
  BY <1>1, <1>3, AccountingFrame DEF SampleEos, RowRecord
<1>4. CASE SampleToken(r)
  <2> DEFINE q == Owner[r]
             n == row[r].pending + 1
             full == ChunkSize > 0 /\ row[r].buffered + 1 >= ChunkSize
  <2>1. PICK match \in (IF q \in TextStop THEN BOOLEAN ELSE {FALSE}),
             kept \in (IF full THEN 0..n ELSE {n}) :
          /\ row' = [row EXCEPT
               ![r].step = @ + 1, ![r].pending = kept,
               ![r].buffered = IF full THEN 0 ELSE @ + 1,
               ![r].matched = @ \/ match,
               ![r].reason = IF match THEN "stop" ELSE @]
          /\ req' = [req EXCEPT ![q].events = @ \o TextEvent(r, n - kept)]
    BY <1>4, Zenon DEF SampleToken
  <2>3. SameCompleted
    BY <1>1, <2>1 DEF SameCompleted, RowRecord
  <2> DEFINE e == req[q].events \o TextEvent(r, n - kept)
  <2>4. req' = [req EXCEPT ![q].events = e]
    BY <2>1
  <2> HIDE DEF e
  <2>5. SameCount
    BY <1>1, <2>4 DEF SameCount, RequestRecord
  <2>2. SameCompleted /\ SameCount
    BY <2>3, <2>5
  <2> QED BY <2>2, AccountingFrame DEF SameCompleted, SameCount
<1> QED BY <1>2, <1>3, <1>4

(* fail() completes one member and stores the exception. *)
LEMMA FailRowAccounting ==
  ASSUME TypeOK, Shape, CompletionAccounting, FailRow
  PROVE  CompletionAccounting'
<1> DEFINE r == Members(loop.cur)[loop.at]
           f == CompleteReq(r, TRUE)
<1>1. r \in Rows
  BY MemberAt, Zenon
<1>2. row' = CompleteRow(r, TRUE)
      /\ req' = IF row[r].completed THEN req
                ELSE [f EXCEPT ![Owner[r]].error = TRUE, ![Owner[r]].cancelled = TRUE]
  BY DEF FailRow
<1>3. f \in [Requests -> RequestRecord]
  BY <1>1, CompleteReqType
<1> HIDE DEF r
<1>4. CASE row[r].completed
  <2>1. row' = row /\ req' = req
    BY <1>2, <1>4 DEF CompleteRow
  <2> QED BY <2>1, AccountingFrame
<1>5. CASE ~row[r].completed
  <2>1. \A s \in Rows : row'[s].completed <=> (s = r \/ row[s].completed)
    BY <1>1, <1>2, CompleteRowFacts
  <2>2. /\ f[Owner[r]].remaining = req[Owner[r]].remaining - 1
        /\ f[Owner[r]].done <=> req[Owner[r]].remaining = 1
        /\ \A q \in Requests \ {Owner[r]} : f[q] = req[q]
    BY <1>1, <1>5, CompleteReqFacts
  <2> HIDE DEF f
  <2>3. \A q \in Requests : /\ req'[q].remaining = f[q].remaining
                            /\ req'[q].done <=> f[q].done
    BY <1>2, <1>3, <1>5 DEF RequestRecord
  <2>4. Owner[r] \in Requests
    BY <1>1, ConstantsAssumption
  <2> QED BY <1>1, <1>5, <2>1, <2>2, <2>3, <2>4, AccountingComplete
<1> QED BY <1>4, <1>5

(* The owner's checks and cancellations change no count. *)
LEMMA OwnerAccounting ==
  ASSUME TypeOK, CompletionAccounting, Arrived \/ CheckControls \/ (\E a \in Adapters : BeginStep(a))
  PROVE  CompletionAccounting'
<1>1. req \in [Requests -> RequestRecord] /\ row' = row
  BY Zenon DEF TypeOK, Arrived, CheckControls, BeginStep
<1>2. CASE Arrived \/ \E a \in Adapters : BeginStep(a)
  <2>1. req' = req \/ \E S : req' = Cancel(S)
    BY <1>2, Zenon DEF Arrived, PendingAfterShutdown, BeginStep
  <2>2. SameCount
    BY <2>1, CancelCount DEF SameCount
  <2> QED BY <1>1, <2>2, AccountingFrame DEF SameCount
<1>3. CASE CheckControls
  <2> DEFINE asked == {q \in Controlled :
                /\ ~req[q].cancelled
                /\ \E r \in Resident : Owner[r] = q /\ ~row[r].completed}
  <2>1. PICK answer \in [asked -> {"go", "stop", "throw"}] :
          req' = [q \in Requests |->
                    IF q \in asked /\ answer[q] # "go"
                      THEN [req[q] EXCEPT !.cancelled = TRUE, !.error = answer[q] = "throw"]
                      ELSE req[q]]
    BY <1>3, Zenon DEF CheckControls
  <2> HIDE DEF asked
  <2>2. SameCount
    BY <1>1, <2>1, Zenon DEF SameCount, RequestRecord
  <2> QED BY <1>1, <2>2, AccountingFrame DEF SameCount
<1> QED BY <1>2, <1>3

(* Every step keeps the count. *)
LEMMA AccountingStep == IInv /\ [Next]_vars => CompletionAccounting'
<1> SUFFICES ASSUME TypeOK, Shape, CompletionAccounting, [Next]_vars
             PROVE  CompletionAccounting'
  BY DEF IInv
<1>1. row \in [Rows -> RowRecord] /\ req \in [Requests -> RequestRecord]
  BY DEF TypeOK
<1>2. CASE row' = row /\ req' = req
  BY <1>2, AccountingFrame
<1>3. CASE AdmitRow
  <2> DEFINE r == pending_rows[loop.at]
  <2>1. r \in Rows
    <3>1. loop.at \in Nat /\ loop.at > 0 /\ loop.at <= Len(pending_rows)
          /\ pending_rows \in Seq(Rows)
      BY <1>3 DEF TypeOK, LoopRecord, Shape, AdmitRow
    <3> QED BY <3>1
  <2>2. \/ row' = row /\ req' = req
        \/ row' = CompleteRow(r, req[Owner[r]].cancelled)
           /\ req' = CompleteReq(r, req[Owner[r]].cancelled)
    BY <1>3, Zenon DEF AdmitRow
  <2>3. req[Owner[r]].cancelled \in BOOLEAN
    <3> HIDE DEF r
    <3>1. Owner[r] \in Requests
      BY <2>1, ConstantsAssumption
    <3> QED BY <1>1, <3>1 DEF RequestRecord
  <2> HIDE DEF r
  <2> QED BY <1>2, <2>1, <2>2, <2>3, AccountingAfterComplete
<1>4. CASE RebuildRow
  <2> DEFINE r == Members(loop.cur)[loop.at]
  <2>1. r \in Rows
    BY <1>4, MemberAt, Zenon
  <2>2. \/ row' = row /\ req' = req
        \/ \E h : row' = [row EXCEPT ![r].saved_sampler = h] /\ req' = req
        \/ row' = CompleteRow(r, req[Owner[r]].cancelled)
           /\ req' = CompleteReq(r, req[Owner[r]].cancelled)
    BY <1>4 DEF RebuildRow, objects
  <2>3. req[Owner[r]].cancelled \in BOOLEAN
    <3> HIDE DEF r
    <3>1. Owner[r] \in Requests
      BY <2>1, ConstantsAssumption
    <3> QED BY <1>1, <3>1 DEF RequestRecord
  <2> HIDE DEF r
  <2>4. CASE \E h : row' = [row EXCEPT ![r].saved_sampler = h] /\ req' = req
    BY <1>1, <2>1, <2>4, AccountingFrame DEF RowRecord
  <2> QED BY <1>2, <2>1, <2>2, <2>3, <2>4, AccountingAfterComplete
<1>5. CASE RebuildCommit \/ Forward
  <2>1. SameCompleted
    <3>1. CASE RebuildCommit
      BY <1>1, <3>1 DEF RebuildCommit, SameCompleted, RowRecord
    <3>2. CASE Forward
      BY <1>1, <3>2 DEF Forward, SameCompleted, RowRecord
    <3> QED BY <1>5, <3>1, <3>2
  <2>2. req' = req
    BY <1>5 DEF RebuildCommit, Forward
  <2> QED BY <2>1, <2>2, AccountingFrame DEF SameCompleted
<1>6. CASE UNCHANGED vars
  BY <1>2, <1>6 DEF vars
<1>7. CASE Destroy \/ LoopTop \/ Admit \/ AdmitDone \/ RunChunk \/ EndSweep \/ SampleDone
           \/ StepThrows \/ FailDone
  BY <1>2, <1>7 DEF Destroy, LoopTop, Admit, AdmitDone, RunChunk, EndSweep, SampleDone,
                    StepThrows, FailDone, objects
<1> QED BY <1>3, <1>4, <1>5, <1>6, <1>7, ClientAccounting, SampleAccounting,
       FailRowAccounting, OwnerAccounting DEF Next, Loop, Terminated

-----------------------------------------------------------------------------
(* Every step keeps the slots in use within the cap. *)
LEMMA PlacesIs ==
  ASSUME NEW x
  PROVE  x \in Places <=> \E a \in Adapters : \E i \in 1..Len(Members(a)) : x = <<a, i>>
  BY DEF Places

(* Nothing changes while the groups keep their members. *)
LEMMA CapacityFrame ==
  ASSUME Capacity, Places' = Places, loop'.pc = "admit" => loop' = loop
  PROVE  Capacity'
  BY DEF Capacity, SlotCap

(* Fewer places stay within the cap. *)
LEMMA CapacityShrink ==
  ASSUME Capacity, Places' \subseteq Places, loop'.pc # "admit"
  PROVE  Capacity'
<1>1. /\ IsFiniteSet(Places') /\ Cardinality(Places') <= Cardinality(Places)
      /\ Cardinality(Places') \in Nat /\ Cardinality(Places) \in Nat
  BY FS_Subset, FS_CardinalityType DEF Capacity
<1> QED BY <1>1, ConstantsAssumption DEF Capacity, SlotCap

(* The group of the current key shrinks, the others stay. *)
LEMMA PlacesShrink ==
  ASSUME TypeOK, NEW g \in Group, groups' = [groups EXCEPT ![loop.cur] = g],
         Len(g.rows \o g.incoming) <= Len(Members(loop.cur))
  PROVE  Places' \subseteq Places
<1>1. groups \in [Adapters -> Group] /\ loop.cur \in Adapters
  BY DEF TypeOK, LoopRecord
<1> DEFINE M(a) == groups'[a].rows \o groups'[a].incoming
<1>2. ASSUME NEW a \in Adapters
      PROVE  Len(Members(a)) \in Nat /\ Len(M(a)) \in Nat /\ Len(M(a)) <= Len(Members(a))
  <2>1. Members(a) \in Seq(Rows)
    BY MembersType
  <2>2. Len(Members(a)) \in Nat
    BY <2>1
  <2>3. CASE a = loop.cur
    <3>1. M(a) = g.rows \o g.incoming
      BY <1>1, <2>3
    <3>2. g.rows \in Seq(Rows) /\ g.incoming \in Seq(Rows)
      BY DEF Group
    <3> HIDE DEF M
    <3> QED BY <2>2, <2>3, <3>1, <3>2, ConcatLength
  <2>4. CASE a # loop.cur
    <3>1. M(a) = Members(a)
      BY <1>1, <2>4 DEF Members
    <3>2. Len(M(a)) = Len(Members(a))
      BY <3>1
    <3> HIDE DEF M
    <3> QED BY <2>2, <3>2
  <2> QED BY <2>3, <2>4
<1>3. Places' = UNION {{a} \X (1..Len(M(a))) : a \in Adapters}
  BY DEF Places, Members
<1> HIDE DEF M
<1>4. ASSUME NEW x \in Places' PROVE x \in Places
  <2>1. PICK a \in Adapters : \E i \in 1..Len(M(a)) : x = <<a, i>>
    BY <1>3, <1>4
  <2>2. PICK i \in 1..Len(M(a)) : x = <<a, i>>
    BY <2>1
  <2>3. i \in 1..Len(Members(a))
    BY <1>2, <2>2
  <2> QED BY <2>2, <2>3, PlacesIs
<1> QED BY <1>4

(* The contents of the slots do not matter. *)
LEMMA PlacesSlots ==
  ASSUME TypeOK, NEW t, groups' = [groups EXCEPT ![loop.cur].slots = t]
  PROVE  Places' = Places
<1>1. groups \in [Adapters -> Group] /\ loop.cur \in Adapters
  BY DEF TypeOK, LoopRecord
<1>2. \A a \in Adapters : groups'[a].rows = groups[a].rows /\ groups'[a].incoming = groups[a].incoming
  BY <1>1 DEF Group
<1>3. \A a \in Adapters : Members(a)' = Members(a)
  BY <1>2 DEF Members
<1> QED BY <1>3 DEF Places

(* admit_pending() adds a row only where a slot is free, and counts it. *)
LEMMA AdmitRowCapacity ==
  ASSUME TypeOK, Shape, Capacity, AdmitRow
  PROVE  Capacity'
<1> DEFINE r == pending_rows[loop.at]
           k == AdapterOf[Owner[r]]
           u == Append(groups[k].incoming, r)
<1>1. loop \in LoopRecord /\ groups \in [Adapters -> Group] /\ loop.at \in Nat
      /\ loop.occupied \in Nat /\ loop.pc = "admit"
  BY DEF TypeOK, LoopRecord, AdmitRow
<1>2. CASE groups' = groups /\ (loop' = loop \/ loop' = [loop EXCEPT !.at = @ + 1])
  <2>1. Places' = Places
    BY <1>2 DEF Places, Members
  <2>2. loop'.occupied = loop.occupied /\ loop'.pc = loop.pc
    BY <1>1, <1>2 DEF LoopRecord
  <2> QED BY <1>1, <2>1, <2>2 DEF Capacity, SlotCap
<1>3. CASE /\ groups' = [groups EXCEPT ![k].incoming = u]
           /\ loop' = [loop EXCEPT !.occupied = @ + 1]
           /\ ~NoFreeSlot
  <2>1. k \in Adapters /\ r \in Rows
    <3>1. r \in Rows
      <4>1. loop.at > 0 /\ loop.at <= Len(pending_rows) /\ pending_rows \in Seq(Rows)
        BY Zenon DEF TypeOK, Shape, AdmitRow
      <4> QED BY <1>1, <4>1
    <3> HIDE DEF r
    <3> QED BY <3>1, ConstantsAssumption
  <2> DEFINE n == Len(Members(k))
             M(a) == groups'[a].rows \o groups'[a].incoming
  <2>2. n \in Nat
    BY <2>1, MembersType
  <2>3. Len(M(k)) = n + 1
    <3>1. groups'[k].rows = groups[k].rows /\ groups'[k].incoming = u
      BY <1>1, <1>3, <2>1, Zenon DEF Group
    <3>2. groups[k].rows \in Seq(Rows) /\ groups[k].incoming \in Seq(Rows)
      BY <2>1, MembersType
    <3>3. Len(groups[k].rows \o Append(groups[k].incoming, r))
            = Len(groups[k].rows \o groups[k].incoming) + 1
      <4> HIDE DEF k, r
      <4> QED BY <2>1, <3>2, AppendedLength, Zenon
    <3>4. M(k) = groups[k].rows \o Append(groups[k].incoming, r)
      BY <3>1, Zenon
    <3>5. n = Len(groups[k].rows \o groups[k].incoming)
      BY DEF Members
    <3> HIDE DEF M, k, n, r
    <3> QED BY <3>3, <3>4, <3>5
  <2>4. \A a \in Adapters \ {k} : M(a) = Members(a)
    BY <1>1, <1>3, Zenon DEF Members
  <2>5. Places' = UNION {{a} \X (1..Len(M(a))) : a \in Adapters}
    BY DEF Places, Members
  <2>6. <<k, n + 1>> \notin Places
    <3> HIDE DEF k
    <3> QED BY <2>1, <2>2, PlacesIs
  <2>7. Places' = Places \cup {<<k, n + 1>>}
    <3> HIDE DEF k, n, M
    <3>1. ASSUME NEW x \in Places' PROVE x \in Places \cup {<<k, n + 1>>}
      <4>1. PICK a \in Adapters : \E i \in 1..Len(M(a)) : x = <<a, i>>
        BY <2>5, <3>1
      <4>2. PICK i \in 1..Len(M(a)) : x = <<a, i>>
        BY <4>1
      <4>3. CASE a # k
        <5>1. i \in 1..Len(Members(a))
          BY <2>4, <4>2, <4>3
        <5> QED BY <4>2, <5>1, PlacesIs
      <4>4. CASE a = k
        <5>1. i = n + 1 \/ i \in 1..Len(Members(a))
          BY <2>2, <2>3, <4>2, <4>4 DEF n
        <5> QED BY <4>2, <4>4, <5>1, PlacesIs
      <4> QED BY <4>3, <4>4
    <3>2. ASSUME NEW x \in Places \cup {<<k, n + 1>>} PROVE x \in Places'
      <4>1. PICK a \in Adapters, i \in Nat : x = <<a, i>> /\ i \in 1..Len(M(a))
        <5>1. CASE x \in Places
          <6>1. PICK a \in Adapters : \E i \in 1..Len(Members(a)) : x = <<a, i>>
            BY <5>1, PlacesIs
          <6>2. PICK i \in 1..Len(Members(a)) : x = <<a, i>>
            BY <6>1
          <6>3. i \in Nat /\ i \in 1..Len(M(a))
            BY <2>2, <2>3, <2>4, <6>2 DEF n
          <6> QED BY <6>2, <6>3
        <5>2. CASE x = <<k, n + 1>>
          BY <2>1, <2>2, <2>3, <5>2
        <5> QED BY <3>2, <5>1, <5>2
      <4> QED BY <2>5, <4>1
    <3> QED BY <3>1, <3>2
  <2>8. /\ IsFiniteSet(Places') /\ Cardinality(Places') = Cardinality(Places) + 1
        /\ Cardinality(Places) \in Nat
    BY <2>6, <2>7, FS_AddElement, FS_CardinalityType DEF Capacity
  <2>9. loop'.occupied = loop.occupied + 1 /\ loop.occupied < MaxRows
    BY <1>1, <1>3, ConstantsAssumption DEF LoopRecord, NoFreeSlot
  <2>10. loop.occupied = Cardinality(Places)
    BY <1>1 DEF Capacity
  <2> QED BY <2>8, <2>9, <2>10, ConstantsAssumption DEF Capacity, SlotCap
<1> QED BY <1>2, <1>3, Zenon DEF AdmitRow, placement

(* Every step keeps the slots within the cap. *)
LEMMA CapacityStep == IInv /\ [Next]_vars => Capacity'
<1> SUFFICES ASSUME TypeOK, Shape, Capacity, [Next]_vars
             PROVE  Capacity'
  BY DEF IInv
<1>1. loop \in LoopRecord /\ groups \in [Adapters -> Group] /\ loop.cur \in Adapters
  BY DEF TypeOK, LoopRecord
<1>2. ASSUME groups' = groups PROVE Places' = Places
  BY <1>2 DEF Places, Members
<1>3. CASE groups' = groups /\ (loop' = loop \/ loop'.pc # "admit")
  BY <1>2, <1>3, CapacityFrame
<1>4. CASE UNCHANGED vars \/ Destroy \/ \E q \in Requests : Client(q)
  BY <1>3, <1>4, Zenon DEF vars, Destroy, Client, SubmitPrefill, SubmitGenerate, Take, Deliver,
                    Conclude, placement
<1>5. CASE LoopTop \/ Admit \/ AdmitDone \/ RunChunk \/ CheckControls
  <2>1. groups' = groups
    BY <1>5, Zenon DEF LoopTop, Admit, AdmitDone, RunChunk, CheckControls, placement
  <2>2. CASE LoopTop
    BY <1>1, <1>3, <2>1, <2>2 DEF LoopTop, LoopRecord
  <2>3. CASE Admit
    BY <1>1, <1>3, <2>1, <2>3 DEF Admit, LoopRecord
  <2>4. CASE AdmitDone
    BY <1>1, <1>3, <2>1, <2>4 DEF AdmitDone, LoopRecord
  <2>5. CASE RunChunk
    BY <1>1, <1>3, <2>1, <2>5 DEF RunChunk, LoopRecord
  <2>6. CASE CheckControls
    BY <1>1, <1>3, <2>1, <2>6, Zenon DEF CheckControls, LoopRecord
  <2> QED BY <1>5, <2>2, <2>3, <2>4, <2>5, <2>6
<1>6. CASE (\E a \in Adapters : BeginStep(a)) \/ EndSweep \/ SampleDone \/ StepThrows
           \/ FailRow \/ RebuildRow
  <2>1. groups' = groups
    BY <1>6, Zenon DEF BeginStep, EndSweep, SampleDone, StepThrows, FailRow, RebuildRow, placement
  <2>2. CASE \E a \in Adapters : BeginStep(a)
    BY <1>1, <1>3, <2>1, <2>2 DEF BeginStep, LoopRecord
  <2>3. CASE EndSweep
    BY <1>1, <1>3, <2>1, <2>3 DEF EndSweep, LoopRecord
  <2>4. CASE SampleDone \/ StepThrows
    BY <1>1, <1>3, <2>1, <2>4 DEF SampleDone, StepThrows, LoopRecord
  <2>5. CASE FailRow
    <3>1. loop' = [loop EXCEPT !.at = @ + 1] /\ loop.pc = "fail"
      BY <2>5 DEF FailRow
    <3> QED BY <1>1, <1>3, <2>1, <3>1 DEF LoopRecord
  <2>6. CASE RebuildRow
    <3>1. /\ loop.pc = "rebuild"
          /\ \E v : loop' = [loop EXCEPT !.at = @ + 1]
                    \/ loop' = [loop EXCEPT !.at = @ + 1, !.live = v]
      BY <2>6, Zenon DEF RebuildRow
    <3> QED BY <1>1, <1>3, <2>1, <3>1, Zenon DEF LoopRecord
  <2> QED BY <1>6, <2>2, <2>3, <2>4, <2>5, <2>6
<1>7. CASE Arrived
  <2>1. Places' = Places
    BY <1>2, <1>7 DEF Arrived, placement
  <2> DEFINE n == Cardinality(Places)
  <2>2. loop' = [loop EXCEPT !.pc = "admit", !.at = 1, !.occupied = n]
    BY <1>7 DEF Arrived
  <2>3. loop'.occupied = n
    <3> HIDE DEF n
    <3> QED BY <1>1, <2>2 DEF LoopRecord
  <2> QED BY <2>1, <2>3 DEF Capacity, SlotCap
<1>8. CASE SampleRow
  <2>1. \E t : groups' = [groups EXCEPT ![loop.cur].slots = t]
    BY <1>8, SampleRowGroups
  <2>2. loop'.pc # "admit"
    BY <1>1, <1>8 DEF SampleRow, LoopRecord
  <2> QED BY <2>1, <2>2, PlacesSlots, CapacityFrame
<1>9. CASE Forward
  <2>1. \E t : groups' = [groups EXCEPT ![loop.cur].slots = t]
    BY <1>9, ForwardGroups
  <2>2. loop'.pc # "admit"
    BY <1>1, <1>9 DEF Forward, LoopRecord
  <2> QED BY <2>1, <2>2, PlacesSlots, CapacityFrame
<1>10. CASE RebuildCommit
  <2>1. /\ RebuiltGroup \in Group /\ RebuiltGroup.incoming = <<>>
        /\ Len(RebuiltGroup.rows) = Len(loop.live)
    BY <1>10, RebuiltType DEF RebuildCommit
  <2>2. Len(RebuiltGroup.rows \o RebuiltGroup.incoming) = Len(loop.live)
    <3> DEFINE g == RebuiltGroup
    <3>1. g.rows \in Seq(Rows) /\ g.incoming = <<>> /\ Len(g.rows) = Len(loop.live)
      BY <2>1 DEF Group
    <3> HIDE DEF g
    <3>2. Len(g.rows \o g.incoming) = Len(loop.live)
      BY <3>1
    <3> QED BY <3>2 DEF g
  <2>3. Len(loop.live) <= Len(Members(loop.cur))
    <3>1. Len(loop.live) \in Nat /\ Len(Members(loop.cur)) \in Nat /\ loop.at \in Nat
      <4>1. loop.live \in Seq(LiveRow) /\ loop.at \in Nat
        BY <1>1 DEF LoopRecord
      <4>2. Members(loop.cur) \in Seq(Rows)
        BY <1>1, MembersType
      <4> QED BY <4>1, <4>2
    <3>2. loop.at <= Len(Members(loop.cur)) + 1 /\ Len(loop.live) < loop.at
      BY <1>10 DEF Shape, RebuildShape, RebuildCommit
    <3> QED BY <3>1, <3>2
  <2>4. Places' \subseteq Places
    BY <1>10, <2>1, <2>2, <2>3, PlacesShrink DEF RebuildCommit
  <2>5. loop'.pc # "admit"
    <3>1. loop'.pc = AfterRebuild(loop.live = <<>>) /\ loop.pass \in 1..3
      BY <1>1, <1>10 DEF RebuildCommit, LoopRecord
    <3> QED BY <3>1 DEF AfterRebuild
  <2> QED BY <2>4, <2>5, CapacityShrink
<1>11. CASE FailDone
  <2>1. EmptyGroup \in Group
    <3>1. <<>> \in Seq(Rows) /\ <<>> \in Seq(Slot)
      OBVIOUS
    <3> QED BY <3>1 DEF EmptyGroup, Group
  <2>2. Len(EmptyGroup.rows \o EmptyGroup.incoming) <= Len(Members(loop.cur))
    <3>1. Members(loop.cur) \in Seq(Rows)
      BY <1>1, MembersType
    <3>2. Len(Members(loop.cur)) \in Nat
      BY <3>1
    <3>3. Len(EmptyGroup.rows \o EmptyGroup.incoming) = 0
      BY DEF EmptyGroup
    <3> QED BY <3>2, <3>3
  <2>3. Places' \subseteq Places
    BY <1>11, <2>1, <2>2, PlacesShrink DEF FailDone
  <2>4. loop'.pc # "admit"
    BY <1>1, <1>11 DEF FailDone, LoopRecord
  <2> QED BY <2>3, <2>4, CapacityShrink
<1> QED BY <1>4, <1>5, <1>6, <1>7, <1>8, <1>9, <1>10, <1>11, AdmitRowCapacity
       DEF Next, Loop, Terminated

-----------------------------------------------------------------------------
(* RowsOf lists each row of a request once. *)
LEMMA RowsOfCount ==
  ASSUME NEW q \in Requests
  PROVE  /\ IsFiniteSet({r \in Rows : Owner[r] = q}) /\ Len(RowsOf[q]) \in Nat
         /\ Cardinality({r \in Rows : Owner[r] = q}) = Len(RowsOf[q])
<1> DEFINE s == RowsOf[q]
           n == Len(s)
           f == [i \in 1..n |-> s[i]]
           T == {r \in Rows : Owner[r] = q}
<1>1. s \in Seq(Rows) /\ n \in Nat
  <2>1. s \in Seq(Rows)
    BY ConstantsAssumption
  <2> QED BY <2>1
<1>2. /\ \A i \in 1..n : Owner[s[i]] = q
      /\ \A i, j \in 1..n : s[i] = s[j] => i = j
      /\ \A r \in Rows : Owner[r] = q => \E i \in 1..n : s[i] = r
  BY ConstantsAssumption
<1>3. f \in Bijection(1..n, T)
  <2>1. \A i \in 1..n : s[i] \in Rows
    BY <1>1
  <2> HIDE DEF s, n
  <2>2. f \in [1..n -> T]
    BY <1>2, <2>1
  <2>3. \A i, j \in 1..n : f[i] = f[j] => i = j
    BY <1>2
  <2>4. \A r \in T : \E i \in 1..n : f[i] = r
    BY <1>2
  <2> HIDE DEF f, T
  <2>5. f \in Injection(1..n, T)
    BY <2>2, <2>3 DEF Injection, IsInjective
  <2>6. f \in Surjection(1..n, T)
    BY <2>2, <2>4 DEF Surjection
  <2> QED BY <2>5, <2>6 DEF Bijection
<1>4. ExistsBijection(1..n, T)
  BY <1>3 DEF ExistsBijection
<1>5. Cardinality(T) = n /\ IsFiniteSet(T)
  <2>1. IsFiniteSet(T)
    BY ConstantsAssumption, FS_Subset
  <2> HIDE DEF n, T
  <2> QED BY <1>1, <1>4, <2>1, FS_CountingElements
<1> QED BY <1>1, <1>5

(* Initially there are no groups and no row is completed. *)
LEMMA InitRest == Init => Shape /\ CompletionAccounting /\ Capacity
<1> SUFFICES ASSUME Init PROVE Shape /\ CompletionAccounting /\ Capacity
  OBVIOUS
<1>1. Shape
  BY DEF Init, Shape, SlotPerRow, RebuildShape, EmptyGroup
<1>2. CompletionAccounting
  <2> SUFFICES ASSUME NEW q \in Requests
               PROVE  /\ req[q].remaining = Cardinality(Uncompleted(q))
                      /\ req[q].done <=> req[q].remaining = 0
    BY DEF CompletionAccounting, Uncompleted
  <2>1. req[q].remaining = Len(RowsOf[q]) /\ req[q].done = FALSE
    BY DEF Init
  <2>2. Len(RowsOf[q]) > 0
    BY ConstantsAssumption
  <2>3. Uncompleted(q) = {r \in Rows : Owner[r] = q}
    BY DEF Init, Uncompleted
  <2> QED BY <2>1, <2>2, <2>3, RowsOfCount
<1>3. Capacity
  <2>1. Places = {}
    BY PlacesIs DEF Init, Members, EmptyGroup
  <2>2. loop.pc = "top"
    BY DEF Init
  <2> QED BY <2>1, <2>2, FS_EmptySet, ConstantsAssumption DEF Capacity, SlotCap
<1> QED BY <1>1, <1>2, <1>3

(* The inductive invariant holds throughout. *)
LEMMA Inductive == Spec => []IInv
<1>1. Init => IInv
  BY InitType, InitRest DEF IInv
<1>2. IInv /\ [Next]_vars => IInv'
  BY TypeStep, ShapeStep, AccountingStep, CapacityStep DEF IInv
<1> QED BY <1>1, <1>2, PTL DEF Spec

(* The variables keep their types, for every set of calls, rows and group   *)
(* keys: the owner never counts a request's rows below zero and never moves *)
(* to a stage the loop does not have.                                      *)
THEOREM TypeCorrect == Spec => []TypeOK
<1>1. IInv => TypeOK
  BY DEF IInv
<1> QED BY <1>1, Inductive, PTL

(* remaining and done agree with the completed rows whatever the order in   *)
(* which rows finish, pause, fail, are cancelled or shut down.             *)
THEOREM RowsCompletedOnce == Spec => []CompletionAccounting
<1>1. IInv => CompletionAccounting
  BY DEF IInv
<1> QED BY <1>1, Inductive, PTL

(* The rows of all groups together never exceed --decode-batch-size. *)
THEOREM SlotsWithinCap == Spec => []SlotCap
<1>1. IInv => SlotCap
  BY DEF IInv, Capacity
<1> QED BY <1>1, Inductive, PTL

-----------------------------------------------------------------------------
(* Where a row is, in terms of the sequences the two threads hand over. *)
In(s, x) == \E i \in 1..Len(s) : s[i] = x
NoRepeat(s) == \A i, j \in 1..Len(s) : s[i] = s[j] => i = j

Queued(q)   == In(incoming, q) \/ In(loop.arrivals, q)
Pending(r)  == In(pending_rows, r)
Grouped(r)  == In(Members(AdapterOf[Owner[r]]), r)
Newcomer(r) == In(groups[AdapterOf[Owner[r]]].incoming, r)
Inside(q)   == client[q].stage \in {"waiting", "delivering"}
Started(q)  == client[q].stage \notin {"new", "prefilling"}

(* A caller waits for at most one prefill chunk, which is queued once. *)
PrefillQueue ==
  /\ NoRepeat(prefill) /\ Len(loop.chunk) <= 1
  /\ \A q \in Requests : In(prefill, q) => client[q].stage = "prefilling"
  /\ \A q \in Requests : In(loop.chunk, q) =>
       client[q].stage = "prefilling" /\ ~In(prefill, q)

(* No request and no row is listed twice in the same place, and a row joins *)
(* only the group of its request's adapter.                                *)
NoDuplicates ==
  /\ NoRepeat(incoming) /\ NoRepeat(loop.arrivals) /\ NoRepeat(pending_rows)
  /\ \A q \in Requests : ~(In(incoming, q) /\ In(loop.arrivals, q))
  /\ \A a \in Adapters : NoRepeat(Members(a))
OwnGroup == \A a \in Adapters, r \in Rows : In(Members(a), r) => a = AdapterOf[Owner[r]]

(* A row to complete is somewhere exactly while its caller is inside        *)
(* generate(); a completed one is nowhere a row could start again from.     *)
Housed ==
  \A r \in Rows : ~row[r].completed =>
    /\ Inside(Owner[r]) <=> Queued(Owner[r]) \/ Pending(r) \/ Grouped(r)
    /\ Queued(Owner[r]) => ~Pending(r) /\ ~Grouped(r)
Left ==
  \A r \in Rows : row[r].completed =>
    /\ Started(Owner[r]) /\ ~Queued(Owner[r])
    /\ Pending(r) \/ Newcomer(r) => Dead(r)

(* A caller that has seen `done` has no row left to complete. *)
CallersDone == \A r \in Rows : client[Owner[r]].done => row[r].completed

(* What the owner knows at each stage of its loop. *)
Kept(r) == \E k \in 1..Len(loop.live) : loop.live[k].row = r
Paused == \A r \in Rows : ~row[r].completed /\ Pending(r) /\ Grouped(r) =>
            loop.pc \in {"rebuild", "fail"} /\ loop.cur = AdapterOf[Owner[r]]
Building ==
  loop.pc = "rebuild" =>
    /\ \A i \in 1..Len(Members(loop.cur)) :
         LET r == Members(loop.cur)[i]
         IN  ~row[r].completed =>
               IF i < loop.at THEN Pending(r) <=> ~Kept(r) ELSE ~Pending(r)
    /\ \A k \in 1..Len(loop.live) :
         /\ ~row[loop.live[k].row].completed
         /\ \E i \in 1..Len(Members(loop.cur)) :
              i < loop.at /\ Members(loop.cur)[i] = loop.live[k].row
    /\ \A k, l \in 1..Len(loop.live) : loop.live[k].row = loop.live[l].row => k = l
Running == loop.pc \in {"sample", "forward"} =>
             \A i \in 1..Len(Current.rows) : ~row[Current.rows[i]].completed
FailedSoFar == loop.pc = "fail" =>
  \A i \in 1..Len(Members(loop.cur)) : i < loop.at => row[Members(loop.cur)[i]].completed
Idle == /\ loop.pc # "arrive" => loop.arrivals = <<>>
        /\ loop.pc \notin {"rebuild", "fail"} => loop.live = <<>>
Owning == Paused /\ Building /\ Running /\ FailedSoFar /\ Idle

HInv == PrefillQueue /\ NoDuplicates /\ OwnGroup /\ Housed /\ Left /\ CallersDone /\ Owning
-----------------------------------------------------------------------------
(* What the queue operations of the owner do to the elements of a sequence.  *)
(* push_back adds its element.                                             *)
LEMMA AppendIn ==
  ASSUME NEW S, NEW s \in Seq(S), NEW e \in S, NEW x
  PROVE  In(Append(s, e), x) <=> In(s, x) \/ x = e
<1>1. /\ Len(Append(s, e)) = Len(s) + 1 /\ Len(s) \in Nat
      /\ \A i \in 1..Len(s) : Append(s, e)[i] = s[i]
      /\ Append(s, e)[Len(s) + 1] = e
  OBVIOUS
<1>2. ASSUME In(Append(s, e), x) PROVE In(s, x) \/ x = e
  BY <1>1, <1>2 DEF In
<1>3. ASSUME In(s, x) PROVE In(Append(s, e), x)
  <2>1. PICK i \in 1..Len(s) : s[i] = x
    BY <1>3 DEF In
  <2>2. i \in 1..Len(Append(s, e)) /\ Append(s, e)[i] = x
    BY <1>1, <2>1
  <2> QED BY <2>2 DEF In
<1>4. ASSUME x = e PROVE In(Append(s, e), x)
  <2>1. Len(s) + 1 \in 1..Len(Append(s, e))
    BY <1>1
  <2> QED BY <1>1, <1>4, <2>1 DEF In
<1> QED BY <1>2, <1>3, <1>4

(* A new element keeps a queue without repetition. *)
LEMMA AppendNoRepeat ==
  ASSUME NEW S, NEW s \in Seq(S), NEW e \in S, NoRepeat(s), ~In(s, e)
  PROVE  NoRepeat(Append(s, e))
  BY DEF NoRepeat, In

(* pop_front removes the first element. *)
LEMMA TailFacts ==
  ASSUME NEW S, NEW s \in Seq(S), s # <<>>, NoRepeat(s)
  PROVE  NoRepeat(Tail(s)) /\ \A x : In(Tail(s), x) <=> In(s, x) /\ x # Head(s)
<1>1. /\ Len(s) \in Nat /\ Len(s) > 0 /\ Len(Tail(s)) = Len(s) - 1 /\ Head(s) = s[1]
      /\ \A i \in 1..Len(Tail(s)) : Tail(s)[i] = s[i + 1]
  OBVIOUS
<1>2. NoRepeat(Tail(s))
  BY <1>1 DEF NoRepeat
<1>3. ASSUME NEW x, In(Tail(s), x) PROVE In(s, x) /\ x # Head(s)
  <2>1. PICK i \in 1..Len(Tail(s)) : Tail(s)[i] = x
    BY <1>3 DEF In
  <2>2. i + 1 \in 1..Len(s) /\ s[i + 1] = x /\ i + 1 # 1 /\ 1 \in 1..Len(s)
    BY <1>1, <2>1
  <2> QED BY <1>1, <2>2 DEF In, NoRepeat
<1>4. ASSUME NEW x, In(s, x), x # Head(s) PROVE In(Tail(s), x)
  <2>1. PICK i \in 1..Len(s) : s[i] = x
    BY <1>4 DEF In
  <2>2. i # 1
    BY <1>1, <1>4, <2>1
  <2>3. i - 1 \in 1..Len(Tail(s)) /\ Tail(s)[i - 1] = s[(i - 1) + 1] /\ (i - 1) + 1 = i
    BY <1>1, <2>1, <2>2
  <2>4. Tail(s)[i - 1] = x
    BY <2>1, <2>3
  <2> QED BY <2>3, <2>4 DEF In
<1> QED BY <1>2, <1>3, <1>4

(* erase removes the element it points at. *)
LEMMA RemoveFacts ==
  ASSUME NEW S, NEW s \in Seq(S), NEW n \in 1..Len(s), NoRepeat(s)
  PROVE  /\ NoRepeat(RemoveAt(s, n))
         /\ \A x : In(RemoveAt(s, n), x) <=> In(s, x) /\ x # s[n]
<1> DEFINE t == RemoveAt(s, n)
<1>1. /\ Len(s) \in Nat /\ Len(t) = Len(s) - 1
      /\ \A i \in 1..Len(t) : t[i] = IF i < n THEN s[i] ELSE s[i + 1]
  <2> DEFINE a == SubSeq(s, 1, n - 1)
             b == SubSeq(s, n + 1, Len(s))
  <2>1. Len(s) \in Nat /\ n \in Nat /\ n >= 1 /\ n <= Len(s)
    OBVIOUS
  <2>2. a \in Seq(S) /\ Len(a) = n - 1 /\ \A i \in 1..(n - 1) : a[i] = s[i]
    BY <2>1
  <2>3. b \in Seq(S) /\ Len(b) = Len(s) - n /\ \A i \in 1..(Len(s) - n) : b[i] = s[i + n]
    BY <2>1
  <2>4. t = a \o b
    BY DEF RemoveAt
  <2> HIDE DEF a, b, t
  <2>5. /\ Len(t) = Len(a) + Len(b)
        /\ \A i \in 1..Len(t) : t[i] = IF i <= Len(a) THEN a[i] ELSE b[i - Len(a)]
    <3>1. /\ Len(a \o b) = Len(a) + Len(b)
          /\ \A i \in 1..Len(a \o b) :
               (a \o b)[i] = IF i <= Len(a) THEN a[i] ELSE b[i - Len(a)]
      <4>1. a \in Seq(S) /\ b \in Seq(S)
        BY <2>2, <2>3
      <4> QED BY <4>1
    <3> QED BY <2>4, <3>1
  <2> SUFFICES ASSUME NEW i \in 1..Len(t)
               PROVE  t[i] = IF i < n THEN s[i] ELSE s[i + 1]
    BY <2>1, <2>2, <2>3, <2>5
  <2>6. CASE i < n
    BY <2>1, <2>2, <2>3, <2>5, <2>6
  <2>7. CASE ~(i < n)
    <3>1. i - (n - 1) \in 1..(Len(s) - n) /\ (i - (n - 1)) + n = i + 1 /\ ~(i <= Len(a))
      BY <2>1, <2>2, <2>3, <2>5, <2>7
    <3>2. t[i] = b[i - (n - 1)]
      BY <2>2, <2>5, <3>1
    <3>3. b[i - (n - 1)] = s[i + 1]
      BY <2>3, <3>1
    <3> QED BY <2>7, <3>2, <3>3
  <2> QED BY <2>6, <2>7
<1> HIDE DEF t
<1>2. NoRepeat(t)
  BY <1>1 DEF NoRepeat
<1>3. ASSUME NEW x, In(t, x) PROVE In(s, x) /\ x # s[n]
  <2>1. PICK i \in 1..Len(t) : t[i] = x
    BY <1>3 DEF In
  <2>2. PICK j \in 1..Len(s) : s[j] = x /\ j # n
    <3>1. CASE i < n
      BY <1>1, <2>1, <3>1
    <3>2. CASE ~(i < n)
      <4>1. i + 1 \in 1..Len(s) /\ s[i + 1] = x /\ i + 1 # n
        BY <1>1, <2>1, <3>2
      <4> QED BY <4>1
    <3> QED BY <3>1, <3>2
  <2> QED BY <2>2 DEF In, NoRepeat
<1>4. ASSUME NEW x, In(s, x), x # s[n] PROVE In(t, x)
  <2>1. PICK i \in 1..Len(s) : s[i] = x
    BY <1>4 DEF In
  <2>2. CASE i < n
    <3>1. i \in 1..Len(t) /\ t[i] = x
      BY <1>1, <2>1, <2>2
    <3> QED BY <3>1 DEF In
  <2>3. CASE i > n
    <3>1. i - 1 \in 1..Len(t) /\ ~(i - 1 < n) /\ (i - 1) + 1 = i
      BY <1>1, <2>1, <2>3
    <3>2. t[i - 1] = x
      BY <1>1, <2>1, <3>1
    <3> QED BY <3>1, <3>2 DEF In
  <2> QED BY <1>4, <2>1, <2>2, <2>3
<1> QED BY <1>2, <1>3, <1>4 DEF t

(* The elements of a concatenation are those of its parts. *)
LEMMA ConcatIn ==
  ASSUME NEW S, NEW s \in Seq(S), NEW t \in Seq(S), NEW x
  PROVE  In(s \o t, x) <=> In(s, x) \/ In(t, x)
<1>1. /\ Len(s \o t) = Len(s) + Len(t) /\ Len(s) \in Nat /\ Len(t) \in Nat
      /\ \A i \in 1..Len(s \o t) :
           (s \o t)[i] = IF i <= Len(s) THEN s[i] ELSE t[i - Len(s)]
  OBVIOUS
<1> DEFINE u == s \o t
<1>2. ASSUME In(u, x) PROVE In(s, x) \/ In(t, x)
  <2>1. PICK i \in 1..Len(u) : u[i] = x
    BY <1>2 DEF In
  <2>2. CASE i <= Len(s)
    BY <1>1, <2>1, <2>2 DEF In
  <2>3. CASE ~(i <= Len(s))
    <3>1. i - Len(s) \in 1..Len(t) /\ t[i - Len(s)] = x
      BY <1>1, <2>1, <2>3
    <3> QED BY <3>1 DEF In
  <2> QED BY <2>2, <2>3
<1>3. ASSUME In(s, x) PROVE In(u, x)
  <2>1. PICK i \in 1..Len(s) : s[i] = x
    BY <1>3 DEF In
  <2>2. i \in 1..Len(u) /\ u[i] = x
    BY <1>1, <2>1
  <2> QED BY <2>2 DEF In
<1>4. ASSUME In(t, x) PROVE In(u, x)
  <2>1. PICK i \in 1..Len(t) : t[i] = x
    BY <1>4 DEF In
  <2>2. /\ i + Len(s) \in 1..Len(u) /\ ~(i + Len(s) <= Len(s))
        /\ (i + Len(s)) - Len(s) = i
    BY <1>1, <2>1
  <2>3. u[i + Len(s)] = x
    BY <1>1, <2>1, <2>2
  <2> QED BY <2>2, <2>3 DEF In
<1> QED BY <1>2, <1>3, <1>4

(* Sequences with nothing in common are joined without repetition. *)
LEMMA ConcatNoRepeat ==
  ASSUME NEW S, NEW s \in Seq(S), NEW t \in Seq(S), NoRepeat(s), NoRepeat(t),
         \A x : ~(In(s, x) /\ In(t, x))
  PROVE  NoRepeat(s \o t)
<1> DEFINE u == s \o t
<1>1. /\ Len(u) = Len(s) + Len(t) /\ Len(s) \in Nat /\ Len(t) \in Nat
      /\ \A i \in 1..Len(u) : u[i] = IF i <= Len(s) THEN s[i] ELSE t[i - Len(s)]
  OBVIOUS
<1> HIDE DEF u
<1> SUFFICES ASSUME NEW i \in 1..Len(u), NEW j \in 1..Len(u), u[i] = u[j]
             PROVE  i = j
  BY DEF NoRepeat, u
<1>2. CASE i <= Len(s) /\ j <= Len(s)
  BY <1>1, <1>2 DEF NoRepeat
<1>3. CASE ~(i <= Len(s)) /\ ~(j <= Len(s))
  <2>1. i - Len(s) \in 1..Len(t) /\ j - Len(s) \in 1..Len(t) /\ t[i - Len(s)] = t[j - Len(s)]
    BY <1>1, <1>3
  <2>2. i - Len(s) = j - Len(s)
    BY <2>1 DEF NoRepeat
  <2> QED BY <1>1, <2>2
<1>4. ASSUME NEW k \in 1..Len(u), NEW l \in 1..Len(u), u[k] = u[l],
             k <= Len(s), ~(l <= Len(s))
      PROVE  FALSE
  <2>1. k \in 1..Len(s) /\ l - Len(s) \in 1..Len(t) /\ s[k] = t[l - Len(s)]
    BY <1>1, <1>4
  <2> QED BY <2>1 DEF In
<1> QED BY <1>2, <1>3, <1>4

(* Where nothing is repeated, an element has one position or none. *)
LEMMA CountOnce ==
  ASSUME NEW s, NoRepeat(s), NEW x
  PROVE  Cardinality({i \in 1..Len(s) : s[i] = x}) = IF In(s, x) THEN 1 ELSE 0
<1>1. CASE In(s, x)
  <2>1. PICK i \in 1..Len(s) : s[i] = x
    BY <1>1 DEF In
  <2>2. {j \in 1..Len(s) : s[j] = x} = {i}
    BY <2>1 DEF NoRepeat
  <2> QED BY <1>1, <2>2, FS_Singleton
<1>2. CASE ~In(s, x)
  <2>1. {j \in 1..Len(s) : s[j] = x} = {}
    BY <1>2 DEF In
  <2> QED BY <1>2, <2>1, FS_EmptySet
<1> QED BY <1>1, <1>2

(* Appending to the second part appends to the whole. *)
LEMMA ConcatAppend ==
  ASSUME NEW S, NEW s \in Seq(S), NEW t \in Seq(S), NEW e \in S
  PROVE  s \o Append(t, e) = Append(s \o t, e)
<1> DEFINE u == s \o Append(t, e)
           v == Append(s \o t, e)
<1>1. u \in Seq(S) /\ v \in Seq(S) /\ Len(u) = Len(v)
  OBVIOUS
<1>2. \A i \in 1..Len(u) : u[i] = v[i]
  OBVIOUS
<1> HIDE DEF u, v
<1> QED BY <1>1, <1>2

(* Nothing is in an empty queue, one element in a queue of one. *)
LEMMA SmallIn ==
  /\ \A x : ~In(<<>>, x)
  /\ \A e, x : In(<<e>>, x) <=> x = e
  /\ NoRepeat(<<>>)
<1>1. \A x : ~In(<<>>, x)
  BY DEF In
<1>2. ASSUME NEW e, NEW x PROVE In(<<e>>, x) <=> x = e
  BY DEF In
<1>3. NoRepeat(<<>>)
  BY DEF NoRepeat
<1> QED BY <1>1, <1>2, <1>3

-----------------------------------------------------------------------------
(* Prefill chunks and their callers.                                       *)
(* Past the arrivals the owner leaves the queues and the callers alone.     *)
OwnerWork == \/ Arrived \/ AdmitRow \/ AdmitDone \/ CheckControls
             \/ (\E a \in Adapters : BeginStep(a)) \/ EndSweep
             \/ RebuildRow \/ RebuildCommit \/ SampleRow \/ SampleDone \/ Forward
             \/ StepThrows \/ FailRow \/ FailDone

(* Each of those steps keeps them as they are. *)
LEMMA OwnerKeeps ==
  ASSUME TypeOK, OwnerWork
  PROVE  /\ loop'.chunk = loop.chunk /\ loop'.arrivals = loop.arrivals
         /\ prefill' = prefill /\ incoming' = incoming /\ client' = client
<1>1. prefill' = prefill /\ incoming' = incoming /\ client' = client
  BY Zenon DEF OwnerWork, Arrived, AdmitRow, AdmitDone, CheckControls, BeginStep, EndSweep,
         RebuildRow, RebuildCommit, SampleRow, SampleDone, Forward, StepThrows, FailRow,
         FailDone, queues, callers
<1>2. loop \in LoopRecord
  BY DEF TypeOK
<1>3. ASSUME NEW n, NEW t, NEW p, NEW c, NEW v, NEW o, NEW w,
             \/ loop' = loop
             \/ loop' = [loop EXCEPT !.pc = p]
             \/ loop' = [loop EXCEPT !.at = n]
             \/ loop' = [loop EXCEPT !.occupied = o]
             \/ loop' = [loop EXCEPT !.pc = p, !.at = n]
             \/ loop' = [loop EXCEPT !.pc = p, !.at = n, !.occupied = o]
             \/ loop' = [loop EXCEPT !.pc = p, !.todo = t]
             \/ loop' = [loop EXCEPT !.pc = p, !.todo = t, !.cur = c, !.pass = w, !.at = n,
                                     !.live = v]
             \/ loop' = [loop EXCEPT !.at = n, !.live = v]
             \/ loop' = [loop EXCEPT !.pc = p, !.at = n, !.live = v]
             \/ loop' = [loop EXCEPT !.pc = p, !.pass = w, !.at = n, !.live = v]
             \/ loop' = [loop EXCEPT !.pc = p, !.at = n, !.pass = w, !.live = v]
      PROVE  loop'.chunk = loop.chunk /\ loop'.arrivals = loop.arrivals
  BY <1>2, <1>3, Zenon DEF LoopRecord
<1>4. CASE AdmitRow
  <2>1. \/ loop' = loop \/ loop' = [loop EXCEPT !.at = loop.at + 1]
        \/ loop' = [loop EXCEPT !.occupied = loop.occupied + 1]
    BY <1>4, Zenon DEF AdmitRow
  <2> QED BY <1>1, <1>3, <2>1, Zenon
<1>5. CASE RebuildRow
  <2>1. \/ loop' = [loop EXCEPT !.at = loop.at + 1]
        \/ \E v : loop' = [loop EXCEPT !.at = loop.at + 1, !.live = v]
    BY <1>5, Zenon DEF RebuildRow
  <2> QED BY <1>1, <1>3, <2>1, Zenon
<1>6. CASE SampleRow \/ FailRow
  <2>1. loop' = [loop EXCEPT !.at = loop.at + 1]
    BY <1>6, Zenon DEF SampleRow, FailRow
  <2> QED BY <1>1, <1>3, <2>1
<1>7. CASE Arrived
  <2>1. \E o : loop' = [loop EXCEPT !.pc = "admit", !.at = 1, !.occupied = o]
    BY <1>7, Zenon DEF Arrived
  <2> QED BY <1>1, <1>3, <2>1
<1>8. CASE CheckControls
  <2>1. \E t : loop' = [loop EXCEPT !.pc = "sweep", !.todo = t]
    BY <1>8, Zenon DEF CheckControls
  <2> QED BY <1>1, <1>3, <2>1
<1>9. CASE \E a \in Adapters : BeginStep(a)
  <2>1. \E a, t : loop' = [loop EXCEPT !.pc = "rebuild", !.todo = t, !.cur = a, !.pass = 1,
                                       !.at = 1, !.live = <<>>]
    BY <1>9, Zenon DEF BeginStep
  <2> QED BY <1>1, <1>3, <2>1
<1>10. CASE RebuildCommit
  <2>1. \E p : loop' = [loop EXCEPT !.pc = p, !.at = 1, !.live = <<>>]
    BY <1>10, Zenon DEF RebuildCommit
  <2> QED BY <1>1, <1>3, <2>1
<1>11. CASE EndSweep
  <2>1. \E p : loop' = [loop EXCEPT !.pc = p]
    BY <1>11 DEF EndSweep
  <2> QED BY <1>1, <1>3, <2>1
<1>12. CASE AdmitDone \/ StepThrows
  <2>1. \/ loop' = [loop EXCEPT !.pc = "chunk", !.at = 1, !.occupied = 0]
        \/ loop' = [loop EXCEPT !.pc = "fail", !.at = 1]
    BY <1>12 DEF AdmitDone, StepThrows
  <2> QED BY <1>1, <1>2, <2>1 DEF LoopRecord
<1>13. CASE SampleDone \/ Forward \/ FailDone
  <2>1. \/ \E w : loop' = [loop EXCEPT !.pc = "rebuild", !.pass = w, !.at = 1, !.live = <<>>]
        \/ loop' = [loop EXCEPT !.pc = "sweep", !.at = 1, !.pass = 1, !.live = <<>>]
    BY <1>13, Zenon DEF SampleDone, Forward, FailDone
  <2> QED BY <1>1, <1>2, <2>1, Zenon DEF LoopRecord
<1> QED BY <1>4, <1>5, <1>6, <1>7, <1>8, <1>9, <1>10, <1>11, <1>12, <1>13 DEF OwnerWork

(* The frame: both queues stay and nobody stops waiting for a chunk. *)
LEMMA PrefillFrame ==
  ASSUME PrefillQueue, prefill' = prefill, loop'.chunk = loop.chunk,
         \A q \in Requests : client[q].stage = "prefilling" => client'[q].stage = "prefilling"
  PROVE  PrefillQueue'
  BY DEF PrefillQueue

(* A chunk is queued, taken and run once. *)
LEMMA PrefillStep ==
  ASSUME TypeOK, PrefillQueue, [Next]_vars
  PROVE  PrefillQueue'
<1>1. /\ client \in [Requests -> ClientRecord] /\ prefill \in Seq(Requests)
      /\ loop \in LoopRecord /\ loop.chunk \in Seq(Requests)
  BY DEF TypeOK, LoopRecord
<1>2. CASE UNCHANGED vars \/ Destroy
  BY <1>2, PrefillFrame DEF vars, Destroy, callers
<1>3. ASSUME NEW q \in Requests, Client(q) PROVE PrefillQueue'
  <2>1. CASE SubmitPrefill(q)
    <3>1. loop' = loop /\ client[q].stage = "new"
      BY <2>1 DEF SubmitPrefill
    <3>2. CASE prefill' = prefill
      <4>1. \A p \in Requests : client[p].stage = "prefilling" => client'[p] = client[p]
        BY <1>1, <2>1 DEF SubmitPrefill
      <4> QED BY <3>1, <3>2, <4>1, PrefillFrame
    <3>3. CASE prefill' = Append(prefill, q) /\ client' = [client EXCEPT ![q].stage = "prefilling"]
      <4>1. ~In(prefill, q) /\ ~In(loop.chunk, q)
        BY <3>1 DEF PrefillQueue
      <4>2. NoRepeat(prefill') /\ \A x : In(prefill', x) <=> In(prefill, x) \/ x = q
        BY <1>1, <3>3, <4>1, AppendIn, AppendNoRepeat DEF PrefillQueue
      <4>3. \A p \in Requests : p # q => client'[p] = client[p]
        BY <1>1, <3>3
      <4>4. client'[q].stage = "prefilling"
        BY <1>1, <3>3 DEF ClientRecord
      <4> QED BY <3>1, <4>1, <4>2, <4>3, <4>4 DEF PrefillQueue
    <3> QED BY <2>1, <3>2, <3>3 DEF SubmitPrefill
  <2>2. CASE SubmitGenerate(q) \/ Take(q) \/ Deliver(q) \/ Conclude(q)
    <3>1. prefill' = prefill /\ loop' = loop /\ client[q].stage # "prefilling"
      BY <2>2 DEF SubmitGenerate, Take, Deliver, Conclude, queues
    <3>2. \A p \in Requests : p # q => client'[p] = client[p]
      BY <1>1, <2>2 DEF SubmitGenerate, Take, Deliver, Accept, Refuse, Throw, Skip, Drop,
                        Conclude
    <3> QED BY <3>1, <3>2, PrefillFrame
  <2> QED BY <1>3, <2>1, <2>2 DEF Client
<1>4. CASE LoopTop
  <2>1. client' = client /\ loop'.chunk = IF prefill = <<>> THEN <<>> ELSE <<Head(prefill)>>
    BY <1>1, <1>4 DEF LoopTop, callers, LoopRecord
  <2>2. CASE prefill = <<>>
    <3>1. prefill' = <<>> /\ loop'.chunk = <<>>
      BY <1>4, <2>1, <2>2 DEF LoopTop
    <3> QED BY <2>1, <3>1, SmallIn DEF PrefillQueue
  <2>3. CASE prefill # <<>>
    <3>1. prefill' = Tail(prefill) /\ loop'.chunk = <<Head(prefill)>>
      BY <1>4, <2>1, <2>3 DEF LoopTop
    <3>2. /\ NoRepeat(prefill')
          /\ \A x : In(prefill', x) <=> In(prefill, x) /\ x # Head(prefill)
      BY <1>1, <2>3, <3>1, TailFacts DEF PrefillQueue
    <3>3. \A x : In(loop'.chunk, x) <=> x = Head(prefill)
      BY <3>1, SmallIn
    <3>4. In(prefill, Head(prefill)) /\ Len(loop'.chunk) <= 1
      <4>1. 1 \in 1..Len(prefill) /\ prefill[1] = Head(prefill)
        BY <1>1, <2>3
      <4>2. Len(loop'.chunk) = 1
        BY <3>1
      <4> QED BY <4>1, <4>2 DEF In
    <3> QED BY <2>1, <3>2, <3>3, <3>4 DEF PrefillQueue
  <2> QED BY <2>2, <2>3
<1>5. CASE Admit
  <2>1. loop'.chunk = loop.chunk
    BY <1>1, <1>5 DEF Admit, LoopRecord
  <2> QED BY <1>5, <2>1, PrefillFrame DEF Admit, queues, callers
<1>6. CASE RunChunk
  <2>1. prefill' = prefill /\ loop'.chunk = <<>>
    BY <1>1, <1>6 DEF RunChunk, LoopRecord, queues
  <2>2. CASE loop.chunk = <<>>
    BY <1>6, <2>1, <2>2, PrefillFrame DEF RunChunk
  <2>3. CASE loop.chunk # <<>>
    <3>1. In(loop.chunk, loop.chunk[1]) /\ loop.chunk[1] \in Requests
      BY <1>1, <2>3 DEF In
    <3>2. \A p \in Requests : p # loop.chunk[1] => client'[p] = client[p]
      BY <1>1, <1>6, <2>3, <3>1 DEF RunChunk
    <3>3. ~In(prefill, loop.chunk[1])
      BY <3>1 DEF PrefillQueue
    <3> QED BY <2>1, <3>2, <3>3, SmallIn DEF PrefillQueue
  <2> QED BY <2>2, <2>3
<1>7. CASE OwnerWork
  BY <1>7, OwnerKeeps, PrefillFrame
<1> QED BY <1>2, <1>3, <1>4, <1>5, <1>6, <1>7 DEF Next, Loop, OwnerWork, Terminated

-----------------------------------------------------------------------------
(* Where the rows are.                                                     *)
(* Every row has its request and its key, every request a row.             *)
LEMMA Belongs ==
  /\ \A r \in Rows : Owner[r] \in Requests /\ AdapterOf[Owner[r]] \in Adapters
  /\ \A q \in Requests : \E r \in Rows : Owner[r] = q
<1>1. \A r \in Rows : Owner[r] \in Requests /\ AdapterOf[Owner[r]] \in Adapters
  BY ConstantsAssumption
<1>2. ASSUME NEW q \in Requests PROVE \E r \in Rows : Owner[r] = q
  <2>1. /\ RowsOf[q] \in Seq(Rows) /\ Len(RowsOf[q]) > 0
        /\ \A i \in 1..Len(RowsOf[q]) : Owner[RowsOf[q][i]] = q
    BY ConstantsAssumption
  <2>2. 1 \in 1..Len(RowsOf[q]) /\ RowsOf[q][1] \in Rows
    BY <2>1
  <2> QED BY <2>1, <2>2
<1> QED BY <1>1, <1>2

(* The rows RowsOf lists for a request are exactly its own. *)
LEMMA RowsOfFacts ==
  ASSUME NEW q \in Requests
  PROVE  /\ RowsOf[q] \in Seq(Rows) /\ NoRepeat(RowsOf[q])
         /\ \A r \in Rows : In(RowsOf[q], r) <=> Owner[r] = q
<1>1. /\ RowsOf[q] \in Seq(Rows)
      /\ \A i \in 1..Len(RowsOf[q]) : Owner[RowsOf[q][i]] = q
      /\ \A r \in Rows : \E i \in 1..Len(RowsOf[Owner[r]]) : RowsOf[Owner[r]][i] = r
      /\ \A i, j \in 1..Len(RowsOf[q]) : RowsOf[q][i] = RowsOf[q][j] => i = j
  BY ConstantsAssumption
<1> QED BY <1>1 DEF NoRepeat, In

(* The frame: no row moves, starts or completes, and no caller with a row   *)
(* to complete enters or leaves generate().                                *)
LEMMA HomesFrame ==
  ASSUME Housed, Left,
         \A q \in Requests : Queued(q)' <=> Queued(q),
         \A r \in Rows : /\ Pending(r)' <=> Pending(r)
                         /\ Grouped(r)' <=> Grouped(r)
                         /\ Newcomer(r)' <=> Newcomer(r)
                         /\ row'[r].completed <=> row[r].completed
                         /\ ~row[r].completed => (Inside(Owner[r])' <=> Inside(Owner[r]))
                         /\ Started(Owner[r]) => Started(Owner[r])'
                         /\ Dead(r) => Dead(r)'
  PROVE  Housed' /\ Left'
<1>1. Housed'
  BY Belongs DEF Housed
<1>2. Left'
  BY Belongs DEF Left
<1> QED BY <1>1, <1>2

(* complete() takes a row that is pending or in its group; where it stays   *)
(* listed it is one that would be dropped again.                           *)
LEMMA HomesComplete ==
  ASSUME Housed, Left, NEW x \in Rows, Pending(x) \/ Grouped(x),
         \A q \in Requests : Queued(q)' <=> Queued(q),
         \A q \in Requests : (Inside(q)' <=> Inside(q)) /\ (Started(q)' <=> Started(q)),
         \A q \in Requests : Inside(q) => Started(q),
         \A r \in Rows : /\ r # x => (Pending(r)' <=> Pending(r))
                         /\ Grouped(r)' <=> Grouped(r)
                         /\ Newcomer(r)' <=> Newcomer(r)
                         /\ row'[r].completed <=> (r = x \/ row[r].completed)
                         /\ Dead(r) => Dead(r)',
         Pending(x)' \/ Newcomer(x)' => Dead(x)'
  PROVE  Housed' /\ Left'
<1>1. Housed'
  BY Belongs DEF Housed
<1>2. Left'
  BY Belongs DEF Left, Housed
<1> QED BY <1>1, <1>2

(* A row that is still to complete moves, within the scheduler. *)
LEMMA HomesMove ==
  ASSUME Housed, Left,
         \A q \in Requests : (Inside(q)' <=> Inside(q)) /\ (Started(q)' <=> Started(q)),
         \A r \in Rows :
           /\ row'[r].completed <=> row[r].completed
           /\ Dead(r) => Dead(r)'
           /\ ~row[r].completed =>
                /\ (Queued(Owner[r]) \/ Pending(r) \/ Grouped(r))'
                     <=> Queued(Owner[r]) \/ Pending(r) \/ Grouped(r)
                /\ ~(Queued(Owner[r]) /\ (Pending(r) \/ Grouped(r)))'
           /\ row[r].completed =>
                /\ Queued(Owner[r])' => Queued(Owner[r])
                /\ Pending(r)' \/ Newcomer(r)' => Pending(r) \/ Newcomer(r)
  PROVE  Housed' /\ Left'
<1>1. Housed'
  BY Belongs DEF Housed
<1>2. Left'
  BY Belongs DEF Left
<1> QED BY <1>1, <1>2

-----------------------------------------------------------------------------
(* `cancelled` is never taken back, and only complete() completes rows. *)
StillCancelled == \A q \in Requests : req[q].cancelled => req'[q].cancelled

(* cancel() only sets `cancelled`. *)
LEMMA CancelKeeps ==
  ASSUME TypeOK, NEW S, req' = Cancel(S)
  PROVE  StillCancelled
<1>1. req \in [Requests -> RequestRecord]
  BY DEF TypeOK
<1> QED BY <1>1 DEF Cancel, StillCancelled, RequestRecord

(* complete() leaves `cancelled` alone. *)
LEMMA CompleteKeeps ==
  ASSUME TypeOK, NEW r \in Rows, NEW c \in BOOLEAN
  PROVE  \A q \in Requests : CompleteReq(r, c)[q].cancelled = req[q].cancelled
<1> DEFINE e == req[Owner[r]].events \o FinalEvents(r, c)
           n == req[Owner[r]].remaining - 1
           d == req[Owner[r]].remaining = 1
<1>1. req \in [Requests -> RequestRecord] /\ Owner[r] \in Requests
  BY Belongs DEF TypeOK
<1>2. CompleteReq(r, c) = req
      \/ CompleteReq(r, c) = [req EXCEPT ![Owner[r]].events = e, ![Owner[r]].remaining = n,
                                         ![Owner[r]].done = d]
  BY DEF CompleteReq, CountDown
<1> DEFINE f == CompleteReq(r, c)
<1> HIDE DEF e, n, d, f
<1>3. CASE f = req
  BY <1>3 DEF f
<1>4. CASE f = [req EXCEPT ![Owner[r]].events = e, ![Owner[r]].remaining = n,
                           ![Owner[r]].done = d]
  <2>1. \A q \in Requests : f[q].cancelled = req[q].cancelled
    BY <1>1, <1>4 DEF RequestRecord
  <2> QED BY <2>1 DEF f
<1> QED BY <1>2, <1>3, <1>4 DEF f

(* The callers only set `cancelled`. *)
LEMMA ClientCancels ==
  ASSUME TypeOK, NEW q \in Requests, Client(q)
  PROVE  StillCancelled /\ SameCompleted
<1>1. req \in [Requests -> RequestRecord] /\ row \in [Rows -> RowRecord]
  BY DEF TypeOK
<1>2. \/ req' = req \/ req' = [req EXCEPT ![q].events = <<>>]
      \/ req' = [req EXCEPT ![q].cancelled = TRUE]
  BY DEF Client, SubmitPrefill, SubmitGenerate, Take, Deliver, Conclude, Accept, Refuse,
         Throw, Skip, Drop, objects
<1>3. StillCancelled
  BY <1>1, <1>2 DEF StillCancelled, RequestRecord
<1>4. row' = row \/ row' = Interrupted(row, q)
  BY DEF Client, SubmitPrefill, SubmitGenerate, Take, Deliver, Conclude, objects
<1>5. SameCompleted
  BY <1>1, <1>4 DEF Interrupted, SameCompleted, RowRecord
<1> QED BY <1>3, <1>5

(* Sampling only queues text. *)
LEMMA SampleKeeps ==
  ASSUME TypeOK, Shape, SampleRow
  PROVE  StillCancelled /\ SameCompleted
<1> DEFINE r == Current.rows[loop.at]
<1>1. row \in [Rows -> RowRecord] /\ req \in [Requests -> RequestRecord] /\ r \in Rows
  BY SampleFacts DEF TypeOK, SampleRow
<1>2. SampleEos(r) \/ SampleToken(r)
  BY DEF SampleRow
<1>4. req' = req \/ \E e : req' = [req EXCEPT ![Owner[r]].events = e]
  BY <1>2, Zenon DEF SampleEos, SampleToken
<1> HIDE DEF r
<1>5. StillCancelled
  BY <1>1, <1>4 DEF StillCancelled, RequestRecord
<1>6. SameCompleted
  <2>1. CASE SampleEos(r)
    BY <1>1, <2>1 DEF SampleEos, SameCompleted, RowRecord
  <2>2. CASE SampleToken(r)
    <3> DEFINE q == Owner[r]
               n == row[r].pending + 1
               full == ChunkSize > 0 /\ row[r].buffered + 1 >= ChunkSize
    <3>1. PICK match \in (IF q \in TextStop THEN BOOLEAN ELSE {FALSE}),
               kept \in (IF full THEN 0..n ELSE {n}) :
            row' = [row EXCEPT
               ![r].step = @ + 1, ![r].pending = kept,
               ![r].buffered = IF full THEN 0 ELSE @ + 1,
               ![r].matched = @ \/ match,
               ![r].reason = IF match THEN "stop" ELSE @]
      BY <2>2, Zenon DEF SampleToken
    <3> QED BY <1>1, <3>1 DEF SameCompleted, RowRecord
  <2> QED BY <1>2, <2>1, <2>2
<1> QED BY <1>5, <1>6

(* The owner's steps that complete no row. *)
LEMMA OwnerObjects ==
  ASSUME TypeOK, Shape,
         \/ LoopTop \/ Admit \/ Arrived \/ AdmitDone \/ RunChunk \/ CheckControls
         \/ (\E a \in Adapters : BeginStep(a)) \/ EndSweep \/ RebuildCommit \/ SampleRow
         \/ SampleDone \/ Forward \/ StepThrows \/ FailDone
  PROVE  StillCancelled /\ SameCompleted
<1>1. req \in [Requests -> RequestRecord] /\ row \in [Rows -> RowRecord]
  BY DEF TypeOK
<1>2. CASE LoopTop \/ Admit \/ AdmitDone \/ RunChunk \/ EndSweep \/ SampleDone
           \/ StepThrows \/ FailDone
  BY <1>2 DEF LoopTop, Admit, AdmitDone, RunChunk, EndSweep, SampleDone, StepThrows,
              FailDone, objects, StillCancelled, SameCompleted
<1>3. CASE Arrived \/ \E a \in Adapters : BeginStep(a)
  <2>1. (req' = req \/ \E S : req' = Cancel(S)) /\ row' = row
    BY <1>3, Zenon DEF Arrived, PendingAfterShutdown, BeginStep
  <2> QED BY <2>1, CancelKeeps DEF StillCancelled, SameCompleted
<1>4. CASE CheckControls
  <2> DEFINE asked == {q \in Controlled :
                /\ ~req[q].cancelled
                /\ \E r \in Resident : Owner[r] = q /\ ~row[r].completed}
  <2>1. PICK answer \in [asked -> {"go", "stop", "throw"}] :
          req' = [q \in Requests |->
                    IF q \in asked /\ answer[q] # "go"
                      THEN [req[q] EXCEPT !.cancelled = TRUE, !.error = answer[q] = "throw"]
                      ELSE req[q]]
    BY <1>4, Zenon DEF CheckControls
  <2>2. row' = row
    BY <1>4, Zenon DEF CheckControls
  <2> HIDE DEF asked
  <2> QED BY <1>1, <2>1, <2>2, Zenon DEF StillCancelled, SameCompleted, RequestRecord
<1>5. CASE RebuildCommit
  BY <1>1, <1>5 DEF RebuildCommit, StillCancelled, SameCompleted, RowRecord
<1>6. CASE Forward
  BY <1>1, <1>6 DEF Forward, StillCancelled, SameCompleted, RowRecord
<1> QED BY <1>2, <1>3, <1>4, <1>5, <1>6, SampleKeeps

(* What is dead stays so. *)
LEMMA DeadStays == StillCancelled => \A r \in Rows : Dead(r) => Dead(r)'
  BY Belongs DEF StillCancelled, Dead

-----------------------------------------------------------------------------
(* Every step keeps the homes: first the steps that move no row. *)
Homed == NoDuplicates /\ OwnGroup /\ Housed /\ Left

(* A step that changes no queue, group or completion keeps every home. *)
LEMMA HomesStill ==
  ASSUME Homed, StillCancelled, SameCompleted,
         incoming' = incoming, loop'.arrivals = loop.arrivals, pending_rows' = pending_rows,
         \A a \in Adapters : /\ groups'[a].rows = groups[a].rows
                             /\ groups'[a].incoming = groups[a].incoming,
         \A r \in Rows : ~row[r].completed => (Inside(Owner[r])' <=> Inside(Owner[r])),
         \A q \in Requests : Started(q) => Started(q)'
  PROVE  Homed'
<1>1. \A a \in Adapters : Members(a)' = Members(a)
  BY DEF Members
<1>2. NoDuplicates' /\ OwnGroup'
  BY <1>1 DEF Homed, NoDuplicates, OwnGroup
<1>3. \A q \in Requests : Queued(q)' <=> Queued(q)
  BY DEF Queued
<1>4. \A r \in Rows : (Pending(r)' <=> Pending(r)) /\ (Grouped(r)' <=> Grouped(r))
                      /\ (Newcomer(r)' <=> Newcomer(r))
  BY <1>1, Belongs DEF Pending, Grouped, Newcomer
<1>5. \A r \in Rows : /\ row'[r].completed <=> row[r].completed
                      /\ Started(Owner[r]) => Started(Owner[r])'
                      /\ Dead(r) => Dead(r)'
  BY Belongs, DeadStays DEF SameCompleted
<1> QED BY <1>2, <1>3, <1>4, <1>5, HomesFrame DEF Homed

(* Nothing but the objects changes. *)
LEMMA HomesObjects ==
  ASSUME Homed, StillCancelled, SameCompleted, client' = client,
         incoming' = incoming, loop'.arrivals = loop.arrivals, pending_rows' = pending_rows,
         \A a \in Adapters : /\ groups'[a].rows = groups[a].rows
                             /\ groups'[a].incoming = groups[a].incoming
  PROVE  Homed'
<1>1. \A q \in Requests : (Inside(q)' <=> Inside(q)) /\ (Started(q) => Started(q)')
  BY DEF Inside, Started
<1> QED BY <1>1, Belongs, HomesStill

(* generate() queues its request: all its rows have it as their home. *)
LEMMA JoinHomes ==
  ASSUME TypeOK, Homed, NEW q \in Requests, SubmitGenerate(q),
         incoming' = Append(incoming, q), client' = [client EXCEPT ![q].stage = "waiting"]
  PROVE  Homed'
<1>1. /\ client[q].stage = "new" /\ loop' = loop /\ groups' = groups
      /\ pending_rows' = pending_rows /\ req' = req /\ row' = row
      /\ incoming \in Seq(Requests) /\ client \in [Requests -> ClientRecord]
  BY DEF SubmitGenerate, objects, placement, TypeOK
<1>2. ~Inside(q) /\ ~Started(q)
  BY <1>1 DEF Inside, Started
<1>3. ASSUME NEW r \in Rows, Owner[r] = q
      PROVE  ~row[r].completed /\ ~Queued(q) /\ ~Pending(r) /\ ~Grouped(r)
  BY <1>2, <1>3 DEF Homed, Housed, Left
<1>4. ~In(incoming, q) /\ ~In(loop.arrivals, q)
  BY <1>3, Belongs DEF Queued
<1>5. NoRepeat(incoming') /\ \A x : In(incoming', x) <=> In(incoming, x) \/ x = q
  BY <1>1, <1>4, AppendIn, AppendNoRepeat DEF Homed, NoDuplicates
<1>6. \A a \in Adapters : Members(a)' = Members(a)
  BY <1>1 DEF Members
<1>7. NoDuplicates' /\ OwnGroup'
  BY <1>1, <1>4, <1>5, <1>6 DEF Homed, NoDuplicates, OwnGroup
<1>8. /\ client'[q].stage = "waiting"
      /\ \A p \in Requests : p # q => client'[p] = client[p]
  BY <1>1 DEF ClientRecord
<1>9. \A p \in Requests : /\ Inside(p)' <=> (p = q \/ Inside(p))
                          /\ Started(p)' <=> (p = q \/ Started(p))
                          /\ Queued(p)' <=> (p = q \/ Queued(p))
  BY <1>1, <1>5, <1>8 DEF Inside, Started, Queued
<1>10. \A r \in Rows : /\ Pending(r)' <=> Pending(r)
                       /\ Grouped(r)' <=> Grouped(r)
                       /\ Newcomer(r)' <=> Newcomer(r)
                       /\ Dead(r)' <=> Dead(r)
                       /\ row'[r].completed <=> row[r].completed
  BY <1>1, <1>6, Belongs DEF Pending, Grouped, Newcomer, Dead
<1>11. Housed'
  <2> SUFFICES ASSUME NEW r \in Rows, ~row[r].completed
               PROVE  /\ Inside(Owner[r])' <=> (Queued(Owner[r]) \/ Pending(r) \/ Grouped(r))'
                      /\ Queued(Owner[r])' => ~Pending(r)' /\ ~Grouped(r)'
    BY <1>1 DEF Housed
  <2>1. CASE Owner[r] = q
    BY <1>3, <1>9, <1>10, <2>1
  <2>2. CASE Owner[r] # q
    BY <1>9, <1>10, <2>2, Belongs DEF Homed, Housed
  <2> QED BY <2>1, <2>2
<1>12. Left'
  <2> SUFFICES ASSUME NEW r \in Rows, row[r].completed
               PROVE  /\ Started(Owner[r])' /\ ~Queued(Owner[r])'
                      /\ Pending(r)' \/ Newcomer(r)' => Dead(r)'
    BY <1>1 DEF Left
  <2>1. Owner[r] # q
    BY <1>3
  <2> QED BY <1>9, <1>10, <2>1, Belongs DEF Homed, Left
<1> QED BY <1>7, <1>11, <1>12 DEF Homed

(* The callers' steps.  Leaving generate() takes `done`, and so all rows. *)
LEMMA ClientHomes ==
  ASSUME TypeOK, Homed, CallersDone, NEW q \in Requests, Client(q)
  PROVE  Homed'
<1>1. StillCancelled /\ SameCompleted /\ client \in [Requests -> ClientRecord]
  BY ClientCancels DEF TypeOK
<1>2. CASE SubmitGenerate(q) /\ incoming' # incoming
  BY <1>2, JoinHomes DEF SubmitGenerate
<1>3. CASE ~(SubmitGenerate(q) /\ incoming' # incoming)
  <2>1. /\ incoming' = incoming /\ loop' = loop /\ pending_rows' = pending_rows
        /\ groups' = groups
    BY <1>3 DEF Client, SubmitPrefill, SubmitGenerate, Take, Deliver, Conclude, queues,
                placement
  <2>2. \A p \in Requests : p # q => client'[p] = client[p]
    BY <1>1 DEF Client, SubmitPrefill, SubmitGenerate, Take, Deliver, Accept, Refuse, Throw,
                Skip, Drop, Conclude
  <2>3. \/ client'[q].stage = client[q].stage
        \/ ~Inside(q) /\ ~Inside(q)' /\ ~Started(q)
        \/ Inside(q) /\ Inside(q)' /\ Started(q)'
        \/ client[q].done /\ Started(q)'
    <3>1. CASE SubmitPrefill(q)
      BY <1>1, <3>1 DEF SubmitPrefill, Inside, Started, ClientRecord
    <3>2. CASE SubmitGenerate(q)
      <4>1. incoming' # Append(incoming, q)
        <5>1. incoming \in Seq(Requests)
          BY DEF TypeOK
        <5>2. Append(incoming, q) # incoming
          BY <5>1
        <5> QED BY <1>3, <3>2, <5>2
      <4> QED BY <1>1, <3>2, <4>1 DEF SubmitGenerate, Inside, Started, ClientRecord
    <3>3. CASE Take(q)
      BY <1>1, <3>3 DEF Take, Inside, Started, ClientRecord
    <3>4. CASE Deliver(q)
      BY <1>1, <3>4 DEF Deliver, Accept, Refuse, Throw, Skip, Drop, ClientRecord
    <3>5. CASE Conclude(q)
      <4>1. \E s \in {"waiting", "threw", "returned"} :
               /\ client' = [client EXCEPT ![q].stage = s]
               /\ s # "waiting" => client[q].done
        BY <1>1, <3>5 DEF Conclude, ClientRecord
      <4> QED BY <1>1, <3>5, <4>1 DEF Conclude, Inside, Started, ClientRecord
    <3> QED BY <3>1, <3>2, <3>3, <3>4, <3>5 DEF Client
  <2>4. \A r \in Rows : ~row[r].completed => (Inside(Owner[r])' <=> Inside(Owner[r]))
    <3> SUFFICES ASSUME NEW r \in Rows, ~row[r].completed
                 PROVE  Inside(Owner[r])' <=> Inside(Owner[r])
      OBVIOUS
    <3>1. ~client[Owner[r]].done
      BY DEF CallersDone
    <3>2. CASE Owner[r] # q
      BY <2>2, <3>2, Belongs DEF Inside
    <3>3. CASE Owner[r] = q
      <4>1. client'[q].stage = client[q].stage => (Inside(q)' <=> Inside(q))
        BY DEF Inside
      <4> QED BY <2>3, <3>1, <3>3, <4>1
    <3> QED BY <3>2, <3>3
  <2>5. \A p \in Requests : Started(p) => Started(p)'
    <3> SUFFICES ASSUME NEW p \in Requests, Started(p) PROVE Started(p)'
      OBVIOUS
    <3>1. CASE p # q
      BY <2>2, <3>1 DEF Started
    <3>2. CASE p = q
      BY <2>3, <3>2 DEF Started
    <3> QED BY <3>1, <3>2
  <2> QED BY <1>1, <2>1, <2>4, <2>5, HomesStill
<1> QED BY <1>2, <1>3

(* The owner's steps that move no row. *)
LEMMA OwnerStill ==
  ASSUME TypeOK, Shape, Homed,
         \/ Arrived \/ AdmitDone \/ CheckControls \/ (\E a \in Adapters : BeginStep(a))
         \/ EndSweep \/ SampleRow \/ SampleDone \/ Forward \/ StepThrows
  PROVE  Homed'
<1>1. StillCancelled /\ SameCompleted
  BY OwnerObjects
<1>2. loop'.arrivals = loop.arrivals /\ incoming' = incoming /\ client' = client
  BY OwnerKeeps DEF OwnerWork
<1>3. pending_rows' = pending_rows
  BY Zenon DEF Arrived, AdmitDone, CheckControls, BeginStep, EndSweep, SampleRow, SampleDone,
         Forward, StepThrows, placement
<1>4. \A a \in Adapters : /\ groups'[a].rows = groups[a].rows
                          /\ groups'[a].incoming = groups[a].incoming
  <2>1. groups' = groups \/ \E t : groups' = [groups EXCEPT ![loop.cur].slots = t]
    BY SampleRowGroups, ForwardGroups, Zenon
       DEF Arrived, AdmitDone, CheckControls, BeginStep, EndSweep, SampleDone,
           StepThrows, placement
  <2>2. groups \in [Adapters -> Group]
    BY DEF TypeOK
  <2> QED BY <2>1, <2>2, Zenon DEF Group
<1> QED BY <1>1, <1>2, <1>3, <1>4, HomesObjects

(* A chunk's caller is outside generate(). *)
LEMMA ChunkHomes ==
  ASSUME TypeOK, Shape, Homed, PrefillQueue, RunChunk
  PROVE  Homed'
<1>1. StillCancelled /\ SameCompleted
  BY OwnerObjects
<1>2. /\ loop \in LoopRecord /\ loop.chunk \in Seq(Requests)
      /\ client \in [Requests -> ClientRecord]
  BY DEF TypeOK, LoopRecord
<1>3. /\ loop'.arrivals = loop.arrivals /\ incoming' = incoming
      /\ pending_rows' = pending_rows /\ groups' = groups
  BY <1>2 DEF RunChunk, LoopRecord, queues, placement
<1>4. CASE client' = client
  BY <1>1, <1>3, <1>4, HomesObjects
<1>5. CASE client' # client
  <2> DEFINE q == loop.chunk[1]
  <2>1. loop.chunk # <<>>
    BY <1>5 DEF RunChunk
  <2>2. q \in Requests /\ In(loop.chunk, q)
    BY <1>2, <2>1 DEF In
  <2>3. client[q].stage = "prefilling"
    BY <2>2 DEF PrefillQueue
  <2>4. \A p \in Requests : p # q => client'[p] = client[p]
    BY <1>2, <2>1, <2>2 DEF RunChunk
  <2>5. client'[q].stage \in {"new", "threw"}
    <3>1. \/ \E n : client' = [client EXCEPT ![q].stage = "new", ![q].chunks = n]
          \/ client' = [client EXCEPT ![q].stage = "threw"]
      BY <2>1 DEF RunChunk
    <3> HIDE DEF q
    <3> QED BY <1>2, <2>2, <3>1 DEF ClientRecord
  <2>6. \A p \in Requests : (Inside(p)' <=> Inside(p)) /\ (Started(p) => Started(p)')
    BY <2>3, <2>4, <2>5 DEF Inside, Started
  <2> QED BY <1>1, <1>3, <2>6, Belongs, HomesStill
<1> QED BY <1>4, <1>5

(* The owner swaps in what arrived. *)
LEMMA LoopTopHomes ==
  ASSUME TypeOK, Shape, Homed, Idle, LoopTop
  PROVE  Homed'
<1>1. StillCancelled /\ SameCompleted
  BY OwnerObjects
<1>2. /\ incoming' = <<>> /\ loop'.arrivals = incoming /\ loop.arrivals = <<>>
      /\ pending_rows' = pending_rows /\ groups' = groups /\ client' = client
  BY DEF LoopTop, TypeOK, LoopRecord, placement, callers, Idle
<1>3. \A a \in Adapters : Members(a)' = Members(a)
  BY <1>2 DEF Members
<1>4. NoDuplicates' /\ OwnGroup'
  BY <1>2, <1>3, SmallIn DEF Homed, NoDuplicates, OwnGroup
<1>5. \A q \in Requests : /\ Queued(q)' <=> Queued(q)
                          /\ Inside(q)' <=> Inside(q)
                          /\ Started(q) => Started(q)'
  BY <1>2, SmallIn DEF Queued, Inside, Started
<1>6. \A r \in Rows : (Pending(r)' <=> Pending(r)) /\ (Grouped(r)' <=> Grouped(r))
                      /\ (Newcomer(r)' <=> Newcomer(r))
  BY <1>2, <1>3, Belongs DEF Pending, Grouped, Newcomer
<1>7. \A r \in Rows : /\ row'[r].completed <=> row[r].completed
                      /\ Dead(r) => Dead(r)'
  BY <1>1, DeadStays DEF SameCompleted
<1> QED BY <1>4, <1>5, <1>6, <1>7, Belongs, HomesFrame DEF Homed

(* admit() takes the rows of one arrived request. *)
LEMMA AdmitHomes ==
  ASSUME TypeOK, Shape, Homed, Admit
  PROVE  Homed'
<1> DEFINE q == Head(loop.arrivals)
<1>1. StillCancelled /\ SameCompleted
  BY OwnerObjects
<1>2. /\ loop \in LoopRecord /\ loop.arrivals \in Seq(Requests) /\ loop.arrivals # <<>>
      /\ pending_rows \in Seq(Rows)
  BY DEF TypeOK, LoopRecord, Admit
<1>3. /\ incoming' = incoming /\ loop'.arrivals = Tail(loop.arrivals)
      /\ pending_rows' = pending_rows \o RowsOf[q] /\ groups' = groups /\ client' = client
  BY <1>2 DEF Admit, LoopRecord, queues, callers
<1>4. q \in Requests /\ In(loop.arrivals, q)
  <2>1. 1 \in 1..Len(loop.arrivals) /\ loop.arrivals[1] = q /\ q \in Requests
    BY <1>2
  <2> QED BY <2>1 DEF In
<1>5. ~In(incoming, q) /\ Queued(q)
  BY <1>4 DEF Homed, NoDuplicates, Queued
<1> HIDE DEF q
<1>6. ASSUME NEW r \in Rows, Owner[r] = q
      PROVE  ~row[r].completed /\ ~Pending(r) /\ ~Grouped(r)
  BY <1>5, <1>6 DEF Homed, Housed, Left
<1>7. /\ NoRepeat(Tail(loop.arrivals))
      /\ \A x : In(Tail(loop.arrivals), x) <=> In(loop.arrivals, x) /\ x # q
  BY <1>2, TailFacts DEF Homed, NoDuplicates, q
<1>8. /\ RowsOf[q] \in Seq(Rows) /\ NoRepeat(RowsOf[q])
      /\ \A r \in Rows : In(RowsOf[q], r) <=> Owner[r] = q
  BY <1>4, RowsOfFacts
<1>9. \A x : In(pending_rows', x) <=> In(pending_rows, x) \/ In(RowsOf[q], x)
  BY <1>2, <1>3, <1>8, ConcatIn
<1>10. \A x : In(RowsOf[q], x) => x \in Rows
  BY <1>8 DEF In
<1>11. NoRepeat(pending_rows')
  <2>1. \A x : ~(In(pending_rows, x) /\ In(RowsOf[q], x))
    BY <1>6, <1>8, <1>10 DEF Pending
  <2>2. NoRepeat(pending_rows)
    BY DEF Homed, NoDuplicates
  <2>3. NoRepeat(pending_rows \o RowsOf[q])
    BY <1>2, <1>8, <2>1, <2>2, ConcatNoRepeat
  <2> QED BY <1>3, <2>3
<1>12. \A a \in Adapters : Members(a)' = Members(a)
  BY <1>3 DEF Members
<1>13. NoDuplicates' /\ OwnGroup'
  BY <1>3, <1>7, <1>11, <1>12 DEF Homed, NoDuplicates, OwnGroup
<1>14. \A p \in Requests : /\ Queued(p)' <=> Queued(p) /\ p # q
                           /\ Inside(p)' <=> Inside(p)
                           /\ Started(p)' <=> Started(p)
  BY <1>3, <1>5, <1>7 DEF Queued, Inside, Started
<1>15. \A r \in Rows : /\ Pending(r)' <=> Pending(r) \/ Owner[r] = q
                       /\ Grouped(r)' <=> Grouped(r)
                       /\ Newcomer(r)' <=> Newcomer(r)
  BY <1>3, <1>8, <1>9, <1>12, Belongs DEF Pending, Grouped, Newcomer
<1>16. \A r \in Rows : /\ row'[r].completed <=> row[r].completed
                       /\ Dead(r) => Dead(r)'
  BY <1>1, DeadStays DEF SameCompleted
<1>17. \A r \in Rows :
         /\ ~row[r].completed =>
              /\ (Queued(Owner[r]) \/ Pending(r) \/ Grouped(r))'
                   <=> Queued(Owner[r]) \/ Pending(r) \/ Grouped(r)
              /\ ~(Queued(Owner[r]) /\ (Pending(r) \/ Grouped(r)))'
         /\ row[r].completed =>
              /\ Queued(Owner[r])' => Queued(Owner[r])
              /\ Pending(r)' \/ Newcomer(r)' => Pending(r) \/ Newcomer(r)
  <2> SUFFICES ASSUME NEW r \in Rows
               PROVE
         /\ ~row[r].completed =>
              /\ (Queued(Owner[r]) \/ Pending(r) \/ Grouped(r))'
                   <=> Queued(Owner[r]) \/ Pending(r) \/ Grouped(r)
              /\ ~(Queued(Owner[r]) /\ (Pending(r) \/ Grouped(r)))'
         /\ row[r].completed =>
              /\ Queued(Owner[r])' => Queued(Owner[r])
              /\ Pending(r)' \/ Newcomer(r)' => Pending(r) \/ Newcomer(r)
    OBVIOUS
  <2>1. CASE Owner[r] = q
    BY <1>5, <1>6, <1>14, <1>15, <2>1, Belongs
  <2>2. CASE Owner[r] # q
    BY <1>14, <1>15, <2>2, Belongs DEF Homed, Housed
  <2> QED BY <2>1, <2>2
<1> QED BY <1>13, <1>14, <1>16, <1>17, HomesMove DEF Homed

(* Then the steps that complete or move one row.                           *)
(* What is pending changes, everything else keeps its place.               *)
LEMMA PendingDuplicates ==
  ASSUME Homed, incoming' = incoming, loop'.arrivals = loop.arrivals, groups' = groups,
         NoRepeat(pending_rows')
  PROVE  /\ NoDuplicates' /\ OwnGroup'
         /\ \A q \in Requests : Queued(q)' <=> Queued(q)
         /\ \A r \in Rows : (Grouped(r)' <=> Grouped(r)) /\ (Newcomer(r)' <=> Newcomer(r))
<1>1. \A a \in Adapters : Members(a)' = Members(a)
  BY DEF Members
<1>2. NoDuplicates' /\ OwnGroup'
  BY <1>1 DEF Homed, NoDuplicates, OwnGroup
<1>3. \A r \in Rows : (Grouped(r)' <=> Grouped(r)) /\ (Newcomer(r)' <=> Newcomer(r))
  BY <1>1, Belongs DEF Grouped, Newcomer
<1>4. \A q \in Requests : Queued(q)' <=> Queued(q)
  BY DEF Queued
<1> QED BY <1>2, <1>3, <1>4

(* Nobody enters or leaves generate() while callers do not move. *)
LEMMA SameCallers ==
  ASSUME client' = client
  PROVE  \A q \in Requests : /\ Inside(q)' <=> Inside(q)
                             /\ Started(q)' <=> Started(q)
                             /\ Inside(q) => Started(q)
  BY DEF Inside, Started

(* The pending row that admit_pending() looks at. *)
LEMMA AdmitRowFacts ==
  ASSUME TypeOK, Shape, AdmitRow
  PROVE  /\ loop.at \in 1..Len(pending_rows) /\ pending_rows[loop.at] \in Rows
         /\ Pending(pending_rows[loop.at])
<1>1. /\ loop.at \in Nat /\ loop.at > 0 /\ loop.at <= Len(pending_rows)
      /\ pending_rows \in Seq(Rows)
  BY DEF TypeOK, LoopRecord, Shape, AdmitRow
<1>2. loop.at \in 1..Len(pending_rows) /\ pending_rows[loop.at] \in Rows
  BY <1>1
<1> QED BY <1>2 DEF Pending, In

(* complete() leaves the requests cancelled that were. *)
LEMMA CompleteObjects ==
  ASSUME TypeOK, NEW x \in Rows, row' = CompleteRow(x, req[Owner[x]].cancelled),
         req' = CompleteReq(x, req[Owner[x]].cancelled)
  PROVE  /\ StillCancelled
         /\ \A r \in Rows : row'[r].completed <=> (r = x \/ row[r].completed)
<1>1. req[Owner[x]].cancelled \in BOOLEAN
  BY Belongs DEF TypeOK, RequestRecord
<1> QED BY <1>1, CompleteKeeps, CompleteRowFacts DEF StillCancelled

(* admit_pending() drops a dead row. *)
LEMMA AdmitDeadHomes ==
  ASSUME TypeOK, Shape, Homed, AdmitRow, Dead(pending_rows[loop.at])
  PROVE  Homed'
<1>0. PICK x \in Rows : x = pending_rows[loop.at]
  BY AdmitRowFacts
<1>1. loop.at \in 1..Len(pending_rows) /\ x \in Rows /\ Pending(x)
  BY <1>0, AdmitRowFacts
<1>2. /\ row' = CompleteRow(x, req[Owner[x]].cancelled)
      /\ req' = CompleteReq(x, req[Owner[x]].cancelled)
      /\ pending_rows' = RemoveAt(pending_rows, loop.at)
      /\ groups' = groups /\ loop' = loop /\ incoming' = incoming /\ client' = client
  BY <1>0 DEF AdmitRow, queues, callers
<1>3. /\ NoRepeat(pending_rows') /\ \A y : In(pending_rows', y) <=> In(pending_rows, y) /\ y # x
  <2>1. pending_rows \in Seq(Rows) /\ NoRepeat(pending_rows)
    BY DEF TypeOK, Homed, NoDuplicates
  <2> QED BY <1>0, <1>1, <1>2, <2>1, RemoveFacts
<1>4. /\ StillCancelled
      /\ \A r \in Rows : row'[r].completed <=> (r = x \/ row[r].completed)
  BY <1>1, <1>2, CompleteObjects
<1>5. /\ NoDuplicates' /\ OwnGroup'
      /\ \A q \in Requests : Queued(q)' <=> Queued(q)
      /\ \A r \in Rows : (Grouped(r)' <=> Grouped(r)) /\ (Newcomer(r)' <=> Newcomer(r))
  BY <1>2, <1>3, PendingDuplicates
<1>6. \A r \in Rows : r # x => (Pending(r)' <=> Pending(r))
  BY <1>3 DEF Pending
<1>7. \A r \in Rows : Dead(r) => Dead(r)'
  BY <1>4, DeadStays
<1>8. Dead(x)'
  BY <1>0, <1>7
<1>9. \A q \in Requests : /\ Inside(q)' <=> Inside(q)
                          /\ Started(q)' <=> Started(q)
                          /\ Inside(q) => Started(q)
  BY <1>2, SameCallers
<1> QED BY <1>1, <1>4, <1>5, <1>6, <1>7, <1>8, <1>9, HomesComplete DEF Homed

(* admit_pending() gives a row a place in its group. *)
LEMMA AdmitLiveHomes ==
  ASSUME TypeOK, Shape, Homed, Paused, AdmitRow, groups' # groups,
         ~Dead(pending_rows[loop.at])
  PROVE  Homed'
<1>0. PICK x \in Rows : x = pending_rows[loop.at]
  BY AdmitRowFacts
<1> DEFINE k == AdapterOf[Owner[x]]
           s == groups[k].incoming
<1>1. loop.at \in 1..Len(pending_rows) /\ x \in Rows /\ Pending(x) /\ loop.pc = "admit"
  BY <1>0, AdmitRowFacts, Zenon DEF AdmitRow
<1>2. /\ groups' = [groups EXCEPT ![k].incoming = Append(s, x)]
      /\ pending_rows' = RemoveAt(pending_rows, loop.at)
      /\ row' = row /\ req' = req /\ incoming' = incoming /\ client' = client
  BY <1>0, Zenon DEF AdmitRow, queues, callers, placement
<1>3. loop'.arrivals = loop.arrivals
  BY OwnerKeeps DEF OwnerWork
<1>4. /\ NoRepeat(pending_rows') /\ \A y : In(pending_rows', y) <=> In(pending_rows, y) /\ y # x
  <2>1. pending_rows \in Seq(Rows) /\ NoRepeat(pending_rows)
    BY DEF TypeOK, Homed, NoDuplicates
  <2>2. /\ NoRepeat(RemoveAt(pending_rows, loop.at))
        /\ \A y : In(RemoveAt(pending_rows, loop.at), y)
                   <=> In(pending_rows, y) /\ y # pending_rows[loop.at]
    BY <1>1, <2>1, RemoveFacts
  <2>3. pending_rows' = RemoveAt(pending_rows, loop.at)
    BY <1>2
  <2> QED BY <1>0, <2>2, <2>3
<1>5. ~Dead(x)
  BY <1>0
<1>6. k \in Adapters /\ s \in Seq(Rows) /\ groups[k].rows \in Seq(Rows)
  BY <1>1, Belongs, MembersType
<1>7. ~row[x].completed /\ ~Grouped(x) /\ ~Queued(Owner[x])
  BY <1>1, <1>5 DEF Homed, Left, Paused, Housed
<1> HIDE DEF k, s
<1>8. /\ groups'[k].rows = groups[k].rows /\ groups'[k].incoming = Append(s, x)
      /\ \A a \in Adapters : a # k => groups'[a] = groups[a]
  BY <1>2, <1>6 DEF TypeOK, Group
<1>9. Members(k)' = Append(Members(k), x)
  <2>1. groups[k].rows \o Append(s, x) = Append(groups[k].rows \o s, x)
    <3>1. \A u, v \in Seq(Rows), e \in Rows : u \o Append(v, e) = Append(u \o v, e)
      BY ConcatAppend
    <3> QED BY <1>6, <3>1, Zenon
  <2> QED BY <1>8, <2>1 DEF Members, s
<1>10. \A a \in Adapters : a # k => Members(a)' = Members(a)
  BY <1>8 DEF Members
<1>11. Members(k) \in Seq(Rows) /\ ~In(Members(k), x)
  BY <1>6, <1>7, MembersType DEF Grouped, k
<1>12. /\ NoRepeat(Members(k)')
       /\ \A y : In(Members(k)', y) <=> In(Members(k), y) \/ y = x
       /\ \A y : In(Append(s, x), y) <=> In(s, y) \/ y = x
  BY <1>1, <1>6, <1>9, <1>11, AppendIn, AppendNoRepeat DEF Homed, NoDuplicates
<1>13. NoDuplicates'
  BY <1>2, <1>3, <1>4, <1>10, <1>12 DEF Homed, NoDuplicates
<1>14. OwnGroup'
  <2> SUFFICES ASSUME NEW a \in Adapters, NEW r \in Rows, In(Members(a)', r)
               PROVE  a = AdapterOf[Owner[r]]
    BY DEF OwnGroup
  <2>1. CASE a # k
    BY <1>10, <2>1 DEF Homed, OwnGroup
  <2>2. CASE a = k
    BY <1>12, <2>2 DEF Homed, OwnGroup, k
  <2> QED BY <2>1, <2>2
<1>15. \A q \in Requests : Queued(q)' <=> Queued(q)
  BY <1>2, <1>3 DEF Queued
<1>16. ASSUME NEW r \in Rows
       PROVE  /\ Pending(r)' <=> Pending(r) /\ r # x
              /\ Grouped(r)' <=> Grouped(r) \/ r = x
              /\ Newcomer(r)' <=> Newcomer(r) \/ r = x
  <2>1. Pending(r)' <=> Pending(r) /\ r # x
    BY <1>4 DEF Pending
  <2>2. CASE AdapterOf[Owner[r]] = k
    BY <1>8, <1>12, <2>1, <2>2 DEF Grouped, Newcomer, s
  <2>3. CASE AdapterOf[Owner[r]] # k
    BY <1>8, <1>10, <2>1, <2>3, Belongs DEF Grouped, Newcomer, k
  <2> QED BY <2>2, <2>3
<1>17. \A r \in Rows : /\ row'[r].completed <=> row[r].completed
                       /\ Dead(r) => Dead(r)'
  BY <1>2 DEF Dead
<1>18. \A q \in Requests : (Inside(q)' <=> Inside(q)) /\ (Started(q)' <=> Started(q))
  BY <1>2, SameCallers
<1>19. \A r \in Rows :
         /\ ~row[r].completed =>
              /\ (Queued(Owner[r]) \/ Pending(r) \/ Grouped(r))'
                   <=> Queued(Owner[r]) \/ Pending(r) \/ Grouped(r)
              /\ ~(Queued(Owner[r]) /\ (Pending(r) \/ Grouped(r)))'
         /\ row[r].completed =>
              /\ Queued(Owner[r])' => Queued(Owner[r])
              /\ Pending(r)' \/ Newcomer(r)' => Pending(r) \/ Newcomer(r)
  BY <1>1, <1>7, <1>15, <1>16, Belongs DEF Homed, Housed
<1> QED BY <1>13, <1>14, <1>17, <1>18, <1>19, HomesMove DEF Homed

(* admit_pending() looks at one row. *)
LEMMA AdmitRowHomes ==
  ASSUME TypeOK, Shape, Homed, Paused, AdmitRow
  PROVE  Homed'
<1>1. CASE Dead(pending_rows[loop.at])
  BY <1>1, AdmitDeadHomes
<1>2. CASE ~Dead(pending_rows[loop.at]) /\ groups' # groups
  BY <1>2, AdmitLiveHomes
<1>3. CASE ~Dead(pending_rows[loop.at]) /\ groups' = groups
  <2>1. /\ row' = row /\ req' = req /\ pending_rows' = pending_rows
        /\ incoming' = incoming /\ client' = client
    <3> DEFINE k == AdapterOf[Owner[pending_rows[loop.at]]]
               s == groups[k].incoming
    <3>1. groups' # [groups EXCEPT ![k].incoming = Append(s, pending_rows[loop.at])]
      <4>1. k \in Adapters /\ s \in Seq(Rows) /\ pending_rows[loop.at] \in Rows
        BY AdmitRowFacts, Belongs, MembersType
      <4>2. Append(s, pending_rows[loop.at]) # s
        BY <4>1
      <4> DEFINE t == Append(s, pending_rows[loop.at])
      <4> HIDE DEF t, k
      <4>3. [groups EXCEPT ![k].incoming = t][k].incoming = t
        BY <4>1 DEF TypeOK, Group
      <4> QED BY <1>3, <4>2, <4>3 DEF t
    <3> QED BY <1>3, <3>1, Zenon DEF AdmitRow, queues, callers, placement
  <2>2. loop'.arrivals = loop.arrivals
    BY OwnerKeeps DEF OwnerWork
  <2>3. StillCancelled /\ SameCompleted
    BY <2>1 DEF StillCancelled, SameCompleted
  <2> QED BY <1>3, <2>1, <2>2, <2>3, HomesObjects
<1> QED BY <1>1, <1>2, <1>3

(* The member that rebuild() and fail() look at is in the group of its key, *)
(* and an old row is not also a newcomer.                                  *)
LEMMA MemberFacts ==
  ASSUME TypeOK, Shape, Homed, loop.pc \in {"rebuild", "fail"},
         loop.at <= Len(Members(loop.cur)), NEW x \in Rows, x = Members(loop.cur)[loop.at]
  PROVE  /\ loop.cur \in Adapters /\ loop.at \in 1..Len(Members(loop.cur))
         /\ AdapterOf[Owner[x]] = loop.cur /\ Grouped(x)
         /\ loop.at <= Len(Current.rows) => ~Newcomer(x)
<1>1. loop.cur \in Adapters /\ loop.at \in 1..Len(Members(loop.cur))
  BY RebuildRowFacts
<1>2. In(Members(loop.cur), x)
  BY <1>1 DEF In
<1>3. AdapterOf[Owner[x]] = loop.cur
  BY <1>1, <1>2 DEF Homed, OwnGroup
<1>4. Grouped(x)
  BY <1>2, <1>3 DEF Grouped
<1>5. ASSUME loop.at <= Len(Current.rows), Newcomer(x) PROVE FALSE
  <2> DEFINE s == groups[loop.cur].rows
             t == groups[loop.cur].incoming
  <2>1. s \in Seq(Rows) /\ t \in Seq(Rows) /\ NoRepeat(s \o t) /\ Members(loop.cur) = s \o t
    BY <1>1, MembersType DEF Homed, NoDuplicates, Members
  <2>2. In(t, x) /\ loop.at <= Len(s) /\ x = (s \o t)[loop.at]
    BY <1>3, <1>5, Zenon DEF Newcomer, Current, Members
  <2> HIDE DEF s, t
  <2>3. PICK j \in 1..Len(t) : t[j] = x
    BY <2>2 DEF In
  <2>4. /\ Len(s) + j \in 1..Len(s \o t) /\ (s \o t)[Len(s) + j] = t[j]
        /\ Len(s) \in Nat
    BY <2>1
  <2>5. loop.at \in 1..Len(s \o t)
    BY <1>1, <2>1
  <2>6. loop.at = Len(s) + j
    BY <2>1, <2>2, <2>3, <2>4, <2>5 DEF NoRepeat
  <2> QED BY <2>2, <2>4, <2>6
<1> QED BY <1>1, <1>3, <1>4, <1>5

(* rebuild() exports and completes a member. *)
LEMMA RebuildEndHomes ==
  ASSUME TypeOK, Shape, Homed, Building, RebuildRow, NEW x \in Rows,
         x = Members(loop.cur)[loop.at],
         loop.at <= Len(Current.rows) => ~row[x].completed,
         loop.at <= Len(Current.rows) \/ Dead(x),
         row' = CompleteRow(x, req[Owner[x]].cancelled),
         req' = CompleteReq(x, req[Owner[x]].cancelled),
         pending_rows' = pending_rows
  PROVE  Homed'
<1>1. groups' = groups /\ loop.pc = "rebuild" /\ loop.at <= Len(Members(loop.cur))
  BY Zenon DEF RebuildRow
<1>2. loop'.arrivals = loop.arrivals /\ incoming' = incoming /\ client' = client
  BY OwnerKeeps DEF OwnerWork
<1>3. /\ loop.at \in 1..Len(Members(loop.cur)) /\ Grouped(x)
      /\ loop.at <= Len(Current.rows) => ~Newcomer(x)
  BY <1>1, MemberFacts
<1>4. ~row[x].completed => ~Pending(x)
  BY <1>1, <1>3 DEF Building
<1>5. /\ StillCancelled
      /\ \A r \in Rows : row'[r].completed <=> (r = x \/ row[r].completed)
  BY CompleteObjects, Zenon
<1>6. /\ NoDuplicates' /\ OwnGroup'
      /\ \A q \in Requests : Queued(q)' <=> Queued(q)
      /\ \A r \in Rows : (Grouped(r)' <=> Grouped(r)) /\ (Newcomer(r)' <=> Newcomer(r))
  BY <1>1, <1>2, PendingDuplicates DEF Homed, NoDuplicates
<1>7. \A r \in Rows : Pending(r)' <=> Pending(r)
  BY DEF Pending
<1>8. \A r \in Rows : Dead(r) => Dead(r)'
  BY <1>5, DeadStays, Zenon
<1>9. Pending(x) \/ Newcomer(x) => Dead(x)
  BY <1>3, <1>4 DEF Homed, Left
<1>10. \A q \in Requests : /\ Inside(q)' <=> Inside(q)
                           /\ Started(q)' <=> Started(q)
                           /\ Inside(q) => Started(q)
  BY <1>2, SameCallers
<1> QED BY <1>3, <1>5, <1>6, <1>7, <1>8, <1>9, <1>10, HomesComplete, Zenon DEF Homed

(* rebuild() sets a member aside: it is pending beside its old place. *)
LEMMA RebuildPauseHomes ==
  ASSUME TypeOK, Shape, Homed, Building, RebuildRow, NEW x \in Rows,
         x = Members(loop.cur)[loop.at], ~row[x].completed,
         SameCompleted, req' = req, pending_rows' = Append(pending_rows, x)
  PROVE  Homed'
<1>1. groups' = groups /\ loop.pc = "rebuild" /\ loop.at <= Len(Members(loop.cur))
  BY DEF RebuildRow
<1>2. loop'.arrivals = loop.arrivals /\ incoming' = incoming /\ client' = client
  BY OwnerKeeps DEF OwnerWork
<1>3. loop.at \in 1..Len(Members(loop.cur)) /\ Grouped(x)
  BY <1>1, MemberFacts
<1>4. ~Pending(x)
  BY <1>1, <1>3 DEF Building
<1>5. /\ NoRepeat(pending_rows')
      /\ \A y : In(pending_rows', y) <=> In(pending_rows, y) \/ y = x
  <2>1. pending_rows \in Seq(Rows) /\ NoRepeat(pending_rows) /\ ~In(pending_rows, x)
    BY <1>4 DEF TypeOK, Homed, NoDuplicates, Pending
  <2> QED BY <2>1, AppendIn, AppendNoRepeat
<1>6. /\ NoDuplicates' /\ OwnGroup'
      /\ \A q \in Requests : Queued(q)' <=> Queued(q)
      /\ \A r \in Rows : (Grouped(r)' <=> Grouped(r)) /\ (Newcomer(r)' <=> Newcomer(r))
  BY <1>1, <1>2, <1>5, PendingDuplicates
<1>7. \A r \in Rows : Pending(r)' <=> Pending(r) \/ r = x
  BY <1>5 DEF Pending
<1>8. \A r \in Rows : /\ row'[r].completed <=> row[r].completed
                      /\ Dead(r) => Dead(r)'
  BY DEF SameCompleted, Dead
<1>9. \A q \in Requests : (Inside(q)' <=> Inside(q)) /\ (Started(q)' <=> Started(q))
  BY <1>2, SameCallers
<1>10. \A r \in Rows :
         /\ ~row[r].completed =>
              /\ (Queued(Owner[r]) \/ Pending(r) \/ Grouped(r))'
                   <=> Queued(Owner[r]) \/ Pending(r) \/ Grouped(r)
              /\ ~(Queued(Owner[r]) /\ (Pending(r) \/ Grouped(r)))'
         /\ row[r].completed =>
              /\ Queued(Owner[r])' => Queued(Owner[r])
              /\ Pending(r)' \/ Newcomer(r)' => Pending(r) \/ Newcomer(r)
  BY <1>3, <1>6, <1>7, Belongs DEF Homed, Housed
<1> QED BY <1>6, <1>8, <1>9, <1>10, HomesMove DEF Homed

(* What rebuild() does to its member, case by case. *)
LEMMA RebuildRowCases ==
  ASSUME TypeOK, Shape, RebuildRow, NEW x \in Rows, x = Members(loop.cur)[loop.at]
  PROVE  \/ /\ loop.at <= Len(Current.rows) => ~row[x].completed
            /\ loop.at <= Len(Current.rows) \/ Dead(x)
            /\ row' = CompleteRow(x, req[Owner[x]].cancelled)
            /\ req' = CompleteReq(x, req[Owner[x]].cancelled)
            /\ pending_rows' = pending_rows
            /\ loop' = [loop EXCEPT !.at = loop.at + 1]
         \/ /\ ~row[x].completed /\ SameCompleted
            /\ req' = req /\ pending_rows' = Append(pending_rows, x)
            /\ loop' = [loop EXCEPT !.at = loop.at + 1]
         \/ /\ loop.at <= Len(Current.rows) /\ row[x].completed
            /\ row' = row /\ req' = req /\ pending_rows' = pending_rows
            /\ loop' = [loop EXCEPT !.at = loop.at + 1]
         \/ /\ loop.at <= Len(Current.rows) => ~row[x].completed
            /\ loop.at <= Len(Current.rows) \/ ~Dead(x)
            /\ row' = row /\ req' = req /\ pending_rows' = pending_rows
            /\ \E o : loop' = [loop EXCEPT !.at = loop.at + 1,
                                           !.live = Append(loop.live, [row |-> x, old |-> o])]
<1> DEFINE old == loop.at <= Len(Current.rows)
           ends == IF old THEN Leaves(x) ELSE Dead(x)
           pauses == old /\ loop.pass = 1 /\ Backpressured(Owner[x])
<1>1. row \in [Rows -> RowRecord]
  BY DEF TypeOK
<1>2. CASE old /\ row[x].completed
  BY <1>2 DEF RebuildRow, objects
<1>3. CASE ~(old /\ row[x].completed) /\ ends
  BY <1>3, Zenon DEF RebuildRow
<1>4. CASE ~(old /\ row[x].completed) /\ ~ends /\ pauses
  <2>1. /\ old /\ ~row[x].completed
        /\ \E h : row' = [row EXCEPT ![x].saved_sampler = h]
        /\ req' = req /\ pending_rows' = Append(pending_rows, x)
        /\ loop' = [loop EXCEPT !.at = loop.at + 1]
    BY <1>4 DEF RebuildRow
  <2>2. SameCompleted
    BY <1>1, <2>1 DEF SameCompleted, RowRecord
  <2> QED BY <2>1, <2>2, Zenon
<1>5. CASE ~(old /\ row[x].completed) /\ ~ends /\ ~pauses
  BY <1>5, Zenon DEF RebuildRow, objects
<1> QED BY <1>2, <1>3, <1>4, <1>5, Zenon

(* rebuild() looks at one member. *)
LEMMA RebuildRowHomes ==
  ASSUME TypeOK, Shape, Homed, Building, RebuildRow
  PROVE  Homed'
<1>1. PICK x \in Rows : x = Members(loop.cur)[loop.at]
  BY MemberAt, Zenon
<1>2. CASE row' = row /\ req' = req /\ pending_rows' = pending_rows
  <2>1. StillCancelled /\ SameCompleted /\ groups' = groups
    BY <1>2 DEF StillCancelled, SameCompleted, RebuildRow
  <2>2. loop'.arrivals = loop.arrivals /\ incoming' = incoming /\ client' = client
    BY OwnerKeeps DEF OwnerWork
  <2> QED BY <1>2, <2>1, <2>2, HomesObjects
<1> QED BY <1>1, <1>2, RebuildRowCases, RebuildEndHomes, RebuildPauseHomes, Zenon

(* rebuild() installs the rows it kept, the others being pending by now. *)
LEMMA RebuildCommitHomes ==
  ASSUME TypeOK, Shape, Homed, Building, RebuildCommit
  PROVE  Homed'
<1>1. PICK k \in Adapters : k = loop.cur
  BY DEF TypeOK, LoopRecord
<1>2. /\ loop.pc = "rebuild" /\ loop.live \in Seq(LiveRow) /\ loop.at \in Nat
      /\ Members(k) \in Seq(Rows) /\ Len(Members(k)) \in Nat /\ loop.at > Len(Members(k))
      /\ groups \in [Adapters -> Group]
  <2>1. Members(k) \in Seq(Rows)
    BY MembersType DEF TypeOK
  <2>2. loop.at > Len(Members(k)) /\ loop.pc = "rebuild"
    BY <1>1 DEF RebuildCommit
  <2> QED BY <2>1, <2>2 DEF TypeOK, LoopRecord
<1>3. groups' = [groups EXCEPT ![k] = RebuiltGroup] /\ pending_rows' = pending_rows
  BY <1>1 DEF RebuildCommit
<1>4. loop'.arrivals = loop.arrivals /\ incoming' = incoming /\ client' = client
  BY OwnerKeeps DEF OwnerWork
<1>5. StillCancelled /\ SameCompleted
  BY OwnerObjects
<1> DEFINE s == [i \in 1..Len(loop.live) |-> loop.live[i].row]
<1>6. s \in Seq(Rows) /\ Len(s) = Len(loop.live)
  <2>1. \A i \in 1..Len(loop.live) : loop.live[i].row \in Rows
    <3>1. \A i \in 1..Len(loop.live) : loop.live[i] \in LiveRow
      BY <1>2
    <3>2. \A l \in LiveRow : l.row \in Rows
      BY DEF LiveRow
    <3> QED BY <3>1, <3>2
  <2> QED BY <1>2, <2>1
<1>7. groups'[k].rows = s /\ groups'[k].incoming = <<>>
  BY <1>2, <1>3 DEF RebuiltGroup, Rebuilt
<1>8. Members(k)' = s
  BY <1>6, <1>7 DEF Members
<1>9. \A x : In(s, x) <=> Kept(x)
  BY <1>6 DEF In, Kept
<1>10. NoRepeat(s)
  BY <1>2, <1>6 DEF NoRepeat, Building
<1>11. \A r \in Rows : Kept(r) => ~row[r].completed /\ In(Members(k), r)
  <2> SUFFICES ASSUME NEW r \in Rows, NEW j \in 1..Len(loop.live), loop.live[j].row = r
               PROVE  ~row[r].completed /\ In(Members(k), r)
    BY DEF Kept
  <2>1. /\ ~row[r].completed
        /\ \E i \in 1..Len(Members(k)) : Members(k)[i] = r
    BY <1>1, <1>2 DEF Building
  <2> QED BY <2>1 DEF In
<1>12. ASSUME NEW r \in Rows, ~row[r].completed, In(Members(k), r)
       PROVE  Pending(r) <=> ~Kept(r)
  <2>1. PICK i \in 1..Len(Members(k)) : Members(k)[i] = r
    BY <1>12 DEF In
  <2>2. i < loop.at
    BY <1>2
  <2>3. /\ i \in 1..Len(Members(loop.cur)) /\ ~row[Members(loop.cur)[i]].completed
        /\ Members(loop.cur)[i] = r
    BY <1>1, <1>12, <2>1
  <2> QED BY <1>2, <2>2, <2>3 DEF Building
<1>13. \A a \in Adapters : a # k => groups'[a] = groups[a] /\ Members(a)' = Members(a)
  BY <1>2, <1>3 DEF Members
<1>14. NoDuplicates'
  <2>1. \A a \in Adapters : NoRepeat(Members(a))'
    <3> SUFFICES ASSUME NEW a \in Adapters PROVE NoRepeat(Members(a)')
      OBVIOUS
    <3>1. CASE a = k
      BY <1>8, <1>10, <3>1
    <3>2. CASE a # k
      BY <1>13, <3>2 DEF Homed, NoDuplicates
    <3> QED BY <3>1, <3>2
  <2> QED BY <1>3, <1>4, <2>1 DEF Homed, NoDuplicates
<1> HIDE DEF s
<1>15. OwnGroup'
  <2> SUFFICES ASSUME NEW a \in Adapters, NEW r \in Rows, In(Members(a)', r)
               PROVE  a = AdapterOf[Owner[r]]
    BY DEF OwnGroup
  <2>1. CASE a = k
    <3>1. In(Members(k), r)
      BY <1>8, <1>9, <1>11, <2>1
    <3> QED BY <2>1, <3>1 DEF Homed, OwnGroup
  <2>2. CASE a # k
    BY <1>13, <2>2 DEF Homed, OwnGroup
  <2> QED BY <2>1, <2>2
<1>16. \A q \in Requests : Queued(q)' <=> Queued(q)
  BY <1>4 DEF Queued
<1>17. \A r \in Rows : Pending(r)' <=> Pending(r)
  BY <1>3 DEF Pending
<1>18. ASSUME NEW r \in Rows
       PROVE  /\ AdapterOf[Owner[r]] = k => (Grouped(r)' <=> Kept(r)) /\ ~Newcomer(r)'
              /\ AdapterOf[Owner[r]] # k =>
                   (Grouped(r)' <=> Grouped(r)) /\ (Newcomer(r)' <=> Newcomer(r))
  <2>1. CASE AdapterOf[Owner[r]] = k
    <3>1. Grouped(r)' <=> In(Members(k)', r)
      BY <2>1 DEF Grouped
    <3>2. ~Newcomer(r)'
      BY <1>7, <2>1, SmallIn DEF Newcomer
    <3> QED BY <1>8, <1>9, <2>1, <3>1, <3>2
  <2>2. CASE AdapterOf[Owner[r]] # k
    BY <1>13, <2>2, Belongs DEF Grouped, Newcomer
  <2> QED BY <2>1, <2>2
<1>19. ASSUME NEW r \in Rows
       PROVE  /\ ~row[r].completed =>
                   /\ (Queued(Owner[r]) \/ Pending(r) \/ Grouped(r))'
                        <=> Queued(Owner[r]) \/ Pending(r) \/ Grouped(r)
                   /\ ~(Queued(Owner[r]) /\ (Pending(r) \/ Grouped(r)))'
              /\ row[r].completed =>
                   /\ Queued(Owner[r])' => Queued(Owner[r])
                   /\ Pending(r)' \/ Newcomer(r)' => Pending(r) \/ Newcomer(r)
  <2>1. Queued(Owner[r])' <=> Queued(Owner[r])
    BY <1>16, Belongs
  <2>2. ~row[r].completed /\ Queued(Owner[r]) => ~Pending(r) /\ ~Grouped(r)
    BY DEF Homed, Housed
  <2>3. CASE AdapterOf[Owner[r]] = k
    <3>1. Grouped(r) <=> In(Members(k), r)
      BY <2>3 DEF Grouped
    <3> QED BY <1>11, <1>12, <1>17, <1>18, <2>1, <2>2, <2>3, <3>1
  <2>4. CASE AdapterOf[Owner[r]] # k
    BY <1>17, <1>18, <2>1, <2>2, <2>4
  <2> QED BY <2>3, <2>4
<1>20. \A r \in Rows : /\ row'[r].completed <=> row[r].completed
                       /\ Dead(r) => Dead(r)'
  BY <1>5, DeadStays DEF SameCompleted
<1>21. \A q \in Requests : (Inside(q)' <=> Inside(q)) /\ (Started(q)' <=> Started(q))
  BY <1>4, SameCallers
<1> QED BY <1>14, <1>15, <1>19, <1>20, <1>21, HomesMove DEF Homed

(* fail() completes one member and cancels its request. *)
LEMMA FailRowFacts ==
  ASSUME TypeOK, Shape, CompletionAccounting, FailRow, NEW x \in Rows,
         x = Members(loop.cur)[loop.at]
  PROVE  /\ StillCancelled
         /\ \A r \in Rows : row'[r].completed <=> (r = x \/ row[r].completed)
         /\ ~row[x].completed => req'[Owner[x]].cancelled
<1> DEFINE f == CompleteReq(x, TRUE)
<1>1. row' = CompleteRow(x, TRUE)
      /\ req' = IF row[x].completed THEN req
                ELSE [f EXCEPT ![Owner[x]].error = TRUE, ![Owner[x]].cancelled = TRUE]
  BY DEF FailRow
<1>2. f \in [Requests -> RequestRecord] /\ Owner[x] \in Requests
  BY CompleteReqType, Belongs
<1>3. \A q \in Requests : f[q].cancelled = req[q].cancelled
  BY CompleteKeeps, Zenon
<1> HIDE DEF f
<1>4. StillCancelled
  BY <1>1, <1>2, <1>3 DEF StillCancelled, RequestRecord
<1>5. \A r \in Rows : row'[r].completed <=> (r = x \/ row[r].completed)
  BY <1>1, CompleteRowFacts
<1>6. ~row[x].completed => req'[Owner[x]].cancelled
  BY <1>1, <1>2 DEF RequestRecord
<1> QED BY <1>4, <1>5, <1>6

(* fail_group() completes a member in place: it stays listed until the     *)
(* group is cleared, but is no longer a row to complete.                   *)
LEMMA FailRowHomes ==
  ASSUME TypeOK, Shape, CompletionAccounting, Homed, FailRow
  PROVE  Homed'
<1>1. PICK x \in Rows : x = Members(loop.cur)[loop.at]
  BY MemberAt, Zenon
<1>2. /\ loop.pc = "fail" /\ loop.at <= Len(Members(loop.cur))
      /\ groups' = groups /\ pending_rows' = pending_rows
  BY DEF FailRow, placement
<1>3. loop'.arrivals = loop.arrivals /\ incoming' = incoming /\ client' = client
  BY OwnerKeeps DEF OwnerWork
<1>4. /\ StillCancelled
      /\ \A r \in Rows : row'[r].completed <=> (r = x \/ row[r].completed)
      /\ ~row[x].completed => req'[Owner[x]].cancelled
  BY <1>1, FailRowFacts
<1>5. CASE row[x].completed
  <2>1. SameCompleted
    BY <1>4, <1>5 DEF SameCompleted
  <2> QED BY <1>2, <1>3, <1>4, <2>1, HomesObjects
<1>6. CASE ~row[x].completed
  <2>1. Grouped(x)
    BY <1>1, <1>2, MemberFacts
  <2>2. /\ NoDuplicates' /\ OwnGroup'
        /\ \A q \in Requests : Queued(q)' <=> Queued(q)
        /\ \A r \in Rows : (Grouped(r)' <=> Grouped(r)) /\ (Newcomer(r)' <=> Newcomer(r))
    BY <1>2, <1>3, PendingDuplicates DEF Homed, NoDuplicates
  <2>3. \A r \in Rows : Pending(r)' <=> Pending(r)
    BY <1>2 DEF Pending
  <2>4. \A r \in Rows : Dead(r) => Dead(r)'
    BY <1>4, DeadStays
  <2>5. Dead(x)'
    BY <1>4, <1>6 DEF Dead
  <2>6. \A q \in Requests : /\ Inside(q)' <=> Inside(q)
                            /\ Started(q)' <=> Started(q)
                            /\ Inside(q) => Started(q)
    BY <1>3, SameCallers
  <2> QED BY <1>4, <2>1, <2>2, <2>3, <2>4, <2>5, <2>6, HomesComplete, Zenon DEF Homed
<1> QED BY <1>5, <1>6

(* The failed group is emptied: all its members have been completed. *)
LEMMA FailDoneHomes ==
  ASSUME TypeOK, Shape, Homed, FailedSoFar, FailDone
  PROVE  Homed'
<1>1. PICK k \in Adapters : k = loop.cur
  BY DEF TypeOK, LoopRecord
<1>2. /\ loop.pc = "fail" /\ loop.at \in Nat
      /\ Members(k) \in Seq(Rows) /\ Len(Members(k)) \in Nat /\ loop.at > Len(Members(k))
      /\ groups \in [Adapters -> Group]
  <2>1. Members(k) \in Seq(Rows)
    BY MembersType DEF TypeOK
  <2>2. loop.at > Len(Members(k)) /\ loop.pc = "fail"
    BY <1>1 DEF FailDone
  <2> QED BY <2>1, <2>2 DEF TypeOK, LoopRecord
<1>3. groups' = [groups EXCEPT ![k] = EmptyGroup] /\ pending_rows' = pending_rows
  BY <1>1 DEF FailDone
<1>4. loop'.arrivals = loop.arrivals /\ incoming' = incoming /\ client' = client
  BY OwnerKeeps DEF OwnerWork
<1>5. StillCancelled /\ SameCompleted
  BY OwnerObjects
<1>6. groups'[k].rows = <<>> /\ groups'[k].incoming = <<>>
  BY <1>2, <1>3 DEF EmptyGroup
<1>7. Members(k)' = <<>>
  BY <1>6 DEF Members
<1>8. \A r \in Rows : In(Members(k), r) => row[r].completed
  <2> SUFFICES ASSUME NEW i \in 1..Len(Members(k)) PROVE row[Members(k)[i]].completed
    BY DEF In
  <2>1. i < loop.at
    BY <1>2
  <2> QED BY <1>1, <1>2, <2>1 DEF FailedSoFar
<1>9. \A a \in Adapters : a # k => groups'[a] = groups[a] /\ Members(a)' = Members(a)
  BY <1>2, <1>3 DEF Members
<1>10. NoDuplicates'
  <2>1. \A a \in Adapters : NoRepeat(Members(a))'
    BY <1>7, <1>9, SmallIn DEF Homed, NoDuplicates
  <2> QED BY <1>3, <1>4, <2>1 DEF Homed, NoDuplicates
<1>11. OwnGroup'
  BY <1>7, <1>9, SmallIn DEF Homed, OwnGroup
<1>12. \A q \in Requests : Queued(q)' <=> Queued(q)
  BY <1>4 DEF Queued
<1>13. \A r \in Rows : Pending(r)' <=> Pending(r)
  BY <1>3 DEF Pending
<1>14. ASSUME NEW r \in Rows
       PROVE  /\ AdapterOf[Owner[r]] = k => ~Grouped(r)' /\ ~Newcomer(r)'
              /\ AdapterOf[Owner[r]] # k =>
                   (Grouped(r)' <=> Grouped(r)) /\ (Newcomer(r)' <=> Newcomer(r))
  BY <1>6, <1>7, <1>9, SmallIn, Belongs DEF Grouped, Newcomer
<1>15. ASSUME NEW r \in Rows
       PROVE  /\ ~row[r].completed =>
                   /\ (Queued(Owner[r]) \/ Pending(r) \/ Grouped(r))'
                        <=> Queued(Owner[r]) \/ Pending(r) \/ Grouped(r)
                   /\ ~(Queued(Owner[r]) /\ (Pending(r) \/ Grouped(r)))'
              /\ row[r].completed =>
                   /\ Queued(Owner[r])' => Queued(Owner[r])
                   /\ Pending(r)' \/ Newcomer(r)' => Pending(r) \/ Newcomer(r)
  <2>1. Queued(Owner[r])' <=> Queued(Owner[r])
    BY <1>12, Belongs
  <2>2. ~row[r].completed /\ Queued(Owner[r]) => ~Pending(r) /\ ~Grouped(r)
    BY DEF Homed, Housed
  <2>3. CASE AdapterOf[Owner[r]] = k
    <3>1. Grouped(r) => row[r].completed
      BY <1>8, <2>3 DEF Grouped
    <3> QED BY <1>13, <1>14, <2>1, <2>2, <2>3, <3>1
  <2>4. CASE AdapterOf[Owner[r]] # k
    BY <1>13, <1>14, <2>1, <2>2, <2>4
  <2> QED BY <2>3, <2>4
<1>16. \A r \in Rows : /\ row'[r].completed <=> row[r].completed
                       /\ Dead(r) => Dead(r)'
  BY <1>5, DeadStays DEF SameCompleted
<1>17. \A q \in Requests : (Inside(q)' <=> Inside(q)) /\ (Started(q)' <=> Started(q))
  BY <1>4, SameCallers
<1> QED BY <1>10, <1>11, <1>15, <1>16, <1>17, HomesMove DEF Homed

(* Every step keeps the homes. *)
LEMMA HomesStep ==
  ASSUME IInv, HInv, [Next]_vars
  PROVE  Homed'
<1>1. /\ TypeOK /\ Shape /\ CompletionAccounting /\ PrefillQueue /\ Homed /\ CallersDone
      /\ Paused /\ Building /\ FailedSoFar /\ Idle
  BY DEF IInv, HInv, Homed, Owning
<1>2. CASE UNCHANGED vars \/ Destroy
  <2>1. StillCancelled /\ SameCompleted
    BY <1>2 DEF vars, Destroy, objects, StillCancelled, SameCompleted
  <2>2. /\ client' = client /\ incoming' = incoming /\ loop' = loop
        /\ pending_rows' = pending_rows /\ groups' = groups
    BY <1>2 DEF vars, Destroy, callers, placement
  <2> QED BY <1>1, <2>1, <2>2, HomesObjects
<1>3. ASSUME NEW q \in Requests, Client(q) PROVE Homed'
  BY <1>1, <1>3, ClientHomes
<1>4. CASE LoopTop \/ Admit \/ AdmitRow \/ RunChunk
  BY <1>1, <1>4, LoopTopHomes, AdmitHomes, AdmitRowHomes, ChunkHomes
<1>5. CASE RebuildRow \/ RebuildCommit \/ FailRow \/ FailDone
  BY <1>1, <1>5, RebuildRowHomes, RebuildCommitHomes, FailRowHomes, FailDoneHomes
<1>6. CASE \/ Arrived \/ AdmitDone \/ CheckControls \/ (\E a \in Adapters : BeginStep(a))
           \/ EndSweep \/ SampleRow \/ SampleDone \/ Forward \/ StepThrows
  BY <1>1, <1>6, OwnerStill
<1> QED BY <1>2, <1>3, <1>4, <1>5, <1>6 DEF Next, Loop, Terminated

-----------------------------------------------------------------------------
(* A completed row stays so. *)
LEMMA CompletedStays ==
  ASSUME TypeOK, Shape, CompletionAccounting, [Next]_vars
  PROVE  \A r \in Rows : row[r].completed => row'[r].completed
<1>1. CASE UNCHANGED vars \/ Destroy
  BY <1>1 DEF vars, Destroy, objects
<1>2. ASSUME NEW q \in Requests, Client(q)
      PROVE  \A r \in Rows : row[r].completed => row'[r].completed
  BY <1>2, ClientCancels DEF SameCompleted
<1>3. CASE AdmitRow
  <2>1. PICK x \in Rows : x = pending_rows[loop.at]
    BY <1>3, AdmitRowFacts
  <2>2. \/ row' = row
        \/ row' = CompleteRow(x, req[Owner[x]].cancelled)
             /\ req' = CompleteReq(x, req[Owner[x]].cancelled)
    BY <1>3, <2>1, Zenon DEF AdmitRow
  <2> QED BY <2>2, CompleteObjects
<1>4. CASE RebuildRow
  <2>1. PICK x \in Rows : x = Members(loop.cur)[loop.at]
    BY <1>4, MemberAt, Zenon
  <2>2. \/ row' = row \/ SameCompleted
        \/ row' = CompleteRow(x, req[Owner[x]].cancelled)
             /\ req' = CompleteReq(x, req[Owner[x]].cancelled)
    BY <1>4, <2>1, RebuildRowCases, Zenon
  <2> QED BY <2>2, CompleteObjects DEF SameCompleted
<1>5. CASE FailRow
  <2>1. PICK x \in Rows : x = Members(loop.cur)[loop.at]
    BY <1>5, MemberAt, Zenon
  <2> QED BY <1>5, <2>1, FailRowFacts
<1>6. CASE \/ LoopTop \/ Admit \/ Arrived \/ AdmitDone \/ RunChunk \/ CheckControls
           \/ (\E a \in Adapters : BeginStep(a)) \/ EndSweep \/ RebuildCommit \/ SampleRow
           \/ SampleDone \/ Forward \/ StepThrows \/ FailDone
  BY <1>6, OwnerObjects DEF SameCompleted
<1> QED BY <1>1, <1>2, <1>3, <1>4, <1>5, <1>6 DEF Next, Loop, Terminated

(* A caller sees `done` in Take, when all its rows are completed. *)
LEMMA CallersDoneStep ==
  ASSUME IInv, CallersDone, [Next]_vars
  PROVE  CallersDone'
<1>1. TypeOK /\ Shape /\ CompletionAccounting /\ client \in [Requests -> ClientRecord]
  BY DEF IInv, TypeOK
<1>2. \A q \in Requests : client'[q].done => client[q].done \/ req[q].done
  <2>1. CASE client' = client
    BY <2>1
  <2>2. ASSUME NEW q \in Requests, Client(q)
        PROVE  \A p \in Requests : client'[p].done => client[p].done \/ req[p].done
    <3>1. CASE SubmitPrefill(q) \/ SubmitGenerate(q)
      BY <1>1, <3>1 DEF SubmitPrefill, SubmitGenerate, ClientRecord
    <3>2. CASE Take(q)
      BY <1>1, <3>2 DEF Take, ClientRecord
    <3>3. CASE Deliver(q)
      BY <1>1, <3>3, ZenonT(30) DEF Deliver, Accept, Refuse, Throw, Skip, Drop, ClientRecord
    <3>4. CASE Conclude(q)
      <4>1. \E s : client' = [client EXCEPT ![q].stage = s]
        BY <3>4 DEF Conclude
      <4> QED BY <1>1, <4>1 DEF ClientRecord
    <3> QED BY <2>2, <3>1, <3>2, <3>3, <3>4 DEF Client
  <2>3. CASE RunChunk /\ client' # client
    <3>1. loop.chunk \in Seq(Requests) /\ loop.chunk # <<>>
      BY <1>1, <2>3 DEF TypeOK, LoopRecord, RunChunk
    <3>2. \/ \E n : client' = [client EXCEPT ![loop.chunk[1]].stage = "new",
                                             ![loop.chunk[1]].chunks = n]
          \/ client' = [client EXCEPT ![loop.chunk[1]].stage = "threw"]
      BY <2>3 DEF RunChunk
    <3>3. PICK p \in Requests : p = loop.chunk[1]
      BY <3>1
    <3>4. CASE client' = [client EXCEPT ![p].stage = "threw"]
      BY <1>1, <3>4 DEF ClientRecord
    <3>5. ASSUME NEW n, client' = [client EXCEPT ![p].stage = "new", ![p].chunks = n]
          PROVE  \A q \in Requests : client'[q].done => client[q].done
      BY <1>1, <3>5 DEF ClientRecord
    <3> QED BY <3>2, <3>3, <3>4, <3>5
  <2>4. CASE UNCHANGED vars \/ Destroy \/ LoopTop \/ Admit
    BY <2>1, <2>4 DEF vars, Destroy, LoopTop, Admit, callers
  <2>5. CASE OwnerWork
    BY <1>1, <2>1, <2>5, OwnerKeeps
  <2> QED BY <2>1, <2>2, <2>3, <2>4, <2>5 DEF Next, Loop, OwnerWork, Terminated
<1>3. ASSUME NEW r \in Rows, req[Owner[r]].done PROVE row[r].completed
  <2>1. req[Owner[r]].remaining = 0
    BY <1>1, <1>3, Belongs DEF CompletionAccounting
  <2> QED BY <1>1, <2>1, RemainingPositive
<1> QED BY <1>1, <1>2, <1>3, Belongs, CompletedStays DEF CallersDone

-----------------------------------------------------------------------------
(* What the owner knows: first its steps outside rebuild() and fail(). *)
LEMMA OwningAway ==
  ASSUME loop'.pc \notin {"rebuild", "fail"}, Idle', Running',
         \A r \in Rows : ~row'[r].completed => ~(Pending(r)' /\ Grouped(r)')
  PROVE  Owning'
  BY DEF Owning, Paused, Building, FailedSoFar

(* Nothing the owner knows about changes. *)
LEMMA OwningFrame ==
  ASSUME TypeOK, Owning, SameCompleted,
         loop' = loop, groups' = groups, pending_rows' = pending_rows
  PROVE  Owning'
<1>1. loop.cur \in Adapters /\ loop.live \in Seq(LiveRow)
  BY DEF TypeOK, LoopRecord
<1>2. \A a \in Adapters : Members(a)' = Members(a)
  BY DEF Members
<1>3. \A r \in Rows : /\ Pending(r)' <=> Pending(r)
                      /\ Grouped(r)' <=> Grouped(r)
                      /\ Kept(r)' <=> Kept(r)
  BY <1>2, Belongs DEF Pending, Grouped, Kept
<1>4. /\ Members(loop.cur) \in Seq(Rows) /\ groups[loop.cur].rows \in Seq(Rows)
      /\ Members(loop.cur)' = Members(loop.cur)
  BY <1>1, MembersType DEF Members
<1>5. Paused'
  BY <1>3 DEF Owning, Paused, SameCompleted
<1>6. \A i \in 1..Len(Members(loop.cur)) : Members(loop.cur)[i] \in Rows
  BY <1>4
<1>7. \A j \in 1..Len(loop.live) : loop.live[j].row \in Rows
  <2>1. \A j \in 1..Len(loop.live) : loop.live[j] \in LiveRow
    BY <1>1
  <2> QED BY <2>1 DEF LiveRow
<1>8. Building'
  BY <1>3, <1>4, <1>6, <1>7 DEF Owning, Building, SameCompleted
<1>9. Running'
  <2>1. \A i \in 1..Len(groups[loop.cur].rows) : groups[loop.cur].rows[i] \in Rows
    BY <1>4
  <2> QED BY <2>1 DEF Owning, Running, Current, SameCompleted
<1>10. FailedSoFar'
  BY <1>4, <1>6 DEF Owning, FailedSoFar, SameCompleted
<1>11. Idle'
  BY DEF Owning, Idle
<1> QED BY <1>5, <1>8, <1>9, <1>10, <1>11 DEF Owning

(* Between the groups no row moves but the admitted ones. *)
LEMMA OwningBetween ==
  ASSUME TypeOK, Owning, SameCompleted, groups' = groups, pending_rows' = pending_rows,
         loop.pc \notin {"rebuild", "fail"}, loop'.live = loop.live,
         loop'.pc \notin {"rebuild", "fail", "sample", "forward"},
         loop'.pc # "arrive" => loop'.arrivals = <<>>
  PROVE  Owning'
<1>1. Idle' /\ Running'
  BY DEF Owning, Idle, Running
<1>2. \A r \in Rows : (Pending(r)' <=> Pending(r)) /\ (Grouped(r)' <=> Grouped(r))
  BY Belongs DEF Pending, Grouped, Members
<1>3. \A r \in Rows : ~row'[r].completed => ~(Pending(r)' /\ Grouped(r)')
  BY <1>2 DEF Owning, Paused, SameCompleted
<1> QED BY <1>1, <1>3, OwningAway

(* Outside a group step the owner knows only that nothing is under way. *)
LEMMA OwningQuiet ==
  ASSUME TypeOK, Shape, Owning,
         LoopTop \/ Arrived \/ AdmitDone \/ RunChunk \/ CheckControls \/ EndSweep
  PROVE  Owning'
<1>1. SameCompleted
  BY OwnerObjects
<1>2. groups' = groups /\ pending_rows' = pending_rows /\ loop.pc \notin {"rebuild", "fail"}
  BY Zenon DEF LoopTop, Arrived, AdmitDone, RunChunk, CheckControls, EndSweep, placement
<1>3. loop \in LoopRecord
  BY DEF TypeOK
<1>4. /\ loop'.live = loop.live
      /\ loop'.pc \notin {"rebuild", "fail", "sample", "forward"}
      /\ loop'.pc # "arrive" => loop'.arrivals = <<>>
  <2>1. CASE LoopTop
    BY <1>3, <2>1 DEF LoopTop, LoopRecord
  <2>2. CASE Arrived
    <3>1. PICK o : loop' = [loop EXCEPT !.pc = "admit", !.at = 1, !.occupied = o]
      BY <2>2, Zenon DEF Arrived
    <3> QED BY <1>3, <2>2, <3>1 DEF Arrived, LoopRecord
  <2>3. CASE AdmitDone
    BY <1>3, <2>3 DEF AdmitDone, LoopRecord, Owning, Idle
  <2>4. CASE RunChunk
    BY <1>3, <2>4 DEF RunChunk, LoopRecord, Owning, Idle
  <2>5. CASE CheckControls
    <3>1. PICK t : loop' = [loop EXCEPT !.pc = "sweep", !.todo = t]
      BY <2>5, Zenon DEF CheckControls
    <3> QED BY <1>3, <2>5, <3>1, Zenon DEF CheckControls, LoopRecord, Owning, Idle
  <2>6. CASE EndSweep
    <3>1. PICK p \in {"exited", "top"} : loop' = [loop EXCEPT !.pc = p]
      BY <2>6 DEF EndSweep
    <3> QED BY <1>3, <2>6, <3>1 DEF EndSweep, LoopRecord, Owning, Idle
  <2> QED BY <2>1, <2>2, <2>3, <2>4, <2>5, <2>6
<1> QED BY <1>1, <1>2, <1>4, OwningBetween

(* The rows of an arrived request are in no group. *)
LEMMA OwningAdmit ==
  ASSUME TypeOK, Shape, Homed, Owning, Admit
  PROVE  Owning'
<1>1. SameCompleted
  BY OwnerObjects
<1>2. PICK q \in Requests : q = Head(loop.arrivals) /\ In(loop.arrivals, q)
  <2>1. loop.arrivals \in Seq(Requests) /\ loop.arrivals # <<>>
    BY DEF TypeOK, LoopRecord, Admit
  <2>2. 1 \in 1..Len(loop.arrivals) /\ loop.arrivals[1] = Head(loop.arrivals)
        /\ Head(loop.arrivals) \in Requests
    BY <2>1
  <2> QED BY <2>2 DEF In
<1>3. /\ loop.pc = "arrive" /\ loop'.pc = "arrive" /\ loop'.live = loop.live
      /\ pending_rows' = pending_rows \o RowsOf[q] /\ groups' = groups
  BY <1>2 DEF Admit, TypeOK, LoopRecord
<1>4. Idle' /\ Running'
  BY <1>3 DEF Owning, Idle, Running
<1>5. \A r \in Rows : /\ Grouped(r)' <=> Grouped(r)
                      /\ Pending(r)' => Pending(r) \/ Owner[r] = q
  <2>1. RowsOf[q] \in Seq(Rows) /\ \A r \in Rows : In(RowsOf[q], r) <=> Owner[r] = q
    BY RowsOfFacts
  <2>2. pending_rows \in Seq(Rows)
    BY DEF TypeOK
  <2>3. \A x : In(pending_rows', x) <=> In(pending_rows, x) \/ In(RowsOf[q], x)
    BY <1>3, <2>1, <2>2, ConcatIn
  <2>4. \A r \in Rows : Grouped(r)' <=> Grouped(r)
    BY <1>3, Belongs DEF Grouped, Members
  <2> QED BY <2>1, <2>3, <2>4 DEF Pending
<1>6. \A r \in Rows : ~row[r].completed /\ Owner[r] = q => ~Grouped(r)
  BY <1>2 DEF Homed, Housed, Queued
<1>7. \A r \in Rows : ~row'[r].completed => ~(Pending(r)' /\ Grouped(r)')
  BY <1>1, <1>3, <1>5, <1>6 DEF Owning, Paused, SameCompleted
<1> QED BY <1>3, <1>4, <1>7, OwningAway

(* A row that joins its group is no longer pending. *)
LEMMA OwningAdmitRow ==
  ASSUME TypeOK, Shape, CompletionAccounting, Homed, Owning, AdmitRow, [Next]_vars
  PROVE  Owning'
<1>1. PICK x \in Rows : x = pending_rows[loop.at]
  BY AdmitRowFacts
<1>2. PICK k \in Adapters : k = AdapterOf[Owner[x]]
  BY Belongs
<1>3. /\ loop.pc = "admit" /\ loop'.pc = "admit" /\ loop'.live = loop.live
      /\ loop'.arrivals = loop.arrivals
  <2>1. \/ loop' = loop \/ loop' = [loop EXCEPT !.at = loop.at + 1]
        \/ loop' = [loop EXCEPT !.occupied = loop.occupied + 1]
    BY Zenon DEF AdmitRow
  <2>2. loop \in LoopRecord /\ loop.pc = "admit"
    BY Zenon DEF TypeOK, AdmitRow
  <2> QED BY <2>1, <2>2 DEF LoopRecord
<1>4. Idle' /\ Running'
  BY <1>3 DEF Owning, Idle, Running
<1>5. /\ NoRepeat(RemoveAt(pending_rows, loop.at))
      /\ \A y : In(RemoveAt(pending_rows, loop.at), y) <=> In(pending_rows, y) /\ y # x
  <2>1. pending_rows \in Seq(Rows) /\ NoRepeat(pending_rows)
    BY DEF TypeOK, Homed, NoDuplicates
  <2>2. loop.at \in 1..Len(pending_rows)
    BY AdmitRowFacts
  <2> QED BY <1>1, <2>1, <2>2, RemoveFacts
<1>6. \/ groups' = groups /\ pending_rows' = pending_rows
      \/ groups' = groups /\ pending_rows' = RemoveAt(pending_rows, loop.at)
      \/ groups' = [groups EXCEPT ![k].incoming = Append(groups[k].incoming, x)]
           /\ pending_rows' = RemoveAt(pending_rows, loop.at)
  BY <1>1, <1>2, Zenon DEF AdmitRow, placement
<1>7. \A r \in Rows : Pending(r)' => Pending(r) /\ (groups' = groups \/ r # x)
  BY <1>5, <1>6 DEF Pending
<1>8. \A r \in Rows : Grouped(r)' => Grouped(r) \/ (r = x /\ groups' # groups)
  <2>1. CASE groups' = groups
    BY <2>1, Belongs DEF Grouped, Members
  <2>2. CASE groups' # groups
    <3> DEFINE u == groups[k].rows
               v == groups[k].incoming
    <3>1. u \in Seq(Rows) /\ v \in Seq(Rows) /\ groups \in [Adapters -> Group]
      BY MembersType DEF TypeOK
    <3>2. groups' = [groups EXCEPT ![k].incoming = Append(v, x)]
      BY <1>6, <2>2
    <3> HIDE DEF u, v
    <3>3. /\ groups'[k].rows = u /\ groups'[k].incoming = Append(v, x)
          /\ \A a \in Adapters : a # k => groups'[a] = groups[a]
      BY <3>1, <3>2 DEF Group, u
    <3>4. Members(k) = u \o v /\ Members(k)' = u \o Append(v, x)
      BY <3>3 DEF Members, u, v
    <3>5. \A y : In(u \o Append(v, x), y) <=> In(u \o v, y) \/ y = x
      <4>1. u \o Append(v, x) = Append(u \o v, x)
        <5>1. \A s, t \in Seq(Rows), e \in Rows : s \o Append(t, e) = Append(s \o t, e)
          BY ConcatAppend
        <5> QED BY <3>1, <5>1, Zenon
      <4>2. u \o v \in Seq(Rows)
        BY <3>1
      <4>3. \A y : In(Append(u \o v, x), y) <=> In(u \o v, y) \/ y = x
        BY <4>2, AppendIn
      <4> QED BY <4>1, <4>3, Zenon
    <3>6. ASSUME NEW r \in Rows, Grouped(r)' PROVE Grouped(r) \/ r = x
      <4>1. CASE AdapterOf[Owner[r]] = k
        BY <3>4, <3>5, <3>6, <4>1 DEF Grouped
      <4>2. CASE AdapterOf[Owner[r]] # k
        BY <3>3, <3>6, <4>2, Belongs DEF Grouped, Members
      <4> QED BY <4>1, <4>2
    <3> QED BY <2>2, <3>6
  <2> QED BY <2>1, <2>2
<1>9. \A r \in Rows : ~row'[r].completed => ~row[r].completed
  BY CompletedStays
<1>10. \A r \in Rows : ~row'[r].completed => ~(Pending(r)' /\ Grouped(r)')
  BY <1>3, <1>7, <1>8, <1>9 DEF Owning, Paused
<1> QED BY <1>3, <1>4, <1>10, OwningAway

(* A rebuild begins: nothing to complete is pending and in the group. *)
LEMMA OwningRestart ==
  ASSUME TypeOK, Homed, Owning, SameCompleted, loop.pc \notin {"rebuild", "fail"},
         loop'.pc = "rebuild", loop'.at = 1, loop'.live = <<>>, loop'.arrivals = <<>>,
         loop'.cur \in Adapters, pending_rows' = pending_rows,
         \A a \in Adapters : /\ groups'[a].rows = groups[a].rows
                             /\ groups'[a].incoming = groups[a].incoming
  PROVE  Owning'
<1>1. PICK k \in Adapters : k = loop'.cur
  OBVIOUS
<1>2. \A a \in Adapters : Members(a)' = Members(a)
  BY DEF Members
<1>3. \A r \in Rows : (Pending(r)' <=> Pending(r)) /\ (Grouped(r)' <=> Grouped(r))
  BY <1>2, Belongs DEF Pending, Grouped
<1>4. \A r \in Rows : ~row'[r].completed => ~(Pending(r)' /\ Grouped(r)')
  BY <1>3 DEF Owning, Paused, SameCompleted
<1>5. PICK M \in Seq(Rows) : M = Members(k) /\ Members(loop.cur)' = M
  <2>1. Members(k)' = Members(k) /\ Members(k) \in Seq(Rows)
    BY <1>2, MembersType
  <2>2. Members(loop.cur)' = Members(k)'
    BY <1>1 DEF Members
  <2> QED BY <2>1, <2>2
<1>6. \A i \in 1..Len(M) : ~row'[M[i]].completed => ~In(pending_rows', M[i])
  <2> SUFFICES ASSUME NEW i \in 1..Len(M), NEW r \in Rows, r = M[i], ~row'[r].completed
               PROVE  ~In(pending_rows', r)
    BY <1>5
  <2>1. In(Members(k), r)
    BY <1>5 DEF In
  <2>2. Grouped(r)
    BY <2>1 DEF Homed, OwnGroup, Grouped
  <2> QED BY <1>3, <1>4, <2>2 DEF Pending
<1>7. Building'
  <2>1. \A i \in 1..Len(M) : ~(i < 1)
    OBVIOUS
  <2>2. \A j \in 1..Len(loop'.live) : FALSE
    OBVIOUS
  <2> QED BY <1>5, <1>6, <2>1, <2>2 DEF Building, Pending
<1> QED BY <1>4, <1>7 DEF Owning, Paused, Running, FailedSoFar, Idle

(* A group step begins, or begins its second pass, with the whole group    *)
(* still to look at.                                                       *)
LEMMA OwningBegin ==
  ASSUME TypeOK, Shape, Homed, Owning, (\E a \in Adapters : BeginStep(a)) \/ SampleDone \/ Forward
  PROVE  Owning'
<1>1. SameCompleted
  BY OwnerObjects
<1>2. loop.pc \in {"sweep", "sample", "forward"} /\ pending_rows' = pending_rows
  BY Zenon DEF BeginStep, SampleDone, Forward, placement
<1>3. loop \in LoopRecord /\ loop.arrivals = <<>>
  BY <1>2 DEF TypeOK, Owning, Idle
<1>4. /\ loop'.pc = "rebuild" /\ loop'.at = 1 /\ loop'.live = <<>> /\ loop'.arrivals = <<>>
      /\ loop'.cur \in Adapters
  <2>1. ASSUME NEW a \in Adapters, BeginStep(a)
        PROVE  /\ loop'.pc = "rebuild" /\ loop'.at = 1 /\ loop'.live = <<>>
               /\ loop'.arrivals = <<>> /\ loop'.cur \in Adapters
    <3>1. PICK t : loop' = [loop EXCEPT !.pc = "rebuild", !.todo = t, !.cur = a,
                                        !.pass = 1, !.at = 1, !.live = <<>>]
      BY <2>1, Zenon DEF BeginStep
    <3> QED BY <1>3, <3>1 DEF LoopRecord
  <2>2. CASE SampleDone \/ Forward
    <3>1. PICK w : loop' = [loop EXCEPT !.pc = "rebuild", !.pass = w, !.at = 1, !.live = <<>>]
      BY <2>2, Zenon DEF SampleDone, Forward
    <3> QED BY <1>3, <3>1 DEF LoopRecord
  <2> QED BY <2>1, <2>2
<1>5. \A a \in Adapters : /\ groups'[a].rows = groups[a].rows
                          /\ groups'[a].incoming = groups[a].incoming
  <2>1. groups' = groups \/ \E t : groups' = [groups EXCEPT ![loop.cur].slots = t]
    BY ForwardGroups, Zenon DEF BeginStep, SampleDone, placement
  <2>2. groups \in [Adapters -> Group]
    BY DEF TypeOK
  <2> QED BY <2>1, <2>2, Zenon DEF Group
<1> QED BY <1>1, <1>2, <1>4, <1>5, OwningRestart

(* Sampling completes no row and moves none. *)
LEMMA OwningSample ==
  ASSUME TypeOK, Shape, Owning, SampleRow
  PROVE  Owning'
<1>1. SameCompleted
  BY OwnerObjects
<1>2. /\ loop.pc = "sample" /\ loop \in LoopRecord /\ pending_rows' = pending_rows
      /\ loop' = [loop EXCEPT !.at = loop.at + 1] /\ loop.cur \in Adapters
  BY DEF SampleRow, TypeOK, LoopRecord
<1>3. /\ loop'.pc = "sample" /\ loop'.cur = loop.cur /\ loop'.live = loop.live
      /\ loop'.arrivals = loop.arrivals
  BY <1>2 DEF LoopRecord
<1>4. \A a \in Adapters : /\ groups'[a].rows = groups[a].rows
                          /\ groups'[a].incoming = groups[a].incoming
  <2>1. \E t : groups' = [groups EXCEPT ![loop.cur].slots = t]
    BY SampleRowGroups
  <2>2. groups \in [Adapters -> Group]
    BY DEF TypeOK
  <2> QED BY <2>1, <2>2 DEF Group
<1>5. \A r \in Rows : (Pending(r)' <=> Pending(r)) /\ (Grouped(r)' <=> Grouped(r))
  BY <1>2, <1>4, Belongs DEF Pending, Grouped, Members
<1>6. \A r \in Rows : ~row'[r].completed => ~(Pending(r)' /\ Grouped(r)')
  BY <1>1, <1>2, <1>5 DEF Owning, Paused, SameCompleted
<1>7. Running'
  <2>1. groups[loop.cur].rows \in Seq(Rows) /\ groups'[loop'.cur].rows = groups[loop.cur].rows
    BY <1>2, <1>3, <1>4, MembersType
  <2>2. \A i \in 1..Len(groups[loop.cur].rows) : groups[loop.cur].rows[i] \in Rows
    BY <2>1
  <2> QED BY <1>1, <1>2, <2>1, <2>2 DEF Owning, Running, Current, SameCompleted
<1>8. Idle'
  BY <1>2, <1>3 DEF Owning, Idle
<1> QED BY <1>3, <1>6, <1>7, <1>8, OwningAway

(* The new batch holds only rows to complete, and none of them is pending. *)
LEMMA OwningCommit ==
  ASSUME TypeOK, Shape, Homed, Owning, RebuildCommit
  PROVE  Owning'
<1>1. SameCompleted
  BY OwnerObjects
<1>2. PICK k \in Adapters : k = loop.cur
  BY DEF TypeOK, LoopRecord
<1>3. /\ loop.pc = "rebuild" /\ loop.live \in Seq(LiveRow) /\ loop \in LoopRecord
      /\ groups \in [Adapters -> Group] /\ loop.pass \in 1..3
      /\ groups' = [groups EXCEPT ![k] = RebuiltGroup] /\ pending_rows' = pending_rows
  BY <1>2 DEF TypeOK, LoopRecord, RebuildCommit
<1>4. /\ loop'.pc \in {"sample", "forward", "sweep"} /\ loop'.live = <<>> /\ loop'.cur = k
      /\ loop'.arrivals = <<>>
  <2>1. AfterRebuild(loop.live = <<>>) \in {"sample", "forward", "sweep"}
    BY <1>3 DEF AfterRebuild
  <2>2. PICK p \in {"sample", "forward", "sweep"} :
          loop' = [loop EXCEPT !.pc = p, !.at = 1, !.live = <<>>]
    BY <2>1 DEF RebuildCommit
  <2> QED BY <1>2, <1>3, <2>2 DEF LoopRecord, Owning, Idle
<1> DEFINE s == [i \in 1..Len(loop.live) |-> loop.live[i].row]
<1>5. s \in Seq(Rows) /\ Len(s) = Len(loop.live)
  <2>1. \A i \in 1..Len(loop.live) : loop.live[i].row \in Rows
    <3>1. \A i \in 1..Len(loop.live) : loop.live[i] \in LiveRow
      BY <1>3
    <3>2. \A l \in LiveRow : l.row \in Rows
      BY DEF LiveRow
    <3> QED BY <3>1, <3>2
  <2> QED BY <1>3, <2>1
<1>6. groups'[k].rows = s /\ groups'[k].incoming = <<>>
  BY <1>3 DEF RebuiltGroup, Rebuilt
<1>7. Members(k)' = s
  BY <1>5, <1>6 DEF Members
<1>8. \A i \in 1..Len(s) : ~row'[s[i]].completed /\ ~Pending(s[i])
  <2> SUFFICES ASSUME NEW j \in 1..Len(loop.live)
               PROVE  ~row'[s[j]].completed /\ ~Pending(s[j])
    BY <1>5
  <2>1. PICK r \in Rows : r = s[j] /\ r = loop.live[j].row
    BY <1>5
  <2>2. ~row[r].completed /\ Kept(r)
    BY <1>3, <2>1 DEF Owning, Building, Kept
  <2>3. PICK i \in 1..Len(Members(loop.cur)) : i < loop.at /\ Members(loop.cur)[i] = r
    BY <1>3, <2>1 DEF Owning, Building
  <2>4. ~row[Members(loop.cur)[i]].completed /\ Kept(Members(loop.cur)[i])
    BY <2>2, <2>3, Zenon
  <2>5. ~Pending(Members(loop.cur)[i])
    BY <1>3, <2>3, <2>4 DEF Owning, Building
  <2>6. ~Pending(r)
    BY <2>3, <2>5, Zenon
  <2> QED BY <1>1, <2>1, <2>2, <2>6 DEF SameCompleted
<1>9. \A a \in Adapters : a # k => Members(a)' = Members(a)
  BY <1>3 DEF Members
<1>10. ASSUME NEW r \in Rows, ~row'[r].completed PROVE ~(Pending(r)' /\ Grouped(r)')
  <2>1. Pending(r)' <=> Pending(r)
    BY <1>3 DEF Pending
  <2>2. CASE AdapterOf[Owner[r]] = k
    <3>1. Grouped(r)' <=> In(s, r)
      BY <1>7, <2>2 DEF Grouped
    <3>2. In(s, r) => ~Pending(r)
      BY <1>8 DEF In
    <3> QED BY <2>1, <3>1, <3>2
  <2>3. CASE AdapterOf[Owner[r]] # k
    <3>1. Grouped(r)' <=> Grouped(r)
      BY <1>9, <2>3, Belongs DEF Grouped
    <3> QED BY <1>1, <1>2, <1>10, <2>1, <2>3, <3>1 DEF Owning, Paused, SameCompleted
  <2> QED BY <2>2, <2>3
<1>11. Running'
  BY <1>4, <1>6, <1>8 DEF Running, Current
<1>12. Idle'
  BY <1>4 DEF Idle
<1> QED BY <1>4, <1>10, <1>11, <1>12, OwningAway

(* step() throws: what was pending beside its group stays so until fail()   *)
(* has completed it.                                                       *)
LEMMA OwningThrow ==
  ASSUME TypeOK, Shape, Owning, StepThrows
  PROVE  Owning'
<1>1. SameCompleted
  BY OwnerObjects
<1>2. /\ loop.pc \in {"rebuild", "sample", "forward"} /\ loop \in LoopRecord
      /\ groups' = groups /\ pending_rows' = pending_rows
      /\ loop' = [loop EXCEPT !.pc = "fail", !.at = 1]
  BY DEF StepThrows, TypeOK, placement
<1>3. /\ loop'.pc = "fail" /\ loop'.at = 1 /\ loop'.cur = loop.cur
      /\ loop'.arrivals = loop.arrivals
  BY <1>2 DEF LoopRecord
<1>4. \A r \in Rows : (Pending(r)' <=> Pending(r)) /\ (Grouped(r)' <=> Grouped(r))
  BY <1>2, Belongs DEF Pending, Grouped, Members
<1>5. Paused'
  BY <1>1, <1>3, <1>4 DEF Owning, Paused, SameCompleted
<1>6. FailedSoFar'
  <2>1. \A n \in Nat : \A i \in 1..n : ~(i < 1)
    OBVIOUS
  <2>2. Members(loop.cur)' \in Seq(Rows)
    <3>1. loop.cur \in Adapters /\ Members(loop.cur) \in Seq(Rows)
      BY <1>2, MembersType DEF LoopRecord
    <3> QED BY <1>2, <1>3, <3>1 DEF Members
  <2> QED BY <1>3, <2>1, <2>2 DEF FailedSoFar
<1>7. Building' /\ Running' /\ Idle'
  BY <1>2, <1>3 DEF Owning, Building, Running, Idle
<1> QED BY <1>5, <1>6, <1>7 DEF Owning

(* fail() completes the members one after the other. *)
LEMMA OwningFailRow ==
  ASSUME TypeOK, Shape, CompletionAccounting, Owning, FailRow
  PROVE  Owning'
<1>1. PICK x \in Rows : x = Members(loop.cur)[loop.at]
  BY MemberAt, Zenon
<1>2. /\ loop.pc = "fail" /\ loop \in LoopRecord /\ loop.at \in Nat
      /\ groups' = groups /\ pending_rows' = pending_rows
      /\ loop' = [loop EXCEPT !.at = loop.at + 1]
  BY DEF FailRow, TypeOK, LoopRecord, placement
<1>3. /\ loop'.pc = "fail" /\ loop'.at = loop.at + 1 /\ loop'.cur = loop.cur
      /\ loop'.arrivals = loop.arrivals
  BY <1>2 DEF LoopRecord
<1>4. \A r \in Rows : row'[r].completed <=> (r = x \/ row[r].completed)
  BY <1>1, FailRowFacts
<1>5. \A r \in Rows : (Pending(r)' <=> Pending(r)) /\ (Grouped(r)' <=> Grouped(r))
  BY <1>2, Belongs DEF Pending, Grouped, Members
<1>6. Paused'
  BY <1>2, <1>3, <1>4, <1>5 DEF Owning, Paused
<1>7. PICK M \in Seq(Rows) : M = Members(loop.cur) /\ Members(loop.cur)' = M
  <2>1. loop.cur \in Adapters
    BY <1>2 DEF LoopRecord
  <2> QED BY <1>2, <1>3, <2>1, MembersType DEF Members
<1>8. \A i \in 1..Len(M) : i < loop.at + 1 => row'[M[i]].completed
  <2> SUFFICES ASSUME NEW i \in 1..Len(M), i < loop.at + 1 PROVE row'[M[i]].completed
    OBVIOUS
  <2>1. M[i] \in Rows
    BY <1>7
  <2>2. CASE i < loop.at
    BY <1>2, <1>4, <1>7, <2>1, <2>2 DEF Owning, FailedSoFar
  <2>3. CASE i = loop.at
    BY <1>1, <1>4, <1>7, <2>1, <2>3
  <2>4. i < loop.at \/ i = loop.at
    BY <1>2
  <2> QED BY <2>2, <2>3, <2>4
<1>9. FailedSoFar'
  BY <1>3, <1>7, <1>8 DEF FailedSoFar
<1>10. Building' /\ Running' /\ Idle'
  BY <1>2, <1>3 DEF Owning, Building, Running, Idle
<1> QED BY <1>6, <1>9, <1>10 DEF Owning

(* The failed group is empty, so none of its rows is pending beside it. *)
LEMMA OwningFailDone ==
  ASSUME TypeOK, Shape, Owning, FailDone
  PROVE  Owning'
<1>1. SameCompleted
  BY OwnerObjects
<1>2. PICK k \in Adapters : k = loop.cur
  BY DEF TypeOK, LoopRecord
<1>3. /\ loop.pc = "fail" /\ loop \in LoopRecord /\ groups \in [Adapters -> Group]
      /\ groups' = [groups EXCEPT ![k] = EmptyGroup] /\ pending_rows' = pending_rows
      /\ loop' = [loop EXCEPT !.pc = "sweep", !.at = 1, !.pass = 1, !.live = <<>>]
  BY <1>2 DEF FailDone, TypeOK
<1>4. loop'.pc = "sweep" /\ loop'.live = <<>> /\ loop'.arrivals = <<>>
  BY <1>3 DEF LoopRecord, Owning, Idle
<1>5. /\ Members(k)' = <<>>
      /\ \A a \in Adapters : a # k => Members(a)' = Members(a)
  <2>1. groups'[k].rows = <<>> /\ groups'[k].incoming = <<>>
    BY <1>3 DEF EmptyGroup
  <2>2. Members(k)' = <<>>
    BY <2>1 DEF Members
  <2> QED BY <1>3, <2>2 DEF Members
<1>6. ASSUME NEW r \in Rows, ~row'[r].completed PROVE ~(Pending(r)' /\ Grouped(r)')
  <2>1. Pending(r)' <=> Pending(r)
    BY <1>3 DEF Pending
  <2>2. CASE AdapterOf[Owner[r]] = k
    BY <1>5, <2>2, SmallIn DEF Grouped
  <2>3. CASE AdapterOf[Owner[r]] # k
    <3>1. Grouped(r)' <=> Grouped(r)
      BY <1>5, <2>3, Belongs DEF Grouped
    <3> QED BY <1>1, <1>2, <1>6, <2>1, <2>3, <3>1 DEF Owning, Paused, SameCompleted
  <2> QED BY <2>2, <2>3
<1>7. Idle' /\ Running'
  BY <1>4 DEF Idle, Running
<1> QED BY <1>4, <1>6, <1>7, OwningAway

(* rebuild() looks at one member: completes it, sets it aside or keeps it. *)
LEMMA OwningRebuildRow ==
  ASSUME TypeOK, Shape, Homed, Owning, RebuildRow
  PROVE  Owning'
<1>1. PICK x \in Rows : x = Members(loop.cur)[loop.at]
  BY MemberAt, Zenon
<1>2. PICK k \in Adapters : k = loop.cur
  BY DEF TypeOK, LoopRecord
<1>3. PICK n \in Nat : n = loop.at
  BY DEF TypeOK, LoopRecord
<1>4. PICK L \in Seq(LiveRow) : L = loop.live
  BY DEF TypeOK, LoopRecord
<1>5. PICK M \in Seq(Rows) : M = Members(k) /\ M = Members(loop.cur)
  BY <1>2, MembersType
<1>6. /\ loop.pc = "rebuild" /\ loop \in LoopRecord /\ groups' = groups
      /\ n <= Len(M) /\ n \in 1..Len(M) /\ M[n] = x
  BY <1>1, <1>3, <1>5, RebuildRowFacts DEF RebuildRow, TypeOK
<1>7. AdapterOf[Owner[x]] = k /\ Grouped(x)
  BY <1>1, <1>2, <1>6, MemberFacts DEF RebuildRow
<1>8. /\ loop'.pc = "rebuild" /\ loop'.cur = k /\ loop'.at = n + 1
      /\ loop'.arrivals = loop.arrivals
  <2>1. \/ loop' = [loop EXCEPT !.at = n + 1]
        \/ \E v : loop' = [loop EXCEPT !.at = n + 1, !.live = v]
    BY <1>3, Zenon DEF RebuildRow
  <2> QED BY <1>2, <1>6, <2>1, Zenon DEF LoopRecord
<1>9. Members(loop.cur)' = M
  BY <1>2, <1>5, <1>6, <1>8 DEF Members
<1>10. \A i, j \in 1..Len(M) : M[i] = M[j] => i = j
  BY <1>2, <1>5 DEF Homed, NoDuplicates, NoRepeat
<1>11. /\ \A i \in 1..Len(M) : ~row[M[i]].completed =>
            IF i < n THEN In(pending_rows, M[i]) <=> ~Kept(M[i]) ELSE ~In(pending_rows, M[i])
       /\ \A j \in 1..Len(L) : ~row[L[j].row].completed
                               /\ \E i \in 1..Len(M) : i < n /\ M[i] = L[j].row
       /\ \A j, l \in 1..Len(L) : L[j].row = L[l].row => j = l
  BY <1>3, <1>4, <1>5, <1>6 DEF Owning, Building, Pending
<1>12. \A r : Kept(r) <=> \E j \in 1..Len(L) : L[j].row = r
  BY <1>4 DEF Kept
<1>13. \A j \in 1..Len(L) : L[j].row # x /\ L[j].row \in Rows
  <2>1. \A j \in 1..Len(L) : L[j].row # x
    BY <1>6, <1>10, <1>11
  <2>2. \A j \in 1..Len(L) : L[j] \in LiveRow
    OBVIOUS
  <2> QED BY <2>1, <2>2 DEF LiveRow
<1>14. \A i \in 1..Len(M) : /\ M[i] \in Rows /\ i \in Nat
                            /\ i # n => M[i] # x
                            /\ i = n => M[i] = x
                            /\ i < n + 1 <=> (i < n \/ i = n)
  BY <1>6, <1>10
<1>15. \A r \in Rows : Grouped(r)' <=> Grouped(r)
  BY <1>6, Belongs DEF Grouped, Members
<1>16. ASSUME NEW N, N = loop'.live,
              \A i \in 1..Len(M) : ~row'[M[i]].completed =>
                IF i < n + 1 THEN In(pending_rows', M[i]) <=> ~\E j \in 1..Len(N) : N[j].row = M[i]
                             ELSE ~In(pending_rows', M[i]),
              \A j \in 1..Len(N) : /\ ~row'[N[j].row].completed
                                   /\ \E i \in 1..Len(M) : i < n + 1 /\ M[i] = N[j].row,
              \A j, l \in 1..Len(N) : N[j].row = N[l].row => j = l,
              \A r \in Rows : ~row'[r].completed /\ Pending(r)' =>
                r = x \/ (~row[r].completed /\ Pending(r))
       PROVE  Owning'
  <2>1. Paused'
    BY <1>2, <1>6, <1>7, <1>8, <1>15, <1>16 DEF Owning, Paused
  <2>2. Building'
    BY <1>8, <1>9, <1>16 DEF Building, Pending, Kept
  <2>3. loop.arrivals = <<>>
    BY <1>6 DEF Owning, Idle
  <2>4. Running' /\ FailedSoFar' /\ Idle'
    BY <1>8, <2>3 DEF Running, FailedSoFar, Idle
  <2> QED BY <2>1, <2>2, <2>4 DEF Owning
<1>17. CASE /\ row' = CompleteRow(x, req[Owner[x]].cancelled)
            /\ req' = CompleteReq(x, req[Owner[x]].cancelled)
            /\ pending_rows' = pending_rows /\ loop' = [loop EXCEPT !.at = loop.at + 1]
  <2>1. \A r \in Rows : row'[r].completed <=> (r = x \/ row[r].completed)
    BY <1>17, CompleteObjects
  <2>2. L = loop'.live
    BY <1>4, <1>6, <1>17 DEF LoopRecord
  <2>3. \A i \in 1..Len(M) : ~row'[M[i]].completed =>
          IF i < n + 1 THEN In(pending_rows', M[i]) <=> ~\E j \in 1..Len(L) : L[j].row = M[i]
                       ELSE ~In(pending_rows', M[i])
    BY <1>11, <1>12, <1>14, <1>17, <2>1
  <2>4. \A j \in 1..Len(L) : /\ ~row'[L[j].row].completed
                             /\ \E i \in 1..Len(M) : i < n + 1 /\ M[i] = L[j].row
    BY <1>11, <1>13, <1>14, <2>1
  <2>5. \A r \in Rows : ~row'[r].completed /\ Pending(r)' =>
          r = x \/ (~row[r].completed /\ Pending(r))
    BY <1>17, <2>1 DEF Pending
  <2>6. \A j, l \in 1..Len(L) : L[j].row = L[l].row => j = l
    BY <1>11
  <2> QED BY <1>16, <2>2, <2>3, <2>4, <2>5, <2>6
<1>18. CASE /\ ~row[x].completed /\ SameCompleted
            /\ pending_rows' = Append(pending_rows, x)
            /\ loop' = [loop EXCEPT !.at = loop.at + 1]
  <2>1. \A y : In(pending_rows', y) <=> In(pending_rows, y) \/ y = x
    <3>1. pending_rows \in Seq(Rows)
      BY DEF TypeOK
    <3> QED BY <1>18, <3>1, AppendIn
  <2>2. L = loop'.live
    BY <1>4, <1>6, <1>18 DEF LoopRecord
  <2>3. \A i \in 1..Len(M) : ~row'[M[i]].completed =>
          IF i < n + 1 THEN In(pending_rows', M[i]) <=> ~\E j \in 1..Len(L) : L[j].row = M[i]
                       ELSE ~In(pending_rows', M[i])
    BY <1>11, <1>12, <1>13, <1>14, <1>18, <2>1 DEF SameCompleted
  <2>4. \A j \in 1..Len(L) : /\ ~row'[L[j].row].completed
                             /\ \E i \in 1..Len(M) : i < n + 1 /\ M[i] = L[j].row
    BY <1>11, <1>13, <1>14, <1>18 DEF SameCompleted
  <2>5. \A r \in Rows : ~row'[r].completed /\ Pending(r)' =>
          r = x \/ (~row[r].completed /\ Pending(r))
    BY <1>18, <2>1 DEF Pending, SameCompleted
  <2>6. \A j, l \in 1..Len(L) : L[j].row = L[l].row => j = l
    BY <1>11
  <2> QED BY <1>16, <2>2, <2>3, <2>4, <2>5, <2>6
<1>19. CASE /\ row[x].completed /\ row' = row /\ pending_rows' = pending_rows
            /\ loop' = [loop EXCEPT !.at = loop.at + 1]
  <2>1. L = loop'.live
    BY <1>4, <1>6, <1>19 DEF LoopRecord
  <2>2. \A i \in 1..Len(M) : ~row'[M[i]].completed =>
          IF i < n + 1 THEN In(pending_rows', M[i]) <=> ~\E j \in 1..Len(L) : L[j].row = M[i]
                       ELSE ~In(pending_rows', M[i])
    BY <1>11, <1>12, <1>14, <1>19
  <2>3. \A j \in 1..Len(L) : /\ ~row'[L[j].row].completed
                             /\ \E i \in 1..Len(M) : i < n + 1 /\ M[i] = L[j].row
    BY <1>11, <1>14, <1>19
  <2>4. \A r \in Rows : ~row'[r].completed /\ Pending(r)' =>
          r = x \/ (~row[r].completed /\ Pending(r))
    BY <1>19 DEF Pending
  <2>5. \A j, l \in 1..Len(L) : L[j].row = L[l].row => j = l
    BY <1>11
  <2> QED BY <1>16, <2>1, <2>2, <2>3, <2>4, <2>5
<1>20. ASSUME NEW e, e.row = x, row' = row, pending_rows' = pending_rows,
              loop.at <= Len(Current.rows) => ~row[x].completed,
              loop.at <= Len(Current.rows) \/ ~Dead(x),
              loop'.live = Append(L, e)
       PROVE  Owning'
  <2>1. ~row[x].completed
    <3>1. ASSUME ~(loop.at <= Len(Current.rows)) PROVE Newcomer(x)
      <4> DEFINE u == groups[k].rows
                 v == groups[k].incoming
      <4>1. u \in Seq(Rows) /\ v \in Seq(Rows) /\ M = u \o v /\ Len(u) \in Nat
        BY <1>5, MembersType DEF Members
      <4>2. ~(n <= Len(u))
        BY <1>2, <1>3, <3>1 DEF Current
      <4> HIDE DEF u, v
      <4>3. n - Len(u) \in 1..Len(v) /\ v[n - Len(u)] = M[n]
        BY <1>6, <4>1, <4>2
      <4>4. In(v, x)
        BY <1>6, <4>3 DEF In
      <4> QED BY <1>7, <4>4 DEF Newcomer, v
    <3> QED BY <1>20, <3>1 DEF Homed, Left
  <2> DEFINE N == Append(L, e)
  <2>2. /\ Len(L) \in Nat /\ Len(N) = Len(L) + 1 /\ N[Len(L) + 1] = e
        /\ \A j \in 1..Len(L) : N[j] = L[j] /\ j \in 1..Len(N)
        /\ Len(L) + 1 \in 1..Len(N)
        /\ \A j \in 1..Len(N) : j \in 1..Len(L) \/ j = Len(L) + 1
    OBVIOUS
  <2> HIDE DEF N
  <2>3. \A y : (\E j \in 1..Len(N) : N[j].row = y) <=> (\E j \in 1..Len(L) : L[j].row = y) \/ y = x
    BY <1>20, <2>2
  <2>4. \A i \in 1..Len(M) : ~row'[M[i]].completed =>
          IF i < n + 1 THEN In(pending_rows', M[i]) <=> ~\E j \in 1..Len(N) : N[j].row = M[i]
                       ELSE ~In(pending_rows', M[i])
    <3> SUFFICES ASSUME NEW i \in 1..Len(M), ~row[M[i]].completed
                 PROVE  IF i < n + 1
                          THEN In(pending_rows, M[i]) <=> ~\E j \in 1..Len(N) : N[j].row = M[i]
                          ELSE ~In(pending_rows, M[i])
      BY <1>20
    <3>1. CASE i = n
      <4>1. ~(i < n) /\ i < n + 1 /\ M[i] = x
        BY <1>14, <3>1
      <4> QED BY <1>11, <2>3, <4>1
    <3>2. CASE i # n
      <4>1. M[i] # x /\ (i < n + 1 <=> i < n)
        BY <1>14, <3>2
      <4> QED BY <1>11, <1>12, <2>3, <4>1
    <3> QED BY <3>1, <3>2
  <2>5. \A j \in 1..Len(N) : /\ ~row'[N[j].row].completed
                             /\ \E i \in 1..Len(M) : i < n + 1 /\ M[i] = N[j].row
    <3> SUFFICES ASSUME NEW j \in 1..Len(N)
                 PROVE  /\ ~row[N[j].row].completed
                        /\ \E i \in 1..Len(M) : i < n + 1 /\ M[i] = N[j].row
      BY <1>20
    <3>1. CASE j \in 1..Len(L)
      BY <1>11, <1>14, <2>2, <3>1
    <3>2. CASE j = Len(L) + 1
      BY <1>6, <1>14, <1>20, <2>1, <2>2, <3>2
    <3> QED BY <2>2, <3>1, <3>2
  <2>6. \A j, l \in 1..Len(N) : N[j].row = N[l].row => j = l
    BY <1>11, <1>13, <1>20, <2>2
  <2>7. \A r \in Rows : ~row'[r].completed /\ Pending(r)' =>
          r = x \/ (~row[r].completed /\ Pending(r))
    BY <1>20 DEF Pending
  <2>8. N = loop'.live
    BY <1>20 DEF N
  <2> QED BY <1>16, <2>4, <2>5, <2>6, <2>7, <2>8
<1>21. ASSUME NEW o, loop' = [loop EXCEPT !.at = loop.at + 1,
                                          !.live = Append(loop.live, [row |-> x, old |-> o])]
       PROVE  \E e : e.row = x /\ loop'.live = Append(L, e)
  <2> DEFINE e == [row |-> x, old |-> o]
             N == Append(loop.live, e)
  <2>1. e.row = x
    OBVIOUS
  <2>2. loop'.live = N
    <3> HIDE DEF N
    <3>1. loop' = [loop EXCEPT !.at = loop.at + 1, !.live = N]
      BY <1>21 DEF N
    <3> QED BY <1>6, <3>1 DEF LoopRecord
  <2>3. loop'.live = Append(L, e)
    BY <1>4, <2>2
  <2> HIDE DEF e
  <2> QED BY <2>1, <2>3
<1> QED BY <1>1, <1>17, <1>18, <1>19, <1>20, <1>21, RebuildRowCases, Zenon

(* Every step keeps what the owner knows. *)
LEMMA OwningStep ==
  ASSUME IInv, HInv, [Next]_vars
  PROVE  Owning'
<1>1. TypeOK /\ Shape /\ CompletionAccounting /\ Homed /\ Owning
  BY DEF IInv, HInv, Homed
<1>2. CASE UNCHANGED vars \/ Destroy
  <2>1. /\ SameCompleted /\ loop' = loop /\ pending_rows' = pending_rows
        /\ groups' = groups
    BY <1>2 DEF vars, Destroy, objects, placement, SameCompleted
  <2> QED BY <1>1, <2>1, OwningFrame
<1>3. ASSUME NEW q \in Requests, Client(q) PROVE Owning'
  <2>1. loop' = loop /\ groups' = groups /\ pending_rows' = pending_rows
    BY <1>3 DEF Client, SubmitPrefill, SubmitGenerate, Take, Deliver, Conclude, placement
  <2> QED BY <1>1, <1>3, <2>1, ClientCancels, OwningFrame
<1>4. CASE LoopTop \/ Arrived \/ AdmitDone \/ RunChunk \/ CheckControls \/ EndSweep
  BY <1>1, <1>4, OwningQuiet
<1>5. CASE Admit \/ AdmitRow
  BY <1>1, <1>5, OwningAdmit, OwningAdmitRow
<1>6. CASE (\E a \in Adapters : BeginStep(a)) \/ SampleDone \/ Forward
  BY <1>1, <1>6, OwningBegin
<1>7. CASE RebuildRow \/ RebuildCommit \/ SampleRow
  BY <1>1, <1>7, OwningRebuildRow, OwningCommit, OwningSample
<1>8. CASE StepThrows \/ FailRow \/ FailDone
  BY <1>1, <1>8, OwningThrow, OwningFailRow, OwningFailDone
<1> QED BY <1>2, <1>3, <1>4, <1>5, <1>6, <1>7, <1>8 DEF Next, Loop, Terminated

(* Before anybody has called, nothing is anywhere. *)
LEMMA InitHomes == Init => HInv
<1> SUFFICES ASSUME Init PROVE HInv
  OBVIOUS
<1>1. /\ prefill = <<>> /\ incoming = <<>> /\ pending_rows = <<>>
      /\ loop.arrivals = <<>> /\ loop.chunk = <<>> /\ loop.live = <<>> /\ loop.pc = "top"
      /\ \A q \in Requests : client[q].stage = "new" /\ ~client[q].done
      /\ \A r \in Rows : ~row[r].completed
      /\ \A a \in Adapters : groups[a].rows = <<>> /\ groups[a].incoming = <<>>
  BY DEF Init, EmptyGroup
<1>2. \A a \in Adapters : Members(a) = <<>>
  BY <1>1 DEF Members
<1>3. /\ \A q \in Requests : ~Queued(q) /\ ~Inside(q)
      /\ \A r \in Rows : ~Pending(r) /\ ~Grouped(r)
  BY <1>1, <1>2, SmallIn, Belongs DEF Queued, Pending, Grouped, Inside
<1>4. PrefillQueue
  <2>1. Len(loop.chunk) = 0
    BY <1>1
  <2> QED BY <1>1, <2>1, SmallIn DEF PrefillQueue
<1>5. NoDuplicates /\ OwnGroup
  BY <1>1, <1>2, SmallIn DEF NoDuplicates, OwnGroup
<1>6. Housed /\ Left /\ CallersDone
  BY <1>1, <1>3, Belongs DEF Housed, Left, CallersDone
<1>7. Owning
  BY <1>1, <1>3 DEF Owning, Paused, Building, Running, FailedSoFar, Idle
<1> QED BY <1>4, <1>5, <1>6, <1>7 DEF HInv

(* Where the rows are is known throughout. *)
LEMMA HomesInductive == Spec => [](IInv /\ HInv)
<1>1. Init => IInv /\ HInv
  BY InitType, InitRest, InitHomes DEF IInv
<1>2. ASSUME IInv /\ HInv, [Next]_vars PROVE (IInv /\ HInv)'
  <2>1. IInv'
    BY <1>2, TypeStep, ShapeStep, AccountingStep, CapacityStep DEF IInv
  <2>2. PrefillQueue'
    BY <1>2, PrefillStep DEF IInv, HInv
  <2>3. Homed'
    BY <1>2, HomesStep
  <2>4. CallersDone'
    BY <1>2, CallersDoneStep DEF HInv
  <2>5. Owning'
    BY <1>2, OwningStep
  <2> QED BY <2>1, <2>2, <2>3, <2>4, <2>5 DEF HInv, Homed
<1> QED BY <1>1, <1>2, PTL DEF Spec

(* A row is at most once in the group of its own key, and in no other. *)
LEMMA PlacesOf ==
  ASSUME Homed, NEW r \in Rows
  PROVE  Cardinality({p \in Places : Members(p[1])[p[2]] = r}) = IF Grouped(r) THEN 1 ELSE 0
<1> DEFINE k == AdapterOf[Owner[r]]
           S == {p \in Places : Members(p[1])[p[2]] = r}
<1>1. ASSUME NEW p \in S
      PROVE  /\ In(Members(k), r)
             /\ \E i \in 1..Len(Members(k)) : p = <<k, i>> /\ Members(k)[i] = r
  <2>1. PICK a \in Adapters : \E i \in 1..Len(Members(a)) : p = <<a, i>>
    BY PlacesIs
  <2>2. PICK i \in 1..Len(Members(a)) : p = <<a, i>>
    BY <2>1
  <2>3. Members(a)[i] = r
    BY <2>2
  <2>4. In(Members(a), r)
    BY <2>3 DEF In
  <2>5. a = k
    BY <2>4 DEF Homed, OwnGroup
  <2> QED BY <2>2, <2>3, <2>4, <2>5
<1>2. CASE ~Grouped(r)
  <2>1. S = {}
    BY <1>1, <1>2 DEF Grouped
  <2> QED BY <1>2, <2>1, FS_EmptySet
<1>3. CASE Grouped(r)
  <2>1. PICK i \in 1..Len(Members(k)) : Members(k)[i] = r
    BY <1>3 DEF Grouped, In
  <2>2. <<k, i>> \in S
    BY <2>1, Belongs, PlacesIs
  <2>3. \A j \in 1..Len(Members(k)) : Members(k)[j] = r => j = i
    BY <2>1, Belongs DEF Homed, NoDuplicates, NoRepeat
  <2>4. S = {<<k, i>>}
    BY <1>1, <2>2, <2>3
  <2> QED BY <1>3, <2>4, FS_Singleton
<1> QED BY <1>2, <1>3

(* A row that is still to complete is in exactly one place, whatever calls  *)
(* arrive, pause, fail, are cancelled or shut down around it.               *)
THEOREM RowsHaveOneHome == Spec => []RowHasOneHome
<1>1. IInv /\ HInv => RowHasOneHome
  <2> SUFFICES ASSUME TypeOK, HInv, NEW r \in Rows, ~row[r].completed
               PROVE  IF loop.pc \in {"rebuild", "fail"} /\ r \in ToSet(Members(loop.cur))
                        THEN Inside(Owner[r]) /\ Homes(r) = IF r \in ToSet(pending_rows)
                                                               THEN 2 ELSE 1
                        ELSE Homes(r) = IF Inside(Owner[r]) THEN 1 ELSE 0
    BY DEF IInv, RowHasOneHome, Inside
  <2> DEFINE q == Owner[r]
             c1 == Cardinality({i \in 1..Len(incoming) : incoming[i] = q})
             c2 == Cardinality({i \in 1..Len(loop.arrivals) : loop.arrivals[i] = q})
             c3 == Cardinality({i \in 1..Len(pending_rows) : pending_rows[i] = r})
             c4 == Cardinality({p \in Places : Members(p[1])[p[2]] = r})
  <2>1. /\ c1 = IF In(incoming, q) THEN 1 ELSE 0
        /\ c2 = IF In(loop.arrivals, q) THEN 1 ELSE 0
        /\ c3 = IF Pending(r) THEN 1 ELSE 0
    BY CountOnce DEF HInv, NoDuplicates, Pending
  <2>2. c4 = IF Grouped(r) THEN 1 ELSE 0
    BY PlacesOf DEF HInv, Homed
  <2>3. Homes(r) = c1 + c2 + c3 + c4
    BY DEF Homes
  <2> HIDE DEF c1, c2, c3, c4
  <2>4. /\ Inside(q) <=> Queued(q) \/ Pending(r) \/ Grouped(r)
        /\ Queued(q) => ~Pending(r) /\ ~Grouped(r)
        /\ Queued(q) <=> In(incoming, q) \/ In(loop.arrivals, q)
        /\ ~(In(incoming, q) /\ In(loop.arrivals, q))
    BY Belongs DEF HInv, Housed, NoDuplicates, Queued
  <2>5. r \in ToSet(pending_rows) <=> Pending(r)
    <3>1. pending_rows \in Seq(Rows)
      BY DEF TypeOK
    <3> QED BY <3>1 DEF ToSet, Pending, In
  <2>6. loop.cur \in Adapters /\ Members(loop.cur) \in Seq(Rows)
    BY MembersType DEF TypeOK, LoopRecord
  <2>7. r \in ToSet(Members(loop.cur)) <=> In(Members(loop.cur), r)
    BY <2>6 DEF ToSet, In
  <2>8. In(Members(loop.cur), r) <=> loop.cur = AdapterOf[q] /\ Grouped(r)
    BY <2>6 DEF HInv, OwnGroup, Grouped
  <2>9. Pending(r) /\ Grouped(r) => loop.pc \in {"rebuild", "fail"} /\ loop.cur = AdapterOf[q]
    BY DEF HInv, Owning, Paused
  <2>10. CASE loop.pc \in {"rebuild", "fail"} /\ r \in ToSet(Members(loop.cur))
    BY <2>1, <2>2, <2>3, <2>4, <2>5, <2>7, <2>8, <2>10
  <2>11. CASE ~(loop.pc \in {"rebuild", "fail"} /\ r \in ToSet(Members(loop.cur)))
    <3>1. ~(Pending(r) /\ Grouped(r))
      BY <2>7, <2>8, <2>9, <2>11
    <3> QED BY <2>1, <2>2, <2>3, <2>4, <2>11, <3>1
  <2> QED BY <2>10, <2>11
<1> QED BY <1>1, HomesInductive, PTL

(* generate() returns only after the owner has let go of its rows. *)
THEOREM CallersOutliveRows == Spec => []CallerOutlivesRows
<1>1. IInv /\ HInv => CallerOutlivesRows
  <2> SUFFICES ASSUME TypeOK, HInv PROVE CallerOutlivesRows
    BY DEF IInv
  <2>1. ASSUME NEW r \in Rows, ~row[r].completed,
               Pending(r) \/ \E a \in Adapters : In(Members(a), r)
        PROVE  client[Owner[r]].stage \notin Ended
    <3>1. Pending(r) \/ Grouped(r)
      BY <2>1 DEF HInv, OwnGroup, Grouped
    <3>2. Inside(Owner[r])
      BY <2>1, <3>1 DEF HInv, Housed
    <3> QED BY <3>2 DEF Inside, Ended
  <2>2. ASSUME NEW r, r \in Resident
        PROVE  r \in Rows /\ (Pending(r) \/ \E a \in Adapters : In(Members(a), r))
    <3>1. CASE r \in ToSet(pending_rows)
      <4>1. pending_rows \in Seq(Rows)
        BY DEF TypeOK
      <4> QED BY <3>1, <4>1 DEF ToSet, Pending, In
    <3>2. ASSUME NEW a \in Adapters, r \in ToSet(Members(a))
          PROVE  r \in Rows /\ In(Members(a), r)
      <4>1. Members(a) \in Seq(Rows)
        BY MembersType
      <4> QED BY <3>2, <4>1 DEF ToSet, In
    <3>3. r \in ToSet(pending_rows) \/ \E a \in Adapters : r \in ToSet(Members(a))
      BY <2>2 DEF Resident
    <3> QED BY <3>1, <3>2, <3>3
  <2>3. \A r \in Resident : client[Owner[r]].stage \in Ended => row[r].completed
    BY <2>1, <2>2
  <2>4. ASSUME loop.pc # "fail", NEW j \in 1..Len(loop.live)
        PROVE  client[Owner[loop.live[j].row]].stage \notin Ended
    <3>1. loop.pc = "rebuild"
      BY <2>4 DEF HInv, Owning, Idle
    <3>2. loop.cur \in Adapters /\ Members(loop.cur) \in Seq(Rows)
      BY MembersType DEF TypeOK, LoopRecord
    <3>3. PICK i \in 1..Len(Members(loop.cur)) : Members(loop.cur)[i] = loop.live[j].row
      BY <3>1 DEF HInv, Owning, Building
    <3>4. PICK r \in Rows : r = loop.live[j].row /\ In(Members(loop.cur), r)
      BY <3>2, <3>3 DEF In
    <3>5. ~row[r].completed
      BY <3>1, <3>4 DEF HInv, Owning, Building
    <3> QED BY <2>1, <3>2, <3>4, <3>5
  <2>5. ASSUME loop.pc \in {"sample", "forward"}, NEW r \in ToSet(Current.rows)
        PROVE  client[Owner[r]].stage \notin Ended
    <3>1. /\ loop.cur \in Adapters
          /\ groups[loop.cur].rows \in Seq(Rows) /\ groups[loop.cur].incoming \in Seq(Rows)
      BY MembersType DEF TypeOK, LoopRecord
    <3>2. In(Current.rows, r) /\ r \in Rows /\ ~row[r].completed
      BY <2>5, <3>1 DEF ToSet, In, Current, HInv, Owning, Running
    <3>3. In(Members(loop.cur), r)
      BY <3>1, <3>2, ConcatIn DEF Members, Current
    <3> QED BY <2>1, <3>1, <3>2, <3>3
  <2> QED BY <2>3, <2>4, <2>5 DEF CallerOutlivesRows
<1> QED BY <1>1, HomesInductive, PTL

-----------------------------------------------------------------------------
(* What a call gets.  The group being stepped is the only one whose state   *)
(* may lag behind the tokens of its rows.                                   *)
Sampled(a, i) ==
  /\ a = loop.cur
  /\ \/ loop.pc = "sample" /\ i < loop.at
     \/ loop.pc = "rebuild" /\ loop.pass = 2
     \/ loop.pc = "forward"

(* The slot of a row that is still to complete is its own; it has consumed  *)
(* and remembers the row's tokens, but for the one just sampled.           *)
Fits(r, s, sampled) ==
  ~row[r].completed =>
    /\ s.of = r
    /\ ~sampled => s.fed = row[r].step
    /\ sampled /\ row[r].finished => s.fed = row[r].step
    /\ sampled /\ ~row[r].finished => s.fed + 1 = row[r].step
    /\ ~(sampled /\ row[r].finished) => s.hist = row[r].step
SlotTrue(a, i) == Fits(groups[a].rows[i], groups[a].slots[i], Sampled(a, i))
Failed(a) == loop.pc = "fail" /\ a = loop.cur
SlotsMatch ==
  \A a \in Adapters : ~Failed(a) => \A i \in 1..Len(groups[a].rows) : SlotTrue(a, i)
Unfinished ==
  loop.pc \in {"sample", "forward"} =>
    \A i \in 1..Len(Current.rows) :
      loop.pc = "forward" \/ loop.at <= i => ~row[Current.rows[i]].finished

(* A row that is outside the groups continues from what the request holds. *)
Away(r) == Pending(r) \/ ~In(groups[AdapterOf[Owner[r]]].rows, r)
AwayMatch ==
  \A r \in Rows : ~row[r].completed /\ Away(r) =>
    /\ exported[r].fed = row[r].step /\ row[r].saved_sampler = row[r].step
    /\ ~row[r].finished
OwnExport == \A r \in Rows : exported[r].of = r

(* The members rebuild() keeps: where they come from. *)
KeptFrom ==
  loop.pc = "rebuild" =>
    \A k \in 1..Len(loop.live) :
      LET l == loop.live[k]
      IN  /\ ~row[l.row].finished
          /\ l.old > 0 => Current.rows[l.old] = l.row
          /\ l.old = 0 => In(Current.incoming, l.row)
NoneIncoming ==
  loop.pc \in {"sample", "forward"} \/ (loop.pc = "rebuild" /\ loop.pass # 1) =>
    Current.incoming = <<>>

StateMatch == SlotsMatch /\ Unfinished /\ AwayMatch /\ OwnExport /\ KeptFrom /\ NoneIncoming

(* The events a caller holds or will take. *)
Stream(q) == client[q].batch \o req[q].events
EventsTrue ==
  \A q \in Requests : \A i \in 1..Len(Stream(q)) :
    LET e == Stream(q)[i]
    IN  /\ Owner[e.row] = q
        /\ e.stop => row[e.row].completed
        /\ ~e.stop => e.tokens > 0
Flushed == \A r \in Rows : row[r].completed => row[r].pending = 0
CallEnds ==
  \A q \in Requests :
    /\ client[q].stage # "delivering" => client[q].batch = <<>>
    /\ client[q].done => req[q].events = <<>>
    /\ client[q].stage = "returned" =>
         client[q].done /\ ~client[q].callback_error /\ ~req[q].error

(* Who cancels. *)
ErrorCancels == \A q \in Requests : req[q].error => req[q].cancelled
ByCaller(r) ==
  LET q == Owner[r]
  IN  req[q].cancelled => ~client[q].accepting \/ client[q].callback_error
CancelledByCallers ==
  /\ loop.pc = "sample" \/ (loop.pc = "rebuild" /\ loop.pass = 2) =>
       \A r \in Rows : In(Current.rows, r) => ByCaller(r)
  /\ loop.pc = "rebuild" /\ loop.pass = 1 => \A r \in Rows : Kept(r) => ByCaller(r)
Steady(q) == client[q].accepting /\ ~client[q].callback_error /\ ~req[q].error
Exact == \A r \in Rows : row[r].completed /\ Steady(Owner[r]) => exported[r].fed = row[r].step
Refused ==
  \A q \in Requests : Len(RowsOf[q]) = 1 /\ ~client[q].callback_error /\ ~req[q].error =>
    LET r == RowsOf[q][1]
    IN  /\ row[r].completed => delivered[r] <= exported[r].fed
        /\ ~row[r].completed /\ ~client[q].accepting => delivered[r] < row[r].step

(* The queue of events. *)
Load(q) == Len(req[q].events) + 2 * req[q].remaining
Low(q)  == Load(q) <= EventLimit - 1 + 2 * Len(RowsOf[q])
SampledRows(q) ==
  {r \in Rows : Owner[r] = q /\ \E i \in 1..Len(Current.rows) : i < loop.at /\ Current.rows[i] = r}
LoadBounded ==
  /\ \A q \in Requests : Load(q) <= EventLimit - 1 + 3 * Len(RowsOf[q])
  /\ \A r \in Rows : Newcomer(r) => Low(Owner[r])
  /\ loop.pc = "rebuild" /\ loop.pass = 1 => \A r \in Rows : Kept(r) => Low(Owner[r])
  /\ loop.pc = "sample" =>
       \A r \in Rows : In(Current.rows, r) =>
         Load(Owner[r]) <= EventLimit - 1 + 2 * Len(RowsOf[Owner[r]])
                             + Cardinality(SampledRows(Owner[r]))

OInv == /\ StateMatch
        /\ EventsTrue /\ Flushed /\ OutputConserved /\ CallEnds /\ StopNoticeIsLast
        /\ ErrorCancels /\ CancelledByCallers /\ Exact /\ Refused
        /\ LoadBounded

-----------------------------------------------------------------------------
(* The rows and slots of a group. *)
LEMMA Position ==
  ASSUME TypeOK, Shape, NEW a \in Adapters, NEW i \in 1..Len(groups[a].rows)
  PROVE  /\ groups[a].rows[i] \in Rows
         /\ groups[a].slots[i] \in Slot
         /\ groups[a].slots[i].fed \in Nat /\ groups[a].slots[i].hist \in Nat
         /\ i \in 1..Len(Members(a)) /\ Members(a)[i] = groups[a].rows[i]
         /\ In(groups[a].rows, groups[a].rows[i]) /\ In(Members(a), groups[a].rows[i])
<1>1. /\ groups[a].rows \in Seq(Rows) /\ groups[a].incoming \in Seq(Rows)
      /\ groups[a].slots \in Seq(Slot) /\ Len(groups[a].slots) = Len(groups[a].rows)
      /\ Len(Members(a)) = Len(groups[a].rows) + Len(groups[a].incoming)
  BY MembersType DEF Shape, SlotPerRow
<1>2. groups[a].rows[i] \in Rows /\ groups[a].slots[i] \in Slot
  BY <1>1
<1>3. groups[a].slots[i].fed \in Nat /\ groups[a].slots[i].hist \in Nat
  BY <1>2 DEF Slot
<1>4. Members(a)[i] = groups[a].rows[i] /\ i \in 1..Len(Members(a))
  <2>1. PICK s \in Seq(Rows), t \in Seq(Rows) : s = groups[a].rows /\ t = groups[a].incoming
    BY <1>1
  <2>2. /\ Len(s \o t) = Len(s) + Len(t)
        /\ \A j \in 1..Len(s \o t) : (s \o t)[j] = IF j <= Len(s) THEN s[j] ELSE t[j - Len(s)]
    OBVIOUS
  <2>3. i \in 1..Len(s) /\ Len(s) \in Nat /\ Len(t) \in Nat
    BY <2>1
  <2>4. i \in 1..Len(s \o t) /\ i <= Len(s)
    BY <2>2, <2>3
  <2>5. (s \o t)[i] = s[i]
    BY <2>2, <2>4
  <2> QED BY <2>1, <2>4, <2>5 DEF Members
<1> QED BY <1>2, <1>3, <1>4 DEF In

(* What a step leaves alone in a row. *)
RowKept(r) ==
  /\ row'[r].step = row[r].step /\ row'[r].pending = row[r].pending
  /\ row'[r].finished = row[r].finished /\ row'[r].completed = row[r].completed
  /\ row'[r].saved_sampler = row[r].saved_sampler
RowsKept == \A r \in Rows : RowKept(r)
(* A row that a step completes or leaves as it is. *)
Unmoved(r) ==
  row'[r].completed \/ ( /\ ~row[r].completed /\ row'[r].step = row[r].step
                         /\ row'[r].finished = row[r].finished )

(* The slots stay true while they stay and no row takes a token. *)
LEMMA SlotsFrame ==
  ASSUME TypeOK, Shape, SlotsMatch,
         \A a \in Adapters : groups'[a].rows = groups[a].rows /\ groups'[a].slots = groups[a].slots,
         \A r \in Rows : Unmoved(r),
         \A a \in Adapters : ~Failed(a)' => ~Failed(a),
         \A a \in Adapters : ~Failed(a)' =>
            \A i \in 1..Len(groups[a].rows) : Sampled(a, i)' <=> Sampled(a, i)
  PROVE  SlotsMatch'
<1> SUFFICES ASSUME NEW a \in Adapters, ~Failed(a)', NEW i \in 1..Len(groups'[a].rows)
             PROVE  SlotTrue(a, i)'
  BY DEF SlotsMatch
<1>1. PICK r \in Rows : r = groups[a].rows[i]
  BY Position
<1>2. PICK s : s = groups[a].slots[i]
  OBVIOUS
<1>3. r = groups'[a].rows[i] /\ s = groups'[a].slots[i] /\ i \in 1..Len(groups[a].rows)
  BY <1>1, <1>2
<1>4. PICK late \in BOOLEAN : late = Sampled(a, i)
  BY DEF Sampled
<1>5. late = Sampled(a, i)'
  BY <1>3, <1>4 DEF Sampled
<1>6. Fits(r, s, late)
  BY <1>1, <1>2, <1>3, <1>4 DEF SlotsMatch, SlotTrue
<1>7. Fits(r, s, late)'
  BY <1>6 DEF Fits, Unmoved
<1> QED BY <1>3, <1>5, <1>7 DEF SlotTrue

(* A row away from the groups stays as it is. *)
LEMMA AwayFrame ==
  ASSUME AwayMatch,
         \A r \in Rows : ~row'[r].completed /\ Away(r)' =>
            /\ ~row[r].completed /\ Away(r)
            /\ exported'[r].fed = exported[r].fed /\ row'[r].step = row[r].step
            /\ row'[r].saved_sampler = row[r].saved_sampler
            /\ row'[r].finished = row[r].finished
  PROVE  AwayMatch'
  BY DEF AwayMatch

(* A step that changes neither the groups nor a row's tokens. *)
LEMMA StateFrame ==
  ASSUME TypeOK, Shape, StateMatch, RowsKept, exported' = exported, groups' = groups,
         loop' = loop, pending_rows' = pending_rows
  PROVE  StateMatch'
<1>1. loop.cur \in Adapters /\ loop \in LoopRecord
  BY DEF TypeOK, LoopRecord
<1>2. SlotsMatch'
  <2>1. \A a \in Adapters : /\ Failed(a)' <=> Failed(a)
                            /\ \A i : Sampled(a, i)' <=> Sampled(a, i)
    BY DEF Failed, Sampled
  <2>2. \A r \in Rows : Unmoved(r)
    BY DEF RowsKept, RowKept, Unmoved
  <2> QED BY <2>1, <2>2, SlotsFrame DEF StateMatch
<1>3. Unfinished'
  <2>1. \A i \in 1..Len(Current.rows) : Current.rows[i] \in Rows
    BY <1>1, Position DEF Current
  <2> QED BY <2>1 DEF StateMatch, Unfinished, RowsKept, RowKept, Current
<1>4. AwayMatch'
  <2>1. \A r \in Rows : Away(r)' <=> Away(r)
    BY DEF Away, Pending
  <2> QED BY <2>1, AwayFrame DEF StateMatch, RowsKept, RowKept
<1>5. OwnExport'
  BY DEF StateMatch, OwnExport
<1>6. KeptFrom'
  <2>1. \A k \in 1..Len(loop.live) : loop.live[k].row \in Rows
    <3>1. loop.live \in Seq(LiveRow)
      BY <1>1 DEF LoopRecord
    <3>2. \A k \in 1..Len(loop.live) : loop.live[k] \in LiveRow
      BY <3>1
    <3> QED BY <3>2 DEF LiveRow
  <2> QED BY <2>1 DEF StateMatch, KeptFrom, Current, RowsKept, RowKept
<1>7. NoneIncoming'
  BY DEF StateMatch, NoneIncoming, Current
<1> QED BY <1>2, <1>3, <1>4, <1>5, <1>6, <1>7 DEF StateMatch
(* The callers change no row and no group. *)
LEMMA ClientState ==
  ASSUME TypeOK, NEW q \in Requests, Client(q)
  PROVE  /\ RowsKept /\ exported' = exported /\ groups' = groups
         /\ loop' = loop /\ pending_rows' = pending_rows
<1>1. row \in [Rows -> RowRecord]
  BY DEF TypeOK
<1>2. CASE SubmitPrefill(q) \/ SubmitGenerate(q) \/ Take(q) \/ Deliver(q)
  BY <1>2 DEF SubmitPrefill, SubmitGenerate, Take, Deliver, objects, placement, RowsKept, RowKept
<1>3. CASE Conclude(q)
  <2>1. row' = row \/ row' = Interrupted(row, q)
    BY <1>3 DEF Conclude
  <2>2. RowsKept
    BY <1>1, <2>1 DEF Interrupted, RowsKept, RowKept, RowRecord
  <2> QED BY <1>3, <2>2 DEF Conclude, placement
<1> QED BY <1>2, <1>3 DEF Client

(* A step that changes no row, no slot and no state, and starts no walk with *)
(* kept members.                                                           *)
LEMMA QuietState ==
  ASSUME TypeOK, Shape, StateMatch, row' = row, exported' = exported, groups' = groups,
         loop'.pc \notin {"sample", "forward"},
         loop'.pc = "rebuild" => loop'.live = <<>>,
         loop'.pc = "rebuild" /\ loop'.pass # 1 => groups[loop'.cur].incoming = <<>>,
         \A r \in Rows : ~row[r].completed /\ Away(r)' => Away(r),
         \A a \in Adapters : ~Failed(a)' => ~Failed(a),
         \A a \in Adapters : ~Failed(a)' =>
            \A i \in 1..Len(groups[a].rows) : Sampled(a, i)' <=> Sampled(a, i)
  PROVE  StateMatch'
<1>1. SlotsMatch'
  <2>1. \A r \in Rows : Unmoved(r)
    BY DEF Unmoved
  <2> QED BY <2>1, SlotsFrame DEF StateMatch
<1>2. Unfinished'
  BY DEF Unfinished
<1>3. AwayMatch'
  BY AwayFrame DEF StateMatch
<1>4. OwnExport'
  BY DEF StateMatch, OwnExport
<1>5. KeptFrom'
  BY DEF KeptFrom
<1>6. NoneIncoming'
  BY DEF NoneIncoming, Current
<1> QED BY <1>1, <1>2, <1>3, <1>4, <1>5, <1>6 DEF StateMatch

(* The owner between two groups, and the beginning of a walk. *)
LEMMA OwnerState ==
  ASSUME TypeOK, Shape, StateMatch,
         \/ LoopTop \/ Arrived \/ AdmitDone \/ RunChunk \/ CheckControls \/ EndSweep
         \/ (\E a \in Adapters : BeginStep(a)) \/ SampleDone \/ StepThrows
  PROVE  StateMatch'
<1>1. loop \in LoopRecord /\ loop.cur \in Adapters
  BY DEF TypeOK, LoopRecord
<1>2. CASE LoopTop \/ Arrived \/ AdmitDone \/ RunChunk \/ CheckControls \/ EndSweep
  <2>1. /\ row' = row /\ exported' = exported /\ groups' = groups /\ pending_rows' = pending_rows
        /\ loop'.pc \notin {"rebuild", "sample", "forward", "fail"}
        /\ loop.pc \notin {"rebuild", "sample", "forward", "fail"}
    BY <1>1, <1>2, Zenon DEF LoopTop, Arrived, AdmitDone, RunChunk, CheckControls, EndSweep,
       objects, placement, LoopRecord
  <2>2. \A a \in Adapters : ~Failed(a) /\ \A i : ~Sampled(a, i) /\ ~Sampled(a, i)'
    BY <2>1 DEF Failed, Sampled
  <2>3. \A r \in Rows : Away(r)' => Away(r)
    BY <2>1 DEF Away, Pending
  <2> QED BY <2>1, <2>2, <2>3, QuietState
<1>3. ASSUME NEW a \in Adapters, BeginStep(a) PROVE StateMatch'
  <2>1. /\ row' = row /\ exported' = exported /\ groups' = groups /\ pending_rows' = pending_rows
        /\ loop'.pc = "rebuild" /\ loop'.pass = 1 /\ loop'.live = <<>> /\ loop.pc = "sweep"
    BY <1>1, <1>3, Zenon DEF BeginStep, objects, placement, LoopRecord
  <2>2. \A b \in Adapters : ~Failed(b) /\ \A i : ~Sampled(b, i) /\ ~Sampled(b, i)'
    BY <2>1 DEF Failed, Sampled
  <2>3. \A r \in Rows : Away(r)' => Away(r)
    BY <2>1 DEF Away, Pending
  <2> QED BY <2>1, <2>2, <2>3, QuietState
<1>4. CASE SampleDone
  <2>1. /\ row' = row /\ exported' = exported /\ groups' = groups /\ pending_rows' = pending_rows
        /\ loop'.pc = "rebuild" /\ loop'.pass = 2 /\ loop'.live = <<>> /\ loop'.cur = loop.cur
        /\ loop.pc = "sample" /\ loop.at > Len(groups[loop.cur].rows)
    BY <1>1, <1>4 DEF SampleDone, objects, placement, LoopRecord, Current
  <2>2. \A b \in Adapters : ~Failed(b) /\
           \A i \in 1..Len(groups[b].rows) : Sampled(b, i)' <=> Sampled(b, i)
    <3>1. groups[loop.cur].rows \in Seq(Rows) /\ loop.at \in Nat
      BY <1>1, MembersType DEF LoopRecord
    <3>2. \A i \in 1..Len(groups[loop.cur].rows) : i < loop.at
      BY <2>1, <3>1
    <3> QED BY <2>1, <3>2 DEF Failed, Sampled
  <2>3. \A r \in Rows : Away(r)' => Away(r)
    BY <2>1 DEF Away, Pending
  <2>4. groups[loop.cur].incoming = <<>>
    BY <2>1 DEF StateMatch, NoneIncoming, Current
  <2> QED BY <2>1, <2>2, <2>3, <2>4, QuietState
<1>5. CASE StepThrows
  <2>1. /\ row' = row /\ exported' = exported /\ groups' = groups /\ pending_rows' = pending_rows
        /\ loop'.pc = "fail" /\ loop'.cur = loop.cur /\ loop.pc \in {"rebuild", "sample", "forward"}
    BY <1>1, <1>5 DEF StepThrows, objects, placement, LoopRecord
  <2>2. \A b \in Adapters : ~Failed(b) /\ (~Failed(b)' => \A i : ~Sampled(b, i) /\ ~Sampled(b, i)')
    BY <2>1 DEF Failed, Sampled
  <2>3. \A r \in Rows : Away(r)' => Away(r)
    BY <2>1 DEF Away, Pending
  <2> QED BY <2>1, <2>2, <2>3, QuietState
<1> QED BY <1>2, <1>3, <1>4, <1>5
(* A group's members are its rows and the ones to join, apart. *)
LEMMA Parts ==
  ASSUME TypeOK, NEW a \in Adapters, NEW r
  PROVE  /\ In(Members(a), r) <=> In(groups[a].rows, r) \/ In(groups[a].incoming, r)
         /\ NoRepeat(Members(a)) => ~(In(groups[a].rows, r) /\ In(groups[a].incoming, r))
         /\ NoRepeat(Members(a)) => NoRepeat(groups[a].rows)
<1>1. PICK s \in Seq(Rows), t \in Seq(Rows) : s = groups[a].rows /\ t = groups[a].incoming
  BY MembersType
<1>2. Members(a) = s \o t
  BY <1>1 DEF Members
<1>3. In(s \o t, r) <=> In(s, r) \/ In(t, r)
  BY ConcatIn
<1>4. /\ Len(s \o t) = Len(s) + Len(t) /\ Len(s) \in Nat /\ Len(t) \in Nat
      /\ \A j \in 1..Len(s \o t) : (s \o t)[j] = IF j <= Len(s) THEN s[j] ELSE t[j - Len(s)]
  OBVIOUS
<1>5. ASSUME NoRepeat(s \o t), NEW i \in 1..Len(s), NEW j \in 1..Len(t), s[i] = t[j]
      PROVE  FALSE
  <2>1. i \in 1..Len(s \o t) /\ Len(s) + j \in 1..Len(s \o t) /\ i # Len(s) + j
    BY <1>4
  <2>2. (s \o t)[i] = s[i] /\ (s \o t)[Len(s) + j] = t[j]
    BY <1>4, <2>1
  <2> QED BY <1>5, <2>1, <2>2 DEF NoRepeat
<1>6. NoRepeat(s \o t) => ~(In(s, r) /\ In(t, r))
  BY <1>5 DEF In
<1>7. NoRepeat(s \o t) => NoRepeat(s)
  <2> SUFFICES ASSUME NoRepeat(s \o t), NEW i \in 1..Len(s), NEW j \in 1..Len(s), s[i] = s[j]
               PROVE  i = j
    BY DEF NoRepeat
  <2>1. i \in 1..Len(s \o t) /\ j \in 1..Len(s \o t)
    BY <1>4
  <2>2. (s \o t)[i] = s[i] /\ (s \o t)[j] = s[j]
    BY <1>4, <2>1
  <2> QED BY <2>1, <2>2 DEF NoRepeat
<1> QED BY <1>1, <1>2, <1>3, <1>6, <1>7

(* What complete() does to the rows. *)
LEMMA CompleteRowIs ==
  ASSUME TypeOK, NEW x \in Rows, NEW c \in BOOLEAN
  PROVE  \A s \in Rows :
           LET n == CompleteRow(x, c)[s]
           IN  /\ n.completed <=> (s = x \/ row[s].completed)
               /\ n.step = row[s].step /\ n.finished = row[s].finished
               /\ n.saved_sampler = row[s].saved_sampler
               /\ s # x => n.pending = row[s].pending
               /\ s = x => n.pending = IF row[x].completed THEN row[x].pending ELSE 0
<1>1. row \in [Rows -> RowRecord]
  BY DEF TypeOK
<1>2. PICK o \in RowRecord : o = [row[x] EXCEPT !.completed = TRUE, !.pending = 0, !.buffered = 0]
  BY <1>1 DEF RowRecord
<1>3. /\ o.completed /\ o.pending = 0 /\ o.step = row[x].step /\ o.finished = row[x].finished
      /\ o.saved_sampler = row[x].saved_sampler
  BY <1>1, <1>2 DEF RowRecord
<1>4. PICK rw : rw = [row EXCEPT ![x].completed = TRUE, ![x].pending = 0, ![x].buffered = 0]
  OBVIOUS
<1>5. rw = [row EXCEPT ![x] = o]
  BY <1>1, <1>2, <1>4 DEF RowRecord
<1>6. rw \in [Rows -> RowRecord] /\ \A s \in Rows : rw[s] = IF s = x THEN o ELSE row[s]
  BY <1>1, <1>2, <1>5
<1>7. \A s \in Rows :
        LET n == Interrupted(rw, Owner[x])[s]
        IN  /\ n.completed = rw[s].completed /\ n.step = rw[s].step
            /\ n.finished = rw[s].finished /\ n.saved_sampler = rw[s].saved_sampler
            /\ n.pending = rw[s].pending
  BY <1>6 DEF Interrupted, RowRecord
<1>8. CompleteRow(x, c) \in {row, rw, Interrupted(rw, Owner[x])} /\ (CompleteRow(x, c) = row <=> row[x].completed)
  <2>1. rw # row \/ row[x].completed
    BY <1>3, <1>6
  <2>2. Interrupted(rw, Owner[x]) # row \/ row[x].completed
    BY <1>3, <1>6, <1>7
  <2>3. CompleteRow(x, c) = IF row[x].completed THEN row
                            ELSE IF c THEN Interrupted(rw, Owner[x]) ELSE rw
    BY <1>4 DEF CompleteRow
  <2> QED BY <2>1, <2>2, <2>3
<1>9. CASE row[x].completed
  BY <1>8, <1>9
<1>10. CASE ~row[x].completed
  <2>1. CompleteRow(x, c) = rw \/ CompleteRow(x, c) = Interrupted(rw, Owner[x])
    BY <1>8, <1>10
  <2>2. \A s \in Rows :
        LET n == CompleteRow(x, c)[s]
        IN  /\ n.completed = rw[s].completed /\ n.step = rw[s].step
            /\ n.finished = rw[s].finished /\ n.saved_sampler = rw[s].saved_sampler
            /\ n.pending = rw[s].pending
    BY <1>7, <2>1
  <2> QED BY <1>3, <1>6, <1>10, <2>2
<1> QED BY <1>9, <1>10

(* An arrived request's rows become pending: they were in no group. *)
LEMMA AdmitState ==
  ASSUME TypeOK, Shape, Homed, StateMatch, Admit
  PROVE  StateMatch'
<1>1. PICK q : q = Head(loop.arrivals)
  OBVIOUS
<1>2. /\ loop \in LoopRecord /\ loop.arrivals \in Seq(Requests) /\ loop.arrivals # <<>>
      /\ pending_rows \in Seq(Rows)
  BY DEF TypeOK, LoopRecord, Admit
<1>3. /\ row' = row /\ exported' = exported /\ groups' = groups
      /\ pending_rows' = pending_rows \o RowsOf[q]
      /\ loop.pc = "arrive" /\ loop'.pc = "arrive"
  BY <1>1, <1>2 DEF Admit, LoopRecord, objects
<1>4. q \in Requests /\ Queued(q)
  <2>1. 1 \in 1..Len(loop.arrivals) /\ loop.arrivals[1] = q /\ q \in Requests
    BY <1>1, <1>2
  <2> QED BY <2>1 DEF Queued, In
<1>5. \A a \in Adapters : ~Failed(a) /\ \A i : ~Sampled(a, i) /\ ~Sampled(a, i)'
  BY <1>3 DEF Failed, Sampled
<1>6. ASSUME NEW r \in Rows, ~row[r].completed, Away(r)' PROVE Away(r)
  <2>1. In(pending_rows', r) <=> In(pending_rows, r) \/ Owner[r] = q
    <3>1. RowsOf[q] \in Seq(Rows) /\ (In(RowsOf[q], r) <=> Owner[r] = q)
      BY <1>4, RowsOfFacts
    <3> QED BY <1>2, <1>3, <3>1, ConcatIn
  <2>2. CASE Owner[r] = q
    <3>1. ~Grouped(r)
      BY <1>4, <1>6, <2>2 DEF Homed, Housed
    <3>2. ~In(groups[AdapterOf[Owner[r]]].rows, r)
      BY <3>1, Parts, Belongs DEF Grouped
    <3> QED BY <3>2 DEF Away
  <2>3. CASE Owner[r] # q
    BY <1>3, <1>6, <2>1, <2>3 DEF Away, Pending
  <2> QED BY <2>2, <2>3
<1> QED BY <1>3, <1>5, <1>6, QuietState

(* A step that leaves the groups' rows and slots and the place of the walk. *)
LEMMA MovedState ==
  ASSUME TypeOK, Shape, StateMatch,
         \A a \in Adapters : groups'[a].rows = groups[a].rows /\ groups'[a].slots = groups[a].slots,
         \A r \in Rows : Unmoved(r),
         loop.pc \notin {"sample", "forward"},
         loop'.pc = loop.pc, loop'.cur = loop.cur, loop'.pass = loop.pass,
         AwayMatch', OwnExport', KeptFrom', NoneIncoming'
  PROVE  StateMatch'
<1>1. \A a \in Adapters : /\ Failed(a)' <=> Failed(a)
                          /\ \A i : Sampled(a, i)' <=> Sampled(a, i)
  BY DEF Failed, Sampled
<1>2. SlotsMatch'
  BY <1>1, SlotsFrame DEF StateMatch
<1>3. Unfinished'
  BY DEF Unfinished
<1> QED BY <1>2, <1>3 DEF StateMatch

(* admit_pending() drops, leaves or admits one pending row. *)
LEMMA AdmitRowState ==
  ASSUME TypeOK, Shape, Homed, StateMatch, AdmitRow
  PROVE  StateMatch'
<1>1. PICK x \in Rows : x = pending_rows[loop.at]
  BY AdmitRowFacts
<1>2. loop.at \in 1..Len(pending_rows) /\ Pending(x) /\ loop \in LoopRecord
  BY <1>1, AdmitRowFacts DEF TypeOK
<1>3. /\ exported' = exported /\ loop.pc = "admit"
      /\ loop'.pc = "admit" /\ loop'.cur = loop.cur /\ loop'.pass = loop.pass
  BY <1>2 DEF AdmitRow, LoopRecord
<1>4. row' = row \/ row' = CompleteRow(x, req[Owner[x]].cancelled)
  BY <1>1, Zenon DEF AdmitRow
<1>5. \A s \in Rows : /\ row[s].completed => row'[s].completed
                      /\ row'[s].step = row[s].step /\ row'[s].finished = row[s].finished
                      /\ row'[s].saved_sampler = row[s].saved_sampler
  <2>1. req[Owner[x]].cancelled \in BOOLEAN
    BY Belongs DEF TypeOK, RequestRecord
  <2> QED BY <1>4, <2>1, CompleteRowIs
<1>6. \A s \in Rows : Unmoved(s)
  BY <1>5 DEF Unmoved
<1>7. \A a \in Adapters : groups'[a].rows = groups[a].rows /\ groups'[a].slots = groups[a].slots
  <2>1. groups \in [Adapters -> Group]
    BY DEF TypeOK
  <2>2. groups' = groups \/ \E k, t : groups' = [groups EXCEPT ![k].incoming = t]
    BY Zenon DEF AdmitRow, placement
  <2> QED BY <2>1, <2>2, Zenon DEF Group
<1>8. \A y : In(pending_rows', y) => In(pending_rows, y)
  <2>1. pending_rows \in Seq(Rows) /\ NoRepeat(pending_rows)
    BY DEF TypeOK, Homed, NoDuplicates
  <2>2. pending_rows' = pending_rows \/ pending_rows' = RemoveAt(pending_rows, loop.at)
    BY Zenon DEF AdmitRow, placement
  <2> QED BY <1>2, <2>1, <2>2, RemoveFacts
<1>9. \A r \in Rows : Away(r)' => Away(r)
  BY <1>7, <1>8, Belongs DEF Away, Pending
<1>10. AwayMatch'
  BY <1>3, <1>5, <1>9, AwayFrame DEF StateMatch
<1>11. OwnExport'
  BY <1>3 DEF StateMatch, OwnExport
<1>12. KeptFrom' /\ NoneIncoming'
  BY <1>3 DEF KeptFrom, NoneIncoming
<1> QED BY <1>3, <1>6, <1>7, <1>10, <1>11, <1>12, MovedState

(* fail() completes one member. *)
LEMMA FailRowState ==
  ASSUME TypeOK, Shape, StateMatch, FailRow
  PROVE  StateMatch'
<1>1. PICK x \in Rows : x = Members(loop.cur)[loop.at]
  BY MemberAt, Zenon
<1>2. /\ exported' = exported /\ groups' = groups /\ pending_rows' = pending_rows
      /\ loop.pc = "fail" /\ loop'.pc = "fail" /\ loop'.cur = loop.cur /\ loop'.pass = loop.pass
  BY DEF FailRow, placement, TypeOK, LoopRecord
<1>3. row' = CompleteRow(x, TRUE)
  BY <1>1 DEF FailRow
<1>4. \A s \in Rows : /\ row[s].completed => row'[s].completed
                      /\ row'[s].step = row[s].step /\ row'[s].finished = row[s].finished
                      /\ row'[s].saved_sampler = row[s].saved_sampler
  <2>1. PICK c \in BOOLEAN : c = TRUE
    OBVIOUS
  <2>2. row' = CompleteRow(x, c)
    BY <1>3, <2>1
  <2> QED BY <2>2, CompleteRowIs
<1>5. \A s \in Rows : Unmoved(s)
  BY <1>4 DEF Unmoved
<1>6. \A r \in Rows : Away(r)' => Away(r)
  BY <1>2 DEF Away, Pending
<1>7. AwayMatch'
  BY <1>2, <1>4, <1>6, AwayFrame DEF StateMatch
<1>8. OwnExport' /\ KeptFrom' /\ NoneIncoming'
  BY <1>2 DEF StateMatch, OwnExport, KeptFrom, NoneIncoming
<1> QED BY <1>2, <1>5, <1>7, <1>8, MovedState
(* One slot that stays, with its row. *)
LEMMA SlotStays ==
  ASSUME NEW a, NEW i, NEW r \in Rows, r = groups[a].rows[i], SlotTrue(a, i),
         groups'[a].rows[i] = r, groups'[a].slots[i] = groups[a].slots[i],
         Unmoved(r), Sampled(a, i)' <=> Sampled(a, i)
  PROVE  SlotTrue(a, i)'
<1>1. PICK s : s = groups[a].slots[i]
  OBVIOUS
<1>2. PICK late \in BOOLEAN : late = Sampled(a, i)
  BY DEF Sampled
<1>3. late = Sampled(a, i)'
  BY <1>2 DEF Sampled
<1>4. Fits(r, s, late)
  BY <1>1, <1>2 DEF SlotTrue
<1>5. Fits(r, s, late)'
  BY <1>4 DEF Fits, Unmoved
<1> QED BY <1>1, <1>3, <1>5 DEF SlotTrue

(* fail() empties the group, all of whose members have completed. *)
LEMMA FailDoneState ==
  ASSUME TypeOK, Shape, Homed, Owning, StateMatch, FailDone
  PROVE  StateMatch'
<1>1. PICK k \in Adapters : k = loop.cur
  BY DEF TypeOK, LoopRecord
<1>2. /\ loop.pc = "fail" /\ loop.at \in Nat /\ loop.at > Len(Members(k))
      /\ Members(k) \in Seq(Rows) /\ groups \in [Adapters -> Group]
      /\ groups' = [groups EXCEPT ![k] = EmptyGroup]
      /\ row' = row /\ exported' = exported /\ pending_rows' = pending_rows
      /\ loop'.pc = "sweep" /\ loop \in LoopRecord
  BY <1>1, MembersType DEF FailDone, TypeOK, LoopRecord, objects
<1>3. groups'[k].rows = <<>> /\ \A a \in Adapters : a # k => groups'[a] = groups[a]
  BY <1>2 DEF EmptyGroup
<1>4. \A r \in Rows : In(Members(k), r) => row[r].completed
  <2> SUFFICES ASSUME NEW i \in 1..Len(Members(k)) PROVE row[Members(k)[i]].completed
    BY DEF In
  <2>1. i < loop.at
    BY <1>2
  <2> QED BY <1>1, <1>2, <2>1 DEF Owning, FailedSoFar
<1>5. SlotsMatch'
  <2> SUFFICES ASSUME NEW a \in Adapters, NEW i \in 1..Len(groups'[a].rows) PROVE SlotTrue(a, i)'
    BY DEF SlotsMatch
  <2>1. a # k /\ groups'[a] = groups[a]
    BY <1>3
  <2>2. i \in 1..Len(groups[a].rows) /\ ~Failed(a)
    BY <1>1, <2>1 DEF Failed
  <2>3. SlotTrue(a, i) /\ groups[a].rows[i] \in Rows
    BY <2>2, Position DEF StateMatch, SlotsMatch
  <2>4. Sampled(a, i)' <=> Sampled(a, i)
    BY <1>2 DEF Sampled
  <2>5. Unmoved(groups[a].rows[i])
    BY <1>2, <2>3 DEF Unmoved
  <2> QED BY <2>1, <2>3, <2>4, <2>5, SlotStays
<1>6. ASSUME NEW r \in Rows, ~row[r].completed, Away(r)' PROVE Away(r)
  <2>1. CASE AdapterOf[Owner[r]] = k
    <3>1. ~In(groups[k].rows, r)
      BY <1>1, <1>4, <1>6, Parts
    <3> QED BY <2>1, <3>1 DEF Away
  <2>2. CASE AdapterOf[Owner[r]] # k
    BY <1>2, <1>3, <1>6, <2>2, Belongs DEF Away, Pending
  <2> QED BY <2>1, <2>2
<1>7. AwayMatch'
  BY <1>2, <1>6, AwayFrame DEF StateMatch
<1>8. Unfinished' /\ OwnExport' /\ KeptFrom' /\ NoneIncoming'
  BY <1>2 DEF StateMatch, Unfinished, OwnExport, KeptFrom, NoneIncoming
<1> QED BY <1>5, <1>7, <1>8 DEF StateMatch

(* What step() does to the row it samples. *)
LEMMA SampleRowIs ==
  ASSUME TypeOK, Shape, SampleRow, NEW x \in Rows, x = Current.rows[loop.at]
  PROVE  /\ \A s \in Rows : s # x => row'[s] = row[s]
         /\ row'[x].completed = row[x].completed
         /\ row'[x].saved_sampler = row[x].saved_sampler
         /\ \/ /\ row'[x].step = row[x].step /\ row'[x].finished
               /\ row'[x].pending = row[x].pending /\ req' = req
            \/ /\ row'[x].step = row[x].step + 1 /\ row'[x].finished = row[x].finished
               /\ row'[x].pending \in 0..(row[x].pending + 1)
               /\ \E e, t : /\ e = TextEvent(x, (row[x].pending + 1) - row'[x].pending)
                            /\ t = req[Owner[x]].events \o e
                            /\ req' = [req EXCEPT ![Owner[x]].events = t]
<1>1. row \in [Rows -> RowRecord]
  BY DEF TypeOK
<1>2. SampleEos(x) \/ SampleToken(x)
  BY DEF SampleRow
<1>3. CASE SampleEos(x)
  <2>1. row' = [row EXCEPT ![x].reason = "stop", ![x].finished = TRUE] /\ req' = req
    BY <1>3 DEF SampleEos
  <2>2. PICK o : o = [row[x] EXCEPT !.reason = "stop", !.finished = TRUE]
    OBVIOUS
  <2>3. row' = [row EXCEPT ![x] = o]
    BY <1>1, <2>1, <2>2 DEF RowRecord
  <2>4. /\ o.completed = row[x].completed /\ o.saved_sampler = row[x].saved_sampler
        /\ o.step = row[x].step /\ o.finished /\ o.pending = row[x].pending
    BY <1>1, <2>2 DEF RowRecord
  <2>5. row'[x] = o /\ \A s \in Rows : s # x => row'[s] = row[s]
    BY <1>1, <2>3
  <2> QED BY <2>1, <2>4, <2>5, Zenon
<1>4. CASE SampleToken(x)
  <2> DEFINE q == Owner[x]
             n == row[x].pending + 1
             full == ChunkSize > 0 /\ row[x].buffered + 1 >= ChunkSize
  <2>1. n \in Nat
    BY <1>1 DEF RowRecord
  <2>2. \E kept \in 0..n : \E e, t :
          /\ \A s \in Rows : s # x => row'[s] = row[s]
          /\ row'[x].completed = row[x].completed /\ row'[x].saved_sampler = row[x].saved_sampler
          /\ row'[x].step = row[x].step + 1 /\ row'[x].finished = row[x].finished
          /\ row'[x].pending = kept
          /\ e = TextEvent(x, n - kept) /\ t = req[q].events \o e
          /\ req' = [req EXCEPT ![q].events = t]
    <3>1. PICK match \in (IF q \in TextStop THEN BOOLEAN ELSE {FALSE}),
               kept \in (IF full THEN 0..n ELSE {n}) :
            /\ row' = [row EXCEPT
                 ![x].step = @ + 1, ![x].pending = kept,
                 ![x].buffered = IF full THEN 0 ELSE @ + 1,
                 ![x].matched = @ \/ match,
                 ![x].reason = IF match THEN "stop" ELSE @]
            /\ req' = [req EXCEPT ![q].events = @ \o TextEvent(x, n - kept)]
      BY <1>4, Zenon DEF SampleToken
    <3> HIDE DEF full
    <3>2. kept \in 0..n
      <4> HIDE DEF n
      <4> QED BY <2>1
    <3>3. PICK o : o = [row[x] EXCEPT !.step = @ + 1, !.pending = kept,
                 !.buffered = IF full THEN 0 ELSE @ + 1,
                 !.matched = @ \/ match,
                 !.reason = IF match THEN "stop" ELSE @]
      OBVIOUS
    <3>4. row' = [row EXCEPT ![x] = o]
      BY <1>1, <3>1, <3>3, Zenon DEF RowRecord
    <3>5. /\ o.completed = row[x].completed /\ o.saved_sampler = row[x].saved_sampler
          /\ o.step = row[x].step + 1 /\ o.finished = row[x].finished /\ o.pending = kept
      BY <1>1, <3>3 DEF RowRecord
    <3>6. row'[x] = o /\ \A s \in Rows : s # x => row'[s] = row[s]
      BY <1>1, <3>4
    <3>7. /\ \A s \in Rows : s # x => row'[s] = row[s]
          /\ row'[x].completed = row[x].completed /\ row'[x].saved_sampler = row[x].saved_sampler
          /\ row'[x].step = row[x].step + 1 /\ row'[x].finished = row[x].finished
          /\ row'[x].pending = kept
      BY <3>5, <3>6
    <3>8. PICK e : e = TextEvent(x, n - kept)
      OBVIOUS
    <3>9. PICK t : t = req[q].events \o e
      OBVIOUS
    <3>10. req' = [req EXCEPT ![q].events = t]
      <4>1. req \in [Requests -> RequestRecord]
        BY DEF TypeOK
      <4>2. req' = [req EXCEPT ![q].events = @ \o e]
        BY <3>1, <3>8, Zenon
      <4> HIDE DEF q
      <4> QED BY <3>9, <4>1, <4>2
    <3> HIDE DEF n, q
    <3> QED BY <3>2, <3>7, <3>8, <3>9, <3>10, Zenon
  <2>3. PICK kept \in 0..n : \E e, t :
          /\ \A s \in Rows : s # x => row'[s] = row[s]
          /\ row'[x].completed = row[x].completed /\ row'[x].saved_sampler = row[x].saved_sampler
          /\ row'[x].step = row[x].step + 1 /\ row'[x].finished = row[x].finished
          /\ row'[x].pending = kept
          /\ e = TextEvent(x, n - kept) /\ t = req[q].events \o e
          /\ req' = [req EXCEPT ![q].events = t]
    BY <2>2, Zenon
  <2>4. PICK e, t : e = TextEvent(x, n - kept) /\ t = req[q].events \o e
                    /\ req' = [req EXCEPT ![q].events = t]
    BY <2>3, Zenon
  <2>5. e = TextEvent(x, n - row'[x].pending) /\ row'[x].pending \in 0..n
    BY <2>3, <2>4, Zenon
  <2>6. \E d, u : /\ d = TextEvent(x, n - row'[x].pending) /\ u = req[q].events \o d
                 /\ req' = [req EXCEPT ![q].events = u]
    BY <2>4, <2>5, Zenon
  <2>7. /\ \A s \in Rows : s # x => row'[s] = row[s]
        /\ row'[x].completed = row[x].completed
        /\ row'[x].saved_sampler = row[x].saved_sampler
        /\ row'[x].step = row[x].step + 1 /\ row'[x].finished = row[x].finished
        /\ row'[x].pending \in 0..n
    BY <2>3, <2>5, Zenon
  <2> QED BY <2>6, <2>7, Zenon
<1> QED BY <1>2, <1>3, <1>4, Zenon

(* Sampling appends a token to one row, ahead of its slot's state. *)
LEMMA SampleRowState ==
  ASSUME TypeOK, Shape, Homed, Owning, StateMatch, SampleRow
  PROVE  StateMatch'
<1>1. PICK k \in Adapters : k = loop.cur
  BY DEF TypeOK, LoopRecord
<1>2. PICK p \in 1..Len(groups[k].rows) : p = loop.at
  BY <1>1, SampleFacts DEF SampleRow, Current
<1>3. PICK x \in Rows : x = groups[k].rows[p]
  BY <1>1, <1>2, Position
<1>4. x = Current.rows[loop.at]
  BY <1>1, <1>2, <1>3 DEF Current
<1>5. /\ loop.pc = "sample" /\ loop \in LoopRecord /\ loop'.pc = "sample" /\ loop'.cur = k
      /\ loop'.at = p + 1 /\ exported' = exported /\ pending_rows' = pending_rows
  BY <1>1, <1>2 DEF SampleRow, TypeOK, LoopRecord
<1>6. PICK s \in Slot : s = groups[k].slots[p]
  BY <1>2, Position
<1>7. PICK u \in Slot : /\ u.of = s.of /\ u.fed = s.fed /\ u.hist = s.hist + 1
                        /\ u = [s EXCEPT !.hist = @ + 1]
  <2>1. [s EXCEPT !.hist = @ + 1] \in Slot
    BY DEF Slot
  <2>2. PICK u : u = [s EXCEPT !.hist = @ + 1]
    OBVIOUS
  <2>3. u.of = s.of /\ u.fed = s.fed /\ u.hist = s.hist + 1
    BY <2>2 DEF Slot
  <2> QED BY <2>1, <2>2, <2>3
<1>8. /\ \A a \in Adapters : a # k => groups'[a] = groups[a]
      /\ groups'[k].rows = groups[k].rows /\ groups'[k].incoming = groups[k].incoming
      /\ groups'[k].slots = [groups[k].slots EXCEPT ![p] = u]
  <2>1. groups' = [groups EXCEPT ![k].slots[p].hist = @ + 1] /\ groups \in [Adapters -> Group]
    BY <1>1, <1>2 DEF SampleRow, TypeOK
  <2>2. groups' = [groups EXCEPT ![k].slots = [groups[k].slots EXCEPT ![p] = u]]
    BY <1>6, <1>7, <2>1 DEF Group, Slot
  <2> QED BY <2>1, <2>2 DEF Group
<1>9. /\ groups[k].slots \in Seq(Slot) /\ p \in 1..Len(groups[k].slots)
  BY <1>2, MembersType DEF Shape, SlotPerRow
<1>10. /\ groups'[k].slots[p] = u
       /\ \A i \in 1..Len(groups[k].rows) : i # p => groups'[k].slots[i] = groups[k].slots[i]
  <2>1. Len(groups[k].slots) = Len(groups[k].rows)
    BY DEF Shape, SlotPerRow
  <2> QED BY <1>8, <1>9, <2>1
<1>11. /\ \A r \in Rows : r # x => row'[r] = row[r]
       /\ row'[x].completed = row[x].completed /\ row'[x].saved_sampler = row[x].saved_sampler
       /\ \/ row'[x].step = row[x].step /\ row'[x].finished
          \/ row'[x].step = row[x].step + 1 /\ row'[x].finished = row[x].finished
  BY <1>4, SampleRowIs
<1>12. ~row[x].finished /\ row[x].finished \in BOOLEAN /\ ~row[x].completed
       /\ row[x].step \in Nat
  <2>1. ~row[x].finished
    BY <1>1, <1>2, <1>3, <1>5 DEF StateMatch, Unfinished, Current
  <2>2. ~row[x].completed
    BY <1>1, <1>2, <1>3, <1>5 DEF Owning, Running, Current
  <2> QED BY <2>1, <2>2 DEF TypeOK, RowRecord
<1>13. \A a \in Adapters : ~Failed(a) /\ ~Failed(a)'
  BY <1>5 DEF Failed
<1>14. \A i \in 1..Len(groups[k].rows) : i # p =>
         groups[k].rows[i] # x /\ (Sampled(k, i)' <=> Sampled(k, i))
  <2>1. NoRepeat(groups[k].rows)
    BY Parts DEF Homed, NoDuplicates
  <2>2. groups[k].rows \in Seq(Rows)
    BY MembersType
  <2>3. \A i \in 1..Len(groups[k].rows) : i # p => (i < p + 1 <=> i < p)
    BY <2>2
  <2> QED BY <1>1, <1>2, <1>3, <1>5, <2>1, <2>3 DEF NoRepeat, Sampled
<1>15. SlotsMatch'
  <2> SUFFICES ASSUME NEW a \in Adapters, NEW i \in 1..Len(groups'[a].rows) PROVE SlotTrue(a, i)'
    BY DEF SlotsMatch
  <2>1. groups'[a].rows = groups[a].rows
    BY <1>8
  <2>2. PICK r \in Rows : r = groups[a].rows[i]
    BY <2>1, Position
  <2>3. SlotTrue(a, i)
    BY <1>13, <2>1 DEF StateMatch, SlotsMatch
  <2>4. CASE a # k
    <3>1. r # x
      <4>1. In(Members(a), r) /\ In(Members(k), x)
        BY <1>2, <1>3, <2>1, <2>2, Position
      <4> QED BY <2>4, <4>1 DEF Homed, OwnGroup
    <3>2. Unmoved(r)
      BY <1>11, <3>1 DEF Unmoved, TypeOK, RowRecord
    <3>3. Sampled(a, i)' <=> Sampled(a, i)
      BY <1>1, <1>5, <2>4 DEF Sampled
    <3>4. groups'[a].slots[i] = groups[a].slots[i]
      BY <1>8, <2>4
    <3> QED BY <2>1, <2>2, <2>3, <3>2, <3>3, <3>4, SlotStays
  <2>5. CASE a = k /\ i # p
    <3>1. r # x /\ (Sampled(a, i)' <=> Sampled(a, i))
      BY <1>14, <2>1, <2>2, <2>5
    <3>2. Unmoved(r)
      BY <1>11, <3>1 DEF Unmoved, TypeOK, RowRecord
    <3>4. groups'[a].slots[i] = groups[a].slots[i]
      BY <1>10, <2>1, <2>5
    <3> QED BY <2>1, <2>2, <2>3, <3>1, <3>2, <3>4, SlotStays
  <2>6. CASE a = k /\ i = p
    <3>1. ~Sampled(a, i) /\ Sampled(a, i)'
      BY <1>1, <1>2, <1>5, <2>6 DEF Sampled
    <3>2. r = x
      BY <1>3, <2>2, <2>6
    <3>3. s.of = x /\ s.fed = row[x].step /\ s.hist = row[x].step
      <4>1. PICK late : late = Sampled(a, i)
        OBVIOUS
      <4>2. Fits(x, s, late)
        BY <1>6, <2>2, <2>3, <2>6, <3>2, <4>1 DEF SlotTrue
      <4>3. ~late
        BY <3>1, <4>1
      <4> QED BY <1>12, <4>2, <4>3 DEF Fits
    <3>4. Fits(x, u, TRUE)'
      <4>1. u.of = x /\ u.fed = row[x].step /\ u.hist = row[x].step + 1
        BY <1>7, <3>3
      <4> QED BY <1>11, <1>12, <4>1 DEF Fits
    <3>5. groups'[a].rows[i] = x /\ groups'[a].slots[i] = u
      BY <1>10, <2>1, <2>2, <2>6, <3>2
    <3>6. PICK late : late = Sampled(a, i)'
      OBVIOUS
    <3>7. late = TRUE
      BY <3>1, <3>6 DEF Sampled
    <3> QED BY <3>4, <3>5, <3>6, <3>7 DEF SlotTrue
  <2> QED BY <2>4, <2>5, <2>6
<1>16. Unfinished'
  <2>1. Len(groups[k].rows) \in Nat /\ groups[k].rows \in Seq(Rows)
    <3>1. groups[k].rows \in Seq(Rows)
      BY MembersType
    <3> QED BY <3>1
  <2>2. \A i \in 1..Len(groups[k].rows) : p + 1 <= i =>
          groups[k].rows[i] \in Rows /\ groups[k].rows[i] # x /\ ~row[groups[k].rows[i]].finished
    <3> SUFFICES ASSUME NEW i \in 1..Len(groups[k].rows), p + 1 <= i
                 PROVE  groups[k].rows[i] \in Rows /\ groups[k].rows[i] # x
                        /\ ~row[groups[k].rows[i]].finished
      OBVIOUS
    <3>1. i # p /\ p <= i
      BY <2>1
    <3>2. ~row[groups[k].rows[i]].finished
      BY <1>1, <1>2, <1>5, <3>1 DEF StateMatch, Unfinished, Current
    <3> QED BY <1>14, <2>1, <3>1, <3>2
  <2>3. \A i \in 1..Len(groups[k].rows) : p + 1 <= i => ~row'[groups[k].rows[i]].finished
    BY <1>11, <2>2
  <2> QED BY <1>5, <1>8, <2>3 DEF Unfinished, Current
<1>17. AwayMatch'
  <2>1. ~Away(x)
    <3>1. In(groups[k].rows, x) /\ In(Members(k), x)
      BY <1>2, <1>3, Position
    <3>2. k = AdapterOf[Owner[x]]
      BY <3>1 DEF Homed, OwnGroup
    <3>3. ~Pending(x)
      BY <1>5, <1>12, <3>1, <3>2 DEF Owning, Paused, Grouped
    <3> QED BY <3>1, <3>2, <3>3 DEF Away
  <2>2. \A r \in Rows : Away(r)' <=> Away(r)
    BY <1>5, <1>8, Belongs DEF Away, Pending
  <2>3. \A r \in Rows : Away(r)' => r # x
    BY <2>1, <2>2
  <2> QED BY <1>5, <1>11, <2>2, <2>3, AwayFrame DEF StateMatch
<1>18. OwnExport' /\ KeptFrom'
  BY <1>5 DEF StateMatch, OwnExport, KeptFrom
<1>19. NoneIncoming'
  BY <1>1, <1>5, <1>8 DEF StateMatch, NoneIncoming, Current
<1> QED BY <1>15, <1>16, <1>17, <1>18, <1>19 DEF StateMatch

(* forward_decode() feeds every slot the token its row has just sampled. *)
LEMMA ForwardState ==
  ASSUME TypeOK, Shape, Homed, Owning, StateMatch, Forward
  PROVE  StateMatch'
<1>1. PICK k \in Adapters : k = loop.cur
  BY DEF TypeOK, LoopRecord
<1>2. /\ loop.pc = "forward" /\ loop'.pc = "rebuild" /\ loop'.cur = k /\ loop'.pass = 3
      /\ loop'.live = <<>> /\ exported' = exported /\ pending_rows' = pending_rows
  BY <1>1 DEF Forward, TypeOK, LoopRecord
<1>3. /\ \A a \in Adapters : a # k => groups'[a] = groups[a]
      /\ groups'[k].rows = groups[k].rows /\ groups'[k].incoming = groups[k].incoming
      /\ groups'[k].slots = Fed(groups[k].slots)
  BY <1>1 DEF Forward, TypeOK, Group
<1>4. \A r \in Rows : /\ row'[r].step = row[r].step /\ row'[r].completed = row[r].completed
                      /\ row'[r].saved_sampler = row[r].saved_sampler
                      /\ row'[r].finished # row[r].finished => In(groups[k].rows, r)
  <2> SUFFICES ASSUME NEW r \in Rows
               PROVE  /\ row'[r].step = row[r].step /\ row'[r].completed = row[r].completed
                      /\ row'[r].saved_sampler = row[r].saved_sampler
                      /\ row'[r].finished # row[r].finished => In(groups[k].rows, r)
    OBVIOUS
  <2>1. row'[r] = row[r] \/ (r \in ToSet(Current.rows) /\ row'[r] = [row[r] EXCEPT !.finished = TRUE])
    BY DEF Forward
  <2>2. r \in ToSet(Current.rows) => In(groups[k].rows, r)
    BY <1>1 DEF ToSet, In, Current
  <2> QED BY <2>1, <2>2 DEF TypeOK, RowRecord
<1>5. \A a \in Adapters : ~Failed(a)
  BY <1>2 DEF Failed
<1>6. SlotsMatch'
  <2> SUFFICES ASSUME NEW a \in Adapters, NEW i \in 1..Len(groups'[a].rows) PROVE SlotTrue(a, i)'
    BY DEF SlotsMatch
  <2>1. groups'[a].rows = groups[a].rows
    BY <1>3
  <2>2. PICK r \in Rows, s \in Slot : r = groups[a].rows[i] /\ s = groups[a].slots[i]
    BY <2>1, Position
  <2>3. SlotTrue(a, i)
    BY <1>5, <2>1 DEF StateMatch, SlotsMatch
  <2>4. CASE a # k
    <3>1. ~In(groups[k].rows, r)
      <4>1. In(Members(a), r)
        BY <2>1, <2>2, Position
      <4>2. ~In(Members(k), r)
        BY <2>4, <4>1 DEF Homed, OwnGroup
      <4> QED BY <4>2, Parts
    <3>2. Unmoved(r)
      BY <1>4, <3>1 DEF Unmoved, TypeOK, RowRecord
    <3>3. Sampled(a, i)' <=> Sampled(a, i)
      BY <1>1, <1>2, <2>4 DEF Sampled
    <3>4. groups'[a].slots[i] = groups[a].slots[i]
      BY <1>3, <2>4
    <3> QED BY <2>1, <2>2, <2>3, <3>2, <3>3, <3>4, SlotStays
  <2>5. CASE a = k
    <3>1. Sampled(k, i)
      BY <1>1, <1>2 DEF Sampled
    <3>2. ~row[r].finished /\ ~row[r].completed
      BY <1>1, <1>2, <2>1, <2>2, <2>5 DEF StateMatch, Unfinished, Owning, Running, Current
    <3>3. s.of = r /\ s.fed + 1 = row[r].step /\ s.hist = row[r].step
      <4>1. PICK late : late = Sampled(k, i)
        OBVIOUS
      <4>2. late = TRUE
        BY <3>1, <4>1 DEF Sampled
      <4>3. Fits(r, s, TRUE)
        BY <2>2, <2>3, <2>5, <4>1, <4>2 DEF SlotTrue
      <4> QED BY <3>2, <4>3 DEF Fits
    <3>4. PICK u : u = [s EXCEPT !.fed = @ + 1]
      OBVIOUS
    <3>5. u.of = r /\ u.fed = row[r].step /\ u.hist = row[r].step
      BY <3>3, <3>4 DEF Slot
    <3>6. groups'[a].slots[i] = u
      <4>1. i \in 1..Len(groups[k].slots)
        BY <2>1, <2>5 DEF Shape, SlotPerRow
      <4> QED BY <1>3, <2>2, <2>5, <3>4, <4>1 DEF Fed
    <3>7. PICK late : late = Sampled(k, i)'
      OBVIOUS
    <3>8. late = FALSE
      BY <1>2, <3>7 DEF Sampled
    <3>9. Fits(r, u, FALSE)'
      BY <1>4, <3>5 DEF Fits
    <3> QED BY <2>1, <2>2, <2>5, <3>6, <3>7, <3>8, <3>9 DEF SlotTrue
  <2> QED BY <2>4, <2>5
<1>7. AwayMatch'
  <2>1. \A r \in Rows : Away(r)' <=> Away(r)
    BY <1>2, <1>3, Belongs DEF Away, Pending
  <2>2. ASSUME NEW r \in Rows, ~row[r].completed, Away(r) PROVE ~In(groups[k].rows, r)
    <3>1. SUFFICES ASSUME In(groups[k].rows, r) PROVE FALSE
      OBVIOUS
    <3>2. In(Members(k), r)
      BY <3>1, Parts
    <3>3. k = AdapterOf[Owner[r]]
      BY <3>2 DEF Homed, OwnGroup
    <3>4. ~Pending(r)
      BY <1>2, <2>2, <3>2, <3>3 DEF Owning, Paused, Grouped
    <3> QED BY <2>2, <3>1, <3>3, <3>4 DEF Away
  <2>3. \A r \in Rows : ~row'[r].completed /\ Away(r)' =>
            /\ ~row[r].completed /\ Away(r)
            /\ exported'[r].fed = exported[r].fed /\ row'[r].step = row[r].step
            /\ row'[r].saved_sampler = row[r].saved_sampler
            /\ row'[r].finished = row[r].finished
    BY <1>2, <1>4, <2>1, <2>2
  <2> QED BY <2>3, AwayFrame DEF StateMatch
<1>8. Unfinished' /\ OwnExport' /\ KeptFrom'
  BY <1>2 DEF StateMatch, Unfinished, OwnExport, KeptFrom
<1>9. NoneIncoming'
  BY <1>1, <1>2, <1>3 DEF StateMatch, NoneIncoming, Current
<1> QED BY <1>6, <1>7, <1>8, <1>9 DEF StateMatch
(* What rebuild() does to one member: it drops a completed one, ends, pauses *)
(* or keeps it.                                                            *)
Old == loop.at <= Len(Current.rows)
Drops(x) == /\ Old /\ row[x].completed
            /\ row' = row /\ req' = req /\ exported' = exported /\ pending_rows' = pending_rows
            /\ loop' = [loop EXCEPT !.at = loop.at + 1]
Ends(x) == /\ Old => ~row[x].completed /\ Leaves(x)
           /\ ~Old => Dead(x)
           /\ exported' = IF Old THEN Export(x, Current.slots[loop.at]) ELSE exported
           /\ row' = CompleteRow(x, req[Owner[x]].cancelled)
           /\ req' = CompleteReq(x, req[Owner[x]].cancelled)
           /\ pending_rows' = pending_rows
           /\ loop' = [loop EXCEPT !.at = loop.at + 1]
Pauses(x) == /\ Old /\ ~row[x].completed /\ ~Leaves(x) /\ loop.pass = 1
             /\ exported' = Export(x, Current.slots[loop.at])
             /\ row' = [row EXCEPT ![x].saved_sampler = Current.slots[loop.at].hist]
             /\ pending_rows' = Append(pending_rows, x) /\ req' = req
             /\ loop' = [loop EXCEPT !.at = loop.at + 1]
Keeps(x) == /\ Old => ~row[x].completed /\ ~Leaves(x)
            /\ ~Old => ~Dead(x)
            /\ Old /\ loop.pass = 1 => ~Backpressured(Owner[x])
            /\ row' = row /\ req' = req /\ exported' = exported /\ pending_rows' = pending_rows
            /\ loop' = [loop EXCEPT !.at = loop.at + 1,
                          !.live = Append(loop.live,
                                          [row |-> x, old |-> IF Old THEN loop.at ELSE 0])]

(* One member is one of the four. *)
LEMMA RebuildSplit ==
  ASSUME RebuildRow, NEW x, x = Members(loop.cur)[loop.at]
  PROVE  /\ Drops(x) \/ Ends(x) \/ Pauses(x) \/ Keeps(x)
         /\ loop.pc = "rebuild" /\ groups' = groups /\ client' = client /\ delivered' = delivered
<1>1. CASE Old /\ row[x].completed
  BY <1>1 DEF RebuildRow, Drops, Old, objects, callers
<1>2. CASE ~(Old /\ row[x].completed) /\ (IF Old THEN Leaves(x) ELSE Dead(x))
  BY <1>2 DEF RebuildRow, Ends, Old, callers
<1>3. CASE ~(Old /\ row[x].completed) /\ ~(IF Old THEN Leaves(x) ELSE Dead(x))
  BY <1>3 DEF RebuildRow, Pauses, Keeps, Old, objects, callers
<1> QED BY <1>1, <1>2, <1>3

(* The member that rebuild() looks at, and its slot if it is an old one. *)
LEMMA RebuildMember ==
  ASSUME TypeOK, Shape, Homed, Owning, StateMatch, RebuildRow,
         NEW x \in Rows, x = Members(loop.cur)[loop.at]
  PROVE  /\ loop.cur \in Adapters /\ AdapterOf[Owner[x]] = loop.cur /\ Grouped(x)
         /\ ~row[x].completed => ~Pending(x)
         /\ Old => /\ x = Current.rows[loop.at] /\ In(Current.rows, x)
                   /\ loop.at \in 1..Len(Current.rows)
                   /\ Fits(x, Current.slots[loop.at], loop.pass = 2)
         /\ ~Old => Newcomer(x) /\ ~In(Current.rows, x)
<1>1. /\ loop.pc = "rebuild" /\ loop.at <= Len(Members(loop.cur))
  BY DEF RebuildRow
<1>2. /\ loop.cur \in Adapters /\ loop.at \in 1..Len(Members(loop.cur))
      /\ AdapterOf[Owner[x]] = loop.cur /\ Grouped(x)
  BY <1>1, MemberFacts
<1>3. ~row[x].completed => ~Pending(x)
  <2>1. ~(loop.at < loop.at)
    BY <1>2
  <2> QED BY <1>1, <1>2, <2>1 DEF Owning, Building
<1>4. CASE Old
  <2>1. loop.at \in 1..Len(groups[loop.cur].rows)
    BY <1>2, <1>4, MembersType DEF Old, Current
  <2>2. x = groups[loop.cur].rows[loop.at] /\ In(groups[loop.cur].rows, x)
    BY <1>2, <2>1, Position
  <2>3. SlotTrue(loop.cur, loop.at)
    BY <1>1, <1>2, <2>1 DEF StateMatch, SlotsMatch, Failed
  <2>4. Sampled(loop.cur, loop.at) <=> loop.pass = 2
    BY <1>1 DEF Sampled
  <2>5. Fits(x, Current.slots[loop.at], loop.pass = 2)
    BY <2>2, <2>3, <2>4, Zenon DEF SlotTrue, Fits, Current
  <2> QED BY <1>2, <1>3, <1>4, <2>1, <2>2, <2>5, Zenon DEF Current
<1>5. CASE ~Old
  <2>1. PICK s \in Seq(Rows), t \in Seq(Rows) : s = Current.rows /\ t = Current.incoming
    BY <1>2, MembersType DEF Current
  <2>2. x = (s \o t)[loop.at] /\ loop.at \in 1..Len(s \o t) /\ ~(loop.at <= Len(s))
    BY <1>2, <1>5, <2>1, Zenon DEF Members, Current, Old
  <2>3. /\ Len(s \o t) = Len(s) + Len(t) /\ Len(s) \in Nat /\ Len(t) \in Nat
        /\ \A j \in 1..Len(s \o t) : (s \o t)[j] = IF j <= Len(s) THEN s[j] ELSE t[j - Len(s)]
    OBVIOUS
  <2>4. loop.at - Len(s) \in 1..Len(t) /\ x = t[loop.at - Len(s)]
    BY <2>2, <2>3
  <2>5. In(t, x)
    BY <2>4 DEF In
  <2>6. ~In(s, x)
    BY <1>2, <2>1, <2>5, Parts DEF Homed, NoDuplicates, Current
  <2> QED BY <1>2, <1>3, <1>5, <2>1, <2>5, <2>6 DEF Newcomer, Current
<1> QED BY <1>4, <1>5

(* export_row() writes one slice. *)
LEMMA ExportIs ==
  ASSUME TypeOK, NEW x \in Rows, NEW s
  PROVE  /\ Export(x, s)[x].of = s.of /\ Export(x, s)[x].fed = s.fed
         /\ \A r \in Rows : r # x => Export(x, s)[r] = exported[r]
  BY DEF Export, TypeOK

(* The kept members so far, when one more is kept or none. *)
LEMMA KeptFrame ==
  ASSUME TypeOK, KeptFrom, loop.pc = "rebuild", groups' = groups, loop'.cur = loop.cur,
         loop'.live = loop.live,
         \A r \in Rows : row'[r].finished = row[r].finished
  PROVE  KeptFrom'
<1>1. \A k \in 1..Len(loop.live) : loop.live[k].row \in Rows
  <2>1. loop.live \in Seq(LiveRow)
    BY DEF TypeOK, LoopRecord
  <2>2. \A k \in 1..Len(loop.live) : loop.live[k] \in LiveRow
    BY <2>1
  <2> QED BY <2>2 DEF LiveRow
<1> QED BY <1>1 DEF KeptFrom, Current

(* rebuild() looks at one member. *)
LEMMA RebuildRowState ==
  ASSUME TypeOK, Shape, Homed, Owning, StateMatch, RebuildRow
  PROVE  StateMatch'
<1>1. PICK x \in Rows : x = Members(loop.cur)[loop.at]
  BY MemberAt, Zenon
<1>2. /\ loop.cur \in Adapters /\ AdapterOf[Owner[x]] = loop.cur /\ Grouped(x)
      /\ ~row[x].completed => ~Pending(x)
      /\ Old => /\ x = Current.rows[loop.at] /\ In(Current.rows, x)
                /\ loop.at \in 1..Len(Current.rows)
                /\ Fits(x, Current.slots[loop.at], loop.pass = 2)
      /\ ~Old => Newcomer(x) /\ ~In(Current.rows, x)
  BY <1>1, RebuildMember
<1>3. /\ Drops(x) \/ Ends(x) \/ Pauses(x) \/ Keeps(x)
      /\ loop.pc = "rebuild" /\ groups' = groups
  BY <1>1, RebuildSplit
<1>4. /\ loop \in LoopRecord /\ row \in [Rows -> RowRecord] /\ loop.live \in Seq(LiveRow)
  BY DEF TypeOK, LoopRecord
<1>5. loop'.pc = loop.pc /\ loop'.cur = loop.cur /\ loop'.pass = loop.pass
  BY <1>3, <1>4 DEF Drops, Ends, Pauses, Keeps, LoopRecord
<1>6. \A r \in Rows : /\ Unmoved(r) /\ row'[r].step = row[r].step
                      /\ row'[r].finished = row[r].finished
                      /\ row[r].completed => row'[r].completed
                      /\ ~Pauses(x) \/ r # x => row'[r].saved_sampler = row[r].saved_sampler
                      /\ r # x => row'[r].completed = row[r].completed
  <2>1. CASE Drops(x) \/ Keeps(x)
    BY <1>4, <2>1 DEF Drops, Keeps, Unmoved, RowRecord
  <2>2. CASE Ends(x)
    <3>1. req[Owner[x]].cancelled \in BOOLEAN
      BY Belongs DEF TypeOK, RequestRecord
    <3>2. row' = CompleteRow(x, req[Owner[x]].cancelled)
      BY <2>2 DEF Ends
    <3>3. \A r \in Rows : /\ row'[r].completed <=> (r = x \/ row[r].completed)
                          /\ row'[r].step = row[r].step /\ row'[r].finished = row[r].finished
                          /\ row'[r].saved_sampler = row[r].saved_sampler
      BY <3>1, <3>2, CompleteRowIs
    <3>4. \A r \in Rows : r # x => row'[r].completed = row[r].completed
      <4>1. \A r \in Rows : row[r].completed \in BOOLEAN
        BY <1>4 DEF RowRecord
      <4>2. \A r \in Rows : row'[r] = row[r] \/ row'[r].completed \in BOOLEAN
        <5>1. CompleteRow(x, req[Owner[x]].cancelled) \in [Rows -> RowRecord]
          BY <3>1, CompleteRowType
        <5> QED BY <3>2, <5>1 DEF RowRecord
      <4> QED BY <3>3, <4>1, <4>2
    <3> QED BY <3>3, <3>4 DEF Unmoved
  <2>3. CASE Pauses(x)
    <3>1. PICK h : row' = [row EXCEPT ![x].saved_sampler = h]
      BY <2>3 DEF Pauses
    <3> QED BY <1>4, <2>3, <3>1 DEF Unmoved, RowRecord
  <2> QED BY <1>3, <2>1, <2>2, <2>3
<1>7. Old /\ ~row[x].completed => Current.slots[loop.at].of = x
  BY <1>2 DEF Fits
<1>8. OwnExport'
  <2>1. CASE exported' = exported
    BY <2>1 DEF StateMatch, OwnExport
  <2>2. CASE Old /\ ~row[x].completed /\ exported' = Export(x, Current.slots[loop.at])
    BY <1>7, <2>2, ExportIs DEF StateMatch, OwnExport
  <2> QED BY <1>3, <2>1, <2>2 DEF Drops, Ends, Pauses, Keeps
<1>9. KeptFrom'
  <2>1. CASE Drops(x) \/ Ends(x) \/ Pauses(x)
    <3>1. loop'.live = loop.live
      BY <1>4, <2>1 DEF Drops, Ends, Pauses, LoopRecord
    <3> QED BY <1>3, <1>5, <1>6, <3>1, KeptFrame DEF StateMatch
  <2>2. CASE Keeps(x)
    <3>1. PICK o : o = IF Old THEN loop.at ELSE 0
      OBVIOUS
    <3>2. PICK e : e = [row |-> x, old |-> o]
      OBVIOUS
    <3>3. /\ loop'.live = Append(loop.live, e) /\ e.row = x /\ e.old = o
      BY <1>4, <2>2, <3>1, <3>2 DEF Keeps, LoopRecord
    <3>4. ~row[x].finished
      <4>1. CASE Old
        BY <2>2, <4>1 DEF Keeps, Leaves
      <4>2. CASE ~Old
        <5>1. ~row[x].completed
          BY <1>2, <2>2, <4>2 DEF Keeps, Homed, Left
        <5>2. Away(x)
          BY <1>2, <4>2 DEF Away, Current
        <5> QED BY <5>1, <5>2 DEF StateMatch, AwayMatch
      <4> QED BY <4>1, <4>2
    <3>5. /\ o > 0 => Current.rows[o] = x
          /\ o = 0 => In(Current.incoming, x)
      <4>1. CASE Old
        BY <1>2, <3>1, <4>1
      <4>2. CASE ~Old
        BY <1>2, <3>1, <4>2 DEF Newcomer, Current
      <4> QED BY <4>1, <4>2
    <3>6. PICK c : c = Current
      OBVIOUS
    <3>7. Current' = c
      BY <1>3, <1>5, <3>6 DEF Current
    <3>8. row' = row
      BY <2>2 DEF Keeps
    <3>9. ASSUME NEW k \in 1..Len(loop'.live)
          PROVE  /\ ~row[loop'.live[k].row].finished
                 /\ loop'.live[k].old > 0 => c.rows[loop'.live[k].old] = loop'.live[k].row
                 /\ loop'.live[k].old = 0 => In(c.incoming, loop'.live[k].row)
      <4>0. /\ e \in LiveRow \/ TRUE
            /\ Len(Append(loop.live, e)) = Len(loop.live) + 1
            /\ \A j \in 1..Len(loop.live) + 1 :
                 Append(loop.live, e)[j] = IF j = Len(loop.live) + 1 THEN e ELSE loop.live[j]
        BY <1>4
      <4>1. k \in 1..Len(loop.live) + 1 /\ Len(loop.live) \in Nat
        BY <1>4, <3>3, <4>0
      <4>2. CASE k = Len(loop.live) + 1
        <5>1. loop'.live[k] = e
          BY <3>3, <4>0, <4>1, <4>2
        <5> QED BY <3>3, <3>4, <3>5, <3>6, <5>1
      <4>3. CASE k # Len(loop.live) + 1
        <5>1. loop'.live[k] = loop.live[k] /\ k \in 1..Len(loop.live)
          BY <3>3, <4>0, <4>1, <4>3
        <5> QED BY <1>3, <3>6, <5>1 DEF StateMatch, KeptFrom
      <4> QED BY <4>2, <4>3
    <3> QED BY <3>7, <3>8, <3>9 DEF KeptFrom
  <2> QED BY <1>3, <2>1, <2>2
<1>10. AwayMatch'
  <2>1. \A y : y # x => (In(pending_rows', y) <=> In(pending_rows, y))
    <3>1. CASE pending_rows' = pending_rows
      BY <3>1
    <3>2. CASE pending_rows' = Append(pending_rows, x)
      <4>1. pending_rows \in Seq(Rows)
        BY DEF TypeOK
      <4> QED BY <3>2, <4>1, AppendIn
    <3> QED BY <1>3, <3>1, <3>2 DEF Drops, Ends, Pauses, Keeps
  <2>2. \A r \in Rows : r # x => (Away(r)' <=> Away(r))
    BY <1>3, <2>1 DEF Away, Pending
  <2>3. \A r \in Rows : r # x => exported'[r] = exported[r]
    BY <1>3, ExportIs DEF Drops, Ends, Pauses, Keeps
  <2>4. CASE Pauses(x)
    <3>1. PICK s : s = Current.slots[loop.at]
      OBVIOUS
    <3>2. ~row[x].finished /\ s.fed = row[x].step /\ s.hist = row[x].step
      <4>1. loop.pass = 1 /\ Old /\ ~row[x].completed /\ ~row[x].finished
        BY <2>4 DEF Pauses, Leaves
      <4> QED BY <1>2, <3>1, <4>1 DEF Fits
    <3>3. exported'[x].fed = s.fed
      BY <2>4, <3>1, ExportIs DEF Pauses
    <3>4. row'[x].saved_sampler = s.hist /\ row'[x].step = row[x].step
          /\ row'[x].finished = row[x].finished
      BY <1>4, <2>4, <3>1 DEF Pauses, RowRecord
    <3> SUFFICES ASSUME NEW r \in Rows, ~row'[r].completed, Away(r)'
                 PROVE  exported'[r].fed = row'[r].step /\ row'[r].saved_sampler = row'[r].step
                        /\ ~row'[r].finished
      BY DEF AwayMatch
    <3>5. CASE r = x
      BY <3>2, <3>3, <3>4, <3>5
    <3>6. CASE r # x
      BY <1>6, <2>2, <2>3, <3>6 DEF StateMatch, AwayMatch
    <3> QED BY <3>5, <3>6
  <2>5. CASE Ends(x)
    <3>1. row'[x].completed
      <4>1. req[Owner[x]].cancelled \in BOOLEAN
        BY Belongs DEF TypeOK, RequestRecord
      <4> QED BY <2>5, <4>1, CompleteRowIs DEF Ends
    <3>2. ~Pauses(x) \/ Old
      BY DEF Pauses
    <3>3. \A r \in Rows : r # x => row'[r].saved_sampler = row[r].saved_sampler
      BY <1>6
    <3> QED BY <1>6, <2>2, <2>3, <3>1, <3>3, AwayFrame DEF StateMatch
  <2>6. CASE Drops(x) \/ Keeps(x)
    <3>1. row' = row /\ exported' = exported /\ pending_rows' = pending_rows
      BY <2>6 DEF Drops, Keeps
    <3>2. \A r \in Rows : Away(r)' <=> Away(r)
      BY <1>3, <3>1 DEF Away, Pending
    <3> QED BY <3>1, <3>2, AwayFrame DEF StateMatch
  <2> QED BY <1>3, <2>4, <2>5, <2>6
<1>11. NoneIncoming'
  BY <1>3, <1>5 DEF StateMatch, NoneIncoming, Current
<1> QED BY <1>3, <1>5, <1>6, <1>8, <1>9, <1>10, <1>11, MovedState
(* A kept member: where its slot comes from, and what it holds. *)
LEMMA KeptMember ==
  ASSUME TypeOK, Shape, Homed, Owning, StateMatch, loop.pc = "rebuild",
         NEW j \in 1..Len(loop.live)
  PROVE  /\ loop.live[j].row \in Rows /\ loop.live[j].old \in Nat
         /\ ~row[loop.live[j].row].completed /\ ~row[loop.live[j].row].finished
         /\ ~Pending(loop.live[j].row)
         /\ AdapterOf[Owner[loop.live[j].row]] = loop.cur
         /\ Fits(loop.live[j].row, PackedSlot(loop.live[j]), loop.pass = 2)
         /\ loop.live[j].old = 0 => In(Current.incoming, loop.live[j].row)
<1>1. loop.live[j] \in LiveRow /\ loop.cur \in Adapters
  BY DEF TypeOK, LoopRecord
<1>2. PICK l \in LiveRow : l = loop.live[j]
  BY <1>1
<1>3. PICK r \in Rows : r = l.row
  BY DEF LiveRow
<1>4. l.old \in Nat
  BY DEF LiveRow
<1>5. ~row[r].completed /\ Kept(r)
  BY <1>2, <1>3 DEF Owning, Building, Kept
<1>6. PICK i \in 1..Len(Members(loop.cur)) : i < loop.at /\ Members(loop.cur)[i] = r
  BY <1>2, <1>3 DEF Owning, Building
<1>7. ~row[r].finished /\ (l.old > 0 => Current.rows[l.old] = r)
      /\ (l.old = 0 => In(Current.incoming, r))
  BY <1>2, <1>3 DEF StateMatch, KeptFrom
<1>8. ~Pending(r) /\ AdapterOf[Owner[r]] = loop.cur
  <2>1. ~row[Members(loop.cur)[i]].completed /\ Kept(Members(loop.cur)[i])
    BY <1>5, <1>6, Zenon
  <2>2. ~Pending(Members(loop.cur)[i])
    BY <1>6, <2>1 DEF Owning, Building
  <2>3. In(Members(loop.cur), r)
    BY <1>6 DEF In
  <2> QED BY <1>1, <1>6, <2>2, <2>3, Zenon DEF Homed, OwnGroup
<1>9. CASE l.old > 0
  <2>1. l.old <= Len(groups[loop.cur].rows)
    BY <1>2 DEF Shape, RebuildShape
  <2>2. l.old \in 1..Len(groups[loop.cur].rows)
    <3>1. Len(groups[loop.cur].rows) \in Nat
      BY <1>1, MembersType
    <3> QED BY <1>4, <1>9, <2>1, <3>1
  <2>3. SlotTrue(loop.cur, l.old)
    BY <1>1, <2>2 DEF StateMatch, SlotsMatch, Failed
  <2>4. Sampled(loop.cur, l.old) <=> loop.pass = 2
    BY DEF Sampled
  <2>5. Fits(r, Current.slots[l.old], loop.pass = 2)
    BY <1>7, <1>9, <2>3, <2>4 DEF SlotTrue, Fits, Current
  <2>6. PackedSlot(l) = Current.slots[l.old]
    BY <1>9 DEF PackedSlot
  <2>7. Fits(r, PackedSlot(l), loop.pass = 2)
    BY <2>5, <2>6
  <2> QED BY <1>2, <1>3, <1>4, <1>5, <1>7, <1>8, <1>9, <2>7
<1>10. CASE l.old = 0
  <2>1. In(Current.incoming, r)
    BY <1>7, <1>10
  <2>2. loop.pass = 1
    <3>1. Current.incoming # <<>>
      BY <2>1, SmallIn
    <3> QED BY <3>1 DEF StateMatch, NoneIncoming
  <2>3. ~In(groups[loop.cur].rows, r)
    BY <1>1, <2>1, Parts DEF Homed, NoDuplicates, Current
  <2>4. Away(r)
    BY <1>8, <2>3 DEF Away
  <2>5. exported[r].fed = row[r].step /\ row[r].saved_sampler = row[r].step /\ exported[r].of = r
    BY <1>5, <2>4 DEF StateMatch, AwayMatch, OwnExport
  <2>6. PICK s : s = PackedSlot(l)
    OBVIOUS
  <2>7. s.of = r /\ s.fed = row[r].step /\ s.hist = row[r].step
    BY <1>3, <1>10, <2>5, <2>6 DEF PackedSlot
  <2>8. Fits(r, s, FALSE)
    BY <2>7 DEF Fits
  <2>9. Fits(r, s, loop.pass = 2)
    <3>1. (loop.pass = 2) = FALSE
      BY <2>2
    <3> QED BY <2>8, <3>1
  <2> QED BY <1>2, <1>3, <1>4, <1>5, <1>7, <1>8, <2>1, <2>6, <2>9
<1> QED BY <1>4, <1>9, <1>10

(* rebuild() packs the kept members. *)
LEMMA RebuildCommitState ==
  ASSUME TypeOK, Shape, Homed, Owning, StateMatch, RebuildCommit
  PROVE  StateMatch'
<1>1. PICK k \in Adapters : k = loop.cur
  BY DEF TypeOK, LoopRecord
<1>2. PICK live \in Seq(LiveRow) : live = loop.live
  BY DEF TypeOK, LoopRecord
<1>3. /\ loop.pc = "rebuild" /\ loop \in LoopRecord /\ groups \in [Adapters -> Group]
      /\ loop.pass \in 1..3 /\ exported' = exported /\ pending_rows' = pending_rows
      /\ groups' = [groups EXCEPT ![k] = RebuiltGroup]
      /\ Len(Members(k)) \in Nat /\ loop.at \in Nat /\ loop.at > Len(Members(k))
  <2>1. Members(k) \in Seq(Rows) /\ loop.at > Len(Members(k))
    BY <1>1, MembersType DEF RebuildCommit
  <2>2. Len(Members(k)) \in Nat
    BY <2>1
  <2> QED BY <1>1, <2>1, <2>2 DEF TypeOK, LoopRecord, RebuildCommit
<1>4. /\ loop'.pc = AfterRebuild(live = <<>>) /\ loop'.live = <<>> /\ loop'.cur = k /\ loop'.at = 1
      /\ loop'.pass = loop.pass
  BY <1>1, <1>2, <1>3 DEF LoopRecord, RebuildCommit
<1>5. /\ loop'.pc \in {"sample", "forward", "sweep"}
      /\ live # <<>> => (loop'.pc = "forward" <=> loop.pass = 2)
  BY <1>3, <1>4 DEF AfterRebuild
<1>6. /\ Len(groups'[k].rows) = Len(live) /\ groups'[k].incoming = <<>>
      /\ \A j \in 1..Len(live) : /\ groups'[k].rows[j] = live[j].row
                                 /\ groups'[k].slots[j] = PackedSlot(live[j])
      /\ \A a \in Adapters : a # k => groups'[a] = groups[a]
  <2>1. groups'[k] = RebuiltGroup /\ \A a \in Adapters : a # k => groups'[a] = groups[a]
    BY <1>3
  <2>2. /\ RebuiltGroup.rows = [j \in 1..Len(live) |-> live[j].row]
        /\ RebuiltGroup.slots = [j \in 1..Len(live) |-> PackedSlot(live[j])]
        /\ RebuiltGroup.incoming = <<>>
    BY <1>2 DEF RebuiltGroup, Rebuilt
  <2>3. Len(RebuiltGroup.rows) = Len(live)
    BY <1>2, <1>3, RebuiltType
  <2> QED BY <2>1, <2>2, <2>3
<1>7. \A r \in Rows :
        /\ row'[r].step = row[r].step /\ row'[r].completed = row[r].completed
        /\ row'[r].finished = row[r].finished
        /\ ~Kept(r) => row'[r].saved_sampler = row[r].saved_sampler
  <2> SUFFICES ASSUME NEW r \in Rows
               PROVE  /\ row'[r].step = row[r].step /\ row'[r].completed = row[r].completed
                      /\ row'[r].finished = row[r].finished
                      /\ ~Kept(r) => row'[r].saved_sampler = row[r].saved_sampler
    OBVIOUS
  <2>1. PICK l : l = [row |-> r, old |-> 0]
    OBVIOUS
  <2>2. l.row = r
    BY <2>1
  <2>3. row'[r] = IF l \in ToSet(loop.live) THEN [row[r] EXCEPT !.saved_sampler = 0] ELSE row[r]
    BY <2>1 DEF RebuildCommit
  <2>4. l \in ToSet(loop.live) => Kept(r)
    <3>1. loop.live \in Seq(LiveRow)
      BY DEF TypeOK, LoopRecord
    <3> QED BY <2>2, <3>1 DEF ToSet, Kept
  <2> QED BY <2>3, <2>4 DEF TypeOK, RowRecord
<1>8. \A j \in 1..Len(live) :
         /\ live[j].row \in Rows
         /\ ~row[live[j].row].completed /\ ~row[live[j].row].finished
         /\ ~Pending(live[j].row) /\ AdapterOf[Owner[live[j].row]] = k
         /\ Fits(live[j].row, PackedSlot(live[j]), loop.pass = 2)
  BY <1>1, <1>2, <1>3, KeptMember
<1>9. SlotsMatch'
  <2> SUFFICES ASSUME NEW a \in Adapters, NEW i \in 1..Len(groups'[a].rows) PROVE SlotTrue(a, i)'
    BY DEF SlotsMatch
  <2>1. CASE a # k
    <3>1. groups'[a] = groups[a] /\ i \in 1..Len(groups[a].rows)
      BY <1>6, <2>1
    <3>2. SlotTrue(a, i) /\ groups[a].rows[i] \in Rows
      BY <1>3, <3>1, Position DEF StateMatch, SlotsMatch, Failed
    <3>3. Unmoved(groups[a].rows[i])
      BY <1>7, <3>2 DEF Unmoved, TypeOK, RowRecord
    <3>4. Sampled(a, i)' <=> Sampled(a, i)
      BY <1>1, <1>4, <2>1 DEF Sampled
    <3> QED BY <3>1, <3>2, <3>3, <3>4, SlotStays
  <2>2. CASE a = k
    <3>1. i \in 1..Len(live) /\ live # <<>>
      BY <1>6, <2>2
    <3>2. PICK late \in BOOLEAN : late = (loop.pass = 2)
      OBVIOUS
    <3>0. PICK r \in Rows : r = live[i].row
      BY <1>8, <3>1
    <3>3. PICK s : r = live[i].row /\ s = PackedSlot(live[i])
      BY <3>0
    <3>4. groups'[a].rows[i] = r /\ groups'[a].slots[i] = s
      BY <1>6, <2>2, <3>1, <3>3
    <3>5. Fits(r, s, late)'
      <4>1. Fits(r, s, late)
        BY <1>8, <3>1, <3>2, <3>3
      <4> QED BY <1>7, <4>1 DEF Fits
    <3>6. Sampled(a, i)' <=> loop.pass = 2
      <4>1. ~(i < 1)
        BY <3>1
      <4> QED BY <1>4, <1>5, <2>2, <3>1, <4>1 DEF Sampled
    <3>7. PICK now : now = Sampled(a, i)'
      OBVIOUS
    <3>8. now = late
      BY <3>2, <3>6, <3>7 DEF Sampled
    <3> QED BY <3>4, <3>5, <3>7, <3>8 DEF SlotTrue
  <2> QED BY <2>1, <2>2
<1>10. Unfinished'
  <2>1. \A i \in 1..Len(live) : ~row'[groups'[k].rows[i]].finished
    BY <1>6, <1>7, <1>8
  <2> QED BY <1>4, <1>6, <2>1 DEF Unfinished, Current
<1>11. ASSUME NEW r \in Rows, ~row[r].completed, Away(r)' PROVE Away(r) /\ ~Kept(r)
  <2>1. ~Kept(r)
    <3> SUFFICES ASSUME NEW j \in 1..Len(live), live[j].row = r PROVE FALSE
      BY <1>2 DEF Kept
    <3>1. ~Pending(r) /\ AdapterOf[Owner[r]] = k
      BY <1>8
    <3>2. In(groups'[k].rows, r)
      BY <1>6 DEF In
    <3> QED BY <1>3, <1>11, <3>1, <3>2 DEF Away, Pending
  <2>2. CASE AdapterOf[Owner[r]] # k
    BY <1>3, <1>6, <1>11, <2>1, <2>2, Belongs DEF Away, Pending
  <2>3. CASE AdapterOf[Owner[r]] = k
    <3>1. SUFFICES ASSUME In(groups[k].rows, r) PROVE Pending(r)
      BY <2>1, <2>3 DEF Away
    <3>2. PICK i \in 1..Len(Members(k)) : Members(k)[i] = r
      BY <3>1, Parts DEF In
    <3>3. i < loop.at
      BY <1>3
    <3>4. ~row[Members(k)[i]].completed
      BY <1>11, <3>2
    <3>5. Pending(Members(k)[i]) <=> ~Kept(Members(k)[i])
      BY <1>1, <1>3, <3>3, <3>4 DEF Owning, Building
    <3> QED BY <2>1, <3>2, <3>5, Zenon
  <2> QED BY <2>1, <2>2, <2>3
<1>12. AwayMatch'
  BY <1>3, <1>7, <1>11, AwayFrame DEF StateMatch
<1>13. OwnExport' /\ KeptFrom'
  BY <1>3, <1>4, <1>5 DEF StateMatch, OwnExport, KeptFrom
<1>14. NoneIncoming'
  BY <1>4, <1>6 DEF NoneIncoming, Current
<1> QED BY <1>9, <1>10, <1>12, <1>13, <1>14 DEF StateMatch

(* Every step keeps the states of the rows. *)
LEMMA StateStep ==
  ASSUME IInv, HInv, StateMatch, [Next]_vars
  PROVE  StateMatch'
<1>1. TypeOK /\ Shape /\ Homed /\ Owning
  BY DEF IInv, HInv, Homed
<1>2. ASSUME NEW q \in Requests, Client(q) PROVE StateMatch'
  BY <1>1, <1>2, ClientState, StateFrame
<1>3. CASE Loop
  BY <1>1, <1>3, OwnerState, AdmitState, AdmitRowState, RebuildRowState, RebuildCommitState,
     SampleRowState, ForwardState, FailRowState, FailDoneState DEF Loop
<1>4. CASE Destroy \/ Terminated \/ UNCHANGED vars
  <2>1. /\ row' = row /\ exported' = exported /\ groups' = groups /\ loop' = loop
        /\ pending_rows' = pending_rows
    BY <1>4 DEF Destroy, Terminated, vars, objects, placement
  <2>2. RowsKept
    BY <2>1 DEF RowsKept, RowKept
  <2> QED BY <1>1, <2>1, <2>2, StateFrame
<1> QED BY <1>2, <1>3, <1>4 DEF Next
-----------------------------------------------------------------------------
(* Every set of numbers has a least one: the induction below. *)
LEMMA Least ==
  ASSUME NEW T \in SUBSET Nat, T # {}
  PROVE  \E n \in T : \A m \in T : n <= m
<1> DEFINE R == OpToRel(<, Nat)
<1>1. IsWellFoundedOn(R, Nat)
  BY NatLessThanWellFounded, Zenon
<1> HIDE DEF R
<1>2. PICK x \in T : \A y \in T : ~ (<<y, x>> \in R)
  BY <1>1, WFMin
<1>3. \A y \in T : <<y, x>> \in R <=> y < x
  BY DEF R, OpToRel
<1>4. ASSUME NEW y \in T PROVE x <= y
  <2>1. x \in Nat /\ y \in Nat /\ ~(y < x)
    BY <1>2, <1>3
  <2> QED BY <2>1
<1> QED BY <1>4

(* Induction over the numbers, by the least counterexample. *)
LEMMA Induct ==
  ASSUME NEW T, 0 \in T, \A n \in Nat : n \in T => n + 1 \in T
  PROVE  \A n \in Nat : n \in T
<1> SUFFICES ASSUME Nat \ T # {} PROVE FALSE
  OBVIOUS
<1>1. PICK n \in Nat \ T : \A m \in Nat \ T : n <= m
  BY Least
<1>2. n # 0
  OBVIOUS
<1>3. n - 1 \in Nat /\ n - 1 \in T
  BY <1>1, <1>2
<1> QED BY <1>3

(* A running count of a row's tokens in a sequence of events. *)
Counts(f, s, r) ==
  f[0] = 0 /\ \A i \in 1..Len(s) : f[i] = f[i - 1] + TokensOf(s[i], r)

(* The count in TokensIn is defined on every sequence. *)
LEMMA CountExists ==
  ASSUME NEW s \in Seq(Event), NEW r
  PROVE  \E f : Counts(f, s, r) /\ TokensIn(s, r) = f[Len(s)]
<1> DEFINE Sum(f, n) == f = [i \in 0..n |-> IF i = 0 THEN 0 ELSE f[i - 1] + TokensOf(s[i], r)]
           T == {n \in Nat : \E f : Sum(f, n)}
<1>1. 0 \in T
  <2>1. PICK f : f = [i \in 0..0 |-> 0]
    OBVIOUS
  <2>2. Sum(f, 0)
    BY <2>1
  <2> QED BY <2>2
<1>2. ASSUME NEW n \in Nat, n \in T PROVE n + 1 \in T
  <2>1. PICK f : Sum(f, n)
    BY <1>2
  <2>2. PICK g : g = [i \in 0..(n + 1) |-> IF i = 0 THEN 0 ELSE f[i - 1] + TokensOf(s[i], r)]
    OBVIOUS
  <2>3. ASSUME NEW i \in 0..n PROVE g[i] = f[i]
    <3>1. f[i] = IF i = 0 THEN 0 ELSE f[i - 1] + TokensOf(s[i], r)
      BY <2>1
    <3>2. i \in 0..(n + 1)
      OBVIOUS
    <3>3. g[i] = IF i = 0 THEN 0 ELSE f[i - 1] + TokensOf(s[i], r)
      BY <2>2, <3>2
    <3> QED BY <3>1, <3>3
  <2>4. \A i \in 0..(n + 1) : i # 0 => i - 1 \in 0..n
    OBVIOUS
  <2>5. Sum(g, n + 1)
    BY <2>2, <2>3, <2>4
  <2>6. \E h : Sum(h, n + 1)
    BY <2>5
  <2> HIDE DEF Sum
  <2> QED BY <2>6
<1> HIDE DEF T
<1>3. Len(s) \in Nat /\ \A n \in Nat : n \in T
  BY <1>1, <1>2, Induct
<1>4. \E f : Sum(f, Len(s))
  BY <1>3 DEF T
<1>5. PICK f : f = CHOOSE g : Sum(g, Len(s))
  OBVIOUS
<1>6. Sum(f, Len(s))
  BY <1>4, <1>5
<1>7. TokensIn(s, r) = f[Len(s)]
  BY <1>5 DEF TokensIn
<1>8. Counts(f, s, r)
  <2>1. f[0] = 0
    BY <1>3, <1>6
  <2>2. ASSUME NEW i \in 1..Len(s) PROVE f[i] = f[i - 1] + TokensOf(s[i], r)
    <3>1. i \in 0..Len(s) /\ i # 0
      BY <1>3
    <3> QED BY <1>6, <3>1
  <2> HIDE DEF Sum
  <2> QED BY <2>1, <2>2 DEF Counts
<1> QED BY <1>7, <1>8

(* There is one count of a sequence. *)
LEMMA CountUnique ==
  ASSUME NEW s \in Seq(Event), NEW r, NEW g, Counts(g, s, r)
  PROVE  /\ TokensIn(s, r) = g[Len(s)] /\ TokensIn(s, r) \in Nat
         /\ \A i \in 0..Len(s) : g[i] \in Nat
<1>1. PICK f : Counts(f, s, r) /\ TokensIn(s, r) = f[Len(s)]
  BY CountExists
<1> DEFINE T == {n \in Nat : n <= Len(s) => f[n] = g[n] /\ g[n] \in Nat}
<1>2. Len(s) \in Nat /\ \A i \in 1..Len(s) : s[i] \in Event
  OBVIOUS
<1>3. \A i \in 1..Len(s) : TokensOf(s[i], r) \in Nat
  BY <1>2 DEF TokensOf, Event
<1>4. 0 \in T
  BY <1>1 DEF Counts
<1>5. ASSUME NEW n \in Nat, n \in T PROVE n + 1 \in T
  <2> SUFFICES ASSUME n + 1 <= Len(s) PROVE f[n + 1] = g[n + 1] /\ g[n + 1] \in Nat
    OBVIOUS
  <2>1. n + 1 \in 1..Len(s) /\ (n + 1) - 1 = n
    BY <1>2
  <2>2. f[n + 1] = f[n] + TokensOf(s[n + 1], r) /\ g[n + 1] = g[n] + TokensOf(s[n + 1], r)
    BY <1>1, <2>1 DEF Counts
  <2>3. f[n] = g[n] /\ g[n] \in Nat
    BY <1>2, <1>5
  <2> QED BY <1>3, <2>1, <2>2, <2>3
<1> HIDE DEF T
<1>6. \A n \in Nat : n \in T
  BY <1>4, <1>5, Induct
<1>7. \A n \in 0..Len(s) : f[n] = g[n] /\ g[n] \in Nat
  BY <1>2, <1>6 DEF T
<1> QED BY <1>1, <1>2, <1>7

(* No events, one event. *)
LEMMA CountFew ==
  ASSUME NEW r
  PROVE  /\ TokensIn(<<>>, r) = 0
         /\ \A e \in Event : TokensIn(<<e>>, r) = TokensOf(e, r)
<1>1. TokensIn(<<>>, r) = 0
  <2> <<>> \in Seq(Event)
    OBVIOUS
  <2>1. PICK s \in Seq(Event) : s = <<>>
    OBVIOUS
  <2>2. PICK g : g = [i \in 0..0 |-> 0]
    OBVIOUS
  <2>3. Len(s) = 0
    BY <2>1
  <2>4. Counts(g, s, r)
    BY <2>2, <2>3 DEF Counts
  <2> QED BY <2>1, <2>2, <2>3, <2>4, CountUnique
<1>2. ASSUME NEW e \in Event PROVE TokensIn(<<e>>, r) = TokensOf(e, r)
  <2>1. PICK s \in Seq(Event) : s = <<e>>
    BY SingletonSeq
  <2>2. PICK n \in Nat : n = TokensOf(e, r)
    BY DEF TokensOf, Event
  <2>3. PICK g : g = [i \in 0..1 |-> IF i = 0 THEN 0 ELSE n]
    OBVIOUS
  <2>4. Len(s) = 1 /\ s[1] = e
    BY <2>1
  <2>5. g[0] = 0 /\ g[1] = n
    BY <2>3
  <2>6. Counts(g, s, r)
    BY <2>2, <2>4, <2>5 DEF Counts
  <2>7. TokensIn(s, r) = n
    BY <2>4, <2>5, <2>6, CountUnique
  <2> QED BY <2>1, <2>2, <2>7
<1> QED BY <1>1, <1>2

(* Two sequences, one after the other. *)
LEMMA CountConcat ==
  ASSUME NEW s \in Seq(Event), NEW t \in Seq(Event), NEW r
  PROVE  /\ TokensIn(s \o t, r) = TokensIn(s, r) + TokensIn(t, r)
         /\ TokensIn(s, r) \in Nat /\ TokensIn(t, r) \in Nat
<1> s \o t \in Seq(Event)
  OBVIOUS
<1>1. PICK u \in Seq(Event) : u = s \o t
  OBVIOUS
<1>2. PICK f : Counts(f, s, r) /\ TokensIn(s, r) = f[Len(s)]
  BY CountExists
<1>3. PICK h : Counts(h, t, r) /\ TokensIn(t, r) = h[Len(t)]
  BY CountExists
<1>4. PICK m \in Nat, n \in Nat : m = Len(s) /\ n = Len(t)
  OBVIOUS
<1>5. Len(u) = m + n /\ \A i \in 1..(m + n) : u[i] = IF i <= m THEN s[i] ELSE t[i - m]
  BY <1>1, <1>4
<1>6. /\ \A i \in 0..m : f[i] \in Nat
      /\ \A i \in 0..n : h[i] \in Nat
      /\ TokensIn(s, r) \in Nat /\ TokensIn(t, r) \in Nat
  BY <1>2, <1>3, <1>4, CountUnique
<1>7. PICK g : g = [i \in 0..(m + n) |-> IF i <= m THEN f[i] ELSE f[m] + h[i - m]]
  OBVIOUS
<1>8. \A i \in 0..(m + n) : g[i] = IF i <= m THEN f[i] ELSE f[m] + h[i - m]
  BY <1>7
<1>9. g[0] = 0
  BY <1>2, <1>8 DEF Counts
<1>10. ASSUME NEW i \in 1..(m + n) PROVE g[i] = g[i - 1] + TokensOf(u[i], r)
  <2>1. i - 1 \in 0..(m + n) /\ i \in 0..(m + n)
    OBVIOUS
  <2>2. CASE i <= m
    <3>1. g[i] = f[i] /\ g[i - 1] = f[i - 1] /\ u[i] = s[i] /\ i \in 1..m
      BY <1>5, <1>8, <2>1, <2>2
    <3>2. f[i] = f[i - 1] + TokensOf(s[i], r)
      BY <1>2, <1>4, <3>1 DEF Counts
    <3> QED BY <3>1, <3>2
  <2>3. CASE i > m
    <3>1. g[i] = f[m] + h[i - m] /\ u[i] = t[i - m] /\ i - m \in 1..n
      BY <1>5, <1>8, <2>1, <2>3
    <3>2. h[i - m] = h[(i - m) - 1] + TokensOf(t[i - m], r)
      BY <1>3, <1>4, <3>1 DEF Counts
    <3>3. g[i - 1] = f[m] + h[(i - m) - 1]
      <4>1. CASE i - 1 = m
        <5>1. g[i - 1] = f[m] /\ (i - m) - 1 = 0
          BY <1>8, <2>1, <4>1
        <5> QED BY <1>3, <1>6, <5>1 DEF Counts
      <4>2. CASE i - 1 # m
        <5>1. ~(i - 1 <= m) /\ (i - 1) - m = (i - m) - 1
          BY <2>3, <4>2
        <5> QED BY <1>8, <2>1, <5>1
      <4> QED BY <4>1, <4>2
    <3>4. f[m] \in Nat /\ h[(i - m) - 1] \in Nat /\ TokensOf(t[i - m], r) \in Nat
      <4>1. m \in 0..m /\ (i - m) - 1 \in 0..n
        BY <3>1
      <4>2. t[i - m] \in Event
        BY <1>4, <3>1
      <4> QED BY <1>6, <4>1, <4>2 DEF TokensOf, Event
    <3> QED BY <3>1, <3>2, <3>3, <3>4
  <2> QED BY <2>2, <2>3
<1>11. Counts(g, u, r)
  BY <1>5, <1>9, <1>10 DEF Counts
<1>12. TokensIn(u, r) = g[m + n]
  BY <1>5, <1>11, CountUnique
<1>13. g[m + n] = f[m] + h[n]
  <2>1. m + n \in 0..(m + n)
    OBVIOUS
  <2>2. CASE n = 0
    <3>1. g[m + n] = f[m]
      BY <1>8, <2>1, <2>2
    <3> QED BY <1>3, <1>6, <2>2, <3>1 DEF Counts
  <2>3. CASE n # 0
    <3>1. ~(m + n <= m) /\ (m + n) - m = n
      BY <2>3
    <3> QED BY <1>8, <2>1, <3>1
  <2> QED BY <2>2, <2>3
<1> QED BY <1>1, <1>2, <1>3, <1>4, <1>6, <1>12, <1>13
-----------------------------------------------------------------------------
(* A step that neither adds nor hands over an event. *)
SameEvents ==
  /\ delivered' = delivered
  /\ \A q \in Requests :
       /\ client'[q].batch = client[q].batch /\ client'[q].accepting = client[q].accepting
       /\ client'[q].callback_error = client[q].callback_error
       /\ req'[q].events = req[q].events /\ req'[q].remaining = req[q].remaining
  /\ \A r \in Rows :
       /\ row'[r].step = row[r].step /\ row'[r].pending = row[r].pending
       /\ row'[r].completed = row[r].completed

(* A step in which the owner adds the events t of row x: a stop notice only *)
(* as the last one, of a row that completes; the text of the tokens that    *)
(* are no longer buffered.                                                 *)
Emission(x, t) ==
  /\ t \in Seq(Event) /\ ~row[x].completed
  /\ \A i \in 1..Len(t) :
       /\ t[i].row = x
       /\ t[i].stop => i = Len(t) /\ row'[x].completed
       /\ ~t[i].stop => t[i].tokens > 0
  /\ TokensIn(t, x) + row'[x].pending + row[x].step = row[x].pending + row'[x].step
  /\ row'[x].completed => row'[x].pending = 0 /\ Len(t) <= 2 /\ row'[x].step = row[x].step
  /\ ~row'[x].completed => Len(t) <= 1
  /\ delivered' = delivered /\ client' = client
  /\ req'[Owner[x]].events = req[Owner[x]].events \o t
  /\ req'[Owner[x]].remaining = IF row'[x].completed THEN req[Owner[x]].remaining - 1
                                                     ELSE req[Owner[x]].remaining
  /\ \A q \in Requests : q # Owner[x] =>
       req'[q].events = req[q].events /\ req'[q].remaining = req[q].remaining
  /\ \A s \in Rows : s # x =>
       /\ row'[s].step = row[s].step /\ row'[s].pending = row[s].pending
       /\ row'[s].completed = row[s].completed

(* The steps of the owner that touch no events. *)
LEMMA OwnerQuiet ==
  ASSUME TypeOK, Shape,
         \/ LoopTop \/ Admit \/ Arrived \/ AdmitDone \/ RunChunk \/ CheckControls
         \/ (\E a \in Adapters : BeginStep(a)) \/ EndSweep \/ RebuildCommit
         \/ SampleDone \/ Forward \/ StepThrows \/ FailDone
  PROVE  SameEvents
<1>1. /\ req \in [Requests -> RequestRecord] /\ row \in [Rows -> RowRecord]
      /\ client \in [Requests -> ClientRecord]
  BY DEF TypeOK
<1>2. CASE LoopTop \/ Admit \/ AdmitDone \/ EndSweep \/ SampleDone \/ StepThrows \/ FailDone
  BY <1>2 DEF LoopTop, Admit, AdmitDone, EndSweep, SampleDone, StepThrows, FailDone,
              objects, callers, SameEvents
<1>3. CASE Arrived \/ \E a \in Adapters : BeginStep(a)
  <2>1. (req' = req \/ \E S : req' = Cancel(S)) /\ row' = row
    BY <1>3, Zenon DEF Arrived, PendingAfterShutdown, BeginStep
  <2>2. client' = client /\ delivered' = delivered
    BY <1>3, Zenon DEF Arrived, BeginStep, callers
  <2>3. \A q \in Requests : req'[q].events = req[q].events /\ req'[q].remaining = req[q].remaining
    BY <1>1, <2>1, Zenon DEF Cancel, RequestRecord
  <2> QED BY <2>1, <2>2, <2>3 DEF SameEvents
<1>4. CASE CheckControls
  <2> DEFINE asked == {q \in Controlled :
                /\ ~req[q].cancelled
                /\ \E r \in Resident : Owner[r] = q /\ ~row[r].completed}
  <2>1. PICK answer \in [asked -> {"go", "stop", "throw"}] :
          req' = [q \in Requests |->
                    IF q \in asked /\ answer[q] # "go"
                      THEN [req[q] EXCEPT !.cancelled = TRUE, !.error = answer[q] = "throw"]
                      ELSE req[q]]
    BY <1>4, Zenon DEF CheckControls
  <2>2. row' = row /\ client' = client /\ delivered' = delivered
    BY <1>4, Zenon DEF CheckControls, callers
  <2> HIDE DEF asked
  <2> QED BY <1>1, <2>1, <2>2, Zenon DEF SameEvents, RequestRecord
<1>5. CASE RunChunk
  <2>1. row' = row /\ req' = req /\ delivered' = delivered
    BY <1>5 DEF RunChunk, objects
  <2>2. \A q \in Requests : /\ client'[q].batch = client[q].batch
                            /\ client'[q].accepting = client[q].accepting
                            /\ client'[q].callback_error = client[q].callback_error
    <3>1. CASE client' = client
      BY <3>1
    <3>2. CASE client' # client
      <4>1. loop.chunk \in Seq(Requests) /\ loop.chunk # <<>>
        BY <1>5, <3>2 DEF TypeOK, LoopRecord, RunChunk
      <4>2. \/ \E n : client' = [client EXCEPT ![loop.chunk[1]].stage = "new",
                                               ![loop.chunk[1]].chunks = n]
            \/ client' = [client EXCEPT ![loop.chunk[1]].stage = "threw"]
        BY <1>5, <3>2 DEF RunChunk
      <4>3. PICK p \in Requests : p = loop.chunk[1]
        BY <4>1
      <4>4. CASE client' = [client EXCEPT ![p].stage = "threw"]
        BY <1>1, <4>4 DEF ClientRecord
      <4>5. ASSUME NEW n, client' = [client EXCEPT ![p].stage = "new", ![p].chunks = n]
            PROVE  \A q \in Requests : /\ client'[q].batch = client[q].batch
                                       /\ client'[q].accepting = client[q].accepting
                                       /\ client'[q].callback_error = client[q].callback_error
        BY <1>1, <4>5 DEF ClientRecord
      <4> QED BY <4>2, <4>3, <4>4, <4>5
    <3> QED BY <3>1, <3>2
  <2> QED BY <2>1, <2>2 DEF SameEvents
<1>6. CASE RebuildCommit
  <2>1. req' = req /\ client' = client /\ delivered' = delivered
    BY <1>6 DEF RebuildCommit, callers
  <2>2. \A r \in Rows : /\ row'[r].step = row[r].step /\ row'[r].pending = row[r].pending
                        /\ row'[r].completed = row[r].completed
    BY <1>1, <1>6 DEF RebuildCommit, RowRecord
  <2> QED BY <2>1, <2>2 DEF SameEvents
<1>7. CASE Forward
  <2>1. req' = req /\ client' = client /\ delivered' = delivered
    BY <1>7 DEF Forward, callers
  <2>2. \A r \in Rows : /\ row'[r].step = row[r].step /\ row'[r].pending = row[r].pending
                        /\ row'[r].completed = row[r].completed
    BY <1>1, <1>7 DEF Forward, RowRecord
  <2> QED BY <2>1, <2>2 DEF SameEvents
<1> QED BY <1>2, <1>3, <1>4, <1>5, <1>6, <1>7

(* So do a caller's steps outside the event queue. *)
LEMMA CallerQuiet ==
  ASSUME TypeOK, NEW q \in Requests, SubmitPrefill(q) \/ SubmitGenerate(q) \/ Conclude(q)
  PROVE  SameEvents /\ (\E s \in Stages \ {"delivering"} : client' = [client EXCEPT ![q].stage = s])
<1>1. RowsKept
  BY ClientState DEF Client
<1>2. /\ req \in [Requests -> RequestRecord] /\ client \in [Requests -> ClientRecord]
  BY DEF TypeOK
<1>3. req' = req /\ delivered' = delivered
  BY DEF SubmitPrefill, SubmitGenerate, Conclude, objects
<1>4. PICK s \in Stages \ {"delivering"} : client' = [client EXCEPT ![q].stage = s]
  <2>1. CASE SubmitPrefill(q) \/ SubmitGenerate(q)
    BY <2>1 DEF SubmitPrefill, SubmitGenerate, Stages
  <2>2. CASE Conclude(q)
    <3>1. client[q].done \in BOOLEAN
      BY <1>2 DEF ClientRecord
    <3>2. PICK next : /\ client' = [client EXCEPT ![q].stage = next]
                      /\ next = CASE ~client[q].done -> "waiting"
                            [] client[q].done /\ (client[q].callback_error \/ req[q].error) -> "threw"
                            [] client[q].done /\ ~(client[q].callback_error \/ req[q].error) -> "returned"
      BY <2>2 DEF Conclude
    <3>3. next \in Stages \ {"delivering"}
      BY <3>1, <3>2 DEF Stages
    <3> QED BY <3>2, <3>3
  <2> QED BY <2>1, <2>2
<1>5. SameEvents
  BY <1>1, <1>2, <1>3, <1>4 DEF SameEvents, RowsKept, RowKept, ClientRecord
<1> QED BY <1>4, <1>5
(* The text of n tokens is one event that counts n, or none. *)
LEMMA TextIs ==
  ASSUME NEW x \in Rows, NEW n \in Nat
  PROVE  /\ TextEvent(x, n) \in Seq(Event) /\ Len(TextEvent(x, n)) <= 1
         /\ \A i \in 1..Len(TextEvent(x, n)) :
              /\ TextEvent(x, n)[i].row = x /\ ~TextEvent(x, n)[i].stop
              /\ TextEvent(x, n)[i].tokens > 0
         /\ TokensIn(TextEvent(x, n), x) = n
<1>1. PICK e \in Event : e = [row |-> x, tokens |-> n, stop |-> FALSE]
  BY DEF Event
<1>2. PICK t : t = TextEvent(x, n)
  OBVIOUS
<1>3. CASE n = 0
  <2>1. t = <<>> /\ <<>> \in Seq(Event)
    BY <1>2, <1>3 DEF TextEvent
  <2>2. Len(t) = 0
    BY <2>1
  <2>3. TokensIn(t, x) = 0
    BY <2>1, CountFew
  <2>4. t \in Seq(Event)
    BY <2>1
  <2> QED BY <1>2, <1>3, <2>2, <2>3, <2>4
<1>4. CASE n # 0
  <2>1. t = <<e>>
    BY <1>1, <1>2, <1>4 DEF TextEvent
  <2>2. Len(t) = 1 /\ t[1] = e
    BY <2>1
  <2>3. t \in Seq(Event)
    BY <2>1, SingletonSeq
  <2>4. TokensIn(t, x) = n
    BY <1>1, <2>1, CountFew DEF TokensOf
  <2>5. e.row = x /\ ~e.stop /\ e.tokens > 0
    BY <1>1, <1>4
  <2> QED BY <1>2, <2>2, <2>3, <2>4, <2>5
<1> QED BY <1>3, <1>4

(* complete() adds at most two events: what is left and the stop notice. *)
LEMMA FinalIs ==
  ASSUME TypeOK, NEW x \in Rows, NEW c \in BOOLEAN
  PROVE  /\ FinalEvents(x, c) \in Seq(Event) /\ Len(FinalEvents(x, c)) <= 2
         /\ \A i \in 1..Len(FinalEvents(x, c)) :
              LET e == FinalEvents(x, c)[i]
              IN  /\ e.row = x
                  /\ e.stop => i = Len(FinalEvents(x, c))
                  /\ ~e.stop => e.tokens > 0
         /\ TokensIn(FinalEvents(x, c), x) = row[x].pending
<1>1. PICK n \in Nat : n = row[x].pending
  BY DEF TypeOK, RowRecord
<1>2. PICK s \in Seq(Event) : s = TextEvent(x, n)
  BY EventTypes
<1>3. PICK t \in Seq(Event) : t = StopEvent(x, c)
  BY EventTypes
<1>4. /\ Len(s) <= 1 /\ TokensIn(s, x) = n
      /\ \A i \in 1..Len(s) : s[i].row = x /\ ~s[i].stop /\ s[i].tokens > 0
  BY <1>2, TextIs
<1>5. /\ Len(t) <= 1 /\ TokensIn(t, x) = 0
      /\ \A i \in 1..Len(t) : t[i].row = x /\ t[i].stop
  <2>1. PICK e \in Event : e = [row |-> x, tokens |-> 0, stop |-> TRUE]
    BY DEF Event
  <2>2. CASE t = <<>>
    <3>1. Len(t) = 0
      BY <2>2
    <3>2. TokensIn(t, x) = 0
      BY <2>2, CountFew
    <3> QED BY <3>1, <3>2
  <2>3. CASE t = <<e>>
    <3>1. Len(t) = 1 /\ t[1] = e
      BY <2>3
    <3>2. TokensIn(t, x) = 0
      BY <2>1, <2>3, CountFew DEF TokensOf
    <3> QED BY <2>1, <3>1, <3>2
  <2> QED BY <1>3, <2>1, <2>2, <2>3 DEF StopEvent
<1>6. PICK u : u = s \o t
  OBVIOUS
<1>7. u = FinalEvents(x, c)
  BY <1>1, <1>2, <1>3, <1>6 DEF FinalEvents
<1>8. PICK m \in Nat, k \in Nat : m = Len(s) /\ k = Len(t)
  OBVIOUS
<1>9. /\ u \in Seq(Event) /\ Len(u) = m + k
      /\ \A i \in 1..(m + k) : u[i] = IF i <= m THEN s[i] ELSE t[i - m]
  BY <1>6, <1>8
<1>10. TokensIn(u, x) = n
  <2>1. TokensIn(s \o t, x) = TokensIn(s, x) + TokensIn(t, x)
    BY CountConcat
  <2> QED BY <1>4, <1>5, <1>6, <2>1
<1>11. ASSUME NEW i \in 1..(m + k)
       PROVE  u[i].row = x /\ (u[i].stop => i = m + k) /\ (~u[i].stop => u[i].tokens > 0)
  <2>1. CASE i <= m
    <3>1. u[i] = s[i] /\ i \in 1..m
      BY <1>9, <2>1
    <3> QED BY <1>4, <1>8, <3>1
  <2>2. CASE ~(i <= m)
    <3>1. u[i] = t[i - m] /\ i - m \in 1..k /\ (k <= 1 => i = m + k)
      BY <1>9, <2>2
    <3> QED BY <1>5, <1>8, <3>1
  <2> QED BY <2>1, <2>2
<1>12. m + k <= 2
  BY <1>4, <1>5, <1>8
<1> QED BY <1>1, <1>7, <1>9, <1>10, <1>11, <1>12

(* What complete() does to the queue of events. *)
LEMMA CompleteReqIs ==
  ASSUME TypeOK, NEW x \in Rows, NEW c \in BOOLEAN, ~row[x].completed
  PROVE  /\ CompleteReq(x, c)[Owner[x]].events = req[Owner[x]].events \o FinalEvents(x, c)
         /\ CompleteReq(x, c)[Owner[x]].remaining = req[Owner[x]].remaining - 1
         /\ CompleteReq(x, c)[Owner[x]].error = req[Owner[x]].error
         /\ \A q \in Requests : q # Owner[x] => CompleteReq(x, c)[q] = req[q]
<1> DEFINE e == req[Owner[x]].events \o FinalEvents(x, c)
           n == req[Owner[x]].remaining - 1
           d == req[Owner[x]].remaining = 1
<1>1. req \in [Requests -> RequestRecord] /\ Owner[x] \in Requests
  BY Belongs DEF TypeOK
<1>2. CompleteReq(x, c) = [req EXCEPT ![Owner[x]].events = e, ![Owner[x]].remaining = n,
                                      ![Owner[x]].done = d]
  BY DEF CompleteReq, CountDown
<1> HIDE DEF e, n, d
<1>3. /\ CompleteReq(x, c)[Owner[x]].remaining = n /\ CompleteReq(x, c)[Owner[x]].events = e
      /\ CompleteReq(x, c)[Owner[x]].error = req[Owner[x]].error
      /\ \A q \in Requests : q # Owner[x] => CompleteReq(x, c)[q] = req[q]
  BY <1>1, <1>2 DEF RequestRecord
<1> QED BY <1>3 DEF e, n

(* A step that completes a row adds its last events. *)
LEMMA CompleteEmits ==
  ASSUME TypeOK, NEW x \in Rows, NEW c \in BOOLEAN, row' = CompleteRow(x, c),
         client' = client, delivered' = delivered,
         \A q \in Requests : /\ req'[q].events = CompleteReq(x, c)[q].events
                             /\ req'[q].remaining = CompleteReq(x, c)[q].remaining
  PROVE  IF row[x].completed THEN SameEvents
         ELSE row'[x].completed /\ Emission(x, FinalEvents(x, c))
<1>1. CASE row[x].completed
  <2>1. row' = row /\ CompleteReq(x, c) = req
    BY <1>1 DEF CompleteRow, CompleteReq
  <2> QED BY <1>1, <2>1 DEF SameEvents
<1>2. CASE ~row[x].completed
  <2>1. PICK t : t = FinalEvents(x, c)
    OBVIOUS
  <2>2. /\ t \in Seq(Event) /\ Len(t) <= 2 /\ TokensIn(t, x) = row[x].pending
        /\ \A i \in 1..Len(t) : /\ t[i].row = x /\ (t[i].stop => i = Len(t))
                                /\ ~t[i].stop => t[i].tokens > 0
    BY <2>1, FinalIs
  <2>3. Owner[x] \in Requests
    BY Belongs
  <2>4. /\ req'[Owner[x]].events = req[Owner[x]].events \o t
        /\ req'[Owner[x]].remaining = req[Owner[x]].remaining - 1
        /\ \A q \in Requests : q # Owner[x] =>
             req'[q].events = req[q].events /\ req'[q].remaining = req[q].remaining
    BY <1>2, <2>1, <2>3, CompleteReqIs
  <2>5. /\ row'[x].completed /\ row'[x].pending = 0 /\ row'[x].step = row[x].step
        /\ \A s \in Rows : s # x =>
             /\ row'[s].step = row[s].step /\ row'[s].pending = row[s].pending
             /\ row'[s].completed <=> row[s].completed
    BY <1>2, CompleteRowIs
  <2>6. \A s \in Rows : row'[s].completed \in BOOLEAN /\ row[s].completed \in BOOLEAN
    <3>1. CompleteRow(x, c) \in [Rows -> RowRecord]
      BY CompleteRowType
    <3> QED BY <3>1 DEF TypeOK, RowRecord
  <2>7. row[x].pending \in Nat /\ row[x].step \in Nat
    BY DEF TypeOK, RowRecord
  <2>8. TokensIn(t, x) + row'[x].pending + row[x].step = row[x].pending + row'[x].step
    BY <2>2, <2>5, <2>7
  <2>9. Emission(x, t)
    BY <1>2, <2>2, <2>4, <2>5, <2>6, <2>8 DEF Emission
  <2> QED BY <1>2, <2>1, <2>5, <2>9
<1> QED BY <1>1, <1>2

(* The owner appends e to the events of row x's request. *)
Adds(x, e) ==
  \E t : t = req[Owner[x]].events \o e /\ req' = [req EXCEPT ![Owner[x]].events = t]

(* The tokens of a flush, and those that stay buffered. *)
LEMMA Balance ==
  ASSUME TypeOK, NEW x \in Rows, NEW n \in Nat, row'[x].pending \in Nat,
         n + row'[x].pending = row[x].pending + 1, row'[x].step = row[x].step + 1
  PROVE  n + row'[x].pending + row[x].step = row[x].pending + row'[x].step
<1>1. row[x].pending \in Nat /\ row[x].step \in Nat
  BY DEF TypeOK, RowRecord
<1> QED BY <1>1

(* What is not flushed stays. *)
LEMMA Flush ==
  \A a \in Nat : \A k \in 0..(a + 1) :
     (a + 1) - k \in Nat /\ k \in Nat /\ ((a + 1) - k) + k = a + 1
  OBVIOUS

(* A token sampled, with what is flushed of the text buffered so far. *)
LEMMA TextEmits ==
  ASSUME TypeOK, NEW x \in Rows, ~row[x].completed, client' = client, delivered' = delivered,
         \A s \in Rows : s # x => row'[s] = row[s],
         ~row'[x].completed, row'[x].step = row[x].step + 1,
         NEW n \in Nat, n + row'[x].pending = row[x].pending + 1, row'[x].pending \in Nat,
         NEW e, e = TextEvent(x, n), Adds(x, e)
  PROVE  Emission(x, e)
<1>1. /\ e \in Seq(Event) /\ Len(e) <= 1 /\ TokensIn(e, x) = n
      /\ \A i \in 1..Len(e) : e[i].row = x /\ ~e[i].stop /\ e[i].tokens > 0
  BY TextIs
<1>2. row[x].pending \in Nat /\ row[x].step \in Nat
  BY DEF TypeOK, RowRecord
<1>3. TokensIn(e, x) + row'[x].pending + row[x].step = row[x].pending + row'[x].step
  <2>1. n + row'[x].pending + row[x].step = row[x].pending + row'[x].step
    BY Balance, Zenon
  <2> QED BY <1>1, <2>1, Zenon
<1>4. /\ req'[Owner[x]].events = req[Owner[x]].events \o e
      /\ req'[Owner[x]].remaining = req[Owner[x]].remaining
      /\ \A q \in Requests : q # Owner[x] => req'[q] = req[q]
  <2>1. PICK t : t = req[Owner[x]].events \o e /\ req' = [req EXCEPT ![Owner[x]].events = t]
    BY DEF Adds
  <2>2. req \in [Requests -> RequestRecord] /\ Owner[x] \in Requests
    BY Belongs DEF TypeOK
  <2>3. req'[Owner[x]].events = t /\ req'[Owner[x]].remaining = req[Owner[x]].remaining
        /\ \A q \in Requests : q # Owner[x] => req'[q] = req[q]
    <3>1. PICK o : o = [req[Owner[x]] EXCEPT !.events = t]
      OBVIOUS
    <3>2. o.events = t /\ o.remaining = req[Owner[x]].remaining
      BY <2>2, <3>1 DEF RequestRecord
    <3>3. req' = [req EXCEPT ![Owner[x]] = o]
      BY <2>1, <3>1
    <3> QED BY <2>2, <3>2, <3>3
  <2> QED BY <2>1, <2>3
<1> QED BY <1>1, <1>3, <1>4 DEF Emission

(* Sampling a token may flush the text buffered so far. *)
LEMMA SampleEmits ==
  ASSUME TypeOK, Shape, SampleRow, NEW x \in Rows, x = Current.rows[loop.at],
         ~row[x].completed
  PROVE  SameEvents \/ (\E t : Emission(x, t))
<1>1. client' = client /\ delivered' = delivered
  BY DEF SampleRow, callers
<1>2. \A s \in Rows : s # x => row'[s] = row[s]
  BY SampleRowIs
<1>3. row'[x].completed = row[x].completed
  BY SampleRowIs
<1>4. CASE row'[x].step = row[x].step /\ row'[x].pending = row[x].pending /\ req' = req
  <2>1. \A s \in Rows : /\ row'[s].step = row[s].step /\ row'[s].pending = row[s].pending
                        /\ row'[s].completed = row[s].completed
    BY <1>2, <1>3, <1>4
  <2> QED BY <1>1, <1>4, <2>1 DEF SameEvents
<1>5. CASE /\ row'[x].step = row[x].step + 1 /\ row'[x].pending \in 0..(row[x].pending + 1)
           /\ \E e, t : /\ e = TextEvent(x, (row[x].pending + 1) - row'[x].pending)
                        /\ t = req[Owner[x]].events \o e
                        /\ req' = [req EXCEPT ![Owner[x]].events = t]
  <2>1. PICK n : n = (row[x].pending + 1) - row'[x].pending
    OBVIOUS
  <2>2. row[x].pending \in Nat
    BY DEF TypeOK, RowRecord
  <2>3. n \in Nat /\ row'[x].pending \in Nat /\ n + row'[x].pending = row[x].pending + 1
    BY <1>5, <2>1, <2>2, Flush, Zenon
  <2>4. PICK e : e = TextEvent(x, n) /\ Adds(x, e)
    BY <1>5, <2>1, Zenon DEF Adds
  <2>5. row'[x].step = row[x].step + 1 /\ ~row'[x].completed
    BY <1>3, <1>5, Zenon
  <2>6. Emission(x, e)
    BY <1>1, <1>2, <2>3, <2>4, <2>5, TextEmits, Zenon
  <2> QED BY <2>6
<1>6. \/ row'[x].step = row[x].step /\ row'[x].pending = row[x].pending /\ req' = req
      \/ /\ row'[x].step = row[x].step + 1 /\ row'[x].pending \in 0..(row[x].pending + 1)
         /\ \E e, t : /\ e = TextEvent(x, (row[x].pending + 1) - row'[x].pending)
                      /\ t = req[Owner[x]].events \o e
                      /\ req' = [req EXCEPT ![Owner[x]].events = t]
  BY SampleRowIs
<1> QED BY <1>4, <1>5, <1>6, Zenon
(* Failing a row completes it, and marks its request. *)
LEMMA FailReqIs ==
  ASSUME TypeOK, Shape, CompletionAccounting, FailRow, NEW x \in Rows,
         x = Members(loop.cur)[loop.at], NEW c \in BOOLEAN, c = TRUE
  PROVE  /\ row' = CompleteRow(x, c) /\ client' = client /\ delivered' = delivered
         /\ \A q \in Requests : /\ req'[q].events = CompleteReq(x, c)[q].events
                                /\ req'[q].remaining = CompleteReq(x, c)[q].remaining
                                /\ req'[q].error => req[q].error \/ (q = Owner[x] /\ ~row[x].completed)
                                /\ req[q].error => req'[q].error
         /\ ~row[x].completed => req'[Owner[x]].error /\ req'[Owner[x]].cancelled
<1>1. row' = CompleteRow(x, c) /\ client' = client /\ delivered' = delivered
  BY Zenon DEF FailRow, callers
<1>2. PICK f : f = CompleteReq(x, c)
  OBVIOUS
<1>4. req' = IF row[x].completed THEN req
             ELSE [f EXCEPT ![Owner[x]].error = c, ![Owner[x]].cancelled = c]
  BY <1>2, Zenon DEF FailRow
<1>5. f \in [Requests -> RequestRecord] /\ Owner[x] \in Requests
  BY <1>2, CompleteReqType, Belongs
<1>6. CASE row[x].completed
  <2>1. req' = req /\ CompleteReq(x, c) = req
    BY <1>4, <1>6 DEF CompleteReq
  <2>2. ASSUME NEW q \in Requests
        PROVE  /\ req'[q].events = CompleteReq(x, c)[q].events
               /\ req'[q].remaining = CompleteReq(x, c)[q].remaining
               /\ req'[q].error => req[q].error
               /\ req[q].error => req'[q].error
    BY <2>1
  <2> QED BY <1>1, <1>6, <2>2
<1>7. CASE ~row[x].completed
  <2>1. PICK o : o = [f[Owner[x]] EXCEPT !.error = c, !.cancelled = c]
    OBVIOUS
  <2>2. o.error = c /\ o.cancelled = c /\ o.events = f[Owner[x]].events
        /\ o.remaining = f[Owner[x]].remaining
    BY <1>5, <2>1 DEF RequestRecord
  <2>3. req' = [f EXCEPT ![Owner[x]] = o]
    BY <1>4, <1>5, <1>7, <2>1, Zenon DEF RequestRecord
  <2>4. req'[Owner[x]] = o /\ \A q \in Requests : q # Owner[x] => req'[q] = f[q]
    BY <1>5, <2>3
  <2>5. \A q \in Requests : q # Owner[x] => f[q] = req[q]
    BY <1>2, <1>7, CompleteReqIs
  <2>6. o.error /\ o.cancelled
    BY <2>2
  <2> QED BY <1>1, <1>2, <1>5, <1>7, <2>2, <2>4, <2>5, <2>6, Zenon
<1> QED BY <1>6, <1>7

(* A caller takes or delivers events, or they stay as they are, or the      *)
(* owner adds a row's.                                                     *)
LEMMA EventCauses ==
  ASSUME IInv, HInv, [Next]_vars
  PROVE  \/ SameEvents
         \/ \E x \in Rows : \E t : Emission(x, t) /\ (row'[x].completed \/ SampleRow)
         \/ \E q \in Requests : Take(q) \/ Deliver(q)
<1>1. TypeOK /\ Shape /\ CompletionAccounting /\ Owning
  BY DEF IInv, HInv
<1>2. CASE \/ LoopTop \/ Admit \/ Arrived \/ AdmitDone \/ RunChunk \/ CheckControls
           \/ (\E a \in Adapters : BeginStep(a)) \/ EndSweep \/ RebuildCommit
           \/ SampleDone \/ Forward \/ StepThrows \/ FailDone
  BY <1>1, <1>2, OwnerQuiet
<1>3. ASSUME NEW q \in Requests, Client(q)
      PROVE  SameEvents \/ Take(q) \/ Deliver(q)
  BY <1>1, <1>3, CallerQuiet DEF Client
<1>4. CASE Destroy \/ UNCHANGED vars
  BY <1>4 DEF Destroy, vars, callers, objects, SameEvents
<1>5. ASSUME NEW x \in Rows, row' = CompleteRow(x, req[Owner[x]].cancelled),
             req' = CompleteReq(x, req[Owner[x]].cancelled),
             client' = client, delivered' = delivered
      PROVE  SameEvents \/ (\E t : Emission(x, t) /\ row'[x].completed)
  <2>1. PICK c \in BOOLEAN : c = req[Owner[x]].cancelled
    BY <1>1, Belongs DEF TypeOK, RequestRecord
  <2>2. IF row[x].completed THEN SameEvents
        ELSE row'[x].completed /\ Emission(x, FinalEvents(x, c))
    BY <1>1, <1>5, <2>1, CompleteEmits
  <2> QED BY <2>2
<1>6. CASE AdmitRow
  <2>1. PICK x \in Rows : x = pending_rows[loop.at]
    BY <1>1, <1>6, AdmitRowFacts
  <2>2. client' = client /\ delivered' = delivered
    BY <1>6, Zenon DEF AdmitRow, callers
  <2>3. \/ row' = row /\ req' = req
        \/ row' = CompleteRow(x, req[Owner[x]].cancelled)
             /\ req' = CompleteReq(x, req[Owner[x]].cancelled)
    BY <1>6, <2>1, Zenon DEF AdmitRow
  <2>4. CASE row' = row /\ req' = req
    BY <2>2, <2>4 DEF SameEvents
  <2> QED BY <1>5, <2>2, <2>3, <2>4
<1>7. CASE RebuildRow
  <2>1. PICK x \in Rows : x = Members(loop.cur)[loop.at]
    BY <1>1, <1>7, MemberAt, Zenon
  <2>2. client' = client /\ delivered' = delivered
    BY <1>7 DEF RebuildRow, callers
  <2>3. Drops(x) \/ Ends(x) \/ Pauses(x) \/ Keeps(x)
    BY <1>7, <2>1, RebuildSplit
  <2>4. CASE Drops(x) \/ Keeps(x)
    BY <2>2, <2>4 DEF Drops, Keeps, SameEvents
  <2>5. CASE Pauses(x)
    <3>1. PICK h : h = Current.slots[loop.at].hist
      OBVIOUS
    <3>2. req' = req /\ row' = [row EXCEPT ![x].saved_sampler = h]
      BY <2>5, <3>1 DEF Pauses
    <3>3. \A r \in Rows : /\ row'[r].step = row[r].step /\ row'[r].pending = row[r].pending
                          /\ row'[r].completed = row[r].completed
      BY <1>1, <3>2 DEF TypeOK, RowRecord
    <3> QED BY <2>2, <3>2, <3>3 DEF SameEvents
  <2>6. CASE Ends(x)
    BY <1>5, <2>2, <2>6 DEF Ends
  <2> QED BY <2>3, <2>4, <2>5, <2>6
<1>8. CASE SampleRow
  <2>1. PICK x \in Rows : x = Current.rows[loop.at]
    BY <1>1, <1>8, SampleFacts DEF SampleRow
  <2>2. ~row[x].completed
    <3>1. loop.at \in 1..Len(Current.rows) /\ loop.pc = "sample"
      BY <1>1, <1>8, SampleFacts DEF SampleRow
    <3> QED BY <1>1, <2>1, <3>1 DEF Owning, Running
  <2> QED BY <1>1, <1>8, <2>1, <2>2, SampleEmits
<1>9. CASE FailRow
  <2>1. PICK x \in Rows : x = Members(loop.cur)[loop.at]
    BY <1>1, <1>9, MemberAt, Zenon
  <2>2. PICK c \in BOOLEAN : c = TRUE
    OBVIOUS
  <2>3. /\ row' = CompleteRow(x, c) /\ client' = client /\ delivered' = delivered
        /\ \A q \in Requests : /\ req'[q].events = CompleteReq(x, c)[q].events
                               /\ req'[q].remaining = CompleteReq(x, c)[q].remaining
    BY <1>1, <1>9, <2>1, <2>2, FailReqIs
  <2>4. IF row[x].completed THEN SameEvents
        ELSE row'[x].completed /\ Emission(x, FinalEvents(x, c))
    BY <1>1, <2>3, CompleteEmits, Zenon
  <2> QED BY <2>4
<1> QED BY <1>2, <1>3, <1>4, <1>6, <1>7, <1>8, <1>9 DEF Next, Loop, Terminated

(* The same without the cause. *)
LEMMA EventKinds ==
  ASSUME IInv, HInv, [Next]_vars
  PROVE  \/ SameEvents
         \/ \E x \in Rows : \E t : Emission(x, t)
         \/ \E q \in Requests : Take(q) \/ Deliver(q)
<1>1. CASE SameEvents \/ \E q \in Requests : Take(q) \/ Deliver(q)
  BY <1>1
<1>2. ASSUME NEW x \in Rows, NEW t, Emission(x, t)
      PROVE  \E y \in Rows : \E e : Emission(y, e)
  BY <1>2
<1>3. CASE \E x \in Rows : \E t : Emission(x, t) /\ (row'[x].completed \/ SampleRow)
  <2>1. PICK x \in Rows : \E t : Emission(x, t) /\ (row'[x].completed \/ SampleRow)
    BY <1>3, Zenon
  <2> QED BY <1>2, <2>1, Zenon
<1>4. \/ SameEvents
      \/ \E x \in Rows : \E t : Emission(x, t) /\ (row'[x].completed \/ SampleRow)
      \/ \E q \in Requests : Take(q) \/ Deliver(q)
  BY EventCauses
<1> QED BY <1>1, <1>3, <1>4, Zenon

-----------------------------------------------------------------------------
(* What a caller holds, then what is queued. *)
LEMMA StreamIs ==
  ASSUME TypeOK, NEW q \in Requests
  PROVE  /\ client[q].batch \in Seq(Event) /\ req[q].events \in Seq(Event)
         /\ Stream(q) \in Seq(Event)
         /\ Len(Stream(q)) = Len(client[q].batch) + Len(req[q].events)
         /\ \A i \in 1..Len(Stream(q)) :
              /\ Stream(q)[i] = IF i <= Len(client[q].batch) THEN client[q].batch[i]
                                ELSE req[q].events[i - Len(client[q].batch)]
              /\ Stream(q)[i] \in Event /\ Stream(q)[i].row \in Rows
<1>1. PICK s \in Seq(Event), t \in Seq(Event) : s = client[q].batch /\ t = req[q].events
  BY DEF TypeOK, ClientRecord, RequestRecord
<1>2. PICK u : u = s \o t
  OBVIOUS
<1>3. /\ u \in Seq(Event) /\ Len(u) = Len(s) + Len(t)
      /\ \A i \in 1..Len(u) : u[i] = IF i <= Len(s) THEN s[i] ELSE t[i - Len(s)]
  BY <1>2
<1>4. \A i \in 1..Len(u) : u[i] \in Event
  BY <1>3
<1>5. \A i \in 1..Len(u) : u[i].row \in Rows
  BY <1>4 DEF Event
<1>6. u = Stream(q)
  BY <1>1, <1>2 DEF Stream
<1> QED BY <1>1, <1>3, <1>4, <1>5, <1>6

(* The tokens of other rows. *)
LEMMA CountOther ==
  ASSUME NEW t \in Seq(Event), NEW r, \A i \in 1..Len(t) : t[i].row # r
  PROVE  TokensIn(t, r) = 0
<1>1. PICK g : g = [i \in 0..Len(t) |-> 0]
  OBVIOUS
<1>2. Len(t) \in Nat
  OBVIOUS
<1>3. \A i \in 0..Len(t) : g[i] = 0
  BY <1>1
<1>4. \A i \in 1..Len(t) : TokensOf(t[i], r) = 0
  BY DEF TokensOf
<1>5. \A i \in 1..Len(t) : i \in 0..Len(t) /\ i - 1 \in 0..Len(t)
  BY <1>2
<1>6. Counts(g, t, r)
  BY <1>2, <1>3, <1>4, <1>5 DEF Counts
<1>7. TokensIn(t, r) = g[Len(t)]
  BY <1>6, CountUnique
<1> QED BY <1>2, <1>3, <1>7

(* Reading takes the first d events of a stream. *)
Shifted(q) ==
  \E d \in 0..Len(Stream(q)) :
    /\ Len(Stream(q)') = Len(Stream(q)) - d
    /\ \A i \in 1..Len(Stream(q)') : Stream(q)'[i] = Stream(q)[i + d]
EventsKept == EventsTrue /\ Flushed /\ StopNoticeIsLast

(* What is left of the streams is as true as they were. *)
LEMMA ShiftKeeps ==
  ASSUME TypeOK, EventsKept, \A q \in Requests : Shifted(q),
         \A r \in Rows : row'[r].completed = row[r].completed /\ row'[r].pending = row[r].pending
  PROVE  EventsKept'
<1>1. Flushed'
  BY DEF EventsKept, Flushed
<1>2. ASSUME NEW q \in Requests
      PROVE  /\ \A i \in 1..Len(Stream(q)') :
                  LET e == Stream(q)'[i]
                  IN  /\ Owner[e.row] = q /\ (e.stop => row'[e.row].completed)
                      /\ ~e.stop => e.tokens > 0
             /\ \A i, j \in 1..Len(Stream(q)') :
                  Stream(q)'[i].stop /\ i < j => Stream(q)'[j].row # Stream(q)'[i].row
  <2>1. PICK s \in Seq(Event) : s = Stream(q)
    BY StreamIs
  <2>2. PICK t : t = Stream(q)'
    OBVIOUS
  <2>3. PICK d \in 0..Len(s) : Len(t) = Len(s) - d /\ \A i \in 1..Len(t) : t[i] = s[i + d]
    BY <2>1, <2>2 DEF Shifted
  <2>4. \A i \in 1..Len(s) :
          /\ Owner[s[i].row] = q /\ (s[i].stop => row[s[i].row].completed)
          /\ ~s[i].stop => s[i].tokens > 0
    BY <2>1 DEF EventsKept, EventsTrue
  <2>5. \A i, j \in 1..Len(s) : s[i].stop /\ i < j => s[j].row # s[i].row
    BY <2>1 DEF EventsKept, StopNoticeIsLast, Stream
  <2>6. \A i \in 1..Len(s) : s[i].row \in Rows
    BY <2>1, StreamIs
  <2>7. Len(s) \in Nat /\ \A i \in 1..Len(t) : i + d \in 1..Len(s)
    BY <2>3
  <2>8. \A i \in 1..Len(t) : /\ Owner[t[i].row] = q /\ (t[i].stop => row'[t[i].row].completed)
                             /\ ~t[i].stop => t[i].tokens > 0
    BY <2>3, <2>4, <2>6, <2>7, Zenon
  <2>9. \A i, j \in 1..Len(t) : i < j => i + d < j + d
    BY <2>3, <2>7
  <2>10. ASSUME NEW i \in 1..Len(t), NEW j \in 1..Len(t), t[i].stop, i < j
         PROVE  t[j].row # t[i].row
    <3>1. PICK m \in 1..Len(s), n \in 1..Len(s) : m = i + d /\ n = j + d /\ m < n
      BY <2>7, <2>9, <2>10
    <3>2. t[i] = s[m] /\ t[j] = s[n]
      BY <2>3, <3>1
    <3> QED BY <2>5, <2>10, <3>1, <3>2
  <2> QED BY <2>2, <2>8, <2>10
<1>3. EventsTrue'
  BY <1>2 DEF EventsTrue
<1>4. StopNoticeIsLast'
  BY <1>2, Zenon DEF StopNoticeIsLast, Stream
<1> QED BY <1>1, <1>3, <1>4 DEF EventsKept

(* A stream that stays as it is. *)
LEMMA SameShifted ==
  ASSUME TypeOK, NEW q \in Requests, Stream(q)' = Stream(q)
  PROVE  Shifted(q)
<1>1. PICK s \in Seq(Event) : s = Stream(q)
  BY StreamIs, Zenon
<1>2. Len(s) \in Nat /\ 0 \in 0..Len(s) /\ Len(s) = Len(s) - 0
      /\ \A i \in 1..Len(s) : i + 0 = i
  OBVIOUS
<1>3. PICK d \in 0..Len(s) : Len(s) = Len(s) - d /\ \A i \in 1..Len(s) : s[i] = s[i + d]
  BY <1>2, Zenon
<1> QED BY <1>1, <1>3 DEF Shifted

(* A step that leaves the events alone keeps their truth. *)
LEMMA SameKeeps ==
  ASSUME TypeOK, SameEvents, EventsKept, OutputConserved
  PROVE  EventsKept' /\ OutputConserved'
<1>1. \A q \in Requests : Stream(q)' = Stream(q)
  BY DEF SameEvents, Stream
<1>2. EventsKept'
  BY <1>1, SameShifted, ShiftKeeps DEF SameEvents
<1>3. OutputConserved'
  <2> SUFFICES ASSUME NEW r \in Rows,
                      client'[Owner[r]].accepting, ~client'[Owner[r]].callback_error
               PROVE  delivered'[r] + TokensIn(client'[Owner[r]].batch, r)
                        + TokensIn(req'[Owner[r]].events, r) + row'[r].pending = row'[r].step
    BY DEF OutputConserved
  <2>1. PICK q \in Requests : q = Owner[r]
    BY Belongs
  <2>2. /\ client[q].accepting /\ ~client[q].callback_error
        /\ client'[q].batch = client[q].batch /\ req'[q].events = req[q].events
        /\ delivered' = delivered /\ row'[r].pending = row[r].pending /\ row'[r].step = row[r].step
    BY <2>1 DEF SameEvents
  <2>3. delivered[r] + TokensIn(client[q].batch, r) + TokensIn(req[q].events, r)
          + row[r].pending = row[r].step
    BY <2>1, <2>2 DEF OutputConserved
  <2> QED BY <2>1, <2>2, <2>3, Zenon
<1> QED BY <1>2, <1>3
(* The owner's new events come after all others of the row. *)
LEMMA EmissionKeeps ==
  ASSUME TypeOK, NEW x \in Rows, NEW t, Emission(x, t), EventsKept
  PROVE  EventsKept'
<1>1. /\ t \in Seq(Event) /\ ~row[x].completed /\ client' = client
      /\ \A i \in 1..Len(t) : t[i].row = x /\ (t[i].stop => i = Len(t) /\ row'[x].completed)
                              /\ (~t[i].stop => t[i].tokens > 0)
      /\ req'[Owner[x]].events = req[Owner[x]].events \o t
      /\ \A q \in Requests : q # Owner[x] => req'[q].events = req[q].events
  BY DEF Emission
<1>2. Flushed'
  <2> SUFFICES ASSUME NEW r \in Rows, row'[r].completed PROVE row'[r].pending = 0
    BY DEF Flushed
  <2>1. CASE r = x
    BY <2>1 DEF Emission
  <2>2. CASE r # x
    <3>1. row'[r].pending = row[r].pending /\ row'[r].completed = row[r].completed
      BY <2>2 DEF Emission
    <3> QED BY <3>1 DEF EventsKept, Flushed
  <2> QED BY <2>1, <2>2
<1>3. \A r \in Rows : row[r].completed => row'[r].completed
  BY DEF Emission
<1>4. ASSUME NEW q \in Requests
      PROVE  /\ \A i \in 1..Len(Stream(q)') :
                  LET e == Stream(q)'[i]
                  IN  /\ Owner[e.row] = q /\ (e.stop => row'[e.row].completed)
                      /\ ~e.stop => e.tokens > 0
             /\ \A i, j \in 1..Len(Stream(q)') :
                  Stream(q)'[i].stop /\ i < j => Stream(q)'[j].row # Stream(q)'[i].row
  <2>1. PICK s \in Seq(Event) : s = Stream(q)
    BY StreamIs
  <2>2. PICK u : u = Stream(q)'
    OBVIOUS
  <2>3. \A i \in 1..Len(s) :
          /\ Owner[s[i].row] = q /\ (s[i].stop => row[s[i].row].completed)
          /\ ~s[i].stop => s[i].tokens > 0
    BY <2>1 DEF EventsKept, EventsTrue
  <2>4. \A i, j \in 1..Len(s) : s[i].stop /\ i < j => s[j].row # s[i].row
    BY <2>1 DEF EventsKept, StopNoticeIsLast, Stream
  <2>5. \A i \in 1..Len(s) : s[i].row \in Rows
    BY <2>1, StreamIs
  <2>6. CASE q # Owner[x]
    <3>1. u = s
      BY <1>1, <2>1, <2>2, <2>6 DEF Stream
    <3>2. \A i \in 1..Len(u) : /\ Owner[u[i].row] = q /\ (u[i].stop => row'[u[i].row].completed)
                               /\ ~u[i].stop => u[i].tokens > 0
      BY <1>3, <2>3, <2>5, <3>1
    <3>3. \A i, j \in 1..Len(u) : u[i].stop /\ i < j => u[j].row # u[i].row
      BY <2>4, <3>1
    <3> QED BY <2>2, <3>2, <3>3
  <2>7. CASE q = Owner[x]
    <3>1. /\ Len(u) = Len(s) + Len(t)
          /\ \A i \in 1..Len(u) : u[i] = IF i <= Len(s) THEN s[i] ELSE t[i - Len(s)]
      <4>1. PICK b \in Seq(Event), v \in Seq(Event) : b = client[q].batch /\ v = req[q].events
        BY StreamIs
      <4>2. u = b \o (v \o t)
        BY <1>1, <2>2, <2>7, <4>1 DEF Stream
      <4>3. s = b \o v
        BY <2>1, <4>1 DEF Stream
      <4>4. t \in Seq(Event)
        BY <1>1
      <4>5. b \o (v \o t) = (b \o v) \o t
        BY <4>4
      <4>6. u = s \o t
        BY <4>2, <4>3, <4>5
      <4> QED BY <4>4, <4>6
    <3>2. Len(s) \in Nat /\ Len(t) \in Nat
      <4>1. t \in Seq(Event)
        BY <1>1
      <4> QED BY <4>1
    <3>3. \A i \in 1..Len(u) : \/ i \in 1..Len(s) /\ u[i] = s[i]
                               \/ i - Len(s) \in 1..Len(t) /\ ~(i <= Len(s)) /\ u[i] = t[i - Len(s)]
      BY <3>1, <3>2
    <3>4. ASSUME NEW i \in 1..Len(u)
          PROVE  /\ Owner[u[i].row] = q /\ (u[i].stop => row'[u[i].row].completed)
                 /\ ~u[i].stop => u[i].tokens > 0
      <4>1. CASE i \in 1..Len(s) /\ u[i] = s[i]
        BY <1>3, <2>3, <2>5, <4>1
      <4>2. CASE i - Len(s) \in 1..Len(t) /\ u[i] = t[i - Len(s)]
        <5>1. PICK k \in 1..Len(t) : u[i] = t[k]
          BY <4>2
        <5> QED BY <1>1, <2>7, <5>1
      <4> QED BY <3>3, <4>1, <4>2
    <3>5. ASSUME NEW i \in 1..Len(u), NEW j \in 1..Len(u), u[i].stop, i < j
          PROVE  u[j].row # u[i].row
      <4>1. CASE j \in 1..Len(s) /\ u[j] = s[j]
        <5>1. i \in 1..Len(s) /\ u[i] = s[i]
          BY <3>1, <3>2, <3>5, <4>1
        <5> QED BY <2>4, <3>5, <4>1, <5>1
      <4>2. CASE j - Len(s) \in 1..Len(t) /\ u[j] = t[j - Len(s)]
        <5>1. PICK k \in 1..Len(t) : k = j - Len(s) /\ u[j] = t[k]
          BY <4>2
        <5>2. u[j].row = x
          BY <1>1, <5>1
        <5>3. CASE i \in 1..Len(s) /\ u[i] = s[i]
          BY <1>1, <2>3, <3>5, <5>2, <5>3
        <5>4. CASE i - Len(s) \in 1..Len(t) /\ u[i] = t[i - Len(s)]
          <6>1. PICK m \in 1..Len(t) : m = i - Len(s) /\ u[i] = t[m]
            BY <5>4
          <6>2. m = Len(t)
            BY <1>1, <3>5, <6>1
          <6>3. m < k
            BY <3>2, <3>5, <5>1, <6>1
          <6> QED BY <3>2, <6>2, <6>3
        <5> QED BY <3>3, <5>3, <5>4
      <4> QED BY <3>3, <4>1, <4>2
    <3> QED BY <2>2, <3>4, <3>5
  <2> QED BY <2>6, <2>7
<1>5. EventsTrue'
  BY <1>4 DEF EventsTrue
<1>6. StopNoticeIsLast'
  BY <1>4, Zenon DEF StopNoticeIsLast, Stream
<1> QED BY <1>2, <1>5, <1>6 DEF EventsKept

(* What was delivered, is held, is queued, is buffered and was generated. *)
Tally(d, n, m, k, a, s, b, g) ==
  d + n + m + a = s /\ k + b + s = a + g => d + n + (m + k) + b = g
LEMMA AddUp == \A d, n, m, k, a, s, b, g \in Nat : Tally(d, n, m, k, a, s, b, g)
BY DEF Tally

(* The tokens it flushes leave the row's buffer. *)
LEMMA EmissionConserves ==
  ASSUME TypeOK, TypeOK', NEW x \in Rows, NEW t, Emission(x, t), OutputConserved
  PROVE  OutputConserved'
<1> SUFFICES ASSUME NEW r \in Rows,
                    client'[Owner[r]].accepting, ~client'[Owner[r]].callback_error
             PROVE  delivered'[r] + TokensIn(client'[Owner[r]].batch, r)
                      + TokensIn(req'[Owner[r]].events, r) + row'[r].pending = row'[r].step
  BY DEF OutputConserved
<1>1. PICK q \in Requests : q = Owner[r]
  BY Belongs
<1>2. client' = client /\ delivered' = delivered /\ t \in Seq(Event)
  BY DEF Emission
<1>3. delivered[r] + TokensIn(client[q].batch, r) + TokensIn(req[q].events, r)
        + row[r].pending = row[r].step
  BY <1>1, <1>2 DEF OutputConserved
<1>4. PICK b \in Seq(Event), v \in Seq(Event) : b = client[q].batch /\ v = req[q].events
  BY StreamIs
<1>5. PICK n \in Nat, m \in Nat, k \in Nat :
        n = TokensIn(b, r) /\ m = TokensIn(v, r) /\ k = TokensIn(t, r)
        /\ TokensIn(v \o t, r) = m + k
  BY <1>2, CountConcat
<1>6. PICK d \in Nat, p \in Nat, s \in Nat, p2 \in Nat, s2 \in Nat :
        /\ d = delivered[r] /\ p = row[r].pending /\ s = row[r].step
        /\ p2 = row'[r].pending /\ s2 = row'[r].step
  BY DEF TypeOK, RowRecord
<1>7. d + n + m + p = s
  BY <1>3, <1>4, <1>5, <1>6
<1>8. CASE r = x
  <2>1. req'[q].events = v \o t
    BY <1>1, <1>4, <1>8 DEF Emission
  <2>2. k + p2 + s = p + s2
    BY <1>5, <1>6, <1>8 DEF Emission
  <2>3. d + n + (m + k) + p2 = s2
    <3>1. Tally(d, n, m, k, p, s, p2, s2)
      BY AddUp, Zenon
    <3> QED BY <1>7, <2>2, <3>1, Zenon DEF Tally
  <2> QED BY <1>1, <1>2, <1>4, <1>5, <1>6, <2>1, <2>3
<1>9. CASE r # x
  <2>1. k = 0
    <3>1. \A i \in 1..Len(t) : t[i].row # r
      BY <1>9 DEF Emission
    <3> QED BY <1>2, <1>5, <3>1, CountOther
  <2>2. req'[q].events = v \/ req'[q].events = v \o t
    BY <1>1, <1>4 DEF Emission
  <2>3. TokensIn(req'[q].events, r) = m
    <3>1. TokensIn(v \o t, r) = m
      BY <1>5, <2>1
    <3> QED BY <1>5, <2>2, <3>1, Zenon
  <2>4. p2 = p /\ s2 = s
    BY <1>6, <1>9 DEF Emission
  <2> QED BY <1>1, <1>2, <1>4, <1>5, <1>6, <1>7, <2>3, <2>4
<1> QED BY <1>8, <1>9
(* What delivering does to a call and its request. *)
Delivers(q) ==
  /\ client[q].accepting /\ ~client[q].callback_error
  /\ client'[q].accepting /\ ~client'[q].callback_error
  /\ client'[q].batch = Tail(client[q].batch)
  /\ delivered' = [delivered EXCEPT ![Head(client[q].batch).row]
                                       = @ + Head(client[q].batch).tokens]
  /\ req' = req
Closes(q) ==
  /\ delivered' = delivered
  /\ ~client'[q].accepting \/ client'[q].callback_error
  /\ client'[q].accepting => client[q].accepting
  /\ client[q].callback_error => client'[q].callback_error
  /\ client'[q].batch \in {Tail(client[q].batch), <<>>}

(* Each delivery is accepted, or closes the call to further output. *)
LEMMA DeliverIs ==
  ASSUME TypeOK, NEW q \in Requests, Deliver(q)
  PROVE  /\ client[q].stage = "delivering" /\ client[q].batch # <<>>
         /\ Delivers(q) \/ Closes(q)
         /\ row' = row /\ exported' = exported
         /\ \A p \in Requests : p # q => client'[p] = client[p]
         /\ client'[q].stage = client[q].stage /\ client'[q].done = client[q].done
         /\ \A p \in Requests :
              /\ req'[p].events = req[p].events /\ req'[p].remaining = req[p].remaining
              /\ req'[p].error = req[p].error
              /\ p # q => req'[p] = req[p]
<1>1. /\ client \in [Requests -> ClientRecord] /\ req \in [Requests -> RequestRecord]
      /\ client[q].batch \in Seq(Event)
  BY DEF TypeOK, ClientRecord
<1>2. row' = row /\ exported' = exported /\ client[q].stage = "delivering"
      /\ client[q].batch # <<>>
  BY DEF Deliver
<1>3. PICK t : t = Tail(client[q].batch)
  OBVIOUS
<1>4. PICK f, y : f = FALSE /\ y = TRUE
  OBVIOUS
<1>5. \/ /\ client' = [client EXCEPT ![q].batch = t] /\ req' = req
         /\ client[q].accepting /\ ~client[q].callback_error
         /\ delivered' = [delivered EXCEPT ![Head(client[q].batch).row]
                                             = @ + Head(client[q].batch).tokens]
      \/ /\ client' = [client EXCEPT ![q].batch = t, ![q].accepting = f]
         /\ req' = [req EXCEPT ![q].cancelled = y] /\ delivered' = delivered
      \/ /\ client' = [client EXCEPT ![q].batch = <<>>, ![q].callback_error = y]
         /\ req' = [req EXCEPT ![q].cancelled = y] /\ delivered' = delivered
      \/ /\ client' = [client EXCEPT ![q].batch = t] /\ ~client[q].accepting
         /\ req' = req /\ delivered' = delivered
      \/ /\ client' = [client EXCEPT ![q].batch = <<>>] /\ client[q].callback_error
         /\ req' = req /\ delivered' = delivered
  BY <1>3, <1>4, Zenon DEF Deliver, Accept, Refuse, Throw, Skip, Drop
<1>6. /\ \A p \in Requests : p # q => client'[p] = client[p]
      /\ client'[q].stage = client[q].stage /\ client'[q].done = client[q].done
  BY <1>1, <1>5 DEF ClientRecord
<1>7. \A p \in Requests :
              /\ req'[p].events = req[p].events /\ req'[p].remaining = req[p].remaining
              /\ req'[p].error = req[p].error
              /\ p # q => req'[p] = req[p]
  BY <1>1, <1>5 DEF RequestRecord
<1>8. Delivers(q) \/ Closes(q)
  <2>1. ASSUME client' = [client EXCEPT ![q].batch = t]
        PROVE  /\ client'[q].batch = t /\ client'[q].accepting = client[q].accepting
               /\ client'[q].callback_error = client[q].callback_error
    BY <1>1, <2>1 DEF ClientRecord
  <2>2. ASSUME client' = [client EXCEPT ![q].batch = t, ![q].accepting = f]
        PROVE  /\ client'[q].batch = t /\ ~client'[q].accepting
               /\ client'[q].callback_error = client[q].callback_error
    <3>1. PICK o : o = [client[q] EXCEPT !.batch = t, !.accepting = f]
      OBVIOUS
    <3>2. o.batch = t /\ o.accepting = f /\ o.callback_error = client[q].callback_error
      BY <1>1, <3>1 DEF ClientRecord
    <3>3. client' = [client EXCEPT ![q] = o]
      BY <1>1, <2>2, <3>1 DEF ClientRecord
    <3>4. client'[q] = o
      BY <1>1, <3>3
    <3>5. ~o.accepting
      BY <1>4, <3>2
    <3> QED BY <3>2, <3>4, <3>5
  <2>3. ASSUME client' = [client EXCEPT ![q].batch = <<>>, ![q].callback_error = y]
        PROVE  client'[q].batch = <<>> /\ client'[q].accepting = client[q].accepting
               /\ client'[q].callback_error
    <3>1. PICK o : o = [client[q] EXCEPT !.batch = <<>>, !.callback_error = y]
      OBVIOUS
    <3>2. o.batch = <<>> /\ o.callback_error = y /\ o.accepting = client[q].accepting
      BY <1>1, <3>1 DEF ClientRecord
    <3>3. client' = [client EXCEPT ![q] = o]
      BY <1>1, <2>3, <3>1 DEF ClientRecord
    <3>4. client'[q] = o
      BY <1>1, <3>3
    <3>5. o.callback_error
      BY <1>4, <3>2
    <3> QED BY <3>2, <3>4, <3>5
  <2>4. ASSUME client' = [client EXCEPT ![q].batch = <<>>]
        PROVE  /\ client'[q].batch = <<>> /\ client'[q].accepting = client[q].accepting
               /\ client'[q].callback_error = client[q].callback_error
    BY <1>1, <2>4 DEF ClientRecord
  <2> QED BY <1>3, <1>5, <2>1, <2>2, <2>3, <2>4 DEF Delivers, Closes
<1> QED BY <1>2, <1>6, <1>7, <1>8

(* What is taken was queued, and the caller held nothing. *)
LEMMA TakeIs ==
  ASSUME TypeOK, NEW q \in Requests, Take(q)
  PROVE  /\ client[q].stage = "waiting" /\ client'[q].stage = "delivering"
         /\ client'[q].batch = req[q].events /\ req'[q].events = <<>>
         /\ client'[q].accepting = client[q].accepting
         /\ client'[q].callback_error = client[q].callback_error
         /\ client'[q].done = req[q].done
         /\ \A p \in Requests : p # q => client'[p] = client[p] /\ req'[p] = req[p]
         /\ \A p \in Requests : /\ req'[p].remaining = req[p].remaining
                                /\ req'[p].error = req[p].error
                                /\ req'[p].cancelled = req[p].cancelled
         /\ row' = row /\ exported' = exported /\ delivered' = delivered
<1>1. client \in [Requests -> ClientRecord] /\ req \in [Requests -> RequestRecord]
  BY DEF TypeOK
<1>2. PICK d, e, n : d = req[q].done /\ e = req[q].events /\ n = <<>>
  OBVIOUS
<1>3. /\ client' = [client EXCEPT ![q].stage = "delivering", ![q].done = d, ![q].batch = e]
      /\ req' = [req EXCEPT ![q].events = n] /\ client[q].stage = "waiting"
      /\ row' = row /\ exported' = exported /\ delivered' = delivered
  BY <1>2 DEF Take
<1>4. PICK o : o = [client[q] EXCEPT !.stage = "delivering", !.done = d, !.batch = e]
  OBVIOUS
<1>5. /\ o.stage = "delivering" /\ o.done = d /\ o.batch = e
      /\ o.accepting = client[q].accepting /\ o.callback_error = client[q].callback_error
  BY <1>1, <1>4 DEF ClientRecord
<1>6. client' = [client EXCEPT ![q] = o]
  BY <1>1, <1>3, <1>4 DEF ClientRecord
<1>7. client'[q] = o /\ \A p \in Requests : p # q => client'[p] = client[p]
  BY <1>1, <1>6
<1>8. /\ req'[q].events = n /\ \A p \in Requests : p # q => req'[p] = req[p]
      /\ \A p \in Requests : /\ req'[p].remaining = req[p].remaining
                             /\ req'[p].error = req[p].error
                             /\ req'[p].cancelled = req[p].cancelled
  BY <1>1, <1>3 DEF RequestRecord
<1> QED BY <1>2, <1>3, <1>5, <1>7, <1>8
(* Taking the queue keeps the streams as they are. *)
LEMMA TakeKeeps ==
  ASSUME TypeOK, NEW q \in Requests, Take(q), CallEnds, EventsKept, OutputConserved
  PROVE  EventsKept' /\ OutputConserved'
<1>1. client[q].batch = <<>>
  BY TakeIs DEF CallEnds
<1>2. \A p \in Requests : Stream(p)' = Stream(p)
  <2> SUFFICES ASSUME NEW p \in Requests PROVE Stream(p)' = Stream(p)
    OBVIOUS
  <2>1. CASE p # q
    BY <2>1, TakeIs DEF Stream
  <2>2. CASE p = q
    <3>1. PICK e \in Seq(Event) : e = req[q].events
      BY StreamIs
    <3>2. e \o <<>> = e /\ <<>> \o e = e
      OBVIOUS
    <3>3. client'[q].batch = e /\ req'[q].events = <<>>
      BY <3>1, TakeIs
    <3> QED BY <1>1, <2>2, <3>1, <3>2, <3>3 DEF Stream
  <2> QED BY <2>1, <2>2
<1>3. EventsKept'
  <2>1. \A r \in Rows : row'[r].completed = row[r].completed /\ row'[r].pending = row[r].pending
    BY TakeIs
  <2> QED BY <1>2, <2>1, SameShifted, ShiftKeeps
<1>4. OutputConserved'
  <2> SUFFICES ASSUME NEW r \in Rows,
                      client'[Owner[r]].accepting, ~client'[Owner[r]].callback_error
               PROVE  delivered'[r] + TokensIn(client'[Owner[r]].batch, r)
                        + TokensIn(req'[Owner[r]].events, r) + row'[r].pending = row'[r].step
    BY DEF OutputConserved
  <2>1. PICK p \in Requests : p = Owner[r]
    BY Belongs
  <2>2. client[p].accepting /\ ~client[p].callback_error
    BY <2>1, TakeIs
  <2>3. delivered[r] + TokensIn(client[p].batch, r) + TokensIn(req[p].events, r)
          + row[r].pending = row[r].step
    BY <2>1, <2>2 DEF OutputConserved
  <2>4. delivered' = delivered /\ row' = row
    BY TakeIs
  <2>5. CASE p # q
    BY <2>1, <2>3, <2>4, <2>5, TakeIs
  <2>6. CASE p = q
    <3>1. PICK d \in Nat, n \in Nat, a \in Nat, s \in Nat :
            d = delivered[r] /\ n = TokensIn(req[q].events, r)
            /\ a = row[r].pending /\ s = row[r].step
      <4>1. req[q].events \in Seq(Event)
        BY StreamIs
      <4>2. TokensIn(req[q].events, r) \in Nat
        BY <4>1, CountConcat
      <4> QED BY <4>2 DEF TypeOK, RowRecord
    <3>2. TokensIn(<<>>, r) = 0
      BY CountFew
    <3>3. d + 0 + n + a = s
      BY <1>1, <2>3, <2>6, <3>1, <3>2
    <3>4. d + n + 0 + a = s
      BY <3>3
    <3>5. client'[q].batch = req[q].events /\ req'[q].events = <<>>
      BY TakeIs
    <3> QED BY <2>1, <2>4, <2>6, <3>1, <3>2, <3>4, <3>5
  <2> QED BY <2>5, <2>6
<1> QED BY <1>3, <1>4

(* The first event of a batch counts first. *)
LEMMA HeadCounts ==
  ASSUME NEW b \in Seq(Event), b # <<>>, NEW r
  PROVE  /\ Head(b) \in Event /\ TokensIn(Tail(b), r) \in Nat
         /\ TokensIn(b, r) = TokensOf(Head(b), r) + TokensIn(Tail(b), r)
<1>1. PICK e \in Event : e = Head(b)
  OBVIOUS
<1>2. PICK h \in Seq(Event), u \in Seq(Event) : h = <<e>> /\ u = Tail(b)
  <2>1. Tail(b) \in Seq(Event) /\ <<e>> \in Seq(Event)
    BY SingletonSeq
  <2> QED BY <2>1
<1>3. b = h \o u
  BY <1>1, <1>2
<1>4. TokensIn(h \o u, r) = TokensIn(h, r) + TokensIn(u, r) /\ TokensIn(u, r) \in Nat
  BY CountConcat
<1>5. TokensIn(<<e>>, r) = TokensOf(e, r)
  BY CountFew
<1> QED BY <1>1, <1>2, <1>3, <1>4, <1>5, Zenon

(* It is the first of the stream. *)
LEMMA HeadEvent ==
  ASSUME TypeOK, NEW q \in Requests, client[q].batch # <<>>
  PROVE  1 \in 1..Len(Stream(q)) /\ Stream(q)[1] = Head(client[q].batch)
<1>1. PICK b \in Seq(Event), v \in Seq(Event) : b = client[q].batch /\ v = req[q].events
  BY StreamIs
<1>2. 1 \in 1..Len(b) /\ b[1] = Head(b) /\ Len(b) \in Nat /\ Len(v) \in Nat
  BY <1>1
<1>3. 1 \in 1..(Len(b) + Len(v)) /\ 1 <= Len(b)
  BY <1>2
<1> QED BY <1>1, <1>2, <1>3, StreamIs

(* A delivered event leaves the batch for the caller's count. *)
LEMMA DeliverKeeps ==
  ASSUME TypeOK, NEW q \in Requests, Deliver(q), EventsKept, OutputConserved
  PROVE  EventsKept' /\ OutputConserved'
<1>1. PICK b \in Seq(Event), v \in Seq(Event) : b = client[q].batch /\ v = req[q].events
  BY StreamIs
<1>2. PICK c \in Seq(Event) : c = client'[q].batch /\ c \in {Tail(b), <<>>}
  <2>1. b # <<>> /\ client'[q].batch \in {Tail(b), <<>>}
    BY <1>1, DeliverIs DEF Delivers, Closes
  <2>2. Tail(b) \in Seq(Event) /\ <<>> \in Seq(Event)
    BY <2>1
  <2> QED BY <2>1, <2>2
<1>3. b # <<>> /\ req'[q].events = v
  BY <1>1, DeliverIs
<1>4. PICK d \in 0..Len(b) : Len(c) = Len(b) - d /\ \A i \in 1..Len(c) : c[i] = b[i + d]
  <2>1. CASE c = Tail(b)
    <3>1. Len(b) \in Nat /\ 1 \in 0..Len(b)
      BY <1>3
    <3>2. Len(Tail(b)) = Len(b) - 1 /\ \A i \in 1..Len(Tail(b)) : Tail(b)[i] = b[i + 1]
      BY <1>3
    <3> QED BY <2>1, <3>1, <3>2
  <2>2. CASE c = <<>>
    <3>1. Len(b) \in Nat /\ Len(c) = 0
      BY <2>2
    <3>2. Len(b) \in 0..Len(b) /\ Len(c) = Len(b) - Len(b)
      BY <3>1
    <3>3. \A i \in 1..Len(c) : FALSE
      BY <3>1
    <3> QED BY <3>2, <3>3
  <2> QED BY <1>2, <2>1, <2>2
<1>5. \A p \in Requests : Shifted(p)
  <2> SUFFICES ASSUME NEW p \in Requests PROVE Shifted(p)
    OBVIOUS
  <2>1. CASE p # q
    <3>1. Stream(p)' = Stream(p)
      BY <2>1, DeliverIs DEF Stream
    <3> QED BY <3>1, SameShifted
  <2>2. CASE p = q
    <3>1. PICK s, u : s = b \o v /\ u = c \o v
      OBVIOUS
    <3>2. s = Stream(p) /\ u = Stream(p)'
      BY <1>1, <1>2, <1>3, <2>2, <3>1 DEF Stream
    <3>3. PICK m \in Nat, n \in Nat, k \in Nat : m = Len(b) /\ n = Len(c) /\ k = Len(v)
      OBVIOUS
    <3>4. /\ Len(s) = m + k /\ \A i \in 1..(m + k) : s[i] = IF i <= m THEN b[i] ELSE v[i - m]
          /\ Len(u) = n + k /\ \A i \in 1..(n + k) : u[i] = IF i <= n THEN c[i] ELSE v[i - n]
      BY <3>1, <3>3
    <3>5. d \in 0..m /\ n = m - d
      BY <1>4, <3>3
    <3>6. ASSUME NEW i \in 1..(n + k) PROVE u[i] = s[i + d]
      <4>1. i + d \in 1..(m + k)
        BY <3>5
      <4>2. CASE i <= n
        <5>1. i \in 1..n /\ i + d <= m
          BY <3>5, <4>2
        <5>2. c[i] = b[i + d]
          BY <1>4, <3>3, <5>1
        <5> QED BY <3>4, <4>1, <4>2, <5>1, <5>2
      <4>3. CASE ~(i <= n)
        <5>1. ~(i + d <= m) /\ (i + d) - m = i - n
          BY <3>5, <4>3
        <5> QED BY <3>4, <4>1, <4>3, <5>1
      <4> QED BY <4>2, <4>3
    <3>7. d \in 0..Len(s) /\ Len(u) = Len(s) - d
      BY <3>4, <3>5
    <3> QED BY <3>2, <3>4, <3>6, <3>7 DEF Shifted
  <2> QED BY <2>1, <2>2
<1>6. EventsKept'
  <2>1. \A r \in Rows : row'[r].completed = row[r].completed /\ row'[r].pending = row[r].pending
    BY DeliverIs
  <2> QED BY <1>5, <2>1, ShiftKeeps
<1>7. OutputConserved'
  <2> SUFFICES ASSUME NEW r \in Rows,
                      client'[Owner[r]].accepting, ~client'[Owner[r]].callback_error
               PROVE  delivered'[r] + TokensIn(client'[Owner[r]].batch, r)
                        + TokensIn(req'[Owner[r]].events, r) + row'[r].pending = row'[r].step
    BY DEF OutputConserved
  <2>1. PICK p \in Requests : p = Owner[r]
    BY Belongs
  <2>2. row' = row /\ req'[p].events = req[p].events
    BY DeliverIs
  <2>3. CASE p # q /\ delivered'[r] = delivered[r]
    <3>1. client'[p] = client[p]
      BY <2>3, DeliverIs
    <3>2. delivered[r] + TokensIn(client[p].batch, r) + TokensIn(req[p].events, r)
            + row[r].pending = row[r].step
      BY <2>1, <3>1 DEF OutputConserved
    <3> QED BY <2>1, <2>2, <2>3, <3>1, <3>2, Zenon
  <2>4. PICK e \in Event : e = Head(b)
    BY <1>3
  <2>5. e.row \in Rows /\ e.tokens \in Nat /\ delivered \in [Rows -> Nat]
    BY DEF Event, TypeOK
  <2>7. TokensIn(b, r) = TokensOf(e, r) + TokensIn(Tail(b), r) /\ TokensIn(Tail(b), r) \in Nat
    BY <1>3, <2>4, HeadCounts
  <2>8. CASE p = q
    <3>1. Delivers(q)
      BY <2>1, <2>8, DeliverIs DEF Closes
    <3>2. /\ client'[q].batch = Tail(b)
          /\ delivered' = [delivered EXCEPT ![e.row] = @ + e.tokens]
      BY <1>1, <2>4, <3>1 DEF Delivers
    <3>3. delivered[r] + TokensIn(b, r) + TokensIn(v, r) + row[r].pending = row[r].step
      BY <1>1, <2>1, <2>8, <3>1 DEF OutputConserved, Delivers
    <3>4. delivered'[r] = delivered[r] + TokensOf(e, r)
      BY <2>5, <3>2 DEF TokensOf
    <3>5. PICK i \in Nat, j \in Nat, k \in Nat, m \in Nat, n \in Nat, s \in Nat :
            i = delivered[r] /\ j = TokensOf(e, r) /\ k = TokensIn(Tail(b), r)
            /\ m = TokensIn(v, r) /\ n = row[r].pending /\ s = row[r].step
      <4>1. TokensOf(e, r) \in Nat
        BY <2>5 DEF TokensOf
      <4>2. TokensIn(v, r) \in Nat
        BY CountConcat
      <4>3. delivered[r] \in Nat /\ row[r].pending \in Nat /\ row[r].step \in Nat
        BY DEF TypeOK, RowRecord
      <4> QED BY <2>7, <4>1, <4>2, <4>3
    <3>6. i + (j + k) + m + n = s
      BY <2>7, <3>3, <3>5
    <3>7. (i + j) + k + m + n = s
      BY <3>6
    <3> QED BY <1>1, <1>3, <2>1, <2>2, <2>8, <3>2, <3>4, <3>5, <3>7
  <2>9. CASE p # q /\ delivered'[r] # delivered[r]
    <3>1. Delivers(q)
      BY <2>9, DeliverIs DEF Closes
    <3>2. delivered' = [delivered EXCEPT ![e.row] = @ + e.tokens]
      BY <1>1, <2>4, <3>1 DEF Delivers
    <3>3. e.row = r
      BY <2>5, <2>9, <3>2
    <3>4. Owner[e.row] = q
      <4>1. 1 \in 1..Len(Stream(q)) /\ Stream(q)[1] = e
        BY <1>1, <1>3, <2>4, HeadEvent
      <4> QED BY <4>1 DEF EventsKept, EventsTrue
    <3> QED BY <2>1, <2>9, <3>3, <3>4
  <2> QED BY <2>3, <2>8, <2>9
<1> QED BY <1>6, <1>7
(* Every step keeps the events true and the output whole. *)
LEMMA EventsStep ==
  ASSUME IInv, TypeOK', HInv, EventsKept, OutputConserved, CallEnds, [Next]_vars
  PROVE  EventsKept' /\ OutputConserved'
<1>1. TypeOK
  BY DEF IInv
<1>2. CASE SameEvents
  BY <1>1, <1>2, SameKeeps
<1>3. ASSUME NEW x \in Rows, NEW t, Emission(x, t) PROVE EventsKept' /\ OutputConserved'
  BY <1>1, <1>3, EmissionKeeps, EmissionConserves
<1>4. ASSUME NEW q \in Requests, Take(q) \/ Deliver(q) PROVE EventsKept' /\ OutputConserved'
  BY <1>1, <1>4, TakeKeeps, DeliverKeeps
<1> QED BY <1>2, <1>3, <1>4, EventKinds

-----------------------------------------------------------------------------
(* Errors and cancellations.  An error is set with the cancellation, for a  *)
(* call that still has rows to complete, and is not taken back.            *)
Flags ==
  \A q \in Requests :
    /\ req'[q].error =>
         \/ req[q].error
         \/ req'[q].cancelled /\ (\E r \in Rows : Owner[r] = q /\ ~row[r].completed)
    /\ req[q].error => req'[q].error

(* A step that leaves the errors alone. *)
LEMMA FlagsSame ==
  ASSUME \A q \in Requests : req'[q].error = req[q].error
  PROVE  Flags
  BY DEF Flags

(* A cancellation is for good. *)
LEMMA CancelledStays ==
  ASSUME IInv, [Next]_vars
  PROVE  StillCancelled
<1>1. TypeOK /\ Shape /\ CompletionAccounting
  BY DEF IInv
<1>2. CASE Destroy \/ UNCHANGED vars
  BY <1>2 DEF Destroy, vars, objects, StillCancelled
<1>3. CASE AdmitRow
  <2>1. PICK x \in Rows : x = pending_rows[loop.at]
    BY <1>1, <1>3, AdmitRowFacts
  <2>2. \/ req' = req
        \/ row' = CompleteRow(x, req[Owner[x]].cancelled)
             /\ req' = CompleteReq(x, req[Owner[x]].cancelled)
    BY <1>3, <2>1, Zenon DEF AdmitRow
  <2> QED BY <1>1, <2>2, CompleteObjects DEF StillCancelled
<1>4. CASE RebuildRow
  <2>1. PICK x \in Rows : x = Members(loop.cur)[loop.at]
    BY <1>1, <1>4, MemberAt, Zenon
  <2>2. \/ req' = req
        \/ row' = CompleteRow(x, req[Owner[x]].cancelled)
             /\ req' = CompleteReq(x, req[Owner[x]].cancelled)
    BY <1>1, <1>4, <2>1, RebuildRowCases, Zenon
  <2> QED BY <1>1, <2>2, CompleteObjects DEF StillCancelled
<1>5. CASE FailRow
  <2>1. PICK x \in Rows : x = Members(loop.cur)[loop.at]
    BY <1>1, <1>5, MemberAt, Zenon
  <2> QED BY <1>1, <1>5, <2>1, FailRowFacts
<1> QED BY <1>1, <1>2, <1>3, <1>4, <1>5, ClientCancels, OwnerObjects DEF Next, Loop, Terminated

(* Every step treats them so. *)
LEMMA FlagsStep ==
  ASSUME IInv, ErrorCancels, [Next]_vars
  PROVE  Flags
<1>1. TypeOK /\ Shape /\ CompletionAccounting /\ req \in [Requests -> RequestRecord]
  BY DEF IInv, TypeOK
<1>3. CASE CheckControls
  <2> DEFINE asked == {q \in Controlled :
                /\ ~req[q].cancelled
                /\ \E r \in Resident : Owner[r] = q /\ ~row[r].completed}
  <2>1. PICK answer \in [asked -> {"go", "stop", "throw"}] :
          req' = [q \in Requests |->
                    IF q \in asked /\ answer[q] # "go"
                      THEN [req[q] EXCEPT !.cancelled = TRUE, !.error = answer[q] = "throw"]
                      ELSE req[q]]
    BY <1>3, Zenon DEF CheckControls
  <2>2. \A q \in asked : ~req[q].cancelled /\ (\E r \in Rows : Owner[r] = q /\ ~row[r].completed)
    <3>1. Resident \subseteq Rows
      <4>1. ASSUME NEW a \in Adapters PROVE ToSet(Members(a)) \subseteq Rows
        <5>1. Members(a) \in Seq(Rows)
          BY <1>1, MembersType
        <5> QED BY <5>1 DEF ToSet
      <4>2. ToSet(pending_rows) \subseteq Rows
        BY <1>1 DEF TypeOK, ToSet
      <4> QED BY <4>1, <4>2 DEF Resident
    <3> QED BY <3>1
  <2> HIDE DEF asked
  <2>3. \A q \in Requests :
          \/ req'[q] = req[q]
          \/ q \in asked /\ req'[q].cancelled
    BY <1>1, <2>1, Zenon DEF RequestRecord
  <2>4. \A q \in asked \cap Requests : ~req[q].error
    BY <2>2 DEF ErrorCancels
  <2> QED BY <2>2, <2>3, <2>4 DEF Flags
<1>4. CASE FailRow
  <2>1. PICK x \in Rows : x = Members(loop.cur)[loop.at]
    BY <1>1, <1>4, MemberAt, Zenon
  <2>2. PICK c \in BOOLEAN : c = TRUE
    OBVIOUS
  <2>3. /\ \A q \in Requests :
             /\ req'[q].error => req[q].error \/ (q = Owner[x] /\ ~row[x].completed)
             /\ req[q].error => req'[q].error
        /\ ~row[x].completed => req'[Owner[x]].error /\ req'[Owner[x]].cancelled
    BY <1>1, <1>4, <2>1, <2>2, FailReqIs
  <2> QED BY <2>3 DEF Flags
<1>5. ASSUME NEW x \in Rows, req' = CompleteReq(x, req[Owner[x]].cancelled) PROVE Flags
  <2>1. PICK c \in BOOLEAN : c = req[Owner[x]].cancelled
    BY <1>1, Belongs DEF TypeOK, RequestRecord
  <2>2. CASE row[x].completed
    <3>1. req' = req
      BY <1>5, <2>1, <2>2 DEF CompleteReq
    <3> QED BY <3>1, FlagsSame
  <2>3. CASE ~row[x].completed
    BY <1>1, <1>5, <2>1, <2>3, CompleteReqIs, FlagsSame
  <2> QED BY <2>2, <2>3
<1>6. CASE AdmitRow
  <2>1. PICK x \in Rows : x = pending_rows[loop.at]
    BY <1>1, <1>6, AdmitRowFacts
  <2>2. req' = req \/ req' = CompleteReq(x, req[Owner[x]].cancelled)
    BY <1>6, <2>1, Zenon DEF AdmitRow
  <2> QED BY <1>5, <2>2, FlagsSame
<1>7. CASE RebuildRow
  <2>1. PICK x \in Rows : x = Members(loop.cur)[loop.at]
    BY <1>1, <1>7, MemberAt, Zenon
  <2>2. req' = req \/ req' = CompleteReq(x, req[Owner[x]].cancelled)
    BY <1>1, <1>7, <2>1, RebuildRowCases, Zenon
  <2> QED BY <1>5, <2>2, FlagsSame
<1>8. CASE SampleRow
  <2>1. PICK x \in Rows : x = Current.rows[loop.at]
    BY <1>1, <1>8, SampleFacts DEF SampleRow
  <2>2. req' = req \/ (\E t : req' = [req EXCEPT ![Owner[x]].events = t])
    BY <1>1, <1>8, <2>1, SampleRowIs
  <2>3. Owner[x] \in Requests
    BY Belongs
  <2>4. ASSUME NEW t, req' = [req EXCEPT ![Owner[x]].events = t]
        PROVE  \A q \in Requests : req'[q].error = req[q].error
    <3>1. PICK o : o = [req[Owner[x]] EXCEPT !.events = t]
      OBVIOUS
    <3>2. o.error = req[Owner[x]].error
      BY <1>1, <2>3, <3>1 DEF RequestRecord
    <3>3. req' = [req EXCEPT ![Owner[x]] = o]
      BY <2>4, <3>1
    <3> QED BY <1>1, <2>3, <3>2, <3>3
  <2>5. CASE req' = req
    BY <2>5, FlagsSame
  <2>6. CASE \E t : req' = [req EXCEPT ![Owner[x]].events = t]
    BY <2>4, <2>6, FlagsSame
  <2> QED BY <2>2, <2>5, <2>6
<1>9. CASE Arrived \/ \E a \in Adapters : BeginStep(a)
  <2>1. req' = req \/ \E S : req' = Cancel(S)
    BY <1>9, Zenon DEF Arrived, PendingAfterShutdown, BeginStep
  <2>2. \A q \in Requests : req'[q].error = req[q].error
    BY <1>1, <2>1 DEF Cancel, RequestRecord
  <2> QED BY <2>2, FlagsSame
<1>10. CASE \/ LoopTop \/ Admit \/ AdmitDone \/ RunChunk \/ EndSweep \/ RebuildCommit
            \/ SampleDone \/ Forward \/ StepThrows \/ FailDone \/ Destroy \/ UNCHANGED vars
  <2>1. req' = req
    BY <1>10 DEF LoopTop, Admit, AdmitDone, RunChunk, EndSweep, RebuildCommit, SampleDone,
       Forward, StepThrows, FailDone, Destroy, objects, vars
  <2> QED BY <2>1, FlagsSame
<1>11. ASSUME NEW q \in Requests, Client(q) PROVE Flags
  <2>1. CASE SubmitPrefill(q) \/ SubmitGenerate(q) \/ Conclude(q)
    <3>1. req' = req
      BY <2>1 DEF SubmitPrefill, SubmitGenerate, Conclude, objects
    <3> QED BY <3>1, FlagsSame
  <2>2. CASE Take(q)
    BY <1>1, <2>2, TakeIs, FlagsSame
  <2>3. CASE Deliver(q)
    BY <1>1, <2>3, DeliverIs, FlagsSame
  <2> QED BY <1>11, <2>1, <2>2, <2>3 DEF Client
<1> QED BY <1>3, <1>4, <1>6, <1>7, <1>8, <1>9, <1>10, <1>11 DEF Next, Loop, Terminated
-----------------------------------------------------------------------------
(* How a call moves outside taking and delivering: it leaves the delivery   *)
(* with nothing held, and returns only when done and without an error.      *)
CallStep(q) ==
  /\ client'[q].batch = client[q].batch /\ client'[q].done = client[q].done
  /\ client'[q].accepting = client[q].accepting
  /\ client'[q].callback_error = client[q].callback_error
  /\ \/ client'[q].stage = client[q].stage
     \/ /\ client'[q].stage # "delivering"
        /\ client[q].stage = "delivering" => client[q].batch = <<>>
        /\ client'[q].stage = "returned" =>
             client[q].done /\ ~client[q].callback_error /\ ~req[q].error

(* Every step moves a call so, or takes or delivers its events. *)
LEMMA CallerTurns ==
  ASSUME IInv, HInv, [Next]_vars, NEW q \in Requests
  PROVE  CallStep(q) \/ Take(q) \/ Deliver(q)
<1>1. TypeOK /\ client \in [Requests -> ClientRecord]
  BY DEF IInv, TypeOK
<1>2. CASE client' = client
  BY <1>2 DEF CallStep
<1>3. CASE RunChunk
  <2>1. CASE client' = client
    BY <1>2, <2>1
  <2>2. CASE client' # client
    <3>1. loop.chunk \in Seq(Requests) /\ loop.chunk # <<>>
      BY <1>1, <1>3, <2>2 DEF TypeOK, LoopRecord, RunChunk
    <3>2. PICK p \in Requests : p = loop.chunk[1] /\ In(loop.chunk, p)
      BY <3>1 DEF In
    <3>3. client[p].stage = "prefilling"
      BY <3>2 DEF HInv, PrefillQueue
    <3>4. \/ \E n : client' = [client EXCEPT ![p].stage = "new", ![p].chunks = n]
          \/ client' = [client EXCEPT ![p].stage = "threw"]
      BY <1>3, <2>2, <3>2 DEF RunChunk
    <3>5. CASE client' = [client EXCEPT ![p].stage = "threw"]
      BY <1>1, <3>3, <3>5 DEF ClientRecord, CallStep
    <3>6. ASSUME NEW n, client' = [client EXCEPT ![p].stage = "new", ![p].chunks = n]
          PROVE  CallStep(q)
      <4>1. PICK o : o = [client[p] EXCEPT !.stage = "new", !.chunks = n]
        OBVIOUS
      <4>2. /\ o.stage = "new" /\ o.batch = client[p].batch /\ o.done = client[p].done
            /\ o.accepting = client[p].accepting
            /\ o.callback_error = client[p].callback_error
        BY <1>1, <4>1 DEF ClientRecord
      <4>3. client' = [client EXCEPT ![p] = o]
        BY <1>1, <3>6, <4>1 DEF ClientRecord
      <4>4. client'[q] = IF q = p THEN o ELSE client[q]
        BY <1>1, <4>3
      <4> QED BY <3>3, <4>2, <4>4 DEF CallStep
    <3> QED BY <3>4, <3>5, <3>6
  <2> QED BY <2>1, <2>2
<1>4. ASSUME NEW p \in Requests, SubmitPrefill(p) \/ SubmitGenerate(p)
      PROVE  CallStep(q)
  <2>1. PICK s \in Stages \ {"delivering", "returned"} :
           client[p].stage = "new" /\ client' = [client EXCEPT ![p].stage = s]
    BY <1>4 DEF SubmitPrefill, SubmitGenerate, Stages
  <2>2. s # "delivering" /\ s # "returned"
    BY <2>1
  <2> QED BY <1>1, <2>1, <2>2 DEF ClientRecord, CallStep
<1>5. ASSUME NEW p \in Requests, Conclude(p) PROVE CallStep(q)
  <2>1. client[p].done \in BOOLEAN
    BY <1>1 DEF ClientRecord
  <2>2. PICK s : /\ client' = [client EXCEPT ![p].stage = s]
                 /\ s = CASE ~client[p].done -> "waiting"
                      [] client[p].done /\ (client[p].callback_error \/ req[p].error) -> "threw"
                      [] client[p].done /\ ~(client[p].callback_error \/ req[p].error) -> "returned"
    BY <1>5 DEF Conclude
  <2>3. s # "delivering"
    BY <2>1, <2>2
  <2>4. s = "returned" => client[p].done /\ ~client[p].callback_error /\ ~req[p].error
    BY <2>1, <2>2
  <2>5. client[p].batch = <<>>
    BY <1>5 DEF Conclude
  <2> QED BY <1>1, <2>2, <2>3, <2>4, <2>5 DEF ClientRecord, CallStep
<1>6. ASSUME NEW p \in Requests, Take(p) \/ Deliver(p), p # q PROVE CallStep(q)
  <2>1. client'[q] = client[q]
    BY <1>1, <1>6, TakeIs, DeliverIs
  <2> QED BY <2>1 DEF CallStep
<1>7. CASE Loop /\ ~RunChunk
  <2>1. client' = client
    BY <1>7, Zenon
       DEF Loop, LoopTop, Admit, Arrived, AdmitRow, AdmitDone, CheckControls, BeginStep,
       EndSweep, RebuildRow, RebuildCommit, SampleRow, SampleDone, Forward, StepThrows,
       FailRow, FailDone, callers
  <2> QED BY <1>2, <2>1
<1>8. CASE Destroy \/ UNCHANGED vars
  BY <1>2, <1>8 DEF Destroy, vars, callers
<1> QED BY <1>3, <1>4, <1>5, <1>6, <1>7, <1>8 DEF Next, Client, Terminated

(* A call ends with nothing held or queued. *)
LEMMA CallEndsStep ==
  ASSUME IInv, HInv, CallEnds, Flags, [Next]_vars
  PROVE  CallEnds'
<1>1. TypeOK
  BY DEF IInv
<1> SUFFICES ASSUME NEW q \in Requests
             PROVE  /\ client'[q].stage # "delivering" => client'[q].batch = <<>>
                    /\ client'[q].done => req'[q].events = <<>>
                    /\ client'[q].stage = "returned" =>
                         /\ client'[q].done /\ ~client'[q].callback_error
                         /\ ~req'[q].error
  BY DEF CallEnds
<1>2. /\ client[q].stage # "delivering" => client[q].batch = <<>>
      /\ client[q].done => req[q].events = <<>>
      /\ client[q].stage = "returned" =>
           client[q].done /\ ~client[q].callback_error /\ ~req[q].error
  BY DEF CallEnds
<1>3. CASE Take(q)
  BY <1>1, <1>3, TakeIs
<1>4. CASE Deliver(q)
  BY <1>1, <1>2, <1>4, DeliverIs
<1>5. CASE CallStep(q) /\ ~Take(q) /\ ~Deliver(q)
  <2>1. client'[q].stage # "delivering" => client'[q].batch = <<>>
    BY <1>2, <1>5 DEF CallStep
  <2>2. req'[q].events = req[q].events \/ ~client[q].done
    <3>1. CASE SameEvents
      BY <3>1 DEF SameEvents
    <3>2. ASSUME NEW x \in Rows, NEW t, Emission(x, t)
          PROVE  req'[q].events = req[q].events \/ ~client[q].done
      BY <3>2 DEF Emission, HInv, CallersDone
    <3>3. ASSUME NEW p \in Requests, Take(p) \/ Deliver(p)
          PROVE  req'[q].events = req[q].events
      BY <1>1, <1>5, <3>3, TakeIs, DeliverIs
    <3> QED BY <3>1, <3>2, <3>3, EventKinds
  <2>3. client[q].done /\ ~req[q].error => ~req'[q].error
    BY DEF Flags, HInv, CallersDone
  <2> QED BY <1>2, <1>5, <2>1, <2>2, <2>3 DEF CallStep
<1> QED BY <1>3, <1>4, <1>5, CallerTurns

(* An error comes with the cancellation. *)
LEMMA ErrorStep ==
  ASSUME ErrorCancels, Flags, StillCancelled
  PROVE  ErrorCancels'
  BY DEF ErrorCancels, Flags, StillCancelled
(* A call closed to further output stays so. *)
Closed(q) == ~client[q].accepting \/ client[q].callback_error

LEMMA ClosedStays ==
  ASSUME IInv, HInv, [Next]_vars, NEW q \in Requests
  PROVE  /\ client'[q].accepting => client[q].accepting
         /\ client[q].callback_error => client'[q].callback_error
         /\ Closed(q) => Closed(q)'
<1>1. TypeOK
  BY DEF IInv
<1>2. CASE CallStep(q)
  BY <1>2 DEF CallStep, Closed
<1>3. CASE Take(q)
  BY <1>1, <1>3, TakeIs DEF Closed
<1>4. CASE Deliver(q)
  BY <1>1, <1>4, DeliverIs DEF Closed, Delivers, Closes
<1> QED BY <1>2, <1>3, <1>4, CallerTurns

(* Outside the steps that ask, shut down or fail, only its caller cancels a *)
(* call, and closes it.                                                    *)
LEMMA OnlyCallersCancel ==
  ASSUME IInv, HInv, [Next]_vars,
         ~(Arrived \/ CheckControls \/ (\E a \in Adapters : BeginStep(a)) \/ FailRow),
         NEW r \in Rows, ByCaller(r)
  PROVE  ByCaller(r)'
<1>1. TypeOK /\ Shape /\ req \in [Requests -> RequestRecord]
  BY DEF IInv, TypeOK
<1>2. PICK q \in Requests : q = Owner[r]
  BY Belongs
<1>3. req'[q].cancelled => req[q].cancelled \/ Closed(q)'
  <2>1. CASE req' = req
    BY <2>1
  <2>2. ASSUME NEW x \in Rows, req' = CompleteReq(x, req[Owner[x]].cancelled)
        PROVE  req'[q].cancelled = req[q].cancelled
    <3>1. PICK c \in BOOLEAN : c = req[Owner[x]].cancelled
      BY <1>1, Belongs DEF RequestRecord
    <3> QED BY <1>1, <2>2, <3>1, CompleteKeeps
  <2>3. CASE AdmitRow
    <3>1. PICK x \in Rows : x = pending_rows[loop.at]
      BY <1>1, <2>3, AdmitRowFacts
    <3>2. req' = req \/ req' = CompleteReq(x, req[Owner[x]].cancelled)
      BY <2>3, <3>1, Zenon DEF AdmitRow
    <3> QED BY <2>1, <2>2, <3>2, Zenon
  <2>4. CASE RebuildRow
    <3>1. PICK x \in Rows : x = Members(loop.cur)[loop.at]
      BY <1>1, <2>4, MemberAt, Zenon
    <3>2. req' = req \/ req' = CompleteReq(x, req[Owner[x]].cancelled)
      BY <1>1, <2>4, <3>1, RebuildRowCases, Zenon
    <3> QED BY <2>1, <2>2, <3>2, Zenon
  <2>5. CASE SampleRow
    <3>1. PICK x \in Rows : x = Current.rows[loop.at]
      BY <1>1, <2>5, SampleFacts DEF SampleRow
    <3>2. req' = req \/ (\E t : req' = [req EXCEPT ![Owner[x]].events = t])
      BY <1>1, <2>5, <3>1, SampleRowIs
    <3>3. ASSUME NEW t, req' = [req EXCEPT ![Owner[x]].events = t]
          PROVE  req'[q].cancelled = req[q].cancelled
      BY <1>1, <3>3 DEF RequestRecord
    <3> QED BY <2>1, <3>2, <3>3
  <2>6. CASE \/ LoopTop \/ Admit \/ AdmitDone \/ RunChunk \/ EndSweep \/ RebuildCommit
             \/ SampleDone \/ Forward \/ StepThrows \/ FailDone \/ Destroy \/ UNCHANGED vars
    <3>1. req' = req
      BY <2>6 DEF LoopTop, Admit, AdmitDone, RunChunk, EndSweep, RebuildCommit, SampleDone,
         Forward, StepThrows, FailDone, Destroy, objects, vars
    <3> QED BY <2>1, <3>1
  <2>7. ASSUME NEW p \in Requests, Client(p)
        PROVE  req'[q].cancelled => req[q].cancelled \/ Closed(q)'
    <3>1. CASE SubmitPrefill(p) \/ SubmitGenerate(p) \/ Conclude(p)
      <4>1. req' = req
        BY <3>1 DEF SubmitPrefill, SubmitGenerate, Conclude, objects
      <4> QED BY <2>1, <4>1
    <3>2. CASE Take(p)
      BY <1>1, <3>2, TakeIs
    <3>3. CASE Deliver(p)
      <4>1. Delivers(p) \/ Closes(p)
        BY <1>1, <3>3, DeliverIs
      <4>2. p # q => req'[q] = req[q]
        BY <1>1, <3>3, DeliverIs
      <4> QED BY <4>1, <4>2 DEF Delivers, Closes, Closed
    <3> QED BY <2>7, <3>1, <3>2, <3>3 DEF Client
  <2> QED BY <2>3, <2>4, <2>5, <2>6, <2>7 DEF Next, Loop, Terminated
<1>4. Closed(q) => Closed(q)'
  BY <1>2, ClosedStays
<1> QED BY <1>2, <1>3, <1>4 DEF ByCaller, Closed
(* The kept members after rebuild() has looked at one more. *)
LEMMA KeptNext ==
  ASSUME TypeOK, Shape, RebuildRow, NEW x \in Rows, x = Members(loop.cur)[loop.at],
         NEW r, Kept(r)'
  PROVE  Kept(r) \/ (r = x /\ Keeps(x))
<1>1. loop \in LoopRecord /\ loop.live \in Seq(LiveRow)
  BY DEF TypeOK, LoopRecord
<1>2. Drops(x) \/ Ends(x) \/ Pauses(x) \/ Keeps(x)
  BY RebuildSplit
<1>3. CASE Drops(x) \/ Ends(x) \/ Pauses(x)
  <2>1. loop'.live = loop.live
    BY <1>1, <1>3 DEF Drops, Ends, Pauses, LoopRecord
  <2> QED BY <2>1 DEF Kept
<1>4. CASE Keeps(x)
  <2>1. PICK l : l = [row |-> x, old |-> IF Old THEN loop.at ELSE 0]
    OBVIOUS
  <2>2. PICK s : s = Append(loop.live, l)
    OBVIOUS
  <2>3. loop'.live = s /\ l.row = x
    BY <1>1, <1>4, <2>1, <2>2 DEF Keeps, LoopRecord
  <2>4. /\ Len(s) = Len(loop.live) + 1 /\ Len(loop.live) \in Nat
        /\ \A k \in 1..Len(s) : s[k] = IF k <= Len(loop.live) THEN loop.live[k] ELSE l
    BY <1>1, <2>2
  <2>5. PICK k \in 1..Len(s) : s[k].row = r
    BY <2>3 DEF Kept
  <2>6. CASE k <= Len(loop.live)
    <3>1. k \in 1..Len(loop.live) /\ loop.live[k].row = r
      BY <2>4, <2>5, <2>6
    <3> QED BY <3>1 DEF Kept
  <2>7. CASE ~(k <= Len(loop.live))
    BY <1>4, <2>3, <2>4, <2>5, <2>7
  <2> QED BY <2>6, <2>7
<1> QED BY <1>2, <1>3, <1>4

(* The rows of the group that rebuild() packs are the kept ones. *)
LEMMA PackedRows ==
  ASSUME TypeOK, Shape, RebuildCommit, NEW r
  PROVE  /\ loop.pc = "rebuild" /\ loop'.cur = loop.cur /\ loop'.live = <<>>
         /\ loop'.pc \in {"sample", "forward", "sweep"} /\ loop'.pass = loop.pass
         /\ loop'.pc = "sample" => loop.pass = 1
         /\ loop'.at = 1
         /\ In(Current.rows, r)' => Kept(r)
<1>1. loop \in LoopRecord /\ loop.live \in Seq(LiveRow) /\ loop.cur \in Adapters
  BY DEF TypeOK, LoopRecord
<1>2. /\ loop.pc = "rebuild" /\ loop'.pc = AfterRebuild(loop.live = <<>>)
      /\ loop'.cur = loop.cur /\ loop'.at = 1 /\ loop'.live = <<>> /\ loop'.pass = loop.pass
      /\ groups'[loop.cur] = RebuiltGroup
  BY <1>1 DEF RebuildCommit, LoopRecord, TypeOK
<1>3. loop'.pc \in {"sample", "forward", "sweep"} /\ (loop'.pc = "sample" => loop.pass = 1)
  BY <1>1, <1>2 DEF AfterRebuild, LoopRecord
<1>4. RebuiltGroup.rows = [i \in 1..Len(loop.live) |-> loop.live[i].row]
  BY DEF RebuiltGroup, Rebuilt
<1>5. Len(RebuiltGroup.rows) = Len(loop.live)
  BY <1>2, RebuiltType
<1>6. In(RebuiltGroup.rows, r) => Kept(r)
  BY <1>4, <1>5 DEF In, Kept
<1> QED BY <1>2, <1>3, <1>6 DEF Current

(* Sampling leaves the rows of the group. *)
LEMMA SampledRowsStay ==
  ASSUME TypeOK, Shape, SampleRow \/ SampleDone
  PROVE  /\ loop.pc = "sample" /\ loop'.cur = loop.cur
         /\ SampleRow => loop'.pc = "sample" /\ loop'.at = loop.at + 1
         /\ SampleDone => loop'.pc = "rebuild" /\ loop'.pass = 2
         /\ Current'.rows = Current.rows
<1>1. loop \in LoopRecord /\ loop.cur \in Adapters
  BY DEF TypeOK, LoopRecord
<1>2. /\ loop.pc = "sample" /\ loop'.cur = loop.cur
      /\ SampleRow => loop'.pc = "sample" /\ loop'.at = loop.at + 1
      /\ SampleDone => loop'.pc = "rebuild" /\ loop'.pass = 2
  BY <1>1 DEF SampleRow, SampleDone, LoopRecord
<1>3. CASE SampleDone
  BY <1>2, <1>3 DEF SampleDone, placement, Current
<1>4. CASE SampleRow
  <2>1. PICK t : groups' = [groups EXCEPT ![loop.cur].slots = t]
    BY <1>4, SampleRowGroups
  <2>2. groups'[loop.cur].rows = groups[loop.cur].rows
    BY <1>1, <2>1 DEF TypeOK, Group
  <2> QED BY <1>2, <2>2 DEF Current
<1> QED BY <1>2, <1>3, <1>4

(* Whoever cancelled a row that is sampled or kept was its caller. *)
LEMMA CancellersStep ==
  ASSUME IInv, HInv, CancelledByCallers, [Next]_vars
  PROVE  CancelledByCallers'
<1>1. /\ TypeOK /\ Shape /\ loop \in LoopRecord /\ loop.cur \in Adapters
  BY DEF IInv, TypeOK, LoopRecord
<1>2. CASE loop'.pc \notin {"sample", "rebuild"}
  BY <1>2 DEF CancelledByCallers
<1>3. CASE Arrived \/ CheckControls \/ (\E a \in Adapters : BeginStep(a)) \/ FailRow
  <2>1. loop'.pc \notin {"sample", "rebuild"}
        \/ (loop'.pc = "rebuild" /\ loop'.pass = 1 /\ loop'.live = <<>>)
    BY <1>1, <1>3, Zenon DEF Arrived, CheckControls, BeginStep, FailRow, LoopRecord
  <2> QED BY <2>1 DEF CancelledByCallers, Kept
<1> SUFFICES ASSUME ~(Arrived \/ CheckControls \/ (\E a \in Adapters : BeginStep(a)) \/ FailRow)
             PROVE  CancelledByCallers'
  BY <1>3
<1>4. \A r \in Rows : ByCaller(r) => ByCaller(r)'
  BY OnlyCallersCancel
<1>5. CASE (\E q \in Requests : Client(q)) \/ Destroy \/ UNCHANGED vars
  <2>1. groups' = groups /\ loop' = loop
    BY <1>1, <1>5, ClientState DEF Destroy, vars, placement
  <2>2. \A r : /\ In(Current.rows, r)' <=> In(Current.rows, r)
               /\ Kept(r)' <=> Kept(r)
    BY <2>1 DEF Current, Kept
  <2> QED BY <1>4, <2>1, <2>2 DEF CancelledByCallers
<1>6. CASE RebuildRow
  <2>1. PICK x \in Rows : x = Members(loop.cur)[loop.at]
    BY <1>1, <1>6, MemberAt, Zenon
  <2>2. /\ Drops(x) \/ Ends(x) \/ Pauses(x) \/ Keeps(x)
        /\ loop.pc = "rebuild" /\ groups' = groups
    BY <1>6, <2>1, RebuildSplit
  <2>3. loop'.pc = loop.pc /\ loop'.cur = loop.cur /\ loop'.pass = loop.pass
    BY <1>1, <2>2 DEF Drops, Ends, Pauses, Keeps, LoopRecord
  <2>4. Keeps(x) => ByCaller(x)
    BY DEF Keeps, Leaves, Dead, ByCaller
  <2>5. \A r \in Rows : Kept(r)' => Kept(r) \/ (r = x /\ Keeps(x))
    BY <1>1, <1>6, <2>1, KeptNext
  <2>6. \A r : In(Current.rows, r)' <=> In(Current.rows, r)
    BY <2>2, <2>3 DEF Current
  <2> QED BY <1>4, <2>2, <2>3, <2>4, <2>5, <2>6 DEF CancelledByCallers
<1>7. CASE RebuildCommit
  <2>1. /\ loop.pc = "rebuild" /\ loop'.pc \in {"sample", "forward", "sweep"}
        /\ loop'.pc = "sample" => loop.pass = 1
        /\ \A r : In(Current.rows, r)' => Kept(r)
    BY <1>1, <1>7, PackedRows
  <2> QED BY <1>4, <2>1 DEF CancelledByCallers
<1>8. CASE SampleRow \/ SampleDone
  <2>1. /\ loop.pc = "sample" /\ Current'.rows = Current.rows
        /\ loop'.pc = "sample" \/ (loop'.pc = "rebuild" /\ loop'.pass = 2)
    BY <1>1, <1>8, SampledRowsStay
  <2>2. \A r : In(Current.rows, r)' <=> In(Current.rows, r)
    BY <2>1
  <2> QED BY <1>4, <2>1, <2>2 DEF CancelledByCallers
<1>9. CASE Forward
  <2>1. loop'.pc = "rebuild" /\ loop'.pass = 3
    BY <1>1, <1>9 DEF Forward, LoopRecord
  <2> QED BY <2>1 DEF CancelledByCallers
<1>10. CASE \/ LoopTop \/ Admit \/ AdmitRow \/ AdmitDone \/ RunChunk
            \/ EndSweep \/ StepThrows \/ FailDone
  <2>1. loop'.pc \notin {"sample", "rebuild"}
    BY <1>1, <1>10, Zenon DEF LoopTop, Admit, AdmitRow, AdmitDone, RunChunk,
       EndSweep, StepThrows, FailDone, LoopRecord
  <2> QED BY <1>2, <2>1
<1> QED BY <1>5, <1>6, <1>7, <1>8, <1>9, <1>10 DEF Next, Loop, Terminated
(* What a state of a row is when the row completes, and that it is the last *)
(* word: all tokens, or all but the one just sampled for a caller that has *)
(* closed the call, or whatever an error leaves.                           *)
RowExport(r) ==
  /\ row[r].completed =>
       /\ row'[r].completed
       /\ exported'[r].fed = exported[r].fed /\ row'[r].step = row[r].step
  /\ ~row[r].completed /\ row'[r].completed =>
       /\ row'[r].step = row[r].step /\ client' = client /\ delivered' = delivered
       /\ \/ exported'[r].fed = row[r].step
          \/ req'[Owner[r]].error
          \/ exported'[r].fed + 1 = row[r].step /\ Closed(Owner[r])
  /\ row'[r].step >= row[r].step

(* A step that moves no state and completes no row. *)
LEMMA ExportSame ==
  ASSUME TypeOK, NEW r \in Rows, exported' = exported,
         row'[r].completed = row[r].completed, row'[r].step = row[r].step
  PROVE  RowExport(r)
<1>1. row[r].step \in Nat
  BY DEF TypeOK, RowRecord
<1> QED BY <1>1 DEF RowExport

(* A step that completes row x and leaves the others. *)
LEMMA ExportComplete ==
  ASSUME TypeOK, NEW x \in Rows, NEW c \in BOOLEAN, row' = CompleteRow(x, c),
         client' = client, delivered' = delivered,
         \A s \in Rows : s # x \/ row[x].completed => exported'[s] = exported[s],
         ~row[x].completed =>
           \/ exported'[x].fed = row[x].step
           \/ req'[Owner[x]].error
           \/ exported'[x].fed + 1 = row[x].step /\ Closed(Owner[x]),
         NEW r \in Rows
  PROVE  RowExport(r)
<1>1. row[r].step \in Nat
  BY DEF TypeOK, RowRecord
<1>2. row'[r].step = row[r].step /\ (row'[r].completed <=> r = x \/ row[r].completed)
  BY CompleteRowIs
<1> QED BY <1>1, <1>2 DEF RowExport

(* Every step treats a row so. *)
LEMMA ExportStep ==
  ASSUME IInv, HInv, StateMatch, CancelledByCallers, [Next]_vars, NEW r \in Rows
  PROVE  RowExport(r)
<1>1. TypeOK /\ Shape /\ CompletionAccounting /\ Homed /\ Owning
  BY DEF IInv, HInv, Homed
<1>2. CASE (\E q \in Requests : Client(q)) \/ Destroy \/ UNCHANGED vars
  <2>1. exported' = exported /\ RowsKept
    BY <1>1, <1>2, ClientState DEF Destroy, vars, objects, RowsKept, RowKept
  <2> QED BY <1>1, <2>1, ExportSame DEF RowsKept, RowKept
<1>3. CASE \/ LoopTop \/ Admit \/ Arrived \/ AdmitDone \/ RunChunk \/ CheckControls
           \/ (\E a \in Adapters : BeginStep(a)) \/ EndSweep \/ RebuildCommit
           \/ SampleDone \/ Forward \/ StepThrows \/ FailDone
  <2>1. SameEvents
    BY <1>1, <1>3, OwnerQuiet
  <2>2. exported' = exported
    BY <1>3, Zenon DEF LoopTop, Admit, Arrived, AdmitDone, RunChunk, CheckControls, BeginStep,
       EndSweep, RebuildCommit, SampleDone, Forward, StepThrows, FailDone, objects
  <2> QED BY <1>1, <2>1, <2>2, ExportSame DEF SameEvents
<1>4. CASE SampleRow
  <2>1. PICK x \in Rows : x = Current.rows[loop.at]
    BY <1>1, <1>4, SampleFacts DEF SampleRow
  <2>2. exported' = exported
    BY <1>4 DEF SampleRow
  <2>3. ~row[x].completed
    <3>1. loop.at \in 1..Len(Current.rows) /\ loop.pc = "sample"
      BY <1>1, <1>4, SampleFacts DEF SampleRow
    <3> QED BY <1>1, <2>1, <3>1 DEF Owning, Running
  <2>4. CASE r # x
    <3>1. row'[r] = row[r]
      BY <1>1, <1>4, <2>1, <2>4, SampleRowIs
    <3> QED BY <1>1, <2>2, <3>1, ExportSame
  <2>5. CASE r = x
    <3>1. /\ row'[x].completed = row[x].completed
          /\ row'[x].step = row[x].step \/ row'[x].step = row[x].step + 1
      BY <1>1, <1>4, <2>1, SampleRowIs
    <3>2. row[x].step \in Nat
      BY <1>1 DEF TypeOK, RowRecord
    <3> QED BY <2>3, <2>5, <3>1, <3>2 DEF RowExport
  <2> QED BY <2>4, <2>5
<1>5. CASE AdmitRow
  <2>1. PICK x \in Rows : x = pending_rows[loop.at]
    BY <1>1, <1>5, AdmitRowFacts
  <2>2. PICK c \in BOOLEAN : c = req[Owner[x]].cancelled
    BY <1>1, Belongs DEF TypeOK, RequestRecord
  <2>3. /\ exported' = exported /\ client' = client /\ delivered' = delivered
        /\ row' = row \/ row' = CompleteRow(x, c)
    BY <1>5, <2>1, <2>2, Zenon DEF AdmitRow, callers
  <2>4. ~row[x].completed => exported[x].fed = row[x].step
    <3>1. Pending(x)
      BY <1>1, <1>5, <2>1, AdmitRowFacts
    <3> QED BY <3>1 DEF StateMatch, AwayMatch, Away
  <2>5. CASE row' = row
    BY <1>1, <2>3, <2>5, ExportSame
  <2>6. CASE row' = CompleteRow(x, c)
    BY <1>1, <2>3, <2>4, <2>6, ExportComplete
  <2> QED BY <2>3, <2>5, <2>6
<1>6. CASE RebuildRow
  <2>1. PICK x \in Rows : x = Members(loop.cur)[loop.at]
    BY <1>1, <1>6, MemberAt, Zenon
  <2>2. /\ Drops(x) \/ Ends(x) \/ Pauses(x) \/ Keeps(x)
        /\ loop.pc = "rebuild" /\ client' = client /\ delivered' = delivered
    BY <1>6, <2>1, RebuildSplit
  <2>3. CASE Drops(x) \/ Keeps(x)
    <3>1. row' = row /\ exported' = exported
      BY <2>3 DEF Drops, Keeps
    <3> QED BY <1>1, <3>1, ExportSame
  <2>4. CASE Pauses(x)
    <3>1. PICK h, s : h = Current.slots[loop.at].hist /\ s = Current.slots[loop.at]
      OBVIOUS
    <3>2. /\ row' = [row EXCEPT ![x].saved_sampler = h] /\ exported' = Export(x, s)
          /\ ~row[x].completed
      BY <2>4, <3>1 DEF Pauses
    <3>3. row'[r].step = row[r].step /\ row'[r].completed = row[r].completed
      BY <1>1, <3>2 DEF TypeOK, RowRecord
    <3>4. row[r].completed => exported'[r] = exported[r]
      BY <1>1, <3>2, ExportIs
    <3>5. row[r].step \in Nat
      BY <1>1 DEF TypeOK, RowRecord
    <3> QED BY <3>3, <3>4, <3>5 DEF RowExport
  <2>5. CASE Ends(x)
    <3>1. PICK c \in BOOLEAN : c = req[Owner[x]].cancelled
      BY <1>1, Belongs DEF TypeOK, RequestRecord
    <3>2. row' = CompleteRow(x, c)
      BY <2>5, <3>1 DEF Ends
    <3>3. CASE Old
      <4>1. PICK s : s = Current.slots[loop.at]
        OBVIOUS
      <4>2. exported' = Export(x, s) /\ ~row[x].completed /\ Leaves(x)
        BY <2>5, <3>3, <4>1 DEF Ends
      <4>3. /\ x = Current.rows[loop.at] /\ In(Current.rows, x)
            /\ Fits(x, s, loop.pass = 2)
        BY <1>1, <1>6, <2>1, <3>3, <4>1, RebuildMember
      <4>4. exported'[x].fed = s.fed /\ \A y \in Rows : y # x => exported'[y] = exported[y]
        BY <1>1, <4>2, ExportIs
      <4>5. s.fed = row[x].step \/ (s.fed + 1 = row[x].step /\ Closed(Owner[x]))
        <5>1. CASE loop.pass # 2 \/ row[x].finished
          BY <4>2, <4>3, <5>1 DEF Fits
        <5>2. CASE loop.pass = 2 /\ ~row[x].finished
          <6>1. s.fed + 1 = row[x].step
            BY <4>2, <4>3, <5>2 DEF Fits
          <6>2. ByCaller(x) /\ req[Owner[x]].cancelled
            BY <2>2, <4>2, <4>3, <5>2 DEF CancelledByCallers, Leaves
          <6> QED BY <6>1, <6>2 DEF ByCaller, Closed
        <5> QED BY <5>1, <5>2
      <4>6. \/ exported'[x].fed = row[x].step
            \/ exported'[x].fed + 1 = row[x].step /\ Closed(Owner[x])
        BY <4>4, <4>5
      <4> QED BY <1>1, <2>2, <3>2, <4>2, <4>4, <4>6, ExportComplete
    <3>4. CASE ~Old
      <4>1. exported' = exported
        BY <2>5, <3>4 DEF Ends
      <4>2. ~In(Current.rows, x) /\ AdapterOf[Owner[x]] = loop.cur
        BY <1>1, <1>6, <2>1, <3>4, RebuildMember
      <4>3. Away(x)
        BY <4>2 DEF Away, Current
      <4>4. ~row[x].completed => exported'[x].fed = row[x].step
        BY <4>1, <4>3 DEF StateMatch, AwayMatch
      <4> QED BY <1>1, <2>2, <3>2, <4>1, <4>4, ExportComplete
    <3> QED BY <3>3, <3>4
  <2> QED BY <2>2, <2>3, <2>4, <2>5
<1>7. CASE FailRow
  <2>1. PICK x \in Rows : x = Members(loop.cur)[loop.at]
    BY <1>1, <1>7, MemberAt, Zenon
  <2>2. PICK c \in BOOLEAN : c = TRUE
    OBVIOUS
  <2>3. /\ row' = CompleteRow(x, c) /\ client' = client /\ delivered' = delivered
        /\ ~row[x].completed => req'[Owner[x]].error
    BY <1>1, <1>7, <2>1, <2>2, FailReqIs
  <2>4. exported' = exported
    BY <1>7 DEF FailRow
  <2> QED BY <1>1, <2>3, <2>4, ExportComplete
<1> QED BY <1>2, <1>3, <1>4, <1>5, <1>6, <1>7 DEF Next, Loop, Terminated

(* What a caller that stays open gets back covers all its tokens. *)
LEMMA ExactStep ==
  ASSUME IInv, HInv, StateMatch, CancelledByCallers, Flags, Exact, [Next]_vars
  PROVE  Exact'
<1> SUFFICES ASSUME NEW r \in Rows, row'[r].completed, Steady(Owner[r])'
             PROVE  exported'[r].fed = row'[r].step
  BY DEF Exact
<1>1. PICK q \in Requests : q = Owner[r]
  BY Belongs
<1>2. ~Closed(q) /\ Steady(q) /\ ~req'[q].error
  BY <1>1, ClosedStays DEF Steady, Closed, Flags
<1>3. RowExport(r)
  BY ExportStep
<1> QED BY <1>1, <1>2, <1>3 DEF RowExport, Exact
(* Only a caller that still accepts output counts more of it. *)
LEMMA CountsWhileOpen ==
  ASSUME IInv, HInv, EventsTrue, [Next]_vars, NEW r \in Rows,
         ~client'[Owner[r]].accepting
  PROVE  delivered'[r] = delivered[r]
<1>1. TypeOK
  BY DEF IInv
<1>2. CASE SameEvents \/ \E x \in Rows : \E t : Emission(x, t)
  BY <1>2 DEF SameEvents, Emission
<1>3. ASSUME NEW q \in Requests, Take(q) PROVE delivered'[r] = delivered[r]
  BY <1>1, <1>3, TakeIs
<1>4. ASSUME NEW q \in Requests, Deliver(q) PROVE delivered'[r] = delivered[r]
  <2>1. Delivers(q) \/ Closes(q)
    BY <1>1, <1>4, DeliverIs
  <2>2. CASE Closes(q)
    BY <2>2 DEF Closes
  <2>3. CASE Delivers(q)
    <3>1. PICK b \in Seq(Event) : b = client[q].batch /\ b # <<>>
      BY <1>1, <1>4, StreamIs, DeliverIs
    <3>2. PICK e \in Event : e = Head(b)
      BY <3>1
    <3>3. 1 \in 1..Len(Stream(q)) /\ Stream(q)[1] = e
      BY <1>1, <3>1, <3>2, HeadEvent
    <3>4. Owner[e.row] = q
      BY <3>3 DEF EventsTrue
    <3>5. delivered' = [delivered EXCEPT ![e.row] = @ + e.tokens]
      BY <2>3, <3>1, <3>2 DEF Delivers
    <3>6. client'[q].accepting
      BY <2>3 DEF Delivers
    <3> QED BY <1>1, <3>4, <3>5, <3>6 DEF TypeOK
  <2> QED BY <2>1, <2>2, <2>3
<1> QED BY <1>2, <1>3, <1>4, EventKinds

(* A caller that refuses an event of its row to complete has not got all. *)
LEMMA RefusedShort ==
  ASSUME TypeOK, EventsTrue, OutputConserved, NEW q \in Requests, Deliver(q),
         NEW r \in Rows, \A s \in Rows : Owner[s] = q <=> s = r,
         ~row[r].completed, client[q].accepting, ~client[q].callback_error
  PROVE  delivered[r] < row[r].step
<1>1. PICK b \in Seq(Event) : b = client[q].batch /\ b # <<>>
  BY StreamIs, DeliverIs
<1>2. PICK e \in Event : e = Head(b)
  BY <1>1
<1>3. 1 \in 1..Len(Stream(q)) /\ Stream(q)[1] = e
  BY <1>1, <1>2, HeadEvent
<1>4. e.row = r /\ e.tokens > 0 /\ e.tokens \in Nat
  BY <1>3 DEF EventsTrue, Event
<1>5. TokensIn(b, r) = e.tokens + TokensIn(Tail(b), r) /\ TokensIn(Tail(b), r) \in Nat
  BY <1>1, <1>2, <1>4, HeadCounts DEF TokensOf
<1>6. delivered[r] + TokensIn(b, r) + TokensIn(req[q].events, r) + row[r].pending = row[r].step
  BY <1>1 DEF OutputConserved
<1>7. PICK d \in Nat, n \in Nat, k \in Nat, m \in Nat, p \in Nat :
        /\ d = delivered[r] /\ n = e.tokens /\ k = TokensIn(Tail(b), r)
        /\ m = TokensIn(req[q].events, r) /\ p = row[r].pending
  <2>1. TokensIn(req[q].events, r) \in Nat
    <3>1. req[q].events \in Seq(Event)
      BY StreamIs
    <3> QED BY <3>1, CountConcat
  <2> QED BY <1>4, <1>5, <2>1 DEF TypeOK, RowRecord
<1>8. d + (n + k) + m + p = row[r].step
  BY <1>5, <1>6, <1>7
<1>9. n > 0
  BY <1>4, <1>7
<1>10. d < row[r].step
  BY <1>8, <1>9
<1> QED BY <1>7, <1>10

(* No more than the sum is delivered. *)
LEMMA AtMost ==
  ASSUME NEW d \in Nat, NEW b \in Seq(Event), NEW v \in Seq(Event), NEW p \in Nat, NEW r,
         NEW s, d + TokensIn(b, r) + TokensIn(v, r) + p = s
  PROVE  d <= s
<1>1. PICK k \in Nat, m \in Nat : k = TokensIn(b, r) /\ m = TokensIn(v, r)
  BY CountConcat
<1>2. d + k + m + p = s
  BY <1>1
<1> QED BY <1>2

(* The one row of a call. *)
LEMMA SingleRow ==
  ASSUME NEW q \in Requests, Len(RowsOf[q]) = 1
  PROVE  RowsOf[q][1] \in Rows /\ \A s \in Rows : Owner[s] = q <=> s = RowsOf[q][1]
<1>1. RowsOf[q] \in Seq(Rows) /\ \A s \in Rows : In(RowsOf[q], s) <=> Owner[s] = q
  BY RowsOfFacts
<1>2. RowsOf[q][1] \in Rows
  BY <1>1
<1>3. \A s \in Rows : In(RowsOf[q], s) <=> s = RowsOf[q][1]
  BY DEF In
<1> QED BY <1>1, <1>2, <1>3

(* A single row's state covers what its caller accepted. *)
LEMMA RefusedStep ==
  ASSUME IInv, TypeOK', HInv, StateMatch, EventsTrue, OutputConserved, CancelledByCallers,
         Flags, Exact, Refused, OutputConserved', [Next]_vars
  PROVE  Refused'
<1> SUFFICES ASSUME NEW q \in Requests, Len(RowsOf[q]) = 1,
                    ~client'[q].callback_error, ~req'[q].error
             PROVE  LET r == RowsOf[q][1]
                    IN  /\ row'[r].completed => delivered'[r] <= exported'[r].fed
                        /\ ~row'[r].completed /\ ~client'[q].accepting =>
                             delivered'[r] < row'[r].step
  BY DEF Refused
<1>1. PICK r \in Rows : r = RowsOf[q][1] /\ \A s \in Rows : Owner[s] = q <=> s = r
  BY SingleRow
<1>2. TypeOK /\ Owner[r] = q
  BY <1>1 DEF IInv
<1>3. /\ ~client[q].callback_error /\ ~req[q].error
      /\ client'[q].accepting => client[q].accepting
  BY ClosedStays DEF Flags
<1>4. /\ row[r].completed => delivered[r] <= exported[r].fed
      /\ ~row[r].completed /\ ~client[q].accepting => delivered[r] < row[r].step
  BY <1>1, <1>3 DEF Refused
<1>5. RowExport(r)
  BY ExportStep
<1>6. ~client'[q].accepting => delivered'[r] = delivered[r]
  BY <1>2, CountsWhileOpen
<1>7. PICK d \in Nat, n \in Nat, f \in Nat, s \in Nat, t \in Nat :
        /\ d = delivered[r] /\ n = exported[r].fed /\ f = exported'[r].fed
        /\ s = row[r].step /\ t = row'[r].step
  BY <1>2 DEF TypeOK, Slice, RowRecord
<1>8. CASE client'[q].accepting
  <2>1. row'[r].completed => f = t
    <3>1. Exact'
      BY ExactStep
    <3> QED BY <1>2, <1>7, <1>8, <3>1 DEF Exact, Steady
  <2>2. delivered'[r] + TokensIn(client'[q].batch, r) + TokensIn(req'[q].events, r)
          + row'[r].pending = row'[r].step
    BY <1>2, <1>8 DEF OutputConserved
  <2>3. /\ delivered'[r] \in Nat /\ row'[r].pending \in Nat
        /\ client'[q].batch \in Seq(Event) /\ req'[q].events \in Seq(Event)
    BY DEF TypeOK, RowRecord, ClientRecord, RequestRecord
  <2>4. delivered'[r] <= row'[r].step
    BY <2>2, <2>3, AtMost
  <2> QED BY <1>1, <1>7, <1>8, <2>1, <2>4
<1>9. CASE ~client'[q].accepting
  <2>1. CASE row[r].completed
    BY <1>1, <1>4, <1>5, <1>6, <1>9, <2>1 DEF RowExport
  <2>2. CASE ~row[r].completed /\ row'[r].completed
    <3>1. client'[q] = client[q] /\ (f = s \/ f + 1 = s)
      BY <1>2, <1>5, <1>7, <2>2 DEF RowExport
    <3>2. d < s
      BY <1>4, <1>7, <1>9, <2>2, <3>1
    <3>3. d <= f
      BY <3>1, <3>2
    <3> QED BY <1>1, <1>6, <1>7, <1>9, <2>2, <3>3
  <2>3. CASE ~row[r].completed /\ ~row'[r].completed
    <3>1. t >= s
      BY <1>5, <1>7 DEF RowExport
    <3>2. d < s
      <4>1. CASE ~client[q].accepting
        BY <1>4, <1>7, <2>3, <4>1
      <4>2. CASE client[q].accepting
        <5>1. Deliver(q)
          <6>1. CASE CallStep(q)
            BY <1>9, <4>2, <6>1 DEF CallStep
          <6>2. CASE Take(q)
            BY <1>2, <1>9, <4>2, <6>2, TakeIs
          <6> QED BY <6>1, <6>2, CallerTurns
        <5> QED BY <1>1, <1>2, <1>3, <1>7, <2>3, <4>2, <5>1, RefusedShort
      <4> QED BY <4>1, <4>2
    <3>3. d < t
      BY <3>1, <3>2
    <3> QED BY <1>1, <1>6, <1>7, <1>9, <2>3, <3>3
  <2> QED BY <2>1, <2>2, <2>3
<1> QED BY <1>8, <1>9
-----------------------------------------------------------------------------
(* What is queued for a call, and what its rows may still add.              *)
(* No set of rows of a request is larger than the request.                 *)
LEMMA SubCount ==
  ASSUME NEW q \in Requests, NEW S, \A r \in S : r \in Rows /\ Owner[r] = q
  PROVE  IsFiniteSet(S) /\ Cardinality(S) \in Nat /\ Cardinality(S) <= Len(RowsOf[q])
<1>1. S \subseteq {r \in Rows : Owner[r] = q}
  OBVIOUS
<1>2. IsFiniteSet(S) /\ Cardinality(S) <= Cardinality({r \in Rows : Owner[r] = q})
  BY <1>1, RowsOfCount, FS_Subset
<1> QED BY <1>2, RowsOfCount, FS_CardinalityType

(* No more rows remain than the request has. *)
LEMMA RemainingAtMost ==
  ASSUME TypeOK, CompletionAccounting, NEW q \in Requests
  PROVE  req[q].remaining \in Nat /\ req[q].remaining <= Len(RowsOf[q])
<1>1. \A r \in Uncompleted(q) : r \in Rows /\ Owner[r] = q
  BY DEF Uncompleted
<1> QED BY <1>1, SubCount, UncompletedFacts

(* The queue and the rows to complete, as numbers. *)
LEMMA Weighs ==
  ASSUME NEW e \in Seq(Event), NEW t \in Seq(Event), NEW n \in Nat
  PROVE  /\ Len(e) \in Nat /\ Len(<<>>) + 2 * n <= Len(e) + 2 * n
         /\ Len(t) <= 1 => Len(e \o t) + 2 * n <= Len(e) + 2 * n + 1
         /\ Len(t) <= 2 /\ n > 0 => Len(e \o t) + 2 * (n - 1) <= Len(e) + 2 * n
<1>1. PICK k \in Nat, l \in Nat : k = Len(e) /\ l = Len(t) /\ Len(e \o t) = k + l
  OBVIOUS
<1>2. Len(<<>>) = 0
  OBVIOUS
<1> QED BY <1>1, <1>2

(* Only sampling adds to the load, and one event at most, of the row sampled.*)
LEMMA LoadStep ==
  ASSUME IInv, TypeOK', HInv, [Next]_vars, NEW q \in Requests
  PROVE  /\ Load(q) \in Nat /\ Load(q)' \in Nat
         /\ \/ Load(q)' <= Load(q)
            \/ /\ SampleRow /\ q = Owner[Current.rows[loop.at]]
               /\ Load(q)' <= Load(q) + 1
<1>1. TypeOK /\ Shape /\ CompletionAccounting
  BY DEF IInv
<1>2. PICK e \in Seq(Event), n \in Nat : e = req[q].events /\ n = req[q].remaining
  BY <1>1 DEF TypeOK, RequestRecord
<1>3. Load(q) = Len(e) + 2 * n /\ Load(q) \in Nat
  <2>1. Len(e) \in Nat
    OBVIOUS
  <2> QED BY <1>2, <2>1 DEF Load
<1>4. Load(q)' \in Nat
  <2>1. PICK f \in Seq(Event), m \in Nat : f = req'[q].events /\ m = req'[q].remaining
    BY DEF TypeOK, RequestRecord
  <2>2. Len(f) \in Nat
    OBVIOUS
  <2> QED BY <2>1, <2>2 DEF Load
<1>5. CASE req'[q].events = e /\ req'[q].remaining = n
  BY <1>3, <1>5 DEF Load
<1>6. CASE SameEvents
  BY <1>2, <1>5, <1>6 DEF SameEvents
<1>7. ASSUME NEW p \in Requests, Take(p) PROVE Load(q)' <= Load(q)
  <2>1. CASE p # q
    BY <1>1, <1>2, <1>5, <1>3, <1>7, <2>1, TakeIs DEF Load
  <2>2. CASE p = q
    <3>1. Load(q)' = Len(<<>>) + 2 * n
      BY <1>1, <1>2, <1>7, <2>2, TakeIs DEF Load
    <3> QED BY <1>3, <3>1, Weighs
  <2> QED BY <2>1, <2>2
<1>8. ASSUME NEW p \in Requests, Deliver(p) PROVE Load(q)' <= Load(q)
  BY <1>1, <1>2, <1>3, <1>8, DeliverIs DEF Load
<1>9. ASSUME NEW x \in Rows, NEW t, Emission(x, t), row'[x].completed \/ SampleRow
      PROVE  \/ Load(q)' <= Load(q)
             \/ SampleRow /\ Load(q)' <= Load(q) + 1
  <2>1. CASE Owner[x] # q
    <3>1. req'[q].events = e /\ req'[q].remaining = n
      BY <1>2, <1>9, <2>1 DEF Emission
    <3> QED BY <1>3, <3>1 DEF Load
  <2>2. CASE Owner[x] = q
    <3>1. t \in Seq(Event) /\ req'[q].events = e \o t
      BY <1>2, <1>9, <2>2 DEF Emission
    <3>2. CASE row'[x].completed
      <4>1. Len(t) <= 2 /\ req'[q].remaining = n - 1
        BY <1>2, <1>9, <2>2, <3>2 DEF Emission
      <4>2. n > 0
        <5>1. ~row[x].completed
          BY <1>9 DEF Emission
        <5> QED BY <1>1, <1>2, <2>2, <5>1, RemainingPositive
      <4>3. Load(q)' = Len(e \o t) + 2 * (n - 1)
        BY <3>1, <4>1 DEF Load
      <4>4. Load(q)' <= Len(e) + 2 * n
        BY <3>1, <4>1, <4>2, <4>3, Weighs
      <4> QED BY <1>3, <4>4
    <3>3. CASE ~row'[x].completed
      <4>1. Len(t) <= 1 /\ req'[q].remaining = n /\ SampleRow
        BY <1>2, <1>9, <2>2, <3>3 DEF Emission
      <4>2. Load(q)' = Len(e \o t) + 2 * n
        BY <3>1, <4>1 DEF Load
      <4>3. Load(q)' <= Len(e) + 2 * n + 1
        BY <3>1, <4>1, <4>2, Weighs
      <4> QED BY <1>3, <4>1, <4>3
    <3> QED BY <3>2, <3>3
  <2> QED BY <2>1, <2>2
<1>10. SampleRow /\ q # Owner[Current.rows[loop.at]] => Load(q)' <= Load(q)
  <2> SUFFICES ASSUME SampleRow, q # Owner[Current.rows[loop.at]] PROVE Load(q)' <= Load(q)
    OBVIOUS
  <2>1. PICK y \in Rows : y = Current.rows[loop.at]
    BY <1>1, SampleFacts DEF SampleRow
  <2>2. req' = req \/ (\E t : req' = [req EXCEPT ![Owner[y]].events = t])
    BY <1>1, <2>1, SampleRowIs, Zenon
  <2>3. req'[q] = req[q]
    BY <1>1, <2>1, <2>2 DEF TypeOK
  <2> QED BY <1>2, <1>3, <2>3 DEF Load
<1>11. Load(q)' <= Load(q) \/ (SampleRow /\ Load(q)' <= Load(q) + 1)
  <2>1. CASE \E x \in Rows : \E t : Emission(x, t) /\ (row'[x].completed \/ SampleRow)
    <3>1. PICK x \in Rows : \E t : Emission(x, t) /\ (row'[x].completed \/ SampleRow)
      BY <2>1, Zenon
    <3>2. PICK t : Emission(x, t) /\ (row'[x].completed \/ SampleRow)
      BY <3>1, Zenon
    <3> QED BY <1>9, <3>2
  <2> QED BY <1>6, <1>7, <1>8, <2>1, EventCauses
<1> QED BY <1>3, <1>4, <1>10, <1>11

(* A newcomer is admitted only while its caller keeps up. *)
LEMMA NewcomerStep ==
  ASSUME IInv, [Next]_vars, NEW r \in Rows, Newcomer(r)'
  PROVE  Newcomer(r) \/ (AdmitRow /\ ~Backpressured(Owner[r]))
<1>1. /\ TypeOK /\ Shape /\ groups \in [Adapters -> Group] /\ loop.cur \in Adapters
      /\ AdapterOf[Owner[r]] \in Adapters
  BY Belongs DEF IInv, TypeOK, LoopRecord
<1>2. PICK a \in Adapters : a = AdapterOf[Owner[r]]
  BY <1>1
<1>3. In(groups'[a].incoming, r) /\ groups[a].incoming \in Seq(Rows)
  BY <1>1, <1>2, MembersType DEF Newcomer
<1>4. CASE groups'[a].incoming = groups[a].incoming
  BY <1>2, <1>3, <1>4 DEF Newcomer
<1>5. CASE AdmitRow
  <2>1. PICK x \in Rows : x = pending_rows[loop.at]
    BY <1>1, <1>5, AdmitRowFacts
  <2>2. \/ groups' = groups
        \/ /\ ~Backpressured(Owner[x])
           /\ groups' = [groups EXCEPT ![AdapterOf[Owner[x]]].incoming = Append(@, x)]
    BY <1>5, <2>1, Zenon DEF AdmitRow, placement
  <2>3. CASE groups' = groups
    BY <1>4, <2>3
  <2>4. CASE /\ ~Backpressured(Owner[x])
             /\ groups' = [groups EXCEPT ![AdapterOf[Owner[x]]].incoming = Append(@, x)]
    <3>1. CASE AdapterOf[Owner[x]] # a
      <4>1. groups'[a] = groups[a]
        BY <1>1, <2>4, <3>1
      <4> QED BY <1>4, <4>1
    <3>2. CASE AdapterOf[Owner[x]] = a
      <4>1. groups'[a].incoming = Append(groups[a].incoming, x)
        BY <1>1, <2>4, <3>2 DEF Group
      <4>2. In(groups[a].incoming, r) \/ r = x
        BY <1>3, <2>1, <4>1, AppendIn
      <4> QED BY <1>2, <1>5, <2>4, <4>2 DEF Newcomer
    <3> QED BY <3>1, <3>2
  <2> QED BY <2>2, <2>3, <2>4
<1>6. CASE RebuildCommit \/ FailDone
  <2>1. PICK g : groups' = [groups EXCEPT ![loop.cur] = g] /\ g.incoming = <<>>
    BY <1>6 DEF RebuildCommit, FailDone, RebuiltGroup, Rebuilt, EmptyGroup
  <2>2. groups'[a].incoming = groups[a].incoming \/ groups'[a].incoming = <<>>
    BY <1>1, <2>1
  <2> QED BY <1>3, <1>4, <2>2, SmallIn
<1>7. CASE SampleRow \/ Forward
  <2>1. PICK t : groups' = [groups EXCEPT ![loop.cur].slots = t]
    BY <1>1, <1>7, SampleRowGroups DEF Forward
  <2>2. groups'[a].incoming = groups[a].incoming
    BY <1>1, <2>1 DEF Group
  <2> QED BY <1>4, <2>2
<1>8. CASE \/ LoopTop \/ Admit \/ Arrived \/ AdmitDone \/ RunChunk \/ CheckControls
           \/ (\E k \in Adapters : BeginStep(k)) \/ EndSweep \/ RebuildRow
           \/ SampleDone \/ StepThrows \/ FailRow
           \/ (\E q \in Requests : Client(q)) \/ Destroy \/ UNCHANGED vars
  <2>1. groups' = groups
    BY <1>1, <1>8, ClientState, Zenon
       DEF LoopTop, Admit, Arrived, AdmitDone, RunChunk, CheckControls,
       BeginStep, EndSweep, RebuildRow, SampleDone, StepThrows, FailRow, Destroy, vars, placement
  <2> QED BY <1>4, <2>1
<1> QED BY <1>5, <1>6, <1>7, <1>8 DEF Next, Loop, Terminated
(* The numbers of the bound. *)
LEMMA LoadSums ==
  ASSUME NEW m \in Nat, NEW n \in Nat, NEW k \in Nat, NEW c \in Nat, NEW d \in Nat,
         NEW l \in Nat, NEW e \in Nat \ {0}, n <= m
  PROVE  /\ l <= e - 1 + 2 * m => l <= e - 1 + 2 * m + c
         /\ k < e => k + 2 * n <= e - 1 + 2 * m
         /\ l <= e - 1 + 2 * m + n => l <= e - 1 + 3 * m
         /\ k <= l /\ c <= d /\ l <= e - 1 + 2 * m + c => k <= e - 1 + 2 * m + d
         /\ k <= l + 1 /\ c + 1 <= d /\ l <= e - 1 + 2 * m + c => k <= e - 1 + 2 * m + d
         /\ k <= l /\ l <= e - 1 + 2 * m => k <= e - 1 + 2 * m
         /\ k <= l /\ l <= e - 1 + 3 * m => k <= e - 1 + 3 * m
  OBVIOUS

(* A caller that keeps up has little queued. *)
LEMMA KeepsUp ==
  ASSUME TypeOK, CompletionAccounting, NEW q \in Requests, ~Backpressured(q)
  PROVE  Low(q)
<1>1. PICK k \in Nat, n \in Nat, m \in Nat, e \in Nat \ {0} :
        k = Len(req[q].events) /\ n = req[q].remaining /\ m = Len(RowsOf[q]) /\ e = EventLimit
  <2>1. req[q].events \in Seq(Event)
    BY DEF TypeOK, RequestRecord
  <2>2. Len(req[q].events) \in Nat
    BY <2>1
  <2>3. EventLimit \in Nat \ {0}
    BY ConstantsAssumption
  <2> QED BY <2>2, <2>3, RemainingAtMost, RowsOfCount
<1>2. k < e /\ n <= m
  BY <1>1, RemainingAtMost DEF Backpressured
<1>3. k + 2 * n <= e - 1 + 2 * m
  BY <1>2, LoadSums
<1> QED BY <1>1, <1>3 DEF Low, Load

(* Sampling counts one more row of the sampled one's request. *)
LEMMA SampledMore ==
  ASSUME TypeOK, Shape, Homed, SampleRow, NEW q \in Requests
  PROVE  /\ Cardinality(SampledRows(q)) \in Nat /\ Cardinality(SampledRows(q))' \in Nat
         /\ Cardinality(SampledRows(q))' <= Len(RowsOf[q])
         /\ Cardinality(SampledRows(q)) <= Cardinality(SampledRows(q))'
         /\ q = Owner[Current.rows[loop.at]] =>
              Cardinality(SampledRows(q)) + 1 <= Cardinality(SampledRows(q))'
<1>1. PICK s, n, p : s = Current.rows /\ n = loop.at /\ p = loop.cur
  OBVIOUS
<1>2. /\ s \in Seq(Rows) /\ n \in 1..Len(s) /\ s[n] \in Rows /\ p \in Adapters
      /\ Current'.rows = s /\ loop'.at = n + 1
  <2>1. loop.cur \in Adapters
    BY DEF TypeOK, LoopRecord
  <2> QED BY <1>1, <2>1, SampleFacts, SampledRowsStay, MembersType DEF SampleRow, Current
<1>3. PICK S, T : S = SampledRows(q) /\ T = SampledRows(q)'
  OBVIOUS
<1>4. /\ S = {r \in Rows : Owner[r] = q /\ \E i \in 1..Len(s) : i < n /\ s[i] = r}
      /\ T = {r \in Rows : Owner[r] = q /\ \E i \in 1..Len(s) : i < n + 1 /\ s[i] = r}
  BY <1>1, <1>2, <1>3 DEF SampledRows
<1>5. /\ IsFiniteSet(S) /\ Cardinality(S) \in Nat
      /\ IsFiniteSet(T) /\ Cardinality(T) \in Nat /\ Cardinality(T) <= Len(RowsOf[q])
  BY <1>4, SubCount
<1>6. S \subseteq T
  BY <1>2, <1>4
<1>7. Cardinality(S) <= Cardinality(T)
  BY <1>5, <1>6, FS_Subset
<1>8. ASSUME q = Owner[s[n]] PROVE Cardinality(S) + 1 <= Cardinality(T)
  <2>1. NoRepeat(s)
    BY <1>1, <1>2, Parts DEF Homed, NoDuplicates, Current
  <2>2. s[n] \notin S
    BY <1>2, <1>4, <2>1 DEF NoRepeat
  <2>3. s[n] \in T
    BY <1>2, <1>4, <1>8
  <2>4. S \cup {s[n]} \subseteq T
    BY <1>6, <2>3
  <2>5. Cardinality(S \cup {s[n]}) = Cardinality(S) + 1
    BY <1>5, <2>2, FS_AddElement
  <2> QED BY <1>5, <2>4, <2>5, FS_Subset
<1> QED BY <1>1, <1>3, <1>5, <1>7, <1>8

(* Every step but sampling only lightens the load. *)
LEMMA LoadKept ==
  ASSUME IInv, TypeOK', HInv, StateMatch, LoadBounded, [Next]_vars, ~SampleRow
  PROVE  LoadBounded'
<1>1. /\ TypeOK /\ Shape /\ CompletionAccounting /\ loop \in LoopRecord
      /\ EventLimit \in Nat \ {0} /\ Homed /\ Owning
  BY ConstantsAssumption DEF IInv, TypeOK, HInv, Homed
<1>2. \A q \in Requests : /\ Load(q) \in Nat /\ Load(q)' \in Nat /\ Load(q)' <= Load(q)
                          /\ Len(RowsOf[q]) \in Nat
  BY LoadStep, RowsOfCount
<1>3. \A q \in Requests : Low(q) => Low(q)'
  <2> SUFFICES ASSUME NEW q \in Requests, Low(q) PROVE Low(q)'
    OBVIOUS
  <2> QED BY <1>1, <1>2, LoadSums DEF Low
<1>4. \A q \in Requests : Load(q)' <= EventLimit - 1 + 3 * Len(RowsOf[q])
  <2> SUFFICES ASSUME NEW q \in Requests
               PROVE  Load(q)' <= EventLimit - 1 + 3 * Len(RowsOf[q])
    OBVIOUS
  <2>1. Load(q) <= EventLimit - 1 + 3 * Len(RowsOf[q])
    BY DEF LoadBounded
  <2> QED BY <1>1, <1>2, <2>1, LoadSums
<1>5. \A r \in Rows : Newcomer(r)' => Low(Owner[r])'
  BY <1>1, <1>3, NewcomerStep, KeepsUp, Belongs DEF LoadBounded
<1>6. ASSUME loop'.pc = "rebuild", loop'.pass = 1, NEW r \in Rows, Kept(r)' PROVE Low(Owner[r])'
  <2>1. CASE RebuildRow
    <3>1. PICK x \in Rows : x = Members(loop.cur)[loop.at]
      BY <1>1, <2>1, MemberAt, Zenon
    <3>2. /\ Drops(x) \/ Ends(x) \/ Pauses(x) \/ Keeps(x)
          /\ loop.pc = "rebuild"
      BY <2>1, <3>1, RebuildSplit
    <3>3. loop.pass = 1
      BY <1>1, <1>6, <3>2 DEF Drops, Ends, Pauses, Keeps, LoopRecord
    <3>4. Kept(r) \/ (r = x /\ Keeps(x))
      BY <1>1, <1>6, <2>1, <3>1, KeptNext
    <3>5. CASE Kept(r)
      BY <1>3, <3>2, <3>3, <3>5, Belongs DEF LoadBounded
    <3>6. CASE r = x /\ Keeps(x) /\ Old
      BY <1>1, <1>3, <3>3, <3>6, KeepsUp, Belongs DEF Keeps
    <3>7. CASE r = x /\ ~Old
      <4>1. Newcomer(x)
        BY <1>1, <2>1, <3>1, <3>7, RebuildMember
      <4> QED BY <1>3, <3>7, <4>1, Belongs DEF LoadBounded
    <3> QED BY <3>4, <3>5, <3>6, <3>7
  <2>2. CASE (\E q \in Requests : Client(q)) \/ Destroy \/ UNCHANGED vars
    <3>1. loop' = loop
      BY <1>1, <2>2, ClientState DEF Destroy, vars
    <3>2. Kept(r)
      BY <1>6, <3>1 DEF Kept
    <3> QED BY <1>3, <1>6, <3>1, <3>2, Belongs DEF LoadBounded
  <2>3. CASE \E a \in Adapters : BeginStep(a)
    <3>1. loop'.live = <<>>
      BY <1>1, <2>3 DEF BeginStep, LoopRecord
    <3> QED BY <1>6, <3>1 DEF Kept
  <2>4. CASE \/ LoopTop \/ Admit \/ Arrived \/ AdmitRow \/ AdmitDone \/ RunChunk
             \/ CheckControls \/ EndSweep \/ RebuildCommit \/ SampleDone \/ Forward
             \/ StepThrows \/ FailRow \/ FailDone
    <3>1. loop'.pc # "rebuild" \/ loop'.pass \in {2, 3}
      BY <1>1, <2>4, PackedRows, Zenon DEF LoopTop, Admit, Arrived, AdmitRow, AdmitDone, RunChunk,
         CheckControls, EndSweep, SampleDone, Forward, StepThrows, FailRow, FailDone, LoopRecord
    <3> QED BY <1>6, <3>1
  <2> QED BY <2>1, <2>2, <2>3, <2>4 DEF Next, Loop, Terminated
<1>7. ASSUME loop'.pc = "sample", NEW r \in Rows, In(Current.rows, r)'
      PROVE  Load(Owner[r])' <= EventLimit - 1 + 2 * Len(RowsOf[Owner[r]])
                                  + Cardinality(SampledRows(Owner[r])')
  <2>1. PICK q \in Requests : q = Owner[r]
    BY Belongs
  <2>2. PICK c \in Nat : c = Cardinality(SampledRows(q)')
    <3>1. \A s \in SampledRows(q)' : s \in Rows /\ Owner[s] = q
      BY DEF SampledRows
    <3> QED BY <3>1, SubCount
  <2>3. CASE RebuildCommit
    <3>1. Low(q)
      BY <1>1, <1>7, <2>1, <2>3, PackedRows DEF LoadBounded
    <3>2. Load(q)' <= EventLimit - 1 + 2 * Len(RowsOf[q])
      BY <1>3, <3>1 DEF Low
    <3> QED BY <1>1, <1>2, <2>1, <2>2, <3>2, LoadSums
  <2>4. CASE (\E p \in Requests : Client(p)) \/ Destroy \/ UNCHANGED vars
    <3>1. groups' = groups /\ loop' = loop
      BY <1>1, <2>4, ClientState DEF Destroy, vars, placement
    <3>2. In(Current.rows, r) /\ loop.pc = "sample" /\ SampledRows(q)' = SampledRows(q)
      BY <1>7, <3>1 DEF Current, SampledRows
    <3>3. Load(q) <= EventLimit - 1 + 2 * Len(RowsOf[q]) + c
      BY <2>1, <2>2, <3>2 DEF LoadBounded
    <3>4. Load(q)' <= EventLimit - 1 + 2 * Len(RowsOf[q]) + c
      BY <1>1, <1>2, <3>3, LoadSums
    <3> QED BY <2>1, <2>2, <3>4
  <2>5. CASE \/ LoopTop \/ Admit \/ Arrived \/ AdmitRow \/ AdmitDone \/ RunChunk
             \/ CheckControls \/ (\E a \in Adapters : BeginStep(a)) \/ EndSweep \/ RebuildRow
             \/ SampleDone \/ Forward \/ StepThrows \/ FailRow \/ FailDone
    <3>1. loop'.pc # "sample"
      BY <1>1, <2>5, Zenon DEF LoopTop, Admit, Arrived, AdmitRow, AdmitDone, RunChunk,
         CheckControls, BeginStep, EndSweep, RebuildRow, SampleDone, Forward, StepThrows,
         FailRow, FailDone, LoopRecord
    <3> QED BY <1>7, <3>1
  <2> QED BY <2>3, <2>4, <2>5 DEF Next, Loop, Terminated
<1> QED BY <1>4, <1>5, <1>6, <1>7 DEF LoadBounded
(* Sampling a row adds one event at most, of a row it has then counted. *)
LEMMA LoadSampled ==
  ASSUME IInv, TypeOK', HInv, StateMatch, LoadBounded, [Next]_vars, SampleRow
  PROVE  LoadBounded'
<1>1. /\ TypeOK /\ Shape /\ loop \in LoopRecord /\ loop.cur \in Adapters
      /\ EventLimit \in Nat \ {0} /\ Homed /\ groups[loop.cur].rows \in Seq(Rows)
  BY ConstantsAssumption, MembersType DEF IInv, TypeOK, HInv, Homed, LoopRecord
<1>2. PICK x \in Rows : x = Current.rows[loop.at] /\ In(Current.rows, x)
  BY <1>1, SampleFacts DEF SampleRow, In
<1>3. PICK p \in Requests : p = Owner[x]
  BY Belongs
<1>4. \A q \in Requests :
        /\ Load(q) \in Nat /\ Load(q)' \in Nat /\ Len(RowsOf[q]) \in Nat
        /\ Load(q)' <= Load(q) \/ (q = p /\ Load(q)' <= Load(q) + 1)
  BY <1>2, <1>3, LoadStep, RowsOfCount
<1>5. /\ loop.pc = "sample" /\ loop'.pc = "sample" /\ Current'.rows = Current.rows
  BY <1>1, SampledRowsStay
<1>6. ASSUME NEW r \in Rows, In(Current.rows, r)
      PROVE  Load(Owner[r])' <= EventLimit - 1 + 2 * Len(RowsOf[Owner[r]])
                                  + Cardinality(SampledRows(Owner[r])')
  <2>1. PICK q \in Requests : q = Owner[r]
    BY Belongs
  <2>2. PICK c \in Nat, d \in Nat : c = Cardinality(SampledRows(q)) /\ d = Cardinality(SampledRows(q)')
    BY <1>1, SampledMore
  <2>3. c <= d /\ (q = p => c + 1 <= d)
    BY <1>1, <1>2, <1>3, <2>2, SampledMore
  <2>4. Load(q) <= EventLimit - 1 + 2 * Len(RowsOf[q]) + c
    BY <1>5, <1>6, <2>1, <2>2 DEF LoadBounded
  <2>5. Load(q)' <= EventLimit - 1 + 2 * Len(RowsOf[q]) + d
    BY <1>1, <1>4, <2>3, <2>4, LoadSums
  <2> QED BY <2>1, <2>2, <2>5
<1>7. ASSUME NEW q \in Requests PROVE Load(q)' <= EventLimit - 1 + 3 * Len(RowsOf[q])
  <2>1. CASE Load(q)' <= Load(q)
    <3>1. Load(q) <= EventLimit - 1 + 3 * Len(RowsOf[q])
      BY DEF LoadBounded
    <3> QED BY <1>1, <1>4, <2>1, <3>1, LoadSums
  <2>2. CASE q = p
    <3>1. PICK d \in Nat : d = Cardinality(SampledRows(q)') /\ d <= Len(RowsOf[q])
      BY <1>1, SampledMore
    <3>2. Load(q)' <= EventLimit - 1 + 2 * Len(RowsOf[q]) + d
      BY <1>2, <1>3, <1>6, <2>2, <3>1
    <3> QED BY <1>1, <1>4, <3>1, <3>2, LoadSums
  <2> QED BY <1>4, <2>1, <2>2
<1>8. ASSUME NEW r \in Rows, Newcomer(r)' PROVE Low(Owner[r])'
  <2>1. PICK q \in Requests : q = Owner[r] /\ AdapterOf[q] \in Adapters
    BY Belongs
  <2>2. Newcomer(r) /\ Low(q)
    <3>1. Newcomer(r) \/ AdmitRow
      BY <1>8, NewcomerStep
    <3> QED BY <1>5, <2>1, <3>1 DEF AdmitRow, LoadBounded
  <2>3. q # p
    <3>1. In(Members(loop.cur), x)
      BY <1>1, <1>2, Parts DEF Current
    <3>2. AdapterOf[p] = loop.cur
      BY <1>1, <1>3, <3>1 DEF Homed, OwnGroup
    <3>3. Current.incoming = <<>>
      BY <1>5 DEF StateMatch, NoneIncoming
    <3> QED BY <2>1, <2>2, <3>2, <3>3, SmallIn DEF Newcomer, Current
  <2>4. Load(q)' <= Load(q) /\ Load(q) <= EventLimit - 1 + 2 * Len(RowsOf[q])
    BY <1>4, <2>2, <2>3 DEF Low
  <2>5. Load(q)' <= EventLimit - 1 + 2 * Len(RowsOf[q])
    BY <1>1, <1>4, <2>4, LoadSums
  <2> QED BY <2>1, <2>5 DEF Low
<1>9. \A r \in Rows : In(Current.rows, r)' <=> In(Current.rows, r)
  <2>1. PICK s : s = Current.rows
    OBVIOUS
  <2> QED BY <1>5, <2>1 DEF In
<1> QED BY <1>5, <1>6, <1>7, <1>8, <1>9 DEF LoadBounded
(* Before anybody has called, nothing is sampled, queued or delivered. *)
LEMMA InitOutput == Init => OInv
<1> SUFFICES ASSUME Init PROVE OInv
  OBVIOUS
<1>1. /\ loop.pc = "top" /\ pending_rows = <<>>
      /\ \A q \in Requests :
           /\ client[q].stage = "new" /\ client[q].batch = <<>> /\ ~client[q].done
           /\ client[q].accepting /\ ~client[q].callback_error
           /\ req[q].events = <<>> /\ ~req[q].error /\ ~req[q].cancelled
           /\ req[q].remaining = Len(RowsOf[q])
      /\ \A r \in Rows :
           /\ row[r].step = 0 /\ row[r].pending = 0 /\ ~row[r].finished /\ ~row[r].completed
           /\ row[r].saved_sampler = 0 /\ delivered[r] = 0
           /\ exported[r].of = r /\ exported[r].fed = 0
      /\ \A a \in Adapters : groups[a].rows = <<>> /\ groups[a].incoming = <<>>
  BY DEF Init, EmptyGroup
<1>2. StateMatch
  BY <1>1 DEF StateMatch, SlotsMatch, Unfinished, AwayMatch, OwnExport, KeptFrom, NoneIncoming
<1>3. \A q \in Requests : Stream(q) = <<>>
  <2>1. <<>> \o <<>> = <<>>
    OBVIOUS
  <2> QED BY <1>1, <2>1 DEF Stream
<1>4. EventsTrue /\ StopNoticeIsLast
  <2>1. Len(<<>>) = 0
    OBVIOUS
  <2>2. \A q \in Requests : Len(client[q].batch \o req[q].events) = 0
    BY <1>3, <2>1 DEF Stream
  <2>3. \A q \in Requests : 1..Len(Stream(q)) = {}
    <3>1. 1..0 = {}
      OBVIOUS
    <3> QED BY <2>2, <3>1, Zenon DEF Stream
  <2>4. EventsTrue
    BY <2>3, Zenon DEF EventsTrue
  <2>5. StopNoticeIsLast
    BY <2>3, Zenon DEF StopNoticeIsLast, Stream
  <2> QED BY <2>4, <2>5
<1>5. OutputConserved
  <2> SUFFICES ASSUME NEW r \in Rows
               PROVE  delivered[r] + TokensIn(client[Owner[r]].batch, r)
                        + TokensIn(req[Owner[r]].events, r) + row[r].pending = row[r].step
    BY DEF OutputConserved
  <2>1. TokensIn(<<>>, r) = 0
    BY CountFew
  <2> QED BY <1>1, <2>1, Belongs
<1>6. Flushed /\ CallEnds /\ ErrorCancels /\ CancelledByCallers /\ Exact
  BY <1>1, Belongs DEF Flushed, CallEnds, ErrorCancels, CancelledByCallers, Exact
<1>7. Refused
  <2>1. \A q \in Requests : RowsOf[q] \in Seq(Rows)
    BY ConstantsAssumption
  <2>2. \A q \in Requests : Len(RowsOf[q]) = 1 => RowsOf[q][1] \in Rows
    BY <2>1
  <2> QED BY <1>1, <2>2 DEF Refused
<1>8. LoadBounded
  <2>1. ASSUME NEW q \in Requests PROVE Load(q) <= EventLimit - 1 + 3 * Len(RowsOf[q])
    <3>1. PICK m \in Nat, e \in Nat \ {0} : m = Len(RowsOf[q]) /\ e = EventLimit
      BY RowsOfCount, ConstantsAssumption
    <3>2. Load(q) = 0 + 2 * m
      <4>1. Len(<<>>) = 0
        OBVIOUS
      <4> QED BY <1>1, <3>1, <4>1 DEF Load
    <3> QED BY <3>1, <3>2
  <2>2. \A r \in Rows : ~Newcomer(r)
    BY <1>1, Belongs, SmallIn DEF Newcomer
  <2> QED BY <1>1, <2>1, <2>2 DEF LoadBounded
<1> QED BY <1>2, <1>4, <1>5, <1>6, <1>7, <1>8 DEF OInv

(* What the calls get is known throughout. *)
LEMMA OutputInductive == Spec => [](IInv /\ HInv /\ OInv)
<1>1. Init => OInv
  BY InitOutput
<1>2. ASSUME IInv, HInv, TypeOK', OInv, [Next]_vars PROVE OInv'
  <2>1. /\ StateMatch /\ EventsTrue /\ Flushed /\ OutputConserved /\ CallEnds /\ StopNoticeIsLast
        /\ ErrorCancels /\ CancelledByCallers /\ Exact /\ Refused /\ LoadBounded
    BY <1>2 DEF OInv
  <2>2. StillCancelled /\ Flags
    BY <1>2, <2>1, CancelledStays, FlagsStep
  <2>3. StateMatch'
    BY <1>2, <2>1, StateStep
  <2>4. EventsTrue' /\ Flushed' /\ StopNoticeIsLast' /\ OutputConserved'
    BY <1>2, <2>1, EventsStep DEF EventsKept
  <2>5. CallEnds' /\ ErrorCancels'
    BY <1>2, <2>1, <2>2, CallEndsStep, ErrorStep
  <2>6. CancelledByCallers' /\ Exact'
    BY <1>2, <2>1, <2>2, CancellersStep, ExactStep
  <2>7. Refused'
    BY <1>2, <2>1, <2>2, <2>4, RefusedStep
  <2>8. LoadBounded'
    BY <1>2, <2>1, LoadKept, LoadSampled
  <2> QED BY <2>3, <2>4, <2>5, <2>6, <2>7, <2>8 DEF OInv
<1>3. IInv /\ HInv /\ (IInv /\ HInv)' /\ OInv /\ [Next]_vars => OInv'
  BY <1>2 DEF IInv
<1> QED BY <1>1, <1>3, HomesInductive, PTL DEF Spec

(* What a call and its state see of its rows is what was generated for     *)
(* them: sampled from their own state, each token delivered once, the      *)
(* returned state the one after the last token delivered, the stop notice  *)
(* last, and never more queued than backpressure lets in.                  *)
THEOREM OutputStaysFaithful == Spec => []OutputIsFaithful
<1>1. IInv /\ HInv /\ OInv => OutputIsFaithful
  <2> SUFFICES ASSUME TypeOK, Shape, HInv, OInv PROVE OutputIsFaithful
    BY DEF IInv
  <2>1. /\ StateMatch /\ OutputConserved /\ Flushed /\ CallEnds /\ StopNoticeIsLast
        /\ Exact /\ Refused /\ LoadBounded /\ CallersDone
    BY DEF OInv, HInv
  <2>2. SampledFromOwnState
    <3> SUFFICES ASSUME loop.pc = "sample", NEW i \in loop.at..Len(Current.rows)
                 PROVE  Current.slots[i] = [of   |-> Current.rows[i],
                                            fed  |-> row[Current.rows[i]].step,
                                            hist |-> row[Current.rows[i]].step]
      BY DEF SampledFromOwnState
    <3>1. /\ loop.cur \in Adapters /\ i \in 1..Len(groups[loop.cur].rows)
          /\ loop.at \in Nat /\ i >= loop.at
      <4>1. loop.cur \in Adapters /\ loop.at \in Nat /\ loop.at > 0
        BY DEF TypeOK, LoopRecord, Shape
      <4>2. Len(groups[loop.cur].rows) \in Nat
        BY <4>1, MembersType
      <4> QED BY <4>1, <4>2 DEF Current
    <3>2. PICK r \in Rows : r = Current.rows[i]
      BY <3>1, Position DEF Current
    <3>3. PICK s \in Slot : s = Current.slots[i]
      BY <3>1, Position DEF Current
    <3>4. Fits(r, s, FALSE)
      <4>1. ~Sampled(loop.cur, i) /\ ~Failed(loop.cur)
        BY <3>1 DEF Sampled, Failed
      <4>2. PICK late \in BOOLEAN : late = FALSE
        OBVIOUS
      <4>3. SlotTrue(loop.cur, i)
        BY <2>1, <3>1, <4>1 DEF StateMatch, SlotsMatch
      <4>4. Fits(r, s, late)
        BY <3>2, <3>3, <4>1, <4>2, <4>3 DEF SlotTrue, Fits, Current
      <4> QED BY <4>2, <4>4
    <3>5. ~row[r].completed
      BY <3>1, <3>2 DEF HInv, Owning, Running, Current
    <3>6. s.of = r /\ s.fed = row[r].step /\ s.hist = row[r].step
      BY <3>4, <3>5 DEF Fits
    <3>7. s = [of |-> s.of, fed |-> s.fed, hist |-> s.hist]
      BY DEF Slot
    <3> QED BY <3>2, <3>3, <3>6, <3>7
  <2>3. ReturnedStateMatchesOutput
    <3> SUFFICES ASSUME NEW r \in Rows, client[Owner[r]].stage = "returned",
                        client[Owner[r]].accepting
                 PROVE  delivered[r] = row[r].step /\ exported[r] = [of |-> r, fed |-> row[r].step]
      BY DEF ReturnedStateMatchesOutput
    <3>1. PICK q \in Requests : q = Owner[r]
      BY Belongs
    <3>2. /\ client[q].batch = <<>> /\ req[q].events = <<>>
          /\ client[q].done /\ ~client[q].callback_error /\ ~req[q].error
      BY <2>1, <3>1 DEF CallEnds
    <3>3. row[r].completed /\ row[r].pending = 0
      BY <2>1, <3>1, <3>2 DEF CallersDone, Flushed
    <3>4. delivered[r] = row[r].step
      <4>1. TokensIn(<<>>, r) = 0
        BY CountFew
      <4>2. delivered[r] + 0 + 0 + 0 = row[r].step
        BY <2>1, <3>1, <3>2, <3>3, <4>1 DEF OutputConserved
      <4>3. delivered[r] \in Nat
        BY DEF TypeOK
      <4> QED BY <4>2, <4>3
    <3>5. exported[r].of = r /\ exported[r].fed = row[r].step
      BY <2>1, <3>1, <3>2, <3>3 DEF Exact, Steady, StateMatch, OwnExport
    <3>6. exported[r] = [of |-> exported[r].of, fed |-> exported[r].fed]
      BY DEF TypeOK, Slice
    <3> QED BY <3>4, <3>5, <3>6
  <2>4. SingleRowStateCoversOutput
    <3> SUFFICES ASSUME NEW q \in Requests, Len(RowsOf[q]) = 1, client[q].stage = "returned",
                        NEW r, r = RowsOf[q][1]
                 PROVE  exported[r].of = r /\ delivered[r] <= exported[r].fed
      BY DEF SingleRowStateCoversOutput
    <3>1. r \in Rows /\ Owner[r] = q
      <4>1. /\ RowsOf[q] \in Seq(Rows)
            /\ \A i \in 1..Len(RowsOf[q]) : Owner[RowsOf[q][i]] = q
        BY ConstantsAssumption
      <4>2. 1 \in 1..Len(RowsOf[q])
        OBVIOUS
      <4> QED BY <4>1, <4>2
    <3>2. row[r].completed /\ ~client[q].callback_error /\ ~req[q].error
      BY <2>1, <3>1 DEF CallEnds, CallersDone
    <3> QED BY <2>1, <3>1, <3>2 DEF Refused, StateMatch, OwnExport
  <2>5. EventQueueBounded
    <3> SUFFICES ASSUME NEW q \in Requests
                 PROVE  Len(req[q].events) <= EventLimit - 1 + 3 * Len(RowsOf[q])
      BY DEF EventQueueBounded
    <3>1. PICK e \in Seq(Event), n \in Nat : e = req[q].events /\ n = req[q].remaining
      BY DEF TypeOK, RequestRecord
    <3>2. PICK l \in Nat, m \in Nat, k \in Nat \ {0} :
            l = Len(e) /\ m = Len(RowsOf[q]) /\ k = EventLimit
      BY RowsOfCount, ConstantsAssumption
    <3>3. l + 2 * n <= k - 1 + 3 * m
      BY <2>1, <3>1, <3>2 DEF LoadBounded, Load
    <3>4. l <= k - 1 + 3 * m
      BY <3>3
    <3> QED BY <3>1, <3>2, <3>4
  <2> QED BY <2>1, <2>2, <2>3, <2>4, <2>5 DEF OutputIsFaithful
<1> QED BY <1>1, OutputInductive, PTL
==============================================================================
