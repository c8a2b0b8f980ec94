-------------------------- MODULE PrefillAdmission --------------------------
(***************************************************************************)
(* PrefillAdmissionController: generation requests queue first-in first-out *)
(* for a share of the prefill batch size that free VRAM allows.  acquire()  *)
(* runs under one mutex that only its 100 ms wait gives up, so each turn of *)
(* its loop is one action.                                                 *)
(***************************************************************************)
EXTENDS Integers, Sequences, SequencesExt, FiniteSets, FiniteSetTheorems, TLAPS

CONSTANTS
  Callers,      \* one acquire() call each
  Batch,        \* Batch[c]: the requested batch size, before it is clamped
  Capacities,   \* batch sizes the capacity provider may report
  QueryFails,   \* whether the provider or should_cancel may throw
  MaxTurns      \* bound: changes of the reported capacity

ASSUME CallersAssumption ==
  /\ Batch \in [Callers -> Int]
  /\ Capacities \subseteq Int /\ Capacities # {} /\ IsFiniteSet(Callers)
  /\ QueryFails \in BOOLEAN /\ MaxTurns \in Nat

VARIABLES
  vram,          \* what the provider would report now (environment)
  turns,         \* how often it has changed
  hard_max, dynamic_max, reserved,
  queue,         \* queued callers, oldest first
  ticket,        \* ticket[c]: its ticket, 0 before acquire()
  next_ticket,
  stop,          \* stop[c]: its should_cancel() answers true
  stage,
  running        \* FALSE once an exception has left a destructor

environment == <<vram, turns>>
vars == <<vram, turns, hard_max, dynamic_max, reserved, queue, ticket, next_ticket,
          stop, stage, running>>

Stages == {"new", "queued", "holding", "released", "cancelled", "rejected", "threw"}
Ended  == {"released", "cancelled", "rejected", "threw"}

AtLeast(low, n) == IF n < low THEN low ELSE n
AtMost(high, n) == IF n > high THEN high ELSE n
Size(c) == AtLeast(1, Batch[c])

Init ==
  /\ vram \in Capacities /\ turns = 0
  /\ hard_max = AtLeast(0, vram) /\ dynamic_max = hard_max
  /\ reserved = 0
  /\ queue = <<>>
  /\ ticket = [c \in Callers |-> 0] /\ next_ticket = 1
  /\ stop = [c \in Callers |-> FALSE]
  /\ stage = [c \in Callers |-> "new"]
  /\ running = TRUE

-----------------------------------------------------------------------------
(* refresh_capacity_locked(): the report, never above the startup limit.   *)
Refreshed == AtMost(hard_max, AtLeast(0, vram))

(* remove_ticket_locked().                                                 *)
Removed(waiting, c) == RemoveAt(waiting, CHOOSE i \in 1..Len(waiting) : waiting[i] = c)

FitsStrictly(c) == Size(c) < AtLeast(0, Refreshed - reserved)
Fits(c) == Size(c) <= AtLeast(0, Refreshed - reserved)
IsTurn(waiting, c) == Head(waiting) = c

(* One turn of acquire()'s loop, with `waiting` the queue at its start:     *)
(* leave if cancelled, take the reservation if it is its turn and there is  *)
(* room, else wait.  An exception (catch (...)) leaves the queue too: of    *)
(* should_cancel at any place in it, of the provider at the head.          *)
Cancelled(c, waiting) ==
  /\ stop[c]
  /\ queue' = Removed(waiting, c)
  /\ stage' = [stage EXCEPT ![c] = "cancelled"]
  /\ UNCHANGED <<dynamic_max, reserved>>
QueryThrows(c, waiting) ==
  /\ QueryFails
  /\ queue' = Removed(waiting, c)
  /\ stage' = [stage EXCEPT ![c] = "threw"]
  /\ UNCHANGED <<dynamic_max, reserved>>
AdmittedOutOfTurn(c, waiting) ==
  /\ ~stop[c] /\ Fits(c)
  /\ dynamic_max' = Refreshed
  /\ reserved' = reserved + Size(c)
  /\ queue' = Removed(waiting, c)
  /\ stage' = [stage EXCEPT ![c] = "holding"]
Admitted(c, waiting) ==
  /\ ~stop[c] /\ IsTurn(waiting, c) /\ Fits(c)
  /\ dynamic_max' = Refreshed
  /\ reserved' = reserved + Size(c)
  /\ queue' = Tail(waiting)
  /\ stage' = [stage EXCEPT ![c] = "holding"]
Waits(c, waiting) ==
  /\ ~stop[c] /\ ~(IsTurn(waiting, c) /\ Fits(c))
  /\ dynamic_max' = IF IsTurn(waiting, c) THEN Refreshed ELSE dynamic_max
  /\ queue' = waiting
  /\ stage' = [stage EXCEPT ![c] = "queued"]
  /\ UNCHANGED reserved
Turn(c, waiting) == \/ Cancelled(c, waiting) \/ QueryThrows(c, waiting)
                    \/ Admitted(c, waiting) \/ Waits(c, waiting)

(* acquire(): more than the startup limit never queues.                    *)
Acquire(c) ==
  /\ running /\ stage[c] = "new"
  /\ IF Size(c) > hard_max
       THEN /\ stage' = [stage EXCEPT ![c] = "rejected"]
            /\ UNCHANGED <<dynamic_max, reserved, queue, ticket, next_ticket>>
       ELSE /\ ticket' = [ticket EXCEPT ![c] = next_ticket]
            /\ next_ticket' = next_ticket + 1
            /\ Turn(c, Append(queue, c))
  /\ UNCHANGED <<environment, hard_max, stop, running>>

(* The 100 ms wait ends, by notification or timeout.                       *)
Poll(c) ==
  /\ running /\ stage[c] = "queued"
  /\ Turn(c, queue)
  /\ UNCHANGED <<environment, hard_max, ticket, next_ticket, stop, running>>

(* ~Permit: give the reservation back and refresh.  A failing query ends    *)
(* the process: its exception leaves a destructor, its CUDA error exits.   *)
ReleasedTwice(c) == AtLeast(0, reserved - Size(c) - Size(c))
AfterRelease(c) == AtLeast(0, reserved - Size(c))
Release(c) ==
  /\ running /\ stage[c] = "holding"
  /\ reserved' = AfterRelease(c)
  /\ stage' = [stage EXCEPT ![c] = "released"]
  /\ \/ dynamic_max' = Refreshed /\ UNCHANGED running
     \/ QueryFails /\ running' = FALSE /\ UNCHANGED dynamic_max
  /\ UNCHANGED <<environment, hard_max, queue, ticket, next_ticket, stop>>

(* snapshot(), for /v1/server/status.                                      *)
Snapshot ==
  /\ running
  /\ dynamic_max' = Refreshed
  /\ UNCHANGED <<environment, hard_max, reserved, queue, ticket, next_ticket, stop, stage,
                 running>>

(* The surroundings: a request is stopped or paused; free VRAM changes.    *)
Stop(c) ==
  /\ running /\ ~stop[c]
  /\ stop' = [stop EXCEPT ![c] = TRUE]
  /\ UNCHANGED <<environment, hard_max, dynamic_max, reserved, queue, ticket, next_ticket,
                 stage, running>>
Vram ==
  /\ running /\ turns < MaxTurns
  /\ vram' \in Capacities \ {vram}
  /\ turns' = turns + 1
  /\ UNCHANGED <<hard_max, dynamic_max, reserved, queue, ticket, next_ticket, stop, stage,
                 running>>

Terminated == /\ ~running \/ \A c \in Callers : stage[c] \in Ended
              /\ UNCHANGED vars

Next == \/ \E c \in Callers : Acquire(c) \/ Poll(c) \/ Release(c) \/ Stop(c)
        \/ Snapshot \/ Vram \/ Terminated

Spec == Init /\ [][Next]_vars

-----------------------------------------------------------------------------
(* Types of the controller's fields and of the callers' progress.          *)
TypeOK ==
  /\ vram \in Capacities /\ turns \in 0..MaxTurns
  /\ hard_max \in Nat /\ dynamic_max \in Nat /\ reserved \in Nat
  /\ queue \in Seq(Callers)
  /\ ticket \in [Callers -> Nat] /\ next_ticket \in Nat \ {0}
  /\ stop \in [Callers -> BOOLEAN] /\ stage \in [Callers -> Stages]
  /\ running \in BOOLEAN

(* The rows that the permits alive stand for, Size(c) of each holder c.     *)
HeldRows == UNION {{c} \X (1..Size(c)) : c \in {d \in Callers : stage[d] = "holding"}}

(* reserved counts the rows of the permits alive, within the startup limit: *)
(* no path (cancel, failing query, release) leaks a reservation or gives   *)
(* one back twice, and the clamp at 0 never hides one.                     *)
ReservedIsHeld ==
  /\ reserved = Cardinality(HeldRows)
  /\ reserved <= hard_max

(* The queue is exactly the waiting callers in ticket order: a caller that *)
(* was cancelled or whose query failed leaves nobody waiting behind it.    *)
QueueIsWaiters ==
  /\ ToSet(queue) = {c \in Callers : stage[c] = "queued"}
  /\ \A i, j \in 1..Len(queue) : i < j => ticket[queue[i]] < ticket[queue[j]]

(* No caller is admitted while one with an older ticket still waits, even  *)
(* if the older one does not fit and the newer one would.                  *)
NoOvertakingStep ==
  \A c, d \in Callers :
    stage[c] # "holding" /\ stage'[c] = "holding" /\ stage'[d] = "queued"
      => ticket'[c] < ticket'[d]

(* An admission stays within the capacity reported at that moment, also    *)
(* when it has shrunk below what was reported before.                      *)
AdmittedWithinCapacityStep ==
  reserved' > reserved => reserved' <= dynamic_max' /\ dynamic_max' <= vram

(* Each admission is in its turn and fits: acquire() grants permits first-in *)
(* first-out, none beyond the capacity read under the same mutex.          *)
AdmittedInTurn == [][NoOvertakingStep /\ AdmittedWithinCapacityStep]_vars

-----------------------------------------------------------------------------
(***************************************************************************)
(* Theorems, for any number of callers and sizes: reservations are counted *)
(* exactly whatever path a caller leaves by, and permits are granted in    *)
(* ticket order within the capacity just read.                             *)
(***************************************************************************)

(* Callers beyond the startup limit never queue, so never hold.            *)
WithinStartupLimit == \A c \in Callers : stage[c] \in {"queued", "holding"} => Size(c) <= hard_max

(* The next ticket is younger than any in the queue.                       *)
NextIsYoungest == \A c \in Callers : stage[c] = "queued" => ticket[c] < next_ticket

(* The inductive invariant.                                                *)
IInv == TypeOK /\ WithinStartupLimit /\ NextIsYoungest /\ QueueIsWaiters /\ ReservedIsHeld

-----------------------------------------------------------------------------
(* A queue whose callers' tickets ascend.                                  *)
Ascends(s, tick) == \A i, j \in 1..Len(s) : i < j => tick[s[i]] < tick[s[j]]

(* Every caller asks for at least one row.                                  *)
LEMMA SizeType == \A c \in Callers : Size(c) \in Nat \ {0}
  BY CallersAssumption DEF Size, AtLeast

(* The refreshed maximum: no more than the startup limit or the report.    *)
LEMMA RefreshedBounds ==
  ASSUME vram \in Int, hard_max \in Nat
  PROVE  Refreshed \in Nat /\ Refreshed <= hard_max /\ (Refreshed > 0 => Refreshed <= vram)
  BY DEF Refreshed, AtMost, AtLeast

(* A caller that arrives takes the last place.                             *)
LEMMA AppendAscends ==
  ASSUME NEW S, NEW s \in Seq(S), NEW e \in S, NEW tick \in [S -> Nat], Ascends(s, tick),
         \A i \in 1..Len(s) : tick[s[i]] < tick[e]
  PROVE  /\ Append(s, e) \in Seq(S)
         /\ ToSet(Append(s, e)) = ToSet(s) \cup {e}
         /\ Ascends(Append(s, e), tick)
<1> DEFINE t == Append(s, e)
<1>1. t \in Seq(S) /\ Len(t) = Len(s) + 1 /\ t[Len(s) + 1] = e /\ Len(s) \in Nat
  OBVIOUS
<1>2. \A i \in 1..Len(s) : t[i] = s[i]
  OBVIOUS
<1> HIDE DEF t
<1>3. \A i \in 1..Len(t) : i \in 1..Len(s) \/ i = Len(s) + 1
  BY <1>1
<1>4. 1..Len(s) \subseteq 1..Len(t) /\ Len(s) + 1 \in 1..Len(t)
  BY <1>1
<1>5. ToSet(t) = ToSet(s) \cup {e}
  <2>1. DOMAIN t = 1..Len(t) /\ DOMAIN s = 1..Len(s)
    BY <1>1
  <2> QED BY <1>1, <1>2, <1>3, <1>4, <2>1 DEF ToSet
<1>6. Ascends(t, tick)
  <2> SUFFICES ASSUME NEW i \in 1..Len(t), NEW j \in 1..Len(t), i < j
               PROVE  tick[t[i]] < tick[t[j]]
    BY DEF Ascends
  <2>1. i \in 1..Len(s)
    BY <1>1, <1>3
  <2>2. CASE j \in 1..Len(s)
    BY <1>2, <2>1, <2>2 DEF Ascends
  <2>3. CASE j = Len(s) + 1
    BY <1>1, <1>2, <2>1, <2>3
  <2> QED BY <1>3, <2>2, <2>3
<1> QED BY <1>1, <1>5, <1>6 DEF t

(* RemoveAt(s, n) is s without its n-th element.                           *)
LEMMA RemoveAtElement ==
  ASSUME NEW S, NEW s \in Seq(S), NEW n \in 1..Len(s)
  PROVE  /\ RemoveAt(s, n) \in Seq(S) /\ Len(RemoveAt(s, n)) = Len(s) - 1
         /\ \A i \in 1..(Len(s) - 1) : RemoveAt(s, n)[i] = IF i < n THEN s[i] ELSE s[i + 1]
<1> DEFINE a == SubSeq(s, 1, n - 1)
           b == SubSeq(s, n + 1, Len(s))
<1>1. Len(s) \in Nat /\ n \in Nat /\ n >= 1 /\ n <= Len(s)
  OBVIOUS
<1>2. a \in Seq(S) /\ Len(a) = n - 1 /\ \A i \in 1..(n - 1) : a[i] = s[i]
  BY <1>1
<1>3. b \in Seq(S) /\ Len(b) = Len(s) - n /\ \A i \in 1..(Len(s) - n) : b[i] = s[i + n]
  BY <1>1
<1>4. RemoveAt(s, n) = a \o b
  BY DEF RemoveAt
<1> HIDE DEF a, b
<1>5. /\ a \o b \in Seq(S) /\ Len(a \o b) = Len(s) - 1
      /\ \A i \in 1..(Len(s) - 1) : (a \o b)[i] = IF i <= Len(a) THEN a[i] ELSE b[i - Len(a)]
  <2>1. a \in Seq(S) /\ b \in Seq(S) /\ Len(a) + Len(b) = Len(s) - 1
    BY <1>1, <1>2, <1>3
  <2>2. a \o b \in Seq(S) /\ Len(a \o b) = Len(a) + Len(b)
    BY <2>1
  <2>3. \A i \in 1..(Len(a) + Len(b)) : (a \o b)[i] = IF i <= Len(a) THEN a[i] ELSE b[i - Len(a)]
    BY <2>1
  <2> QED BY <2>1, <2>2, <2>3
<1>6. ASSUME NEW i \in 1..(Len(s) - 1)
      PROVE  (a \o b)[i] = IF i < n THEN s[i] ELSE s[i + 1]
  <2>1. CASE i < n
    BY <1>1, <1>2, <1>5, <2>1
  <2>2. CASE ~(i < n)
    <3>1. i - (n - 1) \in 1..(Len(s) - n) /\ (i - (n - 1)) + n = i + 1
      BY <1>1, <2>2
    <3>2. (a \o b)[i] = b[i - (n - 1)]
      BY <1>1, <1>2, <1>5, <2>2
    <3> QED BY <1>3, <2>2, <3>1, <3>2
  <2> QED BY <2>1, <2>2
<1> QED BY <1>4, <1>5, <1>6

(* remove_ticket_locked(): a caller that is in the queue leaves it, and the *)
(* others keep their order.                                                *)
LEMMA RemovedAscends ==
  ASSUME NEW S, NEW s \in Seq(S), NEW tick \in [S -> Nat], Ascends(s, tick), NEW c \in ToSet(s)
  PROVE  /\ Removed(s, c) \in Seq(S)
         /\ ToSet(Removed(s, c)) = ToSet(s) \ {c}
         /\ Ascends(Removed(s, c), tick)
<1> DEFINE n == CHOOSE i \in 1..Len(s) : s[i] = c
           t == RemoveAt(s, n)
<1>1. n \in 1..Len(s) /\ s[n] = c
  BY DEF ToSet
<1>2. Removed(s, c) = t
  BY DEF Removed
<1> HIDE DEF n
<1>3. /\ t \in Seq(S) /\ Len(t) = Len(s) - 1 /\ Len(s) \in Nat
      /\ \A i \in 1..Len(t) : t[i] = IF i < n THEN s[i] ELSE s[i + 1]
  <2>1. /\ RemoveAt(s, n) \in Seq(S) /\ Len(RemoveAt(s, n)) = Len(s) - 1
        /\ \A i \in 1..(Len(s) - 1) : RemoveAt(s, n)[i] = IF i < n THEN s[i] ELSE s[i + 1]
    BY <1>1, RemoveAtElement
  <2> QED BY <2>1
<1> HIDE DEF t
<1>4. \A i \in 1..Len(s) : tick[s[i]] \in Nat
  OBVIOUS
<1>5. \A i \in 1..Len(s) : s[i] = c => i = n
  BY <1>1, <1>4 DEF Ascends
<1>6. DOMAIN t = 1..Len(t) /\ DOMAIN s = 1..Len(s)
  BY <1>3
<1>7. ToSet(t) = ToSet(s) \ {c}
  <2>1. ASSUME NEW e \in ToSet(t) PROVE e \in ToSet(s) \ {c}
    <3> PICK i \in 1..Len(t) : e = t[i] BY <1>6 DEF ToSet
    <3>1. CASE i < n
      <4>1. i \in 1..Len(s) /\ e = s[i] /\ i # n
        BY <1>1, <1>3, <3>1
      <4> QED BY <1>5, <1>6, <4>1 DEF ToSet
    <3>2. CASE ~(i < n)
      <4>1. i + 1 \in 1..Len(s) /\ e = s[i + 1] /\ i + 1 # n
        BY <1>1, <1>3, <3>2
      <4> QED BY <1>5, <1>6, <4>1 DEF ToSet
    <3> QED BY <3>1, <3>2
  <2>2. ASSUME NEW e \in ToSet(s), e # c PROVE e \in ToSet(t)
    <3> PICK i \in 1..Len(s) : e = s[i] BY <1>6 DEF ToSet
    <3>1. i # n BY <1>1, <2>2
    <3>2. CASE i < n
      <4>1. i \in 1..Len(t) /\ t[i] = e
        BY <1>1, <1>3, <3>2
      <4> QED BY <1>6, <4>1 DEF ToSet
    <3>3. CASE ~(i < n)
      <4>1. i - 1 \in 1..Len(t) /\ ~(i - 1 < n) /\ (i - 1) + 1 = i
        BY <1>1, <1>3, <3>1, <3>3
      <4>2. t[i - 1] = e
        BY <1>3, <4>1
      <4> QED BY <1>6, <4>1, <4>2 DEF ToSet
    <3> QED BY <3>2, <3>3
  <2> QED BY <2>1, <2>2
<1>8. Ascends(t, tick)
  <2> SUFFICES ASSUME NEW i \in 1..Len(t), NEW j \in 1..Len(t), i < j
               PROVE  tick[t[i]] < tick[t[j]]
    BY DEF Ascends
  <2>1. /\ i \in 1..Len(s) /\ i + 1 \in 1..Len(s) /\ j \in 1..Len(s) /\ j + 1 \in 1..Len(s)
        /\ i < j + 1 /\ i + 1 < j + 1
    BY <1>3
  <2>2. t[i] = (IF i < n THEN s[i] ELSE s[i + 1]) /\ t[j] = (IF j < n THEN s[j] ELSE s[j + 1])
    BY <1>3
  <2>3. j < n => i < n
    BY <1>1, <2>1
  <2> QED BY <2>1, <2>2, <2>3 DEF Ascends
<1> QED BY <1>2, <1>3, <1>7, <1>8

(* The head leaves, and every other ticket is younger than its own.        *)
LEMMA TailAscends ==
  ASSUME NEW S, NEW s \in Seq(S), NEW tick \in [S -> Nat], Ascends(s, tick), s # <<>>
  PROVE  /\ Tail(s) \in Seq(S)
         /\ ToSet(Tail(s)) = ToSet(s) \ {Head(s)}
         /\ Ascends(Tail(s), tick)
         /\ \A e \in ToSet(Tail(s)) : tick[Head(s)] < tick[e]
<1> DEFINE t == Tail(s)
<1>1. /\ Len(s) \in Nat /\ Len(s) > 0 /\ t \in Seq(S) /\ Len(t) = Len(s) - 1
      /\ Head(s) = s[1] /\ 1 \in 1..Len(s)
  OBVIOUS
<1>2. \A i \in 1..Len(t) : i + 1 \in 1..Len(s) /\ t[i] = s[i + 1]
  OBVIOUS
<1> HIDE DEF t
<1>3. DOMAIN t = 1..Len(t) /\ DOMAIN s = 1..Len(s)
  BY <1>1
<1>4. Ascends(t, tick)
  <2> SUFFICES ASSUME NEW i \in 1..Len(t), NEW j \in 1..Len(t), i < j
               PROVE  tick[t[i]] < tick[t[j]]
    BY DEF Ascends
  <2>1. i + 1 \in 1..Len(s) /\ j + 1 \in 1..Len(s) /\ i + 1 < j + 1
    BY <1>2
  <2>2. tick[s[i + 1]] < tick[s[j + 1]]
    BY <2>1 DEF Ascends
  <2> QED BY <1>2, <2>2
<1>5. \A e \in ToSet(t) : tick[s[1]] < tick[e] /\ e \in ToSet(s)
  <2> TAKE e \in ToSet(t)
  <2> PICK i \in 1..Len(t) : e = t[i] BY <1>3 DEF ToSet
  <2>1. i + 1 \in 1..Len(s) /\ 1 < i + 1 /\ e = s[i + 1]
    BY <1>2
  <2> QED BY <1>1, <1>3, <2>1 DEF Ascends, ToSet
<1>6. \A e \in ToSet(s) : e # s[1] => e \in ToSet(t)
  <2> SUFFICES ASSUME NEW e \in ToSet(s), e # s[1] PROVE e \in ToSet(t)
    OBVIOUS
  <2> PICK i \in 1..Len(s) : e = s[i] BY <1>3 DEF ToSet
  <2>1. i - 1 \in 1..Len(t) /\ (i - 1) + 1 = i
    BY <1>1
  <2>2. t[i - 1] = e
    BY <1>2, <2>1
  <2> QED BY <1>3, <2>1, <2>2 DEF ToSet
<1>7. s[1] \notin ToSet(t)
  <2>1. tick[s[1]] \in Nat
    BY <1>1
  <2> QED BY <1>5, <2>1
<1> QED BY <1>1, <1>4, <1>5, <1>6, <1>7 DEF t

-----------------------------------------------------------------------------
(* Who holds determines the rows held, and one holder more or less is       *)
(* Size(c) rows more or less.                                              *)
LEMMA HeldRowsFinite ==
  ASSUME IInv
  PROVE  IsFiniteSet(HeldRows)
<1> DEFINE Rows == Callers \X (1..hard_max)
<1>1. IsFiniteSet(Rows)
  <2>1. IsFiniteSet(1..hard_max)
    BY FS_Interval DEF IInv, TypeOK
  <2> QED BY <2>1, FS_Product, CallersAssumption
<1>2. HeldRows \subseteq Rows
  <2>1. \A c \in Callers : stage[c] = "holding" => 1..Size(c) \subseteq 1..hard_max
    BY SizeType DEF IInv, TypeOK, WithinStartupLimit
  <2> QED BY <2>1 DEF HeldRows
<1> HIDE DEF Rows
<1> QED BY <1>1, <1>2, FS_Subset

(* The rows of one caller are as many as it asked for.                      *)
LEMMA RowsOfOne ==
  ASSUME NEW c \in Callers
  PROVE  IsFiniteSet({c} \X (1..Size(c))) /\ Cardinality({c} \X (1..Size(c))) = Size(c)
<1>1. Size(c) \in Nat \ {0}
  BY SizeType
<1>2. IsFiniteSet({c}) /\ Cardinality({c}) = 1
  BY FS_Singleton
<1>3. IsFiniteSet(1..Size(c)) /\ Cardinality(1..Size(c)) = Size(c)
  BY <1>1, FS_Interval
<1>4. /\ IsFiniteSet({c} \X (1..Size(c)))
      /\ Cardinality({c} \X (1..Size(c))) = Cardinality({c}) * Cardinality(1..Size(c))
  BY <1>2, <1>3, FS_Product
<1> QED BY <1>1, <1>2, <1>3, <1>4

(* The held rows are those of the holders.                                  *)
LEMMA SameHolders ==
  ASSUME \A d \in Callers : stage'[d] = "holding" <=> stage[d] = "holding"
  PROVE  HeldRows' = HeldRows
<1>1. {d \in Callers : stage'[d] = "holding"} = {d \in Callers : stage[d] = "holding"}
  OBVIOUS
<1> QED BY <1>1 DEF HeldRows, Size

(* A grant adds the rows of its caller.                                     *)
LEMMA OneMoreHolder ==
  ASSUME IsFiniteSet(HeldRows), stage \in [Callers -> Stages], NEW c \in Callers,
         stage[c] # "holding",
         stage' = [stage EXCEPT ![c] = "holding"]
  PROVE  Cardinality(HeldRows') = Cardinality(HeldRows) + Size(c)
<1> DEFINE Mine == {c} \X (1..Size(c))
<1>1. {d \in Callers : stage'[d] = "holding"} = {d \in Callers : stage[d] = "holding"} \cup {c}
  OBVIOUS
<1>2. HeldRows' = HeldRows \cup Mine
  BY <1>1 DEF HeldRows, Size
<1>3. HeldRows \cap Mine = {}
  BY DEF HeldRows
<1>4. IsFiniteSet(HeldRows) /\ IsFiniteSet(Mine) /\ Cardinality(Mine) = Size(c)
  BY RowsOfOne
<1>5. Cardinality(HeldRows) \in Nat
  BY <1>4, FS_CardinalityType
<1> HIDE DEF Mine
<1>6. Cardinality(HeldRows \cup Mine)
        = Cardinality(HeldRows) + Cardinality(Mine) - Cardinality(HeldRows \cap Mine)
  BY <1>4, FS_Union
<1>7. Cardinality(HeldRows \cap Mine) = 0
  BY <1>3, FS_EmptySet
<1> QED BY <1>2, <1>4, <1>5, <1>6, <1>7, SizeType

(* A release gives back the rows of its caller.                             *)
LEMMA OneHolderLess ==
  ASSUME IsFiniteSet(HeldRows), stage \in [Callers -> Stages], NEW c \in Callers,
         stage[c] = "holding",
         stage' = [stage EXCEPT ![c] = "released"]
  PROVE  Cardinality(HeldRows) = Cardinality(HeldRows') + Size(c)
<1> DEFINE Mine == {c} \X (1..Size(c))
<1>1. {d \in Callers : stage[d] = "holding"} = {d \in Callers : stage'[d] = "holding"} \cup {c}
  OBVIOUS
<1>2. HeldRows = HeldRows' \cup Mine
  BY <1>1 DEF HeldRows, Size
<1>3. HeldRows' \cap Mine = {}
  BY DEF HeldRows
<1>4. IsFiniteSet(HeldRows) /\ IsFiniteSet(Mine) /\ Cardinality(Mine) = Size(c)
  BY RowsOfOne
<1> HIDE DEF Mine
<1>5. IsFiniteSet(HeldRows')
  BY <1>2, <1>4, FS_Subset
<1>6. Cardinality(HeldRows') \in Nat
  BY <1>5, FS_CardinalityType
<1>7. Cardinality(HeldRows' \cup Mine)
        = Cardinality(HeldRows') + Cardinality(Mine) - Cardinality(HeldRows' \cap Mine)
  BY <1>4, <1>5, FS_Union
<1>8. Cardinality(HeldRows' \cap Mine) = 0
  BY <1>3, FS_EmptySet
<1> QED BY <1>2, <1>4, <1>6, <1>7, <1>8, SizeType

-----------------------------------------------------------------------------
(* Initially nobody holds or waits.                                         *)
LEMMA InitIInv == Init => IInv
<1> SUFFICES ASSUME Init PROVE IInv
  OBVIOUS
<1>1. vram \in Int /\ hard_max \in Nat /\ dynamic_max \in Nat
  BY CallersAssumption DEF Init, AtLeast
<1>2. TypeOK
  <2>1. stage \in [Callers -> Stages] /\ ticket \in [Callers -> Nat] /\ stop \in [Callers -> BOOLEAN]
    BY DEF Init, Stages
  <2>2. queue \in Seq(Callers) /\ turns \in 0..MaxTurns /\ running \in BOOLEAN
    BY CallersAssumption DEF Init
  <2> QED BY <1>1, <2>1, <2>2 DEF Init, TypeOK
<1>3. \A c \in Callers : stage[c] = "new"
  BY DEF Init
<1>4. QueueIsWaiters
  <2>1. ToSet(queue) = {} /\ 1..Len(queue) = {}
    BY DEF Init, ToSet
  <2> QED BY <1>3, <2>1 DEF QueueIsWaiters
<1>5. ReservedIsHeld
  <2>1. HeldRows = {}
    BY <1>3 DEF HeldRows
  <2> QED BY <1>1, <2>1, FS_EmptySet DEF Init, ReservedIsHeld
<1> QED BY <1>2, <1>3, <1>4, <1>5 DEF IInv, WithinStartupLimit, NextIsYoungest

(* One turn of acquire()'s loop, of a caller that has just arrived or of one *)
(* that waited: `tick` are the tickets and `waiting` the queue with it.     *)
LEMMA TurnStep ==
  ASSUME IInv, NEW c \in Callers, stage[c] \in {"new", "queued"}, Size(c) <= hard_max,
         NEW waiting \in Seq(Callers), NEW tick \in [Callers -> Nat], Ascends(waiting, tick),
         ToSet(waiting) = {d \in Callers : stage[d] = "queued"} \cup {c},
         Turn(c, waiting), hard_max' = hard_max
  PROVE  /\ queue' \in Seq(Callers) /\ Ascends(queue', tick)
         /\ stage' \in [Callers -> Stages] /\ dynamic_max' \in Nat /\ reserved' \in Nat
         /\ ToSet(queue') = {d \in Callers : stage'[d] = "queued"}
         /\ \A d \in Callers : d # c => stage'[d] = stage[d]
         /\ ReservedIsHeld'
         /\ stage'[c] = "holding" => \A d \in ToSet(queue') : tick[c] < tick[d]
         /\ reserved' > reserved => reserved' <= dynamic_max' /\ dynamic_max' <= vram
<1>1. /\ vram \in Int /\ hard_max \in Nat /\ dynamic_max \in Nat /\ reserved \in Nat
      /\ stage \in [Callers -> Stages] /\ stop \in [Callers -> BOOLEAN]
  BY CallersAssumption DEF IInv, TypeOK
<1>2. /\ Refreshed \in Nat /\ Refreshed <= hard_max /\ (Refreshed > 0 => Refreshed <= vram)
      /\ Size(c) \in Nat \ {0}
  BY <1>1, RefreshedBounds, SizeType
<1>3. reserved = Cardinality(HeldRows) /\ reserved <= hard_max
  BY DEF IInv, ReservedIsHeld
<1>4. c \in ToSet(waiting) /\ waiting # <<>>
  BY DEF ToSet
<1>5. ASSUME NEW v \in Stages, stage' = [stage EXCEPT ![c] = v], v # "holding"
      PROVE  /\ stage' \in [Callers -> Stages] /\ stage'[c] = v
             /\ \A d \in Callers : d # c => stage'[d] = stage[d]
             /\ HeldRows' = HeldRows
  <2>1. /\ stage' \in [Callers -> Stages] /\ stage'[c] = v
        /\ \A d \in Callers : d # c => stage'[d] = stage[d]
    BY <1>1, <1>5
  <2> QED BY <1>5, <2>1, SameHolders
<1>6. CASE Cancelled(c, waiting) \/ QueryThrows(c, waiting)
  <2>1. PICK v \in {"cancelled", "threw"} : stage' = [stage EXCEPT ![c] = v]
    BY <1>6 DEF Cancelled, QueryThrows
  <2>2. queue' = Removed(waiting, c) /\ dynamic_max' = dynamic_max /\ reserved' = reserved
    BY <1>6 DEF Cancelled, QueryThrows
  <2>3. /\ stage' \in [Callers -> Stages] /\ stage'[c] = v
        /\ \A d \in Callers : d # c => stage'[d] = stage[d]
        /\ HeldRows' = HeldRows
    BY <1>5, <2>1 DEF Stages
  <2>4. queue' \in Seq(Callers) /\ Ascends(queue', tick) /\ ToSet(queue') = ToSet(waiting) \ {c}
    BY <1>4, <2>2, RemovedAscends
  <2>5. ToSet(queue') = {d \in Callers : stage'[d] = "queued"}
    BY <2>3, <2>4
  <2>6. ReservedIsHeld'
    BY <1>3, <2>2, <2>3 DEF ReservedIsHeld
  <2> QED BY <1>1, <2>2, <2>3, <2>4, <2>5, <2>6
<1>7. CASE Admitted(c, waiting)
  <2>1. /\ Head(waiting) = c /\ Fits(c) /\ dynamic_max' = Refreshed
        /\ reserved' = reserved + Size(c) /\ queue' = Tail(waiting)
        /\ stage' = [stage EXCEPT ![c] = "holding"]
    BY <1>7 DEF Admitted, IsTurn
  <2>2. /\ stage' \in [Callers -> Stages] /\ stage'[c] = "holding"
        /\ \A d \in Callers : d # c => stage'[d] = stage[d]
    BY <1>1, <2>1 DEF Stages
  <2>3. reserved + Size(c) <= Refreshed
    BY <1>1, <1>2, <2>1 DEF Fits, AtLeast
  <2>4. /\ queue' \in Seq(Callers) /\ Ascends(queue', tick)
        /\ ToSet(queue') = ToSet(waiting) \ {c}
        /\ \A d \in ToSet(queue') : tick[c] < tick[d]
    BY <1>4, <2>1, TailAscends
  <2>5. ToSet(queue') = {d \in Callers : stage'[d] = "queued"}
    BY <2>2, <2>4
  <2>6. ReservedIsHeld'
    <3>1. Cardinality(HeldRows') = Cardinality(HeldRows) + Size(c)
      BY <1>1, <2>1, HeldRowsFinite, OneMoreHolder
    <3> QED BY <1>1, <1>2, <1>3, <2>1, <2>3, <3>1 DEF ReservedIsHeld
  <2> QED BY <1>1, <1>2, <2>1, <2>2, <2>3, <2>4, <2>5, <2>6
<1>8. CASE Waits(c, waiting)
  <2>1. /\ queue' = waiting /\ stage' = [stage EXCEPT ![c] = "queued"] /\ reserved' = reserved
        /\ dynamic_max' \in {dynamic_max, Refreshed}
    BY <1>8 DEF Waits
  <2>2. /\ stage' \in [Callers -> Stages] /\ stage'[c] = "queued"
        /\ \A d \in Callers : d # c => stage'[d] = stage[d]
        /\ HeldRows' = HeldRows
    BY <1>5, <2>1 DEF Stages
  <2>3. ToSet(queue') = {d \in Callers : stage'[d] = "queued"}
    BY <2>1, <2>2
  <2>4. ReservedIsHeld'
    BY <1>3, <2>1, <2>2 DEF ReservedIsHeld
  <2> QED BY <1>1, <1>2, <2>1, <2>2, <2>3, <2>4
<1> QED BY <1>6, <1>7, <1>8 DEF Turn

-----------------------------------------------------------------------------
InTurn == NoOvertakingStep /\ AdmittedWithinCapacityStep

(* What remains to be shown of a turn once TurnStep is known.              *)
LEMMA TurnSuffices ==
  ASSUME IInv, NEW c \in Callers, stage[c] \in {"new", "queued"}, Size(c) <= hard_max,
         NEW waiting \in Seq(Callers), Ascends(waiting, ticket'),
         ToSet(waiting) = {d \in Callers : stage[d] = "queued"} \cup {c},
         Turn(c, waiting), ticket' \in [Callers -> Nat], next_ticket' \in Nat \ {0},
         \A d \in Callers : stage[d] = "queued" \/ d = c => ticket'[d] < next_ticket',
         UNCHANGED <<environment, hard_max, stop, running>>
  PROVE  IInv' /\ InTurn
<1>1. /\ queue' \in Seq(Callers) /\ Ascends(queue', ticket')
      /\ stage' \in [Callers -> Stages] /\ dynamic_max' \in Nat /\ reserved' \in Nat
      /\ ToSet(queue') = {d \in Callers : stage'[d] = "queued"}
      /\ \A d \in Callers : d # c => stage'[d] = stage[d]
      /\ ReservedIsHeld'
      /\ stage'[c] = "holding" => \A d \in ToSet(queue') : ticket'[c] < ticket'[d]
      /\ reserved' > reserved => reserved' <= dynamic_max' /\ dynamic_max' <= vram
  <2> HIDE DEF Turn, Ascends, IInv
  <2> DEFINE tick == ticket'
  <2>1. tick \in [Callers -> Nat] /\ Ascends(waiting, tick) /\ hard_max' = hard_max
    OBVIOUS
  <2> HIDE DEF tick
  <2>2. /\ queue' \in Seq(Callers) /\ Ascends(queue', tick)
        /\ stage' \in [Callers -> Stages] /\ dynamic_max' \in Nat /\ reserved' \in Nat
        /\ ToSet(queue') = {d \in Callers : stage'[d] = "queued"}
        /\ \A d \in Callers : d # c => stage'[d] = stage[d]
        /\ ReservedIsHeld'
        /\ stage'[c] = "holding" => \A d \in ToSet(queue') : tick[c] < tick[d]
        /\ reserved' > reserved => reserved' <= dynamic_max' /\ dynamic_max' <= vram
    BY <2>1, TurnStep
  <2> QED BY <2>2 DEF tick
<1>2. TypeOK'
  BY <1>1 DEF IInv, TypeOK, environment
<1>3. WithinStartupLimit'
  BY <1>1 DEF IInv, WithinStartupLimit, Size
<1>4. NextIsYoungest'
  BY <1>1 DEF IInv, NextIsYoungest
<1>5. QueueIsWaiters'
  BY <1>1 DEF QueueIsWaiters, Ascends
<1>6. NoOvertakingStep
  BY <1>1 DEF NoOvertakingStep
<1> QED BY <1>1, <1>2, <1>3, <1>4, <1>5, <1>6 DEF IInv, InTurn, AdmittedWithinCapacityStep

(* A caller asks and is granted, queued or refused.                         *)
LEMMA AcquireStep ==
  ASSUME IInv, NEW c \in Callers, Acquire(c)
  PROVE  IInv' /\ InTurn
<1>1. /\ stage[c] = "new" /\ UNCHANGED <<environment, hard_max, stop, running>>
      /\ stage \in [Callers -> Stages] /\ hard_max \in Nat /\ Size(c) \in Nat
      /\ ticket \in [Callers -> Nat] /\ next_ticket \in Nat \ {0} /\ queue \in Seq(Callers)
  BY SizeType DEF Acquire, IInv, TypeOK
<1>2. CASE Size(c) > hard_max
  <2>1. /\ stage' = [stage EXCEPT ![c] = "rejected"]
        /\ UNCHANGED <<dynamic_max, reserved, queue, ticket, next_ticket>>
    BY <1>2 DEF Acquire
  <2>2. /\ stage' \in [Callers -> Stages] /\ stage'[c] = "rejected"
        /\ \A d \in Callers : d # c => stage'[d] = stage[d]
    BY <1>1, <2>1 DEF Stages
  <2>3. HeldRows' = HeldRows
    BY <1>1, <2>2, SameHolders
  <2>4. {d \in Callers : stage'[d] = "queued"} = {d \in Callers : stage[d] = "queued"}
    BY <1>1, <2>2
  <2>5. TypeOK'
    BY <1>1, <2>1, <2>2 DEF IInv, TypeOK, environment
  <2>6. WithinStartupLimit' /\ NextIsYoungest'
    BY <1>1, <2>1, <2>2 DEF IInv, WithinStartupLimit, NextIsYoungest, Size
  <2>7. QueueIsWaiters'
    BY <2>1, <2>4 DEF IInv, QueueIsWaiters
  <2>8. ReservedIsHeld'
    BY <1>1, <2>1, <2>3 DEF IInv, ReservedIsHeld
  <2>9. NoOvertakingStep
    BY <2>2 DEF NoOvertakingStep
  <2>10. reserved' = reserved /\ reserved \in Nat
    BY <2>1 DEF IInv, TypeOK
  <2> QED BY <2>5, <2>6, <2>7, <2>8, <2>9, <2>10 DEF IInv, InTurn, AdmittedWithinCapacityStep
<1>3. CASE ~(Size(c) > hard_max)
  <2>1. /\ ticket' = [ticket EXCEPT ![c] = next_ticket] /\ next_ticket' = next_ticket + 1
        /\ Turn(c, Append(queue, c))
    BY <1>3 DEF Acquire
  <2>2. /\ ticket' \in [Callers -> Nat] /\ ticket'[c] = next_ticket
        /\ \A d \in Callers : d # c => ticket'[d] = ticket[d]
    BY <1>1, <2>1
  <2>3. \A i \in 1..Len(queue) : queue[i] \in Callers /\ queue[i] # c /\ stage[queue[i]] = "queued"
    BY <1>1 DEF IInv, QueueIsWaiters, ToSet
  <2>4. Ascends(queue, ticket')
    BY <2>2, <2>3 DEF IInv, QueueIsWaiters, Ascends
  <2>5. \A i \in 1..Len(queue) : ticket'[queue[i]] < ticket'[c]
    BY <2>2, <2>3 DEF IInv, NextIsYoungest
  <2>6. /\ Append(queue, c) \in Seq(Callers)
        /\ ToSet(Append(queue, c)) = ToSet(queue) \cup {c}
        /\ Ascends(Append(queue, c), ticket')
    <3> DEFINE tick == ticket'
    <3>1. tick \in [Callers -> Nat] /\ Ascends(queue, tick)
          /\ \A i \in 1..Len(queue) : tick[queue[i]] < tick[c]
      BY <2>2, <2>4, <2>5
    <3> HIDE DEF tick
    <3>2. /\ Append(queue, c) \in Seq(Callers)
          /\ ToSet(Append(queue, c)) = ToSet(queue) \cup {c}
          /\ Ascends(Append(queue, c), tick)
      BY <1>1, <3>1, AppendAscends
    <3> QED BY <3>2 DEF tick
  <2>7. ToSet(Append(queue, c)) = {d \in Callers : stage[d] = "queued"} \cup {c}
    BY <2>6 DEF IInv, QueueIsWaiters
  <2>8. /\ next_ticket' \in Nat \ {0}
        /\ \A d \in Callers : stage[d] = "queued" \/ d = c => ticket'[d] < next_ticket'
    BY <1>1, <2>1, <2>2 DEF IInv, NextIsYoungest
  <2>9. Size(c) <= hard_max
    BY <1>1, <1>3
  <2> QED BY <1>1, <2>1, <2>2, <2>6, <2>7, <2>8, <2>9, TurnSuffices
<1> QED BY <1>2, <1>3

(* A waiting caller looks whether it is its turn.                           *)
LEMMA PollStep ==
  ASSUME IInv, NEW c \in Callers, Poll(c)
  PROVE  IInv' /\ InTurn
<1>1. /\ stage[c] = "queued" /\ Turn(c, queue)
      /\ UNCHANGED <<environment, hard_max, ticket, next_ticket, stop, running>>
  BY DEF Poll
<1>2. /\ ticket' \in [Callers -> Nat] /\ next_ticket' \in Nat \ {0} /\ queue \in Seq(Callers)
      /\ Size(c) <= hard_max
  BY <1>1 DEF IInv, TypeOK, WithinStartupLimit
<1>3. Ascends(queue, ticket')
  BY <1>1 DEF IInv, QueueIsWaiters, Ascends
<1>4. ToSet(queue) = {d \in Callers : stage[d] = "queued"} \cup {c}
  BY <1>1 DEF IInv, QueueIsWaiters
<1>5. \A d \in Callers : stage[d] = "queued" \/ d = c => ticket'[d] < next_ticket'
  BY <1>1 DEF IInv, NextIsYoungest
<1> QED BY <1>1, <1>2, <1>3, <1>4, <1>5, TurnSuffices

(* The clamp at 0 in release() never hides a reservation: at least Size(c)  *)
(* rows are held when c releases.                                          *)
LEMMA ReleaseStep ==
  ASSUME IInv, NEW c \in Callers, Release(c)
  PROVE  IInv' /\ InTurn
<1>1. /\ stage[c] = "holding" /\ reserved' = AfterRelease(c)
      /\ stage' = [stage EXCEPT ![c] = "released"]
      /\ dynamic_max' \in {dynamic_max, Refreshed} /\ running' \in {running, FALSE}
      /\ UNCHANGED <<environment, hard_max, queue, ticket, next_ticket, stop>>
  BY DEF Release
<1>2. /\ stage \in [Callers -> Stages] /\ hard_max \in Nat /\ reserved \in Nat /\ vram \in Int
      /\ dynamic_max \in Nat /\ Size(c) \in Nat \ {0} /\ Refreshed \in Nat
  BY CallersAssumption, SizeType, RefreshedBounds DEF IInv, TypeOK
<1>3. /\ stage' \in [Callers -> Stages] /\ stage'[c] = "released"
      /\ \A d \in Callers : d # c => stage'[d] = stage[d]
  BY <1>1, <1>2 DEF Stages
<1>4. IsFiniteSet(HeldRows') /\ Cardinality(HeldRows) = Cardinality(HeldRows') + Size(c)
  <2>1. HeldRows' \subseteq HeldRows
    BY <1>3 DEF HeldRows, Size
  <2> QED BY <1>1, <1>2, <2>1, HeldRowsFinite, FS_Subset, OneHolderLess
<1>5. Cardinality(HeldRows') \in Nat
  BY <1>4, FS_CardinalityType
<1>6. reserved' = Cardinality(HeldRows') /\ reserved' <= reserved
  BY <1>1, <1>2, <1>4, <1>5 DEF IInv, ReservedIsHeld, AfterRelease, AtLeast
<1>7. ReservedIsHeld' /\ reserved' \in Nat
  BY <1>1, <1>2, <1>5, <1>6 DEF IInv, ReservedIsHeld
<1>8. TypeOK'
  BY <1>1, <1>2, <1>3, <1>7 DEF IInv, TypeOK, environment
<1>9. WithinStartupLimit' /\ NextIsYoungest'
  BY <1>1, <1>3 DEF IInv, WithinStartupLimit, NextIsYoungest, Size
<1>10. QueueIsWaiters'
  <2>1. {d \in Callers : stage'[d] = "queued"} = {d \in Callers : stage[d] = "queued"}
    BY <1>1, <1>3
  <2> QED BY <1>1, <2>1 DEF IInv, QueueIsWaiters
<1>11. NoOvertakingStep
  BY <1>3 DEF NoOvertakingStep
<1>12. AdmittedWithinCapacityStep
  BY <1>2, <1>6, <1>7 DEF AdmittedWithinCapacityStep
<1> QED BY <1>7, <1>8, <1>9, <1>10, <1>11, <1>12 DEF IInv, InTurn

(* snapshot(), a stop, a change of free VRAM: no reservation is touched.    *)
LEMMA OtherStep ==
  ASSUME IInv, Snapshot \/ Vram \/ (\E c \in Callers : Stop(c)) \/ UNCHANGED vars
  PROVE  IInv' /\ InTurn
<1>1. /\ UNCHANGED <<hard_max, reserved, queue, ticket, next_ticket, stage, running>>
      /\ dynamic_max' \in {dynamic_max, Refreshed}
      /\ vram' \in Capacities /\ turns' \in 0..MaxTurns /\ stop' \in [Callers -> BOOLEAN]
  <2>1. CASE Snapshot
    BY <2>1 DEF Snapshot, environment, IInv, TypeOK
  <2>2. CASE Vram
    BY <2>2, CallersAssumption DEF Vram, IInv, TypeOK
  <2>3. CASE \E c \in Callers : Stop(c)
    BY <2>3 DEF Stop, environment, IInv, TypeOK
  <2>4. CASE UNCHANGED vars
    BY <2>4 DEF vars, IInv, TypeOK
  <2> QED BY <2>1, <2>2, <2>3, <2>4
<1>2. vram \in Int /\ hard_max \in Nat /\ Refreshed \in Nat
  BY CallersAssumption, RefreshedBounds DEF IInv, TypeOK
<1>3. TypeOK'
  BY <1>1, <1>2 DEF IInv, TypeOK
<1>4. HeldRows' = HeldRows
  BY <1>1, SameHolders
<1>5. WithinStartupLimit' /\ NextIsYoungest' /\ QueueIsWaiters' /\ ReservedIsHeld'
  BY <1>1, <1>4 DEF IInv, WithinStartupLimit, NextIsYoungest, QueueIsWaiters, ReservedIsHeld, Size
<1>6. InTurn
  BY <1>1 DEF IInv, TypeOK, InTurn, NoOvertakingStep, AdmittedWithinCapacityStep
<1> QED BY <1>3, <1>5, <1>6 DEF IInv

(* Every step keeps the invariant, and a grant is in turn.                  *)
LEMMA NextIInv == IInv /\ [Next]_vars => IInv' /\ InTurn
<1> SUFFICES ASSUME IInv, [Next]_vars PROVE IInv' /\ InTurn
  OBVIOUS
<1>1. ASSUME NEW c \in Callers, Acquire(c) \/ Poll(c) \/ Release(c) PROVE IInv' /\ InTurn
  BY <1>1, AcquireStep, PollStep, ReleaseStep
<1>2. CASE Terminated
  BY <1>2, OtherStep DEF Terminated
<1> QED BY <1>1, <1>2, OtherStep DEF Next

-----------------------------------------------------------------------------
(* The invariant holds throughout, for any callers, sizes and reports.      *)
THEOREM Invariance == Spec => []IInv
<1>1. IInv /\ [Next]_vars => IInv'
  BY NextIInv
<1> QED BY <1>1, InitIInv, PTL DEF Spec

(* The controller's fields and the callers' progress keep their types.      *)
THEOREM TypeCorrect == Spec => []TypeOK
<1>1. IInv => TypeOK
  BY DEF IInv
<1> QED BY <1>1, Invariance, PTL

(* reserved_batch_size_ is exactly the rows of the permits alive, and never *)
(* above the startup limit: cancellation, exceptions and releases neither  *)
(* leak a reservation nor give one back twice.                             *)
THEOREM ReservationsAreExact == Spec => []ReservedIsHeld
<1>1. IInv => ReservedIsHeld
  BY DEF IInv
<1> QED BY <1>1, Invariance, PTL

(* The queue holds the waiting callers in ticket order and nobody else.     *)
THEOREM QueueHoldsTheWaiters == Spec => []QueueIsWaiters
<1>1. IInv => QueueIsWaiters
  BY DEF IInv
<1> QED BY <1>1, Invariance, PTL

(* acquire() admits in ticket order, within the capacity it has just read.  *)
THEOREM AdmissionsAreInTurn == Spec => AdmittedInTurn
<1>1. IInv /\ [Next]_vars => [InTurn]_vars
  BY NextIInv
<1>2. Spec => [][InTurn]_vars
  BY <1>1, Invariance, PTL DEF Spec
<1> QED BY <1>2 DEF InTurn, AdmittedInTurn
=============================================================================
