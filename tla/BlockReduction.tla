--------------------------- MODULE BlockReduction ---------------------------
(***************************************************************************)
(* block_sum_t of src/cuda/rwkv7_v3a_ops.cu run by the threads of a block, *)
(* several times in a row as the norm kernels do (the mean, then the       *)
(* variance).  All calls share one `partial` array.  Threads run in any    *)
(* order between two __syncthreads; the lanes of a warp meet at a shuffle. *)
(***************************************************************************)
EXTENDS WarpSums

CONSTANTS
  Threads,              \* the template parameter
  Calls                 \* reductions the kernel makes

ThreadsAssumption ==
  /\ Threads \in Nat \ {0} /\ Threads % WarpSize = 0
  /\ Threads \div WarpSize <= WarpSize
  /\ Calls \in Nat \ {0}

VARIABLES
  pc,                   \* where each thread is
  arrived,              \* the threads waiting at a __syncthreads
  call,                 \* the reduction a thread is in
  x,                    \* its register
  partial,              \* __shared__ float partial[Threads / 32]
  returned              \* what each call returned to each thread

vars == <<pc, arrived, call, x, partial, returned>>

Tids == 0..Threads - 1
Warps == 0..(Threads \div WarpSize) - 1
WarpOf(t) == t \div WarpSize
LaneOf(t) == t % WarpSize
WarpTids(w) == {t \in Tids : WarpOf(t) = w}

\* A different number for every thread and call, so that a sum names its terms.
Input(t, c) == 2^t * (IF c % 2 = 0 THEN 1 ELSE 2^Threads)

Barriers == {"reuse", "stored", "published"}

Init ==
  /\ pc = [t \in Tids |-> "reuse"]
  /\ arrived = {}
  /\ call = [t \in Tids |-> 1]
  /\ x = [t \in Tids |-> Input(t, 1)]
  /\ partial = [w \in Warps |-> 0]
  /\ returned = [t \in Tids |-> <<>>]

AfterBarrier ==
  [reuse |-> "shuffle", stored |-> "load", published |-> "read"]

\* __syncthreads: a thread waits until every thread of the block has come.
Arrive(t) ==
  /\ pc[t] \in Barriers
  /\ t \notin arrived
  /\ arrived' = arrived \cup {t}
  /\ UNCHANGED <<pc, call, x, partial, returned>>

Release ==
  /\ arrived = Tids
  /\ pc' = [t \in Tids |-> AfterBarrier[pc[t]]]
  /\ arrived' = {}
  /\ UNCHANGED <<call, x, partial, returned>>

\* x = warp_sum(x): the whole warp at once.
Shuffle(w) ==
  /\ \A t \in WarpTids(w) : pc[t] \in {"shuffle", "gather"}
  /\ LET first == w * WarpSize
         sums  == warp_sum([l \in Lanes |-> x[first + l]])
     IN  x' = [t \in Tids |-> IF WarpOf(t) = w THEN sums[t - first] ELSE x[t]]
  /\ pc' = [t \in Tids |->
              CASE WarpOf(t) # w       -> pc[t]
                [] pc[t] = "gather"    -> "publish"
                [] OTHER               -> "store"]
  /\ UNCHANGED <<arrived, call, partial, returned>>

\* if (lane == 0) partial[warp] = x
Store(t) ==
  /\ pc[t] = "store"
  /\ partial' = IF LaneOf(t) = 0 THEN [partial EXCEPT ![WarpOf(t)] = x[t]]
                                 ELSE partial
  /\ pc' = [pc EXCEPT ![t] = "stored"]
  /\ UNCHANGED <<arrived, call, x, returned>>

\* x = (threadIdx.x < Threads / 32) ? partial[lane] : 0
Load(t) ==
  /\ pc[t] = "load"
  /\ x' = [x EXCEPT ![t] = IF t \in Warps THEN partial[LaneOf(t)] ELSE 0]
  /\ pc' = [pc EXCEPT ![t] = IF WarpOf(t) = 0 THEN "gather" ELSE "publish"]
  /\ UNCHANGED <<arrived, call, partial, returned>>

\* if (threadIdx.x == 0) partial[0] = x
Publish(t) ==
  /\ pc[t] = "publish"
  /\ partial' = IF t = 0 THEN [partial EXCEPT ![0] = x[t]] ELSE partial
  /\ pc' = [pc EXCEPT ![t] = "published"]
  /\ UNCHANGED <<arrived, call, x, returned>>

\* Mutant: no barrier on entry, partial is written while the last call is read.
ReturnNoReuseBarrier(t) ==
  /\ pc[t] = "read"
  /\ returned' = [returned EXCEPT ![t] = Append(@, partial[0])]
  /\ call' = [call EXCEPT ![t] = @ + 1]
  /\ pc' = [pc EXCEPT ![t] = IF call[t] < Calls THEN "shuffle" ELSE "done"]
  /\ x' = [x EXCEPT ![t] = Input(t, call[t] + 1)]
  /\ UNCHANGED <<arrived, partial>>

\* return partial[0], and into the kernel's next reduction.
Return(t) ==
  /\ pc[t] = "read"
  /\ returned' = [returned EXCEPT ![t] = Append(@, partial[0])]
  /\ call' = [call EXCEPT ![t] = @ + 1]
  /\ pc' = [pc EXCEPT ![t] = IF call[t] < Calls THEN "reuse" ELSE "done"]
  /\ x' = [x EXCEPT ![t] = Input(t, call[t] + 1)]
  /\ UNCHANGED <<arrived, partial>>

Next ==
  \/ \E t \in Tids : Arrive(t) \/ Store(t) \/ Load(t) \/ Publish(t) \/ Return(t)
  \/ Release
  \/ \E w \in Warps : Shuffle(w)

\* A warp scheduler runs every warp that is ready.
Fairness ==
  /\ WF_vars(Release)
  /\ \A t \in Tids : WF_vars(Arrive(t) \/ Store(t) \/ Load(t) \/ Publish(t) \/ Return(t))
  /\ \A w \in Warps : WF_vars(Shuffle(w))

Spec == Init /\ [][Next]_vars /\ Fairness

-----------------------------------------------------------------------------
TypeOK ==
  /\ pc \in [Tids -> Barriers \cup {"shuffle", "store", "load", "gather",
                                    "publish", "read", "done"}]
  /\ arrived \subseteq Tids
  /\ call \in [Tids -> 1..Calls + 1]
  /\ \A t \in Tids : x[t] \in Int /\ Len(returned[t]) <= Calls
  /\ \A w \in Warps : partial[w] \in Int

\* Every call returns to every thread of the block the sum of what the threads
\* gave that call: no thread reads `partial` before the sum is there, or after
\* a faster thread has reused it for the next reduction.
EveryThreadGetsTheSum ==
  \A t \in Tids : \A c \in 1..Len(returned[t]) :
    returned[t][c] = MapThenSumSet(LAMBDA u : Input(u, c), Tids)

=============================================================================
