------------------------------ MODULE WarpSums ------------------------------
(***************************************************************************)
(* The reductions every kernel of src/cuda/rwkv7_v3a_ops.cu ends with: a   *)
(* sum over the lanes of a warp by shuffles, and over the warps of a block *)
(* through shared memory.  Thread counts are scaled: a block of n threads  *)
(* keeps its n / 32 warps, and a warp has WarpSize lanes instead of 32.    *)
(***************************************************************************)
EXTENDS Integers, Sequences, FiniteSets, FiniteSetsExt, SequencesExt

CONSTANT WarpSize       \* lanes of a warp, 32 on the device

WarpSizeAssumption == WarpSize \in {2, 4, 8, 16, 32}

Lanes == 0..WarpSize - 1

Scaled(threads) == (threads * WarpSize) \div 32

CeilDiv(n, d) == (n + d - 1) \div d

\* The offsets of the shuffles: half a warp, a quarter, ... 1.
ShuffleOffsets ==
  SelectSeq(<<16, 8, 4, 2, 1>>, LAMBDA offset : offset < WarpSize)

\* __shfl_down_sync returns a lane's own value where the source is outside
\* the warp, so only lane 0 ends with the sum.
ShuffleDown(v, offset) ==
  [l \in Lanes |-> v[l] + v[IF l + offset < WarpSize THEN l + offset ELSE l]]

warp_sum(v) == FoldLeft(ShuffleDown, v, ShuffleOffsets)

\* Lane 0 of every warp leaves its sum in partial[warp].
Partials(threads, v) ==
  [w \in 0..(threads \div WarpSize) - 1 |->
     warp_sum([l \in Lanes |-> v[w * WarpSize + l]])[0]]

\* What thread 0 adds up: the loop over partial[w] of the tiled kernels.
partial_sum(threads, v) ==
  LET partial == Partials(threads, v)
  IN  MapThenSumSet(LAMBDA w : partial[w], DOMAIN partial)

\* block_sum_t: the partial sums go through the first warp once more.
block_sum(threads, v) ==
  LET partial == Partials(threads, v)
  IN  warp_sum([l \in Lanes |-> IF l \in DOMAIN partial THEN partial[l] ELSE 0])[0]

=============================================================================
