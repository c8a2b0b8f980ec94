----------------------------- MODULE W8TileLoop -----------------------------
(***************************************************************************)
(* w8a16_gemm_kernel of src/quant/gemmv/rwkv_w8a16.cu, the kernel for      *)
(* devices and layouts without the packed tensor-core path: one block      *)
(* walks the tiles of K with a single x_tile and weight_tile.  Its Async   *)
(* form copies the int8 weights of the next tile into q_storage while this *)
(* one is multiplied, and converts them to half behind it.  With BLOCK_N = *)
(* 128 the outputs leave in two groups through one output_tile.            *)
(***************************************************************************)
EXTENDS Integers, Sequences, FiniteSets

CONSTANTS
  Warps,                \* warps of a block (4 or 8 in the code)
  MaxTiles              \* bound: K / BLOCK_K

TileLoopAssumption ==
  /\ Warps \in Nat /\ Warps % 2 = 0 /\ Warps > 0
  /\ MaxTiles \in Nat \ {0}

VARIABLES
  kernel,               \* the template arguments and K / BLOCK_K
  warp,                 \* the warps of the block
  x_tile, weight_tile,  \* __shared__: the tile each part is of
  q_storage,            \* __shared__: the same, int8
  output_tile,          \* __shared__: the sums of one group of outputs
  y                     \* the outputs, by group, owner and writing warp

vars == <<kernel, warp, x_tile, weight_tile, q_storage, output_tile, y>>

Wids == 0..Warps - 1
Garbage == -1
Contents == {Garbage} \cup 0..kernel.tiles - 1
Last == kernel.tiles - 1

GROUP_WARPS == IF kernel.wide THEN Warps \div 2 ELSE Warps
Groups == IF kernel.wide THEN 0..1 ELSE {0}
Slots == 0..GROUP_WARPS - 1
NoSum == [owner |-> Garbage, acc |-> <<>>]

Init ==
  /\ kernel \in [Async : BOOLEAN, wide : BOOLEAN, tiles : 1..MaxTiles]
  /\ warp = [w \in Wids |->
       [pc |-> IF kernel.Async THEN "prefetch" ELSE "load", barriers |-> 0,
        k |-> 0, flying |-> {}, read |-> <<>>, acc |-> <<>>, group |-> 0]]
  /\ x_tile = [w \in Wids |-> Garbage]
  /\ weight_tile = [w \in Wids |-> Garbage]
  /\ q_storage = [w \in Wids |-> Garbage]
  /\ output_tile = [s \in Slots |-> NoSum]
  /\ y = [g \in Groups |-> [s \in Slots |-> [w \in Wids |-> NoSum]]]

\* __syncthreads.
Synced(w) == \A v \in Wids : warp[v].barriers >= warp[w].barriers

\* The warp comes to a __syncthreads, behind which it goes on at `next`.
Barrier(w, next) ==
  warp' = [warp EXCEPT ![w].pc = next, ![w].barriers = @ + 1]

-----------------------------------------------------------------------------
\* prefetch_q_tile of the first tile.
Prefetch(w) ==
  /\ warp[w].pc = "prefetch"
  /\ warp' = [warp EXCEPT ![w].flying = {0}, ![w].pc = "wait"]
  /\ UNCHANGED <<kernel, x_tile, weight_tile, q_storage, output_tile, y>>

Land(w) ==
  /\ \E k \in warp[w].flying : q_storage' = [q_storage EXCEPT ![w] = k]
  /\ warp' = [warp EXCEPT ![w].flying = {}]
  /\ UNCHANGED <<kernel, x_tile, weight_tile, output_tile, y>>

\* cp_async_wait
Wait(w) ==
  /\ warp[w].pc = "wait"
  /\ warp[w].flying = {}
  /\ Barrier(w, "convert")
  /\ UNCHANGED <<kernel, x_tile, weight_tile, q_storage, output_tile, y>>

\* convert_q_tile: a thread converts the vectors that it fetched.
Convert(w) ==
  /\ warp[w].pc = "convert"
  /\ Synced(w)
  /\ weight_tile' = [weight_tile EXCEPT ![w] = q_storage[w]]
  /\ Barrier(w, "load")
  /\ UNCHANGED <<kernel, x_tile, q_storage, output_tile, y>>

(***************************************************************************)
(* The body up to the first barrier: x_tile, then either weight_tile or,   *)
(* if there is a next tile, its prefetch.                                  *)
(***************************************************************************)
Load(w) ==
  /\ warp[w].pc = "load"
  /\ Synced(w)
  /\ x_tile' = [x_tile EXCEPT ![w] = warp[w].k]
  /\ weight_tile' = IF kernel.Async THEN weight_tile
                    ELSE [weight_tile EXCEPT ![w] = warp[w].k]
  /\ warp' = [warp EXCEPT
       ![w].flying = IF kernel.Async /\ warp[w].k < Last
                     THEN {warp[w].k + 1} ELSE {},
       ![w].pc = "mma", ![w].barriers = @ + 1]
  /\ UNCHANGED <<kernel, q_storage, output_tile, y>>

\* load_matrix_sync of one part of x and of the weight.
Read(w) ==
  /\ warp[w].pc = "mma"
  /\ Synced(w)
  /\ Len(warp[w].read) < Warps
  /\ LET v == Len(warp[w].read)
     IN  warp' = [warp EXCEPT
                    ![w].read = Append(@, <<x_tile[v], weight_tile[v]>>)]
  /\ UNCHANGED <<kernel, x_tile, weight_tile, q_storage, output_tile, y>>

\* mma_sync: the product of a whole tile, or garbage.
Mma(w) ==
  /\ warp[w].pc = "mma"
  /\ Len(warp[w].read) = Warps
  /\ LET parts == {warp[w].read[i] : i \in 1..Warps}
         tile  == IF parts = {<<warp[w].k, warp[w].k>>} THEN warp[w].k
                                                         ELSE Garbage
     IN  warp' = [warp EXCEPT ![w].acc = Append(@, tile), ![w].read = <<>>,
                              ![w].pc = "next", ![w].barriers = @ + 1]
  /\ UNCHANGED <<kernel, x_tile, weight_tile, q_storage, output_tile, y>>

NextTile(w) ==
  /\ warp[w].pc = "next"
  /\ Synced(w)
  /\ warp' = [warp EXCEPT
       ![w].k = @ + 1,
       ![w].pc = CASE warp[w].k = Last -> "store"
                   [] kernel.Async     -> "wait"
                   [] OTHER            -> "load"]
  /\ UNCHANGED <<kernel, x_tile, weight_tile, q_storage, output_tile, y>>

-----------------------------------------------------------------------------
\* store_matrix_sync, by the warps of the group.
StoreSum(w) ==
  /\ warp[w].pc = "store"
  /\ Synced(w)
  /\ output_tile' =
       IF w \div GROUP_WARPS = warp[w].group
       THEN [output_tile EXCEPT ![w % GROUP_WARPS] =
               [owner |-> w, acc |-> warp[w].acc]]
       ELSE output_tile
  /\ Barrier(w, "write")
  /\ UNCHANGED <<kernel, x_tile, weight_tile, q_storage, y>>

\* Every thread scales and writes its share of the group's outputs.
Write(w) ==
  /\ warp[w].pc = "write"
  /\ Synced(w)
  /\ y' = [y EXCEPT ![warp[w].group] =
             [s \in Slots |-> [@[s] EXCEPT ![w] = output_tile[s]]]]
  /\ warp' = [warp EXCEPT
       ![w].group = @ + 1, ![w].barriers = @ + 1,
       ![w].pc = IF warp[w].group + 1 \in Groups THEN "store" ELSE "done"]
  /\ UNCHANGED <<kernel, x_tile, weight_tile, q_storage, output_tile>>

Step(w) ==
  \/ Prefetch(w) \/ Land(w) \/ Wait(w) \/ Convert(w) \/ Load(w) \/ Read(w)
  \/ Mma(w) \/ NextTile(w) \/ StoreSum(w) \/ Write(w)

Next == \E w \in Wids : Step(w)

Spec == Init /\ [][Next]_vars

-----------------------------------------------------------------------------
TypeOK ==
  /\ x_tile \in [Wids -> Contents] /\ weight_tile \in [Wids -> Contents]
  /\ q_storage \in [Wids -> Contents]
  /\ \A w \in Wids : /\ warp[w].k \in 0..MaxTiles
                     /\ Cardinality(warp[w].flying) <= 1
                     /\ warp[w].group \in 0..2

(***************************************************************************)
(* The products are of whole tiles, in order: the one weight_tile is never *)
(* converted over while a warp still multiplies it, nor q_storage read     *)
(* before its copy has landed.                                             *)
(***************************************************************************)
TilesInOrder ==
  \A w \in Wids : \A i \in DOMAIN warp[w].acc : warp[w].acc[i] = i - 1

(***************************************************************************)
(* At the end every output holds the complete sum of the warp that owns    *)
(* it: the two groups that share output_tile do not mix.                   *)
(***************************************************************************)
OutputsHaveTheirSums ==
  (\A w \in Wids : warp[w].pc = "done") =>
    \A g \in Groups, s \in Slots, w \in Wids :
      /\ y[g][s][w].owner = g * GROUP_WARPS + s
      /\ Len(y[g][s][w].acc) = kernel.tiles
=============================================================================
