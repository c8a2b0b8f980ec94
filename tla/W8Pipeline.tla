----------------------------- MODULE W8Pipeline -----------------------------
(***************************************************************************)
(* The tensor-core kernels of src/quant/gemmv/rwkv_w8a16.cu: each block    *)
(* multiplies its share of the K tiles, fetched ahead into a ring of       *)
(* STAGES shared-memory buffers by asynchronous copies, and adds the       *)
(* product to y, or to a scratch array when K is split between blocks.     *)
(*                                                                         *)
(* A warp copies its own part of a tile and reads all the parts.  Its      *)
(* copies land at any time, in any order, until cp.async.wait_group has    *)
(* waited for them; the other warps see them only behind a __syncthreads.  *)
(* Blocks share nothing but the scratch array, which they only add to      *)
(* (atomicAdd), so they run here one after the other, in any order.        *)
(***************************************************************************)
EXTENDS Integers, Sequences, FiniteSets

CONSTANTS
  Warps,                \* warps of a block (8 or 16 in the code)
  MaxTiles,             \* bound: tiles of 64 along K
  Kernels               \* the kernels launched, names of KernelTable

PipelineAssumption ==
  /\ Warps \in Nat \ {0} /\ MaxTiles \in Nat \ {0}
  /\ Kernels \subseteq {"mma", "bm64_bn128", "bm128"}

VARIABLES
  launch,               \* the kernel, its K tiles and gridDim.z
  phase,                \* what the stream runs
  todo,                 \* the blocks (blockIdx.z) that have not run
  block,                \* the block that runs
  warp,                 \* its warps
  stages,               \* x_shared and b_shared: the tile each part holds
  reduction,            \* the shared array of the final sum
  scratch,              \* the float workspace, of M * N values
  y                     \* the output

vars == <<launch, phase, todo, block, warp, stages, reduction, scratch, y>>

\* What tells the three kernels' loops apart.
w8a16_mma_kernel == [STAGES |-> 4, reduces |-> TRUE, zeroes |-> FALSE]
w8a16_mma_bm64_bn128_kernel == [STAGES |-> 3, reduces |-> FALSE, zeroes |-> TRUE]
w8a16_mma_bm128_kernel == [STAGES |-> 4, reduces |-> FALSE, zeroes |-> TRUE]

KernelTable ==
  [mma        |-> w8a16_mma_kernel,
   bm64_bn128 |-> w8a16_mma_bm64_bn128_kernel,
   bm128      |-> w8a16_mma_bm128_kernel]

Wids == 0..Warps - 1
STAGES == KernelTable[launch.kernel].STAGES
Stages == 0..STAGES - 1
reduces == KernelTable[launch.kernel].reduces

\* What a part of a stage may hold: a tile, zeros or what was there before.
Garbage == -1
Zeros == -2
Tiles == 0..launch.tiles - 1
Contents == Tiles \cup {Garbage, Zeros}

\* The outputs: one per warp, or one per step of the final sum.
Cells == Wids

(***************************************************************************)
(* A sum is the number of times each K tile was added, by the warp that    *)
(* multiplied it.                                                          *)
(***************************************************************************)
Sums == [Cells -> [Wids -> [Contents -> Nat]]]
Zero == [c \in Cells |-> [w \in Wids |-> [t \in Contents |-> 0]]]
Unset == [Zero EXCEPT ![0][0][Garbage] = 1]

Times(tiles, t) == Cardinality({i \in DOMAIN tiles : tiles[i] = t})

\* Adding the partial sums of all warps to a cell.
PlusAll(sum, c, partial) ==
  [sum EXCEPT ![c] =
     [w \in Wids |-> [t \in Contents |-> @[w][t] + Times(partial[w], t)]]]

-----------------------------------------------------------------------------

tiles_per_split == (launch.tiles + launch.split_k - 1) \div launch.split_k

local_k_begin == block * tiles_per_split

local_k_end ==
  LET e == local_k_begin + tiles_per_split
  IN  IF e < launch.tiles THEN e ELSE launch.tiles

k_tiles ==
  IF local_k_end > local_k_begin THEN local_k_end - local_k_begin ELSE 0

Fresh ==
  [pc |-> "prologue", barriers |-> 0, tile |-> 0, groups |-> 0, flying |-> {},
   read |-> <<>>, acc |-> <<>>, j |-> 0]

Init ==
  /\ launch \in {l \in [kernel : Kernels, tiles : 1..MaxTiles,
                        split_k : 1..MaxTiles] : l.split_k <= l.tiles}
  /\ phase = "launch"
  /\ todo = 0..launch.split_k - 1
  /\ block = 0
  /\ warp = [w \in Wids |-> Fresh]
  /\ stages = [s \in Stages |-> [w \in Wids |-> Garbage]]
  /\ reduction = [w \in Wids |-> [j |-> Garbage, acc |-> <<>>]]
  /\ scratch = Unset
  /\ y = Unset

\* w8a16_zero_f32_kernel, only when split_k > 1.
ZeroScratch ==
  /\ phase = "launch"
  /\ phase' = "blocks"
  /\ scratch' = IF launch.split_k > 1 THEN Zero ELSE scratch
  /\ UNCHANGED <<launch, todo, block, warp, stages, reduction, y>>

\* A block starts: shared memory holds whatever an earlier block left.
StartBlock ==
  /\ phase = "blocks"
  /\ \E z \in todo :
       /\ block' = z
       /\ todo' = todo \ {z}
  /\ warp' = [w \in Wids |-> Fresh]
  /\ phase' = "block"
  /\ UNCHANGED <<launch, stages, reduction, scratch, y>>

-----------------------------------------------------------------------------
(***************************************************************************)
(* fetch_stage(stage, tile, pred): one commit group.  The n-th group of a  *)
(* warp is tile n, for stage n % STAGES.                                   *)
(***************************************************************************)
StageOf(n) == n % STAGES

\* Stages that the groups in `gs` fill with zeros: they are past the last tile.
ZeroedBy(gs) ==
  IF KernelTable[launch.kernel].zeroes
  THEN {StageOf(n) : n \in {g \in gs : g >= k_tiles}} ELSE {}

fetch_stage(w, gs) ==
  stages' = [s \in Stages |->
               IF s \in ZeroedBy(gs) THEN [stages[s] EXCEPT ![w] = Zeros]
                                     ELSE stages[s]]

Committed(gs) == {g \in gs : g < k_tiles}

\* A copy lands.
Land(w, n) ==
  /\ n \in warp[w].flying
  /\ stages' = [stages EXCEPT ![StageOf(n)][w] = local_k_begin + n]
  /\ warp' = [warp EXCEPT ![w].flying = @ \ {n}]
  /\ UNCHANGED <<launch, phase, todo, block, reduction, scratch, y>>

\* __syncthreads: a warp goes on when all have come to the barrier it is at.
Synced(w) == \A v \in Wids : warp[v].barriers >= warp[w].barriers

-----------------------------------------------------------------------------
\* STAGES - 1 groups are fetched ahead.
Prologue(w) ==
  /\ warp[w].pc = "prologue"
  /\ LET gs == 0..STAGES - 2
     IN  /\ fetch_stage(w, gs)
         /\ warp' = [warp EXCEPT
              ![w].groups = STAGES - 1,
              ![w].flying = Committed(gs),
              ![w].pc = IF k_tiles > 0 THEN "wait" ELSE "drain"]
  /\ UNCHANGED <<launch, phase, todo, block, reduction, scratch, y>>

\* cp.async.wait_group STAGES - 2: all but the last STAGES - 2 groups landed.
WaitGroup(w) ==
  /\ warp[w].pc = "wait"
  /\ \A n \in warp[w].flying : n >= warp[w].groups - (STAGES - 2)
  /\ warp' = [warp EXCEPT ![w].pc = "fetch", ![w].barriers = @ + 1]
  /\ UNCHANGED <<launch, phase, todo, block, stages, reduction, scratch, y>>

\* fetch_stage((tile + STAGES - 1) % STAGES, ...), behind the barrier.
Fetch(w) ==
  /\ warp[w].pc = "fetch"
  /\ Synced(w)
  /\ LET gs == {warp[w].tile + STAGES - 1}
     IN  /\ fetch_stage(w, gs)
         /\ warp' = [warp EXCEPT ![w].groups = @ + 1,
                                 ![w].flying = @ \cup Committed(gs),
                                 ![w].pc = "mma"]
  /\ UNCHANGED <<launch, phase, todo, block, reduction, scratch, y>>

\* One part of the stage of this tile is read.
Read(w) ==
  /\ warp[w].pc = "mma"
  /\ Len(warp[w].read) < Warps
  /\ LET part == stages[StageOf(warp[w].tile)][Len(warp[w].read)]
     IN  warp' = [warp EXCEPT ![w].read = Append(@, part)]
  /\ UNCHANGED <<launch, phase, todo, block, stages, reduction, scratch, y>>

\* w8_mma: the parts are multiplied; they are one tile, or garbage.
Mma(w) ==
  /\ warp[w].pc = "mma"
  /\ Len(warp[w].read) = Warps
  /\ LET parts == {warp[w].read[i] : i \in 1..Warps}
         tile  == IF Cardinality(parts) = 1 THEN warp[w].read[1] ELSE Garbage
     IN  warp' = [warp EXCEPT ![w].acc = Append(@, tile), ![w].read = <<>>,
                              ![w].pc = "next", ![w].barriers = @ + 1]
  /\ UNCHANGED <<launch, phase, todo, block, stages, reduction, scratch, y>>

NextTile(w) ==
  /\ warp[w].pc = "next"
  /\ Synced(w)
  /\ warp' = [warp EXCEPT ![w].tile = @ + 1,
                ![w].pc = IF warp[w].tile + 1 < k_tiles THEN "wait" ELSE "drain"]
  /\ UNCHANGED <<launch, phase, todo, block, stages, reduction, scratch, y>>

\* cp.async.wait_group 0 and the barrier behind the loop.
Drain(w) ==
  /\ warp[w].pc = "drain"
  /\ warp[w].flying = {}
  /\ warp' = [warp EXCEPT ![w].pc = IF reduces THEN "reduce" ELSE "out",
                          ![w].barriers = @ + 1]
  /\ UNCHANGED <<launch, phase, todo, block, stages, reduction, scratch, y>>

\* The stores: atomicAdd to scratch, or y = sum * scale.
Store(sum, c) ==
  IF launch.split_k > 1
  THEN scratch' = PlusAll(scratch, c, sum) /\ y' = y
  ELSE y' = PlusAll([y EXCEPT ![c] = Zero[c]], c, sum) /\ scratch' = scratch

\* bm64_bn128 and bm128: a warp owns its outputs.
Out(w) ==
  /\ warp[w].pc = "out"
  /\ Synced(w)
  /\ Store([v \in Wids |-> IF v = w THEN warp[w].acc ELSE <<>>], w)
  /\ warp' = [warp EXCEPT ![w].pc = "done"]
  /\ UNCHANGED <<launch, phase, todo, block, stages, reduction>>

\* mma: reduction[warp_slot] = acc[m][j], one j at a time.
ReduceStore(w) ==
  /\ warp[w].pc = "reduce"
  /\ Synced(w)
  /\ reduction' = [reduction EXCEPT
                     ![w] = [j |-> warp[w].j, acc |-> warp[w].acc]]
  /\ warp' = [warp EXCEPT ![w].pc = "sum", ![w].barriers = @ + 1]
  /\ UNCHANGED <<launch, phase, todo, block, stages, scratch, y>>

\* Mutant: the barrier behind the sum is inside if (wk == 0).
ReduceSumBarrierInside(w) ==
  /\ warp[w].pc = "sum"
  /\ Synced(w)
  /\ IF w = 0
     THEN Store([v \in Wids |-> IF reduction[v].j = warp[w].j
                                THEN reduction[v].acc ELSE <<Garbage>>],
                warp[w].j)
     ELSE UNCHANGED <<scratch, y>>
  /\ warp' = [warp EXCEPT
       ![w].j = @ + 1,
       ![w].barriers = IF w = 0 THEN @ + 1 ELSE @,
       ![w].pc = IF warp[w].j + 1 \in Cells THEN "reduce" ELSE "done"]
  /\ UNCHANGED <<launch, phase, todo, block, stages, reduction>>

\* if (wk == 0) the four parts are summed and stored; a barrier for all.
ReduceSum(w) ==
  /\ warp[w].pc = "sum"
  /\ Synced(w)
  /\ IF w = 0
     THEN Store([v \in Wids |-> IF reduction[v].j = warp[w].j
                                THEN reduction[v].acc ELSE <<Garbage>>],
                warp[w].j)
     ELSE UNCHANGED <<scratch, y>>
  /\ warp' = [warp EXCEPT
       ![w].j = @ + 1,
       ![w].barriers = @ + 1,
       ![w].pc = IF warp[w].j + 1 \in Cells THEN "reduce" ELSE "done"]
  /\ UNCHANGED <<launch, phase, todo, block, stages, reduction>>

\* The block ends; after the last one comes w8a16_scale_epilogue_kernel.
EndBlock ==
  /\ phase = "block"
  /\ \A w \in Wids : warp[w].pc = "done"
  /\ IF todo # {} THEN phase' = "blocks" /\ y' = y
     ELSE /\ phase' = "done"
          /\ y' = IF launch.split_k > 1 THEN scratch ELSE y
  /\ UNCHANGED <<launch, todo, block, warp, stages, reduction, scratch>>

Step(w) ==
  /\ phase = "block"
  /\ \/ \E n \in warp[w].flying : Land(w, n)
     \/ Prologue(w) \/ WaitGroup(w) \/ Fetch(w) \/ Read(w) \/ Mma(w)
     \/ NextTile(w) \/ Drain(w) \/ Out(w) \/ ReduceStore(w) \/ ReduceSum(w)

Next == ZeroScratch \/ StartBlock \/ EndBlock \/ \E w \in Wids : Step(w)

(***************************************************************************)
(* Fairness: the stream runs its kernels, and the warps of a resident      *)
(* block and their copies all make progress.                               *)
(***************************************************************************)
Spec ==
  /\ Init /\ [][Next]_vars
  /\ WF_vars(ZeroScratch \/ StartBlock \/ EndBlock)
  /\ \A w \in Wids : WF_vars(Step(w))

-----------------------------------------------------------------------------
TypeOK ==
  /\ phase \in {"launch", "blocks", "block", "done"}
  /\ todo \subseteq 0..launch.split_k - 1
  /\ \A s \in Stages : stages[s] \in [Wids -> Contents]
  /\ \A w \in Wids : /\ warp[w].tile \in 0..MaxTiles
                     /\ warp[w].flying \subseteq 0..MaxTiles - 1
                     /\ Len(warp[w].read) <= Warps
  /\ scratch \in Sums /\ y \in Sums

(***************************************************************************)
(* A warp multiplies the tiles of its block in order, each one whole:      *)
(* wait_group, the barrier and the stage arithmetic keep a copy that is    *)
(* late, or that is already fetching a later tile, out of what it reads.   *)
(***************************************************************************)
MmaReadsItsTile ==
  \A w \in Wids : \A i \in DOMAIN warp[w].acc :
    phase = "block" => warp[w].acc[i] = local_k_begin + i - 1

(***************************************************************************)
(* When the stream has passed the launch, each output is the sum of every  *)
(* K tile exactly once, whatever split_k is, with nothing of what shared   *)
(* memory, the workspace or the output held before.                        *)
(***************************************************************************)
ProductIsComplete ==
  phase = "done" =>
    \A c \in Cells :
      \A w \in (IF reduces THEN Wids ELSE {c}) : \A t \in Contents :
        y[c][w][t] = IF t \in Tiles THEN 1 ELSE 0

=============================================================================
