---------------------------- MODULE LinearKernels ----------------------------
(***************************************************************************)
(* The matrix-vector kernels of src/cuda/rwkv7_v3a_ops.cu and the launch   *)
(* functions that choose among them.  Every kernel has the same shape: a   *)
(* block computes a tile of y = act(x) * w^T, its threads walk over K with *)
(* a stride, the warps add up.  A kernel is the record of what it does     *)
(* within that shape (how wide a load is, whether the odd last element is  *)
(* added, which bounds it tests), and Blocks interprets the record.        *)
(*                                                                         *)
(* Buffers are flat as in the code, numbers are integers, and tanh, the    *)
(* sigmoid and the residual gate are functions that tell their arguments   *)
(* apart.  The blocks of one launch read nothing another one writes, so    *)
(* a launch is one step.                                                   *)
(***************************************************************************)
EXTENDS WarpSums

CONSTANTS
  Ms, Ks, Ns,           \* rows, inner dimensions and outputs of a call
  Ranks,                \* the ranks (w, a, g, v) of the low-rank projections
  ShortK, WideN, LongK, \* 512, 1024, 1024: the limits rwkv7_v3a_linear_t_f16_launch tests
  LowrankInRowsT, LowrankOutRowsT, LowrankFusedMinC  \* kLowrankInRowsT = 7, ...

ShapesAssumption ==
  /\ Ms \cup Ks \cup Ns \subseteq Nat
  /\ \A r \in Ranks : r \in [1..4 -> Nat \ {0}]

VARIABLES
  call,                 \* the launch made last
  refused,              \* it threw std::invalid_argument
  out,                  \* the stores it made: [block, buf, addr, val]
  faults                \* loads outside a buffer or not aligned to their width

vars == <<call, refused, out, faults>>

-----------------------------------------------------------------------------
\* Buffers: what they hold and how many elements they have.

Value(buf, i) == ((i * 7 + buf * 5) % 9) - 4

Tanh(v) == 2 * v + 1
Sigmoid(v) == 3 * v + 2

apply_act(act, v) ==
  CASE act = "tanh" -> Tanh(v) [] act = "sigmoid" -> Sigmoid(v) [] OTHER -> v

\* v + (v_first - v) * sigmoid(v0 + sum): the gate of the value residual.
Gate(row, col, N, sum) ==
  LET v  == Value(20, row * N + col)
      vf == Value(21, row * N + col)
  IN  v + (vf - v) * Sigmoid(Value(22, col) + sum)

\* One product: buffers x [M,K], w [N,K] and y [M,N], its activation and gate.
Product(xb, wb, yb, K, N, act, gate) ==
  [x |-> xb, w |-> wb, y |-> yb, K |-> K, N |-> N, act |-> act, gate |-> gate]

Plain(K, N) == Product(1, 2, 3, K, N, "none", FALSE)

-----------------------------------------------------------------------------
\* What distinguishes the kernels.
\*   width    elements a thread loads at a time: 1, a pair or two pairs
\*   cast     it casts the address to half2*, which must be aligned
\*   tail     thread 0 adds the last element when K is odd
\*   rowTile, outTile   the tile of a block
\*   guarded  it tests m < M and n < N
\*   reduce   block_sum_t, or a loop over partial[w] by thread 0

linear_t_f16_kernel(threads) ==
  [threads |-> Scaled(threads), width |-> 2, cast |-> FALSE, tail |-> TRUE,
   rowTile |-> 1, outTile |-> 1, guarded |-> TRUE, reduce |-> "block_sum"]

linear_t_f16_ntile_kernel(threads, OutTile) ==
  [threads |-> Scaled(threads), width |-> 2, cast |-> FALSE, tail |-> TRUE,
   rowTile |-> 1, outTile |-> OutTile, guarded |-> TRUE, reduce |-> "partial"]

linear_t_f16_ntile_scalar_kernel(threads, OutTile) ==
  [threads |-> Scaled(threads), width |-> 1, cast |-> FALSE, tail |-> FALSE,
   rowTile |-> 1, outTile |-> OutTile, guarded |-> TRUE, reduce |-> "partial"]

linear_orig_rows_f16_kernel(threads, RowTile, OutTile) ==
  [threads |-> Scaled(threads), width |-> 2, cast |-> FALSE, tail |-> TRUE,
   rowTile |-> RowTile, outTile |-> OutTile, guarded |-> TRUE, reduce |-> "partial"]

linear_orig_row1_exact_f16_kernel(threads, OutTile) ==
  [threads |-> Scaled(threads), width |-> 2, cast |-> TRUE, tail |-> FALSE,
   rowTile |-> 1, outTile |-> OutTile, guarded |-> FALSE, reduce |-> "partial"]

linear_orig_row1_exact4_f16_kernel(threads, OutTile) ==
  [threads |-> Scaled(threads), width |-> 4, cast |-> TRUE, tail |-> FALSE,
   rowTile |-> 1, outTile |-> OutTile, guarded |-> FALSE, reduce |-> "partial"]

linear_orig_row2_exact_f16_kernel(threads, OutTile) ==
  [threads |-> Scaled(threads), width |-> 2, cast |-> TRUE, tail |-> FALSE,
   rowTile |-> 2, outTile |-> OutTile, guarded |-> FALSE, reduce |-> "partial"]

linear_orig_row2_exact4_f16_kernel(threads, OutTile) ==
  [threads |-> Scaled(threads), width |-> 4, cast |-> TRUE, tail |-> FALSE,
   rowTile |-> 2, outTile |-> OutTile, guarded |-> FALSE, reduce |-> "partial"]

linear_t_act_f16_ntile_scalar_kernel(threads, OutTile) ==
  [threads |-> Scaled(threads), width |-> 1, cast |-> FALSE, tail |-> FALSE,
   rowTile |-> 1, outTile |-> OutTile, guarded |-> TRUE, reduce |-> "partial"]

linear_t_act_f16_ntile_kernel(threads, OutTile) ==
  [threads |-> Scaled(threads), width |-> 2, cast |-> FALSE, tail |-> TRUE,
   rowTile |-> 1, outTile |-> OutTile, guarded |-> TRUE, reduce |-> "partial"]

linear_t_vres_f16_ntile_scalar_kernel(threads, OutTile) ==
  [threads |-> Scaled(threads), width |-> 1, cast |-> FALSE, tail |-> FALSE,
   rowTile |-> 1, outTile |-> OutTile, guarded |-> TRUE, reduce |-> "partial"]

linear_t_vres_f16_ntile_kernel(threads, OutTile) ==
  [threads |-> Scaled(threads), width |-> 2, cast |-> FALSE, tail |-> TRUE,
   rowTile |-> 1, outTile |-> OutTile, guarded |-> TRUE, reduce |-> "partial"]

\* The fused low-rank kernels do three or four products in one grid: the
\* product of a block is the one of its blockIdx.z (the kernel's `group`).
RankIn ==
  [threads |-> Scaled(256), width |-> 2, cast |-> FALSE, tail |-> TRUE,
   rowTile |-> 1, outTile |-> 1, guarded |-> TRUE, reduce |-> "block_sum"]

RankOut ==
  [threads |-> Scaled(128), width |-> 1, cast |-> FALSE, tail |-> FALSE,
   rowTile |-> 1, outTile |-> 4, guarded |-> TRUE, reduce |-> "partial"]

\* x, w and y of each group, and its rank R.
linear_wag_rank_in_f16_kernel(K, r) ==
  [g \in 1..3 |-> Product(3 * g, 3 * g + 1, 3 * g + 2, K, r[g], "none", FALSE)]

linear_wagv_rank_in_f16_kernel(K, r) ==
  [g \in 1..4 |-> Product(3 * g, 3 * g + 1, 3 * g + 2, K, r[g], "none", FALSE)]

\* Group 0 is w (tanh), 1 is a, 2 is g (sigmoid), 3 the gated v residual.
GroupAct == <<"tanh", "none", "sigmoid", "none">>

linear_wag_rank_out_f16_kernel(C, r) ==
  [g \in 1..3 |-> Product(3 * g, 3 * g + 1, 3 * g + 2, r[g], C, GroupAct[g], FALSE)]

linear_wagv_rank_out_f16_kernel(C, r) ==
  [g \in 1..4 |-> Product(3 * g, 3 * g + 1, 3 * g + 2, r[g], C, GroupAct[g], g = 4)]

-----------------------------------------------------------------------------
\* What a block does.

\* The loads of a thread begin at width * i for i = t, t + threads, ... .
Steps(kn, K) == IF kn.width = 4 THEN CeilDiv(K, 4) ELSE K \div kn.width

ThreadLoop(kn, t, K) ==
  {kn.width * (t + j * kn.threads) : j \in 0..((Steps(kn, K) - 1 - t) \div kn.threads)}

\* The accumulator of thread t for the output (m, n).
ThreadSum(kn, p, m, n, t) ==
  LET Term(k) == apply_act(p.act, Value(p.x, m * p.K + k)) * Value(p.w, n * p.K + k)
      Wide(k) == MapThenSumSet(LAMBDA e : Term(k + e), 0..kn.width - 1)
  IN  MapThenSumSet(Wide, ThreadLoop(kn, t, p.K))
        + (IF kn.tail /\ p.K % 2 = 1 /\ t = 0 THEN Term(p.K - 1) ELSE 0)

TileSum(kn, p, m, n) ==
  LET v == [t \in 0..kn.threads - 1 |-> ThreadSum(kn, p, m, n, t)]
  IN  IF kn.reduce = "block_sum" THEN block_sum(kn.threads, v)
                                 ELSE partial_sum(kn.threads, v)

\* The outputs of a block, behind the tests the kernel makes.
Tile(kn, p, M, b) ==
  {mn \in (b.y * kn.rowTile .. (b.y + 1) * kn.rowTile - 1)
            \X (b.x * kn.outTile .. (b.x + 1) * kn.outTile - 1) :
     kn.guarded => mn[1] < M /\ mn[2] < p.N}

\* A load of x or w outside its buffer, or through a half2* that is not aligned.
LoadFault(kn, p, M, m, n) ==
  \/ m >= M \/ n >= p.N
  \/ \E i \in 0..Steps(kn, p.K) - 1 :
       LET k == i * kn.width
       IN  \/ k + kn.width > p.K
           \/ kn.cast /\ ((m * p.K + k) % 2 = 1 \/ (n * p.K + k) % 2 = 1)

Stores(kn, p, M, b) ==
  {[block |-> b, buf |-> p.y, addr |-> mn[1] * p.N + mn[2],
    val |-> IF p.gate THEN Gate(mn[1], mn[2], p.N, TileSum(kn, p, mn[1], mn[2]))
                      ELSE TileSum(kn, p, mn[1], mn[2])] : mn \in Tile(kn, p, M, b)}

\* kernel<<<dim3(gx, gy, Len(products)), threads>>>(...)
Launch(kn, products, M, gx, gy) ==
  LET blocks == [x : 0..gx - 1, y : 0..gy - 1, z : DOMAIN products]
  IN  /\ refused' = FALSE
      /\ out' = UNION {Stores(kn, products[b.z], M, b) : b \in blocks}
      /\ faults' = UNION {{<<b, mn>> : mn \in
                             {tn \in Tile(kn, products[b.z], M, b) :
                                LoadFault(kn, products[b.z], M, tn[1], tn[2])}} : b \in blocks}

Refuse == refused' = TRUE /\ out' = {} /\ faults' = {}

\* The library's column-major product: c[i + j * N] is the inner product of
\* row i of op(a) and column j of b, a column of K elements.
cublasGemmEx(op, layout, lda, p, M) ==
  LET Stored(a) == IF layout = "NK" THEN Value(p.w, a)
                                    ELSE Value(p.w, (a % p.N) * p.K + (a \div p.N))
      A(i, k)   == Stored(IF op = "T" THEN k + i * lda ELSE i + k * lda)
      Sum(i, j) == MapThenSumSet(LAMBDA k : A(i, k) * apply_act(p.act, Value(p.x, k + j * p.K)),
                                 0..p.K - 1)
  IN  /\ refused' = FALSE /\ faults' = {}
      /\ out' = IF 0 \in {M, p.N, p.K} THEN {}
                ELSE {[block |-> [x |-> ij[1], y |-> ij[2], z |-> 1], buf |-> p.y,
                       addr |-> ij[1] + ij[2] * p.N, val |-> Sum(ij[1], ij[2])] :
                        ij \in (0..p.N - 1) \X (0..M - 1)}

-----------------------------------------------------------------------------
\* The tiles for which the linear kernels are instantiated; the launch functions
\* throw std::invalid_argument on any other.

\* linear_orig_rows_f16_kernel with 128 threads: <<row_tile, out_tile>>
RowsTiles ==
  ({1} \X {2, 4, 8, 16}) \cup ({2, 3, 4} \X {2, 4, 8}) \cup ({8} \X {2, 4})
    \cup ({16} \X {1, 2, 4})

\* The same with other numbers of threads: <<threads, row_tile, out_tile>>
RowsCfgTiles ==
  {<<64, 1, 4>>, <<64, 1, 8>>, <<128, 1, 8>>, <<256, 1, 1>>, <<64, 2, 2>>}
    \cup ({32, 64, 96} \X {3, 4} \X {4})
    \cup ({32, 64} \X {3, 4} \X {8}) \cup ({32, 64} \X {2, 8} \X {4})

\* The kernels for exactly one and exactly two rows:
\* <<M, threads, out_tile, use4>>
ExactTiles ==
  {<<1, 128, 2, FALSE>>, <<1, 128, 2, TRUE>>,
   <<2, 64, 2, TRUE>>, <<2, 256, 1, TRUE>>, <<2, 128, 2, FALSE>>}

\* The exact kernels test no bounds, their launch does.
ExactShape(OutTile, use4, p) ==
  p.N > 0 /\ p.K > 0 /\ p.N % OutTile = 0 /\ p.K % (IF use4 THEN 4 ELSE 2) = 0

-----------------------------------------------------------------------------
\* The launch functions.

Call(M, products) == call' = [M |-> M, products |-> products]

\* y = x * weight_t^T with the kernel that suits the shape.
linear_t_f16_launch(M, p) ==
  IF p.K <= ShortK /\ p.N >= WideN /\ M <= 4
  THEN IF M = 1
       THEN Launch(linear_t_f16_ntile_scalar_kernel(128, 2), <<p>>, M, CeilDiv(p.N, 2), M)
       ELSE Launch(linear_t_f16_ntile_kernel(128, 4), <<p>>, M, CeilDiv(p.N, 4), M)
  ELSE Launch(linear_t_f16_kernel(IF p.K >= LongK THEN 256 ELSE 128), <<p>>, M, p.N, M)

\* weight is row-major [K, N].
linear_f16_launch(M, p) == cublasGemmEx("N", "KN", p.N, p, M)

\* weight_orig is row-major [N, K].
linear_f16_orig_launch(M, p) == cublasGemmEx("T", "NK", p.K, p, M)

\* The same through cublasLt, whose heuristic offers `returned` algorithms; the
\* one the table asked for may not be among them.
linear_f16_orig_lt_cfg_launch(M, p, algo, returned) ==
  LET selected == IF algo >= 0 /\ algo < returned THEN algo ELSE 0
  IN  /\ returned > 0
      /\ selected < returned
      /\ cublasGemmEx("T", "NK", p.K, p, M)

linear_orig_rows_launch_impl(threads, RowTile, OutTile, M, p) ==
  Launch(linear_orig_rows_f16_kernel(threads, RowTile, OutTile), <<p>>, M,
         CeilDiv(p.N, OutTile), CeilDiv(M, RowTile))

linear_orig_rows_f16_launch(M, p, row_tile, out_tile) ==
  IF <<row_tile, out_tile>> \in RowsTiles
  THEN linear_orig_rows_launch_impl(128, row_tile, out_tile, M, p)
  ELSE Refuse

linear_orig_rows_cfg_f16_launch(M, p, threads, row_tile, out_tile) ==
  IF <<threads, row_tile, out_tile>> \in RowsCfgTiles
  THEN linear_orig_rows_launch_impl(threads, row_tile, out_tile, M, p)
  ELSE Refuse

linear_orig_row1_exact_launch_impl(threads, OutTile, use4, p) ==
  IF ~ ExactShape(OutTile, use4, p) THEN Refuse
  ELSE Launch(IF use4 THEN linear_orig_row1_exact4_f16_kernel(threads, OutTile)
                      ELSE linear_orig_row1_exact_f16_kernel(threads, OutTile),
              <<p>>, 1, p.N \div OutTile, 1)

linear_orig_row2_exact_launch_impl(threads, OutTile, use4, p) ==
  IF ~ ExactShape(OutTile, use4, p) THEN Refuse
  ELSE Launch(IF use4 THEN linear_orig_row2_exact4_f16_kernel(threads, OutTile)
                      ELSE linear_orig_row2_exact_f16_kernel(threads, OutTile),
              <<p>>, 2, p.N \div OutTile, 1)

linear_orig_rows_exact_f16_launch(M, p, threads, out_tile, use4) ==
  CASE <<M, threads, out_tile, use4>> \notin ExactTiles -> Refuse
    [] M = 1 -> linear_orig_row1_exact_launch_impl(threads, out_tile, use4, p)
    [] OTHER -> linear_orig_row2_exact_launch_impl(threads, out_tile, use4, p)

linear_t_act_f16_launch(M, p) ==
  IF M = 1
  THEN Launch(linear_t_act_f16_ntile_scalar_kernel(128, 2), <<p>>, M, CeilDiv(p.N, 2), M)
  ELSE Launch(linear_t_act_f16_ntile_kernel(128, 4), <<p>>, M, CeilDiv(p.N, 4), M)

linear_t_vres_f16_launch(M, p) ==
  IF M = 1
  THEN Launch(linear_t_vres_f16_ntile_scalar_kernel(128, 2), <<p>>, M, CeilDiv(p.N, 2), M)
  ELSE Launch(linear_t_vres_f16_ntile_kernel(128, 4), <<p>>, M, CeilDiv(p.N, 4), M)

linear_rank_in_f16_launch(M, products) ==
  Launch(RankIn, products, M, Max({products[g].N : g \in DOMAIN products}), M)

linear_rank_out_f16_launch(M, products, C) ==
  Launch(RankOut, products, M, CeilDiv(C, 4), M)

\* The three functions of src/src/backend/rwkv7_fast_v4.cu that choose between
\* the transposed copy of a low-rank matrix and the matrix itself.
linear_rank_in_launch(M, p) ==
  IF M <= LowrankInRowsT THEN linear_t_f16_launch(M, p) ELSE linear_f16_launch(M, p)

linear_rank_out_launch(M, p) ==
  IF M <= LowrankOutRowsT /\ p.N >= LowrankFusedMinC
  THEN linear_t_f16_launch(M, p) ELSE linear_f16_launch(M, p)

\* Without the fused kernel the activation goes to act_scratch first.
linear_rank_out_act_launch(M, p) ==
  IF M <= LowrankOutRowsT /\ p.N >= LowrankFusedMinC
  THEN linear_t_act_f16_launch(M, p) ELSE linear_f16_launch(M, p)

-----------------------------------------------------------------------------
Init ==
  /\ call = [M |-> 0, products |-> <<>>]
  /\ refused = FALSE
  /\ out = {}
  /\ faults = {}

\* One call of a launch function with one product.
Single(M, p, L) == Call(M, <<p>>) /\ L

Transposed(M, K, N) ==
  \/ Single(M, Plain(K, N), linear_t_f16_launch(M, Plain(K, N)))
  \/ Single(M, Plain(K, N), linear_rank_in_launch(M, Plain(K, N)))
  \/ Single(M, Plain(K, N), linear_rank_out_launch(M, Plain(K, N)))
  \/ \E act \in {"tanh", "sigmoid"} :
       LET p == Product(1, 2, 3, K, N, act, FALSE)
       IN  \/ Single(M, p, linear_t_act_f16_launch(M, p))
           \/ Single(M, p, linear_rank_out_act_launch(M, p))
  \/ LET p == Product(1, 2, 3, K, N, "none", TRUE)
     IN  Single(M, p, linear_t_vres_f16_launch(M, p))

Original(M, K, N) ==
  LET p == Plain(K, N)
  IN  \/ Single(M, p, linear_f16_orig_launch(M, p))
      \/ \E algo \in {0, 2}, returned \in 1..3 :
           Single(M, p, linear_f16_orig_lt_cfg_launch(M, p, algo, returned))
      \/ \E tile \in RowsTiles \cup {<<2, 16>>} :
           Single(M, p, linear_orig_rows_f16_launch(M, p, tile[1], tile[2]))
      \/ \E tile \in RowsCfgTiles \cup {<<96, 2, 4>>} :
           Single(M, p, linear_orig_rows_cfg_f16_launch(M, p, tile[1], tile[2], tile[3]))
      \/ \E threads \in {64, 128, 256}, out_tile \in {1, 2}, use4 \in BOOLEAN :
           Single(M, p, linear_orig_rows_exact_f16_launch(M, p, threads, out_tile, use4))

Fused(M, C, r) ==
  \/ LET ps == linear_wag_rank_in_f16_kernel(C, r)
     IN  Call(M, ps) /\ linear_rank_in_f16_launch(M, ps)
  \/ LET ps == linear_wagv_rank_in_f16_kernel(C, r)
     IN  Call(M, ps) /\ linear_rank_in_f16_launch(M, ps)
  \/ LET ps == linear_wag_rank_out_f16_kernel(C, r)
     IN  Call(M, ps) /\ linear_rank_out_f16_launch(M, ps, C)
  \/ LET ps == linear_wagv_rank_out_f16_kernel(C, r)
     IN  Call(M, ps) /\ linear_rank_out_f16_launch(M, ps, C)

Next ==
  /\ call.M = 0
  /\ \E M \in Ms :
       \/ \E K \in Ks, N \in Ns : Transposed(M, K, N) \/ Original(M, K, N)
       \/ \E C \in Ns, r \in Ranks : Fused(M, C, r)

Spec == Init /\ [][Next]_vars

-----------------------------------------------------------------------------
\* What the call asks for: every element of every y is the whole inner product.
Expected ==
  UNION {LET p == call.products[g]
             Dot(m, n) ==
               MapThenSumSet(LAMBDA k : apply_act(p.act, Value(p.x, m * p.K + k))
                                          * Value(p.w, n * p.K + k), 0..p.K - 1)
         IN  {<<p.y, mn[1] * p.N + mn[2],
                IF p.gate THEN Gate(mn[1], mn[2], p.N, Dot(mn[1], mn[2]))
                          ELSE Dot(mn[1], mn[2])>> :
              mn \in (0..call.M - 1) \X (0..p.N - 1)} : g \in DOMAIN call.products}

\* Whatever kernel and tile the launch functions choose for a shape, y is the
\* whole product and nothing else is stored: no element of K is skipped or
\* added twice, no output is missing, and none lies outside y.
ComputesProduct ==
  ~ refused => {<<s.buf, s.addr, s.val>> : s \in out} = Expected

\* No output is stored by two blocks.
OneBlockPerOutput ==
  \A s, u \in out : s.buf = u.buf /\ s.addr = u.addr => s.block = u.block

\* No thread loads beyond x or w, or a pair from an odd address through a half2*.
LoadsAreLegal == faults = {}

=============================================================================
