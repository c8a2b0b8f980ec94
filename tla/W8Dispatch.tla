----------------------------- MODULE W8Dispatch -----------------------------
(***************************************************************************)
(* rwkv7_w8a16_linear_launch of src/quant/gemmv/rwkv_w8a16.cu: which       *)
(* kernel multiplies M rows by an int8 weight of K by N, with which tile,  *)
(* how much shared memory and how many splits of K.                        *)
(***************************************************************************)
EXTENDS Integers, FiniteSets, FiniteSetsExt

CONSTANTS
  Ms, Ks, Ns,           \* sizes of the calls
  Majors,               \* compute capabilities (major version)
  SmCounts,             \* multiprocessors of the device
  Tuned,                \* splits the tuning table may hold (0: none)
  Forced                \* force_split_k of a call (0: not forced)

DispatchAssumption ==
  /\ Ms \subseteq Nat /\ Ks \subseteq Nat /\ Ns \subseteq Nat
  /\ Majors \subseteq Nat /\ SmCounts \subseteq Nat
  /\ Tuned \subseteq 0..4 /\ Forced \subseteq Nat

VARIABLES
  call,                 \* the arguments
  launch                \* the kernel launched, or what happened instead

vars == <<call, launch>>

Layouts == {"NK", "KN", "PackedNK"}

\* lt_workspace of run_backend_forward, and the one of the tuner.
workspace_bytes == 128 * 1024 * 1024

CeilDiv(a, b) == (a + b - 1) \div b

Nothing == [kernel |-> "none", bm |-> 0, bn |-> 0, bk |-> 0, static |-> 0,
            dynamic |-> 0, split_k |-> 0]

-----------------------------------------------------------------------------

\* The tuning bucket of M, 0 above 128.
tune_m_bucket(M) ==
  LET fits == {b \in {8, 16, 32, 64, 128} : M <= b}
  IN  IF fits = {} THEN 0 ELSE Min(fits)

lookup_tuned_split(c) == IF tune_m_bucket(c.M) = 0 THEN 0 ELSE c.tuned

\* Doubled while the grid is under two blocks per SM and a split has 4 tiles.
GridSplit(c, bm, bn) ==
  LET blocks   == (c.N \div bn) * CeilDiv(c.M, bm)
      sms      == Max({1, c.sm_count})
      Grows(s) == blocks * s < 2 * sms /\ s * 2 <= (c.K \div 64) \div 4
  IN  2^Min({i \in 0..16 : ~Grows(2^i)})

ChosenSplit(c, bm, bn) ==
  CASE c.force_split_k > 0                -> c.force_split_k
    [] lookup_tuned_split(c) > 0          -> lookup_tuned_split(c)
    [] workspace_bytes < c.M * c.N * 4    -> 1
    [] OTHER                              -> GridSplit(c, bm, bn)

\* At most one split per tile of K.
split_k(c, bm, bn) == Min({ChosenSplit(c, bm, bn), c.K \div 64})

(***************************************************************************)
(* The three pipelined kernels: a ring of stages of a BM by 64 half tile   *)
(* and a 64 by BN int8 tile in dynamic shared memory.                      *)
(***************************************************************************)
Pipelined(kernel, c, bm, bn, stages, extra) ==
  LET split == split_k(c, bm, bn)
  IN  IF split > 1 /\ workspace_bytes < c.M * c.N * 4
      THEN [Nothing EXCEPT !.kernel = "exit"]
      ELSE [kernel |-> kernel, bm |-> bm, bn |-> bn, bk |-> 64, static |-> 0,
            dynamic |-> stages * (bm * 64 * 2 + 64 * bn) + extra,
            split_k |-> split]

launch_mma_bm64_bn128(c) == Pipelined("bm64_bn128", c, 64, 128, 3, 0)
launch_mma_bm128(c, bn) == Pipelined("bm128", c, 128, bn, 4, 0)
launch_mma_gemm(c, bm) == Pipelined("mma", c, bm, 64, 4, 8 * 32 * 4 * 4)

\* w8a16_gemm_kernel: its four shared arrays.
launch_gemm(bm, bn, bk, async) ==
  [kernel  |-> "gemm", bm |-> bm, bn |-> bn, bk |-> bk, dynamic |-> 0,
   static  |-> bm * bk * 2 + bn * bk * 2
               + bm * (IF bn = 128 THEN 64 ELSE bn) * 4
               + (IF async THEN bn * bk ELSE 0),
   split_k |-> 1]

\* w8a16_gemv_kernel<128, 4, MaxM>, for up to four rows.
gemv(max_m) ==
  [kernel |-> "gemv", bm |-> max_m, bn |-> 4, bk |-> 16, dynamic |-> 0,
   static |-> (128 \div 32) * max_m * 4 * 4, split_k |-> 1]

-----------------------------------------------------------------------------

\* Compute capability 8 and a PackedNK or KN weight.
TensorCores(c) ==
  LET wide == c.N % 128 = 0
  IN  CASE c.M = 32 /\ wide    -> launch_mma_bm64_bn128(c)
        [] c.M <= 16           -> launch_mma_gemm(c, 16)
        [] c.M <= 32           -> launch_mma_gemm(c, 32)
        [] c.M <= 64 /\ wide   -> launch_mma_bm64_bn128(c)
        [] c.M <= 64           -> launch_mma_gemm(c, 64)
        [] c.M <= 128 /\ wide  -> launch_mma_bm128(c, 128)
        [] c.M <= 128          -> launch_mma_bm128(c, 64)
        [] wide                -> launch_mma_bm128(c, 128)
        [] OTHER               -> launch_mma_gemm(c, 64)

\* NK with at most four rows.
Gemv(c) == gemv(CASE c.M = 1 -> 1 [] c.M = 2 -> 2 [] OTHER -> 4)

\* N <= 4096 or N % 128 # 0.
Narrow(c) ==
  LET deep == c.layout = "NK" /\ c.K >= 4096 /\ c.K % 128 = 0
      bm   == CASE c.M <= 16 -> 16 [] c.M <= 32 -> 32 [] OTHER -> 64
  IN  IF deep THEN launch_gemm(bm, 64, 128, FALSE)
              ELSE launch_gemm(bm, 64, 64, TRUE)

\* Wider N; a KN weight with a deep K has tiles of at most 32 rows.
Wide(c) ==
  LET deep == c.layout = "KN" /\ c.K >= 8192 /\ c.K % 128 = 0
      bm   == CASE c.M <= 16 -> 16 [] c.M <= 32 \/ deep -> 32 [] OTHER -> 64
  IN  IF deep THEN launch_gemm(bm, 128, 128, FALSE)
              ELSE launch_gemm(bm, 128, 64, c.layout = "NK")

\* The argument checks that throw.
Refused(c) ==
  \/ c.N % 64 # 0 \/ c.K % 64 # 0
  \/ c.N \div 64 > 65535 \/ CeilDiv(c.M, 16) > 65535 \/ c.force_split_k > 65535

Chosen(c) ==
  CASE c.M = 0 \/ c.K = 0 \/ c.N = 0             -> Nothing
    [] Refused(c)                                -> [Nothing EXCEPT !.kernel = "throw"]
    [] c.major >= 8 /\ c.layout # "NK"           -> TensorCores(c)
    [] c.major < 8 /\ c.layout = "PackedNK"      -> [Nothing EXCEPT !.kernel = "exit"]
    [] c.layout = "NK" /\ c.M <= 4               -> Gemv(c)
    [] c.N <= 4096 \/ c.N % 128 # 0              -> Narrow(c)
    [] OTHER                                     -> Wide(c)

-----------------------------------------------------------------------------
(***************************************************************************)
(* The calls of linear_orig_layout_launch, run_backend_forward and the     *)
(* tuner: weights are packed only on devices of major version 8 or more,   *)
(* and a split is forced only by the tuner, whose M is at most 128.        *)
(***************************************************************************)
Calls ==
  {c \in [M : Ms, K : Ks, N : Ns, layout : Layouts, major : Majors,
          sm_count : SmCounts, tuned : Tuned, force_split_k : Forced] :
     /\ c.layout = "PackedNK" => c.major >= 8
     /\ c.force_split_k > 0 => c.M \in {8, 16, 32, 64, 128}}

Init ==
  /\ call \in Calls
  /\ launch = Nothing

rwkv7_w8a16_linear_launch ==
  /\ launch = Nothing
  /\ launch' = Chosen(call)
  /\ launch' # Nothing
  /\ UNCHANGED call

Next == rwkv7_w8a16_linear_launch

Spec == Init /\ [][Next]_vars

-----------------------------------------------------------------------------
Launched == launch.kernel \in {"mma", "bm64_bn128", "bm128", "gemm", "gemv"}

(***************************************************************************)
(* A kernel's tile divides N and K and its rows cover M: no kernel guards  *)
(* its columns or its last K tile, it relies on the choice made here.      *)
(***************************************************************************)
TilesCoverProduct ==
  Launched =>
    /\ call.N % launch.bn = 0
    /\ call.K % launch.bk = 0
    /\ launch.kernel = "gemv" => call.M <= launch.bm
    /\ launch.split_k \in 1..(call.K \div 64)

(***************************************************************************)
(* No kernel is chosen whose shared memory cannot be had: 48 KB static,    *)
(* 99 KB dynamic on the smallest devices of compute capability 8.          *)
(***************************************************************************)
SharedMemoryFits == launch.static <= 48 * 1024 /\ launch.dynamic <= 99 * 1024

(***************************************************************************)
(* No call of the backend ends the process: a split K always has room for  *)
(* its partial sums in the workspace, whether the tuning table, the tuner  *)
(* or the grid chose it, and packed weights reach only devices that can    *)
(* multiply them.                                                          *)
(***************************************************************************)
NeverExits == launch.kernel # "exit"

=============================================================================
