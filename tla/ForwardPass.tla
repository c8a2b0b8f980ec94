----------------------------- MODULE ForwardPass -----------------------------
(***************************************************************************)
(* run_backend_forward (src/src/backend/rwkv7_fast_v4.cu): one forward of  *)
(* B lanes of T tokens each through the layers of the model.  The code     *)
(* computes the same quantities along many paths (fused or separate        *)
(* kernels by number of rows, sparse or dense feed-forward, an adapter on  *)
(* some of the products), reusing the same scratch buffers and swapping    *)
(* pointers between layers.                                                *)
(*                                                                         *)
(* A buffer holds the name of the quantity that is in it: which quantity,  *)
(* of which layer, of which forward, and whether the adapter's delta is in *)
(* it.  A launch gives its outputs their names when its inputs are the     *)
(* quantities it is for, and spoils them otherwise.  The kernels run in    *)
(* the order of one stream, so a stage of the code is one action.  What    *)
(* the function refuses, it refuses before the first launch: BackendState  *)
(* has that part.                                                          *)
(***************************************************************************)
EXTENDS Integers, FiniteSets, TLC

CONSTANTS
  Layers,               \* dims.layers
  Cases,                \* the engines: [C, kind (of ffn.value), wkv32, cmix_sparse,
                        \*   adapter (<<layer, target>> with a delta),
                        \*   by_layer, max_rows (tuned limits of the sparse kernels)]
  Batches, Lengths,     \* B and T of a forward
  MaxCalls,             \* bound: forwards of one state
  LowrankInRowsT, LowrankOutRowsT, LowrankFusedMinC,   \* 7, 4, 1024
  LowrankMax, Vocab,    \* kLowrankMax = 512, dims.vocab
  ShortSequence         \* 16: the longest T of rwkv7_wkv_fp16_seq_w0

\* A layer's ranks fit w1, a1, g1 and v1 (the code throws otherwise).
ForwardAssumption ==
  /\ Layers \in Nat \ {0} /\ MaxCalls \in Nat
  /\ Batches \cup Lengths \subseteq Nat \ {0}
  /\ \A c \in Cases : c.kind \in {"f16", "int8", "int4"} /\ c.cmix_sparse \in {"no-fc", "off"}

VARIABLES
  case,                 \* the engine and the lanes of the state
  T,                    \* tokens per lane of this forward
  mem,                  \* what every buffer holds
  ptr,                  \* x_cur, xx_cur, x_next, xx_next, v_use
  pre_mix_ready,
  layer, pc,
  calls                 \* forwards completed

vars == <<case, T, mem, ptr, pre_mix_ready, layer, pc, calls>>

-----------------------------------------------------------------------------
\* Names of quantities.
Value(q, l, n) == <<q, l, n, FALSE>>
V(q) == Value(q, layer, calls + 1)          \* q of this layer and forward
Before(q) == Value(q, layer, calls)         \* a part of the state, before it
HasDelta(t) == <<layer, t>> \in case.adapter
D(q, t) == <<q, layer, calls + 1, HasDelta(t)>>   \* a product and its adapter
Spoilt == <<"spoilt", 0, 0, FALSE>>

\* Buffers: scratch is shared by the layers, the state has its own per layer.
S(name) == <<name, 0>>
L(name) == <<name, layer>>

Scratch ==
  {"x0", "x1", "xx0", "xx1", "xr", "xw", "xk", "xv", "xa", "xg", "r", "k", "v_base", "v_first",
   "v_out", "w1", "a1", "g1", "v1", "w12", "a12", "g", "k2", "neg_kk", "kka", "w_raw", "y", "y2",
   "att_out", "x_after_att", "ln2_out", "mixed", "hid", "cmix_out", "final_x", "logits"}

StateKeys == ({"shift0", "shift1", "wkv"} \X (0..(Layers - 1))) \cup {S("elapsed")}

\* Mutant: the arena was not grown when a buffer was added.
ArenaElemsShort ==
  case.B * T * case.C * 28 + case.B * case.C + case.B * T * 4 * case.C
    + case.B * T * LowrankMax * 4 + case.B * Vocab

ArenaElems ==
  case.B * T * case.C * 31 + case.B * case.C + case.B * T * 4 * case.C
    + case.B * T * LowrankMax * 4 + case.B * Vocab

\* What arena.take hands out: rows * C for all but these.
Taken ==
  LET Odd == {"w1", "a1", "g1", "v1", "hid", "final_x", "logits"}
  IN  Cardinality(Scratch \ Odd) * case.B * T * case.C + 4 * case.B * T * LowrankMax
        + case.B * T * 4 * case.C + case.B * case.C + case.B * Vocab

\* A launch on memory m that is for these inputs.
Launch(m, ok, needs, gives) ==
  LET sound == ok /\ \A b \in DOMAIN needs : m[b] = needs[b]
  IN  [b \in DOMAIN m |-> IF b \notin DOMAIN gives THEN m[b]
                          ELSE IF sound THEN gives[b] ELSE Spoilt]

\* y = x * w^T, which has no delta yet.
Linear(m, x, xval, y, q) == Launch(m, TRUE, x :> xval, y :> V(q))

\* miss_add: the adapter's delta for a target, computed from the same input.
miss_add(m, t, x, xval, y, q) ==
  IF HasDelta(t) THEN Launch(m, TRUE, x :> xval @@ y :> V(q), y :> D(q, t)) ELSE m

AdaptedLinear(m, t, x, xval, y, q) ==
  miss_add(Linear(m, x, xval, y, q), t, x, xval, y, q)

rows == case.B * T
Fused == case.C >= LowrankFusedMinC

Mixes == {"xr", "xw", "xk", "xv", "xa", "xg"}
MixValues(l) == [b \in {S(x) : x \in Mixes} |-> Value(b[1], l, calls + 1)]

Step(from, to) == pc = from /\ pc' = to
Keep == UNCHANGED <<case, T, calls>>

-----------------------------------------------------------------------------
Init ==
  /\ case \in {[B |-> b] @@ c : b \in Batches, c \in Cases}
  /\ T = 0 /\ layer = 0 /\ pc = "idle" /\ calls = 0 /\ pre_mix_ready = FALSE
  /\ mem = [k \in {S(b) : b \in Scratch} |-> Spoilt] @@ [k \in StateKeys |-> Value(k[1], k[2], 0)]
  /\ ptr = [x_cur |-> "x0", xx_cur |-> "xx0", x_next |-> "x1", xx_next |-> "xx1", v_use |-> "v_base"]

\* The rows of the embedding table, already normalised by ln0, and ln1 of the
\* first layer.
Begin ==
  /\ Step("idle", "mix") /\ calls < MaxCalls
  /\ T' \in Lengths
  /\ layer' = 0 /\ pre_mix_ready' = FALSE
  /\ ptr' = [x_cur |-> "x0", xx_cur |-> "xx0", x_next |-> "x1", xx_next |-> "xx1", v_use |-> "v_base"]
  /\ mem' = [mem EXCEPT ![S("x0")] = Value("x", 0, calls + 1),
                        ![S("xx0")] = Value("xx", 0, calls + 1)]
  /\ UNCHANGED <<case, calls>>

\* tmix_mix6 mixes every token with the one before it, the first with shift0.
TimeMix ==
  /\ Step("mix", "rkv") /\ Keep
  /\ mem' = IF pre_mix_ready THEN mem
            ELSE Launch(mem, TRUE, S(ptr.xx_cur) :> V("xx") @@ L("shift0") :> Before("shift0"),
                        MixValues(layer) @@ L("shift0") :> V("shift0"))
  /\ pre_mix_ready' = FALSE
  /\ UNCHANGED <<ptr, layer>>

Projections ==
  /\ Step("rkv", "lowrank_in") /\ Keep
  /\ LET m1 == AdaptedLinear(mem, 0, S("xr"), V("xr"), S("r"), "r")
         m2 == AdaptedLinear(m1, 1, S("xk"), V("xk"), S("k"), "k")
     IN  mem' = AdaptedLinear(m2, 2, S("xv"), V("xv"), S("v_base"), "v")
  /\ ptr' = [ptr EXCEPT !.v_use = "v_base"]
  /\ UNCHANGED <<layer, pre_mix_ready>>

RankIn(m, x, y) == Linear(m, S(x), V(x), S(y), y)

\* w1, a1, g1 and, in the kernel for all four, v1.
LowrankIn ==
  /\ Step("lowrank_in", "lowrank_out") /\ Keep
  /\ LET wag == RankIn(RankIn(RankIn(mem, "xw", "w1"), "xa", "a1"), "xg", "g1")
     IN  mem' = IF Fused /\ rows <= LowrankInRowsT /\ rows <= LowrankOutRowsT /\ layer # 0
                THEN RankIn(wag, "xv", "v1") ELSE wag
  /\ UNCHANGED <<ptr, layer, pre_mix_ready>>

\* The activation comes first; w_raw holds it when it is a kernel of its own.
linear_rank_out_act_launch(m, x, y) ==
  IF rows <= LowrankOutRowsT /\ Fused
  THEN Linear(m, S(x), V(x), S(y), y)
  ELSE Linear(Linear(m, S(x), V(x), S("w_raw"), "act"), S("w_raw"), V("act"), S(y), y)

\* v + (v_first - v) * sigmoid(v0 + delta), the delta being v1's product.
VResidual(m, delta, dval) ==
  Launch(m, TRUE, S(delta) :> dval @@ S("v_base") :> D("v", 2)
                    @@ S("v_first") :> Value("v_first", 0, calls + 1),
         S("v_out") :> V("v_out"))

LowrankOut ==
  /\ Step("lowrank_out", "wkv") /\ Keep
  /\ LET both == Fused /\ rows <= LowrankOutRowsT /\ layer # 0 /\ rows <= LowrankInRowsT
         wag  == IF Fused /\ rows <= LowrankOutRowsT
                 THEN Linear(Linear(Linear(mem, S("w1"), V("w1"), S("w12"), "w12"),
                                    S("a1"), V("a1"), S("a12"), "a12"), S("g1"), V("g1"), S("g"), "g")
                 ELSE linear_rank_out_act_launch(
                        Linear(linear_rank_out_act_launch(mem, "w1", "w12"),
                               S("a1"), V("a1"), S("a12"), "a12"), "g1", "g")
         late == IF rows > LowrankInRowsT THEN RankIn(wag, "xv", "v1") ELSE wag
     IN  mem' = CASE layer = 0 -> Launch(wag, TRUE, S("v_base") :> D("v", 2),
                                         S("v_first") :> V("v_first"))
                  [] both -> VResidual(wag, "v1", V("v1"))
                  [] ~ both /\ layer # 0 /\ Fused /\ rows <= LowrankOutRowsT ->
                       VResidual(late, "v1", V("v1"))
                  [] OTHER -> VResidual(Linear(RankIn(wag, "xv", "v1"), S("v1"), V("v1"), S("w_raw"), "v2"),
                                        "w_raw", V("v2"))
  /\ ptr' = [ptr EXCEPT !.v_use = IF layer = 0 THEN @ ELSE "v_out"]
  /\ UNCHANGED <<layer, pre_mix_ready>>

VUsed == IF layer = 0 THEN D("v", 2) ELSE V("v_out")

\* The gates, the recurrence (three kernels, two of which want w0 added to w
\* beforehand, the fp16 ones reading the elapsed tokens) and what follows it.
Recurrence ==
  /\ Step("wkv", "ffn_mix") /\ Keep
  /\ LET gates == Launch(mem, TRUE, S("k") :> D("k", 1) @@ S("a12") :> V("a12"),
                         S("k2") :> V("k2") @@ S("neg_kk") :> V("neg_kk") @@ S("kka") :> V("kka"))
         inputs == S("r") :> D("r", 0) @@ S("k2") :> V("k2") @@ S(ptr.v_use) :> VUsed
                     @@ S("neg_kk") :> V("neg_kk") @@ S("kka") :> V("kka")
                     @@ L("wkv") :> Before("wkv")
         clock  == S("elapsed") :> Value("elapsed", 0, calls)
         result == S("y") :> V("y") @@ L("wkv") :> V("wkv")
         added  == Linear(gates, S("w12"), V("w12"), S("w_raw"), "w")
         y      == CASE case.wkv32 -> Launch(added, TRUE, inputs @@ S("w_raw") :> V("w"), result)
                     [] ~ case.wkv32 /\ T <= ShortSequence ->
                          Launch(gates, TRUE, inputs @@ clock @@ S("w12") :> V("w12"), result)
                     [] OTHER -> Launch(added, TRUE, inputs @@ clock @@ S("w_raw") :> V("w"), result)
         y2     == Launch(y, TRUE, S("y") :> V("y") @@ S("r") :> D("r", 0) @@ S("k2") :> V("k2")
                            @@ S(ptr.v_use) :> VUsed @@ S("g") :> V("g"), S("y2") :> V("y2"))
     IN  mem' = AdaptedLinear(y2, 3, S("y2"), V("y2"), S("att_out"), "att_out")
  /\ UNCHANGED <<ptr, layer, pre_mix_ready>>

\* x + att_out, its ln2 and the mix with shift1: one kernel when every row is
\* the only token of its lane.
FfnMix ==
  /\ Step("ffn_mix", "ffn_key") /\ Keep
  /\ LET sum    == S(ptr.x_cur) :> V("x") @@ S("att_out") :> D("att_out", 3)
         normed == Launch(mem, TRUE, sum, S("x_after_att") :> V("x_after_att") @@ S("ln2_out") :> V("ln2_out"))
         shift  == L("shift1") :> Before("shift1")
         mixed  == S("mixed") :> V("mixed") @@ L("shift1") :> V("shift1")
     IN  mem' = IF T = 1
                THEN Launch(mem, T = 1, sum @@ shift, S("x_after_att") :> V("x_after_att") @@ mixed)
                ELSE Launch(normed, TRUE, S("ln2_out") :> V("ln2_out") @@ shift, mixed)
  /\ UNCHANGED <<ptr, layer, pre_mix_ready>>

FfnKey ==
  /\ Step("ffn_key", "ffn_value") /\ Keep
  /\ mem' = AdaptedLinear(mem, 4, S("mixed"), V("mixed"), S("hid"), "hid")
  /\ UNCHANGED <<ptr, layer, pre_mix_ready>>

default_cmix_nofc_max_rows(C) == IF C <= 1024 THEN 4 ELSE IF C = 2048 THEN 8 ELSE 12

\* select_path's cmix.
PathCmix ==
  CASE case.cmix_sparse = "off" -> "Dense"
    [] case.cmix_sparse # "off" /\ rows = 1 -> "NoFcOne"
    [] OTHER -> IF rows <= default_cmix_nofc_max_rows(case.C) THEN "NoFcRows2" ELSE "Dense"

LayerSparseMaxRows ==
  IF layer + 1 \in DOMAIN case.by_layer THEN case.by_layer[layer + 1] ELSE case.max_rows

TunedCmix ==
  LET mode == IF case.kind = "int4" THEN "Dense" ELSE PathCmix
  IN  IF /\ case.cmix_sparse # "off" /\ mode = "Dense" /\ case.kind = "int8"
         /\ case.C >= 4096 /\ rows <= LayerSparseMaxRows
      THEN "NoFcRows2" ELSE mode

\* The sparse kernels square relu(hid) as they read it; the adapter's delta
\* needs it in memory.
CmixMode == IF HasDelta(5) THEN "Dense" ELSE TunedCmix

FfnValue ==
  /\ Step("ffn_value", "next") /\ Keep
  /\ LET sparse == Launch(mem, case.kind # "int4" /\ (CmixMode = "NoFcOne" => rows = 1),
                          S("hid") :> D("hid", 4), S("cmix_out") :> V("cmix_out"))
         squared == Launch(mem, TRUE, S("hid") :> D("hid", 4), S("hid") :> V("hid2"))
         dense  == Linear(squared, S("hid"), V("hid2"), S("cmix_out"), "cmix_out")
     IN  mem' = miss_add(IF CmixMode = "Dense" THEN dense ELSE sparse,
                         5, S("hid"), V("hid2"), S("cmix_out"), "cmix_out")
  /\ UNCHANGED <<ptr, layer, pre_mix_ready>>

\* x + cmix_out and ln1 of the next layer; a single token is mixed at once,
\* and then nothing reads what xx_next points to.
Swapped(p) ==
  [p EXCEPT !.x_cur = p.x_next, !.x_next = p.x_cur, !.xx_cur = p.xx_next, !.xx_next = p.xx_cur]

NextLayer ==
  /\ Step("next", "mix") /\ Keep
  /\ layer + 1 < Layers
  /\ layer' = layer + 1
  /\ LET sum == S("x_after_att") :> V("x_after_att") @@ S("cmix_out") :> D("cmix_out", 5)
         x   == S(ptr.x_next) :> Value("x", layer + 1, calls + 1)
     IN  IF case.B = 1 /\ T = 1
         THEN /\ mem' = Launch(mem, T = 1,
                               sum @@ <<"shift0", layer + 1>> :> Value("shift0", layer + 1, calls),
                               x @@ MixValues(layer + 1)
                                 @@ <<"shift0", layer + 1>> :> Value("shift0", layer + 1, calls + 1))
              /\ pre_mix_ready' = TRUE
              /\ ptr' = Swapped([ptr EXCEPT !.xx_next = ptr.x_next])
         ELSE /\ mem' = Launch(mem, TRUE, sum, x @@ S(ptr.xx_next) :> Value("xx", layer + 1, calls + 1))
              /\ ptr' = Swapped(ptr)
              /\ UNCHANGED pre_mix_ready

ElapsedAfter == Value("elapsed", 0, calls + 1)

\* ln_out of the last token of every lane, the head, and the elapsed tokens.
LastLayer ==
  /\ Step("next", "idle")
  /\ layer + 1 = Layers
  /\ LET final == Launch(mem, TRUE, S("x_after_att") :> V("x_after_att") @@ S("cmix_out") :> D("cmix_out", 5),
                         S("final_x") :> V("final_x"))
         clock == Launch(final, TRUE, S("elapsed") :> Value("elapsed", 0, calls),
                         S("elapsed") :> ElapsedAfter)
     IN  mem' = Linear(clock, S("final_x"), V("final_x"), S("logits"), "logits")
  /\ calls' = calls + 1
  /\ UNCHANGED <<case, T, ptr, pre_mix_ready, layer>>

Next ==
  \/ Begin \/ TimeMix \/ Projections \/ LowrankIn \/ LowrankOut \/ Recurrence
  \/ FfnMix \/ FfnKey \/ FfnValue \/ NextLayer \/ LastLayer

Spec == Init /\ [][Next]_vars

-----------------------------------------------------------------------------
\* Whatever path the rows, the width, the quantization, the adapter and the
\* tuned limits select, the logits are those of the model: every launch found
\* the quantities it is for, of this layer and this forward.
ComputesTheModel ==
  pc = "idle" /\ calls > 0 => mem[S("logits")] = Value("logits", Layers - 1, calls)

\* A forward advances every part of the state (both shifts and the recurrence
\* of every layer, the elapsed tokens) exactly once, from where the forward
\* before it left it.
StateAdvancesOnce ==
  pc = "idle" => \A k \in StateKeys : mem[k] = Value(k[1], k[2], calls)

\* The scratch a forward takes fits the arena it allocated for it, for every
\* batch, length and width: one element too few ends the process.
ArenaSuffices == T > 0 => Taken <= ArenaElems
=============================================================================
