----------------------------- MODULE NormKernels -----------------------------
(***************************************************************************)
(* The layer-norm kernels of src/cuda/rwkv7_v3a_ops.cu: alone, after the   *)
(* residual addition, for the last token of every sequence, and fused with *)
(* the token shift of the channel mix and of the time mix, which replaces  *)
(* the shift state in place.  One block handles one row: two passes of a   *)
(* strided loop with a reduction each, then a third that writes.           *)
(*                                                                         *)
(* A kernel is the record of how it walks over the row.  A normalised      *)
(* element is the tuple of what it is computed from, <<element, sum, sum   *)
(* of squares, weight, bias>>, the sums scaled by C to stay integers.      *)
(***************************************************************************)
EXTENDS WarpSums

CONSTANTS
  LN_THREADS, LN_SMALL_THREADS, LN_SMALL512_THREADS, LN_SMALL_C,
  ManyRows, SomeRows,   \* 1024 and 512 in the launch functions
  Rows, Lengths, Channels, \* B (rows for T = 1), T and C of a call
  Launches              \* successive calls on the same shift state

NormAssumption ==
  /\ \A n \in {LN_THREADS, LN_SMALL_THREADS, LN_SMALL512_THREADS} :
       n % WarpSize = 0 /\ n \div WarpSize \in 1..WarpSize
  /\ Rows \cup Lengths \cup Channels \subseteq Nat \ {0}

VARIABLES
  shape,                \* [B, T, C]
  shift,                \* shift_state [B, C]
  last,                 \* per row, the normalised elements of the last call
  done,                 \* calls made
  kind,                 \* the call made last
  out,                  \* its stores: [row, thread, buf, addr, val]
  faults                \* loads outside a row, or misaligned

vars == <<shape, shift, last, done, kind, out, faults>>

-----------------------------------------------------------------------------
\* How a thread walks over a row of C elements, `width` at a time.

\* for (c = tid; c < C / width; c += Threads)
Strided(threads, width, t, C) ==
  {width * (t + k * threads) : k \in 0..((((C \div width) - 1) - t) \div threads)}

\* for (k = 0; k < C / width / Threads; ++k): unrolled, exact for LN_SMALL_C.
Unrolled(threads, width, t, C) ==
  {width * (t + k * threads) : k \in 0..((C \div width) \div threads) - 1}

Walk(kn, width, t, C) ==
  IF kn.unrolled THEN Unrolled(kn.threads, width, t, C)
                 ELSE Strided(kn.threads, width, t, C)

\*   stats, write   elements per load in the sums and in the last pass
\*   residual       the row is x + residual
\*   stores         what the last pass writes
emb_ln0_bf16_to_f16_kernel ==
  [threads |-> LN_THREADS, unrolled |-> FALSE, stats |-> 1, write |-> 1,
   residual |-> FALSE, stores |-> {"y"}]

layer_norm_f16_kernel ==
  [threads |-> LN_THREADS, unrolled |-> FALSE, stats |-> 1, write |-> 1,
   residual |-> FALSE, stores |-> {"y"}]

add_layer_norm_f16_kernel ==
  [threads |-> LN_THREADS, unrolled |-> FALSE, stats |-> 1, write |-> 1,
   residual |-> TRUE, stores |-> {"x_out", "y"}]

layer_norm_f16_small_kernel(threads, VecStats, VecOut) ==
  [threads |-> threads, unrolled |-> TRUE,
   stats |-> IF VecStats THEN 2 ELSE 1, write |-> IF VecOut THEN 2 ELSE 1,
   residual |-> FALSE, stores |-> {"y"}]

add_layer_norm_f16_small_kernel(threads, VecStats, VecOut) ==
  [threads |-> threads, unrolled |-> TRUE,
   stats |-> IF VecStats THEN 2 ELSE 1, write |-> IF VecOut THEN 2 ELSE 1,
   residual |-> TRUE, stores |-> {"x_out", "y"}]

add_last_layer_norm_f16_small_kernel(threads, VecStats, VecOut) ==
  [threads |-> threads, unrolled |-> TRUE,
   stats |-> IF VecStats THEN 2 ELSE 1, write |-> IF VecOut THEN 2 ELSE 1,
   residual |-> TRUE, stores |-> {"y"}]

add_last_layer_norm_f16_generic_kernel ==
  [threads |-> LN_THREADS, unrolled |-> FALSE, stats |-> 1, write |-> 2,
   residual |-> TRUE, stores |-> {"y"}]

add_layer_norm_cmix_mix_f16_scalar_stats_kernel ==
  [threads |-> LN_SMALL_THREADS, unrolled |-> TRUE, stats |-> 1, write |-> 2,
   residual |-> TRUE, stores |-> {"x_out", "mixed", "shift_state"}]

add_layer_norm_cmix_mix_f16_generic_kernel ==
  [threads |-> LN_THREADS, unrolled |-> FALSE, stats |-> 1, write |-> 2,
   residual |-> TRUE, stores |-> {"x_out", "mixed", "shift_state"}]

Mix6 == {"out_r", "out_w", "out_k", "out_v", "out_a", "out_g"}

add_layer_norm_tmix_mix6_f16_scalar_stats_kernel ==
  [threads |-> LN_SMALL_THREADS, unrolled |-> TRUE, stats |-> 1, write |-> 2,
   residual |-> TRUE, stores |-> {"x_out", "shift_state"} \cup Mix6]

add_layer_norm_tmix_mix6_f16_generic_kernel ==
  [threads |-> LN_THREADS, unrolled |-> FALSE, stats |-> 1, write |-> 2,
   residual |-> TRUE, stores |-> {"x_out", "shift_state"} \cup Mix6]

-----------------------------------------------------------------------------
\* Buffers.  The inputs of a call differ from those of the one before.

Input(buf, i) == (i * 5 + buf * 3 + done) % 7
Weight(c) == c + 1
Bias(c) == c + 2
\* The coefficients of the mixing kernels: x_k of the channel mix; x_r, ....
MixWeight(buf, c) == <<buf, c>>

Element(kn, i) == Input(1, i) + (IF kn.residual THEN Input(2, i) ELSE 0)

\* The sum a block computes over what its threads load.
BlockTotal(kn, C, value) ==
  block_sum(kn.threads,
    [t \in 0..kn.threads - 1 |->
       MapThenSumSet(LAMBDA c : MapThenSumSet(LAMBDA e : value[c + e], 0..kn.stats - 1),
                     Walk(kn, kn.stats, t, C))])

Square(n) == n * n

\* (v - mean) * rstd * w + b, from the two sums over the row.
Normalised(c, sum, squares, v) == <<v, sum, squares, Weight(c), Bias(c)>>

\* y + (prev - y) * mix
Mixed(y, prev, mix) == <<y, prev, mix>>

\* What the last pass leaves in `buf` for element c of a row.
Stored(buf, y, v, dst, c) ==
  CASE buf = "y"           -> y
    [] buf = "x_out"       -> <<v>>
    [] buf = "shift_state" -> y
    [] OTHER               -> Mixed(y, shift[dst + c], MixWeight(buf, c))

\* The block of one row: it loads the row at src and stores at dst.
RowStores(kn, row, src, dst, C) ==
  LET sum     == BlockTotal(kn, C, [c \in 0..C |-> Element(kn, src + c)])
      squares == BlockTotal(kn, C, [c \in 0..C |-> Square(C * Element(kn, src + c) - sum)])
      Elem(t, buf, c) ==
        LET v == Element(kn, src + c)
        IN  [row |-> row, thread |-> t, buf |-> buf, addr |-> dst + c,
             val |-> Stored(buf, Normalised(c, sum, squares, v), v, dst, c)]
  IN  UNION {{Elem(t, buf, c + e) : buf \in kn.stores, c \in Walk(kn, kn.write, t, C),
                                     e \in 0..kn.write - 1} : t \in 0..kn.threads - 1}

\* A load past the end of a row, or of a pair at an odd address.
RowFaults(kn, src, C) ==
  {<<src, t>> : t \in {u \in 0..kn.threads - 1 :
     \E width \in {kn.stats, kn.write} : \E c \in Walk(kn, width, u, C) :
       c + width > C \/ (width = 2 /\ (src + c) % 2 = 1)}}

\* kernel<<<blocks, threads>>>; source maps a block to the row it reads.
Launch(name, kn, blocks, C, source) ==
  /\ kind' = name
  /\ done' = done + 1
  /\ out' = UNION {RowStores(kn, b, source[b] * C, b * C, C) : b \in 0..blocks - 1}
  /\ faults' = UNION {RowFaults(kn, source[b] * C, C) : b \in 0..blocks - 1}
  /\ shift' = [i \in DOMAIN shift |->
                 LET s == {u \in out' : u.buf = "shift_state" /\ u.addr = i}
                 IN  IF s = {} THEN shift[i] ELSE (CHOOSE u \in s : TRUE).val]

Same == [b \in 0..(shape.B * shape.T) - 1 |-> b]

-----------------------------------------------------------------------------
\* The launch functions.

emb_ln0_launch ==
  Launch("emb", emb_ln0_bf16_to_f16_kernel, shape.B, shape.C, Same)

layer_norm_f16_launch ==
  LET rows == shape.B * shape.T
  IN  Launch("ln",
             CASE shape.C # LN_SMALL_C -> layer_norm_f16_kernel
               [] rows >= ManyRows -> layer_norm_f16_small_kernel(LN_SMALL512_THREADS, TRUE, TRUE)
               [] rows >= SomeRows -> layer_norm_f16_small_kernel(LN_SMALL512_THREADS, FALSE, FALSE)
               [] OTHER -> layer_norm_f16_small_kernel(LN_SMALL_THREADS, FALSE, FALSE),
             rows, shape.C, Same)

add_layer_norm_f16_launch ==
  LET rows == shape.B * shape.T
  IN  Launch("add_ln",
             CASE shape.C # LN_SMALL_C -> add_layer_norm_f16_kernel
               [] rows >= ManyRows -> add_layer_norm_f16_small_kernel(LN_SMALL512_THREADS, TRUE, TRUE)
               [] rows >= SomeRows -> add_layer_norm_f16_small_kernel(LN_SMALL512_THREADS, FALSE, FALSE)
               [] OTHER -> add_layer_norm_f16_small_kernel(LN_SMALL_THREADS, FALSE, FALSE),
             rows, shape.C, Same)

\* Mutant: the row of the first token.
LastRowFirst == [b \in 0..shape.B - 1 |-> b * shape.T]

\* The last token of sequence b.
LastRow == [b \in 0..shape.B - 1 |-> b * shape.T + (shape.T - 1)]

\* The fused norms refuse an odd number of channels.
EvenChannels == shape.C > 0 /\ shape.C % 2 = 0

add_last_layer_norm_f16_launch ==
  /\ EvenChannels
  /\ Launch("last",
            CASE shape.C # LN_SMALL_C -> add_last_layer_norm_f16_generic_kernel
              [] shape.B >= ManyRows -> add_last_layer_norm_f16_small_kernel(LN_SMALL512_THREADS, TRUE, TRUE)
              [] shape.B >= SomeRows -> add_last_layer_norm_f16_small_kernel(LN_SMALL512_THREADS, FALSE, FALSE)
              [] OTHER -> add_last_layer_norm_f16_small_kernel(LN_SMALL_THREADS, FALSE, FALSE),
            shape.B, shape.C, LastRow)

\* The two below run on one token of every sequence (T = 1).
add_layer_norm_cmix_mix_f16_launch ==
  /\ EvenChannels /\ shape.T = 1
  /\ Launch("cmix",
            IF shape.C = LN_SMALL_C THEN add_layer_norm_cmix_mix_f16_scalar_stats_kernel
                                    ELSE add_layer_norm_cmix_mix_f16_generic_kernel,
            shape.B, shape.C, Same)

add_layer_norm_tmix_mix6_f16_launch ==
  /\ EvenChannels /\ shape.T = 1
  /\ Launch("mix6",
            IF shape.C = LN_SMALL_C THEN add_layer_norm_tmix_mix6_f16_scalar_stats_kernel
                                    ELSE add_layer_norm_tmix_mix6_f16_generic_kernel,
            shape.B, shape.C, Same)

Init ==
  /\ shape \in [B : Rows, T : Lengths, C : Channels]
  /\ shift = [i \in 0..(shape.B * shape.C) - 1 |-> <<0, 0, 0, 0, i>>]
  /\ last = shift
  /\ done = 0
  /\ kind = "none"
  /\ out = {}
  /\ faults = {}

\* The definition of the norm of row b, with nothing of how it is computed.
Reference(b, c, name) ==
  LET src     == (IF name = "last" THEN b * shape.T + shape.T - 1 ELSE b) * shape.C
      V(d)    == Input(1, src + d) + (IF name \in {"emb", "ln"} THEN 0 ELSE Input(2, src + d))
      sum     == MapThenSumSet(V, 0..shape.C - 1)
      squares == MapThenSumSet(LAMBDA d : Square(shape.C * V(d) - sum), 0..shape.C - 1)
  IN  <<V(c), sum, squares, Weight(c), Bias(c)>>

\* The history variable: what the shift state must hold after the call.
Remember ==
  last' = IF kind' \in {"cmix", "mix6"}
          THEN [i \in DOMAIN last |-> Reference(i \div shape.C, i % shape.C, kind')]
          ELSE last

Next ==
  /\ done < Launches
  /\ \/ emb_ln0_launch
     \/ layer_norm_f16_launch
     \/ add_layer_norm_f16_launch
     \/ add_last_layer_norm_f16_launch
     \/ add_layer_norm_cmix_mix_f16_launch
     \/ add_layer_norm_tmix_mix6_f16_launch
  /\ Remember
  /\ UNCHANGED shape

Spec == Init /\ [][Next]_vars

-----------------------------------------------------------------------------
\* The buffers a call fills, and the rows of each.
Fills(name) ==
  CASE name \in {"emb", "ln", "last"} -> {"y"}
    [] name = "add_ln"         -> {"x_out", "y"}
    [] name = "cmix"           -> {"x_out", "mixed", "shift_state"}
    [] OTHER                   -> {"x_out", "shift_state"} \cup Mix6

ExpectedStores(name) ==
  UNION {LET b == i \div shape.C
             c == i % shape.C
             y == Reference(b, c, name)
         IN  {<<buf, i, CASE buf \in {"y", "shift_state"} -> y
                          [] buf = "x_out"               -> <<y[1]>>
                          [] OTHER -> Mixed(y, last[i], MixWeight(buf, c))>> :
                buf \in Fills(name)} :
         i \in 0..(shape.B * shape.C
                   * (IF name \in {"ln", "add_ln"} THEN shape.T ELSE 1)) - 1}

\* Whatever kernel serves a shape, every call fills its outputs with the norm of
\* the whole row (for the last token, of the row of that token), mixed with what
\* the previous token left in the shift state, not with what this one leaves.
CallsStoreTheNormStep ==
  {<<s.buf, s.addr, s.val>> : s \in out'} = ExpectedStores(kind')
CallsStoreTheNorm == [][CallsStoreTheNormStep]_vars

\* The shift state holds the last token's norm after every call.
ShiftIsLastToken == shift = last

\* No element is written by two threads: the shift state is read and replaced
\* without a barrier, so a second writer would race with the reader.
OneThreadPerOutput ==
  \A s, u \in out : s.buf = u.buf /\ s.addr = u.addr
                       => s.thread = u.thread /\ s.row = u.row

\* No thread loads past the end of a row, or a pair from an odd address.
LoadsAreLegal == faults = {}

=============================================================================
