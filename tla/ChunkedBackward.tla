-------------------------- MODULE ChunkedBackward --------------------------
(***************************************************************************)
(* The executor of the BF16 trainer (src/src/bf16_training/executor.cpp)    *)
(* with the model's forward and backward loops over the layers              *)
(* (model_forward.cu, model_backward.cpp).  A sequence longer than the      *)
(* chunk is processed in chunks: a first pass keeps the recurrent state and *)
(* shifts at every chunk boundary, a second one goes through the chunks     *)
(* from the last to the first, computes each again and differentiates it,   *)
(* and hands the adjoints of its incoming state and shifts to the chunk     *)
(* before it.  One executor serves many calls with the same buffers.        *)
(***************************************************************************)
EXTENDS Integers, Sequences, SequencesExt, FiniteSetsExt

(* Arithmetic for checking a hand-written reverse-mode derivative.  The     *)
(* floating-point numbers of the training code are replaced by the residues *)
(* modulo a small prime P, where sums and products are exact, and each      *)
(* number of a forward pass carries its derivative in one direction (a dual *)
(* number).  A backward pass is right when what it computes with plain      *)
(* residues equals the derivative the dual numbers carry.                   *)
(*                                                                         *)
(* A function that has no meaning modulo P (a norm, a sigmoid, an           *)
(* exponential) stands for a formal function: a fixed polynomial whose      *)
(* formal derivative is known, or, where the code writes the derivative in  *)
(* terms of the value (tanh, sigmoid), any function with that rule.         *)
CONSTANT P

PIsOddPrime ==
    P \in Nat /\ P > 2 /\ \A q \in 2 .. (P - 1) : P % q # 0

Residue == 0 .. (P - 1)

Dual == [v : Residue, d : Residue]

(* A constant: its derivative is zero. *)
Num(n) == [v |-> n % P, d |-> 0]

x ++ y == [v |-> (x.v + y.v) % P, d |-> (x.d + y.d) % P]

x -- y == [v |-> (x.v - y.v) % P, d |-> (x.d - y.d) % P]

x ** y == [v |-> (x.v * y.v) % P, d |-> (x.v * y.d + x.d * y.v) % P]

(* The product with a constant of the model. *)
Scale(c, x) == [v |-> (c * x.v) % P, d |-> (c * x.d) % P]

(* The formal function number i and its derivative. *)
Fn(i, a) == (i * a * a + 3 * a + i) % P

FnD(i, a) == (2 * i * a + 3) % P

Lift(i, x) == [v |-> Fn(i, x.v), d |-> (FnD(i, x.v) * x.d) % P]

(* tanh and sigmoid: the derivative is a function of the value. *)
Tanh(x) == [v |-> Fn(2, x.v), d |-> ((1 - Fn(2, x.v) * Fn(2, x.v)) * x.d) % P]

Sigmoid(x) == [v |-> Fn(4, x.v), d |-> (Fn(4, x.v) * (1 - Fn(4, x.v)) * x.d) % P]

(* relu(x)^2, with the residues up to P \div 2 as the positive numbers. *)
Positive(a) == a # 0 /\ a <= P \div 2

ReluSquare(x) == IF Positive(x.v) THEN x ** x ELSE Num(0)

(* The inverse of a nonzero residue. *)
InverseOf(a) == CHOOSE b \in 1 .. (P - 1) : (a * b) % P = 1

-----------------------------------------------------------------------------
(* One frozen RWKV-7 block of the BF16 trainer, forward and backward        *)
(* (src/src/bf16_training/block_forward.cu, block_backward.cu), over the    *)
(* dual numbers modulo P.   Every tensor has one channel, one head and a    *)
(* low rank of one, so that a row of a buffer is one number; what stays is  *)
(* the dataflow: which value each operator reads, what the tape records,    *)
(* and every path a gradient takes back.                                   *)
(*                                                                         *)
(* The code applies one kernel after the other to all T rows.  A row        *)
(* depends on earlier rows only through the two token shifts and the WKV    *)
(* state, so the model takes the rows one at a time and carries those       *)
(* three; backward does the same in reverse with their three adjoints.     *)

(* The adapter targets: receptance, key, value, output, ffn.key, ffn.value. *)
Targets == 0 .. 5

(* W.w[n] is a frozen weight of the layer; W.d[i], W.a[i] are the trainable *)
(* factors of target i as dual numbers, W.kind says how they are applied.   *)
WeightNames ==
    <<"ln1w", "ln1b", "mixr", "mixw", "mixk", "mixv", "mixa", "mixg", "rec",
      "key", "val", "out", "w0", "w1", "w2", "a0", "a1", "a2", "g1", "g2",
      "v0", "v1", "v2", "k_k", "k_a", "r_k", "gnw", "gnb", "ln2w", "ln2b",
      "fmix", "fkey", "fval">>

AdapterScale == 2

(* y += scale * D * s, where s is the input reduced to the rank: the sum of *)
(* the inputs of each slot for MiSS, A * x for NoRA.                        *)
Reduced(W, i, x) == IF W.kind = "nora" THEN W.a[i] ** x ELSE x

Adapt(W, i, x, y) ==
    IF W.kind = "none" THEN y
    ELSE y ++ Scale(AdapterScale, W.d[i] ** Reduced(W, i, x))

(* The token shift of one branch: x + (previous - x) * mix. *)
Mix(x, prev, mix) == x ++ Scale(mix, prev -- x)

Norm(i, x, weight, bias) == Scale(weight, Lift(i, x)) ++ Num(bias)

(* The value residual above layer 0, and the gated keys: the normalised key *)
(* negated, its product with the gate, and the key the recurrence adds.     *)
Vres(vb, vf, gate) == vb ++ ((vf -- vb) ** gate)

KkGate(w, k, al) ==
    LET kk == Lift(5, Scale(w.k_k, k))
    IN [neg_kk |-> Num(0) -- kk, kka |-> kk ** al,
        wkv_k |-> k ** (Num(1 - w.k_a) ++ Scale(w.k_a, al))]

(* The WKV recurrence of one row: the state after it. *)
WkvState(s, row) ==
    ((s ** row.decay) ++ (s ** row.neg_kk ** row.kka))
        ++ (row.wkv_k ** row.v)

(* The gated output of the time mix, fused in the code. *)
TmixPost(gn, r, k, v, r_k, gate) ==
    (gn ++ (Scale(r_k, r ** k) ** v)) ** gate

(* One row through the block, a section of the block after the other, each   *)
(* of which adds to the row what it computes and the tape records.          *)
(* in = [x, att, ffn, s, vf]: the input, the two shifts, the WKV state and,  *)
(* above layer 0, the value of layer 0.                                     *)
ProjectRow(W, zero, in) ==
    LET w   == W.w
        ln1 == Norm(1, in.x, w.ln1w, w.ln1b)
        mx(m) == Mix(ln1, in.att, m)
        vb  == Adapt(W, 2, mx(w.mixv), Scale(w.val, mx(w.mixv)))
        w1  == Tanh(Scale(w.w1, mx(w.mixw)))
        g1  == Sigmoid(Scale(w.g1, mx(w.mixg)))
    IN [x |-> in.x, ln1 |-> ln1, ffn |-> in.ffn, s |-> in.s,
        r |-> Adapt(W, 0, mx(w.mixr), Scale(w.rec, mx(w.mixr))),
        k |-> Adapt(W, 1, mx(w.mixk), Scale(w.key, mx(w.mixk))),
        v_base |-> vb, v_first |-> IF zero THEN vb ELSE in.vf,
        w1_tanh |-> w1, raw_w |-> Scale(w.w2, w1) ++ Num(w.w0),
        alpha |-> Sigmoid(Scale(w.a2, Scale(w.a1, mx(w.mixa))) ++ Num(w.a0)),
        g1_sigmoid |-> g1, gate |-> Scale(w.g2, g1),
        v_gate |-> Sigmoid(Scale(w.v2, Scale(w.v1, mx(w.mixv))) ++ Num(w.v0)),
        reduced |-> <<Reduced(W, 0, mx(w.mixr)), Reduced(W, 1, mx(w.mixk)),
                      Reduced(W, 2, mx(w.mixv))>>]

RecurRow(W, zero, q) ==
    LET kg == KkGate(W.w, q.k, q.alpha)
        pre == [decay |-> Lift(6, q.raw_w), neg_kk |-> kg.neg_kk,
                kka |-> kg.kka, wkv_k |-> kg.wkv_k,
                v |-> IF zero THEN q.v_base ELSE Vres(q.v_base, q.v_first, q.v_gate)]
    IN q @@ pre @@ [state |-> WkvState(q.s, pre)]

AttendRow(W, q) ==
    LET y  == q.state ** q.r
        gn == Norm(7, y, W.w.gnw, W.w.gnb)
        post == TmixPost(gn, q.r, q.wkv_k, q.v, W.w.r_k, q.gate)
    IN q @@ [wkv_y |-> y, gn |-> gn, post |-> post,
             x_after_att |-> q.x ++ Adapt(W, 3, post, Scale(W.w.out, post))]

ChannelMixRow(W, q) ==
    LET w   == W.w
        ln2 == Norm(1, q.x_after_att, w.ln2w, w.ln2b)
        fm  == Mix(ln2, q.ffn, w.fmix)
        hid == Adapt(W, 4, fm, Scale(w.fkey, fm))
        act == ReluSquare(hid)
        done == [ln2 |-> ln2, ffn_hid |-> hid,
                 reduced |-> q.reduced \o <<Reduced(W, 3, q.post), Reduced(W, 4, fm),
                                           Reduced(W, 5, act)>>,
                 out |-> q.x_after_att ++ Adapt(W, 5, act, Scale(w.fval, act))]
    IN done @@ q

ForwardRow(W, zero, in) ==
    ChannelMixRow(W, AttendRow(W, RecurRow(W, zero, ProjectRow(W, zero, in))))

(* The block over the rows xs: the tape, the shifts and the state it ends   *)
(* with, and what backward needs of the beginning.                          *)
Tape(att, ffn, s0) ==
    [rows |-> <<>>, replay |-> s0, nora_att |-> att, nora_ffn |-> ffn,
     att |-> att, ffn |-> ffn, state |-> s0]

Recorded(tape, row) ==
    [tape EXCEPT !.rows = Append(@, row), !.att = row.ln1, !.ffn = row.ln2,
                 !.state = row.state]

BlockForward(W, zero, xs, vf, att, ffn, s0) ==
    LET Step(tape, t) ==
            Recorded(tape, ForwardRow(W, zero,
                [x |-> xs[t], att |-> tape.att, ffn |-> tape.ffn,
                 s |-> tape.state, vf |-> IF zero THEN Num(0) ELSE vf[t]]))
    IN FoldLeft(Step, Tape(att, ffn, s0), [t \in 1 .. Len(xs) |-> t])

(* The WKV history of the layer, regenerated from the state its forward     *)
(* pass started from: the state before each row.                            *)
WkvHistory(tape) ==
    FoldLeft(LAMBDA acc, row : [before |-> Append(acc.before, acc.s),
                                s |-> WkvState(acc.s, row)],
             [before |-> <<>>, s |-> tape.replay], tape.rows).before

(* What target i sends back to its input, and what it adds to the gradients *)
(* of its factors, given the adjoint g of its output and its input x.       *)
AdapterInputGrad(W, i, g) ==
    CASE W.kind = "none" -> 0
      [] W.kind = "miss" -> (AdapterScale * W.d[i].v * g) % P
      [] W.kind = "nora" -> (AdapterScale * W.d[i].v * g * W.a[i].v) % P

AdapterGrad(W, i, g, row, x) ==
    [d |-> IF W.kind = "none" THEN 0
           ELSE (AdapterScale * g * row.reduced[i + 1].v) % P,
     a |-> IF W.kind # "nora" THEN 0
           ELSE (AdapterScale * W.d[i].v * g * x.v) % P]

(* The inputs of the six targets, computed again from the tape: NoRA keeps  *)
(* only the reduced values, and the shifts the chunk came in with.          *)
NoraInputs(W, tape, t) ==
    LET w == W.w
        row == tape.rows[t]
        patt == IF t = 1 THEN tape.nora_att ELSE tape.rows[t - 1].ln1
        pffn == IF t = 1 THEN tape.nora_ffn ELSE tape.rows[t - 1].ln2
    IN <<Mix(row.ln1, patt, w.mixr), Mix(row.ln1, patt, w.mixk),
         Mix(row.ln1, patt, w.mixv),
         TmixPost(row.gn, row.r, row.wkv_k, row.v, w.r_k, row.gate),
         Mix(row.ln2, pffn, w.fmix), ReluSquare(row.ffn_hid)>>

(* The adjoint of the WKV recurrence at one row. *)
WkvBackwardRow(row, before, dy, ds) ==
    LET s == before.v
        dnew == (ds + row.r.v * dy) % P
        sa == (s * row.neg_kk.v) % P
        dsa == (dnew * row.kka.v) % P
        updated == (s * row.decay.v + sa * row.kka.v
                    + row.wkv_k.v * row.v.v) % P
    IN [dr |-> (updated * dy) % P,
        draw |-> (FnD(6, row.raw_w.v) * dnew * s) % P,
        dk |-> (dnew * row.v.v) % P, dv |-> (dnew * row.wkv_k.v) % P,
        da |-> (s * dsa) % P, db |-> (dnew * sa) % P,
        ds |-> (dnew * row.decay.v + row.neg_kk.v * dsa) % P]

(* The adjoints through the gated output, the gated keys and the value      *)
(* residual, each given the adjoints of what it produced.                   *)
PostBackward(w, row, dpost) ==
    LET dgn == (dpost * row.gate.v) % P
        q == (row.r.v * row.wkv_k.v * w.r_k) % P
        dq == (dgn * row.v.v) % P
    IN [dgn |-> dgn, dr |-> (dq * row.wkv_k.v * w.r_k) % P,
        dk |-> (dq * row.r.v * w.r_k) % P, dv |-> (dgn * q) % P,
        dgate |-> (dpost * (row.gn.v + q * row.v.v)) % P]

KkBackward(w, row, dnewk, dneg, dkka) ==
    LET al == row.alpha.v
        dkk == (dkka * al - dneg) % P
        da == (dkka * (P - row.neg_kk.v) + dnewk * row.k.v * w.k_a) % P
    IN [dk |-> (dnewk * ((1 - w.k_a + al * w.k_a) % P)
                + FnD(5, (row.k.v * w.k_k) % P) * dkk * w.k_k) % P,
        da12 |-> (da * al * (1 - al)) % P]

VresBackward(zero, row, dv, vfg) ==
    LET gt == row.v_gate.v
    IN IF zero
       THEN [dvb |-> (dv + vfg) % P, dv12 |-> 0, vfg |-> vfg]
       ELSE [dvb |-> (dv * (1 - gt)) % P,
             dv12 |-> (dv * ((row.v_first.v - row.v_base.v) % P)
                       * ((gt * (1 - gt)) % P)) % P,
             vfg |-> (vfg + dv * gt) % P]

NormBackward(i, x, weight, dy) == (weight * FnD(i, x.v) * dy) % P

(* One row back through the block, section by section.  g is the adjoint    *)
(* of its output, acc the adjoints of what the next row (or the next chunk)  *)
(* took over: the state and the two shifts; vfg what the later layers sent   *)
(* to layer 0's value.                                                      *)
ChannelMixBackward(W, row, g, dffn) ==
    LET w == W.w
        dact == (g * w.fval + AdapterInputGrad(W, 5, g)) % P
        dhid == IF Positive(row.ffn_hid.v)
                THEN (2 * row.ffn_hid.v * dact) % P ELSE 0
        dmix == (dhid * w.fkey + AdapterInputGrad(W, 4, dhid)) % P
        dln2 == (dmix * (1 - w.fmix) + dffn) % P
    IN [g |-> g, dhid |-> dhid, dmix |-> dmix,
        gxa |-> (g + NormBackward(1, row.x_after_att, w.ln2w, dln2)) % P]

RecurBackward(W, row, before, b, ds) ==
    LET dpost == (b.gxa * W.w.out + AdapterInputGrad(W, 3, b.gxa)) % P
        post == PostBackward(W.w, row, dpost)
        kv == WkvBackwardRow(row, before, NormBackward(7, row.wkv_y, W.w.gnw, post.dgn), ds)
    IN b @@ [dr |-> (kv.dr + post.dr) % P, dnewk |-> (kv.dk + post.dk) % P,
             dv |-> (kv.dv + post.dv) % P, dgate |-> post.dgate, draw |-> kv.draw,
             dneg |-> kv.da, dkka |-> kv.db, ds |-> kv.ds]

GatesBackward(W, zero, row, b, vfg) ==
    b @@ KkBackward(W.w, row, b.dnewk, b.dneg, b.dkka)
      @@ VresBackward(zero, row, b.dv, vfg)

ProjectBackward(W, row, x, b, datt) ==
    LET w == W.w
        dxw == (b.draw * w.w2
                * ((1 - row.w1_tanh.v * row.w1_tanh.v) % P) * w.w1) % P
        dxa == (b.da12 * w.a2 * w.a1) % P
        dxg == (b.dgate * w.g2 * ((row.g1_sigmoid.v * (1 - row.g1_sigmoid.v)) % P)
                * w.g1) % P
        dxr == (b.dr * w.rec + AdapterInputGrad(W, 0, b.dr)) % P
        dxk == (b.dk * w.key + AdapterInputGrad(W, 1, b.dk)) % P
        dxv == (b.dvb * w.val + AdapterInputGrad(W, 2, b.dvb)
                + b.dv12 * w.v2 * w.v1) % P
        mixed == (dxr * w.mixr + dxw * w.mixw + dxk * w.mixk + dxv * w.mixv
                  + dxa * w.mixa + dxg * w.mixg) % P
        dln1 == (dxr + dxw + dxk + dxv + dxa + dxg - mixed + datt) % P
    IN [dx |-> (b.gxa + NormBackward(1, row.x, w.ln1w, dln1)) % P,
        ds |-> b.ds, att |-> mixed, ffn |-> (b.dmix * w.fmix) % P,
        vfg |-> b.vfg,
        grads |-> [i \in 1..6 |-> AdapterGrad(W, i - 1,
                     <<b.dr, b.dk, b.dvb, b.gxa, b.dhid, b.g>>[i], row, x[i])]]

BackwardRow(W, zero, tape, before, t, g, acc, vfg) ==
    LET row == tape.rows[t]
        b == RecurBackward(W, row, before[t],
                           ChannelMixBackward(W, row, g, acc.ffn), acc.ds)
    IN ProjectBackward(W, row, NoraInputs(W, tape, t),
                       GatesBackward(W, zero, row, b, vfg), acc.att)

(* The block backward over the rows of its tape: adjoints gs of the output, *)
(* ds, datt, dffn of the state and shifts after the last row, vfg of layer  *)
(* 0's value, history the WKV states.                                       *)
BlockBackward(W, zero, tape, history, gs, ds, datt, dffn, vfg) ==
    LET n == Len(tape.rows)
        Step(acc, j) ==
            LET t == n + 1 - j
                b == BackwardRow(W, zero, tape, history, t, gs[t], acc, vfg[t])
            IN [dx |-> <<b.dx>> \o acc.dx, vfg |-> <<b.vfg>> \o acc.vfg,
                ds |-> b.ds, att |-> b.att, ffn |-> b.ffn,
                grads |-> Append(acc.grads, b.grads)]
    IN FoldLeft(Step, [dx |-> <<>>, vfg |-> <<>>, ds |-> ds, att |-> datt,
                       ffn |-> dffn, grads |-> <<>>],
                [j \in 1 .. n |-> j])

-----------------------------------------------------------------------------

CONSTANTS Layers,      \* number of blocks
          Chunks,      \* the chunk sizes an executor is built with
          Kinds,       \* the adapters: subset of {"none", "miss", "nora"}
          Seeds,       \* the weights are drawn from these
          Examples,    \* loss weights of a sequence, one per token
          MaxCalls     \* bound on the calls of one executor

ChunkedBackwardConstants ==
    /\ Layers \in Nat \ {0}
    /\ Chunks \subseteq 1 .. (P - 1)
    /\ Kinds \subseteq {"none", "miss", "nora"}
    /\ \A e \in Examples : Len(e) >= 2

VARIABLES chunk,        \* rows the buffers hold
          weights,      \* [0..L-1 -> weights of the block]
          model,        \* embedding, output norm, head
          pc, call, j, layer, calls,
          rows,         \* activations between two blocks
          first,        \* v_first: layer 0's values, shared by all layers
          tapes,        \* what each block recorded in its last forward pass
          history,      \* the one WKV tape, shared by all layers
          carried, shifts,            \* recurrent state and shifts per layer
          checkpoints,  \* both at each chunk boundary
          grads,        \* adjoints between two blocks
          firstGrad,    \* adjoint of v_first
          stateGrad, perBatch,        \* adjoint of final / of initial state
          terminalShift, shiftGrad,   \* the same for the shifts
          adapterGrad,  \* accumulated gradients of the adapter factors
          loss, total, scores,
          past          \* calls of the batch that have returned

vars == <<chunk, weights, model, pc, call, j, layer, calls, rows, first, tapes,
          history, carried, shifts, checkpoints, grads, firstGrad, stateGrad,
          perBatch, terminalShift, shiftGrad, adapterGrad, loss, total, scores,
          past>>

fwdVars == <<rows, first, tapes, carried, shifts>>
bwdVars == <<history, grads, firstGrad, stateGrad, perBatch, terminalShift,
             shiftGrad, adapterGrad>>
fixed == <<chunk, weights, model>>

LayerIds == 0 .. (Layers - 1)
Vocab == {0, 1}
Temperature == 3
Normalizer == 5

(* The initial state of layer l in a call. *)
InitialState(l) == l + 2

Weights(seed, kind, l) ==
    [w |-> [n \in ToSet(WeightNames) |->
              LET i == CHOOSE i \in DOMAIN WeightNames : WeightNames[i] = n
              IN 1 + ((seed * i * i + 3 * i + 5 * l) % (P - 1))],
     d |-> [i \in Targets |-> Num(seed + 2 * i + l + 1)],
     a |-> [i \in Targets |-> Num(2 * seed + i + 3 * l + 2)],
     kind |-> kind]

NoCall == [op |-> "none", e |-> <<>>, tokens |-> <<>>, length |-> 0]

Zeros(n) == [t \in 1 .. n |-> 0]

Init ==
    /\ chunk \in Chunks
    /\ \E seed \in Seeds, kind \in Kinds :
          /\ weights = [l \in LayerIds |-> Weights(seed, kind, l)]
          /\ model = [emb |-> [v \in Vocab |-> (seed + 4 * v) % P],
                      lnw |-> 2, lnb |-> 1, head |-> [v \in Vocab |-> 3 + v]]
    /\ pc = "idle" /\ call = NoCall /\ j = 0 /\ layer = 0 /\ calls = 0
    /\ rows = <<>> /\ first = <<>> /\ history = <<>> /\ grads = <<>>
    /\ firstGrad = <<>>
    /\ tapes = [l \in LayerIds |-> <<>>]
    /\ carried = [l \in LayerIds |-> Num(0)]
    /\ shifts = [l \in LayerIds |-> [att |-> Num(0), ffn |-> Num(0)]]
    /\ checkpoints = <<>>
    /\ stateGrad = [l \in LayerIds |-> 0]
    /\ perBatch = [l \in LayerIds |-> 0]
    /\ terminalShift = [l \in LayerIds |-> [att |-> 0, ffn |-> 0]]
    /\ shiftGrad = [l \in LayerIds |-> [att |-> 0, ffn |-> 0]]
    /\ adapterGrad = [l \in LayerIds |-> [i \in Targets |-> [d |-> 0, a |-> 0]]]
    /\ loss = 0 /\ total = 0 /\ scores = <<>> /\ past = <<>>

-----------------------------------------------------------------------------
(* The loss of a row.  The exponential is a formal function that is its own *)
(* derivative, with values small enough that their sum is invertible; the   *)
(* maximum the kernel subtracts first cancels and is left out.              *)
ExpOf(a) == 1 + ((a * a + a) % (P \div 2))

Exp(x) == [v |-> ExpOf(x.v), d |-> (ExpOf(x.v) * x.d) % P]

Log(x) == [v |-> Fn(8, x.v), d |-> (InverseOf(x.v) * x.d) % P]

(* The logits of a row divided by the temperature. *)
Logits(x) ==
    [v \in Vocab |-> Scale(InverseOf(Temperature),
                           Scale(model.head[v], Norm(1, x, model.lnw, model.lnb)))]

CrossEntropy(x, target) ==
    Log(Exp(Logits(x)[0]) ++ Exp(Logits(x)[1])) -- Logits(x)[target]

LogProb(x, target) == Num(0) -- CrossEntropy(x, target)

(* d loss / d x of the row: softmax minus one-hot, through head and norm. *)
OutputGrad(x, target, scale) ==
    LET e == [v \in Vocab |-> ExpOf(Logits(x)[v].v)]
        sum == InverseOf((e[0] + e[1]) % P)
        dlogit(v) == (((e[v] * sum - (IF v = target THEN 1 ELSE 0)) % P)
                      * scale * InverseOf(Temperature)) % P
        dnorm == (dlogit(0) * model.head[0] + dlogit(1) * model.head[1]) % P
    IN (model.lnw * FnD(1, x.v) * dnorm) % P

-----------------------------------------------------------------------------
LastWeighted(e) == Max({0} \cup {t \in 1 .. (Len(e) - 1) : e[t + 1] # 0})

Tokens(e) == [i \in 1 .. Len(e) |-> (i * i + i \div 2) % 2]

NumChunks == 1 + (call.length - 1) \div chunk

Offset == j * chunk

ChunkRows == LET n == call.length - Offset IN IF n < chunk THEN n ELSE chunk

ResetStates ==
    /\ carried' = [l \in LayerIds |-> Num(InitialState(l))]
    /\ shifts' = [l \in LayerIds |-> [att |-> Num(0), ffn |-> Num(0)]]

(* Executor::backward up to its first pass: the rows after the last         *)
(* weighted target are dropped, the adjoints cleared.                       *)
BeginBackward(e) ==
    LET n == LastWeighted(e)
    IN /\ pc = "idle" /\ calls < MaxCalls
       /\ calls' = calls + 1
       /\ stateGrad' = [l \in LayerIds |-> 0]
       /\ terminalShift' = [l \in LayerIds |-> [att |-> 0, ffn |-> 0]]
       /\ total' = 0
       /\ IF n = 0
          THEN /\ past' = Append(past, [op |-> "backward", e |-> e])
               /\ UNCHANGED <<pc, call, j, carried, shifts, checkpoints>>
          ELSE /\ call' = [op |-> "backward", e |-> e, tokens |-> Tokens(e),
                           length |-> n]
               /\ pc' = "save" /\ j' = 0
               /\ checkpoints' = <<>>
               /\ ResetStates
               /\ UNCHANGED past
       /\ UNCHANGED <<fixed, layer, rows, first, tapes, history, grads,
                      firstGrad, perBatch, shiftGrad, adapterGrad, loss, scores>>

(* Executor::score: every row is scored, from a fresh state. *)
BeginScore(e) ==
    /\ pc = "idle" /\ calls < MaxCalls
    /\ calls' = calls + 1
    /\ call' = [op |-> "score", e |-> e, tokens |-> Tokens(e),
                length |-> Len(e) - 1]
    /\ pc' = "load" /\ j' = 0 /\ scores' = <<>>
    /\ ResetStates
    /\ UNCHANGED <<fixed, layer, rows, first, tapes, bwdVars, checkpoints, loss,
                   total, past>>

(* First pass: keep the boundary before chunk j; the last chunk is not run. *)
Save ==
    /\ pc = "save"
    /\ checkpoints' = Append(checkpoints, [state |-> carried, shift |-> shifts])
    /\ pc' = IF j + 1 < NumChunks THEN "load" ELSE "restore"
    /\ UNCHANGED <<fixed, call, j, layer, calls, fwdVars, bwdVars, loss, total,
                   scores, past>>

Restore ==
    /\ pc = "restore"
    /\ carried' = checkpoints[j + 1].state
    /\ shifts' = checkpoints[j + 1].shift
    /\ pc' = "load"
    /\ UNCHANGED <<fixed, call, j, layer, calls, rows, first, tapes, bwdVars,
                   checkpoints, loss, total, scores, past>>

(* Impl::forward: the embeddings of the chunk's tokens. *)
Load ==
    /\ pc = "load"
    /\ rows' = [t \in 1 .. ChunkRows |-> Num(model.emb[call.tokens[Offset + t]])]
    /\ layer' = 0 /\ pc' = "forward"
    /\ UNCHANGED <<fixed, call, j, calls, first, tapes, carried, shifts, bwdVars,
                   checkpoints, loss, total, scores, past>>

(* One turn of the loop of model_forward: the block reads the layer's       *)
(* carried state and shifts and leaves the new ones.  In the first pass of  *)
(* backward the chunk that follows is saved next.                           *)
FirstPass == call.op = "backward" /\ Len(checkpoints) < NumChunks

LayerDone(b) ==
    /\ tapes' = [tapes EXCEPT ![layer] = b]
    /\ carried' = [carried EXCEPT ![layer] = b.state]
    /\ shifts' = [shifts EXCEPT ![layer] = [att |-> b.att, ffn |-> b.ffn]]
    /\ rows' = [t \in 1 .. Len(b.rows) |-> b.rows[t].out]
    /\ first' = IF layer = 0 THEN [t \in 1 .. Len(b.rows) |-> b.rows[t].v_base]
                ELSE first

ForwardLayer ==
    LET last == layer + 1 = Layers
    IN /\ pc = "forward"
       /\ LayerDone(BlockForward(weights[layer], layer = 0, rows, first,
                    shifts[layer].att, shifts[layer].ffn, carried[layer]))
       /\ layer' = layer + 1
       /\ pc' = CASE ~last -> "forward"
                  [] last /\ call.op = "score" -> "score"
                  [] last /\ FirstPass -> "save"
                  [] OTHER -> "loss"
       /\ j' = IF last /\ FirstPass THEN j + 1 ELSE j
       /\ UNCHANGED <<fixed, call, calls, bwdVars, checkpoints, loss, total,
                      scores, past>>

(* The local loss and its derivative, or zero where no target of the chunk  *)
(* has a weight; model_backward clears the adjoint of v_first.              *)
LossScale(t) ==
    (ChunkRows * InverseOf(Normalizer) * InverseOf(ChunkRows)
        * call.e[Offset + t + 1]) % P

Supervised == \E t \in 1 .. ChunkRows : call.e[Offset + t + 1] # 0

Loss ==
    /\ pc = "loss"
    /\ grads' = IF Supervised
                THEN [t \in 1 .. ChunkRows |->
                        OutputGrad(rows[t], call.tokens[Offset + t + 1],
                                   LossScale(t))]
                ELSE Zeros(ChunkRows)
    /\ loss' = IF Supervised
               THEN MapThenSumSet(LAMBDA t : LossScale(t) *
                        CrossEntropy(rows[t], call.tokens[Offset + t + 1]).v,
                        1 .. ChunkRows) % P
               ELSE 0
    /\ firstGrad' = Zeros(ChunkRows)
    /\ layer' = Layers - 1
    /\ pc' = "backward"
    /\ UNCHANGED <<fixed, call, j, calls, fwdVars, checkpoints, history,
                   stateGrad, perBatch, terminalShift, shiftGrad, adapterGrad,
                   total, scores, past>>

(* One turn of the loop of model_backward, from the last layer to the       *)
(* first.  The block regenerates its WKV history into the shared tape.      *)
LayerUndone(b) ==
    /\ grads' = b.dx
    /\ firstGrad' = b.vfg
    /\ perBatch' = [perBatch EXCEPT ![layer] = b.ds]
    /\ shiftGrad' = [shiftGrad EXCEPT ![layer] = [att |-> b.att, ffn |-> b.ffn]]
    /\ adapterGrad' = [adapterGrad EXCEPT ![layer] =
         [i \in Targets |->
            [d |-> (@[i].d + FoldLeft(LAMBDA s, g : s + g[i + 1].d, 0, b.grads)) % P,
             a |-> (@[i].a + FoldLeft(LAMBDA s, g : s + g[i + 1].a, 0, b.grads)) % P]]]

BackwardLayer ==
    /\ pc = "backward"
    /\ history' = WkvHistory(tapes[layer])
    /\ LayerUndone(BlockBackward(weights[layer], layer = 0, tapes[layer], history',
                   grads, stateGrad[layer], terminalShift[layer].att,
                   terminalShift[layer].ffn, firstGrad))
    /\ layer' = layer - 1
    /\ pc' = IF layer = 0 THEN "boundary" ELSE "backward"
    /\ UNCHANGED <<fixed, call, j, calls, fwdVars, checkpoints, stateGrad,
                   terminalShift, loss, total, scores, past>>

(* Mutant: the state adjoint is added to that of the chunk after it. *)
HandOverAccumulates ==
    /\ stateGrad' = [l \in LayerIds |-> (stateGrad[l] + perBatch[l]) % P]
    /\ terminalShift' = shiftGrad

(* The chunk's incoming adjoints become the outgoing ones of the chunk      *)
(* before it.                                                               *)
HandOver ==
    /\ stateGrad' = perBatch
    /\ terminalShift' = shiftGrad

Boundary ==
    /\ pc = "boundary"
    /\ HandOver
    /\ total' = (total + loss) % P
    /\ IF j = 0
       THEN pc' = "idle" /\ past' = Append(past, [op |-> "backward", e |-> call.e])
            /\ UNCHANGED j
       ELSE pc' = "restore" /\ j' = j - 1 /\ UNCHANGED past
    /\ UNCHANGED <<fixed, call, layer, calls, fwdVars, checkpoints, history,
                   grads, firstGrad, perBatch, shiftGrad, adapterGrad, loss,
                   scores>>

(* A loss that is not finite throws, at any chunk: the call gives no result *)
(* and leaves its buffers as they are.                                      *)
NonfiniteLoss ==
    /\ pc = "boundary"
    /\ HandOver
    /\ pc' = "failed"
    /\ UNCHANGED <<fixed, call, j, layer, calls, fwdVars, checkpoints, history,
                   grads, firstGrad, perBatch, shiftGrad, adapterGrad, loss,
                   total, scores, past>>

(* The caller drops its batch; the next one begins with cleared gradients of *)
(* the adapter, on the same executor.                                       *)
NextBatch ==
    /\ pc = "failed" /\ pc' = "idle" /\ past' = <<>>
    /\ adapterGrad' = [l \in LayerIds |-> [i \in Targets |-> [d |-> 0, a |-> 0]]]
    /\ UNCHANGED <<fixed, call, j, layer, calls, fwdVars, checkpoints, history,
                   grads, firstGrad, stateGrad, perBatch, terminalShift,
                   shiftGrad, loss, total, scores>>

ScoreChunk ==
    /\ pc = "score"
    /\ scores' = scores \o [t \in 1 .. ChunkRows |->
                              LogProb(rows[t], call.tokens[Offset + t + 1]).v]
    /\ IF j + 1 < NumChunks
       THEN pc' = "load" /\ j' = j + 1 /\ UNCHANGED past
       ELSE pc' = "idle" /\ past' = Append(past, [op |-> "score", e |-> call.e])
            /\ UNCHANGED j
    /\ UNCHANGED <<fixed, call, layer, calls, fwdVars, bwdVars, checkpoints,
                   loss, total>>

Next ==
    \/ \E e \in Examples : BeginBackward(e) \/ BeginScore(e)
    \/ Save \/ Restore \/ Load \/ ForwardLayer \/ Loss \/ BackwardLayer
    \/ Boundary \/ NonfiniteLoss \/ NextBatch \/ ScoreChunk

Spec == Init /\ [][Next]_vars

-----------------------------------------------------------------------------
(* The reference: the whole sequence in one forward pass, every row a dual  *)
(* number, with the weights ws and the initial states ss.                   *)
Through(acc, l, made) ==
    [x |-> [t \in DOMAIN made |-> made[t].out],
     vf |-> IF l = 1 THEN [t \in DOMAIN made |-> made[t].v_base] ELSE acc.vf]

Whole(ws, ss, tokens, n) ==
    LET Step(acc, l) ==
            Through(acc, l, BlockForward(ws[l - 1], l = 1, acc.x, acc.vf, Num(0),
                                         Num(0), ss[l - 1]).rows)
    IN FoldLeft(Step, [x |-> [t \in 1 .. n |-> Num(model.emb[tokens[t]])],
                       vf |-> <<>>],
                [l \in 1 .. Layers |-> l]).x

WholeLoss(ws, ss, e) ==
    LET n == Len(e) - 1
        x == Whole(ws, ss, Tokens(e), n)
    IN FoldLeft(LAMBDA acc, t :
                  acc ++ Scale(e[t + 1] * InverseOf(Normalizer),
                               CrossEntropy(x[t], Tokens(e)[t + 1])),
                Num(0), [t \in 1 .. n |-> t])

States == [l \in LayerIds |-> Num(InitialState(l))]

Along(x) == [x EXCEPT !.d = 1]

StateDerivative(l, e) == WholeLoss(weights, [States EXCEPT ![l] = Along(@)], e)

FactorDerivative(l, i, e) ==
    [d |-> WholeLoss([weights EXCEPT ![l].d[i] = Along(@)], States, e).d,
     a |-> IF weights[l].kind # "nora" THEN 0
           ELSE WholeLoss([weights EXCEPT ![l].a[i] = Along(@)], States, e).d]

TypeOK ==
    /\ pc \in {"idle", "save", "restore", "load", "forward", "loss", "backward",
               "boundary", "score", "failed"}
    /\ \A l \in LayerIds : carried[l] \in Dual /\ stateGrad[l] \in Residue
    /\ Len(rows) <= chunk /\ Len(first) <= chunk /\ Len(grads) <= chunk
    /\ total \in Residue

Returned(op) == pc = "idle" /\ past # <<>> /\ Last(past).op = op

(* What backward() returns is the derivative of the loss of the whole       *)
(* sequence with respect to the initial state of every layer, and the loss  *)
(* itself: chunking detaches nothing, counts no target twice, and the rows  *)
(* it skips after the last weighted target contribute nothing.              *)
StateGradientIsDerivative ==
    Returned("backward") =>
        LET e == Last(past).e
        IN \A l \in LayerIds :
              /\ stateGrad[l] = StateDerivative(l, e).d
              /\ total = StateDerivative(l, e).v

(* The accumulated gradients of the adapter factors are the derivatives     *)
(* summed over the batch so far: the replayed inputs, reduced values and    *)
(* adjoints all belong to the chunk being differentiated.                   *)
AdapterGradientIsDerivative ==
    Returned("backward") /\ weights[0].kind # "none" =>
        LET runs == {n \in DOMAIN past : past[n].op = "backward"}
        IN \A l \in LayerIds, i \in Targets :
              LET ref == [n \in runs |-> FactorDerivative(l, i, past[n].e)]
              IN /\ adapterGrad[l][i].d
                      = MapThenSumSet(LAMBDA n : ref[n].d, runs) % P
                 /\ adapterGrad[l][i].a
                      = MapThenSumSet(LAMBDA n : ref[n].a, runs) % P

(* score() gives each target the log probability the whole sequence gives   *)
(* it, whatever the chunk size and whatever the executor did before.        *)
ScoresAreUnchunked ==
    Returned("score") =>
        LET e == Last(past).e
            n == Len(e) - 1
            x == Whole(weights, States, Tokens(e), n)
        IN scores = [t \in 1 .. n |-> LogProb(x[t], Tokens(e)[t + 1]).v]

=============================================================================
