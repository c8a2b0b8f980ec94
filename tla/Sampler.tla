------------------------------- MODULE Sampler -------------------------------
(***************************************************************************)
(* The sampling kernels of src/src/utils/sampling.cu: one block draws the  *)
(* next token of a row.  Probabilities are integers, One standing for 1.0; *)
(* as the bits of a float that is not negative are ordered like its value, *)
(* an integer stands for its own bit pattern.  Sums are rounded to         *)
(* Mantissa bits.  The softmax before the search and the penalties after   *)
(* the draw are floating-point arithmetic without control and left out.    *)
(***************************************************************************)
EXTENDS WarpSums, Functions

CONSTANTS
  Threads,              \* blockDim.x, 1024
  Vec,                  \* floats of a float4
  V,                    \* vocab_size
  Values,               \* the probabilities tokens have
  One,                  \* the probability 1
  Slack,                \* bound: how far the rounded probabilities sum from One
  Mantissa,             \* bits of a float's mantissa
  TopKs, TopPs,         \* what callers ask for
  Kernels               \* "rows", "topk" and "topp"

UintRange == 2^16       \* unsigned, 2^32 in the code

SamplerAssumption ==
  /\ Threads % WarpSize = 0 /\ Threads % Vec = 0
  /\ V % Vec = 0 /\ V <= Threads * Threads
  /\ Values \subseteq Nat /\ One > 0 /\ Mantissa > 0
  /\ \A k \in TopKs : k \in Int
  /\ \A p \in TopPs : p \in Int

VARIABLES
  kernel,               \* the kernel that was launched
  probs,                \* the softmax of the row
  top_k, top_p,
  left, right,          \* the search's interval of bit patterns
  cnt, mass,            \* cnt.x and l4.x: of the tokens from left on
  rounds,               \* history: of the search
  pc,
  weight,               \* of every token in the draw, in units of 1 / Den
  cumu,                 \* the running sum of every thread
  idxt,                 \* the thread whose tokens are drawn from
  out                   \* outputs[b]

vars == <<kernel, probs, top_k, top_p, left, right, cnt, mass, rounds, pc, weight, cumu, idxt, out>>

Tokens == 0..V - 1
Tids == 0..Threads - 1
Warps == 0..(Threads \div WarpSize) - 1

-----------------------------------------------------------------------------
\* Floating-point addition: to the nearest of Mantissa bits, ties to even.
Round(n) ==
  LET unit  == 2^(CHOOSE e \in 0..30 : /\ n < 2^(e + Mantissa)
                                       /\ e > 0 => n >= 2^(e - 1 + Mantissa))
      down  == n \div unit
      twice == 2 * (n % unit)
      up    == twice > unit \/ (twice = unit /\ down % 2 = 1)
  IN (IF up THEN down + 1 ELSE down) * unit

Add(a, b) == Round(a + b)

AddAll(s) == FoldLeft(Add, 0, s)

\* warpReduceAll with SumOp: every lane ends with the sum.
ShuffleXor(v, offset) ==
  [l \in Lanes |-> Add(v[l], v[IF (l \div offset) % 2 = 0 THEN l + offset ELSE l - offset])]

LanesOf(w, v) == [l \in Lanes |-> v[w * WarpSize + l]]

\* blockReduceAll with monotone_sum: thread 0 adds the sums of the warps.
blockReduceAll(v) ==
  AddAll([w \in 1..Cardinality(Warps) |->
            FoldLeft(ShuffleXor, LanesOf(w - 1, v), ShuffleOffsets)[WarpSize - 1]])

ShuffleUp(v, offset) ==
  [l \in Lanes |-> IF l >= offset THEN Add(v[l], v[l - offset]) ELSE v[l]]

warpInclusiveScan(v) == FoldLeft(ShuffleUp, v, ShuffleOffsets)

\* Thread 0 adds up the sums of the warps in order; every thread adds what the
\* warps before its own have.
blockInclusiveScan(v) ==
  LET scan   == [w \in Warps |-> warpInclusiveScan(LanesOf(w, v))]
      before[w \in Warps] == IF w = 0 THEN scan[0][WarpSize - 1]
                             ELSE Add(before[w - 1], scan[w][WarpSize - 1])
  IN [t \in Tids |-> LET w == t \div WarpSize
                         own == scan[w][t % WarpSize]
                     IN IF w > 0 THEN Add(own, before[w - 1]) ELSE own]

-----------------------------------------------------------------------------
\* The tokens a thread reads: groups of Vec, a stride of all threads apart.
TokensOf ==
  [t \in Tids |-> SelectSeq([i \in 1..V |-> i - 1], LAMBDA i : (i \div Vec) % Threads = t)]

\* A thread's sum of the tokens it reads, of those of a set.
ThreadMass(t, picked) ==
  FoldLeft(LAMBDA sum, i : Add(sum, probs[i]), 0, SelectSeq(TokensOf[t], LAMBDA i : i \in picked))

Count(x) == Cardinality({i \in Tokens : probs[i] >= x})
Mass(x) == blockReduceAll([t \in Tids |-> ThreadMass(t, {i \in Tokens : probs[i] >= x})])

\* Fewer than top_k tokens and less than top_p: the threshold is lower.
Low(c, m) == (kernel = "topp" \/ c < top_k) /\ m < top_p
High(c, m) == (kernel # "topp" /\ c > top_k) \/ m > top_p

\* What sample_rows and the launchers make of top_k and top_p.
Clip(k, p) ==
  IF p = 0 THEN [k |-> 1, p |-> One]
  ELSE [k |-> IF k <= 0 \/ k > V THEN V ELSE k, p |-> IF p < 0 \/ p > One THEN One ELSE p]

Exact(f) == MapThenSumSet(LAMBDA i : f[i], DOMAIN f)

\* The launch.  The kernel for top_p alone is taken when all tokens count.
Init ==
  /\ kernel \in Kernels
  /\ probs \in [Tokens -> Values]
  /\ Exact(probs) \in (One - Slack)..(One + Slack)
  /\ \E k \in TopKs, p \in TopPs : /\ top_k = Clip(k, p).k
                                   /\ top_p = Clip(k, p).p
  /\ kernel = "topp" => top_k = V
  /\ left = Min(Range(probs)) /\ right = Max(Range(probs)) + 1
  /\ cnt = V /\ mass = One /\ rounds = 0
  /\ pc = IF kernel = "rows" /\ top_k = 1 THEN "greedy" ELSE "search"
  /\ weight = [i \in Tokens |-> 0] /\ cumu = [t \in Tids |-> 0]
  /\ idxt = 0 /\ out = V

\* A row that asks for one token: the first of the most probable.
Greedy ==
  /\ pc = "greedy"
  /\ out' = Min({i \in Tokens : probs[i] = Max(Range(probs))})
  /\ pc' = "done"
  /\ UNCHANGED <<kernel, probs, top_k, top_p, left, right, cnt, mass, rounds,
                 weight, cumu, idxt>>

Pivots ==
  LET z == (left + right) \div 2
  IN [x |-> left, y |-> (left + z) \div 2, z |-> z, w |-> (z + right) \div 2]

\* Mutant: the last interval takes the count and mass of the first pivot.
BracketOldCount ==
  LET q == Pivots
      cy == Count(q.y)  my == Mass(q.y)
      cz == Count(q.z)  mz == Mass(q.z)
      cw == Count(q.w)  mw == Mass(q.w)
      To(l, r, c, m) == left' = l /\ right' = r /\ cnt' = c /\ mass' = m
  IN CASE Low(cy, my) -> To(q.x, q.y, cnt, mass)
       [] Low(cz, mz) -> To(q.y, q.z, cy, my)
       [] Low(cw, mw) -> To(q.z, q.w, cz, mz)
       [] OTHER       -> To(q.w, right, cy, my)

\* The first of the four intervals whose right end is too high.
Bracket ==
  LET q == Pivots
      cy == Count(q.y)  my == Mass(q.y)
      cz == Count(q.z)  mz == Mass(q.z)
      cw == Count(q.w)  mw == Mass(q.w)
      To(l, r, c, m) == left' = l /\ right' = r /\ cnt' = c /\ mass' = m
  IN CASE Low(cy, my) -> To(q.x, q.y, cnt, mass)
       [] Low(cz, mz) -> To(q.y, q.z, cy, my)
       [] Low(cw, mw) -> To(q.z, q.w, cz, mz)
       [] OTHER       -> To(q.w, right, cw, mw)

\* The loop's condition, on unsigned numbers.
Searching == High(cnt, mass) /\ left < (right - 1) % UintRange

\* One round of the search for the threshold.
Search ==
  /\ pc = "search" /\ Searching
  /\ Bracket
  /\ rounds' = rounds + 1
  /\ UNCHANGED <<kernel, probs, top_k, top_p, pc, weight, cumu, idxt, out>>

-----------------------------------------------------------------------------
\* The draw.  left is the threshold now; weights are in units of 1 / Den.
Neqk == Cardinality({i \in Tokens : probs[i] = left})
Den == IF Neqk > 0 /\ left > 0 THEN left * Neqk ELSE 1

\* sgtp and sgtk: the mass and number of the tokens above the threshold.
sgtp == blockInclusiveScan([t \in Tids |-> ThreadMass(t, {i \in Tokens : probs[i] > left})])[Threads - 1]
sgtk == Cardinality({i \in Tokens : probs[i] > left})

\* comp, over Den: the part of the tokens at the threshold that still fits.  Its
\* value does not matter when none is there or the threshold is 0.
Comp ==
  LET byCount == IF kernel = "topp" THEN {} ELSE {((top_k - sgtk) % UintRange) * left}
  IN IF Neqk > 0 /\ left > 0 THEN Max({0, Min({top_p - sgtp, Den} \cup byCount)}) ELSE 1

\* o of the second draw, for every token.
Weights ==
  LET c == Comp
  IN [i \in Tokens |-> Round(CASE probs[i] < left -> 0
                               [] probs[i] = left -> left * c
                               [] OTHER -> probs[i] * Den)]

\* actual_p of every thread.
ThreadWeights ==
  LET c == Comp
  IN [t \in Tids |->
        Add(Round(ThreadMass(t, {i \in Tokens : probs[i] > left}) * Den),
            Round(left * Len(SelectSeq(TokensOf[t], LAMBDA i : probs[i] = left)) * c))]

\* The search is over: the weights, and their running sum over the threads.
Weigh ==
  /\ pc = "search" /\ ~Searching
  /\ weight' = Weights
  /\ cumu' = blockInclusiveScan(ThreadWeights)
  /\ pc' = "thread"
  /\ UNCHANGED <<kernel, probs, top_k, top_p, left, right, cnt, mass, rounds, idxt, out>>

\* The threads that see the running sum reach the random number and whose
\* neighbour does not: each writes, in any order.
Edges(r) == {t \in Tids : (r <= cumu[t]) # (t > 0 /\ r <= cumu[t - 1])}

\* curand_uniform4 is in (0, 1]: the product with the sum is positive.
Draws == 1..cumu[Threads - 1]

\* The token a thread looks at in the second draw.
Idn(thread, t) == thread * Vec + (t \div Vec) * Vec * Threads + (t % Vec)

\* The first draw, of a thread, and the running sum over that thread's tokens.
DrawThread ==
  /\ pc = "thread"
  /\ idxt' \in UNION {Edges(r) : r \in Draws}
  /\ cumu' = blockInclusiveScan([t \in Tids |-> IF Idn(idxt', t) < V THEN weight[Idn(idxt', t)]
                                                ELSE 0])
  /\ pc' = "token"
  /\ UNCHANGED <<kernel, probs, top_k, top_p, left, right, cnt, mass, rounds, weight, out>>

\* The second draw, of one of its tokens.
DrawToken ==
  /\ pc = "token"
  /\ \E t \in UNION {Edges(r) : r \in Draws} :
       out' = IF Idn(idxt, t) < V THEN Idn(idxt, t) ELSE 0
  /\ pc' = "done"
  /\ UNCHANGED <<kernel, probs, top_k, top_p, left, right, cnt, mass, rounds, weight, cumu, idxt>>

Next == Greedy \/ Search \/ Weigh \/ DrawThread \/ DrawToken

Spec == Init /\ [][Next]_vars

-----------------------------------------------------------------------------
TypeOK ==
  /\ kernel \in Kernels /\ top_k \in 1..V /\ top_p \in 1..One
  /\ left \in 0..One + Slack /\ right \in 0..One + Slack + 1
  /\ pc \in {"greedy", "search", "thread", "token", "done"}
  /\ idxt \in Tids /\ out \in 0..V

\* The threshold is always between the ends of the interval: from left on there
\* is enough, from right on there is not, and cnt and mass are those of left.
SearchBrackets ==
  pc = "search" =>
    /\ ~Low(Count(left), Mass(left))
    /\ Low(Count(right), Mass(right))
    /\ left < right
    /\ left > Min(Range(probs)) => cnt = Count(left) /\ mass = Mass(left)

Sums(S, f(_)) == MapThenSumSet(f, S)

\* When the search has ended the weights are those of top-k and top-p sampling
\* with ties shared: more probable tokens come first, equal ones are treated
\* equally, neither limit is exceeded, and one is reached unless all are kept.
WeightsAreNucleus ==
  pc = "thread" =>
    LET whole(i) == probs[i] * Den
        n == Sums({i \in Tokens : probs[i] > 0}, LAMBDA i : weight[i] \div probs[i])
        limit == IF kernel = "topp" THEN V ELSE top_k
        total == Sums(Tokens, LAMBDA i : weight[i])
    IN /\ \A i, j \in Tokens :
            /\ probs[i] > probs[j] /\ weight[j] > 0 => weight[i] = whole(i)
            /\ probs[i] = probs[j] => weight[i] = weight[j]
       /\ total <= top_p * Den
       /\ n <= limit * Den
       /\ \/ total = top_p * Den
          \/ n = limit * Den
          \/ \A i \in Tokens : weight[i] = whole(i)

\* No token outside top-k and top-p is ever drawn, whatever the rounding: the
\* running sums never fall, and stand still at tokens of weight 0 (sampling.cu:
\* "MUST sum this way to ensure numerical MONOTONICITY").  A greedy row gets one
\* of the most probable tokens.
DrawIsKept ==
  /\ pc \in {"thread", "token"} => Draws # {}
  /\ pc = "done" =>
       /\ out \in Tokens
       /\ IF kernel = "rows" /\ top_k = 1 THEN \A i \in Tokens : probs[out] >= probs[i]
          ELSE weight[out] > 0

\* Without rounding, tokens are drawn in proportion to their weights: of the
\* numbers the two draws compare with, as many lead to a thread, and then to one
\* of its tokens, as they weigh.
DrawIsProportional ==
  LET of(thread) == {i \in Tokens : (i \div Vec) % Threads = thread}
  IN /\ pc = "thread" =>
          \A thread \in Tids :
            Cardinality({r \in Draws : thread \in Edges(r)})
              = Sums(of(thread), LAMBDA i : weight[i])
     /\ pc = "token" =>
          \A i \in of(idxt) :
            Cardinality({r \in Draws : \E t \in Edges(r) : Idn(idxt, t) = i}) = weight[i]

\* Every round of the search leaves at most a quarter of the interval, so that it
\* ends after 16 rounds for 32 bits: for ends a bit apart, for a probability of 0,
\* whose predecessor wraps around, and for probabilities that do not sum to One.
SearchIsShort ==
  pc = "search" =>
    (right - left - 1) * 4^rounds <= Max(Range(probs)) - Min(Range(probs))

=============================================================================
