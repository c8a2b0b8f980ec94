-------------------------------- MODULE Rollout --------------------------------
(***************************************************************************)
(* completions() of the online RL server for one policy: every prompt is      *)
(* prefilled alone (from the longest cached prefix) and moved into a row of    *)
(* the batch decoder; then all rows are sampled by a pool of threads and step  *)
(* together until each has stopped or reached its limit.  The decoder is kept  *)
(* for the next request with as many prompts.                                *)
(*                                                                         *)
(* A recurrent state and the logits after a token are identified with the      *)
(* tokens fed since the policy's initial state.                              *)
(***************************************************************************)
EXTENDS Naturals, Sequences, SequencesExt, FiniteSetsExt

CONSTANTS
  Vocab, Requests,         \* requests: [prompts, max, cached]
  Ctx,                     \* --ctx
  Stops,                   \* stop_token_sequences of the requests
  Threads,                 \* threads of parallel_for
  MaxRequests, None

RolloutAssumption ==
  /\ \A r \in Requests : \A i \in DOMAIN r.prompts : Len(r.prompts[i]) \in 1..Ctx
  /\ 0 \in Vocab

VARIABLES
  pc,          \* where the request is
  at,          \* the row being prefilled
  asked,       \* the request
  rows,        \* rows: prompt, generated, drawn from, limit, active, finish ...
  logits,      \* logits of every row
  decoder,     \* tokens the state of every decoder row has been fed; <<>> if none
  feed,        \* the tokens fed last
  cache,       \* prefix -> [state, logits]
  next,        \* parallel_for: the next index to hand out
  thread,      \* the index a thread works on, or None
  error,       \* parallel_for: an exception was caught
  served       \* requests so far

vars == <<pc, at, asked, rows, logits, decoder, feed, cache, next, thread, error, served>>

Init ==
  /\ pc = "idle" /\ at = 1 /\ asked = None /\ rows = <<>> /\ logits = <<>> /\ decoder = <<>> /\ feed = <<>>
  /\ cache = <<>> /\ next = 1 /\ thread = [t \in Threads |-> None] /\ error = FALSE /\ served = 0

B == Len(asked.prompts)

(* The rows: a cap that need not fit the context stops each row at its own.    *)
Limit(request, i) == Min({request.max, Ctx - Len(request.prompts[i])})
MaxNew(request) == Max({Limit(request, i) : i \in DOMAIN request.prompts})
NewRow(request, i) ==
  [prompt |-> request.prompts[i], generated |-> <<>>, from |-> <<>>, draws |-> 0,
   limit |-> Limit(request, i), active |-> Limit(request, i) > 0, finish |-> "length", next |-> None]

Accept(request) ==
  /\ pc = "idle" /\ served < MaxRequests
  /\ asked' = request
  /\ rows' = [i \in DOMAIN request.prompts |-> NewRow(request, i)]
  /\ logits' = [i \in DOMAIN request.prompts |-> None]
  /\ feed' = [i \in DOMAIN request.prompts |-> 0]
  /\ decoder' = IF MaxNew(request) > 0 /\ Len(decoder) # Len(request.prompts)
                THEN [i \in DOMAIN request.prompts |-> <<>>] ELSE decoder
  /\ pc' = "prefill" /\ at' = 1 /\ error' = FALSE /\ served' = served + 1
  /\ UNCHANGED <<cache, next, thread>>

(* Prefill of row at: the part the cache does not have is fed, snapshot, and    *)
(* the state is loaded into the decoder.  Puts may evict anything.            *)
Known(tokens) == {k \in DOMAIN cache : IsPrefix(k, tokens)}
Longest(ks) == CHOOSE k \in ks : \A o \in ks : Len(o) <= Len(k)
WithEntry(c, k, e) == [x \in DOMAIN c \cup {k} |-> IF x = k THEN e ELSE c[x]]
Some(c) == {[x \in ks |-> c[x]] : ks \in {DOMAIN c} \cup {DOMAIN c \ {x} : x \in DOMAIN c}}
LastLogits(hit, tokens, state) == IF hit = tokens THEN cache[hit].logits ELSE state
Prefill ==
  /\ pc = "prefill"
  /\ LET tokens == asked.prompts[at]
         hit == IF asked.cached /\ Known(tokens) # {} THEN Longest(Known(tokens)) ELSE <<>>
         base == IF hit = <<>> THEN <<>> ELSE cache[hit].state
         state == base \o SubSeq(tokens, Len(hit) + 1, Len(tokens))
         last == LastLogits(hit, tokens, state)
     IN /\ logits' = [logits EXCEPT ![at] = last]
        /\ decoder' = IF MaxNew(asked) > 0 THEN [decoder EXCEPT ![at] = state] ELSE decoder
        /\ IF asked.cached /\ hit # tokens
           THEN \E c \in Some(cache) : cache' = WithEntry(c, tokens, [state |-> state, logits |-> last])
           ELSE UNCHANGED cache
  /\ IF at = B THEN pc' = "loop" /\ UNCHANGED at ELSE at' = at + 1 /\ UNCHANGED pc
  /\ UNCHANGED <<asked, rows, feed, next, thread, error, served>>

-----------------------------------------------------------------------------
(* One round of the decode loop: parallel_for hands every index to one thread; *)
(* sample() of an active row draws from the row's own generator.               *)
LoopBegin ==
  /\ pc = "loop" /\ \E i \in DOMAIN rows : rows[i].active
  /\ pc' = "sample" /\ next' = 1
  /\ UNCHANGED <<at, asked, rows, logits, decoder, feed, cache, thread, error, served>>
Left == next <= B
Claim(t) ==
  /\ pc = "sample" /\ thread[t] = None /\ Left
  /\ thread' = [thread EXCEPT ![t] = next] /\ next' = next + 1
  /\ UNCHANGED <<pc, at, asked, rows, logits, decoder, feed, cache, error, served>>
Draws(i) == rows[i].active
Sample(t) ==
  /\ thread[t] # None
  /\ LET i == thread[t]
     IN IF Draws(i)
        THEN \E v \in Vocab : rows' = [rows EXCEPT ![i] = [@ EXCEPT !.next = v, !.draws = @ + 1]]
        ELSE UNCHANGED rows
  /\ thread' = [thread EXCEPT ![t] = None]
  /\ UNCHANGED <<pc, at, asked, logits, decoder, feed, cache, next, error, served>>
SampleThrows(t) ==                               \* nonfinite logits
  /\ thread[t] # None /\ Draws(thread[t])
  /\ thread' = [thread EXCEPT ![t] = None] /\ error' = TRUE
  /\ UNCHANGED <<pc, at, asked, rows, logits, decoder, feed, cache, next, served>>
Joined == pc = "sample" /\ ~Left /\ \A t \in Threads : thread[t] = None

Rethrow ==                                       \* the request is answered 500
  /\ Joined /\ error
  /\ pc' = "idle"
  /\ UNCHANGED <<at, asked, rows, logits, decoder, feed, cache, next, thread, error, served>>

(* Tokens are appended, the decoder steps all rows (finished ones on their      *)
(* last token), then rows that stop or reach their limit are snapshot.         *)
Stopped(generated) == \E s \in Stops : IsSuffix(s, generated)
FirstRow(i) == logits[1]
DrawnFrom(i) == logits[i]
Appended(i) ==
  [rows[i] EXCEPT !.generated = Append(@, rows[i].next), !.from = Append(@, DrawnFrom(i))]
Fed(i) == IF rows[i].active THEN rows[i].next ELSE feed[i]
Ends(row) == Stopped(row.generated) \/ Len(row.generated) = row.limit
Prefix(i) == asked.prompts[i] \o rows[i].generated \o <<rows[i].next>>
RECURSIVE Snapshots(_, _, _)
Snapshots(c, state, is) ==
  IF is = {} THEN {c}
  ELSE LET i == Min(is)
       IN UNION {Snapshots(WithEntry(d, Prefix(i), [state |-> state[i], logits |-> state[i]]), state, is \ {i}) : d \in Some(c)}
StepAll ==
  /\ Joined /\ ~error
  /\ feed' = [i \in DOMAIN rows |-> Fed(i)]
  /\ decoder' = [i \in DOMAIN rows |-> Append(decoder[i], Fed(i))]
  /\ logits' = decoder'
  /\ rows' = [i \in DOMAIN rows |->
       IF ~rows[i].active THEN rows[i]
       ELSE LET row == Appended(i)
            IN [row EXCEPT !.finish = IF Stopped(row.generated) THEN "stop" ELSE @, !.active = ~Ends(row)]]
  /\ LET ended == {i \in DOMAIN rows : rows[i].active /\ Ends(Appended(i))}
     IN IF asked.cached THEN cache' \in Snapshots(cache, decoder', ended) ELSE UNCHANGED cache
  /\ pc' = "loop"
  /\ UNCHANGED <<at, asked, next, thread, error, served>>

Answer ==
  /\ pc = "loop" /\ \A i \in DOMAIN rows : ~rows[i].active
  /\ pc' = "idle"
  /\ UNCHANGED <<at, asked, rows, logits, decoder, feed, cache, next, thread, error, served>>

Next ==
  \/ \E request \in Requests : Accept(request)
  \/ Prefill \/ LoopBegin \/ Rethrow \/ StepAll \/ Answer
  \/ \E t \in Threads : Claim(t) \/ Sample(t) \/ SampleThrows(t)

Spec == Init /\ [][Next]_vars

-----------------------------------------------------------------------------
TypeOK ==
  /\ pc \in {"idle", "prefill", "loop", "sample"}
  /\ \A i \in DOMAIN rows : rows[i].generated \in Seq(Vocab) /\ rows[i].limit \in 0..Ctx
  /\ \A t \in Threads : thread[t] # None => thread[t] \in DOMAIN rows

(* Every returned logprob is of its token after exactly the prompt and the      *)
(* tokens generated before it, for every hit of the cache, batch size and       *)
(* decoder left over from an earlier request.                                *)
LogprobsDescribeTheHistory ==
  \A i \in DOMAIN rows : \A k \in DOMAIN rows[i].from :
    rows[i].from[k] = rows[i].prompt \o SubSeq(rows[i].generated, 1, k - 1)

(* "the cached state and next-token logits must describe the entire returned    *)
(* token history" (server.cpp 870-871), although rows that have finished step   *)
(* on with the others.                                                      *)
SnapshotsDescribeTheirPrefix ==
  \A k \in DOMAIN cache : cache[k].state = k /\ cache[k].logits = k

(* A row draws once per token it returns: its sample does not depend on how      *)
(* long the other prompts of the request go on.                              *)
OneDrawPerToken ==
  pc = "loop" => \A i \in DOMAIN rows : rows[i].draws = Len(rows[i].generated)

(* History never exceeds the context, and a row that ended without a stop used  *)
(* its whole budget.                                                        *)
EndsAtItsLimit ==
  \A i \in DOMAIN rows :
    /\ Len(rows[i].prompt) + Len(rows[i].generated) <= Ctx
    /\ pc = "loop" /\ ~rows[i].active /\ rows[i].finish = "length" => Len(rows[i].generated) = rows[i].limit
==============================================================================
