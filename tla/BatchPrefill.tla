------------------------------ MODULE BatchPrefill ------------------------------
(***************************************************************************)
(* The prefill of InferenceEngine: a batch of prompts is sorted by length,   *)
(* served from the prompt cache as far as it goes, and fed to the model in   *)
(* chunks whose rows shrink as short prompts end; afterwards every row's     *)
(* state is put into the cache and its results go back to the place its      *)
(* prompt had.  Requests run on threads of their own: the cache is locked    *)
(* for one find or one put, never from a request's first find to its last    *)
(* put.                                                                    *)
(*                                                                         *)
(* A recurrent state, and the logits after a token, are identified with the  *)
(* initial state and the tokens fed since; the cache is an LRU list whose    *)
(* lookup is what PrefixCache shows of its trie.                            *)
(***************************************************************************)
EXTENDS Naturals, Sequences, SequencesExt, FiniteSetsExt

CONSTANTS
  Requests,
  Batches,             \* what a request may ask: sequences of token sequences
  Identities,          \* state id, adapter and precision of a request
  Capacity,            \* prompt cache entries
  ChunkSize,           \* prefill_chunk_size_
  None

PrefillAssumption ==
  /\ \A b \in Batches : Len(b) > 0 /\ \A i \in DOMAIN b : Len(b[i]) > 0    \* encode_prompt throws on empty
  /\ Capacity \in Nat /\ ChunkSize \in Nat \ {0}

VARIABLES cache, req

vars == <<cache, req>>

Init == cache = <<>> /\ req = [q \in Requests |-> [pc |-> "idle"]]

-----------------------------------------------------------------------------
(* PrefixCache<Entry>: longest cached prefix, moved to the front; put of a    *)
(* new key evicts the last ones.                                            *)
NewRow(id) == [id |-> id, fed |-> <<>>]
Hits(id, tokens) == {i \in DOMAIN cache : cache[i].id = id /\ IsPrefix(cache[i].tokens, tokens)}
Hit(id, tokens) == CHOOSE i \in Hits(id, tokens) : \A j \in Hits(id, tokens) : Len(cache[j].tokens) <= Len(cache[i].tokens)
ToFront(i) == <<cache[i]>> \o RemoveAt(cache, i)
Inserted(c, e) == SubSeq(<<e>> \o c, 1, IF Len(c) < Capacity THEN Len(c) + 1 ELSE Capacity)

(* stable_sort of a batch by its key, larger first: the row -> index it leaves. *)
Descending(key) ==
  LET before(i, j) == key[i] > key[j] \/ (key[i] = key[j] /\ i < j)
  IN [row \in DOMAIN key |->
        CHOOSE i \in DOMAIN key : Cardinality({j \in DOMAIN key : before(j, i)}) = row - 1]

-----------------------------------------------------------------------------
(* batch_generate_stream_with_state() up to encode_prompts_sorted(): cached   *)
(* requests go through prefill_cached(), the others feed from the start.      *)
Begin(q, batch, id, cached) ==
  /\ req[q].pc \in {"idle", "done"}
  /\ LET n == Len(batch)
         original == Descending([i \in 1..n |-> Len(batch[i])])
     IN req' = [req EXCEPT ![q] =
          [pc |-> IF cached /\ Capacity > 0 THEN "find" ELSE "feed", asked |-> batch, id |-> id,
           original |-> original, prompts |-> [r \in 1..n |-> batch[original[r]]],
           hits |-> <<>>,
           state |-> [r \in 1..n |-> NewRow(id)],
           logits |-> [r \in 1..n |-> None],
           rest |-> [r \in 1..n |-> batch[original[r]]],
           saved |-> IF cached /\ Capacity > 0 THEN 0 ELSE n]]
  /\ UNCHANGED cache

(* prefill_cached(), lookups: one lock per prompt; the entry stays alive       *)
(* (shared_ptr) whatever is evicted meanwhile.                              *)
FindNext(q) ==
  /\ req[q].pc = "find" /\ Len(req[q].hits) < Len(req[q].prompts)
  /\ LET tokens == req[q].prompts[Len(req[q].hits) + 1]
         id == req[q].id
     IN IF Hits(id, tokens) = {}
        THEN req' = [req EXCEPT ![q].hits = Append(@, None)] /\ UNCHANGED cache
        ELSE /\ req' = [req EXCEPT ![q].hits = Append(@, cache[Hit(id, tokens)])]
             /\ cache' = ToFront(Hit(id, tokens))

Offset(hit) == IF hit = None THEN 0 ELSE Len(hit.tokens)

(* The rows are sorted again, by what is left to feed; full hits come last    *)
(* and bring their logits.                                                  *)
OriginalOf(q, order) == [r \in DOMAIN order |-> req[q].original[order[r]]]
Remaining(q, i) == SubSeq(req[q].prompts[i], Offset(req[q].hits[i]) + 1, Len(req[q].prompts[i]))
LogitsOfHit(q, i) ==
  IF req[q].hits[i] # None /\ Offset(req[q].hits[i]) = Len(req[q].prompts[i])
  THEN req[q].hits[i].logits ELSE None
Arrange(q) ==
  /\ req[q].pc = "find" /\ Len(req[q].hits) = Len(req[q].prompts)
  /\ LET n == Len(req[q].prompts)
         left == [i \in 1..n |-> Len(req[q].prompts[i]) - Offset(req[q].hits[i])]
         order == Descending(left)
         rows(F(_)) == [r \in 1..n |-> F(order[r])]
     IN req' = [req EXCEPT ![q] = [@ EXCEPT
          !.pc = "feed", !.original = OriginalOf(q, order),
          !.prompts = rows(LAMBDA i : req[q].prompts[i]),
          !.state = rows(LAMBDA i : IF req[q].hits[i] = None THEN NewRow(req[q].id) ELSE req[q].hits[i].state),
          !.logits = rows(LAMBDA i : LogitsOfHit(q, i)),
          !.rest = rows(LAMBDA i : Remaining(q, i)),
          !.hits = <<>>]]
  /\ UNCHANGED cache

(* prefill_batch_chunked(): the leading rows with tokens left are fed the     *)
(* same number of tokens; a part of the batch goes through a sub-state whose  *)
(* rows are copied back.                                                    *)
Unfed(q) == {r \in DOMAIN req[q].rest : req[q].rest[r] # <<>>}
Active(q) == {r \in DOMAIN req[q].rest : 1..r \subseteq Unfed(q)}
Step(q) == Min({Len(req[q].rest[r]) : r \in Active(q)} \cup {ChunkSize})
Feed(s, tokens) == [s EXCEPT !.fed = @ \o tokens]
FeedChunk(q) ==
  /\ req[q].pc = "feed" /\ Active(q) # {}
  /\ LET fed(r) == Feed(req[q].state[r], SubSeq(req[q].rest[r], 1, Step(q)))
         now(r, new, old) == IF r \in Active(q) THEN new ELSE old
         rows == DOMAIN req[q].rest
     IN req' = [req EXCEPT ![q] = [@ EXCEPT
          !.state = [r \in rows |-> now(r, fed(r), @[r])],
          !.logits = [r \in rows |-> now(r, fed(r), @[r])],
          !.rest = [r \in rows |-> now(r, SubSeq(@[r], Step(q) + 1, Len(@[r])), @[r])]]]
  /\ UNCHANGED cache

Fed(q) ==
  /\ req[q].pc = "feed" /\ Active(q) = {}
  /\ req' = [req EXCEPT ![q].pc = "save"]
  /\ UNCHANGED cache

(* prefill_cached(), snapshots: one lock per row; a prompt cached meanwhile    *)
(* (by this batch or another request) is not copied again.                   *)
CachedMeanwhile(id, tokens) == Hits(id, tokens) # {} /\ cache[Hit(id, tokens)].tokens = tokens
Snapshot(q, row) ==
  [id |-> req[q].id, tokens |-> req[q].prompts[row], state |-> req[q].state[row], logits |-> req[q].logits[row]]
SaveNext(q) ==
  /\ req[q].pc = "save" /\ req[q].saved < Len(req[q].prompts)
  /\ LET row == req[q].saved + 1
         tokens == req[q].prompts[row]
         id == req[q].id
         hits == Hits(id, tokens)
         found == IF hits = {} THEN cache ELSE ToFront(Hit(id, tokens))
     IN cache' = IF CachedMeanwhile(id, tokens) THEN found
                 ELSE Inserted(found, Snapshot(q, row))
  /\ req' = [req EXCEPT ![q].saved = @ + 1]

(* scheduler().generate() streams row results to sorted_to_original[row].     *)
Deliver(q) ==
  /\ req[q].pc = "save" /\ req[q].saved = Len(req[q].prompts)
  /\ req' = [req EXCEPT ![q] =
       [pc |-> "done", asked |-> req[q].asked, id |-> req[q].id,
        out |-> [i \in DOMAIN req[q].asked |->
                   LET row == CHOOSE r \in DOMAIN req[q].original : req[q].original[r] = i
                   IN <<req[q].state[row], req[q].logits[row]>>]]]
  /\ UNCHANGED cache

Next ==
  \E q \in Requests :
    \/ \E batch \in Batches, id \in Identities, cached \in BOOLEAN : Begin(q, batch, id, cached)
    \/ FindNext(q) \/ Arrange(q) \/ FeedChunk(q) \/ Fed(q) \/ SaveNext(q) \/ Deliver(q)

(* The thread of a request goes on with it.                                  *)
Work(q) == FindNext(q) \/ Arrange(q) \/ FeedChunk(q) \/ Fed(q) \/ SaveNext(q) \/ Deliver(q)
Spec == Init /\ [][Next]_vars /\ \A q \in Requests : WF_vars(Work(q))

-----------------------------------------------------------------------------
TypeOK ==
  /\ Len(cache) <= Capacity
  /\ \A i \in DOMAIN cache : cache[i].id \in Identities
  /\ \A q \in Requests : req[q].pc \in {"idle", "find", "feed", "save", "done"}

(* Two sorts, cache hits of any length and shrinking chunks later, the place  *)
(* of every prompt gets the state and the logits of exactly its own tokens    *)
(* on its own initial state.                                                *)
EachPromptGetsItsOwnState ==
  \A q \in Requests : req[q].pc = "done" =>
    \A i \in DOMAIN req[q].asked :
      LET whole == [id |-> req[q].id, fed |-> req[q].asked[i]]
      IN req[q].out[i] = <<whole, whole>>

(* A cached snapshot is the state after its key's tokens, for its identity,   *)
(* and its logits are those of the key's last token, although requests        *)
(* interleave between lookup and snapshot.                                  *)
SnapshotsAreTrue ==
  \A i \in DOMAIN cache :
    LET whole == [id |-> cache[i].id, fed |-> cache[i].tokens]
    IN cache[i].state = whole /\ cache[i].logits = whole

(* No key is cached twice: a snapshot another request put first is kept.      *)
KeysAreUnique ==
  \A i, j \in DOMAIN cache :
    cache[i].id = cache[j].id /\ cache[i].tokens = cache[j].tokens => i = j

==============================================================================
