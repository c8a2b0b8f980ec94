------------------------------ MODULE PrefixCache ------------------------------
(***************************************************************************)
(* PrefixCachePool over PrefixCache: prompt snapshots in a fixed number of   *)
(* CPU buffers, indexed by a compressed token trie per identity and evicted  *)
(* in LRU order over all identities.  Calls are serialized by the caller,    *)
(* but a Match keeps its buffer (shared_ptr) across later calls.             *)
(*                                                                         *)
(* A trie node is named by its tokens from the root, so a set of token       *)
(* sequences is a trie and the edge of a node is what its name adds to its   *)
(* parent's.  Snapshots are identified with the key they were taken for.     *)
(***************************************************************************)
EXTENDS Naturals, Sequences, SequencesExt, FiniteSets, Functions

CONSTANTS
  Identities,
  Prompts,                \* token sequences callers put and look up
  Capacity,               \* min(--cache-capacity, memory limit / entry size)
  Readers,
  None

PromptAssumption ==
  /\ \A t \in Prompts : t \in Seq(Nat)
  /\ Capacity \in Nat

VARIABLES
  nodes,       \* roots_[id]: the trie's nodes but the root; {} when erased
  order,       \* order_: keys, most recently used first
  value,       \* entry->value of every key with an entry
  free,        \* free_: buffers no entry uses
  allocated,   \* allocated_: buffers 1..allocated exist
  content,     \* what fill() last wrote into a buffer
  match        \* match[r]: the Match reader r holds, or None

vars == <<nodes, order, value, free, allocated, content, match>>
index == [nodes |-> nodes, order |-> order, value |-> value]

PrefixKeys == Identities \X Prompts
Buffers == 1..Capacity
Entries(v, id) == {k[2] : k \in {k \in DOMAIN v : k[1] = id}}

Init ==
  /\ nodes = [id \in Identities |-> {}] /\ order = <<>> /\ value = <<>>
  /\ free = <<>> /\ allocated = 0
  /\ content = [b \in Buffers |-> None]
  /\ match = [r \in Readers |-> None]

-----------------------------------------------------------------------------
(* The trie.  A child is the node whose nearest ancestor is `at`; at most     *)
(* one child starts with a given token.                                     *)
Children(ns, at) ==
  {n \in ns : IsStrictPrefix(at, n) /\ ~\E o \in ns : IsStrictPrefix(at, o) /\ IsStrictPrefix(o, n)}
ChildOn(ns, at, tokens) == {n \in Children(ns, at) : n[Len(at) + 1] = tokens[Len(at) + 1]}

(* insert(): follow the edges; where one leaves the tokens, split it.         *)
RECURSIVE InsertWhole(_, _, _)
InsertWhole(ns, at, tokens) ==
  IF at = tokens THEN ns
  ELSE LET next == ChildOn(ns, at, tokens)
       IN IF next = {} THEN ns \cup {tokens}
          ELSE InsertWhole(ns, IF IsPrefix(CHOOSE n \in next : TRUE, tokens)
                               THEN CHOOSE n \in next : TRUE ELSE tokens, tokens)
RECURSIVE Insert(_, _, _)
Insert(ns, at, tokens) ==
  IF at = tokens THEN ns
  ELSE LET next == ChildOn(ns, at, tokens)
           common == LongestCommonPrefix(next \cup {tokens})
       IN IF next = {} THEN ns \cup {tokens} ELSE Insert(ns \cup {common}, common, tokens)

(* erase(): on the way back a node without entry is dropped when it has no    *)
(* child and merged with its child when it has one.                         *)
RECURSIVE EraseOnly(_, _, _, _)
EraseOnly(ns, entries, at, tokens) ==
  IF at = tokens THEN ns
  ELSE LET next == ChildOn(ns, at, tokens)
       IN IF next = {} THEN ns
          ELSE LET child == CHOOSE n \in next : TRUE
                   rest == EraseOnly(ns, entries, child, tokens)
               IN IF child \notin entries /\ Children(rest, child) = {} THEN rest \ {child} ELSE rest
RECURSIVE Erase(_, _, _, _)
Erase(ns, entries, at, tokens) ==
  IF at = tokens THEN ns
  ELSE LET next == ChildOn(ns, at, tokens)
       IN IF next = {} THEN ns
          ELSE LET child == CHOOSE n \in next : TRUE
                   rest == Erase(ns, entries, child, tokens)
               IN IF child \notin entries /\ Cardinality(Children(rest, child)) <= 1
                  THEN rest \ {child} ELSE rest

(* find(): the deepest node with an entry on the way down; <<>> for none.     *)
RECURSIVE FindFrom(_, _, _, _, _)
FindFrom(ns, entries, at, tokens, best) ==
  LET next == IF at = tokens THEN {} ELSE ChildOn(ns, at, tokens)
      child == CHOOSE n \in next : TRUE
  IN IF next = {} \/ ~IsPrefix(child, tokens) THEN best
     ELSE FindFrom(ns, entries, child, tokens, IF child \in entries THEN child ELSE best)
Find(ix, id, tokens) == FindFrom(ix.nodes[id], Entries(ix.value, id), <<>>, tokens, <<>>)

-----------------------------------------------------------------------------
(* extract(): the entry leaves the trie, the LRU list and the index.          *)
Extract(ix, k) ==
  LET v == Restrict(ix.value, DOMAIN ix.value \ {k})
  IN [nodes |-> [ix.nodes EXCEPT ![k[1]] = Erase(@, Entries(v, k[1]), <<>>, k[2])],
      order |-> Remove(ix.order, k), value |-> v]

(* index_.put() of a key without entry (put() has extracted it before).       *)
Store(ix, k, b) ==
  [nodes |-> [ix.nodes EXCEPT ![k[1]] = Insert(@, <<>>, k[2])],
   order |-> <<k>> \o ix.order,
   value |-> [x \in DOMAIN ix.value \cup {k} |-> IF x = k THEN b ELSE ix.value[x]]]

NeverPinned(b) == FALSE
Pinned(b) == \E r \in Readers : match[r] # None /\ match[r].buffer = b    \* use_count() != 1

(* acquire(): a free buffer nobody reads, a new one, or the least recently    *)
(* used entry's; entries whose buffer is read are evicted into free_.         *)
RECURSIVE Reclaim(_, _)
Reclaim(ix, fr) ==
  IF ix.order = <<>> THEN [ix |-> ix, free |-> fr, buffer |-> None, allocated |-> allocated]
  ELSE LET k == Last(ix.order)
           b == ix.value[k]
       IN IF Pinned(b) THEN Reclaim(Extract(ix, k), Append(fr, b))
          ELSE [ix |-> Extract(ix, k), free |-> fr, buffer |-> b, allocated |-> allocated]

NewOrReclaimed(ix, fr) ==
  IF allocated < Capacity
  THEN [ix |-> ix, free |-> fr, buffer |-> allocated + 1, allocated |-> allocated + 1]
  ELSE Reclaim(ix, fr)
SwapOut(fr, i) ==                       \* the last one takes the place of fr[i]
  SubSeq([fr EXCEPT ![i] = Last(fr)], 1, Len(fr) - 1)
Acquire(ix, fr) ==
  LET unread == {i \in DOMAIN fr : ~Pinned(fr[i])}
      first == CHOOSE i \in unread : \A j \in unread : i <= j
  IN IF unread # {}
     THEN [ix |-> ix, free |-> SwapOut(fr, first), buffer |-> fr[first], allocated |-> allocated]
     ELSE NewOrReclaimed(ix, fr)

(* The first half of put(): the buffer to write, after the key's old entry.   *)
Reuse(k) ==
  IF k \notin DOMAIN value THEN Acquire(index, free)
  ELSE LET b == value[k]
       IN IF Pinned(b) THEN Acquire(Extract(index, k), Append(free, b))
          ELSE [ix |-> Extract(index, k), free |-> free, buffer |-> b, allocated |-> allocated]

Becomes(ix) == nodes' = ix.nodes /\ order' = ix.order /\ value' = ix.value

-----------------------------------------------------------------------------
(* put(): fill() may throw, after writing some of the buffer.                *)
GiveBack(fr, b) == Append(fr, b)
Put(k, filled) ==
  /\ Capacity > 0
  /\ LET got == Reuse(k)
     IN /\ allocated' = got.allocated
        /\ IF got.buffer = None
           THEN Becomes(got.ix) /\ free' = got.free /\ UNCHANGED content
           ELSE /\ content' = [content EXCEPT ![got.buffer] = IF filled THEN k ELSE None]
                /\ IF filled THEN Becomes(Store(got.ix, k, got.buffer)) /\ free' = got.free
                   ELSE Becomes(got.ix) /\ free' = GiveBack(got.free, got.buffer)
  /\ UNCHANGED match

(* find(): a hit moves to the front and the reader keeps the buffer.          *)
Lookup(r, id, tokens) ==
  /\ match[r] = None
  /\ LET found == Find(index, id, tokens)
         k == <<id, found>>
     IN /\ found # <<>>
        /\ order' = <<k>> \o Remove(order, k)
        /\ match' = [match EXCEPT ![r] = [buffer |-> value[k], key |-> k]]
  /\ UNCHANGED <<nodes, value, free, allocated, content>>

Release(r) ==                                  \* hit.value.reset()
  /\ match[r] # None
  /\ match' = [match EXCEPT ![r] = None]
  /\ UNCHANGED <<nodes, order, value, free, allocated, content>>

(* erase_identity(): entries leave from most to least recently used.          *)
RECURSIVE ExtractAll(_, _, _)
ExtractAll(ix, fr, ks) ==
  IF ks = <<>> THEN [ix |-> ix, free |-> fr]
  ELSE ExtractAll(Extract(ix, Head(ks)), Append(fr, ix.value[Head(ks)]), Tail(ks))
EraseIdentity(id) ==
  /\ LET out == ExtractAll(index, free, SelectSeq(order, LAMBDA k : k[1] = id))
     IN Becomes(out.ix) /\ free' = out.free
  /\ UNCHANGED <<allocated, content, match>>

Next ==
  \/ \E k \in PrefixKeys, filled \in BOOLEAN : Put(k, filled)
  \/ \E r \in Readers, k \in PrefixKeys : Lookup(r, k[1], k[2])
  \/ \E r \in Readers : Release(r)
  \/ \E id \in Identities : EraseIdentity(id)

Spec == Init /\ [][Next]_vars

-----------------------------------------------------------------------------
TypeOK ==
  /\ \A id \in Identities : nodes[id] \subseteq UNION {Prefixes(t) \ {<<>>} : t \in Prompts}
  /\ ToSet(order) \subseteq PrefixKeys
  /\ DOMAIN value \subseteq PrefixKeys /\ ToSet(free) \subseteq Buffers
  /\ allocated \in 0..Capacity
  /\ content \in [Buffers -> PrefixKeys \cup {None}]
  /\ \A r \in Readers : match[r] # None => match[r].buffer \in Buffers /\ match[r].key \in PrefixKeys

(* find() returns the longest cached prefix of what is looked up, whatever    *)
(* splits and merges the trie went through.                                  *)
FindsLongest ==
  \A id \in Identities, t \in Prompts :
    LET cached == {e \in Entries(value, id) : IsPrefix(e, t)}
    IN Find(index, id, t) = IF cached = {} THEN <<>>
                            ELSE CHOOSE e \in cached : \A o \in cached : Len(o) <= Len(e)

(* Evictions leave no dead branch behind: the nodes are exactly the entries   *)
(* and the points where two of them part.                                   *)
TrieIsCompressed ==
  \A id \in Identities :
    LET es == Entries(value, id)
    IN nodes[id] = (es \cup {LongestCommonPrefix({a, b}) : a, b \in es}) \ {<<>>}

(* "never overwrite a snapshot still held by a reader" (prefix_cache_pool.hpp  *)
(* 12-13): a reader's buffer keeps the snapshot it matched through evictions, *)
(* failed fills and retirement.                                              *)
ReadersKeepTheirSnapshot ==
  \A r \in Readers : match[r] # None => content[match[r].buffer] = match[r].key

(* Every allocated buffer is in exactly one place, the index or free_, and    *)
(* the LRU list, the index and the buffers' contents agree.                  *)
BuffersConserved ==
  /\ Len(order) = Cardinality(DOMAIN value) /\ ToSet(order) = DOMAIN value
  /\ Len(free) + Cardinality(DOMAIN value) = allocated
  /\ ToSet(free) \cup Range(value) = 1..allocated
  /\ \A k \in DOMAIN value : content[value[k]] = k
==============================================================================
