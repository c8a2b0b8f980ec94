------------------------------ MODULE StateCache ------------------------------
(***************************************************************************)
(* StateCacheManager: conversation states in VRAM (l1), RAM (l2) and SQLite *)
(* (db), the two upper levels in least-recently-used order, and the routes  *)
(* around it.  A state is the sequence of turns it has been through; its    *)
(* copies between device, host and blob keep it as it is.                  *)
(*                                                                         *)
(* Every operation of the manager holds its mutex, so it is one action; the *)
(* routes call several.  A put or get adds one entry to l1, which held at   *)
(* most l1_capacity before, so each eviction loop runs at most once.        *)
(* A CUDA error exits the process: it is a crash.                          *)
(***************************************************************************)
EXTENDS Naturals, Sequences, SequencesExt, FiniteSets

CONSTANTS
  Turns,        \* requests that put a state: session turns and chat pauses
  Keys,         \* keys of the cache
  KeyOf,        \* KeyOf[r]: the key of r
  Fresh,        \* turns that do not read the cache: with a state_id, or pauses
  Sessions,     \* names a client may delete
  SessionOf,    \* SessionOf[k]: the name key k starts with
  Plain,        \* keys without a namespace suffix
  Deletes,      \* calls of /state/delete
  DeleteOf,     \* DeleteOf[d]: the name it deletes
  L1Capacity,   \* 16 in the server
  L2Capacity,   \* 32 in the server
  DiskFails,    \* whether SQLite statements may fail
  MaxCrashes,   \* bound: crashes
  MaxStops,     \* bound: orderly shutdowns
  None

ASSUME StateCacheAssumption ==
  /\ KeyOf \in [Turns -> Keys] /\ Fresh \subseteq Turns /\ Plain \subseteq Keys
  /\ SessionOf \in [Keys -> Sessions] /\ DeleteOf \in [Deletes -> Sessions]
  /\ \A k1, k2 \in Plain : SessionOf[k1] = SessionOf[k2] => k1 = k2
  /\ None \notin Seq(Turns)
  /\ L1Capacity \in Nat \ {0} /\ L2Capacity \in Nat \ {0}
  /\ DiskFails \in BOOLEAN /\ MaxCrashes \in Nat /\ MaxStops \in Nat

VARIABLES
  cache,        \* l1, l2: partial functions; l1_order, l2_order; db
  initialized,
  stage,        \* progress of each turn
  held,         \* held[r]: the state turn r works on
  deletion,     \* progress of each delete call, what it has left, what it found
  crashes, stops,
  past, since   \* history: states of a key since its deletion, puts since a delete

manager == <<cache, initialized>>
routes  == <<stage, held, deletion>>
history == <<past, since>>
bounds  == <<crashes, stops>>
vars == <<cache, initialized, stage, held, deletion, crashes, stops, past, since>>

TurnStages   == {"new", "generating", "done", "failed"}
DeleteStages == {"new", "plain", "listed", "done", "cut"}
Levels       == 1..3
States       == Seq(Turns)
IsTable(f)   == DOMAIN f \subseteq Keys /\ f \in [DOMAIN f -> States]
IsCache(c)   ==
  /\ c = [l1 |-> c.l1, l2 |-> c.l2, l1_order |-> c.l1_order, l2_order |-> c.l2_order,
          db |-> c.db]
  /\ IsTable(c.l1) /\ IsTable(c.l2)
  /\ c.l1_order \in Seq(Keys) /\ c.l2_order \in Seq(Keys)
  /\ c.db \in [Keys -> States \cup {None}]

NoEntries == [k \in {} |-> None]
Init ==
  /\ cache = [l1 |-> NoEntries, l2 |-> NoEntries, l1_order |-> <<>>, l2_order |-> <<>>,
              db |-> [k \in Keys |-> None]]
  /\ initialized = TRUE
  /\ stage = [r \in Turns |-> "new"] /\ held = [r \in Turns |-> <<>>]
  /\ deletion = [d \in Deletes |-> [stage |-> "new", todo |-> {}, found |-> FALSE]]
  /\ crashes = 0 /\ stops = 0
  /\ past = [k \in Keys |-> {}] /\ since = [d \in Deletes |-> {}]

-----------------------------------------------------------------------------
(* The levels.  `disk` says whether SQLite works during the operation.     *)
With(f, k, s) == [x \in DOMAIN f \cup {k} |-> IF x = k THEN s ELSE f[x]]
Without(f, k) == [x \in DOMAIN f \ {k} |-> f[x]]
Size(f) == Cardinality(DOMAIN f)

(* erase(it): the place in the order that the entry's iterator denotes.    *)
Unlinked(order, k) ==
  IF \E i \in 1..Len(order) : order[i] = k
    THEN RemoveAt(order, CHOOSE i \in 1..Len(order) : order[i] = k) ELSE order

(* persist_state_locked() ignores SQLite's answer.                         *)
Persisted(c, k, s, disk) == [c EXCEPT !.db[k] = IF disk THEN s ELSE @]

EvictL2Unsaved(c, disk) ==
  IF Size(c.l2) <= L2Capacity THEN c
  ELSE [c EXCEPT !.l2_order = Tail(@), !.l2 = Without(@, Head(c.l2_order))]
EvictL2(c, disk) ==
  IF Size(c.l2) <= L2Capacity THEN c
  ELSE LET k == Head(c.l2_order)
       IN  [Persisted(c, k, c.l2[k], disk) EXCEPT !.l2_order = Tail(@), !.l2 = Without(@, k)]

EvictL1(c, disk) ==
  LET k == Head(c.l1_order)
  IN  EvictL2(IF Size(c.l1) <= L1Capacity THEN c
              ELSE [c EXCEPT !.l1_order = Tail(@), !.l1 = Without(@, k),
                             !.l2_order = Append(@, k), !.l2 = With(@, k, c.l1[k])],
              disk)

ErasedL1(c, k) == [c EXCEPT !.l1_order = Unlinked(@, k), !.l1 = Without(@, k)]
Erased(c, k) ==
  [c EXCEPT !.l1_order = Unlinked(@, k), !.l1 = Without(@, k),
            !.l2_order = Unlinked(@, k), !.l2 = Without(@, k)]

Promoted(c, k, s, disk) ==
  EvictL1([c EXCEPT !.l1_order = Append(@, k), !.l1 = With(@, k, s)], disk)

PutState(c, k, s, disk) == Promoted(Erased(c, k), k, s, disk)

(* get_state(): the first level that has the key, and the cache afterwards. *)
Found(c, k, disk) ==
  CASE k \in DOMAIN c.l1 -> c.l1[k]
    [] k \notin DOMAIN c.l1 /\ k \in DOMAIN c.l2 -> c.l2[k]
    [] OTHER -> IF disk THEN c.db[k] ELSE None
GetState(c, k, disk) ==
  IF k \in DOMAIN c.l1 THEN [c EXCEPT !.l1_order = Append(Unlinked(@, k), k)]
  ELSE IF Found(c, k, disk) = None THEN c
  ELSE Promoted(Erased(c, k), k, Found(c, k, disk), disk)

DeletedState(c, k, disk) == [Erased(c, k) EXCEPT !.db[k] = IF disk THEN None ELSE @]
Had(c, k, disk) == k \in DOMAIN c.l1 \cup DOMAIN c.l2 \/ (disk /\ c.db[k] # None)

Disk == IF DiskFails THEN BOOLEAN ELSE {TRUE}

(* The state a get would return.                                           *)
Visible(k) == Found(cache, k, TRUE)

-----------------------------------------------------------------------------
(* The routes.  A turn reads its session's state, or begins with a new one, *)
(* generates, and puts the state back unless generation threw.             *)
Base(state) == IF state = None THEN <<>> ELSE state

Get(r) ==
  /\ stage[r] = "new"
  /\ stage' = [stage EXCEPT ![r] = "generating"]
  /\ \E disk \in Disk :
       LET k == KeyOf[r]
           reads == initialized /\ r \notin Fresh
       IN  /\ held' = [held EXCEPT ![r] = Base(IF reads THEN Found(cache, k, disk) ELSE None)]
           /\ cache' = IF reads THEN GetState(cache, k, disk) ELSE cache
  /\ UNCHANGED <<initialized, deletion, history, bounds>>

Put(r) ==
  /\ stage[r] = "generating"
  /\ stage' = [stage EXCEPT ![r] = "done"]
  /\ LET k == KeyOf[r]
         s == Append(held[r], r)
     IN  IF initialized
           THEN /\ \E disk \in Disk : cache' = PutState(cache, k, s, disk)
                /\ past' = [past EXCEPT ![k] = @ \cup {s}]
                /\ since' = [d \in Deletes |->
                     IF deletion[d].stage = "new" THEN {} ELSE since[d] \cup {r}]
           ELSE UNCHANGED <<cache, history>>
  /\ UNCHANGED <<initialized, held, deletion, bounds>>

Fail(r) ==
  /\ stage[r] = "generating"
  /\ stage' = [stage EXCEPT ![r] = "failed"]
  /\ UNCHANGED <<manager, held, deletion, history, bounds>>

(* /state/delete: the plain key, then the keys of that name with a          *)
(* namespace, as listed once: those of l1, of l2, of the database.  A key   *)
(* in two lists is deleted twice.  Once the manager is closed (maps empty,  *)
(* db_ null) the rest of a call changes nothing: it is cut.                *)
DeleteKey(d, k, next, todo) ==
  \E disk \in Disk :
    /\ cache' = DeletedState(cache, k, disk)
    /\ deletion' = [deletion EXCEPT ![d] =
         [stage |-> next, todo |-> todo, found |-> @.found \/ Had(cache, k, disk)]]
    /\ past' = [past EXCEPT ![k] = {}]

DeletePlain(d) ==
  /\ deletion[d].stage = "new" /\ initialized
  /\ \E k \in Plain : SessionOf[k] = DeleteOf[d] /\ DeleteKey(d, k, "plain", {})
  /\ UNCHANGED <<initialized, stage, held, since, bounds>>

Stored(n, k, disk) ==
  \/ n = 1 /\ k \in DOMAIN cache.l1
  \/ n = 2 /\ k \in DOMAIN cache.l2
  \/ n = 3 /\ disk /\ cache.db[k] # None
Listed(d, disk) ==
  {x \in Levels \X {k \in Keys \ Plain : SessionOf[k] = DeleteOf[d]} :
     Stored(x[1], x[2], disk)}
List(d) ==
  /\ deletion[d].stage = "plain"
  /\ \E disk \in Disk :
       deletion' = [deletion EXCEPT ![d].stage = "listed", ![d].todo = Listed(d, disk)]
  /\ UNCHANGED <<manager, stage, held, history, bounds>>

DeleteNext(d) ==
  /\ deletion[d].stage = "listed"
  /\ \E x \in deletion[d].todo :
       /\ \A y \in deletion[d].todo : x[1] <= y[1]
       /\ DeleteKey(d, x[2], "listed", deletion[d].todo \ {x})
  /\ UNCHANGED <<initialized, stage, held, since, bounds>>

DeleteEnd(d) ==
  /\ deletion[d].stage = "listed" /\ deletion[d].todo = {}
  /\ deletion' = [deletion EXCEPT ![d].stage = "done"]
  /\ UNCHANGED <<manager, stage, held, history, bounds>>

-----------------------------------------------------------------------------
(* shutdown() persists both levels and clears them; what is put afterwards  *)
(* is dropped.  It may be cut off by a crash after the keys in `saved`.    *)
Saved(c, saved) ==
  [k \in Keys |-> IF k \notin saved THEN c.db[k]
                  ELSE IF k \in DOMAIN c.l2 THEN c.l2[k]
                  ELSE IF k \in DOMAIN c.l1 THEN c.l1[k] ELSE c.db[k]]
Closed(c, saved) ==
  [l1 |-> NoEntries, l2 |-> NoEntries, l1_order |-> <<>>, l2_order |-> <<>>,
   db |-> Saved(c, saved)]

Cut == [d \in Deletes |->
  IF deletion[d].stage \in {"plain", "listed"}
    THEN [deletion[d] EXCEPT !.stage = "cut", !.todo = {}] ELSE deletion[d]]

Shutdown ==
  /\ initialized /\ stops < MaxStops
  /\ stops' = stops + 1 /\ initialized' = FALSE
  /\ \E saved \in IF DiskFails THEN SUBSET Keys ELSE {Keys} : cache' = Closed(cache, saved)
  /\ deletion' = Cut
  /\ UNCHANGED <<stage, held, crashes, history>>

Crash ==
  /\ crashes < MaxCrashes
  /\ crashes' = crashes + 1 /\ initialized' = FALSE
  /\ \E saved \in SUBSET (DOMAIN cache.l1 \cup DOMAIN cache.l2) :
       /\ saved \subseteq DOMAIN cache.l1 \/ DOMAIN cache.l1 \subseteq saved
       /\ cache' = Closed(cache, saved)
  /\ stage' = [r \in Turns |-> IF stage[r] = "generating" THEN "failed" ELSE stage[r]]
  /\ deletion' = Cut
  /\ UNCHANGED <<held, stops, history>>

(* initialize() in the next process, when the old one has ended.           *)
Initialize ==
  /\ ~initialized
  /\ \A r \in Turns : stage[r] # "generating"
  /\ initialized' = TRUE
  /\ UNCHANGED <<cache, routes, bounds, history>>

Next == \/ \E r \in Turns : Get(r) \/ Put(r) \/ Fail(r)
        \/ \E d \in Deletes : DeletePlain(d) \/ List(d) \/ DeleteNext(d) \/ DeleteEnd(d)
        \/ Shutdown \/ Crash \/ Initialize

Spec == Init /\ [][Next]_vars

-----------------------------------------------------------------------------
(* Types of the levels, of the routes' progress and of the history.        *)
TypeOK ==
  /\ IsCache(cache) /\ initialized \in BOOLEAN
  /\ stage \in [Turns -> TurnStages] /\ held \in [Turns -> States]
  /\ deletion \in [Deletes -> [stage : DeleteStages, todo : SUBSET (Levels \X Keys),
                               found : BOOLEAN]]
  /\ crashes \in 0..MaxCrashes /\ stops \in 0..MaxStops
  /\ past \in [Keys -> SUBSET States] /\ since \in [Deletes -> SUBSET Turns]

(* The order lists name exactly the entries of their level, once, so that   *)
(* the iterators kept in the entries stay valid and an eviction finds its   *)
(* victim; no key is in two levels; the levels stay within their capacity.  *)
Lists(order, entries) ==
  /\ ToSet(order) = DOMAIN entries
  /\ \A i, j \in 1..Len(order) : order[i] = order[j] => i = j
CacheConsistent ==
  /\ Lists(cache.l1_order, cache.l1) /\ Size(cache.l1) <= L1Capacity
  /\ Lists(cache.l2_order, cache.l2) /\ Size(cache.l2) <= L2Capacity
  /\ DOMAIN cache.l1 \cap DOMAIN cache.l2 = {}
  /\ ~initialized => cache.l1_order = <<>> /\ cache.l2_order = <<>>

(* Eviction between the levels, a stale row in the database, shutdown and   *)
(* restart are invisible: the cache is a map from keys to states in which a *)
(* turn reads the last state put, and from which a crash brings back only   *)
(* states put since the last deletion.                                     *)
Store == INSTANCE SessionStore WITH store <- [k \in Keys |-> Visible(k)], open <- initialized
ImplementsStoreStep == [Store!Next]_(Store!vars)
ImplementsStore == Store!Init /\ [][ImplementsStoreStep]_vars

(* A delete call that reports success, unless a shutdown cut it, has left   *)
(* nothing of the session in any level: a state found later was put since. *)
DeletedMeansGone ==
  \A d \in Deletes : deletion[d].stage = "done" /\ deletion[d].found =>
    \A k \in Keys : SessionOf[k] = DeleteOf[d] /\ Visible(k) # None =>
      \E r \in since[d] : KeyOf[r] = k

=============================================================================
