------------------------------ MODULE MCStores ------------------------------
(***************************************************************************)
(* What the server keeps of a request and between requests: the state of a *)
(* group of rows and its copies, the three levels of session states, the   *)
(* trie of prompt prefixes and the prefill that uses it, and the file of   *)
(* tuned kernels. Each part is a behaviour of its own; Parts names those of*)
(* a run.                                                                  *)
(***************************************************************************)
EXTENDS StateCache, TLC

CONSTANTS Parts

VARIABLES
  part,
  st, lg, rows, hist, refused,
  nodes, order, value, free, allocated, content, match,
  prefill_cache, req,
  proc, path, tmp, data, losses

\* Two sessions, and a paused chat whose id is the name of one of them.
TurnKey == [turn1 |-> "keyA", turn2 |-> "keyA", turn3 |-> "keyB", pause |-> "plainA"]
KeySession == [keyA |-> "A", keyB |-> "B", plainA |-> "A", plainB |-> "B"]
DeletedSession == [del |-> "A"]

\* Batches whose prompts extend one another, tie in length, repeat, and are
\* longer than a chunk.
PrefillBatches == {<<<<1>>, <<2>>, <<1, 2, 3>>>>, <<<<1, 2>>, <<1, 2>>>>}

\* A request of one lane and one of two, which may start from different
\* states.
State == INSTANCE BackendState WITH
  Requests <- {"r1", "r2"}, Lanes <- [r1 |-> 1, r2 |-> 2],
  Adapters <- {"", "a"}, Foreign <- {}, Initials <- {"zero", "tuned"},
  Layers <- 2, MaxRows <- 2, MaxTokens <- 2
ASSUME State!BackendAssumption

stateVars == <<st, lg, rows, hist, refused>>
stateOff ==
  /\ st = None /\ lg = None /\ rows = None /\ hist = None /\ refused = None

\* Prompts that extend, share part of an edge with and part from each other.
Prefix == INSTANCE PrefixCache WITH
  Identities <- {"old", "new"},
  Prompts <- {<<1, 2, 1>>, <<1, 2, 2>>, <<1, 2, 1, 1>>}, Capacity <- 3,
  Readers <- {"r1"}
ASSUME Prefix!PromptAssumption

prefixVars == <<nodes, order, value, free, allocated, content, match>>
prefixOff ==
  /\ nodes = None /\ order = None /\ value = None /\ free = None /\ allocated = None
  /\ content = None /\ match = None

\* Two batches at a time and room for two snapshots.
Prefill == INSTANCE BatchPrefill WITH
  Requests <- {"q1", "q2"}, Batches <- PrefillBatches, Identities <- {"base"},
  Capacity <- 2, ChunkSize <- 2, cache <- prefill_cache
ASSUME Prefill!PrefillAssumption

prefillVars == <<prefill_cache, req>>
prefillOff ==
  /\ prefill_cache = None /\ req = None

\* One process that is started again and again.
Single == INSTANCE TuneCache WITH
  Procs <- {"p1"}, Models <- {"m1", "m2"}, Shapes <- {"a", "b"},
  collect_shapes <- [m1 |-> <<"a", "b">>, m2 |-> <<"b">>],
  Candidates <- {1, 4}, MaxStarts <- 4, MaxPowerLosses <- 1
ASSUME Single!TuneCacheAssumption

tuneVars == <<proc, path, tmp, data, losses>>
tuneOff ==
  /\ proc = None /\ path = None /\ tmp = None /\ data = None /\ losses = None

-----------------------------------------------------------------------------
\* The behaviour is about one part; the variables of the others stay None,
\* those of StateCache as they are at first.
SuiteInit ==
  /\ part \in Parts
  /\ Init
  /\ CASE part = "state" -> State!Init [] OTHER -> stateOff
  /\ CASE part = "prefix" -> Prefix!Init [] OTHER -> prefixOff
  /\ CASE part = "prefill" -> Prefill!Init [] OTHER -> prefillOff
  /\ CASE part = "single" -> Single!Init [] OTHER -> tuneOff

\* Room for one state in each upper level; a shutdown and a crash.
CacheStep ==
  /\ part = "cache" /\ Next
  /\ UNCHANGED <<part, stateVars, prefixVars, prefillVars, tuneVars>>

StateStep ==
  /\ part = "state" /\ State!Next
  /\ UNCHANGED <<part, vars, prefixVars, prefillVars, tuneVars>>

PrefixStep ==
  /\ part = "prefix" /\ Prefix!Next
  /\ UNCHANGED <<part, vars, stateVars, prefillVars, tuneVars>>

PrefillStep ==
  /\ part = "prefill" /\ Prefill!Next
  /\ UNCHANGED <<part, vars, stateVars, prefixVars, tuneVars>>

SingleStep ==
  /\ part = "single" /\ Single!Next
  /\ UNCHANGED <<part, vars, stateVars, prefixVars, prefillVars>>

SuiteNext ==
  \/ CacheStep
  \/ StateStep
  \/ PrefixStep
  \/ PrefillStep
  \/ SingleStep

suiteVars == <<part, vars, stateVars, prefixVars, prefillVars, tuneVars>>

SuiteSpec == SuiteInit /\ [][SuiteNext]_suiteVars

-----------------------------------------------------------------------------
\* Whatever splits, merges, pauses and copies a group of rows, every lane's
\* state in every layer is that of one history of tokens from its own initial
\* state, its logits are of the same history, its key names it, and every row
\* decoded has been accepted.
StateIsItsHistory ==
  /\ part = "state" => /\ State!TypeOK
                       /\ State!DecodeIsAccepted
                       /\ State!LogitsFollowState
                       /\ State!LaneIsOneHistory
                       /\ State!KeyNamesHistory

\* What a lookup returns is what was stored: a deleted session is found in no
\* level; the trie finds the longest cached prefix, and readers keep their
\* snapshot through evictions; each prompt of a batch gets the state and
\* logits of its own tokens although two batches share the prompt cache; and
\* a server uses a whole table of tuned kernels or none, and keeps it,
\* whichever write a crash has cut; only a power loss may take it.
LookupsAreTrue ==
  /\ [](/\ part = "cache" => DeletedMeansGone
        /\ part = "prefix" => /\ Prefix!TypeOK
                              /\ Prefix!FindsLongest
                              /\ Prefix!TrieIsCompressed
                              /\ Prefix!ReadersKeepTheirSnapshot
                              /\ Prefix!BuffersConserved
        /\ part = "prefill" => /\ Prefill!TypeOK
                               /\ Prefill!EachPromptGetsItsOwnState
                               /\ Prefill!SnapshotsAreTrue
                               /\ Prefill!KeysAreUnique
        /\ part = "single" => /\ Single!TypeOK
                              /\ Single!ServesWholeTable)
  /\ [][part = "single" => Single!CacheSurvivesStep]_tuneVars
=============================================================================
