----------------------------- MODULE MCTraining -----------------------------
(***************************************************************************)
(* Training: the online server with its checkpoints and its rollouts, the  *)
(* loop of adapter training, and the gradient over chunks. Each part is a  *)
(* behaviour of its own; Parts names those of a run.                       *)
(***************************************************************************)
EXTENDS OnlineRL, Integers

CONSTANTS Parts

VARIABLES
  part,
  faulty_run, faulty_runs, faulty_learner, faulty_version, faulty_policies,
  faulty_reference, faulty_cache, faulty_queue, faulty_pub, faulty_exports,
  faulty_leftover, faulty_seen, faulty_named, faulty_faults,
  rollout_pc, at, asked, rollout_rows, logits, decoder, feed, rollout_cache,
  next, thread, error, served,
  train_run, trainer, disk, final, train_runs,
  chunk, weights, model, backward_pc, call, j, layer, calls, backward_rows,
  first, tapes, history, carried, shifts, checkpoints, grads, firstGrad,
  stateGrad, perBatch, terminalShift, shiftGrad, adapterGrad, loss, total,
  scores, past

OnlineBatches == {<<"a", "b">>}

\* Prompts that fill the context, extend each other, or are only prefilled.
RolloutRequests ==
  {[prompts |-> <<<<1>>, <<1, 0>>>>, max |-> 3, cached |-> TRUE],
   [prompts |-> <<<<1, 0, 1>>, <<1>>>>, max |-> 3, cached |-> TRUE],
   [prompts |-> <<<<1, 0>>>>, max |-> 0, cached |-> TRUE],
   [prompts |-> <<<<0, 1, 1>>>>, max |-> 1, cached |-> FALSE]}

\* Sequences of two to five tokens.
BackwardExamples ==
  {<<0, 2>>, <<0, 1, 0>>, <<0, 0, 1, 3>>, <<0, 1, 0, 2, 1>>,
   <<0, 0, 0, 0, 1>>}

\* A server of states, whose updates and publications may fail.
Faults == INSTANCE OnlineRL WITH
  Adapter <- FALSE, KeepVersions <- 1, QueueLimit <- 2,
  Batches <- OnlineBatches, MaxUpdates <- 2, MaxRuns <- 1, MaxVersion <- 2,
  MaxFaults <- 1, run <- faulty_run, runs <- faulty_runs,
  learner <- faulty_learner, version <- faulty_version,
  policies <- faulty_policies, reference <- faulty_reference,
  cache <- faulty_cache, queue <- faulty_queue, pub <- faulty_pub,
  exports <- faulty_exports, leftover <- faulty_leftover, seen <- faulty_seen,
  named <- faulty_named, faults <- faulty_faults
ASSUME Faults!OnlineAssumption

faultyVars ==
  <<faulty_run, faulty_runs, faulty_learner, faulty_version, faulty_policies,
    faulty_reference, faulty_cache, faulty_queue, faulty_pub, faulty_exports,
    faulty_leftover, faulty_seen, faulty_named, faulty_faults>>
faultyOff ==
  /\ faulty_run = None /\ faulty_runs = None /\ faulty_learner = None
  /\ faulty_version = None /\ faulty_policies = None /\ faulty_reference = None
  /\ faulty_cache = None /\ faulty_queue = None /\ faulty_pub = None
  /\ faulty_exports = None /\ faulty_leftover = None /\ faulty_seen = None
  /\ faulty_named = None /\ faulty_faults = None

\* Two requests, sampled by two threads; a stop of two tokens.
Rollouts == INSTANCE Rollout WITH
  Vocab <- {0, 1}, Requests <- RolloutRequests, Ctx <- 4, Stops <- {<<1, 1>>},
  Threads <- {"t1", "t2"}, MaxRequests <- 2, pc <- rollout_pc,
  rows <- rollout_rows, cache <- rollout_cache
ASSUME Rollouts!RolloutAssumption

rolloutVars ==
  <<rollout_pc, at, asked, rollout_rows, logits, decoder, feed, rollout_cache,
    next, thread, error, served>>
rolloutOff ==
  /\ rollout_pc = None /\ at = None /\ asked = None /\ rollout_rows = None
  /\ logits = None /\ decoder = None /\ feed = None /\ rollout_cache = None
  /\ next = None /\ thread = None /\ error = None /\ served = None

\* Rows of which the second and the last have no trained target, so that a
\* batch spans a skipped row and an epoch ends on one.
Training == INSTANCE AdapterTraining WITH
  Rows <- <<TRUE, FALSE, TRUE, TRUE, FALSE>>, Configs <- {1, 2}, Epochs <- 2,
  SaveEvery <- {2}, MaxSteps <- {0, 2}, Outputs <- {"o1", "o2"}, MaxRuns <- 2,
  MaxCuts <- 1, run <- train_run, runs <- train_runs
ASSUME Training!TrainingAssumption

trainVars == <<train_run, trainer, disk, final, train_runs>>
trainOff ==
  /\ train_run = None /\ trainer = None /\ disk = None /\ final = None
  /\ train_runs = None

\* Two layers, chunks of one to three rows, gradients modulo 11.
Backward == INSTANCE ChunkedBackward WITH
  P <- 11, Layers <- 2, Chunks <- {1, 2, 3}, Kinds <- {"miss", "nora"},
  Seeds <- {4}, Examples <- BackwardExamples, MaxCalls <- 2,
  pc <- backward_pc, rows <- backward_rows
ASSUME Backward!PIsOddPrime
ASSUME Backward!ChunkedBackwardConstants

backwardVars ==
  <<chunk, weights, model, backward_pc, call, j, layer, calls, backward_rows,
    first, tapes, history, carried, shifts, checkpoints, grads, firstGrad,
    stateGrad, perBatch, terminalShift, shiftGrad, adapterGrad, loss, total,
    scores, past>>
backwardOff ==
  /\ chunk = None /\ weights = None /\ model = None /\ backward_pc = None /\ call = None
  /\ j = None /\ layer = None /\ calls = None /\ backward_rows = None /\ first = None
  /\ tapes = None /\ history = None /\ carried = None /\ shifts = None
  /\ checkpoints = None /\ grads = None /\ firstGrad = None /\ stateGrad = None
  /\ perBatch = None /\ terminalShift = None /\ shiftGrad = None /\ adapterGrad = None
  /\ loss = None /\ total = None /\ scores = None /\ past = None

-----------------------------------------------------------------------------
\* The behaviour is about one part; the variables of the others stay None,
\* those of OnlineRL as they are at first.
SuiteInit ==
  /\ part \in Parts
  /\ Init
  /\ CASE part = "faults" -> Faults!Init [] OTHER -> faultyOff
  /\ CASE part = "rollout" -> Rollouts!Init [] OTHER -> rolloutOff
  /\ CASE part = "train" -> Training!Init [] OTHER -> trainOff
  /\ CASE part = "backward" -> Backward!Init [] OTHER -> backwardOff

\* An adapter's server that is restarted from its checkpoints.
RestartStep ==
  /\ part = "restart" /\ Next
  /\ UNCHANGED <<part, faultyVars, rolloutVars, trainVars, backwardVars>>

FaultsStep ==
  /\ part = "faults" /\ Faults!Next
  /\ UNCHANGED <<part, vars, rolloutVars, trainVars, backwardVars>>

RolloutsStep ==
  /\ part = "rollout" /\ Rollouts!Next
  /\ UNCHANGED <<part, vars, faultyVars, trainVars, backwardVars>>

TrainingStep ==
  /\ part = "train" /\ Training!Next
  /\ UNCHANGED <<part, vars, faultyVars, rolloutVars, backwardVars>>

BackwardStep ==
  /\ part = "backward" /\ Backward!Next
  /\ UNCHANGED <<part, vars, faultyVars, rolloutVars, trainVars>>

SuiteNext ==
  \/ RestartStep
  \/ FaultsStep
  \/ RolloutsStep
  \/ TrainingStep
  \/ BackwardStep

suiteVars == <<part, vars, faultyVars, rolloutVars, trainVars, backwardVars>>

SuiteSpec == SuiteInit /\ [][SuiteNext]_suiteVars

-----------------------------------------------------------------------------
\* Every logprob a client receives is that of its token after the history it
\* was sampled from, and every prefix snapshot that of its tokens, though
\* rows end apart, share a cache and sample on many threads; each token takes
\* one draw, and no completion exceeds its limit.
RolloutsAreTrue ==
  /\ part = "rollout" => /\ Rollouts!TypeOK
                         /\ Rollouts!LogprobsDescribeTheHistory
                         /\ Rollouts!SnapshotsDescribeTheirPrefix
                         /\ Rollouts!OneDrawPerToken
                         /\ Rollouts!EndsAtItsLimit

\* An update or a publication that fails half-way leaves no trace in the
\* learner and its policies; a run that is interrupted and resumed, wherever
\* it was cut, applies the same rows to the same updates as one that is not;
\* checkpoints are taken between updates, and the final adapter has them all.
RecoveryIsExact ==
  /\ part = "faults" => /\ Faults!TypeOK
                        /\ Faults!VersionNamesOnePolicy
                        /\ Faults!LearnerIsExact
  /\ part = "train" => /\ Training!TypeOK
                       /\ Training!CheckpointAtBoundary
                       /\ Training!ResumeIsExact
                       /\ Training!FinalIsComplete

\* The gradient that chunks of any size accumulate, with states recomputed
\* and carried backwards, is the derivative of the loss of the whole
\* sequence, for the initial state and for the adapter.
GradientIsDerivative ==
  /\ part = "backward" => /\ Backward!TypeOK
                          /\ Backward!StateGradientIsDerivative
                          /\ Backward!AdapterGradientIsDerivative
                          /\ Backward!ScoresAreUnchunked
=============================================================================
