------------------------------- MODULE OnlineRL -------------------------------
(***************************************************************************)
(* The online RL server: clients queue rollouts, training steps and          *)
(* publications; one worker thread runs them in order on a learner, the       *)
(* policies published from it and their prefix cache.  Publication writes an  *)
(* export and a training checkpoint; the process may crash at any point and   *)
(* be started again from what is on disk.                                    *)
(*                                                                         *)
(* Parameters are identified with the updates applied to them, an update      *)
(* with the policy version its request names, its samples and the gradient    *)
(* it used.  A cached prefix is identified with the parameters that made it.  *)
(* completions() itself is modelled in Rollout.                              *)
(***************************************************************************)
EXTENDS Naturals, Sequences, SequencesExt, FiniteSets

CONSTANTS
  Adapter,           \* TRUE: MiSS/NoRA (Trainer), FALSE: state tuning
  KeepVersions,      \* --keep-versions
  QueueLimit,        \* 32 in enqueue()
  Batches,           \* sequences of samples a train request may carry
  MaxUpdates, MaxRuns, MaxVersion, MaxFaults,      \* bounds of the model
  None

ASSUME OnlineAssumption ==
  /\ KeepVersions \in Nat \ {0} /\ QueueLimit \in Nat /\ Adapter \in BOOLEAN
  /\ \A b \in Batches : b \in Seq({b[i] : i \in DOMAIN b})
  /\ MaxUpdates \in Nat /\ MaxRuns \in Nat /\ MaxVersion \in Nat /\ MaxFaults \in Nat
  /\ None \notin Nat \X Nat

VARIABLES
  run,          \* run_id_: 0 while the process is down, numbered by start
  runs,         \* processes started so far
  learner,      \* params, moments (Adam), step, gradient
  version,      \* version_
  policies,     \* policies_
  reference,    \* reference_
  cache,        \* entries of cache_, as <<version, params>>
  queue,        \* Worker::queue_
  pub,          \* the publish() under way, or None
  exports,      \* --output: export directories by <<run, step>>
  leftover,     \* training.tmp directories, by <<run, step>>
  seen,         \* policy versions clients were told of, ever
  named,        \* every <<version, params>> that was snapshot, ever
  faults        \* failed writes and computations so far

vars == <<run, runs, learner, version, policies, reference, cache, queue, pub, exports, leftover, seen, named, faults>>
serving == <<run, runs, version, policies, reference, exports, leftover, named>>

Jobs ==
  [op : {"completions"}, ver : seen \cup {None}] \cup [op : {"logprobs"}] \cup
  [op : {"train"}, ver : seen, batch : Batches, weighted : BOOLEAN] \cup
  [op : {"publish"}, expected : 0..MaxUpdates, save : BOOLEAN, checkpoint : BOOLEAN]

Blank == [params |-> <<>>, moments |-> <<>>, step |-> 0, gradient |-> <<>>]
Snapshot(v, l) == [ver |-> <<run', v>>, step |-> l.step, params |-> l.params, dir |-> None, caching |-> TRUE]

-----------------------------------------------------------------------------
(* Runtime::Runtime(): the learner cold, from --adapter/--state of an export   *)
(* (parameters only), or from --resume DIR, which needs DIR/training.          *)
Begin(l) ==
  /\ run = 0 /\ runs < MaxRuns
  /\ runs' = runs + 1 /\ run' = runs + 1
  /\ learner' = l /\ version' = 0
  /\ policies' = <<Snapshot(0, l)>> /\ reference' = Snapshot(0, l)
  /\ cache' = {} /\ queue' = <<>> /\ pub' = None
  /\ named' = named \cup {<<<<run', 0>>, l.params>>}
  /\ UNCHANGED <<exports, leftover, seen, faults>>

StartCold == Begin(Blank)
WarmLearner(d) == [Blank EXCEPT !.params = exports[d].params]
StartWarm(d) == Begin(WarmLearner(d))
ParametersOnly(t) == [Blank EXCEPT !.params = t.params, !.step = t.step]
Restored(t) == [params |-> t.params, moments |-> t.moments, step |-> t.step, gradient |-> t.gradient]
Resume(d) == exports[d].training # None /\ Begin(Restored(exports[d].training))

Init ==
  /\ run = 0 /\ runs = 0 /\ learner = Blank /\ version = 0
  /\ policies = <<>> /\ reference = None /\ cache = {} /\ queue = <<>> /\ pub = None
  /\ exports = <<>> /\ leftover = {} /\ seen = {} /\ named = {} /\ faults = 0

Crash ==
  /\ run # 0 /\ run' = 0
  /\ learner' = Blank /\ version' = 0 /\ policies' = <<>> /\ reference' = None
  /\ cache' = {} /\ queue' = <<>> /\ pub' = None
  /\ UNCHANGED <<runs, exports, leftover, seen, named, faults>>

-----------------------------------------------------------------------------
(* enqueue(): a full queue is answered 503 at once.                           *)
Enqueue(job) ==
  /\ run # 0 /\ Len(queue) < QueueLimit
  /\ queue' = Append(queue, job)
  /\ UNCHANGED <<learner, cache, pub, seen, faults, serving>>

Newest == Last(policies)
Policy(ver) ==                                   \* policy(): None for HTTP 409
  LET kept == {i \in DOMAIN policies : policies[i].ver = ver}
  IN IF ver = None THEN Newest
     ELSE IF kept # {} THEN policies[CHOOSE i \in kept : TRUE]
     ELSE IF reference.ver = ver THEN reference ELSE None

Taken(op) == run # 0 /\ pub = None /\ queue # <<>> /\ Head(queue).op = op
Answered == queue' = Tail(queue)

(* completions(): rollouts of one policy, filling the cache if it may.        *)
Caches(p) == p.caching
Completions ==
  /\ Taken("completions") /\ Answered
  /\ LET p == Policy(Head(queue).ver)
     IN IF p = None THEN UNCHANGED <<cache, seen>>
        ELSE /\ seen' = seen \cup {p.ver}
             /\ cache' = IF Caches(p) THEN cache \cup {<<p.ver, p.params>>} ELSE cache
  /\ UNCHANGED <<learner, pub, faults, serving>>

Logprobs ==                                     \* the newest version, as health tells
  /\ Taken("logprobs") /\ Answered
  /\ seen' = seen \cup {Newest.ver}
  /\ UNCHANGED <<learner, cache, pub, faults, serving>>

(* train(): refused unless the version named is the newest policy and nothing  *)
(* was learnt since.                                                        *)
OnPolicy(p) == p # None /\ p = Newest /\ p.step = learner.step

(* The gradient is cleared, the samples add to it one by one (a nonfinite     *)
(* loss of one, or a nonfinite sum, throws), then Adam runs and clears it.     *)
Cleared(gradient) == <<>>
Update(job, gradient) == [ver |-> job.ver, batch |-> job.batch, gradient |-> gradient]
Train ==
  /\ Taken("train") /\ Answered
  /\ LET job == Head(queue)
         sum == Cleared(learner.gradient) \o job.batch
         update == Update(job, sum)
     IN /\ OnPolicy(Policy(job.ver)) /\ job.weighted
        /\ learner.step < MaxUpdates
        /\ learner' = [params |-> Append(learner.params, update), moments |-> Append(learner.moments, update),
                       step |-> learner.step + 1, gradient |-> <<>>]
  /\ UNCHANGED <<cache, pub, seen, faults, serving>>
TrainFails ==
  /\ Taken("train") /\ Answered /\ faults < MaxFaults
  /\ LET job == Head(queue)
     IN /\ OnPolicy(Policy(job.ver)) /\ job.weighted
        /\ \E n \in DOMAIN job.batch :
             learner' = [learner EXCEPT !.gradient = Cleared(@) \o SubSeq(job.batch, 1, n)]
  /\ faults' = faults + 1
  /\ UNCHANGED <<cache, pub, seen, serving>>
TrainRefused ==                                  \* 409, or no weight: no update
  /\ Taken("train") /\ Answered
  /\ ~OnPolicy(Policy(Head(queue).ver)) \/ ~Head(queue).weighted
  /\ UNCHANGED <<learner, cache, pub, seen, faults, serving>>

-----------------------------------------------------------------------------
(* publish(), first part: a new snapshot if the learner has moved on.         *)
Directory == <<run, learner.step>>
SameVersion(v) == v
NextVersion(v) == v + 1
Changed == Newest.step # learner.step
PublishBegin ==
  /\ Taken("publish") /\ Head(queue).expected = learner.step
  /\ Changed => version < MaxVersion
  /\ LET changed == Changed
         v == NextVersion(version)
     IN /\ run' = run
        /\ version' = IF changed THEN v ELSE version
        /\ named' = IF changed THEN named \cup {<<<<run, v>>, learner.params>>} ELSE named
        /\ pub' = [next |-> IF changed THEN Snapshot(v, learner) ELSE Newest, changed |-> changed,
                   save |-> Head(queue).save \/ Head(queue).checkpoint,
                   checkpoint |-> Head(queue).checkpoint, stage |-> "export"]
  /\ UNCHANGED <<runs, learner, policies, reference, cache, queue, exports, leftover, seen, faults>>
PublishRefused ==                                \* 409 "learner step changed"
  /\ Taken("publish") /\ Answered /\ Head(queue).expected # learner.step
  /\ UNCHANGED <<learner, cache, pub, seen, faults, serving>>

(* The shared policy object gets its directory even if publish() fails later.  *)
WithDirectory(ps, changed) == IF changed THEN ps ELSE [ps EXCEPT ![Len(ps)].dir = Directory]
Fails ==                                         \* the exception answers 409 or 500
  /\ pub' = None /\ Answered
  /\ UNCHANGED <<run, runs, learner, version, policies, reference, cache, exports, seen, named>>

(* Export into a temporary directory, renamed when complete.                  *)
NeedsExport == pub.save /\ pub.next.dir = None
Export ==
  /\ pub # None /\ pub.stage = "export"
  /\ IF NeedsExport
     THEN /\ Directory \notin DOMAIN exports
          /\ exports' = [d \in DOMAIN exports \cup {Directory} |->
               IF d = Directory THEN [ver |-> pub.next.ver, params |-> learner.params, step |-> learner.step, training |-> None]
               ELSE exports[d]]
          /\ pub' = [pub EXCEPT !.stage = "checkpoint", !.next.dir = Directory]
          /\ policies' = WithDirectory(policies, pub.changed)
     ELSE pub' = [pub EXCEPT !.stage = "checkpoint"] /\ UNCHANGED <<exports, policies>>
  /\ UNCHANGED <<run, runs, learner, version, reference, cache, queue, leftover, seen, named, faults>>
ExportRefused ==                                 \* 409 "destination exists"
  /\ pub # None /\ pub.stage = "export" /\ NeedsExport /\ Directory \in DOMAIN exports
  /\ Fails /\ UNCHANGED <<leftover, faults>>
ExportFails ==                                   \* remove_all(temp)
  /\ pub # None /\ pub.stage = "export" /\ NeedsExport /\ Directory \notin DOMAIN exports
  /\ faults < MaxFaults /\ faults' = faults + 1
  /\ Fails /\ UNCHANGED leftover

(* Trainer::checkpoint() leaves training.tmp behind when it fails and refuses  *)
(* to write over one; save_state_training() removes its own.                  *)
NeedsTraining == pub.checkpoint /\ exports[pub.next.dir].training = None
TrainingOf(l) == [params |-> l.params, moments |-> l.moments, step |-> l.step, gradient |-> l.gradient]
Checkpoint ==
  /\ pub # None /\ pub.stage = "checkpoint"
  /\ IF NeedsTraining
     THEN pub.next.dir \notin leftover /\ exports' = [exports EXCEPT ![pub.next.dir].training = TrainingOf(learner)]
     ELSE UNCHANGED exports
  /\ pub' = [pub EXCEPT !.stage = "commit"]
  /\ UNCHANGED <<run, runs, learner, version, policies, reference, cache, queue, leftover, seen, named, faults>>
CheckpointRefused ==
  /\ pub # None /\ pub.stage = "checkpoint" /\ NeedsTraining /\ pub.next.dir \in leftover
  /\ Fails /\ UNCHANGED <<leftover, faults>>
CheckpointFails ==
  /\ pub # None /\ pub.stage = "checkpoint" /\ NeedsTraining /\ pub.next.dir \notin leftover
  /\ faults < MaxFaults /\ faults' = faults + 1
  /\ leftover' = IF Adapter THEN leftover \cup {pub.next.dir} ELSE leftover
  /\ Fails

(* Last part: the policy joins, the oldest leave with their prefixes.         *)
WithoutRetired(retired) == {c \in cache : \A i \in DOMAIN retired : c[1] # retired[i].ver}
Retire(p, retired) == IF \E i \in DOMAIN retired : retired[i].ver = p.ver THEN [p EXCEPT !.caching = FALSE] ELSE p
Drop(all) == IF Len(all) > KeepVersions THEN Len(all) - KeepVersions ELSE 0
Commit ==
  /\ pub # None /\ pub.stage = "commit"
  /\ LET all == IF pub.changed THEN Append(policies, pub.next) ELSE policies
         drop == Drop(all)
         retired == SubSeq(all, 1, drop)
     IN /\ policies' = SubSeq(all, drop + 1, Len(all))
        /\ cache' = WithoutRetired(retired)
        /\ reference' = Retire(reference, retired)
  /\ seen' = seen \cup {pub.next.ver}
  /\ pub' = None /\ Answered
  /\ UNCHANGED <<run, runs, learner, version, exports, leftover, named, faults>>

Next ==
  \/ StartCold \/ (\E d \in DOMAIN exports : StartWarm(d) \/ Resume(d)) \/ Crash
  \/ \E job \in Jobs : Enqueue(job)
  \/ Completions \/ Logprobs \/ Train \/ TrainFails \/ TrainRefused
  \/ PublishBegin \/ PublishRefused \/ Export \/ ExportRefused \/ ExportFails
  \/ Checkpoint \/ CheckpointRefused \/ CheckpointFails \/ Commit

Spec == Init /\ [][Next]_vars

-----------------------------------------------------------------------------
TypeOK ==
  /\ run \in 0..MaxRuns /\ version \in 0..MaxVersion
  /\ Len(queue) <= QueueLimit /\ Len(policies) <= KeepVersions
  /\ run # 0 => policies # <<>> /\ learner.step \in 0..MaxUpdates

(* Every update was computed from rollouts of exactly the parameters it was    *)
(* applied to, whatever was retried, delayed in the queue or sent to a         *)
(* restarted server (docs/online-rl.md: "A second update before publication   *)
(* is rejected (409)").                                                     *)
UpdatesAreOnPolicy ==
  \A i \in DOMAIN learner.params :
    <<learner.params[i].ver, SubSeq(learner.params, 1, i - 1)>> \in named

(* An update uses the gradient of its own samples only: nothing is left of a   *)
(* batch that failed half-way, here or before a checkpoint and resume.        *)
GradientIsOwn ==
  \A i \in DOMAIN learner.params : learner.params[i].gradient = learner.params[i].batch

(* A version string stands for one set of parameters for ever, over failed     *)
(* publications and restarts.                                               *)
VersionNamesOnePolicy ==
  \A a, b \in named : a[1] = b[1] => a[2] = b[2]

(* Prefixes in the cache were made by the policy they are kept for, and only   *)
(* retained policies have any: a retired reference never gets new ones.       *)
CacheIsOfRetainedPolicies ==
  \A c \in cache : \E i \in DOMAIN policies : policies[i].ver = c[1] /\ policies[i].params = c[2]

(* The optimizer has one moment update per step and they are the last updates  *)
(* of the parameters, across checkpoint and resume: Adam's bias correction     *)
(* (step + 1) matches its moments.                                          *)
OptimizerMatchesStep ==
  /\ Len(learner.moments) = learner.step
  /\ IsSuffix(learner.moments, learner.params)

(* An export holds the parameters of the version its policy.json names, and a  *)
(* training directory in it the optimizer of the same parameters.             *)
ExportsAreTrue ==
  \A d \in DOMAIN exports :
    /\ <<exports[d].ver, exports[d].params>> \in named
    /\ exports[d].training # None => exports[d].training.params = exports[d].params

(* What the learner and the exports are is what their steps and versions say,  *)
(* through failures, retries, crashes and restarts from a checkpoint.         *)
LearnerIsExact ==
  /\ UpdatesAreOnPolicy /\ GradientIsOwn /\ OptimizerMatchesStep
  /\ CacheIsOfRetainedPolicies /\ ExportsAreTrue
==============================================================================
