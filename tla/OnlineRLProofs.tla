---------------------------- MODULE OnlineRLProofs ----------------------------
(***************************************************************************)
(* Proofs about the online server, for any number of updates, runs,         *)
(* versions and faults: the types, what the learner, the exports and the    *)
(* cache hold, and that a version names one set of parameters.             *)
(***************************************************************************)
EXTENDS OnlineRL, TLAPS

Samples == UNION {{b[i] : i \in DOMAIN b} : b \in Batches}
Names   == Nat \X Nat
UpdateRecord  == [ver : Names, batch : Batches, gradient : Seq(Samples)]
Params        == Seq(UpdateRecord)
LearnerRecord == [params : Params, moments : Params, step : 0..MaxUpdates, gradient : Seq(Samples)]
PolicyRecord  == [ver : Names, step : 0..MaxUpdates, params : Params,
                  dir : Names \cup {None}, caching : BOOLEAN]
ExportRecord  == [ver : Names, params : Params, step : 0..MaxUpdates,
                  training : LearnerRecord \cup {None}]
PublishRecord == [next : PolicyRecord, changed : BOOLEAN, save : BOOLEAN, checkpoint : BOOLEAN,
                  stage : {"export", "checkpoint", "commit"}]
Job ==
  [op : {"completions"}, ver : Names \cup {None}] \cup [op : {"logprobs"}] \cup
  [op : {"train"}, ver : Names, batch : Batches, weighted : BOOLEAN] \cup
  [op : {"publish"}, expected : 0..MaxUpdates, save : BOOLEAN, checkpoint : BOOLEAN]

(* The types of all variables; TypeOK names the bounds among them.         *)
Typed ==
  /\ run \in 0..MaxRuns /\ runs \in 0..MaxRuns /\ run <= runs /\ version \in 0..MaxVersion
  /\ learner \in LearnerRecord
  /\ policies \in Seq(PolicyRecord) /\ Len(policies) <= KeepVersions
  /\ run # 0 => policies # <<>> /\ reference \in PolicyRecord
  /\ cache \subseteq Names \X Params /\ named \subseteq Names \X Params /\ seen \subseteq Names
  /\ queue \in Seq(Job) /\ Len(queue) <= QueueLimit
  /\ pub # None => pub \in PublishRecord /\ run # 0 /\ queue # <<>>
  /\ DOMAIN exports \subseteq Names /\ exports \in [DOMAIN exports -> ExportRecord]

(* Parameters every update of which was computed from its own samples by   *)
(* rollouts of a policy of the parameters it was applied to; and an        *)
(* optimizer that has seen the last updates of its parameters.             *)
Known(params) ==
  \A i \in 1..Len(params) :
    /\ <<params[i].ver, SubSeq(params, 1, i - 1)>> \in named
    /\ params[i].gradient = params[i].batch
Matched(l) == Len(l.moments) = l.step /\ IsSuffix(l.moments, l.params)

Learnt == Known(learner.params) /\ Matched(learner)
Exported ==
  \A d \in DOMAIN exports :
    /\ <<exports[d].ver, exports[d].params>> \in named /\ Known(exports[d].params)
    /\ exports[d].training # None =>
         exports[d].training.params = exports[d].params /\ Matched(exports[d].training)

(* A policy knows the export of its parameters.                            *)
Backed(p) == p.dir # None => p.dir \in DOMAIN exports /\ exports[p.dir].params = p.params
Retained ==
  \A i \in 1..Len(policies) :
    <<policies[i].ver, policies[i].params>> \in named /\ Backed(policies[i])

(* While nothing was learnt since, the newest policy is of the learner's   *)
(* parameters: its step tells.                                             *)
StepTells ==
  run # 0 => /\ Newest.step <= learner.step
             /\ Newest.step = learner.step => Newest.params = learner.params

(* What publish() holds between its parts.                                 *)
Publishing ==
  pub # None =>
    /\ pub.next.params = learner.params /\ pub.next.step = learner.step
    /\ <<pub.next.ver, pub.next.params>> \in named /\ Backed(pub.next)
    /\ ~pub.changed => Newest.step = learner.step
    /\ pub.checkpoint => pub.save
    /\ pub.stage # "export" /\ pub.save => pub.next.dir # None

(* Who still fills the cache is retained: the first policy leaves it as    *)
(* the reference.                                                          *)
Keeps(v, params) == \E i \in 1..Len(policies) : policies[i].ver = v /\ policies[i].params = params
CacheKept ==
  /\ \A c \in cache : Keeps(c[1], c[2])
  /\ run # 0 /\ reference.caching => Keeps(reference.ver, reference.params)

(* A version not given out yet has no parameters.                          *)
Unused ==
  \A a \in named :
    /\ a[1][1] <= runs
    /\ run # 0 /\ a[1][1] = run => a[1][2] <= version

(* The inductive invariant.                                                *)
IInv ==
  /\ Typed /\ Learnt /\ Exported /\ Retained /\ StepTells /\ Publishing /\ CacheKept
  /\ Unused /\ VersionNamesOnePolicy

-----------------------------------------------------------------------------
(* A suffix, position by position.                                         *)
LEMMA SuffixMeans ==
  ASSUME NEW S, NEW s \in Seq(S), NEW t \in Seq(S)
  PROVE  IsSuffix(s, t) <=>
           Len(s) <= Len(t) /\ \A i \in 1..Len(s) : s[i] = t[Len(t) - Len(s) + i]
<1> DEFINE m == Len(s)
           n == Len(t)
           a == Reverse(s)
           b == Reverse(t)
<1>1. m \in Nat /\ n \in Nat
  OBVIOUS
<1>2. /\ a = [i \in 1..m |-> s[(m - i) + 1]] /\ b = [i \in 1..n |-> t[(n - i) + 1]]
      /\ a \in Seq(S) /\ b \in Seq(S) /\ Len(a) = m /\ Len(b) = n
  BY DEF Reverse
<1>3. IsSuffix(s, t) <=> m <= n /\ SubSeq(a, 1, m) = SubSeq(b, 1, m)
  BY <1>2 DEF IsSuffix, IsPrefix
<1>4. ASSUME m <= n
      PROVE  SubSeq(a, 1, m) = SubSeq(b, 1, m) <=> \A j \in 1..m : a[j] = b[j]
  <2> DEFINE c == SubSeq(a, 1, m)
             d == SubSeq(b, 1, m)
  <2>1. /\ c \in Seq(S) /\ Len(c) = m /\ \A j \in 1..m : c[j] = a[j]
        /\ d \in Seq(S) /\ Len(d) = m /\ \A j \in 1..m : d[j] = b[j]
    BY <1>1, <1>2, <1>4
  <2> HIDE DEF a, b, c, d
  <2>2. (\A j \in 1..m : a[j] = b[j]) => c = d
    BY <2>1
  <2> QED BY <2>1, <2>2 DEF c, d
<1>5. ASSUME m <= n
      PROVE  (\A j \in 1..m : a[j] = b[j]) <=> \A i \in 1..m : s[i] = t[n - m + i]
  <2>1. \A j \in 1..m : a[j] = s[(m - j) + 1] /\ b[j] = t[(n - j) + 1]
    BY <1>1, <1>2, <1>5
  <2> HIDE DEF a, b
  <2>2. ASSUME \A j \in 1..m : a[j] = b[j], NEW i \in 1..m PROVE s[i] = t[n - m + i]
    <3>1. (m - i) + 1 \in 1..m /\ (m - ((m - i) + 1)) + 1 = i
          /\ (n - ((m - i) + 1)) + 1 = n - m + i
      BY <1>1
    <3> QED BY <2>1, <2>2, <3>1
  <2>3. ASSUME \A i \in 1..m : s[i] = t[n - m + i], NEW j \in 1..m PROVE a[j] = b[j]
    <3>1. (m - j) + 1 \in 1..m /\ n - m + ((m - j) + 1) = (n - j) + 1
      BY <1>1
    <3> QED BY <2>1, <2>3, <3>1
  <2> QED BY <2>2, <2>3
<1> QED BY <1>3, <1>4, <1>5

(* One more update: the moments follow the parameters.                     *)
LEMMA SuffixAppend ==
  ASSUME NEW S, NEW s \in Seq(S), NEW t \in Seq(S), NEW e \in S, IsSuffix(s, t)
  PROVE  IsSuffix(Append(s, e), Append(t, e))
<1> DEFINE a == Append(s, e)
           b == Append(t, e)
<1>1. Len(s) <= Len(t) /\ \A i \in 1..Len(s) : s[i] = t[Len(t) - Len(s) + i]
  BY SuffixMeans
<1>2. /\ Len(s) \in Nat /\ Len(t) \in Nat /\ a \in Seq(S) /\ b \in Seq(S)
      /\ Len(a) = Len(s) + 1 /\ a[Len(s) + 1] = e /\ \A i \in 1..Len(s) : a[i] = s[i]
      /\ Len(b) = Len(t) + 1 /\ b[Len(t) + 1] = e /\ \A i \in 1..Len(t) : b[i] = t[i]
  OBVIOUS
<1> HIDE DEF a, b
<1>3. ASSUME NEW i \in 1..Len(a) PROVE a[i] = b[Len(b) - Len(a) + i]
  <2>1. CASE i = Len(s) + 1
    BY <1>2, <2>1
  <2>2. CASE i \in 1..Len(s)
    <3>1. Len(b) - Len(a) + i = Len(t) - Len(s) + i /\ Len(t) - Len(s) + i \in 1..Len(t)
      BY <1>1, <1>2, <2>2
    <3> QED BY <1>1, <1>2, <2>2, <3>1
  <2> QED BY <1>2, <2>1, <2>2
<1>4. Len(a) <= Len(b)
  BY <1>1, <1>2
<1>5. IsSuffix(a, b)
  BY <1>2, <1>3, <1>4, SuffixMeans
<1> QED BY <1>5 DEF a, b

(* No moments yet.                                                         *)
LEMMA SuffixEmpty ==
  ASSUME NEW S, NEW t \in Seq(S)
  PROVE  IsSuffix(<<>>, t)
<1>1. <<>> \in Seq(S)
  OBVIOUS
<1>2. PICK s : s = <<>>
  OBVIOUS
<1>3. s \in Seq(S)
  BY <1>1, <1>2
<1>4. Len(s) = 0 /\ Len(t) \in Nat /\ 1..0 = {}
  BY <1>2
<1>5. Len(s) <= Len(t) /\ \A i \in 1..Len(s) : s[i] = t[Len(t) - Len(s) + i]
  BY <1>4
<1>6. IsSuffix(s, t)
  BY <1>3, <1>5, SuffixMeans
<1> QED BY <1>2, <1>6

(* What is known of parameters stays known.                                *)
LEMMA KnownGrows ==
  ASSUME NEW p \in Params, Known(p), named \subseteq named'
  PROVE  Known(p)'
  BY DEF Known

(* An update on the policy of the parameters, by its own samples.          *)
LEMMA KnownAppend ==
  ASSUME NEW p \in Params, NEW u \in UpdateRecord,
         Known(p), <<u.ver, p>> \in named, u.gradient = u.batch
  PROVE  Append(p, u) \in Params /\ Known(Append(p, u))
<1> DEFINE q == Append(p, u)
<1>1. /\ q \in Params /\ Len(p) \in Nat /\ Len(q) = Len(p) + 1 /\ q[Len(p) + 1] = u
      /\ \A i \in 1..Len(p) : q[i] = p[i]
  BY DEF Params
<1>2. ASSUME NEW i \in 1..Len(p) + 1 PROVE SubSeq(q, 1, i - 1) = SubSeq(p, 1, i - 1)
  BY <1>1 DEF Params
<1>3. SubSeq(p, 1, Len(p)) = p
  BY DEF Params
<1> HIDE DEF q
<1>4. ASSUME NEW i \in 1..Len(q)
      PROVE  <<q[i].ver, SubSeq(q, 1, i - 1)>> \in named /\ q[i].gradient = q[i].batch
  <2>1. CASE i = Len(p) + 1
    <3>1. i - 1 = Len(p) /\ q[i] = u /\ SubSeq(q, 1, i - 1) = p
      BY <1>1, <1>2, <1>3, <2>1
    <3> QED BY <3>1
  <2>2. CASE i \in 1..Len(p)
    <3>1. q[i] = p[i] /\ SubSeq(q, 1, i - 1) = SubSeq(p, 1, i - 1)
      BY <1>1, <1>2, <2>2
    <3> QED BY <2>2, <3>1 DEF Known
  <2> QED BY <1>1, <2>1, <2>2
<1> QED BY <1>1, <1>4 DEF Known, q

-----------------------------------------------------------------------------
(* The newest policy and the one that policy() finds.                      *)
LEMMA NewestIs ==
  ASSUME Typed, run # 0
  PROVE  /\ Len(policies) \in Nat /\ Len(policies) \in 1..Len(policies)
         /\ Newest = policies[Len(policies)] /\ Newest \in PolicyRecord
<1>1. policies \in Seq(PolicyRecord) /\ policies # <<>>
  BY DEF Typed
<1>2. Len(policies) \in Nat /\ Len(policies) > 0
  BY <1>1
<1>3. Newest = policies[Len(policies)]
  BY DEF Newest, Last
<1> QED BY <1>1, <1>2, <1>3

(* policy(): the newest, one that is kept, the reference, or none.          *)
LEMMA PolicyIs ==
  ASSUME Typed, run # 0, NEW v
  PROVE  \/ v = None /\ Policy(v) = Newest
         \/ v # None /\ \E i \in 1..Len(policies) : policies[i].ver = v /\ Policy(v) = policies[i]
         \/ v # None /\ reference.ver = v /\ Policy(v) = reference
         \/ v # None /\ Policy(v) = None
<1> DEFINE kept == {i \in DOMAIN policies : policies[i].ver = v}
<1>1. DOMAIN policies = 1..Len(policies)
  BY DEF Typed
<1>2. CASE v # None /\ kept # {}
  <2>1. PICK i : i = CHOOSE j \in kept : TRUE
    OBVIOUS
  <2>2. i \in kept
    BY <1>2, <2>1
  <2>3. Policy(v) = policies[i]
    BY <1>2, <2>1 DEF Policy
  <2> QED BY <1>1, <1>2, <2>2, <2>3
<1>3. CASE v # None /\ kept = {}
  BY <1>3 DEF Policy
<1>4. CASE v = None
  BY <1>4 DEF Policy
<1> QED BY <1>2, <1>3, <1>4

(* Whatever it finds is a policy.                                          *)
LEMMA PolicyType ==
  ASSUME Typed, run # 0, NEW v, Policy(v) # None
  PROVE  Policy(v) \in PolicyRecord
<1>1. /\ \A i \in 1..Len(policies) : policies[i] \in PolicyRecord
      /\ reference \in PolicyRecord
  BY DEF Typed
<1> QED BY <1>1, PolicyIs, NewestIs

(* The worker serves one job at a time.                                    *)
LEMMA TakenIs ==
  ASSUME Typed, NEW op, Taken(op)
  PROVE  /\ run # 0 /\ pub = None /\ queue # <<>> /\ Head(queue) \in Job /\ Head(queue).op = op
         /\ Tail(queue) \in Seq(Job) /\ Len(Tail(queue)) <= QueueLimit
<1>1. queue \in Seq(Job) /\ queue # <<>> /\ Len(queue) <= QueueLimit
  BY DEF Typed, Taken
<1>2. Len(queue) \in Nat /\ Len(queue) > 0 /\ Len(Tail(queue)) = Len(queue) - 1
  BY <1>1
<1> QED BY <1>1, <1>2, OnlineAssumption DEF Taken

(* Samples are put together as the code adds their gradients.              *)
LEMMA BatchType ==
  ASSUME NEW b \in Batches
  PROVE  /\ b \in Seq(Samples) /\ <<>> \o b = b
         /\ \A n \in DOMAIN b : <<>> \o SubSeq(b, 1, n) \in Seq(Samples)
<1>1. b \in Seq({b[i] : i \in DOMAIN b})
  BY OnlineAssumption
<1>2. \A i \in DOMAIN b : b[i] \in Samples
  BY DEF Samples
<1>3. b \in Seq(Samples)
  BY <1>1, <1>2
<1>4. \A n \in DOMAIN b : SubSeq(b, 1, n) \in Seq(Samples)
  BY <1>3
<1> HIDE DEF Samples
<1> QED BY <1>3, <1>4

-----------------------------------------------------------------------------
(* Every step keeps the types.  First what a new process begins with.      *)
LEMMA BeginTyped ==
  ASSUME Typed, NEW l \in LearnerRecord, Begin(l)
  PROVE  Typed'
<1>1. PICK p : p = Snapshot(0, l)
  OBVIOUS
<1>2. /\ run = 0 /\ runs < MaxRuns /\ runs' = runs + 1 /\ run' = runs + 1 /\ learner' = l
      /\ version' = 0 /\ policies' = <<p>> /\ reference' = p /\ cache' = {} /\ queue' = <<>>
      /\ pub' = None /\ named' = named \cup {<<<<run', 0>>, l.params>>}
      /\ exports' = exports /\ seen' = seen
  BY <1>1 DEF Begin
<1>3. runs + 1 \in 0..MaxRuns /\ 0 \in 0..MaxVersion /\ KeepVersions >= 1 /\ QueueLimit >= 0
  BY <1>2, OnlineAssumption DEF Typed
<1>4. <<run', 0>> \in Names
  BY <1>2, <1>3 DEF Names
<1>5. l.params \in Params /\ l.step \in 0..MaxUpdates
  BY DEF LearnerRecord
<1>6. p \in PolicyRecord
  <2>1. p = [ver |-> <<run', 0>>, step |-> l.step, params |-> l.params, dir |-> None,
             caching |-> TRUE]
    BY <1>1 DEF Snapshot
  <2> QED BY <1>4, <1>5, <2>1 DEF PolicyRecord
<1>7. policies' \in Seq(PolicyRecord) /\ Len(policies') = 1 /\ policies' # <<>>
  BY <1>2, <1>6
<1>8. named' \subseteq Names \X Params
  BY <1>2, <1>4, <1>5 DEF Typed
<1>9. queue' \in Seq(Job) /\ Len(queue') <= QueueLimit
  BY <1>2, <1>3
<1>10. cache' \subseteq Names \X Params
  BY <1>2
<1> QED BY <1>2, <1>3, <1>6, <1>7, <1>8, <1>9, <1>10 DEF Typed

(* Cold, from the parameters of an export, and from a training checkpoint.  *)
LEMMA BlankType == Blank \in LearnerRecord
  BY OnlineAssumption DEF Blank, LearnerRecord, Params
(* Parameters only, with an optimizer that starts anew.                    *)
LEMMA WarmType ==
  ASSUME Typed, NEW d \in DOMAIN exports
  PROVE  WarmLearner(d) \in LearnerRecord
<1>1. exports[d].params \in Params
  BY DEF Typed, ExportRecord
<1> QED BY <1>1, BlankType DEF WarmLearner, LearnerRecord
(* --resume takes all that the checkpoint holds.                           *)
LEMMA RestoredType ==
  ASSUME Typed, NEW d \in DOMAIN exports, exports[d].training # None
  PROVE  /\ exports[d].training \in LearnerRecord
         /\ Restored(exports[d].training) = exports[d].training
<1>1. exports[d].training \in LearnerRecord
  BY DEF Typed, ExportRecord
<1> QED BY <1>1 DEF Restored, LearnerRecord

(* A step that serves or refuses a job and moves nothing else: the worker   *)
(* may add to the cache, and clients learn versions.                       *)
Serving ==
  /\ UNCHANGED <<run, runs, version, policies, reference, exports, named>>
  /\ learner' \in LearnerRecord
  /\ learner'.params = learner.params /\ learner'.moments = learner.moments
  /\ learner'.step = learner.step
  /\ cache \subseteq cache'
  /\ cache' # cache => run # 0 /\ \E p \in PolicyRecord : \E v : p = Policy(v) /\ p # None /\ p.caching
                         /\ cache' = cache \cup {<<p.ver, p.params>>}
  /\ pub' # None => pub' = pub

(* Such a step keeps the types if the queue and the versions told are good. *)
LEMMA ServingTyped ==
  ASSUME Typed, Serving, seen' \subseteq Names, queue' \in Seq(Job), Len(queue') <= QueueLimit,
         pub' # None => queue' # <<>>
  PROVE  Typed'
<1>1. cache' \subseteq Names \X Params
  <2>1. CASE cache' # cache
    <3>1. PICK p \in PolicyRecord : cache' = cache \cup {<<p.ver, p.params>>}
      BY <2>1 DEF Serving
    <3>2. p.ver \in Names /\ p.params \in Params
      BY DEF PolicyRecord
    <3> QED BY <3>1, <3>2 DEF Typed
  <2> QED BY <2>1 DEF Typed
<1> QED BY <1>1 DEF Typed, Serving

(* Which steps those are.                                                  *)
Served ==
  \/ \E job \in Jobs : Enqueue(job)
  \/ Completions \/ Logprobs \/ TrainFails \/ TrainRefused \/ PublishRefused
  \/ ExportRefused \/ ExportFails \/ CheckpointRefused \/ CheckpointFails

(* enqueue() takes a job whose version a client was told of.                *)
LEMMA EnqueueServes ==
  ASSUME Typed, NEW job \in Jobs, Enqueue(job)
  PROVE  Serving /\ Typed'
<1>1. UNCHANGED <<run, runs, version, policies, reference, exports, named, learner, cache, pub, seen>>
  BY DEF Enqueue, serving
<1>2. Serving
  BY <1>1 DEF Serving, Typed
<1>3. job \in Job
  <2>1. seen \subseteq Names
    BY DEF Typed
  <2> QED BY <2>1 DEF Jobs, Job
<1>4. queue' = Append(queue, job) /\ Len(queue) < QueueLimit /\ queue \in Seq(Job)
  BY DEF Enqueue, Typed
<1>5. queue' \in Seq(Job) /\ Len(queue') = Len(queue) + 1 /\ Len(queue) \in Nat /\ queue' # <<>>
  BY <1>3, <1>4
<1> QED BY <1>1, <1>2, <1>4, <1>5, ServingTyped, OnlineAssumption DEF Typed

(* Rollouts add prefixes of the policy they are of.                        *)
LEMMA CompletionsServes ==
  ASSUME Typed, Completions
  PROVE  Serving /\ Typed'
<1>1. /\ UNCHANGED <<run, runs, version, policies, reference, exports, named, learner, pub>>
      /\ queue' = Tail(queue) /\ pub = None
  BY DEF Completions, serving, Answered, Taken
<1>2. Taken("completions")
  BY DEF Completions
<1>3. PICK p : p = Policy(Head(queue).ver)
  OBVIOUS
<1>4. CASE p = None
  <2>1. cache' = cache /\ seen' = seen
    BY <1>3, <1>4 DEF Completions
  <2>2. Serving
    BY <1>1, <2>1 DEF Serving, Typed
  <2> QED BY <1>1, <1>2, <2>1, <2>2, TakenIs, ServingTyped DEF Typed
<1>5. CASE p # None
  <2>1. p \in PolicyRecord /\ run # 0
    BY <1>2, <1>3, <1>5, PolicyType, TakenIs
  <2>2. /\ seen' = seen \cup {p.ver}
        /\ cache' = IF p.caching THEN cache \cup {<<p.ver, p.params>>} ELSE cache
    BY <1>3, <1>5 DEF Completions, Caches
  <2>3. seen' \subseteq Names
    BY <2>1, <2>2 DEF PolicyRecord, Typed
  <2>4. cache' # cache => \E q \in PolicyRecord : \E v : q = Policy(v) /\ q # None /\ q.caching
                            /\ cache' = cache \cup {<<q.ver, q.params>>}
    BY <1>3, <1>5, <2>1, <2>2
  <2>5. Serving
    BY <1>1, <2>1, <2>2, <2>4 DEF Serving, Typed
  <2> QED BY <1>1, <1>2, <2>3, <2>5, TakenIs, ServingTyped
<1> QED BY <1>4, <1>5

(* The other jobs that leave the parameters alone.                         *)
LEMMA JobServes ==
  ASSUME Typed, Logprobs \/ TrainFails \/ TrainRefused \/ PublishRefused
  PROVE  Serving /\ Typed'
<1>1. /\ UNCHANGED <<run, runs, version, policies, reference, exports, named, cache, pub>>
      /\ queue' = Tail(queue) /\ pub = None
      /\ \E op : Taken(op)
  BY DEF Logprobs, TrainFails, TrainRefused, PublishRefused, serving, Answered, Taken
<1>2. run # 0 /\ queue' \in Seq(Job) /\ Len(queue') <= QueueLimit
  BY <1>1, TakenIs
<1>3. seen' \subseteq Names
  <2>1. CASE Logprobs
    BY <1>2, <2>1, NewestIs DEF Logprobs, PolicyRecord, Typed
  <2>2. CASE TrainFails \/ TrainRefused \/ PublishRefused
    BY <2>2 DEF TrainFails, TrainRefused, PublishRefused, Typed
  <2> QED BY <2>1, <2>2
<1>4. /\ learner' \in LearnerRecord
      /\ learner'.params = learner.params /\ learner'.moments = learner.moments
      /\ learner'.step = learner.step
  <2>1. learner \in LearnerRecord
    BY DEF Typed
  <2>2. CASE TrainFails
    <3>1. PICK b : b = Head(queue).batch
      OBVIOUS
    <3>2. b \in Batches
      <4>1. Head(queue) \in Job /\ Head(queue).op = "train"
        BY <2>2, TakenIs DEF TrainFails
      <4> QED BY <3>1, <4>1 DEF Job
    <3>3. PICK n \in DOMAIN b :
            learner' = [learner EXCEPT !.gradient = Cleared(@) \o SubSeq(b, 1, n)]
      BY <2>2, <3>1 DEF TrainFails
    <3>4. learner' = [learner EXCEPT !.gradient = <<>> \o SubSeq(b, 1, n)]
      BY <3>3 DEF Cleared
    <3>5. <<>> \o SubSeq(b, 1, n) \in Seq(Samples)
      BY <3>2, BatchType
    <3> QED BY <2>1, <3>4, <3>5 DEF LearnerRecord
  <2>3. CASE Logprobs \/ TrainRefused \/ PublishRefused
    BY <2>1, <2>3 DEF Logprobs, TrainRefused, PublishRefused
  <2> QED BY <2>2, <2>3
<1>5. Serving
  BY <1>1, <1>4 DEF Serving
<1> QED BY <1>1, <1>2, <1>3, <1>5, ServingTyped

(* A publication that fails leaves the new version number behind.          *)
LEMMA FailServes ==
  ASSUME Typed, ExportRefused \/ ExportFails \/ CheckpointRefused \/ CheckpointFails
  PROVE  Serving /\ Typed'
<1>1. /\ UNCHANGED <<run, runs, version, policies, reference, exports, named, cache, learner, seen>>
      /\ queue' = Tail(queue) /\ pub # None /\ pub' = None
  BY DEF ExportRefused, ExportFails, CheckpointRefused, CheckpointFails, Fails, Answered
<1>2. queue \in Seq(Job) /\ queue # <<>> /\ Len(queue) <= QueueLimit
  BY <1>1 DEF Typed
<1>3. queue' \in Seq(Job) /\ Len(queue') = Len(queue) - 1 /\ Len(queue) \in Nat
  BY <1>1, <1>2
<1>4. Serving
  BY <1>1 DEF Serving, Typed
<1> QED BY <1>1, <1>2, <1>3, <1>4, ServingTyped, OnlineAssumption DEF Typed

(* All of them together.                                                   *)
LEMMA ServedServes ==
  ASSUME Typed, Served
  PROVE  Serving /\ Typed'
  BY EnqueueServes, CompletionsServes, JobServes, FailServes DEF Served

(* Neither serving a job nor failing changes what anything stands for.      *)
LEMMA ServingStep ==
  ASSUME IInv, Serving, Typed'
  PROVE  IInv'
<1>1. /\ named' = named /\ exports' = exports /\ policies' = policies /\ run' = run
      /\ runs' = runs /\ version' = version /\ reference' = reference /\ Newest' = Newest
      /\ learner'.params = learner.params /\ learner'.moments = learner.moments
      /\ learner'.step = learner.step
  BY DEF Serving, Newest
<1>2. Learnt'
  BY <1>1 DEF IInv, Learnt, Known, Matched
<1>3. Exported' /\ Retained'
  BY <1>1 DEF IInv, Exported, Retained, Known, Matched, Backed
<1>4. StepTells' /\ Unused' /\ VersionNamesOnePolicy'
  BY <1>1 DEF IInv, StepTells, Unused, VersionNamesOnePolicy
<1>5. Publishing'
  <2>1. CASE pub' # None
    <3>1. pub' = pub
      BY <2>1 DEF Serving
    <3> QED BY <1>1, <2>1, <3>1 DEF IInv, Publishing, Backed
  <2> QED BY <2>1 DEF Publishing
<1>6. CacheKept'
  <2>1. \A v, p : Keeps(v, p)' <=> Keeps(v, p)
    BY <1>1 DEF Keeps
  <2>2. CASE cache' # cache
    <3>1. PICK p \in PolicyRecord : \E v : /\ p = Policy(v) /\ p # None /\ p.caching
                                           /\ cache' = cache \cup {<<p.ver, p.params>>}
      BY <2>2 DEF Serving
    <3>2. PICK v : p = Policy(v) /\ p # None /\ p.caching /\ cache' = cache \cup {<<p.ver, p.params>>}
      BY <3>1
    <3>3. run # 0 /\ Typed
      BY <2>2 DEF Serving, IInv
    <3>4. Keeps(p.ver, p.params)
      <4>1. CASE \E i \in 1..Len(policies) : p = policies[i]
        BY <4>1 DEF Keeps
      <4>2. CASE p = reference
        BY <3>2, <3>3, <4>2 DEF IInv, CacheKept
      <4> QED BY <3>2, <3>3, <4>1, <4>2, PolicyIs, NewestIs
    <3> QED BY <1>1, <2>1, <3>2, <3>4 DEF IInv, CacheKept
  <2>3. CASE cache' = cache
    BY <1>1, <2>1, <2>3 DEF IInv, CacheKept
  <2> QED BY <2>2, <2>3
<1> QED BY <1>2, <1>3, <1>4, <1>5, <1>6 DEF IInv

-----------------------------------------------------------------------------
(* train(): the update is on the policy whose rollouts the request names.   *)
LEMMA TrainStep ==
  ASSUME IInv, Train
  PROVE  IInv'
<1> DEFINE job == Head(queue)
<1>1. /\ UNCHANGED <<run, runs, version, policies, reference, exports, named, cache, pub, seen>>
      /\ queue' = Tail(queue) /\ Taken("train") /\ Typed
  BY DEF Train, serving, Answered, IInv
<1>2. /\ run # 0 /\ pub = None /\ queue' \in Seq(Job) /\ Len(queue') <= QueueLimit
      /\ job.ver \in Names /\ job.batch \in Batches
  <2>1. job \in Job /\ job.op = "train"
    BY <1>1, TakenIs
  <2>2. job.ver \in Names /\ job.batch \in Batches
    BY <2>1 DEF Job
  <2> QED BY <1>1, <2>2, TakenIs
<1>3. PICK u : u = Update(job, <<>> \o job.batch)
  OBVIOUS
<1>4. u \in UpdateRecord /\ u.ver = job.ver /\ u.gradient = u.batch
  <2>1. job.batch \in Seq(Samples) /\ <<>> \o job.batch = job.batch
    BY <1>2, BatchType
  <2> QED BY <1>2, <1>3, <2>1 DEF Update, UpdateRecord
<1>5. /\ OnPolicy(Policy(job.ver)) /\ learner.step < MaxUpdates
      /\ learner' = [params |-> Append(learner.params, u), moments |-> Append(learner.moments, u),
                     step |-> learner.step + 1, gradient |-> <<>>]
  BY <1>3 DEF Train, Cleared
<1>6. /\ learner.params \in Params /\ learner.moments \in Params /\ learner.step \in 0..MaxUpdates
  BY <1>1 DEF Typed, LearnerRecord
<1>7. Newest.ver = job.ver /\ Newest.step = learner.step
  <2>1. Policy(job.ver) # None /\ Policy(job.ver) = Newest /\ Newest.step = learner.step
    BY <1>5 DEF OnPolicy
  <2>2. job.ver # None
    BY <1>2, OnlineAssumption DEF Names
  <2> QED BY <1>1, <1>2, <2>1, <2>2, PolicyIs
<1>8. <<u.ver, learner.params>> \in named
  <2>1. Newest.params = learner.params
    BY <1>2, <1>7 DEF IInv, StepTells
  <2> QED BY <1>1, <1>2, <1>4, <1>7, <2>1, NewestIs DEF IInv, Retained
<1>9. /\ learner'.params = Append(learner.params, u) /\ learner'.moments = Append(learner.moments, u)
      /\ learner'.step = learner.step + 1 /\ learner'.gradient = <<>>
  BY <1>5
<1>10. Append(learner.params, u) \in Params /\ Known(Append(learner.params, u))
  BY <1>4, <1>6, <1>8, KnownAppend DEF IInv, Learnt
<1>11. Append(learner.moments, u) \in Params /\ Len(Append(learner.moments, u)) = Len(learner.moments) + 1
  BY <1>4, <1>6 DEF Params
<1>12. Learnt'
  <2>1. Known(learner.params)'
    BY <1>1, <1>9, <1>10 DEF Known
  <2>2. IsSuffix(Append(learner.moments, u), Append(learner.params, u))
    BY <1>4, <1>6, SuffixAppend DEF IInv, Learnt, Matched, Params
  <2>3. Len(learner.moments) = learner.step
    BY DEF IInv, Learnt, Matched
  <2> QED BY <1>9, <1>11, <2>1, <2>2, <2>3 DEF Learnt, Matched
<1>13. Typed'
  <2>1. learner.step + 1 \in 0..MaxUpdates /\ <<>> \in Seq(Samples)
    BY <1>5, <1>6, OnlineAssumption
  <2>2. learner' \in LearnerRecord
    BY <1>5, <1>10, <1>11, <2>1 DEF LearnerRecord
  <2> QED BY <1>1, <1>2, <2>2 DEF Typed
<1>14. StepTells'
  <2>1. Newest' = Newest /\ Newest.step = learner.step
    BY <1>1, <1>7 DEF Newest
  <2> QED BY <1>1, <1>6, <1>9, <2>1 DEF StepTells
<1>15. Exported' /\ Retained' /\ Unused' /\ VersionNamesOnePolicy'
  BY <1>1 DEF IInv, Exported, Retained, Known, Matched, Backed, Unused, VersionNamesOnePolicy
<1>16. Publishing' /\ CacheKept'
  BY <1>1, <1>2 DEF IInv, Publishing, CacheKept, Keeps
<1> QED BY <1>12, <1>13, <1>14, <1>15, <1>16 DEF IInv

-----------------------------------------------------------------------------
(* A process ends, with everything that was not written.                   *)
LEMMA CrashStep ==
  ASSUME IInv, Crash
  PROVE  IInv'
<1>1. /\ run' = 0 /\ runs' = runs /\ learner' = Blank /\ version' = 0 /\ policies' = <<>>
      /\ cache' = {} /\ queue' = <<>> /\ pub' = None
      /\ exports' = exports /\ seen' = seen /\ named' = named
  BY DEF Crash
<1>2. Typed'
  <2>1. policies' \in Seq(PolicyRecord) /\ Len(policies') = 0
        /\ queue' \in Seq(Job) /\ Len(queue') = 0
    BY <1>1
  <2>2. 0 \in 0..MaxRuns /\ 0 \in 0..MaxVersion /\ 0 <= KeepVersions /\ 0 <= QueueLimit
    BY OnlineAssumption
  <2>3. runs \in 0..MaxRuns /\ 0 <= runs
    BY DEF IInv, Typed
  <2>4. cache' \subseteq Names \X Params
    BY <1>1
  <2> QED BY <1>1, <2>1, <2>2, <2>3, <2>4, BlankType DEF IInv, Typed
<1>3. Learnt'
  <2>1. learner'.params = <<>> /\ learner'.moments = <<>> /\ learner'.step = 0
    BY <1>1 DEF Blank
  <2>2. IsSuffix(<<>>, <<>>)
    <3>1. PICK t : t = <<>>
      OBVIOUS
    <3>2. t \in Seq(Params)
      BY <3>1
    <3>3. IsSuffix(<<>>, t)
      BY <3>2, SuffixEmpty
    <3> QED BY <3>1, <3>3
  <2> QED BY <2>1, <2>2 DEF Learnt, Matched, Known
<1>4. Exported' /\ VersionNamesOnePolicy'
  BY <1>1 DEF IInv, Exported, Known, Matched, VersionNamesOnePolicy
<1>5. Retained' /\ StepTells' /\ Publishing' /\ CacheKept' /\ Unused'
  BY <1>1 DEF IInv, Retained, StepTells, Publishing, CacheKept, Unused
<1> QED BY <1>2, <1>3, <1>4, <1>5 DEF IInv

(* A process begins with parameters that are known, and a new number.       *)
LEMMA BeginStep ==
  ASSUME IInv, NEW l \in LearnerRecord, Begin(l), Known(l.params), Matched(l)
  PROVE  IInv'
<1>1. PICK p : p = Snapshot(0, l)
  OBVIOUS
<1>2. PICK v : v = <<run', 0>>
  OBVIOUS
<1>3. /\ run = 0 /\ runs' = runs + 1 /\ run' = runs + 1 /\ learner' = l
      /\ version' = 0 /\ policies' = <<p>> /\ reference' = p /\ cache' = {}
      /\ pub' = None /\ named' = named \cup {<<v, l.params>>} /\ exports' = exports
  BY <1>1, <1>2 DEF Begin
<1>4. p.ver = v /\ p.step = l.step /\ p.params = l.params /\ p.dir = None
  BY <1>1, <1>2 DEF Snapshot
<1>5. runs \in Nat /\ v \in Names /\ v[1] = runs + 1 /\ v[2] = 0 /\ l.params \in Params
      /\ l.step \in 0..MaxUpdates
  BY <1>2, <1>3 DEF IInv, Typed, Names, LearnerRecord
<1>6. Len(policies') = 1 /\ policies'[1] = p /\ Newest' = p
  BY <1>3 DEF Newest, Last
<1>7. \A q \in Params : Known(q) => Known(q)'
  BY <1>3, KnownGrows
<1>8. Learnt'
  BY <1>3, <1>5, <1>7 DEF Learnt, Matched
<1>9. Exported'
  <2> SUFFICES ASSUME NEW d \in DOMAIN exports
               PROVE  /\ <<exports[d].ver, exports[d].params>> \in named'
                      /\ Known(exports[d].params)'
                      /\ exports[d].training # None =>
                           exports[d].training.params = exports[d].params
                           /\ Matched(exports[d].training)
    BY <1>3 DEF Exported, Matched
  <2>1. exports[d].params \in Params
    BY DEF IInv, Typed, ExportRecord
  <2>2. PICK q \in Params : q = exports[d].params
    BY <2>1
  <2>3. Known(q)'
    BY <1>7, <2>2 DEF IInv, Exported
  <2>4. Known(exports[d].params)'
    BY <1>3, <2>2, <2>3 DEF Known
  <2> QED BY <1>3, <2>4 DEF IInv, Exported
<1>10. Retained' /\ StepTells' /\ Publishing'
  <2>1. Retained'
    BY <1>3, <1>4, <1>6 DEF Retained, Backed
  <2>2. StepTells'
    BY <1>3, <1>4, <1>5, <1>6 DEF StepTells
  <2> QED BY <1>3, <2>1, <2>2 DEF Publishing
<1>11. CacheKept'
  BY <1>3, <1>6 DEF CacheKept, Keeps
<1>12. Unused' /\ VersionNamesOnePolicy'
  <2>1. \A a \in named : a[1][1] \in Nat /\ a[1][1] <= runs
    BY DEF IInv, Typed, Unused, Names
  <2>2. <<v, l.params>>[1] = v /\ <<v, l.params>>[2] = l.params
    OBVIOUS
  <2>3. Unused'
    <3> SUFFICES ASSUME NEW a \in named'
                 PROVE  a[1][1] <= runs' /\ (run' # 0 /\ a[1][1] = run' => a[1][2] <= version')
      BY DEF Unused
    <3>1. CASE a \in named
      BY <1>3, <1>5, <2>1, <3>1
    <3>2. CASE a = <<v, l.params>>
      BY <1>3, <1>5, <2>2, <3>2
    <3> QED BY <1>3, <3>1, <3>2
  <2>4. \A a \in named : a[1] # v
    BY <1>5, <2>1
  <2> QED BY <1>3, <2>2, <2>3, <2>4 DEF IInv, VersionNamesOnePolicy
<1> QED BY <1>8, <1>9, <1>10, <1>11, <1>12, BeginTyped DEF IInv

(* The ways a process begins.                                              *)
LEMMA StartStep ==
  ASSUME IInv, StartCold \/ \E d \in DOMAIN exports : StartWarm(d) \/ Resume(d)
  PROVE  IInv'
<1>1. Typed
  BY DEF IInv
<1>2. CASE StartCold
  <2>1. PICK l \in LearnerRecord : l = Blank
    BY BlankType
  <2>2. l.params = <<>> /\ l.moments = <<>> /\ l.step = 0
    BY <2>1 DEF Blank
  <2>3. IsSuffix(l.moments, l.params)
    <3>1. l.params \in Seq(UpdateRecord)
      BY DEF LearnerRecord, Params
    <3> QED BY <2>2, <3>1, SuffixEmpty
  <2>4. Known(l.params) /\ Matched(l)
    BY <2>2, <2>3 DEF Known, Matched
  <2> QED BY <1>2, <2>1, <2>4, BeginStep DEF StartCold
<1>3. ASSUME NEW d \in DOMAIN exports, StartWarm(d) PROVE IInv'
  <2>1. PICK l \in LearnerRecord : l = WarmLearner(d)
    BY <1>1, WarmType
  <2>2. l.params = exports[d].params /\ l.moments = <<>> /\ l.step = 0
    BY <2>1 DEF WarmLearner, Blank
  <2>3. IsSuffix(l.moments, l.params)
    <3>1. l.params \in Seq(UpdateRecord)
      BY DEF LearnerRecord, Params
    <3> QED BY <2>2, <3>1, SuffixEmpty
  <2>4. Known(l.params) /\ Matched(l)
    BY <2>2, <2>3 DEF IInv, Exported, Matched
  <2> QED BY <1>3, <2>1, <2>4, BeginStep DEF StartWarm
<1>4. ASSUME NEW d \in DOMAIN exports, Resume(d) PROVE IInv'
  <2>1. exports[d].training # None
    BY <1>4 DEF Resume
  <2>2. PICK l \in LearnerRecord : l = exports[d].training /\ Restored(exports[d].training) = l
    BY <1>1, <2>1, RestoredType
  <2>3. Known(l.params) /\ Matched(l)
    BY <2>1, <2>2 DEF IInv, Exported
  <2> QED BY <1>4, <2>2, <2>3, BeginStep DEF Resume
<1> QED BY <1>2, <1>3, <1>4

-----------------------------------------------------------------------------
(* publish() takes a new version, never given out before, for parameters   *)
(* that no policy has.                                                     *)
LEMMA PublishBeginStep ==
  ASSUME IInv, PublishBegin
  PROVE  IInv'
<1>1. PICK changed \in BOOLEAN : changed = Changed
  BY DEF Changed
<1>2. PICK v : v = <<run, version + 1>>
  OBVIOUS
<1>3. PICK next : next = IF changed THEN Snapshot(version + 1, learner) ELSE Newest
  OBVIOUS
<1>4. /\ run' = run /\ Taken("publish") /\ Typed
      /\ UNCHANGED <<runs, learner, policies, reference, cache, queue, exports, seen>>
  BY DEF PublishBegin, IInv
<1>5. /\ version' = IF changed THEN version + 1 ELSE version
      /\ changed => version < MaxVersion
      /\ named' = IF changed THEN named \cup {<<v, learner.params>>} ELSE named
      /\ pub' = [next |-> next, changed |-> changed,
                 save |-> Head(queue).save \/ Head(queue).checkpoint,
                 checkpoint |-> Head(queue).checkpoint, stage |-> "export"]
  BY <1>1, <1>2, <1>3 DEF PublishBegin, NextVersion
<1>6. /\ run # 0 /\ queue # <<>> /\ Head(queue).save \in BOOLEAN /\ Head(queue).checkpoint \in BOOLEAN
  <2>1. Head(queue) \in Job /\ Head(queue).op = "publish"
    BY <1>4, TakenIs
  <2> QED BY <1>4, <2>1, TakenIs DEF Job
<1>7. /\ learner.params \in Params /\ learner.step \in 0..MaxUpdates /\ version \in 0..MaxVersion
      /\ run \in 0..MaxRuns /\ runs \in 0..MaxRuns /\ run <= runs
  BY <1>4 DEF Typed, LearnerRecord
<1>8. changed => version + 1 \in 0..MaxVersion
  BY <1>5, <1>7, OnlineAssumption
<1>9. v \in Names /\ v[1] = run /\ v[2] = version + 1
  BY <1>2, <1>7 DEF Names
<1>10. changed => next = [ver |-> v, step |-> learner.step, params |-> learner.params,
                          dir |-> None, caching |-> TRUE]
  BY <1>2, <1>3, <1>4 DEF Snapshot
<1>11. /\ next \in PolicyRecord /\ next.params = learner.params /\ next.step = learner.step
       /\ <<next.ver, next.params>> \in named' /\ Backed(next)'
       /\ ~changed => Newest.step = learner.step
  <2>1. CASE changed
    <3>1. next \in PolicyRecord /\ next.dir = None
      <4>1. next = [ver |-> v, step |-> learner.step, params |-> learner.params,
                    dir |-> None, caching |-> TRUE]
        BY <1>10, <2>1
      <4> QED BY <1>7, <1>9, <4>1 DEF PolicyRecord
    <3> QED BY <1>5, <1>10, <2>1, <3>1 DEF Backed
  <2>2. CASE ~changed
    <3>1. next = Newest /\ Newest.step = learner.step
      BY <1>1, <1>3, <2>2 DEF Changed
    <3>2. Newest.params = learner.params
      BY <1>6, <3>1 DEF IInv, StepTells
    <3>3. next \in PolicyRecord /\ <<next.ver, next.params>> \in named /\ Backed(next)
      BY <1>4, <1>6, <3>1, NewestIs DEF IInv, Retained
    <3> QED BY <1>4, <1>5, <2>2, <3>1, <3>2, <3>3 DEF Backed
  <2> QED BY <2>1, <2>2
<1>12. Newest' = Newest /\ \A q \in Params : Known(q) => Known(q)'
  BY <1>4, <1>5, KnownGrows DEF Newest
<1>13. pub' \in PublishRecord
  BY <1>5, <1>6, <1>11 DEF PublishRecord
<1>14. Typed'
  <2>1. named' \subseteq Names \X Params
    BY <1>4, <1>5, <1>7, <1>9 DEF Typed
  <2>2. version' \in 0..MaxVersion
    BY <1>5, <1>7, <1>8
  <2> QED BY <1>4, <1>6, <1>13, <2>1, <2>2 DEF Typed
<1>15. Learnt'
  <2>1. Known(learner.params)'
    <3>1. PICK q \in Params : q = learner.params
      BY <1>7
    <3>2. Known(q)'
      BY <1>12, <3>1 DEF IInv, Learnt
    <3> QED BY <1>4, <3>1, <3>2 DEF Known
  <2> QED BY <1>4, <2>1 DEF IInv, Learnt, Matched
<1>16. Exported'
  <2> SUFFICES ASSUME NEW d \in DOMAIN exports
               PROVE  /\ <<exports[d].ver, exports[d].params>> \in named'
                      /\ Known(exports[d].params)'
                      /\ exports[d].training # None =>
                           exports[d].training.params = exports[d].params
                           /\ Matched(exports[d].training)
    BY <1>4 DEF Exported, Matched
  <2>1. PICK q \in Params : q = exports[d].params
    BY <1>4 DEF Typed, ExportRecord
  <2>2. Known(q)'
    BY <1>12, <2>1 DEF IInv, Exported
  <2>3. Known(exports[d].params)'
    BY <1>4, <2>1, <2>2 DEF Known
  <2> QED BY <1>5, <2>3 DEF IInv, Exported
<1>17. Retained' /\ StepTells' /\ CacheKept'
  BY <1>4, <1>5, <1>12 DEF IInv, Retained, Backed, StepTells, CacheKept, Keeps
<1>18. Publishing'
  BY <1>4, <1>5, <1>11, <1>12 DEF Publishing
<1>19. Unused' /\ VersionNamesOnePolicy'
  <2>1. \A a \in named : /\ a[1][1] \in Nat /\ a[1][2] \in Nat /\ a[1][1] <= runs
                         /\ a[1][1] = run => a[1][2] <= version
    BY <1>4, <1>6 DEF IInv, Typed, Unused, Names
  <2>2. <<v, learner.params>>[1] = v /\ <<v, learner.params>>[2] = learner.params
    OBVIOUS
  <2>3. Unused'
    <3> SUFFICES ASSUME NEW a \in named'
                 PROVE  a[1][1] <= runs /\ (a[1][1] = run => a[1][2] <= version')
      BY <1>4 DEF Unused
    <3>1. CASE a \in named
      BY <1>5, <1>7, <2>1, <3>1
    <3>2. CASE a = <<v, learner.params>> /\ changed
      BY <1>5, <1>7, <1>9, <2>2, <3>2
    <3> QED BY <1>5, <3>1, <3>2
  <2>4. \A a \in named : a[1] # v
    BY <1>7, <1>9, <2>1
  <2> QED BY <1>5, <2>2, <2>3, <2>4 DEF IInv, VersionNamesOnePolicy
<1> QED BY <1>14, <1>15, <1>16, <1>17, <1>18, <1>19 DEF IInv

-----------------------------------------------------------------------------
(* Export: the directory of the new export becomes known to the policy.     *)
LEMMA ExportStep ==
  ASSUME IInv, Export
  PROVE  IInv'
<1>1. /\ UNCHANGED <<run, runs, learner, version, reference, cache, queue, seen, named>>
      /\ pub # None /\ pub.stage = "export" /\ Typed
  BY DEF Export, IInv
<1>2. pub \in PublishRecord /\ run # 0 /\ queue # <<>> /\ pub.next \in PolicyRecord
  BY <1>1 DEF Typed, PublishRecord
<1>3. Learnt' /\ Unused' /\ VersionNamesOnePolicy'
  BY <1>1 DEF IInv, Learnt, Known, Matched, Unused, VersionNamesOnePolicy
<1>4. CASE ~NeedsExport
  <2>1. pub' = [pub EXCEPT !.stage = "checkpoint"] /\ exports' = exports /\ policies' = policies
    BY <1>4 DEF Export
  <2>2. pub' \in PublishRecord
    BY <1>2, <2>1 DEF PublishRecord
  <2>3. /\ pub'.next = pub.next /\ pub'.changed = pub.changed /\ pub'.save = pub.save
        /\ pub'.checkpoint = pub.checkpoint /\ pub.save => pub.next.dir # None
    BY <1>2, <1>4, <2>1 DEF PublishRecord, NeedsExport
  <2>4. Typed'
    BY <1>1, <1>2, <2>1, <2>2 DEF Typed
  <2>5. Exported' /\ Retained' /\ StepTells' /\ CacheKept'
    BY <1>1, <2>1 DEF IInv, Exported, Retained, Known, Matched, Backed, StepTells, CacheKept,
                      Keeps, Newest
  <2>6. Publishing'
    BY <1>1, <2>1, <2>3 DEF IInv, Publishing, Backed, Newest
  <2> QED BY <1>3, <2>4, <2>5, <2>6 DEF IInv
<1>5. CASE NeedsExport
  <2>1. PICK d : d = Directory
    OBVIOUS
  <2>2. PICK e : e = [ver |-> pub.next.ver, params |-> learner.params, step |-> learner.step,
                      training |-> None]
    OBVIOUS
  <2>3. /\ d \notin DOMAIN exports
        /\ exports' = [x \in DOMAIN exports \cup {d} |-> IF x = d THEN e ELSE exports[x]]
        /\ pub' = [pub EXCEPT !.stage = "checkpoint", !.next.dir = d]
        /\ policies' = IF pub.changed THEN policies ELSE [policies EXCEPT ![Len(policies)].dir = d]
    BY <1>5, <2>1, <2>2 DEF Export, WithDirectory
  <2>4. /\ learner.params \in Params /\ learner.step \in 0..MaxUpdates /\ d \in Names /\ d # None
    <3>1. learner.params \in Params /\ learner.step \in 0..MaxUpdates
      BY <1>1 DEF Typed, LearnerRecord
    <3>2. learner.step \in Nat /\ run \in Nat
      BY <1>1, <3>1 DEF Typed
    <3>3. d \in Names
      BY <2>1, <3>2 DEF Directory, Names
    <3> QED BY <3>1, <3>3, OnlineAssumption DEF Names
  <2>5. /\ e \in ExportRecord /\ e.ver = pub.next.ver /\ e.params = learner.params /\ e.training = None
    BY <1>2, <2>2, <2>4 DEF ExportRecord, PolicyRecord
  <2>6. /\ DOMAIN exports' = DOMAIN exports \cup {d} /\ exports'[d] = e
        /\ \A x \in DOMAIN exports : exports'[x] = exports[x]
        /\ exports' \in [DOMAIN exports' -> ExportRecord]
    BY <1>1, <2>3, <2>5 DEF Typed
  <2>7. /\ pub'.next = [pub.next EXCEPT !.dir = d] /\ pub' \in PublishRecord
        /\ pub'.changed = pub.changed /\ pub'.save = pub.save /\ pub'.checkpoint = pub.checkpoint
    <3>1. [pub.next EXCEPT !.dir = d] \in PolicyRecord
      BY <1>2, <2>4 DEF PolicyRecord
    <3> QED BY <1>2, <2>3, <3>1 DEF PublishRecord
  <2>8. /\ pub'.next.dir = d /\ pub'.next.params = pub.next.params /\ pub'.next.step = pub.next.step
        /\ pub'.next.ver = pub.next.ver
    BY <1>2, <2>7 DEF PolicyRecord
  <2>9. /\ policies' \in Seq(PolicyRecord) /\ Len(policies') = Len(policies)
        /\ \A i \in 1..Len(policies) :
             /\ policies'[i].ver = policies[i].ver /\ policies'[i].params = policies[i].params
             /\ policies'[i].step = policies[i].step
             /\ \/ policies'[i].dir = policies[i].dir
                \/ i = Len(policies) /\ ~pub.changed /\ policies'[i].dir = d
    <3>1. policies \in Seq(PolicyRecord) /\ Len(policies) \in 1..Len(policies)
      BY <1>1, <1>2, NewestIs DEF Typed
    <3>2. CASE pub.changed
      BY <2>3, <3>1, <3>2
    <3>3. CASE ~pub.changed
      <4>1. policies' = [policies EXCEPT ![Len(policies)].dir = d]
        BY <2>3, <3>3
      <4>2. PICK p \in PolicyRecord : p = policies[Len(policies)]
        BY <3>1
      <4>3. PICK q : q = [p EXCEPT !.dir = d]
        OBVIOUS
      <4>4. /\ q \in PolicyRecord /\ q.ver = p.ver /\ q.params = p.params /\ q.step = p.step
            /\ q.dir = d
        BY <2>4, <4>3 DEF PolicyRecord
      <4>5. policies' = [policies EXCEPT ![Len(policies)] = q]
        BY <4>1, <4>2, <4>3
      <4>6. policies' \in Seq(PolicyRecord) /\ Len(policies') = Len(policies)
        BY <3>1, <4>4, <4>5
      <4>7. ASSUME NEW i \in 1..Len(policies)
            PROVE  policies'[i] = IF i = Len(policies) THEN q ELSE policies[i]
        BY <3>1, <4>5
      <4> QED BY <3>3, <4>2, <4>4, <4>6, <4>7
    <3> QED BY <3>2, <3>3
  <2>10. Len(policies) \in 1..Len(policies) /\ Newest = policies[Len(policies)]
    BY <1>1, <1>2, NewestIs
  <2>11. /\ Newest'.step = Newest.step /\ Newest'.params = Newest.params
    BY <2>9, <2>10 DEF Newest, Last
  <2>12. Typed'
    <3>1. policies' # <<>>
      BY <2>9, <2>10
    <3> QED BY <1>1, <1>2, <2>4, <2>6, <2>7, <2>9, <3>1 DEF Typed
  <2>13. StepTells'
    BY <1>1, <2>11 DEF IInv, StepTells
  <2>14. /\ pub.next.params = learner.params /\ pub.next.step = learner.step
         /\ <<pub.next.ver, pub.next.params>> \in named
         /\ ~pub.changed => Newest.step = learner.step
         /\ pub.checkpoint => pub.save
    BY <1>1 DEF IInv, Publishing
  <2>15. Publishing'
    <3>1. Backed(pub.next)'
      BY <2>5, <2>6, <2>8, <2>14 DEF Backed
    <3> QED BY <1>1, <2>4, <2>7, <2>8, <2>11, <2>14, <3>1 DEF Publishing
  <2>16. Exported'
    <3> SUFFICES ASSUME NEW x \in DOMAIN exports'
                 PROVE  /\ <<exports'[x].ver, exports'[x].params>> \in named
                        /\ Known(exports'[x].params)
                        /\ exports'[x].training # None =>
                             exports'[x].training.params = exports'[x].params
                             /\ Matched(exports'[x].training)
      BY <1>1 DEF Exported, Known, Matched
    <3>1. CASE x = d
      BY <2>5, <2>6, <2>14, <3>1 DEF IInv, Learnt
    <3>2. CASE x \in DOMAIN exports
      BY <2>6, <3>2 DEF IInv, Exported
    <3> QED BY <2>6, <3>1, <3>2
  <2>17. Retained'
    <3> SUFFICES ASSUME NEW i \in 1..Len(policies)
                 PROVE  <<policies'[i].ver, policies'[i].params>> \in named /\ Backed(policies[i])'
      BY <1>1, <2>9 DEF Retained
    <3>1. <<policies[i].ver, policies[i].params>> \in named /\ Backed(policies[i])
      BY DEF IInv, Retained
    <3>2. CASE policies'[i].dir = policies[i].dir
      BY <2>6, <2>9, <3>1, <3>2 DEF Backed
    <3>3. CASE i = Len(policies) /\ ~pub.changed /\ policies'[i].dir = d
      <4>1. Newest.params = learner.params
        BY <1>2, <2>14, <3>3 DEF IInv, StepTells
      <4> QED BY <2>5, <2>6, <2>9, <2>10, <3>1, <3>3, <4>1 DEF Backed
    <3> QED BY <2>9, <3>2, <3>3
  <2>18. CacheKept'
    <3>1. \A v, p : Keeps(v, p)' <=> Keeps(v, p)
      BY <2>9 DEF Keeps
    <3> QED BY <1>1, <3>1 DEF IInv, CacheKept
  <2> QED BY <1>3, <2>12, <2>13, <2>15, <2>16, <2>17, <2>18 DEF IInv
<1> QED BY <1>4, <1>5

(* Checkpoint: the optimizer joins the export of the same parameters.       *)
LEMMA CheckpointStep ==
  ASSUME IInv, Checkpoint
  PROVE  IInv'
<1>1. /\ UNCHANGED <<run, runs, learner, version, policies, reference, cache, queue, seen, named>>
      /\ pub # None /\ pub.stage = "checkpoint" /\ Typed
      /\ pub' = [pub EXCEPT !.stage = "commit"]
  BY DEF Checkpoint, IInv
<1>2. pub \in PublishRecord /\ run # 0 /\ queue # <<>> /\ pub.next \in PolicyRecord
  BY <1>1 DEF Typed, PublishRecord
<1>3. /\ pub' \in PublishRecord /\ pub'.next = pub.next /\ pub'.changed = pub.changed
      /\ pub'.save = pub.save /\ pub'.checkpoint = pub.checkpoint
  BY <1>1, <1>2 DEF PublishRecord
<1>4. Learnt' /\ Unused' /\ VersionNamesOnePolicy' /\ StepTells' /\ CacheKept'
  BY <1>1 DEF IInv, Learnt, Known, Matched, Unused, VersionNamesOnePolicy, StepTells, CacheKept,
              Keeps, Newest
<1>5. /\ DOMAIN exports' = DOMAIN exports /\ exports' \in [DOMAIN exports' -> ExportRecord]
      /\ \A d \in DOMAIN exports :
           /\ exports'[d].ver = exports[d].ver /\ exports'[d].params = exports[d].params
           /\ \/ exports'[d].training = exports[d].training
              \/ exports'[d].training = learner /\ exports[d].params = learner.params
  <2>1. exports \in [DOMAIN exports -> ExportRecord]
    BY <1>1 DEF Typed
  <2>2. CASE ~NeedsTraining
    <3>1. exports' = exports
      BY <2>2 DEF Checkpoint
    <3> QED BY <2>1, <3>1
  <2>3. CASE NeedsTraining
    <3>1. PICK d : d = pub.next.dir
      OBVIOUS
    <3>2. exports' = [exports EXCEPT ![d].training = TrainingOf(learner)]
      BY <2>3, <3>1 DEF Checkpoint
    <3>3. learner \in LearnerRecord /\ TrainingOf(learner) = learner
      BY <1>1 DEF Typed, TrainingOf, LearnerRecord
    <3>4. d \in DOMAIN exports /\ exports[d].params = learner.params
      BY <1>1, <2>3, <3>1 DEF NeedsTraining, IInv, Publishing, Backed
    <3>5. PICK e \in ExportRecord : e = exports[d]
      BY <2>1, <3>4
    <3>6. PICK f : f = [e EXCEPT !.training = learner]
      OBVIOUS
    <3>7. f \in ExportRecord /\ f.ver = e.ver /\ f.params = e.params /\ f.training = learner
      BY <3>3, <3>6 DEF ExportRecord
    <3>8. exports' = [exports EXCEPT ![d] = f]
      BY <3>2, <3>3, <3>5, <3>6
    <3> QED BY <2>1, <3>4, <3>5, <3>7, <3>8
  <2> QED BY <2>2, <2>3
<1>6. Typed'
  BY <1>1, <1>2, <1>3, <1>5 DEF Typed
<1>7. Publishing' /\ Retained'
  <2>1. \A p : Backed(p) /\ p.dir # None =>
               p.dir \in DOMAIN exports' /\ exports'[p.dir].params = p.params
    BY <1>5 DEF Backed
  <2>2. Backed(pub.next)'
    BY <1>1, <1>3, <2>1 DEF IInv, Publishing, Backed
  <2>3. Publishing'
    BY <1>1, <1>3, <2>2 DEF IInv, Publishing, Newest
  <2>4. Retained'
    BY <1>1, <2>1 DEF IInv, Retained, Backed
  <2> QED BY <2>3, <2>4
<1>8. Exported'
  <2> SUFFICES ASSUME NEW d \in DOMAIN exports
               PROVE  /\ <<exports'[d].ver, exports'[d].params>> \in named
                      /\ Known(exports'[d].params)
                      /\ exports'[d].training # None =>
                           exports'[d].training.params = exports'[d].params
                           /\ Matched(exports'[d].training)
    BY <1>1, <1>5 DEF Exported, Known, Matched
  <2>1. /\ exports'[d].ver = exports[d].ver /\ exports'[d].params = exports[d].params
        /\ \/ exports'[d].training = exports[d].training
           \/ exports'[d].training = learner /\ exports[d].params = learner.params
    BY <1>5
  <2>2. CASE exports'[d].training = exports[d].training
    BY <2>1, <2>2 DEF IInv, Exported
  <2>3. CASE exports'[d].training = learner /\ exports[d].params = learner.params
    BY <2>1, <2>3 DEF IInv, Exported, Learnt
  <2> QED BY <2>1, <2>2, <2>3
<1> QED BY <1>4, <1>6, <1>7, <1>8 DEF IInv

(* Commit: the oldest policies leave with their prefixes.                  *)
LEMMA CommitStep ==
  ASSUME IInv, Commit
  PROVE  IInv'
<1>1. PICK all : all = IF pub.changed THEN Append(policies, pub.next) ELSE policies
  OBVIOUS
<1>2. PICK drop : drop = Drop(all)
  OBVIOUS
<1>3. PICK retired : retired = SubSeq(all, 1, drop)
  OBVIOUS
<1>4. /\ pub # None /\ pub' = None /\ queue' = Tail(queue) /\ Typed
      /\ policies' = SubSeq(all, drop + 1, Len(all))
      /\ cache' = WithoutRetired(retired) /\ reference' = Retire(reference, retired)
      /\ seen' = seen \cup {pub.next.ver}
      /\ UNCHANGED <<run, runs, learner, version, exports, named>>
  BY <1>1, <1>2, <1>3 DEF Commit, Answered, IInv
<1>5. /\ pub \in PublishRecord /\ run # 0 /\ queue # <<>> /\ pub.next \in PolicyRecord
      /\ pub.changed \in BOOLEAN
  BY <1>4 DEF Typed, PublishRecord
<1>6. policies \in Seq(PolicyRecord) /\ Len(policies) \in 1..Len(policies) /\ Len(policies) \in Nat
      /\ Newest = policies[Len(policies)]
  BY <1>4, <1>5, NewestIs DEF Typed
<1>7. /\ all \in Seq(PolicyRecord) /\ Len(all) \in Nat /\ Len(all) > 0
      /\ \A i \in 1..Len(policies) : i \in 1..Len(all) /\ all[i] = policies[i]
      /\ \A i \in 1..Len(all) : i \in 1..Len(policies) \/ all[i] = pub.next
      /\ all[Len(all)] = IF pub.changed THEN pub.next ELSE Newest
  BY <1>1, <1>5, <1>6
<1>8. drop \in 0..Len(all) - 1 /\ Len(all) - drop <= KeepVersions
  BY <1>2, <1>7, OnlineAssumption DEF Drop
<1>9. /\ policies' \in Seq(PolicyRecord) /\ Len(policies') = Len(all) - drop
      /\ \A i \in 1..Len(policies') : policies'[i] = all[drop + i] /\ drop + i \in 1..Len(all)
  <2> DEFINE kept == SubSeq(all, drop + 1, Len(all))
  <2>1. drop \in Nat /\ drop + 1 \in 1..Len(all)
    BY <1>7, <1>8
  <2>2. kept \in Seq(PolicyRecord) /\ Len(kept) = Len(all) - drop
    BY <1>7, <2>1
  <2>3. \A i \in 1..Len(all) - drop : kept[i] = all[drop + i]
    BY <1>7, <2>1
  <2>4. \A i \in 1..Len(all) - drop : drop + i \in 1..Len(all)
    BY <1>7, <2>1
  <2> HIDE DEF kept
  <2>5. policies' = kept
    BY <1>4 DEF kept
  <2> QED BY <2>2, <2>3, <2>4, <2>5
<1>10. /\ Len(retired) = drop /\ DOMAIN retired = 1..drop
       /\ \A i \in 1..drop : retired[i] = all[i]
  BY <1>3, <1>7, <1>8
<1>11. Newest' = all[Len(all)]
  BY <1>7, <1>8, <1>9 DEF Newest, Last
<1>12. ASSUME NEW v, NEW p, Keeps(v, p), \A i \in DOMAIN retired : v # retired[i].ver
       PROVE  Keeps(v, p)'
  <2>1. PICK i \in 1..Len(policies) : policies[i].ver = v /\ policies[i].params = p
    BY <1>12 DEF Keeps
  <2>2. i \in 1..Len(all) /\ all[i] = policies[i]
    BY <1>7
  <2>3. i > drop
    BY <1>8, <1>10, <1>12, <2>1, <2>2
  <2>4. i - drop \in 1..Len(policies') /\ drop + (i - drop) = i
    BY <1>6, <1>7, <1>8, <1>9, <2>2, <2>3
  <2>5. policies'[i - drop] = policies[i]
    BY <1>9, <2>2, <2>4
  <2> QED BY <2>1, <2>4, <2>5 DEF Keeps
<1>13. /\ reference' \in PolicyRecord /\ reference'.ver = reference.ver
       /\ reference'.params = reference.params
       /\ reference'.caching => reference.caching /\ \A i \in DOMAIN retired : reference.ver # retired[i].ver
  <2>1. reference \in PolicyRecord
    BY <1>4, <1>5 DEF Typed
  <2> QED BY <1>4, <2>1 DEF Retire, PolicyRecord
<1>14. CacheKept'
  <2>1. \A c \in cache' : c \in cache /\ \A i \in DOMAIN retired : c[1] # retired[i].ver
    BY <1>4 DEF WithoutRetired
  <2>2. \A c \in cache' : Keeps(c[1], c[2])'
    BY <1>12, <2>1 DEF IInv, CacheKept
  <2>3. reference'.caching => Keeps(reference.ver, reference.params)'
    BY <1>5, <1>12, <1>13 DEF IInv, CacheKept
  <2> QED BY <1>13, <2>2, <2>3 DEF CacheKept, Keeps
<1>15. Typed'
  <2>1. queue' \in Seq(Job) /\ Len(queue') <= QueueLimit
    <3>1. queue \in Seq(Job) /\ Len(queue) <= QueueLimit
      BY <1>4 DEF Typed
    <3>2. Len(queue') = Len(queue) - 1 /\ Len(queue) \in Nat /\ queue' \in Seq(Job)
      BY <1>4, <1>5, <3>1
    <3> QED BY <3>1, <3>2, OnlineAssumption
  <2>2. cache' \subseteq cache
    BY <1>4 DEF WithoutRetired
  <2>3. seen' \subseteq Names
    BY <1>4, <1>5 DEF Typed, PolicyRecord
  <2>4. policies' # <<>> /\ Len(policies') <= KeepVersions
    BY <1>7, <1>8, <1>9
  <2> QED BY <1>4, <1>9, <1>13, <2>1, <2>2, <2>3, <2>4 DEF Typed
<1>16. Learnt' /\ Unused' /\ VersionNamesOnePolicy' /\ Exported' /\ Publishing'
  BY <1>4 DEF IInv, Learnt, Known, Matched, Unused, VersionNamesOnePolicy, Exported, Publishing
<1>17. StepTells'
  <2>1. CASE pub.changed
    <3>1. Newest' = pub.next
      BY <1>7, <1>11, <2>1
    <3>2. pub.next.params = learner.params /\ pub.next.step = learner.step /\ learner.step \in Int
      BY <1>4 DEF IInv, Publishing, Typed, LearnerRecord
    <3> QED BY <1>4, <3>1, <3>2 DEF StepTells
  <2>2. CASE ~pub.changed
    <3>1. Newest' = Newest
      BY <1>7, <1>11, <2>2
    <3> QED BY <1>4, <3>1 DEF IInv, StepTells
  <2> QED BY <2>1, <2>2
<1>18. Retained'
  <2>1. ASSUME NEW i \in 1..Len(all)
        PROVE  <<all[i].ver, all[i].params>> \in named /\ Backed(all[i])
    <3>1. CASE i \in 1..Len(policies)
      BY <1>7, <3>1 DEF IInv, Retained
    <3>2. CASE all[i] = pub.next
      BY <1>4, <3>2 DEF IInv, Publishing
    <3> QED BY <1>7, <3>1, <3>2
  <2> QED BY <1>4, <1>9, <2>1 DEF Retained, Backed
<1> QED BY <1>14, <1>15, <1>16, <1>17, <1>18 DEF IInv

-----------------------------------------------------------------------------
(* Nothing is written, and nobody serves.                                  *)
LEMMA InitIInv == Init => IInv
<1> SUFFICES ASSUME Init PROVE IInv
  OBVIOUS
<1>1. /\ run = 0 /\ runs = 0 /\ version = 0 /\ learner = Blank /\ policies = <<>> /\ cache = {}
      /\ queue = <<>> /\ pub = None /\ exports = <<>> /\ seen = {} /\ named = {}
  BY DEF Init
<1>2. DOMAIN exports = {} /\ Len(policies) = 0 /\ Len(queue) = 0
      /\ policies \in Seq(PolicyRecord) /\ queue \in Seq(Job)
  BY <1>1
<1>3. /\ 0 \in 0..MaxRuns /\ 0 \in 0..MaxVersion /\ 0 <= KeepVersions /\ 0 <= QueueLimit
  BY OnlineAssumption
<1>4. exports \in [DOMAIN exports -> ExportRecord]
  BY <1>1, <1>2
<1>5. Typed
  BY <1>1, <1>2, <1>3, <1>4, BlankType DEF Typed
<1>6. Learnt
  <2>1. learner.params = <<>> /\ learner.moments = <<>> /\ learner.step = 0
    BY <1>1 DEF Blank
  <2>2. learner.params \in Seq(UpdateRecord)
    BY <1>5 DEF Typed, LearnerRecord, Params
  <2>3. IsSuffix(learner.moments, learner.params)
    BY <2>1, <2>2, SuffixEmpty
  <2> QED BY <2>1, <2>3 DEF Learnt, Known, Matched
<1>7. Exported /\ Retained /\ StepTells /\ Publishing
  BY <1>1, <1>2 DEF Exported, Retained, StepTells, Publishing
<1>8. CacheKept /\ Unused /\ VersionNamesOnePolicy
  BY <1>1 DEF CacheKept, Unused, VersionNamesOnePolicy
<1> QED BY <1>5, <1>6, <1>7, <1>8 DEF IInv

(* The invariant holds throughout.                                         *)
LEMMA Inductive == Spec => []IInv
<1>1. ASSUME IInv, [Next]_vars PROVE IInv'
  <2>1. CASE Served
    BY <1>1, <2>1, ServedServes, ServingStep DEF IInv
  <2>2. CASE Train \/ Crash \/ StartCold \/ \E d \in DOMAIN exports : StartWarm(d) \/ Resume(d)
    BY <1>1, <2>2, TrainStep, CrashStep, StartStep
  <2>3. CASE PublishBegin \/ Export \/ Checkpoint \/ Commit
    BY <1>1, <2>3, PublishBeginStep, ExportStep, CheckpointStep, CommitStep
  <2>4. CASE UNCHANGED vars
    BY <1>1, <2>4 DEF vars, IInv, Typed, Learnt, Known, Matched, Exported, Retained, Backed,
                      StepTells, Newest, Publishing, CacheKept, Keeps, Unused,
                      VersionNamesOnePolicy
  <2> QED BY <1>1, <2>1, <2>2, <2>3, <2>4 DEF Next, Served
<1> QED BY <1>1, InitIInv, PTL DEF Spec

-----------------------------------------------------------------------------
(* TypeOK: within the queue's limit, --keep-versions and the bounds.        *)
THEOREM TypeCorrect == Spec => []TypeOK
<1>1. IInv => TypeOK
  BY DEF IInv, Typed, TypeOK, LearnerRecord
<1> QED BY <1>1, Inductive, PTL

(* A version string stands for one set of parameters for ever, over failed  *)
(* publications and restarts.                                              *)
THEOREM VersionsNameOnePolicy == Spec => []VersionNamesOnePolicy
<1>1. IInv => VersionNamesOnePolicy
  BY DEF IInv
<1> QED BY <1>1, Inductive, PTL

(* Updates are on the policy they name and of their own samples, the        *)
(* optimizer and the exports are those of the parameters, and the cache is  *)
(* of policies that are kept.                                              *)
THEOREM LearnerStaysExact == Spec => []LearnerIsExact
<1>1. IInv => LearnerIsExact
  <2> SUFFICES ASSUME IInv PROVE LearnerIsExact
    OBVIOUS
  <2>1. DOMAIN learner.params = 1..Len(learner.params)
    BY DEF IInv, Typed, LearnerRecord, Params
  <2>2. UpdatesAreOnPolicy /\ GradientIsOwn
    BY <2>1 DEF IInv, Learnt, Known, UpdatesAreOnPolicy, GradientIsOwn
  <2>3. OptimizerMatchesStep
    BY DEF IInv, Learnt, Matched, OptimizerMatchesStep
  <2>4. DOMAIN policies = 1..Len(policies)
    BY DEF IInv, Typed
  <2>5. CacheIsOfRetainedPolicies
    BY <2>4 DEF IInv, CacheKept, Keeps, CacheIsOfRetainedPolicies
  <2>6. ExportsAreTrue
    BY DEF IInv, Exported, ExportsAreTrue
  <2> QED BY <2>2, <2>3, <2>5, <2>6 DEF LearnerIsExact
<1> QED BY <1>1, Inductive, PTL
===============================================================================
