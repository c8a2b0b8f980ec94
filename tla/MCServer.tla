------------------------------ MODULE MCServer ------------------------------
(***************************************************************************)
(* The server around the engine: the router of models, and the registry of *)
(* requests with its worker pool. Each part is a behaviour of its own; Parts*)
(* names those of a run.                                                   *)
(***************************************************************************)
EXTENDS ModelRouter, TLC

CONSTANTS Parts

VARIABLES
  part,
  tasks, stopping, stage, active, paused, flags, count, budget, closed,
  controls, owner, sampled, missed, escaped

\* Four loads of two models, one of which cannot be loaded, and of an id that
\* does not exist.
LoadWanted == [load1 |-> "modelA", load2 |-> "modelB", load3 |-> "modelB", load4 |-> "noModel"]

\* A streamed chat and two resumes of it; a streamed chat, its resume and a
\* session; a chat, its resume and a batch, which do not stream.
ResumeKind == [chat |-> "chat", again1 |-> "resume", again2 |-> "resume"]
ResumeTarget == [chat |-> "chat", again1 |-> "chat", again2 |-> "chat"]
CallsKind == [chat |-> "chat", again1 |-> "resume", other |-> "session"]
CallsTarget == [chat |-> "chat", again1 |-> "chat", other |-> "other"]
ReplyKind == [chat |-> "chat", again1 |-> "resume", rows |-> "batch"]
ReplyTarget == [chat |-> "chat", again1 |-> "chat", rows |-> "rows"]

\* A chat that is paused and resumed twice, on two workers with one permit.
Resume == INSTANCE RequestRegistry WITH
  Calls <- DOMAIN ResumeKind, Kind <- ResumeKind,
  Streams <- DOMAIN ResumeKind, Target <- ResumeTarget, Workers <- 2,
  Permits <- 1, MaxTokens <- 3, MaxControls <- 3, MayThrow <- FALSE
ASSUME Resume!CallsAssumption

\* Streams and a session on one worker; admission and prefill may throw.
Mixed == INSTANCE RequestRegistry WITH
  Calls <- DOMAIN CallsKind, Kind <- CallsKind, Streams <- {"chat", "again1"},
  Target <- CallsTarget, Workers <- 1, Permits <- 1, MaxTokens <- 1,
  MaxControls <- 2, MayThrow <- TRUE
ASSUME Mixed!CallsAssumption

\* A chat and a batch that do not stream, on two workers.
Replies == INSTANCE RequestRegistry WITH
  Calls <- DOMAIN ReplyKind, Kind <- ReplyKind, Streams <- {"again1"},
  Target <- ReplyTarget, Workers <- 2, Permits <- 1, MaxTokens <- 1,
  MaxControls <- 2, MayThrow <- TRUE
ASSUME Replies!CallsAssumption

registryVars ==
  <<tasks, stopping, stage, active, paused, flags, count, budget, closed,
    controls, owner, sampled, missed, escaped>>
registryOff ==
  /\ tasks = None /\ stopping = None /\ stage = None /\ active = None /\ paused = None
  /\ flags = None /\ count = None /\ budget = None /\ closed = None /\ controls = None
  /\ owner = None /\ sampled = None /\ missed = None /\ escaped = None

-----------------------------------------------------------------------------
\* The behaviour is about one part; the variables of the others stay None,
\* those of ModelRouter as they are at first.
SuiteInit ==
  /\ part \in Parts
  /\ Init
  /\ CASE part = "resume" -> Resume!Init
          [] part = "calls" -> Mixed!Init
          [] part = "replies" -> Replies!Init
          [] OTHER -> registryOff

\* Requests come at any time of the loads.
RouterStep ==
  /\ part = "router" /\ Next
  /\ UNCHANGED <<part, registryVars>>

ResumeStep ==
  /\ part = "resume" /\ Resume!Next
  /\ UNCHANGED <<part, vars>>

MixedStep ==
  /\ part = "calls" /\ Mixed!Next
  /\ UNCHANGED <<part, vars>>

ReplyStep ==
  /\ part = "replies" /\ Replies!Next
  /\ UNCHANGED <<part, vars>>

SuiteNext ==
  \/ RouterStep
  \/ ResumeStep
  \/ MixedStep
  \/ ReplyStep

suiteVars == <<part, vars, registryVars>>

\* Leases are returned and builds end.  Workers run and the engine returns.
SuiteFairness ==
  /\ \A r \in Requests : WF_vars(part = "router" /\ Request(r))
  /\ \A l \in Loads : WF_vars(part = "router" /\ Load(l))
  /\ WF_registryVars(part = "calls" /\ Mixed!Work)
  /\ \A a \in DOMAIN CallsKind : WF_registryVars(part = "calls" /\ Mixed!Step(a))
  /\ WF_registryVars(part = "replies" /\ Replies!Work)
  /\ \A a \in DOMAIN ReplyKind : WF_registryVars(part = "replies" /\ Replies!Step(a))

SuiteSpec == SuiteInit /\ [][SuiteNext]_suiteVars /\ SuiteFairness

-----------------------------------------------------------------------------
\* A chat's state is decoded by one call at a time, whichever of pause,
\* resume and end come together; its budget of tokens is the same over all
\* its resumes; a closed stream is settled; and of the calls that have ended
\* those and only those stay registered whose handler an exception has left.
StateHasOneOwner ==
  /\ part = "resume" => /\ Resume!TypeOK
                        /\ Resume!StateHasOneOwner
                        /\ Resume!BudgetKept
                        /\ Resume!SettledWhenClosed
  /\ part = "calls" => /\ Mixed!TypeOK
                       /\ Mixed!StateHasOneOwner
                       /\ Mixed!BudgetKept
                       /\ Mixed!SettledWhenClosed
                       /\ Mixed!EndedLeavesRegistry
  /\ part = "replies" => /\ Replies!TypeOK
                         /\ Replies!StateHasOneOwner
                         /\ Replies!BudgetKept
                         /\ Replies!SettledWhenClosed
                         /\ Replies!EndedLeavesRegistry

\* Stop and pause by id reach the call that has the state of that id, also
\* while the call it was resumed from is still registered.
ControlReachesOwner ==
  [][/\ part = "resume" => Resume!ControlReachesOwnerStep
     /\ part = "calls" => Mixed!ControlReachesOwnerStep
     /\ part = "replies" => Replies!ControlReachesOwnerStep]_registryVars

\* Every lease and every load ends, also after a load has failed; every call
\* that was posted to the pool is answered unless the server stops, and then
\* its workers return.
EveryCallEnds ==
  /\ \A r \in Requests : <>(part = "router" => request[r] \in RequestEnded)
  /\ \A l \in Loads : <>(part = "router" => call[l] \in CallEnded)
  /\ \A a \in DOMAIN CallsKind :
       (part = "calls" /\ stage[a] = "posted") ~> (part = "calls" => a \in closed \/ stopping)
  /\ \A a \in DOMAIN ReplyKind :
       (part = "replies" /\ stage[a] = "posted") ~> (part = "replies" => a \in closed \/ stopping)
  /\ (part = "calls" /\ stopping) ~> (part = "calls" => Mixed!OnWorker = {})
  /\ (part = "replies" /\ stopping) ~> (part = "replies" => Replies!OnWorker = {})
=============================================================================
