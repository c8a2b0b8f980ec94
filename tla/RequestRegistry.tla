--------------------------- MODULE RequestRegistry ---------------------------
(***************************************************************************)
(* RequestRegistry and the generation routes around it: chat, batch and     *)
(* session completions, stop, pause and resume, on the pool of generation   *)
(* workers.  A call is one HTTP request; its ActiveRequest is identified    *)
(* with the call.  A resumed call uses the request id of the chat it        *)
(* continues, so two active requests may carry one id.                     *)
(*                                                                         *)
(* Left out: texts, speeds and JSON, the adapter and the state cache (see   *)
(* StateCache for the copy a pause leaves there), who is first in line for  *)
(* admission (see PrefillAdmission).                                       *)
(***************************************************************************)
EXTENDS Naturals, Sequences, SequencesExt, FiniteSets, FiniteSetsExt

CONSTANTS
  Calls,         \* HTTP calls that generate
  Kind,          \* Kind[a]: "chat", "batch", "session" or "resume"
  Streams,       \* calls that answer with a stream (every resume does)
  Target,        \* Target[a]: the chat whose request id call a uses
  Workers,       \* size of the worker pool
  Permits,       \* calls admitted at a time
  MaxTokens,     \* max_tokens of every chat
  MaxControls,   \* bound: stop and pause calls
  MayThrow,      \* whether admission and generation may throw
  None

CallsAssumption ==
  /\ Kind \in [Calls -> {"chat", "batch", "session", "resume"}]
  /\ Streams \subseteq Calls /\ \A a \in Calls : Kind[a] = "resume" => a \in Streams
  /\ Target \in [Calls -> Calls] /\ \A a \in Calls : Kind[a] # "resume" => Target[a] = a
  /\ Workers \in Nat \ {0} /\ Permits \in Nat \ {0} /\ MaxTokens \in Nat
  /\ MaxControls \in Nat /\ MayThrow \in BOOLEAN

VARIABLES
  tasks,         \* queue of the worker pool
  stopping,      \* shutdown_generation_workers() has been called
  stage,
  active,        \* active_: calls in the order of start()
  paused,        \* paused_: what is kept of a paused chat, or None
  flags,         \* flags[a]: stop_requested and pause_requested
  count,         \* count[a]: generated_tokens of a's ActiveRequest
  budget,        \* budget[a]: max_tokens, what is left of it, tokens saved by the pause
  closed,        \* calls whose client has seen the end of the response
  controls,
  owner,         \* history: the calls that may still go on from the state of a chat
  sampled,       \* history: tokens generated for a chat, all its calls together
  missed,        \* history: those of them that resumed calls did not count
  escaped        \* history: calls whose handler an exception has left

vars == <<tasks, stopping, stage, active, paused, flags, count, budget, closed,
          controls, owner, sampled, missed, escaped>>
pool     == <<tasks, stopping>>
registry == <<active, paused, flags>>
tokens   == <<count, budget, sampled, missed>>

Stages == {"idle", "posted", "handling", "taken", "queued", "waiting", "generating",
           "returned", "ended", "dismissed", "closing", "leaving", "done", "refused"}
Monus(m, n) == IF m > n THEN m - n ELSE 0

Init ==
  /\ tasks = <<>> /\ stopping = FALSE
  /\ stage = [a \in Calls |-> "idle"]
  /\ active = <<>> /\ paused = [r \in Calls |-> None] /\ flags = [a \in Calls |-> {}]
  /\ count = [a \in Calls |-> 0]
  /\ budget = [a \in Calls |-> [max |-> MaxTokens, left |-> MaxTokens, saved |-> 0]]
  /\ closed = {} /\ controls = 0
  /\ owner = [r \in Calls |-> {r}] /\ escaped = {}
  /\ sampled = [r \in Calls |-> 0] /\ missed = [r \in Calls |-> 0]

(* A handler holds its worker until it has replied; the task of a stream    *)
(* has one of its own.                                                     *)
OnWorker == {a \in Calls : stage[a] \in {"handling", "waiting", "generating", "returned",
                                         "ended", "dismissed", "closing", "leaving"}}
(* The permit is a local of the task, or of a handler that does not stream. *)
Admitted == {a \in Calls : \/ stage[a] \in {"generating", "returned"}
                           \/ stage[a] = "ended" /\ a \notin Streams}

Goto(a, s) == stage' = [stage EXCEPT ![a] = s]
GivesUp(a) == owner' = [owner EXCEPT ![Target[a]] = @ \ {a}]

-----------------------------------------------------------------------------
(* Arrival.  /resume runs on the HTTP thread, the others on a worker.       *)
Arrive(a) ==
  /\ stage[a] = "idle" /\ ~stopping /\ Kind[a] # "resume"
  /\ Goto(a, "posted") /\ tasks' = Append(tasks, a)
  /\ UNCHANGED <<stopping, registry, tokens, closed, controls, owner, escaped>>

(* A worker takes the oldest task: a handler, or the task of a stream.      *)
FreeWorker == Cardinality(OnWorker) < Workers
Work ==
  /\ tasks # <<>> /\ ~stopping /\ FreeWorker
  /\ tasks' = Tail(tasks)
  /\ Goto(Head(tasks), IF stage[Head(tasks)] = "posted" THEN "handling" ELSE "waiting")
  /\ UNCHANGED <<stopping, registry, tokens, closed, controls, owner, escaped>>

(* start(); then the stream's task is queued behind the others, or the      *)
(* handler goes on itself.                                                 *)
Start(a) ==
  /\ active' = Append(active, a)
  /\ IF a \in Streams
       THEN Goto(a, "queued") /\ tasks' = Append(tasks, a)
       ELSE Goto(a, "waiting") /\ UNCHANGED tasks
  /\ UNCHANGED <<stopping, paused, flags, count, sampled, missed, closed, controls, owner, escaped>>

Register(a) == stage[a] = "handling" /\ Start(a) /\ UNCHANGED budget

(* take_paused(): the state goes to one caller.                            *)
Untaken(r) == paused
Taken(r) == [paused EXCEPT ![r] = None]
TakePaused(a) ==
  /\ stage[a] = "idle" /\ ~stopping /\ Kind[a] = "resume"
  /\ LET r == Target[a]
     IN  IF paused[r] = None
           THEN /\ Goto(a, "refused") /\ closed' = closed \cup {a}
                /\ UNCHANGED <<paused, owner, count, budget>>
           ELSE /\ Goto(a, "taken") /\ paused' = Taken(r)
                /\ owner' = [owner EXCEPT ![r] = @ \cup {a}]
                /\ count' = [count EXCEPT ![a] = paused[r].generated]
                /\ budget' = [budget EXCEPT ![a].max = paused[r].max]
                /\ UNCHANGED closed
  /\ UNCHANGED <<pool, active, flags, sampled, missed, controls, escaped>>

Kept(r, n, max) == paused' = [paused EXCEPT ![r] = [generated |-> n, max |-> max]]

(* The options of the resume call are invalid: the request is put back.     *)
PutBack(a) ==
  /\ stage[a] = "taken"
  /\ Kept(Target[a], count[a], budget[a].max) /\ GivesUp(a)
  /\ Goto(a, "refused") /\ closed' = closed \cup {a}
  /\ UNCHANGED <<pool, active, flags, tokens, controls, escaped>>

(* It goes on with what the paused call has left of max_tokens.             *)
Continue(a) ==
  /\ stage[a] = "taken" /\ Start(a)
  /\ LET n == Monus(budget[a].max, count[a])
     IN  budget' = [budget EXCEPT ![a] = [max |-> n, left |-> n, saved |-> count[a]]]

-----------------------------------------------------------------------------
(* Admission: a call leaves when stop or pause is requested, and a batch    *)
(* that is larger than the server admits is rejected.                      *)
LeaveQueue(a) ==
  /\ stage[a] = "waiting" /\ (flags[a] # {} \/ Kind[a] = "batch")
  /\ Goto(a, IF a \in Streams THEN "closing" ELSE "dismissed") /\ GivesUp(a)
  /\ UNCHANGED <<pool, registry, tokens, closed, controls, escaped>>

Admit(a) ==
  /\ stage[a] = "waiting" /\ flags[a] = {} /\ Cardinality(Admitted) < Permits
  /\ Goto(a, "generating")
  /\ UNCHANGED <<pool, registry, tokens, closed, controls, owner, escaped>>

(* generate_from_logits_stream() emits a chunk of n tokens.  The callback   *)
(* counts the tokens of its text when encoded again, which need not be n.   *)
Emit(a) ==
  /\ stage[a] = "generating"
  /\ \E n, c \in 1..2 :
       /\ n <= budget[a].left
       /\ budget' = [budget EXCEPT ![a].left = @ - n]
       /\ count' = [count EXCEPT ![a] = @ + c]
       /\ sampled' = [sampled EXCEPT ![Target[a]] = @ + n]
       /\ missed' = [missed EXCEPT ![Target[a]] =
            @ + (IF Kind[a] = "resume" THEN Monus(n, c) ELSE 0)]
  /\ UNCHANGED <<pool, stage, registry, closed, controls, owner, escaped>>

(* It returns at the limit, at an end token or when should_stop says so.    *)
(* A chat then stores the exact number of its tokens, if there are any.     *)
Exact(a) == budget[a].max - budget[a].left
Return(a) ==
  /\ stage[a] = "generating"
  /\ Goto(a, "returned")
  /\ count' = [count EXCEPT ![a] = IF Kind[a] = "chat" /\ Exact(a) > 0 THEN Exact(a) ELSE @]
  /\ UNCHANGED <<pool, registry, budget, sampled, missed, closed, controls, owner, escaped>>

(* An exception, of the query of the capacity while the call waits or of    *)
(* generation.  A task reports it on its stream.  Of the handlers that do   *)
(* not stream, batch catches all after admission, chat and session those of *)
(* creating the state; any other leaves the handler past finish().          *)
Caught(a) == stage[a] = "generating" /\ (Kind[a] = "batch" \/ Exact(a) = 0)
Uncaught(a) == stage[a] = "waiting" \/ Kind[a] # "batch"
Throw(a) ==
  /\ MayThrow /\ stage[a] \in {"waiting", "generating"} /\ GivesUp(a)
  /\ \/ a \in Streams /\ Goto(a, "closing") /\ UNCHANGED <<closed, escaped>>
     \/ a \notin Streams /\ Caught(a) /\ Goto(a, "ended") /\ UNCHANGED <<closed, escaped>>
     \/ /\ a \notin Streams /\ Uncaught(a) /\ Goto(a, "done")
        /\ closed' = closed \cup {a} /\ escaped' = escaped \cup {a}
  /\ UNCHANGED <<pool, registry, tokens, controls>>

(* Chat and resume look at pause_requested when generation has returned,    *)
(* and keep the state.  A resumed call adds the saved tokens to its limit.  *)
LimitKept(a) == budget[a].max + budget[a].saved
KeepsState(a) == Kind[a] \in {"chat", "resume"} /\ "pause" \in flags[a]
Conclude(a) ==
  /\ stage[a] = "returned"
  /\ Goto(a, IF a \in Streams THEN "closing" ELSE "ended") /\ GivesUp(a)
  /\ IF KeepsState(a) THEN Kept(Target[a], count[a], LimitKept(a)) ELSE UNCHANGED paused
  /\ UNCHANGED <<pool, active, flags, tokens, closed, controls, escaped>>

(* The end of a stream: [DONE] and close, then on_done.  Without a stream   *)
(* finish() comes before the reply.                                        *)
ReadyToClose(a) == stage[a] = "closing"
Close(a) ==
  /\ a \in Streams /\ ReadyToClose(a)
  /\ Goto(a, "leaving") /\ closed' = closed \cup {a}
  /\ UNCHANGED <<pool, registry, tokens, controls, owner, escaped>>

Finished(a) == SelectSeq(active, LAMBDA x : x # a)
Finish(a) ==
  /\ stage[a] \in {"leaving", "ended", "dismissed"}
  /\ active' = Finished(a)
  /\ Goto(a, "done") /\ closed' = closed \cup {a}
  /\ UNCHANGED <<pool, paused, flags, tokens, controls, owner, escaped>>

-----------------------------------------------------------------------------
(* active(id): the newest request of that id; active(): the newest of all.  *)
Oldest(S) == Min({i \in 1..Len(active) : active[i] \in S})
Newest(S) == Max({i \in 1..Len(active) : active[i] \in S})
Named(r) == {a \in Range(active) : Target[a] = r}

Flagged(S, flag) == [a \in Calls |-> IF a \in S THEN flags[a] \cup {flag} ELSE flags[a]]
Control == controls < MaxControls /\ controls' = controls + 1

StopAll ==
  /\ Control /\ flags' = Flagged(Range(active), "stop")
  /\ UNCHANGED <<pool, stage, active, paused, tokens, closed, owner, escaped>>

StopOne(r) ==
  /\ Control /\ Named(r) # {}
  /\ flags' = Flagged({active[Newest(Named(r))]}, "stop")
  /\ UNCHANGED <<pool, stage, active, paused, tokens, closed, owner, escaped>>

Pause(S) ==
  /\ Control /\ S # {}
  /\ flags' = Flagged({active[Newest(S)]}, "pause")
  /\ UNCHANGED <<pool, stage, active, paused, tokens, closed, owner, escaped>>

(* shutdown_generation_workers(): stop everyone, then the pool finishes     *)
(* what its workers are at and drops what is queued.                       *)
Shutdown ==
  /\ ~stopping /\ stopping' = TRUE
  /\ flags' = Flagged(Range(active), "stop")
  /\ UNCHANGED <<tasks, stage, active, paused, tokens, closed, controls, owner, escaped>>

Step(a) ==
  \/ Register(a) \/ PutBack(a) \/ Continue(a) \/ LeaveQueue(a) \/ Admit(a) \/ Emit(a)
  \/ Return(a) \/ Throw(a) \/ Conclude(a) \/ Close(a) \/ Finish(a)

Next ==
  \/ \E a \in Calls : Arrive(a) \/ TakePaused(a) \/ Step(a)
  \/ Work \/ StopAll \/ Shutdown
  \/ \E r \in Calls : StopOne(r) \/ Pause(Named(r))
  \/ Pause(Range(active))

(* Workers run, and the engine returns in the end (Scheduler).             *)
Spec == Init /\ [][Next]_vars /\ WF_vars(Work) /\ \A a \in Calls : WF_vars(Step(a))

-----------------------------------------------------------------------------
(* Types of the registry, of the pool and of the calls.                    *)
TypeOK ==
  /\ tasks \in Seq(Calls) /\ stopping \in BOOLEAN /\ stage \in [Calls -> Stages]
  /\ active \in Seq(Calls) /\ flags \in [Calls -> SUBSET {"stop", "pause"}]
  /\ \A r \in Calls : paused[r] # None => paused[r].generated \in Nat /\ paused[r].max \in Nat
  /\ count \in [Calls -> Nat]
  /\ budget \in [Calls -> [max : Nat, left : Nat, saved : Nat]]
  /\ closed \subseteq Calls /\ escaped \subseteq Calls /\ controls \in 0..MaxControls
  /\ Cardinality(OnWorker) <= Workers /\ Cardinality(Admitted) <= Permits

(* The state of a paused chat goes on in one place: it is kept, or one call *)
(* has it, however resumes, refused resumes and repeated pauses interleave. *)
StateHasOneOwner ==
  \A r \in Calls : Cardinality(owner[r]) + (IF paused[r] = None THEN 0 ELSE 1) <= 1

(* Over any number of pauses and resumes a chat gets no more tokens than    *)
(* its max_tokens, but for those a resumed call did not count since its     *)
(* text, encoded again, has fewer tokens than were sampled; and what is     *)
(* kept of it allows no less than its max_tokens.                          *)
BudgetKept ==
  \A r \in Calls : Kind[r] = "chat" =>
    /\ sampled[r] <= MaxTokens + missed[r]
    /\ paused[r] # None => paused[r].max >= MaxTokens

(* A call that has ended is listed as active, for ever, if and only if an    *)
(* exception has left its handler: nothing else that ends it, a stop, a     *)
(* pause, a refusal, an error on its stream or the end of another call of    *)
(* its id, leaves it there or takes another away.                          *)
EndedLeavesRegistry ==
  \A a \in Calls :
    /\ stage[a] = "done" => (a \in Range(active) <=> a \in escaped)
    /\ a \in OnWorker /\ stage[a] # "handling" => a \in Range(active)

(* When the client has seen the end of a response, its call has let go of   *)
(* the state: it was kept for a resume before, or it is gone.              *)
SettledWhenClosed == \A a \in closed : a \notin owner[Target[a]]

(* Stop and pause by id reach the call that has the state of that id, also  *)
(* while the call it was resumed from is still registered.                 *)
ControlReachesOwnerStep ==
  \A x \in Calls : \A f \in flags'[x] \ flags[x] :
    \A a \in owner[Target[x]] \cap Range(active) : f \in flags'[a]
ControlReachesOwner == [][ControlReachesOwnerStep]_vars

=============================================================================
