--------------------------- MODULE RouterScheduler ---------------------------
(***************************************************************************)
(* The Go router's choice of a worker: scheduler.go, and the part of       *)
(* proxy.go that forwards one request and gives its reservation back.      *)
(* Which workers hold the State or adapter that a request names is `placed`*)
(* here, changed by AdapterReplication and StateReplication.               *)
(***************************************************************************)
EXTENDS Integers, Sequences, FiniteSets, FiniteSetsExt

CONSTANTS
  Backends,             \* 1..n, in the order of the configuration
  Weight,               \* relative capacity of each (integers here)
  Calls,                \* requests
  Sizes,                \* their batch sizes
  Sessions,             \* session ids; a request may have none
  MaxFailures           \* bound: transport failures

SchedulerAssumption ==
  /\ Backends = 1..Cardinality(Backends) /\ Backends # {}
  /\ Weight \in [Backends -> Nat \ {0}]
  /\ Sizes \subseteq Nat \ {0} /\ MaxFailures \in Nat

VARIABLES
  inflight,             \* of each worker
  unhealthy,            \* workers whose cooldown has not passed
  next,                 \* where the search starts, 0..n-1
  sessions,             \* worker of each session, 0: none
  placed,               \* workers that have the named State or adapter
  call,                 \* each request: pc, bsz, backend
  failures,             \* failures so far
  picks                 \* history: choices made in a row at no load at all

vars == <<inflight, unhealthy, next, sessions, placed, call, failures, picks>>

N == Cardinality(Backends)
NoSession == "no session"
NoBackend == 0

Over == [pc |-> "done", bsz |-> 0, backend |-> NoBackend]

Init ==
  /\ inflight = [b \in Backends |-> 0]
  /\ unhealthy = {} /\ next = 0
  /\ sessions = [s \in Sessions |-> NoBackend]
  /\ placed = Backends
  /\ call = [c \in Calls |-> [pc |-> "new", bsz |-> 0, backend |-> NoBackend]]
  /\ failures = 0 /\ picks = <<>>

-----------------------------------------------------------------------------
\* A worker may take the request; `named`: it asks for a State or an adapter.
Eligible(b, named) == b \notin unhealthy /\ (named => b \in placed)

\* load of b is less than that of c; inflight / weight without a division.
Less(b, c) == inflight[b] * Weight[c] < inflight[c] * Weight[b]

Nth(offset) == ((next + offset) % N) + 1

\* The loop of acquireWithAdapter: the first of the least loaded, from next on.
Chosen(named) ==
  LET search[k \in 0..N] ==
        IF k = 0 THEN NoBackend
        ELSE LET b == Nth(k - 1) IN
             IF /\ Eligible(b, named)
                /\ search[k - 1] = NoBackend \/ Less(b, search[k - 1])
             THEN b ELSE search[k - 1]
  IN search[N]

\* Mutant: the session is looked up for nothing.
AffineIgnored(s, named) == s # NoSession /\ FALSE

\* A session stays with its worker while that one may take the request.
Affine(s, named) == s # NoSession /\ sessions[s] # NoBackend /\ Eligible(sessions[s], named)

Reserve(c, b, size) ==
  /\ inflight' = [inflight EXCEPT ![b] = @ + size]
  /\ call' = [call EXCEPT ![c] = [pc |-> "forward", bsz |-> size, backend |-> b]]

AcquireAffine(c, size, s, named) ==
  /\ call[c].pc = "new" /\ Affine(s, named)
  /\ Reserve(c, sessions[s], size)
  /\ UNCHANGED <<unhealthy, next, sessions, placed, failures, picks>>

AllIdle == \A b \in Backends : inflight[b] = 0

\* Where the next search starts.
AfterChoice(b) == (next + 1) % N

Acquire(c, size, s, named) ==
  /\ call[c].pc = "new" /\ ~Affine(s, named)
  /\ LET b == Chosen(named) IN
     IF b = NoBackend
     THEN /\ call' = [call EXCEPT ![c] = Over]
          /\ UNCHANGED <<inflight, next, sessions, picks>>
     ELSE /\ Reserve(c, b, size)
          /\ next' = AfterChoice(b)
          /\ sessions' = IF s = NoSession THEN sessions ELSE [sessions EXCEPT ![s] = b]
          /\ picks' = IF AllIdle /\ ~named /\ unhealthy = {} THEN Append(picks, b) ELSE <<>>
  /\ UNCHANGED <<unhealthy, placed, failures>>

\* State and adapter operations reserve one place on every worker.
AcquireAll(c) ==
  /\ call[c].pc = "new"
  /\ inflight' = [b \in Backends |-> inflight[b] + 1]
  /\ call' = [call EXCEPT ![c] = [pc |-> "broadcast", bsz |-> 1, backend |-> NoBackend]]
  /\ UNCHANGED <<unhealthy, next, sessions, placed, failures, picks>>

\* releaseFunc, deferred: once, whatever the outcome.
Released(c, ok) ==
  IF call[c].pc = "broadcast" THEN [b \in Backends |-> inflight[b] - 1]
  ELSE [inflight EXCEPT ![call[c].backend] = @ - call[c].bsz]

\* The answer has been copied, the client has gone, or the transport failed.
Done(c) ==
  /\ call[c].pc = "forward"
  /\ inflight' = Released(c, TRUE)
  /\ call' = [call EXCEPT ![c] = Over]
  /\ UNCHANGED <<unhealthy, next, sessions, placed, failures, picks>>

Fails(c) ==
  /\ call[c].pc = "forward" /\ failures < MaxFailures
  /\ failures' = failures + 1
  /\ unhealthy' = unhealthy \cup {call[c].backend}
  /\ inflight' = Released(c, FALSE)
  /\ call' = [call EXCEPT ![c] = Over]
  /\ UNCHANGED <<next, sessions, placed, picks>>

\* A broadcast ends with the workers it could not reach marked, and those that
\* confirmed an upload healthy again; it may have changed the placement.
EndBroadcast(c) ==
  /\ call[c].pc = "broadcast"
  /\ inflight' = Released(c, TRUE)
  /\ call' = [call EXCEPT ![c] = Over]
  /\ \E missed \in SUBSET Backends, has \in SUBSET Backends :
       /\ missed \subseteq unhealthy \/ failures < MaxFailures
       /\ failures' = IF missed \subseteq unhealthy THEN failures ELSE failures + 1
       /\ unhealthy' = missed /\ placed' = has
  /\ UNCHANGED <<next, sessions, picks>>

\* failure_cooldown_seconds have passed.
Cooldown(b) ==
  /\ b \in unhealthy
  /\ unhealthy' = unhealthy \ {b}
  /\ UNCHANGED <<inflight, next, sessions, placed, call, failures, picks>>

Next ==
  \/ \E c \in Calls :
       \/ \E size \in Sizes, s \in Sessions \cup {NoSession}, named \in BOOLEAN :
            AcquireAffine(c, size, s, named) \/ Acquire(c, size, s, named)
       \/ AcquireAll(c) \/ Done(c) \/ Fails(c) \/ EndBroadcast(c)
  \/ \E b \in Backends : Cooldown(b)

Spec == Init /\ [][Next]_vars

-----------------------------------------------------------------------------
\* Types.
TypeOK ==
  /\ inflight \in [Backends -> Nat] /\ unhealthy \subseteq Backends
  /\ next \in 0..(N - 1) /\ sessions \in [Sessions -> Backends \cup {NoBackend}]
  /\ placed \subseteq Backends /\ picks \in Seq(Backends)

\* The load a choice is made by is real: what the requests now forwarded to a
\* worker reserved and one place per broadcast, whichever way others ended.
InflightIsReserved ==
  \A b \in Backends :
    inflight[b] = MapThenSumSet(
      LAMBDA c : IF call[c].pc = "broadcast" \/ call[c].backend = b THEN call[c].bsz ELSE 0,
      {c \in Calls : call[c].pc \in {"forward", "broadcast"}})

\* "It picks the healthy backend with the lowest in_flight_bsz / weight"
\* (router README): no worker that may take a request has less load than the
\* one the search returns, and it returns one if there is one.
LeastLoaded ==
  \A named \in BOOLEAN :
    LET b == Chosen(named)
        all == {x \in Backends : Eligible(x, named)}
    IN IF all = {} THEN b = NoBackend ELSE b \in all /\ \A x \in all : ~Less(x, b)

\* "Ties rotate fairly" (router README): of n choices in a row at no load
\* every worker gets one.
TiesRotate ==
  \A i \in 1..Len(picks) : i + N - 1 <= Len(picks) =>
    {picks[k] : k \in i..(i + N - 1)} = Backends

\* A session leaves its worker only when that one cannot take the request.
SessionSticksStep ==
  \A s \in Sessions : sessions[s] # NoBackend /\ sessions'[s] # sessions[s]
    => sessions[s] \in unhealthy \/ sessions[s] \notin placed

=============================================================================
