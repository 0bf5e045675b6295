---------------------------- MODULE AssignFanout ----------------------------
(***************************************************************************)
(* assignAONConcurrent (internal/routing/iterative.go): one all-or-nothing *)
(* pass fanned over goroutines.  Request i belongs to worker i mod         *)
(* workerCount; a worker accumulates the flow of its requests in a shard   *)
(* of its own and publishes it when its stride is through; the caller      *)
(* waits for all of them and reduces the shards.                           *)
(*                                                                         *)
(* A flow is kept as the requests that contribute to it, which is what     *)
(* tells a lost or a doubled contribution.  routeBatchConcurrent           *)
(* (internal/benchmark/simulator_support.go) is the same fan-out without   *)
(* the shards.                                                             *)
(***************************************************************************)
EXTENDS Integers, FiniteSets

CONSTANTS
    N,           \* the number of requests
    GOMAXPROCS

ASSUME FanoutAssumption == N \in Nat /\ GOMAXPROCS \in Nat

VARIABLES
    routable,    \* the requests whose destination is reachable
    ctxCancelled, \* ctx has been cancelled
    index,       \* worker -> the next request of its stride
    shard,       \* worker -> the requests in its own accumulator
    shards,      \* worker -> the published shard
    done,        \* the workers whose wg.Done has run
    written,     \* request -> how often its slot was written
    firstErr,    \* what errOnce recorded
    passOutcome, \* "running", "assigned" or "failed"
    flows        \* the reduced flow: request -> how often it counts

fanoutVars == <<routable, ctxCancelled, index, shard, shards, done, written, firstErr,
                passOutcome, flows>>

Requests == 0..(N - 1)

\* At most GOMAXPROCS, never more than the requests, at least one.
WorkersFor(n) ==
    IF n <= 0 THEN 1
    ELSE LET procs == IF GOMAXPROCS < 1 THEN 1 ELSE GOMAXPROCS
         IN  IF procs > n THEN n ELSE procs

workerCount == WorkersFor(N)
Workers == 0..(workerCount - 1)

NoError == "nil"
NoRequest == [i \in Requests |-> 0]

FanoutInit ==
    /\ routable \in SUBSET Requests
    /\ ctxCancelled = FALSE
    /\ index = [w \in Workers |-> w]
    /\ shard = [w \in Workers |-> {}]
    /\ shards = [w \in Workers |-> {}]
    /\ done = {}
    /\ written = NoRequest
    /\ firstErr = NoError
    /\ passOutcome = "running"
    /\ flows = NoRequest

setErr(err) == firstErr' = IF firstErr = NoError THEN err ELSE firstErr

\* ctx.Err() before a request.
StopOnCancel(w) ==
    /\ w \notin done /\ index[w] < N /\ ctxCancelled
    /\ setErr("cancelled")
    /\ done' = done \cup {w}
    /\ UNCHANGED <<routable, ctxCancelled, index, shard, shards, written, passOutcome, flows>>

\* (Mutation: the early return is not covered by the deferred wg.Done.)
StopOnUnreachableNoDone(w) ==
    /\ w \notin done /\ index[w] < N /\ ~ctxCancelled
    /\ index[w] \notin routable
    /\ setErr("unreachable")
    /\ UNCHANGED <<routable, ctxCancelled, index, shard, shards, done, written, passOutcome, flows>>

\* The check came before the cancellation, or there was none.
StopOnUnreachable(w) ==
    /\ w \notin done /\ index[w] < N /\ ~ctxCancelled
    /\ index[w] \notin routable
    /\ setErr("unreachable")
    /\ done' = done \cup {w}
    /\ UNCHANGED <<routable, ctxCancelled, index, shard, shards, written, passOutcome, flows>>

\* (Mutation: the stride is one short.)
RouteOneShortStride(w) ==
    /\ w \notin done /\ index[w] < N /\ ~ctxCancelled
    /\ index[w] \in routable
    /\ written' = [written EXCEPT ![index[w]] = @ + 1]
    /\ shard' = [shard EXCEPT ![w] = @ \cup {index[w]}]
    /\ index' = [index EXCEPT ![w] = @ + (IF workerCount > 2 THEN workerCount - 1
                                          ELSE workerCount)]
    /\ UNCHANGED <<routable, ctxCancelled, shards, done, firstErr, passOutcome, flows>>

RouteOne(w) ==
    /\ w \notin done /\ index[w] < N /\ ~ctxCancelled
    /\ index[w] \in routable
    /\ written' = [written EXCEPT ![index[w]] = @ + 1]
    /\ shard' = [shard EXCEPT ![w] = @ \cup {index[w]}]
    /\ index' = [index EXCEPT ![w] = @ + workerCount]
    /\ UNCHANGED <<routable, ctxCancelled, shards, done, firstErr, passOutcome, flows>>

\* The deferred wg.Done runs after the shard is in its slot.
Publish(w) ==
    /\ w \notin done /\ index[w] >= N
    /\ shards' = [shards EXCEPT ![w] = shard[w]]
    /\ done' = done \cup {w}
    /\ UNCHANGED <<routable, ctxCancelled, index, shard, written, firstErr, passOutcome, flows>>

Worker(w) == StopOnCancel(w) \/ StopOnUnreachable(w) \/ RouteOne(w) \/ Publish(w)

combineFlows ==
    [i \in Requests |-> Cardinality({w \in Workers : i \in shards[w]})]

\* (Mutation: an error does not discard what the other workers assigned.)
JoinPartial ==
    /\ passOutcome = "running" /\ done = Workers
    /\ passOutcome' = IF firstErr # NoError THEN "failed" ELSE "assigned"
    /\ flows' = combineFlows
    /\ UNCHANGED <<routable, ctxCancelled, index, shard, shards, done, written, firstErr>>

\* wg.Wait() returns; the reduction runs on the caller's goroutine alone.
Join ==
    /\ passOutcome = "running" /\ done = Workers
    /\ IF firstErr # NoError
       THEN passOutcome' = "failed" /\ UNCHANGED flows
       ELSE passOutcome' = "assigned" /\ flows' = combineFlows
    /\ UNCHANGED <<routable, ctxCancelled, index, shard, shards, done, written, firstErr>>

CancelPass ==
    /\ ~ctxCancelled /\ passOutcome = "running"
    /\ ctxCancelled' = TRUE
    /\ UNCHANGED <<routable, index, shard, shards, done, written, firstErr, passOutcome, flows>>

PassReturned == passOutcome # "running" /\ UNCHANGED fanoutVars

FanoutNext == (\E w \in Workers : Worker(w)) \/ Join \/ CancelPass \/ PassReturned

FanoutSpec == FanoutInit /\ [][FanoutNext]_fanoutVars

\* The runtime schedules every goroutine and the caller.
FairFanoutSpec == FanoutSpec /\ (\A w \in Workers : WF_fanoutVars(Worker(w))) /\ WF_fanoutVars(Join)

----------------------------------------------------------------------------
\* Every variable stays in its range.
FanoutTypeOK ==
    /\ routable \subseteq Requests /\ ctxCancelled \in BOOLEAN
    /\ index \in [Workers -> 0..(N + workerCount - 1)]
    /\ shard \in [Workers -> SUBSET Requests]
    /\ shards \in [Workers -> SUBSET Requests]
    /\ done \subseteq Workers
    /\ written \in [Requests -> Nat]
    /\ firstErr \in {NoError, "cancelled", "unreachable"}
    /\ passOutcome \in {"running", "assigned", "failed"}
    /\ flows \in [Requests -> Nat]

\* No lock is needed: no two workers ever write the same route slot or count
\* the same request, in any interleaving, because the strides partition the
\* batch, and nobody writes any more once the caller has its answer.
NoSharedWrite ==
    /\ \A i \in Requests : written[i] <= 1
    /\ \A v, w \in Workers : v # w => shard[v] \cap shard[w] = {}
    /\ passOutcome # "running" => done = Workers

\* What makes it so: a worker is always within its stride, has in its shard what it
\* has passed, and every request it passed has a route.
StridesKept ==
    /\ \A w \in Workers : index[w] % workerCount = w
    /\ \A w \in Workers :
          shard[w] = {i \in Requests : i % workerCount = w /\ i < index[w]} /\ shard[w] \subseteq routable
    /\ \A i \in Requests : written[i] = IF i \in shard[i % workerCount] THEN 1 ELSE 0

\* A worker is done because an error was recorded, one that holds, or because its
\* stride is through and published; the caller has its answer after all of them.
DoneForAReason ==
    /\ \A w \in done : firstErr # NoError \/ (index[w] >= N /\ shards[w] = shard[w])
    /\ firstErr = "cancelled" => ctxCancelled
    /\ firstErr = "unreachable" => ~(Requests \subseteq routable)
    /\ passOutcome # "running" => done = Workers

\* The inductive invariant.
FanoutInv == FanoutTypeOK /\ NoSharedWrite /\ StridesKept /\ DoneForAReason

\* The fan-out is the atomic pass the convergence loop takes it for.
Pass == INSTANCE AllOrNothing
        WITH cancelled <- ctxCancelled, outcome <- passOutcome, load <- flows
ImplementsPass == Pass!PassSpec

\* Every pass returns, whatever fails and whenever the caller cancels.
PassReturns == <>(passOutcome # "running")
=============================================================================
