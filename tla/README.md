# A TLA+ verification of the Convergent Routing Analyzer

The engine (Go) routes batches of trips over a road graph with six routers,
simulates the resulting traffic, and serves routes, benchmark sweeps and a live
stream over HTTP; a browser client shows the stream. This directory holds TLA+
modules translated from that code, configurations that check them with TLC, and
proofs that TLAPS checks. Paths below are relative to `engine/internal/` unless
they start with `engine/` or `web/`.

Run from this directory:

    tlasany M.tla                          parse
    tlc -workers 2 -config X.cfg M.tla     check a run (PROJECT.json pairs X with M)
    tlapm M.tla                            check the proofs of a *Proofs module

`PROJECT.json` lists the components, the runs, for every property a mutation of
the code that breaks it, the source lines of every definition, the
disagreements found, the hazards and the theorems.

## 1. Inventory

| Component | State | Operations | Talks to |
|---|---|---|---|
| benchmark jobs `api/benchmark.go` | `jobStore` (byID, byKey, order under one mutex), `sweepSlots` channel | POST: default, validate, dedupe, insert or evict, reserve a slot or roll back, start the sweep; GET: poll | sweep goroutine, which completes the job and returns the slot |
| stream admission `api/stream.go` | `streamSlots` channel shared by all connections | take before the upgrade, give back when `runStream` has returned | every live stream, the server's shutdown |
| live stream `api/stream.go` | `liveBuffers` (ticks, finished, err, notify), replay cursors, buckets last sent, simulated clock | emit, finish, wait for first ticks, gate, snapshots, advance, done, close, cancel and join | producer goroutine, six simulations, the socket |
| parallel run `benchmark/parallel.go` | one error per router | static reference, six goroutines, join, first error | simulator, `emit` callback |
| mesoscopic simulator `benchmark/simulator.go` | clock, pending order, vehicles in flight, loads, realized times | per tick: release, route the batch on the frozen load, advance, reload, observe, stop | routers (concurrently), load store, observer |
| assignment `routing/{iterative,msa,systemoptimal,incremental}.go` | flows, routes, gap, iteration | all-or-nothing pass, average or add, gap, verdict | fan-out, BPR cost |
| fan-out `routing/iterative.go` | per-worker shards, shared routes slice, first error | stride, route, publish, join, combine | shortest path |
| shortest path `routing/{dijkstra,astar}.go` | heap, distances, predecessors | pop, skip stale, settle, relax, walk back | graph |
| k shortest paths, multipath `routing/{kshortest,multipath}.go` | candidate heap, accepted paths | spur search on masked weights, split, seeded draw | shortest path |
| rate limiter `api/middleware.go` | bucket per key, last sweep | authenticate, sweep, refill, take or refuse | every API handler |
| congestion store, providers `congestion/**` | dense load slice, live views over it | set, grow, snapshot, view, inject, step | reactive router, simulator |
| graph `graph/{loader,adjacency,connectivity}.go` | rows taken in, node positions, then the immutable graph | validate, place, reject as a whole, intern, compress, diagnose | everything |
| nearest node `graph/{kdtree,geo}.go` | the tree, immutable; a search's best so far | build by medians, branch and bound | every router |
| sweep, OD sets, evaluation `benchmark/{sweep,odset,evaluator,...}.go` | none between calls | generate, assign, simulate, aggregate | assignment, simulator |
| endpoints `api/{server,route,graph,congestion}.go` | request counters | parse, route, encode | routers, graph |
| server process `engine/cmd/routing-server` | listener goroutine, `srvErr`, signal context | start, serve, fail, drain, give up draining | endpoints, streams, sweeps |
| command line tools `engine/cmd/{route,benchmark,...}` | standard output, exit code, the benchmark document | parse, load, route or sweep, print, refresh the document | loader, routers |
| client session `web/src/{App,store}`, `hooks/useCongestionSocket.ts`, `components/Controls.tsx` | store (run flag, status, query, map), socket, timers | Start/Stop, drag, commit, socket events, two effects | `/stream` |

What is hard in it, and what correctness means there:

* **Concurrency.** Handlers race on the job store and on two slot channels; one
  stream is a handler, a producer and six simulations over one mutex and a
  coalescing channel; the fan-out writes one slice from many workers. Slots must
  balance on every path, a tuple must not be computed twice at a time, a wakeup
  must not be lost, and nobody may write after the join.
* **Failure part-way.** A sweep panics, a slot is not free after the job was
  published, one simulation of six fails, a client leaves or stalls, one pair of
  a batch is unreachable, one row of an export is bad, a signal comes while a
  stream is being upgraded. What has been taken must come back, and no partial
  result may look complete, to a client or to a script that reads an exit code.
* **Ordering and stale state.** Deltas against buckets last sent, masks of earlier paths,
  stale heap entries, loads cleared by last tick's occupancy, the gap of the previous
  iterate, buckets swept before lookup, two browser effects sharing one status, two
  sliders that settle into one query.
* **Numbers.** Carry-over within a tick, derived tick budget, fractions of a
  token, rounding of Retry-After, saturation of the last colour band, a pruning
  bound near a pole, positions that drift within a tolerance, a gap over
  a zero base, batches that do not divide evenly.

Nothing is persisted, so there is no crash recovery to model: a restart loses
jobs, streams and buckets alike.

## 2. Modules

| Module | Models | Composition |
|---|---|---|
| `BenchmarkJobs` | job store, slots, handlers, sweep goroutines, polling clients | implements `ResultCache` |
| `ResultCache` | what the store promises: per tuple none, claimed, running, failing or done | |
| `StreamAdmission` | slots and live runs of all connections | part of `RoutingServer` |
| `GraphLoad` | the loader, the adjacency arrays, the connectivity diagnostic | part of `Commands` |
| `Commands` | the programs of `engine/cmd` from launch to exit | extends `GraphLoad` |
| `RoutingServer` | the server's life with requests, streams and shutdown | extends `Commands` and `StreamAdmission` |
| `LiveStream` | one connection end to end, with the client's fold | implements `StreamAdmission` for one connection |
| `MesoSim` | the simulator's loop | |
| `MesoSimOrder` | two instances of `MesoSim` side by side | composes `MesoSim` with itself |
| `Assignment` | convergence loop with three strategies | its pass is one step |
| `AssignFanout` | the concurrent pass | implements `AllOrNothing` |
| `ShortestPath` | Dijkstra and A* | its result is a single step of `Assignment` and of `RoadGraph`'s users |
| `RoadGraph` | least-cost simple paths, as the routers use the search | |
| `KdTree` | the tree behind NearestNode and its search | part of `Routers` |
| `KShortest` | Yen's algorithm | extends `RoadGraph`; part of `Routers` |
| `LoadStore` | the load slice, its providers, views and snapshots | part of `Routers` |
| `Routers` | one call of the reactive or multipath router | extends `KdTree`, `KShortest`, `LoadStore` |
| `RateLimiter` | authentication and token buckets | implements `TokenBucket` |
| `WebSession` | the browser's session | |

`MC*` modules give the constants small values. Two also set a module beside
another that it shares no state with: `MCRoutingServer` the middleware before the server,
`MCAssignment` one opened-up pass before the loop. The `*Proofs` modules hold the
theorems: `BenchmarkJobsProofs`, `ShortestPathProofs`, `MesoSimProofs` and `RoutersProofs` each
extend the module they are named for (`MesoSimProofs` its pair, `MesoSimOrder`), and with it
all it composes;
`RoutingServerProofs` is about `RoutingServer` and the middleware in front of it,
`RateLimiter` (whose definitions therefore carry its name: `LimiterInit`,
`LimiterSpec`); `AssignmentProofs` is about `Assignment` and its pass
`AssignFanout`, `StreamProofs` about the two ends of the stream, `LiveStream` and
`WebSession`. `FoldLemmas` has what they share: sums over finite sets, and
induction on a number. Operators marked *Mutant* or *Mutation*
are the mutated forms PROJECT.json refers to; no specification uses them.

## 3. How the modules correspond to the code

### BenchmarkJobs, `api/benchmark.go`

`jobs` is `jobStore` (`byID`, `byKey`, `order`), `sweepSlots` the channel's
tokens, `sweep[id]` the position of the goroutine started for a job and
`client[c]` a caller with the handler that serves it. Each critical section of
`store.mu` is one action, and so is each step between two of them, because that
is where handlers and goroutines interleave:

* `Refuse`, `PostCached`, `PostCreate`: `handleBenchmark` up to and including
  `getOrCreate` (validation, defaulting, cache key, eviction).
* `Reserve`, `ReserveFull`, `Rollback`: the `select` on `sweepSlots` with its
  default branch, and `remove` under the lock in a later step.
* `SweepReturns`, `SweepPanics`, `ReleaseSlot`, `RecoverPanic`: `runBenchmarkAsync` with its
  deferred functions in the order in which they run.
* `Poll`: `handleBenchmarkStatus`.

The sweep itself is one nondeterministic step (result, error or panic), ids are
numbers in order of creation. `ResultCache` is what all this promises per tuple.

### StreamAdmission and LiveStream, `api/stream.go`

`StreamAdmission` has every connection and only the slots; `LiveStream` has one
connection and everything else. They meet in `ImplementsAdmission`: each step of
a `LiveStream` is a step, or none, of a connection of `StreamAdmission`, which
is why the bound on live runs, shown for all connections on the small module,
is about the real handler.

In `LiveStream`, `run` and `sim` are the producer (`RunParallel`: reference, six
goroutines, join), `ticks`, `finished`, `err` and `notify` are `liveBuffers`, `pc`
is where `runStream` stands, and `view` is what the client has folded with
`reduceCongestion`. One action per critical section or channel operation:
`CheckFirstTicks`/`Woken`/`WaitCancelled` (`waitFirstTicks`), `TerminalGate`,
`BuildSnapshots`, the write, `Elapse` and one `Advance` per algorithm (the lock
is taken per algorithm), `CheckDone`, the final error, `Join` and the release.
`emit` is two steps, the append and the coalesced signal; `finish` likewise. A
write that fails or times out, and a peer that leaves at any point, end the
connection. Congestion values are vectors of small numbers, bucketed as
`bucketOf` does, the last band open above.

### MesoSim, `benchmark/simulator.go`

One action per phase of a tick: `Release` (pending requests whose departure has
come, in `sortedRequestOrder`), `RouteBatch` (the whole batch on the loads of the
tick before) or `RouteFails`, `StopCancelled` at the top of a tick, `Advance`
(every vehicle, with the seconds carried over edge boundaries: `Traverse` is one turn
of the loop in `advance`), `Settle` (`loadFromVehicles`, the frame, then the tests
that end the loop). The router is external: it returns some cheapest path of a small
network under the frozen loads. Lengths, costs and ticks are integers, chosen in the
run so that the divisions of the code come out exact; the theorems hold for all of
them. The sort is stated by what it returns, the sequence of the requests in which
each is `Earlier` than the next (`Ordered`), and so is the loop that separates the
vehicles that arrive from the others (`Filtered`). An edge's cost is a table over
0..`HighLoad`, constant beyond, with `HighLoad` above what any demand weighs.
`MesoSimOrder` adds a second instance, given the same
requests in another order, that takes each step of the tick with the first.

### Assignment, AssignFanout and ShortestPath, `routing/`

`Assignment` is `runConvergenceLoop` with the steps of its three callers: one
action per iteration. Flows are exact rationals with the iteration as common
denominator, which is what x + (y - x)/k produces; floating-point rounding is
not modelled. `AssignFanout` is one pass: the steps of a worker are the
cancellation check, one request, the early return, the published shard, and the
caller's join. It implements `AllOrNothing`, which is the form in which
`Assignment` uses it. `ShortestPath` is one call: `DropStale`, `Expand` and `Relax`
for each out-edge, `SettleDestination` or `Exhausted`, `Walk` and `Arrive`. Ties between equal entries are
broken arbitrarily; with an estimate of zero it is Dijkstra, with any consistent
one A*.

### KdTree, KShortest, LoadStore and Routers, `graph/kdtree.go`, `routing/`, `congestion/`

`Routers` composes the three: a call finds the nodes of its end points by searches
of the tree that `Build` made, reads its loads, and answers request by request.

`KdTree`: `Build` splits one range, leaving the side of points equal to the median
open, as an unstable sort does. A node is named by the set of points below it. The
recursion of `search` is a stack of pending calls, each with the bound it must
beat; `Visit` and `Prune` take the first. Distances are compared through the
haversine term, of which the code's metres are a monotone function, with sines
and cosines as tables of which only the monotonicity is used; `Span` keeps angles
below the half circle, which is the restriction that `kdtree.go:54-64` documents.

`KShortest`: `KFirst`, one `KSpur` per spur node, `KAccept` at the end of a round.
The heap with its sequence numbers is a sequence whose first cheapest entry is
taken. Each search is one choice among the cheapest paths under its masks.

`LoadStore` keeps backing arrays under small names, so that aliasing is what it is
in Go: `View` borrows the array the store writes into, `Snapshot` copies it, and
`Grown` moves the store to another one. `truth` is what a map would hold. The
static provider's deduplication is run on its feeds and compared with
`LatestLoad`, which needs no order of processing.

### GraphLoad, Commands and RoutingServer, `graph/`, `engine/cmd/`

`GraphLoad`: `Open` checks options and envelope, `AddRow` or `RejectRow` takes the
next row, `Build` interns the ids and lays out the adjacency arrays by counting,
summing and placing, `Warn` runs the union-find. Coordinates are integers in units of the
tolerance.

`Commands`: one action per thing that can end a program differently: arguments,
load, router with its jam (whose load is a number or `NaN`, which a float flag may be
and which is not `<= 0`), the search (`FindRoute`), the print (`PrintRoute`), the exit
(`Return`); sweep, report, document. What is written reaches standard output wholly,
in part or not at all: cmd/route drops the error of its write and exits zero all the
same, cmd/benchmark returns it. A signal kills a command between any two steps and
within a write; `os.WriteFile` may be cut short and leave a torn document.

`RoutingServer`: the goroutine of `ListenAndServe` (`Listen`, `ListenerFails`), the
`select` of `main` (`Fatal`, `Shutdown`), and what `http.Server` does of its own
and is external: accepting, and a `Shutdown` that waits for the connections it
knows (`Quiet`) or five seconds. A stream is accepted, admitted (`Acquire`), then
upgraded, from which moment the server no longer knows it. Handlers of plain
requests take one step per route they compute.

### RateLimiter, `api/middleware.go`

`allow` holds its mutex and reads the clock under it, so a request is one step:
sweep if due, create or refill the bucket, take or refuse. A token is `Unit` units
so that fractions are exact. Whether a token is configured is chosen at the start.
`admitted` and `promise` are history: when requests went through, and when a
refused client was told to come back. Rate, burst and `IdleTTL` are independent, as
the environment sets the first two and the code fixes the third. With a refill slower
than `IdleTTL` eviction gives tokens away; `Shortfall` is how many at most, and
`Allowance` what that and the inflow come to in a stretch of time. `TokenBucket` fills
at every instant and may forget a client only when it has been away for `IdleTTL`.

### WebSession, `web/src`

`Toggle`, `Drag` and `Commit` are the user and the debounce timers; `Opens`,
`FrameArrives`, `Fails` and `Closes` are the socket; `Render` is a commit of React
with its effects in order, the hook's first and App's second, each acting on the
values of that render. `draft` is what the sliders show, `query` what was committed, `url`
what the newest socket was opened with. React itself is external: modelled from how the
code uses it, with socket events only between renders.

## 4. The runs

| Run | What it shows | Bounds, and why they suffice |
|---|---|---|
| `BenchmarkJobs` | the inductive invariant; one run per tuple; a polled answer is final; refinement of `ResultCache`; every job settles | 2 clients, 3 posts, 2 jobs, 2 slots, two spellings of one tuple, one other, two rejected. A third post evicts, also after a failure that leaves a job without its key; two clients race at every step. With two tuples and two jobs a store full of running jobs never has to refuse an eviction to a third: that branch is reached by the proof, which has any number of both |
| `BenchmarkJobsKept` | counterexample, see section 6 | the same with one slot |
| `RoutingServer` | a good export loads in any order of rows and a bad one leaves nothing; the diagnostic finds the islands; exit code, output and document agree; live runs never exceed the slots; a signal ends the server and slots come back; behind the middleware no window is exceeded, Retry-After suffices, refinement of `TokenBucket` | 500 exports: all ways to join 4 nodes by 3 of 7 edges in two orders, drift of -2 to 2 tolerances at one node, a deviation of each kind; 59 command lines with jams of zero, a number and NaN, 4 documents, writes that fail wholly or in part; 3 streams on 2 slots and one plain caller. The middleware: 2 addresses or one token, burst 2, 2/3 token a second, 5 s: filling, capping, refusing, sweeping and returning all happen. A full refill takes 3 s and eviction 2, so buckets are swept while they still fill, the case in which eviction gives tokens away. It shares no state with the server, so `MCRoutingServer` lets it run while one server is up and otherwise rests, not in every state of the server |
| `Routers` | the nearest node, Yen's paths, one load per call, tallies; the call returns | 5 junctions, 8 edges with 5 simple paths, ties and a street driven both ways; an end that cannot be reached; a query nearer the pole than every junction; 3 feeds with revised windows; 2 writes, in place or growing, and drift; batches with repeated and reversed pairs |
| `LiveStream` | the client's map is exact, never early and complete on a clean end; refinement of `StreamAdmission`; the connection ends; the simulations end | 2 algorithms, of 3 and 2 ticks: a snapshot, coalesced and single deltas, one ending before the other; ticks of 2 s against steps of 1 s: between two ticks nothing is due, and when the simulations are late several ticks are; values below, inside and far above the bands |
| `MesoSim` | trips conserved and charged for, loads are occupancy, only the budget cuts a run short, the trace does not depend on the caller's order, the run returns | up to 3 of 10 requests: equal and distinct departures, weight zero, an edge of length zero, an empty and an unreachable trip, a gap in which the road drains; derived and too small budgets; a second run of three requests under every permutation |
| `Assignment` | demand conserved, no partial result, convergence means equilibrium, the call returns; of a pass opened up: no shared write, refinement of `AllOrNothing`, it returns | Braess network, where averaging swings between paths; 10 iterations, both verdicts; 4 batches that do not divide the requests evenly. The pass: 3 workers over 5 requests, strides of unequal length, any of them unreachable; it shares no state with a loop, and `MCAssignment` runs it before the shortest one |
| `AssignmentReturned` | counterexample, see section 6 | the same |
| `ShortestPath` | the answer is optimal; the call returns | 5 nodes, 7 edges with parallel ways, a cycle and an unreachable part; 36 weightings with zeros and ties; every consistent estimate up to 2 |
| `RateLimiterSlow` | counterexample, see section 6 | the middleware alone, 6 s |
| `WebSession` | one connection and scenario; button, pill and socket agree; the run is that of the values shown; no reconnect while a slider moves; the button returns | 2 sliders, 2 values, 4 connections: every pair of consecutive runs, twice |
| `WebSessionRestart` | counterexample, see section 6 | the same |

Bounds that are part of a module are named there: `MaxPosts`, `MaxTicks`,
`MaxTime`, `MaxSockets`, `MaxLoad`, `MaxWrites`, `Span`. Deadlock is checked in every
run. Programs that end have an explicit step for having returned.

## 5. Fairness

* `BenchmarkJobs`: weak fairness of every handler and sweep goroutine. The Go
  runtime schedules them, none waits for another (the `select` has a default
  branch), and a sweep is a finite computation. Clients are not fair.
* `RoutingServer`: the main goroutine and each handler are scheduled, and the timer
  of the shutdown goes off. That a stream that runs makes progress is what
  `LiveStream` shows of one connection. Clients, signals and the loading of a
  command are not fair.
* `Routers`: the goroutine of the call. The provider may be written for ever.
* `LiveStream`: weak fairness of each simulation and of the producer.
  That the simulations end holds under that alone, with a handler that is stuck in a
  write for ever; that the connection ends has fairness of the handler as its
  hypothesis: the ticker fires and every write has a deadline (`StreamEnds`).
* `MesoSim`, `Assignment`, `ShortestPath`: the goroutines of the call, the workers of
  the pass among them, keep being scheduled; none is obliged to be cancelled.
* `WebSession`: the page renders. Nothing is assumed of the user or the network.

## 6. Disagreements between code and documentation

Four are checked, as runs that are expected to fail:

* `WebSessionRestart`. After a run has ended by itself the store keeps its status.
  The next Start opens a socket, but App's auto-stop effect of the same render
  still sees the old status and stops the run again: the first Start after a
  finished run only clears the pill.
* `BenchmarkJobsKept`. A job that one client created and another was handed as
  "running" is removed when the first finds no slot; the second then polls a 404
  for a run that never started.
* `AssignmentReturned`. `routing/msa.go:123` measures the gap of the iterate before the
  last average, and returns the average. On a tie between two routes the measured flow
  is an equilibrium and the returned one is not, although `msa.go:76-77` and the test at
  `routing/iterative_internal_test.go:203-205` say it is. What does hold, of the
  measured flow, is `StoppedAtEquilibrium`.
* `RateLimiterSlow`. `api/middleware.go:281-282` calls eviction state-preserving because
  an idle bucket has refilled. Rate and burst come unchecked from the environment
  (63-72) and the idle time is ten minutes (240): 0.05 requests a second with a burst
  of 40 has refilled 30 by then, and the client comes back to 40. What does hold for
  every configuration is `WindowBound` with its `Shortfall`.

Others were met while modelling; the modules follow the code:

* `api/stream.go:405` closes a short run that failed mid-way before any frame,
  where the comment at 450-452 says after draining.
* `api/stream.go:335` drops a drained connection without a close frame, where
  `docs/api.md:424-425` speaks of a clean close.
* `routing/incremental.go:146` needs four iterations for an empty batch, where
  `routing/iterative.go:361-362` says one.
* `benchmark/simulator.go:344` runs one tick for an empty batch, where 287-288
  says none.
* `engine/cmd/route/main.go:174,191` drop the error of the write that prints the route,
  so a full disk ends in exit code zero without a route, where 95-96 say that zero is
  success. What does hold is `CommandDone`: a code of the program's own but zero leaves
  nothing on standard output, and whatever part of a route is there was found with its
  jams on.
* `engine/cmd/route/main.go:114` says of `-jam-vph` that it "must be > 0"; the check at 131
  is `<= 0`, which NaN passes. The load is NaN then, and so is the cost of the jammed
  edge, which no comparison ever relaxes: the route avoids it, if there is another.
* `graph/loader.go:551-555` rejects a genuine disagreement beyond the tolerance, but
  compares each position with the first of its node: two later rows may disagree
  by twice the tolerance. `LoadedIsTheExport` states what holds.
* `engine/cmd/routing-server/main.go:127-128` exits non-zero on a failed listener,
  but `select` chooses when a signal is ready as well: exit code zero then says
  nothing of the listener, and `ServerDone` claims nothing of it.
* `api/server.go` builds the simulated provider that `/congestion` and the reactive
  route of `/compare` read, and nothing writes it afterwards: the first is empty
  and the second equals the naive route as long as the process lives.
* `engine/cmd/benchmark` refreshes its document with `os.WriteFile`, which truncates
  first: killed there, it leaves a torn document. `CommandDone` allows it only
  with a non-zero exit.

## 7. Proofs

All proofs hold for every value of the constants that meets the modules' named
assumptions; TLC evaluates the assumptions in the runs.

* **BenchmarkJobsProofs.** `Spec => []IInv` (`InvariantHolds`) and from it
  `TypeCorrect`, `StoreAlwaysConsistent`, `SlotsAlwaysExact`, `NoJobOrphaned`,
  `OwnTupleAnswered` and `OneRunPerTuple`, for any finite set of clients and any
  number of jobs, slots and tuples. That the indexes of the store agree is not
  inductive alone: dropping a key needs to know that a running job belongs to the
  handler or goroutine at work on it (`OpenRequests`, `SweepsHaveJobs`), and
  inserting one that its id is fresh (`FreshIds`). The slot count needs a
  cardinality step per goroutine that takes or returns one. One lemma per action.
  `ImplementsResultCache` rests on it: in a consistent store the key of a tuple names
  the one job that speaks for it (`KeyNamesJob`), so a tuple whose job a step leaves
  alone keeps its phase (`OthersKeepPhase`), and each computing tuple has a goroutine
  of its own that holds a slot, which is why `Start` finds room under `Cap`
  (`ComputingHoldSlots`). An insertion at capacity is one step of the cache,
  `ClaimEvicting`, because eviction takes out at most one job (`EvictsOne`).
  `AnswersAlwaysFinal` adds that a final answer still describes the job or the job is
  gone (`RepliesTrue`), since a settled job only ever disappears (`SettledStays`).
* **RoutingServerProofs, the process.** Three theorems about the server as a whole, with its
  programs and its streams. `ServerImplementsAdmission`: every step of the server is a
  step of `StreamAdmission` or a stutter. `ServerRunsBounded`: slots are counted
  exactly and live runs belong to connections that hold one, since `Join` waits for
  the run (`StreamsInv`). `ExitCodesTellTheTruth`: what a script reads from exit code,
  standard output and document agrees, whatever the export, the arguments, the writes
  that fail and the signals (that a zero of cmd/route comes with the route is false, and
  not claimed); it needs what a program knows at each stage of its life (`LifeInv`, `RouteInv`,
  `BenchmarkInv`) and that a loader that fails leaves nothing behind (`RowsInv`).
* **RoutingServerProofs, the loader.** `LoadingIsExact` and `WarningNamesTheIslands`, for every
  export, row order, tolerance and sample size. The invariant (`LoadInv`) says that the rows
  so far are good and each is under its number (`PlacedInv`), and that a node's position was
  given by one row and is near to all the others (`PositionInv`); two rows may therefore
  differ by twice the tolerance and no more (`NearTwice`). That no gap scan is needed is the
  pigeonhole of `NoneMissed`. The arrays: how many members come before one tells its place
  (`RankPlaces`), which serves three times, for the interned ids, for the slots of the edges
  sorted by node and id, and for the sample; the offsets count the edges of the nodes below
  (`OffsetsCount`) and the cursor of a node stands where its next edge belongs
  (`ScatterPlaces`). The union-find: a link leads to a higher rank (`Forest`), so the walk of
  `find` ends, and path halving changes no root (`HalveKeeps`, `FindRoot`); after k edges two
  nodes have one root exactly when no set closed under those edges tells them apart
  (`UnionConnects`). `OneIsMain` is the tie-break: size, then lowest node, is an order.
* **ShortestPathProofs.** `Spec => []SearchInv`: what is reached has a witness, and a
  node that is neither on the heap nor being expanded has all its out-edges
  relaxed (`ClosedIsRelaxed`). It is why stale entries may be skipped. From it:
  the reported distance is at most the cost of every path (`DistanceIsShortest`,
  with paths as functions from positions to edges and distances as potentials),
  nothing found means that a closed set of nodes separates the pair
  (`NoneOnlyWhenCutOff`), and a settled node is final (`SettledNodesAreFinal`, by the
  order of expansion in `FrontierIsAhead`, which needs a consistent estimate).
  `AnswerAlwaysOptimal` is what the run checks against an enumeration of all paths:
  the answer is a simple path of the reported cost, and none is cheaper. No path is
  cheaper because distances are potentials (`PotentialBoundsPath`). The walk back is
  simple because predecessors go down a rank (`Ranked`): a node that gave another its
  cost has left the heap for good (`PredecessorsClosed`), which is what ties of cost
  zero would otherwise break.
* **RoutingServerProofs, the rate limiter.** For every rate, burst, sweep interval and idle
  time, slow refills included. The account of each client balances (`FlowBound`): what it
  took and what is left came out of a full bucket and the allowance. A sweep replaces
  what was left by a full bucket, and the account stays balanced because the bucket was
  short of full by at most the `Shortfall`, which the allowance grants once per
  `IdleTTL`, and the idle time lies wholly between two requests (`AllowanceBetween`).
  From it: `NoWindowExceeded` and the refinement `RefinesTokenBucket`.
  `RetryAfterAlwaysSuffices`: at the promised time the bucket holds a token or is gone
  (`PromiseKept`), which is the rounding up of `RetryAfter` (`RetryAfterRefills`).
* **RoutersProofs.** For any graph, batch, feed and number of writes:
  * `NearestAlwaysNearest`, for any finite set of positions and any query. The invariant
    (`SearchInvariant`) says that the tree splits each range by its point (`TreeInv`),
    and that every point is either no nearer than the best so far or in the range of a
    pending call, whose bound holds for all of that range (`SearchInv`); without the
    latter `Prune` could not be shown to lose nothing. `BoundHolds` is the geometry: the
    far side of a line is at least as far as the line, along its axis, for the smallest
    cosine between the query and any point. Uses only that sines grow and cosines fall
    with the angle.
  * `EveryCallSeesOneLoad`: the store always reads as the map of its writes
    (`LoadInv`, `StoreInv`), and the array that a call took as its snapshot is written by
    nobody, in place or after growth (`ReactiveInv`).
  * `YenFindsTheCheapest`: the accepted paths are the cheapest simple paths in order.
    The invariant is the coverage argument (`CoverInv`): every simple path that is not
    accepted branches off some accepted path at a spur node, and a candidate, or a spur
    search still to come in this round (`RoundInv`), is at most as costly. The first
    cheapest candidate is therefore at most as costly as anything left.
  * `TalliesTellTheRoutes`: the counts of a multipath call are those of the routes it
    returned, request by request (`TallyInv`).

* **AssignmentProofs.** For any network, batch and costs with a finite edge set.
  `Spec => []IInv`, where `IInv` puts together `Inv`, `NoPartialAnswer` and
  `StoppedAtEquilibrium`; from it `DemandAlwaysConserved`, `AnswersAreComplete` and
  `StopsOnlyAtEquilibrium`. That the flows carry exactly the demand past every node is
  a statement on sums: the net flow of a path past a node, summed over the trips, is
  kept by averaging and by adding a batch, and batches partition the requests.
  `SomeoneHasToPay` is the part that was needed to make it inductive: with a total
  of zero the loop would have stopped before, so a later iteration never divides by it.
  The pass itself, in `AssignFanout`: `FanoutInvariantHolds`, for any number of
  requests and workers: the workers write disjoint trips because their strides are
  residue classes. `StridesKept` says that a worker's index stays in its class
  (`SameClass`, `NextOfClass`: the next of the class is one stride further), and
  `DoneForAReason` that a worker stops early only because the pass has failed or was
  cancelled. From it `ImplementsAllOrNothing`: every step maps to a step of
  `AllOrNothing` or to a stutter. The step that needs the invariant is `Join`: the
  sum of the shards counts each request once, and a failure has its reason.
* **StreamProofs, the browser.** `SessionInvariantHolds`, and from it `AlwaysOneConnection`,
  `AlwaysAgree`, `AlwaysRunsWhatIsShown` and `NeverReconnectsMidDrag`, for any sliders, values and number of
  sockets. The two effects of a render see the same status; what makes that
  harmless is `StopIsDue`: a terminal status that is not yet rendered makes the
  next render stop the run. `OnlyCommitted` says that the query differs from the
  rendered one only by a slider whose timer has fired, and `CommittedIsShown` that the
  query holds what every such slider shows while the attached socket was opened with the
  rendered query. TLC checked the invariant under
  the bounds of the run `WebSession` before it was proved.
* **StreamProofs, the connection.** `Spec => []Inv`, and from it `ViewAlwaysExact`: for any
  algorithms, order, ticks and values. A delta is computed against the tick the
  cursor stands at (`BaseIsCursor`), at most one frame per algorithm is queued, and
  folding it brings the client's map to what the replay has consumed (`FramesFit`);
  between two advances nothing is queued, so the map is exact. A clean end is complete
  because the producer outlives its simulations (`RunOutlivesSims`) and the final
  check comes after the last advance (`EndIsFinal`). The last tick that is due is
  bounded by a least counterexample, since its search is over the data.
  `ImplementsStreamAdmission`: every step of the connection is one of
  `StreamAdmission` or a stutter.
* **MesoSimProofs.** For any road, demand, tick length and budget, and whatever cheapest
  path the router returns. `TripsAlwaysConserved` states `Inv`, `OnlyTheBudgetEndsEarly`
  `OnlyBudgetCutsShort`, both from `IInv`. What had to be added: the lengths of the three
  places add up to what is released while their contents cover it (`Balanced`), which is
  how no trip can be in two places; no weight lies outside the edges the next derivation
  clears (`LoadIsLocal`), without which clearing only those would leave some behind; and
  nothing due waits a tick longer (`OnTime`), which ties a vehicle's release to the clock
  and shows that the last tick of a derived budget has released everything
  (`BudgetReaches`). `AdvanceMoves` is about the loop of `advance`: a turn per edge uses
  up the tick or brings the vehicle to its end, and a vehicle that stops short of an
  edge's end does so after rounding too (`StopsShort`). `OrderedSorts` shows that a finite
  set has the one sorted sequence that `Ordered` chooses, `FilteredKeeps` that filtering
  keeps what it should. TLC checked `IInv` under the bounds of the run `MesoSim` before it
  was proved.
* **MesoSimProofs, two orders of one demand.** `OrderNeverShows` states `TraceIgnoresOrder`
  of the pair of runs in `MesoSimOrder`: simulator.go sorts so that "the whole trace
  does not depend on how the caller ordered reqs". The two runs do differ: requests of one
  departure leave in another order, and so do the vehicles and the trips. `PairInv` says
  what stays the same (`SideBySide`): a permutation of the requests, fixed at the start,
  under which the batches, the roads and the realized trips of the two runs are `Twins`,
  sequences whose elements pair off; and equal loads, frames, counters and ticks. The
  release is the hard step: what is released is exactly the requests that leave at one of
  the times taken so far (`Taken`), a set that no order of them changes, so the two walks
  of the sorted order stop at the same place (`ReleaseTakesDue`, `BatchTwins`). A route
  depends on the request and the frozen load only (`SecondRoute`); two vehicles on the
  same way are moved alike, turn by turn (`TurnLike`, `AdvanceLike`); filtering keeps
  twins twins (`TwinsFilter`); and the weight on an edge is a sum over the vehicles, which
  their names do not change (`SumReindexed`, `WeightAlike`). Nothing is said once the
  runs are cancelled, as in the property.
* **FoldLemmas.** `SumFunctionOnSet` over a finite set: by cases on one element, of sums
  and multiples, monotone, equal when the terms are, over a partition. The library
  states induction with an operator parameter, which no installed prover can
  instantiate; here it is stated with sets (a set of numbers that contains 0 and the
  successor of each member is all of them), which is enough for a sum, whose terms are
  a function.

Only model-checked are the liveness properties, which rest on fairness and ENABLED; every
invariant that a run checks is proved.

Induction is stated with sets of numbers (`NatSetInduction`), and a recursive function over an
interval of numbers has its equations by `UptoRecursion`; what `FoldLeft`, `RECURSIVE` operators
and other recursions over data compute is out of the provers' reach. The models above do without
them: paths are functions from positions to edges, totals are sums over sets, windows are bounded
by an account.

## 8. Not modelled

* Demand sweep, OD sets and evaluation (`benchmark/{sweep,odset,evaluator,...}.go`):
  sequential composition of calls that are modelled one by one, and floating-point
  statistics over their results; no state is kept between calls. The price of
  anarchy's floor at equal totals is a matter of rounding, which is left out.
* The bodies of the routing endpoints and their counters (`api/{server,route,graph}.go`):
  parse, call a router, encode. What they share with other requests (slots, the
  buckets, the server's life) is in `StreamAdmission`, `RateLimiter` and `RoutingServer`.
* `cmd/healthcheck` and `cmd/replay`: one request, or one file, and an exit code.
* The domain types beyond their validation, which `GraphLoad` and `LoadStore` contain.
* The map, charts and panels of the web client: views of the store without state of
  their own that outlives a render.
* The data pipeline: offline scripts that produce the export `GraphLoad` reads.

Everywhere: rounding of floating-point numbers, message texts, logging, metrics,
and the content of requests beyond what decides control.

## 9. Plan

What is left, most important first:

1. `Sweep`: the demand sweep over the routers with its failure modes; the step that
   `BenchmarkJobs` takes for granted.
