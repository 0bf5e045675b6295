------------------------------ MODULE MesoSim ------------------------------
(***************************************************************************)
(* Simulate (internal/benchmark/simulator.go): the discrete-time           *)
(* mesoscopic simulation of one departure-time demand.  A tick releases    *)
(* the requests whose departure the clock has reached, routes them all     *)
(* against one frozen load, moves every vehicle for TickSeconds at the     *)
(* speed of that same load, and only then derives the next load from the   *)
(* edges the vehicles stand on.                                            *)
(*                                                                         *)
(* Times and lengths are whole units; what a stay on an edge gains is      *)
(* rounded down to a unit, as float64 rounds it.  The router is a          *)
(* best-responding one with a fixed tie-break (ReactiveBPRFactory), the    *)
(* fan-out over workers is AssignFanout's.  The percentile and the mean of *)
(* the realized times are left out: the result carries the times.          *)
(***************************************************************************)
EXTENDS Integers, Sequences, FiniteSets, FiniteSetsExt

CONSTANTS
    Edges,
    Length,           \* edge -> its length, 0 for a degenerate edge
    HighLoad,
    CostAt,           \* edge -> the time to cross it under a load of 0..HighLoad
    Paths(_),         \* the paths that serve a request, none if it is cut off
    Demands,          \* the request sequences a run may be given
    TickBudgets,      \* the values of SimConfig.MaxTicks
    TickSeconds,
    TravelAllowance   \* travelAllowanceSeconds

\* A path is a sequence of edges, and there are finitely many that serve a request.
RoadAssumption ==
    /\ Length \in [Edges -> Nat]
    /\ HighLoad \in Nat
    /\ CostAt \in [Edges -> [0..HighLoad -> Nat]]
    /\ \A e \in Edges : Length[e] > 0 => \A w \in 0..HighLoad : CostAt[e][w] > 0
    /\ TickSeconds \in Nat \ {0}
    /\ TravelAllowance \in Nat \ {0}
    /\ TickBudgets \subseteq Int
ASSUME RoadAssumption

DemandAssumption ==
    \A demand \in Demands :
        /\ demand \in Seq(Range(demand))
        /\ \A r \in Range(demand) :
              /\ r.departAt \in Int
              /\ r.weight \in Int
              /\ IsFiniteSet(Paths(r))
              /\ \A path \in Paths(r) : path \in Seq(Edges)
ASSUME DemandAssumption

VARIABLES
    reqs,         \* the demand, in the caller's order
    maxTicks,
    cancelled,    \* ctx has been cancelled
    pc,           \* "release", "route", "advance", "settle" or "returned"
    tick,
    nextPending,  \* how many requests of the sorted order have been released
    newlyReleased, \* the ones this tick has released, before they are routed
    inFlight,     \* the vehicles on the road
    realized,     \* the completed trips, in completion order
    load,         \* edge -> the weight standing on it
    occupied,     \* the edges the last loadFromVehicles wrote
    frames,       \* the TickStates the observer has been given
    result

vars == <<reqs, maxTicks, cancelled, pc, tick, nextPending, newlyReleased,
          inFlight, realized, load, occupied, frames, result>>

-----------------------------------------------------------------------------
Requests == 1..Len(reqs)

\* Mutant: the requests in the caller's order.
callersOrder == [i \in Requests |-> i]

\* The members of S as a sequence, in the order of the relation.
Ordered(S, before) ==
    CHOOSE q \in [1..Cardinality(S) -> S] :
        \A k, l \in DOMAIN q : k < l => <<q[k], q[l]>> \in before

\* By departure, ties by input index.
Earlier(i, j) == \/ reqs[i].departAt < reqs[j].departAt
                 \/ reqs[i].departAt = reqs[j].departAt /\ i < j
sortedRequestOrder ==
    Ordered(Requests, {pair \in Requests \X Requests : Earlier(pair[1], pair[2])})

latestDepart(demand) == Max({0} \cup {demand[i].departAt : i \in DOMAIN demand})

\* The ticks to the last departure and a travel allowance, rounded up.
derivedMaxTicks(demand) ==
    latestDepart(demand) \div TickSeconds + 1
        + (TravelAllowance + TickSeconds - 1) \div TickSeconds

RequestWeight(i) == IF reqs[i].weight > 0 THEN reqs[i].weight ELSE 1

Clock == (tick - 1) * TickSeconds

\* The time to cross an edge, which no demand loads beyond HighLoad.
Cost(e, weight) == CostAt[e][IF weight < HighLoad THEN weight ELSE HighLoad]

Vehicle(i, path) ==
    [request |-> i, edges |-> path, edgeIndex |-> 1, distOnEdge |-> 0,
     experienced |-> 0]

Finished(veh) == veh.edgeIndex > Len(veh.edges)

\* The router's answer: a cheapest path under the load it is shown.
PathCost(path, shown) ==
    SumFunction([k \in DOMAIN path |-> Cost(path[k], shown[path[k]])])
Route(i, shown) ==
    CHOOSE p \in Paths(reqs[i]) :
        \A q \in Paths(reqs[i]) : PathCost(p, shown) <= PathCost(q, shown)

-----------------------------------------------------------------------------
(* One vehicle over one tick.                                              *)

Vehicles ==
    [request : Nat, edges : Seq(Edges), edgeIndex : Nat, distOnEdge : Nat,
     experienced : Nat]

\* A vehicle and the seconds of the tick it has left.
Motion == Vehicles \X Nat

NextEdge(veh) == [veh EXCEPT !.edgeIndex = @ + 1, !.distOnEdge = 0]

\* Mutant: the rest of the tick is lost at an edge boundary.
TraverseDropsRest == [state \in Motion |->
    LET veh       == state[1]
        remaining == state[2]
        e         == veh.edges[veh.edgeIndex]
        toFinish  == ((Length[e] - veh.distOnEdge) * Cost(e, load[e]))
                        \div Length[e]
        gained    == (remaining * Length[e]) \div Cost(e, load[e])
    IN  CASE remaining = 0 \/ Finished(veh) -> state
          [] remaining > 0 /\ ~Finished(veh) /\ Length[e] = 0 -> <<NextEdge(veh), remaining>>
          [] remaining > 0 /\ ~Finished(veh) /\ Length[e] > 0 /\ toFinish <= remaining ->
                <<[NextEdge(veh) EXCEPT !.experienced = @ + toFinish], 0>>
          [] OTHER ->
                <<[veh EXCEPT !.distOnEdge = @ + gained,
                              !.experienced = @ + remaining], 0>>]

\* One turn of the loop: the pair <<vehicle, remaining>> after the edge the vehicle
\* is on.
Traverse == [state \in Motion |->
    LET veh       == state[1]
        remaining == state[2]
        e         == veh.edges[veh.edgeIndex]
        toFinish  == ((Length[e] - veh.distOnEdge) * Cost(e, load[e]))
                        \div Length[e]
        gained    == (remaining * Length[e]) \div Cost(e, load[e])
    IN  CASE remaining = 0 \/ Finished(veh) -> state
          [] remaining > 0 /\ ~Finished(veh) /\ Length[e] = 0 -> <<NextEdge(veh), remaining>>
          [] remaining > 0 /\ ~Finished(veh) /\ Length[e] > 0 /\ toFinish <= remaining ->
                <<[NextEdge(veh) EXCEPT !.experienced = @ + toFinish],
                  remaining - toFinish>>
          [] OTHER ->
                <<[veh EXCEPT !.distOnEdge = @ + gained,
                              !.experienced = @ + remaining], 0>>]

\* Each turn but the last leaves an edge, so a turn per edge is enough.
advance(veh) ==
    LET after[n \in 0..Len(veh.edges)] ==
            IF n = 0 THEN <<veh, TickSeconds>> ELSE Traverse[after[n - 1]]
    IN  after[Len(veh.edges)][1]

-----------------------------------------------------------------------------
(* The load the vehicles make.                                             *)

Standing(vehicles) == [k \in DOMAIN vehicles |->
                          vehicles[k].edges[vehicles[k].edgeIndex]]

\* The weight of the vehicles that stand on an edge.
WeightOn(vehicles, e) ==
    SumFunction([k \in DOMAIN vehicles |->
                    IF vehicles[k].edges[vehicles[k].edgeIndex] = e
                    THEN RequestWeight(vehicles[k].request) ELSE 0])

\* Mutant: nothing is zeroed.
loadFromVehiclesNoClear(vehicles) ==
    [e \in Edges |-> load[e] + WeightOn(vehicles, e)]

\* Zero what the last derivation wrote, then add the weights.
loadFromVehicles(vehicles) ==
    [e \in Edges |-> (IF e \in Range(occupied) THEN 0 ELSE load[e])
                        + WeightOn(vehicles, e)]

buildTickState ==
    [tick |-> tick, inFlight |-> Len(inFlight), completed |-> Len(realized)]

-----------------------------------------------------------------------------
NoResult == [kind |-> "none"]
Error(why) == [kind |-> "error", why |-> why]
SimResult(ticks) ==
    [kind |-> "result", completed |-> Len(realized), released |-> nextPending,
     ticks |-> ticks, realized |-> realized]

Init ==
    /\ reqs \in Demands
    /\ \E budget \in TickBudgets :
         maxTicks = IF budget <= 0 THEN derivedMaxTicks(reqs) ELSE budget
    /\ cancelled = FALSE
    /\ pc = "release"
    /\ tick = 1
    /\ nextPending = 0
    /\ newlyReleased = <<>>
    /\ inFlight = <<>>
    /\ realized = <<>>
    /\ load = [e \in Edges |-> 0]
    /\ occupied = <<>>
    /\ frames = <<>>
    /\ result = NoResult

\* Mutant: the batch starts one request too early.
ReleaseOverlaps ==
    /\ pc = "release" /\ ~cancelled
    /\ LET order == sortedRequestOrder
           Due(n) == \A k \in (nextPending + 1)..n :
                        reqs[order[k]].departAt <= Clock
           last   == Max({n \in nextPending..Len(order) : Due(n)})
       IN  /\ nextPending' = last
           /\ newlyReleased' = SubSeq(order, Max({nextPending, 1}), last)
    /\ pc' = "route"
    /\ UNCHANGED <<reqs, maxTicks, cancelled, tick, inFlight, realized, load,
                   occupied, frames, result>>

\* (a) Walk the sorted order up to the first request still in the future.
Release ==
    /\ pc = "release" /\ ~cancelled
    /\ LET order == sortedRequestOrder
           Due(n) == \A k \in (nextPending + 1)..n :
                        reqs[order[k]].departAt <= Clock
           last   == Max({n \in nextPending..Len(order) : Due(n)})
       IN  /\ nextPending' = last
           /\ newlyReleased' = SubSeq(order, nextPending + 1, last)
    /\ pc' = "route"
    /\ UNCHANGED <<reqs, maxTicks, cancelled, tick, inFlight, realized, load,
                   occupied, frames, result>>

\* The zero SimResult and the error, from wherever the run is.
Fail(why) ==
    /\ result' = Error(why)
    /\ pc' = "returned"
    /\ UNCHANGED <<reqs, maxTicks, cancelled, tick, nextPending, newlyReleased,
                   inFlight, realized, load, occupied, frames>>

\* ctx.Err() at the top of a tick.
StopCancelled == pc = "release" /\ cancelled /\ Fail("cancelled")

\* (b) The whole batch against one frozen load.
Served(i) == Paths(reqs[i]) # {}
RouteBatch ==
    /\ pc = "route"
    /\ \A i \in Range(newlyReleased) : Served(i)
    /\ inFlight' = inFlight \o [k \in DOMAIN newlyReleased |->
                                  Vehicle(newlyReleased[k],
                                          Route(newlyReleased[k], load))]
    /\ newlyReleased' = <<>>
    /\ pc' = "advance"
    /\ UNCHANGED <<reqs, maxTicks, cancelled, tick, nextPending, realized,
                   load, occupied, frames, result>>

\* A request nothing serves, or a cancelled ctx that a worker has noticed.
RouteFails ==
    /\ pc = "route" /\ newlyReleased # <<>>
    /\ \/ /\ \E i \in Range(newlyReleased) : ~Served(i)
          /\ Fail("unreachable")
       \/ cancelled /\ Fail("cancelled")

\* The elements at the positions S, in their order.
Filtered(s, S) ==
    LET at == Ordered(S, {pair \in S \X S : pair[1] < pair[2]})
    IN  [k \in DOMAIN at |-> s[at[k]]]

\* (c) Move every vehicle; the ones that arrive leave the road.
Advance ==
    /\ pc = "advance"
    /\ LET moved == [k \in DOMAIN inFlight |-> advance(inFlight[k])]
           gone  == {k \in DOMAIN moved : Finished(moved[k])}
           trips == [k \in DOMAIN moved |-> [request |-> moved[k].request,
                                             seconds |-> moved[k].experienced]]
       IN  /\ inFlight' = Filtered(moved, DOMAIN moved \ gone)
           /\ realized' = realized \o Filtered(trips, gone)
    /\ pc' = "settle"
    /\ UNCHANGED <<reqs, maxTicks, cancelled, tick, nextPending, newlyReleased,
                   load, occupied, frames, result>>

\* Mutant: an empty road ends the run.
SettleWhenEmpty ==
    /\ pc = "settle"
    /\ load' = loadFromVehicles(inFlight)
    /\ occupied' = Standing(inFlight)
    /\ frames' = Append(frames, buildTickState)
    /\ \/ /\ inFlight = <<>>
          /\ result' = SimResult(tick)
          /\ pc' = "returned"
          /\ UNCHANGED tick
       \/ /\ inFlight # <<>>
          /\ tick = maxTicks
          /\ result' = SimResult(maxTicks)
          /\ pc' = "returned"
          /\ UNCHANGED tick
       \/ /\ inFlight # <<>>
          /\ tick < maxTicks
          /\ tick' = tick + 1
          /\ pc' = "release"
          /\ UNCHANGED result
    /\ UNCHANGED <<reqs, maxTicks, cancelled, nextPending, newlyReleased,
                   inFlight, realized>>

\* Mutant: the clock stands still while the road is empty.
SettleIdle ==
    /\ pc = "settle"
    /\ load' = loadFromVehicles(inFlight)
    /\ occupied' = Standing(inFlight)
    /\ frames' = IF inFlight = <<>> THEN frames
                 ELSE Append(frames, buildTickState)
    /\ \/ /\ inFlight = <<>> /\ nextPending >= Len(reqs)
          /\ result' = SimResult(tick)
          /\ pc' = "returned"
          /\ UNCHANGED tick
       \/ /\ inFlight # <<>> \/ nextPending < Len(reqs)
          /\ tick = maxTicks
          /\ result' = SimResult(maxTicks)
          /\ pc' = "returned"
          /\ UNCHANGED tick
       \/ /\ inFlight # <<>> \/ nextPending < Len(reqs)
          /\ tick < maxTicks
          /\ tick' = IF inFlight = <<>> THEN tick ELSE tick + 1
          /\ pc' = "release"
          /\ UNCHANGED result
    /\ UNCHANGED <<reqs, maxTicks, cancelled, nextPending, newlyReleased,
                   inFlight, realized>>

\* (d) The load of the next tick, the observer's frame, and whether to go on:
\* not once the road is empty and nothing is left to release, nor past the
\* budget.
Settle ==
    /\ pc = "settle"
    /\ load' = loadFromVehicles(inFlight)
    /\ occupied' = Standing(inFlight)
    /\ frames' = Append(frames, buildTickState)
    /\ \/ /\ inFlight = <<>> /\ nextPending >= Len(reqs)
          /\ result' = SimResult(tick)
          /\ pc' = "returned"
          /\ UNCHANGED tick
       \/ /\ inFlight # <<>> \/ nextPending < Len(reqs)
          /\ tick = maxTicks
          /\ result' = SimResult(maxTicks)
          /\ pc' = "returned"
          /\ UNCHANGED tick
       \/ /\ inFlight # <<>> \/ nextPending < Len(reqs)
          /\ tick < maxTicks
          /\ tick' = tick + 1
          /\ pc' = "release"
          /\ UNCHANGED result
    /\ UNCHANGED <<reqs, maxTicks, cancelled, nextPending, newlyReleased,
                   inFlight, realized>>

Step == \/ Release \/ StopCancelled \/ RouteBatch \/ RouteFails \/ Advance
        \/ Settle

\* The caller gives up.
Cancel ==
    /\ pc # "returned" /\ ~cancelled
    /\ cancelled' = TRUE
    /\ UNCHANGED <<reqs, maxTicks, pc, tick, nextPending, newlyReleased,
                   inFlight, realized, load, occupied, frames, result>>

Returned == pc = "returned" /\ UNCHANGED vars

Next == Step \/ Cancel \/ Returned

Spec == Init /\ [][Next]_vars

-----------------------------------------------------------------------------
(* Properties.                                                             *)

RoadVehicle(veh) ==
    /\ veh.request \in Requests
    /\ veh.edges \in Paths(reqs[veh.request])
    /\ veh.edgeIndex \in 1..(Len(veh.edges) + 1)
    /\ Finished(veh) => veh.distOnEdge = 0
    /\ ~Finished(veh) =>
          LET len == Length[veh.edges[veh.edgeIndex]]
          IN  veh.distOnEdge = 0 \/ veh.distOnEdge \in 1..(len - 1)
    /\ veh.experienced \in 0..(tick * TickSeconds)

\* The state is well formed: a vehicle is on its path and short of the end of
\* the edge it is on, and a frame has been given for every finished tick.
TypeOK ==
    /\ pc \in {"release", "route", "advance", "settle", "returned"}
    /\ tick \in 1..maxTicks
    /\ nextPending \in 0..Len(reqs)
    /\ \A k \in DOMAIN inFlight : RoadVehicle(inFlight[k])
    /\ \A e \in Edges : load[e] \in Nat
    /\ Len(frames) \in {tick - 1, tick}
    /\ result.kind \in {"none", "error", "result"}

\* A released request is in exactly one place, waiting for its route, on the
\* road or among the realized trips, and in one of them only once; the others
\* are in none (the "released - Completed is InFlight" of TickState).
NoTripLostOrDoubled ==
    LET places == newlyReleased
                    \o [k \in DOMAIN inFlight |-> inFlight[k].request]
                    \o [k \in DOMAIN realized |-> realized[k].request]
    IN  /\ Len(places) = nextPending
        /\ Range(places) = Range(SubSeq(sortedRequestOrder, 1, nextPending))

\* At the top of a tick the load on an edge is the weight of the vehicles
\* standing on it: clearing only the edges of the last derivation leaves no
\* weight behind on an edge that has emptied.
LoadIsOccupancy ==
    pc = "release" =>
        \A e \in Edges : load[e] = WeightOn(inFlight, e)

\* The tick that released a request: the first whose clock has reached it.
ReleaseTick(i) ==
    IF reqs[i].departAt <= 0 THEN 1
    ELSE (reqs[i].departAt + TickSeconds - 1) \div TickSeconds + 1

\* A vehicle still on the road has spent every second since its release
\* driving, however many edges a tick took it over: advance carries the rest of
\* a tick across an edge boundary and charges each second once.
EverySecondCharged ==
    pc # "returned" =>
        \A k \in DOMAIN inFlight :
            LET elapsed == IF pc = "settle" THEN tick ELSE tick - 1
            IN  inFlight[k].experienced
                  = (elapsed - ReleaseTick(inFlight[k].request) + 1)
                        * TickSeconds

\* The bookkeeping of the run: no trip lost or doubled on its way, the load of the
\* road the weight that stands on it, and every second of a trip charged once.
Inv == TypeOK /\ NoTripLostOrDoubled /\ LoadIsOccupancy /\ EverySecondCharged

\* Only the budget cuts a run short.  One that stops before it has brought every
\* request home, also those that leave after the road was empty once; and the
\* derived budget reaches past the last departure, so that a run that was given
\* none never ends with a request it has not released.
OnlyBudgetCutsShort ==
    result.kind = "result" =>
        /\ result.ticks < maxTicks =>
              result.completed = Len(reqs) /\ result.released = Len(reqs)
        /\ maxTicks = derivedMaxTicks(reqs) => result.released = Len(reqs)

\* Simulate returns: the road drains, the budget runs out or the run fails.
SimulateReturns == <>(pc = "returned")
=============================================================================
