----------------------------- MODULE Assignment -----------------------------
(***************************************************************************)
(* The iterative batch assignment of internal/routing: the convergence     *)
(* loop of iterative.go driven by the steps of msa.go, systemoptimal.go    *)
(* and incremental.go over BPR costs (internal/cost/bpr.go).               *)
(*                                                                         *)
(* Flows are kept exactly.  A flow vector is [num, den], edge e carrying   *)
(* num[e]/den; after iteration k of the averaging strategies den is k.     *)
(* Costs are kept as their numerators over den^Beta, so every comparison   *)
(* the code makes on float64 is made here on integers.                     *)
(*                                                                         *)
(* The fan-out that computes one all-or-nothing pass is one step here;     *)
(* AssignFanout opens it up.                                               *)
(***************************************************************************)
EXTENDS Integers, Sequences, FiniteSets, Functions

CONSTANTS
    Nodes, Edges,         \* the road graph
    From, To,           \* the end points of each edge
    FreeFlow,             \* edge -> free-flow time
    Slope,                \* edge -> FreeFlow * alpha / capacity^Beta; 0 when the
                          \* effective capacity is not positive
    Beta,                 \* the BPR exponent
    Batches,              \* the request batches considered
    ToleranceInverse,     \* 1 / gapTolerance
    maxIterations,
    incrementalBatches

ASSUME AssignmentAssumption ==
    /\ IsFiniteSet(Nodes) /\ IsFiniteSet(Edges)
    /\ From \in [Edges -> Nodes] /\ To \in [Edges -> Nodes]
    /\ FreeFlow \in [Edges -> Nat] /\ Slope \in [Edges -> Nat]
    /\ Beta \in Nat /\ ToleranceInverse \in Nat \ {0}
    /\ incrementalBatches \in Nat \ {0}
    /\ maxIterations \in Nat /\ maxIterations >= incrementalBatches
    /\ \A batch \in Batches : batch \in Seq([from : Nodes, to : Nodes, weight : Int])

VARIABLES
    strategy,   \* which router runs the loop
    reqs,       \* the batch, in input order
    cancelled,  \* ctx has been cancelled
    k,          \* iterations performed
    flow,       \* the running flow
    routes,     \* request index -> path; its domain is the requests routed so far
    gap,        \* the relative gap |excess| / base of the last iteration
    outcome     \* "running", then what AssignResult returned

vars == <<strategy, reqs, cancelled, k, flow, routes, gap, outcome>>

Averaging == {"msa", "systemoptimal"}

----------------------------------------------------------------------------
(* Costs and totals. *)

newFlowVector == [num |-> [e \in Edges |-> 0], den |-> 1]

powBeta(base) ==
    LET power[n \in 0 .. Beta] == IF n = 0 THEN 1 ELSE base * power[n - 1]
    IN  power[Beta]

\* The BPR time of edge e under its flow, and what one more vehicle costs all.
Cost(e, f) == FreeFlow[e] * powBeta(f.den) + Slope[e] * powBeta(f.num[e])

MarginalCost(e, f) ==
    FreeFlow[e] * powBeta(f.den) + (Beta + 1) * (Slope[e] * powBeta(f.num[e]))

weightFromFlows(f) == [e \in Edges |-> Cost(e, f)]

marginalWeightFromFlows(f) == [e \in Edges |-> MarginalCost(e, f)]

Basis(s, f) ==
    IF s = "systemoptimal" THEN marginalWeightFromFlows(f) ELSE weightFromFlows(f)

RequestWeight(r) == IF r.weight > 0 THEN r.weight ELSE 1

pathCost(path, w) == SumFunction([j \in DOMAIN path |-> w[path[j]]])

\* Sigma flow * cost, a numerator over den^(Beta + 1).
edgeCostSum(f, w) == SumFunction([e \in Edges |-> f.num[e] * w[e]])

\* The all-or-nothing total under w, on the scale of edgeCostSum(f, w).
totalSP(f, chosen, w) ==
    f.den * SumFunction([i \in DOMAIN chosen |-> RequestWeight(reqs[i]) * pathCost(chosen[i], w)])

\* The flow the chosen routes place on each edge.
routeFlow(chosen) ==
    [e \in Edges |->
        SumFunction([i \in {j \in DOMAIN chosen : e \in Range(chosen[j])} |-> RequestWeight(reqs[i])])]

----------------------------------------------------------------------------
(* Shortest paths: the Dijkstra core, by what it returns. *)

SimplePaths ==
    {p \in UNION {[1 .. n -> Edges] : n \in 0 .. (Cardinality(Nodes) - 1)} :
        /\ \A j \in 1..(Len(p) - 1) : To[p[j]] = From[p[j + 1]]
        /\ \A i, j \in DOMAIN p : To[p[i]] = To[p[j]] => i = j
        /\ \A j \in DOMAIN p : To[p[j]] # From[p[1]]}

Paths == [od \in Nodes \X Nodes |->
             {p \in SimplePaths :
                IF p = <<>> THEN od[1] = od[2]
                            ELSE From[p[1]] = od[1] /\ To[p[Len(p)]] = od[2]}]

OD(i) == <<reqs[i].from, reqs[i].to>>

Cheapest(od, w) ==
    {p \in Paths[od] : \A q \in Paths[od] : pathCost(p, w) <= pathCost(q, w)}

\* The outcomes of an all-or-nothing pass over the requests ids: requests with
\* the same ends take the same path, ties fall either way, and there is no
\* outcome when some request has no path.
assignAON(ids, w) ==
    LET ods == {OD(i) : i \in ids}
        best == [od \in ods |-> Cheapest(od, w)]
        picks == {c \in [ods -> UNION {best[od] : od \in ods}] :
                     \A od \in ods : c[od] \in best[od]}
    IN  {[i \in ids |-> c[OD(i)]] : c \in picks}

----------------------------------------------------------------------------
(* Folding a pass into the running flow, and the gap. *)

\* (Mutation: the step size is 1/(k + 1).)
msaAverageShort(f, y, n) ==
    [num |-> [e \in Edges |-> f.num[e] + y[e]], den |-> n + 1]

\* x + (1/k)(y - x) with x = f.num/(k-1): the numerators add up over k.
msaAverage(f, y, n) == [num |-> [e \in Edges |-> f.num[e] + y[e]], den |-> n]

addFlow(f, y) == [f EXCEPT !.num = [e \in Edges |-> f.num[e] + y[e]]]

\* (Mutation: no guard for a zero SPTT.)
relativeGapUnguarded(tstt, sptt) == [excess |-> tstt - sptt, base |-> sptt]

relativeGap(tstt, sptt) ==
    IF sptt <= 0 THEN [excess |-> 0, base |-> 1]
                 ELSE [excess |-> tstt - sptt, base |-> sptt]

\* (Mutation: the sentinel of an unfinished load reads as a closed gap.)
partialLoadGapClosed == [excess |-> 0, base |-> 1]

partialLoadGap == [excess |-> 1, base |-> 1]

Abs(n) == IF n < 0 THEN -n ELSE n

\* (Mutation: the gap is compared with its sign.)
belowToleranceSigned(g) == g.excess * ToleranceInverse < g.base

belowTolerance(g) == Abs(g.excess) * ToleranceInverse < g.base

\* The requests of batch b (1-based): the first n mod incrementalBatches
\* batches carry one request more.
batchBounds(n, b) ==
    LET size(j) == n \div incrementalBatches
                     + (IF j <= n % incrementalBatches THEN 1 ELSE 0)
        at[j \in 0 .. incrementalBatches] == IF j = 0 THEN 0 ELSE at[j - 1] + size(j)
    IN  (at[b - 1] + 1) .. at[b]

----------------------------------------------------------------------------

Init ==
    /\ strategy \in Averaging \cup {"incremental"}
    /\ reqs \in Batches
    /\ cancelled = FALSE
    /\ k = 0
    /\ flow = newFlowVector
    /\ routes = <<>>
    /\ gap = [excess |-> 0, base |-> 1]
    /\ outcome = "running"

\* (Mutation: an iteration that fails starts the loop again.)
FailRetries(reason) ==
    /\ outcome' = "running"
    /\ flow' = newFlowVector
    /\ routes' = <<>>
    /\ gap' = [excess |-> 0, base |-> 1]
    /\ k' = 0
    /\ UNCHANGED <<strategy, reqs, cancelled>>

\* The zero AssignResult.
Fail(reason) ==
    /\ outcome' = reason
    /\ flow' = newFlowVector
    /\ routes' = <<>>
    /\ gap' = [excess |-> 0, base |-> 1]
    /\ UNCHANGED <<strategy, reqs, cancelled, k>>

\* The loop's verdict on the iteration that produced gap'.
Verdict(done) ==
    outcome' = IF belowTolerance(gap') \/ done THEN "converged"
               ELSE IF k + 1 = maxIterations THEN "exhausted" ELSE "running"

\* The step of msa (basis bpr.Cost) and of systemoptimal (basis MarginalCost).
AverageStep(w) ==
    /\ \E chosen \in assignAON(DOMAIN reqs, w) :
          /\ flow' = msaAverage(flow, routeFlow(chosen), k + 1)
          /\ routes' = chosen
          /\ gap' = relativeGap(edgeCostSum(flow, w), totalSP(flow, chosen, w))
    /\ Verdict(FALSE)

MSAStep == strategy = "msa" /\ AverageStep(Basis("msa", flow))

SystemOptimalStep ==
    strategy = "systemoptimal" /\ AverageStep(Basis("systemoptimal", flow))

\* The step of incremental: load the next batch over the cumulative flow; only
\* the last batch measures the gap, over every request.
IncrementalStep ==
    LET ids  == batchBounds(Len(reqs), k + 1)
        done == k + 1 = incrementalBatches
    IN  /\ strategy = "incremental"
        /\ \E chosen \in assignAON(ids, weightFromFlows(flow)) :
              /\ flow' = addFlow(flow, routeFlow(chosen))
              /\ routes' = [i \in ids \cup DOMAIN routes |->
                               IF i \in ids THEN chosen[i] ELSE routes[i]]
        /\ IF done
           THEN LET w == weightFromFlows(flow') IN
                \E every \in assignAON(DOMAIN reqs, w) :
                   gap' = relativeGap(edgeCostSum(flow', w), totalSP(flow', every, w))
           ELSE gap' = partialLoadGap
        /\ Verdict(done)

Iterate ==
    /\ outcome = "running" /\ ~cancelled /\ k < maxIterations
    /\ k' = k + 1
    /\ MSAStep \/ SystemOptimalStep \/ IncrementalStep
    /\ UNCHANGED <<strategy, reqs, cancelled>>

\* The requests this iteration routes.
RoutedNow == IF strategy = "incremental"
             THEN batchBounds(Len(reqs), k + 1) ELSE DOMAIN reqs

\* Some request routed now has no path.
Unreachable ==
    /\ outcome = "running" /\ ~cancelled /\ k < maxIterations
    /\ \E i \in RoutedNow : Paths[OD(i)] = {}
    /\ Fail("unreachable")

\* ctx.Err() seen before an iteration or by a worker inside it.
StopCancelled ==
    outcome = "running" /\ cancelled /\ Fail("cancelled")

Cancel ==
    /\ outcome = "running" /\ ~cancelled
    /\ cancelled' = TRUE
    /\ UNCHANGED <<strategy, reqs, k, flow, routes, gap, outcome>>

Returned == outcome # "running" /\ UNCHANGED vars

Next == Iterate \/ Unreachable \/ StopCancelled \/ Cancel \/ Returned

Spec == Init /\ [][Next]_vars

\* The goroutine that runs the loop is not descheduled for ever; nobody is
\* obliged to cancel.
FairSpec == Spec /\ WF_vars(Iterate \/ Unreachable \/ StopCancelled)

----------------------------------------------------------------------------


\* Every variable stays in its range; the iteration budget bounds k.
TypeOK ==
    /\ strategy \in Averaging \cup {"incremental"}
    /\ reqs \in Batches
    /\ cancelled \in BOOLEAN
    /\ k \in 0..maxIterations
    /\ flow \in [num : [Edges -> Nat], den : 1 .. maxIterations]
    /\ DOMAIN routes \subseteq DOMAIN reqs
    /\ \A i \in DOMAIN routes : routes[i] \in Paths[OD(i)]
    /\ gap.excess \in Int /\ gap.base \in Nat \ {0}
    /\ outcome \in {"running", "converged", "exhausted", "unreachable", "cancelled"}

NetOutflow(n) ==
    SumFunction([e \in {x \in Edges : From[x] = n} |-> flow.num[e]])
      - SumFunction([e \in {x \in Edges : To[x] = n} |-> flow.num[e]])

NetDemand(n) ==
    SumFunction([i \in {j \in DOMAIN routes : reqs[j].from = n} |-> RequestWeight(reqs[i])])
      - SumFunction([i \in {j \in DOMAIN routes : reqs[j].to = n} |-> RequestWeight(reqs[i])])

\* Averaging and cumulating conserve demand: at every node the flow out less
\* the flow in is the demand starting there less the demand ending there, after
\* any number of iterations of any strategy.
DemandConserved == \A n \in Nodes : NetOutflow(n) = flow.den * NetDemand(n)

\* How far the loop is: incremental has routed the batches before k + 1 and its
\* flow is what they place; an averaging strategy has routed everything, if it
\* has iterated at all.
Progress ==
    outcome \in {"running", "converged", "exhausted"} =>
        IF strategy = "incremental"
        THEN /\ k <= incrementalBatches /\ (outcome = "running" <=> k < incrementalBatches)
             /\ DOMAIN routes = UNION {batchBounds(Len(reqs), b) : b \in 1 .. k}
             /\ flow.den = 1 /\ flow.num = routeFlow(routes)
        ELSE /\ k = 0 => outcome = "running" /\ flow = newFlowVector /\ routes = <<>>
             /\ k > 0 => flow.den = k /\ DOMAIN routes = DOMAIN reqs

\* An averaging loop iterates again only if some request cannot travel for
\* nothing: relativeGap takes a total of zero for a closed gap.
SomeoneHasToPay ==
    outcome = "running" /\ strategy \in Averaging /\ k > 0 =>
        \E i \in DOMAIN reqs :
            \A p \in Paths[OD(i)] : pathCost(p, Basis(strategy, newFlowVector)) > 0

\* The state of the iteration.
Inv == TypeOK /\ DemandConserved /\ Progress /\ SomeoneHasToPay

\* An error returns the zero AssignResult; a reported assignment is complete:
\* every request of the batch has a route, and incremental's flow is what those
\* routes place.  Incremental must not stop on a gap before its last batch (the
\* reason for partialLoadGap).
NoPartialAnswer ==
    /\ outcome \in {"unreachable", "cancelled"} => routes = <<>> /\ flow = newFlowVector
    /\ outcome \in {"converged", "exhausted"} =>
          /\ DOMAIN routes = DOMAIN reqs
          /\ strategy = "incremental" => flow.num = routeFlow(routes)

\* The iterate an averaging strategy measured when it stopped.
Measured ==
    IF k = 1 THEN newFlowVector
    ELSE [num |-> [e \in Edges |-> flow.num[e] - routeFlow(routes)[e]], den |-> k - 1]

EquilibriumWithin(f, w) ==
    \A best \in assignAON(DOMAIN reqs, w) :
        (edgeCostSum(f, w) - totalSP(f, best, w)) * ToleranceInverse
            <= totalSP(f, best, w)

\* An averaging strategy reports convergence only when the flow it measured
\* carries the whole demand and is an equilibrium within the tolerance on the
\* basis it routes on: BPR cost for msa, marginal cost for systemoptimal.
StoppedAtEquilibrium ==
    outcome = "converged" /\ strategy \in Averaging =>
        /\ k = 1 => \A i \in DOMAIN reqs : routes[i] = <<>>
                                            \/ pathCost(routes[i], FreeFlow) = 0
        /\ EquilibriumWithin(Measured, Basis(strategy, Measured))

\* "The reported convergence must be backed by FinalFlows genuinely sitting near user
\* equilibrium": the flow that msa returns as converged is within the tolerance of the
\* equilibrium itself, measured anew.
FinalFlowsAtEquilibrium ==
    outcome = "converged" /\ strategy = "msa" =>
        LET w == Basis("msa", flow) IN
        \A every \in assignAON(DOMAIN reqs, w) :
            belowTolerance(relativeGap(edgeCostSum(flow, w), totalSP(flow, every, w)))

\* Every assignment returns, converged, out of budget or with an error.
AssignmentReturns == <>(outcome # "running")
=============================================================================
