------------------------------ MODULE Routers ------------------------------
(***************************************************************************)
(* One call of the reactive or the multipath router (internal/routing/      *)
(* {reactive,multipath,assign}.go): Route for one request, AssignResult and *)
(* AssignMultipath for a batch.  The call finds the nodes of all end points *)
(* in the k-d tree, then answers the requests in order: reactive under the  *)
(* loads it holds, multipath by drawing from the k paths of the request's   *)
(* pair, computed when the pair first comes up.  Before the call, and while *)
(* a batch works on its snapshot, the congestion provider is written.       *)
(***************************************************************************)
EXTENDS KdTree, KShortest, LoadStore

CONSTANTS
    Batches         \* what a call may bring: sequences of [from, to, weight]

ASSUME RoutersAssumption ==
    /\ Nodes = Points /\ Edges = EdgeIds
    /\ \A b \in Batches :
          /\ b \in Seq(Range(b))
          /\ \A i \in DOMAIN b : {b[i].from, b[i].to} \subseteq Queries /\ b[i].weight \in Int

VARIABLES
    pc,             \* "idle", "snap", "request", "paths", "draw", "returned", "failed"
    router,         \* "reactive" or "multipath"
    batch,          \* whether the call is an assignment
    reqs,
    ends,           \* the nodes found so far: from, to, from, to ...
    searching,      \* whether a search of the tree is on
    entries,        \* what multipath knows of each pair: [pair, paths, counts]
    slots,          \* the entry of each request, requestODSlot
    chosen,         \* the path it drew, chosenPathIndex
    routes,         \* the answers, in input order
    flows           \* edge -> vehicles

callArgs == <<router, batch, reqs>>
snapped == <<ends, searching>>
provenance == <<entries, slots, chosen>>
answers == <<routes, flows>>
callVars == <<pc, callArgs, snapped, provenance, answers>>
vars == <<kdVars, kVars, loadVars, callVars>>

noFlow == [e \in Edges |-> 0]

Init ==
    /\ KdInit /\ KInit /\ LoadInit
    /\ query = CHOOSE q \in Queries : TRUE
    /\ kpair = CHOOSE p \in [src : Nodes, dst : Nodes] : TRUE
    /\ pc = "idle" /\ router = "reactive" /\ batch = FALSE
    /\ reqs = <<>> /\ ends = <<>> /\ searching = FALSE
    /\ entries = <<>> /\ slots = <<>> /\ chosen = <<>>
    /\ routes = <<>> /\ flows = noFlow

BuildTree == Build /\ UNCHANGED <<kVars, loadVars, callVars>>

\* A reactive Route borrows the view before it looks for its nodes.
Call(r, b, requests) ==
    /\ pc = "idle" /\ Built /\ provider # "none"
    /\ b \/ Len(requests) = 1
    /\ r = "multipath" => provider = "memory" /\ writes = 0    \* it reads no loads
    /\ pc' = "snap" /\ router' = r /\ batch' = b /\ reqs' = requests
    /\ IF r = "reactive" /\ ~b THEN View ELSE UNCHANGED loadVars
    /\ UNCHANGED <<kdVars, kVars, snapped, provenance, answers>>

\* prefetchOD: NearestNode of every end point, before anything else.
Snap ==
    /\ pc = "snap" /\ ~searching /\ Len(ends) < 2 * Len(reqs)
    /\ LET i == Len(ends) \div 2 + 1 IN
       Ask(IF Len(ends) % 2 = 0 THEN reqs[i].from ELSE reqs[i].to)
    /\ searching' = TRUE
    /\ UNCHANGED <<kVars, loadVars, pc, callArgs, ends, provenance, answers>>

Search ==
    /\ searching /\ (Prune \/ Visit)
    /\ UNCHANGED <<kVars, loadVars, callVars>>

Snapped ==
    /\ searching /\ stack = <<>>
    /\ ends' = Append(ends, best) /\ searching' = FALSE
    /\ UNCHANGED <<kdVars, kVars, loadVars, pc, callArgs, provenance, answers>>

\* All nodes are known, and a reactive batch takes its one snapshot.
Begin ==
    /\ pc = "snap" /\ ~searching /\ Len(ends) = 2 * Len(reqs)
    /\ pc' = "request"
    /\ IF router = "reactive" /\ batch THEN Snapshot ELSE UNCHANGED loadVars
    /\ UNCHANGED <<kdVars, kVars, callArgs, snapped, provenance, answers>>

Pair(i) == [src |-> ends[2 * i - 1], dst |-> ends[2 * i]]

\* The request to be answered next.
now == Len(routes) + 1

Answering(r) == pc = "request" /\ router = r /\ now <= Len(reqs)

\* The answer goes in its place, and a batch adds its weight to the flows.
Answer(p, weight) ==
    /\ routes' = Append(routes, [edges |-> p, cost |-> Cost(p, weight)])
    /\ flows' = [e \in Edges |-> IF batch /\ e \in Range(p) THEN flows[e] + reqs[now].weight
                                 ELSE flows[e]]

\* The cost of the edges grows with their load; a negative load counts as none.
Congested(load) == [e \in Edges |-> FreeFlow[e] + (IF load[e] < 0 THEN 0 ELSE load[e])]

heldLoad == [e \in Edges |-> loadIn(array[held], e)]

RouteReactive ==
    /\ Answering("reactive")
    /\ \E p \in Cheapest(Pair(now).src, Pair(now).dst, Congested(heldLoad), {}) :
          Answer(p, Congested(heldLoad))
    /\ UNCHANGED <<kdVars, kVars, loadVars, pc, callArgs, snapped, provenance>>

\* No path for one request fails the whole call, and so does a cancelled context,
\* which is looked at before each request.
Fail ==
    /\ \/ pc = "request" /\ now <= Len(reqs)
       \/ pc = "paths" /\ kphase = "done" /\ accepted = <<>>
    /\ pc' = "failed"
    /\ routes' = <<>> /\ flows' = noFlow
    /\ entries' = <<>> /\ slots' = <<>> /\ chosen' = <<>>
    /\ UNCHANGED <<kdVars, kVars, loadVars, callArgs, snapped>>

\* (Mutant: pairs are told apart by their origin.)
HasEntryByOrigin(i) == entries[i].pair.src = Pair(now).src

HasEntry(i) == entries[i].pair = Pair(now)

\* odIndexByKey has the pair.
KnownPair ==
    /\ Answering("multipath")
    /\ \E i \in DOMAIN entries : HasEntry(i) /\ slots' = Append(slots, i)
    /\ pc' = "draw"
    /\ UNCHANGED <<kdVars, kVars, loadVars, callArgs, snapped, entries, chosen, answers>>

NewPair ==
    /\ Answering("multipath")
    /\ \A i \in DOMAIN entries : ~HasEntry(i)
    /\ KCall(Pair(now))
    /\ pc' = "paths"
    /\ UNCHANGED <<kdVars, loadVars, callArgs, snapped, provenance, answers>>

FindPaths ==
    /\ pc = "paths" /\ KNext
    /\ UNCHANGED <<kdVars, loadVars, callVars>>

AddEntry ==
    /\ pc = "paths" /\ kphase = "done" /\ accepted # <<>>
    /\ entries' = Append(entries, [pair |-> Pair(now), paths |-> accepted,
                                   counts |-> [i \in DOMAIN accepted |-> 0]])
    /\ slots' = Append(slots, Len(entries) + 1)
    /\ kphase' = "off" /\ accepted' = <<>> /\ candidates' = <<>> /\ seen' = {}
    /\ pc' = "draw"
    /\ UNCHANGED <<kdVars, kpair, spurIndex, rootCost, loadVars, callArgs, snapped, chosen, answers>>

\* proportionalSplit: shares go as the inverse of the cost, so that a path that
\* costs nothing has one only when none costs anything.
Shared(paths) ==
    {i \in DOMAIN paths : paths[i].cost > 0 \/ \A j \in DOMAIN paths : paths[j].cost = 0}

\* A path with a share, as the number drawn from the request's own seed falls; the
\* last path also takes what rounding leaves.
drawPath(paths) == Shared(paths) \cup {Len(paths)}

Draw ==
    /\ pc = "draw"
    /\ LET entry == entries[slots[now]] IN
       \E choice \in drawPath(entry.paths) :
          /\ chosen' = Append(chosen, choice)
          /\ entries' = [entries EXCEPT ![slots[now]].counts[choice] = @ + 1]
          /\ Answer(entry.paths[choice].edges, FreeFlow)
    /\ pc' = "request"
    /\ UNCHANGED <<kdVars, kVars, loadVars, callArgs, snapped, slots>>

Return ==
    /\ pc = "request" /\ now > Len(reqs)
    /\ pc' = "returned"
    /\ UNCHANGED <<kdVars, kVars, loadVars, callArgs, snapped, provenance, answers>>

Router ==
    \/ BuildTree \/ Snap \/ Search \/ Snapped \/ Begin
    \/ RouteReactive \/ Fail \/ KnownPair \/ NewPair \/ FindPaths \/ AddEntry \/ Draw
    \/ Return

Over == pc \in {"returned", "failed"} \/ (Built /\ provider = "none")

\* Nobody writes while a Route has borrowed the view.  (Writes while a batch looks
\* up its nodes would show nothing that writes before the call do not.)
Congestion ==
    /\ (Built /\ pc = "idle") \/ (batch /\ Answering("reactive"))
    /\ Write \/ Tick
    /\ UNCHANGED <<kdVars, kVars, callVars>>

Next ==
    \/ Router
    \/ \E r \in {"reactive", "multipath"}, b \in BOOLEAN, requests \in Batches : Call(r, b, requests)
    \/ Congestion
    \/ Over /\ UNCHANGED vars

Spec == Init /\ [][Next]_vars

\* The goroutine that makes the call keeps being scheduled.
FairSpec == Spec /\ WF_vars(Router)

-----------------------------------------------------------------------------
\* Every reactive answer is a cheapest path of the one load that the provider stood
\* for when the call began to read, and costs what it says under it: whatever is
\* written while a batch is at work, grown or drifting, does not show.
OneLoadPerCall ==
    /\ provider # "none" => \A e \in Edges : Load(e) = truth[e]
    /\ router = "reactive" => \A i \in DOMAIN routes :
          /\ routes[i].edges \in Cheapest(Pair(i).src, Pair(i).dst, Congested(asOf), {})
          /\ routes[i].cost = Cost(routes[i].edges, Congested(asOf))

\* The tallies of a multipath call and its routes tell the same story: every request
\* took a path of its own pair's entry, no pair has two, the counts are those of
\* the requests, and the flows are what the routes put on each edge.
TalliesAgree ==
    /\ router = "multipath" => \A i \in DOMAIN routes :
          /\ entries[slots[i]].pair = Pair(i)
          /\ routes[i] = entries[slots[i]].paths[chosen[i]]
    /\ \A s \in DOMAIN entries :
          /\ \A t \in DOMAIN entries : entries[s].pair = entries[t].pair => s = t
          /\ \A k \in DOMAIN entries[s].counts : entries[s].counts[k] =
                Cardinality({i \in DOMAIN chosen : slots[i] = s /\ chosen[i] = k})
    /\ batch => \A e \in Edges : flows[e] =
          SumFunctionOnSet([i \in DOMAIN routes |-> reqs[i].weight],
                           {i \in DOMAIN routes : e \in Range(routes[i].edges)})

\* Every call returns, while the provider is written as often as one likes.
CallReturns == pc = "snap" ~> pc \in {"returned", "failed"}
=============================================================================
