----------------------------- MODULE GraphLoad -----------------------------
(***************************************************************************)
(* LoadEdgeAttributesGeoJSON (internal/graph/loader.go): an export is read, *)
(* checked row by row and turned into the immutable graph of adjacency.go,  *)
(* or rejected as a whole; then the diagnostic of connectivity.go, if it    *)
(* was asked for.  Coordinates are integers, in units in which the          *)
(* tolerance nodePosEpsilonDeg is Eps.                                      *)
(***************************************************************************)
EXTENDS Integers, Sequences, FiniteSets, SequencesExt

CONSTANTS
    Eps,                    \* nodePosEpsilonDeg
    maxArtifactBytes,
    connectivityCapSample,
    Chord(_, _)             \* GreatCircleM between two positions

ASSUME GraphAssumption == Eps \in Nat /\ connectivityCapSample \in Nat

VARIABLES
    phase,      \* "open", "rows", "build", "warn", "loaded", "rejected"
    export,     \* what is loaded, and with which options
    row,        \* how many rows are in
    placed,     \* edge id -> row: edges, edgeIDSeen, segSeen, endpoints and geom
    nodePos,    \* export's node id -> its position
    graph,      \* the graph
    report      \* what the diagnostic logged

loadVars == <<phase, export, row, placed, nodePos, graph, report>>

Nothing == [x \in {} |-> x]
Put(f, x, y) == [z \in DOMAIN f \cup {x} |-> IF z = x THEN y ELSE f[z]]
Silent == [components |-> 1, largest |-> 0, outside |-> 0, sample |-> <<>>]

Row ==
    [type : STRING, geometry : STRING, segment_id : [way : Int, seq : Int, dir : STRING],
     osm_way_id : Int, highway_class : STRING, lanes_effective : Int, length_m : Int,
     maxspeed_kmh : Int, freeflow_time_s : Int, capacity_vph : Int, edge_id : Int,
     source_node : Int, target_node : Int, coords : Seq(Seq(Int))]

Export ==
    [readable : BOOLEAN, parses : BOOLEAN, size : Int, type : STRING, schema_version : STRING,
     bounds : SUBSET [lonMin : Int, lonMax : Int, latMin : Int, latMax : Int], warn : BOOLEAN,
     features : Seq(Row)]

\* An export whose bytes can be had and parsed, under the options of its caller.
LoadInit(exports) ==
    /\ phase = "open" /\ export \in exports
    /\ row = 0 /\ placed = Nothing /\ nodePos = Nothing
    /\ graph = Nothing /\ report = Silent

features == export.features

World == [lonMin |-> -180, lonMax |-> 180, latMin |-> -90, latMax |-> 90]

\* WithExpectedBounds gives at most one window; bounds is the set of it.
ValidBounds(b) ==
    /\ b.lonMin >= World.lonMin /\ b.lonMax <= World.lonMax /\ b.lonMin <= b.lonMax
    /\ b.latMin >= World.latMin /\ b.latMax <= World.latMax /\ b.latMin <= b.latMax

\* schema_version is the token in the text: the integer 1 and nothing else.
Envelope ==
    /\ export.readable /\ export.size <= maxArtifactBytes /\ export.parses
    /\ export.type = "FeatureCollection"
    /\ export.schema_version = "1"
    /\ features # <<>>

Open ==
    /\ phase = "open"
    /\ phase' = IF (\A b \in export.bounds : ValidBounds(b)) /\ Envelope THEN "rows"
                ELSE "rejected"
    /\ UNCHANGED <<export, row, placed, nodePos, graph, report>>

-----------------------------------------------------------------------------
\* The strict form way:seq:dir.  A text in another form stands as one with a
\* negative number.
ParseSegmentID(s) == s.way >= 1 /\ s.seq >= 0 /\ s.dir \in {"F", "R"}

highwayClasses == {"motorway", "trunk", "primary", "secondary", "tertiary", "residential", "service"}

\* A number of the text that is too large for a float.
Inf == 1000000

isFinitePositive(v) == v > 0 /\ v < Inf

Within(c, b) == c[1] \in b.lonMin .. b.lonMax /\ c[2] \in b.latMin .. b.latMax

first(f) == f.coords[1]
last(f) == f.coords[Len(f.coords)]

\* The slack lengthChordRelTol is for the noise of floats, which integers have not.
validateFeature(f, count, bounds) ==
    /\ f.type = "Feature" /\ f.geometry = "LineString"
    /\ ParseSegmentID(f.segment_id) /\ f.segment_id.way = f.osm_way_id
    /\ f.highway_class \in highwayClasses
    /\ f.lanes_effective >= 1
    /\ \A v \in {f.length_m, f.maxspeed_kmh, f.freeflow_time_s, f.capacity_vph} : isFinitePositive(v)
    /\ Len(f.coords) >= 2
    /\ \A i \in DOMAIN f.coords :
          Len(f.coords[i]) = 2 /\ \A b \in {World} \cup bounds : Within(f.coords[i], b)
    /\ f.length_m >= Chord(first(f), last(f))
    /\ f.edge_id \in 0 .. (count - 1)
    /\ f.source_node >= 0 /\ f.target_node >= 0

Distance(a, b) == IF a < b THEN b - a ELSE a - b

Apart(p, q, tolerance) == Distance(p[1], q[1]) > tolerance \/ Distance(p[2], q[2]) > tolerance

\* (Mutant: the position seen last is the one the next is compared with.)
recordNodePosAnew(positions, id, p) ==
    IF id \in DOMAIN positions THEN [positions EXCEPT ![id] = p] ELSE Put(positions, id, p)

\* The first position of a node stays.
recordNodePos(positions, id, p) ==
    IF id \in DOMAIN positions THEN positions ELSE Put(positions, id, p)

Contradicts(positions, id, p) == id \in DOMAIN positions /\ Apart(positions[id], p, Eps)

withSource(f) == recordNodePos(nodePos, f.source_node, first(f))

Accepted(f) ==
    /\ validateFeature(f, Len(features), export.bounds)
    /\ f.edge_id \notin DOMAIN placed
    /\ \A e \in DOMAIN placed : placed[e].segment_id # f.segment_id
    /\ ~Contradicts(nodePos, f.source_node, first(f))
    /\ ~Contradicts(withSource(f), f.target_node, last(f))

AddRow ==
    /\ phase = "rows" /\ row < Len(features)
    /\ LET f == features[row + 1] IN
       /\ Accepted(f)
       /\ placed' = Put(placed, f.edge_id, f)
       /\ nodePos' = recordNodePos(withSource(f), f.target_node, last(f))
    /\ row' = row + 1
    /\ UNCHANGED <<phase, export, graph, report>>

\* One bad row and nothing of the export is kept.
RejectRow ==
    /\ phase = "rows" /\ row < Len(features)
    /\ ~Accepted(features[row + 1])
    /\ phase' = "rejected" /\ placed' = Nothing /\ nodePos' = Nothing
    /\ UNCHANGED <<export, row, graph, report>>

-----------------------------------------------------------------------------
\* The ids of the export, which may be sparse, in ascending order become 0, 1, ...
remap(id) == Cardinality({other \in DOMAIN nodePos : other < id})

nodeAt(n) == CHOOSE id \in DOMAIN nodePos : remap(id) = n

\* The edges of each node are counted and the counts summed up.
outOffsets(nodeCount, from) ==
    LET offsets[n \in 0 .. nodeCount] ==
            IF n = 0 THEN 0
            ELSE offsets[n - 1] + Cardinality({e \in DOMAIN from : from[e] = n - 1})
    IN offsets

\* Edge e is placed at the cursor of its node.
Scatter(s, node, e) ==
    [ids |-> [s.ids EXCEPT ![s.cursor[node]] = e],
     cursor |-> [s.cursor EXCEPT ![node] = @ + 1]]

\* All of them, in the order of their ids.
scattered(offsets, nodeCount, from) ==
    LET edgeCount == Cardinality(DOMAIN from)
        upto[k \in 0 .. edgeCount] ==
            IF k = 0 THEN [ids |-> [i \in 0 .. (edgeCount - 1) |-> 0],
                           cursor |-> [n \in 0 .. (nodeCount - 1) |-> offsets[n]]]
            ELSE Scatter(upto[k - 1], from[k - 1], k - 1)
    IN upto[edgeCount]

CSR(nodeCount, from) ==
    LET offsets == outOffsets(nodeCount, from)
    IN [outOffsets |-> offsets, outEdgeIDs |-> scattered(offsets, nodeCount, from).ids]

\* The nodes at their new ids, the edges between them, and what New makes of the two.
assembled ==
    LET nodes == [n \in 0 .. (Cardinality(DOMAIN nodePos) - 1) |-> nodePos[nodeAt(n)]]
        edges == [e \in DOMAIN placed |->
                     [segment |-> placed[e].segment_id, length |-> placed[e].length_m,
                      freeFlow |-> placed[e].freeflow_time_s, capacity |-> placed[e].capacity_vph,
                      from |-> remap(placed[e].source_node), to |-> remap(placed[e].target_node)]]
    IN [nodes |-> nodes, edges |-> edges,
        csr |-> CSR(Cardinality(DOMAIN nodes), [e \in DOMAIN edges |-> edges[e].from])]

\* New's checks: ids are places, and edges run between nodes.
Dense(g) ==
    /\ DOMAIN g.edges = 0 .. (Cardinality(DOMAIN g.edges) - 1)
    /\ \A e \in DOMAIN g.edges : {g.edges[e].from, g.edges[e].to} \subseteq DOMAIN g.nodes

Build ==
    /\ phase = "rows" /\ row = Len(features)
    /\ IF Dense(assembled)
       THEN graph' = assembled /\ phase' = IF export.warn THEN "warn" ELSE "loaded"
       ELSE graph' = graph /\ phase' = "rejected"
    /\ UNCHANGED <<export, row, placed, nodePos, report>>

\* OutEdgeIDs, and Neighbors up to the copying.
OutEdgeIDs(n) ==
    IF n \notin DOMAIN graph.nodes THEN <<>>
    ELSE LET low == graph.csr.outOffsets[n]
         IN [i \in 1 .. (graph.csr.outOffsets[n + 1] - low) |-> graph.csr.outEdgeIDs[low + i - 1]]

-----------------------------------------------------------------------------
\* The disjoint sets: uf.parent and uf.rank over the node ids.
newUnionFind(ids) == [parent |-> [n \in ids |-> n], rank |-> [n \in ids |-> 0]]

\* The walk of find goes to the grandparent and links the node there; a root it keeps.
Halve(s) ==
    LET up == s.parent[s.parent[s.root]]
    IN IF s.parent[s.root] = s.root THEN s
       ELSE [parent |-> [s.parent EXCEPT ![s.root] = up], root |-> up]

\* The root of x, and the parents that the walk leaves.
find(parent, x) ==
    LET walk[i \in 0 .. Cardinality(DOMAIN parent)] ==
            IF i = 0 THEN [parent |-> parent, root |-> x] ELSE Halve(walk[i - 1])
    IN walk[Cardinality(DOMAIN parent)]

\* (Mutant: the nodes are linked in place of their roots.)
unionNodes(uf, a, b) == [uf EXCEPT !.parent[b] = a]

union(uf, a, b) ==
    LET left == find(uf.parent, a)
        right == find(left.parent, b)
        under(child, root) == [right.parent EXCEPT ![child] = root]
    IN CASE left.root = right.root ->
               [uf EXCEPT !.parent = right.parent]
         [] uf.rank[left.root] < uf.rank[right.root] ->
               [uf EXCEPT !.parent = under(left.root, right.root)]
         [] uf.rank[left.root] > uf.rank[right.root] ->
               [uf EXCEPT !.parent = under(right.root, left.root)]
         [] OTHER ->
               [parent |-> under(right.root, left.root), rank |-> [uf.rank EXCEPT ![left.root] = @ + 1]]

unionAll(ids, edges) ==
    LET edgeCount == Cardinality(DOMAIN edges)
        upto[k \in 0 .. edgeCount] ==
            IF k = 0 THEN newUnionFind(ids) ELSE union(upto[k - 1], edges[k - 1].from, edges[k - 1].to)
    IN upto[edgeCount]

\* The first of a set of numbers, ascending, and at most so many.
Lowest(S, most) ==
    [i \in 1 .. (IF Cardinality(S) > most THEN most ELSE Cardinality(S)) |->
        CHOOSE n \in S : Cardinality({m \in S : m < n}) = i - 1]

\* Sizes and lowest members by root; the largest component, of equals the one with
\* the lowest member; the nodes outside it, counted and sampled in ascending order.
Tally(ids, rootOf) ==
    LET roots == {rootOf[n] : n \in ids}
        component(r) == {n \in ids : rootOf[n] = r}
        lowestID(r) == CHOOSE n \in component(r) : \A m \in component(r) : n <= m
        largest == CHOOSE r \in roots : \A o \in roots \ {r} :
                      \/ Cardinality(component(r)) > Cardinality(component(o))
                      \/ /\ Cardinality(component(r)) = Cardinality(component(o))
                         /\ lowestID(r) < lowestID(o)
        unreachable == ids \ component(largest)
    IN IF Cardinality(ids) < 2 \/ Cardinality(roots) <= 1 THEN Silent
       ELSE [components |-> Cardinality(roots), largest |-> Cardinality(component(largest)),
             outside |-> Cardinality(unreachable), sample |-> Lowest(unreachable, connectivityCapSample)]

Warning ==
    LET ids == DOMAIN graph.nodes
        uf == unionAll(ids, graph.edges)
    IN Tally(ids, [n \in ids |-> find(uf.parent, n).root])

\* The diagnostic logs and changes nothing.
Warn ==
    /\ phase = "warn"
    /\ report' = Warning
    /\ phase' = "loaded"
    /\ UNCHANGED <<export, row, placed, nodePos, graph>>

LoadNext == Open \/ AddRow \/ RejectRow \/ Build \/ Warn

-----------------------------------------------------------------------------
\* The positions that the export gives a node.
EndsOf(id) ==
    {first(f) : f \in {features[i] : i \in {j \in DOMAIN features : features[j].source_node = id}}}
    \cup {last(f) : f \in {features[i] : i \in {j \in DOMAIN features : features[j].target_node = id}}}

\* What the contract asks of the rows of an export, whatever their order.
WellFormed(tolerance) ==
    /\ \A i \in DOMAIN features : validateFeature(features[i], Len(features), export.bounds)
    /\ {features[i].edge_id : i \in DOMAIN features} = 0 .. (Len(features) - 1)
    /\ \A i, j \in DOMAIN features : i # j => features[i].segment_id # features[j].segment_id
    /\ \A i \in DOMAIN features : \A id \in {features[i].source_node, features[i].target_node} :
          \A p, q \in EndsOf(id) : ~Apart(p, q, tolerance)

\* The rows are the edges, their ends lie where the nodes are, the nodes keep the
\* order of the export's ids, and each node lists exactly its edges, ascending.
Faithful ==
    LET edge(i) == graph.edges[features[i].edge_id]
        joined == UNION {{<<features[i].source_node, edge(i).from>>,
                          <<features[i].target_node, edge(i).to>>} : i \in DOMAIN features}
    IN /\ \A i \in DOMAIN features :
             /\ edge(i).segment = features[i].segment_id
             /\ ~Apart(graph.nodes[edge(i).from], first(features[i]), Eps)
             /\ ~Apart(graph.nodes[edge(i).to], last(features[i]), Eps)
       /\ \A a, b \in joined : a[1] < b[1] <=> a[2] < b[2]
       /\ {a[2] : a \in joined} = DOMAIN graph.nodes
       /\ \A n \in DOMAIN graph.nodes :
             /\ ToSet(OutEdgeIDs(n)) = {e \in DOMAIN graph.edges : graph.edges[e].from = n}
             /\ \A i \in 1 .. (Len(OutEdgeIDs(n)) - 1) : OutEdgeIDs(n)[i] < OutEdgeIDs(n)[i + 1]

\* The loader is fail-closed and exact: an export that keeps the contract loads, in
\* whatever order its rows come; one that loads keeps it, up to a tolerance that
\* doubles because positions are compared with the first of their node; and the
\* graph is what the export says.
LoadedIsTheExport ==
    /\ phase = "rejected" =>
          ~((\A b \in export.bounds : ValidBounds(b)) /\ Envelope /\ WellFormed(Eps))
    /\ phase = "loaded" => Envelope /\ WellFormed(2 * Eps) /\ Faithful

\* The nodes that no set closed under the edges, in either direction, tells from n.
Island(n) ==
    LET closed == {S \in SUBSET DOMAIN graph.nodes :
                      \A e \in DOMAIN graph.edges : graph.edges[e].from \in S <=> graph.edges[e].to \in S}
    IN {m \in DOMAIN graph.nodes : \A S \in closed : n \in S => m \in S}

\* The warning of a loaded export names the weakly connected parts: their number,
\* the largest (of equals, that of the lowest node), and the nodes outside it, from
\* the lowest up; an export in one part is silent.
IslandsAreComponents ==
    phase = "loaded" /\ export.warn =>
        LET islands == {Island(n) : n \in DOMAIN graph.nodes}
            least(S) == CHOOSE n \in S : \A m \in S : n <= m
            isMain(S) == \A T \in islands \ {S} :
                Cardinality(S) > Cardinality(T) \/ (Cardinality(S) = Cardinality(T) /\ least(S) < least(T))
        IN IF Cardinality(islands) = 1 THEN report = Silent
           ELSE \E main \in islands :
                   LET outside == DOMAIN graph.nodes \ main
                   IN /\ isMain(main)
                      /\ report.components = Cardinality(islands)
                      /\ report.largest = Cardinality(main)
                      /\ report.outside = Cardinality(outside)
                      /\ \A n \in ToSet(report.sample), m \in outside :
                            n \in outside /\ (m <= n => m \in ToSet(report.sample))
                      /\ \A i \in 1 .. (Len(report.sample) - 1) : report.sample[i] < report.sample[i + 1]
                      /\ Len(report.sample) = connectivityCapSample \/ Len(report.sample) = report.outside
=============================================================================
