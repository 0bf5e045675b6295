-------------------------- MODULE MCRoutingServer --------------------------
(***************************************************************************)
(* Exports of up to four rows over sparse node ids: every way to join four  *)
(* nodes by three edges (for the diagnostic), rows in any order, positions  *)
(* that drift by the tolerance, and one of each deviation from the          *)
(* contract.  The server is launched on two of them and on a bad one.       *)
(*                                                                         *)
(* The middleware (RateLimiter) stands in front of the server.  It shares no *)
(* state with it, so its clients need not be interleaved with the server's   *)
(* own steps: they come while one server is up and everything else rests.   *)
(***************************************************************************)
EXTENDS RoutingServer, RateLimiter

MCChord(p, q) == Distance(p[1], q[1]) + Distance(p[2], q[2])

seg(n) == [way |-> 7, seq |-> n, dir |-> "F"]
place(id) == <<id, 2 * id>>

\* Row n of an export, from node s to node t.
feature(n, s, t) ==
    [type |-> "Feature", geometry |-> "LineString", segment_id |-> seg(n), osm_way_id |-> 7,
     highway_class |-> "residential", lanes_effective |-> 1, length_m |-> 40, maxspeed_kmh |-> 30,
     freeflow_time_s |-> 5, capacity_vph |-> 600, edge_id |-> n, source_node |-> s, target_node |-> t,
     coords |-> <<place(s), <<0, 0>>, place(t)>>]

exportOf(rows, warn) ==
    [readable |-> TRUE, parses |-> TRUE, size |-> 1, type |-> "FeatureCollection",
     schema_version |-> "1", bounds |-> {}, warn |-> warn, features |-> rows]

\* The graphs over the nodes 2, 3, 5, 8.  Unordered pairs suffice for a diagnostic
\* that ignores directions; the edges are given in ascending or mixed order.
streets == {<<2, 2>>, <<2, 3>>, <<3, 5>>, <<5, 2>>, <<5, 8>>, <<8, 5>>, <<8, 3>>}
orders == {<<0, 1, 2>>, <<2, 0, 1>>}
networks == {exportOf([i \in 1 .. 3 |-> feature(o[i], s[o[i] + 1][1], s[o[i] + 1][2])], TRUE) :
                 o \in orders, s \in [1 .. 3 -> streets]}
chains == {exportOf(<<feature(0, 2, 3), feature(1, 5, 8), feature(2, 8, 2), feature(3, t, 11)>>, TRUE) :
              t \in {2, 3, 9, 11}}

\* Three edges meet at node 5, whose position is given anew by each.
drift == {exportOf(<<[feature(0, 2, 5) EXCEPT !.coords[3] = <<5 + a, 10>>],
                     [feature(1, 5, 8) EXCEPT !.coords[1] = <<5 + b, 10>>],
                     [feature(2, 3, 5) EXCEPT !.coords[3] = <<5, 10 + c>>]>>, FALSE) :
              a, b, c \in -2 .. 2}

base == exportOf(<<feature(1, 2, 3), feature(0, 3, 2)>>, FALSE)
window == [lonMin |-> -10, lonMax |-> 3, latMin |-> -10, latMax |-> 6]

badEnvelopes ==
    {[base EXCEPT !.readable = FALSE], [base EXCEPT !.parses = FALSE], [base EXCEPT !.size = 3],
     [base EXCEPT !.type = "Feature"], [base EXCEPT !.schema_version = "'1'"],
     [base EXCEPT !.schema_version = "2"], [base EXCEPT !.features = <<>>]}
bounded ==
    {[base EXCEPT !.bounds = {b}] :
        b \in {window, [window EXCEPT !.lonMax = 2], [window EXCEPT !.latMin = -100],
               [window EXCEPT !.lonMin = 4]}}
badRows ==
    LET f == feature(0, 3, 2) IN
    {[f EXCEPT !.type = "x"], [f EXCEPT !.geometry = "Point"], [f EXCEPT !.segment_id.seq = -1],
     [f EXCEPT !.segment_id.dir = "X"], [f EXCEPT !.segment_id.way = 8], [f EXCEPT !.osm_way_id = 0],
     [f EXCEPT !.highway_class = "x"], [f EXCEPT !.lanes_effective = 0], [f EXCEPT !.length_m = 2],
     [f EXCEPT !.length_m = 3], [f EXCEPT !.maxspeed_kmh = Inf], [f EXCEPT !.freeflow_time_s = 0],
     [f EXCEPT !.capacity_vph = -1], [f EXCEPT !.coords = <<place(3)>>],
     [f EXCEPT !.coords[2] = <<0, 0, 9>>], [f EXCEPT !.coords[2] = <<0, 91>>], [f EXCEPT !.edge_id = 2],
     [f EXCEPT !.edge_id = -1], [f EXCEPT !.edge_id = 1], [f EXCEPT !.segment_id = seg(1)],
     [f EXCEPT !.source_node = -1], [f EXCEPT !.target_node = -1], [f EXCEPT !.source_node = 2]}

exports ==
    networks \cup chains \cup drift \cup badEnvelopes \cup bounded
    \cup {[base EXCEPT !.features[2] = f] : f \in badRows}

bad == [base EXCEPT !.features[2].edge_id = 1]
twoIslands == exportOf(<<feature(0, 2, 3), feature(1, 5, 8)>>, TRUE)

point == [fields |-> 2, numbers |-> TRUE]
goodArgs == [flags |-> TRUE, algo |-> "reactive", jam |-> {seg(1)}, jamVPH |-> 2, from |-> point, to |-> point,
             congestion |-> "sim", fileValid |-> TRUE]
argsGiven ==
    {[goodArgs EXCEPT !.algo = a, !.jam = j, !.jamVPH = v, !.congestion = c] :
        a \in {"naive", "reactive"}, j \in {{}, {seg(1)}, {seg(9)}}, v \in {0, 2, NaN}, c \in {"", "sim", "file"}}
    \cup {[goodArgs EXCEPT !.flags = FALSE], [goodArgs EXCEPT !.algo = "x"],
          [goodArgs EXCEPT !.from.fields = 3], [goodArgs EXCEPT !.to.numbers = FALSE],
          [goodArgs EXCEPT !.jam = {}, !.congestion = "file", !.fileValid = FALSE]}

start(program, artifact, document, arguments) ==
    [program |-> program, export |-> artifact, docs |-> document, args |-> arguments]

MCLaunches ==
    {start("library", x, "marked", goodArgs) : x \in exports}
    \cup {start("route", x, "marked", a) : x \in {base, bad}, a \in argsGiven}
    \cup {start("benchmark", x, d, goodArgs) :
             x \in {base, bad}, d \in {"unmarked", "marked", "malformed", "missing"}}
    \cup {start("routing-server", x, "marked", goodArgs) : x \in {base, twoIslands, bad}}

-----------------------------------------------------------------------------
MCVars == <<allVars, limiterVars>>

\* The server is up and nobody but the middleware has anything to do.
Resting ==
    /\ launch.export = base /\ proc = "serving" /\ listener = "up" /\ ~signalled
    /\ accepted = {} /\ simsLive = {}
    /\ \A c \in Conns : conn[c] = "idle"
    /\ \A r \in Callers : request[r] = None

MiddlewareAsleep == now = 0 /\ status = "none"

MCNext ==
    \/ MiddlewareAsleep /\ ServerNext /\ UNCHANGED limiterVars
    \/ Resting /\ LimiterNext /\ UNCHANGED allVars

\* A command has no middleware.
MCInit == ServerInit /\ LimiterInit /\ (authEnabled => launch.program = "routing-server")

\* While the server rests none of its fair actions is enabled.
MCSpec == MCInit /\ [][MCNext]_MCVars /\ ServerFairness
=============================================================================
