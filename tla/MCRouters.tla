----------------------------- MODULE MCRouters -----------------------------
(***************************************************************************)
(* Four junctions between which five simple paths lead from one corner to   *)
(* the other, two of them over a street that is driven both ways, and a     *)
(* fifth that nothing leads to.  The coordinates lie so that one query is   *)
(* nearer the pole than every junction.                                     *)
(***************************************************************************)
EXTENDS Routers

MCNodes == 0 .. 4
MCEdges == 0 .. 7
MCFrom == [e \in MCEdges |-> <<0, 0, 1, 2, 1, 2, 0, 4>>[e + 1]]
MCTo   == [e \in MCEdges |-> <<1, 2, 3, 3, 2, 1, 3, 0>>[e + 1]]
MCFreeFlow == [e \in MCEdges |-> <<1, 2, 3, 2, 1, 1, 5, 1>>[e + 1]]
MCLat == [p \in MCNodes |-> <<1, 1, 1, -2, -1>>[p + 1]]
MCLon == [p \in MCNodes |-> <<1, 3, 0, 1, 1>>[p + 1]]
MCSinSq == [a \in 0 .. 7 |-> a * a]
MCCosine == [a \in 0 .. 7 |-> <<4, 4, 4, 3, 2, 1, 1, 0>>[a + 1]]

corner == [lat |-> 1, lon |-> 1]
south == [lat |-> -3, lon |-> 1]
pole == [lat |-> -4, lon |-> 6]
west == [lat |-> 2, lon |-> -1]
MCQueries == {corner, south, pole, west}

trip(a, b, w) == [from |-> a, to |-> b, weight |-> w]
MCBatches == {<<trip(corner, south, 1)>>, <<trip(corner, pole, 1)>>, <<>>,
              <<trip(corner, south, 1), trip(corner, west, 2), trip(corner, south, 1)>>,
              <<trip(south, corner, 1), trip(corner, south, 1)>>}

\* A segment with three windows, one of them revised, and one without an edge.
message(s, w, m, c) == [seg |-> s, window |-> w, emit |-> m, count |-> c, canonical |-> TRUE]
MCEdgeOf == [s \in {"s2", "s6"} |-> IF s = "s2" THEN 2 ELSE 6]
MCFeeds == {<<message("s2", 2, 1, 1), message("s6", 1, 1, 1), message("s2", 1, 3, 5), message("s2", 2, 2, 3)>>,
            <<message("s2", 1, 1, 4), message("s2", 1, 1, 1), message("gone", 1, 1, 1)>>,
            <<message("s6", 1, 1, 2), [message("s2", 1, 1, 1) EXCEPT !.canonical = FALSE]>>}

\* Edge 2 lies in every initial slice, edge 6 beyond some.
MCWrites == {[e \in {2} |-> 2], [e \in {-1, 6, 3} |-> IF e = 3 THEN 2 ELSE 1], [e \in {2, 7} |-> -1]}
MCInitialLens == {4, 8}
=============================================================================
