----------------------------- MODULE MCMesoSim -----------------------------
(***************************************************************************)
(* Two ways from the same origin: a short one over two edges with a        *)
(* degenerate edge between them, and a longer one over a single edge.  A   *)
(* second trip shares the last edge, a third goes nowhere, a fourth is cut *)
(* off.  The multiples of the free-flow cost are powers of two, so that    *)
(* the divisions of the model are exact.                                   *)
(***************************************************************************)
EXTENDS MesoSimOrder

MCEdges == {"a", "z", "b", "c"}

MCLength ==
    [e \in MCEdges |->
        CASE e = "a" -> 160 [] e = "z" -> 0 [] e = "b" -> 48 [] OTHER -> 64]

\* More than any demand here weighs.
MCHighLoad == 6

MCMultiple(w) == CASE w <= 1 -> 1 [] w = 2 -> 2 [] OTHER -> 4

MCCostAt ==
    [e \in MCEdges |->
        [w \in 0..MCHighLoad |->
            (IF e = "c" THEN 256 ELSE MCLength[e]) * MCMultiple(w)]]

MCPaths(r) ==
    CASE r.trip = "across" -> {<<"a", "z", "b">>, <<"c">>}
      [] r.trip = "tail"   -> {<<"z", "b", "z">>}
      [] r.trip = "stay"   -> {<<>>}
      [] OTHER             -> {}

MCRequest(t, d, w) == [trip |-> t, departAt |-> d, weight |-> w]

\* Departures at the start, between two ticks, on a tick, and after a gap long
\* enough for the road to drain.
MCRequests ==
    {MCRequest("across", d, w) : d \in {0, 70, 640}, w \in {0, 2}}
      \cup {MCRequest("tail", 0, 2), MCRequest("tail", 70, 1),
            MCRequest("stay", 128, 1), MCRequest("cutoff", 70, 1)}

MCDemands == UNION {[1..n -> MCRequests] : n \in 0..3}

\* Derived, and too small for most demands.
MCTickBudgets == {0, 2}
=============================================================================
