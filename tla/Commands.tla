------------------------------ MODULE Commands ------------------------------
(***************************************************************************)
(* The programs of engine/cmd as processes: cmd/route answers one request   *)
(* and prints it, cmd/benchmark prints a report and refreshes a document.   *)
(* Both load an export first (GraphLoad), as does the routing server, whose *)
(* life after that is RoutingServer; "library" is a caller that only loads. *)
(***************************************************************************)
EXTENDS GraphLoad

CONSTANTS
    Launches,       \* what may be started: [program, export, docs], a route with args
    NaN             \* the number that compares with none, which a float flag may be

ASSUME LaunchesAssumption ==
    /\ NaN \notin Int
    /\ \A l \in Launches : /\ l.program \in {"route", "benchmark", "routing-server", "library"}
                           /\ l.docs \in {"unmarked", "marked", "malformed", "missing"}
                           /\ l.export \in Export /\ l.args.jamVPH \in Int \cup {NaN}

VARIABLES
    launch,
    proc,       \* "args", "load", "route", "print", "docs", "write", "return", ..., "exited"
    exit,       \* its exit code; Killed by a signal it does not handle
    stdout,     \* how much of the product is on it: "none", "part" or "whole"
    docs,       \* the document: "fresh" and "torn" besides what it was
    load        \* the congestion snapshot of a reactive router

procVars == <<launch, proc, exit, stdout, docs, load>>
commandVars == <<loadVars, procVars>>

Running == 99
Killed == 130

CommandInit ==
    /\ launch \in Launches
    /\ LoadInit({launch.export})
    /\ proc = IF launch.program = "route" THEN "args" ELSE "load"
    /\ exit = Running /\ stdout = "none" /\ docs = launch.docs /\ load = Nothing

Runs(program, at) == launch.program = program /\ proc = at

Exit(code) == proc' = "exited" /\ exit' = code

\* A signal that nothing handles ends the process where it is: SIGINT, or SIGPIPE when
\* nobody reads stdout any more.  What was being written is left as far as it was.
SignalKills ==
    /\ proc # "exited" /\ launch.program # "library"
    /\ launch.program = "routing-server" => proc = "load"
    /\ Exit(Killed)
    /\ stdout' \in IF proc = "print" THEN {"none", "part"} ELSE {stdout}
    /\ docs' \in IF proc = "write" THEN {docs, "torn"} ELSE {docs}
    /\ UNCHANGED <<loadVars, launch, load>>

\* run is over without an error, and main exits.
Return ==
    /\ launch.program \in {"route", "benchmark"} /\ proc = "return"
    /\ Exit(0)
    /\ UNCHANGED <<loadVars, launch, stdout, docs, load>>

LoadStep == proc = "load" /\ LoadNext /\ UNCHANGED procVars

LoadFailed ==
    /\ proc = "load" /\ phase = "rejected"
    /\ Exit(1)
    /\ UNCHANGED <<loadVars, launch, stdout, docs, load>>

-----------------------------------------------------------------------------
args == launch.args

\* Two fields, each the text of a number.
parseLatLon(text) == text.fields = 2 /\ text.numbers

\* The comparison vph <= 0 of two floats.
floorsToZero(vph) == vph \in Int /\ vph <= 0

\* run of cmd/route, before the load: the algorithm, a jam that would have no load,
\* the coordinates.
BadArgs ==
    \/ args.algo \notin {"naive", "reactive"}
    \/ args.algo = "reactive" /\ args.jam # {} /\ floorsToZero(args.jamVPH)
    \/ ~parseLatLon(args.from) \/ ~parseLatLon(args.to)

CheckArgs ==
    /\ Runs("route", "args")
    /\ \/ ~args.flags /\ Exit(2)
       \/ args.flags /\ BadArgs /\ Exit(1)
       \/ args.flags /\ ~BadArgs /\ proc' = "load" /\ UNCHANGED exit
    /\ UNCHANGED <<loadVars, launch, stdout, docs, load>>

\* BuildSegmentEdgeIndex.
segments == {graph.edges[e].segment : e \in DOMAIN graph.edges}
edgeOf == [s \in segments |-> CHOOSE e \in DOMAIN graph.edges : graph.edges[e].segment = s]

\* (Mutant: a jam on a segment that is not there is passed over.)
JamFailsOnFile == args.jam # {} /\ args.congestion = "file"

\* resolveJamSegment finds nothing, or a file brings its own loads.
JamFails ==
    /\ args.jam # {}
    /\ args.congestion = "file" \/ ~(args.jam \subseteq segments)

\* buildRouter; a naive router reads no congestion and none of its flags count.
\* (What a file holds is LoadStore's.)
BuildRouter ==
    /\ Runs("route", "load") /\ phase = "loaded"
    /\ IF args.algo = "reactive" /\ (JamFails \/ (args.congestion = "file" /\ ~args.fileValid))
       THEN Exit(1) /\ UNCHANGED load
       ELSE /\ load' = [e \in DOMAIN graph.edges |->
                           IF args.algo = "reactive" /\ \E s \in args.jam \cap segments : edgeOf[s] = e
                           THEN args.jamVPH ELSE 0]
            /\ proc' = "route" /\ UNCHANGED exit
    /\ UNCHANGED <<loadVars, launch, stdout, docs>>

\* Route finds a path, or that the ends are one node; or it finds none, or an edge that
\* the graph does not have.  (Which: Routers.)
FindRoute ==
    /\ Runs("route", "route")
    /\ \/ proc' = "print" /\ UNCHANGED exit
       \/ Exit(1)
    /\ UNCHANGED <<loadVars, launch, stdout, docs, load>>

\* However much of it is written: the error is dropped.
PrintRoute ==
    /\ Runs("route", "print")
    /\ stdout' \in {"none", "part", "whole"}
    /\ proc' = "return"
    /\ UNCHANGED <<loadVars, launch, exit, docs, load>>

-----------------------------------------------------------------------------
\* run of cmd/benchmark: the sweep, whose demand pairs may have no route, and the
\* report, whose writing may fail after a part of it.
Sweep ==
    /\ Runs("benchmark", "load") /\ phase = "loaded"
    /\ \/ proc' = "print" /\ UNCHANGED exit
       \/ Exit(1)
    /\ UNCHANGED <<loadVars, launch, stdout, docs, load>>

PrintReport ==
    /\ Runs("benchmark", "print")
    /\ \/ stdout' = "whole" /\ proc' = "docs" /\ UNCHANGED exit
       \/ stdout' \in {"none", "part"} /\ Exit(1)
    /\ UNCHANGED <<loadVars, launch, docs, load>>

\* The region between the markers, or a new one at the end if there is neither.
replaceMarkedRegion == docs \in {"marked", "unmarked"}

ReadDocs ==
    /\ Runs("benchmark", "docs")
    /\ IF replaceMarkedRegion THEN proc' = "write" /\ UNCHANGED exit ELSE Exit(1)
    /\ UNCHANGED <<loadVars, launch, stdout, docs, load>>

\* os.WriteFile truncates, writes and closes, and may fail at each.
WriteDocs ==
    /\ Runs("benchmark", "write")
    /\ \/ docs' = "fresh" /\ proc' = "return" /\ UNCHANGED exit
       \/ docs' \in {docs, "torn", "fresh"} /\ Exit(1)
    /\ UNCHANGED <<loadVars, launch, stdout, load>>

CommandNext ==
    \/ LoadStep \/ LoadFailed
    \/ CheckArgs \/ BuildRouter \/ FindRoute \/ PrintRoute
    \/ Sweep \/ PrintReport \/ ReadDocs \/ WriteDocs
    \/ Return

\* The library's call is over.
Idle == launch.program = "library" /\ phase \in {"loaded", "rejected"}

-----------------------------------------------------------------------------
\* A jam that was asked of a reactive route is on the edge to which the export gives
\* its segment, with a load that is not floored away.
JamsAreOn ==
    args.algo = "reactive" =>
        \A s \in args.jam : \E i \in DOMAIN features :
            /\ features[i].segment_id = s
            /\ load[features[i].edge_id] = args.jamVPH /\ ~floorsToZero(args.jamVPH)

\* Scripts go by the exit code and by what is on stdout.  A code of cmd/route's own
\* but zero: no route is on stdout, not even a part.  Zero, or anything on stdout: the
\* jams are on, "a typo cannot quietly produce the un-diverted route".  Of
\* cmd/benchmark zero means that the report is out and the document refreshed; only a
\* document whose markers are in order is refreshed, and one that is touched at all
\* has its report out.
CommandDone ==
    /\ launch.program = "route" =>
          /\ exit \in {1, 2} => stdout = "none"
          /\ exit = 0 \/ stdout # "none" => JamsAreOn
    /\ launch.program = "benchmark" =>
          /\ exit = 0 => stdout = "whole" /\ docs = "fresh"
          /\ docs = "fresh" => launch.docs \in {"marked", "unmarked"}
          /\ docs # launch.docs => stdout = "whole"
=============================================================================
