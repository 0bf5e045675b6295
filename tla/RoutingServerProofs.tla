------------------------- MODULE RoutingServerProofs -------------------------
(***************************************************************************)
(* The server process and the middleware in front of it, for every set of  *)
(* launches, connections and callers, every capacity, burst and rate:      *)
(* first StreamAdmission alone, whose slots bound the runs; then that a    *)
(* server's life is a behaviour of it; what exit code zero means, for the  *)
(* server and for the commands; that the graph they load is the export and *)
(* the warning names its islands; and the rate limiter.                    *)
(***************************************************************************)
EXTENDS RoutingServer, RateLimiter, FoldLemmas, TLAPS

\* Taking a connection into or out of a finite set moves its cardinality by one.
LEMMA CardinalityMoves ==
  ASSUME NEW S, IsFiniteSet(S), NEW x
  PROVE  /\ x \notin S => Cardinality(S \cup {x}) = Cardinality(S) + 1
         /\ x \in S => Cardinality(S \ {x}) = Cardinality(S) - 1
         /\ Cardinality(S) \in Nat
BY FS_AddElement, FS_RemoveElement, FS_CardinalityType

LEMMA AdmittedFinite ==
  ASSUME TypeOK
  PROVE  IsFiniteSet(Admitted) /\ Cardinality(Admitted) \in Nat
<1>1. Admitted \subseteq Conns
  BY DEF Admitted
<1>2. IsFiniteSet(Admitted)
  BY <1>1, FS_Subset, ConnsAssumption
<1> QED
  BY <1>2, FS_CardinalityType

LEMMA InitIInv == Init => IInv
<1> SUFFICES ASSUME Init PROVE IInv
  OBVIOUS
<1>1. TypeOK
  BY CapacityAssumption DEF Init, TypeOK, ConnPC
<1>2. Admitted = {}
  BY DEF Init, Admitted
<1>3. SlotsExact
  BY <1>2, FS_EmptySet DEF Init, SlotsExact
<1> QED
  BY <1>1, <1>3 DEF Init, IInv

\* One step of one connection: a fact about where it is before and after.
LEMMA NextIInv == IInv /\ [Next]_vars => IInv'
<1> SUFFICES ASSUME IInv, [Next]_vars PROVE IInv'
  OBVIOUS
<1> USE CapacityAssumption DEF IInv, TypeOK, ConnPC, SlotsExact
<1>0. /\ IsFiniteSet(Admitted)
      /\ Cardinality(Admitted) \in Nat
  BY AdmittedFinite
<1>1. ASSUME NEW c \in Conns, Acquire(c) PROVE IInv'
  <2>1. c \notin Admitted /\ Admitted' = Admitted \cup {c}
    BY <1>1 DEF Acquire, Admitted
  <2>2. Cardinality(Admitted') = Cardinality(Admitted) + 1
    BY <1>0, <2>1, CardinalityMoves
  <2> QED
    BY <1>0, <1>1, <2>2 DEF Acquire
<1>2. ASSUME NEW c \in Conns, Release(c) PROVE IInv'
  <2>1. c \in Admitted /\ Admitted' = Admitted \ {c}
    BY <1>2 DEF Release, Admitted
  <2>2. Cardinality(Admitted') = Cardinality(Admitted) - 1
    BY <1>0, <2>1, CardinalityMoves
  <2>3. Cardinality(Admitted') \in Nat
    <3>1. IsFiniteSet(Admitted')
      BY <1>0, <2>1, FS_RemoveElement
    <3> QED
      BY <3>1, FS_CardinalityType
  <2> QED
    BY <1>0, <1>2, <2>2, <2>3 DEF Release
<1>3. ASSUME NEW c \in Conns,
             AcceptFails(c) \/ Upgrade(c) \/ Leave(c) \/ Join(c)
      PROVE  IInv'
  <2>1. Admitted' = Admitted
    BY <1>3 DEF AcceptFails, Upgrade, Leave, Join, Admitted
  <2> QED
    BY <1>3, <2>1 DEF AcceptFails, Upgrade, Leave, Join
<1>4. ASSUME NEW c \in Conns, RunReturns(c) PROVE IInv'
  <2>1. Admitted' = Admitted
    BY <1>4 DEF RunReturns, Admitted
  <2> QED
    BY <1>4, <2>1 DEF RunReturns
<1>5. CASE UNCHANGED vars
  <2>1. Admitted' = Admitted
    BY <1>5 DEF vars, Admitted
  <2> QED
    BY <1>5, <2>1 DEF vars
<1> QED
  BY <1>1, <1>2, <1>3, <1>4, <1>5 DEF Next, Server

\* The type invariant and the exact slot count hold of every reachable state.
THEOREM SlotsAlwaysExact == Spec => [](TypeOK /\ SlotsExact)
<1>1. IInv => TypeOK /\ SlotsExact
  BY DEF IInv
<1> QED
  BY <1>1, InitIInv, NextIInv, PTL DEF Spec

\* The slots bound the runs that are live, for any number of connections: a
\* connection with a live run is admitted, and the tokens count the admitted.
THEOREM RunsAlwaysBounded == Spec => []LiveRunsBounded
<1>1. IInv => LiveRunsBounded
  <2> SUFFICES ASSUME IInv PROVE LiveRunsBounded
    OBVIOUS
  <2>1. simsLive \subseteq Admitted
    BY DEF IInv, TypeOK, Admitted
  <2>2. IsFiniteSet(Admitted) /\ Cardinality(Admitted) \in Nat
    BY AdmittedFinite DEF IInv
  <2>3. Cardinality(simsLive) <= Cardinality(Admitted)
    BY <2>1, <2>2, FS_Subset
  <2>4. Cardinality(simsLive) \in Nat
    BY <2>1, <2>2, FS_Subset, FS_CardinalityType
  <2> QED
    BY <2>2, <2>3, <2>4, CapacityAssumption DEF IInv, TypeOK, SlotsExact, LiveRunsBounded
<1> QED
  BY <1>1, InitIInv, NextIInv, PTL DEF Spec

-----------------------------------------------------------------------------
(* The server's life.                                                       *)

\* What a step does to the slots is a step of the admission, or nothing: only a
\* handler that took its slot, or one that holds it, touches them.
LEMMA ServerStepAdmits == [ServerNext]_allVars => [Next]_vars
<1> SUFFICES ASSUME [ServerNext]_allVars PROVE [Next]_vars
  OBVIOUS
<1>1. CASE Command \/ Killing \/ Boot \/ Listen \/ ListenerFails \/ Signal \/ Fatal
             \/ Shutdown \/ Drained \/ DrainExpires
  BY <1>1 DEF Command, Killing, Boot, Listen, ListenerFails, Signal, Fatal, Shutdown,
              Drained, DrainExpires
<1>2. CASE \E c \in Conns : Connect(c) \/ Admit(c) \/ TurnAway(c) \/ StreamStep(c)
  BY <1>2 DEF Connect, Admit, TurnAway, StreamStep, Next
<1>3. CASE \E r \in Callers : Call(r) \/ RequestStep(r)
  BY <1>3 DEF Call, RequestStep, healthHandler, handleGraph, handleCongestion, handleRoute,
              handleCompare, resolveRoute, writeJSON, Answers, Searches, To
<1>4. CASE UNCHANGED allVars
  BY <1>4 DEF allVars
<1> QED
  BY <1>1, <1>2, <1>3, <1>4 DEF ServerNext

\* The server, with everything around its slots, is a behaviour of StreamAdmission.
THEOREM ServerImplementsAdmission == ServerSpec => Spec
<1>1. ServerInit => Init
  BY DEF ServerInit
<1> QED
  BY <1>1, ServerStepAdmits, PTL DEF ServerSpec, Spec

\* The bound on the live runs, of the whole server.
THEOREM ServerRunsBounded == ServerSpec => []LiveRunsBounded
BY ServerImplementsAdmission, RunsAlwaysBounded, PTL

\* What the process of a program does in a step: the loader moves, nothing moves, a
\* command does, or it is the server that boots, drains or ends.
LEMMA ProcessSteps ==
  ASSUME [ServerNext]_allVars
  PROVE  \/ LoadStep
         \/ UNCHANGED commandVars
         \/ LoadFailed \/ CheckArgs \/ BuildRouter \/ FindRoute \/ PrintRoute
         \/ Sweep \/ PrintReport \/ ReadDocs \/ WriteDocs \/ Return
         \/ SignalKills
         \/ /\ launch.program = "routing-server" \/ proc \in {"serving", "draining"}
            /\ UNCHANGED <<loadVars, launch, stdout, docs, load>>
<1>1. CASE Command \/ Killing
  BY <1>1 DEF Command, CommandNext, Killing
<1>2. CASE Boot \/ Fatal \/ Shutdown \/ Drained \/ DrainExpires
  BY <1>2 DEF Boot, Runs, Fatal, Shutdown, Drained, DrainExpires
<1>3. CASE Listen \/ ListenerFails \/ Signal
  BY <1>3 DEF Listen, ListenerFails, Signal
<1>4. CASE \E c \in Conns : Connect(c) \/ Admit(c) \/ TurnAway(c) \/ StreamStep(c)
  BY <1>4 DEF Connect, Admit, TurnAway, StreamStep
<1>5. CASE \E r \in Callers : Call(r) \/ RequestStep(r)
  BY <1>5 DEF Call, RequestStep, healthHandler, handleGraph, handleCongestion, handleRoute,
              handleCompare, resolveRoute, writeJSON, Answers, Searches, To
<1>6. CASE UNCHANGED allVars
  BY <1>6 DEF allVars
<1> QED
  BY <1>1, <1>2, <1>3, <1>4, <1>5, <1>6 DEF ServerNext

\* Nothing changes the launch, the export or the arguments.
LEMMA LaunchStays ==
  ASSUME [ServerNext]_allVars
  PROVE  UNCHANGED <<launch, export>>
<1>1. CASE LoadStep
  BY <1>1 DEF LoadStep, LoadNext, Open, AddRow, RejectRow, Build, Warn, procVars
<1>2. CASE ~LoadStep
  BY <1>2, ProcessSteps DEF LoadFailed, CheckArgs, BuildRouter, FindRoute, PrintRoute,
       Sweep, PrintReport, ReadDocs, WriteDocs, Return, SignalKills, commandVars, procVars, loadVars
<1> QED
  BY <1>1, <1>2

\* A connection with a live run was upgraded, and is not closed before the run is over.
StreamsInv ==
  /\ accepted \subseteq Conns /\ hijacked \subseteq Conns
  /\ request \in [Callers -> [at : {"none", "accepted", "routing", "answer"}, left : 0 .. 2]]
  /\ \A c \in Conns : conn[c] \in {"live", "joining"} => c \in hijacked

\* The server ends by a kill while it loads, by a fatal error, or by way of the drain.
LifeInv ==
  launch.program = "routing-server" =>
    /\ proc \in {"load", "serving", "draining", "exited"}
    /\ proc # "exited" => exit = Running
    /\ proc \in {"load", "serving"} => ~expired
    /\ proc = "draining" => signalled

ServerInv == IInv /\ StreamsInv /\ LifeInv /\ ServerDone

LEMMA InitServerInv == ServerInit => ServerInv
<1> SUFFICES ASSUME ServerInit PROVE ServerInv
  OBVIOUS
<1>1. IInv
  BY InitIInv DEF ServerInit
<1>2. StreamsInv
  BY DEF ServerInit, Init, StreamsInv, None
<1>3. LifeInv /\ ServerDone
  BY DEF ServerInit, CommandInit, LifeInv, ServerDone, Running
<1> QED
  BY <1>1, <1>2, <1>3 DEF ServerInv

LEMMA NextStreamsInv == ServerInv /\ [ServerNext]_allVars => StreamsInv'
<1> SUFFICES ASSUME ServerInv, [ServerNext]_allVars PROVE StreamsInv'
  OBVIOUS
<1> USE DEF ServerInv, StreamsInv, IInv, TypeOK
<1>1. CASE Command \/ Killing \/ Boot \/ Listen \/ ListenerFails \/ Signal \/ Fatal
             \/ Shutdown \/ Drained \/ DrainExpires
  BY <1>1 DEF Command, Killing, Boot, Listen, ListenerFails, Signal, Fatal, Shutdown,
              Drained, DrainExpires, vars, httpVars
<1>2. ASSUME NEW c \in Conns, Connect(c) \/ TurnAway(c) PROVE StreamsInv'
  BY <1>2 DEF Connect, TurnAway, vars
<1>3. ASSUME NEW c \in Conns, Admit(c) PROVE StreamsInv'
  BY <1>3 DEF Admit, Acquire
<1>4. ASSUME NEW c \in Conns, StreamStep(c) PROVE StreamsInv'
  <2>1. CASE AcceptFails(c) \/ Upgrade(c) \/ Leave(c) \/ Join(c) \/ Release(c)
    BY <1>4, <2>1 DEF StreamStep, AcceptFails, Upgrade, Leave, Join, Release
  <2>2. CASE RunReturns(c)
    BY <1>4, <2>2 DEF StreamStep, RunReturns
  <2> QED
    BY <1>4, <2>1, <2>2 DEF StreamStep, Server
<1>5. ASSUME NEW r \in Callers, Call(r) \/ RequestStep(r) PROVE StreamsInv'
  BY <1>5 DEF Call, RequestStep, healthHandler, handleGraph, handleCongestion, handleRoute,
              handleCompare, resolveRoute, writeJSON, Answers, Searches, To, vars
<1>6. CASE UNCHANGED allVars
  BY <1>6 DEF allVars, vars, httpVars
<1> QED
  BY <1>1, <1>2, <1>3, <1>4, <1>5, <1>6 DEF ServerNext

LEMMA NextLifeInv == ServerInv /\ [ServerNext]_allVars => LifeInv' /\ ServerDone'
<1> SUFFICES ASSUME ServerInv, [ServerNext]_allVars,
                    launch.program = "routing-server" \/ launch'.program = "routing-server"
             PROVE  LifeInv' /\ ServerDone'
  BY DEF LifeInv, ServerDone
<1> USE DEF ServerInv, LifeInv, ServerDone, Running, Killed, Exit
<1>0. launch' = launch
  BY LaunchStays
<1>1. CASE Command
  <2>1. UNCHANGED <<vars, serverVars, httpVars>>
    BY <1>1 DEF Command
  <2>2. (LoadStep /\ UNCHANGED <<proc, exit>>) \/ (LoadFailed /\ proc' = "exited" /\ exit' = 1)
    BY <1>0, <1>1 DEF Command, CommandNext, LoadStep, LoadFailed, CheckArgs, BuildRouter,
         FindRoute, PrintRoute, Sweep, PrintReport, ReadDocs, WriteDocs, Return, Runs, procVars
  <2> QED
    BY <1>0, <2>1, <2>2 DEF LoadStep, LoadFailed, vars, serverVars, httpVars
<1>2. CASE Killing
  BY <1>0, <1>2 DEF Killing, SignalKills, vars, serverVars, httpVars
<1>3. CASE Boot \/ Listen \/ ListenerFails \/ Signal \/ Fatal \/ Shutdown
  BY <1>0, <1>3 DEF Boot, Listen, ListenerFails, Signal, Fatal, Shutdown, Runs, Alive,
                    commandVars, procVars, vars, serverVars, httpVars
<1>4. CASE Drained
  <2>1. simsLive \subseteq hijacked
    BY DEF IInv, TypeOK, StreamsInv
  <2> QED
    BY <1>0, <1>4, <2>1 DEF Drained, Quiet, Admitted, vars, serverVars, httpVars
<1>5. CASE DrainExpires
  BY <1>0, <1>5 DEF DrainExpires
<1>6. CASE \E c \in Conns : Connect(c) \/ Admit(c) \/ TurnAway(c) \/ StreamStep(c)
  BY <1>0, <1>6 DEF Connect, Admit, TurnAway, StreamStep, Alive, commandVars, procVars,
                    serverVars
<1>7. CASE \E r \in Callers : Call(r) \/ RequestStep(r)
  BY <1>0, <1>7 DEF Call, RequestStep, healthHandler, handleGraph, handleCongestion,
         handleRoute, handleCompare, resolveRoute, writeJSON, Answers, Searches, To, Alive,
         commandVars, procVars, serverVars
<1>8. CASE UNCHANGED allVars
  BY <1>0, <1>8 DEF allVars, commandVars, procVars, vars, serverVars, httpVars
<1> QED
  BY <1>1, <1>2, <1>3, <1>4, <1>5, <1>6, <1>7, <1>8 DEF ServerNext

-----------------------------------------------------------------------------
(* The commands.                                                            *)

\* Every edge of the graph is a row of the export, in its place.
RowsInv ==
  /\ export \in Export /\ row \in Nat
  /\ \A e \in DOMAIN placed : \E i \in DOMAIN features :
        placed[e] = features[i] /\ features[i].edge_id = e
  /\ phase \in {"warn", "loaded"} =>
        /\ DOMAIN graph.edges = DOMAIN placed
        /\ \A e \in DOMAIN placed : graph.edges[e].segment = placed[e].segment_id

\* Nothing is written before every check that can fail is passed.
RouteInv ==
  launch.program = "route" =>
    /\ proc \in {"args", "load", "route", "print", "return", "exited"}
    /\ proc # "exited" => exit = Running
    /\ proc \in {"args", "load", "route", "print"} \/ exit \in {1, 2} => stdout = "none"
    /\ proc \in {"load", "route"} => ~BadArgs
    /\ proc \in {"route", "print", "return"} \/ exit = 0 \/ stdout # "none" => JamsAreOn

\* The document is touched only after the report is out, and only if its markers allow.
BenchmarkInv ==
  launch.program = "benchmark" =>
    /\ proc \in {"load", "print", "docs", "write", "return", "exited"}
    /\ proc # "exited" => exit = Running
    /\ proc \notin {"return", "exited"} => docs = launch.docs
    /\ proc \in {"docs", "write", "return"} => stdout = "whole"
    /\ proc = "write" => docs \in {"marked", "unmarked"}
    /\ proc = "return" => docs = "fresh"
    /\ exit = 0 => stdout = "whole" /\ docs = "fresh"
    /\ docs # launch.docs => stdout = "whole" /\ launch.docs \in {"marked", "unmarked"}

CommandInv == launch \in Launches /\ RowsInv /\ RouteInv /\ BenchmarkInv

LEMMA InitCommandInv == CommandInit => CommandInv
<1> SUFFICES ASSUME CommandInit PROVE CommandInv
  OBVIOUS
<1>1. launch \in Launches /\ launch.export \in Export
  BY LaunchesAssumption DEF CommandInit
<1>2. RowsInv
  BY <1>1 DEF CommandInit, LoadInit, RowsInv, Nothing
<1>3. RouteInv /\ BenchmarkInv
  BY DEF CommandInit, RouteInv, BenchmarkInv, Running
<1> QED
  BY <1>1, <1>2, <1>3 DEF CommandInit, CommandInv

LEMMA CommandInvPromises == CommandInv => CommandDone
BY LaunchesAssumption DEF CommandInv, CommandDone, RouteInv, BenchmarkInv, Running

LEMMA LoadNextRows == CommandInv /\ LoadNext => RowsInv'
<1> SUFFICES ASSUME CommandInv, LoadNext PROVE RowsInv'
  OBVIOUS
<1> USE DEF CommandInv, RowsInv, features
<1>1. CASE Open
  BY <1>1 DEF Open
<1>2. CASE AddRow
  <2> DEFINE f == features[row + 1]
  <2>1. row + 1 \in DOMAIN features
    <3>1. features \in Seq(Row)
      BY DEF Export
    <3> QED
      BY <1>2, <3>1 DEF AddRow
  <2>2. /\ placed' = Put(placed, f.edge_id, f) /\ f.edge_id \notin DOMAIN placed
        /\ UNCHANGED <<export, graph>> /\ phase' = "rows" /\ row' = row + 1
    BY <1>2 DEF AddRow, Accepted
  <2>3. /\ DOMAIN placed' = DOMAIN placed \cup {f.edge_id}
        /\ \A e \in DOMAIN placed : placed'[e] = placed[e]
        /\ placed'[f.edge_id] = f
    BY <2>2 DEF Put
  <2> QED
    BY <2>1, <2>2, <2>3
<1>3. CASE RejectRow
  BY <1>3 DEF RejectRow, Nothing
<1>4. CASE Build
  BY <1>4 DEF Build, assembled
<1>5. CASE Warn
  BY <1>5 DEF Warn
<1> QED
  BY <1>1, <1>2, <1>3, <1>4, <1>5 DEF LoadNext

\* The steps that leave the loader alone, and those of the loader, keep the rows.
LEMMA NextRowsInv == CommandInv /\ [ServerNext]_allVars => RowsInv'
<1> SUFFICES ASSUME CommandInv, [ServerNext]_allVars PROVE RowsInv'
  OBVIOUS
<1>1. CASE LoadNext
  BY <1>1, LoadNextRows
<1>2. CASE UNCHANGED loadVars
  BY <1>2 DEF loadVars, CommandInv, RowsInv, features
<1>3. LoadNext \/ UNCHANGED loadVars
  BY ProcessSteps DEF LoadStep, LoadFailed, CheckArgs, BuildRouter, FindRoute, PrintRoute,
                      Sweep, PrintReport, ReadDocs, WriteDocs, Return, SignalKills, commandVars
<1> QED
  BY <1>1, <1>2, <1>3

\* A reactive router that was built has every jam on the edge of its segment.
LEMMA BuiltJams ==
  ASSUME CommandInv, launch.program = "route", BuildRouter, proc' = "route"
  PROVE  JamsAreOn'
<1> USE DEF CommandInv, BuildRouter, RowsInv, Runs
<1>1. args' = args /\ features' = features
  BY DEF args, features, loadVars
<1> SUFFICES ASSUME args.algo = "reactive", NEW s \in args.jam
             PROVE  \E i \in DOMAIN features :
                       /\ features[i].segment_id = s
                       /\ load'[features[i].edge_id] = args.jamVPH /\ ~floorsToZero(args.jamVPH)
  BY <1>1 DEF JamsAreOn, floorsToZero
<1>2. args.jam \subseteq segments
  BY DEF JamFails, Exit
<1>3. load' = [e \in DOMAIN graph.edges |->
                  IF args.algo = "reactive" /\ \E t \in args.jam \cap segments : edgeOf[t] = e
                  THEN args.jamVPH ELSE 0]
  BY DEF Exit
<1>4. ~floorsToZero(args.jamVPH)
  BY DEF RouteInv, BadArgs
<1>5. edgeOf[s] \in DOMAIN graph.edges /\ graph.edges[edgeOf[s]].segment = s
  BY <1>2 DEF segments, edgeOf
<1>6. load'[edgeOf[s]] = args.jamVPH
  BY <1>2, <1>3, <1>5
<1>7. PICK i \in DOMAIN features : placed[edgeOf[s]] = features[i] /\ features[i].edge_id = edgeOf[s]
  BY <1>5
<1>8. features[i].segment_id = s
  BY <1>5, <1>7
<1> QED
  BY <1>4, <1>6, <1>7, <1>8

LEMMA NextRouteInv == CommandInv /\ [ServerNext]_allVars => RouteInv'
<1> SUFFICES ASSUME CommandInv, [ServerNext]_allVars,
                    launch.program = "route" \/ launch'.program = "route"
             PROVE  RouteInv'
  BY DEF RouteInv
<1> USE DEF CommandInv, RouteInv, Running, Killed, Exit
<1>0. /\ launch' = launch /\ launch.program = "route"
      /\ args' = args /\ BadArgs' = BadArgs
      /\ load' = load => JamsAreOn' = JamsAreOn
  <2>1. UNCHANGED <<launch, export>>
    BY LaunchStays
  <2>2. args' = args /\ features' = features
    BY <2>1 DEF args, features
  <2>3. BadArgs' = BadArgs
    BY <2>2 DEF BadArgs, parseLatLon, floorsToZero
  <2>4. load' = load => JamsAreOn' = JamsAreOn
    BY <2>2 DEF JamsAreOn, floorsToZero
  <2> QED
    BY <2>1, <2>2, <2>3, <2>4
<1>1. CASE UNCHANGED procVars
  BY <1>0, <1>1 DEF procVars
<1>2. CASE LoadFailed \/ CheckArgs \/ FindRoute \/ PrintRoute \/ Return \/ SignalKills
  BY <1>0, <1>2 DEF LoadFailed, CheckArgs, FindRoute, PrintRoute, Return, SignalKills, Runs
<1>3. CASE BuildRouter
  BY <1>0, <1>3, BuiltJams DEF BuildRouter, Runs
<1>4. UNCHANGED procVars \/ LoadFailed \/ CheckArgs \/ BuildRouter \/ FindRoute \/ PrintRoute
        \/ Return \/ SignalKills
  BY <1>0, ProcessSteps DEF LoadStep, Sweep, PrintReport, ReadDocs, WriteDocs, Runs, commandVars
<1> QED
  BY <1>1, <1>2, <1>3, <1>4

LEMMA NextBenchmarkInv == CommandInv /\ [ServerNext]_allVars => BenchmarkInv' /\ launch' = launch
<1> SUFFICES ASSUME CommandInv, [ServerNext]_allVars PROVE BenchmarkInv' /\ launch' = launch
  OBVIOUS
<1> USE DEF CommandInv, BenchmarkInv, Running, Killed, Exit
<1>0. launch' = launch
  BY LaunchStays
<1> SUFFICES ASSUME launch.program = "benchmark" PROVE BenchmarkInv'
  BY <1>0
<1>1. CASE UNCHANGED procVars
  BY <1>0, <1>1 DEF procVars
<1>2. CASE LoadFailed \/ Sweep \/ PrintReport \/ Return \/ SignalKills
  BY <1>0, <1>2, LaunchesAssumption DEF LoadFailed, Sweep, PrintReport, Return, SignalKills, Runs
<1>3. CASE ReadDocs \/ WriteDocs
  BY <1>0, <1>3, LaunchesAssumption DEF ReadDocs, WriteDocs, Runs, replaceMarkedRegion
<1>4. UNCHANGED procVars \/ LoadFailed \/ Sweep \/ PrintReport \/ ReadDocs \/ WriteDocs
        \/ Return \/ SignalKills
  BY <1>0, ProcessSteps DEF LoadStep, CheckArgs, BuildRouter, FindRoute, PrintRoute, Runs, commandVars
<1> QED
  BY <1>1, <1>2, <1>3, <1>4

\* Of every program and whatever ends it: its exit code and its output can be trusted,
\* as far as CommandDone and ServerDone say.
THEOREM ExitCodesTellTheTruth == ServerSpec => []ExitCodesTell
<1>1. ServerInit => ServerInv /\ CommandInv
  BY InitServerInv, InitCommandInv DEF ServerInit
<1>2. ServerInv /\ CommandInv /\ [ServerNext]_allVars => ServerInv' /\ CommandInv'
  <2>1. ServerInv /\ [ServerNext]_allVars => IInv'
    BY ServerStepAdmits, NextIInv DEF ServerInv
  <2> QED
    BY <2>1, NextStreamsInv, NextLifeInv, NextRowsInv, NextRouteInv, NextBenchmarkInv
       DEF ServerInv, CommandInv
<1>3. ServerInv /\ CommandInv => ExitCodesTell
  BY CommandInvPromises DEF ServerInv, ExitCodesTell
<1> QED
  BY <1>1, <1>2, <1>3, PTL DEF ServerSpec

-----------------------------------------------------------------------------
(* Counting: sets in order, and numbers that have no room to be missed.     *)

\* R is a strict total order on S.
Orders(R, S) ==
    /\ \A x \in S : <<x, x>> \notin R
    /\ \A x, y \in S : x # y => <<x, y>> \in R \/ <<y, x>> \in R
    /\ \A x, y, z \in S : <<x, y>> \in R /\ <<y, z>> \in R => <<x, z>> \in R

Before(R, S, x) == {y \in S : <<y, x>> \in R}
Rank(R, S, x) == Cardinality(Before(R, S, x))

\* How many members come before it tells where a member comes, and no place is empty.
LEMMA RankPlaces ==
  ASSUME NEW S, IsFiniteSet(S), NEW R, Orders(R, S)
  PROVE  /\ \A x \in S : Rank(R, S, x) \in 0 .. (Cardinality(S) - 1)
         /\ \A x, y \in S : <<x, y>> \in R <=> Rank(R, S, x) < Rank(R, S, y)
         /\ \A x, y \in S : Rank(R, S, x) = Rank(R, S, y) => x = y
         /\ \A n \in 0 .. (Cardinality(S) - 1) : \E x \in S : Rank(R, S, x) = n
<1>0. \A T \in SUBSET S : IsFiniteSet(T) /\ Cardinality(T) \in Nat
  BY FS_Subset, FS_CardinalityType
<1>1. ASSUME NEW x \in S, NEW T \in SUBSET S, Before(R, S, x) \subseteq T, x \in T
      PROVE  Rank(R, S, x) < Cardinality(T)
  <2>1. x \notin Before(R, S, x)
    BY DEF Orders, Before
  <2>2. IsFiniteSet(T) /\ Cardinality(T) \in Nat /\ Before(R, S, x) \in SUBSET T
    BY <1>0, <1>1
  <2>3. Cardinality(Before(R, S, x)) <= Cardinality(T)
    BY <2>2, FS_Subset
  <2>4. Cardinality(Before(R, S, x)) # Cardinality(T)
    BY <1>1, <2>1, <2>2, FS_Subset
  <2>5. Cardinality(Before(R, S, x)) \in Nat
    BY <1>0 DEF Before
  <2> QED
    BY <2>2, <2>3, <2>4, <2>5 DEF Rank
<1>2. ASSUME NEW x \in S PROVE Rank(R, S, x) \in 0 .. (Cardinality(S) - 1)
  <2>1. Rank(R, S, x) \in Nat /\ Cardinality(S) \in Nat
    BY <1>0 DEF Rank, Before
  <2>2. Rank(R, S, x) < Cardinality(S)
    BY <1>1 DEF Before
  <2> QED
    BY <2>1, <2>2
<1>3. ASSUME NEW x \in S, NEW y \in S, <<x, y>> \in R PROVE Rank(R, S, x) < Rank(R, S, y)
  <2>1. Before(R, S, y) \in SUBSET S /\ x \in Before(R, S, y)
    BY <1>3 DEF Before
  <2>2. Before(R, S, x) \subseteq Before(R, S, y)
    BY <1>3 DEF Before, Orders
  <2> QED
    BY <1>1, <2>1, <2>2 DEF Rank
<1>4. \A x, y \in S : <<x, y>> \in R <=> Rank(R, S, x) < Rank(R, S, y)
  <2> SUFFICES ASSUME NEW x \in S, NEW y \in S, Rank(R, S, x) < Rank(R, S, y)
               PROVE  <<x, y>> \in R
    BY <1>3
  <2>1. Rank(R, S, x) \in Int /\ Rank(R, S, y) \in Int
    BY <1>2
  <2>2. x # y /\ <<y, x>> \notin R
    BY <1>3, <2>1
  <2> QED
    BY <2>2 DEF Orders
<1>5. \A x, y \in S : Rank(R, S, x) = Rank(R, S, y) => x = y
  <2> SUFFICES ASSUME NEW x \in S, NEW y \in S, Rank(R, S, x) = Rank(R, S, y), x # y
               PROVE  FALSE
    OBVIOUS
  <2>1. Rank(R, S, x) \in Int
    BY <1>2
  <2> QED
    BY <1>4, <2>1 DEF Orders
<1>6. \A n \in 0 .. (Cardinality(S) - 1) : \E x \in S : Rank(R, S, x) = n
  <2> DEFINE N == 0 .. (Cardinality(S) - 1)
             f == [x \in S |-> Rank(R, S, x)]
  <2>1. f \in Injection(S, N)
    BY <1>2, <1>5 DEF Injection, IsInjective
  <2>2. IsFiniteSet(N) /\ Cardinality(N) = Cardinality(S)
    <3>1. Cardinality(S) \in Nat
      BY <1>0
    <3>2. 0 \in Int /\ Cardinality(S) - 1 \in Int
      BY <3>1
    <3> QED
      BY <3>1, <3>2, FS_Interval
  <2> HIDE DEF f, N
  <2>3. f \in Surjection(S, N)
    BY <2>1, <2>2, FS_Injection
  <2> USE DEF f
  <2> QED
    BY <2>3 DEF Surjection, N
<1> QED
  BY <1>2, <1>4, <1>5, <1>6

Ascending(S) == {p \in S \X S : p[1] < p[2]}

LEMMA NumbersOrdered == ASSUME NEW S, S \subseteq Int PROVE Orders(Ascending(S), S)
BY DEF Orders, Ascending

\* N numbers below N: they are all there if and only if none is there twice.
LEMMA NoneMissed ==
  ASSUME NEW N \in Nat, NEW f \in [1 .. N -> 0 .. (N - 1)]
  PROVE  (\A i, j \in 1 .. N : f[i] = f[j] => i = j) <=> (\A n \in 0 .. (N - 1) : \E i \in 1 .. N : f[i] = n)
<1> DEFINE S == 1 .. N
           T == 0 .. (N - 1)
<1>1. IsFiniteSet(S) /\ IsFiniteSet(T) /\ Cardinality(S) = Cardinality(T)
  <2>1. 0 \in Int /\ 1 \in Int /\ N \in Int /\ N - 1 \in Int
    OBVIOUS
  <2> QED
    BY <2>1, FS_Interval
<1> HIDE DEF S, T
<1>2. f \in [S -> T]
  BY DEF S, T
<1>3. f \in Injection(S, T) => f \in Surjection(S, T)
  BY <1>1, FS_Injection
<1>4. f \in Surjection(S, T) => f \in Injection(S, T)
  BY <1>1, FS_SurjSameCardinalityImpliesInj
<1>5. f \in Injection(S, T) <=> \A i, j \in S : f[i] = f[j] => i = j
  BY <1>2 DEF Injection, IsInjective
<1>6. f \in Surjection(S, T) <=> \A n \in T : \E i \in S : f[i] = n
  BY <1>2 DEF Surjection
<1>7. (\A i, j \in S : f[i] = f[j] => i = j) <=> (\A n \in T : \E i \in S : f[i] = n)
  BY <1>3, <1>4, <1>5, <1>6
<1> QED
  BY <1>7 DEF S, T

-----------------------------------------------------------------------------
(* The adjacency of adjacency.go: edges grouped by their nodes.             *)

\* Edge e leaves node from[e].
Sources(m, N, from) == m \in Nat /\ N \in Nat /\ from \in [0 .. (m - 1) -> 0 .. (N - 1)]

Group(from, n) == {e \in DOMAIN from : from[e] = n}
Under(from, n) == {e \in DOMAIN from : from[e] < n}

LEMMA EdgesFinite ==
  ASSUME NEW m, NEW N, NEW from, Sources(m, N, from)
  PROVE  /\ DOMAIN from = 0 .. (m - 1) /\ IsFiniteSet(DOMAIN from) /\ Cardinality(DOMAIN from) = m
         /\ \A T \in SUBSET DOMAIN from : IsFiniteSet(T) /\ Cardinality(T) \in Nat
<1>1. DOMAIN from = 0 .. (m - 1) /\ m \in Nat
  BY DEF Sources
<1>2. IsFiniteSet(0 .. (m - 1)) /\ Cardinality(0 .. (m - 1)) = m
  <2>1. 0 \in Int /\ m - 1 \in Int
    BY <1>1
  <2> QED
    BY <1>1, <2>1, FS_Interval
<1>3. IsFiniteSet(DOMAIN from)
  BY <1>1, <1>2
<1> QED
  BY <1>1, <1>2, <1>3, FS_Subset, FS_CardinalityType

LEMMA OffsetsRecur ==
  ASSUME NEW m, NEW N, NEW from, Sources(m, N, from), NEW o, o = outOffsets(N, from)
  PROVE  /\ DOMAIN o = 0 .. N
         /\ \A n \in 0 .. N : o[n] = IF n = 0 THEN 0 ELSE o[n - 1] + Cardinality(Group(from, n - 1))
<1> DEFINE count(n) == Cardinality(Group(from, n - 1))
           g == [n \in 1 .. N |-> [y \in Int |-> y + count(n)]]
<1>0. N \in Nat /\ 0 \in Int
  BY DEF Sources
<1>1. \A n \in 1 .. N : count(n) \in Int
  BY EdgesFinite DEF Group
<1> HIDE DEF count
<1>2. g \in [1 .. N -> [Int -> Int]]
  BY <1>1
<1>3. PICK f \in [0 .. N -> Int] : \A n \in 0 .. N : f[n] = IF n = 0 THEN 0 ELSE g[n][f[n - 1]]
  <2> HIDE DEF g
  <2>1. PICK f \in [0 .. N -> Int] : IteratesUpto(N, f, 0, g)
    BY <1>0, <1>2, UptoRecursion
  <2> QED
    BY <2>1 DEF IteratesUpto
<1>4. \A n \in 0 .. N : f[n] = IF n = 0 THEN 0 ELSE f[n - 1] + count(n)
  <2> SUFFICES ASSUME NEW n \in 0 .. N, n # 0 PROVE f[n] = f[n - 1] + count(n)
    BY <1>3
  <2>1. n \in 1 .. N /\ n - 1 \in 0 .. N
    BY <1>0
  <2> QED
    BY <1>3, <2>1
<1>5. f = [n \in 0 .. N |-> IF n = 0 THEN 0 ELSE f[n - 1] + count(n)]
  <2>1. f = [n \in 0 .. N |-> f[n]]
    BY <1>3
  <2> QED
    BY <1>4, <2>1
<1> DEFINE w == CHOOSE w : w = [n \in 0 .. N |-> IF n = 0 THEN 0 ELSE w[n - 1] + count(n)]
<1>6. w = [n \in 0 .. N |-> IF n = 0 THEN 0 ELSE w[n - 1] + count(n)]
  BY <1>5
<1>7. o = w
  BY DEF outOffsets, count, Group
<1> HIDE DEF w
<1> QED
  BY <1>6, <1>7 DEF count

\* The sums are the numbers of edges of the nodes before.
LEMMA OffsetsCount ==
  ASSUME NEW m, NEW N, NEW from, Sources(m, N, from), NEW o, o = outOffsets(N, from)
  PROVE  \A n \in 0 .. N : o[n] = Cardinality(Under(from, n))
<1> DEFINE I == {n \in Nat : n <= N => o[n] = Cardinality(Under(from, n))}
<1>0. N \in Nat
  BY DEF Sources
<1>1. 0 \in I
  <2>1. Under(from, 0) = {}
    BY DEF Under, Sources
  <2>2. 0 \in 0 .. N /\ o[0] = 0
    BY <1>0, OffsetsRecur
  <2> QED
    BY <2>1, <2>2, FS_EmptySet
<1>2. ASSUME NEW n \in Nat, n \in I PROVE n + 1 \in I
  <2> SUFFICES ASSUME n + 1 <= N PROVE o[n + 1] = Cardinality(Under(from, n + 1))
    OBVIOUS
  <2>1. n + 1 \in 0 .. N /\ n + 1 # 0 /\ (n + 1) - 1 = n
    BY <1>0
  <2>2. o[n + 1] = o[n] + Cardinality(Group(from, n))
    BY <2>1, OffsetsRecur
  <2>3. o[n] = Cardinality(Under(from, n))
    BY <1>2, <1>0
  <2>4. Under(from, n + 1) = Under(from, n) \cup Group(from, n) /\ Under(from, n) \cap Group(from, n) = {}
    <3>1. \A e \in DOMAIN from : from[e] \in Int
      BY DEF Sources
    <3> QED
      BY <3>1 DEF Under, Group
  <2>5. /\ IsFiniteSet(Under(from, n)) /\ IsFiniteSet(Group(from, n))
        /\ Cardinality(Under(from, n)) \in Nat /\ Cardinality(Group(from, n)) \in Nat
    BY EdgesFinite DEF Under, Group
  <2>6. Cardinality(Under(from, n + 1)) = Cardinality(Under(from, n)) + Cardinality(Group(from, n)) - Cardinality({})
    BY <2>4, <2>5, FS_Union
  <2> QED
    BY <2>2, <2>3, <2>5, <2>6, FS_EmptySet
<1>3. Nat \subseteq I
  <2> HIDE DEF I
  <2> QED
    BY <1>1, <1>2, NatSetInduction
<1> QED
  BY <1>0, <1>3

\* By node first, and then by number.
ByNode(from) ==
    {p \in (DOMAIN from) \X (DOMAIN from) :
        from[p[1]] < from[p[2]] \/ (from[p[1]] = from[p[2]] /\ p[1] < p[2])}

\* Where edge e belongs.
Place(from, e) == Rank(ByNode(from), DOMAIN from, e)

Earlier(from, e) == {d \in DOMAIN from : from[d] = from[e] /\ d < e}

LEMMA PlacesOfEdges ==
  ASSUME NEW m, NEW N, NEW from, Sources(m, N, from), NEW o, o = outOffsets(N, from)
  PROVE  /\ \A e \in DOMAIN from :
               /\ Place(from, e) \in 0 .. (m - 1)
               /\ Place(from, e) = o[from[e]] + Cardinality(Earlier(from, e))
               /\ o[from[e]] <= Place(from, e) /\ Place(from, e) < o[from[e] + 1]
         /\ \A d, e \in DOMAIN from : Place(from, d) = Place(from, e) => d = e
         /\ \A d, e \in DOMAIN from : Place(from, d) < Place(from, e) <=> <<d, e>> \in ByNode(from)
         /\ \A i \in 0 .. (m - 1) : \E e \in DOMAIN from : Place(from, e) = i
         /\ \A n \in 0 .. N : o[n] \in 0 .. m
         /\ \A n, k \in 0 .. N : n <= k => o[n] <= o[k]
<1> DEFINE E == DOMAIN from
<1>0. /\ m \in Nat /\ N \in Nat /\ E = 0 .. (m - 1) /\ IsFiniteSet(E) /\ Cardinality(E) = m
      /\ \A T \in SUBSET E : IsFiniteSet(T) /\ Cardinality(T) \in Nat
  BY EdgesFinite DEF Sources
<1>a. \A e \in E : e \in Int /\ from[e] \in Int /\ from[e] \in 0 .. (N - 1) /\ from[e] \in 0 .. N
  <2> HIDE DEF E
  <2>1. from \in [E -> 0 .. (N - 1)]
    BY <1>0 DEF Sources
  <2> QED
    BY <1>0, <2>1
<1>b. \A d, e : <<d, e>> \in ByNode(from) <=>
                   d \in E /\ e \in E /\ (from[d] < from[e] \/ (from[d] = from[e] /\ d < e))
  BY DEF ByNode
<1>1. Orders(ByNode(from), E)
  BY <1>a, <1>b DEF Orders
<1>2. ASSUME NEW e \in E
      PROVE  Place(from, e) = o[from[e]] + Cardinality(Earlier(from, e))
  <2>1. Before(ByNode(from), E, e) = Under(from, from[e]) \cup Earlier(from, e)
    BY <1>a, <1>b DEF Before, Under, Earlier
  <2>2. Under(from, from[e]) \cap Earlier(from, e) = {}
    BY <1>a DEF Under, Earlier
  <2>3. /\ IsFiniteSet(Under(from, from[e])) /\ Cardinality(Under(from, from[e])) \in Nat
        /\ IsFiniteSet(Earlier(from, e)) /\ Cardinality(Earlier(from, e)) \in Nat
    BY <1>0 DEF Under, Earlier
  <2>4. Cardinality(Under(from, from[e]) \cup Earlier(from, e)) =
           Cardinality(Under(from, from[e])) + Cardinality(Earlier(from, e)) - Cardinality({})
    BY <2>2, <2>3, FS_Union
  <2>5. o[from[e]] = Cardinality(Under(from, from[e]))
    <3>1. from[e] \in 0 .. N
      BY <1>a
    <3> QED
      BY <3>1, OffsetsCount
  <2>6. Place(from, e) = Cardinality(Under(from, from[e]) \cup Earlier(from, e))
    BY <2>1 DEF Place, Rank
  <2>7. Cardinality({}) = 0
    BY FS_EmptySet
  <2> QED
    BY <2>3, <2>4, <2>5, <2>6, <2>7
<1>3. ASSUME NEW e \in E
      PROVE  o[from[e]] <= Place(from, e) /\ Place(from, e) < o[from[e] + 1]
  <2>1. from[e] \in 0 .. N /\ from[e] + 1 \in 0 .. N /\ from[e] + 1 # 0 /\ (from[e] + 1) - 1 = from[e]
    BY <1>0, <1>a
  <2>2. o[from[e] + 1] = o[from[e]] + Cardinality(Group(from, from[e]))
    BY <2>1, OffsetsRecur
  <2>3. o[from[e]] \in Nat
    <3>1. o[from[e]] = Cardinality(Under(from, from[e]))
      BY <2>1, OffsetsCount
    <3>2. Under(from, from[e]) \in SUBSET E
      BY DEF Under
    <3> QED
      BY <1>0, <3>1, <3>2
  <2>4. Cardinality(Earlier(from, e)) < Cardinality(Group(from, from[e]))
    <3>1. IsFiniteSet(Group(from, from[e])) /\ Earlier(from, e) \in SUBSET Group(from, from[e])
      BY <1>0 DEF Group, Earlier
    <3>2. e \in Group(from, from[e]) /\ e \notin Earlier(from, e)
      BY <1>a DEF Group, Earlier
    <3>3. /\ Cardinality(Earlier(from, e)) <= Cardinality(Group(from, from[e]))
          /\ Cardinality(Earlier(from, e)) # Cardinality(Group(from, from[e]))
      BY <3>1, <3>2, FS_Subset
    <3>4. Cardinality(Earlier(from, e)) \in Nat /\ Cardinality(Group(from, from[e])) \in Nat
      BY <1>0 DEF Group, Earlier
    <3> QED
      BY <3>3, <3>4
  <2>5. Cardinality(Earlier(from, e)) \in Nat /\ Cardinality(Group(from, from[e])) \in Nat
    BY <1>0 DEF Group, Earlier
  <2> QED
    BY <1>2, <2>2, <2>3, <2>4, <2>5
<1>4. \A n \in 0 .. N : o[n] \in 0 .. m
  <2> SUFFICES ASSUME NEW n \in 0 .. N PROVE o[n] \in 0 .. m
    OBVIOUS
  <2>1. Under(from, n) \in SUBSET E
    BY DEF Under
  <2>2. Cardinality(Under(from, n)) <= m /\ Cardinality(Under(from, n)) \in Nat
    BY <1>0, <2>1, FS_Subset
  <2> QED
    BY <1>0, <2>2, OffsetsCount
<1>5. \A n, k \in 0 .. N : n <= k => o[n] <= o[k]
  <2> SUFFICES ASSUME NEW n \in 0 .. N, NEW k \in 0 .. N, n <= k PROVE o[n] <= o[k]
    OBVIOUS
  <2>1. Under(from, k) \in SUBSET E /\ Under(from, n) \in SUBSET Under(from, k)
    BY <1>a DEF Under
  <2>2. Cardinality(Under(from, n)) <= Cardinality(Under(from, k))
    BY <1>0, <2>1, FS_Subset
  <2> QED
    BY <2>2, OffsetsCount
<1>6. /\ \A e \in E : Place(from, e) \in 0 .. (m - 1)
      /\ \A d, e \in E : Place(from, d) = Place(from, e) => d = e
      /\ \A d, e \in E : Place(from, d) < Place(from, e) <=> <<d, e>> \in ByNode(from)
      /\ \A i \in 0 .. (m - 1) : \E e \in E : Place(from, e) = i
  <2>1. /\ \A x \in E : Rank(ByNode(from), E, x) \in 0 .. (Cardinality(E) - 1)
        /\ \A x, y \in E : <<x, y>> \in ByNode(from) <=> Rank(ByNode(from), E, x) < Rank(ByNode(from), E, y)
        /\ \A x, y \in E : Rank(ByNode(from), E, x) = Rank(ByNode(from), E, y) => x = y
        /\ \A n \in 0 .. (Cardinality(E) - 1) : \E x \in E : Rank(ByNode(from), E, x) = n
    <3>1. IsFiniteSet(E)
      BY <1>0
    <3> HIDE DEF E
    <3> QED
      BY <1>1, <3>1, RankPlaces
  <2> QED
    BY <1>0, <2>1 DEF Place
<1> QED
  BY <1>2, <1>3, <1>4, <1>5, <1>6

Blank(m, N, o) == [ids |-> [i \in 0 .. (m - 1) |-> 0], cursor |-> [n \in 0 .. (N - 1) |-> o[n]]]

\* How the edges are placed one after another.
Placing(u, m, N, from, o) ==
    /\ u[0] = Blank(m, N, o)
    /\ \A k \in 0 .. m : /\ u[k].ids \in [0 .. (m - 1) -> Int]
                         /\ u[k].cursor \in [0 .. (N - 1) -> Int]
    /\ \A k \in 1 .. m : u[k] = Scatter(u[k - 1], from[k - 1], k - 1)

LEMMA ScatterRecurs ==
  ASSUME NEW m, NEW N, NEW from, Sources(m, N, from), NEW o, o = outOffsets(N, from)
  PROVE  \E u : Placing(u, m, N, from, o) /\ scattered(o, N, from) = u[m]
<1> DEFINE T == [ids : [0 .. (m - 1) -> Int], cursor : [0 .. (N - 1) -> Int]]
           b == Blank(m, N, o)
           put(st, k) == Scatter(st, from[k - 1], k - 1)
           g == [k \in 1 .. m |-> [st \in T |-> put(st, k)]]
<1>0. m \in Nat /\ N \in Nat /\ Cardinality(DOMAIN from) = m
  BY EdgesFinite DEF Sources
<1>1. b \in T
  <2>1. \A n \in 0 .. (N - 1) : o[n] \in Int
    BY <1>0, PlacesOfEdges
  <2> QED
    BY <2>1 DEF Blank
<1>2. ASSUME NEW k \in 1 .. m, NEW st \in T PROVE put(st, k) \in T
  <2>1. PICK ids \in [0 .. (m - 1) -> Int], cursor \in [0 .. (N - 1) -> Int] :
           st.ids = ids /\ st.cursor = cursor
    OBVIOUS
  <2>2. k - 1 \in Int
    BY <1>0
  <2>3. [ids EXCEPT ![cursor[from[k - 1]]] = k - 1] \in [0 .. (m - 1) -> Int]
    BY <2>2
  <2>4. [cursor EXCEPT ![from[k - 1]] = cursor[from[k - 1]] + 1] \in [0 .. (N - 1) -> Int]
    <3>1. ASSUME NEW n \in 0 .. (N - 1), NEW c \in Int PROVE [cursor EXCEPT ![n] = c] \in [0 .. (N - 1) -> Int]
      OBVIOUS
    <3>2. k - 1 \in 0 .. (m - 1)
      BY <1>0
    <3>3. from[k - 1] \in 0 .. (N - 1)
      BY <3>2 DEF Sources
    <3>4. cursor[from[k - 1]] + 1 \in Int
      BY <3>3
    <3> QED
      BY <3>1, <3>3, <3>4
  <2>5. put(st, k) = [ids |-> [ids EXCEPT ![cursor[from[k - 1]]] = k - 1],
                      cursor |-> [cursor EXCEPT ![from[k - 1]] = cursor[from[k - 1]] + 1]]
    BY <2>1 DEF Scatter
  <2>6. ASSUME NEW x \in [0 .. (m - 1) -> Int], NEW y \in [0 .. (N - 1) -> Int]
        PROVE  [ids |-> x, cursor |-> y] \in T
    OBVIOUS
  <2> HIDE DEF T, put
  <2> QED
    BY <2>3, <2>4, <2>5, <2>6
<1>3. g \in [1 .. m -> [T -> T]]
  <2> HIDE DEF T, put
  <2> QED
    BY <1>2
<1>4. PICK f \in [0 .. m -> T] : \A k \in 0 .. m : f[k] = IF k = 0 THEN b ELSE g[k][f[k - 1]]
  <2> HIDE DEF T, g, b
  <2>1. PICK f \in [0 .. m -> T] : IteratesUpto(m, f, b, g)
    BY <1>0, <1>1, <1>3, UptoRecursion
  <2> QED
    BY <2>1 DEF IteratesUpto
<1>5. \A k \in 0 .. m : f[k] = IF k = 0 THEN b ELSE put(f[k - 1], k)
  <2> SUFFICES ASSUME NEW k \in 0 .. m, k # 0 PROVE f[k] = put(f[k - 1], k)
    BY <1>0, <1>4
  <2>1. k - 1 \in 0 .. m /\ k \in 1 .. m
    BY <1>0
  <2> HIDE DEF T, put, b
  <2> QED
    BY <1>4, <2>1
<1> HIDE DEF g, T
<1> DEFINE w == CHOOSE w : w = [k \in 0 .. m |-> IF k = 0 THEN b ELSE put(w[k - 1], k)]
<1>6. f = [k \in 0 .. m |-> IF k = 0 THEN b ELSE put(f[k - 1], k)]
  <2>1. f = [k \in 0 .. m |-> f[k]]
    BY <1>4
  <2> QED
    BY <1>5, <2>1
<1>7. w = [k \in 0 .. m |-> IF k = 0 THEN b ELSE put(w[k - 1], k)]
  BY <1>6
<1>8. scattered(o, N, from) = w[m]
  BY <1>0 DEF scattered, Blank
<1> HIDE DEF w
<1>9. \A k \in 0 .. m : w[k] = IF k = 0 THEN b ELSE put(w[k - 1], k)
  BY <1>7
<1> DEFINE I == {k \in Nat : k <= m => w[k] \in T}
<1>10. 0 \in I
  BY <1>0, <1>1, <1>9
<1>11. ASSUME NEW k \in Nat, k \in I PROVE k + 1 \in I
  <2> SUFFICES ASSUME k + 1 <= m PROVE w[k + 1] \in T
    OBVIOUS
  <2>1. k + 1 \in 0 .. m /\ k + 1 # 0 /\ (k + 1) - 1 = k /\ k <= m /\ k + 1 \in 1 .. m
    BY <1>0
  <2> HIDE DEF put, b
  <2> QED
    BY <1>2, <1>9, <1>11, <2>1
<1>12. Nat \subseteq I
  <2> HIDE DEF I
  <2> QED
    BY <1>10, <1>11, NatSetInduction
<1>13. \A k \in 0 .. m : w[k] \in T
  BY <1>0, <1>12
<1> HIDE DEF b, put
<1>14. Placing(w, m, N, from, o)
  <2>1. w[0] = b
    BY <1>0, <1>9
  <2>2. \A k \in 1 .. m : w[k] = put(w[k - 1], k)
    <3> SUFFICES ASSUME NEW k \in 1 .. m PROVE w[k] = put(w[k - 1], k)
      OBVIOUS
    <3>1. k \in 0 .. m /\ k # 0
      BY <1>0
    <3> QED
      BY <1>9, <3>1
  <2> QED
    BY <1>13, <2>1, <2>2 DEF Placing, T, b, put
<1> QED
  BY <1>8, <1>14

\* Each edge is where it belongs.
LEMMA ScatterPlaces ==
  ASSUME NEW m, NEW N, NEW from, Sources(m, N, from), NEW o, o = outOffsets(N, from)
  PROVE  /\ scattered(o, N, from).ids \in [0 .. (m - 1) -> Int]
         /\ \A e \in DOMAIN from : scattered(o, N, from).ids[Place(from, e)] = e
<1>a. \A d, f \in DOMAIN from : Place(from, d) = Place(from, f) => d = f
  BY PlacesOfEdges
<1> DEFINE Placed(k, n) == Cardinality({d \in DOMAIN from : from[d] = n /\ d < k})
<1>0. m \in Nat /\ N \in Nat /\ DOMAIN from = 0 .. (m - 1)
  BY EdgesFinite DEF Sources
<1>1. PICK u : Placing(u, m, N, from, o) /\ scattered(o, N, from) = u[m]
  BY ScatterRecurs
<1> DEFINE Good(k) == /\ \A n \in 0 .. (N - 1) : u[k].cursor[n] = o[n] + Placed(k, n)
                      /\ \A e \in DOMAIN from : e < k => u[k].ids[Place(from, e)] = e
           I == {k \in Nat : k <= m => Good(k)}
<1>2. 0 \in I
  <2>1. ASSUME NEW n PROVE Placed(0, n) = 0
    <3>1. {d \in DOMAIN from : from[d] = n /\ d < 0} = {}
      BY <1>0
    <3> QED
      BY <3>1, FS_EmptySet
  <2>2. \A n \in 0 .. (N - 1) : u[0].cursor[n] = o[n] /\ o[n] \in Int
    BY <1>0, <1>1, PlacesOfEdges DEF Placing, Blank
  <2>3. \A e \in DOMAIN from : ~(e < 0)
    BY <1>0
  <2> HIDE DEF Placed
  <2> QED
    BY <2>1, <2>2, <2>3
<1>3. ASSUME NEW k \in Nat, k \in I PROVE k + 1 \in I
  <2> SUFFICES ASSUME k + 1 <= m PROVE Good(k + 1)
    OBVIOUS
  <2>1. k + 1 \in 1 .. m /\ k \in 0 .. m /\ (k + 1) - 1 = k /\ k \in DOMAIN from /\ k <= m
    BY <1>0
  <2> DEFINE n0 == from[k]
  <2>2. n0 \in 0 .. (N - 1)
    BY <2>1 DEF Sources
  <2>3. PICK ids \in [0 .. (m - 1) -> Int], cursor \in [0 .. (N - 1) -> Int] :
           u[k].ids = ids /\ u[k].cursor = cursor
    BY <1>1, <2>1 DEF Placing
  <2>4. u[k + 1] = Scatter(u[k], n0, k)
    BY <1>1, <2>1 DEF Placing
  <2>5. /\ u[k + 1].ids = [ids EXCEPT ![cursor[n0]] = k]
        /\ u[k + 1].cursor = [cursor EXCEPT ![n0] = cursor[n0] + 1]
    BY <2>3, <2>4 DEF Scatter
  <2>6. ASSUME NEW n \in 0 .. (N - 1) PROVE Placed(k + 1, n) = IF n = n0 THEN Placed(k, n) + 1 ELSE Placed(k, n)
    <3> DEFINE P(j) == {d \in DOMAIN from : from[d] = n /\ d < j}
    <3>0. IsFiniteSet(P(k)) /\ k \notin P(k)
      BY EdgesFinite
    <3>1. CASE n = n0
      <4>1. P(k + 1) = P(k) \cup {k}
        BY <1>0, <2>1, <3>1
      <4> HIDE DEF P
      <4>2. Cardinality(P(k) \cup {k}) = Cardinality(P(k)) + 1
        BY <3>0, FS_AddElement
      <4> QED
        BY <3>1, <4>1, <4>2 DEF P
    <3>2. CASE n # n0
      <4>1. P(k + 1) = P(k)
        BY <1>0, <2>1, <3>2
      <4> QED
        BY <3>2, <4>1
    <3> QED
      BY <3>1, <3>2
  <2>7. cursor[n0] = Place(from, k)
    <3>1. Place(from, k) = o[n0] + Cardinality(Earlier(from, k))
      BY <2>1, PlacesOfEdges
    <3>2. cursor[n0] = o[n0] + Placed(k, n0)
      BY <1>3, <2>1, <2>2, <2>3
    <3> QED
      BY <3>1, <3>2 DEF Earlier
  <2>8. Place(from, k) \in 0 .. (m - 1) /\ \A e \in DOMAIN from : Place(from, e) \in 0 .. (m - 1)
    BY <2>1, PlacesOfEdges
  <2>9. ASSUME NEW e \in DOMAIN from, e < k + 1 PROVE u[k + 1].ids[Place(from, e)] = e
    <3>1. CASE e = k
      BY <2>5, <2>7, <2>8, <3>1
    <3>2. CASE e # k
      <4>1. e < k
        BY <1>0, <2>9, <3>2
      <4>2. ids[Place(from, e)] = e
        BY <1>3, <2>1, <2>3, <4>1
      <4>3. Place(from, e) # Place(from, k)
        BY <1>a, <2>1, <3>2
      <4> QED
        BY <2>5, <2>7, <2>8, <4>2, <4>3
    <3> QED
      BY <3>1, <3>2
  <2>10. ASSUME NEW n \in 0 .. (N - 1) PROVE u[k + 1].cursor[n] = o[n] + Placed(k + 1, n)
    <3>1. cursor[n] = o[n] + Placed(k, n)
      BY <1>3, <2>1, <2>3
    <3>2. o[n] \in Int /\ Placed(k, n) \in Int
      <4>1. n \in 0 .. N
        BY <1>0
      <4>2. {d \in DOMAIN from : from[d] = n /\ d < k} \in SUBSET DOMAIN from
        OBVIOUS
      <4> QED
        BY <1>0, <4>1, <4>2, PlacesOfEdges, EdgesFinite
    <3> HIDE DEF Placed
    <3>3. u[k + 1].cursor[n] = IF n = n0 THEN cursor[n] + 1 ELSE cursor[n]
      BY <2>5
    <3> QED
      BY <2>6, <3>1, <3>2, <3>3
  <2> QED
    BY <2>9, <2>10
<1>4. Nat \subseteq I
  <2> HIDE DEF I
  <2> QED
    BY <1>2, <1>3, NatSetInduction
<1>5. Good(m)
  BY <1>0, <1>4
<1>6. \A e \in DOMAIN from : e < m
  BY <1>0
<1> QED
  BY <1>0, <1>1, <1>5, <1>6 DEF Placing

-----------------------------------------------------------------------------
(* The loader.                                                              *)

\* What is asked before the first row.
Opens == (\A b \in export.bounds : ValidBounds(b)) /\ Envelope

SeenRows == 1 .. row

Near(p, q) == ~Apart(p, q, Eps)

IsPlace(p) == p[1] \in Int /\ p[2] \in Int

\* The rows so far are good, and each is under its number.
PlacedInv ==
    /\ \A i \in SeenRows :
          /\ validateFeature(features[i], Len(features), export.bounds)
          /\ features[i].edge_id \in DOMAIN placed /\ placed[features[i].edge_id] = features[i]
    /\ \A e \in DOMAIN placed : \E i \in SeenRows : features[i].edge_id = e
    /\ \A i, j \in SeenRows :
          i # j => features[i].edge_id # features[j].edge_id /\ features[i].segment_id # features[j].segment_id

\* Row i gives node id the position p.
Gives(i, id, p) ==
    \/ features[i].source_node = id /\ p = first(features[i])
    \/ features[i].target_node = id /\ p = last(features[i])

\* A node has a position that one of the rows so far gave it, near to all the others.
PositionInv ==
    /\ IsFiniteSet(DOMAIN nodePos)
    /\ \A i \in SeenRows :
          /\ features[i].source_node \in DOMAIN nodePos
          /\ Near(nodePos[features[i].source_node], first(features[i]))
          /\ features[i].target_node \in DOMAIN nodePos
          /\ Near(nodePos[features[i].target_node], last(features[i]))
    /\ \A id \in DOMAIN nodePos : \E i \in SeenRows : Gives(i, id, nodePos[id])

LoadInv ==
    /\ export \in Export /\ row \in 0 .. Len(features)
    /\ phase \in {"open", "rows", "warn", "loaded", "rejected"}
    /\ phase = "rejected" => ~(Opens /\ WellFormed(Eps))
    /\ phase = "open" => row = 0 /\ placed = Nothing /\ nodePos = Nothing
    /\ phase \in {"rows", "warn", "loaded"} => Opens /\ PlacedInv /\ PositionInv
    /\ phase \in {"warn", "loaded"} => row = Len(features) /\ graph = assembled
    /\ phase = "loaded" /\ export.warn => report = Warning

LEMMA FeaturesType ==
  ASSUME export \in Export
  PROVE  /\ features \in Seq(Row) /\ Len(features) \in Nat /\ DOMAIN features = 1 .. Len(features)
         /\ \A i \in DOMAIN features : features[i] \in Row
BY DEF Export, features

\* The ends of a row that was validated are places.
LEMMA EndsArePlaces ==
  ASSUME NEW f \in Row, NEW n, NEW b, validateFeature(f, n, b)
  PROVE  /\ IsPlace(first(f)) /\ IsPlace(last(f))
         /\ f.source_node \in Nat /\ f.target_node \in Nat /\ f.edge_id \in 0 .. (n - 1)
<1>1. f.coords \in Seq(Seq(Int)) /\ Len(f.coords) >= 2 /\ Len(f.coords) \in Nat
  BY DEF Row, validateFeature
<1>2. 1 \in DOMAIN f.coords /\ Len(f.coords) \in DOMAIN f.coords
  BY <1>1
<1>3. ASSUME NEW i \in DOMAIN f.coords PROVE IsPlace(f.coords[i])
  <2>1. f.coords[i] \in Seq(Int) /\ Len(f.coords[i]) = 2
    BY <1>1 DEF validateFeature
  <2> QED
    BY <2>1 DEF IsPlace
<1>4. f.source_node \in Int /\ f.target_node \in Int
  BY DEF Row
<1>5. f.source_node >= 0 /\ f.target_node >= 0 /\ f.edge_id \in 0 .. (n - 1)
  BY DEF validateFeature
<1> QED
  BY <1>2, <1>3, <1>4, <1>5 DEF first, last

LEMMA NearItself == ASSUME NEW p, IsPlace(p) PROVE Near(p, p)
BY GraphAssumption DEF IsPlace, Near, Apart, Distance

LEMMA NearTwice ==
  ASSUME NEW p, NEW q, NEW r, IsPlace(p), IsPlace(q), IsPlace(r), Near(r, p), Near(r, q)
  PROVE  ~Apart(p, q, 2 * Eps)
BY GraphAssumption DEF IsPlace, Near, Apart, Distance

\* A position is written once.
LEMMA RecordKeeps ==
  ASSUME NEW f, NEW x, NEW y
  PROVE  /\ DOMAIN recordNodePos(f, x, y) = DOMAIN f \cup {x}
         /\ \A z \in DOMAIN f : recordNodePos(f, x, y)[z] = f[z]
         /\ x \notin DOMAIN f => recordNodePos(f, x, y)[x] = y
BY DEF recordNodePos, Put

LEMMA EndsAreGiven ==
  ASSUME NEW id, NEW p
  PROVE  p \in EndsOf(id) <=> \E i \in DOMAIN features : Gives(i, id, p)
BY DEF EndsOf, Gives

\* The numbers of the rows are all there if and only if none is there twice.
LEMMA RowNumbers ==
  ASSUME export \in Export, \A i \in DOMAIN features : features[i].edge_id \in 0 .. (Len(features) - 1)
  PROVE  (\A i, j \in DOMAIN features : features[i].edge_id = features[j].edge_id => i = j)
         <=> {features[i].edge_id : i \in DOMAIN features} = 0 .. (Len(features) - 1)
<1> DEFINE N == Len(features)
           number == [i \in 1 .. N |-> features[i].edge_id]
<1>1. N \in Nat /\ DOMAIN features = 1 .. N
  BY FeaturesType
<1>2. number \in [1 .. N -> 0 .. (N - 1)] /\ \A i \in 1 .. N : number[i] = features[i].edge_id
  BY <1>1
<1> HIDE DEF number, N
<1>3. (\A i, j \in 1 .. N : number[i] = number[j] => i = j) <=> (\A n \in 0 .. (N - 1) : \E i \in 1 .. N : number[i] = n)
  BY <1>1, <1>2, NoneMissed
<1>4. {features[i].edge_id : i \in DOMAIN features} = {number[i] : i \in 1 .. N}
  BY <1>1, <1>2
<1>5. (\A n \in 0 .. (N - 1) : \E i \in 1 .. N : number[i] = n) <=> {number[i] : i \in 1 .. N} = 0 .. (N - 1)
  BY <1>2
<1>6. (\A i, j \in 1 .. N : number[i] = number[j] => i = j)
      <=> (\A i, j \in DOMAIN features : features[i].edge_id = features[j].edge_id => i = j)
  BY <1>1, <1>2
<1> QED
  BY <1>3, <1>4, <1>5, <1>6 DEF N

\* No row of a good export is refused.
LEMMA GoodRowsAccepted ==
  ASSUME LoadInv, phase = "rows", row < Len(features), WellFormed(Eps)
  PROVE  Accepted(features[row + 1])
<1> DEFINE f == features[row + 1]
<1>0. export \in Export /\ row \in Nat /\ PlacedInv /\ PositionInv
  BY FeaturesType DEF LoadInv
<1>1. row + 1 \in DOMAIN features /\ SeenRows \subseteq DOMAIN features /\ row + 1 \notin SeenRows
  BY <1>0, FeaturesType DEF SeenRows
<1>2. validateFeature(f, Len(features), export.bounds)
  BY <1>1 DEF WellFormed
<1>3. \A i, j \in DOMAIN features : features[i].edge_id = features[j].edge_id => i = j
  <2>1. \A i \in DOMAIN features : features[i].edge_id \in 0 .. (Len(features) - 1)
    BY <1>0, FeaturesType, EndsArePlaces DEF WellFormed
  <2> QED
    BY <1>0, <2>1, RowNumbers DEF WellFormed
<1>4. f.edge_id \notin DOMAIN placed
  BY <1>0, <1>1, <1>3 DEF PlacedInv
<1>5. \A e \in DOMAIN placed : placed[e].segment_id # f.segment_id
  <2> SUFFICES ASSUME NEW e \in DOMAIN placed PROVE placed[e].segment_id # f.segment_id
    OBVIOUS
  <2>1. PICK i \in SeenRows : features[i].edge_id = e
    BY <1>0 DEF PlacedInv
  <2>2. placed[e] = features[i]
    BY <1>0, <2>1 DEF PlacedInv
  <2>3. i \in DOMAIN features /\ i # row + 1
    BY <1>1
  <2> QED
    BY <1>1, <2>2, <2>3 DEF WellFormed
<1>6. ASSUME NEW id \in {f.source_node, f.target_node}, NEW p \in EndsOf(id), NEW q \in EndsOf(id)
      PROVE  ~Apart(p, q, Eps)
  BY <1>1 DEF WellFormed
<1>7. first(f) \in EndsOf(f.source_node) /\ last(f) \in EndsOf(f.target_node)
  BY <1>1, EndsAreGiven DEF Gives
<1>8. \A id \in DOMAIN nodePos : nodePos[id] \in EndsOf(id)
  BY <1>0, <1>1, EndsAreGiven DEF PositionInv
<1>9. ~Contradicts(nodePos, f.source_node, first(f))
  BY <1>6, <1>7, <1>8 DEF Contradicts
<1>10. ~Contradicts(withSource(f), f.target_node, last(f))
  <2> SUFFICES ASSUME f.target_node \in DOMAIN withSource(f)
               PROVE  withSource(f)[f.target_node] \in EndsOf(f.target_node)
    BY <1>6, <1>7 DEF Contradicts
  <2>0. PICK x, y, k : x = f.source_node /\ y = first(f) /\ k = nodePos
    OBVIOUS
  <2>a. withSource(f) = recordNodePos(nodePos, x, y)
    BY <2>0 DEF withSource
  <2>b. /\ DOMAIN withSource(f) = DOMAIN nodePos \cup {x}
        /\ \A z \in DOMAIN nodePos : withSource(f)[z] = nodePos[z]
        /\ x \notin DOMAIN nodePos => withSource(f)[x] = y
    <3>1. /\ DOMAIN recordNodePos(k, x, y) = DOMAIN k \cup {x}
          /\ \A z \in DOMAIN k : recordNodePos(k, x, y)[z] = k[z]
          /\ x \notin DOMAIN k => recordNodePos(k, x, y)[x] = y
      BY RecordKeeps
    <3> QED
      BY <2>a, <2>0, <3>1
  <2> HIDE DEF f
  <2>1. CASE f.target_node \in DOMAIN nodePos
    BY <1>8, <2>1, <2>b
  <2>2. CASE f.target_node \notin DOMAIN nodePos
    <3>1. f.target_node = f.source_node
      BY <2>2, <2>0, <2>b
    <3> QED
      BY <1>7, <2>2, <3>1, <2>0, <2>b
  <2> QED
    BY <2>1, <2>2
<1> QED
  BY <1>2, <1>4, <1>5, <1>9, <1>10 DEF Accepted

\* What was loaded row by row keeps the contract, up to twice the tolerance.
LEMMA LoadedRowsGood ==
  ASSUME LoadInv, phase \in {"rows", "warn", "loaded"}, row = Len(features)
  PROVE  WellFormed(2 * Eps)
<1>0. export \in Export /\ PlacedInv /\ PositionInv
  BY DEF LoadInv
<1>1. SeenRows = DOMAIN features
  BY <1>0, FeaturesType DEF SeenRows
<1>2. \A i \in DOMAIN features : /\ validateFeature(features[i], Len(features), export.bounds)
                                 /\ features[i] \in Row
  BY <1>0, <1>1, FeaturesType DEF PlacedInv
<1>3. \A i \in DOMAIN features : /\ IsPlace(first(features[i])) /\ IsPlace(last(features[i]))
                                 /\ features[i].edge_id \in 0 .. (Len(features) - 1)
  BY <1>2, EndsArePlaces
<1>4. {features[i].edge_id : i \in DOMAIN features} = 0 .. (Len(features) - 1)
  <2>1. \A i, j \in DOMAIN features : features[i].edge_id = features[j].edge_id => i = j
    BY <1>0, <1>1 DEF PlacedInv
  <2> QED
    BY <1>0, <1>3, <2>1, RowNumbers
<1>5. ASSUME NEW id, NEW p \in EndsOf(id)
      PROVE  IsPlace(p) /\ id \in DOMAIN nodePos /\ Near(nodePos[id], p)
  <2>1. PICK i \in DOMAIN features : Gives(i, id, p)
    BY <1>5, EndsAreGiven
  <2> QED
    BY <1>0, <1>1, <1>3, <2>1 DEF Gives, PositionInv
<1>6. ASSUME NEW id, NEW p \in EndsOf(id), NEW q \in EndsOf(id) PROVE ~Apart(p, q, 2 * Eps)
  <2>1. id \in DOMAIN nodePos
    BY <1>5
  <2>2. IsPlace(nodePos[id])
    <3>1. PICK i \in SeenRows : Gives(i, id, nodePos[id])
      BY <1>0, <2>1 DEF PositionInv
    <3> QED
      BY <1>1, <1>3, <3>1 DEF Gives
  <2> QED
    BY <1>5, <2>2, NearTwice
<1>7. \A i, j \in DOMAIN features : i # j => features[i].segment_id # features[j].segment_id
  BY <1>0, <1>1 DEF PlacedInv
<1> QED
  BY <1>2, <1>4, <1>6, <1>7 DEF WellFormed

LEMMA AddRowLoads == LoadInv /\ AddRow => LoadInv'
<1> SUFFICES ASSUME LoadInv, AddRow PROVE LoadInv'
  OBVIOUS
<1> DEFINE f == features[row + 1]
           s == f.source_node
           t == f.target_node
<1>0. /\ phase = "rows" /\ row < Len(features) /\ Accepted(f) /\ row' = row + 1
      /\ placed' = Put(placed, f.edge_id, f)
      /\ nodePos' = recordNodePos(withSource(f), t, last(f))
      /\ phase' = phase /\ export' = export /\ features' = features
  BY DEF AddRow, features
<1>1. export \in Export /\ row \in Nat /\ Len(features) \in Nat /\ PlacedInv /\ PositionInv /\ Opens
  BY <1>0, FeaturesType DEF LoadInv
<1>2. /\ row + 1 \in DOMAIN features /\ f \in Row /\ SeenRows \subseteq DOMAIN features
      /\ SeenRows' = SeenRows \cup {row + 1} /\ row + 1 \notin SeenRows /\ row' \in 0 .. Len(features)
  BY <1>0, <1>1, FeaturesType DEF SeenRows
<1>3. /\ validateFeature(f, Len(features), export.bounds)
      /\ f.edge_id \notin DOMAIN placed
      /\ \A e \in DOMAIN placed : placed[e].segment_id # f.segment_id
      /\ ~Contradicts(nodePos, s, first(f)) /\ ~Contradicts(withSource(f), t, last(f))
  BY <1>0 DEF Accepted
<1>4. IsPlace(first(f)) /\ IsPlace(last(f))
  BY <1>2, <1>3, EndsArePlaces
<1>5. PlacedInv'
  <2>1. /\ DOMAIN placed' = DOMAIN placed \cup {f.edge_id} /\ placed'[f.edge_id] = f
        /\ \A e \in DOMAIN placed : placed'[e] = placed[e]
    <3>1. PICK x, y, p : x = f.edge_id /\ y = f /\ p = placed
      OBVIOUS
    <3>2. placed' = Put(placed, x, y) /\ x \notin DOMAIN placed
      BY <1>0, <1>3, <3>1
    <3>3. /\ DOMAIN Put(p, x, y) = DOMAIN p \cup {x} /\ Put(p, x, y)[x] = y
          /\ \A z \in DOMAIN p : z # x => Put(p, x, y)[z] = p[z]
      BY DEF Put
    <3> QED
      BY <3>1, <3>2, <3>3
  <2>2. ASSUME NEW i \in SeenRows'
        PROVE  /\ validateFeature(features[i], Len(features), export.bounds)
               /\ features[i].edge_id \in DOMAIN placed' /\ placed'[features[i].edge_id] = features[i]
    <3>1. CASE i = row + 1
      BY <1>3, <2>1, <3>1
    <3>2. CASE i \in SeenRows
      BY <1>1, <2>1, <3>2 DEF PlacedInv
    <3> QED
      BY <1>2, <3>1, <3>2
  <2>3. \A e \in DOMAIN placed' : \E i \in SeenRows' : features[i].edge_id = e
    BY <1>1, <1>2, <2>1 DEF PlacedInv
  <2>4. \A i \in SeenRows : /\ features[i].edge_id # f.edge_id
                           /\ features[i].segment_id # f.segment_id
    BY <1>1, <1>3 DEF PlacedInv
  <2>5. \A i, j \in SeenRows' :
           i # j => features[i].edge_id # features[j].edge_id /\ features[i].segment_id # features[j].segment_id
    BY <1>1, <1>2, <2>4 DEF PlacedInv
  <2> QED
    BY <1>0, <2>2, <2>3, <2>5 DEF PlacedInv
<1>6. /\ DOMAIN nodePos' = DOMAIN nodePos \cup {s, t}
      /\ \A id \in DOMAIN nodePos : nodePos'[id] = nodePos[id]
      /\ Near(nodePos'[s], first(f)) /\ Near(nodePos'[t], last(f))
      /\ s \notin DOMAIN nodePos => nodePos'[s] = first(f)
      /\ t \notin DOMAIN nodePos => (nodePos'[t] = first(f) /\ t = s) \/ nodePos'[t] = last(f)
  <2> DEFINE P == withSource(f)
  <2>1. /\ DOMAIN P = DOMAIN nodePos \cup {s}
        /\ \A id \in DOMAIN nodePos : P[id] = nodePos[id]
        /\ s \notin DOMAIN nodePos => P[s] = first(f)
    <3>1. PICK x, y : x = s /\ y = first(f)
      OBVIOUS
    <3>2. P = recordNodePos(nodePos, x, y)
      BY <3>1 DEF withSource
    <3> QED
      BY <3>1, <3>2, RecordKeeps
  <2>2. /\ DOMAIN nodePos' = DOMAIN P \cup {t}
        /\ \A id \in DOMAIN P : nodePos'[id] = P[id]
        /\ t \notin DOMAIN P => nodePos'[t] = last(f)
    <3>1. PICK x, y, z : x = t /\ y = last(f) /\ z = P
      OBVIOUS
    <3>2. nodePos' = recordNodePos(z, x, y)
      BY <1>0, <3>1
    <3>3. /\ DOMAIN recordNodePos(z, x, y) = DOMAIN z \cup {x}
          /\ \A i \in DOMAIN z : recordNodePos(z, x, y)[i] = z[i]
          /\ x \notin DOMAIN z => recordNodePos(z, x, y)[x] = y
      BY RecordKeeps
    <3> HIDE DEF P, t, f
    <3> QED
      BY <3>1, <3>2, <3>3
  <2>3. Near(P[s], first(f))
    <3>1. CASE s \in DOMAIN nodePos
      BY <1>3, <2>1, <3>1 DEF Contradicts, Near
    <3>2. CASE s \notin DOMAIN nodePos
      BY <1>4, <2>1, <3>2, NearItself
    <3> QED
      BY <3>1, <3>2
  <2>4. Near(nodePos'[t], last(f))
    <3>1. CASE t \in DOMAIN P
      <4>1. Near(P[t], last(f))
        BY <1>3, <3>1 DEF Contradicts, Near
      <4> QED
        BY <2>2, <3>1, <4>1
    <3>2. CASE t \notin DOMAIN P
      BY <1>4, <2>2, <3>2, NearItself
    <3> QED
      BY <3>1, <3>2
  <2> HIDE DEF P, s, t, f
  <2> QED
    BY <2>1, <2>2, <2>3, <2>4
<1>7. PositionInv'
  <2>1. IsFiniteSet(DOMAIN nodePos')
    <3>1. IsFiniteSet((DOMAIN nodePos \cup {s}) \cup {t})
      BY <1>1, FS_AddElement DEF PositionInv
    <3>2. (DOMAIN nodePos \cup {s}) \cup {t} = DOMAIN nodePos'
      BY <1>6
    <3> QED
      BY <3>1, <3>2
  <2>2. ASSUME NEW i \in SeenRows'
        PROVE  /\ features[i].source_node \in DOMAIN nodePos'
               /\ Near(nodePos'[features[i].source_node], first(features[i]))
               /\ features[i].target_node \in DOMAIN nodePos'
               /\ Near(nodePos'[features[i].target_node], last(features[i]))
    <3>1. CASE i = row + 1
      BY <1>6, <3>1
    <3>2. CASE i \in SeenRows
      BY <1>1, <1>6, <3>2 DEF PositionInv
    <3> QED
      BY <1>2, <3>1, <3>2
  <2>3. ASSUME NEW id \in DOMAIN nodePos' PROVE \E i \in SeenRows' : Gives(i, id, nodePos'[id])
    <3>1. CASE id \in DOMAIN nodePos
      <4>1. PICK i \in SeenRows : Gives(i, id, nodePos[id])
        BY <1>1, <3>1 DEF PositionInv
      <4> QED
        BY <1>2, <1>6, <3>1, <4>1
    <3>2. CASE id \notin DOMAIN nodePos
      <4>1. Gives(row + 1, id, nodePos'[id])
        BY <1>6, <3>2 DEF Gives
      <4> QED
        BY <1>2, <4>1
    <3> QED
      BY <3>1, <3>2
  <2> QED
    BY <1>0, <2>1, <2>2, <2>3 DEF PositionInv, Gives
<1>8. Opens' = Opens
  BY <1>0 DEF Opens, Envelope
<1> QED
  BY <1>0, <1>1, <1>2, <1>5, <1>7, <1>8 DEF LoadInv

-----------------------------------------------------------------------------
(* The graph.                                                               *)

Complete == LoadInv /\ phase \in {"rows", "warn", "loaded"} /\ row = Len(features)

\* The ids of the export become places that keep their order.
LEMMA NodesRemapped ==
  ASSUME Complete, NEW N, N = Cardinality(DOMAIN nodePos)
  PROVE  /\ N \in Nat /\ DOMAIN nodePos \subseteq Nat
         /\ \A id \in DOMAIN nodePos : remap(id) \in 0 .. (N - 1) /\ nodeAt(remap(id)) = id
         /\ \A a, b \in DOMAIN nodePos : a < b <=> remap(a) < remap(b)
         /\ \A n \in 0 .. (N - 1) : \E id \in DOMAIN nodePos : remap(id) = n
<1> DEFINE D == DOMAIN nodePos
           R == Ascending(D)
<1>0. PositionInv /\ PlacedInv /\ export \in Export /\ SeenRows = DOMAIN features
  BY FeaturesType DEF Complete, LoadInv, SeenRows
<1>1. D \subseteq Nat
  <2> SUFFICES ASSUME NEW id \in D PROVE id \in Nat
    OBVIOUS
  <2>1. PICK i \in SeenRows : Gives(i, id, nodePos[id])
    BY <1>0 DEF PositionInv
  <2>2. features[i] \in Row /\ validateFeature(features[i], Len(features), export.bounds)
    BY <1>0, FeaturesType DEF PlacedInv
  <2>3. features[i].source_node \in Nat /\ features[i].target_node \in Nat
    BY <2>2, EndsArePlaces
  <2> QED
    BY <2>1, <2>3 DEF Gives
<1>2. IsFiniteSet(D) /\ N \in Nat /\ D \subseteq Int
  BY <1>0, <1>1, FS_CardinalityType DEF PositionInv
<1>3. Orders(R, D)
  BY <1>2, NumbersOrdered
<1>4. \A id \in D : remap(id) = Rank(R, D, id)
  <2> SUFFICES ASSUME NEW id \in D PROVE {other \in D : other < id} = Before(R, D, id)
    BY DEF remap, Rank
  <2> QED
    BY DEF Before, Ascending
<1>5. \A a, b \in D : a < b <=> <<a, b>> \in R
  BY DEF Ascending
<1> HIDE DEF R
<1>6. /\ \A id \in D : Rank(R, D, id) \in 0 .. (Cardinality(D) - 1)
      /\ \A a, b \in D : <<a, b>> \in R <=> Rank(R, D, a) < Rank(R, D, b)
      /\ \A a, b \in D : Rank(R, D, a) = Rank(R, D, b) => a = b
      /\ \A n \in 0 .. (Cardinality(D) - 1) : \E id \in D : Rank(R, D, id) = n
  <2>1. PICK d, q : d = D /\ q = R
    OBVIOUS
  <2>2. IsFiniteSet(d) /\ Orders(q, d)
    BY <1>2, <1>3, <2>1
  <2>3. /\ \A x \in d : Rank(q, d, x) \in 0 .. (Cardinality(d) - 1)
        /\ \A x, y \in d : <<x, y>> \in q <=> Rank(q, d, x) < Rank(q, d, y)
        /\ \A x, y \in d : Rank(q, d, x) = Rank(q, d, y) => x = y
        /\ \A n \in 0 .. (Cardinality(d) - 1) : \E x \in d : Rank(q, d, x) = n
    BY <2>2, RankPlaces
  <2> HIDE DEF D
  <2> QED
    BY <2>1, <2>3
<1>7. ASSUME NEW id \in D PROVE nodeAt(remap(id)) = id
  <2>1. nodeAt(remap(id)) \in D /\ remap(nodeAt(remap(id))) = remap(id)
    BY DEF nodeAt
  <2> QED
    BY <1>4, <1>6, <2>1
<1>8. \A id \in D : remap(id) \in 0 .. (N - 1) /\ nodeAt(remap(id)) = id
  BY <1>4, <1>6, <1>7
<1>9. ASSUME NEW a \in D, NEW b \in D PROVE a < b <=> remap(a) < remap(b)
  <2>1. remap(a) = Rank(R, D, a) /\ remap(b) = Rank(R, D, b)
    BY <1>4
  <2>2. a < b <=> <<a, b>> \in R
    BY <1>5
  <2>3. <<a, b>> \in R <=> Rank(R, D, a) < Rank(R, D, b)
    BY <1>6
  <2> QED
    BY <2>1, <2>2, <2>3
<1>10. \A n \in 0 .. (N - 1) : \E id \in D : remap(id) = n
  BY <1>4, <1>6
<1> QED
  BY <1>1, <1>2, <1>8, <1>9, <1>10

\* A graph of N nodes and m edges, edge e from from[e], that is made of the rows.
MadeOf(g, N, m, from) ==
    /\ N \in Nat /\ m \in Nat /\ N = Cardinality(DOMAIN nodePos) /\ m = Len(features)
    /\ DOMAIN g.nodes = 0 .. (N - 1) /\ DOMAIN g.edges = 0 .. (m - 1) /\ DOMAIN placed = 0 .. (m - 1)
    /\ \A id \in DOMAIN nodePos : g.nodes[remap(id)] = nodePos[id]
    /\ \A e \in 0 .. (m - 1) :
          /\ g.edges[e].segment = placed[e].segment_id
          /\ placed[e].source_node \in DOMAIN nodePos /\ placed[e].target_node \in DOMAIN nodePos
          /\ g.edges[e].from = remap(placed[e].source_node)
          /\ g.edges[e].to = remap(placed[e].target_node)
          /\ g.edges[e].from \in 0 .. (N - 1) /\ g.edges[e].to \in 0 .. (N - 1)
          /\ from[e] = g.edges[e].from
    /\ Sources(m, N, from)
    /\ g.csr = CSR(N, from)

LEMMA AssembledIsMade ==
  ASSUME Complete
  PROVE  \E N, m, from : MadeOf(assembled, N, m, from)
<1> DEFINE N == Cardinality(DOMAIN nodePos)
           m == Len(features)
           edges == [e \in DOMAIN placed |->
                        [segment |-> placed[e].segment_id, length |-> placed[e].length_m,
                         freeFlow |-> placed[e].freeflow_time_s, capacity |-> placed[e].capacity_vph,
                         from |-> remap(placed[e].source_node), to |-> remap(placed[e].target_node)]]
           nodes == [n \in 0 .. (N - 1) |-> nodePos[nodeAt(n)]]
           from == [e \in DOMAIN edges |-> edges[e].from]
<1>0. /\ PositionInv /\ PlacedInv /\ export \in Export /\ SeenRows = DOMAIN features
      /\ m \in Nat /\ DOMAIN features = 1 .. m
  BY FeaturesType DEF Complete, LoadInv, SeenRows
<1>1. /\ N \in Nat
      /\ \A id \in DOMAIN nodePos : remap(id) \in 0 .. (N - 1) /\ nodeAt(remap(id)) = id
  BY NodesRemapped
<1>2. \A i \in DOMAIN features : features[i].edge_id \in 0 .. (m - 1)
  BY <1>0, FeaturesType, EndsArePlaces DEF PlacedInv
<1>3. DOMAIN placed = 0 .. (m - 1)
  <2>1. {features[i].edge_id : i \in DOMAIN features} = 0 .. (m - 1)
    <3>1. \A i, j \in DOMAIN features : features[i].edge_id = features[j].edge_id => i = j
      BY <1>0 DEF PlacedInv
    <3> QED
      BY <1>0, <1>2, <3>1, RowNumbers
  <2>2. DOMAIN placed = {features[i].edge_id : i \in DOMAIN features}
    <3>1. \A i \in DOMAIN features : features[i].edge_id \in DOMAIN placed
      BY <1>0 DEF PlacedInv
    <3>2. \A e \in DOMAIN placed : \E i \in DOMAIN features : features[i].edge_id = e
      BY <1>0 DEF PlacedInv
    <3> QED
      BY <3>1, <3>2
  <2> QED
    BY <2>1, <2>2
<1>4. \A e \in DOMAIN placed : placed[e].source_node \in DOMAIN nodePos /\ placed[e].target_node \in DOMAIN nodePos
  <2> SUFFICES ASSUME NEW e \in DOMAIN placed
               PROVE  placed[e].source_node \in DOMAIN nodePos /\ placed[e].target_node \in DOMAIN nodePos
    OBVIOUS
  <2>1. PICK i \in SeenRows : features[i].edge_id = e
    BY <1>0 DEF PlacedInv
  <2>2. placed[e] = features[i]
    BY <1>0, <2>1 DEF PlacedInv
  <2> QED
    BY <1>0, <2>2 DEF PositionInv
<1>5. Cardinality(DOMAIN nodes) = N
  <2>1. DOMAIN nodes = 0 .. (N - 1) /\ 0 \in Int /\ N - 1 \in Int
    BY <1>1
  <2> QED
    BY <1>1, <2>1, FS_Interval
<1>6. /\ assembled.nodes = nodes /\ assembled.edges = edges
      /\ assembled.csr = CSR(Cardinality(DOMAIN nodes), from)
  BY DEF assembled
<1>7. /\ DOMAIN edges = 0 .. (m - 1)
      /\ \A e \in 0 .. (m - 1) : /\ edges[e].segment = placed[e].segment_id
                                 /\ edges[e].from = remap(placed[e].source_node)
                                 /\ edges[e].to = remap(placed[e].target_node)
  BY <1>3
<1> HIDE DEF edges
<1>8. /\ DOMAIN nodes = 0 .. (N - 1)
      /\ \A id \in DOMAIN nodePos : nodes[remap(id)] = nodePos[id]
  BY <1>1
<1> HIDE DEF nodes
<1>9. Sources(m, N, from)
  BY <1>0, <1>1, <1>3, <1>4, <1>7 DEF Sources
<1>10. \A e \in 0 .. (m - 1) : from[e] = edges[e].from
  BY <1>7
<1> HIDE DEF from
<1>11. MadeOf(assembled, N, m, from)
  <2>1. PICK k, l : k = N /\ l = m
    OBVIOUS
  <2>2. \A e \in 0 .. (l - 1) :
           /\ assembled.edges[e].segment = placed[e].segment_id
           /\ assembled.edges[e].from = remap(placed[e].source_node)
           /\ assembled.edges[e].to = remap(placed[e].target_node)
           /\ from[e] = assembled.edges[e].from
    BY <1>6, <1>7, <1>10, <2>1
  <2>3. \A e \in 0 .. (l - 1) :
           /\ placed[e].source_node \in DOMAIN nodePos /\ placed[e].target_node \in DOMAIN nodePos
           /\ remap(placed[e].source_node) \in 0 .. (k - 1) /\ remap(placed[e].target_node) \in 0 .. (k - 1)
    BY <1>1, <1>3, <1>4, <2>1
  <2>4. assembled.csr = CSR(k, from) /\ Sources(l, k, from)
    BY <1>5, <1>6, <1>9, <2>1
  <2>5. /\ k \in Nat /\ l \in Nat
        /\ DOMAIN assembled.nodes = 0 .. (k - 1) /\ DOMAIN assembled.edges = 0 .. (l - 1)
        /\ DOMAIN placed = 0 .. (l - 1)
        /\ \A id \in DOMAIN nodePos : assembled.nodes[remap(id)] = nodePos[id]
    BY <1>0, <1>1, <1>3, <1>6, <1>7, <1>8, <2>1
  <2>6. MadeOf(assembled, k, l, from)
    <3>1. k = Cardinality(DOMAIN nodePos) /\ l = Len(features)
      BY <2>1
    <3> HIDE DEF N, m
    <3> QED
      BY <2>2, <2>3, <2>4, <2>5, <3>1 DEF MadeOf
  <2> QED
    BY <2>1, <2>6
<1> QED
  BY <1>11

LEMMA AssembledIsDense == ASSUME Complete PROVE Dense(assembled)
<1>1. PICK N, m, from : MadeOf(assembled, N, m, from)
  BY AssembledIsMade
<1>2. DOMAIN assembled.edges = 0 .. (m - 1) /\ m \in Nat
  BY <1>1 DEF MadeOf
<1>3. Cardinality(DOMAIN assembled.edges) = m
  <2>1. 0 \in Int /\ m - 1 \in Int
    BY <1>2
  <2> QED
    BY <1>2, <2>1, FS_Interval
<1> QED
  BY <1>1, <1>2, <1>3 DEF MadeOf, Dense

LEMMA LoadNextLoads == LoadInv /\ LoadNext => LoadInv'
<1> SUFFICES ASSUME LoadInv, LoadNext PROVE LoadInv'
  OBVIOUS
<1>0. export' = export => /\ features' = features /\ Opens' = Opens
                          /\ WellFormed(Eps)' = WellFormed(Eps)
  BY DEF features, Opens, Envelope, WellFormed, EndsOf
<1>1. CASE Open
  <2>1. /\ phase = "open" /\ export' = export /\ row' = row /\ placed' = placed /\ nodePos' = nodePos
        /\ phase' = IF Opens THEN "rows" ELSE "rejected"
    BY <1>1 DEF Open, Opens
  <2>2. row = 0 /\ placed = Nothing /\ nodePos = Nothing
    BY <2>1 DEF LoadInv
  <2>3. SeenRows' = {}
    BY <2>1, <2>2 DEF SeenRows
  <2>4. PlacedInv' /\ PositionInv'
    BY <2>1, <2>2, <2>3, FS_EmptySet DEF PlacedInv, PositionInv, Nothing
  <2> QED
    BY <1>0, <2>1, <2>4 DEF LoadInv
<1>2. CASE AddRow
  BY <1>2, AddRowLoads
<1>3. CASE RejectRow
  <2>1. /\ phase = "rows" /\ row < Len(features) /\ ~Accepted(features[row + 1])
        /\ export' = export /\ row' = row /\ phase' = "rejected"
    BY <1>3 DEF RejectRow
  <2>2. ~WellFormed(Eps)
    BY <2>1, GoodRowsAccepted
  <2> QED
    BY <1>0, <2>1, <2>2 DEF LoadInv
<1>4. CASE Build
  <2>1. /\ phase = "rows" /\ row = Len(features) /\ Complete
        /\ UNCHANGED <<export, row, placed, nodePos>>
    BY <1>4 DEF Build, Complete
  <2>2. graph' = assembled /\ phase' = IF export.warn THEN "warn" ELSE "loaded"
    BY <1>4, <2>1, AssembledIsDense DEF Build
  <2>3. assembled' = assembled
    BY <2>1 DEF assembled, nodeAt, remap
  <2>4. PlacedInv' = PlacedInv /\ PositionInv' = PositionInv
    <3>1. UNCHANGED <<features, export, row, placed, nodePos>>
      BY <1>0, <2>1
    <3> QED
      BY <3>1 DEF PlacedInv, PositionInv, SeenRows, Gives
  <2> QED
    BY <1>0, <2>1, <2>2, <2>3, <2>4 DEF LoadInv
<1>5. CASE Warn
  <2>1. /\ phase = "warn" /\ phase' = "loaded" /\ UNCHANGED <<export, row, placed, nodePos, graph>>
    BY <1>5 DEF Warn
  <2>2. assembled' = assembled
    BY <2>1 DEF assembled, nodeAt, remap
  <2>4. report' = Warning /\ Warning' = Warning
    BY <1>5, <2>1 DEF Warn, Warning
  <2>3. PlacedInv' = PlacedInv /\ PositionInv' = PositionInv
    BY <1>0, <2>1 DEF PlacedInv, PositionInv, SeenRows, Gives
  <2> QED
    BY <1>0, <2>1, <2>2, <2>3, <2>4 DEF LoadInv
<1> QED
  BY <1>1, <1>2, <1>3, <1>4, <1>5 DEF LoadNext

\* A node lists its edges, each at its place.
LEMMA OutEdgesPlaced ==
  ASSUME NEW N, NEW m, NEW from, MadeOf(graph, N, m, from), NEW n \in 0 .. (N - 1),
         NEW o, o = outOffsets(N, from)
  PROVE  /\ OutEdgeIDs(n) \in [1 .. (o[n + 1] - o[n]) -> Int] /\ o[n + 1] - o[n] \in Nat
         /\ \A i \in 1 .. (o[n + 1] - o[n]) :
               /\ OutEdgeIDs(n)[i] \in DOMAIN from /\ from[OutEdgeIDs(n)[i]] = n
               /\ Place(from, OutEdgeIDs(n)[i]) = o[n] + i - 1
<1> DEFINE ids == scattered(o, N, from).ids
           k == o[n + 1] - o[n]
<1>0. Sources(m, N, from) /\ DOMAIN graph.nodes = 0 .. (N - 1) /\ m \in Nat /\ N \in Nat
  BY DEF MadeOf
<1>1. graph.csr.outOffsets = o /\ graph.csr.outEdgeIDs = ids
  BY DEF MadeOf, CSR
<1>2. OutEdgeIDs(n) = [i \in 1 .. k |-> ids[o[n] + i - 1]]
  BY <1>0, <1>1 DEF OutEdgeIDs
<1>3. n \in 0 .. N /\ n + 1 \in 0 .. N /\ n \in Int
  BY <1>0
<1>4. o[n] \in 0 .. m /\ o[n + 1] \in 0 .. m /\ o[n] <= o[n + 1]
  BY <1>0, <1>3, PlacesOfEdges
<1>5. k \in Nat
  BY <1>0, <1>4
<1>6. ASSUME NEW i \in 1 .. k
      PROVE  /\ ids[o[n] + i - 1] \in DOMAIN from /\ from[ids[o[n] + i - 1]] = n
             /\ Place(from, ids[o[n] + i - 1]) = o[n] + i - 1
  <2>1. PICK slot : slot = o[n] + i - 1
    OBVIOUS
  <2>2. slot \in 0 .. (m - 1) /\ o[n] <= slot /\ slot < o[n + 1] /\ slot \in Int
    <3>1. PICK low, high, j : low = o[n] /\ high = o[n + 1] /\ j = i
      OBVIOUS
    <3>2. low \in 0 .. m /\ high \in 0 .. m /\ j \in 1 .. (high - low) /\ slot = low + j - 1
      BY <1>4, <2>1, <3>1
    <3>3. slot \in 0 .. (m - 1) /\ low <= slot /\ slot < high
      BY <1>0, <3>2
    <3> QED
      BY <3>1, <3>3
  <2>3. PICK e \in DOMAIN from : Place(from, e) = slot
    BY <1>0, <2>2, PlacesOfEdges
  <2>4. ids[slot] = e
    BY <1>0, <2>3, ScatterPlaces
  <2>5. from[e] \in 0 .. (N - 1) /\ from[e] \in 0 .. N /\ from[e] + 1 \in 0 .. N
    BY <1>0 DEF Sources
  <2>6. o[from[e]] <= slot /\ slot < o[from[e] + 1]
    BY <1>0, <2>3, PlacesOfEdges
  <2>7. o[from[e]] \in Int /\ o[from[e] + 1] \in Int
    BY <1>0, <2>5, PlacesOfEdges
  <2>8. ~(from[e] < n)
    <3> SUFFICES ASSUME from[e] < n PROVE FALSE
      OBVIOUS
    <3>1. from[e] + 1 <= n
      BY <1>3, <2>5
    <3>2. o[from[e] + 1] <= o[n]
      <4>1. PICK next : next = from[e] + 1 /\ next \in 0 .. N /\ next <= n /\ n \in 0 .. N
        BY <1>3, <2>5, <3>1
      <4> QED
        BY <1>0, <4>1, PlacesOfEdges
    <3> QED
      BY <1>4, <2>2, <2>6, <2>7, <3>2
  <2>9. ~(n < from[e])
    <3> SUFFICES ASSUME n < from[e] PROVE FALSE
      OBVIOUS
    <3>1. n + 1 <= from[e]
      BY <1>3, <2>5
    <3>2. o[n + 1] <= o[from[e]]
      BY <1>0, <1>3, <2>5, <3>1, PlacesOfEdges
    <3> QED
      BY <1>4, <2>2, <2>6, <2>7, <3>2
  <2>10. from[e] = n
    BY <1>3, <2>5, <2>8, <2>9
  <2> HIDE DEF ids
  <2> QED
    BY <2>1, <2>3, <2>4, <2>10
<1>7. \A e \in DOMAIN from : e \in Int
  BY <1>0, EdgesFinite
<1> HIDE DEF ids, k
<1>8. OutEdgeIDs(n) \in [1 .. k -> Int]
  BY <1>2, <1>6, <1>7
<1>9. \A i \in 1 .. k : OutEdgeIDs(n)[i] = ids[o[n] + i - 1]
  BY <1>2
<1> QED
  BY <1>5, <1>6, <1>8, <1>9 DEF k

LEMMA OutEdgesExact ==
  ASSUME NEW N, NEW m, NEW from, MadeOf(graph, N, m, from), NEW n \in DOMAIN graph.nodes
  PROVE  /\ ToSet(OutEdgeIDs(n)) = {e \in DOMAIN graph.edges : graph.edges[e].from = n}
         /\ \A i \in 1 .. (Len(OutEdgeIDs(n)) - 1) : OutEdgeIDs(n)[i] < OutEdgeIDs(n)[i + 1]
<1>1. PICK o : o = outOffsets(N, from)
  OBVIOUS
<1>2. PICK q, k : q = OutEdgeIDs(n) /\ k = o[n + 1] - o[n]
  OBVIOUS
<1>0. /\ Sources(m, N, from) /\ m \in Nat /\ N \in Nat /\ n \in 0 .. (N - 1)
      /\ DOMAIN from = 0 .. (m - 1) /\ DOMAIN graph.edges = 0 .. (m - 1)
      /\ \A e \in 0 .. (m - 1) : from[e] = graph.edges[e].from
  BY EdgesFinite DEF MadeOf
<1>3. /\ q \in [1 .. k -> Int] /\ k \in Nat
      /\ \A i \in 1 .. k : /\ q[i] \in DOMAIN from /\ from[q[i]] = n
                          /\ Place(from, q[i]) = o[n] + i - 1
  BY <1>0, <1>1, <1>2, OutEdgesPlaced
<1>4. Len(q) = k /\ DOMAIN q = 1 .. k /\ q \in Seq(Int)
  BY <1>3
<1>5. o[n] \in Int /\ o[n + 1] \in Int
  <2>1. n \in 0 .. N /\ n + 1 \in 0 .. N
    BY <1>0
  <2> QED
    BY <1>0, <1>1, <2>1, PlacesOfEdges
<1>6. ToSet(q) = {e \in DOMAIN graph.edges : graph.edges[e].from = n}
  <2>1. ASSUME NEW e \in DOMAIN from, from[e] = n PROVE \E i \in 1 .. k : q[i] = e
    <3>1. o[n] <= Place(from, e) /\ Place(from, e) < o[n + 1] /\ Place(from, e) \in 0 .. (m - 1)
      BY <1>0, <1>1, <2>1, PlacesOfEdges
    <3>2. PICK i : i = Place(from, e) - o[n] + 1
      OBVIOUS
    <3>3. i \in 1 .. k /\ o[n] + i - 1 = Place(from, e)
      <4>1. PICK low, high, p : low = o[n] /\ high = o[n + 1] /\ p = Place(from, e)
        OBVIOUS
      <4>2. /\ low \in Int /\ high \in Int /\ p \in Int /\ low <= p /\ p < high
            /\ k = high - low /\ i = p - low + 1
        BY <1>2, <1>5, <3>1, <3>2, <4>1
      <4>3. i \in 1 .. k /\ low + i - 1 = p
        BY <4>2
      <4> QED
        BY <4>1, <4>3
    <3>4. Place(from, q[i]) = Place(from, e) /\ q[i] \in DOMAIN from
      BY <1>3, <3>3
    <3>5. q[i] = e
      <4>1. \A c, d \in DOMAIN from : Place(from, c) = Place(from, d) => c = d
        BY <1>0, <1>1, PlacesOfEdges
      <4> QED
        BY <3>4, <4>1
    <3> QED
      BY <3>3, <3>5
  <2> QED
    <3>1. ToSet(q) = {q[i] : i \in 1 .. k}
      BY <1>4 DEF ToSet
    <3>2. \A e \in DOMAIN graph.edges : graph.edges[e].from = n => \E i \in 1 .. k : q[i] = e
      BY <1>0, <2>1
    <3>3. \A i \in 1 .. k : q[i] \in DOMAIN graph.edges /\ graph.edges[q[i]].from = n
      BY <1>0, <1>3
    <3> QED
      BY <3>1, <3>2, <3>3
<1>7. ASSUME NEW i \in 1 .. (k - 1) PROVE q[i] < q[i + 1]
  <2>1. i \in 1 .. k /\ i + 1 \in 1 .. k
    BY <1>3
  <2>2. Place(from, q[i]) < Place(from, q[i + 1])
    BY <1>3, <1>5, <2>1
  <2>3. <<q[i], q[i + 1]>> \in ByNode(from)
    BY <1>0, <1>1, <1>3, <2>1, <2>2, PlacesOfEdges
  <2>4. from[q[i]] = n /\ from[q[i + 1]] = n /\ n \in Int
    BY <1>0, <1>3, <2>1
  <2> QED
    BY <2>3, <2>4 DEF ByNode
<1> QED
  BY <1>2, <1>4, <1>6, <1>7

LEMMA LoadedIsFaithful == ASSUME LoadInv, phase \in {"warn", "loaded"} PROVE Faithful
<1>0. /\ Complete /\ graph = assembled /\ export \in Export
      /\ PlacedInv /\ PositionInv /\ SeenRows = DOMAIN features
  BY FeaturesType DEF LoadInv, Complete, SeenRows
<1>1. PICK N, m, from : MadeOf(graph, N, m, from)
  BY <1>0, AssembledIsMade
<1>2. /\ N = Cardinality(DOMAIN nodePos) /\ DOMAIN graph.nodes = 0 .. (N - 1)
      /\ DOMAIN placed = 0 .. (m - 1)
  BY <1>1 DEF MadeOf
<1>3. /\ DOMAIN nodePos \subseteq Nat
      /\ \A id \in DOMAIN nodePos : remap(id) \in 0 .. (N - 1)
      /\ \A a, b \in DOMAIN nodePos : a < b <=> remap(a) < remap(b)
      /\ \A n \in 0 .. (N - 1) : \E id \in DOMAIN nodePos : remap(id) = n
  BY <1>0, <1>2, NodesRemapped
<1> DEFINE edge(i) == graph.edges[features[i].edge_id]
           joined == UNION {{<<features[i].source_node, edge(i).from>>,
                             <<features[i].target_node, edge(i).to>>} : i \in DOMAIN features}
<1>4. ASSUME NEW i \in DOMAIN features
      PROVE  /\ features[i].source_node \in DOMAIN nodePos /\ features[i].target_node \in DOMAIN nodePos
             /\ edge(i).segment = features[i].segment_id
             /\ edge(i).from = remap(features[i].source_node)
             /\ edge(i).to = remap(features[i].target_node)
  <2>1. features[i].edge_id \in 0 .. (m - 1) /\ placed[features[i].edge_id] = features[i]
    BY <1>0, <1>2 DEF PlacedInv
  <2> QED
    BY <1>1, <2>1 DEF MadeOf
<1>5. ASSUME NEW i \in DOMAIN features
      PROVE  /\ ~Apart(graph.nodes[edge(i).from], first(features[i]), Eps)
             /\ ~Apart(graph.nodes[edge(i).to], last(features[i]), Eps)
  <2>1. /\ graph.nodes[edge(i).from] = nodePos[features[i].source_node]
        /\ graph.nodes[edge(i).to] = nodePos[features[i].target_node]
    BY <1>1, <1>4 DEF MadeOf
  <2> QED
    BY <1>0, <2>1 DEF PositionInv, Near
<1> HIDE DEF edge
<1>6. ASSUME NEW a \in joined PROVE a[1] \in DOMAIN nodePos /\ a[2] = remap(a[1])
  BY <1>4
<1>7. ASSUME NEW id \in DOMAIN nodePos PROVE \E a \in joined : a[2] = remap(id)
  <2>1. PICK i \in SeenRows : Gives(i, id, nodePos[id])
    BY <1>0 DEF PositionInv
  <2>2. /\ <<features[i].source_node, edge(i).from>> \in joined
        /\ <<features[i].target_node, edge(i).to>> \in joined
    BY <1>0
  <2>3. features[i].source_node = id \/ features[i].target_node = id
    BY <2>1 DEF Gives
  <2>4. <<id, remap(id)>> \in joined
    BY <1>0, <1>4, <2>2, <2>3
  <2> QED
    BY <2>4
<1> HIDE DEF joined
<1>8. \A a, b \in joined : a[1] < b[1] <=> a[2] < b[2]
  BY <1>3, <1>6
<1>9. {a[2] : a \in joined} = DOMAIN graph.nodes
  BY <1>2, <1>3, <1>6, <1>7
<1>10. \A n \in DOMAIN graph.nodes :
         /\ ToSet(OutEdgeIDs(n)) = {e \in DOMAIN graph.edges : graph.edges[e].from = n}
         /\ \A i \in 1 .. (Len(OutEdgeIDs(n)) - 1) : OutEdgeIDs(n)[i] < OutEdgeIDs(n)[i + 1]
  BY <1>1, OutEdgesExact
<1> QED
  BY <1>4, <1>5, <1>8, <1>9, <1>10 DEF Faithful, joined, edge

LEMMA LoadInvPromises == LoadInv => LoadedIsTheExport
<1> SUFFICES ASSUME LoadInv PROVE LoadedIsTheExport
  OBVIOUS
<1>1. phase = "rejected" => ~((\A b \in export.bounds : ValidBounds(b)) /\ Envelope /\ WellFormed(Eps))
  BY DEF LoadInv, Opens
<1>2. phase = "loaded" => Envelope /\ WellFormed(2 * Eps) /\ Faithful
  BY LoadedRowsGood, LoadedIsFaithful DEF LoadInv, Opens
<1> QED
  BY <1>1, <1>2 DEF LoadedIsTheExport

-----------------------------------------------------------------------------
(* The disjoint sets of connectivity.go.                                    *)

\* A link leads to a node of a higher rank.
Forest(parent, rank, ids) ==
    /\ parent \in [ids -> ids] /\ rank \in [ids -> Nat]
    /\ \A x \in ids : parent[x] # x => rank[x] < rank[parent[x]]

\* label[x] is the root that the links of x lead to.
Labels(parent, label, ids) ==
    /\ label \in [ids -> ids]
    /\ \A x \in ids :
          /\ label[parent[x]] = label[x] /\ parent[label[x]] = label[x]
          /\ parent[x] = x => label[x] = x

\* The walk at x goes to y and leaves the links q.
Climbs(parent, rank, label, ids, x, q, y) ==
    /\ Halve([parent |-> parent, root |-> x]) = [parent |-> q, root |-> y]
    /\ Forest(q, rank, ids) /\ Labels(q, label, ids)
    /\ y \in ids /\ label[y] = label[x]
    /\ parent[x] = x => q = parent /\ y = x
    /\ parent[x] # x => rank[x] < rank[y]

\* A step of the walk keeps every root, and climbs.
LEMMA HalveKeeps ==
  ASSUME NEW ids, NEW parent, NEW rank, NEW label, NEW x \in ids,
         Forest(parent, rank, ids), Labels(parent, label, ids)
  PROVE  \E q, y : Climbs(parent, rank, label, ids, x, q, y)
<1>1. CASE parent[x] = x
  <2>1. Climbs(parent, rank, label, ids, x, parent, x)
    BY <1>1 DEF Halve, Climbs
  <2> QED
    BY <2>1
<1>2. CASE parent[x] # x
  <2> DEFINE up == parent[parent[x]]
             p == [parent EXCEPT ![x] = up]
  <2>1. parent[x] \in ids /\ up \in ids /\ \A z \in ids : rank[z] \in Nat
    BY DEF Forest
  <2>2. rank[x] < rank[parent[x]]
    BY <1>2 DEF Forest
  <2>3. rank[x] < rank[up]
    <3>1. CASE up = parent[x]
      BY <2>2, <3>1
    <3>2. CASE up # parent[x]
      <4>1. rank[parent[x]] < rank[up]
        BY <2>1, <3>2 DEF Forest
      <4> QED
        BY <2>1, <2>2, <4>1
    <3> QED
      BY <3>1, <3>2
  <2>4. up # x
    BY <2>1, <2>3
  <2>5. label[up] = label[x]
    BY <2>1 DEF Labels
  <2>6. Halve([parent |-> parent, root |-> x]) = [parent |-> p, root |-> up]
    BY <1>2 DEF Halve
  <2>7. p \in [ids -> ids] /\ p[x] = up /\ \A z \in ids : z # x => p[z] = parent[z]
    BY <2>1 DEF Forest
  <2> HIDE DEF p, up
  <2>8. Forest(p, rank, ids)
    BY <2>3, <2>7 DEF Forest
  <2>9. Labels(p, label, ids)
    <3>1. \A z \in ids : label[z] # x
      BY <1>2 DEF Labels
    <3>2. \A z \in ids : label[z] \in ids
      BY DEF Labels
    <3> QED
      BY <2>4, <2>5, <2>7, <3>1, <3>2 DEF Labels
  <2>10. Climbs(parent, rank, label, ids, x, p, up)
    BY <1>2, <2>1, <2>3, <2>5, <2>6, <2>8, <2>9 DEF Climbs
  <2> QED
    BY <2>10
<1> QED
  BY <1>1, <1>2

LEMMA FindRecurs ==
  ASSUME NEW ids, IsFiniteSet(ids), NEW parent \in [ids -> ids], NEW x \in ids
  PROVE  \E w : /\ w[0] = [parent |-> parent, root |-> x]
                /\ \A i \in 1 .. Cardinality(ids) : w[i] = Halve(w[i - 1])
                /\ find(parent, x) = w[Cardinality(ids)]
<1> DEFINE N == Cardinality(ids)
           T == [parent : [ids -> ids], root : ids]
           b == [parent |-> parent, root |-> x]
           g == [i \in 1 .. N |-> [st \in T |-> Halve(st)]]
<1>0. N \in Nat /\ DOMAIN parent = ids
  BY FS_CardinalityType
<1>1. b \in T
  OBVIOUS
<1>2. ASSUME NEW st \in T PROVE Halve(st) \in T
  <2>1. PICK p \in [ids -> ids], r \in ids : st = [parent |-> p, root |-> r]
    OBVIOUS
  <2>2. p[p[r]] \in ids /\ [p EXCEPT ![r] = p[p[r]]] \in [ids -> ids]
    OBVIOUS
  <2>3. Halve(st) = IF p[r] = r THEN st ELSE [parent |-> [p EXCEPT ![r] = p[p[r]]], root |-> p[p[r]]]
    BY <2>1 DEF Halve
  <2> QED
    BY <2>2, <2>3
<1>3. g \in [1 .. N -> [T -> T]]
  <2> HIDE DEF T
  <2> QED
    BY <1>2
<1>4. PICK f \in [0 .. N -> T] : \A i \in 0 .. N : f[i] = IF i = 0 THEN b ELSE g[i][f[i - 1]]
  <2> HIDE DEF T, g, b, N
  <2>1. PICK f \in [0 .. N -> T] : IteratesUpto(N, f, b, g)
    BY <1>0, <1>1, <1>3, UptoRecursion
  <2> QED
    BY <2>1 DEF IteratesUpto
<1>5. \A i \in 0 .. N : f[i] = IF i = 0 THEN b ELSE Halve(f[i - 1])
  <2> SUFFICES ASSUME NEW i \in 0 .. N, i # 0 PROVE f[i] = Halve(f[i - 1])
    BY <1>0, <1>4
  <2>1. i - 1 \in 0 .. N /\ i \in 1 .. N
    BY <1>0
  <2> HIDE DEF T, b
  <2> QED
    BY <1>4, <2>1
<1> HIDE DEF g, T
<1> DEFINE w == CHOOSE w : w = [i \in 0 .. N |-> IF i = 0 THEN b ELSE Halve(w[i - 1])]
<1>6. f = [i \in 0 .. N |-> IF i = 0 THEN b ELSE Halve(f[i - 1])]
  <2>1. f = [i \in 0 .. N |-> f[i]]
    BY <1>4
  <2> QED
    BY <1>5, <2>1
<1>7. w = [i \in 0 .. N |-> IF i = 0 THEN b ELSE Halve(w[i - 1])]
  BY <1>6
<1>8. find(parent, x) = w[N]
  BY <1>0 DEF find
<1> HIDE DEF w
<1>9. w[0] = b /\ \A i \in 1 .. N : w[i] = Halve(w[i - 1])
  BY <1>0, <1>7
<1> QED
  BY <1>8, <1>9

\* The fuel is enough: find returns the root.
LEMMA FindRoot ==
  ASSUME NEW ids, IsFiniteSet(ids), NEW parent, NEW rank, NEW label, NEW x \in ids,
         Forest(parent, rank, ids), Labels(parent, label, ids)
  PROVE  /\ find(parent, x).root = label[x]
         /\ Forest(find(parent, x).parent, rank, ids) /\ Labels(find(parent, x).parent, label, ids)
<1> DEFINE N == Cardinality(ids)
<1>0. N \in Nat /\ parent \in [ids -> ids] /\ \A z \in ids : rank[z] \in Nat
  BY FS_CardinalityType DEF Forest
<1>1. PICK w : /\ w[0] = [parent |-> parent, root |-> x]
               /\ \A i \in 1 .. N : w[i] = Halve(w[i - 1])
               /\ find(parent, x) = w[N]
  BY <1>0, FindRecurs
<1> DEFINE Under0(i, y) == \E V \in SUBSET ids : Cardinality(V) = i /\ \A v \in V : rank[v] < rank[y]
           At(i, p, y) == /\ w[i] = [parent |-> p, root |-> y] /\ y \in ids /\ label[y] = label[x]
                          /\ Forest(p, rank, ids) /\ Labels(p, label, ids)
                          /\ p[y] = y \/ Under0(i, y)
           I == {i \in Nat : i <= N => \E p, y : At(i, p, y)}
<1>2. 0 \in I
  <2>1. Under0(0, x)
    <3>1. Cardinality({}) = 0 /\ {} \in SUBSET ids
      BY FS_EmptySet
    <3> QED
      BY <3>1
  <2> HIDE DEF Under0
  <2>2. At(0, parent, x)
    BY <1>1, <2>1
  <2> HIDE DEF At
  <2> QED
    BY <2>2
<1>3. ASSUME NEW i \in Nat, i \in I PROVE i + 1 \in I
  <2> HIDE DEF At
  <2> SUFFICES ASSUME i + 1 <= N PROVE \E p, y : At(i + 1, p, y)
    OBVIOUS
  <2>1. i + 1 \in 1 .. N /\ (i + 1) - 1 = i /\ i <= N
    BY <1>0
  <2>2. PICK p, y : At(i, p, y)
    BY <1>3, <2>1
  <2> USE DEF At
  <2>a. y \in ids /\ Forest(p, rank, ids) /\ Labels(p, label, ids)
    BY <2>2
  <2>b. PICK q, z : Climbs(p, rank, label, ids, y, q, z)
    BY <2>a, HalveKeeps
  <2>3. /\ Halve([parent |-> p, root |-> y]) = [parent |-> q, root |-> z]
        /\ Forest(q, rank, ids) /\ Labels(q, label, ids)
        /\ z \in ids /\ label[z] = label[y]
        /\ p[y] = y => q = p /\ z = y
        /\ p[y] # y => rank[y] < rank[z]
    BY <2>b DEF Climbs
  <2>4. w[i + 1] = [parent |-> q, root |-> z]
    BY <1>1, <2>1, <2>2, <2>3
  <2>5. q[z] = z \/ Under0(i + 1, z)
    <3>1. CASE p[y] = y
      BY <2>3, <3>1
    <3>2. CASE p[y] # y
      <4>1. PICK V \in SUBSET ids : Cardinality(V) = i /\ \A v \in V : rank[v] < rank[y]
        BY <2>2, <3>2
      <4>2. rank[y] < rank[z] /\ y \in ids
        BY <2>2, <2>3, <3>2
      <4>3. y \notin V
        BY <1>0, <4>1, <4>2
      <4>4. IsFiniteSet(V)
        BY FS_Subset
      <4>5. Cardinality(V \cup {y}) = i + 1 /\ V \cup {y} \in SUBSET ids
        BY <4>1, <4>2, <4>3, <4>4, FS_AddElement
      <4>6. \A v \in V \cup {y} : rank[v] < rank[z]
        BY <1>0, <2>3, <4>1, <4>2
      <4> QED
        BY <4>5, <4>6
    <3> QED
      BY <3>1, <3>2
  <2> HIDE DEF Under0
  <2>6. At(i + 1, q, z)
    BY <2>2, <2>3, <2>4, <2>5
  <2> HIDE DEF At
  <2> QED
    BY <2>6
<1>4. Nat \subseteq I
  <2> HIDE DEF I
  <2> QED
    BY <1>2, <1>3, NatSetInduction
<1>5. PICK p, y : At(N, p, y)
  <2> HIDE DEF At
  <2> QED
    BY <1>0, <1>4
<1>6. p[y] = y
  <2> SUFFICES ASSUME NEW V \in SUBSET ids, Cardinality(V) = N, \A v \in V : rank[v] < rank[y] PROVE FALSE
    BY <1>5
  <2>1. V = ids
    BY FS_Subset
  <2>2. rank[y] < rank[y] /\ rank[y] \in Nat
    BY <1>0, <1>5, <2>1
  <2> QED
    BY <2>2
<1>7. label[y] = y
  BY <1>5, <1>6 DEF Labels
<1> QED
  BY <1>1, <1>5, <1>7

Relabel(label, c, r, ids) == [x \in ids |-> IF label[x] = c THEN r ELSE label[x]]

Links(uf, label, ids) ==
    /\ uf = [parent |-> uf.parent, rank |-> uf.rank]
    /\ Forest(uf.parent, uf.rank, ids) /\ Labels(uf.parent, label, ids)

\* One root put under another.
LEMMA LinkRoots ==
  ASSUME NEW ids, NEW parent, NEW rank, NEW label, Forest(parent, rank, ids), Labels(parent, label, ids),
         NEW c \in ids, NEW r \in ids, c # r, label[c] = c, label[r] = r,
         NEW up \in [ids -> Nat], \A x \in ids : rank[x] <= up[x],
         \A x \in ids : x # r => up[x] = rank[x], rank[c] < up[r]
  PROVE  /\ Forest([parent EXCEPT ![c] = r], up, ids)
         /\ Labels([parent EXCEPT ![c] = r], Relabel(label, c, r, ids), ids)
<1>1. PICK p : p = [parent EXCEPT ![c] = r]
  OBVIOUS
<1>2. PICK m : m = Relabel(label, c, r, ids)
  OBVIOUS
<1>3. p \in [ids -> ids] /\ p[c] = r /\ \A x \in ids : x # c => p[x] = parent[x]
  BY <1>1 DEF Forest
<1>4. m \in [ids -> ids] /\ \A x \in ids : m[x] = IF label[x] = c THEN r ELSE label[x]
  BY <1>2 DEF Relabel, Labels
<1>5. parent[r] = r /\ parent[c] = c
  BY DEF Labels
<1>6. Forest(p, up, ids)
  <2>1. ASSUME NEW x \in ids, p[x] # x PROVE up[x] < up[p[x]]
    <3>1. CASE x = c
      BY <1>3, <3>1
    <3>2. CASE x # c
      <4>1. p[x] = parent[x] /\ parent[x] \in ids /\ rank[x] < rank[parent[x]] /\ x # r
        BY <1>3, <1>5, <2>1, <3>2 DEF Forest
      <4>2. up[x] = rank[x] /\ rank[parent[x]] <= up[parent[x]] /\ up[parent[x]] \in Nat
            /\ rank[x] \in Nat /\ rank[parent[x]] \in Nat
        BY <4>1 DEF Forest
      <4> QED
        BY <4>1, <4>2
    <3> QED
      BY <3>1, <3>2
  <2> QED
    BY <1>3, <2>1 DEF Forest
<1>7. Labels(p, m, ids)
  <2>1. \A x \in ids : parent[x] \in ids /\ label[x] \in ids
    BY DEF Forest, Labels
  <2>2. ASSUME NEW x \in ids PROVE m[p[x]] = m[x]
    BY <1>3, <1>4, <2>1 DEF Labels
  <2>3. ASSUME NEW x \in ids PROVE p[m[x]] = m[x]
    BY <1>3, <1>4, <1>5, <2>1 DEF Labels
  <2>4. ASSUME NEW x \in ids, p[x] = x PROVE m[x] = x
    BY <1>3, <1>4, <2>1, <2>4 DEF Labels
  <2> QED
    BY <1>4, <2>2, <2>3, <2>4 DEF Labels
<1> QED
  BY <1>1, <1>2, <1>6, <1>7

LEMMA UnionLinks ==
  ASSUME NEW ids, IsFiniteSet(ids), NEW uf, NEW label, Links(uf, label, ids), NEW a \in ids, NEW b \in ids
  PROVE  \E c, r \in ids : {c, r} = {label[a], label[b]} /\ Links(union(uf, a, b), Relabel(label, c, r, ids), ids)
<1> DEFINE left == find(uf.parent, a)
           right == find(left.parent, b)
<1>1. PICK parent, rank : uf.parent = parent /\ uf.rank = rank /\ uf = [parent |-> parent, rank |-> rank]
  BY DEF Links
<1>2. Forest(parent, rank, ids) /\ Labels(parent, label, ids)
  BY <1>1 DEF Links
<1>3. /\ left.root = label[a] /\ Forest(left.parent, rank, ids) /\ Labels(left.parent, label, ids)
  BY <1>1, <1>2, FindRoot
<1>4. PICK l, lp : l = left.root /\ lp = left.parent
  OBVIOUS
<1>5. /\ right.root = label[b] /\ Forest(right.parent, rank, ids) /\ Labels(right.parent, label, ids)
  <2>1. /\ find(lp, b).root = label[b] /\ Forest(find(lp, b).parent, rank, ids)
        /\ Labels(find(lp, b).parent, label, ids)
    BY <1>3, <1>4, FindRoot
  <2> QED
    BY <1>4, <2>1
<1>6. PICK r, p : r = right.root /\ p = right.parent
  OBVIOUS
<1>7. /\ l \in ids /\ r \in ids /\ label[l] = l /\ label[r] = r /\ l = label[a] /\ r = label[b]
      /\ Forest(p, rank, ids) /\ Labels(p, label, ids) /\ \A x \in ids : rank[x] \in Nat
      /\ rank \in [ids -> Nat] /\ label \in [ids -> ids]
  <2>1. l \in ids /\ r \in ids
    BY <1>3, <1>4, <1>5, <1>6 DEF Labels
  <2>2. Forest(p, rank, ids) /\ Labels(p, label, ids)
    BY <1>5, <1>6
  <2>3. p[l] = l /\ p[r] = r
    BY <1>3, <1>4, <1>5, <1>6, <2>2 DEF Labels
  <2> QED
    BY <1>3, <1>4, <1>5, <1>6, <2>1, <2>2, <2>3 DEF Labels, Forest
<1>8. /\ l = r => union(uf, a, b) = [parent |-> p, rank |-> rank]
      /\ l # r /\ rank[l] < rank[r] =>
            union(uf, a, b) = [parent |-> [p EXCEPT ![l] = r], rank |-> rank]
      /\ l # r /\ rank[l] > rank[r] =>
            union(uf, a, b) = [parent |-> [p EXCEPT ![r] = l], rank |-> rank]
      /\ l # r /\ ~(rank[l] < rank[r]) /\ ~(rank[l] > rank[r]) =>
            union(uf, a, b) = [parent |-> [p EXCEPT ![r] = l], rank |-> [rank EXCEPT ![l] = @ + 1]]
  <2>1. union(uf, a, b) =
        CASE l = r -> [uf EXCEPT !.parent = p]
          [] rank[l] < rank[r] -> [uf EXCEPT !.parent = [p EXCEPT ![l] = r]]
          [] rank[l] > rank[r] -> [uf EXCEPT !.parent = [p EXCEPT ![r] = l]]
          [] OTHER -> [parent |-> [p EXCEPT ![r] = l], rank |-> [rank EXCEPT ![l] = @ + 1]]
    <3> HIDE DEF left, right
    <3>1. PICK le, ri : le = find(uf.parent, a) /\ ri = find(le.parent, b)
      OBVIOUS
    <3>2. l = le.root /\ r = ri.root /\ p = ri.parent
      BY <1>4, <1>6, <3>1 DEF left, right
    <3>3. union(uf, a, b) =
            CASE le.root = ri.root -> [uf EXCEPT !.parent = ri.parent]
              [] uf.rank[le.root] < uf.rank[ri.root] -> [uf EXCEPT !.parent = [ri.parent EXCEPT ![le.root] = ri.root]]
              [] uf.rank[le.root] > uf.rank[ri.root] -> [uf EXCEPT !.parent = [ri.parent EXCEPT ![ri.root] = le.root]]
              [] OTHER -> [parent |-> [ri.parent EXCEPT ![ri.root] = le.root],
                           rank |-> [uf.rank EXCEPT ![le.root] = @ + 1]]
      BY <3>1, Zenon DEF union
    <3> QED
      BY <1>1, <3>2, <3>3
  <2>2. ASSUME NEW q PROVE [uf EXCEPT !.parent = q] = [parent |-> q, rank |-> rank]
    BY <1>1
  <2>3. l # r /\ rank[l] > rank[r] => ~(rank[l] < rank[r])
    BY <1>7
  <2>4. PICK v : v = union(uf, a, b)
    OBVIOUS
  <2>5. v = CASE l = r -> [parent |-> p, rank |-> rank]
              [] rank[l] < rank[r] -> [parent |-> [p EXCEPT ![l] = r], rank |-> rank]
              [] rank[l] > rank[r] -> [parent |-> [p EXCEPT ![r] = l], rank |-> rank]
              [] OTHER -> [parent |-> [p EXCEPT ![r] = l], rank |-> [rank EXCEPT ![l] = @ + 1]]
    BY <2>1, <2>2, <2>4
  <2>6. \A x \in ids : ~(rank[x] < rank[x])
    BY <1>7
  <2>7. l = r => v = [parent |-> p, rank |-> rank]
    BY <1>7, <2>5, <2>6
  <2>8. l # r /\ rank[l] < rank[r] => v = [parent |-> [p EXCEPT ![l] = r], rank |-> rank]
    BY <1>7, <2>5
  <2>9. l # r /\ rank[l] > rank[r] => v = [parent |-> [p EXCEPT ![r] = l], rank |-> rank]
    BY <1>7, <2>3, <2>5
  <2>10. l # r /\ ~(rank[l] < rank[r]) /\ ~(rank[l] > rank[r]) =>
            v = [parent |-> [p EXCEPT ![r] = l], rank |-> [rank EXCEPT ![l] = @ + 1]]
    BY <2>5
  <2> QED
    BY <2>4, <2>7, <2>8, <2>9, <2>10
<1> HIDE DEF left, right
<1> DEFINE u == union(uf, a, b)
<1>b. \A x \in ids : rank[x] <= rank[x]
  BY <1>7
<1>9. CASE l = r
  <2>1. u = [parent |-> p, rank |-> rank]
    BY <1>8, <1>9
  <2>2. Relabel(label, l, r, ids) = label
    BY <1>7, <1>9 DEF Relabel
  <2>3. Links(u, Relabel(label, l, r, ids), ids)
    <3> HIDE DEF u
    <3> QED
      BY <1>7, <2>1, <2>2 DEF Links
  <2> QED
    BY <1>7, <2>3
<1>10. CASE l # r /\ rank[l] < rank[r]
  <2>1. u = [parent |-> [p EXCEPT ![l] = r], rank |-> rank]
    BY <1>8, <1>10
  <2>2. /\ Forest([p EXCEPT ![l] = r], rank, ids)
        /\ Labels([p EXCEPT ![l] = r], Relabel(label, l, r, ids), ids)
    <3>1. \A x \in ids : rank[x] <= rank[x]
      BY <1>7
    <3> QED
      BY <1>7, <1>10, <3>1, LinkRoots
  <2>3. Links(u, Relabel(label, l, r, ids), ids)
    <3> HIDE DEF u
    <3> QED
      BY <2>1, <2>2 DEF Links
  <2> QED
    BY <1>7, <2>3
<1>11. CASE l # r /\ ~(rank[l] < rank[r])
  <2>1. PICK up : /\ u = [parent |-> [p EXCEPT ![r] = l], rank |-> up] /\ up \in [ids -> Nat]
                  /\ \A x \in ids : rank[x] <= up[x] /\ (x # l => up[x] = rank[x])
                  /\ rank[r] < up[l]
    <3>1. CASE rank[l] > rank[r]
      <4>1. u = [parent |-> [p EXCEPT ![r] = l], rank |-> rank]
        BY <1>8, <1>11, <3>1
      <4> HIDE DEF u
      <4> QED
        BY <1>7, <1>b, <3>1, <4>1
    <3>2. CASE ~(rank[l] > rank[r])
      <4>1. PICK h \in Nat : h = rank[l]
        BY <1>7
      <4>2. u = [parent |-> [p EXCEPT ![r] = l], rank |-> [rank EXCEPT ![l] = h + 1]]
        BY <1>8, <1>11, <3>2, <4>1
      <4> HIDE DEF u
      <4>3. PICK up : up = [rank EXCEPT ![l] = h + 1]
        OBVIOUS
      <4>4. up \in [ids -> Nat] /\ up[l] = h + 1 /\ \A x \in ids : x # l => up[x] = rank[x]
        BY <1>7, <4>3
      <4>5. rank[r] = h
        BY <1>7, <1>11, <3>2, <4>1
      <4>6. \A x \in ids : rank[x] <= up[x]
        BY <1>7, <1>b, <4>1, <4>4
      <4>7. u = [parent |-> [p EXCEPT ![r] = l], rank |-> up]
        BY <4>2, <4>3
      <4>8. rank[r] < up[l]
        BY <4>4, <4>5
      <4> QED
        BY <4>4, <4>6, <4>7, <4>8
    <3> QED
      BY <3>1, <3>2
  <2> HIDE DEF u
  <2>2. /\ Forest([p EXCEPT ![r] = l], up, ids)
        /\ Labels([p EXCEPT ![r] = l], Relabel(label, r, l, ids), ids)
    <3>1. /\ \A x \in ids : rank[x] <= up[x]
          /\ \A x \in ids : x # l => up[x] = rank[x]
      BY <2>1
    <3>2. /\ Forest(p, rank, ids) /\ Labels(p, label, ids) /\ l \in ids /\ r \in ids /\ r # l
          /\ label[r] = r /\ label[l] = l /\ up \in [ids -> Nat] /\ rank[r] < up[l]
      BY <1>7, <1>11, <2>1
    <3> QED
      BY <3>1, <3>2, LinkRoots
  <2>3. Links(u, Relabel(label, r, l, ids), ids)
    BY <2>1, <2>2 DEF Links
  <2> QED
    BY <1>7, <2>3 DEF u
<1> QED
  BY <1>7, <1>9, <1>10, <1>11

\* Edges between the nodes of ids.
Roads(edges, m, ids) ==
    /\ m \in Nat /\ DOMAIN edges = 0 .. (m - 1) /\ IsFiniteSet(ids)
    /\ \A e \in 0 .. (m - 1) : edges[e].from \in ids /\ edges[e].to \in ids

\* The nodes of one label are what the first k edges connect.
Connected(label, edges, k, ids) ==
    /\ \A e \in 0 .. (k - 1) : label[edges[e].from] = label[edges[e].to]
    /\ \A S \in SUBSET ids : (\A e \in 0 .. (k - 1) : edges[e].from \in S <=> edges[e].to \in S) =>
                             \A x \in ids : x \in S <=> label[x] \in S

LEMMA UnionConnects ==
  ASSUME NEW ids, NEW edges, NEW m, Roads(edges, m, ids), NEW k \in 0 .. (m - 1), NEW label \in [ids -> ids],
         Connected(label, edges, k, ids), NEW c \in ids, NEW r \in ids,
         {c, r} = {label[edges[k].from], label[edges[k].to]}
  PROVE  Connected(Relabel(label, c, r, ids), edges, k + 1, ids)
<1> DEFINE new == Relabel(label, c, r, ids)
<1>0. /\ k \in Nat /\ 0 .. ((k + 1) - 1) = 0 .. k /\ k \in 0 .. k /\ \A e \in 0 .. k : e = k \/ e \in 0 .. (k - 1)
      /\ 0 .. (k - 1) \subseteq 0 .. k /\ 0 .. k \subseteq 0 .. (m - 1)
  BY DEF Roads
<1>1. \A x \in ids : new[x] = IF label[x] = c THEN r ELSE label[x]
  BY DEF Relabel
<1> HIDE DEF new
<1>2. ASSUME NEW e \in 0 .. k PROVE new[edges[e].from] = new[edges[e].to]
  <2>1. edges[e].from \in ids /\ edges[e].to \in ids
    BY <1>0 DEF Roads
  <2>2. CASE e = k
    BY <1>1, <2>1, <2>2
  <2>3. CASE e # k
    <3>1. label[edges[e].from] = label[edges[e].to]
      BY <1>0, <2>3 DEF Connected
    <3> QED
      BY <1>1, <2>1, <3>1
  <2> QED
    BY <2>2, <2>3
<1>3. ASSUME NEW S \in SUBSET ids, \A e \in 0 .. k : edges[e].from \in S <=> edges[e].to \in S,
             NEW x \in ids
      PROVE  x \in S <=> new[x] \in S
  <2>1. \A z \in ids : z \in S <=> label[z] \in S
    BY <1>0, <1>3 DEF Connected
  <2>2. edges[k].from \in ids /\ edges[k].to \in ids /\ (edges[k].from \in S <=> edges[k].to \in S)
    BY <1>0, <1>3 DEF Roads
  <2>3. c \in S <=> r \in S
    BY <2>1, <2>2
  <2> QED
    BY <1>1, <2>1, <2>3
<1>4. Connected(new, edges, k + 1, ids)
  BY <1>0, <1>2, <1>3 DEF Connected
<1> QED
  BY <1>4 DEF new

\* All the edges united: the labels are the parts that the edges connect.
LEMMA UnionAllConnects ==
  ASSUME NEW ids, NEW edges, NEW m, Roads(edges, m, ids)
  PROVE  \E label \in [ids -> ids] :
            Links(unionAll(ids, edges), label, ids) /\ Connected(label, edges, m, ids)
<1> DEFINE P == [parent : [ids -> ids], rank : [ids -> Nat]]
           T == {uf \in P : \E label \in [ids -> ids] : Links(uf, label, ids)}
           b == newUnionFind(ids)
           put(uf, k) == union(uf, edges[k - 1].from, edges[k - 1].to)
           g == [k \in 1 .. m |-> [uf \in T |-> put(uf, k)]]
           self == [x \in ids |-> x]
<1>0. m \in Nat /\ IsFiniteSet(ids) /\ Cardinality(DOMAIN edges) = m
  <2>1. m \in Nat /\ DOMAIN edges = 0 .. (m - 1) /\ 0 \in Int /\ m - 1 \in Int
    BY DEF Roads
  <2> QED
    BY <2>1, FS_Interval DEF Roads
<1>1. ASSUME NEW k \in 1 .. m
      PROVE  k - 1 \in 0 .. (m - 1) /\ edges[k - 1].from \in ids /\ edges[k - 1].to \in ids
  <2>1. k - 1 \in 0 .. (m - 1)
    BY <1>0
  <2> QED
    BY <2>1 DEF Roads
<1>2. b \in P /\ self \in [ids -> ids] /\ Links(b, self, ids)
  <2>1. b = [parent |-> [n \in ids |-> n], rank |-> [n \in ids |-> 0]]
    BY DEF newUnionFind
  <2>2. Forest([n \in ids |-> n], [n \in ids |-> 0], ids)
    BY DEF Forest
  <2>3. Labels([n \in ids |-> n], self, ids)
    BY DEF Labels
  <2> HIDE DEF self
  <2>4. Links(b, self, ids)
    BY <2>1, <2>2, <2>3 DEF Links
  <2>5. self \in [ids -> ids] /\ b \in P
    BY <2>1 DEF self
  <2> QED
    BY <2>4, <2>5
<1>3. ASSUME NEW uf, NEW label, Links(uf, label, ids)
      PROVE  uf \in P /\ label \in [ids -> ids]
  <2>1. uf = [parent |-> uf.parent, rank |-> uf.rank] /\ uf.parent \in [ids -> ids] /\ uf.rank \in [ids -> Nat]
    BY <1>3 DEF Links, Forest
  <2>2. ASSUME NEW x \in [ids -> ids], NEW y \in [ids -> Nat] PROVE [parent |-> x, rank |-> y] \in P
    OBVIOUS
  <2>3. [parent |-> uf.parent, rank |-> uf.rank] \in P
    BY <2>1, <2>2
  <2> QED
    BY <1>3, <2>1, <2>3 DEF Links, Labels
<1>4. ASSUME NEW k \in 1 .. m, NEW uf, NEW label, Links(uf, label, ids)
      PROVE  \E c, r \in ids : /\ {c, r} = {label[edges[k - 1].from], label[edges[k - 1].to]}
                               /\ Links(put(uf, k), Relabel(label, c, r, ids), ids)
  <2>1. PICK x, y : x = edges[k - 1].from /\ y = edges[k - 1].to
    OBVIOUS
  <2>2. \E c, r \in ids : {c, r} = {label[x], label[y]} /\ Links(union(uf, x, y), Relabel(label, c, r, ids), ids)
    BY <1>0, <1>1, <1>4, <2>1, UnionLinks
  <2> QED
    BY <2>1, <2>2
<1>5. b \in T
  <2> HIDE DEF b, self, P
  <2> QED
    BY <1>2
<1> HIDE DEF P
<1>6. ASSUME NEW k \in 1 .. m, NEW uf \in T PROVE put(uf, k) \in T
  <2>1. PICK label \in [ids -> ids] : Links(uf, label, ids)
    OBVIOUS
  <2>2. PICK c \in ids, r \in ids : Links(put(uf, k), Relabel(label, c, r, ids), ids)
    BY <1>4, <2>1
  <2> HIDE DEF put
  <2> QED
    BY <1>3, <2>2
<1> HIDE DEF put, b, self
<1>7. g \in [1 .. m -> [T -> T]]
  <2> HIDE DEF T
  <2> QED
    BY <1>6
<1>8. PICK f \in [0 .. m -> T] : \A k \in 0 .. m : f[k] = IF k = 0 THEN b ELSE g[k][f[k - 1]]
  <2> HIDE DEF T, g
  <2>1. PICK f \in [0 .. m -> T] : IteratesUpto(m, f, b, g)
    BY <1>0, <1>5, <1>7, UptoRecursion
  <2> QED
    BY <2>1 DEF IteratesUpto
<1>9. \A k \in 0 .. m : f[k] = IF k = 0 THEN b ELSE put(f[k - 1], k)
  <2> SUFFICES ASSUME NEW k \in 0 .. m, k # 0 PROVE f[k] = put(f[k - 1], k)
    BY <1>0, <1>8
  <2>1. k - 1 \in 0 .. m /\ k \in 1 .. m
    BY <1>0
  <2> HIDE DEF T
  <2> QED
    BY <1>8, <2>1
<1> HIDE DEF g, T
<1> DEFINE w == CHOOSE w : w = [k \in 0 .. m |-> IF k = 0 THEN b ELSE put(w[k - 1], k)]
<1>10. f = [k \in 0 .. m |-> IF k = 0 THEN b ELSE put(f[k - 1], k)]
  <2>1. f = [k \in 0 .. m |-> f[k]]
    BY <1>8
  <2> QED
    BY <1>9, <2>1
<1>11. w = [k \in 0 .. m |-> IF k = 0 THEN b ELSE put(w[k - 1], k)]
  BY <1>10
<1>12. unionAll(ids, edges) = w[m]
  BY <1>0 DEF unionAll, put, b
<1> HIDE DEF w
<1>13. w[0] = b /\ \A k \in 1 .. m : w[k] = put(w[k - 1], k)
  BY <1>0, <1>11
<1> DEFINE Good(k) == \E label \in [ids -> ids] : Links(w[k], label, ids) /\ Connected(label, edges, k, ids)
           I == {k \in Nat : k <= m => Good(k)}
<1>14. 0 \in I
  <2>1. Connected(self, edges, 0, ids)
    BY DEF Connected, self
  <2> QED
    BY <1>2, <1>13, <2>1
<1>15. ASSUME NEW k \in Nat, k \in I PROVE k + 1 \in I
  <2> HIDE DEF Good
  <2> SUFFICES ASSUME k + 1 <= m PROVE Good(k + 1)
    OBVIOUS
  <2>1. k + 1 \in 1 .. m /\ (k + 1) - 1 = k /\ k <= m /\ k \in 0 .. (m - 1)
    BY <1>0
  <2>2. PICK label \in [ids -> ids] : Links(w[k], label, ids) /\ Connected(label, edges, k, ids)
    BY <1>15, <2>1 DEF Good
  <2>3. PICK c \in ids, r \in ids : /\ {c, r} = {label[edges[k].from], label[edges[k].to]}
                                   /\ Links(put(w[k], k + 1), Relabel(label, c, r, ids), ids)
    BY <1>4, <2>1, <2>2
  <2>4. Links(w[k + 1], Relabel(label, c, r, ids), ids)
    BY <1>13, <2>1, <2>3
  <2>5. Connected(Relabel(label, c, r, ids), edges, k + 1, ids)
    BY <2>1, <2>2, <2>3, UnionConnects
  <2>6. Relabel(label, c, r, ids) \in [ids -> ids]
    BY <1>3, <2>4
  <2> QED
    BY <2>4, <2>5, <2>6 DEF Good
<1>16. Nat \subseteq I
  <2> HIDE DEF I
  <2> QED
    BY <1>14, <1>15, NatSetInduction
<1> QED
  BY <1>0, <1>12, <1>16

-----------------------------------------------------------------------------
(* The warning of connectivity.go.                                          *)

\* Of a finite order there is a last.
LEMMA LastPlace ==
  ASSUME NEW S, IsFiniteSet(S), S # {}, NEW R, Orders(R, S)
  PROVE  \E x \in S : \A y \in S \ {x} : <<y, x>> \in R
<1> DEFINE N == Cardinality(S)
<1>1. N \in Nat /\ N # 0
  BY FS_CardinalityType, FS_EmptySet
<1> HIDE DEF N
<1>2. /\ \A x \in S : Rank(R, S, x) \in 0 .. (N - 1)
      /\ \A x, y \in S : <<x, y>> \in R <=> Rank(R, S, x) < Rank(R, S, y)
      /\ \A x, y \in S : Rank(R, S, x) = Rank(R, S, y) => x = y
      /\ \A n \in 0 .. (N - 1) : \E x \in S : Rank(R, S, x) = n
  BY RankPlaces DEF N
<1>3. N - 1 \in 0 .. (N - 1)
  BY <1>1
<1>4. PICK x \in S : Rank(R, S, x) = N - 1
  BY <1>2, <1>3
<1>5. ASSUME NEW y \in S \ {x} PROVE <<y, x>> \in R
  <2>1. PICK k : k = Rank(R, S, y)
    OBVIOUS
  <2>2. k \in 0 .. (N - 1) /\ k # N - 1
    BY <1>2, <1>4, <2>1
  <2>3. k < N - 1
    BY <1>1, <2>2
  <2> QED
    BY <1>2, <1>4, <2>1, <2>3
<1> QED
  BY <1>5

LEMMA LeastMember ==
  ASSUME NEW S \in SUBSET Nat, S # {}, NEW x, x = CHOOSE n \in S : \A m \in S : n <= m
  PROVE  x \in S /\ \A m \in S : x <= m
<1> DEFINE f == [n \in S |-> n]
<1>1. \E n \in S : \A m \in S : f[n] <= f[m]
  <2>1. \A n \in S : f[n] \in Nat
    OBVIOUS
  <2> HIDE DEF f
  <2> QED
    BY <2>1, LeastValue
<1> QED
  BY <1>1

\* The sample: members of S, ascending, and none that is left out is lower.
LEMMA LowestAscend ==
  ASSUME NEW S, S \subseteq Nat, IsFiniteSet(S), NEW most \in Nat, NEW q, q = Lowest(S, most)
  PROVE  /\ q \in Seq(S) /\ (Len(q) = most \/ Len(q) = Cardinality(S))
         /\ \A n \in ToSet(q), m \in S : n \in S /\ (m <= n => m \in ToSet(q))
         /\ \A i \in 1 .. (Len(q) - 1) : q[i] < q[i + 1]
<1> DEFINE R == Ascending(S)
           N == Cardinality(S)
           k == IF N > most THEN most ELSE N
<1>1. N \in Nat /\ k \in Nat /\ k <= N /\ (k = most \/ k = N)
  BY FS_CardinalityType
<1>2. Orders(R, S)
  <2>1. S \subseteq Int
    OBVIOUS
  <2> QED
    BY <2>1, NumbersOrdered
<1>3. \A n \in S : Cardinality({m \in S : m < n}) = Rank(R, S, n)
  <2> SUFFICES ASSUME NEW n \in S PROVE {m \in S : m < n} = Before(R, S, n)
    BY DEF Rank
  <2> QED
    BY DEF Before, Ascending
<1>4. q = [i \in 1 .. k |-> CHOOSE n \in S : Cardinality({m \in S : m < n}) = i - 1]
  BY DEF Lowest
<1> HIDE DEF R, k, N
<1>5. /\ \A x \in S : Rank(R, S, x) \in 0 .. (N - 1)
      /\ \A x, y \in S : <<x, y>> \in R <=> Rank(R, S, x) < Rank(R, S, y)
      /\ \A x, y \in S : Rank(R, S, x) = Rank(R, S, y) => x = y
      /\ \A n \in 0 .. (N - 1) : \E x \in S : Rank(R, S, x) = n
  <2>1. PICK T, d : T = S /\ d = R
    OBVIOUS
  <2>2. IsFiniteSet(T) /\ Orders(d, T)
    BY <1>2, <2>1
  <2>3. /\ \A x \in T : Rank(d, T, x) \in 0 .. (Cardinality(T) - 1)
        /\ \A x, y \in T : <<x, y>> \in d <=> Rank(d, T, x) < Rank(d, T, y)
        /\ \A x, y \in T : Rank(d, T, x) = Rank(d, T, y) => x = y
        /\ \A n \in 0 .. (Cardinality(T) - 1) : \E x \in T : Rank(d, T, x) = n
    BY <2>2, RankPlaces
  <2> QED
    BY <2>1, <2>3 DEF N
<1>6. ASSUME NEW i \in 1 .. k PROVE q[i] \in S /\ Rank(R, S, q[i]) = i - 1
  <2>1. i - 1 \in 0 .. (N - 1)
    BY <1>1
  <2>2. \E n \in S : Cardinality({m \in S : m < n}) = i - 1
    BY <1>3, <1>5, <2>1
  <2>3. q[i] = CHOOSE n \in S : Cardinality({m \in S : m < n}) = i - 1
    BY <1>4
  <2>4. q[i] \in S /\ Cardinality({m \in S : m < q[i]}) = i - 1
    BY <2>2, <2>3
  <2> QED
    BY <1>3, <2>4
<1>7. q \in Seq(S) /\ Len(q) = k /\ DOMAIN q = 1 .. k
  <2>1. q \in [1 .. k -> S]
    BY <1>4, <1>6
  <2> QED
    BY <1>1, <2>1
<1>8. \A n : n \in ToSet(q) <=> \E i \in 1 .. k : n = q[i]
  BY <1>7 DEF ToSet
<1>9. ASSUME NEW n \in ToSet(q), NEW m \in S PROVE n \in S /\ (m <= n => m \in ToSet(q))
  <2>1. PICK i \in 1 .. k : n = q[i]
    BY <1>8
  <2>2. n \in S /\ Rank(R, S, n) = i - 1
    BY <1>6, <2>1
  <2>3. ASSUME m <= n, m # n PROVE m \in ToSet(q)
    <3>1. m < n
      BY <2>2, <2>3
    <3>2. <<m, n>> \in R
      BY <2>2, <3>1 DEF R, Ascending
    <3>3. PICK j : j = Rank(R, S, m)
      OBVIOUS
    <3>4. j \in 0 .. (N - 1) /\ j < i - 1
      BY <1>5, <2>2, <3>2, <3>3
    <3>5. j + 1 \in 1 .. k /\ (j + 1) - 1 = j
      BY <1>1, <3>4
    <3>6. q[j + 1] \in S /\ Rank(R, S, q[j + 1]) = j
      BY <1>6, <3>5
    <3>7. q[j + 1] = m
      BY <1>5, <3>3, <3>6
    <3> QED
      BY <1>8, <3>5, <3>7
  <2> QED
    BY <2>2, <2>3
<1>10. ASSUME NEW i \in 1 .. (k - 1) PROVE q[i] < q[i + 1]
  <2>1. i \in 1 .. k /\ i + 1 \in 1 .. k /\ (i + 1) - 1 = i /\ i - 1 < i
    BY <1>1
  <2>2. q[i] \in S /\ q[i + 1] \in S /\ Rank(R, S, q[i]) = i - 1 /\ Rank(R, S, q[i + 1]) = i
    BY <1>6, <2>1
  <2>3. <<q[i], q[i + 1]>> \in R
    BY <1>5, <2>1, <2>2
  <2> QED
    BY <2>3 DEF R, Ascending
<1> QED
  BY <1>1, <1>7, <1>9, <1>10 DEF N

\* The nodes that share the label of n.
Class(label, ids, n) == {x \in ids : label[x] = n}

\* What a label must be: an island is the class of its label.
Names(label, edges, m, ids) ==
    /\ Roads(edges, m, ids) /\ label \in [ids -> ids] /\ Connected(label, edges, m, ids)
    /\ \A x \in ids : label[label[x]] = label[x]

LEMMA IslandIsClass ==
  ASSUME NEW m, NEW label, Names(label, graph.edges, m, DOMAIN graph.nodes), NEW n \in DOMAIN graph.nodes
  PROVE  Island(n) = Class(label, DOMAIN graph.nodes, label[n])
<1> DEFINE ids == DOMAIN graph.nodes
           edges == graph.edges
           C == Class(label, ids, label[n])
           Closed(S) == \A e \in DOMAIN edges : edges[e].from \in S <=> edges[e].to \in S
<1>1. /\ DOMAIN edges = 0 .. (m - 1) /\ label \in [ids -> ids]
      /\ \A e \in DOMAIN edges : edges[e].from \in ids /\ edges[e].to \in ids
      /\ \A e \in DOMAIN edges : label[edges[e].from] = label[edges[e].to]
      /\ \A S \in SUBSET ids : Closed(S) => \A x \in ids : x \in S <=> label[x] \in S
  BY DEF Names, Roads, Connected
<1>2. Island(n) = {x \in ids : \A S \in SUBSET ids : Closed(S) /\ n \in S => x \in S}
  BY DEF Island
<1> HIDE DEF ids, edges
<1>3. C \in SUBSET ids /\ n \in C /\ Closed(C)
  BY <1>1 DEF Class, ids
<1>4. Island(n) \subseteq C
  <2> HIDE DEF C, Closed
  <2> QED
    BY <1>2, <1>3
<1>5. ASSUME NEW x \in C, NEW S \in SUBSET ids, Closed(S), n \in S PROVE x \in S
  <2>1. x \in ids /\ label[x] = label[n] /\ n \in ids
    BY DEF Class, ids
  <2>2. \A y \in ids : y \in S <=> label[y] \in S
    BY <1>1, <1>5
  <2> QED
    BY <1>5, <2>1, <2>2
<1>6. C \subseteq Island(n)
  <2> HIDE DEF C, Closed
  <2> QED
    BY <1>2, <1>3, <1>5
<1> QED
  BY <1>4, <1>6 DEF ids

\* The labels that occur, and the class of each.
Labelled(label, ids) == {label[n] : n \in ids}

\* The order in which classes come: the larger later, of equals the one of the lower node.
Outgrows(label, ids, r, o) ==
    LET least(S) == CHOOSE n \in S : \A m \in S : n <= m
    IN \/ Cardinality(Class(label, ids, r)) > Cardinality(Class(label, ids, o))
       \/ /\ Cardinality(Class(label, ids, r)) = Cardinality(Class(label, ids, o))
          /\ least(Class(label, ids, r)) < least(Class(label, ids, o))

LEMMA OneIsMain ==
  ASSUME NEW label, NEW ids, ids \subseteq Nat, IsFiniteSet(ids), label \in [ids -> ids], ids # {},
         \A x \in ids : label[label[x]] = label[x]
  PROVE  /\ IsFiniteSet(Labelled(label, ids)) /\ Labelled(label, ids) # {}
         /\ \E r \in Labelled(label, ids) : \A o \in Labelled(label, ids) \ {r} : Outgrows(label, ids, r, o)
<1> DEFINE L == Labelled(label, ids)
           C(r) == Class(label, ids, r)
           size(r) == Cardinality(C(r))
           low(r) == CHOOSE n \in C(r) : \A m \in C(r) : n <= m
           R == {p \in L \X L : Outgrows(label, ids, p[2], p[1])}
<1>1. L \subseteq ids /\ L # {} /\ IsFiniteSet(L)
  <2>1. L \subseteq ids /\ L # {}
    BY DEF Labelled
  <2> QED
    BY <2>1, FS_Subset
<1>2. ASSUME NEW r \in L
      PROVE  size(r) \in Nat /\ low(r) \in C(r) /\ low(r) \in Nat /\ label[low(r)] = r
  <2>1. r \in ids /\ label[r] = r
    BY DEF Labelled
  <2>2. C(r) \subseteq ids /\ r \in C(r)
    BY <2>1 DEF Class
  <2>3. size(r) \in Nat
    BY <2>2, FS_Subset, FS_CardinalityType
  <2>4. PICK S, x : S = C(r) /\ x = low(r)
    OBVIOUS
  <2>5. x = CHOOSE n \in S : \A m \in S : n <= m
    BY <2>4
  <2>6. S \in SUBSET Nat /\ S # {}
    BY <2>2, <2>4
  <2> HIDE DEF C, low
  <2>7. x \in S
    BY <2>5, <2>6, LeastMember
  <2>8. low(r) \in C(r) /\ low(r) \in ids
    BY <2>2, <2>4, <2>7
  <2> QED
    BY <2>3, <2>8 DEF C, Class
<1>3. \A r, o \in L : <<o, r>> \in R <=> size(r) > size(o) \/ (size(r) = size(o) /\ low(r) < low(o))
  <2> HIDE DEF L
  <2> QED
    BY DEF Outgrows
<1>4. \A r, o \in L : low(r) = low(o) => r = o
  <2> HIDE DEF L, low, C, size
  <2> QED
    BY <1>2
<1> HIDE DEF L, size, low, C, R
<1>5. \A x \in L : size(x) \in Int /\ low(x) \in Int
  BY <1>2
<1>6. Orders(R, L)
  BY <1>3, <1>4, <1>5 DEF Orders
<1>7. PICK r \in L : \A o \in L \ {r} : <<o, r>> \in R
  <2>1. PICK d, q : d = L /\ q = R
    OBVIOUS
  <2>2. IsFiniteSet(d) /\ d # {} /\ Orders(q, d)
    BY <1>1, <1>6, <2>1
  <2>3. \E x \in d : \A y \in d \ {x} : <<y, x>> \in q
    BY <2>2, LastPlace
  <2> QED
    BY <2>1, <2>3
<1>8. \A o \in L \ {r} : Outgrows(label, ids, r, o)
  BY <1>7 DEF R
<1> QED
  BY <1>1, <1>7, <1>8 DEF L

\* As many islands as labels.
LEMMA IslandsCounted ==
  ASSUME NEW m, NEW label, Names(label, graph.edges, m, DOMAIN graph.nodes),
         NEW islands, islands = {Island(n) : n \in DOMAIN graph.nodes}
  PROVE  /\ islands = {Class(label, DOMAIN graph.nodes, r) : r \in Labelled(label, DOMAIN graph.nodes)}
         /\ Cardinality(islands) = Cardinality(Labelled(label, DOMAIN graph.nodes))
         /\ \A r, o \in Labelled(label, DOMAIN graph.nodes) :
               Class(label, DOMAIN graph.nodes, r) = Class(label, DOMAIN graph.nodes, o) => r = o
<1>1. PICK ids : ids = DOMAIN graph.nodes
  OBVIOUS
<1> DEFINE L == Labelled(label, ids)
           C == [r \in L |-> Class(label, ids, r)]
<1>2. /\ label \in [ids -> ids] /\ IsFiniteSet(ids)
      /\ \A x \in ids : label[label[x]] = label[x]
  BY <1>1 DEF Names, Roads
<1>3. \A n \in ids : Island(n) = Class(label, ids, label[n])
  BY <1>1, IslandIsClass
<1>4. islands = {Class(label, ids, r) : r \in L}
  BY <1>1, <1>3 DEF Labelled
<1>5. \A r, o \in L : Class(label, ids, r) = Class(label, ids, o) => r = o
  BY <1>2 DEF Labelled, Class
<1>6. IsFiniteSet(L)
  <2>1. L \subseteq ids
    BY <1>2 DEF Labelled
  <2> QED
    BY <1>2, <2>1, FS_Subset
<1> HIDE DEF L
<1>7. C \in Bijection(L, islands)
  BY <1>4, <1>5 DEF Bijection, Injection, Surjection, IsInjective
<1>8. Cardinality(islands) = Cardinality(L)
  BY <1>6, <1>7, FS_Bijection DEF ExistsBijection
<1> QED
  BY <1>1, <1>4, <1>5, <1>8 DEF L

\* What is logged of a set of labels whose main one is big.
Logged(label, ids, big) ==
    [components |-> Cardinality(Labelled(label, ids)), largest |-> Cardinality(Class(label, ids, big)),
     outside |-> Cardinality(ids \ Class(label, ids, big)),
     sample |-> Lowest(ids \ Class(label, ids, big), connectivityCapSample)]

LEMMA TallyLogs ==
  ASSUME NEW label, NEW ids, ids \subseteq Nat, IsFiniteSet(ids), label \in [ids -> ids], ids # {},
         \A x \in ids : label[label[x]] = label[x]
  PROVE  \E big \in Labelled(label, ids) :
            /\ \A o \in Labelled(label, ids) \ {big} : Outgrows(label, ids, big, o)
            /\ Tally(ids, label) = IF Cardinality(Labelled(label, ids)) = 1 THEN Silent
                                   ELSE Logged(label, ids, big)
<1> DEFINE L == Labelled(label, ids)
           big == CHOOSE r \in L : \A o \in L \ {r} : Outgrows(label, ids, r, o)
<1>1. IsFiniteSet(L) /\ L # {} /\ \E r \in L : \A o \in L \ {r} : Outgrows(label, ids, r, o)
  BY OneIsMain
<1>2. Tally(ids, label) = IF Cardinality(ids) < 2 \/ Cardinality(L) <= 1 THEN Silent
                          ELSE Logged(label, ids, big)
  BY DEF Tally, Labelled, Outgrows, Class, Logged
<1>3. Cardinality(L) = 1 <=> Cardinality(ids) < 2 \/ Cardinality(L) <= 1
  <2>1. L \subseteq ids
    BY DEF Labelled
  <2> HIDE DEF L
  <2>2. Cardinality(L) \in Nat /\ Cardinality(ids) \in Nat /\ Cardinality(L) <= Cardinality(ids)
    BY <1>1, <2>1, FS_Subset, FS_CardinalityType
  <2>3. Cardinality(L) # 0
    BY <1>1, FS_EmptySet
  <2> QED
    BY <2>2, <2>3
<1>4. big \in L /\ \A o \in L \ {big} : Outgrows(label, ids, big, o)
  <2> HIDE DEF L
  <2> QED
    BY <1>1
<1> HIDE DEF big
<1> QED
  BY <1>2, <1>3, <1>4

LEMMA TallyNames ==
  ASSUME NEW m, NEW label, Names(label, graph.edges, m, DOMAIN graph.nodes),
         DOMAIN graph.nodes \subseteq Nat, DOMAIN graph.nodes # {}, report = Tally(DOMAIN graph.nodes, label)
  PROVE  IslandsAreComponents
<1> DEFINE islands == {Island(n) : n \in DOMAIN graph.nodes}
           least(S) == CHOOSE n \in S : \A k \in S : n <= k
           isMain(S) == \A T \in islands \ {S} :
              Cardinality(S) > Cardinality(T) \/ (Cardinality(S) = Cardinality(T) /\ least(S) < least(T))
           Told(main) ==
              LET outside == DOMAIN graph.nodes \ main
              IN /\ report.components = Cardinality(islands) /\ report.largest = Cardinality(main)
                 /\ report.outside = Cardinality(outside)
                 /\ \A n \in ToSet(report.sample), k \in outside :
                       n \in outside /\ (k <= n => k \in ToSet(report.sample))
                 /\ \A i \in 1 .. (Len(report.sample) - 1) : report.sample[i] < report.sample[i + 1]
                 /\ Len(report.sample) = connectivityCapSample \/ Len(report.sample) = report.outside
<1>0. (IF Cardinality(islands) = 1 THEN report = Silent ELSE \E main \in islands : isMain(main) /\ Told(main))
      => IslandsAreComponents
  BY DEF IslandsAreComponents
<1> HIDE DEF Told
<1>1. PICK ids : ids = DOMAIN graph.nodes /\ islands = {Island(n) : n \in DOMAIN graph.nodes}
  OBVIOUS
<1> HIDE DEF islands
<1> DEFINE C(r) == Class(label, ids, r)
<1>2. PICK L : L = Labelled(label, ids)
  OBVIOUS
<1>3. /\ ids \subseteq Nat /\ IsFiniteSet(ids) /\ label \in [ids -> ids] /\ ids # {}
      /\ \A x \in ids : label[label[x]] = label[x]
  BY <1>1 DEF Names, Roads
<1>4. /\ islands = {C(r) : r \in L} /\ Cardinality(islands) = Cardinality(L)
      /\ \A r, o \in L : C(r) = C(o) => r = o
  BY <1>1, <1>2, IslandsCounted
<1>5. PICK big \in L : /\ \A o \in L \ {big} : Outgrows(label, ids, big, o)
                       /\ report = IF Cardinality(L) = 1 THEN Silent ELSE Logged(label, ids, big)
  BY <1>1, <1>2, <1>3, TallyLogs
<1>6. isMain(C(big))
  <2> SUFFICES ASSUME NEW T \in islands \ {C(big)}
               PROVE  \/ Cardinality(C(big)) > Cardinality(T)
                      \/ Cardinality(C(big)) = Cardinality(T) /\ least(C(big)) < least(T)
    OBVIOUS
  <2>1. PICK o \in L : T = C(o)
    BY <1>4
  <2>2. o # big
    BY <2>1
  <2>3. Outgrows(label, ids, big, o)
    BY <1>5, <2>2
  <2> QED
    BY <2>1, <2>3 DEF Outgrows
<1>7. PICK outside : outside = ids \ C(big)
  OBVIOUS
<1>8. PICK sample : sample = Lowest(outside, connectivityCapSample)
  OBVIOUS
<1>9. /\ sample \in Seq(outside)
      /\ Len(sample) = connectivityCapSample \/ Len(sample) = Cardinality(outside)
      /\ \A n \in ToSet(sample), k \in outside : n \in outside /\ (k <= n => k \in ToSet(sample))
      /\ \A i \in 1 .. (Len(sample) - 1) : sample[i] < sample[i + 1]
  <2>1. outside \in SUBSET ids /\ outside \subseteq Nat
    BY <1>3, <1>7
  <2>2. IsFiniteSet(outside) /\ connectivityCapSample \in Nat
    BY <1>3, <2>1, FS_Subset, GraphAssumption
  <2> QED
    BY <1>8, <2>1, <2>2, LowestAscend
<1>10. CASE Cardinality(L) = 1
  <2>1. Cardinality(islands) = 1 /\ report = Silent
    BY <1>4, <1>5, <1>10
  <2> QED
    BY <1>0, <2>1
<1>11. CASE Cardinality(L) # 1
  <2>1. report = [components |-> Cardinality(L), largest |-> Cardinality(C(big)),
                  outside |-> Cardinality(outside), sample |-> sample]
    BY <1>2, <1>5, <1>7, <1>8, <1>11 DEF Logged
  <2>2. /\ report.components = Cardinality(islands) /\ report.largest = Cardinality(C(big))
        /\ report.outside = Cardinality(outside) /\ report.sample = sample
    BY <1>4, <2>1
  <2>3. PICK main : main = C(big) /\ main \in islands
    BY <1>4
  <2>4. outside = DOMAIN graph.nodes \ main /\ isMain(main)
    BY <1>1, <1>6, <1>7, <2>3
  <2>5. Cardinality(islands) # 1
    BY <1>4, <1>11
  <2> HIDE DEF C
  <2>6. Told(main)
    BY <1>9, <2>2, <2>3, <2>4 DEF Told
  <2> QED
    BY <1>0, <2>3, <2>4, <2>5, <2>6
<1> QED
  BY <1>10, <1>11

\* The warning is the tally of a label that names the islands.
LEMMA WarningTallies ==
  ASSUME NEW m, Roads(graph.edges, m, DOMAIN graph.nodes)
  PROVE  \E label : Names(label, graph.edges, m, DOMAIN graph.nodes) /\ Warning = Tally(DOMAIN graph.nodes, label)
<1>1. PICK ids, edges : ids = DOMAIN graph.nodes /\ edges = graph.edges
  OBVIOUS
<1>2. Roads(edges, m, ids) /\ IsFiniteSet(ids)
  BY <1>1 DEF Roads
<1>3. PICK label \in [ids -> ids] : Links(unionAll(ids, edges), label, ids) /\ Connected(label, edges, m, ids)
  BY <1>2, UnionAllConnects
<1>4. PICK parent, rank : parent = unionAll(ids, edges).parent /\ rank = unionAll(ids, edges).rank
  OBVIOUS
<1>5. Forest(parent, rank, ids) /\ Labels(parent, label, ids)
  BY <1>3, <1>4 DEF Links
<1>6. \A n \in ids : find(parent, n).root = label[n]
  BY <1>2, <1>5, FindRoot
<1>7. [n \in ids |-> find(parent, n).root] = label
  BY <1>3, <1>6
<1>8. Warning = Tally(ids, [n \in ids |-> find(parent, n).root])
  BY <1>1, <1>4 DEF Warning
<1>9. \A x \in ids : label[label[x]] = label[x]
  BY <1>3, <1>5 DEF Labels
<1> QED
  BY <1>1, <1>2, <1>3, <1>7, <1>8, <1>9 DEF Names

LEMMA LoadInvNames == LoadInv => IslandsAreComponents
<1> SUFFICES ASSUME LoadInv, phase = "loaded", export.warn PROVE IslandsAreComponents
  BY DEF IslandsAreComponents
<1>1. report = Warning /\ graph = assembled /\ Complete /\ PositionInv /\ Envelope
  BY DEF LoadInv, Complete, Opens
<1>2. PICK N, m, from : MadeOf(graph, N, m, from)
  BY <1>1, AssembledIsMade
<1>3. /\ N \in Nat /\ m \in Nat /\ 0 \in Int /\ N - 1 \in Int
      /\ DOMAIN graph.nodes = 0 .. (N - 1) /\ DOMAIN graph.edges = 0 .. (m - 1)
      /\ \A e \in 0 .. (m - 1) : graph.edges[e].from \in 0 .. (N - 1) /\ graph.edges[e].to \in 0 .. (N - 1)
  BY <1>2 DEF MadeOf
<1>4. Roads(graph.edges, m, DOMAIN graph.nodes)
  <2>1. IsFiniteSet(0 .. (N - 1))
    BY <1>3, FS_Interval
  <2> QED
    BY <1>3, <2>1 DEF Roads
<1>5. DOMAIN graph.nodes # {}
  <2>1. Len(features) \in Nat /\ Len(features) # 0 /\ row = Len(features)
    BY <1>1, FeaturesType DEF Envelope, LoadInv, Complete
  <2>2. 1 \in SeenRows
    BY <2>1 DEF SeenRows
  <2>3. features[1].source_node \in DOMAIN nodePos
    BY <1>1, <2>2 DEF PositionInv
  <2>4. remap(features[1].source_node) \in 0 .. (N - 1)
    <3>1. N = Cardinality(DOMAIN nodePos)
      BY <1>2 DEF MadeOf
    <3> QED
      BY <1>1, <2>3, <3>1, NodesRemapped
  <2> QED
    BY <1>3, <2>4
<1>6. PICK label : /\ Names(label, graph.edges, m, DOMAIN graph.nodes)
                   /\ Warning = Tally(DOMAIN graph.nodes, label)
  BY <1>4, WarningTallies
<1>7. DOMAIN graph.nodes \subseteq Nat
  BY <1>3
<1> QED
  BY <1>1, <1>5, <1>6, <1>7, TallyNames

LEMMA InitLoadInv == ServerInit => LoadInv
<1> SUFFICES ASSUME ServerInit PROVE LoadInv
  OBVIOUS
<1>1. launch \in Launches /\ export = launch.export /\ launch.export \in Export
  BY LaunchesAssumption DEF ServerInit, CommandInit, LoadInit
<1>2. phase = "open" /\ row = 0 /\ placed = Nothing /\ nodePos = Nothing
  BY DEF ServerInit, CommandInit, LoadInit
<1> QED
  BY <1>1, <1>2, FeaturesType DEF LoadInv

LEMMA NextLoadInv == LoadInv /\ [ServerNext]_allVars => LoadInv'
<1> SUFFICES ASSUME LoadInv, [ServerNext]_allVars PROVE LoadInv'
  OBVIOUS
<1>1. CASE LoadNext
  BY <1>1, LoadNextLoads
<1>2. CASE UNCHANGED loadVars
  <2>1. UNCHANGED <<phase, export, row, placed, nodePos, graph, report>>
    BY <1>2 DEF loadVars
  <2>2. features' = features /\ Opens' = Opens /\ WellFormed(Eps)' = WellFormed(Eps)
    BY <2>1 DEF features, Opens, Envelope, WellFormed, EndsOf
  <2>3. PlacedInv' = PlacedInv /\ PositionInv' = PositionInv
    BY <2>1, <2>2 DEF PlacedInv, PositionInv, SeenRows, Gives
  <2>4. assembled' = assembled /\ Warning' = Warning
    BY <2>1 DEF assembled, nodeAt, remap, Warning
  <2> QED
    BY <2>1, <2>2, <2>3, <2>4 DEF LoadInv
<1>3. LoadNext \/ UNCHANGED loadVars
  BY ProcessSteps DEF LoadStep, LoadFailed, CheckArgs, BuildRouter, FindRoute, PrintRoute,
                      Sweep, PrintReport, ReadDocs, WriteDocs, Return, SignalKills, commandVars
<1> QED
  BY <1>1, <1>2, <1>3

\* LoadEdgeAttributesGeoJSON, in every program that calls it: an export that keeps the
\* contract is never refused, one that breaks it never loaded, and the graph that comes
\* of it is the export, with each node's edges listed exactly and ascending.
THEOREM LoadingIsExact == ServerSpec => []LoadedIsTheExport
<1>1. ServerInit => LoadInv
  BY InitLoadInv
<1>2. LoadInv /\ [ServerNext]_allVars => LoadInv'
  BY NextLoadInv
<1>3. LoadInv => LoadedIsTheExport
  BY LoadInvPromises
<1> QED
  BY <1>1, <1>2, <1>3, PTL DEF ServerSpec

\* The warning of connectivity.go: the union-find's answer is the weakly connected
\* parts of the graph, whatever the order of the edges, and the sample its lowest nodes.
THEOREM WarningNamesTheIslands == ServerSpec => []IslandsAreComponents
<1>1. ServerInit => LoadInv
  BY InitLoadInv
<1>2. LoadInv /\ [ServerNext]_allVars => LoadInv'
  BY NextLoadInv
<1>3. LoadInv => IslandsAreComponents
  BY LoadInvNames
<1> QED
  BY <1>1, <1>2, <1>3, PTL DEF ServerSpec

-----------------------------------------------------------------------------
(* What the rate limiter guarantees for every burst, rate, TTL and clock: no *)
(* stretch of time lets more through than the burst and the allowance for    *)
(* it, and lazy filling and eviction are those of the token bucket.          *)

LEMMA ProductGrows == ASSUME NEW a \in Nat, NEW b \in Int, NEW c \in Int, b <= c
                      PROVE  b * a <= c * a
OBVIOUS

LEMMA ProductOfSum == ASSUME NEW a \in Int, NEW b \in Int, NEW c \in Int
                      PROVE  (a + b) * c = a * c + b * c
OBVIOUS

LEMMA CapacityPositive == Capacity \in Nat /\ Capacity >= Unit
<1>1. burst \in Nat /\ burst >= 1
  BY LimiterAssumption DEF burst
<1>2. 1 * Unit <= burst * Unit
  BY <1>1, LimiterAssumption, ProductGrows
<1> QED BY <1>1, <1>2, LimiterAssumption DEF Capacity

LEMMA ShortfallType == Shortfall \in Nat /\ IdleTTL * Rate + Shortfall >= Capacity
<1> DEFINE inflow == IdleTTL * Rate
<1>1. inflow \in Int
  BY LimiterAssumption
<1>2. Shortfall = IF Capacity > inflow THEN Capacity - inflow ELSE 0
  BY DEF Shortfall
<1> HIDE DEF inflow
<1>3. Shortfall \in Nat /\ inflow + Shortfall >= Capacity
  BY <1>1, <1>2, CapacityPositive
<1> QED BY <1>3 DEF inflow

LEMMA AllowanceType == ASSUME NEW d \in Nat PROVE Allowance(d) \in Nat
<1>1. d \div IdleTTL \in Nat
  <2>1. \A n \in Nat : \A r \in Nat \ {0} : n \div r \in Nat
    OBVIOUS
  <2> QED BY <2>1, LimiterAssumption
<1>2. \A x, y \in Nat : x * y \in Nat
  OBVIOUS
<1>3. d * Rate \in Nat /\ (d \div IdleTTL) * Shortfall \in Nat
  BY <1>1, <1>2, ShortfallType, LimiterAssumption
<1> QED BY <1>3 DEF Allowance

\* In e more seconds at least the inflow of them becomes available; and a whole bucket,
\* if they are as many as it takes to be swept.
LEMMA AllowanceGrows ==
  ASSUME NEW d \in Nat, NEW e \in Nat
  PROVE  /\ Allowance(d + e) >= Allowance(d) + e * Rate
         /\ e >= IdleTTL => Allowance(d + e) >= Allowance(d) + Capacity
<1>0. Rate \in Nat /\ IdleTTL \in Nat \ {0} /\ Shortfall \in Nat /\ Capacity \in Nat
  BY ShortfallType, CapacityPositive, LimiterAssumption
<1>1. PICK p \in Nat, q \in Nat :
         /\ p = d \div IdleTTL /\ q = (d + e) \div IdleTTL
         /\ p <= q /\ (e >= IdleTTL => p + 1 <= q)
  <2>1. \A n \in Nat : \A r \in Nat \ {0} :
           n \div r \in Nat /\ (n \div r) * r <= n /\ n < ((n \div r) + 1) * r
    OBVIOUS
  <2>2. PICK p \in Nat, q \in Nat : p = d \div IdleTTL /\ q = (d + e) \div IdleTTL
    BY <1>0, <2>1
  <2>3. p * IdleTTL <= d /\ d + e < (q + 1) * IdleTTL
    BY <1>0, <2>1, <2>2
  <2>4. p <= q
    <3> SUFFICES ASSUME q + 1 <= p PROVE FALSE
      BY <2>2
    <3>1. (q + 1) * IdleTTL <= p * IdleTTL
      BY <1>0, <2>2, ProductGrows
    <3>2. p * IdleTTL \in Int /\ (q + 1) * IdleTTL \in Int
      BY <1>0, <2>2
    <3> QED BY <2>3, <3>1, <3>2
  <2>5. ASSUME e >= IdleTTL PROVE p + 1 <= q
    <3> SUFFICES ASSUME q <= p PROVE FALSE
      BY <2>2
    <3>1. q * IdleTTL <= p * IdleTTL
      BY <1>0, <2>2, ProductGrows
    <3>2. (q + 1) * IdleTTL = q * IdleTTL + 1 * IdleTTL
      BY <1>0, <2>2, ProductOfSum
    <3>3. p * IdleTTL \in Int /\ q * IdleTTL \in Int /\ 1 * IdleTTL = IdleTTL
      BY <1>0, <2>2
    <3> QED BY <1>0, <2>3, <2>5, <3>1, <3>2, <3>3
  <2> QED BY <2>2, <2>4, <2>5
<1>2. (d + e) * Rate = d * Rate + e * Rate
  BY <1>0, ProductOfSum
<1>3. p * Shortfall <= q * Shortfall
  BY <1>0, <1>1, ProductGrows
<1>4. ASSUME e >= IdleTTL
      PROVE  IdleTTL * Rate <= e * Rate /\ p * Shortfall + Shortfall <= q * Shortfall
  <2>1. IdleTTL * Rate <= e * Rate
    BY <1>0, <1>4, ProductGrows
  <2>2. (p + 1) * Shortfall <= q * Shortfall
    BY <1>0, <1>1, <1>4, ProductGrows
  <2>3. (p + 1) * Shortfall = p * Shortfall + 1 * Shortfall
    BY <1>0, <1>1, ProductOfSum
  <2> QED BY <1>0, <2>1, <2>2, <2>3
<1>5. PICK a \in Int, b \in Int, x \in Int, y \in Int, i \in Int :
         /\ a = d * Rate /\ b = e * Rate /\ x = p * Shortfall /\ y = q * Shortfall
         /\ i = IdleTTL * Rate
  BY <1>0, <1>1
<1>6. Allowance(d) = a + x /\ Allowance(d + e) = (a + b) + y
  BY <1>1, <1>2, <1>5 DEF Allowance
<1>7. x <= y /\ i + Shortfall >= Capacity /\ (e >= IdleTTL => i <= b /\ x + Shortfall <= y)
  BY <1>3, <1>4, <1>5, ShortfallType
<1>8. (a + b) + y >= (a + x) + b
  BY <1>5, <1>7
<1>9. e >= IdleTTL => (a + b) + y >= (a + x) + Capacity
  BY <1>0, <1>5, <1>7
<1> QED BY <1>5, <1>6, <1>8, <1>9

\* The same between moments.
LEMMA AllowanceBetween ==
  ASSUME NEW t \in Nat, NEW u \in Nat, NEW v \in Nat, t <= u, u <= v
  PROVE  /\ Allowance(v - t) >= Allowance(u - t) + (v - u) * Rate
         /\ v - u >= IdleTTL => Allowance(v - t) >= Allowance(u - t) + Capacity
         /\ Allowance(v - t) >= Allowance(u - t)
         /\ Allowance(u - t) \in Nat /\ Allowance(v - t) \in Nat /\ (v - u) * Rate \in Nat
<1>1. PICK d \in Nat, e \in Nat : d = u - t /\ e = v - u /\ d + e = v - t
  <2>1. \A x, y \in Nat : x <= y => y - x \in Nat
    OBVIOUS
  <2>2. u - t \in Nat /\ v - u \in Nat
    BY <2>1
  <2>3. (u - t) + (v - u) = v - t
    OBVIOUS
  <2> QED BY <2>2, <2>3
<1>2. e * Rate \in Nat
  <2>1. \A x, y \in Nat : x * y \in Nat
    OBVIOUS
  <2> QED BY <1>1, <2>1, LimiterAssumption
<1>3. Allowance(d) \in Nat /\ Allowance(d + e) \in Nat
  BY <1>1, AllowanceType
<1>4. PICK x \in Nat, y \in Nat, z \in Nat : x = Allowance(d) /\ y = Allowance(d + e) /\ z = e * Rate
  BY <1>2, <1>3
<1>5. y >= x + z /\ (e >= IdleTTL => y >= x + Capacity)
  BY <1>1, <1>4, AllowanceGrows
<1>6. y >= x
  BY <1>4, <1>5
<1> QED BY <1>1, <1>2, <1>3, <1>4, <1>5, <1>6

(* -------------------------------- typing ------------------------------- *)

LEMMA RefilledType ==
  ASSUME LimiterTypeOK, NEW k \in DOMAIN buckets
  PROVE  /\ refilled(buckets[k]) \in Bucket
         /\ refilled(buckets[k]).tokens <= Capacity
         /\ refilled(buckets[k]).lastRefill = now
<1> DEFINE b == buckets[k]
           inflow == (now - b.lastRefill) * Rate
<1>1. b \in Bucket /\ b.tokens <= Capacity /\ b.lastRefill <= now /\ now \in Nat
  BY DEF LimiterTypeOK
<1>2. now - b.lastRefill \in Nat
  BY <1>1 DEF Bucket
<1>3. inflow \in Nat
  <2>1. 0 * Rate <= (now - b.lastRefill) * Rate
    BY <1>2, LimiterAssumption, ProductGrows
  <2> QED BY <2>1, <1>2, LimiterAssumption
<1> HIDE DEF inflow
<1>4. refilled(b) = IF now > b.lastRefill
                    THEN [b EXCEPT !.tokens = IF b.tokens + inflow > Capacity
                                              THEN Capacity ELSE b.tokens + inflow,
                                   !.lastRefill = now]
                    ELSE b
  BY DEF refilled, inflow
<1> HIDE DEF b
<1>5. refilled(b) \in Bucket /\ refilled(b).tokens <= Capacity
        /\ refilled(b).lastRefill = now
  <2> DEFINE units == IF b.tokens + inflow > Capacity THEN Capacity
                      ELSE b.tokens + inflow
  <2>1. units \in Nat /\ units <= Capacity
    BY <1>1, <1>3, CapacityPositive DEF Bucket
  <2> HIDE DEF units
  <2>2. CASE now > b.lastRefill
    <3>1. refilled(b) = [b EXCEPT !.tokens = units, !.lastRefill = now]
      BY <1>4, <2>2 DEF units
    <3> QED BY <1>1, <2>1, <3>1 DEF Bucket
  <2>3. CASE ~(now > b.lastRefill)
    <3>1. refilled(b) = b
      BY <1>4, <2>3
    <3>2. b.lastRefill = now
      BY <1>1, <2>3 DEF Bucket
    <3> QED BY <1>1, <3>1, <3>2
  <2> QED BY <2>2, <2>3
<1> QED BY <1>5 DEF b

LEMMA TouchedType ==
  ASSUME LimiterTypeOK, NEW k \in Keys
  PROVE  /\ touched(k) \in Bucket
         /\ touched(k).tokens <= Capacity
         /\ touched(k).lastRefill = now
         /\ touched(k).lastAccess = now
<1>1. now \in Nat
  BY DEF LimiterTypeOK
<1>2. CASE k \in kept
  <2>1. k \in DOMAIN buckets
    BY <1>2 DEF kept
  <2>2. touched(k) = [refilled(buckets[k]) EXCEPT !.lastAccess = now]
    BY <1>2 DEF touched
  <2> QED BY <1>1, <2>1, <2>2, RefilledType DEF Bucket
<1>3. CASE k \notin kept
  <2>1. touched(k) = [tokens |-> Capacity, lastRefill |-> now, lastAccess |-> now]
    BY <1>3 DEF touched
  <2> QED BY <1>1, <2>1, CapacityPositive DEF Bucket
<1> QED BY <1>2, <1>3

LEMMA InitLimiterTypeOK == LimiterInit => LimiterTypeOK
BY LimiterAssumption DEF LimiterInit, LimiterTypeOK, NoPromise

\* A request leaves a well-formed bucket behind and keeps the ones not swept.
LEMMA TouchTypeOK ==
  ASSUME LimiterTypeOK, NEW k \in Keys, NEW b \in Bucket, Touch(k, b),
         b.tokens <= Capacity, b.lastRefill = now, b.lastAccess = now
  PROVE  /\ DOMAIN buckets' \subseteq Keys
         /\ \A x \in DOMAIN buckets' :
               /\ buckets'[x] \in Bucket
               /\ buckets'[x].tokens <= Capacity
               /\ buckets'[x].lastRefill <= now'
               /\ buckets'[x].lastAccess = buckets'[x].lastRefill
         /\ now' = now /\ lastSweep' \in Int /\ authEnabled' \in BOOLEAN
<1>1. /\ now' = now /\ now \in Nat /\ lastSweep' \in Int
      /\ authEnabled' \in BOOLEAN
  BY DEF Touch, LimiterTypeOK
<1>2. DOMAIN buckets' = kept \cup {k}
  BY DEF Touch
<1>3. kept \subseteq DOMAIN buckets /\ DOMAIN buckets \subseteq Keys
  BY DEF kept, LimiterTypeOK
<1>4. ASSUME NEW x \in DOMAIN buckets'
      PROVE  /\ buckets'[x] \in Bucket
             /\ buckets'[x].tokens <= Capacity
             /\ buckets'[x].lastRefill <= now'
             /\ buckets'[x].lastAccess = buckets'[x].lastRefill
  <2>1. buckets'[x] = IF x = k THEN b ELSE buckets[x]
    BY <1>2, <1>4 DEF Touch
  <2>2. CASE x = k
    BY <1>1, <2>1, <2>2
  <2>3. CASE x # k
    <3>1. x \in DOMAIN buckets
      BY <1>2, <1>3, <1>4, <2>3
    <3> QED BY <1>1, <2>1, <2>3, <3>1 DEF LimiterTypeOK
  <2> QED BY <2>2, <2>3
<1> QED BY <1>1, <1>2, <1>3, <1>4

LEMMA NextLimiterTypeOK == LimiterTypeOK /\ [LimiterNext]_limiterVars => LimiterTypeOK'
<1> SUFFICES ASSUME LimiterTypeOK, [LimiterNext]_limiterVars PROVE LimiterTypeOK'
  OBVIOUS
<1>1. CASE Elapse
  <2>1. now' \in Nat /\ now <= now'
    BY <1>1, LimiterAssumption DEF Elapse, LimiterTypeOK
  <2>2. \A k \in DOMAIN buckets' : buckets'[k].lastRefill <= now'
    BY <1>1, <2>1 DEF Elapse, LimiterTypeOK, Bucket
  <2> QED BY <1>1, <2>1, <2>2 DEF Elapse, LimiterTypeOK
<1>2. CASE Unauthorized
  BY <1>2 DEF Unauthorized, LimiterTypeOK
<1>3. ASSUME NEW k \in Keys, Allow(k) PROVE LimiterTypeOK'
  <2> DEFINE b == touched(k)
             c == [b EXCEPT !.tokens = @ - Unit]
  <2>1. /\ b \in Bucket /\ b.tokens <= Capacity
        /\ b.lastRefill = now /\ b.lastAccess = now
    BY TouchedType
  <2>2. b.tokens >= Unit /\ Touch(k, c)
    BY <1>3 DEF Allow
  <2> HIDE DEF b
  <2>3. /\ c \in Bucket /\ c.tokens <= Capacity
        /\ c.lastRefill = now /\ c.lastAccess = now
    BY <2>1, <2>2, LimiterAssumption, CapacityPositive DEF Bucket
  <2> HIDE DEF c
  <2>4. /\ admitted' \in [Keys -> Seq(Nat)] /\ promise' \in [Keys -> Int]
        /\ status' = "ok" /\ retry' = 0
    BY <1>3 DEF Allow, LimiterTypeOK, NoPromise
  <2> QED BY <2>2, <2>3, <2>4, TouchTypeOK DEF LimiterTypeOK
<1>4. ASSUME NEW k \in Keys, Refuse(k) PROVE LimiterTypeOK'
  <2>1. /\ touched(k) \in Bucket /\ touched(k).tokens <= Capacity
        /\ touched(k).lastRefill = now /\ touched(k).lastAccess = now
    BY TouchedType
  <2>2. Touch(k, touched(k))
    BY <1>4 DEF Refuse
  <2>3. RetryAfter(touched(k).tokens) \in Nat
    BY <2>1, LimiterAssumption DEF RetryAfter, Bucket
  <2>4. /\ admitted' = admitted
        /\ status' = "limited" /\ retry' \in Nat
        /\ promise' \in [Keys -> Int]
    BY <1>4, <2>3 DEF Refuse, LimiterTypeOK
  <2> QED BY <2>1, <2>2, <2>4, TouchTypeOK DEF LimiterTypeOK
<1>5. CASE UNCHANGED limiterVars
  BY <1>5 DEF limiterVars, LimiterTypeOK
<1>6. \A ip \in IPs : KeyOf(ip) \in Keys
  BY DEF KeyOf, Keys
<1> QED BY <1>1, <1>2, <1>3, <1>4, <1>5, <1>6 DEF LimiterNext, Request

\* Every variable stays in its range, and a bucket never holds more than the
\* capacity nor was filled in the future.
THEOREM LimiterTypeCorrect == LimiterSpec => []LimiterTypeOK
BY InitLimiterTypeOK, NextLimiterTypeOK, PTL DEF LimiterSpec

(* ------------------------------ the window ----------------------------- *)

\* The account of a client with a bucket, carried forward to now.
LEMMA FlowNow ==
  ASSUME LimiterTypeOK, FlowBound, NEW k \in DOMAIN buckets, NEW i \in DOMAIN admitted[k]
  PROVE  /\ admitted[k][i] <= now
         /\ (Len(admitted[k]) - i + 1) * Unit + refilled(buckets[k]).tokens
              <= Capacity + Allowance(now - admitted[k][i])
         /\ IdleKey(k) => (Len(admitted[k]) - i + 1) * Unit <= Allowance(now - admitted[k][i])
<1>1. /\ buckets[k] \in Bucket /\ buckets[k].tokens <= Capacity /\ buckets[k].lastRefill <= now
      /\ buckets[k].lastAccess = buckets[k].lastRefill
      /\ now \in Nat /\ k \in Keys
  BY DEF LimiterTypeOK
<1>2. admitted[k] \in Seq(Nat)
  BY <1>1 DEF LimiterTypeOK
<1> DEFINE t == admitted[k][i]
           u == buckets[k].lastRefill
           v == now
           n == buckets[k].tokens
           took == (Len(admitted[k]) - i + 1) * Unit
<1>3. t \in Nat /\ u \in Nat /\ v \in Nat /\ n \in Nat /\ took \in Int
  <2>1. Len(admitted[k]) - i + 1 \in Int
    BY <1>2
  <2>2. (Len(admitted[k]) - i + 1) * Unit \in Int
    BY <2>1, LimiterAssumption
  <2>3. t \in Nat
    BY <1>2
  <2>4. u \in Nat /\ v \in Nat /\ n \in Nat
    BY <1>1 DEF Bucket
  <2> QED BY <2>2, <2>3, <2>4
<1>4. t <= u /\ took + n <= Capacity + Allowance(u - t)
  BY <1>1 DEF FlowBound
<1>5. u <= v
  BY <1>1
<1>6. refilled(buckets[k]).tokens = IF v > u
         THEN IF n + (v - u) * Rate > Capacity THEN Capacity ELSE n + (v - u) * Rate
         ELSE n
  BY <1>1 DEF refilled, Bucket
<1>7. IdleKey(k) => v - u >= IdleTTL
  BY <1>1 DEF IdleKey
<1> HIDE DEF t, u, v, n, took
<1> DEFINE x == Allowance(u - t)
           y == Allowance(v - t)
           inflow == (v - u) * Rate
           m == refilled(buckets[k]).tokens
<1>8. /\ x \in Nat /\ y \in Nat /\ inflow \in Nat
      /\ y >= x + inflow /\ (v - u >= IdleTTL => y >= x + Capacity)
  BY <1>3, <1>4, <1>5, AllowanceBetween
<1>9. m \in Nat /\ (m = n \/ m = n + inflow \/ (m = Capacity /\ n + inflow > Capacity))
  BY <1>6, RefilledType DEF Bucket
<1>10. t <= v
  BY <1>3, <1>4, <1>5
<1>11. took + n <= Capacity + x
  BY <1>4
<1> HIDE DEF x, y, inflow, m
<1>12. m <= n + inflow
  BY <1>3, <1>8, <1>9, CapacityPositive
<1>13. took + m <= Capacity + y
  BY <1>3, <1>8, <1>9, <1>11, <1>12, CapacityPositive
<1>14. v - u >= IdleTTL => took <= y
  BY <1>3, <1>8, <1>11, CapacityPositive
<1> QED BY <1>7, <1>10, <1>13, <1>14 DEF t, v, took, y, m

\* A touched bucket, just filled or new, continues the account.
LEMMA FlowTouched ==
  ASSUME LimiterTypeOK, FlowBound, NEW k \in Keys, NEW i \in DOMAIN admitted[k]
  PROVE  /\ admitted[k][i] <= now
         /\ (Len(admitted[k]) - i + 1) * Unit + touched(k).tokens
              <= Capacity + Allowance(now - admitted[k][i])
<1> DEFINE l == (Len(admitted[k]) - i + 1) * Unit
           r == Allowance(now - admitted[k][i])
<1>1. now \in Nat /\ admitted[k] \in Seq(Nat)
  BY DEF LimiterTypeOK
<1>2. l \in Int /\ (admitted[k][i] <= now => r \in Int)
  <2>1. admitted[k][i] \in Nat /\ i \in Nat /\ Len(admitted[k]) \in Nat
    BY <1>1
  <2>2. (Len(admitted[k]) - i + 1) \in Int /\ Unit \in Int
    BY <1>1, <2>1, LimiterAssumption
  <2>3. \A x, y \in Int : x * y \in Int
    OBVIOUS
  <2>4. \A x, y \in Nat : x <= y => y - x \in Nat
    OBVIOUS
  <2>5. admitted[k][i] <= now => now - admitted[k][i] \in Nat
    BY <1>1, <2>1, <2>4
  <2>6. l \in Int
    BY <2>2, <2>3
  <2>7. admitted[k][i] <= now => r \in Int
    BY <2>5, AllowanceType
  <2> QED BY <2>6, <2>7
<1>3. CASE k \in kept
  <2>1. k \in DOMAIN buckets
    BY <1>3 DEF kept
  <2>2. touched(k).tokens = refilled(buckets[k]).tokens
    <3>1. refilled(buckets[k]) \in Bucket
      BY <2>1, RefilledType
    <3>2. touched(k) = [refilled(buckets[k]) EXCEPT !.lastAccess = now]
      BY <1>3 DEF touched
    <3> QED BY <3>1, <3>2 DEF Bucket
  <2> QED BY <2>1, <2>2, FlowNow
<1>4. CASE k \notin kept
  <2>1. touched(k).tokens = Capacity
    BY <1>4 DEF touched
  <2>2. admitted[k][i] <= now /\ l <= r
    <3>1. CASE k \in DOMAIN buckets
      <4>1. IdleKey(k)
        BY <1>4, <3>1 DEF kept
      <4> QED BY <3>1, <4>1, FlowNow
    <3>2. CASE k \notin DOMAIN buckets
      BY <3>2 DEF FlowBound
    <3> QED BY <3>1, <3>2
  <2> HIDE DEF l, r
  <2>3. l + touched(k).tokens <= Capacity + r
    BY <1>2, <2>1, <2>2, CapacityPositive
  <2> QED BY <2>2, <2>3 DEF l, r
<1> QED BY <1>3, <1>4

\* The accounts of the clients a request does not come from.
LEMMA FlowOthers ==
  ASSUME LimiterTypeOK, FlowBound, NEW k \in Keys, NEW b, Touch(k, b), NEW x \in Keys, x # k, NEW i \in DOMAIN admitted[x], admitted'[x] = admitted[x]
  PROVE  LET took == (Len(admitted'[x]) - i + 1) * Unit IN
         /\ x \in DOMAIN buckets' =>
              /\ admitted'[x][i] <= buckets'[x].lastRefill
              /\ took + buckets'[x].tokens
                    <= Capacity + Allowance(buckets'[x].lastRefill - admitted'[x][i])
         /\ x \notin DOMAIN buckets' =>
              /\ admitted'[x][i] <= now'
              /\ took <= Allowance(now' - admitted'[x][i])
<1>1. now' = now /\ DOMAIN buckets' = kept \cup {k}
  BY DEF Touch
<1>2. CASE x \in DOMAIN buckets'
  <2>1. x \in DOMAIN buckets /\ buckets'[x] = buckets[x]
    BY <1>1, <1>2 DEF Touch, kept
  <2> QED BY <1>2, <2>1 DEF FlowBound
<1>3. CASE x \notin DOMAIN buckets'
  <2>1. CASE x \in DOMAIN buckets
    <3>1. IdleKey(x)
      BY <1>1, <1>3, <2>1 DEF kept
    <3> QED BY <1>1, <1>3, <2>1, <3>1, FlowNow
  <2>2. CASE x \notin DOMAIN buckets
    BY <1>1, <1>3, <2>2 DEF FlowBound
  <2> QED BY <2>1, <2>2
<1> QED BY <1>2, <1>3

LEMMA FlowElapse ==
  LimiterTypeOK /\ FlowBound /\ Elapse => FlowBound'
<1> SUFFICES ASSUME LimiterTypeOK, FlowBound, Elapse, NEW k \in Keys,
                    NEW i \in DOMAIN admitted[k]
             PROVE  LET took == (Len(admitted[k]) - i + 1) * Unit IN
                    /\ k \in DOMAIN buckets =>
                         /\ admitted[k][i] <= buckets[k].lastRefill
                         /\ took + buckets[k].tokens
                              <= Capacity + Allowance(buckets[k].lastRefill - admitted[k][i])
                    /\ k \notin DOMAIN buckets =>
                         /\ admitted[k][i] <= now'
                         /\ took <= Allowance(now' - admitted[k][i])
  BY DEF FlowBound, Elapse
<1>1. now \in Nat /\ now' \in Nat /\ now <= now' /\ admitted[k] \in Seq(Nat)
  BY LimiterAssumption DEF Elapse, LimiterTypeOK
<1>2. CASE k \in DOMAIN buckets
  BY <1>2 DEF FlowBound
<1>3. CASE k \notin DOMAIN buckets
  <2>1. Len(admitted[k]) - i + 1 \in Int
    BY <1>1
  <2>2. (Len(admitted[k]) - i + 1) * Unit \in Int
    BY <2>1, LimiterAssumption
  <2> DEFINE t == admitted[k][i]
             u == now
             v == now'
             took == (Len(admitted[k]) - i + 1) * Unit
  <2>3. t \in Nat /\ u \in Nat /\ v \in Nat /\ took \in Int
    BY <1>1, <2>2
  <2>4. t <= u /\ took <= Allowance(u - t) /\ u <= v
    BY <1>1, <1>3 DEF FlowBound
  <2> HIDE DEF t, u, v, took
  <2>5. /\ Allowance(u - t) \in Nat /\ Allowance(v - t) \in Nat
        /\ Allowance(v - t) >= Allowance(u - t)
    BY <2>3, <2>4, AllowanceBetween
  <2>6. took <= Allowance(v - t)
    BY <2>3, <2>4, <2>5
  <2>7. t <= v
    BY <2>3, <2>4
  <2> QED BY <1>3, <2>6, <2>7 DEF t, v, took
<1> QED BY <1>2, <1>3

LEMMA FlowAdmit ==
  ASSUME LimiterTypeOK, FlowBound, NEW k \in Keys, Allow(k)
  PROVE  FlowBound'
<1> DEFINE b == touched(k)
           c == [b EXCEPT !.tokens = @ - Unit]
<1>1. /\ b \in Bucket /\ b.tokens <= Capacity /\ b.lastRefill = now
  BY TouchedType
<1>2. b.tokens >= Unit /\ Touch(k, c) /\ admitted' = [admitted EXCEPT ![k] = Append(@, now)]
  BY DEF Allow
<1>3. c.tokens = b.tokens - Unit /\ c.lastRefill = now
  <2> HIDE DEF b
  <2> QED BY <1>1 DEF Bucket
<1>4. now \in Nat /\ now' = now /\ admitted \in [Keys -> Seq(Nat)]
  BY <1>2 DEF Touch, LimiterTypeOK
<1>5. k \in DOMAIN buckets' /\ buckets'[k] = c
  BY <1>2 DEF Touch
<1>6. ASSUME NEW i \in DOMAIN admitted'[k]
      PROVE  /\ admitted'[k][i] <= now
             /\ (Len(admitted'[k]) - i + 1) * Unit + c.tokens
                  <= Capacity + Allowance(now - admitted'[k][i])
  <2> DEFINE s == admitted[k]
  <2>1. s \in Seq(Nat) /\ admitted'[k] = Append(s, now)
    BY <1>2, <1>4
  <2> HIDE DEF s, b, c
  <2>2. i \in 1..(Len(s) + 1) /\ Len(Append(s, now)) = Len(s) + 1
          /\ Len(s) \in Nat
    BY <1>4, <1>6, <2>1
  <2>3. CASE i = Len(s) + 1
    <3>1. admitted'[k][i] = now
      BY <1>4, <2>1, <2>3
    <3>2. (Len(admitted'[k]) - i + 1) * Unit = Unit
      <4>1. Len(admitted'[k]) - i + 1 = 1
        BY <2>1, <2>2, <2>3
      <4> QED BY <4>1, LimiterAssumption
    <3>3. Allowance(now - admitted'[k][i]) \in Nat
      <4>1. now - admitted'[k][i] = 0
        BY <1>4, <3>1
      <4> QED BY <4>1, AllowanceType
    <3>4. Unit + c.tokens <= Capacity
      BY <1>1, <1>3, LimiterAssumption, CapacityPositive DEF Bucket
    <3> DEFINE r == Allowance(now - admitted'[k][i])
    <3>5. r \in Nat /\ c.tokens \in Int
      BY <1>1, <1>3, <3>3, LimiterAssumption DEF Bucket
    <3> HIDE DEF r
    <3>6. Unit + c.tokens <= Capacity + r
      BY <3>4, <3>5, CapacityPositive, LimiterAssumption
    <3> QED BY <1>4, <3>1, <3>2, <3>6 DEF r
  <2>4. CASE i \in 1..Len(s)
    <3> DEFINE l == (Len(s) - i + 1) * Unit
               r == Allowance(now - s[i])
    <3>1. i \in DOMAIN admitted[k]
      BY <2>1, <2>4 DEF s
    <3>2. s[i] <= now /\ l + b.tokens <= Capacity + r
      BY <3>1, FlowTouched DEF s, b
    <3>3. admitted'[k][i] = s[i] /\ s[i] \in Nat
      BY <1>4, <2>1, <2>4
    <3>4. (Len(admitted'[k]) - i + 1) * Unit = l + Unit
      <4>1. Len(admitted'[k]) - i + 1 = (Len(s) - i + 1) + 1
        BY <2>1, <2>2, <2>4
      <4>2. ((Len(s) - i + 1) + 1) * Unit = (Len(s) - i + 1) * Unit + 1 * Unit
        BY <2>2, <2>4, LimiterAssumption, ProductOfSum
      <4> QED BY <4>1, <4>2, LimiterAssumption
    <3>5. l \in Int /\ r \in Int
      <4>1. Len(s) - i + 1 \in Int /\ Unit \in Int
        BY <2>2, <2>4, LimiterAssumption
      <4>2. l \in Int
        BY <4>1
      <4>3. now - s[i] \in Nat
        BY <1>4, <3>2, <3>3
      <4> QED BY <4>2, <4>3, AllowanceType
    <3>6. r = Allowance(now - admitted'[k][i])
      BY <3>3
    <3> HIDE DEF l, r
    <3>7. (l + Unit) + c.tokens <= Capacity + r
      BY <1>1, <1>3, <3>2, <3>5, LimiterAssumption, CapacityPositive DEF Bucket
    <3> QED BY <3>2, <3>3, <3>4, <3>6, <3>7
  <2> QED BY <2>2, <2>3, <2>4
<1>7. ASSUME NEW x \in Keys, x # k PROVE admitted'[x] = admitted[x]
  BY <1>2, <1>4, <1>7
<1> HIDE DEF c
<1> QED BY <1>2, <1>3, <1>5, <1>6, <1>7, FlowOthers DEF FlowBound

LEMMA FlowRefuse ==
  ASSUME LimiterTypeOK, FlowBound, NEW k \in Keys, Refuse(k)
  PROVE  FlowBound'
<1>1. touched(k).lastRefill = now
  BY TouchedType
<1>2. Touch(k, touched(k)) /\ admitted' = admitted
  BY DEF Refuse
<1>3. k \in DOMAIN buckets' /\ buckets'[k] = touched(k)
  BY <1>2 DEF Touch
<1> QED BY <1>1, <1>2, <1>3, FlowTouched, FlowOthers DEF FlowBound

LEMMA NextFlowBound == LimiterTypeOK /\ FlowBound /\ [LimiterNext]_limiterVars => FlowBound'
<1> SUFFICES ASSUME LimiterTypeOK, FlowBound, [LimiterNext]_limiterVars PROVE FlowBound'
  OBVIOUS
<1>1. CASE Elapse
  BY <1>1, FlowElapse
<1>2. CASE Unauthorized
  BY <1>2 DEF Unauthorized, FlowBound
<1>3. ASSUME NEW ip \in IPs, Request(ip) PROVE FlowBound'
  <2>1. KeyOf(ip) \in Keys
    BY DEF KeyOf, Keys
  <2> QED BY <1>3, <2>1, FlowAdmit, FlowRefuse DEF Request
<1>4. CASE UNCHANGED limiterVars
  BY <1>4 DEF limiterVars, FlowBound
<1> QED BY <1>1, <1>2, <1>3, <1>4 DEF LimiterNext

LEMMA InitFlowBound == LimiterInit => FlowBound
BY DEF LimiterInit, FlowBound

\* The account of every client balances: what its requests took and what is left in
\* its bucket came out of a full bucket and the allowance, across sweeps too.
THEOREM AccountBalances == LimiterSpec => []FlowBound
BY InitLimiterTypeOK, NextLimiterTypeOK, InitFlowBound, NextFlowBound, PTL DEF LimiterSpec

LEMMA InitWindowBound == LimiterInit => WindowBound
BY DEF LimiterInit, WindowBound

\* A request that is admitted closes no window that was exceeded: from the i-th
\* to itself is what the account says, and the other windows are old.
LEMMA WindowAdmit ==
  ASSUME LimiterTypeOK, LimiterTypeOK', WindowBound, FlowBound', NEW k \in Keys, Allow(k)
  PROVE  WindowBound'
<1> DEFINE s == admitted[k]
<1>1. s \in Seq(Nat) /\ now \in Nat /\ admitted \in [Keys -> Seq(Nat)]
  BY DEF LimiterTypeOK
<1>2. admitted' = [admitted EXCEPT ![k] = Append(s, now)]
  BY DEF Allow
<1>3. k \in DOMAIN buckets' /\ buckets'[k].lastRefill = now /\ buckets'[k].tokens \in Nat
  <2> DEFINE c == [touched(k) EXCEPT !.tokens = @ - Unit]
  <2>1. k \in DOMAIN buckets' /\ buckets'[k] = c
    BY DEF Allow, Touch
  <2>2. touched(k) \in Bucket /\ touched(k).lastRefill = now
    BY TouchedType
  <2>3. c.lastRefill = now
    BY <2>2 DEF Bucket
  <2>4. buckets'[k] \in Bucket
    BY <2>1 DEF LimiterTypeOK
  <2> QED BY <2>1, <2>3, <2>4 DEF Bucket
<1>4. ASSUME NEW i \in DOMAIN admitted'[k], NEW j \in DOMAIN admitted'[k], i <= j
      PROVE  (j - i + 1) * Unit
               <= Capacity + Allowance(admitted'[k][j] - admitted'[k][i])
  <2>1. admitted'[k] = Append(s, now)
    BY <1>1, <1>2
  <2> HIDE DEF s
  <2>2. /\ Len(s) \in Nat /\ Len(admitted'[k]) = Len(s) + 1
        /\ i \in 1..(Len(s) + 1) /\ j \in 1..(Len(s) + 1)
    BY <1>1, <1>4, <2>1
  <2>3. CASE j = Len(s) + 1
    <3> DEFINE l == (j - i + 1) * Unit
               r == Allowance(now - admitted'[k][i])
    <3>1. admitted'[k][j] = now
      BY <1>1, <2>1, <2>3
    <3>2. l + buckets'[k].tokens <= Capacity + r
      BY <1>3, <1>4, <2>2, <2>3 DEF FlowBound
    <3>3. admitted'[k][i] \in Nat /\ j - i + 1 \in Int
      BY <1>1, <1>4, <2>1, <2>2
    <3>4. l \in Int /\ r \in Int
      <4>1. l \in Int
        BY <3>3, LimiterAssumption
      <4>2. admitted'[k][i] <= now
        BY <1>3, <1>4 DEF FlowBound
      <4>3. now - admitted'[k][i] \in Nat
        BY <1>1, <3>3, <4>2
      <4> QED BY <4>1, <4>3, AllowanceType
    <3> HIDE DEF l, r
    <3>5. l <= Capacity + r
      BY <1>3, <3>2, <3>4, CapacityPositive
    <3> QED BY <3>1, <3>5 DEF l, r
  <2>4. CASE j \in 1..Len(s)
    <3>1. i \in DOMAIN admitted[k] /\ j \in DOMAIN admitted[k]
      BY <1>1, <1>4, <2>2, <2>4 DEF s
    <3>2. admitted'[k][i] = admitted[k][i] /\ admitted'[k][j] = admitted[k][j]
      BY <1>1, <1>4, <2>1, <2>2, <2>4 DEF s
    <3> QED BY <1>4, <3>1, <3>2 DEF WindowBound
  <2> QED BY <2>2, <2>3, <2>4
<1>5. ASSUME NEW x \in Keys, x # k PROVE admitted'[x] = admitted[x]
  BY <1>1, <1>2, <1>5
<1> QED BY <1>4, <1>5 DEF WindowBound

LEMMA NextWindowBound ==
  LimiterTypeOK /\ LimiterTypeOK' /\ FlowBound' /\ WindowBound /\ [LimiterNext]_limiterVars => WindowBound'
<1> SUFFICES ASSUME LimiterTypeOK, LimiterTypeOK', FlowBound', WindowBound, [LimiterNext]_limiterVars
             PROVE  WindowBound'
  OBVIOUS
<1>1. ASSUME NEW k \in Keys, Allow(k) PROVE WindowBound'
  BY <1>1, WindowAdmit
<1>2. ASSUME admitted' = admitted PROVE WindowBound'
  BY <1>2 DEF WindowBound
<1>3. \A ip \in IPs : KeyOf(ip) \in Keys
  BY DEF KeyOf, Keys
<1> QED BY <1>1, <1>2, <1>3 DEF LimiterNext, Request, Refuse, Elapse, Unauthorized, limiterVars

\* No client gets more through in any stretch of time than the burst and the
\* allowance for it, whatever was swept in between, for every rate and burst.
THEOREM NoWindowExceeded == LimiterSpec => []WindowBound
BY NextFlowBound, InitLimiterTypeOK, NextLimiterTypeOK, InitFlowBound, InitWindowBound,
   NextWindowBound, PTL DEF LimiterSpec

(* ----------------------------- the refinement -------------------------- *)

\* What a bucket holds now is what it held and the inflow since, up to the brim.
LEMMA RefilledTokens ==
  ASSUME LimiterTypeOK, NEW k \in DOMAIN buckets
  PROVE  refilled(buckets[k]).tokens =
           Ideal!Brim(buckets[k].tokens + (now - buckets[k].lastRefill) * Rate)
<1> DEFINE b == buckets[k]
           inflow == (now - b.lastRefill) * Rate
<1>1. b \in Bucket /\ b.tokens <= Capacity /\ b.lastRefill <= now /\ now \in Nat
  BY DEF LimiterTypeOK
<1>2. CASE now > b.lastRefill
  <2>1. refilled(b).tokens = IF b.tokens + inflow > Capacity
                             THEN Capacity ELSE b.tokens + inflow
    BY <1>1, <1>2 DEF refilled, Bucket
  <2> QED BY <2>1 DEF Ideal!Brim
<1>3. CASE ~(now > b.lastRefill)
  <2>1. refilled(b) = b
    BY <1>3 DEF refilled
  <2>2. now - b.lastRefill = 0
    BY <1>1, <1>3 DEF Bucket
  <2>3. inflow = 0
    BY <2>2, LimiterAssumption
  <2> HIDE DEF inflow
  <2>4. b.tokens + inflow = b.tokens /\ ~(b.tokens > Capacity)
    BY <1>1, <2>3, CapacityPositive DEF Bucket
  <2>5. Ideal!Brim(b.tokens + inflow) = b.tokens
    BY <2>4 DEF Ideal!Brim
  <2> QED BY <2>1, <2>5 DEF inflow
<1> QED BY <1>2, <1>3

\* Time passes for every client alike, with a bucket or without.
LEMMA ElapseRefines ==
  ASSUME LimiterTypeOK, LimiterTypeOK', Elapse
  PROVE  Ideal!Elapse
<1>1. /\ now \in Nat /\ now' \in Nat /\ now' > now
      /\ buckets' = buckets
  BY LimiterAssumption DEF Elapse, LimiterTypeOK
<1> DEFINE dt == now' - now
<1>2. dt \in Nat /\ dt * Rate \in Nat
  <2>1. dt \in Nat
    <3>1. \A x, y \in Nat : y > x => y - x \in Nat
      OBVIOUS
    <3> QED BY <1>1, <3>1
  <2> HIDE DEF dt
  <2>2. 0 * Rate <= dt * Rate
    BY <2>1, LimiterAssumption, ProductGrows
  <2> QED BY <2>1, <2>2, LimiterAssumption
<1>3. ASSUME NEW k \in Keys
      PROVE  Level'[k] = Ideal!Brim(Level[k] + dt * Rate)
  <2>1. CASE k \in DOMAIN buckets
    <3> DEFINE b == buckets[k]
               old == b.tokens + (now - b.lastRefill) * Rate
               new == b.tokens + (now' - b.lastRefill) * Rate
    <3>1. b \in Bucket /\ b.lastRefill <= now
      BY <2>1 DEF LimiterTypeOK
    <3>2. Level[k] = Ideal!Brim(old)
      BY <2>1, RefilledTokens DEF Level
    <3>3. Level'[k] = refilled(buckets[k])'.tokens
      BY <1>1, <2>1 DEF Level
    <3>4. refilled(buckets[k])' = [b EXCEPT !.tokens = IF new > Capacity
                                                      THEN Capacity ELSE new,
                                            !.lastRefill = now']
      BY <1>1, <3>1 DEF refilled, Bucket
    <3>5. Level'[k] = Ideal!Brim(new)
      BY <3>1, <3>3, <3>4 DEF Ideal!Brim, Bucket
    <3>6. /\ now - b.lastRefill \in Int /\ dt \in Int
          /\ now' - b.lastRefill = (now - b.lastRefill) + dt
      BY <1>1, <1>2, <3>1 DEF Bucket
    <3>7. (now' - b.lastRefill) * Rate = (now - b.lastRefill) * Rate + dt * Rate
      BY <3>6, LimiterAssumption, ProductOfSum
    <3>8. b.tokens \in Nat /\ (now - b.lastRefill) * Rate \in Int
      BY <3>1, <3>6, LimiterAssumption DEF Bucket
    <3>9. new = old + dt * Rate /\ old \in Int
      <4> DEFINE u == (now - b.lastRefill) * Rate
                 v == (now' - b.lastRefill) * Rate
                 w == dt * Rate
      <4>1. v = u + w /\ u \in Int /\ w \in Nat /\ b.tokens \in Nat
        BY <1>2, <3>7, <3>8
      <4> HIDE DEF u, v, w
      <4>2. b.tokens + v = (b.tokens + u) + w /\ b.tokens + u \in Int
        BY <4>1
      <4> QED BY <4>2 DEF u, v, w
    <3> DEFINE w == dt * Rate
    <3>10. w \in Nat
      BY <1>2
    <3> HIDE DEF old, new, dt, w
    <3>11. Ideal!Brim(old + w) = Ideal!Brim(Ideal!Brim(old) + w)
      BY <3>9, <3>10, CapacityPositive DEF Ideal!Brim
    <3> QED BY <3>2, <3>5, <3>9, <3>11 DEF w
  <2>2. CASE k \notin DOMAIN buckets
    <3>1. Level[k] = Capacity /\ Level'[k] = Capacity
      BY <1>1, <2>2 DEF Level
    <3> HIDE DEF dt
    <3>2. Ideal!Brim(Capacity + dt * Rate) = Capacity
      BY <1>2, CapacityPositive DEF Ideal!Brim
    <3> QED BY <3>1, <3>2
  <2> QED BY <2>1, <2>2
<1>4. Level' = [k \in Keys |-> Ideal!Brim(Level[k] + dt * Rate)]
  <2>1. Level' = [k \in Keys |-> Level'[k]]
    BY DEF Level
  <2> QED BY <1>3, <2>1
<1>5. Asked' = Asked
  BY <1>1 DEF Asked
<1> QED BY <1>1, <1>4, <1>5 DEF Ideal!Elapse

\* The clients that a request finds swept were idle, and a bucket that is touched holds
\* the level of its client, or is full if it was swept.
Forgotten == DOMAIN buckets \ kept

LEMMA ForgottenAreIdle == LimiterTypeOK => Forgotten \in SUBSET {x \in Keys : Ideal!Idle(x)}
<1> SUFFICES ASSUME LimiterTypeOK, NEW x \in Forgotten PROVE x \in Keys /\ Ideal!Idle(x)
  OBVIOUS
<1>1. x \in DOMAIN buckets /\ IdleKey(x)
  BY DEF Forgotten, kept
<1>2. x \in Keys /\ buckets[x].lastAccess \in Nat
  BY <1>1 DEF LimiterTypeOK, Bucket
<1>3. Asked[x] = buckets[x].lastAccess
  BY <1>1, <1>2 DEF Asked
<1> QED BY <1>1, <1>2, <1>3 DEF Ideal!Idle, IdleKey, NotAsked

LEMMA TouchedLevel ==
  ASSUME LimiterTypeOK, NEW k \in Keys
  PROVE  touched(k).tokens = Ideal!Without(Forgotten)[k]
<1>1. CASE k \in kept
  <2>1. k \in DOMAIN buckets /\ k \notin Forgotten
    BY <1>1 DEF kept, Forgotten
  <2>2. refilled(buckets[k]) \in Bucket
    BY <2>1, RefilledType
  <2>3. touched(k) = [refilled(buckets[k]) EXCEPT !.lastAccess = now]
    BY <1>1 DEF touched
  <2> QED BY <2>1, <2>2, <2>3 DEF Level, Bucket, Ideal!Without
<1>2. CASE k \notin kept
  <2>1. touched(k).tokens = Capacity
    BY <1>2 DEF touched
  <2>2. k \notin Forgotten => Level[k] = Capacity
    BY <1>2 DEF Forgotten, Level
  <2> QED BY <2>1, <2>2 DEF Ideal!Without
<1> QED BY <1>1, <1>2

\* A request leaves its own client a bucket that was just touched; the others keep
\* their bucket or are forgotten.
LEMMA TouchLevel ==
  ASSUME LimiterTypeOK, NEW k \in Keys,
         NEW b, Touch(k, b), b.lastRefill = now, b.lastAccess = now
  PROVE  /\ Level' = [Ideal!Without(Forgotten) EXCEPT ![k] = b.tokens]
         /\ Asked' = [x \in Keys |-> IF x = k THEN now
                                    ELSE IF x \in Forgotten THEN NotAsked ELSE Asked[x]]
<1>1. now' = now /\ now \in Nat /\ DOMAIN buckets' = kept \cup {k}
  BY DEF Touch, LimiterTypeOK
<1>2. Level'[k] = b.tokens /\ Asked'[k] = now
  <2>1. k \in DOMAIN buckets' /\ buckets'[k] = b
    BY DEF Touch
  <2>2. Level'[k] = refilled(buckets[k])'.tokens
    BY <2>1 DEF Level
  <2>3. refilled(buckets[k])' = b
    BY <1>1, <2>1 DEF refilled
  <2>4. Asked'[k] = now
    BY <2>1 DEF Asked
  <2> QED BY <2>2, <2>3, <2>4
<1>3. ASSUME NEW x \in Keys, x # k
      PROVE  /\ Level'[x] = Ideal!Without(Forgotten)[x]
             /\ Asked'[x] = IF x \in Forgotten THEN NotAsked ELSE Asked[x]
  <2>1. CASE x \in DOMAIN buckets'
    <3>1. x \in DOMAIN buckets /\ buckets'[x] = buckets[x] /\ x \notin Forgotten
      BY <1>1, <1>3, <2>1 DEF Touch, kept, Forgotten
    <3>2. Level'[x] = refilled(buckets[x])'.tokens
      BY <2>1 DEF Level
    <3>3. refilled(buckets[x])' = refilled(buckets[x])
      BY <1>1, <3>1 DEF refilled
    <3>4. Asked'[x] = Asked[x]
      BY <2>1, <3>1 DEF Asked
    <3> QED BY <3>1, <3>2, <3>3, <3>4 DEF Level, Ideal!Without
  <2>2. CASE x \notin DOMAIN buckets'
    <3>1. Level'[x] = Capacity /\ Asked'[x] = NotAsked
      BY <2>2 DEF Level, Asked
    <3>2. x \notin Forgotten => x \notin DOMAIN buckets
      BY <1>1, <2>2 DEF Forgotten
    <3>3. x \notin Forgotten => Level[x] = Capacity /\ Asked[x] = NotAsked
      BY <3>2 DEF Level, Asked
    <3> QED BY <3>1, <3>3 DEF Ideal!Without
  <2> QED BY <2>1, <2>2
<1>4. /\ Level' = [x \in Keys |-> Level'[x]] /\ Asked' = [x \in Keys |-> Asked'[x]]
      /\ Ideal!Without(Forgotten) = [x \in Keys |-> Ideal!Without(Forgotten)[x]]
  BY DEF Level, Asked, Ideal!Without
<1>5. Level' = [Ideal!Without(Forgotten) EXCEPT ![k] = b.tokens]
  BY <1>2, <1>3, <1>4
<1>6. ASSUME NEW x \in Keys
      PROVE  Asked'[x] = IF x = k THEN now ELSE IF x \in Forgotten THEN NotAsked ELSE Asked[x]
  BY <1>2, <1>3
<1> QED BY <1>4, <1>5, <1>6

LEMMA RequestRefines ==
  ASSUME LimiterTypeOK, NEW k \in Keys, Allow(k) \/ Refuse(k)
  PROVE  Ideal!Request(k)
<1> DEFINE filled == Ideal!Without(Forgotten)
           after == IF Allow(k) THEN [touched(k) EXCEPT !.tokens = @ - Unit] ELSE touched(k)
<1>1. /\ touched(k) \in Bucket /\ touched(k).lastRefill = now /\ touched(k).lastAccess = now
      /\ touched(k).tokens = filled[k]
  BY TouchedType, TouchedLevel
<1>2. Touch(k, after) /\ (Allow(k) <=> touched(k).tokens >= Unit)
  <2>1. touched(k).tokens \in Nat /\ Unit \in Nat
    BY <1>1, LimiterAssumption DEF Bucket
  <2> QED BY <2>1 DEF Allow, Refuse
<1>3. after.lastRefill = now /\ after.lastAccess = now
  BY <1>1 DEF Bucket
<1>4. after.tokens = IF filled[k] >= Unit THEN filled[k] - Unit ELSE filled[k]
  BY <1>1, <1>2 DEF Bucket
<1>5. filled = [filled EXCEPT ![k] = filled[k]]
  BY DEF Ideal!Without
<1> HIDE DEF filled, after
<1>6. /\ Level' = [filled EXCEPT ![k] = after.tokens]
      /\ Asked' = [x \in Keys |-> IF x = k THEN now
                                 ELSE IF x \in Forgotten THEN NotAsked ELSE Asked[x]]
  BY <1>2, <1>3, TouchLevel DEF filled
<1>7. Level' = IF filled[k] >= Unit THEN [filled EXCEPT ![k] = @ - Unit] ELSE filled
  BY <1>4, <1>5, <1>6
<1>8. now' = now
  BY <1>2 DEF Touch
<1> QED BY <1>6, <1>7, <1>8, ForgottenAreIdle DEF Ideal!Request, filled

LEMMA InitRefines == LimiterInit => Ideal!Init
BY DEF LimiterInit, Level, Asked, Ideal!Init

LEMMA NextRefines ==
  LimiterTypeOK /\ LimiterTypeOK' /\ [LimiterNext]_limiterVars => [Ideal!Next]_(Ideal!vars)
<1> SUFFICES ASSUME LimiterTypeOK, LimiterTypeOK', [LimiterNext]_limiterVars PROVE [Ideal!Next]_(Ideal!vars)
  OBVIOUS
<1>1. CASE Elapse
  BY <1>1, ElapseRefines DEF Ideal!Next
<1>2. ASSUME now' = now, buckets' = buckets PROVE UNCHANGED Ideal!vars
  BY <1>2 DEF Ideal!vars, Level, Asked, refilled
<1>3. ASSUME NEW ip \in IPs, Request(ip) PROVE [Ideal!Next]_(Ideal!vars)
  <2>1. KeyOf(ip) \in Keys
    BY DEF KeyOf, Keys
  <2> QED BY <1>3, <2>1, RequestRefines DEF Request, Ideal!Next
<1> QED BY <1>1, <1>2, <1>3 DEF LimiterNext, Unauthorized, limiterVars

\* Buckets that are filled lazily, and swept by whoever asks next, are the token
\* bucket, for every rate, burst and TTL: what is forgotten was idle for IdleTTL.
THEOREM RefinesTokenBucket == LimiterSpec => ImplementsIdeal
<1>1. LimiterTypeOK /\ LimiterTypeOK' /\ [LimiterNext]_limiterVars => [Ideal!Next]_(Ideal!vars)
  BY NextRefines
<1> QED BY <1>1, InitRefines, LimiterTypeCorrect, PTL DEF LimiterSpec, ImplementsIdeal, Ideal!Spec

(* ---------------------------- Retry-After ------------------------------ *)

\* The inflow of the seconds a refused client is told to wait makes up a token.
LEMMA RetryAfterRefills ==
  ASSUME NEW t \in Nat, t < Unit
  PROVE  RetryAfter(t) \in Nat /\ t + RetryAfter(t) * Rate >= Unit
<1> DEFINE x == Unit - t + Rate - 1
           q == x \div Rate
<1>1. x \in Nat /\ Rate \in Nat /\ Rate > 0 /\ Unit \in Nat
  BY LimiterAssumption
<1>2. q \in Nat /\ x < (q + 1) * Rate
  <2> HIDE DEF x
  <2>1. \A n \in Nat : \A r \in Nat \ {0} :
          n \div r \in Nat /\ n < ((n \div r) + 1) * r
    OBVIOUS
  <2> QED BY <1>1, <2>1
<1>3. (q + 1) * Rate = q * Rate + Rate
  <2> HIDE DEF q
  <2>1. (q + 1) * Rate = q * Rate + 1 * Rate
    BY <1>1, <1>2, ProductOfSum
  <2> QED BY <1>1, <2>1
<1>4. q * Rate \in Int
  BY <1>1, <1>2
<1> DEFINE p == q * Rate
<1>5. p \in Int /\ x < p + Rate
  BY <1>2, <1>3, <1>4
<1>6. t + p >= Unit
  <2> HIDE DEF p
  <2> QED BY <1>1, <1>5
<1>7. RetryAfter(t) = IF q < 1 THEN 1 ELSE q
  BY DEF RetryAfter
<1>8. ~(q < 1)
  <2> SUFFICES ASSUME q < 1 PROVE FALSE
    OBVIOUS
  <2>1. q = 0
    BY <1>2
  <2> HIDE DEF q
  <2>2. p = 0
    BY <1>1, <2>1
  <2> QED BY <1>1, <1>6, <2>2
<1> QED BY <1>2, <1>6, <1>7, <1>8

\* By the time a refused client was told to come back, its bucket, if it still has
\* one, holds a token; no other request has drawn on it, or the promise is off.
PromiseKept ==
  \A k \in Keys : promise[k] # NoPromise /\ k \in DOMAIN buckets =>
    buckets[k].tokens + (promise[k] - buckets[k].lastRefill) * Rate >= Unit

\* So whoever comes back in time is not refused: the bucket has filled, or a full
\* one is made for it.
LEMMA PromiseMet ==
  ASSUME LimiterTypeOK, PromiseKept, NEW k \in Keys, promise[k] # NoPromise,
         touched(k).tokens < Unit
  PROVE  now < promise[k]
<1>1. k \in kept
  <2> SUFFICES ASSUME k \notin kept PROVE FALSE
    OBVIOUS
  <2>1. touched(k).tokens = Capacity
    BY DEF touched
  <2> QED BY <2>1, CapacityPositive, LimiterAssumption
<1>2. k \in DOMAIN buckets
  BY <1>1 DEF kept
<1> DEFINE b == buckets[k]
           inflow == (now - b.lastRefill) * Rate
           due == (promise[k] - b.lastRefill) * Rate
<1>3. /\ b \in Bucket /\ b.tokens \in Nat /\ b.lastRefill \in Nat
      /\ b.lastRefill <= now /\ now \in Nat /\ promise[k] \in Int
  BY <1>2 DEF LimiterTypeOK, Bucket
<1>4. b.tokens + due >= Unit
  BY <1>2 DEF PromiseKept
<1>5. touched(k).tokens = refilled(b).tokens
  <2>1. refilled(b) \in Bucket
    BY <1>2, RefilledType
  <2>2. touched(k) = [refilled(b) EXCEPT !.lastAccess = now]
    BY <1>1 DEF touched
  <2> QED BY <2>1, <2>2 DEF Bucket
<1>6. inflow \in Int /\ due \in Int
  <2>1. now - b.lastRefill \in Int /\ promise[k] - b.lastRefill \in Int /\ Rate \in Int
    BY <1>3, LimiterAssumption
  <2> HIDE DEF b
  <2> QED BY <2>1
<1>7. b.tokens + inflow < Unit
  <2>1. CASE now > b.lastRefill
    <3>1. refilled(b).tokens = IF b.tokens + inflow > Capacity
                               THEN Capacity ELSE b.tokens + inflow
      BY <1>3, <2>1 DEF refilled, Bucket
    <3> HIDE DEF inflow
    <3> QED BY <1>3, <1>5, <1>6, <3>1, CapacityPositive, LimiterAssumption
  <2>2. CASE ~(now > b.lastRefill)
    <3>1. refilled(b) = b
      BY <2>2 DEF refilled
    <3>2. now - b.lastRefill = 0
      BY <1>3, <2>2
    <3>3. inflow = 0
      BY <3>2, LimiterAssumption
    <3> HIDE DEF inflow, b
    <3> QED BY <1>3, <1>5, <3>1, <3>3, LimiterAssumption
  <2> QED BY <2>1, <2>2
<1>8. inflow < due
  <2> HIDE DEF inflow, due, b
  <2> QED BY <1>3, <1>4, <1>6, <1>7, LimiterAssumption
<1> SUFFICES ASSUME promise[k] <= now PROVE FALSE
  BY <1>3
<1>9. due <= inflow
  <2>1. promise[k] - b.lastRefill <= now - b.lastRefill
    BY <1>3
  <2>2. promise[k] - b.lastRefill \in Int /\ now - b.lastRefill \in Int
    BY <1>3
  <2>3. Rate \in Nat
    BY LimiterAssumption
  <2> HIDE DEF b
  <2> QED BY <2>1, <2>2, <2>3, ProductGrows
<1> HIDE DEF inflow, due
<1> QED BY <1>6, <1>8, <1>9

LEMMA RefuseKeepsPromises ==
  ASSUME LimiterTypeOK, PromiseKept, NEW k \in Keys, Refuse(k)
  PROVE  PromiseKept'
<1> DEFINE b == touched(k)
<1>1. /\ b \in Bucket /\ b.lastRefill = now /\ b.tokens < Unit /\ Touch(k, b)
      /\ promise' = [promise EXCEPT ![k] = now + RetryAfter(b.tokens)]
      /\ now \in Nat /\ promise \in [Keys -> Int]
  BY TouchedType DEF Refuse, LimiterTypeOK
<1> HIDE DEF b
<1>2. buckets' = [x \in kept \cup {k} |-> IF x = k THEN b ELSE buckets[x]]
  BY <1>1 DEF Touch
<1>3. ASSUME NEW x \in Keys, promise'[x] # NoPromise, x \in DOMAIN buckets'
      PROVE  buckets'[x].tokens + (promise'[x] - buckets'[x].lastRefill) * Rate >= Unit
  <2>1. CASE x = k
    <3>1. b.tokens \in Nat
      BY <1>1 DEF Bucket
    <3>2. /\ RetryAfter(b.tokens) \in Nat
          /\ b.tokens + RetryAfter(b.tokens) * Rate >= Unit
      BY <1>1, <3>1, RetryAfterRefills
    <3>3. buckets'[x] = b /\ promise'[x] = now + RetryAfter(b.tokens)
      BY <1>1, <1>2, <2>1
    <3>4. promise'[x] - b.lastRefill = RetryAfter(b.tokens)
      BY <1>1, <3>2, <3>3
    <3> QED BY <3>2, <3>3, <3>4
  <2>2. CASE x # k
    <3>1. x \in DOMAIN buckets /\ buckets'[x] = buckets[x] /\ promise'[x] = promise[x]
      BY <1>1, <1>2, <1>3, <2>2 DEF kept
    <3> QED BY <1>3, <3>1 DEF PromiseKept
  <2> QED BY <2>1, <2>2
<1> QED BY <1>3 DEF PromiseKept

LEMMA AdmitKeepsPromises ==
  ASSUME LimiterTypeOK, PromiseKept, NEW k \in Keys, Allow(k)
  PROVE  PromiseKept'
<1>1. /\ promise' = [promise EXCEPT ![k] = NoPromise] /\ promise \in [Keys -> Int]
      /\ DOMAIN buckets' = kept \cup {k}
      /\ \A x \in kept \ {k} : buckets'[x] = buckets[x]
  BY DEF Allow, Touch, LimiterTypeOK
<1>2. ASSUME NEW x \in Keys, promise'[x] # NoPromise, x \in DOMAIN buckets'
      PROVE  buckets'[x].tokens + (promise'[x] - buckets'[x].lastRefill) * Rate >= Unit
  <2>1. x # k /\ promise'[x] = promise[x]
    BY <1>1, <1>2
  <2>2. x \in DOMAIN buckets /\ buckets'[x] = buckets[x]
    BY <1>1, <1>2, <2>1 DEF kept
  <2> QED BY <1>2, <2>1, <2>2 DEF PromiseKept
<1> QED BY <1>2 DEF PromiseKept

LEMMA PromisesStep ==
  ASSUME LimiterTypeOK, PromiseKept, [LimiterNext]_limiterVars
  PROVE  /\ PromiseKept'
         /\ \A k \in Keys : promise'[k] # promise[k] /\ status' = "limited"
                              /\ promise[k] # NoPromise => now < promise[k]
<1>1. CASE Elapse \/ Unauthorized \/ UNCHANGED limiterVars
  BY <1>1 DEF Elapse, Unauthorized, limiterVars, PromiseKept
<1>2. ASSUME NEW k \in Keys, Allow(k)
      PROVE  PromiseKept' /\ status' = "ok"
  BY <1>2, AdmitKeepsPromises DEF Allow
<1>3. ASSUME NEW k \in Keys, Refuse(k), NEW x \in Keys,
             promise'[x] # promise[x], promise[x] # NoPromise
      PROVE  now < promise[x]
  <2>1. promise' = [promise EXCEPT ![k] = now + retry'] /\ touched(k).tokens < Unit
    BY <1>3 DEF Refuse
  <2>2. x = k
    BY <1>3, <2>1 DEF LimiterTypeOK
  <2> QED BY <1>3, <2>1, <2>2, PromiseMet
<1>4. ASSUME NEW k \in Keys, Refuse(k) PROVE PromiseKept'
  BY <1>4, RefuseKeepsPromises
<1>5. \A ip \in IPs : KeyOf(ip) \in Keys
  BY DEF KeyOf, Keys
<1> QED BY <1>1, <1>2, <1>3, <1>4, <1>5 DEF LimiterNext, Request

\* Retry-After can be trusted, for every rate, burst, clock and sweep.
THEOREM RetryAfterAlwaysSuffices == LimiterSpec => RetryAfterSuffices
<1>1. LimiterInit => PromiseKept
  BY DEF LimiterInit, PromiseKept
<1>2. ASSUME LimiterTypeOK, PromiseKept, [LimiterNext]_limiterVars
      PROVE  PromiseKept' /\
             [\A k \in Keys :
                promise'[k] # promise[k] /\ status' = "limited"
                  /\ promise[k] # NoPromise => now < promise[k]]_limiterVars
  BY <1>2, PromisesStep
<1> QED
  BY <1>1, <1>2, LimiterTypeCorrect, PTL DEF LimiterSpec, RetryAfterSuffices
=============================================================================
