---------------------------- MODULE MesoSimOrder ----------------------------
(***************************************************************************)
(* Two runs of the same demand, handed to Simulate in two orders, tick by  *)
(* tick side by side: "the release order -- and therefore the whole trace  *)
(* -- does not depend on how the caller ordered reqs"                      *)
(* (internal/benchmark/simulator.go).  The first run is MesoSim itself,    *)
(* the second a copy of it with variables of its own.                      *)
(***************************************************************************)
EXTENDS MesoSim

VARIABLES
    reqs2, maxTicks2, cancelled2, pc2, tick2, nextPending2, newlyReleased2,
    inFlight2, realized2, load2, occupied2, frames2, result2

vars2 == <<reqs2, maxTicks2, cancelled2, pc2, tick2, nextPending2,
           newlyReleased2, inFlight2, realized2, load2, occupied2, frames2,
           result2>>

Second == INSTANCE MesoSim WITH
    reqs <- reqs2, maxTicks <- maxTicks2, cancelled <- cancelled2, pc <- pc2,
    tick <- tick2, nextPending <- nextPending2,
    newlyReleased <- newlyReleased2, inFlight <- inFlight2,
    realized <- realized2, load <- load2, occupied <- occupied2,
    frames <- frames2, result <- result2

Reordered(s) ==
    {[i \in DOMAIN s |-> s[p[i]]] :
        p \in {q \in [DOMAIN s -> DOMAIN s] : Range(q) = DOMAIN s}}

\* The second run has one order of the requests, the same for every order of them
\* that the first may have.
PairInit ==
    /\ Init
    /\ reqs2 = CHOOSE s \in Reordered(reqs) : TRUE
    /\ maxTicks2 = maxTicks
    /\ Second!Init

\* Each takes its step of the tick.  A cancelled pair need not return together.
BothStep == Step /\ Second!Step
FirstStep == pc2 = "returned" /\ Step /\ UNCHANGED vars2
SecondStep == pc = "returned" /\ Second!Step /\ UNCHANGED vars

PairStep == BothStep \/ FirstStep \/ SecondStep

\* One context for both.
CancelBoth == Cancel /\ Second!Cancel

PairReturned == Returned /\ Second!Returned

PairNext == PairStep \/ CancelBoth \/ PairReturned

\* Simulate runs on a goroutine of its own and waits for nothing.
PairSpec == PairInit /\ [][PairNext]_<<vars, vars2>> /\ WF_<<vars, vars2>>(PairStep)

-----------------------------------------------------------------------------
Counted(s) == [x \in Range(s) |-> Cardinality({i \in DOMAIN s : s[i] = x})]
Times(trips) == [k \in DOMAIN trips |-> trips[k].seconds]

\* The two runs show the same trace until they are cancelled: the same loads, the
\* same frames and, when they end, the same ticks and the same realized times,
\* which is all that the mean and the percentile are taken from.  Only the order
\* in which requests of one departure leave may differ.
TraceIgnoresOrder ==
    ~cancelled =>
        /\ pc = pc2 /\ tick = tick2 /\ load = load2 /\ frames = frames2
        /\ Counted(Times(realized)) = Counted(Times(realized2))
        /\ result.kind = result2.kind
        /\ result.kind = "result" =>
              /\ result.ticks = result2.ticks
              /\ result.completed = result2.completed
              /\ result.released = result2.released
=============================================================================
