----------------------------- MODULE LiveStream -----------------------------
(***************************************************************************)
(* One connection of GET /stream (engine/internal/api/stream.go): runStream  *)
(* with the background run it launches (benchmark.RunParallel, one goroutine *)
(* per algorithm, parallel.go), the liveBuffers they share, the replay loop, *)
(* and the client that folds the frames (web/src/lib/congestion.ts).         *)
(*                                                                           *)
(* One action is one critical section of liveBuffers.mu, one operation on    *)
(* the notify channel, or one socket write.  v/c is an integer number of     *)
(* half bucket widths; simulated time is an integer number of seconds.       *)
(***************************************************************************)
EXTENDS Integers, FiniteSets, SequencesExt

CONSTANTS
  RouterOrder,   \* benchmark.RouterOrder, a sequence of distinct names
  Segments,      \* segment ids of the network
  VCs,           \* the v/c vectors a simulated tick may produce
  vcBucketCount, \* number of buckets; the last one saturates
  TickSeconds,   \* simulated seconds per simulator tick
  Steps,         \* simulated seconds per server tick: speed / tick_hz
  MaxTicks       \* bound: algorithm -> ticks after which its simulation ends

Algos == ToSet(RouterOrder)
n == Len(RouterOrder)

ASSUME OrderAssumption ==
  RouterOrder \in Seq(Algos) /\ IsInjective(RouterOrder) /\ RouterOrder # << >>
ASSUME VCsAssumption == VCs \subseteq [Segments -> Nat]
ASSUME NumbersAssumption ==
  /\ vcBucketCount \in Nat \ {0}
  /\ TickSeconds \in Nat \ {0}
  /\ Steps \subseteq Nat \ {0}
  /\ MaxTicks \in [Algos -> Nat \ {0}]

LastTick == Max({MaxTicks[a] : a \in Algos})

VARIABLES
  \* the producer: RunParallel and its goroutines
  run,        \* where the producer goroutine is
  sim,        \* algorithm -> where its simulation goroutine is
  \* liveBuffers
  ticks,      \* algorithm -> the v/c vectors it has emitted
  finished,   \* the producer has recorded its terminal state
  err,        \* that state is an error
  notify,     \* tokens in the notify channel (capacity 1)
  \* runStream and its replay state
  pc,         \* where the handler goroutine is
  next,       \* the algorithm advance comes to next, as an index of RouterOrder
  cursor,     \* algorithm -> how many of its ticks have been consumed
  lastBuckets,\* algorithm -> segment -> bucket last sent
  elapsed,    \* simulated seconds replayed, capped (see Elapse)
  step,       \* simulated seconds per server tick of this connection
  out,        \* frames built and not written yet
  outcome,    \* how runStream ended
  \* the environment
  cancelled,  \* the connection's context is done (the peer left)
  view        \* what the client has folded: algorithm -> tick and buckets

producerVars == <<run, sim>>
bufferVars == <<ticks, finished, err, notify>>
replayVars == <<next, cursor, lastBuckets, elapsed, step>>
vars == <<producerVars, bufferVars, pc, replayVars, out, outcome, cancelled, view>>

Buckets == 0 .. vcBucketCount - 1
PartialBuckets == UNION {[S -> Buckets] : S \in SUBSET Segments}
NoBuckets == [s \in {} |-> 0]
Frame == [algo : Algos, tick : Nat, snapshot : BOOLEAN, segments : PartialBuckets]

\* reference: computing the static PoA; simulate: the goroutines run; collect:
\* wg.Wait is over; signal: finish has recorded, not signalled.
RunPC == {"none", "reference", "simulate", "collect", "signal", "returned"}
\* tick: inside a simulator tick; signal: emitted, not signalled.
SimPC == {"none", "tick", "signal", "ok", "error"}
StreamPC == {"idle", "held", "check", "parked", "gate", "build", "snapshots",
             "ticker", "advance", "frames", "done", "final", "joining", "leaving", "over"}

\* cancelled: while waiting for the first ticks; broken: a write failed, or the
\* peer left while the run was replayed.
Outcome == {"none", "drained", "failed", "cancelled", "broken"}

TypeOK ==
  /\ run \in RunPC
  /\ sim \in [Algos -> SimPC]
  /\ ticks \in [Algos -> Seq(VCs)] /\ \A a \in Algos : Len(ticks[a]) <= MaxTicks[a]
  /\ finished \in BOOLEAN /\ err \in BOOLEAN
  /\ notify \in 0 .. 1
  /\ pc \in StreamPC
  /\ next \in 1 .. n + 1
  /\ cursor \in [Algos -> 0 .. LastTick]
  /\ lastBuckets \in [Algos -> PartialBuckets]
  /\ elapsed \in 0 .. LastTick * TickSeconds
  /\ step \in Steps
  /\ out \in Seq(Frame)
  /\ outcome \in Outcome
  /\ cancelled \in BOOLEAN
  /\ view \in [Algos -> [tick : Nat, buckets : PartialBuckets]]

Init ==
  /\ run = "none"
  /\ sim = [a \in Algos |-> "none"]
  /\ ticks = [a \in Algos |-> << >>]
  /\ finished = FALSE /\ err = FALSE
  /\ notify = 0
  /\ pc = "idle"
  /\ next = 1
  /\ cursor = [a \in Algos |-> 0]
  /\ lastBuckets = [a \in Algos |-> NoBuckets]
  /\ elapsed = 0
  /\ step \in Steps
  /\ out = << >>
  /\ outcome = "none"
  /\ cancelled = FALSE
  /\ view = [a \in Algos |-> [tick |-> 0, buckets |-> NoBuckets]]

-----------------------------------------------------------------------------
(* Pure functions. *)

\* (Mutation: the top band is not absorbed.)
bucketOfUnsaturated(vc) == vc \div 2

bucketOf(vc) == LET b == vc \div 2 IN
  IF b >= vcBucketCount THEN vcBucketCount - 1 ELSE b

buckets(vcs) == [s \in Segments |-> bucketOf(vcs[s])]

\* The segments of a delta frame: those whose bucket is not the one last sent.
changed(vcs, last) ==
  [s \in {x \in Segments : x \notin DOMAIN last \/ last[x] # bucketOf(vcs[x])}
     |-> bucketOf(vcs[s])]

\* The client: a snapshot replaces the algorithm's map, a delta overlays it.
reduceCongestion(v, frame) ==
  [v EXCEPT ![frame.algo] =
     [tick    |-> frame.tick,
      buckets |-> IF frame.snapshot THEN frame.segments
                  ELSE [s \in DOMAIN frame.segments \cup DOMAIN @.buckets |->
                          IF s \in DOMAIN frame.segments THEN frame.segments[s]
                                                         ELSE @.buckets[s]]]]

runCancelled == cancelled \/ pc \in {"joining", "leaving", "over"}

-----------------------------------------------------------------------------
(* The producer goroutine and the simulations. *)

\* staticPoARef succeeds: the six goroutines start.
StartSims ==
  /\ run = "reference"
  /\ run' = "simulate"
  /\ sim' = [a \in Algos |-> "tick"]
  /\ UNCHANGED <<bufferVars, pc, replayVars, out, outcome, cancelled, view>>

\* staticPoARef fails: RunParallel returns before any simulation, and finish
\* records the error.
ReferenceFails ==
  /\ run = "reference"
  /\ run' = "signal"
  /\ finished' = TRUE /\ err' = TRUE
  /\ UNCHANGED <<sim, ticks, notify, pc, replayVars, out, outcome, cancelled, view>>

\* emit: the tick is appended under mu.
Emit(a) ==
  /\ sim[a] = "tick"
  /\ Len(ticks[a]) < MaxTicks[a]
  /\ \E vcs \in VCs : ticks' = [ticks EXCEPT ![a] = Append(@, vcs)]
  /\ sim' = [sim EXCEPT ![a] = "signal"]
  /\ UNCHANGED <<run, finished, err, notify, pc, replayVars, out, outcome,
                 cancelled, view>>

\* The simulation has drained or reached its last tick; or the next tick starts,
\* unless the context is done.
AfterTick(a) ==
  {"ok"} \cup {s \in {"tick", "error"} :
                /\ Len(ticks[a]) < MaxTicks[a]
                /\ s = "error" <=> runCancelled}

\* (Mutation: the wakeup spins until there is room for its token.)
SignalSpinning(a) ==
  /\ sim[a] = "signal"
  /\ IF notify = 0
     THEN /\ notify' = 1
          /\ \E s \in AfterTick(a) : sim' = [sim EXCEPT ![a] = s]
          /\ UNCHANGED <<run, ticks, finished, err, pc, replayVars, out, outcome,
                         cancelled, view>>
     ELSE UNCHANGED vars

\* signal: a token unless one is pending.
Signal(a) ==
  /\ sim[a] = "signal"
  /\ notify' = 1
  /\ \E s \in AfterTick(a) : sim' = [sim EXCEPT ![a] = s]
  /\ UNCHANGED <<run, ticks, finished, err, pc, replayVars, out, outcome,
                 cancelled, view>>

\* A route of the tick fails, or the tick is cancelled.
SimFails(a) ==
  /\ sim[a] = "tick"
  /\ sim' = [sim EXCEPT ![a] = "error"]
  /\ UNCHANGED <<run, bufferVars, pc, replayVars, out, outcome, cancelled, view>>

\* wg.Wait returns: every simulation has ended.
Collect ==
  /\ run = "simulate"
  /\ \A a \in Algos : sim[a] \in {"ok", "error"}
  /\ run' = "collect"
  /\ UNCHANGED <<sim, bufferVars, pc, replayVars, out, outcome, cancelled, view>>

\* finish(errs): the first error in RouterOrder, if any, is recorded under mu.
Finish ==
  /\ run = "collect"
  /\ run' = "signal"
  /\ finished' = TRUE
  /\ err' = (\E a \in Algos : sim[a] = "error")
  /\ UNCHANGED <<sim, ticks, notify, pc, replayVars, out, outcome, cancelled, view>>

\* (Mutation: finish does not wake the waiter.)
FinishSilently ==
  /\ run = "signal"
  /\ run' = "returned"
  /\ UNCHANGED <<sim, bufferVars, pc, replayVars, out, outcome, cancelled, view>>

\* finish signals, and producerDone is closed.
FinishSignals ==
  /\ run = "signal"
  /\ run' = "returned"
  /\ notify' = 1
  /\ UNCHANGED <<sim, ticks, finished, err, pc, replayVars, out, outcome,
                 cancelled, view>>

-----------------------------------------------------------------------------
(* handleStream and runStream. *)

Goto(label) == pc' = label

\* A slot is free.  (StreamAdmission has the other connections.)
Admit ==
  /\ pc = "idle"
  /\ Goto("held")
  /\ UNCHANGED <<producerVars, bufferVars, replayVars, out, outcome, cancelled, view>>

AcceptFails ==
  /\ pc = "held"
  /\ Goto("leaving")
  /\ UNCHANGED <<producerVars, bufferVars, replayVars, out, outcome, cancelled, view>>

\* The upgrade succeeds and runStream launches the producer.
Launch ==
  /\ pc = "held"
  /\ Goto("check")
  /\ run' = "reference"
  /\ UNCHANGED <<sim, bufferVars, replayVars, out, outcome, cancelled, view>>

haveAll == \A a \in Algos : ticks[a] # << >>

\* waitFirstTicks reads the buffers under mu.
CheckFirstTicks ==
  /\ pc = "check"
  /\ Goto(IF haveAll \/ finished THEN "gate" ELSE "parked")
  /\ UNCHANGED <<producerVars, bufferVars, replayVars, out, outcome, cancelled, view>>

\* Its select, when the token is there ...
Woken ==
  /\ pc = "parked"
  /\ notify = 1
  /\ notify' = 0
  /\ Goto("check")
  /\ UNCHANGED <<producerVars, ticks, finished, err, replayVars, out, outcome,
                 cancelled, view>>

\* ... and when the context is done.
WaitCancelled ==
  /\ pc = "parked"
  /\ cancelled
  /\ outcome' = "cancelled"
  /\ Goto("joining")
  /\ UNCHANGED <<producerVars, bufferVars, replayVars, out, cancelled, view>>

\* terminalErr: the producer has finished with an error.
TerminalGate ==
  /\ pc = "gate"
  /\ IF finished /\ err
     THEN Goto("joining") /\ outcome' = "failed"
     ELSE Goto("build") /\ UNCHANGED outcome
  /\ UNCHANGED <<producerVars, bufferVars, replayVars, out, cancelled, view>>

\* newReplayState: the first tick of every algorithm becomes its snapshot.
BuildSnapshots ==
  LET has(a) == ticks[a] # << >>
      first(a) == IF has(a) THEN buckets(ticks[a][1]) ELSE NoBuckets
  IN
  /\ pc = "build"
  /\ cursor' = [a \in Algos |-> IF has(a) THEN 1 ELSE 0]
  /\ lastBuckets' = [a \in Algos |-> first(a)]
  /\ out' = [i \in 1 .. n |->
               [algo |-> RouterOrder[i], tick |-> IF has(RouterOrder[i]) THEN 1 ELSE 0,
                snapshot |-> TRUE, segments |-> first(RouterOrder[i])]]
  /\ Goto("snapshots")
  /\ UNCHANGED <<producerVars, bufferVars, next, elapsed, step, outcome,
                 cancelled, view>>

\* writeFrame succeeds: the client folds the frame.
WriteFrame ==
  /\ pc \in {"snapshots", "frames"}
  /\ out # << >>
  /\ ~cancelled
  /\ view' = reduceCongestion(view, Head(out))
  /\ out' = Tail(out)
  /\ UNCHANGED <<producerVars, bufferVars, pc, replayVars, outcome, cancelled>>

\* writeFrame fails: the peer is gone, or stalled past streamWriteTimeout.
WriteFails ==
  /\ pc \in {"snapshots", "frames"}
  /\ out # << >>
  /\ out' = << >>
  /\ outcome' = "broken"
  /\ Goto("joining")
  /\ UNCHANGED <<producerVars, bufferVars, replayVars, cancelled, view>>

FramesWritten ==
  /\ pc \in {"snapshots", "frames"}
  /\ out = << >>
  /\ Goto(IF pc = "snapshots" THEN "ticker" ELSE "done")
  /\ UNCHANGED <<producerVars, bufferVars, replayVars, out, outcome, cancelled, view>>

ReplayCancelled ==
  /\ pc = "ticker"
  /\ cancelled
  /\ outcome' = "broken"
  /\ Goto("joining")
  /\ UNCHANGED <<producerVars, bufferVars, replayVars, out, cancelled, view>>

\* The ticker fires and advance moves the simulated clock.  Past the position of
\* the last possible tick the clock tells nothing apart, and it stops there.
Elapse ==
  /\ pc = "ticker"
  /\ elapsed' = Min({elapsed + step, LastTick * TickSeconds})
  /\ next' = 1
  /\ Goto("advance")
  /\ UNCHANGED <<producerVars, bufferVars, cursor, lastBuckets, step, out, outcome,
                 cancelled, view>>

\* (Mutation: a tick is due one tick early.)
dueEarly(a) == {j \in cursor[a] + 1 .. Len(ticks[a]) : (j - 2) * TickSeconds <= elapsed}

\* The ticks of a beyond its cursor whose simulated time has been reached, that
\* time being relative to its first tick.
due(a) == {j \in cursor[a] + 1 .. Len(ticks[a]) : (j - 1) * TickSeconds <= elapsed}

\* (Mutation: buildDelta leaves lastBuckets alone.)
AdvanceStaleBase ==
  LET a == RouterOrder[next] IN
  /\ pc = "advance"
  /\ next <= n
  /\ due(a) # {}
  /\ cursor' = [cursor EXCEPT ![a] = Max(due(a))]
  /\ out' = Append(out, [algo |-> a, tick |-> Max(due(a)), snapshot |-> FALSE,
                         segments |-> changed(ticks[a][Max(due(a))], lastBuckets[a])])
  /\ next' = next + 1
  /\ UNCHANGED <<producerVars, bufferVars, pc, lastBuckets, elapsed, step, outcome,
                 cancelled, view>>

\* advance, one algorithm: its due ticks are coalesced into a delta to the last.
\* ticksFor takes mu for each algorithm apart.
Advance ==
  LET a == RouterOrder[next] IN
  /\ pc = "advance"
  /\ next <= n
  /\ due(a) # {}
  /\ cursor' = [cursor EXCEPT ![a] = Max(due(a))]
  /\ out' = Append(out, [algo |-> a, tick |-> Max(due(a)), snapshot |-> FALSE,
                         segments |-> changed(ticks[a][Max(due(a))], lastBuckets[a])])
  /\ lastBuckets' = [lastBuckets EXCEPT ![a] = buckets(ticks[a][Max(due(a))])]
  /\ next' = next + 1
  /\ UNCHANGED <<producerVars, bufferVars, pc, elapsed, step, outcome, cancelled, view>>

AdvanceNothingDue ==
  /\ pc = "advance"
  /\ next <= n
  /\ due(RouterOrder[next]) = {}
  /\ next' = next + 1
  /\ UNCHANGED <<producerVars, bufferVars, pc, cursor, lastBuckets, elapsed, step, out,
                 outcome, cancelled, view>>

Advanced ==
  /\ pc = "advance"
  /\ next = n + 1
  /\ next' = 1
  /\ Goto("frames")
  /\ UNCHANGED <<producerVars, bufferVars, cursor, lastBuckets, elapsed, step, out,
                 outcome, cancelled, view>>

drained == \A a \in Algos : cursor[a] = Len(ticks[a])

\* (Mutation: a momentary catch-up counts as done.)
CheckDoneUnfinished ==
  /\ pc = "done"
  /\ Goto(IF drained THEN "final" ELSE "ticker")
  /\ UNCHANGED <<producerVars, bufferVars, replayVars, out, outcome, cancelled, view>>

\* done, under mu.
CheckDone ==
  /\ pc = "done"
  /\ Goto(IF finished /\ drained THEN "final" ELSE "ticker")
  /\ UNCHANGED <<producerVars, bufferVars, replayVars, out, outcome, cancelled, view>>

\* finalErr: a run that failed while it was replayed ends as an error.
FinalErr ==
  /\ pc = "final"
  /\ outcome' = IF err THEN "failed" ELSE "drained"
  /\ Goto("joining")
  /\ UNCHANGED <<producerVars, bufferVars, replayVars, out, cancelled, view>>

\* (Mutation: runStream returns without waiting for producerDone.)
JoinAtOnce ==
  /\ pc = "joining"
  /\ Goto("leaving")
  /\ UNCHANGED <<producerVars, bufferVars, replayVars, out, outcome, cancelled, view>>

\* The deferred function: cancelRun, then wait for producerDone.
Join ==
  /\ pc = "joining"
  /\ run = "returned"
  /\ Goto("leaving")
  /\ UNCHANGED <<producerVars, bufferVars, replayVars, out, outcome, cancelled, view>>

\* handleStream returns its slot.
Release ==
  /\ pc = "leaving"
  /\ Goto("over")
  /\ UNCHANGED <<producerVars, bufferVars, replayVars, out, outcome, cancelled, view>>

\* The peer leaves or the connection breaks; CloseRead cancels the context.
Disconnect ==
  /\ pc \notin {"idle", "held", "leaving", "over"}
  /\ ~cancelled
  /\ cancelled' = TRUE
  /\ UNCHANGED <<producerVars, bufferVars, pc, replayVars, out, outcome, view>>

\* The connection is over; nothing of it runs any more.
Over == pc = "over" /\ UNCHANGED vars

-----------------------------------------------------------------------------
Simulation(a) == Emit(a) \/ Signal(a) \/ SimFails(a)

Producer == StartSims \/ ReferenceFails \/ Collect \/ Finish \/ FinishSignals

Handler ==
  \/ AcceptFails \/ Launch
  \/ CheckFirstTicks \/ Woken \/ WaitCancelled \/ TerminalGate \/ BuildSnapshots
  \/ WriteFrame \/ WriteFails \/ FramesWritten
  \/ ReplayCancelled \/ Elapse \/ Advance \/ AdvanceNothingDue \/ Advanced
  \/ CheckDone \/ FinalErr \/ Join \/ Release

Next ==
  \/ \E a \in Algos : Simulation(a)
  \/ Producer
  \/ Admit
  \/ Handler
  \/ Disconnect
  \/ Over

Spec == Init /\ [][Next]_vars

\* The runtime schedules every goroutine; a simulator tick is a finite
\* computation.
ProducerFairness ==
  /\ \A a \in Algos : WF_vars(Simulation(a))
  /\ WF_vars(Producer)

\* The ticker fires, and the write deadline ends a stalled write.
HandlerFairness == WF_vars(Handler)

\* The handler may stall, as it does in a write to a client that does not read.
FairSpec == Spec /\ ProducerFairness

-----------------------------------------------------------------------------
(* Safety. *)

\* The delta-correctness invariant, for every interleaving of producers, replay
\* and client: what the client holds for an algorithm is exactly the bucketed
\* state of the tick it believes it shows, however many ticks were coalesced,
\* and between two server ticks that is the last tick the replay consumed.
ViewExact ==
  \A a \in Algos :
    /\ view[a].tick > 0 =>
         /\ view[a].tick \in DOMAIN ticks[a]
         /\ view[a].buckets = buckets(ticks[a][view[a].tick])
    /\ pc \in {"ticker", "done"} => view[a].tick = cursor[a]

\* The replay never shows a simulated instant before its wall-clock time.
NeverEarly ==
  \A a \in Algos : view[a].tick > 0 => (view[a].tick - 1) * TickSeconds <= elapsed

\* A connection that reports no error has shown the last tick of every
\* algorithm, and every one of its simulations has succeeded.
CleanMeansComplete ==
  outcome = "drained" =>
    \A a \in Algos : sim[a] = "ok" /\ view[a].tick = Len(ticks[a])

\* The producer has recorded its end only after every simulation has ended, and it
\* runs from the upgrade until it is joined.
RunOutlivesSims ==
  /\ run \in {"none", "reference"} => \A a \in Algos : sim[a] = "none"
  /\ run = "collect" => \A a \in Algos : sim[a] \in {"ok", "error"}
  /\ finished <=> run \in {"signal", "returned"}
  /\ finished => \A a \in Algos : sim[a] \notin {"tick", "signal"}
  /\ finished /\ ~err => \A a \in Algos : sim[a] = "ok"
  /\ pc \in {"idle", "held"} => run = "none"
  /\ run = "none" => pc \in {"idle", "held", "leaving", "over"}
  /\ pc \in {"leaving", "over"} => run \in {"none", "returned"}

\* What the replay believes the client to hold once out has been written.
Consumed(a) == [tick |-> cursor[a], buckets |-> lastBuckets[a]]

\* The replay's base for the next delta is the tick its cursor is at, which was due.
BaseIsCursor ==
  \A a \in Algos :
    /\ cursor[a] <= Len(ticks[a])
    /\ lastBuckets[a] = IF cursor[a] = 0 THEN NoBuckets ELSE buckets(ticks[a][cursor[a]])
    /\ cursor[a] > 0 => (cursor[a] - 1) * TickSeconds <= elapsed

BeforeReplay == pc \in {"idle", "held", "check", "parked", "gate", "build"}
Replaying == pc \in {"snapshots", "ticker", "advance", "frames", "done", "final"}

\* Folding the frames still in out brings the client to what has been consumed: at
\* most one frame per algorithm is on its way, and it was built on what that
\* client's map shows.
FramesFit ==
  /\ BeforeReplay =>
       /\ out = << >>
       /\ \A a \in Algos : view[a] = Consumed(a) /\ cursor[a] = 0
  /\ Replaying =>
       /\ \A i \in DOMAIN out : reduceCongestion(view, out[i])[out[i].algo] = Consumed(out[i].algo)
       /\ \A a \in Algos : view[a] = Consumed(a) \/ \E i \in DOMAIN out : out[i].algo = a
       /\ \A i, j \in DOMAIN out : out[i].algo = out[j].algo => i = j
  /\ pc = "advance" => \A i \in DOMAIN out : \E k \in 1 .. next - 1 : out[i].algo = RouterOrder[k]
  /\ pc \in {"ticker", "done", "final"} => out = << >>

\* The replay ends only behind a producer that has ended.
EndIsFinal ==
  /\ pc = "final" => finished /\ drained
  /\ outcome # "none" => pc \in {"joining", "leaving", "over"}
  /\ outcome = "drained" => finished

\* The inductive invariant: the promises a viewer relies on, and why they are kept.
Inv ==
  /\ TypeOK /\ NeverEarly /\ CleanMeansComplete
  /\ RunOutlivesSims /\ BaseIsCursor /\ FramesFit /\ EndIsFinal

-----------------------------------------------------------------------------
(* Liveness. *)

\* Where the handler does not stall, a connection that was upgraded ends,
\* whatever the peer and the simulations do: no wakeup of waitFirstTicks is lost
\* and replay runs out of ticks.
ConnectionEnds == HandlerFairness => (pc = "check" ~> pc = "over")

\* A client that is never served does not stall the simulations.
SimulationsEnd == run = "reference" ~> run = "returned"

\* The two ends of a stream.
StreamEnds == ConnectionEnds /\ SimulationsEnd

-----------------------------------------------------------------------------
(* One connection of StreamAdmission. *)

Admission == INSTANCE StreamAdmission WITH
  Conns <- {"conn"},
  maxConcurrentStreams <- 1,
  streamSlots <- IF pc \in {"idle", "over"} THEN 0 ELSE 1,
  conn <- [c \in {"conn"} |->
             CASE pc \in {"idle", "over"}                -> "idle"
               [] pc \in {"held", "joining", "leaving"}  -> pc
               [] OTHER                                  -> "live"],
  simsLive <- IF run \in {"none", "returned"} THEN {} ELSE {"conn"}

\* The handler and its run behave as one connection of the admission control.
ImplementsAdmission == Admission!Spec
=============================================================================
