--------------------------- MODULE StreamAdmission ---------------------------
(***************************************************************************)
(* Admission control of GET /stream (engine/internal/api/stream.go,          *)
(* handleStream and the goroutine life of runStream): every connection that  *)
(* runs simulations holds one token of Server.streamSlots, from before the   *)
(* WebSocket upgrade until its background run has been joined.  What a       *)
(* connection does while it is live is left to LiveStream.                   *)
(***************************************************************************)
EXTENDS Integers, FiniteSets

CONSTANTS
  Conns,                \* the connections; each may connect again after it ended
  maxConcurrentStreams  \* capacity of the streamSlots channel

ASSUME ConnsAssumption == IsFiniteSet(Conns)
ASSUME CapacityAssumption == maxConcurrentStreams \in Nat \ {0}

VARIABLES
  streamSlots, \* how many tokens are in Server.streamSlots
  conn,        \* where the handler of the connection is
  simsLive     \* the connections whose RunParallel goroutine has not returned

vars == <<streamSlots, conn, simsLive>>

\* held: slot taken, not upgraded; live: runStream streams; joining: runStream's
\* deferred function has cancelled the run and waits for producerDone; leaving:
\* runStream has returned, the deferred receive of handleStream is still to run.
ConnPC == {"idle", "held", "live", "joining", "leaving"}

TypeOK ==
  /\ streamSlots \in 0 .. maxConcurrentStreams
  /\ conn \in [Conns -> ConnPC]
  /\ simsLive \in SUBSET Conns

Init ==
  /\ streamSlots = 0
  /\ conn = [c \in Conns |-> "idle"]
  /\ simsLive = {}

\* The send succeeds without blocking.  (The default branch is a 503, and a bad
\* method or query a 405 or 400: neither changes anything here.)
Acquire(c) ==
  /\ conn[c] = "idle"
  /\ streamSlots < maxConcurrentStreams
  /\ streamSlots' = streamSlots + 1
  /\ conn' = [conn EXCEPT ![c] = "held"]
  /\ UNCHANGED simsLive

AcceptFails(c) ==
  /\ conn[c] = "held"
  /\ conn' = [conn EXCEPT ![c] = "leaving"]
  /\ UNCHANGED <<streamSlots, simsLive>>

Upgrade(c) ==
  /\ conn[c] = "held"
  /\ conn' = [conn EXCEPT ![c] = "live"]
  /\ simsLive' = simsLive \cup {c}
  /\ UNCHANGED streamSlots

\* RunParallel returns: by itself, or because the run was cancelled.
RunReturns(c) ==
  /\ c \in simsLive
  /\ simsLive' = simsLive \ {c}
  /\ UNCHANGED <<streamSlots, conn>>

\* runStream returns, drained or with an error: its deferred function starts.
Leave(c) ==
  /\ conn[c] = "live"
  /\ conn' = [conn EXCEPT ![c] = "joining"]
  /\ UNCHANGED <<streamSlots, simsLive>>

\* (Mutation: runStream returns without waiting for producerDone.)
JoinAtOnce(c) ==
  /\ conn[c] = "joining"
  /\ conn' = [conn EXCEPT ![c] = "leaving"]
  /\ UNCHANGED <<streamSlots, simsLive>>

\* (Mutation: a connection that ended starts its run again.)
JoinRetries(c) ==
  /\ conn[c] = "joining"
  /\ c \notin simsLive
  /\ conn' = [conn EXCEPT ![c] = "live"]
  /\ simsLive' = simsLive \cup {c}
  /\ UNCHANGED streamSlots

\* producerDone is closed.
Join(c) ==
  /\ conn[c] = "joining"
  /\ c \notin simsLive
  /\ conn' = [conn EXCEPT ![c] = "leaving"]
  /\ UNCHANGED <<streamSlots, simsLive>>

Release(c) ==
  /\ conn[c] = "leaving"
  /\ streamSlots' = streamSlots - 1
  /\ conn' = [conn EXCEPT ![c] = "idle"]
  /\ UNCHANGED simsLive

Server(c) ==
  \/ AcceptFails(c)
  \/ Upgrade(c)
  \/ RunReturns(c)
  \/ Leave(c)
  \/ Join(c)
  \/ Release(c)

Next == \E c \in Conns : Acquire(c) \/ Server(c)

Spec == Init /\ [][Next]_vars

-----------------------------------------------------------------------------
Admitted == {c \in Conns : conn[c] # "idle"}

\* The tokens in the channel are those of the admitted connections: no exit path
\* keeps or returns one twice.
SlotsExact == streamSlots = Cardinality(Admitted)

\* "an exact bound on live sims" (comment in runStream): also while connections
\* end and others start, at most maxConcurrentStreams runs are live, because a
\* connection gives its slot up only after its run has returned.
LiveRunsBounded ==
  /\ \A c \in simsLive : conn[c] \in {"live", "joining"}
  /\ Cardinality(simsLive) <= maxConcurrentStreams

\* The inductive invariant.
IInv == TypeOK /\ SlotsExact /\ (\A c \in simsLive : conn[c] \in {"live", "joining"})
=============================================================================
