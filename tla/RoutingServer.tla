--------------------------- MODULE RoutingServer ---------------------------
(***************************************************************************)
(* cmd/routing-server from the launch to the exit: the export is loaded,    *)
(* the listener comes up or fails, clients connect, plain requests are      *)
(* answered and streams admitted (StreamAdmission), and a signal drains the *)
(* process.  What http.Server does is modelled as main uses it: Shutdown    *)
(* closes the listener and waits for the connections it knows, those that   *)
(* were accepted and those in a handler, but a stream that was upgraded is  *)
(* hijacked and not among them.                                             *)
(***************************************************************************)
EXTENDS Commands, StreamAdmission

CONSTANTS
    Callers         \* the connections that bring plain requests, one after another

VARIABLES
    listener,   \* "down", "up", or "failed": its error is in srvErr
    signalled,  \* SIGINT or SIGTERM came
    expired,    \* the five seconds of shutdownCtx are over
    accepted,   \* connections of streams whose request has not been read
    hijacked,   \* connections that were upgraded
    request     \* of each caller: where its handler is, and the routes it still needs

serverVars == <<listener, signalled, expired>>
httpVars == <<accepted, hijacked, request>>
allVars == <<commandVars, vars, serverVars, httpVars>>

None == [at |-> "none", left |-> 0]
Unread == [at |-> "accepted", left |-> 0]

ServerInit ==
    /\ CommandInit /\ Init
    /\ listener = "down" /\ signalled = FALSE /\ expired = FALSE
    /\ accepted = {} /\ hijacked = {}
    /\ request = [r \in Callers |-> None]

\* NewServer over the loaded graph, newMux, and NotifyContext.
Boot ==
    /\ Runs("routing-server", "load") /\ phase = "loaded"
    /\ proc' = "serving"
    /\ UNCHANGED <<loadVars, launch, exit, stdout, docs, load, vars, serverVars, httpVars>>

Command ==
    /\ CommandNext
    /\ UNCHANGED <<vars, serverVars, httpVars>>

Killing ==
    /\ SignalKills
    /\ UNCHANGED <<vars, serverVars, httpVars>>

Alive == proc \in {"serving", "draining"}

\* The goroutine of ListenAndServe.
Listen ==
    /\ proc = "serving" /\ listener = "down"
    /\ listener' \in {"up", "failed"}
    /\ UNCHANGED <<commandVars, vars, signalled, expired, httpVars>>

\* Accepting fails for good.
ListenerFails ==
    /\ proc = "serving" /\ listener = "up"
    /\ listener' = "failed"
    /\ UNCHANGED <<commandVars, vars, signalled, expired, httpVars>>

Signal ==
    /\ Alive /\ ~signalled
    /\ signalled' = TRUE
    /\ UNCHANGED <<commandVars, vars, listener, expired, httpVars>>

\* The select of main; either branch when both are ready.
Fatal ==
    /\ proc = "serving" /\ listener = "failed"
    /\ Exit(1)
    /\ UNCHANGED <<loadVars, launch, stdout, docs, load, vars, serverVars, httpVars>>

Shutdown ==
    /\ proc = "serving" /\ signalled
    /\ proc' = "draining" /\ listener' = "down"
    /\ UNCHANGED <<loadVars, launch, exit, stdout, docs, load, vars, signalled, expired, httpVars>>

\* Shutdown finds no connection of its own.
Quiet ==
    /\ accepted = {}
    /\ \A c \in Admitted : c \in hijacked
    /\ \A r \in Callers : request[r] = None

Drained ==
    /\ proc = "draining" /\ Quiet
    /\ Exit(0)
    /\ UNCHANGED <<loadVars, launch, stdout, docs, load, vars, serverVars, httpVars>>

\* The timeout is logged and main returns all the same.
DrainExpires ==
    /\ proc = "draining"
    /\ expired' = TRUE /\ Exit(0)
    /\ UNCHANGED <<loadVars, launch, stdout, docs, load, vars, listener, signalled, httpVars>>

-----------------------------------------------------------------------------
Connect(c) ==
    /\ proc = "serving" /\ listener = "up"
    /\ conn[c] = "idle" /\ c \notin accepted
    /\ accepted' = accepted \cup {c}
    /\ UNCHANGED <<commandVars, vars, serverVars, hijacked, request>>

\* The request is read and its handler takes a slot; also while the server drains.
Admit(c) ==
    /\ Alive /\ c \in accepted /\ Acquire(c)
    /\ accepted' = accepted \ {c}
    /\ UNCHANGED <<commandVars, serverVars, hijacked, request>>

\* No slot, a bad request, a refusal by the middleware, or none within the
\* ReadHeaderTimeout.
TurnAway(c) ==
    /\ Alive /\ c \in accepted
    /\ accepted' = accepted \ {c}
    /\ UNCHANGED <<commandVars, vars, serverVars, hijacked, request>>

\* The handler of a stream moves on; the upgrade takes the connection from the
\* server and the end of the handler closes it.
StreamStep(c) ==
    /\ Alive /\ Server(c)
    /\ hijacked' = IF conn'[c] = "live" THEN hijacked \cup {c}
                   ELSE IF conn'[c] = "idle" THEN hijacked \ {c} ELSE hijacked
    /\ UNCHANGED <<commandVars, serverVars, accepted, request>>

To(r, at, left) ==
    /\ request' = [request EXCEPT ![r] = [at |-> at, left |-> left]]
    /\ UNCHANGED <<commandVars, vars, serverVars, accepted, hijacked>>

Call(r) ==
    /\ proc = "serving" /\ listener = "up" /\ request[r] = None
    /\ To(r, "accepted", 0)

\* A handler has read its request, or refused the method or a parameter.
Answers(r) == Alive /\ request[r] = Unread /\ To(r, "answer", 0)

Searches(r, n) == Alive /\ request[r] = Unread /\ To(r, "routing", n)

healthHandler(r) == Answers(r)

\* The cached body, or that the client has it.
handleGraph(r) == Answers(r)

\* The loads above zero of one snapshot, in the order of the segments; that snapshot
\* is empty, for nothing writes the provider that NewServer builds.
handleCongestion(r) == Answers(r)

handleRoute(r) == Answers(r) \/ Searches(r, 1)

\* The naive route, then the reactive one.
handleCompare(r) == Answers(r) \/ Searches(r, 2)

\* resolveRoute; the first search that finds no route is the answer, a 422.
resolveRoute(r) ==
    /\ Alive /\ request[r].at = "routing"
    /\ \/ To(r, "answer", 0)
       \/ request[r].left = 2 /\ To(r, "routing", 1)

\* Also writeRawJSON: the outcome is counted, the answer written, and the connection
\* is idle, which Shutdown does not wait for.
writeJSON(r) ==
    /\ Alive /\ request[r].at = "answer"
    /\ To(r, "none", 0)

RequestStep(r) ==
    \/ healthHandler(r) \/ handleGraph(r) \/ handleCongestion(r) \/ handleRoute(r) \/ handleCompare(r)
    \/ resolveRoute(r) \/ writeJSON(r)

Over == Idle \/ proc = "exited"

ServerNext ==
    \/ Command \/ Killing \/ Boot
    \/ Listen \/ ListenerFails \/ Signal \/ Fatal \/ Shutdown \/ Drained \/ DrainExpires
    \/ \E c \in Conns : Connect(c) \/ Admit(c) \/ TurnAway(c) \/ StreamStep(c)
    \/ \E r \in Callers : Call(r) \/ RequestStep(r)
    \/ Over /\ UNCHANGED allVars

ServerSpec == ServerInit /\ [][ServerNext]_allVars

\* The goroutine of main and those of the handlers run; the timer of the shutdown
\* goes off.  That a stream ends is LiveStream's to show.  Clients and signals come
\* when they like.
ServerFairness ==
    /\ WF_allVars(Fatal \/ Shutdown \/ Drained \/ DrainExpires)
    /\ \A c \in Conns : WF_allVars(StreamStep(c))
    /\ \A r \in Callers : WF_allVars(RequestStep(r))

FairServerSpec == ServerSpec /\ ServerFairness

-----------------------------------------------------------------------------
\* "so `docker compose down` is graceful": a server that a signal ended in time has
\* left no request unanswered and no stream between its slot and its upgrade, not
\* even one whose connection was accepted before the signal and read after it; only
\* streams that were upgraded are cut.
ServerDone ==
    launch.program = "routing-server" /\ exit = 0 =>
        /\ signalled
        /\ expired \/ /\ \A r \in Callers : request[r] = None
                      /\ \A c \in Conns : conn[c] # "idle" => c \in hijacked
                      /\ simsLive \subseteq hijacked

\* What a program's exit code and its output tell is so, whatever ended it.
ExitCodesTell == CommandDone /\ ServerDone

\* A signal ends the process whatever the handlers do, and until then every stream
\* that was given a slot gives it back.
ServerEnds ==
    /\ signalled ~> proc = "exited"
    /\ \A c \in Conns : conn[c] = "held" ~> (conn[c] = "idle" \/ proc = "exited")
=============================================================================
