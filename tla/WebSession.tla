----------------------------- MODULE WebSession -----------------------------
(***************************************************************************)
(* The browser's side of /stream: the store (web/src/store.ts), the hook   *)
(* that owns the WebSocket (web/src/hooks/useCongestionSocket.ts), the     *)
(* effect of App that stops a finished run (web/src/App.tsx) and the       *)
(* debounced sliders (web/src/components/Controls.tsx, lib/debounce.ts).   *)
(*                                                                         *)
(* An event (a click, a timer, a socket event) changes the store.  Before  *)
(* the next event the page renders what the store holds, and the effects   *)
(* whose dependencies changed run in one pass, in the order of their       *)
(* declaration, each with the values of that render; what they write is    *)
(* rendered next.  That order is React's and is modelled as external.      *)
(***************************************************************************)
EXTENDS Integers, FiniteSets, Sequences

CONSTANTS
    Sliders,     \* the debounced controls that enter the query
    Values,      \* the values a slider can settle on
    Default,     \* the one it starts at
    MaxSockets   \* bound: sockets ever opened

\* What a cleared date input holds.
Cleared == 0

ASSUME SessionAssumption ==
    MaxSockets \in Nat \ {0} /\ Default \in Values /\ Cleared \notin Values

VARIABLES
    running, status, query,   \* the store: run flag, connection status, knobs
    painted,     \* the sockets whose frames are folded into the store
    draft,       \* slider -> the value under the thumb
    timer,       \* the sliders whose commit is pending
    rendered,    \* what the last render read
    sockets,     \* the sockets opened, each with its state
    attached,    \* the socket whose handlers are attached, 0 for none
    url,         \* the query the newest socket was opened with
    asked,       \* the button the user last pressed
    over         \* the run that was asked for has ended by itself

store == <<running, status, query, painted>>
controls == <<draft, timer>>
connection == <<sockets, attached, url>>
sessionVars == <<store, controls, rendered, connection, asked, over>>

ConnStatus == {"idle", "connecting", "open", "closed", "error"}
Terminal == {"closed", "error"}
SocketState == {"connecting", "open", "closing", "closed"}

Snapshot == [running |-> running, status |-> status, query |-> query]
Settled == rendered = Snapshot

SessionInit ==
    /\ running = FALSE /\ status = "idle"
    /\ query = [s \in Sliders |-> Default]
    /\ painted = {}
    /\ draft = query
    /\ timer = {}
    /\ rendered = Snapshot
    /\ sockets = <<>>
    /\ attached = 0
    /\ url = query
    /\ asked = "stop"
    /\ over = FALSE

-----------------------------------------------------------------------------
(* The user and the timers. *)

Room == Len(sockets) < MaxSockets

\* onToggle: the button shows what was rendered.
Toggle ==
    /\ Settled
    /\ running \/ Room
    /\ running' = ~running
    /\ asked' = IF running THEN "stop" ELSE "start"
    /\ over' = FALSE
    /\ UNCHANGED <<status, query, painted, controls, rendered, connection>>

\* Mutant: a debouncer that also calls on the leading edge.
DragCommits(s) ==
    /\ Settled
    /\ Room
    /\ \E v \in Values : draft' = [draft EXCEPT ![s] = v]
    /\ query' = draft'
    /\ timer' = timer \cup {s}
    /\ UNCHANGED <<running, status, painted, rendered, connection, asked, over>>

\* Mutant: one debouncer for all the sliders.
DragSharesTimer(s) ==
    /\ Settled
    /\ \E v \in Values : draft' = [draft EXCEPT ![s] = v]
    /\ timer' = {s}
    /\ UNCHANGED <<store, rendered, connection, asked, over>>

\* A drag shows at once and (re)starts the timer of its slider; a cleared input
\* is ignored.
Drag(s) ==
    /\ Settled
    /\ \E v \in Values : draft' = [draft EXCEPT ![s] = v]
    /\ timer' = timer \cup {s}
    /\ UNCHANGED <<store, rendered, connection, asked, over>>

\* The slider has settled: its value is committed, and the query changes.
Commit(s) ==
    /\ Settled
    /\ s \in timer
    /\ ~running \/ Room
    /\ query' = [query EXCEPT ![s] = draft[s]]
    /\ timer' = timer \ {s}
    /\ UNCHANGED <<running, status, painted, draft, rendered, connection, asked, over>>

-----------------------------------------------------------------------------
(* A render and the effects it triggers. *)

\* Mutant: only an open socket is closed.
closedOnlyOpen(ss, s) ==
    IF s # 0 /\ ss[s] = "open" THEN [ss EXCEPT ![s] = "closing"] ELSE ss

\* The cleanup of the hook's effect: the socket is left to close by itself.
closed(ss, s) ==
    IF s # 0 /\ ss[s] \in {"connecting", "open"} THEN [ss EXCEPT ![s] = "closing"]
    ELSE ss

\* The dependencies of the two effects.
HookRuns == running # rendered.running \/ query # rendered.query
StopRuns == running # rendered.running \/ status # rendered.status

\* useCongestionSocket when enabled: a fresh store and a fresh socket.
Connect ==
    /\ painted' = {}
    /\ status' = "connecting"
    /\ sockets' = Append(closed(sockets, attached), "connecting")
    /\ attached' = Len(sockets')
    /\ url' = query

\* Mutant: the handlers stay on the socket that is being closed.
HoldClosedAttached ==
    /\ status' = IF status \in Terminal THEN status ELSE "idle"
    /\ sockets' = closed(sockets, attached)
    /\ UNCHANGED <<painted, attached, url>>

\* ... and when not: the outcome of a run that ended by itself is kept.
HoldClosed ==
    /\ status' = IF status \in Terminal THEN status ELSE "idle"
    /\ sockets' = closed(sockets, attached)
    /\ attached' = 0
    /\ UNCHANGED <<painted, url>>

\* Mutant: only a clean close returns the button.
AutoStopOnClose == running' = (running /\ ~(StopRuns /\ status = "closed"))

\* App: a run that has ended flips the run flag back off, by the status of this
\* render, whatever the hook has just set.
AutoStop == running' = (running /\ ~(StopRuns /\ status \in Terminal))

Render ==
    /\ ~Settled
    /\ rendered' = Snapshot
    /\ IF ~HookRuns THEN UNCHANGED <<status, painted, connection>>
       ELSE IF running THEN Connect ELSE HoldClosed
    /\ AutoStop
    /\ UNCHANGED <<query, controls, asked, over>>

-----------------------------------------------------------------------------
(* The socket's events.  A socket without handlers changes nothing. *)

SetStatus(s, new) ==
    /\ status' = IF s = attached THEN new ELSE status
    /\ over' = (over \/ (s = attached /\ new \in Terminal))
    /\ UNCHANGED <<running, query, painted, controls, rendered, attached, url, asked>>

Opens(s) ==
    /\ Settled
    /\ sockets[s] = "connecting"
    /\ sockets' = [sockets EXCEPT ![s] = "open"]
    /\ SetStatus(s, "open")

\* A frame, also one that was on its way when the socket was closed.
FrameArrives(s) ==
    /\ Settled
    /\ sockets[s] \in {"open", "closing"}
    /\ painted' = IF s = attached THEN painted \cup {s} ELSE painted
    /\ UNCHANGED <<running, status, query, controls, rendered, connection, asked, over>>

\* onerror, of a socket that could not connect or was cut off.  Its close event
\* finds the handlers gone: App has stopped the run by then.
Fails(s) ==
    /\ Settled
    /\ sockets[s] # "closed"
    /\ sockets' = [sockets EXCEPT ![s] = "closed"]
    /\ SetStatus(s, "error")

\* onclose, of a run that drained or of a socket the page closed.
Closes(s) ==
    /\ Settled
    /\ sockets[s] \in {"open", "closing"}
    /\ sockets' = [sockets EXCEPT ![s] = "closed"]
    /\ SetStatus(s, IF status = "error" THEN "error" ELSE "closed")

SocketEvent(s) == Opens(s) \/ FrameArrives(s) \/ Fails(s) \/ Closes(s)

SessionNext ==
    \/ Toggle
    \/ \E s \in Sliders : Drag(s) \/ Commit(s)
    \/ Render
    \/ \E s \in DOMAIN sockets : SocketEvent(s)

SessionSpec == SessionInit /\ [][SessionNext]_sessionVars

\* The page renders.  Nothing is assumed of the user, nor of the network.
FairSessionSpec == SessionSpec /\ WF_sessionVars(Render)

-----------------------------------------------------------------------------
(* Properties.                                                             *)

SessionTypeOK ==
    /\ running \in BOOLEAN /\ status \in ConnStatus
    /\ query \in [Sliders -> Values] /\ draft \in [Sliders -> Values]
    /\ timer \subseteq Sliders
    /\ rendered \in [running : BOOLEAN, status : ConnStatus, query : [Sliders -> Values]]
    /\ sockets \in Seq(SocketState) /\ Len(sockets) <= MaxSockets
    /\ attached \in 0..Len(sockets) /\ url \in [Sliders -> Values]
    /\ painted \subseteq DOMAIN sockets
    /\ asked \in {"start", "stop"} /\ over \in BOOLEAN

\* However Start, Stop, sliders and socket events follow one another, the page
\* holds at most one connection, every earlier one having been closed (each
\* holds a slot of the server and six simulations), and the map never mixes two
\* scenarios: what is painted came from one connection, and once there is a new
\* one, from no earlier one.
OneConnection ==
    /\ \A s \in DOMAIN sockets :
          sockets[s] \in {"connecting", "open"} => s = Len(sockets)
    /\ Cardinality(painted) <= 1
    /\ attached # 0 => painted \subseteq {attached}

\* Between events the button, the pill and the socket agree.
SettledAgree ==
    Settled =>
        /\ running <=> (attached # 0)
        /\ running => /\ status \in {"connecting", "open"}
                      /\ status = sockets[attached]
        /\ ~running => status \notin {"connecting", "open"}

\* A slider that keeps moving (its settle timer is running) never reopens the
\* socket: it does so after its value was committed, or when the user presses Start.
\* A thumb held still for the whole delay has settled, and does reconnect.
NoReconnectMidDrag ==
    [][Len(sockets') > Len(sockets) =>
          \/ ~rendered.running
          \/ \E s \in Sliders : s \notin timer /\ rendered.query[s] # draft[s]]_sessionVars

\* "The settled value is what runs": a slider that has been let go shows the value
\* the attached run was opened with, also when another slider was moved meanwhile,
\* when Start was pressed before the value settled, and when the run it was moved
\* under ended and another began.
RunIsWhatIsShown ==
    Settled /\ attached # 0 => \A s \in Sliders \ timer : url[s] = draft[s]

\* "Flip the run flag back off so the button returns to Start without the user
\* pressing Stop": a run that has ended releases the button.
ButtonReturns == status \in Terminal ~> ~running

\* "it opens when enabled is true (the user has pressed Start)": a run the user
\* asked for and that has not ended is not stopped by the page.
StartIsKept == Settled /\ asked = "start" /\ ~over => running

(* The inductive invariant behind OneConnection, SettledAgree, RunIsWhatIsShown
   and NoReconnectMidDrag. *)

\* The hook has a socket attached exactly while the last render was running, the
\* newest one; no other is or will be open; and its outcome is in the status.
SocketFollowsRender ==
    /\ rendered.running <=> attached # 0
    /\ attached # 0 => attached = Len(sockets)
    /\ \A s \in DOMAIN sockets : sockets[s] \in {"connecting", "open"} => s = attached
    /\ attached # 0 => \/ sockets[attached] \in {"connecting", "open"} /\ status = sockets[attached]
                       \/ sockets[attached] = "closed" /\ status \in Terminal
    /\ attached = 0 => status \notin {"connecting", "open"}

OnePainter ==
    /\ attached # 0 => painted \subseteq {attached}
    /\ \A s, t \in painted : s = t

\* A run that has ended is still to be rendered as such, and its Stop with it.
StopIsDue == running /\ rendered.running /\ status \in Terminal => rendered.status # status

\* A query that differs from the rendered one differs by a slider that was let go.
OnlyCommitted ==
    \A s \in Sliders : query[s] # rendered.query[s] => s \notin timer

\* A slider whose timer is not running has its value in the query, and the attached
\* socket was opened with the query of the last render.
CommittedIsShown ==
    /\ \A s \in Sliders \ timer : query[s] = draft[s]
    /\ attached # 0 => url = rendered.query

RoomForNext == running /\ HookRuns => Room

IInv ==
    /\ SessionTypeOK /\ SocketFollowsRender /\ OnePainter /\ StopIsDue /\ OnlyCommitted
    /\ CommittedIsShown /\ RoomForNext
=============================================================================
