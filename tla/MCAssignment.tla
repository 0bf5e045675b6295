---------------------------- MODULE MCAssignment ----------------------------
(***************************************************************************)
(* A Braess network: two mirror-image routes s-a-t and s-b-t and a short   *)
(* cut a-b without capacity data, so that averaging really iterates and    *)
(* the marginal basis really differs from the cost basis.                  *)
(*                                                                         *)
(* AssignFanout opens up one pass of five requests, whichever of them are  *)
(* routable.  It shares no state with a loop, so it runs before the        *)
(* shortest one: the msa call whose five trips stay where they are.  Every *)
(* other pass is a step, as in Assignment.                                 *)
(***************************************************************************)
EXTENDS Assignment, AssignFanout

MCNodes == {"s", "a", "b", "t"}
MCEdges == {"sa", "sb", "at", "bt", "ab"}
MCFrom  == [sa |-> "s", sb |-> "s", at |-> "a", bt |-> "b", ab |-> "a"]
MCTo  == [sa |-> "a", sb |-> "b", at |-> "t", bt |-> "t", ab |-> "b"]
MCFreeFlow == [sa |-> 1, sb |-> 5, at |-> 5, bt |-> 1, ab |-> 1]
MCSlope    == [sa |-> 3, sb |-> 1, at |-> 1, bt |-> 3, ab |-> 0]

Request(o, d, w) == [from |-> o, to |-> d, weight |-> w]

\* A trip across, a heavy one, one that shares an edge and one whose weight is
\* floored.
MCTravel == {Request("s", "t", 1), Request("s", "t", 2), Request("a", "t", 1),
             Request("s", "b", 0)}

\* One that goes nowhere and one that has no path.
MCRequests == MCTravel \cup {Request("b", "b", 1), Request("t", "s", 1)}

FiveThatStay == [i \in 1..N |-> Request("b", "b", 1)]

\* Every batch of up to two requests, every batch of three that travel, and three
\* longer than the four batches.
MCBatches ==
    UNION {[1..n -> MCRequests] : n \in 0..2} \cup [1..3 -> MCTravel]
      \cup {FiveThatStay, [i \in 1..5 |-> Request("s", "t", 1)],
            [i \in 1..6 |-> Request("s", IF i % 2 = 0 THEN "t" ELSE "b", 1)]}

-----------------------------------------------------------------------------
MCVars == <<vars, fanoutVars>>

OpenedUp == strategy = "msa" /\ reqs = FiveThatStay

MCInit == Init /\ FanoutInit /\ (~OpenedUp => routable = Requests)

InPass(A) == OpenedUp /\ A /\ UNCHANGED vars

InLoop(A) == (OpenedUp => passOutcome # "running") /\ A /\ UNCHANGED fanoutVars

MCNext == InPass(FanoutNext) \/ InLoop(Next)

MCSpec ==
    /\ MCInit /\ [][MCNext]_MCVars
    /\ \A w \in Workers : WF_MCVars(InPass(Worker(w)))
    /\ WF_MCVars(InPass(Join))
    /\ WF_MCVars(InLoop(Iterate \/ Unreachable \/ StopCancelled))

\* The pass that is opened up returns, whatever fails and whenever it is cancelled.
OpenedPassReturns == OpenedUp => PassReturns
=============================================================================
