---------------------------- MODULE AllOrNothing ----------------------------
(***************************************************************************)
(* What one all-or-nothing pass promises its caller: in a single step it   *)
(* either assigns every request of the batch, each exactly once, or fails  *)
(* for a reason that holds and hands out nothing.                          *)
(***************************************************************************)
EXTENDS Integers

CONSTANT Requests

VARIABLES routable,    \* the requests some path serves; never changes
          cancelled,   \* ctx has been cancelled
          outcome,     \* "running", "assigned" or "failed"
          load         \* request -> how often the flow handed out counts it

Nothing == [i \in Requests |-> 0]
EachOnce == [i \in Requests |-> 1]

Init == routable \subseteq Requests /\ cancelled = FALSE /\ outcome = "running" /\ load = Nothing

Assign ==
    /\ outcome = "running" /\ Requests \subseteq routable
    /\ outcome' = "assigned" /\ load' = EachOnce
    /\ UNCHANGED <<routable, cancelled>>

Fail ==
    /\ outcome = "running" /\ (cancelled \/ ~(Requests \subseteq routable))
    /\ outcome' = "failed"
    /\ UNCHANGED <<routable, cancelled, load>>

Cancel == ~cancelled /\ cancelled' = TRUE /\ UNCHANGED <<routable, outcome, load>>

Next == Assign \/ Fail \/ Cancel

PassSpec == Init /\ [][Next]_<<routable, cancelled, outcome, load>>
=============================================================================
