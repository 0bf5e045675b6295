---------------------------- MODULE TokenBucket ----------------------------
(***************************************************************************)
(* What a rate limiter promises each client: a bucket of Capacity units    *)
(* that fills by Rate units a second up to the brim, from which a request  *)
(* takes Unit when they are there and is refused when they are not.  A     *)
(* client that has not asked for IdleTTL may be forgotten, whenever anyone *)
(* asks: its bucket is then full, as for a client that never asked.        *)
(***************************************************************************)
EXTENDS Integers

CONSTANTS Clients, Capacity, Rate, Unit, IdleTTL, Never

VARIABLES
    now,     \* the clock, in seconds
    level,   \* client -> the units in its bucket now
    last     \* client -> when it last asked; Never for one that did not

vars == <<now, level, last>>

Brim(units) == IF units > Capacity THEN Capacity ELSE units

Init ==
    /\ now \in Nat
    /\ level = [c \in Clients |-> Capacity]
    /\ last = [c \in Clients |-> Never]

Elapse ==
    /\ now' \in Nat /\ now' > now
    /\ level' = [c \in Clients |-> Brim(level[c] + (now' - now) * Rate)]
    /\ UNCHANGED last

Idle(c) == last[c] # Never /\ now - last[c] >= IdleTTL

\* The levels once some clients are forgotten.
Without(forgotten) == [c \in Clients |-> IF c \in forgotten THEN Capacity ELSE level[c]]

Request(c) ==
    \E forgotten \in SUBSET {x \in Clients : Idle(x)} :
        LET filled == Without(forgotten) IN
        /\ level' = IF filled[c] >= Unit THEN [filled EXCEPT ![c] = @ - Unit] ELSE filled
        /\ last' = [x \in Clients |-> IF x = c THEN now
                                      ELSE IF x \in forgotten THEN Never ELSE last[x]]
        /\ UNCHANGED now

Next == Elapse \/ \E c \in Clients : Request(c)

Spec == Init /\ [][Next]_vars
=============================================================================
