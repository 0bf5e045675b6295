----------------------------- MODULE LoadStore -----------------------------
(***************************************************************************)
(* The congestion store and its providers (internal/congestion): a dense    *)
(* slice of loads that is written in place and reallocated when it grows,   *)
(* borrowed by View and copied by Snapshot.                                 *)
(*                                                                          *)
(* array holds the backing arrays still referenced, under small names: live *)
(* is the store's, held the one that a router's call reads.  truth is what  *)
(* a map from edges to loads would hold, and asOf is truth at the time the  *)
(* call began to read.  Calls of a provider are serialized by their caller, *)
(* as its documentation demands.                                            *)
(***************************************************************************)
EXTENDS Integers, Sequences, FiniteSets, Functions

CONSTANTS
    EdgeIds,        \* the ids loads are asked for: the graph's edges
    EdgeOf,         \* segment -> its edge, as BuildSegmentEdgeIndex lists them
    Feeds,          \* the batches of messages a congestion file may hold
    Writes,         \* the maps given to Set, SetAll, Inject and InjectAll
    InitialLens,    \* the sizes a provider is created with
    MaxLoad, MaxWrites  \* bounds of the model

ASSUME LoadStoreAssumption ==
    /\ IsFiniteSet(EdgeIds) /\ EdgeIds = 0 .. (Cardinality(EdgeIds) - 1)
    /\ EdgeOf \in [DOMAIN EdgeOf -> EdgeIds]
    /\ \A s, t \in DOMAIN EdgeOf : EdgeOf[s] = EdgeOf[t] => s = t   \* an edge has one segment
    /\ \A feed \in Feeds :
          /\ feed \in Seq(Range(feed))
          /\ \A i \in DOMAIN feed : {feed[i].window, feed[i].emit, feed[i].count} \subseteq Int
    /\ \A loads \in Writes :
          /\ IsFiniteSet(DOMAIN loads) /\ DOMAIN loads \subseteq Int
          /\ loads \in [DOMAIN loads -> Int]
    /\ InitialLens \subseteq Nat /\ MaxLoad \in Nat /\ MaxWrites \in Nat

VARIABLES
    provider,       \* "memory", "simulator", "static", or "none" if Build fails
    array, live, held,
    truth, asOf,
    writes          \* how many times the provider was written

loadVars == <<provider, array, live, held, truth, asOf, writes>>

ArrayNames == {1, 2, 3}
NoArray == 0

\* LoadSnapshot.Load: an edge beyond the slice reads as 0.
loadIn(slice, e) == IF e \in 0 .. (Len(slice) - 1) THEN slice[e + 1] ELSE 0

Load(e) == loadIn(array[live], e)

\* SegmentCongestion.Validate.
Valid(m) == m.count >= 0

\* Both timestamps are in the canonical form, without which none comes later.
congestionInstants(m) == m.canonical

\* (Mutant: between windows of a segment the order of arrival decides.)
LaterByArrival(m, old) == m.window >= old.window

\* congestionLess: the window decides, and the emit time between equal windows.
Later(m, old) ==
    \/ m.window > old.window
    \/ m.window = old.window /\ m.emit > old.emit

NoMessages == [s \in {} |-> s]

DedupKeepLatest(messages) ==
    LET winners[n \in 0 .. Len(messages)] ==
            IF n = 0 THEN NoMessages
            ELSE LET m == messages[n]
                     before == winners[n - 1]
                 IN IF m.seg \notin DOMAIN before \/ Later(m, before[m.seg])
                    THEN [s \in DOMAIN before \cup {m.seg} |-> IF s = m.seg THEN m ELSE before[s]]
                    ELSE before
    IN winners[Len(messages)]

\* NewProvider; a winner without an edge is skipped.  (The factor of twelve from a
\* five-minute window to an hour is left out.)
NewProvider(messages, n) ==
    LET winners == DedupKeepLatest(messages)
        on(e) == {s \in DOMAIN winners \cap DOMAIN EdgeOf : EdgeOf[s] = e}
    IN [i \in 1 .. n |-> IF on(i - 1) = {} THEN 0
                         ELSE winners[CHOOSE s \in on(i - 1) : TRUE].count]

\* A reference for it: a load comes from the first message of its edge's segment
\* that no other message of that segment follows.
LatestLoad(messages, e) ==
    LET of == {i \in DOMAIN messages :
                  messages[i].seg \in DOMAIN EdgeOf /\ EdgeOf[messages[i].seg] = e}
        precedes(i, j) ==
            \/ messages[j].window > messages[i].window
            \/ /\ messages[j].window = messages[i].window
               /\ \/ messages[j].emit > messages[i].emit
                  \/ messages[j].emit = messages[i].emit /\ j < i
        last == {i \in of : \A j \in of : ~precedes(i, j)}
    IN IF of = {} THEN 0 ELSE messages[CHOOSE i \in last : TRUE].count

\* source.Build: one of the sources, or its failure on a bad message.  (The load of
\* a jammed segment is a first Write.)
LoadInit ==
    /\ \E source \in {"memory", "simulator", "static"}, n \in InitialLens, feed \in Feeds :
          LET messages == IF source = "static" THEN feed ELSE <<>>
              bad == \E i \in DOMAIN messages : ~Valid(messages[i]) \/ ~congestionInstants(messages[i])
              full == IF source = "static" THEN Cardinality(EdgeIds) ELSE n
          IN /\ provider = IF bad THEN "none" ELSE source
             /\ array = [a \in ArrayNames |->
                            IF a = 1 /\ ~bad THEN NewProvider(messages, full) ELSE <<>>]
             /\ truth = [e \in EdgeIds |-> IF bad THEN 0 ELSE LatestLoad(messages, e)]
    /\ live = 1 /\ held = NoArray
    /\ asOf = truth /\ writes = 0

\* (Mutant: a grown slice starts from zero.)
GrownAnew(slice, n) ==
    IF n <= Len(slice) THEN slice ELSE [i \in 1 .. n |-> 0]

Grown(slice, n) ==
    IF n <= Len(slice) THEN slice
    ELSE [i \in 1 .. n |-> IF i <= Len(slice) THEN slice[i] ELSE 0]

fresh == CHOOSE a \in ArrayNames : a # live /\ a # held

\* The array named a becomes the store's; the one it leaves is kept if it is held.
Install(a, slice) ==
    /\ array' = [b \in ArrayNames |-> IF b = a THEN slice
                                      ELSE IF b = held THEN array[b] ELSE <<>>]
    /\ live' = a

\* Grow once for the largest id, then Set each; negative ids are skipped.  In place
\* unless the slice grows.
WriteAll(loads) ==
    LET ids == {e \in DOMAIN loads : e >= 0}
        need == IF ids = {} THEN 0 ELSE 1 + CHOOSE e \in ids : \A f \in ids : f <= e
        grown == Grown(array[live], need)
    IN /\ Install(IF need <= Len(array[live]) THEN live ELSE fresh,
                  [i \in DOMAIN grown |-> IF (i - 1) \in ids THEN loads[i - 1] ELSE grown[i]])
       /\ truth' = [e \in EdgeIds |-> IF e \in ids THEN loads[e] ELSE truth[e]]

\* Set and SetAll of the memory provider replace; Inject and InjectAll of the
\* simulator add, and floor the sum at zero.
Write ==
    /\ provider \in {"memory", "simulator"} /\ writes < MaxWrites
    /\ \E loads \in Writes :
          WriteAll(IF provider = "memory" THEN loads
                   ELSE [e \in DOMAIN loads |-> 
                            LET sum == Load(e) + loads[e]
                            IN IF sum < 0 THEN 0 ELSE IF sum > MaxLoad THEN MaxLoad ELSE sum])
    /\ writes' = writes + 1
    /\ UNCHANGED <<provider, held, asOf>>

\* Step: every loaded edge drifts up or down, in place; none comes to load, or to
\* nothing, by drifting.
Tick ==
    /\ provider = "simulator" /\ writes < MaxWrites
    /\ \E up \in SUBSET {e \in EdgeIds : Load(e) > 0} :
          LET moved(e, x) == IF x <= 0 THEN x
                             ELSE IF e \in up THEN IF x < MaxLoad THEN x + 1 ELSE x
                             ELSE IF x > 1 THEN x - 1 ELSE x
          IN /\ Install(live, [i \in DOMAIN array[live] |-> moved(i - 1, array[live][i])])
             /\ truth' = [e \in EdgeIds |-> moved(e, truth[e])]
    /\ writes' = writes + 1
    /\ UNCHANGED <<provider, held, asOf>>

\* (Mutant: the snapshot is the store's own slice.)
SnapshotShared ==
    /\ held' = live /\ asOf' = truth
    /\ UNCHANGED <<provider, array, live, truth, writes>>

Snapshot ==
    /\ array' = [array EXCEPT ![fresh] = array[live]]
    /\ held' = fresh /\ asOf' = truth
    /\ UNCHANGED <<provider, live, truth, writes>>

\* The borrow: the store's slice itself.
View ==
    /\ held' = live /\ asOf' = truth
    /\ UNCHANGED <<provider, array, live, truth, writes>>
=============================================================================
