---------------------------- MODULE MCLiveStream ----------------------------
(* Small instances of LiveStream for TLC. *)
EXTENDS LiveStream

\* Two segments and two congestion vectors.  Between them the first segment goes
\* from the bottom bucket to far above the top one, and the second one changes
\* its v/c inside its bucket.
MCSegments == {"s1", "s2"}
MCVCs == {[s1 |-> 0, s2 |-> 2], [s1 |-> 9, s2 |-> 3]}
MCRouterOrder == <<"naive", "msa">>
\* One algorithm has ticks to coalesce, the other ends while it still runs.
MCMaxTicks == [naive |-> 3, msa |-> 2]
=============================================================================
