----------------------------- MODULE ResultCache -----------------------------
(***************************************************************************)
(* What POST /benchmark promises per parameter tuple, with no job ids, no    *)
(* goroutines and no locks: a tuple is computed by at most one run at a      *)
(* time, at most Cap runs compute at once, a result is served only after its *)
(* run finished, and a tuple is forgotten only when its claim was given up,  *)
(* its run failed, or its result was evicted to admit another tuple.         *)
(***************************************************************************)
EXTENDS Naturals, FiniteSets

CONSTANTS Tuples, Cap

VARIABLE cache

Phase == {"none", "claimed", "running", "failing", "done"}

CacheInit == cache = [k \in Tuples |-> "none"]

Computing == {k \in Tuples : cache[k] = "running"}

Move(k, from, to) ==
  /\ cache[k] = from
  /\ cache' = [cache EXCEPT ![k] = to]

Claim(k) == Move(k, "none", "claimed")

\* Admitting k may push one finished tuple out.
ClaimEvicting(k, old) ==
  /\ cache[k] = "none"
  /\ cache[old] = "done"
  /\ cache' = [cache EXCEPT ![k] = "claimed", ![old] = "none"]

Start(k) == Cardinality(Computing) < Cap /\ Move(k, "claimed", "running")
Abandon(k) == Move(k, "claimed", "none")
Finish(k) == Move(k, "running", "done")
Fail(k) == Move(k, "running", "none") \/ Move(k, "failing", "none")
Crash(k) == Move(k, "running", "failing")

CacheNext ==
  \E k \in Tuples :
    \/ Claim(k) \/ Start(k) \/ Abandon(k) \/ Finish(k) \/ Fail(k) \/ Crash(k)
    \/ \E old \in Tuples \ {k} : ClaimEvicting(k, old)

CacheSpec == CacheInit /\ [][CacheNext]_cache
=============================================================================
