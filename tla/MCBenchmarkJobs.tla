--------------------------- MODULE MCBenchmarkJobs ---------------------------
(* Small instances of BenchmarkJobs for TLC. *)
EXTENDS BenchmarkJobs

CONSTANTS c1, c2

\* Two spellings of the default tuple, a named router with its count omitted,
\* and two tuples that validate rejects: an unknown algorithm and a count over
\* the ceiling.  Two tuples suffice to fill and evict: a failed job stays in the
\* store and its tuple is run again.
MCRequests ==
  {[algorithm |-> "",      request_count |-> 0],
   [algorithm |-> "all",   request_count |-> 2],
   [algorithm |-> "naive", request_count |-> 0],
   [algorithm |-> "Naive", request_count |-> 2],
   [algorithm |-> "naive", request_count |-> 4]}

MCNames == {"", "all", "naive", "msa", "Naive"}
MCRouterOrder == {"naive", "msa"}
=============================================================================
