---------------------------- MODULE BenchmarkJobs ----------------------------
(***************************************************************************)
(* The asynchronous POST /benchmark flow of engine/internal/api/benchmark.go: *)
(* the job store (byID, byKey, order under one mutex), the non-blocking      *)
(* reservation of a sweep slot, the goroutine that runs the sweep, and the   *)
(* clients that post tuples and poll job ids.                                *)
(*                                                                           *)
(* One action is one critical section of jobStore.mu or one operation on the *)
(* sweepSlots channel, together with the local code around it; everything    *)
(* between two such points may interleave with the other handlers and        *)
(* goroutines.                                                               *)
(***************************************************************************)
EXTENDS Integers, FiniteSets, SequencesExt

CONSTANTS
  Clients,             \* callers; each has at most one request open
  Requests,            \* the parameter tuples they post, as they arrive
  Names,               \* the strings the algorithm field may hold
  RouterOrder,         \* benchmark.RouterOrder: the names IsRouter accepts
  DefaultODCount,      \* request_count when the field is omitted (zero)
  maxRequestCount,     \* ceiling on request_count
  maxConcurrentSweeps, \* capacity of the sweepSlots channel
  maxJobs,             \* jobStore.maxJobs
  MaxPosts             \* bound: how many ids newJobID hands out

\* A tuple on the wire.  request_count stands for the five numeric fields:
\* each is replaced by its default when zero and range-checked by validate.
RawParams == [algorithm : Names, request_count : Int]

ASSUME NamesAssumption == RouterOrder \cup {"", "all"} \subseteq Names
ASSUME RequestsAssumption == Requests \subseteq RawParams
ASSUME CountAssumption ==
  /\ DefaultODCount \in Nat \ {0}
  /\ maxRequestCount \in Nat
  /\ maxConcurrentSweeps \in Nat \ {0}
  /\ maxJobs \in Nat \ {0}
  /\ MaxPosts \in Nat

\* Ids are 128 random bits; a collision is left out, so an id names one POST.
JobID == 1 .. MaxPosts
NoJob == 0

-----------------------------------------------------------------------------
(* Pure functions of the parameter tuple. *)

withDefaults(p) ==
  [algorithm     |-> IF p.algorithm = "" THEN "all" ELSE p.algorithm,
   request_count |-> IF p.request_count = 0 THEN DefaultODCount
                                            ELSE p.request_count]

cacheKey(p) == withDefaults(p)

validate(p) ==
  LET d == withDefaults(p) IN
    /\ d.algorithm = "all" \/ d.algorithm \in RouterOrder
    /\ d.request_count >= 0
    /\ d.request_count <= maxRequestCount

\* The tuples the store holds and is keyed by, and Go's zero tuple.
Tuples == {withDefaults(p) : p \in Requests}
ZeroParams == [algorithm |-> "", request_count |-> 0]

-----------------------------------------------------------------------------
(* jobStore: operations on a store value st, each run under st.mu. *)

JobStatus == {"running", "done", "failed"}
\* byID[id] = Absent: id is not a key of the byID map.
Absent == [Status |-> "absent", Params |-> ZeroParams]
Job == [Status : JobStatus, Params : Tuples]

JobStore == [byID  : [JobID -> Job \cup {Absent}],
             byKey : [Tuples -> JobID \cup {NoJob}],
             order : Seq(JobID)]

newJobStore == [byID  |-> [id \in JobID |-> Absent],
                byKey |-> [k \in Tuples |-> NoJob],
                order |-> << >>]

Present(st) == {id \in JobID : st.byID[id].Status # "absent"}

\* (Mutation: the key is deleted even when it maps to a newer job.)
dropKeyAlways(st, id) ==
  [st.byKey EXCEPT ![cacheKey(st.byID[id].Params)] = NoJob]

\* delete(st.byKey, key), skipped unless the key still maps to id.
dropKey(st, id) ==
  LET key == cacheKey(st.byID[id].Params) IN
    IF st.byID[id] # Absent /\ st.byKey[key] = id
    THEN [st.byKey EXCEPT ![key] = NoJob]
    ELSE st.byKey

deleteLocked(st, id) ==
  [byID  |-> [st.byID EXCEPT ![id] = Absent],
   byKey |-> dropKey(st, id),
   order |-> st.order]

\* The positions of order whose job is not running: what FIFO eviction scans for.
evictable(st) ==
  {i \in DOMAIN st.order : st.byID[st.order[i]].Status # "running"}

evictOldestDoneLocked(st) ==
  IF evictable(st) = {} THEN st
  ELSE LET i == Min(evictable(st)) IN
         deleteLocked([st EXCEPT !.order = RemoveAt(st.order, i)], st.order[i])

insert(st, params, id) ==
  [byID  |-> [st.byID EXCEPT ![id] = [Status |-> "running",
                                      Params |-> withDefaults(params)]],
   byKey |-> [st.byKey EXCEPT ![cacheKey(params)] = id],
   order |-> Append(st.order, id)]

\* The store after getOrCreate found no job for the key and registered id.
created(st, params, id) ==
  IF Cardinality(Present(st)) >= maxJobs
  THEN insert(evictOldestDoneLocked(st), params, id)
  ELSE insert(st, params, id)

remove(st, id) ==
  LET at == {i \in DOMAIN st.order : st.order[i] = id} IN
    deleteLocked([st EXCEPT !.order = IF at = {} THEN st.order
                                      ELSE RemoveAt(st.order, Min(at))], id)

complete(st, id, status) ==
  IF st.byID[id] = Absent THEN st
  ELSE [byID  |-> [st.byID EXCEPT ![id].Status = status],
        byKey |-> IF status = "failed" THEN dropKey(st, id) ELSE st.byKey,
        order |-> st.order]

-----------------------------------------------------------------------------
VARIABLES
  jobs,       \* Server.jobs
  sweepSlots, \* how many tokens are in the Server.sweepSlots channel
  sweep,      \* job id -> where its runBenchmarkAsync goroutine is
  client,     \* client -> its open request and the last response it got
  issued      \* how many ids newJobID has handed out

vars == <<jobs, sweepSlots, sweep, client, issued>>

\* none: not started; run: computing; panicked: unwinding; recovering: slot
\* returned, failure not yet recorded; release: recorded, slot still held.
SweepPC == {"none", "run", "panicked", "recovering", "release", "ended"}

\* ready: no request open; reserve: getOrCreate has returned created = true;
\* rollback: no slot was free and remove has not run yet.
ClientPC == {"ready", "reserve", "rollback"}
\* The last response: 400/500, 503, 404, or the status field of a 200/202.
Reply == {"none", "rejected", "busy", "notFound"} \cup JobStatus
\* id: the job of the open request, or the one the last 202 named.
\* params: the tuple that was posted for it.
ClientState == [pc : ClientPC, id : JobID \cup {NoJob},
                params : RawParams, reply : Reply]

TypeOK ==
  /\ jobs \in JobStore
  /\ sweepSlots \in 0 .. maxConcurrentSweeps
  /\ sweep \in [JobID -> SweepPC]
  /\ client \in [Clients -> ClientState]
  /\ issued \in 0 .. MaxPosts

Status(id) == jobs.byID[id].Status

Init ==
  /\ jobs = newJobStore
  /\ sweepSlots = 0
  /\ sweep = [id \in JobID |-> "none"]
  /\ client = [c \in Clients |-> [pc |-> "ready", id |-> NoJob,
                                  params |-> ZeroParams, reply |-> "none"]]
  /\ issued = 0

-----------------------------------------------------------------------------
(* handleBenchmark. *)

\* A bad method, body or tuple, or newJobID failing: nothing is registered.
Refuse(c) ==
  /\ client[c].pc = "ready"
  /\ client' = [client EXCEPT ![c] = [pc |-> "ready", id |-> NoJob,
                                      params |-> ZeroParams, reply |-> "rejected"]]
  /\ UNCHANGED <<jobs, sweepSlots, sweep, issued>>

\* getOrCreate finds the key: 202 with the existing job's id and its status.
PostCached(c, p) ==
  LET id == jobs.byKey[cacheKey(p)] IN
    /\ client[c].pc = "ready"
    /\ validate(p)
    /\ issued < MaxPosts
    /\ id # NoJob
    /\ client' = [client EXCEPT ![c] = [pc |-> "ready", id |-> id, params |-> p,
                                        reply |-> Status(id)]]
    /\ issued' = issued + 1
    /\ UNCHANGED <<jobs, sweepSlots, sweep>>

\* (Mutation: the cache is not consulted.)
PostCreateAlways(c, p) ==
  LET id == issued + 1 IN
    /\ client[c].pc = "ready"
    /\ validate(p)
    /\ issued < MaxPosts
    /\ jobs' = created(jobs, p, id)
    /\ issued' = id
    /\ client' = [client EXCEPT ![c] = [pc |-> "reserve", id |-> id, params |-> p,
                                        reply |-> "none"]]
    /\ UNCHANGED <<sweepSlots, sweep>>

\* getOrCreate registers the fresh id; the slot is not reserved yet.
PostCreate(c, p) ==
  LET id == issued + 1 IN
    /\ client[c].pc = "ready"
    /\ validate(p)
    /\ issued < MaxPosts
    /\ jobs.byKey[cacheKey(p)] = NoJob
    /\ jobs' = created(jobs, p, id)
    /\ issued' = id
    /\ client' = [client EXCEPT ![c] = [pc |-> "reserve", id |-> id, params |-> p,
                                        reply |-> "none"]]
    /\ UNCHANGED <<sweepSlots, sweep>>

\* The select takes a free slot, starts the goroutine and answers 202.
Reserve(c) ==
  /\ client[c].pc = "reserve"
  /\ sweepSlots < maxConcurrentSweeps
  /\ sweepSlots' = sweepSlots + 1
  /\ sweep' = [sweep EXCEPT ![client[c].id] = "run"]
  /\ client' = [client EXCEPT ![c].pc = "ready", ![c].reply = "running"]
  /\ UNCHANGED <<jobs, issued>>

\* The select takes its default branch: every slot is taken.
ReserveFull(c) ==
  /\ client[c].pc = "reserve"
  /\ sweepSlots = maxConcurrentSweeps
  /\ client' = [client EXCEPT ![c].pc = "rollback"]
  /\ UNCHANGED <<jobs, sweepSlots, sweep, issued>>

\* (Mutation: the 503 leaves the registration behind.)
RollbackForgotten(c) ==
  /\ client[c].pc = "rollback"
  /\ client' = [client EXCEPT ![c] = [pc |-> "ready", id |-> NoJob,
                                      params |-> ZeroParams, reply |-> "busy"]]
  /\ UNCHANGED <<jobs, sweepSlots, sweep, issued>>

\* remove undoes the registration and the client gets a 503.
Rollback(c) ==
  /\ client[c].pc = "rollback"
  /\ jobs' = remove(jobs, client[c].id)
  /\ client' = [client EXCEPT ![c] = [pc |-> "ready", id |-> NoJob,
                                      params |-> ZeroParams, reply |-> "busy"]]
  /\ UNCHANGED <<sweepSlots, sweep, issued>>

(* handleBenchmarkStatus on the id the last 202 named. *)
Poll(c) ==
  /\ client[c].pc = "ready"
  /\ client[c].id # NoJob
  /\ client' = [client EXCEPT ![c].reply =
                  IF jobs.byID[client[c].id] = Absent THEN "notFound"
                                                      ELSE Status(client[c].id)]
  /\ UNCHANGED <<jobs, sweepSlots, sweep, issued>>

-----------------------------------------------------------------------------
(* runBenchmarkAsync's goroutine. *)

\* runBenchmarkCells returned: the report or the error is recorded.
SweepReturns(id, status) ==
  /\ sweep[id] = "run"
  /\ jobs' = complete(jobs, id, status)
  /\ sweep' = [sweep EXCEPT ![id] = "release"]
  /\ UNCHANGED <<sweepSlots, client, issued>>

\* The harness panics; the deferred function has not run yet.
SweepPanics(id) ==
  /\ sweep[id] = "run"
  /\ sweep' = [sweep EXCEPT ![id] = "panicked"]
  /\ UNCHANGED <<jobs, sweepSlots, client, issued>>

\* (Mutation: the result of recover() is not compared with nil.)
ReleaseSlotAlwaysRecovers(id) ==
  /\ sweep[id] \in {"release", "panicked"}
  /\ sweepSlots' = sweepSlots - 1
  /\ sweep' = [sweep EXCEPT ![id] = "recovering"]
  /\ UNCHANGED <<jobs, client, issued>>

\* The deferred function returns the slot before it looks at recover().
ReleaseSlot(id) ==
  /\ sweep[id] \in {"release", "panicked"}
  /\ sweepSlots' = sweepSlots - 1
  /\ sweep' = [sweep EXCEPT ![id] = IF @ = "panicked" THEN "recovering"
                                                      ELSE "ended"]
  /\ UNCHANGED <<jobs, client, issued>>

\* A recovered panic is recorded as a failed job.
RecoverPanic(id) ==
  /\ sweep[id] = "recovering"
  /\ jobs' = complete(jobs, id, "failed")
  /\ sweep' = [sweep EXCEPT ![id] = "ended"]
  /\ UNCHANGED <<sweepSlots, client, issued>>

-----------------------------------------------------------------------------
Handler(c) == Reserve(c) \/ ReserveFull(c) \/ Rollback(c)

ClientStep(c) ==
  \/ Refuse(c)
  \/ \E p \in Requests : PostCached(c, p) \/ PostCreate(c, p)
  \/ Poll(c)

Goroutine(id) ==
  \/ \E status \in {"done", "failed"} : SweepReturns(id, status)
  \/ SweepPanics(id)
  \/ ReleaseSlot(id)
  \/ RecoverPanic(id)

Next ==
  \/ \E c \in Clients : Handler(c) \/ ClientStep(c)
  \/ \E id \in JobID : Goroutine(id)

Spec == Init /\ [][Next]_vars

\* Nobody makes a client call again, but the runtime schedules every handler
\* and goroutine, and a sweep is a finite computation.
Fairness ==
  /\ \A c \in Clients : WF_vars(Handler(c))
  /\ \A id \in JobID : WF_vars(Goroutine(id))

FairSpec == Spec /\ Fairness

-----------------------------------------------------------------------------
(* Safety. *)

HoldsSlot(id) == sweep[id] \in {"run", "panicked", "release"}
Cached(id) == Status(id) \in {"running", "done"}

\* The two maps of jobStore agree: a cache key maps to a job of that very tuple
\* that is running or done (getOrCreate dereferences byID[byKey[key]] unchecked,
\* and a failed tuple must be re-runnable), and every such job is found by its
\* key, whatever handlers and goroutines did in between.
KeysAgree(st) ==
  /\ \A k \in Tuples : st.byKey[k] # NoJob =>
       /\ st.byID[st.byKey[k]].Params = k
       /\ st.byID[st.byKey[k]].Status \in {"running", "done"}
  /\ \A id \in JobID : st.byID[id].Status \in {"running", "done"} =>
       st.byKey[st.byID[id].Params] = id

\* order lists exactly the jobs of the store, each once: evictOldestDoneLocked
\* and remove edit order and byID apart, and an id left in order alone would
\* be evicted in place of a job.
OrderAgrees(st) ==
  /\ IsInjective(st.order)
  /\ ToSet(st.order) = Present(st)

StoreConsistent == KeysAgree(jobs) /\ OrderAgrees(jobs)

\* The tokens in sweepSlots are those of the goroutines between their reserve
\* and their deferred receive, on the return, error and panic paths alike, so
\* the channel's capacity bounds the sweeps that compute.
SlotsExact == sweepSlots = Cardinality({id \in JobID : HoldsSlot(id)})

\* The dedupe promise of getOrCreate: no tuple is computed by two sweeps at
\* once, even when one of its runs has failed, panicked or been rolled back.
AtMostOneRunPerTuple ==
  \A i, j \in JobID :
    /\ sweep[i] \in {"run", "panicked"}
    /\ sweep[j] \in {"run", "panicked"}
    /\ jobs.byID[i].Params = jobs.byID[j].Params
    => i = j

\* A job shows "running" only while a goroutine or the handler that created it
\* is still bound to settle or remove it: no path leaves a job running forever.
NoOrphanedRunningJob ==
  \A id \in JobID : Status(id) = "running" =>
    \/ sweep[id] \in {"run", "panicked", "recovering"}
    \/ \E c \in Clients : client[c].pc # "ready" /\ client[c].id = id

\* The job a client was given for its tuple is a job of that tuple, however its
\* fields were defaulted: as long as the store has it, it answers for it.
AnswersOwnTuple ==
  \A c \in Clients :
    client[c].id # NoJob /\ client[c].id \in Present(jobs) =>
      jobs.byID[client[c].id].Params = withDefaults(client[c].params)

\* Ids not handed out yet are used nowhere.
FreshIds ==
  /\ \A id \in JobID : id > issued => jobs.byID[id] = Absent /\ sweep[id] = "none"
  /\ \A c \in Clients : client[c].id <= issued

\* Until it is settled, a sweep's job is in the store, shown as running.
SweepsHaveJobs ==
  \A id \in JobID : sweep[id] \in {"run", "panicked", "recovering"} =>
    Status(id) = "running"

\* A handler between getOrCreate and its select or remove is the only one with
\* its id, and nothing has been started for it.
OpenRequests ==
  \A c \in Clients : client[c].pc # "ready" =>
    /\ client[c].id # NoJob
    /\ sweep[client[c].id] = "none"
    /\ Status(client[c].id) = "running"
    /\ \A d \in Clients \ {c} :
         client[d].pc # "ready" => client[d].id # client[c].id

\* The inductive invariant.
IInv ==
  /\ TypeOK
  /\ StoreConsistent
  /\ FreshIds
  /\ SweepsHaveJobs
  /\ OpenRequests
  /\ NoOrphanedRunningJob
  /\ AnswersOwnTuple
  /\ SlotsExact

\* What a client has been told about its job stays true: after "done" or
\* "failed" it hears the same again or 404, after 404 only 404, whichever
\* handler or goroutine touched the store between two polls.
AnswersAreFinal ==
  [][\A c \in Clients :
       client[c].id = client'[c].id /\ client[c].id # NoJob =>
         /\ client[c].reply \in {"done", "failed"} =>
              client'[c].reply \in {client[c].reply, "notFound"}
         /\ client[c].reply = "notFound" => client'[c].reply = "notFound"]_vars

-----------------------------------------------------------------------------
(* Liveness: every registered job is settled or rolled back. *)

EveryJobSettles ==
  \A id \in JobID : Status(id) = "running" ~> Status(id) # "running"

-----------------------------------------------------------------------------
(* The abstract cache this flow implements. *)

phase(k) ==
  LET id == jobs.byKey[k] IN
    CASE id = NoJob                           -> "none"
      [] id # NoJob /\ Status(id) = "done"    -> "done"
      [] id # NoJob /\ Status(id) = "running" ->
           CASE sweep[id] \in {"run", "panicked"} -> "running"
             [] sweep[id] = "recovering"          -> "failing"
             [] OTHER                             -> "claimed"

Cache == INSTANCE ResultCache
           WITH cache <- [k \in Tuples |-> phase(k)], Cap <- maxConcurrentSweeps

\* Job ids, slots and goroutines implement the per-tuple cache.
ImplementsCache == Cache!CacheSpec

-----------------------------------------------------------------------------
(* A claim of the documentation that the flow does not keep. *)

\* docs/api.md: the job named by a 202 "completes and is cached for the next
\* poll"; a client holding an id may lose it only to eviction, that is after
\* the job was settled.
AcceptedJobIsKept ==
  \A c \in Clients :
    client[c].pc = "ready" /\ client[c].id # NoJob =>
      \/ client[c].id \in Present(jobs)
      \/ sweep[client[c].id] \in {"release", "ended"}
=============================================================================
