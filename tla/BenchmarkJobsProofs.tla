------------------------- MODULE BenchmarkJobsProofs -------------------------
(***************************************************************************)
(* Proofs about BenchmarkJobs, for any set of clients and requests and any   *)
(* bounds: first what each operation of the store does to a store that is    *)
(* consistent, then the inductive invariant of the whole flow, and last that *)
(* the flow implements the cache of tuples in ResultCache.                   *)
(***************************************************************************)
EXTENDS BenchmarkJobs, SequenceTheorems, FiniteSetTheorems, TLAPS

(* Defaulting a tuple twice changes nothing, so the key computed from a stored
   (defaulted) tuple in deleteLocked and complete is the one getOrCreate used. *)
LEMMA DefaultsIdempotent ==
  ASSUME NEW t \in Tuples
  PROVE  t \in RawParams /\ withDefaults(t) = t /\ cacheKey(t) = t
<1>1. PICK p \in Requests : t = withDefaults(p)
  BY DEF Tuples
<1>2. p \in RawParams
  BY RequestsAssumption
<1>3. t \in RawParams
  <2>1. p.algorithm \in Names /\ p.request_count \in Int
    BY <1>2 DEF RawParams
  <2>2. (IF p.algorithm = "" THEN "all" ELSE p.algorithm) \in Names
    BY <2>1, NamesAssumption
  <2>3. (IF p.request_count = 0 THEN DefaultODCount ELSE p.request_count) \in Int
    BY <2>1, CountAssumption
  <2> QED
    BY <1>1, <2>2, <2>3 DEF RawParams, withDefaults
<1>4. withDefaults(t) = t
  BY <1>1, <1>2, CountAssumption DEF RawParams, withDefaults
<1> QED
  BY <1>3, <1>4 DEF cacheKey

(* Removing one position of a sequence, element by element. *)
LEMMA RemoveAtElements ==
  ASSUME NEW S, NEW s \in Seq(S), NEW i \in 1 .. Len(s)
  PROVE  /\ RemoveAt(s, i) \in Seq(S)
         /\ Len(RemoveAt(s, i)) = Len(s) - 1
         /\ \A j \in 1 .. Len(s) - 1 :
              RemoveAt(s, i)[j] = IF j < i THEN s[j] ELSE s[j + 1]
<1> DEFINE a == SubSeq(s, 1, i - 1)
           b == SubSeq(s, i + 1, Len(s))
<1>1. Len(s) \in Nat
  OBVIOUS
<1>2. a \in Seq(S) /\ Len(a) = i - 1 /\ \A j \in 1 .. i - 1 : a[j] = s[j]
  BY <1>1
<1>3. b \in Seq(S) /\ Len(b) = Len(s) - i /\ \A j \in 1 .. Len(s) - i : b[j] = s[i + j]
  BY <1>1
<1>4. RemoveAt(s, i) = a \o b
  BY DEF RemoveAt, a, b
<1> HIDE DEF a, b
<1>5. a \o b \in Seq(S) /\ Len(a \o b) = Len(s) - 1
  <2>1. a \o b \in Seq(S) /\ Len(a \o b) = Len(a) + Len(b)
    BY <1>2, <1>3, ConcatProperties
  <2> QED
    BY <1>1, <1>2, <1>3, <2>1
<1>6. ASSUME NEW j \in 1 .. Len(s) - 1
      PROVE  (a \o b)[j] = IF j < i THEN s[j] ELSE s[j + 1]
  <2>1. CASE j < i
    BY <1>1, <1>2, <1>3, <2>1
  <2>2. CASE j >= i
    <3>1. (a \o b)[j] = b[j - (i - 1)]
      BY <1>1, <1>2, <1>3, <2>2
    <3>2. b[j - (i - 1)] = s[i + (j - (i - 1))]
      BY <1>1, <1>3, <2>2
    <3> QED
      BY <1>1, <2>2, <3>1, <3>2
  <2>3. j < i \/ j >= i
    BY <1>1
  <2> QED
    BY <2>1, <2>2, <2>3
<1> QED
  BY <1>4, <1>5, <1>6

(* A sequence without repetitions loses exactly the element removed. *)
LEMMA RemoveAtInjective ==
  ASSUME NEW S, NEW s \in Seq(S), IsInjective(s), NEW i \in 1 .. Len(s)
  PROVE  /\ RemoveAt(s, i) \in Seq(S)
         /\ IsInjective(RemoveAt(s, i))
         /\ ToSet(RemoveAt(s, i)) = ToSet(s) \ {s[i]}
<1> DEFINE r == RemoveAt(s, i)
<1>1. /\ r \in Seq(S)
      /\ Len(r) = Len(s) - 1
      /\ \A j \in 1 .. Len(s) - 1 : r[j] = IF j < i THEN s[j] ELSE s[j + 1]
  BY RemoveAtElements
<1>2. Len(s) \in Nat /\ DOMAIN s = 1 .. Len(s) /\ DOMAIN r = 1 .. Len(s) - 1
  BY <1>1
<1> HIDE DEF r
<1> DEFINE at(j) == IF j < i THEN j ELSE j + 1
<1>at. ASSUME NEW j \in 1 .. Len(s) - 1
       PROVE  at(j) \in 1 .. Len(s) /\ at(j) # i /\ r[j] = s[at(j)]
  BY <1>1, <1>2
<1>inj. \A x, y \in 1 .. Len(s) : s[x] = s[y] => x = y
  BY <1>2 DEF IsInjective
<1>3. IsInjective(r)
  <2>1. SUFFICES ASSUME NEW x \in 1 .. Len(s) - 1, NEW y \in 1 .. Len(s) - 1,
                        r[x] = r[y]
                 PROVE  x = y
    BY <1>2 DEF IsInjective
  <2>2. at(x) = at(y)
    BY <1>at, <1>inj, <2>1
  <2> QED
    BY <1>2, <2>2
<1>4. ASSUME NEW x \in ToSet(r) PROVE x \in ToSet(s) \ {s[i]}
  <2>1. PICK j \in 1 .. Len(s) - 1 : x = r[j]
    BY <1>2, <1>4 DEF ToSet
  <2>2. at(j) \in 1 .. Len(s) /\ at(j) # i /\ x = s[at(j)]
    BY <1>at, <2>1
  <2> QED
    BY <1>2, <1>inj, <2>2 DEF ToSet
<1>5. ASSUME NEW x \in ToSet(s) \ {s[i]} PROVE x \in ToSet(r)
  <2>1. PICK j \in 1 .. Len(s) : x = s[j] /\ j # i
    BY <1>2 DEF ToSet
  <2>2. CASE j < i
    BY <1>1, <1>2, <2>1, <2>2 DEF ToSet
  <2>3. CASE j > i
    <3>1. j - 1 \in DOMAIN r /\ r[j - 1] = x
      BY <1>1, <1>2, <2>1, <2>3
    <3> QED
      BY <3>1 DEF ToSet
  <2> QED
    BY <2>1, <2>2, <2>3, <1>2
<1> QED
  BY <1>1, <1>3, <1>4, <1>5 DEF r
-----------------------------------------------------------------------------
(* The operations of jobStore. *)

(* A nonempty set of naturals has its minimum: the scan of evictOldestDoneLocked
   and the search of remove stop at an element of the set they look for. *)
LEMMA MinExists ==
  ASSUME NEW I, I \subseteq Nat, I # {}
  PROVE  Min(I) \in I /\ \A i \in I : Min(I) <= i
<1> DEFINE R == OpToRel(<, Nat)
<1>1. IsWellFoundedOn(R, Nat)
  BY NatLessThanWellFounded
<1>2. \A x, y \in Nat : x < y => <<x, y>> \in R
  BY DEF OpToRel
<1> HIDE DEF R
<1>3. PICK m \in I : \A i \in I : ~(<<i, m>> \in R)
  BY <1>1, WFMin
<1>4. ASSUME NEW i \in I PROVE m <= i
  <2>1. i \in Nat /\ m \in Nat /\ ~(<<i, m>> \in R)
    BY <1>3
  <2>2. ~(i < m)
    BY <1>2, <2>1
  <2> QED
    BY <2>1, <2>2
<1> QED
  BY <1>4 DEF Min

StoreOK(st) == st \in JobStore /\ KeysAgree(st) /\ OrderAgrees(st)

LEMMA NewStoreOK == StoreOK(newJobStore)
<1>1. newJobStore \in JobStore
  BY DEF newJobStore, JobStore, NoJob
<1>2. KeysAgree(newJobStore)
  BY DEF newJobStore, KeysAgree, Absent
<1>3. OrderAgrees(newJobStore)
  BY DEF newJobStore, OrderAgrees, Present, Absent, ToSet, IsInjective
<1> QED
  BY <1>1, <1>2, <1>3 DEF StoreOK

(* The record an id maps to, when it maps to one. *)
LEMMA JobFacts ==
  ASSUME NEW st \in JobStore, NEW id \in JobID
  PROVE  /\ st.byID[id] \in Job \/ st.byID[id] = Absent
         /\ id \in Present(st) <=> st.byID[id] # Absent
         /\ id \in Present(st) =>
              /\ st.byID[id] \in Job
              /\ cacheKey(st.byID[id].Params) = st.byID[id].Params
              /\ st.byID[id].Params \in Tuples
         /\ id # NoJob
<1>1. st.byID[id] \in Job \/ st.byID[id] = Absent
  BY DEF JobStore
<1>2. \A j \in Job : j.Status # "absent" /\ j.Params \in Tuples
  BY DEF Job, JobStatus
<1>3. Absent.Status = "absent"
  BY DEF Absent
<1> QED
  BY <1>1, <1>2, <1>3, DefaultsIdempotent DEF Present, JobID, NoJob

(* deleteLocked takes one job out of both maps and nothing else. *)
LEMMA DeleteOK ==
  ASSUME NEW st \in JobStore, KeysAgree(st), NEW id \in JobID
  PROVE  LET d == deleteLocked(st, id) IN
           /\ d \in JobStore
           /\ KeysAgree(d)
           /\ d.byID = [st.byID EXCEPT ![id] = Absent]
           /\ d.order = st.order
           /\ Present(d) = Present(st) \ {id}
           /\ \A k \in Tuples : d.byKey[k] = IF st.byKey[k] = id THEN NoJob
                                                               ELSE st.byKey[k]
<1> DEFINE d == deleteLocked(st, id)
<1>1. /\ st.byID \in [JobID -> Job \cup {Absent}]
      /\ st.byKey \in [Tuples -> JobID \cup {NoJob}]
      /\ st.order \in Seq(JobID)
  BY DEF JobStore
<1>2. /\ d.byID = [st.byID EXCEPT ![id] = Absent]
      /\ d.byKey = dropKey(st, id)
      /\ d.order = st.order
      /\ d = [byID |-> d.byID, byKey |-> d.byKey, order |-> d.order]
  BY DEF deleteLocked
<1> HIDE DEF d
<1>3. /\ dropKey(st, id) \in [Tuples -> JobID \cup {NoJob}]
      /\ \A k \in Tuples : dropKey(st, id)[k] = IF st.byKey[k] = id THEN NoJob
                                                                 ELSE st.byKey[k]
  <2>1. CASE id \in Present(st)
    BY <1>1, <2>1, JobFacts DEF dropKey, KeysAgree
  <2>2. CASE id \notin Present(st)
    <3>1. st.byID[id] = Absent /\ id # NoJob
      BY <2>2, JobFacts
    <3>2. \A k \in Tuples : st.byKey[k] # id
      BY <3>1 DEF KeysAgree, Absent
    <3> QED
      BY <1>1, <3>1, <3>2 DEF dropKey
  <2> QED
    BY <2>1, <2>2
<1>4. d \in JobStore
  BY <1>1, <1>2, <1>3 DEF JobStore
<1>5. Present(d) = Present(st) \ {id}
  BY <1>1, <1>2 DEF Present, Absent
<1>6. KeysAgree(d)
  <2>1. ASSUME NEW k \in Tuples, d.byKey[k] # NoJob
        PROVE  /\ d.byID[d.byKey[k]].Params = k
               /\ d.byID[d.byKey[k]].Status \in {"running", "done"}
    BY <1>1, <1>2, <1>3, <2>1 DEF KeysAgree
  <2>2. ASSUME NEW i \in JobID, d.byID[i].Status \in {"running", "done"}
        PROVE  d.byKey[d.byID[i].Params] = i
    <3>1. i # id
      BY <1>1, <1>2, <2>2 DEF Absent
    <3>2. d.byID[i] = st.byID[i]
      BY <1>1, <1>2, <3>1
    <3>3. i \in Present(st)
      BY <2>2, <3>2 DEF Present
    <3>4. st.byID[i].Params \in Tuples /\ st.byKey[st.byID[i].Params] = i
      BY <2>2, <3>2, <3>3, JobFacts DEF KeysAgree
    <3> QED
      BY <1>2, <1>3, <3>1, <3>2, <3>4
  <2> QED
    BY <2>1, <2>2 DEF KeysAgree
<1> QED
  BY <1>2, <1>3, <1>4, <1>5, <1>6 DEF d
(* FIFO eviction keeps the store consistent, takes out at most one job, and that
   one is settled. *)
LEMMA EvictOK ==
  ASSUME NEW st, StoreOK(st)
  PROVE  LET e == evictOldestDoneLocked(st) IN
           /\ StoreOK(e)
           /\ \A id \in JobID : \/ e.byID[id] = st.byID[id]
                                \/ /\ e.byID[id] = Absent
                                   /\ st.byID[id].Status # "running"
           /\ \A k \in Tuples : e.byKey[k] \in {st.byKey[k], NoJob}
<1> DEFINE e == evictOldestDoneLocked(st)
<1>1. st \in JobStore /\ KeysAgree(st) /\ OrderAgrees(st)
  BY DEF StoreOK
<1>2. CASE evictable(st) = {}
  <2>1. e = st
    BY <1>2 DEF evictOldestDoneLocked
  <2> QED
    BY <1>1, <2>1 DEF StoreOK
<1>3. CASE evictable(st) # {}
  <2> DEFINE i == Min(evictable(st))
             r == [st EXCEPT !.order = RemoveAt(st.order, i)]
             id == st.order[i]
  <2>1. e = deleteLocked(r, id)
    BY <1>3 DEF evictOldestDoneLocked
  <2>2. st.order \in Seq(JobID) /\ DOMAIN st.order = 1 .. Len(st.order)
    BY <1>1 DEF JobStore
  <2>3. i \in evictable(st)
    <3>1. evictable(st) \subseteq Nat
      BY <2>2 DEF evictable
    <3> QED
      BY <1>3, <3>1, MinExists
  <2> HIDE DEF i
  <2>4. i \in 1 .. Len(st.order) /\ id \in JobID /\ st.byID[id].Status # "running"
    <3>1. i \in 1 .. Len(st.order) /\ st.byID[id].Status # "running"
      BY <2>2, <2>3 DEF evictable
    <3> QED
      BY <2>2, <3>1
  <2>5. /\ RemoveAt(st.order, i) \in Seq(JobID)
        /\ IsInjective(RemoveAt(st.order, i))
        /\ ToSet(RemoveAt(st.order, i)) = Present(st) \ {id}
    BY <1>1, <2>2, <2>4, RemoveAtInjective DEF OrderAgrees
  <2>6. /\ r.byID = st.byID /\ r.byKey = st.byKey
        /\ r.order = RemoveAt(st.order, i) /\ r \in JobStore
    BY <1>1, <2>5 DEF JobStore
  <2>7. KeysAgree(r) /\ Present(r) = Present(st)
    BY <1>1, <2>6 DEF KeysAgree, Present
  <2> HIDE DEF r, id
  <2>8. /\ e \in JobStore /\ KeysAgree(e)
        /\ e.byID = [st.byID EXCEPT ![id] = Absent]
        /\ e.order = RemoveAt(st.order, i)
        /\ Present(e) = Present(st) \ {id}
        /\ \A k \in Tuples : e.byKey[k] \in {st.byKey[k], NoJob}
    BY <2>1, <2>4, <2>6, <2>7, DeleteOK
  <2> HIDE DEF e
  <2>9. OrderAgrees(e)
    BY <2>5, <2>8 DEF OrderAgrees
  <2>10. st.byID \in [JobID -> Job \cup {Absent}]
    BY <1>1 DEF JobStore
  <2>11. ASSUME NEW x \in JobID
         PROVE  \/ e.byID[x] = st.byID[x]
                \/ e.byID[x] = Absent /\ st.byID[x].Status # "running"
    BY <2>4, <2>8, <2>10
  <2> QED
    BY <2>8, <2>9, <2>11 DEF StoreOK, e
<1> QED
  BY <1>2, <1>3

(* Registering a fresh id for a tuple that has no job. *)
LEMMA InsertOK ==
  ASSUME NEW st, StoreOK(st), NEW p \in Requests, NEW id \in JobID,
         st.byID[id] = Absent, st.byKey[cacheKey(p)] = NoJob
  PROVE  StoreOK(insert(st, p, id))
<1> DEFINE n == insert(st, p, id)
           t == withDefaults(p)
<1>1. /\ st.byID \in [JobID -> Job \cup {Absent}]
      /\ st.byKey \in [Tuples -> JobID \cup {NoJob}]
      /\ st.order \in Seq(JobID)
      /\ st \in JobStore /\ KeysAgree(st) /\ OrderAgrees(st)
  BY DEF JobStore, StoreOK
<1>2. t \in Tuples /\ cacheKey(p) = t /\ st.byKey[t] = NoJob
  BY DEF Tuples, cacheKey
<1>3. id # NoJob /\ id \notin Present(st)
  BY <1>1, JobFacts
<1> HIDE DEF t
<1>4. [Status |-> "running", Params |-> t] \in Job
  BY <1>2 DEF Job, JobStatus
<1>5. /\ n.byID = [st.byID EXCEPT ![id] = [Status |-> "running", Params |-> t]]
      /\ n.byKey = [st.byKey EXCEPT ![t] = id]
      /\ n.order = Append(st.order, id)
      /\ n = [byID |-> n.byID, byKey |-> n.byKey, order |-> n.order]
  BY <1>2 DEF insert, t
<1> HIDE DEF n
<1>6. n \in JobStore
  <2>1. n.byID \in [JobID -> Job \cup {Absent}]
    BY <1>1, <1>4, <1>5
  <2>2. n.byKey \in [Tuples -> JobID \cup {NoJob}]
    BY <1>1, <1>2, <1>5
  <2>3. n.order \in Seq(JobID)
    BY <1>1, <1>5
  <2> QED
    BY <1>5, <2>1, <2>2, <2>3 DEF JobStore
<1>7. KeysAgree(n)
  <2>1. ASSUME NEW k \in Tuples, n.byKey[k] # NoJob
        PROVE  /\ n.byID[n.byKey[k]].Params = k
               /\ n.byID[n.byKey[k]].Status \in {"running", "done"}
    <3>1. CASE k = t
      BY <1>1, <1>2, <1>5, <3>1
    <3>2. CASE k # t
      <4>1. n.byKey[k] = st.byKey[k] /\ st.byKey[k] \in JobID
        BY <1>1, <1>5, <2>1, <3>2
      <4>2. st.byID[st.byKey[k]].Status \in {"running", "done"}
            /\ st.byID[st.byKey[k]].Params = k
        BY <1>1, <2>1, <4>1 DEF KeysAgree
      <4>3. st.byKey[k] # id
        BY <1>3, <4>1, <4>2 DEF Present, Absent
      <4> QED
        BY <1>1, <1>5, <4>1, <4>2, <4>3
    <3> QED
      BY <3>1, <3>2
  <2>2. ASSUME NEW i \in JobID, n.byID[i].Status \in {"running", "done"}
        PROVE  n.byKey[n.byID[i].Params] = i
    <3>1. CASE i = id
      BY <1>1, <1>2, <1>5, <3>1
    <3>2. CASE i # id
      <4>1. n.byID[i] = st.byID[i]
        BY <1>1, <1>5, <3>2
      <4>2. i \in Present(st)
        BY <2>2, <4>1 DEF Present
      <4>3. st.byID[i].Params \in Tuples /\ st.byKey[st.byID[i].Params] = i /\ i # NoJob
        BY <1>1, <2>2, <4>1, <4>2, JobFacts DEF KeysAgree
      <4>4. st.byID[i].Params # t
        BY <1>2, <4>3
      <4> QED
        BY <1>1, <1>5, <4>1, <4>3, <4>4
    <3> QED
      BY <3>1, <3>2
  <2> QED
    BY <2>1, <2>2 DEF KeysAgree
<1>8. OrderAgrees(n)
  <2>1. Present(n) = Present(st) \cup {id}
    BY <1>1, <1>5 DEF Present
  <2>2. /\ DOMAIN n.order = 1 .. Len(st.order) + 1
        /\ Len(st.order) \in Nat
        /\ \A i \in 1 .. Len(st.order) : n.order[i] = st.order[i]
        /\ n.order[Len(st.order) + 1] = id
        /\ DOMAIN st.order = 1 .. Len(st.order)
    BY <1>1, <1>5
  <2>3. \A i \in 1 .. Len(st.order) : st.order[i] # id
    BY <1>1, <1>3, <2>2 DEF OrderAgrees, ToSet
  <2>4. IsInjective(n.order)
    BY <1>1, <2>2, <2>3 DEF OrderAgrees, IsInjective
  <2>5. ToSet(n.order) = ToSet(st.order) \cup {id}
    BY <2>2 DEF ToSet
  <2> QED
    BY <1>1, <2>1, <2>4, <2>5 DEF OrderAgrees
<1> QED
  BY <1>6, <1>7, <1>8 DEF StoreOK, n
(* getOrCreate on a tuple without a job: consistency, and what happens to the
   jobs that were there. *)
LEMMA CreatedOK ==
  ASSUME NEW st, StoreOK(st), NEW p \in Requests, NEW id \in JobID,
         st.byID[id] = Absent, st.byKey[cacheKey(p)] = NoJob
  PROVE  LET n == created(st, p, id) IN
           /\ StoreOK(n)
           /\ n.byID[id] = [Status |-> "running", Params |-> withDefaults(p)]
           /\ \A x \in JobID \ {id} : \/ n.byID[x] = st.byID[x]
                                      \/ /\ n.byID[x] = Absent
                                         /\ st.byID[x].Status # "running"
<1> DEFINE e == evictOldestDoneLocked(st)
           t == withDefaults(p)
<1>1. /\ StoreOK(e)
      /\ \A x \in JobID : \/ e.byID[x] = st.byID[x]
                          \/ e.byID[x] = Absent /\ st.byID[x].Status # "running"
      /\ \A k \in Tuples : e.byKey[k] \in {st.byKey[k], NoJob}
  BY EvictOK
<1> HIDE DEF e
<1>2. cacheKey(p) \in Tuples /\ cacheKey(p) = t
  BY DEF Tuples, cacheKey
<1>3. e.byID[id] = Absent /\ e.byKey[cacheKey(p)] = NoJob
  BY <1>1, <1>2
<1>4. StoreOK(insert(st, p, id)) /\ StoreOK(insert(e, p, id))
  BY <1>1, <1>3, InsertOK
<1>5. ASSUME NEW b, StoreOK(b)
      PROVE  /\ insert(b, p, id).byID[id] = [Status |-> "running", Params |-> t]
             /\ \A x \in JobID \ {id} : insert(b, p, id).byID[x] = b.byID[x]
  BY <1>5 DEF insert, StoreOK, JobStore
<1> QED
  BY <1>1, <1>4, <1>5 DEF created, e

(* The rollback of a registration. *)
LEMMA RemoveOK ==
  ASSUME NEW st, StoreOK(st), NEW id \in JobID
  PROVE  /\ StoreOK(remove(st, id))
         /\ remove(st, id).byID = [st.byID EXCEPT ![id] = Absent]
<1> DEFINE at == {i \in DOMAIN st.order : st.order[i] = id}
           order == IF at = {} THEN st.order ELSE RemoveAt(st.order, Min(at))
           r == [st EXCEPT !.order = order]
<1>1. st \in JobStore /\ KeysAgree(st) /\ OrderAgrees(st)
  BY DEF StoreOK
<1>2. st.order \in Seq(JobID) /\ DOMAIN st.order = 1 .. Len(st.order)
  BY <1>1 DEF JobStore
<1>3. /\ order \in Seq(JobID)
      /\ IsInjective(order)
      /\ ToSet(order) = Present(st) \ {id}
  <2>1. CASE at = {}
    <3>1. id \notin ToSet(st.order)
      BY <2>1 DEF ToSet
    <3> QED
      BY <1>1, <1>2, <2>1, <3>1 DEF OrderAgrees
  <2>2. CASE at # {}
    <3> DEFINE i == Min(at)
    <3>1. at \subseteq Nat
      BY <1>2
    <3>2. i \in at
      BY <2>2, <3>1, MinExists
    <3> HIDE DEF i
    <3>3. i \in 1 .. Len(st.order) /\ st.order[i] = id
      BY <1>2, <3>2
    <3>4. order = RemoveAt(st.order, i)
      BY <2>2 DEF i
    <3> QED
      BY <1>1, <1>2, <3>3, <3>4, RemoveAtInjective DEF OrderAgrees
  <2> QED
    BY <2>1, <2>2
<1>4. remove(st, id) = deleteLocked(r, id)
  BY DEF remove
<1> HIDE DEF order
<1>5. /\ r.byID = st.byID /\ r.byKey = st.byKey
      /\ r.order = order /\ r \in JobStore
  BY <1>1, <1>3 DEF JobStore
<1>6. KeysAgree(r) /\ Present(r) = Present(st)
  BY <1>1, <1>5 DEF KeysAgree, Present
<1> HIDE DEF r
<1>7. /\ remove(st, id) \in JobStore /\ KeysAgree(remove(st, id))
      /\ remove(st, id).byID = [st.byID EXCEPT ![id] = Absent]
      /\ remove(st, id).order = order
      /\ Present(remove(st, id)) = Present(st) \ {id}
  BY <1>4, <1>5, <1>6, DeleteOK
<1> QED
  BY <1>3, <1>7 DEF StoreOK, OrderAgrees

(* Recording an outcome of a running job: only that job's status changes. *)
LEMMA CompleteOK ==
  ASSUME NEW st, StoreOK(st), NEW id \in JobID, NEW status \in {"done", "failed"},
         st.byID[id].Status = "running"
  PROVE  /\ StoreOK(complete(st, id, status))
         /\ complete(st, id, status).byID[id]
              = [Status |-> status, Params |-> st.byID[id].Params]
         /\ \A x \in JobID \ {id} : complete(st, id, status).byID[x] = st.byID[x]
<1> DEFINE n == complete(st, id, status)
           t == st.byID[id].Params
<1>1. /\ st.byID \in [JobID -> Job \cup {Absent}]
      /\ st.byKey \in [Tuples -> JobID \cup {NoJob}]
      /\ st.order \in Seq(JobID)
      /\ st \in JobStore /\ KeysAgree(st) /\ OrderAgrees(st)
  BY DEF JobStore, StoreOK
<1>2. st.byID[id] # Absent /\ id \in Present(st)
  BY <1>1, JobFacts DEF Absent, Present
<1>3. /\ st.byID[id] \in Job /\ t \in Tuples /\ id # NoJob
      /\ cacheKey(t) = t /\ st.byKey[t] = id
  BY <1>1, <1>2, JobFacts DEF KeysAgree
<1>4. /\ n.byID = [st.byID EXCEPT ![id].Status = status]
      /\ n.byKey = IF status = "failed" THEN [st.byKey EXCEPT ![t] = NoJob]
                                        ELSE st.byKey
      /\ n.order = st.order
      /\ n = [byID |-> n.byID, byKey |-> n.byKey, order |-> n.order]
  BY <1>2, <1>3 DEF complete, dropKey
<1> HIDE DEF n
<1>5. /\ n.byID[id] = [Status |-> status, Params |-> t]
      /\ \A x \in JobID \ {id} : n.byID[x] = st.byID[x]
  BY <1>1, <1>3, <1>4 DEF Job
<1>6. n \in JobStore
  <2>1. [st.byID[id] EXCEPT !.Status = status] \in Job
    BY <1>3 DEF Job, JobStatus
  <2>2. n.byID \in [JobID -> Job \cup {Absent}]
    BY <1>1, <1>4, <2>1
  <2>3. n.byKey \in [Tuples -> JobID \cup {NoJob}]
    BY <1>1, <1>4
  <2> QED
    BY <1>1, <1>4, <2>2, <2>3 DEF JobStore
<1>7. Present(n) = Present(st)
  BY <1>2, <1>5 DEF Present
<1>8. OrderAgrees(n)
  BY <1>1, <1>4, <1>7 DEF OrderAgrees
<1>9. KeysAgree(n)
  <2>1. ASSUME NEW k \in Tuples, n.byKey[k] # NoJob
        PROVE  /\ n.byID[n.byKey[k]].Params = k
               /\ n.byID[n.byKey[k]].Status \in {"running", "done"}
    <3>1. n.byKey[k] = st.byKey[k] /\ st.byKey[k] \in JobID
      BY <1>1, <1>4, <2>1
    <3>2. st.byID[st.byKey[k]].Params = k
          /\ st.byID[st.byKey[k]].Status \in {"running", "done"}
      BY <1>1, <2>1, <3>1 DEF KeysAgree
    <3>3. CASE st.byKey[k] = id
      <4>1. k = t /\ status # "failed"
        BY <1>1, <1>4, <2>1, <3>2, <3>3
      <4> QED
        BY <1>5, <3>1, <3>3, <4>1
    <3> QED
      BY <1>5, <3>1, <3>2, <3>3
  <2>2. ASSUME NEW i \in JobID, n.byID[i].Status \in {"running", "done"}
        PROVE  n.byKey[n.byID[i].Params] = i
    <3>1. CASE i = id
      BY <1>3, <1>4, <1>5, <2>2, <3>1
    <3>2. CASE i # id
      <4>1. n.byID[i] = st.byID[i]
        BY <1>5, <3>2
      <4>2. i \in Present(st)
        BY <2>2, <4>1 DEF Present
      <4>3. st.byID[i].Params \in Tuples /\ st.byKey[st.byID[i].Params] = i
        BY <1>1, <2>2, <4>1, <4>2, JobFacts DEF KeysAgree
      <4>4. st.byID[i].Params # t
        BY <1>3, <3>2, <4>3
      <4> QED
        BY <1>1, <1>4, <4>1, <4>3, <4>4
    <3> QED
      BY <3>1, <3>2
  <2> QED
    BY <2>1, <2>2 DEF KeysAgree
<1> QED
  BY <1>4, <1>5, <1>6, <1>8, <1>9 DEF StoreOK, n
-----------------------------------------------------------------------------
(* The flow. *)

SlotHolders == {id \in JobID : HoldsSlot(id)}

LEMMA HoldersFinite == IsFiniteSet(JobID)
  BY CountAssumption, FS_Interval DEF JobID

LEMMA ZeroParamsType == ZeroParams \in RawParams
<1>1. "" \in Names
  BY NamesAssumption
<1>2. 0 \in Int
  OBVIOUS
<1>3. ASSUME NEW a \in Names, NEW n \in Int
      PROVE  [algorithm |-> a, request_count |-> n] \in RawParams
  BY DEF RawParams
<1> QED
  BY <1>1, <1>2, <1>3, Zenon DEF ZeroParams

LEMMA TypeFacts ==
  ASSUME IInv
  PROVE  /\ jobs \in JobStore /\ StoreOK(jobs)
         /\ jobs.byID \in [JobID -> Job \cup {Absent}]
         /\ jobs.byKey \in [Tuples -> JobID \cup {NoJob}]
         /\ sweep \in [JobID -> SweepPC]
         /\ client \in [Clients -> ClientState]
         /\ issued \in 0 .. MaxPosts /\ MaxPosts \in Nat
         /\ sweepSlots \in 0 .. maxConcurrentSweeps /\ maxConcurrentSweeps \in Nat
         /\ NoJob \notin JobID
         /\ ZeroParams \in RawParams
<1>1. jobs \in JobStore /\ StoreOK(jobs)
  BY DEF IInv, TypeOK, StoreConsistent, StoreOK
<1>2. NoJob \notin JobID
  BY CountAssumption DEF NoJob, JobID
<1>3. jobs.byID \in [JobID -> Job \cup {Absent}] /\ jobs.byKey \in [Tuples -> JobID \cup {NoJob}]
  BY <1>1 DEF JobStore
<1> QED
  BY <1>1, <1>2, <1>3, ZeroParamsType, CountAssumption DEF IInv, TypeOK

LEMMA InitInv == Init => IInv
<1> SUFFICES ASSUME Init PROVE IInv
  OBVIOUS
<1>1. StoreOK(jobs)
  BY NewStoreOK DEF Init
<1>2. /\ jobs.byID = [id \in JobID |-> Absent]
      /\ sweep = [id \in JobID |-> "none"]
      /\ client = [c \in Clients |-> [pc |-> "ready", id |-> NoJob,
                                      params |-> ZeroParams, reply |-> "none"]]
      /\ issued = 0 /\ sweepSlots = 0
  BY DEF Init, newJobStore
<1>3. TypeOK
  <2>1. [pc |-> "ready", id |-> NoJob, params |-> ZeroParams, reply |-> "none"]
          \in ClientState
    BY ZeroParamsType DEF ClientState, ClientPC, Reply
  <2>2. client \in [Clients -> ClientState]
    BY <1>2, <2>1
  <2> QED
    BY <1>1, <1>2, <2>2, CountAssumption DEF TypeOK, StoreOK, SweepPC
<1>4. SlotsExact
  <2>1. SlotHolders = {}
    BY <1>2 DEF SlotHolders, HoldsSlot
  <2> QED
    BY <1>2, <2>1, FS_EmptySet DEF SlotsExact, SlotHolders
<1>5. FreshIds
  BY <1>2 DEF FreshIds, NoJob
<1>6. SweepsHaveJobs /\ OpenRequests /\ NoOrphanedRunningJob /\ AnswersOwnTuple
  BY <1>2 DEF SweepsHaveJobs, OpenRequests, NoOrphanedRunningJob, AnswersOwnTuple,
              Status, Absent
<1> QED
  BY <1>1, <1>3, <1>4, <1>5, <1>6 DEF IInv, StoreConsistent, StoreOK

(* Steps that leave the sweeps and their slots alone keep SlotsExact. *)
LEMMA SlotsUnchanged ==
  ASSUME SlotsExact, UNCHANGED <<sweep, sweepSlots>>
  PROVE  SlotsExact'
  BY DEF SlotsExact, HoldsSlot

LEMMA RefuseInv ==
  ASSUME IInv, NEW c \in Clients, Refuse(c)
  PROVE  IInv'
<1> USE TypeFacts
<1> DEFINE reset == [pc |-> "ready", id |-> NoJob, params |-> ZeroParams,
                     reply |-> "rejected"]
<1>1. /\ client' = [client EXCEPT ![c] = reset]
      /\ jobs' = jobs /\ sweep' = sweep /\ sweepSlots' = sweepSlots
      /\ issued' = issued /\ client[c].pc = "ready"
  BY DEF Refuse
<1>2. reset \in ClientState
  BY DEF ClientState, ClientPC, Reply
<1>3. \A d \in Clients : client'[d] = IF d = c THEN reset ELSE client[d]
  BY <1>1
<1>4. TypeOK'
  BY <1>1, <1>2 DEF IInv, TypeOK
<1>5. SlotsExact'
  BY <1>1, SlotsUnchanged DEF IInv
<1>6. StoreConsistent' /\ SweepsHaveJobs'
  BY <1>1 DEF IInv, StoreConsistent, SweepsHaveJobs, Status
<1>7. FreshIds'
  BY <1>1, <1>3 DEF IInv, FreshIds, NoJob
<1>8. OpenRequests'
  BY <1>1, <1>3 DEF IInv, OpenRequests, Status
<1>9. NoOrphanedRunningJob'
  BY <1>1, <1>3 DEF IInv, NoOrphanedRunningJob, Status
<1>10. AnswersOwnTuple'
  BY <1>1, <1>3 DEF IInv, AnswersOwnTuple, Present
<1> QED
  BY <1>4, <1>5, <1>6, <1>7, <1>8, <1>9, <1>10 DEF IInv
LEMMA PostCachedInv ==
  ASSUME IInv, NEW c \in Clients, NEW p \in Requests, PostCached(c, p)
  PROVE  IInv'
<1> USE TypeFacts
<1> DEFINE id == jobs.byKey[cacheKey(p)]
           answer == [pc |-> "ready", id |-> id, params |-> p, reply |-> Status(id)]
<1>1. /\ client' = [client EXCEPT ![c] = answer]
      /\ jobs' = jobs /\ sweep' = sweep /\ sweepSlots' = sweepSlots
      /\ issued' = issued + 1 /\ issued < MaxPosts
      /\ client[c].pc = "ready" /\ id # NoJob
  BY DEF PostCached
<1>2. cacheKey(p) = withDefaults(p) /\ cacheKey(p) \in Tuples /\ p \in RawParams
  BY RequestsAssumption DEF cacheKey, Tuples
<1>3. id \in JobID
  BY <1>1, <1>2
<1>4. Status(id) \in {"running", "done"} /\ jobs.byID[id].Params = withDefaults(p)
  BY <1>1, <1>2 DEF IInv, StoreConsistent, KeysAgree, Status
<1> HIDE DEF id
<1>5. answer \in ClientState
  BY <1>2, <1>3, <1>4 DEF ClientState, ClientPC, Reply, JobStatus
<1>6. \A d \in Clients : client'[d] = IF d = c THEN answer ELSE client[d]
  BY <1>1
<1>7. id <= issued
  BY <1>3, <1>4 DEF IInv, FreshIds, Status, Absent, JobID
<1> HIDE DEF answer
<1>8. answer.pc = "ready" /\ answer.id = id /\ answer.params = p
  BY DEF answer
<1>9. TypeOK'
  BY <1>1, <1>5 DEF IInv, TypeOK
<1>10. SlotsExact'
  BY <1>1, SlotsUnchanged DEF IInv
<1>11. StoreConsistent' /\ SweepsHaveJobs'
  BY <1>1 DEF IInv, StoreConsistent, SweepsHaveJobs, Status
<1>12. FreshIds'
  <2>1. \A x \in JobID : x > issued' => jobs'.byID[x] = Absent /\ sweep'[x] = "none"
    BY <1>1 DEF IInv, FreshIds, JobID
  <2>2. \A d \in Clients : client'[d].id <= issued'
    BY <1>1, <1>3, <1>6, <1>7, <1>8 DEF IInv, FreshIds, ClientState, JobID, NoJob
  <2> QED
    BY <2>1, <2>2 DEF FreshIds
<1>13. OpenRequests'
  BY <1>1, <1>6, <1>8 DEF IInv, OpenRequests, Status
<1>14. NoOrphanedRunningJob'
  BY <1>1, <1>6, <1>8 DEF IInv, NoOrphanedRunningJob, Status
<1>15. AnswersOwnTuple'
  BY <1>1, <1>4, <1>6, <1>8 DEF IInv, AnswersOwnTuple, Present
<1> QED
  BY <1>9, <1>10, <1>11, <1>12, <1>13, <1>14, <1>15 DEF IInv

LEMMA PostCreateInv ==
  ASSUME IInv, NEW c \in Clients, NEW p \in Requests, PostCreate(c, p)
  PROVE  IInv'
<1> USE TypeFacts
<1> DEFINE id == issued + 1
           opened == [pc |-> "reserve", id |-> id, params |-> p, reply |-> "none"]
<1>1. /\ client' = [client EXCEPT ![c] = opened]
      /\ jobs' = created(jobs, p, id) /\ sweep' = sweep /\ sweepSlots' = sweepSlots
      /\ issued' = id /\ issued < MaxPosts
      /\ client[c].pc = "ready" /\ jobs.byKey[cacheKey(p)] = NoJob
  BY DEF PostCreate
<1>2. p \in RawParams
  BY RequestsAssumption
<1>3. id \in JobID /\ id # NoJob /\ id > issued
  BY <1>1 DEF JobID, NoJob
<1>4. jobs.byID[id] = Absent /\ sweep[id] = "none"
  BY <1>3 DEF IInv, FreshIds
<1> HIDE DEF id
<1>5. /\ StoreOK(jobs')
      /\ jobs'.byID[id] = [Status |-> "running", Params |-> withDefaults(p)]
      /\ \A x \in JobID \ {id} : \/ jobs'.byID[x] = jobs.byID[x]
                                 \/ /\ jobs'.byID[x] = Absent
                                    /\ jobs.byID[x].Status # "running"
  BY <1>1, <1>3, <1>4, CreatedOK
<1>6. opened \in ClientState
  BY <1>2, <1>3 DEF ClientState, ClientPC, Reply
<1>7. \A d \in Clients : client'[d] = IF d = c THEN opened ELSE client[d]
  BY <1>1
<1> HIDE DEF opened
<1>8. opened.pc = "reserve" /\ opened.id = id /\ opened.params = p
  BY DEF opened
<1>9. /\ jobs'.byID[id].Status = "running" /\ jobs'.byID[id].Params = withDefaults(p)
      /\ Absent.Status = "absent"
  BY <1>5 DEF Absent
<1>10. \A d \in Clients : client[d].id # id
  <2>1. \A d \in Clients : client[d].id <= issued /\ client[d].id \in Int
    BY DEF IInv, FreshIds, ClientState, JobID, NoJob
  <2> QED
    BY <2>1, <1>3 DEF JobID
<1>11. TypeOK'
  BY <1>1, <1>3, <1>5, <1>6 DEF IInv, TypeOK, StoreOK, JobID
<1>12. SlotsExact'
  BY <1>1, SlotsUnchanged DEF IInv
<1>13. StoreConsistent'
  BY <1>5 DEF StoreOK, StoreConsistent
<1>14. SweepsHaveJobs'
  BY <1>1, <1>4, <1>5, <1>9 DEF IInv, SweepsHaveJobs, Status
<1>15. FreshIds'
  <2>1. ASSUME NEW x \in JobID, x > issued'
        PROVE  jobs'.byID[x] = Absent /\ sweep'[x] = "none"
    <3>1. x # id /\ x > issued
      BY <1>1, <1>3, <2>1 DEF JobID
    <3>2. jobs.byID[x] = Absent /\ sweep[x] = "none"
      BY <3>1 DEF IInv, FreshIds
    <3> QED
      BY <1>1, <1>5, <3>1, <3>2
  <2>2. \A d \in Clients : client'[d].id <= issued'
    BY <1>1, <1>3, <1>7, <1>8 DEF IInv, FreshIds, ClientState, JobID, NoJob
  <2> QED
    BY <2>1, <2>2 DEF FreshIds
<1>16. OpenRequests'
  <2>1. ASSUME NEW d \in Clients, client'[d].pc # "ready"
        PROVE  /\ client'[d].id # NoJob
               /\ sweep'[client'[d].id] = "none"
               /\ jobs'.byID[client'[d].id].Status = "running"
               /\ \A f \in Clients \ {d} :
                    client'[f].pc # "ready" => client'[f].id # client'[d].id
    <3>1. CASE d = c
      BY <1>1, <1>3, <1>4, <1>7, <1>8, <1>9, <1>10, <3>1
    <3>2. CASE d # c
      <4>1. client'[d] = client[d] /\ client[d].id # id
        BY <1>7, <1>10, <3>2
      <4>2. /\ client[d].id # NoJob /\ client[d].id \in JobID
            /\ sweep[client[d].id] = "none"
            /\ jobs.byID[client[d].id].Status = "running"
            /\ \A f \in Clients \ {d} :
                 client[f].pc # "ready" => client[f].id # client[d].id
        BY <2>1, <4>1 DEF IInv, OpenRequests, Status, ClientState
      <4> QED
        BY <1>1, <1>5, <1>7, <1>8, <4>1, <4>2
    <3> QED
      BY <3>1, <3>2
  <2> QED
    BY <2>1 DEF OpenRequests, Status
<1>17. NoOrphanedRunningJob'
  <2>1. ASSUME NEW x \in JobID, jobs'.byID[x].Status = "running"
        PROVE  \/ sweep'[x] \in {"run", "panicked", "recovering"}
               \/ \E d \in Clients : client'[d].pc # "ready" /\ client'[d].id = x
    <3>1. CASE x = id
      BY <1>7, <1>8, <3>1
    <3>2. CASE x # id
      <4>1. jobs.byID[x].Status = "running"
        BY <1>5, <1>9, <2>1, <3>2
      <4>2. CASE sweep[x] \in {"run", "panicked", "recovering"}
        BY <1>1, <4>2
      <4>3. CASE \E d \in Clients : client[d].pc # "ready" /\ client[d].id = x
        BY <1>1, <1>7, <4>3
      <4> QED
        BY <4>1, <4>2, <4>3 DEF IInv, NoOrphanedRunningJob, Status
    <3> QED
      BY <3>1, <3>2
  <2> QED
    BY <2>1 DEF NoOrphanedRunningJob, Status
<1>18. AnswersOwnTuple'
  <2>1. ASSUME NEW d \in Clients, client'[d].id # NoJob,
               jobs'.byID[client'[d].id].Status # "absent"
        PROVE  jobs'.byID[client'[d].id].Params = withDefaults(client'[d].params)
    <3>1. CASE d = c
      BY <1>7, <1>8, <1>9, <3>1
    <3>2. CASE d # c
      <4>1. client'[d] = client[d] /\ client[d].id # id /\ client[d].id \in JobID
        BY <1>7, <1>10, <2>1, <3>2 DEF ClientState
      <4>2. jobs'.byID[client[d].id] = jobs.byID[client[d].id]
        BY <1>5, <1>9, <2>1, <4>1
      <4> QED
        BY <2>1, <4>1, <4>2 DEF IInv, AnswersOwnTuple, Present
    <3> QED
      BY <3>1, <3>2
  <2> QED
    BY <2>1 DEF AnswersOwnTuple, Present
<1> QED
  BY <1>11, <1>12, <1>13, <1>14, <1>15, <1>16, <1>17, <1>18 DEF IInv
LEMMA ReserveInv ==
  ASSUME IInv, NEW c \in Clients, Reserve(c)
  PROVE  IInv'
<1> USE TypeFacts
<1> DEFINE id == client[c].id
<1>1. /\ client' = [client EXCEPT ![c].pc = "ready", ![c].reply = "running"]
      /\ jobs' = jobs /\ issued' = issued
      /\ sweep' = [sweep EXCEPT ![id] = "run"]
      /\ sweepSlots < maxConcurrentSweeps /\ sweepSlots' = sweepSlots + 1
      /\ client[c].pc = "reserve"
  BY DEF Reserve
<1>2. /\ id \in JobID /\ sweep[id] = "none" /\ Status(id) = "running"
      /\ \A d \in Clients \ {c} : client[d].pc # "ready" => client[d].id # id
  BY <1>1 DEF IInv, OpenRequests, ClientState
<1>3. /\ client' \in [Clients -> ClientState]
      /\ \A d \in Clients : /\ client'[d].id = client[d].id
                            /\ client'[d].params = client[d].params
                            /\ d # c => client'[d] = client[d]
      /\ client'[c].pc = "ready"
  BY <1>1 DEF ClientState, ClientPC, Reply, JobStatus
<1>4. sweep' \in [JobID -> SweepPC] /\ \A x \in JobID : sweep'[x] = IF x = id THEN "run" ELSE sweep[x]
  BY <1>1, <1>2 DEF SweepPC
<1> HIDE DEF id
<1>5. TypeOK'
  BY <1>1, <1>3, <1>4 DEF IInv, TypeOK
<1>6. SlotsExact'
  <2>1. SlotHolders' = SlotHolders \cup {id} /\ id \notin SlotHolders
    BY <1>2, <1>4 DEF SlotHolders, HoldsSlot
  <2>2. IsFiniteSet(SlotHolders)
    BY HoldersFinite, FS_Subset DEF SlotHolders
  <2>3. Cardinality(SlotHolders \cup {id}) = Cardinality(SlotHolders) + 1
    BY <2>1, <2>2, FS_AddElement
  <2> QED
    BY <1>1, <2>1, <2>3 DEF IInv, SlotsExact, SlotHolders
<1>7. StoreConsistent'
  BY <1>1 DEF IInv, StoreConsistent
<1>8. SweepsHaveJobs'
  BY <1>1, <1>2, <1>4 DEF IInv, SweepsHaveJobs, Status
<1>9. FreshIds'
  BY <1>1, <1>2, <1>3, <1>4 DEF IInv, FreshIds, Status, Absent
<1>10. OpenRequests'
  <2>1. ASSUME NEW d \in Clients, client'[d].pc # "ready"
        PROVE  /\ d # c /\ client'[d] = client[d] /\ client[d].id # id
               /\ client[d].id \in JobID
               /\ sweep'[client[d].id] = "none"
    BY <1>2, <1>3, <1>4, <2>1 DEF IInv, OpenRequests, ClientState
  <2> QED
    BY <1>1, <1>3, <2>1 DEF IInv, OpenRequests, Status
<1>11. NoOrphanedRunningJob'
  <2>1. ASSUME NEW x \in JobID, Status(x) = "running", x # id
        PROVE  \/ sweep'[x] \in {"run", "panicked", "recovering"}
               \/ \E d \in Clients : client'[d].pc # "ready" /\ client'[d].id = x
    <3>1. CASE sweep[x] \in {"run", "panicked", "recovering"}
      BY <1>4, <2>1, <3>1
    <3>2. CASE \E d \in Clients : client[d].pc # "ready" /\ client[d].id = x
      BY <1>3, <2>1, <3>2 DEF id
    <3> QED
      BY <2>1, <3>1, <3>2 DEF IInv, NoOrphanedRunningJob
  <2> QED
    BY <1>1, <1>4, <2>1 DEF NoOrphanedRunningJob, Status
<1>12. AnswersOwnTuple'
  BY <1>1, <1>3 DEF IInv, AnswersOwnTuple, Present
<1> QED
  BY <1>5, <1>6, <1>7, <1>8, <1>9, <1>10, <1>11, <1>12 DEF IInv

(* The steps of a client that touch neither the store nor a sweep and keep its
   job: the failed select, and a poll. *)
LEMMA ClientOnlyInv ==
  ASSUME IInv, NEW c \in Clients,
         UNCHANGED <<jobs, sweepSlots, sweep, issued>>,
         client' \in [Clients -> ClientState],
         \A d \in Clients : /\ client'[d].id = client[d].id
                           /\ client'[d].params = client[d].params
                           /\ (client'[d].pc # "ready" <=> client[d].pc # "ready")
  PROVE  IInv'
<1>1. TypeOK' /\ StoreConsistent' /\ SweepsHaveJobs' /\ SlotsExact'
  BY SlotsUnchanged DEF IInv, TypeOK, StoreConsistent, SweepsHaveJobs, Status
<1>2. FreshIds'
  BY DEF IInv, FreshIds
<1>3. AnswersOwnTuple'
  BY DEF IInv, AnswersOwnTuple, Present
<1>4. \A d \in Clients : (client'[d].pc # "ready" <=> client[d].pc # "ready")
  OBVIOUS
<1>5. OpenRequests'
  <2>1. ASSUME NEW d \in Clients, client'[d].pc # "ready"
        PROVE  /\ client'[d].id # NoJob
               /\ sweep'[client'[d].id] = "none"
               /\ jobs'.byID[client'[d].id].Status = "running"
               /\ \A f \in Clients \ {d} :
                    client'[f].pc # "ready" => client'[f].id # client'[d].id
    BY <1>4, <2>1 DEF IInv, OpenRequests, Status
  <2> QED
    BY <2>1 DEF OpenRequests, Status
<1>6. NoOrphanedRunningJob'
  <2>1. ASSUME NEW x \in JobID, Status(x) = "running"
        PROVE  \/ sweep'[x] \in {"run", "panicked", "recovering"}
               \/ \E d \in Clients : client'[d].pc # "ready" /\ client'[d].id = x
    BY <1>4, <2>1 DEF IInv, NoOrphanedRunningJob
  <2> QED
    BY <2>1 DEF NoOrphanedRunningJob, Status
<1> QED
  BY <1>1, <1>2, <1>3, <1>5, <1>6 DEF IInv

LEMMA ReserveFullInv ==
  ASSUME IInv, NEW c \in Clients, ReserveFull(c)
  PROVE  IInv'
<1>1. /\ client' \in [Clients -> ClientState]
      /\ \A d \in Clients : /\ client'[d].id = client[d].id
                            /\ client'[d].params = client[d].params
                            /\ (client'[d].pc # "ready" <=> client[d].pc # "ready")
  BY TypeFacts DEF ReserveFull, ClientState, ClientPC
<1> QED
  BY <1>1, ClientOnlyInv DEF ReserveFull

LEMMA PollInv ==
  ASSUME IInv, NEW c \in Clients, Poll(c)
  PROVE  IInv'
<1> DEFINE answer == IF jobs.byID[client[c].id] = Absent THEN "notFound"
                     ELSE Status(client[c].id)
<1>1. client[c].id \in JobID
  BY TypeFacts DEF Poll, ClientState
<1>2. answer \in Reply
  BY <1>1, TypeFacts, JobFacts DEF Reply, Job, Status
<1>3. client' = [client EXCEPT ![c].reply = answer]
  BY DEF Poll
<1> HIDE DEF answer
<1>4. /\ client' \in [Clients -> ClientState]
      /\ \A d \in Clients : /\ client'[d].id = client[d].id
                            /\ client'[d].params = client[d].params
                            /\ client'[d].pc = client[d].pc
  BY <1>2, <1>3, TypeFacts DEF ClientState
<1> QED
  BY <1>4, ClientOnlyInv DEF Poll

LEMMA RollbackInv ==
  ASSUME IInv, NEW c \in Clients, Rollback(c)
  PROVE  IInv'
<1> USE TypeFacts
<1> DEFINE id == client[c].id
           reset == [pc |-> "ready", id |-> NoJob, params |-> ZeroParams,
                     reply |-> "busy"]
<1>1. /\ client' = [client EXCEPT ![c] = reset]
      /\ jobs' = remove(jobs, id)
      /\ sweepSlots' = sweepSlots /\ sweep' = sweep /\ issued' = issued
      /\ client[c].pc = "rollback"
  BY DEF Rollback
<1>2. /\ id \in JobID /\ sweep[id] = "none"
      /\ \A d \in Clients \ {c} : client[d].pc # "ready" => client[d].id # id
  BY <1>1 DEF IInv, OpenRequests, ClientState
<1> HIDE DEF id
<1>3. /\ StoreOK(jobs')
      /\ \A x \in JobID : jobs'.byID[x] = IF x = id THEN Absent ELSE jobs.byID[x]
  <2>1. StoreOK(jobs') /\ jobs'.byID = [jobs.byID EXCEPT ![id] = Absent]
    BY <1>1, <1>2, RemoveOK
  <2> QED
    BY <1>2, <2>1
<1>4. reset \in ClientState
  BY DEF ClientState, ClientPC, Reply
<1>5. \A d \in Clients : client'[d] = IF d = c THEN reset ELSE client[d]
  BY <1>1
<1> HIDE DEF reset
<1>6. reset.pc = "ready" /\ reset.id = NoJob
  BY DEF reset
<1>7. Absent.Status = "absent"
  BY DEF Absent
<1>8. TypeOK'
  BY <1>1, <1>3, <1>4 DEF IInv, TypeOK, StoreOK
<1>9. SlotsExact'
  BY <1>1, SlotsUnchanged DEF IInv
<1>10. StoreConsistent'
  BY <1>3 DEF StoreOK, StoreConsistent
<1>11. FreshIds'
  BY <1>1, <1>3, <1>5, <1>6 DEF IInv, FreshIds, NoJob
<1>12. SweepsHaveJobs'
  BY <1>1, <1>2, <1>3 DEF IInv, SweepsHaveJobs, Status
<1>13. OpenRequests'
  <2>1. ASSUME NEW d \in Clients, client'[d].pc # "ready"
        PROVE  /\ d # c /\ client'[d] = client[d] /\ client[d].id # id
               /\ client[d].id \in JobID
               /\ jobs'.byID[client[d].id] = jobs.byID[client[d].id]
    BY <1>2, <1>3, <1>5, <1>6, <2>1 DEF IInv, OpenRequests, ClientState
  <2> QED
    BY <1>1, <1>5, <1>6, <2>1 DEF IInv, OpenRequests, Status
<1>14. NoOrphanedRunningJob'
  <2>1. ASSUME NEW x \in JobID, jobs'.byID[x].Status = "running"
        PROVE  \/ sweep'[x] \in {"run", "panicked", "recovering"}
               \/ \E d \in Clients : client'[d].pc # "ready" /\ client'[d].id = x
    <3>1. x # id /\ Status(x) = "running"
      BY <1>3, <1>7, <2>1 DEF Status
    <3>2. CASE sweep[x] \in {"run", "panicked", "recovering"}
      BY <1>1, <3>2
    <3>3. CASE \E d \in Clients : client[d].pc # "ready" /\ client[d].id = x
      BY <1>5, <3>1, <3>3 DEF id
    <3> QED
      BY <3>1, <3>2, <3>3 DEF IInv, NoOrphanedRunningJob
  <2> QED
    BY <2>1 DEF NoOrphanedRunningJob, Status
<1>15. AnswersOwnTuple'
  <2>1. ASSUME NEW d \in Clients, client'[d].id # NoJob,
               client'[d].id \in JobID, jobs'.byID[client'[d].id].Status # "absent"
        PROVE  jobs'.byID[client'[d].id].Params = withDefaults(client'[d].params)
    <3>1. d # c /\ client'[d] = client[d]
      BY <1>5, <1>6, <2>1
    <3>2. jobs'.byID[client[d].id] = jobs.byID[client[d].id]
      BY <1>3, <1>7, <2>1, <3>1
    <3> QED
      BY <2>1, <3>1, <3>2 DEF IInv, AnswersOwnTuple, Present
  <2> QED
    BY <2>1 DEF AnswersOwnTuple, Present
<1> QED
  BY <1>8, <1>9, <1>10, <1>11, <1>12, <1>13, <1>14, <1>15 DEF IInv
(* Recording an outcome, on the return path or after a recovered panic: nobody
   else can be settling or rolling back the same job. *)
LEMMA SettleInv ==
  ASSUME IInv, NEW id \in JobID, NEW status \in {"done", "failed"},
         sweep[id] \in {"run", "recovering"},
         NEW pc \in {"release", "ended"},
         jobs' = complete(jobs, id, status),
         sweep' = [sweep EXCEPT ![id] = pc],
         UNCHANGED <<sweepSlots, client, issued>>,
         SlotHolders' = SlotHolders
  PROVE  IInv'
<1> USE TypeFacts
<1>1. Status(id) = "running" /\ jobs.byID[id].Status = "running"
  BY DEF IInv, SweepsHaveJobs, Status
<1>2. /\ StoreOK(jobs')
      /\ jobs'.byID[id] = [Status |-> status, Params |-> jobs.byID[id].Params]
      /\ \A x \in JobID \ {id} : jobs'.byID[x] = jobs.byID[x]
  <2>1. StoreOK(jobs)
    OBVIOUS
  <2>2. StoreOK(complete(jobs, id, status))
    BY <1>1, <2>1, CompleteOK
  <2>3. jobs.byID[id] \in Job /\ jobs.byID[id] # Absent
    BY <1>1 DEF Absent
  <2>4. jobs'.byID = [jobs.byID EXCEPT ![id].Status = status]
    BY <2>3 DEF complete
  <2> QED
    BY <2>2, <2>3, <2>4 DEF Job
<1>3. \A x \in JobID \ {id} : jobs'.byID[x] = jobs.byID[x] /\ sweep'[x] = sweep[x]
  BY <1>2
<1>4. /\ sweep' \in [JobID -> SweepPC]
      /\ sweep'[id] \notin {"none", "run", "panicked", "recovering"}
  BY DEF SweepPC
<1>5. jobs'.byID[id].Status \notin {"running", "absent"}
      /\ jobs'.byID[id].Params = jobs.byID[id].Params
  BY <1>2
<1>6. TypeOK' /\ StoreConsistent'
  BY <1>2, <1>4 DEF IInv, TypeOK, StoreOK, StoreConsistent
<1>7. SlotsExact'
  BY DEF IInv, SlotsExact, SlotHolders
<1>8. FreshIds'
  BY <1>1, <1>3 DEF IInv, FreshIds, Absent
<1>9. SweepsHaveJobs'
  BY <1>3, <1>4 DEF IInv, SweepsHaveJobs, Status
<1>10. OpenRequests'
  <2>1. ASSUME NEW c \in Clients, client[c].pc # "ready"
        PROVE  client[c].id \in JobID \ {id}
    BY <2>1 DEF IInv, OpenRequests, ClientState
  <2> QED
    BY <1>3, <2>1 DEF IInv, OpenRequests, Status
<1>11. NoOrphanedRunningJob'
  BY <1>3, <1>5 DEF IInv, NoOrphanedRunningJob, Status
<1>12. AnswersOwnTuple'
  <2>1. ASSUME NEW x \in JobID
        PROVE  /\ x \in Present(jobs') => x \in Present(jobs)
               /\ jobs'.byID[x].Params = jobs.byID[x].Params
    BY <1>1, <1>3, <1>5 DEF Present
  <2>2. Present(jobs') \subseteq JobID
    BY DEF Present
  <2> QED
    BY <2>1, <2>2 DEF IInv, AnswersOwnTuple
<1> QED
  BY <1>6, <1>7, <1>8, <1>9, <1>10, <1>11, <1>12 DEF IInv

LEMMA SweepReturnsInv ==
  ASSUME IInv, NEW id \in JobID, NEW status \in {"done", "failed"},
         SweepReturns(id, status)
  PROVE  IInv'
<1>1. SlotHolders' = SlotHolders
  BY TypeFacts DEF SweepReturns, SlotHolders, HoldsSlot
<1> QED
  BY <1>1, SettleInv DEF SweepReturns

LEMMA RecoverPanicInv ==
  ASSUME IInv, NEW id \in JobID, RecoverPanic(id)
  PROVE  IInv'
<1>1. SlotHolders' = SlotHolders
  BY TypeFacts DEF RecoverPanic, SlotHolders, HoldsSlot
<1> QED
  BY <1>1, SettleInv DEF RecoverPanic

(* Steps of a goroutine that has not recorded its outcome, or has nothing left
   to record: the store and the clients stay as they are. *)
LEMMA SweepOnlyInv ==
  ASSUME IInv, NEW id \in JobID, NEW pc \in SweepPC \ {"none"},
         sweep' = [sweep EXCEPT ![id] = pc],
         UNCHANGED <<jobs, client, issued>>,
         sweep[id] # "none",
         sweep[id] \in {"run", "panicked", "recovering"}
           <=> pc \in {"run", "panicked", "recovering"},
         sweepSlots' \in 0 .. maxConcurrentSweeps,
         SlotsExact'
  PROVE  IInv'
<1> USE TypeFacts
<1>1. sweep' \in [JobID -> SweepPC]
  OBVIOUS
<1>2. ASSUME NEW x \in JobID
      PROVE  /\ sweep'[x] = "none" <=> sweep[x] = "none"
             /\ sweep'[x] \in {"run", "panicked", "recovering"}
                   <=> sweep[x] \in {"run", "panicked", "recovering"}
  BY DEF SweepPC
<1>3. TypeOK' /\ StoreConsistent' /\ AnswersOwnTuple'
  BY <1>1 DEF IInv, TypeOK, StoreConsistent, AnswersOwnTuple
<1>4. FreshIds'
  BY <1>2 DEF IInv, FreshIds
<1>5. SweepsHaveJobs' /\ NoOrphanedRunningJob'
  BY <1>2 DEF IInv, SweepsHaveJobs, NoOrphanedRunningJob, Status
<1>6. OpenRequests'
  BY <1>2 DEF IInv, OpenRequests, Status, ClientState
<1> QED
  BY <1>3, <1>4, <1>5, <1>6 DEF IInv

LEMMA SweepPanicsInv ==
  ASSUME IInv, NEW id \in JobID, SweepPanics(id)
  PROVE  IInv'
<1>1. SlotHolders' = SlotHolders
  BY TypeFacts DEF SweepPanics, SlotHolders, HoldsSlot
<1>2. SlotsExact'
  BY <1>1 DEF IInv, SlotsExact, SlotHolders, SweepPanics
<1> QED
  BY <1>2, TypeFacts, SweepOnlyInv DEF SweepPanics, SweepPC

LEMMA ReleaseSlotInv ==
  ASSUME IInv, NEW id \in JobID, ReleaseSlot(id)
  PROVE  IInv'
<1> USE TypeFacts
<1> DEFINE pc == IF sweep[id] = "panicked" THEN "recovering" ELSE "ended"
<1>1. /\ sweep[id] \in {"release", "panicked"}
      /\ sweep' = [sweep EXCEPT ![id] = pc]
      /\ sweepSlots' = sweepSlots - 1
      /\ UNCHANGED <<jobs, client, issued>>
  BY DEF ReleaseSlot
<1>2. SlotHolders' = SlotHolders \ {id} /\ id \in SlotHolders
  BY <1>1 DEF SlotHolders, HoldsSlot
<1>3. IsFiniteSet(SlotHolders)
  BY HoldersFinite, FS_Subset DEF SlotHolders
<1>4. Cardinality(SlotHolders \ {id}) = Cardinality(SlotHolders) - 1
      /\ Cardinality(SlotHolders \ {id}) \in Nat
  BY <1>2, <1>3, FS_RemoveElement, FS_CardinalityType
<1>5. SlotsExact' /\ sweepSlots' \in Nat
  BY <1>1, <1>2, <1>4 DEF IInv, SlotsExact, SlotHolders
<1>6. sweepSlots' \in 0 .. maxConcurrentSweeps
  BY <1>1, <1>5
<1>7. /\ pc \in SweepPC \ {"none"}
      /\ sweep[id] \in {"run", "panicked", "recovering"}
           <=> pc \in {"run", "panicked", "recovering"}
  BY <1>1 DEF SweepPC
<1> HIDE DEF pc
<1> QED
  BY <1>1, <1>5, <1>6, <1>7, SweepOnlyInv

LEMMA NextInv ==
  ASSUME IInv, [Next]_vars
  PROVE  IInv'
<1>1. CASE UNCHANGED vars
  BY <1>1 DEF vars, IInv, TypeOK, StoreConsistent, FreshIds, SweepsHaveJobs,
              OpenRequests, NoOrphanedRunningJob, AnswersOwnTuple, SlotsExact,
              HoldsSlot, Status
<1>2. ASSUME NEW c \in Clients, Handler(c) PROVE IInv'
  BY <1>2, ReserveInv, ReserveFullInv, RollbackInv DEF Handler
<1>3. ASSUME NEW c \in Clients, ClientStep(c) PROVE IInv'
  BY <1>3, RefuseInv, PostCachedInv, PostCreateInv, PollInv DEF ClientStep
<1>4. ASSUME NEW id \in JobID, Goroutine(id) PROVE IInv'
  BY <1>4, SweepReturnsInv, SweepPanicsInv, ReleaseSlotInv, RecoverPanicInv
     DEF Goroutine
<1> QED
  BY <1>1, <1>2, <1>3, <1>4 DEF Next

(* The inductive invariant holds of every behaviour. *)
THEOREM InvariantHolds == Spec => []IInv
<1>1. Init => IInv
  BY InitInv
<1>2. IInv /\ [Next]_vars => IInv'
  BY NextInv
<1> QED
  BY <1>1, <1>2, PTL DEF Spec

(* Every variable keeps its type; in particular sweepSlots never leaves the
   channel's capacity, and a release never finds the channel empty. *)
THEOREM TypeCorrect == Spec => []TypeOK
<1>1. IInv => TypeOK
  BY DEF IInv
<1> QED
  BY <1>1, InvariantHolds, PTL

(* byID, byKey and order always agree, whatever the interleaving of handlers and
   goroutines: getOrCreate never dereferences a missing job. *)
THEOREM StoreAlwaysConsistent == Spec => []StoreConsistent
<1>1. IInv => StoreConsistent
  BY DEF IInv
<1> QED
  BY <1>1, InvariantHolds, PTL

(* The channel counts exactly the goroutines that hold a slot. *)
THEOREM SlotsAlwaysExact == Spec => []SlotsExact
<1>1. IInv => SlotsExact
  BY DEF IInv
<1> QED
  BY <1>1, InvariantHolds, PTL

(* No job is left running with nobody to settle it. *)
THEOREM NoJobOrphaned == Spec => []NoOrphanedRunningJob
<1>1. IInv => NoOrphanedRunningJob
  BY DEF IInv
<1> QED
  BY <1>1, InvariantHolds, PTL

(* A client's job answers for the tuple the client posted. *)
THEOREM OwnTupleAnswered == Spec => []AnswersOwnTuple
<1>1. IInv => AnswersOwnTuple
  BY DEF IInv
<1> QED
  BY <1>1, InvariantHolds, PTL

(* No tuple is computed by two sweeps at once: both jobs would be running, so the
   tuple's key would map to both. *)
THEOREM OneRunPerTuple == Spec => []AtMostOneRunPerTuple
<1>1. ASSUME IInv PROVE AtMostOneRunPerTuple
  <2>1. ASSUME NEW i \in JobID, sweep[i] \in {"run", "panicked"}
        PROVE  jobs.byKey[jobs.byID[i].Params] = i
    BY <1>1, <2>1 DEF IInv, SweepsHaveJobs, StoreConsistent, KeysAgree, Status
  <2> QED
    BY <2>1 DEF AtMostOneRunPerTuple
<1> QED
  BY <1>1, InvariantHolds, PTL
-----------------------------------------------------------------------------
(* The flow implements the cache of tuples. *)

\* The job id speaks for tuple k in the store st.
JobFor(st, id, k) ==
  st.byID[id].Params = k /\ st.byID[id].Status \in {"running", "done"}

\* phase with its state as arguments, so that two states can be compared.
PhaseOf(st, sw, k) ==
  LET id == st.byKey[k] IN
    CASE id = NoJob                                   -> "none"
      [] id # NoJob /\ st.byID[id].Status = "done"    -> "done"
      [] id # NoJob /\ st.byID[id].Status = "running" ->
           CASE sw[id] \in {"run", "panicked"} -> "running"
             [] sw[id] = "recovering"          -> "failing"
             [] OTHER                          -> "claimed"

CacheOf(st, sw) == [k \in Tuples |-> PhaseOf(st, sw, k)]

LEMMA PhaseIsPhaseOf ==
  /\ [k \in Tuples |-> phase(k)] = CacheOf(jobs, sweep)
  /\ [k \in Tuples |-> phase(k)]' = CacheOf(jobs', sweep')
<1>1. \A k \in Tuples : phase(k) = PhaseOf(jobs, sweep, k)
  BY DEF phase, PhaseOf, Status
<1>2. \A k \in Tuples : phase(k)' = PhaseOf(jobs', sweep', k)
  BY DEF phase, PhaseOf, Status
<1> QED
  BY <1>1, <1>2 DEF CacheOf

(* In a consistent store the key of a tuple names the job that speaks for it, and a
   tuple without such a job has no key. *)
LEMMA KeyNamesJob ==
  ASSUME NEW st, StoreOK(st), NEW k \in Tuples
  PROVE  /\ \A id \in JobID : st.byKey[k] = id <=> JobFor(st, id, k)
         /\ st.byKey[k] = NoJob <=> \A id \in JobID : ~JobFor(st, id, k)
         /\ st.byKey[k] = NoJob \/ st.byKey[k] \in JobID
         /\ NoJob \notin JobID
<1>1. st.byKey[k] = NoJob \/ st.byKey[k] \in JobID
  BY DEF StoreOK, JobStore
<1>2. NoJob \notin JobID
  BY CountAssumption DEF NoJob, JobID
<1>3. ASSUME NEW id \in JobID PROVE st.byKey[k] = id <=> JobFor(st, id, k)
  BY <1>2 DEF StoreOK, KeysAgree, JobFor
<1> QED
  BY <1>1, <1>2, <1>3

(* The phase of a tuple, from the job that speaks for it. *)
LEMMA PhaseByJob ==
  ASSUME NEW st, StoreOK(st), NEW sw, NEW k \in Tuples
  PROVE  /\ (\A id \in JobID : ~JobFor(st, id, k)) <=> PhaseOf(st, sw, k) = "none"
         /\ \A id \in JobID : JobFor(st, id, k) =>
              PhaseOf(st, sw, k) =
                IF st.byID[id].Status = "done" THEN "done"
                ELSE IF sw[id] \in {"run", "panicked"} THEN "running"
                ELSE IF sw[id] = "recovering" THEN "failing" ELSE "claimed"
<1>1. ASSUME NEW id \in JobID, JobFor(st, id, k)
      PROVE  PhaseOf(st, sw, k) =
                IF st.byID[id].Status = "done" THEN "done"
                ELSE IF sw[id] \in {"run", "panicked"} THEN "running"
                ELSE IF sw[id] = "recovering" THEN "failing" ELSE "claimed"
  <2>1. st.byKey[k] = id /\ id # NoJob /\ st.byID[id].Status \in {"running", "done"}
    BY <1>1, KeyNamesJob DEF JobFor
  <2> QED
    BY <2>1 DEF PhaseOf
<1>2. ASSUME \A id \in JobID : ~JobFor(st, id, k) PROVE PhaseOf(st, sw, k) = "none"
  BY <1>2, KeyNamesJob DEF PhaseOf
<1> QED
  BY <1>1, <1>2

(* A tuple keeps its phase when every job that a step touches speaks for another
   tuple, or for none, before and after. *)
LEMMA OthersKeepPhase ==
  ASSUME NEW st, NEW n, StoreOK(st), StoreOK(n), NEW sw, NEW sx, NEW k \in Tuples,
         \A x \in JobID : \/ n.byID[x] = st.byID[x] /\ sx[x] = sw[x]
                          \/ ~JobFor(st, x, k) /\ ~JobFor(n, x, k)
  PROVE  PhaseOf(n, sx, k) = PhaseOf(st, sw, k)
<1>1. \A x \in JobID : JobFor(n, x, k) <=> JobFor(st, x, k)
  BY DEF JobFor
<1>2. CASE \A x \in JobID : ~JobFor(st, x, k)
  BY <1>1, <1>2, PhaseByJob
<1>3. ASSUME NEW x \in JobID, JobFor(st, x, k)
      PROVE  PhaseOf(n, sx, k) = PhaseOf(st, sw, k)
  <2>1. n.byID[x] = st.byID[x] /\ sx[x] = sw[x] /\ JobFor(n, x, k)
    BY <1>1, <1>3
  <2> QED
    BY <1>3, <2>1, PhaseByJob
<1> QED
  BY <1>2, <1>3

(* One tuple moves, the others stay: a Move of the cache. *)
LEMMA MoveStep ==
  ASSUME NEW k \in Tuples,
         \A j \in Tuples \ {k} : PhaseOf(jobs', sweep', j) = PhaseOf(jobs, sweep, j)
  PROVE  Cache!Move(k, PhaseOf(jobs, sweep, k), PhaseOf(jobs', sweep', k))
<1> DEFINE old == CacheOf(jobs, sweep)
           new == CacheOf(jobs', sweep')
<1>1. new = [old EXCEPT ![k] = PhaseOf(jobs', sweep', k)]
  BY DEF CacheOf
<1>2. old[k] = PhaseOf(jobs, sweep, k)
  BY DEF CacheOf
<1> HIDE DEF old, new
<1> QED
  BY <1>1, <1>2, PhaseIsPhaseOf DEF Cache!Move, old, new

LEMMA CacheStutters ==
  ASSUME \A k \in Tuples : PhaseOf(jobs', sweep', k) = PhaseOf(jobs, sweep, k)
  PROVE  UNCHANGED [k \in Tuples |-> phase(k)]
<1>1. CacheOf(jobs', sweep') = CacheOf(jobs, sweep)
  BY DEF CacheOf
<1> QED
  BY <1>1, PhaseIsPhaseOf

\* ResultCache brings its own copy of Cardinality along.
LEMMA SameCardinality ==
  ASSUME NEW S
  PROVE  Cache!Cardinality(S) = Cardinality(S)
  BY DEF Cache!Cardinality, Cardinality

\* Each computing tuple is computed by a goroutine of its own that holds a slot.
LEMMA ComputingHoldSlots ==
  ASSUME IInv
  PROVE  /\ IsFiniteSet(Cache!Computing)
         /\ Cardinality(Cache!Computing) <= sweepSlots
<1> DEFINE C == {k \in Tuples : PhaseOf(jobs, sweep, k) = "running"}
           f == [k \in C |-> jobs.byKey[k]]
<1>1. Cache!Computing = C
  <2>1. Cache!Computing = {k \in Tuples : [j \in Tuples |-> phase(j)][k] = "running"}
    BY DEF Cache!Computing
  <2> QED
    BY <2>1, PhaseIsPhaseOf DEF CacheOf
<1>2. ASSUME NEW k \in C
      PROVE  jobs.byKey[k] \in SlotHolders /\ jobs.byID[jobs.byKey[k]].Params = k
  <2>1. PICK id \in JobID : JobFor(jobs, id, k)
    BY TypeFacts, PhaseByJob
  <2>2. sweep[id] \in {"run", "panicked"}
    BY <2>1, TypeFacts, PhaseByJob
  <2>3. jobs.byKey[k] = id
    BY <2>1, TypeFacts, KeyNamesJob
  <2> QED
    BY <2>1, <2>2, <2>3 DEF SlotHolders, HoldsSlot, JobFor
<1>3. f \in Injection(C, SlotHolders)
  <2>1. f \in [C -> SlotHolders]
    BY <1>2
  <2>2. \A j, k \in C : f[j] = f[k] => j = k
    BY <1>2
  <2> QED
    BY <2>1, <2>2 DEF Injection, IsInjective
<1>4. IsFiniteSet(SlotHolders)
  BY HoldersFinite, FS_Subset DEF SlotHolders
<1>5. IsFiniteSet(C) /\ Cardinality(C) <= Cardinality(SlotHolders)
  BY <1>3, <1>4, FS_Injection
<1> QED
  BY <1>1, <1>5 DEF IInv, SlotsExact, SlotHolders

(* Eviction takes out at most one job. *)
LEMMA EvictsOne ==
  ASSUME NEW st, StoreOK(st)
  PROVE  \E v : \A x \in JobID \ {v} :
           evictOldestDoneLocked(st).byID[x] = st.byID[x]
<1> DEFINE i == Min(evictable(st))
           r == [st EXCEPT !.order = RemoveAt(st.order, i)]
<1>1. CASE evictable(st) = {}
  BY <1>1 DEF evictOldestDoneLocked
<1>2. CASE evictable(st) # {}
  <2>1. evictOldestDoneLocked(st) = deleteLocked(r, st.order[i])
    BY <1>2 DEF evictOldestDoneLocked
  <2>2. r.byID = st.byID /\ st.byID \in [JobID -> Job \cup {Absent}]
    BY DEF StoreOK, JobStore
  <2> HIDE DEF r
  <2>3. deleteLocked(r, st.order[i]).byID = [st.byID EXCEPT ![st.order[i]] = Absent]
    BY <2>2 DEF deleteLocked
  <2>4. \A x \in JobID \ {st.order[i]} :
          evictOldestDoneLocked(st).byID[x] = st.byID[x]
    BY <2>1, <2>2, <2>3
  <2> QED
    BY <2>4
<1> QED
  BY <1>1, <1>2

LEMMA CreatesOneEvictsOne ==
  ASSUME NEW st, StoreOK(st), NEW p \in Requests, NEW id \in JobID,
         st.byID[id] = Absent, st.byKey[cacheKey(p)] = NoJob
  PROVE  \E v : \A x \in JobID \ {id, v} : created(st, p, id).byID[x] = st.byID[x]
<1> DEFINE e == evictOldestDoneLocked(st)
<1>1. PICK v : \A x \in JobID \ {v} : e.byID[x] = st.byID[x]
  BY EvictsOne
<1>2. StoreOK(e)
  BY EvictOK
<1> HIDE DEF e
<1>3. ASSUME NEW b, StoreOK(b)
      PROVE  \A x \in JobID \ {id} : insert(b, p, id).byID[x] = b.byID[x]
  BY <1>3 DEF insert, StoreOK, JobStore
<1>4. \A x \in JobID \ {id, v} : created(st, p, id).byID[x] = st.byID[x]
  BY <1>1, <1>2, <1>3 DEF created, e
<1> QED
  BY <1>4
-----------------------------------------------------------------------------
(* Each action is a step of the cache, or none. *)

LEMMA StoresOK ==
  ASSUME IInv, IInv'
  PROVE  StoreOK(jobs) /\ StoreOK(jobs')
  BY DEF IInv, TypeOK, StoreConsistent, StoreOK

LEMMA PostCreateCache ==
  ASSUME IInv, IInv', NEW c \in Clients, NEW p \in Requests, PostCreate(c, p)
  PROVE  Cache!CacheNext
<1> DEFINE t == withDefaults(p)
           id == issued + 1
<1>1. /\ StoreOK(jobs) /\ StoreOK(jobs') /\ sweep' = sweep
      /\ jobs' = created(jobs, p, id) /\ jobs.byKey[t] = NoJob /\ t = cacheKey(p)
  BY StoresOK DEF PostCreate, cacheKey
<1>2. t \in Tuples
  BY DEF Tuples
<1>3. id \in JobID /\ jobs.byID[id] = Absent /\ sweep[id] = "none"
  <2>1. id \in JobID /\ id > issued
    BY TypeFacts DEF PostCreate, JobID
  <2> QED
    BY <2>1 DEF IInv, FreshIds
<1> HIDE DEF t, id
<1>4. /\ jobs'.byID[id] = [Status |-> "running", Params |-> t]
      /\ \A x \in JobID \ {id} : \/ jobs'.byID[x] = jobs.byID[x]
                                 \/ /\ jobs'.byID[x] = Absent
                                    /\ jobs.byID[x].Status # "running"
  BY <1>1, <1>3, CreatedOK DEF t
<1>5. PICK v : \A x \in JobID \ {id, v} : jobs'.byID[x] = jobs.byID[x]
  BY <1>1, <1>3, CreatesOneEvictsOne
<1>6. PhaseOf(jobs, sweep, t) = "none"
  BY <1>1, <1>2, KeyNamesJob, PhaseByJob
<1>7. PhaseOf(jobs', sweep', t) = "claimed"
  <2>1. JobFor(jobs', id, t)
    BY <1>4 DEF JobFor
  <2>2. sweep'[id] = "none" /\ jobs'.byID[id].Status = "running"
    BY <1>1, <1>3, <1>4
  <2> QED
    BY <1>1, <1>2, <1>3, <2>1, <2>2, PhaseByJob
<1>8. \A k \in Tuples \ {t} : ~JobFor(jobs, id, k) /\ ~JobFor(jobs', id, k)
  BY <1>3, <1>4 DEF JobFor, Absent
<1>9. CASE \E x \in JobID \ {id} : jobs'.byID[x] = Absent
                                  /\ jobs.byID[x].Status = "done"
  <2>1. PICK x \in JobID \ {id} : jobs'.byID[x] = Absent /\ jobs.byID[x].Status = "done"
    BY <1>9
  <2> DEFINE old == jobs.byID[x].Params
  <2>2. jobs.byID[x] # Absent
    BY <2>1 DEF Absent
  <2>3. x = v
    BY <1>5, <2>1, <2>2
  <2>4. old \in Tuples /\ JobFor(jobs, x, old)
    <3>1. x \in Present(jobs)
      BY <2>1 DEF Present
    <3> QED
      BY <1>1, <2>1, <3>1, JobFacts DEF StoreOK, JobFor
  <2>5. old # t
    BY <1>1, <1>2, <2>1, <2>4, KeyNamesJob
  <2>6. PhaseOf(jobs, sweep, old) = "done"
    BY <1>1, <2>1, <2>4, PhaseByJob
  <2>7. \A k \in Tuples : ~JobFor(jobs', x, k)
    BY <2>1 DEF JobFor, Absent
  <2>8. PhaseOf(jobs', sweep', old) = "none"
    <3>1. ASSUME NEW y \in JobID PROVE ~JobFor(jobs', y, old)
      <4>1. CASE y = id
        BY <1>8, <2>4, <2>5, <4>1
      <4>2. CASE y = x
        BY <2>4, <2>7, <4>2
      <4>3. CASE y # id /\ y # x
        <5>1. jobs'.byID[y] = jobs.byID[y]
          BY <1>5, <2>3, <4>3
        <5>2. ~JobFor(jobs, y, old)
          BY <1>1, <2>4, <4>3, KeyNamesJob
        <5> QED
          BY <5>1, <5>2 DEF JobFor
      <4> QED
        BY <4>1, <4>2, <4>3
    <3> QED
      BY <1>1, <2>4, <3>1, PhaseByJob
  <2>9. ASSUME NEW k \in Tuples \ {t, old}
        PROVE  PhaseOf(jobs', sweep', k) = PhaseOf(jobs, sweep, k)
    <3>1. \A y \in JobID \ {id, x} : jobs'.byID[y] = jobs.byID[y] /\ sweep'[y] = sweep[y]
      BY <1>1, <1>5, <2>3
    <3>2. ~JobFor(jobs, x, k) /\ ~JobFor(jobs', x, k)
      BY <2>7 DEF JobFor
    <3>3. ~JobFor(jobs, id, k) /\ ~JobFor(jobs', id, k)
      BY <1>8
    <3>4. \A y \in JobID : \/ jobs'.byID[y] = jobs.byID[y] /\ sweep'[y] = sweep[y]
                           \/ ~JobFor(jobs, y, k) /\ ~JobFor(jobs', y, k)
      BY <3>1, <3>2, <3>3
    <3> QED
      BY <1>1, <3>4, OthersKeepPhase
  <2> HIDE DEF old
  <2>10. Cache!ClaimEvicting(t, old)
    <3> DEFINE a == CacheOf(jobs, sweep)
               b == CacheOf(jobs', sweep')
    <3>1. a[t] = "none" /\ a[old] = "done"
      BY <1>2, <1>6, <2>4, <2>6 DEF CacheOf
    <3>2. b = [a EXCEPT ![t] = "claimed", ![old] = "none"]
      BY <1>2, <1>7, <2>4, <2>5, <2>8, <2>9 DEF CacheOf
    <3> HIDE DEF a, b
    <3> QED
      BY <3>1, <3>2, PhaseIsPhaseOf DEF Cache!ClaimEvicting, a, b
  <2> QED
    BY <1>2, <2>4, <2>5, <2>10 DEF Cache!CacheNext
<1>10. CASE \A x \in JobID \ {id} : jobs'.byID[x] = Absent => jobs.byID[x].Status # "done"
  <2>1. ASSUME NEW k \in Tuples \ {t}
        PROVE  PhaseOf(jobs', sweep', k) = PhaseOf(jobs, sweep, k)
    <3>1. ASSUME NEW x \in JobID
          PROVE  \/ jobs'.byID[x] = jobs.byID[x] /\ sweep'[x] = sweep[x]
                 \/ ~JobFor(jobs, x, k) /\ ~JobFor(jobs', x, k)
      <4>1. CASE x = id
        BY <1>8, <4>1
      <4>2. CASE x # id /\ jobs'.byID[x] # jobs.byID[x]
        BY <1>4, <1>10, <4>2 DEF JobFor, Absent
      <4>3. CASE jobs'.byID[x] = jobs.byID[x]
        BY <1>1, <4>3
      <4> QED
        BY <4>1, <4>2, <4>3
    <3> QED
      BY <1>1, <3>1, OthersKeepPhase
  <2>2. Cache!Claim(t)
    BY <1>2, <1>6, <1>7, <2>1, MoveStep DEF Cache!Claim
  <2> QED
    BY <1>2, <2>2 DEF Cache!CacheNext
<1> QED
  BY <1>9, <1>10

(* A step on one job that speaks for its tuple, in the old store or in the new. *)
LEMMA OneJobMoves ==
  ASSUME StoreOK(jobs), StoreOK(jobs'), NEW id \in JobID, NEW k \in Tuples,
         jobs.byID[id].Params = k,
         jobs'.byID[id].Params = k \/ jobs'.byID[id] = Absent,
         \A x \in JobID \ {id} : jobs'.byID[x] = jobs.byID[x] /\ sweep'[x] = sweep[x]
  PROVE  Cache!Move(k, PhaseOf(jobs, sweep, k), PhaseOf(jobs', sweep', k))
<1>1. ASSUME NEW j \in Tuples \ {k}
      PROVE  PhaseOf(jobs', sweep', j) = PhaseOf(jobs, sweep, j)
  <2>1. ~JobFor(jobs, id, j) /\ ~JobFor(jobs', id, j)
    BY DEF JobFor, Absent
  <2>2. \A x \in JobID : \/ jobs'.byID[x] = jobs.byID[x] /\ sweep'[x] = sweep[x]
                         \/ ~JobFor(jobs, x, j) /\ ~JobFor(jobs', x, j)
    BY <2>1
  <2> QED
    BY <2>2, OthersKeepPhase
<1> QED
  BY <1>1, MoveStep

(* The job of a running id speaks for its tuple. *)
LEMMA RunningSpeaks ==
  ASSUME NEW st, StoreOK(st), NEW id \in JobID, st.byID[id].Status = "running"
  PROVE  /\ st.byID[id].Params \in Tuples
         /\ JobFor(st, id, st.byID[id].Params)
<1>1. id \in Present(st)
  BY DEF Present
<1> QED
  BY <1>1, JobFacts DEF StoreOK, JobFor

LEMMA ReserveCache ==
  ASSUME IInv, IInv', NEW c \in Clients, Reserve(c)
  PROVE  Cache!CacheNext
<1> DEFINE id == client[c].id
           k == jobs.byID[id].Params
<1>1. /\ StoreOK(jobs) /\ StoreOK(jobs') /\ jobs' = jobs
      /\ sweep \in [JobID -> SweepPC] /\ sweep' = [sweep EXCEPT ![id] = "run"]
      /\ sweepSlots < maxConcurrentSweeps
  BY TypeFacts, StoresOK DEF Reserve
<1>2. id \in JobID /\ sweep[id] = "none" /\ jobs.byID[id].Status = "running"
  <2>1. client[c].pc # "ready"
    BY DEF Reserve
  <2>2. client[c].id \in JobID \cup {NoJob}
    BY TypeFacts DEF ClientState
  <2> QED
    BY <2>1, <2>2 DEF IInv, OpenRequests, Status
<1> HIDE DEF id
<1>3. k \in Tuples /\ JobFor(jobs, id, k)
  BY <1>1, <1>2, RunningSpeaks
<1>4. PhaseOf(jobs, sweep, k) = "claimed" /\ PhaseOf(jobs', sweep', k) = "running"
  <2>1. sweep'[id] = "run"
    BY <1>1, <1>2
  <2> QED
    BY <1>1, <1>2, <1>3, <2>1, PhaseByJob
<1>5. \A x \in JobID \ {id} : jobs'.byID[x] = jobs.byID[x] /\ sweep'[x] = sweep[x]
  BY <1>1
<1>6. jobs'.byID[id].Params = k
  BY <1>1
<1> HIDE DEF k
<1>7. Cache!Move(k, "claimed", "running")
  <2>1. jobs.byID[id].Params = k
    BY DEF k
  <2>2. Cache!Move(k, PhaseOf(jobs, sweep, k), PhaseOf(jobs', sweep', k))
    BY <1>1, <1>2, <1>3, <1>5, <1>6, <2>1, OneJobMoves
  <2> QED
    BY <1>4, <2>2
<1>8. Cardinality(Cache!Computing) < maxConcurrentSweeps
  <2>1. IsFiniteSet(Cache!Computing)
    BY ComputingHoldSlots
  <2>2. Cardinality(Cache!Computing) \in Nat
    BY <2>1, FS_CardinalityType
  <2>3. Cardinality(Cache!Computing) <= sweepSlots
    BY ComputingHoldSlots
  <2>4. sweepSlots \in Nat /\ maxConcurrentSweeps \in Nat
    BY TypeFacts
  <2> QED
    BY <1>1, <2>2, <2>3, <2>4
<1>9. Cache!Start(k)
  BY <1>7, <1>8, SameCardinality DEF Cache!Start
<1> QED
  BY <1>3, <1>9 DEF Cache!CacheNext

LEMMA RollbackCache ==
  ASSUME IInv, IInv', NEW c \in Clients, Rollback(c)
  PROVE  Cache!CacheNext
<1> DEFINE id == client[c].id
           k == jobs.byID[id].Params
<1>1. StoreOK(jobs) /\ StoreOK(jobs') /\ jobs' = remove(jobs, id) /\ sweep' = sweep
  BY StoresOK DEF Rollback
<1>2. id \in JobID /\ sweep[id] = "none" /\ jobs.byID[id].Status = "running"
  <2>1. client[c].pc # "ready"
    BY DEF Rollback
  <2>2. client[c].id \in JobID \cup {NoJob}
    BY TypeFacts DEF ClientState
  <2> QED
    BY <2>1, <2>2 DEF IInv, OpenRequests, Status
<1> HIDE DEF id
<1>3. k \in Tuples /\ JobFor(jobs, id, k)
  BY <1>1, <1>2, RunningSpeaks
<1>4. jobs'.byID = [jobs.byID EXCEPT ![id] = Absent]
  BY <1>1, <1>2, RemoveOK
<1>5. /\ jobs'.byID[id] = Absent
      /\ \A x \in JobID \ {id} : jobs'.byID[x] = jobs.byID[x] /\ sweep'[x] = sweep[x]
  BY <1>1, <1>2, <1>4, TypeFacts
<1>6. jobs.byID[id].Params = k
  OBVIOUS
<1> HIDE DEF k
<1>7. PhaseOf(jobs, sweep, k) = "claimed"
  BY <1>1, <1>2, <1>3, PhaseByJob
<1>8. PhaseOf(jobs', sweep', k) = "none"
  <2>1. ASSUME NEW x \in JobID PROVE ~JobFor(jobs', x, k)
    <3>1. CASE x = id
      BY <1>5, <3>1 DEF JobFor, Absent
    <3>2. CASE x # id
      <4>1. ~JobFor(jobs, x, k)
        BY <1>1, <1>2, <1>3, <3>2, KeyNamesJob
      <4> QED
        BY <1>5, <3>2, <4>1 DEF JobFor
    <3> QED
      BY <3>1, <3>2
  <2> QED
    BY <1>1, <1>3, <2>1, PhaseByJob
<1>9. Cache!Move(k, PhaseOf(jobs, sweep, k), PhaseOf(jobs', sweep', k))
  BY <1>1, <1>2, <1>3, <1>5, <1>6, OneJobMoves
<1> QED
  BY <1>3, <1>7, <1>8, <1>9 DEF Cache!CacheNext, Cache!Abandon

(* A goroutine records the outcome of its run. *)
LEMMA SettleCache ==
  ASSUME IInv, IInv', NEW id \in JobID, NEW status \in {"done", "failed"},
         sweep[id] \in {"run", "recovering"}, sweep[id] = "recovering" => status = "failed",
         jobs' = complete(jobs, id, status),
         \A x \in JobID \ {id} : sweep'[x] = sweep[x]
  PROVE  Cache!CacheNext
<1> DEFINE k == jobs.byID[id].Params
<1>1. StoreOK(jobs) /\ StoreOK(jobs') /\ jobs.byID[id].Status = "running"
  BY StoresOK DEF IInv, SweepsHaveJobs, Status
<1>2. k \in Tuples /\ JobFor(jobs, id, k)
  BY <1>1, RunningSpeaks
<1>3. /\ jobs'.byID[id] = [Status |-> status, Params |-> k]
      /\ \A x \in JobID \ {id} : jobs'.byID[x] = jobs.byID[x]
  BY <1>1, CompleteOK
<1>4. jobs.byID[id].Params = k
  OBVIOUS
<1> HIDE DEF k
<1>5. PhaseOf(jobs, sweep, k) = IF sweep[id] = "run" THEN "running" ELSE "failing"
  BY <1>1, <1>2, PhaseByJob
<1>6. PhaseOf(jobs', sweep', k) = IF status = "done" THEN "done" ELSE "none"
  <2>1. CASE status = "done"
    <3>1. JobFor(jobs', id, k) /\ jobs'.byID[id].Status = "done"
      BY <1>3, <2>1 DEF JobFor
    <3> QED
      BY <1>1, <1>2, <2>1, <3>1, PhaseByJob
  <2>2. CASE status = "failed"
    <3>1. ASSUME NEW x \in JobID PROVE ~JobFor(jobs', x, k)
      <4>1. CASE x = id
        BY <1>3, <2>2, <4>1 DEF JobFor
      <4>2. CASE x # id
        <5>1. ~JobFor(jobs, x, k)
          BY <1>1, <1>2, <4>2, KeyNamesJob
        <5> QED
          BY <1>3, <4>2, <5>1 DEF JobFor
      <4> QED
        BY <4>1, <4>2
    <3> QED
      BY <1>1, <1>2, <2>2, <3>1, PhaseByJob
  <2> QED
    BY <2>1, <2>2
<1>7. Cache!Move(k, PhaseOf(jobs, sweep, k), PhaseOf(jobs', sweep', k))
  <2>1. jobs'.byID[id].Params = k
    BY <1>3
  <2> QED
    BY <1>1, <1>2, <1>3, <1>4, <2>1, OneJobMoves
<1>8. Cache!Finish(k) \/ Cache!Fail(k)
  BY <1>5, <1>6, <1>7 DEF Cache!Finish, Cache!Fail
<1> QED
  BY <1>2, <1>8 DEF Cache!CacheNext

(* The deferred function returns the slot: after a panic the failure is still to be
   recorded, which the cache calls a crash. *)
LEMMA ReleaseSlotCache ==
  ASSUME IInv, IInv', NEW id \in JobID, ReleaseSlot(id)
  PROVE  Cache!CacheNext \/ UNCHANGED [k \in Tuples |-> phase(k)]
<1>1. /\ StoreOK(jobs) /\ StoreOK(jobs') /\ jobs' = jobs
      /\ sweep \in [JobID -> SweepPC]
      /\ sweep' = [sweep EXCEPT ![id] = IF @ = "panicked" THEN "recovering" ELSE "ended"]
  BY TypeFacts, StoresOK DEF ReleaseSlot
<1>2. \A x \in JobID \ {id} : jobs'.byID[x] = jobs.byID[x] /\ sweep'[x] = sweep[x]
  BY <1>1
<1>3. CASE sweep[id] = "panicked"
  <2> DEFINE k == jobs.byID[id].Params
  <2>1. jobs.byID[id].Status = "running"
    BY <1>3 DEF IInv, SweepsHaveJobs, Status
  <2>2. k \in Tuples /\ JobFor(jobs, id, k)
    BY <1>1, <2>1, RunningSpeaks
  <2>3. sweep'[id] = "recovering"
    BY <1>1, <1>3
  <2>4. PhaseOf(jobs, sweep, k) = "running" /\ PhaseOf(jobs', sweep', k) = "failing"
    BY <1>1, <1>3, <2>1, <2>2, <2>3, PhaseByJob
  <2>5. jobs.byID[id].Params = k /\ jobs'.byID[id].Params = k
    BY <1>1
  <2> HIDE DEF k
  <2>6. Cache!Move(k, PhaseOf(jobs, sweep, k), PhaseOf(jobs', sweep', k))
    BY <1>1, <1>2, <2>2, <2>5, OneJobMoves
  <2> QED
    BY <2>2, <2>4, <2>6 DEF Cache!CacheNext, Cache!Crash
<1>4. CASE sweep[id] = "release"
  <2>1. sweep'[id] = "ended"
    BY <1>1, <1>4
  <2>2. \A k \in Tuples : PhaseOf(jobs', sweep', k) = PhaseOf(jobs, sweep, k)
    BY <1>1, <1>2, <1>4, <2>1 DEF PhaseOf, StoreOK, JobStore
  <2> QED
    BY <2>2, CacheStutters
<1> QED
  BY <1>3, <1>4 DEF ReleaseSlot

LEMMA SweepPanicsCache ==
  ASSUME IInv, IInv', NEW id \in JobID, SweepPanics(id)
  PROVE  UNCHANGED [k \in Tuples |-> phase(k)]
<1>1. /\ StoreOK(jobs) /\ jobs' = jobs /\ sweep \in [JobID -> SweepPC]
      /\ sweep[id] = "run" /\ sweep' = [sweep EXCEPT ![id] = "panicked"]
  BY TypeFacts DEF SweepPanics
<1>2. /\ sweep'[id] = "panicked"
      /\ \A x \in JobID \ {id} : sweep'[x] = sweep[x]
  BY <1>1
<1>3. \A k \in Tuples : PhaseOf(jobs', sweep', k) = PhaseOf(jobs, sweep, k)
  BY <1>1, <1>2 DEF PhaseOf, StoreOK, JobStore
<1> QED
  BY <1>3, CacheStutters

LEMMA StoreAndSweepsStay ==
  ASSUME UNCHANGED <<jobs, sweep>>
  PROVE  UNCHANGED [k \in Tuples |-> phase(k)]
  BY PhaseIsPhaseOf

(* Job ids, handlers, goroutines and slots together are the cache of tuples of
   ResultCache: a tuple is computed by one run at a time and by at most
   maxConcurrentSweeps at once, served only when done, and forgotten only on a
   rollback, a failure or an eviction. *)
THEOREM ImplementsResultCache == Spec => ImplementsCache
<1>1. Init => Cache!CacheInit
  <2>1. ASSUME Init PROVE [k \in Tuples |-> phase(k)] = [k \in Tuples |-> "none"]
    <3>1. \A k \in Tuples : jobs.byKey[k] = NoJob
      BY <2>1 DEF Init, newJobStore
    <3>2. \A k \in Tuples : phase(k) = "none"
      BY <3>1 DEF phase
    <3> QED
      BY <3>2
  <2> QED
    BY <2>1 DEF Cache!CacheInit
<1>2. ASSUME IInv, IInv', [Next]_vars
      PROVE  [Cache!CacheNext]_([k \in Tuples |-> phase(k)])
  <2>1. CASE UNCHANGED vars
    BY <2>1, StoreAndSweepsStay DEF vars
  <2>2. ASSUME NEW c \in Clients, Handler(c)
        PROVE  [Cache!CacheNext]_([k \in Tuples |-> phase(k)])
    <3>1. CASE ReserveFull(c)
      BY <3>1, StoreAndSweepsStay DEF ReserveFull
    <3> QED
      BY <1>2, <2>2, <3>1, ReserveCache, RollbackCache DEF Handler
  <2>3. ASSUME NEW c \in Clients, ClientStep(c)
        PROVE  [Cache!CacheNext]_([k \in Tuples |-> phase(k)])
    <3>1. ASSUME NEW p \in Requests, PostCreate(c, p) PROVE Cache!CacheNext
      BY <1>2, <3>1, PostCreateCache
    <3>2. CASE Refuse(c) \/ Poll(c) \/ \E p \in Requests : PostCached(c, p)
      BY <3>2, StoreAndSweepsStay DEF Refuse, Poll, PostCached
    <3> QED
      BY <2>3, <3>1, <3>2 DEF ClientStep
  <2>4. ASSUME NEW id \in JobID, Goroutine(id)
        PROVE  [Cache!CacheNext]_([k \in Tuples |-> phase(k)])
    <3>1. ASSUME NEW status \in {"done", "failed"}, SweepReturns(id, status)
          PROVE  Cache!CacheNext
      <4>1. \A x \in JobID \ {id} : sweep'[x] = sweep[x]
        BY <1>2, <3>1, TypeFacts DEF SweepReturns
      <4> QED
        BY <1>2, <3>1, <4>1, SettleCache DEF SweepReturns
    <3>2. CASE RecoverPanic(id)
      <4>1. \A x \in JobID \ {id} : sweep'[x] = sweep[x]
        BY <1>2, <3>2, TypeFacts DEF RecoverPanic
      <4> QED
        BY <1>2, <3>2, <4>1, SettleCache DEF RecoverPanic
    <3> QED
      BY <1>2, <2>4, <3>1, <3>2, SweepPanicsCache, ReleaseSlotCache DEF Goroutine
  <2> QED
    BY <1>2, <2>1, <2>2, <2>3, <2>4 DEF Next
<1> QED
  BY <1>1, <1>2, InvariantHolds, PTL DEF Spec, ImplementsCache, Cache!CacheSpec
-----------------------------------------------------------------------------
(* What a client was told stays true. *)

\* A final answer still describes the job, or the job is gone.
RepliesTrue ==
  \A c \in Clients : client[c].id # NoJob =>
    /\ client[c].reply \in {"done", "failed"} =>
         Status(client[c].id) \in {client[c].reply, "absent"}
    /\ client[c].reply = "notFound" => Status(client[c].id) = "absent"

(* An id that was handed out never leaves a settled status but to disappear, and never
   comes back. *)
LEMMA SettledStays ==
  ASSUME IInv, [Next]_vars, NEW x \in JobID, x <= issued
  PROVE  /\ Status(x) \in {"done", "failed"} => Status(x)' \in {Status(x), "absent"}
         /\ Status(x) = "absent" => Status(x)' = "absent"
<1> USE DEF Status
<1>1. ASSUME jobs' = jobs
      PROVE  /\ Status(x) \in {"done", "failed"} => Status(x)' \in {Status(x), "absent"}
             /\ Status(x) = "absent" => Status(x)' = "absent"
  BY <1>1
<1>2. ASSUME NEW id \in JobID, NEW status \in {"done", "failed"},
             sweep[id] \in {"run", "recovering"}, jobs' = complete(jobs, id, status)
      PROVE  /\ Status(x) \in {"done", "failed"} => Status(x)' \in {Status(x), "absent"}
             /\ Status(x) = "absent" => Status(x)' = "absent"
  <2>1. StoreOK(jobs) /\ jobs.byID[id].Status = "running"
    BY <1>2, TypeFacts DEF IInv, SweepsHaveJobs
  <2>2. \A y \in JobID \ {id} : jobs'.byID[y] = jobs.byID[y]
    BY <1>2, <2>1, CompleteOK
  <2>3. CASE x = id
    BY <2>1, <2>3
  <2>4. CASE x # id
    BY <2>2, <2>4
  <2> QED
    BY <2>3, <2>4
<1>3. ASSUME NEW c \in Clients, NEW p \in Requests, PostCreate(c, p)
      PROVE  /\ Status(x) \in {"done", "failed"} => Status(x)' \in {Status(x), "absent"}
             /\ Status(x) = "absent" => Status(x)' = "absent"
  <2>1. /\ issued + 1 \in JobID /\ issued + 1 > issued /\ x # issued + 1
        /\ StoreOK(jobs)
    BY <1>3, TypeFacts DEF PostCreate, JobID
  <2>2. jobs.byID[issued + 1] = Absent
    BY <2>1 DEF IInv, FreshIds
  <2>3. jobs' = created(jobs, p, issued + 1) /\ jobs.byKey[cacheKey(p)] = NoJob
    BY <1>3 DEF PostCreate
  <2>4. \A y \in JobID \ {issued + 1} :
          jobs'.byID[y] = jobs.byID[y] \/ jobs'.byID[y] = Absent
    BY <2>1, <2>2, <2>3, CreatedOK
  <2> QED
    BY <2>1, <2>4 DEF Absent
<1>4. ASSUME NEW c \in Clients, Rollback(c)
      PROVE  /\ Status(x) \in {"done", "failed"} => Status(x)' \in {Status(x), "absent"}
             /\ Status(x) = "absent" => Status(x)' = "absent"
  <2>1. client[c].id \in JobID /\ StoreOK(jobs)
    <3>1. client[c].pc # "ready"
      BY <1>4 DEF Rollback
    <3>2. client[c].id # NoJob
      BY <3>1 DEF IInv, OpenRequests
    <3>3. client[c].id \in JobID \cup {NoJob}
      BY TypeFacts DEF ClientState
    <3> QED
      BY <3>2, <3>3, TypeFacts
  <2>2. jobs'.byID = [jobs.byID EXCEPT ![client[c].id] = Absent]
    BY <1>4, <2>1, RemoveOK DEF Rollback
  <2>3. jobs'.byID[x] = jobs.byID[x] \/ jobs'.byID[x] = Absent
    BY <2>2, TypeFacts
  <2> QED
    BY <2>3 DEF Absent
<1>5. ASSUME NEW c \in Clients, Handler(c) \/ ClientStep(c)
      PROVE  \/ jobs' = jobs \/ Rollback(c)
             \/ \E p \in Requests : PostCreate(c, p)
  BY <1>5 DEF Handler, ClientStep, Reserve, ReserveFull, Refuse, PostCached, Poll
<1>6. ASSUME NEW id \in JobID, Goroutine(id)
      PROVE  \/ jobs' = jobs
             \/ \E status \in {"done", "failed"} :
                  sweep[id] \in {"run", "recovering"} /\ jobs' = complete(jobs, id, status)
  BY <1>6 DEF Goroutine, SweepReturns, SweepPanics, ReleaseSlot, RecoverPanic
<1>7. CASE UNCHANGED vars
  BY <1>1, <1>7 DEF vars
<1>8. CASE \E c \in Clients : Handler(c) \/ ClientStep(c)
  BY <1>1, <1>3, <1>4, <1>5, <1>8
<1>9. CASE \E id \in JobID : Goroutine(id)
  BY <1>1, <1>2, <1>6, <1>9
<1> QED
  BY <1>7, <1>8, <1>9 DEF Next

(* How the id and the answer a client holds may change: not at all, to none, to a job
   not answered for yet, or to what the store says. *)
LEMMA ClientMoves ==
  ASSUME IInv, [Next]_vars, NEW d \in Clients
  PROVE  \/ client'[d].id = client[d].id /\ client'[d].reply = client[d].reply
         \/ client'[d].id = NoJob
         \/ client'[d].id = issued + 1 /\ client'[d].reply = "none"
         \/ /\ jobs' = jobs /\ client'[d].id \in JobID
            /\ client'[d].reply = IF Status(client'[d].id) = "absent" THEN "notFound"
                                  ELSE Status(client'[d].id)
<1> DEFINE Moves == \/ client'[d].id = client[d].id /\ client'[d].reply = client[d].reply
                    \/ client'[d].id = NoJob
                    \/ client'[d].id = issued + 1 /\ client'[d].reply = "none"
                    \/ /\ jobs' = jobs /\ client'[d].id \in JobID
                       /\ client'[d].reply =
                            IF Status(client'[d].id) = "absent" THEN "notFound"
                            ELSE Status(client'[d].id)
<1>1. client \in [Clients -> ClientState] /\ StoreOK(jobs)
  BY TypeFacts
<1>2. CASE client' = client
  BY <1>2
<1>3. ASSUME NEW c \in Clients, c # d,
             \E r : client' = [client EXCEPT ![c] = r]
      PROVE  Moves
  BY <1>1, <1>3
<1>4. ASSUME NEW c \in Clients, Refuse(c) \/ Rollback(c) PROVE Moves
  <2>1. CASE c # d
    BY <1>3, <1>4, <2>1 DEF Refuse, Rollback
  <2>2. CASE c = d
    BY <1>1, <1>4, <2>2 DEF Refuse, Rollback
  <2> QED
    BY <2>1, <2>2
<1>5. ASSUME NEW c \in Clients, NEW p \in Requests, PostCreate(c, p) PROVE Moves
  <2>1. CASE c # d
    BY <1>3, <1>5, <2>1 DEF PostCreate
  <2>2. CASE c = d
    BY <1>1, <1>5, <2>2 DEF PostCreate
  <2> QED
    BY <2>1, <2>2
<1>6. ASSUME NEW c \in Clients, NEW p \in Requests, PostCached(c, p) PROVE Moves
  <2> DEFINE id == jobs.byKey[cacheKey(p)]
             t == cacheKey(p)
  <2>1. CASE c # d
    BY <1>3, <1>6, <2>1 DEF PostCached
  <2>2. CASE c = d
    <3>1. t \in Tuples
      BY DEF cacheKey, Tuples
    <3>2. id \in JobID /\ Status(id) \in {"running", "done"}
      <4>1. id # NoJob
        BY <1>6 DEF PostCached
      <4>2. jobs.byKey \in [Tuples -> JobID \cup {NoJob}]
        BY TypeFacts
      <4>3. id \in JobID \cup {NoJob}
        BY <3>1, <4>2
      <4> HIDE DEF t
      <4>4. jobs.byID[jobs.byKey[t]].Status \in {"running", "done"}
        BY <1>1, <3>1, <4>1 DEF StoreOK, KeysAgree, t
      <4> QED
        BY <4>1, <4>3, <4>4 DEF Status, t
    <3>3. jobs' = jobs /\ client'[d].id = id /\ client'[d].reply = Status(id)
      BY <1>1, <1>6, <2>2 DEF PostCached
    <3> HIDE DEF id
    <3> QED
      BY <3>2, <3>3
  <2> QED
    BY <2>1, <2>2
<1>7. ASSUME NEW c \in Clients, Poll(c) PROVE Moves
  <2>1. CASE c # d
    BY <1>3, <1>7, <2>1 DEF Poll
  <2>2. CASE c = d
    <3>1. /\ jobs' = jobs /\ client'[d].id = client[d].id /\ client[d].id # NoJob
          /\ client'[d].reply = IF jobs.byID[client[d].id] = Absent THEN "notFound"
                                ELSE Status(client[d].id)
      BY <1>1, <1>7, <2>2 DEF Poll, ClientState
    <3>2. client[d].id \in JobID
      BY <1>1, <3>1 DEF ClientState
    <3>3. jobs.byID[client[d].id] = Absent <=> Status(client[d].id) = "absent"
      <4>1. jobs \in JobStore
        BY TypeFacts
      <4> QED
        BY <3>2, <4>1, JobFacts DEF Status, Present
    <3> QED
      BY <3>1, <3>2, <3>3
  <2> QED
    BY <2>1, <2>2
<1>8. ASSUME NEW c \in Clients, Reserve(c) PROVE Moves
  <2>1. client[c].id \in JobID /\ Status(client[c].id) = "running"
    BY <1>1, <1>8 DEF Reserve, IInv, OpenRequests, ClientState
  <2>2. CASE c # d
    <3>1. client'[d] = client[d]
      BY <1>1, <1>8, <2>2 DEF Reserve
    <3> QED
      BY <3>1
  <2>3. CASE c = d
    <3>1. jobs' = jobs /\ client'[d].id = client[d].id /\ client'[d].reply = "running"
      BY <1>1, <1>8, <2>3 DEF Reserve, ClientState
    <3> QED
      BY <2>1, <2>3, <3>1
  <2> QED
    BY <2>2, <2>3
<1>9. ASSUME NEW c \in Clients, ReserveFull(c) PROVE Moves
  <2>1. client'[d].id = client[d].id /\ client'[d].reply = client[d].reply
    BY <1>1, <1>9 DEF ReserveFull, ClientState
  <2> QED
    BY <2>1
<1>10. ASSUME NEW c \in Clients, Handler(c) PROVE Moves
  BY <1>4, <1>8, <1>9, <1>10 DEF Handler
<1>11. ASSUME NEW c \in Clients, ClientStep(c) PROVE Moves
  BY <1>4, <1>5, <1>6, <1>7, <1>11 DEF ClientStep
<1>12. ASSUME NEW id \in JobID, Goroutine(id) PROVE client' = client
  BY <1>12 DEF Goroutine, SweepReturns, SweepPanics, ReleaseSlot, RecoverPanic
<1>13. CASE UNCHANGED vars
  BY <1>2, <1>13 DEF vars
<1>14. Moves
  BY <1>2, <1>10, <1>11, <1>12, <1>13 DEF Next
<1> QED
  BY <1>14

LEMMA RepliesStayTrue ==
  ASSUME IInv, RepliesTrue, [Next]_vars
  PROVE  /\ RepliesTrue'
         /\ \A c \in Clients :
              client[c].id = client'[c].id /\ client[c].id # NoJob =>
                /\ client[c].reply \in {"done", "failed"} =>
                     client'[c].reply \in {client[c].reply, "notFound"}
                /\ client[c].reply = "notFound" => client'[c].reply = "notFound"
<1>1. ASSUME NEW c \in Clients, client[c].id # NoJob
      PROVE  client[c].id \in JobID /\ client[c].id <= issued
  BY <1>1, TypeFacts DEF ClientState, IInv, FreshIds
<1>2. ASSUME NEW c \in Clients, client'[c].id # NoJob
      PROVE  /\ client'[c].reply \in {"done", "failed"} =>
                  jobs'.byID[client'[c].id].Status \in {client'[c].reply, "absent"}
             /\ client'[c].reply = "notFound" =>
                  jobs'.byID[client'[c].id].Status = "absent"
  <2>1. CASE client'[c].id = client[c].id /\ client'[c].reply = client[c].reply
    <3>1. /\ client[c].reply \in {"done", "failed"} =>
               Status(client[c].id) \in {client[c].reply, "absent"}
          /\ client[c].reply = "notFound" => Status(client[c].id) = "absent"
      BY <1>2, <2>1 DEF RepliesTrue
    <3>2. client[c].id \in JobID /\ client[c].id <= issued
      BY <1>1, <1>2, <2>1
    <3>3. /\ Status(client[c].id) \in {"done", "failed"} =>
               jobs'.byID[client[c].id].Status \in {Status(client[c].id), "absent"}
          /\ Status(client[c].id) = "absent" =>
               jobs'.byID[client[c].id].Status = "absent"
      <4>1. \A x \in JobID : x <= issued =>
              /\ Status(x) \in {"done", "failed"} =>
                   jobs'.byID[x].Status \in {Status(x), "absent"}
              /\ Status(x) = "absent" => jobs'.byID[x].Status = "absent"
        BY SettledStays DEF Status
      <4> QED
        BY <3>2, <4>1
    <3> QED
      BY <2>1, <3>1, <3>3
  <2>2. CASE /\ jobs' = jobs /\ client'[c].id \in JobID
             /\ client'[c].reply = IF Status(client'[c].id) = "absent" THEN "notFound"
                                   ELSE Status(client'[c].id)
    <3>1. jobs.byID[client'[c].id].Status \in JobStatus \cup {"absent"}
      BY <2>2, TypeFacts, JobFacts DEF Job, Absent
    <3> QED
      BY <2>2, <3>1 DEF Status, JobStatus
  <2>3. CASE client'[c].id = issued + 1 /\ client'[c].reply = "none"
    BY <2>3
  <2> QED
    BY <1>2, <2>1, <2>2, <2>3, ClientMoves
<1>3. ASSUME NEW c \in Clients, client[c].id = client'[c].id, client[c].id # NoJob
      PROVE  /\ client[c].reply \in {"done", "failed"} =>
                  client'[c].reply \in {client[c].reply, "notFound"}
             /\ client[c].reply = "notFound" => client'[c].reply = "notFound"
  <2>1. client[c].id # issued + 1
    BY <1>1, <1>3, TypeFacts DEF JobID
  <2>2. CASE /\ jobs' = jobs /\ client'[c].id \in JobID
             /\ client'[c].reply = IF Status(client'[c].id) = "absent" THEN "notFound"
                                   ELSE Status(client'[c].id)
    <3>1. client'[c].reply = IF Status(client[c].id) = "absent" THEN "notFound"
                             ELSE Status(client[c].id)
      BY <1>3, <2>2 DEF Status
    <3> QED
      BY <1>3, <3>1 DEF RepliesTrue
  <2> QED
    BY <1>3, <2>1, <2>2, ClientMoves
<1>4. RepliesTrue'
  BY <1>2 DEF RepliesTrue, Status
<1> QED
  BY <1>3, <1>4

(* Between two polls of one job a client never hears that a settled job changed its
   mind or that a forgotten one came back. *)
THEOREM AnswersAlwaysFinal == Spec => AnswersAreFinal
<1>1. Init => RepliesTrue
  BY DEF Init, RepliesTrue
<1>2. ASSUME IInv, RepliesTrue, [Next]_vars
      PROVE  RepliesTrue' /\
             [\A c \in Clients :
                client[c].id = client'[c].id /\ client[c].id # NoJob =>
                  /\ client[c].reply \in {"done", "failed"} =>
                       client'[c].reply \in {client[c].reply, "notFound"}
                  /\ client[c].reply = "notFound" => client'[c].reply = "notFound"]_vars
  BY <1>2, RepliesStayTrue
<1> QED
  BY <1>1, <1>2, InvariantHolds, PTL DEF Spec, AnswersAreFinal
=============================================================================
