---------------------------- MODULE StreamProofs ----------------------------
(***************************************************************************)
(* Proofs about the two ends of /stream.                                    *)
(*                                                                         *)
(* What a viewer sees is exact, for any number of algorithms, segments,     *)
(* buckets and ticks, and any interleaving of the simulations, the replay   *)
(* and the peer; and one connection implements its part of StreamAdmission. *)
(* First the pure functions, then one lemma per step.                       *)
(*                                                                         *)
(* The browser's session agrees with itself, for any sliders, values and    *)
(* number of connections, however the user and the socket's events follow   *)
(* one another.  The two effects of a render see the same status; what      *)
(* makes that harmless is StopIsDue: a terminal status that is not yet      *)
(* rendered makes the next render stop the run.                             *)
(***************************************************************************)
EXTENDS LiveStream, WebSession, SequenceTheorems, FiniteSetTheorems, WellFoundedInduction,
        NaturalsInduction, TLAPS

-----------------------------------------------------------------------------
(* Bounds. *)

\* A nonempty set of naturals has a smallest element.
LEMMA SmallestExists ==
  ASSUME NEW I, I \subseteq Nat, I # {}
  PROVE  \E m \in I : \A i \in I : m <= i
<1> DEFINE R == OpToRel(<, Nat)
<1>1. IsWellFoundedOn(R, Nat)
  BY NatLessThanWellFounded
<1>2. \A x, y \in Nat : x < y => <<x, y>> \in R
  BY DEF OpToRel
<1> HIDE DEF R
<1>3. PICK m \in I : \A i \in I : ~(<<i, m>> \in R)
  BY <1>1, WFMin
<1>4. ASSUME NEW i \in I PROVE m <= i
  <2>1. i \in Nat /\ m \in Nat /\ ~(<<i, m>> \in R)
    BY <1>3
  <2> QED
    BY <1>2, <2>1
<1> QED
  BY <1>4

\* A nonempty set of naturals with an upper bound has its maximum.
LEMMA MaxExists ==
  ASSUME NEW I, I \subseteq Nat, I # {}, NEW b \in Nat, \A i \in I : i <= b
  PROVE  Max(I) \in I /\ \A i \in I : i <= Max(I)
<1> DEFINE U == {u \in Nat : \A i \in I : i <= u}
<1>1. PICK m \in U : \A u \in U : m <= u
  BY SmallestExists
<1>2. m \in I
  <2>1. SUFFICES ASSUME m \notin I PROVE FALSE
    OBVIOUS
  <2>2. \A i \in I : i \in Nat /\ i <= m /\ i # m
    BY <1>1, <2>1
  <2>3. m \in Nat /\ m # 0
    <3>1. PICK i \in I : TRUE
      OBVIOUS
    <3> QED
      BY <1>1, <2>2, <3>1
  <2>4. m - 1 \in Nat /\ \A i \in I : i <= m - 1
    BY <2>2, <2>3
  <2>5. m - 1 \in U
    BY <2>4 DEF U
  <2> QED
    BY <1>1, <2>3, <2>5
<1>3. \A i \in I : m >= i
  BY <1>1
<1> QED
  BY <1>2, <1>3 DEF Max

\* No simulation has more ticks than LastTick.
LEMMA LastTickBounds == LastTick \in Nat /\ \A a \in Algos : MaxTicks[a] <= LastTick
<1> DEFINE Bounded(i) == \E b \in Nat : \A j \in 1 .. i : MaxTicks[RouterOrder[j]] <= b
           Bad == {i \in 0 .. n : ~Bounded(i)}
<1>1. n \in Nat /\ n # 0 /\ RouterOrder \in Seq(Algos) /\ DOMAIN RouterOrder = 1 .. n
  BY OrderAssumption, EmptySeq DEF n
<1>2. \A j \in 1 .. n : MaxTicks[RouterOrder[j]] \in Nat
  BY <1>1, NumbersAssumption
<1>3. Bounded(0)
  <2>1. \A j \in 1 .. 0 : MaxTicks[RouterOrder[j]] <= 0
    OBVIOUS
  <2> QED
    BY <2>1
<1>4. ASSUME NEW m \in 1 .. n, Bounded(m - 1) PROVE Bounded(m)
  <2>1. PICK b \in Nat : \A j \in 1 .. m - 1 : MaxTicks[RouterOrder[j]] <= b
    BY <1>4
  <2>2. MaxTicks[RouterOrder[m]] \in Nat
    BY <1>2
  <2>3. PICK c \in Nat : b <= c /\ MaxTicks[RouterOrder[m]] <= c
    <3>1. CASE b <= MaxTicks[RouterOrder[m]]
      BY <2>2, <3>1
    <3>2. CASE MaxTicks[RouterOrder[m]] <= b
      BY <2>2, <3>2
    <3> QED
      BY <2>2, <3>1, <3>2
  <2>4. ASSUME NEW j \in 1 .. m PROVE MaxTicks[RouterOrder[j]] <= c
    <3>1. CASE j = m
      BY <3>1, <2>3
    <3>2. CASE j # m
      <4>1. j \in 1 .. m - 1 /\ MaxTicks[RouterOrder[j]] \in Nat
        BY <3>2, <1>1, <1>2
      <4> QED
        BY <4>1, <2>1, <2>3
    <3> QED
      BY <3>1, <3>2
  <2> QED
    BY <2>4
<1> HIDE DEF Bounded
<1>5. Bad = {}
  <2>1. SUFFICES ASSUME Bad # {} PROVE FALSE
    OBVIOUS
  <2>2. Bad \subseteq Nat
    BY <1>1
  <2>3. PICK m \in Bad : \A i \in Bad : m <= i
    BY <2>1, <2>2, SmallestExists
  <2>4. m \in 1 .. n /\ m - 1 \in 0 .. n /\ ~(m <= m - 1)
    BY <2>3, <1>1, <1>3
  <2>5. Bounded(m - 1)
    BY <2>3, <2>4
  <2> QED
    BY <2>3, <2>4, <2>5, <1>4
<1>6. Bounded(n)
  BY <1>1, <1>5
<1>7. PICK b \in Nat : \A j \in 1 .. n : MaxTicks[RouterOrder[j]] <= b
  BY <1>6 DEF Bounded
<1>8. \A a \in Algos : \E j \in 1 .. n : a = RouterOrder[j]
  BY <1>1 DEF Algos, ToSet
<1> DEFINE T == {MaxTicks[a] : a \in Algos}
<1>9. T \subseteq Nat /\ T # {} /\ \A t \in T : t <= b
  BY <1>1, <1>2, <1>7, <1>8
<1>10. Max(T) \in T /\ \A t \in T : t <= Max(T)
  BY <1>9, MaxExists
<1> QED
  BY <1>9, <1>10 DEF LastTick

\* The clock of the replay: the smaller of where it would be and where it stops.
LEMMA SmallerOfTwo ==
  ASSUME NEW x \in Nat, NEW y \in Nat
  PROVE  Min({x, y}) \in {x, y} /\ Min({x, y}) <= x /\ Min({x, y}) <= y
<1>1. \E m \in {x, y} : \A i \in {x, y} : m <= i
  BY SmallestExists
<1>2. Min({x, y}) \in {x, y} /\ \A i \in {x, y} : Min({x, y}) <= i
  BY <1>1 DEF Min
<1> QED
  BY <1>2

-----------------------------------------------------------------------------
(* Buckets, deltas and the client's fold. *)

LEMMA PartialBucketsElements ==
  \A f : f \in PartialBuckets <=> \E S \in SUBSET Segments : f \in [S -> Buckets]
BY DEF PartialBuckets

LEMMA BucketOfType == ASSUME NEW vc \in Nat PROVE bucketOf(vc) \in Buckets
<1>1. vcBucketCount \in Nat \ {0} /\ vc \div 2 \in Nat
  BY NumbersAssumption
<1> QED
  BY <1>1 DEF bucketOf, Buckets

LEMMA BucketsType ==
  ASSUME NEW vcs \in VCs
  PROVE  /\ buckets(vcs) \in [Segments -> Buckets] /\ buckets(vcs) \in PartialBuckets
         /\ \A s \in Segments : buckets(vcs)[s] = bucketOf(vcs[s])
<1>1. \A s \in Segments : vcs[s] \in Nat
  BY VCsAssumption
<1>2. buckets(vcs) \in [Segments -> Buckets]
  BY <1>1, BucketOfType DEF buckets
<1> QED
  BY <1>2, PartialBucketsElements DEF buckets

LEMMA NoBucketsType == NoBuckets \in PartialBuckets
<1>1. NoBuckets \in [{} -> Buckets] /\ {} \in SUBSET Segments
  BY DEF NoBuckets
<1> QED
  BY <1>1, PartialBucketsElements

\* A delta carries what brings the map it was built on to the new tick.
LEMMA DeltaFits ==
  ASSUME NEW vcs \in VCs, NEW last \in PartialBuckets
  PROVE  /\ changed(vcs, last) \in PartialBuckets
         /\ [s \in DOMAIN changed(vcs, last) \cup DOMAIN last |->
               IF s \in DOMAIN changed(vcs, last) THEN changed(vcs, last)[s] ELSE last[s]]
              = buckets(vcs)
<1> DEFINE d == changed(vcs, last)
           D == {x \in Segments : x \notin DOMAIN last \/ last[x] # bucketOf(vcs[x])}
<1>1. PICK S \in SUBSET Segments : last \in [S -> Buckets]
  BY PartialBucketsElements
<1>2. DOMAIN d = D /\ \A s \in D : d[s] = bucketOf(vcs[s])
  BY DEF changed
<1>3. d \in [D -> Buckets]
  BY VCsAssumption, BucketOfType DEF changed
<1>4. d \in PartialBuckets
  BY <1>3, PartialBucketsElements
<1>5. D \cup DOMAIN last = Segments
  BY <1>1
<1>6. \A s \in Segments : (IF s \in D THEN d[s] ELSE last[s]) = bucketOf(vcs[s])
  BY <1>1, <1>2
<1> HIDE DEF d, D
<1>7. [s \in DOMAIN d \cup DOMAIN last |-> IF s \in DOMAIN d THEN d[s] ELSE last[s]]
        = [s \in Segments |-> bucketOf(vcs[s])]
  BY <1>2, <1>5, <1>6
<1> QED
  BY <1>4, <1>7 DEF buckets, d

View == [Algos -> [tick : Nat, buckets : PartialBuckets]]

\* One frame changes the map of its algorithm alone, by that map and the frame.
Fold(w, f) ==
  [tick    |-> f.tick,
   buckets |-> IF f.snapshot THEN f.segments
               ELSE [s \in DOMAIN f.segments \cup DOMAIN w.buckets |->
                       IF s \in DOMAIN f.segments THEN f.segments[s] ELSE w.buckets[s]]]

LEMMA FoldProperties ==
  ASSUME NEW v \in View, NEW f \in Frame
  PROVE  /\ reduceCongestion(v, f)[f.algo] = Fold(v[f.algo], f)
         /\ \A a \in Algos \ {f.algo} : reduceCongestion(v, f)[a] = v[a]
         /\ DOMAIN reduceCongestion(v, f) = Algos
         /\ Fold(v[f.algo], f) \in [tick : Nat, buckets : PartialBuckets]
         /\ reduceCongestion(v, f) \in View
<1>1. f.algo \in Algos /\ f.tick \in Nat /\ f.segments \in PartialBuckets
  BY DEF Frame
<1>2. reduceCongestion(v, f) = [v EXCEPT ![f.algo] = Fold(v[f.algo], f)]
  BY DEF reduceCongestion, Fold
<1>3. Fold(v[f.algo], f) \in [tick : Nat, buckets : PartialBuckets]
  <2> DEFINE w == v[f.algo].buckets
             joined == [s \in DOMAIN f.segments \cup DOMAIN w |->
                          IF s \in DOMAIN f.segments THEN f.segments[s] ELSE w[s]]
  <2>1. w \in PartialBuckets
    BY <1>1 DEF View
  <2>2. PICK S \in SUBSET Segments : f.segments \in [S -> Buckets]
    BY <1>1, PartialBucketsElements
  <2>3. PICK W \in SUBSET Segments : w \in [W -> Buckets]
    BY <2>1, PartialBucketsElements
  <2>4. joined \in [S \cup W -> Buckets]
    BY <2>2, <2>3
  <2>5. joined \in PartialBuckets
    BY <2>4, PartialBucketsElements
  <2>6. (IF f.snapshot THEN f.segments ELSE joined) \in PartialBuckets
    BY <2>5, <1>1
  <2> QED
    BY <1>1, <2>6 DEF Fold
<1>4. v \in [Algos -> [tick : Nat, buckets : PartialBuckets]]
  BY DEF View
<1> QED
  BY <1>1, <1>2, <1>3, <1>4 DEF View

-----------------------------------------------------------------------------
(* The inductive invariant holds at first. *)

Exact == Inv /\ ViewExact

LEMMA TypeFacts ==
  ASSUME TypeOK
  PROVE  /\ view \in View /\ out \in Seq(Frame) /\ ticks \in [Algos -> Seq(VCs)]
         /\ DOMAIN out = 1 .. Len(out) /\ Len(out) \in Nat
         /\ \A a \in Algos : /\ ticks[a] \in Seq(VCs) /\ Len(ticks[a]) \in Nat
                             /\ DOMAIN ticks[a] = 1 .. Len(ticks[a])
                             /\ Len(ticks[a]) <= LastTick
                             /\ cursor[a] \in Nat /\ lastBuckets[a] \in PartialBuckets
         /\ \A i \in DOMAIN out : out[i] \in Frame /\ out[i].algo \in Algos
         /\ elapsed \in Nat /\ LastTick \in Nat /\ TickSeconds \in Nat
<1>1. view \in View /\ out \in Seq(Frame) /\ ticks \in [Algos -> Seq(VCs)]
  BY DEF TypeOK, View
<1>2. DOMAIN out = 1 .. Len(out) /\ Len(out) \in Nat
  BY <1>1
<1>3. ASSUME NEW i \in DOMAIN out PROVE out[i] \in Frame /\ out[i].algo \in Algos
  <2>1. out[i] \in Frame
    BY <1>1, <1>2, ElementOfSeq
  <2> QED
    BY <2>1 DEF Frame
<1>4. ASSUME NEW a \in Algos
      PROVE  /\ ticks[a] \in Seq(VCs) /\ Len(ticks[a]) \in Nat
             /\ DOMAIN ticks[a] = 1 .. Len(ticks[a])
             /\ Len(ticks[a]) <= LastTick
             /\ cursor[a] \in Nat /\ lastBuckets[a] \in PartialBuckets
  <2>1. ticks[a] \in Seq(VCs) /\ Len(ticks[a]) <= MaxTicks[a] /\ MaxTicks[a] \in Nat
    BY NumbersAssumption DEF TypeOK
  <2>2. Len(ticks[a]) \in Nat /\ DOMAIN ticks[a] = 1 .. Len(ticks[a])
    BY <2>1
  <2>3. Len(ticks[a]) <= LastTick
    BY <2>1, <2>2, LastTickBounds
  <2> QED
    BY <2>1, <2>2, <2>3, LastTickBounds DEF TypeOK
<1>5. LastTick \in Nat /\ TickSeconds \in Nat
  BY LastTickBounds, NumbersAssumption
<1>6. elapsed \in Nat
  BY DEF TypeOK
<1> QED
  BY <1>1, <1>2, <1>3, <1>4, <1>5, <1>6

LEMMA InitExact == Init => Exact
<1> SUFFICES ASSUME Init PROVE Exact
  OBVIOUS
<1>1. TypeOK
  <2>1. /\ run \in RunPC /\ sim \in [Algos -> SimPC] /\ finished \in BOOLEAN /\ err \in BOOLEAN
        /\ notify \in 0 .. 1 /\ pc \in StreamPC /\ outcome \in Outcome /\ cancelled \in BOOLEAN
        /\ step \in Steps
    <3>1. run \in RunPC /\ sim \in [Algos -> SimPC]
      BY DEF Init, RunPC, SimPC
    <3>2. pc \in StreamPC /\ outcome \in Outcome
      BY DEF Init, StreamPC, Outcome
    <3>3. finished \in BOOLEAN /\ err \in BOOLEAN /\ cancelled \in BOOLEAN /\ step \in Steps
      BY DEF Init
    <3>4. notify \in 0 .. 1
      BY DEF Init
    <3> QED
      BY <3>1, <3>2, <3>3, <3>4
  <2>2. ticks \in [Algos -> Seq(VCs)] /\ \A a \in Algos : Len(ticks[a]) <= MaxTicks[a]
    BY EmptySeq, NumbersAssumption DEF Init
  <2>3. next \in 1 .. n + 1
    <3>1. n \in Nat
      BY OrderAssumption DEF n
    <3> QED
      BY <3>1 DEF Init
  <2>4. cursor \in [Algos -> 0 .. LastTick] /\ elapsed \in 0 .. LastTick * TickSeconds
    <3>1. LastTick \in Nat /\ TickSeconds \in Nat
      BY LastTickBounds, NumbersAssumption
    <3>2. LastTick * TickSeconds \in Nat
      BY <3>1
    <3> QED
      BY <3>1, <3>2 DEF Init
  <2>5. /\ lastBuckets \in [Algos -> PartialBuckets] /\ out \in Seq(Frame)
        /\ view \in [Algos -> [tick : Nat, buckets : PartialBuckets]]
    BY NoBucketsType, EmptySeq DEF Init
  <2> QED
    BY <2>1, <2>2, <2>3, <2>4, <2>5 DEF TypeOK
<1>2. NeverEarly /\ CleanMeansComplete /\ RunOutlivesSims /\ EndIsFinal /\ ViewExact
  BY DEF Init, NeverEarly, CleanMeansComplete, RunOutlivesSims, EndIsFinal, ViewExact
<1>3. BaseIsCursor
  BY EmptySeq DEF Init, BaseIsCursor
<1>4. FramesFit
  BY DEF Init, FramesFit, BeforeReplay, Replaying, Consumed
<1> QED
  BY <1>1, <1>2, <1>3, <1>4 DEF Exact, Inv

-----------------------------------------------------------------------------
(* The producer and the simulations. *)

\* The buffers only grow, and nothing the viewer was shown is taken back.
LEMMA ProducerKeeps ==
  ASSUME Exact, TypeOK', RunOutlivesSims',
         UNCHANGED <<pc, replayVars, out, outcome, cancelled, view>>,
         finished => UNCHANGED <<sim, ticks, finished>>,
         \A a \in Algos : \/ ticks'[a] = ticks[a]
                          \/ \E vcs \in VCs : ticks'[a] = Append(ticks[a], vcs)
  PROVE  Exact'
<1>1. UNCHANGED <<pc, next, cursor, lastBuckets, elapsed, out, outcome, view>>
  BY DEF replayVars
<1>2. ASSUME NEW a \in Algos
      PROVE  /\ Len(ticks[a]) <= Len(ticks'[a]) /\ Len(ticks[a]) \in Nat /\ Len(ticks'[a]) \in Nat
             /\ DOMAIN ticks[a] = 1 .. Len(ticks[a]) /\ DOMAIN ticks'[a] = 1 .. Len(ticks'[a])
             /\ \A j \in 1 .. Len(ticks[a]) : ticks'[a][j] = ticks[a][j]
  <2>1. ticks[a] \in Seq(VCs)
    BY DEF Exact, Inv, TypeOK
  <2>2. CASE ticks'[a] = ticks[a]
    BY <2>1, <2>2
  <2>3. ASSUME NEW vcs \in VCs, ticks'[a] = Append(ticks[a], vcs)
        PROVE  /\ Len(ticks'[a]) = Len(ticks[a]) + 1 /\ DOMAIN ticks'[a] = 1 .. Len(ticks'[a])
               /\ \A j \in 1 .. Len(ticks[a]) : ticks'[a][j] = ticks[a][j]
    BY <2>1, <2>3, AppendProperties
  <2>4. Len(ticks[a]) \in Nat /\ DOMAIN ticks[a] = 1 .. Len(ticks[a])
    BY <2>1
  <2> QED
    BY <2>2, <2>3, <2>4
<1>3. \A a \in Algos : cursor[a] \in Nat
  BY TypeFacts DEF Exact, Inv
<1>4. BaseIsCursor'
  <2> SUFFICES ASSUME NEW a \in Algos
               PROVE  /\ cursor[a] <= Len(ticks'[a])
                      /\ lastBuckets[a] = IF cursor[a] = 0 THEN NoBuckets
                                          ELSE buckets(ticks'[a][cursor[a]])
                      /\ cursor[a] > 0 => (cursor[a] - 1) * TickSeconds <= elapsed
    BY <1>1 DEF BaseIsCursor
  <2>1. /\ cursor[a] <= Len(ticks[a])
        /\ lastBuckets[a] = IF cursor[a] = 0 THEN NoBuckets ELSE buckets(ticks[a][cursor[a]])
        /\ cursor[a] > 0 => (cursor[a] - 1) * TickSeconds <= elapsed
    BY DEF Exact, Inv, BaseIsCursor
  <2>2. cursor[a] # 0 => ticks'[a][cursor[a]] = ticks[a][cursor[a]]
    BY <2>1, <1>2, <1>3
  <2> QED
    BY <2>1, <2>2, <1>2, <1>3
<1>5. NeverEarly' /\ FramesFit'
  BY <1>1 DEF Exact, Inv, NeverEarly, FramesFit, BeforeReplay, Replaying, Consumed
<1>6. CleanMeansComplete' /\ EndIsFinal'
  BY <1>1 DEF Exact, Inv, CleanMeansComplete, EndIsFinal, drained
<1>7. ViewExact'
  BY <1>1, <1>2 DEF Exact, ViewExact
<1> QED
  BY <1>4, <1>5, <1>6, <1>7 DEF Exact, Inv

LEMMA EmitKeeps == ASSUME Exact, NEW a \in Algos, Emit(a) PROVE Exact'
<1>1. PICK vcs \in VCs : ticks' = [ticks EXCEPT ![a] = Append(@, vcs)]
  BY DEF Emit
<1>2. /\ sim[a] = "tick" /\ ~finished /\ Len(ticks[a]) < MaxTicks[a]
      /\ ticks \in [Algos -> Seq(VCs)] /\ sim \in [Algos -> SimPC]
      /\ sim' = [sim EXCEPT ![a] = "signal"]
      /\ UNCHANGED <<run, finished, err, notify, pc, replayVars, out, outcome, cancelled, view>>
  BY DEF Emit, Exact, Inv, TypeOK, RunOutlivesSims
<1>3. /\ ticks' \in [Algos -> Seq(VCs)] /\ ticks'[a] = Append(ticks[a], vcs)
      /\ \A b \in Algos \ {a} : ticks'[b] = ticks[b]
  BY <1>1, <1>2, AppendProperties
<1>4. Len(ticks'[a]) = Len(ticks[a]) + 1 /\ Len(ticks[a]) \in Nat /\ MaxTicks[a] \in Nat
  <2>1. ticks[a] \in Seq(VCs)
    BY <1>2
  <2> QED
    BY <2>1, <1>3, AppendProperties, NumbersAssumption
<1>5. \A b \in Algos : Len(ticks'[b]) <= MaxTicks[b]
  <2> SUFFICES ASSUME NEW b \in Algos PROVE Len(ticks'[b]) <= MaxTicks[b]
    OBVIOUS
  <2>1. CASE b = a
    BY <1>2, <1>4, <2>1
  <2>2. CASE b # a
    BY <1>3, <2>2 DEF Exact, Inv, TypeOK
  <2> QED
    BY <2>1, <2>2
<1>6. TypeOK'
  BY <1>2, <1>3, <1>5 DEF Exact, Inv, TypeOK, SimPC, replayVars
<1>7. RunOutlivesSims'
  BY <1>2 DEF Exact, Inv, RunOutlivesSims
<1> QED
  BY <1>2, <1>3, <1>6, <1>7, ProducerKeeps

\* The steps of the producer that leave the buffers' ticks alone.
LEMMA GoroutineKeeps ==
  ASSUME Exact,
         (\E a \in Algos : Signal(a) \/ SimFails(a)) \/ Producer
  PROVE  Exact'
<1>1. /\ UNCHANGED <<ticks, pc, replayVars, out, outcome, cancelled, view>>
      /\ TypeOK /\ RunOutlivesSims /\ sim \in [Algos -> SimPC]
  BY DEF Exact, Inv, TypeOK, Signal, SimFails, Producer, StartSims, ReferenceFails, Collect, Finish,
         FinishSignals, bufferVars
<1>2. ASSUME NEW a \in Algos, Signal(a)
      PROVE  TypeOK' /\ RunOutlivesSims' /\ ~finished
  <2>1. PICK s \in AfterTick(a) : sim' = [sim EXCEPT ![a] = s]
    BY <1>2 DEF Signal
  <2>2. s \in {"ok", "tick", "error"}
    BY DEF AfterTick
  <2>3. sim' \in [Algos -> SimPC] /\ sim'[a] = s /\ \A b \in Algos \ {a} : sim'[b] = sim[b]
    BY <1>1, <2>1, <2>2 DEF SimPC
  <2>4. sim[a] = "signal" /\ notify' = 1 /\ UNCHANGED <<run, finished, err>>
    BY <1>2 DEF Signal
  <2>5. TypeOK'
    BY <1>1, <2>3, <2>4 DEF TypeOK, replayVars
  <2> QED
    BY <1>1, <2>3, <2>4, <2>5 DEF RunOutlivesSims
<1>3. ASSUME NEW a \in Algos, SimFails(a)
      PROVE  TypeOK' /\ RunOutlivesSims' /\ ~finished
  <2>1. /\ sim[a] = "tick" /\ sim' = [sim EXCEPT ![a] = "error"]
        /\ UNCHANGED <<run, finished, err, notify>>
    BY <1>3 DEF SimFails, bufferVars
  <2>2. sim' \in [Algos -> SimPC] /\ sim'[a] = "error" /\ \A b \in Algos \ {a} : sim'[b] = sim[b]
    BY <1>1, <2>1 DEF SimPC
  <2>3. TypeOK'
    BY <1>1, <2>1, <2>2 DEF TypeOK, replayVars
  <2> QED
    BY <1>1, <2>1, <2>2, <2>3 DEF RunOutlivesSims
<1>4. ASSUME Producer
      PROVE  TypeOK' /\ RunOutlivesSims' /\ (finished => UNCHANGED <<sim, finished>>)
  <2>1. TypeOK'
    <3>1. /\ run' \in RunPC /\ sim' \in [Algos -> SimPC] /\ notify' \in 0 .. 1
          /\ finished' \in BOOLEAN /\ err' \in BOOLEAN
      <4>1. run' \in RunPC
        BY <1>4 DEF Producer, StartSims, ReferenceFails, Collect, Finish, FinishSignals, RunPC
      <4>2. sim' \in [Algos -> SimPC]
        BY <1>1, <1>4 DEF Producer, StartSims, ReferenceFails, Collect, Finish, FinishSignals, SimPC
      <4>3. notify' \in {notify, 1}
        BY <1>4 DEF Producer, StartSims, ReferenceFails, Collect, Finish, FinishSignals, bufferVars
      <4>4. finished' \in BOOLEAN /\ err' \in BOOLEAN
        BY <1>1, <1>4 DEF Producer, StartSims, ReferenceFails, Collect, Finish, FinishSignals,
                          bufferVars, TypeOK
      <4> QED
        BY <1>1, <4>1, <4>2, <4>3, <4>4 DEF TypeOK
    <3> QED
      BY <1>1, <3>1 DEF TypeOK, replayVars
  <2>2. CASE StartSims
    BY <1>1, <2>2, <2>1 DEF StartSims, RunOutlivesSims, bufferVars
  <2>3. CASE ReferenceFails
    BY <1>1, <2>3, <2>1 DEF ReferenceFails, RunOutlivesSims
  <2>4. CASE Collect
    BY <1>1, <2>4, <2>1 DEF Collect, RunOutlivesSims, bufferVars
  <2>5. CASE Finish
    BY <1>1, <2>5, <2>1 DEF Finish, RunOutlivesSims
  <2>6. CASE FinishSignals
    BY <1>1, <2>6, <2>1 DEF FinishSignals, RunOutlivesSims
  <2> QED
    BY <1>4, <2>2, <2>3, <2>4, <2>5, <2>6 DEF Producer
<1> QED
  BY <1>1, <1>2, <1>3, <1>4, ProducerKeeps

-----------------------------------------------------------------------------
(* The steps of the handler that move control alone. *)

Control ==
  \/ Admit \/ AcceptFails \/ Launch \/ CheckFirstTicks \/ Woken \/ WaitCancelled
  \/ TerminalGate \/ FramesWritten \/ ReplayCancelled \/ CheckDone \/ FinalErr
  \/ Join \/ Release \/ Disconnect

\* Neither the replay's state nor what is on its way changes, and control enters the
\* replay only through the snapshots.
StaysInPhase ==
  /\ BeforeReplay' => BeforeReplay
  /\ Replaying' => Replaying
  /\ pc' = "advance" => pc = "advance"
  /\ pc' \in {"ticker", "done", "final"} => out = << >>

\* Between two server ticks the client's maps are what the replay has consumed.
LEMMA NothingQueued ==
  ASSUME FramesFit, Replaying, out = << >>
  PROVE  \A a \in Algos : view[a].tick = cursor[a] /\ view[a].buckets = lastBuckets[a]
<1>1. DOMAIN out = {}
  OBVIOUS
<1>2. \A a \in Algos : view[a] = Consumed(a)
  BY <1>1 DEF FramesFit
<1>3. \A a \in Algos : Consumed(a).tick = cursor[a] /\ Consumed(a).buckets = lastBuckets[a]
  BY DEF Consumed
<1> QED
  BY <1>2, <1>3

LEMMA QuietKeeps ==
  ASSUME Exact, StaysInPhase, UNCHANGED <<ticks, cursor, lastBuckets, elapsed, view, out, next>>
  PROVE  NeverEarly' /\ BaseIsCursor' /\ FramesFit' /\ ViewExact'
<1>1. NeverEarly' /\ BaseIsCursor'
  BY DEF Exact, Inv, NeverEarly, BaseIsCursor
<1>2. \A a \in Algos : Consumed(a)' = Consumed(a)
  BY DEF Consumed
<1>3. FramesFit'
  <2>1. BeforeReplay' => out' = << >> /\ \A a \in Algos : view'[a] = Consumed(a)' /\ cursor'[a] = 0
    BY <1>2 DEF Exact, Inv, FramesFit, StaysInPhase
  <2>2. Replaying' =>
          /\ \A i \in DOMAIN out :
                reduceCongestion(view, out[i])[out[i].algo] = Consumed(out[i].algo)
          /\ \A a \in Algos : view[a] = Consumed(a) \/ \E i \in DOMAIN out : out[i].algo = a
          /\ \A i, j \in DOMAIN out : out[i].algo = out[j].algo => i = j
    BY DEF Exact, Inv, FramesFit, StaysInPhase
  <2>3. pc' = "advance" => \A i \in DOMAIN out : \E k \in 1 .. next - 1 : out[i].algo = RouterOrder[k]
    BY DEF Exact, Inv, FramesFit, StaysInPhase
  <2>4. pc' \in {"ticker", "done", "final"} => out = << >>
    BY DEF StaysInPhase
  <2> QED
    BY <2>1, <2>2, <2>3, <2>4 DEF FramesFit, Consumed
<1>4. ASSUME pc' \in {"ticker", "done"} PROVE \A a \in Algos : view[a].tick = cursor[a]
  <2>1. Replaying /\ out = << >>
    BY <1>4 DEF StaysInPhase, Replaying
  <2> QED
    BY <2>1, NothingQueued DEF Exact, Inv
<1>5. ViewExact'
  BY <1>4 DEF Exact, ViewExact
<1> QED
  BY <1>1, <1>3, <1>5

LEMMA ControlKeeps == ASSUME Exact, Control PROVE Exact'
<1>1. /\ UNCHANGED <<sim, ticks, finished, err, next, cursor, lastBuckets, elapsed, step, out, view>>
      /\ TypeOK /\ RunOutlivesSims /\ CleanMeansComplete /\ EndIsFinal /\ FramesFit
  BY DEF Exact, Inv, Control, Admit, AcceptFails, Launch, CheckFirstTicks, Woken, WaitCancelled,
         TerminalGate, FramesWritten, ReplayCancelled, CheckDone, FinalErr, Join, Release,
         Disconnect, producerVars, bufferVars, replayVars
<1>2. TypeOK'
  <2>1. pc' \in StreamPC
    BY <1>1 DEF Control, Admit, AcceptFails, Launch, CheckFirstTicks, Woken, WaitCancelled,
           TerminalGate, FramesWritten, ReplayCancelled, CheckDone, FinalErr, Join, Release,
           Disconnect, Goto, StreamPC, TypeOK
  <2>2. run' \in RunPC /\ cancelled' \in BOOLEAN
    BY <1>1 DEF Control, Admit, AcceptFails, Launch, CheckFirstTicks, Woken, WaitCancelled,
           TerminalGate, FramesWritten, ReplayCancelled, CheckDone, FinalErr, Join, Release,
           Disconnect, RunPC, TypeOK, producerVars
  <2>3. outcome' \in Outcome
    BY <1>1 DEF Control, Admit, AcceptFails, Launch, CheckFirstTicks, Woken, WaitCancelled,
           TerminalGate, FramesWritten, ReplayCancelled, CheckDone, FinalErr, Join, Release,
           Disconnect, Outcome, TypeOK
  <2>4. notify' \in {notify, 0}
    BY <1>1 DEF Control, Admit, AcceptFails, Launch, CheckFirstTicks, Woken, WaitCancelled,
           TerminalGate, FramesWritten, ReplayCancelled, CheckDone, FinalErr, Join, Release,
           Disconnect, bufferVars
  <2>5. notify' \in 0 .. 1
    BY <1>1, <2>4 DEF TypeOK
  <2> QED
    BY <1>1, <2>1, <2>2, <2>3, <2>5 DEF TypeOK
<1>3. CASE Admit
  <2>1. StaysInPhase
    BY <1>1, <1>3 DEF Admit, Goto, StaysInPhase, FramesFit, BeforeReplay, Replaying
  <2>2. RunOutlivesSims'
    BY <1>1, <1>3 DEF Admit, Goto, RunOutlivesSims, producerVars
  <2>3. CleanMeansComplete' /\ EndIsFinal'
    BY <1>1, <1>3 DEF Admit, Goto, CleanMeansComplete, EndIsFinal, drained
  <2> QED
    BY <2>1, <2>2, <2>3, <1>1, <1>2, QuietKeeps DEF Exact, Inv
<1>4. CASE AcceptFails
  <2>1. StaysInPhase
    BY <1>1, <1>4 DEF AcceptFails, Goto, StaysInPhase, FramesFit, BeforeReplay, Replaying
  <2>2. RunOutlivesSims'
    BY <1>1, <1>4 DEF AcceptFails, Goto, RunOutlivesSims, producerVars
  <2>3. CleanMeansComplete' /\ EndIsFinal'
    BY <1>1, <1>4 DEF AcceptFails, Goto, CleanMeansComplete, EndIsFinal, drained
  <2> QED
    BY <2>1, <2>2, <2>3, <1>1, <1>2, QuietKeeps DEF Exact, Inv
<1>5. CASE Launch
  <2>1. StaysInPhase
    BY <1>1, <1>5 DEF Launch, Goto, StaysInPhase, FramesFit, BeforeReplay, Replaying
  <2>2. RunOutlivesSims'
    BY <1>1, <1>5 DEF Launch, Goto, RunOutlivesSims, producerVars
  <2>3. CleanMeansComplete' /\ EndIsFinal'
    BY <1>1, <1>5 DEF Launch, Goto, CleanMeansComplete, EndIsFinal, drained
  <2> QED
    BY <2>1, <2>2, <2>3, <1>1, <1>2, QuietKeeps DEF Exact, Inv
<1>6. CASE CheckFirstTicks
  <2>1. StaysInPhase
    BY <1>1, <1>6 DEF CheckFirstTicks, Goto, StaysInPhase, FramesFit, BeforeReplay, Replaying
  <2>2. RunOutlivesSims'
    BY <1>1, <1>6 DEF CheckFirstTicks, Goto, RunOutlivesSims, producerVars
  <2>3. CleanMeansComplete' /\ EndIsFinal'
    BY <1>1, <1>6 DEF CheckFirstTicks, Goto, CleanMeansComplete, EndIsFinal, drained
  <2> QED
    BY <2>1, <2>2, <2>3, <1>1, <1>2, QuietKeeps DEF Exact, Inv
<1>7. CASE Woken
  <2>1. StaysInPhase
    BY <1>1, <1>7 DEF Woken, Goto, StaysInPhase, FramesFit, BeforeReplay, Replaying
  <2>2. RunOutlivesSims'
    BY <1>1, <1>7 DEF Woken, Goto, RunOutlivesSims, producerVars
  <2>3. CleanMeansComplete' /\ EndIsFinal'
    BY <1>1, <1>7 DEF Woken, Goto, CleanMeansComplete, EndIsFinal, drained
  <2> QED
    BY <2>1, <2>2, <2>3, <1>1, <1>2, QuietKeeps DEF Exact, Inv
<1>8. CASE WaitCancelled
  <2>1. StaysInPhase
    BY <1>1, <1>8 DEF WaitCancelled, Goto, StaysInPhase, FramesFit, BeforeReplay, Replaying
  <2>2. RunOutlivesSims'
    BY <1>1, <1>8 DEF WaitCancelled, Goto, RunOutlivesSims, producerVars
  <2>3. CleanMeansComplete' /\ EndIsFinal'
    BY <1>1, <1>8 DEF WaitCancelled, Goto, CleanMeansComplete, EndIsFinal, drained
  <2> QED
    BY <2>1, <2>2, <2>3, <1>1, <1>2, QuietKeeps DEF Exact, Inv
<1>9. CASE TerminalGate
  <2>1. StaysInPhase
    BY <1>1, <1>9 DEF TerminalGate, Goto, StaysInPhase, FramesFit, BeforeReplay, Replaying
  <2>2. RunOutlivesSims'
    BY <1>1, <1>9 DEF TerminalGate, Goto, RunOutlivesSims, producerVars
  <2>3. CleanMeansComplete' /\ EndIsFinal'
    BY <1>1, <1>9 DEF TerminalGate, Goto, CleanMeansComplete, EndIsFinal, drained
  <2> QED
    BY <2>1, <2>2, <2>3, <1>1, <1>2, QuietKeeps DEF Exact, Inv
<1>10. CASE FramesWritten
  <2>1. StaysInPhase
    BY <1>1, <1>10 DEF FramesWritten, Goto, StaysInPhase, FramesFit, BeforeReplay, Replaying
  <2>2. RunOutlivesSims'
    BY <1>1, <1>10 DEF FramesWritten, Goto, RunOutlivesSims, producerVars
  <2>3. CleanMeansComplete' /\ EndIsFinal'
    BY <1>1, <1>10 DEF FramesWritten, Goto, CleanMeansComplete, EndIsFinal, drained
  <2> QED
    BY <2>1, <2>2, <2>3, <1>1, <1>2, QuietKeeps DEF Exact, Inv
<1>11. CASE ReplayCancelled
  <2>1. StaysInPhase
    BY <1>1, <1>11 DEF ReplayCancelled, Goto, StaysInPhase, FramesFit, BeforeReplay, Replaying
  <2>2. RunOutlivesSims'
    BY <1>1, <1>11 DEF ReplayCancelled, Goto, RunOutlivesSims, producerVars
  <2>3. CleanMeansComplete' /\ EndIsFinal'
    BY <1>1, <1>11 DEF ReplayCancelled, Goto, CleanMeansComplete, EndIsFinal, drained
  <2> QED
    BY <2>1, <2>2, <2>3, <1>1, <1>2, QuietKeeps DEF Exact, Inv
<1>12. CASE CheckDone
  <2>1. StaysInPhase
    BY <1>1, <1>12 DEF CheckDone, Goto, StaysInPhase, FramesFit, BeforeReplay, Replaying
  <2>2. RunOutlivesSims'
    BY <1>1, <1>12 DEF CheckDone, Goto, RunOutlivesSims, producerVars
  <2>3. CleanMeansComplete' /\ EndIsFinal'
    BY <1>1, <1>12 DEF CheckDone, Goto, CleanMeansComplete, EndIsFinal, drained
  <2> QED
    BY <2>1, <2>2, <2>3, <1>1, <1>2, QuietKeeps DEF Exact, Inv
<1>13. CASE FinalErr
  <2>1. StaysInPhase
    BY <1>1, <1>13 DEF FinalErr, Goto, StaysInPhase, FramesFit, BeforeReplay, Replaying
  <2>2. RunOutlivesSims'
    BY <1>1, <1>13 DEF FinalErr, Goto, RunOutlivesSims, producerVars
  <2>3. CleanMeansComplete' /\ EndIsFinal'
    <3>1. \A a \in Algos : view[a].tick = Len(ticks[a])
      <4>1. Replaying /\ out = << >> /\ drained
        BY <1>1, <1>13 DEF FinalErr, FramesFit, Replaying, EndIsFinal
      <4> QED
        BY <1>1, <4>1, NothingQueued DEF drained
    <3>2. finished /\ (~err => \A a \in Algos : sim[a] = "ok")
      BY <1>1, <1>13 DEF FinalErr, EndIsFinal, RunOutlivesSims
    <3> QED
      BY <1>1, <1>13, <3>1, <3>2 DEF FinalErr, Goto, CleanMeansComplete, EndIsFinal
  <2> QED
    BY <2>1, <2>2, <2>3, <1>1, <1>2, QuietKeeps DEF Exact, Inv
<1>14. CASE Join
  <2>1. StaysInPhase
    BY <1>1, <1>14 DEF Join, Goto, StaysInPhase, FramesFit, BeforeReplay, Replaying
  <2>2. RunOutlivesSims'
    BY <1>1, <1>14 DEF Join, Goto, RunOutlivesSims, producerVars
  <2>3. CleanMeansComplete' /\ EndIsFinal'
    BY <1>1, <1>14 DEF Join, Goto, CleanMeansComplete, EndIsFinal, drained
  <2> QED
    BY <2>1, <2>2, <2>3, <1>1, <1>2, QuietKeeps DEF Exact, Inv
<1>15. CASE Release
  <2>1. StaysInPhase
    BY <1>1, <1>15 DEF Release, Goto, StaysInPhase, FramesFit, BeforeReplay, Replaying
  <2>2. RunOutlivesSims'
    BY <1>1, <1>15 DEF Release, Goto, RunOutlivesSims, producerVars
  <2>3. CleanMeansComplete' /\ EndIsFinal'
    BY <1>1, <1>15 DEF Release, Goto, CleanMeansComplete, EndIsFinal, drained
  <2> QED
    BY <2>1, <2>2, <2>3, <1>1, <1>2, QuietKeeps DEF Exact, Inv
<1>16. CASE Disconnect
  <2>1. StaysInPhase
    BY <1>1, <1>16 DEF Disconnect, Goto, StaysInPhase, FramesFit, BeforeReplay, Replaying
  <2>2. RunOutlivesSims'
    BY <1>1, <1>16 DEF Disconnect, Goto, RunOutlivesSims, producerVars
  <2>3. CleanMeansComplete' /\ EndIsFinal'
    BY <1>1, <1>16 DEF Disconnect, Goto, CleanMeansComplete, EndIsFinal, drained
  <2> QED
    BY <2>1, <2>2, <2>3, <1>1, <1>2, QuietKeeps DEF Exact, Inv
<1> QED
  BY <1>3, <1>4, <1>5, <1>6, <1>7, <1>8, <1>9, <1>10, <1>11, <1>12, <1>13, <1>14, <1>15, <1>16 DEF Control

-----------------------------------------------------------------------------
(* The steps of the replay. *)

\* The view is exact where it is unchanged or what the replay has consumed.
LEMMA BuildSnapshotsKeeps == ASSUME Exact, BuildSnapshots PROVE Exact'
<1> DEFINE has(a) == ticks[a] # << >>
           first(a) == IF has(a) THEN buckets(ticks[a][1]) ELSE NoBuckets
           frame(i) == [algo |-> RouterOrder[i], tick |-> IF has(RouterOrder[i]) THEN 1 ELSE 0,
                        snapshot |-> TRUE, segments |-> first(RouterOrder[i])]
<1>1. /\ pc = "build" /\ pc' = "snapshots" /\ outcome = "none"
      /\ cursor' = [a \in Algos |-> IF has(a) THEN 1 ELSE 0]
      /\ lastBuckets' = [a \in Algos |-> first(a)]
      /\ out' = [i \in 1 .. n |-> frame(i)]
      /\ UNCHANGED <<run, sim, ticks, finished, err, notify, next, elapsed, step, outcome,
                     cancelled, view>>
      /\ TypeOK /\ n \in Nat /\ DOMAIN RouterOrder = 1 .. n
      /\ \A i \in 1 .. n : RouterOrder[i] \in Algos
  BY OrderAssumption DEF BuildSnapshots, Goto, producerVars, bufferVars, Exact, Inv, EndIsFinal, n
<1>2. ASSUME NEW a \in Algos
      PROVE  /\ view[a].tick = 0 /\ first(a) \in PartialBuckets
             /\ has(a) => 1 \in DOMAIN ticks[a] /\ 1 <= Len(ticks[a])
  <2>1. view[a].tick = 0
    <3>1. view[a] = Consumed(a) /\ cursor[a] = 0
      BY <1>1 DEF Exact, Inv, FramesFit, BeforeReplay
    <3>2. Consumed(a).tick = cursor[a]
      BY DEF Consumed
    <3> QED
      BY <3>1, <3>2
  <2>2. ticks[a] \in Seq(VCs)
    BY <1>1, TypeFacts
  <2>3. has(a) => 1 \in DOMAIN ticks[a] /\ 1 <= Len(ticks[a]) /\ ticks[a][1] \in VCs
    BY <2>2, EmptySeq
  <2> QED
    BY <2>1, <2>3, BucketsType, NoBucketsType
<1> HIDE DEF has, first
<1>3. \A i \in 1 .. n : /\ frame(i) \in Frame /\ frame(i).algo = RouterOrder[i] /\ frame(i).snapshot
                         /\ frame(i).tick = (IF has(RouterOrder[i]) THEN 1 ELSE 0)
                         /\ frame(i).segments = first(RouterOrder[i])
  BY <1>1, <1>2 DEF Frame
<1> HIDE DEF frame
<1>4. out' \in Seq(Frame) /\ DOMAIN out' = 1 .. n /\ \A i \in 1 .. n : out'[i] = frame(i)
  BY <1>1, <1>3, IsASeq
<1>5. \A a \in Algos : cursor'[a] = (IF has(a) THEN 1 ELSE 0) /\ lastBuckets'[a] = first(a)
  BY <1>1
<1>6. TypeOK'
  <2>1. cursor' \in [Algos -> 0 .. LastTick]
    <3>1. \A a \in Algos : (IF has(a) THEN 1 ELSE 0) \in 0 .. LastTick
      BY <1>1, <1>2, TypeFacts
    <3> QED
      BY <1>1, <3>1
  <2>2. lastBuckets' \in [Algos -> PartialBuckets]
    BY <1>1, <1>2
  <2> QED
    BY <1>1, <1>4, <2>1, <2>2 DEF TypeOK, StreamPC
<1>7. BaseIsCursor'
  <2> SUFFICES ASSUME NEW a \in Algos
               PROVE  /\ cursor'[a] <= Len(ticks[a])
                      /\ lastBuckets'[a] = IF cursor'[a] = 0 THEN NoBuckets
                                           ELSE buckets(ticks[a][cursor'[a]])
                      /\ cursor'[a] > 0 => (cursor'[a] - 1) * TickSeconds <= elapsed
    BY <1>1 DEF BaseIsCursor
  <2>1. elapsed \in Nat /\ TickSeconds \in Nat /\ Len(ticks[a]) \in Nat
    BY <1>1, TypeFacts
  <2>2. CASE has(a)
    <3>1. cursor'[a] = 1 /\ lastBuckets'[a] = buckets(ticks[a][1])
      BY <1>5, <2>2 DEF first
    <3>2. (1 - 1) * TickSeconds = 0
      BY <2>1
    <3> QED
      BY <1>2, <2>1, <2>2, <3>1, <3>2
  <2>3. CASE ~has(a)
    <3>1. cursor'[a] = 0 /\ lastBuckets'[a] = NoBuckets
      BY <1>5, <2>3 DEF first
    <3> QED
      BY <2>1, <3>1
  <2> QED
    BY <2>2, <2>3
<1>8. FramesFit'
  <2>1. ASSUME NEW i \in 1 .. n
        PROVE  reduceCongestion(view, out'[i])[out'[i].algo] = Consumed(out[i].algo)'
    <3>1. out'[i] \in Frame /\ out'[i].algo = RouterOrder[i] /\ view \in View
      BY <1>1, <1>3, <1>4, TypeFacts
    <3>2. reduceCongestion(view, out'[i])[out'[i].algo] = Fold(view[out'[i].algo], out'[i])
      BY <3>1, FoldProperties
    <3>3. Fold(view[out'[i].algo], out'[i])
            = [tick |-> cursor'[RouterOrder[i]], buckets |-> lastBuckets'[RouterOrder[i]]]
      BY <1>1, <1>3, <1>4, <1>5 DEF Fold
    <3> QED
      BY <3>1, <3>2, <3>3 DEF Consumed
  <2>2. \A a \in Algos : \E i \in 1 .. n : out'[i].algo = a
    <3>1. \A a \in Algos : \E i \in 1 .. n : RouterOrder[i] = a
      BY <1>1 DEF Algos, ToSet
    <3> QED
      BY <3>1, <1>3, <1>4
  <2>3. \A i, j \in 1 .. n : out'[i].algo = out'[j].algo => i = j
    BY <1>1, <1>3, <1>4, OrderAssumption DEF IsInjective
  <2> QED
    BY <1>1, <1>4, <2>1, <2>2, <2>3 DEF FramesFit, BeforeReplay
<1>9. RunOutlivesSims' /\ CleanMeansComplete' /\ EndIsFinal'
  BY <1>1 DEF Exact, Inv, RunOutlivesSims, CleanMeansComplete, EndIsFinal
<1>10. NeverEarly' /\ ViewExact'
  BY <1>1, <1>2 DEF NeverEarly, ViewExact
<1> QED
  BY <1>6, <1>7, <1>8, <1>9, <1>10 DEF Exact, Inv

LEMMA WriteFrameKeeps == ASSUME Exact, WriteFrame PROVE Exact'
<1> DEFINE f == out[1]
<1>1. /\ pc \in {"snapshots", "frames"} /\ out # << >> /\ out' = Tail(out)
      /\ view' = reduceCongestion(view, Head(out))
      /\ UNCHANGED <<run, sim, ticks, finished, err, notify, pc, next, cursor, lastBuckets, elapsed,
                     step, outcome, cancelled>>
      /\ TypeOK /\ BaseIsCursor /\ FramesFit /\ Replaying /\ outcome = "none"
  BY DEF WriteFrame, producerVars, bufferVars, replayVars, Exact, Inv, EndIsFinal, Replaying
<1>2. /\ out \in Seq(Frame) /\ Len(out) \in Nat /\ DOMAIN out = 1 .. Len(out) /\ view \in View
      /\ \A i \in DOMAIN out : out[i] \in Frame /\ out[i].algo \in Algos
  BY <1>1, TypeFacts
<1>3. /\ Head(out) = f /\ 1 \in DOMAIN out /\ out' \in Seq(Frame) /\ Len(out') = Len(out) - 1
      /\ DOMAIN out' = 1 .. Len(out) - 1
      /\ \A i \in DOMAIN out' : i + 1 \in DOMAIN out /\ out'[i] = out[i + 1]
  <2>1. Len(out) # 0
    BY <1>1, <1>2, EmptySeq
  <2> QED
    BY <1>1, <1>2, <2>1, HeadTailProperties
<1>4. /\ view' \in View /\ view'[f.algo] = Consumed(f.algo)
      /\ \A a \in Algos \ {f.algo} : view'[a] = view[a]
  <2>1. f \in Frame /\ view' = reduceCongestion(view, f)
    BY <1>1, <1>2, <1>3
  <2>2. reduceCongestion(view, f)[f.algo] = Consumed(f.algo)
    BY <1>1, <1>3 DEF FramesFit
  <2> HIDE DEF f
  <2>3. /\ reduceCongestion(view, f) \in View
        /\ \A a \in Algos \ {f.algo} : reduceCongestion(view, f)[a] = view[a]
    BY <1>2, <2>1, FoldProperties
  <2> QED
    BY <2>1, <2>2, <2>3
<1>5. \A a \in Algos : Consumed(a)' = Consumed(a)
  BY <1>1 DEF Consumed
<1>6. TypeOK'
  BY <1>1, <1>3, <1>4 DEF TypeOK, View
<1>7. FramesFit'
  <2>1. ASSUME NEW i \in DOMAIN out'
        PROVE  reduceCongestion(view', out'[i])[out'[i].algo] = Consumed(out'[i].algo)
    <3>1. i + 1 \in DOMAIN out /\ i + 1 # 1 /\ out'[i] = out[i + 1] /\ out'[i] \in Frame
      BY <1>2, <1>3
    <3>2. out'[i].algo \in Algos \ {f.algo}
      BY <1>1, <1>2, <1>3, <3>1 DEF FramesFit
    <3>3. view'[out'[i].algo] = view[out'[i].algo]
      BY <1>4, <3>2
    <3>4. reduceCongestion(view', out'[i])[out'[i].algo]
            = reduceCongestion(view, out'[i])[out'[i].algo]
      <4>1. reduceCongestion(view', out'[i])[out'[i].algo] = Fold(view'[out'[i].algo], out'[i])
        BY <1>4, <3>1, FoldProperties
      <4>2. reduceCongestion(view, out'[i])[out'[i].algo] = Fold(view[out'[i].algo], out'[i])
        BY <1>2, <3>1, FoldProperties
      <4> QED
        BY <3>3, <4>1, <4>2
    <3> QED
      BY <1>1, <3>1, <3>4 DEF FramesFit
  <2>2. ASSUME NEW a \in Algos
        PROVE  view'[a] = Consumed(a) \/ \E i \in DOMAIN out' : out'[i].algo = a
    <3>1. CASE a = f.algo
      BY <3>1, <1>4
    <3>2. CASE a # f.algo
      <4>1. view[a] = Consumed(a) \/ \E i \in DOMAIN out : out[i].algo = a
        BY <1>1 DEF FramesFit
      <4>2. ASSUME NEW i \in DOMAIN out, out[i].algo = a
            PROVE  \E j \in DOMAIN out' : out'[j].algo = a
        <5>1. i - 1 \in DOMAIN out' /\ (i - 1) + 1 = i
          BY <1>2, <1>3, <3>2, <4>2
        <5> QED
          BY <1>3, <4>2, <5>1
      <4> QED
        BY <1>4, <3>2, <4>1, <4>2
    <3> QED
      BY <3>1, <3>2
  <2>3. \A i, j \in DOMAIN out' : out'[i].algo = out'[j].algo => i = j
    <3>1. \A i, j \in DOMAIN out : out[i].algo = out[j].algo => i = j
      BY <1>1 DEF FramesFit
    <3>2. \A i, j \in DOMAIN out' : out'[i].algo = out'[j].algo => i + 1 = j + 1
      BY <3>1, <1>3
    <3> QED
      BY <3>2, <1>3
  <2>4. pc' = pc /\ ~BeforeReplay' /\ pc' # "advance" /\ pc' \notin {"ticker", "done", "final"}
    BY <1>1 DEF BeforeReplay
  <2> QED
    BY <1>2, <1>3, <1>5, <2>1, <2>2, <2>3, <2>4 DEF FramesFit
<1>8. RunOutlivesSims' /\ BaseIsCursor' /\ CleanMeansComplete' /\ EndIsFinal'
  BY <1>1 DEF Exact, Inv, RunOutlivesSims, BaseIsCursor, CleanMeansComplete, EndIsFinal
<1>9. Consumed(f.algo).tick = cursor[f.algo] /\ Consumed(f.algo).buckets = lastBuckets[f.algo]
  BY DEF Consumed
<1>10. NeverEarly'
  <2> SUFFICES ASSUME NEW a \in Algos, view'[a].tick > 0
               PROVE  (view'[a].tick - 1) * TickSeconds <= elapsed
    BY <1>1 DEF NeverEarly
  <2>1. CASE a = f.algo
    <3>1. view'[a].tick = cursor[a]
      BY <1>4, <1>9, <2>1
    <3> QED
      BY <1>1, <3>1 DEF BaseIsCursor
  <2>2. CASE a # f.algo
    BY <1>4, <2>2 DEF Exact, Inv, NeverEarly
  <2> QED
    BY <2>1, <2>2
<1>11. ViewExact'
  <2> SUFFICES ASSUME NEW a \in Algos, view'[a].tick > 0
               PROVE  /\ view'[a].tick \in DOMAIN ticks[a]
                      /\ view'[a].buckets = buckets(ticks[a][view'[a].tick])
    BY <1>1 DEF ViewExact
  <2>1. CASE a = f.algo
    <3>1. view'[a].tick = cursor[a] /\ view'[a].buckets = lastBuckets[a]
      BY <1>4, <1>9, <2>1
    <3>2. /\ DOMAIN ticks[a] = 1 .. Len(ticks[a]) /\ Len(ticks[a]) \in Nat
          /\ cursor[a] \in Nat /\ cursor[a] <= Len(ticks[a])
          /\ cursor[a] # 0 => lastBuckets[a] = buckets(ticks[a][cursor[a]])
      BY <1>1, TypeFacts DEF BaseIsCursor
    <3> QED
      BY <3>1, <3>2
  <2>2. CASE a # f.algo
    BY <1>4, <2>2 DEF Exact, ViewExact
  <2> QED
    BY <2>1, <2>2
<1> QED
  BY <1>6, <1>7, <1>8, <1>10, <1>11 DEF Exact, Inv

LEMMA WriteFailsKeeps == ASSUME Exact, WriteFails PROVE Exact'
<1>1. /\ pc \in {"snapshots", "frames"} /\ pc' = "joining" /\ out' = << >> /\ outcome' = "broken"
      /\ UNCHANGED <<run, sim, ticks, finished, err, notify, next, cursor, lastBuckets, elapsed,
                     step, cancelled, view>>
      /\ TypeOK /\ RunOutlivesSims
  BY DEF WriteFails, Goto, producerVars, bufferVars, replayVars, Exact, Inv
<1>2. TypeOK'
  BY <1>1, EmptySeq DEF TypeOK, StreamPC, Outcome
<1>3. RunOutlivesSims'
  BY <1>1 DEF RunOutlivesSims
<1>4. CleanMeansComplete' /\ EndIsFinal' /\ FramesFit'
  BY <1>1 DEF CleanMeansComplete, EndIsFinal, FramesFit, BeforeReplay, Replaying
<1>5. NeverEarly' /\ BaseIsCursor' /\ ViewExact'
  BY <1>1 DEF Exact, Inv, NeverEarly, BaseIsCursor, ViewExact
<1> QED
  BY <1>2, <1>3, <1>4, <1>5 DEF Exact, Inv

LEMMA ElapseKeeps == ASSUME Exact, Elapse PROVE Exact'
<1>1. /\ pc = "ticker" /\ pc' = "advance" /\ next' = 1 /\ out = << >>
      /\ elapsed' = Min({elapsed + step, LastTick * TickSeconds})
      /\ UNCHANGED <<run, sim, ticks, finished, err, notify, cursor, lastBuckets, step, out, outcome,
                     cancelled, view>>
      /\ TypeOK /\ RunOutlivesSims /\ FramesFit /\ Replaying
  BY DEF Elapse, Goto, producerVars, bufferVars, Exact, Inv, FramesFit, Replaying
<1>2. elapsed' \in 0 .. LastTick * TickSeconds /\ elapsed \in Nat /\ elapsed <= elapsed'
  <2>1. LastTick * TickSeconds \in Nat /\ elapsed \in 0 .. LastTick * TickSeconds /\ step \in Nat
    <3>1. LastTick \in Nat /\ TickSeconds \in Nat
      BY LastTickBounds, NumbersAssumption
    <3> QED
      BY <1>1, <3>1, NumbersAssumption DEF TypeOK
  <2> DEFINE limit == LastTick * TickSeconds
  <2> HIDE DEF limit
  <2>2. elapsed + step \in Nat /\ limit \in Nat /\ elapsed \in 0 .. limit /\ step \in Nat
    BY <2>1 DEF limit
  <2>3. elapsed' \in {elapsed + step, limit} /\ elapsed' <= limit
    BY <1>1, <2>2, SmallerOfTwo DEF limit
  <2>4. elapsed' \in 0 .. limit /\ elapsed <= elapsed'
    BY <2>2, <2>3
  <2> QED
    BY <2>2, <2>4 DEF limit
<1>3. TypeOK'
  <2>1. next' \in 1 .. n + 1 /\ pc' \in StreamPC
    <3>1. n \in Nat
      BY OrderAssumption DEF n
    <3> QED
      BY <1>1, <3>1 DEF StreamPC
  <2> QED
    BY <1>1, <1>2, <2>1 DEF TypeOK
<1>4. RunOutlivesSims' /\ CleanMeansComplete' /\ EndIsFinal'
  BY <1>1 DEF Exact, Inv, RunOutlivesSims, CleanMeansComplete, EndIsFinal
<1>5. ASSUME NEW k \in Nat, (k - 1) * TickSeconds <= elapsed PROVE (k - 1) * TickSeconds <= elapsed'
  <2>1. (k - 1) * TickSeconds \in Int
    BY NumbersAssumption
  <2> QED
    BY <1>2, <1>5, <2>1
<1>6. NeverEarly' /\ BaseIsCursor'
  <2>1. \A a \in Algos : view[a].tick \in Nat /\ cursor[a] \in Nat
    BY <1>1, TypeFacts DEF View
  <2> QED
    BY <1>1, <1>5, <2>1 DEF Exact, Inv, NeverEarly, BaseIsCursor
<1>7. FramesFit' /\ ViewExact'
  <2>1. DOMAIN out = {} /\ \A a \in Algos : view[a] = Consumed(a)
    BY <1>1 DEF FramesFit
  <2>2. \A a \in Algos : Consumed(a)' = Consumed(a)
    BY <1>1 DEF Consumed
  <2> QED
    BY <1>1, <2>1, <2>2 DEF FramesFit, BeforeReplay, Exact, ViewExact
<1> QED
  BY <1>3, <1>4, <1>6, <1>7 DEF Exact, Inv

\* A frame that is queued is for an algorithm advance has been at: none for the next.
LEMMA NextIsNotQueued ==
  ASSUME Inv, pc = "advance", next <= n
  PROVE  /\ RouterOrder[next] \in Algos /\ n \in Nat /\ next \in 1 .. n
         /\ \A i \in DOMAIN out : out[i].algo # RouterOrder[next]
<1>1. n \in Nat /\ DOMAIN RouterOrder = 1 .. n /\ next \in 1 .. n
      /\ \A k \in 1 .. n : RouterOrder[k] \in Algos
  BY OrderAssumption DEF n, Inv, TypeOK
<1>2. ASSUME NEW i \in DOMAIN out PROVE out[i].algo # RouterOrder[next]
  <2>1. PICK k \in 1 .. next - 1 : out[i].algo = RouterOrder[k]
    BY DEF Inv, FramesFit
  <2>2. k \in 1 .. n /\ k # next
    BY <1>1
  <2> QED
    BY <1>1, <2>1, <2>2, OrderAssumption DEF IsInjective
<1> QED
  BY <1>1, <1>2

LEMMA AdvanceKeeps == ASSUME Exact, Advance PROVE Exact'
<1> PICK a : a = RouterOrder[next]
  OBVIOUS
<1> PICK last : last = Max(due(a))
  OBVIOUS
<1> PICK f : f = [algo |-> a, tick |-> last, snapshot |-> FALSE,
                  segments |-> changed(ticks[a][last], lastBuckets[a])]
  OBVIOUS
<1>1. /\ pc = "advance" /\ next <= n /\ due(a) # {}
      /\ cursor' = [cursor EXCEPT ![a] = last]
      /\ out' = Append(out, f)
      /\ lastBuckets' = [lastBuckets EXCEPT ![a] = buckets(ticks[a][last])]
      /\ next' = next + 1
      /\ UNCHANGED <<run, sim, ticks, finished, err, notify, pc, elapsed, step, outcome, cancelled, view>>
  BY DEF Advance, producerVars, bufferVars
<1>2. /\ TypeOK /\ RunOutlivesSims /\ BaseIsCursor /\ FramesFit /\ Replaying
      /\ outcome = "none"
  BY <1>1 DEF Exact, Inv, Replaying, EndIsFinal
<1>3. /\ a \in Algos /\ n \in Nat /\ next \in 1 .. n
      /\ \A i \in DOMAIN out : out[i].algo # a
  BY <1>1, NextIsNotQueued DEF Exact
<1>4. /\ out \in Seq(Frame) /\ Len(out) \in Nat /\ DOMAIN out = 1 .. Len(out) /\ view \in View
      /\ \A i \in DOMAIN out : out[i] \in Frame /\ out[i].algo \in Algos
      /\ ticks[a] \in Seq(VCs) /\ Len(ticks[a]) \in Nat /\ Len(ticks[a]) <= LastTick
      /\ DOMAIN ticks[a] = 1 .. Len(ticks[a]) /\ LastTick \in Nat
      /\ cursor[a] \in Nat /\ lastBuckets[a] \in PartialBuckets
  BY <1>2, <1>3, TypeFacts
<1>5. last \in due(a) /\ last \in 1 .. Len(ticks[a]) /\ (last - 1) * TickSeconds <= elapsed
  <2>1. due(a) \subseteq cursor[a] + 1 .. Len(ticks[a])
    BY DEF due
  <2>2. due(a) \subseteq Nat /\ \A j \in due(a) : j <= Len(ticks[a])
    BY <1>4, <2>1
  <2>3. last \in due(a)
    BY <1>1, <1>4, <2>2, MaxExists
  <2> QED
    BY <1>4, <2>1, <2>3 DEF due
<1>6. ticks[a][last] \in VCs
  BY <1>4, <1>5
<1>7. /\ f \in Frame /\ f.algo = a /\ f.tick = last /\ ~f.snapshot
      /\ f.segments = changed(ticks[a][last], lastBuckets[a])
  <2>1. f.segments \in PartialBuckets
    BY <1>4, <1>6, DeltaFits
  <2> QED
    BY <1>3, <1>4, <1>5, <2>1 DEF Frame
<1>8. /\ out' \in Seq(Frame) /\ DOMAIN out' = 1 .. Len(out) + 1
      /\ out'[Len(out) + 1] = f /\ \A i \in DOMAIN out : out'[i] = out[i]
  BY <1>1, <1>4, <1>7, AppendProperties
<1>9. /\ cursor'[a] = last /\ lastBuckets'[a] = buckets(ticks[a][last])
      /\ \A b \in Algos \ {a} : cursor'[b] = cursor[b] /\ lastBuckets'[b] = lastBuckets[b]
  BY <1>1, <1>2, <1>3 DEF TypeOK
<1>10. TypeOK'
  <2>1. cursor' \in [Algos -> 0 .. LastTick]
    BY <1>1, <1>2, <1>3, <1>4, <1>5 DEF TypeOK
  <2>2. lastBuckets' \in [Algos -> PartialBuckets]
    BY <1>1, <1>2, <1>3, <1>6, BucketsType DEF TypeOK
  <2>3. next' \in 1 .. n + 1
    BY <1>1, <1>3
  <2> QED
    BY <1>1, <1>2, <1>8, <2>1, <2>2, <2>3 DEF TypeOK
<1>11. RunOutlivesSims' /\ CleanMeansComplete' /\ EndIsFinal' /\ NeverEarly'
  BY <1>1, <1>2 DEF Exact, Inv, RunOutlivesSims, CleanMeansComplete, EndIsFinal, NeverEarly
<1>12. ViewExact'
  BY <1>1 DEF Exact, ViewExact
<1>13. BaseIsCursor'
  <2> SUFFICES ASSUME NEW b \in Algos
               PROVE  /\ cursor'[b] <= Len(ticks[b])
                      /\ lastBuckets'[b] = IF cursor'[b] = 0 THEN NoBuckets
                                           ELSE buckets(ticks[b][cursor'[b]])
                      /\ cursor'[b] > 0 => (cursor'[b] - 1) * TickSeconds <= elapsed
    BY <1>1 DEF BaseIsCursor
  <2>1. CASE b = a
    BY <1>4, <1>5, <1>9, <2>1
  <2>2. CASE b # a
    BY <1>2, <1>9, <2>2 DEF BaseIsCursor
  <2> QED
    BY <2>1, <2>2
<1>14. \A b \in Algos \ {a} : Consumed(b)' = Consumed(b)
  BY <1>9 DEF Consumed
<1>15. FramesFit'
  <2>1. reduceCongestion(view, f)[a] = Consumed(a)'
    <3>1. view[a].buckets = lastBuckets[a]
      <4>1. view[a] = Consumed(a)
        BY <1>2, <1>3 DEF FramesFit
      <4>2. Consumed(a).buckets = lastBuckets[a]
        BY DEF Consumed
      <4> QED
        BY <4>1, <4>2
    <3>2. reduceCongestion(view, f)[a] = Fold(view[a], f)
      BY <1>4, <1>7, FoldProperties
    <3>3. Fold(view[a], f) = [tick |-> last, buckets |-> buckets(ticks[a][last])]
      <4> DEFINE d == changed(ticks[a][last], lastBuckets[a])
      <4>1. [s \in DOMAIN d \cup DOMAIN lastBuckets[a] |->
               IF s \in DOMAIN d THEN d[s] ELSE lastBuckets[a][s]] = buckets(ticks[a][last])
        BY <1>4, <1>6, DeltaFits
      <4>2. f.segments = d
        BY <1>7
      <4> HIDE DEF d
      <4> QED
        BY <1>7, <3>1, <4>1, <4>2 DEF Fold
    <3> QED
      BY <3>2, <3>3, <1>9 DEF Consumed
  <2>2. ASSUME NEW i \in DOMAIN out'
        PROVE  reduceCongestion(view, out'[i])[out'[i].algo] = Consumed(out[i].algo)'
    <3>1. CASE i = Len(out) + 1
      BY <1>7, <1>8, <2>1, <3>1 DEF Consumed
    <3>2. CASE i # Len(out) + 1
      <4>1. i \in DOMAIN out /\ out'[i] = out[i] /\ out[i].algo \in Algos \ {a}
        BY <1>3, <1>4, <1>8, <3>2
      <4>2. reduceCongestion(view, out[i])[out[i].algo] = Consumed(out[i].algo)
        BY <1>2, <4>1 DEF FramesFit
      <4> QED
        BY <1>9, <4>1, <4>2 DEF Consumed
    <3> QED
      BY <3>1, <3>2
  <2>3. ASSUME NEW b \in Algos
        PROVE  view[b] = Consumed(b)' \/ \E i \in DOMAIN out' : out'[i].algo = b
    <3>1. CASE b = a
      <4>1. Len(out) + 1 \in DOMAIN out' /\ out'[Len(out) + 1].algo = b
        BY <1>4, <1>7, <1>8, <3>1
      <4> QED
        BY <4>1
    <3>2. CASE b # a
      <4>1. view[b] = Consumed(b) \/ \E i \in DOMAIN out : out[i].algo = b
        BY <1>2 DEF FramesFit
      <4>2. \A i \in DOMAIN out : i \in DOMAIN out' /\ out'[i] = out[i]
        BY <1>4, <1>8
      <4> QED
        BY <1>14, <3>2, <4>1, <4>2
    <3> QED
      BY <3>1, <3>2
  <2>4. \A i, j \in DOMAIN out' : out'[i].algo = out'[j].algo => i = j
    <3>1. \A i \in DOMAIN out' : i = Len(out) + 1 \/ i \in DOMAIN out
      BY <1>4, <1>8
    <3>2. \A i, j \in DOMAIN out : out[i].algo = out[j].algo => i = j
      BY <1>2 DEF FramesFit
    <3> QED
      BY <3>1, <3>2, <1>3, <1>7, <1>8
  <2>5. ASSUME NEW i \in DOMAIN out' PROVE \E k \in 1 .. next' - 1 : out'[i].algo = RouterOrder[k]
    <3>1. CASE i = Len(out) + 1
      <4>1. next \in 1 .. next' - 1 /\ out'[i].algo = RouterOrder[next]
        BY <1>1, <1>3, <1>7, <1>8, <3>1
      <4> QED
        BY <4>1
    <3>2. CASE i # Len(out) + 1
      <4>1. i \in DOMAIN out /\ out'[i] = out[i]
        BY <1>4, <1>8, <3>2
      <4>2. PICK k \in 1 .. next - 1 : out[i].algo = RouterOrder[k]
        BY <1>1, <1>2, <4>1 DEF FramesFit
      <4>3. k \in 1 .. next' - 1
        BY <1>1, <1>3
      <4> QED
        BY <4>1, <4>2, <4>3
    <3> QED
      BY <3>1, <3>2
  <2> QED
    <3>1. /\ pc' = "advance" /\ ~BeforeReplay' /\ view' = view
          /\ pc' \notin {"ticker", "done", "final"}
      BY <1>1 DEF BeforeReplay
    <3>2. \A i \in DOMAIN out' :
             reduceCongestion(view', out'[i])[out'[i].algo] = Consumed(out[i].algo)'
      BY <2>2, <3>1
    <3>3. \A b \in Algos : view'[b] = Consumed(b)' \/ \E i \in DOMAIN out' : out'[i].algo = b
      BY <2>3, <3>1
    <3> QED
      BY <2>4, <2>5, <3>1, <3>2, <3>3 DEF FramesFit
<1> QED
  BY <1>10, <1>11, <1>12, <1>13, <1>15 DEF Exact, Inv

LEMMA AdvanceNothingDueKeeps == ASSUME Exact, AdvanceNothingDue PROVE Exact'
<1>1. /\ pc = "advance" /\ next <= n /\ next' = next + 1
      /\ UNCHANGED <<run, sim, ticks, finished, err, notify, pc, cursor, lastBuckets, elapsed, step, out,
                     outcome, cancelled, view>>
      /\ TypeOK /\ FramesFit /\ n \in Nat /\ next \in 1 .. n
  BY NextIsNotQueued DEF AdvanceNothingDue, producerVars, bufferVars, Exact, Inv
<1>2. next' \in 1 .. n + 1
  BY <1>1
<1>3. TypeOK'
  BY <1>1, <1>2 DEF TypeOK
<1>4. /\ RunOutlivesSims' /\ CleanMeansComplete' /\ EndIsFinal' /\ NeverEarly' /\ BaseIsCursor'
      /\ ViewExact'
  BY <1>1 DEF Exact, Inv, RunOutlivesSims, CleanMeansComplete, EndIsFinal, NeverEarly, BaseIsCursor,
              ViewExact, drained
<1>5. FramesFit'
  <2>1. 1 .. next - 1 \subseteq 1 .. next' - 1
    BY <1>1
  <2>2. \A b \in Algos : Consumed(b)' = Consumed(b)
    BY <1>1 DEF Consumed
  <2>3. \A i \in DOMAIN out : out[i].algo \in Algos
    BY <1>1, TypeFacts
  <2> QED
    BY <1>1, <2>1, <2>2, <2>3 DEF FramesFit, BeforeReplay, Replaying
<1> QED
  BY <1>3, <1>4, <1>5 DEF Exact, Inv

LEMMA AdvancedKeeps == ASSUME Exact, Advanced PROVE Exact'
<1>1. /\ pc = "advance" /\ pc' = "frames" /\ next' = 1
      /\ UNCHANGED <<run, sim, ticks, finished, err, notify, cursor, lastBuckets, elapsed, step, out,
                     outcome, cancelled, view>>
      /\ TypeOK /\ FramesFit
  BY DEF Advanced, Goto, producerVars, bufferVars, Exact, Inv
<1>2. next' \in 1 .. n + 1
  <2>1. n \in Nat
    BY OrderAssumption DEF n
  <2> QED
    BY <1>1, <2>1
<1>3. TypeOK'
  BY <1>1, <1>2 DEF TypeOK, StreamPC
<1>4. /\ RunOutlivesSims' /\ CleanMeansComplete' /\ EndIsFinal' /\ NeverEarly' /\ BaseIsCursor'
      /\ ViewExact'
  BY <1>1 DEF Exact, Inv, RunOutlivesSims, CleanMeansComplete, EndIsFinal, NeverEarly, BaseIsCursor,
              ViewExact
<1>5. FramesFit'
  <2>1. \A b \in Algos : Consumed(b)' = Consumed(b)
    BY <1>1 DEF Consumed
  <2>2. \A i \in DOMAIN out : out[i].algo \in Algos
    BY <1>1, TypeFacts
  <2> QED
    BY <1>1, <2>1, <2>2 DEF FramesFit, BeforeReplay, Replaying
<1> QED
  BY <1>3, <1>4, <1>5 DEF Exact, Inv

-----------------------------------------------------------------------------
LEMMA StepKeeps == Exact /\ [Next]_vars => Exact'
<1> SUFFICES ASSUME Exact, [Next]_vars PROVE Exact'
  OBVIOUS
<1>1. CASE UNCHANGED vars
  <2>1. UNCHANGED <<run, sim, ticks, finished, err, notify, pc, next, cursor, lastBuckets, elapsed,
                    step, out, outcome, cancelled, view>>
    BY <1>1 DEF vars, producerVars, bufferVars, replayVars
  <2>2. StaysInPhase
    BY <2>1 DEF StaysInPhase, BeforeReplay, Replaying, Exact, Inv, FramesFit
  <2>3. TypeOK'
    BY <2>1 DEF Exact, Inv, TypeOK
  <2>4. RunOutlivesSims' /\ CleanMeansComplete' /\ EndIsFinal'
    BY <2>1 DEF Exact, Inv, RunOutlivesSims, CleanMeansComplete, EndIsFinal, drained
  <2> QED
    BY <2>1, <2>2, <2>3, <2>4, QuietKeeps DEF Exact, Inv
<1>2. CASE Next
  <2>1. CASE (\E a \in Algos : Simulation(a)) \/ Producer
    BY <2>1, EmitKeeps, GoroutineKeeps DEF Simulation
  <2>2. CASE Admit \/ Disconnect
    BY <2>2, ControlKeeps DEF Control
  <2>3. CASE Handler
    BY <2>3, ControlKeeps, BuildSnapshotsKeeps, WriteFrameKeeps, WriteFailsKeeps, ElapseKeeps,
       AdvanceKeeps, AdvanceNothingDueKeeps, AdvancedKeeps DEF Handler, Control
  <2>4. CASE Over
    BY <2>4, <1>1 DEF Over
  <2> QED
    BY <1>2, <2>1, <2>2, <2>3, <2>4 DEF Next
<1> QED
  BY <1>1, <1>2

LEMMA AlwaysExact == Spec => []Exact
BY InitExact, StepKeeps, PTL DEF Spec

\* The typed state, the replay never early, a clean end complete, for every number of
\* algorithms, segments, buckets and ticks.
THEOREM InvariantHolds == Spec => []Inv
<1>1. Exact => Inv
  BY DEF Exact
<1> QED
  BY <1>1, AlwaysExact, PTL

\* The delta-correctness of /stream: what the client shows for an algorithm is exactly
\* the bucketed state of the tick it believes it shows.
THEOREM ViewAlwaysExact == Spec => []ViewExact
<1>1. Exact => ViewExact
  BY DEF Exact
<1> QED
  BY <1>1, AlwaysExact, PTL

-----------------------------------------------------------------------------
\* A connection takes, keeps and returns its slot as StreamAdmission says, and its run
\* is over before the slot is free: the admission control may be reasoned about alone.
THEOREM ImplementsStreamAdmission == Spec => ImplementsAdmission
<1> DEFINE slots(p) == IF p \in {"idle", "over"} THEN 0 ELSE 1
           where(p) == CASE p \in {"idle", "over"}                -> "idle"
                         [] p \in {"held", "joining", "leaving"}  -> p
                         [] OTHER                                 -> "live"
           live(r) == IF r \in {"none", "returned"} THEN {} ELSE {"conn"}
           conns(p) == [c \in {"conn"} |-> where(p)]
<1>1. Init => Admission!Init
  BY DEF Init, Admission!Init
<1>2. ASSUME Inv, [Next]_vars PROVE [Admission!Next]_(Admission!vars)
  <2>1. ASSUME UNCHANGED <<pc, run>> PROVE UNCHANGED Admission!vars
    BY <2>1 DEF Admission!vars
  <2>2. ASSUME where(pc') = where(pc), slots(pc') = slots(pc), live(run') = live(run)
        PROVE  UNCHANGED Admission!vars
    BY <2>2 DEF Admission!vars
  <2>3. CASE Admit
    <3>1. Admission!Acquire("conn")
      BY <2>3, <1>2 DEF Admit, Goto, Admission!Acquire, producerVars
    <3> QED
      BY <3>1 DEF Admission!Next
  <2>4. CASE AcceptFails
    <3>1. Admission!AcceptFails("conn")
      BY <2>4, <1>2 DEF AcceptFails, Goto, Admission!AcceptFails, producerVars
    <3> QED
      BY <3>1 DEF Admission!Next, Admission!Server
  <2>5. CASE Launch
    <3>1. Admission!Upgrade("conn")
      BY <2>5, <1>2 DEF Launch, Goto, Admission!Upgrade, Inv, RunOutlivesSims
    <3> QED
      BY <3>1 DEF Admission!Next, Admission!Server
  <2>6. CASE FinishSignals
    <3>1. Admission!RunReturns("conn")
      BY <2>6, <1>2 DEF FinishSignals, Admission!RunReturns
    <3> QED
      BY <3>1 DEF Admission!Next, Admission!Server
  <2>7. CASE Join
    <3>1. Admission!Join("conn")
      BY <2>7, <1>2 DEF Join, Goto, Admission!Join, producerVars
    <3> QED
      BY <3>1 DEF Admission!Next, Admission!Server
  <2>8. CASE Release
    <3>1. Admission!Release("conn")
      BY <2>8, <1>2 DEF Release, Goto, Admission!Release, producerVars
    <3> QED
      BY <3>1 DEF Admission!Next, Admission!Server
  <2>9. CASE WaitCancelled \/ TerminalGate \/ WriteFails \/ ReplayCancelled \/ FinalErr
    <3>1. /\ pc \in {"parked", "gate", "snapshots", "frames", "ticker", "final"}
          /\ pc' \in {"joining", "build"} /\ run' = run
      BY <2>9 DEF WaitCancelled, TerminalGate, WriteFails, ReplayCancelled, FinalErr, Goto, producerVars
    <3>2. CASE pc' = "joining"
      <4>1. Admission!Leave("conn")
        BY <3>1, <3>2 DEF Admission!Leave
      <4> QED
        BY <4>1 DEF Admission!Next, Admission!Server
    <3>3. CASE pc' = "build"
      BY <3>1, <3>3, <2>2
    <3> QED
      BY <3>1, <3>2, <3>3
  <2>10. CASE \/ CheckFirstTicks \/ Woken \/ BuildSnapshots \/ WriteFrame \/ FramesWritten
              \/ Elapse \/ Advance \/ AdvanceNothingDue \/ Advanced \/ CheckDone
    <3>1. /\ where(pc) = "live" /\ slots(pc) = 1 /\ run' = run
          /\ where(pc') = "live" /\ slots(pc') = 1
      BY <2>10 DEF CheckFirstTicks, Woken, BuildSnapshots, WriteFrame, FramesWritten, Elapse,
                   Advance, AdvanceNothingDue, Advanced, CheckDone, Goto, producerVars
    <3> QED
      BY <3>1, <2>2
  <2>11. CASE \/ \E a \in Algos : Simulation(a)
              \/ StartSims \/ ReferenceFails \/ Collect \/ Finish \/ Disconnect
    <3>1. pc' = pc /\ live(run') = live(run)
      BY <2>11 DEF Simulation, Emit, Signal, SimFails, StartSims, ReferenceFails, Collect, Finish,
                   Disconnect, producerVars
    <3> QED
      BY <3>1, <2>2
  <2>12. CASE Over \/ UNCHANGED vars
    <3>1. UNCHANGED <<pc, run>>
      BY <2>12 DEF Over, vars, producerVars
    <3> QED
      BY <3>1, <2>1
  <2> QED
    BY <1>2, <2>3, <2>4, <2>5, <2>6, <2>7, <2>8, <2>9, <2>10, <2>11, <2>12
       DEF Next, Producer, Handler
<1> QED
  BY <1>1, <1>2, InvariantHolds, PTL DEF Spec, ImplementsAdmission, Admission!Spec

-----------------------------------------------------------------------------
(* The browser's session (WebSession). *)

\* The cleanup closes what is open and keeps every other state.
LEMMA ClosedProperties ==
  ASSUME SessionTypeOK
  PROVE  /\ closed(sockets, attached) \in Seq(SocketState)
         /\ Len(closed(sockets, attached)) = Len(sockets)
         /\ \A s \in DOMAIN sockets :
               closed(sockets, attached)[s] =
                   IF s = attached /\ sockets[s] \in {"connecting", "open"} THEN "closing" ELSE sockets[s]
<1>1. sockets \in Seq(SocketState) /\ attached \in 0 .. Len(sockets) /\ Len(sockets) \in Nat
      /\ DOMAIN sockets = 1 .. Len(sockets)
  BY DEF SessionTypeOK
<1>2. CASE attached # 0 /\ sockets[attached] \in {"connecting", "open"}
  <2>1. attached \in 1 .. Len(sockets) /\ "closing" \in SocketState
    BY <1>1, <1>2 DEF SocketState
  <2>2. closed(sockets, attached) = [sockets EXCEPT ![attached] = "closing"]
    BY <1>2 DEF closed
  <2> QED
    BY <1>1, <1>2, <2>1, <2>2, ExceptSeq
<1>3. CASE ~(attached # 0 /\ sockets[attached] \in {"connecting", "open"})
  <2>1. closed(sockets, attached) = sockets
    BY <1>3 DEF closed
  <2> QED
    BY <1>1, <1>3, <2>1
<1> QED
  BY <1>2, <1>3

LEMMA InitInv == SessionInit => IInv
<1> SUFFICES ASSUME SessionInit PROVE IInv
  OBVIOUS
<1>1. SessionTypeOK
  <2>1. query \in [Sliders -> Values] /\ draft \in [Sliders -> Values]
    BY SessionAssumption DEF SessionInit
  <2>2. running \in BOOLEAN /\ status \in ConnStatus
    BY DEF SessionInit, ConnStatus
  <2>3. rendered \in [running : BOOLEAN, status : ConnStatus, query : [Sliders -> Values]]
    BY <2>1, <2>2 DEF SessionInit, Snapshot
  <2>4. sockets \in Seq(SocketState) /\ Len(sockets) = 0
    BY EmptySeq DEF SessionInit
  <2>5. 0 <= MaxSockets
    BY SessionAssumption
  <2>6. attached \in 0 .. Len(sockets) /\ Len(sockets) <= MaxSockets
    BY <2>4, <2>5 DEF SessionInit
  <2>7. timer \subseteq Sliders /\ painted \subseteq DOMAIN sockets
        /\ asked \in {"start", "stop"} /\ over \in BOOLEAN /\ url \in [Sliders -> Values]
    BY <2>1 DEF SessionInit
  <2> QED
    BY <2>1, <2>2, <2>3, <2>4, <2>6, <2>7 DEF SessionTypeOK
<1>2. SocketFollowsRender
  BY DEF SessionInit, SocketFollowsRender, Snapshot
<1>3. OnePainter /\ StopIsDue /\ OnlyCommitted /\ CommittedIsShown /\ RoomForNext
  BY DEF SessionInit, OnePainter, StopIsDue, OnlyCommitted, CommittedIsShown, RoomForNext, Snapshot
<1> QED
  BY <1>1, <1>2, <1>3 DEF IInv

\* What the last render read is what the store holds.
LEMMA SettledFields ==
  ASSUME Settled
  PROVE  rendered.running = running /\ rendered.status = status /\ rendered.query = query
BY DEF Settled, Snapshot

-----------------------------------------------------------------------------
\* The user and the timers leave the socket alone.
LEMMA ToggleKeeps == IInv /\ Toggle => IInv'
<1> SUFFICES ASSUME IInv, Toggle PROVE IInv'
  OBVIOUS
<1>1. /\ rendered.running = running /\ rendered.query = query
      /\ running' = ~running /\ running \in BOOLEAN /\ (running \/ Room)
      /\ UNCHANGED <<status, query, painted, draft, timer, rendered, sockets, attached, url>>
  BY SettledFields DEF Toggle, IInv, SessionTypeOK, controls, connection
<1>2. SessionTypeOK'
  BY <1>1 DEF IInv, SessionTypeOK, Toggle
<1>3. SocketFollowsRender' /\ OnePainter' /\ OnlyCommitted' /\ CommittedIsShown'
  BY <1>1 DEF IInv, SocketFollowsRender, OnePainter, OnlyCommitted, CommittedIsShown
<1>4. StopIsDue' /\ RoomForNext'
  BY <1>1 DEF StopIsDue, RoomForNext, Room
<1> QED
  BY <1>2, <1>3, <1>4 DEF IInv

LEMMA DragKeeps == ASSUME IInv, NEW s \in Sliders, Drag(s) PROVE IInv'
<1>1. /\ rendered.running = running /\ rendered.query = query
      /\ UNCHANGED <<running, status, query, painted, rendered, sockets, attached, url, asked, over>>
  BY SettledFields DEF Drag, store, connection
<1>2. SessionTypeOK'
  BY <1>1 DEF IInv, SessionTypeOK, Drag
<1>3. SocketFollowsRender' /\ OnePainter'
  BY <1>1 DEF IInv, SocketFollowsRender, OnePainter
<1>4. StopIsDue' /\ OnlyCommitted' /\ RoomForNext'
  BY <1>1 DEF IInv, StopIsDue, OnlyCommitted, RoomForNext, HookRuns
<1>5. CommittedIsShown'
  <2>1. timer' = timer \cup {s} /\ \A t \in Sliders \ {s} : draft'[t] = draft[t]
    BY DEF Drag, IInv, SessionTypeOK
  <2> QED
    BY <1>1, <2>1 DEF IInv, CommittedIsShown
<1> QED
  BY <1>2, <1>3, <1>4, <1>5 DEF IInv

LEMMA CommitKeeps == ASSUME IInv, NEW s \in Sliders, Commit(s) PROVE IInv'
<1>1. /\ rendered.running = running /\ rendered.query = query
      /\ query' = [query EXCEPT ![s] = draft[s]] /\ timer' = timer \ {s} /\ (~running \/ Room)
      /\ UNCHANGED <<running, status, painted, draft, rendered, sockets, attached, url, asked, over>>
  BY SettledFields DEF Commit, connection
<1>2. SessionTypeOK'
  BY <1>1 DEF IInv, SessionTypeOK
<1>3. SocketFollowsRender' /\ OnePainter'
  BY <1>1 DEF IInv, SocketFollowsRender, OnePainter
<1>4. StopIsDue' /\ RoomForNext'
  BY <1>1 DEF IInv, StopIsDue, RoomForNext, Room
<1>5. OnlyCommitted'
  BY <1>1 DEF IInv, SessionTypeOK, OnlyCommitted
<1>6. CommittedIsShown'
  BY <1>1 DEF IInv, SessionTypeOK, CommittedIsShown
<1> QED
  BY <1>2, <1>3, <1>4, <1>5, <1>6 DEF IInv

\* An event of a socket that is not attached changes that socket alone, and none opens.
LEMMA EventKeeps ==
  ASSUME IInv, Settled, NEW s \in DOMAIN sockets, NEW to \in {"open", "closed"}, NEW new \in ConnStatus,
         sockets' = [sockets EXCEPT ![s] = to], SetStatus(s, new),
         to = "open" => sockets[s] = "connecting" /\ new = "open",
         to = "closed" => new \in Terminal
  PROVE  IInv'
<1>1. /\ rendered.running = running /\ rendered.query = query /\ rendered.status = status
      /\ status' = (IF s = attached THEN new ELSE status) /\ over' \in BOOLEAN
      /\ UNCHANGED <<running, query, painted, draft, timer, rendered, attached, url, asked>>
  BY SettledFields DEF SetStatus, controls, IInv, SessionTypeOK
<1>2. /\ sockets \in Seq(SocketState) /\ sockets' \in Seq(SocketState) /\ Len(sockets') = Len(sockets)
      /\ DOMAIN sockets' = DOMAIN sockets /\ s # 0 /\ attached \in 0 .. Len(sockets)
      /\ \A i \in DOMAIN sockets : sockets'[i] = IF i = s THEN to ELSE sockets[i]
  <2>1. to \in SocketState /\ sockets \in Seq(SocketState) /\ attached \in 0 .. Len(sockets)
    BY DEF SocketState, IInv, SessionTypeOK
  <2> QED
    BY <2>1, ExceptSeq
<1>3. SessionTypeOK'
  BY <1>1, <1>2 DEF IInv, SessionTypeOK
<1>4. SocketFollowsRender'
  <2>1. rendered'.running <=> attached' # 0
    BY <1>1 DEF IInv, SocketFollowsRender
  <2>2. attached' # 0 => attached' = Len(sockets')
    BY <1>1, <1>2 DEF IInv, SocketFollowsRender
  <2>3. \A i \in DOMAIN sockets' : sockets'[i] \in {"connecting", "open"} => i = attached'
    BY <1>1, <1>2 DEF IInv, SocketFollowsRender
  <2>4. attached' # 0 => \/ sockets'[attached'] \in {"connecting", "open"} /\ status' = sockets'[attached']
                         \/ sockets'[attached'] = "closed" /\ status' \in Terminal
    <3>1. CASE s = attached
      BY <1>1, <1>2, <3>1
    <3>2. CASE s # attached
      <4>1. attached # 0 => attached \in DOMAIN sockets
        BY <1>2
      <4> QED
        BY <1>1, <1>2, <3>2, <4>1 DEF IInv, SocketFollowsRender
    <3> QED
      BY <3>1, <3>2
  <2>5. attached' = 0 => status' \notin {"connecting", "open"}
    BY <1>1, <1>2 DEF IInv, SocketFollowsRender
  <2> QED
    BY <2>1, <2>2, <2>3, <2>4, <2>5, <1>1 DEF SocketFollowsRender, Terminal
<1>5. OnePainter' /\ OnlyCommitted' /\ RoomForNext'
  BY <1>1, <1>2 DEF IInv, OnePainter, OnlyCommitted, RoomForNext, HookRuns, Room
<1>6. StopIsDue' /\ CommittedIsShown'
  BY <1>1 DEF IInv, StopIsDue, CommittedIsShown
<1> QED
  BY <1>3, <1>4, <1>5, <1>6 DEF IInv

LEMMA FrameKeeps == ASSUME IInv, NEW s \in DOMAIN sockets, FrameArrives(s) PROVE IInv'
<1>1. /\ painted' = (IF s = attached THEN painted \cup {s} ELSE painted)
      /\ UNCHANGED <<running, status, query, draft, timer, rendered, sockets, attached, url, asked, over>>
  BY DEF FrameArrives, controls, connection
<1>2. SessionTypeOK'
  BY <1>1 DEF IInv, SessionTypeOK
<1>3. OnePainter'
  <2>1. s # 0
    BY DEF IInv, SessionTypeOK
  <2> QED
    BY <1>1, <2>1 DEF IInv, OnePainter
<1>4. SocketFollowsRender' /\ StopIsDue' /\ OnlyCommitted' /\ CommittedIsShown' /\ RoomForNext'
  BY <1>1 DEF IInv, SocketFollowsRender, StopIsDue, OnlyCommitted, CommittedIsShown, RoomForNext, HookRuns, Room
<1> QED
  BY <1>2, <1>3, <1>4 DEF IInv

LEMMA SocketEventKeeps == ASSUME IInv, NEW s \in DOMAIN sockets, SocketEvent(s) PROVE IInv'
<1>1. CASE Opens(s)
  BY <1>1, EventKeeps DEF Opens, ConnStatus
<1>2. CASE Fails(s)
  BY <1>2, EventKeeps DEF Fails, ConnStatus, Terminal
<1>3. CASE Closes(s)
  <2>1. (IF status = "error" THEN "error" ELSE "closed") \in Terminal \cap ConnStatus
    BY DEF Terminal, ConnStatus
  <2> QED
    BY <1>3, <2>1, EventKeeps DEF Closes
<1> QED
  BY <1>1, <1>2, <1>3, FrameKeeps DEF SocketEvent

-----------------------------------------------------------------------------
\* A render: the hook connects, or lets go, or is not asked; then App stops the run.
LEMMA RenderKeeps == IInv /\ Render => IInv'
<1> SUFFICES ASSUME IInv, Render PROVE IInv'
  OBVIOUS
<1>1. /\ rendered'.running = running /\ rendered'.status = status /\ rendered'.query = query
      /\ rendered' = Snapshot
      /\ running' = (running /\ ~(StopRuns /\ status \in Terminal))
      /\ running' \in BOOLEAN
      /\ UNCHANGED <<query, draft, timer, asked, over>>
  BY DEF Render, Snapshot, AutoStop, controls, IInv, SessionTypeOK
<1>2. OnlyCommitted' /\ RoomForNext'
  BY <1>1 DEF OnlyCommitted, RoomForNext, HookRuns
<1>3. SessionTypeOK => rendered' \in [running : BOOLEAN, status : ConnStatus, query : [Sliders -> Values]]
  BY <1>1 DEF SessionTypeOK, Snapshot
<1>4. CASE ~HookRuns
  <2>1. /\ UNCHANGED <<status, painted, sockets, attached, url>>
        /\ running = rendered.running /\ query = rendered.query
    BY <1>4 DEF Render, HookRuns, connection
  <2>2. SessionTypeOK'
    BY <1>1, <1>3, <2>1 DEF IInv, SessionTypeOK
  <2>3. SocketFollowsRender' /\ OnePainter'
    BY <1>1, <2>1 DEF IInv, SocketFollowsRender, OnePainter
  <2>4. StopIsDue' /\ CommittedIsShown'
    BY <1>1, <2>1 DEF IInv, StopIsDue, StopRuns, CommittedIsShown
  <2> QED
    BY <1>2, <2>2, <2>3, <2>4 DEF IInv
<1>5. CASE HookRuns /\ running
  <2> DEFINE before == closed(sockets, attached)
  <2>1. /\ painted' = {} /\ status' = "connecting"
        /\ sockets' = Append(before, "connecting") /\ attached' = Len(sockets')
        /\ url' = query
    BY <1>5 DEF Render, Connect
  <2>2. /\ before \in Seq(SocketState) /\ Len(before) = Len(sockets)
        /\ \A s \in DOMAIN sockets : before[s] \notin {"connecting", "open"}
    BY ClosedProperties DEF IInv, SocketFollowsRender
  <2>3. Len(sockets) < MaxSockets /\ Len(sockets) \in Nat /\ DOMAIN sockets = 1 .. Len(sockets)
        /\ MaxSockets \in Nat
    BY <1>5, SessionAssumption DEF IInv, RoomForNext, Room, SessionTypeOK
  <2> HIDE DEF before
  <2>4. /\ sockets' \in Seq(SocketState) /\ Len(sockets') = Len(sockets) + 1
        /\ DOMAIN sockets' = 1 .. (Len(sockets) + 1) /\ sockets'[Len(sockets) + 1] = "connecting"
        /\ \A s \in 1 .. Len(sockets) : sockets'[s] = before[s]
    <3>1. "connecting" \in SocketState
      BY DEF SocketState
    <3> QED
      BY <2>1, <2>2, <3>1, AppendProperties
  <2>5. SessionTypeOK'
    BY <1>1, <1>3, <2>1, <2>3, <2>4 DEF IInv, SessionTypeOK, ConnStatus
  <2>6. SocketFollowsRender'
    BY <1>1, <1>5, <2>1, <2>2, <2>3, <2>4 DEF SocketFollowsRender
  <2>7. OnePainter' /\ StopIsDue' /\ CommittedIsShown'
    BY <1>1, <2>1 DEF IInv, OnePainter, StopIsDue, CommittedIsShown, Terminal
  <2> QED
    BY <1>2, <2>5, <2>6, <2>7 DEF IInv
<1>6. CASE HookRuns /\ ~running
  <2>1. /\ status' = (IF status \in Terminal THEN status ELSE "idle")
        /\ sockets' = closed(sockets, attached) /\ attached' = 0 /\ painted' = painted
        /\ url' = url
    BY <1>6 DEF Render, HoldClosed
  <2>2. /\ sockets' \in Seq(SocketState) /\ Len(sockets') = Len(sockets)
        /\ DOMAIN sockets' = DOMAIN sockets
        /\ \A s \in DOMAIN sockets : sockets'[s] \notin {"connecting", "open"}
    BY <2>1, ClosedProperties DEF IInv, SocketFollowsRender, SessionTypeOK
  <2>3. SessionTypeOK'
    BY <1>1, <1>3, <2>1, <2>2 DEF IInv, SessionTypeOK, ConnStatus
  <2>4. SocketFollowsRender' /\ OnePainter' /\ StopIsDue' /\ CommittedIsShown'
    BY <1>1, <1>6, <2>1, <2>2
       DEF IInv, SocketFollowsRender, OnePainter, StopIsDue, CommittedIsShown, Terminal
  <2> QED
    BY <1>2, <2>3, <2>4 DEF IInv
<1> QED
  BY <1>4, <1>5, <1>6

LEMMA SessionStepKeeps == IInv /\ [SessionNext]_sessionVars => IInv'
<1> SUFFICES ASSUME IInv, [SessionNext]_sessionVars PROVE IInv'
  OBVIOUS
<1>1. CASE UNCHANGED sessionVars
  BY <1>1 DEF sessionVars, store, controls, connection, IInv, SessionTypeOK, SocketFollowsRender, OnePainter,
              StopIsDue, OnlyCommitted, CommittedIsShown, RoomForNext, HookRuns, Room
<1> QED
  BY <1>1, ToggleKeeps, DragKeeps, CommitKeeps, RenderKeeps, SocketEventKeeps DEF SessionNext

-----------------------------------------------------------------------------
\* The socket belongs to the last render, one connection paints, a terminal status is
\* still to be acted upon, and the query holds the value of every slider that was let go.
THEOREM SessionInvariantHolds == SessionSpec => []IInv
BY InitInv, SessionStepKeeps, PTL DEF SessionSpec

\* The page holds at most one connection and never paints two scenarios.
THEOREM AlwaysOneConnection == SessionSpec => []OneConnection
<1>1. IInv => OneConnection
  <2> SUFFICES ASSUME IInv PROVE OneConnection
    OBVIOUS
  <2>1. \A s \in DOMAIN sockets : sockets[s] \in {"connecting", "open"} => s = Len(sockets)
    BY DEF IInv, SessionTypeOK, SocketFollowsRender
  <2>2. Cardinality(painted) <= 1
    <3>1. CASE painted = {}
      BY <3>1, FS_EmptySet
    <3>2. CASE painted # {}
      <4>1. PICK s \in painted : painted = {s}
        BY <3>2 DEF IInv, OnePainter
      <4> QED
        BY <4>1, FS_Singleton
    <3> QED
      BY <3>1, <3>2
  <2> QED
    BY <2>1, <2>2 DEF IInv, OnePainter, OneConnection
<1> QED
  BY <1>1, SessionInvariantHolds, PTL

\* Between events the button, the pill and the socket agree.
THEOREM AlwaysAgree == SessionSpec => []SettledAgree
<1>1. IInv => SettledAgree
  <2> SUFFICES ASSUME IInv, Settled
               PROVE  /\ running <=> attached # 0
                      /\ running => status \in {"connecting", "open"} /\ status = sockets[attached]
                      /\ ~running => status \notin {"connecting", "open"}
    BY DEF SettledAgree
  <2> QED
    BY SettledFields DEF IInv, SocketFollowsRender, StopIsDue
<1> QED
  BY <1>1, SessionInvariantHolds, PTL

\* A run whose sliders have settled is the run of the values they show, whatever order
\* drags, timers, Start, Stop and the ends of earlier runs came in.
THEOREM AlwaysRunsWhatIsShown == SessionSpec => []RunIsWhatIsShown
<1>1. IInv => RunIsWhatIsShown
  BY SettledFields DEF IInv, CommittedIsShown, RunIsWhatIsShown
<1> QED
  BY <1>1, SessionInvariantHolds, PTL

\* No step opens a socket for a slider whose settle timer is still running.
THEOREM NeverReconnectsMidDrag == SessionSpec => NoReconnectMidDrag
<1>1. ASSUME IInv, [SessionNext]_sessionVars, Len(sockets') > Len(sockets)
      PROVE  \/ ~rendered.running
             \/ \E s \in Sliders : s \notin timer /\ rendered.query[s] # draft[s]
  <2>1. Len(sockets) \in Nat
    BY DEF IInv, SessionTypeOK
  <2>2. sockets' # sockets
    BY <1>1, <2>1
  <2>3. ASSUME NEW s \in DOMAIN sockets, SocketEvent(s) PROVE FALSE
    <3>1. sockets' = sockets \/ \E to \in SocketState : sockets' = [sockets EXCEPT ![s] = to]
      BY <2>3 DEF SocketEvent, Opens, FrameArrives, Fails, Closes, SocketState, connection
    <3>2. ASSUME NEW to \in SocketState, sockets' = [sockets EXCEPT ![s] = to] PROVE FALSE
      BY <3>2, <1>1, ExceptSeq DEF IInv, SessionTypeOK
    <3> QED
      BY <2>2, <3>1, <3>2
  <2>4. Render
    BY <1>1, <2>2, <2>3 DEF SessionNext, Toggle, Drag, Commit, sessionVars, connection
  <2>5. HookRuns /\ running
    <3>1. Len(closed(sockets, attached)) = Len(sockets)
      BY <1>1, ClosedProperties DEF IInv
    <3> QED
      BY <1>1, <2>1, <2>2, <2>4, <3>1 DEF Render, HoldClosed, connection
  <2>6. CASE rendered.running
    <3>1. query # rendered.query
      BY <2>5, <2>6, <1>1 DEF HookRuns, IInv, SessionTypeOK
    <3>2. PICK s \in Sliders : query[s] # rendered.query[s]
      BY <3>1, <1>1 DEF IInv, SessionTypeOK
    <3> QED
      BY <3>2, <1>1 DEF IInv, OnlyCommitted, CommittedIsShown
  <2> QED
    BY <2>6
<1> QED
  BY <1>1, SessionInvariantHolds, PTL DEF SessionSpec, NoReconnectMidDrag
=============================================================================
