----------------------------- MODULE MonitoringProofs -----------------------------
(***************************************************************************)
(* Proofs about the two monitors of the profiler's handler.  MrcSampling,  *)
(* for every cache of 3 to 16 ways and any number of threads, cores,       *)
(* classes of service, intervals and missed reads: the partition of the    *)
(* cache, the points of a published curve and the length of a round.       *)
(* MemTraffic, for a counter of any width, bursts of up to a full turn of  *)
(* it, and any amount of traffic.                                          *)
(***************************************************************************)
EXTENDS MrcSampling, MemTraffic, FiniteSetTheorems, SequenceTheorems, TLAPS

Point == [x : Nat, y : Nat, round : Nat]
Curve == [1..NumSlices -> Point]

TypeOK ==
  /\ conf \in Configs
  /\ phases \in [Threads -> Nat]
  /\ buf \in [Threads -> Seq(Nat)]
  /\ pending \in [Threads -> Nat]
  /\ delta \in [Threads -> Nat]
  /\ misses \in Nat
  /\ monitorStart \in BOOLEAN /\ fault \in BOOLEAN /\ done \in BOOLEAN
  /\ idx \in -1..NumSlices
  /\ profiled \in Threads
  /\ invokeLen \in Nat \ {0}
  /\ sampling \in [Cores -> [ways : Nat, state : Nat]]
  /\ cos \in [Cores -> Classes]
  /\ cbm \in [Classes -> SUBSET Ways]
  /\ points \in [Threads -> Curve]
  /\ curves \in [Threads -> Nat]
  /\ published \in [Threads -> Curve \cup {<<>>}]
  /\ round \in Nat /\ start \in Nat

\* The numbers of a profile.
LEMMA Numbers ==
  ASSUME conf \in Configs
  PROVE  /\ NumThreads \in Nat /\ NumThreads > 0
         /\ NumCores \in Nat /\ NumCores >= NumThreads
         /\ NumCos \in Nat /\ NumCos >= 3
         /\ CacheWays \in 3..16 /\ CacheWays \in Nat
  BY MrcAssumption DEF Config, NumThreads, NumCores, NumCos, CacheWays

\* The plan has three slices or more, and leaves a way to the other cores in each.
LEMMA PlanFacts ==
  ASSUME conf \in Configs
  PROVE  /\ NumSlices \in Nat /\ NumSlices >= 3
         /\ \A s \in 1..NumSlices : Plan[s] \in 1..(CacheWays - 1)
<1>0. CacheWays \in 3..16
  BY Numbers
<1>1. CASE CacheWays = 16
  BY <1>1 DEF Plan, NumSlices
<1>2. CASE CacheWays = 15
  BY <1>2 DEF Plan, NumSlices
<1>3. CASE CacheWays = 14
  BY <1>3 DEF Plan, NumSlices
<1>4. CASE CacheWays = 13
  BY <1>4 DEF Plan, NumSlices
<1>5. CASE CacheWays \in 10..12
  BY <1>5 DEF Plan, NumSlices
<1>6. CASE CacheWays \in 8..9
  BY <1>6 DEF Plan, NumSlices
<1>7. CASE CacheWays \in 3..7
  BY <1>7 DEF Plan, NumSlices
<1>8. QED
  BY <1>0, <1>1, <1>2, <1>3, <1>4, <1>5, <1>6, <1>7

\* The number of ways of an interval.
LEMMA Interval ==
  ASSUME NEW a \in Int, NEW b \in Int, NEW n \in Nat \ {0}, b = a + n - 1
  PROVE  IsFiniteSet(a..b) /\ Cardinality(a..b) = n
<1>1. IsFiniteSet(a..b) /\ Cardinality(a..b) = IF a > b THEN 0 ELSE b - a + 1
  BY FS_Interval
<1>2. ~(a > b) /\ b - a + 1 = n
  OBVIOUS
<1>3. QED
  BY <1>1, <1>2

\* The slice's ways are as many as the plan says, and part of the cache.
LEMMA SliceFacts ==
  ASSUME conf \in Configs, NEW s \in 1..NumSlices
  PROVE  /\ ProfiledWays(s) \subseteq Ways /\ SharedWays(s) \subseteq Ways
         /\ IsFiniteSet(ProfiledWays(s)) /\ Cardinality(ProfiledWays(s)) = Plan[s]
<1>0. CacheWays \in 3..16 /\ Plan[s] \in 1..(CacheWays - 1) /\ NumSlices \in Nat
  BY Numbers, PlanFacts
<1>1. ProfiledWays(s) \subseteq Ways /\ SharedWays(s) \subseteq Ways
  BY <1>0 DEF ProfiledWays, SharedWays, Ways
<1>2. CASE CacheWays = 12 /\ s <= 2
  <2>1. Plan[s] = 11
    BY <1>2 DEF Plan, NumSlices
  <2>2. IsFiniteSet(1..11) /\ Cardinality(1..11) = 11
    <3>1. 1 \in Int /\ 11 \in Int /\ 11 \in Nat \ {0} /\ 11 = 1 + 11 - 1
      OBVIOUS
    <3>2. QED
      BY <3>1, Interval, Zenon
  <2>3. QED
    BY <1>1, <1>2, <2>1, <2>2 DEF ProfiledWays
<1>3. CASE ~(CacheWays = 12 /\ s <= 2)
  <2>1. IsFiniteSet(0..(Plan[s] - 1)) /\ Cardinality(0..(Plan[s] - 1)) = Plan[s]
    <3>1. Plan[s] - 1 \in Int /\ Plan[s] \in Nat \ {0} /\ Plan[s] - 1 = 0 + Plan[s] - 1
      BY <1>0
    <3>2. 0 \in Int
      OBVIOUS
    <3>3. QED
      BY <3>1, <3>2, Interval, Zenon
  <2>2. QED
    BY <1>1, <1>3, <2>1 DEF ProfiledWays
<1>4. QED
  BY <1>2, <1>3

\* The profile is the same in the next state, and all that depends on it alone.
LEMMA SameProfile ==
  ASSUME UNCHANGED conf
  PROVE  /\ Threads' = Threads /\ Cores' = Cores /\ Classes' = Classes /\ Ways' = Ways
         /\ NumThreads' = NumThreads /\ NumSlices' = NumSlices /\ Plan' = Plan /\ Curve' = Curve
         /\ \A s : ProfiledWays(s)' = ProfiledWays(s) /\ SharedWays(s)' = SharedWays(s)
<1>1. /\ NumThreads' = NumThreads /\ NumCores' = NumCores /\ NumCos' = NumCos
      /\ CacheWays' = CacheWays
  BY DEF NumThreads, NumCores, NumCos, CacheWays
<1>2. /\ Threads' = Threads /\ Cores' = Cores /\ Classes' = Classes /\ Ways' = Ways
  BY <1>1 DEF Threads, Cores, Classes, Ways
<1>3. Plan' = Plan
  BY <1>1 DEF Plan
<1>4. NumSlices' = NumSlices
  BY <1>3 DEF NumSlices
<1>5. Curve' = Curve
  BY <1>4 DEF Curve
<1>6. \A s : ProfiledWays(s)' = ProfiledWays(s)
  BY <1>1, <1>3 DEF ProfiledWays
<1>7. \A s : SharedWays(s)' = SharedWays(s)
  BY <1>2, <1>6 DEF SharedWays
<1>8. QED
  BY <1>1, <1>2, <1>3, <1>4, <1>5, <1>6, <1>7

\* Every thread has a core of its number, and there are two classes to use.
LEMMA CoreOfThread ==
  ASSUME conf \in Configs
  PROVE  Threads \subseteq Cores /\ 0 \in Threads /\ 1 \in Classes /\ 2 \in Classes
  BY Numbers DEF Threads, Cores, Classes

----------------------------------------------------------------------------------
\* What a call of the handler does to the monitors, one definition per outcome.
Starts(n) ==
  /\ n % invokeLen = 0 /\ invokeLen' = Profile
  /\ monitorStart' = TRUE /\ idx' = 1 /\ round' = round + 1 /\ start' = n
  /\ SetCachewaysToCores(1, profiled)
  /\ UNCHANGED <<points, curves, published, profiled, fault>>

Faults ==
  /\ monitorStart /\ fault' = TRUE
  /\ UNCHANGED <<monitorStart, idx, profiled, catVars, points, curves, published, round, start>>
  /\ UNCHANGED invokeLen

Stores(t) ==
  /\ monitorStart /\ idx \in 1..NumSlices
  /\ t = profiled => ~Sampled(t)
  /\ points' = [points EXCEPT ![t] = Stored(t)]
  /\ \E k \in {0, 5} : sampling' = [sampling EXCEPT ![t].state = k]
  /\ UNCHANGED <<monitorStart, idx, profiled, cos, cbm, curves, published, round, start, fault>>
  /\ UNCHANGED invokeLen

Advances(t) ==
  /\ monitorStart /\ idx \in 1..(NumSlices - 1)
  /\ t = profiled /\ Sampled(t)
  /\ points' = [points EXCEPT ![t] = Stored(t)]
  /\ SetCachewaysToCores(idx + 1, profiled)
  /\ idx' = idx + 1
  /\ UNCHANGED <<monitorStart, profiled, curves, published, round, start, fault, invokeLen>>

Publishes(t) ==
  /\ monitorStart /\ idx = NumSlices
  /\ t = profiled /\ Sampled(t)
  /\ points' = [points EXCEPT ![t] = CurvePoints(Stored(t))]
  /\ curves' = [curves EXCEPT ![t] = @ + 1]
  /\ published' = [published EXCEPT ![t] = CurvePoints(Stored(t))]
  /\ NextThread
  /\ UNCHANGED <<round, start, fault, invokeLen>>

Rests(t, n) ==
  /\ (~monitorStart /\ n % invokeLen # 0) \/ t # 0 \/ n >= NumPhases
  /\ UNCHANGED <<monitorStart, idx, profiled, catVars, points, curves, published, round, start, fault>>
  /\ UNCHANGED invokeLen

Handles(t, n) ==
  \/ t = 0 /\ Starts(n)
  \/ Faults
  \/ Stores(t)
  \/ Advances(t)
  \/ Publishes(t)
  \/ Rests(t, n)

\* A call of the handler is one of these.
LEMMA Outcomes ==
  ASSUME TypeOK, NEW t \in Threads, NEW n \in Nat, StartRound(t, n) \/ Sample(t, n) \/ Idle(t, n)
  PROVE  Handles(t, n)
<1>0. idx \in Int /\ idx <= NumSlices /\ NumSlices \in Nat /\ NumPhases \in Nat
  <2>1. NumSlices \in Nat /\ idx \in -1..NumSlices
    BY PlanFacts DEF TypeOK
  <2>2. NumPhases \in Nat
    BY MrcAssumption DEF TypeOK, NumPhases, Config
  <2>3. QED
    BY <2>1, <2>2
<1>1. CASE StartRound(t, n)
  <2>1. CASE t = 0 /\ n < NumPhases
    BY <1>1, <2>1 DEF StartRound, Starts, Handles
  <2>2. CASE ~(t = 0 /\ n < NumPhases)
    BY <1>0, <1>1, <2>2 DEF StartRound, Rests, Handles
  <2>3. QED
    BY <2>1, <2>2
<1>2. CASE Idle(t, n)
  BY <1>2 DEF Idle, Rests, Handles
<1>3. CASE Sample(t, n)
  <2>0. monitorStart /\ UNCHANGED <<round, start, invokeLen>>
    BY <1>3 DEF Sample
  <2>1. CASE idx < 1
    BY <1>3, <2>0, <2>1 DEF Sample, Faults, Handles
  <2>2. CASE idx >= 1 /\ idx = NumSlices /\ Sampled(t)
    <3>0. ~(idx < 1)
      BY <1>0, <2>2
    <3>1. LastSlice(t, Stored(t))
      BY <1>3, <2>2, <3>0, Zenon DEF Sample
    <3>2. CASE t # profiled
      BY <1>0, <2>0, <2>2, <3>1, <3>2 DEF LastSlice, Stores, Handles
    <3>3. CASE t = profiled /\ curves[t] >= EstColumns
      BY <2>0, <3>1, <3>3 DEF LastSlice, Faults, Handles
    <3>4. CASE t = profiled /\ ~(curves[t] >= EstColumns)
      BY <2>0, <2>2, <3>1, <3>4 DEF LastSlice, Publishes, Handles
    <3>5. QED
      BY <3>2, <3>3, <3>4
  <2>3. CASE idx >= 1 /\ ~(idx = NumSlices /\ Sampled(t))
    <3>0. ~(idx < 1)
      BY <1>0, <2>3
    <3>1. NextSlice(t, Stored(t))
      BY <1>3, <2>3, <3>0, Zenon DEF Sample
    <3>2. CASE t = profiled /\ Sampled(t)
      BY <1>0, <2>0, <2>3, <3>1, <3>2 DEF NextSlice, Advances, Handles
    <3>3. CASE ~(t = profiled /\ Sampled(t))
      BY <1>0, <2>0, <2>3, <3>1, <3>3 DEF NextSlice, Stores, Handles
    <3>4. QED
      BY <3>2, <3>3
  <2>4. QED
    BY <1>0, <2>1, <2>2, <2>3
<1>4. QED
  BY <1>1, <1>2, <1>3

\* The points of a thread after the sample of this call.
LEMMA StoredFacts ==
  ASSUME TypeOK, NEW t \in Threads, idx \in 1..NumSlices
  PROVE  /\ Stored(t) \in Curve /\ CurvePoints(Stored(t)) \in Curve
         /\ \A s \in 1..NumSlices : s # idx => Stored(t)[s] = points[t][s]
         /\ Stored(t)[idx].x = sampling[t].ways
         /\ Sampled(t) => Stored(t)[idx].round = round /\ Stored(t)[idx].y = delta[t]
<1>0. /\ points[t] \in [1..NumSlices -> Point]
      /\ sampling[t].ways \in Nat /\ delta[t] \in Nat /\ round \in Nat
  BY CoreOfThread DEF TypeOK, Curve
<1>1. PICK i \in 1..NumSlices : i = idx
  OBVIOUS
<1>2. NumSlices \in Nat /\ NumSlices >= 3 /\ 1 \in 1..NumSlices /\ 2 \in 1..NumSlices
  <2>1. NumSlices \in Nat /\ NumSlices >= 3
    BY PlanFacts DEF TypeOK
  <2>2. QED
    BY <2>1
<1>3. PICK p \in Point :
        /\ Stored(t) = [points[t] EXCEPT ![i] = p]
        /\ p.x = sampling[t].ways
        /\ Sampled(t) => p.round = round /\ p.y = delta[t]
  <2> DEFINE q == [x |-> sampling[t].ways,
                   y |-> IF delta[t] = NoPhase THEN points[t][i].y ELSE delta[t],
                   round |-> IF delta[t] = NoPhase THEN points[t][i].round ELSE round]
  <2>1. Stored(t) = [points[t] EXCEPT ![i] = q]
    BY <1>0, <1>1 DEF Stored, Point
  <2>2. q \in Point
    BY <1>0, <1>1 DEF Point
  <2>3. q.x = sampling[t].ways /\ (Sampled(t) => q.round = round /\ q.y = delta[t])
    BY DEF Sampled
  <2>4. QED
    BY <2>1, <2>2, <2>3
<1>4. Stored(t) \in [1..NumSlices -> Point]
  BY <1>0, <1>3
<1>5. CurvePoints(Stored(t)) \in [1..NumSlices -> Point]
  BY <1>2, <1>4 DEF CurvePoints
<1>6. \A s \in 1..NumSlices : s # i => Stored(t)[s] = points[t][s]
  BY <1>0, <1>3
<1>7. Stored(t)[i] = p
  BY <1>0, <1>3
<1>8. QED
  BY <1>1, <1>3, <1>4, <1>5, <1>6, <1>7 DEF Curve

\* Each slice leaves the other cores a number of ways.
LEMMA SharedCount ==
  ASSUME conf \in Configs, NEW s \in 1..NumSlices
  PROVE  Cardinality(ProfiledWays(s)) \in Nat /\ Cardinality(SharedWays(s)) \in Nat
<1>1. 0 \in Int /\ CacheWays - 1 \in Int
  BY Numbers
<1>2. IsFiniteSet(Ways)
  BY <1>1, FS_Interval DEF Ways
<1>3. IsFiniteSet(ProfiledWays(s)) /\ IsFiniteSet(SharedWays(s))
  BY <1>2, SliceFacts, FS_Subset
<1>4. QED
  BY <1>3, FS_CardinalityType

\* What set_cacheways_to_cores leaves behind for slice s and thread p.
LEMMA Partitions ==
  ASSUME TypeOK, NEW s \in 1..NumSlices, NEW p \in Threads, SetCachewaysToCores(s, p)
  PROVE  /\ sampling' \in [Cores -> [ways : Nat, state : Nat]]
         /\ cos' \in [Cores -> Classes]
         /\ cbm' \in [Classes -> SUBSET Ways]
         /\ cbm'[1] = ProfiledWays(s) /\ cbm'[2] = SharedWays(s)
         /\ \A c \in Cores : cos'[c] = IF c = p THEN 1 ELSE 2
         /\ sampling'[p].ways = Cardinality(ProfiledWays(s))
<1>1. conf \in Configs /\ cbm \in [Classes -> SUBSET Ways]
  BY DEF TypeOK
<1>2. /\ 1 \in Classes /\ 2 \in Classes /\ p \in Cores
      /\ ProfiledWays(s) \subseteq Ways /\ SharedWays(s) \subseteq Ways
      /\ Cardinality(ProfiledWays(s)) \in Nat /\ Cardinality(SharedWays(s)) \in Nat
  BY <1>1, CoreOfThread, SliceFacts, SharedCount
<1>3. sampling' \in [Cores -> [ways : Nat, state : Nat]]
  BY <1>2 DEF SetCachewaysToCores
<1>4. sampling'[p].ways = Cardinality(ProfiledWays(s))
  BY <1>2 DEF SetCachewaysToCores
<1>5. cos' \in [Cores -> Classes] /\ \A c \in Cores : cos'[c] = IF c = p THEN 1 ELSE 2
  BY <1>2 DEF SetCachewaysToCores
<1>6. /\ cbm' \in [Classes -> SUBSET Ways]
      /\ cbm'[1] = ProfiledWays(s) /\ cbm'[2] = SharedWays(s)
  BY <1>1, <1>2 DEF SetCachewaysToCores
<1>7. QED
  BY <1>3, <1>4, <1>5, <1>6

\* share_all_cache_ways gives every core the whole cache again.
LEMMA Shares ==
  ASSUME TypeOK, ShareAllCacheWays
  PROVE  /\ sampling' \in [Cores -> [ways : Nat, state : Nat]]
         /\ cos' \in [Cores -> Classes]
         /\ cbm' \in [Classes -> SUBSET Ways]
         /\ \A c \in Cores : cbm'[cos'[c]] = Ways
<1>1. /\ cbm \in [Classes -> SUBSET Ways]
      /\ sampling \in [Cores -> [ways : Nat, state : Nat]]
      /\ NumCores \in Nat /\ NumCos \in Nat /\ NumCos >= 3
  BY Numbers DEF TypeOK
<1>2. cbm' \in [Classes -> SUBSET Ways]
  BY <1>1 DEF ShareAllCacheWays
<1>3. \A c \in Cores : cos'[c] = IF c < NumCos THEN c ELSE NumCos - 1
  BY DEF ShareAllCacheWays
<1>4. \A c \in Cores : cos'[c] \in Classes /\ cos'[c] < NumCores
  BY <1>1, <1>3 DEF Cores, Classes
<1>5. cos' \in [Cores -> Classes]
  BY <1>4 DEF ShareAllCacheWays
<1>6. \A k \in Classes : k < NumCores => cbm'[k] = Ways
  BY DEF ShareAllCacheWays
<1>7. \A c \in Cores : cbm'[cos'[c]] = Ways
  BY <1>4, <1>6
<1>8. QED
  BY <1>1, <1>2, <1>5, <1>7 DEF ShareAllCacheWays

----------------------------------------------------------------------------------
\* The types of what the monitor keeps, and of the rest.
MonitorOK ==
  /\ monitorStart \in BOOLEAN /\ fault \in BOOLEAN
  /\ idx \in -1..NumSlices
  /\ profiled \in Threads
  /\ sampling \in [Cores -> [ways : Nat, state : Nat]]
  /\ cos \in [Cores -> Classes]
  /\ cbm \in [Classes -> SUBSET Ways]
  /\ points \in [Threads -> Curve]
  /\ curves \in [Threads -> Nat]
  /\ published \in [Threads -> Curve \cup {<<>>}]
  /\ round \in Nat /\ start \in Nat

HandlerOK ==
  /\ conf \in Configs
  /\ phases \in [Threads -> Nat]
  /\ buf \in [Threads -> Seq(Nat)]
  /\ pending \in [Threads -> Nat]
  /\ delta \in [Threads -> Nat]
  /\ misses \in Nat
  /\ done \in BOOLEAN
  /\ invokeLen \in Nat \ {0}

\* Every outcome of the handler keeps the monitor's types.
LEMMA MonitorTypes ==
  ASSUME TypeOK, UNCHANGED conf, NEW t \in Threads, NEW n \in Nat, Handles(t, n)
  PROVE  MonitorOK'
<1>0. /\ conf \in Configs /\ MonitorOK
      /\ NumSlices \in Nat /\ NumSlices >= 3 /\ NumThreads \in Nat /\ NumThreads > 0
  BY Numbers, PlanFacts DEF TypeOK, MonitorOK
<1>1. /\ Threads' = Threads /\ Cores' = Cores /\ Classes' = Classes /\ Ways' = Ways
      /\ NumSlices' = NumSlices /\ Curve' = Curve
  BY SameProfile
<1>2. CASE Starts(n)
  <2>1. 1 \in 1..NumSlices /\ profiled \in Threads
    BY <1>0 DEF MonitorOK
  <2>2. /\ sampling' \in [Cores -> [ways : Nat, state : Nat]]
        /\ cos' \in [Cores -> Classes]
        /\ cbm' \in [Classes -> SUBSET Ways]
    BY <1>2, <2>1, Partitions DEF Starts
  <2>3. idx' \in -1..NumSlices
    BY <1>0, <1>2 DEF Starts
  <2>4. QED
    BY <1>0, <1>1, <1>2, <2>2, <2>3 DEF Starts, MonitorOK
<1>3. CASE Faults
  BY <1>0, <1>1, <1>3 DEF Faults, MonitorOK, catVars
<1>4. CASE Stores(t)
  <2>1. Stored(t) \in Curve
    BY <1>4, StoredFacts DEF Stores
  <2>2. points' \in [Threads -> Curve]
    BY <1>0, <1>4, <2>1 DEF Stores, MonitorOK
  <2>3. t \in Cores
    BY <1>0, CoreOfThread
  <2>4. sampling' \in [Cores -> [ways : Nat, state : Nat]]
    <3>1. PICK k \in {0, 5} : sampling' = [sampling EXCEPT ![t].state = k]
      BY <1>4 DEF Stores
    <3>2. sampling \in [Cores -> [ways : Nat, state : Nat]] /\ k \in Nat
      BY <1>0 DEF MonitorOK
    <3>3. QED
      BY <2>3, <3>1, <3>2
  <2>5. QED
    BY <1>0, <1>1, <1>4, <2>2, <2>4 DEF Stores, MonitorOK
<1>5. CASE Advances(t)
  <2>0. idx \in 1..NumSlices /\ idx + 1 \in 1..NumSlices /\ profiled \in Threads
    BY <1>0, <1>5 DEF Advances, MonitorOK
  <2>1. Stored(t) \in Curve
    BY <2>0, StoredFacts
  <2>2. points' \in [Threads -> Curve]
    BY <1>0, <1>5, <2>1 DEF Advances, MonitorOK
  <2>3. /\ sampling' \in [Cores -> [ways : Nat, state : Nat]]
        /\ cos' \in [Cores -> Classes]
        /\ cbm' \in [Classes -> SUBSET Ways]
    BY <1>5, <2>0, Partitions DEF Advances
  <2>4. idx' \in -1..NumSlices
    BY <1>0, <1>5, <2>0 DEF Advances
  <2>5. QED
    BY <1>0, <1>1, <1>5, <2>2, <2>3, <2>4 DEF Advances, MonitorOK
<1>6. CASE Publishes(t)
  <2>0. idx \in 1..NumSlices
    BY <1>0, <1>6 DEF Publishes
  <2>1. CurvePoints(Stored(t)) \in Curve
    BY <2>0, StoredFacts
  <2>2. points' \in [Threads -> Curve] /\ published' \in [Threads -> Curve \cup {<<>>}]
    BY <1>0, <1>6, <2>1 DEF Publishes, MonitorOK
  <2>3. curves' \in [Threads -> Nat]
    BY <1>0, <1>6 DEF Publishes, MonitorOK
  <2>4. idx' \in -1..NumSlices
    BY <1>0, <1>6 DEF Publishes, NextThread
  <2>5. /\ profiled' \in Threads /\ monitorStart' \in BOOLEAN
        /\ sampling' \in [Cores -> [ways : Nat, state : Nat]]
        /\ cos' \in [Cores -> Classes]
        /\ cbm' \in [Classes -> SUBSET Ways]
    <3>1. CASE profiled + 1 >= NumThreads
      <4>1. profiled' = 0 /\ monitorStart' = FALSE /\ ShareAllCacheWays
        BY <1>6, <3>1 DEF Publishes, NextThread
      <4>2. 0 \in Threads
        BY <1>0 DEF Threads
      <4>3. QED
        BY <4>1, <4>2, Shares
    <3>2. CASE ~(profiled + 1 >= NumThreads)
      <4>1. profiled' = profiled + 1 /\ UNCHANGED <<monitorStart, sampling, cos, cbm>>
        BY <1>6, <3>2 DEF Publishes, NextThread, catVars
      <4>2. profiled' \in Threads
        BY <1>0, <3>2, <4>1 DEF MonitorOK, Threads
      <4>3. QED
        BY <1>0, <4>1, <4>2 DEF MonitorOK
    <3>3. QED
      BY <3>1, <3>2
  <2>6. QED
    BY <1>0, <1>1, <1>6, <2>2, <2>3, <2>4, <2>5 DEF Publishes, MonitorOK
<1>7. CASE Rests(t, n)
  BY <1>0, <1>1, <1>7 DEF Rests, MonitorOK, catVars
<1>8. QED
  BY <1>2, <1>3, <1>4, <1>5, <1>6, <1>7 DEF Handles

\* A call of the handler is one of the outcomes, numbered by the thread's phases.
LEMMA Calls ==
  ASSUME TypeOK, NEW t \in Threads, SigthymeHandler(t)
  PROVE  /\ UNCHANGED conf
         /\ phases[t] + 1 \in Nat
         /\ phases' = [phases EXCEPT ![t] = phases[t] + 1]
         /\ Handles(t, phases[t] + 1)
<1>1. phases[t] + 1 \in Nat
  BY DEF TypeOK
<1>2. /\ phases' = [phases EXCEPT ![t] = phases[t] + 1] /\ UNCHANGED conf
      /\ \/ StartRound(t, phases[t] + 1)
         \/ Sample(t, phases[t] + 1)
         \/ Idle(t, phases[t] + 1)
  BY DEF SigthymeHandler
<1>3. QED
  BY <1>1, <1>2, Outcomes

\* The types of what the kernel and the handler's own thread keep.
LEMMA HandlerTypes ==
  ASSUME TypeOK, NEW t \in Threads, PhaseEnd(t) \/ SigthymeHandler(t)
  PROVE  HandlerOK'
<1>0. HandlerOK /\ Threads' = Threads /\ conf' = conf
  <2>1. UNCHANGED conf
    BY Calls DEF PhaseEnd
  <2>2. QED
    BY <2>1, SameProfile DEF TypeOK, HandlerOK
<1>1. CASE PhaseEnd(t)
  <2>1. WaysOf(t) \in Nat
    <3>1. cbm[cos[t]] \in SUBSET Ways
      BY CoreOfThread DEF TypeOK
    <3>2. 0 \in Int /\ CacheWays - 1 \in Int
      BY Numbers DEF TypeOK
    <3>3. IsFiniteSet(Ways)
      BY <3>2, FS_Interval DEF Ways
    <3>4. QED
      BY <3>1, <3>3, FS_Subset, FS_CardinalityType DEF WaysOf
  <2>2. buf' \in [Threads -> Seq(Nat)]
    BY <1>0, <1>1, <2>1 DEF PhaseEnd, HandlerOK
  <2>3. pending' \in [Threads -> Nat]
    BY <1>0, <1>1 DEF PhaseEnd, HandlerOK
  <2>4. QED
    BY <1>0, <1>1, <2>2, <2>3 DEF PhaseEnd, HandlerOK
<1>2. CASE SigthymeHandler(t)
  <2>1. phases' \in [Threads -> Nat] /\ pending' \in [Threads -> Nat]
    BY <1>0, <1>2 DEF SigthymeHandler, HandlerOK
  <2>2. ReadCounters(t)
    BY <1>2 DEF SigthymeHandler
  <2>3. buf' \in [Threads -> Seq(Nat)] /\ delta' \in [Threads -> Nat] /\ misses' \in Nat
    <3>1. CASE misses < MaxMisses /\ misses' = misses + 1
               /\ delta' = [delta EXCEPT ![t] = NoPhase] /\ UNCHANGED buf
      BY <1>0, <3>1 DEF HandlerOK, NoPhase
    <3>2. CASE /\ buf[t] # <<>> /\ delta' = [delta EXCEPT ![t] = Head(buf[t])]
               /\ buf' = [buf EXCEPT ![t] = Tail(@)] /\ UNCHANGED misses
      <4>1. buf[t] \in Seq(Nat) /\ Head(buf[t]) \in Nat /\ Tail(buf[t]) \in Seq(Nat)
        BY <1>0, <3>2 DEF HandlerOK
      <4>2. QED
        BY <1>0, <3>2, <4>1 DEF HandlerOK
    <3>3. QED
      BY <2>2, <3>1, <3>2 DEF ReadCounters
  <2>4. done' \in BOOLEAN
    BY <1>2 DEF SigthymeHandler
  <2>5. invokeLen' \in Nat \ {0}
    <3>1. Profile \in Nat \ {0}
      BY <1>0, MrcAssumption DEF HandlerOK, Config, Profile
    <3>2. invokeLen' = Profile \/ invokeLen' = invokeLen
      BY <1>2 DEF SigthymeHandler, StartRound, Sample, Idle
    <3>3. QED
      BY <1>0, <3>1, <3>2 DEF HandlerOK
  <2>6. QED
    BY <1>0, <2>1, <2>3, <2>4, <2>5 DEF HandlerOK
<1>3. QED
  BY <1>1, <1>2

\* Every variable has its type in every reachable state: the index of the slices
\* stays within the plan and the profiled thread is one of the profile's.
THEOREM TypeCorrect == Spec => []TypeOK
<1>1. Init => TypeOK
  <2> SUFFICES ASSUME Init PROVE TypeOK
    OBVIOUS
  <2>1. conf \in Configs
    BY DEF Init
  <2>2. /\ NumThreads \in Nat /\ NumThreads > 0 /\ NumCos \in Nat /\ NumCos >= 3
        /\ NumSlices \in Nat /\ NumCores \in Nat /\ 0 \in Threads
    BY <2>1, Numbers, PlanFacts, CoreOfThread
  <2>3. Warmup \in Nat \ {0}
    BY <2>1, MrcAssumption DEF Config, Warmup
  <2>4. /\ phases \in [Threads -> Nat] /\ pending \in [Threads -> Nat]
        /\ delta \in [Threads -> Nat] /\ curves \in [Threads -> Nat]
        /\ misses \in Nat /\ invokeLen \in Nat \ {0} /\ round \in Nat /\ start \in Nat
    BY <2>3 DEF Init, NoPhase
  <2>5. buf \in [Threads -> Seq(Nat)] /\ published \in [Threads -> Curve \cup {<<>>}]
    BY DEF Init
  <2>6. /\ monitorStart \in BOOLEAN /\ fault \in BOOLEAN /\ done \in BOOLEAN
        /\ idx \in -1..NumSlices /\ profiled \in Threads
    <3>1. idx = -1 /\ profiled = 0
      BY DEF Init
    <3>2. idx \in -1..NumSlices /\ profiled \in Threads
      BY <2>2, <3>1
    <3>3. monitorStart \in BOOLEAN /\ fault \in BOOLEAN /\ done \in BOOLEAN
      BY Zenon DEF Init
    <3>4. QED
      BY <3>2, <3>3
  <2>7. sampling \in [Cores -> [ways : Nat, state : Nat]]
    BY DEF Init
  <2>8. cos \in [Cores -> Classes] /\ cbm \in [Classes -> SUBSET Ways]
    BY <2>2 DEF Init, Cores, Classes
  <2>9. points \in [Threads -> Curve]
    <3>1. NoPoint \in Point
      BY DEF NoPoint, Point, NoPhase
    <3>2. QED
      BY <3>1 DEF Init, Curve
  <2>10. QED
    BY <2>1, <2>2, <2>4, <2>5, <2>6, <2>7, <2>8, <2>9 DEF TypeOK
<1>2. TypeOK /\ [Next]_vars => TypeOK'
  <2> SUFFICES ASSUME TypeOK, [Next]_vars PROVE TypeOK'
    OBVIOUS
  <2>1. ASSUME NEW t \in Threads, PhaseEnd(t) PROVE TypeOK'
    <3>1. HandlerOK'
      BY <2>1, HandlerTypes
    <3>2. MonitorOK /\ UNCHANGED conf
      BY <2>1 DEF PhaseEnd, TypeOK, MonitorOK
    <3>3. /\ Threads' = Threads /\ Cores' = Cores /\ Classes' = Classes /\ Ways' = Ways
          /\ NumSlices' = NumSlices /\ Curve' = Curve
      BY <3>2, SameProfile
    <3>4. MonitorOK'
      BY <2>1, <3>2, <3>3 DEF PhaseEnd, MonitorOK, catVars
    <3>5. QED
      BY <3>1, <3>4 DEF HandlerOK, MonitorOK, TypeOK
  <2>2. ASSUME NEW t \in Threads, SigthymeHandler(t) PROVE TypeOK'
    <3>1. HandlerOK'
      BY <2>2, HandlerTypes
    <3>2. UNCHANGED conf /\ phases[t] + 1 \in Nat /\ Handles(t, phases[t] + 1)
      BY <2>2, Calls
    <3>3. MonitorOK'
      BY <3>2, MonitorTypes
    <3>4. QED
      BY <3>1, <3>3 DEF HandlerOK, MonitorOK, TypeOK
  <2>3. CASE UNCHANGED vars
    <3>1. UNCHANGED conf
      BY <2>3 DEF vars
    <3>2. /\ Threads' = Threads /\ Cores' = Cores /\ Classes' = Classes /\ Ways' = Ways
          /\ NumSlices' = NumSlices /\ Curve' = Curve
      BY <3>1, SameProfile
    <3>3. HandlerOK' /\ MonitorOK'
      BY <2>3, <3>2 DEF vars, kernelVars, catVars, TypeOK, HandlerOK, MonitorOK
    <3>4. QED
      BY <3>3 DEF HandlerOK, MonitorOK, TypeOK
  <2>4. QED
    BY <2>1, <2>2, <2>3 DEF Next, Ended
<1>3. QED
  BY <1>1, <1>2, PTL DEF Spec

----------------------------------------------------------------------------------
(***************************************************************************)
(* The partition, with the two classes it is made of.  CachePartition does *)
(* not say which class a core has, so it is not inductive: the next        *)
(* set_cacheways_to_cores and the accounting of currentlySampling rely on  *)
(* COS1 being the profiled core's and COS2 everyone else's.                *)
(***************************************************************************)
PartInv ==
  /\ \A s \in 1..NumSlices : (monitorStart /\ idx = s) =>
       /\ cbm[1] = ProfiledWays(s) /\ cbm[2] = SharedWays(s)
       /\ \A c \in Cores : cos[c] = IF c = profiled THEN 1 ELSE 2
       /\ sampling[profiled].ways = Cardinality(ProfiledWays(s))
  /\ ~monitorStart => \A c \in Cores : cbm[cos[c]] = Ways

\* What does not touch the classes keeps it.
LEMMA PartKept ==
  ASSUME PartInv, UNCHANGED <<conf, monitorStart, idx, profiled, cos, cbm>>,
         sampling'[profiled].ways = sampling[profiled].ways
  PROVE  PartInv'
<1>1. /\ Cores' = Cores /\ Ways' = Ways /\ NumSlices' = NumSlices
      /\ \A s : ProfiledWays(s)' = ProfiledWays(s) /\ SharedWays(s)' = SharedWays(s)
  BY SameProfile
<1>2. QED
  BY <1>1 DEF PartInv

\* A call of set_cacheways_to_cores establishes it, whatever was there before.
LEMMA PartMade ==
  ASSUME TypeOK, UNCHANGED conf, NEW s \in 1..NumSlices, SetCachewaysToCores(s, profiled),
         UNCHANGED profiled, monitorStart' = TRUE, idx' = s
  PROVE  PartInv'
<1>1. /\ Cores' = Cores /\ Ways' = Ways /\ NumSlices' = NumSlices
      /\ \A r : ProfiledWays(r)' = ProfiledWays(r) /\ SharedWays(r)' = SharedWays(r)
  BY SameProfile
<1>2. profiled \in Threads
  BY DEF TypeOK
<1>3. /\ cbm'[1] = ProfiledWays(s) /\ cbm'[2] = SharedWays(s)
      /\ \A c \in Cores : cos'[c] = IF c = profiled THEN 1 ELSE 2
      /\ sampling'[profiled].ways = Cardinality(ProfiledWays(s))
  BY <1>2, Partitions
<1>4. QED
  BY <1>1, <1>3 DEF PartInv

\* The partition is as PartInv says in every reachable state.
THEOREM PartInvHolds == Spec => []PartInv
<1>1. Init => PartInv
  <2> SUFFICES ASSUME Init PROVE PartInv
    OBVIOUS
  <2>1. conf \in Configs /\ ~monitorStart
    BY DEF Init
  <2>2. \A c \in Cores : cbm[cos[c]] = Ways
    <3>1. NumCos \in Nat /\ NumCos >= 3 /\ NumCores \in Nat
      BY <2>1, Numbers
    <3>2. \A c \in Cores : cos[c] \in Classes
      BY <3>1 DEF Init, Cores, Classes
    <3>3. \A k \in Classes : cbm[k] = Ways
      BY DEF Init
    <3>4. QED
      BY <3>2, <3>3
  <2>3. QED
    BY <2>1, <2>2 DEF PartInv
<1>2. TypeOK /\ PartInv /\ [Next]_vars => PartInv'
  <2> SUFFICES ASSUME TypeOK, PartInv, [Next]_vars PROVE PartInv'
    OBVIOUS
  <2>0. profiled \in Threads /\ conf \in Configs
    BY DEF TypeOK
  <2>1. ASSUME NEW t \in Threads, PhaseEnd(t) PROVE PartInv'
    BY <2>1, PartKept DEF PhaseEnd, catVars
  <2>2. ASSUME NEW t \in Threads, SigthymeHandler(t) PROVE PartInv'
    <3>1. UNCHANGED conf /\ Handles(t, phases[t] + 1)
      BY <2>2, Calls
    <3>2. NumSlices \in Nat /\ NumSlices >= 3
      BY <2>0, PlanFacts
    <3>3. CASE Starts(phases[t] + 1)
      <4>1. 1 \in 1..NumSlices
        BY <3>2
      <4>2. QED
        BY <3>1, <3>3, <4>1, PartMade DEF Starts
    <3>4. CASE Faults
      BY <3>1, <3>4, PartKept DEF Faults, catVars
    <3>5. CASE Stores(t)
      <4>1. PICK k \in {0, 5} : sampling' = [sampling EXCEPT ![t].state = k]
        BY <3>5 DEF Stores
      <4>2. sampling \in [Cores -> [ways : Nat, state : Nat]] /\ t \in Cores /\ profiled \in Cores
        BY <2>0, CoreOfThread DEF TypeOK
      <4>3. sampling'[profiled].ways = sampling[profiled].ways
        BY <4>1, <4>2
      <4>4. QED
        BY <3>1, <3>5, <4>3, PartKept DEF Stores
    <3>6. CASE Advances(t)
      <4>1. PICK s \in 1..NumSlices : s = idx + 1
        BY <3>2, <3>6 DEF Advances
      <4>2. SetCachewaysToCores(s, profiled) /\ idx' = s /\ monitorStart' = TRUE /\ UNCHANGED profiled
        BY <3>6, <4>1 DEF Advances
      <4>3. QED
        BY <3>1, <4>2, PartMade
    <3>7. CASE Publishes(t)
      <4>1. NextThread /\ Cores' = Cores /\ Ways' = Ways /\ NumSlices' = NumSlices /\ idx' = 0
        BY <3>1, <3>7, SameProfile DEF Publishes, NextThread
      <4>2. \A s \in 1..NumSlices : idx' # s
        BY <4>1
      <4>3. CASE ShareAllCacheWays
        <5>1. \A c \in Cores : cbm'[cos'[c]] = Ways
          BY <4>3, Shares
        <5>2. QED
          BY <4>1, <4>2, <5>1 DEF PartInv
      <4>4. CASE UNCHANGED monitorStart
        <5>1. monitorStart'
          BY <3>7, <4>4 DEF Publishes
        <5>2. QED
          BY <4>1, <4>2, <5>1 DEF PartInv
      <4>5. QED
        BY <4>1, <4>3, <4>4 DEF NextThread
    <3>8. CASE Rests(t, phases[t] + 1)
      BY <3>1, <3>8, PartKept DEF Rests, catVars
    <3>9. QED
      BY <3>1, <3>3, <3>4, <3>5, <3>6, <3>7, <3>8 DEF Handles
  <2>3. CASE UNCHANGED vars
    BY <2>3, PartKept DEF vars, catVars
  <2>4. QED
    BY <2>1, <2>2, <2>3 DEF Next, Ended
<1>3. QED
  BY <1>1, <1>2, TypeCorrect, PTL DEF Spec

(***************************************************************************)
(* The profiled core has the ways of its slice to itself during a round,   *)
(* as many as currentlySampling says, and every core has the whole cache   *)
(* outside one, for every cache, number of cores and classes of service.   *)
(***************************************************************************)
THEOREM CachePartitionHolds == Spec => []CachePartition
<1>1. TypeOK /\ PartInv => CachePartition
  <2> SUFFICES ASSUME TypeOK, PartInv PROVE CachePartition
    OBVIOUS
  <2>1. ASSUME monitorStart, idx > 0
        PROVE  /\ cbm[cos[profiled]] = ProfiledWays(idx)
               /\ sampling[profiled].ways = Cardinality(cbm[cos[profiled]])
               /\ \A c \in Cores \ {profiled} : cbm[cos[c]] \cap cbm[cos[profiled]] = {}
    <3>1. idx \in 1..NumSlices /\ profiled \in Cores
      <4>1. NumSlices \in Nat /\ idx \in -1..NumSlices /\ profiled \in Threads /\ Threads \subseteq Cores
        BY PlanFacts, CoreOfThread DEF TypeOK
      <4>2. QED
        BY <2>1, <4>1
    <3>2. /\ cbm[1] = ProfiledWays(idx) /\ cbm[2] = SharedWays(idx)
          /\ \A c \in Cores : cos[c] = IF c = profiled THEN 1 ELSE 2
          /\ sampling[profiled].ways = Cardinality(ProfiledWays(idx))
      BY <2>1, <3>1 DEF PartInv
    <3>3. cbm[cos[profiled]] = ProfiledWays(idx)
      BY <3>1, <3>2
    <3>4. \A c \in Cores \ {profiled} : cbm[cos[c]] = SharedWays(idx)
      BY <3>2
    <3>5. SharedWays(idx) \cap ProfiledWays(idx) = {}
      BY DEF SharedWays
    <3>6. QED
      BY <3>2, <3>3, <3>4, <3>5
  <2>2. ~monitorStart => \A c \in Cores : cbm[cos[c]] = Ways
    BY DEF PartInv
  <2>3. QED
    BY <2>1, <2>2 DEF CachePartition
<1>2. QED
  BY <1>1, TypeCorrect, PartInvHolds, PTL

----------------------------------------------------------------------------------
(***************************************************************************)
(* The slices the profiled thread has already left hold points of the      *)
(* current round, labelled as the plan says.  A curve that is published    *)
(* takes its points from there: CurveComplete alone says nothing of them.  *)
(***************************************************************************)
CurveInv ==
  /\ \A i, s \in 1..NumSlices : (monitorStart /\ idx = i /\ s < i) =>
       points[profiled][s].x = Plan[s] /\ points[profiled][s].round = round
  /\ CurveComplete

LEMMA CurveKept ==
  ASSUME CurveInv, UNCHANGED <<conf, monitorStart, idx, profiled, points, published, round>>
  PROVE  CurveInv'
<1>1. Threads' = Threads /\ NumSlices' = NumSlices /\ Plan' = Plan
  BY SameProfile
<1>2. QED
  BY <1>1 DEF CurveInv, CurveComplete

\* The sample that ends a slice completes the points of the slices up to it.
LEMMA SlicesDone ==
  ASSUME TypeOK, PartInv, CurveInv, NEW i \in 1..NumSlices, idx = i,
         monitorStart, Sampled(profiled)
  PROVE  \A s \in 1..NumSlices : s <= i =>
           Stored(profiled)[s].x = Plan[s] /\ Stored(profiled)[s].round = round
<1>0. conf \in Configs /\ profiled \in Threads /\ NumSlices \in Nat
  BY PlanFacts DEF TypeOK
<1>1. /\ \A s \in 1..NumSlices : s # i => Stored(profiled)[s] = points[profiled][s]
      /\ Stored(profiled)[i].x = sampling[profiled].ways
      /\ Stored(profiled)[i].round = round
  BY <1>0, StoredFacts
<1>2. sampling[profiled].ways = Plan[i]
  BY <1>0, SliceFacts DEF PartInv
<1>3. \A s \in 1..NumSlices : s < i =>
        points[profiled][s].x = Plan[s] /\ points[profiled][s].round = round
  BY DEF CurveInv
<1>4. TAKE s \in 1..NumSlices
<1>5. s <= i => s < i \/ s = i
  BY <1>0
<1>6. s < i => s # i
  BY <1>0
<1>7. QED
  BY <1>1, <1>2, <1>3, <1>5, <1>6

\* The points the current round has taken are as CurveInv says.
THEOREM CurveInvHolds == Spec => []CurveInv
<1>1. Init => CurveInv
  <2> SUFFICES ASSUME Init PROVE CurveInv
    OBVIOUS
  <2>1. ~monitorStart /\ \A t \in Threads : published[t] = <<>>
    BY DEF Init
  <2>2. QED
    BY <2>1 DEF CurveInv, CurveComplete
<1>2. TypeOK /\ PartInv /\ CurveInv /\ [Next]_vars => CurveInv'
  <2> SUFFICES ASSUME TypeOK, PartInv, CurveInv, [Next]_vars PROVE CurveInv'
    OBVIOUS
  <2>0. /\ profiled \in Threads /\ conf \in Configs
        /\ points \in [Threads -> Curve] /\ published \in [Threads -> Curve \cup {<<>>}]
        /\ NumSlices \in Nat /\ NumSlices >= 3
    BY PlanFacts DEF TypeOK
  <2>1. ASSUME NEW t \in Threads, PhaseEnd(t) PROVE CurveInv'
    BY <2>1, CurveKept DEF PhaseEnd
  <2>2. ASSUME NEW t \in Threads, SigthymeHandler(t) PROVE CurveInv'
    <3>1. UNCHANGED conf /\ Handles(t, phases[t] + 1)
      BY <2>2, Calls
    <3>2. Threads' = Threads /\ NumSlices' = NumSlices /\ Plan' = Plan
      BY <3>1, SameProfile
    <3>3. CASE Starts(phases[t] + 1)
      <4>1. idx' = 1 /\ UNCHANGED published
        BY <3>3 DEF Starts
      <4>2. \A i, s \in 1..NumSlices : ~(idx' = i /\ s < i)
        BY <2>0, <4>1
      <4>3. QED
        BY <3>2, <4>1, <4>2 DEF CurveInv, CurveComplete
    <3>4. CASE Faults
      BY <3>1, <3>4, CurveKept DEF Faults
    <3>5. CASE Stores(t)
      <4>1. /\ idx \in 1..NumSlices /\ points' = [points EXCEPT ![t] = Stored(t)]
            /\ UNCHANGED <<monitorStart, idx, profiled, published, round>>
        BY <3>5 DEF Stores
      <4>2. \A s \in 1..NumSlices : s # idx => Stored(t)[s] = points[t][s]
        BY <4>1, StoredFacts
      <4>3. \A s \in 1..NumSlices : s # idx => points'[profiled][s] = points[profiled][s]
        BY <2>0, <4>1, <4>2
      <4>4. \A i, s \in 1..NumSlices : s < i => s # i
        BY <2>0
      <4>5. QED
        BY <3>2, <4>1, <4>3, <4>4 DEF CurveInv, CurveComplete
    <3>6. CASE Advances(t)
      <4>1. PICK j \in 1..NumSlices : j = idx
        BY <2>0, <3>6 DEF Advances
      <4>2. /\ monitorStart /\ t = profiled /\ Sampled(profiled) /\ idx' = j + 1
            /\ points' = [points EXCEPT ![profiled] = Stored(profiled)]
            /\ UNCHANGED <<profiled, published, round>>
        BY <3>6, <4>1 DEF Advances
      <4>3. \A s \in 1..NumSlices : s <= j =>
              Stored(profiled)[s].x = Plan[s] /\ Stored(profiled)[s].round = round
        BY <4>1, <4>2, SlicesDone
      <4>4. points'[profiled] = Stored(profiled)
        BY <2>0, <4>2
      <4>5. \A i, s \in 1..NumSlices : i = j + 1 /\ s < i => s <= j
        BY <2>0
      <4>6. QED
        BY <3>2, <4>2, <4>3, <4>4, <4>5 DEF CurveInv, CurveComplete
    <3>7. CASE Publishes(t)
      <4>1. PICK j \in 1..NumSlices : j = idx /\ j = NumSlices
        BY <2>0, <3>7 DEF Publishes
      <4>2. /\ monitorStart /\ t = profiled /\ Sampled(profiled) /\ idx' = 0
            /\ published' = [published EXCEPT ![profiled] = CurvePoints(Stored(profiled))]
        BY <3>7 DEF Publishes, NextThread
      <4>3. \A s \in 1..NumSlices :
              Stored(profiled)[s].x = Plan[s] /\ Stored(profiled)[s].round = round
        <5>1. \A s \in 1..NumSlices : s <= j =>
                Stored(profiled)[s].x = Plan[s] /\ Stored(profiled)[s].round = round
          BY <4>1, <4>2, SlicesDone
        <5>2. \A s \in 1..NumSlices : s <= j
          BY <2>0, <4>1
        <5>3. QED
          BY <5>1, <5>2
      <4>4. /\ Stored(profiled) \in Curve
            /\ CurvePoints(Stored(profiled))[1] = Stored(profiled)[2]
            /\ \A s \in 2..NumSlices : CurvePoints(Stored(profiled))[s] = Stored(profiled)[s]
        <5>1. Stored(profiled) \in [1..NumSlices -> Point]
          BY <2>0, <4>1, StoredFacts DEF Curve
        <5>2. 1 \in 1..NumSlices /\ 2 \in 1..NumSlices
              /\ \A s \in 2..NumSlices : s \in 1..NumSlices /\ s # 1
          BY <2>0
        <5>3. QED
          BY <5>1, <5>2 DEF CurvePoints, Curve
      <4>5. /\ \A s \in 2..NumSlices : CurvePoints(Stored(profiled))[s].x = Plan[s]
            /\ \A s \in 1..NumSlices : CurvePoints(Stored(profiled))[s].round = round
        <5>1. \A s \in 2..NumSlices : s \in 1..NumSlices
          BY <2>0
        <5>2. 2 \in 1..NumSlices /\ \A s \in 1..NumSlices : s = 1 \/ s \in 2..NumSlices
          BY <2>0
        <5>3. QED
          BY <4>3, <4>4, <5>1, <5>2
      <4>6. published'[profiled] = CurvePoints(Stored(profiled))
            /\ \A u \in Threads \ {profiled} : published'[u] = published[u]
        BY <2>0, <4>2
      <4>7. CurveComplete'
        BY <3>2, <4>5, <4>6 DEF CurveInv, CurveComplete
      <4>8. \A i \in 1..NumSlices : idx' # i
        BY <4>2
      <4>9. QED
        BY <3>2, <4>7, <4>8 DEF CurveInv
    <3>8. CASE Rests(t, phases[t] + 1)
      BY <3>1, <3>8, CurveKept DEF Rests
    <3>9. QED
      BY <3>1, <3>3, <3>4, <3>5, <3>6, <3>7, <3>8 DEF Handles
  <2>3. CASE UNCHANGED vars
    BY <2>3, CurveKept DEF vars
  <2>4. QED
    BY <2>1, <2>2, <2>3 DEF Next, Ended
<1>3. QED
  BY <1>1, <1>2, TypeCorrect, PartInvHolds, PTL DEF Spec

(***************************************************************************)
(* Every published curve has a point of one and the same round for every   *)
(* slice, labelled with the plan's ways: no error, repeated slice or cut   *)
(* round leaves a point of an older round in it.                           *)
(***************************************************************************)
THEOREM CurveCompleteHolds == Spec => []CurveComplete
<1>1. CurveInv => CurveComplete
  BY DEF CurveInv
<1>2. QED
  BY <1>1, CurveInvHolds, PTL

----------------------------------------------------------------------------------
(***************************************************************************)
(* With one thread: a round has used one call for each slice it has left   *)
(* and one for each call that read nothing, and when the last read was one *)
(* of those, the call that will find its counters unchanged is still to    *)
(* come.  A record never counts as nothing: its phase ran with some way.   *)
(***************************************************************************)
BoundInv ==
  NumThreads = 1 =>
    /\ buf[0] \in Seq(Nat \ {0})
    /\ (monitorStart /\ ~fault /\ ~done) =>
         /\ idx >= 1
         /\ phases[0] <= start + idx - 1 + misses
         /\ delta[0] = NoPhase => phases[0] < start + idx - 1 + misses

\* What a read of the counters leaves behind: a sample, or one more miss.
LEMMA Reads ==
  ASSUME TypeOK, buf[0] \in Seq(Nat \ {0}), ReadCounters(0)
  PROVE  /\ buf'[0] \in Seq(Nat \ {0})
         /\ \/ delta'[0] # NoPhase /\ misses' = misses
            \/ delta'[0] = NoPhase /\ misses' = misses + 1
<1>0. /\ 0 \in Threads /\ delta \in [Threads -> Nat] /\ misses \in Nat
      /\ buf \in [Threads -> Seq(Nat)]
  BY CoreOfThread DEF TypeOK
<1>1. CASE /\ misses' = misses + 1
           /\ delta' = [delta EXCEPT ![0] = NoPhase]
           /\ UNCHANGED buf
  BY <1>0, <1>1
<1>2. CASE /\ buf[0] # <<>>
           /\ delta' = [delta EXCEPT ![0] = Head(buf[0])]
           /\ buf' = [buf EXCEPT ![0] = Tail(@)]
           /\ UNCHANGED misses
  <2>1. Head(buf[0]) \in Nat \ {0} /\ Tail(buf[0]) \in Seq(Nat \ {0})
    BY <1>2
  <2>2. buf'[0] = Tail(buf[0]) /\ delta'[0] = Head(buf[0])
    BY <1>0, <1>2
  <2>3. QED
    BY <1>2, <2>1, <2>2 DEF NoPhase
<1>3. QED
  BY <1>1, <1>2 DEF ReadCounters

\* A phase of the only thread runs with some way, during a round or not.
LEMMA SomeWay ==
  ASSUME TypeOK, PartInv, NumThreads = 1, monitorStart => idx >= 1
  PROVE  /\ WaysOf(0) \in Nat \ {0}
         /\ WaysOf(0) = IF monitorStart THEN Plan[idx] ELSE CacheWays
<1>0. /\ conf \in Configs /\ profiled = 0 /\ 0 \in Cores
      /\ idx \in Int /\ idx <= NumSlices /\ NumSlices \in Nat
  <2>1. profiled \in Threads /\ NumSlices \in Nat /\ idx \in -1..NumSlices /\ conf \in Configs
    BY PlanFacts DEF TypeOK
  <2>2. profiled = 0
    BY <2>1 DEF Threads
  <2>3. 0 \in Cores
    BY <2>1, CoreOfThread
  <2>4. QED
    BY <2>1, <2>2, <2>3
<1>1. CASE monitorStart
  <2>1. PICK s \in 1..NumSlices : s = idx
    BY <1>0, <1>1
  <2>2. cbm[1] = ProfiledWays(s) /\ cos[0] = 1
    BY <1>0, <1>1, <2>1 DEF PartInv
  <2>3. Cardinality(ProfiledWays(s)) = Plan[s] /\ Plan[s] \in 1..(CacheWays - 1)
    BY <1>0, SliceFacts, PlanFacts
  <2>4. CacheWays \in Nat
    BY <1>0, Numbers
  <2>5. QED
    BY <1>1, <2>1, <2>2, <2>3, <2>4 DEF WaysOf
<1>2. CASE ~monitorStart
  <2>1. cbm[cos[0]] = 0..(CacheWays - 1)
    BY <1>0, <1>2 DEF PartInv, Ways
  <2>2. 0 \in Int /\ CacheWays - 1 \in Int /\ CacheWays \in Nat \ {0} /\ CacheWays - 1 = 0 + CacheWays - 1
    BY <1>0, Numbers
  <2>3. Cardinality(0..(CacheWays - 1)) = CacheWays
    BY <2>2, Interval, Zenon
  <2>4. QED
    BY <1>2, <2>1, <2>2, <2>3 DEF WaysOf
<1>3. QED
  BY <1>1, <1>2

\* The calls of a round are as many as BoundInv says.
THEOREM BoundInvHolds == Spec => []BoundInv
<1>1. Init => BoundInv
  <2> SUFFICES ASSUME Init PROVE BoundInv
    OBVIOUS
  <2>1. conf \in Configs /\ ~monitorStart
    BY DEF Init
  <2>2. 0 \in Threads
    BY <2>1, CoreOfThread
  <2>3. buf[0] = <<>>
    BY <2>2 DEF Init
  <2>4. QED
    BY <2>1, <2>3 DEF BoundInv
<1>2. TypeOK /\ PartInv /\ BoundInv /\ [Next]_vars => BoundInv'
  <2> SUFFICES ASSUME TypeOK, PartInv, BoundInv, [Next]_vars PROVE BoundInv'
    OBVIOUS
  <2>0. /\ conf \in Configs /\ profiled \in Threads /\ 0 \in Threads
        /\ buf \in [Threads -> Seq(Nat)] /\ phases \in [Threads -> Nat]
        /\ start \in Nat /\ idx \in Int /\ misses \in Nat
    <3>1. NumSlices \in Nat /\ idx \in -1..NumSlices
      BY PlanFacts DEF TypeOK
    <3>2. idx \in Int
      BY <3>1
    <3>3. QED
      BY <3>2, CoreOfThread DEF TypeOK
  <2>1. ASSUME NEW t \in Threads, PhaseEnd(t), ~done, ~fault PROVE BoundInv'
    <3>1. NumThreads' = NumThreads
      BY <2>1, SameProfile DEF PhaseEnd
    <3>2. SUFFICES ASSUME NumThreads = 1
                   PROVE  /\ buf'[0] \in Seq(Nat \ {0})
                          /\ UNCHANGED <<monitorStart, fault, done, idx, phases, start, misses, delta>>
      BY <3>1 DEF BoundInv
    <3>3. t = 0
      BY <3>2 DEF Threads
    <3>4. WaysOf(0) \in Nat \ {0} /\ buf[0] \in Seq(Nat \ {0})
      BY <2>1, <3>2, SomeWay DEF BoundInv
    <3>5. buf'[0] = Append(buf[0], WaysOf(0))
      BY <2>0, <2>1, <3>3 DEF PhaseEnd
    <3>6. buf'[0] \in Seq(Nat \ {0})
      BY <3>4, <3>5
    <3>7. QED
      BY <2>1, <3>6 DEF PhaseEnd
  <2>2. ASSUME NEW t \in Threads, SigthymeHandler(t), ~done, ~fault PROVE BoundInv'
    <3>1. UNCHANGED conf /\ Handles(t, phases[t] + 1) /\ phases' = [phases EXCEPT ![t] = phases[t] + 1]
      BY <2>2, Calls
    <3>2. NumThreads' = NumThreads
      BY <3>1, SameProfile
    <3>3. SUFFICES ASSUME NumThreads = 1
                   PROVE  /\ buf'[0] \in Seq(Nat \ {0})
                          /\ (monitorStart' /\ ~fault' /\ ~done') =>
                               /\ idx' >= 1
                               /\ phases'[0] <= start' + idx' - 1 + misses'
                               /\ delta'[0] = NoPhase => phases'[0] < start' + idx' - 1 + misses'
      BY <3>2 DEF BoundInv
    <3>4. t = 0 /\ profiled = 0
      BY <2>0, <3>3 DEF Threads
    <3>5. phases'[0] = phases[0] + 1 /\ phases[0] \in Nat
      BY <2>0, <3>1, <3>4
    <3>6. ReadCounters(0) /\ buf[0] \in Seq(Nat \ {0})
      BY <2>2, <3>3, <3>4 DEF SigthymeHandler, BoundInv
    <3>7. /\ buf'[0] \in Seq(Nat \ {0})
          /\ \/ delta'[0] # NoPhase /\ misses' = misses
             \/ delta'[0] = NoPhase /\ misses' = misses + 1
      BY <3>6, Reads
    <3>8. monitorStart =>
            /\ idx >= 1
            /\ phases[0] <= start + idx - 1 + misses
            /\ delta[0] = NoPhase => phases[0] < start + idx - 1 + misses
      BY <2>2, <3>3 DEF BoundInv
    <3>9. CASE Starts(phases[0] + 1)
      <4>1. idx' = 1 /\ start' = phases[0] + 1
        BY <3>9 DEF Starts
      <4>2. QED
        BY <2>0, <3>5, <3>7, <4>1
    <3>10. CASE Faults
      BY <3>7, <3>10 DEF Faults
    <3>11. CASE Stores(0)
      <4>1. monitorStart /\ delta[0] = NoPhase /\ idx' = idx /\ start' = start
        BY <3>4, <3>11 DEF Stores, Sampled
      <4>2. idx >= 1 /\ phases[0] < start + idx - 1 + misses
        BY <3>8, <4>1
      <4>3. QED
        BY <2>0, <3>5, <3>7, <4>1, <4>2
    <3>12. CASE Advances(0)
      <4>1. monitorStart /\ idx' = idx + 1 /\ start' = start
        BY <3>12 DEF Advances
      <4>2. idx >= 1 /\ phases[0] <= start + idx - 1 + misses
        BY <3>8, <4>1
      <4>3. QED
        BY <2>0, <3>5, <3>7, <4>1, <4>2
    <3>13. CASE Publishes(0)
      <4>1. profiled + 1 >= NumThreads
        BY <3>3, <3>4
      <4>2. monitorStart' = FALSE
        BY <3>13, <4>1 DEF Publishes, NextThread
      <4>3. QED
        BY <3>7, <4>2
    <3>14. CASE Rests(0, phases[0] + 1)
      <4>1. CASE ~monitorStart
        <5>1. ~monitorStart'
          BY <3>14, <4>1 DEF Rests
        <5>2. QED
          BY <3>7, <5>1
      <4>2. CASE phases[0] + 1 >= NumPhases
        <5>1. done'
          BY <2>2, <3>4, <4>2 DEF SigthymeHandler
        <5>2. QED
          BY <3>7, <5>1
      <4>3. QED
        BY <3>14, <4>1, <4>2 DEF Rests
    <3>15. QED
      BY <3>1, <3>4, <3>9, <3>10, <3>11, <3>12, <3>13, <3>14 DEF Handles
  <2>3. CASE UNCHANGED vars
    <3>1. NumThreads' = NumThreads
      BY <2>3, SameProfile DEF vars
    <3>2. UNCHANGED <<monitorStart, fault, done, idx, phases, start, misses, delta, buf>>
      BY <2>3 DEF vars, kernelVars
    <3>3. QED
      BY <3>1, <3>2 DEF BoundInv
  <2>4. QED
    BY <2>1, <2>2, <2>3 DEF Next, Ended
<1>3. QED
  BY <1>1, <1>2, TypeCorrect, PartInvHolds, PTL DEF Spec

(***************************************************************************)
(* A round of a profile with one thread ends after as many handler calls   *)
(* as the plan has slices, plus one for each call that read nothing, for   *)
(* every plan and however many of those there are.                         *)
(***************************************************************************)
THEOREM RoundBoundedHolds == Spec => []RoundBounded
<1>1. TypeOK /\ BoundInv => RoundBounded
  <2> SUFFICES ASSUME TypeOK, BoundInv, monitorStart, ~fault, ~done, NumThreads = 1
               PROVE  phases[0] <= start + NumSlices - 1 + misses
    BY DEF RoundBounded
  <2>1. NumSlices \in Nat /\ idx \in -1..NumSlices /\ start \in Nat /\ misses \in Nat
    BY PlanFacts DEF TypeOK
  <2>2. phases[0] \in Nat
    BY CoreOfThread DEF TypeOK
  <2>3. phases[0] <= start + idx - 1 + misses
    BY DEF BoundInv
  <2>4. QED
    BY <2>1, <2>2, <2>3
<1>2. QED
  BY <1>1, TypeCorrect, BoundInvHolds, PTL

----------------------------------------------------------------------------------
\* The intervals and the bounds of a profile, the same in the next state.
LEMMA Intervals ==
  ASSUME conf \in Configs
  PROVE  /\ Warmup \in Nat \ {0} /\ Profile \in Nat \ {0}
         /\ MaxQueue \in Nat /\ MaxMisses \in Nat
  BY MrcAssumption DEF Config, Warmup, Profile, MaxQueue, MaxMisses

LEMMA SameIntervals ==
  ASSUME UNCHANGED conf
  PROVE  /\ UNCHANGED <<Warmup, Profile, MaxQueue, MaxMisses, CacheWays, RoundGap>>
         /\ RecordsDrain' = RecordsDrain
<1>1. UNCHANGED <<Warmup, Profile, MaxQueue, MaxMisses, CacheWays>>
  BY DEF Warmup, Profile, MaxQueue, MaxMisses, CacheWays
<1>2. RoundGap' = RoundGap
  BY <1>1 DEF RoundGap
<1>3. NumSlices' = NumSlices
  BY SameProfile
<1>4. QED
  BY <1>1, <1>2, <1>3 DEF RecordsDrain

\* The plan never gives a slice more ways than the one before.
LEMMA PlanShrinks ==
  ASSUME conf \in Configs, NEW i \in 1..NumSlices, i + 1 \in 1..NumSlices
  PROVE  Plan[i + 1] <= Plan[i]
<1>0. CacheWays \in 3..16
  BY Numbers
<1>1. CASE CacheWays = 16
  BY <1>1 DEF Plan, NumSlices
<1>2. CASE CacheWays = 15
  BY <1>2 DEF Plan, NumSlices
<1>3. CASE CacheWays = 14
  BY <1>3 DEF Plan, NumSlices
<1>4. CASE CacheWays = 13
  BY <1>4 DEF Plan, NumSlices
<1>5. CASE CacheWays \in 10..12
  <2>1. Plan = <<CacheWays - 1, CacheWays - 1, 8, 6, 4, 2, 1>>
    BY <1>5 DEF Plan
  <2>2. i \in 1..6
    BY <2>1 DEF NumSlices
  <2>3. QED
    BY <1>5, <2>1, <2>2
<1>6. CASE CacheWays \in 8..9
  BY <1>6 DEF Plan, NumSlices
<1>7. CASE CacheWays \in 3..7
  BY <1>7 DEF Plan, NumSlices
<1>8. QED
  BY <1>0, <1>1, <1>2, <1>3, <1>4, <1>5, <1>6, <1>7

\* The least multiple of p after m is as far as m's remainder says.
LEMMA NextMultiple ==
  ASSUME NEW p \in Nat, p > 0, NEW m \in Nat, NEW n \in Nat, n % p = 0, n > m
  PROVE  n >= m + p - (m % p)
<1>1. PICK q \in Int : m = q * p + (m % p)
  OBVIOUS
<1>2. PICK k \in Int : n = k * p + (n % p)
  OBVIOUS
<1>3. PICK r \in 0..(p - 1) : r = m % p
  OBVIOUS
<1>4. m = q * p + r /\ n = k * p
  BY <1>1, <1>2, <1>3
<1>5. k > q
  <2>1. SUFFICES ASSUME k <= q PROVE FALSE
    OBVIOUS
  <2>2. k * p <= q * p
    BY <2>1
  <2>3. QED
    BY <1>3, <1>4, <2>2
<1>6. k * p >= q * p + p
  <2>1. k >= q + 1
    BY <1>5
  <2>2. k * p >= (q + 1) * p
    BY <2>1
  <2>3. (q + 1) * p = q * p + p
    OBVIOUS
  <2>4. QED
    BY <2>2, <2>3
<1>7. n >= m + p - r
  BY <1>4, <1>6
<1>8. QED
  BY <1>3, <1>7

\* A multiple of w up to w itself is w.
LEMMA FirstMultiple ==
  ASSUME NEW w \in Nat \ {0}, NEW n \in 1..w
  PROVE  (n % w = 0) <=> (n = w)
  OBVIOUS

\* After a start at s, the next call that starts a round is RoundGap later at least.
LEMMA NextStart ==
  ASSUME conf \in Configs, NEW s \in Nat, NEW n \in Nat,
         s % Profile = 0 \/ s = Warmup, n % Profile = 0, n > s
  PROVE  n >= s + RoundGap /\ RoundGap \in Nat
<1>1. PICK p \in Nat : p = Profile /\ p > 0
  BY Intervals
<1>2. PICK w \in Nat : w = Warmup
  BY Intervals
<1>3. n >= s + p - (s % p)
  <2>1. n % p = 0
    BY <1>1
  <2>2. QED
    BY <1>1, <2>1, NextMultiple
<1>4. PICK x \in 0..(p - 1) : x = w % p
  BY <1>1
<1>5. PICK y \in 0..(p - 1) : y = s % p
  BY <1>1
<1>6. RoundGap = p - x
  <2>1. RoundGap = p - (w % p)
    BY <1>1, <1>2, Zenon DEF RoundGap
  <2>2. QED
    BY <1>4, <2>1
<1>7. y = 0 \/ y = x
  BY <1>1, <1>2, <1>4, <1>5
<1>8. n >= s + p - y
  BY <1>3, <1>5
<1>9. QED
  BY <1>6, <1>7, <1>8

----------------------------------------------------------------------------------
(***************************************************************************)
(* Rounds start at the call Warmup and at multiples of Profile only.       *)
(***************************************************************************)
StartInv ==
  \/ round = 0 /\ ~monitorStart /\ invokeLen = Warmup /\ (done \/ phases[0] < Warmup)
  \/ /\ round > 0 /\ invokeLen = Profile /\ start <= phases[0]
     /\ start % Profile = 0 \/ start = Warmup

\* A round starts at Warmup, the first one, or at a multiple of Profile.
THEOREM StartInvHolds == Spec => []StartInv
<1>1. Init => StartInv
  <2> SUFFICES ASSUME Init PROVE StartInv
    OBVIOUS
  <2>1. conf \in Configs /\ round = 0 /\ ~monitorStart /\ invokeLen = Warmup
    BY DEF Init
  <2>2. 0 \in Threads /\ Warmup \in Nat \ {0}
    BY <2>1, CoreOfThread, Intervals
  <2>3. phases[0] = 0
    BY <2>2 DEF Init
  <2>4. QED
    BY <2>1, <2>2, <2>3 DEF StartInv
<1>2. TypeOK /\ StartInv /\ [Next]_vars => StartInv'
  <2> SUFFICES ASSUME TypeOK, StartInv, [Next]_vars PROVE StartInv'
    OBVIOUS
  <2>0. /\ conf \in Configs /\ 0 \in Threads /\ phases \in [Threads -> Nat] /\ phases[0] \in Nat
        /\ round \in Nat /\ start \in Nat /\ Warmup \in Nat \ {0} /\ Profile \in Nat \ {0}
    BY CoreOfThread, Intervals DEF TypeOK
  <2>1. ASSUME NEW t \in Threads, PhaseEnd(t) PROVE StartInv'
    <3>1. UNCHANGED <<conf, round, monitorStart, invokeLen, done, phases, start>>
      BY <2>1 DEF PhaseEnd
    <3>2. Warmup' = Warmup /\ Profile' = Profile
      BY <3>1, SameIntervals
    <3>3. QED
      BY <3>1, <3>2 DEF StartInv
  <2>2. ASSUME NEW t \in Threads, SigthymeHandler(t), ~done PROVE StartInv'
    <3>1. /\ UNCHANGED conf /\ Handles(t, phases[t] + 1)
          /\ phases' = [phases EXCEPT ![t] = phases[t] + 1]
          /\ done' = (done \/ (t = 0 /\ phases[t] + 1 >= NumPhases))
      BY <2>2, Calls DEF SigthymeHandler
    <3>2. Warmup' = Warmup /\ Profile' = Profile
      BY <3>1, SameIntervals
    <3>3. phases'[0] = IF t = 0 THEN phases[0] + 1 ELSE phases[0]
      BY <2>0, <3>1
    <3>4. CASE t = 0 /\ Starts(phases[t] + 1)
      <4>1. /\ round' = round + 1 /\ invokeLen' = Profile /\ start' = phases[0] + 1
            /\ (phases[0] + 1) % invokeLen = 0
        BY <3>4 DEF Starts
      <4>2. start' % Profile = 0 \/ start' = Warmup
        <5>1. CASE round = 0
          <6>1. invokeLen = Warmup /\ phases[0] + 1 \in 1..Warmup
            BY <2>0, <2>2, <5>1 DEF StartInv
          <6>2. phases[0] + 1 = Warmup
            BY <2>0, <4>1, <6>1, FirstMultiple
          <6>3. QED
            BY <4>1, <6>2
        <5>2. CASE round > 0
          BY <2>0, <4>1, <5>2 DEF StartInv
        <5>3. QED
          BY <2>0, <5>1, <5>2
      <4>3. start' <= phases'[0] /\ round' > 0
        BY <2>0, <3>3, <3>4, <4>1
      <4>4. QED
        BY <3>2, <4>1, <4>2, <4>3 DEF StartInv
    <3>5. CASE UNCHANGED <<round, start, invokeLen>> /\ monitorStart
      <4>1. round > 0
        BY <2>0, <3>5 DEF StartInv
      <4>2. start <= phases'[0]
        BY <2>0, <3>3, <4>1 DEF StartInv
      <4>3. QED
        BY <2>0, <3>2, <3>5, <4>1, <4>2 DEF StartInv
    <3>6. CASE Rests(t, phases[t] + 1)
      <4>0. UNCHANGED <<round, start, invokeLen, monitorStart>>
        BY <3>6 DEF Rests
      <4>1. CASE round > 0
        <5>1. start <= phases'[0]
          BY <2>0, <3>3, <4>1 DEF StartInv
        <5>2. QED
          BY <2>0, <3>2, <4>0, <4>1, <5>1 DEF StartInv
      <4>2. CASE round = 0
        <5>0. ~monitorStart /\ invokeLen = Warmup /\ phases[0] < Warmup
          BY <2>0, <2>2, <4>2 DEF StartInv
        <5>1. CASE t # 0
          BY <3>2, <3>3, <4>0, <4>2, <5>0, <5>1 DEF StartInv
        <5>2. CASE t = 0 /\ phases[t] + 1 >= NumPhases
          <6>1. done'
            BY <3>1, <5>2
          <6>2. QED
            BY <3>2, <4>0, <4>2, <5>0, <6>1 DEF StartInv
        <5>3. CASE t = 0 /\ (phases[t] + 1) % invokeLen # 0
          <6>1. phases[0] + 1 \in 1..Warmup
            BY <2>0, <5>0
          <6>2. phases[0] + 1 # Warmup
            BY <2>0, <5>0, <5>3, <6>1, FirstMultiple
          <6>3. phases'[0] < Warmup
            BY <2>0, <3>3, <5>3, <6>1, <6>2
          <6>4. QED
            BY <3>2, <4>0, <4>2, <5>0, <6>3 DEF StartInv
        <5>4. QED
          BY <3>6, <5>1, <5>2, <5>3 DEF Rests
      <4>3. QED
        BY <2>0, <4>1, <4>2
    <3>7. QED
      BY <3>1, <3>4, <3>5, <3>6 DEF Handles, Faults, Stores, Advances, Publishes
  <2>3. CASE UNCHANGED vars
    <3>1. UNCHANGED <<conf, round, monitorStart, invokeLen, done, phases, start>>
      BY <2>3 DEF vars
    <3>2. Warmup' = Warmup /\ Profile' = Profile
      BY <3>1, SameIntervals
    <3>3. QED
      BY <3>1, <3>2 DEF StartInv
  <2>4. QED
    BY <2>1, <2>2, <2>3 DEF Next, Ended
<1>3. QED
  BY <1>1, <1>2, TypeCorrect, PTL DEF Spec

----------------------------------------------------------------------------------
\* What a read of the counters does to the records of the only thread.
LEMMA Pops ==
  ASSUME TypeOK, ReadCounters(0)
  PROVE  \/ /\ Len(buf[0]) > 0 /\ Len(buf'[0]) = Len(buf[0]) - 1
            /\ \A j \in 1..Len(buf'[0]) : j + 1 \in 1..Len(buf[0]) /\ buf'[0][j] = buf[0][j + 1]
            /\ delta'[0] = buf[0][1] /\ misses' = misses
         \/ /\ buf'[0] = buf[0] /\ delta'[0] = NoPhase
            /\ misses < MaxMisses /\ misses' = misses + 1
<1>0. /\ 0 \in Threads /\ delta \in [Threads -> Nat]
      /\ buf \in [Threads -> Seq(Nat)] /\ buf[0] \in Seq(Nat)
  BY CoreOfThread DEF TypeOK
<1>1. CASE /\ buf[0] # <<>>
           /\ delta' = [delta EXCEPT ![0] = Head(buf[0])]
           /\ buf' = [buf EXCEPT ![0] = Tail(@)]
           /\ UNCHANGED misses
  <2>1. buf'[0] = Tail(buf[0]) /\ delta'[0] = Head(buf[0])
    BY <1>0, <1>1
  <2>2. Len(buf[0]) > 0 /\ Len(Tail(buf[0])) = Len(buf[0]) - 1 /\ Head(buf[0]) = buf[0][1]
    BY <1>0, <1>1
  <2>3. \A j \in 1..Len(Tail(buf[0])) : j + 1 \in 1..Len(buf[0]) /\ Tail(buf[0])[j] = buf[0][j + 1]
    BY <1>0, <1>1
  <2>4. QED
    BY <1>1, <2>1, <2>2, <2>3
<1>2. CASE /\ misses < MaxMisses /\ misses' = misses + 1
           /\ delta' = [delta EXCEPT ![0] = NoPhase]
           /\ UNCHANGED buf
  BY <1>0, <1>2
<1>3. QED
  BY <1>1, <1>2 DEF ReadCounters

\* When every record has w ways or more, so has what is read, and what remains.
LEMMA ReadKeeps ==
  ASSUME TypeOK, ReadCounters(0), NEW w \in Nat, \A j \in 1..Len(buf[0]) : buf[0][j] >= w
  PROVE  /\ delta'[0] = NoPhase \/ delta'[0] >= w
         /\ \A j \in 1..Len(buf'[0]) : buf'[0][j] >= w
<1>1. CASE /\ Len(buf[0]) > 0 /\ delta'[0] = buf[0][1]
           /\ \A j \in 1..Len(buf'[0]) : j + 1 \in 1..Len(buf[0]) /\ buf'[0][j] = buf[0][j + 1]
  <2>1. Len(buf[0]) \in Nat
    BY CoreOfThread DEF TypeOK
  <2>2. 1 \in 1..Len(buf[0])
    BY <1>1, <2>1
  <2>3. QED
    BY <1>1, <2>2
<1>2. CASE buf'[0] = buf[0] /\ delta'[0] = NoPhase
  BY <1>2
<1>3. QED
  BY <1>1, <1>2, Pops

(***************************************************************************)
(* With one thread: the records not read yet are those of the signals not  *)
(* handled yet and one for each call that read nothing.                    *)
(***************************************************************************)
LagInv ==
  NumThreads = 1 =>
    /\ pending[0] <= MaxQueue /\ misses <= MaxMisses
    /\ Len(buf[0]) = pending[0] + misses

\* The backlog of records is what LagInv says.
THEOREM LagInvHolds == Spec => []LagInv
<1>1. Init => LagInv
  <2> SUFFICES ASSUME Init PROVE LagInv
    OBVIOUS
  <2>1. conf \in Configs /\ misses = 0
    BY DEF Init
  <2>2. 0 \in Threads /\ MaxQueue \in Nat /\ MaxMisses \in Nat
    BY <2>1, CoreOfThread, Intervals
  <2>3. buf[0] = <<>> /\ pending[0] = 0
    BY <2>2 DEF Init
  <2>4. QED
    BY <2>1, <2>2, <2>3 DEF LagInv
<1>2. TypeOK /\ LagInv /\ [Next]_vars => LagInv'
  <2> SUFFICES ASSUME TypeOK, LagInv, [Next]_vars PROVE LagInv'
    OBVIOUS
  <2>0. /\ conf \in Configs /\ 0 \in Threads /\ misses \in Nat
        /\ buf \in [Threads -> Seq(Nat)] /\ buf[0] \in Seq(Nat) /\ Len(buf[0]) \in Nat
        /\ pending \in [Threads -> Nat] /\ pending[0] \in Nat
        /\ MaxQueue \in Nat /\ MaxMisses \in Nat
    <3>1. conf \in Configs
      BY DEF TypeOK
    <3>2. MaxQueue \in Nat /\ MaxMisses \in Nat /\ 0 \in Threads
      BY <3>1, Intervals, CoreOfThread
    <3>3. /\ buf \in [Threads -> Seq(Nat)] /\ pending \in [Threads -> Nat] /\ misses \in Nat
      BY DEF TypeOK
    <3>4. buf[0] \in Seq(Nat) /\ pending[0] \in Nat
      BY <3>2, <3>3
    <3>5. Len(buf[0]) \in Nat
      BY <3>4
    <3>6. QED
      BY <3>1, <3>2, <3>3, <3>4, <3>5
  <2>1. ASSUME NEW t \in Threads, PhaseEnd(t) PROVE LagInv'
    <3>1. NumThreads' = NumThreads /\ MaxQueue' = MaxQueue /\ MaxMisses' = MaxMisses
      BY <2>1, SameProfile, SameIntervals DEF PhaseEnd
    <3>2. SUFFICES ASSUME NumThreads = 1
                   PROVE  /\ pending'[0] <= MaxQueue /\ misses' <= MaxMisses
                          /\ Len(buf'[0]) = pending'[0] + misses'
      BY <3>1 DEF LagInv
    <3>3. t = 0
      BY <3>2 DEF Threads
    <3>4. /\ pending[0] < MaxQueue /\ pending'[0] = pending[0] + 1 /\ misses' = misses
          /\ buf'[0] = Append(buf[0], WaysOf(0))
      BY <2>0, <2>1, <3>3 DEF PhaseEnd
    <3>5. Len(buf'[0]) = Len(buf[0]) + 1
      BY <2>0, <3>4
    <3>6. QED
      BY <2>0, <3>2, <3>4, <3>5 DEF LagInv
  <2>2. ASSUME NEW t \in Threads, SigthymeHandler(t) PROVE LagInv'
    <3>0. UNCHANGED conf
      BY <2>2, Calls
    <3>1. NumThreads' = NumThreads /\ MaxQueue' = MaxQueue /\ MaxMisses' = MaxMisses
      BY <3>0, SameProfile, SameIntervals
    <3>2. SUFFICES ASSUME NumThreads = 1
                   PROVE  /\ pending'[0] <= MaxQueue /\ misses' <= MaxMisses
                          /\ Len(buf'[0]) = pending'[0] + misses'
      BY <3>1 DEF LagInv
    <3>3. t = 0
      BY <3>2 DEF Threads
    <3>4. pending[0] > 0 /\ pending'[0] = pending[0] - 1 /\ ReadCounters(0)
      BY <2>0, <2>2, <3>3 DEF SigthymeHandler
    <3>5. \/ Len(buf'[0]) = Len(buf[0]) - 1 /\ misses' = misses
          \/ Len(buf'[0]) = Len(buf[0]) /\ misses < MaxMisses /\ misses' = misses + 1
      BY <3>4, Pops
    <3>6. /\ pending[0] <= MaxQueue /\ misses <= MaxMisses
          /\ Len(buf[0]) = pending[0] + misses
      BY <3>2 DEF LagInv
    <3>7. CASE Len(buf'[0]) = Len(buf[0]) - 1 /\ misses' = misses
      BY <2>0, <3>4, <3>6, <3>7
    <3>8. CASE Len(buf'[0]) = Len(buf[0]) /\ misses < MaxMisses /\ misses' = misses + 1
      BY <2>0, <3>4, <3>6, <3>8
    <3>9. QED
      BY <3>5, <3>7, <3>8
  <2>3. CASE UNCHANGED vars
    <3>1. UNCHANGED <<conf, pending, misses, buf>>
      BY <2>3 DEF vars, kernelVars
    <3>2. NumThreads' = NumThreads /\ MaxQueue' = MaxQueue /\ MaxMisses' = MaxMisses
      BY <3>1, SameProfile, SameIntervals
    <3>3. QED
      BY <3>1, <3>2 DEF LagInv
  <2>4. QED
    BY <2>1, <2>2, <2>3 DEF Next, Ended
<1>3. QED
  BY <1>1, <1>2, TypeCorrect, PTL DEF Spec

(***************************************************************************)
(* With one thread, and rounds as far apart as RecordsDrain asks.  During  *)
(* a round no record has fewer ways than the slice, nor has the sample     *)
(* that is read last, and the points of the slices left are labelled with  *)
(* no more ways than they were measured with.  Outside a round, records of *)
(* the last one may remain, but each is read before the next can start:    *)
(* the record at position j is read j calls from now, and one call later   *)
(* for each call that still finds nothing.                                 *)
(***************************************************************************)
RecordInv ==
  (NumThreads = 1 /\ RecordsDrain) =>
    /\ round = 0 => \A j \in 1..Len(buf[0]) : buf[0][j] >= Plan[1]
    /\ \A i \in 1..NumSlices : (monitorStart /\ idx = i) =>
         /\ delta[0] = NoPhase \/ delta[0] >= Plan[i]
         /\ \A j \in 1..Len(buf[0]) : buf[0][j] >= Plan[i]
         /\ \A s \in 1..NumSlices : s < i => points[0][s].y >= points[0][s].x
    /\ (~monitorStart /\ round > 0) => \A j \in 1..Len(buf[0]) :
         \/ buf[0][j] >= Plan[1]
         \/ phases[0] + j + MaxMisses - misses < start + RoundGap
    /\ published[0] # <<>> =>
         \A s \in 1..NumSlices : published[0][s].y >= published[0][s].x

\* When thread 0 starts a round, the records of the last one have been read.
LEMMA DrainedAtStart ==
  ASSUME TypeOK, BoundInv, StartInv, LagInv, RecordInv, ~done, ~fault, NumThreads = 1,
         RecordsDrain, pending[0] > 0, (phases[0] + 1) % invokeLen = 0
  PROVE  \A j \in 1..Len(buf[0]) : buf[0][j] >= Plan[1]
<1>0. /\ conf \in Configs /\ phases[0] \in Nat /\ start \in Nat /\ misses \in Nat /\ round \in Nat
      /\ pending[0] \in Nat /\ Len(buf[0]) \in Nat
  BY CoreOfThread DEF TypeOK
<1>1. CASE round = 0
  BY <1>1 DEF RecordInv
<1>2. CASE round > 0
  <2>1. start <= phases[0] /\ (start % Profile = 0 \/ start = Warmup) /\ invokeLen = Profile
    BY <1>0, <1>2 DEF StartInv
  <2>2. phases[0] + 1 \in Nat /\ phases[0] + 1 > start /\ (phases[0] + 1) % Profile = 0
    BY <1>0, <2>1
  <2>3. phases[0] + 1 >= start + RoundGap /\ RoundGap \in Nat
    BY <1>0, <2>1, <2>2, NextStart
  <2>4. MaxMisses \in Nat /\ MaxQueue \in Nat /\ NumSlices \in Nat
    BY <1>0, Intervals, PlanFacts
  <2>5. pending[0] <= MaxQueue /\ misses <= MaxMisses
    BY DEF LagInv
  <2>6. CASE monitorStart
    <3>1. phases[0] <= start + idx - 1 + misses
      BY <2>6 DEF BoundInv
    <3>2. idx \in -1..NumSlices
      BY DEF TypeOK
    <3>3. RoundGap >= NumSlices + 2 * MaxMisses + MaxQueue
      BY DEF RecordsDrain
    <3>4. FALSE
      BY <1>0, <2>3, <2>4, <2>5, <3>1, <3>2, <3>3
    <3>5. QED
      BY <3>4
  <2>7. CASE ~monitorStart
    <3>1. SUFFICES ASSUME NEW j \in 1..Len(buf[0]) PROVE buf[0][j] >= Plan[1]
      OBVIOUS
    <3>2. ~(phases[0] + j + MaxMisses - misses < start + RoundGap)
      BY <1>0, <2>3, <2>4, <2>5
    <3>3. QED
      BY <1>2, <2>7, <3>2 DEF RecordInv
  <2>8. QED
    BY <2>6, <2>7
<1>3. QED
  BY <1>0, <1>1, <1>2

\* The phases that end add records of the ways the thread has now.
LEMMA RecordPhase ==
  ASSUME TypeOK, PartInv, BoundInv, StartInv, RecordInv, ~done, ~fault,
         NEW t \in Threads, PhaseEnd(t)
  PROVE  RecordInv'
<1>0. /\ UNCHANGED conf
      /\ UNCHANGED <<monitorStart, idx, round, start, phases, misses, delta, points, published>>
  BY DEF PhaseEnd
<1>1. /\ NumThreads' = NumThreads /\ NumSlices' = NumSlices /\ Plan' = Plan
      /\ MaxMisses' = MaxMisses /\ RoundGap' = RoundGap /\ RecordsDrain' = RecordsDrain
  BY <1>0, SameProfile, SameIntervals
<1>2. SUFFICES ASSUME NumThreads = 1, RecordsDrain PROVE RecordInv'
  BY <1>1 DEF RecordInv
<1>3. t = 0 /\ conf \in Configs /\ 0 \in Threads /\ buf \in [Threads -> Seq(Nat)] /\ buf[0] \in Seq(Nat)
  <2>1. t = 0
    BY <1>2 DEF Threads
  <2>2. QED
    BY <2>1 DEF TypeOK
<1>4. /\ WaysOf(0) \in Nat
      /\ WaysOf(0) = IF monitorStart THEN Plan[idx] ELSE CacheWays
  BY <1>2, SomeWay DEF BoundInv
<1>5. buf'[0] = Append(buf[0], WaysOf(0))
  BY <1>3 DEF PhaseEnd
<1>6. \A j \in 1..Len(buf'[0]) :
        \/ j \in 1..Len(buf[0]) /\ buf'[0][j] = buf[0][j]
        \/ buf'[0][j] = WaysOf(0)
  BY <1>3, <1>4, <1>5
<1>7. ~monitorStart => WaysOf(0) >= Plan[1]
  <2>1. CacheWays \in Nat /\ NumSlices \in Nat /\ NumSlices >= 3
    BY <1>3, Numbers, PlanFacts
  <2>2. 1 \in 1..NumSlices
    BY <2>1
  <2>3. Plan[1] \in 1..(CacheWays - 1)
    BY <1>3, <2>2, PlanFacts
  <2>4. CacheWays >= Plan[1]
    BY <2>1, <2>3
  <2>5. QED
    BY <1>4, <2>4
<1>8. round = 0 => \A j \in 1..Len(buf'[0]) : buf'[0][j] >= Plan[1]
  <2>1. round = 0 => ~monitorStart
    BY DEF StartInv, TypeOK
  <2>2. round = 0 => \A j \in 1..Len(buf[0]) : buf[0][j] >= Plan[1]
    BY <1>2 DEF RecordInv
  <2>3. QED
    BY <1>6, <1>7, <2>1, <2>2
<1>9. ASSUME NEW i \in 1..NumSlices, monitorStart, idx = i
      PROVE  \A j \in 1..Len(buf'[0]) : buf'[0][j] >= Plan[i]
  <2>1. \A j \in 1..Len(buf[0]) : buf[0][j] >= Plan[i]
    BY <1>2, <1>9 DEF RecordInv
  <2>2. WaysOf(0) = Plan[i] /\ Plan[i] >= Plan[i]
    BY <1>4, <1>9
  <2>3. QED
    BY <1>6, <2>1, <2>2
<1>10. ASSUME ~monitorStart, round > 0
       PROVE  \A j \in 1..Len(buf'[0]) :
                \/ buf'[0][j] >= Plan[1]
                \/ phases[0] + j + MaxMisses - misses < start + RoundGap
  <2>1. \A j \in 1..Len(buf[0]) :
          \/ buf[0][j] >= Plan[1]
          \/ phases[0] + j + MaxMisses - misses < start + RoundGap
    BY <1>2, <1>10 DEF RecordInv
  <2>2. QED
    BY <1>6, <1>7, <1>10, <2>1
<1>11. QED
  BY <1>0, <1>1, <1>2, <1>8, <1>9, <1>10 DEF RecordInv

\* The record at position j of the d missed ones and the q - 1 still queued when a
\* round of c slices from call s ends, at call p + 1, is read in time.
LEMMA DrainTime ==
  ASSUME NEW p \in Nat, NEW s \in Nat, NEW c \in Nat, NEW m \in Nat, NEW d \in Nat,
         NEW q \in Nat, NEW j \in Nat, NEW M \in Nat, NEW Q \in Nat, NEW G \in Int,
         p <= s + c - 1 + m, G >= c + 2 * M + Q, q <= Q, m <= M, j <= q - 1 + d
  PROVE  (p + 1) + j + M - d < s + G
  OBVIOUS

\* A call of the handler, during a round or not.
LEMMA RecordCall ==
  ASSUME TypeOK, PartInv, BoundInv, StartInv, LagInv, LagInv', RecordInv, ~done, ~fault,
         NEW t \in Threads, SigthymeHandler(t)
  PROVE  RecordInv'
<1>0. /\ UNCHANGED conf /\ Handles(t, phases[t] + 1)
      /\ phases' = [phases EXCEPT ![t] = phases[t] + 1]
  BY Calls
<1>1. /\ NumThreads' = NumThreads /\ NumSlices' = NumSlices /\ Plan' = Plan /\ Threads' = Threads
      /\ MaxMisses' = MaxMisses /\ RoundGap' = RoundGap /\ RecordsDrain' = RecordsDrain
  BY <1>0, SameProfile, SameIntervals
<1>2. SUFFICES ASSUME NumThreads = 1, RecordsDrain PROVE RecordInv'
  BY <1>1 DEF RecordInv
<1>3. /\ t = 0 /\ profiled = 0 /\ 0 \in Threads /\ conf \in Configs
      /\ phases[0] \in Nat /\ start \in Nat /\ misses \in Nat /\ round \in Nat
      /\ delta[0] \in Nat
      /\ points \in [Threads -> Curve] /\ published \in [Threads -> Curve \cup {<<>>}]
  <2>1. t = 0 /\ profiled = 0
    BY <1>2 DEF Threads, TypeOK
  <2>2. 0 \in Threads
    BY <2>1
  <2>3. QED
    BY <2>1, <2>2 DEF TypeOK
<1>4. phases'[0] = phases[0] + 1 /\ ReadCounters(0) /\ pending[0] > 0
  BY <1>0, <1>3 DEF SigthymeHandler, TypeOK
<1>5. NumSlices \in Nat /\ NumSlices >= 3 /\ 1 \in 1..NumSlices /\ 2 \in 1..NumSlices
  <2>1. NumSlices \in Nat /\ NumSlices >= 3
    BY <1>3, PlanFacts
  <2>2. QED
    BY <2>1
<1>6. \A i \in 1..NumSlices : Plan[i] \in Nat
  <2>1. CacheWays \in Nat /\ \A i \in 1..NumSlices : Plan[i] \in 1..(CacheWays - 1)
    BY <1>3, Numbers, PlanFacts
  <2>2. QED
    BY <2>1
<1>7. monitorStart => round > 0
  BY <1>3 DEF StartInv
<1>8. published[0] # <<>> => \A s \in 1..NumSlices : published[0][s].y >= published[0][s].x
  BY <1>2 DEF RecordInv
\* The round goes on with slice i, the same one.
<1>9. ASSUME NEW i \in 1..NumSlices, monitorStart, idx = i
      PROVE  /\ delta'[0] = NoPhase \/ delta'[0] >= Plan[i]
             /\ \A j \in 1..Len(buf'[0]) : buf'[0][j] >= Plan[i]
  <2>1. \A j \in 1..Len(buf[0]) : buf[0][j] >= Plan[i]
    BY <1>2, <1>9 DEF RecordInv
  <2>2. Plan[i] \in Nat
    BY <1>6
  <2>3. QED
    BY <1>4, <2>1, <2>2, ReadKeeps
<1>10. CASE Starts(phases[0] + 1)
  <2>1. /\ (phases[0] + 1) % invokeLen = 0 /\ monitorStart' /\ idx' = 1 /\ round' = round + 1
        /\ UNCHANGED published
    BY <1>10 DEF Starts
  <2>2. \A j \in 1..Len(buf[0]) : buf[0][j] >= Plan[1]
    BY <1>2, <1>4, <2>1, DrainedAtStart
  <2>3. Plan[1] \in Nat
    BY <1>5, <1>6
  <2>4. /\ delta'[0] = NoPhase \/ delta'[0] >= Plan[1]
        /\ \A j \in 1..Len(buf'[0]) : buf'[0][j] >= Plan[1]
    BY <1>4, <2>2, <2>3, ReadKeeps
  <2>5. \A s \in 1..NumSlices : ~(s < 1)
    OBVIOUS
  <2>6. round' # 0
    BY <1>3, <2>1
  <2>7. QED
    BY <1>1, <1>8, <2>1, <2>4, <2>5, <2>6 DEF RecordInv
<1>11. CASE monitorStart /\ UNCHANGED <<monitorStart, idx, points, published, round>>
  <2>1. \A i \in 1..NumSlices : idx = i =>
          \A s \in 1..NumSlices : s < i => points[0][s].y >= points[0][s].x
    BY <1>2, <1>11 DEF RecordInv
  <2>2. round' # 0
    BY <1>3, <1>7, <1>11
  <2>3. QED
    BY <1>1, <1>8, <1>9, <1>11, <2>1, <2>2 DEF RecordInv
<1>12. CASE Stores(0)
  <2>1. /\ monitorStart /\ idx \in 1..NumSlices
        /\ points' = [points EXCEPT ![0] = Stored(0)]
        /\ UNCHANGED <<monitorStart, idx, published, round>>
    BY <1>12 DEF Stores
  <2>2. \A s \in 1..NumSlices : s # idx => points'[0][s] = points[0][s]
    <3>1. \A s \in 1..NumSlices : s # idx => Stored(0)[s] = points[0][s]
      BY <1>3, <2>1, StoredFacts
    <3>2. points'[0] = Stored(0)
      BY <1>3, <2>1
    <3>3. QED
      BY <3>1, <3>2
  <2>3. \A i \in 1..NumSlices : idx = i =>
          \A s \in 1..NumSlices : s < i => points[0][s].y >= points[0][s].x
    BY <1>2, <2>1 DEF RecordInv
  <2>4. \A i, s \in 1..NumSlices : s < i => s # i
    BY <1>5
  <2>5. \A i \in 1..NumSlices : idx = i =>
          \A s \in 1..NumSlices : s < i => points'[0][s].y >= points'[0][s].x
    BY <2>2, <2>3, <2>4
  <2>6. round' # 0
    BY <1>3, <1>7, <2>1
  <2>7. QED
    BY <1>1, <1>8, <1>9, <2>1, <2>5, <2>6 DEF RecordInv
\* The sample that ends slice i is labelled with no more ways than it has.
<1>13. ASSUME NEW i \in 1..NumSlices, monitorStart, idx = i, Sampled(0)
       PROVE  \A s \in 1..NumSlices : s <= i => Stored(0)[s].y >= Stored(0)[s].x
  <2>1. /\ \A s \in 1..NumSlices : s # i => Stored(0)[s] = points[0][s]
        /\ Stored(0)[i].x = sampling[0].ways /\ Stored(0)[i].y = delta[0]
    BY <1>3, <1>13, StoredFacts
  <2>2. sampling[0].ways = Plan[i]
    BY <1>3, <1>13, SliceFacts DEF PartInv
  <2>3. delta[0] >= Plan[i]
    BY <1>2, <1>13 DEF RecordInv, Sampled
  <2>4. \A s \in 1..NumSlices : s < i => points[0][s].y >= points[0][s].x
    BY <1>2, <1>13 DEF RecordInv
  <2>5. TAKE s \in 1..NumSlices
  <2>6. s <= i => s < i \/ s = i
    BY <1>5
  <2>7. s < i => s # i
    BY <1>5
  <2>8. QED
    BY <2>1, <2>2, <2>3, <2>4, <2>6, <2>7
<1>14. CASE Advances(0)
  <2>1. PICK i \in 1..NumSlices : i = idx /\ i + 1 \in 1..NumSlices
    BY <1>5, <1>14 DEF Advances
  <2>2. /\ monitorStart /\ Sampled(0) /\ idx' = i + 1
        /\ points' = [points EXCEPT ![0] = Stored(0)]
        /\ UNCHANGED <<monitorStart, published, round>>
    BY <1>14, <2>1 DEF Advances
  <2>3. points'[0] = Stored(0)
    BY <1>3, <2>2
  <2>4. \A s \in 1..NumSlices : s <= i => points'[0][s].y >= points'[0][s].x
    BY <1>13, <2>1, <2>2, <2>3
  <2>5. /\ delta'[0] = NoPhase \/ delta'[0] >= Plan[i + 1]
        /\ \A j \in 1..Len(buf'[0]) : buf'[0][j] >= Plan[i + 1]
    <3>1. \A j \in 1..Len(buf[0]) : buf[0][j] >= Plan[i]
      BY <1>2, <2>1, <2>2 DEF RecordInv
    <3>2. Plan[i + 1] <= Plan[i] /\ Plan[i + 1] \in Nat /\ Plan[i] \in Nat
      BY <1>3, <1>6, <2>1, PlanShrinks
    <3>3. \A j \in 1..Len(buf[0]) : buf[0][j] \in Nat
      BY <1>3 DEF TypeOK
    <3>4. \A j \in 1..Len(buf[0]) : buf[0][j] >= Plan[i + 1]
      BY <3>1, <3>2, <3>3
    <3>5. QED
      BY <1>4, <3>2, <3>4, ReadKeeps
  <2>6. \A k, s \in 1..NumSlices : k = i + 1 /\ s < k => s <= i
    BY <1>5
  <2>7. round' # 0
    BY <1>3, <1>7, <2>2
  <2>8. QED
    BY <1>1, <1>8, <2>2, <2>4, <2>5, <2>6, <2>7 DEF RecordInv
<1>15. CASE Publishes(0)
  <2>1. PICK i \in 1..NumSlices : i = idx /\ i = NumSlices
    BY <1>5, <1>15 DEF Publishes
  <2>2. /\ monitorStart /\ Sampled(0) /\ UNCHANGED <<round, start>>
        /\ published' = [published EXCEPT ![0] = CurvePoints(Stored(0))]
    BY <1>15 DEF Publishes
  <2>3. ~monitorStart'
    <3>1. profiled + 1 >= NumThreads
      BY <1>2, <1>3
    <3>2. QED
      BY <1>15, <3>1 DEF Publishes, NextThread
  <2>4. \A s \in 1..NumSlices : Stored(0)[s].y >= Stored(0)[s].x
    <3>1. \A s \in 1..NumSlices : s <= i
      BY <1>5, <2>1
    <3>2. QED
      BY <1>13, <2>1, <2>2, <3>1
  <2>5. \A s \in 1..NumSlices : published'[0][s].y >= published'[0][s].x
    <3>1. published'[0] = CurvePoints(Stored(0))
      BY <1>3, <2>2
    <3>2. Stored(0) \in [1..NumSlices -> Point]
      BY <1>3, <2>1, StoredFacts DEF Curve
    <3>3. \A s \in 1..NumSlices : CurvePoints(Stored(0))[s] = IF s = 1 THEN Stored(0)[2] ELSE Stored(0)[s]
      BY <3>2 DEF CurvePoints
    <3>4. QED
      BY <1>5, <2>4, <3>1, <3>3
  <2>6. ASSUME NEW j \in 1..Len(buf'[0])
        PROVE  phases'[0] + j + MaxMisses - misses' < start + RoundGap
    <3>1. phases[0] <= start + NumSlices - 1 + misses
      BY <1>2, <2>1, <2>2 DEF BoundInv
    <3>2. /\ MaxMisses \in Nat /\ MaxQueue \in Nat /\ RoundGap \in Int
      <4>1. MaxMisses \in Nat /\ MaxQueue \in Nat /\ Warmup \in Nat /\ Profile \in Nat /\ Profile > 0
        BY <1>3, Intervals
      <4>2. Warmup % Profile \in Int
        BY <4>1
      <4>3. QED
        BY <4>1, <4>2 DEF RoundGap
    <3>3. RoundGap >= NumSlices + 2 * MaxMisses + MaxQueue
      BY <1>2 DEF RecordsDrain
    <3>4. pending'[0] = pending[0] - 1 /\ pending[0] \in Nat
      BY <1>3 DEF SigthymeHandler, TypeOK
    <3>5. pending[0] <= MaxQueue /\ misses <= MaxMisses
      BY <1>2 DEF LagInv
    <3>6. Len(buf'[0]) = pending'[0] + misses'
      BY <1>1, <1>2 DEF LagInv
    <3>7. misses' = misses \/ misses' = misses + 1
      BY <1>4, Pops
    <3>8. j \in Nat /\ j <= pending[0] - 1 + misses'
      BY <1>3, <3>4, <3>6, <3>7
    <3>9. QED
      <4>1. PICK d \in Nat : d = misses'
        BY <1>3, <3>7
      <4>2. (phases[0] + 1) + j + MaxMisses - d < start + RoundGap
        <5>1. j <= pending[0] - 1 + d
          BY <3>8, <4>1
        <5>2. QED
          BY <1>3, <1>5, <3>1, <3>2, <3>3, <3>4, <3>5, <3>8, <5>1, DrainTime
      <4>3. QED
        BY <1>4, <4>1, <4>2
  <2>7. round' # 0
    BY <1>3, <1>7, <2>2
  <2>8. QED
    BY <1>1, <2>2, <2>3, <2>5, <2>6, <2>7 DEF RecordInv
<1>16. CASE /\ ~monitorStart
            /\ UNCHANGED <<monitorStart, idx, points, published, round, start>>
  <2>1. round = 0 => \A j \in 1..Len(buf'[0]) : buf'[0][j] >= Plan[1]
    <3>1. Plan[1] \in Nat
      BY <1>5, <1>6
    <3>2. round = 0 => \A j \in 1..Len(buf[0]) : buf[0][j] >= Plan[1]
      BY <1>2 DEF RecordInv
    <3>3. QED
      BY <1>4, <3>1, <3>2, ReadKeeps
  <2>2. ASSUME round > 0, NEW j \in 1..Len(buf'[0])
        PROVE  \/ buf'[0][j] >= Plan[1]
               \/ phases'[0] + j + MaxMisses - misses' < start + RoundGap
    <3>0. \A k \in 1..Len(buf[0]) :
            \/ buf[0][k] >= Plan[1]
            \/ phases[0] + k + MaxMisses - misses < start + RoundGap
      BY <1>2, <1>16, <2>2 DEF RecordInv
    <3>1. MaxMisses \in Nat
      BY <1>3, Intervals
    <3>2. CASE j + 1 \in 1..Len(buf[0]) /\ buf'[0][j] = buf[0][j + 1] /\ misses' = misses
      <4>1. CASE buf[0][j + 1] >= Plan[1]
        BY <3>2, <4>1
      <4>2. CASE phases[0] + (j + 1) + MaxMisses - misses < start + RoundGap
        <5>1. phases[0] + (j + 1) + MaxMisses - misses = phases'[0] + j + MaxMisses - misses'
          <6>1. j \in Int
            OBVIOUS
          <6>2. phases[0] + (j + 1) + MaxMisses - misses = (phases[0] + 1) + j + MaxMisses - misses
            BY <1>3, <3>1, <6>1
          <6>3. QED
            BY <1>4, <3>2, <6>2
        <5>2. QED
          BY <4>2, <5>1
      <4>3. QED
        BY <3>0, <3>2, <4>1, <4>2
    <3>3. CASE buf'[0] = buf[0] /\ misses' = misses + 1
      <4>1. phases[0] + j + MaxMisses - misses = phases'[0] + j + MaxMisses - misses'
        <5>1. j \in Int
          OBVIOUS
        <5>2. QED
          BY <1>3, <1>4, <3>1, <3>3, <5>1
      <4>2. QED
        BY <3>0, <3>3, <4>1
    <3>4. QED
      BY <1>4, <3>2, <3>3, Pops
  <2>3. QED
    BY <1>1, <1>8, <1>16, <2>1, <2>2 DEF RecordInv
<1>17. CASE Faults
  BY <1>11, <1>17 DEF Faults
<1>18. CASE Rests(0, phases[0] + 1)
  BY <1>11, <1>16, <1>18 DEF Rests
<1>19. QED
  BY <1>0, <1>3, <1>10, <1>12, <1>14, <1>15, <1>17, <1>18 DEF Handles

\* The records and the points are as RecordInv says in every reachable state.
THEOREM RecordInvHolds == Spec => []RecordInv
<1>1. Init => RecordInv
  <2> SUFFICES ASSUME Init PROVE RecordInv
    OBVIOUS
  <2>1. conf \in Configs /\ ~monitorStart /\ round = 0
    BY DEF Init
  <2>2. 0 \in Threads
    BY <2>1, CoreOfThread
  <2>3. buf[0] = <<>> /\ published[0] = <<>>
    BY <2>2 DEF Init
  <2>4. \A j \in 1..Len(buf[0]) : FALSE
    BY <2>3
  <2>5. QED
    BY <2>1, <2>3, <2>4 DEF RecordInv
<1>2. /\ TypeOK /\ PartInv /\ BoundInv /\ StartInv /\ LagInv /\ LagInv' /\ RecordInv
      /\ [Next]_vars
      => RecordInv'
  <2> SUFFICES ASSUME TypeOK, PartInv, BoundInv, StartInv, LagInv, LagInv', RecordInv, [Next]_vars
               PROVE  RecordInv'
    OBVIOUS
  <2>1. ASSUME NEW t \in Threads, PhaseEnd(t), ~done, ~fault PROVE RecordInv'
    BY <2>1, RecordPhase
  <2>2. ASSUME NEW t \in Threads, SigthymeHandler(t), ~done, ~fault PROVE RecordInv'
    BY <2>2, RecordCall
  <2>3. CASE UNCHANGED vars
    <3>1. /\ UNCHANGED <<conf, buf, misses, monitorStart, idx, round, start, phases, delta>>
          /\ UNCHANGED <<points, published>>
      BY <2>3 DEF vars, kernelVars
    <3>2. /\ NumThreads' = NumThreads /\ NumSlices' = NumSlices /\ Plan' = Plan
          /\ MaxMisses' = MaxMisses /\ RoundGap' = RoundGap /\ RecordsDrain' = RecordsDrain
      BY <3>1, SameProfile, SameIntervals
    <3>3. QED
      BY <3>1, <3>2 DEF RecordInv
  <2>4. QED
    BY <2>1, <2>2, <2>3 DEF Next, Ended
<1>3. QED
  BY <1>1, <1>2, TypeCorrect, PartInvHolds, BoundInvHolds, StartInvHolds, LagInvHolds, PTL DEF Spec

(***************************************************************************)
(* With one thread, and rounds far enough apart for the records of one to  *)
(* be read before the next, no published point was measured with fewer     *)
(* ways than its label says: the error of the curve is one-sided, for any  *)
(* backlog of signals and any number of reads that find nothing.           *)
(***************************************************************************)
THEOREM MeasuredWithAtLeastHolds == Spec => []MeasuredWithAtLeast
<1>1. RecordInv => MeasuredWithAtLeast
  <2> SUFFICES ASSUME RecordInv, NumThreads = 1, RecordsDrain, NEW t \in Threads, published[t] # <<>>
               PROVE  \A s \in 1..NumSlices : published[t][s].y >= published[t][s].x
    BY DEF MeasuredWithAtLeast
  <2>1. t = 0
    BY DEF Threads
  <2>2. QED
    BY <2>1 DEF RecordInv
<1>2. QED
  BY <1>1, RecordInvHolds, PTL

----------------------------------------------------------------------------------
\* MemTraffic: the counter of a core, between any two reads.

TrafficInv == TrafficTypeOK /\ Turns

\* Whatever initCmt finds in the counter is accounted for.
LEMMA TrafficInitInv == TrafficInit => TrafficInv
  BY TrafficAssumption DEF TrafficInit, TrafficInv, TrafficTypeOK, Turns

\* The invariant is kept by the hardware and by both reads of updateMemTraffic.
LEMMA TrafficNextInv == TrafficInv /\ [TrafficNext]_trafficVars => TrafficInv'
<1> SUFFICES ASSUME TrafficInv, [TrafficNext]_trafficVars
             PROVE  TrafficInv'
  OBVIOUS
<1> USE TrafficAssumption
<1>1. ASSUME NEW n \in 1..MaxBurst, Traffic(n)
      PROVE  TrafficInv'
  <2>1. TrafficTypeOK'
    BY <1>1 DEF TrafficInv, TrafficTypeOK, Traffic
  <2>2. Turns'
    BY <1>1 DEF TrafficInv, TrafficTypeOK, Turns, Traffic
  <2> QED
    BY <2>1, <2>2 DEF TrafficInv
<1>2. CASE AddDelta
  <2> DEFINE diff == GetMemTrafficDelta(ctr, last)
  \* The difference is never more than the traffic since memTrafficLast was
  \* read, and is that traffic when less than a turn went by.
  <2>0. /\ ctr \in 0..(Max - 1) /\ last \in 0..(Max - 1)
        /\ traffic \in Nat /\ base \in Nat /\ base <= traffic
        /\ \/ traffic - ctr = base - last
           \/ traffic - ctr = base - last + Max
           \/ traffic - ctr >= base - last + 2 * Max
    BY DEF TrafficInv, TrafficTypeOK, Turns
  <2>1. /\ diff \in Nat
        /\ diff <= traffic - base
        /\ traffic - base < Max => diff = traffic - base
    BY <2>0 DEF GetMemTrafficDelta
  <2>2. total' = total + diff
    BY <1>2 DEF AddDelta
  <2> HIDE DEF diff
  <2>3. TrafficTypeOK'
    BY <1>2, <2>1, <2>2 DEF TrafficInv, TrafficTypeOK, AddDelta
  <2>4. Turns'
    BY <1>2, <2>1, <2>2 DEF TrafficInv, TrafficTypeOK, Turns, AddDelta
  <2> QED
    BY <2>3, <2>4 DEF TrafficInv
<1>3. CASE ReadLast
  <2>1. TrafficTypeOK'
    BY <1>3 DEF TrafficInv, TrafficTypeOK, Turns, ReadLast
  <2>2. Turns'
    BY <1>3 DEF TrafficInv, TrafficTypeOK, Turns, ReadLast
  <2> QED
    BY <2>1, <2>2 DEF TrafficInv
<1>4. CASE UNCHANGED trafficVars
  BY <1>4 DEF TrafficInv, TrafficTypeOK, Turns, trafficVars
<1> QED
  BY <1>1, <1>2, <1>3, <1>4 DEF TrafficNext

\* The types and the relation between counter and history hold throughout.
THEOREM TrafficInvariant == TrafficSpec => [](TrafficTypeOK /\ Turns)
  BY TrafficInitInv, TrafficNextInv, PTL DEF TrafficSpec, TrafficInv

\* updateMemTraffic never reports more traffic than there was, for a counter of
\* any width.
THEOREM NeverOvercountsHolds == TrafficSpec => []NeverOvercounts
<1>1. TrafficTypeOK /\ Turns => NeverOvercounts
  BY DEF TrafficTypeOK, Turns, NeverOvercounts
<1> QED
  BY <1>1, TrafficInvariant, PTL

\* Only the traffic between the two reads of a call is lost, for a counter of any
\* width.
THEOREM LostOnlyBetweenReadsHolds == TrafficSpec => []LostOnlyBetweenReads
<1>1. TrafficTypeOK /\ Turns => LostOnlyBetweenReads
  BY DEF TrafficTypeOK, Turns, LostOnlyBetweenReads
<1> QED
  BY <1>1, TrafficInvariant, PTL
==================================================================================
