---------------------------- MODULE RollupProofs ----------------------------
(***************************************************************************)
(* Proofs about Rollup, for any samples, workers, widths, retentions and   *)
(* lateness that satisfy TierAssumption.                                   *)
(***************************************************************************)
EXTENDS Rollup, WellFoundedInduction, TLAPS

-----------------------------------------------------------------------------
(* Buckets.                                                                *)

\* The start of a bucket: at most its width before t, and aligned.
LEMMA FloorFacts ==
    ASSUME NEW w \in Nat \ {0}, NEW t \in Int
    PROVE  /\ FloorTo(t, w) \in Int
           /\ FloorTo(t, w) <= t /\ t < FloorTo(t, w) + w
           /\ FloorTo(t, w) % w = 0
           /\ t \in Nat => FloorTo(t, w) \in Nat
<1>1. t % w \in Nat /\ t % w < w
  OBVIOUS
<1>2. (t - (t % w)) % w = 0
  OBVIOUS
<1>3. t \in Nat => t % w <= t
  OBVIOUS
<1>. QED
  BY <1>1, <1>2, <1>3 DEF FloorTo

\* A boundary at or before t is at or before the bucket of t, and a boundary
\* after t is at or after the end of that bucket.
LEMMA FloorAligned ==
    ASSUME NEW w \in Nat \ {0}, NEW t \in Int, NEW m \in Int, m % w = 0
    PROVE  /\ m <= t => m <= FloorTo(t, w)
           /\ t < m => FloorTo(t, w) + w <= m
<1>1. m <= t => m <= FloorTo(t, w)
  BY DEF FloorTo
<1>2. ASSUME t < m PROVE FloorTo(t, w) + w <= m
  <2>. DEFINE a == m \div w
              b == t \div w
  <2>1. m = a * w /\ a \in Int
    OBVIOUS
  <2>2. t = b * w + (t % w) /\ b \in Int /\ t % w \in Int
    OBVIOUS
  <2>. HIDE DEF a, b
  <2>3. FloorTo(t, w) = b * w
    BY <2>2 DEF FloorTo
  <2>a. FloorTo(t, w) \in Int /\ FloorTo(t, w) <= t
    BY FloorFacts
  <2>b. FloorTo(t, w) < m
    BY <1>2, <2>a
  <2>4. b * w < a * w
    BY <2>1, <2>3, <2>b
  <2>5. b * w + w <= a * w
    BY <2>1, <2>2, <2>4
  <2>. QED
    BY <2>1, <2>3, <2>5
<1>. QED
  BY <1>1, <1>2

\* Boundaries differ by whole buckets.
LEMMA AlignedDifference ==
    ASSUME NEW w \in Nat \ {0}, NEW m \in Int, NEW n \in Int, m % w = 0, n % w = 0
    PROVE  (m - n) % w = 0
<1>. DEFINE a == m \div w
            b == n \div w
<1>1. m = a * w /\ n = b * w /\ a \in Int /\ b \in Int
  OBVIOUS
<1>. HIDE DEF a, b
<1>2. m - n = w * (a - b)
  BY <1>1
<1>3. (w * (a - b)) % w = 0
  <2>1. a - b \in Int
    BY <1>1
  <2>2. \A q \in Int : (w * q) % w = 0
    OBVIOUS
  <2>. QED
    BY <2>1, <2>2
<1>. QED
  BY <1>2, <1>3

\* The splice of the query is a whole lateness before the current bucket.
LEMMA FloorShift ==
    ASSUME NEW w \in Nat \ {0}, NEW t \in Int, NEW d \in Int, d % w = 0
    PROVE  FloorTo(t - d, w) = FloorTo(t, w) - d
<1>. DEFINE n == FloorTo(t, w) - d
<1>1. n \in Int /\ n % w = 0 /\ n <= t - d /\ t - d < n + w
  <2>1. /\ FloorTo(t, w) \in Int /\ FloorTo(t, w) % w = 0
        /\ FloorTo(t, w) <= t /\ t < FloorTo(t, w) + w
    BY FloorFacts
  <2>2. (FloorTo(t, w) - d) % w = 0
    BY <2>1, AlignedDifference
  <2>. QED
    BY <2>1, <2>2
<1>. HIDE DEF n
<1>2. n <= FloorTo(t - d, w)
  <2>1. t - d \in Int
    OBVIOUS
  <2>. QED
    BY <1>1, <2>1, FloorAligned
<1>3. FloorTo(t - d, w) <= t - d /\ FloorTo(t - d, w) % w = 0 /\ FloorTo(t - d, w) \in Int
  BY FloorFacts
<1>4. n < FloorTo(t - d, w) => FloorTo(n, w) + w <= FloorTo(t - d, w)
  BY <1>1, <1>3, FloorAligned
<1>5. FloorTo(n, w) = n
  BY <1>1 DEF FloorTo
<1>. QED
  BY <1>1, <1>2, <1>3, <1>4, <1>5 DEF n

\* A set of times has an earliest one.
LEMMA Earliest ==
    ASSUME NEW T, T \subseteq Nat, T # {}
    PROVE  \E m \in T : \A x \in T : m <= x
<1>1. PICK m \in T : \A x \in T : ~(<<x, m>> \in OpToRel(<, Nat))
  BY WFMin, NatLessThanWellFounded
<1>2. \A x \in T : ~(x < m)
  BY <1>1 DEF OpToRel
<1>. QED
  BY <1>2

-----------------------------------------------------------------------------
(* The inductive invariant.                                                *)

\* What a sample is known by does not change once it is stored.
StoredOnly == \A s \in raw \cup rolled \cup timely : stage[s] = "stored"

\* Passes end at bucket boundaries and never go back.
ThroughAligned ==
    /\ through # None => through % Width = 0 /\ through <= now
    /\ rolled # {} => through # None

\* A counted sample that has lost its raw row is before every later window.
RolledBehind == \A s \in rolled \ raw : through # None /\ ts[s] < through - Lateness

\* A timely sample that is not counted is in the next window.
Awaited(s) == s \in raw /\ (through # None => ts[s] >= through - Lateness)
TimelyAwaited == \A s \in timely : s \in rolled \/ RollupExpired(now, Bucket(s)) \/ Awaited(s)

\* What the pass of a worker has read and when.
PassOK(w) ==
    LET end == FloorTo(pass[w].at, Width) IN
    /\ pass[w].counted \subseteq raw
    /\ through # None => through <= end
    /\ \A s \in timely \cap raw :
          \/ s \in pass[w].counted
          \/ ts[s] >= end - Lateness
          \/ through # None /\ ts[s] < through - Lateness
    /\ \A s \in rolled, r \in pass[w].counted :
          Bucket(s) = Bucket(r) => s \in pass[w].counted

PassesOK ==
    /\ pass \in [Workers -> [pc : {"idle", "retention"}, at : 0..now, counted : SUBSET Samples]]
    /\ \A w \in Workers : pass[w].pc = "retention" => PassOK(w)

TierInv ==
    /\ TypeOK /\ StoredOnly /\ ThroughAligned /\ RolledBehind /\ TimelyAwaited /\ PassesOK

\* An expired rollup stays expired.
LEMMA ExpiredStays ==
    ASSUME NEW b \in Int, NEW t \in Int, NEW u \in Int, t <= u, RollupExpired(t, b)
    PROVE  RollupExpired(u, b)
<1>1. FloorTo(b, Day) \in Int /\ Day \in Int /\ RollupRetention \in Int
  BY TierAssumption, FloorFacts
<1>. QED
  BY <1>1 DEF RollupExpired

\* The times of the samples and their buckets.
LEMMA Times ==
    ASSUME TypeOK
    PROVE  /\ now \in Nat /\ through \in Int /\ Width \in Nat \ {0} /\ Lateness \in Nat
           /\ \A s \in Samples : ts[s] \in Nat /\ Bucket(s) \in Nat
<1>1. MaxTime \in Nat /\ Skew \in Nat /\ Width \in Nat \ {0} /\ Lateness \in Nat
  BY TierAssumption, BoundAssumption
<1>2. now \in Nat /\ through \in Int /\ \A s \in Samples : ts[s] \in Nat
  BY <1>1 DEF TypeOK, None
<1>3. ASSUME NEW s \in Samples PROVE Bucket(s) \in Nat
  <2>1. ts[s] \in Int /\ ts[s] \in Nat
    BY <1>2
  <2>2. FloorTo(ts[s], Width) \in Nat
    BY <1>1, <2>1, FloorFacts
  <2>. QED
    BY <2>2 DEF Bucket
<1>. QED
  BY <1>1, <1>2, <1>3

\* The initial state.
LEMMA TierInit == Init => TierInv
<1>. SUFFICES ASSUME Init PROVE TierInv
  OBVIOUS
<1>1. TypeOK
  BY WorkerAssumption, BoundAssumption DEF Init, TypeOK, NoPass
<1>2. PassesOK
  <2>1. now = 0 /\ 0 \in 0..0 /\ pass = [w \in Workers |-> NoPass]
    BY DEF Init
  <2>2. NoPass \in [pc : {"idle", "retention"}, at : 0..0, counted : SUBSET Samples] /\ NoPass.pc = "idle"
    BY <2>1 DEF NoPass
  <2>. QED
    BY <2>1, <2>2 DEF PassesOK
<1>. QED
  BY <1>1, <1>2 DEF Init, TierInv, StoredOnly, ThroughAligned, RolledBehind, TimelyAwaited

\* Steps that leave the tiers and the passes alone: the clock, and deliveries
\* before their commit.
LEMMA TiersKept ==
    ASSUME TierInv, TypeOK', UNCHANGED <<raw, rolled, timely, through, pass>>, now' >= now,
           \A s \in raw \cup rolled \cup timely : ts'[s] = ts[s] /\ stage'[s] = stage[s]
    PROVE  TierInv'
<1>. USE DEF TierInv
<1>0. now \in Nat /\ now' \in Nat /\ through \in Int
  BY Times, BoundAssumption DEF TypeOK
<1>1. StoredOnly'
  BY DEF StoredOnly
<1>2. ThroughAligned'
  BY <1>0 DEF ThroughAligned
<1>3. RolledBehind'
  BY DEF RolledBehind
<1>4. \A s \in raw \cup rolled \cup timely : Bucket(s)' = Bucket(s)
  BY DEF Bucket
<1>5. TimelyAwaited'
  <2>1. ASSUME NEW s \in timely, RollupExpired(now, Bucket(s)) PROVE RollupExpired(now', Bucket(s))
    <3>1. Bucket(s) \in Int
      BY Times DEF TypeOK
    <3>. QED
      BY <1>0, <2>1, <3>1, ExpiredStays
  <2>2. \A s \in timely : RollupExpired(now, Bucket(s))' <=> RollupExpired(now', Bucket(s))
    BY <1>4 DEF RollupExpired
  <2>3. \A s \in timely : Awaited(s)' <=> Awaited(s)
    BY DEF Awaited
  <2>. QED
    BY <2>1, <2>2, <2>3 DEF TimelyAwaited
<1>6. PassesOK'
  <2>1. ASSUME NEW w \in Workers, PassOK(w) PROVE PassOK(w)'
    BY <1>4, <2>1 DEF PassOK
  <2>2. 0..now \subseteq 0..now'
    BY <1>0
  <2>. QED
    BY <2>1, <2>2 DEF PassesOK
<1>. QED
  BY <1>1, <1>2, <1>3, <1>5, <1>6

\* A sample is committed: when it is timely, the next window will read it, and
\* so will the one after the pass that is under way.
LEMMA InsertKeeps ==
    ASSUME TierInv, TypeOK', NEW s \in Samples, InsertSample(s)
    PROVE  TierInv'
<1>. USE DEF TierInv
<1>1. /\ stage[s] # "stored" /\ stage'[s] = "stored" /\ \A r \in Samples \ {s} : stage'[r] = stage[r]
      /\ raw' = raw \cup {s} /\ timely' \subseteq timely \cup {s}
      /\ UNCHANGED <<now, ts, rolled, through, lock, pass>>
  BY DEF InsertSample, TypeOK
<1>2. s \notin raw \cup rolled \cup timely
  BY <1>1 DEF StoredOnly
<1>3. now \in Nat /\ through \in Int /\ Width \in Nat \ {0} /\ Lateness \in Nat /\ ts[s] \in Nat
  BY Times
<1>4. s \in timely' => ts[s] >= FloorTo(now, Width) - Lateness
  BY <1>2 DEF InsertSample
<1>5. FloorTo(now, Width) \in Int /\ (through # None => through <= FloorTo(now, Width))
  <2>1. now \in Int
    BY <1>3
  <2>2. FloorTo(now, Width) \in Int
    BY <1>3, <2>1, FloorFacts
  <2>3. through # None => through % Width = 0 /\ through <= now
    BY DEF ThroughAligned
  <2>. QED
    BY <1>3, <2>1, <2>2, <2>3, FloorAligned
<1>6. StoredOnly'
  BY <1>1, <1>2 DEF StoredOnly, TypeOK
<1>7. ThroughAligned' /\ RolledBehind'
  BY <1>1, <1>2 DEF ThroughAligned, RolledBehind
<1>8. \A r \in Samples : Bucket(r)' = Bucket(r)
  BY <1>1 DEF Bucket
<1>9. TimelyAwaited'
  <2>1. s \in timely' => Awaited(s)'
    BY <1>1, <1>3, <1>4, <1>5 DEF Awaited
  <2>2. \A r \in timely : Awaited(r) => Awaited(r)'
    BY <1>1 DEF Awaited
  <2>3. \A r \in timely : RollupExpired(now, Bucket(r))' <=> RollupExpired(now, Bucket(r))
    BY <1>1, <1>8 DEF RollupExpired, TypeOK
  <2>. QED
    BY <1>1, <2>1, <2>2, <2>3 DEF TimelyAwaited
<1>10. PassesOK'
  <2>1. ASSUME NEW w \in Workers, PassOK(w) PROVE PassOK(w)'
    <3>. DEFINE end == FloorTo(pass[w].at, Width)
    <3>1. end \in Int /\ end <= FloorTo(now, Width)
      <4>1. pass[w].at \in Int /\ pass[w].at <= now
        BY <1>3 DEF PassesOK
      <4>2. end \in Int /\ end <= pass[w].at /\ end % Width = 0
        BY <1>3, <4>1, FloorFacts
      <4>3. end <= now
        BY <1>3, <4>1, <4>2
      <4>. QED
        BY <1>3, <4>2, <4>3, FloorAligned
    <3>2. s \in timely' => ts[s] >= end - Lateness
      BY <1>3, <1>4, <1>5, <3>1
    <3>3. /\ pass[w].counted \subseteq Samples /\ rolled \subseteq Samples
          /\ pass'[w] = pass[w] /\ s \notin pass[w].counted
      BY <1>1, <1>2, <2>1 DEF PassOK, TypeOK
    <3>. HIDE DEF end
    <3>4. \A r \in timely' \cap raw' :
             \/ r \in pass[w].counted
             \/ ts[r] >= end - Lateness
             \/ through # None /\ ts[r] < through - Lateness
      BY <1>1, <2>1, <3>2 DEF PassOK, end
    <3>. QED
      BY <1>1, <1>8, <2>1, <3>3, <3>4 DEF PassOK, end
  <2>. QED
    BY <1>1, <2>1 DEF PassesOK
<1>. QED
  BY <1>6, <1>7, <1>9, <1>10

\* What the SELECT of a pass reads: everything at first, then from a whole
\* lateness window before the end of the last pass.
LEMMA Window ==
    ASSUME TierInv
    PROVE  /\ through = None => InWindow(now) = {s \in raw : ts[s] < FloorTo(now, Width)}
           /\ through # None =>
                 /\ through <= FloorTo(now, Width)
                 /\ InWindow(now) = {s \in raw : ts[s] >= through - Lateness /\ ts[s] < FloorTo(now, Width)}
<1>. USE DEF TierInv
<1>. DEFINE end == FloorTo(now, Width)
<1>1. now \in Nat /\ now \in Int /\ through \in Int /\ Width \in Nat \ {0} /\ Lateness \in Nat
      /\ raw \subseteq Samples /\ \A s \in Samples : ts[s] \in Nat
  BY Times DEF TypeOK
<1>2. end \in Nat
  BY <1>1, FloorFacts
<1>. HIDE DEF end
<1>3. CASE through = None
  <2>. DEFINE times == {ts[s] : s \in raw} \cup {end}
              m == CHOOSE x \in times : \A y \in times : x <= y
  <2>1. times \subseteq Nat /\ times # {}
    BY <1>1, <1>2
  <2>2. m \in times /\ \A y \in times : m <= y
    <3>. HIDE DEF times
    <3>1. \E x \in times : \A y \in times : x <= y
      BY <2>1, Earliest
    <3>. QED
      BY <3>1
  <2>3. m \in Nat /\ \A s \in raw : m <= ts[s]
    BY <2>1, <2>2
  <2>4. WindowStart(now) = FloorTo(m, Width)
    BY <1>3 DEF WindowStart, end
  <2>. HIDE DEF m, times
  <2>5. FloorTo(m, Width) \in Int /\ FloorTo(m, Width) <= m
    <3>1. m \in Int
      BY <2>3
    <3>. QED
      BY <1>1, <3>1, FloorFacts
  <2>6. \A s \in raw : ts[s] >= WindowStart(now)
    BY <1>1, <2>3, <2>4, <2>5
  <2>. QED
    BY <1>3, <2>6 DEF InWindow, end
<1>4. CASE through # None
  <2>1. through % Width = 0 /\ through <= now
    BY <1>4 DEF ThroughAligned
  <2>2. through <= end
    BY <1>1, <2>1, FloorAligned DEF end
  <2>3. WindowStart(now) = through - Lateness
    BY <1>1, <1>2, <1>4, <2>2 DEF WindowStart, end
  <2>. QED
    BY <1>4, <2>2, <2>3 DEF InWindow, end
<1>. QED
  BY <1>3, <1>4

\* The types.
LEMMA TypeStep ==
    ASSUME TierInv, [Next]_vars
    PROVE  TypeOK'
<1>. USE TierAssumption, BoundAssumption, WorkerAssumption DEF TierInv, TypeOK
<1>0. pass \in [Workers -> [pc : {"idle", "retention"}, at : 0..now, counted : SUBSET Samples]]
  BY DEF PassesOK
<1>1. CASE Tick
  BY <1>1 DEF Tick, ingestVars
<1>2. ASSUME NEW s \in Samples, Collect(s) PROVE TypeOK'
  BY <1>2 DEF Collect
<1>3. ASSUME NEW s \in Samples, EnsurePartition(s) \/ InsertFails(s) PROVE TypeOK'
  BY <1>3 DEF EnsurePartition, InsertFails
<1>4. ASSUME NEW s \in Samples, InsertSample(s) PROVE TypeOK'
  <2>1. Partition(s) \in {FloorTo(t, Hour) : t \in 0..(MaxTime + Skew)}
    BY DEF Partition
  <2>. QED
    BY <1>4, <2>1 DEF InsertSample
<1>5. ASSUME NEW w \in Workers, Aggregate(w) PROVE TypeOK'
  <2>1. InWindow(now) \subseteq Samples
    BY DEF InWindow
  <2>2. /\ pass'[w] = [pc |-> "retention", at |-> now, counted |-> InWindow(now)] /\ lock = None /\ lock' = w
        /\ \A v \in Workers \ {w} : pass'[v] = pass[v]
        /\ UNCHANGED <<now, stage, ts, parts, timely, raw, rolled, through>>
    BY <1>0, <1>5 DEF Aggregate, ingestVars
  <2>3. pass'[w].pc = "retention" /\ pass'[w].counted \subseteq Samples
    BY <2>1, <2>2
  <2>4. \A v \in Workers : (pass'[v].pc = "retention" <=> lock' = v) /\ pass'[v].counted \subseteq Samples
    BY <2>2, <2>3
  <2>. QED
    BY <2>2, <2>4
<1>6. ASSUME NEW w \in Workers, pass[w].pc = "retention", lock' = None, pass' = [pass EXCEPT ![w] = NoPass]
      PROVE  \A v \in Workers : (pass'[v].pc = "retention" <=> lock' = v) /\ pass'[v].counted \subseteq Samples
  <2>1. NoPass.pc = "idle" /\ NoPass.counted = {}
    BY DEF NoPass
  <2>2. \A v \in Workers : pass'[v] = IF v = w THEN NoPass ELSE pass[v]
    BY <1>0, <1>6
  <2>. QED
    BY <1>6, <2>1, <2>2
<1>7. ASSUME NEW w \in Workers, CommitPass(w) PROVE TypeOK'
  <2>1. pass[w].at \in 0..MaxTime
    BY <1>0
  <2>2. FloorTo(pass[w].at, Width) \in 0..MaxTime
    <3>1. /\ FloorTo(pass[w].at, Width) \in Int /\ FloorTo(pass[w].at, Width) <= pass[w].at
          /\ FloorTo(pass[w].at, Width) \in Nat
      <4>1. pass[w].at \in Int /\ pass[w].at \in Nat
        BY <2>1
      <4>. QED
        BY <4>1, FloorFacts
    <3>. QED
      BY <2>1, <3>1
  <2>3. /\ rolled' \subseteq rolled \cup pass[w].counted /\ raw' \subseteq raw /\ parts' \subseteq parts
        /\ through' = FloorTo(pass[w].at, Width) /\ lock' = None /\ UNCHANGED <<now, stage, ts, timely>>
    BY <1>7 DEF CommitPass
  <2>4. \A v \in Workers : (pass'[v].pc = "retention" <=> lock' = v) /\ pass'[v].counted \subseteq Samples
    BY <1>6, <1>7 DEF CommitPass
  <2>. QED
    BY <2>2, <2>3, <2>4
<1>8. ASSUME NEW w \in Workers, AbortPass(w) PROVE TypeOK'
  <2>1. \A v \in Workers : (pass'[v].pc = "retention" <=> lock' = v) /\ pass'[v].counted \subseteq Samples
    BY <1>6, <1>8 DEF AbortPass
  <2>. QED
    BY <1>8, <2>1 DEF AbortPass, ingestVars
<1>9. CASE UNCHANGED vars
  BY <1>9 DEF vars
<1>. QED
  BY <1>1, <1>2, <1>3, <1>4, <1>5, <1>7, <1>8, <1>9 DEF Next

\* A pass reads every sample of a bucket it recomputes: the window starts and
\* ends at boundaries, and what has left the raw tier is before it.
LEMMA AggregateKeeps ==
    ASSUME TierInv, TypeOK', NEW w \in Workers, Aggregate(w)
    PROVE  TierInv'
<1>. USE DEF TierInv
<1>. DEFINE end == FloorTo(now, Width)
<1>1. UNCHANGED <<now, stage, ts, timely, raw, rolled, through>>
  BY DEF Aggregate, ingestVars
<1>2. /\ pass \in [Workers -> [pc : {"idle", "retention"}, at : 0..now, counted : SUBSET Samples]]
      /\ \A v \in Workers : pass[v].pc # "retention"
  BY WorkerAssumption DEF Aggregate, PassesOK, TypeOK
<1>3. /\ pass'[w] = [pc |-> "retention", at |-> now, counted |-> InWindow(now)]
      /\ \A v \in Workers \ {w} : pass'[v] = pass[v]
  BY <1>2 DEF Aggregate
<1>4. pass'[w].at = now /\ pass'[w].counted = InWindow(now)
  BY <1>3
<1>5. now \in Nat /\ now \in Int /\ through \in Int /\ Width \in Nat \ {0} /\ Lateness \in Nat
      /\ \A s \in Samples : ts[s] \in Nat
  BY Times
<1>6. end \in Int /\ end % Width = 0
  BY <1>5, FloorFacts
<1>7. pass' \in [Workers -> [pc : {"idle", "retention"}, at : 0..now', counted : SUBSET Samples]]
  <2>1. [pc |-> "retention", at |-> now, counted |-> InWindow(now)]
           \in [pc : {"idle", "retention"}, at : 0..now, counted : SUBSET Samples]
    BY <1>5 DEF InWindow, TypeOK
  <2>. QED
    BY <1>1, <1>2, <2>1 DEF Aggregate
<1>. HIDE DEF end
<1>8. ASSUME NEW s \in timely \cap raw
      PROVE  \/ s \in InWindow(now)
             \/ ts[s] >= end - Lateness
             \/ through # None /\ ts[s] < through - Lateness
  <2>1. ts[s] \in Nat
    BY <1>5 DEF TypeOK
  <2>. QED
    BY <1>5, <1>6, <2>1, Window DEF end
<1>9. ASSUME NEW s \in rolled, NEW r \in InWindow(now), Bucket(s) = Bucket(r)
      PROVE  s \in InWindow(now)
  <2>1. /\ through # None /\ through % Width = 0 /\ r \in Samples /\ s \in Samples
        /\ Lateness % Width = 0 /\ Lateness \in Int
    BY TierAssumption DEF ThroughAligned, InWindow, TypeOK
  <2>. DEFINE start == through - Lateness
  <2>2. start \in Int /\ start % Width = 0
    BY <1>5, <2>1, AlignedDifference
  <2>3. start <= ts[r] /\ ts[r] < end /\ ts[r] \in Int /\ ts[s] \in Int
    BY <1>5, <2>1, Window DEF end
  <2>. HIDE DEF start
  <2>4. start <= Bucket(r) /\ Bucket(r) + Width <= end
    BY <1>5, <1>6, <2>2, <2>3, FloorAligned DEF Bucket
  <2>5. Bucket(s) \in Int /\ Bucket(s) <= ts[s] /\ ts[s] < Bucket(s) + Width
    BY <1>5, <2>3, FloorFacts DEF Bucket
  <2>6. start <= ts[s] /\ ts[s] < end
    BY <1>5, <1>6, <1>9, <2>2, <2>3, <2>4, <2>5
  <2>7. s \in raw
    BY <2>1, <2>6, <1>5, <2>3 DEF RolledBehind, start
  <2>. QED
    BY <2>1, <2>6, <2>7, Window DEF start, end
<1>10. PassOK(w)'
  <2>1. through # None => through <= end
    BY Window DEF end
  <2>2. InWindow(now) \subseteq raw
    BY DEF InWindow
  <2>3. \A s \in Samples : Bucket(s)' = Bucket(s)
    BY <1>1 DEF Bucket
  <2>4. InWindow(now) \subseteq Samples /\ rolled \subseteq Samples
    BY <2>2 DEF TypeOK
  <2>. QED
    BY <1>1, <1>4, <1>8, <1>9, <2>1, <2>2, <2>3, <2>4 DEF PassOK, end
<1>11. PassesOK'
  BY <1>2, <1>3, <1>7, <1>10 DEF PassesOK
<1>12. StoredOnly' /\ ThroughAligned' /\ RolledBehind'
  BY <1>1 DEF StoredOnly, ThroughAligned, RolledBehind
<1>13. TimelyAwaited'
  BY <1>1 DEF TimelyAwaited, Awaited, RollupExpired, Bucket
<1>. QED
  BY <1>11, <1>12, <1>13

\* A transaction that rolls back.
LEMMA AbortKeeps ==
    ASSUME TierInv, TypeOK', NEW w \in Workers, AbortPass(w)
    PROVE  TierInv'
<1>. USE DEF TierInv
<1>1. UNCHANGED <<now, stage, ts, timely, raw, rolled, through>>
  BY DEF AbortPass, ingestVars
<1>2. PassesOK'
  <2>1. NoPass \in [pc : {"idle", "retention"}, at : 0..now, counted : SUBSET Samples] /\ NoPass.pc = "idle"
    BY Times DEF NoPass
  <2>2. pass' \in [Workers -> [pc : {"idle", "retention"}, at : 0..now, counted : SUBSET Samples]]
        /\ \A v \in Workers : pass'[v] \in {NoPass, pass[v]}
    BY <2>1 DEF AbortPass, PassesOK
  <2>3. \A v \in Workers : pass'[v] = pass[v] /\ PassOK(v) => PassOK(v)'
    BY <1>1 DEF PassOK, Bucket
  <2>. QED
    BY <1>1, <2>1, <2>2, <2>3 DEF PassesOK
<1>3. StoredOnly' /\ ThroughAligned' /\ RolledBehind'
  BY <1>1 DEF StoredOnly, ThroughAligned, RolledBehind
<1>4. TimelyAwaited'
  BY <1>1 DEF TimelyAwaited, Awaited, RollupExpired, Bucket
<1>. QED
  BY <1>2, <1>3, <1>4

\* What a commit does to the tiers: it counts what it counted before, unless
\* the day has expired, and drops only raw samples that every later window is
\* past.
LEMMA CommitFacts ==
    ASSUME TierInv, NEW w \in Workers, CommitPass(w)
    PROVE  LET t == pass[w].at
               end == FloorTo(t, Width)
           IN /\ end \in Int /\ end <= now /\ end % Width = 0 /\ t \in Nat /\ t <= now
              /\ through' = end /\ (through # None => through <= end)
              /\ raw' \subseteq raw /\ \A s \in raw \ raw' : ts[s] < end - Lateness
              /\ rolled' \subseteq rolled \cup pass[w].counted
              /\ \A s \in rolled \cup pass[w].counted : s \in rolled' \/ RollupExpired(t, Bucket(s))
<1>. USE DEF TierInv
<1>. DEFINE t == pass[w].at
            end == FloorTo(t, Width)
            counted == pass[w].counted
            kept == {s \in rolled : \A r \in counted : Bucket(s) # Bucket(r)}
<1>1. now \in Nat /\ through \in Int /\ Width \in Nat \ {0} /\ Lateness \in Nat
      /\ \A s \in Samples : ts[s] \in Nat
  BY Times
<1>2. t \in Nat /\ t \in Int /\ t <= now
  BY <1>1 DEF PassesOK
<1>. HIDE DEF t
<1>3. end \in Int /\ end <= t /\ t < end + Width /\ end % Width = 0
  BY <1>1, <1>2, FloorFacts
<1>4. PassOK(w)
  BY DEF CommitPass, PassesOK
<1>5. /\ rolled' = {s \in kept \cup counted : ~RollupExpired(t, Bucket(s))}
      /\ through' = end
      /\ raw' = {s \in raw : Partition(s) \notin Expired(t, end)}
  BY DEF CommitPass, t
<1>6. rolled \subseteq kept \cup counted
  BY <1>4 DEF PassOK
<1>7. ASSUME NEW s \in raw \ raw' PROVE ts[s] < end - Lateness
  <2>1. Partition(s) + Hour <= t - RawRetention - Lateness
    BY <1>5, <1>7 DEF Expired
  <2>2. ts[s] \in Int /\ Hour \in Nat \ {0} /\ RawRetention \in Nat /\ RawRetention >= Width
    BY <1>1, TierAssumption DEF TypeOK
  <2>3. Partition(s) \in Int /\ ts[s] < Partition(s) + Hour
    BY <2>2, FloorFacts DEF Partition
  <2>. QED
    BY <1>1, <1>2, <1>3, <2>1, <2>2, <2>3
<1>8. through # None => through <= end
  BY <1>4 DEF PassOK, t
<1>9. end <= now
  BY <1>1, <1>2, <1>3
<1>10. \A s \in rolled \cup counted : s \in rolled' \/ RollupExpired(t, Bucket(s))
  BY <1>5, <1>6
<1>11. rolled' \subseteq rolled \cup counted /\ raw' \subseteq raw
  BY <1>5
<1>. QED
  BY <1>2, <1>3, <1>5, <1>7, <1>8, <1>9, <1>10, <1>11 DEF t

\* The commit of a pass.
LEMMA CommitKeeps ==
    ASSUME TierInv, TypeOK', NEW w \in Workers, CommitPass(w)
    PROVE  TierInv'
<1>. USE DEF TierInv
<1>. DEFINE t == pass[w].at
            end == FloorTo(t, Width)
            counted == pass[w].counted
<1>1. /\ end \in Int /\ end <= now /\ end % Width = 0 /\ t \in Nat /\ t <= now
      /\ through' = end /\ (through # None => through <= end)
      /\ raw' \subseteq raw /\ \A s \in raw \ raw' : ts[s] < end - Lateness
      /\ rolled' \subseteq rolled \cup counted
      /\ \A s \in rolled \cup counted : s \in rolled' \/ RollupExpired(t, Bucket(s))
  BY CommitFacts
<1>2. UNCHANGED <<now, stage, ts, timely>>
  BY DEF CommitPass
<1>3. now \in Nat /\ through \in Int /\ Width \in Nat \ {0} /\ Lateness \in Nat
      /\ \A s \in Samples : ts[s] \in Nat /\ Bucket(s) \in Nat
  BY Times
<1>4. PassOK(w) /\ counted \subseteq raw
  BY DEF CommitPass, PassesOK, PassOK
<1>5. end # None
  <2>1. t \in Nat /\ t \in Int
    BY <1>1
  <2>. HIDE DEF t
  <2>2. end \in Nat
    BY <1>3, <2>1, FloorFacts
  <2>. QED
    BY <2>2 DEF None
<1>6. \A s \in timely \cap raw :
         \/ s \in counted
         \/ ts[s] >= end - Lateness
         \/ through # None /\ ts[s] < through - Lateness
  BY <1>4 DEF PassOK
<1>. HIDE DEF t, end, counted
<1>7. StoredOnly'
  BY <1>1, <1>2, <1>4 DEF StoredOnly
<1>8. ThroughAligned'
  BY <1>1, <1>2, <1>5 DEF ThroughAligned
<1>9. RolledBehind'
  <2>. SUFFICES ASSUME NEW s \in rolled' \ raw' PROVE ts[s] < end - Lateness
    BY <1>1, <1>2, <1>5 DEF RolledBehind
  <2>1. CASE s \in raw
    BY <1>1, <2>1
  <2>2. CASE s \notin raw
    <3>1. s \in rolled /\ s \in Samples
      BY <1>1, <1>4, <2>2 DEF TypeOK
    <3>2. through # None /\ ts[s] < through - Lateness
      BY <2>2, <3>1 DEF RolledBehind
    <3>. QED
      BY <1>1, <1>3, <3>1, <3>2
  <2>. QED
    BY <2>1, <2>2
<1>10. TimelyAwaited'
  <2>. SUFFICES ASSUME NEW s \in timely
                PROVE  s \in rolled' \/ RollupExpired(now, Bucket(s)) \/ Awaited(s)'
    BY <1>2 DEF TimelyAwaited, RollupExpired, Bucket
  <2>1. s \in Samples /\ ts[s] \in Nat /\ Bucket(s) \in Int
    BY <1>3 DEF TypeOK
  <2>2. RollupExpired(t, Bucket(s)) => RollupExpired(now, Bucket(s))
    <3>1. t \in Int /\ now \in Int
      BY <1>1, <1>3
    <3>. QED
      BY <1>1, <2>1, <3>1, ExpiredStays
  <2>3. CASE s \in rolled \cup counted
    BY <1>1, <2>2, <2>3
  <2>4. CASE s \notin rolled \cup counted /\ Awaited(s)
    <3>1. ts[s] >= end - Lateness
      BY <1>1, <1>3, <1>6, <2>1, <2>4 DEF Awaited
    <3>2. s \in raw'
      BY <1>1, <1>3, <2>1, <2>4, <3>1 DEF Awaited
    <3>. QED
      BY <1>1, <1>2, <3>1, <3>2 DEF Awaited
  <2>. QED
    BY <2>3, <2>4 DEF TimelyAwaited
<1>11. PassesOK'
  <2>1. NoPass \in [pc : {"idle", "retention"}, at : 0..now, counted : SUBSET Samples] /\ NoPass.pc = "idle"
    BY <1>3 DEF NoPass
  <2>2. pass' \in [Workers -> [pc : {"idle", "retention"}, at : 0..now, counted : SUBSET Samples]]
        /\ \A v \in Workers : pass'[v] = IF v = w THEN NoPass ELSE pass[v]
    BY <2>1 DEF CommitPass, PassesOK
  <2>3. \A v \in Workers \ {w} : pass[v].pc # "retention"
    BY DEF CommitPass, TypeOK
  <2>. QED
    BY <1>2, <2>1, <2>2, <2>3 DEF PassesOK
<1>. QED
  BY <1>7, <1>8, <1>9, <1>10, <1>11

\* TierInv is inductive.
LEMMA TierInvariant == Spec => []TierInv
<1>1. Init => TierInv
  BY TierInit
<1>2. TierInv /\ [Next]_vars => TierInv'
  <2>. SUFFICES ASSUME TierInv, [Next]_vars PROVE TierInv'
    OBVIOUS
  <2>1. TypeOK'
    BY TypeStep
  <2>2. CASE Tick \/ UNCHANGED vars
    <3>1. UNCHANGED <<raw, rolled, timely, through, pass, ts, stage>>
      BY <2>2 DEF Tick, vars, ingestVars
    <3>2. now' >= now
      BY <2>2, Times DEF Tick, vars, TierInv
    <3>. QED
      BY <2>1, <3>1, <3>2, TiersKept
  <2>3. ASSUME NEW s \in Samples, Collect(s) \/ EnsurePartition(s) \/ InsertFails(s) PROVE TierInv'
    <3>1. UNCHANGED <<now, raw, rolled, timely, through, pass>>
      BY <2>3 DEF Collect, EnsurePartition, InsertFails
    <3>2. stage[s] # "stored" /\ \A r \in Samples \ {s} : ts'[r] = ts[r] /\ stage'[r] = stage[r]
      BY <2>3 DEF Collect, EnsurePartition, InsertFails, TierInv, TypeOK
    <3>3. \A r \in raw \cup rolled \cup timely : r \in Samples \ {s}
      BY <3>2 DEF TierInv, StoredOnly, TypeOK
    <3>4. now' >= now
      BY <3>1, Times DEF TierInv
    <3>. QED
      BY <2>1, <3>1, <3>2, <3>3, <3>4, TiersKept
  <2>4. ASSUME NEW s \in Samples, InsertSample(s) PROVE TierInv'
    BY <2>1, <2>4, InsertKeeps
  <2>5. ASSUME NEW w \in Workers, Aggregate(w) \/ CommitPass(w) \/ AbortPass(w) PROVE TierInv'
    BY <2>1, <2>5, AggregateKeeps, CommitKeeps, AbortKeeps
  <2>. QED
    BY <2>2, <2>3, <2>4, <2>5 DEF Next
<1>. QED
  BY <1>1, <1>2, PTL DEF Spec

\* Type correctness of the tiers: the advisory lock is held exactly during a
\* pass.
THEOREM TypeCorrect == Spec => []TypeOK
  BY TierInvariant, PTL DEF TierInv

\* A sample stored within the lateness window is counted before its raw
\* partition is dropped, for any widths and retentions that fit together and
\* any interleaving of ingestion with passes that commit, abort or are missed.
THEOREM TimelySamplesSurvive == Spec => []TimelySurvive
<1>1. TierInv => TimelySurvive
  BY DEF TierInv, TimelyAwaited, Awaited, TimelySurvive
<1>. QED
  BY <1>1, TierInvariant, PTL

\* A rollup row never loses a sample it counted before its day expires.
THEOREM RollupsGrow == Spec => RollupsOnlyGrow
<1>. DEFINE Step == \A s \in rolled \ rolled' : RollupExpired(now, Bucket(s))
<1>1. TierInv /\ [Next]_vars => [Step]_vars
  <2>. SUFFICES ASSUME TierInv, [Next]_vars PROVE Step
    OBVIOUS
  <2>1. ASSUME NEW w \in Workers, CommitPass(w) PROVE Step
    <3>. SUFFICES ASSUME NEW s \in rolled \ rolled' PROVE RollupExpired(now, Bucket(s))
      OBVIOUS
    <3>1. RollupExpired(pass[w].at, Bucket(s)) /\ pass[w].at \in Nat /\ pass[w].at <= now
      BY <2>1, CommitFacts
    <3>2. Bucket(s) \in Int /\ now \in Int /\ pass[w].at \in Int
      BY <3>1, Times DEF TierInv, TypeOK
    <3>. QED
      BY <3>1, <3>2, ExpiredStays
  <2>2. CASE ~\E w \in Workers : CommitPass(w)
    BY <2>2 DEF Next, Tick, Collect, EnsurePartition, InsertSample, InsertFails, Aggregate, AbortPass, vars
  <2>. QED
    BY <2>1, <2>2
<1>. QED
  BY <1>1, TierInvariant, PTL DEF Spec, RollupsOnlyGrow

\* The spliced query counts no sample twice and, after a pass of the current
\* bucket period, shows every timely sample whose rollup has not expired.
THEOREM QueryIsExact == Spec => []QueryExact
<1>1. TierInv => QueryExact
  <2>. SUFFICES ASSUME TierInv PROVE QueryExact
    OBVIOUS
  <2>. USE DEF TierInv
  <2>1. now \in Int /\ through \in Int /\ Width \in Nat \ {0} /\ Lateness \in Int /\ Lateness % Width = 0
        /\ now - Lateness \in Int
        /\ \A s \in Samples : ts[s] \in Int /\ Bucket(s) \in Int
    BY Times, TierAssumption
  <2>2. SpliceAt \in Int /\ SpliceAt % Width = 0
    BY <2>1, FloorFacts DEF SpliceAt
  <2>3. SpliceAt = FloorTo(now, Width) - Lateness
    BY <2>1, FloorShift DEF SpliceAt
  <2>4. ASSUME NEW s \in Samples PROVE ts[s] >= SpliceAt <=> ~(Bucket(s) < SpliceAt)
    <3>1. ts[s] \in Int /\ Bucket(s) <= ts[s]
      BY <2>1, FloorFacts DEF Bucket
    <3>2. SpliceAt <= ts[s] => SpliceAt <= Bucket(s)
      BY <2>1, <2>2, FloorAligned DEF Bucket
    <3>. QED
      BY <2>1, <2>2, <3>1, <3>2
  <2>5. FromRollups \cap FromRaw = {}
    BY <2>4 DEF FromRollups, FromRaw, TypeOK
  <2>6. ASSUME through = FloorTo(now, Width), NEW s \in timely
        PROVE  s \in FromRollups \cup FromRaw \/ RollupExpired(now, Bucket(s))
    <3>1. s \in Samples /\ ts[s] \in Int
      BY <2>1 DEF TypeOK
    <3>2. CASE s \in rolled
      <4>1. s \notin raw => ts[s] < SpliceAt
        BY <2>3, <2>6, <3>2 DEF RolledBehind
      <4>. QED
        BY <2>1, <2>2, <2>4, <3>1, <3>2, <4>1 DEF FromRollups, FromRaw
    <3>3. CASE Awaited(s)
      <4>1. now \in Nat
        BY Times
      <4>2. FloorTo(now, Width) \in Nat
        BY <2>1, <4>1, FloorFacts
      <4>3. through # None
        BY <2>6, <4>2 DEF None
      <4>. QED
        BY <2>3, <2>6, <3>3, <4>3 DEF Awaited, FromRaw
    <3>. QED
      BY <3>2, <3>3 DEF TimelyAwaited
  <2>. QED
    BY <2>5, <2>6 DEF QueryExact
<1>. QED
  BY <1>1, TierInvariant, PTL
=============================================================================
