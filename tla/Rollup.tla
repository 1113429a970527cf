------------------------------- MODULE Rollup -------------------------------
(***************************************************************************)
(* Storage tiers of the server: raw samples in hourly partitions, five-    *)
(* minute rollups recomputed by the maintenance workers, retention of      *)
(* both, and the automatic metric query that splices them (maintenance.py, *)
(* partitions.py, the sample inserts of ingestion.py, query_metrics of     *)
(* api.py).                                                                *)
(*                                                                         *)
(* A sample is one event of one series; the aggregates of a bucket (count, *)
(* sum, min, max, last) are abstracted to the set of samples they were     *)
(* computed from, so rolled is the set of all samples some rollup row      *)
(* counts.  Log events take the same path in log_events/log_rollups_5m.    *)
(***************************************************************************)
EXTENDS Integers, FiniteSets

CONSTANTS Samples,          \* events the agents will deliver
          Workers,          \* maintenance worker processes
          Width,            \* bucket width: five minutes
          Hour,             \* hourly partition
          Day,              \* daily rollup partition
          Lateness,         \* rollup_lateness_minutes
          RawRetention,     \* raw_retention_hours
          RollupRetention,  \* rollup_retention_days
          Skew,             \* bound: how far a sample's clock may be ahead
          MaxTime           \* bound: last value of the clock

\* Partitions hold whole buckets, and so does the lateness window: true of
\* the default of 15 minutes, although the setting is any number of minutes.
ASSUME TierAssumption ==
    /\ Width \in Nat \ {0}
    /\ Hour \in Nat \ {0} /\ Hour % Width = 0
    /\ Day \in Nat \ {0} /\ Day % Hour = 0
    /\ Lateness \in Nat /\ Lateness % Width = 0
    /\ RawRetention \in Nat /\ RawRetention >= Width
    /\ RollupRetention \in Nat /\ RollupRetention >= RawRetention

ASSUME BoundAssumption == Skew \in Nat /\ MaxTime \in Nat

VARIABLES now,       \* the clock of the server
          stage,     \* per sample: how far its delivery is
          ts,        \* per sample: its timestamp
          raw,       \* samples in metric_samples
          parts,     \* hourly partitions of metric_samples, by start
          rolled,    \* samples counted by a row of metric_rollups_5m
          through,   \* MaintenanceState.rolled_through, or None
          lock,      \* holder of the advisory lock LOCK_ID
          pass,      \* per worker: the transaction of rollup_once
          timely     \* history: samples stored within the lateness window

ingestVars == <<stage, ts, parts, timely>>
vars == <<now, stage, ts, raw, parts, rolled, through, lock, pass, timely>>

None == -1
ASSUME WorkerAssumption == None \notin Workers

NoPass == [pc |-> "idle", at |-> 0, counted |-> {}]

FloorTo(t, width) == t - (t % width)
Bucket(s) == FloorTo(ts[s], Width)
Partition(s) == FloorTo(ts[s], Hour)

Init ==
    /\ now = 0
    /\ stage = [s \in Samples |-> "new"]
    /\ ts = [s \in Samples |-> 0]
    /\ raw = {}
    /\ parts = {}
    /\ rolled = {}
    /\ through = None
    /\ lock = None
    /\ pass = [w \in Workers |-> NoPass]
    /\ timely = {}

-----------------------------------------------------------------------------
(* Ingestion, as far as the tiers see it.                                  *)

\* An agent collects a sample; it may reach the server much later.
Collect(s) ==
    /\ stage[s] = "new"
    /\ \E t \in 0..(now + Skew) : ts' = [ts EXCEPT ![s] = t]
    /\ stage' = [stage EXCEPT ![s] = "spooled"]
    /\ UNCHANGED <<now, raw, parts, rolled, through, lock, pass, timely>>

\* ensure_partitions: CREATE TABLE IF NOT EXISTS.  A partition that exists is
\* not locked by it; a new one is the transaction's own until it commits, and
\* the advisory lock on its name makes another request for it wait.
EnsurePartition(s) ==
    /\ stage[s] = "spooled"
    /\ \A r \in Samples : stage[r] = "creating" => Partition(r) # Partition(s)
    /\ stage' = [stage EXCEPT ![s] = IF Partition(s) \in parts THEN "ensured" ELSE "creating"]
    /\ UNCHANGED <<now, ts, raw, parts, rolled, through, lock, pass, timely>>

\* The inserts and the commit.
InsertSample(s) ==
    /\ \/ stage[s] = "ensured" /\ Partition(s) \in parts
       \/ stage[s] = "creating"
    /\ stage' = [stage EXCEPT ![s] = "stored"]
    /\ parts' = parts \cup {Partition(s)}
    /\ raw' = raw \cup {s}
    /\ timely' = IF ts[s] >= FloorTo(now, Width) - Lateness THEN timely \cup {s} ELSE timely
    /\ UNCHANGED <<now, ts, rolled, through, lock, pass>>

\* The transaction fails, because retention dropped the partition after it was
\* ensured or for any other reason; the agent will send the event again.
InsertFails(s) ==
    /\ stage[s] \in {"ensured", "creating"}
    /\ stage' = [stage EXCEPT ![s] = "spooled"]
    /\ UNCHANGED <<now, ts, raw, parts, rolled, through, lock, pass, timely>>

-----------------------------------------------------------------------------
(* rollup_once.  It reads with READ COMMITTED and commits at the end; only *)
(* the lock keeps a second worker out, requests go on meanwhile.           *)

\* Mutant: a pass starts where the last one ended.
WindowStartAtEnd(t) ==
    IF through = None
    THEN LET times == {ts[s] : s \in raw} \cup {FloorTo(t, Width)}
         IN FloorTo(CHOOSE m \in times : \A x \in times : m <= x, Width)
    ELSE through

\* Mutant: the lateness window starts inside a bucket.
WindowStartUnaligned(t) ==
    IF through = None
    THEN 0
    ELSE (IF through < t THEN through ELSE t) - Lateness + 1

\* The first bucket of a pass that runs at time t.
WindowStart(t) ==
    LET end == FloorTo(t, Width) IN
    IF through = None
    THEN LET times == {ts[s] : s \in raw} \cup {end}
         IN FloorTo(CHOOSE m \in times : \A x \in times : m <= x, Width)
    ELSE (IF through < end THEN through ELSE end) - Lateness

\* Samples the aggregating SELECT of a pass at time t reads.
InWindow(t) ==
    {s \in raw : ts[s] >= WindowStart(t) /\ ts[s] < FloorTo(t, Width)}

\* Mutant: the result of the lock is ignored.
AggregateUnlocked(w) ==
    /\ pass[w].pc = "idle"
    /\ lock' = w
    /\ pass' = [pass EXCEPT ![w] = [pc |-> "retention", at |-> now,
                                    counted |-> InWindow(now)]]
    /\ UNCHANGED <<now, ingestVars, raw, rolled, through>>

\* pg_try_advisory_xact_lock succeeds, and INSERT ... SELECT ... GROUP BY:
\* every bucket with a sample in the window gets the aggregate of those.
\* (When the lock is taken, rollup_once returns False and changes nothing.)
Aggregate(w) ==
    /\ pass[w].pc = "idle"
    /\ lock = None
    /\ lock' = w
    /\ pass' = [pass EXCEPT ![w] = [pc |-> "retention", at |-> now,
                                    counted |-> InWindow(now)]]
    /\ UNCHANGED <<now, ingestVars, raw, rolled, through>>

\* Hourly partitions apply_retention drops in a pass that runs at time t and
\* has rolled up everything before end.
Expired(t, end) ==
    {p \in parts : /\ p + Hour <= t - RawRetention - Lateness
                   /\ end >= p + Hour}

\* Rollup rows in daily partitions it drops.
RollupExpired(t, b) == FloorTo(b, Day) + Day <= t - RollupRetention

\* ON CONFLICT DO UPDATE replaces the row of a bucket; then rolled_through,
\* apply_retention and the commit.
CommitPass(w) ==
    /\ pass[w].pc = "retention"
    /\ LET t == pass[w].at
           end == FloorTo(t, Width)
           counted == pass[w].counted
           kept == {s \in rolled : \A r \in counted : Bucket(s) # Bucket(r)}
       IN /\ rolled' = {s \in kept \cup counted : ~RollupExpired(t, Bucket(s))}
          /\ through' = end
          /\ parts' = parts \ Expired(t, end)
          /\ raw' = {s \in raw : Partition(s) \notin Expired(t, end)}
    /\ lock' = None
    /\ pass' = [pass EXCEPT ![w] = NoPass]
    /\ UNCHANGED <<now, stage, ts, timely>>

\* An exception, or the death of the worker: the transaction rolls back.
AbortPass(w) ==
    /\ pass[w].pc = "retention"
    /\ lock' = None
    /\ pass' = [pass EXCEPT ![w] = NoPass]
    /\ UNCHANGED <<now, ingestVars, raw, rolled, through>>

Tick ==
    /\ now < MaxTime
    /\ now' = now + 1
    /\ UNCHANGED <<ingestVars, raw, rolled, through, lock, pass>>

Next ==
    \/ Tick
    \/ \E s \in Samples : \/ Collect(s) \/ EnsurePartition(s)
                          \/ InsertSample(s) \/ InsertFails(s)
    \/ \E w \in Workers : Aggregate(w) \/ CommitPass(w) \/ AbortPass(w)

Spec == Init /\ [][Next]_vars

-----------------------------------------------------------------------------
(* query_metrics with aggregation=auto over a range that holds every       *)
(* sample: completed rollups up to a bucket boundary, raw samples after.   *)

\* Mutant: rollups are trusted up to the last closed bucket.
SpliceAtNow == FloorTo(now, Width)

\* The bucket where the query leaves the rollups for the raw samples.
SpliceAt == FloorTo(now - Lateness, Width)
FromRollups == {s \in rolled : Bucket(s) < SpliceAt}
FromRaw == {s \in raw : ts[s] >= SpliceAt}

-----------------------------------------------------------------------------
(* Properties.                                                             *)

TypeOK ==
    /\ now \in 0..MaxTime
    /\ stage \in [Samples -> {"new", "spooled", "ensured", "creating", "stored"}]
    /\ ts \in [Samples -> 0..(MaxTime + Skew)]
    /\ raw \subseteq Samples /\ rolled \subseteq Samples /\ timely \subseteq Samples
    /\ parts \subseteq {FloorTo(t, Hour) : t \in 0..(MaxTime + Skew)}
    /\ through \in 0..MaxTime \cup {None}
    /\ lock \in Workers \cup {None}
    /\ \A w \in Workers : /\ pass[w].pc = "retention" <=> lock = w
                          /\ pass[w].counted \subseteq Samples

\* A rollup row keeps counting every sample it ever counted until its day
\* expires: recomputing a bucket never works from fewer raw samples than the
\* last time, although retention removes raw partitions behind the passes.
RollupsOnlyGrow ==
    [][\A s \in rolled \ rolled' : RollupExpired(now, Bucket(s))]_vars

\* "late/out-of-order samples converge" (maintenance.py): a sample stored
\* within the lateness window is counted by a rollup before its raw partition
\* goes, whatever passes were under way, failed or were missed meanwhile.
TimelySurvive ==
    \A s \in timely : s \in raw \/ s \in rolled \/ RollupExpired(now, Bucket(s))

\* The automatic query never counts a sample twice; and when a pass has
\* completed in the current bucket period, it shows every timely sample whose
\* rollup has not expired.
QueryExact ==
    /\ FromRollups \cap FromRaw = {}
    /\ through = FloorTo(now, Width) =>
          \A s \in timely : s \in FromRollups \cup FromRaw \/ RollupExpired(now, Bucket(s))

\* "drops raw partitions only after their rollups are complete" (plan.md): a
\* stored sample is in the raw tier or counted by a rollup.
DroppedAreRolledUp ==
    \A s \in Samples : stage[s] = "stored" =>
        s \in raw \/ s \in rolled \/ RollupExpired(now, Bucket(s))

=============================================================================
