--------------------------- MODULE WorkloadProofs ---------------------------
(***************************************************************************)
(* Proofs about Workload, for any consumers, limits and number of failures.*)
(***************************************************************************)
EXTENDS Workload, SequenceTheorems, FiniteSetTheorems, TLAPS

-----------------------------------------------------------------------------
(* The inductive invariant.                                                *)

TaskType == [pc : {"read", "blocked", "work", "dead"}, batch : Seq(Int), cursor : Nat, from : Nat, first : Nat]
AdapterType == [pc : {"idle", "stats"}, depth : Nat, previous : Seq(StatsType),
                at : StatsType, previousAt : StatsType]

Reader == CHOOSE c \in Consumers : TRUE

CountsOK ==
    /\ kind \in {"list", "stream"} /\ producer \in {"up", "dead"}
    /\ made \in 0..MaxItems /\ faultItems \in 0..(MaxItems - made)
    /\ failures \in 0..MaxFailures /\ forgot \in BOOLEAN
    /\ kind = "stream" => faultItems = 0

\* A task works exactly while it holds items; only the stream's reader blocks.
TasksOK ==
    /\ tasks \in [Consumers -> TaskType]
    /\ \A c \in Consumers :
          /\ ToSet(tasks[c].batch) \subseteq Items /\ Len(tasks[c].batch) <= ReadCount
          /\ (tasks[c].batch # <<>>) <=> tasks[c].pc = "work"
          /\ {tasks[c].cursor, tasks[c].from, tasks[c].first} \subseteq 0..made
          /\ kind = "list" => tasks[c].pc # "blocked" /\ Len(tasks[c].batch) <= 1
          /\ kind = "stream" /\ c # Reader => tasks[c].pc = "read"

RedisOK ==
    /\ redis \in RedisType /\ disk \in RedisType
    /\ ToSet(redis.items) \subseteq Items /\ ToSet(disk.items) \subseteq Items

HistoryOK == UNION {rows, handled, again, lost, gone} \subseteq Items

\* What the adapter remembers of a counter was taken when the counter had
\* grown at least as far as the time it remembers.
StatsOK ==
    /\ grown \in StatsType /\ adapter \in AdapterType
    /\ \A s \in Statistics :
          /\ disk.stats[s] <= redis.stats[s]
          /\ ~redis.seeded => redis.stats[s] = 0
          /\ ~disk.seeded => disk.stats[s] = 0
          /\ adapter.at[s] <= grown[s] /\ adapter.previousAt[s] <= grown[s]
          /\ adapter.previous # <<>> =>
                redis.stats[s] - adapter.previous[1][s] <= grown[s] - adapter.previousAt[s]

Distinct(s) == \A i, j \in DOMAIN s : s[i] = s[j] => i = j
Increasing(s) == \A i, j \in DOMAIN s : i < j => s[i] < s[j]

\* Each item is in the list, in a task's batch, handled, lost or gone.
OnePlace ==
    /\ \A id \in Items : \/ id \in ToSet(redis.items) \/ id \in handled \/ id \in lost \/ id \in gone
                         \/ \E c \in Consumers : id \in ToSet(tasks[c].batch)
    /\ handled \cap lost = {} /\ handled \cap gone = {} /\ lost \cap gone = {}
    /\ ToSet(redis.items) \cap (handled \cup lost \cup gone) = {}
    /\ \A c \in Consumers : ToSet(tasks[c].batch) \cap (handled \cup lost \cup gone \cup ToSet(redis.items)) = {}
    /\ \A c, d \in Consumers : c # d => ToSet(tasks[c].batch) \cap ToSet(tasks[d].batch) = {}

ListOK ==
    kind = "list" /\ ~forgot => OnePlace /\ Distinct(redis.items) /\ again = {}

\* The messages are in order, and those that were trimmed are gone.
StreamKept ==
    /\ Increasing(redis.items) /\ Increasing(disk.items)
    /\ \A id \in 1..made : id \in ToSet(redis.items) \/ id \in gone

\* The stream's reader is ahead of everything that was handled or lost, and
\* what it passed over had left the stream.
ReaderOK(pc, batch, cursor, from, first, H, L, G, n) ==
    /\ Increasing(batch)
    /\ from # 0 => pc = "blocked"
    /\ pc = "blocked" => cursor = 0 \/ from = cursor
    /\ pc = "work" => cursor = batch[1]
    /\ first <= cursor /\ (first = 0 => cursor = 0)
    /\ \A id \in H \cup L :
          /\ pc = "work" => id < batch[1]
          /\ pc = "read" /\ cursor # 0 => id <= cursor
          /\ pc = "blocked" => id <= from
    /\ pc = "work" =>
          \A id \in 1..n : batch[1] <= id /\ id <= batch[Len(batch)] => id \in ToSet(batch) \/ id \in G
    /\ \A id \in 1..n : first > 0 /\ first <= id /\ id <= cursor => id \in H \/ id \in ToSet(batch) \/ id \in G

StreamOK ==
    kind = "stream" =>
       /\ StreamKept
       /\ LET t == tasks[Reader]
          IN ReaderOK(t.pc, t.batch, t.cursor, t.from, t.first, handled, lost, gone, made)
       /\ again = {}

\* The statistics count what was made, and no more work than was done.
SampleOK ==
    ~forgot =>
       /\ redis.stats.produced = made
       /\ Len(redis.items) <= made + faultItems
       /\ adapter.depth <= made + faultItems
       /\ rows \subseteq handled \cup lost
       /\ redis.stats.consumed <= Cardinality(handled \cup lost)
       /\ redis.stats.consumed - redis.stats.failures <= Cardinality(rows)

WorkInv == CountsOK /\ TasksOK /\ RedisOK /\ HistoryOK /\ StatsOK /\ ListOK /\ StreamOK /\ SampleOK

-----------------------------------------------------------------------------
(* Sequences and the sets of their elements.                               *)

LEMMA SetFacts ==
    ASSUME NEW s \in Seq(Int)
    PROVE  /\ Len(s) \in Nat /\ DOMAIN s = 1..Len(s)
           /\ \A x : x \in ToSet(s) <=> \E i \in 1..Len(s) : x = s[i]
           /\ ToSet(s) \subseteq Int
           /\ (s = <<>>) <=> (Len(s) = 0)
           /\ s = <<>> => ToSet(s) = {}
  BY DEF ToSet

LEMMA AppendFacts ==
    ASSUME NEW s \in Seq(Int), NEW x \in Int
    PROVE  /\ Append(s, x) \in Seq(Int) /\ Len(Append(s, x)) = Len(s) + 1
           /\ ToSet(Append(s, x)) = ToSet(s) \cup {x}
           /\ Distinct(s) /\ x \notin ToSet(s) => Distinct(Append(s, x))
           /\ Increasing(s) /\ (\A y \in ToSet(s) : y < x) => Increasing(Append(s, x))
<1>1. /\ Append(s, x) \in Seq(Int) /\ Len(Append(s, x)) = Len(s) + 1
      /\ \A i \in 1..Len(s) : Append(s, x)[i] = s[i]
      /\ Append(s, x)[Len(s) + 1] = x
  BY AppendProperties
<1>2. Len(s) \in Nat /\ DOMAIN s = 1..Len(s) /\ DOMAIN Append(s, x) = 1..(Len(s) + 1)
  BY <1>1
<1>. DEFINE t == Append(s, x)
           n == Len(s)
<1>3. /\ n \in Nat /\ t[n + 1] = x /\ (\A i \in 1..n : t[i] = s[i] /\ s[i] \in ToSet(s) /\ s[i] \in Int)
      /\ DOMAIN t = 1..(n + 1) /\ DOMAIN s = 1..n
  BY <1>1, <1>2, SetFacts
<1>4. ToSet(t) = ToSet(s) \cup {x}
  <2>1. ASSUME NEW y \in ToSet(t) PROVE y \in ToSet(s) \cup {x}
    BY <1>3 DEF ToSet
  <2>2. ASSUME NEW y \in ToSet(s) PROVE y \in ToSet(t)
    BY <1>3 DEF ToSet
  <2>3. x \in ToSet(t)
    BY <1>3 DEF ToSet
  <2>. QED
    BY <2>1, <2>2, <2>3
<1>. HIDE DEF t, n
<1>5. Distinct(s) /\ x \notin ToSet(s) => Distinct(t)
  BY <1>3 DEF Distinct
<1>6. Increasing(s) /\ (\A y \in ToSet(s) : y < x) => Increasing(t)
  BY <1>3 DEF Increasing
<1>. QED
  BY <1>1, <1>4, <1>5, <1>6 DEF t, n

LEMMA TailFacts ==
    ASSUME NEW s \in Seq(Int), s # <<>>
    PROVE  /\ Head(s) = s[1] /\ Head(s) \in ToSet(s) /\ Head(s) \in Int
           /\ Tail(s) \in Seq(Int) /\ Len(Tail(s)) = Len(s) - 1
           /\ \A i \in 1..Len(Tail(s)) : Tail(s)[i] = s[i + 1]
           /\ ToSet(s) = ToSet(Tail(s)) \cup {Head(s)}
           /\ Distinct(s) => Distinct(Tail(s)) /\ Head(s) \notin ToSet(Tail(s))
           /\ Increasing(s) => Increasing(Tail(s)) /\ \A x \in ToSet(Tail(s)) : Head(s) < x
<1>1. /\ Head(s) = s[1] /\ Tail(s) \in Seq(Int) /\ Len(Tail(s)) = Len(s) - 1
      /\ \A i \in 1..Len(Tail(s)) : Tail(s)[i] = s[i + 1]
  BY HeadTailProperties
<1>. DEFINE t == Tail(s)
           n == Len(s)
<1>2. /\ n \in Nat \ {0} /\ DOMAIN s = 1..n /\ DOMAIN t = 1..(n - 1)
      /\ \A i \in 1..n : s[i] \in Int
      /\ \A i \in 1..(n - 1) : t[i] = s[i + 1] /\ i + 1 \in 1..n
      /\ 1 \in 1..n /\ \A i \in 1..n : i = 1 \/ i - 1 \in 1..(n - 1)
  BY <1>1, SetFacts
<1>. HIDE DEF t, n
<1>3. \A i \in 1..n : i # 1 => s[i] = t[i - 1] /\ i - 1 \in 1..(n - 1)
  BY <1>2
<1>4. ToSet(s) = ToSet(t) \cup {s[1]}
  <2>1. ASSUME NEW i \in 1..n PROVE s[i] \in ToSet(t) \cup {s[1]}
    <3>1. i # 1 => t[i - 1] \in ToSet(t)
      BY <1>2, <1>3 DEF ToSet
    <3>. QED
      BY <1>3, <3>1
  <2>2. ASSUME NEW y \in ToSet(t) PROVE y \in ToSet(s)
    BY <1>2 DEF ToSet
  <2>3. s[1] \in ToSet(s)
    BY <1>2 DEF ToSet
  <2>4. ToSet(s) \subseteq ToSet(t) \cup {s[1]}
    BY <1>2, <2>1 DEF ToSet
  <2>. QED
    BY <2>2, <2>3, <2>4
<1>5. Distinct(s) => Distinct(t) /\ s[1] \notin ToSet(t)
  <2>. SUFFICES ASSUME Distinct(s) PROVE Distinct(t) /\ s[1] \notin ToSet(t)
    OBVIOUS
  <2>1. ASSUME NEW i \in 1..(n - 1), NEW j \in 1..(n - 1), t[i] = t[j] PROVE i = j
    <3>1. i + 1 = j + 1
      BY <1>2, <2>1 DEF Distinct
    <3>. QED
      BY <1>2, <3>1
  <2>2. ASSUME NEW i \in 1..(n - 1), t[i] = s[1] PROVE FALSE
    <3>1. s[i + 1] = s[1] /\ i + 1 \in DOMAIN s /\ 1 \in DOMAIN s
      BY <1>2, <2>2
    <3>2. i + 1 = 1
      BY <3>1 DEF Distinct
    <3>. QED
      BY <1>2, <3>2
  <2>. QED
    BY <1>2, <2>1, <2>2 DEF Distinct, ToSet
<1>6. Increasing(s) => Increasing(t) /\ \A x \in ToSet(t) : s[1] < x
  <2>. SUFFICES ASSUME Increasing(s) PROVE Increasing(t) /\ \A x \in ToSet(t) : s[1] < x
    OBVIOUS
  <2>1. ASSUME NEW i \in 1..(n - 1), NEW j \in 1..(n - 1), i < j PROVE t[i] < t[j]
    <3>1. i + 1 < j + 1
      BY <1>2, <2>1
    <3>. QED
      BY <1>2, <3>1 DEF Increasing
  <2>2. ASSUME NEW i \in 1..(n - 1) PROVE s[1] < t[i]
    <3>1. 1 < i + 1
      BY <1>2
    <3>. QED
      BY <1>2, <3>1 DEF Increasing
  <2>. QED
    BY <1>2, <2>1, <2>2 DEF Increasing, ToSet
<1>. QED
  BY <1>1, <1>2, <1>4, <1>5, <1>6 DEF t, n

LEMMA OneFacts ==
    ASSUME NEW x \in Int
    PROVE  <<x>> \in Seq(Int) /\ Len(<<x>>) = 1 /\ <<x>> # <<>> /\ <<x>>[1] = x /\ ToSet(<<x>>) = {x}
<1>1. <<x>> \in Seq(Int) /\ Len(<<x>>) = 1 /\ <<x>> # <<>> /\ <<x>>[1] = x
  OBVIOUS
<1>2. \A y : y \in ToSet(<<x>>) <=> \E i \in 1..1 : y = <<x>>[i]
  BY <1>1, SetFacts
<1>3. \A i \in 1..1 : i = 1
  OBVIOUS
<1>. QED
  BY <1>1, <1>2, <1>3

\* A part of a sequence.
LEMMA PartFacts ==
    ASSUME NEW s \in Seq(Int), NEW m \in 1..(Len(s) + 1), NEW n \in (m - 1)..Len(s)
    PROVE  LET t == SubSeq(s, m, n)
           IN /\ t \in Seq(Int) /\ Len(t) = n - m + 1 /\ ToSet(t) \subseteq ToSet(s)
              /\ \A i \in m..n : s[i] \in ToSet(t)
              /\ m <= n => t[1] = s[m] /\ t[Len(t)] = s[n]
              /\ Increasing(s) => Increasing(t)
<1>. DEFINE t == SubSeq(s, m, n)
           k == Len(s)
<1>1. k \in Nat /\ DOMAIN s = 1..k /\ m \in Nat \ {0} /\ n \in Nat /\ m <= k + 1 /\ m - 1 <= n /\ n <= k
  OBVIOUS
<1>2. t \in Seq(Int) /\ Len(t) = n - m + 1 /\ \A i \in 1..(n - m + 1) : t[i] = s[m + i - 1]
  BY SubSeqProperties
<1>3. DOMAIN t = 1..(n - m + 1)
  BY <1>2
<1>. HIDE DEF t, k
<1>4. /\ \A i \in 1..(n - m + 1) : m + i - 1 \in 1..k
      /\ \A i \in m..n : i - m + 1 \in 1..(n - m + 1) /\ m + (i - m + 1) - 1 = i
  BY <1>1
<1>5. ToSet(t) \subseteq ToSet(s)
  <2>1. ASSUME NEW i \in 1..(n - m + 1) PROVE t[i] \in ToSet(s)
    <3>1. t[i] = s[m + i - 1] /\ m + i - 1 \in DOMAIN s
      BY <1>1, <1>2, <1>4
    <3>. QED
      BY <3>1 DEF ToSet
  <2>. QED
    BY <1>3, <2>1 DEF ToSet
<1>6. \A i \in m..n : s[i] \in ToSet(t)
  <2>1. ASSUME NEW i \in m..n PROVE s[i] = t[i - m + 1]
    BY <1>2, <1>4
  <2>. QED
    BY <1>3, <1>4, <2>1 DEF ToSet
<1>7. m <= n => t[1] = s[m] /\ t[n - m + 1] = s[n]
  <2>1. m <= n => 1 \in 1..(n - m + 1) /\ n - m + 1 \in 1..(n - m + 1) /\ m + 1 - 1 = m /\ m + (n - m + 1) - 1 = n
    BY <1>1
  <2>2. m <= n => t[1] = s[m + 1 - 1] /\ t[n - m + 1] = s[m + (n - m + 1) - 1]
    BY <1>2, <2>1
  <2>. QED
    BY <2>1, <2>2
<1>8. Increasing(s) => Increasing(t)
  <2>1. ASSUME Increasing(s), NEW i \in 1..(n - m + 1), NEW j \in 1..(n - m + 1), i < j PROVE t[i] < t[j]
    <3>1. m + i - 1 < m + j - 1
      BY <1>1, <2>1
    <3>2. m + i - 1 \in DOMAIN s /\ m + j - 1 \in DOMAIN s /\ t[i] = s[m + i - 1] /\ t[j] = s[m + j - 1]
      BY <1>1, <1>2, <1>4
    <3>. QED
      BY <2>1, <3>1, <3>2 DEF Increasing
  <2>. QED
    BY <1>3, <2>1 DEF Increasing
<1>. QED
  BY <1>2, <1>5, <1>6, <1>7, <1>8 DEF t

\* LREM.
LEMMA RemoveFacts ==
    ASSUME NEW s \in Seq(Int), NEW n \in DOMAIN s
    PROVE  /\ RemoveAt(s, n) \in Seq(Int) /\ Len(RemoveAt(s, n)) = Len(s) - 1
           /\ ToSet(s) = ToSet(RemoveAt(s, n)) \cup {s[n]}
           /\ Distinct(s) => Distinct(RemoveAt(s, n)) /\ s[n] \notin ToSet(RemoveAt(s, n))
<1>. DEFINE a == SubSeq(s, 1, n - 1)
           b == SubSeq(s, n + 1, Len(s))
           t == RemoveAt(s, n)
           k == Len(s)
<1>1. k \in Nat /\ DOMAIN s = 1..k /\ n \in 1..k /\ n \in Nat \ {0} /\ k - 1 \in Nat
  OBVIOUS
<1>2. a \in Seq(Int) /\ Len(a) = n - 1 /\ \A i \in 1..(n - 1) : a[i] = s[i]
  <2>1. 1 \in 1..(Len(s) + 1) /\ n - 1 \in (1 - 1)..Len(s)
    BY <1>1
  <2>2. a \in Seq(Int) /\ Len(a) = (n - 1) - 1 + 1 /\ \A i \in 1..((n - 1) - 1 + 1) : a[i] = s[1 + i - 1]
    BY <2>1, SubSeqProperties
  <2>. QED
    BY <1>1, <2>2
<1>3. b \in Seq(Int) /\ Len(b) = k - n /\ \A i \in 1..(k - n) : b[i] = s[n + i]
  <2>1. n + 1 \in 1..(Len(s) + 1) /\ Len(s) \in ((n + 1) - 1)..Len(s)
    BY <1>1
  <2>2. b \in Seq(Int) /\ Len(b) = k - (n + 1) + 1 /\ \A i \in 1..(k - (n + 1) + 1) : b[i] = s[(n + 1) + i - 1]
    BY <2>1, SubSeqProperties
  <2>3. k - (n + 1) + 1 = k - n /\ \A i \in 1..(k - n) : (n + 1) + i - 1 = n + i
    BY <1>1
  <2>. QED
    BY <2>2, <2>3
<1>4. t = a \o b
  BY DEF RemoveAt
<1>. HIDE DEF a, b, t, k
<1>5. /\ t \in Seq(Int) /\ Len(t) = k - 1
      /\ \A i \in 1..(k - 1) : t[i] = IF i <= n - 1 THEN a[i] ELSE b[i - (n - 1)]
  <2>1. t \in Seq(Int) /\ Len(t) = Len(a) + Len(b)
        /\ \A i \in 1..(Len(a) + Len(b)) : t[i] = IF i <= Len(a) THEN a[i] ELSE b[i - Len(a)]
    BY <1>2, <1>3, <1>4, ConcatProperties
  <2>2. Len(a) + Len(b) = k - 1
    BY <1>1, <1>2, <1>3
  <2>. QED
    BY <1>2, <2>1, <2>2
<1>6. \A i \in 1..(k - 1) : /\ i < n => t[i] = s[i]
                            /\ i >= n => t[i] = s[i + 1]
                            /\ i \in 1..k /\ i + 1 \in 1..k
  <2>. SUFFICES ASSUME NEW i \in 1..(k - 1)
                PROVE  /\ i < n => t[i] = s[i]
                       /\ i >= n => t[i] = s[i + 1]
                       /\ i \in 1..k /\ i + 1 \in 1..k
    OBVIOUS
  <2>1. i < n => i <= n - 1 /\ i \in 1..(n - 1)
    BY <1>1
  <2>2. i >= n => ~(i <= n - 1) /\ i - (n - 1) \in 1..(k - n) /\ n + (i - (n - 1)) = i + 1
    BY <1>1
  <2>3. i >= n => b[i - (n - 1)] = s[i + 1]
    BY <1>3, <2>2
  <2>4. i \in 1..k /\ i + 1 \in 1..k
    BY <1>1
  <2>. QED
    BY <1>2, <1>5, <2>1, <2>2, <2>3, <2>4
<1>7. DOMAIN t = 1..(k - 1)
  BY <1>5
<1>8. ToSet(s) = ToSet(t) \cup {s[n]}
  <2>1. ASSUME NEW i \in 1..k, i # n PROVE s[i] \in ToSet(t)
    <3>1. CASE i < n
      <4>1. i \in 1..(k - 1) /\ t[i] = s[i]
        BY <1>1, <1>6, <3>1
      <4>. QED
        BY <1>7, <4>1 DEF ToSet
    <3>2. CASE i > n
      <4>1. i - 1 \in 1..(k - 1) /\ i - 1 >= n /\ (i - 1) + 1 = i
        BY <1>1, <3>2
      <4>2. t[i - 1] = s[i]
        BY <1>6, <4>1
      <4>. QED
        BY <1>7, <4>1, <4>2 DEF ToSet
    <3>. QED
      BY <1>1, <2>1, <3>1, <3>2
  <2>2. ASSUME NEW i \in 1..(k - 1) PROVE t[i] \in ToSet(s)
    <3>1. i \in DOMAIN s /\ i + 1 \in DOMAIN s /\ (t[i] = s[i] \/ t[i] = s[i + 1])
      BY <1>1, <1>6
    <3>. QED
      BY <3>1 DEF ToSet
  <2>. QED
    BY <1>1, <1>7, <2>1, <2>2 DEF ToSet
<1>9. Distinct(s) => Distinct(t) /\ s[n] \notin ToSet(t)
  <2>. SUFFICES ASSUME Distinct(s) PROVE Distinct(t) /\ s[n] \notin ToSet(t)
    OBVIOUS
  <2>. DEFINE place(i) == IF i < n THEN i ELSE i + 1
  <2>1. ASSUME NEW i \in 1..(k - 1) PROVE place(i) \in 1..k /\ t[i] = s[place(i)] /\ place(i) # n
    BY <1>1, <1>6
  <2>2. ASSUME NEW i \in 1..(k - 1), NEW j \in 1..(k - 1), place(i) = place(j) PROVE i = j
    BY <1>1, <2>2
  <2>. HIDE DEF place
  <2>. QED
    BY <1>1, <1>7, <2>1, <2>2 DEF Distinct, ToSet
<1>. QED
  BY <1>5, <1>8, <1>9 DEF t, k

-----------------------------------------------------------------------------
(* What the steps do, field by field.                                      *)

\* Redis has new items and its counters grow by d.
Holds(items, d) ==
    /\ redis' \in RedisType /\ disk' = redis /\ grown' \in StatsType
    /\ redis'.items = items
    /\ redis'.seeded \/ (d = NoStats /\ redis'.seeded = redis.seeded)
    /\ \A s \in Statistics : redis'.stats[s] = redis.stats[s] + d[s] /\ grown'[s] = grown[s] + d[s]

\* The task of c changes and no other one.
Goes(c, pc, batch, cursor, from, first) ==
    /\ tasks' \in [Consumers -> TaskType]
    /\ \A d \in Consumers : d # c => tasks'[d] = tasks[d]
    /\ tasks'[c].pc = pc /\ tasks'[c].batch = batch
    /\ tasks'[c].cursor = cursor /\ tasks'[c].from = from /\ tasks'[c].first = first

Typed == CountsOK /\ TasksOK /\ RedisOK /\ HistoryOK

LEMMA StatsValues ==
    /\ NoStats \in StatsType /\ Produced \in StatsType
    /\ \A ok \in BOOLEAN : /\ Consumed(ok) \in StatsType
                           /\ Consumed(ok)["consumed"] = 1 /\ Consumed(ok)["produced"] = 0
                           /\ Consumed(ok)["failures"] = IF ok THEN 0 ELSE 1
    /\ \A s \in Statistics : NoStats[s] = 0
    /\ Produced["produced"] = 1 /\ Produced["consumed"] = 0 /\ Produced["failures"] = 0
    /\ Statistics = {"produced", "consumed", "failures"}
  BY DEF NoStats, Produced, Consumed, StatsType, Statistics

LEMMA CountFacts ==
    ASSUME RedisOK, grown \in StatsType, NEW d \in StatsType
    PROVE  /\ Executes(Count(d)) /\ Grow(d) => Holds(redis.items, d)
           /\ \A items \in Seq(Int) : Executes([Count(d) EXCEPT !.items = items]) /\ Grow(d) => Holds(items, d)
<1>1. redis \in RedisType /\ redis.stats \in StatsType /\ redis.items \in Seq(Int)
  BY DEF RedisOK, RedisType
<1>2. \A s \in Statistics : redis.stats[s] \in Nat /\ d[s] \in Nat /\ grown[s] \in Nat
  BY <1>1 DEF StatsType
<1>3. [s \in Statistics |-> redis.stats[s] + d[s]] \in StatsType /\ [s \in Statistics |-> grown[s] + d[s]] \in StatsType
  BY <1>2 DEF StatsType
<1>4. /\ Count(d) \in RedisType /\ Count(d).items = redis.items /\ Count(d).seeded
      /\ Count(d).stats = [s \in Statistics |-> redis.stats[s] + d[s]]
  BY <1>1, <1>3 DEF Count, RedisType
<1>5. ASSUME NEW items \in Seq(Int), Grow(d), disk' = redis, redis' \in RedisType, redis'.items = items,
             redis'.seeded, redis'.stats = [s \in Statistics |-> redis.stats[s] + d[s]]
      PROVE  Holds(items, d)
  <2>1. grown' = [s \in Statistics |-> grown[s] + d[s]]
    BY <1>5 DEF Grow
  <2>. QED
    BY <1>3, <1>5, <2>1 DEF Holds
<1>6. Executes(Count(d)) /\ Grow(d) => Holds(redis.items, d)
  BY <1>1, <1>4, <1>5 DEF Executes
<1>7. ASSUME NEW items \in Seq(Int), Executes([Count(d) EXCEPT !.items = items]), Grow(d) PROVE Holds(items, d)
  <2>. DEFINE r == [Count(d) EXCEPT !.items = items]
  <2>1. r \in RedisType /\ r.items = items /\ r.seeded = Count(d).seeded /\ r.stats = Count(d).stats
    BY <1>4 DEF RedisType
  <2>2. redis' = r /\ disk' = redis
    BY <1>7 DEF Executes
  <2>. HIDE DEF r
  <2>. QED
    BY <1>4, <1>5, <1>7, <2>1, <2>2
<1>. QED
  BY <1>6, <1>7

LEMMA ItemsFacts ==
    ASSUME RedisOK, grown \in StatsType, NEW items \in Seq(Int),
           Executes([redis EXCEPT !.items = items]), grown' = grown
    PROVE  Holds(items, NoStats)
<1>1. redis \in RedisType /\ redis.stats \in StatsType
  BY DEF RedisOK, RedisType
<1>2. \A s \in Statistics : redis.stats[s] \in Nat /\ grown[s] \in Nat
  BY <1>1 DEF StatsType
<1>3. redis' \in RedisType /\ redis'.items = items /\ redis'.stats = redis.stats /\ redis'.seeded = redis.seeded /\ disk' = redis
  BY <1>1 DEF Executes, RedisType
<1>4. \A s \in Statistics : redis.stats[s] = redis.stats[s] + NoStats[s] /\ grown[s] = grown[s] + NoStats[s]
  BY <1>2, StatsValues
<1>5. \A s \in Statistics : redis'.stats[s] = redis.stats[s] + NoStats[s] /\ grown'[s] = grown[s] + NoStats[s]
  BY <1>3, <1>4
<1>. QED
  BY <1>3, <1>5, Zenon DEF Holds

LEMMA FreshTask == Fresh \in TaskType /\ [Fresh EXCEPT !.pc = "dead"] \in TaskType
<1>1. Fresh \in TaskType
  BY DEF Fresh, TaskType
<1>. QED
  BY <1>1 DEF TaskType

LEMMA ItemsGrow ==
    ASSUME CountsOK
    PROVE  /\ Items \subseteq Int /\ made \in Nat /\ faultItems \in Nat
           /\ \A i : i \in Items <=> i \in 1..made \/ (i \in Int /\ -i \in 1..faultItems)
<1>1. made \in Nat /\ faultItems \in Nat /\ MaxItems \in Nat
  BY WorkloadAssumption DEF CountsOK
<1>2. \A i : i \in Items <=> i \in 1..made \/ \E j \in 1..faultItems : i = -j
  BY DEF Items
<1>3. \A i : (\E j \in 1..faultItems : i = -j) <=> (i \in Int /\ -i \in 1..faultItems)
  <2>1. ASSUME NEW j \in 1..faultItems PROVE -j \in Int /\ -(-j) = j
    BY <1>1
  <2>2. ASSUME NEW i \in Int, -i \in 1..faultItems PROVE i = -(-i)
    BY <1>1
  <2>. QED
    BY <2>1, <2>2
<1>. QED
  BY <1>1, <1>2, <1>3

LEMMA StreamItems ==
    ASSUME CountsOK, kind = "stream"
    PROVE  Items = 1..made
<1>1. faultItems = 0
  BY DEF CountsOK
<1>2. 1..faultItems = {}
  BY <1>1
<1>. QED
  BY <1>2 DEF Items

LEMMA BlpopFacts ==
    ASSUME Typed, grown \in StatsType, NEW c \in Consumers, Blpop(c)
    PROVE  /\ kind = "list" /\ tasks[c].pc = "read" /\ redis.items # <<>>
           /\ Holds(Tail(redis.items), NoStats)
           /\ Goes(c, "work", <<Head(redis.items)>>, tasks[c].cursor, tasks[c].from, tasks[c].first)
           /\ UNCHANGED <<kind, producer, rows, adapter, made, faultItems, grown, handled, again, lost, gone, forgot, failures>>
<1>1. redis.items \in Seq(Int) /\ redis.items # <<>>
  BY DEF Blpop, Typed, RedisOK, RedisType
<1>2. Head(redis.items) \in Int /\ Tail(redis.items) \in Seq(Int)
  BY <1>1, TailFacts
<1>3. Holds(Tail(redis.items), NoStats)
  <2>1. Executes([redis EXCEPT !.items = Tail(redis.items)]) /\ grown' = grown
    BY DEF Blpop, Executes
  <2>. QED
    BY <1>2, <2>1, ItemsFacts DEF Typed
<1>4. <<Head(redis.items)>> \in Seq(Int)
  BY <1>2
<1>5. Goes(c, "work", <<Head(redis.items)>>, tasks[c].cursor, tasks[c].from, tasks[c].first)
  <2>1. tasks[c] \in TaskType /\ tasks \in [Consumers -> TaskType]
    BY DEF Typed, TasksOK
  <2>. DEFINE t == [tasks[c] EXCEPT !.pc = "work", !.batch = <<Head(redis.items)>>]
  <2>2. t \in TaskType /\ t.pc = "work" /\ t.batch = <<Head(redis.items)>> /\ t.cursor = tasks[c].cursor
        /\ t.from = tasks[c].from /\ t.first = tasks[c].first
    BY <1>4, <2>1 DEF TaskType
  <2>3. tasks' = [tasks EXCEPT ![c] = t]
    BY DEF Blpop, Sets
  <2>. HIDE DEF t
  <2>. QED
    BY <2>1, <2>2, <2>3 DEF Goes
<1>. QED
  BY <1>1, <1>3, <1>5 DEF Blpop

LEMMA ReadFailsFacts ==
    ASSUME Typed, grown \in StatsType, NEW c \in Consumers, ReadFails(c)
    PROVE  /\ tasks[c].batch = <<>> /\ failures < MaxFailures /\ failures' = failures + 1
           /\ Goes(c, "dead", <<>>, 0, 0, 0)
           /\ \/ UNCHANGED <<redis, disk, lost>>
              \/ /\ kind = "list" /\ redis.items # <<>>
                 /\ Holds(Tail(redis.items), NoStats) /\ lost' = lost \cup {Head(redis.items)}
           /\ UNCHANGED <<kind, producer, rows, adapter, made, faultItems, grown, handled, again, gone, forgot>>
<1>1. redis.items \in Seq(Int)
  BY DEF Typed, RedisOK, RedisType
<1>2. ASSUME redis.items # <<>>, Executes([redis EXCEPT !.items = Tail(@)]) PROVE Holds(Tail(redis.items), NoStats)
  <2>1. Tail(redis.items) \in Seq(Int)
    BY <1>1, <1>2, TailFacts
  <2>2. Executes([redis EXCEPT !.items = Tail(redis.items)]) /\ grown' = grown
    BY <1>2 DEF ReadFails, Executes
  <2>. QED
    BY <2>1, <2>2, ItemsFacts DEF Typed
<1>3. Goes(c, "dead", <<>>, 0, 0, 0)
  BY FreshTask DEF ReadFails, Sets, Goes, Typed, TasksOK, Fresh
<1>4. tasks[c].batch = <<>>
  BY DEF ReadFails, Typed, TasksOK
<1>. QED
  BY <1>2, <1>3, <1>4 DEF ReadFails, redisVars

LEMMA XreadStartsFacts ==
    ASSUME Typed, NEW c \in Consumers, XreadStarts(c)
    PROVE  /\ kind = "stream" /\ c = Reader /\ tasks[c].pc = "read"
           /\ Goes(c, "blocked", tasks[c].batch, tasks[c].cursor, From(tasks[c]), tasks[c].first)
           /\ UNCHANGED <<kind, producer, redis, disk, rows, adapter, made, faultItems, grown, handled, again, lost, gone, forgot, failures>>
<1>1. kind = "stream" /\ c = Reader /\ tasks[c].pc = "read"
  BY DEF XreadStarts, Readers, Reader
<1>2. tasks[c] \in TaskType /\ tasks \in [Consumers -> TaskType] /\ made \in Nat
  BY ItemsGrow DEF Typed, TasksOK
<1>3. From(tasks[c]) \in Nat
  BY <1>2 DEF From, TaskType
<1>. DEFINE t == [tasks[c] EXCEPT !.pc = "blocked", !.from = From(tasks[c])]
<1>4. t \in TaskType /\ t.pc = "blocked" /\ t.batch = tasks[c].batch /\ t.cursor = tasks[c].cursor
      /\ t.from = From(tasks[c]) /\ t.first = tasks[c].first
  BY <1>2, <1>3 DEF TaskType
<1>5. tasks' = [tasks EXCEPT ![c] = t]
  BY DEF XreadStarts, Sets
<1>. HIDE DEF t
<1>6. Goes(c, "blocked", tasks[c].batch, tasks[c].cursor, From(tasks[c]), tasks[c].first)
  BY <1>2, <1>4, <1>5 DEF Goes
<1>. QED
  BY <1>1, <1>6 DEF XreadStarts, redisVars

\* RPUSH or XADD of an id, trimmed or not.
LEMMA PushedFacts ==
    ASSUME Typed, NEW items \in Pushed(made + 1)
    PROVE  /\ items \in Seq(Int) /\ Len(items) <= Len(redis.items) + 1
           /\ ToSet(items) \subseteq ToSet(redis.items) \cup {made + 1} /\ made + 1 \in ToSet(items)
           /\ kind = "list" => items = Append(redis.items, made + 1)
           /\ Increasing(redis.items) /\ (\A y \in ToSet(redis.items) : y < made + 1) => Increasing(items)
<1>. DEFINE all == Append(redis.items, made + 1)
<1>1. redis.items \in Seq(Int) /\ made + 1 \in Int
  BY ItemsGrow DEF Typed, RedisOK, RedisType
<1>2. /\ all \in Seq(Int) /\ Len(all) = Len(redis.items) + 1 /\ Len(redis.items) \in Nat
      /\ ToSet(all) = ToSet(redis.items) \cup {made + 1}
      /\ Increasing(redis.items) /\ (\A y \in ToSet(redis.items) : y < made + 1) => Increasing(all)
      /\ all[Len(all)] = made + 1
  BY <1>1, AppendFacts, AppendProperties
<1>3. items = all \/ (kind = "stream" /\ Len(all) > MaxLen /\ items = SubSeq(all, Len(all) - MaxLen + 1, Len(all)))
  BY DEF Pushed
<1>. HIDE DEF all
<1>4. CASE items = all
  BY <1>2, <1>4 DEF all
<1>5. CASE kind = "stream" /\ Len(all) > MaxLen /\ items = SubSeq(all, Len(all) - MaxLen + 1, Len(all))
  <2>1. MaxLen \in Nat \ {0}
    BY WorkloadAssumption
  <2>. DEFINE m == Len(all) - MaxLen + 1
             n == Len(all)
  <2>2. m \in 1..(Len(all) + 1) /\ n \in (m - 1)..Len(all) /\ n \in m..n /\ n - m + 1 = MaxLen /\ MaxLen <= Len(redis.items) + 1
    <3>1. Len(all) \in Nat /\ Len(all) > MaxLen /\ MaxLen >= 1 /\ MaxLen \in Nat /\ Len(all) = Len(redis.items) + 1 /\ Len(redis.items) \in Nat
      BY <1>2, <1>5, <2>1
    <3>. QED
      BY <3>1
  <2>3. items = SubSeq(all, m, n)
    BY <1>5
  <2>. HIDE DEF m, n
  <2>4. /\ items \in Seq(Int) /\ Len(items) = n - m + 1 /\ ToSet(items) \subseteq ToSet(all)
        /\ (\A i \in m..n : all[i] \in ToSet(items)) /\ (Increasing(all) => Increasing(items))
    BY <1>2, <2>2, <2>3, PartFacts
  <2>5. all[n] \in ToSet(items) /\ all[n] = made + 1
    BY <1>2, <2>2, <2>4 DEF n
  <2>. QED
    BY <1>2, <1>5, <2>2, <2>4, <2>5
<1>. QED
  BY <1>3, <1>4, <1>5

LEMMA PushFacts ==
    ASSUME Typed, grown \in StatsType, Push
    PROVE  /\ made' = made + 1
           /\ \E items \in Pushed(made + 1) :
                 Holds(items, Produced) /\ gone' = gone \cup (ToSet(redis.items) \ ToSet(items))
<1>1. PICK items \in Pushed(made + 1) : /\ Executes([Count(Produced) EXCEPT !.items = items])
                                        /\ gone' = gone \cup (ToSet(redis.items) \ ToSet(items))
  BY DEF Push
<1>2. items \in Seq(Int)
  BY PushedFacts
<1>3. Produced \in StatsType
  BY StatsValues
<1>4. Grow(Produced)
  BY DEF Push
<1>5. Holds(items, Produced)
  BY <1>1, <1>2, <1>3, <1>4, CountFacts DEF Typed
<1>. QED
  BY <1>1, <1>5 DEF Push

\* The producer's step.
LEMMA ProduceFacts ==
    ASSUME Typed, grown \in StatsType, Produce
    PROVE  /\ made + faultItems < MaxItems /\ producer' \in {"up", "dead"} /\ failures' \in 0..MaxFailures
           /\ Push \/ UNCHANGED <<made, redis, disk, grown, gone>>
           /\ UNCHANGED <<kind, tasks, rows, adapter, faultItems, handled, again, lost, forgot>>
<1>1. failures \in 0..MaxFailures /\ MaxFailures \in Nat /\ producer \in {"up", "dead"}
  BY WorkloadAssumption DEF Typed, CountsOK
<1>2. /\ made + faultItems < MaxItems
      /\ Push \/ UNCHANGED <<made, redis, disk, grown, gone>>
      /\ UNCHANGED <<kind, tasks, rows, adapter, faultItems, handled, again, lost, forgot>>
  BY DEF Produce, redisVars
<1>3. producer' \in {"up", "dead"}
  BY <1>1 DEF Produce
<1>4. failures' = failures \/ (failures < MaxFailures /\ failures' = failures + 1)
  BY DEF Produce
<1>5. failures' \in 0..MaxFailures
  BY <1>1, <1>4
<1>. QED
  BY <1>2, <1>3, <1>5

LEMMA BacklogFacts ==
    ASSUME Typed, grown \in StatsType, Backlog
    PROVE  /\ kind = "list"
           /\ \/ /\ made + faultItems < MaxItems /\ faultItems' = faultItems + 1 /\ gone' = gone
                 /\ Holds(Append(redis.items, -(faultItems + 1)), NoStats)
              \/ \E n \in DOMAIN redis.items :
                 /\ faultItems' = faultItems /\ redis.items[n] < 0
                 /\ Holds(RemoveAt(redis.items, n), NoStats) /\ gone' = gone \cup {redis.items[n]}
           /\ UNCHANGED <<kind, producer, tasks, rows, adapter, made, grown, handled, again, lost, forgot, failures>>
<1>1. redis.items \in Seq(Int) /\ -(faultItems + 1) \in Int
  BY ItemsGrow DEF Typed, RedisOK, RedisType
<1>2. grown' = grown
  BY DEF Backlog
<1>3. ASSUME Executes([redis EXCEPT !.items = Append(@, -(faultItems + 1))])
      PROVE  Holds(Append(redis.items, -(faultItems + 1)), NoStats)
  <2>1. Append(redis.items, -(faultItems + 1)) \in Seq(Int)
    BY <1>1, AppendFacts
  <2>2. Executes([redis EXCEPT !.items = Append(redis.items, -(faultItems + 1))])
    BY <1>3 DEF Executes
  <2>. QED
    BY <1>2, <2>1, <2>2, ItemsFacts DEF Typed
<1>4. ASSUME NEW n \in DOMAIN redis.items, Executes([redis EXCEPT !.items = RemoveAt(@, n)])
      PROVE  Holds(RemoveAt(redis.items, n), NoStats)
  <2>1. RemoveAt(redis.items, n) \in Seq(Int)
    BY <1>1, RemoveFacts
  <2>2. Executes([redis EXCEPT !.items = RemoveAt(redis.items, n)])
    BY <1>4 DEF Executes
  <2>. QED
    BY <1>2, <2>1, <2>2, ItemsFacts DEF Typed
<1>. QED
  BY <1>3, <1>4 DEF Backlog

\* What XREAD answers with: the messages after from, up to the batch's last.
Answer(from, batch) ==
    /\ batch \in Seq(Int) /\ batch # <<>> /\ Len(batch) <= ReadCount
    /\ ToSet(batch) \subseteq ToSet(redis.items) /\ (Increasing(redis.items) => Increasing(batch))
    /\ \A id \in ToSet(batch) : id > from
    /\ Increasing(redis.items) =>
          \A id \in ToSet(redis.items) : id > from /\ id <= batch[Len(batch)] => id \in ToSet(batch)

LEMMA XreadAnswersFacts ==
    ASSUME Typed, NEW c \in Consumers, XreadAnswers(c)
    PROVE  /\ kind = "stream" /\ c = Reader /\ tasks[c].pc = "blocked" /\ tasks[c].batch = <<>>
           /\ \/ Goes(c, "read", <<>>, tasks[c].cursor, 0, tasks[c].first)
              \/ \E batch : /\ Answer(tasks[c].from, batch) /\ batch[1] \in Nat
                            /\ Goes(c, "work", batch, batch[1], 0, IF tasks[c].first = 0 THEN batch[1] ELSE tasks[c].first)
           /\ UNCHANGED <<kind, producer, redis, disk, rows, adapter, made, faultItems, grown, handled, again, lost, gone, forgot, failures>>
<1>1. kind = "stream" /\ c = Reader /\ tasks[c].pc = "blocked" /\ tasks[c].batch = <<>>
  BY DEF XreadAnswers, Typed, TasksOK, CountsOK
<1>2. /\ tasks[c] \in TaskType /\ tasks \in [Consumers -> TaskType] /\ tasks[c].from \in Nat /\ tasks[c].first \in Nat
      /\ tasks[c].cursor \in Nat
  BY DEF Typed, TasksOK, TaskType
<1>3. redis.items \in Seq(Int) /\ Len(redis.items) \in Nat /\ DOMAIN redis.items = 1..Len(redis.items) /\ ReadCount \in Nat \ {0}
      /\ \A i \in 1..Len(redis.items) : redis.items[i] \in Int
  BY WorkloadAssumption DEF Typed, RedisOK, RedisType
<1>. DEFINE k == Len(redis.items)
           last(n) == IF Len(redis.items) > n + ReadCount THEN n + ReadCount ELSE Len(redis.items)
           b(n) == SubSeq(redis.items, n + 1, last(n))
<1>4. PICK n \in 0..k :
         /\ After(tasks[c].from, n)
         /\ IF b(n) = <<>>
            THEN Sets(c, [tasks[c] EXCEPT !.pc = "read", !.from = 0])
            ELSE Sets(c, [tasks[c] EXCEPT !.pc = "work", !.from = 0, !.batch = b(n), !.cursor = Head(b(n)),
                                          !.first = IF @ = 0 THEN Head(b(n)) ELSE @])
  BY DEF XreadAnswers
<1>5. CASE b(n) = <<>>
  <2>. DEFINE t == [tasks[c] EXCEPT !.pc = "read", !.from = 0]
  <2>1. t \in TaskType /\ t.pc = "read" /\ t.batch = <<>> /\ t.cursor = tasks[c].cursor /\ t.from = 0 /\ t.first = tasks[c].first
    BY <1>1, <1>2 DEF TaskType
  <2>2. tasks' = [tasks EXCEPT ![c] = t]
    BY <1>4, <1>5 DEF Sets
  <2>. HIDE DEF t
  <2>3. Goes(c, "read", <<>>, tasks[c].cursor, 0, tasks[c].first)
    BY <1>2, <2>1, <2>2 DEF Goes
  <2>. QED
    BY <1>1, <2>3 DEF XreadAnswers, redisVars
<1>6. CASE b(n) # <<>>
  <2>. DEFINE batch == b(n)
             m == last(n)
             from == tasks[c].from
  <2>1. n \in Nat /\ n <= k /\ m \in Nat /\ n <= m /\ m <= k /\ m <= n + ReadCount /\ n + 1 \in 1..(k + 1) /\ m \in ((n + 1) - 1)..k
    BY <1>3
  <2>2. batch = SubSeq(redis.items, n + 1, m) /\ batch # <<>>
    BY <1>6
  <2>3. \A i \in 1..k : redis.items[i] > from <=> i > n
    BY <1>3, <1>4 DEF After
  <2>. HIDE DEF batch, m, from
  <2>4. /\ batch \in Seq(Int) /\ Len(batch) = m - (n + 1) + 1 /\ ToSet(batch) \subseteq ToSet(redis.items)
        /\ (\A i \in (n + 1)..m : redis.items[i] \in ToSet(batch))
        /\ (n + 1 <= m => batch[1] = redis.items[n + 1] /\ batch[Len(batch)] = redis.items[m])
        /\ (Increasing(redis.items) => Increasing(batch))
    BY <1>3, <2>1, <2>2, PartFacts
  <2>5. n + 1 <= m /\ Len(batch) <= ReadCount /\ Len(batch) \in Nat \ {0}
    BY <1>3, <2>1, <2>2, <2>4
  <2>6. ASSUME NEW id \in ToSet(batch) PROVE id > from
    <3>1. \A i \in 1..(m - (n + 1) + 1) : batch[i] = redis.items[(n + 1) + i - 1]
      BY <1>3, <2>1, <2>2, SubSeqProperties
    <3>2. PICK i \in 1..Len(batch) : id = batch[i]
      BY <2>4, SetFacts
    <3>3. (n + 1) + i - 1 \in 1..k /\ (n + 1) + i - 1 > n /\ i \in 1..(m - (n + 1) + 1)
      BY <1>3, <2>1, <2>4, <3>2
    <3>4. redis.items[(n + 1) + i - 1] > from
      BY <2>3, <3>3
    <3>. QED
      BY <3>1, <3>2, <3>3, <3>4
  <2>7. ASSUME Increasing(redis.items), NEW id \in ToSet(redis.items), id > from, id <= batch[Len(batch)] PROVE id \in ToSet(batch)
    <3>1. PICK i \in 1..k : id = redis.items[i]
      BY <1>3, SetFacts
    <3>2. i > n
      BY <2>3, <2>7, <3>1
    <3>3. ~(m < i)
      <4>1. m \in DOMAIN redis.items /\ i \in DOMAIN redis.items /\ redis.items[m] \in Int /\ redis.items[i] \in Int
        BY <1>3, <2>1, <2>5, <3>1
      <4>2. m < i => redis.items[m] < redis.items[i]
        BY <2>7, <4>1 DEF Increasing
      <4>3. redis.items[i] <= redis.items[m]
        BY <2>4, <2>5, <2>7, <3>1
      <4>. QED
        BY <4>1, <4>2, <4>3
    <3>4. i \in (n + 1)..m
      BY <2>1, <3>1, <3>2, <3>3
    <3>. QED
      BY <2>4, <3>1, <3>4
  <2>8. Answer(from, batch)
    BY <2>2, <2>4, <2>5, <2>6, <2>7 DEF Answer
  <2>9. Head(batch) = batch[1] /\ batch[1] \in Nat
    <3>1. Head(batch) = batch[1] /\ batch[1] \in ToSet(batch) /\ batch[1] \in Int
      BY <2>2, <2>4, TailFacts
    <3>2. batch[1] > from /\ from \in Nat
      BY <1>2, <2>6, <3>1 DEF from
    <3>. QED
      BY <3>1, <3>2
  <2>. DEFINE first == IF tasks[c].first = 0 THEN batch[1] ELSE tasks[c].first
             t == [tasks[c] EXCEPT !.pc = "work", !.from = 0, !.batch = batch, !.cursor = batch[1], !.first = first]
  <2>10. first \in Nat
    BY <1>2, <2>9
  <2>11. tasks' = [tasks EXCEPT ![c] = t]
    BY <1>4, <1>6, <2>9 DEF Sets, batch
  <2>. HIDE DEF first
  <2>12. t \in TaskType /\ t.pc = "work" /\ t.batch = batch /\ t.cursor = batch[1] /\ t.from = 0 /\ t.first = first
    BY <1>2, <2>4, <2>9, <2>10 DEF TaskType
  <2>. HIDE DEF t
  <2>13. Goes(c, "work", batch, batch[1], 0, first)
    BY <1>2, <2>11, <2>12 DEF Goes
  <2>. QED
    BY <1>1, <2>8, <2>9, <2>13 DEF XreadAnswers, redisVars, first, from
<1>. QED
  BY <1>5, <1>6

\* The items of a stream are the messages, which have positive numbers.
LEMMA BatchFacts ==
    ASSUME Typed, NEW c \in Consumers, tasks[c].pc = "work"
    PROVE  /\ tasks[c].batch \in Seq(Int) /\ tasks[c].batch # <<>> /\ tasks[c].batch[1] \in Items
           /\ tasks[c].batch[1] \in ToSet(tasks[c].batch)
           /\ Head(tasks[c].batch) = tasks[c].batch[1] /\ Tail(tasks[c].batch) \in Seq(Int)
           /\ ToSet(tasks[c].batch) = ToSet(Tail(tasks[c].batch)) \cup {tasks[c].batch[1]}
           /\ ToSet(tasks[c].batch) \subseteq Items /\ Len(tasks[c].batch) <= ReadCount
           /\ Tail(tasks[c].batch) # <<>> =>
                 /\ kind = "stream" /\ c = Reader /\ Tail(tasks[c].batch)[1] \in 1..made
                 /\ Tail(tasks[c].batch)[1] = Head(Tail(tasks[c].batch))
           /\ kind = "stream" => c = Reader
<1>. DEFINE b == tasks[c].batch
<1>1. b \in Seq(Int) /\ b # <<>> /\ ToSet(b) \subseteq Items /\ Len(b) <= ReadCount
      /\ (kind = "stream" => c = Reader) /\ (kind = "list" => Len(b) <= 1)
  BY DEF Typed, TasksOK, TaskType
<1>2. /\ Head(b) = b[1] /\ b[1] \in ToSet(b) /\ Tail(b) \in Seq(Int) /\ Len(Tail(b)) = Len(b) - 1
      /\ ToSet(b) = ToSet(Tail(b)) \cup {Head(b)}
  BY <1>1, TailFacts
<1>. HIDE DEF b
<1>3. ASSUME Tail(b) # <<>> PROVE kind = "stream" /\ Tail(b)[1] \in 1..made /\ Tail(b)[1] = Head(Tail(b))
  <2>1. Len(Tail(b)) \in Nat \ {0} /\ Len(b) \in Nat
    BY <1>1, <1>2, <1>3, SetFacts
  <2>2. kind = "stream"
    BY <1>1, <1>2, <2>1 DEF Typed, CountsOK
  <2>3. Head(Tail(b)) = Tail(b)[1] /\ Head(Tail(b)) \in ToSet(Tail(b))
    BY <1>2, <1>3, TailFacts
  <2>4. Tail(b)[1] \in Items /\ faultItems = 0
    BY <1>1, <1>2, <2>2, <2>3 DEF Typed, CountsOK
  <2>5. Tail(b)[1] \in 1..made
    BY <2>2, <2>4, StreamItems DEF Typed
  <2>. QED
    BY <2>2, <2>3, <2>5
<1>. QED
  BY <1>1, <1>2, <1>3 DEF b

LEMMA WorkFacts ==
    ASSUME Typed, grown \in StatsType, NEW c \in Consumers, Work(c)
    PROVE  LET id == tasks[c].batch[1]
               rest == Tail(tasks[c].batch)
           IN /\ tasks[c].pc = "work"
              /\ Goes(c, IF rest = <<>> THEN "read" ELSE "work", rest,
                      IF rest = <<>> THEN tasks[c].cursor ELSE rest[1], tasks[c].from, tasks[c].first)
              /\ failures' \in 0..MaxFailures
              /\ \E ok \in BOOLEAN : /\ Holds(redis.items, Consumed(ok)) \/ UNCHANGED <<redis, disk, grown>>
                                     /\ rows' \in {rows, rows \cup {id}} /\ (ok => rows' = rows \cup {id})
              /\ handled' = handled \cup {id} /\ again' = again \cup (handled \cap {id})
              /\ UNCHANGED <<kind, producer, adapter, made, faultItems, lost, gone, forgot>>
<1>. DEFINE id == tasks[c].batch[1]
           rest == Tail(tasks[c].batch)
<1>1. tasks[c].pc = "work"
  BY DEF Work
<1>2. /\ Head(tasks[c].batch) = id /\ rest \in Seq(Int) /\ id \in Int /\ id \in Items
      /\ (rest # <<>> => rest[1] = Head(rest) /\ rest[1] \in Nat)
  <2>1. Items \subseteq Int /\ made \in Nat
    BY ItemsGrow DEF Typed
  <2>. QED
    BY <1>1, <2>1, BatchFacts
<1>. HIDE DEF id, rest
<1>3. PICK ok \in BOOLEAN, recorded \in BOOLEAN :
         /\ LET failed == (IF ok \/ id < 0 THEN 0 ELSE 1) + (IF recorded THEN 0 ELSE 1)
            IN failures + failed <= MaxFailures /\ failures' = failures + failed
         /\ rows' \in IF ok THEN {rows \cup {id}} ELSE IF id < 0 THEN {rows} ELSE {rows, rows \cup {id}}
         /\ RecordProcessing(ok) \/ UNCHANGED <<redis, disk, grown>>
         /\ Handle(id)
  BY <1>2 DEF Work, redisVars
<1>4. failures' \in 0..MaxFailures
  <2>1. failures \in Nat /\ MaxFailures \in Nat
    BY WorkloadAssumption DEF Typed, CountsOK
  <2>. QED
    BY <1>3, <2>1
<1>5. rows' \in {rows, rows \cup {id}} /\ (ok => rows' = rows \cup {id})
  BY <1>3
<1>6. Holds(redis.items, Consumed(ok)) \/ UNCHANGED <<redis, disk, grown>>
  <2>1. Consumed(ok) \in StatsType
    BY StatsValues
  <2>2. RecordProcessing(ok) => Holds(redis.items, Consumed(ok))
    BY <2>1, CountFacts DEF RecordProcessing, Typed
  <2>. QED
    BY <1>3, <2>2
<1>7. handled' = handled \cup {id} /\ again' = again \cup (handled \cap {id})
  BY <1>3 DEF Handle
<1>8. Goes(c, IF rest = <<>> THEN "read" ELSE "work", rest,
           IF rest = <<>> THEN tasks[c].cursor ELSE rest[1], tasks[c].from, tasks[c].first)
  <2>1. tasks[c] \in TaskType /\ tasks \in [Consumers -> TaskType]
    BY DEF Typed, TasksOK
  <2>2. tasks' = [tasks EXCEPT ![c] = NextItem(tasks[c])]
    BY DEF Work, Sets
  <2>3. CASE rest = <<>>
    <3>. DEFINE t == [tasks[c] EXCEPT !.pc = "read", !.batch = rest]
    <3>1. t \in TaskType /\ t.pc = "read" /\ t.batch = rest /\ t.cursor = tasks[c].cursor
          /\ t.from = tasks[c].from /\ t.first = tasks[c].first
      BY <1>2, <2>1 DEF TaskType
    <3>2. tasks' = [tasks EXCEPT ![c] = t]
      BY <2>2, <2>3 DEF NextItem, rest
    <3>. HIDE DEF t
    <3>. QED
      BY <2>1, <2>3, <3>1, <3>2 DEF Goes
  <2>4. CASE rest # <<>>
    <3>. DEFINE t == [tasks[c] EXCEPT !.batch = rest, !.cursor = rest[1]]
    <3>1. t \in TaskType /\ t.pc = "work" /\ t.batch = rest /\ t.cursor = rest[1]
          /\ t.from = tasks[c].from /\ t.first = tasks[c].first
      BY <1>1, <1>2, <2>1, <2>4 DEF TaskType
    <3>2. tasks' = [tasks EXCEPT ![c] = t]
      BY <1>2, <2>2, <2>4 DEF NextItem, rest
    <3>. HIDE DEF t
    <3>. QED
      BY <2>1, <2>4, <3>1, <3>2 DEF Goes
  <2>. QED
    BY <2>3, <2>4
<1>9. UNCHANGED <<kind, producer, adapter, made, faultItems, lost, gone, forgot>>
  BY DEF Work
<1>10. \E k \in BOOLEAN : /\ Holds(redis.items, Consumed(k)) \/ UNCHANGED <<redis, disk, grown>>
                          /\ rows' \in {rows, rows \cup {id}} /\ (k => rows' = rows \cup {id})
  BY <1>5, <1>6
<1>. QED
  BY <1>1, <1>4, <1>7, <1>8, <1>9, <1>10 DEF id, rest

LEMMA RestartFacts ==
    ASSUME Typed, grown \in StatsType, NEW c \in Consumers, Restart(c)
    PROVE  /\ kind = "stream" => c = Reader
           /\ failures < MaxFailures /\ failures' = failures + 1
           /\ Goes(c, "read", <<>>, 0, 0, 0)
           /\ \/ UNCHANGED <<redis, disk, grown>>
              \/ tasks[c].pc = "work" /\ Holds(redis.items, Consumed(FALSE))
           /\ \/ UNCHANGED rows
              \/ tasks[c].pc = "work" /\ rows' = rows \cup {tasks[c].batch[1]}
           /\ lost' = lost \cup ToSet(tasks[c].batch)
           /\ UNCHANGED <<kind, producer, adapter, made, faultItems, handled, again, gone, forgot>>
<1>1. kind = "stream" => c = Reader
  BY DEF Restart, Readers, Reader
<1>2. Goes(c, "read", <<>>, 0, 0, 0)
  BY FreshTask DEF Restart, Sets, Goes, Typed, TasksOK, Fresh
<1>3. RecordProcessing(FALSE) => Holds(redis.items, Consumed(FALSE))
  <2>1. Consumed(FALSE) \in StatsType
    BY StatsValues
  <2>. QED
    BY <2>1, CountFacts DEF RecordProcessing, Typed
<1>4. \/ UNCHANGED rows
      \/ tasks[c].pc = "work" /\ rows' = rows \cup {tasks[c].batch[1]}
  BY BatchFacts DEF Restart
<1>. QED
  BY <1>1, <1>2, <1>3, <1>4 DEF Restart, redisVars

\* What the adapter's steps do.
AdapterStep ==
    /\ adapter' \in AdapterType /\ failures' \in 0..MaxFailures
    /\ adapter'.depth \in {0, Len(redis.items)}
    /\ \/ adapter'.previous = adapter.previous /\ adapter'.previousAt = adapter.previousAt /\ adapter'.at \in {NoStats, grown}
       \/ adapter'.previous = adapter.previous /\ adapter'.previousAt = adapter.at /\ adapter'.at = NoStats /\ ~redis.seeded
       \/ adapter'.previous = <<redis.stats>> /\ adapter'.previousAt = adapter.at /\ adapter'.at = NoStats
       \/ adapter'.previous = <<>> /\ adapter'.previousAt = NoStats /\ adapter'.at = NoStats
    /\ UNCHANGED <<workVars, redisVars, gone, forgot>>

LEMMA AdapterFacts ==
    ASSUME Typed, grown \in StatsType, adapter \in AdapterType, FetchDepth \/ CollectStats \/ FetchFails
    PROVE  AdapterStep
<1>1. /\ NoStats \in StatsType /\ redis.stats \in StatsType /\ redis.items \in Seq(Int) /\ Len(redis.items) \in Nat
      /\ failures \in Nat /\ MaxFailures \in Nat /\ failures <= MaxFailures
      /\ adapter.previous \in Seq(StatsType) /\ adapter.at \in StatsType /\ adapter.previousAt \in StatsType
  BY StatsValues, WorkloadAssumption DEF Typed, RedisOK, RedisType, CountsOK, AdapterType
<1>2. /\ NoAdapter \in AdapterType /\ NoAdapter.pc = "idle" /\ NoAdapter.depth = 0 /\ NoAdapter.previous = <<>>
      /\ NoAdapter.at = NoStats /\ NoAdapter.previousAt = NoStats
  BY <1>1 DEF NoAdapter, AdapterType
<1>3. CASE FetchDepth
  <2>1. /\ adapter' \in AdapterType /\ adapter'.depth = Len(redis.items) /\ adapter'.previous = adapter.previous
        /\ adapter'.previousAt = adapter.previousAt /\ adapter'.at = grown
    BY <1>1, <1>3 DEF FetchDepth, AdapterType
  <2>. QED
    BY <1>1, <1>3, <2>1 DEF FetchDepth, AdapterStep
<1>4. CASE CollectStats
  <2>. DEFINE p == IF redis.seeded THEN <<redis.stats>> ELSE adapter.previous
  <2>1. p \in Seq(StatsType)
    BY <1>1
  <2>2. adapter' = [NoAdapter EXCEPT !.previousAt = adapter.at, !.previous = p]
    BY <1>4 DEF CollectStats
  <2>. HIDE DEF p
  <2>3. /\ adapter' \in AdapterType /\ adapter'.depth = 0 /\ adapter'.previous = p
        /\ adapter'.previousAt = adapter.at /\ adapter'.at = NoStats
    BY <1>1, <1>2, <2>1, <2>2 DEF AdapterType
  <2>. QED
    BY <1>1, <1>4, <2>3 DEF CollectStats, AdapterStep, p
<1>5. CASE FetchFails
  <2>1. failures' \in 0..MaxFailures
    BY <1>1, <1>5 DEF FetchFails
  <2>2. CASE adapter' = NoAdapter
    BY <1>2, <1>5, <2>1, <2>2 DEF FetchFails, AdapterStep
  <2>3. CASE adapter' = [adapter EXCEPT !.pc = "idle", !.depth = 0, !.at = NoStats]
    <3>1. /\ adapter' \in AdapterType /\ adapter'.depth = 0 /\ adapter'.previous = adapter.previous
          /\ adapter'.previousAt = adapter.previousAt /\ adapter'.at = NoStats
      BY <1>1, <2>3 DEF AdapterType
    <3>. QED
      BY <1>5, <2>1, <3>1 DEF FetchFails, AdapterStep
  <2>. QED
    BY <1>5, <2>2, <2>3 DEF FetchFails
<1>. QED
  BY <1>3, <1>4, <1>5

-----------------------------------------------------------------------------
(* Every step keeps the shape of the state.                                *)

LEMMA ItemsStep ==
    ASSUME CountsOK, made' \in Nat, faultItems' \in Nat, made <= made', faultItems <= faultItems'
    PROVE  Items \subseteq Items'
<1>1. made \in Nat /\ faultItems \in Nat
  BY ItemsGrow
<1>2. 1..made \subseteq 1..made' /\ 1..faultItems \subseteq 1..faultItems'
  BY <1>1
<1>. QED
  BY <1>2 DEF Items

LEMMA ItemsSame == UNCHANGED <<made, faultItems>> => Items' = Items
  BY DEF Items

\* A task changes to one that is in order, and the others are as they were.
LEMMA GoesTyped ==
    ASSUME Typed, UNCHANGED <<kind, made, faultItems>>, NEW c \in Consumers,
           NEW pc, NEW batch, NEW cursor, NEW from, NEW first, Goes(c, pc, batch, cursor, from, first),
           ToSet(batch) \subseteq Items, Len(batch) <= ReadCount, batch # <<>> <=> pc = "work",
           cursor \in 0..made, from \in 0..made, first \in 0..made,
           kind = "list" => pc # "blocked" /\ Len(batch) <= 1,
           kind = "stream" /\ c # Reader => pc = "read"
    PROVE  TasksOK'
<1>1. Items' = Items /\ Reader' = Reader
  BY ItemsSame DEF Reader
<1>2. tasks' \in [Consumers -> TaskType]
  BY DEF Goes
<1>3. ASSUME NEW d \in Consumers
      PROVE  /\ ToSet(tasks'[d].batch) \subseteq Items /\ Len(tasks'[d].batch) <= ReadCount
             /\ (tasks'[d].batch # <<>>) <=> tasks'[d].pc = "work"
             /\ {tasks'[d].cursor, tasks'[d].from, tasks'[d].first} \subseteq 0..made
             /\ kind = "list" => tasks'[d].pc # "blocked" /\ Len(tasks'[d].batch) <= 1
             /\ kind = "stream" /\ d # Reader => tasks'[d].pc = "read"
  <2>1. CASE d = c
    BY <2>1 DEF Goes
  <2>2. CASE d # c
    BY <2>2 DEF Goes, Typed, TasksOK
  <2>. QED
    BY <2>1, <2>2
<1>. QED
  BY <1>1, <1>2, <1>3 DEF TasksOK

LEMMA TasksKept ==
    ASSUME Typed, UNCHANGED <<kind, tasks>>, Items \subseteq Items', made' \in Nat, made <= made'
    PROVE  TasksOK'
<1>1. 0..made \subseteq 0..made' /\ Reader' = Reader
  BY ItemsGrow DEF Typed, Reader
<1>. QED
  BY <1>1 DEF Typed, TasksOK

LEMMA HoldsTyped ==
    ASSUME Typed, NEW items, NEW d, Holds(items, d), Items \subseteq Items', ToSet(items) \subseteq Items'
    PROVE  RedisOK'
  BY DEF Holds, Typed, RedisOK

LEMMA RedisKept ==
    ASSUME Typed, UNCHANGED <<redis, disk>>, Items \subseteq Items'
    PROVE  RedisOK'
  BY DEF Typed, RedisOK

LEMMA TypedStep ==
    ASSUME Typed, grown \in StatsType, adapter \in AdapterType, [Next]_vars
    PROVE  Typed'
<1>. USE DEF vars, workVars, redisVars
<1>1. /\ made \in Nat /\ faultItems \in Nat /\ MaxItems \in Nat /\ made + faultItems <= MaxItems
      /\ failures \in Nat /\ MaxFailures \in Nat /\ failures <= MaxFailures /\ ReadCount \in Nat \ {0}
      /\ redis.items \in Seq(Int) /\ ToSet(redis.items) \subseteq Items /\ ToSet(disk.items) \subseteq Items
  BY WorkloadAssumption DEF Typed, CountsOK, RedisOK, RedisType
<1>2. ASSUME Produce PROVE Typed'
  <2>1. /\ made + faultItems < MaxItems /\ producer' \in {"up", "dead"} /\ failures' \in 0..MaxFailures
        /\ Push \/ UNCHANGED <<made, redis, disk, grown, gone>>
        /\ UNCHANGED <<kind, tasks, rows, adapter, faultItems, handled, again, lost, forgot>>
    BY <1>2, ProduceFacts
  <2>2. made' \in {made, made + 1}
    BY <2>1 DEF Push
  <2>3. CountsOK'
    <3>1. made' \in 0..MaxItems /\ faultItems' \in 0..(MaxItems - made')
      BY <1>1, <2>1, <2>2
    <3>. QED
      BY <2>1, <3>1 DEF Typed, CountsOK
  <2>4. Items \subseteq Items' /\ made' \in Nat /\ made <= made'
    BY <1>1, <2>1, <2>2, ItemsStep DEF Typed
  <2>5. TasksOK'
    BY <2>1, <2>4, TasksKept
  <2>6. RedisOK' /\ HistoryOK'
    <3>1. CASE UNCHANGED <<made, redis, disk, grown, gone>>
      BY <2>1, <2>4, <3>1, RedisKept DEF HistoryOK, Typed
    <3>2. CASE Push
      <4>1. PICK items \in Pushed(made + 1) :
               Holds(items, Produced) /\ gone' = gone \cup (ToSet(redis.items) \ ToSet(items))
        BY <3>2, PushFacts
      <4>2. ToSet(items) \subseteq ToSet(redis.items) \cup {made + 1}
        BY PushedFacts
      <4>3. made + 1 \in Items'
        <5>1. made' = made + 1 /\ made' \in 1..made'
          BY <1>1, <3>2 DEF Push
        <5>. QED
          BY <5>1 DEF Items
      <4>4. RedisOK'
        BY <1>1, <2>4, <4>1, <4>2, <4>3, HoldsTyped
      <4>5. HistoryOK'
        BY <1>1, <2>1, <2>4, <4>1 DEF HistoryOK, Typed
      <4>. QED
        BY <4>4, <4>5
    <3>. QED
      BY <2>1, <3>1, <3>2
  <2>. QED
    BY <2>3, <2>5, <2>6 DEF Typed
<1>3. ASSUME Backlog PROVE Typed'
  <2>1. /\ kind = "list"
        /\ \/ /\ made + faultItems < MaxItems /\ faultItems' = faultItems + 1 /\ gone' = gone
              /\ Holds(Append(redis.items, -(faultItems + 1)), NoStats)
           \/ \E n \in DOMAIN redis.items :
              /\ faultItems' = faultItems /\ redis.items[n] < 0
              /\ Holds(RemoveAt(redis.items, n), NoStats) /\ gone' = gone \cup {redis.items[n]}
        /\ UNCHANGED <<kind, producer, tasks, rows, adapter, made, grown, handled, again, lost, forgot, failures>>
    BY <1>3, BacklogFacts
  <2>2. faultItems' = faultItems \/ (faultItems' = faultItems + 1 /\ made + faultItems < MaxItems)
    BY <2>1
  <2>3. CountsOK'
    BY <1>1, <2>1, <2>2 DEF Typed, CountsOK
  <2>4. Items \subseteq Items' /\ made' \in Nat /\ made <= made'
    BY <1>1, <2>1, <2>2, ItemsStep DEF Typed
  <2>5. TasksOK'
    BY <2>1, <2>4, TasksKept
  <2>6. RedisOK' /\ HistoryOK'
    <3>1. CASE /\ faultItems' = faultItems + 1 /\ gone' = gone
               /\ Holds(Append(redis.items, -(faultItems + 1)), NoStats)
      <4>1. -(faultItems + 1) \in Int /\ -(faultItems + 1) \in Items'
        <5>1. faultItems + 1 \in 1..faultItems'
          BY <1>1, <3>1
        <5>. QED
          BY <1>1, <5>1 DEF Items
      <4>2. ToSet(Append(redis.items, -(faultItems + 1))) = ToSet(redis.items) \cup {-(faultItems + 1)}
        BY <1>1, <4>1, AppendFacts
      <4>3. RedisOK'
        BY <1>1, <2>4, <3>1, <4>1, <4>2, HoldsTyped
      <4>4. HistoryOK'
        BY <2>1, <2>4, <3>1 DEF HistoryOK, Typed
      <4>. QED
        BY <4>3, <4>4
    <3>2. ASSUME NEW n \in DOMAIN redis.items,
                 Holds(RemoveAt(redis.items, n), NoStats), gone' = gone \cup {redis.items[n]}
          PROVE  RedisOK' /\ HistoryOK'
      <4>1. ToSet(redis.items) = ToSet(RemoveAt(redis.items, n)) \cup {redis.items[n]}
        BY <1>1, RemoveFacts
      <4>2. RedisOK'
        BY <1>1, <2>4, <3>2, <4>1, HoldsTyped
      <4>3. HistoryOK'
        BY <1>1, <2>1, <2>4, <3>2, <4>1 DEF HistoryOK, Typed
      <4>. QED
        BY <4>2, <4>3
    <3>. QED
      BY <2>1, <3>1, <3>2
  <2>. QED
    BY <2>3, <2>5, <2>6 DEF Typed
<1>4. ASSUME NEW c \in Consumers, Blpop(c) PROVE Typed'
  <2>1. /\ kind = "list" /\ tasks[c].pc = "read" /\ redis.items # <<>>
        /\ Holds(Tail(redis.items), NoStats)
        /\ Goes(c, "work", <<Head(redis.items)>>, tasks[c].cursor, tasks[c].from, tasks[c].first)
        /\ UNCHANGED <<kind, producer, rows, adapter, made, faultItems, grown, handled, again, lost, gone, forgot, failures>>
    BY <1>4, BlpopFacts
  <2>2. Items' = Items
    BY <2>1, ItemsSame
  <2>3. CountsOK'
    BY <2>1 DEF Typed, CountsOK
  <2>4. ToSet(redis.items) = ToSet(Tail(redis.items)) \cup {Head(redis.items)} /\ Head(redis.items) \in Int
    BY <1>1, <2>1, TailFacts
  <2>5. TasksOK'
    <3>. DEFINE batch == <<Head(redis.items)>>
    <3>1. ToSet(batch) \subseteq Items /\ Len(batch) = 1 /\ batch # <<>>
      BY <1>1, <2>4, OneFacts
    <3>2. tasks[c].cursor \in 0..made /\ tasks[c].from \in 0..made /\ tasks[c].first \in 0..made
      BY DEF Typed, TasksOK
    <3>3. Len(batch) <= ReadCount /\ Len(batch) <= 1 /\ kind # "stream"
      BY <1>1, <2>1, <3>1
    <3>4. Goes(c, "work", batch, tasks[c].cursor, tasks[c].from, tasks[c].first)
      BY <2>1
    <3>. HIDE DEF batch
    <3>. QED
      BY <2>1, <3>1, <3>2, <3>3, <3>4, GoesTyped
  <2>6. RedisOK'
    BY <1>1, <2>1, <2>2, <2>4, HoldsTyped
  <2>7. HistoryOK'
    BY <2>1, <2>2 DEF Typed, HistoryOK
  <2>. QED
    BY <2>3, <2>5, <2>6, <2>7 DEF Typed
<1>5. ASSUME NEW c \in Consumers, XreadStarts(c) PROVE Typed'
  <2>1. /\ kind = "stream" /\ c = Reader /\ tasks[c].pc = "read"
        /\ Goes(c, "blocked", tasks[c].batch, tasks[c].cursor, From(tasks[c]), tasks[c].first)
        /\ UNCHANGED <<kind, producer, redis, disk, rows, adapter, made, faultItems, grown, handled, again, lost, gone, forgot, failures>>
    BY <1>5, XreadStartsFacts
  <2>2. Items' = Items
    BY <2>1, ItemsSame
  <2>3. /\ tasks[c].batch = <<>> /\ tasks[c].cursor \in 0..made /\ From(tasks[c]) \in 0..made /\ tasks[c].first \in 0..made
        /\ ToSet(tasks[c].batch) \subseteq Items /\ Len(tasks[c].batch) <= ReadCount
    BY <1>1, <2>1 DEF Typed, TasksOK, From
  <2>4. TasksOK'
    BY <2>1, <2>3, GoesTyped
  <2>. QED
    BY <2>1, <2>2, <2>4 DEF Typed, CountsOK, RedisOK, HistoryOK
<1>6. ASSUME NEW c \in Consumers, XreadAnswers(c) PROVE Typed'
  <2>1. /\ kind = "stream" /\ c = Reader /\ tasks[c].pc = "blocked" /\ tasks[c].batch = <<>>
        /\ \/ Goes(c, "read", <<>>, tasks[c].cursor, 0, tasks[c].first)
           \/ \E batch : /\ Answer(tasks[c].from, batch) /\ batch[1] \in Nat
                         /\ Goes(c, "work", batch, batch[1], 0, IF tasks[c].first = 0 THEN batch[1] ELSE tasks[c].first)
        /\ UNCHANGED <<kind, producer, redis, disk, rows, adapter, made, faultItems, grown, handled, again, lost, gone, forgot, failures>>
    BY <1>6, XreadAnswersFacts
  <2>2. Items' = Items /\ Items = 1..made
    BY <2>1, ItemsSame, StreamItems DEF Typed
  <2>3. tasks[c].cursor \in 0..made /\ tasks[c].first \in 0..made /\ 0 \in 0..made
    BY <1>1 DEF Typed, TasksOK
  <2>4. TasksOK'
    <3>1. CASE Goes(c, "read", <<>>, tasks[c].cursor, 0, tasks[c].first)
      <4>1. ToSet(<<>>) \subseteq Items /\ Len(<<>>) <= ReadCount
        BY <1>1 DEF ToSet
      <4>. QED
        BY <2>1, <2>3, <3>1, <4>1, GoesTyped
    <3>2. ASSUME NEW batch, Answer(tasks[c].from, batch),
                 Goes(c, "work", batch, batch[1], 0, IF tasks[c].first = 0 THEN batch[1] ELSE tasks[c].first)
          PROVE  TasksOK'
      <4>1. batch \in Seq(Int) /\ batch # <<>> /\ Len(batch) <= ReadCount /\ ToSet(batch) \subseteq Items
        BY <1>1, <3>2 DEF Answer
      <4>2. batch[1] \in 1..made
        BY <2>2, <4>1, TailFacts
      <4>3. batch[1] \in 0..made
        BY <1>1, <4>2
      <4>4. (IF tasks[c].first = 0 THEN batch[1] ELSE tasks[c].first) \in 0..made
        BY <2>3, <4>3
      <4>. QED
        BY <2>1, <2>3, <3>2, <4>1, <4>3, <4>4, GoesTyped
    <3>. QED
      BY <2>1, <3>1, <3>2
  <2>. QED
    BY <2>1, <2>2, <2>4 DEF Typed, CountsOK, RedisOK, HistoryOK
<1>7. ASSUME NEW c \in Consumers, ReadFails(c) PROVE Typed'
  <2>1. /\ tasks[c].batch = <<>> /\ failures < MaxFailures /\ failures' = failures + 1
        /\ Goes(c, "dead", <<>>, 0, 0, 0)
        /\ \/ UNCHANGED <<redis, disk, lost>>
           \/ /\ kind = "list" /\ redis.items # <<>>
              /\ Holds(Tail(redis.items), NoStats) /\ lost' = lost \cup {Head(redis.items)}
        /\ UNCHANGED <<kind, producer, rows, adapter, made, faultItems, grown, handled, again, gone, forgot>>
    BY <1>7, ReadFailsFacts
  <2>2. Items' = Items
    BY <2>1, ItemsSame
  <2>3. CountsOK'
    BY <1>1, <2>1 DEF Typed, CountsOK
  <2>4. TasksOK'
    <3>1. ToSet(<<>>) \subseteq Items /\ Len(<<>>) = 0 /\ 0 \in 0..made /\ 0 <= ReadCount /\ 0 <= 1
      BY <1>1 DEF ToSet
    <3>2. kind = "stream" => c = Reader
      BY <1>7 DEF ReadFails, Readers, Reader
    <3>. QED
      BY <2>1, <3>1, <3>2, GoesTyped
  <2>5. RedisOK' /\ HistoryOK'
    <3>1. CASE UNCHANGED <<redis, disk, lost>>
      BY <2>1, <2>2, <3>1 DEF Typed, RedisOK, HistoryOK
    <3>2. CASE /\ redis.items # <<>> /\ Holds(Tail(redis.items), NoStats) /\ lost' = lost \cup {Head(redis.items)}
      <4>1. ToSet(redis.items) = ToSet(Tail(redis.items)) \cup {Head(redis.items)}
        BY <1>1, <3>2, TailFacts
      <4>2. RedisOK'
        BY <1>1, <2>2, <3>2, <4>1, HoldsTyped
      <4>3. HistoryOK'
        BY <1>1, <2>1, <2>2, <3>2, <4>1 DEF Typed, HistoryOK
      <4>. QED
        BY <4>2, <4>3
    <3>. QED
      BY <2>1, <3>1, <3>2
  <2>. QED
    BY <2>3, <2>4, <2>5 DEF Typed
<1>8. ASSUME NEW c \in Consumers, Work(c) PROVE Typed'
  <2>. DEFINE id == tasks[c].batch[1]
             rest == Tail(tasks[c].batch)
  <2>1. /\ tasks[c].pc = "work"
        /\ Goes(c, IF rest = <<>> THEN "read" ELSE "work", rest,
                IF rest = <<>> THEN tasks[c].cursor ELSE rest[1], tasks[c].from, tasks[c].first)
        /\ failures' \in 0..MaxFailures
        /\ \E ok \in BOOLEAN : /\ Holds(redis.items, Consumed(ok)) \/ UNCHANGED <<redis, disk, grown>>
                               /\ rows' \in {rows, rows \cup {id}} /\ (ok => rows' = rows \cup {id})
        /\ handled' = handled \cup {id} /\ again' = again \cup (handled \cap {id})
        /\ UNCHANGED <<kind, producer, adapter, made, faultItems, lost, gone, forgot>>
    BY <1>8, WorkFacts
  <2>2. /\ id \in Items /\ tasks[c].batch \in Seq(Int) /\ tasks[c].batch # <<>> /\ rest \in Seq(Int) /\ ToSet(rest) \subseteq Items
        /\ (rest # <<>> => rest[1] \in 1..made) /\ (kind = "stream" => c = Reader) /\ Len(tasks[c].batch) <= ReadCount
        /\ (rest # <<>> => kind = "stream")
    BY <2>1, BatchFacts
  <2>3. Len(rest) = Len(tasks[c].batch) - 1 /\ Len(rest) \in Nat
    BY <2>2, TailFacts
  <2>4. tasks[c].cursor \in 0..made /\ tasks[c].from \in 0..made /\ tasks[c].first \in 0..made
        /\ (kind = "list" => Len(tasks[c].batch) <= 1)
    BY DEF Typed, TasksOK
  <2>5. Items' = Items
    BY <2>1, ItemsSame
  <2>. HIDE DEF id, rest
  <2>6. CountsOK'
    BY <2>1 DEF Typed, CountsOK
  <2>7. TasksOK'
    <3>. DEFINE pc == IF rest = <<>> THEN "read" ELSE "work"
               cursor == IF rest = <<>> THEN tasks[c].cursor ELSE rest[1]
    <3>1. Len(rest) <= ReadCount /\ (kind = "list" => Len(rest) <= 1)
      BY <1>1, <2>2, <2>3, <2>4
    <3>2. pc # "blocked" /\ (rest # <<>> <=> pc = "work")
      OBVIOUS
    <3>3. cursor \in 0..made
      BY <1>1, <2>2, <2>4
    <3>4. Goes(c, pc, rest, cursor, tasks[c].from, tasks[c].first)
      BY <2>1
    <3>. HIDE DEF pc, cursor
    <3>. QED
      BY <2>1, <2>2, <2>4, <3>1, <3>2, <3>3, <3>4, GoesTyped
  <2>8. RedisOK'
    <3>1. PICK ok \in BOOLEAN : Holds(redis.items, Consumed(ok)) \/ UNCHANGED <<redis, disk, grown>>
      BY <2>1
    <3>. QED
      BY <1>1, <2>5, <3>1, HoldsTyped, RedisKept
  <2>9. HistoryOK'
    <3>1. rows' \in {rows, rows \cup {id}}
      BY <2>1
    <3>. QED
      BY <2>1, <2>2, <2>5, <3>1 DEF Typed, HistoryOK
  <2>. QED
    BY <2>6, <2>7, <2>8, <2>9 DEF Typed
<1>9. ASSUME NEW c \in Consumers, Restart(c) PROVE Typed'
  <2>1. /\ kind = "stream" => c = Reader
        /\ failures < MaxFailures /\ failures' = failures + 1
        /\ Goes(c, "read", <<>>, 0, 0, 0)
        /\ \/ UNCHANGED <<redis, disk, grown>>
           \/ tasks[c].pc = "work" /\ Holds(redis.items, Consumed(FALSE))
        /\ \/ UNCHANGED rows
           \/ tasks[c].pc = "work" /\ rows' = rows \cup {tasks[c].batch[1]}
        /\ lost' = lost \cup ToSet(tasks[c].batch)
        /\ UNCHANGED <<kind, producer, adapter, made, faultItems, handled, again, gone, forgot>>
    BY <1>9, RestartFacts
  <2>2. Items' = Items
    BY <2>1, ItemsSame
  <2>3. CountsOK'
    BY <1>1, <2>1 DEF Typed, CountsOK
  <2>4. TasksOK'
    <3>1. ToSet(<<>>) \subseteq Items /\ Len(<<>>) = 0 /\ 0 \in 0..made /\ 0 <= ReadCount /\ 0 <= 1
      BY <1>1 DEF ToSet
    <3>. QED
      BY <2>1, <3>1, GoesTyped
  <2>5. RedisOK'
    BY <1>1, <2>1, <2>2, HoldsTyped, RedisKept
  <2>6. HistoryOK'
    <3>1. ToSet(tasks[c].batch) \subseteq Items /\ (tasks[c].pc = "work" => tasks[c].batch[1] \in Items)
      BY BatchFacts DEF Typed, TasksOK
    <3>. QED
      BY <2>1, <2>2, <3>1 DEF Typed, HistoryOK
  <2>. QED
    BY <2>3, <2>4, <2>5, <2>6 DEF Typed
<1>10. ASSUME RedisRestart PROVE Typed'
  <2>1. Items' = Items
    BY <1>10, ItemsSame DEF RedisRestart
  <2>2. CountsOK'
    BY <1>1, <1>10 DEF Typed, CountsOK, RedisRestart
  <2>3. TasksOK'
    BY <1>1, <1>10, <2>1, TasksKept DEF RedisRestart
  <2>4. RedisOK' /\ HistoryOK'
    BY <1>1, <1>10, <2>1 DEF Typed, RedisOK, HistoryOK, RedisRestart
  <2>. QED
    BY <2>2, <2>3, <2>4 DEF Typed
<1>11. ASSUME FetchDepth \/ CollectStats \/ FetchFails PROVE Typed'
  <2>1. AdapterStep
    BY <1>11, AdapterFacts
  <2>2. Items' = Items
    BY <2>1, ItemsSame DEF AdapterStep
  <2>3. TasksOK'
    BY <1>1, <2>1, <2>2, TasksKept DEF AdapterStep
  <2>. QED
    BY <2>1, <2>2, <2>3 DEF AdapterStep, Typed, CountsOK, RedisOK, HistoryOK
<1>12. ASSUME UNCHANGED vars PROVE Typed'
  <2>1. Items' = Items
    BY <1>12, ItemsSame
  <2>2. TasksOK'
    BY <1>1, <1>12, <2>1, TasksKept
  <2>. QED
    BY <1>12, <2>1, <2>2 DEF Typed, CountsOK, RedisOK, HistoryOK
<1>. QED
  BY <1>2, <1>3, <1>4, <1>5, <1>6, <1>7, <1>8, <1>9, <1>10, <1>11, <1>12 DEF Next

-----------------------------------------------------------------------------
(* The adapter's memory and the statistics.                                *)

\* The counters grow with what Redis was told, whatever else the step does.
LEMMA StatsStep ==
    ASSUME Typed, StatsOK, [Next]_vars
    PROVE  StatsOK'
<1>1. grown \in StatsType /\ adapter \in AdapterType /\ redis.stats \in StatsType /\ disk.stats \in StatsType
  BY DEF StatsOK, Typed, RedisOK, RedisType
<1>2. /\ adapter.previous \in Seq(StatsType) /\ adapter.at \in StatsType /\ adapter.previousAt \in StatsType
      /\ adapter.previous # <<>> => adapter.previous[1] \in StatsType
  BY <1>1 DEF AdapterType
<1>3. \A s \in Statistics : /\ redis.stats[s] \in Nat /\ disk.stats[s] \in Nat /\ grown[s] \in Nat
                            /\ adapter.at[s] \in Nat /\ adapter.previousAt[s] \in Nat
                            /\ adapter.previous # <<>> => adapter.previous[1][s] \in Nat
  BY <1>1, <1>2 DEF StatsType
<1>4. ASSUME NEW items, NEW d \in StatsType, Holds(items, d), adapter' = adapter PROVE StatsOK'
  <2>1. grown' \in StatsType /\ disk' = redis
    BY <1>4 DEF Holds
  <2>2. ASSUME NEW s \in Statistics
        PROVE  /\ disk'.stats[s] <= redis'.stats[s]
               /\ ~redis'.seeded => redis'.stats[s] = 0
               /\ ~disk'.seeded => disk'.stats[s] = 0
               /\ adapter.at[s] <= grown'[s] /\ adapter.previousAt[s] <= grown'[s]
               /\ adapter.previous # <<>> =>
                     redis'.stats[s] - adapter.previous[1][s] <= grown'[s] - adapter.previousAt[s]
    <3>1. redis'.stats[s] = redis.stats[s] + d[s] /\ grown'[s] = grown[s] + d[s] /\ d[s] \in Nat
      BY <1>4 DEF Holds, StatsType
    <3>2. ~redis'.seeded => d[s] = 0 /\ ~redis.seeded
      BY <1>4, StatsValues DEF Holds
    <3>3. /\ ~redis.seeded => redis.stats[s] = 0
          /\ adapter.at[s] <= grown[s] /\ adapter.previousAt[s] <= grown[s]
          /\ adapter.previous # <<>> =>
                redis.stats[s] - adapter.previous[1][s] <= grown[s] - adapter.previousAt[s]
      BY DEF StatsOK
    <3>. QED
      BY <1>3, <2>1, <3>1, <3>2, <3>3
  <2>. QED
    BY <1>1, <1>4, <2>1, <2>2 DEF StatsOK
<1>5. ASSUME UNCHANGED <<redis, disk, grown, adapter>> PROVE StatsOK'
  BY <1>5 DEF StatsOK
<1>6. ASSUME AdapterStep PROVE StatsOK'
  <2>1. UNCHANGED <<redis, disk, grown>> /\ adapter' \in AdapterType
    BY <1>6 DEF AdapterStep, workVars, redisVars
  <2>2. ASSUME NEW s \in Statistics
        PROVE  /\ adapter'.at[s] <= grown[s] /\ adapter'.previousAt[s] <= grown[s]
               /\ adapter'.previous # <<>> =>
                     redis.stats[s] - adapter'.previous[1][s] <= grown[s] - adapter'.previousAt[s]
    <3>1. /\ ~redis.seeded => redis.stats[s] = 0
          /\ adapter.at[s] <= grown[s] /\ adapter.previousAt[s] <= grown[s]
          /\ adapter.previous # <<>> =>
                redis.stats[s] - adapter.previous[1][s] <= grown[s] - adapter.previousAt[s]
      BY DEF StatsOK
    <3>2. NoStats[s] = 0
      BY StatsValues
    <3>3. CASE adapter'.previous = adapter.previous /\ adapter'.previousAt = adapter.previousAt /\ adapter'.at \in {NoStats, grown}
      BY <1>3, <3>1, <3>2, <3>3
    <3>4. CASE adapter'.previous = adapter.previous /\ adapter'.previousAt = adapter.at /\ adapter'.at = NoStats /\ ~redis.seeded
      BY <1>3, <3>1, <3>2, <3>4
    <3>5. CASE adapter'.previous = <<redis.stats>> /\ adapter'.previousAt = adapter.at /\ adapter'.at = NoStats
      <4>1. adapter'.previous[1] = redis.stats
        BY <3>5
      <4>. QED
        BY <1>3, <3>1, <3>2, <3>5, <4>1
    <3>6. CASE adapter'.previous = <<>> /\ adapter'.previousAt = NoStats /\ adapter'.at = NoStats
      BY <1>3, <3>1, <3>2, <3>6
    <3>. QED
      BY <1>6, <3>3, <3>4, <3>5, <3>6 DEF AdapterStep
  <2>. QED
    BY <1>1, <2>1, <2>2 DEF StatsOK
<1>7. ASSUME RedisRestart PROVE StatsOK'
  <2>1. redis' = disk /\ UNCHANGED <<disk, grown, adapter>>
    BY <1>7 DEF RedisRestart, workVars
  <2>2. ASSUME NEW s \in Statistics
        PROVE  /\ disk.stats[s] <= disk.stats[s]
               /\ adapter.previous # <<>> =>
                     disk.stats[s] - adapter.previous[1][s] <= grown[s] - adapter.previousAt[s]
    BY <1>3 DEF StatsOK
  <2>. QED
    BY <2>1, <2>2 DEF StatsOK
<1>8. /\ NoStats \in StatsType /\ Produced \in StatsType
      /\ \A ok \in BOOLEAN : Consumed(ok) \in StatsType
  BY StatsValues
<1>9. ASSUME Produce PROVE StatsOK'
  <2>1. adapter' = adapter /\ (Push \/ UNCHANGED <<redis, disk, grown>>)
    BY <1>1, <1>9, ProduceFacts
  <2>2. Push => \E items : Holds(items, Produced)
    BY <1>1, PushFacts
  <2>. QED
    BY <1>4, <1>5, <1>8, <2>1, <2>2
<1>10. ASSUME Backlog PROVE StatsOK'
  <2>1. adapter' = adapter /\ \E items : Holds(items, NoStats)
    BY <1>1, <1>10, BacklogFacts
  <2>. QED
    BY <1>4, <1>8, <2>1
<1>11. ASSUME NEW c \in Consumers, Blpop(c) PROVE StatsOK'
  <2>1. adapter' = adapter /\ Holds(Tail(redis.items), NoStats)
    BY <1>1, <1>11, BlpopFacts
  <2>. QED
    BY <1>4, <1>8, <2>1
<1>12. ASSUME NEW c \in Consumers, XreadStarts(c) \/ XreadAnswers(c) PROVE StatsOK'
  BY <1>5, <1>12 DEF XreadStarts, XreadAnswers, redisVars
<1>13. ASSUME NEW c \in Consumers, ReadFails(c) PROVE StatsOK'
  <2>1. /\ UNCHANGED <<adapter, grown>>
        /\ UNCHANGED <<redis, disk>> \/ Holds(Tail(redis.items), NoStats)
    BY <1>1, <1>13, ReadFailsFacts
  <2>. QED
    BY <1>4, <1>5, <1>8, <2>1
<1>14. ASSUME NEW c \in Consumers, Work(c) PROVE StatsOK'
  <2>1. /\ adapter' = adapter
        /\ \E ok \in BOOLEAN : Holds(redis.items, Consumed(ok)) \/ UNCHANGED <<redis, disk, grown>>
    BY <1>1, <1>14, WorkFacts
  <2>. QED
    BY <1>4, <1>5, <1>8, <2>1
<1>15. ASSUME NEW c \in Consumers, Restart(c) PROVE StatsOK'
  <2>1. /\ adapter' = adapter
        /\ UNCHANGED <<redis, disk, grown>> \/ Holds(redis.items, Consumed(FALSE))
    BY <1>1, <1>15, RestartFacts
  <2>. QED
    BY <1>4, <1>5, <1>8, <2>1
<1>16. ASSUME FetchDepth \/ CollectStats \/ FetchFails PROVE StatsOK'
  BY <1>1, <1>6, <1>16, AdapterFacts
<1>17. ASSUME UNCHANGED vars PROVE StatsOK'
  BY <1>5, <1>17 DEF vars, workVars, redisVars
<1>. QED
  BY <1>7, <1>9, <1>10, <1>11, <1>12, <1>13, <1>14, <1>15, <1>16, <1>17 DEF Next

-----------------------------------------------------------------------------
(* The list.                                                               *)

LEMMA KindKept ==
    ASSUME [Next]_vars
    PROVE  kind' = kind /\ (forgot' = forgot \/ RedisRestart)
<1>. USE DEF vars, workVars
<1>1. Produce \/ Backlog => UNCHANGED <<kind, forgot>>
  BY DEF Produce, Backlog
<1>2. ASSUME NEW c \in Consumers, \/ Blpop(c) \/ XreadStarts(c) \/ XreadAnswers(c) \/ ReadFails(c)
                                  \/ Work(c) \/ Restart(c)
      PROVE  UNCHANGED <<kind, forgot>>
  BY <1>2 DEF Blpop, XreadStarts, XreadAnswers, ReadFails, Work, Restart
<1>3. RedisRestart => kind' = kind
  BY DEF RedisRestart
<1>4. FetchDepth \/ CollectStats \/ FetchFails => UNCHANGED <<kind, forgot>>
  BY DEF FetchDepth, CollectStats, FetchFails
<1>. QED
  BY <1>1, <1>2, <1>3, <1>4 DEF Next

LEMMA ListStep ==
    ASSUME Typed, StatsOK, ListOK, [Next]_vars
    PROVE  ListOK'
<1>. SUFFICES ASSUME kind' = "list", ~forgot'
              PROVE  OnePlace' /\ Distinct(redis'.items) /\ again' = {}
  BY DEF ListOK
<1>. USE DEF vars, workVars, redisVars
<1>1. kind = "list" /\ ~forgot /\ ~RedisRestart
  <2>1. RedisRestart => forgot'
    BY Zenon DEF RedisRestart
  <2>2. ~RedisRestart
    BY <2>1
  <2>3. kind' = kind /\ forgot' = forgot
    BY <2>2, KindKept
  <2>. QED
    BY <2>2, <2>3, Zenon
<1>2. OnePlace /\ Distinct(redis.items) /\ again = {}
  BY <1>1 DEF ListOK
<1>3. /\ redis.items \in Seq(Int) /\ ToSet(redis.items) \subseteq Items /\ grown \in StatsType /\ adapter \in AdapterType
      /\ handled \subseteq Items /\ lost \subseteq Items /\ gone \subseteq Items
      /\ \A c \in Consumers : ToSet(tasks[c].batch) \subseteq Items
      /\ made \in Nat /\ faultItems \in Nat
  BY ItemsGrow DEF Typed, RedisOK, RedisType, HistoryOK, TasksOK, StatsOK
<1>4. ASSUME NEW x \in Int, Items' = Items \cup {x}, x \notin Items, redis'.items = Append(redis.items, x),
             UNCHANGED <<tasks, handled, again, lost, gone>>
      PROVE  OnePlace' /\ Distinct(redis'.items) /\ again' = {}
  <2>1. ToSet(redis'.items) = ToSet(redis.items) \cup {x} /\ Distinct(redis'.items)
    BY <1>2, <1>3, <1>4, AppendFacts
  <2>2. \A id \in Items' : \/ id \in ToSet(redis'.items) \/ id \in handled' \/ id \in lost' \/ id \in gone'
                           \/ \E c \in Consumers : id \in ToSet(tasks'[c].batch)
    BY <1>2, <1>4, <2>1 DEF OnePlace
  <2>3. ToSet(redis'.items) \cap (handled' \cup lost' \cup gone') = {}
    BY <1>2, <1>3, <1>4, <2>1 DEF OnePlace
  <2>4. ASSUME NEW c \in Consumers PROVE ToSet(tasks'[c].batch) \cap (handled' \cup lost' \cup gone' \cup ToSet(redis'.items)) = {}
    BY <1>2, <1>3, <1>4, <2>1 DEF OnePlace
  <2>. QED
    BY <1>2, <1>4, <2>1, <2>2, <2>3, <2>4 DEF OnePlace
<1>5. ASSUME Produce PROVE OnePlace' /\ Distinct(redis'.items) /\ again' = {}
  <2>1. /\ Push \/ UNCHANGED <<made, redis, disk, grown, gone>>
        /\ UNCHANGED <<kind, tasks, rows, adapter, faultItems, handled, again, lost, forgot>>
    BY <1>3, <1>5, ProduceFacts
  <2>2. CASE UNCHANGED <<made, redis, disk, grown, gone>>
    BY <1>2, <2>1, <2>2, ItemsSame DEF OnePlace
  <2>3. CASE Push
    <3>1. PICK items \in Pushed(made + 1) : Holds(items, Produced) /\ gone' = gone \cup (ToSet(redis.items) \ ToSet(items))
      BY <1>3, <2>3, PushFacts
    <3>2. items = Append(redis.items, made + 1) /\ made + 1 \in Int
      BY <1>1, <1>3, PushedFacts
    <3>3. gone' = gone /\ redis'.items = Append(redis.items, made + 1)
      BY <1>3, <3>1, <3>2, AppendFacts DEF Holds
    <3>4. Items' = Items \cup {made + 1}
      <4>1. made' = made + 1 /\ 1..(made + 1) = (1..made) \cup {made + 1}
        BY <1>3, <2>3 DEF Push
      <4>. QED
        BY <2>1, <4>1 DEF Items
    <3>5. made + 1 \notin Items
      <4>1. made + 1 \notin 1..made /\ -(made + 1) \notin 1..faultItems
        BY <1>3
      <4>. QED
        BY <4>1, ItemsGrow DEF Typed
    <3>. QED
      BY <1>4, <2>1, <3>2, <3>3, <3>4, <3>5
  <2>. QED
    BY <2>1, <2>2, <2>3
<1>6. ASSUME Backlog PROVE OnePlace' /\ Distinct(redis'.items) /\ again' = {}
  <2>1. /\ \/ /\ faultItems' = faultItems + 1 /\ gone' = gone
              /\ Holds(Append(redis.items, -(faultItems + 1)), NoStats)
           \/ \E n \in DOMAIN redis.items :
              /\ faultItems' = faultItems
              /\ Holds(RemoveAt(redis.items, n), NoStats) /\ gone' = gone \cup {redis.items[n]}
        /\ UNCHANGED <<kind, tasks, made, handled, again, lost, forgot>>
    BY <1>3, <1>6, BacklogFacts
  <2>2. CASE faultItems' = faultItems + 1 /\ gone' = gone /\ Holds(Append(redis.items, -(faultItems + 1)), NoStats)
    <3>. DEFINE x == -(faultItems + 1)
    <3>1. x \in Int /\ redis'.items = Append(redis.items, x)
      BY <1>3, <2>2 DEF Holds
    <3>2. Items' = Items \cup {x}
      <4>1. 1..faultItems' = (1..faultItems) \cup {faultItems + 1}
        BY <1>3, <2>2
      <4>. QED
        BY <2>1, <4>1 DEF Items
    <3>3. x \notin Items
      <4>1. x \notin 1..made /\ -x \notin 1..faultItems
        BY <1>3
      <4>. QED
        BY <4>1, ItemsGrow DEF Typed
    <3>. HIDE DEF x
    <3>. QED
      BY <1>4, <2>1, <2>2, <3>1, <3>2, <3>3
  <2>3. ASSUME NEW n \in DOMAIN redis.items, faultItems' = faultItems,
               Holds(RemoveAt(redis.items, n), NoStats), gone' = gone \cup {redis.items[n]}
        PROVE  OnePlace' /\ Distinct(redis'.items) /\ again' = {}
    <3>1. Items' = Items
      BY <2>1, <2>3, ItemsSame
    <3>2. /\ ToSet(redis.items) = ToSet(redis'.items) \cup {redis.items[n]} /\ redis.items[n] \notin ToSet(redis'.items)
          /\ Distinct(redis'.items)
      BY <1>2, <1>3, <2>3, RemoveFacts DEF Holds
    <3>3. OnePlace'
      BY <1>2, <2>1, <2>3, <3>1, <3>2 DEF OnePlace
    <3>. QED
      BY <1>2, <2>1, <3>2, <3>3
  <2>. QED
    BY <2>1, <2>2, <2>3
<1>7. ASSUME redis.items # <<>>, redis'.items = Tail(redis.items)
      PROVE  /\ ToSet(redis.items) = ToSet(redis'.items) \cup {Head(redis.items)}
             /\ Head(redis.items) \notin ToSet(redis'.items) /\ Head(redis.items) \in Int
             /\ Distinct(redis'.items)
  BY <1>2, <1>3, <1>7, TailFacts
<1>8. ToSet(<<>>) = {}
  BY DEF ToSet
<1>9. ASSUME NEW c \in Consumers, Blpop(c) PROVE OnePlace' /\ Distinct(redis'.items) /\ again' = {}
  <2>1. /\ tasks[c].pc = "read" /\ redis.items # <<>>
        /\ redis'.items = Tail(redis.items)
        /\ Goes(c, "work", <<Head(redis.items)>>, tasks[c].cursor, tasks[c].from, tasks[c].first)
        /\ UNCHANGED <<made, faultItems, handled, again, lost, gone>>
    BY <1>3, <1>9, BlpopFacts DEF Holds
  <2>2. ToSet(tasks[c].batch) = {}
    <3>1. tasks[c].batch = <<>>
      BY <2>1 DEF Typed, TasksOK
    <3>. QED
      BY <1>8, <3>1
  <2>3. ToSet(tasks'[c].batch) = {Head(redis.items)} /\ \A d \in Consumers : d # c => tasks'[d] = tasks[d]
    BY <1>7, <2>1, OneFacts DEF Goes
  <2>4. Items' = Items
    BY <2>1, ItemsSame
  <2>5. OnePlace'
    <3>1. \A id \in Items' : \/ id \in ToSet(redis'.items) \/ id \in handled' \/ id \in lost' \/ id \in gone'
                           \/ \E d \in Consumers : id \in ToSet(tasks'[d].batch)
      BY <1>2, <1>7, <2>1, <2>2, <2>3, <2>4 DEF OnePlace
    <3>2. /\ handled' \cap lost' = {} /\ handled' \cap gone' = {} /\ lost' \cap gone' = {}
          /\ ToSet(redis'.items) \cap (handled' \cup lost' \cup gone') = {}
      BY <1>2, <1>7, <2>1, <2>2, <2>3, <2>4 DEF OnePlace
    <3>3. ASSUME NEW d \in Consumers
          PROVE  ToSet(tasks'[d].batch) \cap (handled' \cup lost' \cup gone' \cup ToSet(redis'.items)) = {}
      BY <1>2, <1>7, <2>1, <2>2, <2>3, <2>4 DEF OnePlace
    <3>4. ASSUME NEW d \in Consumers, NEW e \in Consumers, d # e PROVE ToSet(tasks'[d].batch) \cap ToSet(tasks'[e].batch) = {}
      BY <1>2, <1>7, <2>1, <2>2, <2>3, <2>4, <3>4 DEF OnePlace
    <3>. QED
      BY <3>1, <3>2, <3>3, <3>4 DEF OnePlace
  <2>. QED
    BY <1>2, <1>7, <2>1, <2>5
<1>10. ASSUME NEW c \in Consumers, XreadStarts(c) \/ XreadAnswers(c) PROVE FALSE
  BY <1>1, <1>10, XreadStartsFacts, XreadAnswersFacts
<1>11. ASSUME NEW c \in Consumers, ReadFails(c) PROVE OnePlace' /\ Distinct(redis'.items) /\ again' = {}
  <2>1. /\ tasks[c].batch = <<>> /\ Goes(c, "dead", <<>>, 0, 0, 0)
        /\ \/ UNCHANGED <<redis, disk, lost>>
           \/ /\ redis.items # <<>> /\ redis'.items = Tail(redis.items) /\ lost' = lost \cup {Head(redis.items)}
        /\ UNCHANGED <<made, faultItems, handled, again, gone>>
    BY <1>3, <1>11, ReadFailsFacts DEF Holds
  <2>2. \A d \in Consumers : tasks'[d].batch = tasks[d].batch
    BY <2>1 DEF Goes
  <2>3. Items' = Items
    BY <2>1, ItemsSame
  <2>4. CASE UNCHANGED <<redis, disk, lost>>
    BY <1>2, <2>1, <2>2, <2>3, <2>4 DEF OnePlace
  <2>5. CASE redis.items # <<>> /\ redis'.items = Tail(redis.items) /\ lost' = lost \cup {Head(redis.items)}
    <3>1. OnePlace'
      <4>1. \A id \in Items' : \/ id \in ToSet(redis'.items) \/ id \in handled' \/ id \in lost' \/ id \in gone'
                             \/ \E d \in Consumers : id \in ToSet(tasks'[d].batch)
        BY <1>2, <1>7, <2>1, <2>2, <2>3, <2>5 DEF OnePlace
      <4>2. /\ handled' \cap lost' = {} /\ handled' \cap gone' = {} /\ lost' \cap gone' = {}
            /\ ToSet(redis'.items) \cap (handled' \cup lost' \cup gone') = {}
        BY <1>2, <1>7, <2>1, <2>2, <2>3, <2>5 DEF OnePlace
      <4>3. ASSUME NEW d \in Consumers
            PROVE  ToSet(tasks'[d].batch) \cap (handled' \cup lost' \cup gone' \cup ToSet(redis'.items)) = {}
        BY <1>2, <1>7, <2>1, <2>2, <2>3, <2>5 DEF OnePlace
      <4>4. ASSUME NEW d \in Consumers, NEW e \in Consumers, d # e PROVE ToSet(tasks'[d].batch) \cap ToSet(tasks'[e].batch) = {}
        BY <1>2, <1>7, <2>1, <2>2, <2>3, <2>5, <4>4 DEF OnePlace
      <4>. QED
        BY <4>1, <4>2, <4>3, <4>4 DEF OnePlace
    <3>. QED
      BY <1>2, <1>7, <2>1, <2>5, <3>1
  <2>. QED
    BY <2>1, <2>4, <2>5
<1>12. ASSUME NEW c \in Consumers, Work(c) PROVE OnePlace' /\ Distinct(redis'.items) /\ again' = {}
  <2>. DEFINE id == tasks[c].batch[1]
             rest == Tail(tasks[c].batch)
  <2>1. /\ tasks[c].pc = "work" /\ tasks'[c].batch = rest /\ \A d \in Consumers : d # c => tasks'[d] = tasks[d]
        /\ \E ok \in BOOLEAN : Holds(redis.items, Consumed(ok)) \/ UNCHANGED <<redis, disk, grown>>
        /\ handled' = handled \cup {id} /\ again' = again \cup (handled \cap {id})
        /\ UNCHANGED <<made, faultItems, lost, gone>>
    BY <1>3, <1>12, WorkFacts DEF Goes
  <2>2. rest = <<>> /\ ToSet(tasks[c].batch) = ToSet(rest) \cup {id}
    BY <1>1, <2>1, BatchFacts
  <2>. HIDE DEF id, rest
  <2>3. ToSet(tasks[c].batch) = {id} /\ ToSet(tasks'[c].batch) = {}
    BY <1>8, <2>1, <2>2
  <2>4. redis'.items = redis.items
    BY <2>1 DEF Holds
  <2>5. Items' = Items
    BY <2>1, ItemsSame
  <2>6. id \notin handled
    BY <1>2, <2>3 DEF OnePlace
  <2>7. OnePlace'
    <3>1. \A x \in Items' : \/ x \in ToSet(redis'.items) \/ x \in handled' \/ x \in lost' \/ x \in gone'
                           \/ \E d \in Consumers : x \in ToSet(tasks'[d].batch)
      BY <1>2, <2>1, <2>3, <2>4, <2>5 DEF OnePlace
    <3>2. /\ handled' \cap lost' = {} /\ handled' \cap gone' = {} /\ lost' \cap gone' = {}
          /\ ToSet(redis'.items) \cap (handled' \cup lost' \cup gone') = {}
      BY <1>2, <2>1, <2>3, <2>4, <2>5 DEF OnePlace
    <3>3. ASSUME NEW d \in Consumers
          PROVE  ToSet(tasks'[d].batch) \cap (handled' \cup lost' \cup gone' \cup ToSet(redis'.items)) = {}
      BY <1>2, <2>1, <2>3, <2>4, <2>5 DEF OnePlace
    <3>4. ASSUME NEW d \in Consumers, NEW e \in Consumers, d # e PROVE ToSet(tasks'[d].batch) \cap ToSet(tasks'[e].batch) = {}
      BY <1>2, <2>1, <2>3, <2>4, <2>5, <3>4 DEF OnePlace
    <3>. QED
      BY <3>1, <3>2, <3>3, <3>4 DEF OnePlace
  <2>. QED
    BY <1>2, <2>1, <2>4, <2>6, <2>7
<1>13. ASSUME NEW c \in Consumers, Restart(c) PROVE OnePlace' /\ Distinct(redis'.items) /\ again' = {}
  <2>1. /\ tasks'[c].batch = <<>> /\ \A d \in Consumers : d # c => tasks'[d] = tasks[d]
        /\ UNCHANGED <<redis, disk, grown>> \/ Holds(redis.items, Consumed(FALSE))
        /\ lost' = lost \cup ToSet(tasks[c].batch)
        /\ UNCHANGED <<made, faultItems, handled, again, gone>>
    BY <1>3, <1>13, RestartFacts DEF Goes
  <2>2. redis'.items = redis.items /\ ToSet(tasks'[c].batch) = {}
    BY <1>8, <2>1 DEF Holds
  <2>3. Items' = Items
    BY <2>1, ItemsSame
  <2>4. OnePlace'
    BY <1>2, <2>1, <2>2, <2>3 DEF OnePlace
  <2>. QED
    BY <1>2, <2>1, <2>2, <2>4
<1>14. ASSUME UNCHANGED <<redis, tasks, made, faultItems, handled, again, lost, gone>>
       PROVE  OnePlace' /\ Distinct(redis'.items) /\ again' = {}
  BY <1>2, <1>14, ItemsSame DEF OnePlace
<1>15. ASSUME FetchDepth \/ CollectStats \/ FetchFails PROVE OnePlace' /\ Distinct(redis'.items) /\ again' = {}
  BY <1>14, <1>15 DEF FetchDepth, CollectStats, FetchFails
<1>. QED
  BY <1>1, <1>5, <1>6, <1>9, <1>10, <1>11, <1>12, <1>13, <1>14, <1>15 DEF Next

-----------------------------------------------------------------------------
(* The stream.                                                             *)

LEMMA StreamStep ==
    ASSUME Typed, StatsOK, StreamOK, [Next]_vars
    PROVE  StreamOK'
<1>. DEFINE t == tasks[Reader]
           u == tasks'[Reader]
           Aim == /\ StreamKept'
                  /\ ReaderOK(u.pc, u.batch, u.cursor, u.from, u.first, handled', lost', gone', made')
                  /\ again' = {}
<1>. SUFFICES ASSUME kind' = "stream" PROVE Aim
  <2>1. Reader' = Reader
    BY DEF Reader
  <2>. QED
    BY <2>1 DEF StreamOK
<1>. USE DEF vars, workVars, redisVars
<1>1. kind = "stream"
  BY KindKept
<1>2. /\ StreamKept /\ again = {}
      /\ ReaderOK(t.pc, t.batch, t.cursor, t.from, t.first, handled, lost, gone, made)
  BY <1>1 DEF StreamOK
<1>3. Reader \in Consumers
  BY WorkloadAssumption DEF Reader
<1>4. /\ redis.items \in Seq(Int) /\ grown \in StatsType /\ adapter \in AdapterType /\ made \in Nat
      /\ t.batch \in Seq(Int) /\ t.cursor \in 0..made /\ t.from \in 0..made /\ t.first \in 0..made
      /\ (t.batch # <<>> <=> t.pc = "work")
  BY <1>3, ItemsGrow DEF Typed, RedisOK, RedisType, TasksOK, TaskType, StatsOK
<1>5. /\ ToSet(redis.items) \subseteq 1..made /\ ToSet(disk.items) \subseteq 1..made /\ ToSet(t.batch) \subseteq 1..made
      /\ handled \subseteq 1..made /\ lost \subseteq 1..made /\ gone \subseteq 1..made
  <2>1. Items = 1..made
    BY <1>1, StreamItems DEF Typed
  <2>. QED
    BY <1>3, <2>1 DEF Typed, RedisOK, HistoryOK, TasksOK
<1>6. ASSUME t.pc = "work"
      PROVE  /\ t.batch[1] \in 1..made /\ t.batch[Len(t.batch)] \in 1..made /\ Len(t.batch) \in Nat \ {0}
  <2>1. t.batch # <<>> /\ Len(t.batch) \in Nat \ {0}
    BY <1>4, <1>6, SetFacts
  <2>2. t.batch[1] \in ToSet(t.batch) /\ t.batch[Len(t.batch)] \in ToSet(t.batch)
    BY <1>4, <2>1, SetFacts
  <2>. QED
    BY <1>5, <2>1, <2>2
<1>7. ASSUME UNCHANGED <<redis, disk, made, gone>> PROVE StreamKept'
  BY <1>2, <1>7 DEF StreamKept
<1>8. ASSUME UNCHANGED <<redis, disk, tasks, made, handled, again, lost, gone>> PROVE Aim
  BY <1>2, <1>7, <1>8
<1>9. ASSUME Produce PROVE Aim
  <2>1. /\ Push \/ UNCHANGED <<made, redis, disk, grown, gone>>
        /\ UNCHANGED <<tasks, handled, again, lost>>
    BY <1>4, <1>9, ProduceFacts
  <2>2. CASE Push
    <3>1. PICK items \in Pushed(made + 1) : Holds(items, Produced) /\ gone' = gone \cup (ToSet(redis.items) \ ToSet(items))
      BY <1>4, <2>2, PushFacts
    <3>2. made' = made + 1 /\ redis'.items = items /\ disk' = redis
      BY <2>2, <3>1 DEF Push, Holds
    <3>3. \A y \in ToSet(redis.items) : y < made + 1
      BY <1>4, <1>5
    <3>4. made + 1 \in ToSet(items) /\ Increasing(items)
      BY <1>2, <3>3, PushedFacts DEF StreamKept
    <3>5. \A id \in 1..made' : id \in 1..made \/ id = made + 1
      BY <1>4, <3>2
    <3>6. StreamKept'
      BY <1>2, <3>1, <3>2, <3>4, <3>5 DEF StreamKept
    <3>7. t.pc = "work" => ~(made + 1 <= t.batch[Len(t.batch)])
      BY <1>4, <1>6
    <3>8. ~(made + 1 <= t.cursor)
      BY <1>4
    <3>9. ReaderOK(t.pc, t.batch, t.cursor, t.from, t.first, handled, lost, gone', made')
      BY <1>2, <3>1, <3>5, <3>7, <3>8 DEF ReaderOK
    <3>. QED
      BY <1>2, <2>1, <3>6, <3>9
  <2>. QED
    BY <1>8, <2>1, <2>2
<1>10. ASSUME Backlog PROVE FALSE
  BY <1>1, <1>10 DEF Backlog
<1>11. ASSUME NEW c \in Consumers, Blpop(c) PROVE FALSE
  BY <1>1, <1>11 DEF Blpop
<1>12. ASSUME NEW c \in Consumers, XreadStarts(c) PROVE Aim
  <2>1. /\ c = Reader /\ t.pc = "read"
        /\ Goes(c, "blocked", t.batch, t.cursor, From(t), t.first)
        /\ UNCHANGED <<redis, disk, made, handled, again, lost, gone>>
    BY <1>12, XreadStartsFacts
  <2>2. u.pc = "blocked" /\ u.batch = t.batch /\ u.cursor = t.cursor /\ u.from = From(t) /\ u.first = t.first
    BY <2>1 DEF Goes
  <2>3. From(t) = IF t.cursor = 0 THEN made ELSE t.cursor
    BY DEF From
  <2>. HIDE DEF t, u
  <2>4. \A id \in handled \cup lost : id <= From(t)
    BY <1>2, <1>4, <1>5, <2>1, <2>3 DEF ReaderOK
  <2>5. ReaderOK("blocked", t.batch, t.cursor, From(t), t.first, handled, lost, gone, made)
    BY <1>2, <2>1, <2>3, <2>4 DEF ReaderOK
  <2>. QED
    BY <1>2, <1>7, <2>1, <2>2, <2>5
<1>13. ASSUME NEW c \in Consumers, XreadAnswers(c) PROVE Aim
  <2>1. /\ c = Reader /\ t.pc = "blocked" /\ t.batch = <<>>
        /\ \/ Goes(c, "read", <<>>, t.cursor, 0, t.first)
           \/ \E batch : /\ Answer(t.from, batch)
                         /\ Goes(c, "work", batch, batch[1], 0, IF t.first = 0 THEN batch[1] ELSE t.first)
        /\ UNCHANGED <<redis, disk, made, handled, again, lost, gone>>
    BY <1>13, XreadAnswersFacts
  <2>2. CASE Goes(c, "read", <<>>, t.cursor, 0, t.first)
    <3>1. u.pc = "read" /\ u.batch = t.batch /\ u.cursor = t.cursor /\ u.from = 0 /\ u.first = t.first
      BY <2>1, <2>2 DEF Goes
    <3>. HIDE DEF t, u
    <3>2. ReaderOK("read", t.batch, t.cursor, 0, t.first, handled, lost, gone, made)
      BY <1>2, <2>1 DEF ReaderOK
    <3>. QED
      BY <1>2, <1>7, <2>1, <3>1, <3>2
  <2>3. ASSUME NEW b, Answer(t.from, b), Goes(c, "work", b, b[1], 0, IF t.first = 0 THEN b[1] ELSE t.first)
        PROVE  Aim
    <3>. DEFINE first == IF t.first = 0 THEN b[1] ELSE t.first
               n == Len(b)
    <3>1. u.pc = "work" /\ u.batch = b /\ u.cursor = b[1] /\ u.from = 0 /\ u.first = first
      BY <2>1, <2>3 DEF Goes
    <3>2. /\ b \in Seq(Int) /\ b # <<>> /\ ToSet(b) \subseteq 1..made /\ Increasing(b)
          /\ \A id \in ToSet(b) : id > t.from
          /\ \A id \in ToSet(redis.items) : id > t.from /\ id <= b[n] => id \in ToSet(b)
      BY <1>2, <1>5, <2>3 DEF Answer, StreamKept
    <3>3. n \in Nat \ {0} /\ b[1] \in ToSet(b) /\ b[n] \in ToSet(b) /\ DOMAIN b = 1..n
      <4>1. n \in Nat \ {0} /\ DOMAIN b = 1..n
        BY <3>2, SetFacts
      <4>. QED
        BY <3>2, <4>1, SetFacts
    <3>4. b[1] \in 1..made /\ b[n] \in 1..made /\ b[1] > t.from
      BY <3>2, <3>3
    <3>5. b[1] <= b[n]
      <4>1. 1 \in DOMAIN b /\ n \in DOMAIN b /\ (n = 1 \/ 1 < n)
        BY <3>3
      <4>2. 1 < n => b[1] < b[n]
        BY <3>2, <4>1 DEF Increasing
      <4>. QED
        BY <1>4, <3>4, <4>1, <4>2
    <3>. HIDE DEF t, u, n
    <3>6. first <= b[1] /\ first # 0 /\ (t.first # 0 => t.from = t.cursor)
      <4>1. t.first <= t.cursor /\ (t.cursor = 0 \/ t.from = t.cursor)
        BY <1>2, <2>1 DEF ReaderOK
      <4>. QED
        BY <1>4, <3>4, <4>1
    <3>7. \A id \in handled \cup lost : id < b[1]
      <4>1. \A id \in handled \cup lost : id <= t.from /\ id \in Nat
        BY <1>2, <1>4, <1>5, <2>1 DEF ReaderOK
      <4>. QED
        BY <1>4, <3>4, <4>1
    <3>8. ASSUME NEW id \in 1..made, id > t.from, id <= b[n] PROVE id \in ToSet(b) \/ id \in gone
      BY <1>2, <3>2, <3>8 DEF StreamKept
    <3>9. ASSUME NEW id \in 1..made, b[1] <= id, id <= b[n] PROVE id \in ToSet(b) \/ id \in gone
      BY <1>4, <3>4, <3>8, <3>9
    <3>10. ASSUME NEW id \in 1..made, first <= id, id <= b[1] PROVE id \in handled \/ id \in ToSet(b) \/ id \in gone
      <4>1. CASE id > t.from
        BY <1>4, <3>4, <3>5, <3>8, <3>10, <4>1
      <4>2. CASE id <= t.from /\ t.first # 0
        <5>1. t.first > 0 /\ t.first <= id /\ id <= t.cursor
          BY <1>4, <3>6, <3>10, <4>2
        <5>2. id \in handled \/ id \in ToSet(t.batch) \/ id \in gone
          BY <1>2, <5>1 DEF ReaderOK
        <5>3. ToSet(t.batch) = {}
          BY <1>4, <2>1, SetFacts
        <5>. QED
          BY <5>2, <5>3
      <4>3. CASE id <= t.from /\ t.first = 0
        BY <1>4, <3>4, <3>10, <4>3
      <4>. QED
        BY <1>4, <4>1, <4>2, <4>3
    <3>. HIDE DEF first
    <3>11. ReaderOK("work", b, b[1], 0, first, handled, lost, gone, made)
      BY <3>2, <3>6, <3>7, <3>9, <3>10 DEF ReaderOK, n
    <3>. QED
      BY <1>2, <1>7, <2>1, <3>1, <3>11
  <2>. QED
    BY <2>1, <2>2, <2>3
<1>14. ASSUME Increasing(<<>>) PROVE ReaderOK("dead", <<>>, 0, 0, 0, handled', lost', gone', made')
                                      /\ ReaderOK("read", <<>>, 0, 0, 0, handled', lost', gone', made')
  BY <1>14 DEF ReaderOK
<1>15. Increasing(<<>>)
  BY DEF Increasing
<1>16. ASSUME NEW c \in Consumers, ReadFails(c) PROVE Aim
  <2>1. /\ Goes(c, "dead", <<>>, 0, 0, 0)
        /\ UNCHANGED <<redis, disk, lost, made, handled, again, gone>>
    BY <1>1, <1>4, <1>16, ReadFailsFacts
  <2>2. c = Reader
    BY <1>1, <1>16 DEF ReadFails, Readers, Reader
  <2>3. u.pc = "dead" /\ u.batch = <<>> /\ u.cursor = 0 /\ u.from = 0 /\ u.first = 0
    BY <2>1, <2>2 DEF Goes
  <2>. HIDE DEF u
  <2>. QED
    BY <1>2, <1>7, <1>14, <1>15, <2>1, <2>3
<1>17. ASSUME NEW c \in Consumers, Restart(c) PROVE Aim
  <2>1. /\ c = Reader /\ Goes(c, "read", <<>>, 0, 0, 0)
        /\ UNCHANGED <<redis, disk, grown>> \/ Holds(redis.items, Consumed(FALSE))
        /\ UNCHANGED <<made, again, gone>>
    BY <1>1, <1>4, <1>17, RestartFacts
  <2>2. u.pc = "read" /\ u.batch = <<>> /\ u.cursor = 0 /\ u.from = 0 /\ u.first = 0
    BY <2>1 DEF Goes
  <2>3. StreamKept'
    BY <1>2, <2>1 DEF StreamKept, Holds
  <2>. HIDE DEF u
  <2>. QED
    BY <1>2, <1>14, <1>15, <2>1, <2>2, <2>3
<1>18. ASSUME NEW c \in Consumers, Work(c) PROVE Aim
  <2>. DEFINE id0 == tasks[c].batch[1]
             rest == Tail(tasks[c].batch)
  <2>1. /\ tasks[c].pc = "work"
        /\ Goes(c, IF rest = <<>> THEN "read" ELSE "work", rest,
                IF rest = <<>> THEN tasks[c].cursor ELSE rest[1], tasks[c].from, tasks[c].first)
        /\ \E ok \in BOOLEAN : Holds(redis.items, Consumed(ok)) \/ UNCHANGED <<redis, disk, grown>>
        /\ handled' = handled \cup {id0} /\ again' = again \cup (handled \cap {id0})
        /\ UNCHANGED <<made, lost, gone>>
    BY <1>4, <1>18, WorkFacts
  <2>2. c = Reader /\ id0 = t.batch[1] /\ rest = Tail(t.batch) /\ t.pc = "work"
    BY <1>1, <2>1, BatchFacts
  <2>3. StreamKept'
    BY <1>2, <2>1 DEF StreamKept, Holds
  <2>4. /\ t.batch # <<>> /\ ToSet(t.batch) = ToSet(rest) \cup {id0} /\ rest \in Seq(Int) /\ Len(rest) = Len(t.batch) - 1
        /\ Increasing(rest) /\ (\A x \in ToSet(rest) : id0 < x)
        /\ \A i \in 1..Len(rest) : rest[i] = t.batch[i + 1]
    <3>1. t.batch # <<>> /\ Increasing(t.batch) /\ Head(t.batch) = id0
      BY <1>2, <1>4, <2>2, TailFacts DEF ReaderOK
    <3>. QED
      BY <1>4, <2>2, <3>1, TailFacts
  <2>5. /\ u.pc = (IF rest = <<>> THEN "read" ELSE "work") /\ u.batch = rest
        /\ u.cursor = (IF rest = <<>> THEN t.cursor ELSE rest[1]) /\ u.from = t.from /\ u.first = t.first
    BY <2>1, <2>2 DEF Goes
  <2>6. /\ t.from = 0 /\ t.cursor = id0 /\ t.first <= id0 /\ t.first # 0
        /\ (\A id \in handled \cup lost : id < id0)
        /\ (\A id \in 1..made : id0 <= id /\ id <= t.batch[Len(t.batch)] => id \in ToSet(t.batch) \/ id \in gone)
        /\ (\A id \in 1..made : t.first <= id /\ id <= id0 => id \in handled \/ id \in ToSet(t.batch) \/ id \in gone)
    <3>1. id0 \in 1..made
      BY <1>6, <2>2
    <3>2. /\ t.from = 0 /\ t.cursor = id0 /\ t.first <= id0 /\ t.first # 0
          /\ (\A id \in handled \cup lost : id < id0)
      BY <1>2, <1>4, <2>2, <3>1 DEF ReaderOK
    <3>3. (\A id \in 1..made : id0 <= id /\ id <= t.batch[Len(t.batch)] => id \in ToSet(t.batch) \/ id \in gone)
      BY <1>2, <2>2 DEF ReaderOK
    <3>4. (\A id \in 1..made : t.first <= id /\ id <= id0 => id \in handled \/ id \in ToSet(t.batch) \/ id \in gone)
      BY <1>2, <1>4, <3>2 DEF ReaderOK
    <3>. QED
      BY <3>2, <3>3, <3>4
  <2>7. id0 \in 1..made /\ again' = {}
    <3>1. id0 \in 1..made
      BY <1>6, <2>2
    <3>2. ~(id0 < id0)
      BY <1>4, <3>1
    <3>3. id0 \notin handled
      BY <2>6, <3>2
    <3>. QED
      BY <1>2, <2>1, <3>1, <3>3
  <2>. HIDE DEF t, u, id0, rest
  <2>8. CASE rest = <<>>
    <3>1. ToSet(rest) = {}
      BY <2>4, <2>8, SetFacts
    <3>2. \A id \in handled' \cup lost : id <= id0
      BY <1>4, <1>5, <2>1, <2>6, <2>7
    <3>3. \A id \in 1..made : t.first <= id /\ id <= id0 => id \in handled' \/ id \in gone
      BY <2>1, <2>4, <2>6, <3>1
    <3>4. ReaderOK("read", rest, id0, 0, t.first, handled', lost, gone, made)
      BY <2>4, <2>6, <3>2, <3>3 DEF ReaderOK
    <3>. QED
      BY <2>1, <2>3, <2>5, <2>6, <2>7, <2>8, <3>4
  <2>9. CASE rest # <<>>
    <3>. DEFINE k == Len(rest)
    <3>1. k \in Nat \ {0} /\ k + 1 = Len(t.batch) /\ DOMAIN rest = 1..k /\ rest[1] \in ToSet(rest) /\ rest[k] = t.batch[Len(t.batch)]
          /\ rest[k] \in ToSet(rest)
      <4>1. k \in Nat \ {0} /\ DOMAIN rest = 1..k
        BY <2>4, <2>9, SetFacts
      <4>2. k \in 1..k /\ 1 \in 1..k
        BY <4>1
      <4>3. Len(t.batch) \in Nat /\ k = Len(t.batch) - 1
        BY <1>4, <2>4, SetFacts
      <4>4. k + 1 = Len(t.batch)
        BY <4>3
      <4>. QED
        BY <2>4, <4>1, <4>2, <4>4, SetFacts
    <3>2. id0 < rest[1] /\ rest[1] \in 1..made /\ rest[k] \in 1..made
      BY <1>5, <2>4, <3>1
    <3>3. rest[1] <= rest[k]
      <4>1. 1 \in DOMAIN rest /\ k \in DOMAIN rest /\ (k = 1 \/ 1 < k)
        BY <3>1
      <4>2. 1 < k => rest[1] < rest[k]
        BY <2>4, <4>1 DEF Increasing
      <4>. QED
        BY <1>4, <3>2, <4>1, <4>2
    <3>. HIDE DEF k
    <3>4. \A id \in handled' \cup lost : id < rest[1]
      <4>1. \A id \in handled \cup lost : id < id0 /\ id \in Nat
        BY <1>4, <1>5, <2>6
      <4>. QED
        BY <1>4, <2>1, <2>7, <3>2, <4>1
    <3>5. ASSUME NEW id \in 1..made, id0 < id, id <= rest[k] PROVE id \in ToSet(rest) \/ id \in gone
      <4>1. id \in ToSet(t.batch) \/ id \in gone
        BY <1>4, <2>6, <2>7, <3>1, <3>5
      <4>. QED
        BY <1>4, <2>4, <2>7, <3>5, <4>1
    <3>6. ASSUME NEW id \in 1..made, rest[1] <= id, id <= rest[k] PROVE id \in ToSet(rest) \/ id \in gone
      BY <1>4, <2>7, <3>2, <3>5, <3>6
    <3>7. ASSUME NEW id \in 1..made, t.first <= id, id <= rest[1] PROVE id \in handled' \/ id \in ToSet(rest) \/ id \in gone
      <4>1. CASE id0 < id
        BY <1>4, <3>2, <3>3, <3>5, <3>7, <4>1
      <4>2. CASE id <= id0
        BY <2>1, <2>4, <2>6, <3>7, <4>2
      <4>. QED
        BY <1>4, <2>7, <4>1, <4>2
    <3>8. t.first <= rest[1]
      BY <1>4, <2>6, <2>7, <3>2
    <3>9. ReaderOK("work", rest, rest[1], 0, t.first, handled', lost, gone, made)
      BY <2>4, <2>6, <3>4, <3>6, <3>7, <3>8 DEF ReaderOK, k
    <3>. QED
      BY <2>1, <2>3, <2>5, <2>6, <2>7, <2>9, <3>9
  <2>. QED
    BY <2>8, <2>9
<1>19. ASSUME RedisRestart PROVE Aim
  <2>1. /\ redis' = disk /\ gone' = gone \cup (ToSet(redis.items) \ ToSet(disk.items))
        /\ UNCHANGED <<disk, tasks, made, handled, again, lost>>
    BY <1>19 DEF RedisRestart
  <2>2. StreamKept'
    BY <1>2, <2>1 DEF StreamKept
  <2>3. ReaderOK(t.pc, t.batch, t.cursor, t.from, t.first, handled, lost, gone', made)
    BY <1>2, <2>1 DEF ReaderOK
  <2>. QED
    BY <1>2, <2>1, <2>2, <2>3
<1>20. ASSUME FetchDepth \/ CollectStats \/ FetchFails PROVE Aim
  BY <1>8, <1>20 DEF FetchDepth, CollectStats, FetchFails
<1>. QED
  BY <1>8, <1>9, <1>10, <1>11, <1>12, <1>13, <1>16, <1>17, <1>18, <1>19, <1>20 DEF Next

-----------------------------------------------------------------------------
(* The statistics and the work that was done.                              *)

LEMMA ItemsFinite ==
    ASSUME CountsOK
    PROVE  /\ IsFiniteSet(Items) /\ Cardinality(Items) <= made + faultItems
           /\ \A S \in SUBSET Items : IsFiniteSet(S) /\ Cardinality(S) \in Nat /\ Cardinality(S) <= made + faultItems
<1>1. made \in Nat /\ faultItems \in Nat
  BY ItemsGrow
<1>. DEFINE I == (-faultItems)..made
<1>2. IsFiniteSet(I) /\ Cardinality(I) = made + faultItems + 1 /\ 0 \in I
  <2>1. -faultItems \in Int /\ made \in Int /\ ~(-faultItems > made) /\ made - (-faultItems) + 1 = made + faultItems + 1 /\ 0 \in I
    BY <1>1
  <2>. QED
    BY <2>1, FS_Interval
<1>3. IsFiniteSet(I \ {0}) /\ Cardinality(I \ {0}) = made + faultItems
  <2>1. IsFiniteSet(I \ {0}) /\ Cardinality(I \ {0}) = Cardinality(I) - 1
    BY <1>2, FS_RemoveElement
  <2>. QED
    BY <1>1, <1>2, <2>1
<1>4. Items \subseteq I \ {0}
  <2>1. ASSUME NEW i \in Items PROVE i \in I \ {0}
    <3>1. i \in 1..made \/ (i \in Int /\ -i \in 1..faultItems)
      BY ItemsGrow
    <3>. QED
      BY <1>1, <3>1
  <2>. QED
    BY <2>1
<1>. HIDE DEF I
<1>5. ASSUME NEW S \in SUBSET Items PROVE IsFiniteSet(S) /\ Cardinality(S) \in Nat /\ Cardinality(S) <= made + faultItems
  <2>1. S \in SUBSET (I \ {0})
    BY <1>4
  <2>2. IsFiniteSet(S) /\ Cardinality(S) <= Cardinality(I \ {0})
    BY <1>3, <2>1, FS_Subset
  <2>3. Cardinality(S) \in Nat
    BY <2>2, FS_CardinalityType
  <2>. QED
    BY <1>3, <2>2, <2>3
<1>. QED
  BY <1>5

\* A larger set of items has at least as many.
LEMMA CardGrows ==
    ASSUME Typed, NEW S \in SUBSET Items, NEW T \in SUBSET Items, S \subseteq T
    PROVE  /\ Cardinality(S) \in Nat /\ Cardinality(T) \in Nat /\ Cardinality(S) <= Cardinality(T)
           /\ \A x \in T : x \notin S => Cardinality(S) + 1 <= Cardinality(T)
<1>1. IsFiniteSet(S) /\ IsFiniteSet(T) /\ Cardinality(S) \in Nat /\ Cardinality(T) \in Nat
  BY ItemsFinite DEF Typed
<1>2. Cardinality(S) <= Cardinality(T)
  BY <1>1, FS_Subset
<1>3. ASSUME NEW x \in T, x \notin S PROVE Cardinality(S) + 1 <= Cardinality(T)
  <2>1. IsFiniteSet(S \cup {x}) /\ Cardinality(S \cup {x}) = Cardinality(S) + 1
    BY <1>1, <1>3, FS_AddElement
  <2>2. S \cup {x} \in SUBSET T
    BY <1>3
  <2>. QED
    BY <1>1, <2>1, <2>2, FS_Subset
<1>. QED
  BY <1>1, <1>2, <1>3

\* What a task works on was neither handled nor lost before.
LEMMA InHandNew ==
    ASSUME Typed, ListOK, StreamOK, ~forgot, NEW c \in Consumers, tasks[c].pc = "work"
    PROVE  tasks[c].batch[1] \notin handled \cup lost /\ tasks[c].batch[1] \in Items
<1>1. tasks[c].batch[1] \in ToSet(tasks[c].batch) /\ tasks[c].batch[1] \in Items /\ (kind = "stream" => c = Reader)
  BY BatchFacts
<1>2. CASE kind = "list"
  BY <1>1, <1>2 DEF ListOK, OnePlace
<1>3. CASE kind = "stream"
  <2>1. \A id \in handled \cup lost : id < tasks[c].batch[1]
    BY <1>1, <1>3 DEF StreamOK, ReaderOK
  <2>2. ~(tasks[c].batch[1] < tasks[c].batch[1])
    <3>1. tasks[c].batch[1] \in Int
      BY <1>1, ItemsGrow DEF Typed
    <3>. QED
      BY <3>1
  <2>. QED
    BY <1>1, <2>1, <2>2
<1>. QED
  BY <1>2, <1>3 DEF Typed, CountsOK

LEMMA SampleStep ==
    ASSUME Typed, StatsOK, ListOK, StreamOK, SampleOK, [Next]_vars
    PROVE  SampleOK'
<1>. DEFINE Aim == /\ redis'.stats.produced = made'
                   /\ Len(redis'.items) <= made' + faultItems'
                   /\ adapter'.depth <= made' + faultItems'
                   /\ rows' \subseteq handled' \cup lost'
                   /\ redis'.stats.consumed <= Cardinality(handled' \cup lost')
                   /\ redis'.stats.consumed - redis'.stats.failures <= Cardinality(rows')
<1>. SUFFICES ASSUME ~forgot' PROVE Aim
  BY DEF SampleOK
<1>. USE DEF vars, workVars, redisVars
<1>1. ~forgot /\ ~RedisRestart
  <2>1. RedisRestart => forgot'
    BY Zenon DEF RedisRestart
  <2>2. ~RedisRestart
    BY <2>1
  <2>3. forgot' = forgot
    BY <2>2, KindKept
  <2>. QED
    BY <2>2, <2>3, Zenon
<1>2. /\ redis.stats["produced"] = made /\ Len(redis.items) <= made + faultItems /\ adapter.depth <= made + faultItems
      /\ rows \subseteq handled \cup lost
      /\ redis.stats["consumed"] <= Cardinality(handled \cup lost)
      /\ redis.stats["consumed"] - redis.stats["failures"] <= Cardinality(rows)
  BY <1>1 DEF SampleOK
<1>3. /\ redis.items \in Seq(Int) /\ Len(redis.items) \in Nat /\ grown \in StatsType /\ adapter \in AdapterType
      /\ made \in Nat /\ faultItems \in Nat /\ adapter.depth \in Nat
      /\ redis.stats["produced"] \in Nat /\ redis.stats["consumed"] \in Nat /\ redis.stats["failures"] \in Nat
      /\ handled \subseteq Items /\ lost \subseteq Items /\ rows \subseteq Items
  <2>1. /\ redis.items \in Seq(Int) /\ Len(redis.items) \in Nat /\ redis.stats \in StatsType
        /\ grown \in StatsType /\ adapter \in AdapterType
    BY DEF Typed, RedisOK, RedisType, StatsOK
  <2>2. made \in Nat /\ faultItems \in Nat
    BY ItemsGrow DEF Typed
  <2>3. adapter.depth \in Nat
    BY <2>1 DEF AdapterType
  <2>4. redis.stats["produced"] \in Nat /\ redis.stats["consumed"] \in Nat /\ redis.stats["failures"] \in Nat
    BY <2>1 DEF StatsType, Statistics
  <2>5. handled \subseteq Items /\ lost \subseteq Items /\ rows \subseteq Items
    BY DEF Typed, HistoryOK
  <2>. QED
    BY <2>1, <2>2, <2>3, <2>4, <2>5
<1>4. /\ Cardinality(handled \cup lost) \in Nat /\ Cardinality(rows) \in Nat
  BY <1>3, ItemsFinite DEF Typed
<1>5. ASSUME NEW items, NEW d, Holds(items, d)
      PROVE  /\ redis'.items = items
             /\ redis'.stats["produced"] = redis.stats["produced"] + d["produced"]
             /\ redis'.stats["consumed"] = redis.stats["consumed"] + d["consumed"]
             /\ redis'.stats["failures"] = redis.stats["failures"] + d["failures"]
  BY <1>5 DEF Holds, Statistics
<1>6. ASSUME NEW items, Holds(items, NoStats) PROVE redis'.items = items /\ \A s \in Statistics : redis'.stats[s] = redis.stats[s]
  <2>1. \A s \in Statistics : redis.stats[s] + 0 = redis.stats[s]
    BY <1>3 DEF Statistics
  <2>. QED
    BY <1>6, <2>1, StatsValues DEF Holds
<1>7. ASSUME Produce PROVE Aim
  <2>1. /\ Push \/ UNCHANGED <<made, redis, disk, grown, gone>>
        /\ UNCHANGED <<rows, adapter, faultItems, handled, lost>>
    BY <1>3, <1>7, ProduceFacts
  <2>2. CASE UNCHANGED <<made, redis, disk, grown, gone>>
    BY <1>2, <2>1, <2>2
  <2>3. CASE Push
    <3>1. PICK items \in Pushed(made + 1) : Holds(items, Produced)
      BY <1>3, <2>3, PushFacts
    <3>2. made' = made + 1 /\ Len(items) <= Len(redis.items) + 1 /\ Len(items) \in Nat
      <4>1. items \in Seq(Int) /\ Len(items) <= Len(redis.items) + 1
        BY PushedFacts
      <4>. QED
        BY <2>3, <4>1 DEF Push
    <3>3. /\ redis'.items = items /\ redis'.stats["produced"] = made + 1
          /\ redis'.stats["consumed"] = redis.stats["consumed"] /\ redis'.stats["failures"] = redis.stats["failures"]
      BY <1>2, <1>3, <1>5, <3>1, StatsValues
    <3>4. Len(items) <= made + 1 + faultItems /\ adapter.depth <= made + 1 + faultItems
      BY <1>2, <1>3, <3>2
    <3>. QED
      BY <1>2, <2>1, <3>2, <3>3, <3>4
  <2>. QED
    BY <2>1, <2>2, <2>3
<1>8. ASSUME Backlog PROVE Aim
  <2>1. /\ \/ faultItems' = faultItems + 1 /\ Holds(Append(redis.items, -(faultItems + 1)), NoStats)
           \/ \E n \in DOMAIN redis.items : faultItems' = faultItems /\ Holds(RemoveAt(redis.items, n), NoStats)
        /\ UNCHANGED <<rows, adapter, made, handled, lost>>
    BY <1>3, <1>8, BacklogFacts
  <2>2. CASE faultItems' = faultItems + 1 /\ Holds(Append(redis.items, -(faultItems + 1)), NoStats)
    <3>1. Len(Append(redis.items, -(faultItems + 1))) = Len(redis.items) + 1
      BY <1>3, AppendFacts
    <3>2. Len(redis'.items) = Len(redis.items) + 1
      BY <1>6, <2>2, <3>1
    <3>3. Len(redis'.items) <= made + faultItems' /\ adapter.depth <= made + faultItems'
      BY <1>2, <1>3, <2>2, <3>2
    <3>. QED
      BY <1>2, <1>6, <2>1, <2>2, <3>3 DEF Statistics
  <2>3. ASSUME NEW n \in DOMAIN redis.items, faultItems' = faultItems, Holds(RemoveAt(redis.items, n), NoStats) PROVE Aim
    <3>1. Len(RemoveAt(redis.items, n)) = Len(redis.items) - 1
      BY <1>3, RemoveFacts
    <3>2. Len(redis'.items) <= made + faultItems
      <4>1. Len(redis'.items) = Len(redis.items) - 1
        BY <1>6, <2>3, <3>1
      <4>. QED
        BY <1>2, <1>3, <4>1
    <3>. QED
      BY <1>2, <1>6, <2>1, <2>3, <3>2 DEF Statistics
  <2>. QED
    BY <2>1, <2>2, <2>3
<1>9. ASSUME redis.items # <<>>, Holds(Tail(redis.items), NoStats) PROVE Len(redis'.items) <= made + faultItems
  <2>1. Len(Tail(redis.items)) = Len(redis.items) - 1
    BY <1>3, <1>9, TailFacts
  <2>2. Len(redis'.items) = Len(redis.items) - 1
    BY <1>6, <1>9, <2>1
  <2>. QED
    BY <1>2, <1>3, <2>2
<1>10. ASSUME NEW c \in Consumers, Blpop(c) PROVE Aim
  <2>1. /\ redis.items # <<>> /\ Holds(Tail(redis.items), NoStats)
        /\ UNCHANGED <<rows, adapter, made, faultItems, handled, lost>>
    BY <1>3, <1>10, BlpopFacts
  <2>. QED
    BY <1>2, <1>6, <1>9, <2>1 DEF Statistics
<1>11. ASSUME NEW c \in Consumers, XreadStarts(c) \/ XreadAnswers(c) PROVE Aim
  BY <1>2, <1>11 DEF XreadStarts, XreadAnswers
<1>12. ASSUME NEW c \in Consumers, ReadFails(c) PROVE Aim
  <2>1. /\ \/ UNCHANGED <<redis, disk, lost>>
           \/ redis.items # <<>> /\ Holds(Tail(redis.items), NoStats) /\ lost' = lost \cup {Head(redis.items)}
        /\ UNCHANGED <<rows, adapter, made, faultItems, handled>>
    BY <1>3, <1>12, ReadFailsFacts
  <2>2. CASE UNCHANGED <<redis, disk, lost>>
    BY <1>2, <2>1, <2>2
  <2>3. CASE redis.items # <<>> /\ Holds(Tail(redis.items), NoStats) /\ lost' = lost \cup {Head(redis.items)}
    <3>1. Head(redis.items) \in Items
      BY <1>3, <2>3, TailFacts DEF Typed, RedisOK
    <3>2. Cardinality(handled \cup lost) <= Cardinality(handled \cup lost') /\ Cardinality(handled \cup lost') \in Nat
      <4>1. handled \cup lost' \in SUBSET Items /\ handled \cup lost \in SUBSET Items /\ handled \cup lost \subseteq handled \cup lost'
        BY <1>3, <2>3, <3>1
      <4>. QED
        BY <4>1, CardGrows
    <3>3. redis.stats["consumed"] <= Cardinality(handled \cup lost')
      BY <1>2, <1>3, <1>4, <3>2
    <3>. QED
      BY <1>2, <1>6, <1>9, <2>1, <2>3, <3>3 DEF Statistics
  <2>. QED
    BY <2>1, <2>2, <2>3
\* An item is worked on, or lost with its consumer, and counted or not.
<1>13. ASSUME NEW id \in Items, id \notin handled \cup lost, NEW ok \in BOOLEAN,
              Holds(redis.items, Consumed(ok)) \/ redis' = redis,
              handled' \cup lost' \in SUBSET Items, handled \cup lost \cup {id} \subseteq handled' \cup lost',
              rows' \in {rows, rows \cup {id}}, ok => rows' = rows \cup {id},
              UNCHANGED <<adapter, made, faultItems>>
       PROVE  Aim
  <2>1. id \notin rows /\ rows' \subseteq handled' \cup lost' /\ rows' \in SUBSET Items /\ rows \subseteq rows'
    BY <1>2, <1>3, <1>13
  <2>2. handled \cup lost \in SUBSET Items /\ handled \cup lost \subseteq handled' \cup lost' /\ id \in handled' \cup lost'
    BY <1>3, <1>13
  <2>3. Cardinality(handled' \cup lost') \in Nat /\ Cardinality(handled \cup lost) + 1 <= Cardinality(handled' \cup lost')
    BY <1>13, <2>2, CardGrows
  <2>4. Cardinality(rows') \in Nat /\ Cardinality(rows) <= Cardinality(rows') /\ (ok => Cardinality(rows) + 1 <= Cardinality(rows'))
    <3>1. Cardinality(rows') \in Nat /\ Cardinality(rows) <= Cardinality(rows')
          /\ \A x \in rows' : x \notin rows => Cardinality(rows) + 1 <= Cardinality(rows')
      BY <1>3, <2>1, CardGrows
    <3>2. ok => id \in rows'
      BY <1>13
    <3>. QED
      BY <2>1, <3>1, <3>2
  <2>5. CASE redis' = redis
    <3>1. redis.stats["consumed"] <= Cardinality(handled' \cup lost')
          /\ redis.stats["consumed"] - redis.stats["failures"] <= Cardinality(rows')
      BY <1>2, <1>3, <1>4, <2>3, <2>4
    <3>. QED
      BY <1>2, <1>13, <2>1, <2>5, <3>1
  <2>6. CASE Holds(redis.items, Consumed(ok))
    <3>1. /\ redis'.items = redis.items /\ redis'.stats["produced"] = redis.stats["produced"] + 0
          /\ redis'.stats["consumed"] = redis.stats["consumed"] + 1
          /\ redis'.stats["failures"] = redis.stats["failures"] + (IF ok THEN 0 ELSE 1)
      BY <1>5, <2>6, StatsValues
    <3>2. redis'.stats["produced"] = made /\ redis'.stats["consumed"] <= Cardinality(handled' \cup lost')
      BY <1>2, <1>3, <1>4, <2>3, <3>1
    <3>3. redis'.stats["consumed"] - redis'.stats["failures"] <= Cardinality(rows')
      BY <1>2, <1>3, <1>4, <2>4, <3>1
    <3>. QED
      BY <1>2, <1>13, <2>1, <3>1, <3>2, <3>3
  <2>. QED
    BY <1>13, <2>5, <2>6
<1>14. ASSUME NEW c \in Consumers, Work(c) PROVE Aim
  <2>. DEFINE id == tasks[c].batch[1]
  <2>1. /\ tasks[c].pc = "work"
        /\ \E ok \in BOOLEAN : /\ Holds(redis.items, Consumed(ok)) \/ UNCHANGED <<redis, disk, grown>>
                               /\ rows' \in {rows, rows \cup {id}} /\ (ok => rows' = rows \cup {id})
        /\ handled' = handled \cup {id}
        /\ UNCHANGED <<adapter, made, faultItems, lost>>
    BY <1>3, <1>14, WorkFacts
  <2>2. id \in Items /\ id \notin handled \cup lost
    BY <1>1, <2>1, InHandNew
  <2>3. handled' \cup lost' \in SUBSET Items /\ handled \cup lost \cup {id} \subseteq handled' \cup lost'
    BY <1>3, <2>1, <2>2
  <2>. HIDE DEF id
  <2>4. PICK ok \in BOOLEAN : /\ Holds(redis.items, Consumed(ok)) \/ UNCHANGED <<redis, disk, grown>>
                              /\ rows' \in {rows, rows \cup {id}} /\ (ok => rows' = rows \cup {id})
    BY <2>1
  <2>. QED
    BY <1>13, <2>1, <2>2, <2>3, <2>4
<1>15. ASSUME NEW c \in Consumers, Restart(c) PROVE Aim
  <2>1. /\ \/ UNCHANGED <<redis, disk, grown>>
           \/ tasks[c].pc = "work" /\ Holds(redis.items, Consumed(FALSE))
        /\ \/ UNCHANGED rows
           \/ tasks[c].pc = "work" /\ rows' = rows \cup {tasks[c].batch[1]}
        /\ lost' = lost \cup ToSet(tasks[c].batch)
        /\ UNCHANGED <<adapter, made, faultItems, handled>>
    BY <1>3, <1>15, RestartFacts
  <2>2. ToSet(tasks[c].batch) \subseteq Items
    BY DEF Typed, TasksOK
  <2>3. CASE tasks[c].pc = "work"
    <3>. DEFINE id == tasks[c].batch[1]
    <3>1. id \in Items /\ id \notin handled \cup lost /\ id \in ToSet(tasks[c].batch)
      BY <1>1, <2>3, InHandNew, BatchFacts
    <3>2. handled' \cup lost' \in SUBSET Items /\ handled \cup lost \cup {id} \subseteq handled' \cup lost'
      BY <1>3, <2>1, <2>2, <3>1
    <3>3. Holds(redis.items, Consumed(FALSE)) \/ redis' = redis
      BY <2>1
    <3>4. rows' \in {rows, rows \cup {id}}
      BY <2>1
    <3>. HIDE DEF id
    <3>. QED
      BY <1>13, <2>1, <3>1, <3>2, <3>3, <3>4
  <2>4. CASE tasks[c].pc # "work"
    <3>1. tasks[c].batch = <<>>
      BY <2>4 DEF Typed, TasksOK
    <3>2. ToSet(tasks[c].batch) = {}
      BY <3>1 DEF ToSet
    <3>. QED
      BY <1>2, <2>1, <2>4, <3>2
  <2>. QED
    BY <2>3, <2>4
<1>16. ASSUME FetchDepth \/ CollectStats \/ FetchFails PROVE Aim
  <2>1. UNCHANGED <<redis, rows, made, faultItems, handled, lost>> /\ adapter'.depth \in {0, Len(redis.items)}
    BY <1>3, <1>16, AdapterFacts DEF AdapterStep
  <2>2. adapter'.depth <= made + faultItems
    BY <1>2, <1>3, <2>1
  <2>. QED
    BY <1>2, <2>1, <2>2
<1>17. ASSUME UNCHANGED vars PROVE Aim
  BY <1>2, <1>17
<1>. QED
  BY <1>1, <1>7, <1>8, <1>10, <1>11, <1>12, <1>14, <1>15, <1>16, <1>17 DEF Next

-----------------------------------------------------------------------------
(* The theorems.                                                           *)

LEMMA WorkInit == Init => WorkInv
<1>. SUFFICES ASSUME Init PROVE WorkInv
  OBVIOUS
<1>1. /\ MaxItems \in Nat /\ MaxFailures \in Nat /\ ReadCount \in Nat \ {0} /\ 0 \in 0..0
  BY WorkloadAssumption
<1>2. /\ redis.items = <<>> /\ redis.stats = NoStats /\ ~redis.seeded /\ disk = redis /\ redis \in RedisType
      /\ <<>> \in Seq(Int) /\ ToSet(<<>>) = {} /\ Len(<<>>) = 0
  BY StatsValues DEF Init, RedisType, ToSet
<1>3. CountsOK
  <2>1. 0 \in 0..MaxItems /\ 0 \in 0..(MaxItems - 0) /\ 0 \in 0..MaxFailures /\ FALSE \in BOOLEAN
    BY <1>1
  <2>2. made = 0 /\ faultItems = 0 /\ failures = 0 /\ forgot = FALSE /\ producer = "up" /\ kind \in {"list", "stream"}
    BY DEF Init
  <2>. QED
    BY <2>1, <2>2 DEF CountsOK
<1>4. \A c \in Consumers : /\ tasks[c] \in TaskType /\ tasks[c].pc = "read" /\ tasks[c].batch = <<>>
                           /\ tasks[c].cursor = 0 /\ tasks[c].from = 0 /\ tasks[c].first = 0
  BY FreshTask DEF Init, Fresh
<1>5. TasksOK
  <2>1. tasks \in [Consumers -> TaskType]
    BY FreshTask DEF Init
  <2>2. made = 0 /\ 0 <= ReadCount
    BY <1>1 DEF Init
  <2>. QED
    BY <1>2, <1>4, <2>1, <2>2 DEF TasksOK
<1>6. RedisOK /\ HistoryOK
  BY <1>2 DEF Init, RedisOK, HistoryOK
<1>7. StatsOK
  <2>1. grown \in StatsType /\ NoAdapter \in AdapterType /\ adapter = NoAdapter /\ grown = NoStats
    BY StatsValues DEF Init, NoAdapter, AdapterType
  <2>2. NoAdapter.at = NoStats /\ NoAdapter.previousAt = NoStats /\ NoAdapter.previous = <<>>
    BY DEF NoAdapter
  <2>. QED
    BY <1>2, <2>1, <2>2, StatsValues DEF StatsOK
<1>8. ListOK
  <2>1. Items = {}
    BY DEF Init, Items
  <2>2. Distinct(<<>>)
    BY DEF Distinct
  <2>. QED
    BY <1>2, <1>4, <2>1, <2>2 DEF Init, ListOK, OnePlace
<1>9. StreamOK
  <2>1. Increasing(<<>>) /\ Reader \in Consumers
    BY WorkloadAssumption DEF Increasing, Reader
  <2>2. 1..made = {} /\ handled \cup lost = {} /\ again = {}
    BY DEF Init
  <2>3. StreamKept
    BY <1>2, <2>1, <2>2 DEF StreamKept
  <2>4. ReaderOK("read", <<>>, 0, 0, 0, handled, lost, gone, made)
    BY <2>1, <2>2 DEF ReaderOK
  <2>. QED
    BY <1>4, <2>1, <2>2, <2>3, <2>4 DEF StreamOK
<1>10. SampleOK
  <2>1. made = 0 /\ faultItems = 0 /\ adapter.depth = 0 /\ rows = {} /\ handled \cup lost = {}
    BY DEF Init, NoAdapter
  <2>2. redis.stats["produced"] = 0 /\ redis.stats["consumed"] = 0 /\ redis.stats["failures"] = 0
    BY <1>2 DEF NoStats, Statistics
  <2>3. Cardinality({}) = 0
    BY FS_EmptySet
  <2>4. /\ redis.stats.produced = made /\ Len(redis.items) <= made + faultItems /\ adapter.depth <= made + faultItems
        /\ rows \subseteq handled \cup lost
    BY <1>2, <2>1, <2>2
  <2>5. /\ redis.stats.consumed <= Cardinality(handled \cup lost)
        /\ redis.stats.consumed - redis.stats.failures <= Cardinality(rows)
    BY <2>1, <2>2, <2>3
  <2>. QED
    BY <2>4, <2>5 DEF SampleOK
<1>. QED
  BY <1>3, <1>5, <1>6, <1>7, <1>8, <1>9, <1>10 DEF WorkInv

\* Every reachable state satisfies the inductive invariant.
LEMMA WorkInvariant == Spec => []WorkInv
<1>1. WorkInv /\ [Next]_vars => WorkInv'
  <2>. SUFFICES ASSUME WorkInv, [Next]_vars PROVE WorkInv'
    OBVIOUS
  <2>1. /\ Typed /\ StatsOK /\ ListOK /\ StreamOK /\ SampleOK
        /\ grown \in StatsType /\ adapter \in AdapterType
    BY DEF WorkInv, Typed, StatsOK
  <2>2. Typed'
    BY <2>1, TypedStep
  <2>3. StatsOK' /\ ListOK' /\ StreamOK' /\ SampleOK'
    BY <2>1, StatsStep, ListStep, StreamStep, SampleStep
  <2>. QED
    BY <2>2, <2>3 DEF WorkInv, Typed
<1>. QED
  BY <1>1, WorkInit, PTL DEF Spec

\* The state keeps its shape: above all a task works exactly while it holds
\* items, holds no more than XREAD's COUNT, and every item anywhere was made.
THEOREM TypeCorrect == Spec => []TypeOK
<1>1. WorkInv => TypeOK
  <2>. SUFFICES ASSUME WorkInv PROVE TypeOK
    OBVIOUS
  <2>. USE DEF WorkInv
  <2>1. ASSUME NEW c \in Consumers
        PROVE  /\ tasks[c].pc \in {"read", "blocked", "work", "dead"}
               /\ tasks[c].batch \in Seq(Items) /\ Len(tasks[c].batch) <= ReadCount
               /\ (tasks[c].batch # <<>>) <=> tasks[c].pc = "work"
               /\ {tasks[c].cursor, tasks[c].from, tasks[c].first} \subseteq 0..made
    <3>. DEFINE b == tasks[c].batch
    <3>1. tasks[c] \in TaskType /\ b \in Seq(Int) /\ ToSet(b) \subseteq Items /\ Len(b) \in Nat
      BY DEF TasksOK, TaskType
    <3>2. \A i \in 1..Len(b) : b[i] \in Items
      BY <3>1, SetFacts
    <3>3. b \in Seq(Items)
      <4>. HIDE DEF b
      <4>1. b \in [1..Len(b) -> Items]
        BY <3>1, <3>2
      <4>. QED
        BY <3>1, <4>1, SeqDef
    <3>. QED
      BY <3>1, <3>3 DEF TasksOK, TaskType
  <2>2. UNION {ToSet(redis.items), ToSet(disk.items), rows, handled, again, lost, gone} \subseteq Items
    BY DEF RedisOK, HistoryOK
  <2>3. adapter.pc \in {"idle", "stats"} /\ adapter.depth \in Nat /\ {grown, adapter.at, adapter.previousAt} \subseteq StatsType
    BY DEF StatsOK, AdapterType
  <2>. QED
    BY <2>1, <2>2, <2>3 DEF TypeOK, CountsOK, RedisOK
<1>. QED
  BY <1>1, WorkInvariant, PTL

\* Unless Redis went back to an older file, every item pushed on a list is in
\* exactly one place, whatever consumers take, fail on, lose or are restarted.
THEOREM ItemsAccounted == Spec => []Accounted
<1>1. WorkInv => Accounted
  <2>. SUFFICES ASSUME WorkInv, kind = "list", ~forgot
                PROVE  LET places == <<ToSet(redis.items), InHand, handled, lost, gone>>
                       IN /\ Items = UNION Range(places)
                          /\ \A i, j \in 1..5 : i # j => places[i] \cap places[j] = {}
                          /\ \A c, d \in Consumers : c # d => ToSet(tasks[c].batch) \cap ToSet(tasks[d].batch) = {}
    BY DEF Accounted
  <2>. DEFINE R == ToSet(redis.items)
             places == <<R, InHand, handled, lost, gone>>
  <2>1. OnePlace
    BY DEF WorkInv, ListOK
  <2>2. \A x : x \in InHand <=> \E c \in Consumers : x \in ToSet(tasks[c].batch)
    BY DEF InHand
  <2>3. R \cup InHand \cup handled \cup lost \cup gone \subseteq Items
    BY <2>2 DEF WorkInv, TasksOK, RedisOK, HistoryOK
  <2>4. Items \subseteq R \cup InHand \cup handled \cup lost \cup gone
    BY <2>1, <2>2 DEF OnePlace
  <2>5. /\ R \cap InHand = {} /\ R \cap handled = {} /\ R \cap lost = {} /\ R \cap gone = {}
        /\ InHand \cap handled = {} /\ InHand \cap lost = {} /\ InHand \cap gone = {}
        /\ handled \cap lost = {} /\ handled \cap gone = {} /\ lost \cap gone = {}
    BY <2>1, <2>2 DEF OnePlace
  <2>. HIDE DEF R
  <2>6. UNION Range(places) = R \cup InHand \cup handled \cup lost \cup gone
    <3>1. DOMAIN places = 1..5
      OBVIOUS
    <3>2. 1..5 = {1, 2, 3, 4, 5}
      OBVIOUS
    <3>3. Range(places) = {places[1], places[2], places[3], places[4], places[5]}
      BY <3>1, <3>2 DEF Range
    <3>4. places[1] = R /\ places[2] = InHand /\ places[3] = handled /\ places[4] = lost /\ places[5] = gone
      OBVIOUS
    <3>. HIDE DEF places
    <3>. QED
      BY <3>3, <3>4
  <2>7. \A i, j \in 1..5 : i # j => places[i] \cap places[j] = {}
    <3>1. \A i \in 1..5 : i = 1 \/ i = 2 \/ i = 3 \/ i = 4 \/ i = 5
      OBVIOUS
    <3>2. places[1] = R /\ places[2] = InHand /\ places[3] = handled /\ places[4] = lost /\ places[5] = gone
      OBVIOUS
    <3>. HIDE DEF places
    <3>. QED
      BY <2>5, <3>1, <3>2
  <2>. QED
    BY <2>1, <2>3, <2>4, <2>6, <2>7 DEF OnePlace, R
<1>. QED
  BY <1>1, WorkInvariant, PTL

\* No item is handled twice, by consumers or by restarted ones; only a list
\* that Redis brought back holds popped items again.
THEOREM HandledAtMostOnce == Spec => []HandledOnce
<1>1. WorkInv => HandledOnce
  BY DEF WorkInv, CountsOK, ListOK, StreamOK, HandledOnce
<1>. QED
  BY <1>1, WorkInvariant, PTL

\* Between the first message of a life and where event_worker reads on no
\* message is skipped, save those that left the stream before it came.
THEOREM StreamReadUnbroken == Spec => []StreamUnbroken
<1>1. WorkInv => StreamUnbroken
  <2>. SUFFICES ASSUME WorkInv, kind = "stream", NEW c \in Readers, tasks[c].first > 0,
                       NEW id \in tasks[c].first..made, id <= tasks[c].cursor \/ id <= tasks[c].from
                PROVE  id \in handled \cup ToSet(tasks[c].batch) \cup gone
    BY DEF StreamUnbroken
  <2>1. c = Reader /\ c \in Consumers
    BY WorkloadAssumption DEF Readers, Reader
  <2>2. made \in Nat /\ tasks[c].first \in Nat /\ tasks[c].cursor \in Nat /\ tasks[c].from \in Nat
    BY <2>1, ItemsGrow DEF WorkInv, TasksOK, TaskType
  <2>3. id \in 1..made /\ tasks[c].first <= id
    BY <2>2
  <2>4. ReaderOK(tasks[c].pc, tasks[c].batch, tasks[c].cursor, tasks[c].from, tasks[c].first, handled, lost, gone, made)
    BY <2>1 DEF WorkInv, StreamOK
  <2>5. id <= tasks[c].cursor
    BY <2>2, <2>3, <2>4 DEF ReaderOK
  <2>. QED
    BY <2>3, <2>4, <2>5 DEF ReaderOK
<1>. QED
  BY <1>1, WorkInvariant, PTL

\* Neither the depth nor the consumed count of a sample exceeds what it shows
\* as produced, and every success it shows has its row.
THEOREM SamplesConsistent == Spec => []SampleConsistent
<1>1. WorkInv => SampleConsistent
  <2>. SUFFICES ASSUME WorkInv, ~forgot
                PROVE  /\ adapter.depth <= redis.stats.produced + faultItems
                       /\ redis.stats.consumed <= redis.stats.produced + faultItems
                       /\ redis.stats.consumed - redis.stats.failures <= Cardinality(rows)
    BY DEF SampleConsistent
  <2>1. handled \cup lost \in SUBSET Items
    BY DEF WorkInv, HistoryOK
  <2>2. Cardinality(handled \cup lost) <= made + faultItems /\ Cardinality(handled \cup lost) \in Nat
    BY <2>1, ItemsFinite DEF WorkInv
  <2>3. redis.stats["consumed"] \in Nat /\ made \in Nat /\ faultItems \in Nat
    <3>1. redis.stats \in StatsType /\ made \in Nat /\ faultItems \in Nat
      BY ItemsGrow DEF WorkInv, RedisOK, RedisType
    <3>. QED
      BY <3>1 DEF StatsType, Statistics
  <2>4. /\ redis.stats["produced"] = made /\ adapter.depth <= made + faultItems
        /\ redis.stats["consumed"] <= Cardinality(handled \cup lost)
        /\ redis.stats["consumed"] - redis.stats["failures"] <= Cardinality(rows)
    BY DEF WorkInv, SampleOK
  <2>5. redis.stats["consumed"] <= made + faultItems
    BY <2>2, <2>3, <2>4
  <2>. QED
    BY <2>4, <2>5
<1>. QED
  BY <1>1, WorkInvariant, PTL

\* A rate shows no growth that did not happen in the time it is divided by,
\* whatever fetches failed and whatever Redis forgot in between.
THEOREM RatesAreReal == Spec => []RatesReal
<1>1. WorkInv => RatesReal
  <2>. SUFFICES ASSUME WorkInv, NEW s \in Statistics PROVE Rate(s) <= grown[s] - adapter.previousAt[s]
    BY DEF RatesReal
  <2>1. redis.stats[s] \in Nat /\ grown[s] \in Nat /\ adapter.previousAt[s] \in Nat
    <3>1. redis.stats \in StatsType /\ grown \in StatsType /\ adapter.previousAt \in StatsType
      BY DEF WorkInv, RedisOK, RedisType, StatsOK, AdapterType
    <3>. QED
      BY <3>1 DEF StatsType
  <2>2. /\ adapter.previousAt[s] <= grown[s]
        /\ adapter.previous # <<>> => redis.stats[s] - adapter.previous[1][s] <= grown[s] - adapter.previousAt[s]
    BY DEF WorkInv, StatsOK
  <2>. QED
    BY <2>1, <2>2 DEF Rate
<1>. QED
  BY <1>1, WorkInvariant, PTL
=============================================================================
