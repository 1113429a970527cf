------------------------------ MODULE Workload ------------------------------
(***************************************************************************)
(* A destination of the demo workload (demo-workload/workload/__main__.py) *)
(* and the agent's RedisAdapter (adapters.py) that watches it: a Redis     *)
(* list fed by a producer or a scheduler and drained by consumers, or the  *)
(* Redis stream of event_publisher and event_worker.  The queue and its    *)
(* statistics live in Redis, whose append-only file may lag what it has    *)
(* answered by a command; a command may fail before or after it took       *)
(* effect.                                                                 *)
(*                                                                         *)
(* Items are numbered in the order they are made, so that a stream id and  *)
(* the item are one number; the items of a redis_backlog experiment have   *)
(* negative numbers.  Left out: the processing durations, the age of the   *)
(* oldest item, the workload's own Prometheus metrics and log lines.       *)
(***************************************************************************)
EXTENDS Integers, FiniteSets, SequencesExt

CONSTANTS Consumers,       \* the consumer processes of a list
          ReadCount,       \* XREAD COUNT
          MaxLen,          \* XADD MAXLEN
          MaxItems,        \* bound: items made by the producer and redis_backlog
          MaxFailures      \* bound: failed commands, failed work and restarts

ASSUME WorkloadAssumption ==
    /\ IsFiniteSet(Consumers) /\ Consumers # {}
    /\ {ReadCount, MaxLen} \subseteq Nat \ {0}
    /\ {MaxItems, MaxFailures} \subseteq Nat

VARIABLES kind,     \* "list" or "stream"
          producer, \* the task that fills it: "up" or "dead"
          tasks,    \* the consumers' tasks
          redis,    \* the destination and its statistics
          disk,     \* what Redis had before its last command
          rows,     \* processed_jobs or processed_events
          adapter,  \* the adapter's task and what it remembers
          made, faultItems,             \* history: items made and pushed
          grown,                        \* history: increments of the statistics
          handled, again, lost, gone,   \* history: see below
          forgot,                       \* history: Redis went back to an older file
          failures

workVars == <<kind, producer, tasks, rows, made, faultItems, grown, handled, again, lost>>
redisVars == <<redis, disk>>
vars == <<workVars, redisVars, adapter, gone, forgot, failures>>

-----------------------------------------------------------------------------
Statistics == {"produced", "consumed", "failures"}
\* The stream has one reader; the list has the consumers.
Readers == IF kind = "stream" THEN {CHOOSE c \in Consumers : TRUE} ELSE Consumers

NoStats == [s \in Statistics |-> 0]
\* A task before its first command; from is where its XREAD started and
\* first (history) the first message it was given in this life.
Fresh == [pc |-> "read", batch |-> <<>>, cursor |-> 0, from |-> 0, first |-> 0]
NoAdapter == [pc |-> "idle", depth |-> 0, previous |-> <<>>, at |-> NoStats, previousAt |-> NoStats]

Init ==
    /\ kind \in {"list", "stream"}
    /\ producer = "up"
    /\ tasks = [c \in Consumers |-> Fresh]
    /\ redis = [items |-> <<>>, stats |-> NoStats, seeded |-> FALSE]
    /\ disk = redis
    /\ rows = {} /\ handled = {} /\ again = {} /\ lost = {} /\ gone = {}
    /\ adapter = NoAdapter
    /\ made = 0 /\ faultItems = 0 /\ grown = NoStats
    /\ forgot = FALSE /\ failures = 0

\* A command, or a transaction, changes what Redis holds.
Executes(new) == redis' = new /\ disk' = redis

-----------------------------------------------------------------------------
(* Producers.                                                              *)

\* seed_queue_stats and the HINCRBYs of one transaction.
Count(added) == [items |-> redis.items, seeded |-> TRUE,
                 stats |-> [s \in Statistics |-> redis.stats[s] + added[s]]]
Produced == [NoStats EXCEPT !.produced = 1]
Grow(added) == grown' = [s \in Statistics |-> grown[s] + added[s]]

\* RPUSH, or XADD, which may trim the stream to its maximal length.
Pushed(id) ==
    LET all == Append(redis.items, id)
    IN {all} \cup (IF kind = "stream" /\ Len(all) > MaxLen
                   THEN {SubSeq(all, Len(all) - MaxLen + 1, Len(all))} ELSE {})

\* Mutant: the item is pushed, the statistic is not incremented with it.
PushUncounted ==
    /\ made' = made + 1
    /\ \E items \in Pushed(made + 1) :
          /\ Executes([redis EXCEPT !.items = items, !.seeded = TRUE])
          /\ gone' = gone \cup (ToSet(redis.items) \ ToSet(items))
    /\ UNCHANGED grown

\* The transaction of enqueue and of event_publisher.
Push ==
    /\ made' = made + 1
    /\ \E items \in Pushed(made + 1) :
          /\ Executes([Count(Produced) EXCEPT !.items = items])
          /\ gone' = gone \cup (ToSet(redis.items) \ ToSet(items))
    /\ Grow(Produced)

\* The producer's turn: the transaction runs, or execute() raises before or
\* after it ran.  scheduler() catches that and goes on; producer(),
\* burst_producer() and event_publisher() end.
Produce ==
    /\ producer = "up" /\ made + faultItems < MaxItems
    /\ \/ Push /\ UNCHANGED <<producer, failures>>
       \/ /\ failures < MaxFailures /\ failures' = failures + 1
          /\ producer' \in IF kind = "list" THEN {"up", "dead"} ELSE {"dead"}
          /\ Push \/ UNCHANGED <<made, redisVars, grown, gone>>
    /\ UNCHANGED <<kind, tasks, rows, adapter, faultItems, handled, again, lost, forgot>>

\* redis_backlog pushes an item that has no id and is not counted as
\* produced, or an LREM of its cleanup removes one that is left.
Backlog ==
    /\ kind = "list"
    /\ \/ /\ made + faultItems < MaxItems /\ faultItems' = faultItems + 1
          /\ Executes([redis EXCEPT !.items = Append(@, -(faultItems + 1))])
          /\ UNCHANGED gone
       \/ /\ \E n \in DOMAIN redis.items :
                /\ redis.items[n] < 0
                /\ Executes([redis EXCEPT !.items = RemoveAt(@, n)])
                /\ gone' = gone \cup {redis.items[n]}
          /\ UNCHANGED faultItems
    /\ UNCHANGED <<kind, producer, tasks, rows, adapter, made, grown, handled, again, lost, forgot, failures>>

-----------------------------------------------------------------------------
(* consumer and event_worker.                                              *)

Sets(c, task) == tasks' = [tasks EXCEPT ![c] = task]

\* Mutant: the consumer looks at the head and leaves it in the list.
BlpopKeeps(c) ==
    /\ kind = "list" /\ tasks[c].pc = "read" /\ redis.items # <<>>
    /\ UNCHANGED redisVars
    /\ Sets(c, [tasks[c] EXCEPT !.pc = "work", !.batch = <<Head(redis.items)>>])
    /\ UNCHANGED <<kind, producer, rows, adapter, made, faultItems, grown, handled, again, lost, gone, forgot, failures>>

\* Mutant: an item without an id is left at the head of the list.
BlpopLeavesFault(c) ==
    /\ kind = "list" /\ tasks[c].pc = "read" /\ redis.items # <<>> /\ Head(redis.items) > 0
    /\ Executes([redis EXCEPT !.items = Tail(@)])
    /\ Sets(c, [tasks[c] EXCEPT !.pc = "work", !.batch = <<Head(redis.items)>>])
    /\ UNCHANGED <<kind, producer, rows, adapter, made, faultItems, grown, handled, again, lost, gone, forgot, failures>>

\* BLPOP takes the head.  A timeout changes nothing and is not a step.
Blpop(c) ==
    /\ kind = "list" /\ tasks[c].pc = "read" /\ redis.items # <<>>
    /\ Executes([redis EXCEPT !.items = Tail(@)])
    /\ Sets(c, [tasks[c] EXCEPT !.pc = "work", !.batch = <<Head(redis.items)>>])
    /\ UNCHANGED <<kind, producer, rows, adapter, made, faultItems, grown, handled, again, lost, gone, forgot, failures>>

\* BLPOP raises before or after it took the head; so may LLEN or XLEN, and
\* XREAD.  Nothing catches it and run() does not look at the task: the
\* process stays and its task is over.
ReadFails(c) ==
    /\ c \in Readers /\ tasks[c].pc \in {"read", "blocked"}
    /\ failures < MaxFailures /\ failures' = failures + 1
    /\ Sets(c, [Fresh EXCEPT !.pc = "dead"])
    /\ \/ UNCHANGED <<redisVars, lost>>
       \/ /\ kind = "list" /\ redis.items # <<>>
          /\ Executes([redis EXCEPT !.items = Tail(@)])
          /\ lost' = lost \cup {Head(redis.items)}
    /\ UNCHANGED <<kind, producer, rows, adapter, made, faultItems, grown, handled, again, gone, forgot>>

\* Mutant: every XREAD asks for "$".
FromNow(t) == made

\* "$" stands for what the stream has when XREAD arrives; the id of the last
\* message read replaces it.
From(t) == IF t.cursor = 0 THEN made ELSE t.cursor

XreadStarts(c) ==
    /\ kind = "stream" /\ c \in Readers /\ tasks[c].pc = "read"
    /\ Sets(c, [tasks[c] EXCEPT !.pc = "blocked", !.from = From(tasks[c])])
    /\ UNCHANGED <<kind, producer, redisVars, rows, adapter, made, faultItems, grown, handled, again, lost, gone, forgot, failures>>

\* A stream is in the order of its ids: what comes after id starts after the
\* first n messages.
After(id, n) == \A i \in DOMAIN redis.items : redis.items[i] > id <=> i > n

\* XREAD answers with at most ReadCount messages, or with none in time.
\* cursor moves to a message before it is handled.
XreadAnswers(c) ==
    /\ tasks[c].pc = "blocked"
    /\ \E n \in 0..Len(redis.items) :
          /\ After(tasks[c].from, n)
          /\ LET last == IF Len(redis.items) > n + ReadCount THEN n + ReadCount ELSE Len(redis.items)
                 batch == SubSeq(redis.items, n + 1, last)
             IN IF batch = <<>>
                THEN Sets(c, [tasks[c] EXCEPT !.pc = "read", !.from = 0])
                ELSE Sets(c, [tasks[c] EXCEPT !.pc = "work", !.from = 0, !.batch = batch, !.cursor = Head(batch),
                                              !.first = IF @ = 0 THEN Head(batch) ELSE @])
    /\ UNCHANGED <<kind, producer, redisVars, rows, adapter, made, faultItems, grown, handled, again, lost, gone, forgot, failures>>

\* record_processing.
Consumed(ok) == [NoStats EXCEPT !.consumed = 1, !.failures = IF ok THEN 0 ELSE 1]

RecordProcessing(ok) ==
    /\ Executes(Count(Consumed(ok)))
    /\ Grow(Consumed(ok))

Handle(id) == handled' = handled \cup {id} /\ again' = again \cup (handled \cap {id})

\* Mutant: the task goes on working when its batch is used up.
NextItemGoesOn(t) ==
    LET rest == Tail(t.batch)
    IN [t EXCEPT !.batch = rest, !.cursor = IF rest = <<>> THEN @ ELSE Head(rest)]

\* Mutant: cursor stays at the first message of the batch.
NextItemKeepsCursor(t) ==
    LET rest == Tail(t.batch)
    IN IF rest = <<>> THEN [t EXCEPT !.pc = "read", !.batch = rest]
       ELSE [t EXCEPT !.batch = rest]

\* The loop goes on with the next message, or with the next read.
NextItem(t) ==
    LET rest == Tail(t.batch)
    IN IF rest = <<>> THEN [t EXCEPT !.pc = "read", !.batch = rest]
       ELSE [t EXCEPT !.batch = rest, !.cursor = Head(rest)]

\* One item: the row is inserted, or the work fails before or after the
\* insert took effect (an item of redis_backlog has no id and always fails);
\* record_processing follows, and its own failure is only logged.
Work(c) ==
    /\ tasks[c].pc = "work"
    /\ LET id == Head(tasks[c].batch)
       IN \E ok, recorded \in BOOLEAN :
             /\ id < 0 => ~ok
             /\ LET failed == (IF ok \/ id < 0 THEN 0 ELSE 1) + (IF recorded THEN 0 ELSE 1)
                IN failures + failed <= MaxFailures /\ failures' = failures + failed
             /\ rows' \in IF ok THEN {rows \cup {id}} ELSE IF id < 0 THEN {rows} ELSE {rows, rows \cup {id}}
             /\ \/ RecordProcessing(ok)
                \/ ~recorded /\ UNCHANGED <<redisVars, grown>>
             /\ Handle(id)
    /\ Sets(c, NextItem(tasks[c]))
    /\ UNCHANGED <<kind, producer, adapter, made, faultItems, lost, gone, forgot>>

\* The process is stopped or killed and started again.  A stop cancels the
\* task: its finally still records the item in hand as failed; a kill, or a
\* cancellation during the recording, does not.  The insert may have taken
\* effect; what was in hand is lost.
Restart(c) ==
    /\ c \in Readers
    /\ failures < MaxFailures /\ failures' = failures + 1
    /\ \/ UNCHANGED <<redisVars, grown>>
       \/ tasks[c].pc = "work" /\ RecordProcessing(FALSE)
    /\ \/ UNCHANGED rows
       \/ /\ tasks[c].pc = "work" /\ Head(tasks[c].batch) > 0
          /\ rows' = rows \cup {Head(tasks[c].batch)}
    /\ lost' = lost \cup ToSet(tasks[c].batch)
    /\ Sets(c, Fresh)
    /\ UNCHANGED <<kind, producer, adapter, made, faultItems, handled, again, gone, forgot>>

-----------------------------------------------------------------------------
(* Redis syncs its append-only file once a second: after a restart its     *)
(* last command may be forgotten (the bound of the model; it may be more). *)

RedisRestart ==
    /\ disk # redis
    /\ failures < MaxFailures /\ failures' = failures + 1
    /\ forgot' = TRUE
    /\ redis' = disk
    /\ gone' = gone \cup (ToSet(redis.items) \ ToSet(disk.items))
    /\ UNCHANGED <<workVars, disk, adapter>>

-----------------------------------------------------------------------------
(* RedisAdapter.collect().                                                 *)

\* Mutant: _previous_at is set before the fetch, which may fail.
FetchDepthMovesTime ==
    /\ adapter.pc = "idle"
    /\ adapter' = [adapter EXCEPT !.pc = "stats", !.at = grown, !.previousAt = grown, !.depth = Len(redis.items)]
    /\ UNCHANGED <<workVars, redisVars, gone, forgot, failures>>

\* collected_at is read and LLEN or XLEN asked.  The clock is the statistics
\* themselves: at and previousAt are what they had grown to at that time.
FetchDepth ==
    /\ adapter.pc = "idle"
    /\ adapter' = [adapter EXCEPT !.pc = "stats", !.at = grown, !.depth = Len(redis.items)]
    /\ UNCHANGED <<workVars, redisVars, gone, forgot, failures>>

\* A counter's growth since the last sample that had it, 0 when the sample
\* yields no rate.
Rate(s) == IF adapter.previous # <<>> /\ redis.stats[s] >= adapter.previous[1][s]
           THEN redis.stats[s] - adapter.previous[1][s] ELSE 0

\* HGETALL is asked and its answer remembered.  The metrics collect() then
\* returns are adapter.depth, redis.stats and Rate in this state.
CollectStats ==
    /\ adapter.pc = "stats"
    /\ adapter' = [NoAdapter EXCEPT !.previousAt = adapter.at,
                      !.previous = IF redis.seeded THEN <<redis.stats>> ELSE adapter.previous]
    /\ UNCHANGED <<workVars, redisVars, gone, forgot, failures>>

\* A failing fetch leaves what is remembered alone; a restarted agent
\* remembers nothing.
FetchFails ==
    /\ adapter.pc = "stats"
    /\ failures < MaxFailures /\ failures' = failures + 1
    /\ adapter' \in {[adapter EXCEPT !.pc = "idle", !.depth = 0, !.at = NoStats], NoAdapter}
    /\ UNCHANGED <<workVars, redisVars, gone, forgot>>

-----------------------------------------------------------------------------
Next ==
    \/ Produce \/ Backlog
    \/ \E c \in Consumers :
          \/ Blpop(c) \/ XreadStarts(c) \/ XreadAnswers(c) \/ ReadFails(c)
          \/ Work(c) \/ Restart(c)
    \/ RedisRestart
    \/ FetchDepth \/ CollectStats \/ FetchFails

Spec == Init /\ [][Next]_vars

\* Each process runs its own event loop: a task that is not dead takes its
\* next step, and Redis answers.  Nothing restarts a dead task.
Fairness == \A c \in Consumers : WF_vars(Blpop(c) \/ XreadStarts(c) \/ XreadAnswers(c) \/ Work(c))
FairSpec == Spec /\ Fairness

-----------------------------------------------------------------------------
Items == (1..made) \cup {-i : i \in 1..faultItems}
InHand == UNION {ToSet(tasks[c].batch) : c \in Consumers}
StatsType == [Statistics -> Nat]
RedisType == [items : Seq(Int), stats : StatsType, seeded : BOOLEAN]

\* The shape of every variable; a dead task holds no item, and a task that
\* works holds one.
TypeOK ==
    /\ kind \in {"list", "stream"} /\ producer \in {"up", "dead"}
    /\ \A c \in Consumers :
          /\ tasks[c].pc \in {"read", "blocked", "work", "dead"}
          /\ tasks[c].batch \in Seq(Items) /\ Len(tasks[c].batch) <= ReadCount
          /\ (tasks[c].batch # <<>>) <=> tasks[c].pc = "work"
          /\ {tasks[c].cursor, tasks[c].from, tasks[c].first} \subseteq 0..made
    /\ redis \in RedisType /\ disk \in RedisType
    /\ UNION {ToSet(redis.items), ToSet(disk.items), rows, handled, again, lost, gone} \subseteq Items
    /\ adapter.pc \in {"idle", "stats"} /\ adapter.depth \in Nat
    /\ {grown, adapter.at, adapter.previousAt} \subseteq StatsType
    /\ made \in 0..MaxItems /\ faultItems \in 0..(MaxItems - made)
    /\ failures \in 0..MaxFailures /\ forgot \in BOOLEAN

\* Unless Redis went back to an older file, every item pushed on a list is in
\* exactly one place: the list, the hands of one consumer, handled, lost with
\* the consumer that held it, or removed by the experiment's cleanup.
Accounted ==
    kind = "list" /\ ~forgot =>
    LET places == <<ToSet(redis.items), InHand, handled, lost, gone>>
    IN /\ Items = UNION Range(places)
       /\ \A i, j \in 1..5 : i # j => places[i] \cap places[j] = {}
       /\ \A c, d \in Consumers : c # d => ToSet(tasks[c].batch) \cap ToSet(tasks[d].batch) = {}

\* No item is handled twice: not by two consumers, not by a consumer that was
\* restarted; only a list that Redis brought back holds popped items again.
HandledOnce == (kind = "stream" \/ ~forgot) => again = {}

\* From the first message event_worker is given in a life to where it reads
\* on, it handles every message or still holds it, save those that left the
\* stream before it came to them.
StreamUnbroken ==
    kind = "stream" =>
    \A c \in Readers : tasks[c].first > 0 =>
       \A id \in tasks[c].first..made :
          id <= tasks[c].cursor \/ id <= tasks[c].from => id \in handled \cup ToSet(tasks[c].batch) \cup gone

\* A sample reads the depth first and the statistics later, from a queue that
\* moves: neither what it shows as waiting nor what it shows as consumed
\* exceeds what it shows as produced, the items of an experiment apart, and
\* what it shows as consumed without failure has its row in PostgreSQL.
SampleConsistent ==
    ~forgot /\ adapter.pc = "stats" =>
       /\ adapter.depth <= redis.stats.produced + faultItems
       /\ redis.stats.consumed <= redis.stats.produced + faultItems
       /\ redis.stats.consumed - redis.stats.failures <= Cardinality(rows)

\* A rate never shows growth that did not happen in the time it is divided
\* by, whatever fetches failed and whatever Redis forgot in between.
RatesReal ==
    adapter.pc = "stats" => \A s \in Statistics : Rate(s) <= grown[s] - adapter.previousAt[s]

\* A queued item leaves the list, however the work on others fails, unless
\* every consumer's task has ended.
Drains ==
    (kind = "list" /\ redis.items # <<>>) ~>
    (redis.items = <<>> \/ \A c \in Consumers : tasks[c].pc = "dead")
=============================================================================
