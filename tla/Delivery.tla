------------------------------ MODULE Delivery ------------------------------
(***************************************************************************)
(* The path of one agent's telemetry from a collector to the server:       *)
(* Agent.emit and Agent.sender (runtime.py), the SQLite spool (spool.py),  *)
(* the HTTP client (transport.py) and, as one atomic step, the server's    *)
(* telemetry_batch/ingest_batch (api.py, ingestion.py), which serialises   *)
(* the deliveries of an agent on that agent's row.                         *)
(*                                                                         *)
(* An event is its row id in the spool (AUTOINCREMENT, never reused; its   *)
(* uuid is as unique).  rows is the history of all the rows ever inserted; *)
(* spool is the set of those the events table still has.                   *)
(***************************************************************************)
EXTENDS Integers, Sequences, FiniteSets, FiniteSetsExt

CONSTANTS Collectors,      \* the tasks that call Agent.emit
          EmitCounts,      \* how many events one emit may carry
          Sizes,           \* encoded sizes of telemetry events
          LossSize,        \* encoded size of an agent.spool.data_loss event
          MaxBytes,        \* spool_max_bytes
          NormalLimit,     \* the 500 of sender() and of send()
          BackfillLimit,   \* the 2_000 of sender()
          BatchBytes,      \* batch()'s max_bytes
          ServerNormal,    \* settings.normal_batch_events
          ServerBackfill,  \* settings.backfill_batch_events
          MaxEvents,       \* bound: no emit starts beyond this many rows
          MaxFaults,       \* bound: failed or abandoned requests
          MaxCrashes       \* bound: agent crashes

ASSUME SizeAssumption ==
    /\ EmitCounts \subseteq Nat \ {0}
    /\ Sizes \subseteq Nat
    /\ LossSize \in Nat
    /\ MaxBytes \in Nat
    /\ BatchBytes \in Nat

ASSUME LimitAssumption ==
    /\ NormalLimit \in Nat \ {0}
    /\ BackfillLimit \in Nat \ {0}
    /\ ServerNormal \in Nat
    /\ ServerBackfill \in Nat

\* The literals of the agent against the settings of server/config.py: true
\* of the defaults, but the server's half can be set by its environment.
LimitsAgree == NormalLimit <= ServerNormal /\ BackfillLimit <= ServerBackfill

ASSUME BoundAssumption ==
    /\ MaxEvents \in Nat
    /\ MaxFaults \in Nat
    /\ MaxCrashes \in Nat

Free == "free"   \* nobody holds the spool's lock

ASSUME CollectorAssumption == Free \notin Collectors

VARIABLES rows,        \* every row ever inserted in the events table
          spool,       \* ids the events table holds
          quarantine,  \* ids in the quarantine table
          saved,       \* the "sequence" entry of the state table
          evicted,     \* history: ids deleted by _enforce_limits_sync
          seq,         \* Normalizer.sequence
          lock,        \* who holds SQLiteSpool._lock across two transactions
          emitting,    \* per collector: where its emit() stands
          sender,      \* where sender() stands, and its local variables
          stored,      \* server: events with an EventReceipt and a row
          copies,      \* history: how often each event was inserted
          receipts,    \* server: BatchReceipt responses by batch
          late,        \* abandoned requests the server may still process
          faults,      \* failed or abandoned requests so far
          crashes      \* agent crashes so far

agentVars  == <<rows, spool, quarantine, saved, evicted, seq, lock, emitting>>
serverVars == <<stored, copies, receipts>>
boundVars  == <<faults, crashes>>
vars == <<agentVars, sender, serverVars, late, boundVars>>

-----------------------------------------------------------------------------
Ids == 1..Len(rows)
NoReply == [status |-> 0, accepted |-> {}, duplicates |-> {}, rejected |-> {}]

IdleEmit == [pc |-> "idle", evicted |-> {}]
IdleSender == [pc |-> "usage", backfilling |-> FALSE, newestNext |-> TRUE,
               batch |-> {}, reply |-> NoReply]

\* Bytes of a set of rows: SELECT SUM(size).
Bytes(S) == MapThenSumSet(LAMBDA i : rows[i].size, S)

Init ==
    /\ rows = << >>
    /\ spool = {}
    /\ quarantine = {}
    /\ saved = 0
    /\ evicted = {}
    /\ seq = 0
    /\ lock = Free
    /\ emitting = [c \in Collectors |-> IdleEmit]
    /\ sender = IdleSender
    /\ stored = {}
    /\ copies = [i \in {} |-> 0]
    /\ receipts = {}
    /\ late = {}
    /\ faults = 0
    /\ crashes = 0

-----------------------------------------------------------------------------
(* Agent.emit, one collector task at a time through the spool's lock.      *)

NewRows(n, s, v, lost) ==
    [k \in 1..n |-> [size |-> s, valid |-> v, seq |-> seq + k, lost |-> lost]]

\* Mutant: append() gives the lock up between its two transactions.
InsertUnlocked(c, n, s, v, lost, pc) ==
    /\ lock = Free
    /\ rows' = rows \o NewRows(n, s, v, lost)
    /\ copies' = [i \in 1..(Len(rows) + n) |-> IF i \in Ids THEN copies[i] ELSE 0]
    /\ seq' = seq + n
    /\ spool' = spool \cup (Len(rows) + 1)..(Len(rows) + n)
    /\ lock' = lock
    /\ emitting' = [emitting EXCEPT ![c].pc = pc]

\* The INSERT transaction of _append_sync.  The lock is kept: the limits are
\* enforced by a second transaction of the same thread.
Insert(c, n, s, v, lost, pc) ==
    /\ lock = Free
    /\ rows' = rows \o NewRows(n, s, v, lost)
    /\ copies' = [i \in 1..(Len(rows) + n) |-> IF i \in Ids THEN copies[i] ELSE 0]
    /\ seq' = seq + n
    /\ spool' = spool \cup (Len(rows) + 1)..(Len(rows) + n)
    /\ lock' = c
    /\ emitting' = [emitting EXCEPT ![c].pc = pc]

\* emit([events]): normalise n events and append them.
EmitAppend(c) ==
    /\ emitting[c].pc = "idle"
    /\ \E n \in EmitCounts, s \in Sizes, v \in BOOLEAN :
          /\ Len(rows) + n <= MaxEvents
          /\ Insert(c, n, s, v, {}, "enforce")
    /\ UNCHANGED <<quarantine, saved, evicted, sender, stored, receipts, late, boundVars>>

\* Mutant: the rows are visited in the order of batch(newest=True).
SelectedNewest(h) ==
    LET aged == {i \in spool : i <= h}
        total == Bytes(spool) - Bytes(aged)
    IN aged \cup {i \in spool : total - Bytes({j \in spool : j > i}) > MaxBytes}

\* What _enforce_limits_sync selects when the rows up to id h are older than
\* max_age_seconds: the aged rows, whose bytes leave the total first, and
\* then, oldest first, every row visited while the running total is above
\* MaxBytes.  The loop subtracts the size of each row it visits, the aged
\* ones included.
Selected(h) ==
    LET aged == {i \in spool : i <= h}
        total == Bytes(spool) - Bytes(aged)
    IN aged \cup {i \in spool : total - Bytes({j \in spool : j < i}) > MaxBytes}

\* The DELETE transaction of _enforce_limits_sync, and the return of append.
\* time.time() may step, so any prefix of the rows may be aged.
Enforce(c, pc) ==
    /\ lock = c
    /\ \E h \in 0..Len(rows) :
          LET gone == Selected(h) IN
          /\ spool' = spool \ gone
          /\ evicted' = evicted \cup gone
          /\ emitting' = [emitting EXCEPT ![c] =
                            [pc |-> IF gone # {} THEN pc ELSE "sequence",
                             evicted |-> IF pc = "loss" THEN gone ELSE {}]]
    /\ lock' = Free

EmitEnforce(c) ==
    /\ emitting[c].pc = "enforce"
    /\ Enforce(c, "loss")
    /\ UNCHANGED <<rows, quarantine, saved, seq, sender, serverVars, late, boundVars>>

\* Mutant: the event counts all the evictions since the start.
LossAppendCumulative(c) ==
    /\ emitting[c].pc = "loss"
    /\ Insert(c, 1, LossSize, TRUE, evicted, "lossEnforce")
    /\ UNCHANGED <<quarantine, saved, evicted, sender, stored, receipts, late, boundVars>>

\* Events were evicted: emit appends one agent.spool.data_loss event.
LossAppend(c) ==
    /\ emitting[c].pc = "loss"
    /\ Insert(c, 1, LossSize, TRUE, emitting[c].evicted, "lossEnforce")
    /\ UNCHANGED <<quarantine, saved, evicted, sender, stored, receipts, late, boundVars>>

\* The second append enforces the limits too; emit ignores what it returns.
LossEnforce(c) ==
    /\ emitting[c].pc = "lossEnforce"
    /\ Enforce(c, "sequence")
    /\ UNCHANGED <<rows, quarantine, saved, seq, sender, serverVars, late, boundVars>>

\* The trailing set_state("sequence").  Its argument is read when the call
\* queues for the lock, and asyncio.Lock is first come first served.
SaveSequence(c) ==
    /\ emitting[c].pc = "sequence"
    /\ lock = Free
    /\ saved' = seq
    /\ emitting' = [emitting EXCEPT ![c] = IdleEmit]
    /\ UNCHANGED <<rows, spool, quarantine, evicted, seq, lock, sender, serverVars, late, boundVars>>

-----------------------------------------------------------------------------
(* The server, called with one batch.  A batch is identified with the set  *)
(* of its events: send() derives the batch id from the digest of the       *)
(* events, which it always sends in row order.                             *)

\* Mutant: send() never declares a backfill.
FitsNormal(B) == Cardinality(B) <= ServerNormal

\* send() declares a backfill by the length of what it sends; the boundary
\* checks of telemetry_batch and of ingest_batch.
Fits(B) == IF Cardinality(B) > NormalLimit
           THEN Cardinality(B) <= ServerBackfill
           ELSE Cardinality(B) <= ServerNormal

Known(B) == \E r \in receipts : r.batch = B

ValidIn(B) == {e \in B : rows[e].valid}

\* Mutant: the event receipts are not consulted.
AcceptedAgain(B) == ValidIn(B)

\* The events ingest_batch inserts: valid, and without an EventReceipt.
Accepted(B) == ValidIn(B) \ stored

Response(B) == [status |-> 200,
                accepted |-> Accepted(B),
                duplicates |-> ValidIn(B) \cap stored,
                rejected |-> B \ ValidIn(B)]

ReplyTo(B) == IF ~Fits(B) THEN [NoReply EXCEPT !.status = 413]
              ELSE IF Known(B) THEN (CHOOSE r \in receipts : r.batch = B).reply
              ELSE Response(B)

\* Mutant: the batch receipt commits although the inserts rolled back.
IngestReceiptOnly(B) ==
    /\ receipts' = IF Fits(B) /\ ~Known(B)
                   THEN receipts \cup {[batch |-> B, reply |-> Response(B)]} ELSE receipts
    /\ UNCHANGED <<stored, copies>>

\* The transaction: event receipts, samples and the batch receipt commit
\* together; a known batch and a refused one change nothing.
Ingest(B) ==
    \/ /\ Fits(B) /\ ~Known(B)
       /\ stored' = stored \cup Accepted(B)
       /\ copies' = [i \in Ids |->
                       IF i \in Accepted(B) THEN copies[i] + 1 ELSE copies[i]]
       /\ receipts' = receipts \cup {[batch |-> B, reply |-> Response(B)]}
    \/ /\ ~Fits(B) \/ Known(B)
       /\ UNCHANGED serverVars

-----------------------------------------------------------------------------
(* Agent.sender.  Backoff delays are time only and are left out.           *)

\* usage(): a reading that is stale when batch() runs.
SenderUsage ==
    /\ sender.pc = "usage"
    /\ lock = Free
    /\ sender' = [sender EXCEPT !.pc = "batch",
                                !.backfilling = Cardinality(spool) > NormalLimit]
    /\ UNCHANGED <<agentVars, serverVars, late, boundVars>>

\* The rows batch() visits before row i.
Before(i, newest) == {j \in spool : IF newest THEN j > i ELSE j < i}

\* _batch_sync: at most limit rows from one end, as many as fit BatchBytes,
\* the first one whatever its size.
Batch(limit, newest) ==
    {i \in spool :
        /\ Cardinality(Before(i, newest)) < limit
        /\ \/ Before(i, newest) = {}
           \/ Bytes(Before(i, newest) \cup {i}) <= BatchBytes}

\* batch(), and the request unless the queue is empty (then a second's wait).
SenderBatch ==
    /\ sender.pc = "batch"
    /\ lock = Free
    /\ LET records == Batch(IF sender.backfilling THEN BackfillLimit ELSE NormalLimit,
                            sender.backfilling /\ sender.newestNext)
       IN sender' = [sender EXCEPT
                        !.pc = IF records = {} THEN "usage" ELSE "sent",
                        !.batch = records,
                        !.backfilling = FALSE,   \* read again by the next usage()
                        !.newestNext = IF sender.backfilling THEN ~@ ELSE @]
    /\ UNCHANGED <<agentVars, serverVars, late, boundVars>>

\* The server handles the request and its answer reaches send() in time.
ServerReply ==
    /\ sender.pc = "sent"
    /\ Ingest(sender.batch)
    /\ sender' = [sender EXCEPT !.pc = "answered", !.reply = ReplyTo(sender.batch)]
    /\ UNCHANGED <<rows, spool, quarantine, saved, evicted, seq, lock, emitting, late, boundVars>>

Abandoned == [IdleSender EXCEPT !.newestNext = sender.newestNext]

\* No usable answer (a retryable status, a timeout, a broken connection):
\* sender() backs off and starts again.  The request may have been lost, the
\* server may be about to process it, or its answer was lost after commit.
RequestFails ==
    /\ sender.pc \in {"sent", "answered"}
    /\ faults < MaxFaults
    /\ faults' = faults + 1
    /\ \/ late' = late
       \/ sender.pc = "sent" /\ late' = late \cup {sender.batch}
    /\ sender' = Abandoned
    /\ UNCHANGED <<agentVars, serverVars, crashes>>

\* The server processes a request nobody waits for.
LateRequest ==
    /\ \E B \in late : Ingest(B) /\ late' = late \ {B}
    /\ UNCHANGED <<rows, spool, quarantine, saved, evicted, seq, lock, emitting, sender, boundVars>>

\* What a 2xx answer lets the agent delete.
Acknowledged(reply) == reply.accepted \cup reply.duplicates

\* Mutant: a 2xx acknowledges the whole batch.
AcknowledgeBatch ==
    /\ sender.pc = "answered"
    /\ sender.reply.status = 200
    /\ lock = Free
    /\ spool' = spool \ sender.batch
    /\ sender' = [sender EXCEPT !.pc = "quarantine"]
    /\ UNCHANGED <<rows, quarantine, saved, evicted, seq, lock, emitting, serverVars, late, boundVars>>

\* 2xx: acknowledge() ...
Acknowledge ==
    /\ sender.pc = "answered"
    /\ sender.reply.status = 200
    /\ lock = Free
    /\ spool' = spool \ Acknowledged(sender.reply)
    /\ sender' = [sender EXCEPT !.pc = "quarantine"]
    /\ UNCHANGED <<rows, quarantine, saved, evicted, seq, lock, emitting, serverVars, late, boundVars>>

\* Mutant: rows that left the spool meanwhile are quarantined too.
QuarantineGone(S) ==
    /\ lock = Free
    /\ quarantine' = quarantine \cup S
    /\ spool' = spool \ S
    /\ sender' = Abandoned
    /\ UNCHANGED <<rows, saved, evicted, seq, lock, emitting, serverVars, late, boundVars>>

\* _quarantine_sync moves the rows the spool still has, in one transaction.
QuarantineRows(S) ==
    /\ lock = Free
    /\ quarantine' = quarantine \cup (S \cap spool)
    /\ spool' = spool \ S
    /\ sender' = Abandoned
    /\ UNCHANGED <<rows, saved, evicted, seq, lock, emitting, serverVars, late, boundVars>>

\* ... then quarantine() of the rejected events.
QuarantineRejected ==
    /\ sender.pc = "quarantine"
    /\ QuarantineRows(sender.reply.rejected)

\* Mutant: a refused batch is retried.
RetryRefused ==
    /\ sender.pc = "answered"
    /\ sender.reply.status = 413
    /\ sender' = Abandoned
    /\ UNCHANGED <<agentVars, serverVars, late, boundVars>>

\* Any other 4xx is permanent for the whole batch.
QuarantineBatch ==
    /\ sender.pc = "answered"
    /\ sender.reply.status = 413
    /\ QuarantineRows(sender.batch)

-----------------------------------------------------------------------------
\* Mutant: initialize() starts a new sequence.
CrashForgets ==
    /\ crashes < MaxCrashes
    /\ crashes' = crashes + 1
    /\ seq' = 0
    /\ lock' = Free
    /\ emitting' = [c \in Collectors |-> IdleEmit]
    /\ sender' = IdleSender
    /\ late' = late
    /\ UNCHANGED <<rows, spool, quarantine, saved, evicted, serverVars, faults>>

\* The agent process dies and starts again: initialize() restores the saved
\* sequence; the request in flight may still reach the server.
Crash ==
    /\ crashes < MaxCrashes
    /\ crashes' = crashes + 1
    /\ seq' = saved
    /\ lock' = Free
    /\ emitting' = [c \in Collectors |-> IdleEmit]
    /\ sender' = IdleSender
    /\ \/ late' = late
       \/ sender.pc = "sent" /\ late' = late \cup {sender.batch}
    /\ UNCHANGED <<rows, spool, quarantine, saved, evicted, serverVars, faults>>

EmitStep(c) == \/ EmitEnforce(c) \/ LossAppend(c) \/ LossEnforce(c) \/ SaveSequence(c)

SenderStep == \/ SenderUsage \/ SenderBatch \/ ServerReply
              \/ Acknowledge \/ QuarantineRejected \/ QuarantineBatch

Next == \/ \E c \in Collectors : EmitAppend(c) \/ EmitStep(c)
        \/ SenderStep
        \/ RequestFails
        \/ LateRequest
        \/ Crash

Spec == Init /\ [][Next]_vars
\* Every started thread, request and task runs on: the event loop and the
\* spool's lock are first come first served, and send() has a timeout.
Fairness == /\ WF_vars(SenderStep)
            /\ \A c \in Collectors : WF_vars(EmitStep(c))

FairSpec == Spec /\ Fairness

-----------------------------------------------------------------------------
(* Properties.                                                             *)

Row == [size : Nat, valid : BOOLEAN, seq : Nat, lost : SUBSET Nat]

Reply == [status : {0, 200, 413}, accepted : SUBSET Ids,
          duplicates : SUBSET Ids, rejected : SUBSET Ids]

SenderState == [pc : {"usage", "batch", "sent", "answered", "quarantine"},
                backfilling : BOOLEAN, newestNext : BOOLEAN,
                batch : SUBSET Ids, reply : Reply]

EmitState == [pc : {"idle", "enforce", "loss", "lossEnforce", "sequence"},
              evicted : SUBSET Nat]

\* The shape of the state: ids are rows, and the lock is held exactly while
\* an append is between its two transactions.
TypeOK ==
    /\ rows \in Seq(Row)
    /\ spool \subseteq Ids /\ quarantine \subseteq Ids
    /\ evicted \subseteq Ids /\ stored \subseteq Ids
    /\ saved \in Nat /\ seq \in Nat /\ faults \in Nat /\ crashes \in Nat
    /\ copies \in [Ids -> Nat]
    /\ late \subseteq SUBSET Ids
    /\ receipts \subseteq [batch : SUBSET Ids, reply : Reply]
    /\ sender \in SenderState
    /\ emitting \in [Collectors -> EmitState]
    /\ lock \in Collectors \cup {Free}
    /\ \A c \in Collectors : lock = c <=> emitting[c].pc \in {"enforce", "lossEnforce"}

\* No event disappears: whatever was committed to the spool is still there,
\* or the server has it, or it is in the quarantine table, or the limits of
\* the spool evicted it -- across lost answers, requests processed after the
\* agent gave up on them, evictions of rows in flight and agent crashes
\* (plan.md: "recovers with no unaccounted loss").
Accounted == Ids = spool \cup stored \cup quarantine \cup evicted

\* Quarantine is for events the server can never take: no valid event and
\* no stored event ends there, because no batch that sender() composes, from
\* a usage() reading that may be stale, exceeds the server's limits.
OnlyRefusedQuarantined ==
    LimitsAgree => \A i \in quarantine : ~rows[i].valid /\ i \notin stored

\* The server inserts an event at most once however it is batched, retried
\* or delayed ("Event receipts prevent duplication across different batches").
StoredOnce == \A i \in Ids : copies[i] = IF i \in stored THEN 1 ELSE 0

Backed(reply) == /\ Acknowledged(reply) \subseteq stored
                 /\ \A i \in reply.rejected : ~rows[i].valid

\* An answer, fresh or replayed from a receipt of long ago, lets the agent
\* delete only events that are stored, and condemns only invalid events.
RepliesBacked == Backed(sender.reply) /\ \A r \in receipts : Backed(r.reply)

\* The data-loss events of emit() count evictions once: no evicted event is
\* reported by two of them, none reports an event that was not evicted, even
\* when collectors evict concurrently.
LossReportedOnce ==
    /\ \A i \in Ids : rows[i].lost \subseteq evicted
    /\ \A i, j \in Ids : i # j => rows[i].lost \cap rows[j].lost = {}

\* The limits give up the oldest rows: no evicted row is newer than a row
\* that stays.
EvictsOldestFirst ==
    [][\A i \in evicted' \ evicted, j \in spool' : i < j]_vars

\* The saved sequence never goes back and every new event is above it, so
\* the sequence of an event whose emit() completed is not issued again after
\* a crash.
SequenceAdvances ==
    [][/\ saved' >= saved
       /\ \A i \in (Len(rows) + 1)..Len(rows') : rows'[i].seq > saved]_vars

\* The abstract account of the events, which this module implements when the
\* limits agree.
Account == INSTANCE Custody WITH admitted <- Ids, held <- spool, refused <- quarantine

ImplementsCustody == Account!Spec

\* Once the faults stop, every spooled event leaves the spool.
Drains == \A i \in 1..(2 * MaxEvents) : i \in spool ~> i \notin spool

\* "Default spool limits are 512 MiB or 24 hours" (plan.md): after the limits
\* were enforced, the rows that remain fit MaxBytes.
SpoolWithinCapacity ==
    [][\A c \in Collectors :
          EmitEnforce(c) \/ LossEnforce(c) => Bytes(spool') <= MaxBytes]_vars

\* "emit explicit gap/loss events if capacity forces eviction" (plan.md):
\* when no emit() is under way, every evicted event was reported.
EvictionsReported ==
    (\A c \in Collectors : emitting[c].pc = "idle") =>
        evicted \subseteq UNION {rows[i].lost : i \in Ids}

=============================================================================
