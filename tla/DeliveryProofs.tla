--------------------------- MODULE DeliveryProofs ---------------------------
(***************************************************************************)
(* Proofs about Delivery, for any collectors, sizes, limits and bounds.    *)
(***************************************************************************)
EXTENDS Delivery, NumberLemmas, SequenceTheorems

\* Appending the values of a function on 1..n to a sequence.
LEMMA AppendFunction ==
    ASSUME NEW S, NEW s \in Seq(S), NEW n \in Nat, NEW f \in [1..n -> S]
    PROVE  /\ s \o f \in Seq(S)
           /\ Len(s \o f) = Len(s) + n
           /\ \A i \in 1..Len(s) : (s \o f)[i] = s[i]
           /\ \A i \in (Len(s) + 1)..(Len(s) + n) : (s \o f)[i] = f[i - Len(s)]
<1>1. f \in Seq(S)
  BY SeqDef
<1>2. Len(f) = n
  BY <1>1, LenProperties
<1>3. Len(s) \in Nat
  BY LenProperties
<1>4. /\ s \o f \in Seq(S)
      /\ Len(s \o f) = Len(s) + n
      /\ \A i \in 1..Len(s) + n : (s \o f)[i] = IF i <= Len(s) THEN s[i] ELSE f[i - Len(s)]
  BY <1>1, <1>2, ConcatProperties
<1>. QED
  BY <1>3, <1>4

\* The initial state is well typed.
LEMMA TypeInit == Init => TypeOK
<1>. SUFFICES ASSUME Init PROVE TypeOK
  OBVIOUS
<1>1. rows \in Seq(Row) /\ Len(rows) = 0 /\ Ids = {}
  BY EmptySeq DEF Init, Ids
<1>. QED
  BY <1>1, CollectorAssumption DEF Init, TypeOK, IdleEmit, IdleSender, NoReply, Reply, SenderState, EmitState

\* What an insertion does: ids only grow and keep their rows, so every set of
\* ids and every reply stays well typed.
LEMMA InsertType ==
    ASSUME TypeOK, NEW c \in Collectors, NEW n \in Nat, NEW s \in Nat, NEW v \in BOOLEAN,
           NEW lost \in SUBSET Nat, NEW pc \in {"enforce", "lossEnforce"},
           Insert(c, n, s, v, lost, pc),
           UNCHANGED <<quarantine, saved, evicted, sender, stored, receipts, late, boundVars>>
    PROVE  /\ TypeOK'
           /\ Ids' = Ids \cup (Len(rows) + 1)..(Len(rows) + n)
           /\ Ids \subseteq Ids'
           /\ \A i \in Ids : rows'[i] = rows[i] /\ copies'[i] = copies[i]
           /\ \A i \in Ids' \ Ids : /\ copies'[i] = 0
                                    /\ rows'[i].valid = v /\ rows'[i].lost = lost
                                    /\ rows'[i].seq > seq
<1>1. Len(rows) \in Nat
  BY LenProperties DEF TypeOK
<1>2. /\ rows' \in Seq(Row)
      /\ Len(rows') = Len(rows) + n
      /\ \A i \in Ids : rows'[i] = rows[i]
      /\ \A i \in (Len(rows) + 1)..(Len(rows) + n) :
            rows'[i] = [size |-> s, valid |-> v, seq |-> seq + (i - Len(rows)), lost |-> lost]
  <2>. DEFINE f == NewRows(n, s, v, lost)
  <2>1. rows' = rows \o f
    BY DEF Insert
  <2>2. f \in [1..n -> Row]
    BY DEF NewRows, Row, TypeOK
  <2>3. rows \in Seq(Row)
    BY DEF TypeOK
  <2>4. \A i \in (Len(rows) + 1)..(Len(rows) + n) :
           f[i - Len(rows)] = [size |-> s, valid |-> v, seq |-> seq + (i - Len(rows)), lost |-> lost]
    BY <1>1 DEF NewRows
  <2>5. /\ rows \o f \in Seq(Row)
        /\ Len(rows \o f) = Len(rows) + n
        /\ \A i \in 1..Len(rows) : (rows \o f)[i] = rows[i]
        /\ \A i \in (Len(rows) + 1)..(Len(rows) + n) : (rows \o f)[i] = f[i - Len(rows)]
    BY <2>2, <2>3, AppendFunction
  <2>. QED
    BY <2>1, <2>4, <2>5 DEF Ids
<1>3. Ids' = Ids \cup (Len(rows) + 1)..(Len(rows) + n) /\ Ids \subseteq Ids'
  BY <1>1, <1>2 DEF Ids
<1>4. \A i \in Ids' \ Ids : i \in (Len(rows) + 1)..(Len(rows) + n)
  BY <1>3
<1>5. /\ copies' \in [Ids' -> Nat]
      /\ \A i \in Ids : copies'[i] = copies[i]
      /\ \A i \in Ids' \ Ids : copies'[i] = 0
  BY <1>1, <1>2, <1>3 DEF TypeOK, Insert, Ids
<1>6. seq' \in Nat /\ spool' \subseteq Ids' /\ lock' = c
  BY <1>3 DEF TypeOK, Insert
<1>7. /\ receipts' \subseteq [batch : SUBSET Ids', reply : Reply']
      /\ sender' \in SenderState'
      /\ late' \subseteq SUBSET Ids'
  BY <1>3 DEF TypeOK, Reply, SenderState
<1>8. /\ emitting' \in [Collectors -> EmitState]
      /\ \A d \in Collectors : lock' = d <=> emitting'[d].pc \in {"enforce", "lossEnforce"}
  <2>1. emitting' = [emitting EXCEPT ![c].pc = pc] /\ lock = Free /\ lock' = c
    BY DEF Insert
  <2>2. /\ emitting \in [Collectors -> EmitState]
        /\ \A d \in Collectors : lock = d <=> emitting[d].pc \in {"enforce", "lossEnforce"}
    BY DEF TypeOK
  <2>3. emitting' \in [Collectors -> EmitState]
    BY <2>1, <2>2 DEF EmitState
  <2>4. emitting'[c].pc = pc /\ \A d \in Collectors \ {c} : emitting'[d] = emitting[d]
    BY <2>1, <2>2 DEF EmitState
  <2>. QED
    BY <2>1, <2>2, <2>3, <2>4, CollectorAssumption
<1>9. \A i \in Ids' \ Ids : rows'[i].valid = v /\ rows'[i].lost = lost /\ rows'[i].seq > seq
  <2>. SUFFICES ASSUME NEW i \in Ids' \ Ids
                PROVE  rows'[i].valid = v /\ rows'[i].lost = lost /\ rows'[i].seq > seq
    OBVIOUS
  <2>1. i \in (Len(rows) + 1)..(Len(rows) + n)
    BY <1>4
  <2>2. rows'[i] = [size |-> s, valid |-> v, seq |-> seq + (i - Len(rows)), lost |-> lost]
    BY <2>1, <1>2
  <2>3. seq + (i - Len(rows)) > seq
    BY <2>1, <1>1 DEF TypeOK
  <2>. QED
    BY <2>2, <2>3
<1>10. TypeOK'
  BY <1>2, <1>3, <1>5, <1>6, <1>7, <1>8 DEF TypeOK, boundVars
<1>. QED
  BY <1>2, <1>3, <1>5, <1>9, <1>10

\* The limits select rows of the spool.
LEMMA SelectedInSpool == \A h : Selected(h) \subseteq spool
BY DEF Selected

\* Both appends leave their second transaction the same way.
LEMMA EnforceType ==
    ASSUME TypeOK, NEW c \in Collectors, NEW pc \in {"loss", "sequence"}, Enforce(c, pc),
           UNCHANGED <<rows, quarantine, saved, seq, sender, serverVars, late, boundVars>>
    PROVE  TypeOK'
<1>1. PICK h \in 0..Len(rows) :
         /\ spool' = spool \ Selected(h)
         /\ evicted' = evicted \cup Selected(h)
         /\ emitting' = [emitting EXCEPT ![c] =
                            [pc |-> IF Selected(h) # {} THEN pc ELSE "sequence",
                             evicted |-> IF pc = "loss" THEN Selected(h) ELSE {}]]
  BY DEF Enforce
<1>2. spool' \subseteq Ids /\ evicted' \subseteq Ids /\ Selected(h) \subseteq Ids
  BY <1>1, SelectedInSpool DEF TypeOK
<1>3. Selected(h) \in SUBSET Nat
  BY <1>2 DEF Ids
<1>4. /\ emitting' \in [Collectors -> EmitState]
      /\ emitting'[c].pc \in {"loss", "sequence"}
      /\ \A d \in Collectors \ {c} : emitting'[d] = emitting[d]
  BY <1>1, <1>3 DEF TypeOK, EmitState
<1>5. lock = c /\ lock' = Free
  BY DEF Enforce
<1>6. \A d \in Collectors : lock' = d <=> emitting'[d].pc \in {"enforce", "lossEnforce"}
  BY <1>4, <1>5, CollectorAssumption DEF TypeOK
<1>7. Ids' = Ids /\ Reply' = Reply /\ SenderState' = SenderState
  BY DEF Ids, Reply, SenderState
<1>. QED
  BY <1>2, <1>4, <1>5, <1>6, <1>7 DEF TypeOK, serverVars, boundVars

\* The server's transaction keeps its tables well typed, never forgets an
\* event, and its reply names events of the batch.
LEMMA IngestType ==
    ASSUME TypeOK, NEW B \in SUBSET Ids, Ingest(B), UNCHANGED rows
    PROVE  /\ stored' \subseteq Ids /\ stored \subseteq stored'
           /\ copies' \in [Ids -> Nat]
           /\ receipts' \subseteq [batch : SUBSET Ids, reply : Reply]
           /\ ReplyTo(B) \in Reply
<1>1. ValidIn(B) \subseteq Ids /\ Accepted(B) \subseteq Ids
  BY DEF ValidIn, Accepted
<1>2. Response(B) \in Reply
  BY <1>1 DEF Response, Reply
<1>3. ReplyTo(B) \in Reply
  <2>1. CASE ~Fits(B)
    BY <2>1 DEF ReplyTo, NoReply, Reply
  <2>2. CASE Fits(B) /\ Known(B)
    <3>1. (CHOOSE r \in receipts : r.batch = B) \in receipts
      BY <2>2 DEF Known
    <3>. QED
      BY <2>2, <3>1 DEF ReplyTo, TypeOK
  <2>3. CASE Fits(B) /\ ~Known(B)
    BY <2>3, <1>2 DEF ReplyTo
  <2>. QED
    BY <2>1, <2>2, <2>3
<1>4. CASE Fits(B) /\ ~Known(B)
  <2>1. /\ stored' = stored \cup Accepted(B)
        /\ copies' = [i \in Ids |-> IF i \in Accepted(B) THEN copies[i] + 1 ELSE copies[i]]
        /\ receipts' = receipts \cup {[batch |-> B, reply |-> Response(B)]}
    BY <1>4 DEF Ingest
  <2>. QED
    BY <2>1, <1>1, <1>2, <1>3 DEF TypeOK
<1>5. CASE ~(Fits(B) /\ ~Known(B))
  <2>1. UNCHANGED <<stored, copies, receipts>>
    BY <1>5 DEF Ingest, serverVars
  <2>. QED
    BY <2>1, <1>3 DEF TypeOK
<1>. QED
  BY <1>4, <1>5

\* The types that mention ids move only with the rows.
LEMMA SameRows ==
    rows' = rows => Ids' = Ids /\ Reply' = Reply /\ SenderState' = SenderState
BY DEF Ids, Reply, SenderState

\* sender() starting over, in the same process or in a new one.
LEMMA AbandonedType == TypeOK => Abandoned \in SenderState /\ IdleSender \in SenderState
<1>. SUFFICES ASSUME TypeOK PROVE Abandoned \in SenderState /\ IdleSender \in SenderState
  OBVIOUS
<1>1. NoReply \in Reply
  BY DEF NoReply, Reply
<1>2. IdleSender \in SenderState
  BY <1>1 DEF IdleSender, SenderState
<1>3. sender.newestNext \in BOOLEAN
  BY DEF TypeOK, SenderState
<1>4. Abandoned \in SenderState
  BY <1>2, <1>3 DEF Abandoned, SenderState
<1>. QED
  BY <1>2, <1>4

\* Every step keeps the state well typed.
LEMMA TypeStep == TypeOK /\ [Next]_vars => TypeOK'
<1>. SUFFICES ASSUME TypeOK, [Next]_vars PROVE TypeOK'
  OBVIOUS
<1>1. ASSUME NEW c \in Collectors, EmitAppend(c) PROVE TypeOK'
  <2>1. PICK n \in EmitCounts, s \in Sizes, v \in BOOLEAN : Insert(c, n, s, v, {}, "enforce")
    BY <1>1 DEF EmitAppend
  <2>2. n \in Nat /\ s \in Nat
    BY SizeAssumption
  <2>. QED
    BY <2>1, <2>2, <1>1, InsertType DEF EmitAppend
<1>2. ASSUME NEW c \in Collectors, EmitEnforce(c) PROVE TypeOK'
  BY <1>2, EnforceType DEF EmitEnforce
<1>3. ASSUME NEW c \in Collectors, LossAppend(c) PROVE TypeOK'
  <2>1. emitting[c].evicted \in SUBSET Nat
    BY DEF TypeOK, EmitState
  <2>. QED
    BY <2>1, <1>3, SizeAssumption, InsertType DEF LossAppend
<1>4. ASSUME NEW c \in Collectors, LossEnforce(c) PROVE TypeOK'
  BY <1>4, EnforceType DEF LossEnforce
<1>. USE DEF agentVars, serverVars, boundVars
<1>5. ASSUME NEW c \in Collectors, SaveSequence(c) PROVE TypeOK'
  <2>1. rows' = rows
    BY <1>5 DEF SaveSequence
  <2>2. emitting' \in [Collectors -> EmitState] /\ emitting'[c].pc = "idle"
    BY <1>5 DEF SaveSequence, TypeOK, EmitState, IdleEmit
  <2>3. \A d \in Collectors \ {c} : emitting'[d] = emitting[d]
    BY <1>5 DEF SaveSequence, TypeOK
  <2>4. emitting[c].pc = "sequence" /\ lock' = lock
    BY <1>5 DEF SaveSequence
  <2>5. \A d \in Collectors : lock' = d <=> emitting'[d].pc \in {"enforce", "lossEnforce"}
    BY <2>2, <2>3, <2>4 DEF TypeOK
  <2>. QED
    BY <1>5, <2>1, <2>2, <2>5, SameRows DEF SaveSequence, TypeOK
<1>6. CASE SenderUsage
  <2>1. sender' = [sender EXCEPT !.pc = "batch",
                                 !.backfilling = (Cardinality(spool) > NormalLimit)]
    BY <1>6 DEF SenderUsage
  <2>2. (Cardinality(spool) > NormalLimit) \in BOOLEAN
    OBVIOUS
  <2>3. rows' = rows /\ sender' \in SenderState
    BY <1>6, <2>1, <2>2 DEF SenderUsage, TypeOK, SenderState
  <2>. QED
    BY <1>6, <2>3, SameRows DEF SenderUsage, TypeOK
<1>7. CASE SenderBatch
  <2>. DEFINE records == Batch(IF sender.backfilling THEN BackfillLimit ELSE NormalLimit,
                               sender.backfilling /\ sender.newestNext)
  <2>1. records \subseteq Ids
    BY DEF Batch, TypeOK
  <2>2. sender' = [sender EXCEPT !.pc = IF records = {} THEN "usage" ELSE "sent",
                                 !.batch = records, !.backfilling = FALSE,
                                 !.newestNext = IF sender.backfilling THEN ~sender.newestNext
                                                ELSE sender.newestNext]
    BY <1>7 DEF SenderBatch
  <2>. HIDE DEF records
  <2>a. sender \in SenderState
    BY DEF TypeOK
  <2>b. (IF sender.backfilling THEN ~sender.newestNext ELSE sender.newestNext) \in BOOLEAN
    BY <2>a DEF SenderState
  <2>c. sender' \in SenderState
    BY <2>1, <2>2, <2>a, <2>b DEF SenderState
  <2>3. rows' = rows /\ sender' \in SenderState
    BY <1>7, <2>c DEF SenderBatch, agentVars
  <2>. QED
    BY <1>7, <2>3, SameRows DEF SenderBatch, TypeOK
<1>8. CASE ServerReply
  <2>1. sender.batch \in SUBSET Ids /\ rows' = rows /\ Ingest(sender.batch)
    BY <1>8 DEF TypeOK, SenderState, ServerReply
  <2>2. sender' \in SenderState
    BY <1>8, <2>1, IngestType DEF ServerReply, TypeOK, SenderState
  <2>. QED
    BY <1>8, <2>1, <2>2, IngestType, SameRows DEF ServerReply, TypeOK
<1>9. CASE RequestFails
  <2>1. rows' = rows /\ sender' \in SenderState
    BY <1>9, AbandonedType DEF RequestFails
  <2>2. sender.batch \in SUBSET Ids
    BY DEF TypeOK, SenderState
  <2>. QED
    BY <1>9, <2>1, <2>2, SameRows DEF RequestFails, TypeOK
<1>10. CASE LateRequest
  <2>1. PICK B \in late : Ingest(B) /\ late' = late \ {B}
    BY <1>10 DEF LateRequest
  <2>2. B \in SUBSET Ids /\ rows' = rows
    BY <1>10 DEF TypeOK, LateRequest
  <2>. QED
    BY <1>10, <2>1, <2>2, IngestType, SameRows DEF LateRequest, TypeOK
<1>11. CASE Acknowledge
  <2>1. rows' = rows /\ sender' \in SenderState
    BY <1>11 DEF Acknowledge, TypeOK, SenderState
  <2>. QED
    BY <1>11, <2>1, SameRows DEF Acknowledge, TypeOK
<1>12. ASSUME NEW S, QuarantineRows(S) PROVE TypeOK'
  <2>1. rows' = rows /\ sender' \in SenderState
    BY <1>12, AbandonedType DEF QuarantineRows
  <2>. QED
    BY <1>12, <2>1, SameRows DEF QuarantineRows, TypeOK
<1>13. CASE QuarantineRejected \/ QuarantineBatch
  BY <1>12, <1>13 DEF QuarantineRejected, QuarantineBatch
<1>14. CASE Crash
  <2>1. rows' = rows /\ sender' \in SenderState
    BY <1>14, AbandonedType DEF Crash
  <2>2. sender.batch \in SUBSET Ids
    BY DEF TypeOK, SenderState
  <2>3. late' \subseteq SUBSET Ids
    BY <1>14, <2>2 DEF Crash, TypeOK
  <2>4. /\ emitting' \in [Collectors -> EmitState]
        /\ \A d \in Collectors : lock' = d <=> emitting'[d].pc \in {"enforce", "lossEnforce"}
    BY <1>14, CollectorAssumption DEF Crash, IdleEmit, EmitState
  <2>. QED
    BY <1>14, <2>1, <2>3, <2>4, SameRows DEF Crash, TypeOK
<1>15. CASE UNCHANGED vars
  BY <1>15, SameRows DEF vars, TypeOK
<1>. QED
  BY <1>1, <1>2, <1>3, <1>4, <1>5, <1>6, <1>7, <1>8, <1>9, <1>10, <1>11, <1>12, <1>13, <1>14, <1>15
     DEF Next, EmitStep, SenderStep

\* Type correctness of the delivery path, for every instance.
THEOREM TypeCorrect == Spec => []TypeOK
<1>1. Init => TypeOK
  BY TypeInit
<1>2. TypeOK /\ [Next]_vars => TypeOK'
  BY TypeStep
<1>. QED
  BY <1>1, <1>2, PTL DEF Spec

-----------------------------------------------------------------------------
(* Nothing unaccounted.  Accounted is not inductive: an acknowledgement    *)
(* must be backed by the server's table, and that by every saved receipt.  *)

StoredValid == \A i \in stored : rows[i].valid

Inv == TypeOK /\ Accounted /\ StoredOnce /\ StoredValid /\ RepliesBacked

\* Backed, of a reply of this state by the tables of the next one.
BackedNext(reply) == /\ Acknowledged(reply) \subseteq stored'
                     /\ \A i \in reply.rejected : ~rows[i].valid

\* The server's transaction keeps its half of the invariant and answers
\* truthfully.
LEMMA IngestBacked ==
    ASSUME Inv, NEW B \in SUBSET Ids, Ingest(B), UNCHANGED rows
    PROVE  /\ stored \subseteq stored'
           /\ StoredOnce' /\ StoredValid'
           /\ \A r \in receipts' : BackedNext(r.reply)
           /\ BackedNext(ReplyTo(B))
<1>. USE DEF Inv
<1>0. TypeOK
  OBVIOUS
<1>1. stored' \subseteq Ids /\ stored \subseteq stored' /\ Ids' = Ids
  BY <1>0, IngestType DEF Ids
<1>2. \A reply : Backed(reply) => BackedNext(reply)
  BY <1>1 DEF Backed, BackedNext
<1>3. \A r \in receipts : Backed(r.reply)
  BY DEF RepliesBacked
<1>4. CASE Fits(B) /\ ~Known(B)
  <2>1. /\ stored' = stored \cup Accepted(B)
        /\ copies' = [i \in Ids |-> IF i \in Accepted(B) THEN copies[i] + 1 ELSE copies[i]]
        /\ receipts' = receipts \cup {[batch |-> B, reply |-> Response(B)]}
    BY <1>4 DEF Ingest
  <2>2. StoredOnce'
    BY <2>1, <1>1 DEF StoredOnce, Accepted, TypeOK
  <2>3. StoredValid'
    BY <2>1 DEF StoredValid, Accepted, ValidIn
  <2>4. BackedNext(Response(B))
    BY <2>1 DEF BackedNext, Acknowledged, Response, Accepted, ValidIn
  <2>5. ReplyTo(B) = Response(B)
    BY <1>4 DEF ReplyTo
  <2>6. \A r \in receipts' : BackedNext(r.reply)
    BY <2>1, <2>4, <1>2, <1>3
  <2>. QED
    BY <1>1, <2>2, <2>3, <2>4, <2>5, <2>6
<1>5. CASE ~(Fits(B) /\ ~Known(B))
  <2>1. UNCHANGED <<stored, copies, receipts>>
    BY <1>5 DEF Ingest, serverVars
  <2>2. StoredOnce' /\ StoredValid'
    BY <2>1, <1>1 DEF StoredOnce, StoredValid
  <2>3. \A r \in receipts' : BackedNext(r.reply)
    BY <2>1, <1>2, <1>3
  <2>4. CASE ~Fits(B)
    <3>1. ReplyTo(B) = [NoReply EXCEPT !.status = 413]
      BY <2>4 DEF ReplyTo
    <3>2. BackedNext(ReplyTo(B))
      BY <3>1 DEF NoReply, BackedNext, Acknowledged
    <3>. QED
      BY <3>2, <1>1, <2>2, <2>3
  <2>5. CASE Fits(B) /\ Known(B)
    <3>1. (CHOOSE r \in receipts : r.batch = B) \in receipts
      BY <2>5 DEF Known
    <3>2. ReplyTo(B) = (CHOOSE r \in receipts : r.batch = B).reply
      BY <2>5 DEF ReplyTo
    <3>. QED
      BY <3>1, <3>2, <1>1, <1>2, <1>3, <2>2, <2>3
  <2>. QED
    BY <1>1, <1>5, <2>2, <2>3, <2>4, <2>5
<1>. QED
  BY <1>4, <1>5

\* An insertion adds ids that are in the spool and nowhere else.
LEMMA InsertKeepsInv ==
    ASSUME Inv, NEW c \in Collectors, NEW n \in Nat, NEW s \in Nat, NEW v \in BOOLEAN,
           NEW lost \in SUBSET Nat, NEW pc \in {"enforce", "lossEnforce"},
           Insert(c, n, s, v, lost, pc),
           UNCHANGED <<quarantine, saved, evicted, sender, stored, receipts, late, boundVars>>
    PROVE  Inv'
<1>0. TypeOK
  BY DEF Inv
<1>1. /\ TypeOK'
      /\ Ids' = Ids \cup (Len(rows) + 1)..(Len(rows) + n)
      /\ Ids \subseteq Ids'
      /\ \A i \in Ids : rows'[i] = rows[i] /\ copies'[i] = copies[i]
      /\ \A i \in Ids' \ Ids : /\ copies'[i] = 0
                               /\ rows'[i].valid = v /\ rows'[i].lost = lost
                               /\ rows'[i].seq > seq
  BY <1>0, InsertType, SMTT(60)
<1>. USE DEF Inv
<1>2. Accounted'
  BY <1>1 DEF Accounted, Insert
<1>3. StoredOnce'
  BY <1>1 DEF StoredOnce, TypeOK
<1>4. StoredValid'
  BY <1>1 DEF StoredValid, TypeOK
<1>5. RepliesBacked'
  <2>1. \A reply \in Reply : Backed(reply) => Backed(reply)'
    BY <1>1 DEF Backed, Reply
  <2>2. sender.reply \in Reply /\ \A r \in receipts : r.reply \in Reply
    BY DEF TypeOK, SenderState
  <2>. QED
    BY <2>1, <2>2 DEF RepliesBacked
<1>. QED
  BY <1>1, <1>2, <1>3, <1>4, <1>5

\* A step that leaves the rows and the server alone, gives the sender a
\* backed reply and accounts for what leaves the spool.
LEMMA AgentKeepsInv ==
    ASSUME Inv, TypeOK', UNCHANGED <<rows, stored, copies, receipts>>,
           Accounted', sender'.reply \in {sender.reply, NoReply}
    PROVE  Inv'
<1>. USE DEF Inv
<1>1. Ids' = Ids
  BY DEF Ids
<1>2. StoredOnce' /\ StoredValid'
  BY <1>1 DEF StoredOnce, StoredValid
<1>3. \A reply : Backed(reply) => Backed(reply)'
  BY DEF Backed
<1>4. Backed(NoReply) /\ Backed(sender.reply)
  BY DEF Backed, NoReply, Acknowledged, RepliesBacked
<1>5. \A r \in receipts' : Backed(r.reply)'
  BY <1>3 DEF RepliesBacked
<1>6. RepliesBacked'
  BY <1>3, <1>4, <1>5 DEF RepliesBacked
<1>. QED
  BY <1>2, <1>6

\* Every step keeps the invariant.
LEMMA InvStep == Inv /\ [Next]_vars => Inv'
<1>. SUFFICES ASSUME Inv, [Next]_vars PROVE Inv'
  OBVIOUS
<1>. USE DEF Inv
<1>0. TypeOK'
  BY TypeStep
<1>1. ASSUME NEW c \in Collectors, EmitAppend(c) PROVE Inv'
  <2>1. PICK n \in EmitCounts, s \in Sizes, v \in BOOLEAN : Insert(c, n, s, v, {}, "enforce")
    BY <1>1 DEF EmitAppend
  <2>2. n \in Nat /\ s \in Nat
    BY SizeAssumption
  <2>. QED
    BY <2>1, <2>2, <1>1, InsertKeepsInv DEF EmitAppend
<1>2. ASSUME NEW c \in Collectors, LossAppend(c) PROVE Inv'
  <2>1. emitting[c].evicted \in SUBSET Nat
    BY DEF TypeOK, EmitState
  <2>. QED
    BY <2>1, <1>2, SizeAssumption, InsertKeepsInv DEF LossAppend
<1>. USE DEF agentVars, serverVars, boundVars
<1>3. ASSUME NEW c \in Collectors, NEW pc, Enforce(c, pc),
             UNCHANGED <<rows, quarantine, sender, serverVars>>
      PROVE  Inv'
  <2>1. PICK h : spool' = spool \ Selected(h) /\ evicted' = evicted \cup Selected(h)
    BY <1>3 DEF Enforce
  <2>2. Accounted'
    BY <1>3, <2>1, SelectedInSpool DEF Accounted, Ids
  <2>. QED
    BY <1>0, <1>3, <2>2, AgentKeepsInv
<1>4. ASSUME NEW c \in Collectors, EmitEnforce(c) \/ LossEnforce(c) PROVE Inv'
  BY <1>3, <1>4 DEF EmitEnforce, LossEnforce
<1>5. ASSUME NEW c \in Collectors, SaveSequence(c) PROVE Inv'
  <2>1. Accounted'
    BY <1>5 DEF SaveSequence, Accounted, Ids
  <2>. QED
    BY <1>0, <1>5, <2>1, AgentKeepsInv DEF SaveSequence
<1>6. CASE SenderUsage \/ SenderBatch
  <2>1. Accounted' /\ sender'.reply = sender.reply
    BY <1>6 DEF SenderUsage, SenderBatch, Accounted, Ids, TypeOK, SenderState
  <2>. QED
    BY <1>0, <1>6, <2>1, AgentKeepsInv DEF SenderUsage, SenderBatch
<1>7. CASE RequestFails \/ Crash
  <2>1. Accounted' /\ sender'.reply = NoReply
    BY <1>7 DEF RequestFails, Crash, Accounted, Ids, Abandoned, IdleSender
  <2>. QED
    BY <1>0, <1>7, <2>1, AgentKeepsInv DEF RequestFails, Crash
<1>8. CASE Acknowledge
  <2>1. Acknowledged(sender.reply) \subseteq stored
    BY DEF RepliesBacked, Backed
  <2>2. Accounted' /\ sender'.reply = sender.reply
    BY <1>8, <2>1 DEF Acknowledge, Accounted, Ids, TypeOK, SenderState
  <2>. QED
    BY <1>0, <1>8, <2>2, AgentKeepsInv DEF Acknowledge
<1>9. CASE QuarantineRejected \/ QuarantineBatch
  <2>1. Accounted' /\ sender'.reply = NoReply
    BY <1>9 DEF QuarantineRejected, QuarantineBatch, QuarantineRows, Accounted, Ids,
                Abandoned, IdleSender
  <2>. QED
    BY <1>0, <1>9, <2>1, AgentKeepsInv DEF QuarantineRejected, QuarantineBatch, QuarantineRows
<1>10. ASSUME NEW B \in SUBSET Ids, Ingest(B), UNCHANGED <<rows, spool, quarantine, evicted>>,
              sender'.reply \in {sender.reply, ReplyTo(B)}
       PROVE  Inv'
  <2>1. /\ stored \subseteq stored'
        /\ StoredOnce' /\ StoredValid'
        /\ \A r \in receipts' : BackedNext(r.reply)
        /\ BackedNext(ReplyTo(B))
    BY <1>10, IngestBacked
  <2>2. BackedNext(sender.reply)
    BY <2>1 DEF BackedNext, RepliesBacked, Backed
  <2>3. BackedNext(sender'.reply)
    BY <1>10, <2>1, <2>2
  <2>4. RepliesBacked'
    BY <1>10, <2>1, <2>3 DEF RepliesBacked, Backed, BackedNext
  <2>5. Accounted'
    BY <1>0, <1>10, <2>1 DEF Accounted, Ids, TypeOK
  <2>. QED
    BY <1>0, <2>1, <2>4, <2>5
<1>11. CASE ServerReply
  <2>1. sender.batch \in SUBSET Ids /\ sender'.reply = ReplyTo(sender.batch)
    BY <1>11 DEF ServerReply, TypeOK, SenderState
  <2>. QED
    BY <1>10, <1>11, <2>1 DEF ServerReply
<1>12. CASE LateRequest
  <2>1. PICK B \in late : Ingest(B)
    BY <1>12 DEF LateRequest
  <2>2. B \in SUBSET Ids
    BY DEF TypeOK
  <2>. QED
    BY <1>10, <1>12, <2>1, <2>2 DEF LateRequest
<1>13. CASE UNCHANGED vars
  <2>1. Accounted' /\ sender'.reply = sender.reply
    BY <1>13 DEF vars, Accounted, Ids
  <2>. QED
    BY <1>0, <1>13, <2>1, AgentKeepsInv DEF vars
<1>. QED
  BY <1>1, <1>2, <1>4, <1>5, <1>6, <1>7, <1>8, <1>9, <1>11, <1>12, <1>13
     DEF Next, EmitStep, SenderStep

\* The initial state satisfies it.
LEMMA InitInv == Init => Inv
<1>. SUFFICES ASSUME Init PROVE Inv
  OBVIOUS
<1>1. TypeOK /\ Ids = {}
  BY TypeInit, EmptySeq DEF Init, Ids
<1>. QED
  BY <1>1 DEF Init, Inv, Accounted, StoredOnce, StoredValid, RepliesBacked, Backed,
              Acknowledged, IdleSender, NoReply

\* The invariant holds of every instance.
THEOREM InvHolds == Spec => []Inv
BY InitInv, InvStep, PTL DEF Spec

\* Every event committed to the spool stays accounted for.
THEOREM NothingUnaccounted == Spec => []Accounted
BY InvHolds, PTL DEF Inv

\* No event is inserted twice, whatever batches carry it.
THEOREM NoDuplicates == Spec => []StoredOnce
BY InvHolds, PTL DEF Inv

\* No answer lets the agent drop an event the server does not have.
THEOREM AnswersAreTrue == Spec => []RepliesBacked
BY InvHolds, PTL DEF Inv

-----------------------------------------------------------------------------
(* Implementing Custody.  The quarantine is honest only because no batch   *)
(* is too large, which takes a count of what batch() returns.              *)

\* A nonempty set of ids has a first and a last one.
LEMMA FirstAndLast ==
    ASSUME NEW n \in Nat, NEW S, S \subseteq 1..n, S # {}
    PROVE  /\ \E m \in S : \A i \in S : m <= i
           /\ \E m \in S : \A i \in S : i <= m
<1>1. ASSUME NEW T, T \subseteq Nat, T # {}
      PROVE  \E m \in T : \A i \in T : m <= i
  <2>1. PICK m \in T : \A i \in T : ~(<<i, m>> \in OpToRel(<, Nat))
    BY <1>1, WFMin, NatLessThanWellFounded
  <2>2. \A i \in T : ~(i < m)
    BY <1>1, <2>1 DEF OpToRel
  <2>. QED
    BY <1>1, <2>2
<1>2. \E m \in S : \A i \in S : m <= i
  <2>1. S \subseteq Nat
    OBVIOUS
  <2>. QED
    BY <1>1, <2>1
<1>3. \E m \in S : \A i \in S : i <= m
  <2>. DEFINE T == {n - i : i \in S}
  <2>1. T \subseteq Nat /\ T # {}
    <3>1. \A i \in S : n - i \in Nat
      OBVIOUS
    <3>. QED
      BY <3>1
  <2>2. PICK t \in T : \A u \in T : t <= u
    BY <1>1, <2>1
  <2>3. PICK m \in S : t = n - m
    OBVIOUS
  <2>4. ASSUME NEW i \in S PROVE i <= m
    <3>1. n - m <= n - i
      BY <2>2, <2>3
    <3>2. i \in Nat /\ m \in Nat
      OBVIOUS
    <3>. QED
      BY <3>1, <3>2
  <2>. QED
    BY <2>4, Zenon
<1>. QED
  BY <1>2, <1>3

\* batch() returns at most as many rows as it was asked for.
LEMMA BatchSize ==
    ASSUME TypeOK, NEW limit \in Nat \ {0}, NEW newest \in BOOLEAN
    PROVE  /\ IsFiniteSet(Batch(limit, newest))
           /\ Cardinality(Batch(limit, newest)) <= limit
<1>. DEFINE B == Batch(limit, newest)
<1>1. Len(rows) \in Nat /\ spool \subseteq 1..Len(rows)
  BY LenProperties DEF TypeOK, Ids
<1>2. IsFiniteSet(spool)
  <2>1. IsFiniteSet(1..Len(rows))
    BY <1>1, FS_Interval
  <2>. QED
    BY <1>1, <2>1, FS_Subset
<1>3. B \subseteq spool /\ IsFiniteSet(B)
  BY <1>2, FS_Subset DEF Batch
<1>4. CASE B = {}
  BY <1>3, <1>4, FS_EmptySet
<1>5. CASE B # {}
  <2>1. PICK m \in B : \A i \in B : i = m \/ i \in Before(m, newest)
    <3>1. B \subseteq 1..Len(rows)
      BY <1>1, <1>3
    <3>2. CASE newest
      <4>1. PICK m \in B : \A i \in B : m <= i
        BY <1>1, <1>5, <3>1, FirstAndLast
      <4>2. Before(m, newest) = {j \in spool : j > m}
        BY <3>2 DEF Before
      <4>. QED
        BY <4>1, <4>2, <3>1, <1>1, <1>3
    <3>3. CASE ~newest
      <4>1. PICK m \in B : \A i \in B : i <= m
        BY <1>1, <1>5, <3>1, FirstAndLast
      <4>2. Before(m, newest) = {j \in spool : j < m}
        BY <3>3 DEF Before
      <4>. QED
        BY <4>1, <4>2, <3>1, <1>1, <1>3
    <3>. QED
      BY <3>2, <3>3
  <2>. DEFINE P == Before(m, newest)
  <2>2. Cardinality(P) < limit
    BY DEF Batch
  <2>3. P \subseteq spool /\ IsFiniteSet(P) /\ Cardinality(P) \in Nat
    BY <1>2, FS_Subset, FS_CardinalityType DEF Before
  <2>. HIDE DEF P
  <2>4. /\ IsFiniteSet(P \cup {m})
        /\ Cardinality(P \cup {m}) <= Cardinality(P) + 1
    <3>1. /\ IsFiniteSet(P \cup {m})
          /\ Cardinality(P \cup {m}) = IF m \in P THEN Cardinality(P) ELSE Cardinality(P) + 1
      BY <2>3, FS_AddElement, Zenon
    <3>. QED
      BY <2>3, <3>1
  <2>5. B \subseteq P \cup {m}
    BY <2>1 DEF P
  <2>6. Cardinality(B) <= Cardinality(P \cup {m})
    BY <2>4, <2>5, FS_Subset
  <2>7. Cardinality(B) \in Nat /\ Cardinality(P \cup {m}) \in Nat
    BY <1>3, <2>4, FS_CardinalityType
  <2>. QED
    BY <1>3, <2>2, <2>3, <2>4, <2>6, <2>7
<1>. QED
  BY <1>4, <1>5

\* With agreeing limits no batch is refused, so quarantine() only ever sees
\* what the server rejected event by event.
NoneRefused == /\ Fits(sender.batch)
               /\ sender.reply.status # 413
               /\ \A r \in receipts : r.reply.status # 413

QuarantineHonest == \A i \in quarantine : ~rows[i].valid /\ i \notin stored

CustodyInv == Inv /\ NoneRefused /\ QuarantineHonest

\* Any batch within the agent's own limits fits the server's.
LEMMA SmallBatchesFit ==
    ASSUME LimitsAgree, NEW B, IsFiniteSet(B),
           Cardinality(B) <= NormalLimit \/ Cardinality(B) <= BackfillLimit
    PROVE  Fits(B)
<1>1. Cardinality(B) \in Nat
  BY FS_CardinalityType
<1>. QED
  BY <1>1, LimitAssumption DEF Fits, LimitsAgree

\* Every step keeps it when the limits agree.
LEMMA CustodyInvStep ==
    ASSUME LimitsAgree, CustodyInv, [Next]_vars
    PROVE  CustodyInv'
<1>. USE DEF CustodyInv
<1>0. Inv' /\ TypeOK /\ TypeOK'
  BY InvStep DEF Inv
<1>a. rows' = rows \/ \E c \in Collectors : EmitAppend(c) \/ LossAppend(c)
  BY DEF Next, EmitStep, SenderStep, EmitEnforce, LossEnforce, SaveSequence, SenderUsage,
         SenderBatch, ServerReply, Acknowledge, QuarantineRejected, QuarantineBatch,
         QuarantineRows, RequestFails, LateRequest, Crash, vars, agentVars
<1>b. \A i \in Ids : rows'[i] = rows[i]
  <2>1. ASSUME NEW c \in Collectors, EmitAppend(c) PROVE \A i \in Ids : rows'[i] = rows[i]
    <3>1. PICK n \in EmitCounts, s \in Sizes, v \in BOOLEAN : Insert(c, n, s, v, {}, "enforce")
      BY <2>1 DEF EmitAppend
    <3>2. n \in Nat /\ s \in Nat
      BY SizeAssumption
    <3>. QED
      BY <3>1, <3>2, <2>1, <1>0, InsertType DEF EmitAppend
  <2>2. ASSUME NEW c \in Collectors, LossAppend(c) PROVE \A i \in Ids : rows'[i] = rows[i]
    <3>1. emitting[c].evicted \in SUBSET Nat
      BY <1>0 DEF TypeOK, EmitState
    <3>. QED
      BY <3>1, <2>2, <1>0, SizeAssumption, InsertType DEF LossAppend
  <2>. QED
    BY <1>a, <2>1, <2>2
<1>1. QuarantineHonest'
  <2>1. \A i \in quarantine' \ quarantine : ~rows[i].valid /\ i \in Ids
    <3>1. CASE QuarantineRejected
      <4>1. \A i \in sender.reply.rejected : ~rows[i].valid
        BY DEF Inv, RepliesBacked, Backed
      <4>2. quarantine' = quarantine \cup (sender.reply.rejected \cap spool)
        BY <3>1 DEF QuarantineRejected, QuarantineRows
      <4>. QED
        BY <4>1, <4>2, <1>0 DEF TypeOK
    <3>2. CASE QuarantineBatch
      BY <3>2 DEF QuarantineBatch, NoneRefused
    <3>3. CASE ~QuarantineRejected /\ ~QuarantineBatch
      <4>1. quarantine' = quarantine
        BY <3>3 DEF Next, EmitStep, SenderStep, EmitAppend, LossAppend, EmitEnforce, LossEnforce,
                    SaveSequence, SenderUsage, SenderBatch, ServerReply, Acknowledge,
                    RequestFails, LateRequest, Crash, vars, agentVars
      <4>. QED
        BY <4>1
    <3>. QED
      BY <3>1, <3>2, <3>3
  <2>2. \A i \in quarantine' : ~rows'[i].valid
    BY <2>1, <1>0, <1>b DEF QuarantineHonest, TypeOK
  <2>. QED
    BY <2>2, <1>0 DEF QuarantineHonest, Inv, StoredValid
<1>2. NoneRefused'
  <2>1. Fits({})
    BY SmallBatchesFit, FS_EmptySet, LimitAssumption
  <2>2. CASE sender'.reply \in {sender.reply, NoReply} /\ sender'.batch \in {sender.batch, {}}
             /\ receipts' = receipts
    BY <2>1, <2>2 DEF NoneRefused, Fits, NoReply
  <2>3. ASSUME NEW B, Ingest(B)
        PROVE  \A r \in receipts' : r.reply.status # 413
    BY <2>3 DEF Ingest, Response, NoneRefused, serverVars
  <2>4. CASE ServerReply
    <3>1. ReplyTo(sender.batch).status # 413
      <4>1. Fits(sender.batch)
        BY DEF NoneRefused
      <4>2. CASE Known(sender.batch)
        <5>1. (CHOOSE r \in receipts : r.batch = sender.batch) \in receipts
          BY <4>2 DEF Known
        <5>. QED
          BY <5>1, <4>1, <4>2 DEF ReplyTo, NoneRefused
      <4>3. CASE ~Known(sender.batch)
        BY <4>1, <4>3 DEF ReplyTo, Response
      <4>. QED
        BY <4>2, <4>3
    <3>2. sender'.batch = sender.batch /\ sender'.reply = ReplyTo(sender.batch)
      BY <2>4, <1>0 DEF ServerReply, TypeOK, SenderState
    <3>. QED
      BY <2>3, <2>4, <3>1, <3>2 DEF NoneRefused, ServerReply, Fits
  <2>5. CASE LateRequest
    <3>1. PICK B \in late : Ingest(B)
      BY <2>5 DEF LateRequest
    <3>. QED
      BY <2>3, <2>5, <3>1 DEF NoneRefused, LateRequest, Fits
  <2>6. CASE SenderBatch
    <3>. DEFINE limit == IF sender.backfilling THEN BackfillLimit ELSE NormalLimit
                newest == sender.backfilling /\ sender.newestNext
    <3>1. limit \in Nat \ {0} /\ newest \in BOOLEAN
      BY LimitAssumption
    <3>a. sender \in SenderState
      BY <1>0 DEF TypeOK
    <3>2. sender'.batch = Batch(limit, newest) /\ sender'.reply = sender.reply
          /\ receipts' = receipts
      BY <2>6, <3>a DEF SenderBatch, SenderState, serverVars
    <3>3. limit = BackfillLimit \/ limit = NormalLimit
      OBVIOUS
    <3>. HIDE DEF limit, newest
    <3>4. IsFiniteSet(Batch(limit, newest)) /\ Cardinality(Batch(limit, newest)) <= limit
      BY <3>1, <1>0, BatchSize
    <3>5. Fits(Batch(limit, newest))
      BY <3>3, <3>4, SmallBatchesFit
    <3>. QED
      BY <3>2, <3>5 DEF NoneRefused, Fits
  <2>7. CASE ~(ServerReply \/ LateRequest \/ SenderBatch)
    <3>1. sender'.reply \in {sender.reply, NoReply} /\ sender'.batch \in {sender.batch, {}}
      <4>1. sender' \in {sender, Abandoned, IdleSender} \/ SenderUsage \/ Acknowledge
        BY <2>7 DEF Next, EmitStep, SenderStep, EmitAppend, LossAppend, EmitEnforce,
              LossEnforce, SaveSequence, QuarantineRejected, QuarantineBatch, QuarantineRows,
              RequestFails, Crash, vars
      <4>2. CASE sender' \in {sender, Abandoned, IdleSender}
        BY <4>2 DEF Abandoned, IdleSender
      <4>3. CASE SenderUsage \/ Acknowledge
        <5>1. sender \in SenderState
          BY <1>0 DEF TypeOK
        <5>2. \/ \E b : sender' = [sender EXCEPT !.pc = "batch", !.backfilling = b]
              \/ sender' = [sender EXCEPT !.pc = "quarantine"]
          BY <4>3 DEF SenderUsage, Acknowledge
        <5>3. sender'.reply = sender.reply /\ sender'.batch = sender.batch
          BY <5>1, <5>2 DEF SenderState
        <5>. QED
          BY <5>3
      <4>. QED
        BY <4>1, <4>2, <4>3
    <3>2. receipts' = receipts
      BY <2>7 DEF Next, EmitStep, SenderStep, EmitAppend, LossAppend, EmitEnforce,
            LossEnforce, SaveSequence, SenderUsage, Acknowledge, QuarantineRejected,
            QuarantineBatch, QuarantineRows, RequestFails, Crash, vars, serverVars
    <3>. QED
      BY <2>2, <3>1, <3>2
  <2>. QED
    BY <2>4, <2>5, <2>6, <2>7
<1>. QED
  BY <1>0, <1>1, <1>2

\* The step of Custody that each step of Delivery is, or none.
LEMMA CustodyStep ==
    ASSUME LimitsAgree, CustodyInv, [Next]_vars
    PROVE  [Account!Next]_(Account!vars)
<1>. USE DEF CustodyInv
<1>0. TypeOK /\ Inv /\ CustodyInv'
  BY CustodyInvStep DEF Inv
<1>. USE DEF serverVars
<1>1. ASSUME NEW c \in Collectors, EmitAppend(c) PROVE Account!Admit
  <2>1. PICK n \in EmitCounts, s \in Sizes, v \in BOOLEAN : Insert(c, n, s, v, {}, "enforce")
    BY <1>1 DEF EmitAppend
  <2>2. n \in Nat /\ s \in Nat
    BY SizeAssumption
  <2>3. Ids' = Ids \cup (Len(rows) + 1)..(Len(rows) + n)
    BY <2>1, <2>2, <1>0, <1>1, InsertType DEF EmitAppend
  <2>4. Ids' \ Ids = (Len(rows) + 1)..(Len(rows) + n)
    BY <2>3, <1>0, LenProperties DEF Ids, TypeOK
  <2>. QED
    BY <2>1, <2>3, <2>4, <1>1 DEF Account!Admit, EmitAppend, Insert
<1>2. ASSUME NEW c \in Collectors, LossAppend(c) PROVE Account!Admit
  <2>1. emitting[c].evicted \in SUBSET Nat
    BY <1>0 DEF TypeOK, EmitState
  <2>2. Ids' = Ids \cup (Len(rows) + 1)..(Len(rows) + 1)
    <3>1. /\ Insert(c, 1, LossSize, TRUE, emitting[c].evicted, "lossEnforce")
          /\ UNCHANGED <<quarantine, saved, evicted, sender, stored, receipts, late, boundVars>>
      BY <1>2 DEF LossAppend
    <3>2. LossSize \in Nat /\ 1 \in Nat
      BY SizeAssumption
    <3>. QED
      BY <3>1, <3>2, <2>1, <1>0, InsertType
  <2>3. Ids' \ Ids = (Len(rows) + 1)..(Len(rows) + 1)
    BY <2>2, <1>0, LenProperties DEF Ids, TypeOK
  <2>. QED
    BY <2>2, <2>3, <1>2 DEF Account!Admit, LossAppend, Insert
<1>3. ASSUME NEW c \in Collectors, EmitEnforce(c) \/ LossEnforce(c) PROVE Account!Next
  <2>1. PICK h : spool' = spool \ Selected(h) /\ evicted' = evicted \cup Selected(h)
    BY <1>3 DEF EmitEnforce, LossEnforce, Enforce
  <2>2. Selected(h) \subseteq spool /\ Selected(h) \in SUBSET Ids
    BY <1>0, SelectedInSpool DEF TypeOK
  <2>3. Account!Evict(Selected(h))
    BY <1>3, <2>1, <2>2 DEF Account!Evict, EmitEnforce, LossEnforce, Ids
  <2>. QED
    BY <2>2, <2>3 DEF Account!Next
<1>4. ASSUME NEW B \in SUBSET Ids, Ingest(B), UNCHANGED <<rows, spool, quarantine, evicted>>
      PROVE  Account!Next \/ UNCHANGED Account!vars
  <2>1. CASE stored' = stored
    BY <1>4, <2>1 DEF Account!vars, Ids
  <2>2. CASE stored' # stored
    <3>1. stored' = stored \cup Accepted(B)
      BY <1>4, <2>2 DEF Ingest
    <3>2. Accepted(B) \in SUBSET Ids /\ Accepted(B) \cap stored = {}
      BY DEF Accepted, ValidIn
    <3>3. Accepted(B) \cap quarantine = {}
      BY DEF Accepted, ValidIn, QuarantineHonest
    <3>4. Account!Store(Accepted(B))
      BY <1>4, <3>1, <3>2, <3>3 DEF Account!Store, Ids
    <3>. QED
      BY <3>2, <3>4 DEF Account!Next
  <2>. QED
    BY <2>1, <2>2
<1>5. CASE ServerReply
  <2>1. sender.batch \in SUBSET Ids
    BY <1>0 DEF TypeOK, SenderState
  <2>. QED
    BY <1>4, <1>5, <2>1 DEF ServerReply
<1>6. CASE LateRequest
  <2>1. PICK B \in late : Ingest(B)
    BY <1>6 DEF LateRequest
  <2>2. B \in SUBSET Ids
    BY <1>0 DEF TypeOK
  <2>. QED
    BY <1>4, <1>6, <2>1, <2>2 DEF LateRequest
<1>7. CASE Acknowledge
  <2>. DEFINE S == Acknowledged(sender.reply) \cap spool
  <2>1. S \subseteq spool \cap stored /\ S \in SUBSET Ids
    BY <1>0 DEF Inv, RepliesBacked, Backed, TypeOK
  <2>2. spool' = spool \ S
    BY <1>7 DEF Acknowledge
  <2>. HIDE DEF S
  <2>3. Account!Release(S)
    BY <1>7, <2>1, <2>2 DEF Account!Release, Acknowledge, Ids
  <2>. QED
    BY <2>1, <2>3 DEF Account!Next
<1>8. CASE QuarantineRejected
  <2>. DEFINE S == sender.reply.rejected \cap spool
  <2>1. spool' = spool \ S /\ quarantine' = quarantine \cup S
    BY <1>8 DEF QuarantineRejected, QuarantineRows
  <2>2. \A i \in S : ~rows[i].valid
    BY DEF Inv, RepliesBacked, Backed
  <2>3. S \subseteq spool \ stored /\ S \in SUBSET Ids
    BY <2>2, <1>0 DEF Inv, StoredValid, TypeOK
  <2>. HIDE DEF S
  <2>4. Account!Refuse(S)
    BY <1>8, <2>1, <2>3 DEF Account!Refuse, QuarantineRejected, QuarantineRows, Ids
  <2>. QED
    BY <2>3, <2>4 DEF Account!Next
<1>9. CASE QuarantineBatch
  BY <1>9 DEF QuarantineBatch, NoneRefused
<1>10. CASE \/ \E c \in Collectors : SaveSequence(c)
            \/ SenderUsage \/ SenderBatch \/ RequestFails \/ Crash \/ UNCHANGED vars
  BY <1>10 DEF Account!vars, SaveSequence, SenderUsage, SenderBatch, RequestFails, Crash,
               vars, agentVars, Ids
<1>. QED
  BY <1>1, <1>2, <1>3, <1>5, <1>6, <1>7, <1>8, <1>9, <1>10
     DEF Next, EmitStep, SenderStep, Account!Next

\* Delivery implements the abstract account of its events whenever the
\* agent's batch limits are within the server's.
THEOREM DeliveryImplementsCustody ==
    ASSUME LimitsAgree
    PROVE  Spec => ImplementsCustody
<1>1. Init => CustodyInv /\ Account!Init
  <2>. SUFFICES ASSUME Init PROVE CustodyInv /\ Account!Init
    OBVIOUS
  <2>1. Inv
    BY InitInv
  <2>2. Ids = {}
    BY EmptySeq DEF Init, Ids
  <2>3. Fits({})
    BY SmallBatchesFit, FS_EmptySet, LimitAssumption
  <2>. QED
    BY <2>1, <2>2, <2>3 DEF Init, CustodyInv, NoneRefused, QuarantineHonest, IdleSender,
       NoReply, Account!Init
<1>2. CustodyInv /\ [Next]_vars => CustodyInv' /\ [Account!Next]_(Account!vars)
  BY CustodyInvStep, CustodyStep
<1>. QED
  BY <1>1, <1>2, PTL DEF Spec, ImplementsCustody, Account!Spec

\* Only events the server can never take are set aside.
THEOREM QuarantineIsHonest == Spec => []OnlyRefusedQuarantined
<1>1. CASE LimitsAgree
  <2>1. Init => CustodyInv
    BY <1>1, InitInv, SmallBatchesFit, FS_EmptySet, LimitAssumption
       DEF Init, CustodyInv, NoneRefused, QuarantineHonest, IdleSender, NoReply
  <2>2. CustodyInv /\ [Next]_vars => CustodyInv'
    BY <1>1, CustodyInvStep
  <2>3. CustodyInv => OnlyRefusedQuarantined
    BY DEF CustodyInv, QuarantineHonest, OnlyRefusedQuarantined
  <2>. QED
    BY <2>1, <2>2, <2>3, PTL DEF Spec
<1>2. CASE ~LimitsAgree
  <2>1. OnlyRefusedQuarantined
    BY <1>2 DEF OnlyRefusedQuarantined
  <2>. QED
    BY <2>1, PTL
<1>. QED
  BY <1>1, <1>2

-----------------------------------------------------------------------------
(* Data-loss events.  What emit() is about to report was evicted by its    *)
(* own append, and no row is evicted twice.                                *)

\* What a collector that has evicted rows will report.
Pending(c) == IF emitting[c].pc = "loss" THEN emitting[c].evicted ELSE {}

LossInv ==
    /\ TypeOK
    /\ spool \cap evicted = {}
    /\ LossReportedOnce
    /\ \A c \in Collectors : Pending(c) \subseteq evicted
    /\ \A c, d \in Collectors : c # d => Pending(c) \cap Pending(d) = {}
    /\ \A c \in Collectors, i \in Ids : Pending(c) \cap rows[i].lost = {}

\* Both appends evict rows of the spool, which nobody has reported yet.
LEMMA EnforceLoss ==
    ASSUME LossInv, TypeOK', NEW c \in Collectors, NEW pc \in {"loss", "sequence"}, Enforce(c, pc), UNCHANGED rows
    PROVE  LossInv'
<1>. USE DEF LossInv
<1>1. PICK h \in 0..Len(rows) :
         /\ spool' = spool \ Selected(h)
         /\ evicted' = evicted \cup Selected(h)
         /\ emitting' = [emitting EXCEPT ![c] =
                            [pc |-> IF Selected(h) # {} THEN pc ELSE "sequence",
                             evicted |-> IF pc = "loss" THEN Selected(h) ELSE {}]]
  BY DEF Enforce
<1>2. Selected(h) \subseteq spool /\ Selected(h) \cap evicted = {}
  BY SelectedInSpool
<1>3. Ids' = Ids
  BY SameRows
<1>4. \A d \in Collectors : Pending(d)' \in IF d = c THEN {{}, Selected(h)} ELSE {Pending(d)}
  BY <1>1 DEF Pending, TypeOK
<1>5. LossReportedOnce'
  BY <1>1, <1>3 DEF LossReportedOnce
<1>6. \A d \in Collectors : Pending(d)' \subseteq evicted'
  BY <1>1, <1>4
<1>7. ASSUME NEW d \in Collectors, NEW e \in Collectors, d # e PROVE Pending(d)' \cap Pending(e)' = {}
  BY <1>2, <1>4, <1>7
<1>8. ASSUME NEW d \in Collectors, NEW i \in Ids PROVE Pending(d)' \cap rows[i].lost = {}
  BY <1>2, <1>4 DEF LossReportedOnce
<1>. QED
  BY <1>1, <1>2, <1>3, <1>5, <1>6, <1>7, <1>8

\* An insertion reports nothing or exactly what its collector has evicted.
LEMMA InsertLoss ==
    ASSUME LossInv, NEW c \in Collectors, NEW n \in Nat, NEW s \in Nat, NEW v \in BOOLEAN,
           NEW lost \in SUBSET Nat, NEW pc \in {"enforce", "lossEnforce"},
           Insert(c, n, s, v, lost, pc),
           UNCHANGED <<quarantine, saved, evicted, sender, stored, receipts, late, boundVars>>,
           lost = {} \/ (n = 1 /\ lost = Pending(c))
    PROVE  LossInv'
<1>. USE DEF LossInv
<1>1. /\ TypeOK'
      /\ Ids' = Ids \cup (Len(rows) + 1)..(Len(rows) + n)
      /\ \A i \in Ids : rows'[i] = rows[i]
      /\ \A i \in Ids' \ Ids : rows'[i].lost = lost
  BY InsertType
<1>2. evicted' = evicted /\ spool' = spool \cup (Len(rows) + 1)..(Len(rows) + n)
  BY DEF Insert
<1>3. evicted \subseteq 1..Len(rows) /\ Len(rows) \in Nat
  BY LenProperties DEF TypeOK, Ids
<1>4. \A d \in Collectors : Pending(d)' = IF d = c THEN {} ELSE Pending(d)
  BY DEF Pending, Insert, TypeOK, EmitState
<1>5. spool' \cap evicted' = {}
  BY <1>2, <1>3
<1>6. lost \subseteq evicted /\ \A i \in Ids : lost \cap rows[i].lost = {}
  OBVIOUS
<1>7. \A i \in Ids' : rows'[i].lost \subseteq evicted'
  BY <1>1, <1>2, <1>6 DEF LossReportedOnce
<1>8. ASSUME NEW i \in Ids', NEW j \in Ids', i # j PROVE rows'[i].lost \cap rows'[j].lost = {}
  <2>1. CASE i \in Ids /\ j \in Ids
    BY <1>1, <1>8, <2>1 DEF LossReportedOnce
  <2>2. CASE i \in Ids <=> j \notin Ids
    BY <1>1, <1>6, <2>2
  <2>3. CASE i \notin Ids /\ j \notin Ids
    <3>1. rows'[i].lost = lost /\ rows'[j].lost = lost
      BY <1>1, <2>3
    <3>2. i \in (Len(rows) + 1)..(Len(rows) + n) /\ j \in (Len(rows) + 1)..(Len(rows) + n)
      BY <1>1, <2>3
    <3>3. n # 1
      BY <1>3, <1>8, <3>2
    <3>. QED
      BY <3>1, <3>3
  <2>. QED
    BY <2>1, <2>2, <2>3
<1>9. ASSUME NEW d \in Collectors, NEW i \in Ids' PROVE Pending(d)' \cap rows'[i].lost = {}
  BY <1>1, <1>4
<1>. QED
  BY <1>1, <1>2, <1>4, <1>5, <1>7, <1>8, <1>9 DEF LossReportedOnce

\* The data-loss events report evicted rows, and each of them once, for any
\* number of collectors that evict concurrently.
THEOREM LossesReportedOnce == Spec => []LossReportedOnce
<1>1. Init => LossInv
  <2>. SUFFICES ASSUME Init PROVE LossInv
    OBVIOUS
  <2>1. TypeOK /\ Ids = {}
    BY TypeInit, EmptySeq DEF Init, Ids
  <2>2. \A c \in Collectors : Pending(c) = {}
    BY DEF Init, Pending, IdleEmit
  <2>. QED
    BY <2>1, <2>2 DEF LossInv, LossReportedOnce, Init
<1>2. LossInv /\ [Next]_vars => LossInv'
  <2>. SUFFICES ASSUME LossInv, [Next]_vars PROVE LossInv'
    OBVIOUS
  <2>0. TypeOK'
    BY TypeStep DEF LossInv
  <2>1. ASSUME NEW c \in Collectors, EmitAppend(c) PROVE LossInv'
    <3>1. PICK n \in EmitCounts, s \in Sizes, v \in BOOLEAN : Insert(c, n, s, v, {}, "enforce")
      BY <2>1 DEF EmitAppend
    <3>2. n \in Nat /\ s \in Nat
      BY SizeAssumption
    <3>. QED
      BY <2>1, <3>1, <3>2, InsertLoss DEF EmitAppend
  <2>2. ASSUME NEW c \in Collectors, LossAppend(c) PROVE LossInv'
    <3>1. /\ Insert(c, 1, LossSize, TRUE, emitting[c].evicted, "lossEnforce")
          /\ UNCHANGED <<quarantine, saved, evicted, sender, stored, receipts, late, boundVars>>
          /\ emitting[c].evicted = Pending(c)
      BY <2>2 DEF LossAppend, Pending
    <3>2. emitting[c].evicted \in SUBSET Nat /\ LossSize \in Nat /\ 1 \in Nat
      BY SizeAssumption DEF LossInv, TypeOK, EmitState
    <3>. QED
      BY <3>1, <3>2, InsertLoss
  <2>3. ASSUME NEW c \in Collectors, EmitEnforce(c) \/ LossEnforce(c) PROVE LossInv'
    BY <2>0, <2>3, EnforceLoss DEF EmitEnforce, LossEnforce
  <2>4. ASSUME rows' = rows, evicted' = evicted, spool' \subseteq spool,
               \A c \in Collectors : Pending(c)' \in {{}, Pending(c)}
        PROVE  LossInv'
    <3>1. Ids' = Ids
      BY <2>4, SameRows
    <3>2. \A c, d \in Collectors : c # d => Pending(c)' \cap Pending(d)' = {}
      BY <2>4 DEF LossInv
    <3>3. \A c \in Collectors, i \in Ids : Pending(c)' \cap rows[i].lost = {}
      BY <2>4 DEF LossInv
    <3>. QED
      BY <2>0, <2>4, <3>1, <3>2, <3>3 DEF LossInv, LossReportedOnce
  <2>5. CASE (\E c \in Collectors : SaveSequence(c)) \/ Crash
    <3>1. \A c \in Collectors : Pending(c)' \in {{}, Pending(c)}
      BY <2>5 DEF SaveSequence, Crash, Pending, IdleEmit, LossInv, TypeOK
    <3>. QED
      BY <2>4, <2>5, <3>1 DEF SaveSequence, Crash
  <2>6. CASE SenderStep \/ RequestFails \/ LateRequest \/ UNCHANGED vars
    <3>1. rows' = rows /\ evicted' = evicted /\ spool' \subseteq spool /\ emitting' = emitting
      BY <2>6 DEF SenderStep, SenderUsage, SenderBatch, ServerReply, Acknowledge, QuarantineRejected,
                  QuarantineBatch, QuarantineRows, RequestFails, LateRequest, vars, agentVars
    <3>. QED
      BY <2>4, <3>1 DEF Pending
  <2>. QED
    BY <2>1, <2>2, <2>3, <2>5, <2>6 DEF Next, EmitStep
<1>3. LossInv => LossReportedOnce
  BY DEF LossInv
<1>. QED
  BY <1>1, <1>2, <1>3, PTL DEF Spec

\* The saved sequence never goes back, and every event inserted is above it:
\* the Normalizer is never behind what was saved, also after a crash.
THEOREM SequenceNeverReused == Spec => SequenceAdvances
<1>. DEFINE Ahead == TypeOK /\ saved <= seq
            Step == /\ saved' >= saved
                    /\ \A i \in (Len(rows) + 1)..Len(rows') : rows'[i].seq > saved
<1>1. Init => Ahead
  BY TypeInit DEF Init
<1>2. Ahead /\ [Next]_vars => Ahead' /\ [Step]_vars
  <2>. SUFFICES ASSUME Ahead, [Next]_vars PROVE Ahead' /\ Step
    OBVIOUS
  <2>0. TypeOK /\ TypeOK' /\ saved \in Nat /\ seq \in Nat /\ Len(rows) \in Nat
    BY TypeStep, LenProperties DEF TypeOK
  <2>1. ASSUME NEW c \in Collectors, NEW n \in Nat, NEW s \in Nat, NEW v \in BOOLEAN,
               NEW lost \in SUBSET Nat, NEW pc \in {"enforce", "lossEnforce"},
               Insert(c, n, s, v, lost, pc),
               UNCHANGED <<quarantine, saved, evicted, sender, stored, receipts, late, boundVars>>
        PROVE  Ahead' /\ Step
    <3>1. \A i \in Ids' \ Ids : rows'[i].seq > seq /\ rows'[i].seq \in Nat
      <4>1. \A i \in Ids' : rows'[i].seq \in Nat
        <5>1. rows' \in Seq(Row) /\ Ids' = 1..Len(rows')
          BY <2>0 DEF TypeOK, Ids
        <5>2. \A i \in Ids' : rows'[i] \in Row
          BY <5>1
        <5>. QED
          BY <5>2 DEF Row
      <4>2. \A i \in Ids' \ Ids : rows'[i].seq > seq
        BY <2>0, <2>1, InsertType
      <4>. QED
        BY <4>1, <4>2
    <3>2. saved' = saved /\ seq' = seq + n
      BY <2>1 DEF Insert
    <3>3. \A i \in (Len(rows) + 1)..Len(rows') : i \in Ids' \ Ids
      BY <2>0, LenProperties DEF Ids, TypeOK
    <3>. QED
      BY <2>0, <3>1, <3>2, <3>3
  <2>2. ASSUME NEW c \in Collectors, EmitAppend(c) PROVE Ahead' /\ Step
    <3>1. PICK n \in EmitCounts, s \in Sizes, v \in BOOLEAN : Insert(c, n, s, v, {}, "enforce")
      BY <2>2 DEF EmitAppend
    <3>2. n \in Nat /\ s \in Nat
      BY SizeAssumption
    <3>. QED
      BY <2>1, <2>2, <3>1, <3>2 DEF EmitAppend
  <2>3. ASSUME NEW c \in Collectors, LossAppend(c) PROVE Ahead' /\ Step
    <3>1. emitting[c].evicted \in SUBSET Nat /\ LossSize \in Nat
      BY <2>0, SizeAssumption DEF TypeOK, EmitState
    <3>. QED
      BY <2>1, <2>3, <3>1 DEF LossAppend
  <2>4. CASE ~\E c \in Collectors : EmitAppend(c) \/ LossAppend(c)
    <3>1. \/ saved' = saved /\ seq' = seq
          \/ saved' = seq /\ seq' = seq
          \/ saved' = saved /\ seq' = saved
      BY <2>4 DEF Next, EmitStep, SenderStep, EmitEnforce, LossEnforce, SaveSequence, SenderUsage,
             SenderBatch, ServerReply, Acknowledge, QuarantineRejected, QuarantineBatch,
             QuarantineRows, RequestFails, LateRequest, Crash, vars, agentVars
    <3>2. rows' = rows
      BY <2>4 DEF Next, EmitStep, SenderStep, EmitEnforce, LossEnforce, SaveSequence, SenderUsage,
             SenderBatch, ServerReply, Acknowledge, QuarantineRejected, QuarantineBatch,
             QuarantineRows, RequestFails, LateRequest, Crash, vars, agentVars
    <3>. QED
      BY <2>0, <3>1, <3>2
  <2>. QED
    BY <2>2, <2>3, <2>4
<1>. QED
  BY <1>1, <1>2, PTL DEF Spec, SequenceAdvances

-----------------------------------------------------------------------------
(* SUM(size): the fold does not depend on the order it takes the rows in,  *)
(* and more rows are no fewer bytes.  Each fact about a finite set is      *)
(* proved for a smallest set that would refute it.                         *)

Taken(s) == CHOOSE i \in s : TRUE

\* g is the fold's table of the sums of all subsets of S.
Sums(g, S) ==
    g = [s \in SUBSET S |-> IF s = {} THEN 0 ELSE rows[Taken(s)].size + g[s \ {Taken(s)}]]

Table(S) == CHOOSE g : Sums(g, S)

LEMMA BytesIsTable == \A S : Bytes(S) = Table(S)[S]
BY Zenon DEF Bytes, MapThenSumSet, MapThenFoldSet, Sums, Table, Taken

\* One row less.
LEMMA OneLess ==
    ASSUME NEW S, IsFiniteSet(S), NEW s \in SUBSET S
    PROVE  /\ IsFiniteSet(s) /\ Cardinality(s) \in Nat
           /\ s # {} => Taken(s) \in s
           /\ \A x \in s : /\ s \ {x} \in SUBSET S
                           /\ Cardinality(s \ {x}) \in Nat /\ Cardinality(s \ {x}) < Cardinality(s)
<1>1. IsFiniteSet(s) /\ Cardinality(s) \in Nat
  BY FS_Subset, FS_CardinalityType
<1>2. s # {} => Taken(s) \in s
  BY DEF Taken
<1>3. ASSUME NEW x \in s
      PROVE  s \ {x} \in SUBSET S /\ Cardinality(s \ {x}) \in Nat /\ Cardinality(s \ {x}) < Cardinality(s)
  <2>1. IsFiniteSet(s \ {x}) /\ Cardinality(s \ {x}) = Cardinality(s) - 1
    BY <1>1, FS_RemoveElement
  <2>2. Cardinality(s \ {x}) \in Nat
    BY <2>1, FS_CardinalityType
  <2> QED BY <1>1, <2>1, <2>2
<1> QED BY <1>1, <1>2, <1>3

\* A family of subsets that is not empty has a member of least size.
LEMMA SmallestSubset ==
    ASSUME NEW S, IsFiniteSet(S), NEW F \in SUBSET (SUBSET S), F # {}
    PROVE  \E s \in F : \A t \in F : ~(Cardinality(t) < Cardinality(s))
<1> DEFINE N == {n \in Nat : \E s \in F : n = Cardinality(s)}
<1>1. \A s \in F : Cardinality(s) \in Nat
  BY FS_Subset, FS_CardinalityType
<1>2. N \in SUBSET Nat /\ N # {}
  BY <1>1
<1>3. PICK m \in N : \A n \in N : m <= n
  <2> HIDE DEF N
  <2> QED BY <1>2, LeastNumber
<1>4. PICK s \in F : m = Cardinality(s)
  BY <1>3
<1>5. ASSUME NEW t \in F, Cardinality(t) < Cardinality(s) PROVE FALSE
  <2>1. Cardinality(t) \in N /\ Cardinality(t) \in Nat /\ m \in Nat
    BY <1>1, <1>3
  <2>2. m <= Cardinality(t)
    BY <1>3, <2>1
  <2> HIDE DEF N
  <2> QED BY <1>4, <1>5, <2>1, <2>2
<1> QED BY <1>5

LEMMA TableEntry ==
    ASSUME NEW g, NEW S, Sums(g, S), NEW s \in SUBSET S
    PROVE  g[s] = IF s = {} THEN 0 ELSE rows[Taken(s)].size + g[s \ {Taken(s)}]
BY DEF Sums

\* Two tables agree where both have an entry.
LEMMA TablesAgree ==
    ASSUME NEW S, IsFiniteSet(S), NEW R \in SUBSET S, NEW g, NEW h, Sums(g, S), Sums(h, R)
    PROVE  \A r \in SUBSET R : g[r] = h[r]
<1> DEFINE F == {r \in SUBSET R : g[r] # h[r]}
<1> SUFFICES ASSUME F # {} PROVE FALSE
  OBVIOUS
<1>1. F \in SUBSET (SUBSET S)
  OBVIOUS
<1>2. PICK r \in F : \A t \in F : ~(Cardinality(t) < Cardinality(r))
  <2> HIDE DEF F
  <2> QED BY <1>1, SmallestSubset
<1>3. r \in SUBSET R /\ r \in SUBSET S /\ g[r] # h[r]
  OBVIOUS
<1>4. /\ g[r] = IF r = {} THEN 0 ELSE rows[Taken(r)].size + g[r \ {Taken(r)}]
      /\ h[r] = IF r = {} THEN 0 ELSE rows[Taken(r)].size + h[r \ {Taken(r)}]
  BY <1>3, TableEntry
<1>5. r # {}
  BY <1>3, <1>4
<1>6. Taken(r) \in r /\ r \ {Taken(r)} \in SUBSET R /\ Cardinality(r \ {Taken(r)}) < Cardinality(r)
  BY <1>3, <1>5, OneLess
<1>7. g[r \ {Taken(r)}] = h[r \ {Taken(r)}]
  BY <1>2, <1>6
<1> QED BY <1>3, <1>4, <1>5, <1>7

\* Every finite set has a table.
LEMMA TableExists ==
    ASSUME NEW S, IsFiniteSet(S)
    PROVE  Sums(Table(S), S)
<1> DEFINE F == {s \in SUBSET S : ~ \E g : Sums(g, s)}
<1>1. F = {}
  <2> SUFFICES ASSUME F # {} PROVE FALSE
    OBVIOUS
  <2>1. F \in SUBSET (SUBSET S)
    OBVIOUS
  <2>2. PICK s \in F : \A t \in F : ~(Cardinality(t) < Cardinality(s))
    <3> HIDE DEF F
    <3> QED BY <2>1, SmallestSubset
  <2>3. s \in SUBSET S /\ ~ \E g : Sums(g, s) /\ IsFiniteSet(s)
    BY OneLess
  <2>4. ASSUME NEW t \in SUBSET s, t # s PROVE Sums(Table(t), t)
    <3>1. t \in SUBSET S /\ Cardinality(t) < Cardinality(s)
      BY <2>3, <2>4, FS_Subset, FS_CardinalityType
    <3>2. \E g : Sums(g, t)
      BY <2>2, <3>1
    <3> QED BY <3>2 DEF Table
  <2> DEFINE B(t) == Table(t)[t]
             G == [t \in SUBSET s |-> IF t = {} THEN 0 ELSE rows[Taken(t)].size + B(t \ {Taken(t)})]
  <2>5. ASSUME NEW u \in SUBSET s, u # s PROVE G[u] = B(u)
    <3>1. Sums(Table(u), u) /\ IsFiniteSet(u)
      BY <2>3, <2>4, <2>5, FS_Subset
    <3>2. B(u) = IF u = {} THEN 0 ELSE rows[Taken(u)].size + Table(u)[u \ {Taken(u)}]
      BY <3>1, TableEntry
    <3>3. CASE u = {}
      BY <3>2, <3>3
    <3>4. CASE u # {}
      <4> DEFINE v == u \ {Taken(u)}
      <4>1. v \in SUBSET u /\ v \in SUBSET s /\ v # s
        BY <2>5, <3>1, <3>4 DEF Taken
      <4>2. Sums(Table(v), v)
        BY <2>4, <4>1
      <4> HIDE DEF v
      <4>3. Table(u)[v] = Table(v)[v]
        BY <3>1, <4>1, <4>2, TablesAgree
      <4>4. G[u] = rows[Taken(u)].size + B(u \ {Taken(u)})
        BY <2>5, <3>4
      <4> QED BY <3>2, <3>4, <4>3, <4>4 DEF v
    <3> QED BY <3>3, <3>4
  <2>6. ASSUME NEW t \in SUBSET s, t # {} PROVE B(t \ {Taken(t)}) = G[t \ {Taken(t)}]
    <3>1. Taken(t) \in t
      BY <2>6 DEF Taken
    <3>2. t \ {Taken(t)} \in SUBSET s /\ t \ {Taken(t)} # s
      BY <3>1
    <3> HIDE DEF G, B
    <3> QED BY <2>5, <3>2
  <2>7. Sums(G, s)
    BY <2>6, Zenon DEF Sums
  <2> QED BY <2>3, <2>7
<1>2. \E g : Sums(g, S)
  BY <1>1
<1> QED BY <1>2 DEF Table

LEMMA BytesOne ==
    ASSUME NEW S, IsFiniteSet(S)
    PROVE  Bytes(S) = IF S = {} THEN 0 ELSE rows[Taken(S)].size + Bytes(S \ {Taken(S)})
<1>1. Sums(Table(S), S) /\ Bytes(S) = Table(S)[S]
  BY TableExists, BytesIsTable
<1>2. Table(S)[S] = IF S = {} THEN 0 ELSE rows[Taken(S)].size + Table(S)[S \ {Taken(S)}]
  BY <1>1, TableEntry
<1> DEFINE R == S \ {Taken(S)}
<1>3. R \in SUBSET S /\ IsFiniteSet(R) /\ R \in SUBSET R
  BY FS_Subset
<1> HIDE DEF R
<1>4. Table(S)[R] = Table(R)[R] /\ Bytes(R) = Table(R)[R]
  BY <1>1, <1>3, TableExists, TablesAgree, BytesIsTable
<1> QED BY <1>1, <1>2, <1>4 DEF R

LEMMA BytesType ==
    ASSUME NEW S, IsFiniteSet(S), \A i \in S : rows[i].size \in Nat
    PROVE  \A s \in SUBSET S : Bytes(s) \in Nat
<1> DEFINE F == {s \in SUBSET S : Bytes(s) \notin Nat}
<1> SUFFICES ASSUME F # {} PROVE FALSE
  OBVIOUS
<1>1. F \in SUBSET (SUBSET S)
  OBVIOUS
<1>2. PICK s \in F : \A t \in F : ~(Cardinality(t) < Cardinality(s))
  <2> HIDE DEF F
  <2> QED BY <1>1, SmallestSubset
<1>3. s \in SUBSET S /\ Bytes(s) \notin Nat /\ IsFiniteSet(s)
  BY OneLess
<1>4. Bytes(s) = IF s = {} THEN 0 ELSE rows[Taken(s)].size + Bytes(s \ {Taken(s)})
  BY <1>3, BytesOne
<1>5. s # {}
  BY <1>3, <1>4
<1>6. Taken(s) \in s /\ s \ {Taken(s)} \in SUBSET S /\ Cardinality(s \ {Taken(s)}) < Cardinality(s)
  BY <1>3, <1>5, OneLess
<1>7. Bytes(s \ {Taken(s)}) \in Nat /\ rows[Taken(s)].size \in Nat
  BY <1>2, <1>3, <1>6
<1> QED BY <1>3, <1>4, <1>5, <1>7

\* Any row may be taken first.
LEMMA BytesRemove ==
    ASSUME NEW S, IsFiniteSet(S), \A i \in S : rows[i].size \in Nat
    PROVE  \A s \in SUBSET S : \A x \in s : Bytes(s) = rows[x].size + Bytes(s \ {x})
<1> DEFINE F == {s \in SUBSET S : \E x \in s : Bytes(s) # rows[x].size + Bytes(s \ {x})}
<1> SUFFICES ASSUME F # {} PROVE FALSE
  OBVIOUS
<1>1. F \in SUBSET (SUBSET S)
  OBVIOUS
<1>2. PICK s \in F : \A t \in F : ~(Cardinality(t) < Cardinality(s))
  <2> HIDE DEF F
  <2> QED BY <1>1, SmallestSubset
<1>3. s \in SUBSET S /\ IsFiniteSet(s)
  BY OneLess
<1>4. PICK x \in s : Bytes(s) # rows[x].size + Bytes(s \ {x})
  OBVIOUS
<1> DEFINE y == Taken(s)
<1>5. y \in s /\ Bytes(s) = rows[y].size + Bytes(s \ {y})
  BY <1>3, <1>4, BytesOne, OneLess
<1>6. x # y
  BY <1>4, <1>5
<1> HIDE DEF y
<1>7. /\ s \ {y} \in SUBSET S /\ Cardinality(s \ {y}) < Cardinality(s)
      /\ s \ {x} \in SUBSET S /\ Cardinality(s \ {x}) < Cardinality(s)
  BY <1>3, <1>4, <1>5, OneLess
<1>8. s \ {y} \notin F /\ s \ {x} \notin F
  BY <1>2, <1>7
<1>9. /\ Bytes(s \ {y}) = rows[x].size + Bytes((s \ {y}) \ {x})
      /\ Bytes(s \ {x}) = rows[y].size + Bytes((s \ {x}) \ {y})
  BY <1>4, <1>5, <1>6, <1>7, <1>8
<1>10. (s \ {y}) \ {x} = (s \ {x}) \ {y} /\ (s \ {x}) \ {y} \in SUBSET S
  BY <1>3
<1>11. Bytes((s \ {x}) \ {y}) \in Nat /\ rows[x].size \in Nat /\ rows[y].size \in Nat
  BY <1>3, <1>4, <1>5, <1>10, BytesType
<1> DEFINE c == Bytes((s \ {x}) \ {y})
<1>12. /\ Bytes(s) = rows[y].size + (rows[x].size + c) /\ Bytes(s \ {x}) = rows[y].size + c
  BY <1>5, <1>9, <1>10
<1> HIDE DEF c
<1>13. c \in Nat
  BY <1>11 DEF c
<1> QED BY <1>4, <1>11, <1>12, <1>13

\* Fewer rows are no more bytes.
LEMMA BytesMonotone ==
    ASSUME NEW S, IsFiniteSet(S), \A i \in S : rows[i].size \in Nat, NEW A \in SUBSET S
    PROVE  \A s \in SUBSET S : A \subseteq s => Bytes(A) <= Bytes(s)
<1> DEFINE F == {s \in SUBSET S : A \subseteq s /\ ~(Bytes(A) <= Bytes(s))}
<1> SUFFICES ASSUME F # {} PROVE FALSE
  OBVIOUS
<1>1. F \in SUBSET (SUBSET S)
  OBVIOUS
<1>2. PICK s \in F : \A t \in F : ~(Cardinality(t) < Cardinality(s))
  <2> HIDE DEF F
  <2> QED BY <1>1, SmallestSubset
<1>3. s \in SUBSET S /\ A \subseteq s /\ ~(Bytes(A) <= Bytes(s))
  OBVIOUS
<1>4. Bytes(A) \in Nat /\ Bytes(s) \in Nat
  BY <1>3, BytesType
<1>5. A # s
  BY <1>3, <1>4
<1>6. PICK x \in s : x \notin A
  BY <1>3, <1>5
<1>7. s \ {x} \in SUBSET S /\ Cardinality(s \ {x}) < Cardinality(s) /\ A \subseteq s \ {x}
  BY <1>3, <1>6, OneLess
<1>8. Bytes(A) <= Bytes(s \ {x})
  BY <1>2, <1>7
<1>9. Bytes(s) = rows[x].size + Bytes(s \ {x}) /\ rows[x].size \in Nat /\ Bytes(s \ {x}) \in Nat
  BY <1>3, <1>7, BytesRemove, BytesType
<1> QED BY <1>3, <1>4, <1>8, <1>9

\* What the limits select is a prefix of the spool.
LEMMA SelectsPrefix ==
    ASSUME TypeOK, NEW h \in Nat, NEW i \in Selected(h), NEW j \in spool \ Selected(h)
    PROVE  i < j
<1>1. spool \subseteq 1..Len(rows) /\ Len(rows) \in Nat /\ rows \in Seq(Row)
  BY LenProperties DEF TypeOK, Ids
<1>2. IsFiniteSet(spool)
  <2>1. IsFiniteSet(1..Len(rows))
    BY <1>1, FS_Interval
  <2> QED BY <1>1, <2>1, FS_Subset
<1>3. \A k \in spool : rows[k].size \in Nat /\ k \in Nat
  <2>1. \A k \in 1..Len(rows) : rows[k] \in Row
    BY <1>1
  <2> QED BY <1>1, <2>1, SizeAssumption DEF Row
<1>4. i \in spool /\ i \in Nat /\ j \in Nat /\ i # j
  BY <1>3, SelectedInSpool
<1> SUFFICES ASSUME j < i PROVE FALSE
  BY <1>4
<1> DEFINE aged == {k \in spool : k <= h}
           t == Bytes(spool) - Bytes(aged)
           low == {k \in spool : k < j}
           high == {k \in spool : k < i}
<1>5. Selected(h) = aged \cup {k \in spool : t - Bytes({m \in spool : m < k}) > MaxBytes}
  BY DEF Selected
<1>6. j \notin aged /\ i \notin aged
  <2>1. j \notin aged
    BY <1>5
  <2> QED BY <1>4, <2>1
<1>7. t \in Int /\ Bytes(low) \in Nat /\ Bytes(high) \in Nat /\ MaxBytes \in Nat
  <2>1. spool \in SUBSET spool /\ aged \in SUBSET spool /\ low \in SUBSET spool /\ high \in SUBSET spool
    OBVIOUS
  <2> HIDE DEF aged, low, high
  <2>2. Bytes(spool) \in Nat /\ Bytes(aged) \in Nat /\ Bytes(low) \in Nat /\ Bytes(high) \in Nat
    BY <1>2, <1>3, <2>1, BytesType
  <2> QED BY <2>2, SizeAssumption
<1> HIDE DEF t, aged
<1>8. t - Bytes(high) > MaxBytes
  BY <1>5, <1>6
<1>9. ~(t - Bytes(low) > MaxBytes)
  BY <1>5
<1>10. low \in SUBSET spool /\ high \in SUBSET spool /\ low \subseteq high
  <2>1. \A k \in spool : k < j => k < i
    <3> SUFFICES ASSUME NEW k \in spool, k < j PROVE k < i
      OBVIOUS
    <3>1. k \in Nat
      BY <1>3
    <3> QED BY <1>4, <3>1
  <2> QED BY <2>1
<1> HIDE DEF low, high
<1>11. Bytes(low) <= Bytes(high)
  BY <1>2, <1>3, <1>10, BytesMonotone
<1> QED BY <1>7, <1>8, <1>9, <1>11

\* Whatever the sizes and however the clock steps, a row that the limits evict
\* is older than every row they leave (_enforce_limits_sync).
THEOREM OldestEvicted == Spec => EvictsOldestFirst
<1> DEFINE Older == \A i \in evicted' \ evicted, j \in spool' : i < j
<1>1. TypeOK /\ [Next]_vars => [Older]_vars
  <2> SUFFICES ASSUME TypeOK, [Next]_vars PROVE Older
    OBVIOUS
  <2>1. ASSUME NEW c \in Collectors, NEW pc, Enforce(c, pc) PROVE Older
    <3>1. PICK h \in 0..Len(rows) : spool' = spool \ Selected(h) /\ evicted' = evicted \cup Selected(h)
      BY <2>1 DEF Enforce
    <3>2. h \in Nat
      BY LenProperties DEF TypeOK
    <3> SUFFICES ASSUME NEW i \in evicted' \ evicted, NEW j \in spool' PROVE i < j
      OBVIOUS
    <3>3. i \in Selected(h) /\ j \in spool \ Selected(h)
      BY <3>1
    <3> QED BY <3>2, <3>3, SelectsPrefix
  <2>2. (\E c \in Collectors : EmitEnforce(c) \/ LossEnforce(c)) \/ evicted' = evicted
    BY DEF Next, EmitStep, SenderStep, EmitAppend, LossAppend, SaveSequence, SenderUsage,
           SenderBatch, ServerReply, Acknowledge, QuarantineRejected, QuarantineBatch,
           QuarantineRows, RequestFails, LateRequest, Crash, vars, agentVars
  <2>3. evicted' = evicted => Older
    OBVIOUS
  <2> QED BY <2>1, <2>2, <2>3 DEF EmitEnforce, LossEnforce
<1> QED BY <1>1, TypeCorrect, PTL DEF Spec, EvictsOldestFirst
=============================================================================
