-------------------------- MODULE ExperimentProofs --------------------------
(***************************************************************************)
(* Proofs about Experiment and Live, for any plans, viewers and number of  *)
(* failures.                                                               *)
(***************************************************************************)
EXTENDS Experiment, TLAPS

-----------------------------------------------------------------------------
(* The inductive invariant.                                                *)

RunnerState == [exp : Nat, pc : {"record", "post", "start", "launched", "wait", "cleanup", "exit"},
                state : States \cup {"none"}, fault : BOOLEAN, error : BOOLEAN,
                raising : BOOLEAN, cancelled : BOOLEAN]

\* Where the task stands says what it knows of the fault and of an error.
RunnerOK ==
    /\ runner \in RunnerState /\ cur \in Ids
    /\ runner.pc \in {"record", "post"} <=> runner.state # "none"
    /\ runner.pc \in {"start", "launched"} \/ runner.state = "started" => ~runner.fault /\ ~runner.error
    /\ runner.pc = "wait" \/ runner.state = "ended" => runner.fault /\ ~runner.error
    /\ runner.pc = "cleanup" => runner.fault /\ (runner.raising \/ cur \in ran)
    /\ runner.state = "ended" => cur \in ran
    /\ runner.state = "failed" => runner.error
    /\ runner.state = "cleanup_failed" => ~runner.error /\ cur \in excused
    /\ runner.error => runner.raising

\* A state of an experiment is recorded once: a request is a line of the log,
\* and it is under way or it is an event, never both.
LogOK ==
    /\ log \subseteq Ids \X States
    /\ requests \cup events \subseteq log /\ requests \cap events = {}
    /\ \A e \in Ids, st \in States : <<e, st>> \in log => e <= cur
    /\ runner.pc = "record" => <<cur, runner.state>> \notin log
    /\ runner.pc = "post" => token /\ <<cur, runner.state>> \in log
    /\ runner.state = "started" /\ runner.pc = "record" =>
          \A st \in States : <<cur, st>> \notin log
    /\ runner.pc \in {"start", "launched", "wait"} \/ runner.state = "started" => <<cur, "ended">> \notin log
    /\ <<cur, "failed">> \in log => runner.error
    /\ <<cur, "cleanup_failed">> \in log => runner.pc = "exit" \/ runner.state = "cleanup_failed"
    /\ runner.pc # "exit" /\ runner.state # "started" =>
          <<cur, "started">> \in log /\ (token => <<cur, "started">> \in events)

\* The effect of an experiment: after the record of its start, and gone or
\* excused once the runner has left.
EffectsOK ==
    /\ \A e \in effects : /\ e \in Ids /\ e <= cur
                          /\ <<e, "started">> \in log /\ (token => <<e, "started">> \in events)
    /\ LeftClean
    /\ runner.pc = "start" \/ runner.state = "started" => cur \notin effects
    /\ runner.state = "failed" /\ ~runner.fault => cur \notin effects \ excused

\* What the server says of an experiment that is settled or about to be.
TruthOK ==
    /\ \A e \in Ids : <<e, "ended">> \in log => e \in ran
    /\ \A e \in Ids : status[e] = "completed" => e \in ran
    /\ \A e \in Ids \ unsure, st \in States :
          <<e, st>> \in requests => e = cur /\ runner.pc = "post" /\ st = runner.state
    /\ TruthSettled
    /\ token /\ cur \notin unsure =>
          /\ runner.pc = "post" /\ <<cur, runner.state>> \in events => status[cur] = StatusOf(runner.state)
          /\ runner.pc = "cleanup" => status[cur] = IF runner.error THEN "failed" ELSE "completed"

\* The rest of the types.
OtherOK ==
    /\ LiveTypeOK
    /\ plan \in Plans /\ token \in BOOLEAN
    /\ status \in [Ids -> {"none", "running", "completed", "failed"}]
    /\ UNION {effects, ran, excused, unsure} \subseteq Ids
    /\ failures \in 0..MaxFailures /\ others \in 0..MaxOthers

ExpInv == OtherOK /\ RunnerOK /\ LogOK /\ EffectsOK /\ TruthOK

-----------------------------------------------------------------------------
(* Steps of the task, field by field.                                      *)

Becomes(pc, state, fault, error, raising) ==
    /\ runner' \in RunnerState /\ runner'.exp = cur
    /\ runner'.pc = pc /\ runner'.state = state
    /\ runner'.fault <=> fault
    /\ runner'.error <=> error
    /\ runner'.raising <=> raising

\* The next experiment begins.
BeginsNext ==
    /\ runner' \in RunnerState /\ runner'.exp = cur + 1 /\ cur + 1 \in Ids
    /\ runner'.pc = "record" /\ runner'.state = "started"
    /\ ~runner'.fault /\ ~runner'.error /\ ~runner'.raising

Leaves == Becomes("exit", "none", runner.fault, runner.error, runner.raising)
CleansUp == Becomes("cleanup", "none", runner.fault, runner.error, runner.raising)
Reports == Becomes("record", "failed", runner.fault, TRUE, TRUE)

\* A plan has experiments.
LEMMA PlanFacts ==
    ASSUME OtherOK
    PROVE  Len(plan) \in Nat \ {0} /\ Ids \subseteq Nat \ {0} /\ 1 \in Ids
<1>1. plan \in Seq({"process", "disk", "unit", "silent"}) /\ plan # <<>>
  BY ExperimentAssumption DEF OtherOK
<1>2. Len(plan) \in Nat \ {0}
  BY <1>1
<1>. QED
  BY <1>2 DEF Ids

\* Leaving, raising and the finally clause.
LEMMA TaskMoves ==
    ASSUME RunnerOK
    PROVE  /\ runner' = Exit => Leaves
           /\ runner' = Raised(runner) => Reports
           /\ runner' = Finally(runner) => (runner.fault /\ CleansUp) \/ (~runner.fault /\ Leaves)
           /\ \A st \in States : runner' = Record(st) => Becomes("record", st, runner.fault, runner.error, runner.raising)
           /\ \A pc \in {"post", "launched"} : runner' = [runner EXCEPT !.pc = pc] =>
                 Becomes(pc, runner.state, runner.fault, runner.error, runner.raising)
<1>1. runner \in RunnerState /\ runner.exp = cur
  BY DEF RunnerOK, cur
<1>. USE DEF RunnerState, States, Becomes
<1>2. runner' = Exit => Leaves
  BY <1>1 DEF Exit, Leaves
<1>3. runner' = Raised(runner) => Reports
  BY <1>1 DEF Raised, Reports
<1>4. runner' = Finally(runner) => (runner.fault /\ CleansUp) \/ (~runner.fault /\ Leaves)
  BY <1>1 DEF Finally, CleansUp, Leaves
<1>5. ASSUME NEW st \in States, runner' = Record(st)
      PROVE  Becomes("record", st, runner.fault, runner.error, runner.raising)
  BY <1>1, <1>5 DEF Record
<1>6. ASSUME NEW pc \in {"post", "launched"}, runner' = [runner EXCEPT !.pc = pc]
      PROVE  Becomes(pc, runner.state, runner.fault, runner.error, runner.raising)
  BY <1>1, <1>6
<1>. QED
  BY <1>2, <1>3, <1>4, <1>5, <1>6

\* What follows a record.
LEMMA RecordedMoves ==
    ASSUME RunnerOK, NEW ok \in BOOLEAN, runner.pc \in {"record", "post"}, runner' = Recorded(ok)
    PROVE  \/ /\ runner.state = "started"
              /\ \/ ok /\ Becomes("start", "none", FALSE, FALSE, runner.raising)
                 \/ ~ok /\ Leaves
           \/ /\ runner.state = "ended"
              /\ \/ ok /\ CleansUp
                 \/ ~ok /\ Reports
           \/ /\ runner.state = "failed"
              /\ (runner.fault /\ CleansUp) \/ (~runner.fault /\ Leaves)
           \/ runner.state = "cleanup_failed" /\ Leaves
<1>1. runner \in RunnerState /\ runner.exp = cur /\ runner.state \in States
  BY DEF RunnerOK, cur, RunnerState, States
<1>2. CASE runner.state = "started"
  <2>1. runner' = IF ok THEN [runner EXCEPT !.pc = "start", !.state = "none"] ELSE Exit
    BY <1>2 DEF Recorded
  <2>2. ~runner.fault /\ ~runner.error
    BY <1>2 DEF RunnerOK
  <2>3. CASE ok
    BY <1>1, <2>1, <2>2, <2>3, <1>2 DEF Becomes, RunnerState, States
  <2>4. CASE ~ok
    BY <1>2, <2>1, <2>4, TaskMoves
  <2>. QED
    BY <2>3, <2>4
<1>3. CASE runner.state = "ended"
  <2>1. runner.fault /\ runner' = IF ok THEN Finally(runner) ELSE Raised(runner)
    BY <1>3 DEF Recorded, RunnerOK
  <2>. QED
    BY <1>3, <2>1, TaskMoves
<1>4. CASE runner.state = "failed"
  <2>1. runner' = Finally(runner)
    BY <1>4 DEF Recorded
  <2>. QED
    BY <1>4, <2>1, TaskMoves
<1>5. CASE runner.state = "cleanup_failed"
  <2>1. runner' = Exit
    BY <1>5 DEF Recorded
  <2>. QED
    BY <1>5, <2>1, TaskMoves
<1>. QED
  BY <1>1, <1>2, <1>3, <1>4, <1>5 DEF States

\* What follows the cleanup.
LEMMA AfterMoves ==
    ASSUME OtherOK, RunnerOK, runner' = After
    PROVE  Leaves \/ (~runner.raising /\ BeginsNext)
<1>1. CASE runner.raising \/ cur = Len(plan)
  BY <1>1, TaskMoves DEF After
<1>2. CASE ~runner.raising /\ cur # Len(plan)
  <2>1. runner' = Begin(cur + 1)
    BY <1>2 DEF After
  <2>2. cur + 1 \in Nat /\ cur + 1 \in Ids
    BY <1>2, PlanFacts DEF RunnerOK, Ids
  <2>. QED
    BY <1>2, <2>1, <2>2 DEF Begin, BeginsNext, RunnerState, States
<1>. QED
  BY <1>1, <1>2

\* The server keeps its watermarks and streams well typed.
LEMMA LiveStep ==
    ASSUME LiveTypeOK,
           \/ \E k \in WatermarkKinds : Commit(k) \/ Publish(k)
           \/ \E v \in Viewers : Connect(v) \/ Disconnect(v) \/ StreamStep(v)
           \/ ServerCrash
           \/ UNCHANGED liveVars
    PROVE  LiveTypeOK'
<1>. USE DEF LiveTypeOK
<1>1. Unseen \in [WatermarkKinds -> Nat \cup {-1}] /\ Zero \in [WatermarkKinds -> Nat]
  BY DEF Unseen, Zero, WatermarkKinds
<1>2. Closed \in [pc : {"closed", "top", "yield", "keepalive", "wait"}, seen : [WatermarkKinds -> Nat \cup {-1}]]
  BY <1>1 DEF Closed
<1>3. ASSUME NEW k \in WatermarkKinds, Commit(k) PROVE LiveTypeOK'
  BY <1>3 DEF Commit
<1>4. ASSUME NEW k \in WatermarkKinds, Publish(k) PROVE LiveTypeOK'
  <2>1. \A v \in Viewers : Wakes(k, streams[v]) \in
           [pc : {"closed", "top", "yield", "keepalive", "wait"}, seen : [WatermarkKinds -> Nat \cup {-1}]]
    BY DEF Wakes
  <2>. QED
    BY <1>4, <2>1 DEF Publish
<1>5. ASSUME NEW v \in Viewers, Connect(v) \/ Disconnect(v) PROVE LiveTypeOK'
  <2>1. [Closed EXCEPT !.pc = "top"] \in
           [pc : {"closed", "top", "yield", "keepalive", "wait"}, seen : [WatermarkKinds -> Nat \cup {-1}]]
    BY <1>2
  <2>. QED
    BY <1>2, <1>5, <2>1 DEF Connect, Disconnect
<1>6. ASSUME NEW v \in Viewers, Compare(v) PROVE LiveTypeOK'
  <2>1. watermark \in [WatermarkKinds -> Nat \cup {-1}]
    OBVIOUS
  <2>2. [pc |-> "yield", seen |-> watermark] \in
           [pc : {"closed", "top", "yield", "keepalive", "wait"}, seen : [WatermarkKinds -> Nat \cup {-1}]]
    BY <2>1
  <2>3. stored \in 0..stored
    OBVIOUS
  <2>4. CASE watermark # streams[v].seen
    BY <1>6, <2>2, <2>3, <2>4 DEF Compare
  <2>5. CASE watermark = streams[v].seen
    BY <1>6, <2>5 DEF Compare
  <2>. QED
    BY <2>4, <2>5
<1>7. ASSUME NEW v \in Viewers, Resume(v) \/ Timeout(v) PROVE LiveTypeOK'
  BY <1>7 DEF Resume, Timeout
<1>8. CASE ServerCrash
  BY <1>1, <1>2, <1>8 DEF ServerCrash
<1>9. CASE UNCHANGED liveVars
  BY <1>9 DEF liveVars
<1>. QED
  BY <1>3, <1>4, <1>5, <1>6, <1>7, <1>8, <1>9 DEF StreamStep

\* Every step of the runner, of the write_ground_truth handler and of what
\* can go wrong keeps the invariant.
LEMMA ExpStep ==
    ASSUME ExpInv, [Next]_vars, LiveTypeOK'
    PROVE  ExpInv'
<1>. USE DEF ExpInv, serverVars, historyVars
<1>0. Ids' = Ids /\ UNCHANGED <<plan, token>>
  BY DEF Next, RunnerStep, Post, RecordReturns, Launch, Started, WaitEnds, Cleanup, RecordFails, StartFails,
         WaitFails, CleanupFails, Cancel, Kill, Expire, WriteGroundTruth, OtherCommit, Crash, ViewerLeaves,
         Publishes, ViewerStep, runnerVars, vars, Ids
<1>p. Len(plan) \in Nat \ {0} /\ Ids \subseteq Nat \ {0} /\ MaxFailures \in Nat /\ MaxOthers \in Nat
  BY PlanFacts, ExperimentAssumption
<1>1. CASE Post
  <2>0. \/ /\ token /\ requests' = requests \cup {<<cur, runner.state>>}
           /\ Becomes("post", runner.state, runner.fault, runner.error, runner.raising)
        \/ /\ ~token /\ requests' = requests
           /\ \/ runner.state = "started" /\ Becomes("start", "none", FALSE, FALSE, runner.raising)
              \/ runner.state = "ended" /\ CleansUp
              \/ runner.state = "failed" /\ runner.fault /\ CleansUp
              \/ runner.state = "failed" /\ ~runner.fault /\ Leaves
              \/ runner.state = "cleanup_failed" /\ Leaves
    BY <1>1, TaskMoves, RecordedMoves DEF Post, RunnerOK
  <2>1. RunnerOK'
    BY <1>0, <1>1, <2>0 DEF Post, Becomes, Leaves, CleansUp, cur, RunnerOK
  <2>2. LogOK'
    <3>1. /\ runner.state \in States /\ cur \in Ids /\ runner'.exp = cur
          /\ log' = log \cup {<<cur, runner.state>>} /\ <<cur, runner.state>> \notin log /\ events' = events
      BY <1>1, <2>0 DEF Post, Becomes, Leaves, CleansUp, RunnerOK, LogOK, RunnerState
    <3>2. /\ log' \subseteq Ids \X States
          /\ requests' \cup events' \subseteq log' /\ requests' \cap events' = {}
          /\ \A e \in Ids, st \in States : <<e, st>> \in log' => e <= cur
      <4>1. requests' \subseteq requests \cup {<<cur, runner.state>>}
        BY <2>0
      <4>2. requests' \cup events' \subseteq log' /\ requests' \cap events' = {}
        BY <3>1, <4>1 DEF LogOK
      <4>3. log' \subseteq Ids \X States
        BY <3>1 DEF LogOK
      <4>4. cur <= cur
        BY <1>p, <3>1
      <4>5. ASSUME NEW e \in Ids, NEW st \in States, <<e, st>> \in log' PROVE e <= cur
        BY <3>1, <4>4, <4>5 DEF LogOK
      <4>. QED
        BY <4>2, <4>3, <4>5
    <3>3. /\ runner'.pc # "record"
          /\ runner'.pc = "post" => token /\ <<cur, runner'.state>> \in log'
      BY <2>0, <3>1 DEF Becomes, Leaves, CleansUp
    <3>4. runner'.pc \in {"start", "launched", "wait"} \/ runner'.state = "started" => <<cur, "ended">> \notin log'
      BY <1>1, <2>0, <3>1 DEF Post, Becomes, Leaves, CleansUp, LogOK
    <3>5. <<cur, "failed">> \in log' => runner'.error
      BY <1>1, <2>0, <3>1 DEF Post, Becomes, Leaves, CleansUp, LogOK, RunnerOK
    <3>6. <<cur, "cleanup_failed">> \in log' => runner'.pc = "exit" \/ runner'.state = "cleanup_failed"
      BY <1>1, <2>0, <3>1 DEF Post, Becomes, Leaves, CleansUp, LogOK
    <3>7. runner'.pc # "exit" /\ runner'.state # "started" =>
             <<cur, "started">> \in log' /\ (token => <<cur, "started">> \in events')
      BY <1>1, <2>0, <3>1 DEF Post, Becomes, Leaves, CleansUp, LogOK
    <3>. QED
      BY <1>0, <3>1, <3>2, <3>3, <3>4, <3>5, <3>6, <3>7 DEF LogOK, cur
  <2>3. EffectsOK'
    BY <1>0, <1>1, <2>0 DEF Post, Becomes, Leaves, CleansUp, cur, RunnerOK, EffectsOK, LeftClean, Past
  <2>4. TruthOK'
    BY <1>0, <1>1, <2>0 DEF Post, Becomes, Leaves, cur, RunnerOK, LogOK, TruthOK, TruthSettled, Past
  <2>5. OtherOK'
    BY <1>0, <1>1, <2>0 DEF Post, cur, OtherOK
  <2>. QED
    BY <2>1, <2>2, <2>3, <2>4, <2>5
<1>2. CASE RecordReturns
  <2>0. \/ runner.state = "started" /\ Becomes("start", "none", FALSE, FALSE, runner.raising)
        \/ runner.state = "ended" /\ CleansUp
        \/ runner.state = "failed" /\ runner.fault /\ CleansUp
        \/ runner.state = "failed" /\ ~runner.fault /\ Leaves
        \/ runner.state = "cleanup_failed" /\ Leaves
    BY <1>2, RecordedMoves DEF RecordReturns, RunnerOK
  <2>1. RunnerOK'
    BY <1>0, <1>2, <2>0 DEF RecordReturns, Becomes, Leaves, CleansUp, cur, RunnerOK
  <2>2. LogOK'
    BY <1>0, <1>2, <2>0 DEF RecordReturns, Becomes, Leaves, CleansUp, cur, RunnerOK, LogOK
  <2>3. EffectsOK'
    BY <1>0, <1>2, <2>0 DEF RecordReturns, Becomes, Leaves, CleansUp, cur, RunnerOK, LogOK, EffectsOK, LeftClean, Past
  <2>4. TruthOK'
    <3>1. /\ UNCHANGED <<log, requests, status, events, effects, ran, unsure>> /\ runner'.exp = cur
          /\ runner.pc = "post" /\ <<cur, runner.state>> \in events /\ <<cur, runner.state>> \notin requests
          /\ cur \in Ids /\ runner'.pc # "post"
      BY <1>2, <2>0 DEF RecordReturns, Becomes, Leaves, CleansUp, RunnerOK, LogOK
    <3>2. \A e \in Ids \ unsure, st \in States : <<e, st>> \notin requests
      BY <3>1 DEF TruthOK
    <3>3. token /\ cur \notin unsure => status[cur] = StatusOf(runner.state)
      BY <3>1 DEF TruthOK
    <3>4. ASSUME token, cur \notin unsure, runner'.pc = "cleanup"
          PROVE  status[cur] = IF runner'.error THEN "failed" ELSE "completed"
      BY <2>0, <3>3, <3>4 DEF Becomes, Leaves, CleansUp, StatusOf, RunnerOK
    <3>5. ASSUME token, cur \notin unsure, runner'.pc = "exit"
          PROVE  status[cur] = "failed"
      BY <2>0, <3>3, <3>5 DEF Becomes, Leaves, CleansUp, StatusOf
    <3>6. TruthSettled'
      <4>1. ASSUME token, NEW e \in Ids \ unsure, Past(e)'
            PROVE  status[e] \in {"completed", "failed"} /\ (status[e] = "completed" => e \notin effects \/ plan[e] = "silent")
        <5>1. e < cur \/ (e = cur /\ runner'.pc = "exit")
          BY <3>1, <4>1 DEF Past, cur
        <5>. QED
          BY <3>5, <4>1, <5>1 DEF TruthOK, TruthSettled, Past
      <4>. QED
        BY <1>0, <3>1, <4>1 DEF TruthSettled
    <3>. QED
      BY <1>0, <3>1, <3>2, <3>4, <3>6 DEF TruthOK, cur
  <2>5. OtherOK'
    BY <1>0, <1>2, <2>0 DEF RecordReturns, cur, OtherOK
  <2>. QED
    BY <2>1, <2>2, <2>3, <2>4, <2>5
<1>3. CASE RecordFails
  <2>0. \/ runner.state = "started" /\ Leaves
        \/ runner.state = "ended" /\ Reports
        \/ runner.state = "failed" /\ runner.fault /\ CleansUp
        \/ runner.state = "failed" /\ ~runner.fault /\ Leaves
        \/ runner.state = "cleanup_failed" /\ Leaves
    BY <1>3, RecordedMoves DEF RecordFails, RunnerOK, Fails
  <2>1. RunnerOK'
    BY <1>0, <1>3, <2>0 DEF RecordFails, Becomes, Leaves, CleansUp, Reports, cur, RunnerOK
  <2>2. LogOK'
    BY <1>0, <1>3, <2>0 DEF RecordFails, Becomes, Leaves, CleansUp, Reports, cur, RunnerOK, LogOK
  <2>3. EffectsOK'
    BY <1>0, <1>3, <2>0 DEF RecordFails, Becomes, Leaves, CleansUp, Reports, cur, RunnerOK, LogOK, EffectsOK, LeftClean, Past
  <2>4. TruthOK'
    BY <1>0, <1>3, <2>0 DEF RecordFails, Becomes, Leaves, CleansUp, Reports, cur, LogOK, TruthOK, TruthSettled, Past
  <2>5. OtherOK'
    BY <1>0, <1>p, <1>3, <2>0 DEF RecordFails, cur, Fails, RunnerOK, OtherOK
  <2>. QED
    BY <2>1, <2>2, <2>3, <2>4, <2>5
<1>4. CASE Launch
  <2>0. Becomes("launched", "none", FALSE, FALSE, runner.raising)
    BY <1>4, TaskMoves DEF Launch, RunnerOK, Becomes
  <2>1. RunnerOK'
    BY <1>0, <1>4, <2>0 DEF Launch, Becomes, cur, RunnerOK
  <2>2. LogOK'
    BY <1>0, <1>4, <2>0 DEF Launch, cur, LogOK
  <2>3. EffectsOK'
    BY <1>0, <1>p, <1>4, <2>0 DEF Launch, Becomes, cur, LogOK, EffectsOK, LeftClean, Past
  <2>4. TruthOK'
    BY <1>0, <1>p, <1>4, <2>0 DEF Launch, cur, TruthOK, TruthSettled, Past
  <2>5. OtherOK'
    BY <1>0, <1>4, <2>0 DEF Launch, cur, RunnerOK, OtherOK
  <2>. QED
    BY <2>1, <2>2, <2>3, <2>4, <2>5
<1>5. CASE Started
  <2>0. Becomes("wait", "none", TRUE, FALSE, runner.raising)
    BY <1>5 DEF Started, RunnerOK, Becomes, RunnerState, cur
  <2>1. RunnerOK'
    BY <1>0, <1>5, <2>0 DEF Started, Becomes, cur, RunnerOK
  <2>2. LogOK'
    BY <1>0, <1>5, <2>0 DEF Started, cur, LogOK
  <2>3. EffectsOK'
    BY <1>0, <1>5, <2>0 DEF Started, cur, EffectsOK, LeftClean, Past
  <2>4. TruthOK'
    BY <1>0, <1>5, <2>0 DEF Started, cur, TruthOK, TruthSettled, Past
  <2>5. OtherOK'
    BY <1>0, <1>5, <2>0 DEF Started, cur, OtherOK
  <2>. QED
    BY <2>1, <2>2, <2>3, <2>4, <2>5
<1>6. CASE StartFails
  <2>0. Reports
    BY <1>6, TaskMoves DEF StartFails, Fails
  <2>1. RunnerOK'
    BY <1>0, <1>6, <2>0 DEF StartFails, Becomes, Reports, cur, RunnerOK
  <2>2. LogOK'
    BY <1>0, <1>6, <2>0 DEF StartFails, Becomes, Reports, cur, RunnerOK, LogOK
  <2>3. EffectsOK'
    BY <1>0, <1>6, <2>0 DEF StartFails, Becomes, Reports, cur, EffectsOK, LeftClean, Past
  <2>4. TruthOK'
    BY <1>0, <1>6, <2>0 DEF StartFails, Becomes, Reports, cur, TruthOK, TruthSettled, Past
  <2>5. OtherOK'
    BY <1>0, <1>p, <1>6, <2>0 DEF StartFails, cur, Fails, RunnerOK, OtherOK
  <2>. QED
    BY <2>1, <2>2, <2>3, <2>4, <2>5
<1>7. CASE WaitEnds
  <2>0. Becomes("record", "ended", runner.fault, runner.error, runner.raising)
    BY <1>7, TaskMoves DEF WaitEnds, States
  <2>1. RunnerOK'
    BY <1>0, <1>7, <2>0 DEF WaitEnds, Becomes, cur, RunnerOK
  <2>2. LogOK'
    <3>1. /\ UNCHANGED <<log, requests, events>> /\ runner.pc = "wait" /\ runner.state = "none"
          /\ runner'.exp = cur /\ runner'.pc = "record" /\ runner'.state = "ended"
          /\ ~runner.error
      BY <1>7, <2>0 DEF WaitEnds, Becomes, RunnerOK
    <3>2. /\ <<cur, "ended">> \notin log /\ <<cur, "failed">> \notin log /\ <<cur, "cleanup_failed">> \notin log
          /\ <<cur, "started">> \in log /\ (token => <<cur, "started">> \in events)
      BY <3>1 DEF LogOK
    <3>. QED
      BY <1>0, <3>1, <3>2 DEF LogOK, cur
  <2>3. EffectsOK'
    BY <1>0, <1>7, <2>0 DEF WaitEnds, Becomes, cur, EffectsOK, LeftClean, Past
  <2>4. TruthOK'
    BY <1>0, <1>7, <2>0 DEF WaitEnds, Becomes, cur, TruthOK, TruthSettled, Past
  <2>5. OtherOK'
    BY <1>0, <1>7, <2>0 DEF WaitEnds, cur, RunnerOK, OtherOK
  <2>. QED
    BY <2>1, <2>2, <2>3, <2>4, <2>5
<1>8. CASE WaitFails
  <2>0. Reports
    BY <1>8, TaskMoves DEF WaitFails, Fails
  <2>1. RunnerOK'
    BY <1>0, <1>8, <2>0 DEF WaitFails, Becomes, Reports, cur, RunnerOK
  <2>2. LogOK'
    BY <1>0, <1>8, <2>0 DEF WaitFails, Becomes, Reports, cur, RunnerOK, LogOK
  <2>3. EffectsOK'
    BY <1>0, <1>8, <2>0 DEF WaitFails, Becomes, Reports, cur, RunnerOK, EffectsOK, LeftClean, Past
  <2>4. TruthOK'
    BY <1>0, <1>8, <2>0 DEF WaitFails, Becomes, Reports, cur, TruthOK, TruthSettled, Past
  <2>5. OtherOK'
    BY <1>0, <1>p, <1>8, <2>0 DEF WaitFails, cur, Fails, OtherOK
  <2>. QED
    BY <2>1, <2>2, <2>3, <2>4, <2>5
<1>9. CASE Cleanup
  <2>0. Leaves \/ (~runner.raising /\ BeginsNext)
    BY <1>9, AfterMoves DEF Cleanup, Fails
  <2>1. RunnerOK'
    BY <1>0, <1>9, <2>0 DEF Cleanup, Becomes, Leaves, BeginsNext, cur, RunnerOK
  <2>2. LogOK'
    <3>1. UNCHANGED <<log, requests, events>> /\ cur \in Ids
      BY <1>9 DEF Cleanup, RunnerOK
    <3>2. CASE Leaves
      BY <1>0, <3>1, <3>2 DEF Leaves, Becomes, LogOK, cur
    <3>3. CASE BeginsNext
      <4>1. \A st \in States : <<cur + 1, st>> \notin log
        BY <1>p, <3>1, <3>3 DEF BeginsNext, LogOK
      <4>2. \A e \in Ids, st \in States : <<e, st>> \in log => e <= cur + 1
        BY <1>p, <3>1 DEF LogOK
      <4>3. runner'.exp = cur + 1 /\ runner'.pc = "record" /\ runner'.state = "started"
        BY <3>3 DEF BeginsNext
      <4>. QED
        BY <1>0, <3>1, <4>1, <4>2, <4>3 DEF LogOK, cur, States
    <3>. QED
      BY <2>0, <3>2, <3>3
  <2>3. EffectsOK'
    <3>1. effects' = effects \ {cur} /\ UNCHANGED <<log, events, excused>> /\ cur \in Ids
      BY <1>9 DEF Cleanup, RunnerOK
    <3>2. CASE Leaves
      BY <1>0, <1>p, <3>1, <3>2 DEF Leaves, Becomes, EffectsOK, LeftClean, Past, cur
    <3>3. CASE BeginsNext
      <4>1. runner'.exp = cur + 1 /\ runner'.pc = "record" /\ runner'.state = "started"
        BY <3>3 DEF BeginsNext
      <4>2. ASSUME NEW e \in effects' PROVE e \in Ids /\ e # cur + 1 /\ e <= cur + 1 /\ (e < cur \/ e \in excused')
        <5>1. e \in effects /\ e \in Ids /\ e <= cur /\ (e < cur \/ e \in excused' \/ e # cur)
          BY <3>1 DEF EffectsOK
        <5>2. e \in Nat /\ cur \in Nat
          BY <1>p, <3>1, <5>1
        <5>. QED
          BY <3>1, <5>1, <5>2
      <4>3. \A e \in effects' : e \in excused'
        BY <3>1, <4>2 DEF EffectsOK, LeftClean, Past
      <4>4. \A e \in effects' : <<e, "started">> \in log' /\ (token => <<e, "started">> \in events')
        BY <3>1 DEF EffectsOK
      <4>. QED
        BY <1>0, <4>1, <4>2, <4>3, <4>4 DEF EffectsOK, LeftClean, cur
    <3>. QED
      BY <2>0, <3>2, <3>3
  <2>4. TruthOK'
    BY <1>0, <1>p, <1>9, <2>0 DEF Cleanup, Becomes, Leaves, BeginsNext, cur, RunnerOK, TruthOK, TruthSettled, Past, StatusOf
  <2>5. OtherOK'
    BY <1>0, <1>9, <2>0 DEF Cleanup, cur, OtherOK
  <2>. QED
    BY <2>1, <2>2, <2>3, <2>4, <2>5
<1>10. CASE CleanupFails
  <2>0. \/ /\ plan[cur] = "silent" \/ runner.error
           /\ Leaves \/ (~runner.raising /\ BeginsNext)
        \/ ~runner.error /\ Becomes("record", "cleanup_failed", runner.fault, runner.error, TRUE)
    <3>1. CASE plan[cur] = "silent" \/ runner.error
      BY <1>10, <3>1, AfterMoves DEF CleanupFails
    <3>2. CASE plan[cur] # "silent" /\ ~runner.error
      <4>1. runner' = [Record("cleanup_failed") EXCEPT !.raising = TRUE]
        BY <1>10, <3>2 DEF CleanupFails
      <4>2. Becomes("record", "cleanup_failed", runner.fault, runner.error, TRUE)
        BY <4>1 DEF Record, Becomes, RunnerOK, RunnerState, States, cur
      <4>. QED
        BY <3>2, <4>2
    <3>. QED
      BY <3>1, <3>2
  <2>1. RunnerOK'
    BY <1>0, <1>10, <2>0 DEF CleanupFails, Becomes, Leaves, BeginsNext, cur, RunnerOK
  <2>2. LogOK'
    <3>1. UNCHANGED <<log, requests, events>> /\ cur \in Ids /\ runner.pc = "cleanup" /\ runner.state = "none"
      BY <1>10 DEF CleanupFails, RunnerOK
    <3>2. CASE Leaves
      BY <1>0, <3>1, <3>2 DEF Leaves, Becomes, LogOK, cur
    <3>3. CASE BeginsNext
      <4>1. \A st \in States : <<cur + 1, st>> \notin log
        BY <1>p, <3>1, <3>3 DEF BeginsNext, LogOK
      <4>2. \A e \in Ids, st \in States : <<e, st>> \in log => e <= cur + 1
        BY <1>p, <3>1 DEF LogOK
      <4>3. runner'.exp = cur + 1 /\ runner'.pc = "record" /\ runner'.state = "started"
        BY <3>3 DEF BeginsNext
      <4>. QED
        BY <1>0, <3>1, <4>1, <4>2, <4>3 DEF LogOK, cur, States
    <3>4. CASE ~runner.error /\ Becomes("record", "cleanup_failed", runner.fault, runner.error, TRUE)
      <4>1. <<cur, "failed">> \notin log /\ <<cur, "cleanup_failed">> \notin log
        BY <3>1, <3>4 DEF LogOK
      <4>2. runner'.exp = cur /\ runner'.pc = "record" /\ runner'.state = "cleanup_failed"
        BY <3>4 DEF Becomes
      <4>. QED
        BY <1>0, <3>1, <4>1, <4>2 DEF LogOK, cur
    <3>. QED
      BY <2>0, <3>2, <3>3, <3>4
  <2>3. EffectsOK'
    <3>1. excused' = excused \cup {cur} /\ UNCHANGED <<log, events, effects>> /\ cur \in Ids
      BY <1>10 DEF CleanupFails, RunnerOK
    <3>2. CASE Leaves
      BY <1>0, <1>p, <3>1, <3>2 DEF Leaves, Becomes, EffectsOK, LeftClean, Past, cur
    <3>3. CASE BeginsNext
      <4>1. runner'.exp = cur + 1 /\ runner'.pc = "record" /\ runner'.state = "started"
        BY <3>3 DEF BeginsNext
      <4>2. ASSUME NEW e \in effects' PROVE e \in Ids /\ e # cur + 1 /\ e <= cur + 1 /\ (e < cur \/ e \in excused')
        <5>1. e \in effects /\ e \in Ids /\ e <= cur /\ (e < cur \/ e \in excused' \/ e # cur)
          BY <3>1 DEF EffectsOK
        <5>2. e \in Nat /\ cur \in Nat
          BY <1>p, <3>1, <5>1
        <5>. QED
          BY <3>1, <5>1, <5>2
      <4>3. \A e \in effects' : e \in excused'
        BY <3>1, <4>2 DEF EffectsOK, LeftClean, Past
      <4>4. \A e \in effects' : <<e, "started">> \in log' /\ (token => <<e, "started">> \in events')
        BY <3>1 DEF EffectsOK
      <4>. QED
        BY <1>0, <4>1, <4>2, <4>3, <4>4 DEF EffectsOK, LeftClean, cur
    <3>4. CASE Becomes("record", "cleanup_failed", runner.fault, runner.error, TRUE)
      BY <1>0, <1>p, <3>1, <3>4 DEF Becomes, EffectsOK, LeftClean, Past, cur
    <3>. QED
      BY <2>0, <3>2, <3>3, <3>4
  <2>4. TruthOK'
    BY <1>0, <1>p, <1>10, <2>0 DEF CleanupFails, Becomes, Leaves, BeginsNext, cur, RunnerOK, TruthOK, TruthSettled, Past
  <2>5. OtherOK'
    BY <1>0, <1>p, <1>10, <2>0 DEF CleanupFails, cur, Fails, RunnerOK, OtherOK
  <2>. QED
    BY <2>1, <2>2, <2>3, <2>4, <2>5
<1>11. CASE Cancel
  <2>0. \/ /\ runner.pc = "cleanup" \/ runner.state = "cleanup_failed" \/ ~runner.fault
           /\ Becomes("exit", "none", runner.fault, runner.error, TRUE)
        \/ /\ runner.pc # "cleanup" /\ runner.state # "cleanup_failed" /\ runner.fault
           /\ Becomes("cleanup", "none", runner.fault, runner.error, TRUE)
    <3>1. runner \in RunnerState
      BY DEF RunnerOK
    <3>2. CASE runner.pc = "cleanup" \/ runner.state = "cleanup_failed" \/ ~runner.fault
      <4>1. runner' = [runner EXCEPT !.pc = "exit", !.state = "none", !.raising = TRUE, !.cancelled = TRUE]
        BY <1>11, <3>1, <3>2 DEF Cancel, Exit, Finally, RunnerState
      <4>. QED
        BY <3>1, <3>2, <4>1 DEF Becomes, RunnerState, cur
    <3>3. CASE runner.pc # "cleanup" /\ runner.state # "cleanup_failed" /\ runner.fault
      <4>1. runner' = [runner EXCEPT !.pc = "cleanup", !.state = "none", !.raising = TRUE, !.cancelled = TRUE]
        BY <1>11, <3>1, <3>3 DEF Cancel, Finally, RunnerState
      <4>. QED
        BY <3>1, <3>3, <4>1 DEF Becomes, RunnerState, cur
    <3>. QED
      BY <3>2, <3>3
  <2>1. RunnerOK'
    BY <1>0, <1>11, <2>0 DEF Cancel, Becomes, cur, RunnerOK
  <2>2. LogOK'
    <3>1. /\ log' = log /\ events' = events /\ requests' \subseteq requests /\ runner'.exp = cur
          /\ runner'.pc \in {"exit", "cleanup"} /\ runner'.state = "none" /\ (runner'.error <=> runner.error)
      BY <1>11, <2>0 DEF Cancel, Becomes
    <3>2. /\ runner'.pc = "cleanup" => runner.pc # "exit" /\ runner.fault /\ runner.state # "cleanup_failed"
          /\ runner.fault => runner.state # "started"
      BY <1>11, <2>0 DEF Cancel, Becomes, RunnerOK
    <3>3. /\ <<cur, "cleanup_failed">> \in log => runner'.pc = "exit"
          /\ runner'.pc # "exit" => <<cur, "started">> \in log /\ (token => <<cur, "started">> \in events)
      BY <3>1, <3>2 DEF LogOK
    <3>4. requests' \cup events' \subseteq log /\ requests' \cap events' = {}
      BY <3>1 DEF LogOK
    <3>. QED
      BY <1>0, <3>1, <3>3, <3>4 DEF LogOK, cur
  <2>3. EffectsOK'
    <3>1. /\ UNCHANGED <<log, events, effects>> /\ excused \subseteq excused' /\ runner'.exp = cur
          /\ runner'.pc \in {"exit", "cleanup"} /\ runner'.state = "none" /\ cur \in Ids
      BY <1>11, <2>0 DEF Cancel, Becomes, RunnerOK
    <3>2. runner'.pc = "exit" /\ cur \in effects => cur \in excused'
      <4>1. runner.pc \in {"launched", "cleanup"} /\ cur \in effects => cur \in excused'
        BY <1>11 DEF Cancel
      <4>2. runner'.pc = "exit" =>
               runner.pc \in {"launched", "cleanup", "start"} \/ runner.state = "cleanup_failed"
               \/ (runner.state \in {"started", "failed"} /\ ~runner.fault)
        <5>1. /\ runner.pc \in {"record", "post", "start", "launched", "wait", "cleanup"}
              /\ runner.state \in States \cup {"none"}
          BY <1>11 DEF Cancel, RunnerOK, RunnerState
        <5>2. runner'.pc = "exit" => runner.pc = "cleanup" \/ runner.state = "cleanup_failed" \/ ~runner.fault
          BY <2>0 DEF Becomes
        <5>. QED
          BY <5>1, <5>2 DEF RunnerOK, States
      <4>3. runner.state = "cleanup_failed" => cur \in excused'
        BY <3>1 DEF RunnerOK
      <4>. QED
        BY <3>1, <4>1, <4>2, <4>3 DEF EffectsOK
    <3>3. LeftClean'
      BY <3>1, <3>2 DEF EffectsOK, LeftClean, Past, cur
    <3>. QED
      BY <1>0, <3>1, <3>3 DEF EffectsOK, cur
  <2>4. TruthOK'
    BY <1>0, <1>11, <2>0 DEF Cancel, Becomes, cur, TruthOK, TruthSettled, Past
  <2>5. OtherOK'
    BY <1>0, <1>p, <1>11, <2>0 DEF Cancel, cur, Fails, RunnerOK, OtherOK
  <2>. QED
    BY <2>1, <2>2, <2>3, <2>4, <2>5
<1>12. CASE Kill
  <2>0. Leaves
    BY <1>12, TaskMoves DEF Kill, Fails
  <2>1. RunnerOK'
    BY <1>0, <1>12, <2>0 DEF Kill, Becomes, Leaves, cur, RunnerOK
  <2>2. LogOK'
    BY <1>0, <1>12, <2>0 DEF Kill, Becomes, Leaves, cur, LogOK
  <2>3. EffectsOK'
    BY <1>0, <1>12, <2>0 DEF Kill, Becomes, Leaves, cur, EffectsOK, LeftClean, Past
  <2>4. TruthOK'
    BY <1>0, <1>12, <2>0 DEF Kill, Becomes, Leaves, cur, TruthOK, TruthSettled, Past
  <2>5. OtherOK'
    BY <1>0, <1>p, <1>12, <2>0 DEF Kill, cur, Fails, RunnerOK, OtherOK
  <2>. QED
    BY <2>1, <2>2, <2>3, <2>4, <2>5
<1>13. CASE Expire
  <2>1. /\ runner' = runner /\ effects' \subseteq effects
        /\ UNCHANGED <<log, requests, status, events, ran, excused, unsure, failures, others>>
    BY <1>13 DEF Expire
  <2>2. RunnerOK' /\ LogOK'
    BY <1>0, <2>1 DEF RunnerOK, LogOK, cur
  <2>3. EffectsOK'
    BY <1>0, <2>1 DEF EffectsOK, LeftClean, Past, cur
  <2>4. TruthOK'
    BY <1>0, <2>1 DEF TruthOK, TruthSettled, Past, cur
  <2>5. OtherOK'
    BY <1>0, <2>1 DEF OtherOK
  <2>. QED
    BY <2>2, <2>3, <2>4, <2>5
<1>14. CASE WriteGroundTruth
  <2>1. PICK p \in requests : requests' = requests \ {p} /\ events' = events \cup {p}
                              /\ status' = [status EXCEPT ![p[1]] = StatusOf(p[2])]
    BY <1>14 DEF WriteGroundTruth
  <2>2. PICK e \in Ids, st \in States : p = <<e, st>>
    BY <2>1 DEF LogOK
  <2>3. /\ runner' = runner /\ UNCHANGED <<log, effects, ran, excused, unsure, failures, others>>
        /\ requests' = requests \ {<<e, st>>} /\ events' = events \cup {<<e, st>>}
        /\ status' = [status EXCEPT ![e] = StatusOf(st)]
    BY <1>14, <2>1, <2>2 DEF WriteGroundTruth
  <2>4. <<e, st>> \in requests /\ <<e, st>> \in log
    BY <2>1, <2>2 DEF LogOK
  <2>5. RunnerOK' /\ LogOK'
    BY <1>0, <2>3, <2>4 DEF RunnerOK, LogOK, cur
  <2>6. EffectsOK'
    BY <1>0, <2>3 DEF EffectsOK, LeftClean, Past, cur
  <2>7. StatusOf(st) \in {"running", "completed", "failed"} /\ (StatusOf(st) = "completed" => st = "ended")
    BY DEF StatusOf, States
  <2>8. OtherOK'
    BY <1>0, <2>3, <2>7 DEF OtherOK
  <2>9. e \in unsure \/ (e = cur /\ runner.pc = "post" /\ st = runner.state)
    BY <2>4 DEF TruthOK
  <2>10. \A x \in Ids : x # e => status'[x] = status[x]
    BY <2>3 DEF OtherOK
  <2>11. status'[e] = StatusOf(st)
    BY <2>3 DEF OtherOK
  <2>12. TruthOK'
    <3>1. \A x \in Ids : status'[x] = "completed" => x \in ran
      BY <2>4, <2>7, <2>10, <2>11 DEF TruthOK
    <3>2. TruthSettled'
      <4>1. \A x \in Ids \ unsure : Past(x) => x # e
        BY <1>p, <2>9 DEF Past, RunnerOK
      <4>2. \A x \in Ids \ unsure : Past(x) => status'[x] = status[x]
        BY <2>10, <4>1
      <4>. QED
        BY <1>0, <2>3, <4>2 DEF TruthOK, TruthSettled, Past, cur
    <3>3. \A x \in Ids \ unsure, s \in States : <<x, s>> \in requests' => x = cur /\ runner.pc = "post" /\ s = runner.state
      BY <2>3 DEF TruthOK
    <3>4. ASSUME token, cur \notin unsure, runner.pc = "post", <<cur, runner.state>> \in events'
          PROVE  status'[cur] = StatusOf(runner.state)
      BY <2>3, <2>9, <2>10, <2>11, <3>4 DEF TruthOK, RunnerOK
    <3>5. ASSUME token, cur \notin unsure, runner.pc = "cleanup"
          PROVE  status'[cur] = IF runner.error THEN "failed" ELSE "completed"
      BY <2>9, <2>10, <3>5 DEF TruthOK, RunnerOK
    <3>. QED
      BY <1>0, <2>3, <3>1, <3>2, <3>3, <3>4, <3>5 DEF TruthOK, cur
  <2>. QED
    BY <2>5, <2>6, <2>8, <2>12
<1>15. CASE Crash
  <2>0. /\ UNCHANGED <<log, status, events, effects, ran, excused, others>> /\ requests' = {}
        /\ failures < MaxFailures /\ failures' = failures + 1
        /\ \/ runner.pc # "post" /\ runner' = runner /\ unsure' = unsure
           \/ /\ runner.pc = "post" /\ unsure' = unsure \cup {cur}
              /\ \/ runner.state = "started" /\ Leaves
                 \/ runner.state = "ended" /\ Reports
                 \/ runner.state = "failed" /\ runner.fault /\ CleansUp
                 \/ runner.state = "failed" /\ ~runner.fault /\ Leaves
                 \/ runner.state = "cleanup_failed" /\ Leaves
    BY <1>15, RecordedMoves DEF Crash, Fails
  <2>1. RunnerOK'
    BY <1>0, <2>0 DEF Becomes, Leaves, CleansUp, Reports, cur, RunnerOK
  <2>2. LogOK'
    BY <1>0, <2>0 DEF Becomes, Leaves, CleansUp, Reports, cur, RunnerOK, LogOK
  <2>3. EffectsOK'
    BY <1>0, <2>0 DEF Becomes, Leaves, CleansUp, Reports, cur, RunnerOK, EffectsOK, LeftClean, Past
  <2>4. TruthOK'
    BY <1>0, <2>0 DEF Becomes, Leaves, CleansUp, Reports, cur, TruthOK, TruthSettled, Past
  <2>5. OtherOK'
    BY <1>0, <1>p, <2>0 DEF cur, RunnerOK, OtherOK
  <2>. QED
    BY <2>1, <2>2, <2>3, <2>4, <2>5
<1>16. ASSUME UNCHANGED runnerVars, failures' \in 0..MaxFailures, others' \in 0..MaxOthers PROVE ExpInv'
  <2>1. runner' = runner /\ UNCHANGED <<log, requests, status, events, effects, ran, excused, unsure>>
    BY <1>16 DEF runnerVars
  <2>2. RunnerOK' /\ LogOK'
    BY <1>0, <2>1 DEF RunnerOK, LogOK, cur
  <2>3. EffectsOK'
    BY <1>0, <2>1 DEF EffectsOK, LeftClean, Past, cur
  <2>4. TruthOK'
    BY <1>0, <2>1 DEF TruthOK, TruthSettled, Past, cur
  <2>5. OtherOK'
    BY <1>0, <1>16, <2>1 DEF OtherOK
  <2>. QED
    BY <2>2, <2>3, <2>4, <2>5
<1>17. CASE OtherCommit \/ ViewerLeaves
  BY <1>p, <1>16, <1>17 DEF OtherCommit, ViewerLeaves, Fails, OtherOK
<1>18. CASE (\E k \in WatermarkKinds : Publishes(k)) \/ (\E v \in Viewers : ViewerStep(v)) \/ UNCHANGED vars
  BY <1>16, <1>18 DEF Publishes, ViewerStep, OtherOK, vars, runnerVars
<1>. QED
  BY <1>1, <1>2, <1>3, <1>4, <1>5, <1>6, <1>7, <1>8, <1>9, <1>10, <1>11, <1>12, <1>13, <1>14, <1>15, <1>17, <1>18
     DEF Next, RunnerStep

-----------------------------------------------------------------------------
(* The theorems.                                                           *)

LEMMA ExpInit ==
    ASSUME Init
    PROVE  ExpInv
<1>1. LiveTypeOK
  BY DEF Init, LiveInit, LiveTypeOK, Zero, Unseen, Closed, WatermarkKinds
<1>2. OtherOK
  BY <1>1, ExperimentAssumption DEF Init, OtherOK, Ids
<1>3. 1 \in Ids /\ Ids \subseteq Nat \ {0}
  BY <1>2, PlanFacts
<1>4. /\ runner \in RunnerState /\ cur = 1 /\ runner.pc = "record" /\ runner.state = "started"
      /\ ~runner.fault /\ ~runner.error /\ ~runner.raising
  BY DEF Init, Begin, RunnerState, States, cur
<1>5. RunnerOK
  BY <1>3, <1>4 DEF RunnerOK
<1>6. log = {} /\ requests = {} /\ events = {} /\ effects = {}
  BY DEF Init
<1>7. LogOK /\ EffectsOK
  BY <1>3, <1>4, <1>6 DEF LogOK, EffectsOK, LeftClean
<1>8. \A e \in Ids : status[e] = "none" /\ ~(e < 1)
  BY <1>3 DEF Init, Ids
<1>9. TruthOK
  BY <1>4, <1>6, <1>8 DEF TruthOK, TruthSettled, Past
<1>. QED
  BY <1>2, <1>5, <1>7, <1>9 DEF ExpInv

LEMMA ExpInvariant == Spec => []ExpInv
<1>1. Init => ExpInv
  BY ExpInit
<1>2. ExpInv /\ [Next]_vars => ExpInv'
  <2>. SUFFICES ASSUME ExpInv, [Next]_vars PROVE ExpInv'
    OBVIOUS
  <2>1. \/ \E k \in WatermarkKinds : Commit(k) \/ Publish(k)
        \/ \E v \in Viewers : Connect(v) \/ Disconnect(v) \/ StreamStep(v)
        \/ ServerCrash
        \/ UNCHANGED liveVars
    BY DEF Next, RunnerStep, Post, RecordReturns, Launch, Started, WaitEnds, Cleanup, RecordFails, StartFails,
           WaitFails, CleanupFails, Cancel, Kill, Expire, WriteGroundTruth, OtherCommit, Crash, ViewerLeaves,
           Publishes, ViewerStep, vars, WatermarkKinds
  <2>2. LiveTypeOK'
    BY <2>1, LiveStep DEF ExpInv, OtherOK
  <2>. QED
    BY <2>2, ExpStep
<1>. QED
  BY <1>1, <1>2, PTL DEF Spec

\* The runner, the server's experiments and timeline and the live streams are
\* well typed, and run_experiment reaches its cleanup only with a fault.
THEOREM TypeCorrect == Spec => []TypeOK
<1>1. ExpInv => TypeOK
  <2>. SUFFICES ASSUME ExpInv PROVE TypeOK
    OBVIOUS
  <2>1. /\ runner.state \in States \cup {"none"}
        /\ runner.pc \in {"record", "post", "start", "launched", "wait", "cleanup", "exit"}
        /\ {runner.fault, runner.error, runner.raising, runner.cancelled} \subseteq BOOLEAN
    BY DEF ExpInv, RunnerOK, RunnerState
  <2>2. UNION {log, requests, events} \subseteq Ids \X States
    BY DEF ExpInv, LogOK
  <2>. QED
    BY <2>1, <2>2 DEF ExpInv, OtherOK, RunnerOK, TypeOK
<1>. QED
  BY <1>1, ExpInvariant, PTL

\* No fault is injected before record() has its start in the log and in the
\* timeline, and write_ground_truth calls nothing completed that did not run.
THEOREM TruthIsHonest == Spec => []TruthHonest
<1>1. ExpInv => TruthHonest
  BY DEF ExpInv, EffectsOK, TruthOK, TruthHonest
<1>. QED
  BY <1>1, ExpInvariant, PTL

\* The finally clause of run_experiment leaves no effect behind that no
\* failure, kill or cancellation excuses.
THEOREM EffectsLeftClean == Spec => []LeftClean
<1>1. ExpInv => LeftClean
  BY DEF ExpInv, EffectsOK
<1>. QED
  BY <1>1, ExpInvariant, PTL

\* The status the server keeps of an experiment the runner has left, all of
\* whose records arrived, is final and says whether the effect may be there.
THEOREM TruthIsSettled == Spec => []TruthSettled
<1>1. ExpInv => TruthSettled
  BY DEF ExpInv, TruthOK
<1>. QED
  BY <1>1, ExpInvariant, PTL
=============================================================================
