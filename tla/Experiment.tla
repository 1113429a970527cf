----------------------------- MODULE Experiment -----------------------------
(***************************************************************************)
(* The experiment runner (deployment/experiment-runner/runner.py), which   *)
(* injects the faults of a plan one after the other and records ground     *)
(* truth with the server (write_ground_truth in api.py), composed with the *)
(* server's live watermarks.                                               *)
(*                                                                         *)
(* A fault is its kind and whether its effect is there.  "process" is a    *)
(* stress-ng or psql process, "disk" an fio process and its file, "unit" a *)
(* stopped systemd unit, "silent" a netem qdisc or a Redis backlog, whose  *)
(* cleanup ignores the exit status of its commands.                        *)
(***************************************************************************)
EXTENDS Live, FiniteSets, Sequences

CONSTANTS Plans,       \* sequences of kinds: the experiments of a document
          MaxFailures, \* bound: failed requests, commands and server crashes
          MaxOthers    \* bound: commits of other handlers

ASSUME ExperimentAssumption ==
    /\ Plans \subseteq Seq({"process", "disk", "unit", "silent"}) /\ <<>> \notin Plans
    /\ MaxFailures \in Nat /\ MaxOthers \in Nat

VARIABLES plan,     \* the document's experiments
          token,    \* the runner has a ground-truth token
          runner,   \* the runner's task
          log,      \* the runner's JSON lines: <<experiment, state>>
          requests, \* POSTs the server has not handled
          status,   \* experiments.status, "none" without a row
          events,   \* timeline_events: <<experiment, state>>
          effects,  \* experiments whose effect is there
          ran,      \* history: experiments whose fault ran its time
          excused,  \* history: effects no cleanup was reached or succeeded for
          unsure,   \* history: experiments with a failed record or a stop
          failures, others

serverVars == <<requests, status, events>>
historyVars == <<ran, excused, unsure>>
vars == <<liveVars, plan, token, runner, log, serverVars, effects, historyVars, failures, others>>

-----------------------------------------------------------------------------
\* Mutant: the start is not recorded.
BeginUnrecorded(e) == [exp |-> e, pc |-> "start", state |-> "none", fault |-> FALSE, error |-> FALSE,
                       raising |-> FALSE, cancelled |-> FALSE]

\* exp: the experiment; pc: the await the task is at; state: what it records;
\* fault: fault is assigned; error: main_error is set; raising: an exception
\* (or a cancellation) is propagating; cancelled: SIGINT came.
Begin(e) == [exp |-> e, pc |-> "record", state |-> "started", fault |-> FALSE, error |-> FALSE, raising |-> FALSE,
             cancelled |-> FALSE]
Exit == [runner EXCEPT !.pc = "exit", !.state = "none"]
Record(state) == [runner EXCEPT !.pc = "record", !.state = state]
cur == runner.exp

Init ==
    /\ LiveInit
    /\ plan \in Plans /\ token \in BOOLEAN
    /\ runner = Begin(1)
    /\ log = {} /\ requests = {} /\ events = {}
    /\ status = [e \in 1..Len(plan) |-> "none"]
    /\ effects = {} /\ ran = {} /\ excused = {} /\ unsure = {}
    /\ failures = 0 /\ others = 0

Fails == failures < MaxFailures /\ failures' = failures + 1

-----------------------------------------------------------------------------
(* GroundTruth.record and write_ground_truth.                              *)

\* Mutant: the cleanup runs whether or not there is a fault.
FinallyAlways(r) == [r EXCEPT !.pc = "cleanup", !.state = "none"]

\* After the try: clean up when there is a fault, else leave.
Finally(r) ==
    IF r.fault THEN [r EXCEPT !.pc = "cleanup", !.state = "none"]
    ELSE [r EXCEPT !.pc = "exit", !.state = "none"]

\* Mutant: an end that cannot be recorded leaves without the cleanup.
RaisedGivesUp(r) == [r EXCEPT !.pc = "exit", !.state = "none", !.raising = TRUE]

\* An Exception is raised inside the try of run_experiment.
Raised(r) == [r EXCEPT !.pc = "record", !.state = "failed", !.error = TRUE, !.raising = TRUE]

\* Where the task goes when record() has returned or raised.
Recorded(ok) ==
    CASE runner.state = "started" -> IF ok THEN [runner EXCEPT !.pc = "start", !.state = "none"] ELSE Exit
      [] runner.state = "ended"   -> IF ok THEN Finally(runner) ELSE Raised(runner)
      [] runner.state = "failed"  -> Finally(runner)
      [] runner.state = "cleanup_failed" -> Exit

\* The line is written and the POST sent; without a token that is all.
Post ==
    /\ runner.pc = "record"
    /\ log' = log \cup {<<cur, runner.state>>}
    /\ IF token
       THEN requests' = requests \cup {<<cur, runner.state>>} /\ runner' = [runner EXCEPT !.pc = "post"]
       ELSE runner' = Recorded(TRUE) /\ UNCHANGED requests
    /\ UNCHANGED <<liveVars, plan, token, status, events, effects, historyVars, failures, others>>

StatusOf(state) ==
    CASE state = "started" -> "running"
      [] state = "ended" -> "completed"
      [] OTHER -> "failed"

\* The server handles a request, whether or not the runner still waits.
WriteGroundTruth ==
    /\ \E p \in requests :
          /\ requests' = requests \ {p}
          /\ status' = [status EXCEPT ![p[1]] = StatusOf(p[2])]
          /\ events' = events \cup {p}
    /\ Commit("commit")
    /\ UNCHANGED <<plan, token, runner, log, effects, historyVars, failures, others>>

\* The answer of the POST arrives; the handler published before.
RecordReturns ==
    /\ runner.pc = "post" /\ <<cur, runner.state>> \in events /\ publishing["commit"] = 0
    /\ runner' = Recorded(TRUE)
    /\ UNCHANGED <<liveVars, plan, token, log, serverVars, effects, historyVars, failures, others>>

\* The host is not in the topology, the server refuses, is away, or does not
\* answer in time: then the request may still be handled later.
RecordFails ==
    /\ runner.pc = "post" /\ Fails
    /\ requests' \in {requests, requests \ {<<cur, runner.state>>}}
    /\ unsure' = unsure \cup {cur}
    /\ runner' = Recorded(FALSE)
    /\ UNCHANGED <<liveVars, plan, token, log, status, events, effects, ran, excused, others>>

-----------------------------------------------------------------------------
(* start_fault and the wait.                                               *)

\* The first command of start_fault runs.
Launch ==
    /\ runner.pc = "start"
    /\ effects' = effects \cup {cur}
    /\ runner' = [runner EXCEPT !.pc = "launched"]
    /\ UNCHANGED <<liveVars, plan, token, log, serverVars, historyVars, failures, others>>

\* start_fault returns.
Started ==
    /\ runner.pc = "launched"
    /\ runner' = [runner EXCEPT !.pc = "wait", !.fault = TRUE]
    /\ UNCHANGED <<liveVars, plan, token, log, serverVars, effects, historyVars, failures, others>>

\* A parameter is refused, or a command fails: start_fault raises and there
\* is no fault to clean up.  What the command did may stay (the backlog is
\* removed with commands whose failure is ignored).
StartFails ==
    /\ runner.pc \in {"start", "launched"} /\ Fails
    /\ \/ effects' = effects \ {cur} /\ UNCHANGED excused
       \/ runner.pc = "launched" /\ UNCHANGED effects /\ excused' = excused \cup {cur}
    /\ runner' = Raised(runner)
    /\ UNCHANGED <<liveVars, plan, token, log, serverVars, ran, unsure, others>>

\* The duration is over: the process has ended with status 0, the sleep is
\* done.  The effect of a process ends with it.
WaitEnds ==
    /\ runner.pc = "wait"
    /\ effects' = IF plan[cur] = "process" THEN effects \ {cur} ELSE effects
    /\ ran' = ran \cup {cur}
    /\ runner' = Record("ended")
    /\ UNCHANGED <<liveVars, plan, token, log, serverVars, excused, unsure, failures, others>>

\* The process ends with another status, or does not end in time.
WaitFails ==
    /\ runner.pc = "wait" /\ plan[cur] \in {"process", "disk"} /\ Fails
    /\ effects' \in IF plan[cur] = "process" THEN {effects, effects \ {cur}} ELSE {effects}
    /\ runner' = Raised(runner)
    /\ UNCHANGED <<liveVars, plan, token, log, serverVars, historyVars, others>>

-----------------------------------------------------------------------------
(* The finally clause, and the end.                                        *)

\* The next experiment, unless an exception propagates or this was the last.
After == IF runner.raising \/ cur = Len(plan) THEN Exit ELSE Begin(cur + 1)

Cleanup ==
    /\ runner.pc = "cleanup"
    /\ effects' = effects \ {cur}
    /\ runner' = After
    /\ UNCHANGED <<liveVars, plan, token, log, serverVars, historyVars, failures, others>>

\* Mutant: no failure of a cleanup is recorded.
CleanupFailsQuietly ==
    /\ runner.pc = "cleanup" /\ plan[cur] \in {"unit", "silent"} /\ Fails
    /\ excused' = excused \cup {cur}
    /\ runner' = After
    /\ UNCHANGED <<liveVars, plan, token, log, serverVars, effects, ran, unsure, others>>

\* systemctl start fails and that is recorded, unless an error already was;
\* tc and redis-cli fail and nobody looks.  A process is killed at last.
CleanupFails ==
    /\ runner.pc = "cleanup" /\ plan[cur] \in {"unit", "silent"} /\ Fails
    /\ excused' = excused \cup {cur}
    /\ runner' = IF plan[cur] = "silent" \/ runner.error THEN After
                 ELSE [Record("cleanup_failed") EXCEPT !.raising = TRUE]
    /\ UNCHANGED <<liveVars, plan, token, log, serverVars, effects, ran, unsure, others>>

\* SIGINT cancels the task: no except clause sees it, the finally clause
\* runs.  It abandons a start_fault (nothing is assigned) and a cleanup.
Cancel ==
    /\ runner.pc # "exit" /\ ~runner.cancelled /\ Fails
    /\ unsure' = unsure \cup {cur}
    /\ excused' = excused \cup (IF runner.pc \in {"launched", "cleanup"} THEN {cur} \cap effects ELSE {})
    /\ requests' \in {requests, requests \ {<<cur, runner.state>>}}
    /\ runner' = [(IF runner.pc = "cleanup" \/ runner.state = "cleanup_failed" THEN Exit ELSE Finally(runner))
                     EXCEPT !.raising = TRUE, !.cancelled = TRUE]
    /\ UNCHANGED <<liveVars, plan, token, log, status, events, effects, ran, others>>

\* The runner is killed.
Kill ==
    /\ runner.pc # "exit" /\ Fails
    /\ unsure' = unsure \cup {cur}
    /\ excused' = excused \cup ({cur} \cap effects)
    /\ runner' = Exit
    /\ UNCHANGED <<liveVars, plan, token, log, serverVars, effects, ran, others>>

\* stress-ng and psql were started with a time limit and end by themselves
\* when nobody waits for them any more.
Expire ==
    /\ \E e \in effects : /\ plan[e] = "process" /\ (e # cur \/ runner.pc = "exit")
                          /\ effects' = effects \ {e}
    /\ UNCHANGED <<liveVars, plan, token, runner, log, serverVars, historyVars, failures, others>>

-----------------------------------------------------------------------------
runnerVars == <<plan, token, runner, log, serverVars, effects, historyVars>>

\* Another handler commits and will publish.
OtherCommit ==
    /\ others < MaxOthers /\ others' = others + 1
    /\ Commit("inventory")
    /\ UNCHANGED <<runnerVars, failures>>

\* The server dies: the requests it has not committed are gone, and a POST
\* that has no answer yet fails, committed or not.
Crash ==
    /\ Fails /\ ServerCrash
    /\ requests' = {}
    /\ IF runner.pc = "post"
       THEN runner' = Recorded(FALSE) /\ unsure' = unsure \cup {cur}
       ELSE UNCHANGED <<runner, unsure>>
    /\ UNCHANGED <<plan, token, log, status, events, effects, ran, excused, others>>

Publishes(k) == Publish(k) /\ UNCHANGED <<runnerVars, failures, others>>
ViewerStep(v) == (Connect(v) \/ StreamStep(v)) /\ UNCHANGED <<runnerVars, failures, others>>

ViewerLeaves ==
    /\ Fails /\ \E v \in Viewers : Disconnect(v)
    /\ UNCHANGED <<runnerVars, others>>

RunnerStep == Post \/ RecordReturns \/ Launch \/ Started \/ WaitEnds \/ Cleanup

Next ==
    \/ RunnerStep \/ RecordFails \/ StartFails \/ WaitFails \/ CleanupFails \/ Cancel \/ Kill \/ Expire
    \/ WriteGroundTruth
    \/ OtherCommit \/ Crash \/ ViewerLeaves
    \/ \E k \in WatermarkKinds : Publishes(k)
    \/ \E v \in Viewers : ViewerStep(v)

Spec == Init /\ [][Next]_vars

\* The event loop of the server runs its handlers and generators; the wait
\* ends after 15 seconds, and a viewer that lost its stream asks again.
Fairness == /\ \A k \in WatermarkKinds : WF_vars(Publishes(k))
            /\ \A v \in Viewers : WF_vars(ViewerStep(v))
FairSpec == Spec /\ Fairness

-----------------------------------------------------------------------------
Ids == 1..Len(plan)
States == {"started", "ended", "failed", "cleanup_failed"}
\* The runner has left the experiment.
Past(e) == e < cur \/ (e = cur /\ runner.pc = "exit")

\* The shape of every variable; the cleanup is only reached with a fault to
\* clean up, and without an error only by a fault that ran its time.
TypeOK ==
    /\ LiveTypeOK
    /\ plan \in Plans /\ token \in BOOLEAN
    /\ cur \in Ids /\ runner.state \in States \cup {"none"}
    /\ runner.pc \in {"record", "post", "start", "launched", "wait", "cleanup", "exit"}
    /\ runner.pc \in {"record", "post"} <=> runner.state # "none"
    /\ {runner.fault, runner.error, runner.raising, runner.cancelled} \subseteq BOOLEAN
    /\ runner.pc = "cleanup" => runner.fault /\ (runner.raising \/ cur \in ran)
    /\ UNION {log, requests, events} \subseteq Ids \X States
    /\ status \in [Ids -> {"none", "running", "completed", "failed"}]
    /\ UNION {effects, ran, excused, unsure} \subseteq Ids
    /\ failures \in 0..MaxFailures /\ others \in 0..MaxOthers

\* No fault is injected before its start is in the runner's log and, with a
\* token, in the server's timeline; and the server calls no experiment
\* completed whose fault did not run its time, whatever requests were late.
TruthHonest ==
    /\ \A e \in effects : <<e, "started">> \in log /\ (token => <<e, "started">> \in events)
    /\ \A e \in Ids : status[e] = "completed" => e \in ran

\* "always executes cleanup for reversible faults": when the runner has left
\* an experiment its effect is gone, whatever failed on the way, unless the
\* cleanup's own command failed, start_fault raised, or the runner was killed
\* or was cancelled during start_fault or the cleanup.
LeftClean == \A e \in effects : Past(e) => e \in excused

\* "A fault is not considered complete until its side effects are removed":
\* when the runner has left an experiment all of whose records arrived, the
\* server has it as completed or failed, and as completed only if the effect
\* is gone or its cleanup cannot tell.
TruthSettled ==
    token => \A e \in Ids \ unsure : Past(e) =>
       /\ status[e] \in {"completed", "failed"}
       /\ status[e] = "completed" => e \notin effects \/ plan[e] = "silent"

\* A viewer is told, again and again, of everything committed so far: of a
\* publish its stream missed, after the wait; of one the server died before,
\* by the first message of the next stream.
ViewersCatchUp == \A v \in Viewers : []<>(shown[v] = stored)
=============================================================================
