-------------------------------- MODULE Agent --------------------------------
(***************************************************************************)
(* The running agent (runtime.py): tasks that repeat an operation under    *)
(* _guarded_loop, the health they leave in collector_health, the heartbeat *)
(* that carries it to the server (heartbeat and collector_health in        *)
(* api.py), and the samples of one PID that the host may reuse             *)
(* (discover, collect_processes and ProcCollector.collect_process).        *)
(*                                                                         *)
(* Discovery and process sampling stand for all collectors; the entries of *)
(* the heartbeat itself, of the sender and of single PIDs in               *)
(* collector_health are left out.  An incarnation of the PID is its start  *)
(* time.  Times of heartbeats are kept as an order: beats is sorted by     *)
(* observed_at, and a beat is old once a later one is stored.  What        *)
(* Inventory and Delivery model of discover(), emit() and sender() is left *)
(* out here, except that they can fail.                                    *)
(***************************************************************************)
EXTENDS Registration, Sequences

CONSTANTS LastIncarnation \* bound: the PID is reused until this one runs

ASSUME AgentAssumption == LastIncarnation \in Nat \ {0}

VARIABLES process,   \* host: the incarnation of the PID and if it runs
          task,      \* the guarded loops
          health,    \* collectors that are not "ok" in Agent.collector_health
          processes, \* Agent.processes: incarnations discovery found last
          known,     \* resource_ids["processes"]
          previous,  \* ProcCollector.previous_process
          sample,    \* what collect_process returned, until it is spooled
          beats,     \* heartbeats the server has not handled
          shown      \* server: collectors not healthy in the newest heartbeat

memoryVars == <<task, health, processes, known, previous, sample>>
beatVars == <<beats, shown>>
vars == <<regVars, process, memoryVars, beatVars>>

-----------------------------------------------------------------------------
Collectors == {"discovery", "process"}
Loops == Collectors \cup {"heartbeat"}

NoSample == [entity |-> 0, reading |-> 0, base |-> 0]

\* The tasks run() creates.
Idle == [l \in Loops |-> "idle"]

Init ==
    /\ RegInit
    /\ process = [incarnation |-> 1, running |-> TRUE]
    /\ task = Idle /\ health = {}
    /\ processes = {} /\ known = {} /\ previous = 0 /\ sample = NoSample
    /\ beats = <<>> /\ shown = {}

Up == agent.pc = "up"
At(l, pc) == Up /\ task[l] = pc
Moves(l, pc) == task' = [task EXCEPT ![l] = pc]

\* Mutant: health_error reports the event before it sets the health.
RaisesReported(l) == Moves(l, "report") /\ health' = health

\* The operation raises: health_error sets the health and begins to emit.
Raises(l) == Moves(l, "report") /\ health' = health \cup ({l} \cap Collectors)

\* The operation returns.
Returns(l) == Moves(l, "idle") /\ health' = health \ {l}

\* The event of health_error is spooled and the loop goes on ...
Reported(l) ==
    /\ At(l, "report")
    /\ Moves(l, "idle")
    /\ UNCHANGED <<regVars, process, health, processes, known, previous, sample, beatVars>>

\* ... or emit() raises out of _guarded_loop, and nobody looks at the task.
ReportFails(l) ==
    /\ At(l, "report")
    /\ Fault
    /\ Moves(l, "dead")
    /\ UNCHANGED <<config, disk, agent, requests, hosts, ids,
                   process, health, processes, known, previous, sample, beatVars>>

FaultOnly == Fault /\ UNCHANGED <<config, disk, agent, requests, hosts, ids>>
Refused == ~Valid(agent.credential) /\ UNCHANGED regVars

-----------------------------------------------------------------------------
(* The host.                                                               *)

\* The process ends; another one gets its PID.
HostChanges ==
    /\ process.incarnation < LastIncarnation
    /\ process' = IF process.running THEN [process EXCEPT !.running = FALSE]
                  ELSE [incarnation |-> process.incarnation + 1, running |-> TRUE]
    /\ UNCHANGED <<regVars, memoryVars, beatVars>>

-----------------------------------------------------------------------------
(* Agent.discover.                                                         *)

\* self.processes is replaced before the PUT.
Discover ==
    /\ At("discovery", "idle")
    /\ processes' = {i \in {process.incarnation} : process.running}
    /\ Moves("discovery", "put")
    /\ UNCHANGED <<regVars, process, health, known, previous, sample, beatVars>>

\* The ids are recorded, and then the lifecycle events emitted.
DiscoverEnds ==
    /\ At("discovery", "put")
    /\ Valid(agent.credential)
    /\ known' = known \cup processes
    /\ \/ Returns("discovery") /\ UNCHANGED regVars
       \/ Raises("discovery") /\ FaultOnly
    /\ UNCHANGED <<process, processes, previous, sample, beatVars>>

\* The scan or the PUT raises.
DiscoverFails ==
    /\ \/ At("discovery", "put") /\ (Refused \/ FaultOnly)
       \/ At("discovery", "idle") /\ FaultOnly
    /\ Raises("discovery")
    /\ UNCHANGED <<process, processes, known, previous, sample, beatVars>>

-----------------------------------------------------------------------------
(* Agent.collect_processes; /proc/<pid>/stat is one read.                  *)

\* Mutant: the start time is not compared.
SampledReused == processes \cap known

\* Incarnations with an id whose start time is still that of the PID.
Sampled == {i \in processes \cap known : i = process.incarnation}

\* collect_process: the rate is taken against the previous reading of the
\* same (pid, start time), and that of an earlier incarnation is removed.
CollectProcesses ==
    /\ At("process", "idle")
    /\ IF process.running /\ Sampled # {}
       THEN \E i \in Sampled :
               /\ sample' = [entity |-> i, reading |-> process.incarnation,
                             base |-> IF previous = process.incarnation THEN previous ELSE 0]
               /\ previous' = process.incarnation
               /\ Moves("process", "emit") /\ health' = health
       ELSE Returns("process") /\ UNCHANGED <<previous, sample>>
    /\ UNCHANGED <<regVars, process, processes, known, beatVars>>

\* A read raises, or the report of a denied one cannot be spooled.
CollectFails ==
    /\ At("process", "idle") /\ processes # {}
    /\ FaultOnly
    /\ Raises("process")
    /\ UNCHANGED <<process, processes, known, previous, sample, beatVars>>

\* The samples are spooled, or emit() raises.
CollectEnds ==
    /\ At("process", "emit")
    /\ sample' = NoSample
    /\ \/ Returns("process") /\ UNCHANGED regVars
       \/ Raises("process") /\ FaultOnly
    /\ UNCHANGED <<process, processes, known, previous, beatVars>>

-----------------------------------------------------------------------------
(* Agent.heartbeat and the server's heartbeat and collector_health.        *)

Heartbeat ==
    /\ At("heartbeat", "idle")
    /\ beats' = Append(beats, [health |-> health, credential |-> agent.credential,
                               live |-> TRUE, old |-> FALSE])
    /\ Moves("heartbeat", "wait")
    /\ UNCHANGED <<regVars, process, health, processes, known, previous, sample, shown>>

\* collector_health selects the newest heartbeat by observed_at.
Shown(b) == IF Valid(b.credential) /\ ~b.old THEN b.health ELSE shown

\* The handler stores the heartbeat or refuses it, and the agent, if it still
\* waits, gets the answer.
HeartbeatHandled ==
    /\ \E k \in 1..Len(beats) :
          LET b == beats[k]
              stored == Valid(b.credential)
          IN /\ beats' = [j \in 1..(Len(beats) - 1) |->
                            IF j < k THEN [beats[j] EXCEPT !.old = @ \/ stored] ELSE beats[j + 1]]
             /\ shown' = Shown(b)
             /\ CASE ~b.live          -> task' = task /\ health' = health
                  [] b.live /\ stored  -> Returns("heartbeat")
                  [] b.live /\ ~stored -> Raises("heartbeat")
    /\ UNCHANGED <<regVars, process, processes, known, previous, sample>>

\* Mutant: the agent goes on although the request is still its own.
AbandonedAwaited(kept) ==
    IF ~kept /\ beats # <<>> /\ beats[Len(beats)].live
    THEN SubSeq(beats, 1, Len(beats) - 1) ELSE beats

\* The heartbeats left when the agent waits no longer, its own, which is the
\* last, kept or lost.
Abandoned(kept) ==
    IF ~kept /\ beats # <<>> /\ beats[Len(beats)].live
    THEN SubSeq(beats, 1, Len(beats) - 1)
    ELSE [k \in 1..Len(beats) |-> [beats[k] EXCEPT !.live = FALSE]]

\* usage() raises, the connection breaks, or nothing comes in 10 seconds and
\* the request may be handled all the same.
HeartbeatFails ==
    /\ At("heartbeat", "wait")
    /\ FaultOnly
    /\ Raises("heartbeat")
    /\ \E kept \in BOOLEAN : beats' = Abandoned(kept)
    /\ UNCHANGED <<process, processes, known, previous, sample, shown>>

-----------------------------------------------------------------------------
\* All tasks and what they keep in memory go.
Dies ==
    /\ Crash
    /\ task' = Idle /\ health' = {}
    /\ processes' = {} /\ known' = {} /\ previous' = 0 /\ sample' = NoSample
    /\ \E kept \in BOOLEAN : beats' = Abandoned(kept)
    /\ UNCHANGED <<process, shown>>

Enrols == Enrolling /\ UNCHANGED <<process, memoryVars, beatVars>>

Next ==
    \/ Enrols \/ Dies \/ HostChanges
    \/ \E l \in Loops : Reported(l) \/ ReportFails(l)
    \/ Discover \/ DiscoverEnds \/ DiscoverFails
    \/ CollectProcesses \/ CollectFails \/ CollectEnds
    \/ Heartbeat \/ HeartbeatHandled \/ HeartbeatFails

Spec == Init /\ [][Next]_vars

\* The event loop runs a task that can go on; the server handles a request it
\* has.  A request that gets lost is one of the bounded faults.
Fairness ==
    /\ \A l \in Loops : WF_vars(Reported(l))
    /\ WF_vars(Heartbeat) /\ WF_vars(HeartbeatHandled)

FairSpec == Spec /\ Fairness

-----------------------------------------------------------------------------
(* Properties.                                                             *)

Incarnations == 1..LastIncarnation

\* The shape of the state; only an agent that is up has tasks at work, and at
\* most one heartbeat is waited for.
TypeOK ==
    /\ RegTypeOK
    /\ process \in [incarnation : Incarnations, running : BOOLEAN]
    /\ task["discovery"] \in {"idle", "put", "report", "dead"}
    /\ task["process"] \in {"idle", "emit", "report", "dead"}
    /\ task["heartbeat"] \in {"idle", "wait", "report", "dead"}
    /\ health \subseteq Collectors
    /\ processes \subseteq Incarnations /\ known \subseteq Incarnations
    /\ previous \in {0} \cup Incarnations
    /\ sample \in [entity : {0} \cup Incarnations, reading : {0} \cup Incarnations,
                   base : {0} \cup Incarnations]
    /\ \A k \in DOMAIN beats :
          beats[k] \in [health : SUBSET Collectors, credential : Credentials, live : BOOLEAN, old : BOOLEAN]
    /\ {k \in DOMAIN beats : beats[k].live} = {k \in {Len(beats)} : At("heartbeat", "wait")}
    /\ shown \subseteq Collectors

\* A sample is stored under the process it was read from, and a rate compares
\* two readings of one process, although the PID is reused between the cycles
\* of discovery and sampling ("PID reuse cannot merge unrelated processes",
\* plan.md).  This is about /proc/<pid>/stat, which has the start time.
SamplesUnmixed == sample.entity = sample.reading /\ sample.base \in {0, sample.reading}

\* A collector that has stopped for good is shown as unhealthy by the server,
\* also when heartbeats fail or are handled late, unless the heartbeat task
\* itself has ended, the agent is not up or its credential was rotated.  The
\* sender is not a guarded loop and not covered: it can end unseen.
DeadShown ==
    \A l \in Collectors :
        task[l] = "dead" ~> \/ l \in shown \/ task["heartbeat"] = "dead"
                            \/ ~Up \/ ~Valid(agent.credential)
=============================================================================
