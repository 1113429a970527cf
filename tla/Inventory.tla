----------------------------- MODULE Inventory -----------------------------
(***************************************************************************)
(* Discovery on one host and its inventory on the server: Agent.discover   *)
(* (runtime.py) with DiscoveryState.reconcile (discovery.py), the PUT of   *)
(* the inventory (transport.py), reconcile_inventory (api.py) and the      *)
(* lease sweep of rollup_once (maintenance.py).                            *)
(*                                                                         *)
(* One tick is one discovery interval.  Times are kept relative to now: a  *)
(* row keeps the ticks left of its lease (negative once it expired), a     *)
(* request the ticks since its observed_at, so the clock needs no bound.   *)
(* The transaction of reconcile_inventory is one atomic step.  Service and *)
(* container rows go through the same touch() and the same two lease tests *)
(* as process and dependency rows, and are left out.  The agent names      *)
(* every service it refers to, so no inventory is refused with 422, and it *)
(* puts the process identity in the external id, so none is "retired".     *)
(***************************************************************************)
EXTENDS Integers, FiniteSets

CONSTANTS Processes,   \* process identities, by pid; none ever runs twice
          Services,    \* services that discovery rules may name
          Dependencies,\* dependencies the configuration may have
          Cap,         \* max_monitored_processes
          Lease,       \* lease_seconds in ticks
          Timeout,     \* the client's timeout in ticks
          Skew,        \* the agent's clock minus the server's, in ticks
          MaxDelay,    \* bound: age at which an abandoned request is gone
          MaxChanges,  \* bound: changes of the host
          MaxFaults,   \* bound: failed and slow requests
          MaxCrashes   \* bound: agent crashes

ASSUME InventoryAssumption ==
    /\ Processes \subseteq Nat
    /\ Cap \in Nat \ {0}
    /\ Lease \in Nat \ {0}
    /\ Timeout \in Nat /\ MaxDelay \in Nat /\ Timeout <= MaxDelay
    /\ Skew \in Int
    /\ Dependencies \cap Processes = {}
    /\ MaxChanges \in Nat /\ MaxFaults \in Nat /\ MaxCrashes \in Nat

VARIABLES life,       \* host: per process "unborn", "running" or "dead"
          service,    \* host: the service its rules give each process
          config,     \* the agent's configuration: services of each dependency
          assoc,      \* DiscoveryState.associations
          ids,        \* processes with an entry in resource_ids
          cycle,      \* the discovery task and the locals of discover()
          told,       \* what the last lifecycle event of a process said
          table,      \* server: the row of each resource
          links,      \* server: active rows of ServiceDependency
          late,       \* abandoned PUTs the server may still process
          fresh,      \* history: ticks since the last answered observation
          changes, faults, crashes

hostVars == <<life, service, config>>
serverVars == <<table, links>>
agentVars == <<assoc, ids, cycle, told>>
vars == <<hostVars, agentVars, serverVars, late, fresh, changes, faults, crashes>>

-----------------------------------------------------------------------------
Resources == Processes \cup Dependencies

Unassigned == "unassigned"   \* in the associations, with service None
Gone == "gone"               \* not in the associations

NoRow == [exists |-> FALSE, active |-> FALSE, lease |-> 0, service |-> Unassigned]
Absent == {Gone}             \* a dependency the configuration does not have
NoInventory == [processes |-> [p \in Processes |-> Gone],
                dependencies |-> [d \in Dependencies |-> Absent]]
Resting == [pc |-> "due", inventory |-> NoInventory, changed |-> {}, age |-> 0]

\* Leases are counted down no further: below it all comparisons agree.
LeaseFloor == IF Skew - MaxDelay < 0 THEN Skew - MaxDelay - 1 ELSE -1
Stale == Lease + MaxDelay

Init ==
    /\ life = [p \in Processes |-> "unborn"]
    /\ service = [p \in Processes |-> Unassigned]
    /\ config \in [Dependencies -> (SUBSET Services) \cup {Absent}]
    /\ assoc = NoInventory.processes
    /\ ids = {}
    /\ cycle = Resting
    /\ told = NoInventory.processes
    /\ table = [r \in Resources |-> NoRow]
    /\ links = {}
    /\ late = {}
    /\ fresh = [r \in Resources |-> Stale]
    /\ changes = 0 /\ faults = 0 /\ crashes = 0

-----------------------------------------------------------------------------
(* The host.                                                               *)

\* A process starts, stops, or matches other rules.
HostChanges ==
    /\ changes < MaxChanges
    /\ changes' = changes + 1
    /\ \E p \in Processes :
          \/ /\ life[p] = "unborn" /\ life' = [life EXCEPT ![p] = "running"]
             /\ \E s \in Services \cup {Unassigned} : service' = [service EXCEPT ![p] = s]
          \/ /\ life[p] = "running" /\ life' = [life EXCEPT ![p] = "dead"]
             /\ service' = service
          \/ /\ life[p] = "running" /\ life' = life
             /\ \E s \in (Services \cup {Unassigned}) \ {service[p]} :
                   service' = [service EXCEPT ![p] = s]
    /\ UNCHANGED <<config, agentVars, serverVars, late, fresh, faults, crashes>>

\* The sort of discover(): processes of a service first, then by pid.
Precedes(q, p) ==
    \/ service[q] # Unassigned /\ service[p] = Unassigned
    \/ (service[q] = Unassigned <=> service[p] = Unassigned) /\ q < p

Running == {p \in Processes : life[p] = "running"}

\* What discover() keeps of the running processes.
Monitored == {p \in Running : Cardinality({q \in Running : Precedes(q, p)}) < Cap}

-----------------------------------------------------------------------------
(* Agent.discover.                                                         *)

\* From the process list to the PUT.  reconcile() replaces the associations
\* before anything is sent; the changes stay in a local variable.
Discover ==
    /\ cycle.pc = "due"
    /\ LET current == [p \in Processes |-> IF p \in Monitored THEN service[p] ELSE Gone]
       IN /\ assoc' = current
          /\ cycle' = [pc |-> "put", age |-> 0,
                       inventory |-> [processes |-> current, dependencies |-> config],
                       changed |-> {p \in Processes : current[p] # assoc[p]}]
    /\ UNCHANGED <<hostVars, ids, told, serverVars, late, fresh, changes, faults, crashes>>

Included(inventory) ==
    {p \in Processes : inventory.processes[p] # Gone}
        \cup {d \in Dependencies : inventory.dependencies[d] # Absent}

\* Mutant: what the inventory does not name goes inactive at once.
ReconciledNoLease(inventory, age) ==
    [r \in Resources |->
        IF r \in Included(inventory)
        THEN [exists |-> TRUE, active |-> TRUE, lease |-> Lease + Skew - age,
              service |-> IF r \in Processes THEN inventory.processes[r] ELSE Unassigned]
        ELSE [table[r] EXCEPT !.active = FALSE]]

\* Mutant: touch() does not activate a row that exists.
ReconciledInactive(inventory, age) ==
    [r \in Resources |->
        IF r \in Included(inventory)
        THEN [exists |-> TRUE, active |-> table[r].exists => table[r].active,
              lease |-> Lease + Skew - age,
              service |-> IF r \in Processes THEN inventory.processes[r] ELSE Unassigned]
        ELSE [table[r] EXCEPT !.active = @ /\ ~(table[r].lease <= Skew - age)]]

\* reconcile_inventory, age ticks after the observation: touch() renews what
\* the inventory has; the rest goes inactive when its lease is over by the
\* time of the observation.  The agent's clock sets both.
Reconciled(inventory, age) ==
    [r \in Resources |->
        IF r \in Included(inventory)
        THEN [exists |-> TRUE, active |-> TRUE, lease |-> Lease + Skew - age,
              service |-> IF r \in Processes THEN inventory.processes[r] ELSE Unassigned]
        ELSE [table[r] EXCEPT !.active = @ /\ ~(table[r].lease <= Skew - age)]]

\* Its links: those the inventory has become active; of the others only the
\* links of a dependency whose lease is over go inactive.
Linked(inventory, age) ==
    {l \in Services \X Dependencies :
        \/ l[2] \in Included(inventory) /\ l[1] \in inventory.dependencies[l[2]]
        \/ l \in links /\ (l[2] \in Included(inventory) \/ table[l[2]].lease > Skew - age)}

\* The transaction.
Reconcile(inventory, age) ==
    /\ table' = Reconciled(inventory, age)
    /\ links' = Linked(inventory, age)

\* The task's next deadline is already over when the cycle took a tick.
NextCycle == [Resting EXCEPT !.pc = IF cycle.age = 0 THEN "idle" ELSE "due"]

\* Mutant: the events state the service found after the answer.
InventoryAnsweredRescan ==
    /\ cycle.pc = "put"
    /\ Reconcile(cycle.inventory, cycle.age)
    /\ fresh' = fresh
    /\ ids' = ids \cup (Included(cycle.inventory) \cap Processes)
    /\ told' = [p \in Processes |->
                  IF p \in cycle.changed \cap ids' /\ cycle.inventory.processes[p] # Gone
                  THEN service[p] ELSE told[p]]
    /\ cycle' = NextCycle
    /\ UNCHANGED <<hostVars, assoc, late, changes, faults, crashes>>

\* The server handles the PUT and answers in time; discover() records the
\* ids it returns and emits the lifecycle events of processes with an id.
InventoryAnswered ==
    /\ cycle.pc = "put"
    /\ Reconcile(cycle.inventory, cycle.age)
    /\ fresh' = [r \in Resources |->
                   IF r \in Included(cycle.inventory) THEN cycle.age ELSE fresh[r]]
    /\ ids' = ids \cup (Included(cycle.inventory) \cap Processes)
    /\ told' = [p \in Processes |->
                  IF p \in cycle.changed \cap ids' THEN cycle.inventory.processes[p] ELSE told[p]]
    /\ cycle' = NextCycle
    /\ UNCHANGED <<hostVars, assoc, late, changes, faults, crashes>>

Request == [inventory |-> cycle.inventory, age |-> cycle.age]

\* Mutant: the status of the answer is not looked at.
InventoryFailsUnseen ==
    /\ cycle.pc = "put"
    /\ faults < MaxFaults
    /\ faults' = faults + 1
    /\ ids' = ids \cup (Included(cycle.inventory) \cap Processes)
    /\ cycle' = NextCycle
    /\ UNCHANGED <<hostVars, assoc, late, told, serverVars, fresh, changes, crashes>>

\* The PUT raises: an error status, a broken connection, a timeout.  The
\* guarded loop reports a collector error and goes on.
InventoryFails ==
    /\ cycle.pc = "put"
    /\ faults < MaxFaults
    /\ faults' = faults + 1
    /\ late' \in {late, late \cup {Request}}
    /\ cycle' = NextCycle
    /\ UNCHANGED <<hostVars, assoc, ids, told, serverVars, fresh, changes, crashes>>

\* The server processes a PUT nobody waits for.
LateInventory ==
    /\ \E m \in late : /\ Reconcile(m.inventory, m.age)
                       /\ late' = late \ {m}
    /\ UNCHANGED <<hostVars, agentVars, fresh, changes, faults, crashes>>

-----------------------------------------------------------------------------
\* rollup_once deactivates every row whose lease is over.
Sweep ==
    /\ \E r \in Resources : table[r].active /\ table[r].lease < 0
    /\ table' = [r \in Resources |-> [table[r] EXCEPT !.active = @ /\ ~(table[r].lease < 0)]]
    /\ UNCHANGED <<hostVars, agentVars, links, late, fresh, changes, faults, crashes>>

\* Mutant: the client waits for an answer without a timeout.
TickNoTimeout ==
    /\ cycle.pc = "put"
    /\ late' = late /\ table' = table /\ fresh' = fresh
    /\ faults < MaxFaults /\ faults' = faults + 1
    /\ cycle' = [cycle EXCEPT !.age = @ + 1]
    /\ UNCHANGED <<hostVars, assoc, ids, told, links, changes, crashes>>

\* A discovery interval passes.  A cycle that still waits for its answer is
\* a slow one, which the client's timeout ends.
Tick ==
    /\ \/ cycle.pc \in {"idle", "down"} /\ faults' = faults
       \/ /\ cycle.pc = "put" /\ cycle.age < Timeout
          /\ faults < MaxFaults /\ faults' = faults + 1
    /\ \A m \in late : m.age < MaxDelay
    /\ late' = {[m EXCEPT !.age = @ + 1] : m \in late}
    /\ table' = [r \in Resources |->
                   [table[r] EXCEPT !.lease = IF @ > LeaseFloor THEN @ - 1 ELSE @]]
    /\ fresh' = [r \in Resources |-> IF fresh[r] < Stale THEN fresh[r] + 1 ELSE Stale]
    /\ cycle' = IF cycle.pc = "put" THEN [cycle EXCEPT !.age = @ + 1]
                ELSE [cycle EXCEPT !.pc = IF @ = "idle" THEN "due" ELSE @]
    /\ UNCHANGED <<hostVars, assoc, ids, told, links, changes, crashes>>

\* The agent dies; associations and ids are in memory only.
Crash ==
    /\ cycle.pc # "down"
    /\ crashes < MaxCrashes
    /\ crashes' = crashes + 1
    /\ late' \in {late} \cup IF cycle.pc = "put" THEN {late \cup {Request}} ELSE {}
    /\ assoc' = NoInventory.processes
    /\ ids' = {}
    /\ cycle' = [Resting EXCEPT !.pc = "down"]
    /\ UNCHANGED <<hostVars, told, serverVars, fresh, changes, faults>>

\* The agent starts, possibly with another configuration.
Restart ==
    /\ cycle.pc = "down"
    /\ cycle' = Resting
    /\ config' \in [Dependencies -> (SUBSET Services) \cup {Absent}]
    /\ UNCHANGED <<life, service, assoc, ids, told, serverVars, late, fresh, changes, faults, crashes>>

Next == \/ HostChanges
        \/ Discover \/ InventoryAnswered \/ InventoryFails
        \/ LateInventory \/ Sweep \/ Tick
        \/ Crash \/ Restart

Spec == Init /\ [][Next]_vars

\* The guarded loop starts a cycle every interval and the client's timeout
\* ends it; a supervisor restarts the agent; the maintenance worker runs
\* every minute; a request the server has taken ends.
Fairness == /\ WF_vars(Discover)
            /\ WF_vars(InventoryAnswered)
            /\ WF_vars(LateInventory)
            /\ WF_vars(Sweep)
            /\ WF_vars(Tick)
            /\ WF_vars(Restart)

FairSpec == Spec /\ Fairness

-----------------------------------------------------------------------------
(* Properties.                                                             *)

Association == [Processes -> Services \cup {Unassigned, Gone}]
Configuration == [Dependencies -> (SUBSET Services) \cup {Absent}]
InventoryBody == [processes : Association, dependencies : Configuration]

\* The shape of the state.
TypeOK ==
    /\ life \in [Processes -> {"unborn", "running", "dead"}]
    /\ service \in [Processes -> Services \cup {Unassigned}]
    /\ config \in Configuration
    /\ assoc \in Association /\ told \in Association
    /\ ids \subseteq Processes
    /\ cycle.pc \in {"due", "put", "idle", "down"}
    /\ cycle.inventory \in InventoryBody
    /\ cycle.changed \subseteq Processes
    /\ cycle.age \in 0..Timeout
    /\ \A m \in late : m.inventory \in InventoryBody /\ m.age \in 0..MaxDelay
    /\ table \in [Resources -> [exists : BOOLEAN, active : BOOLEAN, lease : Int,
                                service : Services \cup {Unassigned}]]
    /\ links \subseteq Services \X Dependencies
    /\ fresh \in [Resources -> 0..Stale]

\* The lease is not over, by the agent's clock, which reconcile_inventory
\* compares with, nor by the server's, which the sweep compares with.  What a
\* delayed request can take from the lease is its own delay.
LeaseRuns(r) == /\ fresh[r] + MaxDelay < Lease
                /\ fresh[r] + MaxDelay < Lease + Skew

\* A resource is active as long as its lease promises after an inventory that
\* reported it was answered: neither cycles that fail, nor old requests that
\* the server processes after newer ones, nor the sweep with the server's
\* clock take it down earlier (plan.md: "Missing resources become inactive
\* after a lease rather than being deleted immediately").
ActiveDuringLease ==
    \A r \in Resources : LeaseRuns(r) => table[r].active

\* Every process the agent refers to in lifecycle events and samples has a
\* row on the server, so ingestion does not reject the reference.
ReferencesKnown ==
    \A p \in Processes : p \in ids \/ told[p] # Gone => table[p].exists

\* A lifecycle event says what the associations say when it is emitted, also
\* when the host changed while the PUT was waited for.
EventsCurrent ==
    [][\A p \in Processes : told'[p] # told[p] => told'[p] = assoc'[p]]_vars

Configured == {d \in Dependencies : config[d] # Absent}

Synced ==
    /\ \A r \in Resources : table[r].active <=> r \in Monitored \cup Configured
    /\ \A p \in Monitored : table[p].service = service[p]
    /\ \A d \in Configured : config[d] \X {d} \subseteq links
    /\ \A l \in links : l[2] \in Configured

\* Once the host, the network and the agent are quiet, the topology becomes
\* and stays that of the host: what is gone goes inactive, what runs is active
\* with its present service and links, whatever old requests were applied late.
Converges == <>[]Synced

\* "all association changes generate lifecycle events" (plan.md): once all is
\* quiet, the last event of each process states its association.
ChangesReported == <>[](told = assoc)

=============================================================================
