-------------------------- MODULE InventoryProofs --------------------------
(***************************************************************************)
(* Proofs about Inventory, for any processes, services, leases, timeouts   *)
(* and skew of the clocks.                                                 *)
(***************************************************************************)
EXTENDS Inventory, TLAPS

-----------------------------------------------------------------------------
(* The inductive invariant.                                                *)

Row == [exists : BOOLEAN, active : BOOLEAN, lease : Int, service : Services \cup {Unassigned}]
CycleState == [pc : {"due", "put", "idle", "down"}, inventory : InventoryBody,
               changed : SUBSET Processes, age : 0..Timeout]
RequestState == [inventory : InventoryBody, age : 0..MaxDelay]

HostOK ==
    /\ life \in [Processes -> {"unborn", "running", "dead"}]
    /\ service \in [Processes -> Services \cup {Unassigned}]
    /\ config \in Configuration
AgentOK ==
    /\ assoc \in Association /\ told \in Association
    /\ ids \subseteq Processes /\ cycle \in CycleState
    /\ late \subseteq RequestState
ServerOK ==
    /\ table \in [Resources -> Row]
    /\ links \subseteq Services \X Dependencies
    /\ fresh \in [Resources -> 0..Stale]

\* discover() waits with the inventory its associations come from.
CycleOK == cycle.pc = "put" => assoc = cycle.inventory.processes

\* While the lease runs the row is active, and its stored lease is not more
\* than a delayed request behind.
LeaseKept ==
    \A r \in Resources : LeaseRuns(r) =>
       table[r].active /\ table[r].lease >= Lease + Skew - MaxDelay - fresh[r]

InvInv == HostOK /\ AgentOK /\ ServerOK /\ CycleOK /\ LeaseKept /\ ReferencesKnown

-----------------------------------------------------------------------------
(* What a reconciliation does.                                             *)

LEMMA RestingOK ==
    NoInventory \in InventoryBody /\ Resting \in CycleState
<1>1. NoInventory \in InventoryBody
  <2>1. [p \in Processes |-> Gone] \in Association
    BY DEF Association
  <2>2. [d \in Dependencies |-> Absent] \in Configuration
    <3>1. Absent \in (SUBSET Services) \cup {Absent}
      OBVIOUS
    <3>. QED
      BY <3>1 DEF Configuration
  <2>. QED
    BY <2>1, <2>2 DEF NoInventory, InventoryBody
<1>2. 0 \in 0..Timeout
  BY InventoryAssumption
<1>. QED
  BY <1>1, <1>2 DEF Resting, CycleState

\* The rows reconcile_inventory leaves: well typed, none removed, those of the
\* inventory active with a lease from its observation; any other row keeps its
\* lease, and is active if it was and its lease is after the observation.
LEMMA ReconcileRows ==
    ASSUME ServerOK, NEW inventory \in InventoryBody, NEW age \in 0..MaxDelay, Reconcile(inventory, age)
    PROVE  /\ table' \in [Resources -> Row] /\ links' \subseteq Services \X Dependencies
           /\ \A r \in Resources : table[r].exists => table'[r].exists
           /\ \A r \in Included(inventory) : /\ r \in Resources
                                             /\ table'[r].exists /\ table'[r].active
                                             /\ table'[r].lease = Lease + Skew - age
           /\ \A r \in Resources \ Included(inventory) :
                 /\ table'[r].lease = table[r].lease
                 /\ table[r].active /\ table[r].lease > Skew - age => table'[r].active
<1>1. age \in Nat /\ Lease \in Nat /\ Skew \in Int /\ age <= MaxDelay /\ MaxDelay \in Nat
  BY InventoryAssumption
<1>2. table' = Reconciled(inventory, age) /\ links' = Linked(inventory, age)
  BY DEF Reconcile
<1>3. links' \subseteq Services \X Dependencies
  BY <1>2 DEF Linked
<1>4. ASSUME NEW r \in Included(inventory)
      PROVE  /\ r \in Resources /\ table'[r] \in Row
             /\ table'[r].exists /\ table'[r].active /\ table'[r].lease = Lease + Skew - age
  <2>1. r \in Resources
    BY DEF Included, Resources
  <2>2. table'[r] = [exists |-> TRUE, active |-> TRUE, lease |-> Lease + Skew - age,
                     service |-> IF r \in Processes THEN inventory.processes[r] ELSE Unassigned]
    BY <1>2, <2>1 DEF Reconciled
  <2>3. (IF r \in Processes THEN inventory.processes[r] ELSE Unassigned) \in Services \cup {Unassigned}
    <3>1. CASE r \in Processes
      <4>1. inventory.processes[r] \in Services \cup {Unassigned, Gone}
        BY <3>1 DEF InventoryBody, Association
      <4>2. inventory.processes[r] # Gone
        BY <3>1, InventoryAssumption DEF Included
      <4>. QED
        BY <3>1, <4>1, <4>2
    <3>2. CASE r \notin Processes
      BY <3>2
    <3>. QED
      BY <3>1, <3>2
  <2>4. Lease + Skew - age \in Int
    BY <1>1
  <2>. QED
    BY <2>1, <2>2, <2>3, <2>4 DEF Row
<1>5. ASSUME NEW r \in Resources, r \notin Included(inventory)
      PROVE  /\ table'[r] \in Row /\ table'[r].lease = table[r].lease
             /\ table[r].exists => table'[r].exists
             /\ table[r].active /\ table[r].lease > Skew - age => table'[r].active
  <2>1. table'[r] = [table[r] EXCEPT !.active = @ /\ ~(table[r].lease <= Skew - age)]
    BY <1>2, <1>5 DEF Reconciled
  <2>2. table[r] \in Row
    BY DEF ServerOK
  <2>3. table[r].lease > Skew - age => ~(table[r].lease <= Skew - age)
    BY <1>1, <2>2 DEF Row
  <2>. QED
    BY <2>1, <2>2, <2>3 DEF Row
<1>6. DOMAIN table' = Resources /\ table' = [r \in Resources |-> table'[r]]
  BY <1>2 DEF Reconciled
<1>7. table' \in [Resources -> Row]
  BY <1>4, <1>5, <1>6
<1>. QED
  BY <1>3, <1>4, <1>5, <1>7

\* So it keeps the leases of what was observed, with any observation that is
\* not older than MaxDelay and whatever was reported since.
LEMMA ReconcileKeeps ==
    ASSUME ServerOK, LeaseKept, NEW inventory \in InventoryBody, NEW age \in 0..MaxDelay,
           Reconcile(inventory, age), fresh' \in [Resources -> 0..Stale],
           \A r \in Resources : fresh'[r] # fresh[r] => r \in Included(inventory)
    PROVE  ServerOK' /\ LeaseKept'
<1>1. /\ age \in Nat /\ Lease \in Nat /\ Skew \in Int /\ age <= MaxDelay /\ MaxDelay \in Nat
      /\ \A r \in Resources : fresh'[r] \in Nat
  BY InventoryAssumption DEF Stale
<1>2. ServerOK'
  BY ReconcileRows DEF ServerOK
<1>3. ASSUME NEW r \in Resources, LeaseRuns(r)'
      PROVE  table'[r].active /\ table'[r].lease >= Lease + Skew - MaxDelay - fresh'[r]
  <2>1. CASE r \in Included(inventory)
    <3>1. table'[r].active /\ table'[r].lease = Lease + Skew - age
      BY <2>1, ReconcileRows
    <3>2. fresh'[r] \in Nat
      BY <1>1
    <3>. QED
      BY <1>1, <3>1, <3>2
  <2>2. CASE r \notin Included(inventory)
    <3>1. fresh'[r] = fresh[r] /\ LeaseRuns(r)
      BY <1>3, <2>2 DEF LeaseRuns
    <3>2. table[r].active /\ table[r].lease >= Lease + Skew - MaxDelay - fresh[r]
      BY <3>1 DEF LeaseKept
    <3>3. table[r].lease \in Int /\ fresh[r] \in Nat
      BY <1>1, <3>1 DEF ServerOK, Row
    <3>4. table[r].lease > Skew - age
      BY <1>1, <3>1, <3>2, <3>3 DEF LeaseRuns
    <3>. QED
      BY <2>2, <3>1, <3>2, <3>4, ReconcileRows
  <2>. QED
    BY <2>1, <2>2
<1>. QED
  BY <1>2, <1>3 DEF LeaseKept

-----------------------------------------------------------------------------
(* One step.                                                               *)

LEMMA InvStep ==
    ASSUME InvInv, [Next]_vars
    PROVE  InvInv'
<1>. USE DEF InvInv, hostVars, agentVars, serverVars
<1>a. /\ Lease \in Nat /\ Skew \in Int /\ Timeout \in Nat /\ MaxDelay \in Nat /\ Timeout <= MaxDelay
      /\ Stale \in Nat /\ Lease <= Stale
  BY InventoryAssumption DEF Stale
<1>1. CASE HostChanges
  <2>1. HostOK'
    BY <1>1 DEF HostChanges, HostOK
  <2>2. UNCHANGED <<assoc, ids, cycle, told, table, links, late, fresh>>
    BY <1>1 DEF HostChanges
  <2>. QED
    BY <2>1, <2>2 DEF AgentOK, ServerOK, CycleOK, LeaseKept, LeaseRuns, ReferencesKnown
<1>2. CASE Discover
  <2>. DEFINE current == [p \in Processes |-> IF p \in Monitored THEN service[p] ELSE Gone]
  <2>1. /\ assoc' = current
        /\ cycle' = [pc |-> "put", age |-> 0, inventory |-> [processes |-> current, dependencies |-> config],
                     changed |-> {p \in Processes : current[p] # assoc[p]}]
        /\ UNCHANGED <<life, service, config, ids, told, table, links, late, fresh>>
    BY <1>2 DEF Discover
  <2>2. current \in Association
    BY DEF Association, HostOK
  <2>3. [processes |-> current, dependencies |-> config] \in InventoryBody
    BY <2>2 DEF InventoryBody, HostOK
  <2>4. {p \in Processes : current[p] # assoc[p]} \in SUBSET Processes
    OBVIOUS
  <2>. HIDE DEF current
  <2>5. cycle' \in CycleState /\ (cycle.pc = "put" => assoc = cycle.inventory.processes)'
    BY <1>a, <2>1, <2>3, <2>4 DEF CycleState
  <2>. QED
    BY <2>1, <2>2, <2>5 DEF HostOK, AgentOK, ServerOK, CycleOK, LeaseKept, LeaseRuns, ReferencesKnown
<1>n. NextCycle \in CycleState /\ NextCycle.pc # "put"
  BY RestingOK DEF NextCycle, Resting, CycleState
<1>3. CASE InventoryAnswered
  <2>1. /\ cycle.pc = "put" /\ Reconcile(cycle.inventory, cycle.age) /\ cycle' = NextCycle
        /\ fresh' = [r \in Resources |-> IF r \in Included(cycle.inventory) THEN cycle.age ELSE fresh[r]]
        /\ ids' = ids \cup (Included(cycle.inventory) \cap Processes)
        /\ told' = [p \in Processes |->
                      IF p \in cycle.changed \cap ids' THEN cycle.inventory.processes[p] ELSE told[p]]
        /\ UNCHANGED <<life, service, config, assoc, late>>
    BY <1>3 DEF InventoryAnswered
  <2>2. cycle.inventory \in InventoryBody /\ cycle.age \in 0..Timeout
    BY DEF AgentOK, CycleState
  <2>3. cycle.age \in 0..MaxDelay /\ cycle.age \in 0..Stale
    BY <1>a, <2>2 DEF Stale
  <2>4. fresh' \in [Resources -> 0..Stale]
    BY <2>1, <2>3 DEF ServerOK
  <2>5. \A r \in Resources : fresh'[r] # fresh[r] => r \in Included(cycle.inventory)
    BY <2>1
  <2>6. ServerOK' /\ LeaseKept'
    BY <2>1, <2>2, <2>3, <2>4, <2>5, ReconcileKeeps
  <2>7. HostOK' /\ AgentOK' /\ CycleOK'
    BY <1>n, <2>1, <2>2 DEF HostOK, AgentOK, CycleOK, InventoryBody, Association
  <2>8. \A p \in Processes : p \in ids' => table'[p].exists
    BY <2>1, <2>2, <2>3, ReconcileRows DEF ReferencesKnown, Resources
  <2>9. \A p \in Processes : told'[p] # Gone => table'[p].exists
    <3>. SUFFICES ASSUME NEW p \in Processes, told'[p] # Gone PROVE table'[p].exists
      OBVIOUS
    <3>1. CASE p \in ids'
      BY <2>8, <3>1
    <3>2. CASE p \notin ids'
      <4>1. told[p] # Gone
        BY <2>1, <3>2
      <4>. QED
        BY <2>1, <2>2, <2>3, <4>1, ReconcileRows DEF ReferencesKnown, Resources
    <3>. QED
      BY <3>1, <3>2
  <2>. QED
    BY <2>6, <2>7, <2>8, <2>9 DEF ReferencesKnown
<1>r. cycle.pc = "put" => Request \in RequestState
  <2>1. cycle.inventory \in InventoryBody /\ cycle.age \in 0..MaxDelay
    BY <1>a DEF AgentOK, CycleState
  <2>. QED
    BY <2>1 DEF Request, RequestState
<1>4. CASE InventoryFails
  <2>1. late' \subseteq RequestState
    BY <1>4, <1>r DEF InventoryFails, AgentOK
  <2>2. cycle' = NextCycle /\ UNCHANGED <<life, service, config, assoc, ids, told, table, links, fresh>>
    BY <1>4 DEF InventoryFails
  <2>. QED
    BY <1>n, <2>1, <2>2 DEF HostOK, AgentOK, ServerOK, CycleOK, LeaseKept, LeaseRuns, ReferencesKnown
<1>5. CASE LateInventory
  <2>1. PICK m \in late : Reconcile(m.inventory, m.age) /\ late' = late \ {m}
    BY <1>5 DEF LateInventory
  <2>2. m.inventory \in InventoryBody /\ m.age \in 0..MaxDelay
    BY DEF AgentOK, RequestState
  <2>3. UNCHANGED <<life, service, config, assoc, ids, cycle, told, fresh>>
    BY <1>5 DEF LateInventory
  <2>4. ServerOK' /\ LeaseKept'
    BY <2>1, <2>2, <2>3, ReconcileKeeps DEF ServerOK
  <2>5. ReferencesKnown'
    BY <2>1, <2>2, <2>3, ReconcileRows DEF ReferencesKnown, Resources
  <2>. QED
    BY <2>1, <2>3, <2>4, <2>5 DEF HostOK, AgentOK, CycleOK
<1>6. CASE Sweep
  <2>1. /\ table' = [r \in Resources |-> [table[r] EXCEPT !.active = @ /\ ~(table[r].lease < 0)]]
        /\ UNCHANGED <<life, service, config, assoc, ids, cycle, told, links, late, fresh>>
    BY <1>6 DEF Sweep
  <2>2. ASSUME NEW r \in Resources
        PROVE  /\ table[r] \in Row /\ table'[r] \in Row /\ table'[r].lease = table[r].lease
               /\ table'[r].exists = table[r].exists
               /\ table[r].active /\ ~(table[r].lease < 0) => table'[r].active
    BY <2>1 DEF ServerOK, Row
  <2>3. ServerOK'
    BY <2>1, <2>2 DEF ServerOK
  <2>4. ASSUME NEW r \in Resources, LeaseRuns(r)
        PROVE  table'[r].active /\ table'[r].lease >= Lease + Skew - MaxDelay - fresh[r]
    <3>1. table[r].active /\ table[r].lease >= Lease + Skew - MaxDelay - fresh[r]
      BY <2>4 DEF LeaseKept
    <3>2. table[r].lease \in Int /\ fresh[r] \in Nat
      BY <1>a, <2>2 DEF Row, ServerOK
    <3>3. ~(table[r].lease < 0)
      BY <1>a, <2>4, <3>1, <3>2 DEF LeaseRuns
    <3>. QED
      BY <2>2, <3>1, <3>3
  <2>5. LeaseKept'
    BY <2>1, <2>4 DEF LeaseKept, LeaseRuns
  <2>6. ReferencesKnown'
    BY <2>1, <2>2 DEF ReferencesKnown, Resources
  <2>. QED
    BY <2>1, <2>3, <2>5, <2>6 DEF HostOK, AgentOK, CycleOK
<1>7. CASE Tick
  <2>1. /\ cycle.pc \in {"idle", "down"} \/ (cycle.pc = "put" /\ cycle.age < Timeout)
        /\ \A m \in late : m.age < MaxDelay
        /\ late' = {[m EXCEPT !.age = @ + 1] : m \in late}
        /\ table' = [r \in Resources |-> [table[r] EXCEPT !.lease = IF @ > LeaseFloor THEN @ - 1 ELSE @]]
        /\ fresh' = [r \in Resources |-> IF fresh[r] < Stale THEN fresh[r] + 1 ELSE Stale]
        /\ cycle' = IF cycle.pc = "put" THEN [cycle EXCEPT !.age = @ + 1]
                    ELSE [cycle EXCEPT !.pc = IF @ = "idle" THEN "due" ELSE @]
        /\ UNCHANGED <<life, service, config, assoc, ids, told, links>>
    BY <1>7 DEF Tick
  <2>2. late' \subseteq RequestState
    <3>1. ASSUME NEW m \in late PROVE [m EXCEPT !.age = @ + 1] \in RequestState
      <4>1. m \in RequestState /\ m.age \in 0..MaxDelay /\ m.age < MaxDelay
        BY <2>1 DEF AgentOK, RequestState
      <4>2. m.age + 1 \in 0..MaxDelay
        BY <1>a, <4>1
      <4>. QED
        BY <4>1, <4>2 DEF RequestState
    <3>. QED
      BY <2>1, <3>1
  <2>3. cycle' \in CycleState /\ cycle'.inventory = cycle.inventory /\ (cycle'.pc = "put" => cycle.pc = "put")
    <3>1. cycle \in CycleState /\ cycle.age \in 0..Timeout
      BY DEF AgentOK, CycleState
    <3>2. CASE cycle.pc = "put"
      <4>1. cycle.age + 1 \in 0..Timeout
        BY <1>a, <2>1, <3>1, <3>2
      <4>. QED
        BY <2>1, <3>1, <3>2, <4>1 DEF CycleState
    <3>3. CASE cycle.pc # "put"
      BY <2>1, <3>1, <3>3 DEF CycleState
    <3>. QED
      BY <3>2, <3>3
  <2>4. ASSUME NEW r \in Resources
        PROVE  /\ table[r].lease \in Int /\ table'[r] \in Row /\ table'[r].lease >= table[r].lease - 1
               /\ table'[r].active = table[r].active /\ table'[r].exists = table[r].exists
    <3>1. table[r] \in Row /\ LeaseFloor \in Int
      BY <1>a DEF ServerOK, LeaseFloor
    <3>2. table'[r] = [table[r] EXCEPT !.lease = IF @ > LeaseFloor THEN @ - 1 ELSE @]
      BY <2>1
    <3>3. PICK n \in Int : n = (IF table[r].lease > LeaseFloor THEN table[r].lease - 1 ELSE table[r].lease)
      BY <3>1 DEF Row
    <3>4. n >= table[r].lease - 1 /\ table[r].lease \in Int
      BY <3>1, <3>3 DEF Row
    <3>5. table'[r] = [table[r] EXCEPT !.lease = n]
      BY <3>2, <3>3
    <3>. QED
      BY <3>1, <3>4, <3>5 DEF Row
  <2>5. ASSUME NEW r \in Resources
        PROVE  fresh[r] \in Nat /\ fresh'[r] \in 0..Stale /\ (fresh'[r] = fresh[r] + 1 \/ fresh'[r] = Stale)
    <3>1. fresh[r] \in 0..Stale
      BY DEF ServerOK
    <3>. QED
      BY <1>a, <2>1, <3>1
  <2>6. ServerOK'
    BY <2>1, <2>4, <2>5 DEF ServerOK
  <2>7. ASSUME NEW r \in Resources, LeaseRuns(r)'
        PROVE  table'[r].active /\ table'[r].lease >= Lease + Skew - MaxDelay - fresh'[r]
    <3>1. fresh'[r] = fresh[r] + 1 /\ fresh[r] \in Nat
      BY <1>a, <2>5, <2>7 DEF LeaseRuns
    <3>2. LeaseRuns(r)
      BY <1>a, <2>7, <3>1 DEF LeaseRuns
    <3>3. table[r].active /\ table[r].lease >= Lease + Skew - MaxDelay - fresh[r]
      BY <3>2 DEF LeaseKept
    <3>4. table'[r].lease \in Int
      BY <2>4 DEF Row
    <3>. QED
      BY <1>a, <2>4, <3>1, <3>3, <3>4
  <2>8. LeaseKept'
    BY <2>7 DEF LeaseKept
  <2>9. ReferencesKnown'
    BY <2>1, <2>4 DEF ReferencesKnown, Resources
  <2>. QED
    BY <2>1, <2>2, <2>3, <2>6, <2>8, <2>9 DEF HostOK, AgentOK, CycleOK
<1>8. CASE Crash
  <2>1. late' \subseteq RequestState
    BY <1>8, <1>r DEF Crash, AgentOK
  <2>2. cycle' \in CycleState /\ cycle'.pc # "put"
    BY <1>8, RestingOK DEF Crash, Resting, CycleState
  <2>3. assoc' = NoInventory.processes /\ ids' = {} /\ UNCHANGED <<life, service, config, told, table, links, fresh>>
    BY <1>8 DEF Crash
  <2>4. assoc' \in Association
    BY <2>3, RestingOK DEF InventoryBody
  <2>. QED
    BY <2>1, <2>2, <2>3, <2>4 DEF HostOK, AgentOK, ServerOK, CycleOK, LeaseKept, LeaseRuns, ReferencesKnown
<1>9. CASE Restart
  <2>1. cycle' \in CycleState /\ cycle'.pc # "put" /\ config' \in Configuration
    BY <1>9, RestingOK DEF Restart, Resting, Configuration
  <2>2. UNCHANGED <<life, service, assoc, ids, told, table, links, late, fresh>>
    BY <1>9 DEF Restart
  <2>. QED
    BY <2>1, <2>2 DEF HostOK, AgentOK, ServerOK, CycleOK, LeaseKept, LeaseRuns, ReferencesKnown
<1>10. CASE UNCHANGED vars
  BY <1>10 DEF vars, HostOK, AgentOK, ServerOK, CycleOK, LeaseKept, LeaseRuns, ReferencesKnown
<1>. QED
  BY <1>1, <1>2, <1>3, <1>4, <1>5, <1>6, <1>7, <1>8, <1>9, <1>10 DEF Next

LEMMA InvInvariant == Spec => []InvInv
<1>1. Init => InvInv
  <2>. SUFFICES ASSUME Init PROVE InvInv
    OBVIOUS
  <2>a. Lease \in Nat /\ MaxDelay \in Nat /\ Stale \in 0..Stale
    BY InventoryAssumption DEF Stale
  <2>1. NoInventory.processes \in Association /\ \A p \in Processes : NoInventory.processes[p] = Gone
    BY DEF NoInventory, Association
  <2>2. NoRow \in Row
    BY DEF NoRow, Row
  <2>3. HostOK /\ CycleOK
    BY DEF Init, HostOK, Configuration, CycleOK, Resting
  <2>4. AgentOK
    BY <2>1, RestingOK DEF Init, AgentOK
  <2>5. ServerOK
    BY <2>a, <2>2 DEF Init, ServerOK
  <2>6. \A r \in Resources : ~LeaseRuns(r)
    BY <2>a DEF Init, LeaseRuns, Stale
  <2>7. LeaseKept /\ ReferencesKnown
    BY <2>1, <2>6 DEF Init, LeaseKept, ReferencesKnown
  <2>. QED
    BY <2>3, <2>4, <2>5, <2>7 DEF InvInv
<1>2. InvInv /\ [Next]_vars => InvInv'
  BY InvStep
<1>. QED
  BY <1>1, <1>2, PTL DEF Spec

-----------------------------------------------------------------------------
(* The theorems.                                                           *)

\* Agent.discover, the inventory on its way and the rows of the server are
\* well typed.
THEOREM TypeCorrect == Spec => []TypeOK
<1>1. InvInv => TypeOK
  <2>. SUFFICES ASSUME InvInv PROVE TypeOK
    OBVIOUS
  <2>1. /\ cycle.pc \in {"due", "put", "idle", "down"} /\ cycle.inventory \in InventoryBody
        /\ cycle.changed \subseteq Processes /\ cycle.age \in 0..Timeout
    BY DEF InvInv, AgentOK, CycleState
  <2>2. \A m \in late : m.inventory \in InventoryBody /\ m.age \in 0..MaxDelay
    BY DEF InvInv, AgentOK, RequestState
  <2>. QED
    BY <2>1, <2>2 DEF InvInv, HostOK, AgentOK, ServerOK, TypeOK, Row
<1>. QED
  BY <1>1, InvInvariant, PTL

\* Neither reconcile_inventory, with whatever request at whatever delay, nor
\* the sweep of rollup_once takes a resource down while its lease runs.
THEOREM ActiveWhileLeased == Spec => []ActiveDuringLease
<1>1. InvInv => ActiveDuringLease
  BY DEF InvInv, LeaseKept, ActiveDuringLease
<1>. QED
  BY <1>1, InvInvariant, PTL

\* Every process the agent has an id of, or spoke of in a lifecycle event, has
\* a row: reconcile_inventory creates it before discover() learns the id.
THEOREM ReferencesAlwaysKnown == Spec => []ReferencesKnown
<1>1. InvInv => ReferencesKnown
  BY DEF InvInv
<1>. QED
  BY <1>1, InvInvariant, PTL

\* A lifecycle event of discover() states the association reconcile() holds.
THEOREM EventsAreCurrent == Spec => EventsCurrent
<1>1. InvInv /\ [Next]_vars => [\A p \in Processes : told'[p] # told[p] => told'[p] = assoc'[p]]_vars
  <2>. SUFFICES ASSUME InvInv, Next, NEW p \in Processes, told'[p] # told[p] PROVE told'[p] = assoc'[p]
    OBVIOUS
  <2>1. InventoryAnswered
    BY DEF Next, HostChanges, Discover, InventoryFails, LateInventory, Sweep, Tick, Crash, Restart, agentVars
  <2>2. told'[p] = cycle.inventory.processes[p] /\ assoc' = assoc /\ cycle.pc = "put"
    BY <2>1 DEF InventoryAnswered
  <2>. QED
    BY <2>2 DEF InvInv, CycleOK
<1>. QED
  BY <1>1, InvInvariant, PTL DEF Spec, EventsCurrent
=============================================================================
