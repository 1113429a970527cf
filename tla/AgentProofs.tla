---------------------------- MODULE AgentProofs ----------------------------
(***************************************************************************)
(* Proofs about Registration and Agent, for any number of faults and of    *)
(* incarnations of the PID.                                                *)
(***************************************************************************)
EXTENDS Agent, SequenceTheorems, FiniteSetTheorems, TLAPS

-----------------------------------------------------------------------------
(* Registration.                                                           *)

\* Every installation id in use is the one in the state table: requests in
\* flight carry it, and the agent has saved it before it asks.
SavedFirst ==
    /\ disk.installation # NoId /\ config.installation # NoId
          => disk.installation = config.installation
    /\ agent.pc # "down" =>
          /\ agent.installation # NoId
          /\ disk.installation # NoId => agent.installation = disk.installation
          /\ config.installation # NoId => agent.installation = config.installation
    /\ agent.pc \notin {"down", "installation"} => disk.installation = agent.installation
    /\ \A r \in requests : /\ r.installation = disk.installation
                           /\ r.installation # NoId
                           /\ r.live => agent.pc = "register"

\* The installation was registered by hand: no request was ever sent.
ByHand ==
    /\ config.credential # NoCredential
    /\ DOMAIN hosts = {config.credential[1]}
    /\ disk.credential = NoCredential
    /\ requests = {}
    /\ agent.pc \in {"down", "installation", "up"}
    /\ agent.pc # "down" => agent.credential # NoCredential

\* The server knows no other installation than the one that is saved.
OneHost == DOMAIN hosts \subseteq {disk.installation} \ {NoId} \/ ByHand

\* A credential was issued by the server and is at most as new as its last.
Issued(c) == c # NoCredential => c[1] \in DOMAIN hosts /\ c[2] <= hosts[c[1]]

\* Where a credential comes from and which identity goes with it.
CredentialsIssued ==
    /\ Issued(agent.credential) /\ Issued(disk.credential) /\ Issued(config.credential)
    /\ agent.pc \in {"installation", "register", "credential"} /\ disk.credential # NoCredential
          => agent.credential = disk.credential /\ agent.pc = "installation"
    /\ agent.pc = "register" => agent.credential = NoCredential
    /\ agent.pc \in {"credential", "identity"} => agent.credential[1] = agent.installation
    /\ agent.pc = "identity" => agent.credential = disk.credential
    /\ agent.host # NoId => agent.host = agent.credential[1]
    /\ disk.identity # NoId => disk.identity = disk.credential[1]

\* A credential version counts rotations, each of which is a fault.
VersionsBounded ==
    /\ faults \in 0..MaxFaults
    /\ ids \in Nat \ {0}
    /\ hosts \in [DOMAIN hosts -> Nat]
    /\ \A i \in DOMAIN hosts : hosts[i] <= faults + 1

RegInv == RegTypeOK /\ SavedFirst /\ OneHost /\ CredentialsIssued /\ VersionsBounded

\* The initial states: nothing registered, or one installation by hand.
LEMMA RegInitInv == RegInit => RegInv
<1>. SUFFICES ASSUME RegInit PROVE RegInv
  OBVIOUS
<1>. USE DEF NoId, Configured, NoCredential, Down
<1>1. faults = 0 /\ ids = 1 /\ requests = {} /\ MaxFaults \in Nat
  BY RegistrationAssumption DEF RegInit
<1>2. /\ disk = [installation |-> 0, credential |-> <<0, 0>>, identity |-> 0]
      /\ agent = [pc |-> "down", installation |-> 0, credential |-> <<0, 0>>, host |-> 0]
  BY DEF RegInit
<1>3. \/ /\ DOMAIN hosts = {} /\ hosts \in [{} -> Nat]
         /\ config.installation \in {0, 1} /\ config.credential = <<0, 0>>
      \/ /\ DOMAIN hosts = {1} /\ hosts \in [{1} -> Nat] /\ hosts[1] = 1
         /\ config.installation = 0 /\ config.credential = <<1, 1>>
  <2>1. CASE config \in [installation : {0, 1}, credential : {<<0, 0>>}] /\ hosts = [i \in {} |-> 1]
    <3>1. config.installation \in {0, 1} /\ config.credential = <<0, 0>>
      BY <2>1
    <3>. QED
      BY <2>1, <3>1
  <2>2. CASE /\ config \in [installation : {0}, credential : {<<1, 1>>}]
             /\ hosts = [i \in {1} |-> 1]
    <3>1. config.installation = 0 /\ config.credential = <<1, 1>>
      BY <2>2
    <3>. QED
      BY <2>2, <3>1
  <2>. QED
    BY <2>1, <2>2 DEF RegInit
<1>4. config \in [installation : {0, 1}, credential : {<<0, 0>>, <<1, 1>>}]
  BY DEF RegInit
<1>5. RegTypeOK
  BY <1>1, <1>2, <1>3, <1>4 DEF RegTypeOK, Ids, Credentials
<1>6. SavedFirst
  BY <1>1, <1>2 DEF SavedFirst
<1>8. OneHost /\ CredentialsIssued
  <2>1. <<1, 1>>[1] = 1 /\ <<1, 1>>[2] = 1 /\ <<1, 1>> # <<0, 0>>
    OBVIOUS
  <2>2. disk.credential = <<0, 0>> /\ agent.credential = <<0, 0>> /\ agent.pc = "down"
        /\ agent.host = 0 /\ disk.identity = 0
    BY <1>2
  <2>3. OneHost
    BY <1>1, <1>3, <2>1, <2>2 DEF OneHost, ByHand
  <2>4. Issued(config.credential)
    BY <1>3, <2>1 DEF Issued
  <2>. QED
    BY <2>2, <2>3, <2>4 DEF CredentialsIssued, Issued
<1>7. VersionsBounded
  BY <1>1, <1>3 DEF VersionsBounded
<1>. QED
  BY <1>5, <1>6, <1>7, <1>8 DEF RegInv

\* Every step of initialize(), of the register handler and of an operator
\* preserves it, whatever fails and whenever the process dies.
LEMMA RegStepInv ==
    ASSUME RegInv, [Enrolling \/ Crash \/ FaultOnly]_regVars
    PROVE  RegInv'
<1>. USE RegistrationAssumption DEF NoId, NoCredential, Down
<1>. USE DEF RegInv
<1>1. CASE Start
  <2>1. RegTypeOK'
    BY <1>1 DEF Start, InstallationId, RegTypeOK, VersionsBounded, Ids, Credentials
  <2>2. SavedFirst'
    <3>1. /\ InstallationId \in Nat \ {0}
          /\ config.installation # 0 => InstallationId = config.installation
          /\ disk.installation # 0 => InstallationId = disk.installation
      BY DEF InstallationId, RegTypeOK, SavedFirst, VersionsBounded, Ids
    <3>2. /\ agent'.pc = "installation" /\ agent'.installation = InstallationId
          /\ disk' = disk /\ config' = config /\ requests' = requests /\ agent.pc = "down"
      BY <1>1 DEF Start
    <3>. QED
      BY <3>1, <3>2 DEF SavedFirst
  <2>3. OneHost'
    BY <1>1 DEF Start, InstallationId, RegTypeOK, SavedFirst, OneHost, ByHand
  <2>4. CredentialsIssued'
    BY <1>1 DEF Start, InstallationId, RegTypeOK, SavedFirst, CredentialsIssued, Issued
  <2>5. VersionsBounded'
    <3>1. InstallationId \in Nat \ {0}
      BY DEF InstallationId, RegTypeOK, VersionsBounded, Ids
    <3>. QED
      BY <1>1, <3>1 DEF Start, VersionsBounded
  <2>. QED
    BY <2>1, <2>2, <2>3, <2>4, <2>5
<1>2. CASE SaveInstallation
  <2>1. RegTypeOK'
    <3>1. /\ disk' = [disk EXCEPT !.installation = agent.installation]
          /\ config' = config /\ hosts' = hosts /\ ids' = ids
      BY <1>2 DEF SaveInstallation
    <3>2. /\ agent' \in {[agent EXCEPT !.pc = "up"], [agent EXCEPT !.pc = "register"]}
          /\ requests' \in {requests, requests \cup {[installation |-> agent.installation, live |-> TRUE]}}
      BY <1>2 DEF SaveInstallation, Proceeds
    <3>3. agent' \in [pc : {"down", "installation", "register", "credential", "identity", "up"},
                      installation : Ids, credential : Credentials, host : Ids]
      BY <3>2 DEF RegTypeOK
    <3>4. [installation |-> agent.installation, live |-> TRUE] \in [installation : Ids, live : BOOLEAN]
      BY DEF RegTypeOK
    <3>5. requests' \subseteq [installation : Ids, live : BOOLEAN]
      BY <3>2, <3>4 DEF RegTypeOK
    <3>6. disk' \in [installation : Ids, credential : Credentials, identity : Ids]
      BY <3>1 DEF RegTypeOK
    <3>. QED
      BY <3>1, <3>3, <3>5, <3>6 DEF RegTypeOK, Ids, Credentials
  <2>2. SavedFirst'
    BY <1>2 DEF SaveInstallation, Proceeds, RegTypeOK, SavedFirst
  <2>3. OneHost'
    BY <1>2 DEF SaveInstallation, Proceeds, RegTypeOK, SavedFirst, OneHost, ByHand
  <2>4. CredentialsIssued'
    BY <1>2 DEF SaveInstallation, Proceeds, RegTypeOK, SavedFirst, CredentialsIssued, Issued
  <2>5. VersionsBounded'
    BY <1>2 DEF SaveInstallation, Proceeds, RegTypeOK, VersionsBounded, CredentialsIssued, Issued
  <2>. QED
    BY <2>1, <2>2, <2>3, <2>4, <2>5
<1>3. CASE Register
  <2>. PICK r \in requests :
          /\ requests' = requests \ {r}
          /\ IF r.installation \in DOMAIN hosts
             THEN hosts' = hosts /\ agent' = IF r.live THEN Down ELSE agent
             ELSE /\ hosts' = [i \in DOMAIN hosts \cup {r.installation} |->
                                 IF i = r.installation THEN 1 ELSE hosts[i]]
                  /\ agent' = IF ~r.live THEN agent
                              ELSE [agent EXCEPT !.pc = "credential", !.credential = <<r.installation, 1>>]
    BY <1>3 DEF Register
  <2>1. UNCHANGED <<config, disk, ids, faults>>
    BY <1>3 DEF Register
  <2>2. /\ r \in [installation : Ids, live : BOOLEAN]
        /\ r.installation = disk.installation /\ r.installation \in Ids \ {0}
        /\ r.live => agent.pc = "register" /\ agent.installation = disk.installation
        /\ ~ByHand
    BY DEF RegTypeOK, SavedFirst, ByHand, Ids
  <2>3. 0 \in Ids /\ <<0, 0>> \in Credentials /\ <<r.installation, 1>> \in Credentials
    BY <2>2 DEF VersionsBounded, Ids, Credentials
  <2>4. <<r.installation, 1>>[1] = r.installation /\ <<r.installation, 1>>[2] = 1
    OBVIOUS
  <2>5. /\ agent' \in {agent, Down, [agent EXCEPT !.pc = "credential", !.credential = <<r.installation, 1>>]}
        /\ agent' \in [pc : {"down", "installation", "register", "credential", "identity", "up"},
                      installation : Ids, credential : Credentials, host : Ids]
    <3>1. agent' \in {agent, Down, [agent EXCEPT !.pc = "credential", !.credential = <<r.installation, 1>>]}
      OBVIOUS
    <3>2. CASE agent' = [agent EXCEPT !.pc = "credential", !.credential = <<r.installation, 1>>]
      BY <2>3, <3>2 DEF RegTypeOK
    <3>3. CASE agent' = Down
      BY <2>3, <3>3
    <3>. QED
      BY <3>1, <3>2, <3>3 DEF RegTypeOK
  <2>6. /\ DOMAIN hosts' = DOMAIN hosts \cup {r.installation}
        /\ \A i \in DOMAIN hosts : hosts'[i] = hosts[i]
        /\ r.installation \notin DOMAIN hosts => hosts'[r.installation] = 1
    OBVIOUS
  <2>7. RegTypeOK'
    <3>1. \A i \in DOMAIN hosts' : hosts'[i] \in 1..(MaxFaults + 1)
      BY <2>6 DEF RegTypeOK
    <3>2. DOMAIN hosts' \subseteq Ids \ {0}
      BY <2>2, <2>6 DEF RegTypeOK
    <3>. QED
      BY <2>1, <2>5, <3>1, <3>2 DEF RegTypeOK, Ids, Credentials
  <2>8. SavedFirst'
    <3>1. ~r.live => agent' = agent
      OBVIOUS
    <3>2. r.live => \/ agent'.pc = "down"
                    \/ agent'.pc = "credential" /\ agent'.installation = agent.installation
      <4>1. r.live => agent' = Down \/ agent' = [agent EXCEPT !.pc = "credential", !.credential = <<r.installation, 1>>]
        OBVIOUS
      <4>2. Down.pc = "down"
        OBVIOUS
      <4>. QED
        BY <4>1, <4>2 DEF RegTypeOK
    <3>3. ASSUME r.live, NEW q \in requests, q # r PROVE ~q.live
      <4>1. q \in [installation : Ids, live : BOOLEAN] /\ q.installation = r.installation
        BY <2>2 DEF RegTypeOK, SavedFirst
      <4>2. \A x, y \in [installation : Ids, live : BOOLEAN] :
               x.installation = y.installation /\ x.live = y.live => x = y
        OBVIOUS
      <4>. QED
        BY <2>2, <3>3, <4>1, <4>2
    <3>4. CASE r.live
      BY <2>1, <2>2, <3>2, <3>3, <3>4 DEF SavedFirst
    <3>. QED
      BY <2>1, <2>2, <3>1, <3>4 DEF SavedFirst
  <2>9. OneHost'
    BY <2>1, <2>2, <2>6 DEF OneHost
  <2>10. CredentialsIssued'
    <3>1. \A c : Issued(c) => Issued(c)'
      BY <2>1, <2>6 DEF Issued, RegTypeOK
    <3>2. Issued(disk.credential)' /\ Issued(config.credential)' /\ Issued(agent.credential)
      BY <2>1, <3>1 DEF CredentialsIssued
    <3>3. CASE agent' = agent
      BY <2>1, <3>1, <3>2, <3>3 DEF CredentialsIssued
    <3>4. CASE agent' = Down
      BY <2>1, <3>2, <3>4 DEF CredentialsIssued, Issued
    <3>5. CASE r.live /\ r.installation \notin DOMAIN hosts
      <4>1. /\ agent'.pc = "credential" /\ agent'.installation = agent.installation
            /\ agent'.credential = <<r.installation, 1>> /\ agent'.host = agent.host
        BY <3>5 DEF RegTypeOK
      <4>2. agent.host = 0 /\ disk.credential = <<0, 0>>
        <5>1. <<0, 0>>[1] = 0
          OBVIOUS
        <5>. QED
          BY <2>2, <3>5, <5>1 DEF CredentialsIssued
      <4>3. Issued(agent.credential)'
        BY <2>4, <2>6, <3>5, <4>1 DEF Issued
      <4>. QED
        BY <2>1, <2>2, <2>4, <3>2, <4>1, <4>2, <4>3 DEF CredentialsIssued
    <3>. QED
      BY <3>3, <3>4, <3>5
  <2>11. VersionsBounded'
    BY <2>1, <2>6 DEF VersionsBounded
  <2>. QED
    BY <2>7, <2>8, <2>9, <2>10, <2>11
<1>4. CASE RegistrationFails
  <2>1. RegTypeOK'
    <3>1. agent' = Down /\ UNCHANGED <<config, disk, hosts, ids>>
      BY <1>4 DEF RegistrationFails
    <3>2. \A r \in requests : [r EXCEPT !.live = FALSE] \in [installation : Ids, live : BOOLEAN]
      BY DEF RegTypeOK
    <3>3. requests' \subseteq [installation : Ids, live : BOOLEAN]
      BY <1>4, <3>2 DEF RegistrationFails, Abandon, Orphaned, RegTypeOK
    <3>4. 0 \in Ids /\ <<0, 0>> \in Credentials
      BY DEF VersionsBounded, Ids, Credentials
    <3>. QED
      BY <3>1, <3>3, <3>4 DEF RegTypeOK, Ids, Credentials
  <2>2. SavedFirst'
    BY <1>4 DEF RegistrationFails, Abandon, Orphaned, Fault, RegTypeOK, SavedFirst
  <2>3. OneHost'
    BY <1>4 DEF RegistrationFails, Abandon, Orphaned, Fault, RegTypeOK, SavedFirst, OneHost, ByHand
  <2>4. CredentialsIssued'
    BY <1>4 DEF RegistrationFails, Abandon, Orphaned, Fault, RegTypeOK, SavedFirst, CredentialsIssued, Issued
  <2>5. VersionsBounded'
    BY <1>4 DEF RegistrationFails, Abandon, Orphaned, Fault, RegTypeOK, VersionsBounded, CredentialsIssued, Issued
  <2>. QED
    BY <2>1, <2>2, <2>3, <2>4, <2>5
<1>5. CASE SaveCredential
  <2>1. RegTypeOK'
    BY <1>5 DEF SaveCredential, RegTypeOK, VersionsBounded, Ids, Credentials
  <2>2. SavedFirst'
    BY <1>5 DEF SaveCredential, RegTypeOK, SavedFirst
  <2>3. OneHost'
    BY <1>5 DEF SaveCredential, RegTypeOK, SavedFirst, OneHost, ByHand
  <2>4. CredentialsIssued'
    BY <1>5 DEF SaveCredential, RegTypeOK, SavedFirst, CredentialsIssued, Issued
  <2>5. VersionsBounded'
    BY <1>5 DEF SaveCredential, RegTypeOK, VersionsBounded, CredentialsIssued, Issued
  <2>. QED
    BY <2>1, <2>2, <2>3, <2>4, <2>5
<1>6. CASE SaveIdentity
  <2>1. RegTypeOK'
    BY <1>6 DEF SaveIdentity, RegTypeOK, VersionsBounded, Ids, Credentials
  <2>2. SavedFirst'
    BY <1>6 DEF SaveIdentity, RegTypeOK, SavedFirst
  <2>3. OneHost'
    BY <1>6 DEF SaveIdentity, RegTypeOK, SavedFirst, OneHost, ByHand
  <2>4. CredentialsIssued'
    BY <1>6 DEF SaveIdentity, RegTypeOK, SavedFirst, CredentialsIssued, Issued
  <2>5. VersionsBounded'
    BY <1>6 DEF SaveIdentity, RegTypeOK, VersionsBounded, CredentialsIssued, Issued
  <2>. QED
    BY <2>1, <2>2, <2>3, <2>4, <2>5
<1>7. CASE WriteFails
  <2>1. RegTypeOK'
    BY <1>7 DEF WriteFails, Fault, RegTypeOK, VersionsBounded, Ids, Credentials
  <2>2. SavedFirst'
    BY <1>7 DEF WriteFails, Fault, RegTypeOK, SavedFirst
  <2>3. OneHost'
    BY <1>7 DEF WriteFails, Fault, RegTypeOK, SavedFirst, OneHost, ByHand
  <2>4. CredentialsIssued'
    BY <1>7 DEF WriteFails, Fault, RegTypeOK, SavedFirst, CredentialsIssued, Issued
  <2>5. VersionsBounded'
    BY <1>7 DEF WriteFails, Fault, RegTypeOK, VersionsBounded, CredentialsIssued, Issued
  <2>. QED
    BY <2>1, <2>2, <2>3, <2>4, <2>5
<1>8. CASE RotateCredential
  <2>. PICK c \in {disk.credential, config.credential} :
          /\ Valid(c)
          /\ hosts' = [hosts EXCEPT ![c[1]] = @ + 1]
          /\ config' \in {config, [config EXCEPT !.credential = <<c[1], c[2] + 1>>]}
    BY <1>8 DEF RotateCredential
  <2>6. <<c[1], c[2] + 1>>[1] = c[1] /\ <<c[1], c[2] + 1>>[2] = c[2] + 1
    OBVIOUS
  <2>7. c[1] \in Nat \ {0} /\ c[2] \in Nat /\ hosts'[c[1]] = c[2] + 1 /\ c[1] \in DOMAIN hosts
    BY DEF Valid, RegTypeOK, VersionsBounded, Ids
  <2>8. <<c[1], c[2] + 1>> # <<0, 0>>
    BY <2>6, <2>7
  <2>9. \/ config'.credential = config.credential
        \/ config'.credential = <<c[1], c[2] + 1>>
    BY DEF RegTypeOK
  <2>1. RegTypeOK'
    BY <1>8 DEF RotateCredential, Fault, Valid, RegTypeOK, VersionsBounded, Ids, Credentials
  <2>2. SavedFirst'
    BY <1>8 DEF RotateCredential, Fault, Valid, RegTypeOK, SavedFirst
  <2>3. OneHost'
    <3>1. UNCHANGED <<disk, agent, requests>> /\ DOMAIN hosts' = DOMAIN hosts
      BY <1>8 DEF RotateCredential
    <3>2. CASE DOMAIN hosts \subseteq {disk.installation} \ {0}
      BY <3>1, <3>2 DEF OneHost
    <3>3. CASE ByHand
      <4>1. config'.credential # <<0, 0>> /\ DOMAIN hosts = {config'.credential[1]}
        BY <2>6, <2>7, <2>8, <2>9, <3>3 DEF ByHand
      <4>. QED
        BY <3>1, <3>3, <4>1 DEF OneHost, ByHand
    <3>. QED
      BY <3>2, <3>3 DEF OneHost
  <2>4. CredentialsIssued'
    <3>1. /\ UNCHANGED <<disk, agent>> /\ DOMAIN hosts' = DOMAIN hosts
          /\ \A i \in DOMAIN hosts : hosts'[i] \in Int /\ hosts'[i] >= hosts[i]
      BY <1>8 DEF RotateCredential, VersionsBounded
    <3>2. \A d \in Credentials : Issued(d) => Issued(d)'
      BY <3>1 DEF Issued, Credentials, VersionsBounded, Ids
    <3>3. Issued(config.credential)'
      <4>1. CASE config'.credential = config.credential
        BY <3>2, <4>1 DEF CredentialsIssued, RegTypeOK, Issued
      <4>2. CASE config'.credential = <<c[1], c[2] + 1>>
        BY <2>6, <2>7, <3>1, <4>2 DEF Issued
      <4>. QED
        BY <2>9, <4>1, <4>2
    <3>. QED
      BY <3>1, <3>2, <3>3 DEF CredentialsIssued, RegTypeOK
  <2>5. VersionsBounded'
    BY <1>8 DEF RotateCredential, Fault, Valid, RegTypeOK, VersionsBounded, CredentialsIssued, Issued
  <2>. QED
    BY <2>1, <2>2, <2>3, <2>4, <2>5
<1>9. CASE Crash
  <2>1. RegTypeOK'
    <3>1. agent' = Down /\ UNCHANGED <<config, disk, hosts, ids>>
      BY <1>9 DEF Crash
    <3>2. \A r \in requests : [r EXCEPT !.live = FALSE] \in [installation : Ids, live : BOOLEAN]
      BY DEF RegTypeOK
    <3>3. requests' \subseteq [installation : Ids, live : BOOLEAN]
      BY <1>9, <3>2 DEF Crash, Abandon, Orphaned, RegTypeOK
    <3>4. 0 \in Ids /\ <<0, 0>> \in Credentials
      BY DEF VersionsBounded, Ids, Credentials
    <3>. QED
      BY <3>1, <3>3, <3>4 DEF RegTypeOK, Ids, Credentials
  <2>2. SavedFirst'
    BY <1>9 DEF Crash, Abandon, Orphaned, Fault, RegTypeOK, SavedFirst
  <2>3. OneHost'
    BY <1>9 DEF Crash, Abandon, Orphaned, Fault, RegTypeOK, SavedFirst, OneHost, ByHand
  <2>4. CredentialsIssued'
    BY <1>9 DEF Crash, Abandon, Orphaned, Fault, RegTypeOK, SavedFirst, CredentialsIssued, Issued
  <2>5. VersionsBounded'
    BY <1>9 DEF Crash, Abandon, Orphaned, Fault, RegTypeOK, VersionsBounded, CredentialsIssued, Issued
  <2>. QED
    BY <2>1, <2>2, <2>3, <2>4, <2>5
<1>10. CASE FaultOnly
  <2>1. RegTypeOK'
    BY <1>10 DEF FaultOnly, Fault, RegTypeOK, VersionsBounded, Ids, Credentials
  <2>2. SavedFirst'
    BY <1>10 DEF FaultOnly, Fault, RegTypeOK, SavedFirst
  <2>3. OneHost'
    BY <1>10 DEF FaultOnly, Fault, RegTypeOK, SavedFirst, OneHost, ByHand
  <2>4. CredentialsIssued'
    BY <1>10 DEF FaultOnly, Fault, RegTypeOK, SavedFirst, CredentialsIssued, Issued
  <2>5. VersionsBounded'
    BY <1>10 DEF FaultOnly, Fault, RegTypeOK, VersionsBounded, CredentialsIssued, Issued
  <2>. QED
    BY <2>1, <2>2, <2>3, <2>4, <2>5
<1>11. CASE UNCHANGED regVars
  BY <1>11 DEF regVars, RegTypeOK, SavedFirst, OneHost, ByHand, CredentialsIssued, Issued, VersionsBounded, Ids, Credentials
<1>. QED
  BY <1>1, <1>2, <1>3, <1>4, <1>5, <1>6, <1>7, <1>8, <1>9, <1>10, <1>11 DEF Enrolling

\* What the agent does besides initialize() leaves the registration as it is or
\* counts a fault.
LEMMA NextReg == [Next]_vars => [Enrolling \/ Crash \/ FaultOnly]_regVars
<1>. SUFFICES ASSUME [Next]_vars PROVE [Enrolling \/ Crash \/ FaultOnly]_regVars
  OBVIOUS
<1>1. CASE Enrols \/ Dies
  BY <1>1 DEF Enrols, Dies
<1>2. CASE HostChanges \/ Discover \/ CollectProcesses \/ Heartbeat \/ HeartbeatHandled
  BY <1>2 DEF HostChanges, Discover, CollectProcesses, Heartbeat, HeartbeatHandled
<1>3. ASSUME NEW l \in Loops, Reported(l) \/ ReportFails(l) PROVE UNCHANGED regVars \/ FaultOnly
  BY <1>3 DEF Reported, ReportFails, FaultOnly
<1>4. CASE DiscoverEnds \/ DiscoverFails \/ CollectFails \/ CollectEnds \/ HeartbeatFails
  BY <1>4 DEF DiscoverEnds, DiscoverFails, CollectFails, CollectEnds, HeartbeatFails, Refused
<1>5. CASE UNCHANGED vars
  BY <1>5 DEF vars
<1>. QED
  BY <1>1, <1>2, <1>3, <1>4, <1>5 DEF Next

\* The invariant of registration holds in every behaviour of the agent.
LEMMA RegInvariant == Spec => []RegInv
<1>1. Init => RegInv
  BY RegInitInv DEF Init
<1>2. RegInv /\ [Next]_vars => RegInv'
  BY RegStepInv, NextReg
<1>. QED
  BY <1>1, <1>2, PTL DEF Spec

\* However often initialize() dies or fails and is retried, the server has one
\* host for the agent, the identity goes with the credential, and the
\* credential is the server's or was rotated away.
THEOREM IdentityUnique == Spec => []OneIdentity
<1>1. RegInv => OneIdentity
  <2>. SUFFICES ASSUME RegInv PROVE OneIdentity
    OBVIOUS
  <2>1. Cardinality(DOMAIN hosts) <= 1
    <3>1. \E i : DOMAIN hosts \subseteq {i}
      BY DEF RegInv, OneHost, ByHand
    <3>2. PICK i : DOMAIN hosts \subseteq {i}
      BY <3>1
    <3>3. IsFiniteSet({i}) /\ Cardinality({i}) = 1
      BY FS_Singleton
    <3>. QED
      BY <3>2, <3>3, FS_Subset
  <2>2. agent.credential # NoCredential =>
           Valid(agent.credential) \/ hosts[agent.credential[1]] > agent.credential[2]
    BY DEF RegInv, CredentialsIssued, Issued, RegTypeOK, Credentials, Valid
  <2>. QED
    BY <2>1, <2>2 DEF OneIdentity, RegInv, CredentialsIssued
<1>. QED
  BY <1>1, RegInvariant, PTL

-----------------------------------------------------------------------------
(* The running agent.                                                      *)

Beat == [health : SUBSET Collectors, credential : Credentials, live : BOOLEAN, old : BOOLEAN]

\* The tasks, what they keep in memory and the host.
MemoryOK ==
    /\ process \in [incarnation : Incarnations, running : BOOLEAN]
    /\ task \in [Loops -> {"idle", "put", "emit", "wait", "report", "dead"}]
    /\ task["discovery"] \in {"idle", "put", "report", "dead"}
    /\ task["process"] \in {"idle", "emit", "report", "dead"}
    /\ task["heartbeat"] \in {"idle", "wait", "report", "dead"}
    /\ health \subseteq Collectors
    /\ processes \subseteq Incarnations /\ known \subseteq Incarnations
    /\ previous \in {0} \cup Incarnations
    /\ sample \in [entity : {0} \cup Incarnations, reading : {0} \cup Incarnations,
                   base : {0} \cup Incarnations]
    /\ shown \subseteq Collectors

\* Only the last heartbeat can be waited for, and it is while the loop waits;
\* no task is at work before the agent is up.
BeatsOK ==
    /\ beats \in Seq(Beat)
    /\ \A k \in 1..Len(beats) : beats[k].live <=> k = Len(beats) /\ At("heartbeat", "wait")
    /\ At("heartbeat", "wait") => beats # <<>>
    /\ Up \/ task = Idle

AgentInv == RegInv /\ MemoryOK /\ BeatsOK /\ SamplesUnmixed

\* A function on 1..n is a sequence of length n.
LEMMA FunctionIsSeq ==
    ASSUME NEW S, NEW n \in Nat, NEW f \in [1..n -> S]
    PROVE  f \in Seq(S) /\ Len(f) = n
  BY SeqDef

\* Memory: the tasks' positions, the caches and the samples keep their shape.
LEMMA MemoryStep ==
    ASSUME AgentInv, [Next]_vars
    PROVE  MemoryOK' /\ SamplesUnmixed'
<1>. USE AgentAssumption DEF AgentInv, MemoryOK, SamplesUnmixed, Loops, Collectors, Incarnations, NoSample, memoryVars
<1>1. CASE Enrols
  BY <1>1 DEF Enrols, beatVars
<1>2. CASE Dies
  BY <1>2 DEF Dies, Idle, beatVars
<1>3. CASE HostChanges
  <2>1. process' \in [incarnation : Incarnations, running : BOOLEAN]
    <3>1. CASE process.running
      BY <1>3, <3>1 DEF HostChanges
    <3>2. CASE ~process.running
      BY <1>3, <3>2 DEF HostChanges
    <3>. QED
      BY <3>1, <3>2
  <2>. QED
    BY <1>3, <2>1 DEF HostChanges, beatVars
<1>4. ASSUME NEW l \in Loops, Reported(l) \/ ReportFails(l) PROVE MemoryOK' /\ SamplesUnmixed'
  BY <1>4 DEF Reported, ReportFails, Moves, beatVars
<1>5. CASE Discover
  BY <1>5 DEF Discover, Moves, beatVars
<1>6. CASE DiscoverEnds
  BY <1>6 DEF DiscoverEnds, Returns, Raises, Moves, beatVars
<1>7. CASE DiscoverFails
  BY <1>7 DEF DiscoverFails, Raises, Moves, beatVars
<1>8. CASE CollectProcesses
  <2>1. CASE process.running /\ Sampled # {}
    <3>1. PICK i \in Sampled :
             /\ sample' = [entity |-> i, reading |-> process.incarnation,
                           base |-> IF previous = process.incarnation THEN previous ELSE 0]
             /\ previous' = process.incarnation
             /\ Moves("process", "emit") /\ health' = health
      BY <1>8, <2>1 DEF CollectProcesses
    <3>2. i = process.incarnation /\ i \in Incarnations
      BY DEF Sampled
    <3>3. UNCHANGED <<process, processes, known, shown>>
      BY <1>8 DEF CollectProcesses, beatVars
    <3>4. sample'.entity = sample'.reading /\ sample'.base \in {0, sample'.reading}
      BY <3>1, <3>2
    <3>5. sample' \in [entity : {0} \cup Incarnations, reading : {0} \cup Incarnations,
                       base : {0} \cup Incarnations]
      BY <3>1, <3>2
    <3>. QED
      BY <3>1, <3>2, <3>3, <3>4, <3>5 DEF Moves
  <2>2. CASE ~(process.running /\ Sampled # {})
    BY <1>8, <2>2 DEF CollectProcesses, Returns, Moves, beatVars
  <2>. QED
    BY <2>1, <2>2
<1>9. CASE CollectFails
  BY <1>9 DEF CollectFails, Raises, Moves, beatVars
<1>10. CASE CollectEnds
  BY <1>10 DEF CollectEnds, Returns, Raises, Moves, beatVars
<1>11. CASE Heartbeat
  BY <1>11 DEF Heartbeat, Moves, beatVars
<1>12. CASE HeartbeatHandled
  <2>1. PICK k \in 1..Len(beats) :
           /\ shown' = Shown(beats[k])
           /\ \/ task' = task /\ health' = health
              \/ Returns("heartbeat") \/ Raises("heartbeat")
    BY <1>12 DEF HeartbeatHandled, BeatsOK, Beat
  <2>2. beats[k].health \subseteq Collectors
    <3>1. beats[k] \in Beat
      BY DEF BeatsOK
    <3>. QED
      BY <3>1 DEF Beat
  <2>3. shown' \subseteq Collectors
    BY <2>1, <2>2 DEF Shown
  <2>. QED
    BY <1>12, <2>1, <2>3 DEF HeartbeatHandled, Returns, Raises, Moves
<1>13. CASE HeartbeatFails
  BY <1>13 DEF HeartbeatFails, Raises, Moves, beatVars
<1>14. CASE UNCHANGED vars
  BY <1>14 DEF vars, beatVars
<1>. QED
  BY <1>1, <1>2, <1>3, <1>4, <1>5, <1>6, <1>7, <1>8, <1>9, <1>10, <1>11, <1>12, <1>13, <1>14 DEF Next

\* A heartbeat that was stored or refused leaves the others in order, and the
\* last of them is waited for exactly if it was.
LEMMA HandledBeats ==
    ASSUME AgentInv, HeartbeatHandled
    PROVE  BeatsOK'
<1>. USE DEF AgentInv, BeatsOK
<1>1. PICK k \in 1..Len(beats) :
         /\ beats' = [j \in 1..(Len(beats) - 1) |->
                        IF j < k THEN [beats[j] EXCEPT !.old = @ \/ Valid(beats[k].credential)] ELSE beats[j + 1]]
         /\ \/ ~beats[k].live /\ task' = task
            \/ /\ beats[k].live
               /\ Moves("heartbeat", "idle") \/ Moves("heartbeat", "report")
  BY DEF HeartbeatHandled, Returns, Raises, Beat
<1>2. UNCHANGED regVars
  BY DEF HeartbeatHandled
<1>3. Len(beats) \in Nat \ {0} /\ \A j \in 1..Len(beats) : beats[j] \in Beat
  BY <1>1
<1>4. ASSUME NEW j \in 1..(Len(beats) - 1)
      PROVE  /\ beats'[j] \in Beat
             /\ beats'[j].live <=> beats[IF j < k THEN j ELSE j + 1].live
  <2>1. CASE j < k
    <3>1. \A b \in Beat : \A x \in BOOLEAN : [b EXCEPT !.old = x] \in Beat
                                          /\ ([b EXCEPT !.old = x].live <=> b.live)
      BY DEF Beat
    <3>2. PICK x \in BOOLEAN : x = (beats[j].old \/ Valid(beats[k].credential))
      OBVIOUS
    <3>3. beats'[j] = [beats[j] EXCEPT !.old = x]
      BY <1>1, <2>1, <3>2
    <3>. QED
      BY <1>3, <2>1, <3>1, <3>3
  <2>2. CASE ~(j < k)
    BY <1>1, <1>3, <2>2
  <2>. QED
    BY <2>1, <2>2
<1>5. beats' \in Seq(Beat) /\ Len(beats') = Len(beats) - 1
  <2>1. beats' \in [1..(Len(beats) - 1) -> Beat] /\ Len(beats) - 1 \in Nat
    BY <1>1, <1>3, <1>4
  <2>. QED
    BY <2>1, FunctionIsSeq
<1>6. Beat' = Beat
  BY <1>2 DEF Beat, regVars, Credentials, Ids
<1>7. Up' = Up
  BY <1>2 DEF Up, regVars
<1>8. CASE ~beats[k].live /\ task' = task
  <2>1. At("heartbeat", "wait")' = At("heartbeat", "wait")
    BY <1>7, <1>8 DEF At
  <2>2. At("heartbeat", "wait") => k < Len(beats) /\ Len(beats) > 1
    BY <1>1, <1>3, <1>8
  <2>3. \A j \in 1..Len(beats') : beats'[j].live <=> j = Len(beats') /\ At("heartbeat", "wait")'
    <3>. TAKE j \in 1..Len(beats')
    <3>1. CASE j < k
      BY <1>1, <1>3, <1>4, <1>5, <2>1, <2>2, <3>1
    <3>2. CASE ~(j < k)
      BY <1>1, <1>3, <1>4, <1>5, <2>1, <2>2, <3>2
    <3>. QED
      BY <3>1, <3>2
  <2>. QED
    BY <1>3, <1>5, <1>6, <1>7, <1>8, <2>1, <2>2, <2>3
<1>9. CASE beats[k].live /\ (Moves("heartbeat", "idle") \/ Moves("heartbeat", "report"))
  <2>1. k = Len(beats) /\ At("heartbeat", "wait")
    BY <1>1, <1>9
  <2>2. ~At("heartbeat", "wait")' /\ Up'
    BY <1>7, <1>9, <2>1 DEF At, Moves, MemoryOK, Loops
  <2>3. \A j \in 1..Len(beats') : ~beats'[j].live
    BY <1>1, <1>3, <1>4, <1>5, <2>1
  <2>. QED
    BY <1>5, <1>6, <2>2, <2>3
<1>. QED
  BY <1>1, <1>8, <1>9

\* When the agent waits no longer, no heartbeat is waited for: its own was
\* lost or left to the server.
LEMMA AbandonedBeats ==
    ASSUME AgentInv, NEW kept \in BOOLEAN
    PROVE  /\ Abandoned(kept) \in Seq(Beat)
           /\ \A k \in 1..Len(Abandoned(kept)) : ~Abandoned(kept)[k].live
<1>. USE DEF AgentInv, BeatsOK
<1>1. Len(beats) \in Nat /\ \A j \in 1..Len(beats) : beats[j] \in Beat
  OBVIOUS
<1>2. CASE ~kept /\ beats # <<>> /\ beats[Len(beats)].live
  <2>1. Abandoned(kept) = SubSeq(beats, 1, Len(beats) - 1)
    BY <1>2 DEF Abandoned
  <2>2. /\ SubSeq(beats, 1, Len(beats) - 1) \in Seq(Beat)
        /\ Len(SubSeq(beats, 1, Len(beats) - 1)) = Len(beats) - 1
        /\ \A k \in 1..(Len(beats) - 1) : SubSeq(beats, 1, Len(beats) - 1)[k] = beats[k]
    <3>. DEFINE n == Len(beats) - 1
    <3>1. n \in Nat /\ \A i \in 1..n : beats[i] \in Beat
      BY <1>1, <1>2
    <3>. HIDE DEF n
    <3>2. /\ SubSeq(beats, 1, n) \in Seq(Beat)
          /\ Len(SubSeq(beats, 1, n)) = IF 1 <= n THEN n - 1 + 1 ELSE 0
          /\ \A i \in 1..(n - 1 + 1) : SubSeq(beats, 1, n)[i] = beats[1 + i - 1]
      BY <3>1, SubSeqProperties
    <3>3. /\ Len(SubSeq(beats, 1, n)) = n
          /\ \A i \in 1..n : SubSeq(beats, 1, n)[i] = beats[i]
      BY <3>1, <3>2
    <3>. QED
      BY <3>2, <3>3 DEF n
  <2>. QED
    BY <1>1, <2>1, <2>2
<1>3. CASE ~(~kept /\ beats # <<>> /\ beats[Len(beats)].live)
  <2>1. Abandoned(kept) = [k \in 1..Len(beats) |-> [beats[k] EXCEPT !.live = FALSE]]
    BY <1>3 DEF Abandoned
  <2>2. \A k \in 1..Len(beats) : [beats[k] EXCEPT !.live = FALSE] \in Beat
                                 /\ ~[beats[k] EXCEPT !.live = FALSE].live
    BY <1>1 DEF Beat
  <2>3. Abandoned(kept) \in [1..Len(beats) -> Beat]
    BY <2>1, <2>2
  <2>4. Abandoned(kept) \in Seq(Beat) /\ Len(Abandoned(kept)) = Len(beats)
    BY <1>1, <2>3, FunctionIsSeq
  <2>. QED
    BY <2>1, <2>2, <2>4
<1>. QED
  BY <1>2, <1>3

\* The set of heartbeats grows with the installation ids there are.
LEMMA BeatGrows ==
    ASSUME AgentInv, [Next]_vars
    PROVE  Beat \subseteq Beat'
<1>1. ids' \in Nat /\ ids \in Nat /\ ids' >= ids /\ MaxFaults \in Nat
  <2>1. RegInv /\ RegInv'
    BY RegStepInv, NextReg DEF AgentInv
  <2>2. ids' \in Nat /\ ids \in Nat /\ MaxFaults \in Nat
    BY <2>1, RegistrationAssumption DEF RegInv, VersionsBounded
  <2>3. ids' = ids \/ ids' = IF InstallationId > ids THEN InstallationId ELSE ids
    BY NextReg DEF Enrolling, Start, SaveInstallation, Register, RegistrationFails, SaveCredential,
                   SaveIdentity, WriteFails, RotateCredential, Crash, FaultOnly, regVars
  <2>4. InstallationId \in Nat
    BY <2>1 DEF InstallationId, RegInv, RegTypeOK, VersionsBounded, Ids
  <2>. QED
    BY <2>2, <2>3, <2>4
<1>2. Credentials \subseteq Credentials'
  BY <1>1 DEF Credentials, Ids
<1>. QED
  BY <1>2 DEF Beat

\* At most one heartbeat, the last, is waited for, whatever is handled late,
\* lost or left behind by a process that died.
LEMMA BeatsStep ==
    ASSUME AgentInv, [Next]_vars
    PROVE  BeatsOK'
<1>. USE DEF BeatsOK
<1>1. AgentInv /\ beats \in Seq(Beat') /\ (Up \/ task = Idle)
  BY BeatGrows, SeqMonotonic DEF AgentInv
<1>2. task \in [Loops -> {"idle", "put", "emit", "wait", "report", "dead"}] /\ Idle["heartbeat"] = "idle"
  BY DEF AgentInv, MemoryOK, Idle, Loops
<1>3. CASE beats' = beats /\ Up' = Up /\ (~Up => task' = task) /\ task'["heartbeat"] = task["heartbeat"]
  BY <1>1, <1>3 DEF At, AgentInv
<1>4. CASE Enrols
  <2>1. beats' = beats /\ task' = task
    BY <1>4 DEF Enrols, beatVars, memoryVars
  <2>2. Up => agent' = agent
    BY <1>4 DEF Enrols, Up, Enrolling, Start, SaveInstallation, Register, RegistrationFails, SaveCredential,
                SaveIdentity, WriteFails, RotateCredential, AgentInv, RegInv, SavedFirst
  <2>3. CASE Up
    BY <1>3, <2>1, <2>2, <2>3 DEF Up
  <2>4. CASE ~Up
    <3>1. task = Idle /\ task["heartbeat"] # "wait" /\ ~At("heartbeat", "wait") /\ ~At("heartbeat", "wait")'
      BY <1>1, <1>2, <2>1, <2>4 DEF At
    <3>. QED
      BY <1>1, <2>1, <3>1 DEF AgentInv
  <2>. QED
    BY <2>3, <2>4
<1>5. ASSUME NEW kept \in BOOLEAN, beats' = Abandoned(kept), ~At("heartbeat", "wait")', Up' \/ task' = Idle
      PROVE  BeatsOK'
  BY <1>1, <1>5, AbandonedBeats, BeatGrows, SeqMonotonic
<1>6. CASE Dies
  <2>1. ~At("heartbeat", "wait")' /\ task' = Idle
    BY <1>2, <1>6 DEF Dies, At, Idle
  <2>. QED
    BY <1>5, <1>6, <2>1 DEF Dies
<1>7. CASE HeartbeatFails
  <2>1. ~At("heartbeat", "wait")' /\ Up'
    BY <1>2, <1>7 DEF HeartbeatFails, At, Up, Raises, Moves, Loops, FaultOnly
  <2>. QED
    BY <1>5, <1>7, <2>1 DEF HeartbeatFails
<1>8. CASE HeartbeatHandled
  BY <1>8, HandledBeats
<1>9. CASE Heartbeat
  <2>. DEFINE b == [health |-> health, credential |-> agent.credential, live |-> TRUE, old |-> FALSE]
  <2>1. b \in Beat' /\ b.live = TRUE
    <3>1. b \in Beat
      BY DEF Beat, AgentInv, MemoryOK, RegInv, RegTypeOK
    <3>. QED
      BY <3>1, BeatGrows
  <2>2. beats' = Append(beats, b) /\ At("heartbeat", "wait")' /\ Up' /\ ~At("heartbeat", "wait")
    BY <1>2, <1>9 DEF Heartbeat, At, Moves, Up, regVars, Loops
  <2>. HIDE DEF b
  <2>3. /\ Append(beats, b) \in Seq(Beat') /\ Append(beats, b) # <<>>
        /\ Len(Append(beats, b)) = Len(beats) + 1 /\ Len(beats) \in Nat
        /\ \A i \in 1..Len(beats) : Append(beats, b)[i] = beats[i]
        /\ Append(beats, b)[Len(beats) + 1] = b
    BY <1>1, <2>1, AppendProperties
  <2>4. \A k \in 1..Len(beats) : ~beats[k].live
    BY <2>2 DEF AgentInv
  <2>5. \A k \in 1..Len(beats') : beats'[k].live <=> k = Len(beats')
    BY <2>1, <2>2, <2>3, <2>4
  <2>. QED
    BY <2>2, <2>3, <2>5
<1>10. CASE HostChanges
  BY <1>3, <1>10 DEF HostChanges, beatVars, memoryVars, Up, regVars
<1>11. ASSUME NEW l \in Loops, Reported(l) \/ ReportFails(l)
       PROVE  BeatsOK'
  <2>1. beats' = beats /\ Up /\ Up' /\ At(l, "report")
    BY <1>11 DEF Reported, ReportFails, At, Up, regVars, beatVars
  <2>2. CASE l = "heartbeat"
    <3>1. ~At("heartbeat", "wait") /\ ~At("heartbeat", "wait")'
      BY <1>2, <1>11, <2>1, <2>2 DEF Reported, ReportFails, At, Moves, Loops
    <3>. QED
      BY <1>1, <2>1, <3>1 DEF AgentInv
  <2>3. CASE l # "heartbeat"
    <3>1. task'["heartbeat"] = task["heartbeat"]
      BY <1>2, <1>11, <2>3 DEF Reported, ReportFails, Moves, Loops
    <3>. QED
      BY <1>3, <2>1, <3>1
  <2>. QED
    BY <2>2, <2>3
<1>12. CASE \/ Discover \/ DiscoverEnds \/ DiscoverFails
            \/ CollectProcesses \/ CollectFails \/ CollectEnds
  <2>1. beats' = beats /\ Up /\ Up'
    BY <1>12 DEF Discover, DiscoverEnds, DiscoverFails, CollectProcesses, CollectFails, CollectEnds,
                 At, Up, FaultOnly, Refused, regVars, beatVars
  <2>2. \E l \in Collectors : \E pc : Moves(l, pc)
    BY <1>12 DEF Discover, DiscoverEnds, DiscoverFails, CollectProcesses, CollectFails, CollectEnds,
                 Raises, Returns, Collectors
  <2>3. task'["heartbeat"] = task["heartbeat"]
    BY <1>2, <2>2 DEF Moves, Collectors, Loops
  <2>. QED
    BY <1>3, <2>1, <2>3
<1>13. CASE UNCHANGED vars
  BY <1>3, <1>13 DEF vars, beatVars, memoryVars, Up, regVars
<1>. QED
  BY <1>4, <1>6, <1>7, <1>8, <1>9, <1>10, <1>11, <1>12, <1>13 DEF Next

\* AgentInv is inductive.
LEMMA AgentInvariant == Spec => []AgentInv
<1>1. Init => AgentInv
  <2>. SUFFICES ASSUME Init PROVE AgentInv
    OBVIOUS
  <2>1. RegInv
    BY RegInitInv DEF Init
  <2>2. MemoryOK /\ SamplesUnmixed
    BY AgentAssumption DEF Init, MemoryOK, SamplesUnmixed, Idle, Loops, Collectors, NoSample, Incarnations
  <2>3. BeatsOK
    <3>1. task["heartbeat"] = "idle" /\ task = Idle /\ beats = <<>>
      BY DEF Init, Idle, Loops
    <3>2. beats \in Seq(Beat) /\ Len(beats) = 0
      BY <3>1, EmptySeq
    <3>. QED
      BY <3>1, <3>2 DEF BeatsOK, At
  <2>. QED
    BY <2>1, <2>2, <2>3 DEF AgentInv
<1>2. AgentInv /\ [Next]_vars => AgentInv'
  BY RegStepInv, NextReg, MemoryStep, BeatsStep DEF AgentInv
<1>. QED
  BY <1>1, <1>2, PTL DEF Spec

\* Type correctness, with no task at work before the agent is up and at most
\* one heartbeat waited for.
THEOREM TypeCorrect == Spec => []TypeOK
<1>1. AgentInv => TypeOK
  <2>. SUFFICES ASSUME AgentInv PROVE TypeOK
    OBVIOUS
  <2>1. beats \in Seq(Beat) /\ Len(beats) \in Nat /\ DOMAIN beats = 1..Len(beats)
    BY DEF AgentInv, BeatsOK
  <2>2. \A k \in DOMAIN beats : beats[k] \in Beat
    BY <2>1
  <2>3. {k \in DOMAIN beats : beats[k].live} = {k \in {Len(beats)} : At("heartbeat", "wait")}
    <3>1. \A k \in 1..Len(beats) : beats[k].live <=> k = Len(beats) /\ At("heartbeat", "wait")
      BY DEF AgentInv, BeatsOK
    <3>2. At("heartbeat", "wait") => Len(beats) \in 1..Len(beats)
      <4>1. At("heartbeat", "wait") => beats # <<>>
        BY DEF AgentInv, BeatsOK
      <4>2. beats # <<>> => Len(beats) \in Nat \ {0}
        BY <2>1, EmptySeq
      <4>. QED
        BY <4>1, <4>2
    <3>3. \A k : k \in DOMAIN beats /\ beats[k].live <=> k \in {Len(beats)} /\ At("heartbeat", "wait")
      BY <2>1, <3>1, <3>2
    <3>. QED
      BY <3>3
  <2>. QED
    BY <2>2, <2>3 DEF AgentInv, RegInv, MemoryOK, TypeOK, Beat
<1>. QED
  BY <1>1, AgentInvariant, PTL

\* A sample belongs to the process it was read from, however often the PID is
\* reused between discovery and sampling.
THEOREM SamplesNeverMixed == Spec => []SamplesUnmixed
  BY AgentInvariant, PTL DEF AgentInv
=============================================================================
