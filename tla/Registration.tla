---------------------------- MODULE Registration ----------------------------
(***************************************************************************)
(* How an agent gets its identity: Agent.initialize (runtime.py) with the  *)
(* state table of its spool, the register request (transport.py), the      *)
(* handlers register and rotate_credential (api.py) and the check of a     *)
(* credential (authenticated_agent in security.py).                        *)
(*                                                                         *)
(* Installation ids are numbers; 1 is the one an operator may configure or *)
(* register by hand, the others are generated.  An installation's host and *)
(* agent rows carry its number, and a credential is the installation and   *)
(* the credential version.  The enrollment token is the server's.  An      *)
(* exception in initialize() ends the process; a supervisor starts it      *)
(* again.  The unique installation_id of the agents table makes register   *)
(* atomic: of two overlapping requests one fails like a known one.         *)
(***************************************************************************)
EXTENDS Integers, FiniteSets

CONSTANTS MaxFaults \* bound: failed writes and requests, crashes and rotations

ASSUME RegistrationAssumption == MaxFaults \in Nat

VARIABLES config,    \* the agent's configuration
          disk,      \* the state table of the spool
          agent,     \* the agent process up to the end of initialize()
          requests,  \* register requests the server has not handled
          hosts,     \* server: credential_version per registered installation
          ids,       \* history: the last installation id there is
          faults

regVars == <<config, disk, agent, requests, hosts, ids, faults>>

NoId == 0
Configured == 1
NoCredential == <<NoId, 0>>
Down == [pc |-> "down", installation |-> NoId, credential |-> NoCredential, host |-> NoId]

\* An operator may have registered by hand and configured the credential.
RegInit ==
    /\ \/ config \in [installation : {NoId, Configured}, credential : {NoCredential}] /\ hosts = [i \in {} |-> 1]
       \/ /\ config \in [installation : {NoId}, credential : {<<Configured, 1>>}]
          /\ hosts = [i \in {Configured} |-> 1]
    /\ disk = [installation |-> NoId, credential |-> NoCredential, identity |-> NoId]
    /\ agent = Down
    /\ requests = {}
    /\ ids = Configured
    /\ faults = 0

Fault == faults < MaxFaults /\ faults' = faults + 1

-----------------------------------------------------------------------------
(* Agent.initialize.                                                       *)

\* A configured id, a saved one, or a new one.
InstallationId ==
    IF config.installation # NoId THEN config.installation
    ELSE IF disk.installation # NoId THEN disk.installation ELSE ids + 1

\* From spool.open() to the first write; a saved credential is taken before
\* a configured one.
Start ==
    /\ agent.pc = "down"
    /\ agent' = [pc |-> "installation", installation |-> InstallationId, host |-> disk.identity,
                 credential |-> IF disk.credential # NoCredential
                                THEN disk.credential ELSE config.credential]
    /\ ids' = IF InstallationId > ids THEN InstallationId ELSE ids
    /\ UNCHANGED <<config, disk, requests, hosts, faults>>

\* With a credential the agent is up, without one it registers.
Proceeds ==
    IF agent.credential # NoCredential
    THEN agent' = [agent EXCEPT !.pc = "up"] /\ requests' = requests
    ELSE /\ agent' = [agent EXCEPT !.pc = "register"]
         /\ requests' = requests \cup {[installation |-> agent.installation, live |-> TRUE]}

\* Mutant: the generated installation id is not saved before the request.
SaveInstallationLater ==
    /\ agent.pc = "installation"
    /\ disk' = disk
    /\ Proceeds
    /\ UNCHANGED <<config, hosts, ids, faults>>

SaveInstallation ==
    /\ agent.pc = "installation"
    /\ disk' = [disk EXCEPT !.installation = agent.installation]
    /\ Proceeds
    /\ UNCHANGED <<config, hosts, ids, faults>>

\* The agent waits no longer; its request may have been lost on the way.
Orphaned == {[r EXCEPT !.live = FALSE] : r \in requests}
Abandon == requests' \in {Orphaned, {r \in requests : ~r.live}}

\* register(): an installation that is known is refused with 409, and the
\* agent, if it still waits, gets the answer.
Register ==
    /\ \E r \in requests :
          /\ requests' = requests \ {r}
          /\ IF r.installation \in DOMAIN hosts
             THEN hosts' = hosts /\ agent' = IF r.live THEN Down ELSE agent
             ELSE /\ hosts' = [i \in DOMAIN hosts \cup {r.installation} |-> IF i = r.installation THEN 1 ELSE hosts[i]]
                  /\ agent' = IF ~r.live THEN agent
                              ELSE [agent EXCEPT !.pc = "credential", !.credential = <<r.installation, 1>>]
    /\ UNCHANGED <<config, disk, ids, faults>>

\* The connection breaks, or nothing comes in 10 s; the request may be
\* handled all the same.
RegistrationFails ==
    /\ agent.pc = "register"
    /\ Fault
    /\ Abandon
    /\ agent' = Down
    /\ UNCHANGED <<config, disk, hosts, ids>>

SaveCredential ==
    /\ agent.pc = "credential"
    /\ disk' = [disk EXCEPT !.credential = agent.credential]
    /\ agent' = [agent EXCEPT !.pc = "identity"]
    /\ UNCHANGED <<config, requests, hosts, ids, faults>>

SaveIdentity ==
    /\ agent.pc = "identity"
    /\ disk' = [disk EXCEPT !.identity = agent.installation]
    /\ agent' = [agent EXCEPT !.pc = "up", !.host = agent.installation]
    /\ UNCHANGED <<config, requests, hosts, ids, faults>>

\* A write of the spool raises.
WriteFails ==
    /\ agent.pc \in {"installation", "credential", "identity"}
    /\ Fault
    /\ agent' = Down
    /\ UNCHANGED <<config, disk, requests, hosts, ids>>

-----------------------------------------------------------------------------
\* authenticated_agent.
Valid(credential) ==
    /\ credential[1] \in DOMAIN hosts
    /\ hosts[credential[1]] = credential[2]

\* An operator rotates a credential it finds on disk or in the configuration
\* and configures the new one, unless the answer is lost.
RotateCredential ==
    /\ Fault
    /\ \E c \in {disk.credential, config.credential} :
          /\ Valid(c)
          /\ hosts' = [hosts EXCEPT ![c[1]] = @ + 1]
          /\ config' \in {config, [config EXCEPT !.credential = <<c[1], c[2] + 1>>]}
    /\ UNCHANGED <<disk, agent, requests, ids>>

\* The agent process dies, or stops on a signal.
Crash ==
    /\ agent.pc # "down"
    /\ Fault
    /\ Abandon
    /\ agent' = Down
    /\ UNCHANGED <<config, disk, hosts, ids>>

Enrolling ==
    \/ Start \/ SaveInstallation \/ Register \/ RegistrationFails
    \/ SaveCredential \/ SaveIdentity \/ WriteFails \/ RotateCredential

-----------------------------------------------------------------------------
Ids == 0..ids
Credentials == Ids \X (0..(MaxFaults + 1))

RegTypeOK ==
    /\ config \in [installation : Ids, credential : Credentials]
    /\ disk \in [installation : Ids, credential : Credentials, identity : Ids]
    /\ agent \in [pc : {"down", "installation", "register", "credential", "identity", "up"},
                  installation : Ids, credential : Credentials, host : Ids]
    /\ requests \subseteq [installation : Ids, live : BOOLEAN]
    /\ DOMAIN hosts \subseteq Ids \ {NoId}
    /\ \A i \in DOMAIN hosts : hosts[i] \in 1..(MaxFaults + 1)

\* However often the agent dies or a request of initialize() fails, the server
\* has one host for it: a retry cannot register a second one, because the
\* installation id was saved before the first request.  The identity the agent
\* saves and stamps on its events is the one its credential speaks for, and
\* the credential it uses is the server's unless it was rotated.
OneIdentity ==
    /\ Cardinality(DOMAIN hosts) <= 1
    /\ agent.host # NoId => agent.host = agent.credential[1]
    /\ disk.identity # NoId => disk.identity = disk.credential[1]
    /\ agent.credential # NoCredential => \/ Valid(agent.credential)
                                          \/ hosts[agent.credential[1]] > agent.credential[2]
=============================================================================
