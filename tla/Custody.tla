------------------------------- MODULE Custody -------------------------------
(***************************************************************************)
(* What the telemetry path promises about one agent's events, without any  *)
(* of its mechanism: who answers for an event at each moment.  An event    *)
(* that was admitted is held by the agent until the server has it, the     *)
(* agent has set it aside as permanently refused, or the agent has given   *)
(* it up to respect its local limits.  plan.md asks for this under         *)
(* "Buffer every event ... Delete only acknowledged records ... Quarantine *)
(* permanent rejections".  Delivery is shown to implement this module.     *)
(***************************************************************************)
VARIABLES admitted,   \* every event ever committed to the agent's spool
          held,       \* the events the agent still answers for
          stored,     \* the events the server has committed
          refused,    \* the events set aside as permanently refused
          evicted     \* the events given up to respect the local limits

vars == <<admitted, held, stored, refused, evicted>>

Init == /\ admitted = {}
        /\ held = {}
        /\ stored = {}
        /\ refused = {}
        /\ evicted = {}

\* New events enter, and are held from the step that admits them.
Admit == /\ admitted \subseteq admitted'
         /\ held' = held \cup (admitted' \ admitted)
         /\ UNCHANGED <<stored, refused, evicted>>

\* The server commits events it did not have and that are not refused: even
\* long after the agent stopped holding them, when a request is delayed.
Store(S) == /\ S \subseteq admitted \ (stored \cup refused)
            /\ stored' = stored \cup S
            /\ UNCHANGED <<admitted, held, refused, evicted>>

\* The agent forgets events, and only events the server has.
Release(S) == /\ S \subseteq held \cap stored
              /\ held' = held \ S
              /\ UNCHANGED <<admitted, stored, refused, evicted>>

\* The agent sets aside events the server will never take.
Refuse(S) == /\ S \subseteq held \ stored
             /\ held' = held \ S
             /\ refused' = refused \cup S
             /\ UNCHANGED <<admitted, stored, evicted>>

\* The agent gives events up.
Evict(S) == /\ S \subseteq held
            /\ held' = held \ S
            /\ evicted' = evicted \cup S
            /\ UNCHANGED <<admitted, stored, refused>>

Next == \/ Admit
        \/ \E S \in SUBSET admitted :
              Store(S) \/ Release(S) \/ Refuse(S) \/ Evict(S)

Spec == Init /\ [][Next]_vars
=============================================================================
