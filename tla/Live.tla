-------------------------------- MODULE Live --------------------------------
(***************************************************************************)
(* The live watermarks of the server (live.py): handlers commit to the     *)
(* database and then publish a new commit or inventory watermark, and      *)
(* GET /live streams the watermarks to viewers.  The watermarks are in the *)
(* memory of the server process.                                           *)
(*                                                                         *)
(* A stream is the generator events().  It compares, is suspended at its   *)
(* yield until the message is taken, and waits on the condition for at     *)
(* most 15 seconds.  A publish only wakes the streams that wait.           *)
(***************************************************************************)
EXTENDS Integers

CONSTANTS Viewers

VARIABLES watermark,  \* LiveWatermarks.commit and .inventory
          publishing, \* handlers between their commit and publish()
          streams,    \* the viewers' generators
          stored,     \* history: commits so far
          shown       \* history: commits a viewer's last message follows

liveVars == <<watermark, publishing, streams, stored, shown>>

WatermarkKinds == {"commit", "inventory"}
Zero == [k \in WatermarkKinds |-> 0]
Unseen == [k \in WatermarkKinds |-> -1]
Closed == [pc |-> "closed", seen |-> Unseen]

LiveInit ==
    /\ watermark = Zero /\ publishing = Zero
    /\ streams = [v \in Viewers |-> Closed]
    /\ stored = 0 /\ shown = [v \in Viewers |-> 0]

\* A handler's transaction is committed; its publish() is next.
Commit(k) ==
    /\ stored' = stored + 1
    /\ publishing' = [publishing EXCEPT ![k] = @ + 1]
    /\ UNCHANGED <<watermark, streams, shown>>

\* notify_all.
Wakes(k, s) == IF s.pc = "wait" THEN [s EXCEPT !.pc = "top"] ELSE s

Publish(k) ==
    /\ publishing[k] > 0
    /\ publishing' = [publishing EXCEPT ![k] = @ - 1]
    /\ watermark' = [watermark EXCEPT ![k] = @ + 1]
    /\ streams' = [v \in Viewers |-> Wakes(k, streams[v])]
    /\ UNCHANGED <<stored, shown>>

\* GET /live.
Connect(v) ==
    /\ streams[v].pc = "closed"
    /\ streams' = [streams EXCEPT ![v] = [Closed EXCEPT !.pc = "top"]]
    /\ UNCHANGED <<watermark, publishing, stored, shown>>

Disconnect(v) ==
    /\ streams[v].pc # "closed"
    /\ streams' = [streams EXCEPT ![v] = Closed]
    /\ UNCHANGED <<watermark, publishing, stored, shown>>

\* The top of the loop: a message is yielded, or the wait begins.
Compare(v) ==
    /\ streams[v].pc = "top"
    /\ IF watermark # streams[v].seen
       THEN /\ streams' = [streams EXCEPT ![v] = [pc |-> "yield", seen |-> watermark]]
            /\ shown' = [shown EXCEPT ![v] = stored]
       ELSE streams' = [streams EXCEPT ![v].pc = "wait"] /\ UNCHANGED shown
    /\ UNCHANGED <<watermark, publishing, stored>>

\* The generator is resumed after its yield.
Resume(v) ==
    /\ streams[v].pc \in {"yield", "keepalive"}
    /\ streams' = [streams EXCEPT ![v].pc = IF @ = "yield" THEN "wait" ELSE "top"]
    /\ UNCHANGED <<watermark, publishing, stored, shown>>

\* Mutant: the wait has no limit.
TimeoutNever(v) == FALSE /\ UNCHANGED liveVars

\* 15 seconds without a publish.
Timeout(v) ==
    /\ streams[v].pc = "wait"
    /\ streams' = [streams EXCEPT ![v].pc = "keepalive"]
    /\ UNCHANGED <<watermark, publishing, stored, shown>>

\* The server process dies and starts again.
ServerCrash ==
    /\ watermark' = Zero /\ publishing' = Zero
    /\ streams' = [v \in Viewers |-> Closed]
    /\ UNCHANGED <<stored, shown>>

StreamStep(v) == Compare(v) \/ Resume(v) \/ Timeout(v)

LiveTypeOK ==
    /\ watermark \in [WatermarkKinds -> Nat] /\ publishing \in [WatermarkKinds -> Nat]
    /\ streams \in [Viewers -> [pc : {"closed", "top", "yield", "keepalive", "wait"},
                                seen : [WatermarkKinds -> Nat \cup {-1}]]]
    /\ stored \in Nat /\ shown \in [Viewers -> 0..stored]
=============================================================================
