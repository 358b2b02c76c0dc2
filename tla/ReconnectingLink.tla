-------------------------- MODULE ReconnectingLink --------------------------
(***************************************************************************)
(* What the admin interface promises about its connection for updates: a   *)
(* page has one connection, which is made and replaced again and again for *)
(* as long as it is wanted: somebody is signed in.  Afterwards it may end  *)
(* or go on; the page being left always ends it.                           *)
(***************************************************************************)
VARIABLES phase, wanted

Phases == {"idle", "connecting", "open", "closing", "waiting"}

Init == phase = "idle"

Start   == phase \in {"idle", "waiting"} /\ phase' = "connecting"
Opened  == phase = "connecting" /\ phase' = "open"
Shut    == phase \in {"connecting", "open"} /\ phase' = "closing"
Dropped == phase \in {"connecting", "open", "closing"} /\ phase' = "waiting"
Leave   == phase' = "idle"

Next == Start \/ Opened \/ Shut \/ Dropped \/ Leave

Safety == Init /\ [][Next]_phase

(* A connection being closed does get closed, and where there is none one  *)
(* is made unless the user signs out or the interface breaks down.         *)
Fairness ==
    /\ WF_phase(phase = "closing" /\ Dropped)
    /\ WF_phase(wanted /\ Start)

Spec == Safety /\ Fairness
=============================================================================
