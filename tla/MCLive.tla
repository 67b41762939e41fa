------------------------------- MODULE MCLive -------------------------------
(***************************************************************************)
(* What must eventually happen between the appliance and the world, in one *)
(* run: requests that cross the planes end, alerts reach somebody, and a   *)
(* satellite connects.  These are separate processes over separate state,  *)
(* so every behaviour is one of a single component: the others stay in     *)
(* their initial state.                                                    *)
(***************************************************************************)
EXTENDS MCPlaneRpc, Alerts, Satellite

MCAssignment == {{}, {"g"}, {"h"}}

VARIABLE part
allVars == <<part, vars, alertVars, satVars>>

Is(p) == part = p /\ UNCHANGED part
Plane(A)   == Is("plane") /\ A /\ UNCHANGED <<alertVars, satVars>>
Alert(A)   == Is("alerts") /\ A /\ UNCHANGED <<vars, satVars>>
Tunnels(A) == Is("satellite") /\ A /\ UNCHANGED <<vars, alertVars>>

LiveInit ==
  /\ part \in {"plane", "alerts", "satellite"} /\ Init /\ AlertsInit /\ SatInit
LiveNext == Plane(Next) \/ Alert(AlertsNext) \/ Tunnels(SatNext)
LiveSpec ==
  /\ LiveInit /\ [][LiveNext]_allVars
  /\ \A n \in Nodes, c \in Calls : WF_allVars(Plane(RelayStep(n, c))) /\ WF_allVars(Plane(LeafStep(n, c)))
  /\ WF_allVars(Alert(Evaluate("timer"))) /\ WF_allVars(Tunnels(Loop))
=============================================================================
