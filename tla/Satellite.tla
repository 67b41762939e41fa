----------------------------- MODULE Satellite -----------------------------
(***************************************************************************)
(* The satellite daemon (opt/ffn_satd.py): it enrols at a portal, which    *)
(* gives it a certificate and gateways, writes and loads their connections *)
(* and initiates the tunnels, and does so again and again.                 *)
(*                                                                         *)
(* External: the portal, which may be down or change its mind, the         *)
(* gateways, of which some answer, strongSwan, and the box, whose tools    *)
(* and disk may fail.  An operator may run "--enroll" beside the daemon.   *)
(***************************************************************************)
EXTENDS Naturals

CONSTANTS Gateway,
          Assignment,     \* the sets of gateways that the portal assigns
          MaxSatMishaps      \* bound: restarts, hand-run enrolments, clocks set back, disablings

VARIABLES
  enable, portal, reach, sound,   \* configuration and environment; portal: gateways, or Down
  state, stage,          \* of the daemon, and where its loop stands
  gateways, recent,      \* self.gateways; last_enroll within refresh_sec
  expiring,              \* the certificate on disk is near its end
  conf, loaded,          \* ffn-satellite.conf, and what strongSwan runs
  shown,                 \* the state file
  satMishaps
satVars == <<enable, portal, reach, sound, state, stage, gateways, recent, expiring, conf, loaded, shown, satMishaps>>
siteVars == <<enable, portal, reach, sound>>

Down == {"down"}
SatInit ==
  /\ enable = TRUE /\ portal = {} /\ reach = {} /\ sound = TRUE
  /\ state = "INIT" /\ stage = "wake" /\ gateways = {} /\ recent = FALSE /\ expiring = FALSE
  /\ conf = {} /\ loaded = {} /\ shown = "none" /\ satMishaps = 0

\* _set_state, with the state file that _publish writes.
SetState(s, p) == state' = s /\ shown' = s /\ stage' = p

\* run_once.  The daemon that is CONNECTED has slept for refresh_sec, and is
\* stale unless the clock was set back; otherwise it slept for retry_sec.
MustEnrolOnce == state \in {"INIT", "RETRY"} \/ expiring
MustEnrol == state \in {"INIT", "RETRY"} \/ ~recent \/ expiring
RunOnce ==
  /\ stage = "wake"
  /\ IF ~enable THEN SetState("INIT", "sleep")
     ELSE IF MustEnrol THEN SetState("ENROLLING", "enrol") ELSE stage' = "apply" /\ UNCHANGED <<state, shown>>
  /\ UNCHANGED <<siteVars, gateways, recent, expiring, conf, loaded, satMishaps>>
Wake ==
  /\ stage = "sleep" /\ stage' = "wake"
  /\ \E r \in {FALSE, recent} :
       /\ recent' = r
       /\ IF state = "CONNECTED" /\ r THEN satMishaps < MaxSatMishaps /\ satMishaps' = satMishaps + 1 ELSE UNCHANGED satMishaps
  /\ UNCHANGED <<siteVars, state, gateways, expiring, conf, loaded, shown>>

\* enroll, after the request; every failure leaves the tunnels alone.
Fail == SetState("RETRY", "sleep")
Enrolled ==
  /\ stage = "enrol" /\ sound /\ portal # Down /\ SetState("ENROLLED", "apply")
  /\ gateways' = portal /\ recent' = TRUE /\ expiring' = FALSE
  /\ UNCHANGED <<siteVars, conf, loaded, satMishaps>>
EnrolFails ==
  /\ stage = "enrol" /\ (~sound \/ portal = Down) /\ Fail
  /\ UNCHANGED <<siteVars, gateways, recent, expiring, conf, loaded, satMishaps>>

\* apply_tunnels: the file, the load, and an attempt at each gateway.
ApplyTunnels ==
  /\ stage = "apply"
  /\ IF gateways = {} THEN Fail ELSE SetState("CONNECTING", "write")
  /\ UNCHANGED <<siteVars, gateways, recent, expiring, conf, loaded, satMishaps>>
WriteConf ==
  /\ stage = "write"
  /\ IF sound THEN conf' = gateways /\ stage' = "load" /\ UNCHANGED <<state, shown>> ELSE Fail /\ UNCHANGED conf
  /\ UNCHANGED <<siteVars, gateways, recent, expiring, loaded, satMishaps>>
LoadAll ==
  /\ stage = "load"
  /\ IF sound THEN loaded' = conf /\ stage' = "initiate" /\ UNCHANGED <<state, shown>> ELSE Fail /\ UNCHANGED loaded
  /\ UNCHANGED <<siteVars, gateways, recent, expiring, conf, satMishaps>>
Initiate ==
  /\ stage = "initiate"
  /\ IF sound /\ loaded \cap reach # {} THEN SetState("CONNECTED", "sleep") ELSE Fail
  /\ UNCHANGED <<siteVars, gateways, recent, expiring, conf, loaded, satMishaps>>

\* The daemon starts again; strongSwan and the files stay as they are.
RestartSat ==
  /\ satMishaps < MaxSatMishaps /\ satMishaps' = satMishaps + 1
  /\ state' = "INIT" /\ stage' = "wake" /\ gateways' = {} /\ recent' = FALSE
  /\ UNCHANGED <<siteVars, expiring, conf, loaded, shown>>
\* "--enroll" in a process of its own.
HandEnrol ==
  /\ satMishaps < MaxSatMishaps /\ satMishaps' = satMishaps + 1
  /\ IF sound /\ portal # Down THEN shown' = "ENROLLED" /\ expiring' = FALSE ELSE shown' = "RETRY" /\ UNCHANGED expiring
  /\ UNCHANGED <<siteVars, state, stage, gateways, recent, conf, loaded>>
CertAges == ~expiring /\ expiring' = TRUE /\ UNCHANGED <<siteVars, state, stage, gateways, recent, conf, loaded, shown, satMishaps>>
Switch ==
  /\ enable' = ~enable
  /\ IF enable THEN satMishaps < MaxSatMishaps /\ satMishaps' = satMishaps + 1 ELSE UNCHANGED satMishaps
  /\ UNCHANGED <<portal, reach, sound, state, stage, gateways, recent, expiring, conf, loaded, shown>>
World ==
  /\ \/ portal' \in ({Down} \cup Assignment) \ {portal} /\ UNCHANGED <<reach, sound>>
     \/ reach' \in SUBSET Gateway \ {reach} /\ UNCHANGED <<portal, sound>>
     \/ sound' = ~sound /\ UNCHANGED <<portal, reach>>
  /\ UNCHANGED <<enable, state, stage, gateways, recent, expiring, conf, loaded, shown, satMishaps>>

Loop == RunOnce \/ Wake \/ Enrolled \/ EnrolFails \/ ApplyTunnels \/ WriteConf \/ LoadAll \/ Initiate
SatNext == Loop \/ RestartSat \/ HandEnrol \/ CertAges \/ Switch \/ World

(* ------------------------------ properties ------------------------------ *)

\* Once the portal assigns gateways of which one answers and the box works,
\* the daemon rests only when connected, with the connections that the portal
\* assigns now and no earlier ones loaded, and says so; once it is disabled it
\* says that.
Works(g) == enable /\ sound /\ portal = g /\ reach \cap g # {}
SatelliteConnects ==
  /\ \A g \in Assignment :
       <>[]Works(g) => <>[](stage = "sleep" => /\ state = "CONNECTED" /\ shown = "CONNECTED" /\ loaded = g)
  /\ <>[](~enable) => <>[](shown = "INIT")
=============================================================================
