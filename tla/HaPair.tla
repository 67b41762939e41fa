------------------------------- MODULE HaPair -------------------------------
(***************************************************************************)
(* The high-availability core of dpdk/ffn_ha.c: two boxes that exchange    *)
(* hellos over HA1, decide from them whether the peer is up, and share the *)
(* flows: a packet whose owner is the peer is forwarded to it over HA3, or *)
(* taken over when the peer is down.                                       *)
(*                                                                         *)
(* Time.  The code compares two ages with two limits, now - last_seen with *)
(* peer_timeout_ms and now - tentative_since with hold_ms, so the model    *)
(* keeps the ages, in heartbeat intervals, and lets them saturate above    *)
(* every limit they are compared with.  The caller's loop is external: the *)
(* header asks for a tick and a hello "every heartbeat interval", so one   *)
(* interval ends only when each live box has done both.                    *)
(*                                                                         *)
(* The sentinel tentative_since_ms = 0 is the age None: a clock that reads *)
(* 0 milliseconds when a hello arrives is left out.                        *)
(***************************************************************************)
EXTENDS Integers

CONSTANTS Mode,         \* "active-active" or "active-passive"
          Algo,         \* "ip-hash", "ip-modulo" or "primary"
          Hash(_),      \* ffn_ha_hash, some function of the flow key
          PeerTimeout,  \* peer_timeout_ms, in heartbeat intervals
          Hold,         \* hold_ms, in heartbeat intervals
          MaxDelay,     \* bound on a hello's age when it is delivered
          Ips, Ports    \* small ranges of addresses and ports

Boxes   == {0, 1}
Primary == 0
Peer(b) == 1 - b
None    == -1
Limit   == PeerTimeout + MaxDelay + 3

ASSUME HaAssumption ==
    /\ Mode \in {"active-active", "active-passive"}
    /\ Algo \in {"ip-hash", "ip-modulo", "primary"}
    /\ PeerTimeout \in Nat \ {0} /\ Hold \in Nat /\ MaxDelay \in Nat
    /\ Hold <= Limit
    /\ Ips \subseteq Nat /\ Ports \subseteq Nat

VARIABLES
    alive,    \* alive[b]: the box runs
    peerUp,   \* peer_up
    silence,  \* age of the last hello: now - peer_last_seen_ms
    trial,    \* age of the recovery: now - tentative_since_ms, or None
    hstate,   \* the box's reported HA state
    hello,    \* hello[b]: age of the hello on its way to b, or None
    beaten,   \* beaten[b]: b sent its hello in this interval
    ticked,   \* ticked[b]: b ran its failover timer in this interval
    dead,     \* history: how long b has been down
    apart,    \* history: how long b has held its peer for down
    calm      \* from here on no box fails and no hello is lost or late

vars == <<alive, peerUp, silence, trial, hstate, hello, beaten, ticked, dead,
          apart, calm>>

-----------------------------------------------------------------------------
(* Flows.                                                                  *)

Packets == [sip : Ips, dip : Ips, sport : Ports, dport : Ports]
Reverse(p) == [sip |-> p.dip, dip |-> p.sip, sport |-> p.dport, dport |-> p.sport]

(* Mutant: the endpoints are ordered by address alone.                     *)
KeyByAddress(p) ==
    IF p.sip <= p.dip
    THEN [iplo |-> p.sip, portlo |-> p.sport, iphi |-> p.dip, porthi |-> p.dport]
    ELSE [iplo |-> p.dip, portlo |-> p.dport, iphi |-> p.sip, porthi |-> p.sport]

(* ffn_ha_normalize_key orders the two endpoints.                          *)
Key(p) ==
    IF p.sip < p.dip \/ (p.sip = p.dip /\ p.sport <= p.dport)
    THEN [iplo |-> p.sip, portlo |-> p.sport, iphi |-> p.dip, porthi |-> p.dport]
    ELSE [iplo |-> p.dip, portlo |-> p.dport, iphi |-> p.sip, porthi |-> p.sport]

(* ffn_ha_hash returns an unsigned number.                                 *)
ASSUME HashAssumption == \A p \in Packets : Hash(Key(p)) \in Nat

FlowOwner(k) ==
    CASE Algo = "primary"   -> Primary
      [] Algo = "ip-modulo" -> k.iplo % 2
      [] OTHER              -> Hash(k) % 2

(* ffn_ha_decide, for a packet from the wire or from the HA3 link.         *)
Decide(b, p, fromPeer) ==
    IF fromPeer THEN "from-peer"
    ELSE IF FlowOwner(Key(p)) = b THEN "local"
    ELSE IF peerUp[b] THEN "forward" ELSE "takeover"

(* The box that inspects a packet which arrives at b.                      *)
InspectedAt(b, p) == IF Decide(b, p, FALSE) = "forward" THEN Peer(b) ELSE b

-----------------------------------------------------------------------------
(* ffn_ha_state_init's last assignment.                                    *)
StartState(b) ==
    IF b = Primary THEN "active"
    ELSE IF Mode = "active-passive" THEN "passive" ELSE "active-secondary"

Init ==
    /\ alive = [b \in Boxes |-> TRUE]
    /\ peerUp = [b \in Boxes |-> FALSE]
    /\ silence = [b \in Boxes |-> 0]
    /\ trial = [b \in Boxes |-> None]
    /\ hstate = [b \in Boxes |-> StartState(b)]
    /\ hello = [b \in Boxes |-> None]
    /\ beaten = [b \in Boxes |-> FALSE]
    /\ ticked = [b \in Boxes |-> FALSE]
    /\ dead = [b \in Boxes |-> 0]
    /\ apart = [b \in Boxes |-> 0]
    /\ calm = FALSE

(* ffn_ha_state_init, on a box that was down.                              *)
Restart(b) ==
    /\ ~alive[b]
    /\ ~calm
    /\ alive' = [alive EXCEPT ![b] = TRUE]
    /\ peerUp' = [peerUp EXCEPT ![b] = FALSE]
    /\ silence' = [silence EXCEPT ![b] = 0]
    /\ trial' = [trial EXCEPT ![b] = None]
    /\ hstate' = [hstate EXCEPT ![b] = StartState(b)]
    /\ dead' = [dead EXCEPT ![b] = 0]
    /\ apart' = [apart EXCEPT ![b] = 0]
    /\ UNCHANGED <<hello, beaten, ticked, calm>>

(* ffn_ha_build_hello: the box sends its hello of this interval.  One that *)
(* is still on its way is lost.                                            *)
Beat(b) ==
    /\ alive[b] /\ ~beaten[b]
    /\ hello' = [hello EXCEPT ![Peer(b)] = 0]
    /\ beaten' = [beaten EXCEPT ![b] = TRUE]
    /\ UNCHANGED <<alive, peerUp, silence, trial, hstate, ticked, dead, apart,
                   calm>>

(* Mutant: every hello restarts the debounce.                              *)
RestartTrial(b) ==
    /\ alive[b] /\ hello[b] # None
    /\ hello' = [hello EXCEPT ![b] = None]
    /\ silence' = [silence EXCEPT ![b] = 0]
    /\ trial' = [trial EXCEPT ![b] = IF peerUp[b] THEN @ ELSE 0]
    /\ UNCHANGED <<alive, peerUp, hstate, beaten, ticked, dead, apart,
                   calm>>

(* ffn_ha_on_hello.                                                        *)
OnHello(b) ==
    /\ alive[b] /\ hello[b] # None
    /\ hello' = [hello EXCEPT ![b] = None]
    /\ silence' = [silence EXCEPT ![b] = 0]
    /\ trial' = [trial EXCEPT ![b] = IF ~peerUp[b] /\ @ = None THEN 0 ELSE @]
    /\ UNCHANGED <<alive, peerUp, hstate, beaten, ticked, dead, apart,
                   calm>>

(* The control link drops the hello, or the box it is for is down.         *)
LoseHello(b) ==
    /\ hello[b] # None
    /\ ~calm \/ ~alive[b]
    /\ hello' = [hello EXCEPT ![b] = None]
    /\ UNCHANGED <<alive, peerUp, silence, trial, hstate, beaten, ticked, dead,
                   apart, calm>>

(* Mutant: takeover waits for the hold time as well.                       *)
LostPeerLate(b) == peerUp[b] /\ silence[b] > PeerTimeout + Hold
LostPeer(b) == peerUp[b] /\ silence[b] > PeerTimeout

(* Mutant: failback as soon as the peer is heard.                          *)
NoDebounce(b) == ~peerUp[b] /\ trial[b] # None /\ silence[b] <= PeerTimeout
Recovered(b) ==
    /\ ~peerUp[b]
    /\ trial[b] # None
    /\ silence[b] <= PeerTimeout
    /\ trial[b] >= Hold

Aborted(b) == ~peerUp[b] /\ silence[b] > PeerTimeout

(* ffn_ha_tick: down-detection, debounced failback, aborted recovery.      *)
Tick(b) ==
    /\ alive[b] /\ ~ticked[b]
    /\ ticked' = [ticked EXCEPT ![b] = TRUE]
    /\ apart' = [apart EXCEPT ![b] = IF LostPeer(b) THEN 0 ELSE @]
    /\ \/ /\ LostPeer(b)
          /\ peerUp' = [peerUp EXCEPT ![b] = FALSE]
          /\ hstate' = [hstate EXCEPT ![b] = "active"]
          /\ trial' = [trial EXCEPT ![b] = None]
       \/ /\ Recovered(b)
          /\ peerUp' = [peerUp EXCEPT ![b] = TRUE]
          /\ hstate' = [hstate EXCEPT ![b] = IF b = Primary THEN "active"
                                             ELSE "active-secondary"]
          /\ trial' = [trial EXCEPT ![b] = None]
       \/ /\ Aborted(b)
          /\ trial' = [trial EXCEPT ![b] = None]
          /\ UNCHANGED <<peerUp, hstate>>
       \/ /\ ~LostPeer(b) /\ ~Recovered(b) /\ ~Aborted(b)
          /\ UNCHANGED <<peerUp, hstate, trial>>
    /\ UNCHANGED <<alive, silence, hello, beaten, dead, calm>>

(* A box fails.                                                            *)
Fail(b) ==
    /\ alive[b]
    /\ ~calm
    /\ alive' = [alive EXCEPT ![b] = FALSE]
    /\ UNCHANGED <<peerUp, silence, trial, hstate, hello, beaten, ticked, dead,
                   apart, calm>>

Calm ==
    /\ ~calm
    /\ calm' = TRUE
    /\ UNCHANGED <<alive, peerUp, silence, trial, hstate, hello, beaten, ticked,
                   dead, apart>>

(* One heartbeat interval ends.                                            *)
Older(a) == IF a >= Limit THEN a ELSE a + 1
Elapse ==
    /\ \A b \in Boxes : alive[b] => beaten[b] /\ ticked[b]
    /\ \A b \in Boxes : hello[b] < (IF calm THEN 0 ELSE MaxDelay)
    /\ silence' = [b \in Boxes |-> Older(silence[b])]
    /\ trial' = [b \in Boxes |-> IF trial[b] = None THEN None ELSE Older(trial[b])]
    /\ hello' = [b \in Boxes |-> IF hello[b] = None THEN None ELSE hello[b] + 1]
    /\ dead' = [b \in Boxes |-> IF alive[b] THEN 0 ELSE Older(dead[b])]
    /\ apart' = [b \in Boxes |-> IF apart[b] < Hold THEN apart[b] + 1 ELSE Hold]
    /\ beaten' = [b \in Boxes |-> FALSE]
    /\ ticked' = [b \in Boxes |-> FALSE]
    /\ UNCHANGED <<alive, peerUp, hstate, calm>>

Next ==
    \/ \E b \in Boxes : Restart(b) \/ Beat(b) \/ OnHello(b) \/ LoseHello(b)
                        \/ Tick(b) \/ Fail(b)
    \/ Calm
    \/ Elapse

(* The loop that sends hellos and runs the timer never stops, time passes, *)
(* and the control link delivers or loses what it carries.                 *)
Spec == Init /\ [][Next]_vars
FairSpec ==
    /\ Spec
    /\ \A b \in Boxes : /\ WF_vars(Beat(b)) /\ WF_vars(Tick(b))
                        /\ WF_vars(OnHello(b)) /\ WF_vars(LoseHello(b))
    /\ WF_vars(Elapse)

-----------------------------------------------------------------------------
(* Properties.                                                             *)

(* ffn_ha_decide: once a box has been down for longer than its last hello  *)
(* can keep it up in its peer's eyes, no packet is forwarded to it: flows  *)
(* are not black-holed, whatever late hello or debounce was under way.     *)
NoBlackHole ==
    \A b \in Boxes, p \in Packets :
        alive[b] /\ dead[Peer(b)] > MaxDelay + PeerTimeout + 1
          => Decide(b, p, FALSE) # "forward"

(* ffn_ha.h: "both directions of a conversation produce the SAME key, so   *)
(* the same box owns/inspects the whole flow".  It does, wherever each     *)
(* direction arrives, while the boxes agree on each other's health.        *)
OneInspector ==
    (\A b \in Boxes : alive[b] /\ peerUp[b]) =>
      \A p \in Packets, b, c \in Boxes :
        InspectedAt(b, p) = InspectedAt(c, Reverse(p))

(* ffn_ha_tick: while both boxes see each other exactly one of them        *)
(* reports itself the primary.                                             *)
OnePrimary ==
    (\A b \in Boxes : peerUp[b]) =>
      hstate[Primary] = "active" /\ hstate[Peer(Primary)] # "active"

(* ffn_ha_tick, ffn_ha_decide: boxes that see each other agree on their    *)
(* roles, and on who inspects a conversation.                              *)
AgreedRoles == OneInspector /\ OnePrimary

(* ffn_ha_tick: "debounced failback (hold_ms) when the peer returns, to    *)
(* avoid flapping".  A box that declared its peer lost does not trust it   *)
(* again before Hold has passed, and then only if the peer ran within the  *)
(* time its hello can stay valid.                                          *)
NoFlap ==
    [][\A b \in Boxes : ~peerUp[b] /\ peerUp'[b] =>
         apart[b] >= Hold /\ dead[Peer(b)] <= MaxDelay + PeerTimeout + 1]_vars

(* ffn_ha_tick and ffn_ha_on_hello: once boxes and links stay well, both   *)
(* boxes see each other again and stay so.                                 *)
PairReforms ==
    (calm /\ \A b \in Boxes : alive[b]) ~> [](\A b \in Boxes : peerUp[b])

(* ffn_ha.h on hold_ms: "tentative-hold before takeover (anti-flap)", and  *)
(* on ffn_ha_tick: "flips peer_up->false past the timeout (with            *)
(* tentative-hold)".                                                       *)
HoldBeforeTakeover ==
    [][\A b \in Boxes : alive[b] /\ alive'[b] /\ peerUp[b] /\ ~peerUp'[b] =>
         silence[b] > PeerTimeout + Hold]_vars
=============================================================================
