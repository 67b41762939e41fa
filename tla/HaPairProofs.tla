---------------------------- MODULE HaPairProofs ----------------------------
(***************************************************************************)
(* Proofs about HaPair: for all timeouts, hold times, delays, hash         *)
(* functions and address ranges, no flow is black-holed, boxes that see    *)
(* each other agree, and failback is debounced.                            *)
(*                                                                         *)
(* The argument follows the ages.  A hello is at least as old as its       *)
(* sender's death; a box's silence is younger than that hello's arrival by *)
(* at most MaxDelay; and a box that holds its peer for up has silence at   *)
(* most one interval past the timeout, because an interval ends only after *)
(* its timer has run.                                                      *)
(***************************************************************************)
EXTENDS HaPair, TLAPS

HaTypes ==
    /\ alive \in [Boxes -> BOOLEAN] /\ peerUp \in [Boxes -> BOOLEAN]
    /\ silence \in [Boxes -> 0..Limit]
    /\ trial \in [Boxes -> (0..Limit) \cup {None}]
    /\ hstate \in [Boxes -> {"active", "passive", "active-secondary"}]
    /\ hello \in [Boxes -> (0..MaxDelay) \cup {None}]
    /\ beaten \in [Boxes -> BOOLEAN] /\ ticked \in [Boxes -> BOOLEAN]
    /\ dead \in [Boxes -> 0..Limit]
    /\ apart \in [Boxes -> 0..Hold]
    /\ calm \in BOOLEAN

(* A live box has been down for no time, and a hello on its way is at      *)
(* least as old as the death of the box that sent it.                      *)
HelloIsOld(b) ==
    /\ alive[b] => dead[b] = 0
    /\ hello[b] # None => dead[Peer(b)] <= hello[b]

(* What b believes of its peer, or tries to, rests on a hello.             *)
SilenceIsOld(b) ==
    peerUp[b] \/ trial[b] # None => dead[Peer(b)] <= silence[b] + MaxDelay

(* The timer has run in every interval that ended.                         *)
TimerRuns(b) ==
    alive[b] /\ peerUp[b] => silence[b] <= PeerTimeout + (IF ticked[b] THEN 0 ELSE 1)

(* A recovery is no older than the time since the peer was held for lost.  *)
TrialIsYoung(b) == trial[b] # None => apart[b] >= trial[b] \/ apart[b] = Hold

Roles ==
    /\ hstate[Primary] = "active"
    /\ peerUp[1] => hstate[1] = "active-secondary"

HaInv ==
    /\ HaTypes
    /\ \A b \in Boxes : HelloIsOld(b) /\ SilenceIsOld(b) /\ TimerRuns(b) /\ TrialIsYoung(b)
    /\ Roles

-----------------------------------------------------------------------------
LEMMA Bounds ==
    /\ PeerTimeout \in Nat /\ Hold \in Nat /\ MaxDelay \in Nat /\ Limit \in Nat
    /\ Hold <= Limit /\ Limit = PeerTimeout + MaxDelay + 3
    /\ None = -1 /\ Boxes = {0, 1} /\ Primary = 0
    /\ \A b \in Boxes : Peer(b) \in Boxes /\ Peer(b) # b /\ Peer(Peer(b)) = b
  BY HaAssumption DEF Limit, None, Boxes, Primary, Peer

LEMMA HaInitially == Init => HaInv
  <1> SUFFICES ASSUME Init PROVE HaInv
    OBVIOUS
  <1> USE Bounds
  <1>1. HaTypes
    <2>1. \A b \in Boxes : StartState(b) \in {"active", "passive", "active-secondary"}
      BY DEF StartState
    <2>2. hstate \in [Boxes -> {"active", "passive", "active-secondary"}]
      BY <2>1 DEF Init
    <2>3. 0 \in 0..Limit /\ 0 \in 0..Hold
      OBVIOUS
    <2>4. /\ silence \in [Boxes -> 0..Limit] /\ dead \in [Boxes -> 0..Limit]
          /\ apart \in [Boxes -> 0..Hold]
      BY <2>3 DEF Init
    <2>5. /\ alive \in [Boxes -> BOOLEAN] /\ peerUp \in [Boxes -> BOOLEAN]
          /\ beaten \in [Boxes -> BOOLEAN] /\ ticked \in [Boxes -> BOOLEAN]
          /\ calm \in BOOLEAN
      BY DEF Init
    <2>6. /\ trial \in [Boxes -> (0..Limit) \cup {None}]
          /\ hello \in [Boxes -> (0..MaxDelay) \cup {None}]
      BY DEF Init
    <2> QED BY <2>2, <2>4, <2>5, <2>6 DEF HaTypes
  <1>2. ASSUME NEW b \in Boxes
        PROVE  HelloIsOld(b) /\ SilenceIsOld(b) /\ TimerRuns(b) /\ TrialIsYoung(b)
    BY <1>2 DEF Init, HelloIsOld, SilenceIsOld, TimerRuns, TrialIsYoung
  <1>3. Roles
    BY DEF Init, StartState, Roles
  <1> QED BY <1>1, <1>2, <1>3 DEF HaInv

LEMMA RestartKeeps ==
    ASSUME HaInv, NEW b \in Boxes, Restart(b)
    PROVE  HaInv'
  <1> USE Bounds
  <1>1. HaTypes'
    BY DEF Restart, StartState, HaInv, HaTypes
  <1>2. ASSUME NEW c \in Boxes
        PROVE  (HelloIsOld(c) /\ SilenceIsOld(c) /\ TimerRuns(c) /\ TrialIsYoung(c))'
    <2>1. HelloIsOld(c)'
      BY <1>1, <1>2 DEF Restart, StartState, HaInv, HaTypes, HelloIsOld, SilenceIsOld, TimerRuns,
         TrialIsYoung, Roles
    <2>2. SilenceIsOld(c)'
      BY <1>1, <1>2 DEF Restart, StartState, HaInv, HaTypes, HelloIsOld, SilenceIsOld, TimerRuns,
         TrialIsYoung, Roles
    <2>3. TimerRuns(c)'
      BY <1>1, <1>2 DEF Restart, StartState, HaInv, HaTypes, HelloIsOld, SilenceIsOld, TimerRuns,
         TrialIsYoung, Roles
    <2>4. TrialIsYoung(c)'
      BY <1>1, <1>2 DEF Restart, StartState, HaInv, HaTypes, HelloIsOld, SilenceIsOld, TimerRuns,
         TrialIsYoung, Roles
    <2> QED BY <2>1, <2>2, <2>3, <2>4
  <1>3. Roles'
    BY <1>1 DEF Restart, StartState, HaInv, HaTypes, Roles
  <1> QED BY <1>1, <1>2, <1>3 DEF HaInv

LEMMA BeatKeeps ==
    ASSUME HaInv, NEW b \in Boxes, Beat(b)
    PROVE  HaInv'
  <1> USE Bounds
  <1>1. HaTypes'
    BY DEF Beat, HaInv, HaTypes
  <1>2. ASSUME NEW c \in Boxes
        PROVE  (HelloIsOld(c) /\ SilenceIsOld(c) /\ TimerRuns(c) /\ TrialIsYoung(c))'
    <2>1. HelloIsOld(c)'
      BY <1>1, <1>2 DEF Beat, HaInv, HaTypes, HelloIsOld, SilenceIsOld, TimerRuns, TrialIsYoung,
         Roles
    <2>2. SilenceIsOld(c)'
      BY <1>1, <1>2 DEF Beat, HaInv, HaTypes, HelloIsOld, SilenceIsOld, TimerRuns, TrialIsYoung,
         Roles
    <2>3. TimerRuns(c)'
      BY <1>1, <1>2 DEF Beat, HaInv, HaTypes, HelloIsOld, SilenceIsOld, TimerRuns, TrialIsYoung,
         Roles
    <2>4. TrialIsYoung(c)'
      BY <1>1, <1>2 DEF Beat, HaInv, HaTypes, HelloIsOld, SilenceIsOld, TimerRuns, TrialIsYoung,
         Roles
    <2> QED BY <2>1, <2>2, <2>3, <2>4
  <1>3. Roles'
    BY <1>1 DEF Beat, HaInv, HaTypes, Roles
  <1> QED BY <1>1, <1>2, <1>3 DEF HaInv

LEMMA OnHelloKeeps ==
    ASSUME HaInv, NEW b \in Boxes, OnHello(b)
    PROVE  HaInv'
  <1> USE Bounds
  <1>1. HaTypes'
    BY DEF OnHello, HaInv, HaTypes
  <1>2. ASSUME NEW c \in Boxes
        PROVE  (HelloIsOld(c) /\ SilenceIsOld(c) /\ TimerRuns(c) /\ TrialIsYoung(c))'
    <2>1. HelloIsOld(c)'
      BY <1>1, <1>2 DEF OnHello, HaInv, HaTypes, HelloIsOld, SilenceIsOld, TimerRuns, TrialIsYoung,
         Roles
    <2>2. SilenceIsOld(c)'
      BY <1>1, <1>2 DEF OnHello, HaInv, HaTypes, HelloIsOld, SilenceIsOld, TimerRuns, TrialIsYoung,
         Roles
    <2>3. TimerRuns(c)'
      BY <1>1, <1>2 DEF OnHello, HaInv, HaTypes, HelloIsOld, SilenceIsOld, TimerRuns, TrialIsYoung,
         Roles
    <2>4. TrialIsYoung(c)'
      BY <1>1, <1>2 DEF OnHello, HaInv, HaTypes, HelloIsOld, SilenceIsOld, TimerRuns, TrialIsYoung,
         Roles
    <2> QED BY <2>1, <2>2, <2>3, <2>4
  <1>3. Roles'
    BY <1>1 DEF OnHello, HaInv, HaTypes, Roles
  <1> QED BY <1>1, <1>2, <1>3 DEF HaInv

LEMMA LoseHelloKeeps ==
    ASSUME HaInv, NEW b \in Boxes, LoseHello(b)
    PROVE  HaInv'
  <1> USE Bounds
  <1>1. HaTypes'
    BY DEF LoseHello, HaInv, HaTypes
  <1>2. ASSUME NEW c \in Boxes
        PROVE  (HelloIsOld(c) /\ SilenceIsOld(c) /\ TimerRuns(c) /\ TrialIsYoung(c))'
    <2>1. HelloIsOld(c)'
      BY <1>1, <1>2 DEF LoseHello, HaInv, HaTypes, HelloIsOld, SilenceIsOld, TimerRuns,
         TrialIsYoung, Roles
    <2>2. SilenceIsOld(c)'
      BY <1>1, <1>2 DEF LoseHello, HaInv, HaTypes, HelloIsOld, SilenceIsOld, TimerRuns,
         TrialIsYoung, Roles
    <2>3. TimerRuns(c)'
      BY <1>1, <1>2 DEF LoseHello, HaInv, HaTypes, HelloIsOld, SilenceIsOld, TimerRuns,
         TrialIsYoung, Roles
    <2>4. TrialIsYoung(c)'
      BY <1>1, <1>2 DEF LoseHello, HaInv, HaTypes, HelloIsOld, SilenceIsOld, TimerRuns,
         TrialIsYoung, Roles
    <2> QED BY <2>1, <2>2, <2>3, <2>4
  <1>3. Roles'
    BY <1>1 DEF LoseHello, HaInv, HaTypes, Roles
  <1> QED BY <1>1, <1>2, <1>3 DEF HaInv

LEMMA TickKeeps ==
    ASSUME HaInv, NEW b \in Boxes, Tick(b)
    PROVE  HaInv'
  <1> USE Bounds
  <1>1. HaTypes'
    <2>1. trial' = trial \/ trial' = [trial EXCEPT ![b] = None]
      BY DEF Tick, HaInv, HaTypes
    <2>2. \E u \in BOOLEAN : peerUp' = [peerUp EXCEPT ![b] = u]
      <3>1. peerUp' = peerUp => peerUp' = [peerUp EXCEPT ![b] = peerUp[b]]
        BY DEF HaInv, HaTypes
      <3> QED BY <3>1 DEF Tick, HaInv, HaTypes
    <2>3. hstate' \in [Boxes -> {"active", "passive", "active-secondary"}]
      BY DEF Tick, HaInv, HaTypes
    <2>4. apart' \in [Boxes -> 0..Hold]
      <3>1. \A k \in {apart[b], 0} : [apart EXCEPT ![b] = k] \in [Boxes -> 0..Hold]
        BY DEF HaInv, HaTypes
      <3> QED BY <3>1 DEF Tick
    <2>5. /\ ticked' \in [Boxes -> BOOLEAN]
          /\ UNCHANGED <<alive, silence, hello, beaten, dead, calm>>
      BY DEF Tick, HaInv, HaTypes
    <2> QED BY <2>1, <2>2, <2>3, <2>4, <2>5 DEF HaInv, HaTypes
  <1>2. ASSUME NEW c \in Boxes
        PROVE  (HelloIsOld(c) /\ SilenceIsOld(c) /\ TimerRuns(c) /\ TrialIsYoung(c))'
    <2>1. HelloIsOld(c)'
      BY <1>1, <1>2 DEF Tick, LostPeer, Recovered, Aborted, HaInv, HaTypes, HelloIsOld,
         SilenceIsOld, TimerRuns, TrialIsYoung, Roles
    <2>2. SilenceIsOld(c)'
      BY <1>1, <1>2 DEF Tick, LostPeer, Recovered, Aborted, HaInv, HaTypes, HelloIsOld,
         SilenceIsOld, TimerRuns, TrialIsYoung, Roles
    <2>3. TimerRuns(c)'
      BY <1>1, <1>2 DEF Tick, LostPeer, Recovered, Aborted, HaInv, HaTypes, HelloIsOld,
         SilenceIsOld, TimerRuns, TrialIsYoung, Roles
    <2>4. TrialIsYoung(c)'
      BY <1>1, <1>2 DEF Tick, LostPeer, Recovered, Aborted, HaInv, HaTypes, HelloIsOld,
         SilenceIsOld, TimerRuns, TrialIsYoung, Roles
    <2> QED BY <2>1, <2>2, <2>3, <2>4
  <1>3. Roles'
    BY <1>1 DEF Tick, LostPeer, Recovered, Aborted, HaInv, HaTypes, Roles
  <1> QED BY <1>1, <1>2, <1>3 DEF HaInv

LEMMA FailKeeps ==
    ASSUME HaInv, NEW b \in Boxes, Fail(b)
    PROVE  HaInv'
  <1> USE Bounds
  <1>1. HaTypes'
    BY DEF Fail, HaInv, HaTypes
  <1>2. ASSUME NEW c \in Boxes
        PROVE  (HelloIsOld(c) /\ SilenceIsOld(c) /\ TimerRuns(c) /\ TrialIsYoung(c))'
    <2>1. HelloIsOld(c)'
      BY <1>1, <1>2 DEF Fail, HaInv, HaTypes, HelloIsOld, SilenceIsOld, TimerRuns, TrialIsYoung,
         Roles
    <2>2. SilenceIsOld(c)'
      BY <1>1, <1>2 DEF Fail, HaInv, HaTypes, HelloIsOld, SilenceIsOld, TimerRuns, TrialIsYoung,
         Roles
    <2>3. TimerRuns(c)'
      BY <1>1, <1>2 DEF Fail, HaInv, HaTypes, HelloIsOld, SilenceIsOld, TimerRuns, TrialIsYoung,
         Roles
    <2>4. TrialIsYoung(c)'
      BY <1>1, <1>2 DEF Fail, HaInv, HaTypes, HelloIsOld, SilenceIsOld, TimerRuns, TrialIsYoung,
         Roles
    <2> QED BY <2>1, <2>2, <2>3, <2>4
  <1>3. Roles'
    BY <1>1 DEF Fail, HaInv, HaTypes, Roles
  <1> QED BY <1>1, <1>2, <1>3 DEF HaInv

LEMMA ElapseKeeps ==
    ASSUME HaInv, Elapse
    PROVE  HaInv'
  <1> USE Bounds
  <1>1. \A a \in 0..Limit : /\ Older(a) \in 0..Limit /\ Older(a) >= a
                            /\ Older(a) = a + 1 \/ Older(a) = Limit
    BY DEF Older
  <1>2. \A b \in Boxes : hello[b] # None => hello[b] < MaxDelay
    BY DEF Elapse, HaInv, HaTypes
  <1>3. HaTypes'
    <2>1. /\ silence' \in [Boxes -> 0..Limit]
          /\ trial' \in [Boxes -> (0..Limit) \cup {None}]
      BY <1>1 DEF Elapse, HaInv, HaTypes
    <2>2. hello' \in [Boxes -> (0..MaxDelay) \cup {None}]
      BY <1>2 DEF Elapse, HaInv, HaTypes
    <2>3. dead' \in [Boxes -> 0..Limit]
      BY <1>1 DEF Elapse, HaInv, HaTypes
    <2>4. apart' \in [Boxes -> 0..Hold]
      BY DEF Elapse, HaInv, HaTypes
    <2>5. beaten' \in [Boxes -> BOOLEAN] /\ ticked' \in [Boxes -> BOOLEAN]
      BY DEF Elapse
    <2> QED BY <2>1, <2>2, <2>3, <2>4, <2>5 DEF Elapse, HaInv, HaTypes
  <1>4. ASSUME NEW b \in Boxes
        PROVE  (HelloIsOld(b) /\ SilenceIsOld(b) /\ TimerRuns(b) /\ TrialIsYoung(b))'
    <2> DEFINE q == Peer(b)
    <2>0. /\ q \in Boxes
          /\ silence[b] \in 0..Limit /\ trial[b] \in (0..Limit) \cup {None}
          /\ hello[b] \in (0..MaxDelay) \cup {None} /\ apart[b] \in 0..Hold
          /\ dead[q] \in 0..Limit /\ (alive[q] => dead[q] = 0)
      BY DEF HaInv, HaTypes, HelloIsOld
    <2>1. /\ silence'[b] = Older(silence[b]) /\ alive' = alive /\ peerUp' = peerUp
          /\ trial'[b] = IF trial[b] = None THEN None ELSE Older(trial[b])
          /\ hello'[b] = IF hello[b] = None THEN None ELSE hello[b] + 1
          /\ dead'[b] = IF alive[b] THEN 0 ELSE Older(dead[b])
          /\ dead'[q] = IF alive[q] THEN 0 ELSE Older(dead[q])
          /\ apart'[b] = IF apart[b] < Hold THEN apart[b] + 1 ELSE Hold
      BY <2>0 DEF Elapse
    <2> HIDE DEF q
    <2>2. HelloIsOld(b)'
      <3>1. hello[b] # None => dead[q] <= hello[b]
        BY DEF HaInv, HelloIsOld, q
      <3>2. hello'[b] # None => dead'[q] <= hello'[b]
        BY <2>0, <2>1, <3>1 DEF Older
      <3> QED BY <2>1, <3>2 DEF HelloIsOld, q
    <2>3. SilenceIsOld(b)'
      <3>1. peerUp[b] \/ trial[b] # None => dead[q] <= silence[b] + MaxDelay
        BY DEF HaInv, SilenceIsOld, q
      <3>2. peerUp[b] \/ trial[b] # None => dead'[q] <= silence'[b] + MaxDelay
        BY <2>0, <2>1, <3>1 DEF Older
      <3> QED BY <2>1, <3>2 DEF SilenceIsOld, q
    <2>4. TimerRuns(b)'
      BY <1>1, <1>3 DEF Elapse, HaInv, HaTypes, TimerRuns, Older
    <2>5. TrialIsYoung(b)'
      <3>1. trial[b] # None => apart[b] >= trial[b] \/ apart[b] = Hold
        BY DEF HaInv, TrialIsYoung
      <3> QED BY <2>0, <2>1, <3>1 DEF TrialIsYoung, Older
    <2> QED BY <2>2, <2>3, <2>4, <2>5
  <1>5. Roles'
    BY DEF Elapse, HaInv, Roles
  <1> QED BY <1>3, <1>4, <1>5 DEF HaInv

LEMMA StutterKeeps ==
    ASSUME HaInv, Calm \/ UNCHANGED vars
    PROVE  HaInv'
  BY DEF Calm, vars, HaInv, HaTypes, HelloIsOld, SilenceIsOld, TimerRuns, TrialIsYoung, Roles

LEMMA HaStep == ASSUME HaInv, [Next]_vars PROVE HaInv'
  BY RestartKeeps, BeatKeeps, OnHelloKeeps, LoseHelloKeeps, TickKeeps, FailKeeps, ElapseKeeps,
     StutterKeeps DEF Next

LEMMA HaInvariance == Spec => []HaInv
  BY HaInitially, HaStep, PTL DEF Spec

-----------------------------------------------------------------------------
(* Flows are not black-holed: a box that has been down for longer than     *)
(* MaxDelay + PeerTimeout + 1 intervals is sent no packet by its peer.     *)
THEOREM FlowsSurvive == Spec => []NoBlackHole
  <1>1. HaInv => NoBlackHole
    <2> SUFFICES ASSUME HaInv, NEW b \in Boxes, NEW p \in Packets, alive[b],
                        dead[Peer(b)] > MaxDelay + PeerTimeout + 1
                 PROVE  Decide(b, p, FALSE) # "forward"
      BY DEF NoBlackHole
    <2>1. ~peerUp[b]
      BY Bounds DEF HaInv, HaTypes, SilenceIsOld, TimerRuns
    <2> QED BY <2>1 DEF Decide
  <1> QED BY <1>1, HaInvariance, PTL

(* ffn_ha_normalize_key: both directions of a conversation have one key.   *)
LEMMA KeyIsSymmetric == ASSUME NEW p \in Packets PROVE Key(Reverse(p)) = Key(p)
  <1>1. /\ p.sip \in Ips /\ p.dip \in Ips /\ p.sport \in Ports /\ p.dport \in Ports
    BY DEF Packets
  <1>2. /\ p.sip \in Int /\ p.dip \in Int /\ p.sport \in Int /\ p.dport \in Int
    <2>1. \A n \in Ips \cup Ports : n \in Int
      BY HaAssumption
    <2> QED BY <1>1, <2>1
  <1> QED BY <1>2 DEF Key, Reverse

(* ... and the owner of a key is one of the two boxes.                     *)
LEMMA OwnerIsBox == ASSUME NEW p \in Packets PROVE FlowOwner(Key(p)) \in Boxes
  <1>1. Key(p).iplo \in Nat
    BY HaAssumption DEF Packets, Key
  <1>2. Hash(Key(p)) \in Nat
    BY HashAssumption
  <1> QED BY <1>1, <1>2, Bounds DEF FlowOwner

(* Boxes that see each other send both directions of a conversation to one *)
(* inspector, and exactly the primary reports itself active.               *)
THEOREM RolesAgree == Spec => []AgreedRoles
  <1>1. OneInspector
    <2> SUFFICES ASSUME \A b \in Boxes : alive[b] /\ peerUp[b],
                        NEW p \in Packets, NEW b \in Boxes, NEW c \in Boxes
                 PROVE  InspectedAt(b, p) = InspectedAt(c, Reverse(p))
      BY DEF OneInspector
    <2>1. \A q \in Packets, d \in Boxes : InspectedAt(d, q) = FlowOwner(Key(q))
      BY OwnerIsBox DEF InspectedAt, Decide, Boxes, Peer
    <2>2. Reverse(p) \in Packets
      BY DEF Packets, Reverse
    <2> QED BY <2>1, <2>2, KeyIsSymmetric
  <1>2. HaInv => OnePrimary
    BY Bounds DEF HaInv, Roles, OnePrimary, Peer
  <1> QED BY <1>1, <1>2, HaInvariance, PTL DEF AgreedRoles

(* A peer that was held for lost is trusted again only after Hold, and     *)
(* only if it ran within the time its hello can stay valid.                *)
THEOREM FailbackIsDebounced == Spec => NoFlap
  <1>1. ASSUME HaInv, [Next]_vars, NEW b \in Boxes, ~peerUp[b], peerUp'[b]
        PROVE  apart[b] >= Hold /\ dead[Peer(b)] <= MaxDelay + PeerTimeout + 1
    <2>1. ~(Calm \/ Elapse \/ UNCHANGED vars)
      BY <1>1 DEF Calm, Elapse, vars
    <2>2. PICK c \in Boxes : Restart(c) \/ Beat(c) \/ OnHello(c) \/ LoseHello(c) \/ Tick(c) \/ Fail(c)
      BY <1>1, <2>1 DEF Next
    <2>3. Tick(c) /\ Recovered(c) /\ c = b
      BY <1>1, <2>2 DEF Restart, Beat, OnHello, LoseHello, Fail, Tick, HaInv, HaTypes
    <2> QED
      BY <1>1, <2>3, Bounds DEF Recovered, HaInv, HaTypes, SilenceIsOld, TrialIsYoung
  <1>2. HaInv /\ [Next]_vars =>
          [\A b \in Boxes : ~peerUp[b] /\ peerUp'[b] =>
             apart[b] >= Hold /\ dead[Peer(b)] <= MaxDelay + PeerTimeout + 1]_vars
    BY <1>1
  <1> QED BY <1>2, HaInvariance, PTL DEF Spec, NoFlap
=============================================================================
