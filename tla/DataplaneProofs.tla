-------------------------- MODULE DataplaneProofs --------------------------
(***************************************************************************)
(* What the dataplane remembers it remembers rightly, for every number of  *)
(* flows, slots, files, workers and frames: the flow cache of the Octeon   *)
(* forwarder, the leases of the conntrack module, the banks of the DPDK    *)
(* dataplane.                                                              *)
(***************************************************************************)
EXTENDS DpForwarder, CtLease, DpBanks, WellFoundedInduction, TLAPS

(* Every set of numbers that is not empty has a least one.                 *)
LEMMA Least == ASSUME NEW T, T \subseteq Nat, T # {} PROVE \E x \in T : \A y \in T : x <= y
  <1>1. \E x \in T : \A y \in T : ~(<<y, x>> \in OpToRel(<, Nat))
    BY NatLessThanWellFounded, WFMin, Zenon
  <1>2. \A x, y \in Nat : <<y, x>> \in OpToRel(<, Nat) <=> y < x
    BY DEF OpToRel
  <1>3. \E x \in T : \A y \in T : ~(y < x)
    BY <1>1, <1>2, Zenon
  <1> QED BY <1>3

-----------------------------------------------------------------------------
(*************************************************************************)
(* dp_process: the flow cache.                                           *)
(*************************************************************************)
Keys == {Key(p) : p \in Packets}
Entries == [key : Keys \cup {NoKey}, verdict : {"unset", "allow", "drop"}, inspect : BOOLEAN]

(* What an entry says: a verdict in the cache is one that tables in force   *)
(* since the flush gave a packet of the conversation.                      *)
Earned(e) ==
    /\ e.verdict # "unset" =>
         \E r \in regime, q \in Packets : Key(q) = e.key /\ FromEntry(e) = Classify(r.t, r.d, q)
    /\ e.verdict = "unset" => ~e.inspect
    /\ e.key = NoKey => e.verdict = "unset"

CacheInv == ent \in [Slots -> Entries] /\ Findable /\ \A s \in Slots : Earned(ent[s])

(* What the forwarder works with is in force, and commands are served only *)
(* between two bursts of packets.                                          *)
PollInv ==
    /\ [t |-> tables, d |-> default] \in regime
    /\ last = NoPacket \/ (last.pkt \in Packets /\ poll = "packets")

ForwardInv == CacheInv /\ PollInv /\ FollowsPolicy

-----------------------------------------------------------------------------
LEMMA SlotsAre ==
    /\ FlowSlots \in Nat \ {0} /\ Slots = 0..FlowSlots - 1 /\ NoSlot \notin Slots
    /\ \A n \in Nat : n % FlowSlots \in Slots
  BY ForwarderAssumption DEF Slots, NoSlot

LEMMA KeysAre ==
    /\ NoKey \notin Keys
    /\ \A k \in Keys : Hash(k) \in Nat
    /\ \A p \in Packets : Key(p) \in Keys
  BY FlowHashAssumption DEF Keys, NoKey, Key

(* The i-th slot that the probe for k looks at.                            *)
At(k, i) == (Hash(k) + i) % FlowSlots

LEMMA AtIsSlot == ASSUME NEW k \in Keys, NEW i \in Slots PROVE At(k, i) \in Slots
  <1>0. Hash(k) \in Nat
    BY KeysAre
  <1>a. \A j \in Slots : j \in Nat
    BY SlotsAre
  <1>b. i \in Nat
    BY <1>a
  <1>1. Hash(k) + i \in Nat
    BY <1>0, <1>b
  <1> QED BY <1>1, SlotsAre DEF At

(* A probe stops at the first slot that is free or the key's.              *)
Stops(k, i) == ent[At(k, i)].key \in {NoKey, k}
First(k, i) == i \in Slots /\ Stops(k, i) /\ \A j \in Slots : j < i => ~Stops(k, j)

LEMMA ProbeIs == ASSUME NEW k, NEW i, First(k, i) PROVE Probe(k) = At(k, i)
  <1> DEFINE ends == {j \in Slots : Stops(k, j)}
             low == CHOOSE j \in ends : \A l \in ends : j <= l
  <1>0. Slots \subseteq Nat
    BY SlotsAre
  <1>1. i \in ends /\ \A l \in ends : i <= l
    BY <1>0 DEF First
  <1>2. low \in ends /\ \A l \in ends : low <= l
    BY <1>1
  <1>3. low = i
    <2> HIDE DEF low
    <2> QED BY <1>0, <1>1, <1>2
  <1>4. Probe(k) = IF ends = {} THEN NoSlot ELSE At(k, low)
    BY DEF Probe, Stops, At
  <1> HIDE DEF low, ends
  <1> QED BY <1>1, <1>3, <1>4

LEMMA ProbeFinds ==
    ASSUME NEW k \in Keys, Probe(k) # NoSlot
    PROVE  \E i : First(k, i) /\ Probe(k) = At(k, i)
  <1> DEFINE ends == {j \in Slots : Stops(k, j)}
  <1>1. ends # {}
    BY DEF Probe, Stops, At
  <1>2. PICK i \in ends : \A j \in ends : i <= j
    <2>1. ends \subseteq Nat
      BY SlotsAre
    <2> HIDE DEF ends
    <2> QED BY <1>1, <2>1, Least
  <1>3. First(k, i)
    BY <1>2, SlotsAre DEF First
  <1> QED BY <1>3, ProbeIs

(* An entry is found under its key exactly when its slot is the first.     *)
FoundIsFirst ==
    \A k \in Keys, s \in Slots :
       ent[s].key = k => (Lookup(k) = s <=> \E i : First(k, i) /\ s = At(k, i))

LEMMA FoundFirst == FoundIsFirst
  <1> SUFFICES ASSUME NEW k \in Keys, NEW s \in Slots, ent[s].key = k
               PROVE  Lookup(k) = s <=> \E i : First(k, i) /\ s = At(k, i)
    BY DEF FoundIsFirst
  <1>1. s # NoSlot
    BY SlotsAre
  <1>2. Lookup(k) = s => Probe(k) = s
    BY <1>1 DEF Lookup
  <1>3. Probe(k) = s => Lookup(k) = s
    BY <1>1 DEF Lookup
  <1> QED BY <1>1, <1>2, <1>3, ProbeIs, ProbeFinds

LEMMA FoundFirstNext == FoundIsFirst'
  BY FoundFirst, PTL

(* dp_flow_insert: what is put where the probe for k stopped hides nobody. *)
LEMMA InsertKeeps ==
    ASSUME ent \in [Slots -> Entries], Findable, NEW k \in Keys, Probe(k) # NoSlot,
           NEW e \in Entries, e.key = k, ent' = [ent EXCEPT ![Probe(k)] = e]
    PROVE  Findable'
  <1>1. PICK i : First(k, i) /\ Probe(k) = At(k, i)
    BY ProbeFinds
  <1> DEFINE p == At(k, i)
  <1>2. p \in Slots /\ i \in Slots
    BY <1>1, AtIsSlot DEF First
  <1>3. ent[p].key \in {NoKey, k}
    BY <1>1 DEF First, Stops
  <1>4. /\ ent'[p].key = k
        /\ \A s \in Slots : s # p => ent'[s] = ent[s]
    BY <1>1, <1>2
  <1>5. \A l, j : l \in Keys /\ j \in Slots => At(l, j) \in Slots
    BY AtIsSlot
  <1>6. ASSUME NEW s \in Slots, ent'[s].key # NoKey
        PROVE  Lookup(ent[s].key)' = s
    <2>0. ent'[s].key \in Keys
      <3>1. ent'[s] \in Entries
        BY <1>1, <1>2
      <3> QED BY <3>1, <1>6 DEF Entries
    <2>1. PICK l \in Keys : l = ent'[s].key
      BY <2>0
    <2>2. \E j : First(l, j)' /\ s = At(l, j)
      <3>1. CASE s = p
        <4>1. l = k
          BY <1>4, <2>1, <3>1
        <4>2. First(k, i)'
          <5>1. Stops(k, i)'
            BY <1>4 DEF Stops
          <5>2. ASSUME NEW j \in Slots, j < i  PROVE ~Stops(k, j)'
            <6>1. ~Stops(k, j)
              BY <1>1, <5>2 DEF First
            <6>2. At(k, j) # p
              BY <6>1, <1>3 DEF Stops
            <6> QED BY <6>1, <6>2, <1>4, <1>5 DEF Stops
          <5> QED BY <5>1, <5>2, <1>2 DEF First
        <4> QED BY <4>1, <4>2, <3>1
      <3>2. CASE s # p
        <4>1. ent[s].key = l
          BY <1>4, <2>1, <3>2
        <4>2. Lookup(l) = s
          BY <4>1, <2>1, KeysAre DEF Findable
        <4>3. PICK j : First(l, j) /\ s = At(l, j)
          BY <4>1, <4>2, <2>1, FoundFirst DEF FoundIsFirst
        <4>4. j \in Slots
          BY <4>3 DEF First
        <4>5. Stops(l, j)'
          BY <2>1, <4>3 DEF Stops
        <4>6. l # k
          <5>1. SUFFICES ASSUME l = k PROVE FALSE
            OBVIOUS
          <5>2. Probe(l) = s
            BY <4>3, ProbeIs
          <5> QED BY <5>1, <5>2, <3>2, <1>1
        <4>7. ASSUME NEW m \in Slots, m < j  PROVE ~Stops(l, m)'
          <5>1. ~Stops(l, m)
            BY <4>3, <4>7 DEF First
          <5>2. CASE At(l, m) = p
            BY <5>2, <1>4, <4>6, KeysAre DEF Stops
          <5>3. CASE At(l, m) # p
            BY <5>1, <5>3, <1>4, <1>5, <2>1 DEF Stops
          <5> QED BY <5>2, <5>3
        <4> QED BY <4>3, <4>4, <4>5, <4>7 DEF First
      <3> QED BY <3>1, <3>2
    <2>4. (Lookup(l) = s)'
      BY <2>1, <2>2, FoundFirstNext DEF FoundIsFirst
    <2> QED BY <2>4, <2>1
  <1> QED BY <1>6 DEF Findable

(* One key, one conversation.                                              *)
LEMMA SameKey ==
    ASSUME NEW p \in Packets, NEW q \in Packets, Key(q) = Key(p)
    PROVE  q \in {p, Mirrored(p)}
  <1>1. /\ p.src \in Nat /\ p.dst \in Nat /\ q.src \in Nat /\ q.dst \in Nat
        /\ p = [src |-> p.src, dst |-> p.dst] /\ q = [src |-> q.src, dst |-> q.dst]
    BY ForwarderAssumption DEF Packets
  <1>2. \/ q.src = p.src /\ q.dst = p.dst
        \/ q.src = p.dst /\ q.dst = p.src
    BY <1>1 DEF Key
  <1> QED BY <1>1, <1>2 DEF Mirrored

(* An emptied table holds nothing that could be wrong.                     *)
LEMMA FlushedInv == ASSUME ent' = Flushed PROVE CacheInv'
  <1>1. Free \in Entries
    BY DEF Free, Entries
  <1>2. ent' \in [Slots -> Entries]
    BY <1>1 DEF Flushed
  <1>3. \A s \in Slots : ent'[s] = Free
    BY DEF Flushed
  <1>4. \A s \in Slots : ent'[s].key = NoKey /\ ent'[s].verdict = "unset" /\ ~ent'[s].inspect
    BY <1>3 DEF Free
  <1>5. Findable'
    BY <1>4 DEF Findable
  <1> QED BY <1>2, <1>4, <1>5 DEF CacheInv, Earned

(* A verdict stays earned while more tables come into force.               *)
LEMMA KeptInv == ASSUME CacheInv, ent' = ent, regime \subseteq regime' PROVE CacheInv'
  <1>1. Findable'
    BY DEF CacheInv, Findable, Lookup, Probe
  <1>2. ASSUME NEW s \in Slots PROVE Earned(ent[s])'
    <2>1. Earned(ent[s])
      BY DEF CacheInv
    <2> QED BY <2>1 DEF Earned
  <1> QED BY <1>1, <1>2 DEF CacheInv

LEMMA InitForward == ForwardInit => ForwardInv
  <1> SUFFICES ASSUME ForwardInit PROVE ForwardInv
    OBVIOUS
  <1>1. \A s \in Slots : ent[s] = Free
    BY DEF ForwardInit, Flushed
  <1>2. ent \in [Slots -> Entries]
    BY DEF ForwardInit, Flushed, Free, Entries
  <1>3. Findable /\ \A s \in Slots : Earned(ent[s])
    BY <1>1 DEF Findable, Earned, Free
  <1> QED BY <1>2, <1>3 DEF ForwardInv, CacheInv, PollInv, FollowsPolicy, ForwardInit, NoPacket

LEMMA ProcessKeeps ==
    ASSUME ForwardInv, NEW p \in Packets, Process(p) PROVE ForwardInv'
  <1> DEFINE k == Key(p)
             dec == Classify(tables, default, p)
  <1>k. k \in Keys
    BY KeysAre
  <1>p. PollInv'
    BY DEF ForwardInv, PollInv, Process
  <1>r. regime' = regime /\ last'.pkt = p
    BY DEF Process
  <1>1. CASE Lookup(k) # NoSlot /\ ent[Lookup(k)].verdict # "unset"
    <2>1. ent' = ent /\ last'.dec = FromEntry(ent[Lookup(k)])
      BY <1>1 DEF Process
    <2>2. Lookup(k) \in Slots /\ ent[Lookup(k)].key = k
      <3>1. Probe(k) # NoSlot /\ Lookup(k) = Probe(k) /\ ent[Probe(k)].key = k
        BY <1>1 DEF Lookup
      <3>2. PICK i : First(k, i) /\ Probe(k) = At(k, i)
        BY <3>1, <1>k, ProbeFinds
      <3> QED BY <3>1, <3>2, <1>k, AtIsSlot DEF First
    <2>3. Earned(ent[Lookup(k)])
      BY <2>2 DEF ForwardInv, CacheInv
    <2>4. PICK r \in regime, q \in Packets :
             Key(q) = k /\ FromEntry(ent[Lookup(k)]) = Classify(r.t, r.d, q)
      BY <2>2, <2>3, <1>1 DEF Earned
    <2>5. q \in {p, Mirrored(p)}
      BY <2>4, SameKey
    <2>6. FollowsPolicy'
      BY <2>1, <2>4, <2>5, <1>r DEF FollowsPolicy
    <2>7. CacheInv'
      BY <2>1, <1>r, KeptInv DEF ForwardInv
    <2> QED BY <2>6, <2>7, <1>p DEF ForwardInv
  <1>2. CASE ~(Lookup(k) # NoSlot /\ ent[Lookup(k)].verdict # "unset")
    <2> DEFINE e == [key |-> k, verdict |-> VerdictOf(dec),
                     inspect |-> ent[Probe(k)].inspect \/ dec = "inspect"]
    <2>1. /\ last'.dec = dec
          /\ Probe(k) = NoSlot => ent' = ent
          /\ Probe(k) # NoSlot => ent' = [ent EXCEPT ![Probe(k)] = e]
      BY <1>2 DEF Process, PutAt
    <2>2. FollowsPolicy'
      BY <2>1, <1>r DEF FollowsPolicy, ForwardInv, PollInv
    <2>3. CASE Probe(k) = NoSlot
      BY <2>1, <2>2, <2>3, <1>r, <1>p, KeptInv DEF ForwardInv
    <2>4. CASE Probe(k) # NoSlot
      <3>1. PICK i : First(k, i) /\ Probe(k) = At(k, i)
        BY <2>4, <1>k, ProbeFinds
      <3>2. Probe(k) \in Slots /\ ent[Probe(k)].key \in {NoKey, k}
        BY <3>1, <1>k, AtIsSlot DEF First, Stops
      <3>3. Earned(ent[Probe(k)]) /\ ent[Probe(k)] \in Entries
        BY <3>2 DEF ForwardInv, CacheInv
      <3>4. ent[Probe(k)].verdict = "unset"
        <4>1. CASE ent[Probe(k)].key = NoKey
          BY <4>1, <3>3 DEF Earned
        <4>2. CASE ent[Probe(k)].key = k
          BY <4>2, <2>4, <1>2 DEF Lookup
        <4> QED BY <4>1, <4>2, <3>2
      <3>5. ent[Probe(k)].inspect = FALSE
        BY <3>3, <3>4 DEF Earned, Entries
      <3>6. e = [key |-> k, verdict |-> VerdictOf(dec), inspect |-> (dec = "inspect")]
        BY <3>5
      <3>7. VerdictOf(dec) \in {"unset", "allow", "drop"} /\ (dec = "inspect") \in BOOLEAN
        BY DEF VerdictOf
      <3>8. e \in Entries /\ e.key = k
        BY <3>6, <3>7, <1>k DEF Entries
      <3>9. Findable'
        <4> HIDE DEF e, k
        <4> QED BY <2>1, <2>4, <3>8, <1>k, InsertKeeps DEF ForwardInv, CacheInv
      <3>10. e.verdict # "unset" => FromEntry(e) = dec
        BY <3>6 DEF VerdictOf, FromEntry
      <3>11. e.verdict = "unset" => ~e.inspect
        BY <3>6 DEF VerdictOf
      <3>12. Earned(e)
        <4>1. e.verdict # "unset" =>
                \E r \in regime, q \in Packets : Key(q) = e.key /\ FromEntry(e) = Classify(r.t, r.d, q)
          <5>1. [t |-> tables, d |-> default] \in regime
            BY DEF ForwardInv, PollInv
          <5> HIDE DEF e
          <5> QED BY <5>1, <3>8, <3>10
        <4>2. e.key # NoKey
          BY <3>8, <1>k, KeysAre
        <4> HIDE DEF e
        <4> QED BY <4>1, <4>2, <3>11 DEF Earned
      <3>13. ASSUME NEW s \in Slots PROVE Earned(ent[s])'
        <4> HIDE DEF e
        <4>1. Earned(ent[s])
          BY DEF ForwardInv, CacheInv
        <4>2. ent'[s] = ent[s] \/ ent'[s] = e
          BY <2>1, <2>4, <3>2 DEF ForwardInv, CacheInv
        <4> QED BY <4>1, <4>2, <3>12, <1>r DEF Earned
      <3>14. ent' \in [Slots -> Entries]
        <4> HIDE DEF e
        <4> QED BY <2>1, <2>4, <3>2, <3>8 DEF ForwardInv, CacheInv
      <3> QED BY <2>2, <3>9, <3>13, <3>14, <1>p DEF ForwardInv, CacheInv
    <2> QED BY <2>3, <2>4
  <1> QED BY <1>1, <1>2

(* A command finds no packet under way.                                    *)
LEMMA CommandKeeps ==
    ASSUME ForwardInv, poll = "commands", last' = last, poll' = poll,
           \/ ent' = Flushed /\ regime' = {[t |-> tables', d |-> default']}
           \/ ent' = ent /\ regime' = regime \cup {[t |-> tables', d |-> default']}
           \/ UNCHANGED <<ent, regime, tables, default>>
    PROVE  ForwardInv'
  <1>1. CacheInv'
    BY FlushedInv, KeptInv DEF ForwardInv
  <1>2. last = NoPacket
    BY DEF ForwardInv, PollInv
  <1>3. PollInv'
    BY <1>2 DEF ForwardInv, PollInv
  <1>4. FollowsPolicy'
    BY <1>2 DEF FollowsPolicy, NoPacket
  <1> QED BY <1>1, <1>3, <1>4 DEF ForwardInv

LEMMA NextForward == ForwardInv /\ [ForwardNext]_forwardVars => ForwardInv'
  <1> SUFFICES ASSUME ForwardInv, [ForwardNext]_forwardVars PROVE ForwardInv'
    OBVIOUS
  <1>0. ASSUME UNCHANGED <<tables, default, ent, last, regime>>,
               poll' = poll \/ poll # "packets"
        PROVE  ForwardInv'
    <2>1. CacheInv'
      BY <1>0, KeptInv DEF ForwardInv
    <2> QED BY <1>0, <2>1 DEF ForwardInv, PollInv, FollowsPolicy
  <1>1. CASE Run \/ Drained
    BY <1>1, <1>0 DEF Run, Drained
  <1>2. CASE EndRound
    <2>1. CacheInv'
      BY <1>2, KeptInv DEF ForwardInv, EndRound
    <2> QED BY <1>2, <2>1 DEF ForwardInv, PollInv, FollowsPolicy, EndRound, NoPacket
  <1>3. ASSUME NEW p \in Packets, Process(p) PROVE ForwardInv'
    BY <1>3, ProcessKeeps
  <1>4. ASSUME NEW op, NEW e, AnswerCommand(op, e) PROVE ForwardInv'
    BY <1>4, CommandKeeps DEF AnswerCommand, Pop
  <1>5. ASSUME NEW t \in Policies \cup {Malformed}, SetBank(t) PROVE ForwardInv'
    <2>1. poll = "commands" /\ last' = last /\ poll' = poll /\ default' = default
      BY <1>5 DEF SetBank, Pop
    <2>2. \/ ent' = Flushed /\ regime' = {[t |-> tables', d |-> default']}
          \/ ent' = ent /\ regime' = regime \cup {[t |-> tables', d |-> default']}
          \/ UNCHANGED <<ent, regime, tables, default>>
      BY <1>5, <2>1 DEF SetBank, Activate, Load
    <2> QED BY <2>1, <2>2, CommandKeeps
  <1>6. CASE SetDefault
    BY <1>6, CommandKeeps DEF SetDefault, Pop
  <1>7. CASE FlushFlows
    BY <1>7, CommandKeeps DEF FlushFlows, Pop
  <1>8. CASE Shutdown
    BY <1>8, CommandKeeps DEF Shutdown, Pop
  <1>9. CASE PopEvent \/ \E c \in Commands : PushCmd(c)
    BY <1>9, <1>0 DEF PopEvent, PushCmd
  <1>10. CASE UNCHANGED forwardVars
    BY <1>10, <1>0 DEF forwardVars
  <1> QED BY <1>1, <1>2, <1>3, <1>4, <1>5, <1>6, <1>7, <1>8, <1>9, <1>10 DEF ForwardNext

(* dp_process, dp_activate_bank: the flow cache answers for its own        *)
(* conversations only, and never from a policy older than the last flush,  *)
(* whatever the tables, the hash and the number of slots are.              *)
THEOREM CacheAnswers == ForwardSpec => []CacheIsSound
  <1>1. ForwardInv => CacheIsSound
    BY DEF ForwardInv, CacheInv, CacheIsSound
  <1> QED BY InitForward, NextForward, <1>1, PTL DEF ForwardSpec

-----------------------------------------------------------------------------
(***************************************************************************)
(* CtLease: leases on conntrack objects book exactly and give back what    *)
(* they took, for every set of files and flows and any number of objects   *)
(* per tuple.                                                              *)
(***************************************************************************)

Lease == [at : {"closed", "open", "found", "adding", "delisted"},
          ct : (Flow \X Nat) \cup {Unbound}, id : Nat, mark : {0, 1}, invalid : BOOLEAN]
CtTypes ==
  /\ file \in [Handle -> Lease] /\ claims \subseteq Handle /\ refused \subseteq Handle
  /\ born \in [Flow -> Nat \ {0}]

\* What is in the list of claims is what may book: one file per object, the
\* object that was meant, and a refused file is marked invalid.
Active(h) == file[h].at \in {"open", "adding"} /\ file[h].ct # Unbound
Listed == \A h \in Handle : h \in claims <=> Active(h)
Single == \A g, h \in claims : file[g].ct = file[h].ct => g = h
Meant  == \A h \in claims : file[h].ct[2] = file[h].id
Fresh  == \A h \in Handle : file[h].at = "found" \/ (file[h].at = "open" /\ file[h].ct = Unbound)
                               => h \notin refused /\ ~file[h].invalid
Found  == \A h \in Handle : file[h].at \in {"found", "adding"} => file[h].ct # Unbound
Marked == \A h \in claims : h \in refused => file[h].invalid
Valid  == \A h \in Handle : file[h].at = "adding" => ~file[h].invalid
Real   == Unbound \notin stale
CtInv == CtTypes /\ Listed /\ Single /\ Meant /\ Fresh /\ Found /\ Marked /\ Valid /\ Real /\ HandedBack

\* Nothing that the kernel does to objects disturbs a claim: it only makes
\* fewer flows wait for their windows.
LEMMA KernelInv ==
  ASSUME CtInv, UNCHANGED <<file, claims, stale, refused>>, born' \in [Flow -> Nat \ {0}],
         dead \subseteq dead', closing \subseteq closing'
  PROVE  CtInv'
BY DEF CtInv, CtTypes, Listed, Active, Single, Meant, Fresh, Found, Marked, Valid, Real,
   HandedBack, Unbound

\* A new file has no claim and was not refused.
LEMMA OpenFileInv == ASSUME CtInv, NEW h \in Handle, OpenFile(h) PROVE CtInv'
<1> USE DEF CtInv, CtTypes, OpenFile, Set, kernelVars, Blank
<1>1. CtTypes'
  BY BirthsAssumption DEF Lease, Unbound
<1>2. Listed'
  BY DEF Listed, Active
<1>3. Single'
  BY DEF Lease, Single, Listed, Active
<1>4. Meant'
  BY DEF Lease, Meant, Listed, Active
<1>5. Fresh'
  BY DEF Fresh
<1>6. Found'
  BY DEF Found
<1>7. Marked'
  BY DEF Marked
<1>8. Valid'
  BY DEF Valid
<1>9. Real'
  BY DEF Real
<1>10. HandedBack'
  BY DEF HandedBack
<1>. QED BY <1>1, <1>2, <1>3, <1>4, <1>5, <1>6, <1>7, <1>8, <1>9, <1>10 DEF CtInv

\* The lookup of bind_lease binds nothing yet.
LEMMA BindFindInv == ASSUME CtInv, NEW h \in Handle, BindFind(h) PROVE CtInv'
<1> USE DEF CtInv, CtTypes, BindFind, Set, kernelVars, Blank
<1>1. CtTypes'
  <2>1. PICK f \in Flow, id \in 1 .. MaxBirths, m \in {0, 1} :
          Set(h, [file[h] EXCEPT !.at = "found", !.ct = <<f, born[f]>>, !.id = id, !.mark = m])
    OBVIOUS
  <2>2. file[h] \in Lease /\ <<f, born[f]>> \in Flow \X Nat /\ id \in Nat
    BY BirthsAssumption
  <2>3. [file[h] EXCEPT !.at = "found", !.ct = <<f, born[f]>>, !.id = id, !.mark = m] \in Lease
    BY <2>2 DEF Lease
  <2>. QED BY <2>1, <2>3
<1>2. Listed'
  BY DEF Listed, Active
<1>3. Single'
  BY DEF Lease, Single, Listed, Active
<1>4. Meant'
  BY DEF Lease, Meant, Listed, Active
<1>5. Fresh'
  BY DEF Fresh
<1>6. Found'
  BY DEF Lease, Found, Unbound
<1>7. Marked'
  BY DEF Marked
<1>8. Valid'
  BY DEF Valid
<1>9. Real'
  BY DEF Real
<1>10. HandedBack'
  BY DEF Lease, HandedBack, Listed, Active, Fresh, Found, Valid, Marked, Real, Unbound
<1>. QED BY <1>1, <1>2, <1>3, <1>4, <1>5, <1>6, <1>7, <1>8, <1>9, <1>10 DEF CtInv

\* The claim is made only on an object that no listed file has, and that is
\* the one its owner meant.
LEMMA BindClaimInv == ASSUME CtInv, NEW h \in Handle, BindClaim(h) PROVE CtInv'
<1> USE DEF CtInv, CtTypes, BindClaim, BindUnless, Set, Usable, Claimed, kernelVars, Blank
<1>1. CtTypes'
  <2>1. [file[h] EXCEPT !.at = "open"] \in Lease /\ [Blank EXCEPT !.at = "open"] \in Lease
    BY DEF Lease
  <2>. QED BY <2>1
<1>2. Listed'
  BY DEF Lease, Listed, Active, Fresh, Found, Unbound
<1>3. Single'
  BY DEF Lease, Single, Listed, Active
<1>4. Meant'
  BY DEF Lease, Meant, Listed, Active
<1>5. Fresh'
  BY DEF Fresh
<1>6. Found'
  BY DEF Found
<1>7. Marked'
  BY DEF Lease, Marked, Listed, Active, Fresh, Found, Unbound
<1>8. Valid'
  BY DEF Valid
<1>9. Real'
  BY DEF Real
<1>10. HandedBack'
  BY DEF HandedBack
<1>. QED BY <1>1, <1>2, <1>3, <1>4, <1>5, <1>6, <1>7, <1>8, <1>9, <1>10 DEF CtInv

\* The checks of update_lease keep the claim or mark the file invalid.
LEMMA UpdateBeginInv == ASSUME CtInv, NEW h \in Handle, UpdateBegin(h) PROVE CtInv'
<1> USE DEF CtInv, CtTypes, UpdateBegin, Bound, Usable, Invalidated, Set, kernelVars, Blank
<1>1. CtTypes'
  <2>1. [file[h] EXCEPT !.at = "adding"] \in Lease /\ [file[h] EXCEPT !.invalid = TRUE] \in Lease
    BY DEF Lease
  <2>. QED BY <2>1
<1>2. Listed'
  BY DEF Lease, Listed, Active
<1>3. Single'
  BY DEF Lease, Single
<1>4. Meant'
  BY DEF Lease, Meant
<1>5. Fresh'
  BY DEF Lease, Fresh
<1>6. Found'
  BY DEF Lease, Found
<1>7. Marked'
  BY DEF Lease, Marked
<1>8. Valid'
  BY DEF Lease, Valid
<1>9. Real'
  BY DEF Real
<1>10. HandedBack'
  BY DEF Lease, HandedBack
<1>. QED BY <1>1, <1>2, <1>3, <1>4, <1>5, <1>6, <1>7, <1>8, <1>9, <1>10 DEF CtInv

\* The second look of update_lease marks a file whose object died.
LEMMA UpdateEndInv == ASSUME CtInv, NEW h \in Handle, UpdateEnd(h) PROVE CtInv'
<1> USE DEF CtInv, CtTypes, UpdateEnd, Set, kernelVars
<1>1. PICK b \in BOOLEAN : b <=> file[h].ct \in dead
  BY Zenon
<1>2. Set(h, [file[h] EXCEPT !.at = "open", !.invalid = b]) /\ refused' = IF b THEN refused \cup {h} ELSE refused
  BY <1>1
<1>3. CtTypes'
  <2>1. [file[h] EXCEPT !.at = "open", !.invalid = b] \in Lease
    BY DEF Lease
  <2>. QED BY <1>2, <2>1
<1>4. Listed' /\ Single' /\ Meant' /\ Found' /\ Valid' /\ Real' /\ HandedBack'
  BY <1>2 DEF Lease, Listed, Active, Single, Meant, Found, Valid, Real, HandedBack
<1>a. ASSUME NEW g \in Handle, g # h PROVE file'[g] = file[g] /\ (g \in refused' <=> g \in refused)
  BY <1>2, <1>a
<1>b. /\ file'[h].at = "open" /\ file'[h].ct = file[h].ct /\ file[h].ct # Unbound /\ file'[h].invalid = b
      /\ h \notin refused /\ (h \in refused' => b)
  BY <1>2 DEF Lease, Found, Marked, Valid, Listed, Active
<1>5. Fresh'
  BY <1>a, <1>b, Zenon DEF Fresh
<1>6. Marked'
  BY <1>a, <1>b DEF Marked
<1>. QED BY <1>3, <1>4, <1>5, <1>6 DEF CtInv

\* A check that fails marks the file invalid, and leaves its claim.
LEMMA CheckLeaseInv == ASSUME CtInv, NEW h \in Handle, CheckLease(h) PROVE CtInv'
<1> USE DEF CtInv, CtTypes, CheckLease, Bound, Usable, Invalidated, Set, kernelVars, Blank
<1>1. CtTypes'
  BY BirthsAssumption DEF Lease, Unbound
<1>2. Listed'
  BY DEF Listed, Active
<1>3. Single'
  BY DEF Single
<1>4. Meant'
  BY DEF Meant
<1>5. Fresh'
  BY DEF Fresh
<1>6. Found'
  BY DEF Found
<1>7. Marked'
  BY DEF Marked
<1>8. Valid'
  BY DEF Valid
<1>9. Real'
  BY DEF Real
<1>10. HandedBack'
  BY DEF HandedBack
<1>. QED BY <1>1, <1>2, <1>3, <1>4, <1>5, <1>6, <1>7, <1>8, <1>9, <1>10 DEF CtInv

\* A released file leaves the list, and still stands for its object's windows.
LEMMA ReleaseInv == ASSUME CtInv, NEW h \in Handle, Release(h) PROVE CtInv'
<1> USE DEF CtInv, CtTypes, Release, Set, kernelVars, Blank
<1>1. CtTypes'
  BY BirthsAssumption DEF Lease, Unbound
<1>2. Listed'
  BY DEF Listed, Active
<1>3. Single'
  BY DEF Single
<1>4. Meant'
  BY DEF Meant
<1>5. Fresh'
  BY DEF Fresh
<1>6. Found'
  BY DEF Found
<1>7. Marked'
  BY DEF Marked
<1>8. Valid'
  BY DEF Valid
<1>9. Real'
  BY DEF Real
<1>10. HandedBack'
  BY DEF Lease, HandedBack, Listed, Active, Fresh, Found, Valid, Marked, Real, Unbound
<1>. QED BY <1>1, <1>2, <1>3, <1>4, <1>5, <1>6, <1>7, <1>8, <1>9, <1>10 DEF CtInv

\* The windows of a live object are repaired before the file forgets it.
LEMMA HandbackInv == ASSUME CtInv, NEW h \in Handle, Handback(h) PROVE CtInv'
<1> USE DEF CtInv, CtTypes, Handback, Set, kernelVars, Blank
<1>1. CtTypes'
  BY BirthsAssumption DEF Lease, Unbound
<1>2. Listed'
  BY DEF Listed, Active
<1>3. Single'
  BY DEF Lease, Single, Listed, Active
<1>4. Meant'
  BY DEF Lease, Meant, Listed, Active
<1>5. Fresh'
  BY DEF Fresh
<1>6. Found'
  BY DEF Found
<1>7. Marked'
  BY DEF Lease, Marked, Listed, Active
<1>8. Valid'
  BY DEF Valid
<1>9. Real'
  BY DEF Real
<1>10. HandedBack'
  BY DEF HandedBack
<1>. QED BY <1>1, <1>2, <1>3, <1>4, <1>5, <1>6, <1>7, <1>8, <1>9, <1>10 DEF CtInv

\* The hardware carries only flows that an active file stands for.
LEMMA CarryInv == ASSUME CtInv, NEW h \in Handle, Carry(h) PROVE CtInv'
<1> USE DEF CtInv, CtTypes, Carry, Bound, kernelVars, Blank
<1>1. CtTypes'
  BY BirthsAssumption DEF Lease, Unbound
<1>2. Listed'
  BY DEF Listed, Active
<1>3. Single'
  BY DEF Single
<1>4. Meant'
  BY DEF Meant
<1>5. Fresh'
  BY DEF Fresh
<1>6. Found'
  BY DEF Found
<1>7. Marked'
  BY DEF Marked
<1>8. Valid'
  BY DEF Valid
<1>9. Real'
  BY DEF Real
<1>10. HandedBack'
  BY DEF HandedBack
<1>. QED BY <1>1, <1>2, <1>3, <1>4, <1>5, <1>6, <1>7, <1>8, <1>9, <1>10 DEF CtInv
\* Every step keeps the invariant.
LEMMA CtNextInv == ASSUME CtInv, [CtNext]_ctVars PROVE CtInv'
<1>1. ASSUME NEW h \in Handle,
             \/ OpenFile(h) \/ BindFind(h) \/ BindClaim(h) \/ CheckLease(h) \/ Release(h) \/ Handback(h) \/ Carry(h)
             \/ UpdateBegin(h) \/ UpdateEnd(h)
      PROVE  CtInv'
  BY <1>1, OpenFileInv, BindFindInv, BindClaimInv, UpdateBeginInv, UpdateEndInv, CheckLeaseInv,
     ReleaseInv, HandbackInv, CarryInv
<1>2. ASSUME NEW o \in Object, Dies(o) \/ Fin(o) \/ Remark(o) PROVE CtInv'
  BY <1>2, KernelInv DEF CtInv, CtTypes, Dies, Fin, Remark
<1>3. ASSUME NEW f \in Flow, Reborn(f) PROVE CtInv'
  <2>1. born' \in [Flow -> Nat \ {0}]
    BY <1>3 DEF CtInv, CtTypes, Reborn
  <2>. QED BY <1>3, <2>1, KernelInv DEF Reborn
<1>4. CASE UNCHANGED ctVars
  BY <1>4, KernelInv DEF ctVars, CtInv, CtTypes
<1>. QED BY <1>1, <1>2, <1>3, <1>4 DEF CtNext

\* A booking is made by the one claimant, on the object that it meant.
LEMMA BookedOnce == ASSUME CtInv, NEW h \in Handle, file[h].at = "adding" PROVE OneBooker(file[h].ct)
<1>1. Active(h) /\ h \in claims
  BY DEF CtInv, Listed, Active, Found
<1>2. h \notin refused
  BY <1>1 DEF CtInv, Marked, Valid
<1>. QED BY <1>1, <1>2 DEF CtInv, CtTypes, Single, Meant, OneBooker

\* There are no files and no claims at first.
LEMMA CtInitInv == ASSUME CtInit PROVE CtInv
BY DEF CtInit, CtInv, CtTypes, Lease, Blank, Listed, Active, Single, Meant, Fresh, Found, Marked,
   Valid, Real, HandedBack

\* The claims of ffn_ctlease.c: what may book is listed, alone on its object,
\* and was meant for it, in every reachable state.
THEOREM ClaimsHold == CtSpec => []CtInv
BY CtInitInv, CtNextInv, PTL DEF CtSpec

\* Leases book exactly, and give back what they took, for any number of files,
\* flows and objects: update_lease books through the one claimant of the
\* object, and lease_release leaves no live flow with stale windows.
THEOREM ExactLeases == CtSpec => LeasesAreExact
<1>1. ASSUME CtInv, CtInv', CtNext PROVE HandedBack' /\ \A h \in Handle : Books(h) => OneBooker(file[h].ct)
  BY <1>1, BookedOnce DEF Books, CtInv
<1>. QED BY <1>1, ClaimsHold, PTL DEF CtSpec, LeasesAreExact

-----------------------------------------------------------------------------
(***************************************************************************)
(* DpBanks: what is live in the banks is what was accepted, and what a     *)
(* worker holds does not change under it, for every size of the arenas.    *)
(***************************************************************************)

Pointer == [bank : Bank, at : Nat]
Entry == [row : Pointer, text : Pointer]
Preparing == {"alloc", "text", "link", "publish"}
Writer == [step : {"idle", "copy", "clone"} \cup Preparing, section : Section \cup {"none"},
           n : Nat, at : Nat, row : Pointer, text : Pointer]
Reader == [bank : Bank \cup {2}, section : Section \cup {"none"}, ref : Entry, saw : Nat \X Nat]
BankTypes ==
  /\ activeBank \in Bank /\ filled \in [Bank -> 0 .. ArenaSize] /\ arena \in [Bank -> [1 .. ArenaSize -> Nat]]
  /\ dir \in [Bank -> [Section -> Entry]] /\ hot \in [Bank -> Nat]
  /\ accepted \in [Section -> Nat] /\ lastHot \in Nat /\ frames \in Nat
  /\ thread \in Writer
  /\ worker \in [Worker -> Reader]

\* A pointer that somebody may hold: it leads to a cell that every later clone
\* will copy from the active bank onto itself, or to one of the update that is
\* linked and about to be published.
Ref(p) ==
  \/ p = Null
  \/ p.at \in 1 .. filled[activeBank] /\ arena[p.bank][p.at] = arena[activeBank][p.at]
  \/ thread.step = "publish" /\ p.bank = Inactive /\ p.at \in 1 .. filled[Inactive]
Held(d) == Ref(d.row) /\ Ref(d.text) /\ Cell(d.text) \in {0, Cell(d.row)}
Directories == \A b \in Bank, s \in Section : Held(dir[b][s])
\* The active bank never depends on an update that is not published.
Settled == \A s \in Section : \/ dir[activeBank][s].row = Null
                              \/ dir[activeBank][s].row.at \in 1 .. filled[activeBank]
Workers == \A w \in Worker : worker[w].section # "none" => Held(worker[w].ref) /\ Follow(worker[w].ref) = worker[w].saw

\* How far the banks agree.
Agree(n) == \A i \in 1 .. n : arena[Inactive][i] = arena[activeBank][i]
Copied ==
  /\ thread.step = "copy" => thread.at \in 1 .. filled[activeBank] + 1 /\ Agree(thread.at - 1)
  /\ thread.step = "clone" => Agree(filled[activeBank])
Cloned ==
  thread.step \in Preparing =>
    /\ filled[activeBank] <= filled[Inactive] /\ Agree(filled[activeBank]) /\ hot[Inactive] = lastHot
    /\ \A s \in Section : s # thread.section \/ thread.step # "publish" => Cell(dir[Inactive][s].row) = accepted[s]
\* What the update has put into the arena so far.
New(p) == /\ p.bank = Inactive /\ p.at \in filled[activeBank] + 1 .. filled[Inactive]
          /\ arena[Inactive][p.at] = thread.n
Staged ==
  /\ thread.step # "idle" => thread.section \in Section
  /\ thread.step \in {"copy", "clone", "alloc"} => thread.row = Null /\ thread.text = Null
  /\ thread.step = "text" => thread.row # Null /\ thread.text = Null
  /\ thread.step \in {"text", "link", "publish"} =>
       \/ thread.row = Null /\ thread.text = Null
       \/ New(thread.row) /\ (thread.text = Null \/ New(thread.text))
  /\ thread.step = "publish" => dir[Inactive][thread.section] = [row |-> thread.row, text |-> thread.text]
BankInv == BankTypes /\ Directories /\ Settled /\ Workers /\ Copied /\ Cloned /\ Staged /\ Live

(* ------------------ pointers keep what they lead to ------------------- *)

\* The two banks.
LEMMA TwoBanks == ASSUME activeBank \in Bank PROVE Inactive \in Bank /\ Inactive # activeBank /\ \A b \in Bank : b \in {activeBank, Inactive}
BY DEF Bank, Inactive

\* A step that leaves the banks alone and does not end an update.
LEMMA StillRef ==
  ASSUME BankTypes, UNCHANGED <<activeBank, arena>>, filled'[activeBank] = filled[activeBank], thread.step # "publish",
         NEW p \in Pointer, Ref(p)
  PROVE  Ref(p)' /\ Cell(p)' = Cell(p)
BY DEF BankTypes, Ref, Cell, Inactive

\* A copied cell already held what it is given, if anybody points to it.
LEMMA CopyRef == ASSUME BankInv, Copy, NEW p \in Pointer, Ref(p) PROVE Ref(p)' /\ Cell(p)' = Cell(p)
<1> USE DEF BankInv, BankTypes
<1>0. thread.step = "copy"
  BY DEF Copy
<1>1. CASE thread.at > filled[activeBank]
  BY <1>0, <1>1, StillRef DEF Copy
<1>2. CASE ~(thread.at > filled[activeBank])
  <2>1. p = Null \/ (p.at \in 1 .. filled[activeBank] /\ arena[p.bank][p.at] = arena[activeBank][p.at])
    BY <1>0 DEF Ref
  <2>2. arena'[activeBank] = arena[activeBank] /\ (p # Null => arena'[p.bank][p.at] = arena[p.bank][p.at])
    <3>1. thread.at \in 1 .. ArenaSize /\ thread.at <= filled[activeBank]
      BY <1>0, <1>2, ArenaAssumption DEF Copied
    <3>2. arena' = [arena EXCEPT ![Inactive][thread.at] = arena[activeBank][thread.at]]
      BY <1>2 DEF Copy
    <3>. QED BY <2>1, <3>1, <3>2, TwoBanks DEF Pointer
  <2>. QED BY <1>2, <2>1, <2>2 DEF Ref, Cell, Copy, Inactive
<1>. QED BY <1>1, <1>2

\* A new cell is one that nobody points to.
LEMMA PutRef ==
  ASSUME BankInv, thread.step \in {"alloc", "text"}, NEW STATE t, Put(t), NEW p \in Pointer, Ref(p)
  PROVE  Ref(p)' /\ Cell(p)' = Cell(p)
<1> USE DEF BankInv, BankTypes
<1>1. p = Null \/ (p.at \in 1 .. filled[activeBank] /\ arena[p.bank][p.at] = arena[activeBank][p.at])
  BY DEF Ref
<1>2. filled[activeBank] <= filled[Inactive]
  BY DEF Cloned, Preparing
<1>3. arena'[activeBank] = arena[activeBank] /\ filled'[activeBank] = filled[activeBank]
      /\ (p # Null => arena'[p.bank][p.at] = arena[p.bank][p.at])
  BY <1>1, <1>2, TwoBanks DEF Put, Pointer
<1>. QED BY <1>1, <1>3 DEF Ref, Cell, Put, Inactive

\* At the flip the banks agree on everything but the update, which is in the
\* new one.
LEMMA PublishRef == ASSUME BankInv, Publish, NEW p \in Pointer, Ref(p) PROVE Ref(p)' /\ Cell(p)' = Cell(p)
<1> USE DEF BankInv, BankTypes
<1>1. filled[activeBank] <= filled[Inactive] /\ Agree(filled[activeBank])
  BY DEF Cloned, Preparing, Publish
<1>2. activeBank' = Inactive /\ arena' = arena /\ filled' = filled
  BY DEF Publish
<1>3. CASE p = Null
  BY <1>2, <1>3 DEF Ref, Cell
<1>4. CASE p.at \in 1 .. filled[activeBank] /\ arena[p.bank][p.at] = arena[activeBank][p.at]
  BY <1>1, <1>2, <1>4, TwoBanks DEF Ref, Cell, Agree
<1>5. CASE p.bank = Inactive /\ p.at \in 1 .. filled[Inactive]
  BY <1>2, <1>5, TwoBanks DEF Ref, Cell
<1>. QED BY <1>3, <1>4, <1>5 DEF Ref

\* Whatever the control thread does, a pointer that may be held may still be
\* held, and leads to the same payload.
LEMMA RefKept == ASSUME BankInv, [BanksNext]_bankVars PROVE \A p \in Pointer : Ref(p) => Ref(p)' /\ Cell(p)' = Cell(p)
<1> SUFFICES ASSUME NEW p \in Pointer, Ref(p) PROVE Ref(p)' /\ Cell(p)' = Cell(p)
  OBVIOUS
<1>1. CASE UNCHANGED <<activeBank, arena, filled, thread>>
  BY <1>1 DEF Ref, Cell, Inactive
<1>2. CASE thread.step # "publish" /\ UNCHANGED <<activeBank, arena>> /\ filled'[activeBank] = filled[activeBank]
  BY <1>2, StillRef DEF BankInv
<1>3. CASE (\E s \in Section : Dequeue(s)) \/ HotVerdict
  <2>1. thread = Waiting /\ Waiting.step = "idle"
    BY <1>3 DEF Dequeue, HotVerdict, Waiting
  <2>. QED BY <1>2, <1>3, <2>1 DEF Dequeue, HotVerdict
<1>a. CASE NoRoom \/ MalformedRow
  BY <1>2, <1>a DEF NoRoom, MalformedRow, Abandon
<1>b. CASE Empty \/ TextsLost \/ Link
  BY <1>2, <1>b DEF Empty, TextsLost, Link
<1>4. CASE Clone
  <2>1. filled'[activeBank] = filled[activeBank]
    BY <1>4, TwoBanks DEF Clone, BankInv, BankTypes
  <2>. QED BY <1>2, <1>4, <2>1 DEF Clone
<1>5. CASE Copy
  BY <1>5, CopyRef
<1>6. CASE LoadRows \/ Texts
  BY <1>6, PutRef DEF LoadRows, Texts
<1>7. CASE Publish
  BY <1>7, PublishRef
<1>8. CASE \E w \in Worker : TakeBank(w) \/ PutBack(w) \/ \E s \in Section : TakeSection(w, s)
  BY <1>1, <1>8 DEF TakeBank, PutBack, TakeSection
<1>9. CASE UNCHANGED bankVars
  BY <1>1, <1>9 DEF bankVars
<1>. QED BY <1>3, <1>a, <1>b, <1>4, <1>5, <1>6, <1>7, <1>8, <1>9 DEF BanksNext, Control

\* The same of an entry with its rows and strings.
LEMMA HeldKept ==
  ASSUME BankInv, [BanksNext]_bankVars
  PROVE  \A d \in Entry : Held(d) => Held(d)' /\ Follow(d)' = Follow(d)
BY RefKept DEF Held, Follow, Entry

\* What is in the directories, or in a worker's hands, stays so.
LEMMA KeepDirectories == ASSUME BankInv, [BanksNext]_bankVars, UNCHANGED dir PROVE Directories'
BY HeldKept DEF BankInv, BankTypes, Directories
LEMMA KeepWorkers == ASSUME BankInv, [BanksNext]_bankVars, UNCHANGED worker PROVE Workers'
BY HeldKept DEF BankInv, BankTypes, Workers, Reader

(* ------------------- each step keeps the invariant -------------------- *)

\* The active bank shows what it showed, if its directory and verdict stay.
LEMMA KeepLive ==
  ASSUME BankInv, [BanksNext]_bankVars, UNCHANGED <<activeBank, accepted, lastHot>>,
         filled'[activeBank] = filled[activeBank], hot'[activeBank] = hot[activeBank], dir'[activeBank] = dir[activeBank]
  PROVE  Live' /\ Settled'
<1>1. \A s \in Section : dir[activeBank][s].row \in Pointer /\ Ref(dir[activeBank][s].row)
  BY DEF BankInv, BankTypes, Directories, Held, Entry
<1>2. \A s \in Section : Cell(dir[activeBank][s].row)' = Cell(dir[activeBank][s].row)
  BY <1>1, RefKept DEF Cell
<1>. QED BY <1>2 DEF BankInv, Live, Settled

\* One store into an arena.
LEMMA StoreTypes ==
  ASSUME arena \in [Bank -> [1 .. ArenaSize -> Nat]], NEW b \in Bank, NEW i \in 1 .. ArenaSize, NEW v \in Nat
  PROVE  [arena EXCEPT ![b][i] = v] \in [Bank -> [1 .. ArenaSize -> Nat]]
OBVIOUS

\* A worker only looks.
LEMMA WorkerInv ==
  ASSUME BankInv, NEW w \in Worker, TakeBank(w) \/ PutBack(w) \/ \E s \in Section : TakeSection(w, s)
  PROVE  BankInv'
<1>1. UNCHANGED <<activeBank, arena, filled, dir, hot, thread, frames, accepted, lastHot>>
  BY DEF TakeBank, PutBack, TakeSection
<1>2. [BanksNext]_bankVars
  BY DEF BanksNext
<1>3. Directories' /\ Settled' /\ Live'
  BY <1>1, <1>2, KeepDirectories, KeepLive
<1>4. Copied' /\ Cloned' /\ Staged'
  <2>1. Copied'
    BY <1>1 DEF BankInv, Copied, Agree, Inactive
  <2>2. Cloned'
    BY <1>1 DEF BankInv, Cloned, Agree, Cell, Inactive
  <2>3. Staged'
    BY <1>1 DEF BankInv, Staged, New, Inactive
  <2>. QED BY <2>1, <2>2, <2>3
<1>0. worker[w] \in Reader /\ activeBank \in Bank
  BY DEF BankInv, BankTypes
<1>5. SUFFICES ASSUME NEW r \in Reader, worker' = [worker EXCEPT ![w] = r],
                      r.section # "none" => Held(r.ref) /\ Follow(r.ref) = r.saw
               PROVE  BankInv'
  <2>1. CASE TakeBank(w)
    <3>1. worker[w] = OffDuty /\ OffDuty.section = "none"
      BY <2>1 DEF TakeBank, OffDuty
    <3>2. [worker[w] EXCEPT !.bank = activeBank] \in Reader
      BY <1>0 DEF Reader
    <3>. QED BY <2>1, <3>1, <3>2, <1>5 DEF TakeBank, Reader
  <2>2. CASE PutBack(w)
    <3>1. OffDuty \in Reader /\ OffDuty.section = "none"
      BY DEF OffDuty, Unset, Null, Entry, Pointer, Bank, Reader
    <3>. QED BY <2>2, <3>1, <1>5 DEF PutBack
  <2>3. ASSUME NEW s \in Section, TakeSection(w, s) PROVE BankInv'
    <3> DEFINE d == dir[worker[w].bank][s]
    <3>0. worker[w].bank \in Bank
      BY <2>3 DEF TakeSection
    <3>1. d \in Entry /\ Held(d)
      BY <3>0 DEF BankInv, BankTypes, Directories
    <3>2. Follow(d) \in Nat \X Nat
      <4>1. ASSUME NEW p \in Pointer, Ref(p) PROVE Cell(p) \in Nat
        <5>1. p = Null \/ p.at \in 1 .. ArenaSize
          BY <4>1, TwoBanks, ArenaAssumption DEF Ref, BankInv, BankTypes
        <5>. QED BY <5>1 DEF Cell, Pointer, BankInv, BankTypes
      <4>. QED BY <3>1, <4>1 DEF Held, Follow, Entry
    <3>3. worker' = [worker EXCEPT ![w] = [worker[w] EXCEPT !.section = s, !.ref = d, !.saw = Follow(d)]]
      BY <2>3 DEF TakeSection
    <3> HIDE DEF d
    <3>4. [worker[w] EXCEPT !.section = s, !.ref = d, !.saw = Follow(d)] \in Reader
      BY <1>0, <3>1, <3>2 DEF Reader
    <3>. QED BY <3>1, <3>3, <3>4, <1>5 DEF Reader
  <2>. QED BY <2>1, <2>2, <2>3
<1>6. BankTypes'
  BY <1>1, <1>5 DEF BankInv, BankTypes
<1>7. Workers'
  BY <1>2, <1>5, HeldKept DEF BankInv, BankTypes, Workers, Reader
<1>. QED BY <1>3, <1>4, <1>6, <1>7 DEF BankInv

\* A frame is taken: nothing is copied yet.
LEMMA DequeueInv == ASSUME BankInv, NEW s \in Section, Dequeue(s) PROVE BankInv'
<1>1. [BanksNext]_bankVars /\ UNCHANGED <<activeBank, arena, filled, dir, hot, accepted, lastHot, worker>>
  BY DEF BanksNext, Dequeue
<1>2. Directories' /\ Workers' /\ Settled' /\ Live'
  BY <1>1, KeepDirectories, KeepWorkers, KeepLive
<1>3. thread' = [step |-> "copy", section |-> s, n |-> frames + 1, at |-> 1, row |-> Null, text |-> Null]
  BY DEF Dequeue, Waiting
<1>4. BankTypes'
  <2>1. thread' \in Writer /\ frames' \in Nat
    BY <1>3 DEF Writer, Pointer, Null, Bank, BankInv, BankTypes, Dequeue
  <2>. QED BY <1>1, <2>1 DEF BankInv, BankTypes
<1>5. Copied' /\ Cloned' /\ Staged'
  BY <1>1, <1>3 DEF BankInv, BankTypes, Copied, Cloned, Staged, Agree, Preparing
<1>. QED BY <1>2, <1>4, <1>5 DEF BankInv

\* A hot verdict is written into the active bank while no update is under way.
LEMMA HotVerdictInv == ASSUME BankInv, HotVerdict PROVE BankInv'
<1>1. [BanksNext]_bankVars /\ UNCHANGED <<activeBank, arena, filled, dir, thread, accepted, worker>>
  BY DEF BanksNext, Control, HotVerdict
<1>2. Directories' /\ Workers'
  BY <1>1, KeepDirectories, KeepWorkers
<1>3. thread.step = "idle"
  BY DEF HotVerdict, Waiting
<1>4. BankTypes'
  BY <1>1 DEF BankInv, BankTypes, HotVerdict
<1>5. Settled' /\ Live'
  BY <1>1 DEF BankInv, BankTypes, HotVerdict, Settled, Live, Cell
<1>6. Copied' /\ Cloned' /\ Staged'
  BY <1>1, <1>3 DEF Copied, Cloned, Staged, Preparing
<1>. QED BY <1>2, <1>4, <1>5, <1>6 DEF BankInv

\* The arena is copied cell by cell.
LEMMA CopyInv == ASSUME BankInv, Copy PROVE BankInv'
<1>1. [BanksNext]_bankVars /\ UNCHANGED <<activeBank, filled, dir, hot, frames, accepted, lastHot, worker>>
  BY DEF BanksNext, Control, Copy
<1>2. Directories' /\ Workers' /\ Settled' /\ Live'
  BY <1>1, KeepDirectories, KeepWorkers, KeepLive
<1>3. /\ thread.step = "copy" /\ thread \in Writer /\ thread.section \in Section /\ thread.row = Null /\ thread.text = Null
      /\ thread.at \in 1 .. filled[activeBank] + 1 /\ Agree(thread.at - 1) /\ filled[activeBank] \in 0 .. ArenaSize
  BY DEF Copy, BankInv, BankTypes, Copied, Staged
<1>4. CASE thread.at > filled[activeBank]
  <2>1. arena' = arena /\ thread' = [thread EXCEPT !.step = "clone"]
    BY <1>4 DEF Copy, ThreadTo
  <2>2. thread' \in Writer
    BY <1>3, <2>1 DEF Writer
  <2>3. BankTypes'
    BY <1>1, <2>1, <2>2 DEF BankInv, BankTypes
  <2>4. Copied' /\ Cloned' /\ Staged'
    BY <1>1, <1>3, <1>4, <2>1 DEF Writer, Copied, Cloned, Staged, Agree, Preparing, Inactive
  <2>. QED BY <1>2, <2>3, <2>4 DEF BankInv
<1>5. CASE ~(thread.at > filled[activeBank])
  <2>1. /\ arena' = [arena EXCEPT ![Inactive][thread.at] = arena[activeBank][thread.at]]
        /\ thread' = [thread EXCEPT !.at = @ + 1]
    BY <1>5 DEF Copy
  <2>2. thread' \in Writer /\ thread.at \in 1 .. ArenaSize /\ thread.at <= filled[activeBank]
    BY <1>3, <1>5, <2>1, ArenaAssumption DEF Writer
  <2>3. BankTypes'
    <3>0. arena \in [Bank -> [1 .. ArenaSize -> Nat]] /\ Inactive \in Bank /\ arena[activeBank][thread.at] \in Nat
      BY <2>2, TwoBanks DEF BankInv, BankTypes
    <3>1. arena' \in [Bank -> [1 .. ArenaSize -> Nat]]
      BY <2>1, <2>2, <3>0, StoreTypes
    <3>. QED BY <1>1, <2>2, <3>1 DEF BankInv, BankTypes
  <2>4. \A i \in 1 .. thread.at : arena'[Inactive][i] = arena'[activeBank][i]
    <3>1. /\ arena'[activeBank] = arena[activeBank]
          /\ arena'[Inactive] = [arena[Inactive] EXCEPT ![thread.at] = arena[activeBank][thread.at]]
          /\ arena[Inactive] \in [1 .. ArenaSize -> Nat]
      BY <2>1, TwoBanks DEF BankInv, BankTypes
    <3> TAKE i \in 1 .. thread.at
    <3>2. CASE i = thread.at
      BY <2>2, <3>1, <3>2
    <3>3. CASE i # thread.at
      <4>1. i \in 1 .. thread.at - 1
        BY <2>2, <3>3
      <4>. QED BY <1>3, <3>1, <3>3, <4>1 DEF Agree
    <3>. QED BY <3>2, <3>3
  <2>5. Copied' /\ Cloned' /\ Staged'
    BY <1>1, <1>3, <2>1, <2>2, <2>4 DEF Writer, Copied, Cloned, Staged, Agree, Preparing, Inactive
  <2>. QED BY <1>2, <2>3, <2>5 DEF BankInv
<1>. QED BY <1>4, <1>5

\* An update that is given up leaves the active bank as it is.
LEMMA AbandonInv == ASSUME BankInv, NoRoom \/ MalformedRow PROVE BankInv'
<1>1. [BanksNext]_bankVars /\ UNCHANGED <<activeBank, arena, filled, dir, hot, frames, accepted, lastHot, worker>> /\ thread' = Waiting
  BY DEF BanksNext, Control, NoRoom, MalformedRow, Abandon
<1>2. Directories' /\ Workers' /\ Settled' /\ Live'
  BY <1>1, KeepDirectories, KeepWorkers, KeepLive
<1>3. Waiting \in Writer /\ Waiting.step = "idle"
  BY DEF Waiting, Writer, Pointer, Null, Bank
<1>4. BankTypes'
  BY <1>1, <1>3 DEF BankInv, BankTypes
<1>5. Copied' /\ Cloned' /\ Staged'
  BY <1>1, <1>3 DEF Copied, Cloned, Staged, Preparing
<1>. QED BY <1>2, <1>4, <1>5 DEF BankInv

\* The clone has the entries of the active bank: its rows in its own arena, and
\* the same strings.
LEMMA CloneInv == ASSUME BankInv, Clone PROVE BankInv'
<1>1. [BanksNext]_bankVars /\ UNCHANGED <<activeBank, arena, frames, accepted, lastHot, worker>>
  BY DEF BanksNext, Control, Clone
<1>2. /\ thread.step = "clone" /\ thread \in Writer /\ thread.section \in Section /\ thread.row = Null /\ thread.text = Null
      /\ Agree(filled[activeBank]) /\ thread' = [thread EXCEPT !.step = "alloc"]
  BY DEF Clone, ThreadTo, BankInv, BankTypes, Copied, Staged
<1>3. /\ activeBank \in Bank /\ Inactive \in Bank /\ Inactive # activeBank
      /\ filled'[activeBank] = filled[activeBank] /\ filled'[Inactive] = filled[activeBank]
      /\ hot'[activeBank] = hot[activeBank] /\ hot'[Inactive] = hot[activeBank]
      /\ filled' \in [Bank -> 0 .. ArenaSize] /\ hot' \in [Bank -> Nat]
  BY TwoBanks DEF Clone, BankInv, BankTypes
<1>4. /\ dir'[activeBank] = dir[activeBank]
      /\ \A s \in Section : dir'[Inactive][s] = [row |-> Rebased(dir[activeBank][s].row, Inactive), text |-> dir[activeBank][s].text]
  BY <1>3 DEF Clone, BankInv, BankTypes
<1>5. ASSUME NEW s \in Section PROVE \E f \in Entry : f = dir'[Inactive][s] /\ Held(f)' /\ Cell(f.row)' = accepted[s]
  <2>1. PICK d \in Entry : d = dir[activeBank][s]
    BY <1>3 DEF BankInv, BankTypes
  <2>2. Held(d) /\ Cell(d.row) = accepted[s] /\ d.row \in Pointer /\ d.text \in Pointer
    BY <1>3, <2>1 DEF BankInv, Directories, Live, Entry
  <2>3. PICK q \in Pointer : q = Rebased(d.row, Inactive) /\ Ref(q)' /\ Cell(q)' = Cell(d.row)
    <3>1. CASE d.row = Null
      BY <2>2, <3>1 DEF Rebased, Ref, Cell
    <3>2. CASE d.row # Null
      <4>1. d.row.at \in 1 .. filled[activeBank] /\ arena[d.row.bank][d.row.at] = arena[activeBank][d.row.at]
        BY <1>2, <2>2, <3>2 DEF Held, Ref
      <4>2. PICK q \in Pointer : q = [bank |-> Inactive, at |-> d.row.at]
        BY <1>3, <2>2 DEF Pointer
      <4>3. q = Rebased(d.row, Inactive)
        BY <2>2, <3>2, <4>2 DEF Rebased, Pointer
      <4>4. q # Null /\ q.bank = Inactive /\ q.at = d.row.at
        BY <4>1, <4>2 DEF Null
      <4>5. arena[Inactive][d.row.at] = arena[activeBank][d.row.at]
        BY <1>2, <4>1 DEF Agree
      <4>6. Ref(q)'
        BY <1>1, <1>3, <4>1, <4>4, <4>5 DEF Ref
      <4>7. Cell(q)' = Cell(d.row)
        BY <1>1, <3>2, <4>1, <4>4, <4>5 DEF Cell
      <4>. QED BY <4>3, <4>6, <4>7
    <3>. QED BY <3>1, <3>2
  <2>4. Ref(d.text)' /\ Cell(d.text)' = Cell(d.text)
    BY <1>1, <2>2, RefKept DEF Held
  <2>5. PICK f \in Entry : f = [row |-> q, text |-> d.text]
    BY <2>2 DEF Entry
  <2>6. f = dir'[Inactive][s] /\ f.row = q /\ f.text = d.text
    BY <1>4, <2>1, <2>3, <2>5
  <2>7. Held(f)' /\ Cell(f.row)' = accepted[s]
    BY <2>2, <2>3, <2>4, <2>6 DEF Held
  <2>. QED BY <2>6, <2>7
<1>6. BankTypes'
  <2>1. thread' \in Writer
    BY <1>2 DEF Writer, Preparing
  <2>2. dir' \in [Bank -> [Section -> Entry]]
    <3> DEFINE e == [s \in Section |-> [row |-> Rebased(dir[activeBank][s].row, Inactive), text |-> dir[activeBank][s].text]]
    <3>1. dir' = [dir EXCEPT ![Inactive] = e]
      BY DEF Clone
    <3>2. \A s \in Section : e[s] \in Entry
      BY <1>4, <1>5
    <3>3. e \in [Section -> Entry]
      BY <3>2
    <3> HIDE DEF e
    <3>. QED BY <1>3, <3>1, <3>3 DEF BankInv, BankTypes
  <2>. QED BY <1>1, <1>3, <2>1, <2>2 DEF BankInv, BankTypes
<1>7. Directories'
  <2>1. ASSUME NEW s \in Section PROVE Held(dir[activeBank][s])'
    <3>1. PICK d \in Entry : d = dir[activeBank][s] /\ Held(d)
      BY <1>3 DEF BankInv, BankTypes, Directories
    <3>2. Held(d)' /\ dir'[activeBank'][s] = d
      BY <1>1, <1>4, <3>1, HeldKept
    <3>. QED BY <3>2
  <2>2. ASSUME NEW s \in Section PROVE Held(dir[Inactive][s])'
    <3>1. Inactive' = Inactive
      BY <1>1 DEF Inactive
    <3>. QED BY <1>5, <3>1
  <2>3. activeBank' \in Bank /\ Inactive' = Inactive /\ \A b \in Bank : b \in {activeBank', Inactive'}
    BY <1>1, <1>3, TwoBanks DEF Inactive
  <2>. QED BY <2>1, <2>2, <2>3 DEF Directories
<1>8. Settled' /\ Live'
  BY <1>1, <1>3, <1>4, KeepLive
<1>9. Workers'
  BY <1>1, KeepWorkers
<1>10. Copied' /\ Staged'
  BY <1>2 DEF Writer, Copied, Staged
<1>11. Cloned'
  <2>1. Inactive' = Inactive /\ filled'[activeBank'] = filled[activeBank] /\ filled[activeBank] \in Nat
    BY <1>1, <1>3 DEF Inactive, BankInv, BankTypes
  <2>2. \A i \in 1 .. filled[activeBank] : arena'[Inactive][i] = arena'[activeBank][i]
    BY <1>1, <1>2 DEF Agree
  <2>3. hot'[Inactive] = lastHot'
    BY <1>1, <1>3 DEF BankInv, Live
  <2>4. \A s \in Section : Cell(dir[Inactive][s].row)' = accepted'[s]
    BY <1>1, <1>5, <2>1
  <2>. QED BY <1>1, <1>3, <2>1, <2>2, <2>3, <2>4 DEF Cloned, Agree
<1>. QED BY <1>6, <1>7, <1>8, <1>9, <1>10, <1>11 DEF BankInv

\* The rest of the invariant while an update is prepared, for a step that
\* leaves the directories alone and stores beyond what is live, if at all.
LEMMA Preparation ==
  ASSUME BankInv, [BanksNext]_bankVars, UNCHANGED <<activeBank, dir, hot, frames, accepted, lastHot, worker>>,
         thread.step \in {"alloc", "text"}, thread' \in Writer, thread'.step \in {"text", "link"},
         arena' \in [Bank -> [1 .. ArenaSize -> Nat]], filled' \in [Bank -> 0 .. ArenaSize],
         arena'[activeBank] = arena[activeBank], filled'[activeBank] = filled[activeBank],
         filled[Inactive] <= filled'[Inactive],
         \A i \in 1 .. filled[Inactive] : arena'[Inactive][i] = arena[Inactive][i],
         Staged'
  PROVE  BankInv'
<1>1. BankTypes'
  BY DEF BankInv, BankTypes
<1>2. Directories' /\ Workers' /\ Settled' /\ Live'
  BY KeepDirectories, KeepWorkers, KeepLive
<1>3. Copied'
  BY DEF Copied
<1>4. Cloned'
  <2>1. /\ Inactive' = Inactive /\ activeBank \in Bank /\ Inactive \in Bank /\ filled[activeBank] \in Nat /\ filled[Inactive] \in Nat
        /\ filled'[Inactive] \in Nat
    BY TwoBanks DEF Inactive, BankInv, BankTypes
  <2>2. /\ filled[activeBank] <= filled[Inactive] /\ hot[Inactive] = lastHot /\ Agree(filled[activeBank])
        /\ \A s \in Section : Cell(dir[Inactive][s].row) = accepted[s]
    BY DEF BankInv, Cloned, Preparing
  <2>3. \A i \in 1 .. filled[activeBank] : arena'[Inactive][i] = arena'[activeBank][i]
    BY <2>1, <2>2 DEF Agree
  <2>4. ASSUME NEW s \in Section PROVE Cell(dir[Inactive][s].row)' = accepted'[s]
    <3>1. PICK p \in Pointer : p = dir[Inactive][s].row /\ Ref(p)
      BY <2>1 DEF BankInv, BankTypes, Directories, Held, Entry
    <3>2. Cell(p)' = accepted[s]
      BY <2>2, <3>1, RefKept
    <3>. QED BY <2>1, <3>1, <3>2
  <2>. QED BY <2>1, <2>2, <2>3, <2>4 DEF Cloned, Agree
<1>. QED BY <1>1, <1>2, <1>3, <1>4 DEF BankInv

\* An update without rows, or whose strings do not fit.
LEMMA SkipInv == ASSUME BankInv, Empty \/ TextsLost PROVE BankInv'
<1>1. /\ [BanksNext]_bankVars /\ UNCHANGED <<activeBank, arena, filled, dir, hot, frames, accepted, lastHot, worker>>
      /\ thread.step \in {"alloc", "text"} /\ thread' = [thread EXCEPT !.step = "link"]
  BY DEF BanksNext, Control, Empty, TextsLost, ThreadTo
<1>2. thread \in Writer /\ filled \in [Bank -> 0 .. ArenaSize] /\ arena \in [Bank -> [1 .. ArenaSize -> Nat]]
      /\ filled[Inactive] \in Nat
  BY TwoBanks DEF BankInv, BankTypes
<1>5. thread' \in Writer
  BY <1>1, <1>2 DEF Writer, Preparing
<1>3. thread'.step = "link" /\ thread'.section = thread.section /\ thread'.row = thread.row /\ thread'.text = thread.text /\ thread'.n = thread.n
  BY <1>1, <1>2 DEF Writer
<1>4. Staged'
  <2>1. /\ thread.section \in Section
        /\ \/ thread.row = Null /\ thread.text = Null
           \/ New(thread.row) /\ (thread.text = Null \/ New(thread.text))
    BY <1>1 DEF BankInv, Staged
  <2>2. CASE thread.row = Null /\ thread.text = Null
    BY <1>3, <2>1, <2>2 DEF Staged
  <2>3. CASE New(thread.row) /\ (thread.text = Null \/ New(thread.text))
    <3>1. Inactive' = Inactive
      BY <1>1 DEF Inactive
    <3>2. New(thread.row)' /\ (thread'.text = Null \/ New(thread.text)')
      BY <1>1, <1>3, <2>3, <3>1 DEF New
    <3>. QED BY <1>3, <2>1, <3>2 DEF Staged
  <2>. QED BY <2>1, <2>2, <2>3
<1>. QED BY <1>1, <1>2, <1>3, <1>4, <1>5, Preparation

\* One cell is put behind everything that is live.
LEMMA PutInv ==
  ASSUME BankInv, [BanksNext]_bankVars, thread.step \in {"alloc", "text"}, NEW t \in Writer, Put(t),
         t.step \in {"text", "link"}, Staged'
  PROVE  BankInv'
<1>1. /\ activeBank \in Bank /\ Inactive \in Bank /\ Inactive # activeBank /\ filled[Inactive] \in Nat /\ thread.n \in Nat
      /\ filled[Inactive] + 1 \in 1 .. ArenaSize
      /\ arena \in [Bank -> [1 .. ArenaSize -> Nat]] /\ filled \in [Bank -> 0 .. ArenaSize]
  <2>1. /\ activeBank \in Bank /\ arena \in [Bank -> [1 .. ArenaSize -> Nat]] /\ filled \in [Bank -> 0 .. ArenaSize]
        /\ thread \in Writer /\ filled[Inactive] < ArenaSize
    BY DEF Put, BankInv, BankTypes
  <2>2. thread.n \in Nat
    BY <2>1 DEF Writer
  <2>3. Inactive \in Bank /\ Inactive # activeBank
    BY <2>1, TwoBanks
  <2>4. filled[Inactive] \in 0 .. ArenaSize
    BY <2>1, <2>3
  <2>. QED BY <2>1, <2>2, <2>3, <2>4, ArenaAssumption
<1>2. /\ filled' = [filled EXCEPT ![Inactive] = @ + 1] /\ thread' = t
      /\ arena' = [arena EXCEPT ![Inactive][filled[Inactive] + 1] = thread.n]
      /\ UNCHANGED <<activeBank, dir, hot, frames, accepted, lastHot, worker>>
  BY DEF Put
<1>3. arena' \in [Bank -> [1 .. ArenaSize -> Nat]]
  BY <1>1, <1>2, StoreTypes
<1>4. filled' \in [Bank -> 0 .. ArenaSize] /\ filled'[activeBank] = filled[activeBank] /\ filled[Inactive] <= filled'[Inactive]
  BY <1>1, <1>2
<1>5. arena'[activeBank] = arena[activeBank] /\ \A i \in 1 .. filled[Inactive] : arena'[Inactive][i] = arena[Inactive][i]
  BY <1>1, <1>2
<1>. QED BY <1>2, <1>3, <1>4, <1>5, Preparation

\* The cell that was put is new, and what was new before it stays so.
LEMMA PutNew ==
  ASSUME BankInv, thread.step \in {"alloc", "text"}, NEW t \in Writer, Put(t), t.n = thread.n
  PROVE  /\ FreeCell \in Pointer /\ FreeCell # Null
         /\ \A p \in Pointer : p = FreeCell \/ New(p) => New(p)'
<1>1. /\ activeBank \in Bank /\ Inactive \in Bank /\ Inactive # activeBank /\ filled[Inactive] \in Nat /\ filled[activeBank] \in Nat
      /\ filled[Inactive] + 1 \in 1 .. ArenaSize /\ filled[activeBank] <= filled[Inactive]
      /\ arena \in [Bank -> [1 .. ArenaSize -> Nat]] /\ filled \in [Bank -> 0 .. ArenaSize] /\ arena[Inactive] \in [1 .. ArenaSize -> Nat]
  <2>1. /\ activeBank \in Bank /\ arena \in [Bank -> [1 .. ArenaSize -> Nat]] /\ filled \in [Bank -> 0 .. ArenaSize]
        /\ filled[Inactive] < ArenaSize /\ filled[activeBank] <= filled[Inactive]
    BY DEF Put, BankInv, BankTypes, Cloned, Preparing
  <2>. QED BY <2>1, TwoBanks, ArenaAssumption
<1>2. /\ filled'[Inactive] = filled[Inactive] + 1 /\ filled'[activeBank] = filled[activeBank]
      /\ arena'[Inactive] = [arena[Inactive] EXCEPT ![filled[Inactive] + 1] = thread.n]
      /\ Inactive' = Inactive /\ activeBank' = activeBank /\ thread'.n = thread.n
  BY <1>1 DEF Put, Inactive
<1>3. FreeCell \in Pointer /\ FreeCell # Null /\ FreeCell.bank = Inactive /\ FreeCell.at = filled[Inactive] + 1
  BY <1>1 DEF FreeCell, Pointer, Null
<1>4. ASSUME NEW p \in Pointer, p = FreeCell PROVE New(p)'
  <2>1. arena'[Inactive][p.at] = thread.n /\ p.bank = Inactive /\ p.at \in filled[activeBank] + 1 .. filled[Inactive] + 1
    BY <1>1, <1>2, <1>3, <1>4
  <2>. QED BY <1>2, <2>1 DEF New
<1>5. ASSUME NEW p \in Pointer, New(p) PROVE New(p)'
  <2>1. p.bank = Inactive /\ p.at \in filled[activeBank] + 1 .. filled[Inactive] /\ arena[Inactive][p.at] = thread.n
    BY <1>5 DEF New
  <2>2. arena'[Inactive][p.at] = thread.n /\ p.at \in filled[activeBank] + 1 .. filled[Inactive] + 1
    BY <1>1, <1>2, <2>1
  <2>. QED BY <1>2, <2>1, <2>2 DEF New
<1>. QED BY <1>3, <1>4, <1>5

\* The rows go into a cell that is new.
LEMMA LoadRowsInv == ASSUME BankInv, LoadRows PROVE BankInv'
<1>1. PICK t : t = [thread EXCEPT !.step = IF thread.section = "intel" THEN "text" ELSE "link", !.row = FreeCell]
  OBVIOUS
<1>2. Put(t) /\ thread.step = "alloc" /\ thread \in Writer /\ [BanksNext]_bankVars
  BY <1>1 DEF LoadRows, BanksNext, Control, BankInv, BankTypes
<1>3. thread.section \in Section /\ thread.text = Null
  BY <1>2 DEF BankInv, Staged
<1>4. FreeCell \in Pointer
  BY TwoBanks DEF FreeCell, Pointer, BankInv, BankTypes
<1>5. t \in Writer /\ t.step \in {"text", "link"} /\ t.section = thread.section /\ t.row = FreeCell /\ t.text = thread.text /\ t.n = thread.n
  BY <1>1, <1>2, <1>4 DEF Writer, Preparing
<1>6. FreeCell # Null /\ \A p \in Pointer : p = FreeCell \/ New(p) => New(p)'
  BY <1>2, <1>5, PutNew
<1>7. PICK p \in Pointer : p = t.row /\ p # Null /\ New(p)'
  BY <1>4, <1>5, <1>6
<1>8. Staged'
  <2>1. thread' = t
    BY <1>2 DEF Put
  <2>. QED BY <1>3, <1>5, <1>7, <2>1 DEF Staged, New
<1>. QED BY <1>2, <1>5, <1>8, PutInv

\* The strings go into the next one.
LEMMA TextsInv == ASSUME BankInv, Texts PROVE BankInv'
<1>1. PICK t : t = [thread EXCEPT !.step = "link", !.text = FreeCell]
  OBVIOUS
<1>2. Put(t) /\ thread.step = "text" /\ thread \in Writer /\ [BanksNext]_bankVars
  BY <1>1 DEF Texts, BanksNext, Control, BankInv, BankTypes
<1>3. thread.section \in Section /\ thread.row # Null /\ New(thread.row) /\ thread.row \in Pointer
  BY <1>2 DEF BankInv, Staged, Writer
<1>4. FreeCell \in Pointer
  BY TwoBanks DEF FreeCell, Pointer, BankInv, BankTypes
<1>5. t \in Writer /\ t.step = "link" /\ t.section = thread.section /\ t.row = thread.row /\ t.text = FreeCell /\ t.n = thread.n
  BY <1>1, <1>2, <1>4 DEF Writer, Preparing
<1>6. \A p \in Pointer : p = FreeCell \/ New(p) => New(p)'
  BY <1>2, <1>5, PutNew
<1>7. PICK p \in Pointer, q \in Pointer : p = t.row /\ q = t.text /\ New(p)' /\ New(q)'
  BY <1>3, <1>4, <1>5, <1>6
<1>8. Staged'
  <2>1. thread' = t
    BY <1>2 DEF Put
  <2>. QED BY <1>3, <1>5, <1>7, <2>1 DEF Staged, New
<1>. QED BY <1>2, <1>5, <1>8, PutInv

\* The entry is linked into the bank that is about to be published.
LEMMA LinkInv == ASSUME BankInv, Link PROVE BankInv'
<1>1. [BanksNext]_bankVars /\ UNCHANGED <<activeBank, arena, filled, hot, frames, accepted, lastHot, worker>>
  BY DEF BanksNext, Control, Link
<1>2. /\ thread.step = "link" /\ thread \in Writer /\ thread' = [thread EXCEPT !.step = "publish"]
      /\ activeBank \in Bank /\ Inactive \in Bank /\ Inactive # activeBank /\ Inactive' = Inactive
  BY <1>1, TwoBanks DEF Link, ThreadTo, BankInv, BankTypes, Inactive
<1>3. /\ thread.section \in Section
      /\ \/ thread.row = Null /\ thread.text = Null
         \/ New(thread.row) /\ (thread.text = Null \/ New(thread.text))
  BY <1>2 DEF BankInv, Staged
<1>4. /\ thread' \in Writer /\ thread'.step = "publish" /\ thread'.section = thread.section
      /\ thread'.row = thread.row /\ thread'.text = thread.text /\ thread'.n = thread.n
  BY <1>2 DEF Writer, Preparing
<1>5. PICK f \in Entry : f.row = thread.row /\ f.text = thread.text /\ f = [row |-> thread.row, text |-> thread.text]
  BY <1>2 DEF Writer, Entry
<1>6. /\ dir' = [dir EXCEPT ![Inactive][thread.section] = f] /\ dir \in [Bank -> [Section -> Entry]]
      /\ dir'[activeBank] = dir[activeBank] /\ dir'[Inactive][thread.section] = f
      /\ \A s \in Section : s # thread.section => dir'[Inactive][s] = dir[Inactive][s]
  BY <1>2, <1>3, <1>5 DEF Link, BankInv, BankTypes
<1>7. Held(f)'
  <2>1. filled[activeBank] \in Nat /\ filled[Inactive] \in Nat
    BY <1>2 DEF BankInv, BankTypes
  <2>2. ASSUME NEW p \in Pointer, New(p) PROVE p # Null /\ Ref(p)' /\ Cell(p)' = thread.n
    <3>1. p.bank = Inactive /\ p.at \in 1 .. filled[Inactive] /\ arena[Inactive][p.at] = thread.n /\ p # Null
      BY <2>1, <2>2 DEF New, Null
    <3>. QED BY <1>1, <1>2, <1>4, <3>1 DEF Ref, Cell
  <2>3. Ref(Null)' /\ Cell(Null)' = 0
    BY DEF Ref, Cell
  <2>4. f.row \in Pointer /\ f.text \in Pointer
    BY DEF Entry
  <2>5. CASE f.row = Null /\ f.text = Null
    BY <2>3, <2>5 DEF Held
  <2>6. CASE New(f.row) /\ f.text = Null
    BY <2>2, <2>3, <2>4, <2>6 DEF Held
  <2>7. CASE New(f.row) /\ New(f.text)
    BY <2>2, <2>4, <2>7 DEF Held
  <2>. QED BY <1>3, <1>5, <2>5, <2>6, <2>7
<1>8. BankTypes'
  <2>1. dir' \in [Bank -> [Section -> Entry]]
    BY <1>2, <1>3, <1>6
  <2>. QED BY <1>1, <1>4, <2>1 DEF BankInv, BankTypes
<1>9. Directories'
  <2> SUFFICES ASSUME NEW b \in Bank, NEW s \in Section PROVE Held(dir[b][s])'
    BY DEF Directories
  <2>1. CASE b = Inactive /\ s = thread.section
    BY <1>6, <1>7, <2>1
  <2>2. CASE ~(b = Inactive /\ s = thread.section)
    <3>1. PICK d \in Entry : d = dir[b][s] /\ Held(d)
      BY DEF BankInv, BankTypes, Directories
    <3>2. dir'[b][s] = d
      BY <1>2, <1>6, <2>2, <3>1, TwoBanks
    <3>3. Held(d)'
      BY <1>1, <3>1, HeldKept
    <3>. QED BY <3>2, <3>3
  <2>. QED BY <2>1, <2>2
<1>10. Settled' /\ Live'
  BY <1>1, <1>6, KeepLive
<1>11. Workers'
  BY <1>1, KeepWorkers
<1>12. Copied'
  BY <1>4 DEF Copied
<1>13. Cloned'
  <2>1. /\ filled[activeBank] <= filled[Inactive] /\ Agree(filled[activeBank]) /\ hot[Inactive] = lastHot
        /\ \A s \in Section : Cell(dir[Inactive][s].row) = accepted[s]
    BY <1>2 DEF BankInv, Cloned, Preparing
  <2>2. ASSUME NEW s \in Section, s # thread.section PROVE Cell(dir[Inactive][s].row)' = accepted'[s]
    <3>1. dir'[Inactive'][s] = dir[Inactive][s]
      BY <1>2, <1>6, <2>2
    <3>. QED BY <1>1, <2>1, <3>1 DEF Cell
  <2>. QED BY <1>1, <1>2, <1>4, <2>1, <2>2 DEF Cloned, Agree
<1>14. Staged'
  BY <1>1, <1>2, <1>3, <1>4, <1>5, <1>6 DEF Staged, New
<1>. QED BY <1>8, <1>9, <1>10, <1>11, <1>12, <1>13, <1>14 DEF BankInv

\* The flip makes the update live and nothing else.
LEMMA PublishInv == ASSUME BankInv, Publish PROVE BankInv'
<1>1. [BanksNext]_bankVars /\ UNCHANGED <<arena, filled, dir, hot, frames, lastHot, worker>>
  BY DEF BanksNext, Control, Publish
<1>2. /\ thread.step = "publish" /\ thread \in Writer /\ thread' = Waiting /\ activeBank' = Inactive
      /\ accepted' = [accepted EXCEPT ![thread.section] = IF thread.row = Null THEN 0 ELSE thread.n]
      /\ activeBank \in Bank /\ Inactive \in Bank /\ accepted \in [Section -> Nat]
  BY TwoBanks DEF Publish, BankInv, BankTypes
<1>3. /\ thread.section \in Section /\ (thread.row = Null \/ New(thread.row))
      /\ dir[Inactive][thread.section] = [row |-> thread.row, text |-> thread.text]
  BY <1>2 DEF BankInv, Staged
<1>4. Directories' /\ Workers'
  BY <1>1, KeepDirectories, KeepWorkers
<1>5. Waiting \in Writer /\ Waiting.step = "idle"
  BY DEF Waiting, Writer, Pointer, Null, Bank
<1>6. BankTypes'
  <2>1. accepted' \in [Section -> Nat]
    BY <1>2, <1>3 DEF Writer
  <2>. QED BY <1>1, <1>2, <1>5, <2>1 DEF BankInv, BankTypes
<1>7. Copied' /\ Cloned' /\ Staged'
  BY <1>2, <1>5 DEF Copied, Cloned, Staged, Preparing
<1>8. filled[activeBank] <= filled[Inactive] /\ filled[activeBank] \in Nat /\ filled[Inactive] \in Nat
  BY <1>2 DEF BankInv, BankTypes, Cloned, Preparing
<1>9. Settled'
  <2> SUFFICES ASSUME NEW s \in Section
               PROVE  dir[Inactive][s].row = Null \/ dir[Inactive][s].row.at \in 1 .. filled[Inactive]
    BY <1>1, <1>2 DEF Settled
  <2>1. Ref(dir[Inactive][s].row)
    BY <1>2 DEF BankInv, Directories, Held
  <2>. QED BY <1>8, <2>1 DEF Ref
<1>10. Live'
  <2>1. hot'[activeBank'] = lastHot'
    BY <1>1, <1>2 DEF BankInv, Cloned, Preparing
  <2>2. ASSUME NEW s \in Section PROVE Cell(dir[Inactive][s].row) = accepted'[s]
    <3>1. CASE s # thread.section
      BY <1>2, <3>1 DEF BankInv, Cloned, Preparing
    <3>2. CASE s = thread.section
      <4>1. accepted'[s] = (IF thread.row = Null THEN 0 ELSE thread.n) /\ dir[Inactive][s].row = thread.row
        BY <1>2, <1>3, <3>2
      <4>. QED BY <1>3, <4>1 DEF Cell, New
    <3>. QED BY <3>1, <3>2
  <2>3. ASSUME NEW s \in Section PROVE Cell(dir[activeBank][s].row)' = accepted'[s]
    <3>1. Cell(dir[activeBank][s].row)' = Cell(dir[Inactive][s].row)
      BY <1>1, <1>2 DEF Cell
    <3>. QED BY <2>2, <3>1
  <2>. QED BY <2>1, <2>3 DEF Live
<1>. QED BY <1>4, <1>6, <1>7, <1>9, <1>10 DEF BankInv

(* ------------------------------ results -------------------------------- *)

\* At first both banks are empty.
LEMMA BanksInitInv == ASSUME BanksInit PROVE BankInv
<1>1. Null \in Pointer /\ Unset \in Entry /\ Unset.row = Null /\ Unset.text = Null /\ Waiting \in Writer /\ Waiting.step = "idle"
  BY DEF Null, Pointer, Unset, Entry, Waiting, Writer, Bank
<1>2. OffDuty \in Reader /\ OffDuty.section = "none"
  BY <1>1 DEF OffDuty, Reader
<1>3. BankTypes
  BY <1>1, <1>2, ArenaAssumption DEF BanksInit, BankTypes, Bank
<1>4. Directories /\ Settled /\ Live
  BY <1>1 DEF BanksInit, Directories, Settled, Live, Held, Ref, Cell, Bank
<1>5. Workers /\ Copied /\ Cloned /\ Staged
  BY <1>1, <1>2 DEF BanksInit, Workers, Copied, Cloned, Staged, Preparing
<1>. QED BY <1>3, <1>4, <1>5 DEF BankInv

\* Every step keeps the invariant.
LEMMA BanksNextInv == ASSUME BankInv, [BanksNext]_bankVars PROVE BankInv'
<1>1. CASE UNCHANGED bankVars
  <2>1. BankTypes' /\ Directories' /\ Workers' /\ Settled' /\ Live'
    BY <1>1, KeepDirectories, KeepWorkers, KeepLive DEF bankVars, BankInv, BankTypes
  <2>2. Copied' /\ Staged'
    BY <1>1 DEF bankVars, BankInv, Copied, Agree, Staged, New, Inactive
  <2>3. Cloned'
    BY <1>1 DEF bankVars, BankInv, Cloned, Agree, Cell, Inactive
  <2>. QED BY <2>1, <2>2, <2>3 DEF BankInv
<1>2. CASE \E s \in Section : Dequeue(s)
  BY <1>2, DequeueInv
<1>3. CASE Control
  BY <1>3, HotVerdictInv, CopyInv, CloneInv, AbandonInv, SkipInv, LoadRowsInv, TextsInv, LinkInv,
     PublishInv DEF Control
<1>4. CASE \E w \in Worker : TakeBank(w) \/ PutBack(w) \/ \E s \in Section : TakeSection(w, s)
  BY <1>4, WorkerInv
<1>. QED BY <1>1, <1>2, <1>3, <1>4 DEF BanksNext

\* The active bank is what was accepted, and what a worker holds stays as it
\* was, for any number of workers and frames and any size of the arenas: the
\* promise of ffn_dpmem.h.
THEOREM SoundBanks == BanksSpec => []BanksAreSound
<1>1. ASSUME BankInv PROVE BanksAreSound
  BY <1>1 DEF BankInv, Workers, Held, Follow, BanksAreSound, Intact
<1>. QED BY <1>1, BanksInitInv, BanksNextInv, PTL DEF BanksSpec
============================================================================
