--------------------------- MODULE NetworkProofs ---------------------------
(***************************************************************************)
(* The network of the dataplane, for every set of ports and routers, every *)
(* size of ring and every payload: a live change is whole or is taken back *)
(* whole, and the rings between the planes are queues.                     *)
(***************************************************************************)
EXTENDS NetworkPatch, DpRing, SequenceTheorems, TLAPS

(***************************************************************************)
(* NetworkPatch: a change is all or nothing for the kernel.                *)
(***************************************************************************)

Kinds == {"create", "unrule", "unroute", "port", "route", "rule", "delete"}
Cmds  == [do : Kinds, on : Vrf \cup Port \cup Over]
Live  == [mode : {"off", "absent", "l3"}, vrf : Vrf \cup {Main}, addrs : SUBSET {"x", "y"}, mtu : {0, 1, 2}]
Kernels == [vrfs : SUBSET Vrf, ports : [Port -> Live], routes : SUBSET Over, rules : SUBSET Over]

(* What a set of commands is about, by kind.                               *)
On(u, do) == {c.on : c \in {d \in u : d.do = do}}

(* The commands that are still to be taken back are of the difference      *)
(* between the stored and the target network.                              *)
Bounded(u) ==
  /\ u \subseteq Cmds
  /\ On(u, "create") \subseteq stored.vrfs \ target.vrfs
  /\ On(u, "delete") \subseteq target.vrfs \ stored.vrfs
  /\ On(u, "route") \subseteq stored.routes \ target.routes
  /\ On(u, "unroute") \subseteq target.routes \ stored.routes
  /\ On(u, "rule") \subseteq stored.rules \ target.rules
  /\ On(u, "unrule") \subseteq target.rules \ stored.rules
  /\ On(u, "port") \subseteq {p \in Port : stored.ports[p] # target.ports[p]}

(* Where routers were deleted or ports rewired, the routes were done       *)
(* before, and none of that is undone yet.                                 *)
Closed(u) ==
  /\ On(u, "create") # {} => /\ On(u, "route") = stored.routes \ target.routes
                             /\ On(u, "unroute") = target.routes \ stored.routes
  /\ On(u, "port") # {} => On(u, "route") = stored.routes \ target.routes

(* A port that was begun: only its addresses may differ if those are all   *)
(* that changes.                                                           *)
Touched(p, s) ==
  /\ s \in Live
  /\ AddressOnly(stored.ports[p], target.ports[p]) =>
       /\ s.mode = "l3" /\ s.vrf = stored.ports[p].vrf /\ s.mtu = stored.ports[p].mtu
       /\ s.addrs \subseteq stored.ports[p].addrs \cup target.ports[p].addrs

(* The kernel is the stored network but for what is to be taken back.      *)
Behind(k, u) ==
  /\ k \in Kernels
  /\ k.vrfs = (stored.vrfs \ On(u, "create")) \cup On(u, "delete")
  /\ k.routes = (stored.routes \ On(u, "route")) \cup On(u, "unroute")
  /\ k.rules = (stored.rules \ On(u, "rule")) \cup On(u, "unrule")
  /\ \A p \in Port : IF p \in On(u, "port") THEN Touched(p, k.ports[p]) ELSE k.ports[p] = stored.ports[p]

(* The same for the commands that are done.                                *)
Ahead(k, d) ==
  /\ k \in Kernels
  /\ k.vrfs = (stored.vrfs \ On(d, "delete")) \cup On(d, "create")
  /\ k.routes = (stored.routes \ On(d, "unroute")) \cup On(d, "route")
  /\ k.rules = (stored.rules \ On(d, "unrule")) \cup On(d, "rule")
  /\ \A p \in Port : k.ports[p] = IF p \in On(d, "port") THEN target.ports[p] ELSE stored.ports[p]

Rewires(p) == stored.ports[p] # target.ports[p] /\ ~AddressOnly(stored.ports[p], target.ports[p])
Settled == \A r \in stored.routes \cap target.routes : ~Rewires(r.port)

(* What the patch is about, by kind of command.                            *)
Diff == [create |-> target.vrfs \ stored.vrfs, delete |-> stored.vrfs \ target.vrfs,
         route |-> target.routes \ stored.routes, unroute |-> stored.routes \ target.routes,
         rule |-> target.rules \ stored.rules, unrule |-> stored.rules \ target.rules,
         port |-> {p \in Port : stored.ports[p] # target.ports[p]}]
Change == {c \in Cmds : c.on \in Diff[c.do]}

Forward ==
  /\ todo \cup done = Change /\ todo \cap done = {}
  /\ \A c \in done, d \in todo : Order[c.do] <= Order[d.do]
  /\ Ahead(kernel, done)

Backward == Bounded(undo) /\ Closed(undo) /\ Behind(kernel, undo)

NetInv == ~hurt =>
  /\ stored \in Network /\ target \in Network /\ at \in {"idle", "forward", "undo"}
  /\ at = "idle" => kernel = stored /\ target = stored
  /\ at # "idle" => Settled
  /\ at = "forward" => Forward
  /\ at = "undo" => Backward

-----------------------------------------------------------------------------
LEMMA SettingLive == Setting \subseteq Live
  BY DEF Setting, Off, Absent, L3, Live

LEMMA NetworkFacts ==
  ASSUME NEW n \in Network
  PROVE  n \in Kernels /\ n.ports \in [Port -> Setting] /\ Valid(n)
  BY SettingLive DEF Network, Kernels

LEMMA SameKernel ==
  ASSUME NEW k \in Kernels, NEW n \in Kernels, k.vrfs = n.vrfs, k.routes = n.routes, k.rules = n.rules,
         \A p \in Port : k.ports[p] = n.ports[p]
  PROVE  k = n
<1>1. k.ports = n.ports
  BY DEF Kernels
<1> QED BY <1>1 DEF Kernels

LEMMA OrderFacts ==
  /\ Order["create"] = 1 /\ Order["unrule"] = 2 /\ Order["unroute"] = 3 /\ Order["port"] = 4
  /\ Order["route"] = 5 /\ Order["rule"] = 6 /\ Order["delete"] = 7
  /\ UndoOrder["unrule"] = 1 /\ UndoOrder["create"] = 2 /\ UndoOrder["unroute"] = 3 /\ UndoOrder["port"] = 4
  /\ UndoOrder["route"] = 5 /\ UndoOrder["rule"] = 6 /\ UndoOrder["delete"] = 7
  BY DEF Order, UndoOrder

(* One command less, or one more.                                          *)
LEMMA OneLess ==
  ASSUME NEW u, u \subseteq Cmds, NEW c \in u, NEW do \in Kinds
  PROVE  On(u \ {c}, do) = IF do = c.do THEN On(u, do) \ {c.on} ELSE On(u, do)
  BY DEF On, Cmds

LEMMA OneMore ==
  ASSUME NEW u, u \subseteq Cmds, NEW c \in Cmds, NEW do \in Kinds
  PROVE  On(u \cup {c}, do) = IF do = c.do THEN On(u, do) \cup {c.on} ELSE On(u, do)
  BY DEF On, Cmds

LEMMA OppositeFacts ==
  /\ Opposite("create") = "delete" /\ Opposite("delete") = "create" /\ Opposite("route") = "unroute"
  /\ Opposite("unroute") = "route" /\ Opposite("rule") = "unrule" /\ Opposite("unrule") = "rule"
  /\ Opposite("port") = "port"
  BY DEF Opposite

LEMMA UnwindOn ==
  ASSUME NEW u, u \subseteq Cmds
  PROVE  /\ Unwind(u) \subseteq Cmds
         /\ \A do \in Kinds : On(Unwind(u), do) = On(u, Opposite(do))
<1>1. \A c \in u : c.do \in Kinds /\ c.on \in Vrf \cup Port \cup Over /\ c = Command(c.do, c.on)
  BY DEF Cmds, Command
<1>2. \A do \in Kinds : Opposite(do) \in Kinds /\ Opposite(Opposite(do)) = do
  BY OppositeFacts DEF Kinds
<1>3. Unwind(u) \subseteq Cmds
  BY <1>1, <1>2 DEF Unwind, Command, Cmds
<1>4. ASSUME NEW do \in Kinds PROVE On(Unwind(u), do) = On(u, Opposite(do))
  <2>1. ASSUME NEW x \in On(Unwind(u), do) PROVE x \in On(u, Opposite(do))
    <3>1. PICK c \in u : Command(Opposite(c.do), c.on).do = do /\ x = Command(Opposite(c.do), c.on).on
      BY <2>1 DEF On, Unwind
    <3>2. Opposite(c.do) = do /\ x = c.on
      BY <3>1 DEF Command
    <3>3. c.do = Opposite(do)
      BY <1>1, <1>2, <3>2
    <3> QED BY <3>2, <3>3 DEF On
  <2>2. ASSUME NEW x \in On(u, Opposite(do)) PROVE x \in On(Unwind(u), do)
    <3>1. PICK c \in u : c.do = Opposite(do) /\ x = c.on
      BY <2>2 DEF On
    <3>2. Command(Opposite(c.do), c.on) \in Unwind(u)
      BY DEF Unwind
    <3>3. Command(Opposite(c.do), c.on).do = do /\ Command(Opposite(c.do), c.on).on = x
      BY <1>2, <3>1 DEF Command
    <3> QED BY <3>2, <3>3 DEF On
  <2> QED BY <2>1, <2>2
<1> QED BY <1>3, <1>4

(* The ports.                                                              *)
LEMMA DownFacts ==
  ASSUME NEW k \in Kernels, NEW p \in Port, NEW s \in Setting
  PROVE  /\ Down(k, p) \in Kernels /\ Down(k, p).vrfs = k.vrfs /\ Down(k, p).rules = k.rules
         /\ Down(k, p).routes = {r \in k.routes : r.port # p}
         /\ \A q \in Port : Down(k, p).ports[q] = IF q = p THEN Off ELSE k.ports[q]
         /\ Configured(k, p, s) \in Kernels /\ Configured(k, p, s).vrfs = k.vrfs /\ Configured(k, p, s).rules = k.rules
         /\ Configured(k, p, s).routes = {r \in k.routes : r.port # p}
         /\ \A q \in Port : Configured(k, p, s).ports[q] = IF q = p THEN s ELSE k.ports[q]
<1>1. Off \in Live /\ s \in Live
  BY SettingLive DEF Setting
<1>2. Down(k, p) = [k EXCEPT !.ports = [k.ports EXCEPT ![p] = Off], !.routes = {r \in k.routes : r.port # p}]
  BY DEF Down, Kernels
<1>3. /\ Down(k, p) \in Kernels /\ Down(k, p).vrfs = k.vrfs /\ Down(k, p).rules = k.rules
      /\ Down(k, p).routes = {r \in k.routes : r.port # p}
      /\ \A q \in Port : Down(k, p).ports[q] = IF q = p THEN Off ELSE k.ports[q]
  BY <1>1, <1>2 DEF Kernels
<1> QED BY <1>1, <1>3 DEF Configured, Kernels

WithAddrs(k, p, a) == [k EXCEPT !.ports[p].addrs = a]

LEMMA AddrsFacts ==
  ASSUME NEW k \in Kernels, NEW p \in Port, NEW a \in SUBSET {"x", "y"}
  PROVE  LET n == WithAddrs(k, p, a) IN
         /\ n \in Kernels /\ n.vrfs = k.vrfs /\ n.rules = k.rules /\ n.routes = k.routes
         /\ \A q \in Port : q # p => n.ports[q] = k.ports[q]
         /\ n.ports[p] \in Live /\ n.ports[p].addrs = a /\ n.ports[p].mode = k.ports[p].mode
         /\ n.ports[p].vrf = k.ports[p].vrf /\ n.ports[p].mtu = k.ports[p].mtu
<1> DEFINE port == [k.ports[p] EXCEPT !.addrs = a]
           n == WithAddrs(k, p, a)
<1>1. k.ports[p] \in Live
  BY DEF Kernels
<1>2. port \in Live /\ port.addrs = a /\ port.mode = k.ports[p].mode /\ port.vrf = k.ports[p].vrf /\ port.mtu = k.ports[p].mtu
  BY <1>1 DEF Live
<1>3. n = [k EXCEPT !.ports = [k.ports EXCEPT ![p] = port]]
  BY DEF WithAddrs
<1> HIDE DEF port
<1>4. /\ n \in Kernels /\ n.vrfs = k.vrfs /\ n.rules = k.rules /\ n.routes = k.routes
      /\ \A q \in Port : n.ports[q] = IF q = p THEN port ELSE k.ports[q]
  <2> HIDE DEF n
  <2>1. [k.ports EXCEPT ![p] = port] \in [Port -> Live]
    BY <1>2 DEF Kernels
  <2> QED BY <1>2, <1>3, <2>1 DEF Kernels
<1> HIDE DEF n
<1>5. n.ports[p] = port
  BY <1>4
<1>6. /\ n \in Kernels /\ n.vrfs = k.vrfs /\ n.rules = k.rules /\ n.routes = k.routes
      /\ \A q \in Port : q # p => n.ports[q] = k.ports[q]
      /\ n.ports[p] \in Live /\ n.ports[p].addrs = a /\ n.ports[p].mode = k.ports[p].mode
      /\ n.ports[p].vrf = k.ports[p].vrf /\ n.ports[p].mtu = k.ports[p].mtu
  BY <1>2, <1>4, <1>5
<1> QED BY <1>6 DEF n

LEMMA SettingFacts ==
  ASSUME NEW s \in Setting
  PROVE  s \in Live /\ (s.mode = "absent" => s = Absent)
  BY SettingLive DEF Setting, Off, Absent, L3

(* A port update ends with the port as it is wanted; the routes over it    *)
(* stay when only its addresses change.                                    *)
LEMMA PortFacts ==
  ASSUME NEW k \in Kernels, NEW p \in Port, NEW before \in Setting, NEW after \in Setting,
         AddressOnly(before, after) =>
           /\ k.ports[p].mode = "l3" /\ k.ports[p].vrf = after.vrf /\ k.ports[p].mtu = after.mtu
           /\ k.ports[p].addrs \subseteq before.addrs \cup after.addrs,
         ~AddressOnly(before, after) => \A r \in k.routes : r.port # p
  PROVE  LET n == PortUpdate(k, p, before, after) IN
         /\ n \in Kernels /\ n.vrfs = k.vrfs /\ n.rules = k.rules /\ n.routes = k.routes
         /\ \A q \in Port : n.ports[q] = IF q = p THEN after ELSE k.ports[q]
<1> DEFINE n == PortUpdate(k, p, before, after)
           P(m) == /\ m \in Kernels /\ m.vrfs = k.vrfs /\ m.rules = k.rules /\ m.routes = k.routes
                   /\ \A q \in Port : m.ports[q] = IF q = p THEN after ELSE k.ports[q]
<1>1. CASE ~AddressOnly(before, after)
  <2>1. n = Configured(k, p, after)
    BY <1>1, SettingFacts DEF PortUpdate
  <2>2. {r \in k.routes : r.port # p} = k.routes
    BY <1>1
  <2> DEFINE m == Configured(k, p, after)
  <2>3. /\ m \in Kernels /\ m.vrfs = k.vrfs /\ m.rules = k.rules
        /\ m.routes = {r \in k.routes : r.port # p}
        /\ \A q \in Port : m.ports[q] = IF q = p THEN after ELSE k.ports[q]
    BY DownFacts
  <2> HIDE DEF m
  <2>4. P(m)
    BY <2>2, <2>3
  <2> QED BY <2>1, <2>4 DEF m
<1>2. CASE AddressOnly(before, after)
  <2> DEFINE live == k.ports[p].addrs
             a == (live \cup after.addrs) \ ((live \cap before.addrs) \ after.addrs)
             m == WithAddrs(k, p, a)
  <2>1. before \in Live /\ after \in Live
    BY SettingFacts
  <2>2. a = after.addrs /\ a \in SUBSET {"x", "y"}
    BY <1>2, <2>1 DEF Live
  <2>3. after.mode = "l3"
    BY <1>2 DEF AddressOnly
  <2>4. n = m
    BY <1>2, <2>3 DEF PortUpdate, Readdressed, WithAddrs
  <2> HIDE DEF a
  <2>5. /\ m \in Kernels /\ m.vrfs = k.vrfs /\ m.rules = k.rules /\ m.routes = k.routes
        /\ \A q \in Port : q # p => m.ports[q] = k.ports[q]
        /\ m.ports[p] \in Live /\ m.ports[p].addrs = a /\ m.ports[p].mode = k.ports[p].mode
        /\ m.ports[p].vrf = k.ports[p].vrf /\ m.ports[p].mtu = k.ports[p].mtu
    BY <2>2, AddrsFacts
  <2> HIDE DEF m
  <2>6. m.ports[p] = after
    BY <1>2, <2>1, <2>2, <2>3, <2>5 DEF Live
  <2>7. P(m)
    BY <2>5, <2>6
  <2> QED BY <2>4, <2>7
<1> QED BY <1>1, <1>2

(* Half way, only the port itself may differ.                              *)
LEMMA HalfFacts ==
  ASSUME NEW k \in Kernels, NEW p \in Port, NEW before \in Setting, NEW after \in Setting,
         ~AddressOnly(before, after) => \A r \in k.routes : r.port # p,
         NEW n \in PortHalf(k, p, before, after)
  PROVE  /\ n \in Kernels /\ n.vrfs = k.vrfs /\ n.rules = k.rules /\ n.routes = k.routes
         /\ \A q \in Port : q # p => n.ports[q] = k.ports[q]
         /\ AddressOnly(before, after) =>
              /\ n.ports[p].mode = k.ports[p].mode /\ n.ports[p].vrf = k.ports[p].vrf /\ n.ports[p].mtu = k.ports[p].mtu
              /\ n.ports[p].addrs \subseteq k.ports[p].addrs \cup after.addrs
<1>1. CASE n = k
  BY <1>1
<1>2. CASE ~AddressOnly(before, after) /\ n = Down(k, p)
  <2>1. {r \in k.routes : r.port # p} = k.routes
    BY <1>2
  <2> DEFINE m == Down(k, p)
  <2>2. /\ m \in Kernels /\ m.vrfs = k.vrfs /\ m.rules = k.rules
        /\ m.routes = {r \in k.routes : r.port # p}
        /\ \A q \in Port : m.ports[q] = IF q = p THEN Off ELSE k.ports[q]
    BY DownFacts
  <2> HIDE DEF m
  <2>3. n = m
    BY <1>2 DEF m
  <2> QED BY <1>2, <2>1, <2>2, <2>3
<1>3. CASE AddressOnly(before, after) /\ n = [k EXCEPT !.ports[p].addrs = @ \cup after.addrs]
  <2> DEFINE a == k.ports[p].addrs \cup after.addrs
  <2>1. a \in SUBSET {"x", "y"}
    BY SettingFacts DEF Kernels, Live
  <2>2. n = WithAddrs(k, p, a)
    BY <1>3 DEF WithAddrs
  <2>3. /\ n \in Kernels /\ n.vrfs = k.vrfs /\ n.rules = k.rules /\ n.routes = k.routes
        /\ \A q \in Port : q # p => n.ports[q] = k.ports[q]
        /\ n.ports[p] \in Live /\ n.ports[p].addrs = a /\ n.ports[p].mode = k.ports[p].mode
        /\ n.ports[p].vrf = k.ports[p].vrf /\ n.ports[p].mtu = k.ports[p].mtu
    <3> HIDE DEF a
    <3> QED BY <2>1, <2>2, AddrsFacts
  <2> QED BY <1>3, <2>3
<1> QED BY <1>1, <1>2, <1>3 DEF PortHalf

(* The commands other than port ones.                                      *)
Becomes(c, k, n) ==
  /\ n \in Kernels /\ n.ports = k.ports
  /\ n.vrfs = IF c.do = "create" THEN k.vrfs \cup {c.on} ELSE IF c.do = "delete" THEN k.vrfs \ {c.on} ELSE k.vrfs
  /\ n.routes = IF c.do = "route" THEN k.routes \cup {c.on}
                ELSE IF c.do = "unroute" THEN k.routes \ {c.on} ELSE k.routes
  /\ n.rules = IF c.do = "rule" THEN k.rules \cup {c.on} ELSE IF c.do = "unrule" THEN k.rules \ {c.on} ELSE k.rules

LEMMA EffectFacts ==
  ASSUME NEW k \in Kernels, NEW c \in Cmds, c.do # "port", NEW from, NEW to,
         c.do \in {"create", "delete"} => c.on \in Vrf,
         c.do \in {"route", "unroute", "rule", "unrule"} => c.on \in Over
  PROVE  Becomes(c, k, Effect(c, k, from, to))
<1> c.do \in Kinds
  BY DEF Cmds
<1>1. CASE c.do = "create" BY <1>1 DEF Effect, Becomes, Kernels
<1>2. CASE c.do = "delete" BY <1>2 DEF Effect, Becomes, Kernels
<1>3. CASE c.do = "route" BY <1>3 DEF Effect, Becomes, Kernels
<1>4. CASE c.do = "unroute" BY <1>4 DEF Effect, Becomes, Kernels
<1>5. CASE c.do = "rule" BY <1>5 DEF Effect, Becomes, Kernels
<1>6. CASE c.do = "unrule" BY <1>6 DEF Effect, Becomes, Kernels
<1> QED BY <1>1, <1>2, <1>3, <1>4, <1>5, <1>6 DEF Kinds

LEMMA DiffFacts ==
  /\ Diff["create"] = target.vrfs \ stored.vrfs /\ Diff["delete"] = stored.vrfs \ target.vrfs
  /\ Diff["route"] = target.routes \ stored.routes /\ Diff["unroute"] = stored.routes \ target.routes
  /\ Diff["rule"] = target.rules \ stored.rules /\ Diff["unrule"] = stored.rules \ target.rules
  /\ Diff["port"] = {p \in Port : stored.ports[p] # target.ports[p]}
  BY DEF Diff

LEMMA DiffTypes ==
  ASSUME stored \in Network, target \in Network
  PROVE  /\ Diff["create"] \subseteq Vrf /\ Diff["delete"] \subseteq Vrf /\ Diff["port"] \subseteq Port
         /\ Diff["route"] \subseteq Over /\ Diff["unroute"] \subseteq Over
         /\ Diff["rule"] \subseteq Over /\ Diff["unrule"] \subseteq Over
  BY DiffFacts, NetworkFacts DEF Kernels

LEMMA DoneFacts ==
  ASSUME Forward
  PROVE  /\ done \subseteq Cmds /\ todo \subseteq Cmds
         /\ \A do \in Kinds : On(done, do) \subseteq Diff[do]
         /\ \A c \in todo : c.do \in Kinds /\ c.on \in Diff[c.do] /\ c.on \notin On(done, c.do)
<1>1. done \subseteq Change /\ todo \subseteq Change /\ todo \cap done = {}
  BY DEF Forward
<1>2. done \subseteq Cmds /\ todo \subseteq Cmds
  BY <1>1 DEF Change
<1>3. ASSUME NEW c \in todo, c.on \in On(done, c.do) PROVE FALSE
  <2>1. PICK d \in done : d.do = c.do /\ d.on = c.on
    BY <1>3 DEF On
  <2>2. c = d
    BY <1>2, <2>1 DEF Cmds
  <2> QED BY <1>1, <2>2
<1> QED BY <1>1, <1>2, <1>3 DEF On, Change, Cmds

(* What comes before every command that is left is done.                   *)
LEMMA AllDone ==
  ASSUME stored \in Network, target \in Network, Forward, NEW do \in Kinds, \A d \in todo : d.do # do
  PROVE  On(done, do) = Diff[do]
<1>1. ASSUME NEW x \in Diff[do] PROVE x \in On(done, do)
  <2>1. x \in Vrf \cup Port \cup Over
    BY <1>1, DiffTypes DEF Kinds
  <2>2. Command(do, x) \in Change /\ Command(do, x).do = do /\ Command(do, x).on = x
    BY <1>1, <2>1 DEF Change, Cmds, Command
  <2>3. Command(do, x) \in done
    BY <2>2 DEF Forward
  <2> QED BY <2>2, <2>3 DEF On
<1> QED BY <1>1, DoneFacts

(* What comes after a command that is left is not begun.                   *)
LEMMA NoneDone ==
  ASSUME Forward, NEW c \in todo, NEW do \in Kinds, ~(Order[do] <= Order[c.do])
  PROVE  On(done, do) = {}
  BY DEF Forward, On

(* While ports are changed, the routes are those that stay.                *)
LEMMA RoutesOfPorts ==
  ASSUME stored \in Network, target \in Network, Forward, Settled, NEW c \in First(todo, Order), c.do = "port"
  PROVE  /\ On(done, "delete") = {} /\ On(done, "unroute") = Diff["unroute"]
         /\ c.on \in Port /\ stored.ports[c.on] # target.ports[c.on]
         /\ ~AddressOnly(stored.ports[c.on], target.ports[c.on]) => \A r \in kernel.routes : r.port # c.on
<1>1. c \in todo /\ \A d \in todo : Order[c.do] <= Order[d.do]
  BY DEF First
<1>2. On(done, "delete") = {} /\ On(done, "route") = {}
  BY <1>1, NoneDone, OrderFacts DEF Kinds
<1>3. On(done, "unroute") = Diff["unroute"]
  <2>1. \A d \in todo : d.do # "unroute"
    BY <1>1, OrderFacts
  <2> QED BY <2>1, AllDone DEF Kinds
<1>4. kernel.routes = stored.routes \cap target.routes
  BY <1>2, <1>3, DiffFacts DEF Forward, Ahead
<1>5. c.on \in Port /\ stored.ports[c.on] # target.ports[c.on]
  BY <1>1, DoneFacts, DiffFacts
<1>6. ASSUME ~AddressOnly(stored.ports[c.on], target.ports[c.on]), NEW r \in kernel.routes
      PROVE  r.port # c.on
  BY <1>4, <1>5, <1>6 DEF Settled, Rewires
<1> QED BY <1>2, <1>3, <1>5, <1>6

LEMMA StepKeeps ==
  ASSUME NetInv, ~hurt, Step
  PROVE  NetInv'
<1>1. at = "forward" /\ Forward /\ Settled /\ stored \in Network /\ target \in Network
  BY DEF Step, NetInv
<1>2. UNCHANGED <<stored, target, undo, at, faults, hurt>>
  BY DEF Step
<1>3. PICK c \in First(todo, Order) : /\ kernel' = Effect(c, kernel, stored, target)
                                     /\ done' = done \cup {c} /\ todo' = todo \ {c}
  BY DEF Step
<1>4. c \in todo /\ c \in Cmds /\ c.do \in Kinds /\ c.on \in Diff[c.do] /\ c.on \notin On(done, c.do)
      /\ done \subseteq Cmds /\ todo \subseteq Cmds /\ \A d \in todo : Order[c.do] <= Order[d.do]
  BY <1>1, DoneFacts DEF First
<1>5. \A do \in Kinds : On(done', do) = IF do = c.do THEN On(done, do) \cup {c.on} ELSE On(done, do)
  BY <1>3, <1>4, OneMore
<1>6. \A do \in Kinds : On(done, do) \subseteq Diff[do]
  BY <1>1, DoneFacts
<1>7. Diff' = Diff /\ Change' = Change
  BY <1>2 DEF Diff, Change
<1>8. todo' \cup done' = Change' /\ todo' \cap done' = {} /\ \A b \in done', d \in todo' : Order[b.do] <= Order[d.do]
  BY <1>1, <1>3, <1>4, <1>7 DEF Forward
<1>9. Ahead(kernel, done) /\ kernel \in Kernels
  BY <1>1 DEF Forward, Ahead
<1>10. Ahead(kernel, done)'
  <2>1. CASE c.do = "port"
    <3> DEFINE p == c.on
               k == PortUpdate(kernel, p, stored.ports[p], target.ports[p])
    <3>1. p \in Port /\ (~AddressOnly(stored.ports[p], target.ports[p]) => \A r \in kernel.routes : r.port # p)
      BY <1>1, <2>1, RoutesOfPorts
    <3>2. kernel.ports[p] = stored.ports[p]
      BY <1>4, <1>9, <2>1, <3>1 DEF Ahead
    <3>3. stored.ports[p] \in Setting /\ target.ports[p] \in Setting
      BY <1>1, <3>1, NetworkFacts
    <3>4. /\ k \in Kernels /\ k.vrfs = kernel.vrfs /\ k.rules = kernel.rules /\ k.routes = kernel.routes
          /\ \A q \in Port : k.ports[q] = IF q = p THEN target.ports[p] ELSE kernel.ports[q]
      <4>1. AddressOnly(stored.ports[p], target.ports[p]) =>
              /\ kernel.ports[p].mode = "l3" /\ kernel.ports[p].vrf = target.ports[p].vrf
              /\ kernel.ports[p].mtu = target.ports[p].mtu
              /\ kernel.ports[p].addrs \subseteq stored.ports[p].addrs \cup target.ports[p].addrs
        BY <3>2 DEF AddressOnly
      <4> QED BY <1>9, <3>1, <3>3, <4>1, PortFacts
    <3>5. kernel' = k
      BY <1>3, <2>1 DEF Effect
    <3> HIDE DEF k
    <3>6. /\ On(done', "port") = On(done, "port") \cup {p}
          /\ \A do \in Kinds \ {"port"} : On(done', do) = On(done, do)
      BY <1>5, <2>1 DEF Kinds
    <3>7. /\ kernel' \in Kernels
          /\ kernel'.vrfs = (stored.vrfs \ On(done', "delete")) \cup On(done', "create")
          /\ kernel'.routes = (stored.routes \ On(done', "unroute")) \cup On(done', "route")
          /\ kernel'.rules = (stored.rules \ On(done', "unrule")) \cup On(done', "rule")
      BY <1>9, <3>4, <3>5, <3>6 DEF Ahead, Kinds
    <3>8. \A q \in Port : kernel'.ports[q] = IF q \in On(done', "port") THEN target.ports[q] ELSE stored.ports[q]
      BY <1>9, <3>4, <3>5, <3>6 DEF Ahead
    <3> QED BY <1>2, <3>7, <3>8 DEF Ahead
  <2>2. CASE c.do # "port"
    <3> DEFINE k == Effect(c, kernel, stored, target)
    <3>1. Becomes(c, kernel, k)
      <4>1. /\ c.do \in {"create", "delete"} => c.on \in Vrf
            /\ c.do \in {"route", "unroute", "rule", "unrule"} => c.on \in Over
        BY <1>1, <1>4, DiffTypes
      <4> QED BY <1>4, <1>9, <2>2, <4>1, EffectFacts
    <3> HIDE DEF k
    <3>2. kernel' = k
      BY <1>3 DEF k
    <3>3. On(done', "port") = On(done, "port")
      BY <1>5, <2>2 DEF Kinds
    <3>4. k.vrfs = (stored.vrfs \ On(done', "delete")) \cup On(done', "create")
      BY <1>4, <1>5, <1>6, <1>9, <3>1, DiffFacts DEF Ahead, Kinds, Becomes
    <3>5. k.routes = (stored.routes \ On(done', "unroute")) \cup On(done', "route")
      BY <1>4, <1>5, <1>6, <1>9, <3>1, DiffFacts DEF Ahead, Kinds, Becomes
    <3>6. k.rules = (stored.rules \ On(done', "unrule")) \cup On(done', "rule")
      BY <1>4, <1>5, <1>6, <1>9, <3>1, DiffFacts DEF Ahead, Kinds, Becomes
    <3>7. \A q \in Port : k.ports[q] = IF q \in On(done', "port") THEN target.ports[q] ELSE stored.ports[q]
      BY <1>9, <3>1, <3>3 DEF Ahead, Becomes
    <3> QED BY <1>2, <3>1, <3>2, <3>4, <3>5, <3>6, <3>7 DEF Ahead, Becomes
  <2> QED BY <2>1, <2>2
<1>11. Forward'
  BY <1>8, <1>10 DEF Forward
<1>12. Settled'
  BY <1>1, <1>2 DEF Settled, Rewires
<1> QED BY <1>1, <1>2, <1>11, <1>12 DEF NetInv

LEMMA UnwindIs ==
  ASSUME NEW d, d \subseteq Cmds
  PROVE  /\ Unwind(d) \subseteq Cmds
         /\ On(Unwind(d), "create") = On(d, "delete") /\ On(Unwind(d), "delete") = On(d, "create")
         /\ On(Unwind(d), "route") = On(d, "unroute") /\ On(Unwind(d), "unroute") = On(d, "route")
         /\ On(Unwind(d), "rule") = On(d, "unrule") /\ On(Unwind(d), "unrule") = On(d, "rule")
         /\ On(Unwind(d), "port") = On(d, "port")
  BY UnwindOn, OppositeFacts DEF Kinds

LEMMA Taken ==
  ASSUME NEW d, d \subseteq Cmds, \A do \in Kinds : On(d, do) \subseteq Diff[do],
         On(d, "delete") # {} => On(d, "unroute") = Diff["unroute"] /\ On(d, "route") = Diff["route"],
         On(d, "port") # {} => On(d, "unroute") = Diff["unroute"]
  PROVE  Bounded(Unwind(d)) /\ Closed(Unwind(d))
<1>1. Bounded(Unwind(d))
  BY UnwindIs, DiffFacts DEF Bounded, Kinds
<1>2. Closed(Unwind(d))
  BY UnwindIs, DiffFacts DEF Closed
<1> QED BY <1>1, <1>2

(* What is done can be taken back, at any point.                           *)
LEMMA DoneIsTaken ==
  ASSUME stored \in Network, target \in Network, Forward
  PROVE  Bounded(Unwind(done)) /\ Closed(Unwind(done)) /\ Behind(kernel, Unwind(done))
<1>1. done \subseteq Cmds /\ (\A do \in Kinds : On(done, do) \subseteq Diff[do]) /\ \A c \in todo : c.do \in Kinds
  BY DoneFacts
<1>2. ASSUME NEW d \in done, d.do = "delete"
      PROVE  On(done, "unroute") = Diff["unroute"] /\ On(done, "route") = Diff["route"]
  <2>1. \A e \in todo : e.do # "unroute" /\ e.do # "route"
    BY <1>2, OrderFacts DEF Forward
  <2> QED BY <2>1, AllDone DEF Kinds
<1>3. ASSUME NEW d \in done, d.do = "port" PROVE On(done, "unroute") = Diff["unroute"]
  <2>1. \A e \in todo : e.do # "unroute"
    BY <1>3, OrderFacts DEF Forward
  <2> QED BY <2>1, AllDone DEF Kinds
<1>4. Bounded(Unwind(done)) /\ Closed(Unwind(done))
  <2>1. On(done, "delete") # {} => On(done, "unroute") = Diff["unroute"] /\ On(done, "route") = Diff["route"]
    BY <1>2 DEF On
  <2>2. On(done, "port") # {} => On(done, "unroute") = Diff["unroute"]
    BY <1>3 DEF On
  <2> QED BY <1>1, <2>1, <2>2, Taken
<1>5. Behind(kernel, Unwind(done))
  <2>1. Ahead(kernel, done)
    BY DEF Forward
  <2>2. \A p \in Port : p \in On(done, "port") => Touched(p, kernel.ports[p])
    <3> SUFFICES ASSUME NEW p \in Port, p \in On(done, "port") PROVE Touched(p, kernel.ports[p])
      OBVIOUS
    <3>1. kernel.ports[p] = target.ports[p] /\ target.ports[p] \in Live
      BY <2>1, NetworkFacts, SettingFacts DEF Ahead
    <3> QED BY <3>1 DEF Touched, AddressOnly
  <2> QED BY <1>1, <2>1, <2>2, UnwindIs DEF Ahead, Behind
<1> QED BY <1>4, <1>5

(* A port that is half configured is taken back too.                       *)
LEMMA HalfIsTaken ==
  ASSUME stored \in Network, target \in Network, Forward, Settled, NEW c \in First(todo, Order), c.do = "port",
         NEW n \in PortHalf(kernel, c.on, stored.ports[c.on], target.ports[c.on])
  PROVE  LET d == done \cup {c} IN Bounded(Unwind(d)) /\ Closed(Unwind(d)) /\ Behind(n, Unwind(d))
<1> DEFINE d == done \cup {c}
           p == c.on
<1>1. c \in todo /\ c \in Cmds /\ done \subseteq Cmds /\ c.on \in Diff["port"] /\ p \notin On(done, "port")
  BY DoneFacts DEF First
<1>2. /\ On(done, "delete") = {} /\ On(done, "unroute") = Diff["unroute"] /\ p \in Port
      /\ ~AddressOnly(stored.ports[p], target.ports[p]) => \A r \in kernel.routes : r.port # p
  BY RoutesOfPorts
<1>3. /\ d \subseteq Cmds /\ On(d, "port") = On(done, "port") \cup {p}
      /\ \A do \in Kinds \ {"port"} : On(d, do) = On(done, do)
  BY <1>1, OneMore DEF Kinds
<1>4. \A do \in Kinds : On(d, do) \subseteq Diff[do]
  BY <1>1, <1>3, DoneFacts DEF Kinds
<1>5. On(d, "delete") = {} /\ On(d, "unroute") = Diff["unroute"]
  BY <1>2, <1>3 DEF Kinds
<1> HIDE DEF d
<1>6. Bounded(Unwind(d)) /\ Closed(Unwind(d))
  BY <1>3, <1>4, <1>5, Taken
<1>7. Ahead(kernel, done) /\ kernel \in Kernels
  BY DEF Forward, Ahead
<1>8. stored.ports[p] \in Setting /\ target.ports[p] \in Setting
  BY <1>2, NetworkFacts
<1>9. /\ n \in Kernels /\ n.vrfs = kernel.vrfs /\ n.rules = kernel.rules /\ n.routes = kernel.routes
      /\ \A q \in Port : q # p => n.ports[q] = kernel.ports[q]
      /\ AddressOnly(stored.ports[p], target.ports[p]) =>
           /\ n.ports[p].mode = kernel.ports[p].mode /\ n.ports[p].vrf = kernel.ports[p].vrf
           /\ n.ports[p].mtu = kernel.ports[p].mtu
           /\ n.ports[p].addrs \subseteq kernel.ports[p].addrs \cup target.ports[p].addrs
  BY <1>2, <1>7, <1>8, HalfFacts
<1>10. kernel.ports[p] = stored.ports[p]
  BY <1>1, <1>2, <1>7 DEF Ahead
<1>11. Touched(p, n.ports[p])
  <2>1. n.ports[p] \in Live
    BY <1>2, <1>9 DEF Kernels
  <2> QED BY <1>9, <1>10, <2>1 DEF Touched, AddressOnly
<1>12. \A q \in Port : IF q \in On(d, "port") THEN Touched(q, n.ports[q]) ELSE n.ports[q] = stored.ports[q]
  <2> SUFFICES ASSUME NEW q \in Port
               PROVE  IF q \in On(d, "port") THEN Touched(q, n.ports[q]) ELSE n.ports[q] = stored.ports[q]
    OBVIOUS
  <2>1. CASE q = p
    BY <1>3, <1>11, <2>1
  <2>2. CASE q # p
    <3>1. n.ports[q] = IF q \in On(done, "port") THEN target.ports[q] ELSE stored.ports[q]
      BY <1>7, <1>9, <2>2 DEF Ahead
    <3>2. target.ports[q] \in Live
      BY NetworkFacts, SettingFacts
    <3>3. Touched(q, target.ports[q])
      BY <3>2 DEF Touched, AddressOnly
    <3> QED BY <1>3, <2>2, <3>1, <3>3
  <2> QED BY <2>1, <2>2
<1>13. Behind(n, Unwind(d))
  BY <1>3, <1>7, <1>9, <1>12, UnwindIs DEF Behind, Ahead, Kinds
<1> QED BY <1>6, <1>13 DEF d

LEMMA FailsKeep ==
  ASSUME NetInv, ~hurt, Fail \/ SaveFails
  PROVE  NetInv'
<1>1. at = "forward" /\ Forward /\ Settled /\ stored \in Network /\ target \in Network
  BY DEF Fail, StepFails, SaveFails, NetInv
<1>2. UNCHANGED <<stored, target, hurt>> /\ at' = "undo"
  BY DEF Fail, StepFails, SaveFails, Undoing
<1>3. Bounded(undo') /\ Closed(undo') /\ Behind(kernel', undo')
  <2>1. CASE SaveFails
    <3>1. kernel' = kernel /\ undo' = Unwind(done)
      BY <2>1 DEF SaveFails, Undoing
    <3> QED BY <1>1, <3>1, DoneIsTaken
  <2>2. CASE Fail
    <3>1. PICK c \in First(todo, Order) : StepFails(c, IF c.do = "port" THEN done \cup {c} ELSE done)
      BY <2>2 DEF Fail
    <3>2. CASE c.do = "port"
      <4>1. /\ kernel' \in PortHalf(kernel, c.on, stored.ports[c.on], target.ports[c.on])
            /\ undo' = Unwind(done \cup {c})
        BY <3>1, <3>2 DEF StepFails, Undoing, Halves
      <4> QED BY <1>1, <3>2, <4>1, HalfIsTaken
    <3>3. CASE c.do # "port"
      <4>1. kernel' = kernel /\ undo' = Unwind(done)
        BY <3>1, <3>3 DEF StepFails, Undoing, Halves
      <4> QED BY <1>1, <4>1, DoneIsTaken
    <3> QED BY <3>2, <3>3
  <2> QED BY <2>1, <2>2
<1>4. Backward'
  BY <1>2, <1>3 DEF Backward, Bounded, Closed, Behind, Touched
<1>5. Settled'
  BY <1>1, <1>2 DEF Settled, Rewires
<1> QED BY <1>1, <1>2, <1>4, <1>5 DEF NetInv

(* What comes before the next command to be taken back is taken back.      *)
LEMMA NoneLeft ==
  ASSUME NEW c \in First(undo, UndoOrder), NEW do \in Kinds, ~(UndoOrder[c.do] <= UndoOrder[do])
  PROVE  On(undo, do) = {}
  BY DEF First, On

LEMMA UndoneFacts ==
  ASSUME Bounded(undo), NEW c \in undo
  PROVE  /\ c \in Cmds /\ c.do \in Kinds /\ c.on \in On(undo, c.do)
         /\ \A do \in Kinds : On(undo \ {c}, do) = IF do = c.do THEN On(undo, do) \ {c.on} ELSE On(undo, do)
<1>1. undo \subseteq Cmds
  BY DEF Bounded
<1> QED BY <1>1, OneLess DEF On, Cmds

LEMMA StillBounded ==
  ASSUME Bounded(undo), Closed(undo), NEW c \in First(undo, UndoOrder)
  PROVE  Bounded(undo \ {c}) /\ Closed(undo \ {c})
<1>1. c \in undo
  BY DEF First
<1>2. /\ c \in Cmds /\ c.do \in Kinds
      /\ \A do \in Kinds : On(undo \ {c}, do) = IF do = c.do THEN On(undo, do) \ {c.on} ELSE On(undo, do)
  BY <1>1, UndoneFacts
<1>3. \A do \in Kinds : On(undo \ {c}, do) \subseteq On(undo, do)
  BY <1>2
<1>4. Bounded(undo \ {c})
  BY <1>3 DEF Bounded, Kinds
<1>5. CASE c.do \in {"route", "unroute"}
  <2>1. On(undo, "create") = {}
    BY <1>5, NoneLeft, OrderFacts DEF Kinds
  <2>2. c.do = "route" => On(undo, "port") = {}
    BY NoneLeft, OrderFacts DEF Kinds
  <2>3. c.do = "unroute" => On(undo \ {c}, "route") = On(undo, "route")
    BY <1>2 DEF Kinds
  <2>4. On(undo \ {c}, "create") = {} /\ (c.do = "route" => On(undo \ {c}, "port") = {})
    BY <1>3, <2>1, <2>2 DEF Kinds
  <2> QED BY <1>3, <1>4, <1>5, <2>3, <2>4 DEF Closed, Kinds
<1>6. CASE c.do \notin {"route", "unroute"}
  <2>1. On(undo \ {c}, "route") = On(undo, "route") /\ On(undo \ {c}, "unroute") = On(undo, "unroute")
    BY <1>2, <1>6 DEF Kinds
  <2> QED BY <1>3, <1>4, <2>1 DEF Closed, Kinds
<1> QED BY <1>5, <1>6

(* Nothing that is taken back is refused by the kernel.                    *)
LEMMA UndoWorks ==
  ASSUME stored \in Network, target \in Network, Settled, Backward, NEW c \in First(undo, UndoOrder)
  PROVE  Works(c, kernel, stored)
<1>1. c \in undo /\ Bounded(undo) /\ Closed(undo) /\ Behind(kernel, undo) /\ kernel \in Kernels
  BY DEF First, Backward, Behind
<1>2. c \in Cmds /\ c.do \in Kinds /\ c.on \in On(undo, c.do)
  BY <1>1, UndoneFacts
<1>3. /\ kernel.vrfs = (stored.vrfs \ On(undo, "create")) \cup On(undo, "delete")
      /\ kernel.routes = (stored.routes \ On(undo, "route")) \cup On(undo, "unroute")
      /\ kernel.rules = (stored.rules \ On(undo, "rule")) \cup On(undo, "unrule")
  BY <1>1 DEF Behind
<1>4. stored \in Kernels /\ target \in Kernels /\ Valid(stored) /\ Valid(target)
  BY NetworkFacts
<1>5. \A n \in {stored, target} : \A r \in n.routes : r.vrf \in n.vrfs \cup {Main}
  <2> SUFFICES ASSUME NEW n \in {stored, target}, NEW r \in n.routes PROVE r.vrf \in n.vrfs \cup {Main}
    OBVIOUS
  <2>1. r.port \in Port
    BY <1>4 DEF Kernels, Over
  <2> QED BY <1>4, <2>1 DEF Valid
<1>6. CASE c.do = "create"
  <2>1. c.on \in stored.vrfs \ target.vrfs /\ c.on \in Vrf /\ c.on \notin On(undo, "delete")
    BY <1>1, <1>2, <1>4, <1>6 DEF Bounded, Kernels
  <2>2. kernel.routes = target.routes
    BY <1>1, <1>2, <1>3, <1>6 DEF Closed
  <2>3. \A r \in kernel.routes : r.vrf # c.on
    BY <1>5, <2>1, <2>2, NetAssumption
  <2>4. c.on \notin kernel.vrfs
    BY <1>2, <1>3, <1>6, <2>1
  <2> QED BY <1>6, <2>3, <2>4 DEF Works
<1>7. CASE c.do = "delete"
  <2>1. \A do \in Kinds \ {"delete"} : On(undo, do) = {}
    BY <1>7, NoneLeft, OrderFacts DEF Kinds
  <2>2. c.on \in target.vrfs \ stored.vrfs /\ c.on \in Vrf
    BY <1>1, <1>2, <1>4, <1>7 DEF Bounded, Kernels
  <2>3. kernel.routes = stored.routes /\ \A p \in Port : kernel.ports[p] = stored.ports[p]
    BY <1>1, <1>3, <2>1 DEF Behind, Kinds
  <2>4. \A r \in kernel.routes : r.vrf # c.on
    BY <1>5, <2>2, <2>3, NetAssumption
  <2>5. \A p \in Port : kernel.ports[p].vrf # c.on
    BY <1>4, <2>2, <2>3, NetAssumption DEF Valid
  <2>6. c.on \in kernel.vrfs
    BY <1>2, <1>3, <1>7
  <2> QED BY <1>7, <2>4, <2>5, <2>6 DEF Works
<1>8. CASE c.do = "port"
  <2>1. On(undo, "create") = {}
    BY <1>8, NoneLeft, OrderFacts DEF Kinds
  <2>2. c.on \in Port
    BY <1>1, <1>2, <1>8 DEF Bounded
  <2>3. stored.ports[c.on].vrf \in kernel.vrfs \cup {Main}
    BY <1>3, <1>4, <2>1, <2>2 DEF Valid
  <2> QED BY <1>8, <2>3 DEF Works
<1>9. CASE c.do = "route"
  <2>1. On(undo, "port") = {} /\ On(undo, "unroute") = {}
    BY <1>9, NoneLeft, OrderFacts DEF Kinds
  <2>2. c.on \in stored.routes
    BY <1>1, <1>2, <1>9 DEF Bounded
  <2>3. c.on.port \in Port
    BY <1>4, <2>2 DEF Kernels, Over
  <2>4. kernel.ports[c.on.port] = stored.ports[c.on.port]
    BY <1>1, <2>1, <2>3 DEF Behind
  <2>5. c.on \notin kernel.routes
    BY <1>2, <1>3, <1>9, <2>1
  <2>6. stored.ports[c.on.port].mode = "l3" /\ stored.ports[c.on.port].vrf = c.on.vrf
    BY <1>4, <2>2 DEF Valid
  <2> QED BY <1>9, <2>4, <2>5, <2>6 DEF Works
<1>10. CASE c.do = "unroute"
  <2>1. c.on \in kernel.routes
    BY <1>2, <1>3, <1>10
  <2> QED BY <1>10, <2>1 DEF Works
<1>11. CASE c.do = "rule"
  <2>1. c.on \in stored.rules \ target.rules /\ c.on \notin On(undo, "unrule")
    BY <1>1, <1>2, <1>11 DEF Bounded
  <2>2. c.on \notin kernel.rules
    BY <1>2, <1>3, <1>11, <2>1
  <2> QED BY <1>11, <2>2 DEF Works
<1>12. CASE c.do = "unrule"
  <2>1. c.on \in kernel.rules
    BY <1>2, <1>3, <1>12
  <2> QED BY <1>12, <2>1 DEF Works
<1> QED BY <1>2, <1>6, <1>7, <1>8, <1>9, <1>10, <1>11, <1>12 DEF Kinds

(* Every command that is taken back brings the kernel nearer.              *)
LEMMA UndoNearer ==
  ASSUME stored \in Network, target \in Network, Settled, Backward, NEW c \in First(undo, UndoOrder)
  PROVE  Behind(Effect(c, kernel, target, stored), undo \ {c})
<1> DEFINE n == Effect(c, kernel, target, stored)
           u == undo \ {c}
<1>1. c \in undo /\ Bounded(undo) /\ Closed(undo) /\ Behind(kernel, undo) /\ kernel \in Kernels
  BY DEF First, Backward, Behind
<1>2. /\ c \in Cmds /\ c.do \in Kinds /\ c.on \in On(undo, c.do)
      /\ \A do \in Kinds : On(u, do) = IF do = c.do THEN On(undo, do) \ {c.on} ELSE On(undo, do)
  BY <1>1, UndoneFacts
<1>3. stored \in Kernels /\ target \in Kernels
  BY NetworkFacts
<1>4. CASE c.do = "port"
  <2> DEFINE p == c.on
  <2>1. p \in Port /\ stored.ports[p] # target.ports[p]
    BY <1>1, <1>2, <1>4 DEF Bounded
  <2>2. On(undo, "unroute") = {}
    BY <1>4, NoneLeft, OrderFacts DEF Kinds
  <2>3. kernel.routes \subseteq stored.routes \cap target.routes
    BY <1>1, <1>2, <1>4, <2>2 DEF Closed, Behind
  <2>4. ~AddressOnly(target.ports[p], stored.ports[p]) => \A r \in kernel.routes : r.port # p
    BY <2>1, <2>3 DEF Settled, Rewires, AddressOnly
  <2>5. Touched(p, kernel.ports[p])
    BY <1>1, <1>2, <1>4, <2>1 DEF Behind
  <2>6. AddressOnly(target.ports[p], stored.ports[p]) =>
          /\ kernel.ports[p].mode = "l3" /\ kernel.ports[p].vrf = stored.ports[p].vrf
          /\ kernel.ports[p].mtu = stored.ports[p].mtu
          /\ kernel.ports[p].addrs \subseteq target.ports[p].addrs \cup stored.ports[p].addrs
    BY <2>5 DEF Touched, AddressOnly
  <2>7. stored.ports[p] \in Setting /\ target.ports[p] \in Setting
    BY <2>1, NetworkFacts
  <2> DEFINE k == PortUpdate(kernel, p, target.ports[p], stored.ports[p])
  <2>8. /\ k \in Kernels /\ k.vrfs = kernel.vrfs /\ k.rules = kernel.rules /\ k.routes = kernel.routes
        /\ \A q \in Port : k.ports[q] = IF q = p THEN stored.ports[p] ELSE kernel.ports[q]
    BY <1>1, <2>1, <2>4, <2>6, <2>7, PortFacts
  <2>9. n = k
    BY <1>4 DEF Effect
  <2> HIDE DEF k, n, u
  <2>10. On(u, "port") = On(undo, "port") \ {p} /\ \A do \in Kinds \ {"port"} : On(u, do) = On(undo, do)
    BY <1>2, <1>4 DEF Kinds
  <2>11. \A q \in Port : IF q \in On(u, "port") THEN Touched(q, k.ports[q]) ELSE k.ports[q] = stored.ports[q]
    <3> SUFFICES ASSUME NEW q \in Port
                 PROVE  IF q \in On(u, "port") THEN Touched(q, k.ports[q]) ELSE k.ports[q] = stored.ports[q]
      OBVIOUS
    <3>1. CASE q = p
      BY <2>8, <2>10, <3>1
    <3>2. CASE q # p
      <4>1. k.ports[q] = kernel.ports[q]
        BY <2>8, <3>2
      <4>2. IF q \in On(undo, "port") THEN Touched(q, kernel.ports[q]) ELSE kernel.ports[q] = stored.ports[q]
        BY <1>1 DEF Behind
      <4> QED BY <2>10, <3>2, <4>1, <4>2
    <3> QED BY <3>1, <3>2
  <2>12. Behind(k, u)
    BY <1>1, <2>8, <2>10, <2>11 DEF Behind, Kinds
  <2> QED BY <2>9, <2>12 DEF n, u
<1>5. CASE c.do # "port"
  <2>1. /\ c.do \in {"create", "delete"} => c.on \in Vrf
        /\ c.do \in {"route", "unroute", "rule", "unrule"} => c.on \in Over
    BY <1>1, <1>2, <1>3 DEF Bounded, Kernels
  <2>2. Becomes(c, kernel, n)
    BY <1>1, <1>2, <1>5, <2>1, EffectFacts
  <2> HIDE DEF n, u
  <2>3. n.vrfs = (stored.vrfs \ On(u, "create")) \cup On(u, "delete")
    BY <1>1, <1>2, <2>2 DEF Becomes, Behind, Bounded, Kinds
  <2>4. n.routes = (stored.routes \ On(u, "route")) \cup On(u, "unroute")
    BY <1>1, <1>2, <2>2 DEF Becomes, Behind, Bounded, Kinds
  <2>5. n.rules = (stored.rules \ On(u, "rule")) \cup On(u, "unrule")
    BY <1>1, <1>2, <2>2 DEF Becomes, Behind, Bounded, Kinds
  <2>6. On(u, "port") = On(undo, "port") /\ n.ports = kernel.ports /\ n \in Kernels
    BY <1>2, <1>5, <2>2 DEF Becomes, Kinds
  <2>7. Behind(n, u)
    BY <1>1, <2>3, <2>4, <2>5, <2>6 DEF Behind
  <2> QED BY <2>7 DEF n, u
<1> QED BY <1>4, <1>5

LEMMA UndoKeeps ==
  ASSUME NetInv, ~hurt, Undo
  PROVE  NetInv'
<1>1. at = "undo" /\ Backward /\ Settled /\ stored \in Network /\ target \in Network
  BY DEF Undo, NetInv
<1>2. UNCHANGED <<stored, target, at>>
  BY DEF Undo
<1>3. CASE hurt'
  BY <1>3 DEF NetInv
<1>4. CASE ~hurt'
  <2>1. PICK c \in First(undo, UndoOrder) :
          /\ undo' = undo \ {c}
          /\ \/ Works(c, kernel, stored) /\ kernel' = Effect(c, kernel, target, stored)
             \/ ~Works(c, kernel, stored)
    BY <1>4 DEF Undo
  <2>2. kernel' = Effect(c, kernel, target, stored)
    BY <1>1, <2>1, UndoWorks
  <2>3. Bounded(undo') /\ Closed(undo') /\ Behind(kernel', undo')
    BY <1>1, <2>1, <2>2, StillBounded, UndoNearer DEF Backward
  <2>4. Backward'
    BY <1>2, <2>3 DEF Backward, Bounded, Closed, Behind, Touched
  <2>5. Settled'
    BY <1>1, <1>2 DEF Settled, Rewires
  <2> QED BY <1>1, <1>2, <2>4, <2>5 DEF NetInv
<1> QED BY <1>3, <1>4

(* A patch that is saved has made the kernel what it was to be, one that   *)
(* is taken back what it was.                                              *)
LEMMA EndsKeep ==
  ASSUME NetInv, ~hurt, Save \/ Raise
  PROVE  NetInv'
<1>1. CASE Save
  <2>1. Forward /\ stored \in Network /\ target \in Network /\ todo = {}
    BY <1>1 DEF Save, NetInv
  <2>2. \A do \in Kinds : On(done, do) = Diff[do]
    BY <2>1, AllDone
  <2>3. stored \in Kernels /\ target \in Kernels
    BY <2>1, NetworkFacts
  <2>4. kernel \in Kernels /\ kernel.vrfs = target.vrfs /\ kernel.routes = target.routes /\ kernel.rules = target.rules
        /\ \A p \in Port : kernel.ports[p] = target.ports[p]
    BY <2>1, <2>2, <2>3, DiffFacts DEF Forward, Ahead, Kinds
  <2>5. kernel = target
    BY <2>3, <2>4, SameKernel
  <2> QED BY <1>1, <2>1, <2>5 DEF Save, NetInv
<1>2. CASE Raise
  <2>1. Behind(kernel, undo) /\ stored \in Network /\ undo = {}
    BY <1>2 DEF Raise, NetInv, Backward
  <2>2. \A do \in Kinds : On(undo, do) = {}
    BY <2>1 DEF On
  <2>3. stored \in Kernels
    BY <2>1, NetworkFacts
  <2>4. kernel \in Kernels /\ kernel.vrfs = stored.vrfs /\ kernel.routes = stored.routes /\ kernel.rules = stored.rules
        /\ \A p \in Port : kernel.ports[p] = stored.ports[p]
    BY <2>1, <2>2 DEF Behind, Kinds
  <2>5. kernel = stored
    BY <2>3, <2>4, SameKernel
  <2> QED BY <1>2, <2>1, <2>5 DEF Raise, NetInv
<1> QED BY <1>1, <1>2

LEMMA EachIs ==
  ASSUME NEW do, NEW s, NEW c
  PROVE  c \in Each(do, s) <=> \E x \in s : c = Command(do, x)
  BY DEF Each

LEMMA PrepareKeeps ==
  ASSUME NetInv, ~hurt, NEW new \in Network, Prepare(new)
  PROVE  NetInv'
<1>1. /\ stored \in Network /\ kernel = stored
      /\ target' = new /\ todo' = Plan(stored, new) /\ done' = {} /\ at' = "forward"
      /\ UNCHANGED <<stored, kernel, undo, faults, hurt>>
  BY DEF Prepare, NetInv
<1>2. stored \in Kernels /\ new \in Kernels
  BY <1>1, NetworkFacts
<1>3. ChangedPorts(stored, new) = {p \in Port : stored.ports[p] # new.ports[p]}
  BY <1>1 DEF ChangedPorts
<1>4. new.routes \ (stored.routes \cap kernel.routes) = new.routes \ stored.routes
  BY <1>1
<1>5. /\ Diff'["create"] = new.vrfs \ stored.vrfs /\ Diff'["delete"] = stored.vrfs \ new.vrfs
      /\ Diff'["route"] = new.routes \ stored.routes /\ Diff'["unroute"] = stored.routes \ new.routes
      /\ Diff'["rule"] = new.rules \ stored.rules /\ Diff'["unrule"] = stored.rules \ new.rules
      /\ Diff'["port"] = {p \in Port : stored.ports[p] # new.ports[p]}
  BY <1>1 DEF Diff
<1>6. \A do \in Kinds : Each(do, Diff'[do]) \subseteq todo'
  BY <1>1, <1>3, <1>4, <1>5 DEF Plan, Kinds
<1>7. ASSUME NEW c \in todo' PROVE \E do \in Kinds : c \in Each(do, Diff'[do])
  BY <1>1, <1>3, <1>4, <1>5, <1>7 DEF Plan, Kinds
<1>8. \A do \in Kinds : Diff'[do] \subseteq Vrf \cup Port \cup Over
  BY <1>2, <1>5 DEF Kinds, Kernels
<1>9. todo' = Change'
  <2>1. ASSUME NEW c \in todo' PROVE c \in Change'
    <3>1. PICK do \in Kinds : \E x \in Diff'[do] : c = Command(do, x)
      BY <1>7, <2>1, EachIs
    <3> QED BY <1>8, <3>1 DEF Change, Cmds, Command
  <2>2. ASSUME NEW c \in Change' PROVE c \in todo'
    <3>1. c.do \in Kinds /\ c.on \in Diff'[c.do] /\ c = Command(c.do, c.on)
      BY <2>2 DEF Change, Cmds, Command
    <3>2. c \in Each(c.do, Diff'[c.do])
      BY <3>1, EachIs
    <3> QED BY <1>6, <3>1, <3>2
  <2> QED BY <2>1, <2>2
<1>10. Ahead(kernel, done)'
  <2>1. \A do \in Kinds : On(done', do) = {}
    BY <1>1 DEF On
  <2> QED BY <1>1, <1>2, <2>1 DEF Ahead, Kinds
<1>11. Forward'
  BY <1>1, <1>9, <1>10 DEF Forward
<1>12. Settled'
  <2> SUFFICES ASSUME NEW r \in stored.routes \cap new.routes, Rewires(r.port)' PROVE FALSE
    BY <1>1 DEF Settled
  <2>1. r.port \in Port
    BY <1>2 DEF Kernels, Over
  <2>2. r.port \in Rewired(stored, new)
    BY <1>1, <1>3, <2>1 DEF Rewires, Rewired
  <2> QED BY <2>2 DEF Prepare
<1> QED BY <1>1, <1>11, <1>12 DEF NetInv

(* From Init, and by every step.                                           *)
LEMMA NetInitInv == NetInit => NetInv
  BY DEF NetInit, NetInv

LEMMA NetNextInv == NetInv /\ [NetNext]_netVars => NetInv'
<1> SUFFICES ASSUME NetInv, [NetNext]_netVars PROVE NetInv'
  OBVIOUS
<1>1. CASE hurt
  <2>1. hurt'
    BY <1>1 DEF NetNext, Prepare, Step, Fail, StepFails, Save, SaveFails, Undo, Raise, netVars
  <2> QED BY <2>1 DEF NetInv
<1>2. CASE ~hurt
  <2>1. ASSUME NEW n \in Network, Prepare(n) PROVE NetInv'
    BY <1>2, <2>1, PrepareKeeps
  <2>2. CASE UNCHANGED netVars
    BY <2>2 DEF NetInv, Settled, Rewires, Forward, Ahead, Change, Diff, Backward, Bounded, Closed,
       Behind, Touched,
                netVars
  <2> QED BY <1>2, <2>1, <2>2, StepKeeps, FailsKeep, UndoKeeps, EndsKeep DEF NetNext
<1> QED BY <1>1, <1>2

LEMMA NetIsWhole == NetInv => NetworkIsWhole
<1> SUFFICES ASSUME NetInv, ~hurt PROVE PatchIsWhole /\ CommonRoutesStay
  BY DEF NetworkIsWhole, PatchIsWhole, CommonRoutesStay
<1>1. PatchIsWhole
  BY DEF NetInv, PatchIsWhole
<1>2. CASE at = "idle"
  BY <1>1, <1>2 DEF NetInv, CommonRoutesStay
<1>3. CASE at = "forward"
  <2>1. Forward /\ On(done, "unroute") \subseteq stored.routes \ target.routes
    BY <1>3, DoneFacts, DiffFacts DEF NetInv, Kinds
  <2> QED BY <1>1, <2>1 DEF CommonRoutesStay, Forward, Ahead
<1>4. CASE at = "undo"
  BY <1>1, <1>4 DEF CommonRoutesStay, NetInv, Backward, Bounded, Behind
<1> QED BY <1>1, <1>2, <1>3, <1>4 DEF NetInv

(* Whatever networks a patch goes between, and wherever it fails, the      *)
(* kernel is the stored network again when patch has returned, and the     *)
(* routes that both have in common are never missing, unless an undo was   *)
(* itself refused.                                                         *)
THEOREM NetworkStaysWhole == NetSpec => []NetworkIsWhole
<1>1. NetInv /\ [NetNext]_netVars => NetInv'
  BY NetNextInv
<1> QED BY <1>1, NetInitInv, NetIsWhole, PTL DEF NetSpec

(***************************************************************************)
(* DpRing: with counters that one store writes, the ring is a queue.       *)
(***************************************************************************)

(* Remainders of what is below the divisor, and of one step up from there. *)
LEMMA SmallMod == ASSUME NEW d \in Nat \ {0}, NEW x \in 0..d - 1 PROVE x % d = x
  OBVIOUS

LEMMA ModUnique ==
  ASSUME NEW d \in Nat \ {0}, NEW q \in Nat, NEW r \in 0..d - 1
  PROVE  (d * q + r) % d = r
<1> DEFINE y == d * q + r
           p == y \div d
           s == y % d
<1>1. y \in Nat /\ p \in Nat /\ s \in 0..d - 1 /\ y = d * p + s
  OBVIOUS
<1> HIDE DEF p, s
<1>2. CASE p = q
  BY <1>1, <1>2 DEF s
<1>3. CASE p < q
  <2>1. PICK e \in Nat : q = p + 1 + e
    <3>1. q - p - 1 \in Nat /\ q = p + 1 + (q - p - 1)
      BY <1>1, <1>3
    <3> QED BY <3>1
  <2>2. d * q = d * p + d + d * e /\ d * e \in Nat /\ d * p \in Nat
    BY <1>1, <2>1
  <2> QED BY <1>1, <2>2
<1>4. CASE q < p
  <2>1. PICK e \in Nat : p = q + 1 + e
    <3>1. p - q - 1 \in Nat /\ p = q + 1 + (p - q - 1)
      BY <1>1, <1>4
    <3> QED BY <3>1
  <2>2. d * p = d * q + d + d * e /\ d * e \in Nat /\ d * q \in Nat
    BY <1>1, <2>1
  <2> QED BY <1>1, <2>2
<1> QED BY <1>1, <1>2, <1>3, <1>4

LEMMA ModStep ==
  ASSUME NEW d \in Nat \ {0}, NEW x \in Nat
  PROVE  /\ x % d \in 0..d - 1
         /\ (x + 1) % d = IF (x % d) + 1 = d THEN 0 ELSE (x % d) + 1
<1>1. PICK q \in Nat, r \in 0..d - 1 : x = d * q + r /\ r = x % d
  <2>1. x \div d \in Nat /\ x % d \in 0..d - 1 /\ x = d * (x \div d) + (x % d)
    OBVIOUS
  <2> QED BY <2>1
<1>2. CASE r + 1 = d
  <2>1. d * (q + 1) = d * q + d /\ d * q \in Nat
    BY <1>1
  <2>2. x + 1 = d * (q + 1) + 0
    <3>1. x + 1 = (d * q) + d
      <4>1. PICK m \in Nat : m = d * q
        BY <2>1
      <4>2. x = m + r /\ r \in Nat
        BY <1>1, <4>1
      <4> QED BY <1>2, <4>1, <4>2
    <3>2. d * (q + 1) \in Nat
      BY <1>1
    <3> QED BY <2>1, <3>1, <3>2
  <2>3. (d * (q + 1) + 0) % d = 0
    BY <1>1, ModUnique
  <2> QED BY <1>1, <1>2, <2>2, <2>3
<1>3. CASE r + 1 # d
  <2>1. d * q \in Nat /\ x + 1 = d * q + (r + 1) /\ r + 1 \in 0..d - 1
    BY <1>1, <1>3
  <2>2. (d * q + (r + 1)) % d = r + 1
    BY <1>1, <2>1, ModUnique
  <2> QED BY <1>1, <1>3, <2>1, <2>2
<1> QED BY <1>2, <1>3

(* A slot number below twice the size, wrapped.                            *)
Wrap(i) == IF i < Slots THEN i ELSE i - Slots
SlotOf(n) == n % Slots

LEMMA SuccFacts ==
  ASSUME NEW n \in Counter
  PROVE  /\ Succ(n) \in Counter /\ Succ(n) = (IF n + 1 = Modulus THEN 0 ELSE n + 1)
         /\ SlotOf(n) \in 0..Slots - 1
         /\ SlotOf(Succ(n)) = Wrap(SlotOf(n) + 1)
<1>1. Modulus \in Nat \ {0} /\ Slots \in Nat \ {0} /\ Slots < Modulus /\ n \in Nat
  BY RingAssumption DEF Counter
<1>2. n % Modulus = n
  BY <1>1, SmallMod DEF Counter
<1>3. Succ(n) = (IF n + 1 = Modulus THEN 0 ELSE n + 1)
  <2>1. (n + 1) % Modulus = IF (n % Modulus) + 1 = Modulus THEN 0 ELSE (n % Modulus) + 1
    BY <1>1, ModStep
  <2> QED BY <1>2, <2>1 DEF Succ
<1>4. SlotOf(n) \in 0..Slots - 1 /\ (n + 1) % Slots = IF SlotOf(n) + 1 = Slots THEN 0 ELSE SlotOf(n) + 1
  BY <1>1, ModStep DEF SlotOf
<1>5. Modulus % Slots = 0 /\ 0 % Slots = 0
  BY <1>1, SmallMod, RingAssumption
<1>6. SlotOf(Succ(n)) = Wrap(SlotOf(n) + 1)
  BY <1>1, <1>3, <1>4, <1>5 DEF SlotOf, Wrap
<1> QED BY <1>1, <1>3, <1>4, <1>6 DEF Counter

LEMMA DistanceFacts ==
  ASSUME NEW h \in Counter, NEW t \in Counter
  PROVE  Distance(h, t) = (IF t <= h THEN h - t ELSE h + Modulus - t)
<1>1. Modulus \in Nat \ {0}
  BY RingAssumption
<1> QED BY <1>1 DEF Distance, Counter

(* What is published lies in the slots from the tail on, and ends at the   *)
(* head; a push in progress writes the slot at the head, which is free.    *)
RingInv ==
  /\ head \in Counter /\ tail \in Counter
  /\ desc \in [0..Slots - 1 -> Items \cup {Torn}]
  /\ published \in Seq(Items)
  /\ prod \in [step : {"idle", "write", "fill", "publish", "settle"}, item : Items \cup {Torn}, at : Counter]
  /\ cons \in [step : {"idle", "read", "release", "settle"}, item : Items \cup {Torn}, at : Counter]
  /\ Len(published) <= Slots
  /\ Distance(head, tail) = Len(published)
  /\ SlotOf(head) = Wrap(SlotOf(tail) + Len(published))
  /\ \A k \in 1..Len(published) : desc[Wrap(SlotOf(tail) + k - 1)] = published[k]
  /\ prod.step \in {"write", "fill", "publish"} =>
       prod.at = head /\ prod.item \in Items /\ Len(published) < Slots
  /\ prod.step = "publish" => desc[SlotOf(head)] = prod.item
  /\ prod.step = "settle" => head = Succ(prod.at)
  /\ cons.step \in {"read", "release"} => cons.at = tail /\ published # <<>>
  /\ cons.step = "release" => cons.item = published[1]
  /\ cons.step = "settle" => tail = Succ(cons.at)

(* With one store for a counter it is never half stored.                   *)
LEMMA OneStore ==
  ASSUME Radix = Modulus, NEW n \in Counter
  PROVE  Stored(n) = Succ(n)
<1>1. Modulus \in Nat \ {0} /\ n \in 0..Modulus - 1 /\ Succ(n) \in 0..Modulus - 1
  BY SuccFacts, RingAssumption DEF Counter
<1>2. n % Modulus = n /\ Succ(n) % Modulus = Succ(n)
  BY <1>1, SmallMod
<1> QED BY <1>1, <1>2 DEF Stored

LEMMA RingInitInv == RingInit => RingInv
<1> SUFFICES ASSUME RingInit PROVE RingInv
  OBVIOUS
<1>1. 0 \in Counter /\ Slots \in Nat \ {0}
  BY RingAssumption DEF Counter
<1>2. SlotOf(0) = 0 /\ Distance(0, 0) = 0
  BY <1>1, SmallMod, DistanceFacts DEF SlotOf
<1> QED BY <1>1, <1>2 DEF RingInit, RingInv, AtStart, Wrap

LEMMA BeginsKeep == ASSUME RingInv, PushRefused \/ (\E v \in Items : PushBegin(v)) \/ PopBegin \/ PopRead PROVE RingInv'
<1>1. Slots \in Nat \ {0} /\ Modulus \in Nat /\ Slots < Modulus
  BY RingAssumption
<1>2. CASE PushRefused
  BY <1>2 DEF PushRefused, ringVars, RingInv
<1>3. ASSUME NEW v \in Items, PushBegin(v) PROVE RingInv'
  BY <1>1, <1>3 DEF PushBegin, RingInv, Full
<1>4. CASE PopBegin
  <2>1. published # <<>>
    <3>1. head \in Nat /\ tail \in Nat /\ head < Modulus /\ tail < Modulus /\ head # tail
      BY <1>1, <1>4 DEF PopBegin, RingInv, Empty, Counter
    <3>2. Distance(head, tail) = (IF tail <= head THEN head - tail ELSE head + Modulus - tail)
      BY DistanceFacts DEF RingInv
    <3>3. Len(published) # 0
      BY <1>1, <3>1, <3>2 DEF RingInv
    <3> QED BY <3>3 DEF RingInv
  <2> QED BY <1>4, <2>1 DEF PopBegin, RingInv
<1>5. CASE PopRead
  <2>1. desc[SlotOf(tail)] = published[1]
    <3>1. 1 \in 1..Len(published) /\ Wrap(SlotOf(tail) + 1 - 1) = SlotOf(tail)
      BY <1>1, <1>5, SuccFacts DEF PopRead, RingInv, Wrap
    <3> QED BY <3>1 DEF RingInv
  <2>2. published[1] \in Items
    BY <1>5 DEF PopRead, RingInv
  <2> QED BY <1>5, <2>1, <2>2 DEF PopRead, RingInv, SlotOf
<1> QED BY <1>2, <1>3, <1>4, <1>5

LEMMA SettlesKeep == ASSUME RingInv, PushSettle \/ PopSettle PROVE RingInv'
<1>1. CASE PushSettle
  <2>1. head' = head /\ prod'.step = "idle" /\ prod' \in [step : {"idle", "write", "fill", "publish", "settle"}, item : Items \cup {Torn}, at : Counter]
    BY <1>1 DEF PushSettle, RingInv
  <2> QED BY <1>1, <2>1 DEF PushSettle, RingInv
<1>2. CASE PopSettle
  <2>1. tail' = tail /\ cons'.step = "idle" /\ cons' \in [step : {"idle", "read", "release", "settle"}, item : Items \cup {Torn}, at : Counter]
    BY <1>2 DEF PopSettle, RingInv
  <2> QED BY <1>2, <2>1 DEF PopSettle, RingInv
<1> QED BY <1>1, <1>2

(* The slot at the head is none of the slots in use.                       *)
LEMMA WriteKeeps == ASSUME RingInv, PushWrite PROVE RingInv'
<1>1. Slots \in Nat \ {0} /\ SlotOf(head) \in 0..Slots - 1 /\ SlotOf(tail) \in 0..Slots - 1 /\ Len(published) \in Nat
  BY RingAssumption, SuccFacts DEF RingInv
<1>2. \A k \in 1..Len(published) : /\ Wrap(SlotOf(tail) + k - 1) \in 0..Slots - 1
                                   /\ Wrap(SlotOf(tail) + k - 1) # SlotOf(head)
  BY <1>1 DEF RingInv, PushWrite, Wrap
<1>3. /\ desc' \in [0..Slots - 1 -> Items \cup {Torn}]
      /\ \A i \in 0..Slots - 1 : i # SlotOf(head) => desc'[i] = desc[i]
      /\ prod.step = "fill" => desc'[SlotOf(head)] = prod.item
  BY <1>1 DEF RingInv, PushWrite, SlotOf
<1>4. /\ prod'.step = (IF prod.step = "write" THEN "fill" ELSE "publish")
      /\ prod'.at = prod.at /\ prod'.item = prod.item
      /\ prod' \in [step : {"idle", "write", "fill", "publish", "settle"}, item : Items \cup {Torn}, at : Counter]
  BY DEF RingInv, PushWrite
<1>5. \A k \in 1..Len(published) : desc'[Wrap(SlotOf(tail) + k - 1)] = published[k]
  BY <1>2, <1>3 DEF RingInv
<1> QED BY <1>3, <1>4, <1>5 DEF RingInv, PushWrite

LEMMA PublishKeeps == ASSUME Radix = Modulus, RingInv, PushPublish PROVE RingInv'
<1>1. /\ Slots \in Nat \ {0} /\ Modulus \in Nat /\ Slots < Modulus /\ Len(published) \in Nat
      /\ SlotOf(head) \in 0..Slots - 1 /\ SlotOf(tail) \in 0..Slots - 1
  BY RingAssumption, SuccFacts DEF RingInv
<1>2. /\ head' = Succ(head) /\ prod.at = head /\ Len(published) < Slots /\ prod.item \in Items
  BY OneStore DEF RingInv, PushPublish
<1>3. /\ head' \in Counter /\ head' = (IF head + 1 = Modulus THEN 0 ELSE head + 1) /\ SlotOf(head') = Wrap(SlotOf(head) + 1)
  BY <1>2, SuccFacts DEF RingInv
<1>4. /\ published' \in Seq(Items) /\ Len(published') = Len(published) + 1
      /\ \A k \in 1..Len(published) : published'[k] = published[k]
      /\ published'[Len(published) + 1] = prod.item
  BY <1>2 DEF RingInv, PushPublish
<1>5. Distance(head', tail) = Len(published) + 1
  <2>1. Distance(head, tail) = (IF tail <= head THEN head - tail ELSE head + Modulus - tail)
    BY DistanceFacts DEF RingInv
  <2>2. Distance(head', tail) = (IF tail <= head' THEN head' - tail ELSE head' + Modulus - tail)
    BY <1>3, DistanceFacts DEF RingInv
  <2> QED BY <1>1, <1>2, <1>3, <2>1, <2>2 DEF RingInv, Counter
<1>6. SlotOf(head') = Wrap(SlotOf(tail) + (Len(published) + 1))
  BY <1>1, <1>2, <1>3 DEF RingInv, Wrap
<1>7. \A k \in 1..Len(published) + 1 : desc[Wrap(SlotOf(tail) + k - 1)] = published'[k]
  <2>1. desc[Wrap(SlotOf(tail) + (Len(published) + 1) - 1)] = prod.item
    <3>1. SlotOf(tail) + (Len(published) + 1) - 1 = SlotOf(tail) + Len(published)
      BY <1>1
    <3>2. desc[SlotOf(head)] = prod.item /\ SlotOf(head) = Wrap(SlotOf(tail) + Len(published))
      BY DEF RingInv, PushPublish
    <3> QED BY <3>1, <3>2
  <2>2. \A k \in 1..Len(published) : desc[Wrap(SlotOf(tail) + k - 1)] = published'[k]
    BY <1>4 DEF RingInv
  <2>3. \A k \in 1..Len(published) + 1 : k \in 1..Len(published) \/ k = Len(published) + 1
    BY <1>1
  <2> QED BY <1>4, <2>1, <2>2, <2>3
<1>8. prod' \in [step : {"idle", "write", "fill", "publish", "settle"}, item : Items \cup {Torn}, at : Counter]
      /\ prod'.step = "settle" /\ prod'.at = head
  BY <1>2 DEF RingInv, PushPublish
<1>9. published' # <<>> /\ (published # <<>> => published'[1] = published[1])
  <2>1. published # <<>> => 1 \in 1..Len(published)
    BY DEF RingInv
  <2>2. published' # <<>>
    BY <1>1, <1>4
  <2> QED BY <1>4, <2>1, <2>2
<1>10. UNCHANGED <<tail, desc, cons>>
  BY DEF PushPublish
<1>11. Len(published) + 1 <= Slots
  BY <1>1, <1>2
<1>12. cons.step = "release" => cons.item = published'[1]
  BY <1>9 DEF RingInv
<1> QED BY <1>3, <1>4, <1>5, <1>6, <1>7, <1>8, <1>9, <1>10, <1>11, <1>12, <1>2 DEF RingInv

LEMMA ReleaseKeeps == ASSUME Radix = Modulus, RingInv, PopRelease PROVE RingInv'
<1>1. /\ Slots \in Nat \ {0} /\ Modulus \in Nat /\ Slots < Modulus /\ Len(published) \in Nat \ {0}
      /\ SlotOf(head) \in 0..Slots - 1 /\ SlotOf(tail) \in 0..Slots - 1
  BY RingAssumption, SuccFacts DEF RingInv, PopRelease
<1>2. tail' = Succ(tail) /\ cons.at = tail /\ published' = Tail(published)
  BY OneStore DEF RingInv, PopRelease
<1>3. /\ tail' \in Counter /\ tail' = (IF tail + 1 = Modulus THEN 0 ELSE tail + 1) /\ SlotOf(tail') = Wrap(SlotOf(tail) + 1)
  BY <1>2, SuccFacts DEF RingInv
<1>4. /\ published' \in Seq(Items) /\ Len(published') = Len(published) - 1
      /\ \A k \in 1..Len(published) - 1 : published'[k] = published[k + 1]
  BY <1>1, <1>2 DEF RingInv
<1>5. Distance(head, tail') = Len(published) - 1
  <2>1. Distance(head, tail) = (IF tail <= head THEN head - tail ELSE head + Modulus - tail)
    BY DistanceFacts DEF RingInv
  <2>2. Distance(head, tail') = (IF tail' <= head THEN head - tail' ELSE head + Modulus - tail')
    BY <1>3, DistanceFacts DEF RingInv
  <2>3. head \in Nat /\ tail \in Nat /\ head < Modulus /\ tail < Modulus
    BY <1>1 DEF RingInv, Counter
  <2>4. Len(published) = (IF tail <= head THEN head - tail ELSE head + Modulus - tail) /\ Len(published) <= Slots
    BY <2>1 DEF RingInv
  <2> QED BY <1>1, <1>3, <2>2, <2>3, <2>4
<1>6. SlotOf(head) = Wrap(SlotOf(tail') + (Len(published) - 1))
  BY <1>1, <1>3 DEF RingInv, Wrap
<1>7. \A k \in 1..Len(published) - 1 : desc[Wrap(SlotOf(tail') + k - 1)] = published'[k]
  <2> SUFFICES ASSUME NEW k \in 1..Len(published) - 1 PROVE desc[Wrap(SlotOf(tail') + k - 1)] = published'[k]
    OBVIOUS
  <2>1. k + 1 \in 1..Len(published) /\ Wrap(SlotOf(tail') + k - 1) = Wrap(SlotOf(tail) + (k + 1) - 1)
    BY <1>1, <1>3 DEF RingInv, Wrap
  <2>2. desc[Wrap(SlotOf(tail) + (k + 1) - 1)] = published[k + 1]
    BY <2>1 DEF RingInv
  <2> QED BY <1>4, <2>1, <2>2
<1>8. /\ cons' \in [step : {"idle", "read", "release", "settle"}, item : Items \cup {Torn}, at : Counter]
      /\ cons'.step = "settle" /\ cons'.at = tail
  BY <1>2 DEF RingInv, PopRelease
<1>9. UNCHANGED <<head, desc, prod>>
  BY DEF PopRelease
<1>10. Len(published) - 1 <= Slots /\ (Len(published) < Slots => Len(published) - 1 < Slots)
  BY <1>1 DEF RingInv
<1> QED BY <1>2, <1>3, <1>4, <1>5, <1>6, <1>7, <1>8, <1>9, <1>10 DEF RingInv

LEMMA RingNextInv == ASSUME Radix = Modulus PROVE RingInv /\ [RingNext]_ringVars => RingInv'
<1> SUFFICES ASSUME RingInv, [RingNext]_ringVars PROVE RingInv'
  OBVIOUS
<1>1. CASE UNCHANGED ringVars
  BY <1>1 DEF ringVars, RingInv
<1>2. CASE Producer
  BY <1>2, BeginsKeep, SettlesKeep, WriteKeeps, PublishKeeps DEF Producer
<1>3. CASE Consumer
  BY <1>3, BeginsKeep, SettlesKeep, ReleaseKeeps DEF Consumer
<1> QED BY <1>1, <1>2, <1>3 DEF RingNext

(* Every step is a push, a pop or nothing to the queue.                    *)
LEMMA RingStep ==
  ASSUME Radix = Modulus, RingInv, [RingNext]_ringVars
  PROVE  [Fifo!Next]_<<published, out>>
<1>1. CASE PushPublish
  BY <1>1 DEF PushPublish, RingInv, Fifo!Next, Fifo!Push
<1>2. CASE PopRelease
  <2>1. published # <<>> /\ cons.item = Head(published)
    BY <1>2 DEF PopRelease, RingInv
  <2> QED BY <1>2, <2>1 DEF PopRelease, Fifo!Next, Fifo!Pop
<1>3. CASE ~PushPublish /\ ~PopRelease
  <2>1. UNCHANGED <<published, out>>
    BY <1>3 DEF RingNext, Producer, Consumer, PushRefused, PushBegin, PushWrite, PushSettle,
       PopBegin, PopRead, PopSettle,
                ringVars
  <2> QED BY <2>1
<1> QED BY <1>1, <1>2, <1>3

(* ffn_dp_ring_push and ffn_dp_ring_pop: for every size of the ring and    *)
(* width of the counters, and however the planes interleave, the ring is   *)
(* a bounded queue, given that a counter is written by one store.          *)
THEOREM RingIsQueue == ASSUME Radix = Modulus PROVE RingSpec => IsQueue
<1>1. RingInit => Fifo!Init
  BY DEF RingInit, Fifo!Init
<1> QED BY <1>1, RingInitInv, RingNextInv, RingStep, PTL DEF RingSpec, IsQueue, Fifo!Spec
============================================================================
