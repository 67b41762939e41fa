---------------------------- MODULE NetworkPatch ----------------------------
(***************************************************************************)
(* A live change of the dataplane's network (opt/ffn_linux_network.py,     *)
(* patch): virtual routers, ports, routes and rules are changed one ip     *)
(* command after the other, and when one fails everything done so far is   *)
(* undone, in an order that the kernel must accept.                        *)
(*                                                                         *)
(* Port settings are a mode, a router, an MTU and addresses; a route or a  *)
(* rule is over one port, and a route is in the table of that port's       *)
(* router.  The kernel, reduced to what these commands need: a port that   *)
(* is reconfigured loses the routes over it, a router is deleted only when *)
(* nothing uses it.  The network lock makes patches exclude each other.    *)
(***************************************************************************)
EXTENDS Naturals

CONSTANTS
  Port, Vrf,
  Main,            \* the routing table of ports without a virtual router
  MaxFaults        \* bound: commands that fail

ASSUME NetAssumption == Main \notin Vrf

VARIABLES stored, kernel, target,    \* the state file, the kernel, what the patch is about
          todo, done, undo,          \* commands: to come, begun, to be taken back
          at, faults, hurt           \* hurt: a command failed while undoing
netVars == <<stored, kernel, target, todo, done, undo, at, faults, hurt>>

Off == [mode |-> "off", vrf |-> Main, addrs |-> {}, mtu |-> 0]     \* disabled, and half configured
Absent == [Off EXCEPT !.mode = "absent"]
L3(v, x, m) == [mode |-> "l3", vrf |-> v, addrs |-> {x}, mtu |-> m]
Setting == {Off, Absent} \cup UNION {{L3(v, "x", 1), L3(v, "y", 1), L3(v, "x", 2)} : v \in Vrf \cup {Main}}
Over == [port : Port, vrf : Vrf \cup {Main}]            \* routes and rules

\* validate.
Valid(n) ==
  /\ \A p \in Port : n.ports[p].vrf \in n.vrfs \cup {Main}
  /\ \A r \in n.routes : n.ports[r.port].mode = "l3" /\ n.ports[r.port].vrf = r.vrf
  /\ \A r \in n.rules : n.ports[r.port].mode = "l3" /\ r.vrf \in n.vrfs
Network == {n \in [vrfs : SUBSET Vrf, ports : [Port -> Setting], routes : SUBSET Over, rules : SUBSET Over] : Valid(n)}

NetInit ==
  /\ stored \in Network /\ kernel = stored /\ target = stored
  /\ todo = {} /\ done = {} /\ undo = {} /\ at = "idle" /\ faults = 0 /\ hurt = FALSE

(* -------------------------------- prepare ------------------------------- *)

AddressOnly(before, after) ==
  before.mode = "l3" /\ after.mode = "l3" /\ before.vrf = after.vrf /\ before.mtu = after.mtu
\* A request names every port; one whose addresses drifted is changed too.
ChangedPorts(old, new) ==
  {p \in Port : \/ old.ports[p] # new.ports[p]
                \/ new.ports[p].mode = "l3" /\ kernel.ports[p].addrs # new.ports[p].addrs}
Rewired(old, new) == {p \in ChangedPorts(old, new) :
  old.ports[p] # new.ports[p] /\ ~AddressOnly(old.ports[p], new.ports[p])}

Command(do, on) == [do |-> do, on |-> on]
Each(do, s) == {Command(do, x) : x \in s}

\* What the new configuration takes; a route that is already configured and not
\* in the kernel is added again.
Plan(old, new) ==
  Each("create", new.vrfs \ old.vrfs) \cup Each("unrule", old.rules \ new.rules)
  \cup Each("unroute", old.routes \ new.routes) \cup Each("port", ChangedPorts(old, new))
  \cup Each("route", new.routes \ (old.routes \cap kernel.routes)) \cup Each("rule", new.rules \ old.rules)
  \cup Each("delete", old.vrfs \ new.vrfs)

\* The order of the commands in patch, and in its except branch.  Commands of
\* one kind come in the order of the configuration's lists, which is any.
Order     == [create |-> 1, unrule |-> 2, unroute |-> 3, port |-> 4, route |-> 5, rule |-> 6, delete |-> 7]
UndoOrder == [unrule |-> 1, create |-> 2, unroute |-> 3, port |-> 4, route |-> 5, rule |-> 6, delete |-> 7]
First(s, order) == {c \in s : \A d \in s : order[c.do] <= order[d.do]}

Prepare(new) ==
  /\ at = "idle" /\ new # stored
  /\ \A p \in Port : new.ports[p].mode = "absent" => stored.ports[p].mode = "absent"
  /\ \A r \in (stored.routes \cap new.routes) \cup (stored.rules \cap new.rules) :
       r.port \notin Rewired(stored, new)
  /\ target' = new /\ todo' = Plan(stored, new) /\ done' = {} /\ at' = "forward"
  /\ UNCHANGED <<stored, kernel, undo, faults, hurt>>

(* ------------------------------- commands ------------------------------- *)

\* configure_port begins by taking the port down: its routes go.
Down(k, p) == [k EXCEPT !.ports[p] = Off, !.routes = {r \in @ : r.port # p}]
Configured(k, p, s) == [Down(k, p) EXCEPT !.ports[p] = s]
\* The addresses of update_port: from what is live, add first, then remove.
Readdressed(k, p, before, after) ==
  LET live == k.ports[p].addrs IN
  [k EXCEPT !.ports[p].addrs = (live \cup after.addrs) \ ((live \cap before.addrs) \ after.addrs)]
PortUpdate(k, p, before, after) ==
  IF after.mode = "absent" THEN Configured(k, p, Absent)
  ELSE IF AddressOnly(before, after) THEN Readdressed(k, p, before, after) ELSE Configured(k, p, after)
\* Where a port may be left when one of the commands fails.
PortHalf(k, p, before, after) ==
  IF AddressOnly(before, after) THEN {k, [k EXCEPT !.ports[p].addrs = @ \cup after.addrs]}
  ELSE {k, Down(k, p)}

\* A command on the kernel k, for ports from one network to another.
Works(c, k, to) ==
  CASE c.do = "create" -> c.on \notin k.vrfs /\ \A r \in k.routes : r.vrf # c.on
    [] c.do = "delete" -> /\ c.on \in k.vrfs /\ \A r \in k.routes : r.vrf # c.on
                          /\ \A p \in Port : k.ports[p].vrf # c.on
    [] c.do = "port" -> to.ports[c.on].vrf \in k.vrfs \cup {Main}
    [] c.do = "route" -> c.on \notin k.routes /\ k.ports[c.on.port].mode = "l3" /\ k.ports[c.on.port].vrf = c.on.vrf
    [] c.do = "unroute" -> c.on \in k.routes
    [] c.do = "rule" -> c.on \notin k.rules
    [] OTHER -> c.on \in k.rules
Effect(c, k, from, to) ==
  CASE c.do = "create" -> [k EXCEPT !.vrfs = @ \cup {c.on}]
    [] c.do = "delete" -> [k EXCEPT !.vrfs = @ \ {c.on}]
    [] c.do = "port" -> PortUpdate(k, c.on, from.ports[c.on], to.ports[c.on])
    [] c.do = "route" -> [k EXCEPT !.routes = @ \cup {c.on}]
    [] c.do = "unroute" -> [k EXCEPT !.routes = @ \ {c.on}]
    [] c.do = "rule" -> [k EXCEPT !.rules = @ \cup {c.on}]
    [] OTHER -> [k EXCEPT !.rules = @ \ {c.on}]
\* create_vrf and delete_vrf take back their own parts.
Halves(c, k, from, to) == IF c.do = "port" THEN PortHalf(k, c.on, from.ports[c.on], to.ports[c.on]) ELSE {k}

(* --------------------------------- patch -------------------------------- *)

Opposite(do) == CASE do = "create" -> "delete" [] do = "delete" -> "create" [] do = "route" -> "unroute"
                 [] do = "unroute" -> "route" [] do = "rule" -> "unrule" [] do = "unrule" -> "rule" [] OTHER -> do
Unwind(d) == {Command(Opposite(c.do), c.on) : c \in d}

Fault == faults < MaxFaults /\ faults' = faults + 1
Undoing(d) == done' = d /\ undo' = Unwind(d) /\ at' = "undo" /\ todo' = {}

Step ==
  /\ at = "forward"
  /\ \E c \in First(todo, Order) :
       /\ Works(c, kernel, target)
       /\ kernel' = Effect(c, kernel, stored, target)
       /\ done' = done \cup {c} /\ todo' = todo \ {c}
  /\ UNCHANGED <<stored, target, undo, at, faults, hurt>>
StepFails(c, recorded) ==
  /\ at = "forward"
  /\ IF Works(c, kernel, target) THEN Fault ELSE UNCHANGED faults
  /\ kernel' \in Halves(c, kernel, stored, target)
  /\ Undoing(recorded)
  /\ UNCHANGED <<stored, target, hurt>>
FailUnrecorded == \E c \in First(todo, Order) : StepFails(c, done)
\* A port counts as begun before its first command, everything else when done.
Fail == \E c \in First(todo, Order) : StepFails(c, IF c.do = "port" THEN done \cup {c} ELSE done)

Save ==
  /\ at = "forward" /\ todo = {} /\ stored' = target /\ at' = "idle"
  /\ UNCHANGED <<kernel, target, todo, done, undo, faults, hurt>>
\* The write fails before the rename.
SaveFails ==
  /\ at = "forward" /\ todo = {} /\ Fault /\ Undoing(done)
  /\ UNCHANGED <<stored, kernel, target, hurt>>

\* Every undo is tried, whatever became of the one before.
Undo ==
  /\ at = "undo"
  /\ \E c \in First(undo, UndoOrder) :
       /\ undo' = undo \ {c}
       /\ \/ /\ Works(c, kernel, stored) /\ kernel' = Effect(c, kernel, target, stored) /\ UNCHANGED <<faults, hurt>>
          \/ /\ ~Works(c, kernel, stored) /\ kernel' \in Halves(c, kernel, target, stored) /\ UNCHANGED <<faults, hurt>>
          \/ /\ Fault /\ hurt' = TRUE /\ kernel' \in Halves(c, kernel, target, stored)
  /\ UNCHANGED <<stored, target, todo, done, at>>
Raise ==
  /\ at = "undo" /\ undo = {} /\ at' = "idle" /\ target' = stored
  /\ UNCHANGED <<stored, kernel, todo, done, undo, faults, hurt>>

NetNext == (\E n \in Network : Prepare(n)) \/ Step \/ Fail \/ Save \/ SaveFails \/ Undo \/ Raise
NetSpec == NetInit /\ [][NetNext]_netVars

(* ------------------------------ properties ------------------------------ *)

\* patch is all or nothing for the kernel: when it has returned, the kernel is
\* what the state file says, after a failure too, wherever it struck and in
\* the middle of a port too, unless an undo was itself refused by the system.
PatchIsWhole == at = "idle" /\ ~hurt => kernel = stored

\* A route that the configurations before and after have in common is never
\* missing, not even for a moment and not while a failed patch is undone.
CommonRoutesStay == ~hurt => stored.routes \cap target.routes \subseteq kernel.routes

\* A live change is whole for the kernel, and hitless for what stays.
NetworkIsWhole == PatchIsWhole /\ CommonRoutesStay
=============================================================================
