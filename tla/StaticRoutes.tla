---------------------------- MODULE StaticRoutes ----------------------------
(***************************************************************************)
(* Link-qualified static routes (opt/ffn_static_routes.py): a daemon keeps *)
(* a configured route in the kernel while its link is up and its monitored *)
(* path answers.  Probes run outside the network lock, so a configuration  *)
(* edit can come between a probe and its result.                           *)
(***************************************************************************)
EXTENDS Naturals, Sequences, SequencesExt

CONSTANTS
  Route,           \* monitored routes
  Failures,        \* failure_count
  Recoveries,      \* recovery_count
  Budget,          \* routes probed per tick
  MaxEdits         \* bound: configuration edits, and long stalls of the daemon

VARIABLES cfg, link, path, kernelRoutes, health, order, current, todo, answer, edits
routeVars == <<cfg, link, path, kernelRoutes, health, order, current, todo, answer, edits>>

Unknown == [healthy |-> FALSE, failures |-> 0, successes |-> 0, fresh |-> FALSE]

RoutesInit ==
  /\ cfg \in SUBSET Route /\ link = [r \in Route |-> TRUE] /\ path = [r \in Route |-> TRUE]
  /\ kernelRoutes = {} /\ health = [r \in Route |-> Unknown]
  /\ order = SetToSeq(Route) /\ current = FALSE /\ todo = <<>> /\ answer = "none" /\ edits = 0

\* base_reason and the monitor's part of apply.
Eligible(r, h) == link[r] /\ h.fresh /\ h.healthy

Upto(n, bound) == IF n < bound THEN n ELSE bound
\* advance: hysteresis over complete probe rounds.
Advance(h, good) ==
  LET f == IF good THEN 0 ELSE Upto(h.failures + 1, Failures)
      s == IF good THEN Upto(h.successes + 1, Recoveries) ELSE 0
  IN [healthy |-> s >= Recoveries \/ (h.healthy /\ f < Failures),
      failures |-> f, successes |-> s, fresh |-> TRUE]

Stepped(limit) == edits < limit /\ edits' = edits + 1

\* The first part of a tick, under the lock: every configured route is put in
\* or taken out, and the routes to probe are chosen, oldest observation first.
SyncFrom(queue) ==
  /\ todo = <<>>
  /\ kernelRoutes' = {r \in cfg : Eligible(r, health[r])}
  /\ health' = [r \in Route |-> IF r \in cfg THEN health[r] ELSE Unknown]
  /\ current' = TRUE /\ answer' = "none"
  /\ LET due == SelectSeq(queue, LAMBDA r : r \in cfg)
     IN todo' = SubSeq(due, 1, Upto(Len(due), Budget))
  /\ UNCHANGED <<cfg, link, path, order, edits>>

SyncFixed == SyncFrom(SetToSeq(Route))
Sync == SyncFrom(order)

\* sample: outside the lock.
Probe ==
  /\ todo # <<>> /\ answer = "none"
  /\ answer' = IF path[Head(todo)] THEN "good" ELSE "bad"
  /\ UNCHANGED <<cfg, link, path, kernelRoutes, health, order, current, todo, edits>>

\* The result, under the lock again: dropped with the rest of the round when
\* the configuration is not the one the tick began with.
Result ==
  /\ todo # <<>> /\ answer # "none" /\ answer' = "none"
  /\ LET r == Head(todo)
         h == Advance(health[r], answer = "good")
     IN IF current
        THEN /\ health' = [health EXCEPT ![r] = h]
             /\ kernelRoutes' = IF Eligible(r, h) THEN kernelRoutes \cup {r} ELSE kernelRoutes \ {r}
             /\ order' = Append(SelectSeq(order, LAMBDA q : q # r), r)
             /\ todo' = Tail(todo)
        ELSE todo' = <<>> /\ UNCHANGED <<health, kernelRoutes, order>>
  /\ UNCHANGED <<cfg, link, path, current, edits>>

Daemon == Sync \/ Probe \/ Result

(* ------------------------------ environment ----------------------------- *)

\* patch: routes that go are deleted, routes that are new or absent are tried.
EditRoutes ==
  /\ Stepped(MaxEdits)
  /\ \E new \in SUBSET Route :
       /\ cfg' = new
       /\ kernelRoutes' = {r \in new : r \in kernelRoutes \/ Eligible(r, health[r])}
  /\ current' = FALSE
  /\ UNCHANGED <<link, path, health, order, todo, answer>>

\* The daemon is stopped (its routes go) or stalls until the health is stale.
StopRoutes ==
  /\ Stepped(MaxEdits) /\ kernelRoutes' = {} /\ todo' = <<>> /\ answer' = "none"
  /\ UNCHANGED <<cfg, link, path, health, order, current>>
Stall ==
  /\ Stepped(MaxEdits) /\ health' = [r \in Route |-> [health[r] EXCEPT !.fresh = FALSE]]
  /\ UNCHANGED <<cfg, link, path, kernelRoutes, order, current, todo, answer>>

Flap ==
  /\ \E r \in Route : \/ link' = [link EXCEPT ![r] = ~@] /\ UNCHANGED path
                      \/ path' = [path EXCEPT ![r] = ~@] /\ UNCHANGED link
  /\ UNCHANGED <<cfg, kernelRoutes, health, order, current, todo, answer, edits>>

RoutesNext == Daemon \/ EditRoutes \/ StopRoutes \/ Stall \/ Flap

(* ------------------------------ properties ------------------------------ *)

\* Results of an obsolete configuration are never installed: what is in the
\* kernel is configured, however probes and edits interleave.
OnlyConfigured == kernelRoutes \subseteq cfg

\* No route starves: one whose link and path are good for good gets into the
\* kernel and stays, although a tick probes fewer routes than there are; and
\* one whose path is dead for good is taken out and stays out, whatever was
\* stale, edited or restarted before.
RoutesConverge ==
  /\ []OnlyConfigured
  /\ \A r \in Route : /\ <>[](r \in cfg /\ link[r] /\ path[r]) => <>[](r \in kernelRoutes)
                      /\ <>[](~path[r]) => <>[](r \notin kernelRoutes)
==============================================================================
