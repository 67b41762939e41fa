----------------------------- MODULE MCRuntime -----------------------------
(***************************************************************************)
(* The supervisors that keep the kernel in line with the configuration,    *)
(* and the DHCP server, checked in one run.  They run as separate daemons  *)
(* over separate state, so every behaviour is one of a single daemon: the  *)
(* others stay in their initial state.                                     *)
(***************************************************************************)
EXTENDS SecurityLease, SessionJournal, StaticRoutes, DhcpServer

MCAddress == <<"a1", "a2">>
MCReserved == [c \in {"c3"} |-> "a2"]

VARIABLE part
vars == <<part, leaseVars, journalVars, routeVars, dhcpVars>>

Is(p) == part = p /\ UNCHANGED part
Lease(A)   == Is("lease") /\ A /\ UNCHANGED <<journalVars, routeVars, dhcpVars>>
Journal(A) == Is("journal") /\ A /\ UNCHANGED <<leaseVars, routeVars, dhcpVars>>
Routes(A)  == Is("routes") /\ A /\ UNCHANGED <<leaseVars, journalVars, dhcpVars>>
Dhcp(A)    == Is("dhcp") /\ A /\ UNCHANGED <<leaseVars, journalVars, routeVars>>

Init ==
  /\ part \in {"lease", "journal", "routes", "dhcp"}
  /\ LeaseInit /\ JournalInit /\ RoutesInit /\ DhcpInit
  /\ part # "routes" => cfg = {}
Next == Lease(LeaseNext) \/ Journal(JournalNext) \/ Routes(RoutesNext) \/ Dhcp(DhcpNext)
Spec ==
  /\ Init /\ [][Next]_vars
  /\ WF_vars(Lease(Transaction)) /\ WF_vars(Lease(Supervisor)) /\ SF_vars(Lease(Locked))
  /\ SF_vars(Lease(Shut)) /\ SF_vars(Lease(ServeStart)) /\ WF_vars(Lease(CollectorReady))
  /\ WF_vars(Journal(Collect)) /\ WF_vars(Routes(Daemon))
  /\ WF_vars(Dhcp(Maintain)) /\ WF_vars(Dhcp(Reload))
LeaseSpec == Init /\ part = "lease" /\ [][Next]_vars
=============================================================================
