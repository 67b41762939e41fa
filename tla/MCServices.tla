----------------------------- MODULE MCServices -----------------------------
(***************************************************************************)
(* What the appliance does on request, checked in one run: commits,        *)
(* accounts and signing keys of the manager, network changes, remote       *)
(* access sessions, the forwarder's rules and flows, the conntrack leases  *)
(* of flows that the hardware carries, and the banks of the DPDK           *)
(* dataplane.  These share no state in the code, so every behaviour is one *)
(* of a single component: the others stay in their initial state.          *)
(***************************************************************************)
EXTENDS CommitPipeline, AdminAccounts, SigningKeys, NetworkPatch, ProtectGateway,
        DpForwarder, CtLease, DpBanks, TLC

\* The forwarder's two policy tables, its hash and the commands it is sent.
Row(s, d, a) == [src |-> s, dst |-> d, action |-> a]
MCPolicies == {<<Row(0, 1, "forward"), Row(Wild, 0, "drop")>>,
               <<Row(1, 0, "inspect"), Row(Wild, 1, "punt")>>}
MCHash(k) == k[1] + k[2]

Cmd(o, b, d) == [op |-> o, bank |-> b, dec |-> d]
MCCommands ==
    {Cmd(o, 0, "drop") : o \in {"ping", "stats", "flush", "shutdown"}}
    \cup {Cmd("set_bank", b, "drop") : b \in {1, 2}}
    \cup {Cmd("set_default", 0, d) : d \in {"forward"}}

VARIABLE part
vars == <<part, commitVars, accountVars, keyVars, netVars, protectVars, forwardVars, ctVars, bankVars>>
Part == {"commit", "accounts", "keys", "network", "protect", "forward", "conntrack", "banks"}

Is(p) == part = p /\ UNCHANGED part
managerVars == <<commitVars, accountVars, keyVars>>
planeVars == <<forwardVars, ctVars, bankVars>>
Commit   == Is("commit") /\ CommitNext /\ UNCHANGED <<accountVars, keyVars, netVars, protectVars, planeVars>>
Accounts == Is("accounts") /\ AccountsNext /\ UNCHANGED <<commitVars, keyVars, netVars, protectVars, planeVars>>
Keys     == Is("keys") /\ KeysNext /\ UNCHANGED <<commitVars, accountVars, netVars, protectVars, planeVars>>
Patches  == Is("network") /\ NetNext /\ UNCHANGED <<managerVars, protectVars, planeVars>>
Protect  == Is("protect") /\ ProtectNext /\ UNCHANGED <<managerVars, netVars, planeVars>>
Forward  == Is("forward") /\ ForwardNext /\ UNCHANGED <<managerVars, netVars, protectVars, ctVars, bankVars>>
Leases   == Is("conntrack") /\ CtNext /\ UNCHANGED <<managerVars, netVars, protectVars, forwardVars, bankVars>>
Flips    == Is("banks") /\ BanksNext /\ UNCHANGED <<managerVars, netVars, protectVars, forwardVars, ctVars>>

Init ==
  /\ part \in Part /\ CommitInit /\ AccountsInit /\ KeysInit /\ NetInit /\ ProtectInit /\ ForwardInit
  /\ CtInit /\ BanksInit
  /\ part # "accounts" => Admins = {CHOOSE a \in Account : TRUE}
  /\ part # "network" => stored = [vrfs |-> {}, ports |-> [p \in Port |-> Off], routes |-> {}, rules |-> {}]
\* Commits must never come to a halt; the others may, at their bounds.
AtBounds == part # "commit" /\ UNCHANGED vars
Next == Commit \/ Accounts \/ Keys \/ Patches \/ Protect \/ Forward \/ Leases \/ Flips \/ AtBounds
Spec == Init /\ [][Next]_vars

Symmetry == Permutations(Users)
=============================================================================
