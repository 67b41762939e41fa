---------------------------- MODULE SecurityLease ----------------------------
(***************************************************************************)
(* The Security and NAT runtime (opt/ffn_security_runtime.py): policy      *)
(* tables in the kernel, their durable record, and a gate in front of all  *)
(* transit that is open only while an eight-second lease is renewed.       *)
(*                                                                         *)
(* Two processes: an apply command, and the supervisor (serve), whose tick *)
(* replays the policy when the kernel or the interface owners drifted.     *)
(* Both work under the network lock; the supervisor's first renewal of a   *)
(* tick does not.  Tables are the policy and the owners they were rendered *)
(* for; the record is the tables it was verified against.                  *)
(***************************************************************************)
EXTENDS Naturals

CONSTANTS
  Policy,        \* compiled policies
  MaxOwners,     \* bound: changes of the interface owners
  MaxMishaps     \* bound: killed processes, failed steps and event gaps

VARIABLES kernel, stored, owners, gate, fault, ready,   \* shared
          holder, step, want, before,                   \* the lock and an apply under it
          serve, forwarding, mishaps
leaseVars == <<kernel, stored, owners, gate, fault, ready, holder, step, want, before,
               serve, forwarding, mishaps>>

NoTables == [policy |-> "none", owners |-> 0]
Tables(p) == [policy |-> p, owners |-> owners]

LeaseInit ==
  /\ kernel = NoTables /\ stored = NoTables /\ owners = 0
  /\ gate = "closed" /\ fault = FALSE /\ ready = FALSE
  /\ holder = "none" /\ step = "none" /\ want = NoTables /\ before = NoTables
  /\ serve = "start" /\ forwarding = FALSE /\ mishaps = 0

(* --------------------------------- apply -------------------------------- *)

Mishap == mishaps < MaxMishaps /\ mishaps' = mishaps + 1
DriftedOwners == stored.owners # owners
Drifted == kernel # stored \/ stored.owners # owners

\* Past prepare: the rollback scripts are taken and the gate is closed.
Enter(who, p) ==
  /\ gate' = "closed" /\ holder' = who /\ step' = "load"
  /\ want' = Tables(p) /\ before' = kernel

\* The command.  It refuses, changing nothing, while the collector is not
\* healthy, a fault stands or the tables drifted, and when nothing changed.
Apply(p) ==
  /\ holder = "none" /\ ready /\ ~fault /\ kernel = stored
  /\ stored # Tables(p)
  /\ Enter("apply", p)
  /\ UNCHANGED <<kernel, stored, owners, fault, ready, serve, forwarding, mishaps>>

\* One nft transaction, gate included; it fails as a whole.
Load ==
  /\ step = "load"
  /\ \/ kernel' = want /\ gate' = "closed" /\ step' = "verify" /\ UNCHANGED mishaps
     \/ step' = "undo" /\ Mishap /\ UNCHANGED <<kernel, gate>>
  /\ UNCHANGED <<stored, owners, fault, ready, holder, want, before, serve, forwarding>>

\* How an apply gives the lock back: the supervisor goes on with its tick.
Leave(ok) ==
  /\ step' = "none" /\ want' = NoTables /\ before' = NoTables
  /\ IF holder = "apply" THEN holder' = "none" /\ UNCHANGED <<serve, forwarding>>
     ELSE IF ok THEN serve' = "renew" /\ UNCHANGED <<holder, forwarding>>
     ELSE holder' = "none" /\ serve' = "shut" /\ forwarding' = FALSE

\* The readback and the owners are checked, then the record is written.
Verify ==
  /\ step = "verify"
  /\ \/ owners = want.owners /\ stored' = want /\ Leave(TRUE) /\ UNCHANGED mishaps
     \/ /\ step' = "undo" /\ IF owners = want.owners THEN Mishap ELSE UNCHANGED mishaps
        /\ UNCHANGED <<stored, holder, want, before, serve, forwarding>>
  /\ UNCHANGED <<kernel, owners, gate, fault, ready>>

Undo ==
  /\ step = "undo" /\ gate' = "closed" /\ step' = "restore"
  /\ UNCHANGED <<kernel, stored, owners, fault, ready, holder, want, before, serve, forwarding, mishaps>>

RestoreTo(tables) ==
  /\ step = "restore"
  /\ \/ kernel' = tables /\ gate' = "closed" /\ UNCHANGED <<fault, mishaps>>
     \/ fault' = TRUE /\ Mishap /\ UNCHANGED <<kernel, gate>>
  /\ Leave(FALSE)
  /\ UNCHANGED <<stored, owners, ready>>
UndoApplyLate == RestoreTo(want)
UndoApply == RestoreTo(before)

(* ------------------------------- supervisor ----------------------------- *)

ServeStart ==
  /\ serve = "start" /\ holder = "none"
  /\ gate' = "closed" /\ serve' = "tick"
  /\ UNCHANGED <<kernel, stored, owners, fault, ready, holder, step, want, before, forwarding, mishaps>>

TickFault ==
  /\ serve = "tick" /\ (fault \/ ~ready)
  /\ forwarding' = FALSE /\ serve' = "shut"
  /\ UNCHANGED <<kernel, stored, owners, gate, fault, ready, holder, step, want, before, mishaps>>

\* gate_close_problem: a close that fails is left to the lease.
Shut ==
  /\ serve = "shut" /\ holder = "none"
  /\ \/ gate' = "closed" /\ UNCHANGED mishaps
     \/ Mishap /\ UNCHANGED gate
  /\ serve' = "tick"
  /\ UNCHANGED <<kernel, stored, owners, fault, ready, holder, step, want, before, forwarding>>

\* A generation that an earlier tick verified is renewed before the lock is
\* waited for.
Tick ==
  /\ serve = "tick" /\ ready /\ ~fault
  /\ gate' = IF forwarding THEN "open" ELSE gate
  /\ serve' = "lock"
  /\ UNCHANGED <<kernel, stored, owners, fault, ready, holder, step, want, before, forwarding, mishaps>>

\* Under the lock: nothing stored, no drift, or a replay, which may be refused.
Locked ==
  /\ serve = "lock" /\ holder = "none"
  /\ \/ /\ stored = NoTables /\ serve' = "tick"
        /\ UNCHANGED <<gate, holder, step, want, before, forwarding>>
     \/ /\ stored # NoTables /\ ~Drifted /\ holder' = "serve" /\ serve' = "renew"
        /\ UNCHANGED <<gate, step, want, before, forwarding>>
     \/ /\ stored # NoTables /\ Drifted /\ ready /\ ~fault
        /\ Enter("serve", stored.policy) /\ serve' = "replay" /\ UNCHANGED forwarding
     \/ /\ stored # NoTables /\ Drifted /\ (fault \/ ~ready)
        /\ gate' = "closed" /\ serve' = "shut" /\ forwarding' = FALSE
        /\ UNCHANGED <<holder, step, want, before>>
  /\ UNCHANGED <<kernel, stored, owners, fault, ready, mishaps>>

Renew ==
  /\ serve = "renew" /\ holder' = "none"
  /\ \/ ready /\ gate' = "open" /\ forwarding' = TRUE /\ serve' = "tick"
     \/ ~ready /\ forwarding' = FALSE /\ serve' = "shut" /\ UNCHANGED gate
  /\ UNCHANGED <<kernel, stored, owners, fault, ready, step, want, before, mishaps>>

(* ------------------------------ environment ----------------------------- *)

Expire ==
  /\ gate = "open" /\ gate' = "closed"
  /\ UNCHANGED <<kernel, stored, owners, fault, ready, holder, step, want, before, serve, forwarding, mishaps>>

\* The collector finds a gap, or has reconciled; an unconfirmed rollback is a
\* fault that it does not recover from.
CollectorGap ==
  /\ ready /\ Mishap /\ ready' = FALSE
  /\ UNCHANGED <<kernel, stored, owners, gate, fault, holder, step, want, before, serve, forwarding>>
CollectorClose ==
  /\ ~ready /\ holder = "none" /\ gate' = "closed"
  /\ UNCHANGED <<kernel, stored, owners, fault, ready, holder, step, want, before, serve, forwarding, mishaps>>
CollectorReady ==
  /\ ~ready /\ ~fault /\ serve # "start" /\ ready' = TRUE
  /\ UNCHANGED <<kernel, stored, owners, gate, fault, holder, step, want, before, serve, forwarding, mishaps>>

OwnersChange ==
  /\ owners < MaxOwners /\ owners' = owners + 1
  /\ UNCHANGED <<kernel, stored, gate, fault, ready, holder, step, want, before, serve, forwarding, mishaps>>

\* A process is killed; the kernel gives its lock back, nothing else happens.
Dropped(who) ==
  IF holder = who THEN holder' = "none" /\ step' = "none" /\ want' = NoTables /\ before' = NoTables
  ELSE UNCHANGED <<holder, step, want, before>>
Kill ==
  /\ Mishap
  /\ \/ holder = "apply" /\ Dropped("apply") /\ UNCHANGED <<serve, forwarding, ready>>
     \/ Dropped("serve") /\ serve' = "start" /\ forwarding' = FALSE /\ ready' = FALSE
  /\ UNCHANGED <<kernel, stored, owners, gate, fault>>

Transaction == Load \/ Verify \/ Undo \/ UndoApply
Supervisor == ServeStart \/ TickFault \/ Shut \/ Tick \/ Locked \/ Renew
Collecting == CollectorClose \/ CollectorReady
LeaseNext == \/ \E p \in Policy : Apply(p)
             \/ Transaction \/ Supervisor \/ Collecting
             \/ Expire \/ CollectorGap \/ OwnersChange \/ Kill
SecuritySpec == LeaseInit /\ [][LeaseNext]_leaseVars

(* ------------------------------ properties ------------------------------ *)

\* The gate is open only in front of the tables that the record was verified
\* against.
OpenMeansVerified == gate = "open" => kernel = stored

\* An apply command is all or nothing: unless it is killed or its rollback
\* fails, kernel and record agree when it gives the lock back.
ApplyWhole ==
  [][holder = "apply" /\ holder' = "none" /\ UNCHANGED mishaps => kernel' = stored']_leaseVars

\* Whatever goes wrong with an apply or a replay, transit does not go on
\* meeting tables other than the recorded ones: the supervisor replays the
\* record, or the gate stays closed from some point on.
ExposureEnds == kernel # stored ~> (kernel = stored \/ [](gate = "closed"))

\* An unconfirmed rollback ends with the gate closed for good.
FaultCloses == fault ~> [](gate = "closed")

\* Once a policy is stored and faults, gaps and changes are over, transit is
\* let through again and again.
ForwardingResumes == stored # NoTables ~> (gate = "open" \/ fault)

\* The lease does its work: it ends an exposure, and nothing else for good.
GateServes == ExposureEnds /\ FaultCloses /\ ForwardingResumes
==============================================================================
