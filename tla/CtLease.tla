------------------------------ MODULE CtLease ------------------------------
(***************************************************************************)
(* Leases on conntrack objects (dataplanes/ctlease/ffn_ctlease.c).  While  *)
(* the hardware carries a flow, its owner holds a file of this module that *)
(* is bound to the flow's conntrack object, and books packets on it.       *)
(*                                                                         *)
(* Object <<f, n>> is the n-th one that the kernel made for the tuple f.   *)
(* It may die at any moment, a FIN or an edit of its mark may reach it, and *)
(* a new one may take its tuple.  An ioctl is cut where it holds neither   *)
(* claims_lock nor the object's lock; a file is released only when none of  *)
(* its ioctls is under way.  Amounts and timeouts are left out, and calls    *)
(* that are refused without a trace (wrong numbers, unbound files).        *)
(***************************************************************************)
EXTENDS Naturals, FiniteSets

CONSTANTS
  Handle, Flow,
  Tcp,                  \* the flows that are TCP
  MaxBirths             \* bound: objects per tuple
ASSUME BirthsAssumption == MaxBirths \in Nat

Object == Flow \X (1 .. MaxBirths)
Unbound == <<"none", 0>>
Blank == [at |-> "closed", ct |-> Unbound, id |-> 0, mark |-> 0, invalid |-> FALSE]

VARIABLES
  file,     \* private data of each file, and where its call stands
  claims,    \* files in the list of claims
  born,      \* how many objects each tuple has had
  dead,      \* objects that are dying
  closing,   \* TCP objects that left ESTABLISHED
  mark,      \* of each object
  stale,     \* TCP objects whose windows are behind the traffic
  refused    \* files whose lease was refused once, a history
ctVars == <<file, claims, born, dead, closing, mark, stale, refused>>

CtInit ==
  /\ file = [h \in Handle |-> Blank] /\ claims = {} /\ born = [f \in Flow |-> 1]
  /\ dead = {} /\ closing = {} /\ stale = {} /\ mark = [o \in Object |-> 0]
  /\ refused = {}

kernelVars == <<born, dead, closing, mark>>
Set(h, l) == file' = [file EXCEPT ![h] = l]
\* The spinlock of an object is held between the two halves of an update.
Locked(o) == \E h \in Handle : file[h].at = "adding" /\ file[h].ct = o

\* usable.
Usable(l) == l.ct \notin dead /\ l.ct \notin closing /\ l.ct[2] = l.id /\ mark[l.ct] = l.mark

OpenFile(h) ==
  /\ file[h].at = "closed" /\ Set(h, [Blank EXCEPT !.at = "open"]) /\ refused' = refused \ {h}
  /\ UNCHANGED <<claims, kernelVars, stale>>

\* bind_lease, for the identity that the owner saw some time before: the
\* lookup by tuple, and the claim under both locks.
BindFind(h) ==
  /\ file[h].at = "open" /\ file[h].ct = Unbound
  /\ \E f \in Flow, id \in 1 .. MaxBirths, m \in {0, 1} :
       /\ <<f, born[f]>> \notin dead /\ id <= born[f]
       /\ Set(h, [file[h] EXCEPT !.at = "found", !.ct = <<f, born[f]>>, !.id = id, !.mark = m])
  /\ UNCHANGED <<claims, kernelVars, stale, refused>>
Claimed(o) == \E g \in claims : file[g].ct = o
BindUnless(h, busy) ==
  /\ file[h].at = "found"
  /\ LET ok == ~busy /\ Usable(file[h]) IN
       /\ Set(h, IF ok THEN [file[h] EXCEPT !.at = "open"] ELSE [Blank EXCEPT !.at = "open"])
       /\ claims' = IF ok THEN claims \cup {h} ELSE claims
  /\ UNCHANGED <<kernelVars, stale, refused>>
BindAnyway(h) == BindUnless(h, FALSE)
BindClaim(h) == BindUnless(h, Claimed(file[h].ct))

\* update_lease: the checks, and the booking under the object's lock.  The
\* object may die in between, which is looked at again at the end.
Invalidated(h) == Set(h, [file[h] EXCEPT !.invalid = TRUE]) /\ refused' = refused \cup {h}
Bound(h) == file[h].at = "open" /\ file[h].ct # Unbound /\ ~file[h].invalid
UpdateBegin(h) ==
  /\ Bound(h)
  /\ IF Usable(file[h]) THEN Set(h, [file[h] EXCEPT !.at = "adding"]) /\ UNCHANGED refused ELSE Invalidated(h)
  /\ UNCHANGED <<claims, kernelVars, stale>>
UpdateEnd(h) ==
  /\ file[h].at = "adding"
  /\ Set(h, [file[h] EXCEPT !.at = "open", !.invalid = file[h].ct \in dead])
  /\ refused' = IF file[h].ct \in dead THEN refused \cup {h} ELSE refused
  /\ UNCHANGED <<claims, kernelVars, stale>>
CheckLease(h) ==
  /\ Bound(h) /\ ~Usable(file[h]) /\ Invalidated(h)
  /\ UNCHANGED <<claims, kernelVars, stale>>

\* lease_release: the claim goes first, then the windows are handed back.
Release(h) ==
  /\ file[h].at = "open" /\ claims' = claims \ {h}
  /\ Set(h, IF file[h].ct = Unbound THEN Blank ELSE [file[h] EXCEPT !.at = "delisted"])
  /\ UNCHANGED <<kernelVars, stale, refused>>
Handback(h) ==
  /\ file[h].at = "delisted" /\ ~Locked(file[h].ct) /\ Set(h, Blank)
  /\ stale' = IF file[h].ct \in dead \cup closing THEN stale ELSE stale \ {file[h].ct}
  /\ UNCHANGED <<claims, kernelVars, refused>>

\* The kernel and the hardware.  The owner lets the hardware carry a flow while
\* it has not been refused.
Dies(o) == o \notin dead /\ o[2] <= born[o[1]] /\ dead' = dead \cup {o} /\ UNCHANGED <<file, claims, born, closing, mark, stale, refused>>
Reborn(f) ==
  /\ <<f, born[f]>> \in dead /\ born[f] < MaxBirths /\ born' = [born EXCEPT ![f] = @ + 1]
  /\ UNCHANGED <<file, claims, dead, closing, mark, stale, refused>>
Fin(o) ==
  /\ o[1] \in Tcp /\ o[2] <= born[o[1]] /\ o \notin closing \cup dead /\ ~Locked(o) /\ closing' = closing \cup {o}
  /\ UNCHANGED <<file, claims, born, dead, mark, stale, refused>>
Remark(o) ==
  /\ o[2] <= born[o[1]] /\ o \notin dead /\ mark' = [mark EXCEPT ![o] = 1 - @]
  /\ UNCHANGED <<file, claims, born, dead, closing, stale, refused>>
Carry(h) ==
  /\ Bound(h) /\ file[h].ct[1] \in Tcp /\ stale' = stale \cup {file[h].ct}
  /\ UNCHANGED <<file, claims, kernelVars, refused>>

CtNext ==
  \/ \E h \in Handle :
       \/ OpenFile(h) \/ BindFind(h) \/ BindClaim(h) \/ CheckLease(h) \/ Release(h) \/ Handback(h) \/ Carry(h)
       \/ UpdateBegin(h) \/ UpdateEnd(h)
  \/ \E o \in Object : Dies(o) \/ Fin(o) \/ Remark(o)
  \/ \E f \in Flow : Reborn(f)

CtSpec == CtInit /\ [][CtNext]_ctVars

(* ------------------------------ properties ------------------------------ *)

\* "A single accounting owner per object, even across separate file handles":
\* packets are booked by the one file that claims the object, on the object
\* that its owner meant and no later one with the same tuple, and never by a
\* file that was refused once, although the mark may be right again.
OneBooker(o) == \E h \in claims : /\ \A g \in claims : file[g].ct = o => g = h
                                  /\ file[h].ct = o /\ o[2] = file[h].id /\ h \notin refused

\* A live flow that nobody leases, and that is not just being handed back, is
\* not left with windows that would make its next segments invalid.
HandedBack == \A o \in stale \ (dead \cup closing) : \E h \in Handle : file[h].ct = o /\ file[h].at \in {"open", "adding", "delisted"}

\* Leases book exactly, and give back what they took.
Books(h) == file[h].at = "adding" /\ file'[h].at = "open"
LeasesAreExact == [][HandedBack' /\ \A h \in Handle : Books(h) => OneBooker(file[h].ct)]_ctVars
=============================================================================
