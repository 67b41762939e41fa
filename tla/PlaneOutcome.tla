---------------------------- MODULE PlaneOutcome ----------------------------
(***************************************************************************)
(* What the control RPC promises its clients about each resource, without  *)
(* hops, locks, journals or crashes: a request ID has one outcome, at most *)
(* one write of a resource is open at a time, its effect happens at most   *)
(* once and only while it is open, and "applied" is said only of a write   *)
(* whose effect happened.  PlaneRpc implements it: the outcome of an ID is *)
(* the row in the journal of the resource's owner.                         *)
(***************************************************************************)
CONSTANTS Resources, Ids, Effects

VARIABLES outcome,  \* outcome[r][i]: what is known of write i to resource r
          done      \* done[r][i]: the effects of write i on r

Init ==
    /\ outcome = [r \in Resources |-> [i \in Ids |-> "none"]]
    /\ done = [r \in Resources |-> [i \in Ids |-> {}]]

Set(r, i, s) == outcome' = [outcome EXCEPT ![r] = [@ EXCEPT ![i] = s]]

Accept(r, i) ==
    /\ outcome[r][i] = "none"
    /\ \A j \in Ids : outcome[r][j] # "open"
    /\ Set(r, i, "open")
    /\ UNCHANGED done

Run(r, i, e) ==
    /\ outcome[r][i] = "open"
    /\ done[r][i] = {}
    /\ done' = [done EXCEPT ![r] = [@ EXCEPT ![i] = {e}]]
    /\ UNCHANGED outcome

Apply(r, i) ==
    /\ outcome[r][i] = "open"
    /\ done[r][i] # {}
    /\ Set(r, i, "applied")
    /\ UNCHANGED done

Reconcile(r, i) ==
    /\ outcome[r][i] = "open"
    /\ Set(r, i, "reconciled")
    /\ UNCHANGED done

Next == \E r \in Resources, i \in Ids :
            \/ Accept(r, i)
            \/ \E e \in Effects : Run(r, i, e)
            \/ Apply(r, i)
            \/ Reconcile(r, i)

Spec == Init /\ [][Next]_<<outcome, done>>
=============================================================================
