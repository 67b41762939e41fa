------------------------------ MODULE ConfigLock ------------------------------
(***************************************************************************)
(* The configuration lease of opt/ffn_config_lock.py: one row in a SQLite  *)
(* file, read and written in immediate transactions, that every process    *)
(* and every restart of one shares.  Each transaction first deletes a row  *)
(* that is older than the timeout by the wall clock.                       *)
(*                                                                         *)
(* Time.  The code only looks at now - acquired, so the row carries that   *)
(* difference as its age, in units of which Timeout make the lease time;   *)
(* an age saturates above Timeout.  The wall clock may be set back, which  *)
(* makes the age smaller, even negative.  It is never set forward: that    *)
(* ends a lease early, and the code accepts it.                            *)
(***************************************************************************)
EXTENDS Integers

CONSTANTS Users,     \* who may hold the lease
          Timeout,   \* the lease time
          MaxBack    \* bound on how far the clock is set back in total

NoOne == "no one"

ASSUME LockAssumption ==
    Timeout \in Nat \ {0} /\ MaxBack \in Nat /\ NoOne \notin Users

VARIABLES
    lease,   \* the row: its holder and its age, or Free
    gone,    \* the users who left and never come back
    back,    \* how far the clock may still be set back
    held,    \* history: how long the row has really existed
    op       \* history: the last operation and its caller

lockVars == <<lease, gone, back, held, op>>

-----------------------------------------------------------------------------
(* The row and what the operations make of it.                             *)

Free == [holder |-> NoOne, age |-> 0]

(* Mutant: the clock's distance from the row, in either direction.         *)
FarAway(row) == (IF row.age < 0 THEN -row.age ELSE row.age) > Timeout

(* Mutant: a lease never ends.                                             *)
NeverExpires(row) == FALSE

(* What every transaction deletes before it looks.                         *)
Expired(row) == row.age > Timeout
Seen(row) == IF row # Free /\ Expired(row) THEN Free ELSE row

(* acquire: the holder renews, another user is refused.                    *)
MayTake(row, u) == Seen(row).holder \in {NoOne, u}
Acquired(row, u) == IF MayTake(row, u) THEN [holder |-> u, age |-> 0] ELSE Seen(row)

(* release: the caller's row only.                                         *)
Released(row, u) == IF Seen(row).holder = u THEN Free ELSE Seen(row)

Aged(row) == IF row = Free \/ row.age > Timeout THEN row ELSE [row EXCEPT !.age = @ + 1]

-----------------------------------------------------------------------------
LockInit ==
    /\ lease = Free
    /\ gone = {}
    /\ back = MaxBack
    /\ held = 0
    /\ op = <<"none", NoOne>>

Write(row, name, u) ==
    /\ lease' = row
    /\ held' = IF row = Free \/ (name = "acquire" /\ row.holder = u) THEN 0 ELSE held
    /\ op' = <<name, u>>
    /\ UNCHANGED <<gone, back>>

(* status: a read that leaves the deletion behind.                         *)
Status(u) == Write(Seen(lease), "status", u)
Acquire(u) == Write(Acquired(lease, u), "acquire", u)
Release(u) == Write(Released(lease, u), "release", u)

(* override: an administrator deletes the row.                             *)
Override(u) == Write(Free, "override", u)

(* A user or the process that serves it is gone for good; its row stays.   *)
UserLeaves(u) ==
    /\ Users \ gone # {u}
    /\ gone' = gone \cup {u}
    /\ UNCHANGED <<lease, back, held, op>>

(* Time passes, and the clock shows it.                                    *)
ClockTicks ==
    /\ lease # Aged(lease)
    /\ lease' = Aged(lease)
    /\ held' = IF held <= Timeout THEN held + 1 ELSE held
    /\ op' = <<"none", NoOne>>
    /\ UNCHANGED <<gone, back>>

(* The clock is set back.                                                  *)
StepBack ==
    /\ lease # Free
    /\ \E d \in 1..back : /\ lease' = [lease EXCEPT !.age = @ - d]
                          /\ back' = back - d
    /\ op' = <<"none", NoOne>>
    /\ UNCHANGED <<gone, held>>

LockNext ==
    \/ \E u \in Users \ gone : \/ Status(u) \/ Acquire(u) \/ Release(u)
                               \/ Override(u) \/ UserLeaves(u)
    \/ ClockTicks
    \/ StepBack

LockSpec == LockInit /\ [][LockNext]_lockVars

(* Time passes, and whoever is still there keeps asking.                   *)
LockFairSpec ==
    /\ LockSpec
    /\ WF_lockVars(ClockTicks)
    /\ \A u \in Users : WF_lockVars(u \notin gone /\ Acquire(u))

-----------------------------------------------------------------------------
(* Properties.                                                             *)

LockTypeOK ==
    /\ lease = Free \/ (lease.holder \in Users /\ lease.age \in (-MaxBack)..(Timeout + 1))
    /\ gone \subseteq Users
    /\ back \in 0..MaxBack
    /\ held \in 0..(Timeout + 1)
    /\ op \in {"none", "status", "acquire", "release", "override"} \X (Users \cup {NoOne})

(* "Clock rollback must not prematurely release another editor's lock":    *)
(* within the lease time the row leaves its holder only by the holder's    *)
(* own release or by an administrator's override, whatever the clock does  *)
(* and whatever others ask.                                                *)
NoTheft ==
    [][lease # Free /\ held <= Timeout /\ lease'.holder # lease.holder
         => op' = <<"release", lease.holder>> \/ op'[1] = "override"]_lockVars

(* transaction's deletion: a holder that is gone does not keep the         *)
(* configuration locked, and another user gets the lease.                  *)
NotLockedOut ==
    \A u \in Users : lease.holder = u /\ u \in gone ~> lease.holder # u
=============================================================================
