------------------------------ MODULE StateBus ------------------------------
(***************************************************************************)
(* The runtime state bus (opt/ffn_sysd.py): keys in memory, of which the   *)
(* cfg ones are persisted by a debounced snapshot, and events to           *)
(* subscribers.                                                            *)
(*                                                                         *)
(* One thread per client: a set changes the store under the lock, tells    *)
(* the subscribers and takes a snapshot after it has dropped the lock; the *)
(* snapshot's file is written without the lock too.  A write takes less    *)
(* than the debounce time, so that only the forced snapshot of stop meets  *)
(* one that is under way.  Keys: one persisted, one volatile.              *)
(***************************************************************************)
EXTENDS Naturals, FiniteSets

CONSTANTS
  Thread,
  MaxSets,       \* bound: changes; the n-th stores the value n
  MaxLosses      \* bound: failed writes, restarts

Persisted == {"cfg"}
Key == {"cfg", "run"}

VARIABLES store, dirty, recent,     \* the state; dirty; inside the debounce time
          thread,                   \* per thread: what it is about to do
          disk, heard,              \* the file; the last event about each key
          count, losses, spoiled    \* spoiled: a write failed since the last set
busVars == <<store, dirty, recent, thread, disk, heard, count, losses, spoiled>>

Waiting == [do |-> "wait", key |-> "none", value |-> 0]
Payload == [k \in Persisted |-> store[k]]
Now(t, what) == thread' = [thread EXCEPT ![t] = what]

BusInit ==
  /\ store = [k \in Key |-> 0] /\ dirty = FALSE /\ recent = FALSE /\ disk = [k \in Persisted |-> 0]
  /\ thread = [t \in Thread |-> Waiting] /\ heard = [k \in Key |-> 0] /\ count = 0 /\ losses = 0 /\ spoiled = FALSE

\* set or delete, under the lock; deleting is setting nothing, and a delete,
\* like a set that changes nothing, makes no event.
SetKey(t, k) ==
  /\ thread[t] = Waiting /\ count < MaxSets /\ count' = count + 1
  /\ store' = [store EXCEPT ![k] = count'] /\ dirty' = (dirty \/ k \in Persisted)
  /\ \/ Now(t, [do |-> "tell", key |-> k, value |-> count'])
     \/ Now(t, [Waiting EXCEPT !.do = "snapshot"])
  /\ spoiled' = (spoiled /\ k \notin Persisted)
  /\ UNCHANGED <<recent, disk, heard, losses>>
\* The subscribers hear of it, in whatever order the threads get there.
Tell(t) ==
  /\ thread[t].do = "tell" /\ heard' = [heard EXCEPT ![thread[t].key] = thread[t].value]
  /\ Now(t, [Waiting EXCEPT !.do = "snapshot"])
  /\ UNCHANGED <<store, dirty, recent, disk, count, losses, spoiled>>

\* snapshot, up to where it drops the lock; the accept loop takes one as well.
Takes(t) == thread[t].do = "snapshot" \/ (thread[t] = Waiting /\ dirty /\ ~recent)
TakeLeaving(t, flag) ==
  /\ Takes(t)
  /\ IF ~dirty \/ recent THEN Now(t, Waiting) /\ UNCHANGED <<dirty, recent>>
     ELSE /\ Now(t, [do |-> "write", key |-> "none", value |-> Payload]) /\ dirty' = flag /\ recent' = TRUE
  /\ UNCHANGED <<store, disk, heard, count, losses, spoiled>>
TakeSnapshot(t) == TakeLeaving(t, FALSE)
WriteFileThenClean(t) ==
  /\ thread[t].do = "write" /\ disk' = thread[t].value /\ Now(t, Waiting) /\ dirty' = FALSE
  /\ UNCHANGED <<store, recent, heard, count, losses, spoiled>>
\* The file is replaced; a failure is swallowed.
WriteFile(t) ==
  /\ thread[t].do = "write" /\ disk' = thread[t].value /\ Now(t, Waiting)
  /\ UNCHANGED <<store, dirty, recent, heard, count, losses, spoiled>>
WriteFails(t) ==
  /\ thread[t].do = "write" /\ losses < MaxLosses /\ losses' = losses + 1 /\ Now(t, Waiting) /\ spoiled' = TRUE
  /\ UNCHANGED <<store, dirty, recent, disk, heard, count>>

DebounceOver ==
  /\ recent /\ recent' = FALSE /\ \A t \in Thread : thread[t].do # "write"
  /\ UNCHANGED <<store, dirty, thread, disk, heard, count, losses, spoiled>>

\* stop takes a snapshot whatever the debounce says, and waits for nobody; a
\* crash does not.  The volatile keys are gone.
Loaded == [k \in Key |-> IF k \in Persisted THEN disk'[k] ELSE 0]
StopBus ==
  /\ losses < MaxLosses /\ losses' = losses + 1
  /\ disk' \in {Payload, disk} \cup {thread[t].value : t \in {u \in Thread : thread[u].do = "write"}}
  /\ store' = Loaded /\ thread' = [t \in Thread |-> Waiting] /\ heard' = store' /\ dirty' = FALSE /\ recent' = FALSE
  /\ UNCHANGED <<count, spoiled>>

BusClient(t) == Tell(t) \/ TakeSnapshot(t) \/ WriteFile(t)
BusNext ==
  \/ \E t \in Thread : BusClient(t) \/ WriteFails(t) \/ \E k \in Key : SetKey(t, k)
  \/ DebounceOver \/ StopBus

(* ------------------------------ properties ------------------------------ *)

\* A persisted key reaches the disk: once the sets stop, the file ends up with
\* the last value, also of a set that came while a snapshot was being written,
\* unless a write failed after it (the store takes itself for clean then).
DiskCatchesUp == <>[](spoiled \/ disk = Payload)
=============================================================================
