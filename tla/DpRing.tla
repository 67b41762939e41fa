------------------------------- MODULE DpRing -------------------------------
(***************************************************************************)
(* One descriptor ring of the region that the management plane and the     *)
(* dataplane share: ffn_dp_ring_push and ffn_dp_ring_pop of                *)
(* dataplanes/ffn_dp_abi.h, and their twins push and pop_event of          *)
(* opt/ffn_dpring.py.  One plane produces and the other consumes; there is *)
(* no lock, only two free-running counters that wrap at Modulus (2^32) and *)
(* index a ring of Slots (64) descriptors.                                 *)
(*                                                                         *)
(* The two planes are different processors, so every access to the region  *)
(* is a step.  A descriptor is written by several stores: until the last   *)
(* it is Torn.  st_le32 stores a counter byte by byte, the lowest first.   *)
(* Where a compiler does not merge the bytes into one store the other      *)
(* plane can load a counter that is half stored.  Two digits to the base   *)
(* Radix stand for the four bytes; Radix = Modulus is the single store.    *)
(* Stores are taken to reach the other plane in program order, which no    *)
(* barrier in the code says, and a load is one step.                       *)
(***************************************************************************)
EXTENDS Naturals, Sequences

CONSTANTS Items,     \* what a descriptor can say
          Torn,      \* a descriptor that is being written
          Slots,     \* FFN_DP_RING_DESCS
          Radix,     \* the values of what one store writes of a counter
          Modulus    \* the values of a counter

ASSUME RingAssumption ==
    /\ Slots \in Nat \ {0} /\ Radix \in Nat \ {0} /\ Modulus \in Nat
    /\ Modulus > Slots
    /\ Modulus % Slots = 0 /\ Modulus % Radix = 0
    /\ Torn \notin Items

VARIABLES
    head, tail,  \* the counters
    desc,        \* the descriptors
    prod,        \* the producer's push: its step, its item and the head it read
    cons,        \* the consumer's pop: its step, its item and the tail it read
    published,     \* history: what was published and not yet released
    out          \* history: what the last pop returned

ringVars == <<head, tail, desc, prod, cons, published, out>>

Counter == 0..Modulus - 1

Succ(n) == (n + 1) % Modulus

(* st_le32 of the successor after its first store.                         *)
Stored(n) == (n - (n % Radix)) + (Succ(n) % Radix)

Distance(h, t) == (h + Modulus - t) % Modulus
AtStart == [step |-> "idle", item |-> Torn, at |-> 0]

RingInit ==
    /\ head = 0 /\ tail = 0
    /\ desc = [i \in 0..Slots - 1 |-> Torn]
    /\ prod = AtStart /\ cons = AtStart
    /\ published = <<>> /\ out = <<>>

-----------------------------------------------------------------------------
(* ffn_dp_ring_push.                                                       *)

(* Mutant: one descriptor too many.                                        *)
FullLate(h, t) == Distance(h, t) > Slots
Full(h, t) == Distance(h, t) >= Slots

(* The ring looks full: the caller is told.                                *)
PushRefused ==
    /\ prod.step = "idle"
    /\ Full(head, tail)
    /\ UNCHANGED ringVars

PushBegin(v) ==
    /\ prod.step = "idle"
    /\ ~Full(head, tail)
    /\ prod' = [step |-> "write", item |-> v, at |-> head]
    /\ UNCHANGED <<head, tail, desc, cons, published, out>>

(* The first and the last store to the descriptor.                         *)
PushWrite ==
    /\ prod.step \in {"write", "fill"}
    /\ desc' = [desc EXCEPT ![prod.at % Slots] =
                  IF prod.step = "write" THEN Torn ELSE prod.item]
    /\ prod' = [prod EXCEPT !.step = IF @ = "write" THEN "fill" ELSE "publish"]
    /\ UNCHANGED <<head, tail, cons, published, out>>

(* ffn_dp_ring_set_head: the lowest byte, and the others.                  *)
PushPublish ==
    /\ prod.step = "publish"
    /\ head' = Stored(prod.at)
    /\ prod' = [prod EXCEPT !.step = "settle"]
    /\ published' = Append(published, prod.item)
    /\ UNCHANGED <<tail, desc, cons, out>>

PushSettle ==
    /\ prod.step = "settle"
    /\ head' = Succ(prod.at)
    /\ prod' = [prod EXCEPT !.step = "idle"]
    /\ UNCHANGED <<tail, desc, cons, published, out>>

-----------------------------------------------------------------------------
(* ffn_dp_ring_pop.                                                        *)

Empty(h, t) == h = t

PopBegin ==
    /\ cons.step = "idle"
    /\ ~Empty(head, tail)
    /\ cons' = [step |-> "read", item |-> Torn, at |-> tail]
    /\ UNCHANGED <<head, tail, desc, prod, published, out>>

PopRead ==
    /\ cons.step = "read"
    /\ cons' = [cons EXCEPT !.step = "release", !.item = desc[cons.at % Slots]]
    /\ UNCHANGED <<head, tail, desc, prod, published, out>>

(* ffn_dp_ring_set_tail; the item is the caller's.                         *)
PopRelease ==
    /\ cons.step = "release"
    /\ tail' = Stored(cons.at)
    /\ cons' = [cons EXCEPT !.step = "settle", !.item = Torn]
    /\ out' = <<cons.item>>
    /\ published' = IF published = <<>> THEN <<>> ELSE Tail(published)
    /\ UNCHANGED <<head, desc, prod>>

PopSettle ==
    /\ cons.step = "settle"
    /\ tail' = Succ(cons.at)
    /\ cons' = [cons EXCEPT !.step = "idle"]
    /\ UNCHANGED <<head, desc, prod, published, out>>

-----------------------------------------------------------------------------
Consumer == PopBegin \/ PopRead \/ PopRelease \/ PopSettle
Producer == \/ PushRefused
            \/ \E v \in Items : PushBegin(v)
            \/ PushWrite \/ PushPublish \/ PushSettle

RingNext == Producer \/ Consumer

RingSpec == RingInit /\ [][RingNext]_ringVars

(* The consumer polls: dp_poll_once drains its ring on every round.        *)
RingFairSpec == RingSpec /\ WF_ringVars(Consumer)

-----------------------------------------------------------------------------
(* Properties.                                                             *)

(* The ring is a bounded queue, across the wrap of the counters and of the *)
(* indices and however the two planes interleave.                          *)
Fifo == INSTANCE DpQueue WITH queue <- published
IsQueue == Fifo!Spec

(* ffn_dpring: "Rings are single-producer/single-consumer with monotonic   *)
(* 32-bit head/tail ... That is why no locking appears here": a pop only   *)
(* ever works on a descriptor that was pushed and not popped yet.          *)
OnlyPublished == cons.step \in {"read", "release"} => published # <<>>
=============================================================================
