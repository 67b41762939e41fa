------------------------------- MODULE DpQueue -------------------------------
(* What a ring of the dataplane's shared region promises to the two planes *)
(* (dataplanes/ffn_dp_abi.h): a bounded queue.  Nothing is lost, repeated, *)
(* reordered or made up.                                                   *)
EXTENDS Naturals, Sequences

CONSTANTS Items, Slots

VARIABLES queue,  \* what was pushed and not yet popped, oldest first
          out     \* what the last pop returned, or <<>>

Init == queue = <<>> /\ out = <<>>

Push(v) ==
    /\ Len(queue) < Slots
    /\ queue' = Append(queue, v)
    /\ UNCHANGED out

Pop ==
    /\ queue # <<>>
    /\ out' = <<Head(queue)>>
    /\ queue' = Tail(queue)

Next == (\E v \in Items : Push(v)) \/ Pop

Spec == Init /\ [][Next]_<<queue, out>>
=============================================================================
