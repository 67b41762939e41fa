----------------------------- MODULE MCPlaneRpc -----------------------------
(* Instances of PlaneRpc for TLC.                                          *)
EXTENDS PlaneRpc, TLC

CONSTANTS i1, i2, c1, c2, c3, net, fan

(* A single node; a relay and the owner of net; the same, with fan driven  *)
(* by the relaying node itself.                                            *)
LeafOwner  == net :> 0
ChainOwner == net :> 1
MixedOwner == net :> 1 @@ fan :> 0

(* Writes with and without a boot identity, a single write, and one write  *)
(* of each resource.                                                       *)
BootPayloads  == {[res |-> net, boot |-> b] : b \in 0..1}
OnePayload    == {[res |-> net, boot |-> 0]}
MixedPayloads == {[res |-> r, boot |-> 0] : r \in {net, fan}}

Symmetry == Permutations({i1, i2}) \cup Permutations({c1, c2, c3})
=============================================================================
