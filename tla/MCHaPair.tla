------------------------------ MODULE MCHaPair ------------------------------
(* An instance of HaPair for TLC.  Any function of the key will do for     *)
(* ffn_ha_hash; this one separates keys that differ in one field.          *)
EXTENDS HaPair
MCHash(k) == k.iplo + 3 * k.iphi + 5 * k.portlo + 8 * k.porthi
=============================================================================
