---------------------------- MODULE MCEthToSecret ----------------------------
(* Small instances of EthToSecret for TLC. *)
EXTENDS EthToSecret

CONSTANTS s1, s2
=============================================================================
