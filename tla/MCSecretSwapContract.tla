------------------------- MODULE MCSecretSwapContract -------------------------
(* A small instance of SecretSwapContract for TLC. *)
EXTENDS SecretSwapContract

CONSTANTS alice, bob

\* alice is listed twice: init keeps two of the three units it counts.
ListedTwice == <<<<alice, 1>>, <<alice, 2>>>>
AliceToBob == {<<alice, bob>>}
=============================================================================
