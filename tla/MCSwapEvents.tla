----------------------------- MODULE MCSwapEvents -----------------------------
(* Small instances of SwapEvents for TLC. *)
EXTENDS SwapEvents

Entry(tx, kind) == [tx |-> tx, kind |-> kind]

\* A block without deposits, with one of each kind, with two of different
\* transactions, and with two of the same one.
SomeLogs ==
  {<<>>} \union {<<Entry(1, kind)>> : kind \in Kinds}
         \union {<<Entry(1, "token"), Entry(tx, "ether")>> : tx \in {1, 2}}
EtherOnly == {<<>>, <<Entry(1, "ether")>>}
=============================================================================
