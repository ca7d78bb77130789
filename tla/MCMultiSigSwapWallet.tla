------------------------- MODULE MCMultiSigSwapWallet -------------------------
(* A small instance of MultiSigSwapWallet for TLC. *)
EXTENDS MultiSigSwapWallet

CONSTANTS a1, a2, a3, t1, eth, c1, c2

\* Payments of one unit of ether or of a token, and every function that only
\* the wallet can call, with arguments that can and that cannot be carried out
\* depending on what was executed before.
SomeCalls ==
       [op : {"pay"}, asset : {eth, t1}, amount : {1}]
  \union [op : {"pauseSwaps", "unPauseSwaps"}]
  \union {[op |-> "addOwner", owner |-> a3],
          [op |-> "removeOwner", owner |-> a2],
          [op |-> "replaceOwner", owner |-> a1, newOwner |-> a3],
          [op |-> "changeRequirement", required |-> 3],
          [op |-> "replaceFeeCollector", collector |-> c2]}

TwoOwners == <<a1, a2>>
=============================================================================
