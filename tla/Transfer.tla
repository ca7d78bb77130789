------------------------------- MODULE Transfer -------------------------------
(***************************************************************************)
(* What the bridge promises of the transfers in one direction, whichever   *)
(* chain they start on: a value moves on the second chain only if it was   *)
(* given up on the first, a transfer is reported CONFIRMED only if its     *)
(* value has moved, and nobody works on a confirmed transfer again unless  *)
(* it is reported FAILED over that.                                        *)
(*                                                                         *)
(* EthToSecret and SecretToEth each implement this module.  Not promised,  *)
(* because the bridge does not keep it: that a value moves at most once    *)
(* (MintedOnce, EachPaidOnce), and that a transfer reported FAILED has not *)
(* been carried out, or will not be.                                       *)
(***************************************************************************)
CONSTANT Transfers

VARIABLES
  requested,  \* the value was given up on the first chain
  done,       \* it was paid out on the second chain
  stage       \* what the database says

Stages == {"unknown", "open", "confirmed", "failed"}

Init ==
  /\ requested \in SUBSET Transfers
  /\ done = {}
  /\ stage = [t \in Transfers |-> "unknown"]

Request(t) ==
  /\ requested' = requested \union {t}
  /\ UNCHANGED <<done, stage>>

\* On the second chain, known to the database or not.
CarryOut(t) ==
  /\ t \in requested
  /\ done' = done \union {t}
  /\ UNCHANGED <<requested, stage>>

Report(t, st) ==
  /\ t \in requested
  /\ stage' = [stage EXCEPT ![t] = st]
  /\ UNCHANGED <<requested, done>>

\* The bridge begins to work on the transfer, also again after a failure.
Open(t) == stage[t] \in {"unknown", "failed"} /\ Report(t, "open")

\* A failure may be reported at any time, also by a thread that is behind the
\* others, and be followed by the result.
Confirm(t) == stage[t] \in {"open", "failed"} /\ t \in done /\ Report(t, "confirmed")

Fail(t) == Report(t, "failed")

Next ==
  \E t \in Transfers : Request(t) \/ CarryOut(t) \/ Open(t) \/ Confirm(t) \/ Fail(t)

Spec == Init /\ [][Next]_<<requested, done, stage>>
=============================================================================
