----------------------------- MODULE MCSecretToEth -----------------------------
(* Small instances of SecretToEth for TLC. *)
EXTENDS SecretToEth

CONSTANTS a1, a2, eth, t1, c1

TwoOwners == <<a1, a2>>

Pay(amount) == [op |-> "pay", asset |-> eth, amount |-> amount]
Pause == [op |-> "pauseSwaps"]
PayoutCalls == {Pay(1), Pay(2), Pause}

\* The amounts burned: less than the fee, then two of two units.
ThreeSwaps == <<1, 2, 2>>
OneSwap == <<2>>
LowSwap == <<1, 2>>
TwoSwaps == <<2, 2>>

Submit(call, nonce, token, fee) == [call |-> call, nonce |-> nonce, token |-> token, fee |-> fee]

\* An owner submits a wrong amount for a burn, the right one with another
\* fee, or a call of the wallet itself, for the burn or for another token.
WrongAmount == Submit(Pay(2), 1, eth, 1)
OtherFee == Submit(Pay(2), 1, eth, 0)
PauseSwapsByHand == Submit(Pause, 1, t1, 0)
PauseForBurn == Submit(Pause, 1, eth, 0)
SomeProposals == {WrongAmount, OtherFee, PauseSwapsByHand, PauseForBurn}
OnePause == {PauseSwapsByHand}
=============================================================================
