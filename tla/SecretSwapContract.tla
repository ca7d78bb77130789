-------------------------- MODULE SecretSwapContract --------------------------
(***************************************************************************)
(* The swap contract of the Secret network and one bridge token, Token:    *)
(* a user sends tokens to the contract, which records the swap and burns   *)
(* them; the bridge has the contract mint.  Each of these is a chain of    *)
(* messages between the two contracts in one transaction.  The other       *)
(* members of Tokens are token contracts that are not modelled: they call  *)
(* Receive like Token, and take the contract's Burn.                       *)
(*                                                                         *)
(* Left out: the destination's address, whose validation only lets a call  *)
(* fail, and Mint.store, which nothing calls (contract.rs:121-126).        *)
(***************************************************************************)
EXTENDS BridgeToken

CONSTANTS
  SwapContract,
  InitialOwner,    \* InitMsg.owner
  Token, Tokens,
  MintFields,      \* the fields that Token's Mint message must have (see the README)
  MaxSwaps         \* bound: swaps of all tokens

ASSUME SwapContractAssumption ==
  /\ SwapContract \in Contracts
  /\ InitialOwner \in Users
  /\ Token \in Tokens
  /\ MaxSwaps \in Nat

VARIABLES
  owner, paused,
  whitelist,       \* TokenWhiteList: each token's minimum amount, if it is listed
  swaps            \* the append store of each token

swapVars == <<owner, paused, whitelist, swaps>>
contractVars == <<tokenVars, swapVars>>

Swap == [source : Users, amount : 0..MaxUint, nonce : Nat]

ContractsTypeOK ==
  /\ TokenTypeOK
  /\ owner \in Users
  /\ paused \in BOOLEAN
  /\ whitelist \in [Tokens -> Options(Amounts)]
  /\ swaps \in [Tokens -> Seq(Swap)]

\* InitMsg may list a token, which has the contract registered as a receiver.
ContractsInit ==
  /\ \E minimum \in Options(Amounts) :
       /\ TokenInit(IF minimum = {} THEN {} ELSE {SwapContract})
       /\ whitelist = [t \in Tokens |-> IF t = Token THEN minimum ELSE {}]
  /\ owner = InitialOwner
  /\ paused = FALSE
  /\ swaps = [t \in Tokens |-> <<>>]

-----------------------------------------------------------------------------
IsListed(token) == whitelist[token] # {}

NumSwaps == MapThenSumSet(LAMBDA t : Len(swaps[t]), Tokens)

StoredGlobally(token, source, amount) ==
  [swaps EXCEPT ![token] = Append(@, [source |-> source, amount |-> amount, nonce |-> NumSwaps])]

\* Receive and store: the nonce is the length of the token's store.
Stored(token, source, amount) ==
  [swaps EXCEPT ![token] = Append(@, [source |-> source, amount |-> amount, nonce |-> Len(@)])]

Receive(token, from, amount) ==
  /\ ~paused
  /\ \E minimum \in whitelist[token] : amount >= minimum
  /\ NumSwaps < MaxSwaps
  /\ swaps' = Stored(token, from, amount)
  /\ UNCHANGED <<owner, paused, whitelist>>

\* The Burn that Receive sends, after `from` has paid the contract.
BurnReceived(from, amount) ==
  LET paid == Moved(balances, from, SwapContract, amount) IN
    /\ CanMove(balances, from, SwapContract, amount)
    /\ CanBurn(paid, SwapContract, amount)
    /\ balances' = Burnt(paid, SwapContract, amount)
    /\ totalSupply' = totalSupply - amount

SendToSwap(u, amount) ==
  /\ Running
  /\ SwapContract \in receivers
  /\ Receive(Token, u, amount)
  /\ BurnReceived(u, amount)
  /\ UNCHANGED <<grants, tokenAdmin, receivers, blockTime, changesLeft>>

SendFromRecordsSpender(s, o, amount) ==
  /\ Running
  /\ SwapContract \in receivers
  /\ CanSpend(o, s, amount)
  /\ SpendAllowance(o, s, amount)
  /\ Receive(Token, s, amount)
  /\ BurnReceived(o, amount)
  /\ UNCHANGED <<tokenAdmin, receivers, blockTime, changesLeft>>

SendFromToSwap(s, o, amount) ==
  /\ Running
  /\ SwapContract \in receivers
  /\ CanSpend(o, s, amount)
  /\ SpendAllowance(o, s, amount)
  /\ Receive(Token, o, amount)
  /\ BurnReceived(o, amount)
  /\ UNCHANGED <<tokenAdmin, receivers, blockTime, changesLeft>>

\* Receive from a listed token contract that is not modelled.
ReceiveOther(token, from, amount) ==
  /\ token # Token
  /\ Receive(token, from, amount)
  /\ UNCHANGED tokenVars

\* TokenMsgs::Mint; `padding` is optional on both sides.
MintMessage == {"amount", "address", "padding"}
Understood == MintFields \subseteq MintMessage

MintPastStatus(to, amount) ==
  /\ ~paused
  /\ IsListed(Token)
  /\ Understood
  /\ CanMint(SwapContract, to, amount)
  /\ totalSupply' = totalSupply + amount
  /\ balances' = [balances EXCEPT ![to] = @ + amount]
  /\ UNCHANGED <<grants, tokenAdmin, receivers, blockTime, changesLeft, swapVars>>

\* mint_token: the handler reads neither the sender nor the identifier.
MintFromExtChain(to, amount) ==
  /\ ~paused
  /\ IsListed(Token)
  /\ Understood
  /\ DoMint(SwapContract, to, amount)
  /\ UNCHANGED <<grants, tokenAdmin, receivers, blockTime, changesLeft, swapVars>>

-----------------------------------------------------------------------------
\* The messages of the owner.

AsOwner(u) ==
  /\ u = owner
  /\ changesLeft > 0
  /\ changesLeft' = changesLeft - 1
  /\ UNCHANGED <<funds, grants, tokenAdmin, blockTime, swaps>>

PauseSwap(u) ==
  /\ AsOwner(u)
  /\ paused' = TRUE
  /\ UNCHANGED <<owner, whitelist, receivers>>

UnpauseSwap(u) ==
  /\ AsOwner(u)
  /\ paused' = FALSE
  /\ UNCHANGED <<owner, whitelist, receivers>>

ChangeOwner(u, new) ==
  /\ AsOwner(u)
  /\ owner' = new
  /\ UNCHANGED <<paused, whitelist, receivers>>

\* A token that is listed keeps its minimum.
Listed(token, minimum) == [whitelist EXCEPT ![token] = IF @ = {} THEN {minimum} ELSE @]
Unlisted(token) == [whitelist EXCEPT ![token] = {}]

RegisterReceive ==
  /\ Running
  /\ receivers' = receivers \union {SwapContract}

\* RegisterReceive goes to the token in any case, and a stopped token refuses it.
AddToken(u, token, minimum) ==
  /\ AsOwner(u)
  /\ whitelist' = Listed(token, minimum)
  /\ IF token = Token THEN RegisterReceive ELSE UNCHANGED receivers
  /\ UNCHANGED <<owner, paused>>

RemoveTokenAndSwaps(u, token) ==
  /\ u = owner
  /\ changesLeft > 0
  /\ changesLeft' = changesLeft - 1
  /\ whitelist' = Unlisted(token)
  /\ swaps' = [swaps EXCEPT ![token] = <<>>]
  /\ UNCHANGED <<funds, grants, tokenAdmin, blockTime, owner, paused, receivers>>

\* The token's swaps stay, and so does the contract's registration.
RemoveToken(u, token) ==
  /\ AsOwner(u)
  /\ whitelist' = Unlisted(token)
  /\ UNCHANGED <<owner, paused, receivers>>

OwnerMessage(u) ==
  \/ PauseSwap(u)
  \/ UnpauseSwap(u)
  \/ \E v \in Users : ChangeOwner(u, v)
  \/ \E t \in Tokens : RemoveToken(u, t) \/ \E minimum \in Amounts : AddToken(u, t, minimum)

SwapMessage(u) ==
  \E amount \in Amounts :
    \/ SendToSwap(u, amount)
    \/ \E o \in Users : SendFromToSwap(u, o, amount)
    \/ \E t \in Tokens : ReceiveOther(t, u, amount)
    \/ \E to \in Accounts : MintFromExtChain(to, amount)

ContractsNext ==
  \/ TokenNext /\ UNCHANGED swapVars
  \/ \E u \in Users : OwnerMessage(u) \/ SwapMessage(u)

ContractsSpec == ContractsInit /\ [][ContractsNext]_contractVars

-----------------------------------------------------------------------------
\* Properties.

\* EtherLeader asks for the swap with nonce n of a token when it has handled
\* n - 1 (leader.py:88-97): the store is dense and the nonce is the position,
\* whatever is swapped of other tokens.
NonceIsPosition == \A t \in Tokens : \A i \in DOMAIN swaps[t] : swaps[t][i].nonce = i - 1

\* A recorded swap is never changed or lost, also when its token is removed
\* from the list and added again: the bridge may read it at any later time.
SwapsAreFinal == [][\A t \in Tokens : IsPrefix(swaps[t], swaps'[t])]_contractVars

\* Through the four messages of a swap, exactly the recorded amount leaves the
\* recorded source and the supply, and none of it stays with the contract.
SwapBurnsItsAmount ==
  [][Len(swaps'[Token]) > Len(swaps[Token]) =>
       LET swap == Last(swaps'[Token]) IN
         /\ totalSupply' = totalSupply - swap.amount
         /\ balances' = [balances EXCEPT ![swap.source] = @ - swap.amount]]_contractVars

\* A stopped token is frozen for every caller, the swap contract included:
\* no balance, allowance or minter changes, and no swap of it is recorded.
StoppedIsFrozen ==
  [][~Running => UNCHANGED <<funds, grants, minters, admin, swaps[Token]>>]_contractVars
=============================================================================
