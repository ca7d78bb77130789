------------------------------ MODULE BridgeToken ------------------------------
(***************************************************************************)
(* The SNIP-20 token that stands for an asset of Ethereum on the Secret    *)
(* network.  A message is handled in one transaction: when the handler or  *)
(* a message it sends returns an error, nothing of it remains.  So a       *)
(* failing call is no step here, and a handler that calls another contract *)
(* is one step with what that contract does (SecretSwapContract).          *)
(*                                                                         *)
(* Left out: viewing keys, the name and symbol, and the transfer history,  *)
(* which only queries read.  An Option is a set of at most one element.    *)
(***************************************************************************)
EXTENDS Integers, FiniteSetsExt, SequencesExt, Sums

CONSTANTS
  Users,           \* the accounts that send messages themselves
  Contracts,       \* the contracts that hold funds
  Amounts,         \* the amounts of messages
  MaxUint,         \* the largest u128
  InitialBalances, \* InitMsg.initial_balances: pairs of an account and an amount
  InitialAdmin,    \* InitMsg.admin
  Pairs,           \* bound: the pairs (owner, spender) with an allowance
  MaxTime,         \* bound: block times
  Expirations,     \* bound: the times at which allowances are said to expire
  MaxChanges       \* bound: increases of allowances, and messages of the admin of the token
                   \* and of the owner of the swap contract

Accounts == Users \union Contracts
Levels == {"NormalRun", "Stopped"}   \* handle takes StopAllButRedeems for StopAll
Options(S) == {{}} \union {{x} : x \in S}

InitialSum == FoldLeft(LAMBDA sum, b : sum + b[2], 0, InitialBalances)

\* A repeated address keeps its last balance, but every entry is counted.
InitialFunds == FoldLeft(LAMBDA set, b : [set EXCEPT ![b[1]] = b[2]],
                         [a \in Accounts |-> 0], InitialBalances)

ASSUME TokenAssumption ==
  /\ IsFiniteSet(Users) /\ IsFiniteSet(Contracts)
  /\ Users \intersect Contracts = {}
  /\ Expirations \subseteq Nat
  /\ MaxUint \in Nat /\ MaxTime \in Nat /\ MaxChanges \in Nat
  /\ Amounts \subseteq 0..MaxUint
  /\ InitialBalances \in Seq(Accounts \X (0..MaxUint))
  /\ InitialAdmin \in Users
  /\ Pairs \subseteq Users \X Users

\* Otherwise init returns an error and there is no contract.
ASSUME InstantiatedAssumption ==
  /\ InitialSum \in 0..MaxUint
  /\ InitialFunds \in [Accounts -> 0..MaxUint]

VARIABLES
  balances, totalSupply,
  allowances,      \* for each pair: the amount and the optional time it expires
  minters, admin, contractStatus,
  receivers,       \* the contracts that registered a code hash for Receive
  blockTime,       \* external: env.block.time
  granted, spent,  \* history: what an owner has ever granted to a spender, and what was spent of it
  revoked,         \* history: the pairs whose owner ever took some of it back
  changesLeft

funds      == <<balances, totalSupply>>
grants     == <<allowances, granted, spent, revoked>>
tokenAdmin == <<minters, admin, contractStatus>>
tokenVars  == <<funds, grants, tokenAdmin, receivers, blockTime, changesLeft>>

TokenTypeOK ==
  /\ balances \in [Accounts -> 0..MaxUint]
  /\ totalSupply \in 0..MaxUint
  /\ allowances \in [Pairs -> [amount : 0..MaxUint, expiration : Options(Expirations)]]
  /\ granted \in [Pairs -> Nat] /\ spent \in [Pairs -> Nat]
  /\ revoked \subseteq Pairs
  /\ minters \subseteq Accounts
  /\ admin \in Users
  /\ contractStatus \in Levels
  /\ receivers \subseteq Contracts
  /\ blockTime \in 0..MaxTime
  /\ changesLeft \in 0..MaxChanges

\* `registered` are the receivers that contracts register at once.
TokenInit(registered) ==
  /\ balances = InitialFunds
  /\ totalSupply = InitialSum
  /\ allowances = [p \in Pairs |-> [amount |-> 0, expiration |-> {}]]
  /\ granted = [p \in Pairs |-> 0] /\ spent = granted /\ revoked = {}
  /\ admin = InitialAdmin
  /\ minters = {InitialAdmin}
  /\ contractStatus = "NormalRun"
  /\ receivers = registered
  /\ blockTime = 0
  /\ changesLeft = MaxChanges

-----------------------------------------------------------------------------
\* What the handlers do to the balances, and when they can.

\* A stopped contract takes no message but SetContractStatus.
Running == contractStatus = "NormalRun"

MovedFromStale(balance, from, to, amount) ==
  [balance EXCEPT ![from] = @ - amount, ![to] = balance[to] + amount]

\* The recipient's balance is read after the sender's has been written.
Moved(balance, from, to, amount) ==
  LET paid == [balance EXCEPT ![from] = @ - amount] IN [paid EXCEPT ![to] = @ + amount]

CanMove(balance, from, to, amount) ==
  /\ balance[from] >= amount
  /\ Moved(balance, from, to, amount)[to] <= MaxUint

CanBurn(balance, from, amount) ==
  /\ balance[from] >= amount
  /\ totalSupply >= amount

Burnt(balance, from, amount) == [balance EXCEPT ![from] = @ - amount]

CanMintUnchecked(minter, to, amount) == minter \in minters

CanMint(minter, to, amount) ==
  /\ minter \in minters
  /\ totalSupply + amount <= MaxUint
  /\ balances[to] + amount <= MaxUint

CanSpend(o, s, amount) ==
  /\ <<o, s>> \in Pairs
  /\ \A e \in allowances[<<o, s>>].expiration : e >= blockTime
  /\ allowances[<<o, s>>].amount >= amount

SpendAllowance(o, s, amount) ==
  /\ allowances' = [allowances EXCEPT ![<<o, s>>] =
       [amount |-> @.amount - amount, expiration |-> @.expiration]]
  /\ spent' = [spent EXCEPT ![<<o, s>>] = @ + amount]
  /\ UNCHANGED <<granted, revoked>>

-----------------------------------------------------------------------------
\* The messages of users.

Transfer(u, r, amount) ==
  /\ Running
  /\ CanMove(balances, u, r, amount)
  /\ balances' = Moved(balances, u, r, amount)
  /\ UNCHANGED <<totalSupply, grants, tokenAdmin, receivers, blockTime, changesLeft>>

\* A recipient that never registered is not called, and the funds are its own.
Send(u, r, amount) ==
  /\ r \notin receivers
  /\ Transfer(u, r, amount)

TransferFrom(s, o, r, amount) ==
  /\ Running
  /\ CanSpend(o, s, amount)
  /\ CanMove(balances, o, r, amount)
  /\ SpendAllowance(o, s, amount)
  /\ balances' = Moved(balances, o, r, amount)
  /\ UNCHANGED <<totalSupply, tokenAdmin, receivers, blockTime, changesLeft>>

SendFrom(s, o, r, amount) ==
  /\ r \notin receivers
  /\ TransferFrom(s, o, r, amount)

Renewed(allowance, expiration) ==
  IF expiration = {} THEN allowance.expiration ELSE expiration

WrappingAdd(x, y) == (x + y) % (MaxUint + 1)

SaturatingAdd(x, y) == Min({x + y, MaxUint})
SaturatingSub(x, y) == Max({x - y, 0})

\* What is left of an expired allowance counts again under the new expiration:
\* the zeroing of try_transfer_from_impl is undone with the error it returns.
IncreaseAllowance(o, s, amount, expiration) ==
  /\ Running
  /\ changesLeft > 0
  /\ changesLeft' = changesLeft - 1
  /\ allowances' = [allowances EXCEPT ![<<o, s>>] =
       [amount |-> SaturatingAdd(@.amount, amount), expiration |-> Renewed(@, expiration)]]
  /\ granted' = [granted EXCEPT ![<<o, s>>] = @ + amount]
  /\ UNCHANGED <<spent, revoked, funds, tokenAdmin, receivers, blockTime>>

DecreaseAllowance(o, s, amount, expiration) ==
  /\ Running
  /\ allowances' = [allowances EXCEPT ![<<o, s>>] =
       [amount |-> SaturatingSub(@.amount, amount), expiration |-> Renewed(@, expiration)]]
  /\ revoked' = revoked \union {<<o, s>>}
  /\ UNCHANGED <<granted, spent, funds, tokenAdmin, receivers, blockTime, changesLeft>>

Burn(u, amount) ==
  /\ Running
  /\ CanBurn(balances, u, amount)
  /\ balances' = Burnt(balances, u, amount)
  /\ totalSupply' = totalSupply - amount
  /\ UNCHANGED <<grants, tokenAdmin, receivers, blockTime, changesLeft>>

\* The mint of the contract or of a user, wherever the message comes from.
DoMint(minter, to, amount) ==
  /\ Running
  /\ CanMint(minter, to, amount)
  /\ totalSupply' = totalSupply + amount
  /\ balances' = [balances EXCEPT ![to] = @ + amount]

Mint(u, to, amount) ==
  /\ DoMint(u, to, amount)
  /\ UNCHANGED <<grants, tokenAdmin, receivers, blockTime, changesLeft>>

-----------------------------------------------------------------------------
\* The messages of the admin.

AsAdmin(u) ==
  /\ u = admin
  /\ changesLeft > 0
  /\ changesLeft' = changesLeft - 1
  /\ UNCHANGED <<funds, grants, receivers, blockTime>>

ChangeAdmin(u, address) ==
  /\ Running
  /\ AsAdmin(u)
  /\ admin' = address
  /\ UNCHANGED <<minters, contractStatus>>

SetContractStatus(u, level) ==
  /\ AsAdmin(u)
  /\ contractStatus' = level
  /\ UNCHANGED <<minters, admin>>

AddMinters(u, new) ==
  /\ Running
  /\ AsAdmin(u)
  /\ minters' = minters \union new
  /\ UNCHANGED <<admin, contractStatus>>

RemoveMinters(u, old) ==
  /\ Running
  /\ AsAdmin(u)
  /\ minters' = minters \ old
  /\ UNCHANGED <<admin, contractStatus>>

SetMinters(u, new) ==
  /\ Running
  /\ AsAdmin(u)
  /\ minters' = new
  /\ UNCHANGED <<admin, contractStatus>>

\* External: the next block.
NextBlock ==
  /\ blockTime < MaxTime
  /\ blockTime' = blockTime + 1
  /\ UNCHANGED <<funds, grants, tokenAdmin, receivers, changesLeft>>

AdminMessage(u) ==
  \/ \E v \in Users : ChangeAdmin(u, v)
  \/ \E level \in Levels : SetContractStatus(u, level)
  \/ \E a \in Accounts : AddMinters(u, {a}) \/ RemoveMinters(u, {a}) \/ SetMinters(u, {a})

UserMessage(u) ==
  \/ \E r \in Accounts, amount \in Amounts :
       \/ Transfer(u, r, amount)
       \/ Send(u, r, amount)
       \/ Mint(u, r, amount)
       \/ \E o \in Users : TransferFrom(u, o, r, amount) \/ SendFrom(u, o, r, amount)
  \/ \E amount \in Amounts : Burn(u, amount)
  \/ \E s \in Users, amount \in Amounts, expiration \in Options(Expirations) :
       /\ <<u, s>> \in Pairs
       /\ IncreaseAllowance(u, s, amount, expiration) \/ DecreaseAllowance(u, s, amount, expiration)

TokenNext == NextBlock \/ \E u \in Users : UserMessage(u) \/ AdminMessage(u)

-----------------------------------------------------------------------------
\* Properties.

\* `the account's funds are a subset of the total supply` (contract.rs:268):
\* whatever moves, is minted and burned, the supply is the sum of the balances
\* and of what init counted for an address that it set again.
Overcounted == InitialSum - Total(InitialFunds, Accounts)
SupplyIsBalances == totalSupply = Total(balances, Accounts) + Overcounted

\* A spender can take no more than the owner has ever granted and, unless the
\* owner took some of it back, no less, up to the largest u128: through
\* increases that saturate, decreases below zero, and allowances that expire,
\* are refused and are renewed.
SpentWithinGrants ==
  \A p \in Pairs :
    /\ spent[p] + allowances[p].amount <= granted[p]
    /\ p \in revoked \/ Min({granted[p], MaxUint}) <= spent[p] + allowances[p].amount
=============================================================================
