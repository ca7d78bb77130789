-------------------------- MODULE MultiSigSwapWallet --------------------------
(***************************************************************************)
(* The Ethereum side of the bridge: the multi-signature wallet that holds  *)
(* the locked ether and ERC20 tokens (MultiSigSwapWallet.sol).             *)
(*                                                                         *)
(* One action per external function that changes state.  A call of the     *)
(* contract that reverts changes nothing, so it is no step at all: every   *)
(* require() on the way is a guard of the action.  What an owner submits   *)
(* (destination, value, data) is abstracted to the call it makes: a        *)
(* payment of ether or of a token, or one of the wallet's onlyWallet       *)
(* functions, which the wallet reaches by calling itself.  The address     *)
(* zero stands for ether where the code asks for a token.                  *)
(***************************************************************************)
EXTENDS Integers, Sequences, FiniteSets, FiniteSetsExt, Sums

CONSTANTS
  Accounts,         \* externally owned addresses that may be owners (none is the wallet)
  Tokens,           \* the ERC20 contracts
  Native,           \* address(0), which names ether in Transaction.token
  Collectors,       \* addresses that may collect fees
  Amounts,          \* amounts deposited by swap and swapToken
  Fees,             \* values of Transaction.fee
  Nonces,           \* values of Transaction.nonce
  Calls,            \* the calls (destination, value and data) that owners submit
  MAX_OWNER_COUNT,
  InitialOwners,    \* the constructor's arguments
  InitialRequired,
  InitialCollector,
  MaxTransactions,  \* bound: transactions ever submitted
  MaxDeposits,      \* bound: the total deposited of one asset
  MaxListed         \* bound: entries of tokens[]

Assets == Tokens \union {Native}
TxIds  == 0..(MaxTransactions - 1)
NoCall == [op |-> "none"]     \* a transaction that does not exist: destination 0

PayCalls == [op : {"pay"}, asset : Assets, amount : Nat]
WalletCalls ==
       [op : {"pauseSwaps", "unPauseSwaps"}]
  \union [op : {"addOwner", "removeOwner"}, owner : Accounts]
  \union [op : {"replaceOwner"}, owner : Accounts, newOwner : Accounts]
  \union [op : {"changeRequirement"}, required : Nat]
  \union [op : {"replaceFeeCollector"}, collector : Collectors]

ValidRequirement(ownerCount, req) ==
  /\ ownerCount <= MAX_OWNER_COUNT
  /\ req <= ownerCount
  /\ req # 0
  /\ ownerCount # 0

ASSUME BoundsAssumption ==
  /\ MaxTransactions \in Nat /\ MaxDeposits \in Nat /\ MaxListed \in Nat
  /\ MAX_OWNER_COUNT \in Nat

ASSUME DataAssumption ==
  /\ Native \notin Tokens
  /\ Amounts \subseteq Nat \ {0}
  /\ Fees \subseteq Nat
  /\ Nonces \subseteq Nat
  /\ \A c \in Calls : c \in PayCalls \/ c \in WalletCalls

ASSUME ConstructorAssumption ==
  /\ InitialOwners \in Seq(Accounts)
  /\ IsInjective(InitialOwners)
  /\ InitialRequired \in Nat
  /\ ValidRequirement(Len(InitialOwners), InitialRequired)
  /\ InitialCollector \in Collectors

VARIABLES
  transactions, confirmations, transactionCount, secretTxNonce,
  isOwner, owners, required, feeCollector, paused,
  tokens, tokenWhitelist,
  balance,      \* external: what the wallet holds of each asset
  deposited,    \* history: the total deposited of each asset
  withdrawals,  \* history: how often the call of each transaction succeeded
  feePayments   \* history: how often the fee of each transaction was collected

ledgerVars == <<transactions, confirmations, transactionCount, secretTxNonce>>
ownerVars  == <<isOwner, owners, required>>
tokenVars  == <<tokens, tokenWhitelist>>
moneyVars  == <<balance, deposited, withdrawals, feePayments>>
vars == <<ledgerVars, ownerVars, feeCollector, paused, tokenVars, moneyVars>>

NoTransaction ==
  [call |-> NoCall, executed |-> FALSE, nonce |-> 0, token |-> Native, fee |-> 0]

Transaction ==
  [call : Calls, executed : BOOLEAN, nonce : Nonces, token : Assets, fee : Fees]

TypeOK ==
  /\ transactions \in [TxIds -> Transaction \union {NoTransaction}]
  /\ confirmations \in [TxIds -> SUBSET Accounts]
  /\ transactionCount \in 0..MaxTransactions
  /\ secretTxNonce \in [Assets -> Nat]
  /\ isOwner \in [Accounts -> BOOLEAN]
  /\ owners \in Seq(Accounts)
  /\ required \in Nat
  /\ feeCollector \in Collectors
  /\ paused \in BOOLEAN
  /\ tokens \in Seq(Tokens)
  /\ tokenWhitelist \in [Tokens -> Nat]
  /\ balance \in [Assets -> Nat]
  /\ deposited \in [Assets -> Nat]
  /\ withdrawals \in [TxIds -> Nat]
  /\ feePayments \in [TxIds -> Nat]

Init ==
  /\ transactions = [id \in TxIds |-> NoTransaction]
  /\ confirmations = [id \in TxIds |-> {}]
  /\ transactionCount = 0
  /\ secretTxNonce = [t \in Assets |-> 0]
  /\ isOwner = [a \in Accounts |-> a \in Range(InitialOwners)]
  /\ owners = InitialOwners
  /\ required = InitialRequired
  /\ feeCollector = InitialCollector
  /\ paused = FALSE
  /\ tokens = << >>
  /\ tokenWhitelist = [t \in Tokens |-> 0]
  /\ balance = [t \in Assets |-> 0]
  /\ deposited = [t \in Assets |-> 0]
  /\ withdrawals = [id \in TxIds |-> 0]
  /\ feePayments = [id \in TxIds |-> 0]

-----------------------------------------------------------------------------
(* Helpers                                                                 *)

\* Mutant: the last element is popped without being moved.
SwapRemovePopOnly(s, x) == [i \in 1..(Len(s) - 1) |-> s[i]]

\* The loop of removeOwner and removeToken: the last element overwrites the
\* first match among all but the last, then the last is popped.
SwapRemove(s, x) ==
  [i \in 1..(Len(s) - 1) |->
     IF s[i] = x /\ \A j \in 1..(i - 1) : s[j] # x THEN s[Len(s)] ELSE s[i]]

\* The loop of replaceOwner.
ReplaceFirst(s, x, y) ==
  [i \in 1..Len(s) |-> IF s[i] = x /\ \A j \in 1..(i - 1) : s[j] # x THEN y ELSE s[i]]

ConfirmingPositions(confirmed) == {i \in 1..Len(owners) : owners[i] \in confirmed}

\* Mutant: a removed owner's confirmation still counts.
IsConfirmedByAnyone(confirmed) == Cardinality(confirmed) >= required

\* isConfirmed: the loop counts the confirmations of the present owners and
\* stops as soon as it has seen `required` of them.
IsConfirmed(confirmed) == Cardinality(ConfirmingPositions(confirmed)) >= required

\* Mutant: a nonce equal to the last one is accepted.
NotSubmittedNonStrict(t, nonce) == secretTxNonce[t] <= nonce

TransactionExists(id) == transactions[id].call # NoCall
NotExecuted(id)       == ~transactions[id].executed
NotSubmitted(t, nonce) == secretTxNonce[t] = 0 \/ secretTxNonce[t] < nonce

-----------------------------------------------------------------------------
(* The onlyWallet functions, reached through a transaction of the wallet   *)

PauseSwaps(on) == paused' = on /\ UNCHANGED <<ownerVars, feeCollector>>

ReplaceFeeCollector(collector) ==
  feeCollector' = collector /\ UNCHANGED <<ownerVars, paused>>

AddOwner(owner) ==
  /\ ~isOwner[owner]
  /\ ValidRequirement(Len(owners) + 1, required)
  /\ isOwner' = [isOwner EXCEPT ![owner] = TRUE]
  /\ owners' = Append(owners, owner)
  /\ UNCHANGED <<required, feeCollector, paused>>

\* Mutant: removal forgets to lower the threshold.
RemoveOwnerKeepRequired(owner) ==
  /\ isOwner[owner]
  /\ Len(owners) > 1
  /\ isOwner' = [isOwner EXCEPT ![owner] = FALSE]
  /\ owners' = SwapRemove(owners, owner)
  /\ UNCHANGED <<required, feeCollector, paused>>

\* When too few owners are left, changeRequirement lowers the threshold to
\* their number, and reverts the removal of the last owner.
RemoveOwner(owner) ==
  /\ isOwner[owner]
  /\ isOwner' = [isOwner EXCEPT ![owner] = FALSE]
  /\ owners' = SwapRemove(owners, owner)
  /\ \/ required <= Len(owners') /\ required' = required
     \/ /\ required > Len(owners')
        /\ ValidRequirement(Len(owners'), Len(owners'))
        /\ required' = Len(owners')
  /\ UNCHANGED <<feeCollector, paused>>

ReplaceOwner(owner, newOwner) ==
  /\ isOwner[owner]
  /\ ~isOwner[newOwner]
  /\ owners' = ReplaceFirst(owners, owner, newOwner)
  /\ isOwner' = [isOwner EXCEPT ![owner] = FALSE, ![newOwner] = TRUE]
  /\ UNCHANGED <<required, feeCollector, paused>>

ChangeRequirement(req) ==
  /\ ValidRequirement(Len(owners), req)
  /\ required' = req
  /\ UNCHANGED <<isOwner, owners, feeCollector, paused>>

SelfCall(call) ==
  \/ call.op = "pauseSwaps" /\ PauseSwaps(TRUE)
  \/ call.op = "unPauseSwaps" /\ PauseSwaps(FALSE)
  \/ call.op = "addOwner" /\ AddOwner(call.owner)
  \/ call.op = "removeOwner" /\ RemoveOwner(call.owner)
  \/ call.op = "replaceOwner" /\ ReplaceOwner(call.owner, call.newOwner)
  \/ call.op = "changeRequirement" /\ ChangeRequirement(call.required)
  \/ call.op = "replaceFeeCollector" /\ ReplaceFeeCollector(call.collector)

adminVars == <<ownerVars, feeCollector, paused>>

\* external_call succeeded: `funds` is the balance left by collectFee.
CallSucceeds(call, funds) ==
  \/ /\ call.op = "pay"
     /\ call.amount <= funds[call.asset]
     /\ balance' = [funds EXCEPT ![call.asset] = @ - call.amount]
     /\ UNCHANGED adminVars
  \/ SelfCall(call) /\ balance' = funds

-----------------------------------------------------------------------------
(* Executing a transaction                                                 *)

\* The fee goes first; if it cannot be paid the whole call of the wallet
\* reverts, the confirmation that led here included.
CollectFee(tx) == [balance EXCEPT ![tx.token] = @ - tx.fee]

Unconfirmed(id, txs, conf) ==
  /\ ~IsConfirmed(conf[id])
  /\ transactions' = txs
  /\ UNCHANGED <<moneyVars, adminVars>>

\* Mutant: the amount of a payment that fails is lost.
ExecuteLosesFailed(id, txs, conf) ==
  \/ Unconfirmed(id, txs, conf)
  \/ /\ IsConfirmed(conf[id])
     /\ txs[id].fee <= balance[txs[id].token]
     /\ CallSucceeds(txs[id].call, CollectFee(txs[id]))
     /\ transactions' = txs
     /\ UNCHANGED <<deposited, withdrawals, feePayments>>

\* Mutant: the fee is taken from funds the wallet does not have.
ExecuteUnfunded(id, txs, conf) ==
  \/ Unconfirmed(id, txs, conf)
  \/ /\ IsConfirmed(conf[id])
     /\ transactions' = txs
     /\ balance' = CollectFee(txs[id])
     /\ UNCHANGED <<deposited, withdrawals, feePayments, adminVars>>

\* executeTransaction on the ledger txs, called by an owner who has confirmed
\* id in conf.  The call itself may fail for lack of funds or gas, or because
\* the callee refuses: then the transaction can be executed again.
Execute(id, txs, conf) ==
  \/ Unconfirmed(id, txs, conf)
  \/ /\ IsConfirmed(conf[id])
     /\ txs[id].fee <= balance[txs[id].token]
     /\ UNCHANGED deposited
     /\ feePayments' = [feePayments EXCEPT ![id] = IF txs[id].fee > 0 THEN @ + 1 ELSE @]
     /\ \/ /\ CallSucceeds(txs[id].call, CollectFee(txs[id]))
           /\ transactions' = [txs EXCEPT ![id].executed = TRUE]
           /\ withdrawals' = [withdrawals EXCEPT ![id] = @ + 1]
        \/ /\ balance' = CollectFee(txs[id])
           /\ transactions' = txs
           /\ UNCHANGED <<withdrawals, adminVars>>

SubmitTransaction(sender, call, nonce, t, fee) ==
  /\ isOwner[sender]
  /\ NotSubmitted(t, nonce)
  /\ transactionCount < MaxTransactions
  /\ LET id == transactionCount
         tx == [call |-> call, executed |-> FALSE, nonce |-> nonce,
                token |-> t, fee |-> fee]
     IN  /\ transactionCount' = transactionCount + 1
         /\ secretTxNonce' = [secretTxNonce EXCEPT ![t] = nonce]
         /\ sender \notin confirmations[id]
         /\ confirmations' = [confirmations EXCEPT ![id] = @ \union {sender}]
         /\ Execute(id, [transactions EXCEPT ![id] = tx], confirmations')
  /\ UNCHANGED tokenVars

ConfirmTransaction(sender, id) ==
  /\ isOwner[sender]
  /\ TransactionExists(id)
  /\ sender \notin confirmations[id]
  /\ NotExecuted(id)     \* required by the executeTransaction it ends with
  /\ confirmations' = [confirmations EXCEPT ![id] = @ \union {sender}]
  /\ Execute(id, transactions, confirmations')
  /\ UNCHANGED <<transactionCount, secretTxNonce, tokenVars>>

\* Mutant: a confirmation can be revoked after the execution.
RevokeExecuted(sender, id) ==
  /\ isOwner[sender]
  /\ sender \in confirmations[id]
  /\ confirmations' = [confirmations EXCEPT ![id] = @ \ {sender}]
  /\ UNCHANGED <<transactions, transactionCount, secretTxNonce, adminVars,
                 tokenVars, moneyVars>>

RevokeConfirmation(sender, id) ==
  /\ isOwner[sender]
  /\ sender \in confirmations[id]
  /\ NotExecuted(id)
  /\ confirmations' = [confirmations EXCEPT ![id] = @ \ {sender}]
  /\ UNCHANGED <<transactions, transactionCount, secretTxNonce, adminVars,
                 tokenVars, moneyVars>>

\* Mutant: an executed transaction can be executed again.
ExecuteAgain(sender, id) ==
  /\ isOwner[sender]
  /\ sender \in confirmations[id]
  /\ Execute(id, transactions, confirmations)
  /\ UNCHANGED <<confirmations, transactionCount, secretTxNonce, tokenVars>>

ExecuteTransaction(sender, id) ==
  /\ isOwner[sender]
  /\ sender \in confirmations[id]
  /\ NotExecuted(id)
  /\ Execute(id, transactions, confirmations)
  /\ UNCHANGED <<confirmations, transactionCount, secretTxNonce, tokenVars>>

-----------------------------------------------------------------------------
(* Tokens and deposits                                                     *)

AddToken(sender, t, min) ==
  /\ isOwner[sender]
  /\ Len(tokens) < MaxListed
  /\ tokenWhitelist' = [tokenWhitelist EXCEPT ![t] = min]
  /\ tokens' = Append(tokens, t)
  /\ UNCHANGED <<ledgerVars, adminVars, moneyVars>>

\* The last entry is popped whether or not t was listed; on an empty list the
\* subtraction wraps around and pop() reverts.
RemoveToken(sender, t) ==
  /\ isOwner[sender]
  /\ tokens # << >>
  /\ tokenWhitelist' = [tokenWhitelist EXCEPT ![t] = 0]
  /\ tokens' = SwapRemove(tokens, t)
  /\ UNCHANGED <<ledgerVars, adminVars, moneyVars>>

Deposit(asset, amount) ==
  /\ deposited[asset] + amount <= MaxDeposits
  /\ deposited' = [deposited EXCEPT ![asset] = @ + amount]
  /\ balance' = [balance EXCEPT ![asset] = @ + amount]
  /\ UNCHANGED <<ledgerVars, adminVars, tokenVars, withdrawals, feePayments>>

\* The minimum of 0.001 ether is below every member of Amounts.
Swap(amount) == ~paused /\ Deposit(Native, amount)

SwapToken(t, amount) ==
  /\ ~paused
  /\ tokenWhitelist[t] > 0
  /\ amount >= tokenWhitelist[t]
  /\ Deposit(t, amount)

-----------------------------------------------------------------------------
Next ==
  \/ \E o \in Accounts, c \in Calls, n \in Nonces, t \in Assets, f \in Fees :
        SubmitTransaction(o, c, n, t, f)
  \/ \E o \in Accounts, id \in TxIds :
        \/ ConfirmTransaction(o, id)
        \/ RevokeConfirmation(o, id)
        \/ ExecuteTransaction(o, id)
  \/ \E o \in Accounts, t \in Tokens :
        \/ \E min \in Amounts \union {0} : AddToken(o, t, min)
        \/ RemoveToken(o, t)
  \/ \E amount \in Amounts :
        \/ Swap(amount)
        \/ \E t \in Tokens : SwapToken(t, amount)

Spec == Init /\ [][Next]_vars

-----------------------------------------------------------------------------
(* Properties                                                              *)

\* The list owners[] and the mapping isOwner, which addOwner, removeOwner and
\* replaceOwner update side by side, name the same accounts, each once: the
\* loop of isConfirmed counts over the list, the modifiers read the mapping.
OwnersConsistent ==
  /\ IsInjective(owners)
  /\ Range(owners) = {a \in Accounts : isOwner[a]}

\* Whatever owners the wallet adds, removes or replaces by its own
\* transactions, the threshold can be met by the owners that are left: the
\* wallet never locks its funds for good (validRequirement, removeOwner).
RequirementReachable ==
  /\ Len(owners) <= MAX_OWNER_COUNT
  /\ required \in 1..Len(owners)

\* The call of a transaction succeeds at most once, over any sequence of
\* submit, confirm, revoke, execute and failed attempts, and `executed` says
\* whether it did (executeTransaction sets it before the call, and resets it
\* when the call fails).
WithdrawnOnce ==
  \A id \in TxIds : withdrawals[id] = IF transactions[id].executed THEN 1 ELSE 0

\* Two transactions for the same token carry increasing nonces, unless the
\* earlier nonce is 0 (modifier notSubmitted): a swap of the Secret side whose
\* nonce is not 0 is submitted once.
NonceOrder ==
  \A i, j \in TxIds :
     ( /\ i < j /\ TransactionExists(j)
       /\ transactions[i].token = transactions[j].token
       /\ transactions[i].nonce # 0 )
     => transactions[i].nonce < transactions[j].nonce

\* A transaction becomes executed only with confirmations, at that moment, of
\* `required` distinct present owners: those of removed owners do not count.
ExecutedByQuorum ==
  [][\A id \in TxIds :
       ~transactions[id].executed /\ transactions'[id].executed =>
         \E Q \in SUBSET {a \in Accounts : isOwner[a]} :
            Q \subseteq confirmations'[id] /\ Cardinality(Q) >= required]_vars

\* What was executed is settled: the transaction and the confirmations it was
\* executed with never change again, whoever confirms, revokes or executes.
ExecutedIsSettled ==
  [][\A id \in TxIds :
       transactions[id].executed =>
         /\ transactions'[id] = transactions[id]
         /\ confirmations'[id] = confirmations[id]]_vars

Spent(asset, id) ==
  LET tx == transactions[id]
      IsPayment == tx.call.op = "pay" /\ tx.call.asset = asset
  IN  (IF IsPayment THEN withdrawals[id] * tx.call.amount ELSE 0)
      + (IF tx.token = asset THEN feePayments[id] * tx.fee ELSE 0)

\* No funds appear or vanish: what the wallet holds of an asset is what was
\* deposited less the payments that succeeded and the fees collected, the fees
\* of failed attempts included.
FundsAccounted ==
  \A a \in Assets :
     balance[a] = deposited[a] - Total([id \in TxIds |-> Spent(a, id)], TxIds)

=============================================================================
