---------------------- MODULE MultiSigSwapWalletProofs ----------------------
(***************************************************************************)
(* Safety of MultiSigSwapWallet for any set of owners, tokens, calls and   *)
(* bounds.  IInv is the inductive invariant: the types, the owners and the *)
(* threshold (which only the wallet's own calls change) and the ledger of  *)
(* transactions (which Execute and SubmitTransaction change).  FundsInv    *)
(* keeps the books on top of it.                                           *)
(***************************************************************************)
EXTENDS MultiSigSwapWallet, SumLemmas, SequenceTheorems, FiniteSetTheorems, TLAPS

OwnerInv == OwnersConsistent /\ RequirementReachable

\* Identifiers are given out in order, and what does not exist yet is empty.
SubmittedPrefix ==
  \A id \in TxIds :
     IF id < transactionCount
     THEN transactions[id] \in Transaction
     ELSE transactions[id] = NoTransaction /\ confirmations[id] = {}

\* secretTxNonce bounds the nonces submitted for its token.
NonceBound ==
  \A id \in TxIds :
     id < transactionCount /\ transactions[id].nonce # 0 =>
       transactions[id].nonce <= secretTxNonce[transactions[id].token]

LedgerInv == SubmittedPrefix /\ NonceBound /\ NonceOrder /\ WithdrawnOnce

IInv == TypeOK /\ OwnerInv /\ LedgerInv

-----------------------------------------------------------------------------
(* The owners                                                              *)

LEMMA NoCallNotSubmitted == NoCall \notin Calls
BY DataAssumption DEF NoCall, PayCalls, WalletCalls

LEMMA TransactionCall ==
  ASSUME NEW tx \in Transaction
  PROVE  tx.call \in Calls /\ tx.call # NoCall
BY NoCallNotSubmitted DEF Transaction

\* The swap-and-pop loop removes exactly x from a list without duplicates.
LEMMA SwapRemoveProperties ==
  ASSUME NEW S, NEW s \in Seq(S), IsInjective(s), NEW x \in Range(s)
  PROVE  /\ SwapRemove(s, x) \in Seq(S)
         /\ Len(SwapRemove(s, x)) = Len(s) - 1
         /\ IsInjective(SwapRemove(s, x))
         /\ Range(SwapRemove(s, x)) = Range(s) \ {x}
<1> DEFINE n == Len(s)
           r == SwapRemove(s, x)
<1>1. /\ n \in Nat /\ DOMAIN s = 1..n /\ s \in [1..n -> S]
  BY LenProperties
<1>2. PICK k \in 1..n : s[k] = x
  BY <1>1 DEF Range
<1>3. \A i \in 1..n : s[i] = x <=> i = k
  BY <1>1, <1>2 DEF IsInjective
<1>4. n \in Nat \ {0} /\ n - 1 \in Nat
  BY <1>1, <1>2
<1>5. \A i \in 1..(n - 1) :
        r[i] = IF i = k THEN s[n] ELSE s[i]
  BY <1>1, <1>3, <1>4 DEF SwapRemove
<1>6. r \in [1..(n - 1) -> S]
  BY <1>1, <1>4 DEF SwapRemove
<1>7. r \in Seq(S) /\ Len(r) = n - 1
  BY <1>4, <1>6, SeqDef, LenProperties
<1>8. IsInjective(r)
  BY <1>1, <1>3, <1>4, <1>5, <1>6 DEF IsInjective
<1>9. Range(r) = Range(s) \ {x}
  <2>1. ASSUME NEW i \in 1..(n - 1) PROVE r[i] \in Range(s) \ {x}
    BY <1>1, <1>2, <1>3, <1>4, <1>5, <2>1 DEF Range
  <2>2. ASSUME NEW y \in Range(s), y # x PROVE \E i \in 1..(n - 1) : r[i] = y
    <3>1. PICK j \in 1..n : s[j] = y
      BY <1>1 DEF Range
    <3>2. j # k
      BY <1>2, <2>2, <3>1
    <3>3. CASE j = n
      <4>1. k \in 1..(n - 1)
        BY <1>4, <1>2, <3>2, <3>3
      <4>2. QED BY <1>5, <3>1, <3>3, <4>1
    <3>4. CASE j # n
      <4>1. j \in 1..(n - 1)
        BY <1>4, <3>4
      <4>2. QED BY <1>5, <3>1, <3>2, <4>1
    <3>5. QED BY <3>3, <3>4
  <2>3. DOMAIN r = 1..(n - 1)
    BY <1>6
  <2>4. QED
    BY <2>1, <2>2, <2>3 DEF Range
<1>10. QED
  BY <1>7, <1>8, <1>9

\* replaceOwner's loop substitutes y for x in a list without duplicates.
LEMMA ReplaceProperties ==
  ASSUME NEW S, NEW s \in Seq(S), IsInjective(s), NEW x \in Range(s),
         NEW y \in S, y \notin Range(s)
  PROVE  /\ ReplaceFirst(s, x, y) \in Seq(S)
         /\ Len(ReplaceFirst(s, x, y)) = Len(s)
         /\ IsInjective(ReplaceFirst(s, x, y))
         /\ Range(ReplaceFirst(s, x, y)) = (Range(s) \ {x}) \union {y}
<1> DEFINE n == Len(s)
           r == ReplaceFirst(s, x, y)
<1>1. /\ n \in Nat /\ DOMAIN s = 1..n /\ s \in [1..n -> S]
  BY LenProperties
<1>2. PICK k \in 1..n : s[k] = x
  BY <1>1 DEF Range
<1>3. \A i \in 1..n : s[i] = x <=> i = k
  BY <1>1, <1>2 DEF IsInjective
<1>4. \A i \in 1..n : r[i] = IF i = k THEN y ELSE s[i]
  BY <1>1, <1>3 DEF ReplaceFirst
<1>5. r \in [1..n -> S]
  BY <1>1 DEF ReplaceFirst
<1>6. r \in Seq(S) /\ Len(r) = n
  BY <1>1, <1>5, SeqDef, LenProperties
<1>7. \A i \in 1..n : s[i] # y
  BY <1>1 DEF Range
<1>8. IsInjective(r)
  BY <1>1, <1>3, <1>4, <1>5, <1>7 DEF IsInjective
<1>9. Range(r) = (Range(s) \ {x}) \union {y}
  <2>1. ASSUME NEW i \in 1..n PROVE r[i] \in (Range(s) \ {x}) \union {y}
    BY <1>1, <1>3, <1>4, <2>1 DEF Range
  <2>2. ASSUME NEW z \in Range(s), z # x PROVE \E i \in 1..n : r[i] = z
    BY <1>1, <1>2, <1>4, <2>2 DEF Range
  <2>3. r[k] = y
    BY <1>2, <1>4
  <2>4. Range(r) = {r[i] : i \in 1..n}
    BY <1>5 DEF Range
  <2>5. QED
    BY <1>2, <2>1, <2>2, <2>3, <2>4
<1>10. QED
  BY <1>6, <1>8, <1>9

LEMMA AppendNew ==
  ASSUME NEW S, NEW s \in Seq(S), IsInjective(s), NEW y \in S, y \notin Range(s)
  PROVE  /\ Append(s, y) \in Seq(S)
         /\ Len(Append(s, y)) = Len(s) + 1
         /\ IsInjective(Append(s, y))
         /\ Range(Append(s, y)) = Range(s) \union {y}
<1> DEFINE n == Len(s)
           r == Append(s, y)
<1>1. /\ n \in Nat /\ DOMAIN s = 1..n /\ s \in [1..n -> S]
  BY LenProperties
<1>2. /\ r \in Seq(S) /\ Len(r) = n + 1
      /\ \A i \in 1..n : r[i] = s[i]
      /\ r[n + 1] = y
  BY <1>1
<1>3. DOMAIN r = 1..(n + 1)
  BY <1>2, LenProperties
<1>4. IsInjective(r)
  BY <1>1, <1>2, <1>3 DEF IsInjective, Range
<1>5. Range(r) = Range(s) \union {y}
  <2>1. ASSUME NEW i \in 1..(n + 1) PROVE r[i] \in Range(s) \union {y}
    <3>1. CASE i = n + 1
      BY <1>2, <3>1
    <3>2. CASE i # n + 1
      <4>1. i \in 1..n
        BY <1>1, <3>2
      <4>2. QED BY <1>1, <1>2, <4>1 DEF Range
    <3>3. QED BY <3>1, <3>2
  <2>2. ASSUME NEW z \in Range(s) PROVE \E i \in 1..(n + 1) : r[i] = z
    BY <1>1, <1>2, <2>2 DEF Range
  <2>3. n + 1 \in 1..(n + 1)
    BY <1>1
  <2>4. QED
    BY <1>2, <1>3, <2>1, <2>2, <2>3 DEF Range
<1>6. QED
  BY <1>2, <1>4, <1>5

\* Whatever call the wallet makes to itself, its owners stay consistent and
\* its threshold reachable.
LEMMA SelfCallPreservesOwners ==
  ASSUME TypeOK, OwnerInv, NEW call \in Calls, SelfCall(call)
  PROVE  /\ OwnerInv'
         /\ isOwner' \in [Accounts -> BOOLEAN] /\ owners' \in Seq(Accounts)
         /\ required' \in Nat /\ feeCollector' \in Collectors /\ paused' \in BOOLEAN
<1> USE DEF OwnerInv, OwnersConsistent, RequirementReachable
<1>1. /\ isOwner \in [Accounts -> BOOLEAN] /\ owners \in Seq(Accounts)
      /\ required \in Nat /\ feeCollector \in Collectors /\ paused \in BOOLEAN
      /\ Len(owners) \in Nat /\ MAX_OWNER_COUNT \in Nat
  BY BoundsAssumption, LenProperties DEF TypeOK
<1>2. call \in PayCalls \/ call \in WalletCalls
  BY DataAssumption
<1>3. CASE call.op \in {"pauseSwaps", "unPauseSwaps", "replaceFeeCollector"}
  <2>1. call.op = "replaceFeeCollector" => call.collector \in Collectors
    BY <1>2 DEF PayCalls, WalletCalls
  <2>2. QED
    BY <1>1, <1>3, <2>1 DEF SelfCall, PauseSwaps, ReplaceFeeCollector, ownerVars
<1>4. CASE call.op = "addOwner"
  <2>1. call.owner \in Accounts /\ AddOwner(call.owner)
    BY <1>2, <1>4 DEF PayCalls, WalletCalls, SelfCall
  <2>2. call.owner \notin Range(owners)
    BY <1>1, <2>1 DEF AddOwner
  <2>3. /\ owners' \in Seq(Accounts) /\ Len(owners') = Len(owners) + 1
        /\ IsInjective(owners') /\ Range(owners') = Range(owners) \union {call.owner}
    BY <1>1, <2>1, <2>2, AppendNew DEF AddOwner
  <2>4. QED
    BY <1>1, <2>1, <2>3 DEF AddOwner, ValidRequirement
<1>5. CASE call.op = "removeOwner"
  <2>1. call.owner \in Accounts /\ RemoveOwner(call.owner)
    BY <1>2, <1>5 DEF PayCalls, WalletCalls, SelfCall
  <2>2. call.owner \in Range(owners)
    BY <1>1, <2>1 DEF RemoveOwner
  <2>3. /\ owners' \in Seq(Accounts) /\ Len(owners') = Len(owners) - 1
        /\ IsInjective(owners') /\ Range(owners') = Range(owners) \ {call.owner}
    BY <1>1, <2>1, <2>2, SwapRemoveProperties DEF RemoveOwner
  <2>4. QED
    BY <1>1, <2>1, <2>3 DEF RemoveOwner, ValidRequirement
<1>6. CASE call.op = "replaceOwner"
  <2>1. /\ call.owner \in Accounts /\ call.newOwner \in Accounts
        /\ ReplaceOwner(call.owner, call.newOwner)
    BY <1>2, <1>6 DEF PayCalls, WalletCalls, SelfCall
  <2>2. call.owner \in Range(owners) /\ call.newOwner \notin Range(owners)
    BY <1>1, <2>1 DEF ReplaceOwner
  <2>3. /\ owners' \in Seq(Accounts) /\ Len(owners') = Len(owners)
        /\ IsInjective(owners')
        /\ Range(owners') = (Range(owners) \ {call.owner}) \union {call.newOwner}
    BY <1>1, <2>1, <2>2, ReplaceProperties DEF ReplaceOwner
  <2>4. QED
    BY <1>1, <2>1, <2>2, <2>3 DEF ReplaceOwner
<1>7. CASE call.op = "changeRequirement"
  <2>1. call.required \in Nat /\ ChangeRequirement(call.required)
    BY <1>2, <1>7 DEF PayCalls, WalletCalls, SelfCall
  <2>2. QED
    BY <1>1, <2>1 DEF ChangeRequirement, ValidRequirement
<1>8. QED
  BY <1>3, <1>4, <1>5, <1>6, <1>7 DEF SelfCall

-----------------------------------------------------------------------------
(* Executing a transaction                                                 *)

AdminTypeOK ==
  /\ isOwner \in [Accounts -> BOOLEAN]
  /\ owners \in Seq(Accounts)
  /\ required \in Nat
  /\ feeCollector \in Collectors
  /\ paused \in BOOLEAN

MoneyTypeOK ==
  /\ balance \in [Assets -> Nat]
  /\ deposited \in [Assets -> Nat]
  /\ withdrawals \in [TxIds -> Nat]
  /\ feePayments \in [TxIds -> Nat]

\* A successful call leaves a balance that is not negative.
LEMMA CallSucceedsTypes ==
  ASSUME TypeOK, OwnerInv, NEW call \in Calls, NEW funds \in [Assets -> Nat],
         CallSucceeds(call, funds)
  PROVE  OwnerInv' /\ AdminTypeOK' /\ balance' \in [Assets -> Nat]
<1>1. CASE SelfCall(call) /\ balance' = funds
  BY <1>1, SelfCallPreservesOwners DEF AdminTypeOK
<1>2. CASE /\ call.op = "pay"
           /\ call.amount <= funds[call.asset]
           /\ balance' = [funds EXCEPT ![call.asset] = @ - call.amount]
           /\ UNCHANGED adminVars
  <2>1. call.asset \in Assets /\ call.amount \in Nat
    BY <1>2, DataAssumption DEF PayCalls, WalletCalls
  <2>2. funds[call.asset] - call.amount \in Nat
    BY <1>2, <2>1
  <2>3. balance' \in [Assets -> Nat]
    BY <1>2, <2>1, <2>2
  <2>4. UNCHANGED <<isOwner, owners, required, feeCollector, paused>>
    BY <1>2 DEF adminVars, ownerVars
  <2>5. OwnerInv' /\ AdminTypeOK'
    BY <2>4 DEF OwnerInv, OwnersConsistent, RequirementReachable, AdminTypeOK, TypeOK
  <2>6. QED BY <2>3, <2>5
<1>3. QED
  BY <1>1, <1>2 DEF CallSucceeds

LEMMA ExecuteEffect ==
  ASSUME TypeOK, OwnerInv, NEW id \in TxIds,
         NEW txs \in [TxIds -> Transaction \union {NoTransaction}],
         txs[id] \in Transaction, NEW conf, Execute(id, txs, conf)
  PROVE  /\ OwnerInv' /\ AdminTypeOK' /\ MoneyTypeOK'
         /\ \/ transactions' = txs /\ withdrawals' = withdrawals
            \/ /\ transactions' = [txs EXCEPT ![id].executed = TRUE]
               /\ withdrawals' = [withdrawals EXCEPT ![id] = @ + 1]
               /\ IsConfirmed(conf[id])
<1>1. /\ balance \in [Assets -> Nat] /\ deposited \in [Assets -> Nat]
      /\ withdrawals \in [TxIds -> Nat] /\ feePayments \in [TxIds -> Nat]
  BY DEF TypeOK
<1>2. UNCHANGED adminVars => OwnerInv' /\ AdminTypeOK'
  BY DEF adminVars, ownerVars, OwnerInv, OwnersConsistent, RequirementReachable,
         AdminTypeOK, TypeOK
<1>3. CASE UNCHANGED <<moneyVars, adminVars>> /\ transactions' = txs
  BY <1>1, <1>2, <1>3 DEF moneyVars, MoneyTypeOK
<1>4. CASE /\ IsConfirmed(conf[id])
           /\ txs[id].fee <= balance[txs[id].token]
           /\ UNCHANGED deposited
           /\ feePayments' =
                [feePayments EXCEPT ![id] = IF txs[id].fee > 0 THEN @ + 1 ELSE @]
           /\ \/ /\ CallSucceeds(txs[id].call, CollectFee(txs[id]))
                 /\ transactions' = [txs EXCEPT ![id].executed = TRUE]
                 /\ withdrawals' = [withdrawals EXCEPT ![id] = @ + 1]
              \/ /\ balance' = CollectFee(txs[id])
                 /\ transactions' = txs
                 /\ UNCHANGED <<withdrawals, adminVars>>
  <2>1. txs[id].call \in Calls /\ txs[id].token \in Assets /\ txs[id].fee \in Nat
    BY DataAssumption DEF Transaction
  <2>2. CollectFee(txs[id]) \in [Assets -> Nat]
    <3>1. balance[txs[id].token] - txs[id].fee \in Nat
      BY <1>1, <1>4, <2>1
    <3>2. QED BY <1>1, <2>1, <3>1 DEF CollectFee
  <2>3. deposited' \in [Assets -> Nat] /\ feePayments' \in [TxIds -> Nat]
    BY <1>1, <1>4
  <2>4. CASE /\ CallSucceeds(txs[id].call, CollectFee(txs[id]))
             /\ transactions' = [txs EXCEPT ![id].executed = TRUE]
             /\ withdrawals' = [withdrawals EXCEPT ![id] = @ + 1]
    <3>1. OwnerInv' /\ AdminTypeOK' /\ balance' \in [Assets -> Nat]
      BY <2>1, <2>2, <2>4, CallSucceedsTypes
    <3>2. withdrawals' \in [TxIds -> Nat]
      BY <1>1, <2>4
    <3>3. QED
      BY <1>4, <2>3, <2>4, <3>1, <3>2 DEF MoneyTypeOK
  <2>5. CASE /\ balance' = CollectFee(txs[id])
             /\ transactions' = txs
             /\ UNCHANGED <<withdrawals, adminVars>>
    BY <1>1, <1>2, <2>2, <2>3, <2>5 DEF MoneyTypeOK
  <2>6. QED
    BY <1>4, <2>4, <2>5
<1>5. QED
  BY <1>3, <1>4 DEF Execute, Unconfirmed

-----------------------------------------------------------------------------
(* The ledger of transactions                                              *)

\* What a call of executeTransaction does to the ledger txs.
LedgerAfter(id, txs) ==
  \/ transactions' = txs /\ withdrawals' = withdrawals
  \/ /\ transactions' = [txs EXCEPT ![id].executed = TRUE]
     /\ withdrawals' = [withdrawals EXCEPT ![id] = @ + 1]

\* Executing changes nothing of a transaction but its `executed`.
LEMMA LedgerAfterFrame ==
  ASSUME NEW id \in TxIds, NEW txs \in [TxIds -> Transaction \union {NoTransaction}],
         txs[id] \in Transaction, LedgerAfter(id, txs)
  PROVE  /\ transactions' \in [TxIds -> Transaction \union {NoTransaction}]
         /\ transactions'[id] \in Transaction
         /\ \A j \in TxIds \ {id} : transactions'[j] = txs[j]
         /\ \A j \in TxIds : /\ transactions'[j].call = txs[j].call
                            /\ transactions'[j].nonce = txs[j].nonce
                            /\ transactions'[j].token = txs[j].token
<1>1. CASE transactions' = txs
  BY <1>1
<1>2. CASE transactions' = [txs EXCEPT ![id].executed = TRUE]
  <2>1. transactions'[id] = [txs[id] EXCEPT !.executed = TRUE]
    BY <1>2
  <2>2. /\ transactions'[id] \in Transaction
        /\ transactions'[id].call = txs[id].call
        /\ transactions'[id].nonce = txs[id].nonce
        /\ transactions'[id].token = txs[id].token
    BY <2>1 DEF Transaction
  <2>3. \A j \in TxIds \ {id} : transactions'[j] = txs[j]
    BY <1>2
  <2>4. transactions' = [txs EXCEPT ![id] = transactions'[id]]
    BY <1>2, <2>1
  <2>5. transactions' \in [TxIds -> Transaction \union {NoTransaction}]
    BY <2>2, <2>4
  <2>6. QED
    BY <2>2, <2>3, <2>5
<1>3. QED
  BY <1>1, <1>2 DEF LedgerAfter

\* executeTransaction keeps the ledger's invariant, for a transaction that exists.
LEMMA ExecutePreservesLedger ==
  ASSUME TypeOK, LedgerInv, NEW id \in TxIds, id < transactionCount,
         NotExecuted(id), LedgerAfter(id, transactions),
         UNCHANGED <<transactionCount, secretTxNonce>>,
         confirmations' \in [TxIds -> SUBSET Accounts],
         \A j \in TxIds \ {id} : confirmations'[j] = confirmations[j]
  PROVE  LedgerInv' /\ transactions' \in [TxIds -> Transaction \union {NoTransaction}]
<1>1. /\ transactions \in [TxIds -> Transaction \union {NoTransaction}]
      /\ transactionCount \in Nat /\ TxIds \subseteq Nat
  BY BoundsAssumption DEF TypeOK, TxIds
<1>2. transactions[id] \in Transaction
  BY DEF LedgerInv, SubmittedPrefix
<1>3. /\ transactions' \in [TxIds -> Transaction \union {NoTransaction}]
      /\ transactions'[id] \in Transaction
      /\ \A j \in TxIds \ {id} : transactions'[j] = transactions[j]
      /\ \A j \in TxIds : /\ transactions'[j].call = transactions[j].call
                         /\ transactions'[j].nonce = transactions[j].nonce
                         /\ transactions'[j].token = transactions[j].token
  BY <1>1, <1>2, LedgerAfterFrame
<1>4. SubmittedPrefix'
  BY <1>1, <1>2, <1>3 DEF LedgerInv, SubmittedPrefix
<1>5. NonceBound'
  BY <1>3 DEF LedgerInv, NonceBound
<1>6. NonceOrder'
  BY <1>3 DEF LedgerInv, NonceOrder, TransactionExists
<1>7. WithdrawnOnce'
  <2>1. withdrawals \in [TxIds -> Nat] /\ withdrawals[id] = 0
    BY DEF TypeOK, LedgerInv, WithdrawnOnce, NotExecuted
  <2>2. CASE transactions' = transactions /\ withdrawals' = withdrawals
    BY <2>2 DEF LedgerInv, WithdrawnOnce
  <2>3. CASE /\ transactions' = [transactions EXCEPT ![id].executed = TRUE]
             /\ withdrawals' = [withdrawals EXCEPT ![id] = @ + 1]
    <3>1. transactions'[id].executed /\ withdrawals'[id] = 1
      BY <1>1, <1>2, <2>1, <2>3 DEF Transaction
    <3>2. \A j \in TxIds \ {id} : withdrawals'[j] = withdrawals[j]
      BY <2>1, <2>3
    <3>3. QED
      BY <1>3, <3>1, <3>2 DEF LedgerInv, WithdrawnOnce
  <2>4. QED
    BY <2>2, <2>3 DEF LedgerAfter
<1>8. QED
  BY <1>3, <1>4, <1>5, <1>6, <1>7 DEF LedgerInv

LEMMA SubmitPreservesLedger ==
  ASSUME TypeOK, LedgerInv, NEW id, id = transactionCount, id < MaxTransactions,
         NEW nonce \in Nonces, NEW t \in Assets, NotSubmitted(t, nonce),
         NEW tx \in Transaction, tx.nonce = nonce, tx.token = t, ~tx.executed,
         transactionCount' = transactionCount + 1,
         secretTxNonce' = [secretTxNonce EXCEPT ![t] = nonce],
         confirmations' \in [TxIds -> SUBSET Accounts],
         \A j \in TxIds \ {id} : confirmations'[j] = confirmations[j],
         LedgerAfter(id, [transactions EXCEPT ![id] = tx])
  PROVE  LedgerInv' /\ transactions' \in [TxIds -> Transaction \union {NoTransaction}]
<1> DEFINE txs == [transactions EXCEPT ![id] = tx]
<1>1. /\ transactions \in [TxIds -> Transaction \union {NoTransaction}]
      /\ transactionCount \in Nat /\ TxIds \subseteq Nat /\ id \in TxIds
      /\ secretTxNonce \in [Assets -> Nat] /\ nonce \in Nat
  BY BoundsAssumption, DataAssumption DEF TypeOK, TxIds
<1>2. /\ txs \in [TxIds -> Transaction \union {NoTransaction}]
      /\ txs[id] = tx /\ \A j \in TxIds \ {id} : txs[j] = transactions[j]
  BY <1>1
<1>2a. LedgerAfter(id, txs)
  OBVIOUS
<1> HIDE DEF txs
<1>3. /\ transactions' \in [TxIds -> Transaction \union {NoTransaction}]
      /\ transactions'[id] \in Transaction
      /\ \A j \in TxIds \ {id} : transactions'[j] = transactions[j]
      /\ transactions'[id].nonce = nonce /\ transactions'[id].token = t
  <2>1. txs[id] \in Transaction
    BY <1>2
  <2>2. /\ transactions' \in [TxIds -> Transaction \union {NoTransaction}]
        /\ transactions'[id] \in Transaction
        /\ \A j \in TxIds \ {id} : transactions'[j] = txs[j]
        /\ \A j \in TxIds : /\ transactions'[j].call = txs[j].call
                           /\ transactions'[j].nonce = txs[j].nonce
                           /\ transactions'[j].token = txs[j].token
    BY <1>1, <1>2, <1>2a, <2>1, LedgerAfterFrame
  <2>3. QED
    BY <1>1, <1>2, <2>2
<1>4. SubmittedPrefix'
  BY <1>1, <1>3 DEF LedgerInv, SubmittedPrefix
<1>5. \A i \in TxIds : i < id /\ transactions[i].token = t /\ transactions[i].nonce # 0
                       => transactions[i].nonce < nonce
  <2> SUFFICES ASSUME NEW i \in TxIds, i < id, transactions[i].token = t,
                      transactions[i].nonce # 0
               PROVE  transactions[i].nonce < nonce
    OBVIOUS
  <2>1. transactions[i].nonce \in Nat /\ transactions[i].nonce <= secretTxNonce[t]
    BY <1>1, DataAssumption DEF LedgerInv, SubmittedPrefix, NonceBound, Transaction
  <2>2. secretTxNonce[t] \in Nat /\ secretTxNonce[t] # 0
    BY <1>1, <2>1
  <2>3. QED
    BY <1>1, <2>1, <2>2 DEF NotSubmitted
<1>6. NonceBound'
  <2> SUFFICES ASSUME NEW i \in TxIds, i < transactionCount', transactions'[i].nonce # 0
               PROVE  transactions'[i].nonce <= secretTxNonce'[transactions'[i].token]
    BY DEF NonceBound
  <2>1. CASE i = id
    BY <1>1, <1>3, <2>1
  <2>2. CASE i # id
    <3>1. i < id /\ i < transactionCount /\ transactions'[i] = transactions[i]
      BY <1>1, <1>3, <2>2
    <3>2. /\ transactions[i].token \in Assets /\ transactions[i].nonce \in Nat
          /\ transactions[i].nonce <= secretTxNonce[transactions[i].token]
      BY <3>1, DataAssumption DEF LedgerInv, NonceBound, SubmittedPrefix, Transaction
    <3>3. QED
      BY <1>1, <1>5, <3>1, <3>2
  <2>3. QED BY <2>1, <2>2
<1>7. NonceOrder'
  <2> SUFFICES ASSUME NEW i \in TxIds, NEW j \in TxIds, i < j, TransactionExists(j)',
                      transactions'[i].token = transactions'[j].token,
                      transactions'[i].nonce # 0
               PROVE  transactions'[i].nonce < transactions'[j].nonce
    BY DEF NonceOrder
  <2>1. CASE j = id
    BY <1>1, <1>3, <1>5, <2>1
  <2>2. CASE j # id
    <3>1. TransactionExists(j) /\ transactions'[j] = transactions[j]
      BY <1>3, <2>2 DEF TransactionExists
    <3>2. j < id
      BY <1>1, <2>2, <3>1 DEF LedgerInv, SubmittedPrefix, TransactionExists, NoTransaction
    <3>3. transactions'[i] = transactions[i]
      BY <1>1, <1>3, <3>2
    <3>4. QED
      BY <3>1, <3>3 DEF LedgerInv, NonceOrder
  <2>3. QED BY <2>1, <2>2
<1>8. WithdrawnOnce'
  <2>1. withdrawals \in [TxIds -> Nat] /\ withdrawals[id] = 0
    BY <1>1 DEF TypeOK, LedgerInv, WithdrawnOnce, SubmittedPrefix, NoTransaction
  <2>2. CASE transactions' = txs /\ withdrawals' = withdrawals
    BY <1>2, <1>3, <2>1, <2>2 DEF LedgerInv, WithdrawnOnce
  <2>3. CASE /\ transactions' = [txs EXCEPT ![id].executed = TRUE]
             /\ withdrawals' = [withdrawals EXCEPT ![id] = @ + 1]
    <3>1. transactions'[id].executed /\ withdrawals'[id] = 1
      BY <1>1, <1>2, <2>1, <2>3 DEF Transaction
    <3>2. \A j \in TxIds \ {id} : withdrawals'[j] = withdrawals[j]
      BY <2>1, <2>3
    <3>3. QED
      BY <1>3, <3>1, <3>2 DEF LedgerInv, WithdrawnOnce
  <2>4. QED
    BY <2>2, <2>3 DEF LedgerAfter, txs
<1>9. QED
  BY <1>3, <1>4, <1>6, <1>7, <1>8 DEF LedgerInv

-----------------------------------------------------------------------------
(* The steps                                                               *)

LEMMA TypeOKParts ==
  TypeOK <=> /\ transactions \in [TxIds -> Transaction \union {NoTransaction}]
             /\ confirmations \in [TxIds -> SUBSET Accounts]
             /\ transactionCount \in 0..MaxTransactions
             /\ secretTxNonce \in [Assets -> Nat]
             /\ tokens \in Seq(Tokens)
             /\ tokenWhitelist \in [Tokens -> Nat]
             /\ AdminTypeOK /\ MoneyTypeOK
BY DEF TypeOK, AdminTypeOK, MoneyTypeOK

LEMMA InitInvariant == Init => IInv
<1> SUFFICES ASSUME Init PROVE IInv
  OBVIOUS
<1> USE DEF Init
<1>1. TypeOK
  <2>1. isOwner \in [Accounts -> BOOLEAN]
    <3>1. isOwner = [a \in Accounts |-> a \in Range(InitialOwners)]
      OBVIOUS
    <3>2. QED
      BY ONLY <3>1
  <2>2. /\ transactions \in [TxIds -> Transaction \union {NoTransaction}]
        /\ confirmations \in [TxIds -> SUBSET Accounts]
        /\ transactionCount \in 0..MaxTransactions
        /\ withdrawals \in [TxIds -> Nat] /\ feePayments \in [TxIds -> Nat]
    BY BoundsAssumption
  <2>3. /\ owners \in Seq(Accounts) /\ required \in Nat
        /\ feeCollector \in Collectors /\ paused \in BOOLEAN
    BY ConstructorAssumption
  <2>4. /\ secretTxNonce \in [Assets -> Nat] /\ balance \in [Assets -> Nat]
        /\ deposited \in [Assets -> Nat]
        /\ tokens \in Seq(Tokens) /\ tokenWhitelist \in [Tokens -> Nat]
    OBVIOUS
  <2>5. QED
    BY <2>1, <2>2, <2>3, <2>4 DEF TypeOK
<1>2. OwnerInv
  <2>1. Range(InitialOwners) \subseteq Accounts
    BY ConstructorAssumption DEF Range
  <2>2. \A a \in Accounts : isOwner[a] <=> a \in Range(owners)
    BY Zenon
  <2>3. OwnersConsistent
    BY <2>1, <2>2, ConstructorAssumption DEF OwnersConsistent
  <2>4. Len(owners) \in Nat /\ required \in Nat
        /\ ValidRequirement(Len(owners), required)
    BY ConstructorAssumption, LenProperties
  <2>5. RequirementReachable
    BY <2>4 DEF RequirementReachable, ValidRequirement
  <2>6. QED
    BY <2>3, <2>5 DEF OwnerInv
<1>3. LedgerInv
  BY DEF LedgerInv, SubmittedPrefix, NonceBound, NonceOrder, WithdrawnOnce,
         TransactionExists, NoTransaction, TxIds
<1>4. QED
  BY <1>1, <1>2, <1>3 DEF IInv

LEMMA SubmitStep ==
  ASSUME IInv, NEW o \in Accounts, NEW c \in Calls, NEW n \in Nonces,
         NEW t \in Assets, NEW f \in Fees, SubmitTransaction(o, c, n, t, f)
  PROVE  IInv'
<1> DEFINE id == transactionCount
           tx == [call |-> c, executed |-> FALSE, nonce |-> n, token |-> t, fee |-> f]
           txs == [transactions EXCEPT ![id] = tx]
<1>1. TypeOK /\ OwnerInv /\ LedgerInv
  BY DEF IInv
<1>2. /\ id \in TxIds /\ id < MaxTransactions /\ tx \in Transaction
      /\ txs \in [TxIds -> Transaction \union {NoTransaction}] /\ txs[id] = tx
  BY <1>1, BoundsAssumption DEF SubmitTransaction, TypeOK, TxIds, Transaction
<1>3. /\ NotSubmitted(t, n)
      /\ transactionCount' = transactionCount + 1
      /\ secretTxNonce' = [secretTxNonce EXCEPT ![t] = n]
      /\ confirmations' = [confirmations EXCEPT ![id] = @ \union {o}]
      /\ Execute(id, txs, confirmations')
      /\ UNCHANGED tokenVars
  BY DEF SubmitTransaction
<1>4. /\ confirmations' \in [TxIds -> SUBSET Accounts]
      /\ \A j \in TxIds \ {id} : confirmations'[j] = confirmations[j]
  BY <1>1, <1>2, <1>3 DEF TypeOK
<1>5. OwnerInv' /\ AdminTypeOK' /\ MoneyTypeOK' /\ LedgerAfter(id, txs)
  BY <1>1, <1>2, <1>3, ExecuteEffect DEF LedgerAfter
<1>6. LedgerInv' /\ transactions' \in [TxIds -> Transaction \union {NoTransaction}]
  <2>1. tx.nonce = n /\ tx.token = t /\ ~tx.executed
    OBVIOUS
  <2> HIDE DEF tx
  <2>2. QED
    BY <1>1, <1>2, <1>3, <1>4, <1>5, <2>1, SubmitPreservesLedger
<1>7. transactionCount' \in 0..MaxTransactions /\ secretTxNonce' \in [Assets -> Nat]
  BY <1>1, <1>2, <1>3, BoundsAssumption, DataAssumption DEF TypeOK
<1>8. tokens' \in Seq(Tokens) /\ tokenWhitelist' \in [Tokens -> Nat]
  BY <1>1, <1>3 DEF TypeOK, tokenVars
<1>9. TypeOK'
  BY <1>4, <1>5, <1>6, <1>7, <1>8 DEF TypeOK, AdminTypeOK, MoneyTypeOK
<1>10. QED
  BY <1>5, <1>6, <1>9 DEF IInv

\* Confirming and executing: the transaction exists and has not been executed.
LEMMA ExecuteStep ==
  ASSUME IInv, NEW id \in TxIds, id < transactionCount, NotExecuted(id),
         confirmations' \in [TxIds -> SUBSET Accounts],
         \A j \in TxIds \ {id} : confirmations'[j] = confirmations[j],
         NEW conf, Execute(id, transactions, conf),
         UNCHANGED <<transactionCount, secretTxNonce, tokenVars>>
  PROVE  IInv'
<1>1. TypeOK /\ OwnerInv /\ LedgerInv
  BY DEF IInv
<1>2. transactions \in [TxIds -> Transaction \union {NoTransaction}]
      /\ transactions[id] \in Transaction
  BY <1>1 DEF TypeOK, LedgerInv, SubmittedPrefix
<1>3. OwnerInv' /\ AdminTypeOK' /\ MoneyTypeOK' /\ LedgerAfter(id, transactions)
  BY <1>1, <1>2, ExecuteEffect DEF LedgerAfter
<1>4. LedgerInv' /\ transactions' \in [TxIds -> Transaction \union {NoTransaction}]
  BY <1>1, <1>3, ExecutePreservesLedger
<1>5. TypeOK'
  BY <1>1, <1>3, <1>4 DEF TypeOK, AdminTypeOK, MoneyTypeOK, tokenVars
<1>6. QED
  BY <1>3, <1>4, <1>5 DEF IInv

\* A step that leaves the ledger and the owners alone.
LEMMA FrameStep ==
  ASSUME IInv, UNCHANGED <<transactions, transactionCount, secretTxNonce, withdrawals,
                           adminVars>>,
         confirmations' \in [TxIds -> SUBSET Accounts],
         \A j \in TxIds : j >= transactionCount => confirmations'[j] = confirmations[j],
         tokens' \in Seq(Tokens), tokenWhitelist' \in [Tokens -> Nat],
         balance' \in [Assets -> Nat], deposited' \in [Assets -> Nat],
         feePayments' \in [TxIds -> Nat]
  PROVE  IInv'
<1>1. TypeOK /\ OwnerInv /\ LedgerInv /\ transactionCount \in Nat /\ TxIds \subseteq Nat
  BY BoundsAssumption DEF IInv, TypeOK, TxIds
<1>2. UNCHANGED <<isOwner, owners, required, feeCollector, paused>>
  BY DEF adminVars, ownerVars
<1>3. TypeOK'
  BY <1>1, <1>2 DEF TypeOK
<1>4. OwnerInv'
  BY <1>1, <1>2 DEF OwnerInv, OwnersConsistent, RequirementReachable
<1>5. SubmittedPrefix'
  <2> SUFFICES ASSUME NEW j \in TxIds
               PROVE  IF j < transactionCount THEN transactions[j] \in Transaction
                      ELSE transactions[j] = NoTransaction /\ confirmations'[j] = {}
    BY DEF SubmittedPrefix
  <2>1. CASE j < transactionCount
    BY <1>1, <2>1 DEF LedgerInv, SubmittedPrefix
  <2>2. CASE ~(j < transactionCount)
    <3>1. confirmations'[j] = confirmations[j]
      BY <1>1, <2>2
    <3>2. QED
      BY <1>1, <2>2, <3>1 DEF LedgerInv, SubmittedPrefix
  <2>3. QED BY <2>1, <2>2
<1>6. NonceBound' /\ NonceOrder' /\ WithdrawnOnce'
  BY <1>1 DEF LedgerInv, NonceBound, NonceOrder, WithdrawnOnce, TransactionExists
<1>7. QED
  BY <1>3, <1>4, <1>5, <1>6 DEF IInv, LedgerInv

\* A confirmation or a revocation of an existing transaction touches no other.
LEMMA ExistingTransaction ==
  ASSUME IInv, NEW id \in TxIds, TransactionExists(id) \/ confirmations[id] # {}
  PROVE  id < transactionCount
BY DEF IInv, LedgerInv, SubmittedPrefix, TransactionExists, NoTransaction

LEMMA NextInvariant == IInv /\ [Next]_vars => IInv'
<1> SUFFICES ASSUME IInv, [Next]_vars
             PROVE  IInv'
  OBVIOUS
<1>1. /\ TypeOK /\ TxIds \subseteq Nat /\ transactionCount \in Nat
  BY BoundsAssumption DEF IInv, TypeOK, TxIds
<1>2. /\ confirmations \in [TxIds -> SUBSET Accounts]
      /\ tokens \in Seq(Tokens) /\ tokenWhitelist \in [Tokens -> Nat]
      /\ balance \in [Assets -> Nat] /\ deposited \in [Assets -> Nat]
      /\ feePayments \in [TxIds -> Nat]
  BY <1>1 DEF TypeOK
<1>3. ASSUME NEW o \in Accounts, NEW c \in Calls, NEW n \in Nonces, NEW t \in Assets,
             NEW f \in Fees, SubmitTransaction(o, c, n, t, f)
      PROVE  IInv'
  BY <1>3, SubmitStep
<1>4. ASSUME NEW o \in Accounts, NEW id \in TxIds, ConfirmTransaction(o, id)
      PROVE  IInv'
  <2>1. id < transactionCount
    BY <1>4, ExistingTransaction DEF ConfirmTransaction
  <2>2. /\ confirmations' \in [TxIds -> SUBSET Accounts]
        /\ \A j \in TxIds \ {id} : confirmations'[j] = confirmations[j]
    BY <1>2, <1>4 DEF ConfirmTransaction
  <2>3. QED
    BY <1>4, <2>1, <2>2, ExecuteStep DEF ConfirmTransaction
<1>5. ASSUME NEW o \in Accounts, NEW id \in TxIds, RevokeConfirmation(o, id)
      PROVE  IInv'
  <2>1. id < transactionCount
    BY <1>5, ExistingTransaction DEF RevokeConfirmation
  <2>2. /\ confirmations' \in [TxIds -> SUBSET Accounts]
        /\ \A j \in TxIds : j >= transactionCount => confirmations'[j] = confirmations[j]
    BY <1>1, <1>2, <1>5, <2>1 DEF RevokeConfirmation
  <2>3. QED
    BY <1>2, <1>5, <2>2, FrameStep DEF RevokeConfirmation, tokenVars, moneyVars
<1>6. ASSUME NEW o \in Accounts, NEW id \in TxIds, ExecuteTransaction(o, id)
      PROVE  IInv'
  <2>1. id < transactionCount
    BY <1>6, ExistingTransaction DEF ExecuteTransaction
  <2>2. QED
    BY <1>2, <1>6, <2>1, ExecuteStep DEF ExecuteTransaction
<1>7. ASSUME NEW o \in Accounts, NEW t \in Tokens, NEW min \in Amounts \union {0},
             AddToken(o, t, min)
      PROVE  IInv'
  <2>1. tokens' \in Seq(Tokens) /\ tokenWhitelist' \in [Tokens -> Nat]
    BY <1>2, <1>7, DataAssumption DEF AddToken
  <2>2. QED
    BY <1>2, <1>7, <2>1, FrameStep DEF AddToken, ledgerVars, moneyVars
<1>8. ASSUME NEW o \in Accounts, NEW t \in Tokens, RemoveToken(o, t)
      PROVE  IInv'
  <2>1. tokenWhitelist' \in [Tokens -> Nat]
    BY <1>2, <1>8 DEF RemoveToken
  <2>2. tokens' \in Seq(Tokens)
    <3>1. Len(tokens) \in Nat \ {0} /\ tokens \in [1..Len(tokens) -> Tokens]
      BY <1>2, <1>8, EmptySeq, LenProperties DEF RemoveToken
    <3>2. Len(tokens) - 1 \in Nat
      BY <3>1
    <3>3. tokens' \in [1..(Len(tokens) - 1) -> Tokens]
      BY <1>8, <3>1 DEF RemoveToken, SwapRemove
    <3>4. QED
      BY <3>2, <3>3, SeqDef
  <2>3. QED
    BY <1>2, <1>8, <2>1, <2>2, FrameStep DEF RemoveToken, ledgerVars, moneyVars
<1>9. ASSUME NEW asset \in Assets, NEW amount \in Amounts, Deposit(asset, amount)
      PROVE  IInv'
  <2>1. balance' \in [Assets -> Nat] /\ deposited' \in [Assets -> Nat]
    BY <1>2, <1>9, DataAssumption DEF Deposit
  <2>2. QED
    BY <1>2, <1>9, <2>1, FrameStep DEF Deposit, ledgerVars, tokenVars
<1>10. CASE UNCHANGED vars
  BY <1>2, <1>10, FrameStep DEF vars, ledgerVars, tokenVars, moneyVars, adminVars
<1>11. ASSUME NEW amount \in Amounts, Swap(amount)
       PROVE  IInv'
  BY <1>9, <1>11 DEF Swap, Assets
<1>12. ASSUME NEW t \in Tokens, NEW amount \in Amounts, SwapToken(t, amount)
       PROVE  IInv'
  BY <1>9, <1>12 DEF SwapToken, Assets
<1>13. QED
  BY <1>3, <1>4, <1>5, <1>6, <1>7, <1>8, <1>10, <1>11, <1>12 DEF Next

-----------------------------------------------------------------------------
(* The theorems                                                            *)

\* IInv holds in every reachable state.
THEOREM Invariance == Spec => []IInv
BY InitInvariant, NextInvariant, PTL DEF Spec

\* The variables always have their types; in particular no payment and no fee
\* makes the balance of an asset negative.
THEOREM TypeCorrect == Spec => []TypeOK
<1>1. IInv => TypeOK
  BY DEF IInv
<1>2. QED
  BY <1>1, Invariance, PTL

\* owners[] and isOwner agree however the wallet changes its owners (addOwner,
\* removeOwner, replaceOwner).
THEOREM OwnersSafe == Spec => []OwnersConsistent
<1>1. IInv => OwnersConsistent
  BY DEF IInv, OwnerInv
<1>2. QED
  BY <1>1, Invariance, PTL

\* The threshold can always be met (removeOwner, changeRequirement).
THEOREM RequirementSafe == Spec => []RequirementReachable
<1>1. IInv => RequirementReachable
  BY DEF IInv, OwnerInv
<1>2. QED
  BY <1>1, Invariance, PTL

\* The call of a transaction succeeds at most once, and `executed` tells so.
THEOREM WithdrawnOnceSafe == Spec => []WithdrawnOnce
<1>1. IInv => WithdrawnOnce
  BY DEF IInv, LedgerInv
<1>2. QED
  BY <1>1, Invariance, PTL

\* Transactions for one token have increasing nonces, but for the nonce 0.
THEOREM NonceOrderSafe == Spec => []NonceOrder
<1>1. IInv => NonceOrder
  BY DEF IInv, LedgerInv
<1>2. QED
  BY <1>1, Invariance, PTL

\* The positions that isConfirmed counts stand for as many distinct owners.
LEMMA ConfirmingOwners ==
  ASSUME IInv, NEW conf \in SUBSET Accounts, IsConfirmed(conf)
  PROVE  \E Q \in SUBSET {a \in Accounts : isOwner[a]} :
            Q \subseteq conf /\ Cardinality(Q) >= required
<1> DEFINE P == ConfirmingPositions(conf)
           Q == {owners[i] : i \in P}
           f == [i \in P |-> owners[i]]
<1>1. /\ owners \in Seq(Accounts) /\ IsInjective(owners)
      /\ Range(owners) = {a \in Accounts : isOwner[a]}
  BY DEF IInv, TypeOK, OwnerInv, OwnersConsistent
<1>2. Len(owners) \in Nat /\ owners \in [1..Len(owners) -> Accounts]
  BY <1>1, LenProperties
<1>3. P \subseteq 1..Len(owners) /\ \A i \in P : owners[i] \in conf
  BY DEF ConfirmingPositions
<1>4. Q \subseteq conf /\ Q \subseteq Range(owners)
  BY <1>2, <1>3 DEF Range
<1>5. f \in Bijection(P, Q)
  <2>1. f \in [P -> Q]
    OBVIOUS
  <2>2. \A i, j \in P : f[i] = f[j] => i = j
    BY <1>1, <1>2, <1>3 DEF IsInjective
  <2>3. \A q \in Q : \E i \in P : f[i] = q
    OBVIOUS
  <2>4. QED
    BY <2>1, <2>2, <2>3 DEF Bijection, Injection, Surjection, IsInjective
<1>6. IsFiniteSet(P)
  <2>1. IsFiniteSet(1..Len(owners))
    BY <1>2, FS_Interval
  <2>2. QED
    BY <1>3, <2>1, FS_Subset
<1>7. Cardinality(P) = Cardinality(Q)
  <2>1. ExistsBijection(P, Q)
    BY <1>5 DEF ExistsBijection
  <2>2. QED
    BY <1>6, <2>1, FS_Bijection
<1>8. Cardinality(Q) >= required
  BY <1>7 DEF IsConfirmed
<1>9. QED
  BY <1>1, <1>4, <1>8

\* What a step can do to one transaction and its confirmations.
Settled(id) ==
  transactions'[id] = transactions[id] /\ confirmations'[id] = confirmations[id]

Progresses(id) ==
  /\ ~transactions[id].executed
  /\ transactions'[id].executed =>
       /\ confirmations'[id] \in SUBSET Accounts
       /\ IsConfirmed(confirmations'[id])

LEMMA ExecuteProgress ==
  ASSUME IInv, NEW id \in TxIds, ~transactions[id].executed,
         NEW txs \in [TxIds -> Transaction \union {NoTransaction}],
         txs[id] \in Transaction, ~txs[id].executed,
         \A j \in TxIds \ {id} : txs[j] = transactions[j],
         confirmations' \in [TxIds -> SUBSET Accounts],
         \A j \in TxIds \ {id} : confirmations'[j] = confirmations[j],
         NEW conf, conf[id] = confirmations'[id], Execute(id, txs, conf)
  PROVE  \A j \in TxIds : Settled(j) \/ Progresses(j)
<1>1. \/ transactions' = txs
      \/ transactions' = [txs EXCEPT ![id].executed = TRUE] /\ IsConfirmed(conf[id])
  BY ExecuteEffect DEF IInv
<1>2. \A j \in TxIds \ {id} : transactions'[j] = txs[j]
  BY <1>1
<1>3. Progresses(id)
  BY <1>1 DEF Progresses
<1>4. QED
  BY <1>2, <1>3 DEF Settled

LEMMA StepShape ==
  ASSUME IInv, [Next]_vars
  PROVE  \A id \in TxIds : Settled(id) \/ Progresses(id)
<1>1. /\ TypeOK /\ transactions \in [TxIds -> Transaction \union {NoTransaction}]
      /\ confirmations \in [TxIds -> SUBSET Accounts]
  BY DEF IInv, TypeOK
<1>2. ASSUME NEW o \in Accounts, NEW c \in Calls, NEW n \in Nonces, NEW t \in Assets,
             NEW f \in Fees, SubmitTransaction(o, c, n, t, f)
      PROVE  \A id \in TxIds : Settled(id) \/ Progresses(id)
  <2> DEFINE id == transactionCount
             tx == [call |-> c, executed |-> FALSE, nonce |-> n, token |-> t, fee |-> f]
             txs == [transactions EXCEPT ![id] = tx]
  <2>1. id \in TxIds /\ tx \in Transaction /\ ~tx.executed
    BY <1>1, <1>2, BoundsAssumption DEF SubmitTransaction, TypeOK, TxIds, Transaction
  <2>2. ~transactions[id].executed
    BY <2>1, BoundsAssumption
       DEF IInv, TypeOK, LedgerInv, SubmittedPrefix, NoTransaction
  <2>3. /\ txs \in [TxIds -> Transaction \union {NoTransaction}] /\ txs[id] = tx
        /\ \A j \in TxIds \ {id} : txs[j] = transactions[j]
    BY <1>1, <2>1
  <2>4. /\ confirmations' = [confirmations EXCEPT ![id] = @ \union {o}]
        /\ Execute(id, txs, confirmations')
    BY <1>2 DEF SubmitTransaction
  <2>5. /\ confirmations' \in [TxIds -> SUBSET Accounts]
        /\ \A j \in TxIds \ {id} : confirmations'[j] = confirmations[j]
    BY <1>1, <2>1, <2>4
  <2> HIDE DEF txs, tx, id
  <2>6. QED
    BY <2>1, <2>2, <2>3, <2>4, <2>5, ExecuteProgress
<1>3. ASSUME NEW o \in Accounts, NEW id \in TxIds,
             ConfirmTransaction(o, id) \/ ExecuteTransaction(o, id)
      PROVE  \A j \in TxIds : Settled(j) \/ Progresses(j)
  <2>1. id < transactionCount /\ ~transactions[id].executed
    BY <1>3, ExistingTransaction DEF ConfirmTransaction, ExecuteTransaction, NotExecuted
  <2>2. transactions[id] \in Transaction
    BY <2>1 DEF IInv, LedgerInv, SubmittedPrefix
  <2>3. /\ confirmations' \in [TxIds -> SUBSET Accounts]
        /\ \A j \in TxIds \ {id} : confirmations'[j] = confirmations[j]
    BY <1>1, <1>3 DEF ConfirmTransaction, ExecuteTransaction
  <2>4. Execute(id, transactions, confirmations')
    BY <1>3 DEF ConfirmTransaction, ExecuteTransaction
  <2>5. QED
    BY <1>1, <2>1, <2>2, <2>3, <2>4, ExecuteProgress
<1>4. ASSUME NEW o \in Accounts, NEW id \in TxIds, RevokeConfirmation(o, id)
      PROVE  \A j \in TxIds : Settled(j) \/ Progresses(j)
  BY <1>1, <1>4 DEF RevokeConfirmation, NotExecuted, Settled, Progresses
<1>5. CASE UNCHANGED <<transactions, confirmations>>
  BY <1>5 DEF Settled
<1>6. ASSUME NEW o \in Accounts, NEW t \in Tokens,
             \/ \E min \in Amounts \union {0} : AddToken(o, t, min)
             \/ RemoveToken(o, t)
      PROVE  UNCHANGED <<transactions, confirmations>>
  BY <1>6 DEF AddToken, RemoveToken, ledgerVars
<1>7. ASSUME NEW amount \in Amounts, Swap(amount) \/ \E t \in Tokens : SwapToken(t, amount)
      PROVE  UNCHANGED <<transactions, confirmations>>
  BY <1>7 DEF Swap, SwapToken, Deposit, ledgerVars
<1>8. UNCHANGED vars => UNCHANGED <<transactions, confirmations>>
  BY DEF vars, ledgerVars
<1>9. QED
  BY <1>2, <1>3, <1>4, <1>5, <1>6, <1>7, <1>8 DEF Next

\* Only confirmations of `required` distinct present owners execute a transaction.
THEOREM ExecutedByQuorumSafe == Spec => ExecutedByQuorum
<1> DEFINE A == \A id \in TxIds :
                  ~transactions[id].executed /\ transactions'[id].executed =>
                    \E Q \in SUBSET {a \in Accounts : isOwner[a]} :
                       Q \subseteq confirmations'[id] /\ Cardinality(Q) >= required
<1>1. IInv /\ [Next]_vars => A
  <2> SUFFICES ASSUME IInv, [Next]_vars, NEW id \in TxIds,
                      ~transactions[id].executed, transactions'[id].executed
               PROVE  \E Q \in SUBSET {a \in Accounts : isOwner[a]} :
                         Q \subseteq confirmations'[id] /\ Cardinality(Q) >= required
    OBVIOUS
  <2>1. Progresses(id)
    BY StepShape DEF Settled
  <2>2. QED
    BY <2>1, ConfirmingOwners DEF Progresses
<1>2. QED
  BY <1>1, Invariance, PTL DEF Spec, ExecutedByQuorum

\* A transaction that was executed, and its confirmations, never change again.
THEOREM ExecutedIsSettledSafe == Spec => ExecutedIsSettled
<1> DEFINE A == \A id \in TxIds :
                  transactions[id].executed =>
                    /\ transactions'[id] = transactions[id]
                    /\ confirmations'[id] = confirmations[id]
<1>1. IInv /\ [Next]_vars => A
  BY StepShape DEF Settled, Progresses
<1>2. QED
  BY <1>1, Invariance, PTL DEF Spec, ExecutedIsSettled

-----------------------------------------------------------------------------
(* The funds                                                               *)

\* What a transaction has cost after w withdrawals and k collected fees.
Cost(tx, w, k, asset) ==
  (IF tx.call.op = "pay" /\ tx.call.asset = asset THEN w * tx.call.amount ELSE 0)
  + (IF tx.token = asset THEN k * tx.fee ELSE 0)

Costs(txs, w, k, asset) == [id \in TxIds |-> Cost(txs[id], w[id], k[id], asset)]

\* The books of each asset; a transaction that does not exist has paid no fee.
FundsInv ==
  /\ \A a \in Assets :
        balance[a] = deposited[a] - Total(Costs(transactions, withdrawals, feePayments, a), TxIds)
  /\ \A id \in TxIds : ~(id < transactionCount) => feePayments[id] = 0

LEMMA TxIdsFinite == IsFiniteSet(TxIds)
<1>1. 0 \in Int /\ MaxTransactions - 1 \in Int
  BY BoundsAssumption
<1>2. QED
  BY <1>1, FS_Interval DEF TxIds

LEMMA Times ==
  ASSUME NEW w \in Nat, NEW m \in Nat
  PROVE  w * m \in Nat /\ (w + 1) * m = w * m + m /\ 0 * m = 0 /\ w * 0 = 0
OBVIOUS

LEMMA PayType ==
  ASSUME NEW tx \in Transaction, tx.call.op = "pay"
  PROVE  tx.call.asset \in Assets /\ tx.call.amount \in Nat
BY DataAssumption DEF Transaction, PayCalls, WalletCalls

LEMMA FeeType ==
  ASSUME NEW tx \in Transaction \union {NoTransaction}
  PROVE  tx.fee \in Nat
<1>1. CASE tx \in Transaction
  BY <1>1, DataAssumption DEF Transaction
<1>2. CASE tx = NoTransaction
  BY <1>2 DEF NoTransaction
<1>3. QED BY <1>1, <1>2

LEMMA CostType ==
  ASSUME NEW tx \in Transaction \union {NoTransaction}, NEW w \in Nat, NEW k \in Nat, NEW a
  PROVE  Cost(tx, w, k, a) \in Nat
<1>1. tx.call.op = "pay" => w * tx.call.amount \in Nat
  <2>1. tx.call.op = "pay" => tx \in Transaction
    BY DEF NoTransaction, NoCall
  <2>2. QED BY <2>1, PayType, Times
<1>2. tx.fee \in Nat
  BY FeeType
<1>3. k * tx.fee \in Nat
  BY <1>2, Times
<1>4. QED
  BY <1>1, <1>3 DEF Cost

LEMMA CostOfNothing ==
  ASSUME NEW tx \in Transaction \union {NoTransaction}, NEW a
  PROVE  Cost(tx, 0, 0, a) = 0
<1>1. tx.call.op = "pay" => 0 * tx.call.amount = 0
  <2>1. tx.call.op = "pay" => tx \in Transaction
    BY DEF NoTransaction, NoCall
  <2>2. QED BY <2>1, PayType, Times
<1>2. tx.fee \in Nat
  BY FeeType
<1>3. 0 * tx.fee = 0
  BY <1>2, Times
<1>4. QED
  BY <1>1, <1>3 DEF Cost

\* One more fee, one more withdrawal.
LEMMA CostOfFee ==
  ASSUME NEW tx \in Transaction, NEW w \in Nat, NEW k \in Nat, NEW a
  PROVE  Cost(tx, w, IF tx.fee > 0 THEN k + 1 ELSE k, a)
           = Cost(tx, w, k, a) + (IF tx.token = a THEN tx.fee ELSE 0)
<1> DEFINE paid == IF tx.call.op = "pay" /\ tx.call.asset = a THEN w * tx.call.amount ELSE 0
           n == IF tx.fee > 0 THEN k + 1 ELSE k
<1>1. paid \in Nat
  BY PayType, Times
<1>2. tx.fee \in Nat
  BY DataAssumption DEF Transaction
<1>3. n * tx.fee = k * tx.fee + tx.fee /\ k * tx.fee \in Nat
  BY <1>2, Times
<1>4. /\ Cost(tx, w, n, a) = paid + (IF tx.token = a THEN n * tx.fee ELSE 0)
      /\ Cost(tx, w, k, a) = paid + (IF tx.token = a THEN k * tx.fee ELSE 0)
  BY DEF Cost
<1> HIDE DEF paid, n
<1>5. Cost(tx, w, n, a) = Cost(tx, w, k, a) + (IF tx.token = a THEN tx.fee ELSE 0)
  BY <1>1, <1>2, <1>3, <1>4
<1>6. QED
  BY <1>5 DEF n

LEMMA CostOfCall ==
  ASSUME NEW tx \in Transaction, NEW w \in Nat, NEW k \in Nat, NEW a
  PROVE  Cost([tx EXCEPT !.executed = TRUE], w + 1, k, a)
           = Cost(tx, w, k, a)
             + (IF tx.call.op = "pay" /\ tx.call.asset = a THEN tx.call.amount ELSE 0)
<1> DEFINE IsPay == tx.call.op = "pay" /\ tx.call.asset = a
           fees == IF tx.token = a THEN k * tx.fee ELSE 0
           done == [tx EXCEPT !.executed = TRUE]
<1>1. tx.fee \in Nat
  BY DataAssumption DEF Transaction
<1>2. fees \in Nat
  BY <1>1, Times
<1>3. IsPay => tx.call.amount \in Nat /\ w * tx.call.amount \in Nat
               /\ (w + 1) * tx.call.amount = w * tx.call.amount + tx.call.amount
  BY PayType, Times
<1>4. done.call = tx.call /\ done.token = tx.token /\ done.fee = tx.fee
  BY DEF Transaction
<1>5. /\ Cost(done, w + 1, k, a) = (IF IsPay THEN (w + 1) * tx.call.amount ELSE 0) + fees
      /\ Cost(tx, w, k, a) = (IF IsPay THEN w * tx.call.amount ELSE 0) + fees
  BY <1>4 DEF Cost
<1> HIDE DEF fees
<1>6. QED
  BY <1>2, <1>3, <1>5

\* executeTransaction pays for what it counts, whatever becomes of the call.
LEMMA ExecuteFunds ==
  ASSUME TypeOK, NEW id \in TxIds, NEW txs, txs[id] \in Transaction,
         id \in DOMAIN txs, NEW conf, Execute(id, txs, conf), NEW a \in Assets
  PROVE  /\ deposited' = deposited
         /\ balance'[a] = balance[a]
              - (Cost(transactions'[id], withdrawals'[id], feePayments'[id], a)
                 - Cost(txs[id], withdrawals[id], feePayments[id], a))
         /\ \A j \in TxIds \ {id} : withdrawals'[j] = withdrawals[j] /\ feePayments'[j] = feePayments[j]
<1> DEFINE tx == txs[id]
           w == withdrawals[id]
           k == feePayments[id]
           k2 == IF tx.fee > 0 THEN k + 1 ELSE k
           fee == IF tx.token = a THEN tx.fee ELSE 0
           IsPay == tx.call.op = "pay" /\ tx.call.asset = a
           amount == IF IsPay THEN tx.call.amount ELSE 0
<1>1. /\ balance \in [Assets -> Nat] /\ withdrawals \in [TxIds -> Nat]
      /\ feePayments \in [TxIds -> Nat] /\ w \in Nat /\ k \in Nat /\ balance[a] \in Nat
  BY DEF TypeOK
<1>2. tx.token \in Assets /\ tx.fee \in Nat /\ tx.call \in Calls /\ tx \in Transaction
  BY FeeType DEF Transaction
<1>3. Cost(tx, w, k, a) \in Nat /\ fee \in Nat /\ k2 \in Nat
  BY <1>1, <1>2, CostType
<1>4. CASE Unconfirmed(id, txs, conf)
  BY <1>1, <1>3, <1>4 DEF Unconfirmed, moneyVars
<1>5. ASSUME /\ UNCHANGED deposited
             /\ feePayments' = [feePayments EXCEPT ![id] = IF txs[id].fee > 0 THEN @ + 1 ELSE @],
             \/ /\ CallSucceeds(txs[id].call, CollectFee(txs[id]))
                /\ transactions' = [txs EXCEPT ![id].executed = TRUE]
                /\ withdrawals' = [withdrawals EXCEPT ![id] = @ + 1]
             \/ /\ balance' = CollectFee(txs[id])
                /\ transactions' = txs
                /\ UNCHANGED <<withdrawals, adminVars>>
      PROVE  /\ deposited' = deposited
             /\ balance'[a] = balance[a]
                  - (Cost(transactions'[id], withdrawals'[id], feePayments'[id], a)
                     - Cost(tx, w, k, a))
             /\ \A j \in TxIds \ {id} : withdrawals'[j] = withdrawals[j] /\ feePayments'[j] = feePayments[j]
  <2>1. feePayments'[id] = k2 /\ \A j \in TxIds \ {id} : feePayments'[j] = feePayments[j]
    BY <1>1, <1>5
  <2>2. /\ CollectFee(tx)[a] = balance[a] - fee
        /\ DOMAIN CollectFee(tx) = Assets
    BY <1>1, <1>2 DEF CollectFee
  <2>3. Cost(tx, w, k2, a) = Cost(tx, w, k, a) + fee
    BY <1>1, <1>2, CostOfFee
  <2>4. CASE /\ balance' = CollectFee(txs[id])
             /\ transactions' = txs
             /\ UNCHANGED <<withdrawals, adminVars>>
    <3> HIDE DEF k, w, k2, fee
    <3>1. Cost(transactions'[id], withdrawals'[id], feePayments'[id], a) = Cost(tx, w, k, a) + fee
      BY <2>1, <2>3, <2>4 DEF w
    <3>2. balance'[a] = balance[a] - fee
      BY <2>2, <2>4
    <3>3. \A b, c, f \in Int : b - f = b - ((c + f) - c)
      OBVIOUS
    <3>4. QED
      BY <1>1, <1>3, <1>5, <2>1, <2>4, <3>1, <3>2, <3>3
  <2>5. CASE /\ CallSucceeds(txs[id].call, CollectFee(txs[id]))
             /\ transactions' = [txs EXCEPT ![id].executed = TRUE]
             /\ withdrawals' = [withdrawals EXCEPT ![id] = @ + 1]
    <3>1. transactions'[id] = [tx EXCEPT !.executed = TRUE] /\ withdrawals'[id] = w + 1
      BY <1>1, <2>5
    <3>2. \A j \in TxIds \ {id} : withdrawals'[j] = withdrawals[j]
      BY <1>1, <2>5
    <3>3. balance'[a] = CollectFee(tx)[a] - amount /\ amount \in Nat
      <4>1. CASE SelfCall(tx.call) /\ balance' = CollectFee(tx)
        <5>1. tx.call.op # "pay"
          BY <4>1 DEF SelfCall
        <5>2. amount = 0
          BY <5>1
        <5>3. QED
          BY <1>1, <1>3, <2>2, <4>1, <5>2
      <4>2. CASE /\ tx.call.op = "pay"
                 /\ balance' = [CollectFee(tx) EXCEPT ![tx.call.asset] = @ - tx.call.amount]
        BY <1>1, <1>2, <1>3, <2>2, <4>2, PayType
      <4>3. QED BY <2>5, <4>1, <4>2 DEF CallSucceeds
    <3>4. Cost([tx EXCEPT !.executed = TRUE], w + 1, k2, a) = Cost(tx, w, k2, a) + amount
      BY <1>1, <1>2, <1>3, CostOfCall
    <3> HIDE DEF k, w, k2, fee, amount, tx
    <3>5. Cost(transactions'[id], withdrawals'[id], feePayments'[id], a)
            = (Cost(tx, w, k, a) + fee) + amount
      BY <2>1, <2>3, <3>1, <3>4
    <3>6. balance'[a] = (balance[a] - fee) - amount
      BY <2>2, <3>3
    <3>7. \A b, c, f, m \in Int : (b - f) - m = b - (((c + f) + m) - c)
      OBVIOUS
    <3>8. balance'[a] = balance[a]
            - (Cost(transactions'[id], withdrawals'[id], feePayments'[id], a) - Cost(tx, w, k, a))
      BY <1>1, <1>3, <3>3, <3>5, <3>6, <3>7
    <3>9. QED
      BY <1>5, <2>1, <3>2, <3>8
  <2>6. QED BY <1>5, <2>4, <2>5
<1>6. QED
  BY <1>4, <1>5 DEF Execute

\* Executing keeps the books, of a transaction that cost nothing before.
LEMMA ExecuteKeepsFunds ==
  ASSUME TypeOK, TypeOK', FundsInv, NEW id \in TxIds,
         NEW txs \in [TxIds -> Transaction \union {NoTransaction}], txs[id] \in Transaction,
         \A j \in TxIds \ {id} : txs[j] = transactions[j],
         \A j \in TxIds \ {id} : transactions'[j] = txs[j],
         \A a \in Assets : Cost(txs[id], withdrawals[id], feePayments[id], a)
                              = Cost(transactions[id], withdrawals[id], feePayments[id], a),
         id < transactionCount', transactionCount' \in {transactionCount, transactionCount + 1},
         NEW conf, Execute(id, txs, conf)
  PROVE  FundsInv'
<1>0. /\ withdrawals \in [TxIds -> Nat] /\ feePayments \in [TxIds -> Nat]
      /\ balance \in [Assets -> Nat] /\ deposited \in [Assets -> Nat]
      /\ transactionCount \in 0..MaxTransactions
      /\ transactions \in [TxIds -> Transaction \union {NoTransaction}]
  BY DEF TypeOK
<1>0a. /\ withdrawals' \in [TxIds -> Nat] /\ feePayments' \in [TxIds -> Nat]
       /\ transactions' \in [TxIds -> Transaction \union {NoTransaction}]
  BY DEF TypeOK
<1>1. /\ \A j \in TxIds : /\ transactions[j] \in Transaction \union {NoTransaction}
                          /\ transactions'[j] \in Transaction \union {NoTransaction}
      /\ transactionCount \in Nat /\ TxIds \subseteq Nat
  BY <1>0, <1>0a, BoundsAssumption DEF TxIds
<1>2. \A a \in Assets :
         /\ deposited' = deposited
         /\ balance'[a] = balance[a]
              - (Cost(transactions'[id], withdrawals'[id], feePayments'[id], a)
                 - Cost(txs[id], withdrawals[id], feePayments[id], a))
         /\ \A j \in TxIds \ {id} : withdrawals'[j] = withdrawals[j] /\ feePayments'[j] = feePayments[j]
  BY ExecuteFunds
<1>3. Native \in Assets
  BY DEF Assets
<1>4. /\ deposited' = deposited
      /\ \A j \in TxIds \ {id} : /\ withdrawals'[j] = withdrawals[j]
                                 /\ feePayments'[j] = feePayments[j]
                                 /\ transactions'[j] = transactions[j]
  BY <1>2, <1>3
<1>5. ASSUME NEW a \in Assets
      PROVE  balance'[a] = deposited'[a]
               - Total(Costs(transactions', withdrawals', feePayments', a), TxIds)
  <2> DEFINE old == Total(Costs(transactions, withdrawals, feePayments, a), TxIds)
             new == Total(Costs(transactions', withdrawals', feePayments', a), TxIds)
             c == Cost(transactions[id], withdrawals[id], feePayments[id], a)
             d == Cost(transactions'[id], withdrawals'[id], feePayments'[id], a)
  <2>1. old \in Nat /\ new = old + d - c /\ c \in Nat /\ d \in Nat
    <3> DEFINE f == Costs(transactions, withdrawals, feePayments, a)
               g == Costs(transactions', withdrawals', feePayments', a)
               S == TxIds
    <3>1. \A j \in S : /\ f[j] = Cost(transactions[j], withdrawals[j], feePayments[j], a)
                       /\ g[j] = Cost(transactions'[j], withdrawals'[j], feePayments'[j], a)
      BY DEF Costs
    <3>2. \A j \in S : f[j] \in Nat /\ g[j] \in Nat
      <4> SUFFICES ASSUME NEW j \in S PROVE f[j] \in Nat /\ g[j] \in Nat
        OBVIOUS
      <4>1. Cost(transactions[j], withdrawals[j], feePayments[j], a) \in Nat
        BY <1>0, <1>1, CostType
      <4>2. Cost(transactions'[j], withdrawals'[j], feePayments'[j], a) \in Nat
        <5>1. withdrawals'[j] \in Nat /\ feePayments'[j] \in Nat
          BY <1>0a
        <5>2. QED BY <1>1, <5>1, CostType
      <4>3. QED BY <3>1, <4>1, <4>2
    <3>3. \A j \in S \ {id} : f[j] = g[j]
      BY <1>4, <3>1
    <3>4. id \in S /\ IsFiniteSet(S) /\ f[id] = c /\ g[id] = d
      BY <3>1, TxIdsFinite
    <3> HIDE DEF f, g, S, c, d
    <3>5. Total(f, S) \in Nat /\ Total(g, S) = Total(f, S) + g[id] - f[id]
      BY ONLY <3>2, <3>3, <3>4, TotalChange
    <3>6. QED BY <3>2, <3>4, <3>5 DEF f, g, S
  <2>2. balance'[a] = balance[a] - (d - c) /\ balance[a] = deposited[a] - old
        /\ deposited[a] \in Nat /\ balance[a] \in Nat
    BY <1>0, <1>2, <1>4 DEF FundsInv
  <2> HIDE DEF old, new, c, d
  <2>3. \A x, o, p, q \in Int : (x - o) - (p - q) = x - (o + p - q)
    OBVIOUS
  <2>4. balance'[a] = deposited[a] - new
    BY <2>1, <2>2, <2>3
  <2>5. QED BY <1>4, <2>4 DEF new
<1>6. \A j \in TxIds : ~(j < transactionCount') => feePayments'[j] = 0
  BY <1>1, <1>4 DEF FundsInv
<1>7. QED BY <1>5, <1>6 DEF FundsInv

LEMMA FundsKept ==
  ASSUME FundsInv, UNCHANGED <<transactions, transactionCount, withdrawals, feePayments>>,
         \A a \in Assets : balance'[a] - deposited'[a] = balance[a] - deposited[a],
         TypeOK, TypeOK'
  PROVE  FundsInv'
<1>1. /\ balance \in [Assets -> Nat] /\ deposited \in [Assets -> Nat]
      /\ balance' \in [Assets -> Nat] /\ deposited' \in [Assets -> Nat]
  BY DEF TypeOK
<1>2. ASSUME NEW a \in Assets
      PROVE  balance'[a] = deposited'[a]
               - Total(Costs(transactions', withdrawals', feePayments', a), TxIds)
  <2> DEFINE old == Total(Costs(transactions, withdrawals, feePayments, a), TxIds)
  <2>1. old \in Nat
    <3>1. \A j \in TxIds : Costs(transactions, withdrawals, feePayments, a)[j] \in Nat
      BY CostType DEF TypeOK, Costs
    <3>2. QED BY <3>1, TxIdsFinite, UnitsFinite
  <2>2. balance[a] = deposited[a] - old
    BY DEF FundsInv
  <2> HIDE DEF old
  <2>3. balance'[a] = deposited'[a] - old
    BY <1>1, <2>1, <2>2
  <2>4. QED BY <2>3 DEF old
<1>3. QED BY <1>2 DEF FundsInv

LEMMA FundsStep == IInv /\ IInv' /\ FundsInv /\ [Next]_vars => FundsInv'
<1> SUFFICES ASSUME IInv, IInv', FundsInv, [Next]_vars PROVE FundsInv'
  OBVIOUS
<1>0. /\ TypeOK /\ TypeOK' /\ transactionCount \in 0..MaxTransactions
      /\ transactions \in [TxIds -> Transaction \union {NoTransaction}]
      /\ balance \in [Assets -> Nat] /\ deposited \in [Assets -> Nat]
  BY DEF IInv, TypeOK
<1>1. /\ TypeOK /\ TypeOK' /\ TxIds \subseteq Nat /\ transactionCount \in Nat
      /\ transactions \in [TxIds -> Transaction \union {NoTransaction}]
      /\ balance \in [Assets -> Nat] /\ deposited \in [Assets -> Nat]
  BY <1>0, BoundsAssumption DEF TxIds
<1>2. ASSUME NEW o \in Accounts, NEW c \in Calls, NEW n \in Nonces, NEW t \in Assets,
             NEW f \in Fees, SubmitTransaction(o, c, n, t, f)
      PROVE  FundsInv'
  <2> DEFINE id == transactionCount
             tx == [call |-> c, executed |-> FALSE, nonce |-> n, token |-> t, fee |-> f]
             txs == [transactions EXCEPT ![id] = tx]
  <2>1. /\ id \in TxIds /\ transactionCount' = id + 1 /\ tx \in Transaction
        /\ txs \in [TxIds -> Transaction \union {NoTransaction}] /\ txs[id] = tx
        /\ \A j \in TxIds \ {id} : txs[j] = transactions[j]
        /\ Execute(id, txs, confirmations')
    BY <1>1, <1>2, BoundsAssumption DEF SubmitTransaction, TypeOK, TxIds, Transaction
  <2>2. withdrawals[id] = 0 /\ feePayments[id] = 0
    BY <1>1, <2>1 DEF IInv, LedgerInv, SubmittedPrefix, WithdrawnOnce, NoTransaction, FundsInv
  <2> HIDE DEF txs, tx
  <2>3. \A j \in TxIds \ {id} : transactions'[j] = txs[j]
    <3>1. LedgerAfter(id, txs)
      BY <2>1, ExecuteEffect DEF LedgerAfter, IInv
    <3>2. txs[id] \in Transaction
      BY <2>1
    <3>3. QED BY <2>1, <3>1, <3>2, LedgerAfterFrame
  <2>4. \A a \in Assets : Cost(txs[id], withdrawals[id], feePayments[id], a)
                              = Cost(transactions[id], withdrawals[id], feePayments[id], a)
    BY <1>1, <2>1, <2>2, CostOfNothing
  <2>5. id < transactionCount' /\ transactionCount' \in {transactionCount, transactionCount + 1}
    BY <1>1, <2>1
  <2>6. txs[id] \in Transaction
    BY <2>1
  <2> HIDE DEF id
  <2>7. QED
    BY <1>1, <2>1, <2>3, <2>4, <2>5, <2>6, ExecuteKeepsFunds
<1>3. ASSUME NEW o \in Accounts, NEW id \in TxIds,
             ConfirmTransaction(o, id) \/ ExecuteTransaction(o, id)
      PROVE  FundsInv'
  <2>1. id < transactionCount
    BY <1>3, ExistingTransaction DEF ConfirmTransaction, ExecuteTransaction
  <2>2. transactions[id] \in Transaction
    BY <2>1 DEF IInv, LedgerInv, SubmittedPrefix
  <2>3. transactionCount' = transactionCount /\ Execute(id, transactions, confirmations')
    BY <1>3 DEF ConfirmTransaction, ExecuteTransaction
  <2>4. \A j \in TxIds \ {id} : transactions'[j] = transactions[j]
    <3>1. LedgerAfter(id, transactions)
      BY <1>1, <2>2, <2>3, ExecuteEffect DEF LedgerAfter, IInv
    <3>2. QED BY <1>1, <2>2, <3>1, LedgerAfterFrame
  <2>5. QED
    BY <1>1, <2>1, <2>2, <2>3, <2>4, ExecuteKeepsFunds
<1>4. CASE UNCHANGED <<transactions, transactionCount, moneyVars>>
  <2>1. UNCHANGED <<transactions, transactionCount, withdrawals, feePayments, balance, deposited>>
    BY <1>4 DEF moneyVars
  <2>2. QED BY <1>1, <2>1, FundsKept
<1>5. ASSUME NEW asset \in Assets, NEW amount \in Amounts, Deposit(asset, amount)
      PROVE  FundsInv'
  <2>1. \A a \in Assets : balance'[a] - deposited'[a] = balance[a] - deposited[a]
    BY <1>1, <1>5, DataAssumption DEF Deposit
  <2>2. UNCHANGED <<transactions, transactionCount, withdrawals, feePayments>>
    BY <1>5 DEF Deposit, ledgerVars
  <2>3. QED BY <1>1, <2>1, <2>2, FundsKept
<1>6. ASSUME NEW o \in Accounts, NEW id \in TxIds, RevokeConfirmation(o, id)
      PROVE  FundsInv'
  BY <1>4, <1>6 DEF RevokeConfirmation
<1>7. ASSUME NEW o \in Accounts, NEW t \in Tokens,
             \/ \E min \in Amounts \union {0} : AddToken(o, t, min)
             \/ RemoveToken(o, t)
      PROVE  FundsInv'
  BY <1>4, <1>7 DEF AddToken, RemoveToken, ledgerVars
<1>8. ASSUME NEW amount \in Amounts, Swap(amount) \/ \E t \in Tokens : SwapToken(t, amount)
      PROVE  FundsInv'
  BY <1>5, <1>8 DEF Swap, SwapToken, Assets
<1>9. CASE UNCHANGED vars
  BY <1>4, <1>9 DEF vars, ledgerVars
<1>10. QED
  BY <1>2, <1>3, <1>6, <1>7, <1>8, <1>9 DEF Next

LEMMA FundsInit == Init => FundsInv
<1> SUFFICES ASSUME Init PROVE FundsInv
  OBVIOUS
<1>1. ASSUME NEW a \in Assets
      PROVE  balance[a] = deposited[a]
               - Total(Costs(transactions, withdrawals, feePayments, a), TxIds)
  <2>1. \A id \in TxIds : Cost(NoTransaction, 0, 0, a) = 0
    BY CostOfNothing
  <2>2. \A id \in TxIds : Costs(transactions, withdrawals, feePayments, a)[id] = 0
    BY <2>1 DEF Init, Costs
  <2>3. Total(Costs(transactions, withdrawals, feePayments, a), TxIds) = 0
    BY <2>2, TotalOfZeros
  <2>4. balance[a] = 0 /\ deposited[a] = 0
    BY DEF Init
  <2>5. QED BY <2>3, <2>4
<1>2. \A id \in TxIds : feePayments[id] = 0
  BY DEF Init
<1>3. QED BY <1>1, <1>2 DEF FundsInv

\* No payment, fee, failed or repeated attempt makes funds appear or vanish.
THEOREM FundsAccountedSafe == Spec => []FundsAccounted
<1>1. FundsInv => FundsAccounted
  <2>1. \A a : Costs(transactions, withdrawals, feePayments, a) = [id \in TxIds |-> Spent(a, id)]
    BY DEF Costs, Cost, Spent
  <2>2. QED BY <2>1 DEF FundsInv, FundsAccounted
<1>2. QED
  BY <1>1, FundsInit, FundsStep, Invariance, PTL DEF Spec

=============================================================================
