------------------------------ MODULE EthAccount ------------------------------
(***************************************************************************)
(* How the threads of one process send transactions from the one Ethereum  *)
(* account they share: EtherLeader its submissions, and EtherSigner, in    *)
(* its listener's thread, its confirmations.  A thread asks the node for   *)
(* the account's next nonce and the gas price, builds and signs            *)
(* (raw_transaction, sign_transaction), and broadcasts; nothing keeps      *)
(* another thread from doing the same in between.                          *)
(*                                                                         *)
(* A signature is what matters of one: s, which of the two points with     *)
(* that s it belongs to (`odd`), and v.  The pair of s and odd and the     *)
(* pair of Order - s and the other point are both signatures of the same   *)
(* message by the same key; nodes take the one with the low s.             *)
(***************************************************************************)
EXTENDS Integers, FiniteSets

CONSTANTS
  Senders,     \* the threads that send
  ChainId,     \* w3.eth.chainId
  Order,       \* secpk1n
  GasPrices,   \* what w3.eth.gasPrice may answer
  MaxNonce     \* bound: transactions of the account

ASSUME AccountAssumption ==
  /\ ChainId \in Nat \ {0}
  /\ Order \in Nat /\ Order >= 3 /\ Order % 2 = 1
  /\ GasPrices \subseteq Nat
  /\ MaxNonce \in Nat

VARIABLES
  prepared,    \* what each thread has signed and not yet broadcast
  contended,   \* history: another thread broadcast since the nonce was read
  \* external: the chain and its nodes
  nextNonce,   \* transactions of the account that are mined
  pool         \* those that are not

accountVars == <<prepared, contended, nextNonce, pool>>

Account == "the account"
Stranger == "another account"
Tx == [nonce : Nat, gasprice : GasPrices, sender : {Account, Stranger}]
NoTx == [nonce |-> -1]

AccountTypeOK ==
  /\ prepared \in [Senders -> Tx \union {NoTx}]
  /\ contended \in [Senders -> BOOLEAN]
  /\ nextNonce \in Nat
  /\ pool \subseteq Tx

AccountInit ==
  /\ prepared = [t \in Senders |-> NoTx]
  /\ contended = [t \in Senders |-> FALSE]
  /\ nextNonce = 0
  /\ pool = {}

-----------------------------------------------------------------------------
(* Signing                                                                 *)

RawSignature == [s : 1..(Order - 1), odd : {0, 1}]

\* Which of the two candidates for v recovers the account's key.
RecoveryId(raw, s) == 27 + (IF s = raw.s THEN raw.odd ELSE 1 - raw.odd)

\* Mutant: the token's signature is taken as it comes.
AnyS(s) == s

LowS(s) == IF s * 2 < Order THEN s ELSE Order - s

\* The key store: the low s, and v found by recovering the key with each.
Signature(raw) ==
  LET s == LowS(raw.s)
  IN  [s |-> s, v |-> CHOOSE v \in {27, 28} : v = RecoveryId(raw, s)]

\* Mutant: v is that of a signature without a chain id.
SignedWithoutChain(raw) == [s |-> Signature(raw).s, v |-> Signature(raw).v, raw |-> raw]

\* Transaction.sign: the chain id goes into the message and into v.
Signed(raw) ==
  [s |-> Signature(raw).s, v |-> Signature(raw).v + 8 + ChainId * 2, raw |-> raw]

NetworkId(sig) == ((sig.v - 1) \div 2) - 17

\* check_low_s_homestead, which nodes do.
HasLowS(sig) == sig.s <= Order \div 2 /\ sig.s # 0

\* Transaction.sender, which is also how a node finds out who sent a
\* transaction: a wrong v recovers some other key.
SenderOf(sig) ==
  IF /\ sig.v >= 37 /\ NetworkId(sig) = ChainId
     /\ sig.v - NetworkId(sig) * 2 - 8 = RecoveryId(sig.raw, sig.s)
     /\ HasLowS(sig)
    THEN Account ELSE Stranger

-----------------------------------------------------------------------------
(* Sending                                                                 *)

\* Mutant: the transactions that are not mined yet are not counted.
LatestCount == nextNonce

\* w3.eth.getTransactionCount(address, 'pending').
PendingCount ==
  CHOOSE n \in nextNonce..(nextNonce + Cardinality(pool)) :
    /\ \A k \in nextNonce..(n - 1) : \E tx \in pool : tx.nonce = k
    /\ \A tx \in pool : tx.nonce # n

\* raw_transaction and sign_transaction.
Prepare(t) ==
  /\ prepared[t] = NoTx
  /\ PendingCount < MaxNonce
  /\ \E price \in GasPrices, raw \in RawSignature :
       prepared' = [prepared EXCEPT ![t] =
         [nonce |-> PendingCount, gasprice |-> price, sender |-> SenderOf(Signed(raw))]]
  /\ contended' = [contended EXCEPT ![t] = FALSE]
  /\ UNCHANGED <<nextNonce, pool>>

SameNonce(tx) == {p \in pool : p.nonce = tx.nonce}

\* The node takes a transaction of the account if its nonce is not used up; one
\* that is pending is replaced by one with a higher price.
IsTaken(tx) ==
  /\ tx.sender = Account
  /\ tx.nonce >= nextNonce
  /\ \A p \in SameNonce(tx) : tx.gasprice > p.gasprice

\* broadcast_transaction.
Send(t) ==
  /\ prepared[t] # NoTx
  /\ IsTaken(prepared[t])
  /\ pool' = (pool \ SameNonce(prepared[t])) \union {prepared[t]}
  /\ prepared' = [prepared EXCEPT ![t] = NoTx]
  /\ contended' = [u \in Senders |-> u # t /\ (contended[u] \/ prepared[u] # NoTx)]
  /\ UNCHANGED nextNonce

\* The node's refusal is a ValueError: the leader records FAILED, the signer
\* logs it, and both go on.
Refused(t) ==
  /\ prepared[t] # NoTx
  /\ ~IsTaken(prepared[t])
  /\ prepared' = [prepared EXCEPT ![t] = NoTx]
  /\ contended' = [contended EXCEPT ![t] = FALSE]
  /\ UNCHANGED <<nextNonce, pool>>

\* Transactions of an account are mined in the order of their nonces.
Mine ==
  /\ \E tx \in pool : tx.nonce = nextNonce /\ pool' = pool \ {tx}
  /\ nextNonce' = nextNonce + 1
  /\ UNCHANGED <<prepared, contended>>

-----------------------------------------------------------------------------
(* Properties                                                              *)

\* A thread that no other thread of the account came before is neither refused
\* nor displaces a pending transaction, which its sender has recorded as
\* submitted: whatever the key store returns, the node finds the account in
\* the signature, and the pending nonce is free.
OnlyContendersClash ==
  \A t \in Senders :
     prepared[t] # NoTx /\ ~contended[t]
       => IsTaken(prepared[t]) /\ SameNonce(prepared[t]) = {}
=============================================================================
