-------------------------- MODULE BridgeProcessProofs --------------------------
(***************************************************************************)
(* Safety of BridgeProcess and of the account its threads share            *)
(* (EthAccount), for every chain id, every odd group order from 3 on, any  *)
(* gas prices, any configuration and any list of cosigners.                *)
(*                                                                         *)
(* Two inductive invariants.  AccountInv: the transactions that are not    *)
(* mined have the nonces from the account's to some number without gap or  *)
(* repetition, that number is the pending nonce, and a thread before which *)
(* no other came has prepared a transaction with it.  SetupInv: a home     *)
(* with a key in it is complete, unless a set-up was cut short, or is      *)
(* under way and has everything up to its next step.                       *)
(***************************************************************************)
EXTENDS BridgeProcess, OrderLemmas, SequenceTheorems

-----------------------------------------------------------------------------
(* Signing                                                                 *)

\* s is always in the lower half, where nodes want it.
LEMMA LowSIsLow ==
  ASSUME NEW s \in 1..(Order - 1)
  PROVE  LowS(s) \in 1..(Order \div 2)
<1>1. Order \in Nat /\ Order >= 3 /\ Order % 2 = 1
  BY AccountAssumption
<1>2. CASE s * 2 < Order
  BY <1>1, <1>2 DEF LowS
<1>3. CASE ~(s * 2 < Order)
  BY <1>1, <1>3 DEF LowS
<1>4. QED BY <1>2, <1>3

\* v is the one of its two values that recovers the account.
LEMMA RecoveryIdIsV ==
  ASSUME NEW raw \in RawSignature
  PROVE  /\ RecoveryId(raw, LowS(raw.s)) \in {27, 28}
         /\ Signature(raw) = [s |-> LowS(raw.s), v |-> RecoveryId(raw, LowS(raw.s))]
<1>1. RecoveryId(raw, LowS(raw.s)) \in {27, 28}
  BY DEF RawSignature, RecoveryId
<1>2. (CHOOSE v \in {27, 28} : v = RecoveryId(raw, LowS(raw.s))) = RecoveryId(raw, LowS(raw.s))
  BY <1>1
<1>3. QED BY <1>1, <1>2 DEF Signature

\* The chain id can be read back from the v that sign() computes.
LEMMA ChainIdIsReadBack ==
  ASSUME NEW v \in {27, 28}
  PROVE  /\ v + 8 + ChainId * 2 >= 37
         /\ ((v + 8 + ChainId * 2 - 1) \div 2) - 17 = ChainId
BY AccountAssumption

\* Whatever signature of the message the key store returns, the sender that nodes
\* recover from the signed transaction is the account.
LEMMA SenderIsAccount ==
  ASSUME NEW raw \in RawSignature
  PROVE  SenderOf(Signed(raw)) = Account
<1> DEFINE sig == Signed(raw)
           v == RecoveryId(raw, LowS(raw.s))
<1>1. v \in {27, 28} /\ Signature(raw) = [s |-> LowS(raw.s), v |-> v]
  BY RecoveryIdIsV
<1>2. sig = [s |-> LowS(raw.s), v |-> v + 8 + ChainId * 2, raw |-> raw]
  BY <1>1 DEF Signed
<1>3. sig.v >= 37 /\ NetworkId(sig) = ChainId
  <2>1. sig.v = v + 8 + ChainId * 2
    BY <1>2
  <2> HIDE DEF v, sig
  <2>2. /\ v + 8 + ChainId * 2 >= 37
        /\ ((v + 8 + ChainId * 2 - 1) \div 2) - 17 = ChainId
    BY <1>1, ChainIdIsReadBack
  <2>3. NetworkId(sig) = ((sig.v - 1) \div 2) - 17
    BY DEF NetworkId
  <2>4. v \in Int /\ ChainId \in Int
    BY <1>1, AccountAssumption
  <2>5. QED BY <2>1, <2>2, <2>3, <2>4
<1>4. sig.v - NetworkId(sig) * 2 - 8 = RecoveryId(sig.raw, sig.s)
  <2>1. sig.v = v + 8 + ChainId * 2 /\ RecoveryId(sig.raw, sig.s) = v
    BY <1>2
  <2> HIDE DEF v, sig
  <2>2. v \in Int /\ ChainId \in Int
    BY <1>1, AccountAssumption
  <2>3. QED BY <1>3, <2>1, <2>2
<1>5. HasLowS(sig)
  <2>1. raw.s \in 1..(Order - 1)
    BY DEF RawSignature
  <2>2. LowS(raw.s) \in 1..(Order \div 2) /\ sig.s = LowS(raw.s)
    BY <1>2, <2>1, LowSIsLow
  <2>3. QED BY <2>2, AccountAssumption DEF HasLowS
<1>6. QED BY <1>3, <1>4, <1>5 DEF SenderOf

-----------------------------------------------------------------------------
(* The account                                                             *)

\* The transactions that are not mined occupy the nonces from the account's up to
\* the number top, one each.
Contiguous(top) ==
  /\ top \in Nat /\ nextNonce <= top
  /\ IsFiniteSet(pool)
  /\ \A tx \in pool : tx.nonce \in nextNonce..(top - 1)
  /\ \A n \in nextNonce..(top - 1) : \E tx \in pool : tx.nonce = n
  /\ \A tx, other \in pool : tx.nonce = other.nonce => tx = other

\* What the threads have prepared is signed by the account, and up to date unless
\* another thread has broadcast meanwhile.
UpToDate(top) ==
  \A t \in Senders :
     prepared[t] # NoTx =>
       /\ prepared[t].sender = Account
       /\ prepared[t].nonce <= top
       /\ ~contended[t] => prepared[t].nonce = top

AccountInv == \E top \in Nat : Contiguous(top) /\ UpToDate(top)

\* NoTx is not a transaction.
LEMMA NoTxIsNone == NoTx \notin Tx
BY DEF NoTx, Tx

\* The pending nonce is the first that no transaction of the account has.
LEMMA PendingIsTop ==
  ASSUME AccountTypeOK, NEW top \in Nat, Contiguous(top)
  PROVE  PendingCount = top
<1> DEFINE Free == nextNonce..(top - 1)
           f == [tx \in pool |-> tx.nonce]
<1>1. nextNonce \in Nat
  BY DEF AccountTypeOK
<1>2. f \in Surjection(pool, Free)
  BY DEF Contiguous, Surjection
<1>3. Cardinality(Free) <= Cardinality(pool) /\ Cardinality(pool) \in Nat
  BY <1>2, FS_Surjection, FS_CardinalityType DEF Contiguous
<1>4. Cardinality(Free) = top - nextNonce
  BY <1>1, FS_Interval DEF Contiguous
<1>5. top \in nextNonce..(nextNonce + Cardinality(pool))
  BY <1>1, <1>3, <1>4 DEF Contiguous
<1> DEFINE IsPendingNonce(n) ==
             /\ \A k \in nextNonce..(n - 1) : \E tx \in pool : tx.nonce = k
             /\ \A tx \in pool : tx.nonce # n
<1>6. IsPendingNonce(top)
  BY <1>1 DEF Contiguous
<1>7. ASSUME NEW n \in nextNonce..(nextNonce + Cardinality(pool)), IsPendingNonce(n)
      PROVE  n = top
  <2>1. n \in Int /\ n >= nextNonce
    BY <1>1, <1>3
  <2>2. CASE n < top
    <3>1. n \in Free
      BY <1>1, <2>1, <2>2
    <3>2. QED BY <1>7, <3>1 DEF Contiguous
  <2>3. CASE n > top
    <3>1. top \in nextNonce..(n - 1)
      BY <1>1, <2>1, <2>3 DEF Contiguous
    <3>2. QED BY <1>6, <1>7, <3>1
  <2>4. QED BY <2>1, <2>2, <2>3
<1>8. QED BY <1>5, <1>6, <1>7 DEF PendingCount

LEMMA AccountTypeStep ==
  ASSUME AccountTypeOK, AccountInv,
         Mine \/ \E t \in Senders : Prepare(t) \/ Send(t) \/ Refused(t)
  PROVE  AccountTypeOK'
<1>1. CASE Mine
  BY <1>1 DEF Mine, AccountTypeOK
<1>2. ASSUME NEW t \in Senders, Prepare(t) PROVE AccountTypeOK'
  <2>1. PICK price \in GasPrices, raw \in RawSignature :
          prepared' = [prepared EXCEPT ![t] =
            [nonce |-> PendingCount, gasprice |-> price, sender |-> SenderOf(Signed(raw))]]
    BY <1>2 DEF Prepare
  <2>2. PendingCount \in Nat
    BY PendingIsTop DEF AccountInv
  <2>3. QED BY <1>2, <2>1, <2>2 DEF Prepare, AccountTypeOK, Tx, SenderOf
<1>3. ASSUME NEW t \in Senders, Send(t) PROVE AccountTypeOK'
  BY <1>3 DEF Send, AccountTypeOK
<1>4. ASSUME NEW t \in Senders, Refused(t) PROVE AccountTypeOK'
  BY <1>4 DEF Refused, AccountTypeOK
<1>5. QED BY <1>1, <1>2, <1>3, <1>4

\* Each of the account's actions keeps the nonces in order.
LEMMA AccountStep ==
  ASSUME AccountTypeOK, AccountInv,
         Mine \/ \E t \in Senders : Prepare(t) \/ Send(t) \/ Refused(t)
  PROVE  AccountInv'
<1>1. PICK top \in Nat : Contiguous(top) /\ UpToDate(top)
  BY DEF AccountInv
<1> USE DEF Contiguous, UpToDate
<1>2. CASE Mine
  <2>1. PICK tx \in pool : tx.nonce = nextNonce /\ pool' = pool \ {tx}
    BY <1>2 DEF Mine
  <2>2. nextNonce' = nextNonce + 1 /\ UNCHANGED <<prepared, contended>> /\ nextNonce \in Nat
    BY <1>2 DEF Mine, AccountTypeOK
  <2>3. IsFiniteSet(pool')
    BY <1>1, <2>1, FS_RemoveElement
  <2>4. Contiguous(top)'
    <3>1. nextNonce' <= top
      BY <1>1, <2>1, <2>2
    <3>2. \A p \in pool' : p.nonce \in nextNonce'..(top - 1)
      <4>1. SUFFICES ASSUME NEW p \in pool' PROVE p.nonce \in nextNonce'..(top - 1)
        OBVIOUS
      <4>2. p \in pool /\ p.nonce # nextNonce
        BY <1>1, <2>1
      <4>3. QED BY <1>1, <2>2, <4>2
    <3>3. \A n \in nextNonce'..(top - 1) : \E p \in pool' : p.nonce = n
      BY <1>1, <2>1, <2>2
    <3>4. \A p, q \in pool' : p.nonce = q.nonce => p = q
      BY <1>1, <2>1
    <3>5. QED BY <1>1, <2>3, <3>1, <3>2, <3>3, <3>4
  <2>5. UpToDate(top)'
    BY <1>1, <2>2
  <2>6. QED BY <2>4, <2>5 DEF AccountInv
<1>3. ASSUME NEW t \in Senders, Prepare(t) PROVE AccountInv'
  <2>1. PICK price \in GasPrices, raw \in RawSignature :
          prepared' = [prepared EXCEPT ![t] =
            [nonce |-> PendingCount, gasprice |-> price, sender |-> SenderOf(Signed(raw))]]
    BY <1>3 DEF Prepare
  <2>2. PendingCount = top /\ SenderOf(Signed(raw)) = Account
    BY <1>1, PendingIsTop, SenderIsAccount
  <2>3. Contiguous(top)'
    BY <1>1, <1>3 DEF Prepare
  <2>4. UpToDate(top)'
    BY <1>1, <1>3, <2>1, <2>2 DEF Prepare, AccountTypeOK
  <2>5. QED BY <2>3, <2>4 DEF AccountInv
<1>4. ASSUME NEW t \in Senders, Send(t) PROVE AccountInv'
  <2> DEFINE tx == prepared[t]
             n == tx.nonce
  <2>1. tx \in Tx /\ n \in Nat /\ nextNonce \in Nat /\ nextNonce <= n /\ n <= top
    <3>1. tx \in Tx
      BY <1>4 DEF Send, AccountTypeOK
    <3>2. QED BY <1>1, <1>4, <3>1 DEF Send, AccountTypeOK, IsTaken, Tx
  <2>2. pool' = (pool \ SameNonce(tx)) \union {tx} /\ UNCHANGED nextNonce
    BY <1>4 DEF Send
  <2> HIDE DEF tx
  <2>3. PICK newTop \in Nat : newTop = IF n = top THEN top + 1 ELSE top
    BY <1>1
  <2> /\ nextNonce <= newTop /\ top <= newTop
    BY <1>1, <2>1, <2>3
  <2>4. IsFiniteSet(pool')
    BY <1>1, <2>2, FS_Difference, FS_AddElement
  <2>5. \A p \in pool' : p = tx \/ (p \in pool /\ p.nonce # n)
    BY <2>2 DEF SameNonce
  <2>6. \A p \in pool' : p.nonce \in nextNonce..(newTop - 1)
    BY <1>1, <2>1, <2>3, <2>5
  <2>7. \A k \in nextNonce..(newTop - 1) : \E p \in pool' : p.nonce = k
    <3>1. SUFFICES ASSUME NEW k \in nextNonce..(newTop - 1), k # n
                   PROVE  \E p \in pool' : p.nonce = k
      BY <2>2
    <3>2. k \in nextNonce..(top - 1)
      BY <2>1, <2>3, <3>1
    <3>3. QED BY <1>1, <2>2, <3>1, <3>2 DEF SameNonce
  <2>8. \A p, q \in pool' : p.nonce = q.nonce => p = q
    BY <1>1, <2>5
  <2>9. Contiguous(newTop)'
    BY <2>2, <2>3, <2>4, <2>6, <2>7, <2>8
  <2>10. UpToDate(newTop)'
    <3>1. SUFFICES ASSUME NEW u \in Senders, prepared'[u] # NoTx
                   PROVE  /\ prepared'[u].sender = Account
                          /\ prepared'[u].nonce <= newTop
                          /\ contended'[u]
      OBVIOUS
    <3>2. u # t /\ prepared'[u] = prepared[u]
      BY <1>4, <3>1 DEF Send, AccountTypeOK
    <3>3. contended'[u]
      BY <1>4, <3>1, <3>2 DEF Send
    <3>4. prepared[u].nonce \in Nat
      BY <3>1, <3>2 DEF AccountTypeOK, Tx
    <3>5. QED BY <1>1, <2>3, <3>1, <3>2, <3>3, <3>4
  <2>11. QED BY <2>3, <2>9, <2>10 DEF AccountInv
<1>5. ASSUME NEW t \in Senders, Refused(t) PROVE AccountInv'
  <2>1. Contiguous(top)'
    BY <1>1, <1>5 DEF Refused
  <2>2. UpToDate(top)'
    BY <1>1, <1>5 DEF Refused, AccountTypeOK
  <2>3. QED BY <2>1, <2>2 DEF AccountInv
<1>6. QED BY <1>2, <1>3, <1>4, <1>5

\* A thread or the process that ends forgets what it has prepared.
LEMMA AccountForgets ==
  ASSUME AccountTypeOK, AccountInv, UNCHANGED <<nextNonce, pool>>,
         \A t \in Senders :
            \/ prepared'[t] = NoTx
            \/ prepared'[t] = prepared[t] /\ contended'[t] = contended[t]
  PROVE  AccountInv'
<1>1. PICK top \in Nat : Contiguous(top) /\ UpToDate(top)
  BY DEF AccountInv
<1>2. Contiguous(top)'
  BY <1>1 DEF Contiguous
<1>3. UpToDate(top)'
  BY <1>1 DEF UpToDate
<1>4. QED BY <1>2, <1>3 DEF AccountInv

LEMMA AccountInvIsSafe == AccountTypeOK /\ AccountInv => OnlyContendersClash
<1> SUFFICES ASSUME AccountTypeOK, AccountInv,
                    NEW t \in Senders, prepared[t] # NoTx, ~contended[t]
             PROVE  IsTaken(prepared[t]) /\ SameNonce(prepared[t]) = {}
  BY DEF OnlyContendersClash
<1>1. PICK top \in Nat : Contiguous(top) /\ UpToDate(top)
  BY DEF AccountInv
<1>2. prepared[t].nonce = top /\ prepared[t].sender = Account
  BY <1>1 DEF UpToDate
<1>3. SameNonce(prepared[t]) = {}
  BY <1>1, <1>2 DEF SameNonce, Contiguous, AccountTypeOK
<1>4. QED BY <1>1, <1>2, <1>3 DEF IsTaken, Contiguous, AccountTypeOK

-----------------------------------------------------------------------------
(* The process                                                             *)

\* The next runner is one: the loops of run_all stay within the list.
RunnerInv ==
  /\ pc \in {"start", "stop"} => runnerAt <= Len(Runners)
  /\ pc \notin {"start", "stop", "join"} => runnerAt = 1

\* What a set-up that was not cut short has left.
SetupInv ==
  /\ pc # "setup" => setupAt = 1
  /\ ~cutShort =>
       /\ pc \in {"configure", "list", "down"} /\ HasKeys => home = Range(SetupSteps)
       /\ pc = "setup" => \A i \in 1..(setupAt - 1) : SetupSteps[i] \in home
  /\ ConfiguredUnlessCutShort

ProcessInv == ProcessTypeOK /\ AccountInv /\ RunnerInv /\ SetupInv

LEMMA RunnersAreThreads ==
  /\ Len(Runners) \in 1..4
  /\ \A i \in 1..Len(Runners) : Runners[i] \in Threads
<1>1. CASE IsLeader
  <2>1. /\ Len(Runners) = 4
        /\ Runners[1] = "EtherSigner" /\ Runners[2] = "Secret20Signer"
        /\ Runners[3] = "EtherLeader" /\ Runners[4] = "Secret20Leader"
    BY <1>1 DEF Runners
  <2>2. QED BY <2>1 DEF Threads
<1>2. CASE ~IsLeader
  <2>1. /\ Len(Runners) = 2
        /\ Runners[1] = "EtherSigner" /\ Runners[2] = "Secret20Signer"
    BY <1>2 DEF Runners
  <2>2. QED BY <2>1 DEF Threads
<1>3. QED BY <1>1, <1>2

\* One thing, a list of things and four more are a list.
LEMMA OneListAndFour ==
  ASSUME NEW S, NEW a \in S, NEW s \in Seq(S), NEW b \in S, NEW c \in S, NEW d \in S, NEW e \in S
  PROVE  /\ (<<a>> \o s) \o <<b, c, d, e>> \in Seq(S)
         /\ Len((<<a>> \o s) \o <<b, c, d, e>>) = Len(s) + 5
<1>1. /\ <<a>> \in Seq(S) /\ Len(<<a>>) = 1
      /\ <<b, c, d, e>> \in Seq(S) /\ Len(<<b, c, d, e>>) = 4 /\ Len(s) \in Nat
  OBVIOUS
<1>2. <<a>> \o s \in Seq(S) /\ Len(<<a>> \o s) = Len(<<a>>) + Len(s)
  BY <1>1, ConcatProperties, Zenon
<1>3. /\ (<<a>> \o s) \o <<b, c, d, e>> \in Seq(S)
      /\ Len((<<a>> \o s) \o <<b, c, d, e>>) = Len(<<a>> \o s) + Len(<<b, c, d, e>>)
  BY <1>1, <1>2, ConcatProperties, Zenon
<1>4. Len(<<a>> \o s) = 1 + Len(s)
  BY <1>1, <1>2
<1>5. QED BY <1>1, <1>3, <1>4

LEMMA SetupStepsAreMany ==
  /\ Len(SetupSteps) \in Nat \ {0}
  /\ DOMAIN SetupSteps = 1..Len(SetupSteps)
  /\ \A i \in 1..Len(SetupSteps) : SetupSteps[i] \in Range(SetupSteps)
<1> DEFINE S == Range(Cosigners) \union {"options", "multisig", "own", "id_tx_io", "queries"}
<1>1. Len(Cosigners) \in Nat /\ DOMAIN Cosigners = 1..Len(Cosigners)
  BY ProcessAssumption, LenProperties
<1>2. Cosigners \in Seq(S)
  <2>1. Cosigners \in [1..Len(Cosigners) -> STRING]
    BY ProcessAssumption, LenProperties
  <2>2. Cosigners \in [1..Len(Cosigners) -> S]
    BY <1>1, <2>1 DEF Range
  <2>3. QED BY <1>1, <2>2, SeqDef
<1>3. /\ "options" \in S /\ "multisig" \in S /\ "own" \in S /\ "id_tx_io" \in S /\ "queries" \in S
  OBVIOUS
<1> HIDE DEF S
<1>4. SetupSteps \in Seq(S) /\ Len(SetupSteps) = Len(Cosigners) + 5
  BY <1>2, <1>3, OneListAndFour DEF SetupSteps
<1>5. DOMAIN SetupSteps = 1..Len(SetupSteps)
  BY <1>4, LenProperties
<1>6. QED BY <1>1, <1>4, <1>5 DEF Range

\* The value of the first place where a field is found, or none.
LEMMA LoadedIsValue ==
  ASSUME ProcessTypeOK, NEW f \in Fields
  PROVE  Loaded(f) \in Values
<1>1. CASE IsMissing(f)
  BY <1>1 DEF Loaded, Values
<1>2. CASE ~IsMissing(f)
  <2> DEFINE i == CHOOSE i \in FoundIn(f) : \A j \in FoundIn(f) : i <= j
  <2>1. FoundIn(f) \in SUBSET Nat /\ FoundIn(f) # {}
    BY <1>2 DEF FoundIn, IsMissing
  <2>2. \E k \in FoundIn(f) : \A j \in FoundIn(f) : k <= j
    BY <2>1, LeastNatural
  <2>3. i \in FoundIn(f)
    BY <2>2
  <2> HIDE DEF i
  <2>4. i \in 1..4 /\ Places(f)[i][2] \in DOMAIN Places(f)[i][1]
    BY <2>3 DEF FoundIn
  <2>5. Places(f)[i][1] \in Environments \union {ConfigFile}
    BY <2>4 DEF Places, ProcessTypeOK
  <2>6. Loaded(f) = Places(f)[i][1][Places(f)[i][2]]
    BY <1>2 DEF Loaded, i
  <2>7. Loaded(f) \in Range(Places(f)[i][1])
    BY <2>4, <2>6 DEF Range
  <2>8. QED BY <2>5, <2>7 DEF Values
<1>3. QED BY <1>1, <1>2

\* A home that holds what every step leaves is complete.
LEMMA HomeComplete ==
  ASSUME NEW H \in SUBSET Range(SetupSteps), \A i \in 1..Len(SetupSteps) : SetupSteps[i] \in H
  PROVE  H = Range(SetupSteps)
BY SetupStepsAreMany DEF Range

-----------------------------------------------------------------------------
(* The steps of the process                                                *)

\* What is left of a process that is down.
LEMMA DownIsTyped ==
  ASSUME ProcessInv, NEW code \in {0, 1}, Down(code),
         home' \subseteq Range(SetupSteps), failures' \in 0..MaxFailures, cutShort' \in BOOLEAN
  PROVE  ProcessTypeOK' /\ AccountInv' /\ RunnerInv'
<1> USE DEF Down
<1>1. AccountTypeOK'
  BY DEF AccountTypeOK, ProcessInv, ProcessTypeOK
<1>2. ProcessTypeOK'
  <2>1. config' = [f \in Fields |-> "None"]
    OBVIOUS
  <2>2. config' \in [Fields -> Values]
    BY <2>1 DEF Values
  <2> HIDE DEF Down
  <2>3. /\ pc' = "down" /\ exitCode' \in {0, 1} /\ setupAt' = 1 /\ runnerAt' = 1
        /\ thread' \in [Threads -> {"new", "running", "ended"}] /\ stopped' = {} /\ env' = env
    BY DEF Down
  <2>4. 1 \in 1..Len(SetupSteps)
    BY SetupStepsAreMany
  <2>5. env \in Environments
    BY DEF ProcessInv, ProcessTypeOK
  <2>6. QED BY <1>1, <2>2, <2>3, <2>4, <2>5 DEF ProcessTypeOK
<1>3. AccountInv'
  BY AccountForgets DEF ProcessInv, ProcessTypeOK
<1>4. RunnerInv'
  BY DEF RunnerInv
<1>5. QED BY <1>2, <1>3, <1>4

LEMMA FailuresCounted ==
  ASSUME ProcessTypeOK, Failure
  PROVE  failures' \in 0..MaxFailures
BY ProcessAssumption DEF ProcessTypeOK, Failure

LEMMA AccountUnchanged ==
  ASSUME ProcessInv, UNCHANGED accountVars
  PROVE  AccountTypeOK' /\ AccountInv'
<1>1. AccountTypeOK'
  BY DEF ProcessInv, ProcessTypeOK, AccountTypeOK, accountVars
<1>2. AccountInv'
  BY AccountForgets DEF ProcessInv, ProcessTypeOK, accountVars
<1>3. QED BY <1>1, <1>2

LEMMA RunnersKept ==
  ASSUME UNCHANGED config
  PROVE  Runners' = Runners
BY DEF Runners, IsLeader

\* The main thread, while the process goes on.
LEMMA MainStep ==
  ASSUME ProcessInv,
         \/ LoadConfig \/ AlreadySetUp \/ BeginSetup \/ SetupStep \/ Build
         \/ StartRunner \/ StopRunner \/ InterruptStart \/ Interrupt \/ Restart
  PROVE  ProcessInv'
<1>1. AccountTypeOK' /\ AccountInv'
  <2>1. UNCHANGED accountVars
    BY DEF LoadConfig, AlreadySetUp, BeginSetup, SetupStep, Build, StartRunner, StopRunner,
           InterruptStart, Interrupt, Restart
  <2>2. QED BY <2>1, AccountUnchanged
<1>2. ProcessTypeOK
  BY DEF ProcessInv
<1> USE DEF Main, historyVars
<1>3. CASE LoadConfig
  <2>1. config' \in [Fields -> Values]
    BY <1>2, <1>3, LoadedIsValue DEF LoadConfig
  <2>2. ProcessTypeOK'
    BY <1>1, <1>2, <1>3, <2>1 DEF LoadConfig, ProcessTypeOK
  <2>3. RunnerInv' /\ SetupInv'
    BY <1>3 DEF LoadConfig, ProcessInv, RunnerInv, SetupInv, HasKeys, ConfiguredUnlessCutShort
  <2>4. QED BY <1>1, <2>2, <2>3 DEF ProcessInv
<1>4. CASE AlreadySetUp \/ BeginSetup \/ Build \/ Interrupt \/ Restart
  <2>1. ProcessTypeOK'
    BY <1>1, <1>2, <1>4 DEF AlreadySetUp, BeginSetup, Build, Interrupt, Restart, ProcessTypeOK
  <2>2. RunnerInv'
    <3>1. Runners' = Runners
      BY <1>4, RunnersKept DEF AlreadySetUp, BeginSetup, Build, Interrupt, Restart
    <3>2. QED
      BY <1>4, <3>1, RunnersAreThreads
      DEF AlreadySetUp, BeginSetup, Build, Interrupt, Restart, ProcessInv, RunnerInv
  <2>3. SetupInv'
    BY <1>4 DEF AlreadySetUp, BeginSetup, Build, Interrupt, Restart, ProcessInv, SetupInv, HasKeys,
                ConfiguredUnlessCutShort
  <2>4. QED BY <1>1, <2>1, <2>2, <2>3 DEF ProcessInv
<1>5. CASE SetupStep
  <2> DEFINE n == Len(SetupSteps)
  <2>1. /\ setupAt \in 1..n /\ n \in Nat \ {0} /\ SetupSteps[setupAt] \in Range(SetupSteps)
        /\ home \subseteq Range(SetupSteps)
    BY <1>2, SetupStepsAreMany DEF ProcessTypeOK
  <2>2. home' = home \union {SetupSteps[setupAt]} /\ home' \in SUBSET Range(SetupSteps)
    BY <1>5, <2>1 DEF SetupStep
  <2>3. ProcessTypeOK'
    <3>1. setupAt' \in 1..n
      BY <1>5, <2>1 DEF SetupStep
    <3>2. QED BY <1>1, <1>2, <1>5, <2>2, <3>1 DEF SetupStep, ProcessTypeOK
  <2>4. RunnerInv'
    BY <1>5 DEF SetupStep, ProcessInv, RunnerInv
  <2>5. ~cutShort => \A i \in 1..setupAt : SetupSteps[i] \in home'
    BY <1>5, <2>1, <2>2 DEF SetupStep, ProcessInv, SetupInv
  <2>6. SetupInv'
    <3>1. CASE setupAt = n
      <4>1. ~cutShort => home' = Range(SetupSteps)
        <5>1. ~cutShort => \A i \in 1..Len(SetupSteps) : SetupSteps[i] \in home'
          BY <2>5, <3>1
        <5>2. home' \in SUBSET Range(SetupSteps)
          BY <2>2
        <5>3. QED BY <5>1, <5>2, HomeComplete, Zenon
      <4>2. QED BY <1>5, <3>1, <4>1 DEF SetupStep, SetupInv, ConfiguredUnlessCutShort
    <3>2. CASE setupAt # n
      <4>1. pc' = "setup" /\ setupAt' = setupAt + 1 /\ UNCHANGED cutShort
        BY <1>5, <3>2 DEF SetupStep
      <4>2. setupAt' - 1 = setupAt
        BY <2>1, <4>1
      <4>3. QED BY <2>5, <4>1, <4>2 DEF SetupInv, ConfiguredUnlessCutShort
    <3>3. QED BY <3>1, <3>2
  <2>7. QED BY <1>1, <2>3, <2>4, <2>6 DEF ProcessInv
<1>6. CASE StartRunner \/ StopRunner \/ InterruptStart
  <2>1. Runners' = Runners
    BY <1>6, RunnersKept DEF StartRunner, StopRunner, InterruptStart
  <2>2. /\ runnerAt \in 1..Len(Runners) /\ Len(Runners) \in 1..4
        /\ Runners[runnerAt] \in Threads
    BY <1>2, <1>6, RunnersAreThreads
    DEF StartRunner, StopRunner, InterruptStart, ProcessInv, RunnerInv, ProcessTypeOK
  <2>3. runnerAt' \in 1..4 /\ RunnerInv'
    <3>1. runnerAt \in Int /\ Len(Runners) \in Int /\ 1 <= Len(Runners)
      BY <2>2
    <3>2. CASE InterruptStart
      BY <2>2, <3>2 DEF InterruptStart, RunnerInv
    <3>3. CASE (StartRunner \/ StopRunner) /\ runnerAt = Len(Runners)
      BY <2>1, <3>1, <3>3 DEF StartRunner, StopRunner, RunnerInv
    <3>4. CASE (StartRunner \/ StopRunner) /\ runnerAt # Len(Runners)
      <4>1. pc' \in {"start", "stop"} /\ runnerAt' = runnerAt + 1
        BY <3>4 DEF StartRunner, StopRunner
      <4>2. runnerAt + 1 <= Len(Runners) /\ runnerAt + 1 \in 1..4
        <5>1. PICK n \in 1..4 : n = Len(Runners)
          BY <2>2
        <5>2. runnerAt \in 1..n /\ runnerAt # n
          BY <2>2, <3>4, <5>1
        <5>3. runnerAt + 1 <= n /\ runnerAt + 1 \in 1..4
          BY <5>2
        <5>4. QED BY <5>1, <5>3
      <4>3. QED BY <2>1, <4>1, <4>2 DEF RunnerInv
    <3>5. QED BY <1>6, <3>2, <3>3, <3>4
  <2>4. thread' \in [Threads -> {"new", "running", "ended"}]
    BY <1>2, <1>6, <2>2 DEF StartRunner, StopRunner, InterruptStart, ProcessTypeOK, Threaded
  <2>5. stopped' \subseteq Threads
    <3>1. Stops(Runners[runnerAt]) \subseteq Threads
      BY <2>2 DEF Stops, Threads
    <3>2. QED
      BY <1>2, <1>6, <3>1 DEF StartRunner, StopRunner, InterruptStart, ProcessTypeOK
  <2>6. failures' \in 0..MaxFailures
    BY <1>2, <1>6, FailuresCounted DEF StartRunner, StopRunner, InterruptStart, ProcessTypeOK
  <2>7. ProcessTypeOK'
    BY <1>1, <1>2, <1>6, <2>3, <2>4, <2>5, <2>6
    DEF StartRunner, StopRunner, InterruptStart, ProcessTypeOK
  <2>8. SetupInv'
    BY <1>6 DEF StartRunner, StopRunner, InterruptStart, ProcessInv, SetupInv,
                ConfiguredUnlessCutShort
  <2>9. QED BY <1>1, <2>3, <2>7, <2>8 DEF ProcessInv
<1>7. QED BY <1>3, <1>4, <1>5, <1>6

\* The process ends or is killed.
LEMMA DownStep ==
  ASSUME ProcessInv, LoadConfigFails \/ SetupFails \/ BuildFails \/ Exit \/ Killed
  PROVE  ProcessInv'
<1>1. ProcessTypeOK
  BY DEF ProcessInv
<1>2. PICK code \in {0, 1} : Down(code)
  BY <1>1 DEF LoadConfigFails, SetupFails, BuildFails, Exit, Killed, ProcessTypeOK
<1>3. home' \subseteq Range(SetupSteps)
  BY <1>1, SetupStepsAreMany DEF LoadConfigFails, SetupFails, BuildFails, Exit, Killed, ProcessTypeOK
<1>4. failures' \in 0..MaxFailures /\ cutShort' \in BOOLEAN
  BY <1>1, FailuresCounted
  DEF LoadConfigFails, SetupFails, BuildFails, Exit, Killed, ProcessTypeOK, historyVars, HasKeys
<1>5. ProcessTypeOK' /\ AccountInv' /\ RunnerInv'
  BY <1>2, <1>3, <1>4, DownIsTyped
<1>6. pc' = "down" /\ setupAt' = 1
  BY <1>2 DEF Down
<1>7. ~cutShort' => (HasKeys' => home' = Range(SetupSteps))
  <2>1. CASE LoadConfigFails \/ Exit \/ BuildFails
    BY <2>1 DEF LoadConfigFails, Exit, BuildFails, ProcessInv, SetupInv, HasKeys, historyVars,
                ConfiguredUnlessCutShort
  <2>2. CASE SetupFails
    BY <2>2 DEF SetupFails, HasKeys
  <2>3. CASE Killed
    BY <1>1, <2>3
    DEF Killed, ProcessTypeOK, ProcessInv, SetupInv, HasKeys, ConfiguredUnlessCutShort
  <2>4. QED BY <2>1, <2>2, <2>3
<1>8. SetupInv'
  BY <1>6, <1>7 DEF SetupInv, ConfiguredUnlessCutShort
<1>9. QED BY <1>5, <1>8 DEF ProcessInv

\* The other threads leave the main thread and the home alone.
LEMMA ThreadStep ==
  ASSUME ProcessInv,
         \/ \E t \in Threads : Thread(t) \/ Die(t)
         \/ \E t \in Senders : SendStep(t) \/ CannotPrepare(t)
         \/ MineStep
  PROVE  ProcessInv'
<1>1. ProcessTypeOK /\ AccountTypeOK /\ AccountInv
  BY DEF ProcessInv, ProcessTypeOK
<1>2. UNCHANGED <<env, config, home, pc, setupAt, runnerAt, exitCode, cutShort>>
  BY DEF Thread, StartChild, Finish, NoticeDeadListener, Die, Ends, SendStep, CannotPrepare,
         CanSend, MineStep, processVars, historyVars
<1>3. RunnerInv' /\ SetupInv'
  BY <1>2, RunnersKept DEF ProcessInv, RunnerInv, SetupInv, HasKeys, ConfiguredUnlessCutShort
<1>4. ASSUME AccountTypeOK', thread' \in [Threads -> {"new", "running", "ended"}],
             stopped' \subseteq Threads, failures' \in 0..MaxFailures
      PROVE  ProcessTypeOK'
  BY <1>1, <1>2, <1>4 DEF ProcessTypeOK
<1>5. ASSUME NEW t \in Threads, Thread(t) PROVE AccountInv' /\ ProcessTypeOK'
  <2>1. AccountTypeOK' /\ AccountInv'
    BY <1>5, AccountUnchanged DEF Thread, StartChild, Finish, NoticeDeadListener
  <2>2. thread' \in [Threads -> {"new", "running", "ended"}]
    BY <1>1, <1>5
    DEF Thread, StartChild, Finish, NoticeDeadListener, ProcessTypeOK, Threaded, Child, Threads
  <2>3. stopped' \subseteq Threads
    BY <1>1, <1>5
    DEF Thread, StartChild, Finish, NoticeDeadListener, ProcessTypeOK, Stops, Threads
  <2>4. UNCHANGED failures
    BY <1>5 DEF Thread, StartChild, Finish, NoticeDeadListener, historyVars
  <2>5. QED BY <1>1, <1>4, <2>1, <2>2, <2>3, <2>4 DEF ProcessTypeOK
<1>6. ASSUME NEW t \in Threads, Ends(t), failures' \in 0..MaxFailures
      PROVE  AccountInv' /\ ProcessTypeOK'
  <2>1. AccountTypeOK' /\ AccountInv'
    <3>1. AccountTypeOK'
      BY <1>1, <1>6 DEF Ends, AccountTypeOK
    <3>2. \A u \in Senders :
            \/ prepared'[u] = NoTx
            \/ prepared'[u] = prepared[u] /\ contended'[u] = contended[u]
      BY <1>1, <1>6 DEF Ends, AccountTypeOK
    <3>3. AccountInv'
      BY <1>1, <1>6, <3>2, AccountForgets DEF Ends
    <3>4. QED BY <3>1, <3>3
  <2>2. thread' \in [Threads -> {"new", "running", "ended"}] /\ UNCHANGED stopped
    BY <1>1, <1>6 DEF Ends, Threaded, ProcessTypeOK
  <2>3. QED BY <1>1, <1>4, <1>6, <2>1, <2>2 DEF ProcessTypeOK
<1>7. ASSUME NEW t \in Threads, Die(t) PROVE AccountInv' /\ ProcessTypeOK'
  BY <1>1, <1>6, <1>7, FailuresCounted DEF Die
<1>8. ASSUME NEW t \in Senders, CannotPrepare(t) PROVE AccountInv' /\ ProcessTypeOK'
  <2>1. t \in Threads
    BY SendersAssumption DEF Threads
  <2>2. QED BY <1>1, <1>6, <1>8, <2>1 DEF CannotPrepare, ProcessTypeOK
<1>9. ASSUME MineStep \/ \E t \in Senders : SendStep(t) PROVE AccountInv' /\ ProcessTypeOK'
  <2>1. Mine \/ \E t \in Senders : Prepare(t) \/ Send(t) \/ Refused(t)
    BY <1>9 DEF MineStep, SendStep
  <2>2. UNCHANGED <<thread, stopped, failures>>
    BY <1>9 DEF MineStep, SendStep, CanSend, processVars, historyVars
  <2>3. AccountTypeOK' /\ AccountInv'
    BY <1>1, <2>1, AccountTypeStep, AccountStep
  <2>4. QED BY <1>1, <1>4, <2>2, <2>3 DEF ProcessTypeOK
<1>10. QED BY <1>3, <1>5, <1>7, <1>8, <1>9 DEF ProcessInv

-----------------------------------------------------------------------------
(* The invariants                                                          *)

LEMMA ProcessInvInit == ProcessInit => ProcessInv
<1> SUFFICES ASSUME ProcessInit PROVE ProcessInv
  OBVIOUS
<1>1. AccountTypeOK
  BY DEF ProcessInit, AccountInit, AccountTypeOK
<1>2. Contiguous(0) /\ UpToDate(0)
  BY FS_EmptySet DEF ProcessInit, AccountInit, Contiguous, UpToDate
<1>3. ProcessTypeOK
  <2>1. 1 \in 1..Len(SetupSteps) /\ 0 \in 0..MaxFailures
    BY SetupStepsAreMany, ProcessAssumption
  <2>2. config \in [Fields -> Values]
    BY DEF ProcessInit, Values
  <2>3. /\ env \in Environments /\ home = {} /\ pc = "configure" /\ exitCode = 0
        /\ setupAt = 1 /\ runnerAt = 1 /\ stopped = {} /\ failures = 0 /\ cutShort = FALSE
    BY DEF ProcessInit
  <2>4. thread \in [Threads -> {"new", "running", "ended"}]
    BY DEF ProcessInit
  <2>5. /\ home \subseteq Range(SetupSteps) /\ stopped \subseteq Threads
        /\ setupAt \in 1..Len(SetupSteps) /\ failures \in 0..MaxFailures
    BY <2>1, <2>3
  <2>6. runnerAt \in 1..4 /\ exitCode \in {0, 1}
    BY <2>3
  <2>7. cutShort \in BOOLEAN
    BY <2>3, Zenon
  <2>8. QED BY <1>1, <2>2, <2>3, <2>4, <2>5, <2>6, <2>7 DEF ProcessTypeOK
<1>4. RunnerInv /\ SetupInv
  BY DEF ProcessInit, RunnerInv, SetupInv, HasKeys, ConfiguredUnlessCutShort
<1>5. QED BY <1>2, <1>3, <1>4 DEF ProcessInv, AccountInv

LEMMA ProcessInvStep == ProcessInv /\ [ProcessNext]_allVars => ProcessInv'
<1> SUFFICES ASSUME ProcessInv, [ProcessNext]_allVars PROVE ProcessInv'
  OBVIOUS
<1>1. CASE UNCHANGED allVars
  <2>1. UNCHANGED accountVars /\ UNCHANGED processVars /\ UNCHANGED historyVars
    BY <1>1 DEF allVars
  <2>2. AccountTypeOK' /\ AccountInv'
    BY <2>1, AccountUnchanged
  <2>3. RunnerInv' /\ SetupInv'
    BY <2>1, RunnersKept
    DEF processVars, historyVars, ProcessInv, RunnerInv, SetupInv, HasKeys, ConfiguredUnlessCutShort
  <2>4. ProcessTypeOK'
    BY <2>1, <2>2 DEF processVars, historyVars, ProcessInv, ProcessTypeOK
  <2>5. QED BY <2>2, <2>3, <2>4 DEF ProcessInv
<1>2. CASE ProcessNext
  BY <1>2, MainStep, DownStep, ThreadStep DEF ProcessNext, MainThread
<1>3. QED BY <1>1, <1>2

LEMMA ProcessInvariance == ProcessSpec => []ProcessInv
BY ProcessInvInit, ProcessInvStep, PTL DEF ProcessSpec

\* Through failures, kills and restarts the process and its account keep their types.
THEOREM ProcessTypeCorrect == ProcessSpec => []ProcessTypeOK
<1>1. ProcessInv => ProcessTypeOK
  BY DEF ProcessInv
<1>2. QED BY <1>1, ProcessInvariance, PTL

\* Whatever signature the key store returns, a transaction prepared before which no
\* other thread broadcast is the account's, has the pending nonce and displaces none.
THEOREM OnlyContendersClashSafe == ProcessSpec => []OnlyContendersClash
<1>1. ProcessInv => OnlyContendersClash
  BY AccountInvIsSafe DEF ProcessInv, ProcessTypeOK
<1>2. QED BY <1>1, ProcessInvariance, PTL

\* A process that runs its threads has a complete secretcli home, however often it
\* failed and was restarted before, unless a set-up was cut short after its first key.
THEOREM ConfiguredSafe == ProcessSpec => []ConfiguredUnlessCutShort
<1>1. ProcessInv => ConfiguredUnlessCutShort
  BY DEF ProcessInv, SetupInv
<1>2. QED BY <1>1, ProcessInvariance, PTL
================================================================================
