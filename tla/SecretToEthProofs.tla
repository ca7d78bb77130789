--------------------------- MODULE SecretToEthProofs ---------------------------
(***************************************************************************)
(* Safety of the payouts for any number of burns, owners and transactions, *)
(* with every fault.  The module's steps are steps of the wallet, so the   *)
(* wallet's inductive invariant IInv is one half of PInv; the other half   *)
(* says what the threads hold: the leader works on the burn after its      *)
(* tracker, which is in the database before the tracker passes it, and the *)
(* listeners work on submissions that are on the chain.                    *)
(*                                                                         *)
(* That payments are those of burns (CheckedInv) needs a threshold of two: *)
(* a submission confirms itself, so with a threshold of one its owner pays *)
(* what it likes and no signer is asked.  With two, one of the             *)
(* confirmations was sent by EtherSigner, which validates.  The threshold  *)
(* is a hypothesis of the behaviour, [](required >= 2), because the owners *)
(* may have the wallet lower it by a transaction of their own.             *)
(***************************************************************************)
EXTENDS SecretToEth, MultiSigSwapWalletProofs, OrderLemmas

Result == [id : TxIds, ok : BOOLEAN]
Prepared == [tx : SubmitTx, accountNonce : Nat]

ThreadTypeOK ==
  /\ burned \in 0..NumSwaps
  /\ status \in [SwapNonces -> {"none", "SUBMITTED", "CONFIRMED", "FAILED"}]
  /\ tracker \in -1..(NumSwaps - 1)
  /\ signerTracker \in [Accounts -> 0..MaxTransactions]
  /\ leaderPc \in {"scan", "send", "save", "saveFailed", "track"}
  /\ leaderTx \in Prepared \union {NoTx}
  /\ signerPc \in [Accounts -> {"listen", "send", "track", "dead"}]
  /\ signerAt \in [Accounts -> 0..MaxTransactions]
  /\ signerNonce \in [Accounts -> Nat]
  /\ confirmerAt \in Nat
  /\ confirmerTodo \in Seq(Result)
  /\ confirmerDead \in BOOLEAN
  /\ sent \in [Accounts -> Nat]
  /\ queue \in [Accounts -> Seq(EthTx)]
  /\ blockOf \in [TxIds -> 0..MaxTransactions]
  /\ results \in Seq(Result)
  /\ manualLeft \in 0..MaxManual
  /\ faultsLeft \in 0..MaxFaults

\* The leader's thread: what it works on is burned, the next of its tracker, and
\* is in the database before the tracker passes it.
LeaderInv ==
  /\ tracker < burned
  /\ leaderPc # "scan" => tracker + 1 < burned
  /\ leaderPc \in {"send", "save", "saveFailed"} =>
       leaderTx \in Prepared /\ leaderTx.tx.nonce = tracker + 1
  /\ leaderPc = "track" => status[tracker + 1] # "none"
  /\ TrackedIsRecorded
  /\ \A n \in SwapNonces : status[n] # "none" => n < burned

\* The listeners' threads: what they work on is on the chain.
ListenerInv ==
  /\ \A s \in Accounts : signerPc[s] \in {"send", "track"} => signerAt[s] < transactionCount
  /\ \A id \in TxIds : blockOf[id] <= id + 1

PInv == IInv /\ ThreadTypeOK /\ LeaderInv /\ ListenerInv

LEMMA SameType == PayoutTypeOK <=> TypeOK /\ ThreadTypeOK
BY DEF PayoutTypeOK, ThreadTypeOK, Result, Prepared

LEMMA PayoutConstants ==
  /\ NumSwaps \in Nat /\ SwapNonces \subseteq Nat /\ SwapNonces \subseteq Nonces
  /\ MaxTransactions \in Nat /\ MaxManual \in Nat /\ MaxFaults \in Nat
  /\ TxIds \subseteq Nat /\ Leader \in Accounts
  /\ \A n \in SwapNonces : Amount(n) \in Nat
  /\ Fees \subseteq Nat /\ LeaderFees \subseteq Fees
<1>1. SwapAmount \in Seq(Nat)
  BY PayoutAssumption
<1>2. NumSwaps \in Nat
  BY <1>1, LenProperties DEF NumSwaps
<1>3. \A n \in SwapNonces : n + 1 \in 1..NumSwaps
  BY <1>2 DEF SwapNonces
<1>4. \A n \in SwapNonces : Amount(n) \in Nat
  BY <1>1, <1>3, ElementOfSeq DEF Amount, NumSwaps
<1>5. QED
  BY <1>2, <1>4, PayoutAssumption, BoundsAssumption, DataAssumption DEF SwapNonces, TxIds

-----------------------------------------------------------------------------
(* The wallet's steps                                                      *)

LEMMA HeadOfQueue ==
  ASSUME ThreadTypeOK, NEW a \in Accounts, queue[a] # << >>
  PROVE  /\ Head(queue[a]) \in EthTx
         /\ Tail(queue[a]) \in Seq(EthTx)
         /\ \A i \in DOMAIN Tail(queue[a]) :
              i + 1 \in DOMAIN queue[a] /\ Tail(queue[a])[i] = queue[a][i + 1]
         /\ 1 \in DOMAIN queue[a] /\ Head(queue[a]) = queue[a][1]
<1>1. queue[a] \in Seq(EthTx)
  BY DEF ThreadTypeOK
<1>2. QED
  BY <1>1, LenProperties, EmptySeq

\* A transaction of an account is an owner's call of the wallet or reverts.
LEMMA PayoutStepIsWalletStep ==
  ASSUME ThreadTypeOK, [PayoutNext]_payoutVars
  PROVE  [Next]_vars
<1>1. ASSUME NEW a \in Accounts, MineSubmit(a)
      PROVE  Next
  <2> DEFINE tx == Head(queue[a])
  <2>1. tx \in EthTx /\ tx.kind = "submit"
    BY <1>1, HeadOfQueue DEF MineSubmit, Mined
  <2>2. tx.call \in Calls /\ tx.nonce \in Nonces /\ tx.token \in Assets /\ tx.fee \in Fees
    BY <2>1 DEF EthTx, SubmitTx
  <2>3. SubmitTransaction(a, tx.call, tx.nonce, tx.token, tx.fee)
    BY <1>1 DEF MineSubmit
  <2>4. QED BY <2>2, <2>3 DEF Next
<1>2. ASSUME NEW a \in Accounts, MineConfirm(a)
      PROVE  Next
  <2> DEFINE tx == Head(queue[a])
  <2>1. tx \in EthTx /\ tx.kind = "confirm" /\ ConfirmTransaction(a, tx.id)
    BY <1>2, HeadOfQueue DEF MineConfirm, Mined
  <2>2. tx.id \in TxIds
    BY <2>1 DEF EthTx, SubmitTx
  <2>3. QED BY <2>1, <2>2 DEF Next
<1>3. ASSUME NEW a \in Accounts, MineExecute(a)
      PROVE  Next
  <2> DEFINE tx == Head(queue[a])
  <2>1. tx \in EthTx /\ tx.kind = "execute" /\ ExecuteTransaction(a, tx.id)
    BY <1>3, HeadOfQueue DEF MineExecute, Mined
  <2>2. tx.id \in TxIds
    BY <2>1 DEF EthTx, SubmitTx
  <2>3. QED BY <2>1, <2>2 DEF Next
<1>4. ASSUME NEW amount \in Amounts, DepositEther(amount)
      PROVE  Next
  BY <1>4 DEF DepositEther, Next
<1>5. ASSUME Burn \/ EthLeader \/ EthConfirmer
      PROVE  UNCHANGED vars
  BY <1>5 DEF Burn, EthLeader, LeaderPrepare, LeaderTooLow, LeaderBroadcast, LeaderRefused,
              LeaderSave, LeaderTrack, EthConfirmer, ConfirmerPoll, ConfirmerHandle,
              ConfirmerChokes, ConfirmerTakes
<1>6. ASSUME NEW s \in Accounts, EthSigner(s)
      PROVE  UNCHANGED vars
  BY <1>6 DEF EthSigner, SignerChokes, SignerSkips, SignerQueryFails, SignerRefuses,
              SignerApproves, Hears, SignerSends, SignerTracks
<1>7. ASSUME NEW a \in Accounts,
             \/ MineReverted(a)
             \/ \E p \in Proposals : ProposeByHand(a, p)
             \/ \E id \in TxIds : ConfirmByHand(a, id) \/ ExecuteByHand(a, id)
             \/ CrashProcess(a) \/ ReviveProcess(a)
      PROVE  UNCHANGED vars
  BY <1>7 DEF MineReverted, ProposeByHand, ConfirmByHand, ExecuteByHand, ByHand, CrashProcess,
              ReviveProcess, RestartProcess
<1>8. UNCHANGED payoutVars => UNCHANGED vars
  BY DEF payoutVars
<1>9. QED
  BY <1>1, <1>2, <1>3, <1>4, <1>5, <1>6, <1>7, <1>8 DEF PayoutNext, Mine

-----------------------------------------------------------------------------
(* The types of the threads' state and of the chain's                      *)

LEMMA PayoutInitial == PayoutInit => PInv
<1> SUFFICES ASSUME PayoutInit PROVE PInv
  OBVIOUS
<1> USE PayoutConstants
<1>1. IInv
  BY InitInvariant DEF PayoutInit
<1>2. confirmerTodo \in Seq(Result) /\ results \in Seq(Result)
  BY DEF PayoutInit
<1>3. queue \in [Accounts -> Seq(EthTx)]
  BY DEF PayoutInit
<1>4. status \in [SwapNonces -> {"none", "SUBMITTED", "CONFIRMED", "FAILED"}]
  BY DEF PayoutInit
<1>5. leaderTx \in Prepared \union {NoTx}
  BY DEF PayoutInit
<1>6. ThreadTypeOK
  <2>1. confirmerDead \in BOOLEAN
    BY Zenon DEF PayoutInit
  <2>2. QED BY <1>2, <1>3, <1>4, <1>5, <2>1 DEF PayoutInit, ThreadTypeOK
<1>7. LeaderInv
  BY DEF PayoutInit, LeaderInv, TrackedIsRecorded, SwapNonces
<1>8. ListenerInv
  BY DEF PayoutInit, ListenerInv
<1>9. QED BY <1>1, <1>6, <1>7, <1>8 DEF PInv

LEMMA BroadcastType ==
  ASSUME ThreadTypeOK, NEW a \in Accounts, NEW tx \in EthTx, Broadcast(a, tx)
  PROVE  /\ sent' \in [Accounts -> Nat]
         /\ queue' \in [Accounts -> Seq(EthTx)]
<1>1. sent \in [Accounts -> Nat] /\ queue \in [Accounts -> Seq(EthTx)]
  BY DEF ThreadTypeOK
<1>2. Append(queue[a], tx) \in Seq(EthTx)
  BY <1>1
<1>3. QED BY <1>1, <1>2 DEF Broadcast

LEMMA RecordType ==
  ASSUME ThreadTypeOK, NEW n \in SwapNonces, NEW st \in {"SUBMITTED", "FAILED"}, Record(n, st)
  PROVE  /\ status' \in [SwapNonces -> {"none", "SUBMITTED", "CONFIRMED", "FAILED"}]
         /\ status'[n] # "none"
         /\ \A m \in SwapNonces : m # n \/ status[m] # "none" => status'[m] = status[m]
<1>1. status \in [SwapNonces -> {"none", "SUBMITTED", "CONFIRMED", "FAILED"}]
  BY DEF ThreadTypeOK
<1>2. QED BY <1>1 DEF Record

LEMMA FaultType ==
  ASSUME ThreadTypeOK, NEW kind, Fault(kind) \/ NoFault
  PROVE  faultsLeft' \in 0..MaxFaults
BY PayoutConstants DEF ThreadTypeOK, Fault, NoFault

\* What the leader works on.
LEMMA LeaderSwap ==
  ASSUME ThreadTypeOK, LeaderInv, leaderPc # "scan" \/ tracker + 1 < burned
  PROVE  /\ tracker + 1 \in SwapNonces
         /\ leaderPc \in {"send", "save", "saveFailed"} =>
              leaderTx.tx \in SubmitTx /\ leaderTx.tx.nonce = tracker + 1
<1>1. tracker + 1 \in SwapNonces
  BY PayoutConstants DEF ThreadTypeOK, LeaderInv, SwapNonces
<1>2. QED BY <1>1 DEF LeaderInv, Prepared

LEMMA SubmissionType ==
  ASSUME NEW n \in SwapNonces, NEW fee \in LeaderFees, Amount(n) > fee
  PROVE  Submission(n, fee) \in SubmitTx
<1>1. Submission(n, fee).call \in Calls
  BY PayoutAssumption DEF Submission
<1>2. QED
  BY <1>1, PayoutConstants DEF Submission, SubmitTx, Assets

LEMMA LeaderTypes ==
  ASSUME ThreadTypeOK, LeaderInv, EthLeader
  PROVE  ThreadTypeOK'
<1> USE DEF dbVars, leaderVars, signerVars, confVars, netVars, logVars, budgetVars
<1>1. ASSUME NEW fee \in LeaderFees, LeaderPrepare(fee)
      PROVE  ThreadTypeOK'
  <2>1. Submission(tracker + 1, fee) \in SubmitTx /\ sent[Leader] \in Nat
    BY <1>1, LeaderSwap, SubmissionType, PayoutConstants DEF LeaderPrepare, ThreadTypeOK
  <2>2. leaderTx' \in Prepared
    BY <1>1, <2>1 DEF LeaderPrepare, Prepared
  <2>3. QED BY <1>1, <2>2 DEF LeaderPrepare, ThreadTypeOK
<1>2. ASSUME NEW fee \in LeaderFees, LeaderTooLow(fee)
      PROVE  ThreadTypeOK'
  <2>1. status' \in [SwapNonces -> {"none", "SUBMITTED", "CONFIRMED", "FAILED"}]
    BY <1>2, LeaderSwap, RecordType DEF LeaderTooLow
  <2>2. QED BY <1>2, <2>1 DEF LeaderTooLow, ThreadTypeOK
<1>3. ASSUME LeaderBroadcast
      PROVE  ThreadTypeOK'
  <2>1. leaderTx.tx \in EthTx
    BY <1>3, LeaderSwap DEF LeaderBroadcast, EthTx
  <2>2. sent' \in [Accounts -> Nat] /\ queue' \in [Accounts -> Seq(EthTx)]
    BY <1>3, <2>1, BroadcastType, PayoutConstants DEF LeaderBroadcast
  <2>3. QED BY <1>3, <2>2 DEF LeaderBroadcast, ThreadTypeOK
<1>4. ASSUME LeaderRefused
      PROVE  ThreadTypeOK'
  <2>1. faultsLeft' \in 0..MaxFaults
    BY <1>4, FaultType DEF LeaderRefused
  <2>2. QED BY <1>4, <2>1 DEF LeaderRefused, ThreadTypeOK
<1>5. ASSUME LeaderSave
      PROVE  ThreadTypeOK'
  <2>1. status' \in [SwapNonces -> {"none", "SUBMITTED", "CONFIRMED", "FAILED"}]
    BY <1>5, LeaderSwap, RecordType DEF LeaderSave
  <2>2. leaderTx' \in Prepared \union {NoTx}
    BY <1>5 DEF LeaderSave
  <2>3. QED BY <1>5, <2>1, <2>2 DEF LeaderSave, ThreadTypeOK
<1>6. ASSUME LeaderTrack
      PROVE  ThreadTypeOK'
  <2>1. tracker' \in -1..(NumSwaps - 1)
    BY <1>6, LeaderSwap, PayoutConstants DEF LeaderTrack, SwapNonces, ThreadTypeOK
  <2>2. QED BY <1>6, <2>1 DEF LeaderTrack, ThreadTypeOK
<1>7. QED BY <1>1, <1>2, <1>3, <1>4, <1>5, <1>6 DEF EthLeader

LEMMA SignerTypes ==
  ASSUME IInv, ThreadTypeOK, ListenerInv, NEW s \in Accounts, EthSigner(s)
  PROVE  ThreadTypeOK'
<1> USE DEF dbVars, leaderVars, signerVars, confVars, netVars, logVars, budgetVars
<1>1. transactionCount \in 0..MaxTransactions
  BY DEF IInv, TypeOK
<1>2. ASSUME NEW id \in TxIds, SignerChokes(s, id) \/ SignerRefuses(s, id)
      PROVE  ThreadTypeOK'
  BY <1>2 DEF SignerChokes, SignerRefuses, Hears, ThreadTypeOK
<1>3. ASSUME NEW id \in TxIds, SignerSkips(s, id)
      PROVE  ThreadTypeOK'
  <2>1. signerAt[s] + 1 \in 0..MaxTransactions
    BY <1>1, <1>3, PayoutConstants DEF SignerSkips, Hears, ThreadTypeOK
  <2>2. signerAt' \in [Accounts -> 0..MaxTransactions]
    BY <1>3, <2>1 DEF SignerSkips, ThreadTypeOK
  <2>3. QED BY <1>3, <2>2 DEF SignerSkips, Hears, ThreadTypeOK
<1>4. ASSUME NEW id \in TxIds, SignerQueryFails(s, id)
      PROVE  ThreadTypeOK'
  <2>1. faultsLeft' \in 0..MaxFaults
    BY <1>4, FaultType DEF SignerQueryFails
  <2>2. signerTracker' \in [Accounts -> 0..MaxTransactions]
    BY <1>4 DEF SignerQueryFails, ThreadTypeOK
  <2>3. QED BY <1>4, <2>1, <2>2 DEF SignerQueryFails, Hears, ThreadTypeOK
<1>5. ASSUME NEW id \in TxIds, SignerApproves(s, id)
      PROVE  ThreadTypeOK'
  <2>1. sent[s] \in Nat
    BY DEF ThreadTypeOK
  <2>2. signerNonce' \in [Accounts -> Nat]
    BY <1>5, <2>1 DEF SignerApproves, ThreadTypeOK
  <2>3. QED BY <1>5, <2>2 DEF SignerApproves, Hears, ThreadTypeOK
<1>6. ASSUME SignerSends(s)
      PROVE  ThreadTypeOK'
  <2>1. faultsLeft' \in 0..MaxFaults
    BY <1>6, FaultType DEF SignerSends
  <2>2. signerAt[s] \in TxIds
    <3>1. signerAt[s] \in 0..MaxTransactions /\ signerAt[s] < transactionCount
      BY <1>6 DEF SignerSends, ListenerInv, ThreadTypeOK
    <3>2. QED BY <1>1, <3>1, PayoutConstants DEF TxIds
  <2>3. [kind |-> "confirm", id |-> signerAt[s]] \in EthTx
    BY <2>2 DEF EthTx
  <2>4. sent' \in [Accounts -> Nat] /\ queue' \in [Accounts -> Seq(EthTx)]
    <3>1. CASE UNCHANGED netVars
      BY <3>1 DEF ThreadTypeOK
    <3>2. CASE Broadcast(s, [kind |-> "confirm", id |-> signerAt[s]])
      BY <2>3, <3>2, BroadcastType
    <3>3. QED BY <1>6, <3>1, <3>2 DEF SignerSends
  <2>5. signerNonce' \in [Accounts -> Nat]
    BY <1>6 DEF SignerSends, ThreadTypeOK
  <2>6. QED BY <1>6, <2>1, <2>4, <2>5 DEF SignerSends, ThreadTypeOK
<1>7. ASSUME SignerTracks(s)
      PROVE  ThreadTypeOK'
  <2>1. signerAt[s] \in TxIds /\ signerAt[s] + 1 \in 0..MaxTransactions
    <3>1. signerAt[s] \in 0..MaxTransactions /\ signerAt[s] < transactionCount
      BY <1>7 DEF SignerTracks, ListenerInv, ThreadTypeOK
    <3>2. QED BY <1>1, <3>1, PayoutConstants DEF TxIds
  <2>2. signerAt' \in [Accounts -> 0..MaxTransactions]
    BY <1>7, <2>1 DEF SignerTracks, ThreadTypeOK
  <2>3. signerTracker' \in [Accounts -> 0..MaxTransactions]
    BY <1>7, <2>1 DEF SignerTracks, ThreadTypeOK
  <2>4. QED BY <1>7, <2>2, <2>3 DEF SignerTracks, ThreadTypeOK
<1>8. QED BY <1>2, <1>3, <1>4, <1>5, <1>6, <1>7 DEF EthSigner

\* choose_starting_block finds a submission, or the one to come.
LEMMA FirstFromExists ==
  ASSUME IInv, ThreadTypeOK, NEW block \in Nat
  PROVE  FirstFrom(block) \in 0..transactionCount
<1> DEFINE Late == {id \in 0..transactionCount : id < transactionCount => blockOf[id] >= block}
<1>1. transactionCount \in Nat /\ transactionCount <= MaxTransactions
  BY PayoutConstants DEF IInv, TypeOK
<1>2. Late \in SUBSET Nat /\ transactionCount \in Late
  BY <1>1
<1>3. PICK first \in Late : \A id \in Late : first <= id
  BY <1>2, LeastNatural
<1>4. ASSUME NEW j \in 0..(first - 1)
      PROVE  blockOf[j] < block
  <2>1. j \in 0..transactionCount /\ j < transactionCount /\ j \notin Late
    BY <1>1, <1>3
  <2>2. j \in TxIds
    BY <1>1, <2>1, PayoutConstants DEF TxIds
  <2>3. blockOf[j] \in Nat
    BY <2>2, PayoutConstants DEF ThreadTypeOK
  <2>4. QED BY <2>1, <2>3
<1>5. QED BY <1>3, <1>4 DEF FirstFrom

LEMMA RestartTypes ==
  ASSUME IInv, ThreadTypeOK, NEW a \in Accounts, CrashProcess(a) \/ ReviveProcess(a)
  PROVE  ThreadTypeOK'
<1> USE DEF dbVars, leaderVars, signerVars, confVars, netVars, logVars, budgetVars
<1>1. RestartProcess(a) /\ faultsLeft' \in 0..MaxFaults
  BY FaultType DEF CrashProcess, ReviveProcess
<1>2. FirstFrom(signerTracker[a]) \in 0..MaxTransactions
  <2>1. signerTracker[a] \in Nat
    BY PayoutConstants DEF ThreadTypeOK
  <2>2. FirstFrom(signerTracker[a]) \in 0..transactionCount
    BY <2>1, FirstFromExists
  <2>3. QED BY <2>2, PayoutConstants DEF IInv, TypeOK
<1>3. signerAt' \in [Accounts -> 0..MaxTransactions]
  BY <1>1, <1>2 DEF RestartProcess, ThreadTypeOK
<1>4. signerPc' \in [Accounts -> {"listen", "send", "track", "dead"}]
  BY <1>1 DEF RestartProcess, ThreadTypeOK
<1>5. signerNonce' \in [Accounts -> Nat]
  BY <1>1 DEF RestartProcess, ThreadTypeOK
<1>6. /\ leaderPc' \in {"scan", "send", "save", "saveFailed", "track"}
      /\ leaderTx' \in Prepared \union {NoTx}
      /\ confirmerAt' \in Nat
      /\ confirmerTodo' \in Seq(Result)
      /\ confirmerDead' \in BOOLEAN
  <2>1. CASE a = Leader
    <3>1. confirmerDead' \in BOOLEAN
      BY <1>1, <2>1, Zenon DEF RestartProcess
    <3>2. QED BY <1>1, <2>1, <3>1 DEF RestartProcess
  <2>2. CASE a # Leader
    BY <1>1, <2>2 DEF RestartProcess, ThreadTypeOK
  <2>3. QED BY <2>1, <2>2
<1>7. QED
  BY <1>1, <1>3, <1>4, <1>5, <1>6 DEF RestartProcess, ThreadTypeOK

LEMMA ConfirmerTypes ==
  ASSUME ThreadTypeOK, EthConfirmer
  PROVE  ThreadTypeOK'
<1> USE DEF dbVars, leaderVars, signerVars, confVars, netVars, logVars, budgetVars
<1>1. CASE ConfirmerPoll
  <2> DEFINE new == SubSeq(results, confirmerAt + 1, Len(results))
             withdraw == {r \in Range(new) : r.ok}
  <2>1. results \in Seq(Result) /\ Len(results) \in Nat /\ confirmerAt \in Nat
        /\ confirmerAt < Len(results)
    BY <1>1, LenProperties DEF ThreadTypeOK, ConfirmerPoll
  <2>2. new \in Seq(Result)
    BY <2>1, SubSeqProperties
  <2>3. confirmerTodo' = Those(new, withdraw) \o Those(new, Range(new) \ withdraw)
    BY <1>1 DEF ConfirmerPoll
  <2> HIDE DEF new, withdraw
  <2>4. Those(new, withdraw) \in Seq(Result) /\ Those(new, Range(new) \ withdraw) \in Seq(Result)
    BY <2>2, ThoseKeeps
  <2>5. confirmerTodo' \in Seq(Result)
    BY <2>3, <2>4, ConcatProperties
  <2>6. QED BY <1>1, <2>1, <2>5 DEF ConfirmerPoll, ThreadTypeOK
<1>2. ASSUME NEW r, ConfirmerHandle(r)
      PROVE  ThreadTypeOK'
  <2>1. status' \in [SwapNonces -> {"none", "SUBMITTED", "CONFIRMED", "FAILED"}]
    BY <1>2 DEF ConfirmerHandle, ThreadTypeOK
  <2>2. confirmerTodo' \in Seq(Result)
    BY <1>2, HeadTailProperties DEF ConfirmerHandle, ConfirmerTakes, ThreadTypeOK
  <2>3. QED BY <1>2, <2>1, <2>2 DEF ConfirmerHandle, ConfirmerTakes, ThreadTypeOK
<1>3. ASSUME NEW r, ConfirmerChokes(r)
      PROVE  ThreadTypeOK'
  BY <1>3 DEF ConfirmerChokes, ConfirmerTakes, ThreadTypeOK
<1>4. QED BY <1>1, <1>2, <1>3 DEF EthConfirmer

LEMMA OperatorTypes ==
  ASSUME ThreadTypeOK, NEW a \in Accounts,
         \/ \E p \in Proposals : ProposeByHand(a, p)
         \/ \E id \in TxIds : ConfirmByHand(a, id) \/ ExecuteByHand(a, id)
  PROVE  ThreadTypeOK'
<1> USE DEF dbVars, leaderVars, signerVars, confVars, netVars, logVars, budgetVars
<1>1. PICK tx \in EthTx : Broadcast(a, tx) /\ ByHand /\ (Counted \/ UNCHANGED manualLeft)
  <2>1. ASSUME NEW p \in Proposals, ProposeByHand(a, p)
        PROVE  \E tx \in EthTx : Broadcast(a, tx) /\ ByHand /\ (Counted \/ UNCHANGED manualLeft)
    <3> DEFINE tx == [kind |-> "submit", call |-> p.call, nonce |-> p.nonce,
                      token |-> p.token, fee |-> p.fee]
    <3>1. tx \in EthTx
      BY PayoutAssumption DEF Proposal, EthTx, SubmitTx
    <3>2. QED BY <2>1, <3>1 DEF ProposeByHand
  <2>2. ASSUME NEW id \in TxIds, ExecuteByHand(a, id)
        PROVE  \E tx \in EthTx : Broadcast(a, tx) /\ ByHand /\ (Counted \/ UNCHANGED manualLeft)
    <3>1. [kind |-> "execute", id |-> id] \in EthTx
      BY DEF EthTx
    <3>2. QED BY <2>2, <3>1 DEF ExecuteByHand
  <2>3. ASSUME NEW id \in TxIds, ConfirmByHand(a, id)
        PROVE  \E tx \in EthTx : Broadcast(a, tx) /\ ByHand /\ (Counted \/ UNCHANGED manualLeft)
    <3>1. [kind |-> "confirm", id |-> id] \in EthTx
      BY DEF EthTx
    <3>2. QED BY <2>3, <3>1 DEF ConfirmByHand
  <2>4. QED BY <2>1, <2>2, <2>3
<1>2. sent' \in [Accounts -> Nat] /\ queue' \in [Accounts -> Seq(EthTx)]
  BY <1>1, BroadcastType
<1>3. manualLeft' \in 0..MaxManual
  BY <1>1, PayoutConstants DEF Counted, ThreadTypeOK
<1>4. QED BY <1>1, <1>2, <1>3 DEF ByHand, ThreadTypeOK

LEMMA LogResultType ==
  ASSUME IInv', ThreadTypeOK, NEW id \in TxIds, LogResult(id)
  PROVE  results' \in Seq(Result)
<1>1. transactions'[id].executed \in BOOLEAN
  <2>1. transactions'[id] \in Transaction \union {NoTransaction}
    BY DEF IInv, TypeOK
  <2>2. CASE transactions'[id] \in Transaction
    BY <2>2, Zenon DEF Transaction
  <2>3. CASE transactions'[id] = NoTransaction
    <3>1. transactions'[id].executed = FALSE
      BY <2>3 DEF NoTransaction
    <3>2. QED BY <3>1, Zenon
  <2>4. QED BY <2>1, <2>2, <2>3
<1>2. [id |-> id, ok |-> transactions'[id].executed] \in Result
  BY <1>1 DEF Result
<1>3. results \in Seq(Result)
  BY DEF ThreadTypeOK
<1>4. QED BY <1>2, <1>3 DEF LogResult

\* The blocks' numbers are bounded by those of the submissions.
LEMMA LogBlockType ==
  ASSUME ThreadTypeOK, ListenerInv, NEW id \in TxIds, LogBlock(id)
  PROVE  /\ blockOf' \in [TxIds -> 0..MaxTransactions]
         /\ \A j \in TxIds : blockOf'[j] <= j + 1
<1>1. id \in Nat /\ id + 1 <= MaxTransactions
  BY PayoutConstants DEF TxIds
<1>2. PICK b : blockOf' = [blockOf EXCEPT ![id] = b] /\ b \in 0..(id + 1)
  <2>1. CASE id = 0
    <3>1. PICK b \in {0, 0 + 1} : blockOf' = [blockOf EXCEPT ![id] = b]
      BY <2>1 DEF LogBlock
    <3>2. b \in 0..(id + 1)
      BY <1>1
    <3>3. QED BY <3>1, <3>2
  <2>2. CASE id # 0
    <3>1. id - 1 \in TxIds
      BY <1>1, <2>2, PayoutConstants DEF TxIds
    <3>2. blockOf[id - 1] \in 0..id
      BY <1>1, <3>1, PayoutConstants DEF ThreadTypeOK, ListenerInv
    <3>3. PICK b \in {blockOf[id - 1], blockOf[id - 1] + 1} : blockOf' = [blockOf EXCEPT ![id] = b]
      BY <2>2 DEF LogBlock
    <3>4. b \in 0..(id + 1)
      BY <1>1, <3>2
    <3>5. QED BY <3>3, <3>4
  <2>3. QED BY <2>1, <2>2
<1>3. b \in 0..MaxTransactions
  BY <1>1, <1>2, PayoutConstants
<1>4. blockOf' \in [TxIds -> 0..MaxTransactions]
  BY <1>2, <1>3 DEF ThreadTypeOK
<1>5. \A j \in TxIds : blockOf'[j] <= j + 1
  BY <1>1, <1>2 DEF ThreadTypeOK, ListenerInv
<1>6. QED BY <1>4, <1>5

\* What every mined transaction leaves alone.
LEMMA MinedTypes ==
  ASSUME ThreadTypeOK, NEW a \in Accounts, Mined(a),
         results' \in Seq(Result), blockOf' \in [TxIds -> 0..MaxTransactions]
  PROVE  ThreadTypeOK'
<1> USE DEF dbVars, leaderVars, signerVars, confVars, budgetVars
<1>1. queue' \in [Accounts -> Seq(EthTx)]
  <2>1. Tail(queue[a]) \in Seq(EthTx)
    BY HeadOfQueue DEF Mined
  <2>2. QED BY <2>1 DEF Mined, ThreadTypeOK
<1>2. QED BY <1>1 DEF Mined, ThreadTypeOK

LEMMA MineTypes ==
  ASSUME IInv, IInv', ThreadTypeOK, ListenerInv, NEW a \in Accounts, Mine(a)
  PROVE  ThreadTypeOK' /\ \A id \in TxIds : blockOf'[id] <= id + 1
<1> DEFINE tx == Head(queue[a])
<1>1. Mined(a) /\ tx \in EthTx
  BY HeadOfQueue DEF Mine, MineSubmit, MineConfirm, MineExecute, MineReverted, Mined
<1>2. results \in Seq(Result) /\ blockOf \in [TxIds -> 0..MaxTransactions]
      /\ \A id \in TxIds : blockOf[id] <= id + 1
  BY DEF ThreadTypeOK, ListenerInv
<1>3. CASE MineSubmit(a)
  <2>1. transactionCount \in TxIds
    BY <1>3, PayoutConstants DEF MineSubmit, SubmitTransaction, IInv, TypeOK, TxIds
  <2>2. results' \in Seq(Result)
    BY <1>3, <2>1, LogResultType DEF MineSubmit
  <2>3. /\ blockOf' \in [TxIds -> 0..MaxTransactions]
        /\ \A id \in TxIds : blockOf'[id] <= id + 1
    BY <1>3, <2>1, LogBlockType DEF MineSubmit
  <2>4. QED BY <1>1, <2>2, <2>3, MinedTypes
<1>4. CASE MineConfirm(a) \/ MineExecute(a)
  <2>1. tx.kind \in {"confirm", "execute"} /\ LogResult(tx.id) /\ blockOf' = blockOf
    BY <1>4 DEF MineConfirm, MineExecute
  <2>2. tx.id \in TxIds
    BY <1>1, <2>1 DEF EthTx, SubmitTx
  <2>3. results' \in Seq(Result)
    BY <2>1, <2>2, LogResultType
  <2>4. QED BY <1>1, <1>2, <2>1, <2>3, MinedTypes
<1>5. CASE MineReverted(a)
  BY <1>1, <1>2, <1>5, MinedTypes DEF MineReverted, logVars
<1>6. QED BY <1>3, <1>4, <1>5 DEF Mine

LEMMA ThreadTypes ==
  ASSUME PInv, IInv', [PayoutNext]_payoutVars
  PROVE  ThreadTypeOK'
<1> USE DEF PInv
<1>1. CASE Burn
  <2>1. burned' \in 0..NumSwaps
    BY <1>1, PayoutConstants DEF Burn, ThreadTypeOK
  <2>2. QED BY <1>1, <2>1 DEF Burn, ThreadTypeOK, dbVars, leaderVars, signerVars, confVars,
                              netVars, logVars, budgetVars
<1>2. CASE \/ \E amount \in Amounts : DepositEther(amount)
           \/ UNCHANGED payoutVars
  BY <1>2 DEF DepositEther, ThreadTypeOK, payoutVars, dbVars, leaderVars, signerVars, confVars,
              netVars, logVars, budgetVars
<1>3. QED
  BY <1>1, <1>2, LeaderTypes, SignerTypes, ConfirmerTypes, MineTypes, OperatorTypes, RestartTypes
     DEF PayoutNext

-----------------------------------------------------------------------------
(* The leader's and the listeners' threads                                 *)

\* A step of another actor forgets no burn and no status.
LEMMA LeaderFrame ==
  ASSUME ThreadTypeOK, LeaderInv, burned' >= burned, burned' \in Nat,
         UNCHANGED <<tracker, leaderPc, leaderTx>>,
         \A n \in SwapNonces : \/ status'[n] = status[n]
                               \/ status[n] # "none" /\ status'[n] # "none"
  PROVE  LeaderInv'
<1>1. tracker \in Int /\ burned \in Int /\ SwapNonces \subseteq Nat
  BY PayoutConstants DEF ThreadTypeOK
<1>2. leaderPc # "scan" => tracker + 1 \in SwapNonces
  BY LeaderSwap
<1>3. TrackedIsRecorded'
  BY DEF LeaderInv, TrackedIsRecorded
<1>4. \A n \in SwapNonces : status'[n] # "none" => n < burned'
  BY <1>1 DEF LeaderInv
<1>5. tracker' < burned' /\ (leaderPc' # "scan" => tracker' + 1 < burned')
  BY <1>1 DEF LeaderInv
<1>6. leaderPc' \in {"send", "save", "saveFailed"} =>
        leaderTx' \in Prepared /\ leaderTx'.tx.nonce = tracker' + 1
  BY DEF LeaderInv
<1>7. leaderPc' = "track" => status'[tracker' + 1] # "none"
  <2>1. ASSUME leaderPc = "track" PROVE status'[tracker + 1] # "none"
    <3>1. tracker + 1 \in SwapNonces
      BY <1>2, <2>1
    <3>2. status[tracker + 1] # "none"
      BY <2>1 DEF LeaderInv
    <3>3. QED BY <3>1, <3>2
  <2>2. QED BY <2>1
<1>8. QED BY <1>3, <1>4, <1>5, <1>6, <1>7 DEF LeaderInv

LEMMA LeaderOwnStep ==
  ASSUME ThreadTypeOK, LeaderInv, EthLeader
  PROVE  LeaderInv'
<1> USE DEF dbVars, leaderVars, signerVars, confVars, netVars, logVars, budgetVars
<1>0. tracker \in Int /\ burned \in Int /\ tracker < burned /\ SwapNonces \subseteq Nat
  BY PayoutConstants DEF ThreadTypeOK, LeaderInv
<1>1. ASSUME NEW fee \in LeaderFees, LeaderPrepare(fee)
      PROVE  LeaderInv'
  <2>1. Submission(tracker + 1, fee) \in SubmitTx /\ sent[Leader] \in Nat
    BY <1>1, LeaderSwap, SubmissionType, PayoutConstants DEF LeaderPrepare, ThreadTypeOK
  <2>2. leaderTx' \in Prepared /\ leaderTx'.tx.nonce = tracker + 1
    BY <1>1, <2>1 DEF LeaderPrepare, Prepared, Submission
  <2>3. QED BY <1>1, <2>2 DEF LeaderPrepare, LeaderInv, TrackedIsRecorded
<1>2. ASSUME NEW n \in SwapNonces, n = tracker + 1, n < burned,
             NEW st \in {"SUBMITTED", "FAILED"}, Record(n, st),
             leaderPc' = "track", UNCHANGED <<tracker, burned>>
      PROVE  LeaderInv'
  <2>1. /\ status'[n] # "none"
        /\ \A m \in SwapNonces : m # n => status'[m] = status[m]
    BY <1>2, RecordType
  <2>2. TrackedIsRecorded'
    BY <1>2, <2>1 DEF LeaderInv, TrackedIsRecorded
  <2>3. \A m \in SwapNonces : status'[m] # "none" => m < burned'
    BY <1>2, <2>1 DEF LeaderInv
  <2>4. QED BY <1>2, <2>1, <2>2, <2>3 DEF LeaderInv
<1>3. ASSUME NEW fee \in LeaderFees, LeaderTooLow(fee)
      PROVE  LeaderInv'
  <2>1. tracker + 1 \in SwapNonces
    BY <1>3, LeaderSwap DEF LeaderTooLow
  <2>2. QED BY <1>2, <1>3, <2>1 DEF LeaderTooLow
<1>4. ASSUME LeaderBroadcast \/ LeaderRefused
      PROVE  LeaderInv'
  BY <1>4 DEF LeaderBroadcast, LeaderRefused, LeaderInv, TrackedIsRecorded
<1>5. ASSUME LeaderSave
      PROVE  LeaderInv'
  <2>1. leaderTx.tx.nonce = tracker + 1 /\ tracker + 1 \in SwapNonces /\ tracker + 1 < burned
    BY <1>5, LeaderSwap DEF LeaderSave, LeaderInv
  <2>2. QED BY <1>2, <1>5, <2>1 DEF LeaderSave
<1>6. ASSUME LeaderTrack
      PROVE  LeaderInv'
  <2>1. tracker' = tracker + 1 /\ leaderPc' = "scan" /\ leaderPc = "track"
        /\ UNCHANGED <<burned, status>>
    BY <1>6 DEF LeaderTrack
  <2>2. tracker + 1 < burned /\ status[tracker + 1] # "none"
    BY <2>1 DEF LeaderInv
  <2>3. TrackedIsRecorded'
    <3> SUFFICES ASSUME NEW n \in SwapNonces, n <= tracker'
                 PROVE  status'[n] # "none"
      BY DEF TrackedIsRecorded
    <3>1. CASE n = tracker + 1
      BY <2>1, <2>2, <3>1
    <3>2. CASE n # tracker + 1
      <4>1. n <= tracker
        BY <1>0, <2>1, <3>2
      <4>2. QED BY <2>1, <4>1 DEF LeaderInv, TrackedIsRecorded
    <3>3. QED BY <3>1, <3>2
  <2>4. QED BY <2>1, <2>2, <2>3 DEF LeaderInv
<1>7. QED BY <1>1, <1>3, <1>4, <1>5, <1>6 DEF EthLeader

\* EthConfirmer writes a result only over SUBMITTED.
LEMMA ConfirmerWrites ==
  ASSUME ThreadTypeOK, NEW r, ConfirmerHandle(r)
  PROVE  \/ status' = status
         \/ /\ transactions[r.id].token = Native
            /\ \E n \in SwapNonces :
                 /\ n = transactions[r.id].nonce
                 /\ status[n] = "SUBMITTED"
                 /\ status' = [status EXCEPT ![n] = IF r.ok THEN "CONFIRMED" ELSE "FAILED"]
BY DEF ConfirmerHandle, SwapOf, ThreadTypeOK

LEMMA LeaderStep ==
  ASSUME PInv, ThreadTypeOK', [PayoutNext]_payoutVars
  PROVE  LeaderInv'
<1> USE DEF PInv
<1>1. burned \in Nat /\ burned' \in Nat
  BY PayoutConstants DEF ThreadTypeOK
<1>2. CASE UNCHANGED <<status, tracker, leaderPc, leaderTx>> /\ burned' \in {burned, burned + 1}
  BY <1>1, <1>2, LeaderFrame
<1>3. CASE EthLeader
  BY <1>3, LeaderOwnStep
<1>4. ASSUME NEW r, ConfirmerHandle(r)
      PROVE  LeaderInv'
  <2>1. \A n \in SwapNonces : \/ status'[n] = status[n]
                              \/ status[n] # "none" /\ status'[n] # "none"
    BY <1>4, ConfirmerWrites DEF ThreadTypeOK
  <2>2. UNCHANGED <<burned, tracker, leaderPc, leaderTx>>
    BY <1>4 DEF ConfirmerHandle, ConfirmerTakes, leaderVars
  <2>3. QED BY <1>1, <2>1, <2>2, LeaderFrame
<1>5. ASSUME NEW a \in Accounts, CrashProcess(a) \/ ReviveProcess(a)
      PROVE  LeaderInv'
  <2>1. RestartProcess(a)
    BY <1>5 DEF CrashProcess, ReviveProcess
  <2>2. CASE a = Leader
    BY <2>1, <2>2 DEF RestartProcess, dbVars, LeaderInv, TrackedIsRecorded
  <2>3. CASE a # Leader
    BY <1>2, <2>1, <2>3 DEF RestartProcess, dbVars, leaderVars
  <2>4. QED BY <2>2, <2>3
<1>6. ASSUME NEW a \in Accounts,
             \/ Mine(a)
             \/ \E p \in Proposals : ProposeByHand(a, p)
             \/ \E id \in TxIds : ConfirmByHand(a, id) \/ ExecuteByHand(a, id)
             \/ EthSigner(a)
      PROVE  UNCHANGED <<burned, status, tracker, leaderPc, leaderTx>>
  <2> USE DEF dbVars, leaderVars
  <2>1. CASE Mine(a)
    BY <2>1 DEF Mine, MineSubmit, MineConfirm, MineExecute, MineReverted, Mined
  <2>2. CASE EthSigner(a)
    BY <2>2 DEF EthSigner, SignerChokes, SignerSkips, SignerQueryFails, SignerRefuses,
                SignerApproves, Hears, SignerSends, SignerTracks
  <2>3. QED BY <1>6, <2>1, <2>2 DEF ProposeByHand, ConfirmByHand, ExecuteByHand, ByHand
<1>7. CASE Burn \/ ConfirmerPoll \/ (\E r \in Range(confirmerTodo) : ConfirmerChokes(r))
           \/ (\E amount \in Amounts : DepositEther(amount)) \/ UNCHANGED payoutVars
  BY <1>2, <1>7 DEF Burn, ConfirmerPoll, ConfirmerChokes, ConfirmerTakes, DepositEther,
                    payoutVars, dbVars, leaderVars
<1>8. QED
  BY <1>2, <1>3, <1>4, <1>5, <1>6, <1>7 DEF PayoutNext, EthConfirmer

\* The number of submissions never decreases.
LEMMA CountGrows ==
  ASSUME IInv, [Next]_vars
  PROVE  transactionCount' \in Nat /\ transactionCount' >= transactionCount
<1>1. transactionCount \in Nat
  BY BoundsAssumption DEF IInv, TypeOK
<1>2. transactionCount' \in {transactionCount, transactionCount + 1}
  BY DEF Next, SubmitTransaction, ConfirmTransaction, RevokeConfirmation, ExecuteTransaction,
         AddToken, RemoveToken, Swap, SwapToken, Deposit, vars, ledgerVars
<1>3. QED BY <1>1, <1>2

LEMMA ListenerStep ==
  ASSUME PInv, ThreadTypeOK', [PayoutNext]_payoutVars, IInv'
  PROVE  ListenerInv'
<1> USE DEF PInv, dbVars, leaderVars, signerVars, confVars, netVars, logVars, budgetVars
<1>1. /\ transactionCount \in Nat /\ transactionCount' \in Nat
      /\ transactionCount' >= transactionCount
      /\ signerAt \in [Accounts -> Nat]
  <2>1. transactionCount \in Nat
    BY PayoutConstants DEF IInv, TypeOK
  <2>2. transactionCount' \in Nat /\ transactionCount' >= transactionCount
    BY CountGrows, PayoutStepIsWalletStep
  <2>3. signerAt \in [Accounts -> Nat]
    BY PayoutConstants DEF ThreadTypeOK
  <2>4. QED BY <2>1, <2>2, <2>3
<1>2. ASSUME UNCHANGED <<signerPc, signerAt>>, \A id \in TxIds : blockOf'[id] <= id + 1
      PROVE  ListenerInv'
  BY <1>1, <1>2 DEF ListenerInv
<1>3. ASSUME NEW a \in Accounts, Mine(a)
      PROVE  ListenerInv'
  <2>1. \A id \in TxIds : blockOf'[id] <= id + 1
    BY <1>3, MineTypes
  <2>2. UNCHANGED <<signerPc, signerAt>>
    BY <1>3 DEF Mine, MineSubmit, MineConfirm, MineExecute, MineReverted, Mined
  <2>3. QED BY <1>2, <2>1, <2>2
<1>4. ASSUME NEW s \in Accounts, EthSigner(s)
      PROVE  ListenerInv'
  <2>1. \A r \in Accounts \ {s} : signerPc'[r] = signerPc[r] /\ signerAt'[r] = signerAt[r]
    BY <1>4 DEF EthSigner, SignerChokes, SignerSkips, SignerQueryFails, SignerRefuses,
                SignerApproves, SignerSends, SignerTracks, ThreadTypeOK
  <2>2. signerPc'[s] \in {"send", "track"} =>
          signerAt'[s] = signerAt[s] /\ signerAt[s] < transactionCount
    BY <1>4 DEF EthSigner, SignerChokes, SignerSkips, SignerQueryFails, SignerRefuses,
                SignerApproves, SignerSends, SignerTracks, ThreadTypeOK, Hears, ListenerInv
  <2>3. UNCHANGED blockOf
    BY <1>4 DEF EthSigner, SignerChokes, SignerSkips, SignerQueryFails, SignerRefuses,
                SignerApproves, SignerSends, SignerTracks, Hears
  <2>4. QED BY <1>1, <2>1, <2>2, <2>3 DEF ListenerInv
<1>5. ASSUME NEW a \in Accounts, CrashProcess(a) \/ ReviveProcess(a)
      PROVE  ListenerInv'
  <2>1. RestartProcess(a)
    BY <1>5 DEF CrashProcess, ReviveProcess
  <2>2. signerPc'[a] = "listen" /\ UNCHANGED blockOf
    BY <2>1 DEF RestartProcess, ThreadTypeOK
  <2>3. \A r \in Accounts \ {a} : signerPc'[r] = signerPc[r] /\ signerAt'[r] = signerAt[r]
    BY <2>1 DEF RestartProcess, ThreadTypeOK
  <2>4. QED BY <1>1, <2>2, <2>3 DEF ListenerInv
<1>6. CASE EthLeader
  <2>1. UNCHANGED <<signerPc, signerAt, blockOf>>
    BY <1>6 DEF EthLeader, LeaderPrepare, LeaderTooLow, LeaderBroadcast, LeaderRefused,
                LeaderSave, LeaderTrack
  <2>2. QED BY <1>2, <2>1 DEF ListenerInv
<1>7. CASE \/ Burn \/ (\E amount \in Amounts : DepositEther(amount))
           \/ EthConfirmer
           \/ \E a \in Accounts : \/ \E p \in Proposals : ProposeByHand(a, p)
                                  \/ \E id \in TxIds : ConfirmByHand(a, id) \/ ExecuteByHand(a, id)
           \/ UNCHANGED payoutVars
  <2>1. UNCHANGED <<signerPc, signerAt, blockOf>>
    BY <1>7 DEF Burn, DepositEther, EthConfirmer, ConfirmerPoll, ConfirmerHandle, ConfirmerChokes,
                ConfirmerTakes, ProposeByHand, ConfirmByHand, ExecuteByHand, ByHand, payoutVars
  <2>2. QED BY <1>2, <2>1 DEF ListenerInv
<1>8. QED
  BY <1>3, <1>4, <1>5, <1>6, <1>7 DEF PayoutNext

LEMMA PayoutStep == PInv /\ [PayoutNext]_payoutVars => PInv'
<1> SUFFICES ASSUME PInv, [PayoutNext]_payoutVars PROVE PInv'
  OBVIOUS
<1>1. IInv'
  BY PayoutStepIsWalletStep, NextInvariant DEF PInv
<1>2. ThreadTypeOK'
  BY <1>1, ThreadTypes
<1>3. LeaderInv' /\ ListenerInv'
  BY <1>1, <1>2, LeaderStep, ListenerStep
<1>4. QED BY <1>1, <1>2, <1>3 DEF PInv

LEMMA PayoutInvariance == PayoutSpec => []PInv
BY PayoutInitial, PayoutStep, PTL DEF PayoutSpec

\* The bridge's threads and operators only take steps of the wallet: every
\* theorem about MultiSigSwapWallet holds of it in the bridge.
THEOREM PayoutsRunTheWallet == PayoutSpec => Spec
<1>1. PayoutInit => Init
  BY DEF PayoutInit
<1>2. PInv /\ [PayoutNext]_payoutVars => [Next]_vars
  BY PayoutStepIsWalletStep DEF PInv
<1>3. QED BY <1>1, <1>2, PayoutInvariance, PTL DEF PayoutSpec, Spec

\* The wallet, the threads, the database and the chain always have their types.
THEOREM PayoutTypeCorrect == PayoutSpec => []PayoutTypeOK
<1>1. PInv => PayoutTypeOK
  BY SameType DEF PInv, IInv
<1>2. QED BY <1>1, PayoutInvariance, PTL

\* What the leader's tracker has passed is in the database, wherever the
\* process is restarted.
THEOREM TrackedIsRecordedSafe == PayoutSpec => []TrackedIsRecorded
<1>1. PInv => TrackedIsRecorded
  BY DEF PInv, LeaderInv
<1>2. QED BY <1>1, PayoutInvariance, PTL

\* A burn is paid at most once, whoever submits it again (notSubmitted).
THEOREM PaidOnceSafe == PayoutSpec => []PaidOnce
<1>1. PInv => PaidOnce
  <2> SUFFICES ASSUME PInv, NEW n \in SwapNonces \ {0}
               PROVE  Cardinality(PaidFor(n)) <= 1
    BY DEF PaidOnce
  <2>1. ASSUME NEW i \in PaidFor(n), NEW j \in PaidFor(n), i < j
        PROVE  FALSE
    <3>1. TransactionExists(j)
      BY DEF PaidFor, IsPayment, IsTransfer, TransactionExists, NoCall
    <3>2. /\ i \in TxIds /\ j \in TxIds /\ n \in Nat
          /\ transactions[i].token = transactions[j].token
          /\ transactions[i].nonce = n /\ transactions[j].nonce = n
      BY PayoutConstants DEF PaidFor, SubmittedFor
    <3>3. NonceOrder
      BY DEF PInv, IInv, LedgerInv
    <3>4. n < n
      BY <2>1, <3>1, <3>2, <3>3 DEF NonceOrder
    <3>5. QED BY <3>2, <3>4
  <2>2. PaidFor(n) \subseteq Nat
    BY PayoutConstants DEF PaidFor, SubmittedFor
  <2>3. CASE PaidFor(n) = {}
    BY <2>3, FS_EmptySet
  <2>4. CASE PaidFor(n) # {}
    <3>1. PICK i \in PaidFor(n) : TRUE
      BY <2>4
    <3>2. PaidFor(n) = {i}
      BY <2>1, <2>2
    <3>3. Cardinality({i}) = 1
      BY FS_Singleton, Zenon
    <3>4. QED BY <3>2, <3>3
  <2>5. QED BY <2>3, <2>4
<1>2. QED BY <1>1, PayoutInvariance, PTL

\* A result that is written stays, through replays of the events and restarts of
\* the leader (NotUniqueError, the check for SUBMITTED).
THEOREM ResultIsFinalSafe == PayoutSpec => ResultIsFinal
<1> DEFINE A == \A n \in SwapNonces :
                  status[n] \in {"CONFIRMED", "FAILED"} => status'[n] = status[n]
<1>1. PInv /\ [PayoutNext]_payoutVars => A
  <2> SUFFICES ASSUME PInv, [PayoutNext]_payoutVars PROVE A
    OBVIOUS
  <2> USE DEF PInv
  <2>1. CASE UNCHANGED status
    BY <2>1
  <2>2. CASE EthLeader
    <3>1. ASSUME NEW n \in SwapNonces, NEW st \in {"SUBMITTED", "FAILED"}, Record(n, st)
          PROVE  A
      BY <3>1, RecordType
    <3>2. ASSUME NEW fee \in LeaderFees, LeaderTooLow(fee)
          PROVE  A
      BY <3>1, <3>2, LeaderSwap DEF LeaderTooLow
    <3>3. CASE LeaderSave
      BY <3>1, <3>3, LeaderSwap DEF LeaderSave
    <3>4. QED
      BY <2>1, <2>2, <3>2, <3>3 DEF EthLeader, LeaderPrepare, LeaderBroadcast, LeaderRefused,
                                    LeaderTrack, dbVars
  <2>3. ASSUME NEW r, ConfirmerHandle(r)
        PROVE  A
    BY <2>3, ConfirmerWrites DEF ThreadTypeOK
  <2>4. QED
    BY <2>1, <2>2, <2>3
       DEF PayoutNext, Burn, DepositEther, EthSigner, SignerChokes, SignerSkips, SignerQueryFails,
           SignerRefuses, SignerApproves, Hears, SignerSends, SignerTracks, EthConfirmer,
           ConfirmerPoll, ConfirmerChokes, ConfirmerTakes, Mine, MineSubmit, MineConfirm,
           MineExecute, MineReverted, Mined, ProposeByHand, ConfirmByHand,
           ExecuteByHand, ByHand, CrashProcess, ReviveProcess, RestartProcess, dbVars, payoutVars
<1>2. QED BY <1>1, PayoutInvariance, PTL DEF PayoutSpec, ResultIsFinal

-----------------------------------------------------------------------------
(* What the listeners check                                                *)

Matches(id) == id < transactionCount /\ (IsTransfer(id) => IsKnown(id) /\ IsValid(id))

\* While the threshold is two or more, the wallet executes no transfer but what a
\* listener has compared with its burn: every other transfer has the confirmation of
\* its submitter at most.
CheckedInv ==
  /\ \A id \in TxIds : Matches(id) \/ \E a \in Accounts : confirmations[id] \subseteq {a}
  /\ \A id \in TxIds : transactions[id].executed => Matches(id)
  /\ \A a \in Accounts : \A i \in DOMAIN queue[a] :
        queue[a][i].kind = "confirm" => Matches(queue[a][i].id)
  /\ \A s \in Accounts : signerPc[s] = "send" => Matches(signerAt[s])

\* The confirmations of one owner do not reach a threshold of two.
LEMMA OneIsNoQuorum ==
  ASSUME IInv, required >= 2, NEW conf \in SUBSET Accounts, NEW a, conf \subseteq {a}
  PROVE  ~IsConfirmed(conf)
<1> SUFFICES ASSUME IsConfirmed(conf) PROVE FALSE
  OBVIOUS
<1>1. PICK Q \in SUBSET {o \in Accounts : isOwner[o]} :
        Q \subseteq conf /\ Cardinality(Q) >= required
  BY ConfirmingOwners
<1>2. Q \in SUBSET {a} /\ IsFiniteSet({a}) /\ Cardinality({a}) = 1
  BY <1>1, FS_Singleton
<1>3. Cardinality(Q) <= 1
  BY <1>2, FS_Subset
<1>4. required \in Nat /\ Cardinality(Q) \in Nat
  <2>1. IsFiniteSet(Q)
    BY <1>2, FS_Subset
  <2>2. QED BY <2>1, FS_CardinalityType DEF IInv, TypeOK
<1>5. QED BY <1>1, <1>3, <1>4

\* Executing a transaction sets its flag, and only with a quorum.
LEMMA ExecuteMarks ==
  ASSUME NEW id, NEW txs, NEW conf, Execute(id, txs, conf)
  PROVE  \/ transactions' = txs
         \/ /\ IsConfirmed(conf[id])
            /\ transactions' = [txs EXCEPT ![id].executed = TRUE]
BY DEF Execute, Unconfirmed

\* What a transaction is for never changes, and what is executed stays so.
LEMMA SubmissionKept ==
  ASSUME IInv, [Next]_vars, NEW id \in TxIds, id < transactionCount
  PROVE  /\ transactions'[id].call = transactions[id].call
         /\ transactions'[id].nonce = transactions[id].nonce
         /\ transactions'[id].token = transactions[id].token
         /\ transactions'[id].fee = transactions[id].fee
         /\ transactions[id].executed => transactions'[id].executed
         /\ id < transactionCount'
<1> DEFINE Kept == /\ transactions'[id].call = transactions[id].call
                   /\ transactions'[id].nonce = transactions[id].nonce
                   /\ transactions'[id].token = transactions[id].token
                   /\ transactions'[id].fee = transactions[id].fee
                   /\ transactions[id].executed => transactions'[id].executed
<1>1. /\ transactions \in [TxIds -> Transaction \union {NoTransaction}]
      /\ transactions[id] \in Transaction
      /\ transactionCount \in Nat /\ TxIds \subseteq Nat
  BY PayoutConstants DEF IInv, TypeOK, LedgerInv, SubmittedPrefix
<1>2. id < transactionCount'
  BY <1>1, CountGrows
<1>3. ASSUME NEW o \in Accounts, NEW c \in Calls, NEW n \in Nonces, NEW t \in Assets,
             NEW f \in Fees, SubmitTransaction(o, c, n, t, f)
      PROVE  Kept
  <2> DEFINE new == transactionCount
             txs == [transactions EXCEPT ![new] =
                       [call |-> c, executed |-> FALSE, nonce |-> n, token |-> t, fee |-> f]]
  <2>1. txs[id] = transactions[id] /\ id # new
    BY <1>1
  <2>2. transactions' = txs \/ transactions' = [txs EXCEPT ![new].executed = TRUE]
    BY <1>3 DEF SubmitTransaction, Execute, Unconfirmed
  <2>3. transactions'[id] = transactions[id]
    BY <1>1, <2>1, <2>2
  <2>4. QED BY <2>3
<1>4. ASSUME NEW o \in Accounts, NEW j \in TxIds,
             ConfirmTransaction(o, j) \/ ExecuteTransaction(o, j)
      PROVE  Kept
  <2>1. \/ transactions' = transactions
        \/ transactions' = [transactions EXCEPT ![j].executed = TRUE]
    BY <1>4 DEF ConfirmTransaction, ExecuteTransaction, Execute, Unconfirmed
  <2>2. CASE transactions' = transactions
    BY <2>2
  <2>3. CASE transactions' = [transactions EXCEPT ![j].executed = TRUE] /\ j # id
    BY <2>3
  <2>4. CASE transactions' = [transactions EXCEPT ![id].executed = TRUE]
    <3>1. transactions'[id] = [transactions[id] EXCEPT !.executed = TRUE]
      BY <1>1, <2>4
    <3>2. QED BY <1>1, <3>1 DEF Transaction
  <2>5. QED BY <2>1, <2>2, <2>3, <2>4
<1>5. ASSUME transactions' = transactions
      PROVE  Kept
  BY <1>5
<1>6. ASSUME NEW o \in Accounts, NEW j \in TxIds, RevokeConfirmation(o, j)
      PROVE  transactions' = transactions
  BY <1>6 DEF RevokeConfirmation
<1>7. ASSUME NEW o \in Accounts, NEW t \in Tokens,
             \/ \E min \in Amounts \union {0} : AddToken(o, t, min)
             \/ RemoveToken(o, t)
      PROVE  transactions' = transactions
  BY <1>7 DEF AddToken, RemoveToken, ledgerVars
<1>8. ASSUME NEW amount \in Amounts, Swap(amount) \/ \E t \in Tokens : SwapToken(t, amount)
      PROVE  transactions' = transactions
  BY <1>8 DEF Swap, SwapToken, Deposit, ledgerVars
<1>9. UNCHANGED vars => transactions' = transactions
  BY DEF vars, ledgerVars
<1> HIDE DEF Kept
<1>10. Kept
  BY <1>3, <1>4, <1>5, <1>6, <1>7, <1>8, <1>9 DEF Next
<1>11. QED BY <1>2, <1>10 DEF Kept

LEMMA MatchesKept ==
  ASSUME PInv, [PayoutNext]_payoutVars, ThreadTypeOK', NEW id \in TxIds, Matches(id)
  PROVE  Matches(id)'
<1>1. id < transactionCount
  BY DEF Matches
<1>2. /\ transactions'[id].call = transactions[id].call
      /\ transactions'[id].nonce = transactions[id].nonce
      /\ transactions'[id].token = transactions[id].token
      /\ transactions'[id].fee = transactions[id].fee
      /\ id < transactionCount'
  <2>1. IInv /\ [Next]_vars
    BY PayoutStepIsWalletStep DEF PInv
  <2>2. QED BY <1>1, <2>1, SubmissionKept
<1>3. burned' = burned \/ burned' = burned + 1
  BY DEF PayoutNext, Burn, DepositEther, EthLeader, LeaderPrepare, LeaderTooLow, LeaderBroadcast,
         LeaderRefused, LeaderSave, LeaderTrack, EthSigner, SignerChokes, SignerSkips,
         SignerQueryFails, SignerRefuses, SignerApproves, Hears, SignerSends, SignerTracks,
         EthConfirmer, ConfirmerPoll, ConfirmerHandle, ConfirmerChokes, ConfirmerTakes, Mine,
         MineSubmit, MineConfirm, MineExecute, MineReverted, Mined, ProposeByHand, ConfirmByHand,
         ExecuteByHand, ByHand, CrashProcess, ReviveProcess, RestartProcess,
         payoutVars
<1>4. transactions[id].nonce \in Nat /\ burned \in Nat
  <2>1. transactions[id] \in Transaction
    BY <1>1 DEF PInv, IInv, LedgerInv, SubmittedPrefix
  <2>2. burned \in Nat
    BY PayoutConstants DEF PInv, ThreadTypeOK
  <2>3. QED BY <2>1, <2>2, DataAssumption DEF Transaction
<1>5. transactions[id].nonce < burned => transactions'[id].nonce < burned'
  BY <1>2, <1>3, <1>4
<1>6. QED BY <1>2, <1>5 DEF Matches, IsTransfer, IsKnown, IsValid

\* A step of the bridge that the wallet and the listeners' queues do not see.
LEMMA CheckedFrame ==
  ASSUME PInv, CheckedInv, ThreadTypeOK', [PayoutNext]_payoutVars, UNCHANGED vars,
         \A a \in Accounts : \A i \in DOMAIN queue'[a] :
            queue'[a][i].kind = "confirm" =>
              queue'[a][i].id \in TxIds /\ Matches(queue'[a][i].id),
         \A s \in Accounts : signerPc'[s] = "send" =>
            signerAt'[s] \in TxIds /\ Matches(signerAt'[s])
  PROVE  CheckedInv'
<1>1. \A id \in TxIds : Matches(id) => Matches(id)'
  BY MatchesKept
<1>2. UNCHANGED <<transactions, confirmations>>
  BY DEF vars, ledgerVars
<1>4. \A id \in TxIds : Matches(id)' \/ \E a \in Accounts : confirmations'[id] \subseteq {a}
  BY <1>1, <1>2 DEF CheckedInv
<1>5. \A id \in TxIds : transactions'[id].executed => Matches(id)'
  BY <1>1, <1>2 DEF CheckedInv
<1>6. ASSUME NEW a \in Accounts, NEW i \in DOMAIN queue'[a], queue'[a][i].kind = "confirm"
      PROVE  Matches(queue[a][i].id)'
  <2>1. PICK id \in TxIds : id = queue'[a][i].id /\ Matches(id)
    BY <1>6
  <2>2. Matches(id)'
    BY <1>1, <2>1
  <2>3. QED BY <2>1, <2>2 DEF Matches, IsTransfer, IsKnown, IsValid
<1>7. ASSUME NEW s \in Accounts, signerPc'[s] = "send"
      PROVE  Matches(signerAt[s])'
  <2>1. PICK id \in TxIds : id = signerAt'[s] /\ Matches(id)
    BY <1>7
  <2>2. Matches(id)'
    BY <1>1, <2>1
  <2>3. QED BY <2>1, <2>2 DEF Matches, IsTransfer, IsKnown, IsValid
<1>8. QED BY <1>4, <1>5, <1>6, <1>7 DEF CheckedInv

LEMMA MinedQueue ==
  ASSUME PInv, NEW a \in Accounts, Mined(a), NEW b \in Accounts, NEW i \in DOMAIN queue'[b]
  PROVE  \E k \in DOMAIN queue[b] : queue'[b][i] = queue[b][k]
<1>1. CASE b = a
  <2>1. queue'[b] = Tail(queue[b]) /\ queue[b] # << >>
    BY <1>1 DEF Mined, PInv, ThreadTypeOK
  <2>2. QED BY <1>1, <2>1, HeadOfQueue DEF PInv
<1>2. CASE b # a
  <2>1. queue'[b] = queue[b]
    BY <1>2 DEF Mined, PInv, ThreadTypeOK
  <2>2. QED BY <2>1
<1>3. QED BY <1>1, <1>2

LEMMA CheckedIds ==
  ASSUME PInv, CheckedInv, NEW a \in Accounts
  PROVE  /\ \A i \in DOMAIN queue[a] :
              queue[a][i].kind = "confirm" => queue[a][i].id \in TxIds /\ Matches(queue[a][i].id)
         /\ signerPc[a] = "send" => signerAt[a] \in TxIds /\ Matches(signerAt[a])
<1>1. ASSUME NEW i \in DOMAIN queue[a], queue[a][i].kind = "confirm"
      PROVE  queue[a][i].id \in TxIds
  <2>1. queue[a][i] \in EthTx
    BY ElementOfSeq, LenProperties DEF PInv, ThreadTypeOK
  <2>2. QED BY <1>1, <2>1 DEF EthTx, SubmitTx
<1>2. ASSUME signerPc[a] = "send"
      PROVE  signerAt[a] \in TxIds
  <2>1. signerAt[a] < transactionCount
    BY <1>2 DEF CheckedInv, Matches
  <2>2. signerAt[a] \in Nat /\ transactionCount \in Nat /\ transactionCount <= MaxTransactions
    BY PayoutConstants DEF PInv, ThreadTypeOK, IInv, TypeOK
  <2>3. QED BY <2>1, <2>2, PayoutConstants DEF TxIds
<1>3. QED BY <1>1, <1>2 DEF CheckedInv

\* A call of the wallet for id, which executes nothing but id, when a listener has
\* checked id or only one owner has confirmed it.
LEMMA CheckedMine ==
  ASSUME PInv, CheckedInv, ThreadTypeOK', [PayoutNext]_payoutVars,
         NEW a \in Accounts, Mined(a), NEW id \in TxIds,
         \A j \in TxIds \ {id} : confirmations'[j] = confirmations[j],
         \A j \in TxIds \ {id} : transactions'[j].executed = transactions[j].executed,
         Matches(id)' \/ \E o \in Accounts : confirmations'[id] \subseteq {o},
         transactions'[id].executed => Matches(id)'
  PROVE  CheckedInv'
<1>1. \A j \in TxIds : Matches(j) => Matches(j)'
  BY MatchesKept
<1>3. \A j \in TxIds : Matches(j)' \/ \E o \in Accounts : confirmations'[j] \subseteq {o}
  BY <1>1 DEF CheckedInv
<1>4. \A j \in TxIds : transactions'[j].executed => Matches(j)'
  BY <1>1 DEF CheckedInv
<1>5. ASSUME NEW b \in Accounts, NEW i \in DOMAIN queue'[b], queue'[b][i].kind = "confirm"
      PROVE  Matches(queue[b][i].id)'
  <2>1. PICK k \in DOMAIN queue[b] : queue'[b][i] = queue[b][k]
    BY <1>5, MinedQueue
  <2>2. PICK j \in TxIds : j = queue[b][k].id /\ Matches(j)
    BY <1>5, <2>1, CheckedIds
  <2>3. Matches(j)'
    BY <1>1, <2>2
  <2>4. QED BY <2>1, <2>2, <2>3 DEF Matches, IsTransfer, IsKnown, IsValid
<1>6. ASSUME NEW s \in Accounts, signerPc'[s] = "send"
      PROVE  Matches(signerAt[s])'
  <2>1. UNCHANGED <<signerPc, signerAt>>
    BY DEF Mined, signerVars
  <2>2. PICK j \in TxIds : j = signerAt[s] /\ Matches(j)
    BY <1>6, <2>1, CheckedIds
  <2>3. Matches(j)'
    BY <1>1, <2>2
  <2>4. QED BY <2>1, <2>2, <2>3 DEF Matches, IsTransfer, IsKnown, IsValid
<1>7. QED BY <1>3, <1>4, <1>5, <1>6 DEF CheckedInv

LEMMA CheckedMineStep ==
  ASSUME PInv, CheckedInv, ThreadTypeOK', [PayoutNext]_payoutVars,
         required >= 2, NEW a \in Accounts, Mine(a)
  PROVE  CheckedInv'
<1> DEFINE tx == Head(queue[a])
<1>1. Mined(a) /\ tx \in EthTx
  BY HeadOfQueue DEF PInv, Mine, MineSubmit, MineConfirm, MineExecute, MineReverted, Mined
<1>2. /\ transactions \in [TxIds -> Transaction \union {NoTransaction}]
      /\ confirmations \in [TxIds -> SUBSET Accounts]
      /\ IInv
  BY DEF PInv, IInv, TypeOK
<1>3. CASE MineSubmit(a)
  <2> DEFINE id == transactionCount
             new == [call |-> tx.call, executed |-> FALSE, nonce |-> tx.nonce,
                     token |-> tx.token, fee |-> tx.fee]
             txs == [transactions EXCEPT ![id] = new]
  <2>1. /\ id \in TxIds
        /\ confirmations' = [confirmations EXCEPT ![id] = @ \union {a}]
        /\ Execute(id, txs, confirmations')
    BY <1>3, PayoutConstants DEF MineSubmit, SubmitTransaction, PInv, IInv, TypeOK, TxIds
  <2>2. confirmations[id] = {}
    BY <2>1, PayoutConstants DEF PInv, IInv, TypeOK, LedgerInv, SubmittedPrefix
  <2>3. confirmations'[id] = {a} /\ \A j \in TxIds \ {id} : confirmations'[j] = confirmations[j]
    BY <1>2, <2>1, <2>2
  <2>4. ~IsConfirmed(confirmations'[id])
    BY <1>2, <2>3, OneIsNoQuorum
  <2>5. transactions' = txs
    BY <2>1, <2>4, ExecuteMarks
  <2>6. ~transactions'[id].executed
        /\ \A j \in TxIds \ {id} : transactions'[j].executed = transactions[j].executed
    BY <1>2, <2>1, <2>5
  <2> HIDE DEF id
  <2>7. QED BY <1>1, <2>1, <2>3, <2>6, CheckedMine
<1>4. ASSUME NEW id \in TxIds, Matches(id) \/ \E o \in Accounts : confirmations'[id] \subseteq {o},
             confirmations' \in [TxIds -> SUBSET Accounts],
             \A j \in TxIds \ {id} : confirmations'[j] = confirmations[j],
             Execute(id, transactions, confirmations')
      PROVE  CheckedInv'
  <2>1. ~Matches(id) => ~IsConfirmed(confirmations'[id])
    <3> SUFFICES ASSUME ~Matches(id) PROVE ~IsConfirmed(confirmations'[id])
      OBVIOUS
    <3>1. PICK o \in Accounts : confirmations'[id] \subseteq {o}
      BY <1>4
    <3>2. confirmations'[id] \in SUBSET Accounts
      BY <1>4
    <3>3. QED BY <1>2, <3>1, <3>2, OneIsNoQuorum
  <2>2. Matches(id) => Matches(id)'
    BY MatchesKept
  <2>3. \/ transactions' = transactions
        \/ /\ IsConfirmed(confirmations'[id])
           /\ transactions' = [transactions EXCEPT ![id].executed = TRUE]
    BY <1>4, ExecuteMarks
  <2>4. \A j \in TxIds \ {id} : transactions'[j].executed = transactions[j].executed
    BY <1>2, <2>3
  <2>5. transactions'[id].executed => Matches(id)'
    BY <2>1, <2>2, <2>3 DEF CheckedInv
  <2>6. QED BY <1>1, <1>4, <2>2, <2>3, <2>4, <2>5, CheckedMine
<1>5. CASE MineConfirm(a)
  <2>1. tx.kind = "confirm" /\ ConfirmTransaction(a, tx.id)
    BY <1>5 DEF MineConfirm
  <2>2. tx.id \in TxIds
    BY <1>1, <2>1 DEF EthTx, SubmitTx
  <2>3. Matches(tx.id)
    BY <1>1, <2>1, HeadOfQueue DEF CheckedInv, Mined, PInv
  <2>4. /\ confirmations' \in [TxIds -> SUBSET Accounts]
        /\ \A j \in TxIds \ {tx.id} : confirmations'[j] = confirmations[j]
        /\ Execute(tx.id, transactions, confirmations')
    BY <1>2, <2>1, <2>2 DEF ConfirmTransaction
  <2>5. QED BY <1>4, <2>2, <2>3, <2>4
<1>6. CASE MineExecute(a)
  <2>1. tx.kind = "execute" /\ ExecuteTransaction(a, tx.id)
    BY <1>6 DEF MineExecute
  <2>2. tx.id \in TxIds
    BY <1>1, <2>1 DEF EthTx, SubmitTx
  <2>3. confirmations' = confirmations /\ Execute(tx.id, transactions, confirmations')
    BY <2>1 DEF ExecuteTransaction
  <2>4. Matches(tx.id) \/ \E o \in Accounts : confirmations'[tx.id] \subseteq {o}
    BY <2>2, <2>3 DEF CheckedInv
  <2>5. QED BY <1>2, <1>4, <2>2, <2>3, <2>4
<1>7. CASE MineReverted(a)
  <2>1. UNCHANGED vars
    BY <1>7 DEF MineReverted
  <2>2. \A b \in Accounts : \A i \in DOMAIN queue'[b] :
           queue'[b][i].kind = "confirm" =>
             queue'[b][i].id \in TxIds /\ Matches(queue'[b][i].id)
    BY <1>1, MinedQueue, CheckedIds
  <2>3. \A s \in Accounts : signerPc'[s] = "send" =>
           signerAt'[s] \in TxIds /\ Matches(signerAt'[s])
    BY <1>1, CheckedIds DEF Mined, signerVars
  <2>4. QED BY <2>1, <2>2, <2>3, CheckedFrame
<1>8. QED BY <1>3, <1>5, <1>6, <1>7 DEF Mine

\* Only a check puts a confirmation under way.
LEMMA CheckedBroadcast ==
  ASSUME PInv, CheckedInv, ThreadTypeOK', [PayoutNext]_payoutVars, UNCHANGED vars,
         NEW a \in Accounts, NEW tx \in EthTx, Broadcast(a, tx),
         tx.kind = "confirm" => tx.id \in TxIds /\ Matches(tx.id),
         \A s \in Accounts : signerPc'[s] = "send" => signerPc[s] = "send",
         UNCHANGED signerAt
  PROVE  CheckedInv'
<1>1. ASSUME NEW b \in Accounts, NEW i \in DOMAIN queue'[b], queue'[b][i].kind = "confirm"
      PROVE  queue'[b][i].id \in TxIds /\ Matches(queue'[b][i].id)
  <2>1. CASE b = a
    <3>1. queue'[b] = Append(queue[b], tx) /\ queue[b] \in Seq(EthTx)
      BY <2>1 DEF Broadcast, PInv, ThreadTypeOK
    <3>2. CASE i = Len(queue[b]) + 1
      BY <1>1, <3>1, <3>2, AppendProperties
    <3>3. CASE i # Len(queue[b]) + 1
      <4>1. i \in DOMAIN queue[b] /\ queue'[b][i] = queue[b][i]
        BY <1>1, <3>1, <3>3, AppendProperties, LenProperties
      <4>2. QED BY <1>1, <4>1, CheckedIds
    <3>4. QED BY <3>2, <3>3
  <2>2. CASE b # a
    <3>1. queue'[b] = queue[b]
      BY <2>2 DEF Broadcast, PInv, ThreadTypeOK
    <3>2. QED BY <1>1, <3>1, CheckedIds
  <2>3. QED BY <2>1, <2>2
<1>2. \A s \in Accounts : signerPc'[s] = "send" =>
         signerAt'[s] \in TxIds /\ Matches(signerAt'[s])
  BY CheckedIds
<1>3. QED BY <1>1, <1>2, CheckedFrame

LEMMA CheckedSigner ==
  ASSUME PInv, CheckedInv, ThreadTypeOK', [PayoutNext]_payoutVars,
         NEW s \in Accounts, EthSigner(s)
  PROVE  CheckedInv'
<1>1. UNCHANGED vars
  BY DEF EthSigner, SignerChokes, SignerSkips, SignerQueryFails, SignerRefuses,
         SignerApproves, Hears, SignerSends, SignerTracks
<1>2. \A b \in Accounts : \A i \in DOMAIN queue[b] :
         queue[b][i].kind = "confirm" => queue[b][i].id \in TxIds /\ Matches(queue[b][i].id)
  BY CheckedIds
<1>3. ASSUME UNCHANGED queue,
             \A r \in Accounts \ {s} : signerPc'[r] = signerPc[r] /\ signerAt'[r] = signerAt[r],
             signerPc'[s] = "send" => signerAt'[s] \in TxIds /\ Matches(signerAt'[s])
      PROVE  CheckedInv'
  <2>1. \A r \in Accounts : signerPc'[r] = "send" =>
           signerAt'[r] \in TxIds /\ Matches(signerAt'[r])
    BY <1>3, CheckedIds
  <2>2. QED BY <1>1, <1>2, <1>3, <2>1, CheckedFrame
<1>4. CASE SignerSends(s)
  <2>1. /\ \A r \in Accounts : signerPc'[r] = "send" => signerPc[r] = "send"
        /\ UNCHANGED signerAt
    BY <1>4 DEF SignerSends, PInv, ThreadTypeOK
  <2>2. CASE UNCHANGED netVars
    <3>1. /\ UNCHANGED queue
          /\ \A r \in Accounts \ {s} : signerPc'[r] = signerPc[r]
          /\ signerPc'[s] # "send"
      BY <1>4, <2>2 DEF SignerSends, netVars, PInv, ThreadTypeOK
    <3>2. QED BY <1>3, <2>1, <3>1
  <2>3. CASE Broadcast(s, [kind |-> "confirm", id |-> signerAt[s]])
    <3>1. signerAt[s] \in TxIds /\ Matches(signerAt[s])
      BY <1>4, CheckedIds DEF SignerSends
    <3>2. [kind |-> "confirm", id |-> signerAt[s]] \in EthTx
      BY <3>1 DEF EthTx
    <3>3. QED BY <1>1, <2>1, <2>3, <3>1, <3>2, CheckedBroadcast
  <2>4. QED BY <1>4, <2>2, <2>3 DEF SignerSends
<1>5. ASSUME NEW id \in TxIds, SignerApproves(s, id)
      PROVE  CheckedInv'
  <2>1. signerAt[s] = id /\ id < transactionCount /\ UNCHANGED <<queue, signerAt>>
    BY <1>5 DEF SignerApproves, Hears, netVars
  <2>2. Matches(id)
    BY <1>5, <2>1 DEF SignerApproves, Matches
  <2>3. \A r \in Accounts \ {s} : signerPc'[r] = signerPc[r]
    BY <1>5 DEF SignerApproves, PInv, ThreadTypeOK
  <2>4. QED BY <1>3, <2>1, <2>2, <2>3
<1>6. ASSUME NEW id \in TxIds,
             SignerChokes(s, id) \/ SignerSkips(s, id) \/ SignerQueryFails(s, id)
             \/ SignerRefuses(s, id)
      PROVE  CheckedInv'
  <2>1. /\ signerPc'[s] # "send" /\ UNCHANGED queue
        /\ \A r \in Accounts \ {s} : signerPc'[r] = signerPc[r] /\ signerAt'[r] = signerAt[r]
    BY <1>6 DEF SignerChokes, SignerSkips, SignerQueryFails, SignerRefuses, Hears, netVars,
                PInv, ThreadTypeOK
  <2>2. QED BY <1>3, <2>1
<1>7. CASE SignerTracks(s)
  <2>1. /\ signerPc'[s] # "send" /\ UNCHANGED queue
        /\ \A r \in Accounts \ {s} : signerPc'[r] = signerPc[r] /\ signerAt'[r] = signerAt[r]
    BY <1>7 DEF SignerTracks, netVars, PInv, ThreadTypeOK
  <2>2. QED BY <1>3, <2>1
<1>8. QED BY <1>4, <1>5, <1>6, <1>7 DEF EthSigner

LEMMA CheckedStep ==
  ASSUME PInv, CheckedInv, ThreadTypeOK', required >= 2, [PayoutNext]_payoutVars
  PROVE  CheckedInv'
<1> USE DEF leaderVars, signerVars, netVars
<1>1. \A a \in Accounts : \A i \in DOMAIN queue[a] :
         queue[a][i].kind = "confirm" => queue[a][i].id \in TxIds /\ Matches(queue[a][i].id)
  BY CheckedIds
<1>2. ASSUME UNCHANGED vars, UNCHANGED <<queue, signerPc, signerAt>>
      PROVE  CheckedInv'
  BY <1>1, <1>2, CheckedIds, CheckedFrame
<1>3. ASSUME NEW amount \in Amounts, DepositEther(amount)
      PROVE  CheckedInv'
  <2>1. UNCHANGED <<transactions, confirmations, queue, signerPc, signerAt>>
    BY <1>3 DEF DepositEther, Swap, Deposit, ledgerVars
  <2>2. UNCHANGED <<transactionCount, burned>>
    BY <1>3 DEF DepositEther, Swap, Deposit, ledgerVars
  <2>3. QED
    BY <2>1, <2>2 DEF CheckedInv, Matches, IsTransfer, IsKnown, IsValid
<1>4. CASE EthLeader
  <2>1. CASE LeaderBroadcast
    <3>1. leaderTx.tx \in SubmitTx /\ Leader \in Accounts
      BY <2>1, LeaderSwap, PayoutConstants DEF LeaderBroadcast, PInv
    <3>2. UNCHANGED vars /\ UNCHANGED <<signerPc, signerAt>> /\ Broadcast(Leader, leaderTx.tx)
      BY <2>1 DEF LeaderBroadcast
    <3>3. QED BY <3>1, <3>2, CheckedBroadcast DEF SubmitTx, EthTx
  <2>2. CASE ~LeaderBroadcast
    <3>1. UNCHANGED vars /\ UNCHANGED <<queue, signerPc, signerAt>>
      BY <1>4, <2>2 DEF EthLeader, LeaderPrepare, LeaderTooLow, LeaderRefused, LeaderSave,
      LeaderTrack
    <3>2. QED BY <1>2, <3>1
  <2>3. QED BY <2>1, <2>2
<1>5. ASSUME NEW a \in Accounts,
             \/ \E p \in Proposals : ProposeByHand(a, p)
             \/ \E id \in TxIds : ConfirmByHand(a, id) \/ ExecuteByHand(a, id)
      PROVE  CheckedInv'
  <2>1. UNCHANGED vars /\ UNCHANGED <<signerPc, signerAt>>
    BY <1>5 DEF ProposeByHand, ConfirmByHand, ExecuteByHand, ByHand
  <2>2. PICK tx \in EthTx :
          Broadcast(a, tx) /\ (tx.kind = "confirm" => tx.id \in TxIds /\ Matches(tx.id))
    <3>1. ASSUME NEW p \in Proposals, ProposeByHand(a, p)
          PROVE  \E tx \in EthTx :
                   Broadcast(a, tx) /\ (tx.kind = "confirm" => tx.id \in TxIds /\ Matches(tx.id))
      <4> DEFINE tx == [kind |-> "submit", call |-> p.call, nonce |-> p.nonce,
                        token |-> p.token, fee |-> p.fee]
      <4>1. tx \in EthTx
        BY PayoutAssumption DEF Proposal, EthTx, SubmitTx
      <4>2. QED BY <3>1, <4>1 DEF ProposeByHand
    <3>2. ASSUME NEW id \in TxIds, ExecuteByHand(a, id)
          PROVE  \E tx \in EthTx :
                   Broadcast(a, tx) /\ (tx.kind = "confirm" => tx.id \in TxIds /\ Matches(tx.id))
      <4>1. [kind |-> "execute", id |-> id] \in EthTx
        BY DEF EthTx
      <4>2. QED BY <3>2, <4>1 DEF ExecuteByHand
    <3>3. ASSUME NEW id \in TxIds, ConfirmByHand(a, id)
          PROVE  \E tx \in EthTx :
                   Broadcast(a, tx) /\ (tx.kind = "confirm" => tx.id \in TxIds /\ Matches(tx.id))
      <4>1. [kind |-> "confirm", id |-> id] \in EthTx
        BY DEF EthTx
      <4>2. Matches(id)
        BY <3>3 DEF ConfirmByHand, Matches
      <4>3. QED BY <3>3, <4>1, <4>2 DEF ConfirmByHand
    <3>4. QED BY <1>5, <3>1, <3>2, <3>3
  <2>3. QED BY <2>1, <2>2, CheckedBroadcast
<1>6. ASSUME NEW a \in Accounts, CrashProcess(a) \/ ReviveProcess(a)
      PROVE  CheckedInv'
  <2>1. RestartProcess(a)
    BY <1>6 DEF CrashProcess, ReviveProcess
  <2>2. UNCHANGED vars /\ UNCHANGED queue
    BY <2>1 DEF RestartProcess
  <2>3. \A s \in Accounts : signerPc'[s] = "send" =>
           signerPc[s] = "send" /\ signerAt'[s] = signerAt[s]
    BY <2>1 DEF RestartProcess, PInv, ThreadTypeOK
  <2>4. QED BY <1>1, <2>2, <2>3, CheckedIds, CheckedFrame
<1>7. CASE Burn \/ EthConfirmer \/ UNCHANGED payoutVars
  <2>1. UNCHANGED vars /\ UNCHANGED <<queue, signerPc, signerAt>>
    BY <1>7 DEF Burn, EthConfirmer, ConfirmerPoll, ConfirmerHandle, ConfirmerChokes,
                ConfirmerTakes, payoutVars
  <2>2. QED BY <1>2, <2>1
<1>8. QED
  BY <1>3, <1>4, <1>5, <1>6, <1>7, CheckedMineStep, CheckedSigner DEF PayoutNext

LEMMA CheckedInitial == PayoutInit => CheckedInv
<1> SUFFICES ASSUME PayoutInit PROVE CheckedInv
  OBVIOUS
<1>1. \A id \in TxIds : confirmations[id] = {} /\ ~transactions[id].executed
  BY DEF PayoutInit, Init, NoTransaction
<1>2. \A a \in Accounts : DOMAIN queue[a] = {} /\ signerPc[a] # "send"
  BY DEF PayoutInit
<1>3. QED BY <1>1, <1>2, PayoutConstants DEF CheckedInv

\* As long as the threshold is two or more, nothing is paid that was not burned,
\* and none of another amount, whatever one owner submits and executes by hand
\* (_validate_tx_data).  With a threshold of one, an owner may pay what it likes.
THEOREM PaidAsBurnedSafe == PayoutSpec /\ [](required >= 2) => []PaidAsBurned
<1>1. PInv /\ CheckedInv /\ required >= 2 /\ [PayoutNext]_payoutVars /\ PInv' => CheckedInv'
  BY CheckedStep DEF PInv
<1>2. PInv /\ CheckedInv => PaidAsBurned
  BY DEF CheckedInv, PaidAsBurned, PaidFor, SubmittedFor, IsPayment, Matches, IsKnown, IsValid
<1>3. QED BY CheckedInitial, <1>1, <1>2, PayoutInvariance, PTL DEF PayoutSpec

-----------------------------------------------------------------------------
(* Implementing Transfer                                                   *)

\* What EthConfirmer has read, and may still read, is what the wallet did.
ReportInv ==
  /\ \A i \in DOMAIN results : results[i].ok => transactions[results[i].id].executed
  /\ \A i \in DOMAIN confirmerTodo :
        confirmerTodo[i].ok => transactions[confirmerTodo[i].id].executed

LEMMA ExecutedKept ==
  ASSUME PInv, [PayoutNext]_payoutVars, NEW id \in TxIds, transactions[id].executed
  PROVE  transactions'[id].executed
<1>1. IInv /\ [Next]_vars
  BY PayoutStepIsWalletStep DEF PInv
<1>2. id < transactionCount
  BY <1>1, PayoutConstants DEF IInv, TypeOK, LedgerInv, SubmittedPrefix, NoTransaction
<1>3. QED BY <1>1, <1>2, SubmissionKept

LEMMA ResultsTypes ==
  ASSUME PInv
  PROVE  /\ results \in Seq(Result) /\ confirmerTodo \in Seq(Result)
         /\ \A i \in DOMAIN results : results[i] \in Result /\ results[i].id \in TxIds
         /\ \A i \in DOMAIN confirmerTodo :
              confirmerTodo[i] \in Result /\ confirmerTodo[i].id \in TxIds
<1>1. results \in Seq(Result) /\ confirmerTodo \in Seq(Result)
  BY DEF PInv, ThreadTypeOK
<1>2. \A s \in Seq(Result) : \A i \in DOMAIN s : s[i] \in Result /\ s[i].id \in TxIds
  <2> SUFFICES ASSUME NEW s \in Seq(Result), NEW i \in DOMAIN s
               PROVE  s[i] \in Result /\ s[i].id \in TxIds
    OBVIOUS
  <2>1. s[i] \in Result
    BY LenProperties
  <2>2. QED BY <2>1 DEF Result
<1>3. QED BY <1>1, <1>2

LEMMA ReportStep ==
  ASSUME PInv, ReportInv, [PayoutNext]_payoutVars, PInv'
  PROVE  ReportInv'
<1> DEFINE Before(r) == r.ok => transactions[r.id].executed
           After(r) == r.ok => transactions'[r.id].executed
<1> USE DEF confVars, logVars
<1>1. \A r \in Result : Before(r) => After(r)
  BY ExecutedKept DEF Result
<1>2. /\ \A i \in DOMAIN results : results[i] \in Result /\ Before(results[i])
      /\ \A i \in DOMAIN confirmerTodo : confirmerTodo[i] \in Result /\ Before(confirmerTodo[i])
  BY ResultsTypes DEF ReportInv
<1>3. ASSUME \A i \in DOMAIN results' :
               \/ After(results'[i])
               \/ \E j \in DOMAIN results : results'[i] = results[j],
             \A i \in DOMAIN confirmerTodo' :
               \/ \E j \in DOMAIN confirmerTodo : confirmerTodo'[i] = confirmerTodo[j]
               \/ \E j \in DOMAIN results : confirmerTodo'[i] = results[j]
      PROVE  ReportInv'
  <2>1. /\ \A i \in DOMAIN results' : After(results'[i])
        /\ \A i \in DOMAIN confirmerTodo' : After(confirmerTodo'[i])
    <3> HIDE DEF Before, After
    <3>1. QED BY <1>1, <1>2, <1>3
  <2>2. QED BY <2>1 DEF ReportInv
<1>4. CASE UNCHANGED <<results, confirmerTodo>>
  BY <1>3, <1>4
<1>5. ASSUME NEW a \in Accounts, Mine(a)
      PROVE  ReportInv'
  <2>1. UNCHANGED confirmerTodo
    BY <1>5 DEF Mine, MineSubmit, MineConfirm, MineExecute, MineReverted, Mined
  <2>2. UNCHANGED results \/ \E id : results' = Append(results, [id |-> id,
  ok |-> transactions'[id].executed])
    BY <1>5 DEF Mine, MineSubmit, MineConfirm, MineExecute, MineReverted, LogResult
  <2>3. ASSUME NEW id, results' = Append(results, [id |-> id, ok |-> transactions'[id].executed])
        PROVE  \A i \in DOMAIN results' :
                 \/ After(results'[i])
                 \/ \E j \in DOMAIN results : results'[i] = results[j]
    <3>1. results \in Seq(Result)
      BY ResultsTypes
    <3>2. /\ DOMAIN results' = 1..(Len(results) + 1) /\ DOMAIN results = 1..Len(results)
          /\ Len(results) \in Nat
          /\ \A i \in 1..Len(results) : results'[i] = results[i]
          /\ results'[Len(results) + 1] = [id |-> id, ok |-> transactions'[id].executed]
      BY <2>3, <3>1, AppendProperties, LenProperties
    <3>3. After(results'[Len(results) + 1])
      BY <3>2
    <3>4. QED BY <3>2, <3>3
  <2>4. QED BY <1>3, <1>4, <2>1, <2>2, <2>3
<1>6. CASE ConfirmerPoll
  <2> DEFINE new == SubSeq(results, confirmerAt + 1, Len(results))
             withdraw == {r \in Range(new) : r.ok}
  <2>1. /\ results \in Seq(Result) /\ Len(results) \in Nat /\ confirmerAt \in Nat
        /\ DOMAIN results = 1..Len(results)
    BY ResultsTypes, LenProperties DEF PInv, ThreadTypeOK
  <2>2. /\ new \in Seq(Result)
        /\ \A i \in DOMAIN new : \E j \in DOMAIN results : new[i] = results[j]
    <3>1. new \in Seq(Result)
      BY <2>1, SubSeqProperties
    <3>2. ASSUME NEW i \in DOMAIN new
          PROVE  confirmerAt + 1 + i - 1 \in DOMAIN results
                 /\ new[i] = results[confirmerAt + 1 + i - 1]
      BY <2>1
    <3>3. QED BY <3>1, <3>2
  <2>3. confirmerTodo' = Those(new, withdraw) \o Those(new, Range(new) \ withdraw)
        /\ UNCHANGED results
    BY <1>6 DEF ConfirmerPoll
  <2> HIDE DEF new, withdraw
  <2>4. ASSUME NEW S
        PROVE  /\ Those(new, S) \in Seq(Result)
               /\ \A i \in DOMAIN Those(new, S) :
                    \E j \in DOMAIN results : Those(new, S)[i] = results[j]
    <3>1. Those(new, S) \in Seq(Result)
      BY <2>2, ThoseKeeps
    <3>2. ASSUME NEW i \in DOMAIN Those(new, S)
          PROVE  \E k \in DOMAIN new : new[k] = Those(new, S)[i]
      <4>1. \A x : (\E k \in DOMAIN Those(new, S) : Those(new, S)[k] = x)
                      <=> x \in S /\ \E k \in DOMAIN new : new[k] = x
        BY <2>2, ThoseKeeps
      <4>2. \E k \in DOMAIN Those(new, S) : Those(new, S)[k] = Those(new, S)[i]
        OBVIOUS
      <4>3. QED BY <4>1, <4>2
    <3>3. QED BY <2>2, <3>1, <3>2
  <2>5. \A i \in DOMAIN confirmerTodo' : \E j \in DOMAIN results : confirmerTodo'[i] = results[j]
    <3> DEFINE s == Those(new, withdraw)
               t == Those(new, Range(new) \ withdraw)
    <3>1. /\ s \in Seq(Result) /\ t \in Seq(Result) /\ confirmerTodo' = s \o t
          /\ \A i \in DOMAIN s : \E j \in DOMAIN results : s[i] = results[j]
          /\ \A i \in DOMAIN t : \E j \in DOMAIN results : t[i] = results[j]
      BY <2>3, <2>4
    <3> HIDE DEF s, t
    <3>2. /\ Len(s) \in Nat /\ Len(t) \in Nat
          /\ DOMAIN s = 1..Len(s) /\ DOMAIN t = 1..Len(t)
      BY <3>1, LenProperties
    <3>3. /\ DOMAIN (s \o t) = 1..(Len(s) + Len(t))
          /\ \A i \in 1..(Len(s) + Len(t)) :
               (s \o t)[i] = IF i <= Len(s) THEN s[i] ELSE t[i - Len(s)]
      BY <3>1, <3>2, ConcatProperties
    <3>4. ASSUME NEW i \in DOMAIN (s \o t)
          PROVE  \E j \in DOMAIN results : (s \o t)[i] = results[j]
      <4>1. CASE i <= Len(s)
        BY <3>1, <3>2, <3>3, <4>1
      <4>2. CASE ~(i <= Len(s))
        <5>1. i - Len(s) \in DOMAIN t /\ (s \o t)[i] = t[i - Len(s)]
          BY <3>2, <3>3, <4>2
        <5>2. QED BY <3>1, <5>1
      <4>3. QED BY <4>1, <4>2
    <3>5. QED BY <3>1, <3>4
  <2>6. QED BY <1>3, <2>3, <2>5
<1>7. ASSUME NEW r, ConfirmerHandle(r)
      PROVE  ReportInv'
  <2>1. UNCHANGED results /\ confirmerTodo # << >> /\ confirmerTodo' = Tail(confirmerTodo)
    BY <1>7 DEF ConfirmerHandle, ConfirmerTakes
  <2>2. confirmerTodo \in Seq(Result)
    BY ResultsTypes
  <2>3. \A i \in DOMAIN Tail(confirmerTodo) :
          i + 1 \in DOMAIN confirmerTodo /\ Tail(confirmerTodo)[i] = confirmerTodo[i + 1]
    BY <2>1, <2>2, LenProperties, EmptySeq
  <2>4. QED BY <1>3, <2>1, <2>3
<1>8. ASSUME \/ \E r \in Range(confirmerTodo) : ConfirmerChokes(r)
             \/ \E a \in Accounts : CrashProcess(a) \/ ReviveProcess(a)
      PROVE  ReportInv'
  <2>1. UNCHANGED results /\ (confirmerTodo' = << >> \/ UNCHANGED confirmerTodo)
    BY <1>8 DEF CrashProcess, ReviveProcess, RestartProcess, ConfirmerChokes, ConfirmerTakes
  <2>2. DOMAIN << >> = {}
    OBVIOUS
  <2>3. QED BY <1>3, <2>1, <2>2
<1>9. ASSUME NEW a \in Accounts,
             \/ EthSigner(a)
             \/ \E p \in Proposals : ProposeByHand(a, p)
             \/ \E id \in TxIds : ConfirmByHand(a, id) \/ ExecuteByHand(a, id)
      PROVE  UNCHANGED <<results, confirmerTodo>>
  BY <1>9 DEF EthSigner, SignerChokes, SignerSkips, SignerQueryFails, SignerRefuses,
              SignerApproves, Hears, SignerSends, SignerTracks, ProposeByHand, ConfirmByHand,
              ExecuteByHand, ByHand
<1>10. CASE \/ Burn \/ EthLeader \/ (\E amount \in Amounts : DepositEther(amount))
            \/ UNCHANGED payoutVars
  <2>1. UNCHANGED <<results, confirmerTodo>>
    BY <1>10 DEF Burn, EthLeader, LeaderPrepare, LeaderTooLow, LeaderBroadcast, LeaderRefused,
                 LeaderSave, LeaderTrack, DepositEther, payoutVars
  <2>2. QED BY <1>4, <2>1
<1>11. QED
  BY <1>4, <1>5, <1>6, <1>7, <1>8, <1>9, <1>10 DEF PayoutNext, EthConfirmer

\* What Transfer sees of the bridge.
Requested == {n \in SwapNonces : n < burned \/ \E id \in SubmittedFor(n) : ~IsPayment(id)}
CarriedOut == {n \in SwapNonces : \E id \in SubmittedFor(n) : transactions[id].executed}
BurnStages == [n \in SwapNonces |-> Stage(status[n])]

LEMMA BurnTransferInit == PayoutInit => BurnTransfer!Init
<1> SUFFICES ASSUME PayoutInit PROVE BurnTransfer!Init
  OBVIOUS
<1>1. BurnStages = [n \in SwapNonces |-> "unknown"]
  BY DEF PayoutInit, BurnStages, Stage
<1>2. CarriedOut = {}
  <2>1. \A id \in TxIds : ~transactions[id].executed
    BY DEF PayoutInit, Init, NoTransaction
  <2>2. QED BY <2>1 DEF CarriedOut, SubmittedFor
<1>3. QED BY <1>1, <1>2 DEF BurnTransfer!Init, BurnStages, CarriedOut

\* Steps that submit nothing leave what is submitted for each burn.
LEMMA SameSubmissions ==
  ASSUME transactionCount' = transactionCount,
         \A id \in TxIds : /\ transactions'[id].call = transactions[id].call
                           /\ transactions'[id].nonce = transactions[id].nonce
                           /\ transactions'[id].token = transactions[id].token
  PROVE  /\ \A n : SubmittedFor(n)' = SubmittedFor(n)
         /\ burned' = burned => Requested' = Requested
<1>1. \A n : SubmittedFor(n)' = SubmittedFor(n)
  BY DEF SubmittedFor
<1>2. \A n : \A id \in SubmittedFor(n) : IsPayment(id)' <=> IsPayment(id)
  BY DEF SubmittedFor, IsPayment, IsTransfer
<1>3. ASSUME burned' = burned
      PROVE  Requested' = Requested
  BY <1>1, <1>2, <1>3 DEF Requested
<1>4. QED BY <1>1, <1>3

\* A submission is at most a request.
LEMMA SubmitIsRequest ==
  ASSUME PInv, CheckedInv, required >= 2, NEW a \in Accounts, MineSubmit(a)
  PROVE  /\ CarriedOut' = CarriedOut
         /\ Requested' = Requested \/ \E n \in SwapNonces : Requested' = Requested \union {n}
<1> DEFINE tx == Head(queue[a])
           k == transactionCount
           new == [call |-> tx.call, executed |-> FALSE, nonce |-> tx.nonce,
                   token |-> tx.token, fee |-> tx.fee]
           txs == [transactions EXCEPT ![k] = new]
<1>1. /\ k \in TxIds /\ k \in Nat /\ TxIds \subseteq Nat /\ transactionCount' = k + 1
      /\ confirmations' = [confirmations EXCEPT ![k] = @ \union {a}]
      /\ Execute(k, txs, confirmations') /\ burned' = burned
      /\ transactions \in [TxIds -> Transaction \union {NoTransaction}]
      /\ confirmations \in [TxIds -> SUBSET Accounts]
  BY PayoutConstants DEF MineSubmit, Mined, SubmitTransaction, PInv, IInv, TypeOK, TxIds
<1>2. confirmations[k] = {}
  <2>1. \A id \in TxIds : ~(id < transactionCount) => confirmations[id] = {}
    BY DEF PInv, IInv, LedgerInv, SubmittedPrefix
  <2>2. k \in TxIds /\ ~(k < transactionCount)
    BY <1>1
  <2>3. QED BY <2>1, <2>2
<1>3. confirmations'[k] = {a}
  BY <1>1, <1>2
<1>4. ~IsConfirmed(confirmations'[k])
  BY <1>1, <1>3, OneIsNoQuorum DEF PInv
<1>5. transactions' = txs
  BY <1>1, <1>4, ExecuteMarks
<1>6. /\ \A j \in TxIds \ {k} : transactions'[j] = transactions[j]
      /\ transactions'[k] = new
  BY <1>1, <1>5
<1>7. \A j \in TxIds : j < k + 1 <=> j < k \/ j = k
  BY <1>1
<1> HIDE DEF k, new, txs
<1>8. ASSUME NEW n
      PROVE  \A j \in TxIds \ {k} : j \in SubmittedFor(n)' <=> j \in SubmittedFor(n)
  BY <1>1, <1>6, <1>7 DEF SubmittedFor, k
<1>9. ASSUME NEW n
      PROVE  k \notin SubmittedFor(n)
  BY <1>1 DEF SubmittedFor, k
<1>10. ~transactions'[k].executed
  BY <1>6 DEF new
<1>11. CarriedOut' = CarriedOut
  <2>1. ASSUME NEW n \in SwapNonces
        PROVE  (\E id \in SubmittedFor(n)' : transactions'[id].executed)
                 <=> \E id \in SubmittedFor(n) : transactions[id].executed
    <3>1. SubmittedFor(n)' \subseteq TxIds /\ SubmittedFor(n) \subseteq TxIds
      BY DEF SubmittedFor
    <3>2. QED BY <1>6, <1>8, <1>9, <1>10, <3>1
  <2>2. QED BY <2>1 DEF CarriedOut
<1>12. ASSUME NEW n \in SwapNonces, n # tx.nonce
       PROVE  n \in Requested' <=> n \in Requested
  <2>1. k \notin SubmittedFor(n)'
    BY <1>6, <1>12 DEF SubmittedFor, new
  <2>2. SubmittedFor(n)' = SubmittedFor(n)
    BY <1>8, <1>9, <2>1 DEF SubmittedFor
  <2>3. \A id \in SubmittedFor(n) : IsPayment(id)' <=> IsPayment(id)
    <3>1. ASSUME NEW id \in SubmittedFor(n)
          PROVE  transactions'[id] = transactions[id]
      BY <1>6, <1>9, <3>1 DEF SubmittedFor
    <3>2. QED BY <3>1 DEF IsPayment, IsTransfer
  <2>4. QED BY <1>1, <2>2, <2>3 DEF Requested
<1>13. Requested \subseteq Requested'
  <2>1. ASSUME NEW n \in SwapNonces, NEW id \in SubmittedFor(n), ~IsPayment(id)
        PROVE  id \in SubmittedFor(n)' /\ ~IsPayment(id)'
    <3>1. id \in TxIds \ {k}
      BY <1>9, <2>1 DEF SubmittedFor
    <3>2. id \in SubmittedFor(n)' /\ transactions'[id] = transactions[id]
      BY <1>6, <1>8, <2>1, <3>1
    <3>3. QED BY <2>1, <3>2 DEF IsPayment, IsTransfer
  <2>2. QED BY <1>1, <2>1 DEF Requested
<1>14. /\ Requested \subseteq SwapNonces
       /\ Requested' \subseteq SwapNonces
  BY DEF Requested
<1>15. Requested' = Requested \/ \E n \in SwapNonces : Requested' = Requested \union {n}
  <2> DEFINE N == tx.nonce
  <2> HIDE DEF N
  <2>1. \A n \in SwapNonces : n # N => (n \in Requested' <=> n \in Requested)
    BY <1>12 DEF N
  <2> DEFINE R == Requested
             S == Requested'
  <2>2. /\ R \subseteq S /\ S \subseteq SwapNonces
        /\ \A n \in SwapNonces : n # N => (n \in S <=> n \in R)
    BY <1>13, <1>14, <2>1
  <2> HIDE DEF R, S
  <2>3. S = R \/ \E n \in SwapNonces : S = R \union {n}
    BY <2>2, Zenon
  <2>4. QED BY <2>3 DEF R, S
<1>16. QED BY <1>11, <1>15

\* A confirmation or an execution carries out one transfer at most, and a requested
\* one: what is executed is a payment of a burn, or is no payment at all.
LEMMA ExecuteIsCarryOut ==
  ASSUME PInv, CheckedInv', NEW a \in Accounts, MineConfirm(a) \/ MineExecute(a)
  PROVE  /\ Requested' = Requested
         /\ \/ CarriedOut' = CarriedOut
            \/ \E n \in Requested : CarriedOut' = CarriedOut \union {n}
<1>1. PICK k \in TxIds : ConfirmTransaction(a, k) \/ ExecuteTransaction(a, k)
  <2> DEFINE tx == Head(queue[a])
  <2>1. /\ tx \in EthTx /\ tx.kind \in {"confirm", "execute"}
        /\ ConfirmTransaction(a, tx.id) \/ ExecuteTransaction(a, tx.id)
    BY HeadOfQueue DEF MineConfirm, MineExecute, Mined, PInv
  <2>2. tx.id \in TxIds
    BY <2>1 DEF EthTx, SubmitTx
  <2>3. QED BY <2>1, <2>2
<1>2. burned' = burned
  BY DEF MineConfirm, MineExecute, Mined
<1>3. /\ transactionCount' = transactionCount
      /\ \/ transactions' = transactions
         \/ transactions' = [transactions EXCEPT ![k].executed = TRUE]
  BY <1>1, ExecuteMarks DEF ConfirmTransaction, ExecuteTransaction
<1>4. /\ transactions \in [TxIds -> Transaction \union {NoTransaction}]
      /\ transactions[k] \in Transaction \union {NoTransaction}
  BY DEF PInv, IInv, TypeOK
<1>5. CASE transactions' = transactions
  <2>1. Requested' = Requested /\ \A n : SubmittedFor(n)' = SubmittedFor(n)
    BY <1>2, <1>3, <1>5, SameSubmissions
  <2>2. CarriedOut' = CarriedOut
    BY <1>5, <2>1 DEF CarriedOut
  <2>3. QED BY <2>1, <2>2
<1>6. CASE transactions' = [transactions EXCEPT ![k].executed = TRUE]
  <2>1. /\ \A j \in TxIds \ {k} : transactions'[j] = transactions[j]
        /\ transactions'[k] = [transactions[k] EXCEPT !.executed = TRUE]
    BY <1>4, <1>6
  <2>2. /\ transactions'[k].call = transactions[k].call
        /\ transactions'[k].nonce = transactions[k].nonce
        /\ transactions'[k].token = transactions[k].token
        /\ transactions'[k].executed
    BY <1>4, <2>1 DEF Transaction, NoTransaction
  <2>3. /\ \A n : SubmittedFor(n)' = SubmittedFor(n)
        /\ Requested' = Requested
    BY <1>2, <1>3, <2>1, <2>2, SameSubmissions
  <2>4. Matches(k)'
    BY <2>2 DEF CheckedInv
  <2>5. CASE \A n \in SwapNonces : k \notin SubmittedFor(n)
    <3>1. ASSUME NEW n \in SwapNonces, NEW j \in SubmittedFor(n)
          PROVE  transactions'[j] = transactions[j]
      BY <2>1, <2>5, <3>1 DEF SubmittedFor
    <3>2. CarriedOut' = CarriedOut
      BY <2>3, <3>1 DEF CarriedOut
    <3>3. QED BY <2>3, <3>2
  <2>6. ASSUME NEW m \in SwapNonces, k \in SubmittedFor(m)
        PROVE  \E n \in Requested : CarriedOut' = CarriedOut \union {n}
    <3>1. m \in Requested
      <4>1. CASE IsPayment(k)
        <5>1. IsKnown(k)'
          BY <2>2, <2>4, <4>1 DEF IsPayment, IsTransfer, Matches
        <5>2. transactions'[k].nonce = m
          BY <2>2, <2>6 DEF SubmittedFor
        <5>3. m < burned
          BY <1>2, <5>1, <5>2 DEF IsKnown
        <5>4. QED BY <5>3 DEF Requested
      <4>2. CASE ~IsPayment(k)
        BY <2>6, <4>2 DEF Requested
      <4>3. QED BY <4>1, <4>2
    <3>2. m \in CarriedOut'
      BY <2>2, <2>3, <2>6 DEF CarriedOut
    <3>3. ASSUME NEW n \in SwapNonces, n # m
          PROVE  n \in CarriedOut' <=> n \in CarriedOut
      <4>1. k \notin SubmittedFor(n)
        BY <2>6, <3>3 DEF SubmittedFor
      <4>2. \A j \in SubmittedFor(n) : transactions'[j] = transactions[j]
        BY <2>1, <4>1 DEF SubmittedFor
      <4>3. QED BY <2>3, <4>2 DEF CarriedOut
    <3>4. CarriedOut \subseteq SwapNonces /\ CarriedOut' \subseteq SwapNonces
      BY DEF CarriedOut
    <3> DEFINE R == CarriedOut
               S == CarriedOut'
    <3>5. /\ R \subseteq SwapNonces /\ S \subseteq SwapNonces /\ m \in S
          /\ \A n \in SwapNonces : n # m => (n \in S <=> n \in R)
      BY <3>2, <3>3, <3>4
    <3> HIDE DEF R, S
    <3>6. S = R \union {m}
      BY <3>5
    <3>7. CarriedOut' = CarriedOut \union {m}
      BY <3>6 DEF R, S
    <3>8. QED BY <3>1, <3>7
  <2>7. QED BY <2>3, <2>5, <2>6
<1>7. QED BY <1>3, <1>5, <1>6

\* A status that is written over another is a report of Transfer.
LEMMA WriteIsReport ==
  ASSUME ThreadTypeOK, UNCHANGED <<Requested, CarriedOut>>, NEW n \in Requested, NEW st,
         status' = [status EXCEPT ![n] = st],
         \/ st = "FAILED"
         \/ st = "SUBMITTED" /\ status[n] = "none"
         \/ st = "CONFIRMED" /\ status[n] = "SUBMITTED" /\ n \in CarriedOut
  PROVE  BurnTransfer!Next
<1>1. n \in SwapNonces /\ n \in Requested /\ BurnStages[n] = Stage(status[n])
  BY DEF Requested, BurnStages
<1>2. BurnStages' = [BurnStages EXCEPT ![n] = Stage(st)]
  BY DEF BurnStages, ThreadTypeOK
<1>3. BurnTransfer!Report(n, Stage(st))
  BY <1>1, <1>2 DEF BurnTransfer!Report, BurnStages, Requested, CarriedOut
<1>4. CASE st = "FAILED"
  <2>1. BurnTransfer!Fail(n)
    BY <1>3, <1>4 DEF BurnTransfer!Fail, Stage
  <2>2. QED BY <1>1, <2>1 DEF BurnTransfer!Next
<1>5. CASE st = "SUBMITTED" /\ status[n] = "none"
  <2>1. BurnTransfer!Open(n)
    BY <1>1, <1>3, <1>5 DEF BurnTransfer!Open, BurnStages, Stage
  <2>2. QED BY <1>1, <2>1 DEF BurnTransfer!Next
<1>6. CASE st = "CONFIRMED" /\ status[n] = "SUBMITTED" /\ n \in CarriedOut
  <2>1. BurnTransfer!Confirm(n)
    BY <1>1, <1>3, <1>6 DEF BurnTransfer!Confirm, BurnStages, Stage, CarriedOut
  <2>2. QED BY <1>1, <2>1 DEF BurnTransfer!Next
<1>7. QED BY <1>4, <1>5, <1>6

LEMMA BurnTransferStep ==
  ASSUME PInv, PInv', CheckedInv, CheckedInv', ReportInv, required >= 2,
         [PayoutNext]_payoutVars
  PROVE  BurnTransfer!Next \/ UNCHANGED <<Requested, CarriedOut, BurnStages>>
<1> USE DEF dbVars
<1>1. ASSUME UNCHANGED <<transactions, transactionCount, burned>>
      PROVE  UNCHANGED <<Requested, CarriedOut>>
  <2>1. Requested' = Requested /\ \A n : SubmittedFor(n)' = SubmittedFor(n)
    BY <1>1, SameSubmissions
  <2>2. QED BY <1>1, <2>1 DEF CarriedOut
<1>2. UNCHANGED vars => UNCHANGED <<transactions, transactionCount>>
  BY DEF vars, ledgerVars
<1>3. UNCHANGED status => UNCHANGED BurnStages
  BY DEF BurnStages
<1>4. ASSUME NEW n \in SwapNonces, Requested' = Requested \union {n},
             UNCHANGED <<CarriedOut, status>>
      PROVE  BurnTransfer!Next
  <2>1. BurnTransfer!Request(n)
    BY <1>3, <1>4 DEF BurnTransfer!Request, Requested, CarriedOut, BurnStages
  <2>2. QED BY <2>1 DEF BurnTransfer!Next
<1>5. CASE Burn
  <2>1. PICK n \in SwapNonces : n = burned
    BY <1>5, PayoutConstants DEF Burn, PInv, ThreadTypeOK, SwapNonces
  <2>2. n \in Nat /\ SwapNonces \subseteq Nat /\ burned' = n + 1
    BY <1>5, <2>1, PayoutConstants DEF Burn
  <2>3. \A m \in SwapNonces : m < n + 1 <=> m < n \/ m = n
    BY <2>2
  <2>4. /\ \A m : SubmittedFor(m)' = SubmittedFor(m)
        /\ \A m : \A id \in SubmittedFor(m) : IsPayment(id)' <=> IsPayment(id)
        /\ UNCHANGED <<transactions, transactionCount, status>>
    BY <1>2, <1>5 DEF Burn, SubmittedFor, IsPayment, IsTransfer
  <2>5. Requested' = Requested \union {n}
    BY <2>1, <2>2, <2>3, <2>4 DEF Requested
  <2>6. UNCHANGED <<CarriedOut, status>>
    BY <2>4 DEF CarriedOut
  <2>7. QED BY <1>4, <2>5, <2>6
<1>6. CASE UNCHANGED <<transactions, transactionCount, burned, status>>
  BY <1>1, <1>3, <1>6
<1>7. ASSUME NEW a \in Accounts, Mine(a)
      PROVE  BurnTransfer!Next \/ UNCHANGED <<Requested, CarriedOut, BurnStages>>
  <2>1. UNCHANGED <<burned, status>>
    BY <1>7 DEF Mine, MineSubmit, MineConfirm, MineExecute, MineReverted, Mined
  <2>2. CASE MineSubmit(a)
    BY <1>3, <1>4, <2>1, <2>2, SubmitIsRequest
  <2>3. CASE MineConfirm(a) \/ MineExecute(a)
    <3>1. ASSUME NEW n \in Requested, CarriedOut' = CarriedOut \union {n}, Requested' = Requested
          PROVE  BurnTransfer!Next
      <4>1. BurnTransfer!CarryOut(n)
        BY <1>3, <2>1, <3>1 DEF BurnTransfer!CarryOut, Requested, CarriedOut, BurnStages
      <4>2. QED BY <4>1 DEF BurnTransfer!Next, Requested
    <3>2. QED BY <1>3, <2>1, <2>3, <3>1, ExecuteIsCarryOut
  <2>4. CASE MineReverted(a)
    BY <1>2, <1>6, <2>1, <2>4 DEF MineReverted
  <2>5. QED BY <1>7, <2>2, <2>3, <2>4 DEF Mine
<1>8. CASE EthLeader
  <2>1. UNCHANGED vars /\ UNCHANGED burned
    BY <1>8 DEF EthLeader, LeaderPrepare, LeaderTooLow, LeaderBroadcast, LeaderRefused,
                LeaderSave, LeaderTrack
  <2>2. UNCHANGED <<Requested, CarriedOut>>
    BY <1>1, <1>2, <2>1
  <2>3. ASSUME NEW st \in {"SUBMITTED", "FAILED"}, Record(tracker + 1, st),
               tracker + 1 \in SwapNonces, tracker + 1 < burned
        PROVE  BurnTransfer!Next \/ UNCHANGED status
    <3>1. tracker + 1 \in Requested
      BY <2>3 DEF Requested
    <3>2. CASE status[tracker + 1] # "none"
      BY <2>3, <3>2 DEF Record
    <3>3. CASE status[tracker + 1] = "none"
      BY <2>2, <2>3, <3>1, <3>3, WriteIsReport DEF Record, PInv
    <3>4. QED BY <3>2, <3>3
  <2>4. ASSUME NEW fee \in LeaderFees, LeaderTooLow(fee)
        PROVE  BurnTransfer!Next \/ UNCHANGED status
    BY <2>3, <2>4, LeaderSwap DEF LeaderTooLow, PInv
  <2>5. ASSUME LeaderSave
        PROVE  BurnTransfer!Next \/ UNCHANGED status
    <3>1. leaderPc # "scan" /\ leaderTx.tx.nonce = tracker + 1 /\ tracker + 1 < burned
      BY <2>5 DEF LeaderSave, PInv, LeaderInv
    <3>2. tracker + 1 \in SwapNonces
      BY <3>1, LeaderSwap DEF PInv
    <3>3. \E st \in {"SUBMITTED", "FAILED"} : Record(tracker + 1, st)
      BY <2>5, <3>1 DEF LeaderSave
    <3>4. QED BY <2>3, <3>1, <3>2, <3>3
  <2>6. ASSUME \/ LeaderBroadcast \/ LeaderRefused \/ LeaderTrack
               \/ \E fee \in LeaderFees : LeaderPrepare(fee)
        PROVE  UNCHANGED status
    BY <2>6 DEF LeaderPrepare, LeaderBroadcast, LeaderRefused, LeaderTrack
  <2>7. BurnTransfer!Next \/ UNCHANGED status
    BY <1>8, <2>4, <2>5, <2>6 DEF EthLeader
  <2>8. QED BY <1>3, <2>2, <2>7
<1>9. ASSUME NEW r, ConfirmerHandle(r)
      PROVE  BurnTransfer!Next \/ UNCHANGED <<Requested, CarriedOut, BurnStages>>
  <2>1. UNCHANGED vars /\ UNCHANGED burned /\ confirmerTodo # << >> /\ r = Head(confirmerTodo)
    BY <1>9 DEF ConfirmerHandle, ConfirmerTakes
  <2>2. UNCHANGED <<Requested, CarriedOut>>
    BY <1>1, <1>2, <2>1
  <2>3. r \in Result /\ r.id \in TxIds /\ (r.ok => transactions[r.id].executed)
    <3>1. confirmerTodo \in Seq(Result)
      BY ResultsTypes
    <3>2. 1 \in DOMAIN confirmerTodo /\ r = confirmerTodo[1]
      BY <2>1, <3>1, LenProperties, EmptySeq
    <3>3. QED BY <3>2, ResultsTypes DEF ReportInv
  <2>4. CASE status' = status
    BY <1>3, <2>2, <2>4
  <2>5. ASSUME NEW n \in SwapNonces, n = transactions[r.id].nonce, status[n] = "SUBMITTED",
               transactions[r.id].token = Native,
               status' = [status EXCEPT ![n] = IF r.ok THEN "CONFIRMED" ELSE "FAILED"]
        PROVE  BurnTransfer!Next
    <3>1. n \in Requested
      BY <2>5 DEF PInv, LeaderInv, Requested
    <3>2. CASE r.ok
      <4>1. transactions[r.id].executed
        BY <2>3, <3>2
      <4>2. r.id < transactionCount
        BY <2>3, <4>1 DEF CheckedInv, Matches
      <4>3. r.id \in SubmittedFor(n)
        BY <2>3, <2>5, <4>2 DEF SubmittedFor
      <4>4. n \in CarriedOut
        BY <4>1, <4>3 DEF CarriedOut
      <4>5. status' = [status EXCEPT ![n] = "CONFIRMED"]
        BY <2>5, <3>2
      <4>6. QED BY <2>2, <2>5, <3>1, <4>4, <4>5, WriteIsReport DEF PInv
    <3>3. CASE ~r.ok
      <4>1. status' = [status EXCEPT ![n] = "FAILED"]
        BY <2>5, <3>3
      <4>2. QED BY <2>2, <3>1, <4>1, WriteIsReport DEF PInv
    <3>4. QED BY <3>2, <3>3
  <2>6. QED BY <1>9, <2>4, <2>5, ConfirmerWrites DEF PInv
<1>10. ASSUME NEW a \in Accounts,
              \/ EthSigner(a)
              \/ \E p \in Proposals : ProposeByHand(a, p)
              \/ \E id \in TxIds : ConfirmByHand(a, id) \/ ExecuteByHand(a, id)
              \/ CrashProcess(a) \/ ReviveProcess(a)
       PROVE  UNCHANGED vars /\ UNCHANGED <<burned, status>>
  <2>1. CASE EthSigner(a)
    BY <2>1 DEF EthSigner, SignerChokes, SignerSkips, SignerQueryFails, SignerRefuses,
                SignerApproves, Hears, SignerSends, SignerTracks
  <2>2. QED
    BY <1>10, <2>1 DEF ProposeByHand, ConfirmByHand, ExecuteByHand, ByHand, CrashProcess,
                       ReviveProcess, RestartProcess
<1>11. CASE ConfirmerPoll \/ (\E r \in Range(confirmerTodo) : ConfirmerChokes(r))
            \/ UNCHANGED payoutVars
  BY <1>2, <1>6, <1>11 DEF ConfirmerPoll, ConfirmerChokes, ConfirmerTakes, payoutVars
<1>12. ASSUME NEW amount \in Amounts, DepositEther(amount)
       PROVE  UNCHANGED <<transactions, transactionCount, burned, status>>
  BY <1>12 DEF DepositEther, Swap, Deposit, ledgerVars
<1>13. QED
  BY <1>2, <1>5, <1>6, <1>7, <1>8, <1>9, <1>10, <1>11, <1>12 DEF PayoutNext, EthConfirmer

\* As long as the threshold is two or more, the leader, the listeners, the wallet,
\* EthConfirmer and the owners together implement Transfer, for any number of burns,
\* owners and transactions, with every fault, and whatever the owners submit, confirm
\* and execute by hand: a burn is reported CONFIRMED only after the wallet has paid it,
\* or has executed a call that its owners submitted and confirmed with its nonce.
THEOREM PayoutsImplementTransfer ==
  PayoutSpec /\ [](required >= 2) => ImplementsTransfer
<1>1. PayoutInit => CheckedInv /\ ReportInv
  <2>1. PayoutInit => ReportInv
    BY DEF PayoutInit, ReportInv
  <2>2. QED BY <2>1, CheckedInitial
<1>2. PInv /\ CheckedInv /\ ReportInv /\ required >= 2 /\ [PayoutNext]_payoutVars /\ PInv'
        => CheckedInv' /\ ReportInv'
  BY CheckedStep, ReportStep DEF PInv
<1>3. PInv /\ PInv' /\ CheckedInv /\ CheckedInv' /\ ReportInv /\ required >= 2
        /\ [PayoutNext]_payoutVars
        => [BurnTransfer!Next]_<<Requested, CarriedOut, BurnStages>>
  BY BurnTransferStep
<1>4. PInv /\ PInv' /\ CheckedInv /\ CheckedInv' /\ ReportInv /\ required >= 2
        /\ [PayoutNext]_payoutVars
        => [BurnTransfer!Next]_<<{n \in SwapNonces : n < burned
                                    \/ \E id \in SubmittedFor(n) : ~IsPayment(id)},
                                 {n \in SwapNonces :
                                    \E id \in SubmittedFor(n) : transactions[id].executed},
                                 [n \in SwapNonces |-> Stage(status[n])]>>
  BY <1>3 DEF Requested, CarriedOut, BurnStages
<1>5. QED
  BY <1>1, <1>2, <1>4, BurnTransferInit, PayoutInvariance, PTL
     DEF PayoutSpec, ImplementsTransfer, BurnTransfer!Spec
===============================================================================
