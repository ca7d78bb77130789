------------------------------ MODULE SecretToEth ------------------------------
(***************************************************************************)
(* From a burn on the Secret network to a payment on Ethereum, for one     *)
(* token of the Secret network and the asset Native it stands for.         *)
(*   - EtherLeader asks the swap contract for one burn after the other and *)
(*     submits a transaction to the wallet for each;                       *)
(*   - one EtherSigner per operator hears of the submissions, validates    *)
(*     them against the burn and confirms them;                            *)
(*   - the wallet (MultiSigSwapWallet, whose actions are taken as they     *)
(*     are) pays when enough owners have confirmed;                        *)
(*   - EthConfirmer, in the leader's process, hears of payments and        *)
(*     failures and writes them to the database.                           *)
(* Each thread sends Ethereum transactions in two steps: it reads the      *)
(* account's next nonce, then broadcasts.  The leader and the signer of    *)
(* one process share the account.                                          *)
(*                                                                         *)
(* Threads hear of the wallet's events in their order on chain, at any     *)
(* time after they got there (polling and eth_confirmations only delay     *)
(* them).                                                                  *)
(***************************************************************************)
EXTENDS MultiSigSwapWallet, Ranks, SequencesExt

CONSTANTS
  Leader,          \* the account of the process in mode `leader`
  SwapAmount,      \* the amounts burned, in the order of the swaps' nonces
  LeaderFees,      \* the fees BridgeOracle may come up with
  TokenMap,        \* the assets that EthConfirmer knows a secret token of
  Proposals,       \* transactions that owners submit by hand
  MaxManual,       \* bound: transactions sent by hand
  MaxSent,         \* bound: transactions an account has sent when its process is revived
  Faults,          \* what may go wrong, see FaultKinds
  MaxFaults        \* bound: faults in one behaviour

FaultKinds ==
  { "crash",       \* a process is restarted
    "cli",         \* a signer's secretcli query fails
    "node" }       \* an Ethereum node refuses a broadcast

NumSwaps == Len(SwapAmount)
SwapNonces == 0..(NumSwaps - 1)
Amount(n) == SwapAmount[n + 1]
Proposal == [call : Calls, nonce : Nonces, token : Assets, fee : Fees]

ASSUME PayoutAssumption ==
  /\ Leader \in Accounts
  /\ SwapAmount \in Seq(Nat)
  /\ SwapNonces \subseteq Nonces
  /\ LeaderFees \subseteq Fees
  /\ \A n \in SwapNonces, f \in LeaderFees :
        Amount(n) > f => [op |-> "pay", asset |-> Native, amount |-> Amount(n) - f] \in Calls
  /\ Proposals \subseteq Proposal
  /\ Native \in TokenMap /\ TokenMap \subseteq Assets
  /\ MaxManual \in Nat /\ MaxSent \in Nat /\ MaxFaults \in Nat
  /\ Faults \subseteq FaultKinds

VARIABLES
  burned,          \* external: how many burns the swap contract has stored
  \* the database
  status,          \* Swap.status, "none" before the insertion
  tracker,         \* SwapTrackerObject of the token: the last nonce handled
  signerTracker,   \* SwapTrackerObject of each signer: a block
  \* the threads
  leaderPc, leaderTx,
  signerPc, signerAt,     \* signerAt: the next submission a signer hears of
  signerNonce,
  confirmerAt,            \* how many of the wallet's results EthConfirmer has handled
  confirmerTodo,          \* those it has polled and not handled
  confirmerDead,          \* its listener's thread has ended
  \* external: the Ethereum chain
  sent,            \* transactions each account has sent
  queue,           \* those not mined yet
  blockOf,         \* the block of each submission
  results,         \* the events Withdraw and WithdrawFailure
  manualLeft, faultsLeft

dbVars     == <<status, tracker, signerTracker>>
leaderVars == <<leaderPc, leaderTx>>
signerVars == <<signerPc, signerAt, signerNonce>>
confVars   == <<confirmerAt, confirmerTodo, confirmerDead>>
netVars    == <<sent, queue>>
logVars    == <<blockOf, results>>
budgetVars == <<manualLeft, faultsLeft>>
payoutVars == <<vars, burned, dbVars, leaderVars, signerVars, confVars, netVars,
                logVars, budgetVars>>

NoTx == [kind |-> "none"]
SubmitTx == [kind : {"submit"}, call : Calls, nonce : Nonces, token : Assets, fee : Fees]
EthTx == SubmitTx \union [kind : {"confirm", "execute"}, id : TxIds]

PayoutTypeOK ==
  /\ TypeOK
  /\ burned \in 0..NumSwaps
  /\ status \in [SwapNonces -> {"none", "SUBMITTED", "CONFIRMED", "FAILED"}]
  /\ tracker \in -1..(NumSwaps - 1)
  /\ signerTracker \in [Accounts -> 0..MaxTransactions]
  /\ leaderPc \in {"scan", "send", "save", "saveFailed", "track"}
  /\ leaderTx \in [tx : SubmitTx, accountNonce : Nat] \union {NoTx}
  /\ signerPc \in [Accounts -> {"listen", "send", "track", "dead"}]
  /\ signerAt \in [Accounts -> 0..MaxTransactions]
  /\ signerNonce \in [Accounts -> Nat]
  /\ confirmerAt \in Nat
  /\ confirmerTodo \in Seq([id : TxIds, ok : BOOLEAN])
  /\ confirmerDead \in BOOLEAN
  /\ sent \in [Accounts -> Nat]
  /\ queue \in [Accounts -> Seq(EthTx)]
  /\ blockOf \in [TxIds -> 0..MaxTransactions]
  /\ results \in Seq([id : TxIds, ok : BOOLEAN])
  /\ manualLeft \in 0..MaxManual
  /\ faultsLeft \in 0..MaxFaults

PayoutInit ==
  /\ Init
  /\ burned = 0
  /\ status = [n \in SwapNonces |-> "none"]
  /\ tracker = -1
  /\ signerTracker = [s \in Accounts |-> 0]
  /\ leaderPc = "scan" /\ leaderTx = NoTx
  /\ signerPc = [s \in Accounts |-> "listen"]
  /\ signerAt = [s \in Accounts |-> 0]
  /\ signerNonce = [s \in Accounts |-> 0]
  /\ confirmerAt = 0 /\ confirmerTodo = << >> /\ confirmerDead = FALSE
  /\ sent = [s \in Accounts |-> 0]
  /\ queue = [s \in Accounts |-> << >>]
  /\ blockOf = [id \in TxIds |-> 0]
  /\ results = << >>
  /\ manualLeft = MaxManual
  /\ faultsLeft = MaxFaults

Fault(kind) == kind \in Faults /\ faultsLeft > 0 /\ faultsLeft' = faultsLeft - 1
NoFault == UNCHANGED faultsLeft

-----------------------------------------------------------------------------
(* Burns and deposits                                                      *)

BurnedUpTo(n) == MapThenSumSet(Amount, 0..n)

\* The swap contract stores the next burn.  Secret tokens exist because of
\* deposits, so the wallet holds what they stand for.
Burn ==
  /\ burned < NumSwaps
  /\ BurnedUpTo(burned) <= deposited[Native]
  /\ burned' = burned + 1
  /\ UNCHANGED <<vars, dbVars, leaderVars, signerVars, confVars, netVars, logVars,
                 budgetVars>>

DepositEther(amount) ==
  /\ Swap(amount)
  /\ UNCHANGED <<burned, dbVars, leaderVars, signerVars, confVars, netVars, logVars,
                 budgetVars>>

-----------------------------------------------------------------------------
(* EtherLeader                                                             *)

\* raw_transaction read the account's next nonce; the node refuses a nonce
\* that another thread of the account has used meanwhile.
IsFresh(a, accountNonce) == sent[a] = accountNonce

Broadcast(a, tx) ==
  /\ sent' = [sent EXCEPT ![a] = @ + 1]
  /\ queue' = [queue EXCEPT ![a] = Append(@, tx)]

\* A document that exists already is left alone (NotUniqueError).
Record(n, st) ==
  status' = IF status[n] = "none" THEN [status EXCEPT ![n] = st] ELSE status

Submission(n, fee) ==
  [kind |-> "submit", nonce |-> n, token |-> Native, fee |-> fee,
   call |-> [op |-> "pay", asset |-> Native, amount |-> Amount(n) - fee]]

\* Mutant: the fee may exceed the amount.
LeaderPrepareAnyAmount(fee) ==
  /\ leaderPc = "scan" /\ tracker + 1 < burned
  /\ leaderTx' = [tx |-> Submission(tracker + 1, fee), accountNonce |-> sent[Leader]]
  /\ leaderPc' = "send"
  /\ UNCHANGED <<vars, burned, dbVars, signerVars, confVars, netVars, logVars, budgetVars>>

\* The next burn is found and its transaction built,
LeaderPrepare(fee) ==
  /\ leaderPc = "scan" /\ tracker + 1 < burned
  /\ Amount(tracker + 1) > fee
  /\ leaderTx' = [tx |-> Submission(tracker + 1, fee), accountNonce |-> sent[Leader]]
  /\ leaderPc' = "send"
  /\ UNCHANGED <<vars, burned, dbVars, signerVars, confVars, netVars, logVars, budgetVars>>

\* or its amount does not cover the fee.
LeaderTooLow(fee) ==
  /\ leaderPc = "scan" /\ tracker + 1 < burned
  /\ Amount(tracker + 1) <= fee
  /\ Record(tracker + 1, "FAILED")
  /\ leaderPc' = "track"
  /\ UNCHANGED <<vars, burned, tracker, signerTracker, leaderTx, signerVars, confVars,
                 netVars, logVars, budgetVars>>

LeaderBroadcast ==
  /\ leaderPc = "send"
  /\ IsFresh(Leader, leaderTx.accountNonce)
  /\ Broadcast(Leader, leaderTx.tx)
  /\ leaderPc' = "save"
  /\ UNCHANGED <<vars, burned, dbVars, leaderTx, signerVars, confVars, logVars, budgetVars>>

LeaderRefused ==
  /\ leaderPc = "send"
  /\ (~IsFresh(Leader, leaderTx.accountNonce) /\ NoFault) \/ Fault("node")
  /\ leaderPc' = "saveFailed"
  /\ UNCHANGED <<vars, burned, dbVars, leaderTx, signerVars, confVars, netVars, logVars,
                 manualLeft>>

LeaderSave ==
  /\ \/ leaderPc = "save" /\ Record(leaderTx.tx.nonce, "SUBMITTED")
     \/ leaderPc = "saveFailed" /\ Record(leaderTx.tx.nonce, "FAILED")
  /\ leaderPc' = "track" /\ leaderTx' = NoTx
  /\ UNCHANGED <<vars, burned, tracker, signerTracker, signerVars, confVars, netVars,
                 logVars, budgetVars>>

\* Mutant: next_nonce is saved after it was advanced.
LeaderTrackTwice ==
  /\ leaderPc = "track"
  /\ tracker' = tracker + 2
  /\ leaderPc' = "scan"
  /\ UNCHANGED <<vars, burned, status, signerTracker, leaderTx, signerVars, confVars,
                 netVars, logVars, budgetVars>>

LeaderTrack ==
  /\ leaderPc = "track"
  /\ tracker' = tracker + 1
  /\ leaderPc' = "scan"
  /\ UNCHANGED <<vars, burned, status, signerTracker, leaderTx, signerVars, confVars,
                 netVars, logVars, budgetVars>>

EthLeader ==
  \/ \E fee \in LeaderFees : LeaderPrepare(fee) \/ LeaderTooLow(fee)
  \/ LeaderBroadcast \/ LeaderRefused \/ LeaderSave \/ LeaderTrack

-----------------------------------------------------------------------------
(* EtherSigner                                                             *)

\* s hears of the submission id.
Hears(s, id) ==
  /\ signerPc[s] = "listen"
  /\ id = signerAt[s] /\ id < transactionCount
  /\ UNCHANGED <<vars, burned, status, tracker, leaderVars, confVars, netVars, logVars,
                 manualLeft>>

IsTransfer(id) == transactions[id].call.op = "pay"
IsSettledFor(s, id) == transactions[id].executed \/ s \in confirmations[id]

\* The swap contract has the burn that the submission names.  (Of other tokens
\* there are no burns in this model.)
IsKnown(id) == transactions[id].token = Native /\ transactions[id].nonce < burned

\* _validate_tx_data compares the amount with the burn's, and the recipient,
\* which is not modelled; the fee is whatever the submission says, and what asset
\* the call pays is not compared with the submission's token.
IsValid(id) ==
  Amount(transactions[id].nonce) = transactions[id].call.amount + transactions[id].fee

\* The data of a call that is no transfer cannot be decoded: the error ends
\* the listener's thread before the tracker is written.
SignerChokes(s, id) ==
  /\ Hears(s, id)
  /\ ~IsTransfer(id)
  /\ signerPc' = [signerPc EXCEPT ![s] = "dead"]
  /\ UNCHANGED <<signerTracker, signerAt, signerNonce, faultsLeft>>

SignerSkips(s, id) ==
  /\ Hears(s, id)
  /\ IsTransfer(id) /\ IsSettledFor(s, id)
  /\ signerAt' = [signerAt EXCEPT ![s] = @ + 1]
  /\ UNCHANGED <<signerTracker, signerPc, signerNonce, faultsLeft>>

\* The query fails, the swap contract knows no such burn, or token_map no such
\* token: the tracker is written and the error ends the listener's thread.
SignerQueryFails(s, id) ==
  /\ Hears(s, id)
  /\ IsTransfer(id) /\ ~IsSettledFor(s, id)
  /\ (~IsKnown(id) /\ NoFault) \/ Fault("cli")
  /\ signerTracker' = [signerTracker EXCEPT ![s] = blockOf[id]]
  /\ signerPc' = [signerPc EXCEPT ![s] = "dead"]
  /\ UNCHANGED <<signerAt, signerNonce>>

SignerRefuses(s, id) ==
  /\ Hears(s, id)
  /\ IsTransfer(id) /\ ~IsSettledFor(s, id)
  /\ IsKnown(id) /\ ~IsValid(id)
  /\ signerPc' = [signerPc EXCEPT ![s] = "track"]
  /\ UNCHANGED <<signerTracker, signerAt, signerNonce, faultsLeft>>

\* Mutant: the submission is not compared with the burn.
SignerTrusts(s, id) ==
  /\ Hears(s, id)
  /\ IsTransfer(id) /\ ~IsSettledFor(s, id)
  /\ signerNonce' = [signerNonce EXCEPT ![s] = sent[s]]
  /\ signerPc' = [signerPc EXCEPT ![s] = "send"]
  /\ UNCHANGED <<signerTracker, signerAt, faultsLeft>>

SignerApproves(s, id) ==
  /\ Hears(s, id)
  /\ IsTransfer(id) /\ ~IsSettledFor(s, id)
  /\ IsKnown(id) /\ IsValid(id)
  /\ signerNonce' = [signerNonce EXCEPT ![s] = sent[s]]
  /\ signerPc' = [signerPc EXCEPT ![s] = "send"]
  /\ UNCHANGED <<signerTracker, signerAt, faultsLeft>>

\* A refused broadcast is logged; the signer goes on without a confirmation.
SignerSends(s) ==
  /\ signerPc[s] = "send"
  /\ \/ /\ IsFresh(s, signerNonce[s]) /\ NoFault
        /\ Broadcast(s, [kind |-> "confirm", id |-> signerAt[s]])
     \/ /\ (~IsFresh(s, signerNonce[s]) /\ NoFault) \/ Fault("node")
        /\ UNCHANGED netVars
  /\ signerPc' = [signerPc EXCEPT ![s] = "track"]
  /\ signerNonce' = [signerNonce EXCEPT ![s] = 0]
  /\ UNCHANGED <<vars, burned, dbVars, leaderVars, signerAt, confVars, logVars, manualLeft>>

SignerTracks(s) ==
  /\ signerPc[s] = "track"
  /\ signerTracker' = [signerTracker EXCEPT ![s] = blockOf[signerAt[s]]]
  /\ signerAt' = [signerAt EXCEPT ![s] = @ + 1]
  /\ signerPc' = [signerPc EXCEPT ![s] = "listen"]
  /\ UNCHANGED <<vars, burned, status, tracker, leaderVars, signerNonce, confVars, netVars,
                 logVars, budgetVars>>

EthSigner(s) ==
  \/ \E id \in TxIds :
        \/ SignerChokes(s, id) \/ SignerSkips(s, id) \/ SignerQueryFails(s, id)
        \/ SignerRefuses(s, id) \/ SignerApproves(s, id)
  \/ SignerSends(s) \/ SignerTracks(s)

-----------------------------------------------------------------------------
(* EthConfirmer                                                            *)

\* One round of the listener: the filter for Withdraw is read before the one
\* for WithdrawFailure.
ConfirmerPoll ==
  /\ ~confirmerDead /\ confirmerTodo = << >> /\ confirmerAt < Len(results)
  /\ LET new == SubSeq(results, confirmerAt + 1, Len(results))
         withdraw == {r \in Range(new) : r.ok}
     IN  confirmerTodo' = Those(new, withdraw) \o Those(new, Range(new) \ withdraw)
  /\ confirmerAt' = Len(results) /\ UNCHANGED confirmerDead
  /\ UNCHANGED <<vars, burned, dbVars, leaderVars, signerVars, netVars, logVars, budgetVars>>

\* The next result is r.
ConfirmerTakes(r) ==
  /\ ~confirmerDead /\ confirmerTodo # << >> /\ r = Head(confirmerTodo)
  /\ UNCHANGED <<vars, burned, tracker, signerTracker, leaderVars, signerVars, confirmerAt,
                 netVars, logVars, budgetVars>>

\* The swap that the transaction of r is looked up as, whatever its call did.
SwapOf(r) ==
  {n \in SwapNonces : transactions[r.id].token = Native /\ transactions[r.id].nonce = n}

\* Mutant: the result is written whatever the status.
ConfirmerOverwrites(r) ==
  /\ ConfirmerTakes(r)
  /\ transactions[r.id].token \in TokenMap
  /\ status' = [n \in SwapNonces |->
                  IF n \in SwapOf(r) /\ status[n] # "none"
                    THEN IF r.ok THEN "CONFIRMED" ELSE "FAILED" ELSE status[n]]
  /\ confirmerTodo' = Tail(confirmerTodo) /\ UNCHANGED confirmerDead

\* Mutant: both events are registered with the callback for a success.
ConfirmerTakesAnyResult(r) ==
  /\ ConfirmerTakes(r)
  /\ transactions[r.id].token \in TokenMap
  /\ status' = [n \in SwapNonces |->
                  IF n \in SwapOf(r) /\ status[n] = "SUBMITTED" THEN "CONFIRMED" ELSE status[n]]
  /\ confirmerTodo' = Tail(confirmerTodo) /\ UNCHANGED confirmerDead

\* The result of a swap that is not in the database, or that is not
\* SUBMITTED, is dropped.  (Transactions for another token belong to its swaps.)
ConfirmerHandle(r) ==
  /\ ConfirmerTakes(r)
  /\ transactions[r.id].token \in TokenMap
  /\ status' = [n \in SwapNonces |->
                  IF n \in SwapOf(r) /\ status[n] = "SUBMITTED"
                    THEN IF r.ok THEN "CONFIRMED" ELSE "FAILED" ELSE status[n]]
  /\ confirmerTodo' = Tail(confirmerTodo) /\ UNCHANGED confirmerDead

\* A transaction with another token is a KeyError, which ends the thread; a
\* restarted process comes to the same transaction again.
ConfirmerChokes(r) ==
  /\ ConfirmerTakes(r)
  /\ transactions[r.id].token \notin TokenMap
  /\ confirmerDead' = TRUE /\ confirmerTodo' = << >>
  /\ UNCHANGED status

EthConfirmer ==
  \/ ConfirmerPoll
  \/ \E r \in Range(confirmerTodo) : ConfirmerHandle(r) \/ ConfirmerChokes(r)

-----------------------------------------------------------------------------
(* Ethereum                                                                *)

\* What happened to transaction id: the events of executeTransaction.
LogResult(id) ==
  results' = IF IsConfirmed(confirmations'[id])
               THEN Append(results, [id |-> id, ok |-> transactions'[id].executed])
               ELSE results

\* The block of a submission is that of the one before, or a later one.
LogBlock(id) ==
  LET last == IF id = 0 THEN 0 ELSE blockOf[id - 1]
  IN  \E b \in {last, last + 1} : blockOf' = [blockOf EXCEPT ![id] = b]

Mined(a) ==
  /\ queue[a] # << >>
  /\ queue' = [queue EXCEPT ![a] = Tail(@)]
  /\ UNCHANGED <<burned, dbVars, leaderVars, signerVars, confVars, sent, budgetVars>>

MineSubmit(a) ==
  /\ Mined(a)
  /\ LET tx == Head(queue[a])
     IN  /\ tx.kind = "submit"
         /\ SubmitTransaction(a, tx.call, tx.nonce, tx.token, tx.fee)
  /\ LogBlock(transactionCount) /\ LogResult(transactionCount)

MineConfirm(a) ==
  /\ Mined(a)
  /\ LET tx == Head(queue[a])
     IN  /\ tx.kind = "confirm" /\ ConfirmTransaction(a, tx.id)
         /\ LogResult(tx.id)
  /\ UNCHANGED blockOf

MineExecute(a) ==
  /\ Mined(a)
  /\ LET tx == Head(queue[a])
     IN  /\ tx.kind = "execute" /\ ExecuteTransaction(a, tx.id)
         /\ LogResult(tx.id)
  /\ UNCHANGED blockOf

\* The fee of tx cannot be paid when the confirmations conf suffice.
FeeReverts(conf, token, fee) == IsConfirmed(conf) /\ fee > balance[token]

Reverts(a, tx) ==
  \/ ~isOwner[a]
  \/ /\ tx.kind = "submit"
     /\ ~NotSubmitted(tx.token, tx.nonce) \/ FeeReverts({a}, tx.token, tx.fee)
  \/ /\ tx.kind = "confirm"
     /\ \/ a \in confirmations[tx.id] \/ transactions[tx.id].executed
        \/ FeeReverts(confirmations[tx.id] \union {a}, transactions[tx.id].token,
                      transactions[tx.id].fee)
  \/ /\ tx.kind = "execute"
     /\ \/ a \notin confirmations[tx.id] \/ transactions[tx.id].executed
        \/ FeeReverts(confirmations[tx.id], transactions[tx.id].token, transactions[tx.id].fee)

MineReverted(a) ==
  /\ Mined(a)
  /\ Reverts(a, Head(queue[a]))
  /\ UNCHANGED <<vars, logVars>>

Mine(a) == MineSubmit(a) \/ MineConfirm(a) \/ MineExecute(a) \/ MineReverted(a)

-----------------------------------------------------------------------------
(* The operators                                                           *)

ByHand ==
  UNCHANGED <<vars, burned, dbVars, leaderVars, signerVars, confVars, logVars, faultsLeft>>
Counted == manualLeft > 0 /\ manualLeft' = manualLeft - 1

\* An owner submits a transaction of its own,
ProposeByHand(a, p) ==
  /\ ByHand /\ Counted
  /\ Broadcast(a, [kind |-> "submit", call |-> p.call, nonce |-> p.nonce,
                   token |-> p.token, fee |-> p.fee])

\* or executes one whose execution failed.
ExecuteByHand(a, id) ==
  /\ ByHand /\ Counted
  /\ [id |-> id, ok |-> FALSE] \in Range(results)
  /\ Broadcast(a, [kind |-> "execute", id |-> id])

\* An owner confirms what is no payment, such as a call of the wallet itself.
\* (Payments are left to the signers.)
ConfirmByHand(a, id) ==
  /\ ByHand /\ UNCHANGED manualLeft
  /\ id < transactionCount /\ ~IsTransfer(id)
  /\ ~IsSettledFor(a, id)
  /\ [kind |-> "confirm", id |-> id] \notin Range(queue[a])
  /\ Broadcast(a, [kind |-> "confirm", id |-> id])

\* choose_starting_block: the first submission of the tracker's block or later.
FirstFrom(block) ==
  CHOOSE id \in 0..transactionCount :
    /\ \A j \in 0..(id - 1) : blockOf[j] < block
    /\ id < transactionCount => blockOf[id] >= block

\* Mutant: the signer listens only to what is submitted from now on.
RestartAtLatest(a) ==
  /\ signerPc' = [signerPc EXCEPT ![a] = "listen"]
  /\ signerAt' = [signerAt EXCEPT ![a] = transactionCount]
  /\ signerNonce' = [signerNonce EXCEPT ![a] = 0]
  /\ IF a = Leader
       THEN /\ leaderPc' = "scan" /\ leaderTx' = NoTx
            /\ confirmerAt' = 0 /\ confirmerTodo' = << >> /\ confirmerDead' = FALSE
       ELSE UNCHANGED <<leaderVars, confVars>>
  /\ UNCHANGED <<vars, burned, dbVars, netVars, logVars, manualLeft>>

\* A process starts again: its signer from its tracker, its EthConfirmer from
\* block 0, its leader from the token's tracker.
RestartProcess(a) ==
  /\ signerPc' = [signerPc EXCEPT ![a] = "listen"]
  /\ signerAt' = [signerAt EXCEPT ![a] = FirstFrom(signerTracker[a])]
  /\ signerNonce' = [signerNonce EXCEPT ![a] = 0]
  /\ IF a = Leader
       THEN /\ leaderPc' = "scan" /\ leaderTx' = NoTx
            /\ confirmerAt' = 0 /\ confirmerTodo' = << >> /\ confirmerDead' = FALSE
       ELSE UNCHANGED <<leaderVars, confVars>>
  /\ UNCHANGED <<vars, burned, dbVars, netVars, logVars, manualLeft>>

CrashProcess(a) == Fault("crash") /\ RestartProcess(a)

\* Nothing but a restart of the process revives a dead listener.
ReviveProcess(a) ==
  /\ signerPc[a] = "dead" \/ (a = Leader /\ confirmerDead)
  /\ sent[a] < MaxSent /\ NoFault /\ RestartProcess(a)

PayoutNext ==
  \/ Burn
  \/ \E amount \in Amounts : DepositEther(amount)
  \/ EthLeader
  \/ \E s \in Accounts : EthSigner(s)
  \/ EthConfirmer
  \/ \E a \in Accounts :
        \/ Mine(a)
        \/ \E p \in Proposals : ProposeByHand(a, p)
        \/ \E id \in TxIds : ConfirmByHand(a, id) \/ ExecuteByHand(a, id)
        \/ CrashProcess(a) \/ ReviveProcess(a)

PayoutSpec == PayoutInit /\ [][PayoutNext]_payoutVars

\* Threads keep running, blocks are mined, and an operator restarts a process
\* whose listener is dead.
PayoutFairness ==
  /\ WF_payoutVars(EthLeader)
  /\ WF_payoutVars(EthConfirmer)
  /\ \A a \in Accounts :
        /\ WF_payoutVars(EthSigner(a))
        /\ WF_payoutVars(Mine(a))
        /\ WF_payoutVars(ReviveProcess(a))

PayoutFairSpec == PayoutSpec /\ PayoutFairness

-----------------------------------------------------------------------------
(* Properties                                                              *)

\* The submissions with the token and the nonce of swap n,
SubmittedFor(n) ==
  {id \in TxIds : /\ id < transactionCount
                  /\ transactions[id].token = Native /\ transactions[id].nonce = n}

\* those that are what the leader submits, a payment of Native,
IsPayment(id) == IsTransfer(id) /\ transactions[id].call.asset = Native

\* and the payments made.
PaidFor(n) == {id \in SubmittedFor(n) : IsPayment(id) /\ transactions[id].executed}

\* A burn is paid at most once, although the leader submits it again after a
\* restart between its broadcast and its tracker, and owners may submit and
\* execute by hand.  (Nonce 0 is the exception of notSubmitted.)
PaidOnce == \A n \in SwapNonces \ {0} : Cardinality(PaidFor(n)) <= 1

\* As PaidOnce, for every burn.
EachPaidOnce == \A n \in SwapNonces : Cardinality(PaidFor(n)) <= 1

\* What is paid, with the fee, is what was burned: no payment without a burn
\* and none of another amount, even when one owner submits something else
\* (_validate_tx_data).
PaidAsBurned ==
  \A n \in Nonces : \A id \in PaidFor(n) :
     n < burned /\ Amount(n) = transactions[id].call.amount + transactions[id].fee

\* The leader skips no burn: what its tracker has passed is in the database,
\* wherever the process was restarted (swap.save before swap_tracker.save).
TrackedIsRecorded == \A n \in SwapNonces : n <= tracker => status[n] # "none"

Stage(st) ==
  CASE st = "none" -> "unknown" [] st = "CONFIRMED" -> "confirmed"
    [] st = "FAILED" -> "failed" [] OTHER -> "open"

\* The wallet takes any call with any token and nonce, and EthConfirmer does not
\* look at the call: what an owner has submitted with a burn's token and nonce that
\* is not a payment counts as requested, and as carried out when it is executed.
BurnTransfer == INSTANCE Transfer
  WITH Transfers <- SwapNonces,
       requested <- {n \in SwapNonces : n < burned \/ \E id \in SubmittedFor(n) : ~IsPayment(id)},
       done <- {n \in SwapNonces : \E id \in SubmittedFor(n) : transactions[id].executed},
       stage <- [n \in SwapNonces |-> Stage(status[n])]

\* The leader, the signers, the wallet, EthConfirmer and the owners together
\* implement Transfer: nothing is paid before it is burned, even by hand, and
\* whatever events are replayed, a burn is reported CONFIRMED only if the wallet has
\* paid it, or has executed what the owners submitted and confirmed by hand with
\* its token and nonce: EthConfirmer takes that for the payment.
ImplementsTransfer == BurnTransfer!Spec

\* A result that is written stays: EthConfirmer replays every event after a
\* restart, and the leader handles the same burn again.
ResultIsFinal ==
  [][\A n \in SwapNonces :
       status[n] \in {"CONFIRMED", "FAILED"} => status'[n] = status[n]]_payoutVars

\* Every submission that matches a burn is eventually confirmed by every
\* signer or executed without it: none is lost while a signer's process is
\* down, whether it crashed or its listener died.
EventuallySigned ==
  \A id \in TxIds, s \in Accounts :
     id < transactionCount /\ IsTransfer(id) /\ IsKnown(id) /\ IsValid(id)
       ~> IsSettledFor(s, id)

\* Every burn is recorded as FAILED or the wallet tries to pay it.
EventuallyExecuted ==
  \A n \in SwapNonces :
     n < burned ~> \/ status[n] = "FAILED"
                   \/ \E i \in 1..Len(results) : transactions[results[i].id].nonce = n
=============================================================================
