# Verification of the Ethereum–Secret bridge

TLA+ models of the bridge: the multisig wallet on Ethereum, the two contracts on the Secret network,
and the Python processes between them; what TLC checks of them on small instances, and what TLAPS
proves for every value of the constants. Paths such as `manager.py:69` are those of the source tree
(`src/leader/secret20/manager.py`); `sol` is `src/contracts/ethereum/sol/MultiSigSwapWallet.sol`.
`PROJECT.json` maps each definition to its lines.

## 1. The system

The bridge moves assets in two directions.

    Ethereum -> Secret
      user --swap/swapToken--> wallet --event--> SecretManager --Swap document--> database
      Secret20Signers --Signatures--> database --Secret20Leader--> Secret network: swap contract --Mint--> token
    Secret -> Ethereum
      user --Send--> token --Receive--> swap contract (records the swap, burns)
      EtherLeader --query by nonce--> submitTransaction --event--> EtherSigners --confirmTransaction--> wallet pays
      wallet --Withdraw, WithdrawFailure--> EthConfirmer --Swap document--> database

One operator runs the leader's process, every operator runs a signer's. A process is a set of threads
that share the database, the chains and one Ethereum account and hardly anything else; `bridge.py` sets
up secretcli, starts the threads, does not watch them, and stops them after Ctrl-C. supervisord starts
a process again whose exit code is not 0.

### Components

| Component | State | Operations | Interacts through | Hard behaviours | Correct when |
|---|---|---|---|---|---|
| Multisig wallet (`sol`) | transactions, confirmations, nonces per token, owners, threshold, tokens, balances | submit, confirm, revoke, execute; owner changes through itself; deposits | events, calls of tokens | a call that fails inside an execution, retries of it, owners that change under pending transactions | pays a transaction once, with a quorum of present owners, in the order of nonces; never locks itself |
| EthEventListener (`event_listener.py`) | filters, pending events | register, poll, wait for confirmations, call back | web3, callbacks | restart, confirmations, exceptions in callbacks | no event is lost or handled early |
| SecretManager (`manager.py`) | tracker, sequence number | catch up, handle an event, count signatures, retry | `Swap`, `Signatures`, tracker | restart between two writes, one number written by three threads, stale copies | each deposit becomes a swap; a swap is signed only with enough signatures |
| Secret20Signer (`signer/secret20`) | copy of the unsigned swaps | validate, sign, fail | `Swap`, `Signatures` | works on old copies while others delete signatures | signs once, what was deposited |
| Secret20Leader (`leader/secret20/leader.py`) | copies, cooldown | combine, broadcast, validate, retry, resynchronise | `Swap`, secretcli | lost, late, refused transactions; retry of what landed; exceptions that end the thread | mints each deposit once, and in the end |
| EtherLeader, EthConfirmer (`leader/eth`) | tracker per token, event filters | query, submit, record; write results | swap contract, wallet, `Swap` | restart between broadcast, save and tracker | submits each burn once, skips none |
| EtherSigner (`signer/eth`) | tracker, filters | hear, validate, confirm | wallet events | restart, dead listener, refused broadcast | confirms each valid submission and no other |
| Swap contract (`secret-swap-contract`) | owner, whitelist, pause, swaps per token | Receive (record and burn), MintFromExtChain, administration | messages in one transaction | message chains between contracts | burns what it records; swaps are dense and final |
| Bridge token (`bridge-token`) | balances, supply, allowances, minters, admin, status | SNIP-20 messages | messages in one transaction | limits of u128, allowances that expire, self transfers | supply is the sum of balances; spenders take what was granted |
| Sending transactions (`ethr_contract.py`, `transaction.py`, key stores) | what a thread has signed and not broadcast; the account's nonce and the node's pool | read the nonce, sign, broadcast | node, two threads of one process | two threads with one nonce; v and the low s | the node finds the account in each signature; only a thread that another came before is refused |
| Runner (`bridge.py`, `config.py`, `configure_secretcli`) | configuration, secretcli's home, threads and their stop events | load, set up, build, start, stop, restart | threads, supervisord | set-up cut short, threads that die unseen, Ctrl-C at any step | threads run with a complete set-up; Ctrl-C ends the process |
| Database (`db/collections`) | `Swap`, `Signatures`, trackers | save of the assigned fields, unique keys | all Python threads | copies that are stale when saved | see its users |

Not modelled:

- the deployment scripts (`deploy.py`, `swap_ether.py`): run once by hand, one command after the other,
  before there is a bridge. (`deploy.py` does not look at the results of the commands it runs.)
- the token map and pairs (`token_map.py`, `coins.py`): written by hand, read once; a constant here.
- USDT: a third party's contract, vendored for the tests.
- values of the oracle's prices and its sources, outside services; RLP, ABI and hashes, pure data of
  libraries; the logger, which has no state.
- reorganisations of Ethereum: what a node's filters answer after one is outside this code, and the code
  never asks whether a block it waited for is still there.

## 2. The modules

| Module | Models | Extends |
|---|---|---|
| `MultiSigSwapWallet` | the wallet, every function that changes state | |
| `SwapEvents` | deposits: listener, catch-up and `_handle` of SecretManager | |
| `EthToSecret` | from a recorded swap to the mint: manager, signers, leader, Secret network | |
| `SecretToEth` | from a burn to the payment: EtherLeader, EtherSigners, EthConfirmer | `MultiSigSwapWallet`: the wallet's actions are the transactions that get mined |
| `Transfer` | abstract: what the bridge promises of a transfer in either direction | implemented by `EthToSecret` and `SecretToEth` |
| `EthAccount` | one account's transactions: nonce, signature, broadcast, the node's pool | |
| `BridgeProcess` | one process: configuration, set-up, threads, Ctrl-C, restarts | `EthAccount`: two of its threads send |
| `BridgeToken` | the token | |
| `SecretSwapContract` | the swap contract, composed with one token | `BridgeToken`: each step is one transaction of both contracts |
| `MC...` | the constants of the instances | the module of that name |
| `Ranks`, `Sums` | the elements of a set in an order; the sum of numbers over a set | |
| `MultiSigSwapWalletProofs`, `SwapEventsProofs`, `EthToSecretProofs`, `SecretToEthProofs`, `BridgeProcessProofs`, `SecretSwapContractProofs` | invariants, lemmas and theorems | the module of that name, TLAPS, the lemmas below |
| `OrderLemmas`, `SumLemmas` | lemmas about `Ranks`, `Sums` and least elements, for all of them | `Ranks`; `Sums` |

`Ranks` and `Sums` say without recursion what the community modules define by it, so that it can be reasoned
about: in `InOrder` each element stands at its rank, and `Total` counts the units of every number.

Variables and actions carry the names of the code where TLA+ allows it. Definitions under a comment
`Mutant` are wrong variants of the definition they precede; no specification uses them. They show that
each property can fail: with the variant in place of the original, TLC refutes the property.

### MultiSigSwapWallet

One action per external function. A call that reverts changes nothing and is no step, so every
`require` on the way is a guard. What is submitted (destination, value, data) is abstracted to the call
it makes: a payment, or one of the `onlyWallet` functions, which the wallet reaches by calling itself.
The call inside an execution may fail for lack of funds or any reason of its own (gas, callee): then
the transaction stays unexecuted, and the fee has been collected all the same (`sol:428`), again at
every attempt. `FundsAccounted` counts those fees. `feePayments`, `withdrawals` and `deposited` are
history. Views are not modelled.

### SwapEvents

The listener's callbacks start only after `catch_up`, so one program counter (`phase`) is enough. Each
event is handled in two steps, the save of the swap and the move of the tracker; the process may stop
before either. Deposits have one of four kinds: ether, a mapped token, a token that is not in the map
(the `KeyError` of `manager.py:119` ends the thread), and a recipient that is no text (skipped without
moving the tracker). A transaction may hold several deposits; `src_tx_hash` is unique, so only its first
becomes a swap. A failure of secretcli passes the deposit (`manager.py:165`). The fast-forward to
`eth_start_block` writes the first block to process as the last one processed, as the code does.

`Missed` says exactly which deposits a run of the process does not cover: those before its first block
(the tracker had passed them, in another pass or another poll order, before the restart), and those
between the last confirmed block and the creation of the filter. `EventuallySettled` says that there are
no others. Reorganisations of the chain are left out: `RecordedIsConfirmed` is about depth only.

### EthToSecret

Swaps 1..NumSwaps are those that SwapEvents records, in that order. Each thread that loops over a query
works on a copy (`managerTodo`, `leaderTodo`, `signerTodo`); a save writes only what was assigned, which
is why a signer can save FAILED over any later status. The status is the state of the swap:

    UNSIGNED -> SIGNED -> SUBMITTED -> CONFIRMED     RETRY -> UNSIGNED     FAILED

`self.sequence` is read and written by the listener, the manager and the leader in separate steps, since none
of them takes `sequence_lock` (only the unused setter `_sequence` does): `read` is what a thread has read and
not yet used, and `HandleBump`/`HandleWrite`, `RetryBump`/`RetryWrite` and `Resync`/`ResyncAssign` are the halves
of `self.sequence = self.sequence + 1` and of `update_sequence`. What another thread writes in between is lost.
Two threads that keep overwriting each other can drive the number up for ever; from `MaxNumber` on it counts no
further, since above `MaxSequence` every number is one that the chain does not come to (`Successor`).

The Secret network keeps the sequence number of the multisig account: a transaction with another number
is rejected although the asynchronous broadcast reported success; a failed message uses up the number.
Faults are taken from a budget (`MaxFaults`) and named: a signer fails (FAILED is saved, or its signature
cannot be and no status is, `SignerCannotSave`), secretcli fails, SUBMITTED cannot be saved after the broadcast
(`LeaderCannotSave`: FAILED is, with the transaction in the mempool), a transaction is dropped, refused by the
contract or late, an exception that no loop catches ends the thread of the manager, the leader or a signer
(`ManagerDies`, `LeaderDies`, `SignerDies`; a `RuntimeError` of `decrypt` or of `update_sequence`, a database
that fails), a process restarts. `expired` stands for the cooldown. `signatures` is a set, as two documents of
one signer and one number would be of no further effect on who has signed.

### SecretToEth

One token of the Secret side, paid in ether. Burns have nonces 0, 1, ...; the leader queries the next one
after its tracker, and then prepares, broadcasts, saves and tracks in four steps. The wallet's actions run
when a transaction is mined. Signers hear submissions in order from the last block they wrote, validate
them against the burn, and confirm. An exception in `sign()` outside its `try` ends the listener; only a
restart of the process revives it. EthConfirmer hears Withdraw and WithdrawFailure through two filters
and replays them after a restart; the `KeyError` of a token that is not in the map (`eth_confirmationer.py:38`)
ends its listener (`ConfirmerChokes`).

Owners may also submit, confirm and execute by hand. What they submit is any proposal: `submitTransaction`
compares nothing (`sol:364`), so a call of the wallet itself may carry the label `address(0)` and the nonce of a
burn. When it is executed, EthConfirmer takes its Withdraw for the payment of that burn and writes CONFIRMED,
although nothing was paid; the instance has such a proposal, and the state is reached. `BurnTransfer` therefore
counts as carried out what the wallet has executed under the burn's token and nonce, and `PaidAsBurned` says
what an executed payment pays. By hand, owners confirm only transactions that are no payments; payments are
confirmed by the signers alone. A signer compares the label, not the asset of the call; of other tokens there are no
burns, so the query for one fails and the listener dies. Left out: recipients, the
oracle's prices (the fee is any of a set), the polling delay and `eth_confirmations`, which only delay
events here, replacement of a transaction by one of the same nonce, the events that filter and replay
both return (their handling is idempotent).

### Transfer

A transfer is `requested` (its value given up on the first chain), `done` (paid on the second) and has a
`stage` in the database. Its steps say in which order these may change: nothing is carried out or reported
that was not requested, and a transfer is confirmed only when it has been carried out, and not worked on
again after that unless it is reported failed in between. `EthToSecret` maps a deposit, the landed mints
and the status of the swap to these (`Stage`), `SecretToEth` a burn, or a submission by hand of no payment with a burn's
token and nonce (requested), the execution of a submission with them (done), and the document of the swap; `ImplementsTransfer` says that every step of theirs is a step of `Transfer` or none.
Failures are weaker than one might wish, and deliberately so in the abstract module: a swap reported FAILED
may have been carried out, or may still be, and a result can follow a failure.

### EthAccount

`Prepare` is `raw_transaction` and `sign_transaction`: the node's pending count becomes the nonce, and the
key store signs. A signature is reduced to s, the parity of its point and v, over a group of small order:
`LowS`, the search for v and the chain id are computed as in the code, and `SenderOf` recovers the account
as `Transaction.sender` and every node do. Between `Prepare` and `Send` another thread may do the same
(`contended` records that it did). The node refuses a used nonce, and a pending one unless the price is
higher; then the other transaction disappears from the pool, although its sender holds its hash.

### BridgeProcess

The main thread is a program counter through `run_bridge` and `run_all`; every other thread is new, running
or ended, and may die of an exception at any step. The home of secretcli survives the process. What Ctrl-C
and `stop()` do is modelled runner by runner: the loop passes over runners that are not alive, daemons end
with the process, others keep it alive. Configuration is looked up as `get_config` does, environment before
file and the given case before upper case; the instance has an environment for each way a start can go. On
mainnet a thread that prepares a transaction ends (see below). The listeners of EtherLeader and SecretManager
are left out: nobody waits for them or asks whether they live. That any thread may end by an exception other than the
`ValueError` it catches is a step here for all of them; SecretToEth has it for the listeners alone, so that `EventuallyExecuted` is
about an EtherLeader whose thread lives.

### BridgeToken and SecretSwapContract

A message is one transaction: when it or a message it causes fails, nothing remains, so a failing call is
no step, and a chain of messages (Send, Receive, Burn) is one step with the intermediate balances computed
in order. Only one token is modelled in full; the others call `Receive` like it. `granted`, `spent` and `revoked` are
history: what a spender was given, has taken, and whether the owner took any of it back. What is left of an
expired allowance counts again after an increase, since the zeroing in `try_transfer_from_impl` is undone
with the error; an address that is listed twice in `initial_balances` is counted twice in the supply
(`Overcounted`). The swap contract reads neither the caller nor the identifier of a mint.

`MintFields` are the fields that the token's Mint message must have. The swap contract sends `amount` and
`address` (`token_messages.rs:13-17`); the token's schema lists the same two (`handle_msg.json:423-426`),
and the instance takes them. The token of this source tree has since renamed the second to `recipient`
(`msg.rs:116-120`): with `MintFields = {"amount", "recipient"}` the guard `Understood` is false and
`MintFromExtChain` is never enabled, that is, every mint fails. The contracts must be deployed from versions that agree.

## 3. The runs

| Run | Instance | Shows |
|---|---|---|
| `wallet` | 2 owners of 3 accounts, both must confirm; ether and a token, fee 1, nonces 0 and 1; 2 transactions, 2 units deposited of each asset, all the wallet's own calls; 1.5 M states | `OwnersConsistent`, `RequirementReachable`, `WithdrawnOnce`, `NonceOrder`, `FundsAccounted`, `ExecutedByQuorum`, `ExecutedIsSettled` |
| `deposits` | 4 blocks, 2 deposits of any kind, in one or two transactions; 1 confirmation; 2 restarts, 1 failure of secretcli; 1.1 M states | `NothingSkipped`, `NothingForgotten`, `RecordedIsConfirmed`, `EventuallySettled` |
| `mint_faults` | 1 swap, 2 signers of which 1 suffices, every kind of fault, once; the chain executes 2 transactions; 1.2 M states | `SignedHasQuorum`, `OneSignaturePerSigner`, `ConfirmedIsFinal`, `ImplementsTransfer` |
| `mint_pair` | 2 swaps, 1 signer, one refused mint, one failure of secretcli or one thread that an exception ends, 3 transactions of the account, numbers up to 3; 0.6 M states | `NoneStuck` |
| `payout` | 2 burns, the first below the fee; 2 owners who both confirm; one submission or execution by hand, of a payment of the wrong amount, of the right one with another fee, of `pauseSwaps` labelled as another token's or as the second burn's; one restart or refused broadcast; 0.82 M states | `PaidOnce`, `PaidAsBurned`, `TrackedIsRecorded`, `ResultIsFinal`, `ImplementsTransfer` |
| `payout_live` | 2 burns, the first below the fee, two restarts or failed queries; 13 k states | `EventuallySigned`, `EventuallyExecuted` |
| `process` | a leader and signers in six environments (one without a mode, one with an unknown token, one with a key that begins with 0x, two on mainnet); 2 signers' keys; one failure, death or kill at any step, Ctrl-C, restarts; 2 transactions, 2 gas prices; 0.13 M states | `OnlyContendersClash`, `ConfiguredUnlessCutShort`, `SignerStopsWithListener`, `InterruptEndsProcess` |
| `contracts` | 2 users, one of them admin and owner and listed twice; integers up to 3, amounts 1 and 2; 2 increases of an allowance or administrative messages, 2 swaps; two block times and two expirations; a second listed token; 0.79 M states | `SupplyIsBalances`, `SpentWithinGrants`, `NonceIsPosition`, `SwapsAreFinal`, `SwapBurnsItsAmount`, `StoppedIsFrozen` |

Each module also has a type invariant, checked in the first of its runs.

**Bounds.** They cap what grows: transactions, deposits, blocks, faults, swaps. Two transactions are what
an order of nonces, a change of owners under a pending transaction and a double payment need; two owners
with threshold two make a quorum that a removed owner can break; a second swap is what sequence numbers
can be mixed up with; one fault between any two steps is what the recovery code is written for, and two
restarts let a deposit that was missed once be replayed or missed again. In `process` two transactions and
two prices give every outcome of a clash (refused for the pending one, replacing it, refused for a mined
one), and the failure is one since a start, once failed, begins anew. `MaxUint = 3` puts the supply
and the balances at their limit, two increases by 2 saturate an allowance, and with the expirations 0 and 1 at two
block times an expired one is renewed and spent. Increases of allowances and administrative messages share one
bound (`MaxChanges`), as they seldom meet: what needs two of one kind, or one of each, is there. In `mint_pair` transactions
are not dropped or late: with two swaps these multiply the states by more than forty; they are faults of `mint_faults`.
A rejected transaction is in both, since it takes no fault, only a wrong number. The theorems of section 5 hold without these bounds being small.
`CHECK_DEADLOCK FALSE` stands where the bounded system stops: all transactions and deposits used up, a
dead thread. The two mint runs check deadlock as well.

**Fairness.** Only the liveness properties use it. Threads: weak fairness of each thread's step, since
each is a loop that sleeps for `sleep_interval` and goes on, until an exception ends it: a dead thread takes no step,
and `NoneStuck` promises something only while those that it needs live (`Running`). Chains: a pending transaction with the right
number lands, and blocks are mined. Cooldown: time passes. SecretToEth also has weak fairness of
`ReviveProcess`: an operator restarts a process whose listener is dead, since nothing in the code does.
BridgeProcess: the main thread goes on until it waits for Ctrl-C, threads see their stop events, and a node
answers a broadcast (three terms, one for each kind of step; each thread takes finitely many of the last two,
so that fairness to their union starves none). Restarts are not fair: supervisord gives up on a process that
keeps failing. SwapEvents has no such assumption: `EventuallySettled` speaks of behaviours in which the process is,
from some point on, never stopped and not dead. No fairness is assumed of users, of faults, or of calls by hand.

### Disagreements

Each of these runs checks one statement of the documentation, which the code violates.

| Run | Property | What happens |
|---|---|---|
| `deposits_lost` | `EveryDepositRecorded` | `catch_up` ends `eth_confirmations` blocks before the latest one, the new filters start after it (`manager.py:69`, `event_listener.py:55`). A deposit that waits for confirmations during a restart is in neither; once a later event has moved the tracker, no restart finds it |
| `mint_twice` | `MintedOnce` | when one submitted swap fails, the later ones are retried without asking whether they are on chain (`leader.py:90-92`); the contract's own protection is commented out (`contract.rs:121-126`) |
| `payout_twice` | `EachPaidOnce` | `secretTxNonce == 0` also means `none yet` (`sol:105`): the first burn of a token can be submitted and paid twice after a restart |
| `payout_stopped` | `EventuallySigned` | a submission that is no payment makes every signer's listener die on it, again after each restart (`signer/eth/impl.py:90`) |

Met while modelling, and part of the models without a run of their own:

- **Nothing is sent on mainnet.** `raw_transaction` multiplies the oracle's price by `1e9`
  (`ethr_contract.py:72`): RLP encodes no float. The leader's fee is one as well (`leader.py:120`), and the ABI
  encodes none either. Both exceptions are no `ValueError`, so the thread ends (`CannotPrepare`).
- The fee of a token divides by `x_rate`, which is tokens per ETH (`oracle.py:65`, `leader.py:135`), where the
  comment above it goes from ETH to tokens.
- `bytes_from_hex` compares one character with `0x` (`common.py:60`): a key with the prefix stops the start.
- A set-up of secretcli that fails after its first key is never completed (`secretcli.py:128`), and every later
  start runs with it.
- The leader and the signer of one process can pick the same nonce; with a higher price the later one
  replaces the earlier, whose swap stays SUBMITTED (`leader.py:194`) and is never mined.
- `leader.py:177-179` says of a failed mint "we want to crash" and "Better to just stop", but only that thread
  ends: its manager goes on, and after Ctrl-C keeps the process alive, since `run_all` stops only runners that
  are alive. Ctrl-C during the loop that starts the runners (`bridge.py:108`) is outside the `try` and stops none.
  supervisord does not restart a process whose main thread lives.
- Numbers are given in the order of deposits, broadcasts follow the order of signatures: without any fault one
  of two deposits can end FAILED or be retried for ever, so that no run claims that every deposit is confirmed.
- A restart between a broadcast and the save of SUBMITTED makes the leader broadcast the swap again; with a signature
  more its transaction has another hash, is rejected, never found under that hash, and the swap is minted again after the retry.
- What owners have the wallet do under the token and nonce of a burn is reported as its payment (`eth_confirmationer.py:35-40`).
- A removed owner's confirmations stay in the wallet and count again when the account returns (`sol:309`).

The fee is collected again at each
failed attempt (`sol:428`, while `sol:361` calls it the fee of the transaction); a signer's RETRY is never
saved (`signer.py:51`); a signature of the old sequence number can be counted after a retry
(`manager.py:82`), and the leader's combination then fails; a mint that lands after the cooldown is retried
(`leader.py:167`); a swap reported FAILED may have been minted.

## 4. What each property means

The comment above each property says which code it is about. Grouped by the hazard they are for:

- **Twice.** `WithdrawnOnce`, `NonceOrder`, `PaidOnce`, `OneSignaturePerSigner`: what is
  retried, replayed or resubmitted takes effect once.
- **Never.** `NothingSkipped`, `NothingForgotten`, `EventuallySettled`, `NoneStuck`, `TrackedIsRecorded`,
  `EventuallySigned`, `EventuallyExecuted`: what was begun is carried on, by whichever thread is due.
- **Reported and true.** `ImplementsTransfer` (twice, of each direction), `ConfirmedIsFinal`, `ResultIsFinal`:
  the database agrees with the chains.
- **Clashes.** `OnlyContendersClash`: no thread is refused, or takes another's place, without a reason.
- **Starting and stopping.** `ConfiguredUnlessCutShort`, `SignerStopsWithListener`, `InterruptEndsProcess`.
- **Authorised.** `ExecutedByQuorum`, `RequirementReachable`, `OwnersConsistent`, `SignedHasQuorum`,
  `PaidAsBurned`, `SpentWithinGrants`, `StoppedIsFrozen`.
- **Conserved.** `FundsAccounted`, `SupplyIsBalances`, `SwapBurnsItsAmount`.

## 5. What is proved

`tlapm` checks every step; nothing is assumed but the named assumptions on constants and, in two theorems,
`[](required >= 2)`. Every invariant and every action property that a passing run checks is proved for every value of the
constants, and so is that both directions implement `Transfer`. What an argument needs of the state beyond the property:

**Wallet** (`MultiSigSwapWalletProofs`). Assumptions: `BoundsAssumption`, `DataAssumption` (amounts
positive, calls of the modelled forms), `ConstructorAssumption` (owners distinct, threshold valid, as the
constructor requires). Nothing is assumed of the sizes of the sets. The inductive invariant is

    IInv == TypeOK /\ OwnerInv /\ LedgerInv

`OwnerInv` is `OwnersConsistent` and `RequirementReachable`, which need each other: the removal of an owner
keeps the threshold reachable only because the list has as many entries as there are owners. `LedgerInv`
adds to `NonceOrder` and `WithdrawnOnce` that identifiers are given out in order (`SubmittedPrefix`) and that
`secretTxNonce` bounds the nonces of its token (`NonceBound`): without the first a new transaction could
overwrite one, without the second an increasing nonce says nothing of older transactions. From
`Invariance == Spec => []IInv` follow `TypeCorrect`, `OwnersSafe`, `RequirementSafe`, `WithdrawnOnceSafe` and
`NonceOrderSafe`, and with the shape of a step (`StepShape`) the action properties `ExecutedByQuorumSafe` and
`ExecutedIsSettledSafe`. The lemmas on `SwapRemove` and `ReplaceFirst` are the loops of `removeOwner` and
`replaceOwner` for lists of any length. `FundsAccountedSafe` is about sums over all transactions: `ExecuteFunds` says that
an execution takes from the wallet exactly what it adds to the cost of its transaction, whether the call
succeeds or not; `TotalChange` carries this to the sum. `FundsInv` adds that a transaction that does not exist has
paid no fee, and `WithdrawnOnce` that its call has not succeeded, so a submission adds nothing to the sum.

**Secret contracts** (`SecretSwapContractProofs`). Assumptions: `TokenAssumption`, `SwapContractAssumption`
and `InstantiatedAssumption`, that `init` succeeded: the initial sum and balances, which are folds over
`InitialBalances`, lie within u128. (Their range for every list is an induction over data, beyond the
installed provers.) The invariant `ContractsInv` is the types together with `SpentWithinGrants`, for which `Accounted` says of one
allowance, without Min, what saturating increases, decreases and spending each preserve. Proved:
`ContractsTypeCorrect` (no balance, supply or allowance leaves its width, through chains of messages),
`AllowancesSafe`, `NoncesSafe`, `SwapsKept` and `StoppedTokenIsFrozen`; `SupplySafe`, from the four things a message can do to
the funds (`FundsChange`), a transfer to oneself included; and `SwapBurnsSafe`, for which the payment to the contract
and the burn of it cancel out because the contract is no user (`BurnReceivedKeeps`).

**Deposits** (`SwapEventsProofs`). `EventsAssumption` only: any chain of blocks, any number of
confirmations, stops and failures. The invariant follows a deposit through one run of the process.
`RangeInv`: the range of `catch_up` was confirmed when it was read, so that later blocks add nothing to it.
`PassInv`: in a pass over the range each deposit of the event is in `todo` or settled, and the first pass has settled those of the
other event. `FilterInv`: the filters have answered nothing before the listener polls them, which is why
nothing can be forgotten before. `HandlingInv`: only an event whose swap was saved leaves `todo`. Proved:
`EventsTypeCorrect`, `RecordedIsConfirmedSafe`, `NothingSkippedSafe` and `NothingForgottenSafe`.

**Mints** (`EthToSecretProofs`). Assumptions: bounds are numbers, the signers a finite set, the threshold
at most their number. A thread saves what it decided on a copy of documents that others change meanwhile, so
`CopyInv` says what a copy is still good for: the swaps in the manager's copy and in the leader's have the
status they were read with, or FAILED, which a signer with an old copy may save over anything; the two copies are disjoint; those of
the leader keep their quorum, since only the manager deletes signatures, and only of swaps in its copy. Proved: `TypeCorrect`, `OneSignaturePerSignerSafe`,
`SignedHasQuorumSafe`, `ConfirmedIsFinalSafe` and `DepositsImplementTransfer`, step by step of every thread and fault.

**Payouts** (`SecretToEthProofs`). `PayoutAssumption` and the wallet's. `PayoutsRunTheWallet` says that every
step is a step of `MultiSigSwapWallet` or leaves it alone, so that the wallet's `IInv` is one half of `PInv`; the other half
says what threads hold: the leader works on the burn after its tracker, which is in the database before the
tracker passes it (`LeaderInv`), and listeners on submissions that are on the chain (`ListenerInv`). Then `PaidOnceSafe` is
`NonceOrder` and `WithdrawnOnce` of the wallet; `PayoutTypeCorrect`, `TrackedIsRecordedSafe` and `ResultIsFinalSafe` follow likewise.
`PaidAsBurnedSafe` and `PayoutsImplementTransfer` hold of every behaviour with `[](required >= 2)`: a submission confirms
itself (`sol:373`), so with a threshold of one its owner pays what it likes and nobody is asked, and owners who have the wallet
lower the threshold by a transaction of their own choose that. With two, `CheckedInv` says that a
transaction that is no burn's has the confirmation of its submitter alone, since EtherSigner validates before it confirms, also while its
confirmation waits in the account's queue; and `ReportInv`, that a result on its way to the database was an execution.

**Process and account** (`BridgeProcessProofs`). `AccountAssumption` (an odd group order of at least 3, any chain
id but 0), `ProcessAssumption` and `SendersAssumption` (the two threads that send). `AccountInv`: the transactions that are not mined have the
nonces from the account's on without gap or repetition; the next one is the pending nonce, and a thread before which no other came has
prepared its transaction with it. That `v` and the low `s` give the account back is arithmetic modulo the order (the order is odd, so that of
`s` and `order - s` exactly one is low). `SetupInv`: a set-up under way has done every step up to its next one, and a home with a key in it is complete unless
a set-up was cut short. Proved: `ProcessTypeCorrect`, `OnlyContendersClashSafe` and `ConfiguredSafe`.

**Shared lemmas.** `OrderLemmas`: sets of numbers have a least element (the threads take documents in the order of insertion, a CHOOSE in
the models), `InOrder` lists each element of a set and `Those` loses none it is to keep. `SumLemmas`: a sum changes by as much as one of its terms.

**Only model-checked.** Liveness, which is out of the prover's reach with the ENABLED of fairness:
`EventuallySettled`, `NoneStuck`, `EventuallySigned`, `EventuallyExecuted`, `SignerStopsWithListener` and
`InterruptEndsProcess`. That `init` of the token stays within u128 (see above).

## 6. Plan

Written in this order, the most important behaviour first: wallet and its proofs, EthToSecret, SecretToEth
(composed with the wallet), the two contracts and their proofs, SwapEvents, Transfer, EthAccount and
BridgeProcess, then the proofs of all of them. Next:

1. **Proofs.** What the liveness properties rest on, as safety: that a thread with work to do can always take its
   next step, that a deposit outside of `Missed` keeps being covered.
2. **More of the system.** Several tokens in SecretToEth, with one tracker each; the wallet's views.
