------------------------------ MODULE SwapEvents ------------------------------
(***************************************************************************)
(* How the deposits of the wallet's log become swaps of the database: the  *)
(* first half of SecretManager and its EthEventListener.  On its start the *)
(* bridge creates a filter for each event, replays the blocks after the    *)
(* last one it has processed, and then polls the filters, whose events     *)
(* wait until they are deep enough.                                        *)
(*                                                                         *)
(* The replay and the listener's callbacks never run at the same time, so  *)
(* one program counter is enough.  A transaction's hash is its block and   *)
(* its place there.  Reorganisations of the chain are left out.            *)
(***************************************************************************)
EXTENDS Ranks, SequencesExt

CONSTANTS
  Confirmations,   \* config.eth_confirmations
  StartBlock,      \* config.eth_start_block
  Logs,            \* what a block may log: the transaction and kind of each deposit
  MaxHeight,       \* bound: blocks
  MaxDeposits,     \* bound: deposits
  MaxRestarts,     \* bound: times the bridge is stopped
  MaxFailures      \* bound: failures of secretcli

\* Ether for a recipient, for bytes that are no text; a mapped and an unmapped token.
Kinds == {"ether", "garbled", "token", "unmapped"}
Events == {"Swap", "SwapToken"}
EventOf(kind) == IF kind \in {"ether", "garbled"} THEN "Swap" ELSE "SwapToken"

ASSUME EventsAssumption ==
  /\ Confirmations \in Nat /\ StartBlock \in Nat
  /\ Logs \subseteq Seq([tx : Nat, kind : Kinds])
  /\ MaxHeight \in Nat /\ MaxDeposits \in Nat /\ MaxRestarts \in Nat /\ MaxFailures \in Nat

VARIABLES
  chain,       \* external: the log of each block
  \* the database
  swaps,       \* the deposits that were saved, in that order
  tracker,     \* SwapTrackerObject('Ethereum').nonce
  \* the leader's process
  phase,
  created,     \* the height at which each filter was created
  seen,        \* external: the height up to which each filter has answered
  fromBlock, toBlock,   \* the range of catch_up
  pending,     \* EthEventListener.pending_events
  todo,        \* the events whose callbacks are being called
  saved,       \* whether _handle is past its try block for the first of them
  \* bounds and history
  restartsLeft, failuresLeft,
  failed       \* the deposits for which secretcli failed

database  == <<swaps, tracker>>
listening == <<created, seen, pending>>
handling  == <<todo, saved>>
bounds    == <<restartsLeft, failuresLeft, failed>>
vars == <<chain, database, phase, listening, fromBlock, toBlock, handling, bounds>>

height == Len(chain)
Deposit == [block : 1..MaxHeight, index : Nat, tx : Nat, kind : Kinds]
Deposits(blocks) ==
  UNION {{[block |-> b, index |-> i, tx |-> chain[b][i].tx, kind |-> chain[b][i].kind] :
            i \in DOMAIN chain[b]} : b \in blocks \intersect DOMAIN chain}
AllDeposits == Deposits(1..height)

Phases ==
  { "down", "register", "run",            \* __init__, then the thread
    "swapPass", "tokenPass",              \* the two loops of catch_up
    "pollSwap", "pollToken", "confirm", "callbacks",   \* EthEventListener.run
    "dead" }                              \* an exception has ended the thread

TypeOK ==
  /\ chain \in Seq(Logs) /\ height <= MaxHeight
  /\ swaps \in Seq(Deposit)
  /\ tracker \in -1..(MaxHeight + StartBlock)
  /\ phase \in Phases
  /\ created \in [Events -> 0..MaxHeight]
  /\ seen \in [Events -> 0..MaxHeight]
  /\ fromBlock \in 0..(MaxHeight + StartBlock + 1)
  /\ toBlock \in -Confirmations..MaxHeight
  /\ pending \in Seq(Deposit)
  /\ todo \in Seq(Deposit)
  /\ saved \in BOOLEAN
  /\ restartsLeft \in 0..MaxRestarts
  /\ failuresLeft \in 0..MaxFailures
  /\ failed \subseteq Deposit

Init ==
  /\ chain = <<>>
  /\ swaps = <<>>
  /\ tracker = -1
  /\ phase = "down"
  /\ created = [e \in Events |-> 0] /\ seen = [e \in Events |-> 0]
  /\ fromBlock = 0 /\ toBlock = 0
  /\ pending = <<>> /\ todo = <<>> /\ saved = FALSE
  /\ restartsLeft = MaxRestarts
  /\ failuresLeft = MaxFailures
  /\ failed = {}

-----------------------------------------------------------------------------
(* Ethereum                                                                *)

\* External: the next block.
Mine(log) ==
  /\ height < MaxHeight
  /\ Cardinality(AllDeposits) + Len(log) <= MaxDeposits
  /\ chain' = Append(chain, log)
  /\ UNCHANGED <<database, phase, listening, fromBlock, toBlock, handling, bounds>>

\* External: the events of a range of blocks, as the node returns them.
Before(d, e) == d.block < e.block \/ (d.block = e.block /\ d.index < e.index)
Entries(event, blocks) ==
  LET found == {d \in Deposits(blocks) : EventOf(d.kind) = event}
  IN  InOrder(found, {p \in found \X found : Before(p[1], p[2])})

-----------------------------------------------------------------------------
(* Starting: SecretManager.__init__, run and catch_up                      *)

\* register: a filter answers with what is mined after its creation.
CreateFilter(event) ==
  /\ created' = [created EXCEPT ![event] = height]
  /\ seen' = [seen EXCEPT ![event] = height]
  /\ UNCHANGED <<chain, database, fromBlock, toBlock, pending, handling, bounds>>

Start         == phase = "down" /\ phase' = "register" /\ CreateFilter("Swap")
RegisterToken == phase = "register" /\ phase' = "run" /\ CreateFilter("SwapToken")

\* Mutant: the latest block is taken for confirmed.
ConfirmedUpToLatest == height

\* The last block with enough blocks on top of it.
ConfirmedUpTo == height - Confirmations

\* The fast forward writes the first block to process as the last one processed.
CatchUp ==
  /\ phase = "run"
  /\ toBlock' = ConfirmedUpTo
  /\ fromBlock' = Max({tracker + 1, StartBlock})
  /\ tracker' = IF StartBlock > tracker + 1 THEN StartBlock ELSE tracker
  /\ IF toBlock' <= 0 \/ toBlock' < fromBlock'
       THEN phase' = "pollSwap" /\ todo' = <<>>
       ELSE phase' = "swapPass" /\ todo' = Entries("Swap", fromBlock'..toBlock')
  /\ UNCHANGED <<chain, swaps, listening, saved, bounds>>

\* Mutant: the second loop of catch_up is missing.
TokenPassSkipped ==
  /\ phase = "swapPass" /\ todo = <<>>
  /\ phase' = "tokenPass"
  /\ UNCHANGED <<chain, database, listening, fromBlock, toBlock, handling, bounds>>

TokenPass ==
  /\ phase = "swapPass" /\ todo = <<>>
  /\ phase' = "tokenPass"
  /\ todo' = Entries("SwapToken", fromBlock..toBlock)
  /\ UNCHANGED <<chain, database, listening, fromBlock, toBlock, saved, bounds>>

CaughtUp ==
  /\ phase = "tokenPass" /\ todo = <<>>
  /\ tracker' = toBlock
  /\ phase' = "pollSwap"
  /\ UNCHANGED <<chain, swaps, listening, fromBlock, toBlock, handling, bounds>>

-----------------------------------------------------------------------------
(* Listening: EthEventListener.run                                         *)

\* Mutant: the filter skips a block.
PollPastLatest(event) ==
  /\ pending' = pending \o Entries(event, (seen[event] + 1)..height)
  /\ seen' = [seen EXCEPT ![event] = height + 1]
  /\ UNCHANGED <<chain, database, created, fromBlock, toBlock, handling, bounds>>

\* get_new_events, for one of the filters.
Poll(event) ==
  /\ pending' = pending \o Entries(event, (seen[event] + 1)..height)
  /\ seen' = [seen EXCEPT ![event] = height]
  /\ UNCHANGED <<chain, database, created, fromBlock, toBlock, handling, bounds>>

PollSwap  == phase = "pollSwap" /\ phase' = "pollToken" /\ Poll("Swap")
PollToken == phase = "pollToken" /\ phase' = "confirm" /\ Poll("SwapToken")

ConfirmedPending == {d \in Range(pending) : d.block <= ConfirmedUpTo}

\* Mutant: the list is emptied once it has been gone through.
ConfirmDropsRest ==
  /\ phase = "confirm"
  /\ phase' = "callbacks"
  /\ todo' = Those(pending, ConfirmedPending)
  /\ pending' = <<>>
  /\ UNCHANGED <<chain, database, created, seen, fromBlock, toBlock, saved, bounds>>

\* Mutant: off by one in the comparison.
ConfirmOneLate ==
  /\ phase = "confirm"
  /\ phase' = "callbacks"
  /\ LET deep == {d \in ConfirmedPending : d.block < ConfirmedUpTo}
     IN  todo' = Those(pending, deep) /\ pending' = Those(pending, Range(pending) \ deep)
  /\ UNCHANGED <<chain, database, created, seen, fromBlock, toBlock, saved, bounds>>

\* confirmation_handler: the events that are deep enough, the others wait.
Confirm ==
  /\ phase = "confirm"
  /\ phase' = "callbacks"
  /\ todo' = Those(pending, ConfirmedPending)
  /\ pending' = Those(pending, Range(pending) \ ConfirmedPending)
  /\ UNCHANGED <<chain, database, created, seen, fromBlock, toBlock, saved, bounds>>

Sleep ==
  /\ phase = "callbacks" /\ todo = <<>>
  /\ phase' = "pollSwap"
  /\ UNCHANGED <<chain, database, listening, fromBlock, toBlock, handling, bounds>>

-----------------------------------------------------------------------------
(* SecretManager._handle, for the first event of todo                      *)

Handling == phase \in {"swapPass", "tokenPass", "callbacks"} /\ todo # <<>>

SameTransaction(d, e) == d.block = e.block /\ d.tx = e.tx

\* Swap.src_tx_hash is unique: the second deposit of a transaction is refused.
IsUnique(d) == \A e \in Range(swaps) : ~SameTransaction(d, e)

\* A recipient that is no text: _handle returns, and the tracker stays.
SkipGarbled ==
  /\ Handling /\ ~saved
  /\ Head(todo).kind = "garbled"
  /\ todo' = Tail(todo)
  /\ UNCHANGED <<chain, database, phase, listening, fromBlock, toBlock, saved, bounds>>

\* The KeyError of _get_s20 is not caught, and ends the thread.
DieOnUnmapped ==
  /\ Handling /\ ~saved
  /\ Head(todo).kind = "unmapped"
  /\ phase' = "dead"
  /\ UNCHANGED <<chain, database, listening, fromBlock, toBlock, handling, bounds>>

\* A refused duplicate, and a failure of secretcli, are logged.
Save ==
  /\ Handling /\ ~saved
  /\ Head(todo).kind \in {"ether", "token"}
  /\ \/ /\ swaps' = IF IsUnique(Head(todo)) THEN Append(swaps, Head(todo)) ELSE swaps
        /\ UNCHANGED <<failuresLeft, failed>>
     \/ /\ failuresLeft > 0
        /\ failuresLeft' = failuresLeft - 1
        /\ failed' = failed \union {Head(todo)}
        /\ UNCHANGED swaps
  /\ saved' = TRUE
  /\ UNCHANGED <<chain, tracker, phase, listening, fromBlock, toBlock, todo, restartsLeft>>

Track ==
  /\ Handling /\ saved
  /\ tracker' = Head(todo).block
  /\ todo' = Tail(todo)
  /\ saved' = FALSE
  /\ UNCHANGED <<chain, swaps, phase, listening, fromBlock, toBlock, bounds>>

\* The process ends, wherever it is; the database is what is left.
Stop ==
  /\ phase # "down"
  /\ restartsLeft > 0
  /\ restartsLeft' = restartsLeft - 1
  /\ phase' = "down"
  /\ created' = [e \in Events |-> 0] /\ seen' = [e \in Events |-> 0]
  /\ fromBlock' = 0 /\ toBlock' = 0
  /\ pending' = <<>> /\ todo' = <<>> /\ saved' = FALSE
  /\ UNCHANGED <<chain, database, failuresLeft, failed>>

-----------------------------------------------------------------------------
Bridge ==
  \/ Start \/ RegisterToken
  \/ CatchUp \/ TokenPass \/ CaughtUp
  \/ PollSwap \/ PollToken \/ Confirm \/ Sleep
  \/ SkipGarbled \/ DieOnUnmapped \/ Save \/ Track

MineAny == \E log \in Logs : Mine(log)

Next == Bridge \/ MineAny \/ Stop

Spec == Init /\ [][Next]_vars

\* The threads run, and Ethereum goes on.
FairSpec == Spec /\ WF_vars(Bridge) /\ WF_vars(MineAny)

-----------------------------------------------------------------------------
(* Properties                                                              *)

\* Only a deposit with enough blocks on top becomes a swap, in the replay and
\* in the listener, whatever is mined meanwhile.
RecordedIsConfirmed ==
  [][\A d \in Range(swaps') \ Range(swaps) : d.block + Confirmations <= height]_vars

\* What _handle does not make a swap of: bytes that are no text, what
\* secretcli failed on, and the further deposits of a transaction.
Settled(d) ==
  \/ d.kind = "garbled"
  \/ d \in failed
  \/ \E e \in Range(swaps) : SameTransaction(d, e)

Listening == phase \in {"pollSwap", "pollToken", "confirm", "callbacks"}

\* The two passes of catch_up leave nothing of their range behind.
NothingSkipped ==
  Listening => \A d \in Deposits(fromBlock..toBlock) : Settled(d)

\* What a filter has answered waits until it has enough blocks on top, and is
\* then handled, wherever in the list it waits and whatever comes meanwhile.
NothingForgotten ==
  Listening =>
    \A e \in Events : \A d \in Deposits((created[e] + 1)..seen[e]) :
       EventOf(d.kind) = e => d \in Range(pending) \union Range(todo) \/ Settled(d)

Up == phase \notin {"down", "dead"}

\* What neither the replay nor the filters of this run of the process cover:
\* blocks the tracker has passed, and those between the last one that was
\* confirmed at the start and the creation of the filters.
Missed(d) ==
  \/ d.block < fromBlock
  \/ toBlock < d.block /\ d.block <= created[EventOf(d.kind)]

Deep == Deposits(1..(MaxHeight - Confirmations))

\* As long as the process is not stopped, every deposit that gets deep enough
\* is settled, except those that it missed on its start.
EventuallySettled ==
  <>[]Up => <>[](\A d \in Deep : Settled(d) \/ Missed(d))

\* The bridge transfers every deposit made since it was first started.
StartedAtGenesis == phase = "down" /\ restartsLeft = MaxRestarts => height = 0

EveryDepositRecorded ==
  []StartedAtGenesis /\ <>[]Up => <>[](\A d \in Deep : d \in Range(swaps))
=============================================================================
