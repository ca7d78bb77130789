----------------------------- MODULE EthToSecret -----------------------------
(***************************************************************************)
(* From a deposit on Ethereum to a mint on the Secret network.  The actors *)
(* share the collections Swap and Signatures of the database and nothing   *)
(* else, except that the leader's process also shares SecretManager.       *)
(*   - the event listener's thread inserts a swap (SecretManager._handle); *)
(*   - the SecretManager thread restarts the swaps to retry and marks      *)
(*     those with enough signatures;                                       *)
(*   - one Secret20Signer per operator validates and signs;                *)
(*   - the Secret20Leader thread broadcasts what is signed and validates   *)
(*     what was submitted;                                                 *)
(*   - the Secret network accepts, drops and executes transactions of the  *)
(*     multisig account, in the order of the account's sequence number.    *)
(*                                                                         *)
(* Every thread loops over query results: it works on a copy of documents  *)
(* which the others may change meanwhile.  A copy that is iterated is the  *)
(* variable ...Todo, its documents come in the order of their insertion,   *)
(* and a save writes only the fields that were assigned.                   *)
(***************************************************************************)
EXTENDS Integers, Sequences, FiniteSets, FiniteSetsExt

CONSTANTS
  NumSwaps,      \* swaps found on Ethereum, in that order
  Signers,       \* the operators' Secret20Signers
  Threshold,     \* config.signatures_threshold
  Unreliable,    \* signers whose Ethereum node or secretcli may fail
  Faults,        \* what else may go wrong, see FaultKinds
  MaxFaults,     \* bound: faults in one behaviour
  MaxSequence,   \* bound: transactions the chain executes
  MaxNumber      \* bound: SecretManager.sequence counts no further; see Successor

FaultKinds ==
  { "signer",    \* an unreliable signer fails to validate or to sign
    "cli",       \* the leader's secretcli fails, or prints what is no JSON
    "drop",      \* a broadcast transaction never gets into a block
    "mintFails", \* the swap contract refuses the mint (paused, out of gas)
    "late",      \* a transaction may land, or be found, only after the cooldown
    "database",  \* the leader cannot save that it has broadcast a transaction
    "dies",      \* an exception that its loop does not catch ends a thread
    "crash" }    \* a process is restarted

Swaps == 1..NumSwaps

ASSUME SwapsAssumption ==
  /\ NumSwaps \in Nat /\ MaxSequence \in Nat /\ MaxFaults \in Nat
  /\ MaxNumber \in Nat
ASSUME SignersAssumption ==
  /\ IsFiniteSet(Signers)
  /\ Threshold \in 1..Cardinality(Signers)
  /\ Unreliable \subseteq Signers
ASSUME FaultsAssumption == Faults \subseteq FaultKinds

VARIABLES
  \* the database
  status,        \* Swap.status, "none" before the insertion
  sequence,      \* Swap.sequence
  dstHash,       \* Swap.dst_tx_hash
  signatures,    \* the documents of Signatures, per swap
  \* the leader's process
  nextSequence,  \* SecretManager.sequence, written by three threads
  read,          \* what each of them has read of it and not yet used
  handlerPc, managerPc, managerTodo,
  leaderPc, leaderTodo, failedPrev,
  leaderHash,    \* what _broadcast returned
  leaderDoc,     \* the swap that _broadcast_validation may still report FAILED
  \* the signers
  signerTodo,    \* per signer, the sequence of each swap of its copy
  signerFailed,
  deadSigners,   \* those whose thread has ended
  \* external: the Secret network and the clock
  chainSequence, \* the sequence number of the multisig account
  mempool, landed,
  expired,       \* swaps submitted more than BROADCAST_VALIDATION_COOLDOWN ago
  faultsLeft     \* faults that may still happen

docVars     == <<status, sequence, dstHash, signatures>>
managerVars == <<managerPc, managerTodo>>
leaderVars  == <<leaderPc, leaderTodo, failedPrev, leaderHash, leaderDoc>>
signerVars  == <<signerTodo, signerFailed, deadSigners>>
numberVars  == <<nextSequence, read>>
chainVars   == <<chainSequence, mempool, landed>>
vars == <<docVars, numberVars, handlerPc, managerVars, leaderVars, signerVars,
          chainVars, expired, faultsLeft>>

Statuses == {"UNSIGNED", "SIGNED", "SUBMITTED", "CONFIRMED", "FAILED", "RETRY"}
Signature == [signer : Signers, sequence : Nat]
\* A transaction's hash covers the message, the sequence and the signatures.
Hash == [swap : Swaps, sequence : Nat, signers : SUBSET Signers]
NoHash == [swap |-> 0]
NoSwap == 0
\* The threads of the leader's process: of the event listener, of SecretManager
\* and of Secret20Leader.
Threads == {"handler", "manager", "leader"}

TypeOK ==
  /\ status \in [Swaps -> Statuses \union {"none"}]
  /\ sequence \in [Swaps -> Nat]
  /\ dstHash \in [Swaps -> Hash \union {NoHash}]
  /\ signatures \in [Swaps -> SUBSET Signature]
  /\ nextSequence \in Nat
  /\ read \in [Threads -> Nat]
  /\ handlerPc \in {"idle", "save", "bump", "write"}
  /\ managerPc \in {"retry", "restart", "save", "bump", "write", "unsigned", "dead"}
  /\ managerTodo \subseteq Swaps
  /\ leaderPc \in {"signed", "save", "submitted", "resync", "assign", "dead"}
  /\ leaderTodo \subseteq Swaps
  /\ failedPrev \in BOOLEAN
  /\ leaderHash \in Hash \union {NoHash}
  /\ leaderDoc \in Swaps \union {NoSwap}
  /\ signerTodo \in [Signers -> SUBSET (Swaps \X Nat)]
  /\ signerFailed \in [Signers -> BOOLEAN]
  /\ deadSigners \subseteq Signers
  /\ chainSequence \in Nat
  /\ mempool \in Seq(Hash)
  /\ landed \subseteq [hash : Hash, ok : BOOLEAN]
  /\ expired \subseteq Swaps
  /\ faultsLeft \in 0..MaxFaults

Init ==
  /\ status = [t \in Swaps |-> "none"]
  /\ sequence = [t \in Swaps |-> 0]
  /\ dstHash = [t \in Swaps |-> NoHash]
  /\ signatures = [t \in Swaps |-> {}]
  /\ nextSequence = 0 /\ read = [th \in Threads |-> 0]
  /\ handlerPc = "idle"
  /\ managerPc = "unsigned" /\ managerTodo = {}
  /\ leaderPc = "submitted" /\ leaderTodo = {} /\ failedPrev = FALSE
  /\ leaderHash = NoHash /\ leaderDoc = NoSwap
  /\ signerTodo = [s \in Signers |-> {}]
  /\ signerFailed = [s \in Signers |-> FALSE] /\ deadSigners = {}
  /\ chainSequence = 0 /\ mempool = << >> /\ landed = {}
  /\ expired = {}
  /\ faultsLeft = MaxFaults

WithStatus(st) == {t \in Swaps : status[t] = st}
First(todo) == CHOOSE t \in todo : \A u \in todo : t <= u
Fault(kind) == kind \in Faults /\ faultsLeft > 0 /\ faultsLeft' = faultsLeft - 1
NoFault == UNCHANGED faultsLeft
SetStatus(t, st) == status' = [status EXCEPT ![t] = st]

\* `self.sequence + 1` is read and written without sequence_lock: what the other
\* threads write in between is lost.
\* (A thread that has used its number is said to have read 0.)
Read(thread, number) == read' = [read EXCEPT ![thread] = number]
\* Two threads that keep overwriting each other's number can drive it up for ever.
\* Above MaxSequence every number is one that the chain does not come to.
Successor(number) == IF number < MaxNumber THEN number + 1 ELSE number
WriteNumber(thread, number) == nextSequence' = number /\ Read(thread, 0)

-----------------------------------------------------------------------------
(* SecretManager                                                           *)

\* _handle takes the next sequence number for a swap it has found, stores the
\* swap, and then advances the number.  SwapEvents models which events get here.
HandleRead ==
  /\ handlerPc = "idle" /\ WithStatus("none") # {}
  /\ Read("handler", nextSequence)
  /\ handlerPc' = "save"
  /\ UNCHANGED <<docVars, nextSequence, managerVars, leaderVars, signerVars, chainVars,
                 expired, faultsLeft>>

Handle(t) ==
  /\ handlerPc = "save"
  /\ status[t] = "none" /\ \A u \in 1..(t - 1) : status[u] # "none"
  /\ SetStatus(t, "UNSIGNED")
  /\ sequence' = [sequence EXCEPT ![t] = read["handler"]]
  /\ Read("handler", 0)
  /\ handlerPc' = "bump"
  /\ UNCHANGED <<dstHash, signatures, nextSequence, managerVars, leaderVars,
                 signerVars, chainVars, expired, faultsLeft>>

HandleBump ==
  /\ handlerPc = "bump" /\ Read("handler", nextSequence)
  /\ handlerPc' = "write"
  /\ UNCHANGED <<docVars, nextSequence, managerVars, leaderVars, signerVars, chainVars,
                 expired, faultsLeft>>

HandleWrite ==
  /\ handlerPc = "write" /\ WriteNumber("handler", Successor(read["handler"]))
  /\ handlerPc' = "idle"
  /\ UNCHANGED <<docVars, managerVars, leaderVars, signerVars, chainVars, expired, faultsLeft>>

Handler == (\E t \in Swaps : Handle(t)) \/ HandleBump \/ HandleWrite

\* Mutant: run has no loop over the swaps to retry.
ManagerNeverRetries ==
  /\ managerPc = "unsigned" /\ managerTodo = {}
  /\ managerPc' = "retry" /\ managerTodo' = {}
  /\ UNCHANGED <<docVars, numberVars, handlerPc, leaderVars, signerVars,
                 chainVars, expired, faultsLeft>>

\* The loop of run starts, or starts again after its sleep.
ManagerScanRetry ==
  /\ managerPc = "unsigned" /\ managerTodo = {}
  /\ managerPc' = "retry" /\ managerTodo' = WithStatus("RETRY")
  /\ UNCHANGED <<docVars, numberVars, handlerPc, leaderVars, signerVars,
                 chainVars, expired, faultsLeft>>

\* _retry: the signatures are deleted,
RetryDelete ==
  /\ managerPc = "retry" /\ managerTodo # {}
  /\ signatures' = [signatures EXCEPT ![First(managerTodo)] = {}]
  /\ managerPc' = "restart"
  /\ UNCHANGED <<status, sequence, dstHash, numberVars, handlerPc, managerTodo,
                 leaderVars, signerVars, chainVars, expired, faultsLeft>>

\* the swap starts again with another sequence number, which is read
RetryRead ==
  /\ managerPc = "restart" /\ Read("manager", nextSequence)
  /\ managerPc' = "save"
  /\ UNCHANGED <<docVars, nextSequence, handlerPc, managerTodo, leaderVars, signerVars,
                 chainVars, expired, faultsLeft>>

\* and saved with the new status,
RetryRestart ==
  /\ managerPc = "save"
  /\ SetStatus(First(managerTodo), "UNSIGNED")
  /\ sequence' = [sequence EXCEPT ![First(managerTodo)] = read["manager"]]
  /\ Read("manager", 0)
  /\ managerPc' = "bump"
  /\ UNCHANGED <<dstHash, signatures, nextSequence, handlerPc, managerTodo,
                 leaderVars, signerVars, chainVars, expired, faultsLeft>>

\* and the number advances.
RetryBump ==
  /\ managerPc = "bump" /\ Read("manager", nextSequence)
  /\ managerPc' = "write"
  /\ UNCHANGED <<docVars, nextSequence, handlerPc, managerTodo, leaderVars, signerVars,
                 chainVars, expired, faultsLeft>>

RetryWrite ==
  /\ managerPc = "write" /\ WriteNumber("manager", Successor(read["manager"]))
  /\ managerPc' = "retry" /\ managerTodo' = managerTodo \ {First(managerTodo)}
  /\ UNCHANGED <<docVars, handlerPc, leaderVars, signerVars, chainVars, expired, faultsLeft>>

ManagerScanUnsigned ==
  /\ managerPc = "retry" /\ managerTodo = {}
  /\ managerPc' = "unsigned" /\ managerTodo' = WithStatus("UNSIGNED")
  /\ UNCHANGED <<docVars, numberVars, handlerPc, leaderVars, signerVars,
                 chainVars, expired, faultsLeft>>

\* Mutant: one signature less than the threshold is enough.
MarkSignedEarly ==
  /\ managerPc = "unsigned" /\ managerTodo # {}
  /\ LET t == First(managerTodo)
     IN  /\ IF Cardinality(signatures[t]) >= Threshold - 1
              THEN SetStatus(t, "SIGNED") ELSE UNCHANGED status
         /\ managerTodo' = managerTodo \ {t}
  /\ UNCHANGED <<sequence, dstHash, signatures, numberVars, handlerPc, managerPc,
                 leaderVars, signerVars, chainVars, expired, faultsLeft>>

MarkSigned ==
  /\ managerPc = "unsigned" /\ managerTodo # {}
  /\ LET t == First(managerTodo)
     IN  /\ IF Cardinality(signatures[t]) >= Threshold
              THEN SetStatus(t, "SIGNED") ELSE UNCHANGED status
         /\ managerTodo' = managerTodo \ {t}
  /\ UNCHANGED <<sequence, dstHash, signatures, numberVars, handlerPc, managerPc,
                 leaderVars, signerVars, chainVars, expired, faultsLeft>>

Manager ==
  \/ ManagerScanRetry \/ RetryDelete \/ RetryRead \/ RetryRestart \/ RetryBump
  \/ RetryWrite \/ ManagerScanUnsigned \/ MarkSigned

\* run catches nothing: a failing database ends the thread.
ManagerDies ==
  /\ managerPc # "dead" /\ Fault("dies")
  /\ managerPc' = "dead" /\ managerTodo' = {} /\ Read("manager", 0)
  /\ UNCHANGED <<docVars, nextSequence, handlerPc, leaderVars, signerVars, chainVars,
                 expired>>

-----------------------------------------------------------------------------
(* Secret20Signer                                                          *)

SignerScan(s) ==
  /\ s \notin deadSigners /\ signerTodo[s] = {}
  /\ signerTodo' = [signerTodo EXCEPT ![s] =
                      {<<t, sequence[t]>> : t \in WithStatus("UNSIGNED")}]
  /\ UNCHANGED <<signerFailed, deadSigners, docVars, numberVars, handlerPc, managerVars, leaderVars,
                 chainVars, expired, faultsLeft>>

FirstDoc(todo) == CHOOSE d \in todo : \A e \in todo : d[1] <= e[1]

\* What every way to go on to the next document has in common; the flag
\* `failed` is reset for the next copy.
SignerDone(s, failed) ==
  /\ signerTodo[s] # {}
  /\ signerTodo' = [signerTodo EXCEPT ![s] = @ \ {FirstDoc(@)}]
  /\ signerFailed' = [signerFailed EXCEPT ![s] = failed /\ signerTodo'[s] # {}]
  /\ UNCHANGED <<deadSigners, sequence, dstHash, numberVars, handlerPc, managerVars,
                 leaderVars, chainVars, expired>>

IsSigned(s, t) == \E g \in signatures[t] : g.signer = s

\* Mutant: the signer does not look whether it has signed already.
SignAgain(s) ==
  /\ SignerDone(s, FALSE)
  /\ ~signerFailed[s]
  /\ LET d == FirstDoc(signerTodo[s])
     IN  signatures' = [signatures EXCEPT ![d[1]] =
                          @ \union {[signer |-> s, sequence |-> d[2]]}]
  /\ UNCHANGED <<status, faultsLeft>>

Sign(s) ==
  /\ SignerDone(s, FALSE)
  /\ ~signerFailed[s]
  /\ LET d == FirstDoc(signerTodo[s])
     IN  /\ ~IsSigned(s, d[1])
         /\ signatures' = [signatures EXCEPT ![d[1]] =
                             @ \union {[signer |-> s, sequence |-> d[2]]}]
  /\ UNCHANGED <<status, faultsLeft>>

\* The swap is signed already; or an earlier one of the copy failed, and the
\* status SWAP_RETRY is assigned to the document but never saved.
SignerSkip(s) ==
  /\ SignerDone(s, signerFailed[s])
  /\ signerFailed[s] \/ IsSigned(s, FirstDoc(signerTodo[s])[1])
  /\ UNCHANGED <<status, signatures, faultsLeft>>

\* Mutant: a signer that fails marks the swap for another attempt.
SignerFailsToRetry(s) ==
  /\ SignerDone(s, TRUE)
  /\ s \in Unreliable /\ ~signerFailed[s] /\ Fault("signer")
  /\ LET t == FirstDoc(signerTodo[s])[1]
     IN ~IsSigned(s, t) /\ SetStatus(t, "RETRY")
  /\ UNCHANGED signatures

\* What is on chain does not match the swap, or secretcli does not sign: FAILED is
\* saved, whatever the status is by now.
SignerFails(s) ==
  /\ SignerDone(s, TRUE)
  /\ s \in Unreliable /\ ~signerFailed[s] /\ Fault("signer")
  /\ LET t == FirstDoc(signerTodo[s])[1]
     IN ~IsSigned(s, t) /\ SetStatus(t, "FAILED")
  /\ UNCHANGED signatures

\* The signature cannot be saved (OperationError): no status is written.
SignerCannotSave(s) ==
  /\ SignerDone(s, TRUE)
  /\ s \in Unreliable /\ ~signerFailed[s] /\ Fault("signer")
  /\ ~IsSigned(s, FirstDoc(signerTodo[s])[1])
  /\ UNCHANGED <<status, signatures>>

Signer(s) ==
  SignerScan(s) \/ Sign(s) \/ SignerSkip(s) \/ SignerFails(s) \/ SignerCannotSave(s)

\* run catches only ValueError: the RuntimeError of decrypt, an error of the
\* Ethereum node or of the database ends the thread, and writes no status.
SignerDies(s) ==
  /\ s \notin deadSigners /\ Fault("dies")
  /\ deadSigners' = deadSigners \union {s}
  /\ signerTodo' = [signerTodo EXCEPT ![s] = {}]
  /\ signerFailed' = [signerFailed EXCEPT ![s] = FALSE]
  /\ UNCHANGED <<docVars, numberVars, handlerPc, managerVars, leaderVars, chainVars, expired>>

-----------------------------------------------------------------------------
(* Secret20Leader                                                          *)

\* The loop of _scan_swap starts, or starts again after its sleep.
LeaderScanSigned ==
  /\ leaderPc = "submitted" /\ leaderTodo = {}
  /\ leaderPc' = "signed" /\ leaderTodo' = WithStatus("SIGNED")
  /\ failedPrev' = FALSE
  /\ UNCHANGED <<docVars, numberVars, handlerPc, managerVars, leaderHash, leaderDoc,
                 signerVars, chainVars, expired, faultsLeft>>

\* After a failure the rest of the copy is to be retried (_set_retry).
LeaderSetRetry ==
  /\ leaderPc \in {"signed", "submitted"} /\ leaderTodo # {} /\ failedPrev
  /\ SetStatus(First(leaderTodo), "RETRY")
  /\ leaderTodo' = leaderTodo \ {First(leaderTodo)}
  /\ expired' = expired \ {First(leaderTodo)}
  /\ UNCHANGED <<sequence, dstHash, signatures, numberVars, handlerPc, managerVars,
                 leaderPc, failedPrev, leaderHash, leaderDoc, signerVars, chainVars,
                 faultsLeft>>

\* secretcli multisign refuses a signature of another sequence number.
CanCombine(t) ==
  /\ Cardinality(signatures[t]) >= Threshold
  /\ \A g \in signatures[t] : g.sequence = sequence[t]

HashOf(t) == [swap |-> t, sequence |-> sequence[t],
              signers |-> {g.signer : g \in signatures[t]}]

\* _create_and_broadcast.  The broadcast is asynchronous: it succeeds even when
\* the node then rejects the transaction for its sequence number.
LeaderBroadcast ==
  /\ leaderPc = "signed" /\ leaderTodo # {} /\ ~failedPrev
  /\ LET t == First(leaderTodo)
     IN  /\ CanCombine(t)
         /\ leaderHash' = HashOf(t)
         /\ mempool' = IF sequence[t] = chainSequence + Len(mempool)
                         THEN Append(mempool, HashOf(t)) ELSE mempool
  /\ leaderPc' = "save"
  /\ UNCHANGED <<docVars, numberVars, handlerPc, managerVars, leaderTodo, failedPrev,
                 leaderDoc, signerVars, chainSequence, landed, expired, faultsLeft>>

\* What is written when the broadcast was successful, or the exception handler of
\* _create_and_broadcast (whose save includes the hash) when it could not be saved.
SaveBroadcast(st) ==
  /\ leaderPc = "save"
  /\ LET t == First(leaderTodo)
     IN  /\ SetStatus(t, st)
         /\ dstHash' = [dstHash EXCEPT ![t] = leaderHash] /\ leaderHash' = NoHash
         /\ leaderTodo' = leaderTodo \ {t}
  /\ leaderPc' = "signed"
  /\ UNCHANGED <<sequence, signatures, numberVars, handlerPc, managerVars, leaderDoc,
                 signerVars, chainVars, expired>>

LeaderSaveSubmitted == SaveBroadcast("SUBMITTED") /\ NoFault /\ UNCHANGED failedPrev

\* The transaction may be in the mempool, and land, all the same.
LeaderCannotSave == SaveBroadcast("FAILED") /\ Fault("database") /\ failedPrev' = TRUE

LeaderBroadcastFails ==
  /\ leaderPc = "signed" /\ leaderTodo # {} /\ ~failedPrev
  /\ LET t == First(leaderTodo)
     IN  /\ (~CanCombine(t) /\ NoFault) \/ Fault("cli")
         /\ IF Cardinality(signatures[t]) < Threshold
              THEN UNCHANGED status ELSE SetStatus(t, "FAILED")
         /\ leaderTodo' = leaderTodo \ {t}
  /\ failedPrev' = TRUE
  /\ UNCHANGED <<sequence, dstHash, signatures, numberVars, handlerPc, managerVars,
                 leaderPc, leaderHash, leaderDoc, signerVars, chainVars, expired>>

LeaderScanSubmitted ==
  /\ leaderPc = "signed" /\ leaderTodo = {}
  /\ leaderPc' = "submitted" /\ leaderTodo' = WithStatus("SUBMITTED")
  /\ failedPrev' = FALSE
  /\ UNCHANGED <<docVars, numberVars, handlerPc, managerVars, leaderHash, leaderDoc,
                 signerVars, chainVars, expired, faultsLeft>>

Result(hash, ok) == [hash |-> hash, ok |-> ok] \in landed
IsPending(hash) == \E i \in 1..Len(mempool) : mempool[i] = hash
OnChain(hash) == Result(hash, TRUE) \/ Result(hash, FALSE)

\* _broadcast_validation: the next swap of the copy of the submitted ones.
Validating(t) ==
  /\ leaderPc = "submitted" /\ ~failedPrev
  /\ leaderTodo # {} /\ t = First(leaderTodo)
  /\ leaderTodo' = leaderTodo \ {t}
  /\ UNCHANGED <<sequence, dstHash, signatures, numberVars, handlerPc, managerVars,
                 leaderHash, signerVars, chainVars>>

\* Mutant: a transaction that is on chain is taken for a success.
ConfirmAnyResult(t) ==
  /\ Validating(t)
  /\ OnChain(dstHash[t]) /\ NoFault
  /\ SetStatus(t, "CONFIRMED") /\ expired' = expired \ {t}
  /\ UNCHANGED <<leaderPc, failedPrev, leaderDoc>>

Confirm(t) ==
  /\ Validating(t)
  /\ Result(dstHash[t], TRUE) /\ NoFault
  /\ SetStatus(t, "CONFIRMED") /\ expired' = expired \ {t}
  /\ UNCHANGED <<leaderPc, failedPrev, leaderDoc>>

\* query_data_success returns nothing: not on chain, or the query fails.
NotFound(t) == IF OnChain(dstHash[t]) THEN Fault("late") ELSE NoFault

KeepWaiting(t) ==
  /\ Validating(t)
  /\ NotFound(t)
  /\ t \notin expired
  /\ UNCHANGED <<status, leaderPc, failedPrev, leaderDoc, expired>>

\* The swap is to be retried, and update_sequence is called inside the try block.
TimeOut(t) ==
  /\ Validating(t)
  /\ NotFound(t)
  /\ t \in expired
  /\ SetStatus(t, "RETRY") /\ expired' = expired \ {t}
  /\ leaderPc' = "resync" /\ failedPrev' = TRUE /\ leaderDoc' = t

\* The mint failed, or the answer is no JSON; update_sequence is called in the
\* handler of the exception.
MintFailed(t) ==
  /\ Validating(t)
  /\ (Result(dstHash[t], FALSE) /\ NoFault) \/ Fault("cli")
  /\ SetStatus(t, "FAILED") /\ expired' = expired \ {t}
  /\ leaderPc' = "resync" /\ failedPrev' = TRUE /\ UNCHANGED leaderDoc

\* Mutant: the number of the account's last transaction, not of its next.
ResyncToLast ==
  /\ leaderPc = "resync" /\ Read("leader", chainSequence - 1)
  /\ leaderPc' = "assign" /\ leaderDoc' = NoSwap
  /\ UNCHANGED <<docVars, nextSequence, handlerPc, managerVars, leaderTodo, failedPrev,
                 leaderHash, signerVars, chainVars, expired, faultsLeft>>

\* update_sequence, after the status was written: the account is queried,
Resync ==
  /\ leaderPc = "resync" /\ Read("leader", chainSequence)
  /\ leaderPc' = "assign" /\ leaderDoc' = NoSwap
  /\ UNCHANGED <<docVars, nextSequence, handlerPc, managerVars, leaderTodo, failedPrev,
                 leaderHash, signerVars, chainVars, expired, faultsLeft>>

\* and what was found is assigned.
ResyncAssign ==
  /\ leaderPc = "assign" /\ WriteNumber("leader", read["leader"])
  /\ leaderPc' = "submitted"
  /\ UNCHANGED <<docVars, handlerPc, managerVars, leaderTodo, failedPrev, leaderHash,
                 leaderDoc, signerVars, chainVars, expired, faultsLeft>>

\* In the try block an answer that is no JSON is taken for a failed mint: FAILED is
\* saved, whatever the manager has done meanwhile, and the account queried again.
ResyncMisread ==
  /\ leaderPc = "resync" /\ leaderDoc # NoSwap /\ Fault("cli")
  /\ SetStatus(leaderDoc, "FAILED") /\ expired' = expired \ {leaderDoc}
  /\ leaderDoc' = NoSwap
  /\ UNCHANGED <<sequence, dstHash, signatures, numberVars, handlerPc, managerVars,
                 leaderPc, leaderTodo, failedPrev, leaderHash, signerVars, chainVars>>

Leader ==
  \/ LeaderScanSigned \/ LeaderSetRetry \/ LeaderBroadcast \/ LeaderSaveSubmitted
  \/ LeaderCannotSave \/ LeaderBroadcastFails \/ LeaderScanSubmitted
  \/ \E t \in Swaps : Confirm(t) \/ KeepWaiting(t) \/ TimeOut(t) \/ MintFailed(t)
  \/ Resync \/ ResyncAssign \/ ResyncMisread

\* The RuntimeError of update_sequence, what secretcli prints that is no JSON, and
\* a failing database are not caught, also between the broadcast and the save.
LeaderDies ==
  /\ leaderPc # "dead" /\ Fault("dies")
  /\ leaderPc' = "dead" /\ leaderTodo' = {} /\ failedPrev' = FALSE
  /\ leaderHash' = NoHash /\ leaderDoc' = NoSwap /\ Read("leader", 0)
  /\ UNCHANGED <<docVars, nextSequence, handlerPc, managerVars, signerVars, chainVars,
                 expired>>

-----------------------------------------------------------------------------
(* The Secret network, the clock, restarts                                 *)

\* The transaction at the head of the mempool carries the account's sequence
\* number, which it uses up whether or not its message succeeds.
Land(ok) ==
  /\ mempool # << >> /\ chainSequence < MaxSequence
  /\ IF ok THEN NoFault ELSE Fault("mintFails")
  /\ landed' = landed \union {[hash |-> Head(mempool), ok |-> ok]}
  /\ mempool' = Tail(mempool)
  /\ chainSequence' = chainSequence + 1
  /\ UNCHANGED <<docVars, numberVars, handlerPc, managerVars, leaderVars, signerVars,
                 expired>>

\* Without one transaction, those with higher sequence numbers are rejected too.
Drop ==
  /\ Fault("drop") /\ mempool # << >>
  /\ \E n \in 0..(Len(mempool) - 1) : mempool' = SubSeq(mempool, 1, n)
  /\ UNCHANGED <<docVars, numberVars, handlerPc, managerVars, leaderVars, signerVars,
                 chainSequence, landed, expired>>

\* Time passes.  (When the chain has reached its bound nothing lands any more.)
CooldownExpires(t) ==
  /\ status[t] = "SUBMITTED" /\ t \notin expired
  /\ IF IsPending(dstHash[t]) /\ chainSequence < MaxSequence
       THEN Fault("late") ELSE NoFault
  /\ expired' = expired \union {t}
  /\ UNCHANGED <<docVars, numberVars, handlerPc, managerVars, leaderVars, signerVars,
                 chainVars>>

\* A process is restarted, or started again because a thread of it has ended.
Restarts(someDead) == Fault("crash") \/ ("crash" \in Faults /\ someDead /\ NoFault)

\* A new SecretManager reads the sequence number from the chain.
CrashLeader ==
  /\ Restarts("dead" \in {managerPc, leaderPc})
  /\ nextSequence' = chainSequence /\ read' = [th \in Threads |-> 0]
  /\ handlerPc' = "idle"
  /\ managerPc' = "unsigned" /\ managerTodo' = {}
  /\ leaderPc' = "submitted" /\ leaderTodo' = {} /\ failedPrev' = FALSE
  /\ leaderHash' = NoHash /\ leaderDoc' = NoSwap
  /\ UNCHANGED <<docVars, signerVars, chainVars, expired>>

\* A signer's process starts with a new copy.
CrashSigner(s) ==
  /\ Restarts(s \in deadSigners)
  /\ deadSigners' = deadSigners \ {s}
  /\ signerTodo' = [signerTodo EXCEPT ![s] = {}]
  /\ signerFailed' = [signerFailed EXCEPT ![s] = FALSE]
  /\ UNCHANGED <<docVars, numberVars, handlerPc, managerVars, leaderVars,
                 chainVars, expired>>

Next ==
  \/ HandleRead \/ Handler
  \/ Manager \/ ManagerDies
  \/ \E s \in Signers : Signer(s) \/ SignerDies(s)
  \/ Leader \/ LeaderDies
  \/ \E ok \in BOOLEAN : Land(ok)
  \/ Drop
  \/ \E t \in Swaps : CooldownExpires(t)
  \/ CrashLeader
  \/ \E s \in Signers : CrashSigner(s)

Spec == Init /\ [][Next]_vars

\* A thread that has not ended keeps running, the chain makes blocks, and time
\* passes.  Nothing makes an operator restart a process.
Fairness ==
  /\ WF_vars(Handler)
  /\ WF_vars(Manager)
  /\ WF_vars(Leader)
  /\ \A s \in Signers : WF_vars(Signer(s))
  /\ WF_vars(\E ok \in BOOLEAN : Land(ok))
  /\ \A t \in Swaps : WF_vars(CooldownExpires(t))

FairSpec == Spec /\ Fairness

-----------------------------------------------------------------------------
(* Properties                                                              *)

IsMinted(t) == \E l \in landed : l.ok /\ l.hash.swap = t

\* From the moment the manager counted enough signatures until the swap is
\* confirmed, the signatures of Threshold distinct signers are in the database,
\* although signatures are deleted for a retry, three threads write the status
\* and each works on old copies: the sanity check of _create_and_broadcast
\* never fires.
SignedHasQuorum ==
  \A t \in WithStatus("SIGNED") \union WithStatus("SUBMITTED") \union WithStatus("CONFIRMED") :
     Cardinality({g.signer : g \in signatures[t]}) >= Threshold

\* No signer has two signatures on one swap, even when signatures are deleted
\* while it works on an old copy: so the manager's count of documents is a
\* count of signers.
OneSignaturePerSigner ==
  \A t \in Swaps : \A g, h \in signatures[t] : g.signer = h.signer => g = h

\* The statuses of a swap as the stages of a transfer from Ethereum, and the
\* deposits found there as what was requested.
Stage(st) ==
  CASE st = "none" -> "unknown" [] st = "CONFIRMED" -> "confirmed"
    [] st = "FAILED" -> "failed" [] OTHER -> "open"

DepositTransfer == INSTANCE Transfer
  WITH Transfers <- Swaps, requested <- Swaps, done <- {t \in Swaps : IsMinted(t)},
       stage <- [t \in Swaps |-> Stage(status[t])]

\* The threads, their old copies and every fault together implement Transfer: a
\* swap the database has not seen is never reported, one is CONFIRMED only if one
\* of its attempts was executed on the Secret network, and whatever an old copy
\* holds, no thread takes up a confirmed swap again before it is FAILED.
ImplementsTransfer == DepositTransfer!Spec

\* A confirmed swap is never signed, submitted or retried again by any thread.
\* (A signer that is still busy with an old copy may save FAILED over it.)
ConfirmedIsFinal ==
  \A t \in Swaps :
     [](status[t] = "CONFIRMED" => [](status[t] \in {"CONFIRMED", "FAILED"}))

\* The bridge can work: the leader's threads and enough signers have not ended.
Running ==
  /\ "dead" \notin {managerPc, leaderPc}
  /\ Cardinality(Signers \ deadSigners) >= Threshold

\* No swap waits forever in a status from which the bridge is to move it on,
\* unless an exception has ended a thread it needs: not when two threads have
\* written over each other's sequence number, so that two swaps have the same one
\* or one is skipped, nor when its transaction is then rejected for it.
NoneStuck ==
  \A t \in Swaps : \A st \in {"UNSIGNED", "SIGNED", "SUBMITTED", "RETRY"} :
     []<>(status[t] # st \/ ~Running)

\* A deposit is minted at most once: leader.py retries only what "isn't
\* on-chain", and Mint::store was to refuse a second mint.
MintedOnce ==
  \A t \in Swaps : Cardinality({l \in landed : l.ok /\ l.hash.swap = t}) <= 1

=============================================================================
