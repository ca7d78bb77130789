--------------------------- MODULE EthToSecretProofs ---------------------------
(***************************************************************************)
(* Safety of EthToSecret for any number of swaps and signers, any          *)
(* threshold, any faults and any bounds.  The inductive invariant IInv     *)
(* says what a copy of documents that a thread iterates is still good for: *)
(* of the swaps in the manager's copy and in the leader's, the status is   *)
(* what it was when they were read, or FAILED (which a signer with an old  *)
(* copy may save over anything); the two copies are disjoint; and the      *)
(* swaps of the leader's copy keep their quorum of signatures.             *)
(***************************************************************************)
EXTENDS EthToSecret, OrderLemmas, SequenceTheorems

SignersOf(t) == {g.signer : g \in signatures[t]}
HasQuorum(t) == Cardinality(SignersOf(t)) >= Threshold

\* What the manager works on is where the manager has to move it on from.
ManagerCopy ==
  \A t \in managerTodo :
     status[t] \in
       IF managerPc = "unsigned" \/ (managerPc \in {"bump", "write"} /\ t = First(managerTodo))
         THEN {"UNSIGNED", "FAILED"} ELSE {"RETRY", "FAILED"}

\* So is what the leader works on, and it was signed by enough.
LeaderCopy ==
  \A t \in leaderTodo :
     /\ status[t] \in {"FAILED", IF leaderPc \in {"signed", "save"} THEN "SIGNED"
                                                                    ELSE "SUBMITTED"}
     /\ HasQuorum(t)

CopiesDisjoint == managerTodo \cap leaderTodo = {}

\* Between two statements of one loop iteration the copy is not empty.
Busy ==
  /\ managerPc \in {"restart", "save", "bump", "write"} => managerTodo # {}
  /\ leaderPc = "save" => leaderTodo # {}

\* A swap's hash is that of a transaction for that swap.
HashesMatch ==
  /\ \A t \in Swaps : dstHash[t] # NoHash => dstHash[t].swap = t
  /\ leaderPc = "save" => leaderHash.swap = First(leaderTodo)

CopyInv == ManagerCopy /\ LeaderCopy /\ CopiesDisjoint /\ Busy

CoreInv == SignedHasQuorum /\ CopyInv

IInv == TypeOK /\ OneSignaturePerSigner /\ CoreInv /\ HashesMatch

-----------------------------------------------------------------------------
(* Operators                                                               *)

LEMMA FirstIsMember ==
  ASSUME NEW todo \in SUBSET Swaps, todo # {}
  PROVE  First(todo) \in todo
<1>1. todo \in SUBSET Nat
  BY SwapsAssumption DEF Swaps
<1>2. \E t \in todo : \A u \in todo : t <= u
  BY <1>1, LeastNatural
<1>3. QED BY <1>2 DEF First

LEMMA FirstDocIsMember ==
  ASSUME NEW todo \in SUBSET (Swaps \X Nat), todo # {}
  PROVE  FirstDoc(todo) \in todo
<1>1. Swaps \in SUBSET Nat
  BY SwapsAssumption DEF Swaps
<1>2. \E d \in todo : \A e \in todo : d[1] <= e[1]
  BY <1>1, LeastPair
<1>3. QED BY <1>2 DEF FirstDoc

\* The hash of a swap's transaction, which has the signers of its signatures.
LEMMA HashOfType ==
  ASSUME TypeOK, NEW t \in Swaps
  PROVE  HashOf(t) \in Hash /\ HashOf(t).swap = t
BY DEF TypeOK, HashOf, Hash, Signature

\* The hash of nothing is not one.
LEMMA NoHashIsNone == NoHash \notin Hash
<1>1. 0 \notin Swaps
  BY SwapsAssumption DEF Swaps
<1>2. QED BY <1>1 DEF NoHash, Hash

\* More signers are a quorum if fewer are.
LEMMA QuorumGrows ==
  ASSUME NEW A, NEW B \in SUBSET Signers, A \subseteq B, Cardinality(A) >= Threshold
  PROVE  Cardinality(B) >= Threshold
<1>1. IsFiniteSet(B) /\ Cardinality(B) \in Nat
  BY SignersAssumption, FS_Subset, FS_CardinalityType
<1>2. Cardinality(A) <= Cardinality(B) /\ Cardinality(A) \in Nat
  BY <1>1, FS_Subset, FS_CardinalityType
<1>3. Threshold \in Nat
  BY SignersAssumption
<1>4. QED BY <1>1, <1>2, <1>3

\* As many documents as the threshold asks for are a quorum of signers, because
\* no signer has two of them.
LEMMA DocumentsAreSigners ==
  ASSUME TypeOK, OneSignaturePerSigner, NEW t \in Swaps,
         Cardinality(signatures[t]) >= Threshold
  PROVE  HasQuorum(t)
<1> DEFINE D == signatures[t]
           f == [g \in D |-> g.signer]
<1>1. SignersOf(t) \in SUBSET Signers
  BY DEF TypeOK, SignersOf, Signature
<1>2. IsFiniteSet(SignersOf(t)) /\ Cardinality(SignersOf(t)) \in Nat
  BY <1>1, SignersAssumption, FS_Subset, FS_CardinalityType
<1>3. f \in Injection(D, SignersOf(t))
  BY DEF OneSignaturePerSigner, SignersOf, Injection, IsInjective
<1>4. f \in Surjection(D, SignersOf(t))
  BY DEF SignersOf, Surjection
<1>5. IsFiniteSet(D) /\ Cardinality(D) = Cardinality(SignersOf(t))
  BY <1>2, <1>3, <1>4, FS_Injection
<1>6. QED BY <1>5 DEF HasQuorum

-----------------------------------------------------------------------------
(* Types                                                                   *)

\* What may go wrong is counted.
LEMMA FaultsCounted ==
  ASSUME TypeOK, NEW kind, Fault(kind) \/ NoFault
  PROVE  faultsLeft' \in 0..MaxFaults
BY SwapsAssumption DEF TypeOK, Fault, NoFault

LEMMA TypeInit == Init => TypeOK
<1> SUFFICES ASSUME Init PROVE TypeOK
  OBVIOUS
<1>1. mempool \in Seq(Hash) /\ faultsLeft \in 0..MaxFaults
  BY SwapsAssumption, EmptySeq DEF Init
<1>2. /\ sequence \in [Swaps -> Nat] /\ signatures \in [Swaps -> SUBSET Signature]
      /\ signerTodo \in [Signers -> SUBSET (Swaps \X Nat)]
  BY DEF Init
<1>3. QED BY <1>1, <1>2 DEF Init, TypeOK, Statuses

LEMMA TypeManager ==
  TypeOK /\ ([Manager]_vars \/ ManagerDies \/ HandleRead \/ Handler) => TypeOK'
<1> SUFFICES ASSUME TypeOK, [Manager]_vars \/ ManagerDies \/ HandleRead \/ Handler
             PROVE  TypeOK'
  OBVIOUS
<1> USE SwapsAssumption
    DEF TypeOK, Statuses, docVars, numberVars, managerVars, leaderVars, signerVars,
        chainVars, WithStatus, SetStatus, Read, WriteNumber, Threads
<1>1. managerTodo # {} => First(managerTodo) \in managerTodo
  BY FirstIsMember
<1>2. ASSUME NEW t \in Swaps, Handle(t) PROVE TypeOK'
  BY <1>2 DEF Handle
<1>3. CASE HandleRead \/ HandleBump
  BY <1>3 DEF HandleRead, HandleBump
<1>12. \A n \in Nat : Successor(n) \in Nat
  BY DEF Successor
<1>13. CASE HandleWrite
  BY <1>12, <1>13 DEF HandleWrite
<1>14. CASE RetryRead
  BY <1>14 DEF RetryRead
<1>15. CASE RetryWrite
  BY <1>12, <1>15 DEF RetryWrite
<1>16. CASE ManagerDies
  BY <1>16 DEF ManagerDies, Fault
<1>4. CASE ManagerScanRetry
  BY <1>4 DEF ManagerScanRetry
<1>5. CASE RetryDelete
  BY <1>5 DEF RetryDelete
<1>6. CASE RetryRestart
  BY <1>6, <1>1 DEF RetryRestart
<1>7. CASE RetryBump
  BY <1>7 DEF RetryBump
<1>8. CASE ManagerScanUnsigned
  BY <1>8 DEF ManagerScanUnsigned
<1>9. CASE MarkSigned
  BY <1>9, <1>1 DEF MarkSigned
<1>10. CASE UNCHANGED vars
  BY <1>10 DEF vars
<1>11. QED
  BY <1>2, <1>3, <1>4, <1>5, <1>6, <1>7, <1>8, <1>9, <1>10, <1>13, <1>14, <1>15, <1>16
  DEF Manager, Handler

LEMMA TypeSigner ==
  ASSUME TypeOK, NEW s \in Signers, Signer(s) \/ SignerDies(s) \/ CrashSigner(s)
  PROVE  TypeOK'
<1> USE DEF TypeOK, Statuses, docVars, numberVars, managerVars, leaderVars, signerVars,
            chainVars, WithStatus, SetStatus, Fault
<1>1. CASE SignerScan(s)
  BY <1>1 DEF SignerScan
<1>2. CASE CrashSigner(s) \/ SignerDies(s)
  <2>1. faultsLeft' \in 0..MaxFaults
    BY <1>2, FaultsCounted DEF CrashSigner, SignerDies, Restarts
  <2>2. QED BY <1>2, <2>1 DEF CrashSigner, SignerDies
<1>3. CASE Sign(s) \/ SignerSkip(s) \/ SignerFails(s) \/ SignerCannotSave(s)
  <2> DEFINE d == FirstDoc(signerTodo[s])
  <2>1. signerTodo[s] # {} /\ signerTodo[s] \in SUBSET (Swaps \X Nat)
    BY <1>3 DEF Sign, SignerSkip, SignerFails, SignerCannotSave, SignerDone
  <2>2. d[1] \in Swaps /\ d[2] \in Nat
    BY <2>1, FirstDocIsMember
  <2>3. /\ signerTodo' \in [Signers -> SUBSET (Swaps \X Nat)]
        /\ signerFailed' \in [Signers -> BOOLEAN]
    <3>1. PICK failed \in {FALSE, TRUE, signerFailed[s]} : SignerDone(s, failed)
      BY <1>3 DEF Sign, SignerSkip, SignerFails, SignerCannotSave
    <3>2. failed \in BOOLEAN
      OBVIOUS
    <3>3. QED BY <3>1, <3>2 DEF SignerDone
  <2>4. CASE Sign(s)
    BY <2>2, <2>3, <2>4 DEF Sign, SignerDone, Signature
  <2>5. CASE SignerSkip(s)
    BY <2>3, <2>5 DEF SignerSkip, SignerDone
  <2>6. CASE SignerFails(s)
    BY <2>2, <2>3, <2>6, SwapsAssumption DEF SignerFails, SignerDone
  <2>7. CASE SignerCannotSave(s)
    BY <2>3, <2>7, SwapsAssumption DEF SignerCannotSave, SignerDone
  <2>8. QED BY <1>3, <2>4, <2>5, <2>6, <2>7
<1>4. QED BY <1>1, <1>2, <1>3 DEF Signer

LEMMA TypeLeader == TypeOK /\ (Leader \/ LeaderDies \/ CrashLeader) => TypeOK'
<1> SUFFICES ASSUME TypeOK, Leader \/ LeaderDies \/ CrashLeader PROVE TypeOK'
  OBVIOUS
<1> USE SwapsAssumption
    DEF TypeOK, Statuses, docVars, numberVars, managerVars, leaderVars, signerVars,
        chainVars, WithStatus, SetStatus, Read, WriteNumber, Threads
<1> DEFINE f == First(leaderTodo)
<1>1. leaderTodo # {} => f \in Swaps
  BY FirstIsMember
<1>2. CASE LeaderScanSigned
  BY <1>2 DEF LeaderScanSigned
<1>3. CASE LeaderSetRetry
  BY <1>1, <1>3 DEF LeaderSetRetry
<1>4. CASE LeaderBroadcast
  <2>1. HashOf(f) \in Hash
    BY <1>1, <1>4, HashOfType DEF LeaderBroadcast
  <2>2. mempool' \in Seq(Hash)
    BY <1>4, <2>1, AppendProperties DEF LeaderBroadcast
  <2>3. QED BY <1>4, <2>1, <2>2 DEF LeaderBroadcast
<1>5. ASSUME NEW st \in {"SUBMITTED", "FAILED"}, SaveBroadcast(st), failedPrev' \in BOOLEAN,
             faultsLeft' \in 0..MaxFaults
      PROVE  TypeOK'
  <2>1. leaderTodo # {} => f \in Swaps
    BY <1>1
  <2>2. status' \in [Swaps -> Statuses \union {"none"}] /\ dstHash' \in [Swaps -> Hash \union {NoHash}]
    BY <1>5 DEF SaveBroadcast
  <2>3. QED BY <1>5, <2>2 DEF SaveBroadcast
<1>12. CASE LeaderSaveSubmitted \/ LeaderCannotSave
  <2>1. faultsLeft' \in 0..MaxFaults
    BY <1>12, FaultsCounted DEF LeaderSaveSubmitted, LeaderCannotSave
  <2>2. QED BY <1>5, <1>12, <2>1 DEF LeaderSaveSubmitted, LeaderCannotSave
<1>6. CASE LeaderBroadcastFails
  <2>1. faultsLeft' \in 0..MaxFaults
    BY <1>6, FaultsCounted DEF LeaderBroadcastFails
  <2>2. QED BY <1>1, <1>6, <2>1 DEF LeaderBroadcastFails
<1>7. CASE LeaderScanSubmitted
  BY <1>7 DEF LeaderScanSubmitted
<1>8. ASSUME NEW t \in Swaps, Confirm(t) \/ KeepWaiting(t) \/ TimeOut(t) \/ MintFailed(t)
      PROVE  TypeOK'
  <2>1. faultsLeft' \in 0..MaxFaults
    BY <1>8, FaultsCounted DEF Confirm, KeepWaiting, TimeOut, MintFailed, NotFound
  <2>2. QED
    BY <1>8, <2>1 DEF Confirm, KeepWaiting, TimeOut, MintFailed, Validating
<1>9. CASE Resync \/ ResyncAssign
  BY <1>9 DEF Resync, ResyncAssign
<1>13. CASE ResyncMisread
  <2>1. faultsLeft' \in 0..MaxFaults
    BY <1>13, FaultsCounted DEF ResyncMisread
  <2>2. QED BY <1>13, <2>1 DEF ResyncMisread
<1>10. CASE CrashLeader \/ LeaderDies
  <2>1. faultsLeft' \in 0..MaxFaults
    BY <1>10, FaultsCounted DEF CrashLeader, LeaderDies, Restarts
  <2>2. CASE CrashLeader
    BY <2>1, <2>2 DEF CrashLeader
  <2>3. CASE LeaderDies
    BY <2>1, <2>3 DEF LeaderDies
  <2>4. QED BY <1>10, <2>2, <2>3
<1>11. QED
  BY <1>2, <1>3, <1>4, <1>6, <1>7, <1>8, <1>9, <1>10, <1>12, <1>13 DEF Leader

LEMMA TypeChain ==
  ASSUME TypeOK,
         (\E ok \in BOOLEAN : Land(ok)) \/ Drop \/ \E t \in Swaps : CooldownExpires(t)
  PROVE  TypeOK'
<1> USE SwapsAssumption
    DEF TypeOK, docVars, numberVars, managerVars, leaderVars, signerVars, chainVars, Fault,
        NoFault
<1>1. ASSUME NEW ok \in BOOLEAN, Land(ok) PROVE TypeOK'
  <2>1. Head(mempool) \in Hash /\ Tail(mempool) \in Seq(Hash)
    BY <1>1, HeadTailProperties DEF Land
  <2>2. faultsLeft' \in 0..MaxFaults
    BY <1>1 DEF Land
  <2>3. QED BY <1>1, <2>1, <2>2 DEF Land
<1>2. CASE Drop
  <2>1. PICK n \in 0..(Len(mempool) - 1) : mempool' = SubSeq(mempool, 1, n)
    BY <1>2 DEF Drop
  <2>2. \A i \in 1..n : mempool[i] \in Hash
    BY <2>1, ElementOfSeq, LenProperties
  <2>3. n \in Int /\ 1 \in Int
    BY LenProperties
  <2>4. mempool' \in Seq(Hash)
    BY <2>1, <2>2, <2>3, SubSeqProperties
  <2>5. QED BY <1>2, <2>4 DEF Drop
<1>3. ASSUME NEW t \in Swaps, CooldownExpires(t) PROVE TypeOK'
  <2>1. faultsLeft' \in 0..MaxFaults
    BY <1>3 DEF CooldownExpires
  <2>2. QED BY <1>3, <2>1 DEF CooldownExpires
<1>4. QED BY <1>1, <1>2, <1>3

LEMMA TypeStep == TypeOK /\ [Next]_vars => TypeOK'
BY TypeManager, TypeSigner, TypeLeader, TypeChain DEF Next

\* Whatever the threads interleave, the documents, the copies and the chain keep
\* their types.
THEOREM TypeCorrect == Spec => []TypeOK
BY TypeInit, TypeStep, PTL DEF Spec

-----------------------------------------------------------------------------
(* Signatures                                                              *)

\* Only the manager deletes signatures, and only a signer adds one.
LEMMA SignatureWriters ==
  ASSUME [Next]_vars
  PROVE  signatures' = signatures \/ RetryDelete \/ \E s \in Signers : Sign(s)
<1> USE DEF docVars
<1>1. CASE HandleRead \/ Handler \/ Manager \/ ManagerDies
  BY <1>1 DEF HandleRead, Handler, Handle, HandleBump, HandleWrite, Manager, ManagerScanRetry,
              RetryRead, RetryRestart, RetryBump, RetryWrite, ManagerScanUnsigned, MarkSigned,
              ManagerDies
<1>2. CASE \E s \in Signers : Signer(s) \/ SignerDies(s) \/ CrashSigner(s)
  BY <1>2 DEF Signer, SignerScan, SignerSkip, SignerFails, SignerCannotSave, SignerDies,
              CrashSigner
<1>3. CASE Leader \/ LeaderDies
  BY <1>3 DEF Leader, LeaderScanSigned, LeaderSetRetry, LeaderBroadcast, LeaderSaveSubmitted,
              LeaderCannotSave, SaveBroadcast,
              LeaderBroadcastFails, LeaderScanSubmitted, Confirm, KeepWaiting, TimeOut,
              MintFailed, Validating, Resync, ResyncAssign, ResyncMisread, LeaderDies
<1>4. CASE CrashLeader \/ Drop \/ (\E ok \in BOOLEAN : Land(ok))
             \/ (\E t \in Swaps : CooldownExpires(t)) \/ UNCHANGED vars
  BY <1>4 DEF CrashLeader, Drop, Land, CooldownExpires, vars
<1>5. QED BY <1>1, <1>2, <1>3, <1>4 DEF Next

\* What Sign writes.
LEMMA SignEffect ==
  ASSUME TypeOK, NEW s \in Signers, Sign(s)
  PROVE  \E t \in Swaps, q \in Nat :
           /\ ~IsSigned(s, t)
           /\ signatures' = [signatures EXCEPT ![t] = @ \union {[signer |-> s, sequence |-> q]}]
<1> DEFINE d == FirstDoc(signerTodo[s])
<1>1. signerTodo[s] # {} /\ signerTodo[s] \in SUBSET (Swaps \X Nat)
  BY DEF TypeOK, Sign, SignerDone
<1>2. d[1] \in Swaps /\ d[2] \in Nat
  BY <1>1, FirstDocIsMember
<1>3. QED BY <1>2 DEF Sign

LEMMA OneSignatureStep ==
  TypeOK /\ OneSignaturePerSigner /\ [Next]_vars => OneSignaturePerSigner'
<1> SUFFICES ASSUME TypeOK, OneSignaturePerSigner, [Next]_vars PROVE OneSignaturePerSigner'
  OBVIOUS
<1>1. CASE signatures' = signatures
  BY <1>1 DEF OneSignaturePerSigner
<1>2. CASE RetryDelete
  BY <1>2 DEF RetryDelete, OneSignaturePerSigner, TypeOK
<1>3. ASSUME NEW s \in Signers, Sign(s) PROVE OneSignaturePerSigner'
  <2>1. PICK t \in Swaps, q \in Nat :
          /\ ~IsSigned(s, t)
          /\ signatures' = [signatures EXCEPT ![t] = @ \union {[signer |-> s, sequence |-> q]}]
    BY <1>3, SignEffect
  <2>2. QED BY <2>1 DEF OneSignaturePerSigner, IsSigned, TypeOK
<1>4. QED BY <1>1, <1>2, <1>3, SignatureWriters

-----------------------------------------------------------------------------
(* The copies and the quorum                                               *)

\* SignedHasQuorum, swap by swap.
LEMMA QuorumByStatus ==
  SignedHasQuorum <=>
    \A t \in Swaps : status[t] \in {"SIGNED", "SUBMITTED", "CONFIRMED"} => HasQuorum(t)
BY DEF SignedHasQuorum, WithStatus, HasQuorum, SignersOf

\* A signer adds to the signatures, and its old copy can only lead to FAILED.
LEMMA CoreSigner ==
  ASSUME TypeOK, CoreInv, NEW s \in Signers,
         Signer(s) \/ SignerDies(s) \/ CrashSigner(s)
  PROVE  CoreInv'
<1>1. UNCHANGED <<managerPc, managerTodo, leaderPc, leaderTodo>>
  BY DEF Signer, SignerScan, Sign, SignerSkip, SignerFails, SignerCannotSave, SignerDone,
         SignerDies, CrashSigner, managerVars, leaderVars
<1>2. \A t \in Swaps : status'[t] \in {status[t], "FAILED"}
  <2>1. CASE SignerFails(s)
    BY <2>1 DEF SignerFails, SetStatus, TypeOK
  <2>2. CASE SignerScan(s) \/ Sign(s) \/ SignerSkip(s) \/ SignerCannotSave(s)
               \/ SignerDies(s) \/ CrashSigner(s)
    BY <2>2 DEF SignerScan, Sign, SignerSkip, SignerCannotSave, SignerDies, CrashSigner, docVars
  <2>3. QED BY <2>1, <2>2 DEF Signer
<1>3. \A t \in Swaps : HasQuorum(t) => HasQuorum(t)'
  <2>1. CASE Sign(s)
    <3>1. PICK t \in Swaps, q \in Nat :
            signatures' = [signatures EXCEPT ![t] = @ \union {[signer |-> s, sequence |-> q]}]
      BY <2>1, SignEffect
    <3>2. \A u \in Swaps : SignersOf(u) \subseteq SignersOf(u)' /\ SignersOf(u)' \in SUBSET Signers
      BY <3>1 DEF TypeOK, SignersOf, Signature
    <3>3. QED BY <3>2, QuorumGrows DEF HasQuorum
  <2>2. CASE SignerScan(s) \/ SignerSkip(s) \/ SignerFails(s) \/ SignerCannotSave(s)
               \/ SignerDies(s) \/ CrashSigner(s)
    BY <2>2 DEF SignerScan, SignerSkip, SignerFails, SignerCannotSave, SignerDies, CrashSigner,
                docVars, HasQuorum, SignersOf
  <2>3. QED BY <2>1, <2>2 DEF Signer
<1>4. SignedHasQuorum'
  <2>1. \A t \in Swaps : status'[t] \in {"SIGNED", "SUBMITTED", "CONFIRMED"} => HasQuorum(t)'
    BY <1>2, <1>3, QuorumByStatus DEF CoreInv
  <2>2. QED BY <2>1 DEF SignedHasQuorum, WithStatus, HasQuorum, SignersOf
<1>5. ManagerCopy' /\ LeaderCopy'
  BY <1>1, <1>2, <1>3 DEF CoreInv, CopyInv, ManagerCopy, LeaderCopy, TypeOK, First
<1>6. CopiesDisjoint' /\ Busy'
  BY <1>1 DEF CoreInv, CopyInv, CopiesDisjoint, Busy
<1>7. QED BY <1>4, <1>5, <1>6 DEF CoreInv, CopyInv

\* An action that leaves the signatures alone leaves the quorums.
LEMMA QuorumKept ==
  ASSUME UNCHANGED signatures
  PROVE  \A t : HasQuorum(t)' <=> HasQuorum(t)
BY DEF HasQuorum, SignersOf

LEMMA QuorumByStatusNext ==
  ASSUME \A t \in Swaps : status'[t] \in {"SIGNED", "SUBMITTED", "CONFIRMED"} => HasQuorum(t)'
  PROVE  SignedHasQuorum'
BY DEF SignedHasQuorum, WithStatus, HasQuorum, SignersOf

\* The manager: what it deletes signatures of, restarts or counts is not in the
\* leader's copy and has no status that needs a quorum.
LEMMA CoreManager ==
  ASSUME TypeOK, OneSignaturePerSigner, CoreInv, Manager \/ ManagerDies
  PROVE  CoreInv'
<1> DEFINE f == First(managerTodo)
<1> USE DEF CoreInv, CopyInv
<1>1. managerTodo # {} => f \in managerTodo /\ f \in Swaps
  BY FirstIsMember DEF TypeOK
<1>2. UNCHANGED <<leaderPc, leaderTodo>>
  BY DEF Manager, ManagerScanRetry, RetryDelete, RetryRead, RetryRestart, RetryBump, RetryWrite,
         ManagerScanUnsigned, MarkSigned, ManagerDies, leaderVars
<1>3. ~RetryDelete => \A t : HasQuorum(t)' <=> HasQuorum(t)
  BY QuorumKept DEF Manager, ManagerScanRetry, RetryRead, RetryRestart, RetryBump, RetryWrite,
         ManagerScanUnsigned, MarkSigned, ManagerDies, docVars
<1>4. \A t \in Swaps : status[t] \in {"SIGNED", "SUBMITTED", "CONFIRMED"} => HasQuorum(t)
  BY QuorumByStatus
<1>5. CASE ManagerScanRetry \/ ManagerScanUnsigned
  <2>1. UNCHANGED status /\ UNCHANGED signatures
    BY <1>5 DEF ManagerScanRetry, ManagerScanUnsigned, docVars
  <2>2. SignedHasQuorum'
    BY <2>1 DEF SignedHasQuorum, WithStatus
  <2>3. ManagerCopy' /\ CopiesDisjoint' /\ Busy'
    BY <1>5, <1>2, <2>1 DEF ManagerScanRetry, ManagerScanUnsigned, ManagerCopy, CopiesDisjoint,
       Busy, WithStatus, LeaderCopy
  <2>4. LeaderCopy'
    BY <1>2, <2>1, QuorumKept DEF LeaderCopy
  <2>5. QED BY <2>2, <2>3, <2>4
<1>6. CASE RetryDelete
  <2>1. /\ f \in managerTodo /\ f \in Swaps /\ status[f] \in {"RETRY", "FAILED"}
        /\ f \notin leaderTodo
    BY <1>1, <1>6 DEF RetryDelete, ManagerCopy, CopiesDisjoint
  <2>2. \A t \in Swaps : t # f => (HasQuorum(t)' <=> HasQuorum(t))
    BY <1>6, <2>1 DEF RetryDelete, TypeOK, HasQuorum, SignersOf
  <2>3. UNCHANGED <<status, managerTodo>>
    BY <1>6 DEF RetryDelete
  <2>4. SignedHasQuorum'
    BY <1>4, <2>1, <2>2, <2>3, QuorumByStatusNext
  <2>5. LeaderCopy'
    BY <1>2, <2>1, <2>2, <2>3 DEF LeaderCopy, TypeOK
  <2>6. ManagerCopy' /\ CopiesDisjoint' /\ Busy'
    BY <1>2, <1>6, <2>3 DEF RetryDelete, ManagerCopy, CopiesDisjoint, Busy
  <2>7. QED BY <2>4, <2>5, <2>6
<1>7. CASE RetryRestart
  <2>1. f \in managerTodo /\ f \in Swaps /\ f \notin leaderTodo
    BY <1>1, <1>7 DEF RetryRestart, Busy, CopiesDisjoint
  <2>2. status' = [status EXCEPT ![f] = "UNSIGNED"] /\ UNCHANGED managerTodo
    BY <1>7 DEF RetryRestart, SetStatus
  <2>3. SignedHasQuorum'
    BY <1>3, <1>4, <1>7, <2>1, <2>2, QuorumByStatusNext DEF RetryRestart, RetryDelete, TypeOK
  <2>4. LeaderCopy'
    BY <1>2, <1>3, <1>7, <2>1, <2>2 DEF RetryRestart, RetryDelete, LeaderCopy, TypeOK
  <2>5. ManagerCopy' /\ CopiesDisjoint' /\ Busy'
    BY <1>2, <1>7, <2>1, <2>2
    DEF RetryRestart, ManagerCopy, CopiesDisjoint, Busy, TypeOK, First
  <2>6. QED BY <2>3, <2>4, <2>5
<1>8. CASE RetryRead \/ RetryBump \/ RetryWrite \/ ManagerDies
  <2>1. UNCHANGED status /\ UNCHANGED signatures
    BY <1>8 DEF RetryRead, RetryBump, RetryWrite, ManagerDies, docVars
  <2>2. SignedHasQuorum'
    BY <2>1 DEF SignedHasQuorum, WithStatus
  <2>3. ManagerCopy' /\ CopiesDisjoint' /\ Busy'
    <3>1. CASE RetryRead \/ RetryBump
      BY <3>1, <1>2, <2>1 DEF RetryRead, RetryBump, ManagerCopy, CopiesDisjoint, Busy, First
    <3>2. CASE RetryWrite
      BY <3>2, <1>2, <2>1 DEF RetryWrite, ManagerCopy, CopiesDisjoint, Busy, First
    <3>3. CASE ManagerDies
      BY <3>3, <1>2, <2>1 DEF ManagerDies, ManagerCopy, CopiesDisjoint, Busy
    <3>4. QED BY <1>8, <3>1, <3>2, <3>3
  <2>4. LeaderCopy'
    BY <1>2, <2>1, QuorumKept DEF LeaderCopy
  <2>5. QED BY <2>2, <2>3, <2>4
<1>9. CASE MarkSigned
  <2>1. f \in managerTodo /\ f \in Swaps /\ f \notin leaderTodo
    BY <1>1, <1>9 DEF MarkSigned, CopiesDisjoint
  <2>2. /\ UNCHANGED signatures /\ managerTodo' = managerTodo \ {f}
        /\ managerPc = "unsigned" /\ UNCHANGED managerPc
    BY <1>9 DEF MarkSigned
  <2>3. \A t \in Swaps :
          \/ status'[t] = status[t]
          \/ t = f /\ status'[t] = "SIGNED" /\ HasQuorum(t)
    <3>1. CASE Cardinality(signatures[f]) >= Threshold
      <4>1. HasQuorum(f)
        BY <2>1, <3>1, DocumentsAreSigners
      <4>2. QED BY <1>9, <3>1, <4>1 DEF MarkSigned, SetStatus, TypeOK
    <3>2. CASE ~(Cardinality(signatures[f]) >= Threshold)
      BY <1>9, <3>2 DEF MarkSigned
    <3>3. QED BY <3>1, <3>2
  <2>4. \A t : HasQuorum(t)' <=> HasQuorum(t)
    BY <2>2, QuorumKept
  <2>5. SignedHasQuorum'
    BY <1>4, <2>3, <2>4, QuorumByStatusNext
  <2>6. LeaderCopy'
    BY <1>2, <2>1, <2>3, <2>4 DEF LeaderCopy, TypeOK
  <2>7. ManagerCopy' /\ CopiesDisjoint' /\ Busy'
    BY <1>2, <2>2, <2>3 DEF ManagerCopy, CopiesDisjoint, Busy, TypeOK
  <2>8. QED BY <2>5, <2>6, <2>7
<1>10. QED
  BY <1>5, <1>6, <1>7, <1>8, <1>9 DEF Manager

\* The leader: what it moves on has the quorum it had when it was read.
LEMMA CoreLeader ==
  ASSUME TypeOK, CoreInv, Leader \/ LeaderDies \/ CrashLeader
  PROVE  CoreInv'
<1> DEFINE f == First(leaderTodo)
<1> USE DEF CoreInv, CopyInv
<1>1. leaderTodo # {} => f \in leaderTodo /\ f \in Swaps
  BY FirstIsMember DEF TypeOK
<1>2. UNCHANGED signatures
  BY DEF Leader, LeaderScanSigned, LeaderSetRetry, LeaderBroadcast, LeaderSaveSubmitted,
         LeaderCannotSave, SaveBroadcast, LeaderBroadcastFails, LeaderScanSubmitted, Confirm, KeepWaiting, TimeOut,
         MintFailed, Validating, Resync, ResyncAssign, ResyncMisread, LeaderDies, CrashLeader,
         docVars
<1>3. \A t : HasQuorum(t)' <=> HasQuorum(t)
  BY <1>2, QuorumKept
<1>4. \A t \in Swaps : status[t] \in {"SIGNED", "SUBMITTED", "CONFIRMED"} => HasQuorum(t)
  BY QuorumByStatus
<1>5. CASE LeaderScanSigned \/ LeaderScanSubmitted
  <2>1. UNCHANGED status /\ UNCHANGED <<managerPc, managerTodo>>
    BY <1>5 DEF LeaderScanSigned, LeaderScanSubmitted, docVars, managerVars
  <2>2. SignedHasQuorum'
    BY <1>2, <2>1 DEF SignedHasQuorum, WithStatus
  <2>3. LeaderCopy'
    BY <1>3, <1>4, <1>5, <2>1 DEF LeaderScanSigned, LeaderScanSubmitted, LeaderCopy, WithStatus
  <2>4. ManagerCopy' /\ CopiesDisjoint' /\ Busy'
    BY <1>5, <2>1
    DEF LeaderScanSigned, LeaderScanSubmitted, ManagerCopy, CopiesDisjoint, Busy, WithStatus, First
  <2>5. QED BY <2>2, <2>3, <2>4
<1>6. CASE LeaderBroadcast \/ Resync \/ ResyncAssign \/ LeaderDies \/ CrashLeader
  <2>1. UNCHANGED status
    BY <1>6 DEF LeaderBroadcast, Resync, ResyncAssign, LeaderDies, CrashLeader, docVars
  <2>2. SignedHasQuorum'
    BY <1>2, <2>1 DEF SignedHasQuorum, WithStatus
  <2>3. LeaderCopy'
    BY <1>3, <1>6, <2>1 DEF LeaderBroadcast, Resync, ResyncAssign, LeaderDies, CrashLeader,
                            LeaderCopy
  <2>4. ManagerCopy' /\ CopiesDisjoint' /\ Busy'
    BY <1>6, <2>1
    DEF LeaderBroadcast, Resync, ResyncAssign, LeaderDies, CrashLeader, ManagerCopy,
        CopiesDisjoint, Busy, managerVars, First
  <2>5. QED BY <2>2, <2>3, <2>4
\* Every other action takes the first swap off the copy, and may change its status.
<1>7. ASSUME leaderTodo # {}, leaderTodo' = leaderTodo \ {f}, leaderPc' # "save",
             leaderPc \in {"signed", "save"} <=> leaderPc' \in {"signed", "save"},
             UNCHANGED <<managerPc, managerTodo>>,
             \A t \in Swaps : t # f => status'[t] = status[t]
      PROVE  CoreInv'
  <2>1. SignedHasQuorum'
    BY <1>1, <1>3, <1>4, <1>7, QuorumByStatusNext DEF LeaderCopy, TypeOK
  <2>2. LeaderCopy'
    BY <1>3, <1>7 DEF LeaderCopy, TypeOK
  <2>3. ManagerCopy'
    <3>1. First(managerTodo)' = First(managerTodo)
      BY <1>7 DEF First
    <3>2. \A t \in managerTodo : t \in Swaps /\ t # f
      BY <1>1, <1>7 DEF CopiesDisjoint, TypeOK
    <3>3. QED BY <1>7, <3>1, <3>2 DEF ManagerCopy
  <2>4. CopiesDisjoint' /\ Busy'
    BY <1>7 DEF CopiesDisjoint, Busy
  <2>5. QED BY <2>1, <2>2, <2>3, <2>4
<1>8. CASE LeaderSetRetry
  BY <1>1, <1>7, <1>8 DEF LeaderSetRetry, SetStatus, managerVars, TypeOK
<1>9. CASE LeaderSaveSubmitted \/ LeaderCannotSave
  BY <1>1, <1>7, <1>9 DEF LeaderSaveSubmitted, LeaderCannotSave, SaveBroadcast, SetStatus,
                          managerVars, TypeOK, Busy
<1>10. CASE LeaderBroadcastFails
  BY <1>1, <1>7, <1>10 DEF LeaderBroadcastFails, SetStatus, managerVars, TypeOK
<1>11. ASSUME NEW t \in Swaps, Confirm(t) \/ KeepWaiting(t) \/ TimeOut(t) \/ MintFailed(t)
       PROVE  CoreInv'
  <2>1. /\ leaderTodo # {} /\ leaderTodo' = leaderTodo \ {f} /\ t = f
        /\ leaderPc = "submitted" /\ UNCHANGED <<managerPc, managerTodo>>
    BY <1>11 DEF Confirm, KeepWaiting, TimeOut, MintFailed, Validating, managerVars
  <2>2. leaderPc' \in {"submitted", "resync"}
    BY <1>11, <2>1 DEF Confirm, KeepWaiting, TimeOut, MintFailed
  <2>3. \A u \in Swaps : u # t => status'[u] = status[u]
    BY <1>11 DEF Confirm, KeepWaiting, TimeOut, MintFailed, SetStatus, TypeOK
  <2>4. QED BY <1>7, <2>1, <2>2, <2>3
\* The one exception writes FAILED, which a swap of either copy may have.
<1>12. CASE ResyncMisread
  <2>1. UNCHANGED <<managerPc, managerTodo, leaderPc, leaderTodo>>
    BY <1>12 DEF ResyncMisread, managerVars
  <2>2. \A t \in Swaps : status'[t] \in {status[t], "FAILED"}
    BY <1>12 DEF ResyncMisread, SetStatus, TypeOK
  <2>3. SignedHasQuorum'
    BY <1>3, <1>4, <2>2, QuorumByStatusNext
  <2>4. ManagerCopy' /\ LeaderCopy'
    BY <1>3, <2>1, <2>2 DEF ManagerCopy, LeaderCopy, TypeOK, First
  <2>5. CopiesDisjoint' /\ Busy'
    BY <2>1 DEF CopiesDisjoint, Busy
  <2>6. QED BY <2>3, <2>4, <2>5
<1>13. QED
  BY <1>5, <1>6, <1>8, <1>9, <1>10, <1>11, <1>12 DEF Leader

LEMMA CoreStep ==
  TypeOK /\ OneSignaturePerSigner /\ CoreInv /\ [Next]_vars => CoreInv'
<1> SUFFICES ASSUME TypeOK, OneSignaturePerSigner, CoreInv, [Next]_vars PROVE CoreInv'
  OBVIOUS
<1>1. ASSUME UNCHANGED <<status, signatures, managerPc, managerTodo, leaderPc, leaderTodo>>
      PROVE  CoreInv'
  BY <1>1 DEF CoreInv, CopyInv, SignedHasQuorum, WithStatus, ManagerCopy, LeaderCopy, HasQuorum,
              SignersOf, CopiesDisjoint, Busy, First
<1>2. CASE HandleRead \/ HandleBump \/ HandleWrite \/ Drop \/ (\E ok \in BOOLEAN : Land(ok))
             \/ (\E t \in Swaps : CooldownExpires(t)) \/ UNCHANGED vars
  BY <1>1, <1>2 DEF HandleRead, HandleBump, HandleWrite, Drop, Land, CooldownExpires, vars, docVars, managerVars, leaderVars
<1>3. ASSUME NEW t \in Swaps, Handle(t) PROVE CoreInv'
  <2>1. /\ status[t] = "none" /\ status' = [status EXCEPT ![t] = "UNSIGNED"]
        /\ UNCHANGED <<signatures, managerPc, managerTodo, leaderPc, leaderTodo>>
    BY <1>3 DEF Handle, SetStatus, managerVars, leaderVars
  <2>2. \A u : HasQuorum(u)' <=> HasQuorum(u)
    BY <2>1, QuorumKept
  <2>3. t \notin managerTodo /\ t \notin leaderTodo
    BY <2>1 DEF CoreInv, CopyInv, ManagerCopy, LeaderCopy
  <2>4. SignedHasQuorum'
    BY <2>1, <2>2, QuorumByStatus, QuorumByStatusNext DEF CoreInv, TypeOK
  <2>5. ManagerCopy' /\ LeaderCopy'
    BY <2>1, <2>2, <2>3 DEF CoreInv, CopyInv, ManagerCopy, LeaderCopy, TypeOK, First
  <2>6. CopiesDisjoint' /\ Busy'
    BY <2>1 DEF CoreInv, CopyInv, CopiesDisjoint, Busy
  <2>7. QED BY <2>4, <2>5, <2>6 DEF CoreInv, CopyInv
<1>4. QED
  BY <1>2, <1>3, CoreManager, CoreLeader, CoreSigner DEF Next, Handler

-----------------------------------------------------------------------------
(* Hashes                                                                  *)

LEMMA HashesStep ==
  ASSUME TypeOK, CoreInv, HashesMatch, [Next]_vars
  PROVE  HashesMatch'
<1> DEFINE f == First(leaderTodo)
<1>1. ASSUME UNCHANGED <<dstHash, leaderPc, leaderTodo, leaderHash>> PROVE HashesMatch'
  <2>1. First(leaderTodo)' = First(leaderTodo)
    BY <1>1 DEF First
  <2>2. QED BY <1>1, <2>1 DEF HashesMatch
<1>2. ASSUME UNCHANGED dstHash, leaderPc' # "save" PROVE HashesMatch'
  BY <1>2 DEF HashesMatch
<1>3. CASE LeaderBroadcast
  <2>1. f \in Swaps /\ leaderHash' = HashOf(f) /\ UNCHANGED <<dstHash, leaderTodo>>
    BY <1>3, FirstIsMember DEF LeaderBroadcast, TypeOK, docVars
  <2>2. First(leaderTodo)' = First(leaderTodo)
    BY <2>1 DEF First
  <2>3. QED BY <2>1, <2>2, HashOfType DEF HashesMatch
<1>4. CASE LeaderSaveSubmitted \/ LeaderCannotSave
  <2>1. leaderHash.swap = f /\ f \in Swaps
    BY <1>4, FirstIsMember DEF LeaderSaveSubmitted, LeaderCannotSave, SaveBroadcast, HashesMatch,
                               CoreInv, CopyInv, Busy, TypeOK
  <2>2. dstHash' = [dstHash EXCEPT ![f] = leaderHash] /\ leaderPc' # "save"
    BY <1>4 DEF LeaderSaveSubmitted, LeaderCannotSave, SaveBroadcast
  <2>3. QED BY <2>1, <2>2 DEF HashesMatch, TypeOK
<1>5. CASE Leader /\ ~LeaderBroadcast /\ ~LeaderSaveSubmitted /\ ~LeaderCannotSave
  BY <1>2, <1>5
  DEF Leader, LeaderScanSigned, LeaderSetRetry, LeaderBroadcastFails, LeaderScanSubmitted,
      Confirm, KeepWaiting, TimeOut, MintFailed, Validating, Resync, ResyncAssign, ResyncMisread,
      docVars
<1>6. CASE CrashLeader \/ LeaderDies
  BY <1>2, <1>6 DEF CrashLeader, LeaderDies, docVars
<1>7. CASE HandleRead \/ Handler \/ Manager \/ ManagerDies
  BY <1>1, <1>7 DEF HandleRead, Handler, Handle, HandleBump, HandleWrite, Manager,
                    ManagerScanRetry, RetryDelete, RetryRead, RetryRestart, RetryBump, RetryWrite,
                    ManagerScanUnsigned, MarkSigned, ManagerDies, docVars, leaderVars
<1>8. CASE \E s \in Signers : Signer(s) \/ SignerDies(s) \/ CrashSigner(s)
  BY <1>1, <1>8 DEF Signer, SignerScan, Sign, SignerSkip, SignerFails, SignerCannotSave,
                    SignerDone, SignerDies, CrashSigner, docVars, leaderVars
<1>9. CASE Drop \/ (\E ok \in BOOLEAN : Land(ok)) \/ (\E t \in Swaps : CooldownExpires(t))
             \/ UNCHANGED vars
  BY <1>1, <1>9 DEF Drop, Land, CooldownExpires, vars, docVars, leaderVars
<1>10. QED
  BY <1>3, <1>4, <1>5, <1>6, <1>7, <1>8, <1>9 DEF Next

-----------------------------------------------------------------------------
(* The invariants                                                          *)

LEMMA InvInit == Init => IInv
<1> SUFFICES ASSUME Init PROVE IInv
  OBVIOUS
<1>1. TypeOK
  BY TypeInit
<1>2. OneSignaturePerSigner
  BY DEF Init, OneSignaturePerSigner
<1>3. CoreInv
  BY DEF Init, CoreInv, SignedHasQuorum, WithStatus, CopyInv, ManagerCopy, LeaderCopy,
         CopiesDisjoint, Busy
<1>4. HashesMatch
  BY DEF Init, HashesMatch
<1>5. QED BY <1>1, <1>2, <1>3, <1>4 DEF IInv

LEMMA InvStep == IInv /\ [Next]_vars => IInv'
BY TypeStep, OneSignatureStep, CoreStep, HashesStep DEF IInv

LEMMA Invariance == Spec => []IInv
BY InvInit, InvStep, PTL DEF Spec

\* The documents that the manager counts are of different signers, whatever the
\* signers' copies and the deletions for a retry interleave.
THEOREM OneSignaturePerSignerSafe == Spec => []OneSignaturePerSigner
<1>1. IInv => OneSignaturePerSigner
  BY DEF IInv
<1>2. QED BY <1>1, Invariance, PTL

\* What is signed, submitted or confirmed keeps the signatures of Threshold
\* distinct signers: _create_and_broadcast never finds fewer.
THEOREM SignedHasQuorumSafe == Spec => []SignedHasQuorum
<1>1. IInv => SignedHasQuorum
  BY DEF IInv, CoreInv
<1>2. QED BY <1>1, Invariance, PTL

-----------------------------------------------------------------------------
(* What a thread may write over a status                                   *)

\* The only statuses that follow one another, for a swap in the copy of the
\* thread that writes.
Written(t, st) ==
  /\ t \in Swaps /\ st \in Statuses
  /\ status' = [status EXCEPT ![t] = st]
  /\ UNCHANGED landed
  /\ \/ status[t] = "none" /\ st = "UNSIGNED"
     \/ t \in managerTodo /\ status[t] \in {"RETRY", "FAILED"} /\ st = "UNSIGNED"
     \/ t \in managerTodo /\ status[t] \in {"UNSIGNED", "FAILED"} /\ st = "SIGNED"
     \/ t \in leaderTodo /\ status[t] \in {"SIGNED", "SUBMITTED", "FAILED"}
          /\ st \in {"SUBMITTED", "RETRY", "FAILED"}
     \/ t \in leaderTodo /\ status[t] \in {"SUBMITTED", "FAILED"} /\ IsMinted(t)
          /\ st = "CONFIRMED"
     \/ st = "FAILED"

LEMMA StatusWriters ==
  ASSUME IInv, [Next]_vars
  PROVE  UNCHANGED status \/ \E t, st : Written(t, st)
<1> USE DEF IInv, CoreInv, CopyInv, Statuses
<1>1. CASE HandleRead \/ HandleBump \/ HandleWrite \/ Drop \/ (\E ok \in BOOLEAN : Land(ok))
             \/ (\E t \in Swaps : CooldownExpires(t)) \/ UNCHANGED vars
             \/ ManagerDies \/ LeaderDies \/ CrashLeader
             \/ \E s \in Signers : SignerDies(s) \/ CrashSigner(s)
  BY <1>1 DEF HandleRead, HandleBump, HandleWrite, Drop, Land, CooldownExpires, vars, ManagerDies,
              LeaderDies, CrashLeader, SignerDies, CrashSigner, docVars
<1>2. ASSUME NEW t \in Swaps, Handle(t) PROVE Written(t, "UNSIGNED")
  BY <1>2 DEF Handle, Written, SetStatus, chainVars
<1>3. ASSUME NEW s \in Signers, Signer(s)
      PROVE  UNCHANGED status \/ \E t, st : Written(t, st)
  <2>1. CASE SignerFails(s)
    <3> DEFINE t == FirstDoc(signerTodo[s])[1]
    <3>1. t \in Swaps
      <4>1. signerTodo[s] # {} /\ signerTodo[s] \in SUBSET (Swaps \X Nat)
        BY <2>1 DEF SignerFails, SignerDone, TypeOK
      <4>2. QED BY <4>1, FirstDocIsMember
    <3>2. Written(t, "FAILED")
      BY <2>1, <3>1 DEF SignerFails, SignerDone, SetStatus, chainVars, Written
    <3>3. QED BY <3>2
  <2>2. CASE SignerScan(s) \/ Sign(s) \/ SignerSkip(s) \/ SignerCannotSave(s)
    BY <2>2 DEF SignerScan, Sign, SignerSkip, SignerCannotSave, docVars
  <2>3. QED BY <1>3, <2>1, <2>2 DEF Signer
<1>4. CASE Manager
  <2> DEFINE f == First(managerTodo)
  <2>1. CASE ManagerScanRetry \/ RetryDelete \/ RetryRead \/ RetryBump \/ RetryWrite
               \/ ManagerScanUnsigned
    BY <2>1 DEF ManagerScanRetry, RetryDelete, RetryRead, RetryBump, RetryWrite,
                ManagerScanUnsigned, docVars
  <2>2. CASE RetryRestart
    <3>1. f \in managerTodo /\ f \in Swaps /\ status[f] \in {"RETRY", "FAILED"}
      BY <2>2, FirstIsMember DEF RetryRestart, Busy, TypeOK, ManagerCopy
    <3>2. Written(f, "UNSIGNED")
      BY <2>2, <3>1 DEF RetryRestart, SetStatus, chainVars, Written
    <3>3. QED BY <3>2
  <2>3. CASE MarkSigned
    <3>1. f \in managerTodo /\ f \in Swaps /\ status[f] \in {"UNSIGNED", "FAILED"}
      BY <2>3, FirstIsMember DEF MarkSigned, TypeOK, ManagerCopy
    <3>2. UNCHANGED status \/ Written(f, "SIGNED")
      BY <2>3, <3>1 DEF MarkSigned, SetStatus, chainVars, Written
    <3>3. QED BY <3>2
  <2>4. QED BY <1>4, <2>1, <2>2, <2>3 DEF Manager
<1>5. CASE Leader
  <2> DEFINE f == First(leaderTodo)
  <2>1. leaderTodo # {} =>
          /\ f \in leaderTodo /\ f \in Swaps
          /\ status[f] \in {"FAILED", IF leaderPc \in {"signed", "save"} THEN "SIGNED" ELSE "SUBMITTED"}
    BY FirstIsMember DEF TypeOK, LeaderCopy
  <2>2. CASE LeaderScanSigned \/ LeaderBroadcast \/ LeaderScanSubmitted \/ Resync
               \/ ResyncAssign
    BY <2>2 DEF LeaderScanSigned, LeaderBroadcast, LeaderScanSubmitted, Resync, ResyncAssign,
                docVars
  <2>3. CASE LeaderSetRetry
    <3>1. Written(f, "RETRY")
      BY <2>1, <2>3 DEF LeaderSetRetry, SetStatus, chainVars, Written
    <3>2. QED BY <3>1
  <2>4. CASE LeaderSaveSubmitted
    <3>1. Written(f, "SUBMITTED")
      BY <2>1, <2>4 DEF LeaderSaveSubmitted, SaveBroadcast, SetStatus, chainVars, Written, Busy
    <3>2. QED BY <3>1
  <2>8. CASE LeaderCannotSave
    <3>1. Written(f, "FAILED")
      BY <2>1, <2>8 DEF LeaderCannotSave, SaveBroadcast, SetStatus, chainVars, Written, Busy
    <3>2. QED BY <3>1
  <2>9. CASE ResyncMisread
    <3>1. leaderDoc \in Swaps
      BY <2>9 DEF ResyncMisread, TypeOK
    <3>2. Written(leaderDoc, "FAILED")
      BY <2>9, <3>1 DEF ResyncMisread, SetStatus, chainVars, Written
    <3>3. QED BY <3>2
  <2>5. CASE LeaderBroadcastFails
    <3>1. UNCHANGED status \/ Written(f, "FAILED")
      BY <2>1, <2>5 DEF LeaderBroadcastFails, SetStatus, chainVars, Written
    <3>2. QED BY <3>1
  <2>6. ASSUME NEW t \in Swaps, KeepWaiting(t) \/ TimeOut(t) \/ MintFailed(t) \/ Confirm(t)
        PROVE  UNCHANGED status \/ \E st : Written(t, st)
    <3>1. /\ t \in leaderTodo /\ status[t] \in {"SUBMITTED", "FAILED"} /\ UNCHANGED landed
      BY <2>1, <2>6
      DEF KeepWaiting, TimeOut, MintFailed, Confirm, Validating, chainVars
    <3>2. CASE KeepWaiting(t)
      BY <3>2 DEF KeepWaiting
    <3>3. CASE TimeOut(t)
      <4>1. Written(t, "RETRY")
        BY <3>1, <3>3 DEF TimeOut, SetStatus, Written
      <4>2. QED BY <4>1
    <3>4. CASE MintFailed(t)
      <4>1. Written(t, "FAILED")
        BY <3>1, <3>4 DEF MintFailed, SetStatus, Written
      <4>2. QED BY <4>1
    <3>5. CASE Confirm(t)
      <4>1. [hash |-> dstHash[t], ok |-> TRUE] \in landed
        BY <3>5 DEF Confirm, Result
      <4>2. dstHash[t] \in Hash
        BY <4>1 DEF TypeOK
      <4>3. dstHash[t].swap = t
        BY <4>2, NoHashIsNone DEF HashesMatch
      <4>4. IsMinted(t)
        BY <4>1, <4>3 DEF IsMinted
      <4>5. Written(t, "CONFIRMED")
        BY <3>1, <3>5, <4>4 DEF Confirm, SetStatus, Written
      <4>6. QED BY <4>5
    <3>6. QED BY <2>6, <3>2, <3>3, <3>4, <3>5
  <2>7. QED BY <1>5, <2>2, <2>3, <2>4, <2>5, <2>6, <2>8, <2>9 DEF Leader
<1>6. QED
  BY <1>1, <1>2, <1>3, <1>4, <1>5 DEF Next, Handler

\* A confirmed swap is in no copy from which a thread could take it up again, and
\* stays out of them also when FAILED has been saved over it.
THEOREM ConfirmedIsFinalSafe == Spec => ConfirmedIsFinal
<1> SUFFICES ASSUME NEW t \in Swaps
             PROVE  Spec => [](status[t] = "CONFIRMED" => [](status[t] \in {"CONFIRMED", "FAILED"}))
  BY DEF ConfirmedIsFinal
<1> DEFINE Final == status[t] \in {"CONFIRMED", "FAILED"} /\ t \notin managerTodo /\ t \notin leaderTodo
<1>1. IInv /\ status[t] = "CONFIRMED" => Final
  BY DEF IInv, CoreInv, CopyInv, ManagerCopy, LeaderCopy
<1>2. IInv /\ Final /\ [Next]_vars => Final'
  <2> SUFFICES ASSUME IInv, Final, [Next]_vars PROVE Final'
    OBVIOUS
  <2>1. status'[t] \in {"CONFIRMED", "FAILED"}
    BY StatusWriters DEF Written, IInv, TypeOK
  <2>2. t \notin managerTodo'
    <3>1. managerTodo' \subseteq managerTodo \/ ManagerScanRetry \/ ManagerScanUnsigned
      <4>1. CASE Manager \/ ManagerDies
        BY <4>1 DEF Manager, RetryDelete, RetryRead, RetryRestart, RetryBump, RetryWrite,
                    MarkSigned, ManagerDies
      <4>2. CASE HandleRead \/ Handler \/ CrashLeader
        BY <4>2 DEF HandleRead, Handler, Handle, HandleBump, HandleWrite, CrashLeader, managerVars
      <4>3. CASE \E s \in Signers : Signer(s) \/ SignerDies(s) \/ CrashSigner(s)
        BY <4>3 DEF Signer, SignerScan, Sign, SignerSkip, SignerFails, SignerCannotSave,
                    SignerDone, SignerDies, CrashSigner, managerVars
      <4>4. CASE Leader \/ LeaderDies
        BY <4>4 DEF Leader, LeaderScanSigned, LeaderSetRetry, LeaderBroadcast, LeaderSaveSubmitted,
                    LeaderCannotSave, SaveBroadcast, LeaderBroadcastFails, LeaderScanSubmitted, Confirm, KeepWaiting, TimeOut,
                    MintFailed, Validating, Resync, ResyncAssign, ResyncMisread, LeaderDies,
                    managerVars
      <4>5. CASE Drop \/ (\E ok \in BOOLEAN : Land(ok)) \/ (\E u \in Swaps : CooldownExpires(u))
                   \/ UNCHANGED vars
        BY <4>5 DEF Drop, Land, CooldownExpires, vars, managerVars
      <4>6. QED BY <4>1, <4>2, <4>3, <4>4, <4>5 DEF Next
    <3>2. QED BY <3>1 DEF ManagerScanRetry, ManagerScanUnsigned, WithStatus
  <2>3. t \notin leaderTodo'
    <3>1. leaderTodo' \subseteq leaderTodo \/ LeaderScanSigned \/ LeaderScanSubmitted
      <4>1. CASE Leader \/ LeaderDies \/ CrashLeader
        BY <4>1 DEF Leader, LeaderSetRetry, LeaderBroadcast, LeaderSaveSubmitted,
                    LeaderCannotSave, SaveBroadcast, LeaderBroadcastFails, Confirm, KeepWaiting, TimeOut, MintFailed, Validating,
                    Resync, ResyncAssign, ResyncMisread, LeaderDies, CrashLeader
      <4>2. CASE HandleRead \/ Handler \/ Manager \/ ManagerDies
        BY <4>2 DEF HandleRead, Handler, Handle, HandleBump, HandleWrite, Manager,
                    ManagerScanRetry, RetryDelete, RetryRead, RetryRestart, RetryBump, RetryWrite,
                    ManagerScanUnsigned, MarkSigned, ManagerDies, leaderVars
      <4>3. CASE \E s \in Signers : Signer(s) \/ SignerDies(s) \/ CrashSigner(s)
        BY <4>3 DEF Signer, SignerScan, Sign, SignerSkip, SignerFails, SignerCannotSave,
                    SignerDone, SignerDies, CrashSigner, leaderVars
      <4>4. CASE Drop \/ (\E ok \in BOOLEAN : Land(ok)) \/ (\E u \in Swaps : CooldownExpires(u))
                   \/ UNCHANGED vars
        BY <4>4 DEF Drop, Land, CooldownExpires, vars, leaderVars
      <4>5. QED BY <4>1, <4>2, <4>3, <4>4 DEF Next
    <3>2. QED BY <3>1 DEF LeaderScanSigned, LeaderScanSubmitted, WithStatus
  <2>4. QED BY <2>1, <2>2, <2>3
<1>3. Final => status[t] \in {"CONFIRMED", "FAILED"}
  OBVIOUS
<1> HIDE DEF Final
<1>4. QED BY <1>1, <1>2, <1>3, Invariance, PTL DEF Spec

-----------------------------------------------------------------------------
(* EthToSecret implements Transfer                                         *)

\* What is minted stays minted, and a block adds at most one mint.
LEMMA MintedGrows ==
  ASSUME TypeOK, [Next]_vars
  PROVE  \/ UNCHANGED landed
         \/ UNCHANGED status /\ \E t \in Swaps :
              {u \in Swaps : IsMinted(u)}' = {u \in Swaps : IsMinted(u)} \union {t}
         \/ UNCHANGED status /\ {u \in Swaps : IsMinted(u)}' = {u \in Swaps : IsMinted(u)}
<1>1. ASSUME NEW ok \in BOOLEAN, Land(ok)
      PROVE  /\ UNCHANGED status
             /\ \/ {u \in Swaps : IsMinted(u)}' = {u \in Swaps : IsMinted(u)}
                \/ \E t \in Swaps :
                     {u \in Swaps : IsMinted(u)}' = {u \in Swaps : IsMinted(u)} \union {t}
  <2> DEFINE h == Head(mempool)
  <2> DEFINE r == [hash |-> h, ok |-> ok]
  <2>1. h \in Hash
    BY <1>1, HeadTailProperties DEF Land, TypeOK
  <2>2. h.swap \in Swaps
    BY <2>1 DEF Hash
  <2>3. landed' = landed \union {r} /\ UNCHANGED status
    BY <1>1 DEF Land, docVars
  <2>4. r.ok = ok /\ r.hash = h
    OBVIOUS
  <2> HIDE DEF r
  <2>5. CASE ok
    <3>1. \A u \in Swaps : IsMinted(u)' <=> IsMinted(u) \/ h.swap = u
      BY <2>3, <2>4, <2>5, Zenon DEF IsMinted
    <3>2. {u \in Swaps : IsMinted(u)}' = {u \in Swaps : IsMinted(u)} \union {h.swap}
      BY <2>2, <3>1
    <3>3. QED BY <2>2, <2>3, <3>2
  <2>6. CASE ~ok
    <3>1. \A u \in Swaps : IsMinted(u)' <=> IsMinted(u)
      BY <2>3, <2>4, <2>6, Zenon DEF IsMinted
    <3>2. QED BY <2>3, <3>1
  <2>7. QED BY <2>5, <2>6
<1>2. CASE HandleRead \/ Handler \/ Manager \/ ManagerDies \/ CrashLeader
  BY <1>2 DEF HandleRead, Handler, Handle, HandleBump, HandleWrite, Manager, ManagerScanRetry,
              RetryDelete, RetryRead, RetryRestart, RetryBump, RetryWrite, ManagerScanUnsigned,
              MarkSigned, ManagerDies, CrashLeader, chainVars
<1>3. CASE \E s \in Signers : Signer(s) \/ SignerDies(s) \/ CrashSigner(s)
  BY <1>3 DEF Signer, SignerScan, Sign, SignerSkip, SignerFails, SignerCannotSave, SignerDone,
              SignerDies, CrashSigner, chainVars
<1>4. CASE Leader \/ LeaderDies
  BY <1>4 DEF Leader, LeaderScanSigned, LeaderSetRetry, LeaderBroadcast, LeaderSaveSubmitted,
              LeaderCannotSave, SaveBroadcast,
              LeaderBroadcastFails, LeaderScanSubmitted, Confirm, KeepWaiting, TimeOut,
              MintFailed, Validating, Resync, ResyncAssign, ResyncMisread, LeaderDies,
              chainVars
<1>5. CASE Drop \/ (\E u \in Swaps : CooldownExpires(u)) \/ UNCHANGED vars
  BY <1>5 DEF Drop, CooldownExpires, vars, chainVars
<1>6. QED BY <1>1, <1>2, <1>3, <1>4, <1>5 DEF Next

\* The stages of a transfer, from the statuses of the swaps.
Stages == [t \in Swaps |-> Stage(status[t])]

LEMMA TransferInit == Init => DepositTransfer!Init
<1> SUFFICES ASSUME Init PROVE DepositTransfer!Init
  OBVIOUS
<1>1. Stages = [t \in Swaps |-> "unknown"]
  BY DEF Init, Stages, Stage
<1>2. {t \in Swaps : IsMinted(t)} = {}
  BY DEF Init, IsMinted
<1>3. QED BY <1>1, <1>2 DEF DepositTransfer!Init, Stages

\* Each write of a status is a report, or changes nothing that Transfer sees.
LEMMA WrittenIsReported ==
  ASSUME TypeOK, NEW t, NEW st, Written(t, st)
  PROVE  Stages' = Stages \/ DepositTransfer!Next
<1> USE DEF Written
<1>1. Stages' = [Stages EXCEPT ![t] = Stage(st)]
  BY DEF Stages, TypeOK
<1>2. {u \in Swaps : IsMinted(u)}' = {u \in Swaps : IsMinted(u)}
  BY DEF IsMinted
<1>3. t \in Swaps /\ Stages[t] = Stage(status[t])
  BY DEF Stages
<1>4. CASE Stage(st) = Stage(status[t])
  BY <1>1, <1>3, <1>4 DEF Stages
<1>5. CASE st = "FAILED"
  <2>1. DepositTransfer!Fail(t)
    BY <1>1, <1>2, <1>3, <1>5 DEF DepositTransfer!Fail, DepositTransfer!Report, Stages, Stage
  <2>2. QED BY <1>3, <2>1 DEF DepositTransfer!Next
<1>6. CASE st \in {"UNSIGNED", "SIGNED", "SUBMITTED", "RETRY"} /\ status[t] \in {"none", "FAILED"}
  <2>1. DepositTransfer!Open(t)
    BY <1>1, <1>2, <1>3, <1>6 DEF DepositTransfer!Open, DepositTransfer!Report, Stages, Stage
  <2>2. QED BY <1>3, <2>1 DEF DepositTransfer!Next
<1>7. CASE st = "CONFIRMED" /\ IsMinted(t) /\ status[t] \in {"SUBMITTED", "FAILED"}
  <2>1. DepositTransfer!Confirm(t)
    BY <1>1, <1>2, <1>3, <1>7 DEF DepositTransfer!Confirm, DepositTransfer!Report, Stages, Stage
  <2>2. QED BY <1>3, <2>1 DEF DepositTransfer!Next
<1>8. QED
  BY <1>4, <1>5, <1>6, <1>7 DEF Stage

LEMMA TransferStep ==
  ASSUME IInv, [Next]_vars
  PROVE  DepositTransfer!Next \/ (Stages' = Stages /\ UNCHANGED {u \in Swaps : IsMinted(u)})
<1> DEFINE Done == {u \in Swaps : IsMinted(u)}
<1>1. TypeOK
  BY DEF IInv
<1>2. CASE UNCHANGED landed
  <2>1. Done' = Done
    BY <1>2 DEF IsMinted
  <2>2. CASE UNCHANGED status
    BY <2>1, <2>2 DEF Stages
  <2>3. CASE \E t, st : Written(t, st)
    BY <1>1, <2>1, <2>3, WrittenIsReported
  <2>4. QED BY <2>2, <2>3, StatusWriters
<1>3. ASSUME UNCHANGED status, NEW t \in Swaps, Done' = Done \union {t}
      PROVE  DepositTransfer!Next
  <2>1. DepositTransfer!CarryOut(t)
    BY <1>3 DEF DepositTransfer!CarryOut
  <2>2. QED BY <2>1 DEF DepositTransfer!Next
<1>4. CASE UNCHANGED status /\ Done' = Done
  BY <1>4 DEF Stages
<1>5. QED BY <1>1, <1>2, <1>3, <1>4, MintedGrows

\* The threads, their old copies and every fault together implement Transfer, for
\* any number of swaps and signers.
THEOREM DepositsImplementTransfer == Spec => ImplementsTransfer
<1>1. IInv /\ [Next]_vars
        => [DepositTransfer!Next]_<<Swaps, {t \in Swaps : IsMinted(t)}, [t \in Swaps |-> Stage(status[t])]>>
  BY TransferStep DEF Stages
<1>2. QED
  BY <1>1, TransferInit, Invariance, PTL DEF Spec, ImplementsTransfer, DepositTransfer!Spec
================================================================================
