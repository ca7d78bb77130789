----------------------------- MODULE BridgeProcess -----------------------------
(***************************************************************************)
(* One process of the bridge under supervisord: it loads its configuration,*)
(* sets up secretcli, builds its key store and its objects, starts the     *)
(* threads of its mode, waits for Ctrl-C and stops what it started.  What  *)
(* the threads do is in the other modules, except that two of them send    *)
(* Ethereum transactions (EthAccount).  Here they start, end and die.      *)
(*                                                                         *)
(* The home directory of secretcli outlives the process; supervisord       *)
(* starts the process again whenever its exit code is not 0.               *)
(***************************************************************************)
EXTENDS EthAccount, Sequences, SequencesExt

CONSTANTS
  Environments,   \* what os.environ may hold of the fields below
  ConfigFile,     \* the file of SWAP_ENV
  Tokens,         \* labels of which the PKCS#11 module has one token, with a key
  Cosigners,      \* names of the keys of config.secret_signers, in their order
  MaxFailures     \* bound: steps of a start that fail, threads that die, kills

ASSUME ProcessAssumption == Cosigners \in Seq(STRING) /\ MaxFailures \in Nat

VARIABLES
  env,            \* os.environ, the same at every start
  config,
  home,           \* what secretcli's home holds
  pc,             \* the main thread
  setupAt,        \* the next step of configure_secretcli
  runnerAt,       \* the next runner to start or to stop
  exitCode,
  thread,         \* "new", "running" or "ended"
  stopped,        \* threads whose stop event is set
  failures,       \* failures so far
  cutShort        \* history: a set-up ended after its first key and before its end

processVars == <<env, config, home, pc, setupAt, runnerAt, exitCode, thread, stopped>>
historyVars == <<failures, cutShort>>
allVars == <<processVars, historyVars, accountVars>>

\* The listeners of EtherLeader and of SecretManager are left out: they are
\* daemons, nobody asks whether they live, and stop() stops them as well.
Threads == {"EtherSigner", "EtherSignerListener", "Secret20Signer", "EtherLeader",
            "Secret20Leader", "SecretManager"}

\* The others end with the process.
NonDaemons == {"EtherLeader", "Secret20Leader", "SecretManager"}

ASSUME SendersAssumption == Senders = {"EtherSignerListener", "EtherLeader"}

-----------------------------------------------------------------------------
(* Configuration                                                           *)

Fields == {"mode", "network", "token", "eth_private_key"}
Required == {"mode", "network"}
Upper == [mode |-> "MODE", network |-> "NETWORK", token |-> "TOKEN",
          eth_private_key |-> "ETH_PRIVATE_KEY"]

\* get_config looks in the environment first, and for the name as it is first.
Places(f) == << <<env, f>>, <<env, Upper[f]>>, <<ConfigFile, f>>, <<ConfigFile, Upper[f]>> >>
FoundIn(f) == {i \in 1..4 : Places(f)[i][2] \in DOMAIN Places(f)[i][1]}
IsMissing(f) == FoundIn(f) = {}
Loaded(f) ==
  IF IsMissing(f) THEN "None"
    ELSE LET i == CHOOSE i \in FoundIn(f) : \A j \in FoundIn(f) : i <= j
         IN  Places(f)[i][1][Places(f)[i][2]]

\* What a field can be loaded with.
Values == {"None"} \union UNION {Range(e) : e \in Environments \union {ConfigFile}}

IsLeader == config.mode = "leader"

\* bytes_from_hex compares one character with the prefix and never removes it,
\* so bytes.fromhex refuses a key that begins with 0x.
IsHex(s) == s = "hex"

\* The token is found, once, and so is the key.
Pkcs11Opens == config.token \in Tokens

KeyStoreOpens ==
  IF config.token # "None" THEN Pkcs11Opens ELSE IsHex(config.eth_private_key)

Runners ==
  <<"EtherSigner", "Secret20Signer">>
    \o (IF IsLeader THEN <<"EtherLeader", "Secret20Leader">> ELSE << >>)

-----------------------------------------------------------------------------
(* The states                                                              *)

Keys == Range(Cosigners) \union {"multisig", "own"}

\* What configure_secretcli does when there are no keys: it sets the options,
\* adds the keys of the signers one by one, the multisig key and its own key,
\* copies the transaction key, and tries two queries.
SetupSteps ==
  <<"options">> \o Cosigners \o <<"multisig", "own", "id_tx_io", "queries">>

ProcessTypeOK ==
  /\ AccountTypeOK
  /\ env \in Environments
  /\ config \in [Fields -> Values]
  /\ home \subseteq Range(SetupSteps)
  /\ pc \in {"configure", "list", "setup", "build", "start", "watch", "stop", "join", "down"}
  /\ setupAt \in 1..Len(SetupSteps)
  /\ runnerAt \in 1..4
  /\ exitCode \in {0, 1}
  /\ thread \in [Threads -> {"new", "running", "ended"}]
  /\ stopped \subseteq Threads
  /\ failures \in 0..MaxFailures
  /\ cutShort \in BOOLEAN

ProcessInit ==
  /\ AccountInit
  /\ env \in Environments
  /\ config = [f \in Fields |-> "None"]
  /\ home = {}
  /\ pc = "configure" /\ setupAt = 1 /\ runnerAt = 1 /\ exitCode = 0
  /\ thread = [t \in Threads |-> "new"]
  /\ stopped = {}
  /\ failures = 0 /\ cutShort = FALSE

IsRunning(t) == thread[t] = "running"
Failure == failures < MaxFailures /\ failures' = failures + 1
Threaded(t, st) == thread' = [thread EXCEPT ![t] = st]

\* The main thread goes on; nothing else changes but what the action says.
Main(from, to) == pc = from /\ pc' = to
-----------------------------------------------------------------------------
(* The main thread                                                         *)

\* The process is gone, and with it what its threads have not broadcast.
Down(code) ==
  /\ pc' = "down" /\ exitCode' = code
  /\ setupAt' = 1 /\ runnerAt' = 1
  /\ thread' = [t \in Threads |-> "new"] /\ stopped' = {}
  /\ prepared' = [t \in Senders |-> NoTx]
  /\ contended' = [t \in Senders |-> FALSE]
  /\ config' = [f \in Fields |-> "None"]
  /\ UNCHANGED <<env, nextNonce, pool>>

LoadConfig ==
  /\ Main("configure", "list")
  /\ ~\E f \in Required : IsMissing(f)
  /\ config' = [f \in Fields |-> Loaded(f)]
  /\ UNCHANGED <<env, home, setupAt, runnerAt, exitCode, thread, stopped, historyVars,
                 accountVars>>

LoadConfigFails ==
  /\ pc = "configure"
  /\ \E f \in Required : IsMissing(f)
  /\ Down(1)
  /\ UNCHANGED <<home, historyVars>>

\* Mutant: an option that is set counts as a set-up home.
HasAnything == home # {}

\* `secretcli keys list` is not empty.
HasKeys == home \cap Keys # {}

AlreadySetUp ==
  /\ Main("list", "build")
  /\ HasKeys
  /\ UNCHANGED <<env, config, home, setupAt, runnerAt, exitCode, thread, stopped, historyVars,
                 accountVars>>

BeginSetup ==
  /\ Main("list", "setup")
  /\ ~HasKeys
  /\ UNCHANGED <<env, config, home, setupAt, runnerAt, exitCode, thread, stopped, historyVars,
                 accountVars>>

\* Mutant: the set-up counts on after its last step.
SetupRunsOver ==
  /\ Main("setup", IF setupAt = Len(SetupSteps) THEN "build" ELSE "setup")
  /\ home' = home \union {SetupSteps[setupAt]}
  /\ setupAt' = setupAt + 1
  /\ UNCHANGED <<env, config, runnerAt, exitCode, thread, stopped, historyVars, accountVars>>

SetupStep ==
  /\ Main("setup", IF setupAt = Len(SetupSteps) THEN "build" ELSE "setup")
  /\ home' = home \union {SetupSteps[setupAt]}
  /\ setupAt' = IF setupAt = Len(SetupSteps) THEN 1 ELSE setupAt + 1
  /\ UNCHANGED <<env, config, runnerAt, exitCode, thread, stopped, historyVars, accountVars>>

\* A command fails (RuntimeError, exit code 1), the key file cannot be copied, or
\* the import of the key writes to stderr, with or without effect.
SetupFails ==
  /\ pc = "setup" /\ Failure
  /\ Down(1)
  /\ home' \in {home, home \union {SetupSteps[setupAt]}}
  /\ cutShort' = (cutShort \/ home' \cap Keys # {})

\* The key store, the database, and the objects with their first queries.
Build ==
  /\ Main("build", "start")
  /\ KeyStoreOpens
  /\ UNCHANGED <<env, config, home, setupAt, runnerAt, exitCode, thread, stopped, historyVars,
                 accountVars>>

BuildFails ==
  /\ pc = "build"
  /\ (~KeyStoreOpens /\ UNCHANGED failures) \/ Failure
  /\ Down(1)
  /\ UNCHANGED <<home, cutShort>>

StartRunner ==
  /\ Main("start", IF runnerAt = Len(Runners) THEN "watch" ELSE "start")
  /\ Threaded(Runners[runnerAt], "running")
  /\ runnerAt' = IF runnerAt = Len(Runners) THEN 1 ELSE runnerAt + 1
  /\ UNCHANGED <<env, config, home, setupAt, exitCode, stopped, historyVars, accountVars>>

\* Ctrl-C while the runners are started: the loop is not within the try.
InterruptStart ==
  /\ Main("start", "join")
  /\ Failure
  /\ exitCode' = 1
  /\ UNCHANGED <<env, config, home, setupAt, runnerAt, thread, stopped, cutShort, accountVars>>

\* Ctrl-C.
Interrupt ==
  /\ Main("watch", "stop")
  /\ UNCHANGED <<env, config, home, setupAt, runnerAt, exitCode, thread, stopped, historyVars,
                 accountVars>>

\* Mutant: Secret20Leader.stop forgets its manager.
StopsWithoutManager(r) ==
  {r} \union IF r = "EtherSigner" THEN {"EtherSignerListener"} ELSE {}

\* stop() of a runner, which stops its listener and its manager too.
Stops(r) ==
  {r} \union CASE r = "EtherSigner" -> {"EtherSignerListener"}
               [] r = "Secret20Leader" -> {"SecretManager"}
               [] OTHER -> {}

\* The finally clause of run_all, which passes over runners that are not alive.
StopRunner ==
  /\ Main("stop", IF runnerAt = Len(Runners) THEN "join" ELSE "stop")
  /\ stopped' = stopped \union
                  (IF IsRunning(Runners[runnerAt]) THEN Stops(Runners[runnerAt]) ELSE {})
  /\ runnerAt' = IF runnerAt = Len(Runners) THEN 1 ELSE runnerAt + 1
  /\ UNCHANGED <<env, config, home, setupAt, exitCode, thread, historyVars, accountVars>>

\* The interpreter waits for the threads that are not daemons.
Exit ==
  /\ pc = "join"
  /\ \A t \in NonDaemons : ~IsRunning(t)
  /\ Down(exitCode)
  /\ UNCHANGED <<home, historyVars>>

\* A signal or a crash of the machine: supervisord's own stop signal is TERM,
\* which no code handles.
Killed ==
  /\ pc # "down" /\ Failure
  /\ Down(1)
  /\ cutShort' = (cutShort \/ (pc = "setup" /\ HasKeys))
  /\ UNCHANGED home

\* autorestart=unexpected
Restart ==
  /\ Main("down", "configure")
  /\ exitCode # 0
  /\ exitCode' = 0
  /\ UNCHANGED <<env, config, home, setupAt, runnerAt, thread, stopped, historyVars, accountVars>>

MainThread ==
  \/ LoadConfig \/ LoadConfigFails \/ AlreadySetUp \/ BeginSetup \/ SetupStep
  \/ Build \/ StartRunner \/ StopRunner \/ Exit

-----------------------------------------------------------------------------
(* The other threads                                                       *)

\* A thread's run method starts another thread.
Child(t) ==
  CASE t = "EtherSigner" -> {"EtherSignerListener"}
    [] t = "Secret20Leader" -> {"SecretManager"}
    [] OTHER -> {}

StartChild(t) ==
  /\ IsRunning(t)
  /\ \E c \in Child(t) : thread[c] = "new" /\ Threaded(c, "running")
  /\ UNCHANGED <<env, config, home, pc, setupAt, runnerAt, exitCode, stopped, historyVars,
                 accountVars>>

HasStarted(t) == \A c \in Child(t) : thread[c] # "new"

\* Mutant: only the listener is stopped.
StopDeadListener ==
  /\ IsRunning("EtherSigner") /\ thread["EtherSignerListener"] = "ended"
  /\ stopped' = stopped \union {"EtherSignerListener"}
  /\ "EtherSigner" \notin stopped
  /\ UNCHANGED <<env, config, home, pc, setupAt, runnerAt, exitCode, thread, historyVars, accountVars>>

\* EtherSigner.run finds its listener dead.
NoticeDeadListener ==
  /\ IsRunning("EtherSigner") /\ thread["EtherSignerListener"] = "ended"
  /\ stopped' = stopped \union Stops("EtherSigner")
  /\ "EtherSigner" \notin stopped
  /\ UNCHANGED <<env, config, home, pc, setupAt, runnerAt, exitCode, thread, historyVars, accountVars>>

\* The loop of a thread ends when its event is set, between two transactions.
Finish(t) ==
  /\ IsRunning(t) /\ HasStarted(t) /\ t \in stopped
  /\ t \in Senders => prepared[t] = NoTx
  /\ Threaded(t, "ended")
  /\ UNCHANGED <<env, config, home, pc, setupAt, runnerAt, exitCode, stopped, historyVars, accountVars>>

Ends(t) ==
  /\ IsRunning(t)
  /\ Threaded(t, "ended")
  /\ IF t \in Senders
       THEN /\ prepared' = [prepared EXCEPT ![t] = NoTx]
            /\ contended' = [contended EXCEPT ![t] = FALSE]
       ELSE UNCHANGED <<prepared, contended>>
  /\ UNCHANGED <<env, config, home, pc, setupAt, runnerAt, exitCode, stopped, cutShort, nextNonce, pool>>

\* An exception that nothing catches, in a query, a callback or a save.
Die(t) == Failure /\ Ends(t)

\* On mainnet the price comes from BridgeOracle and is multiplied by 1e9, which
\* makes a float of it: neither the ABI nor RLP encodes one, and the exception
\* is no ValueError.  A source that does not answer ends the thread as well.
CannotPrepare(t) ==
  /\ config.network = "mainnet" /\ HasStarted(t)
  /\ Ends(t)
  /\ UNCHANGED failures

CanSend(t) == IsRunning(t) /\ HasStarted(t) /\ UNCHANGED <<processVars, historyVars>>

SendStep(t) ==
  /\ CanSend(t)
  /\ \/ config.network # "mainnet" /\ Prepare(t)
     \/ Send(t)
     \/ Refused(t)

MineStep == Mine /\ UNCHANGED <<processVars, historyVars>>

\* What thread t does by itself.
Thread(t) ==
  \/ StartChild(t) \/ Finish(t)
  \/ t = "EtherSigner" /\ NoticeDeadListener

ProcessNext ==
  \/ MainThread
  \/ SetupFails \/ BuildFails \/ InterruptStart \/ Interrupt \/ Killed \/ Restart
  \/ \E t \in Threads : Thread(t) \/ Die(t)
  \/ \E t \in Senders : SendStep(t) \/ CannotPrepare(t)
  \/ MineStep

ProcessSpec == ProcessInit /\ [][ProcessNext]_allVars

\* Threads are scheduled, and a node answers a broadcast.  (Each thread takes
\* finitely many of these steps, so fairness to their union is enough.)
ProcessFairness ==
  /\ WF_allVars(MainThread)
  /\ WF_allVars(\E t \in Threads : Thread(t))
  /\ WF_allVars(\E t \in Senders : CanSend(t) /\ (Send(t) \/ Refused(t)))

ProcessFairSpec == ProcessSpec /\ ProcessFairness

-----------------------------------------------------------------------------
(* Properties                                                              *)

\* A process that runs its threads has a secretcli home with everything in it,
\* unless an earlier set-up was cut short after its first key: configure_secretcli
\* only asks whether there is any key, so that home is never completed.
ConfiguredUnlessCutShort ==
  pc \in {"build", "start", "watch", "stop", "join"} /\ ~cutShort
    => home = Range(SetupSteps)

\* A signer whose listener has died does not go on as if it were listening: its
\* thread ends too.
SignerStopsWithListener ==
  IsRunning("EtherSigner") /\ thread["EtherSignerListener"] = "ended"
    ~> ~IsRunning("EtherSigner")

\* Secret20Leader has ended on its own: nobody stops its manager any more.
IsOrphaned ==
  /\ thread["Secret20Leader"] = "ended" /\ "Secret20Leader" \notin stopped
  /\ IsRunning("SecretManager")

\* After Ctrl-C the process ends, in the middle of a transaction or while threads
\* are dying: only a manager whose leader died before it keeps it alive.
InterruptEndsProcess == pc = "stop" ~> pc = "down" \/ IsOrphaned
=============================================================================
