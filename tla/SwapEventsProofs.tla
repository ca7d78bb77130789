--------------------------- MODULE SwapEventsProofs ---------------------------
(***************************************************************************)
(* Safety of SwapEvents for a chain of any length, blocks with any logs,   *)
(* any number of confirmations and first block, any stops and failures.    *)
(*                                                                         *)
(* The inductive invariant IInv follows a deposit through a run of the     *)
(* process.  RangeInv: the range of catch_up was on the chain, and deep    *)
(* enough, when it was read, so that later blocks do not change what is in *)
(* it.  PassInv: during a pass, each deposit of its event is still in todo *)
(* or settled; the pass before it settled those of the other event.        *)
(* FilterInv: until the listener polls them, the filters have answered     *)
(* nothing.  HandlingInv: what is handled is confirmed, and only an event  *)
(* that is settled leaves todo.                                            *)
(***************************************************************************)
EXTENDS SwapEvents, OrderLemmas

LogEntry == [tx : Nat, kind : Kinds]

-----------------------------------------------------------------------------
(* What is in the chain                                                    *)

At(log, b, i) == [block |-> b, index |-> i, tx |-> log[i].tx, kind |-> log[i].kind]
InBlock(log, b) == {At(log, b, i) : i \in DOMAIN log}
DepositsOf(c, blocks) == UNION {InBlock(c[b], b) : b \in blocks \cap DOMAIN c}
AllOf(c) == DepositsOf(c, 1..Len(c))

LEMMA SameDeposits == \A blocks : Deposits(blocks) = DepositsOf(chain, blocks)
BY DEF Deposits, DepositsOf, InBlock, At

LEMMA Blocks ==
  ASSUME NEW c \in Seq(Logs), Len(c) <= MaxHeight
  PROVE  /\ Len(c) \in Nat /\ DOMAIN c = 1..Len(c) /\ DOMAIN c \subseteq 1..MaxHeight
         /\ \A b \in DOMAIN c : c[b] \in Logs /\ c[b] \in Seq(LogEntry)
<1>1. Len(c) \in Nat /\ DOMAIN c = 1..Len(c) /\ \A b \in DOMAIN c : c[b] \in Logs
  BY LenProperties
<1>2. Logs \subseteq Seq(LogEntry) /\ MaxHeight \in Nat
  BY EventsAssumption DEF LogEntry
<1>3. QED BY <1>1, <1>2

LEMMA DepositTypes ==
  ASSUME NEW c \in Seq(Logs), Len(c) <= MaxHeight
  PROVE  /\ \A d \in AllOf(c) : d \in Deposit /\ d.block \in DOMAIN c
         /\ \A d \in AllOf(c) : d.index \in DOMAIN c[d.block] /\ d = At(c[d.block], d.block, d.index)
         /\ \A blocks, d : d \in DepositsOf(c, blocks) <=> d \in AllOf(c) /\ d.block \in blocks
<1> USE Blocks
<1>1. ASSUME NEW b \in DOMAIN c, NEW i \in DOMAIN c[b]
      PROVE  At(c[b], b, i) \in Deposit
  <2>1. c[b] \in Seq(LogEntry) /\ b \in 1..MaxHeight
    OBVIOUS
  <2>2. i \in Nat /\ c[b][i] \in LogEntry
    BY <2>1, LenProperties
  <2>3. c[b][i].tx \in Nat /\ c[b][i].kind \in Kinds
    BY <2>2 DEF LogEntry
  <2>4. QED BY <2>1, <2>2, <2>3 DEF At, Deposit
<1>2. \A blocks, d : d \in DepositsOf(c, blocks) <=>
        \E b \in blocks \cap DOMAIN c : \E i \in DOMAIN c[b] : d = At(c[b], b, i)
  BY DEF DepositsOf, InBlock
<1>3. \A d : d \in AllOf(c) <=> \E b \in DOMAIN c : \E i \in DOMAIN c[b] : d = At(c[b], b, i)
  BY <1>2 DEF AllOf
<1>4. \A b, i : At(c[b], b, i).block = b /\ At(c[b], b, i).index = i
  BY DEF At
<1>5. ASSUME NEW d \in AllOf(c)
      PROVE  /\ d \in Deposit /\ d.block \in DOMAIN c
             /\ d.index \in DOMAIN c[d.block] /\ d = At(c[d.block], d.block, d.index)
  <2>1. PICK b \in DOMAIN c : \E i \in DOMAIN c[b] : d = At(c[b], b, i)
    BY <1>3
  <2>2. PICK i \in DOMAIN c[b] : d = At(c[b], b, i)
    BY <2>1
  <2>3. d.block = b /\ d.index = i
    BY <1>4, <2>2
  <2>4. QED BY <1>1, <2>2, <2>3
<1>6. ASSUME NEW blocks, NEW d
      PROVE  d \in DepositsOf(c, blocks) <=> d \in AllOf(c) /\ d.block \in blocks
  <2>1. ASSUME d \in DepositsOf(c, blocks) PROVE d \in AllOf(c) /\ d.block \in blocks
    <3>1. PICK b \in blocks \cap DOMAIN c : \E i \in DOMAIN c[b] : d = At(c[b], b, i)
      BY <1>2, <2>1
    <3>2. d \in AllOf(c)
      BY <1>3, <3>1
    <3>3. d.block = b
      BY <1>4, <3>1
    <3>4. QED BY <3>2, <3>3
  <2>2. ASSUME d \in AllOf(c), d.block \in blocks PROVE d \in DepositsOf(c, blocks)
    <3>1. d.block \in blocks \cap DOMAIN c /\ d.index \in DOMAIN c[d.block]
          /\ d = At(c[d.block], d.block, d.index)
      BY <1>5, <2>2
    <3>2. QED BY <1>2, <3>1
  <2>3. QED BY <2>1, <2>2
<1>7. QED BY <1>5, <1>6

\* A chain has a finite number of deposits.
LEMMA FiniteDeposits ==
  ASSUME NEW c \in Seq(Logs), Len(c) <= MaxHeight
  PROVE  IsFiniteSet(AllOf(c))
<1> USE Blocks
<1>1. ASSUME NEW b \in DOMAIN c PROVE IsFiniteSet(InBlock(c[b], b))
  <2> DEFINE f == [i \in DOMAIN c[b] |-> At(c[b], b, i)]
  <2>1. Len(c[b]) \in Nat /\ DOMAIN c[b] = 1..Len(c[b])
    <3>1. c[b] \in Seq(LogEntry)
      OBVIOUS
    <3>2. QED BY <3>1, LenProperties
  <2>2. IsFiniteSet(DOMAIN c[b])
    BY <2>1, FS_Interval
  <2>3. f \in Surjection(DOMAIN c[b], InBlock(c[b], b))
    BY DEF Surjection, InBlock
  <2>4. QED BY <2>2, <2>3, FS_Surjection
<1> DEFINE g == [b \in DOMAIN c |-> InBlock(c[b], b)]
           T == {InBlock(c[b], b) : b \in DOMAIN c}
<1>2. IsFiniteSet(DOMAIN c)
  BY FS_Interval
<1>3. g \in Surjection(DOMAIN c, T)
  BY DEF Surjection
<1>4. IsFiniteSet(T)
  BY <1>2, <1>3, FS_Surjection
<1>5. \A t \in T : IsFiniteSet(t)
  BY <1>1
<1>6. IsFiniteSet(UNION T)
  BY <1>4, <1>5, FS_UNION
<1>7. AllOf(c) = UNION T
  BY DEF AllOf, DepositsOf
<1>8. QED BY <1>6, <1>7

\* A new block leaves the deposits of the earlier ones as they are.
LEMMA NewBlock ==
  ASSUME NEW c \in Seq(Logs), NEW log \in Logs, Len(c) + 1 <= MaxHeight
  PROVE  /\ Append(c, log) \in Seq(Logs) /\ Len(Append(c, log)) = Len(c) + 1
         /\ \A d : d \in AllOf(Append(c, log)) /\ d.block <= Len(c) => d \in AllOf(c)
         /\ AllOf(c) \subseteq AllOf(Append(c, log))
<1> DEFINE n == Append(c, log)
<1>1. Len(c) \in Nat /\ DOMAIN c = 1..Len(c) /\ MaxHeight \in Nat
  BY LenProperties, EventsAssumption
<1>2. n \in Seq(Logs) /\ Len(n) = Len(c) + 1 /\ \A b \in DOMAIN c : b \in DOMAIN n /\ n[b] = c[b]
  BY <1>1, AppendProperties, LenProperties
<1>3. Len(c) <= MaxHeight /\ Len(n) <= MaxHeight
  BY <1>1, <1>2
<1> HIDE DEF n
<1>4. DOMAIN n = 1..(Len(c) + 1)
  BY <1>2, LenProperties
<1>5. \A d : d \in AllOf(c) <=> \E b \in DOMAIN c : \E i \in DOMAIN c[b] : d = At(c[b], b, i)
  BY <1>1 DEF AllOf, DepositsOf, InBlock
<1>6. \A d : d \in AllOf(n) <=> \E b \in DOMAIN n : \E i \in DOMAIN n[b] : d = At(n[b], b, i)
  BY <1>2, <1>4 DEF AllOf, DepositsOf, InBlock
<1>7. ASSUME NEW d \in AllOf(n), d.block <= Len(c) PROVE d \in AllOf(c)
  <2>1. d.block \in DOMAIN n /\ d.index \in DOMAIN n[d.block]
        /\ d = At(n[d.block], d.block, d.index)
    BY <1>2, <1>3, DepositTypes
  <2>2. d.block \in DOMAIN c
    BY <1>1, <1>4, <1>7, <2>1
  <2>3. QED BY <1>2, <1>5, <2>1, <2>2
<1>8. AllOf(c) \subseteq AllOf(n)
  BY <1>2, <1>5, <1>6
<1>9. QED BY <1>2, <1>7, <1>8 DEF n

-----------------------------------------------------------------------------
(* What is in a sequence                                                   *)

LEMMA RangeOfTail ==
  ASSUME NEW T, NEW s \in Seq(T), s # << >>
  PROVE  /\ Head(s) \in T /\ Head(s) \in Range(s) /\ Tail(s) \in Seq(T)
         /\ \A x : x \in Range(s) <=> x = Head(s) \/ x \in Range(Tail(s))
<1>1. Len(s) \in Nat /\ Len(s) > 0 /\ DOMAIN s = 1..Len(s) /\ \A i \in DOMAIN s : s[i] \in T
  BY LenProperties, EmptySeq
<1>2. /\ Tail(s) \in Seq(T) /\ DOMAIN Tail(s) = 1..(Len(s) - 1)
      /\ \A i \in DOMAIN Tail(s) : Tail(s)[i] = s[i + 1]
  BY <1>1, LenProperties
<1>3. Head(s) = s[1]
  OBVIOUS
<1>4. ASSUME NEW i \in DOMAIN s PROVE i = 1 \/ (i - 1 \in DOMAIN Tail(s) /\ Tail(s)[i - 1] = s[i])
  <2>1. CASE i = 1 BY <2>1
  <2>2. CASE i # 1
    <3>1. i - 1 \in DOMAIN Tail(s) /\ (i - 1) + 1 = i
      BY <1>1, <1>2, <2>2
    <3>2. QED BY <1>2, <3>1
  <2>3. QED BY <2>1, <2>2
<1>5. \A i \in DOMAIN Tail(s) : i + 1 \in DOMAIN s /\ Tail(s)[i] = s[i + 1]
  BY <1>1, <1>2
<1>6. QED BY <1>1, <1>2, <1>3, <1>4, <1>5 DEF Range

LEMMA RangeOfConcat ==
  ASSUME NEW T, NEW s \in Seq(T), NEW t \in Seq(T)
  PROVE  s \o t \in Seq(T) /\ \A x : x \in Range(s \o t) <=> x \in Range(s) \/ x \in Range(t)
<1> DEFINE u == s \o t
<1>1. /\ u \in Seq(T) /\ DOMAIN u = 1..(Len(s) + Len(t))
      /\ \A i \in 1..(Len(s) + Len(t)) : u[i] = IF i <= Len(s) THEN s[i] ELSE t[i - Len(s)]
  BY ConcatProperties, LenProperties
<1>2. /\ Len(s) \in Nat /\ DOMAIN s = 1..Len(s)
      /\ Len(t) \in Nat /\ DOMAIN t = 1..Len(t)
  BY LenProperties
<1> HIDE DEF u
<1>3. \A i \in DOMAIN s : i \in DOMAIN u /\ u[i] = s[i]
  BY <1>1, <1>2
<1>4. \A i \in DOMAIN t : Len(s) + i \in DOMAIN u /\ u[Len(s) + i] = t[i]
  BY <1>1, <1>2
<1>5. ASSUME NEW i \in DOMAIN u
      PROVE  (i \in DOMAIN s /\ u[i] = s[i]) \/ (i - Len(s) \in DOMAIN t /\ u[i] = t[i - Len(s)])
  BY <1>1, <1>2
<1>6. \A x : x \in Range(u) <=> x \in Range(s) \/ x \in Range(t)
  BY <1>3, <1>4, <1>5 DEF Range
<1>7. QED BY <1>1, <1>6 DEF u

LEMMA RangeOfAppend ==
  ASSUME NEW T, NEW s \in Seq(T), NEW y \in T
  PROVE  /\ Append(s, y) \in Seq(T)
         /\ \A x : x \in Range(Append(s, y)) <=> x \in Range(s) \/ x = y
<1> DEFINE u == Append(s, y)
<1>1. /\ u \in Seq(T) /\ Len(u) = Len(s) + 1 /\ u[Len(s) + 1] = y
      /\ \A i \in 1..Len(s) : u[i] = s[i]
  BY AppendProperties
<1>2. Len(s) \in Nat /\ DOMAIN s = 1..Len(s) /\ DOMAIN u = 1..(Len(s) + 1)
  BY <1>1, LenProperties
<1> HIDE DEF u
<1>3. \A i \in DOMAIN u : i \in DOMAIN s \/ i = Len(s) + 1
  BY <1>2
<1>4. \A x : x \in Range(u) <=> x \in Range(s) \/ x = y
  BY <1>1, <1>2, <1>3 DEF Range
<1>5. QED BY <1>1, <1>4 DEF u

LEMMA RangeOfThose ==
  ASSUME NEW T, NEW s \in Seq(T), NEW S
  PROVE  Those(s, S) \in Seq(T) /\ \A x : x \in Range(Those(s, S)) <=> x \in Range(s) /\ x \in S
<1>1. Those(s, S) \in Seq(T)
  BY ThoseKeeps
<1>2. \A x : (\E i \in DOMAIN Those(s, S) : Those(s, S)[i] = x)
               <=> x \in S /\ \E i \in DOMAIN s : s[i] = x
  BY ThoseKeeps
<1>3. QED BY <1>1, <1>2 DEF Range

\* The elements of a finite set in an order are just its elements.
LEMMA RangeOfInOrder ==
  ASSUME NEW S, IsFiniteSet(S), NEW R, TotalOn(S, R)
  PROVE  InOrder(S, R) \in Seq(S) /\ \A x : x \in Range(InOrder(S, R)) <=> x \in S
<1>1. /\ InOrder(S, R) \in [1..Cardinality(S) -> S]
      /\ \A x \in S : \E i \in 1..Cardinality(S) : InOrder(S, R)[i] = x
  BY InOrderLists
<1>2. Cardinality(S) \in Nat
  BY FS_CardinalityType
<1>3. InOrder(S, R) \in Seq(S)
  BY <1>1, <1>2, SeqDef
<1>4. QED BY <1>1, <1>3 DEF Range

\* What the node answers are the deposits of the blocks it was asked for.
LEMMA EntriesAreDeposits ==
  ASSUME chain \in Seq(Logs), height <= MaxHeight, NEW e, NEW blocks
  PROVE  /\ Entries(e, blocks) \in Seq(Deposit)
         /\ \A d : d \in Range(Entries(e, blocks)) <=>
                     d \in Deposits(blocks) /\ EventOf(d.kind) = e
<1> DEFINE found == {d \in Deposits(blocks) : EventOf(d.kind) = e}
           R == {p \in found \X found : Before(p[1], p[2])}
<1>1. /\ \A d \in AllOf(chain) : d \in Deposit /\ d = At(chain[d.block], d.block, d.index)
      /\ \A d : d \in Deposits(blocks) <=> d \in AllOf(chain) /\ d.block \in blocks
  BY DepositTypes, SameDeposits DEF height
<1>2. found \subseteq AllOf(chain) /\ found \subseteq Deposit
  BY <1>1
<1>3. IsFiniteSet(found)
  BY <1>2, FiniteDeposits, FS_Subset DEF height
<1>4. \A d \in found : d.block \in Int /\ d.index \in Int
  BY <1>2 DEF Deposit
<1>5. ASSUME NEW d \in found, NEW f \in found, d.block = f.block, d.index = f.index
      PROVE  d = f
  BY <1>1, <1>2, <1>5
<1>6. \A d, f \in found : <<d, f>> \in R <=> Before(d, f)
  OBVIOUS
<1>7. TotalOn(found, R)
  <2>1. \A d \in found : ~Before(d, d)
    BY <1>4 DEF Before
  <2>2. \A d, f \in found : d = f \/ Before(d, f) \/ Before(f, d)
    BY <1>4, <1>5 DEF Before
  <2>3. \A d, f, g \in found : Before(d, f) /\ Before(f, g) => Before(d, g)
    BY <1>4 DEF Before
  <2> HIDE DEF R
  <2>4. QED BY <1>6, <2>1, <2>2, <2>3 DEF TotalOn
<1>8. Entries(e, blocks) = InOrder(found, R)
  BY DEF Entries
<1> HIDE DEF R
<1>9. InOrder(found, R) \in Seq(found) /\ \A x : x \in Range(InOrder(found, R)) <=> x \in found
  BY <1>3, <1>7, RangeOfInOrder
<1>10. Seq(found) \subseteq Seq(Deposit)
  BY <1>2
<1>11. QED BY <1>8, <1>9, <1>10

-----------------------------------------------------------------------------
(* The inductive invariant                                                 *)

Passing == phase \in {"swapPass", "tokenPass"}

\* The range of catch_up was confirmed when it was read.
RangeInv ==
  /\ toBlock <= height
  /\ Passing => 0 < toBlock /\ toBlock + Confirmations <= height

\* The filters do not run ahead of the chain, and have answered nothing before
\* the thread polls them.
FilterInv ==
  /\ \A e \in Events : created[e] <= seen[e] /\ seen[e] <= height
  /\ phase \in {"down", "register", "run"} \/ Passing => created = seen

\* Callbacks are called of confirmed events, by three of the loops, and the
\* event whose swap was saved is the first.
HandlingInv ==
  /\ todo # << >> => Passing \/ phase \in {"callbacks", "dead"}
  /\ saved => todo # << >> /\ Settled(Head(todo))
  /\ \A d \in Range(todo) : d.block + Confirmations <= height

\* The passes of catch_up: the deposits of one event have been replayed, or are
\* still to be handled.
Replayed(e) ==
  \A d \in Deposits(fromBlock..toBlock) : EventOf(d.kind) = e => Settled(d)
Replaying(e) ==
  \A d \in Deposits(fromBlock..toBlock) :
     EventOf(d.kind) = e => d \in Range(todo) \/ Settled(d)

PassInv ==
  /\ phase = "swapPass" => Replaying("Swap")
  /\ phase = "tokenPass" => Replayed("Swap") /\ Replaying("SwapToken")
  /\ NothingSkipped

ShapeInv == TypeOK /\ RangeInv /\ FilterInv
IInv == ShapeInv /\ HandlingInv /\ PassInv /\ NothingForgotten

-----------------------------------------------------------------------------
(* The types and the shape of the state                                    *)

LEMMA Constants ==
  /\ Confirmations \in Nat /\ StartBlock \in Nat /\ MaxHeight \in Nat
  /\ MaxRestarts \in Nat /\ MaxFailures \in Nat
  /\ \A b : b \in 0..MaxHeight <=> b \in Nat /\ b <= MaxHeight
BY EventsAssumption

LEMMA HeadOfTodo ==
  ASSUME TypeOK, Handling
  PROVE  /\ Head(todo) \in Deposit /\ Head(todo) \in Range(todo) /\ Tail(todo) \in Seq(Deposit)
         /\ \A x : x \in Range(todo) <=> x = Head(todo) \/ x \in Range(Tail(todo))
BY RangeOfTail DEF TypeOK, Handling

LEMMA Initial == Init => IInv
<1> SUFFICES ASSUME Init PROVE IInv
  OBVIOUS
<1> USE Constants
<1>1. chain \in Seq(Logs) /\ height = 0
  BY DEF Init, height
<1>2. swaps \in Seq(Deposit) /\ pending \in Seq(Deposit) /\ todo \in Seq(Deposit)
  BY DEF Init
<1>3. created \in [Events -> 0..MaxHeight] /\ seen \in [Events -> 0..MaxHeight] /\ created = seen
      /\ \A e \in Events : created[e] = 0
  BY DEF Init
<1>4. TypeOK
  <2>1. tracker \in -1..(MaxHeight + StartBlock) /\ toBlock \in -Confirmations..MaxHeight
        /\ fromBlock \in 0..(MaxHeight + StartBlock + 1) /\ height <= MaxHeight
    BY <1>1 DEF Init
  <2>2. restartsLeft \in 0..MaxRestarts /\ failuresLeft \in 0..MaxFailures
    BY DEF Init
  <2>3. phase \in Phases /\ saved \in BOOLEAN /\ failed \subseteq Deposit
    BY DEF Init, Phases
  <2>4. QED BY <1>1, <1>2, <1>3, <2>1, <2>2, <2>3 DEF TypeOK
<1>5. RangeInv /\ FilterInv
  BY <1>1, <1>3 DEF Init, RangeInv, FilterInv, Passing
<1>6. DOMAIN todo = {} /\ DOMAIN swaps = {} /\ Range(todo) = {}
  BY DEF Init, Range
<1>7. HandlingInv
  BY <1>6 DEF Init, HandlingInv
<1>8. PassInv /\ NothingForgotten
  BY DEF Init, PassInv, NothingSkipped, NothingForgotten, Listening
<1>9. QED BY <1>4, <1>5, <1>7, <1>8 DEF IInv, ShapeInv

\* Blocks are only added.
LEMMA ChainGrows ==
  ASSUME TypeOK, [Next]_vars
  PROVE  /\ chain' \in Seq(Logs) /\ height \in Nat /\ height' \in Nat
         /\ height <= height' /\ height' <= MaxHeight
         /\ \A d \in AllOf(chain') : d.block <= height => d \in AllOf(chain)
         /\ AllOf(chain) \subseteq AllOf(chain')
         /\ (chain' = chain \/ MineAny)
<1>0. height \in Nat /\ MaxHeight \in Nat
  BY LenProperties, EventsAssumption DEF TypeOK, height
<1>1. ASSUME NEW log \in Logs, Mine(log)
      PROVE  /\ chain' \in Seq(Logs) /\ height' = height + 1 /\ height' <= MaxHeight
             /\ \A d \in AllOf(chain') : d.block <= height => d \in AllOf(chain)
             /\ AllOf(chain) \subseteq AllOf(chain')
  <2>1. chain' = Append(chain, log) /\ height + 1 <= MaxHeight /\ chain \in Seq(Logs)
    BY <1>0, <1>1 DEF Mine, TypeOK
  <2>2. QED BY <1>0, <2>1, NewBlock DEF height
<1>2. CASE MineAny
  BY <1>0, <1>1, <1>2 DEF MineAny
<1>3. CASE chain' = chain
  BY <1>0, <1>3 DEF height, TypeOK
<1>4. chain' = chain \/ MineAny
  BY DEF Next, Bridge, vars, Start, RegisterToken, CreateFilter, CatchUp, TokenPass, CaughtUp,
         PollSwap, PollToken, Poll, Confirm, Sleep, SkipGarbled, DieOnUnmapped, Save, Track, Stop
<1>5. QED BY <1>2, <1>3, <1>4

LEMMA InBlocks ==
  ASSUME chain \in Seq(Logs), height <= MaxHeight
  PROVE  /\ \A d \in AllOf(chain) : d \in Deposit /\ d.block \in Nat /\ d.block <= height
         /\ \A blocks, d : d \in Deposits(blocks) <=> d \in AllOf(chain) /\ d.block \in blocks
<1>1. \A d \in AllOf(chain) : d \in Deposit /\ d.block \in DOMAIN chain
  BY DepositTypes DEF height
<1>2. \A blocks, d : d \in DepositsOf(chain, blocks) <=> d \in AllOf(chain) /\ d.block \in blocks
  BY DepositTypes DEF height
<1>3. DOMAIN chain = 1..height /\ height \in Nat
  BY LenProperties DEF height
<1>4. QED BY <1>1, <1>2, <1>3, SameDeposits

LEMMA HeightType == TypeOK => height \in 0..MaxHeight /\ height \in Nat
BY LenProperties, EventsAssumption DEF TypeOK, height

LEMMA MaxOfTwo ==
  ASSUME NEW a \in Int, NEW b \in Int
  PROVE  /\ Max({a, b}) \in {a, b} /\ a <= Max({a, b}) /\ b <= Max({a, b})
BY DEF Max

\* A new filter, and a filter that answers.
LEMMA FilterStep ==
  ASSUME ShapeInv, NEW e \in Events, seen' = [seen EXCEPT ![e] = height],
         created' = created \/ created' = [created EXCEPT ![e] = height]
  PROVE  /\ created' \in [Events -> 0..MaxHeight] /\ seen' \in [Events -> 0..MaxHeight]
         /\ \A f \in Events : created'[f] <= seen'[f] /\ seen'[f] <= height
         /\ seen'[e] = height /\ \A f \in Events : f # e => seen'[f] = seen[f]
<1>1. height \in 0..MaxHeight /\ height \in Nat
  BY HeightType DEF ShapeInv
<1>2. created \in [Events -> 0..MaxHeight] /\ seen \in [Events -> 0..MaxHeight]
  BY DEF ShapeInv, TypeOK
<1>3. \A f \in Events : created[f] <= seen[f] /\ seen[f] <= height
  BY DEF ShapeInv, FilterInv
<1>4. \A f \in Events : created[f] <= height
  BY <1>1, <1>2, <1>3, Constants
<1>5. CASE created' = created
  BY <1>1, <1>2, <1>3, <1>4, <1>5
<1>6. CASE created' = [created EXCEPT ![e] = height]
  BY <1>1, <1>2, <1>3, <1>4, <1>6
<1>7. QED BY <1>5, <1>6

LEMMA ShapeStep ==
  ASSUME ShapeInv, [Next]_vars
  PROVE  ShapeInv'
<1> USE Constants
<1>1. /\ chain' \in Seq(Logs) /\ height' \in Nat /\ height \in Nat
      /\ height <= height' /\ height' <= MaxHeight
  BY ChainGrows DEF ShapeInv
<1>2. TypeOK /\ RangeInv /\ FilterInv
  BY DEF ShapeInv
<1>3. \A e \in Events : seen[e] \in Nat /\ seen[e] <= height'
  BY <1>1, <1>2 DEF TypeOK, FilterInv
<1>4. CASE Start
  <2>1. "Swap" \in Events
    BY DEF Events
  <2>2. /\ created' \in [Events -> 0..MaxHeight] /\ seen' \in [Events -> 0..MaxHeight]
        /\ \A f \in Events : created'[f] <= seen'[f] /\ seen'[f] <= height
    BY <1>4, <2>1, FilterStep DEF Start, CreateFilter
  <2>3. TypeOK'
    BY <1>1, <1>2, <1>4, <2>2 DEF Start, CreateFilter, TypeOK, Phases, database, handling, bounds, height
  <2>4. created' = seen' /\ height' = height
    BY <1>2, <1>4 DEF Start, CreateFilter, FilterInv, height
  <2>5. RangeInv' /\ FilterInv'
    BY <1>2, <1>4, <2>2, <2>4 DEF Start, CreateFilter, RangeInv, FilterInv, Passing
  <2>6. QED BY <2>3, <2>5 DEF ShapeInv
<1>5. CASE RegisterToken
  <2>1. "SwapToken" \in Events
    BY DEF Events
  <2>2. /\ created' \in [Events -> 0..MaxHeight] /\ seen' \in [Events -> 0..MaxHeight]
        /\ \A f \in Events : created'[f] <= seen'[f] /\ seen'[f] <= height
    BY <1>5, <2>1, FilterStep DEF RegisterToken, CreateFilter
  <2>3. TypeOK'
    BY <1>1, <1>2, <1>5, <2>2 DEF RegisterToken, CreateFilter, TypeOK, Phases, database, handling, bounds, height
  <2>4. created' = seen' /\ height' = height
    BY <1>2, <1>5 DEF RegisterToken, CreateFilter, FilterInv, height
  <2>5. RangeInv' /\ FilterInv'
    BY <1>2, <1>5, <2>2, <2>4 DEF RegisterToken, CreateFilter, RangeInv, FilterInv, Passing
  <2>6. QED BY <2>3, <2>5 DEF ShapeInv
<1>6. CASE CatchUp
  <2>1. tracker + 1 \in Int /\ StartBlock \in Int /\ tracker \in Int /\ -1 <= tracker
        /\ tracker <= MaxHeight + StartBlock
    BY <1>2 DEF TypeOK
  <2>2. /\ fromBlock' \in {tracker + 1, StartBlock}
        /\ tracker + 1 <= fromBlock' /\ StartBlock <= fromBlock'
    BY <1>6, <2>1, MaxOfTwo DEF CatchUp
  <2>3. fromBlock' \in 0..(MaxHeight + StartBlock + 1)
    BY <2>1, <2>2
  <2>4. tracker' \in -1..(MaxHeight + StartBlock)
    BY <1>6, <2>1 DEF CatchUp
  <2>5. /\ toBlock' = height - Confirmations /\ height' = height
        /\ toBlock' \in -Confirmations..MaxHeight /\ toBlock' <= height'
        /\ toBlock' + Confirmations = height
    BY <1>1, <1>6 DEF CatchUp, ConfirmedUpTo, height
  <2>6. todo' \in Seq(Deposit)
    <3>1. Entries("Swap", fromBlock'..toBlock') \in Seq(Deposit)
      BY <1>1, <1>2, <1>6, EntriesAreDeposits DEF TypeOK
    <3>2. << >> \in Seq(Deposit)
      OBVIOUS
    <3>3. todo' = << >> \/ todo' = Entries("Swap", fromBlock'..toBlock')
      BY <1>6 DEF CatchUp
    <3>4. QED BY <3>1, <3>2, <3>3
  <2>7. phase' \in Phases
    BY <1>6 DEF CatchUp, Phases
  <2>8. TypeOK'
    BY <1>1, <1>2, <1>6, <2>3, <2>4, <2>5, <2>6, <2>7 DEF CatchUp, TypeOK, listening, bounds
  <2>9. phase' \in {"pollSwap", "swapPass"} /\ (phase' = "swapPass" => 0 < toBlock')
    <3>1. toBlock' \in Int
      BY <2>5
    <3>2. QED BY <1>6, <3>1 DEF CatchUp
  <2>10. RangeInv'
    BY <2>5, <2>9 DEF RangeInv, Passing
  <2>11. FilterInv'
    BY <1>2, <1>6, <2>5 DEF CatchUp, FilterInv, Passing, listening
  <2>12. QED BY <2>8, <2>10, <2>11 DEF ShapeInv
<1>7. CASE TokenPass
  <2>1. todo' \in Seq(Deposit)
    BY <1>1, <1>2, <1>7, EntriesAreDeposits DEF TypeOK, TokenPass
  <2>2. TypeOK'
    BY <1>2, <1>7, <2>1 DEF TokenPass, TypeOK, Phases, database, listening, bounds, height
  <2>3. RangeInv' /\ FilterInv'
    BY <1>2, <1>7 DEF TokenPass, RangeInv, FilterInv, Passing, database, listening, bounds, height
  <2>4. QED BY <2>2, <2>3 DEF ShapeInv
<1>8. CASE CaughtUp
  <2>1. tracker' \in -1..(MaxHeight + StartBlock)
    BY <1>2, <1>8 DEF CaughtUp, TypeOK, RangeInv, Passing
  <2>2. TypeOK'
    BY <1>2, <1>8, <2>1 DEF CaughtUp, TypeOK, Phases, listening, handling, bounds, height
  <2>3. RangeInv' /\ FilterInv'
    BY <1>2, <1>8 DEF CaughtUp, RangeInv, FilterInv, Passing, listening, handling, bounds, height
  <2>4. QED BY <2>2, <2>3 DEF ShapeInv
<1>9. ASSUME NEW e \in Events, Poll(e), phase \in {"pollSwap", "pollToken"},
             phase' \in {"pollToken", "confirm"}
      PROVE  ShapeInv'
  <2>1. /\ created' \in [Events -> 0..MaxHeight] /\ seen' \in [Events -> 0..MaxHeight]
        /\ \A f \in Events : created'[f] <= seen'[f] /\ seen'[f] <= height
    BY <1>9, FilterStep DEF Poll
  <2>2. pending' \in Seq(Deposit)
    <3>1. Entries(e, (seen[e] + 1)..height) \in Seq(Deposit)
      BY <1>1, <1>2, EntriesAreDeposits DEF TypeOK
    <3>2. pending \in Seq(Deposit)
      BY <1>2 DEF TypeOK
    <3>3. pending \o Entries(e, (seen[e] + 1)..height) \in Seq(Deposit)
      BY <3>1, <3>2, ConcatProperties
    <3>4. QED BY <1>9, <3>3 DEF Poll
  <2>3. TypeOK'
    BY <1>2, <1>9, <2>1, <2>2 DEF Poll, TypeOK, Phases, database, handling, bounds, height
  <2>4. RangeInv' /\ FilterInv'
    BY <1>2, <1>9, <2>1 DEF Poll, RangeInv, FilterInv, Passing, database, handling, bounds, height
  <2>5. QED BY <2>3, <2>4 DEF ShapeInv
<1>10. CASE PollSwap \/ PollToken
  BY <1>9, <1>10 DEF PollSwap, PollToken, Events
<1>11. CASE Confirm
  <2>1. todo' \in Seq(Deposit) /\ pending' \in Seq(Deposit)
    BY <1>2, <1>11, ThoseKeeps DEF Confirm, TypeOK
  <2>2. TypeOK'
    BY <1>2, <1>11, <2>1 DEF Confirm, TypeOK, Phases, database, bounds, height
  <2>3. RangeInv' /\ FilterInv'
    BY <1>2, <1>11 DEF Confirm, RangeInv, FilterInv, Passing, database, bounds, height
  <2>4. QED BY <2>2, <2>3 DEF ShapeInv
<1>12. CASE Sleep
  <2>1. TypeOK'
    BY <1>2, <1>12 DEF Sleep, TypeOK, Phases, database, listening, handling, bounds, height
  <2>2. RangeInv' /\ FilterInv'
    BY <1>2, <1>12 DEF Sleep, RangeInv, FilterInv, Passing, listening, height
  <2>3. QED BY <2>1, <2>2 DEF ShapeInv
<1>13. CASE SkipGarbled
  <2>1. Tail(todo) \in Seq(Deposit)
    BY <1>2, <1>13, HeadOfTodo DEF SkipGarbled
  <2>2. TypeOK'
    BY <1>2, <1>13, <2>1 DEF SkipGarbled, TypeOK, database, listening, bounds, height
  <2>3. RangeInv' /\ FilterInv'
    BY <1>2, <1>13 DEF SkipGarbled, RangeInv, FilterInv, Passing, listening, height
  <2>4. QED BY <2>2, <2>3 DEF ShapeInv
<1>14. CASE DieOnUnmapped
  <2>1. TypeOK'
    BY <1>2, <1>14 DEF DieOnUnmapped, TypeOK, Phases, database, listening, handling, bounds, height
  <2>2. RangeInv' /\ FilterInv'
    BY <1>2, <1>14 DEF DieOnUnmapped, RangeInv, FilterInv, Passing, listening, height
  <2>3. QED BY <2>1, <2>2 DEF ShapeInv
<1>15. CASE Save
  <2>1. Head(todo) \in Deposit
    BY <1>2, <1>15, HeadOfTodo DEF Save
  <2>2. swaps' \in Seq(Deposit)
    <3>1. Append(swaps, Head(todo)) \in Seq(Deposit) /\ swaps \in Seq(Deposit)
      BY <1>2, <2>1, AppendProperties DEF TypeOK
    <3>2. swaps' = swaps \/ swaps' = Append(swaps, Head(todo))
      BY <1>15 DEF Save
    <3>3. QED BY <3>1, <3>2
  <2>3. failuresLeft' \in 0..MaxFailures /\ failed' \subseteq Deposit
    BY <1>2, <1>15, <2>1 DEF Save, TypeOK
  <2>4. TypeOK'
    BY <1>2, <1>15, <2>2, <2>3 DEF Save, TypeOK, listening, height
  <2>5. RangeInv' /\ FilterInv'
    BY <1>2, <1>15 DEF Save, RangeInv, FilterInv, Passing, listening, height
  <2>6. QED BY <2>4, <2>5 DEF ShapeInv
<1>16. CASE Track
  <2>1. Head(todo) \in Deposit /\ Tail(todo) \in Seq(Deposit)
    BY <1>2, <1>16, HeadOfTodo DEF Track
  <2>2. tracker' \in -1..(MaxHeight + StartBlock)
    BY <1>16, <2>1 DEF Track, Deposit
  <2>3. TypeOK'
    BY <1>2, <1>16, <2>1, <2>2 DEF Track, TypeOK, listening, bounds, height
  <2>4. RangeInv' /\ FilterInv'
    BY <1>2, <1>16 DEF Track, RangeInv, FilterInv, Passing, listening, height
  <2>5. QED BY <2>3, <2>4 DEF ShapeInv
<1>17. CASE Stop
  <2>1. created' = seen' /\ created' \in [Events -> 0..MaxHeight] /\ \A e \in Events : seen'[e] = 0
    BY <1>17 DEF Stop
  <2>2. TypeOK'
    <3>1. fromBlock' \in 0..(MaxHeight + StartBlock + 1) /\ toBlock' \in -Confirmations..MaxHeight
      BY <1>17 DEF Stop
    <3>2. todo' \in Seq(Deposit) /\ pending' \in Seq(Deposit)
      BY <1>17 DEF Stop
    <3>3. restartsLeft' \in 0..MaxRestarts
      BY <1>2, <1>17 DEF Stop, TypeOK
    <3>4. QED BY <1>2, <1>17, <2>1, <3>1, <3>2, <3>3 DEF Stop, TypeOK, Phases, database, height
  <2>3. RangeInv' /\ FilterInv'
    BY <1>1, <1>17, <2>1 DEF Stop, RangeInv, FilterInv, Passing, height
  <2>4. QED BY <2>2, <2>3 DEF ShapeInv
<1>18. CASE MineAny
  <2>1. UNCHANGED <<database, phase, listening, fromBlock, toBlock, handling, bounds>>
    BY <1>18 DEF MineAny, Mine
  <2>2. TypeOK'
    BY <1>1, <1>2, <2>1 DEF TypeOK, database, listening, handling, bounds
  <2>3. FilterInv'
    BY <1>1, <1>2, <1>3, <2>1 DEF TypeOK, FilterInv, Passing, listening
  <2>4. RangeInv'
    BY <1>1, <1>2, <2>1 DEF TypeOK, RangeInv, Passing
  <2>5. QED BY <2>2, <2>3, <2>4 DEF ShapeInv
<1>19. CASE UNCHANGED vars
  <2>1. TypeOK'
    BY <1>2, <1>19 DEF TypeOK, vars, database, listening, handling, bounds, height
  <2>2. RangeInv' /\ FilterInv'
    BY <1>2, <1>19 DEF RangeInv, FilterInv, Passing, vars, listening, height
  <2>3. QED BY <2>1, <2>2 DEF ShapeInv
<1>20. QED
  BY <1>4, <1>5, <1>6, <1>7, <1>8, <1>10, <1>11, <1>12, <1>13, <1>14, <1>15, <1>16, <1>17,
     <1>18, <1>19 DEF Next, Bridge

-----------------------------------------------------------------------------
(* Callbacks and the database                                              *)

\* Swaps and failures of secretcli are only added.
LEMMA SettledStays ==
  ASSUME TypeOK, [Next]_vars
  PROVE  /\ Range(swaps) \subseteq Range(swaps')
         /\ \A d : Settled(d) => Settled(d)'
<1>1. Range(swaps) \subseteq Range(swaps') /\ failed \subseteq failed'
  <2>1. CASE Save
    <3>1. Head(todo) \in Deposit /\ swaps \in Seq(Deposit)
      BY <2>1, HeadOfTodo DEF Save, TypeOK
    <3>2. Range(swaps) \subseteq Range(Append(swaps, Head(todo)))
      BY <3>1, RangeOfAppend
    <3>3. swaps' = swaps \/ swaps' = Append(swaps, Head(todo))
      BY <2>1 DEF Save
    <3>4. failed \subseteq failed'
      BY <2>1 DEF Save
    <3>5. QED BY <3>2, <3>3, <3>4
  <2>2. Save \/ (swaps' = swaps /\ failed' = failed)
    BY DEF Next, Bridge, vars, Start, RegisterToken, CreateFilter, CatchUp, TokenPass, CaughtUp,
           PollSwap, PollToken, Poll, Confirm, Sleep, SkipGarbled, DieOnUnmapped, Track, Stop,
           MineAny, Mine, database, bounds
  <2>3. QED BY <2>1, <2>2
<1>2. QED BY <1>1 DEF Settled

\* After the try block of _handle, the first event is settled.
LEMMA SaveSettles ==
  ASSUME TypeOK, Save
  PROVE  Settled(Head(todo))'
<1> DEFINE d == Head(todo)
<1>1. todo' = todo
  BY DEF Save
<1>2. Head(todo') = d
  BY <1>1
<1>3. d \in Deposit /\ swaps \in Seq(Deposit)
  BY HeadOfTodo DEF Save, TypeOK
<1>4. CASE failed' = failed \union {d}
  BY <1>2, <1>4 DEF Settled
<1>5. CASE swaps' = IF IsUnique(d) THEN Append(swaps, d) ELSE swaps
  <2>1. SameTransaction(d, d)
    BY DEF SameTransaction
  <2>2. CASE IsUnique(d)
    <3>1. d \in Range(swaps')
      BY <1>3, <1>5, <2>2, RangeOfAppend
    <3>2. QED BY <1>2, <2>1, <3>1 DEF Settled
  <2>3. CASE ~IsUnique(d)
    <3>1. \E e \in Range(swaps) : SameTransaction(d, e)
      BY <2>3 DEF IsUnique
    <3>2. swaps' = swaps
      BY <1>5, <2>3
    <3>3. QED BY <1>2, <3>1, <3>2 DEF Settled
  <2>4. QED BY <2>2, <2>3
<1>6. QED BY <1>4, <1>5 DEF Save

\* What may happen to the list of the events whose callbacks are called.
LEMMA TodoSteps ==
  ASSUME TypeOK, [Next]_vars, todo' # todo
  PROVE  CatchUp \/ TokenPass \/ Confirm \/ SkipGarbled \/ Track \/ Stop
BY DEF Next, Bridge, vars, Start, RegisterToken, CreateFilter, CaughtUp, PollSwap, PollToken,
       Poll, Sleep, DieOnUnmapped, Save, MineAny, Mine, handling

\* The first event of todo leaves it settled.
LEMMA HeadLeaves ==
  ASSUME TypeOK, HandlingInv, SkipGarbled \/ Track
  PROVE  /\ Settled(Head(todo))
         /\ \A d : d \in Range(todo) <=> d = Head(todo) \/ d \in Range(todo')
         /\ saved' = FALSE /\ phase' = phase /\ chain' = chain
<1>1. todo' = Tail(todo) /\ Handling /\ phase' = phase /\ chain' = chain
  BY DEF SkipGarbled, Track
<1>2. Settled(Head(todo))
  BY DEF SkipGarbled, Track, Settled, HandlingInv
<1>3. saved' = FALSE
  <2>1. CASE Track
    BY <2>1 DEF Track
  <2>2. CASE SkipGarbled
    <3>1. saved \in BOOLEAN /\ ~saved /\ saved' = saved
      BY <2>2 DEF SkipGarbled, TypeOK
    <3>2. QED BY <3>1
  <2>3. QED BY <2>1, <2>2
<1>4. QED BY <1>1, <1>2, <1>3, HeadOfTodo

LEMMA HandlingStep ==
  ASSUME ShapeInv, HandlingInv, [Next]_vars
  PROVE  HandlingInv'
<1>1. TypeOK /\ RangeInv /\ height \in Nat /\ height' \in Nat /\ height <= height'
      /\ chain \in Seq(Logs) /\ height <= MaxHeight
  BY ChainGrows DEF ShapeInv, TypeOK
<1>1a. Confirmations \in Nat
  BY EventsAssumption
<1>2. (todo # << >>)' => Passing' \/ phase' \in {"callbacks", "dead"}
  BY DEF HandlingInv, Passing, Next, Bridge, vars, Start, RegisterToken, CreateFilter, CatchUp,
         TokenPass, CaughtUp, PollSwap, PollToken, Poll, Confirm, Sleep, SkipGarbled,
         DieOnUnmapped, Save, Track, Stop, MineAny, Mine, handling, Handling
<1>3. ASSUME saved' PROVE todo' # << >> /\ Settled(Head(todo))'
  <2>1. CASE Save
    <3>1. Settled(Head(todo))'
      BY <1>1, <2>1, SaveSettles
    <3>2. QED BY <2>1, <3>1 DEF Save, Handling
  <2>2. CASE ~Save
    <3>1. saved
      BY <1>3, <2>2, <1>1, HeadLeaves
         DEF Next, Bridge, vars, Start, RegisterToken, CreateFilter, CatchUp,
             TokenPass, CaughtUp, PollSwap, PollToken, Poll, Confirm, Sleep, SkipGarbled,
             DieOnUnmapped, Track, Stop, MineAny, Mine, handling
    <3>2. todo # << >> /\ Settled(Head(todo)) /\ (Passing \/ phase \in {"callbacks", "dead"})
      BY <3>1 DEF HandlingInv
    <3>3. todo' = todo
      <4>1. ~CatchUp /\ ~Confirm /\ ~TokenPass
        BY <3>2 DEF CatchUp, Confirm, TokenPass, Passing
      <4>2. ~SkipGarbled /\ ~Track /\ ~Stop
        BY <1>3, <3>1 DEF SkipGarbled, Track, Stop
      <4>3. QED BY <1>1, <4>1, <4>2, TodoSteps
    <3>4. \A d : Settled(d) => Settled(d)'
      BY <1>1, SettledStays
    <3>5. PICK h : h = Head(todo)
      OBVIOUS
    <3>6. Settled(h)'
      BY <3>2, <3>4, <3>5
    <3>7. Head(todo') = h
      BY <3>3, <3>5
    <3>8. QED BY <3>2, <3>3, <3>6, <3>7 DEF Settled
  <2>3. QED BY <2>1, <2>2
<1>4. ASSUME NEW d \in Range(todo') PROVE d.block + Confirmations <= height'
  <2>1. \A e \in Range(todo) : e.block \in Nat /\ e.block + Confirmations <= height
    <3>1. \A e \in Range(todo) : e \in Deposit
      BY <1>1 DEF TypeOK, Range
    <3>2. QED BY <3>1 DEF HandlingInv, Deposit
  <2>2. CASE todo' = todo
    BY <1>1, <1>1a, <1>4, <2>1, <2>2
  <2>3. CASE CatchUp
    <3>1. todo' = << >> \/ todo' = Entries("Swap", fromBlock'..toBlock')
      BY <2>3 DEF CatchUp
    <3>2. toBlock' + Confirmations <= height /\ toBlock' \in Int
      BY <1>1, <1>1a, <2>3 DEF CatchUp, ConfirmedUpTo
    <3>3. \A e : e \in Range(Entries("Swap", fromBlock'..toBlock')) =>
                   e \in Deposits(fromBlock'..toBlock')
      BY <1>1, EntriesAreDeposits
    <3>4. d \in Deposits(fromBlock'..toBlock')
      BY <1>4, <3>1, <3>3 DEF Range
    <3>5. d.block \in fromBlock'..toBlock' /\ d.block \in Nat
      BY <1>1, <3>4, InBlocks
    <3>6. d.block <= toBlock'
      BY <3>2, <3>5
    <3>7. d.block \in Nat
      BY <3>5
    <3>8. d.block + Confirmations <= height
      <4>1. \A a, b, c, h \in Int : a <= b /\ b + c <= h => a + c <= h
        OBVIOUS
      <4>2. d.block \in Int /\ toBlock' \in Int /\ Confirmations \in Int /\ height \in Int
        BY <1>1, <1>1a, <3>2, <3>7
      <4>3. toBlock' + Confirmations <= height
        BY <3>2
      <4>4. QED BY <3>6, <4>1, <4>2, <4>3
    <3>9. QED BY <1>1, <1>1a, <3>7, <3>8
  <2>4. CASE TokenPass
    <3>1. todo' = Entries("SwapToken", fromBlock..toBlock)
      BY <2>4 DEF TokenPass
    <3>2. toBlock + Confirmations <= height /\ toBlock \in Int
      BY <1>1, <2>4 DEF TokenPass, RangeInv, Passing, TypeOK
    <3>3. d \in Deposits(fromBlock..toBlock)
      BY <1>1, <1>4, <3>1, EntriesAreDeposits
    <3>4. d.block \in fromBlock..toBlock /\ d.block \in Nat
      BY <1>1, <3>3, InBlocks
    <3>5. QED BY <1>1, <1>1a, <3>2, <3>4
  <2>5. CASE Confirm
    <3>1. d \in Range(pending) /\ d.block <= height - Confirmations
      BY <1>1, <1>4, <2>5, RangeOfThose DEF Confirm, ConfirmedPending, ConfirmedUpTo, TypeOK
    <3>2. d \in Deposit
      BY <1>1, <3>1 DEF TypeOK, Range
    <3>3. d.block \in Nat
      BY <3>2 DEF Deposit
    <3>4. QED BY <1>1, <1>1a, <3>1, <3>3
  <2>6. CASE SkipGarbled \/ Track
    <3>1. d \in Range(todo)
      BY <1>1, <1>4, <2>6, HeadLeaves
    <3>2. QED BY <1>1, <1>1a, <2>1, <3>1
  <2>7. CASE Stop
    BY <1>4, <2>7 DEF Stop, Range
  <2>8. QED BY <1>1, <2>2, <2>3, <2>4, <2>5, <2>6, <2>7, TodoSteps
<1>5. QED BY <1>2, <1>3, <1>4 DEF HandlingInv

-----------------------------------------------------------------------------
(* Nothing is left behind                                                  *)

LEMMA InBlocksNext ==
  ASSUME chain' \in Seq(Logs), height' <= MaxHeight
  PROVE  /\ \A d \in AllOf(chain') : d \in Deposit /\ d.block \in Nat /\ d.block <= height' /\ 0 < d.block
         /\ \A d : d \in Deposits(fromBlock..toBlock)' <=>
                     d \in AllOf(chain') /\ d.block \in fromBlock'..toBlock'
         /\ \A e, d : d \in Deposits((created[e] + 1)..seen[e])' <=>
                        d \in AllOf(chain') /\ d.block \in (created'[e] + 1)..seen'[e]
<1>1. Len(chain') <= MaxHeight
  BY DEF height
<1>2. \A d \in AllOf(chain') : d \in Deposit /\ d.block \in DOMAIN chain'
  BY <1>1, DepositTypes
<1>3. \A blocks, d : d \in DepositsOf(chain', blocks) <=> d \in AllOf(chain') /\ d.block \in blocks
  BY <1>1, DepositTypes
<1>4. DOMAIN chain' = 1..height' /\ height' \in Nat
  BY LenProperties DEF height
<1>5. Deposits(fromBlock..toBlock)' = DepositsOf(chain', fromBlock'..toBlock')
  BY DEF Deposits, DepositsOf, InBlock, At
<1>6. \A e : Deposits((created[e] + 1)..seen[e])' =
               DepositsOf(chain', (created'[e] + 1)..seen'[e])
  BY DEF Deposits, DepositsOf, InBlock, At
<1>7. \A d \in AllOf(chain') : d \in Deposit /\ d.block \in Nat /\ d.block <= height' /\ 0 < d.block
  BY <1>2, <1>4
<1>8. \A d : d \in Deposits(fromBlock..toBlock)' <=>
               d \in AllOf(chain') /\ d.block \in fromBlock'..toBlock'
  <2>1. PICK blocks : blocks = fromBlock'..toBlock'
    OBVIOUS
  <2>2. Deposits(fromBlock..toBlock)' = DepositsOf(chain', blocks)
    BY <1>5, <2>1
  <2>3. \A d : d \in DepositsOf(chain', blocks) <=> d \in AllOf(chain') /\ d.block \in blocks
    BY <1>3
  <2>4. PICK D : D = Deposits(fromBlock..toBlock)'
    OBVIOUS
  <2>5. \A d : d \in D <=> d \in AllOf(chain') /\ d.block \in blocks
    BY <2>2, <2>3, <2>4
  <2>6. QED BY <2>1, <2>4, <2>5
<1>9. \A e, d : d \in Deposits((created[e] + 1)..seen[e])' <=>
                  d \in AllOf(chain') /\ d.block \in (created'[e] + 1)..seen'[e]
  <2> TAKE e
  <2>1. PICK blocks : blocks = (created'[e] + 1)..seen'[e]
    OBVIOUS
  <2>2. Deposits((created[e] + 1)..seen[e])' = DepositsOf(chain', blocks)
    BY <1>6, <2>1
  <2>3. \A d : d \in DepositsOf(chain', blocks) <=> d \in AllOf(chain') /\ d.block \in blocks
    BY <1>3
  <2>4. PICK D : D = Deposits((created[e] + 1)..seen[e])'
    OBVIOUS
  <2>5. \A d : d \in D <=> d \in AllOf(chain') /\ d.block \in blocks
    BY <2>2, <2>3, <2>4
  <2>6. QED BY <2>1, <2>4, <2>5
<1>10. QED BY <1>7, <1>8, <1>9

\* The blocks of a range that was confirmed have the deposits they had.
LEMMA RangeStays ==
  ASSUME ShapeInv, [Next]_vars, fromBlock' = fromBlock, toBlock' = toBlock
  PROVE  \A d \in Deposits(fromBlock..toBlock)' : d \in Deposits(fromBlock..toBlock)
<1>1. /\ chain' \in Seq(Logs) /\ height' <= MaxHeight /\ height \in Nat
      /\ \A d \in AllOf(chain') : d.block <= height => d \in AllOf(chain)
  BY ChainGrows DEF ShapeInv
<1>2. chain \in Seq(Logs) /\ height <= MaxHeight /\ toBlock <= height /\ toBlock \in Int
  BY DEF ShapeInv, TypeOK, RangeInv
<1>3. fromBlock \in Int
  BY DEF ShapeInv, TypeOK
<1>4. ASSUME NEW d \in Deposits(fromBlock..toBlock)'
      PROVE  d \in Deposits(fromBlock..toBlock)
  <2>1. d \in AllOf(chain') /\ d.block \in fromBlock..toBlock
    BY <1>1, InBlocksNext
  <2>2. d.block <= height
    BY <1>1, <1>2, <1>3, <2>1
  <2>3. d \in AllOf(chain)
    BY <1>1, <2>1, <2>2
  <2>4. QED BY <1>2, <2>1, <2>3, InBlocks
<1>5. QED BY <1>4

\* An event leaves todo settled.
LEMMA TodoStays ==
  ASSUME ShapeInv, HandlingInv, [Next]_vars, todo' = todo \/ SkipGarbled \/ Track
  PROVE  \A d : d \in Range(todo) \/ Settled(d) => d \in Range(todo') \/ Settled(d)'
<1>1. TypeOK /\ \A d : Settled(d) => Settled(d)'
  BY SettledStays DEF ShapeInv
<1>2. CASE todo' = todo
  BY <1>1, <1>2
<1>3. CASE SkipGarbled \/ Track
  <2>1. \A d : d \in Range(todo) => d \in Range(todo') \/ Settled(d)
    BY <1>1, <1>3, HeadLeaves
  <2>2. QED BY <1>1, <2>1
<1>4. QED BY <1>2, <1>3

LEMMA EventsOfKinds == \A d \in Deposit : EventOf(d.kind) \in Events
BY DEF EventOf, Events

LEMMA PassStep ==
  ASSUME ShapeInv, HandlingInv, PassInv, [Next]_vars
  PROVE  PassInv'
<1>1. /\ TypeOK /\ chain \in Seq(Logs) /\ height <= MaxHeight
      /\ chain' \in Seq(Logs) /\ height' <= MaxHeight
  BY ChainGrows DEF ShapeInv, TypeOK
<1>2. \A d : Settled(d) => Settled(d)'
  BY <1>1, SettledStays
<1>3. CASE CatchUp
  <2>1. chain' = chain /\ phase' \in {"swapPass", "pollSwap"}
    BY <1>3 DEF CatchUp
  <2>2. ASSUME phase' = "swapPass" PROVE Replaying("Swap")'
    <3>1. todo' = Entries("Swap", fromBlock'..toBlock')
      BY <1>3, <2>2 DEF CatchUp
    <3>2. ASSUME NEW d \in Deposits(fromBlock..toBlock)', EventOf(d.kind) = "Swap"
          PROVE  d \in Range(todo')
      <4>1. d \in AllOf(chain) /\ d.block \in fromBlock'..toBlock'
        BY <1>1, <2>1, InBlocksNext
      <4>2. \A blocks : d.block \in blocks => d \in Deposits(blocks)
        BY <1>1, <4>1, InBlocks
      <4>3. \A blocks : d \in Deposits(blocks) => d \in Range(Entries("Swap", blocks))
        BY <1>1, <3>2, EntriesAreDeposits
      <4>4. d \in Range(Entries("Swap", fromBlock'..toBlock'))
        BY <4>1, <4>2, <4>3
      <4>5. QED BY <3>1, <4>4
    <3>3. QED BY <3>2 DEF Replaying
  <2>3. ASSUME phase' = "pollSwap" PROVE NothingSkipped'
    <3>1. toBlock' <= 0 \/ toBlock' < fromBlock'
      BY <1>3, <2>3 DEF CatchUp
    <3>2. toBlock' \in Int /\ fromBlock' \in Int
      <4>1. ShapeInv'
        BY ShapeStep
      <4>2. QED BY <4>1 DEF ShapeInv, TypeOK
    <3>3. ASSUME NEW d \in Deposits(fromBlock..toBlock)' PROVE FALSE
      <4>1. d.block \in fromBlock'..toBlock' /\ d.block \in Nat /\ 0 < d.block
        BY <1>1, InBlocksNext
      <4>2. QED BY <3>1, <3>2, <4>1
    <3>4. QED BY <3>3 DEF NothingSkipped
  <2>4. QED BY <2>1, <2>2, <2>3 DEF PassInv, NothingSkipped, Listening
<1>4. CASE TokenPass
  <2>1. /\ phase = "swapPass" /\ phase' = "tokenPass" /\ todo = << >> /\ chain' = chain
        /\ todo' = Entries("SwapToken", fromBlock..toBlock)
        /\ fromBlock' = fromBlock /\ toBlock' = toBlock
    BY <1>4 DEF TokenPass
  <2>2. \A d \in Deposits(fromBlock..toBlock)' : d \in Deposits(fromBlock..toBlock)
    BY <2>1, RangeStays
  <2>3. Range(todo) = {}
    BY <2>1 DEF Range
  <2>4. Replaying("Swap")
    BY <2>1 DEF PassInv
  <2>5. Replayed("Swap")'
    <3>1. \A d \in Deposits(fromBlock..toBlock) : EventOf(d.kind) = "Swap" => Settled(d)
      BY <2>3, <2>4 DEF Replaying
    <3>2. QED BY <1>2, <2>2, <3>1 DEF Replayed
  <2>6. Replaying("SwapToken")'
    <3>1. \A d \in Deposits(fromBlock..toBlock) :
            EventOf(d.kind) = "SwapToken" => d \in Range(todo')
      BY <1>1, <2>1, EntriesAreDeposits
    <3>2. QED BY <2>2, <3>1 DEF Replaying
  <2>7. QED BY <2>1, <2>5, <2>6 DEF PassInv, NothingSkipped, Listening
<1>5. CASE CaughtUp
  <2>1. /\ phase = "tokenPass" /\ phase' = "pollSwap" /\ todo = << >>
        /\ fromBlock' = fromBlock /\ toBlock' = toBlock
    BY <1>5 DEF CaughtUp
  <2>2. \A d \in Deposits(fromBlock..toBlock)' : d \in Deposits(fromBlock..toBlock)
    BY <2>1, RangeStays
  <2>3. Range(todo) = {} /\ Replayed("Swap") /\ Replaying("SwapToken")
    BY <2>1 DEF Range, PassInv
  <2>4. ASSUME NEW d \in Deposits(fromBlock..toBlock) PROVE Settled(d)
    <3>1. EventOf(d.kind) \in {"Swap", "SwapToken"}
      BY DEF EventOf
    <3>2. QED BY <2>3, <3>1 DEF Replayed, Replaying
  <2>5. NothingSkipped'
    BY <1>2, <2>2, <2>4 DEF NothingSkipped
  <2>6. QED BY <2>1, <2>5 DEF PassInv
<1>6. CASE phase' \in {"down", "register", "run", "dead"}
  BY <1>6 DEF PassInv, NothingSkipped, Listening
<1>7. CASE /\ fromBlock' = fromBlock /\ toBlock' = toBlock
           /\ phase' = phase \/ (Listening /\ Listening')
           /\ Passing => todo' = todo \/ SkipGarbled \/ Track
  <2>1. \A d \in Deposits(fromBlock..toBlock)' : d \in Deposits(fromBlock..toBlock)
    BY <1>7, RangeStays
  <2>2. ASSUME Listening' PROVE NothingSkipped'
    <3>1. Listening
      BY <1>7, <2>2 DEF Listening
    <3>2. \A d \in Deposits(fromBlock..toBlock) : Settled(d)
      BY <3>1 DEF PassInv, NothingSkipped
    <3>3. QED BY <1>2, <2>1, <3>2 DEF NothingSkipped
  <2>3. ASSUME Passing'
        PROVE  /\ phase' = phase
               /\ \A d : d \in Range(todo) \/ Settled(d) => d \in Range(todo') \/ Settled(d)'
    <3>1. phase' = phase
      BY <1>7, <2>3 DEF Listening, Passing
    <3>2. Passing
      BY <2>3, <3>1 DEF Passing
    <3>3. QED BY <1>7, <3>1, <3>2, TodoStays
  <2>4. ASSUME phase' = "swapPass" PROVE Replaying("Swap")'
    <3>1. /\ Replaying("Swap")
          /\ \A d : d \in Range(todo) \/ Settled(d) => d \in Range(todo') \/ Settled(d)'
      BY <2>3, <2>4 DEF Passing, PassInv
    <3>2. QED BY <2>1, <3>1 DEF Replaying
  <2>5. ASSUME phase' = "tokenPass" PROVE Replayed("Swap")' /\ Replaying("SwapToken")'
    <3>1. /\ Replayed("Swap") /\ Replaying("SwapToken")
          /\ \A d : d \in Range(todo) \/ Settled(d) => d \in Range(todo') \/ Settled(d)'
      BY <2>3, <2>5 DEF Passing, PassInv
    <3>2. Replayed("Swap")'
      BY <1>2, <2>1, <3>1 DEF Replayed
    <3>3. Replaying("SwapToken")'
      BY <2>1, <3>1 DEF Replaying
    <3>4. QED BY <3>2, <3>3
  <2>6. NothingSkipped'
    BY <2>2 DEF NothingSkipped
  <2>7. QED BY <2>4, <2>5, <2>6 DEF PassInv
<1>8. CASE PollSwap \/ PollToken \/ Confirm \/ Sleep
  <2>1. /\ fromBlock' = fromBlock /\ toBlock' = toBlock /\ Listening /\ Listening' /\ ~Passing
    BY <1>8 DEF PollSwap, PollToken, Poll, Confirm, Sleep, Listening, Passing
  <2>2. QED BY <1>7, <2>1
<1>9. CASE SkipGarbled \/ Save \/ Track \/ MineAny \/ UNCHANGED vars
  <2>1. /\ fromBlock' = fromBlock /\ toBlock' = toBlock /\ phase' = phase
        /\ todo' = todo \/ SkipGarbled \/ Track
    BY <1>9 DEF SkipGarbled, Save, Track, MineAny, Mine, vars, handling
  <2>2. QED BY <1>7, <2>1
<1>10. CASE Start \/ RegisterToken \/ DieOnUnmapped \/ Stop
  <2>1. phase' \in {"down", "register", "run", "dead"}
    BY <1>10 DEF Start, RegisterToken, DieOnUnmapped, Stop
  <2>2. QED BY <1>6, <2>1
<1>11. QED
  BY <1>3, <1>4, <1>5, <1>8, <1>9, <1>10 DEF Next, Bridge

LEMMA ForgottenStep ==
  ASSUME ShapeInv, HandlingInv, NothingForgotten, [Next]_vars
  PROVE  NothingForgotten'
<1>1. /\ TypeOK /\ chain \in Seq(Logs) /\ height <= MaxHeight /\ height \in Nat
      /\ chain' \in Seq(Logs) /\ height' <= MaxHeight
      /\ \A d \in AllOf(chain') : d.block <= height => d \in AllOf(chain)
  BY ChainGrows DEF ShapeInv, TypeOK
<1>2. \A d : Settled(d) => Settled(d)'
  BY <1>1, SettledStays
<1>3. \A e \in Events : created[e] \in Nat /\ seen[e] \in Nat /\ seen[e] <= height
  BY DEF ShapeInv, TypeOK, FilterInv
<1>4. SUFFICES ASSUME Listening', NEW e \in Events,
                      NEW d \in Deposits((created[e] + 1)..seen[e])', EventOf(d.kind) = e
               PROVE  d \in Range(pending') \/ d \in Range(todo') \/ Settled(d)'
  BY DEF NothingForgotten
<1>5. /\ d \in AllOf(chain') /\ d.block \in (created'[e] + 1)..seen'[e]
      /\ d \in Deposit /\ d.block \in Nat
  BY <1>1, InBlocksNext
\* What was answered earlier was kept.
<1>6. ASSUME Listening, created'[e] = created[e], d.block <= seen[e]
      PROVE  d \in Range(pending) \/ d \in Range(todo) \/ Settled(d)
  <2>1. d.block \in (created[e] + 1)..seen[e]
    <3>1. ShapeInv'
      BY ShapeStep
    <3>2. seen'[e] \in Int
      BY <3>1 DEF ShapeInv, TypeOK
    <3>3. QED BY <1>3, <1>5, <1>6, <3>2
  <2>2. d \in AllOf(chain)
    BY <1>1, <1>3, <1>5, <1>6
  <2>3. d \in Deposits((created[e] + 1)..seen[e])
    BY <1>1, <2>1, <2>2, InBlocks
  <2>4. QED BY <1>4, <1>6, <2>3 DEF NothingForgotten
<1>7. CASE CatchUp \/ CaughtUp
  <2>1. created' = created /\ seen' = seen /\ created = seen
    BY <1>7 DEF CatchUp, CaughtUp, ShapeInv, FilterInv, Passing, listening
  <2>2. d.block \in (seen[e] + 1)..seen[e]
    BY <1>5, <2>1
  <2>3. QED BY <1>3, <1>5, <2>2
<1>8. ASSUME NEW f \in Events, Poll(f), phase \in {"pollSwap", "pollToken"}
      PROVE  d \in Range(pending') \/ d \in Range(todo') \/ Settled(d)'
  <2>1. /\ Listening /\ created' = created /\ todo' = todo /\ chain' = chain
        /\ pending' = pending \o Entries(f, (seen[f] + 1)..height)
    BY <1>8 DEF Poll, Listening, handling
  <2>2. seen'[f] = height /\ \A g \in Events : g # f => seen'[g] = seen[g]
    BY <1>8, FilterStep DEF Poll
  <2>3. /\ Entries(f, (seen[f] + 1)..height) \in Seq(Deposit)
        /\ \A x : x \in Range(Entries(f, (seen[f] + 1)..height)) <=>
                    x \in Deposits((seen[f] + 1)..height) /\ EventOf(x.kind) = f
    BY <1>1, EntriesAreDeposits
  <2>4. \A x : x \in Range(pending') <=>
                 x \in Range(pending) \/ x \in Range(Entries(f, (seen[f] + 1)..height))
    BY <1>1, <2>1, <2>3, RangeOfConcat DEF TypeOK
  <2>5. CASE d.block <= seen[e]
    <3>1. d \in Range(pending) \/ d \in Range(todo) \/ Settled(d)
      BY <1>6, <2>1, <2>5
    <3>2. QED BY <1>2, <2>1, <2>4, <3>1
  <2>6. CASE ~(d.block <= seen[e])
    <3>1. f = e
      <4>1. ASSUME f # e PROVE FALSE
        <5>1. seen'[e] = seen[e]
          BY <2>2, <4>1
        <5>2. d.block \in (created[e] + 1)..seen[e]
          BY <1>5, <2>1, <5>1
        <5>3. QED BY <1>3, <1>5, <2>6, <5>2
      <4>2. QED BY <4>1
    <3>2. d.block \in (created[e] + 1)..height
      BY <1>5, <2>1, <2>2, <3>1
    <3>3. d.block \in (seen[f] + 1)..height
      BY <1>1, <1>3, <1>5, <2>6, <3>1, <3>2
    <3>4. d \in Deposits((seen[f] + 1)..height)
      BY <1>1, <1>5, <2>1, <3>3, InBlocks
    <3>5. QED BY <1>4, <2>3, <2>4, <3>1, <3>4
  <2>7. QED BY <2>5, <2>6
<1>9. CASE PollSwap \/ PollToken
  BY <1>8, <1>9 DEF PollSwap, PollToken, Events
<1>10. ASSUME Listening, created' = created, seen' = seen
       PROVE  d \in Range(pending) \/ d \in Range(todo) \/ Settled(d)
  <2>1. d.block \in (created[e] + 1)..seen[e]
    BY <1>5, <1>10
  <2>2. d.block <= seen[e]
    BY <1>3, <1>5, <2>1
  <2>3. QED BY <1>6, <1>10, <2>2
<1>11. CASE Confirm
  <2>1. /\ Listening /\ created' = created /\ seen' = seen /\ phase = "confirm"
        /\ todo' = Those(pending, ConfirmedPending)
        /\ pending' = Those(pending, Range(pending) \ ConfirmedPending)
    BY <1>11 DEF Confirm, Listening
  <2>2. todo = << >>
    BY <2>1 DEF HandlingInv, Passing
  <2>3. d \in Range(pending) \/ Settled(d)
    BY <1>10, <2>1, <2>2 DEF Range
  <2>4. \A x : x \in Range(pending) => x \in Range(todo') \/ x \in Range(pending')
    BY <1>1, <2>1, RangeOfThose DEF TypeOK
  <2>5. QED BY <1>2, <2>3, <2>4
<1>12. CASE Sleep \/ SkipGarbled \/ DieOnUnmapped \/ Save \/ Track \/ MineAny \/ UNCHANGED vars
  <2>1. /\ created' = created /\ seen' = seen /\ pending' = pending
        /\ todo' = todo \/ SkipGarbled \/ Track
    BY <1>12 DEF Sleep, SkipGarbled, DieOnUnmapped, Save, Track, MineAny, Mine, vars,
                 listening, handling
  <2>2. phase' = phase \/ Sleep \/ DieOnUnmapped
    BY <1>12 DEF SkipGarbled, Save, Track, MineAny, Mine, vars
  <2>3. Listening
    BY <1>4, <2>2 DEF Sleep, DieOnUnmapped, Listening
  <2>4. d \in Range(pending) \/ d \in Range(todo) \/ Settled(d)
    BY <1>10, <2>1, <2>3
  <2>5. \A x : x \in Range(todo) \/ Settled(x) => x \in Range(todo') \/ Settled(x)'
    BY <2>1, TodoStays
  <2>6. QED BY <2>1, <2>4, <2>5
<1>13. CASE Start \/ RegisterToken \/ TokenPass \/ Stop
  BY <1>4, <1>13 DEF Start, RegisterToken, TokenPass, Stop, Listening
<1>14. QED
  BY <1>7, <1>9, <1>11, <1>12, <1>13 DEF Next, Bridge

-----------------------------------------------------------------------------
(* The theorems                                                            *)

LEMMA InvariantStep == IInv /\ [Next]_vars => IInv'
BY ShapeStep, HandlingStep, PassStep, ForgottenStep DEF IInv

LEMMA Invariant == Spec => []IInv
<1>1. Init => IInv
  BY Initial
<1>2. IInv /\ [Next]_vars => IInv'
  BY InvariantStep
<1>3. QED BY <1>1, <1>2, PTL DEF Spec

\* The listener's and the replay's state keeps its types, whatever is mined,
\* stopped or fails: positions never leave the chain, and what is handled is a
\* deposit of it.
THEOREM EventsTypeCorrect == Spec => []TypeOK
<1>1. IInv => TypeOK
  BY DEF IInv, ShapeInv
<1>2. QED BY <1>1, Invariant, PTL

\* catch_up leaves no deposit of its range behind: when the listener starts,
\* each one is a swap, or one of those that _handle makes no swap of.
THEOREM NothingSkippedSafe == Spec => []NothingSkipped
<1>1. IInv => NothingSkipped
  BY DEF IInv, PassInv
<1>2. QED BY <1>1, Invariant, PTL

\* The listener loses none of its filters' answers, whatever is confirmed out
\* of the middle of the list.
THEOREM NothingForgottenSafe == Spec => []NothingForgotten
<1>1. IInv => NothingForgotten
  BY DEF IInv
<1>2. QED BY <1>1, Invariant, PTL

\* A deposit becomes a swap only with as many blocks on top as are asked for.
THEOREM RecordedIsConfirmedSafe == Spec => RecordedIsConfirmed
<1>1. ASSUME IInv, [Next]_vars
      PROVE  \A d \in Range(swaps') \ Range(swaps) : d.block + Confirmations <= height
  <2>1. TypeOK /\ HandlingInv
    BY <1>1 DEF IInv, ShapeInv
  <2>2. CASE Save
    <3>1. /\ Head(todo) \in Deposit /\ Head(todo) \in Range(todo) /\ swaps \in Seq(Deposit)
      BY <2>1, <2>2, HeadOfTodo DEF Save, TypeOK
    <3>2. swaps' = swaps \/ swaps' = Append(swaps, Head(todo))
      BY <2>2 DEF Save
    <3>3. \A d \in Range(swaps') \ Range(swaps) : d = Head(todo)
      BY <3>1, <3>2, RangeOfAppend
    <3>4. QED BY <2>1, <3>1, <3>3 DEF HandlingInv
  <2>3. CASE swaps' = swaps
    BY <2>3
  <2>4. Save \/ swaps' = swaps
    BY <1>1 DEF Next, Bridge, vars, Start, RegisterToken, CreateFilter, CatchUp, TokenPass,
           CaughtUp, PollSwap, PollToken, Poll, Confirm, Sleep, SkipGarbled, DieOnUnmapped,
           Track, Stop, MineAny, Mine, database
  <2>5. QED BY <2>2, <2>3, <2>4
<1>2. IInv /\ [Next]_vars
        => [\A d \in Range(swaps') \ Range(swaps) : d.block + Confirmations <= height]_vars
  BY <1>1
<1>3. Spec => [][Next]_vars
  BY DEF Spec
<1>4. QED BY <1>2, <1>3, Invariant, PTL DEF RecordedIsConfirmed
=============================================================================
