----------------------- MODULE SecretSwapContractProofs -----------------------
(***************************************************************************)
(* Safety of the two contracts for any users, amounts, integer width and   *)
(* number of swaps.  The types and SpentWithinGrants are inductive         *)
(* together.                                                               *)
(***************************************************************************)
EXTENDS SecretSwapContract, SumLemmas, TLAPS

ContractsInv == ContractsTypeOK /\ SpentWithinGrants

-----------------------------------------------------------------------------
(* What the handlers do to the balances                                    *)

BalanceType == [Accounts -> 0..MaxUint]

LEMMA MovedType ==
  ASSUME NEW balance \in BalanceType, NEW from \in Accounts, NEW to \in Accounts,
         NEW amount \in Nat, CanMove(balance, from, to, amount)
  PROVE  Moved(balance, from, to, amount) \in BalanceType
<1> DEFINE paid == [balance EXCEPT ![from] = @ - amount]
<1>1. paid \in [Accounts -> 0..MaxUint] /\ paid[to] + amount \in Nat
  BY TokenAssumption DEF BalanceType, CanMove
<1>2. Moved(balance, from, to, amount) = [paid EXCEPT ![to] = paid[to] + amount]
  BY DEF Moved
<1> HIDE DEF paid
<1>3. paid[to] + amount \in 0..MaxUint
  BY <1>1, <1>2, TokenAssumption DEF CanMove
<1>4. QED
  BY <1>1, <1>2, <1>3 DEF BalanceType

LEMMA BurntType ==
  ASSUME NEW balance \in BalanceType, NEW from \in Accounts,
         NEW amount \in Nat, balance[from] >= amount
  PROVE  Burnt(balance, from, amount) \in BalanceType
BY TokenAssumption DEF BalanceType, Burnt

LEMMA AmountType ==
  ASSUME NEW amount \in Amounts
  PROVE  amount \in Nat /\ amount \in 0..MaxUint
BY TokenAssumption

LEMMA SwapContractIsNoUser == SwapContract \in Accounts /\ SwapContract \notin Users
BY TokenAssumption, SwapContractAssumption DEF Accounts

\* Min and Max choose from a set.
LEMMA UpToMax ==
  ASSUME NEW x \in Nat
  PROVE  Min({x, MaxUint}) = IF x <= MaxUint THEN x ELSE MaxUint
BY TokenAssumption DEF Min

LEMMA SaturatingAddBound ==
  ASSUME NEW x \in 0..MaxUint, NEW y \in Nat
  PROVE  /\ SaturatingAdd(x, y) \in 0..MaxUint
         /\ SaturatingAdd(x, y) <= x + y
         /\ SaturatingAdd(x, y) < x + y => SaturatingAdd(x, y) = MaxUint
<1>1. x + y \in Nat /\ MaxUint \in Nat
  BY TokenAssumption
<1>2. SaturatingAdd(x, y) = IF x + y <= MaxUint THEN x + y ELSE MaxUint
  BY <1>1, UpToMax DEF SaturatingAdd
<1>3. QED
  BY <1>1, <1>2

LEMMA SaturatingSubBound ==
  ASSUME NEW x \in 0..MaxUint, NEW y \in Nat
  PROVE  SaturatingSub(x, y) \in 0..MaxUint /\ SaturatingSub(x, y) <= x
<1>1. x - y \in Int /\ x \in Nat /\ x <= MaxUint /\ MaxUint \in Nat
  BY TokenAssumption
<1>2. SaturatingSub(x, y) = IF x - y >= 0 THEN x - y ELSE 0
  BY <1>1 DEF Max, SaturatingSub
<1>3. QED
  BY <1>1, <1>2

-----------------------------------------------------------------------------
(* Types and allowances                                                    *)

AllowanceType == [Pairs -> [amount : 0..MaxUint, expiration : Options(Expirations)]]

AllowanceInv ==
  /\ allowances \in AllowanceType
  /\ granted \in [Pairs -> Nat] /\ spent \in [Pairs -> Nat]
  /\ revoked \subseteq Pairs
  /\ SpentWithinGrants

\* SpentWithinGrants for one pair, without Min.
Accounted(amount, gave, took, back) ==
  /\ took + amount <= gave
  /\ back \/ (gave <= took + amount) \/ (MaxUint <= took + amount)

LEMMA AllowanceAt ==
  ASSUME AllowanceInv, NEW p \in Pairs
  PROVE  /\ allowances[p].amount \in 0..MaxUint
         /\ allowances[p].expiration \in Options(Expirations)
         /\ granted[p] \in Nat /\ spent[p] \in Nat /\ MaxUint \in Nat
         /\ Accounted(allowances[p].amount, granted[p], spent[p], p \in revoked)
<1>1. /\ allowances[p].amount \in 0..MaxUint
      /\ allowances[p].expiration \in Options(Expirations)
      /\ granted[p] \in Nat /\ spent[p] \in Nat /\ MaxUint \in Nat
  BY TokenAssumption DEF AllowanceInv, AllowanceType
<1>2. /\ spent[p] + allowances[p].amount <= granted[p]
      /\ p \in revoked \/ (Min({granted[p], MaxUint}) <= spent[p] + allowances[p].amount)
  BY DEF AllowanceInv, SpentWithinGrants
<1>3. Min({granted[p], MaxUint}) = granted[p] \/ Min({granted[p], MaxUint}) = MaxUint
  BY <1>1, UpToMax
<1>4. QED
  BY <1>1, <1>2, <1>3 DEF Accounted

LEMMA AllowanceSet ==
  ASSUME AllowanceInv, NEW p \in Pairs,
         NEW amount \in 0..MaxUint, NEW expiration \in Options(Expirations),
         NEW gave \in Nat, NEW took \in Nat,
         allowances' = [allowances EXCEPT ![p] = [amount |-> amount, expiration |-> expiration]],
         granted' = [granted EXCEPT ![p] = gave],
         spent' = [spent EXCEPT ![p] = took],
         revoked \subseteq revoked', revoked' \subseteq Pairs,
         Accounted(amount, gave, took, p \in revoked')
  PROVE  AllowanceInv'
<1>1. /\ allowances' \in AllowanceType
      /\ granted' \in [Pairs -> Nat] /\ spent' \in [Pairs -> Nat]
  BY DEF AllowanceInv, AllowanceType
<1>2. /\ allowances'[p].amount = amount /\ granted'[p] = gave /\ spent'[p] = took
      /\ \A q \in Pairs : q # p => /\ allowances'[q] = allowances[q]
                                  /\ granted'[q] = granted[q]
                                  /\ spent'[q] = spent[q]
  BY DEF AllowanceInv, AllowanceType
<1>3. ASSUME NEW q \in Pairs
      PROVE  /\ spent'[q] + allowances'[q].amount <= granted'[q]
             /\ (q \in revoked') \/ (Min({granted'[q], MaxUint}) <= spent'[q] + allowances'[q].amount)
  <2>1. CASE q # p
    BY <1>2, <2>1 DEF AllowanceInv, SpentWithinGrants
  <2>2. CASE q = p
    <3>1. MaxUint \in Nat
      BY TokenAssumption
    <3>2. Min({gave, MaxUint}) = IF gave <= MaxUint THEN gave ELSE MaxUint
      BY UpToMax
    <3>3. took + amount <= gave
      BY DEF Accounted
    <3>4. (p \in revoked') \/ (Min({gave, MaxUint}) <= took + amount)
      BY <3>1, <3>2 DEF Accounted
    <3>5. QED
      BY <1>2, <2>2, <3>3, <3>4
  <2>3. QED
    BY <2>1, <2>2
<1>4. SpentWithinGrants'
  BY <1>3 DEF SpentWithinGrants
<1>5. QED
  BY <1>1, <1>4 DEF AllowanceInv

LEMMA SpendKeeps ==
  ASSUME AllowanceInv, NEW o \in Users, NEW s \in Users, NEW amount \in Amounts,
         CanSpend(o, s, amount), SpendAllowance(o, s, amount)
  PROVE  AllowanceInv'
<1> DEFINE p == <<o, s>>
<1>1. /\ p \in Pairs
      /\ allowances[p].amount >= amount
      /\ spent' = [spent EXCEPT ![p] = spent[p] + amount]
      /\ granted' = granted /\ revoked' = revoked
  BY DEF CanSpend, SpendAllowance
<1>2. allowances' = [allowances EXCEPT ![p] = [amount |-> allowances[p].amount - amount,
                                               expiration |-> allowances[p].expiration]]
  BY DEF SpendAllowance
<1> HIDE DEF p
<1>3. /\ allowances[p].amount - amount \in 0..MaxUint
      /\ spent[p] + amount \in Nat
      /\ Accounted(allowances[p].amount - amount, granted[p], spent[p] + amount, p \in revoked)
  BY <1>1, AllowanceAt, AmountType DEF Accounted
<1>4. granted' = [granted EXCEPT ![p] = granted[p]] /\ revoked' \subseteq Pairs
  BY <1>1 DEF AllowanceInv
<1>5. QED
  BY <1>1, <1>2, <1>3, <1>4, AllowanceSet, AllowanceAt

LEMMA IncreaseKeeps ==
  ASSUME AllowanceInv, NEW o \in Users, NEW s \in Users, <<o, s>> \in Pairs, NEW amount \in Amounts,
         NEW expiration \in Options(Expirations), IncreaseAllowance(o, s, amount, expiration)
  PROVE  AllowanceInv'
<1> DEFINE p == <<o, s>>
           new == SaturatingAdd(allowances[p].amount, amount)
<1>1. /\ allowances' = [allowances EXCEPT ![p] = [amount |-> new,
                                                  expiration |-> Renewed(allowances[p], expiration)]]
      /\ granted' = [granted EXCEPT ![p] = granted[p] + amount]
      /\ spent' = spent /\ revoked' = revoked
      /\ p \in Pairs
  BY DEF IncreaseAllowance
<1>2. /\ new \in 0..MaxUint
      /\ new <= allowances[p].amount + amount
      /\ new < allowances[p].amount + amount => new = MaxUint
  BY <1>1, AllowanceAt, AmountType, SaturatingAddBound
<1> HIDE DEF p, new
<1>3. Renewed(allowances[p], expiration) \in Options(Expirations)
  BY <1>1, AllowanceAt DEF Renewed
<1>4. granted[p] + amount \in Nat
      /\ Accounted(new, granted[p] + amount, spent[p], p \in revoked)
  BY <1>1, <1>2, AllowanceAt, AmountType DEF Accounted
<1>5. spent' = [spent EXCEPT ![p] = spent[p]] /\ revoked' \subseteq Pairs
  BY <1>1 DEF AllowanceInv
<1>6. QED
  BY <1>1, <1>2, <1>3, <1>4, <1>5, AllowanceSet, AllowanceAt

LEMMA DecreaseKeeps ==
  ASSUME AllowanceInv, NEW o \in Users, NEW s \in Users, <<o, s>> \in Pairs, NEW amount \in Amounts,
         NEW expiration \in Options(Expirations), DecreaseAllowance(o, s, amount, expiration)
  PROVE  AllowanceInv'
<1> DEFINE p == <<o, s>>
           new == SaturatingSub(allowances[p].amount, amount)
<1>1. /\ allowances' = [allowances EXCEPT ![p] = [amount |-> new,
                                                  expiration |-> Renewed(allowances[p], expiration)]]
      /\ granted' = granted /\ spent' = spent /\ revoked' = revoked \union {p}
      /\ p \in Pairs
  BY DEF DecreaseAllowance
<1>2. new \in 0..MaxUint /\ new <= allowances[p].amount
  BY <1>1, AllowanceAt, AmountType, SaturatingSubBound
<1> HIDE DEF p, new
<1>3. Renewed(allowances[p], expiration) \in Options(Expirations)
  BY <1>1, AllowanceAt DEF Renewed
<1>4. Accounted(new, granted[p], spent[p], TRUE)
  BY <1>1, <1>2, AllowanceAt DEF Accounted
<1>5. /\ granted' = [granted EXCEPT ![p] = granted[p]] /\ spent' = [spent EXCEPT ![p] = spent[p]]
      /\ revoked \subseteq revoked' /\ revoked' \subseteq Pairs
  BY <1>1 DEF AllowanceInv
<1>6. Accounted(new, granted[p], spent[p], p \in revoked')
  BY <1>1, <1>4 DEF Accounted
<1>7. QED
  BY <1>1, <1>2, <1>3, <1>5, <1>6, AllowanceSet, AllowanceAt

LEMMA InvAllowances == ContractsInv => AllowanceInv
BY DEF ContractsInv, ContractsTypeOK, TokenTypeOK, AllowanceInv, AllowanceType

LEMMA BurnReceivedKeeps ==
  ASSUME ContractsInv, NEW from \in Users, NEW amount \in Amounts,
         BurnReceived(from, amount)
  PROVE  /\ balances' \in BalanceType
         /\ totalSupply' \in 0..MaxUint
         /\ balances' = [balances EXCEPT ![from] = @ - amount]
         /\ totalSupply' = totalSupply - amount
<1> DEFINE paid == Moved(balances, from, SwapContract, amount)
<1>1. /\ CanMove(balances, from, SwapContract, amount)
      /\ CanBurn(paid, SwapContract, amount)
      /\ balances' = Burnt(paid, SwapContract, amount)
      /\ totalSupply' = totalSupply - amount
  BY DEF BurnReceived
<1>2. /\ balances \in BalanceType
      /\ totalSupply \in 0..MaxUint
      /\ from \in Accounts
      /\ SwapContract \in Accounts
      /\ SwapContract # from
      /\ amount \in Nat
      /\ MaxUint \in Nat
  BY AmountType, SwapContractIsNoUser, TokenAssumption
     DEF ContractsInv, ContractsTypeOK, TokenTypeOK, BalanceType, Accounts
<1>3. balances' \in BalanceType
  BY <1>1, <1>2, MovedType, BurntType DEF CanBurn
<1>4. totalSupply' \in 0..MaxUint
  BY <1>1, <1>2 DEF CanBurn
<1>5. \A a \in Accounts : balances'[a] = [balances EXCEPT ![from] = @ - amount][a]
  BY <1>1, <1>2 DEF Burnt, Moved, BalanceType
<1>6. balances' = [balances EXCEPT ![from] = @ - amount]
  BY <1>2, <1>3, <1>5 DEF BalanceType
<1>7. QED
  BY <1>1, <1>3, <1>4, <1>6

LEMMA ReceiveKeeps ==
  ASSUME ContractsInv, NEW token \in Tokens, NEW from \in Users, NEW amount \in Amounts,
         Receive(token, from, amount)
  PROVE  swaps' \in [Tokens -> Seq(Swap)]
<1>1. /\ swaps \in [Tokens -> Seq(Swap)]
      /\ swaps' = Stored(token, from, amount)
  BY DEF Receive, ContractsInv, ContractsTypeOK
<1>2. [source |-> from, amount |-> amount, nonce |-> Len(swaps[token])] \in Swap
  BY <1>1, AmountType DEF Swap
<1>3. QED
  BY <1>1, <1>2 DEF Stored

LEMMA ContractsInitial == ContractsInit => ContractsInv
<1> SUFFICES ASSUME ContractsInit PROVE ContractsInv
  OBVIOUS
<1>1. PICK minimum \in Options(Amounts) :
        /\ TokenInit(IF minimum = {} THEN {} ELSE {SwapContract})
        /\ whitelist = [t \in Tokens |-> IF t = Token THEN minimum ELSE {}]
  BY DEF ContractsInit
<1>2. {} \in Options(Amounts) /\ {} \in Options(Expirations)
  BY DEF Options
<1>3. TokenTypeOK
  BY <1>1, <1>2, TokenAssumption, InstantiatedAssumption, SwapContractAssumption
     DEF TokenInit, TokenTypeOK, Levels, Accounts
<1>4. owner \in Users /\ paused \in BOOLEAN /\ whitelist \in [Tokens -> Options(Amounts)]
  BY <1>1, <1>2, SwapContractAssumption DEF ContractsInit
<1>5. swaps \in [Tokens -> Seq(Swap)]
  BY DEF ContractsInit
<1>6. SpentWithinGrants
  <2>1. MaxUint \in Nat /\ Min({0, MaxUint}) = IF 0 <= MaxUint THEN 0 ELSE MaxUint
    BY UpToMax, TokenAssumption
  <2>2. \A p \in Pairs : allowances[p].amount = 0 /\ granted[p] = 0 /\ spent[p] = 0
    BY <1>1 DEF TokenInit
  <2>3. QED
    BY <2>1, <2>2 DEF SpentWithinGrants
<1>7. QED
  BY <1>3, <1>4, <1>5, <1>6 DEF ContractsInv, ContractsTypeOK

\* The messages of the token that users send.
LEMMA UserMessageKeeps ==
  ASSUME ContractsInv, NEW u \in Users, UserMessage(u), UNCHANGED swapVars
  PROVE  ContractsInv'
<1> USE DEF ContractsInv, ContractsTypeOK, TokenTypeOK, swapVars, funds, grants, tokenAdmin
<1>0. u \in Accounts /\ Users \subseteq Accounts
  BY DEF Accounts
<1>1. ASSUME NEW r \in Accounts, NEW amount \in Amounts, Transfer(u, r, amount)
      PROVE  ContractsInv'
  <2>1. balances' \in BalanceType
    BY <1>0, <1>1, MovedType, AmountType DEF Transfer, BalanceType
  <2>2. QED
    BY <1>1, <2>1 DEF Transfer, BalanceType, SpentWithinGrants
<1>2. ASSUME NEW r \in Accounts, NEW amount \in Amounts, Mint(u, r, amount)
      PROVE  ContractsInv'
  <2>1. balances' \in BalanceType /\ totalSupply' \in 0..MaxUint
    BY <1>2, AmountType, TokenAssumption DEF Mint, DoMint, CanMint, BalanceType
  <2>2. QED
    BY <1>2, <2>1 DEF Mint, BalanceType, SpentWithinGrants
<1>3. ASSUME NEW o \in Users, NEW r \in Accounts, NEW amount \in Amounts,
             TransferFrom(u, o, r, amount)
      PROVE  ContractsInv'
  <2>1. balances' \in BalanceType
    BY <1>0, <1>3, MovedType, AmountType DEF TransferFrom, BalanceType
  <2>2. AllowanceInv'
    BY <1>3, SpendKeeps, InvAllowances DEF TransferFrom
  <2>3. QED
    BY <1>3, <2>1, <2>2 DEF TransferFrom, BalanceType, AllowanceInv, AllowanceType
<1>4. ASSUME NEW amount \in Amounts, Burn(u, amount)
      PROVE  ContractsInv'
  <2>1. balances' \in BalanceType
    BY <1>0, <1>4, BurntType, AmountType DEF Burn, CanBurn, BalanceType
  <2>2. totalSupply' \in 0..MaxUint
    BY <1>4, AmountType, TokenAssumption DEF Burn, CanBurn
  <2>3. QED
    BY <1>4, <2>1, <2>2 DEF Burn, BalanceType, SpentWithinGrants
<1>5. ASSUME NEW s \in Users, <<u, s>> \in Pairs, NEW amount \in Amounts,
             NEW expiration \in Options(Expirations), IncreaseAllowance(u, s, amount, expiration)
      PROVE  ContractsInv'
  <2>1. AllowanceInv'
    BY <1>5, IncreaseKeeps, InvAllowances
  <2>2. changesLeft' \in 0..MaxChanges
    BY <1>5, TokenAssumption DEF IncreaseAllowance
  <2>3. QED
    BY <1>5, <2>1, <2>2 DEF IncreaseAllowance, AllowanceInv, AllowanceType
<1>6. ASSUME NEW s \in Users, <<u, s>> \in Pairs, NEW amount \in Amounts,
             NEW expiration \in Options(Expirations), DecreaseAllowance(u, s, amount, expiration)
      PROVE  ContractsInv'
  <2>1. AllowanceInv'
    BY <1>6, DecreaseKeeps, InvAllowances
  <2>2. QED
    BY <1>6, <2>1 DEF DecreaseAllowance, AllowanceInv, AllowanceType
<1>7. QED
  BY <1>1, <1>2, <1>3, <1>4, <1>5, <1>6 DEF UserMessage, Send, SendFrom

LEMMA AdminMessageKeeps ==
  ASSUME ContractsInv, NEW u \in Users, AdminMessage(u) \/ NextBlock, UNCHANGED swapVars
  PROVE  ContractsInv'
<1> USE TokenAssumption
    DEF ContractsInv, ContractsTypeOK, TokenTypeOK, SpentWithinGrants,
        swapVars, funds, grants, tokenAdmin, AsAdmin
<1>1. ASSUME NEW v \in Users, ChangeAdmin(u, v) PROVE ContractsInv'
  BY <1>1 DEF ChangeAdmin
<1>2. ASSUME NEW level \in Levels, SetContractStatus(u, level) PROVE ContractsInv'
  BY <1>2 DEF SetContractStatus
<1>3. ASSUME NEW a \in Accounts, AddMinters(u, {a}) PROVE ContractsInv'
  BY <1>3 DEF AddMinters
<1>4. ASSUME NEW a \in Accounts, RemoveMinters(u, {a}) PROVE ContractsInv'
  BY <1>4 DEF RemoveMinters
<1>5. ASSUME NEW a \in Accounts, SetMinters(u, {a}) PROVE ContractsInv'
  BY <1>5 DEF SetMinters
<1>6. CASE NextBlock
  BY <1>6 DEF NextBlock
<1>7. QED
  BY <1>1, <1>2, <1>3, <1>4, <1>5, <1>6 DEF AdminMessage

LEMMA SwapMessageKeeps ==
  ASSUME ContractsInv, NEW u \in Users, SwapMessage(u)
  PROVE  ContractsInv'
<1> USE DEF ContractsInv, ContractsTypeOK, TokenTypeOK, tokenVars, swapVars, funds, grants, tokenAdmin
<1>1. ASSUME NEW amount \in Amounts, SendToSwap(u, amount) PROVE ContractsInv'
  <2>1. /\ balances' \in BalanceType /\ totalSupply' \in 0..MaxUint
        /\ swaps' \in [Tokens -> Seq(Swap)]
    BY <1>1, BurnReceivedKeeps, ReceiveKeeps, SwapContractAssumption DEF SendToSwap
  <2>2. QED
    BY <1>1, <2>1 DEF SendToSwap, Receive, BalanceType, SpentWithinGrants
<1>2. ASSUME NEW o \in Users, NEW amount \in Amounts, SendFromToSwap(u, o, amount)
      PROVE  ContractsInv'
  <2>1. /\ balances' \in BalanceType /\ totalSupply' \in 0..MaxUint
        /\ swaps' \in [Tokens -> Seq(Swap)]
    BY <1>2, BurnReceivedKeeps, ReceiveKeeps, SwapContractAssumption DEF SendFromToSwap
  <2>2. AllowanceInv'
    BY <1>2, SpendKeeps, InvAllowances DEF SendFromToSwap
  <2>3. QED
    BY <1>2, <2>1, <2>2 DEF SendFromToSwap, Receive, BalanceType, AllowanceInv, AllowanceType
<1>3. ASSUME NEW t \in Tokens, NEW amount \in Amounts, ReceiveOther(t, u, amount)
      PROVE  ContractsInv'
  <2>1. swaps' \in [Tokens -> Seq(Swap)]
    BY <1>3, ReceiveKeeps DEF ReceiveOther
  <2>2. QED
    BY <1>3, <2>1 DEF ReceiveOther, Receive, SpentWithinGrants
<1>4. ASSUME NEW to \in Accounts, NEW amount \in Amounts, MintFromExtChain(to, amount)
      PROVE  ContractsInv'
  <2>1. balances' \in BalanceType /\ totalSupply' \in 0..MaxUint
    BY <1>4, AmountType, TokenAssumption DEF MintFromExtChain, DoMint, CanMint, BalanceType
  <2>2. QED
    BY <1>4, <2>1 DEF MintFromExtChain, BalanceType, SpentWithinGrants
<1>5. QED
  BY <1>1, <1>2, <1>3, <1>4 DEF SwapMessage

LEMMA OwnerMessageKeeps ==
  ASSUME ContractsInv, NEW u \in Users, OwnerMessage(u)
  PROVE  ContractsInv'
<1> USE TokenAssumption
    DEF ContractsInv, ContractsTypeOK, TokenTypeOK, SpentWithinGrants,
        swapVars, funds, grants, tokenAdmin, AsOwner
<1>1. CASE PauseSwap(u)
  BY <1>1 DEF PauseSwap
<1>2. CASE UnpauseSwap(u)
  <2>1. paused' = FALSE
    BY <1>2 DEF UnpauseSwap
  <2>2. paused' \in BOOLEAN
    BY ONLY <2>1, Zenon
  <2>3. QED
    BY <1>2, <2>2 DEF UnpauseSwap
<1>3. ASSUME NEW v \in Users, ChangeOwner(u, v) PROVE ContractsInv'
  BY <1>3 DEF ChangeOwner
<1>4. ASSUME NEW t \in Tokens, RemoveToken(u, t) PROVE ContractsInv'
  <2>1. whitelist' \in [Tokens -> Options(Amounts)]
    BY <1>4 DEF RemoveToken, Unlisted, Options
  <2>2. SpentWithinGrants'
    BY <1>4 DEF RemoveToken
  <2>3. changesLeft' \in 0..MaxChanges
    BY <1>4 DEF RemoveToken
  <2>4. QED
    BY <1>4, <2>1, <2>2, <2>3 DEF RemoveToken
<1>5. ASSUME NEW t \in Tokens, NEW minimum \in Amounts, AddToken(u, t, minimum)
      PROVE  ContractsInv'
  <2>1. whitelist' \in [Tokens -> Options(Amounts)]
    BY <1>5 DEF AddToken, Listed, Options
  <2>2. receivers' \subseteq Contracts
    BY <1>5, SwapContractAssumption DEF AddToken, RegisterReceive
  <2>3. QED
    BY <1>5, <2>1, <2>2 DEF AddToken
<1>6. QED
  BY <1>1, <1>2, <1>3, <1>4, <1>5 DEF OwnerMessage

LEMMA ContractsStep == ContractsInv /\ [ContractsNext]_contractVars => ContractsInv'
<1> SUFFICES ASSUME ContractsInv, [ContractsNext]_contractVars PROVE ContractsInv'
  OBVIOUS
<1>1. CASE TokenNext /\ UNCHANGED swapVars
  <2>1. ASSUME NEW u \in Users, UserMessage(u) PROVE ContractsInv'
    BY <1>1, <2>1, UserMessageKeeps
  <2>2. ASSUME NEW u \in Users, AdminMessage(u) PROVE ContractsInv'
    BY <1>1, <2>2, AdminMessageKeeps
  <2>3. CASE NextBlock
    BY <1>1, <2>3, AdminMessageKeeps, TokenAssumption
  <2>4. QED
    BY <1>1, <2>1, <2>2, <2>3 DEF TokenNext
<1>2. ASSUME NEW u \in Users, OwnerMessage(u) PROVE ContractsInv'
  BY <1>2, OwnerMessageKeeps
<1>3. ASSUME NEW u \in Users, SwapMessage(u) PROVE ContractsInv'
  BY <1>3, SwapMessageKeeps
<1>4. CASE UNCHANGED contractVars
  BY <1>4 DEF contractVars, tokenVars, swapVars, funds, grants, tokenAdmin,
              ContractsInv, ContractsTypeOK, TokenTypeOK, SpentWithinGrants
<1>5. QED
  BY <1>1, <1>2, <1>3, <1>4 DEF ContractsNext

\* ContractsInv is inductive.
THEOREM ContractsInvariance == ContractsSpec => []ContractsInv
<1>1. QED
  BY ContractsInitial, ContractsStep, PTL DEF ContractsSpec

\* The state keeps its types, and every number its width, whatever is sent.
THEOREM ContractsTypeCorrect == ContractsSpec => []ContractsTypeOK
<1>1. ContractsInv => ContractsTypeOK
  BY DEF ContractsInv
<1>2. QED
  BY <1>1, ContractsInvariance, PTL

\* No spender takes more than the owner has ever granted, and what was granted
\* and not taken back is there up to the largest u128, though try_increase_allowance
\* saturates and an expired allowance counts again when it is renewed.
THEOREM AllowancesSafe == ContractsSpec => []SpentWithinGrants
<1>1. ContractsInv => SpentWithinGrants
  BY DEF ContractsInv
<1>2. QED
  BY <1>1, ContractsInvariance, PTL

-----------------------------------------------------------------------------
(* The swaps                                                               *)

\* A step leaves the swaps alone, or appends one to a token.
SwapsStep ==
  \/ UNCHANGED swaps
  \/ \E t \in Tokens, u \in Users, amount \in Amounts : swaps' = Stored(t, u, amount)

LEMMA SwapsChangeByStore == [ContractsNext]_contractVars => SwapsStep
<1> SUFFICES ASSUME [ContractsNext]_contractVars PROVE SwapsStep
  OBVIOUS
<1>1. CASE UNCHANGED swapVars \/ UNCHANGED contractVars
  BY <1>1 DEF SwapsStep, swapVars, contractVars
<1>2. ASSUME NEW u \in Users, OwnerMessage(u) PROVE SwapsStep
  BY <1>2 DEF SwapsStep, OwnerMessage, PauseSwap, UnpauseSwap, ChangeOwner, RemoveToken,
              AddToken, AsOwner
<1>3. ASSUME NEW u \in Users, SwapMessage(u) PROVE SwapsStep
  BY <1>3, SwapContractAssumption
     DEF SwapsStep, SwapMessage, SendToSwap, SendFromToSwap, ReceiveOther, MintFromExtChain,
         Receive, swapVars
<1>4. QED
  BY <1>1, <1>2, <1>3 DEF ContractsNext

\* The leader may ask for swap after swap by its position, for any tokens.
THEOREM NoncesSafe == ContractsSpec => []NonceIsPosition
<1>1. ContractsInit => NonceIsPosition
  BY DEF ContractsInit, NonceIsPosition
<1>2. ContractsTypeOK /\ NonceIsPosition /\ [ContractsNext]_contractVars => NonceIsPosition'
  <2> SUFFICES ASSUME ContractsTypeOK, NonceIsPosition, SwapsStep PROVE NonceIsPosition'
    BY SwapsChangeByStore
  <2>1. CASE UNCHANGED swaps
    BY <2>1 DEF NonceIsPosition
  <2>2. ASSUME NEW t \in Tokens, NEW u \in Users, NEW amount \in Amounts,
               swaps' = Stored(t, u, amount)
        PROVE  NonceIsPosition'
    <3>1. swaps \in [Tokens -> Seq(Swap)]
      BY DEF ContractsTypeOK
    <3>2. [source |-> u, amount |-> amount, nonce |-> Len(swaps[t])] \in Swap
      BY <3>1, AmountType DEF Swap
    <3>3. \A r \in Tokens \ {t} : swaps'[r] = swaps[r]
      BY <2>2, <3>1 DEF Stored
    <3>4. swaps'[t] = Append(swaps[t], [source |-> u, amount |-> amount, nonce |-> Len(swaps[t])])
      BY <2>2, <3>1 DEF Stored
    <3>5. \A i \in DOMAIN swaps'[t] : swaps'[t][i].nonce = i - 1
      BY <3>1, <3>2, <3>4 DEF NonceIsPosition
    <3>6. QED
      BY <3>3, <3>5 DEF NonceIsPosition
  <2>3. QED
    BY <2>1, <2>2 DEF SwapsStep
<1>3. QED
  BY <1>1, <1>2, ContractsTypeCorrect, PTL DEF ContractsSpec

\* No message changes or drops a swap that was recorded.
THEOREM SwapsKept == ContractsSpec => SwapsAreFinal
<1> DEFINE Kept == \A t \in Tokens : IsPrefix(swaps[t], swaps'[t])
<1>1. ContractsTypeOK /\ [ContractsNext]_contractVars => [Kept]_contractVars
  <2> SUFFICES ASSUME ContractsTypeOK, SwapsStep PROVE Kept
    BY SwapsChangeByStore
  <2>1. swaps \in [Tokens -> Seq(Swap)]
    BY DEF ContractsTypeOK
  <2>2. CASE UNCHANGED swaps
    BY <2>1, <2>2 DEF IsPrefix
  <2>3. ASSUME NEW t \in Tokens, NEW u \in Users, NEW amount \in Amounts,
               swaps' = Stored(t, u, amount)
        PROVE  Kept
    <3> DEFINE new == [source |-> u, amount |-> amount, nonce |-> Len(swaps[t])]
    <3>1. new \in Swap
      BY <2>1, AmountType DEF Swap
    <3>2. /\ \A r \in Tokens \ {t} : swaps'[r] = swaps[r]
          /\ swaps'[t] = Append(swaps[t], new)
      BY <2>1, <2>3 DEF Stored
    <3> HIDE DEF new
    <3>3. IsPrefix(swaps[t], swaps'[t])
      BY <2>1, <3>1, <3>2 DEF IsPrefix
    <3>4. \A r \in Tokens \ {t} : IsPrefix(swaps[r], swaps'[r])
      BY <2>1, <3>2 DEF IsPrefix
    <3>5. QED
      BY <3>3, <3>4
  <2>4. QED
    BY <2>2, <2>3 DEF SwapsStep
<1>2. QED
  BY <1>1, ContractsTypeCorrect, PTL DEF ContractsSpec, SwapsAreFinal

\* A stopped token is frozen for every caller.
THEOREM StoppedTokenIsFrozen == ContractsSpec => StoppedIsFrozen
<1> DEFINE Frozen == UNCHANGED <<funds, grants, minters, admin, swaps[Token]>>
<1>1. ContractsTypeOK /\ [ContractsNext]_contractVars => [~Running => Frozen]_contractVars
  <2> SUFFICES ASSUME ContractsTypeOK, ContractsNext, ~Running PROVE Frozen
    BY DEF contractVars
  <2> USE DEF tokenVars, swapVars, funds, grants, tokenAdmin
  <2>1. CASE UNCHANGED swapVars /\ NextBlock
    BY <2>1 DEF NextBlock
  <2>2. ASSUME NEW u \in Users, UNCHANGED swapVars, UserMessage(u) PROVE Frozen
    BY <2>2 DEF UserMessage, Transfer, Send, Mint, DoMint, TransferFrom, SendFrom, Burn,
                IncreaseAllowance, DecreaseAllowance
  <2>3. ASSUME NEW u \in Users, UNCHANGED swapVars, AdminMessage(u) PROVE Frozen
    BY <2>3 DEF AdminMessage, AsAdmin, ChangeAdmin, SetContractStatus, AddMinters,
                RemoveMinters, SetMinters
  <2>4. ASSUME NEW u \in Users, OwnerMessage(u) PROVE Frozen
    BY <2>4 DEF OwnerMessage, AsOwner, PauseSwap, UnpauseSwap, ChangeOwner, RemoveToken, AddToken
  <2>5. ASSUME NEW u \in Users, NEW amount \in Amounts, NEW t \in Tokens, ReceiveOther(t, u, amount)
        PROVE  Frozen
    BY <2>5, SwapContractAssumption DEF ReceiveOther, Receive, Stored, ContractsTypeOK
  <2>6. ASSUME NEW u \in Users, SwapMessage(u) PROVE Frozen
    BY <2>5, <2>6 DEF SwapMessage, SendToSwap, SendFromToSwap, MintFromExtChain, DoMint
  <2>7. QED
    BY <2>1, <2>2, <2>3, <2>4, <2>6 DEF ContractsNext, TokenNext
<1>2. QED
  BY <1>1, ContractsTypeCorrect, PTL DEF ContractsSpec, StoppedIsFrozen

-----------------------------------------------------------------------------
(* The funds                                                               *)

LEMMA FundsType == ContractsTypeOK => balances \in BalanceType /\ totalSupply \in Nat /\ MaxUint \in Nat
BY TokenAssumption DEF ContractsTypeOK, TokenTypeOK, BalanceType

LEMMA AccountsFinite == IsFiniteSet(Accounts)
BY TokenAssumption, FS_Union DEF Accounts

LEMMA BalanceChange ==
  ASSUME NEW f \in [Accounts -> Nat], NEW a \in Accounts, NEW x \in Nat
  PROVE  /\ Total(f, Accounts) \in Nat
         /\ Total([f EXCEPT ![a] = x], Accounts) = Total(f, Accounts) + x - f[a]
<1> DEFINE g == [f EXCEPT ![a] = x]
<1>1. /\ \A y \in Accounts : f[y] \in Nat /\ g[y] \in Nat
      /\ \A y \in Accounts \ {a} : f[y] = g[y]
      /\ g[a] = x
  OBVIOUS
<1> HIDE DEF g
<1>2. Total(f, Accounts) \in Nat /\ Total(g, Accounts) = Total(f, Accounts) + g[a] - f[a]
  <2> DEFINE S == Accounts
  <2>1. a \in S /\ IsFiniteSet(S) /\ \A y \in S : f[y] \in Nat /\ g[y] \in Nat
    BY <1>1, AccountsFinite
  <2>2. \A y \in S \ {a} : f[y] = g[y]
    BY <1>1
  <2> HIDE DEF S
  <2>3. Total(f, S) \in Nat /\ Total(g, S) = Total(f, S) + g[a] - f[a]
    BY ONLY <2>1, <2>2, TotalChange
  <2>4. QED
    BY <2>3 DEF S
<1>3. QED
  BY <1>1, <1>2 DEF g

LEMMA MovedTotal ==
  ASSUME NEW f \in [Accounts -> Nat], NEW from \in Accounts, NEW to \in Accounts,
         NEW amount \in Nat, f[from] >= amount
  PROVE  Total(Moved(f, from, to, amount), Accounts) = Total(f, Accounts)
<1> DEFINE paid == [f EXCEPT ![from] = f[from] - amount]
<1>1. f[from] - amount \in Nat /\ f[from] \in Nat
  OBVIOUS
<1>2. paid \in [Accounts -> Nat] /\ paid[to] + amount \in Nat /\ paid[to] \in Nat
  BY <1>1
<1>3. Total(f, Accounts) \in Nat /\ Total(paid, Accounts) = Total(f, Accounts) + (f[from] - amount) - f[from]
  BY <1>1, BalanceChange
<1>4. Moved(f, from, to, amount) = [paid EXCEPT ![to] = paid[to] + amount]
  BY DEF Moved
<1> HIDE DEF paid
<1>5. Total([paid EXCEPT ![to] = paid[to] + amount], Accounts)
        = Total(paid, Accounts) + (paid[to] + amount) - paid[to]
  BY <1>2, BalanceChange
<1>6. Total(paid, Accounts) = Total(f, Accounts) - amount
  <2>1. \A s, b, x \in Int : s + (b - x) - b = s - x
    OBVIOUS
  <2>2. QED
    BY <1>1, <1>3, <2>1
<1>7. \A s, b, x \in Int : (s - x) + (b + x) - b = s
  OBVIOUS
<1>8. QED
  BY <1>2, <1>3, <1>4, <1>5, <1>6, <1>7

\* All that a message can do to the funds.
FundsStep ==
  \/ UNCHANGED <<balances, totalSupply>>
  \/ \E from, to \in Accounts, amount \in Amounts :
       /\ balances[from] >= amount
       /\ balances' = Moved(balances, from, to, amount)
       /\ totalSupply' = totalSupply
  \/ \E from \in Accounts, amount \in Amounts :
       /\ balances[from] >= amount
       /\ balances' = [balances EXCEPT ![from] = @ - amount]
       /\ totalSupply' = totalSupply - amount
  \/ \E to \in Accounts, amount \in Amounts :
       /\ balances' = [balances EXCEPT ![to] = @ + amount]
       /\ totalSupply' = totalSupply + amount

LEMMA FundsChange == ContractsInv /\ [ContractsNext]_contractVars => FundsStep
<1> SUFFICES ASSUME ContractsInv, [ContractsNext]_contractVars PROVE FundsStep
  OBVIOUS
<1>0. Users \subseteq Accounts
  BY DEF Accounts
<1>1. CASE UNCHANGED funds
  BY <1>1 DEF funds, FundsStep
<1>2. ASSUME NEW u \in Users, UserMessage(u) PROVE FundsStep
  <2>1. ASSUME NEW o \in Users, NEW r \in Accounts, NEW amount \in Amounts,
               \/ Transfer(o, r, amount) \/ \E s \in Users : TransferFrom(s, o, r, amount)
        PROVE  FundsStep
    BY <1>0, <2>1 DEF Transfer, TransferFrom, CanMove, FundsStep
  <2>2. ASSUME NEW r \in Accounts, NEW amount \in Amounts, Mint(u, r, amount) PROVE FundsStep
    BY <2>2 DEF Mint, DoMint, FundsStep
  <2>3. ASSUME NEW amount \in Amounts, Burn(u, amount) PROVE FundsStep
    BY <1>0, <2>3 DEF Burn, CanBurn, Burnt, FundsStep
  <2>4. ASSUME NEW s \in Users, NEW amount \in Amounts, NEW expiration \in Options(Expirations),
               IncreaseAllowance(u, s, amount, expiration) \/ DecreaseAllowance(u, s, amount, expiration)
        PROVE  FundsStep
    BY <1>1, <2>4 DEF IncreaseAllowance, DecreaseAllowance
  <2>5. QED
    BY <1>2, <2>1, <2>2, <2>3, <2>4 DEF UserMessage, Send, SendFrom
<1>3. ASSUME NEW u \in Users, AdminMessage(u) \/ OwnerMessage(u) PROVE FundsStep
  BY <1>1, <1>3 DEF AdminMessage, AsAdmin, ChangeAdmin, SetContractStatus, AddMinters,
       RemoveMinters, SetMinters, OwnerMessage, AsOwner, PauseSwap, UnpauseSwap, ChangeOwner,
       RemoveToken, AddToken
<1>4. ASSUME NEW u \in Users, SwapMessage(u) PROVE FundsStep
  <2>1. ASSUME NEW from \in Users, NEW amount \in Amounts, BurnReceived(from, amount)
        PROVE  FundsStep
    <3>1. /\ balances' = [balances EXCEPT ![from] = @ - amount]
          /\ totalSupply' = totalSupply - amount
      BY <2>1, BurnReceivedKeeps
    <3>2. balances[from] >= amount
      BY <2>1 DEF BurnReceived, CanMove
    <3>3. QED
      BY <1>0, <3>1, <3>2 DEF FundsStep
  <2>2. ASSUME NEW to \in Accounts, NEW amount \in Amounts, MintFromExtChain(to, amount)
        PROVE  FundsStep
    BY <2>2 DEF MintFromExtChain, DoMint, FundsStep
  <2>3. ASSUME NEW t \in Tokens, NEW amount \in Amounts, ReceiveOther(t, u, amount)
        PROVE  FundsStep
    BY <1>1, <2>3 DEF ReceiveOther, tokenVars
  <2>4. QED
    BY <1>4, <2>1, <2>2, <2>3 DEF SwapMessage, SendToSwap, SendFromToSwap
<1>5. NextBlock \/ UNCHANGED contractVars => FundsStep
  BY <1>1 DEF NextBlock, contractVars, tokenVars
<1>6. QED
  BY <1>2, <1>3, <1>4, <1>5 DEF ContractsNext, TokenNext

\* Every message that changes a balance changes the supply by as much.
THEOREM SupplySafe == ContractsSpec => []SupplyIsBalances
<1> DEFINE B == Total(balances, Accounts)
<1>0. InitialSum \in Int /\ Total(InitialFunds, Accounts) \in Nat
  <2>1. InitialSum \in 0..MaxUint /\ \A a \in Accounts : InitialFunds[a] \in Nat
    BY InstantiatedAssumption, TokenAssumption
  <2>2. QED
    BY <2>1, AccountsFinite, UnitsFinite
<1>1. ContractsInit => SupplyIsBalances
  <2>1. ContractsInit => balances = InitialFunds /\ totalSupply = InitialSum
    BY DEF ContractsInit, TokenInit
  <2>2. QED
    BY <1>0, <2>1 DEF SupplyIsBalances, Overcounted
<1>2. ContractsInv /\ SupplyIsBalances /\ [ContractsNext]_contractVars => SupplyIsBalances'
  <2> SUFFICES ASSUME ContractsInv, SupplyIsBalances, FundsStep
               PROVE  totalSupply' - totalSupply = Total(balances', Accounts) - B
                      /\ totalSupply \in Int /\ totalSupply' \in Int /\ B \in Int
                      /\ Total(balances', Accounts) \in Int
    <3>1. Overcounted \in Int /\ Overcounted' = Overcounted
      BY <1>0 DEF Overcounted
    <3>2. \A s, t, b, c, d \in Int : s = b + d /\ t - s = c - b => t = c + d
      OBVIOUS
    <3>3. QED
      BY <3>1, <3>2, FundsChange DEF SupplyIsBalances
  <2>1. /\ balances \in [Accounts -> Nat] /\ totalSupply \in Nat
        /\ \A amount \in Amounts : amount \in Nat
    BY FundsType, AmountType DEF BalanceType, ContractsInv
  <2>2. B \in Nat
    BY <2>1, AccountsFinite, UnitsFinite
  <2>3. CASE UNCHANGED <<balances, totalSupply>>
    BY <2>1, <2>2, <2>3
  <2>4. ASSUME NEW from \in Accounts, NEW to \in Accounts, NEW amount \in Amounts,
               balances[from] >= amount, balances' = Moved(balances, from, to, amount),
               totalSupply' = totalSupply
        PROVE  Total(balances', Accounts) = B
    BY <2>1, <2>4, MovedTotal
  <2>5. ASSUME NEW from \in Accounts, NEW amount \in Amounts, balances[from] >= amount,
               balances' = [balances EXCEPT ![from] = @ - amount]
        PROVE  Total(balances', Accounts) = B - amount
    <3>1. balances[from] \in Nat /\ balances[from] - amount \in Nat /\ amount \in Nat
      BY <2>1, <2>5
    <3>2. Total(balances', Accounts) = B + (balances[from] - amount) - balances[from]
      BY <2>1, <2>5, <3>1, BalanceChange
    <3>3. QED
      BY <2>2, <3>1, <3>2
  <2>6. ASSUME NEW to \in Accounts, NEW amount \in Amounts,
               balances' = [balances EXCEPT ![to] = @ + amount]
        PROVE  Total(balances', Accounts) = B + amount
    <3>1. balances[to] \in Nat /\ balances[to] + amount \in Nat /\ amount \in Nat
      BY <2>1
    <3>2. Total(balances', Accounts) = B + (balances[to] + amount) - balances[to]
      BY <2>1, <2>6, <3>1, BalanceChange
    <3>3. QED
      BY <2>2, <3>1, <3>2
  <2> HIDE DEF B
  <2>7. QED
    BY <2>1, <2>2, <2>3, <2>4, <2>5, <2>6 DEF FundsStep
<1>3. QED
  BY <1>1, <1>2, ContractsInvariance, PTL DEF ContractsSpec

\* Exactly what a swap records leaves its source and the supply.
THEOREM SwapBurnsSafe == ContractsSpec => SwapBurnsItsAmount
<1> DEFINE Burns == Len(swaps'[Token]) > Len(swaps[Token]) =>
                      LET swap == Last(swaps'[Token]) IN
                        /\ totalSupply' = totalSupply - swap.amount
                        /\ balances' = [balances EXCEPT ![swap.source] = @ - swap.amount]
<1>1. ContractsInv /\ [ContractsNext]_contractVars => [Burns]_contractVars
  <2> SUFFICES ASSUME ContractsInv, ContractsNext PROVE Burns
    OBVIOUS
  <2>1. swaps \in [Tokens -> Seq(Swap)] /\ Token \in Tokens
    BY SwapContractAssumption DEF ContractsInv, ContractsTypeOK
  <2>2. CASE swaps'[Token] = swaps[Token]
    <3>1. ~(Len(swaps[Token]) > Len(swaps[Token]))
      BY <2>1
    <3>2. QED BY <2>2, <3>1
  <2>3. ASSUME NEW from \in Users, NEW amount \in Amounts,
               Receive(Token, from, amount), BurnReceived(from, amount)
        PROVE  Burns
    <3> DEFINE new == [source |-> from, amount |-> amount, nonce |-> Len(swaps[Token])]
    <3>1. swaps'[Token] = Append(swaps[Token], new)
      BY <2>1, <2>3 DEF Receive, Stored
    <3>2. new \in Swap /\ new.source = from /\ new.amount = amount
      BY <2>1, AmountType DEF Swap
    <3> HIDE DEF new
    <3>3. Last(swaps'[Token]) = new
      BY <2>1, <3>1, <3>2 DEF Last
    <3>4. /\ totalSupply' = totalSupply - amount
          /\ balances' = [balances EXCEPT ![from] = @ - amount]
      BY <2>3, BurnReceivedKeeps
    <3>5. QED BY <3>2, <3>3, <3>4
  <2> HIDE DEF Burns
  <2>4. ASSUME NEW t \in Tokens, NEW u \in Users, NEW amount \in Amounts, ReceiveOther(t, u, amount)
        PROVE  Burns
    BY <2>1, <2>2, <2>4 DEF ReceiveOther, Receive, Stored
  <2>5. UNCHANGED swaps => Burns
    BY <2>2
  <2>6. ASSUME NEW u \in Users, SwapMessage(u) PROVE Burns
    BY <2>3, <2>4, <2>5, <2>6
       DEF SwapMessage, SendToSwap, SendFromToSwap, MintFromExtChain, swapVars
  <2>7. ASSUME NEW u \in Users, OwnerMessage(u) PROVE Burns
    BY <2>5, <2>7 DEF OwnerMessage, AsOwner, PauseSwap, UnpauseSwap, ChangeOwner, RemoveToken,
                      AddToken
  <2>8. QED
    BY <2>5, <2>6, <2>7 DEF ContractsNext, swapVars
<1>2. QED
  BY <1>1, ContractsInvariance, PTL DEF ContractsSpec, SwapBurnsItsAmount
===============================================================================
