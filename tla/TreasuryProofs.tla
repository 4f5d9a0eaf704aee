--------------------------- MODULE TreasuryProofs ---------------------------
(* Type correctness of the treasury and the invariants that keep its books  *)
(* and its tokens together, for every council, amount and bound.            *)
EXTENDS Treasury, TokenLedgerProofs, AdminCouncilProofs, SumProofs

\* Appending to and updating a sequence keep it a sequence over its set.
LEMMA AppendType ==
    ASSUME NEW S, NEW s \in Seq(S), NEW e \in S
    PROVE  /\ Append(s, e) \in Seq(S)
           /\ Len(Append(s, e)) = Len(s) + 1
           /\ \A i \in DOMAIN s : Append(s, e)[i] = s[i]
           /\ Append(s, e)[Len(s) + 1] = e
  OBVIOUS

LEMMA UpdateType ==
    ASSUME NEW S, NEW s \in Seq(S), NEW i \in DOMAIN s, NEW e \in S
    PROVE  /\ [s EXCEPT ![i] = e] \in Seq(S)
           /\ DOMAIN [s EXCEPT ![i] = e] = DOMAIN s
  OBVIOUS

\* What booking an entry of a positive amount does to statistics and history
\* (Book, called by deposit, withdraw and allocate).
LEMMA BookType ==
    ASSUME TypeOK, NEW kind \in EntryKind, NEW amount \in Int, amount > 0,
           NEW actor \in Holders, NEW recipient \in Holders \cup {NoAddress},
           Book(kind, amount, actor, recipient)
    PROVE  /\ stats' \in [EntryKind -> 0 .. MaxI128]
           /\ entries' \in Seq(Entry)
           /\ stats' = [stats EXCEPT ![kind] = stats[kind] + amount]
<1>1. stats' = [stats EXCEPT ![kind] = stats[kind] + amount]
  BY DEF Book, CountInStats
<1>2. stats[kind] + amount \in 0 .. MaxI128
  <2>1. stats[kind] \in 0 .. MaxI128
    BY DEF TypeOK
  <2>2. stats[kind] + amount <= MaxI128
    BY DEF Book, CountInStats, AddFits
  <2> QED  BY <2>1, <2>2, TreasuryAssumption
<1>3. stats' \in [EntryKind -> 0 .. MaxI128]
  BY <1>1, <1>2 DEF TypeOK
<1> DEFINE e == [kind |-> kind, amount |-> amount, actor |-> actor,
                 recipient |-> recipient]
<1>4. e \in Entry
  BY DEF Entry
<1>5. entries' = Append(entries, e)
  BY DEF Book, RecordEntry
<1>6. entries' \in Seq(Entry)
  BY <1>4, <1>5, AppendType DEF TypeOK
<1> QED  BY <1>1, <1>3, <1>6

-----------------------------------------------------------------------------
(* Type correctness.                                                        *)

LEMMA TypeInit == Init => TypeOK
<1> SUFFICES ASSUME Init PROVE TypeOK
  OBVIOUS
<1>1. council \in [members : Seq(Accounts), threshold : Nat]
  BY DEF Init, NoCouncil
<1>2. balance \in 0 .. MaxI128 /\ stats \in [EntryKind -> 0 .. MaxI128]
  BY TreasuryAssumption DEF Init
<1>3. entries \in Seq(Entry) /\ programs \in Seq(Program)
  BY DEF Init
<1>4. tokens \in [Holders -> Nat] /\ signers \in SUBSET Accounts
  BY TreasuryAssumption DEF Init
<1> QED  BY <1>1, <1>2, <1>3, <1>4 DEF TypeOK

LEMMA TypeStep == TypeOK /\ [Next]_vars => TypeOK'
<1> SUFFICES ASSUME TypeOK, [Next]_vars PROVE TypeOK'
  OBVIOUS
<1> USE TreasuryAssumption
<1>1. CASE UNCHANGED vars
  BY <1>1 DEF vars, TypeOK
<1>2. ASSUME NEW c \in Councils, initialize(c) PROVE TypeOK'
  BY <1>2 DEF initialize, TypeOK
<1>3. ASSUME NEW from \in Accounts, NEW amount \in Amounts, deposit(from, amount)
      PROVE  TypeOK'
  <2>1. /\ amount \in Int /\ amount > 0 /\ from \in Holders /\ TreasuryAddr \in Holders
        /\ Book("Deposit", amount, from, NoAddress)
    BY <1>3 DEF deposit, DepositOn, Holders
  <2>2. stats' \in [EntryKind -> 0 .. MaxI128] /\ entries' \in Seq(Entry)
    BY <2>1, BookType DEF EntryKind
  <2>3. balance' \in 0 .. MaxI128
    BY <1>3, <2>1 DEF deposit, DepositOn, AddFits, TypeOK
  <2>4. tokens' \in [Holders -> Nat]
    BY <1>3, <2>1, TransferType DEF deposit, DepositOn, TypeOK
  <2> QED  BY <1>3, <2>2, <2>3, <2>4 DEF deposit, DepositOn, TypeOK
<1>4. ASSUME NEW auth \in SUBSET Accounts, NEW to \in Holders, NEW amount \in Amounts,
             withdraw(auth, to, amount)
      PROVE  TypeOK'
  <2>1. /\ amount \in Int /\ amount > 0 /\ TreasuryAddr \in Holders
        /\ Book("Withdrawal", amount, TreasuryAddr, to)
    BY <1>4 DEF withdraw, Holders
  <2>2. stats' \in [EntryKind -> 0 .. MaxI128] /\ entries' \in Seq(Entry)
    BY <2>1, BookType DEF EntryKind
  <2>3. balance' \in 0 .. MaxI128
    BY <1>4, <2>1 DEF withdraw, PayOut, Covers, TypeOK
  <2>4. tokens' \in [Holders -> Nat]
    BY <1>4, <2>1, TransferType DEF withdraw, PayOut, TypeOK
  <2> QED  BY <1>4, <2>2, <2>3, <2>4 DEF withdraw, TypeOK
<1>5. ASSUME NEW auth \in SUBSET Accounts, NEW n \in NameLengths, NEW budget \in Amounts,
             create_program(auth, n, budget)
      PROVE  TypeOK'
  <2>1. [budget |-> budget, spent |-> 0, active |-> TRUE] \in Program
    BY <1>5 DEF create_program, Program
  <2>2. programs' \in Seq(Program)
    BY <1>5, <2>1, AppendType DEF create_program, TypeOK
  <2> QED  BY <1>5, <2>2 DEF create_program, TypeOK
<1>6. ASSUME NEW auth \in SUBSET Accounts, NEW id \in 1 .. MaxPrograms,
             NEW budget \in Amounts, update_program_budget(auth, id, budget)
      PROVE  TypeOK'
  <2>1. id \in DOMAIN programs /\ programs[id] \in Program
    BY <1>6 DEF update_program_budget, TypeOK
  <2>2. [programs[id] EXCEPT !.budget = budget] \in Program
    BY <1>6, <2>1 DEF update_program_budget, Program
  <2>3. programs' \in Seq(Program)
    BY <1>6, <2>1, <2>2, UpdateType DEF update_program_budget, TypeOK
  <2> QED  BY <1>6, <2>3 DEF update_program_budget, TypeOK
<1>7. ASSUME NEW auth \in SUBSET Accounts, NEW id \in 1 .. MaxPrograms,
             deactivate_program(auth, id)
      PROVE  TypeOK'
  <2>1. id \in DOMAIN programs /\ programs[id] \in Program
    BY <1>7 DEF deactivate_program, TypeOK
  <2>2. [programs[id] EXCEPT !.active = FALSE] \in Program
    BY <2>1 DEF Program
  <2>3. programs' \in Seq(Program)
    BY <1>7, <2>1, <2>2, UpdateType DEF deactivate_program, TypeOK
  <2> QED  BY <1>7, <2>3 DEF deactivate_program, TypeOK
<1>8. ASSUME NEW auth \in SUBSET Accounts, NEW id \in 1 .. MaxPrograms,
             NEW amount \in Amounts, allocate(auth, id, amount)
      PROVE  TypeOK'
  <2>1. /\ amount \in Int /\ amount > 0 /\ TreasuryAddr \in Holders
        /\ Book("Allocation", amount, TreasuryAddr, NoAddress)
        /\ id \in DOMAIN programs /\ programs[id] \in Program
    BY <1>8 DEF allocate, Holders, TypeOK
  <2>2. stats' \in [EntryKind -> 0 .. MaxI128] /\ entries' \in Seq(Entry)
    BY <2>1, BookType DEF EntryKind
  <2>3. balance' \in 0 .. MaxI128
    BY <1>8, <2>1 DEF allocate, Covers, TypeOK
  <2>4. [programs[id] EXCEPT !.spent = programs[id].spent + amount] \in Program
    BY <2>1 DEF Program
  <2>5. programs' \in Seq(Program)
    BY <1>8, <2>1, <2>4, UpdateType DEF allocate, AddSpent, TypeOK
  <2> QED  BY <1>8, <2>2, <2>3, <2>5 DEF allocate, TypeOK
<1>9. ASSUME NEW from \in Accounts, NEW to \in Holders, NEW amount \in Amounts,
             token_transfer(from, to, amount)
      PROVE  TypeOK'
  <2>1. from \in Holders /\ amount \in Int
    BY DEF Holders
  <2>2. tokens' \in [Holders -> Nat]
    BY <1>9, <2>1, TransferType DEF token_transfer, TypeOK
  <2> QED  BY <1>9, <2>2 DEF token_transfer, TypeOK
<1> QED
  BY <1>1, <1>2, <1>3, <1>4, <1>5, <1>6, <1>7, <1>8, <1>9 DEF Next

\* The treasury's state keeps its type: no balance, total or token account ever
\* leaves the range of the i128 it is stored in, and no i128 guard is missing.
THEOREM TypeCorrect == Spec => []TypeOK
  BY TypeInit, TypeStep, PTL DEF Spec

-----------------------------------------------------------------------------
(* The books.  Each of the three invariants is inductive together with the  *)
(* type invariant; none needs the others.                                   *)

\* The part of the proof every entry point shares: what a booked entry does to
\* the three lifetime totals.
LEMMA BookTotals ==
    ASSUME TypeOK, NEW kind \in EntryKind, NEW amount \in Int,
           NEW actor, NEW recipient, Book(kind, amount, actor, recipient)
    PROVE  /\ stats'[kind] = stats[kind] + amount
           /\ \A k \in EntryKind \ {kind} : stats'[k] = stats[k]
  BY DEF Book, CountInStats, TypeOK

\* What is held and not booked.
Stranded == tokens[TreasuryAddr] - balance

\* Every step adds at least as much to what is held but not booked as it adds
\* to the lifetime allocations.  Backing follows.
LEMMA StrandedStep ==
    ASSUME TypeOK, [Next]_vars
    PROVE  /\ Stranded \in Int /\ Stranded' \in Int
           /\ stats'["Allocation"] >= stats["Allocation"]
           /\ Stranded' - Stranded >= stats'["Allocation"] - stats["Allocation"]
<1> USE TreasuryAssumption
<1> DEFINE held == tokens[TreasuryAddr]
           allocated == stats["Allocation"]
           Goal == /\ Stranded \in Int /\ Stranded' \in Int
                   /\ allocated' >= allocated
                   /\ Stranded' - Stranded >= allocated' - allocated
<1>a. /\ TreasuryAddr \in Holders /\ TreasuryAddr \notin Accounts
      /\ "Allocation" \in EntryKind /\ tokens \in [Holders -> Nat]
      /\ held \in Nat /\ allocated \in Nat /\ balance \in Nat
  BY DEF Holders, EntryKind, TypeOK
<1>1. CASE UNCHANGED vars
  BY <1>1, <1>a DEF vars, Stranded
<1>2. ASSUME NEW c \in Councils, initialize(c) PROVE Goal
  BY <1>2, <1>a DEF initialize, Stranded
<1>3. ASSUME NEW from \in Accounts, NEW amount \in Amounts, deposit(from, amount)
      PROVE  Goal
  <2>1. /\ amount \in Int /\ from \in Holders /\ from # TreasuryAddr
        /\ balance' = balance + amount
        /\ tokens' = Transfer(tokens, from, TreasuryAddr, amount)
        /\ Book("Deposit", amount, from, NoAddress)
    BY <1>3, <1>a DEF deposit, DepositOn, Holders
  <2>2. held' = held + amount
    BY <2>1, <1>a, TransferMoves
  <2>3. allocated' = allocated
    BY <2>1, BookTotals DEF EntryKind
  <2> QED  BY <2>1, <2>2, <2>3, <1>a DEF Stranded
<1>4. ASSUME NEW auth \in SUBSET Accounts, NEW to \in Holders, NEW amount \in Amounts,
             withdraw(auth, to, amount)
      PROVE  Goal
  <2>1. /\ amount \in Int /\ amount > 0
        /\ balance' = balance - amount
        /\ tokens' = Transfer(tokens, TreasuryAddr, to, amount)
        /\ Book("Withdrawal", amount, TreasuryAddr, to)
    BY <1>4 DEF withdraw, PayOut
  <2>2. held' \in Int /\ held' >= held - amount
    <3> DEFINE after == Transfer(tokens, TreasuryAddr, to, amount)
    <3>1. after[TreasuryAddr] \in Int /\ after[TreasuryAddr] >= held - amount
      <4>1. amount >= 0
        BY <2>1
      <4> QED  BY <4>1, <2>1, <1>a, TransferBounds
    <3> QED  BY <3>1, <2>1
  <2>3. allocated' = allocated
    BY <2>1, BookTotals DEF EntryKind
  <2> QED  BY <2>1, <2>2, <2>3, <1>a, SMTT(60) DEF Stranded
<1>5. ASSUME NEW auth \in SUBSET Accounts, NEW n \in NameLengths, NEW budget \in Amounts,
             create_program(auth, n, budget)
      PROVE  Goal
  BY <1>5, <1>a DEF create_program, Stranded
<1>6. ASSUME NEW auth \in SUBSET Accounts, NEW id \in 1 .. MaxPrograms,
             NEW budget \in Amounts, update_program_budget(auth, id, budget)
      PROVE  Goal
  BY <1>6, <1>a DEF update_program_budget, Stranded
<1>7. ASSUME NEW auth \in SUBSET Accounts, NEW id \in 1 .. MaxPrograms,
             deactivate_program(auth, id)
      PROVE  Goal
  BY <1>7, <1>a DEF deactivate_program, Stranded
<1>8. ASSUME NEW auth \in SUBSET Accounts, NEW id \in 1 .. MaxPrograms,
             NEW amount \in Amounts, allocate(auth, id, amount)
      PROVE  Goal
  <2>1. /\ amount \in Int /\ amount > 0 /\ balance' = balance - amount /\ tokens' = tokens
        /\ Book("Allocation", amount, TreasuryAddr, NoAddress)
    BY <1>8 DEF allocate
  <2>2. allocated' = allocated + amount
    BY <2>1, BookTotals DEF EntryKind
  <2> QED  BY <2>1, <2>2, <1>a DEF Stranded
<1>9. ASSUME NEW from \in Accounts, NEW to \in Holders, NEW amount \in Amounts,
             token_transfer(from, to, amount)
      PROVE  Goal
  <2>1. /\ amount \in Int /\ amount > 0 /\ from \in Holders /\ from # TreasuryAddr
        /\ tokens' = Transfer(tokens, from, to, amount)
        /\ balance' = balance /\ stats' = stats
    BY <1>9, <1>a DEF token_transfer, Holders
  <2>2. held' \in Int /\ held' >= held
    <3> DEFINE after == Transfer(tokens, from, to, amount)
    <3>1. after[TreasuryAddr] \in Int /\ after[TreasuryAddr] >= held
      <4>1. amount >= 0
        BY <2>1
      <4> QED  BY <4>1, <2>1, <1>a, TransferBounds
    <3> QED  BY <3>1, <2>1
  <2>3. balance' = balance /\ allocated' = allocated
    BY <2>1
  <2> QED  BY <2>2, <2>3, <1>a DEF Stranded
<1> QED
  BY <1>1, <1>2, <1>3, <1>4, <1>5, <1>6, <1>7, <1>8, <1>9 DEF Next

\* The treasury can always pay what it has booked, and holds everything it ever
\* allocated on top, as long as allocate pays nobody: balance and
\* lifetime_allocated together never exceed the token account (deposit, withdraw,
\* allocate; recipients include itself).
THEOREM BackingHolds == Spec => []Backing
<1>1. Init => Backing
  BY TreasuryAssumption DEF Init, Backing, EntryKind, Holders
<1>2. TypeOK /\ Backing /\ [Next]_vars => Backing'
  <2> SUFFICES ASSUME TypeOK, Backing, [Next]_vars PROVE Backing'
    OBVIOUS
  <2>1. /\ stats["Allocation"] \in Int /\ balance \in Int /\ tokens[TreasuryAddr] \in Int
        /\ stats'["Allocation"] \in Int /\ balance' \in Int /\ tokens'[TreasuryAddr] \in Int
    BY TypeStep DEF TypeOK, EntryKind, Holders
  <2> QED  BY <2>1, StrandedStep DEF Backing, Stranded
<1> QED  BY <1>1, <1>2, TypeInit, TypeStep, PTL DEF Spec

\* So withdraw never traps in the token contract: what the balance check lets
\* through is there to be transferred, also after allocations.
THEOREM WithdrawalsAreFunded ==
    Spec => [](\A amount \in Amounts : amount > 0 /\ Covers(amount)
                   => CanTransfer(tokens, TreasuryAddr, amount))
<1>1. TypeOK /\ Backing =>
         \A amount \in Amounts : amount > 0 /\ Covers(amount)
             => CanTransfer(tokens, TreasuryAddr, amount)
  <2> SUFFICES ASSUME TypeOK, Backing, NEW amount \in Amounts, amount > 0, Covers(amount)
               PROVE  CanTransfer(tokens, TreasuryAddr, amount)
    OBVIOUS
  <2>1. /\ amount \in Int /\ balance \in Nat /\ tokens[TreasuryAddr] \in Nat
        /\ stats["Allocation"] \in Nat
    BY TreasuryAssumption DEF TypeOK, EntryKind, Holders
  <2> QED  BY <2>1 DEF Backing, Covers, CanTransfer
<1> QED  BY <1>1, TypeInit, TypeStep, BackingHolds, PTL DEF Spec

\* initialize sets the balance to zero.  That this loses nothing has to be part
\* of the invariant: nothing can be booked before.
BooksClosed == ~Initialized => balance = 0

LEMMA StatsStep ==
    TypeOK /\ StatsReconcile /\ BooksClosed /\ [Next]_vars => StatsReconcile' /\ BooksClosed'
<1> SUFFICES ASSUME TypeOK, StatsReconcile, BooksClosed, [Next]_vars
             PROVE  StatsReconcile' /\ BooksClosed'
  OBVIOUS
<1> USE TreasuryAssumption
<1>a. /\ \A k \in EntryKind : stats[k] \in Nat
      /\ balance \in Nat
      /\ EntryKind = {"Deposit", "Withdrawal", "Allocation"}
  BY DEF EntryKind, TypeOK
<1>1. CASE UNCHANGED vars
  BY <1>1 DEF vars, StatsReconcile, get_treasury_stats, BooksClosed, Initialized
<1>2. ASSUME NEW c \in Councils, initialize(c) PROVE StatsReconcile' /\ BooksClosed'
  BY <1>2, <1>a DEF initialize, StatsReconcile, get_treasury_stats, BooksClosed,
     Initialized, ValidCouncil, NoCouncil
<1>3. ASSUME NEW from \in Accounts, NEW amount \in Amounts, deposit(from, amount)
      PROVE  StatsReconcile' /\ BooksClosed'
  <2>1. /\ council # NoCouncil /\ council' = council
        /\ amount \in Int /\ balance' = balance + amount
        /\ Book("Deposit", amount, from, NoAddress)
    BY <1>3 DEF deposit, DepositOn, Initialized
  <2> QED  BY <2>1, <1>a, BookTotals
    DEF StatsReconcile, get_treasury_stats, BooksClosed, Initialized
<1>4. ASSUME NEW auth \in SUBSET Accounts, NEW to \in Holders, NEW amount \in Amounts,
             withdraw(auth, to, amount)
      PROVE  StatsReconcile' /\ BooksClosed'
  <2>1. /\ council # NoCouncil /\ council' = council
        /\ amount \in Int /\ balance' = balance - amount
        /\ Book("Withdrawal", amount, TreasuryAddr, to)
    BY <1>4 DEF withdraw, PayOut, RequireCouncilAuth
  <2> QED  BY <2>1, <1>a, BookTotals
    DEF StatsReconcile, get_treasury_stats, BooksClosed, Initialized
<1>5. ASSUME NEW auth \in SUBSET Accounts, NEW id \in 1 .. MaxPrograms,
             NEW amount \in Amounts, allocate(auth, id, amount)
      PROVE  StatsReconcile' /\ BooksClosed'
  <2>1. /\ council # NoCouncil /\ council' = council
        /\ amount \in Int /\ balance' = balance - amount
        /\ Book("Allocation", amount, TreasuryAddr, NoAddress)
    BY <1>5 DEF allocate, RequireCouncilAuth
  <2> QED  BY <2>1, <1>a, BookTotals
    DEF StatsReconcile, get_treasury_stats, BooksClosed, Initialized
<1>6. CASE UNCHANGED <<council, balance, stats>>
  BY <1>6 DEF StatsReconcile, get_treasury_stats, BooksClosed, Initialized
<1> QED
  BY <1>1, <1>2, <1>3, <1>4, <1>5, <1>6
  DEF Next, create_program, update_program_budget, deactivate_program, token_transfer

\* What get_treasury_stats reports is consistent in every reachable state.
THEOREM StatsReconcileHolds == Spec => []StatsReconcile
<1>1. Init => StatsReconcile /\ BooksClosed
  BY DEF Init, StatsReconcile, get_treasury_stats, BooksClosed, EntryKind
<1> QED  BY <1>1, TypeInit, TypeStep, StatsStep, PTL DEF Spec

-----------------------------------------------------------------------------
(* Programs.                                                                *)

LEMMA BudgetStep == TypeOK /\ WithinBudget /\ [Next]_vars => WithinBudget'
<1> SUFFICES ASSUME TypeOK, WithinBudget, [Next]_vars PROVE WithinBudget'
  OBVIOUS
<1> USE TreasuryAssumption
<1>a. programs \in Seq(Program) /\ \A i \in DOMAIN programs : programs[i] \in Program
  BY DEF TypeOK
<1>1. CASE UNCHANGED programs
  BY <1>1 DEF WithinBudget
<1>2. ASSUME NEW auth \in SUBSET Accounts, NEW n \in NameLengths, NEW budget \in Amounts,
             create_program(auth, n, budget)
      PROVE  WithinBudget'
  <2> DEFINE new == [budget |-> budget, spent |-> 0, active |-> TRUE]
  <2>1. /\ budget \in Int /\ budget > 0 /\ programs' = Append(programs, new)
    BY <1>2 DEF create_program
  <2>2. new \in Program /\ new.spent <= new.budget
    BY <2>1 DEF Program
  <2>3. \A i \in DOMAIN programs' :
           programs'[i] = new \/ (i \in DOMAIN programs /\ programs'[i] = programs[i])
    BY <2>1, <2>2, <1>a
  <2> QED  BY <2>2, <2>3 DEF WithinBudget
<1>3. ASSUME NEW auth \in SUBSET Accounts, NEW id \in 1 .. MaxPrograms,
             NEW budget \in Amounts, update_program_budget(auth, id, budget)
      PROVE  WithinBudget'
  BY <1>3, <1>a DEF update_program_budget, WithinBudget, Program
<1>4. ASSUME NEW auth \in SUBSET Accounts, NEW id \in 1 .. MaxPrograms,
             deactivate_program(auth, id)
      PROVE  WithinBudget'
  BY <1>4, <1>a DEF deactivate_program, WithinBudget, Program
<1>5. ASSUME NEW auth \in SUBSET Accounts, NEW id \in 1 .. MaxPrograms,
             NEW amount \in Amounts, allocate(auth, id, amount)
      PROVE  WithinBudget'
  BY <1>5, <1>a DEF allocate, Spendable, AddSpent, WithinBudget, Program
<1> QED
  BY <1>1, <1>2, <1>3, <1>4, <1>5
  DEF Next, vars, initialize, deposit, DepositOn, withdraw, token_transfer

\* No spending program is ever over its budget (create_program,
\* update_program_budget, deactivate_program, allocate).
THEOREM WithinBudgetHolds == Spec => []WithinBudget
<1>1. Init => WithinBudget
  BY DEF Init, WithinBudget
<1> QED  BY <1>1, TypeInit, TypeStep, BudgetStep, PTL DEF Spec

\* A deactivated program never becomes active again and never spends.
THEOREM DeactivationIsFinal == Spec => DeactivatedStaysFrozen
<1> DEFINE Frozen == \A id \in DOMAIN programs : ~programs[id].active =>
                        ~programs'[id].active /\ programs'[id].spent = programs[id].spent
<1>1. TypeOK /\ [Next]_vars => [Frozen]_vars
  <2> SUFFICES ASSUME TypeOK, [Next]_vars PROVE Frozen
    OBVIOUS
  <2>a. programs \in Seq(Program) /\ \A i \in DOMAIN programs : programs[i] \in Program
    BY DEF TypeOK
  <2>1. CASE UNCHANGED programs
    BY <2>1
  <2>2. ASSUME NEW auth \in SUBSET Accounts, NEW n \in NameLengths,
               NEW budget \in Amounts, create_program(auth, n, budget)
        PROVE  Frozen
    BY <2>2, <2>a DEF create_program
  <2>3. ASSUME NEW auth \in SUBSET Accounts, NEW id \in 1 .. MaxPrograms,
               NEW budget \in Amounts, update_program_budget(auth, id, budget)
        PROVE  Frozen
    BY <2>3, <2>a DEF update_program_budget, Program
  <2>4. ASSUME NEW auth \in SUBSET Accounts, NEW id \in 1 .. MaxPrograms,
               deactivate_program(auth, id)
        PROVE  Frozen
    BY <2>4, <2>a DEF deactivate_program, Program
  <2>5. ASSUME NEW auth \in SUBSET Accounts, NEW id \in 1 .. MaxPrograms,
               NEW amount \in Amounts, allocate(auth, id, amount)
        PROVE  Frozen
    BY <2>5, <2>a DEF allocate, Spendable, AddSpent, Program
  <2> QED
    BY <2>1, <2>2, <2>3, <2>4, <2>5
    DEF Next, vars, initialize, deposit, DepositOn, withdraw, token_transfer
<1> QED  BY <1>1, TypeInit, TypeStep, PTL DEF Spec, DeactivatedStaysFrozen

-----------------------------------------------------------------------------
(* The history and the programs against the statistics: sums over a         *)
(* sequence that grows, or of which one element changes.                    *)

\* What booking an entry does to the totals an auditor arrives at: that of its
\* kind grows by its amount, the others stay.
LEMMA BookEntry ==
    ASSUME TypeOK, NEW kind \in EntryKind, NEW amount \in Int,
           NEW actor, NEW recipient, Book(kind, amount, actor, recipient),
           NEW k \in EntryKind
    PROVE  EntryTotal(k)' = EntryTotal(k) + (IF k = kind THEN amount ELSE 0)
<1> DEFINE n == Len(entries)
           e == [kind |-> kind, amount |-> amount, actor |-> actor, recipient |-> recipient]
           before == AmountsOf(k)
           after == AmountsOf(k)'
<1>1. entries \in Seq(Entry) /\ entries' = Append(entries, e)
  BY DEF TypeOK, Book, RecordEntry
<1>2. n \in Nat /\ DOMAIN entries = 1 .. n /\ \A i \in 1 .. n : entries[i] \in Entry
  BY <1>1
<1>3. /\ DOMAIN entries' = 1 .. n + 1 /\ entries'[n + 1] = e
      /\ \A i \in 1 .. n : entries'[i] = entries[i]
  BY <1>1, <1>2
<1>4. DOMAIN before = 1 .. n /\ DOMAIN after = 1 .. n + 1
  BY <1>2, <1>3 DEF AmountsOf
<1>5. \A i \in 1 .. n : before[i] \in Int /\ before[i] = after[i]
  BY <1>2, <1>3 DEF AmountsOf, Entry
<1>6. after[n + 1] = IF k = kind THEN amount ELSE 0
  BY <1>2, <1>3 DEF AmountsOf
<1>7. SumFunction(after) = SumFunction(before) + after[n + 1]
  <2>1. after[n + 1] \in Int
    BY <1>6
  <2> HIDE DEF n, before, after
  <2>2. QED
    BY <1>2, <1>4, <1>5, <2>1, SumAppend
<1> QED  BY <1>6, <1>7 DEF EntryTotal

LEMMA TrailStep == TypeOK /\ AuditTrailReplays /\ [Next]_vars => AuditTrailReplays'
<1> SUFFICES ASSUME TypeOK, AuditTrailReplays, [Next]_vars PROVE AuditTrailReplays'
  OBVIOUS
<1> USE TreasuryAssumption
<1>1. ASSUME NEW kind \in EntryKind, NEW amount \in Int, NEW actor, NEW recipient,
             Book(kind, amount, actor, recipient)
      PROVE  AuditTrailReplays'
  <2> SUFFICES ASSUME NEW k \in EntryKind PROVE EntryTotal(k)' = stats'[k]
    BY DEF AuditTrailReplays
  <2>1. EntryTotal(k)' = stats[k] + (IF k = kind THEN amount ELSE 0)
    BY <1>1, BookEntry DEF AuditTrailReplays
  <2>2. stats[k] \in Int
    BY DEF TypeOK
  <2>3. stats'[k] = stats[k] + (IF k = kind THEN amount ELSE 0)
    BY <1>1, <2>2, BookTotals
  <2> QED  BY <2>1, <2>3
<1>2. CASE UNCHANGED <<stats, entries>>
  BY <1>2 DEF AuditTrailReplays, EntryTotal, AmountsOf
<1>3. ASSUME NEW from \in Accounts, NEW amount \in Amounts, deposit(from, amount)
      PROVE  AuditTrailReplays'
  BY <1>1, <1>3 DEF deposit, DepositOn, EntryKind
<1>4. ASSUME NEW auth \in SUBSET Accounts, NEW to \in Holders, NEW amount \in Amounts,
             withdraw(auth, to, amount)
      PROVE  AuditTrailReplays'
  BY <1>1, <1>4 DEF withdraw, EntryKind
<1>5. ASSUME NEW auth \in SUBSET Accounts, NEW id \in 1 .. MaxPrograms,
             NEW amount \in Amounts, allocate(auth, id, amount)
      PROVE  AuditTrailReplays'
  BY <1>1, <1>5 DEF allocate, EntryKind
<1> QED
  BY <1>2, <1>3, <1>4, <1>5
  DEF Next, vars, initialize, create_program, update_program_budget,
      deactivate_program, token_transfer

\* Replaying the history through get_history yields the lifetime statistics,
\* whatever the calls were and however many (set_entry, update_stats).
THEOREM AuditTrailHolds == Spec => []AuditTrailReplays
<1>1. Init => AuditTrailReplays
  <2> SUFFICES ASSUME Init, NEW k \in EntryKind PROVE EntryTotal(k) = stats[k]
    BY DEF AuditTrailReplays
  <2>1. DOMAIN AmountsOf(k) = {} /\ stats[k] = 0
    BY DEF Init, AmountsOf
  <2> QED  BY <2>1, SumEmpty DEF EntryTotal, SumFunction
<1> QED  BY <1>1, TypeInit, TypeStep, TrailStep, PTL DEF Spec

Spendings == [id \in DOMAIN programs |-> programs[id].spent]

\* A program of which only budget or activity changes leaves the total alone;
\* one that spends adds what it spends; a new one adds nothing.
LEMMA SpendingKept ==
    ASSUME DOMAIN programs' = DOMAIN programs,
           \A i \in DOMAIN programs : programs'[i].spent = programs[i].spent
    PROVE  SpentTotal' = SpentTotal
<1>1. Spendings' = Spendings
  BY DEF Spendings
<1> QED  BY <1>1 DEF SpentTotal, Spendings

LEMMA SpentStep == TypeOK /\ SpentReconciles /\ [Next]_vars => SpentReconciles'
<1> SUFFICES ASSUME TypeOK, SpentReconciles, [Next]_vars PROVE SpentReconciles'
  OBVIOUS
<1> USE TreasuryAssumption
<1> DEFINE n == Len(programs)
<1>a. /\ programs \in Seq(Program) /\ n \in Nat /\ DOMAIN programs = 1 .. n
      /\ \A i \in 1 .. n : programs[i] \in Program /\ programs[i].spent \in Int
  <2>1. programs \in Seq(Program)
    BY DEF TypeOK
  <2>2. n \in Nat /\ DOMAIN programs = 1 .. n /\ \A i \in 1 .. n : programs[i] \in Program
    BY <2>1
  <2>3. \A p \in Program : p.spent \in Int
    BY DEF Program
  <2> QED  BY <2>1, <2>2, <2>3
<1>b. ASSUME SpentTotal' = SpentTotal, stats'["Allocation"] = stats["Allocation"]
      PROVE  SpentReconciles'
  BY <1>b DEF SpentReconciles
<1>1. CASE UNCHANGED <<programs, stats>>
  BY <1>1, <1>b DEF SpentTotal
<1>2. ASSUME NEW kind \in EntryKind \ {"Allocation"}, NEW amount \in Int, NEW actor,
             NEW recipient, Book(kind, amount, actor, recipient), programs' = programs
      PROVE  SpentReconciles'
  BY <1>2, <1>b, BookTotals DEF SpentTotal, EntryKind
<1>3. ASSUME NEW auth \in SUBSET Accounts, NEW len \in NameLengths, NEW budget \in Amounts,
             create_program(auth, len, budget)
      PROVE  SpentReconciles'
  <2> DEFINE new == [budget |-> budget, spent |-> 0, active |-> TRUE]
  <2>1. programs' = Append(programs, new) /\ stats' = stats /\ budget \in Int /\ budget > 0
    BY <1>3 DEF create_program
  <2>2. /\ DOMAIN programs' = 1 .. n + 1 /\ programs'[n + 1] = new
        /\ \A i \in 1 .. n : programs'[i] = programs[i]
    BY <2>1, <1>a
  <2>3. /\ DOMAIN Spendings = 1 .. n /\ DOMAIN Spendings' = 1 .. n + 1
        /\ \A i \in 1 .. n : Spendings[i] \in Int /\ Spendings'[i] = Spendings[i]
        /\ Spendings'[n + 1] = 0
    BY <2>2, <1>a DEF Spendings
  <2> DEFINE before == Spendings
             after == Spendings'
  <2> HIDE DEF n
  <2>4. SumFunction(before) \in Int /\ SumFunction(after) = SumFunction(before) + after[n + 1]
    <3>1. n \in Nat /\ after[n + 1] \in Int
      BY <1>a, <2>3
    <3> HIDE DEF before, after
    <3> QED  BY <2>3, <3>1, SumAppend DEF before, after
  <2>5. SpentTotal' = SpentTotal
    BY <2>3, <2>4 DEF SpentTotal, Spendings
  <2> QED  BY <2>1, <2>5, <1>b
<1>4. ASSUME NEW auth \in SUBSET Accounts, NEW id \in 1 .. MaxPrograms,
             NEW budget \in Amounts, update_program_budget(auth, id, budget)
      PROVE  SpentReconciles'
  <2>1. /\ stats' = stats /\ DOMAIN programs' = DOMAIN programs
        /\ \A i \in DOMAIN programs : programs'[i].spent = programs[i].spent
    BY <1>4, <1>a DEF update_program_budget, Program
  <2> QED  BY <2>1, <1>b, SpendingKept
<1>5. ASSUME NEW auth \in SUBSET Accounts, NEW id \in 1 .. MaxPrograms,
             deactivate_program(auth, id)
      PROVE  SpentReconciles'
  <2>1. /\ stats' = stats /\ DOMAIN programs' = DOMAIN programs
        /\ \A i \in DOMAIN programs : programs'[i].spent = programs[i].spent
    BY <1>5, <1>a DEF deactivate_program, Program
  <2> QED  BY <2>1, <1>b, SpendingKept
<1>6. ASSUME NEW auth \in SUBSET Accounts, NEW id \in 1 .. MaxPrograms,
             NEW amount \in Amounts, allocate(auth, id, amount)
      PROVE  SpentReconciles'
  <2>1. /\ amount \in Int /\ id \in 1 .. n
        /\ programs' = [programs EXCEPT ![id].spent = programs[id].spent + amount]
        /\ Book("Allocation", amount, TreasuryAddr, NoAddress)
    BY <1>6, <1>a DEF allocate, AddSpent
  <2>2. /\ DOMAIN programs' = 1 .. n /\ programs'[id].spent = programs[id].spent + amount
        /\ \A i \in (1 .. n) \ {id} : programs'[i] = programs[i]
    BY <2>1, <1>a DEF Program
  <2>3. /\ DOMAIN Spendings = 1 .. n /\ DOMAIN Spendings' = 1 .. n
        /\ \A i \in 1 .. n : Spendings[i] \in Int /\ Spendings'[i] \in Int
        /\ \A i \in (1 .. n) \ {id} : Spendings[i] = Spendings'[i]
        /\ Spendings'[id] = Spendings[id] + amount
    BY <2>1, <2>2, <1>a DEF Spendings
  <2> DEFINE before == Spendings
             after == Spendings'
  <2> HIDE DEF n
  <2>4. IsFiniteSet(1 .. n)
    BY <1>a, FS_Interval
  <2>5. /\ SumFunction(before) \in Int
        /\ SumFunction(after) = SumFunction(before) - before[id] + after[id]
    <3>1. /\ id \in DOMAIN before /\ IsFiniteSet(DOMAIN before) /\ DOMAIN after = DOMAIN before
          /\ \A i \in DOMAIN before : before[i] \in Int /\ after[i] \in Int
          /\ \A i \in DOMAIN before \ {id} : before[i] = after[i]
      BY <2>1, <2>3, <2>4
    <3> HIDE DEF before, after
    <3> QED  BY <3>1, SumChange
  <2>6. SumFunction(after) = SumFunction(before) + amount
    <3>1. before[id] \in Int /\ after[id] = before[id] + amount
      BY <2>1, <2>3
    <3> QED  BY <2>1, <2>5, <3>1
  <2>7. SpentTotal' = SpentTotal + amount
    BY <2>6 DEF SpentTotal, Spendings
  <2>8. stats'["Allocation"] = stats["Allocation"] + amount
    BY <2>1, BookTotals DEF EntryKind
  <2> QED  BY <2>7, <2>8 DEF SpentReconciles
<1>7. ASSUME NEW from \in Accounts, NEW amount \in Amounts, deposit(from, amount)
      PROVE  SpentReconciles'
  BY <1>2, <1>7 DEF deposit, DepositOn, EntryKind
<1>8. ASSUME NEW auth \in SUBSET Accounts, NEW to \in Holders, NEW amount \in Amounts,
             withdraw(auth, to, amount)
      PROVE  SpentReconciles'
  BY <1>2, <1>8 DEF withdraw, EntryKind
<1> QED
  BY <1>1, <1>3, <1>4, <1>5, <1>6, <1>7, <1>8
  DEF Next, vars, initialize, token_transfer

\* What the programs have spent adds up to the lifetime allocations, through
\* every budget change and deactivation (allocate, update_program_budget).
THEOREM SpentReconcilesHolds == Spec => []SpentReconciles
<1>1. Init => SpentReconciles
  <2> SUFFICES ASSUME Init PROVE SpentReconciles
    OBVIOUS
  <2>1. DOMAIN Spendings = {} /\ stats["Allocation"] = 0
    BY DEF Init, Spendings, EntryKind
  <2> QED  BY <2>1, SumEmpty DEF SpentReconciles, SpentTotal, Spendings, SumFunction
<1> QED  BY <1>1, TypeInit, TypeStep, SpentStep, PTL DEF Spec

-----------------------------------------------------------------------------
(* Authority.                                                               *)

\* Nothing is booked before there is a council.
LEMMA BooksStep == TypeOK /\ BooksClosed /\ [Next]_vars => BooksClosed'
  BY DEF TypeOK, BooksClosed, Initialized, Next, vars, initialize, deposit, DepositOn,
         withdraw, token_transfer, create_program, update_program_budget,
         deactivate_program, allocate, ValidCouncil, NoCouncil, RequireCouncilAuth

\* Tokens leave the treasury and its balance falls only with the approval of
\* threshold seats of its council (require_council_auth in withdraw and allocate;
\* every other call only adds).
THEOREM OutflowIsAuthorised == Spec => OutflowNeedsQuorum
<1> DEFINE Out == tokens'[TreasuryAddr] < tokens[TreasuryAddr] \/ balance' < balance
<1> USE TreasuryAssumption
<1>1. TypeOK /\ BooksClosed /\ [Next]_vars
         => [Out => Quorum(council, signers')]_vars
  <2> SUFFICES ASSUME TypeOK, BooksClosed, [Next]_vars, Out, ~UNCHANGED vars
               PROVE  Quorum(council, signers')
    OBVIOUS
  <2>a. /\ TreasuryAddr \in Holders /\ TreasuryAddr \notin Accounts
        /\ tokens \in [Holders -> Nat] /\ tokens[TreasuryAddr] \in Nat /\ balance \in Nat
    BY DEF Holders, TypeOK
  <2>b. ASSUME RequireCouncilAuth(council, signers') PROVE Quorum(council, signers')
    <3>1. council \in [members : Seq(Accounts), threshold : Nat]
      BY DEF TypeOK
    <3> QED  BY <3>1, <2>b, AuthIsQuorum
  <2>1. ASSUME NEW c \in Councils, initialize(c) PROVE FALSE
    BY <2>1, <2>a DEF initialize, BooksClosed
  <2>2. ASSUME NEW from \in Accounts, NEW amount \in Amounts, deposit(from, amount)
        PROVE  FALSE
    <3>1. /\ amount \in Int /\ amount >= 0 /\ from \in Holders /\ from # TreasuryAddr
          /\ balance' = balance + amount
          /\ tokens' = Transfer(tokens, from, TreasuryAddr, amount)
      BY <2>2, <2>a DEF deposit, DepositOn, Holders
    <3> DEFINE after == Transfer(tokens, from, TreasuryAddr, amount)
    <3>2. after[TreasuryAddr] \in Int /\ after[TreasuryAddr] >= tokens[TreasuryAddr]
      BY <3>1, <2>a, TransferBounds
    <3> QED  BY <3>1, <3>2, <2>a
  <2>3. ASSUME NEW from \in Accounts, NEW to \in Holders, NEW amount \in Amounts,
               token_transfer(from, to, amount)
        PROVE  FALSE
    <3>1. /\ amount \in Int /\ amount >= 0 /\ from \in Holders /\ from # TreasuryAddr
          /\ tokens' = Transfer(tokens, from, to, amount) /\ balance' = balance
      BY <2>3, <2>a DEF token_transfer, Holders
    <3> DEFINE after == Transfer(tokens, from, to, amount)
    <3>2. after[TreasuryAddr] \in Int /\ after[TreasuryAddr] >= tokens[TreasuryAddr]
      BY <3>1, <2>a, TransferBounds
    <3> QED  BY <3>1, <3>2, <2>a
  <2>4. ASSUME NEW auth \in SUBSET Accounts, RequireCouncilAuth(council, auth),
               signers' = auth
        PROVE  Quorum(council, signers')
    BY <2>4, <2>b
  <2> QED
    BY <2>1, <2>2, <2>3, <2>4
    DEF Next, withdraw, create_program, update_program_budget, deactivate_program, allocate
<1>2. Init => BooksClosed
  BY DEF Init, BooksClosed
<1>3. TypeOK /\ BooksClosed /\ [Next]_vars => BooksClosed'
  BY BooksStep
<1> QED
  BY <1>1, <1>2, <1>3, TypeInit, TypeStep, PTL DEF Spec, OutflowNeedsQuorum

-----------------------------------------------------------------------------
(* The refinement: every step of the treasury is a step of the vault.       *)

\* What the vault's step needs of a booked payment: the approval behind it.
LEMMA VaultStep ==
    ASSUME TypeOK, BooksClosed, [Next]_vars
    PROVE  [V!Next]_(V!vars)
<1> USE TreasuryAssumption
<1> DEFINE held == tokens[TreasuryAddr]
           allocated == stats["Allocation"]
<1>a. /\ TreasuryAddr \in Holders /\ TreasuryAddr \notin Accounts
      /\ tokens \in [Holders -> Nat] /\ held \in Nat
      /\ balance \in Nat /\ allocated \in Nat
      /\ "Allocation" \in EntryKind /\ "Deposit" \in EntryKind /\ "Withdrawal" \in EntryKind
  BY DEF Holders, EntryKind, TypeOK
<1>c. balance' \in Nat
  <2>1. balance' \in 0 .. MaxI128
    BY TypeStep DEF TypeOK
  <2> QED  BY <2>1
<1>b. ASSUME NEW auth \in SUBSET Accounts, RequireCouncilAuth(council, auth),
             signers' = auth, council' = council
      PROVE  Quorum(council, signers)'
  <2>1. council \in [members : Seq(Accounts), threshold : Nat]
    BY DEF TypeOK
  <2>2. Quorum(council, auth)
    BY <2>1, <1>b, AuthIsQuorum
  <2> QED  BY <2>2, <1>b
<1>1. CASE UNCHANGED <<balance, stats, tokens>>
  BY <1>1 DEF V!vars
<1>2. ASSUME NEW c \in Councils, initialize(c) PROVE V!vars' = V!vars
  BY <1>2 DEF initialize, BooksClosed, V!vars
<1>3. ASSUME NEW from \in Accounts, NEW amount \in Amounts, deposit(from, amount)
      PROVE  V!Receive
  <2>1. /\ amount \in Int /\ amount > 0 /\ from \in Holders /\ from # TreasuryAddr
        /\ balance' = balance + amount
        /\ tokens' = Transfer(tokens, from, TreasuryAddr, amount)
        /\ Book("Deposit", amount, from, NoAddress)
    BY <1>3, <1>a DEF deposit, DepositOn, Holders
  <2>2. held' = held + amount
    BY <2>1, <1>a, TransferMoves
  <2>3. allocated' = allocated
    BY <2>1, BookTotals DEF EntryKind
  <2> QED  BY <2>1, <2>2, <2>3, <1>a DEF V!Receive
<1>4. ASSUME NEW auth \in SUBSET Accounts, NEW to \in Holders, NEW amount \in Amounts,
             withdraw(auth, to, amount)
      PROVE  V!PayOut
  <2>1. /\ amount \in Int /\ amount > 0
        /\ balance' = balance - amount
        /\ tokens' = Transfer(tokens, TreasuryAddr, to, amount)
        /\ Book("Withdrawal", amount, TreasuryAddr, to)
        /\ RequireCouncilAuth(council, auth) /\ signers' = auth /\ council' = council
    BY <1>4 DEF withdraw, PayOut
  <2>2. held' \in {held, held - amount}
    <3>1. CASE to = TreasuryAddr
      BY <3>1, <2>1, <1>a, TransferToSelf
    <3>2. CASE to # TreasuryAddr
      <4> DEFINE after == Transfer(tokens, TreasuryAddr, to, amount)
      <4>1. /\ tokens \in [Holders -> Nat] /\ TreasuryAddr \in Holders /\ to \in Holders
            /\ TreasuryAddr # to /\ amount \in Int
        BY <3>2, <2>1, <1>a
      <4>2. after[TreasuryAddr] = held - amount
        BY <4>1 DEF Transfer
      <4> QED  BY <4>2, <2>1
    <3> QED  BY <3>1, <3>2
  <2>3. allocated' = allocated
    BY <2>1, BookTotals DEF EntryKind
  <2>4. Quorum(council, signers)'
    BY <2>1, <1>b
  <2> QED  BY <2>1, <2>2, <2>3, <2>4, <1>a, <1>c DEF V!PayOut
<1>5. ASSUME NEW auth \in SUBSET Accounts, NEW id \in 1 .. MaxPrograms,
             NEW amount \in Amounts, allocate(auth, id, amount)
      PROVE  V!Reserve
  <2>1. /\ amount \in Int /\ amount > 0 /\ balance' = balance - amount /\ tokens' = tokens
        /\ Book("Allocation", amount, TreasuryAddr, NoAddress)
        /\ RequireCouncilAuth(council, auth) /\ signers' = auth /\ council' = council
    BY <1>5 DEF allocate
  <2>2. allocated' = allocated + amount
    BY <2>1, BookTotals DEF EntryKind
  <2>3. Quorum(council, signers)'
    BY <2>1, <1>b
  <2> QED  BY <2>1, <2>2, <2>3, <1>a, <1>c DEF V!Reserve
<1>6. ASSUME NEW from \in Accounts, NEW to \in Holders, NEW amount \in Amounts,
             token_transfer(from, to, amount)
      PROVE  V!Receive
  <2>1. /\ amount \in Int /\ amount >= 0 /\ from \in Holders /\ from # TreasuryAddr
        /\ tokens' = Transfer(tokens, from, to, amount)
        /\ balance' = balance /\ stats' = stats
    BY <1>6, <1>a DEF token_transfer, Holders
  <2> DEFINE after == Transfer(tokens, from, to, amount)
  <2>2. after[TreasuryAddr] \in Int /\ after[TreasuryAddr] >= held
    BY <2>1, <1>a, TransferBounds
  <2> QED  BY <2>1, <2>2, <1>a DEF V!Receive
<1> QED
  BY <1>1, <1>2, <1>3, <1>4, <1>5, <1>6
  DEF Next, V!Next, vars, create_program, update_program_budget, deactivate_program

\* The treasury implements the vault: its entry points, and transfers past them,
\* are receipts, approved payments and approved reservations.
THEOREM TreasuryImplementsVault == Spec => TreasuryIsVault
<1>1. Init => V!Init
  BY TreasuryAssumption DEF Init, V!Init, EntryKind, Holders
<1>2. TypeOK /\ BooksClosed /\ [Next]_vars => [V!Next]_(V!vars)
  BY VaultStep
<1>3. Init => BooksClosed
  BY DEF Init, BooksClosed
<1>4. TypeOK /\ BooksClosed /\ [Next]_vars => BooksClosed'
  BY BooksStep
<1> QED
  BY <1>1, <1>2, <1>3, <1>4, TypeInit, TypeStep, PTL
  DEF Spec, V!Spec, TreasuryIsVault

=============================================================================
