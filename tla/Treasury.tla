------------------------------ MODULE Treasury ------------------------------
(* The treasury contract: a booked balance over a token account it owns,    *)
(* spending programs with budgets, lifetime statistics and a numbered       *)
(* history.  Soroban runs one transaction at a time and undoes everything   *)
(* a failing one did, so an entry point is one action: its guards are the   *)
(* conditions under which the call returns Ok.                              *)
(*                                                                          *)
(* Abstracted: memos, names (their length is kept), ledger numbers, events, *)
(* storage lifetimes, and the current_balance field of the stored stats,    *)
(* which get_treasury_stats replaces before anyone sees it.                 *)
EXTENDS AdminCouncil, TokenLedger, SequencesExt

CONSTANTS
    Accounts,      \* addresses that can sign: users, council members
    Contracts,     \* other contracts that may hold the token and call deposit
    TreasuryAddr,  \* the treasury's own contract address
    Councils,      \* the councils a caller may pass to initialize
    Amounts,       \* the i128 arguments a caller may pass
    NameLengths,   \* the lengths of the program names a caller may pass
    MaxI128,       \* the largest i128
    MaxEntries,    \* bound: entries recorded in one behaviour
    MaxPrograms,   \* bound: programs created in one behaviour
    InitialTokens  \* token balances before the contract is used

Holders == Accounts \cup Contracts \cup {TreasuryAddr}

ASSUME TreasuryAssumption ==
    /\ TreasuryAddr \notin Accounts \cup Contracts
    /\ \A c \in Councils : c \in [members : Seq(Accounts), threshold : Nat]
    /\ Amounts \subseteq Int
    /\ NameLengths \subseteq Nat
    /\ MaxI128 \in Nat /\ MaxEntries \in Nat /\ MaxPrograms \in Nat
    /\ InitialTokens \in [Holders -> Nat]

VARIABLES
    council,   \* AdminCouncil; NoCouncil before initialize
    balance,   \* Balance: what the contract believes it can spend
    stats,     \* Stats: lifetime total per kind of entry
    entries,   \* Entry(1 .. EntryCount)
    programs,  \* SpendingProgram(1 .. ProgramCount)
    tokens,    \* the token contract's ledger
    signers    \* history: the authorisations the last transaction carried

vars == <<council, balance, stats, entries, programs, tokens, signers>>

EntryKind == {"Deposit", "Withdrawal", "Allocation"}
NoAddress == "None"
Entry == [kind : EntryKind, amount : Nat, actor : Holders,
          recipient : Holders \cup {NoAddress}]
Program == [budget : Nat, spent : Nat, active : BOOLEAN]

TypeOK ==
    /\ council \in [members : Seq(Accounts), threshold : Nat]
    /\ balance \in 0 .. MaxI128
    /\ stats \in [EntryKind -> 0 .. MaxI128]
    /\ entries \in Seq(Entry)
    /\ programs \in Seq(Program)
    /\ tokens \in [Holders -> Nat]
    /\ signers \in SUBSET Accounts

Init ==
    /\ council = NoCouncil
    /\ balance = 0
    /\ stats = [k \in EntryKind |-> 0]
    /\ entries = <<>>
    /\ programs = <<>>
    /\ tokens = InitialTokens
    /\ signers = {}

-----------------------------------------------------------------------------
(* Steps that several entry points share.                                   *)

\* has_admin_council.  The token address is written by the same call as the
\* council, so the expect on either succeeds exactly when this holds.
Initialized == council # NoCouncil

\* checked_add on i128.
AddFits(a, b) == a + b <= MaxI128

\* Seeded faults: the comparison lets one token too many through; the
\* entry counter is not advanced, so the newest entry is overwritten.
CoversAllButOne(amount) == amount <= balance + 1
OverwriteLast(e) ==
    entries' = IF entries = <<>> THEN <<e>> ELSE [entries EXCEPT ![Len(entries)] = e]
CountAsDeposit(kind, amount) ==
    /\ AddFits(stats["Deposit"], amount)
    /\ stats' = [stats EXCEPT !["Deposit"] = @ + amount]

\* The InsufficientBalance check of withdraw and allocate.
Covers(amount) == amount <= balance

\* storage::set_entry numbers entries from 1 without a gap.
RecordEntry(e) == Len(entries) < MaxEntries /\ entries' = Append(entries, e)

CountInStats(kind, amount) ==
    /\ AddFits(stats[kind], amount)
    /\ stats' = [stats EXCEPT ![kind] = @ + amount]

\* The bookkeeping that deposit, withdraw and allocate each do.
Book(kind, amount, actor, recipient) ==
    /\ CountInStats(kind, amount)
    /\ RecordEntry([kind |-> kind, amount |-> amount, actor |-> actor,
                    recipient |-> recipient])

-----------------------------------------------------------------------------
(* The entry points.                                                        *)

\* Nobody has to sign: the first caller chooses council and token.
initialize(c) ==
    /\ ~Initialized
    /\ ValidCouncil(c)
    /\ council' = c
    /\ balance' = 0
    /\ signers' = {}
    /\ UNCHANGED <<stats, entries, programs, tokens>>

\* deposit as it runs on a given token ledger: the fee distributor calls it in
\* the middle of a transaction that has already moved tokens.
DepositOn(ledger, from, amount) ==
    /\ amount > 0
    /\ AddFits(balance, amount)
    /\ balance' = balance + amount
    /\ Book("Deposit", amount, from, NoAddress)
    /\ Initialized
    /\ CanTransfer(ledger, from, amount)
    /\ tokens' = Transfer(ledger, from, TreasuryAddr, amount)
    /\ UNCHANGED <<council, programs>>

deposit(from, amount) ==
    /\ DepositOn(tokens, from, amount)
    /\ signers' = {from}

\* Seeded fault: the balance is left as it was.
WithdrawUnbooked(to, amount) ==
    /\ balance' = balance
    /\ tokens' = Transfer(tokens, TreasuryAddr, to, amount)

PayOut(to, amount) ==
    /\ balance' = balance - amount
    /\ CanTransfer(tokens, TreasuryAddr, amount)
    /\ tokens' = Transfer(tokens, TreasuryAddr, to, amount)

\* The recipient is any address, the treasury itself included.
withdraw(auth, to, amount) ==
    /\ RequireCouncilAuth(council, auth)
    /\ amount > 0
    /\ Covers(amount)
    /\ PayOut(to, amount)
    /\ Book("Withdrawal", amount, TreasuryAddr, to)
    /\ signers' = auth
    /\ UNCHANGED <<council, programs>>

create_program(auth, nameLength, budget) ==
    /\ RequireCouncilAuth(council, auth)
    /\ budget > 0
    /\ 3 <= nameLength /\ nameLength <= 64
    /\ Len(programs) < MaxPrograms
    /\ programs' = Append(programs, [budget |-> budget, spent |-> 0, active |-> TRUE])
    /\ signers' = auth
    /\ UNCHANGED <<council, balance, stats, entries, tokens>>

\* Also allowed on a deactivated program.
update_program_budget(auth, id, newBudget) ==
    /\ RequireCouncilAuth(council, auth)
    /\ id \in DOMAIN programs
    /\ newBudget >= programs[id].spent
    /\ programs' = [programs EXCEPT ![id].budget = newBudget]
    /\ signers' = auth
    /\ UNCHANGED <<council, balance, stats, entries, tokens>>

deactivate_program(auth, id) ==
    /\ RequireCouncilAuth(council, auth)
    /\ id \in DOMAIN programs
    /\ programs' = [programs EXCEPT ![id].active = FALSE]
    /\ signers' = auth
    /\ UNCHANGED <<council, balance, stats, entries, tokens>>

\* Seeded faults: the inactive check is gone; only the new amount is held
\* against the budget; the new spending replaces the old.
SpendableIgnoringActive(id, amount) ==
    /\ AddFits(programs[id].spent, amount)
    /\ programs[id].spent + amount <= programs[id].budget
SpendableOnItsOwn(id, amount) ==
    /\ programs[id].active
    /\ AddFits(programs[id].spent, amount)
    /\ amount <= programs[id].budget
ReplaceSpent(id, amount) == programs' = [programs EXCEPT ![id].spent = amount]

Spendable(id, amount) ==
    /\ programs[id].active
    /\ AddFits(programs[id].spent, amount)
    /\ programs[id].spent + amount <= programs[id].budget

AddSpent(id, amount) == programs' = [programs EXCEPT ![id].spent = @ + amount]

\* Books the spending and moves no token: a program has no recipient address yet.
allocate(auth, id, amount) ==
    /\ RequireCouncilAuth(council, auth)
    /\ amount > 0
    /\ id \in DOMAIN programs
    /\ Spendable(id, amount)
    /\ Covers(amount)
    /\ AddSpent(id, amount)
    /\ balance' = balance - amount
    /\ Book("Allocation", amount, TreasuryAddr, NoAddress)
    /\ signers' = auth
    /\ UNCHANGED <<council, tokens>>

\* Any account may move its own tokens past the contracts, also to the
\* treasury's address, which the treasury never learns of.
token_transfer(from, to, amount) ==
    /\ amount > 0
    /\ CanTransfer(tokens, from, amount)
    /\ tokens' = Transfer(tokens, from, to, amount)
    /\ signers' = {from}
    /\ UNCHANGED <<council, balance, stats, entries, programs>>

\* The view reads the balance afresh and the three totals as they are stored.
get_treasury_stats ==
    [current_balance |-> balance, lifetime_deposited |-> stats["Deposit"],
     lifetime_withdrawn |-> stats["Withdrawal"], lifetime_allocated |-> stats["Allocation"]]

Next ==
    \/ \E c \in Councils : initialize(c)
    \/ \E from \in Accounts, amount \in Amounts : deposit(from, amount)
    \/ \E auth \in SUBSET Accounts, to \in Holders, amount \in Amounts :
          withdraw(auth, to, amount)
    \/ \E auth \in SUBSET Accounts, n \in NameLengths, budget \in Amounts :
          create_program(auth, n, budget)
    \/ \E auth \in SUBSET Accounts, id \in 1 .. MaxPrograms, budget \in Amounts :
          update_program_budget(auth, id, budget)
    \/ \E auth \in SUBSET Accounts, id \in 1 .. MaxPrograms : deactivate_program(auth, id)
    \/ \E auth \in SUBSET Accounts, id \in 1 .. MaxPrograms, amount \in Amounts :
          allocate(auth, id, amount)
    \/ \E from \in Accounts, to \in Holders, amount \in Amounts :
          token_transfer(from, to, amount)

Spec == Init /\ [][Next]_vars

-----------------------------------------------------------------------------
(* Properties.                                                              *)

AmountsOf(kind) ==
    [i \in DOMAIN entries |-> IF entries[i].kind = kind THEN entries[i].amount ELSE 0]
EntryTotal(kind) == SumFunction(AmountsOf(kind))
SpentTotal == SumFunction([id \in DOMAIN programs |-> programs[id].spent])

\* Every booked token is held, and so is every token ever allocated: nothing
\* booked as spendable is missing when withdraw transfers it, and nothing that
\* was allocated has been spent a second time.  That allocated tokens stay on the
\* account is how the code is today; its TODO in allocate means to pay them out.
Backing == balance + stats["Allocation"] <= tokens[TreasuryAddr]

\* get_treasury_stats is consistent: the current balance is what was deposited
\* less what was withdrawn and allocated, over any sequence of calls.
StatsReconcile ==
    LET s == get_treasury_stats
    IN  s.current_balance + s.lifetime_withdrawn + s.lifetime_allocated = s.lifetime_deposited

\* An auditor who replays the history through get_history arrives at the
\* lifetime statistics, kind by kind: no entry is lost, doubled or overwritten.
AuditTrailReplays == \A kind \in EntryKind : EntryTotal(kind) = stats[kind]

\* The programs' spending adds up to the lifetime allocations.
SpentReconciles == SpentTotal = stats["Allocation"]

\* No program is over its budget, however budgets are changed between
\* allocations and after deactivation.
WithinBudget == \A id \in DOMAIN programs : programs[id].spent <= programs[id].budget

\* Tokens leave the treasury, and the balance goes down, only in a transaction
\* that the signers of threshold seats of the council approved.
OutflowNeedsQuorum ==
    [][(tokens'[TreasuryAddr] < tokens[TreasuryAddr] \/ balance' < balance)
          => Quorum(council, signers')]_vars

\* Deactivation is final: no later call, a budget update included, lets a
\* deactivated program spend again.
DeactivatedStaysFrozen ==
    [][\A id \in DOMAIN programs :
          ~programs[id].active =>
              ~programs'[id].active /\ programs'[id].spent = programs[id].spent]_vars

\* The treasury is a vault: whatever the order of deposits, withdrawals,
\* allocations and direct transfers, each is a step of the abstract custodian.
\* An allocation only sets funds aside, as the code does before its TODO is done.
V == INSTANCE Vault WITH free <- balance, reserved <- stats["Allocation"],
        held <- tokens[TreasuryAddr], approved <- Quorum(council, signers)
TreasuryIsVault == V!Spec

=============================================================================
