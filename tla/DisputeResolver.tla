-------------------------- MODULE DisputeResolver --------------------------
(* The dispute resolver contract: a party raises a dispute over a           *)
(* transaction, the other party may answer with a proof of its own inside   *)
(* the resolution window, and anybody may then have it resolved.  One       *)
(* transaction is one action; one that fails or traps changes nothing.      *)
(*                                                                          *)
(* A proof is reduced to what resolve tells apart: whose key its signature  *)
(* verifies under, and its sequence number.  Timestamps are taken to be     *)
(* ledger numbers.  Abstracted: hashes, signature bytes, reasons, events,   *)
(* storage lifetimes.                                                       *)
EXTENDS AdminCouncil, Functions

CONSTANTS
    Parties,       \* addresses that may be in a dispute
    Members,       \* addresses that may sit on the council
    TxIds,         \* transaction ids that may be disputed
    Councils,      \* the councils a caller may pass to initialize
    Windows,       \* the resolution windows a caller may pass, in ledgers
    Proofs,        \* the relay chain proofs that may be submitted
    MaxU32,        \* the largest ledger number
    LastRaise      \* bound: no dispute is raised after this ledger

\* No party: the winner of a transaction that nobody won yet.
NoOne == "NoOne"

ASSUME DisputeAssumption ==
    /\ NoOne \notin Parties /\ "None" \notin Parties
    /\ \A c \in Councils : c \in [members : Seq(Members), threshold : Nat]
    /\ Windows \subseteq Nat
    /\ Proofs \subseteq [signer : Parties, sequence : Nat]
    /\ MaxU32 \in Nat /\ LastRaise \in Nat

VARIABLES
    council,     \* AdminCouncil; NoCouncil before initialize
    window,      \* ResolutionWindow; zero before initialize
    disputes,    \* Dispute(1 .. DisputeCount)
    tx_dispute,  \* TxDispute(tx_id); zero where there is none
    rulings,     \* the rulings in storage, at most one per key Ruling(id)
    keys,        \* the parties with a PublicKey in storage
    ledger,      \* the ledger's sequence number
    signers      \* history: the authorisations the last transaction carried

vars == <<council, window, disputes, tx_dispute, rulings, keys, ledger, signers>>

NoProof == [signer |-> "None", sequence |-> 0]
DisputeStatus == {"Open", "Responded", "Resolved"}
Dispute == [tx_id : TxIds, initiator : Parties, respondent : Parties,
            initiator_proof : Proofs,
            respondent_proof : Proofs \cup {NoProof},
            status : DisputeStatus, raised_at : Nat, resolve_by : 0 .. MaxU32]
Ruling == [dispute_id : Nat, winner : Parties, loser : Parties, resolved_at : Nat]

TypeOK ==
    /\ council \in [members : Seq(Members), threshold : Nat]
    /\ window \in Nat
    /\ disputes \in Seq(Dispute)
    /\ tx_dispute \in [TxIds -> Nat]
    /\ rulings \subseteq Ruling
    /\ keys \subseteq Parties
    /\ ledger \in 0 .. MaxU32
    /\ signers \subseteq Parties

Init ==
    /\ council = NoCouncil
    /\ window = 0
    /\ disputes = <<>>
    /\ tx_dispute = [tx \in TxIds |-> 0]
    /\ rulings = {}
    /\ keys = {}
    /\ ledger = 0
    /\ signers = {}

-----------------------------------------------------------------------------
(* Helpers of the entry points.                                             *)

Initialized == council # NoCouncil

\* set_ruling replaces what is stored under the id.
SetRuling(r) == rulings' = {q \in rulings : q.dispute_id # r.dispute_id} \cup {r}

\* verify_proof answers true or traps: on a missing key, or on a signature that
\* is not the party's own.  It never answers false, so the three branches of
\* the ruling tree for an invalid proof are never taken.
Verifies(proof, party) == party \in keys /\ proof.signer = party

\* Seeded faults: proofs are not verified; the tie goes to the respondent; the
\* deadline ledger itself counts as expired; answers are taken at any time.
BothAccepted(d) == TRUE
TieToRespondent(d) == d.initiator_proof.sequence < d.respondent_proof.sequence
ExpiredEarly(d) == ledger >= d.resolve_by
AnswerAnyTime(d) == TRUE

BothVerify(d) ==
    /\ Verifies(d.initiator_proof, d.initiator)
    /\ Verifies(d.respondent_proof, d.respondent)
InitiatorFirst(d) == d.initiator_proof.sequence <= d.respondent_proof.sequence
Expired(d) == ledger > d.resolve_by
InTime(d) == ledger <= d.resolve_by

-----------------------------------------------------------------------------
(* The entry points.                                                        *)

initialize(c, resolutionWindow) ==
    /\ ~Initialized
    /\ resolutionWindow # 0
    /\ ValidCouncil(c)
    /\ council' = c
    /\ window' = resolutionWindow
    /\ signers' = {}
    /\ UNCHANGED <<disputes, tx_dispute, rulings, keys, ledger>>

\* No entry point stores a public key.  The repository's tests do it from
\* outside the contract.
set_public_key(party) ==
    /\ party \notin keys
    /\ keys' = keys \cup {party}
    /\ signers' = {}
    /\ UNCHANGED <<council, window, disputes, tx_dispute, rulings, ledger>>

\* Seeded faults: a transaction can be disputed again; the deadline is added up
\* without a check.
DisputeAgain(tx) == TRUE
DeadlineUnchecked == TRUE

Undisputed(tx) == tx_dispute[tx] = 0

\* checked_add on u32.
DeadlineFits == ledger + window <= MaxU32

\* Also possible before initialize, with a window of zero.
raise_dispute(initiator, respondent, tx, proof) ==
    /\ ledger <= LastRaise
    /\ initiator # respondent
    /\ Undisputed(tx)
    /\ DeadlineFits
    /\ disputes' = Append(disputes,
          [tx_id |-> tx, initiator |-> initiator, respondent |-> respondent,
           initiator_proof |-> proof, respondent_proof |-> NoProof,
           status |-> "Open", raised_at |-> ledger, resolve_by |-> ledger + window])
    /\ tx_dispute' = [tx_dispute EXCEPT ![tx] = Len(disputes) + 1]
    /\ signers' = {initiator}
    /\ UNCHANGED <<council, window, rulings, keys, ledger>>

\* The proof is stored as it comes.
respond(respondent, id, proof) ==
    /\ id \in DOMAIN disputes
    /\ disputes[id].respondent = respondent
    /\ disputes[id].status = "Open"
    /\ InTime(disputes[id])
    /\ disputes' = [disputes EXCEPT ![id] =
                       [@ EXCEPT !.respondent_proof = proof, !.status = "Responded"]]
    /\ signers' = {respondent}
    /\ UNCHANGED <<council, window, tx_dispute, rulings, keys, ledger>>

\* Seeded fault: the dispute stays as it was.
RuleAndForget(id, winner, loser) ==
    /\ disputes' = disputes
    /\ SetRuling([dispute_id |-> id, winner |-> winner, loser |-> loser,
                  resolved_at |-> ledger])

Rule(id, winner, loser) ==
    /\ disputes' = [disputes EXCEPT ![id].status = "Resolved"]
    /\ SetRuling([dispute_id |-> id, winner |-> winner, loser |-> loser,
                  resolved_at |-> ledger])

\* resolve on an open dispute: the initiator wins by default.
ResolveByDefault(id) ==
    /\ disputes[id].status = "Open"
    /\ Expired(disputes[id])
    /\ Rule(id, disputes[id].initiator, disputes[id].respondent)

\* resolve on an answered dispute: the lower sequence number wins.
ResolveByProofs(id) ==
    /\ disputes[id].status = "Responded"
    /\ BothVerify(disputes[id])
    /\ IF InitiatorFirst(disputes[id])
       THEN Rule(id, disputes[id].initiator, disputes[id].respondent)
       ELSE Rule(id, disputes[id].respondent, disputes[id].initiator)

resolve(id) ==
    /\ id \in DOMAIN disputes
    /\ ResolveByDefault(id) \/ ResolveByProofs(id)
    /\ signers' = {}
    /\ UNCHANGED <<council, window, tx_dispute, keys, ledger>>

CloseLedger ==
    /\ ledger < MaxU32
    /\ ledger' = ledger + 1
    /\ signers' = {}
    /\ UNCHANGED <<council, window, disputes, tx_dispute, rulings, keys>>

Next ==
    \/ \E c \in Councils, w \in Windows : initialize(c, w)
    \/ \E party \in Parties : set_public_key(party)
    \/ \E i, r \in Parties, tx \in TxIds, proof \in Proofs :
          raise_dispute(i, r, tx, proof)
    \/ \E r \in Parties, id \in DOMAIN disputes, proof \in Proofs :
          respond(r, id, proof)
    \/ \E id \in DOMAIN disputes : resolve(id)
    \/ CloseLedger

Spec == Init /\ [][Next]_vars

\* The ids a dispute can have while there is one per transaction.
Ids == 1 .. Cardinality(TxIds)

\* Ledgers close, and somebody, since anybody may, keeps asking for a dispute to
\* be resolved.  No party ever has to get its key stored, or to answer.
FairSpec == Spec /\ WF_vars(CloseLedger) /\ \A id \in Ids : WF_vars(resolve(id))

\* A better world, in which every party also gets its key stored in the end.
KeyedFairSpec == FairSpec /\ \A party \in Parties : WF_vars(set_public_key(party))

-----------------------------------------------------------------------------
(* Properties.                                                              *)

Raised(id) == id \in DOMAIN disputes
Resolved(id) == Raised(id) /\ disputes[id].status = "Resolved"
RulingsOf(id) == {r \in rulings : r.dispute_id = id}

\* A dispute is Resolved exactly when it has its one ruling, and the ruling is
\* between the two parties of that dispute.
RulingIffResolved ==
    /\ \A id \in DOMAIN disputes : Resolved(id) <=> RulingsOf(id) # {}
    /\ \A r \in rulings :
          /\ Raised(r.dispute_id)
          /\ RulingsOf(r.dispute_id) = {r}
          /\ {r.winner, r.loser} =
                {disputes[r.dispute_id].initiator, disputes[r.dispute_id].respondent}
          /\ r.winner # r.loser

\* A party loses by default only if it did not answer and its window had
\* passed; otherwise both proofs are their own parties' and the lower sequence
\* number wins, the initiator's on a tie.
RulingIsJust ==
    \A r \in rulings :
        LET d == disputes[r.dispute_id] IN
        IF d.respondent_proof = NoProof
        THEN r.winner = d.initiator /\ r.resolved_at > d.resolve_by
        ELSE /\ d.initiator_proof.signer = d.initiator
             /\ d.respondent_proof.signer = d.respondent
             /\ r.winner = IF d.respondent_proof.sequence < d.initiator_proof.sequence
                           THEN d.respondent ELSE d.initiator

\* No transaction is ever disputed twice, and the index by transaction finds
\* the dispute, in every order of raising and resolving.
OneDisputePerTx ==
    /\ \A i, j \in DOMAIN disputes : disputes[i].tx_id = disputes[j].tx_id => i = j
    /\ \A tx \in TxIds :
          tx_dispute[tx] # 0 => Raised(tx_dispute[tx]) /\ disputes[tx_dispute[tx]].tx_id = tx

\* A ruling is never withdrawn or replaced, and nothing about a resolved
\* dispute changes any more.
RulingIsFinal ==
    [][/\ rulings \subseteq rulings'
       /\ \A id \in DOMAIN disputes : Resolved(id) => disputes'[id] = disputes[id]]_vars

\* The record of an open dispute changes only by its respondent's signed answer
\* inside the window, or by default once the window is over: each party always
\* has the whole window to itself.
WindowIsRespected ==
    [][\A id \in DOMAIN disputes :
          disputes[id].status = "Open" /\ disputes'[id] # disputes[id] =>
             IF ledger <= disputes[id].resolve_by
             THEN disputes'[id].status = "Responded" /\ signers' = {disputes[id].respondent}
             ELSE disputes'[id].status = "Resolved"]_vars

\* Every dispute is resolved in the end, whether it is answered or not, unless
\* it is answered and one of its two proofs stays unverifiable for ever.
Unverifiable(id) ==
    Raised(id) /\ disputes[id].status = "Responded" /\ ~BothVerify(disputes[id])
DisputesSettle == \A id \in Ids : Raised(id) ~> (Resolved(id) \/ []Unverifiable(id))

\* Every transaction gets the arbitration its parties may expect: the table, the
\* index and the rulings together are one case per transaction, opened once and
\* decided once.
CaseParties(tx) ==
    UNION {{d.initiator, d.respondent} : d \in {e \in Range(disputes) : e.tx_id = tx}}
CaseWinner(tx) ==
    IF tx_dispute[tx] = 0 \/ RulingsOf(tx_dispute[tx]) = {} THEN NoOne
    ELSE (CHOOSE r \in RulingsOf(tx_dispute[tx]) : TRUE).winner
Case(tx) == INSTANCE Arbitration WITH Undecided <- NoOne, parties <- CaseParties(tx),
               winner <- CaseWinner(tx), signed <- signers
EveryTxIsArbitrated ==
    /\ \A tx \in TxIds : Case(tx)!Init
    /\ [][\A tx \in TxIds : [Case(tx)!Next]_(Case(tx)!vars)]_vars

\* Documented: anyone can have an answered or expired dispute resolved.  So with
\* somebody calling resolve for ever, and all keys stored, every dispute is
\* resolved.
EveryDisputeResolves == \A id \in Ids : Raised(id) ~> Resolved(id)

=============================================================================
