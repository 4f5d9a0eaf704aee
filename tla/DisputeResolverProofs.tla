----------------------- MODULE DisputeResolverProofs -----------------------
(* Type correctness of the dispute resolver, the invariant that ties the    *)
(* table, the index and the rulings together, and what follows from it:     *)
(* one final and just ruling per dispute, and one arbitration per           *)
(* transaction.                                                             *)
EXTENDS DisputeResolver, SequenceTheorems, TLAPS

\* A dispute that was raised has a record.
LEMMA RecordType ==
    ASSUME TypeOK, NEW id \in DOMAIN disputes
    PROVE  /\ disputes \in Seq(Dispute) /\ id \in 1 .. Len(disputes) /\ id \in Nat \ {0}
           /\ disputes[id] \in Dispute
           /\ disputes[id].initiator \in Parties /\ disputes[id].respondent \in Parties
<1>1. disputes \in Seq(Dispute)
  BY DEF TypeOK
<1>2. id \in 1 .. Len(disputes) /\ Len(disputes) \in Nat
  BY <1>1, LenProperties
<1>3. disputes[id] \in Dispute
  BY <1>1, <1>2, ElementOfSeq
<1> QED  BY <1>1, <1>2, <1>3 DEF Dispute

\* The table after one of its records has changed.
LEMMA TableUpdate ==
    ASSUME TypeOK, NEW id \in DOMAIN disputes, NEW d \in Dispute,
           disputes' = [disputes EXCEPT ![id] = d]
    PROVE  /\ disputes' \in Seq(Dispute)
           /\ DOMAIN disputes' = DOMAIN disputes
           /\ disputes'[id] = d
           /\ \A j \in DOMAIN disputes \ {id} : disputes'[j] = disputes[j]
<1>1. disputes \in Seq(Dispute) /\ id \in 1 .. Len(disputes)
  BY RecordType
<1>2. disputes' \in Seq(Dispute)
  BY <1>1, ExceptSeq
<1> QED  BY <1>2

\* raise_dispute adds one open dispute at the end of the table.
LEMMA RaiseEffect ==
    ASSUME TypeOK, NEW i \in Parties, NEW r \in Parties, NEW tx \in TxIds, NEW p \in Proofs,
           raise_dispute(i, r, tx, p)
    PROVE  LET n == Len(disputes) + 1 IN
           /\ disputes' \in Seq(Dispute)
           /\ n \in Nat \ {0} /\ n \notin DOMAIN disputes
           /\ DOMAIN disputes' = DOMAIN disputes \cup {n}
           /\ disputes'[n].tx_id = tx
           /\ disputes'[n].initiator = i /\ disputes'[n].respondent = r
           /\ disputes'[n].status = "Open" /\ disputes'[n].respondent_proof = NoProof
           /\ \A j \in DOMAIN disputes : disputes'[j] = disputes[j]
<1> DEFINE d == [tx_id |-> tx, initiator |-> i, respondent |-> r,
                 initiator_proof |-> p, respondent_proof |-> NoProof, status |-> "Open",
                 raised_at |-> ledger, resolve_by |-> ledger + window]
<1>1. ledger \in Nat /\ window \in Nat /\ ledger + window \in 0 .. MaxU32
  BY DisputeAssumption DEF TypeOK, raise_dispute, DeadlineFits
<1>2. d \in Dispute
  BY <1>1 DEF Dispute, DisputeStatus
<1>3. disputes' = Append(disputes, d) /\ disputes \in Seq(Dispute)
  BY DEF raise_dispute, TypeOK
<1> HIDE DEF d
<1>4. /\ DOMAIN disputes = 1 .. Len(disputes) /\ Len(disputes) \in Nat
  BY <1>3, LenProperties
<1>5. /\ disputes' \in Seq(Dispute) /\ Len(disputes') = Len(disputes) + 1
      /\ \A j \in 1 .. Len(disputes) : disputes'[j] = disputes[j]
      /\ disputes'[Len(disputes) + 1] = d
  BY <1>2, <1>3, AppendProperties
<1>6. DOMAIN disputes' = 1 .. Len(disputes')
  BY <1>5, LenProperties
<1>7. DOMAIN disputes' = DOMAIN disputes \cup {Len(disputes) + 1}
  BY <1>4, <1>5, <1>6
<1> QED  BY <1>4, <1>5, <1>7 DEF d

\* What no answer and no ruling changes about a dispute.
SameCase(id) ==
    /\ disputes'[id].tx_id = disputes[id].tx_id
    /\ disputes'[id].initiator = disputes[id].initiator
    /\ disputes'[id].respondent = disputes[id].respondent
    /\ disputes'[id].initiator_proof = disputes[id].initiator_proof
    /\ disputes'[id].resolve_by = disputes[id].resolve_by

\* respond changes the proof and the status of one dispute.
LEMMA RespondEffect ==
    ASSUME TypeOK, NEW r \in Parties, NEW id \in DOMAIN disputes, NEW p \in Proofs,
           respond(r, id, p)
    PROVE  /\ disputes' \in Seq(Dispute) /\ DOMAIN disputes' = DOMAIN disputes
           /\ SameCase(id) /\ disputes[id].status = "Open"
           /\ disputes'[id].respondent_proof = p /\ disputes'[id].status = "Responded"
           /\ \A j \in DOMAIN disputes \ {id} : disputes'[j] = disputes[j]
<1> DEFINE d == [disputes[id] EXCEPT !.respondent_proof = p, !.status = "Responded"]
<1>1. disputes[id] \in Dispute
  BY RecordType
<1>2. d \in Dispute
  BY <1>1 DEF Dispute, DisputeStatus
<1>3. disputes' = [disputes EXCEPT ![id] = d] /\ disputes[id].status = "Open"
  BY DEF respond
<1>4. /\ d.tx_id = disputes[id].tx_id /\ d.initiator = disputes[id].initiator
      /\ d.respondent = disputes[id].respondent /\ d.resolve_by = disputes[id].resolve_by
      /\ d.initiator_proof = disputes[id].initiator_proof
      /\ d.respondent_proof = p /\ d.status = "Responded"
  BY <1>1 DEF Dispute
<1> HIDE DEF d
<1> QED  BY <1>2, <1>3, <1>4, TableUpdate DEF SameCase

\* What a ruling for a party rests on.
Grounds(d, w) ==
    \/ d.status = "Open" /\ ledger > d.resolve_by /\ w = d.initiator
    \/ /\ d.status = "Responded"
       /\ d.initiator_proof.signer = d.initiator /\ d.respondent_proof.signer = d.respondent
       /\ w = IF d.initiator_proof.sequence <= d.respondent_proof.sequence
              THEN d.initiator ELSE d.respondent

\* A ruling is between the parties of a dispute that was open or answered; it
\* changes the status of that dispute and the ruling stored for it.
LEMMA ResolveEffect ==
    ASSUME TypeOK, NEW id \in DOMAIN disputes, resolve(id)
    PROVE  /\ disputes' \in Seq(Dispute) /\ DOMAIN disputes' = DOMAIN disputes
           /\ SameCase(id) /\ disputes'[id].status = "Resolved"
           /\ disputes'[id].respondent_proof = disputes[id].respondent_proof
           /\ \A j \in DOMAIN disputes \ {id} : disputes'[j] = disputes[j]
           /\ \E r \in Ruling :
                /\ r.dispute_id = id /\ r.resolved_at = ledger
                /\ rulings' = {q \in rulings : q.dispute_id # id} \cup {r}
                /\ \/ r.winner = disputes[id].initiator /\ r.loser = disputes[id].respondent
                   \/ r.winner = disputes[id].respondent /\ r.loser = disputes[id].initiator
                /\ Grounds(disputes[id], r.winner)
<1> DEFINE d == disputes[id]
           e == [d EXCEPT !.status = "Resolved"]
           Issued(w, l) == [dispute_id |-> id, winner |-> w, loser |-> l, resolved_at |-> ledger]
<1>1. /\ d \in Dispute /\ id \in Nat /\ ledger \in Nat
      /\ d.initiator \in Parties /\ d.respondent \in Parties
  BY RecordType, DisputeAssumption DEF TypeOK
<1>2. PICK w \in Parties, l \in Parties :
         /\ Rule(id, w, l)
         /\ \/ w = d.initiator /\ l = d.respondent
            \/ w = d.respondent /\ l = d.initiator
         /\ Grounds(d, w)
  <2>1. CASE ResolveByDefault(id)
    BY <1>1, <2>1 DEF ResolveByDefault, Grounds, Expired
  <2>2. CASE ResolveByProofs(id)
    BY <1>1, <2>2 DEF ResolveByProofs, Grounds, BothVerify, Verifies, InitiatorFirst
  <2> QED  BY <2>1, <2>2 DEF resolve
<1>3. /\ e \in Dispute /\ e.status = "Resolved"
      /\ e.tx_id = d.tx_id /\ e.initiator = d.initiator /\ e.respondent = d.respondent
      /\ e.initiator_proof = d.initiator_proof /\ e.resolve_by = d.resolve_by
      /\ e.respondent_proof = d.respondent_proof
  BY <1>1 DEF Dispute, DisputeStatus
<1>4. disputes' = [disputes EXCEPT ![id] = e]
  BY <1>2 DEF Rule
<1>5. /\ Issued(w, l) \in Ruling
      /\ Issued(w, l).dispute_id = id /\ Issued(w, l).resolved_at = ledger
      /\ Issued(w, l).winner = w /\ Issued(w, l).loser = l
      /\ rulings' = {q \in rulings : q.dispute_id # id} \cup {Issued(w, l)}
  BY <1>1, <1>2 DEF Rule, SetRuling, Ruling
<1> HIDE DEF e, Issued
<1>6. /\ disputes' \in Seq(Dispute) /\ DOMAIN disputes' = DOMAIN disputes
      /\ disputes'[id] = e
      /\ \A j \in DOMAIN disputes \ {id} : disputes'[j] = disputes[j]
  BY <1>3, <1>4, TableUpdate
<1> QED  BY <1>2, <1>3, <1>5, <1>6 DEF SameCase

-----------------------------------------------------------------------------
(* Type correctness.                                                        *)

LEMMA TypeInit == Init => TypeOK
<1> SUFFICES ASSUME Init PROVE TypeOK
  OBVIOUS
<1>1. disputes \in Seq(Dispute)
  BY EmptySeq DEF Init
<1>2. council \in [members : Seq(Members), threshold : Nat]
  BY EmptySeq DEF Init, NoCouncil
<1> QED  BY <1>1, <1>2, DisputeAssumption DEF Init, TypeOK

LEMMA TypeStep == TypeOK /\ [Next]_vars => TypeOK'
<1> SUFFICES ASSUME TypeOK, [Next]_vars PROVE TypeOK'
  OBVIOUS
<1> USE DisputeAssumption
<1>1. CASE UNCHANGED vars
  BY <1>1 DEF vars, TypeOK
<1>2. ASSUME NEW c \in Councils, NEW w \in Windows, initialize(c, w) PROVE TypeOK'
  BY <1>2 DEF initialize, TypeOK
<1>3. ASSUME NEW party \in Parties, set_public_key(party) PROVE TypeOK'
  BY <1>3 DEF set_public_key, TypeOK
<1>4. ASSUME NEW i \in Parties, NEW r \in Parties, NEW tx \in TxIds, NEW p \in Proofs,
             raise_dispute(i, r, tx, p)
      PROVE  TypeOK'
  <2>1. disputes' \in Seq(Dispute) /\ Len(disputes) + 1 \in Nat
    BY <1>4, RaiseEffect
  <2> QED  BY <1>4, <2>1 DEF raise_dispute, TypeOK
<1>5. ASSUME NEW r \in Parties, NEW id \in DOMAIN disputes, NEW p \in Proofs,
             respond(r, id, p)
      PROVE  TypeOK'
  <2>1. disputes' \in Seq(Dispute)
    BY <1>5, RespondEffect
  <2> QED  BY <1>5, <2>1 DEF respond, TypeOK
<1>6. ASSUME NEW id \in DOMAIN disputes, resolve(id) PROVE TypeOK'
  <2>1. disputes' \in Seq(Dispute)
    BY <1>6, ResolveEffect
  <2>2. rulings' \subseteq Ruling
    BY <1>6, ResolveEffect DEF TypeOK
  <2> QED  BY <1>6, <2>1, <2>2 DEF resolve, TypeOK
<1>7. CASE CloseLedger
  BY <1>7 DEF CloseLedger, TypeOK
<1> QED  BY <1>1, <1>2, <1>3, <1>4, <1>5, <1>6, <1>7 DEF Next

\* The resolver's state has its types, and no deadline overflows.
THEOREM TypeCorrect == Spec => []TypeOK
  BY TypeInit, TypeStep, PTL DEF Spec

-----------------------------------------------------------------------------
(* The table, the index and the rulings.                                    *)

\* A dispute is between two parties and its transaction's index entry points to
\* it; the respondent's proof is there exactly when there has been an answer.
Recorded(id) ==
    /\ disputes[id].initiator # disputes[id].respondent
    /\ tx_dispute[disputes[id].tx_id] = id
    /\ disputes[id].status = "Open" => disputes[id].respondent_proof = NoProof
    /\ disputes[id].status = "Responded" => disputes[id].respondent_proof # NoProof

\* The index points to nothing but disputes over the same transaction.
Indexed(tx) ==
    tx_dispute[tx] # 0 => Raised(tx_dispute[tx]) /\ disputes[tx_dispute[tx]].tx_id = tx

Cases ==
    /\ \A id \in DOMAIN disputes : Recorded(id)
    /\ \A tx \in TxIds : Indexed(tx)

LEMMA CasesInit == Init => Cases
  BY DEF Init, Cases, Indexed

LEMMA CasesStep == TypeOK /\ Cases /\ [Next]_vars => Cases'
<1> SUFFICES ASSUME TypeOK, Cases, [Next]_vars PROVE Cases'
  OBVIOUS
<1>0. /\ \A id \in DOMAIN disputes : disputes[id] \in Dispute /\ id \in Nat \ {0}
      /\ tx_dispute \in [TxIds -> Nat]
      /\ \A d \in Dispute : d.tx_id \in TxIds
  BY RecordType DEF TypeOK, Dispute
<1>1. CASE UNCHANGED <<disputes, tx_dispute>>
  BY <1>1 DEF Cases, Recorded, Indexed, Raised
<1>2. ASSUME NEW i \in Parties, NEW r \in Parties, NEW tx \in TxIds, NEW p \in Proofs,
             raise_dispute(i, r, tx, p)
      PROVE  Cases'
  <2>0. PICK n : n = Len(disputes) + 1
    OBVIOUS
  <2>1. /\ n \in Nat \ {0} /\ n \notin DOMAIN disputes
        /\ DOMAIN disputes' = DOMAIN disputes \cup {n}
        /\ disputes'[n].tx_id = tx
        /\ disputes'[n].initiator = i /\ disputes'[n].respondent = r
        /\ disputes'[n].status = "Open" /\ disputes'[n].respondent_proof = NoProof
        /\ \A j \in DOMAIN disputes : disputes'[j] = disputes[j]
    BY <1>2, <2>0, RaiseEffect
  <2>2. /\ i # r /\ tx_dispute[tx] = 0
        /\ tx_dispute' = [tx_dispute EXCEPT ![tx] = n]
    BY <1>2, <2>0 DEF raise_dispute, Undisputed
  <2>3. Recorded(n)'
    BY <1>0, <2>1, <2>2 DEF Recorded
  <2>4. ASSUME NEW j \in DOMAIN disputes PROVE Recorded(j)'
    <3>1. disputes[j].tx_id # tx
      BY <1>0, <2>2 DEF Cases, Recorded
    <3>2. tx_dispute'[disputes[j].tx_id] = tx_dispute[disputes[j].tx_id]
      BY <1>0, <2>2, <3>1
    <3> QED  BY <2>1, <3>2 DEF Cases, Recorded
  <2>5. ASSUME NEW t \in TxIds PROVE Indexed(t)'
    BY <1>0, <2>1, <2>2 DEF Cases, Indexed, Raised
  <2> QED  BY <2>1, <2>3, <2>4, <2>5 DEF Cases
<1>3. ASSUME NEW r \in Parties, NEW id \in DOMAIN disputes, NEW p \in Proofs,
             respond(r, id, p)
      PROVE  Cases'
  <2>1. p # NoProof
    BY DisputeAssumption DEF NoProof
  <2>2. /\ DOMAIN disputes' = DOMAIN disputes
        /\ SameCase(id)
        /\ disputes'[id].status = "Responded" /\ disputes'[id].respondent_proof = p
        /\ \A j \in DOMAIN disputes \ {id} : disputes'[j] = disputes[j]
    BY <1>3, RespondEffect
  <2>3. tx_dispute' = tx_dispute
    BY <1>3 DEF respond
  <2>4. ASSUME NEW j \in DOMAIN disputes PROVE Recorded(j)'
    BY <2>1, <2>2, <2>3, <1>0 DEF Cases, Recorded, SameCase
  <2>5. ASSUME NEW t \in TxIds PROVE Indexed(t)'
    BY <2>2, <2>3 DEF Cases, Indexed, Raised, SameCase
  <2> QED  BY <2>2, <2>4, <2>5 DEF Cases
<1>4. ASSUME NEW id \in DOMAIN disputes, resolve(id) PROVE Cases'
  <2>1. /\ DOMAIN disputes' = DOMAIN disputes
        /\ SameCase(id) /\ disputes'[id].status = "Resolved"
        /\ \A j \in DOMAIN disputes \ {id} : disputes'[j] = disputes[j]
    BY <1>4, ResolveEffect
  <2>3. tx_dispute' = tx_dispute
    BY <1>4 DEF resolve
  <2>4. ASSUME NEW j \in DOMAIN disputes PROVE Recorded(j)'
    BY <2>1, <2>3, <1>0 DEF Cases, Recorded, SameCase
  <2>5. ASSUME NEW t \in TxIds PROVE Indexed(t)'
    BY <2>1, <2>3 DEF Cases, Indexed, Raised, SameCase
  <2> QED  BY <2>1, <2>4, <2>5 DEF Cases
<1> QED
  BY <1>1, <1>2, <1>3, <1>4 DEF Next, vars, initialize, set_public_key, CloseLedger

LEMMA CasesHold == Spec => [](TypeOK /\ Cases)
  BY TypeInit, TypeStep, CasesInit, CasesStep, PTL DEF Spec

\* No transaction is ever disputed twice, and the index finds the dispute.
THEOREM OneDisputeHolds == Spec => []OneDisputePerTx
<1>1. TypeOK /\ Cases => OneDisputePerTx
  BY DEF Cases, Recorded, Indexed, OneDisputePerTx
<1> QED  BY <1>1, CasesHold, PTL

-----------------------------------------------------------------------------
(* The rulings.                                                             *)

LEMMA RulingInit == Init => RulingIffResolved /\ RulingIsJust
  BY DEF Init, RulingIffResolved, RulingIsJust, Resolved, Raised, RulingsOf

\* A ruling appears only where there is none, and with it the status of its
\* dispute changes; disputes that have their ruling stay as they are.
LEMMA RulingStep ==
    TypeOK /\ Cases /\ RulingIffResolved /\ [Next]_vars => RulingIffResolved'
<1> SUFFICES ASSUME TypeOK, Cases, RulingIffResolved, [Next]_vars
             PROVE  RulingIffResolved'
  OBVIOUS
<1>0. \A id \in DOMAIN disputes : disputes[id] \in Dispute
  BY RecordType
<1>1. CASE UNCHANGED <<disputes, rulings>>
  BY <1>1 DEF RulingIffResolved, Resolved, Raised, RulingsOf
<1>2. ASSUME NEW i \in Parties, NEW r \in Parties, NEW tx \in TxIds, NEW p \in Proofs,
             raise_dispute(i, r, tx, p)
      PROVE  RulingIffResolved'
  <2>0. PICK n : n = Len(disputes) + 1
    OBVIOUS
  <2>1. /\ n \notin DOMAIN disputes /\ DOMAIN disputes' = DOMAIN disputes \cup {n}
        /\ disputes'[n].status = "Open"
        /\ \A j \in DOMAIN disputes : disputes'[j] = disputes[j]
    BY <1>2, <2>0, RaiseEffect
  <2>2. rulings' = rulings
    BY <1>2 DEF raise_dispute
  <2> QED  BY <2>1, <2>2 DEF RulingIffResolved, Resolved, Raised, RulingsOf
<1>3. ASSUME NEW r \in Parties, NEW id \in DOMAIN disputes, NEW p \in Proofs,
             respond(r, id, p)
      PROVE  RulingIffResolved'
  <2>1. /\ DOMAIN disputes' = DOMAIN disputes
        /\ disputes[id].status = "Open" /\ disputes'[id].status = "Responded"
        /\ SameCase(id)
        /\ \A j \in DOMAIN disputes \ {id} : disputes'[j] = disputes[j]
    BY <1>3, RespondEffect
  <2>2. rulings' = rulings
    BY <1>3 DEF respond
  <2> QED  BY <2>1, <2>2 DEF RulingIffResolved, Resolved, Raised, RulingsOf, SameCase
<1>4. ASSUME NEW id \in DOMAIN disputes, resolve(id) PROVE RulingIffResolved'
  <2>1. PICK r \in Ruling :
          /\ r.dispute_id = id
          /\ rulings' = {q \in rulings : q.dispute_id # id} \cup {r}
          /\ \/ r.winner = disputes[id].initiator /\ r.loser = disputes[id].respondent
             \/ r.winner = disputes[id].respondent /\ r.loser = disputes[id].initiator
          /\ disputes[id].status # "Resolved"
    BY <1>4, ResolveEffect DEF Grounds
  <2>2. RulingsOf(id) = {} /\ rulings' = rulings \cup {r}
    BY <2>1 DEF RulingIffResolved, Resolved, RulingsOf
  <2>3. /\ DOMAIN disputes' = DOMAIN disputes
        /\ SameCase(id) /\ disputes'[id].status = "Resolved"
        /\ \A j \in DOMAIN disputes \ {id} : disputes'[j] = disputes[j]
    BY <1>4, ResolveEffect
  <2>4. disputes[id].initiator # disputes[id].respondent
    BY DEF Cases, Recorded
  <2>5. RulingsOf(id)' = {r}
    BY <2>1, <2>2 DEF RulingsOf
  <2>6. \A j \in DOMAIN disputes \ {id} : RulingsOf(j)' = RulingsOf(j)
    BY <2>1, <2>2 DEF RulingsOf
  <2>7. ASSUME NEW j \in DOMAIN disputes' PROVE Resolved(j)' <=> (RulingsOf(j) # {})'
    BY <2>3, <2>5, <2>6 DEF RulingIffResolved, Resolved, Raised
  <2>8. ASSUME NEW q \in rulings'
        PROVE  /\ Raised(q.dispute_id)'
               /\ RulingsOf(q.dispute_id)' = {q}
               /\ {q.winner, q.loser} =
                     {disputes'[q.dispute_id].initiator, disputes'[q.dispute_id].respondent}
               /\ q.winner # q.loser
    <3>1. CASE q = r
      BY <3>1, <2>1, <2>3, <2>4, <2>5 DEF Raised, SameCase
    <3>2. CASE q # r
      <4>1. q \in rulings /\ q.dispute_id # id /\ q.dispute_id \in DOMAIN disputes
        BY <3>2, <2>2 DEF RulingIffResolved, Raised, RulingsOf
      <4> QED  BY <4>1, <2>3, <2>6 DEF RulingIffResolved, Raised
    <3> QED  BY <3>1, <3>2
  <2> QED  BY <2>7, <2>8 DEF RulingIffResolved
<1> QED
  BY <1>1, <1>2, <1>3, <1>4 DEF Next, vars, initialize, set_public_key, CloseLedger

\* A dispute is resolved exactly when it has its one ruling.
THEOREM RulingIffResolvedHolds == Spec => []RulingIffResolved
  BY CasesHold, RulingInit, RulingStep, PTL DEF Spec

\* Whether a ruling is just, given what is recorded of its dispute.
Just(r) ==
    LET d == disputes[r.dispute_id] IN
    IF d.respondent_proof = NoProof
    THEN r.winner = d.initiator /\ r.resolved_at > d.resolve_by
    ELSE /\ d.initiator_proof.signer = d.initiator
         /\ d.respondent_proof.signer = d.respondent
         /\ r.winner = IF d.respondent_proof.sequence < d.initiator_proof.sequence
                       THEN d.respondent ELSE d.initiator

LEMMA JustStep ==
    TypeOK /\ Cases /\ RulingIffResolved /\ RulingIsJust /\ [Next]_vars => RulingIsJust'
<1> SUFFICES ASSUME TypeOK, Cases, RulingIffResolved, RulingIsJust, [Next]_vars
             PROVE  RulingIsJust'
  OBVIOUS
<1>0. \A q \in rulings : q.dispute_id \in DOMAIN disputes /\ Just(q)
  BY DEF RulingIffResolved, Raised, RulingIsJust, Just
<1>1. CASE UNCHANGED <<disputes, rulings>>
  BY <1>1 DEF RulingIsJust
<1>2. ASSUME NEW i \in Parties, NEW r \in Parties, NEW tx \in TxIds, NEW p \in Proofs,
             raise_dispute(i, r, tx, p)
      PROVE  RulingIsJust'
  <2>1. rulings' = rulings /\ \A j \in DOMAIN disputes : disputes'[j] = disputes[j]
    BY <1>2, RaiseEffect DEF raise_dispute
  <2> QED  BY <1>0, <2>1 DEF RulingIsJust, Just
<1>3. ASSUME NEW r \in Parties, NEW id \in DOMAIN disputes, NEW p \in Proofs,
             respond(r, id, p)
      PROVE  RulingIsJust'
  <2>1. /\ rulings' = rulings /\ disputes[id].status = "Open"
        /\ \A j \in DOMAIN disputes \ {id} : disputes'[j] = disputes[j]
    BY <1>3, RespondEffect DEF respond
  <2>2. \A q \in rulings : q.dispute_id # id
    BY <2>1 DEF RulingIffResolved, Resolved, RulingsOf
  <2> QED  BY <1>0, <2>1, <2>2 DEF RulingIsJust, Just
<1>4. ASSUME NEW id \in DOMAIN disputes, resolve(id) PROVE RulingIsJust'
  <2>1. PICK r \in Ruling :
          /\ r.dispute_id = id /\ r.resolved_at = ledger
          /\ rulings' = {q \in rulings : q.dispute_id # id} \cup {r}
          /\ Grounds(disputes[id], r.winner)
    BY <1>4, ResolveEffect
  <2>2. /\ SameCase(id)
        /\ disputes'[id].respondent_proof = disputes[id].respondent_proof
        /\ \A j \in DOMAIN disputes \ {id} : disputes'[j] = disputes[j]
    BY <1>4, ResolveEffect
  <2>3. Just(r)
    <3>1. CASE disputes[id].status = "Open"
      BY <2>1, <3>1 DEF Just, Grounds, Cases, Recorded
    <3>2. CASE disputes[id].status = "Responded"
      <4>1. disputes[id].respondent_proof # NoProof
        BY <3>2 DEF Cases, Recorded
      <4>2. /\ disputes[id].initiator_proof \in Proofs
            /\ disputes[id].respondent_proof \in Proofs
        BY <4>1, RecordType DEF Dispute
      <4>3. /\ disputes[id].initiator_proof.sequence \in Nat
            /\ disputes[id].respondent_proof.sequence \in Nat
        BY <4>2, DisputeAssumption
      <4> QED  BY <2>1, <3>2, <4>1, <4>3 DEF Just, Grounds
    <3> QED  BY <2>1, <3>1, <3>2 DEF Grounds
  <2>4. ASSUME NEW q \in rulings'
        PROVE  \/ q.dispute_id = id /\ q = r
               \/ q.dispute_id # id /\ q \in rulings
    <3>1. q \in {o \in rulings : o.dispute_id # id} \cup {r}
      BY <2>1
    <3> QED  BY <3>1, <2>1
  <2>5. ASSUME NEW q \in rulings' PROVE Just(q)'
    <3>1. CASE q.dispute_id = id /\ q = r
      BY <3>1, <2>2, <2>3 DEF Just, SameCase
    <3>2. CASE q.dispute_id # id /\ q \in rulings
      BY <3>2, <1>0, <2>2 DEF Just
    <3> QED  BY <2>4, <3>1, <3>2
  <2> QED  BY <2>5 DEF RulingIsJust, Just
<1> QED
  BY <1>1, <1>2, <1>3, <1>4 DEF Next, vars, initialize, set_public_key, CloseLedger

LEMMA RulingsHold == Spec => [](TypeOK /\ Cases /\ RulingIffResolved /\ RulingIsJust)
  BY CasesHold, RulingInit, RulingStep, JustStep, PTL DEF Spec

\* Every ruling is just: by default only against a party that did not answer in
\* its window, otherwise by the proofs, which are their own parties'.
THEOREM RulingsAreJust == Spec => []RulingIsJust
  BY RulingsHold, PTL

-----------------------------------------------------------------------------
(* What a step may not do.                                                  *)

\* A ruling is never withdrawn or replaced, and a resolved dispute is closed.
THEOREM RulingsAreFinal == Spec => RulingIsFinal
<1>1. TypeOK /\ RulingIffResolved /\ [Next]_vars =>
         [/\ rulings \subseteq rulings'
          /\ \A id \in DOMAIN disputes : Resolved(id) => disputes'[id] = disputes[id]]_vars
  <2> SUFFICES ASSUME TypeOK, RulingIffResolved, [Next]_vars
               PROVE  /\ rulings \subseteq rulings'
                      /\ \A id \in DOMAIN disputes : Resolved(id) => disputes'[id] = disputes[id]
    OBVIOUS
  <2>1. CASE UNCHANGED <<disputes, rulings>>
    BY <2>1
  <2>2. ASSUME NEW i \in Parties, NEW r \in Parties, NEW tx \in TxIds, NEW p \in Proofs,
               raise_dispute(i, r, tx, p)
        PROVE  rulings' = rulings /\ \A j \in DOMAIN disputes : disputes'[j] = disputes[j]
    BY <2>2, RaiseEffect DEF raise_dispute
  <2>3. ASSUME NEW r \in Parties, NEW id \in DOMAIN disputes, NEW p \in Proofs,
               respond(r, id, p)
        PROVE  /\ rulings' = rulings /\ disputes[id].status = "Open"
               /\ \A j \in DOMAIN disputes \ {id} : disputes'[j] = disputes[j]
    BY <2>3, RespondEffect DEF respond
  <2>4. ASSUME NEW id \in DOMAIN disputes, resolve(id)
        PROVE  /\ rulings \subseteq rulings' /\ disputes[id].status # "Resolved"
               /\ \A j \in DOMAIN disputes \ {id} : disputes'[j] = disputes[j]
    <3>1. disputes[id].status # "Resolved"
      BY <2>4, ResolveEffect DEF Grounds
    <3>2. \A q \in rulings : q.dispute_id # id
      BY <3>1 DEF RulingIffResolved, Resolved, RulingsOf
    <3> QED  BY <2>4, <3>1, <3>2, ResolveEffect
  <2> QED
    BY <2>1, <2>2, <2>3, <2>4
    DEF Next, vars, initialize, set_public_key, CloseLedger, Resolved
<1> QED  BY <1>1, RulingsHold, PTL DEF Spec, RulingIsFinal

\* An open dispute changes only by its respondent's answer inside the window, or
\* by default once the window is over.
THEOREM WindowsAreRespected == Spec => WindowIsRespected
<1>1. TypeOK /\ [Next]_vars =>
         [\A id \in DOMAIN disputes :
            disputes[id].status = "Open" /\ disputes'[id] # disputes[id] =>
               IF ledger <= disputes[id].resolve_by
               THEN disputes'[id].status = "Responded" /\ signers' = {disputes[id].respondent}
               ELSE disputes'[id].status = "Resolved"]_vars
  <2> SUFFICES ASSUME TypeOK, [Next]_vars, NEW k \in DOMAIN disputes,
                      disputes[k].status = "Open", disputes'[k] # disputes[k]
               PROVE  IF ledger <= disputes[k].resolve_by
                      THEN /\ disputes'[k].status = "Responded"
                           /\ signers' = {disputes[k].respondent}
                      ELSE disputes'[k].status = "Resolved"
    OBVIOUS
  <2>1. ledger \in Int /\ disputes[k].resolve_by \in Int
    <3>1. ledger \in 0 .. MaxU32 /\ disputes[k].resolve_by \in 0 .. MaxU32
      BY RecordType DEF TypeOK, Dispute
    <3> QED  BY <3>1, DisputeAssumption
  <2>2. ASSUME NEW i \in Parties, NEW r \in Parties, NEW tx \in TxIds, NEW p \in Proofs,
               raise_dispute(i, r, tx, p)
        PROVE  FALSE
    BY <2>2, RaiseEffect
  <2>3. ASSUME NEW r \in Parties, NEW id \in DOMAIN disputes, NEW p \in Proofs,
               respond(r, id, p)
        PROVE  /\ ledger <= disputes[k].resolve_by /\ disputes'[k].status = "Responded"
               /\ signers' = {disputes[k].respondent}
    <3>1. k = id /\ disputes'[id].status = "Responded"
      BY <2>3, RespondEffect
    <3> QED  BY <2>3, <3>1 DEF respond, InTime
  <2>4. ASSUME NEW id \in DOMAIN disputes, resolve(id)
        PROVE  ledger > disputes[k].resolve_by /\ disputes'[k].status = "Resolved"
    BY <2>4, ResolveEffect DEF Grounds
  <2> QED
    BY <2>1, <2>2, <2>3, <2>4 DEF Next, vars, initialize, set_public_key, CloseLedger
<1> QED  BY <1>1, TypeInit, TypeStep, PTL DEF Spec, WindowIsRespected

-----------------------------------------------------------------------------
(* The refinement: one arbitration per transaction.                         *)

\* What the table, the index and the rulings say of the case of a transaction.
CaseIs(tx) ==
    LET id == tx_dispute[tx] IN
    IF id = 0
    THEN CaseParties(tx) = {} /\ CaseWinner(tx) = NoOne
    ELSE /\ CaseParties(tx) = {disputes[id].initiator, disputes[id].respondent}
         /\ RulingsOf(id) = {} => CaseWinner(tx) = NoOne
         /\ \A r \in rulings : RulingsOf(id) = {r} => CaseWinner(tx) = r.winner

LEMMA CaseFound == TypeOK /\ Cases => \A tx \in TxIds : CaseIs(tx)
<1> SUFFICES ASSUME TypeOK, Cases, NEW tx \in TxIds PROVE CaseIs(tx)
  OBVIOUS
<1> DEFINE id == tx_dispute[tx]
           mine == {e \in Range(disputes) : e.tx_id = tx}
<1>1. CASE id = 0
  <2>1. \A j \in DOMAIN disputes : disputes[j].tx_id # tx
    BY <1>1, RecordType DEF Cases, Recorded
  <2>2. mine = {}
    BY <2>1 DEF Range
  <2> QED  BY <1>1, <2>2 DEF CaseIs, CaseParties, CaseWinner
<1>2. CASE id # 0
  <2>1. id \in DOMAIN disputes /\ disputes[id].tx_id = tx
    BY <1>2 DEF Cases, Indexed, Raised
  <2>2. \A j \in DOMAIN disputes : disputes[j].tx_id = tx => j = id
    BY DEF Cases, Recorded
  <2>3. mine = {disputes[id]}
    BY <2>1, <2>2 DEF Range
  <2>4. CaseParties(tx) = {disputes[id].initiator, disputes[id].respondent}
    BY <2>3 DEF CaseParties
  <2>5. \A r \in rulings : RulingsOf(id) = {r} => CaseWinner(tx) = r.winner
    BY <1>2 DEF CaseWinner
  <2> QED  BY <1>2, <2>4, <2>5 DEF CaseIs, CaseWinner
<1> QED  BY <1>1, <1>2

LEMMA CaseFoundNext == (TypeOK /\ Cases)' => (\A tx \in TxIds : CaseIs(tx))'
  BY CaseFound, PTL

LEMMA CaseStep ==
    ASSUME TypeOK, Cases, RulingIffResolved, Cases', TypeOK', RulingIffResolved',
           [Next]_vars, NEW tx \in TxIds
    PROVE  [Case(tx)!Next]_(Case(tx)!vars)
<1>0. CaseIs(tx) /\ CaseIs(tx)'
  BY CaseFound, CaseFoundNext
<1>a. /\ \A j \in DOMAIN disputes : j # 0 /\ disputes[j].tx_id \in TxIds
      /\ tx_dispute \in [TxIds -> Nat]
      /\ Indexed(tx)
      /\ \A q \in rulings : RulingsOf(q.dispute_id) = {q}
  BY RecordType DEF TypeOK, Dispute, Cases, RulingIffResolved
<1>1. ASSUME tx_dispute'[tx] = tx_dispute[tx],
             NEW id, id = tx_dispute[tx],
             RulingsOf(id)' = RulingsOf(id),
             id # 0 => SameCase(id)
      PROVE  CaseParties(tx)' = CaseParties(tx) /\ CaseWinner(tx)' = CaseWinner(tx)
  <2>3. CASE id = 0
    BY <1>0, <1>1, <2>3 DEF CaseIs
  <2>4. CASE id # 0 /\ RulingsOf(id) = {}
    BY <1>0, <1>1, <2>4 DEF CaseIs, SameCase
  <2>5. ASSUME id # 0, NEW q \in RulingsOf(id)
        PROVE  CaseParties(tx)' = CaseParties(tx) /\ CaseWinner(tx)' = CaseWinner(tx)
    <3>1. q \in rulings /\ q \in rulings' /\ RulingsOf(id) = {q} /\ RulingsOf(id)' = {q}
      BY <1>1, <1>a, <2>5 DEF RulingsOf
    <3> QED  BY <1>0, <1>1, <2>5, <3>1 DEF CaseIs, SameCase
  <2> QED  BY <2>3, <2>4, <2>5
<1>b. ASSUME tx_dispute'[tx] = tx_dispute[tx], rulings' = rulings,
             tx_dispute[tx] # 0 => SameCase(tx_dispute[tx])
      PROVE  [Case(tx)!Next]_(Case(tx)!vars)
  BY <1>1, <1>b DEF RulingsOf, Case!vars
<1>2. CASE UNCHANGED <<disputes, tx_dispute, rulings>>
  BY <1>b, <1>2 DEF SameCase
<1>3. ASSUME NEW i \in Parties, NEW r \in Parties, NEW t \in TxIds, NEW p \in Proofs,
             raise_dispute(i, r, t, p)
      PROVE  [Case(tx)!Next]_(Case(tx)!vars)
  <2>0. PICK n : n = Len(disputes) + 1
    OBVIOUS
  <2>1. /\ n # 0 /\ n \notin DOMAIN disputes
        /\ disputes'[n].initiator = i /\ disputes'[n].respondent = r
        /\ disputes'[n].status = "Open" /\ n \in DOMAIN disputes'
        /\ \A j \in DOMAIN disputes : disputes'[j] = disputes[j]
    BY <1>3, <2>0, RaiseEffect
  <2>2. /\ i # r /\ tx_dispute[t] = 0 /\ rulings' = rulings /\ signers' = {i}
        /\ tx_dispute' = [tx_dispute EXCEPT ![t] = n]
    BY <1>3, <2>0 DEF raise_dispute, Undisputed
  <2>3. CASE t = tx
    <3>1. tx_dispute[tx] = 0 /\ tx_dispute'[tx] = n
      BY <1>a, <2>2, <2>3
    <3>2. RulingsOf(n)' = {}
      BY <2>1 DEF RulingIffResolved, Resolved
    <3>3. /\ CaseParties(tx) = {} /\ CaseWinner(tx) = NoOne
          /\ CaseParties(tx)' = {i, r} /\ CaseWinner(tx)' = NoOne
      BY <1>0, <2>1, <3>1, <3>2 DEF CaseIs
    <3> QED  BY <2>2, <3>3 DEF Case!Next, Case!Open
  <2>4. CASE t # tx
    <3>1. tx_dispute'[tx] = tx_dispute[tx]
      BY <1>a, <2>2, <2>4
    <3>2. tx_dispute[tx] # 0 => SameCase(tx_dispute[tx])
      BY <1>a, <2>1 DEF Indexed, Raised, SameCase
    <3> QED  BY <1>b, <2>2, <3>1, <3>2
  <2> QED  BY <2>3, <2>4
<1>4. ASSUME NEW r \in Parties, NEW id \in DOMAIN disputes, NEW p \in Proofs,
             respond(r, id, p)
      PROVE  [Case(tx)!Next]_(Case(tx)!vars)
  <2>1. SameCase(id) /\ \A j \in DOMAIN disputes \ {id} : disputes'[j] = disputes[j]
    BY <1>4, RespondEffect
  <2>2. tx_dispute' = tx_dispute /\ rulings' = rulings
    BY <1>4 DEF respond
  <2>3. tx_dispute[tx] # 0 => SameCase(tx_dispute[tx])
    BY <1>a, <2>1 DEF Indexed, Raised, SameCase
  <2> QED  BY <1>b, <2>2, <2>3
<1>5. ASSUME NEW id \in DOMAIN disputes, resolve(id)
      PROVE  [Case(tx)!Next]_(Case(tx)!vars)
  <2>1. PICK r \in Ruling :
          /\ r.dispute_id = id
          /\ rulings' = {q \in rulings : q.dispute_id # id} \cup {r}
          /\ \/ r.winner = disputes[id].initiator /\ r.loser = disputes[id].respondent
             \/ r.winner = disputes[id].respondent /\ r.loser = disputes[id].initiator
          /\ disputes[id].status # "Resolved"
    BY <1>5, ResolveEffect DEF Grounds
  <2>2. SameCase(id) /\ \A j \in DOMAIN disputes \ {id} : disputes'[j] = disputes[j]
    BY <1>5, ResolveEffect
  <2>3. tx_dispute' = tx_dispute
    BY <1>5 DEF resolve
  <2>4. RulingsOf(id) = {}
    BY <2>1 DEF RulingIffResolved, Resolved
  <2>5. r \in rulings' /\ RulingsOf(id)' = {r}
    BY <2>1 DEF RulingIffResolved
  <2>6. PICK k : k = tx_dispute[tx]
    OBVIOUS
  <2>7. CASE k = id
    <3>1. /\ CaseParties(tx) = {disputes[id].initiator, disputes[id].respondent}
          /\ CaseWinner(tx) = NoOne
      BY <1>0, <1>a, <2>4, <2>6, <2>7 DEF CaseIs
    <3>2. /\ CaseParties(tx)' = {disputes[id].initiator, disputes[id].respondent}
          /\ CaseWinner(tx)' = r.winner
      BY <1>0, <1>a, <2>2, <2>3, <2>5, <2>6, <2>7 DEF CaseIs, SameCase
    <3> QED  BY <2>1, <3>1, <3>2 DEF Case!Next, Case!Decide
  <2>8. CASE k # id
    <3>1. k # 0 => SameCase(k)
      BY <1>a, <2>2, <2>6, <2>8 DEF Indexed, Raised, SameCase
    <3>2. RulingsOf(k)' = RulingsOf(k)
      BY <2>1, <2>8 DEF RulingsOf
    <3> QED  BY <1>1, <2>3, <2>6, <3>1, <3>2 DEF Case!vars
  <2> QED  BY <2>7, <2>8
<1> QED
  BY <1>2, <1>3, <1>4, <1>5 DEF Next, vars, initialize, set_public_key, CloseLedger

\* The resolver implements the arbitration of every transaction: it is opened at
\* most once, by one of its parties, and decided at most once, for one of them.
THEOREM ResolverImplementsArbitration == Spec => EveryTxIsArbitrated
<1>1. Init => \A tx \in TxIds : Case(tx)!Init
  BY TypeInit, CasesInit, CaseFound DEF Init, CaseIs, Case!Init
<1>2. /\ TypeOK /\ Cases /\ RulingIffResolved
      /\ (TypeOK /\ Cases /\ RulingIffResolved)'
      /\ [Next]_vars
      => [\A tx \in TxIds : [Case(tx)!Next]_(Case(tx)!vars)]_vars
  BY CaseStep
<1> QED  BY <1>1, <1>2, RulingsHold, PTL DEF Spec, EveryTxIsArbitrated

=============================================================================
