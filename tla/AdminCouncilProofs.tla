------------------------- MODULE AdminCouncilProofs -------------------------
(* What a transaction that passes require_council_auth has proved about its *)
(* signers.                                                                 *)
EXTENDS AdminCouncil, FiniteSetTheorems, TLAPS

People(c) == {c.members[i] : i \in DOMAIN c.members}

\* How many of the seats are filled by somebody who is listed already.
Repeats(c) == Len(c.members) - Cardinality(People(c))

LEMMA CouncilIsFinite ==
    ASSUME NEW A, NEW c \in [members : Seq(A), threshold : Nat]
    PROVE  /\ Len(c.members) \in Nat /\ DOMAIN c.members = 1 .. Len(c.members)
           /\ IsFiniteSet(DOMAIN c.members)
           /\ IsFiniteSet(People(c))
<1>1. Len(c.members) \in Nat /\ DOMAIN c.members = 1 .. Len(c.members)
  OBVIOUS
<1>2. IsFiniteSet(DOMAIN c.members)
  BY <1>1, FS_Interval
<1>3. [i \in DOMAIN c.members |-> c.members[i]] \in Surjection(DOMAIN c.members, People(c))
  BY DEF Surjection, People
<1>4. IsFiniteSet(People(c))
  BY <1>2, <1>3, FS_Surjection
<1> QED  BY <1>1, <1>2, <1>4

\* The seats that the loop asks are among those that signed.
LEMMA SeatsSigned ==
    ASSUME NEW A, NEW c \in [members : Seq(A), threshold : Nat], NEW signers,
           RequireCouncilAuth(c, signers)
    PROVE  Quorum(c, signers)
<1> DEFINE first == 1 .. c.threshold
           signed == SignedSeats(c, signers)
<1>1. first \subseteq signed
  BY CouncilIsFinite DEF RequireCouncilAuth, SignedSeats
<1>2. IsFiniteSet(signed)
  <2>1. signed \subseteq DOMAIN c.members
    BY DEF SignedSeats
  <2> QED  BY <2>1, CouncilIsFinite, FS_Subset
<1>3. Cardinality(first) = c.threshold
  BY FS_Interval
<1>4. Cardinality(first) <= Cardinality(signed)
  BY <1>1, <1>2, FS_Subset
<1> QED  BY <1>3, <1>4 DEF Quorum, RequireCouncilAuth

\* The seats that it does not ask are too few to hide more of the people than
\* there are repeats.
LEMMA PeopleSigned ==
    ASSUME NEW A, NEW c \in [members : Seq(A), threshold : Nat], NEW signers,
           RequireCouncilAuth(c, signers)
    PROVE  Cardinality(Signatories(c, signers)) >= c.threshold - Repeats(c)
<1> DEFINE size == Len(c.members)
           first == 1 .. c.threshold
           rest == c.threshold + 1 .. size
           asked == {c.members[i] : i \in first}
           others == {c.members[i] : i \in rest}
           signed == Signatories(c, signers)
<1>1. /\ size \in Nat /\ c.threshold \in Nat /\ c.threshold <= size
      /\ first \cup rest = DOMAIN c.members
      /\ IsFiniteSet(People(c))
  BY CouncilIsFinite DEF RequireCouncilAuth
<1>2. /\ Cardinality(first) = c.threshold /\ IsFiniteSet(first)
      /\ Cardinality(rest) = size - c.threshold /\ IsFiniteSet(rest)
  <2> DEFINE t == c.threshold
  <2>1. t \in Nat /\ size \in Nat /\ t <= size
    BY <1>1
  <2> HIDE DEF t, size
  <2>2. /\ IsFiniteSet(1 .. t) /\ IsFiniteSet(t + 1 .. size)
        /\ Cardinality(1 .. t) = IF 1 > t THEN 0 ELSE t - 1 + 1
        /\ Cardinality(t + 1 .. size) = IF t + 1 > size THEN 0 ELSE size - (t + 1) + 1
    <3>1. 1 \in Int /\ t \in Int /\ t + 1 \in Int /\ size \in Int
      BY <2>1
    <3> QED  BY <3>1, FS_Interval
  <2>3. Cardinality(1 .. t) = t
    BY <2>1, <2>2
  <2>4. Cardinality(t + 1 .. size) = size - t
    BY <2>1, <2>2
  <2> QED  BY <2>2, <2>3, <2>4 DEF t
<1>3. People(c) = asked \cup others
  BY <1>1 DEF People
<1>4. IsFiniteSet(asked) /\ IsFiniteSet(others)
  <2>1. asked \in SUBSET People(c) /\ others \in SUBSET People(c)
    BY <1>3
  <2> HIDE DEF asked, others
  <2> QED  BY <1>1, <2>1, FS_Subset
<1>5. Cardinality(others) <= size - c.threshold
  <2>1. [i \in rest |-> c.members[i]] \in Surjection(rest, others)
    BY DEF Surjection
  <2> QED  BY <1>2, <2>1, FS_Surjection
<1>6. Cardinality(People(c)) <= Cardinality(asked) + Cardinality(others)
  <2>1. /\ Cardinality(asked \cup others) =
              Cardinality(asked) + Cardinality(others) - Cardinality(asked \cap others)
        /\ IsFiniteSet(asked \cap others)
    BY <1>4, FS_Union, FS_Subset
  <2>2. Cardinality(asked \cap others) \in Nat /\ Cardinality(asked) \in Nat
        /\ Cardinality(others) \in Nat
    BY <1>4, <2>1, FS_CardinalityType
  <2> QED  BY <1>3, <2>1, <2>2
<1>7. Cardinality(asked) <= Cardinality(signed) /\ IsFiniteSet(signed)
  <2>1. asked \subseteq signed
    BY <1>1 DEF RequireCouncilAuth, Signatories
  <2>2. signed \subseteq People(c)
    BY DEF Signatories, People
  <2> QED  BY <1>1, <2>1, <2>2, FS_Subset
<1>8. /\ Cardinality(asked) \in Nat /\ Cardinality(others) \in Nat
      /\ Cardinality(People(c)) \in Nat /\ Cardinality(signed) \in Nat
  BY <1>1, <1>4, <1>7, FS_CardinalityType
<1> HIDE DEF asked, others, signed, size
<1>9. Cardinality(signed) >= c.threshold - (size - Cardinality(People(c)))
  BY <1>1, <1>5, <1>6, <1>7, <1>8
<1> QED  BY <1>9 DEF Repeats, size, signed

\* When the loop of require_council_auth lets a transaction pass, threshold seats
\* of an existing council have approved it, and threshold different people, less
\* one for every seat that repeats a member.  A council that lists nobody twice
\* has its M signatures; of any other the code ensures no more than this.
THEOREM AuthIsQuorum ==
    ASSUME NEW A, NEW c \in [members : Seq(A), threshold : Nat], NEW signers,
           RequireCouncilAuth(c, signers)
    PROVE  /\ Quorum(c, signers)
           /\ Cardinality(Signatories(c, signers)) >= c.threshold - Repeats(c)
  BY SeatsSigned, PeopleSigned

=============================================================================
