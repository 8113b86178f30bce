---------------------------- MODULE VotingProofs ----------------------------
(***************************************************************************)
(* Proofs about the Voting specification, for every value of the          *)
(* constants that satisfies the assumptions of Voting.                     *)
(***************************************************************************)
EXTENDS Voting, FiniteSetTheorems, TLAPS

USE EndowmentAssumption, PeriodAssumption, BoundsAssumption,
    HashRankAssumption, InputAssumption

\* integer_sqrt returns a natural number: a cardinality of a finite set.
LEMMA ISqrtNat ==
  ASSUME NEW n \in Nat
  PROVE  ISqrt(n) \in Nat
<1>1. IsFiniteSet(1 .. n)
  BY FS_Interval
<1>2. IsFiniteSet({r \in 1 .. n : r * r <= n})
  BY <1>1, FS_Subset
<1>3. QED
  BY <1>2, FS_CardinalityType DEF ISqrt

(***************************************************************************)
(* SumOver(S, f), the sum of f over a finite set, is a natural number, is *)
(* monotone in f, and grows strictly when one term does.                   *)
(***************************************************************************)
PairSets(S, f) == {{x} \X (1 .. f[x]) : x \in S}

LEMMA PairSetFinite ==
  ASSUME NEW S, IsFiniteSet(S), NEW f \in [S -> Nat]
  PROVE  IsFiniteSet(UNION PairSets(S, f))
<1>1. [x \in S |-> {x} \X (1 .. f[x])] \in Surjection(S, PairSets(S, f))
  BY DEF Surjection, PairSets
<1>2. IsFiniteSet(PairSets(S, f))
  BY <1>1, FS_Surjection
<1>3. ASSUME NEW x \in S PROVE IsFiniteSet({x} \X (1 .. f[x]))
  <2>1. IsFiniteSet({x})
    BY FS_Singleton
  <2>2. IsFiniteSet(1 .. f[x])
    BY FS_Interval
  <2>3. QED
    BY <2>1, <2>2, FS_Product
<1>4. \A T \in PairSets(S, f) : IsFiniteSet(T)
  BY <1>3 DEF PairSets
<1>5. QED
  BY <1>2, <1>4, FS_UNION

LEMMA SumOverNat ==
  ASSUME NEW S, IsFiniteSet(S), NEW f \in [S -> Nat]
  PROVE  SumOver(S, f) \in Nat
BY PairSetFinite, FS_CardinalityType DEF SumOver, PairSets

LEMMA SumOverMono ==
  ASSUME NEW S, IsFiniteSet(S), NEW f \in [S -> Nat], NEW g \in [S -> Nat],
         \A x \in S : f[x] <= g[x]
  PROVE  SumOver(S, f) <= SumOver(S, g)
<1>1. UNION PairSets(S, f) \subseteq UNION PairSets(S, g)
  BY DEF PairSets
<1>2. QED
  BY <1>1, PairSetFinite, FS_Subset DEF SumOver, PairSets

LEMMA SumOverStrict ==
  ASSUME NEW S, IsFiniteSet(S), NEW f \in [S -> Nat], NEW g \in [S -> Nat],
         \A x \in S : f[x] <= g[x], NEW y \in S, f[y] < g[y]
  PROVE  SumOver(S, f) < SumOver(S, g)
<1> DEFINE A == UNION PairSets(S, f)
          B == UNION PairSets(S, g)
<1>1. A \subseteq B
  BY DEF PairSets
<1>2. A # B
  <2>1. <<y, g[y]>> \in B \ A
    BY DEF PairSets
  <2>2. QED
    BY <2>1
<1>3. IsFiniteSet(B)
  BY PairSetFinite
<1>4. /\ IsFiniteSet(A)
      /\ Cardinality(A) <= Cardinality(B)
      /\ Cardinality(B) = Cardinality(A) => B = A
  BY <1>1, <1>3, FS_Subset
<1>5. Cardinality(A) \in Nat /\ Cardinality(B) \in Nat
  BY <1>3, <1>4, FS_CardinalityType
<1>6. SumOver(S, f) = Cardinality(A) /\ SumOver(S, g) = Cardinality(B)
  BY DEF SumOver, PairSets
<1>7. QED
  BY <1>2, <1>4, <1>5, <1>6

\* A positive sum has a positive term.
LEMMA SumOverPositive ==
  ASSUME NEW S, NEW f \in [S -> Nat], SumOver(S, f) # 0
  PROVE  \E x \in S : f[x] # 0
<1>1. SUFFICES ASSUME \A x \in S : f[x] = 0 PROVE FALSE
  OBVIOUS
<1>2. UNION PairSets(S, f) = {}
  BY <1>1 DEF PairSets
<1>3. QED
  BY <1>2, FS_EmptySet DEF SumOver, PairSets

\* The index create_proposal assigns is a u32 key of Proposals.
LEMMA NextIndexInIndex ==
  ASSUME NEW c \in Nat
  PROVE  (c + 1) % IndexBound \in Index
BY DEF Index

\* Three natural numbers that sum to 0 are all 0.
LEMMA ZeroSum ==
  ASSUME NEW a \in Nat, NEW b \in Nat, NEW c \in Nat, a + b + c = 0
  PROVE  b = 0
OBVIOUS

\* The type invariant holds initially.
LEMMA InitTypeOK == Init => TypeOK
<1> SUFFICES ASSUME Init PROVE TypeOK
  OBVIOUS
<1>1. status \in [Index -> Status]
  BY DEF Init, Status
<1>2. ayeVotes \in [Index -> [Voter -> Nat]]
  BY DEF Init
<1>3. voted \in [Index -> SUBSET Voter]
  BY DEF Init
<1>4. QED
  BY <1>1, <1>2, <1>3 DEF Init, TypeOK

(***************************************************************************)
(* Every dispatchable keeps every table and balance within its type.      *)
(***************************************************************************)
LEMMA NextTypeOK == TypeOK /\ [Next]_vars => TypeOK'
<1> SUFFICES ASSUME TypeOK, [Next]_vars PROVE TypeOK'
  OBVIOUS
<1>1. ASSUME NEW v \in Voter, NEW fee \in RegisterFees, RegisterVoter(v, fee)
      PROVE  TypeOK'
  BY <1>1 DEF RegisterVoter, TypeOK
<1>2. ASSUME NEW v \in Voter, CreateProposal(v)
      PROVE  TypeOK'
  BY <1>2, NextIndexInIndex DEF CreateProposal, TypeOK, Status
<1>3. ASSUME NEW v \in Voter, NEW i \in Index, NEW fee \in Amounts,
             StartProposal(v, i, fee)
      PROVE  TypeOK'
  BY <1>3 DEF StartProposal, GetVoterBalance, TypeOK, Status
<1>4. ASSUME NEW v \in Voter, NEW a \in Amounts, ReserveTokens(v, a)
      PROVE  TypeOK'
  BY <1>4 DEF ReserveTokens, GetVoterBalance, TypeOK
<1>5. ASSUME NEW v \in Voter, NEW a \in Amounts, UnreserveTokens(v, a)
      PROVE  TypeOK'
  BY <1>5 DEF UnreserveTokens, TypeOK
<1>6. ASSUME NEW v \in Voter, NEW i \in Index, VoteProposalEnded(v, i)
      PROVE  TypeOK'
  BY <1>6 DEF VoteProposalEnded, TypeOK, Status
<1>7. ASSUME NEW v \in Voter, NEW i \in Index, VoteProposalAye(v, i)
      PROVE  TypeOK'
  <2>1. ISqrt(reserved[v]) \in Nat
    BY ISqrtNat DEF TypeOK
  <2>2. QED
    BY <1>7, <2>1 DEF VoteProposalAye, GetVoterBalance, TypeOK
<1>8. ASSUME NEW v \in Voter, NEW items \in Batches, VoteMultipleEnded(v, items)
      PROVE  TypeOK'
  BY <1>8 DEF VoteMultipleEnded, TypeOK, Status
<1>9. ASSUME NEW v \in Voter, NEW items \in Batches, VoteMultipleAye(v, items)
      PROVE  TypeOK'
  BY <1>9 DEF VoteMultipleAye, GetVoterBalance, TypeOK
<1>10. CASE AdvanceBlock
  BY <1>10 DEF AdvanceBlock, TypeOK
<1>11. CASE UNCHANGED vars
  BY <1>11 DEF vars, TypeOK
<1>12. QED
  BY <1>1, <1>2, <1>3, <1>4, <1>5, <1>6, <1>7, <1>8, <1>9, <1>10, <1>11
  DEF Next

\* Type correctness of the pallet: TypeOK holds in every reachable state.
THEOREM TypeCorrect == Spec => []TypeOK
BY InitTypeOK, NextTypeOK, PTL DEF Spec

(***************************************************************************)
(* Conservation.  BalanceConservation is inductive once the balances are  *)
(* known to be natural numbers, so the inductive invariant is TypeOK and  *)
(* BalanceConservation together.  The step for register_voter needs that  *)
(* an unregistered account holds nothing, which the invariant gives: three *)
(* naturals summing to 0 are all 0.                                        *)
(***************************************************************************)
IInv == TypeOK /\ BalanceConservation

LEMMA InitIInv == Init => IInv
BY InitTypeOK DEF Init, IInv, BalanceConservation

LEMMA NextIInv == IInv /\ [Next]_vars => IInv'
<1> SUFFICES ASSUME IInv, [Next]_vars PROVE BalanceConservation'
  BY NextTypeOK DEF IInv
<1> USE DEF IInv, TypeOK, BalanceConservation
<1>1. ASSUME NEW v \in Voter, NEW fee \in RegisterFees, RegisterVoter(v, fee)
      PROVE  BalanceConservation'
  <2>1. free[v] + reserved[v] + spent[v] = 0
    BY <1>1 DEF RegisterVoter
  <2>2. free[v] \in Nat /\ reserved[v] \in Nat /\ spent[v] \in Nat
    OBVIOUS
  <2>3. reserved[v] = 0
    BY <2>1, <2>2, ZeroSum
  <2> SUFFICES ASSUME NEW w \in Voter
               PROVE  free'[w] + reserved'[w] + spent'[w]
                        = IF w \in registered' THEN Endowment ELSE 0
    OBVIOUS
  <2>4. CASE w = v
    BY <1>1, <2>3, <2>4 DEF RegisterVoter
  <2>5. CASE w # v
    BY <1>1, <2>5 DEF RegisterVoter
  <2>6. QED
    BY <2>4, <2>5
<1>2. ASSUME NEW v \in Voter, CreateProposal(v)
      PROVE  BalanceConservation'
  BY <1>2 DEF CreateProposal
<1>3. ASSUME NEW v \in Voter, NEW i \in Index, NEW fee \in Amounts,
             StartProposal(v, i, fee)
      PROVE  BalanceConservation'
  BY <1>3 DEF StartProposal, GetVoterBalance
<1>4. ASSUME NEW v \in Voter, NEW a \in Amounts, ReserveTokens(v, a)
      PROVE  BalanceConservation'
  BY <1>4 DEF ReserveTokens, GetVoterBalance
<1>5. ASSUME NEW v \in Voter, NEW a \in Amounts, UnreserveTokens(v, a)
      PROVE  BalanceConservation'
  BY <1>5 DEF UnreserveTokens
<1>6. ASSUME NEW v \in Voter, NEW i \in Index, VoteProposalEnded(v, i)
      PROVE  BalanceConservation'
  BY <1>6 DEF VoteProposalEnded
<1>7. ASSUME NEW v \in Voter, NEW i \in Index, VoteProposalAye(v, i)
      PROVE  BalanceConservation'
  BY <1>7 DEF VoteProposalAye, GetVoterBalance
<1>8. ASSUME NEW v \in Voter, NEW items \in Batches, VoteMultipleEnded(v, items)
      PROVE  BalanceConservation'
  BY <1>8 DEF VoteMultipleEnded
<1>9. ASSUME NEW v \in Voter, NEW items \in Batches, VoteMultipleAye(v, items)
      PROVE  BalanceConservation'
  BY <1>9 DEF VoteMultipleAye, GetVoterBalance
<1>10. CASE AdvanceBlock
  BY <1>10 DEF AdvanceBlock
<1>11. CASE UNCHANGED vars
  BY <1>11 DEF vars
<1>12. QED
  BY <1>1, <1>2, <1>3, <1>4, <1>5, <1>6, <1>7, <1>8, <1>9, <1>10, <1>11
  DEF Next

(***************************************************************************)
(* No dispatchable creates or destroys a voter's tokens except by the     *)
(* registration fee, the start fee and the unreserve slash: free plus     *)
(* reserved plus what those consumed is the endowment, in every state.     *)
(***************************************************************************)
THEOREM TokensConserved == Spec => []BalanceConservation
<1>1. Spec => []IInv
  BY InitIInv, NextIInv, PTL DEF Spec
<1>2. QED
  BY <1>1, PTL DEF IInv
=============================================================================
