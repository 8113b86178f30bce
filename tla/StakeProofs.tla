----------------------------- MODULE StakeProofs -----------------------------
(***************************************************************************)
(* The quadratic cap: no voter's aye weight on a proposal exceeds          *)
(* isqrt(Endowment) (WeightWithinStake).  The runs batch_duplicate_index  *)
(* and batch_amount_wrap break it with a batch that repeats an Aye index  *)
(* and with a batch whose amount sum wraps.  Proved here, for every value *)
(* of the constants and batches of any length, is that these are the only *)
(* ways: a step from a state within the cap that leaves it is a batch vote *)
(* with one of the two flaws (CapBrokenOnlyByFlawedBatch).                 *)
(*                                                                         *)
(* The invariant it rests on, KInv, adds to TokensConserved's IInv that an *)
(* account without a vote key on a proposal has weight 0 there.  Both vote *)
(* calls refuse a voter who already has the key, so a vote stores isqrt   *)
(* of one amount on a record that was 0; the amount is at most the        *)
(* reserved balance (for a batch without wrap, one term of the sum that   *)
(* the reserve covers), which BalanceConservation bounds by the endowment. *)
(***************************************************************************)
EXTENDS VotingProofs

USE EndowmentAssumption, PeriodAssumption, BoundsAssumption, VoterAssumption,
    HashRankAssumption, InputAssumption

\* AyeVotes has a value only under a key that contains_key sees.
NoRecordWithoutKey ==
  \A i \in Index, v \in Voter : v \notin voted[i] => ayeVotes[i][v] = 0

KInv == IInv /\ NoRecordWithoutKey

\* isqrt is monotone.
LEMMA ISqrtMono ==
  ASSUME NEW n \in Nat, NEW m \in Nat, n <= m
  PROVE  ISqrt(n) <= ISqrt(m)
<1>1. IsFiniteSet({r \in 1 .. m : r * r <= m})
  BY FS_Interval, FS_Subset
<1>2. {r \in 1 .. n : r * r <= n} \subseteq {r \in 1 .. m : r * r <= m}
  OBVIOUS
<1>3. QED
  BY <1>1, <1>2, FS_Subset DEF ISqrt

\* The pairs counted for one element x with value n are n pairs.
LEMMA PairCount ==
  ASSUME NEW x, NEW n \in Nat
  PROVE  IsFiniteSet({x} \X (1 .. n)) /\ Cardinality({x} \X (1 .. n)) = n
<1>1. IsFiniteSet({x}) /\ Cardinality({x}) = 1
  BY FS_Singleton
<1>2. IsFiniteSet(1 .. n) /\ Cardinality(1 .. n) = IF 1 > n THEN 0 ELSE n - 1 + 1
  BY FS_Interval
<1>3. Cardinality(1 .. n) = n
  BY <1>2
<1>4. IsFiniteSet({x} \X (1 .. n))
      /\ Cardinality({x} \X (1 .. n)) = Cardinality({x}) * Cardinality(1 .. n)
  BY <1>1, <1>2, FS_Product
<1>5. QED
  BY <1>1, <1>3, <1>4

\* A sum over one element is that element's value.
LEMMA SumOverSingleton ==
  ASSUME NEW x, NEW f \in [{x} -> Nat]
  PROVE  SumOver({x}, f) = f[x]
<1>1. UNION {{y} \X (1 .. f[y]) : y \in {x}} = {x} \X (1 .. f[x])
  OBVIOUS
<1>2. QED
  BY <1>1, PairCount DEF SumOver

\* One term of a sum of naturals is at most the sum.
LEMMA SumOverTerm ==
  ASSUME NEW S, IsFiniteSet(S), NEW f \in [S -> Nat], NEW x \in S
  PROVE  f[x] <= SumOver(S, f)
<1>1. {x} \X (1 .. f[x]) \subseteq UNION PairSets(S, f)
  BY DEF PairSets
<1>2. IsFiniteSet(UNION PairSets(S, f))
  BY PairSetFinite
<1>3. Cardinality({x} \X (1 .. f[x])) <= Cardinality(UNION PairSets(S, f))
  BY <1>1, <1>2, FS_Subset
<1>4. QED
  BY <1>3, PairCount DEF SumOver, PairSets

\* Every reserved balance is at most the endowment.
LEMMA ReservedWithinEndowment ==
  ASSUME IInv, NEW v \in Voter
  PROVE  reserved[v] <= Endowment
BY DEF IInv, TypeOK, BalanceConservation

\* An item of a batch that passes the checks without a wrapping amount sum
\* has an amount within the endowment, so its isqrt is within the cap.
LEMMA ItemWithinCap ==
  ASSUME IInv, NEW v \in Voter, NEW items \in Batches, BatchChecks(v, items),
         ~AmountSumWraps(items), NEW k \in DOMAIN items
  PROVE  /\ items[k].amount \in Nat
         /\ ISqrt(items[k].amount) <= ISqrt(Endowment)
<1> DEFINE amt == [j \in DOMAIN items |-> items[j].amount]
           sum == SumOver(DOMAIN items, amt)
<1>1. PICK n \in 1 .. MaxBatch : items \in [1 .. n -> BatchItem]
  BY DEF Batches
<1>2. IsFiniteSet(DOMAIN items)
  BY <1>1, FS_Interval
<1>3. amt \in [DOMAIN items -> Nat]
  <2>1. ASSUME NEW j \in DOMAIN items PROVE items[j].amount \in Nat
    <3>1. items[j].amount \in Amounts
      BY <1>1 DEF BatchItem
    <3>2. Amounts \subseteq Nat
      BY InputAssumption
    <3>3. QED
      BY <3>1, <3>2, Zenon
  <2>2. QED
    BY <2>1
<1>4. sum \in Nat /\ amt[k] <= sum
  BY <1>2, <1>3, SumOverNat, SumOverTerm
<1>5. sum < BalanceBound
  BY <1>4 DEF AmountSumWraps
<1>6. BatchAmount(items) = sum
  BY <1>4, <1>5 DEF BatchAmount
<1>7. reserved[v] >= BatchAmount(items) /\ reserved[v] <= Endowment
  BY ReservedWithinEndowment DEF BatchChecks
<1>8. items[k].amount \in Nat /\ items[k].amount <= Endowment
  BY <1>3, <1>4, <1>6, <1>7 DEF IInv, TypeOK
<1>9. QED
  BY <1>8, ISqrtMono, EndowmentAssumption

\* A step that leaves the vote records and their keys alone keeps both.
LEMMA VotesFrame ==
  ASSUME ayeVotes' = ayeVotes, voted' = voted
  PROVE  /\ NoRecordWithoutKey => NoRecordWithoutKey'
         /\ WeightWithinStake => WeightWithinStake'
BY DEF NoRecordWithoutKey, WeightWithinStake


LEMMA InitKInv == Init => KInv
BY InitIInv DEF Init, KInv, NoRecordWithoutKey

\* Both vote paths add the caller to the keys of every record they write.
LEMMA NextKInv == KInv /\ [Next]_vars => KInv'
<1> SUFFICES ASSUME KInv, [Next]_vars PROVE KInv'
  OBVIOUS
<1>0. IInv' /\ TypeOK
  BY NextIInv DEF KInv, IInv
<1> SUFFICES NoRecordWithoutKey'
  BY <1>0 DEF KInv
<1> USE DEF KInv
<1>1. CASE \E v \in Voter, i \in Index : VoteProposalAye(v, i)
  <2>1. PICK v \in Voter, i \in Index : VoteProposalAye(v, i)
    BY <1>1
  <2>2. /\ ayeVotes' = [ayeVotes EXCEPT ![i][v] = @ + ISqrt(reserved[v])]
        /\ voted' = [voted EXCEPT ![i] = @ \cup {v}]
    BY <2>1 DEF VoteProposalAye
  <2>3. QED
    BY <2>2, <1>0 DEF NoRecordWithoutKey, TypeOK
<1>2. CASE \E v \in Voter, items \in Batches : VoteMultipleAye(v, items)
  <2>1. PICK v \in Voter, items \in Batches : VoteMultipleAye(v, items)
    BY <1>2
  <2> DEFINE targets == {i \in Index : AyeItems(items, i) # {}}
  <2>2. /\ ayeVotes' = [i \in Index |->
                          IF i \in targets
                            THEN [ayeVotes[i] EXCEPT ![v] = BatchWeight(v, items, i)]
                            ELSE ayeVotes[i]]
        /\ voted' = [i \in Index |-> IF i \in targets THEN voted[i] \cup {v}
                                                       ELSE voted[i]]
    BY <2>1 DEF VoteMultipleAye
  <2>3. QED
    BY <2>2, <1>0 DEF NoRecordWithoutKey, TypeOK
<1>3. CASE ayeVotes' = ayeVotes /\ voted' = voted
  BY <1>3, VotesFrame
<1>4. QED
  BY <1>1, <1>2, <1>3
  DEF Next, vars, RegisterVoter, CreateProposal, StartProposal, ReserveTokens,
      UnreserveTokens, VoteProposalEnded, VoteMultipleEnded, AdvanceBlock

\* A batch without a repeated Aye index has at most one Aye item per index.
LEMMA OneAyeItem ==
  ASSUME NEW items \in Batches, ~RepeatsAyeIndex(items), NEW j,
         AyeItems(items, j) # {}
  PROVE  \E k \in DOMAIN items : AyeItems(items, j) = {k}
<1>1. PICK k \in AyeItems(items, j) : TRUE
  OBVIOUS
<1>2. \A k2 \in AyeItems(items, j) : k2 = k
  BY <1>1 DEF RepeatsAyeIndex, AyeItems
<1>3. QED
  BY <1>1, <1>2 DEF AyeItems

\* A step from within the cap that is not a flawed batch vote stays within it.
LEMMA NextCap ==
  ASSUME KInv, WeightWithinStake, [Next]_vars, ~FlawedBatchVote
  PROVE  WeightWithinStake'
<1> USE DEF KInv
<1>0. TypeOK /\ ISqrt(Endowment) \in Nat
  BY ISqrtNat, EndowmentAssumption DEF IInv
<1>1. CASE \E v \in Voter, i \in Index : VoteProposalAye(v, i)
  <2>1. PICK v \in Voter, i \in Index : VoteProposalAye(v, i)
    BY <1>1
  <2>2. ayeVotes[i][v] = 0
    BY <2>1 DEF VoteProposalAye, NoRecordWithoutKey
  <2>3. ISqrt(reserved[v]) <= ISqrt(Endowment) /\ ISqrt(reserved[v]) \in Nat
    BY <1>0, ReservedWithinEndowment, ISqrtMono, ISqrtNat, EndowmentAssumption
    DEF TypeOK
  <2>4. ayeVotes' = [ayeVotes EXCEPT ![i][v] = 0 + ISqrt(reserved[v])]
    BY <2>1, <2>2 DEF VoteProposalAye
  <2>5. QED
    BY <1>0, <2>3, <2>4 DEF WeightWithinStake, TypeOK
<1>2. CASE \E v \in Voter, items \in Batches : VoteMultipleAye(v, items)
  <2>1. PICK v \in Voter, items \in Batches : VoteMultipleAye(v, items)
    BY <1>2
  <2> DEFINE targets == {i \in Index : AyeItems(items, i) # {}}
  <2>2. ~RepeatsAyeIndex(items) /\ ~AmountSumWraps(items)
    BY <2>1 DEF FlawedBatchVote
  <2>3. ayeVotes' = [i \in Index |->
                       IF i \in targets
                         THEN [ayeVotes[i] EXCEPT ![v] = BatchWeight(v, items, i)]
                         ELSE ayeVotes[i]]
    BY <2>1 DEF VoteMultipleAye
  <2>4. ASSUME NEW j \in targets
        PROVE  BatchWeight(v, items, j) <= ISqrt(Endowment)
    <3>1. PICK k \in DOMAIN items : AyeItems(items, j) = {k}
      BY <2>2, OneAyeItem
    <3>2. items[k].idx = j
      BY <3>1 DEF AyeItems
    <3>3. ayeVotes[j][v] = 0
      BY <2>1, <3>2 DEF VoteMultipleAye, BatchChecks, NoRecordWithoutKey
    <3>4. items[k].amount \in Nat /\ ISqrt(items[k].amount) <= ISqrt(Endowment)
      BY <2>1, <2>2, ItemWithinCap DEF VoteMultipleAye
    <3>5. ISqrt(items[k].amount) \in Nat
      BY <3>4, ISqrtNat
    <3>6. SumOver({k}, [x \in {k} |-> ISqrt(items[x].amount)]) = ISqrt(items[k].amount)
      <4>1. [x \in {k} |-> ISqrt(items[x].amount)] \in [{k} -> Nat]
        BY <3>5
      <4>2. QED
        BY <4>1, SumOverSingleton
    <3>7. SumOver(AyeItems(items, j), [x \in AyeItems(items, j) |-> ISqrt(items[x].amount)])
          = SumOver({k}, [x \in {k} |-> ISqrt(items[x].amount)])
      BY <3>1
    <3>8. BatchWeight(v, items, j)
          = ayeVotes[j][v] + SumOver(AyeItems(items, j),
                                     [x \in AyeItems(items, j) |-> ISqrt(items[x].amount)])
      BY DEF BatchWeight
    <3>9. QED
      BY <1>0, <3>3, <3>4, <3>5, <3>6, <3>7, <3>8
  <2>5. QED
    BY <1>0, <2>3, <2>4 DEF WeightWithinStake, TypeOK
<1>3. CASE ayeVotes' = ayeVotes /\ voted' = voted
  BY <1>3, VotesFrame
<1>4. QED
  BY <1>1, <1>2, <1>3
  DEF Next, vars, RegisterVoter, CreateProposal, StartProposal, ReserveTokens,
      UnreserveTokens, VoteProposalEnded, VoteMultipleEnded, AdvanceBlock

(***************************************************************************)
(* For every value of the constants and batches of any length: a step that *)
(* takes an aye record past isqrt(Endowment), from a state where none was, *)
(* is a vote_multiple_proposals call whose batch lists one proposal in two *)
(* Aye items or whose amounts sum past the Balance width.  vote_proposal,  *)
(* and every batch without these flaws, keep the quadratic cap.            *)
(***************************************************************************)
THEOREM CapBrokenOnlyByFlawedBatchHolds == Spec => CapBrokenOnlyByFlawedBatch
<1>1. KInv /\ [Next]_vars => [CapStep]_vars
  BY NextCap DEF CapStep
<1>2. Spec => []KInv
  BY InitKInv, NextKInv, PTL DEF Spec
<1>3. QED
  BY <1>1, <1>2, PTL DEF Spec, CapBrokenOnlyByFlawedBatch
====
