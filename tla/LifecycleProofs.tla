--------------------------- MODULE LifecycleProofs ---------------------------
(***************************************************************************)
(* Proofs that hold while create_proposal stays below the u32 wrap of      *)
(* count() + 1 (NoWrap): vote records live only on started proposals, and *)
(* the pallet implements the abstract proposal lifecycle.                  *)
(*                                                                         *)
(* Both rest on CountInv: the keys of Proposals are exactly 1..count.  It  *)
(* is what makes the index of create_proposal fresh; without NoWrap it     *)
(* fails (run index_wrap_reuse).                                           *)
(***************************************************************************)
EXTENDS VotingProofs

USE EndowmentAssumption, PeriodAssumption, BoundsAssumption, VoterAssumption,
    HashRankAssumption, InputAssumption

CountInv ==
  /\ count \in 0 .. MaxProposals
  /\ \A i \in Index : status[i] # "Absent" <=> i \in 1 .. count

RInv == TypeOK /\ CountInv /\ VoteRecordsOnStartedProposals

LEMMA InitRInv == Init => RInv
<1> SUFFICES ASSUME Init PROVE RInv
  OBVIOUS
<1>1. CountInv
  BY DEF Init, CountInv
<1>2. VoteRecordsOnStartedProposals
  BY DEF Init, VoteRecordsOnStartedProposals
<1>3. QED
  BY <1>1, <1>2, InitTypeOK DEF RInv

(***************************************************************************)
(* A step that neither creates a proposal nor touches the vote records     *)
(* keeps CountInv and VoteRecordsOnStartedProposals when it only moves      *)
(* existing proposals to InProgress or Completed.                          *)
(***************************************************************************)
LEMMA StatusOnlyAdvances ==
  ASSUME RInv, TypeOK',
         count' = count, voted' = voted, ayeVotes' = ayeVotes,
         \A i \in Index : status'[i] = status[i]
                          \/ (status[i] # "Absent"
                              /\ status'[i] \in {"InProgress", "Completed"})
  PROVE  RInv'
<1> USE DEF RInv
<1>1. CountInv'
  BY DEF CountInv
<1>2. VoteRecordsOnStartedProposals'
  BY DEF VoteRecordsOnStartedProposals
<1>3. QED
  BY <1>1, <1>2

(***************************************************************************)
(* Below the wrap, create_proposal writes the fresh key count + 1 and the *)
(* counter of the CountedStorageMap moves to it.                           *)
(***************************************************************************)
LEMMA CreateFresh ==
  ASSUME NoWrap, RInv, NEW v \in Voter, CreateProposal(v)
  PROVE  /\ count + 1 \in Index
         /\ status[count + 1] = "Absent"
         /\ count' = count + 1
         /\ status' = [status EXCEPT ![count + 1] = "NotStarted"]
         /\ endBlock' = [endBlock EXCEPT ![count + 1] = now + VotingPeriod]
         /\ UNCHANGED <<ayeVotes, voted, now>>
<1> USE DEF RInv
<1>1. count \in 0 .. (MaxProposals - 1)
  BY DEF CreateProposal, CountInv
<1>2. count + 1 \in 1 .. (IndexBound - 1)
  BY <1>1 DEF NoWrap
<1>3. count + 1 \in Index /\ (count + 1) % IndexBound = count + 1
  <2>1. count + 1 \in Index
    BY <1>2 DEF Index
  <2>2. (count + 1) % IndexBound = count + 1
    BY <1>2, IndexBound \in Nat \ {0}
  <2>3. QED
    BY <2>1, <2>2
<1>4. status[count + 1] = "Absent"
  BY <1>1, <1>3 DEF CountInv
<1>5. count < IndexBound - 1
  BY <1>1, <1>2
<1>6. count' = count + 1
  BY <1>3, <1>4, <1>5 DEF CreateProposal
<1>7. /\ status' = [status EXCEPT ![count + 1] = "NotStarted"]
      /\ endBlock' = [endBlock EXCEPT ![count + 1] = now + VotingPeriod]
      /\ UNCHANGED <<ayeVotes, voted, now>>
  BY <1>3 DEF CreateProposal
<1>8. QED
  BY <1>3, <1>4, <1>6, <1>7

LEMMA NextRInv ==
  ASSUME NoWrap, RInv, [Next]_vars
  PROVE  RInv'
<1> USE DEF RInv
<1>0. TypeOK'
  BY NextTypeOK
<1>1. ASSUME NEW v \in Voter, NEW fee \in RegisterFees, RegisterVoter(v, fee)
      PROVE  RInv'
  BY <1>0, <1>1, StatusOnlyAdvances DEF RegisterVoter
<1>2. ASSUME NEW v \in Voter, CreateProposal(v)
      PROVE  RInv'
  <2> DEFINE idx == count + 1
  <2>1. count \in 0 .. (MaxProposals - 1)
    BY <1>2 DEF CreateProposal, CountInv
  <2>2. idx \in Index
    BY <1>2, CreateFresh
  <2>3. status[idx] = "Absent"
    BY <1>2, CreateFresh
  <2>4. count' = idx
    BY <1>2, CreateFresh
  <2>5. status' = [status EXCEPT ![idx] = "NotStarted"]
    BY <1>2, CreateFresh
  <2>6. CountInv'
    <3>1. count' \in 0 .. MaxProposals
      BY <2>1, <2>4
    <3>2. ASSUME NEW i \in Index
          PROVE  status'[i] # "Absent" <=> i \in 1 .. count'
      <4>1. CASE i = idx
        BY <2>2, <2>4, <2>5, <4>1 DEF TypeOK
      <4>2. CASE i # idx
        <5>1. status'[i] = status[i]
          BY <2>5, <4>2 DEF TypeOK
        <5>2. status[i] # "Absent" <=> i \in 1 .. count
          BY DEF CountInv
        <5>3. QED
          BY <2>1, <2>4, <4>2, <5>1, <5>2
      <4>3. QED
        BY <4>1, <4>2
    <3>3. QED
      BY <3>1, <3>2 DEF CountInv
  <2>7. VoteRecordsOnStartedProposals'
    <3>1. \A w \in Voter : w \notin voted[idx] /\ ayeVotes[idx][w] = 0
      BY <2>2, <2>3 DEF VoteRecordsOnStartedProposals
    <3>2. voted' = voted /\ ayeVotes' = ayeVotes
      BY <1>2 DEF CreateProposal
    <3>3. QED
      BY <2>2, <2>5, <3>1, <3>2 DEF VoteRecordsOnStartedProposals, TypeOK
  <2>8. QED
    BY <1>0, <2>6, <2>7
<1>3. ASSUME NEW v \in Voter, NEW i \in Index, NEW fee \in Amounts,
             StartProposal(v, i, fee)
      PROVE  RInv'
  BY <1>0, <1>3, StatusOnlyAdvances DEF StartProposal, TypeOK
<1>4. ASSUME NEW v \in Voter, NEW a \in Amounts, ReserveTokens(v, a)
      PROVE  RInv'
  BY <1>0, <1>4, StatusOnlyAdvances DEF ReserveTokens
<1>5. ASSUME NEW v \in Voter, NEW a \in Amounts, UnreserveTokens(v, a)
      PROVE  RInv'
  BY <1>0, <1>5, StatusOnlyAdvances DEF UnreserveTokens
<1>6. ASSUME NEW v \in Voter, NEW i \in Index, VoteProposalEnded(v, i)
      PROVE  RInv'
  BY <1>0, <1>6, StatusOnlyAdvances DEF VoteProposalEnded, TypeOK
<1>7. ASSUME NEW v \in Voter, NEW i \in Index, VoteProposalAye(v, i)
      PROVE  RInv'
  <2>1. CountInv'
    BY <1>7 DEF VoteProposalAye, CountInv
  <2>2. VoteRecordsOnStartedProposals'
    BY <1>7 DEF VoteProposalAye, IsProposalActive, VoteRecordsOnStartedProposals,
                TypeOK
  <2>3. QED
    BY <1>0, <2>1, <2>2
<1>8. ASSUME NEW v \in Voter, NEW items \in Batches, VoteMultipleEnded(v, items)
      PROVE  RInv'
  BY <1>0, <1>8, StatusOnlyAdvances DEF VoteMultipleEnded, TypeOK
<1>9. ASSUME NEW v \in Voter, NEW items \in Batches, VoteMultipleAye(v, items)
      PROVE  RInv'
  <2> DEFINE targets == {i \in Index : AyeItems(items, i) # {}}
  <2>1. \A i \in targets : status[i] = "InProgress"
    BY <1>9 DEF VoteMultipleAye, BatchChecks, AyeItems, IsProposalActive
  <2>2. CountInv'
    BY <1>9 DEF VoteMultipleAye, CountInv
  <2>3. VoteRecordsOnStartedProposals'
    BY <1>9, <2>1 DEF VoteMultipleAye, VoteRecordsOnStartedProposals, TypeOK
  <2>4. QED
    BY <1>0, <2>2, <2>3
<1>10. CASE AdvanceBlock
  BY <1>0, <1>10, StatusOnlyAdvances DEF AdvanceBlock
<1>11. CASE UNCHANGED vars
  BY <1>0, <1>11, StatusOnlyAdvances DEF vars
<1>12. QED
  BY <1>1, <1>2, <1>3, <1>4, <1>5, <1>6, <1>7, <1>8, <1>9, <1>10, <1>11
  DEF Next

(***************************************************************************)
(* Fresh indices: as long as fewer proposals are created than there are  *)
(* u32 indices, create_proposal never lands on an existing key, so aye    *)
(* records and vote keys exist only on proposals that have been started.   *)
(***************************************************************************)
LEMMA RInvHolds ==
  ASSUME NoWrap
  PROVE  Spec => []RInv
BY InitRInv, NextRInv, PTL DEF Spec

THEOREM VotesOnlyOnStarted ==
  ASSUME NoWrap
  PROVE  Spec => []VoteRecordsOnStartedProposals
BY RInvHolds, PTL DEF RInv
-----------------------------------------------------------------------------
(***************************************************************************)
(* Refinement of ProposalLifecycle.  Init maps to LInit, and every step   *)
(* of the pallet maps to a step of the lifecycle or leaves the abstract   *)
(* state unchanged.  Registering and the balance calls never touch the     *)
(* abstract state; create_proposal is Open of a fresh index (CountInv);    *)
(* an aye vote raises the tally of open proposals only (SumOver lemmas);   *)
(* the batch winner, when it is no key, panics and changes nothing, and    *)
(* otherwise it carries votes, so it is InProgress or already Completed    *)
(* (VoteRecordsOnStartedProposals).                                        *)
(***************************************************************************)

\* integer_sqrt of a positive number is positive: 1 * 1 <= n.
LEMMA ISqrtPositive ==
  ASSUME NEW n \in Nat, n >= 1
  PROVE  ISqrt(n) >= 1
<1> DEFINE R == {r \in 1 .. n : r * r <= n}
<1>1. IsFiniteSet(R)
  BY FS_Interval, FS_Subset
<1>2. {1} \subseteq R
  OBVIOUS
<1>3. Cardinality({1}) = 1
  BY FS_Singleton
<1>4. Cardinality({1}) <= Cardinality(R)
  BY <1>1, <1>2, FS_Subset
<1>5. QED
  BY <1>3, <1>4 DEF ISqrt

\* Every tally is a natural number.
LEMMA TallyType ==
  ASSUME TypeOK
  PROVE  Tally \in [Index -> Nat]
BY SumOverNat DEF Tally, TotalVotes, TypeOK

\* The tally depends on AyeVotes alone.
LEMMA TallyUnchanged ==
  ASSUME ayeVotes' = ayeVotes
  PROVE  Tally' = Tally
BY DEF Tally, TotalVotes, SumOver

LEMMA InitRefines == Init => Lifecycle!LInit
<1> SUFFICES ASSUME Init PROVE Lifecycle!LInit
  OBVIOUS
<1>1. ASSUME NEW i \in Index PROVE TotalVotes(i) = 0
  <2>1. UNION {{x} \X (1 .. ayeVotes[i][x]) : x \in Voter} = {}
    BY DEF Init
  <2>2. QED
    BY <2>1, FS_EmptySet DEF TotalVotes, SumOver
<1>2. Tally = [i \in Index |-> 0]
  BY <1>1 DEF Tally
<1>3. QED
  BY <1>2 DEF Init, Lifecycle!LInit

\* A step that leaves the mapped variables alone is an abstract stutter.
LEMMA AbstractStutter ==
  ASSUME status' = status, endBlock' = endBlock, now' = now, ayeVotes' = ayeVotes
  PROVE  [Lifecycle!LNext]_Lifecycle!avars
BY TallyUnchanged DEF Lifecycle!avars

\* get_winner returns 0 or a key of Proposals, so always an index.
LEMMA GetWinnerIndex == GetWinner \in Index
<1>1. 0 \in Index
  BY DEF Index
<1>2. LastRaise \subseteq Index
  BY DEF LastRaise, Keys
<1>3. QED
  BY <1>1, <1>2 DEF GetWinner

(***************************************************************************)
(* The winner, when it is a key, has a positive total, hence an aye       *)
(* record; so it has been started.  When it is 0 it is no key at all.     *)
(***************************************************************************)
LEMMA WinnerStarted ==
  ASSUME RInv, status[GetWinner] # "Absent"
  PROVE  status[GetWinner] \in {"InProgress", "Completed"}
<1> USE DEF RInv
<1>1. CASE LastRaise = {}
  <2>1. GetWinner = 0
    BY <1>1 DEF GetWinner
  <2>2. 0 \in Index /\ 0 \notin 1 .. count
    BY DEF Index, CountInv
  <2>3. QED
    BY <2>1, <2>2 DEF CountInv
<1>2. CASE LastRaise # {}
  <2>1. GetWinner \in LastRaise
    BY <1>2 DEF GetWinner
  <2>2. GetWinner \in Index /\ TotalVotes(GetWinner) > 0
    BY <2>1 DEF LastRaise, RaisesMax, Keys
  <2>3. \E u \in Voter : ayeVotes[GetWinner][u] # 0
    BY <2>2, SumOverPositive DEF TotalVotes, TypeOK
  <2>4. QED
    BY <2>2, <2>3 DEF VoteRecordsOnStartedProposals
<1>3. QED
  BY <1>1, <1>2

LEMMA NextRefines ==
  ASSUME NoWrap, RInv, [Next]_vars
  PROVE  [Lifecycle!LNext]_Lifecycle!avars
<1> USE DEF RInv
<1>0. TypeOK'
  BY NextTypeOK
<1>1. ASSUME NEW v \in Voter, NEW fee \in RegisterFees, RegisterVoter(v, fee)
      PROVE  [Lifecycle!LNext]_Lifecycle!avars
  BY <1>1, AbstractStutter DEF RegisterVoter
<1>2. ASSUME NEW v \in Voter, CreateProposal(v)
      PROVE  [Lifecycle!LNext]_Lifecycle!avars
  <2>1. Lifecycle!Open(count + 1)
    BY <1>2, CreateFresh, TallyUnchanged DEF Lifecycle!Open
  <2>2. QED
    BY <1>2, <2>1, CreateFresh DEF Lifecycle!LNext
<1>3. ASSUME NEW v \in Voter, NEW i \in Index, NEW fee \in Amounts,
             StartProposal(v, i, fee)
      PROVE  [Lifecycle!LNext]_Lifecycle!avars
  <2>1. Lifecycle!Start(i)
    BY <1>3, TallyUnchanged DEF StartProposal, Lifecycle!Start
  <2>2. QED
    BY <2>1 DEF Lifecycle!LNext
<1>4. ASSUME NEW v \in Voter, NEW a \in Amounts, ReserveTokens(v, a)
      PROVE  [Lifecycle!LNext]_Lifecycle!avars
  BY <1>4, AbstractStutter DEF ReserveTokens
<1>5. ASSUME NEW v \in Voter, NEW a \in Amounts, UnreserveTokens(v, a)
      PROVE  [Lifecycle!LNext]_Lifecycle!avars
  BY <1>5, AbstractStutter DEF UnreserveTokens
<1>6. ASSUME NEW v \in Voter, NEW i \in Index, VoteProposalEnded(v, i)
      PROVE  [Lifecycle!LNext]_Lifecycle!avars
  <2>1. Lifecycle!SomeExpired
    BY <1>6 DEF VoteProposalEnded, IsProposalActive, Lifecycle!SomeExpired
  <2>2. Lifecycle!Close(i)
    BY <1>6, <2>1, TallyUnchanged DEF VoteProposalEnded, IsProposalActive,
                                      Lifecycle!Close
  <2>3. QED
    BY <2>2 DEF Lifecycle!LNext
<1>10. CASE AdvanceBlock
  <2>1. Lifecycle!Tick
    BY <1>10, TallyUnchanged DEF AdvanceBlock, Lifecycle!Tick
  <2>2. QED
    BY <2>1 DEF Lifecycle!LNext
<1>11. CASE UNCHANGED vars
  BY <1>11, AbstractStutter DEF vars
<1>7. ASSUME NEW v \in Voter, NEW i \in Index, VoteProposalAye(v, i)
      PROVE  [Lifecycle!LNext]_Lifecycle!avars
  <2>1. Tally' \in [Index -> Nat]
    BY <1>0, SumOverNat DEF Tally, TotalVotes, TypeOK
  <2>2. ASSUME NEW j \in Index, j # i PROVE Tally'[j] = Tally[j]
    BY <1>7, <2>2 DEF VoteProposalAye, Tally, TotalVotes, TypeOK
  <2>3. Tally'[i] > Tally[i]
    <3>1. ISqrt(reserved[v]) >= 1
      BY <1>7, ISqrtPositive DEF VoteProposalAye, TypeOK
    <3>2. /\ ayeVotes[i] \in [Voter -> Nat] /\ ayeVotes'[i] \in [Voter -> Nat]
          /\ \A u \in Voter : ayeVotes[i][u] <= ayeVotes'[i][u]
          /\ ayeVotes[i][v] < ayeVotes'[i][v]
      <4>1. ayeVotes'[i] = [ayeVotes[i] EXCEPT ![v] = ayeVotes[i][v] + ISqrt(reserved[v])]
        BY <1>7 DEF VoteProposalAye, TypeOK
      <4>2. ISqrt(reserved[v]) \in Nat
        BY ISqrtNat DEF TypeOK
      <4>3. QED
        BY <3>1, <4>1, <4>2 DEF TypeOK
    <3>3. TotalVotes(i) < TotalVotes(i)'
      BY <3>2, SumOverStrict DEF TotalVotes
    <3>4. QED
      BY <3>3 DEF Tally
  <2>4. status[i] = "InProgress" /\ now < endBlock[i]
    BY <1>7 DEF VoteProposalAye, IsProposalActive, TypeOK
  <2>5. Lifecycle!Cast
    BY <1>7, <2>1, <2>2, <2>3, <2>4 DEF VoteProposalAye, Lifecycle!Cast,
                                        Lifecycle!IsOpen
  <2>6. QED
    BY <2>5 DEF Lifecycle!LNext
<1>8. ASSUME NEW v \in Voter, NEW items \in Batches, VoteMultipleEnded(v, items)
      PROVE  [Lifecycle!LNext]_Lifecycle!avars
  <2> DEFINE w == GetWinner
  <2>1. w \in Index
    BY GetWinnerIndex
  <2>2. CASE status[w] \in {"Absent", "Completed"}
    <3>1. status' = status
      BY <1>8, <2>1, <2>2 DEF VoteMultipleEnded, TypeOK
    <3>2. QED
      BY <1>8, <3>1, AbstractStutter DEF VoteMultipleEnded
  <2>3. CASE status[w] = "InProgress"
    <3>1. PICK k \in DOMAIN items : ~(now < endBlock[items[k].idx])
      BY <1>8 DEF VoteMultipleEnded, BatchEnded
    <3>2. items[k].idx \in Index /\ status[items[k].idx] = "InProgress"
      <4>1. items[k] \in BatchItem
        BY DEF Batches
      <4>2. items[k].idx \in Index
        BY <4>1 DEF BatchItem, Index
      <4>3. QED
        BY <1>8, <4>2 DEF VoteMultipleEnded, BatchChecks, IsProposalActive
    <3>3. Lifecycle!SomeExpired
      BY <3>1, <3>2, <1>0 DEF Lifecycle!SomeExpired, TypeOK
    <3>4. Lifecycle!Close(w)
      BY <1>8, <2>3, <3>3, TallyUnchanged DEF VoteMultipleEnded, Lifecycle!Close
    <3>5. QED
      BY <2>1, <3>4 DEF Lifecycle!LNext
  <2>4. QED
    BY <2>1, <2>2, <2>3, WinnerStarted DEF TypeOK, Status
<1>9. ASSUME NEW v \in Voter, NEW items \in Batches, VoteMultipleAye(v, items)
      PROVE  [Lifecycle!LNext]_Lifecycle!avars
  <2> DEFINE targets == {i \in Index : AyeItems(items, i) # {}}
  <2>1. Tally' \in [Index -> Nat]
    BY <1>0, SumOverNat DEF Tally, TotalVotes, TypeOK
  <2>2. ASSUME NEW j \in Index \ targets PROVE Tally'[j] = Tally[j]
    BY <1>9 DEF VoteMultipleAye, Tally, TotalVotes
  <2>3. ASSUME NEW j \in targets
        PROVE  Tally'[j] >= Tally[j] /\ status[j] = "InProgress" /\ now < endBlock[j]
    <3>1. PICK k \in DOMAIN items : items[k].idx = j /\ items[k].vote = "Aye"
      BY DEF AyeItems
    <3>2. status[j] = "InProgress" /\ now < endBlock[j]
      BY <1>9, <3>1 DEF VoteMultipleAye, BatchChecks, BatchEnded, IsProposalActive
    <3>3. BatchWeight(v, items, j) >= ayeVotes[j][v]
      <4>1. PICK n \in 1 .. MaxBatch : items \in [1 .. n -> BatchItem]
        BY DEF Batches
      <4>2. IsFiniteSet(AyeItems(items, j))
        <5>1. IsFiniteSet(1 .. n)
          BY FS_Interval
        <5>2. AyeItems(items, j) \subseteq 1 .. n
          BY <4>1 DEF AyeItems
        <5>3. QED
          BY <5>1, <5>2, FS_Subset
      <4>3. [k2 \in AyeItems(items, j) |-> ISqrt(items[k2].amount)]
              \in [AyeItems(items, j) -> Nat]
        <5>1. ASSUME NEW k2 \in AyeItems(items, j) PROVE items[k2].amount \in Nat
          <6>1. items[k2] \in BatchItem
            BY <4>1 DEF AyeItems
          <6>2. items[k2].amount \in Amounts
            BY <6>1 DEF BatchItem
          <6>3. Amounts \subseteq Nat
            BY InputAssumption
          <6>4. QED
            BY <6>2, <6>3, Zenon
        <5>2. QED
          BY <5>1, ISqrtNat
      <4>4. QED
        BY <4>2, <4>3, SumOverNat DEF BatchWeight, TypeOK
    <3>4. /\ ayeVotes[j] \in [Voter -> Nat] /\ ayeVotes'[j] \in [Voter -> Nat]
          /\ \A u \in Voter : ayeVotes[j][u] <= ayeVotes'[j][u]
      BY <1>0, <1>9, <3>3 DEF VoteMultipleAye, TypeOK
    <3>5. TotalVotes(j) <= TotalVotes(j)'
      BY <3>4, SumOverMono DEF TotalVotes
    <3>6. QED
      BY <3>2, <3>5 DEF Tally
  <2>4. Lifecycle!Cast
    <3>1. ASSUME NEW j \in Index, Tally'[j] # Tally[j]
          PROVE  status[j] = "InProgress" /\ now < endBlock[j] /\ Tally'[j] > Tally[j]
      <4>1. j \in targets
        BY <2>2, <3>1
      <4>2. Tally[j] \in Nat /\ Tally'[j] \in Nat
        BY <2>1, TallyType
      <4>3. QED
        BY <2>3, <3>1, <4>1, <4>2
    <3>2. UNCHANGED <<status, endBlock, now>>
      BY <1>9 DEF VoteMultipleAye
    <3>3. QED
      BY <2>1, <3>1, <3>2 DEF Lifecycle!Cast, Lifecycle!IsOpen
  <2>5. QED
    BY <2>4 DEF Lifecycle!LNext
<1>12. QED
  BY <1>1, <1>2, <1>3, <1>4, <1>5, <1>6, <1>7, <1>8, <1>9, <1>10, <1>11
  DEF Next

(***************************************************************************)
(* The pallet implements the proposal lifecycle of spec 2-4 below the     *)
(* u32 wrap: status moves only Absent -> NotStarted -> InProgress ->      *)
(* Completed with a deadline fixed at creation, aye tallies grow only on   *)
(* open proposals, and a proposal is completed only by a vote call that   *)
(* sees an expired proposal.                                               *)
(***************************************************************************)
THEOREM LifecycleRefinement ==
  ASSUME NoWrap
  PROVE  Spec => ImplementsLifecycle
BY RInvHolds, InitRefines, NextRefines, PTL
DEF Spec, ImplementsLifecycle, Lifecycle!LSpec
=============================================================================
