---------------------------- MODULE ActionProofs ----------------------------
(***************************************************************************)
(* Proof of the vote-window action property of the core run.  It needs    *)
(* only the type invariant: create_proposal never touches the vote         *)
(* records, whatever index it writes, and every other call either leaves  *)
(* them alone or is one of the two vote paths, whose guards are the       *)
(* window.                                                                 *)
(***************************************************************************)
EXTENDS VotingProofs

USE EndowmentAssumption, PeriodAssumption, BoundsAssumption, VoterAssumption,
    HashRankAssumption, InputAssumption

\* A step that leaves the vote records and their keys alone is a vote step.
LEMMA VoteFrame ==
  ASSUME ayeVotes' = ayeVotes, voted' = voted
  PROVE  VoteStep
BY DEF VoteStep

\* The batch weight of an aye item never lowers the caller's record.
LEMMA BatchWeightGrows ==
  ASSUME TypeOK, NEW v \in Voter, NEW items \in Batches, NEW j \in Index
  PROVE  BatchWeight(v, items, j) \in Nat /\ BatchWeight(v, items, j) >= ayeVotes[j][v]
<1>1. PICK n \in 1 .. MaxBatch : items \in [1 .. n -> BatchItem]
  BY DEF Batches
<1>2. IsFiniteSet(AyeItems(items, j))
  <2>1. IsFiniteSet(1 .. n)
    BY FS_Interval
  <2>2. AyeItems(items, j) \subseteq 1 .. n
    BY <1>1 DEF AyeItems
  <2>3. QED
    BY <2>1, <2>2, FS_Subset
<1>3. [k \in AyeItems(items, j) |-> ISqrt(items[k].amount)] \in [AyeItems(items, j) -> Nat]
  <2>1. ASSUME NEW k \in AyeItems(items, j) PROVE items[k].amount \in Nat
    <3>1. items[k].amount \in Amounts
      BY <1>1 DEF AyeItems, BatchItem
    <3>2. Amounts \subseteq Nat
      BY InputAssumption
    <3>3. QED
      BY <3>1, <3>2, Zenon
  <2>2. QED
    BY <2>1, ISqrtNat
<1>4. QED
  BY <1>2, <1>3, SumOverNat DEF BatchWeight, TypeOK

LEMMA NextVoteStep ==
  ASSUME TypeOK, [Next]_vars
  PROVE  VoteStep
<1>1. ASSUME NEW v \in Voter, NEW fee \in RegisterFees, RegisterVoter(v, fee)
      PROVE  VoteStep
  BY <1>1, VoteFrame DEF RegisterVoter
<1>2. ASSUME NEW v \in Voter, CreateProposal(v)
      PROVE  VoteStep
  BY <1>2, VoteFrame DEF CreateProposal
<1>3. ASSUME NEW v \in Voter, NEW i \in Index, NEW fee \in Amounts,
             StartProposal(v, i, fee)
      PROVE  VoteStep
  BY <1>3, VoteFrame DEF StartProposal
<1>4. ASSUME NEW v \in Voter, NEW a \in Amounts, ReserveTokens(v, a)
      PROVE  VoteStep
  BY <1>4, VoteFrame DEF ReserveTokens
<1>5. ASSUME NEW v \in Voter, NEW a \in Amounts, UnreserveTokens(v, a)
      PROVE  VoteStep
  BY <1>5, VoteFrame DEF UnreserveTokens
<1>6. ASSUME NEW v \in Voter, NEW i \in Index, VoteProposalEnded(v, i)
      PROVE  VoteStep
  BY <1>6, VoteFrame DEF VoteProposalEnded
<1>7. ASSUME NEW v \in Voter, NEW i \in Index, VoteProposalAye(v, i)
      PROVE  VoteStep
  <2> SUFFICES ASSUME NEW j \in Index, NEW u \in Voter,
                      ayeVotes'[j][u] # ayeVotes[j][u] \/ (u \in voted'[j]) # (u \in voted[j])
               PROVE  /\ u \in registered /\ status[j] = "InProgress" /\ now < endBlock[j]
                      /\ ayeVotes'[j][u] >= ayeVotes[j][u] /\ u \in voted'[j]
    BY DEF VoteStep
  <2>1. ISqrt(reserved[v]) \in Nat
    BY ISqrtNat DEF TypeOK
  <2>2. j = i /\ u = v
    BY <1>7 DEF VoteProposalAye, TypeOK
  <2>3. ayeVotes'[i][v] = ayeVotes[i][v] + ISqrt(reserved[v]) /\ v \in voted'[i]
    BY <1>7 DEF VoteProposalAye, TypeOK
  <2>4. QED
    BY <1>7, <2>1, <2>2, <2>3 DEF VoteProposalAye, IsProposalActive, TypeOK
<1>8. ASSUME NEW v \in Voter, NEW items \in Batches, VoteMultipleEnded(v, items)
      PROVE  VoteStep
  BY <1>8, VoteFrame DEF VoteMultipleEnded
<1>9. ASSUME NEW v \in Voter, NEW items \in Batches, VoteMultipleAye(v, items)
      PROVE  VoteStep
  <2> DEFINE targets == {i \in Index : AyeItems(items, i) # {}}
  <2> SUFFICES ASSUME NEW j \in Index, NEW u \in Voter,
                      ayeVotes'[j][u] # ayeVotes[j][u] \/ (u \in voted'[j]) # (u \in voted[j])
               PROVE  /\ u \in registered /\ status[j] = "InProgress" /\ now < endBlock[j]
                      /\ ayeVotes'[j][u] >= ayeVotes[j][u] /\ u \in voted'[j]
    BY DEF VoteStep
  <2>1. j \in targets /\ u = v
    BY <1>9 DEF VoteMultipleAye, TypeOK
  <2>2. ayeVotes'[j][v] = BatchWeight(v, items, j) /\ v \in voted'[j]
    BY <1>9, <2>1 DEF VoteMultipleAye, TypeOK
  <2>3. BatchWeight(v, items, j) >= ayeVotes[j][v]
    BY BatchWeightGrows
  <2>4. PICK k \in DOMAIN items : items[k].idx = j /\ items[k].vote = "Aye"
    BY <2>1 DEF AyeItems
  <2>5. status[j] = "InProgress" /\ now < endBlock[j] /\ v \in registered
    BY <1>9, <2>4 DEF VoteMultipleAye, BatchChecks, BatchEnded, IsProposalActive
  <2>6. QED
    BY <2>1, <2>2, <2>3, <2>5
<1>10. CASE AdvanceBlock
  BY <1>10, VoteFrame DEF AdvanceBlock
<1>11. CASE UNCHANGED vars
  BY <1>11, VoteFrame DEF vars
<1>12. QED
  BY <1>1, <1>2, <1>3, <1>4, <1>5, <1>6, <1>7, <1>8, <1>9, <1>10, <1>11
  DEF Next

(***************************************************************************)
(* vote_proposal and vote_multiple_proposals create or change the aye     *)
(* record of (i, v) only for a registered caller v, while proposal i is   *)
(* InProgress and before its end block, and only upward; no call removes *)
(* a record.  This holds for every value of the constants, past the u32   *)
(* wrap of the proposal index too.                                         *)
(***************************************************************************)
THEOREM VotesMoveOnlyWhileOpen == Spec => VotesOnlyWhileOpen
<1>1. TypeOK /\ [Next]_vars => [VoteStep]_vars
  BY NextVoteStep
<1>2. QED
  BY <1>1, TypeCorrect, PTL DEF Spec, VotesOnlyWhileOpen
=============================================================================
