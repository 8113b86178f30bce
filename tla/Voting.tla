------------------------------- MODULE Voting -------------------------------
(***************************************************************************)
(* The quadratic-voting pallet (pallets/voting/src/lib.rs) as one state    *)
(* machine.  Every dispatchable of the pallet is one action.  A call that  *)
(* returns an error changes nothing: FRAME runs every dispatchable in a    *)
(* storage transaction that is rolled back on error, so a failing call is  *)
(* a stuttering step and is not written as an action.  The guards of an   *)
(* action are the conjunction of the call's ensure! checks.                *)
(*                                                                         *)
(* The Currency (Balances pallet) is kept as the two maps free/reserved;   *)
(* the pallet only reaches it through make_free_balance_be, reserve,       *)
(* unreserve, slash, reserved_balance and total_balance.                   *)
(***************************************************************************)
EXTENDS Integers, FiniteSets, FiniteSetsExt, Sequences

CONSTANTS
  Voter,          \* account ids that may be registered as voters
  Endowment,      \* the literal 100u32 of register_voter
  VotingPeriod,   \* Config::VotingPeriod, in blocks
  IndexBound,     \* 2^32: proposal indices are u32 and wrap modulo IndexBound
  BalanceBound,   \* 2^128: Balance is u128 and an unchecked + wraps modulo it
  HashRank,       \* position of each index in Blake2_128Concat key order
  RegisterFees,   \* fees offered to register_voter
  Amounts,        \* amounts offered to start/reserve/unreserve/batch items
  MaxBatch,       \* longest batch given to vote_multiple_proposals
  MaxProposals,   \* bound: number of create_proposal calls explored
  MaxBlock        \* bound: last block number explored

Index == 0 .. (IndexBound - 1)

ASSUME EndowmentAssumption == Endowment \in Nat /\ Endowment < BalanceBound
ASSUME PeriodAssumption == VotingPeriod \in Nat
ASSUME VoterAssumption == IsFiniteSet(Voter)
ASSUME BoundsAssumption ==
  /\ IndexBound \in Nat \ {0}
  /\ BalanceBound \in Nat \ {0}
  /\ MaxProposals \in Nat /\ MaxBlock \in Nat /\ MaxBatch \in Nat
ASSUME HashRankAssumption ==
  /\ HashRank \in [Index -> Nat]
  /\ \A i, j \in Index : HashRank[i] = HashRank[j] => i = j
\* create_proposal stays below the u32 wrap: fewer proposals than indices.
NoWrap == MaxProposals < IndexBound

ASSUME InputAssumption ==
  /\ RegisterFees \subseteq Nat
  /\ Amounts \subseteq 0 .. (BalanceBound - 1)

\* Proposals::get(i): Absent is the None of the OptionQuery map.
Status == {"Absent", "NotStarted", "InProgress", "Completed"}

\* A tuple (ProposalIndex, BalanceOf<T>, Vote) of vote_multiple_proposals;
\* Nay and Abstain take the same (empty) branch of the match, so Nay
\* stands for both.
\* The indices offered are those create_proposal can assign.
BatchItem == [idx : {n % IndexBound : n \in 1 .. MaxProposals}, amount : Amounts, vote : {"Aye", "Nay"}]

VARIABLES
  registered,   \* RegisteredVoters: the keys present in the map
  free,         \* Currency free balance of each account
  reserved,     \* Currency reserved balance of each account
  status,       \* Proposals[i].status, or Absent
  endBlock,     \* Proposals[i].end_block
  count,        \* the counter of the CountedStorageMap Proposals
  voted,        \* voted[i]: the voters v with AyeVotes::contains_key(i, v)
  ayeVotes,     \* AyeVotes[i][v] (ValueQuery: 0 when absent)
  now,          \* frame_system block_number
  panicked,     \* a call has panicked in an expect()
  spent         \* ghost: tokens of each account consumed by fees and slash

vars == <<registered, free, reserved, status, endBlock, count, voted,
          ayeVotes, now, panicked, spent>>

-----------------------------------------------------------------------------
(* Helpers of the pallet and of the crates it calls.                       *)

\* integer_sqrt: the number of r in 1..n with r*r <= n is floor(sqrt(n)).
ISqrt(n) == Cardinality({r \in 1 .. n : r * r <= n})

\* Mutant: the reserved part is not subtracted from total_balance.
GetVoterBalanceTotal(v) == free[v] + reserved[v]

\* get_voter_balance: total_balance - reserved_balance, the free balance.
GetVoterBalance(v) == (free[v] + reserved[v]) - reserved[v]

\* is_proposal_active: registered and InProgress.
IsProposalActive(i) == status[i] = "InProgress"

(***************************************************************************)
(* The sum of f[x] over a finite set S, counted as the number of pairs     *)
(* <<x, k>> with k in 1..f[x]: a cardinality, so that the theorems on      *)
(* finite sets show it is a natural number and monotone in f.              *)
(***************************************************************************)
SumOver(S, f) == Cardinality(UNION {{x} \X (1 .. f[x]) : x \in S})

\* Total of the AyeVotes under prefix i (iter_prefix(...).sum()).
TotalVotes(i) == SumOver(Voter, ayeVotes[i])

\* The aye tally of every proposal.
Tally == [i \in Index |-> TotalVotes(i)]

(***************************************************************************)
(* get_winner.  The loop visits the keys of Proposals in storage order     *)
(* (HashRank) and replaces the winner when a total is strictly greater     *)
(* than the running maximum, which starts at 0.  A key replaces the winner *)
(* exactly when its total is positive and greater than every total visited *)
(* before it; the loop returns the last such key, or 0 when there is none. *)
(***************************************************************************)
Keys == {i \in Index : status[i] # "Absent"}
\* Mutant: the loop replaces the winner on >= instead of >.
RaisesMaxOrEqual(k) ==
  \A j \in Keys : HashRank[j] < HashRank[k] => TotalVotes(j) <= TotalVotes(k)
RaisesMax(k) ==
  /\ TotalVotes(k) > 0
  /\ \A j \in Keys : HashRank[j] < HashRank[k] => TotalVotes(j) < TotalVotes(k)
LastRaise == {k \in Keys : RaisesMax(k) /\
                \A j \in Keys : RaisesMax(j) => HashRank[j] <= HashRank[k]}
GetWinner == IF LastRaise = {} THEN 0 ELSE CHOOSE k \in LastRaise : TRUE

-----------------------------------------------------------------------------
Init ==
  /\ registered = {}
  /\ free = [v \in Voter |-> 0]
  /\ reserved = [v \in Voter |-> 0]
  /\ status = [i \in Index |-> "Absent"]
  /\ endBlock = [i \in Index |-> 0]
  /\ count = 0
  /\ voted = [i \in Index |-> {}]
  /\ ayeVotes = [i \in Index |-> [v \in Voter |-> 0]]
  /\ now = 1
  /\ panicked = FALSE
  /\ spent = [v \in Voter |-> 0]

\* register_voter (root origin): the balance is overwritten with 100 - fee.
RegisterVoter(v, fee) ==
  /\ v \notin registered
  /\ fee > 0
  /\ fee <= Endowment
  /\ free' = [free EXCEPT ![v] = Endowment - fee]
  /\ registered' = registered \cup {v}
  /\ spent' = [spent EXCEPT ![v] = fee]
  /\ UNCHANGED <<reserved, status, endBlock, count, voted, ayeVotes, now,
                 panicked>>

\* Mutant: Proposals as a plain map whose counter is never incremented.
CreateProposalNoCount(v) ==
  /\ v \in registered
  /\ count < MaxProposals
  /\ LET idx == (count + 1) % IndexBound IN
       /\ status' = [status EXCEPT ![idx] = "NotStarted"]
       /\ endBlock' = [endBlock EXCEPT ![idx] = now + VotingPeriod]
       /\ count' = count
  /\ UNCHANGED <<registered, free, reserved, voted, ayeVotes, now, panicked,
                 spent>>

\* create_proposal: the index is count + 1 in u32 arithmetic; inserting a
\* new key increments the counter (saturating), overwriting one does not.
CreateProposal(v) ==
  /\ v \in registered
  /\ count < MaxProposals
  /\ LET idx == (count + 1) % IndexBound IN
       /\ status' = [status EXCEPT ![idx] = "NotStarted"]
       /\ endBlock' = [endBlock EXCEPT ![idx] = now + VotingPeriod]
       /\ count' = IF status[idx] = "Absent" /\ count < IndexBound - 1
                     THEN count + 1 ELSE count
  /\ UNCHANGED <<registered, free, reserved, voted, ayeVotes, now, panicked,
                 spent>>

\* Mutant: start_proposal without the NotEnoughBalance check.
StartProposalNoBalanceCheck(v, i, fee) ==
  /\ v \in registered
  /\ status[i] # "Absent"
  /\ status[i] = "NotStarted"
  /\ fee > 0
  /\ status' = [status EXCEPT ![i] = "InProgress"]
  /\ free' = [free EXCEPT ![v] = GetVoterBalance(v) - fee]
  /\ spent' = [spent EXCEPT ![v] = @ + fee]
  /\ UNCHANGED <<registered, reserved, endBlock, count, voted, ayeVotes, now,
                 panicked>>

\* start_proposal: any registered voter pays fee to start a NotStarted one.
StartProposal(v, i, fee) ==
  /\ v \in registered
  /\ status[i] # "Absent"
  /\ GetVoterBalance(v) >= fee
  /\ status[i] = "NotStarted"
  /\ fee > 0
  /\ status' = [status EXCEPT ![i] = "InProgress"]
  /\ free' = [free EXCEPT ![v] = GetVoterBalance(v) - fee]
  /\ spent' = [spent EXCEPT ![v] = @ + fee]
  /\ UNCHANGED <<registered, reserved, endBlock, count, voted, ayeVotes, now,
                 panicked>>

\* reserve_tokens: Currency::reserve moves amount from free to reserved.
ReserveTokens(v, amount) ==
  /\ v \in registered
  /\ amount > 0
  /\ GetVoterBalance(v) >= amount
  /\ free' = [free EXCEPT ![v] = @ - amount]
  /\ reserved' = [reserved EXCEPT ![v] = @ + amount]
  /\ UNCHANGED <<registered, status, endBlock, count, voted, ayeVotes, now,
                 panicked, spent>>

\* unreserve_tokens: unreserve amount, then slash amount / 2 as a penalty;
\* Currency::slash takes from the free balance first, then from reserved.
UnreserveTokens(v, amount) ==
  /\ v \in registered
  /\ amount > 0
  /\ reserved[v] >= amount
  /\ LET penalty == amount \div 2
         f1 == free[v] + amount
         r1 == reserved[v] - amount
         fromFree == IF penalty <= f1 THEN penalty ELSE f1
         fromRes == IF penalty - fromFree <= r1 THEN penalty - fromFree ELSE r1
     IN /\ free' = [free EXCEPT ![v] = f1 - fromFree]
        /\ reserved' = [reserved EXCEPT ![v] = r1 - fromRes]
        /\ spent' = [spent EXCEPT ![v] = @ + fromFree + fromRes]
  /\ UNCHANGED <<registered, status, endBlock, count, voted, ayeVotes, now,
                 panicked>>

(***************************************************************************)
(* vote_proposal.  Past the end block the call completes proposal i and    *)
(* announces the winner, whatever the vote.  Before it, an Aye vote        *)
(* stores sqrt(reserved) once; a Nay or Abstain vote changes nothing, so   *)
(* it is a stuttering step and has no disjunct.                            *)
(***************************************************************************)
VoteProposalEnded(v, i) ==
  /\ v \in registered
  /\ status[i] # "Absent"
  /\ IsProposalActive(i)
  /\ endBlock[i] <= now
  /\ status' = [status EXCEPT ![i] = "Completed"]
  /\ UNCHANGED <<registered, free, reserved, endBlock, count, voted,
                 ayeVotes, now, panicked, spent>>

\* Mutant: the deadline test of vote_proposal written end_block < now.
VoteProposalAyeAtEnd(v, i) ==
  /\ v \in registered
  /\ status[i] # "Absent"
  /\ IsProposalActive(i)
  /\ ~(endBlock[i] < now)
  /\ reserved[v] > 0
  /\ v \notin voted[i]
  /\ ayeVotes' = [ayeVotes EXCEPT ![i][v] = @ + ISqrt(reserved[v])]
  /\ voted' = [voted EXCEPT ![i] = @ \cup {v}]
  /\ free' = [free EXCEPT ![v] = GetVoterBalance(v)]
  /\ UNCHANGED <<registered, reserved, status, endBlock, count, now,
                 panicked, spent>>

\* Mutant: vote_proposal without the VoterAlreadyVoted check.
VoteProposalAyeNoVotedCheck(v, i) ==
  /\ v \in registered
  /\ status[i] # "Absent"
  /\ IsProposalActive(i)
  /\ ~(endBlock[i] <= now)
  /\ reserved[v] > 0
  /\ ayeVotes' = [ayeVotes EXCEPT ![i][v] = @ + ISqrt(reserved[v])]
  /\ voted' = [voted EXCEPT ![i] = @ \cup {v}]
  /\ free' = [free EXCEPT ![v] = GetVoterBalance(v)]
  /\ UNCHANGED <<registered, reserved, status, endBlock, count, now,
                 panicked, spent>>

VoteProposalAye(v, i) ==
  /\ v \in registered
  /\ status[i] # "Absent"
  /\ IsProposalActive(i)
  /\ ~(endBlock[i] <= now)
  /\ reserved[v] > 0
  /\ v \notin voted[i]
  /\ ayeVotes' = [ayeVotes EXCEPT ![i][v] = @ + ISqrt(reserved[v])]
  /\ voted' = [voted EXCEPT ![i] = @ \cup {v}]
  /\ free' = [free EXCEPT ![v] = GetVoterBalance(v)]
  /\ UNCHANGED <<registered, reserved, status, endBlock, count, now,
                 panicked, spent>>

(***************************************************************************)
(* vote_multiple_proposals.  All checks are made on the whole batch before *)
(* any write.  The total of the amounts is a fold with an unchecked +.     *)
(* If one listed proposal has reached its end block, the call completes   *)
(* the computed winner instead of voting; the expect() in                  *)
(* update_proposal_status_to_completed panics when the winner is no key.  *)
(* Otherwise each Aye item adds sqrt(amount) to the voter's record of its *)
(* proposal with a checked add; an overflow rolls the whole call back.    *)
(***************************************************************************)
BatchAmount(items) ==
  SumOver(DOMAIN items, [k \in DOMAIN items |-> items[k].amount]) % BalanceBound

AyeItems(items, i) == {k \in DOMAIN items : items[k].idx = i /\ items[k].vote = "Aye"}

\* The loop reads the record back before each item, so the items for i add
\* up to the sum of their sqrt(amount).
BatchWeight(v, items, i) ==
  ayeVotes[i][v] +
    SumOver(AyeItems(items, i), [k \in AyeItems(items, i) |-> ISqrt(items[k].amount)])

BatchChecks(v, items) ==
  /\ v \in registered
  /\ \A k \in DOMAIN items : status[items[k].idx] # "Absent"
                             /\ IsProposalActive(items[k].idx)
  /\ reserved[v] >= BatchAmount(items)
  /\ \A k \in DOMAIN items : v \notin voted[items[k].idx]

BatchEnded(items) == \E k \in DOMAIN items : ~(now < endBlock[items[k].idx])

\* Mutant: the batch completes the winner without any listed deadline passed.
VoteMultipleEndedNoDeadline(v, items) ==
  /\ BatchChecks(v, items)
  /\ IF status[GetWinner] = "Absent"
       THEN /\ panicked' = TRUE
            /\ UNCHANGED status
       ELSE /\ status' = [status EXCEPT ![GetWinner] = "Completed"]
            /\ UNCHANGED panicked
  /\ UNCHANGED <<registered, free, reserved, endBlock, count, voted,
                 ayeVotes, now, spent>>

VoteMultipleEnded(v, items) ==
  /\ BatchChecks(v, items)
  /\ BatchEnded(items)
  /\ IF status[GetWinner] = "Absent"
       THEN /\ panicked' = TRUE
            /\ UNCHANGED status
       ELSE /\ status' = [status EXCEPT ![GetWinner] = "Completed"]
            /\ UNCHANGED panicked
  /\ UNCHANGED <<registered, free, reserved, endBlock, count, voted,
                 ayeVotes, now, spent>>

VoteMultipleAye(v, items) ==
  LET targets == {i \in Index : AyeItems(items, i) # {}} IN
  /\ BatchChecks(v, items)
  /\ ~BatchEnded(items)
  /\ targets # {}
  /\ \A i \in targets : BatchWeight(v, items, i) \in 0 .. (BalanceBound - 1)
  /\ ayeVotes' = [i \in Index |->
                    IF i \in targets
                      THEN [ayeVotes[i] EXCEPT ![v] = BatchWeight(v, items, i)]
                      ELSE ayeVotes[i]]
  /\ voted' = [i \in Index |-> IF i \in targets THEN voted[i] \cup {v}
                                                 ELSE voted[i]]
  /\ free' = [free EXCEPT ![v] = GetVoterBalance(v)]
  /\ UNCHANGED <<registered, reserved, status, endBlock, count, now,
                 panicked, spent>>

\* The host advances the block number between calls.
AdvanceBlock ==
  /\ now < MaxBlock
  /\ now' = now + 1
  /\ UNCHANGED <<registered, free, reserved, status, endBlock, count, voted,
                 ayeVotes, panicked, spent>>

Batches == UNION {[1 .. n -> BatchItem] : n \in 1 .. MaxBatch}

Next ==
  \/ \E v \in Voter, fee \in RegisterFees : RegisterVoter(v, fee)
  \/ \E v \in Voter : CreateProposal(v)
  \/ \E v \in Voter, i \in Index, fee \in Amounts : StartProposal(v, i, fee)
  \/ \E v \in Voter, a \in Amounts : ReserveTokens(v, a)
  \/ \E v \in Voter, a \in Amounts : UnreserveTokens(v, a)
  \/ \E v \in Voter, i \in Index : VoteProposalEnded(v, i)
  \/ \E v \in Voter, i \in Index : VoteProposalAye(v, i)
  \/ \E v \in Voter, items \in Batches : VoteMultipleEnded(v, items)
  \/ \E v \in Voter, items \in Batches : VoteMultipleAye(v, items)
  \/ AdvanceBlock

Spec == Init /\ [][Next]_vars

-----------------------------------------------------------------------------
(* Properties.                                                             *)

\* Type invariant: every table and balance keeps its Rust type.
TypeOK ==
  /\ registered \subseteq Voter
  /\ free \in [Voter -> Nat]
  /\ reserved \in [Voter -> Nat]
  /\ status \in [Index -> Status]
  /\ endBlock \in [Index -> Nat]
  /\ count \in Nat
  /\ voted \in [Index -> SUBSET Voter]
  /\ ayeVotes \in [Index -> [Voter -> Nat]]
  /\ now \in Nat
  /\ panicked \in BOOLEAN
  /\ spent \in [Voter -> Nat]

(***************************************************************************)
(* Conservation of the voters' tokens across register, start, reserve,    *)
(* unreserve and both vote calls (which rewrite the free balance): what a  *)
(* voter holds free or reserved plus what fees and the unreserve slash     *)
(* consumed is exactly the endowment; an unregistered account holds none. *)
(***************************************************************************)
BalanceConservation ==
  \A v \in Voter :
    free[v] + reserved[v] + spent[v] = IF v \in registered THEN Endowment ELSE 0

(***************************************************************************)
(* Vote window (vote_proposal, vote_multiple_proposals): a step that       *)
(* creates or changes an aye record of (i, v) is taken by a registered     *)
(* voter, while proposal i is InProgress and before its end block, and it *)
(* never lowers a record nor removes one.                                   *)
(***************************************************************************)
VoteStep ==
  \A i \in Index, v \in Voter :
    (ayeVotes'[i][v] # ayeVotes[i][v] \/ (v \in voted'[i]) # (v \in voted[i]))
      => /\ v \in registered
         /\ status[i] = "InProgress"
         /\ now < endBlock[i]
         /\ ayeVotes'[i][v] >= ayeVotes[i][v]
         /\ v \in voted'[i]
VotesOnlyWhileOpen == [][VoteStep]_vars

(***************************************************************************)
(* Fresh proposal indices (create_proposal's count() + 1 with the counter *)
(* of the CountedStorageMap; spec 2: indices are unique and never reused): *)
(* an aye record, or the key that marks a vote, exists only on a proposal  *)
(* that has been started, so a proposal that is Absent or NotStarted       *)
(* carries no votes.  Reusing an index would hand a new proposal the       *)
(* AyeVotes of the old one, which get_winner then counts.                  *)
(***************************************************************************)
VoteRecordsOnStartedProposals ==
  \A i \in Index, v \in Voter :
    (v \in voted[i] \/ ayeVotes[i][v] # 0) => status[i] \in {"InProgress", "Completed"}

(***************************************************************************)
(* Winner selection (get_winner, announced by both vote calls) against a   *)
(* reference, in every state: the winner is a proposal with the greatest   *)
(* total, the first in storage order among those tied, and 0 when every   *)
(* total is 0.                                                             *)
(***************************************************************************)
MaxTotal == Max({TotalVotes(k) : k \in Keys} \cup {0})
RefWinner ==
  IF MaxTotal = 0 THEN 0
  ELSE CHOOSE k \in Keys :
         /\ TotalVotes(k) = MaxTotal
         /\ \A j \in Keys : TotalVotes(j) = MaxTotal => HashRank[k] <= HashRank[j]
WinnerMatchesReference == GetWinner = RefWinner

(***************************************************************************)
(* Quadratic cost (spec glossary: weight = floor(sqrt(tokens committed))): *)
(* no account ever holds more than the endowment, so no voter's aye weight *)
(* on one proposal may exceed floor(sqrt(Endowment)).                      *)
(***************************************************************************)
WeightWithinStake ==
  \A i \in Index, v \in Voter : ayeVotes[i][v] <= ISqrt(Endowment)

\* A batch that lists one proposal in two Aye items (the already-voted
\* check runs once, before the loop that adds to the record).
RepeatsAyeIndex(items) ==
  \E j, k \in DOMAIN items : /\ j # k
                             /\ items[j].idx = items[k].idx
                             /\ items[j].vote = "Aye" /\ items[k].vote = "Aye"

\* A batch whose amounts sum past the Balance width, so the unchecked fold
\* that NotEnoughReservedTokens compares with the reserve has wrapped.
AmountSumWraps(items) ==
  SumOver(DOMAIN items, [k \in DOMAIN items |-> items[k].amount]) >= BalanceBound

(***************************************************************************)
(* Where the quadratic cap can break (vote_proposal, the loop of           *)
(* vote_multiple_proposals): from a state where every aye record is within *)
(* isqrt(Endowment), the only step that takes one past it is a batch vote *)
(* whose batch repeats an Aye index or whose amount sum wraps.  A single   *)
(* vote, and a batch without either flaw, never break the cap, however     *)
(* they interleave with reserve, unreserve and other voters' calls.        *)
(***************************************************************************)
FlawedBatchVote ==
  \E v \in Voter, items \in Batches :
    VoteMultipleAye(v, items) /\ (RepeatsAyeIndex(items) \/ AmountSumWraps(items))
CapStep == (WeightWithinStake /\ ~WeightWithinStake') => FlawedBatchVote
CapBrokenOnlyByFlawedBatch == [][CapStep]_vars

(***************************************************************************)
(* Refinement: the pallet implements the proposal lifecycle.  The status  *)
(* and end block of Proposals, the per-proposal sum of AyeVotes and the    *)
(* block number are the abstract state; registering, reserving,           *)
(* unreserving and a panicking batch call are stuttering steps of it.      *)
(* Every vote path's writes to AyeVotes must be a Cast on open proposals  *)
(* and every completion a Close triggered by an expired proposal.          *)
(***************************************************************************)
Lifecycle == INSTANCE ProposalLifecycle
               WITH Proposal <- Index, Period <- VotingPeriod,
                    pstatus <- status, deadline <- endBlock,
                    tally <- Tally, clock <- now
ImplementsLifecycle == Lifecycle!LSpec

\* No dispatchable panics (the expect() of update_proposal_status_to_completed).
NoRuntimePanic == ~panicked

(***************************************************************************)
(* Spec 3: a proposal is mutated to Completed only when its deadline has   *)
(* passed (the vote calls' completion of a proposal).                      *)
(***************************************************************************)
CompletedOnlyAfterEnd ==
  \A i \in Index : status[i] = "Completed" => endBlock[i] <= now

(***************************************************************************)
(* Spec 4.3.1: winner selection scans indices in ascending order, so of    *)
(* two proposals with the same greatest total the lower index wins.        *)
(***************************************************************************)
TieGoesToLowerIndex ==
  MaxTotal > 0 => \A j \in Keys : TotalVotes(j) = MaxTotal => GetWinner <= j

=============================================================================
