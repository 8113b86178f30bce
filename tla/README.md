# Verification of the quadratic-voting pallet

This directory holds TLA+ models, TLC configurations and TLAPS proofs for the
FRAME pallet `src/substrate-node-template/pallets/voting/src/lib.rs`. The
pallet implements quadratic voting on a Substrate chain.

## The system

The pallet has three storage items:

- `RegisteredVoters`: a map from account to `bool`.
- `Proposals`: a `CountedStorageMap` from a `u32` index to a record
  `{text, proposer, end_block, status}`.
- `AyeVotes`: a double map from (index, account) to a balance. It is
  `ValueQuery`, so a missing entry reads as 0, but `contains_key` tells
  "voted" apart from "not voted".

The pallet talks to two external components:

- **Currency** (the Balances pallet), through `make_free_balance_be`,
  `reserve`, `unreserve`, `slash`, `total_balance` and `reserved_balance`.
- **Clock**, through `frame_system::block_number`.

There are seven dispatchables. Every one of them runs inside a storage
transaction, so a call that returns an error leaves no trace.

| call | effect |
|---|---|
| `register_voter` (root) | sets the free balance to `100 - fee` and records the voter |
| `create_proposal` | inserts `NotStarted` at index `count() + 1`, with `end_block = now + VotingPeriod` |
| `start_proposal` | moves `NotStarted` to `InProgress` and burns `fee` from the free balance |
| `reserve_tokens` / `unreserve_tokens` | move tokens between free and reserved; unreserving also slashes `amount / 2` |
| `vote_proposal` | past the end block: completes the proposal and computes `get_winner`; before it, an Aye adds `isqrt(reserved)` to the caller's record |
| `vote_multiple_proposals` | checks all items, sums their amounts with an unchecked `+`, then either completes `get_winner` (if any item is past its deadline) or adds `isqrt(amount)` per Aye item |

`get_winner` scans `Proposals::iter()`. That is storage (hash) order, not
index order. It keeps the first key whose total is strictly greater than every
total seen before it.

Completion is lazy. A proposal becomes `Completed` only when someone votes on
it after its deadline.

## Modules

- **`Voting.tla`** models the whole pallet, with the Currency and the Clock.
  - **State.** One variable per storage item or ledger map:
    - `registered`
    - `status` / `endBlock` / `count`: the `Proposals` map, where `"Absent"` is `None`
    - `voted` / `ayeVotes`: the `AyeVotes` keys and values
    - `free` / `reserved`
    - `now`
    - `panicked`: an `expect` has failed
    - `spent`: a ghost holding the tokens consumed by fees and slashes
  - **Actions.** There is one action per successful path of each call:
    `RegisterVoter`, `CreateProposal`, `StartProposal`, `ReserveTokens`,
    `UnreserveTokens`, `VoteProposalEnded`, `VoteProposalAye`,
    `VoteMultipleEnded` and `VoteMultipleAye`, plus `AdvanceBlock` for the
    clock.
    - An action's guard is the conjunction of the call's `ensure!`s.
    - Error paths are stuttering steps, because of the transaction rollback.
    - Nay and Abstain before the deadline change nothing, so they are also
      stuttering steps.
  - **`get_winner`** is written in closed form. A key "raises the maximum"
    when its total is positive and greater than the total of every key earlier
    in hash order. The winner is the last such key in that order.
  - **Integer widths** are constants:
    - `IndexBound` = 2^32, because `count() + 1` is `u32`.
    - `BalanceBound` = 2^128, because the batch `fold` wraps in release
      builds.
- **`MC_Voting.tla`** instantiates the model for TLC:
  - two voters (with symmetry);
  - the real Blake2_128Concat order of keys 0..3, which is 0, 2, 1, 3;
  - `IndexBound` 4 and `BalanceBound` 128.
- **`ProposalLifecycle.tla`** is the abstract specification of what the
  ledger and the tally promise about one proposal (spec §3, §4.2, §4.3).
  It has no voters, balances or weights. Its state is `pstatus`, `deadline`,
  `tally` (aye weight per proposal) and `clock`, and its actions are:
  - `Open(i)`: an absent proposal becomes `NotStarted` with deadline
    `clock + Period`;
  - `Start(i)`;
  - `Cast`: any number of tallies grow, each on a proposal that is
    `InProgress` and before its deadline;
  - `Close(i)`: when *some* `InProgress` proposal is past its deadline, an
    `InProgress` proposal is completed. The one closed need not be the expired
    one, because the batch path completes the winner (spec §4.3);
  - `Tick`.
- **Refinement.** `Voting` defines
  `Lifecycle == INSTANCE ProposalLifecycle WITH Proposal <- Index,
  Period <- VotingPeriod, pstatus <- status, deadline <- endBlock,
  tally <- Tally, clock <- now`. Here `Tally[i]` is the sum of the
  `AyeVotes` under prefix `i`, the same sum `get_winner` computes.
  `ImplementsLifecycle == Lifecycle!LSpec` is checked as a temporal property.
- **`VotingProofs.tla`**, **`LifecycleProofs.tla`**, **`WinnerProofs.tla`**,
  **`ActionProofs.tla`** and **`StakeProofs.tla`** hold the TLAPS proofs.

## Runs

| run | cfg | result |
|---|---|---|
| core | `MC_Voting.cfg` | pass: about 35k distinct states; every action fires |
| cap_flawed_batches | `MC_Voting_cap.cfg` | pass: about 700 distinct states; `CapBrokenOnlyByFlawedBatch` holds |
| batch_duplicate_index | `MC_Voting_duplicate.cfg` | `WeightWithinStake` violated |
| batch_amount_wrap | `MC_Voting_wrap.cfg` | `WeightWithinStake` violated |
| batch_winner_zero_panic | `MC_Voting_panic.cfg` | `NoRuntimePanic` violated |
| batch_completes_open_proposal | `MC_Voting_early.cfg` | `CompletedOnlyAfterEnd` violated |
| tie_break_order | `MC_Voting_tie.cfg` | `TieGoesToLowerIndex` violated |
| index_wrap_reuse | `MC_Voting_wrapindex.cfg` | `VoteRecordsOnStartedProposals` violated |

The core run checks six properties:

- **`TypeOK`**.
- **`BalanceConservation`**: for each voter, free + reserved + spent equals
  the endowment, or 0 for an unregistered account.
- **`WinnerMatchesReference`**: `get_winner` equals an argmax reference,
  with ties going to the first key in storage order and 0 when all totals are
  0.
- **`VoteRecordsOnStartedProposals`**: an account that has an `AyeVotes`
  entry (or a non-zero weight) on a proposal only exists when that proposal is
  `InProgress` or `Completed`. Breaking it takes several calls: create, start,
  reserve, vote, and then a create that lands on the same index.
- **`VotesOnlyWhileOpen`**: an aye record changes only for a registered voter,
  on an InProgress proposal, before its end block, and only upward.
- **`ImplementsLifecycle`**: the refinement above. It fails if a tally grows
  on a proposal that is not open, if a proposal is completed while nothing has
  expired, or if a deadline moves. It also implies that a status only moves
  Absent→NotStarted→InProgress→Completed and that an end block never
  changes, so no separate property states that. It does not catch the early
  completion below: the abstract `Close` lets any `InProgress` proposal be
  completed once some proposal has expired.

The `cap_flawed_batches` run checks **`CapBrokenOnlyByFlawedBatch`**, an action
property. From a state where every aye record is within `isqrt(Endowment)`,
the only step that takes a record past the cap is a batch vote that either
lists one proposal in two Aye items or has an amount sum that wraps. Its
instance (one voter, amounts {0, 49, 127}, fee 1, batches of two items)
reaches both flawed batches, so the cap really is broken in it. The property
shows that `vote_proposal` and every other batch keep the cap. One voter is
enough because the cap is per voter, and no other voter's call changes this
voter's records or reserve. With two voters the run takes more than eight
minutes.

Each of these properties has a mutant of the code that TLC catches. See
`mutants` in `PROJECT.json`.

The violation runs are findings against the spec (`spec.md`) and the code:

- **Duplicate indices.** A batch can repeat an index, and the "already voted"
  check runs only once, before the loop. One voter then gets 7 + 7 = 14 weight
  from 49 + 49 tokens, while `isqrt(100)` is only 10.
- **Wrapping amount sum.** The batch sum of amounts wraps: 127 + 1 becomes 0.
  The reserve check then passes with nothing reserved.
- **Panic on winner 0.** A batch vote after a deadline, when nobody has voted,
  completes `get_winner() = 0` and panics in `expect`.
- **Early completion.** The batch deadline path completes the *winner*, which
  can be a proposal that is still open.
- **Index wrap.** `count() + 1` is a `u32`. With `IndexBound` 3, the first two
  creates take indices 1 and 2, and the counter saturates at 2. The third
  create takes the wrapped index 0, which is still fresh. The fourth takes
  index 0 again, after it has been started and voted on, and the insert
  overwrites proposal 0 with a fresh `NotStarted` record. The old `AyeVotes`
  of proposal 0 survive, so the new proposal carries votes before it is
  started, and its earlier voters are refused with `VoterAlreadyVoted`.
  Spec §3 says indices are unique, and §4.2 says they are never reused. On
  the chain this takes 2^32 proposals.
- **Hash-order ties.** Ties are broken in hash order, so proposal 2 beats
  proposal 1. Spec §4.3.1 says indices are scanned in ascending order.

### Bounds

The core run uses these bounds:

- 2 voters;
- at most 2 proposals;
- blocks 1..3, with `VotingPeriod` 2;
- fees {0, 50, 101}, which cover the zero-fee, good and underflow paths;
- amounts {0, 25};
- batches of length ≤ 2, which can repeat an index.

These bounds are enough to reach the following cases:

- a vote before, at and after the deadline;
- two proposals whose totals tie, or differ;
- the start of a proposal after another has been completed;
- an unreserve whose slash takes the penalty from the tokens it has just
  freed.

The slash branch that takes from the reserved balance is kept in
`UnreserveTokens`, as `pallet_balances` has it, but it is never reached: the
free balance after the unreserve is at least `amount`, which covers the
penalty `amount / 2`.

In the core run `IndexBound` 4 is larger than `MaxProposals`, so the index
never wraps. The wrap is the subject of `index_wrap_reuse`, which uses one
voter and three indices, the fewest that reach it. It takes four creates.

### Fairness

None. No code path forces anyone to vote or to complete a proposal: completion
happens only as a side effect of a user's call. "Every expired proposal is
eventually completed" is therefore false of the code, and it is not claimed.
The abstract lifecycle has no fairness either, for the same reason: its
`Close` is lazy.

## Proofs (TLAPS)

The proofs rely on the named assumptions of `Voting`:

- `Endowment < BalanceBound`;
- `Voter` is finite;
- `HashRank` is injective;
- amounts are below `BalanceBound`.

`VotingProofs.tla` proves two theorems:

- **`TypeCorrect`**: `Spec => []TypeOK`.
  - `InitTypeOK` and `NextTypeOK` prove it, with one step per action.
  - The lemma `ISqrtNat` shows that `isqrt` is a natural number. `ISqrt` is a
    cardinality of a finite set, which is what makes the lemma provable.
- **`TokensConserved`**: `Spec => []BalanceConservation`.
  - The inductive invariant is `TypeOK /\ BalanceConservation`.
  - The register step needs to know that an unregistered account holds 0
    reserved tokens. That follows from the invariant, because three naturals
    that sum to 0 are all 0 (lemma `ZeroSum`).

Sums (`iter_prefix(..).sum()`, the batch weight and the batch amount) are written as
`SumOver(S, f)`, the cardinality of the set of pairs `<<x, n>>` with
`n \in 1 .. f[x]`. The lemmas `SumOverNat`, `SumOverMono`, `SumOverStrict`
and `SumOverPositive` then follow from facts about finite sets, with no
induction.

`LifecycleProofs.tla` proves two theorems under the hypothesis
`NoWrap == MaxProposals < IndexBound`. It is a hypothesis of the theorems,
not an `ASSUME`, because the `index_wrap_reuse` run violates it on purpose.

- **`VotesOnlyOnStarted`**: `NoWrap => (Spec => []VoteRecordsOnStartedProposals)`.
  The property is not inductive on its own. A create step could land on an
  index that already has votes. The inductive invariant `RInv` adds
  `CountInv`: `count \in 0 .. MaxProposals`, and index `i` is present exactly
  when `i \in 1 .. count`. With `NoWrap`, `count + 1` is then always a fresh
  index (lemma `CreateFresh`).
- **`LifecycleRefinement`**: `NoWrap => (Spec => ImplementsLifecycle)`.
  - `InitRefines` shows that `Init` maps to `LInit`.
  - `NextRefines` shows that every step, under `RInv`, maps to an abstract
    step or a stutter. There is one case per action:
    - create maps to `Open`;
    - start maps to `Start`;
    - an aye vote maps to `Cast`. It uses `SumOverStrict`: the tally grows
      strictly because `isqrt` of a positive reservation is positive;
    - both deadline paths map to `Close`. The batch case needs
      `WinnerStarted`: the winner has a positive total, so by `RInv` it is
      `InProgress`, or `Completed` (then the step is a stutter);
    - the block step maps to `Tick`;
    - the others leave the abstract state unchanged.

`WinnerProofs.tla` proves **`WinnerCorrect`**: `Spec => []WinnerMatchesReference`,
for every injective storage order and every number of voters and proposals.
The lemma `ArgMaxExists` (a finite non-empty set has an argmax of an integer
function) is proved from the well-foundedness of strict inclusion on finite
sets, taking a minimal "dominating" subset. With it, the proof takes the
greatest total, and among the keys that reach it the one first in storage
order. That key is the only one in `LastRaise` and the only choice of
`RefWinner`. What the proof does not cover is that `GetWinner` is the right
closed form of the loop; that rests on the model (see plan item 2).

`ActionProofs.tla` proves **`VotesMoveOnlyWhileOpen`**:
`Spec => VotesOnlyWhileOpen`, for every value of the constants.

- It needs only `TypeOK`, because create never touches the vote records.
- The batch case uses the lemma `BatchWeightGrows`: the new record is the old
  record plus a sum of naturals.

`StakeProofs.tla` proves **`CapBrokenOnlyByFlawedBatchHolds`**:
`Spec => CapBrokenOnlyByFlawedBatch`. It holds for every value of the
constants and for batches of any length. The two violations of the quadratic
cap are the two flawed batches, and the theorem shows there is no third way
to break it.

- The inductive invariant is `KInv`: `IInv` (`TypeOK` and
  `BalanceConservation`) plus `NoRecordWithoutKey`. `NoRecordWithoutKey` says
  that an account without an `AyeVotes` key on a proposal has weight 0 there.
  Both vote paths add the key for every record they write (`NextKInv`).
- The step lemma `NextCap` takes a step from a state within the cap that is
  not a flawed batch vote, and shows it stays within the cap:
  - Both calls refuse a voter who already holds the key. So the old record is
    0, and the new one is `isqrt` of one amount.
  - For `vote_proposal`, the amount is `reserved`, which
    `BalanceConservation` bounds by the endowment.
  - For a batch without a repeated Aye index, each proposal has exactly one
    Aye item (`OneAyeItem`).
  - For a batch whose sum does not wrap, `BatchAmount` is the true sum. Its
    item is one term of that sum (`SumOverTerm`), and the reserve covers the
    sum (`ItemWithinCap`).
- Further lemmas: `ISqrtMono`, `PairCount` and `SumOverSingleton`.
- `BatchAmount` is written as `SumOver(...) % BalanceBound`. That is the same
  sum as the code's fold, and the prover can unfold it; the fold of the
  community modules is a recursive function it cannot unfold.

Some things are only model-checked:

- liveness, which TLAPS cannot handle (and none is claimed);
- anything about recursive definitions over data.

None of the proved modules reaches a `RECURSIVE` operator: `GetWinner` is a
closed form, and sums are cardinalities.

## Not modelled

- **Currency.** The existential deposit and account reaping are left out.
- **Balances before registration.** An account that held tokens before it
  registered is not modelled: `make_free_balance_be` would overwrite them.
- **Events.** They are output only.
- **Proposal fields.** The proposal text and proposer are not modelled, since
  no logic reads them.
- **Tests.** `tests.rs` is test code and is not modelled.

## Plan for further work

1. Add an Init with pre-funded accounts and an existential deposit.
2. Write the literal `get_winner` loop as a recursive function in a TLC-only
   module, and check it against `GetWinner`.
