--------------------------- MODULE ProposalLifecycle ---------------------------
(***************************************************************************)
(* What the pallet promises about proposals, without voters, balances or  *)
(* the quadratic weights (spec 2, 3 and 4.3).  A proposal is opened with a *)
(* deadline one voting period away, started, voted on, and closed.         *)
(*                                                                         *)
(*  - Its aye tally only grows, and only while it is InProgress and its    *)
(*    deadline has not been reached.                                       *)
(*  - Completion is lazy: a proposal is closed only by a step that sees    *)
(*    some InProgress proposal past its deadline.  The one closed is an    *)
(*    InProgress proposal: the expired one (single vote) or the winner    *)
(*    (batch vote, spec 4.3).                                              *)
(*  - Nothing else changes a proposal; the clock only moves forward.       *)
(***************************************************************************)
EXTENDS Naturals

CONSTANTS
  Proposal,    \* the proposal indices
  Period       \* the voting period

VARIABLES
  pstatus,     \* Absent, NotStarted, InProgress or Completed
  deadline,    \* the end block fixed when the proposal is opened
  tally,       \* total aye weight of each proposal
  clock        \* the current block

avars == <<pstatus, deadline, tally, clock>>

PStatus == {"Absent", "NotStarted", "InProgress", "Completed"}

\* Type invariant of the abstract state.
LifecycleTypeOK ==
  /\ pstatus \in [Proposal -> PStatus]
  /\ deadline \in [Proposal -> Nat]
  /\ tally \in [Proposal -> Nat]
  /\ clock \in Nat

\* A proposal that may receive votes now.
IsOpen(i) == pstatus[i] = "InProgress" /\ clock < deadline[i]

\* Some proposal is InProgress and past its deadline.
SomeExpired == \E j \in Proposal : pstatus[j] = "InProgress" /\ deadline[j] <= clock

LInit ==
  /\ pstatus = [i \in Proposal |-> "Absent"]
  /\ deadline = [i \in Proposal |-> 0]
  /\ tally = [i \in Proposal |-> 0]
  /\ clock \in Nat

Open(i) ==
  /\ pstatus[i] = "Absent"
  /\ pstatus' = [pstatus EXCEPT ![i] = "NotStarted"]
  /\ deadline' = [deadline EXCEPT ![i] = clock + Period]
  /\ UNCHANGED <<tally, clock>>

Start(i) ==
  /\ pstatus[i] = "NotStarted"
  /\ pstatus' = [pstatus EXCEPT ![i] = "InProgress"]
  /\ UNCHANGED <<deadline, tally, clock>>

\* One call adds aye weight to any number of open proposals.
Cast ==
  /\ tally' \in [Proposal -> Nat]
  /\ \A i \in Proposal : tally'[i] # tally[i] => IsOpen(i) /\ tally'[i] > tally[i]
  /\ UNCHANGED <<pstatus, deadline, clock>>

Close(i) ==
  /\ SomeExpired
  /\ pstatus[i] = "InProgress"
  /\ pstatus' = [pstatus EXCEPT ![i] = "Completed"]
  /\ UNCHANGED <<deadline, tally, clock>>

Tick ==
  /\ clock' = clock + 1
  /\ UNCHANGED <<pstatus, deadline, tally>>

LNext ==
  \/ \E i \in Proposal : Open(i) \/ Start(i) \/ Close(i)
  \/ Cast
  \/ Tick

LSpec == LInit /\ [][LNext]_avars
================================================================================
