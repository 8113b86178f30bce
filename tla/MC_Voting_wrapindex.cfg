CONSTANTS
  Voter = {v1}
  Endowment = 100
  VotingPeriod = 2
  IndexBound = 3
  BalanceBound = 128
  HashRank <- MC_HashRankWrap
  RegisterFees = {50}
  Amounts = {25}
  MaxBatch = 1
  MaxProposals = 3
  MaxBlock = 3
SPECIFICATION Spec
INVARIANT VoteRecordsOnStartedProposals
CHECK_DEADLOCK FALSE
