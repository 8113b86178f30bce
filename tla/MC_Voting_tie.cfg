CONSTANTS
  Voter = {v1, v2}
  Endowment = 100
  VotingPeriod = 2
  IndexBound = 4
  BalanceBound = 128
  HashRank <- MC_HashRank
  RegisterFees = {50}
  Amounts = {0, 25}
  MaxBatch = 2
  MaxProposals = 2
  MaxBlock = 3
SYMMETRY MC_Symmetry
SPECIFICATION Spec
INVARIANT TieGoesToLowerIndex
CHECK_DEADLOCK FALSE
