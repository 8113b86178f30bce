CONSTANTS
  Voter = {v1}
  Endowment = 100
  VotingPeriod = 2
  IndexBound = 4
  BalanceBound = 128
  HashRank <- MC_HashRank
  RegisterFees = {1}
  Amounts = {0, 49, 127}
  MaxBatch = 2
  MaxProposals = 2
  MaxBlock = 3
SYMMETRY MC_Symmetry
SPECIFICATION Spec
PROPERTY CapBrokenOnlyByFlawedBatch
CHECK_DEADLOCK FALSE
