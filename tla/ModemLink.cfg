CONSTANTS
 MaxFaults=2
 MaxBehind=1
SPECIFICATION FairSpec
INVARIANTS TrueMeansPublished ProductionSession
PROPERTIES LossIsNoticed
