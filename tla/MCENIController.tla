--------------------------- MODULE MCENIController -----------------------------
EXTENDS ENIController, TLC

Symmetry == Permutations(ENI)
AllFaults == FaultKinds
================================================================================
