------------------------------ MODULE MCTasks -------------------------------
EXTENDS Tasks, TLC

CONSTANTS c1, c2, train, trainGpu

PrefixVal == {<<train, trainGpu>>}

\* The clients are alike.
ClientSymmetry == Permutations(Client)
=============================================================================
