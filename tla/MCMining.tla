------------------------------ MODULE MCMining ------------------------------
\* TLC instances of Mining.
EXTENDS Mining, TLC

Forever == -1

\* Every job has a block template of its own, on a block of its own.
NewBlocks == [j \in Jobs |-> j]
\* Job 2 is a new template on the block of job 1, job 3 one on the next block.
TwoBlocks == [j \in Jobs |-> CASE j = 0 -> 0 [] j \in 1..2 -> 1 [] OTHER -> 2]

\* Equal difficulties, once a job has told them.
EqualDiff == [p \in Pools |-> [j \in Jobs |-> IF j = 0 THEN 0 ELSE 1]]

Symmetry == Permutations(Miners)
=============================================================================
