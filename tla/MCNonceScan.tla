---------------------------- MODULE MCNonceScan ----------------------------
\* TLC instance of NonceScan: 4 bits to divide, two values of the top bits.
EXTENDS NonceScan, MCHelpers

\* The user's pool leaves the top bits 0; the developer's sets them.
Bases == [p \in Pools |-> [j \in Jobs |-> IF p = 1 /\ j > 0 THEN LowMask + 1 ELSE 0]]

\* Three in reach of one batch, and one alone.
Golden == [p \in Pools |-> [j \in Jobs |->
             IF j = 0 THEN {} ELSE {Bases[p][j] + n : n \in {1, 2, 3, 8}}]]
=============================================================================
