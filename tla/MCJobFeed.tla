----------------------------- MODULE MCJobFeed -----------------------------
\* TLC instance of JobFeed: the third job has the id of the first, the fourth
\* that of the third.
EXTENDS JobFeed

ReusedIds == [j \in Jobs |-> CASE j = 0 -> "" [] j = 2 -> "b" [] OTHER -> "a"]
TwoTargets == [j \in Jobs |-> IF j = 0 THEN 0 ELSE 1 + (j % 2)]
=============================================================================
