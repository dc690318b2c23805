--------------------------- MODULE MCThreadQueue ---------------------------
\* TLC instances of ThreadQueue.
EXTENDS ThreadQueue, TLC

\* Consumers are interchangeable (used only with safety properties).
MCSymmetry == Permutations(Consumers) \cup Permutations(Items)
=============================================================================
