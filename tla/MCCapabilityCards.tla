--------------------------- MODULE MCCapabilityCards ---------------------------
\* CapabilityCards on small sets of requests and threads.
EXTENDS CapabilityCards, TLC
Symmetry == Permutations(Polls) \union Permutations(Answers) \union Permutations(Fetches)
===============================================================================
