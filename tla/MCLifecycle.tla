----------------------------- MODULE MCLifecycle -----------------------------
EXTENDS Lifecycle, TLC

MCSymmetry == Permutations(Sessions) \cup Permutations(TokenIds)
=============================================================================
