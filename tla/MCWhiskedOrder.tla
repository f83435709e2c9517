--------------------------- MODULE MCWhiskedOrder ---------------------------
EXTENDS WhiskedOrder, TLC

MCSymmetry ==
    Permutations(Sessions) \cup Permutations(Codes) \cup
    Permutations(IntentIds) \cup Permutations(OrderIds)
=============================================================================
