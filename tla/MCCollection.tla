---------------------------- MODULE MCCollection ----------------------------
EXTENDS Collection, TLC

MCSymmetry ==
    Permutations(Users) \cup Permutations(Boxes) \cup Permutations(Sessions)
    \cup Permutations(EventIds) \cup Permutations(OrderIds)
=============================================================================
