---------------------------- MODULE MCDisclosure ----------------------------
EXTENDS Disclosure, TLC

MCSymmetry ==
    Permutations(Users) \cup Permutations(Businesses) \cup Permutations(TokenIds)
    \cup Permutations(AttemptIds) \cup Permutations(Sessions)
=============================================================================
