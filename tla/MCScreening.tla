---------------------------- MODULE MCScreening ----------------------------
EXTENDS Screening, TLC

MCSymmetry ==
    Permutations(Users) \cup Permutations(StripeSessions) \cup Permutations(Sessions)
    \cup Permutations(Screenings)
=============================================================================
