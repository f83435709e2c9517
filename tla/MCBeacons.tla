----------------------------- MODULE MCBeacons -----------------------------
EXTENDS Beacons, TLC

MCSymmetry ==
    Permutations(Holders) \cup Permutations(BusinessIds) \cup Permutations(FailureIds)
    \cup Permutations(Sessions) \cup Permutations(BeaconIds) \cup Permutations(Keys)
=============================================================================
