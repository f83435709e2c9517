--------------------------- MODULE MCAttestation ---------------------------
EXTENDS Attestation, TLC

\* User 5 delivers on every visit; users 1 to 5 hold the reviewer role at times.
MCStaffOf == [v \in Visits |-> 5]
\* The role grants change between requests: who the query returns varies.
MCRosters == {{1, 2, 5}, {3, 4}}
MCSymmetry == Permutations(Sessions) \cup Permutations(Photos) \cup Permutations(Users)
=============================================================================
