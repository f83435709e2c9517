------------------------------ MODULE MCAccess ------------------------------
(***************************************************************************)
(* Access for TLC: a user, two instances and two handlers.                 *)
(***************************************************************************)
EXTENDS Access, TLC

MCSymmetry == Permutations(Sessions) \cup Permutations(Jtis)
              \cup Permutations(Instances)
=============================================================================
