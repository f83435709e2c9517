---------------------------- MODULE MCAdmission ----------------------------
(***************************************************************************)
(* Admission for TLC: two requests, the second signed by a clock that is   *)
(* ahead.  What follows a third handling is not explored.                  *)
(***************************************************************************)
EXTENDS Admission, TLC

CONSTANTS r1, r2
MCDate == (r1 :> 0) @@ (r2 :> 1)

MCBound == Len(handled[r1]) + Len(handled[r2]) <= 2

MCSymmetry == Permutations(Sessions) \cup Permutations(Editors)
=============================================================================
