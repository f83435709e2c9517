----------------------------- MODULE MCSupport -----------------------------
(***************************************************************************)
(* Support for TLC: three users who race for the one place of a visit, or  *)
(* one user who books two visits, which is what racing gifts need.         *)
(***************************************************************************)
EXTENDS Support, TLC

MCBound ==
    \/ Cardinality(DOMAIN visits) <= 1
    \/ /\ Cardinality(DOMAIN bookings) <= 2
       /\ \A b, c \in DOMAIN bookings : bookings[b].user = bookings[c].user

MCSymmetry ==
    Permutations(Users) \cup Permutations(Staff) \cup Permutations(Sessions)
    \cup Permutations(VisitIds) \cup Permutations(BookingIds) \cup Permutations(GiftIds)
=============================================================================
