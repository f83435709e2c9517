---------------------------- MODULE Support_proofs ----------------------------
(***************************************************************************)
(* For any users, visits and handlers: one active booking of a user at a   *)
(* visit, how far a visit can be overbooked, and how the gifts the         *)
(* platform pays for are spaced.                                           *)
(***************************************************************************)
EXTENDS Support, FiniteSetTheorems, TLAPS

-----------------------------------------------------------------------------
(* Handlers and what they hold                                             *)

LEMMA IdleFacts == Idle \in SupportRequest /\ Idle.op = "idle"
  BY DEF SupportRequest, VisitRequest, Idle

LEMMA Constants ==
    /\ GiftMonths \in Nat /\ MaxMonth \in Nat /\ MaxCapacity \in Nat
    /\ IsFiniteSet(Sessions) /\ IsFiniteSet(BookingIds) /\ Cardinality(Sessions) \in Nat
  BY SupportAssumption, VisitsAssumption, FS_CardinalityType

\* What a request that is not idle holds.
LEMMA RequestFields ==
    ASSUME TypeOK, NEW s \in Sessions
    PROVE  /\ req[s] \in SupportRequest
           /\ req[s].op = "grant" => /\ req[s].user \in Staff /\ req[s].location \in Locations
                                     /\ req[s].number \in 1 .. MaxRoles
           /\ req[s].op \in {"arrive", "complete", "book"} => req[s].visit \in VisitIds
           /\ req[s].op = "book" => req[s].user \in Users
           /\ req[s].op \in {"attend", "cancel", "resolve", "resolved"} =>
                  req[s].booking \in BookingIds
           /\ req[s].op = "resolved" => req[s].seen \in SUBSET GiftIds
  BY DEF TypeOK, SupportRequest, VisitRequest, Idle

\* A booking a handler holds, and its row.
LEMMA HeldBooking ==
    ASSUME TypeOK, BookingsRefer, NEW s \in Sessions,
           req[s].op \in {"attend", "cancel", "resolve", "resolved"}
    PROVE  /\ req[s].booking \in DOMAIN bookings
           /\ bookings[req[s].booking] \in Booking
           /\ bookings[req[s].booking].user \in Users
  BY DEF TypeOK, BookingsRefer, Booking

LEMMA SetsFinite ==
    ASSUME TypeOK, NEW v
    PROVE  /\ IsFiniteSet(Potential(v)) /\ Cardinality(Potential(v)) \in Nat
           /\ IsFiniteSet(ActiveAt(v)) /\ Cardinality(ActiveAt(v)) \in Nat
           /\ Cardinality(ActiveAt(v)) <= Cardinality(Potential(v))
           /\ IsFiniteSet(Entering(v)) /\ Cardinality(Entering(v)) \in Nat
  <1>1. /\ Potential(v) \subseteq BookingIds /\ ActiveAt(v) \subseteq Potential(v)
        /\ Entering(v) \subseteq Sessions
    BY DEF TypeOK, Potential, ActiveAt, Entering
  <1>2. QED
    BY <1>1, Constants, FS_Subset, FS_CardinalityType

-----------------------------------------------------------------------------
(* The parts of the invariant a step leaves alone                          *)

LEMMA CountedFrame ==
    ASSUME TypeOK, CountedTogether, NEW v \in DOMAIN visits, visits[v].capacity > 0,
           Potential(v)' \subseteq Potential(v), Entering(v)' \subseteq Entering(v)
    PROVE  Cardinality(Potential(v)') + Cardinality(Entering(v)')
               <= visits[v].capacity - 1 + Cardinality(Sessions)
  <1>1. /\ Cardinality(Potential(v)') <= Cardinality(Potential(v))
        /\ Cardinality(Entering(v)') <= Cardinality(Entering(v))
        /\ Cardinality(Potential(v)') \in Nat /\ Cardinality(Entering(v)') \in Nat
        /\ Cardinality(Potential(v)) \in Nat /\ Cardinality(Entering(v)) \in Nat
    BY SetsFinite, FS_Subset, FS_CardinalityType
  <1>2. Cardinality(Potential(v)) + Cardinality(Entering(v))
            <= visits[v].capacity - 1 + Cardinality(Sessions)
    BY DEF CountedTogether
  <1>3. visits[v].capacity \in Nat /\ Cardinality(Sessions) \in Nat
    BY Constants DEF TypeOK, VisitRowsOK, Visit
  <1>4. QED
    BY <1>1, <1>2, <1>3

\* Bookings keep their user and their visit, visits their capacity.
Kept ==
    /\ DOMAIN bookings' = DOMAIN bookings
    /\ \A b \in DOMAIN bookings : /\ bookings'[b].user = bookings[b].user
                                  /\ bookings'[b].visit = bookings[b].visit
    /\ DOMAIN visits' = DOMAIN visits
    /\ \A v \in DOMAIN visits : visits'[v].capacity = visits[v].capacity

\* A handler replaces its request by one that books nothing and names a booking, if
\* any, that is active or was named before.
Replaced(s, r) ==
    /\ r \in SupportRequest
    /\ req' = [req EXCEPT ![s] = r]
    /\ r.op # "book"
    /\ r.op \in {"attend", "cancel", "resolve", "resolved"} => r.booking \in DOMAIN bookings

LEMMA BookingsReferFrame ==
    ASSUME TypeOK, BookingsRefer, Kept, NEW s \in Sessions, NEW r, Replaced(s, r)
    PROVE  BookingsRefer'
  <1>1. \A b \in DOMAIN bookings' :
           bookings'[b].visit \in DOMAIN visits' /\ visits'[bookings'[b].visit].capacity > 0
    BY DEF BookingsRefer, Kept
  <1>2. ASSUME NEW x \in Sessions
        PROVE  /\ req'[x].op \in {"attend", "cancel", "resolve", "resolved"} =>
                      req'[x].booking \in DOMAIN bookings'
               /\ req'[x].op = "book" =>
                      req'[x].visit \in DOMAIN visits' /\ visits'[req'[x].visit].capacity > 0
    BY DEF BookingsRefer, Kept, Replaced, TypeOK
  <1>3. QED
    BY <1>1, <1>2 DEF BookingsRefer

LEMMA CountedKept ==
    ASSUME TypeOK, CountedTogether, Kept,
           \A v \in DOMAIN visits : /\ Potential(v)' \subseteq Potential(v)
                                    /\ Entering(v)' \subseteq Entering(v)
    PROVE  CountedTogether'
  BY CountedFrame DEF CountedTogether, Kept

LEMMA IndexKept ==
    ASSUME IndexIsUnique, Kept, Indexed' \subseteq Indexed
    PROVE  IndexIsUnique'
  <1>1. Indexed \subseteq DOMAIN bookings
    BY DEF Indexed
  <1>2. QED
    BY <1>1 DEF IndexIsUnique, Kept

\* A booking enters the index once nothing there bars it.
LEMMA IndexGains ==
    ASSUME IndexIsUnique, Kept, NEW b \in DOMAIN bookings,
           UniqueIndex(b, bookings[b].user, bookings[b].visit),
           Indexed' \subseteq Indexed \cup {b}
    PROVE  IndexIsUnique'
  <1>1. Indexed \subseteq DOMAIN bookings
    BY DEF Indexed
  <1>2. QED
    BY <1>1 DEF IndexIsUnique, UniqueIndex, Kept

LEMMA GiftsFrame ==
    ASSUME TypeOK, GiftsDefer, GiftSpacing, UNCHANGED <<month, gifts, eligible>>,
           NEW s \in Sessions, NEW r, req' = [req EXCEPT ![s] = r],
           r.op = "resolved" =>
               \A h \in r.seen : h \in DOMAIN gifts /\ gifts[h].month + GiftMonths <= month
    PROVE  GiftsDefer' /\ GiftSpacing'
  <1>1. GiftSpacing'
    BY DEF GiftSpacing
  <1>2. GiftsDefer'
    BY DEF GiftsDefer, TypeOK
  <1>3. QED
    BY <1>1, <1>2

-----------------------------------------------------------------------------
(* The initial state                                                       *)

LEMMA InitIInv == Init => IInv
  <1> SUFFICES ASSUME Init PROVE IInv
    OBVIOUS
  <1>1. TypeOK
    BY IdleFacts, Constants DEF Init, InitV, TypeOK, VisitRowsOK
  <1>2. BookingsRefer /\ IndexIsUnique /\ GiftsDefer /\ GiftSpacing
    BY IdleFacts DEF Init, InitV, BookingsRefer, IndexIsUnique, Indexed, GiftsDefer, GiftSpacing
  <1>3. CountedTogether
    BY DEF Init, InitV, CountedTogether
  <1>4. QED
    BY <1>1, <1>2, <1>3 DEF IInv

-----------------------------------------------------------------------------
(* Steps that touch neither bookings nor gifts                             *)

\* What a step of this kind makes of its handler's request.
Quiet(s, r) ==
    /\ Replaced(s, r) /\ Kept
    /\ r.op # "resolved"
    /\ r.op \in {"attend", "cancel", "resolve"} => Active(bookings[r.booking].status)
    /\ UNCHANGED <<month, bookings, gifts, eligible>>

LEMMA QuietStep ==
    ASSUME IInv, TypeOK', NEW s \in Sessions, NEW r, Quiet(s, r)
    PROVE  IInv'
  <1>1. /\ TypeOK /\ BookingsRefer /\ IndexIsUnique /\ CountedTogether /\ GiftsDefer /\ GiftSpacing
        /\ Replaced(s, r) /\ Kept
    BY DEF IInv, Quiet
  <1>2. BookingsRefer'
    BY <1>1, BookingsReferFrame
  <1>3. IndexIsUnique'
    <2>1. Indexed' \subseteq Indexed
      BY <1>1 DEF Quiet, Replaced, Indexed, TypeOK
    <2>2. QED
      BY <1>1, <2>1, IndexKept
  <1>4. CountedTogether'
    <2>1. ASSUME NEW v \in DOMAIN visits
          PROVE  Potential(v)' \subseteq Potential(v) /\ Entering(v)' \subseteq Entering(v)
      <3>1. Entering(v)' \subseteq Entering(v)
        BY <1>1 DEF Replaced, Entering, TypeOK
      <3>2. ActiveAt(v)' = ActiveAt(v)
        BY DEF Quiet, ActiveAt
      <3>3. ASSUME NEW b \in DOMAIN bookings, bookings[b].visit = v,
                   NEW x \in Reviving', req'[x].booking = b
            PROVE  b \in Potential(v)
        <4>1. x \in Sessions /\ req'[x].op \in {"attend", "resolve", "resolved"}
          BY <3>3 DEF Reviving
        <4>2. CASE x = s
          BY <1>1, <3>3, <4>1, <4>2 DEF Quiet, Replaced, TypeOK, Potential, ActiveAt
        <4>3. CASE x # s
          BY <1>1, <3>3, <4>1, <4>3 DEF Replaced, TypeOK, Potential, Reviving
        <4>4. QED
          BY <4>2, <4>3
      <3>4. Potential(v)' \subseteq Potential(v)
        BY <3>2, <3>3 DEF Potential, Quiet
      <3>5. QED
        BY <3>1, <3>4
    <2>2. QED
      BY <1>1, <2>1, CountedKept
  <1>5. GiftsDefer' /\ GiftSpacing'
    BY <1>1, GiftsFrame DEF Quiet, Replaced
  <1>6. QED
    BY <1>2, <1>3, <1>4, <1>5 DEF IInv

\* The steps of Visits, and reads of an active booking.
LEMMA TypesOfQuiet ==
    ASSUME TypeOK, NEW s \in Sessions, NEW r \in SupportRequest, req' = [req EXCEPT ![s] = r],
           VisitRowsOK', UNCHANGED <<month, bookings, gifts, eligible>>
    PROVE  TypeOK'
  BY DEF TypeOK

LEMMA VisitHandlerStep ==
    ASSUME IInv, NEW s \in Sessions, VisitHandler(s), UNCHANGED <<month, bookings, gifts, eligible>>
    PROVE  IInv'
  <1>0. TypeOK /\ VisitRowsOK
    BY DEF IInv, TypeOK
  <1>1. ASSUME NEW u \in Staff, NEW l \in Locations, NEW n \in 1 .. MaxRoles, GrantRead(s, u, l, n)
        PROVE  IInv'
    <2> DEFINE r == [op |-> "grant", user |-> u, location |-> l, number |-> n]
    <2>1. Quiet(s, r)
      BY <1>1 DEF GrantRead, Start, visiting, Quiet, Replaced, Kept, SupportRequest, VisitRequest
    <2>2. TypeOK'
      BY <1>0, <1>1, <2>1, TypesOfQuiet DEF GrantRead, visiting, Quiet, Replaced, VisitRowsOK
    <2>3. QED
      BY <2>1, <2>2, QuietStep
  <1>2. CASE GrantCommit(s)
    <2>1. Quiet(s, Idle)
      BY <1>2, IdleFacts DEF GrantCommit, End, Quiet, Replaced, Kept
    <2>2. VisitRowsOK'
      BY <1>0, <1>2, RequestFields DEF GrantCommit, NewRole, Role, VisitRowsOK
    <2>3. TypeOK'
      BY <1>0, <2>1, <2>2, TypesOfQuiet DEF Quiet, Replaced
    <2>4. QED
      BY <2>1, <2>3, QuietStep
  <1>3. ASSUME NEW v \in VisitIds, NEW op \in {"arrive", "complete"},
               req' = [req EXCEPT ![s] = [op |-> op, visit |-> v]], UNCHANGED visiting
        PROVE  IInv'
    <2>1. Quiet(s, [op |-> op, visit |-> v])
      BY <1>3 DEF visiting, Quiet, Replaced, Kept, SupportRequest, VisitRequest
    <2>2. TypeOK'
      BY <1>0, <1>3, <2>1, TypesOfQuiet DEF visiting, Quiet, Replaced, VisitRowsOK
    <2>3. QED
      BY <2>1, <2>2, QuietStep
  <1>4. CASE ArriveCommit(s) \/ CompleteCommit(s)
    <2>1. PICK st \in VisitStatus : visits' = [visits EXCEPT ![req[s].visit].status = st]
      BY <1>4 DEF ArriveCommit, Arrived, CompleteCommit, Completed, VisitStatus
    <2>2. req' = [req EXCEPT ![s] = Idle] /\ UNCHANGED roles
      BY <1>4 DEF ArriveCommit, CompleteCommit, End
    <2>3. /\ visits' \in [DOMAIN visits -> Visit] /\ DOMAIN visits' = DOMAIN visits
          /\ \A v \in DOMAIN visits : visits'[v].capacity = visits[v].capacity
      BY <1>0, <2>1 DEF VisitRowsOK, Visit
    <2>4. Quiet(s, Idle)
      BY <2>2, <2>3, IdleFacts DEF Quiet, Replaced, Kept
    <2>5. TypeOK'
      BY <1>0, <2>2, <2>3, <2>4, TypesOfQuiet DEF Quiet, Replaced, VisitRowsOK
    <2>6. QED
      BY <2>4, <2>5, QuietStep
  <1>5. CASE Drop(s)
    <2>1. Quiet(s, Idle)
      BY <1>5, IdleFacts DEF Drop, End, visiting, Quiet, Replaced, Kept
    <2>2. TypeOK'
      BY <1>0, <1>5, <2>1, TypesOfQuiet DEF Drop, visiting, Quiet, Replaced, VisitRowsOK
    <2>3. QED
      BY <2>1, <2>2, QuietStep
  <1>6. QED
    BY <1>1, <1>2, <1>3, <1>4, <1>5 DEF VisitHandler, ArriveRead, CompleteRead, Start

LEMMA ReadBookingStep ==
    ASSUME IInv, NEW s \in Sessions, NEW b \in BookingIds,
           AttendRead(s, b) \/ CancelRead(s, b) \/ ResolveRead(s, b)
    PROVE  IInv'
  <1>0. TypeOK
    BY DEF IInv
  <1>1. PICK op \in {"attend", "cancel", "resolve"} :
            /\ req' = [req EXCEPT ![s] = [op |-> op, booking |-> b]]
            /\ b \in DOMAIN bookings /\ bookings[b].status \in {"booked", "attended"}
            /\ UNCHANGED <<visiting, month, bookings, gifts, eligible>>
    BY DEF AttendRead, CancelRead, ResolveRead, Start
  <1>2. Quiet(s, [op |-> op, booking |-> b])
    BY <1>1 DEF Quiet, Replaced, Kept, visiting, Active, SupportRequest
  <1>3. VisitRowsOK'
    BY <1>0, <1>1 DEF TypeOK, visiting, VisitRowsOK
  <1>4. TypeOK'
    BY <1>0, <1>2, <1>3, TypesOfQuiet DEF Quiet, Replaced
  <1>5. QED
    BY <1>2, <1>4, QuietStep

-----------------------------------------------------------------------------
(* Booking                                                                 *)

\* The bookings of a visit that may become active number no more than the active
\* ones and the handlers that may revive one.
LEMMA PotentialBound ==
    ASSUME TypeOK, NEW v
    PROVE  /\ Reviving \subseteq Sessions /\ IsFiniteSet(Reviving)
           /\ Cardinality(Reviving) \in Nat
           /\ Cardinality(Potential(v)) <= Cardinality(ActiveAt(v)) + Cardinality(Reviving)
  <1> DEFINE T == {req[x].booking : x \in Reviving}
             f == [x \in Reviving |-> req[x].booking]
             A == ActiveAt(v)
             B == {b \in DOMAIN bookings : bookings[b].visit = v
                                         /\ \E x \in Reviving : req[x].booking = b}
  <1>1. Reviving \subseteq Sessions /\ IsFiniteSet(Reviving) /\ Cardinality(Reviving) \in Nat
    <2>1. Reviving \subseteq Sessions
      BY DEF Reviving
    <2>2. QED
      BY <2>1, Constants, FS_Subset, FS_CardinalityType
  <1>2. f \in Surjection(Reviving, T)
    BY DEF Surjection
  <1>3. IsFiniteSet(T) /\ Cardinality(T) <= Cardinality(Reviving) /\ Cardinality(T) \in Nat
    BY <1>1, <1>2, FS_Surjection, FS_CardinalityType
  <1>4. IsFiniteSet(B) /\ Cardinality(B) <= Cardinality(T) /\ Cardinality(B) \in Nat
    <2>1. B \subseteq T
      OBVIOUS
    <2>2. QED
      BY <2>1, <1>3, FS_Subset, FS_CardinalityType
  <1>5. IsFiniteSet(A) /\ Cardinality(A) \in Nat
    BY SetsFinite
  <1>6. /\ Cardinality(A \cup B) = Cardinality(A) + Cardinality(B) - Cardinality(A \cap B)
        /\ Cardinality(A \cap B) \in Nat
    <2> HIDE DEF A, B
    <2>1. Cardinality(A \cup B) = Cardinality(A) + Cardinality(B) - Cardinality(A \cap B)
      BY <1>4, <1>5, FS_Union
    <2>2. IsFiniteSet(A \cap B)
      BY <1>5, FS_Intersection
    <2>3. QED
      BY <2>1, <2>2, FS_CardinalityType
  <1>7. Potential(v) = A \cup B
    BY DEF Potential
  <1>8. Cardinality(A \cup B) <= Cardinality(A) + Cardinality(Reviving)
    <2> HIDE DEF A, B, T
    <2>1. QED
      BY <1>1, <1>3, <1>4, <1>5, <1>6
  <1>9. QED
    BY <1>1, <1>7, <1>8

LEMMA Sizes ==
    TypeOK => \A w : /\ Reviving \subseteq Sessions /\ IsFiniteSet(Reviving)
                     /\ Cardinality(Reviving) \in Nat
                     /\ Cardinality(Potential(w)) <= Cardinality(ActiveAt(w)) + Cardinality(Reviving)
                     /\ Cardinality(Potential(w)) \in Nat
                     /\ IsFiniteSet(Entering(w)) /\ Cardinality(Entering(w)) \in Nat
  BY PotentialBound, SetsFinite

\* A handler counted the bookings and found room: those that entered or revive a
\* booking at the same time are other handlers.
LEMMA BookReadCounts ==
    ASSUME IInv, TypeOK', NEW s \in Sessions, NEW u \in Users, NEW v \in VisitIds, BookRead(s, u, v)
    PROVE  Cardinality(Potential(v)') + Cardinality(Entering(v)')
               <= visits[v].capacity - 1 + Cardinality(Sessions)
  <1>1. TypeOK /\ v \in DOMAIN visits /\ visits[v].capacity \in Nat
    BY Constants DEF IInv, BookRead, TypeOK, VisitRowsOK, Visit
  <1>2. Cardinality(ActiveAt(v)') < visits[v].capacity /\ Cardinality(ActiveAt(v)') \in Nat
    <2>1. ActiveAt(v)' = ActiveAt(v)
      BY DEF BookRead, ActiveAt
    <2>2. QED
      BY <1>1, <2>1, SetsFinite DEF BookRead, Room
  <1>3. /\ (Reviving \subseteq Sessions /\ IsFiniteSet(Reviving) /\ Cardinality(Reviving) \in Nat)'
        /\ (Cardinality(Potential(v)) <= Cardinality(ActiveAt(v)) + Cardinality(Reviving))'
        /\ (Cardinality(Potential(v)) \in Nat)'
        /\ (IsFiniteSet(Entering(v)) /\ Cardinality(Entering(v)) \in Nat)'
    <2>1. (\A w : /\ Reviving \subseteq Sessions /\ IsFiniteSet(Reviving)
                  /\ Cardinality(Reviving) \in Nat
                  /\ Cardinality(Potential(w)) <= Cardinality(ActiveAt(w)) + Cardinality(Reviving)
                  /\ Cardinality(Potential(w)) \in Nat
                  /\ IsFiniteSet(Entering(w)) /\ Cardinality(Entering(w)) \in Nat)'
      BY Sizes, PTL
    <2>2. QED
      BY <2>1
  <1>4. Cardinality(Reviving') + Cardinality(Entering(v)') <= Cardinality(Sessions)
    <2>1. Reviving' \cup Entering(v)' \subseteq Sessions /\ Reviving' \cap Entering(v)' = {}
      BY DEF Reviving, Entering
    <2>2. /\ Cardinality(Reviving' \cup Entering(v)') <= Cardinality(Sessions)
          /\ Cardinality(Reviving' \cup Entering(v)')
                 = Cardinality(Reviving') + Cardinality(Entering(v)') - 0
      <3>1. Cardinality(Reviving' \cup Entering(v)') <= Cardinality(Sessions)
        BY <2>1, Constants, FS_Subset
      <3>2. Cardinality(Reviving' \cup Entering(v)')
                = Cardinality(Reviving') + Cardinality(Entering(v)') - Cardinality({})
        BY <1>3, <2>1, FS_Union
      <3>3. QED
        BY <3>1, <3>2, FS_EmptySet
    <2>3. QED
      BY <1>3, <2>2, Constants
  <1>5. QED
    BY <1>1, <1>2, <1>3, <1>4, Constants

LEMMA BookReadStep ==
    ASSUME IInv, NEW s \in Sessions, NEW u \in Users, NEW v \in VisitIds, BookRead(s, u, v)
    PROVE  IInv'
  <1> DEFINE r == [op |-> "book", user |-> u, visit |-> v]
  <1>1. /\ TypeOK /\ BookingsRefer /\ IndexIsUnique /\ CountedTogether /\ GiftsDefer /\ GiftSpacing
        /\ req[s] = Idle /\ req' = [req EXCEPT ![s] = r] /\ r \in SupportRequest
        /\ UNCHANGED <<visits, roles, month, bookings, gifts, eligible>>
    BY DEF IInv, BookRead, Start, SupportRequest, visiting
  <1>2. TypeOK'
    BY <1>1 DEF TypeOK, VisitRowsOK
  <1>3. v \in DOMAIN visits /\ visits[v].capacity > 0
    <2>1. Cardinality(ActiveAt(v)) \in Nat
      BY <1>1, SetsFinite
    <2>2. v \in DOMAIN visits /\ visits[v].capacity \in Nat
      BY <1>1, Constants DEF BookRead, TypeOK, VisitRowsOK, Visit
    <2>3. QED
      BY <2>1, <2>2 DEF BookRead, Room
  <1>4. BookingsRefer'
    BY <1>1, <1>3 DEF BookingsRefer, TypeOK
  <1>5. Kept
    BY <1>1 DEF Kept
  <1>6. IndexIsUnique'
    <2>1. Indexed' \subseteq Indexed
      BY <1>1 DEF Indexed, TypeOK
    <2>2. QED
      BY <1>1, <1>5, <2>1, IndexKept
  <1>7. CountedTogether'
    <2>1. ASSUME NEW w \in DOMAIN visits, visits[w].capacity > 0
          PROVE  Cardinality(Potential(w)') + Cardinality(Entering(w)')
                     <= visits[w].capacity - 1 + Cardinality(Sessions)
      <3>1. CASE w = v
        BY <1>2, <3>1, BookReadCounts
      <3>2. CASE w # v
        <4>1. Potential(w)' \subseteq Potential(w)
          BY <1>1 DEF Potential, ActiveAt, Reviving, TypeOK
        <4>2. Entering(w)' \subseteq Entering(w)
          BY <1>1, <3>2 DEF Entering, TypeOK
        <4>3. QED
          BY <1>1, <2>1, <4>1, <4>2, CountedFrame
      <3>3. QED
        BY <3>1, <3>2
    <2>2. QED
      BY <1>1, <2>1 DEF CountedTogether
  <1>8. GiftsDefer' /\ GiftSpacing'
    BY <1>1, GiftsFrame
  <1>9. QED
    BY <1>2, <1>4, <1>6, <1>7, <1>8 DEF IInv

LEMMA BookCommitStep ==
    ASSUME IInv, NEW s \in Sessions, NEW b \in BookingIds, BookCommit(s, b)
    PROVE  IInv'
  <1> DEFINE u == req[s].user
             v == req[s].visit
  <1>1. /\ TypeOK /\ BookingsRefer /\ IndexIsUnique /\ CountedTogether /\ GiftsDefer /\ GiftSpacing
        /\ req[s].op = "book" /\ req' = [req EXCEPT ![s] = Idle]
        /\ b \notin DOMAIN bookings /\ UniqueIndex(b, u, v)
        /\ UNCHANGED <<visits, roles, month, gifts, eligible>>
    BY DEF IInv, BookCommit, End, visiting
  <1>2. /\ u \in Users /\ v \in VisitIds /\ v \in DOMAIN visits /\ visits[v].capacity > 0
        /\ NewBooking(u, v) \in Booking
    BY <1>1, RequestFields DEF BookingsRefer, NewBooking, Booking, BookingStatus
  <1>3. /\ DOMAIN bookings' = DOMAIN bookings \cup {b}
        /\ bookings'[b] = NewBooking(u, v)
        /\ \A c \in DOMAIN bookings : bookings'[c] = bookings[c]
        /\ bookings' \in [DOMAIN bookings \cup {b} -> Booking]
    <2>1. bookings' = [c \in DOMAIN bookings \cup {b} |->
                          IF c = b THEN NewBooking(u, v) ELSE bookings[c]]
      BY DEF BookCommit
    <2>2. QED
      BY <1>1, <1>2, <2>1 DEF TypeOK
  <1>4. TypeOK'
    <2>1. req' \in [Sessions -> SupportRequest]
      BY <1>1, IdleFacts DEF TypeOK
    <2>2. QED
      BY <1>1, <1>3, <2>1 DEF TypeOK, VisitRowsOK
  <1>5. BookingsRefer'
    BY <1>1, <1>2, <1>3, IdleFacts DEF BookingsRefer, TypeOK, NewBooking
  <1>6. IndexIsUnique'
    <2>1. Indexed' \subseteq Indexed \cup {b}
      BY <1>1, <1>3, IdleFacts DEF Indexed, TypeOK
    <2>2. Indexed \subseteq DOMAIN bookings
      BY DEF Indexed
    <2>3. ASSUME NEW c \in Indexed
          PROVE  bookings'[c] = bookings[c] /\ c # b
                 /\ (bookings[c].user # u \/ bookings[c].visit # v)
      BY <1>1, <1>3, <2>2 DEF UniqueIndex
    <2>4. bookings'[b].user = u /\ bookings'[b].visit = v
      BY <1>3 DEF NewBooking
    <2>5. QED
      BY <1>1, <2>1, <2>3, <2>4 DEF IndexIsUnique
  <1>7. CountedTogether'
    <2>1. ASSUME NEW w \in DOMAIN visits, visits[w].capacity > 0
          PROVE  Cardinality(Potential(w)') + Cardinality(Entering(w)')
                     <= visits[w].capacity - 1 + Cardinality(Sessions)
      <3>0. \A x \in Reviving' : x \in Reviving /\ req'[x] = req[x] /\ req[x].booking # b
        BY <1>1, IdleFacts DEF Reviving, TypeOK, BookingsRefer
      <3>1. CASE w = v
        <4>1. Potential(w)' \subseteq Potential(w) \cup {b}
          BY <1>3, <3>0 DEF Potential, ActiveAt
        <4>2. Entering(w)' \subseteq Entering(w) \ {s} /\ s \in Entering(w)
          BY <1>1, <3>1, IdleFacts DEF Entering, TypeOK
        <4>3. /\ IsFiniteSet(Potential(w)) /\ Cardinality(Potential(w)) \in Nat
              /\ IsFiniteSet(Entering(w)) /\ Cardinality(Entering(w)) \in Nat
          BY <1>1, SetsFinite
        <4>4. /\ Cardinality(Potential(w)') <= Cardinality(Potential(w)) + 1
              /\ Cardinality(Potential(w)') \in Nat
          <5>1. /\ IsFiniteSet(Potential(w) \cup {b})
                /\ Cardinality(Potential(w) \cup {b}) <= Cardinality(Potential(w)) + 1
            <6>1. /\ IsFiniteSet(Potential(w) \cup {b})
                  /\ Cardinality(Potential(w) \cup {b}) =
                         IF b \in Potential(w) THEN Cardinality(Potential(w))
                         ELSE Cardinality(Potential(w)) + 1
              BY <4>3, FS_AddElement, Zenon
            <6>2. QED
              BY <4>3, <6>1
          <5>2. /\ Cardinality(Potential(w)') <= Cardinality(Potential(w) \cup {b})
                /\ Cardinality(Potential(w)') \in Nat
                /\ Cardinality(Potential(w) \cup {b}) \in Nat
            BY <4>1, <5>1, FS_Subset, FS_CardinalityType
          <5>3. QED
            BY <4>3, <5>1, <5>2
        <4>5. /\ Cardinality(Entering(w)') <= Cardinality(Entering(w)) - 1
              /\ Cardinality(Entering(w)') \in Nat
          <5>1. /\ IsFiniteSet(Entering(w) \ {s})
                /\ Cardinality(Entering(w) \ {s}) = Cardinality(Entering(w)) - 1
            BY <4>2, <4>3, FS_RemoveElement
          <5>2. /\ Cardinality(Entering(w)') <= Cardinality(Entering(w) \ {s})
                /\ Cardinality(Entering(w)') \in Nat
            BY <4>2, <5>1, FS_Subset, FS_CardinalityType
          <5>3. QED
            BY <5>1, <5>2
        <4>6. Cardinality(Potential(w)) + Cardinality(Entering(w))
                  <= visits[w].capacity - 1 + Cardinality(Sessions)
          BY <1>1, <2>1 DEF CountedTogether
        <4>7. visits[w].capacity \in Nat /\ Cardinality(Sessions) \in Nat
          BY <1>1, Constants DEF TypeOK, VisitRowsOK, Visit
        <4>8. QED
          BY <4>3, <4>4, <4>5, <4>6, <4>7
      <3>2. CASE w # v
        <4>1. Potential(w)' \subseteq Potential(w)
          BY <1>3, <3>0, <3>2 DEF Potential, ActiveAt, NewBooking
        <4>2. Entering(w)' \subseteq Entering(w)
          BY <1>1, IdleFacts DEF Entering, TypeOK
        <4>3. QED
          BY <1>1, <2>1, <4>1, <4>2, CountedFrame
      <3>3. QED
        BY <3>1, <3>2
    <2>2. QED
      BY <1>1, <2>1 DEF CountedTogether
  <1>8. GiftsDefer' /\ GiftSpacing'
    BY <1>1, IdleFacts, GiftsFrame
  <1>9. QED
    BY <1>4, <1>5, <1>6, <1>7, <1>8 DEF IInv

-----------------------------------------------------------------------------
(* Writes of a booking's status                                            *)

\* A handler writes a status to the booking it holds and ends.  One that makes the
\* booking active held it as reviving, and found it in the index or not barred.
WritesStatus(s, st) ==
    /\ req[s].op \in {"attend", "cancel", "resolved"}
    /\ bookings' = [bookings EXCEPT ![req[s].booking].status = st]
    /\ req' = [req EXCEPT ![s] = Idle]
    /\ UNCHANGED <<visits, roles, month>>
    /\ \/ st = "cancelled"
       \/ /\ req[s].op \in {"attend", "resolved"}
          /\ \/ UniqueIndex(req[s].booking, bookings[req[s].booking].user,
                            bookings[req[s].booking].visit)
             \/ req[s].booking \in Indexed

LEMMA StatusStep ==
    ASSUME IInv, NEW s \in Sessions, NEW st \in BookingStatus, WritesStatus(s, st)
    PROVE  /\ VisitRowsOK' /\ req' \in [Sessions -> SupportRequest] /\ month' \in 0 .. MaxMonth
           /\ DOMAIN bookings' \subseteq BookingIds
           /\ bookings' \in [DOMAIN bookings' -> Booking]
           /\ BookingsRefer' /\ IndexIsUnique' /\ CountedTogether'
  <1> DEFINE b == req[s].booking
  <1>1. /\ TypeOK /\ BookingsRefer /\ IndexIsUnique /\ CountedTogether
        /\ req[s].op \in {"attend", "cancel", "resolved"} /\ req' = [req EXCEPT ![s] = Idle]
        /\ UNCHANGED <<visits, roles, month>>
    BY DEF IInv, WritesStatus
  <1>2. b \in DOMAIN bookings /\ bookings[b] \in Booking
    BY <1>1, HeldBooking
  <1>3. /\ DOMAIN bookings' = DOMAIN bookings
        /\ \A c \in DOMAIN bookings : c # b => bookings'[c] = bookings[c]
        /\ bookings'[b] = [bookings[b] EXCEPT !.status = st]
    BY <1>1, <1>2 DEF WritesStatus, TypeOK
  <1>4. /\ bookings'[b].user = bookings[b].user /\ bookings'[b].visit = bookings[b].visit
        /\ bookings'[b].status = st /\ bookings'[b] \in Booking
    BY <1>2, <1>3 DEF Booking
  <1>5. bookings' \in [DOMAIN bookings' -> Booking]
    <2>1. bookings' = [c \in DOMAIN bookings' |-> bookings'[c]]
      BY <1>1 DEF WritesStatus, TypeOK
    <2>2. \A c \in DOMAIN bookings' : bookings'[c] \in Booking
      BY <1>1, <1>3, <1>4 DEF TypeOK
    <2>3. QED
      BY <2>1, <2>2
  <1>6. Kept
    BY <1>1, <1>3, <1>4 DEF Kept
  <1>7. Replaced(s, Idle)
    BY <1>1, IdleFacts DEF Replaced
  <1>8. BookingsRefer'
    BY <1>1, <1>6, <1>7, BookingsReferFrame
  <1>9. IndexIsUnique'
    <2>1. CASE st = "cancelled"
      <3>1. Indexed' \subseteq Indexed
        BY <1>1, <1>3, <1>4, <2>1, IdleFacts DEF Indexed, Active, TypeOK
      <3>2. QED
        BY <1>1, <1>6, <3>1, IndexKept
    <2>2. CASE st # "cancelled"
      <3>1. Indexed' \subseteq Indexed \cup {b}
        BY <1>1, <1>3, IdleFacts DEF Indexed, TypeOK
      <3>2. UniqueIndex(b, bookings[b].user, bookings[b].visit) \/ b \in Indexed
        BY <2>2 DEF WritesStatus
      <3>3. CASE UniqueIndex(b, bookings[b].user, bookings[b].visit)
        BY <1>1, <1>2, <1>6, <3>1, <3>3, IndexGains
      <3>4. CASE b \in Indexed
        <4>1. Indexed' \subseteq Indexed
          BY <3>1, <3>4
        <4>2. QED
          BY <1>1, <1>6, <4>1, IndexKept
      <3>5. QED
        BY <3>2, <3>3, <3>4
    <2>3. QED
      BY <2>1, <2>2
  <1>10. CountedTogether'
    <2>1. ASSUME NEW v \in DOMAIN visits
          PROVE  Potential(v)' \subseteq Potential(v) /\ Entering(v)' \subseteq Entering(v)
      <3>1. Entering(v)' \subseteq Entering(v)
        BY <1>1, IdleFacts DEF Entering, TypeOK
      <3>2. \A x \in Reviving' : x \in Reviving /\ req'[x] = req[x]
        BY <1>1, IdleFacts DEF Reviving, TypeOK
      <3>3. ActiveAt(v)' \subseteq Potential(v)
        <4>1. ASSUME NEW c \in ActiveAt(v)'
              PROVE  c \in Potential(v)
          <5>1. CASE c # b
            BY <1>3, <4>1, <5>1 DEF ActiveAt, Potential
          <5>2. CASE c = b
            <6>1. s \in Reviving /\ c \in DOMAIN bookings /\ bookings[c].visit = v
              BY <1>2, <1>4, <4>1, <5>2 DEF ActiveAt, Active, WritesStatus, Reviving
            <6>2. QED
              BY <5>2, <6>1 DEF Potential
          <5>3. QED
            BY <5>1, <5>2
        <4>2. QED
          BY <4>1
      <3>4. ASSUME NEW c \in DOMAIN bookings', bookings'[c].visit = v,
                   NEW x \in Reviving', req'[x].booking = c
            PROVE  c \in Potential(v)
        BY <1>3, <1>4, <3>2, <3>4 DEF Potential
      <3>5. QED
        BY <3>1, <3>3, <3>4 DEF Potential
    <2>2. QED
      BY <1>1, <1>6, <2>1, CountedKept
  <1>11. VisitRowsOK' /\ req' \in [Sessions -> SupportRequest] /\ month' \in 0 .. MaxMonth
    BY <1>1, IdleFacts DEF TypeOK, VisitRowsOK
  <1>12. DOMAIN bookings' \subseteq BookingIds
    BY <1>1, <1>3 DEF TypeOK
  <1>13. QED
    BY <1>5, <1>8, <1>9, <1>10, <1>11, <1>12

LEMMA CancelAttendStep ==
    ASSUME IInv, NEW s \in Sessions, CancelCommit(s) \/ AttendCommit(s)
    PROVE  IInv'
  <1>1. PICK st \in {"cancelled", "attended"} : WritesStatus(s, st)
    BY DEF CancelCommit, Cancelled, AttendCommit, Attended, End, WritesStatus, visiting
  <1>2. /\ VisitRowsOK' /\ req' \in [Sessions -> SupportRequest] /\ month' \in 0 .. MaxMonth
        /\ DOMAIN bookings' \subseteq BookingIds
        /\ bookings' \in [DOMAIN bookings' -> Booking]
        /\ BookingsRefer' /\ IndexIsUnique' /\ CountedTogether'
    BY <1>1, StatusStep DEF BookingStatus
  <1>3. UNCHANGED <<month, gifts, eligible>> /\ req' = [req EXCEPT ![s] = Idle]
    BY DEF CancelCommit, AttendCommit, End
  <1>4. TypeOK /\ GiftsDefer /\ GiftSpacing
    BY DEF IInv
  <1>5. GiftsDefer' /\ GiftSpacing'
    BY <1>3, <1>4, IdleFacts, GiftsFrame
  <1>6. TypeOK'
    BY <1>2, <1>3, <1>4 DEF TypeOK
  <1>7. QED
    BY <1>2, <1>5, <1>6 DEF IInv

-----------------------------------------------------------------------------
(* Resolution                                                              *)

LEMMA ResolveWriteStep ==
    ASSUME IInv, NEW s \in Sessions, NEW covered \in {"none", "user", "platform"},
           ResolveWrite(s, covered)
    PROVE  IInv'
  <1> DEFINE b == req[s].booking
             u == bookings[b].user
             r == [op |-> "resolved", booking |-> b, covered |-> covered,
                   seen |-> IF covered = "platform" THEN GiftsOf(u) ELSE {}]
  <1>1. /\ TypeOK /\ BookingsRefer /\ IndexIsUnique /\ CountedTogether /\ GiftsDefer /\ GiftSpacing
        /\ req[s].op = "resolve" /\ UniqueIndex(b, u, bookings[b].visit)
        /\ covered \in {"none", Coverage(u)} /\ req' = [req EXCEPT ![s] = r]
        /\ UNCHANGED <<visits, roles, month, bookings, gifts, eligible>>
    BY DEF IInv, ResolveWrite, visiting
  <1>2. b \in DOMAIN bookings /\ b \in BookingIds /\ u \in Users
    BY <1>1, HeldBooking DEF TypeOK
  <1>3. r \in SupportRequest
    <2>1. GiftsOf(u) \in SUBSET GiftIds
      BY <1>1 DEF GiftsOf, TypeOK
    <2>2. QED
      BY <1>2, <2>1 DEF SupportRequest
  <1>4. TypeOK'
    BY <1>1, <1>3 DEF TypeOK, VisitRowsOK
  <1>5. Kept
    BY <1>1 DEF Kept
  <1>6. BookingsRefer'
    <2>1. Replaced(s, r)
      BY <1>1, <1>2, <1>3 DEF Replaced
    <2>2. QED
      BY <1>1, <1>5, <2>1, BookingsReferFrame
  <1>7. IndexIsUnique'
    <2>1. Indexed' \subseteq Indexed \cup {b}
      BY <1>1 DEF Indexed, TypeOK
    <2>2. QED
      BY <1>1, <1>2, <1>5, <2>1, IndexGains
  <1>8. CountedTogether'
    <2>1. ASSUME NEW v \in DOMAIN visits
          PROVE  Potential(v)' \subseteq Potential(v) /\ Entering(v)' \subseteq Entering(v)
      <3>1. Entering(v)' \subseteq Entering(v)
        BY <1>1 DEF Entering, TypeOK
      <3>2. \A x \in Reviving' : x \in Reviving /\ req'[x].booking = req[x].booking
        BY <1>1 DEF Reviving, TypeOK
      <3>3. QED
        BY <1>1, <3>1, <3>2 DEF Potential, ActiveAt
    <2>2. QED
      BY <1>1, <1>5, <2>1, CountedKept
  <1>9. GiftsDefer' /\ GiftSpacing'
    <2>1. ASSUME NEW h \in r.seen
          PROVE  h \in DOMAIN gifts /\ gifts[h].month + GiftMonths <= month
      <3>1. covered = "platform" /\ h \in DOMAIN gifts /\ gifts[h].user = u
        BY <2>1 DEF GiftsOf
      <3>2. eligible[u] <= month
        BY <1>1, <3>1 DEF Coverage, Eligible
      <3>3. gifts[h].month + GiftMonths <= eligible[u]
        BY <1>1, <3>1 DEF GiftsDefer
      <3>4. gifts[h].month \in Nat /\ eligible[u] \in Nat /\ month \in Nat
        BY <1>1, <1>2, <3>1 DEF TypeOK, Gift
      <3>5. QED
        BY <3>1, <3>2, <3>3, <3>4, Constants
    <2>2. QED
      BY <1>1, <2>1, GiftsFrame
  <1>10. QED
    BY <1>4, <1>6, <1>7, <1>8, <1>9 DEF IInv

LEMMA NewGiftStep ==
    ASSUME IInv, NEW s \in Sessions, req[s].op = "resolved", NEW u \in Users,
           NEW g \in GiftIds \ DOMAIN gifts,
           gifts' = [h \in DOMAIN gifts \cup {g} |->
                        IF h = g THEN NewGift(u, req[s].seen) ELSE gifts[h]],
           eligible' = Deferred(u), req' = [req EXCEPT ![s] = Idle], UNCHANGED month
    PROVE  /\ DOMAIN gifts' \subseteq GiftIds /\ gifts' \in [DOMAIN gifts' -> Gift]
           /\ eligible' \in [Users -> Nat] /\ GiftsDefer' /\ GiftSpacing'
  <1>1. TypeOK /\ GiftsDefer /\ GiftSpacing /\ month \in Nat /\ month \in 0 .. MaxMonth
    BY DEF IInv, TypeOK
  <1>2. NewGift(u, req[s].seen) \in Gift
    BY <1>1, RequestFields DEF NewGift, Gift
  <1>3. /\ DOMAIN gifts' = DOMAIN gifts \cup {g}
        /\ gifts'[g].user = u /\ gifts'[g].month = month /\ gifts'[g].seen = req[s].seen
        /\ \A h \in DOMAIN gifts : gifts'[h] = gifts[h] /\ h # g
    BY DEF NewGift
  <1>4. \A h \in DOMAIN gifts : /\ gifts[h] \in Gift /\ gifts[h].user \in Users
                                /\ gifts[h].month \in Nat
    BY <1>1 DEF TypeOK, Gift
  <1>5. DOMAIN gifts' \subseteq GiftIds /\ gifts' \in [DOMAIN gifts' -> Gift]
    BY <1>1, <1>2, <1>3, <1>4 DEF TypeOK
  <1>6. eligible' \in [Users -> Nat]
    BY <1>1, Constants DEF Deferred, TypeOK
  <1>7. /\ eligible'[u] = month + GiftMonths
        /\ \A w \in Users \ {u} : eligible'[w] = eligible[w]
    BY <1>1 DEF Deferred, TypeOK
  <1>8. \A h \in req[s].seen : h \in DOMAIN gifts /\ gifts[h].month + GiftMonths <= month
    BY <1>1 DEF GiftsDefer
  <1>9. GiftSpacing'
    <2>1. ASSUME NEW k \in DOMAIN gifts', NEW h \in gifts'[k].seen
          PROVE  gifts'[h].month + GiftMonths <= gifts'[k].month
      <3>1. CASE k = g
        BY <1>3, <1>8, <2>1, <3>1
      <3>2. CASE k # g
        <4>1. k \in DOMAIN gifts /\ h \in gifts[k].seen /\ h \in DOMAIN gifts
          BY <1>1, <1>3, <2>1, <3>2 DEF GiftsDefer
        <4>2. QED
          BY <1>1, <1>3, <4>1 DEF GiftSpacing
      <3>3. QED
        BY <3>1, <3>2
    <2>2. QED
      BY <2>1 DEF GiftSpacing
  <1>10. ASSUME NEW k \in DOMAIN gifts'
         PROVE  /\ gifts'[k].month <= month' /\ gifts'[k].seen \subseteq DOMAIN gifts'
                /\ gifts'[k].month + GiftMonths <= eligible'[gifts'[k].user]
    <2>1. CASE k = g
      BY <1>1, <1>3, <1>7, <1>8, <2>1, Constants
    <2>2. CASE k # g
      <3>1. /\ k \in DOMAIN gifts /\ gifts'[k] = gifts[k] /\ gifts[k].user \in Users
            /\ gifts[k].month \in Nat /\ gifts[k].month <= month
            /\ gifts[k].seen \subseteq DOMAIN gifts
            /\ gifts[k].month + GiftMonths <= eligible[gifts[k].user]
        BY <1>1, <1>3, <1>4, <1>10, <2>2 DEF GiftsDefer
      <3>2. gifts[k].month + GiftMonths <= eligible'[gifts[k].user]
        BY <1>1, <1>7, <3>1, Constants
      <3>3. QED
        BY <1>3, <3>1, <3>2
    <2>3. QED
      BY <2>1, <2>2
  <1>11. ASSUME NEW x \in Sessions, req'[x].op = "resolved", NEW h \in req'[x].seen
         PROVE  h \in DOMAIN gifts' /\ gifts'[h].month + GiftMonths <= month'
    <2>1. x # s /\ req'[x] = req[x]
      BY <1>1, <1>11, IdleFacts DEF TypeOK
    <2>2. h \in DOMAIN gifts /\ gifts[h].month + GiftMonths <= month
      BY <1>1, <1>11, <2>1 DEF GiftsDefer
    <2>3. QED
      BY <1>3, <2>2
  <1>12. GiftsDefer'
    BY <1>10, <1>11 DEF GiftsDefer
  <1>13. QED
    BY <1>5, <1>6, <1>9, <1>12

LEMMA ResolveCommitStep ==
    ASSUME IInv, NEW s \in Sessions, ResolveCommit(s)
    PROVE  IInv'
  <1> DEFINE b == req[s].booking
  <1>1. /\ TypeOK /\ BookingsRefer /\ GiftsDefer /\ GiftSpacing
        /\ req[s].op = "resolved" /\ req' = [req EXCEPT ![s] = Idle] /\ UNCHANGED month
    BY DEF IInv, ResolveCommit, End
  <1>2. b \in DOMAIN bookings /\ bookings[b].user \in Users
    BY <1>1, HeldBooking
  <1>3. WritesStatus(s, "resolved")
    <2>1. b \in Indexed
      BY <1>1, <1>2 DEF Indexed
    <2>2. QED
      BY <1>1, <2>1 DEF ResolveCommit, Resolved, WritesStatus, visiting
  <1>4. /\ VisitRowsOK' /\ req' \in [Sessions -> SupportRequest] /\ month' \in 0 .. MaxMonth
        /\ DOMAIN bookings' \subseteq BookingIds
        /\ bookings' \in [DOMAIN bookings' -> Booking]
        /\ BookingsRefer' /\ IndexIsUnique' /\ CountedTogether'
    BY <1>3, StatusStep DEF BookingStatus
  <1>5. /\ DOMAIN gifts' \subseteq GiftIds /\ gifts' \in [DOMAIN gifts' -> Gift]
        /\ eligible' \in [Users -> Nat] /\ GiftsDefer' /\ GiftSpacing'
    <2>1. CASE req[s].covered = "platform"
      <3>1. PICK g \in GiftIds \ DOMAIN gifts :
                /\ gifts' = [h \in DOMAIN gifts \cup {g} |->
                                IF h = g THEN NewGift(bookings[b].user, req[s].seen)
                                ELSE gifts[h]]
                /\ eligible' = Deferred(bookings[b].user)
        BY <2>1 DEF ResolveCommit
      <3>2. QED
        BY <1>1, <1>2, <3>1, NewGiftStep
    <2>2. CASE req[s].covered # "platform"
      <3>1. UNCHANGED <<gifts, eligible>>
        BY <2>2 DEF ResolveCommit
      <3>2. GiftsDefer' /\ GiftSpacing'
        BY <1>1, <3>1, IdleFacts, GiftsFrame
      <3>3. QED
        BY <1>1, <3>1, <3>2 DEF TypeOK
    <2>3. QED
      BY <2>1, <2>2
  <1>6. QED
    BY <1>4, <1>5 DEF IInv, TypeOK

-----------------------------------------------------------------------------
(* Months, roles and new visits                                            *)

LEMMA NextMonthStep ==
    ASSUME IInv, NextMonth
    PROVE  IInv'
  <1>1. /\ TypeOK /\ BookingsRefer /\ IndexIsUnique /\ CountedTogether /\ GiftsDefer /\ GiftSpacing
        /\ month' = month + 1 /\ month < MaxMonth /\ \A s \in Sessions : req[s] = Idle
        /\ UNCHANGED <<visits, roles, bookings, gifts, eligible, req>>
    BY DEF IInv, NextMonth, visiting
  <1>2. TypeOK'
    BY <1>1, Constants DEF TypeOK, VisitRowsOK
  <1>3. BookingsRefer'
    BY <1>1 DEF BookingsRefer
  <1>4. IndexIsUnique'
    BY <1>1 DEF IndexIsUnique, Indexed
  <1>5. CountedTogether'
    BY <1>1 DEF CountedTogether, Potential, ActiveAt, Reviving, Entering
  <1>6. GiftSpacing'
    BY <1>1 DEF GiftSpacing
  <1>7. GiftsDefer'
    <2>1. \A g \in DOMAIN gifts : gifts[g].month \in Nat
      BY <1>1 DEF TypeOK, Gift
    <2>2. month \in Nat
      BY <1>1 DEF TypeOK
    <2>3. ASSUME NEW g \in DOMAIN gifts'
          PROVE  /\ gifts'[g].month <= month' /\ gifts'[g].seen \subseteq DOMAIN gifts'
                 /\ gifts'[g].month + GiftMonths <= eligible'[gifts'[g].user]
      BY <1>1, <2>1, <2>2 DEF GiftsDefer
    <2>4. \A s \in Sessions : req'[s].op # "resolved"
      BY <1>1, IdleFacts
    <2>5. QED
      BY <2>3, <2>4 DEF GiftsDefer
  <1>8. QED
    BY <1>2, <1>3, <1>4, <1>5, <1>6, <1>7 DEF IInv

LEMMA RoleExpiresStep ==
    ASSUME IInv, NEW n \in 1 .. MaxRoles, RoleExpires(n),
           UNCHANGED <<month, bookings, gifts, eligible>>
    PROVE  IInv'
  <1>1. /\ TypeOK /\ BookingsRefer /\ IndexIsUnique /\ CountedTogether /\ GiftsDefer /\ GiftSpacing
        /\ n \in DOMAIN roles /\ roles' = [roles EXCEPT ![n].active = "no"]
        /\ UNCHANGED <<visits, month, bookings, gifts, eligible, req>>
    BY DEF IInv, RoleExpires
  <1>2. TypeOK'
    <2>1. DOMAIN roles' = DOMAIN roles /\ roles' \in [DOMAIN roles -> Role]
      BY <1>1 DEF TypeOK, VisitRowsOK, Role
    <2>2. QED
      BY <1>1, <2>1 DEF TypeOK, VisitRowsOK
  <1>3. BookingsRefer' /\ IndexIsUnique'
    BY <1>1 DEF BookingsRefer, IndexIsUnique, Indexed
  <1>4. CountedTogether'
    BY <1>1 DEF CountedTogether, Potential, ActiveAt, Reviving, Entering
  <1>5. GiftSpacing' /\ GiftsDefer'
    BY <1>1 DEF GiftSpacing, GiftsDefer
  <1>6. QED
    BY <1>2, <1>3, <1>4, <1>5 DEF IInv

LEMMA ScheduleStep ==
    ASSUME IInv, NEW p \in Staff \cup Admins, NEW l \in Locations, NEW v \in VisitIds,
           NEW c \in 0 .. MaxCapacity, Schedule(p, l, v, c),
           UNCHANGED <<month, bookings, gifts, eligible>>
    PROVE  IInv'
  <1>1. /\ TypeOK /\ BookingsRefer /\ IndexIsUnique /\ CountedTogether /\ GiftsDefer /\ GiftSpacing
        /\ v \notin DOMAIN visits
        /\ visits' = [w \in DOMAIN visits \cup {v} |->
                         IF w = v THEN NewVisit(p, l, c) ELSE visits[w]]
        /\ UNCHANGED <<roles, month, bookings, gifts, eligible, req>>
    BY DEF IInv, Schedule
  <1>2. NewVisit(p, l, c) \in Visit /\ NewVisit(p, l, c).capacity = c
    BY DEF NewVisit, Visit, VisitStatus
  <1>3. /\ DOMAIN visits' = DOMAIN visits \cup {v} /\ visits'[v].capacity = c
        /\ \A w \in DOMAIN visits : visits'[w] = visits[w]
        /\ visits' \in [DOMAIN visits \cup {v} -> Visit]
    BY <1>1, <1>2 DEF TypeOK, VisitRowsOK
  <1>4. TypeOK'
    BY <1>1, <1>3 DEF TypeOK, VisitRowsOK
  <1>5. BookingsRefer'
    BY <1>1, <1>3 DEF BookingsRefer
  <1>6. IndexIsUnique'
    BY <1>1 DEF IndexIsUnique, Indexed
  <1>7. CountedTogether'
    <2>1. \A w : Potential(w)' = Potential(w) /\ Entering(w)' = Entering(w)
      BY <1>1 DEF Potential, ActiveAt, Reviving, Entering
    <2>2. Potential(v) = {} /\ Entering(v) = {}
      BY <1>1 DEF BookingsRefer, Potential, ActiveAt, Entering
    <2>3. ASSUME NEW w \in DOMAIN visits', visits'[w].capacity > 0
          PROVE  Cardinality(Potential(w)') + Cardinality(Entering(w)')
                     <= visits'[w].capacity - 1 + Cardinality(Sessions)
      <3>1. CASE w = v
        <4>1. Cardinality(Potential(w)') = 0 /\ Cardinality(Entering(w)') = 0
          BY <2>1, <2>2, <3>1, FS_EmptySet
        <4>2. QED
          BY <1>3, <2>3, <3>1, <4>1, Constants
      <3>2. CASE w # v
        BY <1>1, <1>3, <2>1, <2>3, <3>2 DEF CountedTogether
      <3>3. QED
        BY <3>1, <3>2
    <2>4. QED
      BY <2>3 DEF CountedTogether
  <1>8. GiftSpacing' /\ GiftsDefer'
    BY <1>1 DEF GiftSpacing, GiftsDefer
  <1>9. QED
    BY <1>4, <1>5, <1>6, <1>7, <1>8 DEF IInv

-----------------------------------------------------------------------------
(* The theorems                                                            *)

LEMMA NextIInv == IInv /\ [Next]_vars => IInv'
  <1> SUFFICES ASSUME IInv, [Next]_vars
               PROVE  IInv'
    OBVIOUS
  <1>1. CASE NextV /\ UNCHANGED <<month, bookings, gifts, eligible>>
    BY <1>1, VisitHandlerStep, RoleExpiresStep, ScheduleStep DEF NextV
  <1>2. ASSUME NEW s \in Sessions, SupportHandler(s)
        PROVE  IInv'
    BY <1>2, BookReadStep, BookCommitStep, ReadBookingStep, CancelAttendStep,
       ResolveWriteStep, ResolveCommitStep DEF SupportHandler
  <1>3. CASE NextMonth
    BY <1>3, NextMonthStep
  <1>4. CASE UNCHANGED vars
    <2>1. /\ TypeOK /\ BookingsRefer /\ IndexIsUnique /\ CountedTogether /\ GiftsDefer
          /\ GiftSpacing /\ UNCHANGED <<roles, visits, month, bookings, gifts, eligible, req>>
      BY <1>4 DEF IInv, vars, visiting
    <2>2. TypeOK' /\ BookingsRefer' /\ IndexIsUnique'
      BY <2>1 DEF TypeOK, VisitRowsOK, BookingsRefer, IndexIsUnique, Indexed
    <2>3. CountedTogether'
      BY <2>1 DEF CountedTogether, Potential, ActiveAt, Reviving, Entering
    <2>4. GiftsDefer' /\ GiftSpacing'
      BY <2>1 DEF GiftsDefer, GiftSpacing
    <2>5. QED
      BY <2>2, <2>3, <2>4 DEF IInv
  <1>5. QED
    BY <1>1, <1>2, <1>3, <1>4 DEF Next

\* The rows are well typed, one active booking is a user's at a visit, and the counts
\* and gifts are what the handlers in flight allow (support/service.rs: book_support,
\* cancel_booking, attend_booking, resolve_booking).
THEOREM Invariance == Spec => []IInv
  BY InitIInv, NextIInv, PTL DEF Spec

\* A visit is overbooked by no more than the handlers that ran together, less one, and
\* one without room has no active booking (book_support counts before it inserts).
THEOREM OverbookedByRacersAlways == Spec => []OverbookedByRacers
  <1>1. IInv => OverbookedByRacers
    <2> SUFFICES ASSUME IInv, NEW v \in DOMAIN visits
                 PROVE  Cardinality(ActiveAt(v)) <=
                            IF visits[v].capacity = 0 THEN 0
                            ELSE visits[v].capacity - 1 + Cardinality(Sessions)
      BY DEF OverbookedByRacers
    <2>1. TypeOK /\ BookingsRefer /\ CountedTogether /\ visits[v].capacity \in Nat
      BY Constants DEF IInv, TypeOK, VisitRowsOK, Visit
    <2>2. /\ Cardinality(ActiveAt(v)) <= Cardinality(Potential(v))
          /\ Cardinality(ActiveAt(v)) \in Nat /\ Cardinality(Potential(v)) \in Nat
          /\ Cardinality(Entering(v)) \in Nat
      BY <2>1, SetsFinite
    <2>3. CASE visits[v].capacity = 0
      <3>1. ActiveAt(v) = {}
        BY <2>1, <2>3 DEF BookingsRefer, ActiveAt
      <3>2. QED
        BY <2>3, <3>1, FS_EmptySet
    <2>4. CASE visits[v].capacity > 0
      <3>1. Cardinality(Potential(v)) + Cardinality(Entering(v))
                <= visits[v].capacity - 1 + Cardinality(Sessions)
        BY <2>1, <2>4 DEF CountedTogether
      <3>2. QED
        BY <2>1, <2>2, <2>4, <3>1, Constants
    <2>5. QED
      BY <2>1, <2>3, <2>4
  <1>2. QED
    BY <1>1, Invariance, PTL

\* A gift the platform pays for comes six months after every one that was committed
\* when its eligibility was read (resolve_booking, check_platform_gift_eligible).
THEOREM GiftSpacingAlways == Spec => []GiftSpacing
  <1>1. IInv => GiftSpacing
    BY DEF IInv
  <1>2. QED
    BY <1>1, Invariance, PTL

=============================================================================
