------------------------------ MODULE Support ------------------------------
(***************************************************************************)
(* Support bookings at staff visits and the gift boxes they may end with.  *)
(* Every handler reads a booking's status and writes the row by its id;    *)
(* the partial unique index on active bookings is checked at every write.  *)
(*                                                                         *)
(* resolve_booking takes three steps: its UPDATE locks the booking, then   *)
(* it reads whether the platform pays for the gift, then it writes and     *)
(* commits.                                                                *)
(***************************************************************************)
EXTENDS Visits

CONSTANTS
    Users,
    BookingIds,  \* bound: ids the support_bookings sequence may hand out
    GiftIds,     \* bound: ids the gift_box_history sequence may hand out
    GiftMonths,  \* the 6 months between gifts the platform pays for
    MaxMonth     \* bound: the calendar stops here

ASSUME SupportAssumption ==
    /\ GiftMonths \in Nat /\ MaxMonth \in Nat
    /\ IsFiniteSet(Sessions) /\ IsFiniteSet(BookingIds)

VARIABLES
    month,
    bookings,    \* support_bookings: id -> row
    gifts,       \* gift_box_history rows of covered_by = 'platform': id -> row
    eligible     \* users.platform_gift_eligible_after; 0 is NULL

vars == <<visiting, month, bookings, gifts, eligible, req>>

BookingStatus == {"booked", "attended", "resolved", "cancelled"}
Booking == [user: Users, visit: VisitIds, status: BookingStatus]

\* seen, a history, holds the user's gifts that were committed when the
\* eligibility was read.  Gifts the user pays for are rows nothing reads.
Gift == [user: Users, month: 0 .. MaxMonth, seen: SUBSET GiftIds]

SupportRequest ==
    VisitRequest
    \cup [op: {"book"}, user: Users, visit: VisitIds]
    \cup [op: {"attend", "cancel", "resolve"}, booking: BookingIds]
    \cup [op: {"resolved"}, booking: BookingIds, covered: {"none", "user", "platform"},
          seen: SUBSET GiftIds]

Init ==
    /\ InitV
    /\ month = 0
    /\ bookings = [b \in {} |-> Idle]
    /\ gifts = [g \in {} |-> Idle]
    /\ eligible = [u \in Users |-> 0]

-----------------------------------------------------------------------------
(* Reads                                                                   *)

Active(status) == status \notin {"cancelled", "no_show"}

\* active_booking_count_for_visit counts these.
ActiveAt(v) == {b \in DOMAIN bookings : bookings[b].visit = v /\ Active(bookings[b].status)}

GiftsOf(u) == {g \in DOMAIN gifts : gifts[g].user = u}

\* check_platform_gift_eligible.
Eligible(u) == eligible[u] <= month

\* What a writer finds in the index: active bookings, and those a resolve_booking in
\* flight has written.
Indexed == {b \in DOMAIN bookings :
               \/ Active(bookings[b].status)
               \/ \E s \in Sessions : req[s].op = "resolved" /\ req[s].booking = b}

\* Slip: the index covers booked rows only.
BookedIndex(b, u, v) ==
    \A c \in Indexed \ {b} :
        bookings[c].user # u \/ bookings[c].visit # v \/ bookings[c].status # "booked"

\* idx_support_bookings_one_active_per_visit lets booking b be active.
UniqueIndex(b, u, v) ==
    \A c \in Indexed \ {b} : bookings[c].user # u \/ bookings[c].visit # v

\* The booking's row is not locked by a resolve_booking in flight.
Unlocked(b) == \A s \in Sessions : req[s].op = "resolved" => req[s].booking # b

-----------------------------------------------------------------------------
(* Bookings                                                                *)

\* Slip: attended bookings no longer take a place.
RoomAmongBooked(v) ==
    Cardinality({b \in ActiveAt(v) : bookings[b].status = "booked"}) < visits[v].capacity

Room(v) == Cardinality(ActiveAt(v)) < visits[v].capacity

BookRead(s, u, v) ==
    /\ v \in DOMAIN visits
    /\ visits[v].status \in {"scheduled", "in_progress"}
    /\ Room(v)
    /\ Start(s, [op |-> "book", user |-> u, visit |-> v])
    /\ UNCHANGED <<visiting, month, bookings, gifts, eligible>>

NewBooking(u, v) == [user |-> u, visit |-> v, status |-> "booked"]

\* The index refuses a second active booking; Drop is its Conflict.
BookCommit(s, b) ==
    /\ req[s].op = "book"
    /\ b \in BookingIds \ DOMAIN bookings
    /\ UniqueIndex(b, req[s].user, req[s].visit)
    /\ bookings' = [c \in DOMAIN bookings \cup {b} |->
                       IF c = b THEN NewBooking(req[s].user, req[s].visit) ELSE bookings[c]]
    /\ End(s)
    /\ UNCHANGED <<visiting, month, gifts, eligible>>

\* attend_booking by the visit's staff.
AttendRead(s, b) ==
    /\ b \in DOMAIN bookings
    /\ bookings[b].status = "booked"
    /\ Start(s, [op |-> "attend", booking |-> b])
    /\ UNCHANGED <<visiting, month, bookings, gifts, eligible>>

\* cancel_booking by the owner or an admin.
CancelRead(s, b) ==
    /\ b \in DOMAIN bookings
    /\ bookings[b].status = "booked"
    /\ Start(s, [op |-> "cancel", booking |-> b])
    /\ UNCHANGED <<visiting, month, bookings, gifts, eligible>>

Cancelled(b) == [bookings EXCEPT ![b].status = "cancelled"]

CancelCommit(s) ==
    /\ req[s].op = "cancel"
    /\ Unlocked(req[s].booking)
    /\ bookings' = Cancelled(req[s].booking)
    /\ End(s)
    /\ UNCHANGED <<visiting, month, gifts, eligible>>

Attended(b) == [bookings EXCEPT ![b].status = "attended"]

AttendCommit(s) ==
    LET b == req[s].booking IN
    /\ req[s].op = "attend"
    /\ Unlocked(b)
    /\ UniqueIndex(b, bookings[b].user, bookings[b].visit)
    /\ bookings' = Attended(b)
    /\ End(s)
    /\ UNCHANGED <<visiting, month, gifts, eligible>>

-----------------------------------------------------------------------------
(* Resolution                                                              *)

\* By the visit's staff with any active role of delivery_staff.
ResolveRead(s, b) ==
    /\ b \in DOMAIN bookings
    /\ bookings[b].status = "attended"
    /\ visits[bookings[b].visit].staff \in Staff
    /\ ActiveRoles(visits[bookings[b].visit].staff) # {}
    /\ Start(s, [op |-> "resolve", booking |-> b])
    /\ UNCHANGED <<visiting, month, bookings, gifts, eligible>>

\* Who pays for the gift, when one is provided.
Coverage(u) == IF Eligible(u) THEN "platform" ELSE "user"

\* UPDATE of the booking, which waits for its lock, and the eligibility.
ResolveWrite(s, covered) ==
    LET b == req[s].booking
        u == bookings[b].user
    IN  /\ req[s].op = "resolve"
        /\ Unlocked(b)
        /\ UniqueIndex(b, u, bookings[b].visit)
        /\ covered \in {"none", Coverage(u)}
        /\ req' = [req EXCEPT ![s] = [op |-> "resolved", booking |-> b, covered |-> covered,
                                      seen |-> IF covered = "platform" THEN GiftsOf(u) ELSE {}]]
        /\ UNCHANGED <<visiting, month, bookings, gifts, eligible>>

NewGift(u, seen) == [user |-> u, month |-> month, seen |-> seen]

\* Slip: the next gift is not put off.
NotDeferred(u) == eligible

\* update_platform_gift_eligible_after.
Deferred(u) == [eligible EXCEPT ![u] = month + GiftMonths]

Resolved(b) == [bookings EXCEPT ![b].status = "resolved"]

\* COMMIT; the index entry of the updated row is checked already.
ResolveCommit(s) ==
    LET b == req[s].booking
        u == bookings[b].user
    IN  /\ req[s].op = "resolved"
        /\ bookings' = Resolved(b)
        /\ IF req[s].covered = "platform"
           THEN \E g \in GiftIds \ DOMAIN gifts :
                   /\ gifts' = [h \in DOMAIN gifts \cup {g} |->
                                   IF h = g THEN NewGift(u, req[s].seen) ELSE gifts[h]]
                   /\ eligible' = Deferred(u)
           ELSE UNCHANGED <<gifts, eligible>>
        /\ End(s)
        /\ UNCHANGED <<visiting, month>>

\* No handler runs for a month.
NextMonth ==
    /\ month < MaxMonth
    /\ \A s \in Sessions : req[s] = Idle
    /\ month' = month + 1
    /\ UNCHANGED <<visiting, bookings, gifts, eligible, req>>

-----------------------------------------------------------------------------
SupportHandler(s) ==
    \/ \E u \in Users, v \in VisitIds : BookRead(s, u, v)
    \/ \E b \in BookingIds :
          \/ BookCommit(s, b)
          \/ AttendRead(s, b)
          \/ CancelRead(s, b)
          \/ ResolveRead(s, b)
    \/ CancelCommit(s)
    \/ AttendCommit(s)
    \/ \E covered \in {"none", "user", "platform"} : ResolveWrite(s, covered)
    \/ ResolveCommit(s)

Next ==
    \/ NextV /\ UNCHANGED <<month, bookings, gifts, eligible>>
    \/ \E s \in Sessions : SupportHandler(s)
    \/ NextMonth

Spec == Init /\ [][Next]_vars

-----------------------------------------------------------------------------
(* Types and safety                                                        *)

\* The tables hold rows of their types, and a handler one of the requests.
TypeOK ==
    /\ VisitRowsOK
    /\ req \in [Sessions -> SupportRequest]
    /\ month \in 0 .. MaxMonth
    /\ DOMAIN bookings \subseteq BookingIds
    /\ bookings \in [DOMAIN bookings -> Booking]
    /\ DOMAIN gifts \subseteq GiftIds
    /\ gifts \in [DOMAIN gifts -> Gift]
    /\ eligible \in [Users -> Nat]

\* A user has one active booking at a visit, even when a cancelled one is written
\* back to attended by a handler that read it before.
OneActivePerVisit ==
    \A b, c \in DOMAIN bookings :
        /\ Active(bookings[b].status) /\ Active(bookings[c].status)
        /\ bookings[b].user = bookings[c].user
        /\ bookings[b].visit = bookings[c].visit
        => b = c

\* The capacity is counted before the insert: a visit is overbooked by no more than
\* the other handlers that can have counted together, and one without room never is.
OverbookedByRacers ==
    \A v \in DOMAIN visits :
        Cardinality(ActiveAt(v)) <=
            IF visits[v].capacity = 0 THEN 0
            ELSE visits[v].capacity - 1 + Cardinality(Sessions)

\* The platform pays for a gift only when every earlier gift its handler could see
\* is six months old: two within the window come from overlapping handlers.
GiftSpacing ==
    \A g \in DOMAIN gifts : \A h \in gifts[g].seen :
        gifts[h].month + GiftMonths <= gifts[g].month


-----------------------------------------------------------------------------
(* The inductive invariant                                                 *)

\* Rows and handlers name rows that exist, and no booking is for a visit without room.
BookingsRefer ==
    /\ \A b \in DOMAIN bookings :
           bookings[b].visit \in DOMAIN visits /\ visits[bookings[b].visit].capacity > 0
    /\ \A s \in Sessions :
           /\ req[s].op \in {"attend", "cancel", "resolve", "resolved"} =>
                  req[s].booking \in DOMAIN bookings
           /\ req[s].op = "book" =>
                  req[s].visit \in DOMAIN visits /\ visits[req[s].visit].capacity > 0

\* The index holds one booking of a user at a visit.
IndexIsUnique ==
    \A b, c \in Indexed :
        bookings[b].user = bookings[c].user /\ bookings[b].visit = bookings[c].visit => b = c

\* Handlers of v that were let through, and bookings of v that are active or that some
\* handler may make so again.
Entering(v) == {s \in Sessions : req[s].op = "book" /\ req[s].visit = v}
Reviving == {s \in Sessions : req[s].op \in {"attend", "resolve", "resolved"}}
Potential(v) ==
    ActiveAt(v) \cup {b \in DOMAIN bookings : bookings[b].visit = v
                                            /\ \E s \in Reviving : req[s].booking = b}

CountedTogether ==
    \A v \in DOMAIN visits : visits[v].capacity > 0 =>
        Cardinality(Potential(v)) + Cardinality(Entering(v))
            <= visits[v].capacity - 1 + Cardinality(Sessions)

\* A gift puts the next one off, and one about to be given comes after those seen.
GiftsDefer ==
    /\ \A g \in DOMAIN gifts :
           /\ gifts[g].month <= month /\ gifts[g].seen \subseteq DOMAIN gifts
           /\ gifts[g].month + GiftMonths <= eligible[gifts[g].user]
    /\ \A s \in Sessions : req[s].op = "resolved" =>
           \A h \in req[s].seen : h \in DOMAIN gifts /\ gifts[h].month + GiftMonths <= month

\* One active booking of a user at a visit, as many too many as ran together, and gifts
\* six months after those their handlers saw.
IInv ==
    /\ TypeOK
    /\ BookingsRefer
    /\ IndexIsUnique
    /\ CountedTogether
    /\ GiftsDefer
    /\ GiftSpacing
=============================================================================
