------------------------------ MODULE Presence ------------------------------
(***************************************************************************)
(* Presence verification: beacon dwells and taps of delivery boxes become  *)
(* presence events; qualifying ones advance the user's one threshold row,  *)
(* and meeting the threshold promotes the user to presence_confirmed.      *)
(*                                                                         *)
(* A handler is a READ COMMITTED transaction.  Its Read evaluates the      *)
(* guards on the committed rows, Record inserts the event and counts the   *)
(* day's events, and Commit - from the upsert that locks the threshold row *)
(* to COMMIT - makes its writes visible.  Drop is a rollback, or the       *)
(* commit of an event that did not qualify, which nothing else reads.      *)
(***************************************************************************)
EXTENDS Verification

CONSTANTS
    NoUser,         \* visit_boxes.tapped_by_user_id IS NULL
    Businesses,
    Boxes,          \* bound: NFC chips there are
    NoBox,          \* a dwell has no box
    EventIds,       \* bound: ids the presence_events sequence may hand out
    RequiredEvents, \* the 3 qualifying events of a met threshold
    RequiredDays    \* its 3 separate days

ASSUME SentinelAssumption == NoUser \notin Users /\ NoBox \notin Boxes
ASSUME NatAssumption == RequiredEvents \in Nat /\ RequiredDays \in Nat \ {0}

VARIABLES
    events,     \* qualifying presence_events, all linked to their threshold
    threshold,  \* presence_thresholds: user -> row
    boxes       \* visit_boxes: activated box -> row

presence == <<today, status, events, threshold>>
vars == <<presence, boxes, req>>

\* users.verification_status.
Status == {"registered", "identity_confirmed", "presence_confirmed", "attested"}

Event == [user: Users, business: Businesses, day: Days, box: Boxes \cup {NoBox}]

\* met is threshold_met_at IS NOT NULL; business is the first event's, for good.
Threshold == [business: Businesses, events: Nat, days: Nat, met: {"no", "yes"}]

\* window "over" is expires_at < now().
Box == [tapper: Users \cup {NoUser}, window: {"open", "over"}]

\* adds is by how much the event will advance days_count.
Recorded == [op: {"event"}, user: Users, business: Businesses, day: Days,
             box: Boxes \cup {NoBox}, adds: {0, 1}]
PresenceRequest ==
    {Idle} \cup Recorded
    \cup [op: {"tap"}, user: Users, business: Businesses, box: Boxes]

-----------------------------------------------------------------------------
(* Reads                                                                   *)

EventsOf(u) == {e \in DOMAIN events : events[e].user = u}

\* qualifying_events_on_date, the handler's own event not counted.
OnDate(u, b, d) ==
    {e \in EventsOf(u) : events[e].business = b /\ events[e].day = d}

\* The check on the users row, read on the pool.
MayVerify(u) == status[u] # "attested"

Untapped(x) == boxes[x].tapper = NoUser /\ boxes[x].window = "open"

\* The handlers whose UPDATE holds the lock of a visit_boxes row: a tap that has
\* recorded its event, and a collect_order that has tapped (Collection).
Holders(x) == {s \in Sessions : req[s].op \in {"event", "collected"} /\ req[s].box = x}

\* Slip: the count is compared before the event is inserted.
AddsBeforeInsert(u, b, d) == IF Cardinality(OnDate(u, b, d)) = 1 THEN 1 ELSE 0

\* is_first_event_today: the count with the own event is at most 1.
Adds(u, b, d) == IF Cardinality(OnDate(u, b, d)) + 1 <= 1 THEN 1 ELSE 0

-----------------------------------------------------------------------------
Init ==
    /\ today = 1
    /\ status = [u \in Users |-> "registered"]
    /\ events = [e \in {} |-> Idle]
    /\ threshold = [u \in {} |-> Idle]
    /\ boxes = [x \in {} |-> Idle]
    /\ req = [s \in Sessions |-> Idle]

-----------------------------------------------------------------------------
(* record_beacon_dwell and record_nfc_tap                                  *)

\* A dwell that passed the witness, RSSI and duration checks: session and event
\* are inserted, the day's events counted.  The date is that of started_at.
DwellRecord(s, u, b, d) ==
    /\ MayVerify(u)
    /\ d <= today
    /\ Start(s, [op |-> "event", user |-> u, business |-> b, day |-> d,
                 box |-> NoBox, adds |-> Adds(u, b, d)])
    /\ UNCHANGED <<presence, boxes>>

\* Slip: tapped_by_user_id is not looked at.
TapReadAny(s, u, b, x) ==
    /\ MayVerify(u)
    /\ x \in DOMAIN boxes
    /\ Start(s, [op |-> "tap", user |-> u, business |-> b, box |-> x])
    /\ UNCHANGED <<presence, boxes>>

\* The business is the request's, not that of the box's visit.
TapRead(s, u, b, x) ==
    /\ MayVerify(u)
    /\ x \in DOMAIN boxes
    /\ Untapped(x)
    /\ Start(s, [op |-> "tap", user |-> u, business |-> b, box |-> x])
    /\ UNCHANGED <<presence, boxes>>

\* UPDATE visit_boxes ... WHERE id = $2, whoever has tapped it by now; then the
\* event and the count.  It waits while another handler holds the row.
TapRecord(s) ==
    /\ req[s].op = "tap"
    /\ Holders(req[s].box) = {}
    /\ LET r == req[s]
       IN  req' = [req EXCEPT ![s] =
                      [op |-> "event", user |-> r.user, business |-> r.business,
                       day |-> today, box |-> r.box,
                       adds |-> Adds(r.user, r.business, today)]]
    /\ UNCHANGED <<presence, boxes>>

-----------------------------------------------------------------------------
(* advance_threshold and COMMIT                                            *)

Created(b) == [business |-> b, events |-> 0, days |-> 0, met |-> "no"]

\* get_or_create_threshold: the row as it is once its lock is granted.
ThresholdRow(u, b) == IF u \in DOMAIN threshold THEN threshold[u] ELSE Created(b)

\* Slip: event_count is advanced by the qualifying events of the day, not by one.
AdvancedByDay(t, adds) == [t EXCEPT !.events = @ + adds, !.days = @ + adds,
    !.met = IF @ = "no" /\ t.events + 1 >= RequiredEvents
                        /\ t.days + adds >= RequiredDays THEN "yes" ELSE @]

\* update_threshold.
Advanced(t, adds) ==
    [t EXCEPT !.events = @ + 1, !.days = @ + adds,
              !.met = IF @ = "no" /\ t.events + 1 >= RequiredEvents
                                  /\ t.days + adds >= RequiredDays
                      THEN "yes" ELSE @]

\* The promotion, whatever the user's status is; only when newly met.
Promoted(u, before, after) ==
    IF after.met = "yes" /\ before.met = "no"
    THEN [status EXCEPT ![u] = "presence_confirmed"] ELSE status

Commit(s, e) ==
    /\ req[s].op = "event"
    /\ e \in EventIds \ DOMAIN events
    /\ LET r      == req[s]
           before == ThresholdRow(r.user, r.business)
           after  == Advanced(before, r.adds)
       IN  /\ events' = [i \in DOMAIN events \cup {e} |->
                            IF i = e THEN [user |-> r.user, business |-> r.business,
                                           day |-> r.day, box |-> r.box]
                            ELSE events[i]]
           /\ threshold' = [u \in DOMAIN threshold \cup {r.user} |->
                               IF u = r.user THEN after ELSE threshold[u]]
           /\ status' = Promoted(r.user, before, after)
           /\ boxes' = IF r.box = NoBox THEN boxes
                       ELSE [boxes EXCEPT ![r.box].tapper = r.user]
    /\ End(s)
    /\ UNCHANGED today

\* An error rolls back; a client that disconnects drops the handler.
Drop(s) ==
    /\ req[s] # Idle
    /\ End(s)
    /\ UNCHANGED <<presence, boxes>>

-----------------------------------------------------------------------------
(* What moves around the two handlers                                      *)

NewBox == [tapper |-> NoUser, window |-> "open"]

\* activate_box inserts the row of a chip, UNIQUE (nfc_chip_uid), and activates it
\* in one transaction.
ActivateBox(x) ==
    /\ x \in Boxes \ DOMAIN boxes
    /\ boxes' = [y \in DOMAIN boxes \cup {x} |->
                    IF y = x THEN NewBox ELSE boxes[y]]
    /\ UNCHANGED <<presence, req>>

WindowEnds(x) ==
    /\ x \in DOMAIN boxes
    /\ boxes' = [boxes EXCEPT ![x].window = "over"]
    /\ UNCHANGED <<presence, req>>

NextDay ==
    /\ today < MaxDay
    /\ today' = today + 1
    /\ UNCHANGED <<status, events, threshold, boxes, req>>

\* initiate_verification, and the second co-sign of an attestation.
StatusMoves(u) ==
    /\ \/ /\ status[u] = "registered"
          /\ status' = [status EXCEPT ![u] = "identity_confirmed"]
       \/ /\ status[u] = "presence_confirmed"
          /\ status' = [status EXCEPT ![u] = "attested"]
    /\ UNCHANGED <<today, events, threshold, boxes, req>>

-----------------------------------------------------------------------------
Handler(s) ==
    \/ \E u \in Users, b \in Businesses :
          \/ \E d \in Days : DwellRecord(s, u, b, d)
          \/ \E x \in Boxes : TapRead(s, u, b, x)
    \/ TapRecord(s)
    \/ \E e \in EventIds : Commit(s, e)
    \/ Drop(s)

Next ==
    \/ \E s \in Sessions : Handler(s)
    \/ \E x \in Boxes : ActivateBox(x) \/ WindowEnds(x)
    \/ NextDay
    \/ \E u \in Users : StatusMoves(u)

Spec == Init /\ [][Next]_vars

-----------------------------------------------------------------------------
(* Types and safety                                                        *)

\* The tables hold rows of their types.
RowsOK ==
    /\ today \in Days
    /\ status \in [Users -> Status]
    /\ DOMAIN events \subseteq EventIds
    /\ events \in [DOMAIN events -> Event]
    /\ DOMAIN threshold \subseteq Users
    /\ threshold \in [DOMAIN threshold -> Threshold]
    /\ DOMAIN boxes \subseteq Boxes
    /\ boxes \in [DOMAIN boxes -> Box]

\* The tables hold rows of their types, and a handler holds one of the requests.
TypeOK == RowsOK /\ req \in [Sessions -> PresenceRequest]

\* No advance is lost or made twice, however many handlers of one user overlap:
\* event_count is the number of the user's qualifying events (the upsert locks the
\* row that update_threshold overwrites).
EventsCounted ==
    \A u \in Users :
        IF u \in DOMAIN threshold
        THEN Cardinality(EventsOf(u)) = threshold[u].events
        ELSE EventsOf(u) = {}

\* The business and calendar day pairs of a user's qualifying events.
Pairs(u) == {<<events[e].business, events[e].day>> : e \in EventsOf(u)}

\* days_count never misses a day on which the user qualified at a business, and
\* never runs ahead of event_count, although the count that decides it is read
\* before the row is locked.
DaysCovered ==
    \A u \in DOMAIN threshold :
        /\ Cardinality(Pairs(u)) <= threshold[u].days
        /\ threshold[u].days <= threshold[u].events

\* Only handlers that overlapped can both have used one box: from the first
\* qualifying tap on, its events and the handlers still holding a stale read of it
\* are together at most the handlers that ran at that moment.
TapsOverlap ==
    \A x \in DOMAIN boxes :
        LET used == {e \in DOMAIN events : events[e].box = x}
            held == {s \in Sessions : req[s].op \in {"tap", "event"} /\ req[s].box = x}
        IN  used # {} => Cardinality(used) + Cardinality(held) <= Cardinality(Sessions)

=============================================================================
