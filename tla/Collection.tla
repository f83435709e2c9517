----------------------------- MODULE Collection -----------------------------
(***************************************************************************)
(* Strawberry orders and the NFC boxes they are collected with, composed   *)
(* with presence verification: collect_order and record_nfc_tap tap the    *)
(* same visit_boxes rows, the first through tap_box with its guard, the    *)
(* second with an unconditional UPDATE.                                    *)
(*                                                                         *)
(* One handler is a READ COMMITTED transaction in two or three steps, as   *)
(* in Presence; UPDATEs of a row wait for the handler that holds it.       *)
(***************************************************************************)
EXTENDS Presence

CONSTANTS
    OrderIds    \* bound: ids the orders sequence may hand out

VARIABLES
    orders,     \* orders: id -> row
    queue       \* the ids by created_at

allVars == <<vars, orders, queue>>

OrderStatus == {"pending", "collected", "cancelled"}

\* via is collected_via_box_id.  Nothing in the code sets 'paid'.
Order == [user: Users, business: Businesses, status: OrderStatus, via: Boxes \cup {NoBox}]

CollectionRequest ==
    PresenceRequest
    \cup [op: {"collect"}, user: Users, box: Boxes]
    \cup [op: {"collected"}, box: Boxes, user: Users, order: OrderIds]
    \cup [op: {"cancel"}, order: OrderIds]

InitC == Init /\ orders = [o \in {} |-> Idle] /\ queue = [o \in {} |-> 0]

-----------------------------------------------------------------------------
NewOrder(u, b) == [user |-> u, business |-> b, status |-> "pending", via |-> NoBox]

\* create_order; the business is active, count and amount are positive.
CreateOrder(u, b, o) ==
    /\ o \in OrderIds \ DOMAIN orders
    /\ orders' = [p \in DOMAIN orders \cup {o} |->
                     IF p = o THEN NewOrder(u, b) ELSE orders[p]]
    /\ queue' = [p \in DOMAIN queue \cup {o} |->
                    IF p = o THEN Cardinality(DOMAIN queue) ELSE queue[p]]
    /\ UNCHANGED vars

\* collect_order's pre-checks on the box.
CollectRead(s, u, x) ==
    /\ x \in DOMAIN boxes
    /\ Untapped(x)
    /\ Start(s, [op |-> "collect", user |-> u, box |-> x])
    /\ UNCHANGED <<presence, boxes, orders, queue>>

\* find_pending_order_for_visit: the oldest pending order of the user at a business
\* of the visit's location (one location in the model).  No box has an assigned
\* order: nothing calls assign_box_to_order.
PendingFor(u, o) ==
    LET pending == {p \in DOMAIN orders : orders[p].user = u /\ orders[p].status = "pending"}
    IN  o \in pending /\ \A p \in pending : queue[o] <= queue[p]

\* Slip: tap_box updates the row whatever its tapped_at is.
TapBoxAnyway(x) == Holders(x) = {}

\* tap_box: WHERE tapped_at IS NULL, evaluated once no other handler holds the row.
TapBox(x) == Holders(x) = {} /\ boxes[x].tapper = NoUser

\* tap_box, the order found and collect_order_db, which waits for the orders row.
CollectTap(s) ==
    /\ req[s].op = "collect"
    /\ TapBox(req[s].box)
    /\ \E o \in DOMAIN orders :
          /\ PendingFor(req[s].user, o)
          /\ req' = [req EXCEPT ![s] = [op |-> "collected", box |-> req[s].box,
                                        user |-> req[s].user, order |-> o]]
    /\ UNCHANGED <<presence, boxes, orders, queue>>

\* Slip: update_order_status is called with 'collected'.
CollectedStatus(o, x) == [orders EXCEPT ![o].status = "collected"]

\* collect_order_db.
CollectedVia(o, x) ==
    [orders EXCEPT ![o].status = "collected", ![o].via = x]

\* COMMIT.  The orders row is overwritten whatever its status is by now.  (A lost
\* race for the box, or no order, is an error: record_clone_detected rolls back
\* with the transaction, as Drop.)
CollectCommit(s) ==
    /\ req[s].op = "collected"
    /\ orders' = CollectedVia(req[s].order, req[s].box)
    /\ boxes' = [boxes EXCEPT ![req[s].box].tapper = req[s].user]
    /\ End(s)
    /\ UNCHANGED <<presence, queue>>

\* cancel_order reads the order of its owner...
CancelRead(s, o) ==
    /\ o \in DOMAIN orders
    /\ orders[o].status = "pending"
    /\ Start(s, [op |-> "cancel", order |-> o])
    /\ UNCHANGED <<presence, boxes, orders, queue>>

\* cancel_order_db.
CancelledAs(o) == [orders EXCEPT ![o].status = "cancelled"]

\* ... and updates it by id.
CancelCommit(s) ==
    /\ req[s].op = "cancel"
    /\ orders' = CancelledAs(req[s].order)
    /\ End(s)
    /\ UNCHANGED <<presence, boxes, queue>>

-----------------------------------------------------------------------------
CollectionHandler(s) ==
    \/ \E u \in Users, x \in Boxes : CollectRead(s, u, x)
    \/ CollectTap(s)
    \/ CollectCommit(s)
    \/ \E o \in OrderIds : CancelRead(s, o)
    \/ CancelCommit(s)

NextC ==
    \/ Next /\ UNCHANGED <<orders, queue>>
    \/ \E u \in Users, b \in Businesses, o \in OrderIds : CreateOrder(u, b, o)
    \/ \E s \in Sessions : CollectionHandler(s)

SpecC == InitC /\ [][NextC]_allVars

-----------------------------------------------------------------------------
(* Types and safety                                                        *)

\* The tables hold rows of their types, and a handler one of the requests.
TypeOKC ==
    /\ RowsOK
    /\ req \in [Sessions -> CollectionRequest]
    /\ DOMAIN orders \subseteq OrderIds
    /\ orders \in [DOMAIN orders -> Order]
    /\ queue \in [DOMAIN orders -> Nat]

\* One box never pays out two orders: taps of collect_order and of record_nfc_tap
\* may race for it in any number, tap_box lets one collect through.
OneOrderPerBox ==
    \A o, p \in DOMAIN orders :
        o # p /\ orders[o].via # NoBox => orders[o].via # orders[p].via

\* A collected order names the box that was handed over for it, and that box has
\* been tapped, whatever cancellation or other collect came in between; the tables
\* hold rows of their types throughout.
HandedOver ==
    /\ TypeOKC
    /\ \A o \in DOMAIN orders :
           /\ orders[o].status = "collected" => orders[o].via # NoBox
           /\ orders[o].via # NoBox =>
                 /\ orders[o].via \in DOMAIN boxes
                 /\ boxes[orders[o].via].tapper # NoUser

-----------------------------------------------------------------------------
(* The inductive invariant                                                 *)

\* The tables are finite, so handlers can count their rows.
TablesFinite ==
    /\ IsFiniteSet(DOMAIN events) /\ IsFiniteSet(DOMAIN orders)
    /\ \A u \in Users : IsFiniteSet(Pairs(u))

\* What a handler has read of a box or an order is still there.
ReadsExist ==
    \A s \in Sessions :
        /\ req[s].op \in {"tap", "collect", "collected"} => req[s].box \in DOMAIN boxes
        /\ req[s].op = "event" => req[s].box \in DOMAIN boxes \cup {NoBox}
        /\ req[s].op \in {"collected", "cancel"} => req[s].order \in DOMAIN orders

\* A box with a qualifying event has been tapped.
UsedIsTapped ==
    \A e \in DOMAIN events : events[e].box # NoBox =>
        /\ events[e].box \in DOMAIN boxes
        /\ boxes[events[e].box].tapper # NoUser

\* An event that adds no day found the day already there.
SeenDays ==
    \A s \in Sessions : req[s].op = "event" /\ req[s].adds = 0 =>
        <<req[s].business, req[s].day>> \in Pairs(req[s].user)

\* One handler holds the row of a box, and one that collects with it holds it untapped.
RowsLocked ==
    /\ \A x \in Boxes : \A s, t \in Holders(x) : s = t
    /\ \A s \in Sessions :
           req[s].op = "collected" => boxes[req[s].box].tapper = NoUser

CollectionInv ==
    /\ HandedOver /\ OneOrderPerBox
    /\ TablesFinite /\ ReadsExist /\ RowsLocked /\ UsedIsTapped /\ SeenDays
    /\ EventsCounted /\ DaysCovered /\ TapsOverlap
=============================================================================
