---------------------------- MODULE WhiskedOrder ----------------------------
(***************************************************************************)
(* Whisked pickup orders: placement with a manually captured Stripe        *)
(* PaymentIntent and a pickup code, the staff's status timeline, and the   *)
(* scan that captures the payment and consumes the code.                   *)
(*                                                                         *)
(* The staff handlers run on a pooled connection without a transaction: a  *)
(* row is read, checked, Stripe is called, and the row is written, each a  *)
(* step of its own; req[s] is what a running handler holds between them. A *)
(* handler may end after any of them (Drop): the process dies, the 30 s    *)
(* TimeoutLayer or a disconnecting client drops its future.                *)
(***************************************************************************)
EXTENDS Naturals

CONSTANTS
    OrderIds,       \* bound: ids the whisked_orders sequence may hand out
    IntentIds,      \* bound: PaymentIntents Stripe may create
    Codes,          \* pickup codes generate_pickup_code may return
    NoIntent,       \* stripe_payment_intent_id IS NULL
    Sessions        \* request handlers running at the same time

ASSUME NoIntentAssumption == NoIntent \notin IntentIds

VARIABLES
    stripeKey,      \* whether a Stripe key is configured
    orders,         \* whisked_orders: id -> row
    intents,        \* Stripe's side: the status of each PaymentIntent
    req,            \* what each running handler holds
    handed          \* how often a scan of the order was answered "collected"

vars == <<stripeKey, orders, intents, req, handed>>

Status == {"pending", "preparing", "ready", "collected"}
IntentStatus ==
    {"absent", "requires_payment_method", "requires_capture", "captured", "canceled"}

\* pickup_code_used_at only matters as NULL or not.
Row == [status: Status, code: Codes, intent: IntentIds \cup {NoIntent}, used: BOOLEAN]

Idle == [op |-> "idle"]

Request ==
    {Idle}
    \cup [op: {"place"}, intent: IntentIds \cup {NoIntent}]
    \cup [op: {"capture", "collect"}, order: OrderIds]
    \cup [op: {"update"}, order: OrderIds, new: Status]

End(s) == req' = [req EXCEPT ![s] = Idle]

-----------------------------------------------------------------------------
Init ==
    /\ stripeKey \in BOOLEAN
    /\ orders = [o \in {} |-> Idle]
    /\ intents = [i \in IntentIds |-> "absent"]
    /\ req = [s \in Sessions |-> Idle]
    /\ handed = [o \in OrderIds |-> 0]

-----------------------------------------------------------------------------
(* place_order                                                             *)

\* create_payment_intent_if_configured, after the cart was validated.
PlaceAuthorize(s) ==
    /\ req[s] = Idle
    /\ IF stripeKey
       THEN \E i \in IntentIds :
               /\ intents[i] = "absent"
               /\ intents' = [intents EXCEPT ![i] = "requires_payment_method"]
               /\ req' = [req EXCEPT ![s] = [op |-> "place", intent |-> i]]
       ELSE /\ req' = [req EXCEPT ![s] = [op |-> "place", intent |-> NoIntent]]
            /\ UNCHANGED intents
    /\ UNCHANGED <<stripeKey, orders, handed>>

\* The partial unique index: codes of unconsumed orders are taken.
CodeFree(code) == \A o \in DOMAIN orders : orders[o].used \/ orders[o].code # code

\* mint_order, the line items and COMMIT.
PlaceCommit(s, o, code) ==
    /\ req[s].op = "place"
    /\ o \in OrderIds \ DOMAIN orders
    /\ CodeFree(code)
    /\ orders' = [p \in DOMAIN orders \cup {o} |->
                     IF p = o THEN [status |-> "pending", code |-> code,
                                    intent |-> req[s].intent, used |-> FALSE]
                     ELSE orders[p]]
    /\ End(s)
    /\ UNCHANGED <<stripeKey, intents, handed>>

\* A collision aborts the transaction: the next INSERT of the loop fails with
\* "current transaction is aborted", which is not a unique violation.
PlaceCollision(s) ==
    /\ req[s].op = "place"
    /\ \E code \in Codes : ~CodeFree(code)
    /\ End(s)
    /\ UNCHANGED <<stripeKey, orders, intents, handed>>

-----------------------------------------------------------------------------
(* update_order_status                                                     *)

\* Slip: the second transition of the matches! is lost.
AllowedFirstOnly(from, to) == <<from, to>> = <<"pending", "preparing">>

Allowed(from, to) == <<from, to>> \in {<<"pending", "preparing">>, <<"preparing", "ready">>}

UpdateRead(s, o, new) ==
    /\ req[s] = Idle
    /\ Allowed(orders[o].status, new)
    /\ req' = [req EXCEPT ![s] = [op |-> "update", order |-> o, new |-> new]]
    /\ UNCHANGED <<stripeKey, orders, intents, handed>>

\* UPDATE ... WHERE id = $1, whatever the status is by now.
UpdateWrite(s) ==
    /\ req[s].op = "update"
    /\ orders' = [orders EXCEPT ![req[s].order].status = req[s].new]
    /\ End(s)
    /\ UNCHANGED <<stripeKey, intents, handed>>

-----------------------------------------------------------------------------
(* validate_pickup, called by the owner with the right code                *)

\* The pre-checks; without a PaymentIntent there is nothing to capture.
ValidateRead(s, o) ==
    /\ req[s] = Idle
    /\ ~orders[o].used
    /\ orders[o].status = "ready"
    /\ req' = [req EXCEPT ![s] =
                  [op |-> IF orders[o].intent = NoIntent THEN "collect" ELSE "capture",
                   order |-> o]]
    /\ UNCHANGED <<stripeKey, orders, intents, handed>>

\* Slip: the answer of Stripe is not looked at.
CaptureUnchecked(s) ==
    /\ req[s].op = "capture"
    /\ req' = [req EXCEPT ![s] = [op |-> "collect", order |-> req[s].order]]
    /\ UNCHANGED <<stripeKey, orders, intents, handed>>

\* Stripe captures an authorized intent and the answer arrives.
Capture(s) ==
    /\ req[s].op = "capture"
    /\ intents[orders[req[s].order].intent] = "requires_capture"
    /\ intents' = [intents EXCEPT ![orders[req[s].order].intent] = "captured"]
    /\ req' = [req EXCEPT ![s] = [op |-> "collect", order |-> req[s].order]]
    /\ UNCHANGED <<stripeKey, orders, handed>>

\* Stripe is unreachable, or the intent is not one it can capture: unpaid,
\* expired, or captured already.  (A lost answer is Capture followed by Drop.)
CaptureRefused(s) ==
    /\ req[s].op = "capture"
    /\ End(s)
    /\ UNCHANGED <<stripeKey, orders, intents, handed>>

\* Slip: the UPDATE trusts the pre-checks and has the id alone in its WHERE clause.
CollectableById(o) == o \in DOMAIN orders

\* The WHERE clause of collect_with_pickup_code.
Collectable(o) == ~orders[o].used /\ orders[o].status = "ready"

Collect(s) ==
    /\ req[s].op = "collect"
    /\ Collectable(req[s].order)
    /\ orders' = [orders EXCEPT ![req[s].order].status = "collected",
                                ![req[s].order].used = TRUE]
    /\ handed' = [handed EXCEPT ![req[s].order] = @ + 1]
    /\ End(s)
    /\ UNCHANGED <<stripeKey, intents>>

\* No row matched: "Pickup code already used".
CollectConflict(s) ==
    /\ req[s].op = "collect"
    /\ ~Collectable(req[s].order)
    /\ End(s)
    /\ UNCHANGED <<stripeKey, orders, intents, handed>>

-----------------------------------------------------------------------------
(* The environment                                                         *)

\* The handler's future is dropped; an open transaction rolls back.
Drop(s) ==
    /\ req[s] # Idle
    /\ End(s)
    /\ UNCHANGED <<stripeKey, orders, intents, handed>>

\* The customer confirms the payment with the client_secret of the answer.
ClientConfirms(o) ==
    /\ orders[o].intent # NoIntent
    /\ intents[orders[o].intent] = "requires_payment_method"
    /\ intents' = [intents EXCEPT ![orders[o].intent] = "requires_capture"]
    /\ UNCHANGED <<stripeKey, orders, req, handed>>

\* Stripe cancels an authorization that is not captured for a week.
AuthorizationExpires(i) ==
    /\ intents[i] = "requires_capture"
    /\ intents' = [intents EXCEPT ![i] = "canceled"]
    /\ UNCHANGED <<stripeKey, orders, req, handed>>

-----------------------------------------------------------------------------
Handler(s) ==
    \/ PlaceAuthorize(s)
    \/ \E o \in OrderIds, code \in Codes : PlaceCommit(s, o, code)
    \/ PlaceCollision(s)
    \/ \E o \in DOMAIN orders, new \in Status : UpdateRead(s, o, new)
    \/ UpdateWrite(s)
    \/ \E o \in DOMAIN orders : ValidateRead(s, o)
    \/ Capture(s) \/ CaptureRefused(s)
    \/ Collect(s) \/ CollectConflict(s)
    \/ Drop(s)

Environment ==
    \/ \E o \in DOMAIN orders : ClientConfirms(o)
    \/ \E i \in IntentIds : AuthorizationExpires(i)

Next == (\E s \in Sessions : Handler(s)) \/ Environment

Spec == Init /\ [][Next]_vars

\* A running handler goes on or is dropped; the staff keep advancing and scanning
\* every order they can, and of repeated tries some get through.
Fairness ==
    /\ \A s \in Sessions : WF_vars(req[s] # Idle /\ Handler(s))
    /\ SF_vars(\E s \in Sessions : UpdateWrite(s))
    /\ SF_vars(\E s \in Sessions : Capture(s))
    /\ SF_vars(\E s \in Sessions : Collect(s))
    /\ \A o \in OrderIds :
          /\ SF_vars(o \in DOMAIN orders /\ \E s \in Sessions, new \in Status :
                        UpdateRead(s, o, new))
          /\ SF_vars(o \in DOMAIN orders /\ \E s \in Sessions : ValidateRead(s, o))

FairSpec == Spec /\ Fairness

-----------------------------------------------------------------------------
(* Properties                                                              *)

TypeOK ==
    /\ stripeKey \in BOOLEAN
    /\ DOMAIN orders \subseteq OrderIds
    /\ orders \in [DOMAIN orders -> Row]
    /\ intents \in [IntentIds -> IntentStatus]
    /\ req \in [Sessions -> Request]
    /\ \A s \in Sessions :
          req[s].op \in {"capture", "collect", "update"} => req[s].order \in DOMAIN orders
    /\ handed \in [OrderIds -> Nat]

IntentStatusOf(o) ==
    IF o \in DOMAIN orders /\ orders[o].intent # NoIntent
    THEN intents[orders[o].intent] ELSE "absent"

Charged(o) == IntentStatusOf(o) = "captured"

\* An order as a sale of the counter.
BillOf(o) ==
    IF orders[o].intent = NoIntent THEN "none" ELSE IF Charged(o) THEN "charged" ELSE "open"
SaleOf(o) == [bill |-> BillOf(o), handed |-> handed[o]]
Sales == [o \in DOMAIN orders |-> SaleOf(o)]

Counter == INSTANCE WhiskedSale WITH SaleIds <- OrderIds, sales <- Sales

\* Whatever scans, status changes, drops and refused captures race, an order is
\* handed over once, after its payment was captured, and never charged later.
ImplementsSale == Counter!Spec

\* An authorized order whose preparation goes on does not wait for ever: it is
\* charged or its authorization lapses. One to be paid at the counter is collected.
AuthorizedIsSettled ==
    \A o \in OrderIds :
        /\ IntentStatusOf(o) = "requires_capture"
              ~> IntentStatusOf(o) \in {"captured", "canceled"}
        /\ ~stripeKey /\ o \in DOMAIN orders ~> handed[o] = 1

-----------------------------------------------------------------------------
(* The inductive invariant                                                 *)

\* At most one unconsumed order answers to a pickup code.
CodesDiffer ==
    \A o, p \in DOMAIN orders :
        orders[o].code = orders[p].code /\ ~orders[o].used /\ ~orders[p].used => o = p

\* A PaymentIntent pays for one order, and the intent of a placement that has
\* not committed cannot have been confirmed by anybody.
IntentsDiffer ==
    /\ \A o, p \in DOMAIN orders :
          orders[o].intent = orders[p].intent /\ orders[o].intent # NoIntent => o = p
    /\ \A o \in DOMAIN orders : IntentStatusOf(o) = "absent" => orders[o].intent = NoIntent
    /\ \A s \in Sessions : req[s].op = "place" /\ req[s].intent # NoIntent =>
          /\ intents[req[s].intent] = "requires_payment_method"
          /\ \A o \in DOMAIN orders : orders[o].intent # req[s].intent
          /\ \A t \in Sessions :
                req[t].op = "place" /\ req[t].intent = req[s].intent => s = t

\* The code is consumed by the hand-over, and only then.
UsedIsHanded ==
    \A o \in OrderIds :
        handed[o] = IF o \in DOMAIN orders /\ orders[o].used THEN 1 ELSE 0

Paid(o) == orders[o].intent # NoIntent => Charged(o)

\* A consumed order is paid, and so is one a scan is about to consume.
UsedIsPaid ==
    /\ \A o \in DOMAIN orders : orders[o].used => Paid(o)
    /\ \A s \in Sessions : req[s].op = "collect" => Paid(req[s].order)
    /\ \A s \in Sessions : req[s].op = "capture" => orders[req[s].order].intent # NoIntent

IInv ==
    /\ TypeOK
    /\ CodesDiffer
    /\ IntentsDiffer
    /\ UsedIsHanded
    /\ UsedIsPaid
=============================================================================
