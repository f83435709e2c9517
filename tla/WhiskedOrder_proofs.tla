------------------------ MODULE WhiskedOrder_proofs ------------------------
(***************************************************************************)
(* Type correctness, the inductive invariant of the Whisked orders, and    *)
(* that they implement the sale of module WhiskedSale, for any number of   *)
(* orders, PaymentIntents, codes and concurrent handlers.                  *)
(***************************************************************************)
EXTENDS WhiskedOrder, TLAPS

-----------------------------------------------------------------------------
(* Type correctness                                                        *)

LEMMA TypeInit == Init => TypeOK
  BY DEF Init, TypeOK, IntentStatus, Request, Idle

\* What a request that is not idle holds.
LEMMA RequestFields ==
    ASSUME TypeOK, NEW s \in Sessions
    PROVE  /\ req[s] \in Request
           /\ req[s].op = "place" => req[s].intent \in IntentIds \cup {NoIntent}
           /\ req[s].op \in {"capture", "collect", "update"} => req[s].order \in DOMAIN orders
           /\ req[s].op = "update" => req[s].new \in Status
  BY DEF TypeOK, Request, Idle

\* Steps that end a request and write nothing.
LEMMA TypeEnd ==
    ASSUME TypeOK, NEW s \in Sessions, End(s),
           UNCHANGED <<stripeKey, orders, intents, handed>>
    PROVE  TypeOK'
  BY DEF TypeOK, End, Request, Idle

LEMMA TypePlaceAuthorize ==
    ASSUME TypeOK, NEW s \in Sessions, PlaceAuthorize(s)
    PROVE  TypeOK'
  BY DEF TypeOK, PlaceAuthorize, Request, Idle, IntentStatus

LEMMA TypePlaceCommit ==
    ASSUME TypeOK, NEW s \in Sessions, NEW o \in OrderIds, NEW code \in Codes,
           PlaceCommit(s, o, code)
    PROVE  TypeOK'
  <1>1. req[s].intent \in IntentIds \cup {NoIntent}
    BY RequestFields DEF PlaceCommit
  <1>2. orders' \in [DOMAIN orders \cup {o} -> Row]
    BY <1>1 DEF TypeOK, PlaceCommit, Row, Status
  <1>3. QED
    BY <1>2 DEF TypeOK, PlaceCommit, End, Request, Idle

LEMMA TypeUpdateRead ==
    ASSUME TypeOK, NEW s \in Sessions, NEW o \in DOMAIN orders, NEW new \in Status,
           UpdateRead(s, o, new)
    PROVE  TypeOK'
  BY DEF TypeOK, UpdateRead, Request, Idle

LEMMA TypeUpdateWrite ==
    ASSUME TypeOK, NEW s \in Sessions, UpdateWrite(s)
    PROVE  TypeOK'
  <1>1. req[s].order \in DOMAIN orders /\ req[s].new \in Status
    BY RequestFields DEF UpdateWrite
  <1>2. orders' \in [DOMAIN orders -> Row]
    BY <1>1 DEF TypeOK, UpdateWrite, Row
  <1>3. QED
    BY <1>2 DEF TypeOK, UpdateWrite, End, Request, Idle

LEMMA TypeValidateRead ==
    ASSUME TypeOK, NEW s \in Sessions, NEW o \in DOMAIN orders, ValidateRead(s, o)
    PROVE  TypeOK'
  BY DEF TypeOK, ValidateRead, Request, Idle

LEMMA TypeCapture ==
    ASSUME TypeOK, NEW s \in Sessions, Capture(s)
    PROVE  TypeOK'
  <1>1. req[s].order \in DOMAIN orders
    BY RequestFields DEF Capture
  <1>2. QED
    BY <1>1 DEF TypeOK, Capture, Request, Idle, IntentStatus

LEMMA TypeCollect ==
    ASSUME TypeOK, NEW s \in Sessions, Collect(s)
    PROVE  TypeOK'
  <1>1. req[s].order \in DOMAIN orders
    BY RequestFields DEF Collect
  <1>2. orders' \in [DOMAIN orders -> Row]
    BY <1>1 DEF TypeOK, Collect, Row, Status
  <1>3. handed' \in [OrderIds -> Nat]
    BY <1>1 DEF TypeOK, Collect
  <1>4. QED
    BY <1>2, <1>3 DEF TypeOK, Collect, End, Request, Idle

LEMMA TypeEnvironment ==
    ASSUME TypeOK, Environment
    PROVE  TypeOK'
  BY DEF TypeOK, Environment, ClientConfirms, AuthorizationExpires, IntentStatus

LEMMA TypeStep == TypeOK /\ [Next]_vars => TypeOK'
  <1> SUFFICES ASSUME TypeOK, [Next]_vars
               PROVE  TypeOK'
    OBVIOUS
  <1>1. ASSUME NEW s \in Sessions, Handler(s)
        PROVE  TypeOK'
    <2>1. CASE PlaceAuthorize(s)
      BY <2>1, TypePlaceAuthorize
    <2>2. CASE \E o \in OrderIds, code \in Codes : PlaceCommit(s, o, code)
      BY <2>2, TypePlaceCommit
    <2>3. CASE \E o \in DOMAIN orders, new \in Status : UpdateRead(s, o, new)
      BY <2>3, TypeUpdateRead
    <2>4. CASE UpdateWrite(s)
      BY <2>4, TypeUpdateWrite
    <2>5. CASE \E o \in DOMAIN orders : ValidateRead(s, o)
      BY <2>5, TypeValidateRead
    <2>6. CASE Capture(s)
      BY <2>6, TypeCapture
    <2>7. CASE Collect(s)
      BY <2>7, TypeCollect
    <2>8. CASE PlaceCollision(s) \/ CaptureRefused(s) \/ CollectConflict(s) \/ Drop(s)
      BY <2>8, TypeEnd DEF PlaceCollision, CaptureRefused, CollectConflict, Drop
    <2>9. QED
      BY <1>1, <2>1, <2>2, <2>3, <2>4, <2>5, <2>6, <2>7, <2>8 DEF Handler
  <1>2. CASE UNCHANGED vars
    BY <1>2 DEF vars, TypeOK
  <1>3. QED
    BY <1>1, <1>2, TypeEnvironment DEF Next

\* Every reachable state respects the columns of whisked_orders, the intent
\* statuses and what a handler may hold.
THEOREM TypeCorrect == Spec => []TypeOK
  BY TypeInit, TypeStep, PTL DEF Spec

-----------------------------------------------------------------------------
(* The inductive invariant                                                 *)

LEMMA InvInit == Init => IInv
  BY TypeInit DEF Init, IInv, CodesDiffer, IntentsDiffer, UsedIsHanded, UsedIsPaid, Idle

\* The requests of the other handlers, and what they say, stay.
OthersKept(s) == \A t \in Sessions \ {s} : req'[t] = req[t]

LEMMA EndKeepsOthers ==
    ASSUME TypeOK, NEW s \in Sessions, End(s)
    PROVE  OthersKept(s) /\ req'[s] = Idle /\ Idle.op = "idle"
  BY DEF TypeOK, End, OthersKept, Idle

\* Steps that end a request and write nothing.
LEMMA InvEnd ==
    ASSUME IInv, NEW s \in Sessions, End(s),
           UNCHANGED <<stripeKey, orders, intents, handed>>
    PROVE  IInv'
  <1>1. TypeOK /\ TypeOK'
    BY TypeEnd DEF IInv
  <1>2. OthersKept(s) /\ req'[s].op = "idle"
    BY <1>1, EndKeepsOthers
  <1>3. CodesDiffer' /\ UsedIsHanded'
    BY DEF IInv, CodesDiffer, UsedIsHanded
  <1>4. IntentsDiffer'
    BY <1>2 DEF IInv, IntentsDiffer, OthersKept, IntentStatusOf
  <1>5. UsedIsPaid'
    BY <1>2 DEF IInv, UsedIsPaid, Paid, Charged, IntentStatusOf, OthersKept
  <1>6. QED
    BY <1>1, <1>3, <1>4, <1>5 DEF IInv

LEMMA InvPlaceAuthorize ==
    ASSUME IInv, NEW s \in Sessions, PlaceAuthorize(s)
    PROVE  IInv'
  <1>1. TypeOK /\ TypeOK'
    BY TypePlaceAuthorize DEF IInv
  <1>2. OthersKept(s) /\ req'[s].op = "place"
    BY <1>1 DEF PlaceAuthorize, OthersKept, TypeOK
  <1>3. UNCHANGED <<orders, handed>>
    BY DEF PlaceAuthorize
  <1>4. CodesDiffer' /\ UsedIsHanded'
    BY <1>3 DEF IInv, CodesDiffer, UsedIsHanded
  <1>5. \A i \in IntentIds : intents[i] # "absent" => intents'[i] = intents[i]
    BY <1>1 DEF PlaceAuthorize, TypeOK
  <1>6. \A o \in DOMAIN orders : orders[o].intent # NoIntent =>
            /\ orders[o].intent \in IntentIds
            /\ intents[orders[o].intent] # "absent"
    BY <1>1 DEF IInv, IntentsDiffer, IntentStatusOf, TypeOK, Row
  <1>7. \A o \in DOMAIN orders : IntentStatusOf(o)' = IntentStatusOf(o)
    BY <1>3, <1>5, <1>6 DEF IntentStatusOf
  <1>8. IntentsDiffer'
    <2>1. CASE stripeKey
      <3>1. PICK i \in IntentIds :
                /\ intents[i] = "absent"
                /\ intents' = [intents EXCEPT ![i] = "requires_payment_method"]
                /\ req' = [req EXCEPT ![s] = [op |-> "place", intent |-> i]]
        BY <2>1 DEF PlaceAuthorize
      <3>2. req'[s].intent = i /\ intents'[i] = "requires_payment_method" /\ i # NoIntent
        BY <1>1, <3>1, NoIntentAssumption DEF TypeOK
      <3>3. \A t \in Sessions \ {s} : req[t].op = "place" => req[t].intent # i
        BY <3>1, <3>2 DEF IInv, IntentsDiffer
      <3>4. \A o \in DOMAIN orders : orders[o].intent # i
        BY <1>6, <3>1, <3>2
      <3>5. \A t \in Sessions \ {s} : req[t].op = "place" /\ req[t].intent # NoIntent =>
                intents'[req[t].intent] = "requires_payment_method"
        BY <1>1, <1>5, RequestFields DEF IInv, IntentsDiffer
      <3>6. QED
        BY <1>2, <1>3, <1>7, <3>2, <3>3, <3>4, <3>5 DEF IInv, IntentsDiffer, OthersKept
    <2>2. CASE ~stripeKey
      <3>1. req'[s].intent = NoIntent /\ intents' = intents
        BY <1>1, <2>2 DEF PlaceAuthorize, TypeOK
      <3>2. QED
        BY <1>2, <1>3, <1>7, <3>1 DEF IInv, IntentsDiffer, OthersKept
    <2>3. QED
      BY <2>1, <2>2
  <1>9. UsedIsPaid'
    BY <1>1, <1>2, <1>3, <1>7, RequestFields
    DEF IInv, UsedIsPaid, Paid, Charged, OthersKept
  <1>10. QED
    BY <1>1, <1>4, <1>8, <1>9 DEF IInv

LEMMA InvPlaceCommit ==
    ASSUME IInv, NEW s \in Sessions, NEW o \in OrderIds, NEW code \in Codes,
           PlaceCommit(s, o, code)
    PROVE  IInv'
  <1> DEFINE row == [status |-> "pending", code |-> code, intent |-> req[s].intent,
                     used |-> FALSE]
  <1>1. TypeOK /\ TypeOK'
    BY TypePlaceCommit DEF IInv
  <1>2. OthersKept(s) /\ req'[s].op = "idle"
    BY <1>1, EndKeepsOthers DEF PlaceCommit
  <1>3. /\ DOMAIN orders' = DOMAIN orders \cup {o} /\ o \notin DOMAIN orders
        /\ orders'[o] = row
        /\ \A p \in DOMAIN orders : orders'[p] = orders[p]
        /\ UNCHANGED <<intents, handed>>
    BY DEF PlaceCommit
  <1>4. CodesDiffer'
    BY <1>3 DEF IInv, CodesDiffer, PlaceCommit, CodeFree
  <1>5. UsedIsHanded'
    BY <1>3 DEF IInv, UsedIsHanded
  <1>6. /\ req[s].op = "place" /\ req[s].intent \in IntentIds \cup {NoIntent}
        /\ req[s].intent # NoIntent =>
              /\ intents[req[s].intent] = "requires_payment_method"
              /\ \A p \in DOMAIN orders : orders[p].intent # req[s].intent
              /\ \A t \in Sessions \ {s} :
                    req[t].op = "place" => req[t].intent # req[s].intent
    BY <1>1, RequestFields DEF PlaceCommit, IInv, IntentsDiffer
  <1>7. \A p \in DOMAIN orders : IntentStatusOf(p)' = IntentStatusOf(p)
    BY <1>3 DEF IntentStatusOf
  <1>8. IntentStatusOf(o)' = IF req[s].intent = NoIntent THEN "absent"
                             ELSE "requires_payment_method"
    BY <1>3, <1>6 DEF IntentStatusOf
  <1>9. IntentsDiffer'
    <2>1. \A p, q \in DOMAIN orders' :
              orders'[p].intent = orders'[q].intent /\ orders'[p].intent # NoIntent => p = q
      BY <1>3, <1>6 DEF IInv, IntentsDiffer
    <2>2. \A p \in DOMAIN orders' :
              IntentStatusOf(p)' = "absent" => orders'[p].intent = NoIntent
      BY <1>3, <1>7, <1>8 DEF IInv, IntentsDiffer
    <2>3. \A t \in Sessions : req'[t].op = "place" /\ req'[t].intent # NoIntent =>
              /\ intents'[req'[t].intent] = "requires_payment_method"
              /\ \A p \in DOMAIN orders' : orders'[p].intent # req'[t].intent
              /\ \A u \in Sessions :
                    req'[u].op = "place" /\ req'[u].intent = req'[t].intent => t = u
      BY <1>2, <1>3, <1>6 DEF IInv, IntentsDiffer, OthersKept
    <2>4. QED
      BY <2>1, <2>2, <2>3 DEF IntentsDiffer
  <1>10. UsedIsPaid'
    BY <1>1, <1>2, <1>3, <1>7, RequestFields
    DEF IInv, UsedIsPaid, Paid, Charged, OthersKept
  <1>11. QED
    BY <1>1, <1>4, <1>5, <1>9, <1>10 DEF IInv

\* No row is added, and none changes its code, its PaymentIntent or its use.
RowsKept ==
    /\ DOMAIN orders' = DOMAIN orders
    /\ \A o \in DOMAIN orders :
          /\ orders'[o].code = orders[o].code
          /\ orders'[o].intent = orders[o].intent
          /\ orders'[o].used = orders[o].used

\* Steps of the staff handlers that touch neither those columns nor Stripe: what
\* is left to show is what the handler may do next.
LEMMA InvStaffStep ==
    ASSUME IInv, TypeOK', NEW s \in Sessions, OthersKept(s), RowsKept,
           UNCHANGED <<intents, handed>>,
           req'[s].op # "place",
           req'[s].op = "collect" => Paid(req'[s].order),
           req'[s].op = "capture" => orders[req'[s].order].intent # NoIntent
    PROVE  IInv'
  <1>1. TypeOK
    BY DEF IInv
  <1>2. \A o \in OrderIds : IntentStatusOf(o)' = IntentStatusOf(o)
    BY DEF RowsKept, IntentStatusOf
  <1>3. CodesDiffer' /\ UsedIsHanded'
    BY DEF IInv, CodesDiffer, UsedIsHanded, RowsKept
  <1>4. DOMAIN orders \subseteq OrderIds
    BY <1>1 DEF TypeOK
  <1>5. IntentsDiffer'
    BY <1>2, <1>4 DEF IInv, IntentsDiffer, OthersKept, RowsKept
  <1>6. \A o \in DOMAIN orders : Paid(o)' <=> Paid(o)
    BY <1>2, <1>4 DEF Paid, Charged, RowsKept
  <1>7. \A t \in Sessions : req'[t].op \in {"capture", "collect"} =>
            req'[t].order \in DOMAIN orders
    BY DEF TypeOK, RowsKept
  <1>8. UsedIsPaid'
    BY <1>6, <1>7 DEF IInv, UsedIsPaid, OthersKept, RowsKept
  <1>9. QED
    BY <1>3, <1>5, <1>8 DEF IInv

LEMMA InvUpdateRead ==
    ASSUME IInv, NEW s \in Sessions, NEW o \in DOMAIN orders, NEW new \in Status,
           UpdateRead(s, o, new)
    PROVE  IInv'
  <1>1. TypeOK /\ TypeOK'
    BY TypeUpdateRead DEF IInv
  <1>2. OthersKept(s) /\ req'[s].op = "update"
    BY <1>1 DEF UpdateRead, OthersKept, TypeOK
  <1>3. QED
    BY <1>1, <1>2, InvStaffStep DEF UpdateRead, RowsKept

LEMMA InvUpdateWrite ==
    ASSUME IInv, NEW s \in Sessions, UpdateWrite(s)
    PROVE  IInv'
  <1>1. TypeOK /\ TypeOK'
    BY TypeUpdateWrite DEF IInv
  <1>2. OthersKept(s) /\ req'[s].op = "idle"
    BY <1>1, EndKeepsOthers DEF UpdateWrite
  <1>3. req[s].order \in DOMAIN orders
    BY <1>1, RequestFields DEF UpdateWrite
  <1>4. RowsKept
    BY <1>1, <1>3 DEF UpdateWrite, RowsKept, TypeOK, Row
  <1>5. QED
    BY <1>1, <1>2, <1>4, InvStaffStep DEF UpdateWrite

LEMMA InvValidateRead ==
    ASSUME IInv, NEW s \in Sessions, NEW o \in DOMAIN orders, ValidateRead(s, o)
    PROVE  IInv'
  <1>1. TypeOK /\ TypeOK'
    BY TypeValidateRead DEF IInv
  <1>2. /\ OthersKept(s)
        /\ req'[s].op = IF orders[o].intent = NoIntent THEN "collect" ELSE "capture"
        /\ req'[s].order = o
    BY <1>1 DEF ValidateRead, OthersKept, TypeOK
  <1>3. QED
    BY <1>1, <1>2, InvStaffStep DEF ValidateRead, RowsKept, Paid

\* Stripe moves one PaymentIntent on that is not captured: one an order holds, or
\* one a customer has authorized.
IntentMove(i, status) ==
    /\ intents[i] \in {"requires_payment_method", "requires_capture"}
    /\ \/ \E o \in DOMAIN orders : orders[o].intent = i
       \/ intents[i] = "requires_capture"
    /\ intents' = [intents EXCEPT ![i] = status]
    /\ UNCHANGED <<orders, handed>>
    /\ \A t \in Sessions : req'[t].op = "place" => req'[t] = req[t]

\* Placements under way are not affected, and no charge is undone.
LEMMA IntentMoves ==
    ASSUME IInv, NEW i \in IntentIds,
           NEW status \in {"requires_capture", "captured", "canceled"},
           IntentMove(i, status)
    PROVE  /\ CodesDiffer' /\ UsedIsHanded' /\ IntentsDiffer'
           /\ \A o \in DOMAIN orders : Charged(o) => Charged(o)'
  <1> USE DEF IntentMove
  <1>1. TypeOK /\ CodesDiffer /\ UsedIsHanded /\ IntentsDiffer
    BY DEF IInv
  <1>2. CodesDiffer' /\ UsedIsHanded'
    BY <1>1 DEF CodesDiffer, UsedIsHanded
  <1>3. intents'[i] = status /\ \A j \in IntentIds \ {i} : intents'[j] = intents[j]
    BY <1>1 DEF TypeOK
  <1>4. \A o \in DOMAIN orders : Charged(o) => Charged(o)'
    BY <1>1, <1>3 DEF Charged, IntentStatusOf, TypeOK, Row
  <1>5. \A t \in Sessions : req[t].op = "place" /\ req[t].intent # NoIntent =>
            req[t].intent \in IntentIds \ {i}
    BY <1>1, RequestFields DEF IntentsDiffer
  <1>6. \A o \in DOMAIN orders : IntentStatusOf(o)' = "absent" => IntentStatusOf(o) = "absent"
    BY <1>1, <1>3 DEF IntentStatusOf, TypeOK, Row
  <1>7. IntentsDiffer'
    BY <1>1, <1>3, <1>5, <1>6 DEF IntentsDiffer
  <1>8. QED
    BY <1>2, <1>4, <1>7

\* The PaymentIntent of an order whose status is known.
LEMMA IntentOfOrder ==
    ASSUME TypeOK, NEW o \in DOMAIN orders, orders[o].intent # NoIntent
    PROVE  /\ orders[o].intent \in IntentIds
           /\ IntentStatusOf(o) = intents[orders[o].intent]
  BY DEF TypeOK, Row, IntentStatusOf

LEMMA InvCapture ==
    ASSUME IInv, NEW s \in Sessions, Capture(s)
    PROVE  IInv'
  <1>1. TypeOK /\ TypeOK'
    BY TypeCapture DEF IInv
  <1> DEFINE o == req[s].order
  <1>2. /\ o \in DOMAIN orders /\ orders[o].intent # NoIntent
        /\ orders[o].intent \in IntentIds
    BY <1>1, RequestFields, IntentOfOrder DEF Capture, IInv, UsedIsPaid
  <1>3. /\ OthersKept(s)
        /\ req'[s] = [op |-> "collect", order |-> o]
    BY <1>1 DEF Capture, OthersKept, TypeOK
  <1>4. /\ CodesDiffer' /\ UsedIsHanded' /\ IntentsDiffer'
        /\ \A p \in DOMAIN orders : Charged(p) => Charged(p)'
    <2>1. PICK i \in IntentIds : i = orders[o].intent
      BY <1>2
    <2>2. IntentMove(i, "captured")
      BY <1>2, <1>3, <2>1 DEF IntentMove, Capture, OthersKept
    <2>3. QED
      BY <2>2, IntentMoves
  <1>5. Charged(o)'
    BY <1>1, <1>2 DEF Capture, Charged, IntentStatusOf, TypeOK
  <1>6. UsedIsPaid'
    <2>1. /\ UNCHANGED orders /\ UsedIsPaid
          /\ \A t \in Sessions : req[t].op = "collect" => req[t].order \in DOMAIN orders
      BY <1>1, RequestFields DEF Capture, IInv
    <2>2. \A p \in DOMAIN orders : Paid(p) => Paid(p)'
      BY <1>4, <2>1 DEF Paid
    <2>3. Paid(o)' /\ req'[s].order = o /\ req'[s].op = "collect"
      BY <1>3, <1>5 DEF Paid
    <2>4. QED
      BY <1>3, <2>1, <2>2, <2>3 DEF UsedIsPaid, OthersKept
  <1>7. QED
    BY <1>1, <1>4, <1>6 DEF IInv

LEMMA InvEnvironment ==
    ASSUME IInv, Environment
    PROVE  IInv'
  <1>1. TypeOK /\ TypeOK'
    BY TypeEnvironment DEF IInv
  <1>2. PICK i \in IntentIds, status \in {"requires_capture", "captured", "canceled"} :
            IntentMove(i, status) /\ UNCHANGED <<req, orders>>
    BY <1>1, IntentOfOrder
    DEF Environment, ClientConfirms, AuthorizationExpires, IntentMove
  <1>3. /\ CodesDiffer' /\ UsedIsHanded' /\ IntentsDiffer'
        /\ \A o \in DOMAIN orders : Charged(o) => Charged(o)'
    BY <1>2, IntentMoves
  <1>4. UsedIsPaid'
    BY <1>1, <1>2, <1>3, RequestFields DEF IInv, UsedIsPaid, Paid
  <1>5. QED
    BY <1>1, <1>3, <1>4 DEF IInv

LEMMA InvCollect ==
    ASSUME IInv, NEW s \in Sessions, Collect(s)
    PROVE  IInv'
  <1>1. TypeOK /\ TypeOK'
    BY TypeCollect DEF IInv
  <1> DEFINE o == req[s].order
  <1>2. OthersKept(s) /\ req'[s].op = "idle"
    BY <1>1, EndKeepsOthers DEF Collect
  <1>3. o \in DOMAIN orders /\ ~orders[o].used /\ Paid(o)
    BY <1>1, RequestFields DEF Collect, Collectable, IInv, UsedIsPaid
  <1>4. /\ DOMAIN orders' = DOMAIN orders /\ orders'[o].used
        /\ \A p \in DOMAIN orders :
              /\ orders'[p].code = orders[p].code /\ orders'[p].intent = orders[p].intent
              /\ p # o => orders'[p].used = orders[p].used
    <2>1. orders[o] \in Row /\ orders \in [DOMAIN orders -> Row]
      BY <1>1, <1>3 DEF TypeOK
    <2>2. orders'[o] = [status |-> "collected", code |-> orders[o].code,
                        intent |-> orders[o].intent, used |-> TRUE]
      BY <1>3, <2>1 DEF Collect, Row
    <2>3. \A p \in DOMAIN orders : p # o => orders'[p] = orders[p]
      BY <2>1 DEF Collect
    <2>4. DOMAIN orders' = DOMAIN orders
      BY <2>1 DEF Collect
    <2>5. QED
      BY <2>2, <2>3, <2>4
  <1>5. \A p \in OrderIds : handed'[p] = IF p = o THEN handed[p] + 1 ELSE handed[p]
    BY <1>1, <1>3 DEF Collect, TypeOK
  <1>6. UsedIsHanded'
    BY <1>1, <1>3, <1>4, <1>5 DEF IInv, UsedIsHanded
  <1>7. CodesDiffer'
    BY <1>4 DEF IInv, CodesDiffer
  <1>8. \A p \in DOMAIN orders : IntentStatusOf(p)' = IntentStatusOf(p)
    BY <1>4 DEF Collect, IntentStatusOf
  <1>9. IntentsDiffer'
    BY <1>2, <1>4, <1>8 DEF Collect, IInv, IntentsDiffer, OthersKept
  <1>10. \A p \in DOMAIN orders : Paid(p)' <=> Paid(p)
    BY <1>4, <1>8 DEF Paid, Charged
  <1>11. UsedIsPaid'
    BY <1>1, <1>2, <1>3, <1>4, <1>10, RequestFields DEF IInv, UsedIsPaid, OthersKept
  <1>12. QED
    BY <1>1, <1>6, <1>7, <1>9, <1>11 DEF IInv

LEMMA InvStep == IInv /\ [Next]_vars => IInv'
  <1> SUFFICES ASSUME IInv, [Next]_vars
               PROVE  IInv'
    OBVIOUS
  <1>1. ASSUME NEW s \in Sessions, Handler(s)
        PROVE  IInv'
    <2>1. CASE PlaceAuthorize(s)
      BY <2>1, InvPlaceAuthorize
    <2>2. CASE \E o \in OrderIds, code \in Codes : PlaceCommit(s, o, code)
      BY <2>2, InvPlaceCommit
    <2>3. CASE \E o \in DOMAIN orders, new \in Status : UpdateRead(s, o, new)
      BY <2>3, InvUpdateRead
    <2>4. CASE UpdateWrite(s)
      BY <2>4, InvUpdateWrite
    <2>5. CASE \E o \in DOMAIN orders : ValidateRead(s, o)
      BY <2>5, InvValidateRead
    <2>6. CASE Capture(s)
      BY <2>6, InvCapture
    <2>7. CASE Collect(s)
      BY <2>7, InvCollect
    <2>8. CASE PlaceCollision(s) \/ CaptureRefused(s) \/ CollectConflict(s) \/ Drop(s)
      BY <2>8, InvEnd DEF PlaceCollision, CaptureRefused, CollectConflict, Drop
    <2>9. QED
      BY <1>1, <2>1, <2>2, <2>3, <2>4, <2>5, <2>6, <2>7, <2>8 DEF Handler
  <1>2. CASE UNCHANGED vars
    <2>1. TypeOK'
      BY <1>2, TypeStep DEF IInv
    <2>2. QED
      BY <1>2, <2>1 DEF vars, IInv, CodesDiffer, IntentsDiffer, UsedIsHanded, UsedIsPaid,
                        Paid, Charged, IntentStatusOf
  <1>3. QED
    BY <1>1, <1>2, InvEnvironment DEF Next

\* An order handed over was handed over once and paid, no PaymentIntent pays for
\* two orders, and no two unconsumed orders answer to one code.
THEOREM Invariance == Spec => []IInv
  BY InvInit, InvStep, PTL DEF Spec

-----------------------------------------------------------------------------
(* The orders implement the sale                                           *)

\* Steps that add no order, charge none and hand none over.
LEMMA SalesKept ==
    ASSUME DOMAIN orders' = DOMAIN orders,
           \A o \in DOMAIN orders :
              /\ orders'[o].intent = orders[o].intent
              /\ Charged(o)' <=> Charged(o)
              /\ handed'[o] = handed[o]
    PROVE  UNCHANGED Sales
  <1>1. \A o \in DOMAIN orders : SaleOf(o)' = SaleOf(o)
    BY DEF SaleOf, BillOf
  <1>2. QED
    BY <1>1 DEF Sales

LEMMA SaleInit == Init => Counter!Init
  BY DEF Init, Counter!Init, Sales

\* The commit of a placement opens a sale.
LEMMA PlaceCommitOpens ==
    ASSUME IInv, NEW s \in Sessions, NEW o \in OrderIds, NEW code \in Codes,
           PlaceCommit(s, o, code)
    PROVE  \E bill \in Counter!Bill : Counter!Open(o, bill)
  <1>1. /\ DOMAIN orders' = DOMAIN orders \cup {o} /\ o \notin DOMAIN orders
        /\ orders'[o].intent = req[s].intent
        /\ \A p \in DOMAIN orders : orders'[p] = orders[p]
        /\ UNCHANGED <<intents, handed>>
    BY DEF PlaceCommit
  <1>2. handed[o] = 0
    BY <1>1 DEF IInv, UsedIsHanded
  <1>3. req[s].intent # NoIntent => intents[req[s].intent] = "requires_payment_method"
    BY DEF PlaceCommit, IInv, IntentsDiffer
  <1>4. Charged(o)' = FALSE
    BY <1>1, <1>3 DEF Charged, IntentStatusOf
  <1>5. PICK bill \in {"none", "open"} : SaleOf(o)' = [bill |-> bill, handed |-> 0]
    BY <1>1, <1>2, <1>4 DEF SaleOf, BillOf
  <1>6. \A p \in DOMAIN orders : SaleOf(p)' = SaleOf(p)
    BY <1>1 DEF SaleOf, BillOf, Charged, IntentStatusOf
  <1>7. QED
    BY <1>1, <1>5, <1>6 DEF Counter!Open, Counter!Bill, Sales

\* A capture charges the sale of the scanned order, and of no other.
LEMMA CaptureCharges ==
    ASSUME IInv, NEW s \in Sessions, Capture(s)
    PROVE  req[s].order \in DOMAIN Sales /\ Counter!Charge(req[s].order)
  <1>0. PICK o \in DOMAIN orders : o = req[s].order
    BY RequestFields DEF Capture, IInv
  <1>1. /\ TypeOK /\ o \in DOMAIN orders /\ orders[o].intent # NoIntent
        /\ UNCHANGED <<orders, handed>>
    BY <1>0, RequestFields DEF Capture, IInv, UsedIsPaid
  <1>2. /\ orders[o].intent \in IntentIds
        /\ ~Charged(o)
    BY <1>0, <1>1, IntentOfOrder DEF Capture, Charged
  <1>3. handed[o] = 0
    <2>1. ~orders[o].used
      BY <1>0, <1>1, <1>2 DEF IInv, UsedIsPaid, Paid
    <2>2. QED
      BY <1>0, <1>1, <2>1 DEF IInv, UsedIsHanded, TypeOK
  <1>4. Charged(o)'
    BY <1>0, <1>1, <1>2 DEF Capture, Charged, IntentStatusOf, TypeOK
  <1>5. \A p \in DOMAIN orders \ {o} : Charged(p)' <=> Charged(p)
    <2>1. \A p \in DOMAIN orders \ {o} : orders[p].intent # orders[o].intent
      BY <1>0, <1>1 DEF IInv, IntentsDiffer
    <2>2. \A p \in DOMAIN orders \ {o} : IntentStatusOf(p)' = IntentStatusOf(p)
      BY <1>0, <1>1, <1>2, <2>1 DEF Capture, IntentStatusOf, TypeOK, Row
    <2>3. QED
      BY <1>0, <1>1, <2>2 DEF Charged
  <1>6. SaleOf(o) = [bill |-> "open", handed |-> 0]
    BY <1>0, <1>1, <1>2, <1>3 DEF SaleOf, BillOf
  <1>7. SaleOf(o)' = [bill |-> "charged", handed |-> 0]
    BY <1>0, <1>1, <1>3, <1>4 DEF SaleOf, BillOf
  <1>8. \A p \in DOMAIN orders \ {o} : SaleOf(p)' = SaleOf(p)
    BY <1>0, <1>1, <1>5 DEF SaleOf, BillOf
  <1>9. QED
    BY <1>0, <1>1, <1>6, <1>7, <1>8 DEF Counter!Charge, Sales

\* The conditional UPDATE hands the sale over, paid and for the first time.
LEMMA CollectHandsOver ==
    ASSUME IInv, NEW s \in Sessions, Collect(s)
    PROVE  req[s].order \in DOMAIN Sales /\ Counter!HandOver(req[s].order)
  <1>0. PICK o \in DOMAIN orders : o = req[s].order
    BY RequestFields DEF Collect, IInv
  <1>1. /\ TypeOK /\ o \in DOMAIN orders /\ ~orders[o].used /\ Paid(o)
        /\ o \in OrderIds
    BY <1>0, RequestFields DEF Collect, Collectable, IInv, UsedIsPaid, TypeOK
  <1>2. handed[o] = 0
    BY <1>0, <1>1 DEF IInv, UsedIsHanded
  <1>3. /\ DOMAIN orders' = DOMAIN orders
        /\ \A p \in DOMAIN orders : orders'[p].intent = orders[p].intent
        /\ UNCHANGED intents
    BY <1>0, <1>1 DEF Collect, TypeOK, Row
  <1>4. \A p \in DOMAIN orders : Charged(p)' <=> Charged(p)
    BY <1>3 DEF Charged, IntentStatusOf
  <1>5. handed'[o] = 1 /\ \A p \in DOMAIN orders \ {o} : handed'[p] = handed[p]
    BY <1>0, <1>1, <1>2 DEF Collect, TypeOK
  <1>6. SaleOf(o) = [bill |-> BillOf(o), handed |-> 0] /\ BillOf(o) # "open"
    BY <1>0, <1>1, <1>2 DEF SaleOf, BillOf, Paid
  <1>7. SaleOf(o)' = [bill |-> BillOf(o), handed |-> 1]
    BY <1>0, <1>1, <1>3, <1>4, <1>5 DEF SaleOf, BillOf
  <1>8. \A p \in DOMAIN orders \ {o} : SaleOf(p)' = SaleOf(p)
    BY <1>3, <1>4, <1>5 DEF SaleOf, BillOf
  <1>9. QED
    <2>1. Sales[o].bill = BillOf(o) /\ Sales[o].handed = 0
      BY <1>6 DEF Sales
    <2>2. Sales' = [Sales EXCEPT ![o] = [bill |-> BillOf(o), handed |-> 1]]
      BY <1>3, <1>7, <1>8 DEF Sales
    <2>3. QED
      BY <1>0, <1>6, <2>1, <2>2 DEF Counter!HandOver, Sales

\* Every other step leaves the sales alone.
LEMMA OtherStepsKeepSales ==
    ASSUME IInv, NEW s \in Sessions,
           \/ PlaceAuthorize(s)
           \/ \E o \in DOMAIN orders, new \in Status : UpdateRead(s, o, new)
           \/ UpdateWrite(s)
           \/ \E o \in DOMAIN orders : ValidateRead(s, o)
           \/ PlaceCollision(s) \/ CaptureRefused(s) \/ CollectConflict(s) \/ Drop(s)
    PROVE  UNCHANGED Sales
  <1>1. TypeOK
    BY DEF IInv
  <1>2. CASE PlaceAuthorize(s)
    <2>1. UNCHANGED <<orders, handed>>
      BY <1>2 DEF PlaceAuthorize
    <2>2. \A i \in IntentIds : intents[i] = "captured" <=> intents'[i] = "captured"
      BY <1>1, <1>2 DEF PlaceAuthorize, TypeOK
    <2>3. \A o \in DOMAIN orders : Charged(o)' <=> Charged(o)
      BY <1>1, <2>1, <2>2 DEF Charged, IntentStatusOf, TypeOK, Row
    <2>4. QED
      BY <2>1, <2>3, SalesKept
  <1>3. CASE UpdateWrite(s)
    <2>1. req[s].order \in DOMAIN orders
      BY <1>1, <1>3, RequestFields DEF UpdateWrite
    <2>2. /\ DOMAIN orders' = DOMAIN orders
          /\ \A o \in DOMAIN orders : orders'[o].intent = orders[o].intent
          /\ UNCHANGED <<intents, handed>>
      BY <1>1, <1>3, <2>1 DEF UpdateWrite, TypeOK, Row
    <2>3. \A o \in DOMAIN orders : Charged(o)' <=> Charged(o)
      BY <2>2 DEF Charged, IntentStatusOf
    <2>4. QED
      BY <2>2, <2>3, SalesKept
  <1>4. CASE UNCHANGED <<orders, intents, handed>>
    BY <1>4 DEF Sales, SaleOf, BillOf, Charged, IntentStatusOf
  <1>5. QED
    BY <1>2, <1>3, <1>4
    DEF UpdateRead, ValidateRead, PlaceCollision, CaptureRefused, CollectConflict, Drop

\* A confirmation or an expiry is no charge.
LEMMA EnvironmentKeepsSales ==
    ASSUME IInv, Environment
    PROVE  UNCHANGED Sales
  <1>1. TypeOK /\ UNCHANGED <<orders, handed>>
    BY DEF IInv, Environment, ClientConfirms, AuthorizationExpires
  <1>2. \A i \in IntentIds : intents[i] = "captured" <=> intents'[i] = "captured"
    BY <1>1, IntentOfOrder DEF Environment, ClientConfirms, AuthorizationExpires, TypeOK
  <1>3. \A o \in DOMAIN orders : Charged(o)' <=> Charged(o)
    BY <1>1, <1>2 DEF Charged, IntentStatusOf, TypeOK, Row
  <1>4. QED
    BY <1>1, <1>3, SalesKept

LEMMA SaleStep == IInv /\ [Next]_vars => [Counter!Next]_Sales
  <1> SUFFICES ASSUME IInv, [Next]_vars
               PROVE  Counter!Next \/ UNCHANGED Sales
    OBVIOUS
  <1>1. DOMAIN Sales = DOMAIN orders
    BY DEF Sales
  <1>2. ASSUME NEW s \in Sessions, Handler(s)
        PROVE  Counter!Next \/ UNCHANGED Sales
    <2>1. CASE \E o \in OrderIds, code \in Codes : PlaceCommit(s, o, code)
      BY <2>1, PlaceCommitOpens DEF Counter!Next
    <2>2. CASE Capture(s)
      BY <2>2, CaptureCharges DEF Counter!Next
    <2>3. CASE Collect(s)
      BY <2>3, CollectHandsOver DEF Counter!Next
    <2>4. QED
      BY <1>2, <2>1, <2>2, <2>3, OtherStepsKeepSales DEF Handler
  <1>3. CASE UNCHANGED vars
    BY <1>3 DEF vars, Sales, SaleOf, BillOf, Charged, IntentStatusOf
  <1>4. QED
    BY <1>2, <1>3, EnvironmentKeepsSales DEF Next

\* Whatever races, drops and refusals: every behaviour of the handlers is one of
\* the counter, which hands an order over once and never before its charge.
THEOREM SaleRefinement == Spec => ImplementsSale
  <1>1. IInv /\ [Next]_vars => [Counter!Next]_Sales
    BY SaleStep
  <1>2. QED
    BY <1>1, SaleInit, Invariance, PTL DEF Spec, ImplementsSale, Counter!Spec
=============================================================================
