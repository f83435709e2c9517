---------------------------- MODULE WhiskedSale ----------------------------
(***************************************************************************)
(* What the Whisked counter promises, without rows, codes or requests: an  *)
(* order is handed over once, a payable one only after its charge, and no  *)
(* order is charged once it is handed over.                                *)
(***************************************************************************)
EXTENDS Naturals

CONSTANT SaleIds

VARIABLE sales      \* the sales opened so far: id -> [bill, handed]

Bill == {"none", "open", "charged"}
Sale == [bill: Bill, handed: Nat]

Init == sales = [s \in {} |-> 0]

\* Nothing is due for a sale paid at the counter.
Open(s, bill) ==
    /\ s \notin DOMAIN sales
    /\ bill \in {"none", "open"}
    /\ sales' = [t \in DOMAIN sales \cup {s} |->
                    IF t = s THEN [bill |-> bill, handed |-> 0] ELSE sales[t]]

Charge(s) ==
    /\ sales[s] = [bill |-> "open", handed |-> 0]
    /\ sales' = [sales EXCEPT ![s] = [bill |-> "charged", handed |-> 0]]

HandOver(s) ==
    /\ sales[s].bill # "open"
    /\ sales[s].handed = 0
    /\ sales' = [sales EXCEPT ![s] = [bill |-> sales[s].bill, handed |-> 1]]

Next ==
    \/ \E s \in SaleIds, bill \in Bill : Open(s, bill)
    \/ \E s \in DOMAIN sales : Charge(s) \/ HandOver(s)

Spec == Init /\ [][Next]_sales
=============================================================================
