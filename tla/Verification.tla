---------------------------- MODULE Verification ----------------------------
(***************************************************************************)
(* What the models of the verification pipeline share: the calendar, the   *)
(* users' status, and the request handlers, each with what it has read and *)
(* not yet committed.  Presence and Screening are its two halves.          *)
(***************************************************************************)
EXTENDS Naturals, FiniteSets

CONSTANTS
    Users,
    Sessions,       \* request handlers running at the same time
    MaxDay          \* bound: the calendar stops here

ASSUME VerificationAssumption ==
    IsFiniteSet(Sessions) /\ MaxDay \in Nat \ {0}

VARIABLES
    today,
    status,     \* what the guards of a half tell apart of the users row
    req         \* what each running handler holds

Days == 1 .. MaxDay

Idle == [op |-> "idle"]

Start(s, r) == req[s] = Idle /\ req' = [req EXCEPT ![s] = r]
End(s) == req' = [req EXCEPT ![s] = Idle]
=============================================================================
