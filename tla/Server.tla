------------------------------- MODULE Server -------------------------------
(***************************************************************************)
(* What the models of the request middleware share: the clock, the state   *)
(* of Redis, and the request handlers, each with what it holds between two *)
(* statements.  Access and Admission extend it.                            *)
(***************************************************************************)
EXTENDS Integers

CONSTANTS
    Sessions,   \* request handlers running at the same time
    NoKey,      \* a Redis key that does not exist
    MaxNow      \* bound: the clock stops here

ASSUME ServerAssumption == MaxNow \in Nat /\ NoKey \notin Nat

VARIABLES
    now,
    redis,      \* not configured, within reach, or out of reach
    req         \* what each running handler holds

Times == 0 .. MaxNow

Idle == [op |-> "idle"]

Start(s, r) == req[s] = Idle /\ req' = [req EXCEPT ![s] = r]
End(s) == req' = [req EXCEPT ![s] = Idle]

\* Redis, where it is configured, goes out of reach and comes back.
RedisTurns ==
    /\ redis # "absent"
    /\ redis' = IF redis = "up" THEN "down" ELSE "up"
=============================================================================
