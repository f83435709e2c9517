----------------------------- MODULE Businesses -----------------------------
(***************************************************************************)
(* Businesses, which their holder registers up to a cap, and the quality   *)
(* assessments that suspend a business's beacons when enough of them fail. *)
(*                                                                         *)
(* A handler is a READ COMMITTED transaction: a Read that evaluates the    *)
(* guards and counts committed rows, and a Commit that writes.  An         *)
(* assessment belongs to a visit that has begun (Visits), which it never   *)
(* ceases to be.                                                           *)
(***************************************************************************)
EXTENDS Naturals, FiniteSets

CONSTANTS
    Holders,       \* users who may hold a business
    BusinessIds,   \* bound: ids the businesses sequence may hand out
    FailureIds,    \* bound: ids of failed rows of business_assessment_history
    Sessions,      \* request handlers running at the same time
    Cap,           \* the 5 active businesses of a holder
    FailLimit,     \* the third failure suspends
    Window,        \* the 12 months within which failures count, in days
    MaxDay         \* bound: the calendar stops here

ASSUME BusinessesAssumption ==
    /\ {Cap, FailLimit, Window} \subseteq Nat \ {0}
    /\ MaxDay \in Nat
    /\ IsFiniteSet(Sessions) /\ IsFiniteSet(BusinessIds) /\ IsFiniteSet(FailureIds)

VARIABLES
    today,
    standing,      \* what the guards read of users and identity_credentials
    businesses,    \* businesses with their location: id -> row
    failures,      \* failed assessments in the history: id -> row
    req            \* what each running handler holds

Days == 0 .. MaxDay

\* "attested" and not banned; "uncooled" when moreover the latest credential is
\* still cooling; "none" otherwise.
Standing == {"attested", "uncooled", "none"}

\* suspended is beacon_suspended.  Nothing deactivates, deletes or reinstates one.
Business == [holder: Holders, suspended: {"no", "yes"}]

\* Passed assessments are rows nothing reads.
Failure == [business: BusinessIds, day: Days]

Idle == [op |-> "idle"]
BusinessRequest ==
    {Idle}
    \cup [op: {"register"}, holder: Holders]
    \cup [op: {"fail"}, business: BusinessIds, prior: Nat]

Start(s, r) == req[s] = Idle /\ req' = [req EXCEPT ![s] = r]
End(s) == req' = [req EXCEPT ![s] = Idle]

InitB ==
    /\ today = 0
    /\ standing = [u \in Holders |-> "none"]
    /\ businesses = [b \in {} |-> Idle]
    /\ failures = [f \in {} |-> Idle]
    /\ req = [s \in Sessions |-> Idle]

-----------------------------------------------------------------------------
(* create_business                                                         *)

\* count_active_businesses counts these.
HeldBy(u) == {b \in DOMAIN businesses : businesses[b].holder = u}

\* Slip: the holder of as many as the cap may have one more.
UpToCap(u) == Cardinality(HeldBy(u)) <= Cap

BelowCap(u) == Cardinality(HeldBy(u)) < Cap

RegisterRead(s, u) ==
    /\ standing[u] = "attested"
    /\ BelowCap(u)
    /\ Start(s, [op |-> "register", holder |-> u])
    /\ UNCHANGED <<today, standing, businesses, failures>>

NewBusiness(u) == [holder |-> u, suspended |-> "no"]

RegisterCommit(s, b) ==
    /\ req[s].op = "register"
    /\ b \in BusinessIds \ DOMAIN businesses
    /\ businesses' = [c \in DOMAIN businesses \cup {b} |->
                         IF c = b THEN NewBusiness(req[s].holder) ELSE businesses[c]]
    /\ End(s)
    /\ UNCHANGED <<today, standing, failures>>

-----------------------------------------------------------------------------
(* submit_quality_assessment, failed                                       *)

FailuresOf(b) == {f \in DOMAIN failures : failures[f].business = b}

\* Slip: failures count for ever.
AnyFailures(b) == FailuresOf(b)

\* assessed_at > now() - interval '12 months'.
RecentFailures(b) == {f \in FailuresOf(b) : today < failures[f].day + Window}

FailRead(s, b) ==
    /\ b \in DOMAIN businesses
    /\ Start(s, [op |-> "fail", business |-> b,
                 prior |-> Cardinality(RecentFailures(b))])
    /\ UNCHANGED <<today, standing, businesses, failures>>

\* Slip: only the third failure suspends, not one after it.
ThirdExactly(b, prior) ==
    IF prior + 1 = FailLimit THEN [businesses EXCEPT ![b].suspended = "yes"]
    ELSE businesses

\* By the count that was read before the insert.
Suspended(b, prior) ==
    IF prior + 1 >= FailLimit THEN [businesses EXCEPT ![b].suspended = "yes"]
    ELSE businesses

FailCommit(s, f) ==
    /\ req[s].op = "fail"
    /\ f \in FailureIds \ DOMAIN failures
    /\ failures' = [g \in DOMAIN failures \cup {f} |->
                       IF g = f THEN [business |-> req[s].business, day |-> today]
                       ELSE failures[g]]
    /\ businesses' = Suspended(req[s].business, req[s].prior)
    /\ End(s)
    /\ UNCHANGED <<today, standing>>

-----------------------------------------------------------------------------
(* Around the handlers                                                     *)

\* A handler fails and rolls back, or its client is gone.
Drop(s) ==
    /\ req[s] # Idle
    /\ End(s)
    /\ UNCHANGED <<today, standing, businesses, failures>>

\* Attestation, revocation, ban and a new credential (Lifecycle, Screening).
StandingChanges(u) ==
    /\ \E x \in Standing \ {standing[u]} : standing' = [standing EXCEPT ![u] = x]
    /\ UNCHANGED <<today, businesses, failures, req>>

\* No handler runs over midnight.
NextDay ==
    /\ today < MaxDay
    /\ \A s \in Sessions : req[s] = Idle
    /\ today' = today + 1
    /\ UNCHANGED <<standing, businesses, failures, req>>

NextB ==
    \/ \E s \in Sessions :
          \/ \E u \in Holders : RegisterRead(s, u)
          \/ \E b \in BusinessIds : RegisterCommit(s, b) \/ FailRead(s, b)
          \/ \E f \in FailureIds : FailCommit(s, f)
          \/ Drop(s)
    \/ \E u \in Holders : StandingChanges(u)
    \/ NextDay

-----------------------------------------------------------------------------
BusinessRowsOK ==
    /\ today \in Days
    /\ standing \in [Holders -> Standing]
    /\ DOMAIN businesses \subseteq BusinessIds
    /\ businesses \in [DOMAIN businesses -> Business]
    /\ DOMAIN failures \subseteq FailureIds
    /\ failures \in [DOMAIN failures -> Failure]

\* The cap is counted before the insert: a holder exceeds it by no more than the
\* handlers that can have counted together.
CapOverrunByRacers ==
    \A u \in Holders : Cardinality(HeldBy(u)) <= Cap - 1 + Cardinality(Sessions)

\* A suspension has its cause: FailLimit failures within one window.
SuspendedForCause ==
    \A b \in DOMAIN businesses : businesses[b].suspended = "yes" =>
        \E d \in Days :
            Cardinality({f \in FailuresOf(b) : failures[f].day <= d
                                               /\ d < failures[f].day + Window}) >= FailLimit

\* "Suspend beacon on third failure": failures counted together by overlapping
\* handlers may all miss the third, but no more of them than handlers.
SuspendedAtLast ==
    \A b \in DOMAIN businesses :
        Cardinality(RecentFailures(b)) >= FailLimit - 1 + Cardinality(Sessions) =>
            businesses[b].suspended = "yes"

-----------------------------------------------------------------------------
(* The inductive invariant                                                 *)

\* The handlers that were let through and have not inserted yet.
Registering(u) == {s \in Sessions : req[s].op = "register" /\ req[s].holder = u}

\* The handlers whose count was too low to suspend.
Missing(b) ==
    {s \in Sessions : /\ req[s].op = "fail" /\ req[s].business = b
                      /\ req[s].prior + 1 < FailLimit}

CapCounted ==
    \A u \in Holders :
        Cardinality(HeldBy(u)) + Cardinality(Registering(u)) <= Cap - 1 + Cardinality(Sessions)

\* Failures are those of businesses that exist, and none is in the future.
FailuresRefer ==
    /\ \A f \in DOMAIN failures :
           failures[f].business \in DOMAIN businesses /\ failures[f].day <= today
    /\ \A s \in Sessions : req[s].op = "fail" => req[s].business \in DOMAIN businesses

\* While a handler runs, failures are added and none lapses.
PriorIsPast ==
    \A s \in Sessions, b \in DOMAIN businesses :
        req[s].op = "fail" /\ req[s].business = b =>
            req[s].prior <= Cardinality(RecentFailures(b))

MissedByRacers ==
    \A b \in DOMAIN businesses : businesses[b].suspended = "no" =>
        Cardinality(RecentFailures(b)) + Cardinality(Missing(b))
            <= FailLimit - 2 + Cardinality(Sessions)

IInvB == CapCounted /\ FailuresRefer /\ PriorIsPast /\ SuspendedForCause /\ MissedByRacers
=============================================================================
