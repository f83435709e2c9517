------------------------------- MODULE Visits -------------------------------
(***************************************************************************)
(* Staff roles and the visits staff make: scheduled, arrived at,           *)
(* completed.                                                              *)
(*                                                                         *)
(* A request handler is a READ COMMITTED transaction: a Read that          *)
(* evaluates the guards on the committed rows and a Commit that writes by  *)
(* id.  Rows of staff_roles are numbered by granted_at, the start of their *)
(* transaction.                                                            *)
(***************************************************************************)
EXTENDS Naturals, FiniteSets

CONSTANTS
    Locations,
    Staff,      \* people who may be given the role delivery_staff
    Admins,     \* users.is_platform_admin
    Sessions,   \* request handlers running at the same time
    VisitIds,   \* bound: ids the staff_visits sequence may hand out
    MaxCapacity,\* bound: support_booking_capacity
    MaxRoles    \* bound: staff_roles rows

ASSUME VisitsAssumption ==
    /\ MaxCapacity \in Nat /\ MaxRoles \in Nat
    /\ Staff \cap Admins = {}

VARIABLES
    roles,      \* staff_roles with role = 'delivery_staff': number -> row
    visits,     \* staff_visits: id -> row
    req         \* what each running handler holds

visiting == <<roles, visits>>

\* active is revoked_at IS NULL and not past expires_at.
Role == [user: Staff, location: Locations, active: {"yes", "no"}]
VisitStatus == {"scheduled", "in_progress", "completed"}

\* cancel_visit has no caller.
Visit == [staff: Staff \cup Admins, location: Locations,
          status: VisitStatus, capacity: 0 .. MaxCapacity]

Idle == [op |-> "idle"]
VisitRequest ==
    {Idle}
    \cup [op: {"grant"}, user: Staff, location: Locations, number: 1 .. MaxRoles]
    \cup [op: {"arrive", "complete"}, visit: VisitIds]

Start(s, r) == req[s] = Idle /\ req' = [req EXCEPT ![s] = r]
End(s) == req' = [req EXCEPT ![s] = Idle]

InitV ==
    /\ roles = [n \in {} |-> Idle]
    /\ visits = [v \in {} |-> Idle]
    /\ req = [s \in Sessions |-> Idle]

-----------------------------------------------------------------------------
(* Roles                                                                   *)

ActiveRoles(u) == {n \in DOMAIN roles : roles[n].user = u /\ roles[n].active = "yes"}

\* get_active_role: ORDER BY granted_at DESC LIMIT 1.
LatestRole(u, n) == n \in ActiveRoles(u) /\ \A m \in ActiveRoles(u) : m <= n

\* Of a user with several roles only the latest is compared.
GrantRead(s, u, l, n) ==
    LET started == DOMAIN roles
                   \cup {req[t].number : t \in {t \in Sessions : req[t].op = "grant"}}
    IN  /\ \A m \in ActiveRoles(u) : LatestRole(u, m) => roles[m].location # l
        /\ n - 1 \in started \cup {0}
        /\ \A m \in started : n > m
        /\ Start(s, [op |-> "grant", user |-> u, location |-> l, number |-> n])
        /\ UNCHANGED visiting

NewRole(r) == [user |-> r.user, location |-> r.location, active |-> "yes"]

GrantCommit(s) ==
    /\ req[s].op = "grant"
    /\ roles' = [n \in DOMAIN roles \cup {req[s].number} |->
                    IF n = req[s].number THEN NewRole(req[s]) ELSE roles[n]]
    /\ End(s)
    /\ UNCHANGED visits

\* expires_at passes.  (revoke_role has no caller.)
RoleExpires(n) ==
    /\ n \in DOMAIN roles
    /\ roles[n].active = "yes"
    /\ roles' = [roles EXCEPT ![n].active = "no"]
    /\ UNCHANGED <<visits, req>>

-----------------------------------------------------------------------------
(* Visits                                                                  *)

\* An admin schedules anywhere, staff at the location of the latest role.
MaySchedule(p, l) ==
    \/ p \in Admins
    \/ \E n \in DOMAIN roles : LatestRole(p, n) /\ roles[n].location = l

NewVisit(p, l, capacity) ==
    [staff |-> p, location |-> l, status |-> "scheduled", capacity |-> capacity]

Schedule(p, l, v, capacity) ==
    /\ MaySchedule(p, l)
    /\ v \in VisitIds \ DOMAIN visits
    /\ visits' = [w \in DOMAIN visits \cup {v} |->
                     IF w = v THEN NewVisit(p, l, capacity) ELSE visits[w]]
    /\ UNCHANGED <<roles, req>>

\* By the visit's own staff.
ArriveRead(s, v) ==
    /\ v \in DOMAIN visits
    /\ visits[v].status = "scheduled"
    /\ Start(s, [op |-> "arrive", visit |-> v])
    /\ UNCHANGED visiting

\* update_visit_arrived: by id, whatever the status is by now.
Arrived(v) == [visits EXCEPT ![v].status = "in_progress"]

ArriveCommit(s) ==
    /\ req[s].op = "arrive"
    /\ visits' = Arrived(req[s].visit)
    /\ End(s)
    /\ UNCHANGED roles

\* By the visit's own staff or an admin.
CompleteRead(s, v) ==
    /\ v \in DOMAIN visits
    /\ visits[v].status = "in_progress"
    /\ Start(s, [op |-> "complete", visit |-> v])
    /\ UNCHANGED visiting

\* update_visit_completed.
Completed(v) == [visits EXCEPT ![v].status = "completed"]

CompleteCommit(s) ==
    /\ req[s].op = "complete"
    /\ visits' = Completed(req[s].visit)
    /\ End(s)
    /\ UNCHANGED roles

\* A handler fails and rolls back, or its client is gone.
Drop(s) == req[s] # Idle /\ End(s) /\ UNCHANGED visiting

VisitHandler(s) ==
    \/ \E u \in Staff, l \in Locations, n \in 1 .. MaxRoles : GrantRead(s, u, l, n)
    \/ GrantCommit(s)
    \/ \E v \in VisitIds : ArriveRead(s, v) \/ CompleteRead(s, v)
    \/ ArriveCommit(s)
    \/ CompleteCommit(s)
    \/ Drop(s)

NextV ==
    \/ \E s \in Sessions : VisitHandler(s)
    \/ \E n \in 1 .. MaxRoles : RoleExpires(n)
    \/ \E p \in Staff \cup Admins, l \in Locations, v \in VisitIds, c \in 0 .. MaxCapacity :
          Schedule(p, l, v, c)

VisitRowsOK ==
    /\ DOMAIN roles \subseteq 1 .. MaxRoles
    /\ roles \in [DOMAIN roles -> Role]
    /\ DOMAIN visits \subseteq VisitIds
    /\ visits \in [DOMAIN visits -> Visit]

=============================================================================
