------------------------------ MODULE Beacons ------------------------------
(***************************************************************************)
(* The beacons of a business, their secret keys and the log of the daily   *)
(* UUIDs the keys derive.  Rotation keeps the key it replaces; the log     *)
(* keeps the first UUID of a day (ON CONFLICT DO NOTHING).                 *)
(*                                                                         *)
(* Writers of one beacon row, or of one day of the log, wait for each      *)
(* other's COMMIT, so each Commit acts on the rows committed before it.    *)
(***************************************************************************)
EXTENDS Businesses

CONSTANTS
    Admins,     \* users.is_platform_admin
    BeaconIds,  \* bound: ids the beacons sequence may hand out
    Keys,       \* bound: the random keys that get generated, never one twice
    NoKey       \* previous_secret_key IS NULL

ASSUME BeaconsAssumption == NoKey \notin Keys /\ Admins \cap Holders = {}

VARIABLES
    beacons,    \* beacons: id -> row
    log,        \* beacon_rotation_log: <<beacon, day>> -> the key of its uuid
    current     \* a history: <<beacon, day>> -> the keys current on that day

vars == <<today, standing, businesses, failures, beacons, log, current, req>>

Beacon == [business: BusinessIds, key: Keys, previous: Keys \cup {NoKey}]

BeaconRequest ==
    BusinessRequest
    \cup [op: {"install"}, business: BusinessIds]
    \cup [op: {"rotate", "uuid"}, beacon: BeaconIds, key: Keys]

Init ==
    /\ InitB
    /\ beacons = [n \in {} |-> Idle]
    /\ log = [x \in {} |-> NoKey]
    /\ current = [x \in {} |-> {}]

Used == {beacons[n].key : n \in DOMAIN beacons}
        \cup {beacons[n].previous : n \in DOMAIN beacons}
        \cup UNION {current[x] : x \in DOMAIN current}

\* record_rotation: the uuid of key k is today's, unless there is one.
Recorded(n, k) ==
    [x \in DOMAIN log \cup {<<n, today>>} |-> IF x \in DOMAIN log THEN log[x] ELSE k]

\* The keys of the beacons' rows are current today.
Witnessed(rows) ==
    [x \in DOMAIN current \cup {<<n, today>> : n \in DOMAIN rows} |->
        (IF x \in DOMAIN current THEN current[x] ELSE {})
        \cup {rows[n].key : n \in {m \in DOMAIN rows : x = <<m, today>>}}]

-----------------------------------------------------------------------------
(* create_beacon                                                           *)

\* Attested and the primary holder; a cooling credential is not looked at.
InstallRead(s, u, b) ==
    /\ standing[u] # "none"
    /\ b \in HeldBy(u)
    /\ Start(s, [op |-> "install", business |-> b])
    /\ UNCHANGED <<today, standing, businesses, failures, beacons, log, current>>

NewBeacon(b, k) == [business |-> b, key |-> k, previous |-> NoKey]

InstallCommit(s, n, k) ==
    /\ req[s].op = "install"
    /\ n \in BeaconIds \ DOMAIN beacons
    /\ k \in Keys \ Used
    /\ beacons' = [m \in DOMAIN beacons \cup {n} |->
                      IF m = n THEN NewBeacon(req[s].business, k) ELSE beacons[m]]
    /\ log' = Recorded(n, k)
    /\ current' = Witnessed(beacons')
    /\ End(s)
    /\ UNCHANGED <<today, standing, businesses, failures>>

-----------------------------------------------------------------------------
(* rotate_key and get_daily_uuid                                           *)

\* get_beacon_authorized.
MayManage(p, n) ==
    /\ n \in DOMAIN beacons
    /\ p \in Admins \/ beacons[n].business \in HeldBy(p)

RotateRead(s, p, n) ==
    /\ MayManage(p, n)
    /\ Start(s, [op |-> "rotate", beacon |-> n, key |-> beacons[n].key])
    /\ UNCHANGED <<today, standing, businesses, failures, beacons, log, current>>

\* rotate_secret_key: previous_secret_key = secret_key, of the row as it is by now.
Rotated(n, k) ==
    [beacons EXCEPT ![n] = [business |-> @.business, key |-> k, previous |-> @.key]]

RotateCommit(s, k) ==
    LET n == req[s].beacon IN
    /\ req[s].op = "rotate"
    /\ k \in Keys \ Used
    /\ beacons' = Rotated(n, k)
    /\ log' = Recorded(n, k)
    /\ current' = Witnessed(beacons')
    /\ End(s)
    /\ UNCHANGED <<today, standing, businesses, failures>>

\* Slip: within the grace period of a rotation the replaced key is taken.
GraceKey(n) == IF beacons[n].previous = NoKey THEN beacons[n].key ELSE beacons[n].previous

UuidKey(n) == beacons[n].key

UuidRead(s, p, n) ==
    /\ MayManage(p, n)
    /\ Start(s, [op |-> "uuid", beacon |-> n, key |-> UuidKey(n)])
    /\ UNCHANGED <<today, standing, businesses, failures, beacons, log, current>>

UuidCommit(s) ==
    /\ req[s].op = "uuid"
    /\ log' = Recorded(req[s].beacon, req[s].key)
    /\ End(s)
    /\ UNCHANGED <<today, standing, businesses, failures, beacons, current>>

-----------------------------------------------------------------------------
BeaconHandler(s) ==
    \/ \E u \in Holders, b \in BusinessIds : InstallRead(s, u, b)
    \/ \E n \in BeaconIds, k \in Keys : InstallCommit(s, n, k)
    \/ \E p \in Holders \cup Admins, n \in BeaconIds : RotateRead(s, p, n) \/ UuidRead(s, p, n)
    \/ \E k \in Keys : RotateCommit(s, k)
    \/ UuidCommit(s)

\* The history follows the calendar.
CurrentKept ==
    current' = IF today' = today THEN current
               ELSE [x \in DOMAIN current \cup {<<n, today'>> : n \in DOMAIN beacons} |->
                        IF x \in DOMAIN current THEN current[x] ELSE {beacons[x[1]].key}]

Next ==
    \/ NextB /\ CurrentKept /\ UNCHANGED <<beacons, log>>
    \/ \E s \in Sessions : BeaconHandler(s)

Spec == Init /\ [][Next]_vars

-----------------------------------------------------------------------------
(* Types and safety                                                        *)

\* The tables hold rows of their types, and a handler one of the requests.
TypeOK ==
    /\ BusinessRowsOK
    /\ req \in [Sessions -> BeaconRequest]
    /\ DOMAIN beacons \subseteq BeaconIds
    /\ beacons \in [DOMAIN beacons -> Beacon]
    /\ DOMAIN log \subseteq BeaconIds \X Days
    /\ log \in [DOMAIN log -> Keys]
    /\ current \in [DOMAIN current -> SUBSET Keys]

\* The uuid the log expects of a beacon on a day is that of a key the beacon had on
\* that day, although get_daily_uuid logs a key it read before a rotation; the tables
\* hold rows of their types throughout.
LoggedWasCurrent ==
    /\ TypeOK
    /\ \A x \in DOMAIN log : x \in DOMAIN current /\ log[x] \in current[x]

-----------------------------------------------------------------------------
(* The inductive invariant                                                 *)

\* The history has every key of today, the one a handler read among them.
KeysWitnessed ==
    /\ DOMAIN current \subseteq BeaconIds \X (0 .. today)
    /\ \A n \in DOMAIN beacons :
           <<n, today>> \in DOMAIN current /\ beacons[n].key \in current[<<n, today>>]
    /\ \A s \in Sessions : req[s].op \in {"rotate", "uuid"} => req[s].beacon \in DOMAIN beacons
    /\ \A s \in Sessions : req[s].op = "uuid" =>
           /\ <<req[s].beacon, today>> \in DOMAIN current
           /\ req[s].key \in current[<<req[s].beacon, today>>]

IInv == LoggedWasCurrent /\ KeysWitnessed /\ IInvB
=============================================================================
