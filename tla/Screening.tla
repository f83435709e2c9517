----------------------------- MODULE Screening -----------------------------
(***************************************************************************)
(* Identity credentials with their cooling period, and the background      *)
(* checks a cooled credential opens.  Both are fed from outside: Stripe    *)
(* and the check providers deliver webhooks late, twice or out of order.   *)
(*                                                                         *)
(* A request handler is a READ COMMITTED transaction: a Read that          *)
(* evaluates the guards on the committed rows and a Commit that writes.  A *)
(* webhook has no transaction; its one UPDATE is one step.                 *)
(*                                                                         *)
(* Rows are numbered in the order of created_at, which is now(): the start *)
(* of the inserting transaction.  "Latest" is the greatest number.         *)
(***************************************************************************)
EXTENDS Verification

CONSTANTS
    StripeSessions,
    Screenings,      \* "sanctions" and "identity_fraud"
    Criminal,        \* the third check_type
    Results,         \* the statuses a provider delivers that a model looks at
    CoolingDays,     \* the 7 days of cooling_ends_at
    RequiredOpens,   \* cooling_app_opens_required, 3 by default
    ValidDays,       \* the 365 days a result is valid
    MaxCredentials,  \* bound: identity_credentials rows
    MaxChecks        \* bound: background_checks rows

ASSUME ScreeningAssumption ==
    /\ {CoolingDays, RequiredOpens, ValidDays, MaxCredentials, MaxChecks} \subseteq Nat
    /\ RequiredOpens > 0
    /\ Criminal \notin Screenings
    /\ Results \subseteq {"pending", "passed", "failed", "review_required", "expired"}

VARIABLES
    credentials,  \* identity_credentials: number -> row
    opens,        \* cooling_period_events: credential -> the set of calendar_dates
    checks        \* background_checks: number -> row

screeningVars == <<today, status, credentials, opens, checks, req>>

\* users.verification_status and is_banned: "identity_confirmed" stands for the
\* statuses after it as well, which no guard here tells apart; "banned" for is_banned.
Standing == {"registered", "identity_confirmed", "banned"}

CheckType == Screenings \cup {Criminal}

\* done is cooling_completed_at IS NOT NULL.
Credential ==
    [user: Users, session: StripeSessions, ends: Nat,
     done: {"no", "yes"}]

\* until is expires_at; ever, a history, whether a pass was ever delivered.
Check ==
    [user: Users, credential: 1 .. MaxCredentials, type: CheckType,
     status: Results \cup {"pending"}, until: Nat, ever: {"no", "passed"}]

ScreeningRequest ==
    {Idle}
    \cup [op: {"verify"}, user: Users, session: StripeSessions, number: 1 .. MaxCredentials]
    \cup [op: {"open"}, credential: 1 .. MaxCredentials]
    \cup [op: {"check"}, user: Users, credential: 1 .. MaxCredentials,
          type: CheckType, number: 1 .. MaxChecks]

-----------------------------------------------------------------------------
(* Reads                                                                   *)

\* The number of a row whose transaction starts now.
NextNumber(n, op, rows) ==
    LET started == rows \cup {req[s].number : s \in {t \in Sessions : req[t].op = op}}
    IN  /\ \A m \in started : n > m
        /\ n - 1 \in started \cup {0}

CredentialsOf(u) == {c \in DOMAIN credentials : credentials[c].user = u}

\* get_latest_credential_by_user.
LatestCredential(u, c) ==
    c \in CredentialsOf(u) /\ \A d \in CredentialsOf(u) : d <= c

\* get_identity_credential_by_session.
BySession(session) == {c \in DOMAIN credentials : credentials[c].session = session}

ChecksOf(u, type) ==
    {k \in DOMAIN checks : checks[k].user = u /\ checks[k].type = type}

\* get_latest_check_by_type.
LatestCheck(u, type, k) ==
    k \in ChecksOf(u, type) /\ \A j \in ChecksOf(u, type) : j <= k

Pending(u, type) == {k \in ChecksOf(u, type) : checks[k].status = "pending"}

\* is_valid_pass.
ValidPass(k) == checks[k].status = "passed" /\ checks[k].until > today

PassedNow(u, type) == \E k \in DOMAIN checks : LatestCheck(u, type, k) /\ ValidPass(k)

\* Slip: one of the two screenings is enough.
ClearedByEither(u) == \E type \in Screenings : PassedNow(u, type)

\* What a criminal check needs.
Cleared(u) == \A type \in Screenings : PassedNow(u, type)

-----------------------------------------------------------------------------
InitS ==
    /\ today = 1
    /\ status = [u \in Users |-> "registered"]
    /\ credentials = [c \in {} |-> Idle]
    /\ opens = [c \in {} |-> {}]
    /\ checks = [k \in {} |-> Idle]
    /\ req = [s \in Sessions |-> Idle]

-----------------------------------------------------------------------------
(* Identity verification and cooling                                       *)

VerifyRead(s, u, session, n) ==
    /\ status[u] = "registered"
    /\ BySession(session) \cap CredentialsOf(u) = {}
    /\ NextNumber(n, "verify", DOMAIN credentials)
    /\ Start(s, [op |-> "verify", user |-> u, session |-> session, number |-> n])
    /\ UNCHANGED <<today, status, credentials, opens, checks>>

NewCredential(u, session) ==
    [user |-> u, session |-> session, ends |-> today + CoolingDays,
     done |-> "no"]

\* The row is inserted whatever was recorded since the read; the users row only
\* leaves 'registered'.
VerifyCommit(s) ==
    LET r == req[s] IN
    /\ r.op = "verify"
    /\ credentials' = [c \in DOMAIN credentials \cup {r.number} |->
                          IF c = r.number THEN NewCredential(r.user, r.session)
                          ELSE credentials[c]]
    /\ opens' = [c \in DOMAIN opens \cup {r.number} |->
                    IF c = r.number THEN {} ELSE opens[c]]
    /\ status' = [status EXCEPT ![r.user] = IF @ = "registered" THEN "identity_confirmed" ELSE @]
    /\ End(s)
    /\ UNCHANGED <<today, checks>>

\* record_app_open by the credential's owner; a completed one only reports.
OpenRead(s, c) ==
    /\ c \in DOMAIN credentials
    /\ status[credentials[c].user] # "banned"
    /\ credentials[c].done = "no"
    /\ Start(s, [op |-> "open", credential |-> c])
    /\ UNCHANGED <<today, status, credentials, opens, checks>>

\* insert_cooling_event: ON CONFLICT (user_id, credential_id, calendar_date) DO NOTHING.
Opened(c) == opens[c] \cup {today}

\* Slip: one of the two conditions completes the period.
EitherCompletes(c) ==
    today >= credentials[c].ends \/ Cardinality(Opened(c)) >= RequiredOpens

\* cooling_window_elapsed && enough_days.
Completes(c) ==
    today >= credentials[c].ends /\ Cardinality(Opened(c)) >= RequiredOpens

OpenCommit(s) ==
    LET c == req[s].credential IN
    /\ req[s].op = "open"
    /\ opens' = [opens EXCEPT ![c] = Opened(c)]
    /\ credentials' = [credentials EXCEPT ![c].done = IF Completes(c) THEN "yes" ELSE @]
    /\ End(s)
    /\ UNCHANGED <<today, status, checks>>

-----------------------------------------------------------------------------
(* Background checks                                                       *)

\* The credential a check needs: the latest, and cooled.
Cooled(u, c) == LatestCredential(u, c) /\ credentials[c].done = "yes"

CheckRead(s, u, c, type, n) ==
    /\ status[u] \notin {"registered", "banned"}
    /\ Cooled(u, c)
    /\ type = Criminal => Cleared(u)
    /\ Pending(u, type) = {}
    /\ NextNumber(n, "check", DOMAIN checks)
    /\ Start(s, [op |-> "check", user |-> u, credential |-> c, type |-> type, number |-> n])
    /\ UNCHANGED <<today, status, credentials, opens, checks>>

NewCheck(r) ==
    [user |-> r.user, credential |-> r.credential, type |-> r.type,
     status |-> "pending", until |-> 0, ever |-> "no"]

\* Slip: the partial unique index of migration 010 is missing.
NoUniqueIndex(u, type, k) == TRUE

\* background_checks_one_pending_per_user_type lets row k be pending.
UniqueIndex(u, type, k) == Pending(u, type) \subseteq {k}

\* An INSERT the index refuses is the loser's, which rolls back (DropS).

CheckCommit(s) ==
    LET r == req[s] IN
    /\ r.op = "check"
    /\ UniqueIndex(r.user, r.type, r.number)
    /\ checks' = [k \in DOMAIN checks \cup {r.number} |->
                     IF k = r.number THEN NewCheck(r) ELSE checks[k]]
    /\ End(s)
    /\ UNCHANGED <<today, status, credentials, opens>>

\* update_check_result: the last delivery wins, and starts a new year.
Decided(k, r) ==
    [checks EXCEPT ![k].status = r, ![k].until = today + ValidDays,
                   ![k].ever = IF r = "passed" THEN r ELSE @]

\* handle_webhook of a check its provider knows under an external_check_id: any
\* status the column takes, at any time, as often as the provider sends it.  The
\* payload's status is written before the match that ignores unknown ones, "pending"
\* too: only the index refuses it, when another check is pending.
CheckWebhook(k, r) ==
    /\ k \in DOMAIN checks
    /\ r = "pending" => UniqueIndex(checks[k].user, checks[k].type, k)
    /\ checks' = Decided(k, r)
    /\ UNCHANGED <<today, status, credentials, opens, req>>

-----------------------------------------------------------------------------
\* A handler fails and rolls back, or its client is gone.
DropS(s) ==
    /\ req[s] # Idle
    /\ End(s)
    /\ UNCHANGED <<today, status, credentials, opens, checks>>

NextDayS ==
    /\ today < MaxDay
    /\ today' = today + 1
    /\ UNCHANGED <<status, credentials, opens, checks, req>>

\* The rest of the platform: presence confirms the user, a revoked soultoken sends the
\* user back to 'registered', an administrator bans, or lifts a ban.  What is_banned
\* hid of a banned user's verification_status may be either.
StatusMovesS(u, st) ==
    /\ status[u] # "registered" \/ st = "banned"
    /\ status' = [status EXCEPT ![u] = st]
    /\ UNCHANGED <<today, credentials, opens, checks, req>>

HandlerS(s) ==
    \/ \E u \in Users, session \in StripeSessions, n \in 1 .. MaxCredentials :
          VerifyRead(s, u, session, n)
    \/ VerifyCommit(s)
    \/ \E c \in 1 .. MaxCredentials : OpenRead(s, c)
    \/ OpenCommit(s)
    \/ \E u \in Users, c \in 1 .. MaxCredentials, type \in CheckType, n \in 1 .. MaxChecks :
          CheckRead(s, u, c, type, n)
    \/ CheckCommit(s)
    \/ DropS(s)

Webhook ==
    \/ \E k \in 1 .. MaxChecks, r \in Results : CheckWebhook(k, r)

NextS ==
    \/ \E s \in Sessions : HandlerS(s)
    \/ Webhook
    \/ NextDayS
    \/ \E u \in Users, st \in Standing : StatusMovesS(u, st)

SpecS == InitS /\ [][NextS]_screeningVars

-----------------------------------------------------------------------------
(* Types and safety                                                        *)

\* The tables hold rows of their types, and a handler one of the requests.
TypeOKS ==
    /\ today \in Days
    /\ status \in [Users -> Standing]
    /\ DOMAIN credentials \subseteq 1 .. MaxCredentials
    /\ credentials \in [DOMAIN credentials -> Credential]
    /\ opens \in [DOMAIN credentials -> SUBSET Days]
    /\ DOMAIN checks \subseteq 1 .. MaxChecks
    /\ checks \in [DOMAIN checks -> Check]
    /\ req \in [Sessions -> ScreeningRequest]

\* A check belongs to a cooled credential of its own user, although the credential
\* was read before the check is inserted and users may get another credential.
CheckedAfterCooling ==
    \A k \in DOMAIN checks :
        LET c == checks[k].credential IN
        /\ c \in DOMAIN credentials
        /\ credentials[c].user = checks[k].user
        /\ credentials[c].done = "yes"

\* Initiations that all saw no pending check leave one, and no webhook that writes
\* "pending" over a result, after a newer check was opened, makes it two.
OnePendingPerType ==
    \A u \in Users, type \in CheckType : Cardinality(Pending(u, type)) <= 1

\* What background_checks holds, whatever raced: at most one pending check of a type,
\* each for a credential that had cooled.
ChecksAreSound == TypeOKS /\ CheckedAfterCooling /\ OnePendingPerType

\* A period is completed on enough distinct days and not before its end, however
\* many opens of a day overlap.
CoolingEarned ==
    \A c \in DOMAIN credentials :
        credentials[c].done = "yes" =>
            /\ Cardinality(opens[c]) >= RequiredOpens
            /\ \E d \in opens[c] : d >= credentials[c].ends

\* A criminal check exists only for a user both screenings have once passed.
CriminalAfterClearance ==
    \A k \in DOMAIN checks : checks[k].type = Criminal =>
        \A type \in Screenings :
            \E j \in ChecksOf(checks[k].user, type) : checks[j].ever = "passed"

-----------------------------------------------------------------------------
(* The inductive invariant                                                 *)

Numbering == {"verify", "check"}

\* The numbers of rows not yet inserted are unused, and no two handlers have one.
NumbersFree ==
    /\ \A s \in Sessions :
           /\ req[s].op = "verify" => req[s].number \notin DOMAIN credentials
           /\ req[s].op = "check" => req[s].number \notin DOMAIN checks
    /\ \A s, t \in Sessions :
           s # t /\ req[s].op \in Numbering /\ req[s].op = req[t].op
               => req[s].number # req[t].number

\* A cooled credential of user u.
CooledOf(u, c) ==
    c \in DOMAIN credentials /\ credentials[c].user = u /\ credentials[c].done = "yes"

\* Both screenings of user u have once passed.
OnceCleared(u) ==
    \A type \in Screenings : \E j \in ChecksOf(u, type) : checks[j].ever = "passed"

\* What a handler has read of credentials and screenings is still so, or still was.
ReadsHold ==
    \A s \in Sessions :
        /\ req[s].op = "open" => req[s].credential \in DOMAIN credentials
        /\ req[s].op = "check" => CooledOf(req[s].user, req[s].credential)
        /\ req[s].op = "check" /\ req[s].type = Criminal => OnceCleared(req[s].user)

\* The unique index, element by element.
PendingUnique ==
    \A u \in Users, type \in CheckType : \A j, k \in Pending(u, type) : j = k

\* A check that passes now has passed.
PassesRemembered ==
    \A k \in DOMAIN checks : checks[k].status = "passed" => checks[k].ever = "passed"

\* The days of opens can be counted.
OpensFinite == \A c \in DOMAIN credentials : IsFiniteSet(opens[c])

ScreeningInv ==
    /\ TypeOKS /\ CheckedAfterCooling /\ CoolingEarned /\ CriminalAfterClearance
    /\ NumbersFree /\ ReadsHold /\ PendingUnique /\ PassesRemembered /\ OpensFinite
=============================================================================
