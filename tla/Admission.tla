------------------------------ MODULE Admission ------------------------------
(***************************************************************************)
(* What a signed request of the app goes through before its handler: the   *)
(* date and the nonce of its signature, and the limit on what one user may *)
(* ask for within a window, which the settings hold.                       *)
(*                                                                         *)
(* A request may arrive in several copies, each a handler of Server: the   *)
(* network or the app retries it.                                          *)
(***************************************************************************)
EXTENDS Settings, Server

CONSTANTS
    Requests,     \* requests the app signs, each with its nonce
    Date,         \* request -> the time the app says it is
    Skew,         \* the 300 seconds of MAX_SKEW_SECS
    Window,       \* the hour, or day, of a limit
    SafeDefault,  \* the limit when the settings cannot be read
    MaxHandled    \* bound: how often a request goes on to its handler

ASSUME AdmissionAssumption ==
    /\ Skew \in Nat /\ MaxHandled \in Nat /\ Window \in Nat \ {0} /\ SafeDefault \in Int
    /\ Date \in [Requests -> Int]

VARIABLES
    nonces,   \* the nonces, in Redis or else in the process: when each is forgotten
    count,    \* Redis: the user's counter of this window
    \* Histories, read by the properties alone:
    handled,  \* when each request went on to its handler, and had arrived
    granted,  \* requests the counter let through in this window
    ceiling   \* the highest limit a request of this window may have been told

vars == <<settings, now, redis, nonces, count, req, handled, granted, ceiling>>

Request ==
    {Idle}
    \cup [op: {"dated"}, request: Requests, came: Times]
    \cup [op: {"fresh"}, request: Requests]
    \cup [op: {"limited"}, limit: Int]

\* What handled records of a request: when it came, when it went on, and whether the
\* process that kept its nonce has ended since, before the request was handled again.
Handling == [came: Times, at: Times, gone: {"no", "yes"}]

Handled(s) == [came |-> req[s].came, at |-> now, gone |-> "no"]

Continue(s, r) == req' = [req EXCEPT ![s] = r]

Init ==
    /\ SettingsInit
    /\ now = 0
    /\ redis \in {"absent", "up"}
    /\ nonces = [r \in Requests |-> NoKey]
    /\ count = 0
    /\ req = [s \in Sessions |-> Idle]
    /\ handled = [r \in Requests |-> <<>>]
    /\ granted = 0 /\ ceiling = Default

Higher(a, b) == IF a < b THEN b ELSE a

-----------------------------------------------------------------------------
(* The signature: hmac::validate                                           *)

InDate(r) == now - Date[r] <= Skew /\ Date[r] - now <= Skew

\* The date is looked at before the body is read.
Arrive(s, r) ==
    /\ value # Unset
    /\ InDate(r)
    /\ Start(s, [op |-> "dated", request |-> r, came |-> now])
    /\ UNCHANGED <<settings, now, redis, nonces, count, handled, granted, ceiling>>

\* Slip: the nonce is forgotten a second early.
ShortExpiry == now + Skew - 1

NonceExpiry == now + Skew

\* check_and_reserve_nonce: SET NX EX, or the cache of the process.  A copy that comes
\* second, or while Redis cannot be asked or the cache is full, is refused.
Reserve(s) ==
    LET r == req[s].request IN
    /\ req[s].op = "dated"
    /\ \/ /\ redis # "down" /\ nonces[r] = NoKey
          /\ Len(handled[r]) < MaxHandled
          /\ nonces' = [nonces EXCEPT ![r] = NonceExpiry]
          /\ handled' = [handled EXCEPT ![r] = Append(@, Handled(s))]
          /\ Continue(s, [op |-> "fresh", request |-> r])
       \/ /\ End(s)
          /\ UNCHANGED <<nonces, handled>>
    /\ UNCHANGED <<settings, now, redis, count, granted, ceiling>>

-----------------------------------------------------------------------------
(* The limit: UserRateLimiter::check                                       *)

\* get_configuration, or the default if it fails.
Limits == {value, SafeDefault}

\* The limit is read first.  Without Redis there is none.
ReadLimit(s) ==
    /\ req[s].op = "fresh"
    /\ IF redis = "absent"
       THEN End(s) /\ UNCHANGED ceiling
       ELSE \E limit \in Limits :
               /\ Continue(s, [op |-> "limited", limit |-> limit])
               /\ ceiling' = Higher(ceiling, limit)
    /\ UNCHANGED <<settings, now, redis, nonces, count, handled, granted>>

\* Slip: the limit is exceeded by one.
WithinLax(n, limit) == n <= limit + 1

Within(n, limit) == n <= limit

\* INCR names the window it falls in, whenever the limit was read.  A request that
\* Redis fails is let through uncounted.
Hit(s) ==
    /\ req[s].op = "limited"
    /\ \/ /\ redis = "up"
          /\ count' = count + 1
          /\ granted' = IF Within(count', req[s].limit) THEN granted + 1 ELSE granted
       \/ UNCHANGED <<count, granted>>
    /\ End(s)
    /\ UNCHANGED <<settings, now, redis, nonces, handled, ceiling>>

-----------------------------------------------------------------------------
(* Around the handlers                                                     *)

\* The client is gone.
Drop(s) ==
    /\ req[s] # Idle
    /\ End(s)
    /\ UNCHANGED <<settings, now, redis, nonces, count, handled, granted, ceiling>>

\* The history of a request, when the process that kept its nonce ends.
Outlived(h) ==
    [i \in 1 .. Len(h) |->
        [came |-> h[i].came, at |-> h[i].at, gone |-> IF i = Len(h) THEN "yes" ELSE h[i].gone]]

\* The server starts again: copies in it are lost and, without Redis, so are the nonces.
Restart ==
    /\ Seed
    /\ req' = [s \in Sessions |-> Idle]
    /\ IF redis = "absent"
       THEN /\ nonces' = [r \in Requests |-> NoKey]
            /\ handled' = [r \in Requests |-> Outlived(handled[r])]
       ELSE UNCHANGED <<nonces, handled>>
    /\ UNCHANGED <<now, redis, count, granted, ceiling>>

\* Redis keeps its keys.
Outage ==
    /\ RedisTurns
    /\ UNCHANGED <<settings, now, nonces, count, req, handled, granted, ceiling>>

\* The limits that requests of the new window may have been told.
Told == {value} \cup {req[s].limit : s \in {t \in Sessions : req[t].op = "limited"}}

\* Keys go when they expire; the counter of a new window is a new key.
Tick ==
    /\ now < MaxNow
    /\ now' = now + 1
    /\ nonces' = [r \in Requests |-> IF nonces[r] # NoKey /\ nonces[r] <= now + 1
                                     THEN NoKey ELSE nonces[r]]
    /\ IF (now + 1) % Window = 0 /\ value # Unset
       THEN /\ count' = 0 /\ granted' = 0
            /\ \E c \in Told : (\A d \in Told : d <= c) /\ ceiling' = c
       ELSE UNCHANGED <<count, granted, ceiling>>
    /\ UNCHANGED <<settings, redis, req, handled>>

\* The settings change under the requests.
Edited(e) ==
    /\ EditCommit(e)
    /\ ceiling' = Higher(ceiling, value')
    /\ UNCHANGED <<now, redis, nonces, count, req, handled, granted>>

Editing(e) ==
    /\ (\E v \in Values : EditRead(e, v)) \/ EditDrop(e)
    /\ UNCHANGED <<now, redis, nonces, count, req, handled, granted, ceiling>>

Copy(s) ==
    \/ \E r \in Requests : Arrive(s, r)
    \/ Reserve(s) \/ ReadLimit(s) \/ Hit(s) \/ Drop(s)

Next ==
    \/ \E s \in Sessions : Copy(s)
    \/ \E e \in Editors : Edited(e) \/ Editing(e)
    \/ Restart \/ Outage \/ Tick

Spec == Init /\ [][Next]_vars

-----------------------------------------------------------------------------
(* Types and safety                                                        *)

\* Settings, stores and copies hold values of their types.
TypeOK ==
    /\ SettingsTypeOK
    /\ now \in Times
    /\ redis \in {"absent", "up", "down"}
    /\ nonces \in [Requests -> Nat \cup {NoKey}]
    /\ count \in Nat /\ granted \in Nat /\ ceiling \in Int
    /\ req \in [Sessions -> Request]
    /\ handled \in [Requests -> Seq(Handling)]

\* The i-th nonce of a request went with its process before the j-th was reserved.
Forgotten(r, i, j) ==
    redis = "absent" /\ \E k \in i .. (j - 1) : handled[r][k].gone = "yes"

\* A request goes on to its handler a second time only Skew after the first, once its
\* nonce has expired, and then it was dated no earlier than the first, or was held
\* between the check of its date and that of its nonce for at least the difference;
\* or, without Redis only, after a restart in between, which forgets every nonce.
\* Every copy that goes on was in date when it came.  Stores and copies are of their
\* types throughout.
HandledAgain ==
    /\ TypeOK
    /\ \A r \in Requests : \A j \in DOMAIN handled[r] :
           LET again == handled[r][j] IN
           /\ again.came - Date[r] <= Skew
           /\ \A i \in DOMAIN handled[r] : i < j =>
                 LET first == handled[r][i] IN
                 \/ /\ again.at >= first.at + Skew
                    /\ Date[r] >= first.at - (again.at - again.came)
                 \/ Forgotten(r, i, j)

\* Within a window the counter lets through no more requests than the highest limit
\* one of them can have been told, though they read it before they are counted and
\* admins change it in between.
LimitHolds == granted <= Higher(ceiling, 0)

-----------------------------------------------------------------------------
(* The inductive invariant                                                 *)

\* A nonce is kept until Skew has passed since its request was last handled, or its
\* process has ended since.
NoncesKept ==
    \A r \in Requests : \A i \in DOMAIN handled[r] :
        \/ handled[r][i].at + Skew <= now
        \/ Forgotten(r, i, Len(handled[r]) + 1)
        \/ nonces[r] # NoKey /\ handled[r][i].at + Skew <= nonces[r]

\* A copy past the check of its date was in date when it came.
DatedInTime ==
    \A s \in Sessions : req[s].op = "dated" => req[s].came - Date[req[s].request] <= Skew

\* The ceiling is over the value and over every limit that was told.
LimitsTold ==
    /\ granted <= count
    /\ value # Unset => value <= ceiling
    /\ value = Unset => ceiling = Default /\ \A s \in Sessions : req[s] = Idle
    /\ \A s \in Sessions : req[s].op = "limited" => req[s].limit <= ceiling

IInv ==
    /\ HandledAgain
    /\ LimitHolds
    /\ EditsFollow
    /\ NoncesKept
    /\ DatedInTime
    /\ LimitsTold
=============================================================================
