------------------------------- MODULE Access -------------------------------
(***************************************************************************)
(* Signing in and out: magic links, Apple sign-in, and the tokens (JWTs) a *)
(* request is admitted with.                                               *)
(*                                                                         *)
(* Postgres holds the accounts and the links.  Redis, where it is          *)
(* configured, holds the tokens that logged out and the counters that      *)
(* space the links; it may be out of reach for a while, and a reply may be *)
(* lost.  A server instance keeps logged out tokens in a list of its own   *)
(* where Redis is not configured, or did not take them; the list dies with *)
(* the instance.                                                           *)
(***************************************************************************)
EXTENDS Server

CONSTANTS
    Users,         \* accounts that may come to exist, one per address
    Links,         \* bound: magic links that get sent
    Jtis,          \* bound: tokens that get signed
    Apple,         \* how a token was obtained, if not by a link
    Instances,     \* server processes
    Lifetime,      \* the 90 days of a token
    Leeway,        \* the 60 seconds by which jsonwebtoken lets a token outlive its exp
    LinkLifetime,  \* the 900 seconds of a link
    RateTtl,       \* the 120 seconds between links
    UsedGrace,     \* the hour after which a used link is pruned
    StaleGrace,    \* the 24 hours after which an expired link is pruned
    Never          \* the expiry of a key that has none, the use of an unused link

ASSUME AccessAssumption ==
    /\ {Lifetime, Leeway, LinkLifetime, RateTtl, UsedGrace, StaleGrace} \subseteq Nat
    /\ Apple \notin Links
    /\ Never \notin Nat /\ NoKey # Never
    /\ {"nowhere", "redis", "lost"} \cap Instances = {}

VARIABLES
    revoked,    \* Redis: fraise:revoked:<jti>
    rate,       \* Redis: fraise:rate:magic:<email>, when the key expires
    local,      \* instance -> its RevokedTokens
    accounts,   \* users that have a row
    banned,     \* users.is_banned
    links,      \* magic_link_tokens: link -> row
    jwts,       \* the tokens that were signed
    \* Histories, read by the properties alone:
    sent,       \* links that were minted
    passed,     \* when a request for a link of this user last passed the counter
    place       \* where the logout of a token is recorded, or was lost again

db == <<accounts, banned, links, jwts>>
store == <<redis, revoked, rate, local>>
history == <<sent, passed, place>>
accessVars == <<now, redis, revoked, rate, local, accounts, banned, links, jwts, req,
          sent, passed, place>>

\* The columns the code reads.  The Apple and the magic-link sign-in find the same row.
Link == [user: Users, expires: Nat, used: Times \cup {Never}]
Claims == [user: Users, exp: Nat, via: Links \cup {Apple}]

AccessRequest ==
    {Idle}
    \cup [op: {"expire", "find", "mint"}, user: Users]
    \cup [op: {"claimed", "sign"}, user: Users, via: Links \cup {Apple}]
    \cup [op: {"claims"}, on: Instances, jti: Jtis]

Goto(s, op) == req' = [req EXCEPT ![s].op = op]

InitA ==
    /\ now = 0
    /\ redis \in {"absent", "up"}
    /\ revoked = {}
    /\ rate = [u \in Users |-> NoKey]
    /\ local = [i \in Instances |-> {}]
    /\ accounts = {} /\ banned = {}
    /\ links = [l \in {} |-> Idle]
    /\ jwts = [j \in {} |-> Idle]
    /\ req = [s \in Sessions |-> Idle]
    /\ sent = {}
    /\ passed = [u \in Users |-> Never]
    /\ place = [j \in Jtis |-> "nowhere"]

-----------------------------------------------------------------------------
(* request_magic_link                                                      *)

\* Slip: requests go on whatever the counter says.
CountLax(s, u) ==
    /\ redis = "up"
    /\ rate' = [rate EXCEPT ![u] = Never]
    /\ passed' = [passed EXCEPT ![u] = now]
    /\ Start(s, [op |-> "expire", user |-> u])
    /\ UNCHANGED <<now, redis, revoked, local, db, sent, place>>

\* INCR makes the key, without expiry.  Only the first request within the key's life
\* goes on; the others end here, and answer Ok.
Count(s, u) ==
    /\ redis = "up" /\ rate[u] = NoKey
    /\ rate' = [rate EXCEPT ![u] = Never]
    /\ passed' = [passed EXCEPT ![u] = now]
    /\ Start(s, [op |-> "expire", user |-> u])
    /\ UNCHANGED <<now, redis, revoked, local, db, sent, place>>

\* Redis is absent or fails: the request goes on uncounted.  INCR may have been
\* carried out all the same.
Uncounted(s, u) ==
    /\ \/ redis # "up" /\ UNCHANGED rate
       \/ redis = "up" /\ rate' = [rate EXCEPT ![u] = IF @ = NoKey THEN Never ELSE @]
    /\ Start(s, [op |-> "find", user |-> u])
    /\ UNCHANGED <<now, redis, revoked, local, db, history>>

KeyTtl == now + RateTtl

\* EXPIRE, whose error is dropped.
SetExpiry(s) ==
    /\ req[s].op = "expire"
    /\ \/ redis = "up" /\ rate' = [rate EXCEPT ![req[s].user] = KeyTtl]
       \/ UNCHANGED rate
    /\ Goto(s, "find")
    /\ UNCHANGED <<now, redis, revoked, local, db, history>>

\* find_or_create_magic_link_user: the insert leaves a row that is there already alone.
WithAddress(u) == accounts \cup {u}

\* A banned user gets no link, and is not told.
FindOrCreate(s) ==
    LET u == req[s].user IN
    /\ req[s].op = "find"
    /\ accounts' = WithAddress(u)
    /\ IF u \in banned THEN End(s) ELSE Goto(s, "mint")
    /\ UNCHANGED <<now, store, banned, links, jwts, history>>

NewLink(u) == [user |-> u, expires |-> now + LinkLifetime, used |-> Never]

\* The link is e-mailed even if its row could not be written.
Mint(s, l) ==
    /\ req[s].op = "mint" /\ l \notin sent
    /\ sent' = sent \cup {l}
    /\ \/ links' = [k \in DOMAIN links \cup {l} |->
                       IF k = l THEN NewLink(req[s].user) ELSE links[k]]
       \/ UNCHANGED links
    /\ End(s)
    /\ UNCHANGED <<now, store, accounts, banned, jwts, passed, place>>

-----------------------------------------------------------------------------
(* verify_magic_link and authenticate_apple                                *)

\* Slip: a link may be used until it expires.
UnexpiredOnly(l) == now < links[l].expires

Claimable(l) == now < links[l].expires /\ links[l].used = Never

\* One UPDATE finds the link usable and makes it used.
Claim(s, l) ==
    /\ l \in DOMAIN links /\ Claimable(l)
    /\ links' = [links EXCEPT ![l].used = now]
    /\ Start(s, [op |-> "claimed", user |-> links[l].user, via |-> l])
    /\ UNCHANGED <<now, store, accounts, banned, jwts, history>>

\* find_by_id.
Active(u) == u \in accounts \ banned

\* Then set_verified; a link that a banned user claims is used up.
ReadUser(s) ==
    /\ req[s].op = "claimed"
    /\ IF Active(req[s].user) THEN Goto(s, "sign") ELSE End(s)
    /\ UNCHANGED <<now, store, db, history>>

\* find_or_create_apple: by its Apple ID, or by its address, which gets the Apple ID.
WithAppleId(u) == accounts \cup {u}

AppleSignIn(s, u) ==
    /\ accounts' = WithAppleId(u)
    /\ IF u \in banned
       THEN req[s] = Idle /\ UNCHANGED req
       ELSE Start(s, [op |-> "sign", user |-> u, via |-> Apple])
    /\ UNCHANGED <<now, store, banned, links, jwts, history>>

NewClaims(r) == [user |-> r.user, exp |-> now + Lifetime, via |-> r.via]

\* sign_token.
Sign(s, j) ==
    /\ req[s].op = "sign" /\ j \in Jtis \ DOMAIN jwts
    /\ jwts' = [k \in DOMAIN jwts \cup {j} |-> IF k = j THEN NewClaims(req[s]) ELSE jwts[k]]
    /\ End(s)
    /\ UNCHANGED <<now, store, accounts, banned, links, history>>

-----------------------------------------------------------------------------
(* RequireClaims, RequireUser and logout                                   *)

\* verify_token, by the library: with leeway.
Verifies(j) == j \in DOMAIN jwts /\ now <= jwts[j].exp + Leeway

\* is_revoked_local, which forgets the tokens that have expired.
InList(i, j) == j \in local[i] /\ jwts[j].exp > now

\* Slip: the list of the instance alone is asked.
ListOnly(i, j) == InList(i, j)

\* check_revoked.
Revoked(i, j) == IF redis = "up" THEN j \in revoked ELSE InList(i, j)

\* RequireClaims.
Admit(s, i, j) ==
    /\ Verifies(j)
    /\ ~ Revoked(i, j)
    /\ Start(s, [op |-> "claims", on |-> i, jti |-> j])
    /\ UNCHANGED <<now, store, db, history>>

\* RequireUser goes on to read the user, in a transaction of its own; the handler it
\* then admits or refuses is another component's.
BanRead(s) ==
    /\ req[s].op = "claims"
    /\ End(s)
    /\ UNCHANGED <<now, store, db, history>>

\* SET ... EX ttl.
InRedis(i, j) ==
    /\ redis = "up"
    /\ revoked' = revoked \cup {j}
    /\ place' = [place EXCEPT ![j] = "redis"]
    /\ UNCHANGED local

\* revoke_local: no Redis, or it fails.
InProcess(i, j) ==
    /\ local' = [local EXCEPT ![i] = @ \cup {j}]
    /\ place' = [place EXCEPT ![j] = IF @ = "redis" THEN @ ELSE i]
    /\ UNCHANGED revoked

\* logout and its revoke_token.  The row in jwt_revocations is read by nothing.
Revoke(s) ==
    LET i == req[s].on  j == req[s].jti IN
    /\ req[s].op = "claims"
    /\ IF jwts[j].exp <= now
       THEN UNCHANGED <<revoked, local, place>>
       ELSE InRedis(i, j) \/ InProcess(i, j)
    /\ End(s)
    /\ UNCHANGED <<now, redis, rate, db, sent, passed>>

-----------------------------------------------------------------------------
(* Around the handlers                                                     *)

\* The client is gone, or a statement fails.
DropA(s) ==
    /\ req[s] # Idle
    /\ End(s)
    /\ UNCHANGED <<now, store, db, history>>

\* The process dies with its list; what its other handlers held is gone as in DropA.
RestartA(i) ==
    /\ local' = [local EXCEPT ![i] = {}]
    /\ req' = [s \in Sessions |-> IF req[s].op = "claims" /\ req[s].on = i THEN Idle ELSE req[s]]
    /\ place' = [j \in Jtis |-> IF place[j] = i THEN "lost" ELSE place[j]]
    /\ UNCHANGED <<now, redis, revoked, rate, db, sent, passed>>

\* Redis keeps its keys through an outage, and their expiry.
OutageA ==
    /\ RedisTurns
    /\ UNCHANGED <<now, revoked, rate, local, db, req, history>>

\* Keys of Redis go when they expire.
TickA ==
    /\ now < MaxNow
    /\ now' = now + 1
    /\ revoked' = {j \in revoked : jwts[j].exp > now + 1}
    /\ rate' = [u \in Users |-> IF rate[u] \in Nat /\ rate[u] <= now + 1 THEN NoKey ELSE rate[u]]
    /\ UNCHANGED <<redis, local, db, req, history>>

\* admin_ban_user; what it does to soultokens is in Lifecycle.
Ban(u) ==
    /\ u \in accounts \ banned
    /\ banned' = banned \cup {u}
    /\ UNCHANGED <<now, store, accounts, links, jwts, req, history>>

\* admin_unban_user.
Unban(u) ==
    /\ u \in banned
    /\ banned' = banned \ {u}
    /\ UNCHANGED <<now, store, accounts, links, jwts, req, history>>

Prunable(l) ==
    \/ links[l].used # Never /\ now > links[l].used + UsedGrace
    \/ now > links[l].expires + StaleGrace

\* The daily task, at any time.
PruneLinks ==
    /\ \E l \in DOMAIN links : Prunable(l)
    /\ links' = [l \in {k \in DOMAIN links : ~ Prunable(k)} |-> links[l]]
    /\ UNCHANGED <<now, store, accounts, banned, jwts, req, history>>

HandlerA(s) ==
    \/ \E u \in Users : Count(s, u) \/ Uncounted(s, u) \/ AppleSignIn(s, u)
    \/ SetExpiry(s) \/ FindOrCreate(s) \/ \E l \in Links : Mint(s, l)
    \/ \E l \in Links : Claim(s, l)
    \/ ReadUser(s) \/ \E j \in Jtis : Sign(s, j)
    \/ \E i \in Instances, j \in Jtis : Admit(s, i, j)
    \/ BanRead(s) \/ Revoke(s) \/ DropA(s)

NextA ==
    \/ \E s \in Sessions : HandlerA(s)
    \/ \E i \in Instances : RestartA(i)
    \/ OutageA \/ TickA \/ PruneLinks
    \/ \E u \in Users : Ban(u) \/ Unban(u)

SpecA == InitA /\ [][NextA]_accessVars

-----------------------------------------------------------------------------
(* Types and safety                                                        *)

\* Tables, stores and handlers hold values of their types.
TypeOKA ==
    /\ now \in Times
    /\ redis \in {"absent", "up", "down"}
    /\ revoked \subseteq DOMAIN jwts
    /\ rate \in [Users -> Nat \cup {NoKey, Never}]
    /\ local \in [Instances -> SUBSET DOMAIN jwts]
    /\ banned \subseteq accounts /\ accounts \subseteq Users
    /\ DOMAIN links \subseteq sent /\ sent \subseteq Links
    /\ links \in [DOMAIN links -> Link]
    /\ DOMAIN jwts \subseteq Jtis
    /\ jwts \in [DOMAIN jwts -> Claims]
    /\ req \in [Sessions -> AccessRequest]
    /\ passed \in [Users -> Times \cup {Never}]
    /\ place \in [Jtis -> {"nowhere", "redis", "lost"} \cup Instances]

\* The handlers that may yet sign a token for link l.
Signing(l) == {s \in Sessions : req[s].op \in {"claimed", "sign"} /\ req[s].via = l}

\* One link signs its user in once, however many open it at once and whatever is
\* pruned: the tokens it obtained and the handlers about to sign another are one.  The
\* rows and requests are of their types throughout.
LinkSignsOnce ==
    /\ TypeOKA
    /\ \A l \in Links :
        /\ \A j, k \in DOMAIN jwts : jwts[j].via = l /\ jwts[k].via = l => j = k
        /\ \A s, t \in Signing(l) : s = t
        /\ Signing(l) # {} => \A j \in DOMAIN jwts : jwts[j].via # l

\* Requests that pass the counter of an address are at least RateTtl apart, though the
\* counter is made and given its expiry in two calls, either of which may fail.
LinksAreSpaced ==
    [][\A s \in Sessions :
          /\ req[s] = Idle /\ req'[s].op = "expire"
          /\ passed[req'[s].user] # Never
          => now >= passed[req'[s].user] + RateTtl]_req

\* A token that logged out and has not expired is admitted again only by an instance
\* that asks Redis while the logout never got there or, without Redis or during its
\* outage, by one whose process did not record the logout itself or has ended since.
LogoutHolds ==
    [][\A s \in Sessions :
          /\ req[s] = Idle /\ req'[s].op = "claims"
          /\ place[req'[s].jti] # "nowhere"
          => LET i == req'[s].on  j == req'[s].jti IN
             \/ now >= jwts[j].exp
             \/ redis = "up" /\ place[j] # "redis"
             \/ redis # "up" /\ place[j] # i]_req

-----------------------------------------------------------------------------
(* The inductive invariant                                                 *)

\* Nothing was signed, or is about to be, for a link that was not sent or not used.
FreshLinks ==
    \A l \in Links :
        l \notin sent \/ (l \in DOMAIN links /\ links[l].used = Never)
        => Signing(l) = {} /\ \A j \in DOMAIN jwts : jwts[j].via # l

\* The counter of an address lives until RateTtl has passed since a request passed it.
CountersKept ==
    \A u \in Users : passed[u] # Never =>
        /\ passed[u] <= now
        /\ \/ rate[u] = Never
           \/ rate[u] \in Nat /\ rate[u] >= passed[u] + RateTtl
           \/ rate[u] = NoKey /\ now >= passed[u] + RateTtl

\* Only tokens that were signed are held or logged out, and until such a token expires
\* its logout is still where it was recorded.
LogoutsKept ==
    /\ \A s \in Sessions : req[s].op = "claims" => req[s].jti \in DOMAIN jwts
    /\ \A j \in Jtis :
        /\ place[j] # "nowhere" => j \in DOMAIN jwts
        /\ place[j] = "redis" => j \in revoked \/ jwts[j].exp <= now
        /\ place[j] \in Instances => j \in local[place[j]]

AccessInv == LinkSignsOnce /\ FreshLinks /\ CountersKept /\ LogoutsKept
=============================================================================
