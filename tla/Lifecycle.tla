------------------------------ MODULE Lifecycle ------------------------------
(***************************************************************************)
(* The verification lifecycle of a user: the status that identity          *)
(* verification, presence and attestation drive, the soultokens issued on  *)
(* it, renewed, revoked and surrendered, and bans and erasures of the      *)
(* account.                                                                *)
(*                                                                         *)
(* A handler that reads before it writes is two steps: a Read evaluates    *)
(* its guards on the committed rows and keeps in req[s] what the later     *)
(* statements use; a Commit makes all its writes visible.  Every commit    *)
(* writes the users row of its user, so it waits while a ban holds that    *)
(* row (Locked).                                                           *)
(***************************************************************************)
EXTENDS Naturals

CONSTANTS
    Users,
    TokenIds,   \* bound: ids the soultokens sequence may hand out
    NoToken,    \* users.soultoken_id IS NULL
    Sessions,   \* request handlers running at the same time
    Validity,   \* the 365 days of a soultoken, in ticks of the clock
    MaxNow,     \* bound: the clock stops here
    MaxOpen     \* bound: attestations of one user open at the same time

ASSUME NoTokenAssumption == NoToken \notin TokenIds
ASSUME NatAssumption == Validity \in Nat /\ MaxNow \in Nat /\ MaxOpen \in Nat

VARIABLES
    now,
    status,         \* users.verification_status
    pointer,        \* users.soultoken_id
    banned,         \* users with is_banned
    erased,         \* users with deleted_at
    credentialed,   \* users with an identity_credentials row
    present,        \* users whose one presence_thresholds row is met
    attesting,      \* how many attestations of the user are pending
    tokens,         \* soultokens: id -> row
    req             \* what each running handler holds

users == <<status, pointer, banned, erased>>
evidence == <<credentialed, present, attesting>>
vars == <<now, users, evidence, tokens, req>>

Status == {"registered", "identity_confirmed", "presence_confirmed", "attested"}

Dates == 0 .. MaxNow + Validity

\* sealed is the expires_at the signature was computed over.
Token == [holder: Users, until: Dates, sealed: Dates, state: {"live", "revoked"}]

Idle == [op |-> "idle"]

Request ==
    {Idle}
    \cup [op: {"issue"}, user: Users, until: Dates]
    \cup [op: {"renew"}, token: TokenIds, until: Dates]
    \cup [op: {"revoke"}, token: TokenIds]
    \cup [op: {"erase", "ban", "banRevoke"}, user: Users]

Start(s, r) == req[s] = Idle /\ req' = [req EXCEPT ![s] = r]
End(s) == req' = [req EXCEPT ![s] = Idle]

-----------------------------------------------------------------------------
(* Reads                                                                   *)

\* The RequireUser extractor.
Admitted(u) == u \notin banned /\ u \notin erased

\* revoked_at IS NULL AND expires_at > now().
Active(t) == tokens[t].state = "live" /\ tokens[t].until > now

ActiveTokens(u) == {t \in DOMAIN tokens : tokens[t].holder = u /\ Active(t)}

\* soultokens JOIN users ON u.soultoken_id = s.id.
HoldsActive(u) == pointer[u] # NoToken /\ Active(pointer[u])

\* A ban has updated the users row and not committed.
Locked(u) ==
    \E s \in Sessions : req[s].op \in {"ban", "banRevoke"} /\ req[s].user = u

-----------------------------------------------------------------------------
Init ==
    /\ now = 0
    /\ status = [u \in Users |-> "registered"]
    /\ pointer = [u \in Users |-> NoToken]
    /\ banned = {}
    /\ erased = {}
    /\ credentialed = {}
    /\ present = {}
    /\ attesting = [u \in Users |-> 0]
    /\ tokens = [t \in {} |-> Idle]
    /\ req = [s \in Sessions |-> Idle]

-----------------------------------------------------------------------------
(* The verification chain                                                  *)

\* initiate_verification.
IdentityConfirmed(u) ==
    /\ Admitted(u)
    /\ ~Locked(u)
    /\ status[u] = "registered"
    /\ status' = [status EXCEPT ![u] = "identity_confirmed"]
    /\ credentialed' = credentialed \cup {u}
    /\ UNCHANGED <<now, pointer, banned, erased, present, attesting, tokens, req>>

\* A beacon dwell or a tap for which advance_threshold finds the third event on
\* the third day, the threshold not being met before.  There is one threshold row
\* for a user (ON CONFLICT (user_id)), and nothing ever resets it.
PresenceMet(u) ==
    /\ Admitted(u)
    /\ ~Locked(u)
    /\ status[u] # "attested"
    /\ u \notin present
    /\ present' = present \cup {u}
    /\ status' = [status EXCEPT ![u] = "presence_confirmed"]
    /\ UNCHANGED <<now, pointer, banned, erased, credentialed, attesting, tokens, req>>

\* initiate_attestation: a pending row; another visit may have one for the user too.
AttestationInitiated(u) ==
    /\ u \notin erased
    /\ status[u] = "presence_confirmed"
    /\ u \in present
    /\ attesting[u] < MaxOpen
    /\ attesting' = [attesting EXCEPT ![u] = @ + 1]
    /\ UNCHANGED <<now, users, credentialed, present, tokens, req>>

\* The second reviewer_sign promotes and reject_attestation demotes the user,
\* whatever its status is by now.
AttestationDecided(u, outcome) ==
    /\ attesting[u] > 0
    /\ ~Locked(u)
    /\ attesting' = [attesting EXCEPT ![u] = @ - 1]
    /\ status' = [status EXCEPT ![u] = outcome]
    /\ UNCHANGED <<now, pointer, banned, erased, credentialed, present, tokens, req>>

Approved(u) == AttestationDecided(u, "attested")
Rejected(u) == AttestationDecided(u, "presence_confirmed")

-----------------------------------------------------------------------------
(* Soultokens                                                              *)

\* The status comes from the pool, the absence of an active token from the
\* transaction; without a credential the INSERT fails its CHECK.
IssueRead(s, u) ==
    /\ Admitted(u)
    /\ status[u] = "attested"
    /\ ActiveTokens(u) = {}
    /\ u \in credentialed
    /\ Start(s, [op |-> "issue", user |-> u, until |-> now + Validity])
    /\ UNCHANGED <<now, users, evidence, tokens>>

\* INSERT, signature over the stored dates, users.soultoken_id, COMMIT.
IssueCommit(s, t) ==
    /\ req[s].op = "issue"
    /\ t \in TokenIds \ DOMAIN tokens
    /\ ~Locked(req[s].user)
    /\ tokens' = [d \in DOMAIN tokens \cup {t} |->
                     IF d = t THEN [holder |-> req[s].user, until |-> req[s].until,
                                    sealed |-> req[s].until, state |-> "live"]
                     ELSE tokens[d]]
    /\ pointer' = [pointer EXCEPT ![req[s].user] = t]
    /\ End(s)
    /\ UNCHANGED <<now, status, banned, erased, evidence>>

\* Of several active tokens the code takes the one issued last; here, any.
RenewRead(s, u) ==
    /\ Admitted(u)
    /\ \E t \in ActiveTokens(u) :
          Start(s, [op |-> "renew", token |-> t, until |-> now + Validity])
    /\ UNCHANGED <<now, users, evidence, tokens>>

\* Slip: without the trigger on soultoken_renewals.
RenewUntriggered(s) ==
    /\ req[s].op = "renew"
    /\ tokens' = [tokens EXCEPT ![req[s].token].until = req[s].until,
                                ![req[s].token].sealed = req[s].until]
    /\ End(s)
    /\ UNCHANGED <<now, users, evidence>>

\* UPDATE, new signature, renewal record, COMMIT.
RenewCommit(s) ==
    /\ req[s].op = "renew"
    /\ tokens[req[s].token].state = "live"
    /\ tokens' = [tokens EXCEPT ![req[s].token].until = req[s].until,
                                ![req[s].token].sealed = req[s].until]
    /\ End(s)
    /\ UNCHANGED <<now, users, evidence>>

\* The trigger raises: revoked since it was read.
RenewRefused(s) ==
    /\ req[s].op = "renew"
    /\ tokens[req[s].token].state = "revoked"
    /\ End(s)
    /\ UNCHANGED <<now, users, evidence, tokens>>

\* revoke_soultoken by an admin or a reviewer: any token, expired ones included.
RevokeRead(s, t) ==
    /\ tokens[t].state = "live"
    /\ Start(s, [op |-> "revoke", token |-> t])
    /\ UNCHANGED <<now, users, evidence, tokens>>

\* surrender_soultoken by the holder, at a visit and before a witness.
SurrenderRead(s, t) ==
    /\ Admitted(tokens[t].holder)
    /\ tokens[t].state = "live"
    /\ Start(s, [op |-> "revoke", token |-> t])
    /\ UNCHANGED <<now, users, evidence, tokens>>

\* Slip: the users row keeps its soultoken_id.
RevokeKeepsPointer(s) ==
    /\ req[s].op = "revoke"
    /\ ~Locked(tokens[req[s].token].holder)
    /\ tokens' = [tokens EXCEPT ![req[s].token].state = "revoked"]
    /\ status' = [status EXCEPT ![tokens[req[s].token].holder] = "registered"]
    /\ End(s)
    /\ UNCHANGED <<now, pointer, banned, erased, evidence>>

\* The two UPDATEs by id; neither looks at what the row is by now.
RevokeCommit(s) ==
    /\ req[s].op = "revoke"
    /\ ~Locked(tokens[req[s].token].holder)
    /\ tokens' = [tokens EXCEPT ![req[s].token].state = "revoked"]
    /\ status' = [status EXCEPT ![tokens[req[s].token].holder] = "registered"]
    /\ pointer' = [pointer EXCEPT ![tokens[req[s].token].holder] = NoToken]
    /\ End(s)
    /\ UNCHANGED <<now, banned, erased, evidence>>

-----------------------------------------------------------------------------
(* Erasure and bans                                                        *)

EraseRead(s, u) ==
    /\ Admitted(u)
    /\ ~HoldsActive(u)
    /\ Start(s, [op |-> "erase", user |-> u])
    /\ UNCHANGED <<now, users, evidence, tokens>>

EraseCommit(s) ==
    /\ req[s].op = "erase"
    /\ ~Locked(req[s].user)
    /\ erased' = erased \cup {req[s].user}
    /\ pointer' = [pointer EXCEPT ![req[s].user] = NoToken]
    /\ End(s)
    /\ UNCHANGED <<now, status, banned, evidence, tokens>>

\* admin_ban_user up to the look for an active token; its UPDATE is not visible
\* before COMMIT and locks the row.
BanMark(s, u) ==
    /\ ~Locked(u)
    /\ Start(s, [op |-> IF HoldsActive(u) THEN "banRevoke" ELSE "ban", user |-> u])
    /\ UNCHANGED <<now, users, evidence, tokens>>

\* From "banRevoke" the code awaits revoke_soultoken in a second transaction, whose
\* UPDATE of the users row waits for the first one to end: no step but Drop and this
\* one, where the pool has no second connection and the revocation is skipped.
BanSkipsRevoke(s) ==
    /\ req[s].op = "banRevoke"
    /\ req' = [req EXCEPT ![s] = [op |-> "ban", user |-> req[s].user]]
    /\ UNCHANGED <<now, users, evidence, tokens>>

BanCommit(s) ==
    /\ req[s].op = "ban"
    /\ banned' = banned \cup {req[s].user}
    /\ End(s)
    /\ UNCHANGED <<now, status, pointer, erased, evidence, tokens>>

Unban(u) ==
    /\ ~Locked(u)
    /\ u \in banned
    /\ banned' = banned \ {u}
    /\ UNCHANGED <<now, status, pointer, erased, evidence, tokens, req>>

-----------------------------------------------------------------------------
\* The handler's future is dropped or a statement fails: the transaction rolls back.
Drop(s) ==
    /\ req[s] # Idle
    /\ End(s)
    /\ UNCHANGED <<now, users, evidence, tokens>>

Tick ==
    /\ now < MaxNow
    /\ now' = now + 1
    /\ UNCHANGED <<users, evidence, tokens, req>>

Chain(u) ==
    \/ IdentityConfirmed(u) \/ PresenceMet(u)
    \/ AttestationInitiated(u) \/ Approved(u) \/ Rejected(u)

Handler(s) ==
    \/ \E u \in Users : IssueRead(s, u) \/ RenewRead(s, u) \/ EraseRead(s, u) \/ BanMark(s, u)
    \/ \E t \in DOMAIN tokens : RevokeRead(s, t) \/ SurrenderRead(s, t)
    \/ \E t \in TokenIds : IssueCommit(s, t)
    \/ RenewCommit(s) \/ RenewRefused(s)
    \/ RevokeCommit(s)
    \/ EraseCommit(s)
    \/ BanSkipsRevoke(s) \/ BanCommit(s)
    \/ Drop(s)

Next ==
    \/ \E u \in Users : Chain(u) \/ Unban(u)
    \/ \E s \in Sessions : Handler(s)
    \/ Tick

Spec == Init /\ [][Next]_vars

-----------------------------------------------------------------------------
(* Properties                                                              *)

TypeOK ==
    /\ now \in 0 .. MaxNow
    /\ status \in [Users -> Status]
    /\ pointer \in [Users -> TokenIds \cup {NoToken}]
    /\ banned \subseteq Users
    /\ erased \subseteq Users
    /\ credentialed \subseteq Users
    /\ present \subseteq Users
    /\ attesting \in [Users -> Nat]
    /\ DOMAIN tokens \subseteq TokenIds
    /\ tokens \in [DOMAIN tokens -> Token]
    /\ req \in [Sessions -> Request]
    /\ \A s \in Sessions : req[s].op \in {"renew", "revoke"} => req[s].token \in DOMAIN tokens

\* Whatever issues, revocations, surrenders, erasures and stale repetitions of them
\* race, users.soultoken_id is NULL or a token of that user which is not revoked.
PointerIsLive ==
    \A u \in Users : pointer[u] # NoToken =>
        /\ pointer[u] \in DOMAIN tokens
        /\ tokens[pointer[u]].holder = u
        /\ tokens[pointer[u]].state = "live"

\* While a ban waits in front of its revocation, the row it would revoke stays the
\* user's live token: nobody else can resolve the wait.
WaitingBanHoldsToken ==
    \A s \in Sessions : req[s].op = "banRevoke" => pointer[req[s].user] # NoToken

\* Two bans never hold the same row.
RowLockIsExclusive ==
    \A r, s \in Sessions :
        /\ req[r].op \in {"ban", "banRevoke"} /\ req[s].op \in {"ban", "banRevoke"}
        /\ req[r].user = req[s].user
        => r = s

\* The signature of every token verifies over the stored dates.
SignatureCoversExpiry == \A t \in DOMAIN tokens : tokens[t].sealed = tokens[t].until

IInv ==
    /\ TypeOK
    /\ PointerIsLive
    /\ WaitingBanHoldsToken
    /\ RowLockIsExclusive
    /\ SignatureCoversExpiry

Registry == INSTANCE Credential WITH
    CredentialIds <- TokenIds, Holders <- Users, Dates <- Dates, credentials <- tokens

\* The soultokens table is the registry a third party relies on: renewals race
\* revocations and each other, and still a revocation is final and no renewal
\* comes after it.
ImplementsCredential == Registry!Spec

=============================================================================
