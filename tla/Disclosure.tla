----------------------------- MODULE Disclosure -----------------------------
(***************************************************************************)
(* Attestation tokens: a user issues one, hands it to a third party, and   *)
(* the third party has it verified, once, while it has neither expired nor *)
(* been revoked.                                                           *)
(*                                                                         *)
(* Issuing and revoking are transactions.  verify_token has none: every    *)
(* statement of it commits on its own, and what the first one returned is  *)
(* never looked at again.                                                  *)
(***************************************************************************)
EXTENDS Naturals, FiniteSets

CONSTANTS
    Users,
    Businesses,  \* soultokens third parties name, or leave out
    Anonymous,   \* requesting_business_soultoken_id IS NULL
    TokenIds,    \* bound: tokens that get issued
    AttemptIds,  \* bound: rows of third_party_verification_attempts
    Sessions,    \* request handlers running at the same time
    Lifetime,    \* the 15 minutes of a token
    Minute,      \* the minute within which attempts are counted
    Limit,       \* the 10 attempts of a business per minute
    MaxNow       \* bound: the clock stops here

ASSUME DisclosureAssumption ==
    /\ Anonymous \notin Businesses
    /\ {Lifetime, Minute, Limit, MaxNow} \subseteq Nat
    /\ IsFiniteSet(Sessions) /\ IsFiniteSet(AttemptIds)

VARIABLES
    now,
    holders,     \* users with an active soultoken who are not banned
    revokedST,   \* soultokens of businesses that are revoked
    tokens,      \* attestation_tokens: id -> row
    attempts,    \* third_party_verification_attempts: id -> row
    marks,       \* a history: how often a token was marked verified
    req          \* what each running handler holds

vars == <<now, holders, revokedST, tokens, attempts, marks, req>>

Times == 0 .. MaxNow
Flag == {"no", "yes"}
Outcome == {"success", "refused"}
Verifier == Businesses \cup {Anonymous}

Token == [user: Users, expires: Nat, verified: Flag, revoked: Flag]

\* Attempts that name no business are rows nothing reads.
Attempt == [verifier: Businesses, outcome: Outcome, at: Times]

Idle == [op |-> "idle"]

\* A verification has found a valid token, been counted, or has only its attempt
\* left to record.
Request ==
    {Idle}
    \cup [op: {"issue"}, user: Users]
    \cup [op: {"revoke"}, token: TokenIds]
    \cup [op: {"found", "counted"}, token: TokenIds, verifier: Verifier]
    \cup [op: {"record"}, verifier: Verifier, outcome: Outcome]

Start(s, r) == req[s] = Idle /\ req' = [req EXCEPT ![s] = r]
Continue(s, r) == req' = [req EXCEPT ![s] = r]
End(s) == req' = [req EXCEPT ![s] = Idle]

Init ==
    /\ now = 0
    /\ holders = Users
    /\ revokedST = {}
    /\ tokens = [t \in {} |-> Idle]
    /\ attempts = [a \in {} |-> Idle]
    /\ marks = [t \in TokenIds |-> 0]
    /\ req = [s \in Sessions |-> Idle]

-----------------------------------------------------------------------------
(* issue_token and revoke_my_token                                         *)

\* The business of the request, if it names one, is not revoked.
IssueRead(s, u, v) ==
    /\ u \in holders
    /\ v \notin revokedST
    /\ Start(s, [op |-> "issue", user |-> u])
    /\ UNCHANGED <<now, holders, revokedST, tokens, attempts, marks>>

\* The expiry counts from here, the end of the handler.
NewToken(u) == [user |-> u, expires |-> now + Lifetime, verified |-> "no", revoked |-> "no"]

IssueCommit(s, t) ==
    /\ req[s].op = "issue"
    /\ t \in TokenIds \ DOMAIN tokens
    /\ tokens' = [x \in DOMAIN tokens \cup {t} |->
                     IF x = t THEN NewToken(req[s].user) ELSE tokens[x]]
    /\ End(s)
    /\ UNCHANGED <<now, holders, revokedST, attempts, marks>>

\* By its user, whatever the token's state.
RevokeRead(s, t) ==
    /\ t \in DOMAIN tokens
    /\ Start(s, [op |-> "revoke", token |-> t])
    /\ UNCHANGED <<now, holders, revokedST, tokens, attempts, marks>>

RevokedToken(t) == [tokens EXCEPT ![t].revoked = "yes"]

RevokeCommit(s) ==
    /\ req[s].op = "revoke"
    /\ tokens' = RevokedToken(req[s].token)
    /\ End(s)
    /\ UNCHANGED <<now, holders, revokedST, attempts, marks>>

-----------------------------------------------------------------------------
(* verify_token                                                            *)

\* Slip: a used token is valid.
UnrevokedOnly(t) == now <= tokens[t].expires /\ tokens[t].revoked = "no"

\* Slip: a revoked token is valid.
UnusedOnly(t) == now <= tokens[t].expires /\ tokens[t].verified = "no"

Valid(t) ==
    /\ now <= tokens[t].expires
    /\ tokens[t].verified = "no"
    /\ tokens[t].revoked = "no"

\* get_token_by_hash and the checks of its row; not_found, expired, already_verified
\* and revoked are all refusals.
Lookup(s, t, v) ==
    /\ IF t \in DOMAIN tokens /\ Valid(t)
       THEN Start(s, [op |-> "found", token |-> t, verifier |-> v])
       ELSE Start(s, [op |-> "record", verifier |-> v, outcome |-> "refused"])
    /\ UNCHANGED <<now, holders, revokedST, tokens, attempts, marks>>

\* get_recent_attempts_by_business.
Recent(v) == {a \in DOMAIN attempts : attempts[a].verifier = v /\ now < attempts[a].at + Minute}

\* Slip: one more is let through.
OneMoreAllowed(v) == v = Anonymous \/ Cardinality(Recent(v)) <= Limit + 1

Allowed(v) == v = Anonymous \/ Cardinality(Recent(v)) <= Limit

\* Over the limit the handler fails, and records nothing.
CountAttempts(s) ==
    /\ req[s].op = "found"
    /\ IF Allowed(req[s].verifier)
       THEN Continue(s, [req[s] EXCEPT !.op = "counted"])
       ELSE End(s)
    /\ UNCHANGED <<now, holders, revokedST, tokens, attempts, marks>>

\* mark_token_verified, by id.
Marked(t) == [tokens EXCEPT ![t].verified = "yes"]

Mark(s) ==
    LET t == req[s].token IN
    /\ req[s].op = "counted"
    /\ tokens' = Marked(t)
    /\ marks' = [marks EXCEPT ![t] = @ + 1]
    /\ Continue(s, [op |-> "record", verifier |-> req[s].verifier, outcome |-> "success"])
    /\ UNCHANGED <<now, holders, revokedST, attempts>>

NewAttempt(r) == [verifier |-> r.verifier, outcome |-> r.outcome, at |-> now]

\* record_verification_attempt, whose errors are dropped.
Record(s) ==
    /\ req[s].op = "record"
    /\ \/ UNCHANGED attempts
       \/ /\ req[s].verifier # Anonymous
          /\ \E a \in AttemptIds \ DOMAIN attempts :
                attempts' = [b \in DOMAIN attempts \cup {a} |->
                                IF b = a THEN NewAttempt(req[s]) ELSE attempts[b]]
    /\ End(s)
    /\ UNCHANGED <<now, holders, revokedST, tokens, marks>>

-----------------------------------------------------------------------------
(* Around the handlers                                                     *)

\* A statement fails, the client is gone or the process dies.
Drop(s) ==
    /\ req[s] # Idle
    /\ End(s)
    /\ UNCHANGED <<now, holders, revokedST, tokens, attempts, marks>>

\* Handlers may take any time.
Tick ==
    /\ now < MaxNow
    /\ now' = now + 1
    /\ UNCHANGED <<holders, revokedST, tokens, attempts, marks, req>>

\* Lifecycle: a soultoken is revoked, surrendered or has expired, or its holder banned.
LoseSoultoken ==
    /\ \/ /\ \E u \in holders : holders' = holders \ {u}
          /\ UNCHANGED revokedST
       \/ /\ \E b \in Businesses \ revokedST : revokedST' = revokedST \cup {b}
          /\ UNCHANGED holders
    /\ UNCHANGED <<now, tokens, attempts, marks, req>>

Handler(s) ==
    \/ \E u \in Users, v \in Verifier : IssueRead(s, u, v)
    \/ \E t \in TokenIds : IssueCommit(s, t) \/ RevokeRead(s, t)
    \/ RevokeCommit(s)
    \/ \E t \in TokenIds, v \in Verifier : Lookup(s, t, v)
    \/ CountAttempts(s)
    \/ Mark(s)
    \/ Record(s)
    \/ Drop(s)

Next ==
    \/ \E s \in Sessions : Handler(s)
    \/ Tick
    \/ LoseSoultoken

Spec == Init /\ [][Next]_vars

-----------------------------------------------------------------------------
(* Types and safety                                                        *)

\* The tables hold rows of their types, and a handler one of the requests.
TypeOK ==
    /\ now \in Times
    /\ holders \subseteq Users
    /\ revokedST \subseteq Businesses
    /\ DOMAIN tokens \subseteq TokenIds
    /\ tokens \in [DOMAIN tokens -> Token]
    /\ DOMAIN attempts \subseteq AttemptIds
    /\ attempts \in [DOMAIN attempts -> Attempt]
    /\ marks \in [TokenIds -> Nat]
    /\ req \in [Sessions -> Request]

\* The handlers that have found t valid and not yet marked it.
Verifying(t) == {s \in Sessions : req[s].op \in {"found", "counted"} /\ req[s].token = t}

\* A token is verified more than once only by handlers that overlap: from the first
\* mark on, the marks and the handlers still to come are at most the handlers that
\* ran at that moment.
UsedByRacers ==
    \A t \in TokenIds : marks[t] > 0 =>
        marks[t] + Cardinality(Verifying(t)) <= Cardinality(Sessions)

\* A token that is revoked or used, with no handler left that found it valid before,
\* is never verified again.
DeadStaysDead ==
    [][\A t \in DOMAIN tokens :
          /\ tokens[t].revoked = "yes" \/ tokens[t].verified = "yes"
          /\ Verifying(t) = {}
          => marks'[t] = marks[t] /\ Verifying(t)' = {}]_vars

\* The successes of a business on record within a minute exceed the limit by no more
\* than the handlers that counted together.
Successes(b) == {a \in Recent(b) : attempts[a].outcome = "success"}

OverLimitByRacers ==
    \A b \in Businesses : Cardinality(Successes(b)) <= Limit + Cardinality(Sessions)

-----------------------------------------------------------------------------
(* The inductive invariant                                                 *)

\* Handlers hold tokens that were issued.
HeldAreIssued ==
    \A s \in Sessions : req[s].op \in {"revoke", "found", "counted"} =>
        req[s].token \in DOMAIN tokens

\* A mark is never taken back.
MarkedIsVerified ==
    \A t \in TokenIds : marks[t] > 0 => t \in DOMAIN tokens /\ tokens[t].verified = "yes"

\* The handlers the count has let through and whose success is not on record yet.
Granted(b) ==
    {s \in Sessions : /\ \/ req[s].op = "counted"
                         \/ req[s].op = "record" /\ req[s].outcome = "success"
                      /\ req[s].verifier = b}

CountedTogether ==
    \A b \in Businesses :
        Cardinality(Successes(b)) + Cardinality(Granted(b)) <= Limit + Cardinality(Sessions)

\* A token serves one verification, or as many as ran together when it was first
\* marked; and a business is granted no more than the limit and the handlers that
\* counted before any of them was on record.
IInv ==
    /\ TypeOK
    /\ HeldAreIssued
    /\ MarkedIsVerified
    /\ UsedByRacers
    /\ CountedTogether
=============================================================================
