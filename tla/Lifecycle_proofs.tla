-------------------------- MODULE Lifecycle_proofs --------------------------
(***************************************************************************)
(* Type correctness and the inductive invariant of the lifecycle, and that *)
(* the soultokens table implements the registry of module Credential, for  *)
(* any users, tokens and concurrent handlers and any validity.             *)
(***************************************************************************)
EXTENDS Lifecycle, TLAPS

-----------------------------------------------------------------------------
(* Type correctness                                                        *)

LEMMA TypeInit == Init => TypeOK
  BY NatAssumption DEF Init, TypeOK, Status, Request, Idle, Token

\* What a request that is not idle holds.
LEMMA RequestFields ==
    ASSUME TypeOK, NEW s \in Sessions
    PROVE  /\ req[s] \in Request
           /\ req[s].op \in {"issue", "erase", "ban", "banRevoke"} => req[s].user \in Users
           /\ req[s].op \in {"issue", "renew"} => req[s].until \in Dates
           /\ req[s].op \in {"renew", "revoke"} =>
                 /\ req[s].token \in DOMAIN tokens
                 /\ req[s].token \in TokenIds
                 /\ tokens[req[s].token] \in Token
                 /\ tokens[req[s].token].holder \in Users
  BY DEF TypeOK, Request, Idle, Token

\* A token issued or renewed now expires at a date.
LEMMA FutureDate == TypeOK => now + Validity \in Dates
  BY NatAssumption DEF TypeOK, Dates

\* Replacing a handler's request by one that is well formed.
LEMMA TypeRequest ==
    ASSUME TypeOK, NEW s \in Sessions, NEW r \in Request,
           r.op \in {"renew", "revoke"} => r.token \in DOMAIN tokens,
           req' = [req EXCEPT ![s] = r]
    PROVE  /\ req' \in [Sessions -> Request]
           /\ \A x \in Sessions : req'[x].op \in {"renew", "revoke"} => req'[x].token \in DOMAIN tokens
  BY DEF TypeOK

LEMMA TypeEnd ==
    ASSUME TypeOK, NEW s \in Sessions, End(s)
    PROVE  /\ req' \in [Sessions -> Request]
           /\ \A x \in Sessions : req'[x].op \in {"renew", "revoke"} => req'[x].token \in DOMAIN tokens
  BY TypeRequest, Idle \in Request, Idle.op = "idle" DEF End, Request, Idle

LEMMA TypeChain ==
    ASSUME TypeOK, NEW u \in Users, Chain(u)
    PROVE  TypeOK'
  <1>1. CASE IdentityConfirmed(u)
    BY <1>1 DEF IdentityConfirmed, TypeOK, Status
  <1>2. CASE PresenceMet(u)
    BY <1>2 DEF PresenceMet, TypeOK, Status
  <1>3. CASE AttestationInitiated(u)
    BY <1>3 DEF AttestationInitiated, TypeOK, users
  <1>4. CASE Approved(u) \/ Rejected(u)
    BY <1>4 DEF Approved, Rejected, AttestationDecided, TypeOK, Status
  <1>5. QED
    BY <1>1, <1>2, <1>3, <1>4 DEF Chain

\* The reads: only the handler's own request changes.
Reads(s) ==
    \/ \E u \in Users : IssueRead(s, u) \/ RenewRead(s, u) \/ EraseRead(s, u) \/ BanMark(s, u)
    \/ \E t \in DOMAIN tokens : RevokeRead(s, t) \/ SurrenderRead(s, t)
    \/ BanSkipsRevoke(s)

LEMMA TypeReads ==
    ASSUME TypeOK, NEW s \in Sessions, Reads(s)
    PROVE  TypeOK'
  <1>1. PICK r \in Request : /\ r.op \in {"renew", "revoke"} => r.token \in DOMAIN tokens
                             /\ req' = [req EXCEPT ![s] = r]
    <2>1. ASSUME NEW u \in Users, IssueRead(s, u)
          PROVE  \E r \in Request : /\ r.op \in {"renew", "revoke"} => r.token \in DOMAIN tokens
                                    /\ req' = [req EXCEPT ![s] = r]
      BY <2>1, FutureDate DEF IssueRead, Start, Request
    <2>2. ASSUME NEW u \in Users, RenewRead(s, u)
          PROVE  \E r \in Request : /\ r.op \in {"renew", "revoke"} => r.token \in DOMAIN tokens
                                    /\ req' = [req EXCEPT ![s] = r]
      BY <2>2, FutureDate DEF RenewRead, Start, Request, ActiveTokens, TypeOK
    <2>3. ASSUME NEW u \in Users, EraseRead(s, u) \/ BanMark(s, u)
          PROVE  \E r \in Request : /\ r.op \in {"renew", "revoke"} => r.token \in DOMAIN tokens
                                    /\ req' = [req EXCEPT ![s] = r]
      BY <2>3 DEF EraseRead, BanMark, Start, Request
    <2>4. ASSUME NEW t \in DOMAIN tokens, RevokeRead(s, t) \/ SurrenderRead(s, t)
          PROVE  \E r \in Request : /\ r.op \in {"renew", "revoke"} => r.token \in DOMAIN tokens
                                    /\ req' = [req EXCEPT ![s] = r]
      BY <2>4 DEF RevokeRead, SurrenderRead, Start, Request, TypeOK
    <2>5. ASSUME BanSkipsRevoke(s)
          PROVE  \E r \in Request : /\ r.op \in {"renew", "revoke"} => r.token \in DOMAIN tokens
                                    /\ req' = [req EXCEPT ![s] = r]
      BY <2>5, RequestFields DEF BanSkipsRevoke, Request
    <2>6. QED
      BY <2>1, <2>2, <2>3, <2>4, <2>5 DEF Reads
  <1>2. UNCHANGED <<now, users, evidence, tokens>>
    BY DEF Reads, IssueRead, RenewRead, EraseRead, BanMark, RevokeRead, SurrenderRead,
           BanSkipsRevoke
  <1>3. QED
    BY <1>1, <1>2, TypeRequest DEF TypeOK, users, evidence

LEMMA TypeIssueCommit ==
    ASSUME TypeOK, NEW s \in Sessions, NEW t \in TokenIds, IssueCommit(s, t)
    PROVE  TypeOK'
  <1>1. req[s].user \in Users /\ req[s].until \in Dates
    BY RequestFields DEF IssueCommit
  <1>2. DOMAIN tokens' = DOMAIN tokens \cup {t} /\ tokens' \in [DOMAIN tokens \cup {t} -> Token]
    BY <1>1 DEF IssueCommit, TypeOK, Token
  <1>3. pointer' \in [Users -> TokenIds \cup {NoToken}]
    BY <1>1 DEF IssueCommit, TypeOK
  <1>4. QED
    BY <1>2, <1>3, TypeEnd DEF IssueCommit, TypeOK, evidence

LEMMA TypeRenewCommit ==
    ASSUME TypeOK, NEW s \in Sessions, RenewCommit(s)
    PROVE  TypeOK'
  <1>1. req[s].token \in DOMAIN tokens /\ req[s].until \in Dates
    BY RequestFields DEF RenewCommit
  <1>2. DOMAIN tokens' = DOMAIN tokens /\ tokens' \in [DOMAIN tokens -> Token]
    BY <1>1 DEF RenewCommit, TypeOK, Token
  <1>3. QED
    BY <1>2, TypeEnd DEF RenewCommit, TypeOK, evidence, users

LEMMA TypeRevokeCommit ==
    ASSUME TypeOK, NEW s \in Sessions, RevokeCommit(s)
    PROVE  TypeOK'
  <1>1. PICK t \in DOMAIN tokens, h \in Users : t = req[s].token /\ h = tokens[t].holder
    BY RequestFields DEF RevokeCommit
  <1>2. DOMAIN tokens' = DOMAIN tokens /\ tokens' \in [DOMAIN tokens -> Token]
    BY <1>1 DEF RevokeCommit, TypeOK, Token
  <1>3. status' \in [Users -> Status] /\ pointer' \in [Users -> TokenIds \cup {NoToken}]
    BY <1>1 DEF RevokeCommit, TypeOK, Status
  <1>4. QED
    BY <1>2, <1>3, TypeEnd DEF RevokeCommit, TypeOK, evidence

\* The other ends of a handler: no token is written.
LEMMA TypeOtherEnds ==
    ASSUME TypeOK, NEW s \in Sessions,
           EraseCommit(s) \/ BanCommit(s) \/ RenewRefused(s) \/ Drop(s)
    PROVE  TypeOK'
  <1>1. CASE EraseCommit(s)
    BY <1>1, TypeEnd, RequestFields DEF EraseCommit, TypeOK, evidence
  <1>2. CASE BanCommit(s)
    BY <1>2, TypeEnd, RequestFields DEF BanCommit, TypeOK, evidence
  <1>3. CASE RenewRefused(s) \/ Drop(s)
    BY <1>3, TypeEnd DEF RenewRefused, Drop, TypeOK, evidence, users
  <1>4. QED
    BY <1>1, <1>2, <1>3

LEMMA TypeStep == TypeOK /\ [Next]_vars => TypeOK'
  <1> SUFFICES ASSUME TypeOK, [Next]_vars
               PROVE  TypeOK'
    OBVIOUS
  <1>1. ASSUME NEW s \in Sessions, Handler(s)
        PROVE  TypeOK'
    <2>1. CASE Reads(s)
      BY <2>1, TypeReads
    <2>2. CASE \E t \in TokenIds : IssueCommit(s, t)
      BY <2>2, TypeIssueCommit
    <2>3. CASE RenewCommit(s)
      BY <2>3, TypeRenewCommit
    <2>4. CASE RevokeCommit(s)
      BY <2>4, TypeRevokeCommit
    <2>5. CASE EraseCommit(s) \/ BanCommit(s) \/ RenewRefused(s) \/ Drop(s)
      BY <2>5, TypeOtherEnds
    <2>6. QED
      BY <1>1, <2>1, <2>2, <2>3, <2>4, <2>5 DEF Handler, Reads
  <1>2. ASSUME NEW u \in Users, Unban(u)
        PROVE  TypeOK'
    BY <1>2 DEF Unban, TypeOK, evidence
  <1>3. CASE Tick
    BY <1>3, NatAssumption DEF Tick, TypeOK, users, evidence
  <1>4. CASE UNCHANGED vars
    BY <1>4 DEF vars, users, evidence, TypeOK
  <1>5. QED
    BY <1>1, <1>2, <1>3, <1>4, TypeChain DEF Next

\* Every reachable state respects the columns of users and soultokens and what a
\* handler may hold.
THEOREM TypeCorrect == Spec => []TypeOK
  BY TypeInit, TypeStep, PTL DEF Spec

-----------------------------------------------------------------------------
(* The inductive invariant                                                 *)

LEMMA InvInit == Init => IInv
  BY TypeInit
  DEF Init, IInv, PointerIsLive, WaitingBanHoldsToken, RowLockIsExclusive,
      SignatureCoversExpiry, Idle

Banning(s) == req[s].op \in {"ban", "banRevoke"}

LEMMA EndKeepsOthers ==
    ASSUME TypeOK, NEW s \in Sessions, End(s)
    PROVE  /\ req'[s].op = "idle"
           /\ \A x \in Sessions \ {s} : req'[x] = req[x]
  BY DEF TypeOK, End, Idle

\* Ending a request, with the row locks and the pointers of waiting bans kept.
LEMMA EndKeepsBans ==
    ASSUME IInv, NEW s \in Sessions, End(s),
           \A u \in Users : Locked(u) /\ pointer[u] # NoToken => pointer'[u] # NoToken
    PROVE  (WaitingBanHoldsToken /\ RowLockIsExclusive)'
  <1>1. TypeOK /\ WaitingBanHoldsToken /\ RowLockIsExclusive
    BY DEF IInv
  <1>2. WaitingBanHoldsToken'
    <2> SUFFICES ASSUME NEW x \in Sessions, req'[x].op = "banRevoke"
                 PROVE  pointer'[req'[x].user] # NoToken
      BY DEF WaitingBanHoldsToken
    <2>1. x # s /\ req'[x] = req[x]
      BY <1>1, EndKeepsOthers
    <2>2. req[x].user \in Users /\ Locked(req[x].user)
      BY <1>1, <2>1, RequestFields DEF Locked
    <2>3. QED
      BY <1>1, <2>1, <2>2 DEF WaitingBanHoldsToken
  <1>3. RowLockIsExclusive'
    BY <1>1, EndKeepsOthers DEF RowLockIsExclusive
  <1>4. QED
    BY <1>2, <1>3

\* The steps that leave the tokens and the pointers alone.
LEMMA InvTokensKept ==
    ASSUME IInv, UNCHANGED <<pointer, tokens>>
    PROVE  (PointerIsLive /\ SignatureCoversExpiry)'
  BY DEF IInv, PointerIsLive, SignatureCoversExpiry

LEMMA InvReads ==
    ASSUME IInv, NEW s \in Sessions, Reads(s)
    PROVE  IInv'
  <1>1. TypeOK /\ TypeOK' /\ WaitingBanHoldsToken /\ RowLockIsExclusive
    BY TypeReads DEF IInv
  <1>2. UNCHANGED <<users, tokens>>
    BY DEF Reads, IssueRead, RenewRead, EraseRead, BanMark, RevokeRead, SurrenderRead,
           BanSkipsRevoke
  <1>3. (WaitingBanHoldsToken /\ RowLockIsExclusive)'
    <2>1. ASSUME NEW u \in Users, BanMark(s, u)
          PROVE  (WaitingBanHoldsToken /\ RowLockIsExclusive)'
      <3>1. /\ \A x \in Sessions \ {s} : req'[x] = req[x]
            /\ req'[s].user = u
            /\ req'[s].op = "banRevoke" => pointer[u] # NoToken
        BY <1>1, <2>1 DEF BanMark, Start, HoldsActive, TypeOK
      <3>2. \A x \in Sessions \ {s} : Banning(x) => req[x].user # u
        BY <2>1 DEF BanMark, Locked, Banning
      <3>3. WaitingBanHoldsToken'
        BY <1>1, <1>2, <3>1 DEF WaitingBanHoldsToken, users
      <3>4. RowLockIsExclusive'
        BY <1>1, <3>1, <3>2 DEF RowLockIsExclusive, Banning
      <3>5. QED
        BY <3>3, <3>4
    <2>2. ASSUME BanSkipsRevoke(s)
          PROVE  (WaitingBanHoldsToken /\ RowLockIsExclusive)'
      <3>1. /\ \A x \in Sessions \ {s} : req'[x] = req[x]
            /\ req'[s].user = req[s].user /\ req'[s].op = "ban" /\ req[s].op = "banRevoke"
        BY <1>1, <2>2 DEF BanSkipsRevoke, TypeOK
      <3>2. WaitingBanHoldsToken'
        BY <1>1, <1>2, <3>1 DEF WaitingBanHoldsToken, users
      <3>3. RowLockIsExclusive'
        BY <1>1, <3>1 DEF RowLockIsExclusive
      <3>4. QED
        BY <3>2, <3>3
    <2>3. ASSUME \/ \E u \in Users : IssueRead(s, u) \/ RenewRead(s, u) \/ EraseRead(s, u)
                 \/ \E t \in DOMAIN tokens : RevokeRead(s, t) \/ SurrenderRead(s, t)
          PROVE  (WaitingBanHoldsToken /\ RowLockIsExclusive)'
      <3>1. /\ \A x \in Sessions \ {s} : req'[x] = req[x]
            /\ req'[s].op \in {"issue", "renew", "erase", "revoke"}
        BY <1>1, <2>3
        DEF IssueRead, RenewRead, EraseRead, RevokeRead, SurrenderRead, Start, TypeOK
      <3>2. WaitingBanHoldsToken'
        BY <1>1, <1>2, <3>1 DEF WaitingBanHoldsToken, users
      <3>3. RowLockIsExclusive'
        BY <1>1, <3>1 DEF RowLockIsExclusive
      <3>4. QED
        BY <3>2, <3>3
    <2>4. QED
      BY <2>1, <2>2, <2>3 DEF Reads
  <1>4. (PointerIsLive /\ SignatureCoversExpiry)'
    BY <1>2, InvTokensKept DEF users
  <1>5. QED
    BY <1>1, <1>3, <1>4 DEF IInv

LEMMA InvIssueCommit ==
    ASSUME IInv, NEW s \in Sessions, NEW t \in TokenIds, IssueCommit(s, t)
    PROVE  IInv'
  <1>1. TypeOK /\ TypeOK' /\ PointerIsLive /\ SignatureCoversExpiry
    BY TypeIssueCommit DEF IInv
  <1>2. PICK u \in Users : u = req[s].user
    BY <1>1, RequestFields DEF IssueCommit
  <1>3. /\ t \notin DOMAIN tokens
        /\ DOMAIN tokens' = DOMAIN tokens \cup {t}
        /\ \A d \in DOMAIN tokens : tokens'[d] = tokens[d]
        /\ tokens'[t].holder = u /\ tokens'[t].state = "live"
        /\ tokens'[t].sealed = tokens'[t].until
        /\ pointer'[u] = t /\ \A v \in Users \ {u} : pointer'[v] = pointer[v]
    BY <1>1, <1>2 DEF IssueCommit, TypeOK
  <1>4. PointerIsLive'
    BY <1>1, <1>3 DEF PointerIsLive
  <1>5. SignatureCoversExpiry'
    BY <1>1, <1>3 DEF SignatureCoversExpiry
  <1>6. (WaitingBanHoldsToken /\ RowLockIsExclusive)'
    BY <1>3, EndKeepsBans, NoTokenAssumption DEF IssueCommit
  <1>7. QED
    BY <1>1, <1>4, <1>5, <1>6 DEF IInv

LEMMA InvRenewCommit ==
    ASSUME IInv, NEW s \in Sessions, RenewCommit(s)
    PROVE  IInv'
  <1>1. TypeOK /\ TypeOK' /\ PointerIsLive /\ SignatureCoversExpiry
    BY TypeRenewCommit DEF IInv
  <1>2. PICK t \in DOMAIN tokens : t = req[s].token
    BY <1>1, RequestFields DEF RenewCommit
  <1>3. /\ DOMAIN tokens' = DOMAIN tokens /\ UNCHANGED pointer
        /\ \A d \in DOMAIN tokens : /\ tokens'[d].holder = tokens[d].holder
                                    /\ tokens'[d].state = tokens[d].state
        /\ \A d \in DOMAIN tokens \ {t} : tokens'[d] = tokens[d]
        /\ tokens'[t].sealed = tokens'[t].until
    <2>1. /\ DOMAIN tokens' = DOMAIN tokens
          /\ \A d \in DOMAIN tokens \ {t} : tokens'[d] = tokens[d]
          /\ tokens'[t] = [tokens[t] EXCEPT !.until = req[s].until, !.sealed = req[s].until]
      BY <1>1, <1>2 DEF RenewCommit, TypeOK
    <2>2. tokens[t] \in Token /\ UNCHANGED pointer
      BY <1>1 DEF TypeOK, RenewCommit, users
    <2>3. QED
      BY <2>1, <2>2 DEF Token
  <1>4. PointerIsLive'
    BY <1>1, <1>3 DEF PointerIsLive
  <1>5. SignatureCoversExpiry'
    BY <1>1, <1>3 DEF SignatureCoversExpiry
  <1>6. (WaitingBanHoldsToken /\ RowLockIsExclusive)'
    BY <1>3, EndKeepsBans DEF RenewCommit
  <1>7. QED
    BY <1>1, <1>4, <1>5, <1>6 DEF IInv

\* A pointer to the revoked token can only be its holder's, and that one is reset.
LEMMA InvRevokeCommit ==
    ASSUME IInv, NEW s \in Sessions, RevokeCommit(s)
    PROVE  IInv'
  <1>1. TypeOK /\ TypeOK' /\ PointerIsLive /\ SignatureCoversExpiry
    BY TypeRevokeCommit DEF IInv
  <1>2. PICK t \in DOMAIN tokens, h \in Users : t = req[s].token /\ h = tokens[t].holder
    BY <1>1, RequestFields DEF RevokeCommit
  <1>3. /\ DOMAIN tokens' = DOMAIN tokens
        /\ \A d \in DOMAIN tokens : /\ tokens'[d].holder = tokens[d].holder
                                    /\ tokens'[d].until = tokens[d].until
                                    /\ tokens'[d].sealed = tokens[d].sealed
        /\ \A d \in DOMAIN tokens \ {t} : tokens'[d] = tokens[d]
        /\ ~Locked(h)
        /\ pointer'[h] = NoToken /\ \A v \in Users \ {h} : pointer'[v] = pointer[v]
    BY <1>1, <1>2 DEF RevokeCommit, TypeOK, Token
  <1>4. PointerIsLive'
    BY <1>1, <1>2, <1>3 DEF PointerIsLive
  <1>5. SignatureCoversExpiry'
    BY <1>1, <1>3 DEF SignatureCoversExpiry
  <1>6. (WaitingBanHoldsToken /\ RowLockIsExclusive)'
    BY <1>3, EndKeepsBans DEF RevokeCommit
  <1>7. QED
    BY <1>1, <1>4, <1>5, <1>6 DEF IInv

LEMMA InvEraseCommit ==
    ASSUME IInv, NEW s \in Sessions, EraseCommit(s)
    PROVE  IInv'
  <1>1. TypeOK /\ TypeOK' /\ PointerIsLive /\ SignatureCoversExpiry
    BY TypeOtherEnds DEF IInv
  <1>2. PICK u \in Users : u = req[s].user
    BY <1>1, RequestFields DEF EraseCommit
  <1>3. /\ UNCHANGED tokens
        /\ ~Locked(u)
        /\ pointer'[u] = NoToken /\ \A v \in Users \ {u} : pointer'[v] = pointer[v]
    BY <1>1, <1>2 DEF EraseCommit, TypeOK
  <1>4. (PointerIsLive /\ SignatureCoversExpiry)'
    BY <1>1, <1>3 DEF PointerIsLive, SignatureCoversExpiry
  <1>5. (WaitingBanHoldsToken /\ RowLockIsExclusive)'
    BY <1>3, EndKeepsBans DEF EraseCommit
  <1>6. QED
    BY <1>1, <1>4, <1>5 DEF IInv

LEMMA InvOtherEnds ==
    ASSUME IInv, NEW s \in Sessions, BanCommit(s) \/ RenewRefused(s) \/ Drop(s)
    PROVE  IInv'
  <1>1. TypeOK'
    BY TypeOtherEnds DEF IInv
  <1>2. End(s) /\ UNCHANGED <<pointer, tokens>>
    BY DEF BanCommit, RenewRefused, Drop, users
  <1>3. QED
    BY <1>1, <1>2, InvTokensKept, EndKeepsBans DEF IInv

\* The chain, an unban and the clock touch no pointer, no token and no request.
LEMMA InvOutside ==
    ASSUME IInv, TypeOK', UNCHANGED <<pointer, tokens, req>>
    PROVE  IInv'
  BY DEF IInv, PointerIsLive, SignatureCoversExpiry, WaitingBanHoldsToken, RowLockIsExclusive

LEMMA OutsideFrame ==
    ASSUME \/ \E u \in Users : Chain(u) \/ Unban(u)
           \/ Tick
           \/ UNCHANGED vars
    PROVE  UNCHANGED <<pointer, tokens, req>>
  BY DEF Chain, IdentityConfirmed, PresenceMet, AttestationInitiated, Approved, Rejected,
         AttestationDecided, Unban, Tick, vars, users

LEMMA InvStep == IInv /\ [Next]_vars => IInv'
  <1> SUFFICES ASSUME IInv, [Next]_vars
               PROVE  IInv'
    OBVIOUS
  <1>1. TypeOK'
    BY TypeStep DEF IInv
  <1>2. ASSUME NEW s \in Sessions, Handler(s)
        PROVE  IInv'
    <2>1. CASE Reads(s)
      BY <2>1, InvReads
    <2>2. CASE \E t \in TokenIds : IssueCommit(s, t)
      BY <2>2, InvIssueCommit
    <2>3. CASE RenewCommit(s)
      BY <2>3, InvRenewCommit
    <2>4. CASE RevokeCommit(s)
      BY <2>4, InvRevokeCommit
    <2>5. CASE EraseCommit(s)
      BY <2>5, InvEraseCommit
    <2>6. CASE BanCommit(s) \/ RenewRefused(s) \/ Drop(s)
      BY <2>6, InvOtherEnds
    <2>7. QED
      BY <1>2, <2>1, <2>2, <2>3, <2>4, <2>5, <2>6 DEF Handler, Reads
  <1>3. QED
    BY <1>1, <1>2, OutsideFrame, InvOutside DEF Next

\* A user's soultoken_id never dangles, signatures verify, a ban that waits for its
\* revocation waits on a row nobody else can resolve.
THEOREM Invariance == Spec => []IInv
  BY InvInit, InvStep, PTL DEF Spec

-----------------------------------------------------------------------------
(* Refinement of Credential                                                *)

LEMMA RegistryInit == Init => Registry!Init
  BY SMT DEF Init, Registry!Init

LEMMA RegistryStep == IInv /\ [Next]_vars => [Registry!Next]_tokens
  <1> SUFFICES ASSUME IInv, [Next]_vars
               PROVE  Registry!Next \/ UNCHANGED tokens
    OBVIOUS
  <1>0. TypeOK
    BY DEF IInv
  <1>1. ASSUME NEW s \in Sessions, NEW t \in TokenIds, IssueCommit(s, t)
        PROVE  Registry!Next
    <2>1. req[s].user \in Users /\ req[s].until \in Dates
      BY <1>0, <1>1, RequestFields DEF IssueCommit
    <2>2. Registry!Grant(t, req[s].user, req[s].until)
      BY <1>1 DEF IssueCommit, Registry!Grant, Registry!Granted
    <2>3. QED
      BY <2>1, <2>2 DEF Registry!Next
  <1>2. ASSUME NEW s \in Sessions, RenewCommit(s)
        PROVE  Registry!Next
    <2>1. req[s].token \in TokenIds \cap DOMAIN tokens /\ req[s].until \in Dates
      BY <1>0, <1>2, RequestFields DEF RenewCommit
    <2>2. Registry!Renew(req[s].token, req[s].until)
      BY <1>2, <2>1 DEF RenewCommit, Registry!Renew
    <2>3. QED
      BY <2>1, <2>2 DEF Registry!Next
  <1>3. ASSUME NEW s \in Sessions, RevokeCommit(s)
        PROVE  Registry!Next
    <2>1. req[s].token \in TokenIds \cap DOMAIN tokens
      BY <1>0, <1>3, RequestFields DEF RevokeCommit
    <2>2. Registry!Revoke(req[s].token)
      BY <1>3, <2>1 DEF RevokeCommit, Registry!Revoke
    <2>3. QED
      BY <2>1, <2>2 DEF Registry!Next
  <1>4. ASSUME NEW s \in Sessions, Handler(s)
        PROVE  Registry!Next \/ UNCHANGED tokens
    BY <1>1, <1>2, <1>3, <1>4
    DEF Handler, IssueRead, RenewRead, EraseRead, BanMark, RevokeRead, SurrenderRead,
        RenewRefused, EraseCommit, BanSkipsRevoke, BanCommit, Drop
  <1>5. QED
    BY <1>4, OutsideFrame DEF Next

\* Issues, renewals, revocations and surrenders race, and every behaviour of the
\* soultokens table is one of the registry: revocation is final, nothing is renewed
\* after it, and each signature covers the date on record.
THEOREM CredentialRefinement == Spec => ImplementsCredential
  <1>1. IInv /\ [Next]_vars => [Registry!Next]_tokens
    BY RegistryStep
  <1>2. QED
    BY <1>1, RegistryInit, Invariance, PTL DEF Spec, ImplementsCredential, Registry!Spec
=============================================================================
