-------------------------- MODULE Disclosure_proofs --------------------------
(***************************************************************************)
(* For any tokens, businesses and handlers, any limit and any lifetime:    *)
(* what a token can be used for when verifications overlap, that a dead    *)
(* token stays dead, and how far a business can exceed its limit.          *)
(***************************************************************************)
EXTENDS Disclosure, FiniteSetTheorems, TLAPS

-----------------------------------------------------------------------------
(* Handlers and what they hold                                             *)

LEMMA IdleFacts == Idle \in Request /\ Idle.op = "idle"
  BY DEF Request, Idle

\* What a request that is not idle holds.
LEMMA RequestFields ==
    ASSUME TypeOK, NEW s \in Sessions
    PROVE  /\ req[s] \in Request
           /\ req[s].op = "issue" => req[s].user \in Users
           /\ req[s].op \in {"revoke", "found", "counted"} => req[s].token \in TokenIds
           /\ req[s].op \in {"found", "counted", "record"} => req[s].verifier \in Verifier
           /\ req[s].op = "record" => req[s].outcome \in Outcome
  BY DEF TypeOK, Request, Idle

\* Replacing a handler's request keeps the types and that the tokens were issued.
LEMMA RequestReplaced ==
    ASSUME TypeOK, HeldAreIssued, DOMAIN tokens \subseteq DOMAIN tokens',
           NEW s \in Sessions, NEW r \in Request,
           r.op \in {"revoke", "found", "counted"} => r.token \in DOMAIN tokens,
           req' = [req EXCEPT ![s] = r]
    PROVE  req' \in [Sessions -> Request] /\ HeldAreIssued'
  BY DEF TypeOK, HeldAreIssued

LEMMA CardinalitiesAreNat ==
    ASSUME NEW t, NEW b
    PROVE  /\ IsFiniteSet(Verifying(t)) /\ Cardinality(Verifying(t)) \in Nat
           /\ Cardinality(Verifying(t)) <= Cardinality(Sessions)
           /\ IsFiniteSet(Granted(b)) /\ Cardinality(Granted(b)) \in Nat
           /\ Cardinality(Granted(b)) <= Cardinality(Sessions)
           /\ Cardinality(Sessions) \in Nat
  BY DisclosureAssumption, FS_Subset, FS_CardinalityType,
     Verifying(t) \subseteq Sessions, Granted(b) \subseteq Sessions DEF Verifying, Granted

LEMMA SuccessesFinite ==
    ASSUME TypeOK, NEW b
    PROVE  /\ IsFiniteSet(Recent(b)) /\ IsFiniteSet(Successes(b))
           /\ Cardinality(Recent(b)) \in Nat /\ Cardinality(Successes(b)) \in Nat
           /\ Cardinality(Successes(b)) <= Cardinality(Recent(b))
  <1>1. /\ Recent(b) \subseteq AttemptIds /\ Successes(b) \subseteq Recent(b)
    BY DEF TypeOK, Recent, Successes
  <1>2. QED
    BY <1>1, DisclosureAssumption, FS_Subset, FS_CardinalityType

\* Fewer handlers verify a token, or it has not been marked.
LEMMA FewerVerify ==
    ASSUME IInv, NEW t \in TokenIds, marks'[t] = marks[t],
           marks[t] > 0 => Verifying(t)' \subseteq Verifying(t)
    PROVE  marks'[t] > 0 =>
               marks'[t] + Cardinality(Verifying(t)') <= Cardinality(Sessions)
  <1>1. SUFFICES ASSUME marks[t] > 0
                 PROVE  marks[t] + Cardinality(Verifying(t)') <= Cardinality(Sessions)
    OBVIOUS
  <1>2. /\ Cardinality(Verifying(t)') \in Nat
        /\ Cardinality(Verifying(t)') <= Cardinality(Verifying(t))
    BY <1>1, CardinalitiesAreNat, FS_Subset, FS_CardinalityType
  <1>3. QED
    BY <1>1, <1>2, CardinalitiesAreNat DEF IInv, TypeOK, UsedByRacers

\* Fewer successes count, fewer handlers are granted one.
LEMMA FewerGranted ==
    ASSUME IInv, TypeOK', NEW b \in Businesses,
           Successes(b)' \subseteq Successes(b), Granted(b)' \subseteq Granted(b)
    PROVE  Cardinality(Successes(b)') + Cardinality(Granted(b)')
               <= Limit + Cardinality(Sessions)
  <1>1. /\ Cardinality(Successes(b)') \in Nat /\ Cardinality(Granted(b)') \in Nat
        /\ Cardinality(Successes(b)') <= Cardinality(Successes(b))
        /\ Cardinality(Granted(b)') <= Cardinality(Granted(b))
    BY CardinalitiesAreNat, SuccessesFinite, FS_Subset, FS_CardinalityType DEF IInv
  <1>2. /\ Limit \in Nat /\ Cardinality(Sessions) \in Nat
        /\ Cardinality(Successes(b)) \in Nat /\ Cardinality(Granted(b)) \in Nat
        /\ Cardinality(Successes(b)) + Cardinality(Granted(b))
               <= Limit + Cardinality(Sessions)
    BY CardinalitiesAreNat, SuccessesFinite, DisclosureAssumption DEF IInv, CountedTogether
  <1>3. QED
    BY <1>1, <1>2

-----------------------------------------------------------------------------
(* The initial state                                                       *)

LEMMA InitIInv == Init => IInv
  <1> SUFFICES ASSUME Init PROVE IInv
    OBVIOUS
  <1>1. TypeOK
    BY IdleFacts, DisclosureAssumption DEF Init, TypeOK, Times
  <1>2. HeldAreIssued /\ MarkedIsVerified /\ UsedByRacers
    BY IdleFacts DEF Init, HeldAreIssued, MarkedIsVerified, UsedByRacers
  <1>3. ASSUME NEW b \in Businesses
        PROVE  Cardinality(Successes(b)) + Cardinality(Granted(b))
                   <= Limit + Cardinality(Sessions)
    <2>1. Successes(b) = {} /\ Granted(b) = {}
      BY IdleFacts DEF Init, Successes, Recent, Granted
    <2>2. QED
      BY <2>1, FS_EmptySet, CardinalitiesAreNat, DisclosureAssumption
  <1>4. QED
    BY <1>1, <1>2, <1>3 DEF IInv, CountedTogether

-----------------------------------------------------------------------------
(* Steps that verify, grant and record nothing                             *)

\* A step of a handler that starts a request which verifies nothing, or ends one.
Quiet(s, r) ==
    /\ r \in Request
    /\ \/ r.op \in {"idle", "issue", "revoke"}
       \/ r.op = "record" /\ r.outcome = "refused"
    /\ r.op = "revoke" => r.token \in DOMAIN tokens
    /\ req' = [req EXCEPT ![s] = r]
    /\ DOMAIN tokens \subseteq DOMAIN tokens'
    /\ \A t \in DOMAIN tokens : tokens'[t].verified = tokens[t].verified
    /\ UNCHANGED <<now, attempts, marks>>

LEMMA QuietStep ==
    ASSUME IInv, TypeOK', NEW s \in Sessions, NEW r, Quiet(s, r)
    PROVE  IInv'
  <1> USE DEF Quiet
  <1>1. HeldAreIssued'
    BY RequestReplaced DEF IInv
  <1>2. MarkedIsVerified'
    BY DEF IInv, MarkedIsVerified
  <1>3. \A t : Verifying(t)' \subseteq Verifying(t)
    BY DEF Verifying, IInv, TypeOK
  <1>4. UsedByRacers'
    BY <1>3, FewerVerify DEF UsedByRacers
  <1>5. ASSUME NEW b \in Businesses
        PROVE  Granted(b)' \subseteq Granted(b) /\ Successes(b)' = Successes(b)
    BY DEF Granted, Successes, Recent, IInv, TypeOK
  <1>6. CountedTogether'
    BY <1>5, FewerGranted DEF CountedTogether
  <1>7. QED
    BY <1>1, <1>2, <1>4, <1>6 DEF IInv

LEMMA IssueReadStep ==
    ASSUME IInv, NEW s \in Sessions, NEW u \in Users, NEW v \in Verifier, IssueRead(s, u, v)
    PROVE  IInv'
  <1>1. [op |-> "issue", user |-> u] \in Request
    BY DEF Request
  <1>2. TypeOK'
    BY <1>1 DEF IInv, TypeOK, IssueRead, Start
  <1>3. Quiet(s, [op |-> "issue", user |-> u])
    BY <1>1 DEF Quiet, IssueRead, Start
  <1>4. QED
    BY <1>2, <1>3, QuietStep

LEMMA IssueCommitStep ==
    ASSUME IInv, NEW s \in Sessions, NEW t \in TokenIds, IssueCommit(s, t)
    PROVE  IInv'
  <1>1. NewToken(req[s].user) \in Token
    BY RequestFields, DisclosureAssumption DEF IInv, TypeOK, IssueCommit, NewToken, Token, Times, Flag
  <1>2. /\ DOMAIN tokens' = DOMAIN tokens \cup {t}
        /\ \A x \in DOMAIN tokens : tokens'[x] = tokens[x]
    BY DEF IssueCommit
  <1>3. TypeOK'
    BY <1>1, <1>2, IdleFacts DEF IInv, TypeOK, IssueCommit, End
  <1>4. Quiet(s, Idle)
    BY <1>2, IdleFacts DEF Quiet, IssueCommit, End
  <1>5. QED
    BY <1>3, <1>4, QuietStep

LEMMA RevokeReadStep ==
    ASSUME IInv, NEW s \in Sessions, NEW t \in TokenIds, RevokeRead(s, t)
    PROVE  IInv'
  <1>1. [op |-> "revoke", token |-> t] \in Request
    BY DEF Request
  <1>2. TypeOK'
    BY <1>1 DEF IInv, TypeOK, RevokeRead, Start
  <1>3. Quiet(s, [op |-> "revoke", token |-> t])
    BY <1>1 DEF Quiet, RevokeRead, Start
  <1>4. QED
    BY <1>2, <1>3, QuietStep

LEMMA RevokeCommitStep ==
    ASSUME IInv, NEW s \in Sessions, RevokeCommit(s)
    PROVE  IInv'
  <1>1. req[s].token \in DOMAIN tokens
    BY DEF RevokeCommit, IInv, HeldAreIssued
  <1>2. /\ tokens' = [tokens EXCEPT ![req[s].token].revoked = "yes"]
        /\ tokens' \in [DOMAIN tokens -> Token] /\ DOMAIN tokens' = DOMAIN tokens
        /\ \A t \in DOMAIN tokens : tokens'[t].verified = tokens[t].verified
    BY <1>1 DEF RevokeCommit, RevokedToken, IInv, TypeOK, Token, Flag
  <1>3. TypeOK'
    BY <1>2, IdleFacts DEF IInv, TypeOK, RevokeCommit, End
  <1>4. Quiet(s, Idle)
    BY <1>2, IdleFacts DEF Quiet, RevokeCommit, End
  <1>5. QED
    BY <1>3, <1>4, QuietStep

LEMMA DropStep ==
    ASSUME IInv, NEW s \in Sessions, Drop(s)
    PROVE  IInv'
  <1>1. TypeOK'
    BY IdleFacts DEF IInv, TypeOK, Drop, End
  <1>2. Quiet(s, Idle)
    BY IdleFacts DEF Quiet, Drop, End
  <1>3. QED
    BY <1>1, <1>2, QuietStep

-----------------------------------------------------------------------------
(* Verification                                                            *)

LEMMA LookupStep ==
    ASSUME IInv, NEW s \in Sessions, NEW t \in TokenIds, NEW v \in Verifier, Lookup(s, t, v)
    PROVE  IInv'
  <1>1. CASE t \in DOMAIN tokens /\ Valid(t)
    <2> DEFINE r == [op |-> "found", token |-> t, verifier |-> v]
    <2>1. r \in Request /\ req' = [req EXCEPT ![s] = r]
      BY <1>1 DEF Request, Lookup, Start
    <2>2. TypeOK'
      BY <2>1 DEF IInv, TypeOK, Lookup
    <2>3. HeldAreIssued'
      BY <1>1, <2>1, RequestReplaced DEF IInv, Lookup
    <2>4. MarkedIsVerified'
      BY DEF IInv, MarkedIsVerified, Lookup
    <2>5. ASSUME NEW x \in TokenIds, marks[x] > 0
          PROVE  Verifying(x)' \subseteq Verifying(x)
      <3>1. x # t
        BY <1>1, <2>5 DEF Valid, IInv, MarkedIsVerified
      <3>2. QED
        BY <2>1, <3>1 DEF Verifying, IInv, TypeOK
    <2>6. UsedByRacers'
      BY <2>5, FewerVerify DEF UsedByRacers, Lookup
    <2>7. ASSUME NEW b \in Businesses
          PROVE  Granted(b)' \subseteq Granted(b) /\ Successes(b)' = Successes(b)
      BY <2>1 DEF Granted, Successes, Recent, IInv, TypeOK, Lookup
    <2>8. CountedTogether'
      BY <2>2, <2>7, FewerGranted DEF CountedTogether
    <2>9. QED
      BY <2>2, <2>3, <2>4, <2>6, <2>8 DEF IInv
  <1>2. CASE ~(t \in DOMAIN tokens /\ Valid(t))
    <2> DEFINE r == [op |-> "record", verifier |-> v, outcome |-> "refused"]
    <2>1. r \in Request /\ req' = [req EXCEPT ![s] = r]
      BY <1>2 DEF Request, Lookup, Start, Outcome
    <2>2. TypeOK'
      BY <2>1 DEF IInv, TypeOK, Lookup
    <2>3. Quiet(s, r)
      BY <2>1 DEF Quiet, Lookup
    <2>4. QED
      BY <2>2, <2>3, QuietStep
  <1>3. QED
    BY <1>1, <1>2

\* A business is let through while it has at most Limit attempts on record, and so has
\* at most Limit successes there; whoever else is granted one is a handler.
LEMMA CountStep ==
    ASSUME IInv, NEW s \in Sessions, CountAttempts(s)
    PROVE  IInv'
  <1>1. CASE Allowed(req[s].verifier)
    <2>1. PICK r \in Request : /\ r.op = "counted" /\ r.token = req[s].token
                               /\ r.verifier = req[s].verifier
                               /\ req' = [req EXCEPT ![s] = r]
      <3>1. [req[s] EXCEPT !.op = "counted"]
                = [op |-> "counted", token |-> req[s].token, verifier |-> req[s].verifier]
        BY RequestFields DEF CountAttempts, Request, Idle, IInv
      <3>2. QED
        BY <1>1, <3>1, RequestFields DEF CountAttempts, Continue, Request, IInv
    <2>2. TypeOK'
      BY <2>1 DEF IInv, TypeOK, CountAttempts
    <2>3. HeldAreIssued'
      <3>1. r.token \in DOMAIN tokens
        BY <2>1 DEF IInv, HeldAreIssued, CountAttempts
      <3>2. QED
        BY <2>1, <3>1, RequestReplaced DEF IInv, CountAttempts
    <2>4. MarkedIsVerified'
      BY DEF IInv, MarkedIsVerified, CountAttempts
    <2>5. \A x \in TokenIds : Verifying(x)' \subseteq Verifying(x)
      BY <2>1 DEF Verifying, IInv, TypeOK, CountAttempts
    <2>6. UsedByRacers'
      BY <2>5, FewerVerify DEF UsedByRacers, CountAttempts
    <2>7. ASSUME NEW b \in Businesses
          PROVE  Cardinality(Successes(b)') + Cardinality(Granted(b)')
                     <= Limit + Cardinality(Sessions)
      <3>1. Successes(b)' = Successes(b)
        BY DEF Successes, Recent, CountAttempts
      <3>2. CASE r.verifier = b
        <4>1. /\ Cardinality(Recent(b)) <= Limit
              /\ Limit \in Nat
          BY <1>1, <2>1, <3>2, DisclosureAssumption DEF Allowed
        <4>2. /\ Cardinality(Granted(b)') <= Cardinality(Sessions)
              /\ Cardinality(Granted(b)') \in Nat /\ Cardinality(Sessions) \in Nat
          BY CardinalitiesAreNat, FS_Subset, FS_CardinalityType, DisclosureAssumption,
             Granted(b)' \subseteq Sessions DEF Granted
        <4>3. /\ Cardinality(Successes(b)) <= Cardinality(Recent(b))
              /\ Cardinality(Successes(b)) \in Nat /\ Cardinality(Recent(b)) \in Nat
          BY SuccessesFinite DEF IInv
        <4>4. QED
          BY <3>1, <4>1, <4>2, <4>3
      <3>3. CASE r.verifier # b
        <4>1. Granted(b)' \subseteq Granted(b)
          BY <2>1, <3>3 DEF Granted, IInv, TypeOK
        <4>2. QED
          BY <2>2, <3>1, <4>1, FewerGranted
      <3>4. QED
        BY <3>2, <3>3
    <2>8. QED
      BY <2>2, <2>3, <2>4, <2>6, <2>7 DEF IInv, CountedTogether
  <1>2. CASE ~Allowed(req[s].verifier)
    <2>1. Quiet(s, Idle)
      BY <1>2, IdleFacts DEF Quiet, CountAttempts, End
    <2>2. TypeOK'
      BY <2>1, IdleFacts DEF IInv, TypeOK, CountAttempts, Quiet
    <2>3. QED
      BY <2>1, <2>2, QuietStep
  <1>3. QED
    BY <1>1, <1>2

\* The mark takes its handler's place.
LEMMA MarkStep ==
    ASSUME IInv, NEW s \in Sessions, Mark(s)
    PROVE  IInv'
  <1> DEFINE r == [op |-> "record", verifier |-> req[s].verifier, outcome |-> "success"]
  <1>1. PICK t \in TokenIds : t = req[s].token /\ t \in DOMAIN tokens /\ req[s].op = "counted"
    BY RequestFields DEF Mark, IInv, HeldAreIssued
  <1>2. /\ tokens' = [tokens EXCEPT ![t].verified = "yes"]
        /\ marks' = [marks EXCEPT ![t] = @ + 1]
        /\ req' = [req EXCEPT ![s] = r]
        /\ UNCHANGED <<now, holders, revokedST, attempts>>
    BY <1>1 DEF Mark, Marked, Continue
  <1>3. r \in Request
    BY <1>1, RequestFields DEF IInv, Request, Outcome
  <1>4. /\ DOMAIN tokens' = DOMAIN tokens /\ tokens' \in [DOMAIN tokens -> Token]
        /\ \A x \in DOMAIN tokens : tokens[x].verified = "yes" => tokens'[x].verified = "yes"
        /\ tokens'[t].verified = "yes"
    BY <1>1, <1>2 DEF IInv, TypeOK, Token, Flag
  <1>5. TypeOK'
    BY <1>2, <1>3, <1>4 DEF IInv, TypeOK
  <1>6. HeldAreIssued'
    BY <1>2, <1>3, <1>4, RequestReplaced DEF IInv
  <1>7. MarkedIsVerified'
    BY <1>1, <1>2, <1>4 DEF IInv, TypeOK, MarkedIsVerified
  <1>8. ASSUME NEW x \in TokenIds, marks'[x] > 0
        PROVE  marks'[x] + Cardinality(Verifying(x)') <= Cardinality(Sessions)
    <2>1. CASE x = t
      <3>1. s \in Verifying(t) /\ Verifying(t)' = Verifying(t) \ {s}
        BY <1>1, <1>2 DEF Verifying, IInv, TypeOK
      <3>2. Cardinality(Verifying(t)') = Cardinality(Verifying(t)) - 1
        BY <3>1, CardinalitiesAreNat, FS_RemoveElement
      <3>3. /\ marks[t] \in Nat /\ marks'[t] = marks[t] + 1
            /\ marks[t] > 0 => marks[t] + Cardinality(Verifying(t)) <= Cardinality(Sessions)
        BY <1>2 DEF IInv, TypeOK, UsedByRacers
      <3>4. QED
        BY <2>1, <3>2, <3>3, CardinalitiesAreNat
    <2>2. CASE x # t
      <3>1. marks'[x] = marks[x] /\ Verifying(x)' \subseteq Verifying(x)
        BY <1>2, <2>2 DEF Verifying, IInv, TypeOK
      <3>2. QED
        BY <1>8, <3>1, FewerVerify
    <2>3. QED
      BY <2>1, <2>2
  <1>9. ASSUME NEW b \in Businesses
        PROVE  Granted(b)' = Granted(b) /\ Successes(b)' = Successes(b)
    BY <1>1, <1>2 DEF Granted, Successes, Recent, IInv, TypeOK
  <1>10. CountedTogether'
    BY <1>5, <1>9, FewerGranted DEF CountedTogether
  <1>11. QED
    BY <1>5, <1>6, <1>7, <1>8, <1>10 DEF IInv, UsedByRacers

\* The attempt on record takes its handler's place.
LEMMA RecordStep ==
    ASSUME IInv, NEW s \in Sessions, Record(s)
    PROVE  IInv'
  <1>1. /\ req' = [req EXCEPT ![s] = Idle] /\ req[s].op = "record"
        /\ UNCHANGED <<now, holders, revokedST, tokens, marks>>
    BY DEF Record, End
  <1>2. HeldAreIssued' /\ req' \in [Sessions -> Request]
    BY <1>1, IdleFacts, RequestReplaced DEF IInv
  <1>3. MarkedIsVerified'
    BY <1>1 DEF IInv, MarkedIsVerified
  <1>4. \A x \in TokenIds : Verifying(x)' \subseteq Verifying(x)
    BY <1>1, IdleFacts DEF Verifying, IInv, TypeOK
  <1>5. UsedByRacers'
    BY <1>1, <1>4, FewerVerify DEF UsedByRacers
  <1>6. \A b : Granted(b)' = Granted(b) \ {s}
    BY <1>1, IdleFacts DEF Granted, IInv, TypeOK
  <1>7. TypeOK' /\ CountedTogether'
    <2>1. CASE UNCHANGED attempts
      <3>1. TypeOK'
        BY <1>1, <1>2, <2>1 DEF IInv, TypeOK
      <3>2. \A b \in Businesses : Granted(b)' \subseteq Granted(b) /\ Successes(b)' = Successes(b)
        BY <1>1, <1>6, <2>1 DEF Successes, Recent
      <3>3. QED
        BY <3>1, <3>2, FewerGranted DEF CountedTogether
    <2>2. ASSUME req[s].verifier # Anonymous,
                 NEW a \in AttemptIds \ DOMAIN attempts,
                 attempts' = [x \in DOMAIN attempts \cup {a} |->
                                 IF x = a THEN NewAttempt(req[s]) ELSE attempts[x]]
          PROVE  TypeOK' /\ CountedTogether'
      <3>1. /\ NewAttempt(req[s]) \in Attempt
            /\ NewAttempt(req[s]).outcome = req[s].outcome
            /\ NewAttempt(req[s]).verifier = req[s].verifier
        BY <1>1, <2>2, RequestFields DEF NewAttempt, Attempt, IInv, TypeOK, Verifier
      <3>2. TypeOK'
        BY <1>1, <1>2, <2>2, <3>1 DEF IInv, TypeOK
      <3>3. ASSUME NEW b \in Businesses
            PROVE  Cardinality(Successes(b)') + Cardinality(Granted(b)')
                       <= Limit + Cardinality(Sessions)
        <4>1. Successes(b)' \subseteq Successes(b) \cup {a}
          BY <1>1, <2>2 DEF Successes, Recent
        <4>2. CASE req[s].verifier = b /\ req[s].outcome = "success"
          <5>1. s \in Granted(b)
            BY <1>1, <4>2 DEF Granted
          <5>2. Cardinality(Granted(b)') = Cardinality(Granted(b)) - 1
            BY <1>6, <5>1, CardinalitiesAreNat, FS_RemoveElement
          <5>3. /\ IsFiniteSet(Successes(b) \cup {a})
                /\ Cardinality(Successes(b) \cup {a}) <= Cardinality(Successes(b)) + 1
                /\ Cardinality(Successes(b) \cup {a}) \in Nat
            <6>1. IsFiniteSet(Successes(b)) /\ Cardinality(Successes(b)) \in Nat
              BY SuccessesFinite DEF IInv
            <6>2. /\ IsFiniteSet(Successes(b) \cup {a})
                  /\ \/ Cardinality(Successes(b) \cup {a}) = Cardinality(Successes(b))
                     \/ Cardinality(Successes(b) \cup {a}) = Cardinality(Successes(b)) + 1
              BY <6>1, FS_AddElement
            <6>3. QED
              BY <6>1, <6>2
          <5>4. /\ Cardinality(Successes(b)') <= Cardinality(Successes(b)) + 1
                /\ Cardinality(Successes(b)') \in Nat
            BY <4>1, <5>3, SuccessesFinite, FS_Subset, FS_CardinalityType DEF IInv
          <5>5. /\ Cardinality(Successes(b)) + Cardinality(Granted(b))
                       <= Limit + Cardinality(Sessions)
                /\ Limit \in Nat /\ Cardinality(Successes(b)) \in Nat
            BY SuccessesFinite, DisclosureAssumption DEF IInv, CountedTogether
          <5>6. QED
            BY <5>2, <5>4, <5>5, CardinalitiesAreNat
        <4>3. CASE ~(req[s].verifier = b /\ req[s].outcome = "success")
          <5>1. a \notin Successes(b)'
            BY <2>2, <3>1, <4>3 DEF Successes, Recent
          <5>2. QED
            BY <1>6, <3>2, <4>1, <5>1, FewerGranted
        <4>4. QED
          BY <4>2, <4>3
      <3>4. QED
        BY <3>2, <3>3 DEF CountedTogether
    <2>3. QED
      BY <2>1, <2>2 DEF Record
  <1>8. QED
    BY <1>2, <1>3, <1>5, <1>7 DEF IInv

-----------------------------------------------------------------------------
(* The clock and the rest of the platform                                  *)

LEMMA TickStep ==
    ASSUME IInv, Tick
    PROVE  IInv'
  <1>1. now \in Nat /\ now' = now + 1 /\ MaxNow \in Nat
    BY DisclosureAssumption DEF Tick, IInv, TypeOK, Times
  <1>2. TypeOK'
    BY <1>1 DEF Tick, IInv, TypeOK, Times
  <1>3. HeldAreIssued' /\ MarkedIsVerified' /\ UsedByRacers'
    BY DEF Tick, IInv, HeldAreIssued, MarkedIsVerified, UsedByRacers, Verifying
  <1>4. ASSUME NEW b \in Businesses
        PROVE  Successes(b)' \subseteq Successes(b) /\ Granted(b)' = Granted(b)
    <2>1. \A a \in DOMAIN attempts : attempts[a].at \in Nat
      BY DisclosureAssumption DEF IInv, TypeOK, Attempt, Times
    <2>2. QED
      BY <1>1, <2>1, DisclosureAssumption DEF Tick, Successes, Recent, Granted
  <1>5. CountedTogether'
    BY <1>2, <1>4, FewerGranted DEF CountedTogether
  <1>6. QED
    BY <1>2, <1>3, <1>5 DEF IInv

LEMMA IdleStep ==
    ASSUME IInv, TypeOK', UNCHANGED <<now, tokens, attempts, marks, req>>
    PROVE  IInv'
  BY DEF IInv, HeldAreIssued, MarkedIsVerified, UsedByRacers, Verifying,
         CountedTogether, Successes, Recent, Granted

-----------------------------------------------------------------------------
(* The theorems                                                            *)

LEMMA NextIInv == IInv /\ [Next]_vars => IInv'
  <1> SUFFICES ASSUME IInv, [Next]_vars PROVE IInv'
    OBVIOUS
  <1>1. ASSUME NEW s \in Sessions, Handler(s) PROVE IInv'
    BY <1>1, IssueReadStep, IssueCommitStep, RevokeReadStep, RevokeCommitStep, LookupStep,
       CountStep, MarkStep, RecordStep, DropStep DEF Handler
  <1>2. CASE Tick
    BY <1>2, TickStep
  <1>3. CASE LoseSoultoken
    <2>1. TypeOK'
      BY <1>3 DEF IInv, TypeOK, LoseSoultoken
    <2>2. QED
      BY <1>3, <2>1, IdleStep DEF LoseSoultoken
  <1>4. CASE UNCHANGED vars
    <2>1. TypeOK'
      BY <1>4 DEF IInv, TypeOK, vars
    <2>2. QED
      BY <1>4, <2>1, IdleStep DEF vars
  <1>5. QED
    BY <1>1, <1>2, <1>3, <1>4 DEF Next

\* verify_token: a token serves one verification, or as many as ran together when it
\* was first marked, for any number of tokens and handlers.
THEOREM Invariance == Spec => []IInv
  <1>1. QED
    BY InitIInv, NextIInv, PTL DEF Spec

\* get_recent_attempts_by_business: the limit is exceeded by no more successes on record
\* than there are handlers.
THEOREM OverLimitByRacersAlways == Spec => []OverLimitByRacers
  <1>1. IInv => OverLimitByRacers
    <2> SUFFICES ASSUME IInv, NEW b \in Businesses
                 PROVE  Cardinality(Successes(b)) <= Limit + Cardinality(Sessions)
      BY DEF OverLimitByRacers
    <2>1. /\ Cardinality(Successes(b)) + Cardinality(Granted(b))
                  <= Limit + Cardinality(Sessions)
          /\ Limit \in Nat /\ Cardinality(Successes(b)) \in Nat
      BY SuccessesFinite, DisclosureAssumption DEF IInv, CountedTogether
    <2>2. QED
      BY <2>1, CardinalitiesAreNat
  <1>2. QED
    BY <1>1, Invariance, PTL

\* mark_token_verified and revoke_token: a token that is used or revoked, with no
\* verification of it in flight, is never verified again.
THEOREM DeadStaysDeadAlways == Spec => DeadStaysDead
  <1>1. ASSUME IInv, [Next]_vars, NEW t \in DOMAIN tokens,
               tokens[t].revoked = "yes" \/ tokens[t].verified = "yes", Verifying(t) = {}
        PROVE  marks'[t] = marks[t] /\ Verifying(t)' = {}
    <2>1. \A s \in Sessions : ~(req[s].op \in {"found", "counted"} /\ req[s].token = t)
      BY <1>1 DEF Verifying
    <2>2. ~Valid(t)
      BY <1>1 DEF Valid, IInv, TypeOK, Token
    <2>3. ASSUME NEW s \in Sessions, Handler(s)
          PROVE  marks'[t] = marks[t] /\ Verifying(t)' = {}
      <3>1. CASE Mark(s)
        BY <1>1, <2>1, <3>1 DEF Mark, Continue, Verifying, IInv, TypeOK
      <3>2. CASE CountAttempts(s)
        <4>1. req[s].token # t /\ marks' = marks
          BY <2>1, <3>2 DEF CountAttempts
        <4>2. \A x \in Sessions : req'[x].op \in {"found", "counted"} => req'[x].token # t
          <5>1. CASE Allowed(req[s].verifier)
            <6>1. /\ [req[s] EXCEPT !.op = "counted"].token = req[s].token
                  /\ req' = [req EXCEPT ![s] = [req[s] EXCEPT !.op = "counted"]]
              BY <1>1, <3>2, <5>1, RequestFields
              DEF CountAttempts, Continue, IInv, Request, Idle
            <6>2. QED
              BY <1>1, <2>1, <4>1, <6>1 DEF IInv, TypeOK
          <5>2. CASE ~Allowed(req[s].verifier)
            BY <1>1, <2>1, <3>2, <5>2, IdleFacts DEF CountAttempts, End, IInv, TypeOK
          <5>3. QED
            BY <5>1, <5>2
        <4>3. QED
          BY <4>1, <4>2 DEF Verifying
      <3>3. ASSUME NEW x \in TokenIds, NEW v \in Verifier, Lookup(s, x, v)
            PROVE  marks'[t] = marks[t] /\ Verifying(t)' = {}
        BY <1>1, <2>1, <2>2, <3>3 DEF Lookup, Start, Verifying, IInv, TypeOK
      <3>4. ASSUME NEW u \in Users, NEW v \in Verifier, IssueRead(s, u, v)
            PROVE  marks'[t] = marks[t] /\ Verifying(t)' = {}
        BY <1>1, <2>1, <3>4 DEF IssueRead, Start, Verifying, IInv, TypeOK
      <3>5. ASSUME NEW x \in TokenIds, RevokeRead(s, x)
            PROVE  marks'[t] = marks[t] /\ Verifying(t)' = {}
        BY <1>1, <2>1, <3>5 DEF RevokeRead, Start, Verifying, IInv, TypeOK
      <3>6. CASE RevokeCommit(s) \/ Record(s) \/ Drop(s)
        BY <1>1, <2>1, <3>6, IdleFacts
        DEF RevokeCommit, Record, Drop, End, Verifying, IInv, TypeOK
      <3>7. ASSUME NEW x \in TokenIds, IssueCommit(s, x)
            PROVE  marks'[t] = marks[t] /\ Verifying(t)' = {}
        BY <1>1, <2>1, <3>7, IdleFacts DEF IssueCommit, End, Verifying, IInv, TypeOK
      <3>8. QED
        BY <2>3, <3>1, <3>2, <3>3, <3>4, <3>5, <3>6, <3>7 DEF Handler
    <2>4. CASE Tick \/ LoseSoultoken \/ UNCHANGED vars
      BY <1>1, <2>4 DEF Tick, LoseSoultoken, vars, Verifying
    <2>5. QED
      BY <1>1, <2>3, <2>4 DEF Next
  <1>2. IInv /\ [Next]_vars =>
            [\A t \in DOMAIN tokens :
                /\ tokens[t].revoked = "yes" \/ tokens[t].verified = "yes"
                /\ Verifying(t) = {}
                => marks'[t] = marks[t] /\ Verifying(t)' = {}]_vars
    BY <1>1
  <1>3. QED
    BY <1>2, Invariance, PTL DEF Spec, DeadStaysDead
=============================================================================
