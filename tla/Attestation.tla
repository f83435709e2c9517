---------------------------- MODULE Attestation ----------------------------
(***************************************************************************)
(* The staff attestation workflow (BFIP section 6): a delivery worker      *)
(* opens an attestation for a presence-confirmed user, signs the evidence, *)
(* and two assigned reviewers co-sign it or one of them rejects it.        *)
(*                                                                         *)
(* Every HTTP handler runs in one READ COMMITTED transaction.  A handler   *)
(* is two steps here: a Read step, which evaluates every guard on the      *)
(* state committed at that moment and keeps what it read in tx[s], and a   *)
(* step that writes and commits, under the constraints the database        *)
(* enforces. Other transactions run between the two.  Only reviewer_sign   *)
(* reads FOR UPDATE: while it is open, writers of that attestation row     *)
(* wait.                                                                   *)
(***************************************************************************)
EXTENDS Naturals, FiniteSets

CONSTANTS
    Users,          \* the people to be attested
    Reviewers,      \* user ids that may hold the attestation_reviewer role
    Visits,         \* staff visits
    StaffOf,        \* the delivery worker of each visit
    Rosters,        \* candidate sets the reviewer query may return at some time
    Photos,         \* photo hashes
    NoPhoto,        \* photo_hash IS NULL
    NoSig,          \* no signature stored
    Sessions,       \* request handlers running at the same time
    CosignLimit,    \* co-signs per pair and week still allowed (3 in the code)
    MaxAtt          \* bound: attestation ids the sequence may hand out

ASSUME ReviewersAssumption == Reviewers \subseteq Nat
ASSUME StaffAssumption == StaffOf \in [Visits -> Nat]
ASSUME RosterAssumption == Rosters \subseteq SUBSET Reviewers
ASSUME BoundAssumption == MaxAtt \in Nat /\ CosignLimit \in Nat

VARIABLES
    openVisits,     \* visits whose status is in_progress
    userStatus,     \* users.verification_status
    attestations,   \* visit_attestations: id -> row
    nextId,         \* the SERIAL sequence behind visit_attestations.id
    assignmentLog,  \* reviewer_assignment_log, UNIQUE (visit_id, reviewer_id)
    sigs,           \* visit_signatures, UNIQUE (visit_id, reviewer_id)
    recent,         \* the signatures whose signed_at is within seven days
    attempts,       \* attestation_attempts: rows per attestation and outcome
    tx              \* what each open handler transaction has read

db == <<openVisits, userStatus, attestations, nextId, assignmentLog, sigs,
        recent, attempts>>
vars == <<openVisits, userStatus, attestations, nextId, assignmentLog, sigs,
          recent, attempts, tx>>

AttIds == 1 .. MaxAtt
PhotoHash == Photos \cup {NoPhoto}
Slot == Visits \X Reviewers
UserStatus == {"presence_confirmed", "attested"}
Status == {"pending", "co_sign_pending", "approved", "rejected"}

\* What a signature is over: the visit and the user are functions of the id.
Payload == [att: AttIds, photo: PhotoHash]

ASSUME NoSigAssumption == NoSig \notin Payload

Row == [visit: Visits, user: Users, r1: Reviewers, r2: Reviewers,
        photo: PhotoHash, staffSig: Payload \cup {NoSig}, status: Status,
        overdue: BOOLEAN]

Idle == [op |-> "idle"]

\* What a handler may have read; attestations are never deleted.
Transaction ==
    {Idle}
    \cup [op: {"initiate"}, visit: Visits, user: Users, r1: Reviewers,
          r2: Reviewers, photo: PhotoHash]
    \cup [op: {"staff_sign"}, att: DOMAIN attestations, photo: PhotoHash, payload: Payload]
    \cup [op: {"reviewer_sign"}, att: DOMAIN attestations, reviewer: Reviewers,
          payload: Payload, both: BOOLEAN]
    \cup [op: {"reject"}, att: DOMAIN attestations, reviewer: Reviewers]

Assigned(a) == {attestations[a].r1, attestations[a].r2}

\* The canonical bytes signed for attestation a with this photo hash.
attestation_payload(a, photo) == [att |-> a, photo |-> photo]

\* The signature stored for a reviewer of a, on the visit of a.
SigOf(a, r) == sigs[<<attestations[a].visit, r>>]

SetStatus(a, status) ==
    attestations' = [attestations EXCEPT ![a].status = status]

EndTx(s) == tx' = [tx EXCEPT ![s] = Idle]

-----------------------------------------------------------------------------
Init ==
    /\ openVisits = Visits
    /\ userStatus = [u \in Users |-> "presence_confirmed"]
    /\ attestations = [a \in {} |-> NoSig]
    /\ nextId = 1
    /\ assignmentLog = {}
    /\ sigs = [slot \in Slot |-> NoSig]
    /\ recent = {}
    /\ attempts = [a \in AttIds |-> [approved |-> 0, rejected |-> 0]]
    /\ tx = [s \in Sessions |-> Idle]

-----------------------------------------------------------------------------
(* initiate_attestation                                                    *)

\* On how many visits the pair co-signed, the first signature this week.
Cosigns(r1, r2) ==
    Cardinality({v \in Visits : <<v, r1>> \in recent /\ sigs[<<v, r2>>] # NoSig})

\* Slip: the inner loop of the pairing starts at i instead of i + 1.
OpenPairsWithSelf(candidates) ==
    {p \in candidates \X candidates :
        p[1] <= p[2] /\ Cosigns(p[1], p[2]) <= CosignLimit}

\* The ordered candidate pairs under the co-sign collusion limit.
OpenPairs(candidates) ==
    {p \in candidates \X candidates :
        p[1] < p[2] /\ Cosigns(p[1], p[2]) <= CosignLimit}

\* The nested loop over candidates ORDER BY user_id returns the first one.
IsFirstPair(p, pairs) ==
    /\ p \in pairs
    /\ \A q \in pairs : p[1] < q[1] \/ (p[1] = q[1] /\ p[2] <= q[2])

InitiateRead(s, v, u, photo, candidates) ==
    /\ tx[s] = Idle
    /\ nextId <= MaxAtt
    /\ v \in openVisits
    /\ userStatus[u] = "presence_confirmed"
    /\ \A a \in DOMAIN attestations :
          attestations[a].visit = v /\ attestations[a].user = u
             => attestations[a].status = "rejected"
    /\ \E p \in candidates \X candidates :
          /\ IsFirstPair(p, OpenPairs(candidates))
          /\ tx' = [tx EXCEPT ![s] =
                       [op |-> "initiate", visit |-> v, user |-> u,
                        r1 |-> p[1], r2 |-> p[2], photo |-> photo]]
    /\ UNCHANGED db

NewRow(t) ==
    [visit |-> t.visit, user |-> t.user, r1 |-> t.r1, r2 |-> t.r2,
     photo |-> t.photo, staffSig |-> NoSig, status |-> "pending",
     overdue |-> FALSE]

\* Slip: the log loses its UNIQUE key.
LogAcceptsAll(v, r1, r2) == TRUE

\* UNIQUE (visit_id, reviewer_id): one log row per visit and reviewer.
LogAccepts(v, r1, r2) ==
    <<v, r1>> \notin assignmentLog /\ <<v, r2>> \notin assignmentLog

\* Trigger bf_prevent_double_attestation, BEFORE INSERT.
TriggerAccepts(u) == userStatus[u] # "attested"

\* The insert, both log rows and the commit succeed.
InitiateCommit(s) ==
    LET t == tx[s] IN
    /\ t.op = "initiate"
    /\ nextId <= MaxAtt
    /\ TriggerAccepts(t.user)
    /\ LogAccepts(t.visit, t.r1, t.r2)
    /\ attestations' = [a \in DOMAIN attestations \cup {nextId} |->
                           IF a = nextId THEN NewRow(t) ELSE attestations[a]]
    /\ assignmentLog' = assignmentLog \cup {<<t.visit, t.r1>>, <<t.visit, t.r2>>}
    /\ nextId' = nextId + 1
    /\ EndTx(s)
    /\ UNCHANGED <<openVisits, userStatus, sigs, recent, attempts>>

\* A log insert fails on the UNIQUE constraint.  `let _ =` drops the error,
\* but the transaction is aborted: COMMIT rolls it back, and the answer is 201.
InitiateLost(s) ==
    LET t == tx[s] IN
    /\ t.op = "initiate"
    /\ nextId <= MaxAtt
    /\ TriggerAccepts(t.user)
    /\ ~LogAccepts(t.visit, t.r1, t.r2)
    /\ nextId' = nextId + 1
    /\ EndTx(s)
    /\ UNCHANGED <<openVisits, userStatus, attestations, assignmentLog, sigs,
                   recent, attempts>>

\* The trigger raises, create_attestation fails, the handler answers an error.
InitiateRefused(s) ==
    /\ tx[s].op = "initiate"
    /\ nextId <= MaxAtt
    /\ ~TriggerAccepts(tx[s].user)
    /\ nextId' = nextId + 1
    /\ EndTx(s)
    /\ UNCHANGED <<openVisits, userStatus, attestations, assignmentLog, sigs,
                   recent, attempts>>

-----------------------------------------------------------------------------
(* Row locks                                                               *)

\* Slip: reviewer_sign reads without FOR UPDATE.
RowNeverLocked(a) == TRUE

\* No open reviewer_sign holds the FOR UPDATE lock on attestation a.
RowFree(a) ==
    \A s \in Sessions : ~(tx[s].op = "reviewer_sign" /\ tx[s].att = a)

-----------------------------------------------------------------------------
(* staff_sign                                                              *)

\* Plain read; photo = NoPhoto when the request does not override the hash.
StaffSignRead(s, a, photo) ==
    LET evidence == IF photo = NoPhoto THEN attestations[a].photo ELSE photo IN
    /\ tx[s] = Idle
    /\ attestations[a].status = "pending"
    /\ tx' = [tx EXCEPT ![s] =
                 [op |-> "staff_sign", att |-> a, photo |-> photo,
                  payload |-> attestation_payload(a, evidence)]]
    /\ UNCHANGED db

\* The columns the UPDATE sets; photo_hash = COALESCE($3, photo_hash).
StaffSigned(row, t) ==
    [row EXCEPT !.status = "co_sign_pending", !.staffSig = t.payload,
                !.photo = IF t.photo = NoPhoto THEN row.photo ELSE t.photo,
                !.overdue = FALSE]

\* UPDATE ... WHERE id = $1, whatever the status is by now.
StaffSignCommit(s) ==
    LET t == tx[s] IN
    /\ t.op = "staff_sign"
    /\ RowFree(t.att)
    /\ attestations' = [attestations EXCEPT ![t.att] = StaffSigned(@, t)]
    /\ EndTx(s)
    /\ UNCHANGED <<openVisits, userStatus, nextId, assignmentLog, sigs, recent,
                   attempts>>

-----------------------------------------------------------------------------
(* reviewer_sign                                                           *)

\* Slip: ON CONFLICT DO UPDATE.
AlwaysUnsigned(a, r) == TRUE

\* INSERT ... ON CONFLICT (visit_id, reviewer_id) DO NOTHING inserts a row.
NotYetSigned(a, r) == SigOf(a, r) = NoSig

\* Slip: the aggregated re-verification is dropped as redundant.
NoAggregateCheck(a, r, payload) == TRUE

\* The signatures stored for the other reviewers of a are over this payload.
AggregateVerifies(a, r, payload) ==
    \A q \in Assigned(a) \ {r} : SigOf(a, q) \in {NoSig, payload}

\* Slip: the row count of check_both_reviewers_signed is not tested.
OtherAlwaysSigned(a, r) == TRUE

\* check_both_reviewers_signed, once r has signed.
OtherSigned(a, r) == \A q \in Assigned(a) \ {r} : SigOf(a, q) # NoSig

\* Lock the row, check, verify, insert the signature, look for the other one.
ReviewerSignRead(s, a, r) ==
    LET payload == attestation_payload(a, attestations[a].photo) IN
    /\ tx[s] = Idle
    /\ RowFree(a)
    /\ attestations[a].status = "co_sign_pending"
    /\ r \in Assigned(a)
    /\ ~attestations[a].overdue
    /\ NotYetSigned(a, r)
    /\ AggregateVerifies(a, r, payload)
    /\ tx' = [tx EXCEPT ![s] =
                 [op |-> "reviewer_sign", att |-> a, reviewer |-> r,
                  payload |-> payload,
                  both |-> OtherSigned(a, r)]]
    /\ UNCHANGED db

StoreSignature(t) ==
    LET slot == <<attestations[t.att].visit, t.reviewer>> IN
    /\ sigs' = [sigs EXCEPT ![slot] = t.payload]
    /\ recent' = recent \cup {slot}

\* The other reviewer has not signed: only the signature is committed.
ReviewerSignFirst(s) ==
    LET t == tx[s] IN
    /\ t.op = "reviewer_sign"
    /\ ~t.both
    /\ StoreSignature(t)
    /\ EndTx(s)
    /\ UNCHANGED <<openVisits, userStatus, attestations, nextId, assignmentLog,
                   attempts>>

\* Both have signed: approve, promote the user, record the attempt.
ReviewerSignSecond(s) ==
    LET t == tx[s] IN
    /\ t.op = "reviewer_sign"
    /\ t.both
    /\ StoreSignature(t)
    /\ SetStatus(t.att, "approved")
    /\ userStatus' = [userStatus EXCEPT ![attestations[t.att].user] = "attested"]
    /\ attempts' = [attempts EXCEPT ![t.att].approved = @ + 1]
    /\ EndTx(s)
    /\ UNCHANGED <<openVisits, nextId, assignmentLog>>

-----------------------------------------------------------------------------
(* reject_attestation                                                      *)

\* Plain read: nothing keeps the row as it was read.
RejectRead(s, a, r) ==
    /\ tx[s] = Idle
    /\ attestations[a].status \in {"pending", "co_sign_pending"}
    /\ r \in Assigned(a)
    /\ tx' = [tx EXCEPT ![s] = [op |-> "reject", att |-> a, reviewer |-> r]]
    /\ UNCHANGED db

RejectCommit(s) ==
    LET t == tx[s] IN
    /\ t.op = "reject"
    /\ RowFree(t.att)
    /\ SetStatus(t.att, "rejected")
    /\ userStatus' = [userStatus EXCEPT
                         ![attestations[t.att].user] = "presence_confirmed"]
    /\ attempts' = [attempts EXCEPT ![t.att].rejected = @ + 1]
    /\ EndTx(s)
    /\ UNCHANGED <<openVisits, nextId, assignmentLog, sigs, recent>>

-----------------------------------------------------------------------------
(* The environment                                                         *)

\* The request is dropped, the process stops or the connection is lost.
Rollback(s) ==
    /\ tx[s] # Idle
    /\ EndTx(s)
    /\ UNCHANGED db

\* Forty-eight hours have passed since staff_sign.
DeadlinePasses(a) ==
    /\ attestations[a].status = "co_sign_pending"
    /\ ~attestations[a].overdue
    /\ attestations' = [attestations EXCEPT ![a].overdue = TRUE]
    /\ UNCHANGED <<openVisits, userStatus, nextId, assignmentLog, sigs, recent,
                   attempts, tx>>

\* Seven days have passed since the last signature.
WeekPasses ==
    /\ recent # {}
    /\ recent' = {}
    /\ UNCHANGED <<openVisits, userStatus, attestations, nextId, assignmentLog,
                   sigs, attempts, tx>>

\* The visit is completed or cancelled (module staff).
VisitEnds(v) ==
    /\ v \in openVisits
    /\ openVisits' = openVisits \ {v}
    /\ UNCHANGED <<userStatus, attestations, nextId, assignmentLog, sigs, recent,
                   attempts, tx>>

-----------------------------------------------------------------------------
Handler(s) ==
    \/ \E v \in Visits, u \in Users, photo \in PhotoHash, c \in Rosters :
          InitiateRead(s, v, u, photo, c \ {StaffOf[v]})
    \/ InitiateCommit(s) \/ InitiateLost(s) \/ InitiateRefused(s)
    \/ \E a \in DOMAIN attestations, photo \in PhotoHash : StaffSignRead(s, a, photo)
    \/ StaffSignCommit(s)
    \/ \E a \in DOMAIN attestations, r \in Reviewers :
          ReviewerSignRead(s, a, r) \/ RejectRead(s, a, r)
    \/ ReviewerSignFirst(s) \/ ReviewerSignSecond(s)
    \/ RejectCommit(s)
    \/ Rollback(s)

Environment ==
    \/ \E a \in DOMAIN attestations : DeadlinePasses(a)
    \/ WeekPasses
    \/ \E v \in Visits : VisitEnds(v)

Next == (\E s \in Sessions : Handler(s)) \/ Environment

Spec == Init /\ [][Next]_vars

-----------------------------------------------------------------------------
(* Properties                                                              *)

\* Every variable keeps its type, and every row the CHECK constraints of the
\* schema: the two reviewers of an attestation differ, ids come from the sequence.
TypeOK ==
    /\ openVisits \subseteq Visits
    /\ userStatus \in [Users -> UserStatus]
    /\ nextId \in 1 .. (MaxAtt + 1)
    /\ DOMAIN attestations \subseteq 1 .. (nextId - 1)
    /\ attestations \in [DOMAIN attestations -> Row]
    /\ assignmentLog \subseteq Slot
    /\ sigs \in [Slot -> Payload \cup {NoSig}]
    /\ recent \subseteq Slot
    /\ attempts \in [AttIds -> [approved: Nat, rejected: Nat]]
    /\ tx \in [Sessions -> Transaction]

BothSigned(a) == \A r \in Assigned(a) : SigOf(a, r) # NoSig

\* An approved attestation carries two co-signatures over exactly the row that
\* is stored now, whatever staff_sign and reject requests raced the reviewers:
\* the aggregated verification of reviewer_sign can be replayed at any time.
ApprovedIsCosigned ==
    \A a \in DOMAIN attestations :
        attestations[a].status = "approved" =>
            \A r \in Assigned(a) :
                SigOf(a, r) = attestation_payload(a, attestations[a].photo)

CosignedFor(u) ==
    \E a \in DOMAIN attestations, photo \in PhotoHash :
        /\ attestations[a].user = u
        /\ \A r \in Assigned(a) : SigOf(a, r) = attestation_payload(a, photo)

\* Nobody is attested without an attestation of theirs whose two reviewers
\* signed one and the same evidence.
AttestedIsCosigned ==
    \A u \in Users : userStatus[u] = "attested" => CosignedFor(u)

\* visit_signatures is keyed by visit and reviewer, not by attestation: this is
\* sound only because a reviewer serves at most one attestation of a visit.
ReviewerServesOneAttestation ==
    \A a, b \in DOMAIN attestations :
        a # b /\ attestations[a].visit = attestations[b].visit
            => Assigned(a) \cap Assigned(b) = {}

\* The attempt history holds one approval of an attestation once both of its
\* reviewers have signed, and none before: two reviewers signing at once never
\* leave it unapproved, and it is never approved twice.
ApprovedOnceBothSigned ==
    \A a \in AttIds :
        attempts[a].approved =
            IF a \in DOMAIN attestations /\ BothSigned(a) THEN 1 ELSE 0

\* The workflow implements the two-person rule: dossiers are the persisted
\* attestations, consents the stored signatures.
Rule == INSTANCE TwoPersonRule WITH
    DossierIds <- AttIds,
    Subjects <- Users,
    Judges <- Reviewers,
    Evidence <- PhotoHash,
    dossiers <- {[id |-> a, subject |-> attestations[a].user,
                  judges |-> Assigned(a)] : a \in DOMAIN attestations},
    consents <- {[dossier |-> sigs[x].att, judge |-> x[2],
                  evidence |-> sigs[x].photo] : x \in {y \in Slot : sigs[y] # NoSig}},
    attested <- {u \in Users : userStatus[u] = "attested"}

\* Every step of the handlers is a step of the two-person rule or leaves its
\* state alone.
ImplementsTwoPersonRule == Rule!Spec

-----------------------------------------------------------------------------
(* What the repository says of itself and the handlers do not keep         *)

-----------------------------------------------------------------------------
(* The inductive invariant                                                 *)

\* The log covers every assignment, so that its UNIQUE key protects them.
LogCoversAssignments ==
    \A a \in DOMAIN attestations : \A r \in Assigned(a) :
        <<attestations[a].visit, r>> \in assignmentLog

\* A stored signature belongs to an attestation of that visit, and its signer
\* is one of the two reviewers.
SignersAreAssigned ==
    \A v \in Visits, r \in Reviewers : sigs[<<v, r>>] # NoSig =>
        /\ sigs[<<v, r>>].att \in DOMAIN attestations
        /\ attestations[sigs[<<v, r>>].att].visit = v
        /\ r \in Assigned(sigs[<<v, r>>].att)

\* While reviewer_sign is open, what it read is still so.
SignIsFresh(t) ==
    /\ t.reviewer \in Assigned(t.att)
    /\ attestations[t.att].status = "co_sign_pending"
    /\ t.payload = attestation_payload(t.att, attestations[t.att].photo)
    /\ NotYetSigned(t.att, t.reviewer)
    /\ \A q \in Assigned(t.att) \ {t.reviewer} :
          SigOf(t.att, q) = IF t.both THEN t.payload ELSE NoSig

OpenSignIsFresh ==
    \A s \in Sessions : tx[s].op = "reviewer_sign" => SignIsFresh(tx[s])

\* The row lock is exclusive.
LockIsExclusive ==
    \A s1, s2 \in Sessions :
        /\ tx[s1].op = "reviewer_sign" /\ tx[s2].op = "reviewer_sign"
        /\ tx[s1].att = tx[s2].att
        => s1 = s2

\* CHECK reviewers_distinct, and the pairs about to be inserted.
ReviewersDiffer ==
    /\ \A a \in DOMAIN attestations : attestations[a].r1 # attestations[a].r2
    /\ \A s \in Sessions : tx[s].op = "initiate" => tx[s].r1 # tx[s].r2

IInv ==
    /\ TypeOK
    /\ ReviewersDiffer
    /\ LogCoversAssignments
    /\ ReviewerServesOneAttestation
    /\ SignersAreAssigned
    /\ LockIsExclusive
    /\ OpenSignIsFresh
    /\ ApprovedIsCosigned
    /\ AttestedIsCosigned
    /\ ApprovedOnceBothSigned
=============================================================================
