------------------------- MODULE Attestation_proofs -------------------------
(***************************************************************************)
(* Proofs about module Attestation, for every set of users, reviewers,     *)
(* visits, photos and sessions, every roster and every bound.              *)
(***************************************************************************)
EXTENDS Attestation, TLAPS

\* The rows and transactions a step writes, as the record sets they belong to.
LEMMA TxTypes ==
    ASSUME TypeOK, NEW s \in Sessions
    PROVE  /\ tx[s] \in Transaction
           /\ tx[s].op = "initiate" =>
                /\ tx[s].visit \in Visits /\ tx[s].user \in Users
                /\ tx[s].r1 \in Reviewers /\ tx[s].r2 \in Reviewers
                /\ tx[s].photo \in PhotoHash
           /\ tx[s].op = "staff_sign" =>
                /\ tx[s].att \in DOMAIN attestations /\ tx[s].photo \in PhotoHash
                /\ tx[s].payload \in Payload
           /\ tx[s].op = "reviewer_sign" =>
                /\ tx[s].att \in DOMAIN attestations /\ tx[s].reviewer \in Reviewers
                /\ tx[s].payload \in Payload /\ tx[s].both \in BOOLEAN
           /\ tx[s].op = "reject" =>
                tx[s].att \in DOMAIN attestations /\ tx[s].reviewer \in Reviewers
  <1>1. tx[s] \in Transaction
    BY DEF TypeOK
  <1>2. QED
    BY <1>1 DEF Transaction, Idle

\* The columns of a stored attestation.
LEMMA RowTypes ==
    ASSUME TypeOK, NEW a \in DOMAIN attestations
    PROVE  /\ a \in AttIds
           /\ attestations[a] \in Row
           /\ attestations[a].visit \in Visits
           /\ attestations[a].user \in Users
           /\ attestations[a].r1 \in Reviewers
           /\ attestations[a].r2 \in Reviewers
           /\ attestations[a].photo \in PhotoHash
           /\ attestations[a].status \in Status
           /\ attestations[a].overdue \in BOOLEAN
           /\ Assigned(a) \subseteq Reviewers
  <1>1. a \in AttIds /\ attestations[a] \in Row
    BY BoundAssumption DEF TypeOK, AttIds
  <1>2. QED
    BY <1>1 DEF Row, Assigned

\* update_attestation_staff_signed keeps the type of the row, and its key columns.
LEMMA StaffSignedRow ==
    ASSUME TypeOK, NEW s \in Sessions, NEW row \in Row, tx[s].op = "staff_sign"
    PROVE  /\ StaffSigned(row, tx[s]) \in Row
           /\ StaffSigned(row, tx[s]).visit = row.visit
           /\ StaffSigned(row, tx[s]).user = row.user
           /\ StaffSigned(row, tx[s]).r1 = row.r1
           /\ StaffSigned(row, tx[s]).r2 = row.r2
           /\ StaffSigned(row, tx[s]).status = "co_sign_pending"
  <1> DEFINE photo == IF tx[s].photo = NoPhoto THEN row.photo ELSE tx[s].photo
  <1>1. photo \in PhotoHash /\ tx[s].payload \in Payload
    BY TxTypes DEF Row
  <1>2. StaffSigned(row, tx[s]) =
          [row EXCEPT !.status = "co_sign_pending", !.staffSig = tx[s].payload,
                      !.photo = photo, !.overdue = FALSE]
    BY DEF StaffSigned
  <1>3. "co_sign_pending" \in Status
    BY DEF Status
  <1> HIDE DEF photo
  <1>4. StaffSigned(row, tx[s]) \in Row
    BY <1>1, <1>2, <1>3, ZenonT(60) DEF Row
  <1>5. QED
    BY <1>2, <1>4, ZenonT(60) DEF Row

\* set_rejected and approve_attestation touch one column of one row.
LEMMA SetStatusTypes ==
    ASSUME TypeOK, NEW a, NEW status \in Status, SetStatus(a, status)
    PROVE  /\ DOMAIN attestations' = DOMAIN attestations
           /\ attestations' \in [DOMAIN attestations' -> Row]
  <1>1. \A b \in DOMAIN attestations :
           [attestations[b] EXCEPT !.status = status] \in Row
    BY RowTypes DEF Row
  <1>2. QED
    BY <1>1 DEF SetStatus, TypeOK

\* record_attempt adds one row to the history.
LEMMA AttemptTypes ==
    ASSUME NEW n \in [approved: Nat, rejected: Nat]
    PROVE  /\ [n EXCEPT !.approved = @ + 1] \in [approved: Nat, rejected: Nat]
           /\ [n EXCEPT !.rejected = @ + 1] \in [approved: Nat, rejected: Nat]
  OBVIOUS

-----------------------------------------------------------------------------
(* Type correctness                                                        *)

\* The empty database is well typed.
LEMMA InitTypeOK == Init => TypeOK
  BY BoundAssumption, NoSigAssumption
     DEF Init, TypeOK, AttIds, UserStatus, Slot, Transaction, Idle, Payload

\* A Read step only fills in the transaction's own record.
LEMMA ReadTypeOK ==
    ASSUME TypeOK, NEW s \in Sessions, NEW t \in Transaction,
           tx' = [tx EXCEPT ![s] = t], UNCHANGED db
    PROVE  TypeOK'
  BY DEF TypeOK, db, Transaction

\* Open transactions keep valid ids: rows are never deleted.
LEMMA EndTxTypeOK ==
    ASSUME TypeOK, (\E s \in Sessions : EndTx(s)) \/ UNCHANGED tx,
           DOMAIN attestations \subseteq DOMAIN attestations'
    PROVE  tx' \in [Sessions -> Transaction']
  <1>1. \A t \in Transaction : t \in Transaction'
    BY DEF Transaction, Idle
  <1>2. Idle \in Transaction'
    BY DEF Transaction
  <1>3. QED
    BY <1>1, <1>2 DEF TypeOK, EndTx

\* A reviewer's signature goes to a slot of the visit's signature table.
LEMMA SignatureSlot ==
    ASSUME TypeOK, NEW s \in Sessions, tx[s].op = "reviewer_sign"
    PROVE  <<attestations[tx[s].att].visit, tx[s].reviewer>> \in Slot
  BY TxTypes, RowTypes DEF Slot

\* Every handler step and every step of the environment keeps the types.
LEMMA NextTypeOK == TypeOK /\ [Next]_vars => TypeOK'
  <1> SUFFICES ASSUME TypeOK, [Next]_vars
               PROVE  TypeOK'
    OBVIOUS
  <1>1. ASSUME NEW s \in Sessions, NEW v \in Visits, NEW u \in Users,
               NEW photo \in PhotoHash, NEW c \in Rosters,
               InitiateRead(s, v, u, photo, c \ {StaffOf[v]})
        PROVE  TypeOK'
    <2>1. PICK p \in c \X c :
             tx' = [tx EXCEPT ![s] =
                       [op |-> "initiate", visit |-> v, user |-> u,
                        r1 |-> p[1], r2 |-> p[2], photo |-> photo]]
      BY <1>1 DEF InitiateRead
    <2>2. p[1] \in Reviewers /\ p[2] \in Reviewers
      BY RosterAssumption
    <2>3. [op |-> "initiate", visit |-> v, user |-> u, r1 |-> p[1],
           r2 |-> p[2], photo |-> photo] \in Transaction
      BY <2>2 DEF Transaction
    <2>4. QED
      BY <1>1, <2>1, <2>3, ReadTypeOK DEF InitiateRead
  <1>2. ASSUME NEW s \in Sessions, InitiateCommit(s)
        PROVE  TypeOK'
    <2>1. NewRow(tx[s]) \in Row
      BY <1>2, TxTypes DEF InitiateCommit, NewRow, Row, Status
    <2>2. nextId \in AttIds /\ nextId' = nextId + 1 /\ nextId' \in 1 .. (MaxAtt + 1)
      BY <1>2, BoundAssumption DEF InitiateCommit, TypeOK, AttIds
    <2>3. /\ DOMAIN attestations' = DOMAIN attestations \cup {nextId}
          /\ attestations' \in [DOMAIN attestations' -> Row]
      BY <1>2, <2>1 DEF InitiateCommit, TypeOK
    <2>4. DOMAIN attestations' \subseteq 1 .. (nextId' - 1)
      BY <2>2, <2>3, BoundAssumption DEF TypeOK, AttIds
    <2>5. assignmentLog' \subseteq Slot
      BY <1>2, <2>2, TxTypes DEF InitiateCommit, TypeOK, Slot
    <2>6. tx' \in [Sessions -> Transaction']
      BY <1>2, <2>3, EndTxTypeOK DEF InitiateCommit
    <2>7. QED
      BY <1>2, <2>2, <2>3, <2>4, <2>5, <2>6 DEF InitiateCommit, TypeOK
  <1>3. ASSUME NEW s \in Sessions, InitiateLost(s) \/ InitiateRefused(s)
        PROVE  TypeOK'
    <2>1. /\ nextId \in AttIds /\ nextId' \in 1 .. (MaxAtt + 1)
          /\ DOMAIN attestations \subseteq 1 .. (nextId' - 1)
      BY <1>3, BoundAssumption DEF InitiateLost, InitiateRefused, TypeOK, AttIds
    <2>2. tx' \in [Sessions -> Transaction']
      BY <1>3, EndTxTypeOK DEF InitiateLost, InitiateRefused
    <2>3. QED
      BY <1>3, <2>1, <2>2 DEF InitiateLost, InitiateRefused, TypeOK
  <1>4. ASSUME NEW s \in Sessions, NEW a \in DOMAIN attestations,
               NEW photo \in PhotoHash, StaffSignRead(s, a, photo)
        PROVE  TypeOK'
    <2> DEFINE evidence == IF photo = NoPhoto THEN attestations[a].photo ELSE photo
    <2>1. attestation_payload(a, evidence) \in Payload
      BY RowTypes DEF attestation_payload, Payload
    <2>2. [op |-> "staff_sign", att |-> a, photo |-> photo,
           payload |-> attestation_payload(a, evidence)] \in Transaction
      BY <2>1, RowTypes DEF Transaction
    <2>3. QED
      BY <1>4, <2>2, ReadTypeOK DEF StaffSignRead
  <1>5. ASSUME NEW s \in Sessions, StaffSignCommit(s)
        PROVE  TypeOK'
    <2>2. /\ DOMAIN attestations' = DOMAIN attestations
          /\ attestations' \in [DOMAIN attestations' -> Row]
      <3>1. \A a \in DOMAIN attestations : StaffSigned(attestations[a], tx[s]) \in Row
        BY <1>5, RowTypes, StaffSignedRow DEF StaffSignCommit
      <3>2. QED
        BY <1>5, <3>1 DEF StaffSignCommit, TypeOK
    <2>1. tx' \in [Sessions -> Transaction']
      BY <1>5, <2>2, EndTxTypeOK DEF StaffSignCommit
    <2>3. QED
      BY <1>5, <2>1, <2>2 DEF StaffSignCommit, TypeOK
  <1>6. ASSUME NEW s \in Sessions, NEW a \in DOMAIN attestations,
               NEW r \in Reviewers, ReviewerSignRead(s, a, r)
        PROVE  TypeOK'
    <2> DEFINE payload == attestation_payload(a, attestations[a].photo)
    <2>1. payload \in Payload
      BY RowTypes DEF attestation_payload, Payload
    <2>2. OtherSigned(a, r) \in BOOLEAN
      BY DEF OtherSigned
    <2>3. [op |-> "reviewer_sign", att |-> a, reviewer |-> r,
           payload |-> payload, both |-> OtherSigned(a, r)] \in Transaction
      <3> HIDE DEF payload
      <3> QED BY <2>1, <2>2, RowTypes DEF Transaction
    <2>4. QED
      BY <1>6, <2>3, ReadTypeOK DEF ReviewerSignRead
  <1>7. ASSUME NEW s \in Sessions, ReviewerSignFirst(s)
        PROVE  TypeOK'
    <2>1. tx' \in [Sessions -> Transaction']
      BY <1>7, EndTxTypeOK DEF ReviewerSignFirst
    <2>2. recent' \subseteq Slot /\ sigs' \in [Slot -> Payload \cup {NoSig}]
      BY <1>7, TxTypes, SignatureSlot DEF ReviewerSignFirst, StoreSignature, TypeOK
    <2>3. QED
      BY <1>7, <2>1, <2>2 DEF ReviewerSignFirst, TypeOK
  <1>8. ASSUME NEW s \in Sessions, ReviewerSignSecond(s)
        PROVE  TypeOK'
    <2>2. recent' \subseteq Slot /\ sigs' \in [Slot -> Payload \cup {NoSig}]
      BY <1>8, TxTypes, SignatureSlot DEF ReviewerSignSecond, StoreSignature, TypeOK
    <2>3. /\ DOMAIN attestations' = DOMAIN attestations
          /\ attestations' \in [DOMAIN attestations' -> Row]
      BY <1>8, SetStatusTypes DEF ReviewerSignSecond, Status
    <2>4. /\ userStatus' \in [Users -> UserStatus]
          /\ attempts' \in [AttIds -> [approved: Nat, rejected: Nat]]
      <3>1. \A a \in AttIds :
               [attempts[a] EXCEPT !.approved = @ + 1] \in [approved: Nat, rejected: Nat]
        BY AttemptTypes DEF TypeOK
      <3>2. QED
        BY <1>8, <3>1 DEF ReviewerSignSecond, TypeOK, UserStatus
    <2>1. tx' \in [Sessions -> Transaction']
      BY <1>8, <2>3, EndTxTypeOK DEF ReviewerSignSecond
    <2>5. QED
      BY <1>8, <2>1, <2>2, <2>3, <2>4 DEF ReviewerSignSecond, TypeOK
  <1>9. ASSUME NEW s \in Sessions, NEW a \in DOMAIN attestations,
               NEW r \in Reviewers, RejectRead(s, a, r)
        PROVE  TypeOK'
    <2>1. [op |-> "reject", att |-> a, reviewer |-> r] \in Transaction
      BY RowTypes DEF Transaction
    <2>2. QED
      BY <1>9, <2>1, ReadTypeOK DEF RejectRead
  <1>10. ASSUME NEW s \in Sessions, RejectCommit(s)
         PROVE  TypeOK'
    <2>2. /\ DOMAIN attestations' = DOMAIN attestations
          /\ attestations' \in [DOMAIN attestations' -> Row]
      BY <1>10, SetStatusTypes DEF RejectCommit, Status
    <2>3. /\ userStatus' \in [Users -> UserStatus]
          /\ attempts' \in [AttIds -> [approved: Nat, rejected: Nat]]
      <3>1. \A a \in AttIds :
               [attempts[a] EXCEPT !.rejected = @ + 1] \in [approved: Nat, rejected: Nat]
        BY AttemptTypes DEF TypeOK
      <3>2. QED
        BY <1>10, <3>1 DEF RejectCommit, TypeOK, UserStatus
    <2>1. tx' \in [Sessions -> Transaction']
      BY <1>10, <2>2, EndTxTypeOK DEF RejectCommit
    <2>4. QED
      BY <1>10, <2>1, <2>2, <2>3 DEF RejectCommit, TypeOK
  <1>11. ASSUME NEW s \in Sessions, Rollback(s)
         PROVE  TypeOK'
    <2>1. Idle \in Transaction
      BY DEF Transaction
    <2>2. QED
      BY <1>11, <2>1, ReadTypeOK DEF Rollback, EndTx
  <1>12. ASSUME NEW a \in DOMAIN attestations, DeadlinePasses(a)
         PROVE  TypeOK'
    <2>1. [attestations[a] EXCEPT !.overdue = TRUE] \in Row
      BY RowTypes DEF Row
    <2>2. QED
      BY <1>12, <2>1, EndTxTypeOK DEF DeadlinePasses, TypeOK
  <1>13. CASE WeekPasses \/ (\E v \in Visits : VisitEnds(v)) \/ UNCHANGED vars
    BY <1>13, EndTxTypeOK DEF WeekPasses, VisitEnds, vars, TypeOK
  <1>14. QED
    BY <1>1, <1>2, <1>3, <1>4, <1>5, <1>6, <1>7, <1>8, <1>9, <1>10, <1>11,
       <1>12, <1>13 DEF Next, Handler, Environment

\* Every reachable state respects the types and CHECK constraints of the schema.
THEOREM TypeCorrect == Spec => []TypeOK
  BY InitTypeOK, NextTypeOK, PTL DEF Spec

-----------------------------------------------------------------------------
(* The inductive invariant                                                 *)

\* The invariant holds of the empty database with no request open.
LEMMA InitIInv == Init => IInv
  BY InitTypeOK DEF Init, IInv, ReviewersDiffer, LogCoversAssignments,
     ReviewerServesOneAttestation, SignersAreAssigned, LockIsExclusive,
     OpenSignIsFresh, ApprovedIsCosigned, AttestedIsCosigned,
     ApprovedOnceBothSigned, Slot, Idle

\* The conjuncts of IInv that speak of committed rows only.
RowsInv ==
    /\ \A a \in DOMAIN attestations : attestations[a].r1 # attestations[a].r2
    /\ LogCoversAssignments
    /\ ReviewerServesOneAttestation
    /\ SignersAreAssigned
    /\ ApprovedIsCosigned
    /\ AttestedIsCosigned
    /\ ApprovedOnceBothSigned

\* The conjuncts of IInv that speak of open transactions.
OpenInv ==
    /\ \A s \in Sessions : tx[s].op = "initiate" => tx[s].r1 # tx[s].r2
    /\ LockIsExclusive
    /\ OpenSignIsFresh

\* The invariant is its part about rows and its part about transactions.
LEMMA IInvSplit == IInv <=> TypeOK /\ RowsInv /\ OpenInv
  BY DEF IInv, RowsInv, OpenInv, ReviewersDiffer

\* The key columns of every attestation are never rewritten.
KeysKept ==
    \A a \in DOMAIN attestations :
        /\ a \in DOMAIN attestations'
        /\ attestations'[a].visit = attestations[a].visit
        /\ attestations'[a].user = attestations[a].user
        /\ attestations'[a].r1 = attestations[a].r1
        /\ attestations'[a].r2 = attestations[a].r2

\* A stored signature is never replaced.
SigsKept == \A x \in Slot : sigs[x] # NoSig => sigs'[x] = sigs[x]

\* Once co-signed, always co-signed: neither rows nor signatures go away.
LEMMA CosignedStays ==
    ASSUME TypeOK, KeysKept, SigsKept, NEW u, CosignedFor(u)
    PROVE  CosignedFor(u)'
  <1>1. PICK a \in DOMAIN attestations, photo \in PhotoHash :
           /\ attestations[a].user = u
           /\ \A r \in Assigned(a) : SigOf(a, r) = attestation_payload(a, photo)
    BY DEF CosignedFor
  <1>2. a \in DOMAIN attestations' /\ attestations'[a].user = u
    BY <1>1 DEF KeysKept
  <1>3. ASSUME NEW r \in Assigned(a)'
        PROVE  SigOf(a, r)' = attestation_payload(a, photo)
    <2>1. r \in Assigned(a) /\ attestations'[a].visit = attestations[a].visit
      BY <1>3 DEF KeysKept, Assigned
    <2>2. <<attestations[a].visit, r>> \in Slot
      BY <2>1, RowTypes DEF Slot
    <2>3. attestation_payload(a, photo) \in Payload
      BY RowTypes DEF attestation_payload, Payload
    <2>4. SigOf(a, r) = attestation_payload(a, photo) /\ SigOf(a, r) # NoSig
      BY <1>1, <2>1, <2>3, NoSigAssumption
    <2>5. QED
      BY <2>1, <2>2, <2>4 DEF SigsKept, SigOf
  <1>4. QED
    BY <1>2, <1>3 DEF CosignedFor, attestation_payload

\* Steps that commit nothing keep what is said of committed rows.
LEMMA RowsUntouched ==
    ASSUME TypeOK, RowsInv,
           UNCHANGED <<userStatus, attestations, assignmentLog, sigs, attempts>>
    PROVE  RowsInv'
  <1>1. /\ LogCoversAssignments'
        /\ ReviewerServesOneAttestation'
        /\ \A a \in DOMAIN attestations' : attestations'[a].r1 # attestations'[a].r2
    BY DEF RowsInv, LogCoversAssignments, ReviewerServesOneAttestation, Assigned
  <1>2. SignersAreAssigned'
    BY DEF RowsInv, SignersAreAssigned, Assigned
  <1>3. ApprovedIsCosigned'
    BY DEF RowsInv, ApprovedIsCosigned, Assigned, SigOf, attestation_payload
  <1>4. AttestedIsCosigned'
    <2>1. KeysKept /\ SigsKept
      BY DEF KeysKept, SigsKept
    <2>2. QED
      BY <2>1, CosignedStays, NoSigAssumption DEF RowsInv, AttestedIsCosigned
  <1>5. ApprovedOnceBothSigned'
    BY DEF RowsInv, ApprovedOnceBothSigned, BothSigned, Assigned, SigOf
  <1>6. QED
    BY <1>1, <1>2, <1>3, <1>4, <1>5 DEF RowsInv

\* What an open reviewer_sign read stays so while its row and the signatures
\* of its two reviewers do.
LEMMA StaysFresh ==
    ASSUME NEW t, SignIsFresh(t), t.att \in DOMAIN attestations, KeysKept,
           attestations'[t.att].status = attestations[t.att].status,
           attestations'[t.att].photo = attestations[t.att].photo,
           \A q \in Assigned(t.att) : SigOf(t.att, q)' = SigOf(t.att, q)
    PROVE  SignIsFresh(t)'
  <1>1. Assigned(t.att)' = Assigned(t.att)
    BY DEF KeysKept, Assigned
  <1>2. t.reviewer \in Assigned(t.att)
    BY DEF SignIsFresh
  <1>3. NotYetSigned(t.att, t.reviewer)'
    BY <1>2 DEF SignIsFresh, NotYetSigned
  <1>4. \A q \in Assigned(t.att)' \ {t.reviewer} :
           SigOf(t.att, q)' = IF t.both THEN t.payload ELSE NoSig
    BY <1>1 DEF SignIsFresh
  <1>5. QED
    BY <1>1, <1>2, <1>3, <1>4 DEF SignIsFresh, attestation_payload

\* A step that takes no row lock keeps OpenInv, if it leaves alone the row and
\* the signatures of whatever stays locked.
LEMMA OthersStayFresh ==
    ASSUME OpenInv, TypeOK, KeysKept, NEW t,
           t.op # "reviewer_sign", t.op = "initiate" => t.r1 # t.r2,
           \A o \in Sessions : tx'[o] = tx[o] \/ tx'[o] = t,
           \A o \in Sessions : tx'[o] = tx[o] /\ tx[o].op = "reviewer_sign" =>
               /\ attestations'[tx[o].att].status = attestations[tx[o].att].status
               /\ attestations'[tx[o].att].photo = attestations[tx[o].att].photo
               /\ \A q \in Assigned(tx[o].att) :
                     sigs'[<<attestations[tx[o].att].visit, q>>]
                       = sigs[<<attestations[tx[o].att].visit, q>>]
    PROVE  OpenInv'
  <1>2. LockIsExclusive'
    BY DEF OpenInv, LockIsExclusive
  <1>3. ASSUME NEW o \in Sessions, (tx[o].op)' = "reviewer_sign"
        PROVE  SignIsFresh(tx[o])'
    <2>1. tx'[o] = tx[o] /\ tx[o].op = "reviewer_sign"
      BY <1>3
    <2>2. PICK read : read = tx[o] /\ read = tx'[o]
      BY <2>1
    <2>3. read.att \in DOMAIN attestations /\ SignIsFresh(read)
      BY <2>1, <2>2, TxTypes DEF OpenInv, OpenSignIsFresh
    <2>4. \A q \in Assigned(read.att) : SigOf(read.att, q)' = SigOf(read.att, q)
      BY <2>1, <2>2, <2>3 DEF SigOf, KeysKept
    <2>5. SignIsFresh(read)'
      BY <2>1, <2>2, <2>3, <2>4, StaysFresh
    <2>6. QED
      BY <2>2, <2>5 DEF SignIsFresh, Assigned, NotYetSigned, SigOf, attestation_payload
  <1>4. QED
    BY <1>2, <1>3 DEF OpenInv, OpenSignIsFresh

-----------------------------------------------------------------------------
(* One lemma per kind of step                                              *)

\* The plain reads and the rollback commit nothing and lock nothing.
LEMMA PlainReadKeepsIInv ==
    ASSUME IInv, NEW s \in Sessions, NEW t, tx' = [tx EXCEPT ![s] = t],
           UNCHANGED db, t.op # "reviewer_sign", t.op = "initiate" => t.r1 # t.r2
    PROVE  RowsInv' /\ OpenInv'
  <1>1. TypeOK /\ RowsInv /\ OpenInv /\ KeysKept
    BY IInvSplit DEF KeysKept, db
  <1>2. RowsInv'
    BY <1>1, RowsUntouched DEF db
  <1>3. OpenInv'
    <2>1. \A o \in Sessions : tx'[o] = tx[o] \/ tx'[o] = t
      BY <1>1 DEF TypeOK
    <2>2. QED
      BY <1>1, <2>1, OthersStayFresh DEF db
  <1>4. QED
    BY <1>2, <1>3

\* reviewer_sign takes the lock of a free row and reads it afterwards.
LEMMA ReviewerSignReadKeepsIInv ==
    ASSUME IInv, NEW s \in Sessions, NEW a \in DOMAIN attestations,
           NEW r \in Reviewers, ReviewerSignRead(s, a, r)
    PROVE  RowsInv' /\ OpenInv'
  <1>1. TypeOK /\ RowsInv /\ OpenInv /\ UNCHANGED db
    BY IInvSplit DEF ReviewerSignRead
  <1>2. RowsInv'
    BY <1>1, RowsUntouched DEF db
  <1> DEFINE payload == attestation_payload(a, attestations[a].photo)
  <1> DEFINE t == [op |-> "reviewer_sign", att |-> a, reviewer |-> r,
                   payload |-> payload, both |-> OtherSigned(a, r)]
  <1>3. tx'[s] = t /\ \A o \in Sessions \ {s} : tx'[o] = tx[o]
    BY <1>1 DEF ReviewerSignRead, TypeOK
  <1>4. LockIsExclusive'
    BY <1>1, <1>3 DEF ReviewerSignRead, RowFree, OpenInv, LockIsExclusive
  <1>5. SignIsFresh(t)
    <2>1. \A q \in Assigned(a) \ {r} :
             SigOf(a, q) = IF OtherSigned(a, r) THEN payload ELSE NoSig
      <3>1. CASE OtherSigned(a, r)
        BY <3>1 DEF ReviewerSignRead, AggregateVerifies, OtherSigned
      <3>2. CASE ~OtherSigned(a, r)
        <4>1. PICK q \in Assigned(a) \ {r} : SigOf(a, q) = NoSig
          BY <3>2 DEF OtherSigned
        <4>2. Assigned(a) \ {r} = {q}
          BY <4>1 DEF ReviewerSignRead, Assigned
        <4>3. QED
          BY <3>2, <4>1, <4>2
      <3>3. QED
        BY <3>1, <3>2
    <2>2. QED
      BY <2>1 DEF SignIsFresh, ReviewerSignRead
  <1>6. ASSUME NEW o \in Sessions, (tx[o].op)' = "reviewer_sign"
        PROVE  SignIsFresh(tx[o])'
    <2>1. PICK read : read = tx'[o] /\ SignIsFresh(read)
      BY <1>1, <1>3, <1>5, <1>6 DEF OpenInv, OpenSignIsFresh
    <2>2. QED
      BY <1>1, <2>1 DEF db, SignIsFresh, Assigned, NotYetSigned, SigOf,
         attestation_payload
  <1>7. \A o \in Sessions : (tx[o].op)' = "initiate" => tx'[o].r1 # tx'[o].r2
    BY <1>1, <1>3 DEF OpenInv
  <1>8. QED
    BY <1>2, <1>4, <1>6, <1>7 DEF OpenInv, OpenSignIsFresh

\* Rewriting columns of one row that are no keys, without approving it.
LEMMA RowUpdate ==
    ASSUME TypeOK, RowsInv, NEW a \in DOMAIN attestations, NEW row,
           attestations' = [attestations EXCEPT ![a] = row],
           row.visit = attestations[a].visit, row.user = attestations[a].user,
           row.r1 = attestations[a].r1, row.r2 = attestations[a].r2,
           row.status = "approved" =>
              attestations[a].status = "approved" /\ row.photo = attestations[a].photo,
           \A u \in Users : userStatus'[u] = "attested" => userStatus[u] = "attested",
           \A b \in AttIds : attempts'[b].approved = attempts[b].approved,
           UNCHANGED <<assignmentLog, sigs>>
    PROVE  KeysKept /\ RowsInv'
  <1>1. /\ DOMAIN attestations' = DOMAIN attestations
        /\ \A b \in DOMAIN attestations :
              attestations'[b] = IF b = a THEN row ELSE attestations[b]
    BY DEF TypeOK
  <1>2. KeysKept /\ SigsKept
    BY <1>1 DEF KeysKept, SigsKept
  <1>3. \A b \in DOMAIN attestations :
           /\ Assigned(b)' = Assigned(b)
           /\ \A r : SigOf(b, r)' = SigOf(b, r)
    BY <1>2 DEF KeysKept, Assigned, SigOf
  <1>4. /\ LogCoversAssignments' /\ ReviewerServesOneAttestation'
        /\ \A b \in DOMAIN attestations' : attestations'[b].r1 # attestations'[b].r2
    BY <1>1, <1>2, <1>3 DEF RowsInv, KeysKept, LogCoversAssignments,
       ReviewerServesOneAttestation
  <1>5. SignersAreAssigned'
    BY <1>1, <1>2, <1>3 DEF RowsInv, KeysKept, SignersAreAssigned
  <1>6. ApprovedIsCosigned'
    BY <1>1, <1>3 DEF RowsInv, ApprovedIsCosigned, attestation_payload
  <1>7. AttestedIsCosigned'
    BY <1>2, CosignedStays, NoSigAssumption DEF RowsInv, AttestedIsCosigned
  <1>8. ApprovedOnceBothSigned'
    BY <1>1, <1>3 DEF RowsInv, ApprovedOnceBothSigned, BothSigned
  <1>9. QED
    BY <1>2, <1>4, <1>5, <1>6, <1>7, <1>8 DEF RowsInv

\* staff_sign and reject write a row nobody holds locked.
LEMMA WriteKeepsOpenInv ==
    ASSUME TypeOK, OpenInv, KeysKept, NEW s \in Sessions, EndTx(s),
           UNCHANGED sigs, RowFree(tx[s].att),
           \A b \in DOMAIN attestations :
              b # tx[s].att => attestations'[b] = attestations[b]
    PROVE  OpenInv'
  <1>1. \A o \in Sessions : tx'[o] = tx[o] \/ tx'[o] = Idle
    BY DEF TypeOK, EndTx
  <1>2. \A o \in Sessions : tx[o].op = "reviewer_sign" =>
           attestations'[tx[o].att] = attestations[tx[o].att]
    BY TxTypes DEF RowFree
  <1>3. QED
    BY <1>1, <1>2, OthersStayFresh DEF Idle

\* staff_sign, however stale, rewrites no key and approves nothing.
LEMMA StaffSignCommitKeepsIInv ==
    ASSUME IInv, NEW s \in Sessions, StaffSignCommit(s)
    PROVE  RowsInv' /\ OpenInv'
  <1>1. TypeOK /\ RowsInv /\ OpenInv
    BY IInvSplit
  <1> DEFINE a == tx[s].att
  <1> DEFINE row == StaffSigned(attestations[a], tx[s])
  <1>2. a \in DOMAIN attestations /\ tx[s].op = "staff_sign"
    BY <1>1, TxTypes DEF StaffSignCommit
  <1>3. /\ row.visit = attestations[a].visit /\ row.user = attestations[a].user
        /\ row.r1 = attestations[a].r1 /\ row.r2 = attestations[a].r2
        /\ row.status = "co_sign_pending"
    BY <1>1, <1>2, RowTypes, StaffSignedRow
  <1>4. attestations' = [attestations EXCEPT ![a] = row]
    BY DEF StaffSignCommit
  <1> HIDE DEF row
  <1>5. KeysKept /\ RowsInv'
    BY <1>1, <1>2, <1>3, <1>4, RowUpdate DEF StaffSignCommit
  <1>6. OpenInv'
    BY <1>1, <1>4, <1>5, WriteKeepsOpenInv DEF StaffSignCommit, TypeOK
  <1>7. QED
    BY <1>5, <1>6

\* set_rejected and approve_attestation leave the other columns as they are.
LEMMA SetStatusRow ==
    ASSUME TypeOK, NEW a \in DOMAIN attestations, NEW status,
           SetStatus(a, status)
    PROVE  /\ attestations' = [attestations EXCEPT ![a] = attestations'[a]]
           /\ attestations'[a].status = status
           /\ attestations'[a].visit = attestations[a].visit
           /\ attestations'[a].user = attestations[a].user
           /\ attestations'[a].r1 = attestations[a].r1
           /\ attestations'[a].r2 = attestations[a].r2
           /\ attestations'[a].photo = attestations[a].photo
  <1>1. attestations[a] \in Row
    BY RowTypes
  <1>2. attestations'[a] = [attestations[a] EXCEPT !.status = status]
    BY DEF SetStatus, TypeOK
  <1>3. attestations' = [attestations EXCEPT ![a] = attestations'[a]]
    BY <1>2 DEF SetStatus
  <1>4. QED
    BY <1>1, <1>2, <1>3 DEF Row

\* reject, however stale, only ever takes an approval away.
LEMMA RejectCommitKeepsIInv ==
    ASSUME IInv, NEW s \in Sessions, RejectCommit(s)
    PROVE  RowsInv' /\ OpenInv'
  <1>1. TypeOK /\ RowsInv /\ OpenInv
    BY IInvSplit
  <1> DEFINE a == tx[s].att
  <1>2. a \in DOMAIN attestations /\ SetStatus(a, "rejected")
    BY <1>1, TxTypes DEF RejectCommit
  <1>3. /\ \A u \in Users : userStatus'[u] = "attested" => userStatus[u] = "attested"
        /\ \A b \in AttIds : attempts'[b].approved = attempts[b].approved
    BY <1>1 DEF RejectCommit, TypeOK
  <1>4. KeysKept /\ RowsInv'
    BY <1>1, <1>2, <1>3, SetStatusRow, RowUpdate DEF RejectCommit
  <1>5. OpenInv'
    BY <1>1, <1>2, <1>4, WriteKeepsOpenInv DEF RejectCommit, SetStatus, TypeOK
  <1>6. QED
    BY <1>4, <1>5

\* The passing of the deadline touches no column the invariant reads.
LEMMA DeadlinePassesKeepsIInv ==
    ASSUME IInv, NEW a \in DOMAIN attestations, DeadlinePasses(a)
    PROVE  RowsInv' /\ OpenInv'
  <1>1. TypeOK /\ RowsInv /\ OpenInv
    BY IInvSplit
  <1> DEFINE row == [attestations[a] EXCEPT !.overdue = TRUE]
  <1>2. /\ row.visit = attestations[a].visit /\ row.user = attestations[a].user
        /\ row.r1 = attestations[a].r1 /\ row.r2 = attestations[a].r2
        /\ row.status = attestations[a].status /\ row.photo = attestations[a].photo
    BY <1>1, RowTypes DEF Row
  <1>3. attestations' = [attestations EXCEPT ![a] = row]
    BY DEF DeadlinePasses
  <1> HIDE DEF row
  <1>4. KeysKept /\ RowsInv'
    BY <1>1, <1>2, <1>3, RowUpdate DEF DeadlinePasses
  <1>5. \A b \in DOMAIN attestations :
           /\ attestations'[b].status = attestations[b].status
           /\ attestations'[b].photo = attestations[b].photo
    BY <1>1, <1>2, <1>3 DEF TypeOK
  <1>6. tx' = tx /\ sigs' = sigs
    BY DEF DeadlinePasses
  <1>7. OpenInv'
    <2>1. \A o \in Sessions : tx'[o] = tx[o] \/ tx'[o] = Idle
      BY <1>6
    <2>2. \A o \in Sessions : tx[o].op = "reviewer_sign" =>
             /\ attestations'[tx[o].att].status = attestations[tx[o].att].status
             /\ attestations'[tx[o].att].photo = attestations[tx[o].att].photo
      BY <1>1, <1>5, TxTypes
    <2>3. \A o \in Sessions : \A q \in Assigned(tx[o].att) :
             sigs'[<<attestations[tx[o].att].visit, q>>]
               = sigs[<<attestations[tx[o].att].visit, q>>]
      BY <1>6
    <2>4. Idle.op # "reviewer_sign" /\ Idle.op # "initiate"
      BY DEF Idle
    <2>5. QED
      BY <1>1, <1>4, <2>1, <2>2, <2>3, <2>4, OthersStayFresh, Zenon
  <1>8. QED
    BY <1>4, <1>7

\* A committed initiation adds a pending row whose reviewers have no part in
\* any other attestation of the visit, and no signature there yet.
LEMMA InitiateCommitKeepsIInv ==
    ASSUME IInv, NEW s \in Sessions, InitiateCommit(s)
    PROVE  RowsInv' /\ OpenInv'
  <1>1. TypeOK /\ RowsInv /\ OpenInv
    BY IInvSplit
  <1>0. PICK t, n : t = tx[s] /\ n = nextId
    OBVIOUS
  <1>2. /\ n \in AttIds /\ n \notin DOMAIN attestations
        /\ t.visit \in Visits /\ t.r1 \in Reviewers /\ t.r2 \in Reviewers
        /\ t.r1 # t.r2 /\ LogAccepts(t.visit, t.r1, t.r2)
    BY <1>0, <1>1, TxTypes, BoundAssumption DEF InitiateCommit, TypeOK, OpenInv, AttIds
  <1>3. /\ DOMAIN attestations' = DOMAIN attestations \cup {n}
        /\ \A b \in DOMAIN attestations : b # n /\ attestations'[b] = attestations[b]
        /\ attestations'[n].visit = t.visit /\ attestations'[n].status = "pending"
        /\ attestations'[n].r1 = t.r1 /\ attestations'[n].r2 = t.r2
    BY <1>0, <1>2 DEF InitiateCommit, NewRow
  <1>4. /\ assignmentLog' = assignmentLog \cup {<<t.visit, t.r1>>, <<t.visit, t.r2>>}
        /\ sigs' = sigs /\ userStatus' = userStatus /\ attempts' = attempts
        /\ tx' = [tx EXCEPT ![s] = Idle]
    BY <1>0 DEF InitiateCommit, EndTx
  <1>5. KeysKept /\ SigsKept
    BY <1>3, <1>4 DEF KeysKept, SigsKept
  <1>6. ASSUME NEW b \in DOMAIN attestations, attestations[b].visit = t.visit
        PROVE  t.r1 \notin Assigned(b) /\ t.r2 \notin Assigned(b)
    BY <1>1, <1>2, <1>6 DEF RowsInv, LogCoversAssignments, LogAccepts
  <1>7. sigs[<<t.visit, t.r1>>] = NoSig /\ sigs[<<t.visit, t.r2>>] = NoSig
    BY <1>1, <1>2, <1>6 DEF RowsInv, SignersAreAssigned
  <1>8. /\ Assigned(n)' = {t.r1, t.r2}
        /\ \A b \in DOMAIN attestations : Assigned(b)' = Assigned(b)
        /\ \A b \in DOMAIN attestations, r \in Reviewers : SigOf(b, r)' = SigOf(b, r)
    BY <1>3, <1>4 DEF Assigned, SigOf
  <1>9. /\ LogCoversAssignments' /\ ReviewerServesOneAttestation'
        /\ \A b \in DOMAIN attestations' : attestations'[b].r1 # attestations'[b].r2
    <2>1. LogCoversAssignments'
      BY <1>1, <1>3, <1>4, <1>8 DEF RowsInv, LogCoversAssignments
    <2>2. ReviewerServesOneAttestation'
      BY <1>1, <1>3, <1>6, <1>8 DEF RowsInv, ReviewerServesOneAttestation
    <2>3. QED
      BY <1>1, <1>2, <1>3, <2>1, <2>2 DEF RowsInv
  <1>10. SignersAreAssigned'
    BY <1>1, <1>3, <1>4, <1>8 DEF RowsInv, SignersAreAssigned
  <1>11. ApprovedIsCosigned'
    BY <1>1, <1>3, <1>8, RowTypes DEF RowsInv, ApprovedIsCosigned, attestation_payload
  <1>12. AttestedIsCosigned'
    BY <1>1, <1>4, <1>5, CosignedStays, NoSigAssumption DEF RowsInv, AttestedIsCosigned
  <1>13. ApprovedOnceBothSigned'
    <2>1. ~BothSigned(n)'
      BY <1>3, <1>4, <1>7, <1>8 DEF BothSigned, SigOf
    <2>2. \A b \in DOMAIN attestations : BothSigned(b)' <=> BothSigned(b)
      BY <1>1, <1>8, RowTypes DEF BothSigned
    <2>3. QED
      BY <1>1, <1>2, <1>3, <1>4, <2>1, <2>2 DEF RowsInv, ApprovedOnceBothSigned
  <1>14. OpenInv'
    <2>1. \A o \in Sessions : tx'[o] = tx[o] \/ tx'[o] = Idle
      BY <1>1, <1>4 DEF TypeOK
    <2>2. \A o \in Sessions : tx[o].op = "reviewer_sign" =>
             attestations'[tx[o].att] = attestations[tx[o].att]
      BY <1>1, <1>3, TxTypes
    <2>3. QED
      BY <1>1, <1>4, <1>5, <2>1, <2>2, OthersStayFresh DEF Idle
  <1>15. QED
    BY <1>9, <1>10, <1>11, <1>12, <1>13, <1>14 DEF RowsInv

\* Where the signature of an open reviewer_sign goes, and that it goes nowhere
\* else: no other attestation of the visit has this reviewer.
LEMMA SignatureStored ==
    ASSUME TypeOK, RowsInv, OpenInv, NEW s \in Sessions, NEW t, t = tx[s],
           t.op = "reviewer_sign", StoreSignature(t)
    PROVE  /\ t.att \in DOMAIN attestations /\ SignIsFresh(t)
           /\ sigs'[<<attestations[t.att].visit, t.reviewer>>] = t.payload
           /\ t.payload \in Payload /\ t.payload.att = t.att
           /\ \A x \in Slot : x # <<attestations[t.att].visit, t.reviewer>>
                 => sigs'[x] = sigs[x]
           /\ SigsKept
           /\ \A b \in DOMAIN attestations : \A q \in Assigned(b) :
                 b # t.att \/ q # t.reviewer =>
                    sigs'[<<attestations[b].visit, q>>] = sigs[<<attestations[b].visit, q>>]
  <1>1. /\ t.att \in DOMAIN attestations /\ SignIsFresh(t)
        /\ t.payload \in Payload /\ t.payload.att = t.att
    BY TxTypes DEF OpenInv, OpenSignIsFresh, SignIsFresh, attestation_payload
  <1> DEFINE slot == <<attestations[t.att].visit, t.reviewer>>
  <1>2. slot \in Slot
    BY SignatureSlot
  <1>3. sigs'[slot] = t.payload /\ \A x \in Slot : x # slot => sigs'[x] = sigs[x]
    BY <1>2 DEF StoreSignature, TypeOK
  <1>4. sigs[slot] = NoSig
    BY <1>1 DEF SignIsFresh, NotYetSigned, SigOf
  <1>5. ASSUME NEW b \in DOMAIN attestations, NEW q \in Assigned(b),
               b # t.att \/ q # t.reviewer
        PROVE  <<attestations[b].visit, q>> \in Slot /\ <<attestations[b].visit, q>> # slot
    <2>1. <<attestations[b].visit, q>> \in Slot
      BY RowTypes DEF Slot
    <2>2. t.reviewer \in Assigned(t.att)
      BY <1>1 DEF SignIsFresh
    <2>3. QED
      BY <1>1, <1>5, <2>1, <2>2 DEF RowsInv, ReviewerServesOneAttestation
  <1>6. SigsKept
    BY <1>3, <1>4 DEF SigsKept
  <1> HIDE DEF slot
  <1>7. \A b \in DOMAIN attestations : \A q \in Assigned(b) :
           b # t.att \/ q # t.reviewer =>
              sigs'[<<attestations[b].visit, q>>] = sigs[<<attestations[b].visit, q>>]
    BY <1>3, <1>5
  <1>8. QED
    BY <1>1, <1>3, <1>6, <1>7 DEF slot

\* What a stored signature leaves as it was, whether or not it is the second.
LEMMA SignatureKeeps ==
    ASSUME TypeOK, RowsInv, OpenInv, NEW s \in Sessions, NEW t, t = tx[s],
           t.op = "reviewer_sign", StoreSignature(t), EndTx(s), KeysKept,
           DOMAIN attestations' = DOMAIN attestations,
           UNCHANGED assignmentLog,
           \A b \in DOMAIN attestations :
              b # t.att => attestations'[b] = attestations[b]
    PROVE  /\ \A a \in DOMAIN attestations' : attestations'[a].r1 # attestations'[a].r2
           /\ LogCoversAssignments'
           /\ ReviewerServesOneAttestation'
           /\ SignersAreAssigned'
           /\ OpenInv'
  <1>1. \A b \in DOMAIN attestations : Assigned(b)' = Assigned(b)
    BY DEF KeysKept, Assigned
  <1>2. /\ \A a \in DOMAIN attestations' : attestations'[a].r1 # attestations'[a].r2
        /\ LogCoversAssignments' /\ ReviewerServesOneAttestation'
    BY <1>1 DEF RowsInv, KeysKept, LogCoversAssignments, ReviewerServesOneAttestation
  <1>3. SignersAreAssigned'
    <2> SUFFICES ASSUME NEW v \in Visits, NEW r \in Reviewers, sigs'[<<v, r>>] # NoSig
                 PROVE  /\ sigs'[<<v, r>>].att \in DOMAIN attestations'
                        /\ attestations'[sigs'[<<v, r>>].att].visit = v
                        /\ (r \in Assigned(sigs[<<v, r>>].att))'
      BY DEF SignersAreAssigned
    <2>1. CASE <<v, r>> = <<attestations[t.att].visit, t.reviewer>>
      <3>1. sigs'[<<v, r>>].att = t.att /\ r \in Assigned(t.att)
        BY <2>1, SignatureStored DEF SignIsFresh
      <3>2. QED
        BY <2>1, <3>1, SignatureStored DEF KeysKept, Assigned
    <2>2. CASE <<v, r>> # <<attestations[t.att].visit, t.reviewer>>
      <3>1. <<v, r>> \in Slot
        BY DEF Slot
      <3>2. sigs'[<<v, r>>] = sigs[<<v, r>>]
        BY <2>2, <3>1, SignatureStored
      <3>3. QED
        BY <3>2 DEF RowsInv, SignersAreAssigned, KeysKept, Assigned
    <2>3. QED
      BY <2>1, <2>2
  <1>4. OpenInv'
    <2>1. \A o \in Sessions : (tx'[o] = tx[o] /\ o # s) \/ tx'[o] = Idle
      BY DEF TypeOK, EndTx
    <2>2. ASSUME NEW o \in Sessions, tx'[o] = tx[o], tx[o].op = "reviewer_sign"
          PROVE  tx[o].att \in DOMAIN attestations /\ tx[o].att # t.att
      <3>1. o # s
        BY <2>2 DEF TypeOK, EndTx, Idle
      <3>2. QED
        BY <2>2, <3>1, TxTypes DEF OpenInv, LockIsExclusive
    <2>3. ASSUME NEW o \in Sessions, tx'[o] = tx[o], tx[o].op = "reviewer_sign"
          PROVE  /\ attestations'[tx[o].att].status = attestations[tx[o].att].status
                 /\ attestations'[tx[o].att].photo = attestations[tx[o].att].photo
                 /\ \A q \in Assigned(tx[o].att) :
                       sigs'[<<attestations[tx[o].att].visit, q>>]
                         = sigs[<<attestations[tx[o].att].visit, q>>]
      BY <2>2, <2>3, SignatureStored
    <2>4. QED
      BY <2>1, <2>3, OthersStayFresh DEF Idle
  <1>5. QED
    BY <1>2, <1>3, <1>4

\* The first signature: nothing is approved, the other slot stays empty.
LEMMA ReviewerSignFirstKeepsIInv ==
    ASSUME IInv, NEW s \in Sessions, ReviewerSignFirst(s)
    PROVE  RowsInv' /\ OpenInv'
  <1>1. PICK t : t = tx[s]
    OBVIOUS
  <1>2. /\ TypeOK /\ RowsInv /\ OpenInv /\ KeysKept
        /\ t.op = "reviewer_sign" /\ ~t.both /\ StoreSignature(t) /\ EndTx(s)
        /\ UNCHANGED <<attestations, userStatus, assignmentLog, attempts>>
    BY <1>1, IInvSplit DEF ReviewerSignFirst, KeysKept
  <1>3. /\ t.att \in DOMAIN attestations /\ SignIsFresh(t) /\ SigsKept
        /\ \A b \in DOMAIN attestations : \A q \in Assigned(b) :
              b # t.att \/ q # t.reviewer => SigOf(b, q)' = SigOf(b, q)
    BY <1>1, <1>2, SignatureStored DEF SigOf
  <1>4. \A b : Assigned(b)' = Assigned(b)
    BY <1>2 DEF Assigned
  <1>5. ApprovedIsCosigned'
    BY <1>2, <1>3, <1>4 DEF RowsInv, ApprovedIsCosigned, SignIsFresh, attestation_payload
  <1>6. AttestedIsCosigned'
    BY <1>2, <1>3, CosignedStays, NoSigAssumption DEF RowsInv, AttestedIsCosigned
  <1>7. ApprovedOnceBothSigned'
    <2>1. PICK q \in Assigned(t.att) : q # t.reviewer
      BY <1>2, <1>3 DEF RowsInv, Assigned
    <2>2. ~BothSigned(t.att) /\ ~BothSigned(t.att)'
      BY <1>2, <1>3, <1>4, <2>1 DEF SignIsFresh, BothSigned
    <2>3. \A b \in DOMAIN attestations : b # t.att => (BothSigned(b)' <=> BothSigned(b))
      BY <1>3, <1>4 DEF BothSigned
    <2>4. QED
      BY <1>2, <2>2, <2>3 DEF RowsInv, ApprovedOnceBothSigned
  <1>8. QED
    BY <1>1, <1>2, <1>5, <1>6, <1>7, SignatureKeeps DEF RowsInv

\* The second signature: the row is approved with both signatures over it.
LEMMA ReviewerSignSecondKeepsIInv ==
    ASSUME IInv, NEW s \in Sessions, ReviewerSignSecond(s)
    PROVE  RowsInv' /\ OpenInv'
  <1>1. PICK t : t = tx[s]
    OBVIOUS
  <1>2. /\ TypeOK /\ RowsInv /\ OpenInv /\ t.op = "reviewer_sign" /\ t.both
        /\ StoreSignature(t) /\ EndTx(s) /\ SetStatus(t.att, "approved")
        /\ assignmentLog' = assignmentLog
        /\ userStatus' = [userStatus EXCEPT ![attestations[t.att].user] = "attested"]
        /\ attempts' = [attempts EXCEPT ![t.att].approved = @ + 1]
    BY <1>1, IInvSplit DEF ReviewerSignSecond
  <1>3. /\ t.att \in DOMAIN attestations /\ t.att \in AttIds
        /\ SignIsFresh(t) /\ SigsKept
        /\ \A b \in DOMAIN attestations : \A q \in Assigned(b) :
              b # t.att \/ q # t.reviewer =>
                sigs'[<<attestations[b].visit, q>>] = sigs[<<attestations[b].visit, q>>]
        /\ sigs'[<<attestations[t.att].visit, t.reviewer>>] = t.payload
        /\ t.payload \in Payload
    BY <1>1, <1>2, SignatureStored, RowTypes
  <1>4. /\ DOMAIN attestations' = DOMAIN attestations
        /\ \A b \in DOMAIN attestations :
              b # t.att => attestations'[b] = attestations[b]
    BY <1>2 DEF SetStatus, TypeOK
  <1>5. /\ attestations'[t.att].status = "approved"
        /\ attestations'[t.att].visit = attestations[t.att].visit
        /\ attestations'[t.att].user = attestations[t.att].user
        /\ attestations'[t.att].r1 = attestations[t.att].r1
        /\ attestations'[t.att].r2 = attestations[t.att].r2
        /\ attestations'[t.att].photo = attestations[t.att].photo
    BY <1>2, <1>3, SetStatusRow
  <1>6. KeysKept
    BY <1>4, <1>5 DEF KeysKept
  <1>7. \A b \in DOMAIN attestations : Assigned(b)' = Assigned(b)
    BY <1>6 DEF KeysKept, Assigned
  <1>8. \A q \in Assigned(t.att) :
           SigOf(t.att, q)' = attestation_payload(t.att, attestations[t.att].photo)
    BY <1>2, <1>3, <1>5 DEF SignIsFresh, SigOf
  <1>9. \A b \in DOMAIN attestations : b # t.att =>
           \A q \in Assigned(b) : SigOf(b, q)' = SigOf(b, q)
    BY <1>3, <1>4 DEF SigOf
  <1>10. ApprovedIsCosigned'
    BY <1>2, <1>4, <1>5, <1>7, <1>8, <1>9
       DEF RowsInv, ApprovedIsCosigned, attestation_payload
  <1>11. AttestedIsCosigned'
    <2> SUFFICES ASSUME NEW u \in Users, userStatus'[u] = "attested"
                 PROVE  CosignedFor(u)'
      BY DEF AttestedIsCosigned
    <2>1. CASE u = attestations[t.att].user
      <3>1. attestations[t.att].photo \in PhotoHash
        BY <1>2, <1>3, RowTypes
      <3>2. QED
        BY <1>3, <1>4, <1>5, <1>7, <1>8, <2>1, <3>1 DEF CosignedFor, attestation_payload
    <2>2. CASE u # attestations[t.att].user
      <3>1. userStatus[u] = "attested"
        BY <1>2, <2>2 DEF TypeOK
      <3>2. QED
        BY <1>2, <1>3, <1>6, <3>1, CosignedStays, NoSigAssumption
           DEF RowsInv, AttestedIsCosigned
    <2>3. QED
      BY <2>1, <2>2
  <1>12. ApprovedOnceBothSigned'
    <2>1. ~BothSigned(t.att)
      BY <1>3 DEF SignIsFresh, NotYetSigned, BothSigned
    <2>2. BothSigned(t.att)'
      <3>1. attestation_payload(t.att, attestations[t.att].photo) # NoSig
        BY <1>2, <1>3, NoSigAssumption DEF SignIsFresh
      <3>2. QED
        BY <1>3, <1>7, <1>8, <3>1 DEF BothSigned
    <2>3. \A b \in DOMAIN attestations : b # t.att => (BothSigned(b)' <=> BothSigned(b))
      BY <1>7, <1>9 DEF BothSigned
    <2>4. /\ attempts'[t.att].approved = attempts[t.att].approved + 1
          /\ \A b \in AttIds : b # t.att => attempts'[b] = attempts[b]
      BY <1>2, <1>3 DEF TypeOK
    <2>5. QED
      BY <1>2, <1>3, <1>4, <2>1, <2>2, <2>3, <2>4 DEF RowsInv, ApprovedOnceBothSigned
  <1>13. QED
    BY <1>1, <1>2, <1>4, <1>6, <1>10, <1>11, <1>12, SignatureKeeps DEF RowsInv

-----------------------------------------------------------------------------
(* The theorems                                                            *)

\* The invariant is inductive: one case for each action.
LEMMA NextIInv == IInv /\ [Next]_vars => IInv'
  <1> SUFFICES ASSUME IInv, [Next]_vars
               PROVE  RowsInv' /\ OpenInv'
    BY NextTypeOK, IInvSplit DEF IInv, RowsInv, OpenInv, ReviewersDiffer
  <1>1. ASSUME NEW s \in Sessions, NEW v \in Visits, NEW u \in Users,
               NEW photo \in PhotoHash, NEW c \in Rosters,
               InitiateRead(s, v, u, photo, c \ {StaffOf[v]})
        PROVE  RowsInv' /\ OpenInv'
    <2>1. PICK p \in c \X c :
             /\ p[1] < p[2]
             /\ tx' = [tx EXCEPT ![s] =
                          [op |-> "initiate", visit |-> v, user |-> u,
                           r1 |-> p[1], r2 |-> p[2], photo |-> photo]]
      BY <1>1 DEF InitiateRead, IsFirstPair, OpenPairs
    <2>2. p[1] \in Nat /\ p[2] \in Nat
      BY ReviewersAssumption, RosterAssumption
    <2>3. p[1] # p[2]
      BY <2>1, <2>2
    <2> DEFINE t == [op |-> "initiate", visit |-> v, user |-> u,
                     r1 |-> p[1], r2 |-> p[2], photo |-> photo]
    <2>4. t.op # "reviewer_sign" /\ t.r1 # t.r2 /\ tx' = [tx EXCEPT ![s] = t]
      BY <2>1, <2>3
    <2>5. UNCHANGED db
      BY <1>1 DEF InitiateRead
    <2> HIDE DEF t
    <2>6. QED
      BY <2>4, <2>5, PlainReadKeepsIInv
  <1>2. ASSUME NEW s \in Sessions, InitiateLost(s) \/ InitiateRefused(s)
        PROVE  RowsInv' /\ OpenInv'
    <2>1. TypeOK /\ RowsInv /\ OpenInv
      BY IInvSplit
    <2>2. /\ UNCHANGED <<userStatus, attestations, assignmentLog, sigs, attempts>>
          /\ \A o \in Sessions : tx'[o] = tx[o] \/ tx'[o] = Idle
      BY <1>2, <2>1 DEF InitiateLost, InitiateRefused, EndTx, TypeOK
    <2>3. RowsInv' /\ KeysKept
      BY <2>1, <2>2, RowsUntouched DEF KeysKept
    <2>4. QED
      BY <2>1, <2>2, <2>3, OthersStayFresh DEF Idle
  <1>3. ASSUME NEW s \in Sessions, NEW a \in DOMAIN attestations,
               NEW photo \in PhotoHash, StaffSignRead(s, a, photo)
        PROVE  RowsInv' /\ OpenInv'
    <2> DEFINE evidence == IF photo = NoPhoto THEN attestations[a].photo ELSE photo
    <2> DEFINE t == [op |-> "staff_sign", att |-> a, photo |-> photo,
                     payload |-> attestation_payload(a, evidence)]
    <2>1. /\ t.op # "reviewer_sign" /\ t.op # "initiate"
          /\ tx' = [tx EXCEPT ![s] = t] /\ UNCHANGED db
      BY <1>3 DEF StaffSignRead
    <2> HIDE DEF t
    <2>2. QED
      BY <2>1, PlainReadKeepsIInv
  <1>4. ASSUME NEW s \in Sessions, NEW a \in DOMAIN attestations,
               NEW r \in Reviewers, RejectRead(s, a, r)
        PROVE  RowsInv' /\ OpenInv'
    <2> DEFINE t == [op |-> "reject", att |-> a, reviewer |-> r]
    <2>1. /\ t.op # "reviewer_sign" /\ t.op # "initiate"
          /\ tx' = [tx EXCEPT ![s] = t] /\ UNCHANGED db
      BY <1>4 DEF RejectRead
    <2> HIDE DEF t
    <2>2. QED
      BY <2>1, PlainReadKeepsIInv
  <1>5. ASSUME NEW s \in Sessions, Rollback(s)
        PROVE  RowsInv' /\ OpenInv'
    <2>1. /\ Idle.op # "reviewer_sign" /\ Idle.op # "initiate"
          /\ tx' = [tx EXCEPT ![s] = Idle] /\ UNCHANGED db
      BY <1>5 DEF Rollback, EndTx, Idle
    <2>2. QED
      BY <2>1, PlainReadKeepsIInv
  <1>6. CASE WeekPasses \/ (\E v \in Visits : VisitEnds(v)) \/ UNCHANGED vars
    <2>1. TypeOK /\ RowsInv /\ OpenInv
      BY IInvSplit
    <2>2. /\ UNCHANGED <<userStatus, attestations, assignmentLog, sigs, attempts>>
          /\ \A o \in Sessions : tx'[o] = tx[o] \/ tx'[o] = Idle
      BY <1>6 DEF WeekPasses, VisitEnds, vars
    <2>3. RowsInv' /\ KeysKept
      BY <2>1, <2>2, RowsUntouched DEF KeysKept
    <2>4. QED
      BY <2>1, <2>2, <2>3, OthersStayFresh DEF Idle
  <1>7. QED
    BY <1>1, <1>2, <1>3, <1>4, <1>5, <1>6, InitiateCommitKeepsIInv,
       StaffSignCommitKeepsIInv, ReviewerSignReadKeepsIInv,
       ReviewerSignFirstKeepsIInv, ReviewerSignSecondKeepsIInv,
       RejectCommitKeepsIInv, DeadlinePassesKeepsIInv
       DEF Next, Handler, Environment

\* The inductive invariant holds in every reachable state.
THEOREM Invariance == Spec => []IInv
  BY InitIInv, NextIInv, PTL DEF Spec

\* No race of staff_sign, reviewer_sign and reject leaves an approved
\* attestation without two co-signatures over the row as stored.
THEOREM ApprovedIsCosignedAlways == Spec => []ApprovedIsCosigned
  <1>1. IInv => ApprovedIsCosigned
    BY DEF IInv
  <1>2. QED
    BY <1>1, Invariance, PTL

\* Nobody is attested whom two reviewers did not co-sign.
THEOREM AttestedIsCosignedAlways == Spec => []AttestedIsCosigned
  <1>1. IInv => AttestedIsCosigned
    BY DEF IInv
  <1>2. QED
    BY <1>1, Invariance, PTL

\* The per-visit signature table serves one attestation per reviewer.
THEOREM ReviewerServesOneAttestationAlways == Spec => []ReviewerServesOneAttestation
  <1>1. IInv => ReviewerServesOneAttestation
    BY DEF IInv
  <1>2. QED
    BY <1>1, Invariance, PTL

\* The FOR UPDATE lock works: the second signature approves, exactly once.
THEOREM ApprovedOnceBothSignedAlways == Spec => []ApprovedOnceBothSigned
  <1>1. IInv => ApprovedOnceBothSigned
    BY DEF IInv
  <1>2. QED
    BY <1>1, Invariance, PTL

-----------------------------------------------------------------------------
(* Refinement: every behaviour of the handlers is one of the abstract rule *)

\* The refinement mapping, by the names of the abstract variables.
DossierOf(a) == [id |-> a, subject |-> attestations[a].user, judges |-> Assigned(a)]
ConsentIn(x) == [dossier |-> sigs[x].att, judge |-> x[2], evidence |-> sigs[x].photo]
Filled == {x \in Slot : sigs[x] # NoSig}

Dossiers == {DossierOf(a) : a \in DOMAIN attestations}
Consents == {ConsentIn(x) : x \in Filled}
Attested == {u \in Users : userStatus[u] = "attested"}

\* The actions of the rule under the mapping.
LEMMA MappedActions ==
    /\ Rule!Init <=> Dossiers = {} /\ Consents = {} /\ Attested = {}
    /\ UNCHANGED Rule!abstractVars <=>
          Dossiers' = Dossiers /\ Consents' = Consents /\ Attested' = Attested
    /\ \A d : Rule!Open(d) <=>
          /\ \A other \in Dossiers : other.id # d.id
          /\ \E j1, j2 \in Reviewers : j1 # j2 /\ d.judges = {j1, j2}
          /\ Dossiers' = Dossiers \cup {d}
          /\ Consents' = Consents /\ Attested' = Attested
    /\ \A d, j, e : Rule!ConsentFirst(d, j, e) <=>
          /\ j \in d.judges
          /\ \A k \in d.judges : ~(\E c \in Consents : c.dossier = d.id /\ c.judge = k)
          /\ Consents' = Consents \cup {[dossier |-> d.id, judge |-> j, evidence |-> e]}
          /\ Dossiers' = Dossiers /\ Attested' = Attested
    /\ \A d, j, e : Rule!ConsentSecond(d, j, e) <=>
          /\ j \in d.judges
          /\ ~(\E c \in Consents : c.dossier = d.id /\ c.judge = j)
          /\ \A k \in d.judges \ {j} :
                [dossier |-> d.id, judge |-> k, evidence |-> e] \in Consents
          /\ Consents' = Consents \cup {[dossier |-> d.id, judge |-> j, evidence |-> e]}
          /\ Attested' = Attested \cup {d.subject}
          /\ Dossiers' = Dossiers
    /\ \A u : Rule!Withdraw(u) <=>
          /\ u \in Attested
          /\ Attested' = Attested \ {u}
          /\ Dossiers' = Dossiers /\ Consents' = Consents
  BY DEF Rule!Init, Rule!abstractVars, Rule!Open, Rule!ConsentFirst, Rule!HasConsented,
         Rule!ConsentSecond, Rule!Withdraw, Dossiers, Consents, Attested, Filled,
         DossierOf, ConsentIn

\* Where no key column changes and no row is added, the dossiers stay.
LEMMA DossiersKept ==
    ASSUME KeysKept, DOMAIN attestations' = DOMAIN attestations
    PROVE  Dossiers' = Dossiers
  <1>1. \A a \in DOMAIN attestations : DossierOf(a)' = DossierOf(a)
    BY DEF KeysKept, DossierOf, Assigned
  <1>2. QED
    BY <1>1 DEF Dossiers

\* A stored attestation is a dossier of the abstract type.
LEMMA DossierType ==
    ASSUME TypeOK, NEW a \in DOMAIN attestations
    PROVE  DossierOf(a) \in Rule!Dossier
  BY RowTypes DEF DossierOf, Rule!Dossier

\* A consent to dossier a given by q is the signature q stored on the visit of a.
LEMMA ConsentIsSignature ==
    ASSUME TypeOK, RowsInv, NEW a \in DOMAIN attestations, NEW q \in Assigned(a),
           SigOf(a, q) = NoSig
    PROVE  ~(\E c \in Consents : c.dossier = a /\ c.judge = q)
  <1> SUFFICES ASSUME NEW x \in Filled, sigs[x].att = a, x[2] = q
               PROVE  FALSE
    BY DEF Consents, ConsentIn
  <1>1. /\ x = <<x[1], x[2]>> /\ x[1] \in Visits /\ x[2] \in Reviewers
        /\ sigs[x] # NoSig
    BY DEF Filled, Slot
  <1>2. attestations[a].visit = x[1]
    BY <1>1 DEF RowsInv, SignersAreAssigned
  <1>3. QED
    BY <1>1, <1>2 DEF SigOf

\* Storing the signature of an open reviewer_sign adds one consent.
LEMMA ConsentAdded ==
    ASSUME TypeOK, RowsInv, OpenInv, NEW s \in Sessions, NEW t, t = tx[s],
           t.op = "reviewer_sign", StoreSignature(t)
    PROVE  Consents' = Consents \cup
              {[dossier |-> t.att, judge |-> t.reviewer, evidence |-> t.payload.photo]}
  <1>1. PICK slot : slot = <<attestations[t.att].visit, t.reviewer>>
    OBVIOUS
  <1>2. /\ t.att \in DOMAIN attestations /\ SignIsFresh(t)
        /\ sigs'[slot] = t.payload /\ t.payload \in Payload /\ t.payload.att = t.att
        /\ \A x \in Slot : x # slot => sigs'[x] = sigs[x]
    BY <1>1, SignatureStored
  <1>3. slot \in Slot /\ slot[2] = t.reviewer /\ sigs[slot] = NoSig
    BY <1>1, <1>2, SignatureSlot DEF SignIsFresh, NotYetSigned, SigOf
  <1>4. t.payload # NoSig
    BY <1>2, NoSigAssumption
  <1>5. Filled' = Filled \cup {slot} /\ slot \notin Filled
    BY <1>2, <1>3, <1>4 DEF Filled
  <1>6. \A x \in Filled : ConsentIn(x)' = ConsentIn(x)
    BY <1>2, <1>5 DEF Filled, ConsentIn
  <1>7. ConsentIn(slot)' =
           [dossier |-> t.att, judge |-> t.reviewer, evidence |-> t.payload.photo]
    BY <1>2, <1>3 DEF ConsentIn
  <1>8. QED
    BY <1>5, <1>6, <1>7 DEF Consents

-----------------------------------------------------------------------------
(* One lemma for each kind of step                                         *)

\* The empty database is an empty register.
LEMMA InitRefines == Init => Rule!Init
  BY MappedActions DEF Init, Dossiers, Consents, Attested, Filled

\* Steps that write neither keys, signatures nor the user's status stutter.
LEMMA StutterRefines ==
    ASSUME KeysKept, DOMAIN attestations' = DOMAIN attestations,
           sigs' = sigs, userStatus' = userStatus
    PROVE  UNCHANGED Rule!abstractVars
  <1>1. Dossiers' = Dossiers
    BY DossiersKept
  <1>2. Consents' = Consents /\ Attested' = Attested
    BY DEF Consents, ConsentIn, Filled, Attested
  <1>3. QED
    BY <1>1, <1>2, MappedActions

\* A committed initiation opens a dossier under a fresh id.
LEMMA InitiateCommitRefines ==
    ASSUME IInv, NEW s \in Sessions, InitiateCommit(s)
    PROVE  \E d \in Rule!Dossier : Rule!Open(d)
  <1>1. TypeOK /\ RowsInv /\ OpenInv
    BY IInvSplit
  <1>2. PICK t, n : t = tx[s] /\ n = nextId
    OBVIOUS
  <1>3. /\ n \in AttIds /\ n \notin DOMAIN attestations /\ t.user \in Users
        /\ t.r1 \in Reviewers /\ t.r2 \in Reviewers /\ t.r1 # t.r2
    BY <1>1, <1>2, TxTypes, BoundAssumption DEF InitiateCommit, TypeOK, OpenInv, AttIds
  <1>4. /\ DOMAIN attestations' = DOMAIN attestations \cup {n}
        /\ \A b \in DOMAIN attestations : attestations'[b] = attestations[b]
        /\ attestations'[n].user = t.user
        /\ attestations'[n].r1 = t.r1 /\ attestations'[n].r2 = t.r2
        /\ sigs' = sigs /\ userStatus' = userStatus
    BY <1>2, <1>3 DEF InitiateCommit, NewRow
  <1>5. PICK d : d = [id |-> n, subject |-> t.user, judges |-> {t.r1, t.r2}]
    OBVIOUS
  <1>6. d \in Rule!Dossier /\ d.id = n /\ d.judges = {t.r1, t.r2}
    BY <1>3, <1>5 DEF Rule!Dossier
  <1>7. DossierOf(n)' = d
    BY <1>4, <1>5 DEF DossierOf, Assigned
  <1>8. \A b \in DOMAIN attestations : DossierOf(b)' = DossierOf(b)
    BY <1>4 DEF DossierOf, Assigned
  <1>9. Dossiers' = Dossiers \cup {d}
    BY <1>4, <1>7, <1>8 DEF Dossiers
  <1>10. \A other \in Dossiers : other.id # d.id
    BY <1>3, <1>6 DEF Dossiers, DossierOf
  <1>11. Consents' = Consents /\ Attested' = Attested
    BY <1>4 DEF Consents, ConsentIn, Filled, Attested
  <1>12. Rule!Open(d)
    BY <1>3, <1>6, <1>9, <1>10, <1>11, MappedActions
  <1>13. QED
    BY <1>6, <1>12

\* What an open reviewer_sign consents to, in terms of the rule.
LEMMA SignerConsents ==
    ASSUME IInv, NEW s \in Sessions, NEW t, t = tx[s], t.op = "reviewer_sign"
    PROVE  /\ t.att \in DOMAIN attestations /\ DossierOf(t.att) \in Dossiers
           /\ t.reviewer \in Assigned(t.att) /\ t.reviewer \in Reviewers
           /\ t.payload.photo \in PhotoHash
           /\ ~(\E c \in Consents : c.dossier = t.att /\ c.judge = t.reviewer)
           /\ \A k \in Assigned(t.att) \ {t.reviewer} :
                 IF t.both
                 THEN [dossier |-> t.att, judge |-> k, evidence |-> t.payload.photo]
                         \in Consents
                 ELSE ~(\E c \in Consents : c.dossier = t.att /\ c.judge = k)
  <1>1. TypeOK /\ RowsInv /\ OpenInv
    BY IInvSplit
  <1>2. /\ t.att \in DOMAIN attestations /\ SignIsFresh(t) /\ t.payload \in Payload
        /\ t.reviewer \in Reviewers
    BY <1>1, TxTypes DEF OpenInv, OpenSignIsFresh
  <1>3. /\ t.reviewer \in Assigned(t.att) /\ SigOf(t.att, t.reviewer) = NoSig
        /\ t.payload.att = t.att /\ t.payload.photo \in PhotoHash /\ t.payload # NoSig
    BY <1>2, NoSigAssumption DEF SignIsFresh, NotYetSigned, attestation_payload, Payload
  <1>4. ASSUME NEW k \in Assigned(t.att) \ {t.reviewer}, t.both
        PROVE  [dossier |-> t.att, judge |-> k, evidence |-> t.payload.photo] \in Consents
    <2>1. PICK x : x = <<attestations[t.att].visit, k>>
      OBVIOUS
    <2>2. sigs[x] = t.payload
      BY <1>2, <1>4, <2>1 DEF SignIsFresh, SigOf
    <2>3. x \in Filled /\ x[2] = k
      BY <1>1, <1>2, <1>3, <2>1, <2>2, RowTypes DEF Filled, Slot
    <2>4. QED
      BY <1>3, <2>2, <2>3 DEF Consents, ConsentIn
  <1>5. ASSUME NEW k \in Assigned(t.att) \ {t.reviewer}, ~t.both
        PROVE  ~(\E c \in Consents : c.dossier = t.att /\ c.judge = k)
    BY <1>1, <1>2, <1>5, ConsentIsSignature DEF SignIsFresh
  <1>6. QED
    BY <1>1, <1>2, <1>3, <1>4, <1>5, ConsentIsSignature DEF Dossiers

\* The first co-signature is a first consent.
LEMMA ReviewerSignFirstRefines ==
    ASSUME IInv, NEW s \in Sessions, ReviewerSignFirst(s)
    PROVE  \E d \in Dossiers, j \in Reviewers, e \in PhotoHash : Rule!ConsentFirst(d, j, e)
  <1>1. TypeOK /\ RowsInv /\ OpenInv
    BY IInvSplit
  <1>2. PICK t, d : t = tx[s] /\ d = DossierOf(t.att)
    OBVIOUS
  <1>3. t.op = "reviewer_sign" /\ ~t.both /\ StoreSignature(t)
    BY <1>2 DEF ReviewerSignFirst
  <1>4. d.id = t.att /\ d.judges = Assigned(t.att)
    BY <1>2 DEF DossierOf
  <1>5. Dossiers' = Dossiers /\ Attested' = Attested
    BY DEF ReviewerSignFirst, Dossiers, DossierOf, Assigned, Attested
  <1>6. Consents' = Consents \cup
           {[dossier |-> d.id, judge |-> t.reviewer, evidence |-> t.payload.photo]}
    BY <1>1, <1>2, <1>3, <1>4, ConsentAdded
  <1>7. \A k \in d.judges : ~(\E c \in Consents : c.dossier = d.id /\ c.judge = k)
    BY <1>2, <1>3, <1>4, SignerConsents
  <1>8. Rule!ConsentFirst(d, t.reviewer, t.payload.photo)
    BY <1>2, <1>3, <1>4, <1>5, <1>6, <1>7, SignerConsents, MappedActions
  <1>9. QED
    BY <1>2, <1>3, <1>8, SignerConsents

\* The second co-signature is a second consent, to the same evidence.
LEMMA ReviewerSignSecondRefines ==
    ASSUME IInv, NEW s \in Sessions, ReviewerSignSecond(s)
    PROVE  \E d \in Dossiers, j \in Reviewers, e \in PhotoHash : Rule!ConsentSecond(d, j, e)
  <1>1. TypeOK /\ RowsInv /\ OpenInv
    BY IInvSplit
  <1>2. PICK t, d : t = tx[s] /\ d = DossierOf(t.att)
    OBVIOUS
  <1>3. /\ t.op = "reviewer_sign" /\ t.both /\ StoreSignature(t)
        /\ SetStatus(t.att, "approved")
        /\ userStatus' = [userStatus EXCEPT ![attestations[t.att].user] = "attested"]
    BY <1>2 DEF ReviewerSignSecond
  <1>4. /\ d.id = t.att /\ d.judges = Assigned(t.att)
        /\ d.subject = attestations[t.att].user
    BY <1>2 DEF DossierOf
  <1>5. t.att \in DOMAIN attestations /\ d.subject \in Users
    BY <1>1, <1>2, <1>3, <1>4, TxTypes, RowTypes
  <1>6. Dossiers' = Dossiers
    <2>1. DOMAIN attestations' = DOMAIN attestations
      BY <1>1, <1>3, SetStatusTypes DEF Status
    <2>2. KeysKept
      BY <1>1, <1>3, <1>5, <2>1, SetStatusRow DEF KeysKept, SetStatus, TypeOK
    <2>3. QED
      BY <2>1, <2>2, DossiersKept
  <1>7. Attested' = Attested \cup {d.subject}
    BY <1>1, <1>3, <1>4, <1>5 DEF TypeOK, Attested
  <1>8. Consents' = Consents \cup
           {[dossier |-> d.id, judge |-> t.reviewer, evidence |-> t.payload.photo]}
    BY <1>1, <1>2, <1>3, <1>4, ConsentAdded
  <1>9. Rule!ConsentSecond(d, t.reviewer, t.payload.photo)
    BY <1>2, <1>3, <1>4, <1>6, <1>7, <1>8, SignerConsents, MappedActions
  <1>10. QED
    BY <1>2, <1>3, <1>9, SignerConsents

\* A rejection withdraws the user's attestation, if there was one.
LEMMA RejectCommitRefines ==
    ASSUME IInv, NEW s \in Sessions, RejectCommit(s)
    PROVE  (\E u \in Users : Rule!Withdraw(u)) \/ UNCHANGED Rule!abstractVars
  <1>1. TypeOK /\ RowsInv /\ OpenInv
    BY IInvSplit
  <1>2. PICK t, u : t = tx[s] /\ u = attestations[t.att].user
    OBVIOUS
  <1>3. /\ t.op = "reject" /\ SetStatus(t.att, "rejected") /\ sigs' = sigs
        /\ userStatus' = [userStatus EXCEPT ![u] = "presence_confirmed"]
    BY <1>2 DEF RejectCommit
  <1>4. t.att \in DOMAIN attestations /\ u \in Users
    BY <1>1, <1>2, <1>3, TxTypes, RowTypes
  <1>5. Dossiers' = Dossiers
    <2>1. DOMAIN attestations' = DOMAIN attestations
      BY <1>1, <1>3, SetStatusTypes DEF Status
    <2>2. KeysKept
      BY <1>1, <1>3, <1>4, <2>1, SetStatusRow DEF KeysKept, SetStatus, TypeOK
    <2>3. QED
      BY <2>1, <2>2, DossiersKept
  <1>6. Consents' = Consents /\ Attested' = Attested \ {u}
    BY <1>1, <1>3, <1>4 DEF Consents, ConsentIn, Filled, Attested, TypeOK
  <1>7. CASE u \in Attested
    BY <1>4, <1>5, <1>6, <1>7, MappedActions
  <1>8. CASE u \notin Attested
    BY <1>5, <1>6, <1>8, MappedActions
  <1>9. QED
    BY <1>7, <1>8

\* Every step is a step of the rule or leaves its variables alone.
LEMMA NextRefines == IInv /\ [Next]_vars => [Rule!Next]_(Rule!abstractVars)
  <1> SUFFICES ASSUME IInv, [Next]_vars
               PROVE  Rule!Next \/ UNCHANGED Rule!abstractVars
    OBVIOUS
  <1>1. TypeOK
    BY DEF IInv
  <1>2. ASSUME UNCHANGED <<attestations, sigs, userStatus>>
        PROVE  UNCHANGED Rule!abstractVars
    BY <1>2, StutterRefines DEF KeysKept
  <1>3. ASSUME NEW s \in Sessions, InitiateCommit(s)
        PROVE  Rule!Next
    BY <1>3, InitiateCommitRefines DEF Rule!Next
  <1>4. ASSUME NEW s \in Sessions, StaffSignCommit(s)
        PROVE  UNCHANGED Rule!abstractVars
    <2>1. tx[s].att \in DOMAIN attestations
      BY <1>1, <1>4, TxTypes DEF StaffSignCommit
    <2>2. /\ DOMAIN attestations' = DOMAIN attestations
          /\ sigs' = sigs /\ userStatus' = userStatus
      BY <1>4 DEF StaffSignCommit
    <2>3. KeysKept
      BY <1>1, <1>4, <2>1, <2>2, RowTypes, StaffSignedRow
         DEF StaffSignCommit, KeysKept, TypeOK
    <2>4. QED
      BY <2>2, <2>3, StutterRefines
  <1>5. ASSUME NEW s \in Sessions, ReviewerSignFirst(s) \/ ReviewerSignSecond(s)
        PROVE  Rule!Next
    BY <1>5, ReviewerSignFirstRefines, ReviewerSignSecondRefines DEF Rule!Next, Dossiers, DossierOf
  <1>6. ASSUME NEW s \in Sessions, RejectCommit(s)
        PROVE  Rule!Next \/ UNCHANGED Rule!abstractVars
    BY <1>6, RejectCommitRefines DEF Rule!Next
  <1>7. ASSUME NEW a \in DOMAIN attestations, DeadlinePasses(a)
        PROVE  UNCHANGED Rule!abstractVars
    <2>1. /\ DOMAIN attestations' = DOMAIN attestations
          /\ sigs' = sigs /\ userStatus' = userStatus
      BY <1>7 DEF DeadlinePasses
    <2>2. KeysKept
      BY <1>1, <1>7, <2>1, RowTypes DEF DeadlinePasses, KeysKept, Row
    <2>3. QED
      BY <2>1, <2>2, StutterRefines
  <1>8. ASSUME NEW s \in Sessions,
               \/ \E v \in Visits, u \in Users, photo \in PhotoHash, c \in Rosters :
                     InitiateRead(s, v, u, photo, c \ {StaffOf[v]})
               \/ InitiateLost(s) \/ InitiateRefused(s) \/ Rollback(s)
               \/ \E a \in DOMAIN attestations, photo \in PhotoHash :
                     StaffSignRead(s, a, photo)
               \/ \E a \in DOMAIN attestations, r \in Reviewers :
                     ReviewerSignRead(s, a, r) \/ RejectRead(s, a, r)
        PROVE  UNCHANGED <<attestations, sigs, userStatus>>
    BY <1>8 DEF InitiateRead, InitiateLost, InitiateRefused, Rollback, StaffSignRead,
                ReviewerSignRead, RejectRead, db
  <1>9. ASSUME WeekPasses \/ (\E v \in Visits : VisitEnds(v)) \/ UNCHANGED vars
        PROVE  UNCHANGED <<attestations, sigs, userStatus>>
    BY <1>9 DEF WeekPasses, VisitEnds, vars
  <1>10. QED
    BY <1>2, <1>3, <1>4, <1>5, <1>6, <1>7, <1>8, <1>9 DEF Next, Handler, Environment

\* The attestation handlers implement the two-person rule.
THEOREM Refinement == Spec => ImplementsTwoPersonRule
  BY InitRefines, NextRefines, Invariance, PTL DEF Spec, ImplementsTwoPersonRule, Rule!Spec
=============================================================================
