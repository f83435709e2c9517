---------------------------- MODULE Server_proofs ----------------------------
(***************************************************************************)
(* Proofs about what one server process shares with the world.  Admission: *)
(* for any requests, clocks and editors, when a signed request is handled  *)
(* again, how many requests a window lets through, and what the history of *)
(* a setting tells.  Access: for any users, links, tokens and instances,   *)
(* what a magic link signs in, how far links are apart, and where a logout *)
(* holds.  Announcements: for any handlers, clients and capacities, which  *)
(* rows the audit trail holds, how its gaps are explained, and which       *)
(* notices a client is offered.                                            *)
(***************************************************************************)
EXTENDS Admission, Access, Announcements, FiniteSetTheorems, TLAPS

-----------------------------------------------------------------------------
(* The settings                                                            *)

LEMMA NoEditFacts == NoEdit \in EditRequest /\ NoEdit.op = "idle"
  BY DEF NoEdit, EditRequest

LEMMA InitSettings == SettingsInit => SettingsTypeOK /\ EditsFollow
  BY NoEditFacts, SettingsAssumption
     DEF SettingsInit, SettingsTypeOK, EditsFollow, HistoryTellsValue, NoEdit

LEMMA SeedStep ==
    ASSUME SettingsTypeOK, EditsFollow, Seed
    PROVE  SettingsTypeOK' /\ EditsFollow'
  <1>1. SettingsTypeOK'
    BY DEF Seed, Seeded, SettingsTypeOK
  <1>2. CASE value = Unset
    <2>1. value' = Default /\ edits' = <<>> /\ \A e \in Editors : edit'[e] = NoEdit
      BY <1>2 DEF Seed, Seeded, EditsFollow
    <2>2. HistoryTellsValue'
      BY <2>1 DEF HistoryTellsValue, Before
    <2>3. QED
      BY <1>1, <2>1, <2>2, SettingsAssumption DEF EditsFollow
  <1>3. CASE value # Unset
    <2>1. UNCHANGED <<value, edits, edit>>
      BY <1>3 DEF Seed, Seeded
    <2>2. QED
      BY <1>1, <2>1 DEF EditsFollow, HistoryTellsValue, Before
  <1>4. QED
    BY <1>2, <1>3

LEMMA EditReadStep ==
    ASSUME SettingsTypeOK, EditsFollow, NEW e \in Editors, NEW v \in Values, EditRead(e, v)
    PROVE  SettingsTypeOK' /\ EditsFollow'
  <1> DEFINE r == [op |-> "edit", prev |-> value, new |-> v, began |-> Len(edits)]
  <1>1. /\ value # Unset /\ v \in Int /\ edit' = [edit EXCEPT ![e] = r]
        /\ UNCHANGED <<value, edits>> /\ Len(edits) \in Nat
    BY DEF EditRead, ValidValue, SettingsTypeOK
  <1>2. r \in EditRequest
    BY <1>1 DEF EditRequest, SettingsTypeOK
  <1>3. SettingsTypeOK'
    BY <1>1, <1>2 DEF SettingsTypeOK
  <1>4. HistoryTellsValue'
    BY <1>1 DEF HistoryTellsValue, Before, EditsFollow
  <1>5. ASSUME NEW f \in Editors, edit'[f] # NoEdit
        PROVE  /\ edit'[f].new \in Int /\ edit'[f].began <= Len(edits)
               /\ edit'[f].prev = Before(edit'[f].began + 1)
    <2>1. CASE f = e
      BY <1>1, <2>1 DEF SettingsTypeOK, EditsFollow, HistoryTellsValue
    <2>2. CASE f # e
      BY <1>1, <1>5, <2>2 DEF SettingsTypeOK, EditsFollow
    <2>3. QED
      BY <2>1, <2>2
  <1>6. \A f \in Editors : edit'[f] # NoEdit => edit'[f].prev = Before(edit[f].began + 1)'
    BY <1>1, <1>5 DEF Before
  <1>7. QED
    BY <1>1, <1>3, <1>4, <1>5, <1>6 DEF EditsFollow

LEMMA EditCommitStep ==
    ASSUME SettingsTypeOK, EditsFollow, NEW e \in Editors, EditCommit(e)
    PROVE  /\ SettingsTypeOK' /\ EditsFollow'
           /\ value # Unset /\ value' # Unset /\ value' \in Int
  <1> DEFINE n == Len(edits)
             row == [prev |-> edit[e].prev, new |-> edit[e].new, began |-> edit[e].began]
  <1>1. /\ edit[e] # NoEdit /\ value' = edit[e].new /\ edits' = Append(edits, row)
        /\ edit' = [edit EXCEPT ![e] = NoEdit]
    BY DEF EditCommit, Updated, EditRow
  <1>2. /\ edit[e] \in [op: {"edit"}, prev: Values \cup {Default}, new: Values, began: Nat]
        /\ edit[e].new \in Values /\ edit[e].prev \in Values \cup {Default}
        /\ edit[e].began \in Nat
    BY <1>1 DEF SettingsTypeOK, EditRequest
  <1>3. /\ value # Unset /\ edit[e].new \in Int /\ edit[e].new # Unset
        /\ edit[e].began <= n /\ edit[e].prev = Before(edit[e].began + 1)
    BY <1>1, <1>2, SettingsAssumption DEF EditsFollow
  <1>4. edits \in Seq(HistoryRow) /\ row \in HistoryRow /\ n \in Nat
    BY <1>2 DEF SettingsTypeOK, HistoryRow
  <1>5. /\ Len(edits') = n + 1 /\ DOMAIN edits' = 1 .. (n + 1) /\ DOMAIN edits = 1 .. n
        /\ edits'[n + 1] = row /\ \A k \in 1 .. n : edits'[k] = edits[k]
        /\ edits' \in Seq(HistoryRow)
    BY <1>1, <1>4
  <1>6. SettingsTypeOK'
    BY <1>1, <1>2, <1>5, NoEditFacts DEF SettingsTypeOK
  <1> DEFINE before(k) == IF k = 1 THEN Default ELSE edits'[k - 1].new
  <1>7. \A k \in 1 .. (n + 1) : before(k) = Before(k)
    BY <1>4, <1>5 DEF Before
  <1>8. HistoryTellsValue'
    <2>1. value' = before(Len(edits') + 1)
      BY <1>1, <1>4, <1>5
    <2>2. ASSUME NEW k \in 1 .. (n + 1)
          PROVE  edits'[k].began < k /\ edits'[k].prev = before(edits'[k].began + 1)
      <3>1. CASE k = n + 1
        <4>1. edits'[k].began = edit[e].began /\ edits'[k].prev = edit[e].prev
          BY <1>5, <3>1
        <4>2. edit[e].began + 1 \in 1 .. (n + 1)
          BY <1>2, <1>3, <1>4
        <4>3. QED
          BY <1>2, <1>3, <1>4, <1>7, <3>1, <4>1, <4>2
      <3>2. CASE k \in 1 .. n
        <4>1. /\ edits'[k] = edits[k] /\ edits[k].began < k
              /\ edits[k].prev = Before(edits[k].began + 1)
          BY <1>5, <3>2 DEF EditsFollow, HistoryTellsValue
        <4>2. edits[k].began \in Nat
          <5>1. edits[k] \in HistoryRow
            BY <1>4, <1>5, <3>2
          <5>2. QED
            BY <5>1 DEF HistoryRow
        <4>3. edits[k].began + 1 \in 1 .. (n + 1)
          BY <1>4, <3>2, <4>1, <4>2
        <4>4. QED
          BY <1>7, <4>1, <4>3
      <3>3. QED
        BY <1>4, <3>1, <3>2
    <2>3. QED
      BY <1>5, <2>1, <2>2 DEF HistoryTellsValue, Before
  <1>9. ASSUME NEW f \in Editors, edit'[f] # NoEdit
        PROVE  /\ edit'[f].new \in Int /\ edit'[f].began <= Len(edits')
               /\ edit'[f].prev = before(edit'[f].began + 1)
    <2>1. f # e /\ edit'[f] = edit[f] /\ edit[f] # NoEdit
      BY <1>1, <1>9 DEF SettingsTypeOK
    <2>2. /\ edit[f].began \in Nat /\ edit[f].began <= n /\ edit[f].new \in Int
          /\ edit[f].prev = Before(edit[f].began + 1)
      BY <2>1 DEF SettingsTypeOK, EditRequest, EditsFollow
    <2>3. edit[f].began + 1 \in 1 .. (n + 1)
      BY <1>4, <2>2
    <2>4. QED
      BY <1>4, <1>5, <1>7, <2>1, <2>2, <2>3
  <1>10. EditsFollow'
    <2>1. value' # Unset /\ value' \in Int
      BY <1>1, <1>3
    <2>2. QED
      BY <1>8, <1>9, <2>1 DEF EditsFollow, Before
  <1>11. QED
    BY <1>1, <1>3, <1>6, <1>10

LEMMA EditDropStep ==
    ASSUME SettingsTypeOK, EditsFollow, NEW e \in Editors, EditDrop(e)
    PROVE  SettingsTypeOK' /\ EditsFollow'
  <1>1. edit' = [edit EXCEPT ![e] = NoEdit] /\ UNCHANGED <<value, edits>>
    BY DEF EditDrop
  <1>2. SettingsTypeOK'
    BY <1>1, NoEditFacts DEF SettingsTypeOK
  <1>3. \A f \in Editors : edit'[f] # NoEdit => edit'[f] = edit[f]
    BY <1>1 DEF SettingsTypeOK
  <1>4. QED
    BY <1>1, <1>2, <1>3 DEF EditsFollow, HistoryTellsValue, Before

LEMMA SettingsFrame ==
    ASSUME SettingsTypeOK, EditsFollow, UNCHANGED settings
    PROVE  SettingsTypeOK' /\ EditsFollow'
  BY DEF settings, SettingsTypeOK, EditsFollow, HistoryTellsValue, Before

-----------------------------------------------------------------------------
(* Requests                                                                *)

LEMMA IdleFacts == Idle \in Request /\ Idle.op = "idle"
  BY DEF Idle, Request

LEMMA Constants ==
    /\ Skew \in Nat /\ MaxNow \in Nat /\ SafeDefault \in Int /\ Default \in Int
    /\ \A r \in Requests : Date[r] \in Int
  BY AdmissionAssumption, ServerAssumption, SettingsAssumption

LEMMA RequestFields ==
    ASSUME TypeOK, NEW s \in Sessions
    PROVE  /\ req[s] \in Request
           /\ req[s].op = "dated" => req[s].request \in Requests /\ req[s].came \in Times
           /\ req[s].op = "fresh" => req[s].request \in Requests
           /\ req[s].op = "limited" => req[s].limit \in Int
  BY DEF TypeOK, Request, Idle

\* The parts of the invariant, the types included.
LEMMA Parts ==
    IInv <=> /\ TypeOK /\ HandledAgain /\ LimitHolds /\ EditsFollow /\ NoncesKept
             /\ DatedInTime /\ LimitsTold
  BY DEF IInv, HandledAgain

LEMMA InitIInv == Init => IInv
  <1> SUFFICES ASSUME Init PROVE IInv
    OBVIOUS
  <1>1. SettingsTypeOK /\ EditsFollow
    BY InitSettings DEF Init
  <1>2. TypeOK
    BY <1>1, IdleFacts, Constants DEF Init, TypeOK, Times
  <1>3. NoncesKept /\ HandledAgain
    BY <1>2 DEF Init, NoncesKept, HandledAgain
  <1>4. DatedInTime /\ LimitsTold /\ LimitHolds
    BY <1>2, IdleFacts, Constants DEF Init, DatedInTime, LimitsTold, LimitHolds, Higher, SettingsInit
  <1>5. QED
    BY <1>1, <1>2, <1>3, <1>4, Parts

\* HandledAgain, handling by handling: why the i-th and the j-th of request r are apart.
Apart(r, i, j) ==
    \/ /\ handled[r][j].at >= handled[r][i].at + Skew
       /\ Date[r] >= handled[r][i].at - (handled[r][j].at - handled[r][j].came)
    \/ Forgotten(r, i, j)

AgainHolds(r, j) ==
    /\ handled[r][j].came - Date[r] <= Skew
    /\ \A i \in DOMAIN handled[r] : i < j => Apart(r, i, j)

LEMMA AgainParts ==
    HandledAgain <=> /\ TypeOK
                     /\ \A r \in Requests : \A j \in DOMAIN handled[r] : AgainHolds(r, j)
  BY DEF HandledAgain, AgainHolds, Apart

\* A step that handles no request keeps what was handled apart; one that tells no
\* limit keeps the ceiling.
LEMMA HandledFrame ==
    ASSUME TypeOK', HandledAgain, UNCHANGED handled, redis = "absent" => redis' = "absent"
    PROVE  HandledAgain'
  <1>1. \A r, i, j : Forgotten(r, i, j) => Forgotten(r, i, j)'
    BY DEF Forgotten
  <1>2. QED
    BY <1>1 DEF HandledAgain

LEMMA NoncesFrame ==
    ASSUME TypeOK, NoncesKept, UNCHANGED <<handled, nonces>>, now' = now,
           redis = "absent" => redis' = "absent"
    PROVE  NoncesKept'
  <1>1. \A r, i, j : Forgotten(r, i, j) => Forgotten(r, i, j)'
    BY DEF Forgotten
  <1>2. QED
    BY <1>1 DEF NoncesKept

\* A copy's request is replaced by one that is neither dated nor told a limit.
LEMMA CopyEnds ==
    ASSUME TypeOK, DatedInTime, LimitsTold, NEW s \in Sessions, NEW r,
           req' = [req EXCEPT ![s] = r], r.op \notin {"dated", "limited"},
           r = Idle \/ value # Unset, UNCHANGED <<value, ceiling>>, granted' <= count'
    PROVE  DatedInTime' /\ LimitsTold'
  <1>1. \A x \in Sessions : req'[x] = IF x = s THEN r ELSE req[x]
    BY DEF TypeOK
  <1>2. DatedInTime'
    BY <1>1 DEF DatedInTime
  <1>3. LimitsTold'
    BY <1>1 DEF LimitsTold
  <1>4. QED
    BY <1>2, <1>3

LEMMA ArriveStep ==
    ASSUME IInv, NEW s \in Sessions, NEW q \in Requests, Arrive(s, q)
    PROVE  IInv'
  <1> DEFINE r == [op |-> "dated", request |-> q, came |-> now]
  <1>1. /\ TypeOK /\ HandledAgain /\ LimitHolds /\ EditsFollow /\ NoncesKept /\ DatedInTime
        /\ LimitsTold
        /\ value # Unset /\ now - Date[q] <= Skew /\ req' = [req EXCEPT ![s] = r]
        /\ UNCHANGED <<settings, now, redis, nonces, count, handled, granted, ceiling>>
    BY Parts DEF Arrive, InDate, Start
  <1>2. SettingsTypeOK' /\ EditsFollow' /\ value' = value
    BY <1>1, SettingsFrame DEF TypeOK, settings
  <1>3. r \in Request
    BY <1>1 DEF TypeOK, Request
  <1>4. TypeOK'
    BY <1>1, <1>2, <1>3 DEF TypeOK
  <1>5. HandledAgain' /\ NoncesKept' /\ LimitHolds'
    BY <1>1, <1>4, HandledFrame, NoncesFrame DEF LimitHolds
  <1>6. \A x \in Sessions : req'[x] = IF x = s THEN r ELSE req[x]
    BY <1>1 DEF TypeOK
  <1>7. DatedInTime'
    BY <1>1, <1>6 DEF DatedInTime
  <1>8. LimitsTold'
    BY <1>1, <1>2, <1>6 DEF LimitsTold
  <1>9. QED
    BY <1>2, <1>4, <1>5, <1>7, <1>8 DEF IInv

LEMMA Appended ==
    ASSUME NEW S, NEW q \in Seq(S), NEW e \in S
    PROVE  /\ Len(q) \in Nat /\ DOMAIN q = 1 .. Len(q) /\ \A k \in 1 .. Len(q) : q[k] \in S
           /\ Append(q, e) \in Seq(S) /\ DOMAIN Append(q, e) = 1 .. (Len(q) + 1)
           /\ Len(Append(q, e)) = Len(q) + 1 /\ Append(q, e)[Len(q) + 1] = e
           /\ \A k \in 1 .. Len(q) : Append(q, e)[k] = q[k]
  OBVIOUS

\* A request that came in date at c and is handled at t, the last time at h.
LEMMA DatedAgain ==
    ASSUME NEW c \in Int, NEW d \in Int, NEW h \in Int, NEW t \in Int, NEW k \in Int,
           c - d <= k, h + k <= t
    PROVE  d >= h - (t - c)
  OBVIOUS

\* The copy goes on, and with the nonce it reserves the parting of its request's
\* handlings holds.
LEMMA HandledOnce ==
    ASSUME IInv, NEW s \in Sessions, NEW q, req[s].op = "dated", req[s].request = q,
           nonces[q] = NoKey,
           nonces' = [nonces EXCEPT ![q] = NonceExpiry],
           handled' = [handled EXCEPT ![q] = Append(handled[q], Handled(s))],
           now' = now, redis' = redis
    PROVE  /\ nonces' \in [Requests -> Nat \cup {NoKey}]
           /\ handled' \in [Requests -> Seq(Handling)]
           /\ NoncesKept'
           /\ \A r \in Requests : \A j \in DOMAIN handled'[r] : AgainHolds(r, j)'
  <1> DEFINE H == handled[q]
             n == Len(H)
             row == [came |-> req[s].came, at |-> now, gone |-> "no"]
  <1>1. /\ TypeOK /\ NoncesKept /\ q \in Requests /\ req[s].came \in Times
        /\ req[s].came - Date[q] <= Skew
        /\ \A r \in Requests : \A j \in DOMAIN handled[r] : AgainHolds(r, j)
    BY Parts, RequestFields, AgainParts DEF DatedInTime
  <1>2. /\ now \in Times /\ now \in Int /\ Skew \in Nat /\ req[s].came \in Int
        /\ \A r \in Requests : Date[r] \in Int
    BY <1>1, Constants DEF TypeOK, Times
  <1>3. H \in Seq(Handling) /\ n \in Nat /\ row \in Handling
    <2>1. H \in Seq(Handling)
      BY <1>1 DEF TypeOK
    <2>2. row \in Handling
      BY <1>1, <1>2 DEF Handling
    <2>3. QED
      BY <2>1, <2>2, Appended
  <1>4. /\ handled'[q] = Append(H, row) /\ nonces'[q] = now + Skew
        /\ \A r \in Requests \ {q} : handled'[r] = handled[r] /\ nonces'[r] = nonces[r]
    BY <1>1 DEF TypeOK, NonceExpiry, Handled
  <1>5. /\ Append(H, row) \in Seq(Handling) /\ Len(Append(H, row)) = n + 1
        /\ DOMAIN Append(H, row) = 1 .. (n + 1) /\ DOMAIN H = 1 .. n
        /\ Append(H, row)[n + 1] = row /\ \A k \in 1 .. n : Append(H, row)[k] = H[k]
        /\ \A k \in 1 .. n : H[k] \in Handling
    <2> HIDE DEF H, row
    <2>1. QED
      BY <1>3, Appended
  <1>6. \A k \in 1 .. n : /\ H[k].at \in Int /\ H[k].came \in Int
                          /\ H[k].at + Skew <= now \/ Forgotten(q, k, n + 1)
    <2>1. \A k \in 1 .. n : H[k].at + Skew <= now \/ Forgotten(q, k, n + 1)
      BY <1>1, <1>5 DEF NoncesKept
    <2>2. \A k \in 1 .. n : H[k].at \in Times /\ H[k].came \in Times
      <3> HIDE DEF H, n
      <3>1. QED
        BY <1>5 DEF Handling
    <2>3. Times \subseteq Int
      BY Constants DEF Times
    <2>4. QED
      BY <2>1, <2>2, <2>3
  <1>7. nonces' \in [Requests -> Nat \cup {NoKey}]
    BY <1>1, <1>2, Constants DEF TypeOK, NonceExpiry, Times
  <1>8. handled' \in [Requests -> Seq(Handling)]
    BY <1>1, <1>4, <1>5 DEF TypeOK
  <1>9. /\ \A r \in Requests \ {q} : \A i, j : Forgotten(r, i, j)' <=> Forgotten(r, i, j)
        /\ \A i \in 1 .. n, j \in 1 .. (n + 1) : Forgotten(q, i, j) => Forgotten(q, i, j)'
        /\ \A i \in 1 .. n : Forgotten(q, i, n + 1) => Forgotten(q, i, n + 2)'
    <2>1. \A r \in Requests \ {q} : \A i, j : Forgotten(r, i, j)' <=> Forgotten(r, i, j)
      BY <1>4 DEF Forgotten
    <2>2. ASSUME NEW i \in 1 .. n, NEW j \in 1 .. (n + 1), Forgotten(q, i, j)
          PROVE  Forgotten(q, i, j)' /\ (j = n + 1 => Forgotten(q, i, n + 2)')
      <3>1. PICK k \in i .. (j - 1) : H[k].gone = "yes"
        BY <2>2 DEF Forgotten
      <3>2. k \in 1 .. n /\ k \in i .. (n + 1)
        BY <1>3, <3>1
      <3>3. handled'[q][k].gone = "yes"
        BY <1>4, <1>5, <3>1, <3>2
      <3>4. redis' = "absent"
        BY <2>2 DEF Forgotten
      <3>5. n + 2 - 1 = n + 1
        BY <1>3
      <3>6. QED
        BY <3>1, <3>2, <3>3, <3>4, <3>5 DEF Forgotten
    <2>3. n + 1 \in 1 .. (n + 1)
      BY <1>3
    <2>4. QED
      BY <2>1, <2>2, <2>3
  <1>10. NoncesKept'
    <2>1. ASSUME NEW r \in Requests, NEW i \in DOMAIN handled'[r]
          PROVE  \/ handled'[r][i].at + Skew <= now
                 \/ Forgotten(r, i, Len(handled[r]) + 1)'
                 \/ nonces'[r] # NoKey /\ handled'[r][i].at + Skew <= nonces'[r]
      <3>1. CASE r # q
        <4>1. handled'[r] = handled[r] /\ nonces'[r] = nonces[r] /\ i \in DOMAIN handled[r]
          BY <1>4, <2>1, <3>1
        <4>2. Forgotten(r, i, Len(handled[r]) + 1) => Forgotten(r, i, Len(handled[r]) + 1)'
          BY <4>1 DEF Forgotten
        <4>3. QED
          BY <1>1, <4>1, <4>2 DEF NoncesKept
      <3>2. CASE r = q
        <4>1. i \in 1 .. (n + 1)
          BY <1>4, <1>5, <2>1, <3>2
        <4>2. CASE i = n + 1
          <5>1. handled'[r][i].at = now /\ nonces'[r] = now + Skew
            BY <1>4, <1>5, <3>2, <4>2
          <5>2. now + Skew # NoKey
            BY <1>2, AdmissionAssumption, ServerAssumption DEF Times
          <5>3. QED
            BY <1>2, <5>1, <5>2
        <4>3. CASE i \in 1 .. n
          <5>1. handled'[r][i] = H[i] /\ Len(handled'[r]) + 1 = n + 2
            BY <1>3, <1>4, <1>5, <3>2, <4>3
          <5>2. Forgotten(q, i, n + 1) => Forgotten(r, i, Len(handled[r]) + 1)'
            BY <1>9, <3>2, <4>3, <5>1 DEF Forgotten
          <5>3. QED
            BY <1>6, <4>3, <5>1, <5>2
        <4>4. QED
          BY <1>3, <4>1, <4>2, <4>3
      <3>3. QED
        BY <3>1, <3>2
    <2>2. QED
      BY <2>1 DEF NoncesKept
  <1>11. ASSUME NEW r \in Requests, NEW j \in DOMAIN handled'[r]
         PROVE  AgainHolds(r, j)'
    <2>1. CASE r # q
      <3>1. handled'[r] = handled[r] /\ AgainHolds(r, j)
        BY <1>1, <1>4, <1>11, <2>1
      <3>2. QED
        BY <1>9, <2>1, <3>1 DEF AgainHolds, Apart
    <2>2. CASE r = q /\ j = n + 1
      <3>1. handled'[r][j].at = now /\ handled'[r][j].came = req[s].came
        BY <1>4, <1>5, <2>2
      <3>2. ASSUME NEW i \in DOMAIN handled'[r], i < j
            PROVE  Apart(r, i, j)'
        <4>1. i \in 1 .. n /\ handled'[r][i] = H[i]
          BY <1>3, <1>4, <1>5, <2>2, <3>2
        <4>2. CASE H[i].at + Skew <= now
          <5>1. Date[q] >= H[i].at - (now - req[s].came)
            <6> HIDE DEF H
            <6>1. Date[q] \in Int /\ H[i].at \in Int
              BY <1>1, <1>2, <1>6, <4>1
            <6>2. QED
              BY <1>1, <1>2, <4>2, <6>1, DatedAgain
          <5>2. now >= H[i].at + Skew
            BY <1>2, <1>6, <4>1, <4>2
          <5>3. QED
            BY <2>2, <3>1, <4>1, <5>1, <5>2 DEF Apart
        <4>3. CASE Forgotten(q, i, n + 1)
          <5>1. n + 1 \in 1 .. (n + 1)
            BY <1>3
          <5>2. Forgotten(r, i, j)'
            BY <1>9, <2>2, <4>1, <4>3, <5>1
          <5>3. QED
            BY <5>2 DEF Apart
        <4>4. QED
          BY <1>6, <4>1, <4>2, <4>3
      <3>3. QED
        BY <1>1, <2>2, <3>1, <3>2 DEF AgainHolds
    <2>3. CASE r = q /\ j \in 1 .. n
      <3>1. handled'[r][j] = H[j] /\ AgainHolds(r, j)
        BY <1>1, <1>4, <1>5, <2>3
      <3>2. ASSUME NEW i \in DOMAIN handled'[r], i < j
            PROVE  Apart(r, i, j)'
        <4>1. i \in 1 .. n /\ handled'[r][i] = H[i] /\ j \in 1 .. (n + 1)
          BY <1>3, <1>4, <1>5, <2>3, <3>2
        <4>2. Apart(r, i, j)
          BY <1>5, <2>3, <3>1, <3>2, <4>1 DEF AgainHolds
        <4>3. Forgotten(r, i, j) => Forgotten(r, i, j)'
          BY <1>9, <2>3, <4>1
        <4>4. QED
          BY <2>3, <3>1, <4>1, <4>2, <4>3 DEF Apart
      <3>3. QED
        BY <3>1, <3>2 DEF AgainHolds
    <2>4. QED
      <3>1. r = q => j \in 1 .. (n + 1)
        BY <1>4, <1>5, <1>11
      <3>2. QED
        BY <1>3, <2>1, <2>2, <2>3, <3>1
  <1>12. QED
    BY <1>7, <1>8, <1>10, <1>11

LEMMA ReserveStep ==
    ASSUME IInv, NEW s \in Sessions, Reserve(s)
    PROVE  IInv'
  <1> DEFINE q == req[s].request
  <1>1. /\ TypeOK /\ HandledAgain /\ LimitHolds /\ EditsFollow /\ NoncesKept /\ DatedInTime
        /\ LimitsTold /\ req[s].op = "dated" /\ q \in Requests
        /\ UNCHANGED <<settings, now, redis, count, granted, ceiling>>
    BY Parts, RequestFields DEF Reserve
  <1>2. SettingsTypeOK' /\ EditsFollow' /\ value' = value /\ value # Unset
    <2>1. value # Unset
      BY <1>1, IdleFacts DEF LimitsTold
    <2>2. QED
      BY <1>1, <2>1, SettingsFrame DEF TypeOK, settings
  <1>3. PICK r \in Request : /\ req' = [req EXCEPT ![s] = r]
                             /\ r.op \notin {"dated", "limited"}
    <2>1. [op |-> "fresh", request |-> q] \in Request
      BY <1>1 DEF Request
    <2>2. QED
      BY <2>1, IdleFacts DEF Reserve, Continue, End
  <1>4. DatedInTime' /\ LimitsTold'
    BY <1>1, <1>2, <1>3, CopyEnds DEF LimitsTold
  <1>5. LimitHolds'
    BY <1>1 DEF LimitHolds
  <1>6. CASE /\ nonces[q] = NoKey
             /\ nonces' = [nonces EXCEPT ![q] = NonceExpiry]
             /\ handled' = [handled EXCEPT ![q] = Append(handled[q], Handled(s))]
    <2>1. /\ nonces' \in [Requests -> Nat \cup {NoKey}]
          /\ handled' \in [Requests -> Seq(Handling)]
          /\ NoncesKept'
          /\ \A x \in Requests : \A j \in DOMAIN handled'[x] : AgainHolds(x, j)'
      BY <1>1, <1>6, HandledOnce
    <2>2. TypeOK'
      BY <1>1, <1>2, <1>3, <2>1 DEF TypeOK
    <2>3. HandledAgain'
      BY <2>1, <2>2, AgainParts DEF HandledAgain, AgainHolds, Apart
    <2>4. QED
      BY <1>2, <1>4, <1>5, <2>1, <2>3 DEF IInv
  <1>7. CASE UNCHANGED <<nonces, handled>>
    <2>1. TypeOK'
      BY <1>1, <1>2, <1>3, <1>7 DEF TypeOK
    <2>2. HandledAgain' /\ NoncesKept'
      BY <1>1, <1>7, <2>1, HandledFrame, NoncesFrame
    <2>3. QED
      BY <1>2, <1>4, <1>5, <2>2 DEF IInv
  <1>8. QED
    BY <1>6, <1>7 DEF Reserve

\* The limit that is told is an integer, and the ceiling follows it.
LEMMA ReadLimitStep ==
    ASSUME IInv, NEW s \in Sessions, ReadLimit(s)
    PROVE  IInv'
  <1>1. /\ TypeOK /\ HandledAgain /\ LimitHolds /\ EditsFollow /\ NoncesKept /\ DatedInTime
        /\ LimitsTold /\ req[s].op = "fresh" /\ value # Unset /\ value \in Int
        /\ ceiling \in Int /\ granted \in Nat
        /\ UNCHANGED <<settings, now, redis, nonces, count, handled, granted>>
    BY Parts, IdleFacts DEF ReadLimit, LimitsTold, EditsFollow, TypeOK
  <1>2. SettingsTypeOK' /\ EditsFollow' /\ value' = value
    BY <1>1, SettingsFrame DEF TypeOK, settings
  <1>3. CASE redis = "absent"
    <2>1. req' = [req EXCEPT ![s] = Idle] /\ ceiling' = ceiling
      BY <1>3 DEF ReadLimit, End
    <2>2. TypeOK'
      BY <1>1, <1>2, <2>1, IdleFacts DEF TypeOK
    <2>3. DatedInTime' /\ LimitsTold'
      BY <1>1, <1>2, <2>1, IdleFacts, CopyEnds DEF LimitsTold
    <2>4. HandledAgain' /\ NoncesKept' /\ LimitHolds'
      BY <1>1, <2>1, <2>2, HandledFrame, NoncesFrame DEF LimitHolds
    <2>5. QED
      BY <1>2, <2>3, <2>4 DEF IInv
  <1>4. CASE redis # "absent"
    <2>1. PICK limit \in {value, SafeDefault} :
              /\ req' = [req EXCEPT ![s] = [op |-> "limited", limit |-> limit]]
              /\ ceiling' = Higher(ceiling, limit)
      BY <1>4 DEF ReadLimit, Limits, Continue
    <2>2. limit \in Int
      BY <1>1, Constants
    <2>3. [op |-> "limited", limit |-> limit] \in Request
      BY <2>2 DEF Request
    <2>4. ceiling' \in Int /\ ceiling' >= ceiling /\ ceiling' >= limit
      BY <1>1, <2>1, <2>2 DEF Higher
    <2>5. TypeOK'
      BY <1>1, <1>2, <2>1, <2>3, <2>4 DEF TypeOK
    <2>6. \A x \in Sessions :
              req'[x] = IF x = s THEN [op |-> "limited", limit |-> limit] ELSE req[x]
      BY <1>1, <2>1 DEF TypeOK
    <2>7. DatedInTime'
      BY <1>1, <2>6 DEF DatedInTime
    <2>8. LimitsTold'
      <3>1. ASSUME NEW x \in Sessions, req'[x].op = "limited"
            PROVE  req'[x].limit <= ceiling'
        <4>1. CASE x = s
          BY <2>2, <2>4, <2>6, <4>1
        <4>2. CASE x # s
          <5>1. req[x].limit \in Int /\ req[x].limit <= ceiling /\ req'[x] = req[x]
            BY <1>1, <2>6, <3>1, <4>2, RequestFields DEF LimitsTold
          <5>2. QED
            BY <1>1, <2>4, <5>1
        <4>3. QED
          BY <4>1, <4>2
      <3>2. value' <= ceiling'
        BY <1>1, <1>2, <2>4 DEF LimitsTold
      <3>3. QED
        BY <1>1, <1>2, <3>1, <3>2 DEF LimitsTold
    <2>9. LimitHolds'
      <3>1. granted <= Higher(ceiling, 0)
        BY <1>1 DEF LimitHolds
      <3>2. granted <= Higher(ceiling', 0)
        BY <1>1, <2>4, <3>1 DEF Higher
      <3>3. QED
        BY <1>1, <3>2 DEF LimitHolds
    <2>10. HandledAgain' /\ NoncesKept'
      BY <1>1, <2>5, HandledFrame, NoncesFrame
    <2>11. QED
      BY <1>2, <2>7, <2>8, <2>9, <2>10 DEF IInv
  <1>5. QED
    BY <1>3, <1>4

LEMMA HitStep ==
    ASSUME IInv, NEW s \in Sessions, Hit(s)
    PROVE  IInv'
  <1>1. /\ TypeOK /\ HandledAgain /\ LimitHolds /\ EditsFollow /\ NoncesKept /\ DatedInTime
        /\ LimitsTold /\ req[s].op = "limited" /\ req[s].limit \in Int
        /\ req[s].limit <= ceiling /\ ceiling \in Int /\ granted \in Nat /\ count \in Nat
        /\ granted <= count /\ req' = [req EXCEPT ![s] = Idle]
        /\ UNCHANGED <<settings, now, redis, nonces, handled, ceiling>>
    BY Parts, RequestFields DEF Hit, End, LimitsTold, TypeOK
  <1>2. SettingsTypeOK' /\ EditsFollow' /\ value' = value
    BY <1>1, SettingsFrame DEF TypeOK, settings
  <1>3. /\ count' \in Nat /\ granted' \in Nat /\ granted' <= count'
        /\ granted' <= Higher(ceiling, 0)
    <2>1. granted <= Higher(ceiling, 0)
      BY <1>1 DEF LimitHolds
    <2>2. CASE UNCHANGED <<count, granted>>
      BY <1>1, <2>1, <2>2
    <2>3. CASE /\ count' = count + 1
               /\ granted' = IF Within(count', req[s].limit) THEN granted + 1 ELSE granted
      BY <1>1, <2>1, <2>3 DEF Within, Higher
    <2>4. QED
      BY <2>2, <2>3 DEF Hit
  <1>4. TypeOK'
    BY <1>1, <1>2, <1>3, IdleFacts DEF TypeOK
  <1>5. DatedInTime' /\ LimitsTold'
    BY <1>1, <1>2, <1>3, IdleFacts, CopyEnds
  <1>6. LimitHolds'
    BY <1>1, <1>3 DEF LimitHolds
  <1>7. HandledAgain' /\ NoncesKept'
    BY <1>1, <1>4, HandledFrame, NoncesFrame
  <1>8. QED
    BY <1>2, <1>5, <1>6, <1>7 DEF IInv

LEMMA DropOutageStep ==
    ASSUME IInv, Outage \/ (\E s \in Sessions : Drop(s))
    PROVE  IInv'
  <1>1. /\ TypeOK /\ HandledAgain /\ LimitHolds /\ EditsFollow /\ NoncesKept /\ DatedInTime
        /\ LimitsTold /\ UNCHANGED <<settings, now, nonces, count, handled, granted, ceiling>>
        /\ redis = "absent" => redis' = "absent"
    BY Parts DEF Outage, RedisTurns, Drop
  <1>2. SettingsTypeOK' /\ EditsFollow' /\ value' = value
    BY <1>1, SettingsFrame DEF TypeOK, settings
  <1>3. /\ req' \in [Sessions -> Request]
        /\ redis' \in {"absent", "up", "down"} /\ DatedInTime' /\ LimitsTold'
    <2>1. CASE Outage
      <3>1. req' = req /\ redis' \in {"absent", "up", "down"}
        BY <2>1 DEF Outage, RedisTurns
      <3>2. QED
        BY <1>1, <1>2, <3>1 DEF TypeOK, DatedInTime, LimitsTold
    <2>2. ASSUME NEW s \in Sessions, Drop(s)
          PROVE  /\ req' \in [Sessions -> Request]
                 /\ redis' \in {"absent", "up", "down"} /\ DatedInTime' /\ LimitsTold'
      <3>1. req' = [req EXCEPT ![s] = Idle] /\ redis' = redis
        BY <2>2 DEF Drop, End
      <3>2. DatedInTime' /\ LimitsTold'
        BY <1>1, <1>2, <3>1, IdleFacts, CopyEnds DEF LimitsTold
      <3>3. QED
        BY <1>1, <3>1, <3>2, IdleFacts DEF TypeOK
    <2>3. QED
      BY <2>1, <2>2
  <1>4. TypeOK'
    BY <1>1, <1>2, <1>3 DEF TypeOK
  <1>5. HandledAgain' /\ NoncesKept' /\ LimitHolds'
    BY <1>1, <1>4, HandledFrame, NoncesFrame DEF LimitHolds
  <1>6. QED
    BY <1>2, <1>3, <1>5 DEF IInv

\* Outlived marks the last handling and leaves the rest of a history as it was.
LEMMA OutlivedFacts ==
    ASSUME NEW h \in Seq(Handling)
    PROVE  /\ Outlived(h) \in Seq(Handling)
           /\ Len(Outlived(h)) = Len(h) /\ Len(h) \in Nat
           /\ DOMAIN Outlived(h) = 1 .. Len(h) /\ DOMAIN h = 1 .. Len(h)
           /\ \A i \in 1 .. Len(h) :
                 /\ Outlived(h)[i].came = h[i].came /\ Outlived(h)[i].at = h[i].at
                 /\ h[i].gone = "yes" => Outlived(h)[i].gone = "yes"
                 /\ i = Len(h) => Outlived(h)[i].gone = "yes"
  <1> DEFINE row(i) == [came |-> h[i].came, at |-> h[i].at,
                        gone |-> IF i = Len(h) THEN "yes" ELSE h[i].gone]
  <1>1. Outlived(h) = [i \in 1 .. Len(h) |-> row(i)]
    BY DEF Outlived
  <1>2. \A i \in 1 .. Len(h) : row(i) \in Handling
    <2>1. \A i \in 1 .. Len(h) : h[i] \in Handling
      OBVIOUS
    <2>2. QED
      BY <2>1 DEF Handling
  <1>3. \A i \in 1 .. Len(h) :
            /\ row(i).came = h[i].came /\ row(i).at = h[i].at
            /\ h[i].gone = "yes" => row(i).gone = "yes"
            /\ i = Len(h) => row(i).gone = "yes"
    OBVIOUS
  <1> HIDE DEF row
  <1>4. QED
    BY <1>1, <1>2, <1>3

LEMMA RestartStep ==
    ASSUME IInv, Restart
    PROVE  IInv'
  <1>1. /\ TypeOK /\ HandledAgain /\ LimitHolds /\ EditsFollow /\ NoncesKept /\ DatedInTime
        /\ LimitsTold /\ Seed /\ \A s \in Sessions : req'[s] = Idle
        /\ req' \in [Sessions -> Request]
        /\ UNCHANGED <<now, redis, count, granted, ceiling>>
    BY Parts, IdleFacts DEF Restart
  <1>2. SettingsTypeOK' /\ EditsFollow'
    BY <1>1, SeedStep DEF TypeOK
  <1>3. \/ UNCHANGED <<nonces, handled>>
        \/ /\ redis = "absent" /\ nonces' = [r \in Requests |-> NoKey]
           /\ handled' = [r \in Requests |-> Outlived(handled[r])]
    BY DEF Restart
  <1>4. \A r \in Requests : handled[r] \in Seq(Handling)
    BY <1>1 DEF TypeOK
  <1>5. /\ nonces' \in [Requests -> Nat \cup {NoKey}]
        /\ handled' \in [Requests -> Seq(Handling)]
    <2>1. CASE UNCHANGED <<nonces, handled>>
      BY <1>1, <2>1 DEF TypeOK
    <2>2. CASE /\ nonces' = [r \in Requests |-> NoKey]
               /\ handled' = [r \in Requests |-> Outlived(handled[r])]
      BY <1>4, <2>2, OutlivedFacts
    <2>3. QED
      BY <1>3, <2>1, <2>2
  <1>6. TypeOK'
    BY <1>1, <1>2, <1>5 DEF TypeOK
  <1>7. HandledAgain' /\ NoncesKept'
    <2>1. CASE UNCHANGED <<nonces, handled>>
      BY <1>1, <1>6, <2>1, HandledFrame, NoncesFrame
    <2>2. CASE redis = "absent" /\ handled' = [r \in Requests |-> Outlived(handled[r])]
      <3>1. redis' = "absent"
        BY <1>1, <2>2
      <3>2. ASSUME NEW r \in Requests
            PROVE  /\ Len(handled'[r]) = Len(handled[r]) /\ Len(handled[r]) \in Nat
                   /\ DOMAIN handled'[r] = 1 .. Len(handled[r])
                   /\ DOMAIN handled[r] = 1 .. Len(handled[r])
                   /\ \A i \in 1 .. Len(handled[r]) :
                         /\ handled'[r][i].came = handled[r][i].came
                         /\ handled'[r][i].at = handled[r][i].at
                         /\ handled[r][i].gone = "yes" => handled'[r][i].gone = "yes"
                         /\ i = Len(handled[r]) => handled'[r][i].gone = "yes"
        BY <1>4, <2>2, OutlivedFacts
      <3>3. ASSUME NEW r \in Requests, NEW j \in DOMAIN handled'[r]
            PROVE  AgainHolds(r, j)'
        <4>1. AgainHolds(r, j) /\ j \in 1 .. Len(handled[r])
          BY <1>1, <3>2, <3>3, AgainParts
        <4>2. ASSUME NEW i \in 1 .. Len(handled[r]), Forgotten(r, i, j)
              PROVE  Forgotten(r, i, j)'
          <5>1. PICK k \in i .. (j - 1) : handled[r][k].gone = "yes"
            BY <4>2 DEF Forgotten
          <5>2. k \in 1 .. Len(handled[r])
            BY <3>2, <4>1, <5>1
          <5>3. QED
            BY <3>1, <3>2, <5>1, <5>2 DEF Forgotten
        <4>3. \A i \in 1 .. Len(handled[r]) : i < j => Apart(r, i, j)'
          BY <3>2, <4>1, <4>2 DEF AgainHolds, Apart
        <4>4. QED
          BY <3>2, <4>1, <4>3 DEF AgainHolds
      <3>4. ASSUME NEW r \in Requests, NEW i \in DOMAIN handled'[r]
            PROVE  Forgotten(r, i, Len(handled[r]) + 1)'
        <4> DEFINE m == Len(handled[r])
        <4>1. m \in Nat /\ i \in 1 .. m /\ Len(handled'[r]) = m
          BY <3>2, <3>4
        <4>2. m \in i .. (m + 1 - 1) /\ m \in 1 .. m
          BY <4>1
        <4>3. handled'[r][m].gone = "yes"
          BY <3>2, <4>2
        <4>4. QED
          BY <3>1, <4>1, <4>2, <4>3 DEF Forgotten
      <3>5. QED
        BY <1>6, <3>3, <3>4, AgainParts DEF HandledAgain, AgainHolds, Apart, NoncesKept
    <2>3. QED
      BY <1>3, <2>1, <2>2
  <1>8. DatedInTime'
    BY <1>1, IdleFacts DEF DatedInTime
  <1>9. LimitsTold'
    <2>1. value' # Unset /\ value' <= ceiling
      <3>1. CASE value = Unset
        BY <1>1, <3>1, Constants, SettingsAssumption DEF Seed, Seeded, LimitsTold
      <3>2. CASE value # Unset
        BY <1>1, <3>2 DEF Seed, Seeded, LimitsTold
      <3>3. QED
        BY <3>1, <3>2
    <2>2. QED
      BY <1>1, <2>1, IdleFacts DEF LimitsTold
  <1>10. LimitHolds'
    BY <1>1 DEF LimitHolds
  <1>11. QED
    BY <1>2, <1>7, <1>8, <1>9, <1>10 DEF IInv

\* The counter of a new window starts over; the ceiling is what its requests were told.
LEMMA TickStep ==
    ASSUME IInv, Tick
    PROVE  IInv'
  <1>1. /\ TypeOK /\ HandledAgain /\ LimitHolds /\ EditsFollow /\ NoncesKept /\ DatedInTime
        /\ LimitsTold /\ now' = now + 1 /\ now < MaxNow /\ now \in Nat
        /\ nonces' = [r \in Requests |-> IF nonces[r] # NoKey /\ nonces[r] <= now + 1
                                         THEN NoKey ELSE nonces[r]]
        /\ UNCHANGED <<settings, redis, req, handled>>
    BY Parts DEF Tick, TypeOK, Times
  <1>2. SettingsTypeOK' /\ EditsFollow' /\ value' = value
    BY <1>1, SettingsFrame DEF TypeOK, settings
  <1>3. /\ count' \in Nat /\ granted' \in Nat /\ ceiling' \in Int /\ granted' <= count'
        /\ granted' <= Higher(ceiling', 0) /\ LimitsTold'
    <2>1. CASE UNCHANGED <<count, granted, ceiling>>
      BY <1>1, <1>2, <2>1 DEF TypeOK, LimitHolds, LimitsTold
    <2>2. CASE /\ value # Unset /\ count' = 0 /\ granted' = 0
               /\ \E c \in Told : (\A d \in Told : d <= c) /\ ceiling' = c
      <3>1. value \in Int /\ \A s \in Sessions : req[s].op = "limited" => req[s].limit \in Int
        BY <1>1, <2>2, RequestFields DEF EditsFollow
      <3>2. ceiling' \in Told /\ \A d \in Told : d <= ceiling'
        BY <2>2
      <3>3. \A d \in Told : d \in Int
        BY <3>1 DEF Told
      <3>4. value \in Told /\ \A s \in Sessions : req[s].op = "limited" => req[s].limit \in Told
        BY DEF Told
      <3>5. ceiling' \in Int /\ granted' <= Higher(ceiling', 0)
        BY <2>2, <3>2, <3>3 DEF Higher
      <3>6. LimitsTold'
        BY <1>1, <1>2, <2>2, <3>2, <3>4 DEF LimitsTold
      <3>7. QED
        BY <2>2, <3>5, <3>6
    <2>3. QED
      BY <2>1, <2>2 DEF Tick
  <1>4. nonces' \in [Requests -> Nat \cup {NoKey}]
    BY <1>1 DEF TypeOK
  <1>5. TypeOK'
    BY <1>1, <1>2, <1>3, <1>4, Constants DEF TypeOK, Times
  <1>6. HandledAgain'
    BY <1>1, <1>5, HandledFrame
  <1>7. NoncesKept'
    <2>1. ASSUME NEW r \in Requests, NEW i \in DOMAIN handled[r]
          PROVE  \/ handled[r][i].at + Skew <= now + 1
                 \/ Forgotten(r, i, Len(handled[r]) + 1)
                 \/ nonces'[r] # NoKey /\ handled[r][i].at + Skew <= nonces'[r]
      <3>1. handled[r][i].at \in Int
        <4>1. handled[r] \in Seq(Handling)
          BY <1>1 DEF TypeOK
        <4>2. handled[r][i] \in Handling
          BY <2>1, <4>1
        <4>3. handled[r][i].at \in Times
          BY <4>2 DEF Handling
        <4>4. QED
          BY <4>3, Constants DEF Times
      <3>2. \/ handled[r][i].at + Skew <= now
            \/ Forgotten(r, i, Len(handled[r]) + 1)
            \/ nonces[r] # NoKey /\ handled[r][i].at + Skew <= nonces[r]
        BY <1>1, <2>1 DEF NoncesKept
      <3>3. nonces[r] # NoKey => nonces[r] \in Nat
        BY <1>1, <2>1 DEF TypeOK
      <3>4. nonces'[r] = IF nonces[r] # NoKey /\ nonces[r] <= now + 1 THEN NoKey ELSE nonces[r]
        BY <1>1, <2>1
      <3>5. now \in Int /\ Skew \in Int
        BY <1>1, Constants
      <3>6. QED
        BY <3>1, <3>2, <3>3, <3>4, <3>5
    <2>2. \A r, i : Forgotten(r, i, Len(handled[r]) + 1)' = Forgotten(r, i, Len(handled[r]) + 1)
      BY <1>1 DEF Forgotten
    <2>3. QED
      BY <1>1, <2>1, <2>2 DEF NoncesKept
  <1>8. DatedInTime'
    BY <1>1 DEF DatedInTime
  <1>9. LimitHolds'
    BY <1>3 DEF LimitHolds
  <1>10. QED
    BY <1>2, <1>3, <1>6, <1>7, <1>8, <1>9 DEF IInv

LEMMA EditedStep ==
    ASSUME IInv, NEW e \in Editors, Edited(e)
    PROVE  IInv'
  <1>1. /\ TypeOK /\ HandledAgain /\ LimitHolds /\ EditsFollow /\ NoncesKept /\ DatedInTime
        /\ LimitsTold /\ SettingsTypeOK /\ ceiling \in Int /\ granted \in Nat
        /\ EditCommit(e) /\ ceiling' = Higher(ceiling, value')
        /\ UNCHANGED <<now, redis, nonces, count, req, handled, granted>>
    BY Parts DEF Edited, TypeOK
  <1>2. /\ SettingsTypeOK' /\ EditsFollow'
        /\ value # Unset /\ value' # Unset /\ value' \in Int
    BY <1>1, EditCommitStep
  <1>3. ceiling' \in Int /\ ceiling' >= ceiling /\ ceiling' >= value'
    BY <1>1, <1>2 DEF Higher
  <1>4. TypeOK'
    BY <1>1, <1>2, <1>3 DEF TypeOK
  <1>5. HandledAgain' /\ NoncesKept'
    BY <1>1, <1>4, HandledFrame, NoncesFrame
  <1>6. DatedInTime'
    BY <1>1 DEF DatedInTime
  <1>7. LimitsTold'
    <2>1. ASSUME NEW s \in Sessions, req[s].op = "limited"
          PROVE  req[s].limit <= ceiling'
      <3>1. req[s].limit \in Int /\ req[s].limit <= ceiling
        BY <1>1, <2>1, RequestFields DEF LimitsTold
      <3>2. QED
        BY <1>1, <1>3, <3>1
    <2>2. QED
      BY <1>1, <1>2, <1>3, <2>1 DEF LimitsTold
  <1>8. LimitHolds'
    <2>1. granted <= Higher(ceiling, 0)
      BY <1>1 DEF LimitHolds
    <2>2. granted <= Higher(ceiling', 0)
      BY <1>1, <1>3, <2>1 DEF Higher
    <2>3. QED
      BY <1>1, <2>2 DEF LimitHolds
  <1>9. QED
    BY <1>2, <1>5, <1>6, <1>7, <1>8 DEF IInv

LEMMA EditingStep ==
    ASSUME IInv, NEW e \in Editors, Editing(e)
    PROVE  IInv'
  <1>1. /\ TypeOK /\ HandledAgain /\ LimitHolds /\ EditsFollow /\ NoncesKept /\ DatedInTime
        /\ LimitsTold /\ SettingsTypeOK
        /\ UNCHANGED <<now, redis, nonces, count, req, handled, granted, ceiling>>
    BY Parts DEF Editing, TypeOK
  <1>2. SettingsTypeOK' /\ EditsFollow' /\ value' = value
    <2>1. ASSUME NEW v \in Values, EditRead(e, v)
          PROVE  SettingsTypeOK' /\ EditsFollow' /\ value' = value
      <3>1. value' = value
        BY <2>1 DEF EditRead
      <3>2. QED
        BY <1>1, <2>1, <3>1, EditReadStep
    <2>2. CASE EditDrop(e)
      <3>1. value' = value
        BY <2>2 DEF EditDrop
      <3>2. QED
        BY <1>1, <2>2, <3>1, EditDropStep
    <2>3. QED
      BY <2>1, <2>2 DEF Editing
  <1>3. TypeOK'
    BY <1>1, <1>2 DEF TypeOK
  <1>4. HandledAgain' /\ NoncesKept'
    BY <1>1, <1>3, HandledFrame, NoncesFrame
  <1>5. DatedInTime' /\ LimitsTold' /\ LimitHolds'
    BY <1>1, <1>2 DEF DatedInTime, LimitsTold, LimitHolds
  <1>6. QED
    BY <1>2, <1>4, <1>5 DEF IInv

-----------------------------------------------------------------------------
(* The theorems                                                            *)

LEMMA NextIInv == IInv /\ [Next]_vars => IInv'
  <1> SUFFICES ASSUME IInv, [Next]_vars
               PROVE  IInv'
    OBVIOUS
  <1>1. ASSUME NEW s \in Sessions, Copy(s)
        PROVE  IInv'
    BY <1>1, ArriveStep, ReserveStep, ReadLimitStep, HitStep, DropOutageStep DEF Copy
  <1>2. ASSUME NEW e \in Editors, Edited(e) \/ Editing(e)
        PROVE  IInv'
    BY <1>2, EditedStep, EditingStep
  <1>3. CASE Restart \/ Outage \/ Tick
    BY <1>3, RestartStep, DropOutageStep, TickStep
  <1>4. CASE UNCHANGED vars
    <2>1. /\ TypeOK /\ HandledAgain /\ LimitHolds /\ EditsFollow /\ NoncesKept /\ DatedInTime
          /\ LimitsTold
          /\ UNCHANGED <<settings, now, redis, nonces, count, req, handled, granted, ceiling>>
      BY <1>4, Parts DEF vars
    <2>2. SettingsTypeOK' /\ EditsFollow' /\ value' = value
      BY <2>1, SettingsFrame DEF TypeOK, settings
    <2>3. TypeOK'
      BY <2>1, <2>2 DEF TypeOK
    <2>4. HandledAgain' /\ NoncesKept'
      BY <2>1, <2>3, HandledFrame, NoncesFrame
    <2>5. DatedInTime' /\ LimitsTold' /\ LimitHolds'
      BY <2>1, <2>2 DEF DatedInTime, LimitsTold, LimitHolds
    <2>6. QED
      BY <2>2, <2>4, <2>5 DEF IInv
  <1>5. QED
    BY <1>1, <1>2, <1>3, <1>4 DEF Next

\* Handlings of a request are kept apart by its nonce, the counter stays under what its
\* requests were told, and the history follows the value (hmac.rs: validate,
\* user_rate_limit.rs: check, platform_configuration/service.rs: update_configuration).
THEOREM Invariance == Spec => []IInv
  BY InitIInv, NextIInv, PTL DEF Spec

\* A signed request that is handled a second time was dated ahead or was held between
\* its two checks, and its nonce has expired; only without Redis may it be handled again
\* sooner, after a restart in between (hmac.rs: validate, check_and_reserve_nonce).
THEOREM HandledAgainAlways == Spec => []HandledAgain
  <1>1. IInv => HandledAgain
    BY DEF IInv
  <1>2. QED
    BY <1>1, Invariance, PTL

\* No window lets through more requests than the highest limit one of them was told,
\* whatever admins change meanwhile (user_rate_limit.rs: check).
THEOREM LimitHoldsAlways == Spec => []LimitHolds
  <1>1. IInv => LimitHolds
    BY DEF IInv
  <1>2. QED
    BY <1>1, Invariance, PTL

\* The last row of the history is the value, however edits raced and servers restarted,
\* and the previous value each row names is the one there was when its handler looked
\* (platform_configuration/service.rs: update_configuration).
THEOREM HistoryTellsValueAlways == Spec => []HistoryTellsValue
  <1>1. IInv => HistoryTellsValue
    BY DEF IInv, EditsFollow
  <1>2. QED
    BY <1>1, Invariance, PTL


-----------------------------------------------------------------------------
(* Signing in and out: handlers and what they hold                         *)

LEMMA AccessIdle == Idle \in AccessRequest /\ Idle.op = "idle"
  BY DEF AccessRequest, Idle

LEMMA AccessTypes == AccessInv => TypeOKA
  BY DEF AccessInv, LinkSignsOnce

\* What a request of each kind holds.
LEMMA AccessFields ==
    ASSUME TypeOKA, NEW s \in Sessions
    PROVE  /\ req[s] \in AccessRequest
           /\ req[s].op \in {"expire", "find", "mint"} =>
                 req[s] \in [op: {"expire", "find", "mint"}, user: Users]
           /\ req[s].op \in {"claimed", "sign"} =>
                 req[s] \in [op: {"claimed", "sign"}, user: Users, via: Links \cup {Apple}]
           /\ req[s].op = "claims" => req[s].on \in Instances /\ req[s].jti \in Jtis
  BY DEF TypeOKA, AccessRequest, Idle

\* A handler goes on with r, the others hold what they held.
LEMMA AccessGoesOn ==
    ASSUME TypeOKA, NEW s \in Sessions, NEW r \in AccessRequest,
           req' = [req EXCEPT ![s] = r]
    PROVE  /\ req' \in [Sessions -> AccessRequest] /\ req'[s] = r
           /\ \A t \in Sessions : t # s => req'[t] = req[t]
  BY DEF TypeOKA

\* A request for a link, or a sign-in, goes on to its next statement.
LEMMA GotoFacts ==
    ASSUME TypeOKA, NEW s \in Sessions, NEW op, Goto(s, op),
           \/ req[s].op \in {"expire", "find", "mint"} /\ op \in {"find", "mint"}
           \/ req[s].op \in {"claimed", "sign"} /\ op = "sign"
    PROVE  /\ req' \in [Sessions -> AccessRequest] /\ req'[s].op = op
           /\ \A t \in Sessions : t # s => req'[t] = req[t]
           /\ op = "sign" => req'[s].via = req[s].via
  <1>1. CASE req[s].op \in {"expire", "find", "mint"} /\ op \in {"find", "mint"}
    BY <1>1, AccessFields DEF Goto, TypeOKA, AccessRequest
  <1>2. CASE req[s].op \in {"claimed", "sign"} /\ op = "sign"
    BY <1>2, AccessFields DEF Goto, TypeOKA, AccessRequest
  <1>3. QED
    BY <1>1, <1>2

-----------------------------------------------------------------------------
(* What a step leaves as it is                                             *)

\* The part of LinkSignsOnce that is not types.
SignedOnce ==
    \A l \in Links :
        /\ \A j, k \in DOMAIN jwts : jwts[j].via = l /\ jwts[k].via = l => j = k
        /\ \A s, t \in Signing(l) : s = t
        /\ Signing(l) # {} => \A j \in DOMAIN jwts : jwts[j].via # l

\* Link l was not sent, or is not used.
Unused(l) == l \notin sent \/ (l \in DOMAIN links /\ links[l].used = Never)

LEMMA AccessParts ==
    AccessInv <=> TypeOKA /\ SignedOnce /\ FreshLinks /\ CountersKept /\ LogoutsKept
  BY DEF AccessInv, LinkSignsOnce, SignedOnce

\* No token is signed, no handler comes to sign, no used link becomes unused.
LEMMA SignedOnceKept ==
    ASSUME AccessInv, UNCHANGED jwts,
           \A l \in Links : Unused(l)' => Unused(l),
           \A t \in Sessions : req'[t].op \in {"claimed", "sign"} =>
               req'[t].via \notin Links \/ t \in Signing(req'[t].via)
    PROVE  SignedOnce' /\ FreshLinks'
  <1>1. \A l \in Links : Signing(l)' \subseteq Signing(l)
    BY DEF Signing
  <1>2. QED
    BY <1>1, AccessParts DEF SignedOnce, FreshLinks, Unused

LEMMA CountersUnchanged ==
    ASSUME AccessInv, UNCHANGED <<now, rate, passed>>
    PROVE  CountersKept'
  BY AccessParts DEF CountersKept

LEMMA LogoutsUnchanged ==
    ASSUME AccessInv, UNCHANGED <<now, revoked, local, jwts, place>>,
           \A t \in Sessions : req'[t].op = "claims" =>
               req'[t] = req[t] \/ req'[t].jti \in DOMAIN jwts
    PROVE  LogoutsKept'
  BY AccessParts DEF LogoutsKept

\* A step of handler s that neither signs nor claims, counts nor logs out.
Plain(s) ==
    /\ \A t \in Sessions : t # s => req'[t] = req[t]
    /\ req'[s].op \in {"claimed", "sign"} =>
          \/ req'[s].via \notin Links
          \/ req[s].op \in {"claimed", "sign"} /\ req'[s].via = req[s].via
    /\ req'[s].op = "claims" => req'[s].jti \in DOMAIN jwts
    /\ UNCHANGED <<now, revoked, local, jwts, place>>

LEMMA PlainStep ==
    ASSUME AccessInv, NEW s \in Sessions, Plain(s), TypeOKA', CountersKept',
           \A l \in Links : Unused(l)' => Unused(l)
    PROVE  AccessInv'
  <1>1. \A t \in Sessions : req'[t].op \in {"claimed", "sign"} =>
            req'[t].via \notin Links \/ t \in Signing(req'[t].via)
    BY DEF Plain, Signing
  <1>2. SignedOnce' /\ FreshLinks'
    BY <1>1, SignedOnceKept DEF Plain
  <1>3. LogoutsKept'
    BY LogoutsUnchanged DEF Plain
  <1>4. QED
    BY <1>2, <1>3, AccessParts DEF AccessInv, LinkSignsOnce, SignedOnce

LEMMA SameLinks ==
    ASSUME UNCHANGED <<links, sent>>
    PROVE  \A l \in Links : Unused(l)' => Unused(l)
  BY DEF Unused

-----------------------------------------------------------------------------
(* Asking for a link                                                       *)

LEMMA CountStep ==
    ASSUME AccessInv, NEW s \in Sessions, NEW u \in Users, Count(s, u)
    PROVE  AccessInv'
  <1> DEFINE r == [op |-> "expire", user |-> u]
  <1>1. /\ TypeOKA /\ r \in AccessRequest /\ req' = [req EXCEPT ![s] = r]
        /\ rate' = [rate EXCEPT ![u] = Never] /\ passed' = [passed EXCEPT ![u] = now]
        /\ UNCHANGED <<now, redis, revoked, local, accounts, banned, links, jwts, sent, place>>
    BY AccessTypes DEF Count, Start, db, AccessRequest
  <1>2. TypeOKA'
    BY <1>1, AccessGoesOn DEF TypeOKA
  <1>3. CountersKept'
    <2>1. /\ now \in Nat /\ rate \in [Users -> Nat \cup {NoKey, Never}]
          /\ passed \in [Users -> Times \cup {Never}]
      BY <1>1, ServerAssumption DEF TypeOKA, Times
    <2>2. QED
      BY <1>1, <2>1, AccessParts DEF CountersKept
  <1>4. Plain(s)
    BY <1>1, AccessGoesOn DEF Plain
  <1>5. QED
    BY <1>1, <1>2, <1>3, <1>4, SameLinks, PlainStep

LEMMA UncountedStep ==
    ASSUME AccessInv, NEW s \in Sessions, NEW u \in Users, Uncounted(s, u)
    PROVE  AccessInv'
  <1> DEFINE r == [op |-> "find", user |-> u]
  <1>1. /\ TypeOKA /\ r \in AccessRequest /\ req' = [req EXCEPT ![s] = r]
        /\ rate' = rate \/ rate' = [rate EXCEPT ![u] = IF @ = NoKey THEN Never ELSE @]
        /\ UNCHANGED <<now, redis, revoked, local, accounts, banned, links, jwts, sent,
                       passed, place>>
    BY AccessTypes DEF Uncounted, Start, db, history, AccessRequest
  <1>2. rate \in [Users -> Nat \cup {NoKey, Never}]
    BY <1>1 DEF TypeOKA
  <1>3. TypeOKA'
    BY <1>1, <1>2, AccessGoesOn DEF TypeOKA
  <1>4. CountersKept'
    BY <1>1, <1>2, AccessParts DEF CountersKept
  <1>5. Plain(s)
    BY <1>1, AccessGoesOn DEF Plain
  <1>6. QED
    BY <1>1, <1>3, <1>4, <1>5, SameLinks, PlainStep

LEMMA SetExpiryStep ==
    ASSUME AccessInv, NEW s \in Sessions, SetExpiry(s)
    PROVE  AccessInv'
  <1>1. PICK u \in Users : req[s].user = u
    BY AccessFields, AccessTypes DEF SetExpiry
  <1>2. /\ TypeOKA /\ req[s].op = "expire" /\ Goto(s, "find")
        /\ rate' = rate \/ rate' = [rate EXCEPT ![u] = now + RateTtl]
        /\ UNCHANGED <<now, redis, revoked, local, accounts, banned, links, jwts, sent,
                       passed, place>>
    BY <1>1, AccessTypes DEF SetExpiry, KeyTtl, db, history
  <1>3. /\ now \in Nat /\ RateTtl \in Nat /\ rate \in [Users -> Nat \cup {NoKey, Never}]
        /\ passed \in [Users -> Times \cup {Never}]
    BY <1>2, ServerAssumption, AccessAssumption DEF TypeOKA, Times
  <1>4. TypeOKA'
    BY <1>2, <1>3, GotoFacts DEF TypeOKA
  <1>5. CountersKept'
    <2>1. ASSUME NEW v \in Users, passed[v] # Never
          PROVE  /\ passed[v] <= now /\ passed[v] \in Nat
                 /\ \/ rate'[v] = Never
                    \/ rate'[v] \in Nat /\ rate'[v] >= passed[v] + RateTtl
                    \/ rate'[v] = NoKey /\ now >= passed[v] + RateTtl
      <3>1. passed[v] \in Nat /\ passed[v] <= now
        BY <1>3, <2>1, ServerAssumption, AccessParts DEF CountersKept, Times
      <3>2. CASE rate'[v] = rate[v]
        BY <2>1, <3>1, <3>2, AccessParts DEF CountersKept
      <3>3. CASE rate'[v] = now + RateTtl
        BY <1>3, <3>1, <3>3
      <3>4. QED
        BY <1>2, <1>3, <3>2, <3>3
    <2>2. QED
      BY <1>2, <2>1 DEF CountersKept
  <1>6. Plain(s)
    BY <1>2, GotoFacts DEF Plain
  <1>7. QED
    BY <1>2, <1>4, <1>5, <1>6, SameLinks, PlainStep

LEMMA FindOrCreateStep ==
    ASSUME AccessInv, NEW s \in Sessions, FindOrCreate(s)
    PROVE  AccessInv'
  <1>1. PICK u \in Users : req[s].user = u
    BY AccessFields, AccessTypes DEF FindOrCreate
  <1>2. /\ TypeOKA /\ req[s].op = "find" /\ accounts' = accounts \cup {u}
        /\ req' = [req EXCEPT ![s] = Idle] \/ Goto(s, "mint")
        /\ UNCHANGED <<now, redis, revoked, rate, local, banned, links, jwts, sent,
                       passed, place>>
    BY <1>1, AccessTypes DEF FindOrCreate, WithAddress, End, store, history
  <1>3. /\ req' \in [Sessions -> AccessRequest] /\ req'[s].op \in {"idle", "mint"}
        /\ \A t \in Sessions : t # s => req'[t] = req[t]
    BY <1>2, AccessGoesOn, AccessIdle, GotoFacts
  <1>4. TypeOKA'
    BY <1>2, <1>3 DEF TypeOKA
  <1>5. Plain(s)
    BY <1>2, <1>3 DEF Plain
  <1>6. QED
    BY <1>2, <1>4, <1>5, CountersUnchanged, SameLinks, PlainStep

LEMMA MintStep ==
    ASSUME AccessInv, NEW s \in Sessions, NEW l \in Links, Mint(s, l)
    PROVE  AccessInv'
  <1>1. PICK u \in Users : req[s].user = u
    BY AccessFields, AccessTypes DEF Mint
  <1>2. /\ TypeOKA /\ req[s].op = "mint" /\ l \notin sent /\ sent' = sent \cup {l}
        /\ \/ links' = [k \in DOMAIN links \cup {l} |->
                           IF k = l THEN NewLink(u) ELSE links[k]]
           \/ links' = links
        /\ req' = [req EXCEPT ![s] = Idle]
        /\ UNCHANGED <<now, redis, revoked, rate, local, accounts, banned, jwts, passed, place>>
    BY <1>1, AccessTypes DEF Mint, End, store
  <1>3. NewLink(u) \in Link
    BY <1>2, ServerAssumption, AccessAssumption DEF NewLink, Link, TypeOKA, Times
  <1>4. /\ DOMAIN links' \subseteq DOMAIN links \cup {l} /\ links' \in [DOMAIN links' -> Link]
        /\ \A k \in DOMAIN links : k # l => links'[k] = links[k]
    BY <1>2, <1>3 DEF TypeOKA
  <1>5. TypeOKA'
    BY <1>2, <1>4, AccessGoesOn, AccessIdle DEF TypeOKA
  <1>6. \A k \in Links : Unused(k)' => Unused(k)
    BY <1>2, <1>4 DEF Unused, TypeOKA
  <1>7. Plain(s)
    BY <1>2, AccessGoesOn, AccessIdle DEF Plain
  <1>8. QED
    BY <1>2, <1>5, <1>6, <1>7, CountersUnchanged, PlainStep

-----------------------------------------------------------------------------
(* Signing in                                                              *)

LEMMA ClaimStep ==
    ASSUME AccessInv, NEW s \in Sessions, NEW l \in Links, Claim(s, l)
    PROVE  AccessInv'
  <1>1. /\ TypeOKA /\ l \in DOMAIN links /\ links[l].used = Never /\ links[l] \in Link
        /\ links' = [links EXCEPT ![l].used = now] /\ now \in Times /\ now # Never
        /\ UNCHANGED <<now, redis, revoked, rate, local, accounts, banned, jwts, sent,
                       passed, place>>
    BY AccessTypes, AccessAssumption, ServerAssumption
       DEF Claim, Claimable, store, history, TypeOKA, Times
  <1> DEFINE r == [op |-> "claimed", user |-> links[l].user, via |-> l]
  <1>2. r \in AccessRequest /\ req' = [req EXCEPT ![s] = r]
    BY <1>1 DEF Claim, Start, Link, AccessRequest
  <1>3. /\ req' \in [Sessions -> AccessRequest] /\ req'[s] = r
        /\ \A t \in Sessions : t # s => req'[t] = req[t]
    BY <1>1, <1>2, AccessGoesOn
  <1>4. /\ DOMAIN links' = DOMAIN links /\ links' \in [DOMAIN links -> Link]
        /\ links'[l].used # Never /\ \A k \in DOMAIN links : k # l => links'[k] = links[k]
    BY <1>1 DEF Link, TypeOKA
  <1>5. TypeOKA'
    BY <1>1, <1>3, <1>4 DEF TypeOKA
  <1>6. Signing(l) = {} /\ (\A j \in DOMAIN jwts : jwts[j].via # l) /\ l \in sent
    BY <1>1, AccessParts DEF FreshLinks, TypeOKA
  <1>7. \A k : Signing(k)' \subseteq IF k = l THEN {s} ELSE Signing(k)
    BY <1>3, <1>6 DEF Signing
  <1>8. SignedOnce'
    BY <1>1, <1>6, <1>7, AccessParts DEF SignedOnce
  <1>9. FreshLinks'
    BY <1>1, <1>4, <1>6, <1>7, AccessParts DEF FreshLinks
  <1>10. CountersKept' /\ LogoutsKept'
    <2>1. \A t \in Sessions : req'[t].op = "claims" => req'[t] = req[t]
      BY <1>3
    <2>2. QED
      BY <1>1, <2>1, CountersUnchanged, LogoutsUnchanged
  <1>11. QED
    BY <1>5, <1>8, <1>9, <1>10, AccessParts DEF AccessInv, LinkSignsOnce, SignedOnce

LEMMA ReadUserStep ==
    ASSUME AccessInv, NEW s \in Sessions, ReadUser(s)
    PROVE  AccessInv'
  <1>1. /\ TypeOKA /\ req[s].op = "claimed"
        /\ Goto(s, "sign") \/ req' = [req EXCEPT ![s] = Idle]
        /\ UNCHANGED <<now, redis, revoked, rate, local, accounts, banned, links, jwts, sent,
                       passed, place>>
    BY AccessTypes DEF ReadUser, End, store, db, history
  <1>2. /\ req' \in [Sessions -> AccessRequest] /\ req'[s].op \in {"idle", "sign"}
        /\ req'[s].op = "sign" => req'[s].via = req[s].via
        /\ \A t \in Sessions : t # s => req'[t] = req[t]
    BY <1>1, AccessGoesOn, AccessIdle, GotoFacts
  <1>3. TypeOKA'
    BY <1>1, <1>2 DEF TypeOKA
  <1>4. Plain(s)
    BY <1>1, <1>2 DEF Plain
  <1>5. QED
    BY <1>1, <1>3, <1>4, CountersUnchanged, SameLinks, PlainStep

LEMMA AppleSignInStep ==
    ASSUME AccessInv, NEW s \in Sessions, NEW u \in Users, AppleSignIn(s, u)
    PROVE  AccessInv'
  <1> DEFINE r == [op |-> "sign", user |-> u, via |-> Apple]
  <1>1. /\ TypeOKA /\ r \in AccessRequest /\ accounts' = accounts \cup {u}
        /\ \/ req[s] = Idle /\ req' = req
           \/ req' = [req EXCEPT ![s] = r]
        /\ UNCHANGED <<now, redis, revoked, rate, local, banned, links, jwts, sent,
                       passed, place>>
    BY AccessTypes DEF AppleSignIn, WithAppleId, Start, store, history, AccessRequest
  <1>2. /\ req' \in [Sessions -> AccessRequest] /\ req'[s] \in {Idle, r}
        /\ \A t \in Sessions : t # s => req'[t] = req[t]
    BY <1>1, AccessGoesOn DEF TypeOKA
  <1>3. TypeOKA'
    BY <1>1, <1>2 DEF TypeOKA
  <1>4. Plain(s)
    BY <1>1, <1>2, AccessIdle, AccessAssumption DEF Plain
  <1>5. QED
    BY <1>1, <1>3, <1>4, CountersUnchanged, SameLinks, PlainStep

LEMMA SignStep ==
    ASSUME AccessInv, NEW s \in Sessions, NEW j \in Jtis, Sign(s, j)
    PROVE  AccessInv'
  <1>1. PICK u \in Users, v \in Links \cup {Apple} : req[s].user = u /\ req[s].via = v
    BY AccessFields, AccessTypes DEF Sign
  <1> DEFINE new == [user |-> u, exp |-> now + Lifetime, via |-> v]
  <1>2. /\ TypeOKA /\ req[s].op = "sign" /\ j \notin DOMAIN jwts
        /\ jwts' = [k \in DOMAIN jwts \cup {j} |-> IF k = j THEN new ELSE jwts[k]]
        /\ req' = [req EXCEPT ![s] = Idle]
        /\ UNCHANGED <<now, redis, revoked, rate, local, accounts, banned, links, sent,
                       passed, place>>
    BY <1>1, AccessTypes DEF Sign, NewClaims, End, store, history
  <1>3. new \in Claims /\ new.via = v
    BY <1>2, ServerAssumption, AccessAssumption DEF Claims, TypeOKA, Times
  <1> HIDE DEF new
  <1>4. /\ DOMAIN jwts' = DOMAIN jwts \cup {j} /\ jwts' \in [DOMAIN jwts' -> Claims]
        /\ jwts'[j] = new /\ \A k \in DOMAIN jwts : jwts'[k] = jwts[k]
    BY <1>2, <1>3 DEF TypeOKA
  <1>5. /\ req' \in [Sessions -> AccessRequest] /\ req'[s].op = "idle"
        /\ \A t \in Sessions : t # s => req'[t] = req[t]
    BY <1>2, AccessGoesOn, AccessIdle
  <1>6. TypeOKA'
    BY <1>2, <1>4, <1>5 DEF TypeOKA
  <1>7. /\ \A l : Signing(l)' \subseteq Signing(l) \ {s}
        /\ s \in Signing(v)
    BY <1>1, <1>2, <1>5 DEF Signing
  <1>8. SignedOnce'
    <2>1. ASSUME NEW l \in Links
          PROVE  /\ \A i, k \in DOMAIN jwts' : jwts'[i].via = l /\ jwts'[k].via = l => i = k
                 /\ \A t, w \in Signing(l)' : t = w
                 /\ Signing(l)' # {} => \A k \in DOMAIN jwts' : jwts'[k].via # l
      <3>1. /\ \A i, k \in DOMAIN jwts : jwts[i].via = l /\ jwts[k].via = l => i = k
            /\ \A t, w \in Signing(l) : t = w
            /\ Signing(l) # {} => \A k \in DOMAIN jwts : jwts[k].via # l
        BY AccessParts DEF SignedOnce
      <3>2. CASE l = v
        BY <1>3, <1>4, <1>7, <3>1, <3>2
      <3>3. CASE l # v
        BY <1>3, <1>4, <1>7, <3>1, <3>3
      <3>4. QED
        BY <3>2, <3>3
    <2>2. QED
      BY <2>1 DEF SignedOnce
  <1>9. FreshLinks'
    BY <1>2, <1>3, <1>4, <1>7, AccessParts DEF FreshLinks
  <1>10. CountersKept'
    BY <1>2, CountersUnchanged
  <1>11. LogoutsKept'
    <2>1. \A t \in Sessions : req'[t].op = "claims" => req'[t].jti \in DOMAIN jwts'
      BY <1>4, <1>5, AccessParts DEF LogoutsKept
    <2>2. ASSUME NEW k \in Jtis
          PROVE  /\ place'[k] # "nowhere" => k \in DOMAIN jwts'
                 /\ place'[k] = "redis" => k \in revoked' \/ jwts'[k].exp <= now'
                 /\ place'[k] \in Instances => k \in local'[place'[k]]
      BY <1>2, <1>4, AccessParts DEF LogoutsKept
    <2>3. QED
      BY <2>1, <2>2 DEF LogoutsKept
  <1>12. QED
    BY <1>6, <1>8, <1>9, <1>10, <1>11, AccessParts DEF AccessInv, LinkSignsOnce, SignedOnce

-----------------------------------------------------------------------------
(* Requests with a token, and signing out                                  *)

LEMMA AdmitStep ==
    ASSUME AccessInv, NEW s \in Sessions, NEW i \in Instances, NEW j \in Jtis, Admit(s, i, j)
    PROVE  AccessInv'
  <1> DEFINE r == [op |-> "claims", on |-> i, jti |-> j]
  <1>1. /\ TypeOKA /\ r \in AccessRequest /\ req' = [req EXCEPT ![s] = r]
        /\ j \in DOMAIN jwts
        /\ UNCHANGED <<now, redis, revoked, rate, local, accounts, banned, links, jwts, sent,
                       passed, place>>
    BY AccessTypes DEF Admit, Verifies, Start, store, db, history, AccessRequest
  <1>2. TypeOKA'
    BY <1>1, AccessGoesOn DEF TypeOKA
  <1>3. Plain(s)
    BY <1>1, AccessGoesOn DEF Plain
  <1>4. QED
    BY <1>1, <1>2, <1>3, CountersUnchanged, SameLinks, PlainStep

LEMMA BanReadDropStep ==
    ASSUME AccessInv, NEW s \in Sessions, BanRead(s) \/ DropA(s)
    PROVE  AccessInv'
  <1>1. /\ TypeOKA /\ req' = [req EXCEPT ![s] = Idle]
        /\ UNCHANGED <<now, redis, revoked, rate, local, accounts, banned, links, jwts, sent,
                       passed, place>>
    BY AccessTypes DEF BanRead, DropA, End, store, db, history
  <1>2. TypeOKA'
    BY <1>1, AccessGoesOn, AccessIdle DEF TypeOKA
  <1>3. Plain(s)
    BY <1>1, AccessGoesOn, AccessIdle DEF Plain
  <1>4. QED
    BY <1>1, <1>2, <1>3, CountersUnchanged, SameLinks, PlainStep

LEMMA RevokeStep ==
    ASSUME AccessInv, NEW s \in Sessions, Revoke(s)
    PROVE  AccessInv'
  <1>1. PICK i \in Instances, j \in Jtis : req[s].on = i /\ req[s].jti = j /\ j \in DOMAIN jwts
    BY AccessFields, AccessTypes, AccessParts DEF Revoke, LogoutsKept
  <1>2. /\ TypeOKA /\ req' = [req EXCEPT ![s] = Idle]
        /\ \/ UNCHANGED <<revoked, local, place>>
           \/ InRedis(i, j)
           \/ InProcess(i, j)
        /\ UNCHANGED <<now, redis, rate, accounts, banned, links, jwts, sent, passed>>
    BY <1>1, AccessTypes DEF Revoke, End, db
  <1>3. /\ req' \in [Sessions -> AccessRequest] /\ req'[s].op = "idle"
        /\ \A t \in Sessions : t # s => req'[t] = req[t]
    BY <1>2, AccessGoesOn, AccessIdle
  <1>4. /\ place \in [Jtis -> {"nowhere", "redis", "lost"} \cup Instances]
        /\ local \in [Instances -> SUBSET DOMAIN jwts] /\ revoked \subseteq DOMAIN jwts
        /\ \A x \in {"nowhere", "redis", "lost"} : x \notin Instances
    BY <1>2, AccessAssumption DEF TypeOKA
  <1>5. /\ place' \in [Jtis -> {"nowhere", "redis", "lost"} \cup Instances]
        /\ local' \in [Instances -> SUBSET DOMAIN jwts] /\ revoked' \subseteq DOMAIN jwts
    <2>1. CASE InRedis(i, j)
      BY <1>1, <1>4, <2>1 DEF InRedis
    <2>2. CASE InProcess(i, j)
      BY <1>1, <1>4, <2>2 DEF InProcess
    <2>3. QED
      BY <1>2, <1>4, <2>1, <2>2
  <1>6. TypeOKA'
    BY <1>2, <1>3, <1>5 DEF TypeOKA
  <1>7. ASSUME NEW k \in Jtis
        PROVE  /\ place'[k] # "nowhere" => k \in DOMAIN jwts
               /\ place'[k] = "redis" => k \in revoked' \/ jwts[k].exp <= now
               /\ place'[k] \in Instances => k \in local'[place'[k]]
    <2>1. /\ place[k] # "nowhere" => k \in DOMAIN jwts
          /\ place[k] = "redis" => k \in revoked \/ jwts[k].exp <= now
          /\ place[k] \in Instances => k \in local[place[k]]
      BY AccessParts DEF LogoutsKept
    <2>2. CASE UNCHANGED <<revoked, local, place>>
      BY <2>1, <2>2
    <2>3. CASE InRedis(i, j)
      BY <1>1, <1>4, <2>1, <2>3 DEF InRedis
    <2>4. CASE InProcess(i, j)
      BY <1>1, <1>4, <2>1, <2>4 DEF InProcess
    <2>5. QED
      BY <1>2, <2>2, <2>3, <2>4
  <1>8. LogoutsKept'
    <2>1. \A t \in Sessions : req'[t].op = "claims" => req'[t].jti \in DOMAIN jwts
      BY <1>3, AccessParts DEF LogoutsKept
    <2>2. QED
      BY <1>2, <1>7, <2>1 DEF LogoutsKept
  <1>9. SignedOnce' /\ FreshLinks'
    <2>1. \A t \in Sessions : req'[t].op \in {"claimed", "sign"} => t \in Signing(req'[t].via)
      BY <1>3 DEF Signing
    <2>2. QED
      BY <1>2, <2>1, SameLinks, SignedOnceKept
  <1>10. QED
    BY <1>2, <1>6, <1>8, <1>9, CountersUnchanged, AccessParts
       DEF AccessInv, LinkSignsOnce, SignedOnce

-----------------------------------------------------------------------------
(* Around the handlers                                                     *)

LEMMA RestartAStep ==
    ASSUME AccessInv, NEW i \in Instances, RestartA(i)
    PROVE  AccessInv'
  <1>1. /\ TypeOKA /\ local' = [local EXCEPT ![i] = {}]
        /\ req' = [s \in Sessions |-> IF req[s].op = "claims" /\ req[s].on = i THEN Idle
                                       ELSE req[s]]
        /\ place' = [j \in Jtis |-> IF place[j] = i THEN "lost" ELSE place[j]]
        /\ UNCHANGED <<now, redis, revoked, rate, accounts, banned, links, jwts, sent, passed>>
    BY AccessTypes DEF RestartA, db
  <1>2. /\ req' \in [Sessions -> AccessRequest]
        /\ \A t \in Sessions : req'[t] = req[t] \/ req'[t].op = "idle"
    BY <1>1, AccessIdle DEF TypeOKA
  <1>3. /\ place' \in [Jtis -> {"nowhere", "redis", "lost"} \cup Instances]
        /\ local' \in [Instances -> SUBSET DOMAIN jwts]
        /\ \A k \in Instances : k # i => local'[k] = local[k]
        /\ \A j \in Jtis : place'[j] = IF place[j] = i THEN "lost" ELSE place[j]
    <2>1. /\ place \in [Jtis -> {"nowhere", "redis", "lost"} \cup Instances]
          /\ local \in [Instances -> SUBSET DOMAIN jwts]
      BY <1>1 DEF TypeOKA
    <2>2. QED
      BY <1>1, <2>1
  <1>4. TypeOKA'
    BY <1>1, <1>2, <1>3 DEF TypeOKA
  <1>5. SignedOnce' /\ FreshLinks'
    <2>1. \A t \in Sessions : req'[t].op \in {"claimed", "sign"} => t \in Signing(req'[t].via)
      BY <1>2 DEF Signing
    <2>2. QED
      BY <1>1, <2>1, SameLinks, SignedOnceKept
  <1>6. LogoutsKept'
    <2>1. \A t \in Sessions : req'[t].op = "claims" => req'[t].jti \in DOMAIN jwts
      BY <1>2, AccessParts DEF LogoutsKept
    <2>2. "lost" \notin Instances /\ "nowhere" \notin Instances
      BY AccessAssumption
    <2>3. ASSUME NEW j \in Jtis
          PROVE  /\ place'[j] # "nowhere" => j \in DOMAIN jwts
                 /\ place'[j] = "redis" => j \in revoked \/ jwts[j].exp <= now
                 /\ place'[j] \in Instances => j \in local'[place'[j]]
      <3>1. /\ place[j] # "nowhere" => j \in DOMAIN jwts
            /\ place[j] = "redis" => j \in revoked \/ jwts[j].exp <= now
            /\ place[j] \in Instances => j \in local[place[j]]
        BY AccessParts DEF LogoutsKept
      <3>2. CASE place[j] = i
        BY <1>3, <2>2, <3>1, <3>2
      <3>3. CASE place[j] # i
        BY <1>3, <3>1, <3>3
      <3>4. QED
        BY <3>2, <3>3
    <2>4. QED
      BY <1>1, <2>1, <2>3 DEF LogoutsKept
  <1>7. QED
    BY <1>1, <1>4, <1>5, <1>6, CountersUnchanged, AccessParts
       DEF AccessInv, LinkSignsOnce, SignedOnce

LEMMA TickAStep ==
    ASSUME AccessInv, TickA
    PROVE  AccessInv'
  <1>1. /\ TypeOKA /\ now \in Nat /\ now' = now + 1 /\ now' \in Times
        /\ revoked' = {j \in revoked : jwts[j].exp > now + 1}
        /\ rate' = [u \in Users |-> IF rate[u] \in Nat /\ rate[u] <= now + 1 THEN NoKey
                                     ELSE rate[u]]
        /\ UNCHANGED <<redis, local, accounts, banned, links, jwts, req, sent, passed, place>>
    BY AccessTypes, ServerAssumption DEF TickA, db, history, TypeOKA, Times
  <1>2. /\ rate \in [Users -> Nat \cup {NoKey, Never}] /\ revoked \subseteq DOMAIN jwts
        /\ \A j \in DOMAIN jwts : jwts[j].exp \in Nat
        /\ \A u \in Users : passed[u] # Never => passed[u] \in Nat
    BY <1>1, ServerAssumption DEF TypeOKA, Claims, Times
  <1>3. TypeOKA'
    BY <1>1, <1>2 DEF TypeOKA
  <1>4. SignedOnce' /\ FreshLinks'
    <2>1. \A t \in Sessions : req'[t].op \in {"claimed", "sign"} => t \in Signing(req'[t].via)
      BY <1>1 DEF Signing
    <2>2. QED
      BY <1>1, <2>1, SameLinks, SignedOnceKept
  <1>5. CountersKept'
    <2>1. ASSUME NEW u \in Users, passed[u] # Never
          PROVE  /\ passed[u] <= now + 1
                 /\ \/ rate'[u] = Never
                    \/ rate'[u] \in Nat /\ rate'[u] >= passed[u] + RateTtl
                    \/ rate'[u] = NoKey /\ now + 1 >= passed[u] + RateTtl
      <3>1. /\ passed[u] \in Nat /\ passed[u] <= now
            /\ \/ rate[u] = Never
               \/ rate[u] \in Nat /\ rate[u] >= passed[u] + RateTtl
               \/ rate[u] = NoKey /\ now >= passed[u] + RateTtl
        BY <1>2, <2>1, AccessParts DEF CountersKept
      <3>2. RateTtl \in Nat /\ Never \notin Nat /\ NoKey \notin Nat
        BY AccessAssumption, ServerAssumption
      <3>3. QED
        BY <1>1, <3>1, <3>2
    <2>2. QED
      BY <1>1, <2>1 DEF CountersKept
  <1>6. LogoutsKept'
    <2>1. ASSUME NEW j \in Jtis, place[j] = "redis"
          PROVE  j \in revoked' \/ jwts[j].exp <= now + 1
      <3>1. j \in DOMAIN jwts /\ jwts[j].exp \in Nat /\ (j \in revoked \/ jwts[j].exp <= now)
        BY <1>2, <2>1, AccessParts DEF LogoutsKept
      <3>2. QED
        BY <1>1, <3>1
    <2>2. QED
      BY <1>1, <2>1, AccessParts DEF LogoutsKept
  <1>7. QED
    BY <1>3, <1>4, <1>5, <1>6, AccessParts DEF AccessInv, LinkSignsOnce, SignedOnce

\* Redis turns, a user is banned, links are pruned, or nothing happens.
LEMMA AroundStep ==
    ASSUME AccessInv, TypeOKA', UNCHANGED <<now, revoked, rate, local, jwts, req, sent,
                                           passed, place>>,
           DOMAIN links' \subseteq DOMAIN links,
           \A l \in DOMAIN links' : links'[l] = links[l]
    PROVE  AccessInv'
  <1>1. \A l \in Links : Unused(l)' => Unused(l)
    BY DEF Unused
  <1>2. \A t \in Sessions : req'[t].op \in {"claimed", "sign"} => t \in Signing(req'[t].via)
    BY DEF Signing
  <1>3. SignedOnce' /\ FreshLinks'
    BY <1>1, <1>2, SignedOnceKept
  <1>4. QED
    BY <1>3, CountersUnchanged, LogoutsUnchanged, AccessParts
       DEF AccessInv, LinkSignsOnce, SignedOnce

LEMMA OutageABanPruneStep ==
    ASSUME AccessInv,
           \/ OutageA
           \/ PruneLinks
           \/ \E u \in Users : Ban(u) \/ Unban(u)
           \/ UNCHANGED accessVars
    PROVE  AccessInv'
  <1>1. TypeOKA
    BY AccessTypes
  <1>2. CASE OutageA
    <2>1. TypeOKA'
      BY <1>1, <1>2 DEF OutageA, RedisTurns, db, history, TypeOKA
    <2>2. QED
      BY <1>2, <2>1, AroundStep DEF OutageA, db, history
  <1>3. CASE PruneLinks
    <2>1. /\ DOMAIN links' \subseteq DOMAIN links
          /\ \A l \in DOMAIN links' : links'[l] = links[l]
          /\ links' = [l \in DOMAIN links' |-> links[l]]
      BY <1>3 DEF PruneLinks
    <2>2. TypeOKA'
      BY <1>1, <1>3, <2>1 DEF PruneLinks, store, history, TypeOKA
    <2>3. QED
      BY <1>3, <2>1, <2>2, AroundStep DEF PruneLinks, store, history
  <1>4. ASSUME NEW u \in Users, Ban(u) \/ Unban(u) PROVE AccessInv'
    <2>1. TypeOKA'
      BY <1>1, <1>4 DEF Ban, Unban, store, history, TypeOKA
    <2>2. QED
      BY <1>4, <2>1, AroundStep DEF Ban, Unban, store, history
  <1>5. CASE UNCHANGED accessVars
    <2>1. TypeOKA'
      BY <1>1, <1>5 DEF accessVars, TypeOKA
    <2>2. QED
      BY <1>5, <2>1, AroundStep DEF accessVars
  <1>6. QED
    BY <1>2, <1>3, <1>4, <1>5

-----------------------------------------------------------------------------
(* Every reachable state and every step of Access                          *)

LEMMA AccessInit == InitA => AccessInv
  <1> SUFFICES ASSUME InitA PROVE AccessInv
    OBVIOUS
  <1>1. /\ now = 0 /\ redis \in {"absent", "up"} /\ revoked = {}
        /\ rate = [u \in Users |-> NoKey] /\ local = [i \in Instances |-> {}]
        /\ accounts = {} /\ banned = {} /\ DOMAIN links = {} /\ DOMAIN jwts = {}
        /\ links = [l \in {} |-> Idle] /\ jwts = [j \in {} |-> Idle]
        /\ req = [s \in Sessions |-> Idle] /\ sent = {}
        /\ passed = [u \in Users |-> Never] /\ place = [j \in Jtis |-> "nowhere"]
    BY DEF InitA
  <1>2. TypeOKA
    BY <1>1, AccessIdle, ServerAssumption DEF TypeOKA, Times
  <1>3. \A l : Signing(l) = {}
    BY <1>1, AccessIdle DEF Signing
  <1>4. SignedOnce /\ FreshLinks
    BY <1>1, <1>3 DEF SignedOnce, FreshLinks
  <1>5. CountersKept
    BY <1>1 DEF CountersKept
  <1>6. LogoutsKept
    BY <1>1, AccessIdle, AccessAssumption DEF LogoutsKept
  <1>7. QED
    BY <1>2, <1>4, <1>5, <1>6, AccessParts

LEMMA AccessStep == AccessInv /\ [NextA]_accessVars => AccessInv'
  <1> SUFFICES ASSUME AccessInv, [NextA]_accessVars PROVE AccessInv'
    OBVIOUS
  <1>1. ASSUME NEW s \in Sessions, HandlerA(s) PROVE AccessInv'
    BY <1>1, CountStep, UncountedStep, AppleSignInStep, SetExpiryStep, FindOrCreateStep,
       MintStep, ClaimStep, ReadUserStep, SignStep, AdmitStep, BanReadDropStep, RevokeStep
       DEF HandlerA
  <1>2. QED
    BY <1>1, RestartAStep, TickAStep, OutageABanPruneStep DEF NextA

LEMMA AccessInvariance == SpecA => []AccessInv
  BY AccessInit, AccessStep, PTL DEF SpecA

\* verify_magic_link: one link never obtains a second token, however many requests
\* claim it at once, and though used and expired links are pruned.
THEOREM LinkAlwaysSignsOnce == SpecA => []LinkSignsOnce
  BY AccessInvariance, PTL DEF AccessInv

\* An idle handler that starts to count a request or is admitted with a token does so
\* by these two actions.
LEMMA Begins ==
    ASSUME TypeOKA, NextA, NEW t \in Sessions, req[t] = Idle
    PROVE  /\ req'[t].op = "expire" => \E u \in Users : Count(t, u)
           /\ req'[t].op = "claims" => \E i \in Instances, j \in Jtis : Admit(t, i, j)
  <1>1. SUFFICES ASSUME req'[t].op \in {"expire", "claims"}
                 PROVE  /\ req'[t].op = "expire" => \E u \in Users : Count(t, u)
                        /\ req'[t].op = "claims" =>
                              \E i \in Instances, j \in Jtis : Admit(t, i, j)
    OBVIOUS
  <1>2. Idle.op = "idle" /\ req \in [Sessions -> AccessRequest]
    BY AccessIdle DEF TypeOKA
  <1>3. ~(req' = req)
    BY <1>1, <1>2
  <1>4. ASSUME NEW s \in Sessions, HandlerA(s)
        PROVE  \/ \E u \in Users : Count(t, u)
               \/ \E i \in Instances, j \in Jtis : Admit(t, i, j)
    <2>1. CASE \E u \in Users : Count(s, u)
      BY <1>1, <1>2, <2>1 DEF Count, Start
    <2>2. CASE \E i \in Instances, j \in Jtis : Admit(s, i, j)
      BY <1>1, <1>2, <2>2 DEF Admit, Start
    <2>3. CASE \E u \in Users : Uncounted(s, u)
      BY <1>1, <1>2, <2>3 DEF Uncounted, Start
    <2>4. CASE \E u \in Users : AppleSignIn(s, u)
      BY <1>1, <1>2, <1>3, <2>4 DEF AppleSignIn, Start
    <2>5. CASE \E l \in Links : Claim(s, l)
      BY <1>1, <1>2, <2>5 DEF Claim, Start
    <2>6. CASE SetExpiry(s) \/ FindOrCreate(s) \/ ReadUser(s)
      <3>1. req[s].op # "idle"
        BY <2>6 DEF SetExpiry, FindOrCreate, ReadUser
      <3>2. t # s
        BY <1>2, <3>1
      <3>3. QED
        BY <1>1, <1>2, <2>6, <3>2 DEF SetExpiry, FindOrCreate, ReadUser, Goto, End
    <2>7. CASE \/ \E l \in Links : Mint(s, l)
               \/ \E j \in Jtis : Sign(s, j)
               \/ BanRead(s) \/ Revoke(s) \/ DropA(s)
      BY <1>1, <1>2, <2>7 DEF Mint, Sign, BanRead, Revoke, DropA, End
    <2>8. QED
      BY <1>4, <2>1, <2>2, <2>3, <2>4, <2>5, <2>6, <2>7 DEF HandlerA
  <1>5. ASSUME NEW i \in Instances, RestartA(i) PROVE FALSE
    BY <1>1, <1>2, <1>5 DEF RestartA
  <1>6. ASSUME OutageA \/ TickA \/ PruneLinks \/ \E u \in Users : Ban(u) \/ Unban(u)
        PROVE  FALSE
    BY <1>3, <1>6 DEF OutageA, TickA, PruneLinks, Ban, Unban
  <1>7. \/ \E u \in Users : Count(t, u)
        \/ \E i \in Instances, j \in Jtis : Admit(t, i, j)
    <2>1. CASE \E s \in Sessions : HandlerA(s)
      BY <1>4, <2>1
    <2>2. CASE \E i \in Instances : RestartA(i)
      BY <1>5, <2>2
    <2>3. QED
      BY <1>6, <2>1, <2>2 DEF NextA
  <1>8. CASE \E u \in Users : Count(t, u)
    <2>1. req'[t].op = "expire"
      BY <1>2, <1>8 DEF Count, Start
    <2>2. QED
      BY <1>8, <2>1
  <1>9. CASE \E i \in Instances, j \in Jtis : Admit(t, i, j)
    <2>1. req'[t].op = "claims"
      BY <1>2, <1>9 DEF Admit, Start
    <2>2. QED
      BY <1>9, <2>1
  <1>10. QED
    BY <1>7, <1>8, <1>9

\* What LinksAreSpaced says of a step.
Spaced ==
    \A s \in Sessions :
        /\ req[s] = Idle /\ req'[s].op = "expire"
        /\ passed[req'[s].user] # Never
        => now >= passed[req'[s].user] + RateTtl

\* What LogoutHolds says of a step.
Held ==
    \A s \in Sessions :
        /\ req[s] = Idle /\ req'[s].op = "claims"
        /\ place[req'[s].jti] # "nowhere"
        => LET i == req'[s].on  j == req'[s].jti IN
           \/ now >= jwts[j].exp
           \/ redis = "up" /\ place[j] # "redis"
           \/ redis # "up" /\ place[j] # i

LEMMA SpacedStep == AccessInv /\ NextA => Spaced
  <1> SUFFICES ASSUME AccessInv, NextA, NEW s \in Sessions,
                      req[s] = Idle, req'[s].op = "expire", passed[req'[s].user] # Never
               PROVE  now >= passed[req'[s].user] + RateTtl
    BY DEF Spaced
  <1>1. PICK u \in Users : Count(s, u)
    BY Begins, AccessTypes
  <1>2. req'[s].user = u /\ rate[u] = NoKey
    BY <1>1, AccessTypes DEF Count, Start, TypeOKA
  <1>3. NoKey \notin Nat /\ NoKey # Never
    BY ServerAssumption, AccessAssumption
  <1>4. QED
    BY <1>2, <1>3, AccessParts DEF CountersKept

LEMMA HeldStep == AccessInv /\ NextA => Held
  <1> SUFFICES ASSUME AccessInv, NextA, NEW s \in Sessions,
                      req[s] = Idle, req'[s].op = "claims", place[req'[s].jti] # "nowhere"
               PROVE  LET i == req'[s].on  j == req'[s].jti IN
                      \/ now >= jwts[j].exp
                      \/ redis = "up" /\ place[j] # "redis"
                      \/ redis # "up" /\ place[j] # i
    BY DEF Held
  <1>1. PICK i \in Instances, j \in Jtis : Admit(s, i, j)
    BY Begins, AccessTypes
  <1>2. /\ req'[s].on = i /\ req'[s].jti = j /\ j \in DOMAIN jwts /\ ~Revoked(i, j)
    BY <1>1, AccessTypes DEF Admit, Verifies, Start, TypeOKA
  <1>3. /\ place[j] = "redis" => j \in revoked \/ jwts[j].exp <= now
        /\ place[j] \in Instances => j \in local[place[j]]
    BY AccessParts DEF LogoutsKept
  <1>4. /\ now \in Nat /\ jwts[j].exp \in Nat /\ redis \in {"absent", "up", "down"}
    BY <1>2, AccessTypes, ServerAssumption DEF TypeOKA, Claims, Times
  <1>5. CASE redis = "up"
    BY <1>2, <1>3, <1>4, <1>5 DEF Revoked
  <1>6. CASE redis # "up"
    BY <1>2, <1>3, <1>4, <1>6 DEF Revoked, InList
  <1>7. QED
    BY <1>2, <1>4, <1>5, <1>6

\* request_magic_link: links to one address are spaced by RateTtl though the counter is
\* made and given its expiry by two calls to Redis, each of which may fail.
THEOREM LinksAlwaysSpaced == SpecA => LinksAreSpaced
  <1>1. AccessInv /\ [NextA]_accessVars => [Spaced]_req
    BY SpacedStep DEF accessVars
  <1>2. QED
    BY <1>1, AccessInvariance, PTL DEF SpecA, LinksAreSpaced, Spaced

\* check_revoked: where a logged out token can still be admitted, and where never.
THEOREM LogoutAlwaysHolds == SpecA => LogoutHolds
  <1>1. AccessInv /\ [NextA]_accessVars => [Held]_req
    BY HeldStep DEF accessVars
  <1>2. QED
    BY <1>1, AccessInvariance, PTL DEF SpecA, LogoutHolds, Held

-----------------------------------------------------------------------------
(* The bus and the audit trail                                             *)

\* What appending to a queue does to its entries.
LEMMA QueueAppended ==
    ASSUME NEW S, NEW q \in Seq(S), NEW x \in S
    PROVE  /\ Append(q, x) \in Seq(S)
           /\ Len(Append(q, x)) = Len(q) + 1 /\ Len(q) \in Nat
           /\ \A i \in 1 .. Len(q) : Append(q, x)[i] = q[i]
           /\ Append(q, x)[Len(q) + 1] = x
           /\ Entries(Append(q, x)) = Entries(q) \cup {x}
  <1>1. /\ Append(q, x) \in Seq(S)
        /\ Len(Append(q, x)) = Len(q) + 1 /\ Len(q) \in Nat
        /\ \A i \in 1 .. Len(q) : Append(q, x)[i] = q[i]
        /\ Append(q, x)[Len(q) + 1] = x
    OBVIOUS
  <1>2. DOMAIN Append(q, x) = 1 .. (Len(q) + 1) /\ DOMAIN q = 1 .. Len(q)
    OBVIOUS
  <1>3. Entries(Append(q, x)) \subseteq Entries(q) \cup {x}
    BY <1>1, <1>2 DEF Entries
  <1>4. Entries(q) \subseteq Entries(Append(q, x))
    BY <1>1, <1>2 DEF Entries
  <1>5. x \in Entries(Append(q, x))
    <2>1. Len(q) + 1 \in DOMAIN Append(q, x)
      BY <1>1, <1>2
    <2>2. QED
      BY <1>1, <2>1 DEF Entries
  <1>6. QED
    BY <1>1, <1>3, <1>4, <1>5

LEMMA TaskFacts ==
    /\ Free.stage = "idle"
    /\ \A t \in Task :
          t # Free /\ t.stage \in {"auditing", "done", "published"} /\ t.ev \in Event
    /\ Receiving.stage = "recv"
    /\ \A t \in Hand :
          t # Receiving /\ t.stage \in {"lookup", "notify", "audit"} /\ t.ev \in Event
  BY DEF Free, Receiving, Task, Hand

LEMMA StreamFacts ==
    ASSUME NEW n \in Nat, NEW b \in Nat
    PROVE  /\ Closed.open = FALSE
           /\ \A s \in Stream(n, b) :
                 /\ s # Closed /\ s.open = TRUE /\ s.user \in Audience
                 /\ s.pos \in 1 .. (n + 1) /\ s.since \in 0 .. b
                 /\ s.lagged \in BOOLEAN /\ s.seen \in Seq(Event)
  <1>1. /\ Closed.open = FALSE
        /\ \A s \in Stream(n, b) :
                 /\ s # Closed /\ s.open = TRUE /\ s.user \in Audience
                 /\ s.pos \in 1 .. (n + 1) /\ s.since \in 0 .. b
                 /\ s.lagged \in BOOLEAN /\ s.seen \in Seq(Event)
    <2>1. Closed.open = FALSE
      BY DEF Closed
    <2>2. ASSUME NEW s \in Stream(n, b)
          PROVE  /\ s.open = TRUE /\ s.user \in Audience
                 /\ s.pos \in 1 .. (n + 1) /\ s.since \in 0 .. b
                 /\ s.lagged \in BOOLEAN /\ s.seen \in Seq(Event)
      BY DEF Stream
    <2>3. QED
      BY <2>1, <2>2
  <1>2. QED
    BY <1>1

LEMMA StreamsGrow ==
    ASSUME NEW n \in Nat, NEW b \in Nat, NEW m \in Nat, NEW c \in Nat, n <= m, b <= c
    PROVE  Stream(n, b) \subseteq Stream(m, c)
  <1>1. 1 .. (n + 1) \subseteq 1 .. (m + 1) /\ 0 .. b \subseteq 0 .. c
    OBVIOUS
  <1>2. QED
    BY <1>1 DEF Stream

\* What the types say of one handler, one stream and the consumer.
LEMMA NoticeTypes ==
    ASSUME TypeOKN
    PROVE  /\ \A h \in Handlers : handler[h] \in Task \/ handler[h] = Free
           /\ consumer \in Hand \/ consumer = Receiving
           /\ \A c \in Clients :
                 stream[c] \in Stream(Len(notices), Len(bus)) \/ stream[c] = Closed
           /\ Len(bus) \in Nat /\ Len(notices) \in Nat /\ next \in 1 .. (Len(bus) + 1)
           /\ DOMAIN bus = 1 .. Len(bus) /\ DOMAIN notices = 1 .. Len(notices)
           /\ \A i \in 1 .. Len(bus) : bus[i] \in Event
           /\ begun \in 0 .. MaxEvents /\ begun \in Nat
  BY BoundAssumption DEF TypeOKN

LEMMA EventIds == \A ev \in Event : ev.id \in 1 .. MaxEvents /\ ev.id \in Nat
  BY BoundAssumption DEF Event

LEMMA OldestBounds ==
    ASSUME NEW q, Len(q) \in Nat, NEW cap \in Nat \ {0}
    PROVE  Oldest(q, cap) \in 1 .. (Len(q) + 1) /\ Oldest(q, cap) \in Nat
  BY DEF Oldest

-----------------------------------------------------------------------------
(* The events the consumer has passed                                      *)

\* The event is explained, and by one thing only.
Explained(ev) ==
    LET row == BusRow(ev) \in Entries(trail)
        failed == BusRow(ev) \in unrecorded
        lost == ev \in dropped
        held == InHand(ev)
        silent == ev.kind \in SilentKinds /\ ev \notin dropped IN
    /\ row \/ failed \/ lost \/ held \/ silent
    /\ row => ~failed /\ ~lost /\ ~held /\ ~silent
    /\ failed => ~lost /\ ~held /\ ~silent
    /\ lost => ~held /\ ~silent
    /\ held => ~silent

\* One of five conditions holds.
LEMMA OneOfFive ==
    ASSUME NEW A \in BOOLEAN, NEW B \in BOOLEAN, NEW C \in BOOLEAN,
           NEW D \in BOOLEAN, NEW E \in BOOLEAN
    PROVE  Cardinality({x \in {"row", "unrecorded", "dropped", "inHand", "silent"} :
               \/ x = "row" /\ A
               \/ x = "unrecorded" /\ B
               \/ x = "dropped" /\ C
               \/ x = "inHand" /\ D
               \/ x = "silent" /\ E}) = 1
           <=> /\ A \/ B \/ C \/ D \/ E
               /\ A => ~B /\ ~C /\ ~D /\ ~E
               /\ B => ~C /\ ~D /\ ~E
               /\ C => ~D /\ ~E
               /\ D => ~E
  <1> DEFINE All == {"row", "unrecorded", "dropped", "inHand", "silent"}
             S == {x \in All :
                     \/ x = "row" /\ A
                     \/ x = "unrecorded" /\ B
                     \/ x = "dropped" /\ C
                     \/ x = "inHand" /\ D
                     \/ x = "silent" /\ E}
  <1>1. IsFiniteSet({"row"} \cup {"unrecorded"} \cup {"dropped"} \cup {"inHand"} \cup {"silent"})
    BY FS_Singleton, FS_Union
  <1>2. IsFiniteSet(S)
    <2>1. All = {"row"} \cup {"unrecorded"} \cup {"dropped"} \cup {"inHand"} \cup {"silent"}
      OBVIOUS
    <2>2. S \in SUBSET All
      OBVIOUS
    <2>3. QED
      BY <1>1, <2>1, <2>2, FS_Subset
  <1>3. Cardinality(S) = 1 <=> \E x : S = {x}
    BY <1>2, FS_Singleton
  <1>4. /\ "row" \in S <=> A
        /\ "unrecorded" \in S <=> B
        /\ "dropped" \in S <=> C
        /\ "inHand" \in S <=> D
        /\ "silent" \in S <=> E
    OBVIOUS
  <1>5. S \subseteq All
    OBVIOUS
  <1> HIDE DEF S
  <1>6. (\E x : S = {x}) <=> /\ A \/ B \/ C \/ D \/ E
                             /\ A => ~B /\ ~C /\ ~D /\ ~E
                             /\ B => ~C /\ ~D /\ ~E
                             /\ C => ~D /\ ~E
                             /\ D => ~E
    <2>1. ASSUME NEW x, S = {x}
          PROVE  /\ A \/ B \/ C \/ D \/ E
                 /\ A => ~B /\ ~C /\ ~D /\ ~E
                 /\ B => ~C /\ ~D /\ ~E
                 /\ C => ~D /\ ~E
                 /\ D => ~E
      BY <1>4, <1>5, <2>1
    <2>2. ASSUME /\ A \/ B \/ C \/ D \/ E
                 /\ A => ~B /\ ~C /\ ~D /\ ~E
                 /\ B => ~C /\ ~D /\ ~E
                 /\ C => ~D /\ ~E
                 /\ D => ~E
          PROVE  \E x : S = {x}
      <3>1. CASE A
        <4>1. S = {"row"}
          BY <1>4, <1>5, <2>2, <3>1
        <4>2. QED
          BY <4>1
      <3>2. CASE B
        <4>1. S = {"unrecorded"}
          BY <1>4, <1>5, <2>2, <3>2
        <4>2. QED
          BY <4>1
      <3>3. CASE C
        <4>1. S = {"dropped"}
          BY <1>4, <1>5, <2>2, <3>3
        <4>2. QED
          BY <4>1
      <3>4. CASE D
        <4>1. S = {"inHand"}
          BY <1>4, <1>5, <2>2, <3>4
        <4>2. QED
          BY <4>1
      <3>5. CASE E
        <4>1. S = {"silent"}
          BY <1>4, <1>5, <2>2, <3>5
        <4>2. QED
          BY <4>1
      <3>6. QED
        BY <2>2, <3>1, <3>2, <3>3, <3>4, <3>5
    <2>3. QED
      BY <2>1, <2>2
  <1>7. QED
    BY <1>3, <1>6 DEF S

LEMMA GapsOnce == GapsAreExplained <=> \A i \in 1 .. (next - 1) : Explained(bus[i])
  <1>1. ASSUME NEW i \in 1 .. (next - 1)
        PROVE  Explained(bus[i]) <=>
               LET row == [ev |-> bus[i], by |-> "bus"]
                   inHand == consumer # Receiving /\ consumer.ev = bus[i] IN
               Cardinality({x \in {"row", "unrecorded", "dropped", "inHand", "silent"} :
                   \/ x = "row" /\ row \in Entries(trail)
                   \/ x = "unrecorded" /\ row \in unrecorded
                   \/ x = "dropped" /\ bus[i] \in dropped
                   \/ x = "inHand" /\ inHand
                   \/ x = "silent" /\ bus[i].kind \in SilentKinds /\ bus[i] \notin dropped}) = 1
    <2> DEFINE A == BusRow(bus[i]) \in Entries(trail)
               B == BusRow(bus[i]) \in unrecorded
               C == bus[i] \in dropped
               D == InHand(bus[i])
               E == bus[i].kind \in SilentKinds /\ bus[i] \notin dropped
    <2>1. /\ A \in BOOLEAN /\ B \in BOOLEAN /\ C \in BOOLEAN /\ D \in BOOLEAN /\ E \in BOOLEAN
      BY DEF InHand
    <2>2. Explained(bus[i]) <=> /\ A \/ B \/ C \/ D \/ E
                                /\ A => ~B /\ ~C /\ ~D /\ ~E
                                /\ B => ~C /\ ~D /\ ~E
                                /\ C => ~D /\ ~E
                                /\ D => ~E
      BY DEF Explained
    <2>3. Explained(bus[i]) <=>
          Cardinality({x \in {"row", "unrecorded", "dropped", "inHand", "silent"} :
               \/ x = "row" /\ A
               \/ x = "unrecorded" /\ B
               \/ x = "dropped" /\ C
               \/ x = "inHand" /\ D
               \/ x = "silent" /\ E}) = 1
      <3> HIDE DEF A, B, C, D, E
      <3> QED
        BY <2>1, <2>2, OneOfFive
    <2>4. QED
      BY <2>3 DEF BusRow, InHand
  <1>2. QED
    BY <1>1 DEF GapsAreExplained

-----------------------------------------------------------------------------
(* Types of the announcements                                              *)

\* The handlers' moves keep the types.
LEMMA HandlerTypes ==
    ASSUME TypeOKN, NEW h \in Handlers,
           \/ \E kind \in Kinds, u \in Audience : Begin(h, kind, u)
           \/ Work(h) \/ Rollback(h)
    PROVE  TypeOKN'
  <1>1. Free \notin Task /\ handler \in [Handlers -> {Free} \cup Task]
    BY TaskFacts DEF TypeOKN
  <1>2. ASSUME NEW kind \in Kinds, NEW u \in Audience, Begin(h, kind, u)
        PROVE  TypeOKN'
    <2>1. begun + 1 \in 1 .. MaxEvents
      BY <1>2, BoundAssumption DEF Begin, TypeOKN
    <2>2. [id |-> begun + 1, kind |-> kind, user |-> u] \in Event
      BY <2>1 DEF Event
    <2>3. [stage |-> IF kind \in PoolKinds THEN "auditing" ELSE "done",
           ev |-> [id |-> begun + 1, kind |-> kind, user |-> u]] \in Task
      BY <2>2 DEF Task
    <2>4. handler' \in [Handlers -> {Free} \cup Task]
      BY <1>1, <1>2, <2>3 DEF Begin
    <2>5. begun' \in 0 .. MaxEvents
      BY <1>2, <2>1 DEF Begin
    <2>6. QED
      BY <1>2, <2>4, <2>5 DEF Begin, TypeOKN
  <1>3. ASSUME NEW stage \in {"done", "published"}, handler[h] # Free, Advance(h, stage)
        PROVE  handler' \in [Handlers -> {Free} \cup Task]
    <2>1. [handler[h] EXCEPT !.stage = stage] \in Task
      BY <1>1, <1>3 DEF Task
    <2>2. QED
      BY <1>1, <1>3, <2>1 DEF Advance
  <1>4. handler[h].stage # "idle" => handler[h] \in Task /\ handler[h].ev \in Event
    BY <1>1, TaskFacts
  <1>5. CASE AuditOnPool(h)
    <2>1. [ev |-> handler[h].ev, by |-> "service"] \in AuditRow
      BY <1>4, <1>5 DEF AuditOnPool, AuditRow
    <2>2. trail' \in Seq(AuditRow)
      BY <1>5, <2>1, QueueAppended DEF AuditOnPool, TypeOKN
    <2>3. handler' \in [Handlers -> {Free} \cup Task]
      BY <1>3, <1>5, TaskFacts DEF AuditOnPool
    <2>4. QED
      BY <1>5, <2>2, <2>3 DEF AuditOnPool, TypeOKN
  <1>6. CASE AuditFails(h)
    <2>1. [ev |-> handler[h].ev, by |-> "service"] \in AuditRow
      BY <1>4, <1>6 DEF AuditFails, AuditRow
    <2>2. handler' \in [Handlers -> {Free} \cup Task]
      BY <1>3, <1>6, TaskFacts DEF AuditFails
    <2>3. QED
      BY <1>6, <2>1, <2>2 DEF AuditFails, TypeOKN
  <1>7. CASE Publish(h)
    <2>1. /\ bus' \in Seq(Event) /\ Len(bus') = Len(bus) + 1 /\ Len(bus) \in Nat
          /\ Len(notices) \in Nat
      BY <1>4, <1>7, QueueAppended DEF Publish, TypeOKN
    <2>2. handler' \in [Handlers -> {Free} \cup Task]
      BY <1>3, <1>7, TaskFacts DEF Publish
    <2>3. next' \in 1 .. (Len(bus') + 1)
      BY <1>7, <2>1 DEF Publish, TypeOKN
    <2>4. Stream(Len(notices), Len(bus)) \subseteq Stream(Len(notices), Len(bus'))
      <3>1. Len(bus') \in Nat /\ Len(bus) <= Len(bus') /\ Len(notices) <= Len(notices)
        BY <2>1
      <3>2. QED
        BY <2>1, <3>1, StreamsGrow
    <2>5. stream' \in [Clients -> {Closed} \cup Stream(Len(notices'), Len(bus'))]
      BY <1>7, <2>4 DEF Publish, TypeOKN
    <2>6. QED
      BY <1>7, <2>1, <2>2, <2>3, <2>5 DEF Publish, TypeOKN
  <1>8. CASE Commit(h)
    <2>1. handler[h].ev \in Event
      BY <1>4, <1>8 DEF Commit
    <2>2. [ev |-> handler[h].ev, by |-> "service"] \in AuditRow
      BY <2>1 DEF AuditRow
    <2>3. trail' \in Seq(AuditRow)
      BY <1>8, <2>2, QueueAppended DEF Commit, TypeOKN
    <2>4. handler' \in [Handlers -> {Free} \cup Task]
      BY <1>1, <1>8 DEF Commit
    <2>5. committed' \subseteq Event
      BY <1>8, <2>1 DEF Commit, TypeOKN
    <2>6. QED
      BY <1>8, <2>3, <2>4, <2>5 DEF Commit, TypeOKN
  <1>9. CASE Rollback(h)
    <2>1. handler' \in [Handlers -> {Free} \cup Task]
      BY <1>1, <1>9 DEF Rollback
    <2>2. QED
      BY <1>9, <2>1 DEF Rollback, TypeOKN
  <1>10. QED
    BY <1>2, <1>5, <1>6, <1>7, <1>8, <1>9 DEF Work

\* So do the consumer's.
LEMMA ConsumerTypes ==
    ASSUME TypeOKN, Consume
    PROVE  TypeOKN'
  <1>1. /\ Oldest(bus, BusCap) \in 1 .. (Len(bus) + 1) /\ Oldest(bus, BusCap) \in Nat
        /\ Len(bus) \in Nat
    BY NoticeTypes, OldestBounds, CapacityAssumption
  <1>2. consumer.stage # "recv" => consumer \in Hand
    BY NoticeTypes, TaskFacts
  <1>3. CASE Receive
    <2>1. next \in 1 .. Len(bus)
      BY <1>1, <1>3 DEF Receive
    <2>2. bus[next] \in Event /\ next' \in 1 .. (Len(bus) + 1)
      BY <1>1, <1>3, <2>1, NoticeTypes DEF Receive
    <2>3. FirstStage(bus[next].kind) \in {"lookup", "notify", "audit"}
      BY DEF FirstStage
    <2>4. [stage |-> FirstStage(bus[next].kind), ev |-> bus[next]] \in Hand
      BY <2>2, <2>3 DEF Hand
    <2>5. consumer' \in {Receiving} \cup Hand
      BY <1>3, <2>4 DEF Receive
    <2>6. QED
      BY <1>3, <2>2, <2>5 DEF Receive, TypeOKN
  <1>4. CASE Lag
    <2>1. \A i \in next .. (Oldest(bus, BusCap) - 1) : i \in 1 .. Len(bus)
      BY <1>1, NoticeTypes
    <2>2. dropped' \subseteq Event
      BY <1>4, <2>1, NoticeTypes DEF Lag, TypeOKN
    <2>3. next' \in 1 .. (Len(bus) + 1)
      BY <1>1, <1>4 DEF Lag
    <2>4. QED
      BY <1>4, <2>2, <2>3 DEF Lag, TypeOKN
  <1>5. CASE LookUp
    <2>1. consumer' \in Hand
      BY <1>2, <1>5 DEF LookUp, Hand
    <2>2. QED
      BY <1>5, <2>1 DEF LookUp, TypeOKN
  <1>6. CASE Notify
    <2>1. consumer \in Hand /\ consumer.ev \in Event
      BY <1>2, <1>6, TaskFacts DEF Notify
    <2>2. consumer' \in Hand
      BY <1>6, <2>1 DEF Notify, Hand
    <2>3. /\ notices' \in Seq(Event) /\ Len(notices') = Len(notices) + 1
          /\ Len(notices) \in Nat
      BY <1>6, <2>1, QueueAppended DEF Notify, TypeOKN
    <2>4. Stream(Len(notices), Len(bus)) \subseteq Stream(Len(notices'), Len(bus))
      <3>1. Len(notices') \in Nat /\ Len(notices) <= Len(notices') /\ Len(bus) <= Len(bus)
        BY <1>1, <2>3
      <3>2. QED
        BY <1>1, <2>3, <3>1, StreamsGrow
    <2>5. stream' \in [Clients -> {Closed} \cup Stream(Len(notices'), Len(bus'))]
      BY <1>6, <2>4 DEF Notify, TypeOKN
    <2>6. QED
      BY <1>6, <2>2, <2>3, <2>5 DEF Notify, TypeOKN
  <1>7. CASE WriteRow
    <2>1. consumer.ev \in Event
      BY <1>2, <1>7, TaskFacts DEF WriteRow
    <2>2. [ev |-> consumer.ev, by |-> "bus"] \in AuditRow
      BY <2>1 DEF AuditRow
    <2>3. trail' \in Seq(AuditRow) /\ unrecorded' \subseteq AuditRow
      <3>1. CASE trail' = Append(trail, [ev |-> consumer.ev, by |-> "bus"])
                 /\ UNCHANGED unrecorded
        BY <2>2, <3>1, QueueAppended DEF TypeOKN
      <3>2. CASE unrecorded' = unrecorded \cup {[ev |-> consumer.ev, by |-> "bus"]}
                 /\ UNCHANGED trail
        BY <2>2, <3>2 DEF TypeOKN
      <3>3. QED
        BY <1>7, <3>1, <3>2 DEF WriteRow
    <2>4. QED
      BY <1>7, <2>3 DEF WriteRow, TypeOKN
  <1>8. QED
    BY <1>3, <1>4, <1>5, <1>6, <1>7 DEF Consume

\* So do the clients'.
LEMMA ClientTypes ==
    ASSUME TypeOKN, NEW c \in Clients,
           \/ \E u \in Audience : Connect(c, u)
           \/ Deliver(c) \/ SkipLagged(c) \/ Disconnect(c)
    PROVE  TypeOKN'
  <1> DEFINE Streams == Stream(Len(notices), Len(bus))
  <1>1. /\ Len(bus) \in Nat /\ Len(notices) \in Nat
        /\ stream[c].open = TRUE => stream[c] \in Streams
        /\ Oldest(notices, StreamCap) \in 1 .. (Len(notices) + 1)
    BY NoticeTypes, StreamFacts, OldestBounds, CapacityAssumption
  <1>2. ASSUME NEW s \in {Closed} \cup Streams, stream' = [stream EXCEPT ![c] = s]
        PROVE  stream' \in [Clients -> {Closed} \cup Streams]
    BY <1>2 DEF TypeOKN
  <1>3. ASSUME NEW u \in Audience, Connect(c, u)
        PROVE  TypeOKN'
    <2>1. [open |-> TRUE, user |-> u, pos |-> Len(notices) + 1,
           since |-> Len(bus), lagged |-> FALSE, seen |-> <<>>] \in Streams
      BY <1>1 DEF Stream
    <2>2. QED
      BY <1>2, <1>3, <2>1 DEF Connect, TypeOKN
  <1>4. CASE Deliver(c)
    <2>1. stream[c] \in Streams /\ stream[c].pos \in 1 .. Len(notices)
      BY <1>1, <1>4, StreamFacts DEF Deliver
    <2>2. notices[stream[c].pos] \in Event /\ stream[c].pos + 1 \in 1 .. (Len(notices) + 1)
      BY <1>1, <2>1 DEF TypeOKN
    <2> DEFINE seen == IF Concerns(notices[stream[c].pos], stream[c].user)
                         THEN Append(stream[c].seen, notices[stream[c].pos])
                         ELSE stream[c].seen
    <2>3. stream' = [stream EXCEPT ![c] =
                        [stream[c] EXCEPT !.pos = stream[c].pos + 1, !.seen = seen]]
      BY <1>4 DEF Deliver
    <2>4. seen \in Seq(Event)
      <3>1. stream[c].seen \in Seq(Event)
        BY <2>1 DEF Stream
      <3>2. QED
        BY <2>2, <3>1, QueueAppended
    <2> HIDE DEF seen
    <2>5. [stream[c] EXCEPT !.pos = stream[c].pos + 1, !.seen = seen] \in Streams
      BY <2>1, <2>2, <2>4 DEF Stream
    <2>6. QED
      BY <1>2, <1>4, <2>3, <2>5 DEF Deliver, TypeOKN
  <1>5. CASE SkipLagged(c)
    <2>1. [stream[c] EXCEPT !.pos = Oldest(notices, StreamCap), !.lagged = TRUE] \in Streams
      BY <1>1, <1>5 DEF SkipLagged, Stream
    <2>2. QED
      BY <1>2, <1>5, <2>1 DEF SkipLagged, TypeOKN
  <1>6. CASE Disconnect(c)
    BY <1>2, <1>6 DEF Disconnect, TypeOKN
  <1>7. QED
    BY <1>3, <1>4, <1>5, <1>6

LEMMA InitTypesN == InitN => TypeOKN
  <1> SUFFICES ASSUME InitN PROVE TypeOKN
    OBVIOUS
  <1>1. Len(bus) = 0 /\ bus \in Seq(Event) /\ notices \in Seq(Event) /\ trail \in Seq(AuditRow)
    BY DEF InitN
  <1>2. QED
    BY <1>1, BoundAssumption DEF InitN, TypeOKN

LEMMA HaltTypes == TypeOKN /\ Halt => TypeOKN'
  <1> SUFFICES ASSUME TypeOKN, Halt PROVE TypeOKN'
    OBVIOUS
  <1>1. Len(bus') = 0 /\ bus' \in Seq(Event) /\ notices' \in Seq(Event)
    BY DEF Halt
  <1>2. QED
    BY <1>1 DEF Halt, TypeOKN

\* Starts, signals and stops keep the types.
LEMMA ProcessTypes ==
    ASSUME TypeOKN, Signal \/ Stop \/ Kill \/ Boot \/ UNCHANGED announcementVars
    PROVE  TypeOKN'
  <1>1. CASE Signal
    BY <1>1 DEF Signal, process, TypeOKN
  <1>2. CASE Stop \/ Kill
    BY <1>2, HaltTypes DEF Stop, Kill
  <1>3. CASE Boot
    <2>1. starts' \in 1 .. (MaxStarts + 1)
      BY <1>3, BoundAssumption DEF Boot, TypeOKN
    <2>2. QED
      BY <1>3, <2>1 DEF Boot, process, TypeOKN
  <1>4. CASE UNCHANGED announcementVars
    BY <1>4 DEF announcementVars, process, TypeOKN
  <1>5. QED
    BY <1>1, <1>2, <1>3, <1>4

LEMMA NextTypesN == TypeOKN /\ [NextN]_announcementVars => TypeOKN'
  <1> SUFFICES ASSUME TypeOKN, [NextN]_announcementVars PROVE TypeOKN'
    OBVIOUS
  <1>1. CASE \E h \in Handlers, kind \in Kinds, u \in Audience : Begin(h, kind, u)
    BY <1>1, HandlerTypes
  <1>2. CASE \E h \in Handlers : Work(h) \/ Rollback(h)
    BY <1>2, HandlerTypes
  <1>3. CASE Consume
    BY <1>3, ConsumerTypes
  <1>4. CASE \E c \in Clients :
                \/ \E u \in Audience : Connect(c, u)
                \/ Deliver(c) \/ SkipLagged(c) \/ Disconnect(c)
    BY <1>4, ClientTypes
  <1>5. CASE Signal \/ Stop \/ Kill \/ Boot \/ UNCHANGED announcementVars
    BY <1>5, ProcessTypes
  <1>6. QED
    BY <1>1, <1>2, <1>3, <1>4, <1>5 DEF NextN

-----------------------------------------------------------------------------
(* What a step leaves alone                                                *)

LEMMA RowsDiffer ==
    /\ \A ev, other : ServiceRow(ev) # BusRow(other)
    /\ \A ev, other : ServiceRow(ev) = ServiceRow(other) => ev = other
    /\ \A ev, other : BusRow(ev) = BusRow(other) => ev = other
  <1>1. \A ev : ServiceRow(ev).by = "service" /\ ServiceRow(ev).ev = ev
    BY DEF ServiceRow
  <1>2. \A ev : BusRow(ev).by = "bus" /\ BusRow(ev).ev = ev
    BY DEF BusRow
  <1>3. QED
    BY <1>1, <1>2

LEMMA KindsDiffer == \A kind \in PoolKinds : kind \notin InlineKinds
  BY DEF PoolKinds, InlineKinds

\* The consumer and its rows stay as they are, and so does what is on the bus.
ConsumerStays ==
    /\ next' = next /\ dropped' = dropped
    /\ \A ev : InHand(ev)' <=> InHand(ev)
    /\ \A i \in 1 .. Len(bus) : bus'[i] = bus[i]
    /\ \A ev : BusRow(ev) \in Entries(trail)' <=> BusRow(ev) \in Entries(trail)
    /\ \A ev : BusRow(ev) \in unrecorded' <=> BusRow(ev) \in unrecorded

LEMMA ReachedStays ==
    ASSUME ConsumerStays
    PROVE  /\ \A ev : Reached(ev)' <=> Reached(ev)
           /\ \A ev : Explained(ev)' <=> Explained(ev)
  BY DEF ConsumerStays, Reached, Explained, Rows

\* The part of the bus the consumer has passed stays explained.
LEMMA GapsKept ==
    ASSUME TypeOKN, GapsAreExplained, next' = next,
           \A i \in 1 .. Len(bus) : bus'[i] = bus[i],
           \A ev : Explained(ev) => Explained(ev)'
    PROVE  GapsAreExplained'
  <1>1. \A i \in 1 .. (next - 1) : i \in 1 .. Len(bus)
    BY NoticeTypes
  <1>2. (\A i \in 1 .. (next - 1) : Explained(bus[i]))'
    <2>1. SUFFICES ASSUME NEW i \in 1 .. (next - 1)
                   PROVE  Explained(bus[i])'
      OBVIOUS
    <2>2. PICK ev : ev = bus[i]
      OBVIOUS
    <2>3. Explained(ev) /\ bus'[i] = ev
      BY <1>1, <2>2, GapsOnce
    <2>4. Explained(ev)'
      BY <2>3
    <2>5. QED
      BY <2>3, <2>4 DEF Explained, InHand
  <1>3. QED
    BY <1>2, GapsOnce, PTL

LEMMA GapsStay ==
    ASSUME TypeOKN, SilentPassBy, GapsAreExplained, ConsumerStays
    PROVE  SilentPassBy' /\ GapsAreExplained'
  <1>1. SilentPassBy'
    BY DEF SilentPassBy, ConsumerStays, Rows
  <1>2. QED
    BY <1>1, ReachedStays, GapsKept DEF ConsumerStays

\* A handler keeps its event; it ends, or it publishes, or it stays where it is.
HandlersStay ==
    \A h \in Handlers :
        handler'[h] # Free =>
            /\ handler[h] # Free /\ handler'[h].ev = handler[h].ev
            /\ Unsent(h)' => Unsent(h)

LEMMA EventsStay ==
    ASSUME TypeOKN, TypeOKN', OnlyBegun, EachEventOnce, HandlersStay,
           begun' = begun, bus' = bus, next' = next,
           \A ev : Reached(ev)' <=> Reached(ev)
    PROVE  OnlyBegun' /\ EachEventOnce'
  <1>1. \A ev : Reached(ev)' <=> Reached(ev)
    OBVIOUS
  <1>2. OnlyBegun'
    BY <1>1 DEF OnlyBegun, HandlersStay
  <1>3. \A h \in Handlers : Unsent(h)' => handler'[h] # Free
    BY TaskFacts DEF Unsent
  <1>4. EachEventOnce'
    <2>1. \A g, h \in Handlers :
            handler'[g] # Free /\ handler'[h] # Free /\ handler'[g].ev = handler'[h].ev => g = h
      BY DEF EachEventOnce, HandlersStay
    <2>2. \A h \in Handlers : Unsent(h)' =>
            handler'[h].ev \notin Entries(bus)' /\ ~ Reached(handler[h].ev)'
      <3>1. SUFFICES ASSUME NEW h \in Handlers, Unsent(h)'
                     PROVE  handler'[h].ev \notin Entries(bus)' /\ ~ Reached(handler[h].ev)'
        OBVIOUS
      <3>2. Unsent(h) /\ handler'[h].ev = handler[h].ev
        BY <1>3, <3>1 DEF HandlersStay
      <3>3. PICK ev : ev = handler[h].ev
        OBVIOUS
      <3>4. ev \notin Entries(bus) /\ ~ Reached(ev)
        BY <3>2, <3>3 DEF EachEventOnce
      <3>5. ~ Reached(ev)'
        BY <1>1, <3>4
      <3>6. QED
        BY <3>2, <3>3, <3>4, <3>5 DEF Entries, Reached, InHand
    <2>3. (\A i \in next .. Len(bus) : ~ Reached(bus[i]))'
      <3>1. SUFFICES ASSUME NEW i \in next .. Len(bus)
                     PROVE  ~ Reached(bus[i])'
        OBVIOUS
      <3>2. PICK ev : ev = bus[i]
        OBVIOUS
      <3>3. ~ Reached(ev)'
        BY <1>1, <3>2 DEF EachEventOnce
      <3>4. QED
        BY <3>2, <3>3 DEF Reached, InHand
    <2>4. QED
      BY <2>1, <2>2, <2>3 DEF EachEventOnce
  <1>5. QED
    BY <1>2, <1>4

\* No handler moves but to end or from "done" to "published", and no row of a service
\* comes or goes.
ServiceStays ==
    /\ committed' = committed
    /\ \A h \in Handlers :
          handler'[h] # Free =>
             /\ handler'[h].ev = handler[h].ev
             /\ \/ handler'[h].stage = handler[h].stage
                \/ handler[h].stage = "done" /\ handler'[h].stage = "published"
    /\ \A ev : ServiceRow(ev) \in Entries(trail)' <=> ServiceRow(ev) \in Entries(trail)
    /\ \A ev : ServiceRow(ev) \in unrecorded' <=> ServiceRow(ev) \in unrecorded

LEMMA RowsStay ==
    ASSUME RowsFirst, ServiceStays
    PROVE  RowsFirst'
  <1>1. \A ev : ServiceRow(ev) \in Rows' <=> ServiceRow(ev) \in Rows
    BY DEF ServiceStays, Rows
  <1>2. ASSUME NEW h \in Handlers
        PROVE  /\ handler'[h].stage = "auditing" => handler'[h].ev.kind \in PoolKinds
               /\ handler'[h].stage \in {"done", "published"} /\ handler'[h].ev.kind \in PoolKinds
                     => ServiceRow(handler'[h].ev) \in Rows'
    <2>1. CASE handler'[h] = Free
      BY <2>1, TaskFacts
    <2>2. CASE handler'[h] # Free
      BY <1>1, <2>2 DEF ServiceStays, RowsFirst
    <2>3. QED
      BY <2>1, <2>2
  <1>3. \A ev \in committed' :
          /\ ev.kind \in PoolKinds => ServiceRow(ev) \in Rows'
          /\ ev.kind \in InlineKinds => ServiceRow(ev) \in Entries(trail)'
    BY <1>1 DEF ServiceStays, RowsFirst
  <1>4. \A ev \in Event :
          ev.kind \in InlineKinds /\ ServiceRow(ev) \in Entries(trail)' => ev \in committed'
    BY DEF ServiceStays, RowsFirst
  <1>5. QED
    BY <1>2, <1>3, <1>4 DEF RowsFirst

\* The notices of client c whose events the trail holds, or is about to hold, are seen
\* or ahead.
Offered(c) ==
    \A i \in (stream[c].since + 1) .. Len(bus) :
        /\ bus[i].kind \in NoticeKinds
        /\ bus[i].user = stream[c].user
        /\ InTrail(bus[i], "bus") \/ (InHand(bus[i]) /\ consumer.stage = "audit")
        => \/ bus[i] \in Entries(stream[c].seen)
           \/ \E j \in stream[c].pos .. Len(notices) : notices[j] = bus[i]

LEMMA NoticesStay ==
    ASSUME NoticeFirst, ConsumerStays, bus' = bus, notices' = notices,
           consumer'.stage = "audit" => consumer.stage = "audit",
           \A c \in Clients :
              stream'[c].open /\ ~stream'[c].lagged => stream'[c] = stream[c]
    PROVE  NoticeFirst'
  <1>1. \A ev : InTrail(ev, "bus")' <=> InTrail(ev, "bus")
    BY DEF ConsumerStays, InTrail, BusRow
  <1>2. \A ev : InHand(ev)' <=> InHand(ev)
    BY DEF ConsumerStays
  <1>3. SUFFICES ASSUME NEW c \in Clients, stream'[c].open /\ ~stream'[c].lagged
                 PROVE  Offered(c)'
    BY DEF NoticeFirst, Offered
  <1>4. stream'[c] = stream[c] /\ Offered(c)
    BY <1>3 DEF NoticeFirst, Offered
  <1>5. QED
    BY <1>1, <1>2, <1>4 DEF Offered, ConsumerStays

-----------------------------------------------------------------------------
(* One lemma per operation                                                 *)

\* The invariant without the types.
BusInv ==
    /\ OnlyBegun /\ EachEventOnce /\ RowsFirst /\ SilentPassBy
    /\ GapsAreExplained /\ NoticeFirst

LEMMA AdvanceFacts ==
    ASSUME TypeOKN, NEW h \in Handlers, handler[h] # Free,
           NEW stage, Advance(h, stage)
    PROVE  /\ handler'[h].stage = stage /\ handler'[h].ev = handler[h].ev
           /\ \A g \in Handlers \ {h} : handler'[g] = handler[g]
  <1>1. handler[h] \in Task /\ DOMAIN handler = Handlers
    BY NoticeTypes DEF TypeOKN
  <1>2. handler' = [handler EXCEPT ![h] = [handler[h] EXCEPT !.stage = stage]]
    BY DEF Advance
  <1>3. handler'[h] = [handler[h] EXCEPT !.stage = stage]
    BY <1>1, <1>2
  <1>4. handler'[h].stage = stage /\ handler'[h].ev = handler[h].ev
    BY <1>1, <1>3 DEF Task
  <1>5. QED
    BY <1>1, <1>2, <1>4

\* What a step that leaves the bus, the rows and the consumer alone keeps.
LEMMA QuietKeeps ==
    ASSUME TypeOKN, TypeOKN', BusInv,
           UNCHANGED <<begun, bus, next, consumer, trail, committed, unrecorded, dropped>>,
           \A h \in Handlers : handler'[h] # Free => handler'[h] = handler[h]
    PROVE  /\ OnlyBegun' /\ EachEventOnce' /\ RowsFirst' /\ SilentPassBy'
           /\ GapsAreExplained' /\ ConsumerStays
  <1>1. ConsumerStays
    BY DEF ConsumerStays, InHand
  <1>2. HandlersStay
    BY DEF HandlersStay, Unsent
  <1>3. ServiceStays
    BY DEF ServiceStays
  <1>4. OnlyBegun' /\ EachEventOnce'
    BY <1>1, <1>2, EventsStay, ReachedStays DEF BusInv, ConsumerStays
  <1>5. RowsFirst'
    BY <1>3, RowsStay DEF BusInv
  <1>6. SilentPassBy' /\ GapsAreExplained'
    BY <1>1, GapsStay DEF BusInv
  <1>7. QED
    BY <1>1, <1>4, <1>5, <1>6

LEMMA BeginStep ==
    ASSUME TypeOKN, TypeOKN', BusInv, NEW h \in Handlers, NEW kind \in Kinds,
           NEW u \in Audience, Begin(h, kind, u)
    PROVE  BusInv'
  <1> DEFINE new == [id |-> begun + 1, kind |-> kind, user |-> u]
  <1>1. /\ handler'[h].stage = (IF kind \in PoolKinds THEN "auditing" ELSE "done")
        /\ handler'[h].ev = new
        /\ \A g \in Handlers \ {h} : handler'[g] = handler[g]
    BY DEF Begin, TypeOKN
  <1>2. /\ begun' = begun + 1 /\ begun \in Nat
        /\ UNCHANGED <<bus, next, consumer, notices, stream, trail, committed, unrecorded, dropped>>
    BY NoticeTypes DEF Begin
  <1>3. new.id = begun + 1 /\ new.kind = kind
    OBVIOUS
  <1>4. new \in Event
    BY <1>1, TaskFacts DEF TypeOKN
  <1>5. ConsumerStays
    BY <1>2 DEF ConsumerStays, InHand
  <1>6. \A ev : Reached(ev)' <=> Reached(ev)
    BY <1>5, ReachedStays
  <1> HIDE DEF new
  <1>7. ~ Reached(new) /\ new \notin Entries(bus)
    BY <1>2, <1>3, <1>4 DEF BusInv, OnlyBegun, Entries
  <1>8. \A g \in Handlers : handler[g] # Free => handler[g].ev # new
    BY <1>2, <1>3 DEF BusInv, OnlyBegun
  <1>9. OnlyBegun'
    <2>1. \A g \in Handlers : handler'[g] # Free => handler'[g].ev.id <= begun'
      BY <1>1, <1>2, <1>3, EventIds, NoticeTypes, TaskFacts DEF BusInv, OnlyBegun
    <2>2. \A i \in DOMAIN bus' : bus'[i].id <= begun'
      BY <1>2, EventIds, NoticeTypes DEF BusInv, OnlyBegun
    <2>3. \A ev \in Event : Reached(ev)' => ev.id <= begun'
      BY <1>2, <1>6, EventIds DEF BusInv, OnlyBegun
    <2>4. QED
      BY <2>1, <2>2, <2>3 DEF OnlyBegun
  <1>10. EachEventOnce'
    <2>1. \A f, g \in Handlers :
            handler'[f] # Free /\ handler'[g] # Free /\ handler'[f].ev = handler'[g].ev => f = g
      BY <1>1, <1>8 DEF BusInv, EachEventOnce
    <2>2. \A g \in Handlers : Unsent(g)' =>
            handler'[g].ev \notin Entries(bus)' /\ ~ Reached(handler[g].ev)'
      <3>1. SUFFICES ASSUME NEW g \in Handlers, Unsent(g)'
                     PROVE  handler'[g].ev \notin Entries(bus)' /\ ~ Reached(handler[g].ev)'
        OBVIOUS
      <3>2. PICK ev : ev = handler'[g].ev
        OBVIOUS
      <3>3. ev \notin Entries(bus) /\ ~ Reached(ev)
        <4>1. CASE g = h
          BY <1>1, <1>7, <3>2, <4>1
        <4>2. CASE g # h
          <5>1. handler'[g] = handler[g]
            BY <1>1, <4>2
          <5>2. Unsent(g) /\ ev = handler[g].ev
            BY <3>1, <3>2, <5>1 DEF Unsent
          <5>3. QED
            BY <5>2 DEF BusInv, EachEventOnce
        <4>3. QED
          BY <4>1, <4>2
      <3>4. ~ Reached(ev)'
        BY <1>6, <3>3
      <3>5. QED
        BY <1>2, <3>2, <3>3, <3>4 DEF Entries, Reached, InHand
    <2>3. (\A i \in next .. Len(bus) : ~ Reached(bus[i]))'
      BY <1>2 DEF BusInv, EachEventOnce, Reached, InHand, Rows
    <2>4. QED
      BY <1>2, <2>1, <2>2, <2>3 DEF BusInv, EachEventOnce
  <1>11. RowsFirst'
    <2>1. ASSUME NEW g \in Handlers
          PROVE  /\ handler'[g].stage = "auditing" => handler'[g].ev.kind \in PoolKinds
                 /\ handler'[g].stage \in {"done", "published"} /\ handler'[g].ev.kind \in PoolKinds
                       => ServiceRow(handler'[g].ev) \in Rows'
      <3>1. CASE g = h
        BY <1>1, <1>3, <3>1
      <3>2. CASE g # h
        BY <1>1, <1>2, <3>2 DEF BusInv, RowsFirst, Rows
      <3>3. QED
        BY <3>1, <3>2
    <2>2. QED
      BY <1>2, <2>1 DEF BusInv, RowsFirst, Rows, Entries
  <1>12. SilentPassBy' /\ GapsAreExplained'
    BY <1>5, GapsStay DEF BusInv
  <1>13. NoticeFirst'
    BY <1>2, <1>5, NoticesStay DEF BusInv
  <1>14. QED
    BY <1>9, <1>10, <1>11, <1>12, <1>13 DEF BusInv

\* The row of a service on the pool, or the failure of its write.
LEMMA AuditStep ==
    ASSUME TypeOKN, TypeOKN', BusInv, NEW h \in Handlers,
           AuditOnPool(h) \/ AuditFails(h)
    PROVE  BusInv'
  <1> DEFINE row == ServiceRow(handler[h].ev)
  <1>1. /\ handler[h].stage = "auditing" /\ handler[h] # Free
        /\ UNCHANGED <<begun, bus, next, consumer, notices, stream, committed, dropped>>
        /\ Advance(h, "done")
    BY TaskFacts DEF AuditOnPool, AuditFails
  <1>2. /\ handler'[h].stage = "done" /\ handler'[h].ev = handler[h].ev
        /\ \A g \in Handlers \ {h} : handler'[g] = handler[g]
    BY <1>1, AdvanceFacts
  <1>3. handler[h].ev \in Event /\ row \in AuditRow
    BY <1>1, NoticeTypes, TaskFacts DEF ServiceRow, AuditRow
  <1>4. \/ Entries(trail)' = Entries(trail) \cup {row} /\ unrecorded' = unrecorded
        \/ unrecorded' = unrecorded \cup {row} /\ trail' = trail
    <2>1. CASE AuditOnPool(h)
      <3>1. trail' = Append(trail, row) /\ trail \in Seq(AuditRow)
        BY <2>1 DEF AuditOnPool, ServiceRow, TypeOKN
      <3>2. Entries(trail') = Entries(trail) \cup {row}
        BY <1>3, <3>1, QueueAppended
      <3>3. QED
        BY <2>1, <3>2 DEF AuditOnPool, Entries
    <2>2. CASE AuditFails(h)
      BY <2>2 DEF AuditFails, ServiceRow
    <2>3. QED
      BY <2>1, <2>2
  <1>5. Rows' = Rows \cup {row}
    BY <1>4 DEF Rows, Entries
  <1>6. ConsumerStays
    BY <1>1, <1>4, RowsDiffer DEF ConsumerStays, InHand, Entries
  <1>7. HandlersStay
    BY <1>1, <1>2 DEF HandlersStay, Unsent
  <1>8. OnlyBegun' /\ EachEventOnce'
    BY <1>1, <1>6, <1>7, EventsStay, ReachedStays DEF BusInv
  <1>9. RowsFirst'
    <2>1. ASSUME NEW g \in Handlers
          PROVE  /\ handler'[g].stage = "auditing" => handler'[g].ev.kind \in PoolKinds
                 /\ handler'[g].stage \in {"done", "published"} /\ handler'[g].ev.kind \in PoolKinds
                       => ServiceRow(handler'[g].ev) \in Rows'
      <3>1. CASE g = h
        BY <1>2, <1>5, <3>1
      <3>2. CASE g # h
        BY <1>2, <1>5, <3>2 DEF BusInv, RowsFirst
      <3>3. QED
        BY <3>1, <3>2
    <2>2. \A ev \in committed' :
            /\ ev.kind \in PoolKinds => ServiceRow(ev) \in Rows'
            /\ ev.kind \in InlineKinds => ServiceRow(ev) \in Entries(trail)'
      BY <1>1, <1>4, <1>5 DEF BusInv, RowsFirst, Entries
    <2>3. handler[h].ev.kind \notin InlineKinds
      BY <1>1, KindsDiffer DEF BusInv, RowsFirst
    <2>4. \A ev \in Event :
            ev.kind \in InlineKinds /\ ServiceRow(ev) \in Entries(trail)' => ev \in committed'
      BY <1>1, <1>4, <2>3, RowsDiffer DEF BusInv, RowsFirst, Entries
    <2>5. QED
      BY <2>1, <2>2, <2>4 DEF RowsFirst
  <1>10. SilentPassBy' /\ GapsAreExplained'
    BY <1>6, GapsStay DEF BusInv
  <1>11. NoticeFirst'
    BY <1>1, <1>6, NoticesStay DEF BusInv
  <1>12. QED
    BY <1>8, <1>9, <1>10, <1>11 DEF BusInv

LEMMA PublishStep ==
    ASSUME TypeOKN, TypeOKN', BusInv, NEW h \in Handlers, Publish(h)
    PROVE  BusInv'
  <1> DEFINE new == handler[h].ev
             n == Len(bus)
  <1>1. /\ handler[h].stage = "done" /\ handler[h] # Free
        /\ UNCHANGED <<begun, next, consumer, notices, stream, trail, committed,
                       unrecorded, dropped>>
        /\ Advance(h, "published")
    BY TaskFacts DEF Publish
  <1>2. /\ handler'[h].stage = "published" /\ handler'[h].ev = new
        /\ \A g \in Handlers \ {h} : handler'[g] = handler[g]
    BY <1>1, AdvanceFacts
  <1>3. new \in Event
    BY <1>1, NoticeTypes, TaskFacts
  <1>4. /\ Len(bus') = n + 1 /\ n \in Nat
        /\ DOMAIN bus' = 1 .. (n + 1) /\ DOMAIN bus = 1 .. n
        /\ \A i \in 1 .. n : bus'[i] = bus[i]
        /\ bus'[n + 1] = new
        /\ Entries(bus') = Entries(bus) \cup {new}
    <2>1. bus' = Append(bus, new) /\ bus \in Seq(Event)
      BY DEF Publish, TypeOKN
    <2>2. QED
      BY <1>3, <2>1, QueueAppended
  <1>5. Entries(bus)' = Entries(bus) \cup {new}
    BY <1>4 DEF Entries
  <1>6. ConsumerStays
    BY <1>1, <1>4 DEF ConsumerStays, InHand, Entries
  <1>7. \A ev : Reached(ev)' <=> Reached(ev)
    BY <1>6, ReachedStays
  <1>8. /\ ~ Reached(new) /\ new \notin Entries(bus) /\ new.id <= begun
        /\ \A g \in Handlers \ {h} : handler[g] # Free => handler[g].ev # new
    BY <1>1 DEF BusInv, EachEventOnce, OnlyBegun, Unsent
  <1> HIDE DEF new
  <1>9. OnlyBegun'
    <2>1. \A g \in Handlers : handler'[g] # Free => handler'[g].ev.id <= begun'
      BY <1>1, <1>2, <1>8 DEF BusInv, OnlyBegun
    <2>2. \A i \in DOMAIN bus' : bus'[i].id <= begun'
      BY <1>1, <1>4, <1>8 DEF BusInv, OnlyBegun
    <2>3. \A ev \in Event : Reached(ev)' => ev.id <= begun'
      BY <1>1, <1>7 DEF BusInv, OnlyBegun
    <2>4. QED
      BY <2>1, <2>2, <2>3 DEF OnlyBegun
  <1>10. EachEventOnce'
    <2>1. \A f, g \in Handlers :
            handler'[f] # Free /\ handler'[g] # Free /\ handler'[f].ev = handler'[g].ev => f = g
      BY <1>2, <1>8 DEF BusInv, EachEventOnce
    <2>2. \A i, j \in DOMAIN bus' : bus'[i] = bus'[j] => i = j
      <3>1. \A i \in 1 .. n : bus[i] # new
        BY <1>4, <1>8 DEF Entries
      <3>2. QED
        BY <1>4, <3>1 DEF BusInv, EachEventOnce
    <2>3. \A g \in Handlers : Unsent(g)' =>
            handler'[g].ev \notin Entries(bus)' /\ ~ Reached(handler[g].ev)'
      <3>1. SUFFICES ASSUME NEW g \in Handlers, Unsent(g)'
                     PROVE  handler'[g].ev \notin Entries(bus)' /\ ~ Reached(handler[g].ev)'
        OBVIOUS
      <3>2. g # h
        BY <1>2, <3>1 DEF Unsent
      <3>3. handler'[g] = handler[g] /\ Unsent(g)
        BY <1>2, <3>1, <3>2 DEF Unsent
      <3>4. handler[g] # Free
        BY <3>3, TaskFacts DEF Unsent
      <3>5. PICK ev : ev = handler[g].ev
        OBVIOUS
      <3>6. ev \notin Entries(bus) /\ ev # new /\ ~ Reached(ev)
        BY <1>8, <3>2, <3>3, <3>4, <3>5 DEF BusInv, EachEventOnce
      <3>7. ~ Reached(ev)'
        BY <1>7, <3>6
      <3>8. QED
        BY <1>5, <3>3, <3>5, <3>6, <3>7 DEF Reached, InHand
    <2>4. (\A i \in next .. Len(bus) : ~ Reached(bus[i]))'
      <3>1. SUFFICES ASSUME NEW i \in (next .. Len(bus))'
                     PROVE  ~ Reached(bus[i])'
        OBVIOUS
      <3>2. PICK ev : ev = bus'[i]
        OBVIOUS
      <3>3. ~ Reached(ev)
        <4>1. CASE i = n + 1
          BY <1>4, <1>8, <3>2, <4>1
        <4>2. CASE i # n + 1
          <5>1. i \in next .. n /\ i \in 1 .. n
            BY <1>1, <1>4, <4>2, NoticeTypes
          <5>2. QED
            BY <1>4, <3>2, <5>1 DEF BusInv, EachEventOnce
        <4>3. QED
          BY <4>1, <4>2
      <3>4. ~ Reached(ev)'
        BY <1>7, <3>3
      <3>5. QED
        BY <3>2, <3>4 DEF Reached, InHand
    <2>5. QED
      BY <2>1, <2>2, <2>3, <2>4 DEF EachEventOnce
  <1>11. ServiceStays
    <2>1. ASSUME NEW g \in Handlers, handler'[g] # Free
          PROVE  /\ handler'[g].ev = handler[g].ev
                 /\ \/ handler'[g].stage = handler[g].stage
                    \/ handler[g].stage = "done" /\ handler'[g].stage = "published"
      BY <1>1, <1>2 DEF new
    <2>2. QED
      BY <1>1, <2>1 DEF ServiceStays, Entries
  <1>12. RowsFirst'
    BY <1>11, RowsStay DEF BusInv
  <1>13. SilentPassBy' /\ GapsAreExplained'
    BY <1>6, GapsStay DEF BusInv
  <1>14. NoticeFirst'
    <2>1. SUFFICES ASSUME NEW c \in Clients, stream'[c].open /\ ~stream'[c].lagged,
                          NEW i \in ((stream[c].since + 1) .. Len(bus))',
                          /\ bus'[i].kind \in NoticeKinds
                          /\ bus'[i].user = stream'[c].user
                          /\ \/ InTrail(bus[i], "bus")'
                             \/ InHand(bus[i])' /\ consumer'.stage = "audit"
                   PROVE  \/ bus'[i] \in Entries(stream'[c].seen)
                          \/ \E j \in (stream[c].pos .. Len(notices))' : notices'[j] = bus'[i]
      BY DEF NoticeFirst, Entries
    <2>2. PICK ev : ev = bus'[i]
      OBVIOUS
    <2>3. InTrail(ev, "bus") \/ (InHand(ev) /\ consumer.stage = "audit")
      BY <1>1, <2>1, <2>2 DEF InTrail, InHand, Entries
    <2>4. Reached(ev)
      BY <2>3 DEF InTrail, Reached, BusRow, Rows
    <2>5. ev # new
      BY <1>8, <2>4
    <2>6. stream[c] \in Stream(Len(notices), n)
      BY <1>1, <2>1, NoticeTypes, StreamFacts
    <2>7. stream[c].since \in Nat
      <3>1. stream[c].since \in 0 .. n
        BY <1>4, <2>6, NoticeTypes, StreamFacts
      <3>2. QED
        BY <1>4, <3>1
    <2>8. i \in (stream[c].since + 1) .. n /\ bus[i] = ev
      BY <1>1, <1>4, <2>1, <2>2, <2>5, <2>7
    <2>9. QED
      BY <1>1, <2>1, <2>2, <2>3, <2>8 DEF BusInv, NoticeFirst, Entries
  <1>15. QED
    BY <1>9, <1>10, <1>12, <1>13, <1>14 DEF BusInv

LEMMA CommitStep ==
    ASSUME TypeOKN, TypeOKN', BusInv, NEW h \in Handlers, Commit(h)
    PROVE  BusInv'
  <1> DEFINE new == handler[h].ev
             row == ServiceRow(new)
  <1>1. /\ handler[h].stage = "published" /\ handler[h] # Free
        /\ UNCHANGED <<begun, bus, next, consumer, notices, stream, unrecorded, dropped>>
        /\ committed' = committed \cup {new}
        /\ handler' = [handler EXCEPT ![h] = Free]
    BY TaskFacts DEF Commit
  <1>2. /\ handler'[h] = Free
        /\ \A g \in Handlers \ {h} : handler'[g] = handler[g]
    BY <1>1 DEF TypeOKN
  <1>3. new \in Event /\ row \in AuditRow
    BY <1>1, NoticeTypes, TaskFacts DEF ServiceRow, AuditRow
  <1>4. /\ new.kind \in InlineKinds => Entries(trail)' = Entries(trail) \cup {row}
        /\ new.kind \notin InlineKinds => Entries(trail)' = Entries(trail)
    <2>1. CASE new.kind \in InlineKinds
      <3>1. trail' = Append(trail, row) /\ trail \in Seq(AuditRow)
        BY <2>1 DEF Commit, ServiceRow, TypeOKN
      <3>2. Entries(trail') = Entries(trail) \cup {row}
        BY <1>3, <3>1, QueueAppended
      <3>3. QED
        BY <2>1, <3>2 DEF Entries
    <2>2. CASE new.kind \notin InlineKinds
      BY <2>2 DEF Commit, Entries
    <2>3. QED
      BY <2>1, <2>2
  <1>5. ConsumerStays
    BY <1>1, <1>4, RowsDiffer DEF ConsumerStays, InHand
  <1>6. HandlersStay
    BY <1>2 DEF HandlersStay, Unsent
  <1>7. OnlyBegun' /\ EachEventOnce'
    BY <1>1, <1>5, <1>6, EventsStay, ReachedStays DEF BusInv
  <1>8. RowsFirst'
    <2>1. \A g \in Handlers :
            /\ handler'[g].stage = "auditing" => handler'[g].ev.kind \in PoolKinds
            /\ handler'[g].stage \in {"done", "published"} /\ handler'[g].ev.kind \in PoolKinds
                  => ServiceRow(handler'[g].ev) \in Rows'
      <3>1. SUFFICES ASSUME NEW g \in Handlers
            PROVE /\ handler'[g].stage = "auditing" => handler'[g].ev.kind \in PoolKinds
                  /\ handler'[g].stage \in {"done", "published"}
                     /\ handler'[g].ev.kind \in PoolKinds
                        => ServiceRow(handler'[g].ev) \in Rows'
        OBVIOUS
      <3>2. CASE g = h
        BY <1>2, <3>2, TaskFacts
      <3>3. CASE g # h
        BY <1>1, <1>2, <1>4, <3>3 DEF BusInv, RowsFirst, Rows
      <3>4. QED
        BY <3>2, <3>3
    <2>2. \A ev \in committed' :
            /\ ev.kind \in PoolKinds => ServiceRow(ev) \in Rows'
            /\ ev.kind \in InlineKinds => ServiceRow(ev) \in Entries(trail)'
      <3>1. SUFFICES ASSUME NEW ev \in committed'
                     PROVE  /\ ev.kind \in PoolKinds => ServiceRow(ev) \in Rows'
                            /\ ev.kind \in InlineKinds => ServiceRow(ev) \in Entries(trail)'
        OBVIOUS
      <3>2. CASE ev \in committed
        BY <1>1, <1>4, <3>1, <3>2 DEF BusInv, RowsFirst, Rows
      <3>3. CASE ev = new
        BY <1>1, <1>4, <3>1, <3>3 DEF BusInv, RowsFirst, Rows
      <3>4. QED
        BY <1>1, <3>1, <3>2, <3>3
    <2>3. \A ev \in Event :
            ev.kind \in InlineKinds /\ ServiceRow(ev) \in Entries(trail)' => ev \in committed'
      BY <1>1, <1>4, RowsDiffer DEF BusInv, RowsFirst
    <2>4. QED
      BY <2>1, <2>2, <2>3 DEF RowsFirst
  <1>9. SilentPassBy' /\ GapsAreExplained'
    BY <1>5, GapsStay DEF BusInv
  <1>10. NoticeFirst'
    BY <1>1, <1>5, NoticesStay DEF BusInv
  <1>11. QED
    BY <1>7, <1>8, <1>9, <1>10 DEF BusInv

\* A handler that ends without committing, a signal, a start, or nothing.
LEMMA QuietStepN ==
    ASSUME TypeOKN, TypeOKN', BusInv,
           \/ \E h \in Handlers : Rollback(h)
           \/ Signal \/ Boot \/ UNCHANGED announcementVars
    PROVE  BusInv'
  <1>1. UNCHANGED <<begun, bus, next, consumer, notices, stream, trail, committed,
                    unrecorded, dropped>>
    BY DEF Rollback, Signal, Boot, announcementVars, process
  <1>2. \A h \in Handlers : handler'[h] # Free => handler'[h] = handler[h]
    BY DEF Rollback, Signal, Boot, announcementVars, process, TypeOKN
  <1>3. /\ OnlyBegun' /\ EachEventOnce' /\ RowsFirst' /\ SilentPassBy'
        /\ GapsAreExplained' /\ ConsumerStays
    BY <1>1, <1>2, QuietKeeps
  <1>4. NoticeFirst'
    BY <1>1, <1>3, NoticesStay DEF BusInv
  <1>5. QED
    BY <1>3, <1>4 DEF BusInv

\* The process ends.
LEMMA HaltStep ==
    ASSUME TypeOKN, TypeOKN', BusInv, Halt
    PROVE  BusInv'
  <1>1. /\ \A h \in Handlers : handler'[h] = Free
        /\ Len(bus') = 0 /\ DOMAIN bus' = {} /\ next' = 1 /\ consumer' = Receiving
        /\ \A c \in Clients : stream'[c] = Closed
        /\ UNCHANGED <<begun, trail, committed, unrecorded, dropped>>
    BY DEF Halt
  <1>2. \A ev : Reached(ev)' => Reached(ev)
    BY <1>1 DEF Reached, InHand, Rows, Entries
  <1>3. OnlyBegun'
    BY <1>1, <1>2 DEF BusInv, OnlyBegun
  <1>4. EachEventOnce'
    BY <1>1, TaskFacts DEF EachEventOnce, Unsent
  <1>5. RowsFirst'
    <2>1. ServiceStays
      BY <1>1 DEF ServiceStays, Entries
    <2>2. QED
      BY <2>1, RowsStay DEF BusInv
  <1>6. SilentPassBy'
    BY <1>1 DEF BusInv, SilentPassBy, InHand, Rows, Entries
  <1>7. GapsAreExplained'
    BY <1>1 DEF GapsAreExplained
  <1>8. NoticeFirst'
    BY <1>1 DEF NoticeFirst, Closed
  <1>9. QED
    BY <1>3, <1>4, <1>5, <1>6, <1>7, <1>8 DEF BusInv

-----------------------------------------------------------------------------
(* The consumer                                                            *)

LEMMA ReceiveStep ==
    ASSUME TypeOKN, TypeOKN', BusInv, Receive
    PROVE  BusInv'
  <1> DEFINE new == bus[next]
  <1>1. /\ UNCHANGED <<begun, handler, bus, notices, stream, trail, committed,
                       unrecorded, dropped>>
        /\ consumer = Receiving /\ next' = next + 1
        /\ consumer' = IF new.kind \in SilentKinds THEN Receiving
                       ELSE [stage |-> FirstStage(new.kind), ev |-> new]
    BY DEF Receive
  <1>2. next \in 1 .. Len(bus) /\ Len(bus) \in Nat /\ new \in Event
    <2>1. Oldest(bus, BusCap) \in 1 .. (Len(bus) + 1)
      BY NoticeTypes, OldestBounds, CapacityAssumption
    <2>2. QED
      BY <2>1, NoticeTypes DEF Receive
  <1>3. \A ev : ~ InHand(ev)
    BY <1>1 DEF InHand
  <1>4. \A ev : InHand(ev)' <=> new.kind \notin SilentKinds /\ ev = new
    <2>1. CASE new.kind \in SilentKinds
      BY <1>1, <2>1 DEF InHand
    <2>2. CASE new.kind \notin SilentKinds
      <3>1. consumer' = [stage |-> FirstStage(new.kind), ev |-> new]
        BY <1>1, <2>2
      <3>2. consumer'.ev = new /\ consumer'.stage = FirstStage(new.kind)
        BY <3>1
      <3>3. FirstStage(new.kind) # "recv"
        BY DEF FirstStage
      <3>4. consumer' # Receiving
        BY <3>2, <3>3, TaskFacts
      <3>5. QED
        BY <2>2, <3>2, <3>4 DEF InHand
    <2>3. QED
      BY <2>1, <2>2
  <1>5. \A ev : Reached(ev)' <=> Reached(ev) \/ (new.kind \notin SilentKinds /\ ev = new)
    BY <1>1, <1>3, <1>4 DEF Reached, Rows, Entries
  <1>6. /\ ~ Reached(new) /\ new.id <= begun
        /\ \A i \in 1 .. Len(bus) : i # next => bus[i] # new
        /\ \A h \in Handlers : Unsent(h) => handler[h].ev # new
    <2>1. next \in next .. Len(bus) /\ next \in DOMAIN bus
      BY <1>2, NoticeTypes
    <2>2. new \in Entries(bus)
      BY <2>1 DEF Entries
    <2>3. QED
      BY <1>2, <2>1, <2>2, NoticeTypes DEF BusInv, EachEventOnce, OnlyBegun
  <1>7. \A i \in 1 .. Len(bus) : bus'[i] = bus[i]
    BY <1>1
  <1>8. OnlyBegun'
    BY <1>1, <1>5, <1>6 DEF BusInv, OnlyBegun
  <1>9. EachEventOnce'
    <2>1. (\A h \in Handlers : Unsent(h) =>
              handler[h].ev \notin Entries(bus) /\ ~ Reached(handler[h].ev))'
      <3>1. SUFFICES ASSUME NEW h \in Handlers, Unsent(h)'
                     PROVE  handler'[h].ev \notin Entries(bus)' /\ ~ Reached(handler[h].ev)'
        OBVIOUS
      <3>2. PICK ev : ev = handler[h].ev
        OBVIOUS
      <3>3. Unsent(h)
        BY <1>1, <3>1 DEF Unsent
      <3>4. ev \notin Entries(bus) /\ ~ Reached(ev) /\ ev # new
        BY <1>6, <3>2, <3>3 DEF BusInv, EachEventOnce
      <3>5. ~ Reached(ev)'
        BY <1>5, <3>4
      <3>6. QED
        BY <1>1, <3>2, <3>4, <3>5 DEF Entries, Reached, InHand
    <2>2. (\A i \in next .. Len(bus) : ~ Reached(bus[i]))'
      <3>1. SUFFICES ASSUME NEW i \in (next .. Len(bus))'
                     PROVE  ~ Reached(bus[i])'
        OBVIOUS
      <3>2. PICK ev : ev = bus[i]
        OBVIOUS
      <3>3. i \in next .. Len(bus) /\ i \in 1 .. Len(bus) /\ i # next
        BY <1>1, <1>2
      <3>4. ~ Reached(ev) /\ ev # new
        BY <1>6, <3>2, <3>3 DEF BusInv, EachEventOnce
      <3>5. ~ Reached(ev)'
        BY <1>5, <3>4
      <3>6. QED
        BY <1>1, <3>2, <3>5 DEF Reached, InHand
    <2>3. QED
      BY <1>1, <2>1, <2>2 DEF BusInv, EachEventOnce
  <1>10. RowsFirst'
    <2>1. ServiceStays
      BY <1>1 DEF ServiceStays, Entries
    <2>2. QED
      BY <2>1, RowsStay DEF BusInv
  <1>11. SilentPassBy'
    BY <1>1, <1>4 DEF BusInv, SilentPassBy, Rows, Entries
  <1>12. GapsAreExplained'
    <2>1. (\A i \in 1 .. (next - 1) : Explained(bus[i]))'
      <3>1. SUFFICES ASSUME NEW i \in (1 .. (next - 1))'
                     PROVE  Explained(bus[i])'
        OBVIOUS
      <3>2. PICK ev : ev = bus[i]
        OBVIOUS
      <3>3. Explained(ev)'
        <4>1. CASE i = next
          <5>1. ev = new /\ ~ Reached(ev)
            BY <1>6, <3>2, <4>1
          <5>2. /\ BusRow(ev) \notin Entries(trail) /\ BusRow(ev) \notin unrecorded
                /\ ev \notin dropped
            BY <5>1 DEF Reached, Rows
          <5>3. QED
            BY <1>1, <1>4, <5>1, <5>2 DEF Explained, Entries
        <4>2. CASE i # next
          <5>1. i \in 1 .. (next - 1) /\ i \in 1 .. Len(bus)
            BY <1>1, <1>2, <4>2
          <5>2. Explained(ev) /\ ev # new
            BY <1>6, <3>2, <4>2, <5>1, GapsOnce DEF BusInv
          <5>3. QED
            BY <1>1, <1>3, <1>4, <5>2 DEF Explained, Entries
        <4>3. QED
          BY <4>1, <4>2
      <3>4. QED
        BY <1>1, <3>2, <3>3 DEF Explained, InHand
    <2>2. QED
      BY <2>1, GapsOnce, PTL
  <1>13. NoticeFirst'
    <2>1. SUFFICES ASSUME NEW c \in Clients, stream[c].open /\ ~stream[c].lagged,
                          NEW i \in (stream[c].since + 1) .. Len(bus),
                          /\ bus[i].kind \in NoticeKinds
                          /\ bus[i].user = stream[c].user
                          /\ \/ InTrail(bus[i], "bus")
                             \/ InHand(bus[i])' /\ consumer'.stage = "audit"
                   PROVE  \/ bus[i] \in Entries(stream[c].seen)
                          \/ \E j \in stream[c].pos .. Len(notices) : notices[j] = bus[i]
      BY <1>1 DEF NoticeFirst, InTrail, Entries
    <2>2. ~ (InHand(bus[i])' /\ consumer'.stage = "audit")
      <3>1. SUFFICES ASSUME InHand(bus[i])', consumer'.stage = "audit"
                     PROVE  FALSE
        OBVIOUS
      <3>2. PICK ev : ev = bus[i]
        OBVIOUS
      <3>3. InHand(ev)'
        BY <1>1, <3>1, <3>2 DEF InHand
      <3>4. ev = new /\ new.kind \notin SilentKinds
        BY <1>4, <3>3
      <3>5. consumer'.stage = FirstStage(new.kind) /\ new.kind \in NoticeKinds
        BY <1>1, <2>1, <3>2, <3>4
      <3>6. QED
        BY <3>1, <3>5 DEF FirstStage
    <2>3. QED
      BY <2>1, <2>2 DEF BusInv, NoticeFirst
  <1>14. QED
    BY <1>8, <1>9, <1>10, <1>11, <1>12, <1>13 DEF BusInv

LEMMA LagStep ==
    ASSUME TypeOKN, TypeOKN', BusInv, Lag
    PROVE  BusInv'
  <1> DEFINE old == Oldest(bus, BusCap)
             lost == {bus[i] : i \in next .. (old - 1)}
  <1>1. /\ UNCHANGED <<begun, handler, bus, consumer, notices, stream, trail,
                       committed, unrecorded>>
        /\ consumer = Receiving /\ next' = old /\ next < old
        /\ dropped' = dropped \cup lost
    BY DEF Lag
  <1>2. /\ old \in 1 .. (Len(bus) + 1) /\ Len(bus) \in Nat /\ next \in 1 .. Len(bus)
        /\ old \in Nat
    BY <1>1, NoticeTypes, OldestBounds, CapacityAssumption
  <1> HIDE DEF old
  <1>3. \A i \in next .. (old - 1) : i \in 1 .. Len(bus) /\ i \in next .. Len(bus)
    BY <1>2
  <1>4. \A ev \in lost :
          /\ ev \in Event /\ ~ Reached(ev) /\ ev.id <= begun
          /\ ev \in Entries(bus)
    BY <1>3, NoticeTypes DEF BusInv, EachEventOnce, OnlyBegun, Entries
  <1>5. \A i \in 1 .. Len(bus) : bus[i] \in lost <=> i \in next .. (old - 1)
    BY <1>3, NoticeTypes DEF BusInv, EachEventOnce
  <1>6. \A ev : InHand(ev)' <=> InHand(ev)
    BY <1>1 DEF InHand
  <1> HIDE DEF lost
  <1>7. \A ev : Reached(ev)' <=> Reached(ev) \/ ev \in lost
    BY <1>1, <1>6 DEF Reached, Rows, Entries
  <1>8. OnlyBegun'
    BY <1>1, <1>4, <1>7 DEF BusInv, OnlyBegun
  <1>9. EachEventOnce'
    <2>1. (\A h \in Handlers : Unsent(h) =>
              handler[h].ev \notin Entries(bus) /\ ~ Reached(handler[h].ev))'
      <3>1. SUFFICES ASSUME NEW h \in Handlers, Unsent(h)'
                     PROVE  handler'[h].ev \notin Entries(bus)' /\ ~ Reached(handler[h].ev)'
        OBVIOUS
      <3>2. PICK ev : ev = handler[h].ev
        OBVIOUS
      <3>3. Unsent(h)
        BY <1>1, <3>1 DEF Unsent
      <3>4. ev \notin Entries(bus) /\ ~ Reached(ev) /\ ev \notin lost
        BY <1>4, <3>2, <3>3 DEF BusInv, EachEventOnce
      <3>5. ~ Reached(ev)'
        BY <1>7, <3>4
      <3>6. QED
        BY <1>1, <3>2, <3>4, <3>5 DEF Entries, Reached, InHand
    <2>2. (\A i \in next .. Len(bus) : ~ Reached(bus[i]))'
      <3>1. SUFFICES ASSUME NEW i \in (next .. Len(bus))'
                     PROVE  ~ Reached(bus[i])'
        OBVIOUS
      <3>2. PICK ev : ev = bus[i]
        OBVIOUS
      <3>3. i \in next .. Len(bus) /\ i \in 1 .. Len(bus) /\ i \notin next .. (old - 1)
        BY <1>1, <1>2
      <3>4. ~ Reached(ev) /\ ev \notin lost
        BY <1>5, <3>2, <3>3 DEF BusInv, EachEventOnce
      <3>5. ~ Reached(ev)'
        BY <1>7, <3>4
      <3>6. QED
        BY <1>1, <3>2, <3>5 DEF Reached, InHand
    <2>3. QED
      BY <1>1, <2>1, <2>2 DEF BusInv, EachEventOnce
  <1>10. RowsFirst'
    <2>1. ServiceStays
      BY <1>1 DEF ServiceStays, Entries
    <2>2. QED
      BY <2>1, RowsStay DEF BusInv
  <1>11. SilentPassBy'
    BY <1>1, <1>6 DEF BusInv, SilentPassBy, Rows, Entries
  <1>12. GapsAreExplained'
    <2>1. (\A i \in 1 .. (next - 1) : Explained(bus[i]))'
      <3>1. SUFFICES ASSUME NEW i \in (1 .. (next - 1))'
                     PROVE  Explained(bus[i])'
        OBVIOUS
      <3>2. PICK ev : ev = bus[i]
        OBVIOUS
      <3>3. i \in 1 .. Len(bus)
        BY <1>1, <1>2
      <3>4. Explained(ev)'
        <4>1. CASE i \in next .. (old - 1)
          <5>1. ev \in lost /\ ~ Reached(ev)
            BY <1>4, <1>5, <3>2, <3>3, <4>1
          <5>2. /\ BusRow(ev) \notin Entries(trail) /\ BusRow(ev) \notin unrecorded
                /\ ~ InHand(ev)
            BY <5>1 DEF Reached, Rows
          <5>3. QED
            BY <1>1, <1>6, <5>1, <5>2 DEF Explained, Entries
        <4>2. CASE i \notin next .. (old - 1)
          <5>1. i \in 1 .. (next - 1)
            BY <1>1, <1>2, <4>2
          <5>2. Explained(ev) /\ ev \notin lost
            BY <1>5, <3>2, <3>3, <4>2, <5>1, GapsOnce DEF BusInv
          <5>3. QED
            BY <1>1, <1>6, <5>2 DEF Explained, Entries
        <4>3. QED
          BY <4>1, <4>2
      <3>5. QED
        BY <1>1, <3>2, <3>4 DEF Explained, InHand
    <2>2. QED
      BY <2>1, GapsOnce, PTL
  <1>13. NoticeFirst'
    BY <1>1 DEF BusInv, NoticeFirst, InTrail, InHand, Entries
  <1>14. QED
    BY <1>8, <1>9, <1>10, <1>11, <1>12, <1>13 DEF BusInv

LEMMA ForwardStep ==
    ASSUME TypeOKN, TypeOKN', BusInv, LookUp \/ Notify
    PROVE  BusInv'
  <1>1. /\ UNCHANGED <<begun, handler, bus, next, stream, trail, committed,
                       unrecorded, dropped>>
        /\ consumer.stage \in {"lookup", "notify"}
        /\ \E stage \in {"notify", "audit"} : consumer' = [consumer EXCEPT !.stage = stage]
    BY DEF LookUp, Notify
  <1>2. consumer \in Hand /\ consumer.ev \in Event
    BY <1>1, NoticeTypes, TaskFacts
  <1>3. consumer' # Receiving /\ consumer # Receiving /\ consumer'.ev = consumer.ev
    <2>1. PICK stage \in {"notify", "audit"} : consumer' = [consumer EXCEPT !.stage = stage]
      BY <1>1
    <2>2. consumer'.stage = stage /\ consumer'.ev = consumer.ev
      BY <1>2, <2>1 DEF Hand
    <2>3. QED
      BY <1>2, <2>2, TaskFacts
  <1>4. ConsumerStays
    BY <1>1, <1>3 DEF ConsumerStays, InHand, Entries
  <1>5. HandlersStay
    BY <1>1 DEF HandlersStay, Unsent
  <1>6. ServiceStays
    BY <1>1 DEF ServiceStays, Entries
  <1>7. OnlyBegun' /\ EachEventOnce'
    BY <1>1, <1>4, <1>5, EventsStay, ReachedStays DEF BusInv
  <1>8. RowsFirst'
    BY <1>6, RowsStay DEF BusInv
  <1>9. SilentPassBy' /\ GapsAreExplained'
    BY <1>4, GapsStay DEF BusInv
  <1>10. NoticeFirst'
    <2>1. CASE LookUp
      <3>1. notices' = notices /\ consumer'.stage = "notify"
        BY <1>2, <2>1 DEF LookUp, Hand
      <3>2. QED
        BY <1>1, <1>4, <3>1, NoticesStay DEF BusInv
    <2>2. CASE Notify
      <3>1. consumer.stage = "notify" /\ notices' = Append(notices, consumer.ev)
        BY <2>2 DEF Notify
      <3>2. /\ Len(notices') = Len(notices) + 1 /\ Len(notices) \in Nat
            /\ \A j \in 1 .. Len(notices) : notices'[j] = notices[j]
            /\ notices'[Len(notices) + 1] = consumer.ev
        BY <1>2, <3>1, QueueAppended DEF TypeOKN
      <3>3. SUFFICES ASSUME NEW c \in Clients, stream[c].open /\ ~stream[c].lagged,
                            NEW i \in (stream[c].since + 1) .. Len(bus),
                            /\ bus[i].kind \in NoticeKinds
                            /\ bus[i].user = stream[c].user
                            /\ \/ InTrail(bus[i], "bus")
                               \/ bus[i] = consumer.ev
                     PROVE  \/ bus[i] \in Entries(stream[c].seen)
                            \/ \E j \in stream[c].pos .. Len(notices') : notices'[j] = bus[i]
        BY <1>1, <1>3 DEF NoticeFirst, InTrail, InHand, Entries
      <3>4. stream[c].pos \in 1 .. (Len(notices) + 1)
        BY <3>3, NoticeTypes, StreamFacts
      <3>5. CASE InTrail(bus[i], "bus")
        <4>1. \/ bus[i] \in Entries(stream[c].seen)
              \/ \E j \in stream[c].pos .. Len(notices) : notices[j] = bus[i]
          BY <3>3, <3>5 DEF BusInv, NoticeFirst
        <4>2. \A j \in stream[c].pos .. Len(notices) :
                 j \in 1 .. Len(notices) /\ j \in stream[c].pos .. Len(notices')
          BY <3>2, <3>4
        <4>3. QED
          BY <3>2, <4>1, <4>2
      <3>6. CASE bus[i] = consumer.ev
        <4>1. Len(notices) + 1 \in stream[c].pos .. Len(notices')
          BY <3>2, <3>4
        <4>2. QED
          BY <3>2, <3>6, <4>1
      <3>7. QED
        BY <3>3, <3>5, <3>6
    <2>3. QED
      BY <2>1, <2>2
  <1>11. QED
    BY <1>7, <1>8, <1>9, <1>10 DEF BusInv

LEMMA WriteRowStep ==
    ASSUME TypeOKN, TypeOKN', BusInv, WriteRow
    PROVE  BusInv'
  <1> DEFINE done == consumer.ev
             row == BusRow(done)
  <1>1. /\ UNCHANGED <<begun, handler, bus, next, notices, stream, committed, dropped>>
        /\ consumer.stage = "audit" /\ consumer' = Receiving
    BY DEF WriteRow
  <1>2. consumer \in Hand /\ done \in Event /\ consumer # Receiving
    BY <1>1, NoticeTypes, TaskFacts
  <1>3. \A ev : InHand(ev) <=> ev = done
    BY <1>2 DEF InHand
  <1>4. \A ev : ~ InHand(ev)'
    BY <1>1 DEF InHand
  <1>5. \/ Entries(trail)' = Entries(trail) \cup {row} /\ unrecorded' = unrecorded
        \/ unrecorded' = unrecorded \cup {row} /\ Entries(trail)' = Entries(trail)
    <2>1. row \in AuditRow
      BY <1>2 DEF BusRow, AuditRow
    <2>2. trail' = Append(trail, row) => Entries(trail') = Entries(trail) \cup {row}
      BY <2>1, QueueAppended DEF TypeOKN
    <2>3. QED
      BY <2>2 DEF WriteRow, BusRow, Entries
  <1>6. Rows' = Rows \cup {row}
    BY <1>5 DEF Rows
  <1> HIDE DEF done
  <1>7. \A ev : Reached(ev)' <=> Reached(ev)
    BY <1>1, <1>3, <1>4, <1>6, RowsDiffer DEF Reached
  <1>8. HandlersStay
    BY <1>1 DEF HandlersStay, Unsent
  <1>9. ServiceStays
    BY <1>1, <1>5, RowsDiffer DEF ServiceStays
  <1>10. OnlyBegun' /\ EachEventOnce'
    BY <1>1, <1>7, <1>8, EventsStay DEF BusInv
  <1>11. RowsFirst'
    BY <1>9, RowsStay DEF BusInv
  <1>12. SilentPassBy'
    <2>1. done.kind \notin SilentKinds
      BY <1>2, <1>3 DEF BusInv, SilentPassBy
    <2>2. QED
      BY <1>4, <1>6, <2>1, RowsDiffer DEF BusInv, SilentPassBy
  <1>13. GapsAreExplained'
    <2>1. ASSUME NEW ev, Explained(ev)
          PROVE  Explained(ev)'
      <3>1. CASE ev = done
        <4>1. InHand(ev)
          BY <1>3, <3>1
        <4>2. BusRow(ev) = row
          BY <3>1
        <4>3. QED
          BY <1>1, <1>4, <1>5, <2>1, <4>1, <4>2 DEF Explained
      <3>2. CASE ev # done
        <4>1. BusRow(ev) # row
          BY <3>2, RowsDiffer
        <4>2. QED
          BY <1>1, <1>3, <1>4, <1>5, <2>1, <3>2, <4>1 DEF Explained
      <3>3. QED
        BY <3>1, <3>2
    <2>2. QED
      BY <1>1, <2>1, GapsKept DEF BusInv
  <1>14. NoticeFirst'
    <2>1. SUFFICES ASSUME NEW c \in Clients, stream[c].open /\ ~stream[c].lagged,
                          NEW i \in (stream[c].since + 1) .. Len(bus),
                          /\ bus[i].kind \in NoticeKinds
                          /\ bus[i].user = stream[c].user
                          /\ BusRow(bus[i]) \in Entries(trail)'
                   PROVE  \/ bus[i] \in Entries(stream[c].seen)
                          \/ \E j \in stream[c].pos .. Len(notices) : notices[j] = bus[i]
      BY <1>1 DEF NoticeFirst, InTrail, InHand, BusRow
    <2>2. BusRow(bus[i]) \in Entries(trail) \/ bus[i] = done
      BY <1>5, <2>1, RowsDiffer
    <2>3. InTrail(bus[i], "bus") \/ (InHand(bus[i]) /\ consumer.stage = "audit")
      BY <1>1, <1>3, <2>2 DEF InTrail, BusRow
    <2>4. QED
      BY <2>1, <2>3 DEF BusInv, NoticeFirst
  <1>15. QED
    BY <1>10, <1>11, <1>12, <1>13, <1>14 DEF BusInv

-----------------------------------------------------------------------------
(* The clients                                                             *)

LEMMA ClientStep ==
    ASSUME TypeOKN, TypeOKN', BusInv, NEW c \in Clients,
           \/ \E u \in Audience : Connect(c, u)
           \/ Deliver(c) \/ SkipLagged(c) \/ Disconnect(c)
    PROVE  BusInv'
  <1>1. /\ UNCHANGED <<begun, handler, bus, next, consumer, notices, trail, committed,
                       unrecorded, dropped>>
        /\ \A d \in Clients \ {c} : stream'[d] = stream[d]
    BY DEF Connect, Deliver, SkipLagged, Disconnect, TypeOKN
  <1>2. /\ OnlyBegun' /\ EachEventOnce' /\ RowsFirst' /\ SilentPassBy'
        /\ GapsAreExplained' /\ ConsumerStays
    BY <1>1, QuietKeeps
  <1>3. ASSUME stream'[c].open /\ ~stream'[c].lagged => Offered(c)'
        PROVE  NoticeFirst'
    <2>1. SUFFICES ASSUME NEW d \in Clients, stream'[d].open /\ ~stream'[d].lagged
                   PROVE  Offered(d)'
      BY DEF NoticeFirst, Offered
    <2>2. CASE d = c
      BY <1>3, <2>1, <2>2
    <2>3. CASE d # c
      <3>1. stream'[d] = stream[d] /\ Offered(d)
        BY <1>1, <2>1, <2>3 DEF BusInv, NoticeFirst, Offered
      <3>2. QED
        BY <1>1, <3>1 DEF Offered, InTrail, InHand, Entries
    <2>4. QED
      BY <2>2, <2>3
  <1>4. ASSUME NEW u \in Audience, Connect(c, u)
        PROVE  NoticeFirst'
    <2>1. stream'[c].since = Len(bus)
      BY <1>4 DEF Connect, TypeOKN
    <2>2. Len(bus) \in Nat /\ Len(bus') = Len(bus)
      BY <1>1, NoticeTypes
    <2>3. Offered(c)'
      BY <2>1, <2>2 DEF Offered
    <2>4. QED
      BY <1>3, <2>3
  <1>5. ASSUME Deliver(c)
        PROVE  NoticeFirst'
    <2> DEFINE notice == notices[stream[c].pos]
               seen == IF Concerns(notice, stream[c].user)
                         THEN Append(stream[c].seen, notice) ELSE stream[c].seen
    <2>1. /\ stream[c] \in Stream(Len(notices), Len(bus))
          /\ stream[c].pos \in 1 .. Len(notices)
          /\ Len(notices) \in Nat /\ Len(bus) \in Nat
      <3>1. /\ stream[c] # Closed /\ Len(notices) \in Nat
            /\ Oldest(notices, StreamCap) \in 1 .. (Len(notices) + 1)
        BY <1>5, NoticeTypes, StreamFacts, OldestBounds, CapacityAssumption DEF Deliver
      <3>2. stream[c].pos \in Oldest(notices, StreamCap) .. Len(notices)
        BY <1>5 DEF Deliver
      <3>3. QED
        BY <3>1, <3>2, NoticeTypes
    <2>2. notice \in Event /\ stream[c].seen \in Seq(Event)
      <3>1. notice \in Event
        BY <2>1 DEF TypeOKN
      <3>2. QED
        BY <2>1, <3>1, StreamFacts
    <2>3. stream'[c] = [stream[c] EXCEPT !.pos = stream[c].pos + 1, !.seen = seen]
      BY <1>5 DEF Deliver, TypeOKN
    <2>4. /\ Entries(stream[c].seen) \subseteq Entries(seen)
          /\ notice.user = stream[c].user => notice \in Entries(seen)
      BY <2>2, QueueAppended DEF Concerns
    <2> HIDE DEF seen
    <2>5. /\ stream'[c].open = stream[c].open /\ stream'[c].lagged = stream[c].lagged
          /\ stream'[c].user = stream[c].user /\ stream'[c].since = stream[c].since
          /\ stream'[c].pos = stream[c].pos + 1 /\ stream'[c].seen = seen
      BY <2>1, <2>3 DEF Stream
    <2>6. ASSUME stream'[c].open /\ ~stream'[c].lagged
          PROVE  Offered(c)'
      <3>1. SUFFICES ASSUME NEW i \in (stream[c].since + 1) .. Len(bus),
                            /\ bus[i].kind \in NoticeKinds
                            /\ bus[i].user = stream[c].user
                            /\ \/ InTrail(bus[i], "bus")
                               \/ InHand(bus[i]) /\ consumer.stage = "audit"
                     PROVE  \/ bus[i] \in Entries(seen)
                            \/ \E j \in (stream[c].pos + 1) .. Len(notices) :
                                  notices[j] = bus[i]
        BY <1>1, <2>5 DEF Offered, InTrail, InHand, Entries
      <3>2. \/ bus[i] \in Entries(stream[c].seen)
            \/ \E j \in stream[c].pos .. Len(notices) : notices[j] = bus[i]
        BY <2>5, <2>6, <3>1 DEF BusInv, NoticeFirst
      <3>3. CASE bus[i] \in Entries(stream[c].seen)
        BY <2>4, <3>3
      <3>4. ASSUME NEW j \in stream[c].pos .. Len(notices), notices[j] = bus[i]
            PROVE  \/ bus[i] \in Entries(seen)
                   \/ \E k \in (stream[c].pos + 1) .. Len(notices) : notices[k] = bus[i]
        <4>1. CASE j = stream[c].pos
          BY <2>4, <3>1, <3>4, <4>1
        <4>2. CASE j # stream[c].pos
          <5>1. j \in (stream[c].pos + 1) .. Len(notices)
            BY <2>1, <4>2
          <5>2. QED
            BY <3>4, <5>1
        <4>3. QED
          BY <4>1, <4>2
      <3>5. QED
        BY <3>2, <3>3, <3>4
    <2>7. QED
      BY <1>3, <2>6
  <1>6. ASSUME SkipLagged(c)
        PROVE  NoticeFirst'
    <2>1. stream[c] \in Stream(Len(notices), Len(bus))
      BY <1>6, NoticeTypes, StreamFacts DEF SkipLagged
    <2>2. stream'[c].lagged = TRUE
      <3>1. stream'[c] = [stream[c] EXCEPT !.pos = Oldest(notices, StreamCap),
                                           !.lagged = TRUE]
        BY <1>6 DEF SkipLagged, TypeOKN
      <3>2. QED
        BY <2>1, <3>1 DEF Stream
    <2>3. QED
      BY <1>3, <2>2
  <1>7. ASSUME Disconnect(c)
        PROVE  NoticeFirst'
    <2>1. stream'[c] = Closed
      BY <1>7 DEF Disconnect, TypeOKN
    <2>2. QED
      BY <1>3, <2>1 DEF Closed
  <1>8. NoticeFirst'
    BY <1>4, <1>5, <1>6, <1>7
  <1>9. QED
    BY <1>2, <1>8 DEF BusInv

-----------------------------------------------------------------------------
(* The invariant of the announcements                                      *)

LEMMA InitBusInv == InitN => BusInv
  <1> SUFFICES ASSUME InitN PROVE BusInv
    OBVIOUS
  <1>1. /\ \A h \in Handlers : handler[h] = Free
        /\ Len(bus) = 0 /\ DOMAIN bus = {} /\ next = 1 /\ consumer = Receiving
        /\ \A c \in Clients : stream[c] = Closed
        /\ Entries(trail) = {} /\ unrecorded = {} /\ dropped = {} /\ committed = {}
    BY DEF InitN, Entries
  <1>2. \A ev : ~ Reached(ev) /\ ~ InHand(ev)
    BY <1>1 DEF Reached, InHand, Rows
  <1>3. OnlyBegun
    BY <1>1, <1>2 DEF OnlyBegun
  <1>4. EachEventOnce
    BY <1>1, TaskFacts DEF EachEventOnce, Unsent
  <1>5. RowsFirst
    BY <1>1, TaskFacts DEF RowsFirst
  <1>6. SilentPassBy
    BY <1>1, <1>2 DEF SilentPassBy, Rows
  <1>7. GapsAreExplained
    BY <1>1 DEF GapsAreExplained
  <1>8. NoticeFirst
    BY <1>1 DEF NoticeFirst, Closed
  <1>9. QED
    BY <1>3, <1>4, <1>5, <1>6, <1>7, <1>8 DEF BusInv

LEMMA NextBusInv == TypeOKN /\ BusInv /\ [NextN]_announcementVars => BusInv'
  <1> SUFFICES ASSUME TypeOKN, BusInv, [NextN]_announcementVars PROVE BusInv'
    OBVIOUS
  <1>1. TypeOKN'
    BY NextTypesN
  <1>2. ASSUME NEW h \in Handlers, NEW kind \in Kinds, NEW u \in Audience, Begin(h, kind, u)
        PROVE  BusInv'
    BY <1>1, <1>2, BeginStep
  <1>3. ASSUME NEW h \in Handlers, Work(h) \/ Rollback(h)
        PROVE  BusInv'
    BY <1>1, <1>3, AuditStep, PublishStep, CommitStep, QuietStepN DEF Work
  <1>4. CASE Consume
    BY <1>1, <1>4, ReceiveStep, LagStep, ForwardStep, WriteRowStep DEF Consume
  <1>5. ASSUME NEW c \in Clients,
               \/ \E u \in Audience : Connect(c, u)
               \/ Deliver(c) \/ SkipLagged(c) \/ Disconnect(c)
        PROVE  BusInv'
    BY <1>1, <1>5, ClientStep
  <1>6. CASE Stop \/ Kill
    BY <1>1, <1>6, HaltStep DEF Stop, Kill
  <1>7. CASE Signal \/ Boot \/ UNCHANGED announcementVars
    BY <1>1, <1>7, QuietStepN
  <1>8. QED
    BY <1>2, <1>3, <1>4, <1>5, <1>6, <1>7 DEF NextN

LEMMA AnnouncementsInvariance == SpecN => []AnnouncementsInv
  <1>1. InitN => TypeOKN /\ BusInv
    BY InitTypesN, InitBusInv
  <1>2. TypeOKN /\ BusInv /\ [NextN]_announcementVars => TypeOKN' /\ BusInv'
    BY NextTypesN, NextBusInv
  <1>3. TypeOKN /\ BusInv => AnnouncementsInv
    BY DEF AnnouncementsInv, BusInv
  <1>4. QED
    BY <1>1, <1>2, <1>3, PTL DEF SpecN

\* audit::write, RlsTransaction::commit: no crash, no lag and no saturated pool loses the
\* row of committed work, but for one whose write failed and was logged; an inlined row
\* is there exactly when its work is committed.
THEOREM TrailAlwaysCovers == SpecN => []TrailCoversCommits
  <1>1. AnnouncementsInv => TrailCoversCommits
    <2> SUFFICES ASSUME AnnouncementsInv,
                        NEW ev \in Entries(bus) \cup committed
                 PROVE  /\ ev \in committed /\ ev.kind \in PoolKinds
                              => ServiceRow(ev) \in Entries(trail) \cup unrecorded
                        /\ ev.kind \in InlineKinds
                              => (ServiceRow(ev) \in Entries(trail) <=> ev \in committed)
      BY DEF AnnouncementsInv, TrailCoversCommits, ServiceRow
    <2>1. ev \in Event
      BY NoticeTypes DEF AnnouncementsInv, TypeOKN, Entries
    <2>2. QED
      BY <2>1 DEF AnnouncementsInv, RowsFirst, Rows
  <1>2. QED
    BY <1>1, AnnouncementsInvariance, PTL

\* The loop in run: every event the consumer has passed has its row, or the failure of
\* its write was logged, or a Lagged warning counted it, or it is in hand or silent, and
\* only one of these.
THEOREM GapsAlwaysExplained == SpecN => []GapsAreExplained
  <1>1. AnnouncementsInv => GapsAreExplained
    BY DEF AnnouncementsInv
  <1>2. QED
    BY <1>1, AnnouncementsInvariance, PTL

\* handle, stream: a client that has not lagged was offered every notice of its user
\* whose event is on the trail.
THEOREM AuditedAlwaysOffered == SpecN => []AuditedWasOffered
  <1>1. AnnouncementsInv => AuditedWasOffered
    BY DEF AnnouncementsInv, NoticeFirst, AuditedWasOffered
  <1>2. QED
    BY <1>1, AnnouncementsInvariance, PTL
==============================================================================
