------------------------- MODULE Verification_proofs -------------------------
(***************************************************************************)
(* The verification pipeline for any users, businesses, boxes, credentials *)
(* and request handlers.  First presence verification with the collection  *)
(* of orders: no event is lost, no day is missed, no box pays out twice.   *)
(* Then credentials and background checks: what races of handlers and      *)
(* webhooks cannot put into the tables.                                    *)
(***************************************************************************)
EXTENDS Collection, Screening, FiniteSetTheorems, TLAPS

-----------------------------------------------------------------------------
(* Presence and collection: handlers and what they hold                    *)

LEMMA IdleFacts == Idle \in PresenceRequest /\ Idle \in CollectionRequest /\ Idle.op = "idle"
  BY DEF PresenceRequest, CollectionRequest, Idle

\* What a request of each kind holds.
LEMMA RequestFields ==
    ASSUME TypeOKC, NEW s \in Sessions
    PROVE  /\ req[s] \in CollectionRequest
           /\ req[s].op \in {"tap", "event"} =>
                 req[s].user \in Users /\ req[s].business \in Businesses
           /\ req[s].op = "tap" => req[s].box \in Boxes
           /\ req[s].op = "event" => req[s] \in Recorded
           /\ req[s].op \in {"collect", "collected"} =>
                 req[s].user \in Users /\ req[s].box \in Boxes
           /\ req[s].op \in {"collected", "cancel"} => req[s].order \in OrderIds
  BY DEF TypeOKC, CollectionRequest, PresenceRequest, Recorded, Idle

LEMMA InvTypes == CollectionInv => TypeOKC
  BY DEF CollectionInv, HandedOver

\* The events of a user are some of the events, so they can be counted.
LEMMA EventsFinite ==
    ASSUME TablesFinite, NEW S, S \subseteq DOMAIN events
    PROVE  IsFiniteSet(S) /\ Cardinality(S) \in Nat
  BY FS_Subset, FS_CardinalityType DEF TablesFinite

LEMMA SessionsFinite ==
    ASSUME NEW S, S \subseteq Sessions
    PROVE  /\ IsFiniteSet(S) /\ Cardinality(S) \in Nat
           /\ Cardinality(S) <= Cardinality(Sessions) /\ Cardinality(Sessions) \in Nat
  BY VerificationAssumption, FS_Subset, FS_CardinalityType

\* An event is counted as no day exactly when one of its day is there.
LEMMA AddsFacts ==
    ASSUME TablesFinite, NEW u \in Users, NEW b, NEW d
    PROVE  /\ Adds(u, b, d) \in {0, 1}
           /\ Adds(u, b, d) = 0 => <<b, d>> \in Pairs(u)
  <1>1. OnDate(u, b, d) \subseteq DOMAIN events
    BY DEF OnDate, EventsOf
  <1>2. IsFiniteSet(OnDate(u, b, d)) /\ Cardinality(OnDate(u, b, d)) \in Nat
    BY <1>1, EventsFinite
  <1>3. ASSUME Adds(u, b, d) = 0 PROVE <<b, d>> \in Pairs(u)
    <2>1. OnDate(u, b, d) # {}
      BY <1>2, <1>3, FS_EmptySet DEF Adds
    <2>2. PICK e \in OnDate(u, b, d) : TRUE
      BY <2>1
    <2>3. QED
      BY <2>2 DEF OnDate, Pairs
  <1>4. QED
    BY <1>2, <1>3 DEF Adds

-----------------------------------------------------------------------------
(* Steps of a handler that write no row                                    *)

\* The handler goes on with request r: what it has read holds, a lock it takes is
\* free, and a tap it decides on is of an untapped box.
GoesOn(s, r) ==
    /\ r \in CollectionRequest
    /\ r.op \in {"tap", "collect", "collected"} => r.box \in DOMAIN boxes
    /\ r.op = "event" => r.box \in DOMAIN boxes \cup {NoBox}
    /\ r.op \in {"collected", "cancel"} => r.order \in DOMAIN orders
    /\ r.op = "event" /\ r.adds = 0 => <<r.business, r.day>> \in Pairs(r.user)
    /\ r.op \in {"event", "collected"} /\ r.box # NoBox => Holders(r.box) = {}
    /\ r.op = "collected" => boxes[r.box].tapper = NoUser
    /\ r.op \in {"tap", "event"} /\ r.box # NoBox =>
          boxes[r.box].tapper = NoUser \/ (req[s].op = "tap" /\ req[s].box = r.box)
    /\ req' = [req EXCEPT ![s] = r]
    /\ UNCHANGED <<presence, boxes, orders, queue>>

LEMMA GoesOnStep ==
    ASSUME CollectionInv, NEW s \in Sessions, NEW r, GoesOn(s, r)
    PROVE  CollectionInv'
  <1>1. /\ UNCHANGED <<today, status, events, threshold, boxes, orders, queue>>
        /\ req' = [req EXCEPT ![s] = r] /\ r \in CollectionRequest
        /\ req \in [Sessions -> CollectionRequest]
    BY InvTypes DEF GoesOn, presence, TypeOKC
  <1>2. HandedOver'
    BY <1>1, InvTypes DEF TypeOKC, RowsOK, HandedOver, CollectionInv
  <1>3. OneOrderPerBox' /\ UsedIsTapped'
    BY <1>1 DEF OneOrderPerBox, UsedIsTapped, CollectionInv
  <1>4. /\ \A u : EventsOf(u)' = EventsOf(u) /\ Pairs(u)' = Pairs(u)
        /\ TablesFinite' /\ EventsCounted' /\ DaysCovered'
    <2>1. \A u : EventsOf(u)' = EventsOf(u) /\ Pairs(u)' = Pairs(u)
      BY <1>1 DEF EventsOf, Pairs
    <2>2. QED
      BY <1>1, <2>1 DEF TablesFinite, EventsCounted, DaysCovered, CollectionInv
  <1>5. ReadsExist'
    BY <1>1 DEF GoesOn, ReadsExist, CollectionInv
  <1>6. SeenDays'
    BY <1>1, <1>4 DEF GoesOn, SeenDays, CollectionInv
  <1>7. RowsLocked'
    <2>1. ASSUME NEW x \in Boxes, NEW t \in Holders(x)', NEW v \in Holders(x)' PROVE t = v
      <3>1. x # NoBox
        BY SentinelAssumption
      <3>2. CASE r.op \in {"event", "collected"} /\ r.box = x
        BY <1>1, <2>1, <3>1, <3>2 DEF Holders, GoesOn
      <3>3. CASE ~(r.op \in {"event", "collected"} /\ r.box = x)
        BY <1>1, <2>1, <3>3 DEF Holders, RowsLocked, CollectionInv
      <3>4. QED
        BY <3>2, <3>3
    <2>2. ASSUME NEW t \in Sessions, req'[t].op = "collected"
          PROVE  boxes'[req'[t].box].tapper = NoUser
      BY <1>1, <2>2 DEF GoesOn, RowsLocked, CollectionInv
    <2>3. QED
      BY <2>1, <2>2 DEF RowsLocked
  <1>8. TapsOverlap'
    <2>1. SUFFICES ASSUME NEW x \in DOMAIN boxes,
                          {e \in DOMAIN events : events[e].box = x} # {}
                   PROVE  Cardinality({e \in DOMAIN events : events[e].box = x})
                            + Cardinality({t \in Sessions : req'[t].op \in {"tap", "event"}
                                                            /\ req'[t].box = x})
                              <= Cardinality(Sessions)
      BY <1>1 DEF TapsOverlap
    <2> DEFINE held == {t \in Sessions : req[t].op \in {"tap", "event"} /\ req[t].box = x}
               heldN == {t \in Sessions : req'[t].op \in {"tap", "event"} /\ req'[t].box = x}
               used == {e \in DOMAIN events : events[e].box = x}
    <2>2. x # NoBox /\ boxes[x].tapper # NoUser
      BY <2>1, SentinelAssumption, InvTypes DEF UsedIsTapped, CollectionInv, TypeOKC, RowsOK
    <2>3. heldN \subseteq held
      BY <1>1, <2>2 DEF GoesOn
    <2>4. Cardinality(used) + Cardinality(held) <= Cardinality(Sessions)
      BY <2>1 DEF TapsOverlap, CollectionInv
    <2>5. Cardinality(used) \in Nat /\ Cardinality(held) \in Nat /\ Cardinality(heldN) \in Nat
          /\ Cardinality(Sessions) \in Nat /\ Cardinality(heldN) <= Cardinality(held)
      <3>1. IsFiniteSet(held) /\ Cardinality(held) \in Nat /\ Cardinality(heldN) \in Nat
            /\ Cardinality(Sessions) \in Nat
        BY SessionsFinite, held \subseteq Sessions, heldN \subseteq Sessions
      <3>2. Cardinality(used) \in Nat
        BY EventsFinite, used \subseteq DOMAIN events DEF CollectionInv
      <3>3. Cardinality(heldN) <= Cardinality(held)
        BY <2>3, <3>1, FS_Subset
      <3>4. QED
        BY <3>1, <3>2, <3>3
    <2>6. QED
      BY <2>4, <2>5
  <1>9. QED
    BY <1>2, <1>3, <1>4, <1>5, <1>6, <1>7, <1>8 DEF CollectionInv

LEMMA DwellRecordStep ==
    ASSUME CollectionInv, NEW s \in Sessions, NEW u \in Users, NEW b \in Businesses,
           NEW d \in Days, DwellRecord(s, u, b, d), UNCHANGED <<orders, queue>>
    PROVE  CollectionInv'
  <1> DEFINE r == [op |-> "event", user |-> u, business |-> b, day |-> d,
                   box |-> NoBox, adds |-> Adds(u, b, d)]
  <1>1. Adds(u, b, d) \in {0, 1} /\ (Adds(u, b, d) = 0 => <<b, d>> \in Pairs(u))
    BY AddsFacts DEF CollectionInv
  <1>2. r \in CollectionRequest
    BY <1>1 DEF CollectionRequest, PresenceRequest, Recorded
  <1>3. GoesOn(s, r)
    <2>1. req' = [req EXCEPT ![s] = r] /\ UNCHANGED <<presence, boxes, orders, queue>>
      BY DEF DwellRecord, Start
    <2>2. QED
      BY <1>1, <1>2, <2>1 DEF GoesOn
  <1>4. QED
    BY <1>3, GoesOnStep

LEMMA TapReadStep ==
    ASSUME CollectionInv, NEW s \in Sessions, NEW u \in Users, NEW b \in Businesses,
           NEW x \in Boxes, TapRead(s, u, b, x), UNCHANGED <<orders, queue>>
    PROVE  CollectionInv'
  <1> DEFINE r == [op |-> "tap", user |-> u, business |-> b, box |-> x]
  <1>1. r \in CollectionRequest
    BY DEF CollectionRequest, PresenceRequest
  <1>2. GoesOn(s, r)
    BY <1>1 DEF TapRead, Start, Untapped, GoesOn
  <1>3. QED
    BY <1>2, GoesOnStep

LEMMA TapRecordStep ==
    ASSUME CollectionInv, NEW s \in Sessions, TapRecord(s), UNCHANGED <<orders, queue>>
    PROVE  CollectionInv'
  <1> DEFINE u == req[s].user
             b == req[s].business
             r == [op |-> "event", user |-> u, business |-> b, day |-> today,
                   box |-> req[s].box, adds |-> Adds(u, b, today)]
  <1>1. /\ req[s].op = "tap" /\ u \in Users /\ b \in Businesses /\ req[s].box \in Boxes
        /\ req[s].box \in DOMAIN boxes /\ today \in Days /\ Holders(req[s].box) = {}
    BY RequestFields, InvTypes DEF TapRecord, ReadsExist, TypeOKC, RowsOK, CollectionInv
  <1>2. Adds(u, b, today) \in {0, 1} /\ (Adds(u, b, today) = 0 => <<b, today>> \in Pairs(u))
    BY <1>1, AddsFacts DEF CollectionInv
  <1>3. r \in CollectionRequest
    BY <1>1, <1>2 DEF CollectionRequest, PresenceRequest, Recorded
  <1>4. req' = [req EXCEPT ![s] = r] /\ UNCHANGED <<presence, boxes, orders, queue>>
    BY DEF TapRecord
  <1>5. GoesOn(s, r)
    BY <1>1, <1>2, <1>3, <1>4 DEF GoesOn
  <1>6. QED
    BY <1>5, GoesOnStep

LEMMA CollectReadStep ==
    ASSUME CollectionInv, NEW s \in Sessions, NEW u \in Users, NEW x \in Boxes,
           CollectRead(s, u, x)
    PROVE  CollectionInv'
  <1> DEFINE r == [op |-> "collect", user |-> u, box |-> x]
  <1>1. r \in CollectionRequest
    BY DEF CollectionRequest
  <1>2. GoesOn(s, r)
    BY <1>1 DEF CollectRead, Start, GoesOn
  <1>3. QED
    BY <1>2, GoesOnStep

LEMMA CollectTapStep ==
    ASSUME CollectionInv, NEW s \in Sessions, CollectTap(s)
    PROVE  CollectionInv'
  <1>1. PICK o \in DOMAIN orders :
            req' = [req EXCEPT ![s] = [op |-> "collected", box |-> req[s].box,
                                       user |-> req[s].user, order |-> o]]
    BY DEF CollectTap
  <1> DEFINE r == [op |-> "collected", box |-> req[s].box, user |-> req[s].user, order |-> o]
  <1>2. /\ req[s].op = "collect" /\ req[s].user \in Users /\ req[s].box \in Boxes
        /\ req[s].box \in DOMAIN boxes /\ o \in OrderIds
    BY RequestFields, InvTypes DEF CollectTap, ReadsExist, TypeOKC, CollectionInv
  <1>3. r \in CollectionRequest
    BY <1>2 DEF CollectionRequest
  <1>4. GoesOn(s, r)
    BY <1>1, <1>2, <1>3 DEF CollectTap, TapBox, GoesOn
  <1>5. QED
    BY <1>4, GoesOnStep

LEMMA CancelReadStep ==
    ASSUME CollectionInv, NEW s \in Sessions, NEW o \in OrderIds, CancelRead(s, o)
    PROVE  CollectionInv'
  <1> DEFINE r == [op |-> "cancel", order |-> o]
  <1>1. r \in CollectionRequest
    BY DEF CollectionRequest
  <1>2. GoesOn(s, r)
    BY <1>1 DEF CancelRead, Start, GoesOn
  <1>3. QED
    BY <1>2, GoesOnStep

LEMMA DropStep ==
    ASSUME CollectionInv, NEW s \in Sessions, Drop(s), UNCHANGED <<orders, queue>>
    PROVE  CollectionInv'
  <1>1. GoesOn(s, Idle)
    BY IdleFacts DEF Drop, End, GoesOn
  <1>2. QED
    BY <1>1, GoesOnStep

-----------------------------------------------------------------------------
(* The commit of an event                                                  *)

LEMMA AdvancedFields ==
    ASSUME NEW t \in Threshold, NEW adds \in {0, 1}
    PROVE  /\ Advanced(t, adds) \in Threshold
           /\ Advanced(t, adds).events = t.events + 1
           /\ Advanced(t, adds).days = t.days + adds
  <1> DEFINE met == IF t.met = "no" /\ t.events + 1 >= RequiredEvents
                                    /\ t.days + adds >= RequiredDays
                    THEN "yes" ELSE t.met
             counted == [t EXCEPT !.events = @ + 1]
             moved == [counted EXCEPT !.days = @ + adds]
  <1>0. /\ counted \in Threshold /\ counted.events = t.events + 1
        /\ counted.days = t.days /\ counted.met = t.met
    BY DEF Threshold
  <1>1. /\ moved \in Threshold /\ moved.events = t.events + 1
        /\ moved.days = t.days + adds /\ moved.met = t.met
    <2> HIDE DEF counted
    <2>1. QED
      BY <1>0 DEF Threshold
  <1>2. met \in {"no", "yes"}
    BY DEF Threshold
  <1>3. Advanced(t, adds) = [moved EXCEPT !.met = met]
    BY <1>1 DEF Advanced, Threshold
  <1>4. QED
    BY <1>1, <1>2, <1>3 DEF Threshold

\* What a commit does to the events and to its handler.
LEMMA CommitRows ==
    ASSUME CollectionInv, NEW s \in Sessions, NEW e \in EventIds, Commit(s, e)
    PROVE  /\ req[s] \in Recorded /\ req' = [req EXCEPT ![s] = Idle]
           /\ e \notin DOMAIN events /\ DOMAIN events' = DOMAIN events \cup {e}
           /\ events'[e].user = req[s].user /\ events'[e].business = req[s].business
           /\ events'[e].day = req[s].day /\ events'[e].box = req[s].box
           /\ \A i \in DOMAIN events : events'[i] = events[i]
  <1> DEFINE r == req[s]
  <1>1. r \in Recorded /\ req' = [req EXCEPT ![s] = Idle] /\ e \notin DOMAIN events
    BY RequestFields, InvTypes DEF Commit, End
  <1>2. events' = [i \in DOMAIN events \cup {e} |->
                     IF i = e THEN [user |-> r.user, business |-> r.business,
                                    day |-> r.day, box |-> r.box]
                     ELSE events[i]]
    BY DEF Commit
  <1>3. QED
    BY <1>1, <1>2

\* The events keep their type.
LEMMA CommitEventType ==
    ASSUME CollectionInv, NEW s \in Sessions, NEW e \in EventIds, Commit(s, e)
    PROVE  events' \in [DOMAIN events' -> Event]
  <1> DEFINE r == req[s]
             new == [user |-> r.user, business |-> r.business, day |-> r.day, box |-> r.box]
  <1>1. r \in Recorded /\ events \in [DOMAIN events -> Event]
    BY CommitRows, InvTypes DEF TypeOKC, RowsOK
  <1>2. new \in Event
    BY <1>1 DEF Recorded, Event
  <1>3. events' = [i \in DOMAIN events \cup {e} |-> IF i = e THEN new ELSE events[i]]
    BY DEF Commit
  <1>4. QED
    <2> HIDE DEF new
    <2>1. QED
      BY <1>1, <1>2, <1>3

\* What a commit does to the boxes.
LEMMA CommitBoxes ==
    ASSUME CollectionInv, NEW s \in Sessions, NEW e \in EventIds, Commit(s, e)
    PROVE  /\ req[s].box \in DOMAIN boxes \cup {NoBox}
           /\ DOMAIN boxes' = DOMAIN boxes /\ boxes' \in [DOMAIN boxes -> Box]
           /\ \A x \in DOMAIN boxes : boxes'[x].tapper =
                 IF x = req[s].box THEN req[s].user ELSE boxes[x].tapper
  <1> DEFINE r == req[s]
  <1>1. r \in Recorded /\ r.box \in DOMAIN boxes \cup {NoBox}
    BY CommitRows DEF Commit, ReadsExist, CollectionInv
  <1>2. boxes' = IF r.box = NoBox THEN boxes ELSE [boxes EXCEPT ![r.box].tapper = r.user]
    BY DEF Commit
  <1>3. boxes \in [DOMAIN boxes -> Box] /\ NoBox \notin DOMAIN boxes /\ r.user \in Users
    BY <1>1, InvTypes, SentinelAssumption DEF TypeOKC, RowsOK, Recorded
  <1>4. QED
    BY <1>1, <1>2, <1>3 DEF Box

\* What it does to the user's threshold row.
LEMMA CommitThreshold ==
    ASSUME CollectionInv, NEW s \in Sessions, NEW e \in EventIds, Commit(s, e)
    PROVE  LET u == req[s].user IN
           /\ DOMAIN threshold' = DOMAIN threshold \cup {u}
           /\ threshold' \in [DOMAIN threshold' -> Threshold]
           /\ threshold'[u].events = (IF u \in DOMAIN threshold THEN threshold[u].events
                                       ELSE 0) + 1
           /\ threshold'[u].days = (IF u \in DOMAIN threshold THEN threshold[u].days
                                     ELSE 0) + req[s].adds
           /\ \A v \in DOMAIN threshold : v # u => threshold'[v] = threshold[v]
           /\ status' \in [Users -> Status]
  <1> DEFINE r == req[s]
             u == r.user
             before == ThresholdRow(u, r.business)
             after == Advanced(before, r.adds)
  <1>1. /\ r \in Recorded /\ threshold \in [DOMAIN threshold -> Threshold]
        /\ status \in [Users -> Status]
    BY CommitRows, InvTypes DEF TypeOKC, RowsOK
  <1>2. /\ threshold' = [v \in DOMAIN threshold \cup {u} |->
                           IF v = u THEN after ELSE threshold[v]]
        /\ status' = Promoted(u, before, after)
    BY DEF Commit
  <1>3. /\ before \in Threshold
        /\ before.events = IF u \in DOMAIN threshold THEN threshold[u].events ELSE 0
        /\ before.days = IF u \in DOMAIN threshold THEN threshold[u].days ELSE 0
    BY <1>1 DEF ThresholdRow, Created, Threshold, Recorded
  <1>4. /\ after \in Threshold
        /\ after.events = before.events + 1 /\ after.days = before.days + r.adds
    BY <1>1, <1>3, AdvancedFields DEF Recorded
  <1>5. status' \in [Users -> Status]
    BY <1>1, <1>2 DEF Promoted, Status
  <1>6. QED
    BY <1>1, <1>2, <1>3, <1>4, <1>5

\* What it does to the events and days of the users.
LEMMA CommitEvents ==
    ASSUME CollectionInv, NEW s \in Sessions, NEW e \in EventIds, Commit(s, e),
           NEW u \in Users
    PROVE  /\ EventsOf(u)' = IF u = req[s].user THEN EventsOf(u) \cup {e} ELSE EventsOf(u)
           /\ Pairs(u)' = IF u = req[s].user
                          THEN Pairs(u) \cup {<<req[s].business, req[s].day>>} ELSE Pairs(u)
  <1>0. /\ e \notin DOMAIN events /\ DOMAIN events' = DOMAIN events \cup {e}
        /\ events'[e].user = req[s].user /\ events'[e].business = req[s].business
        /\ events'[e].day = req[s].day
        /\ \A i \in DOMAIN events : events'[i] = events[i]
    BY CommitRows
  <1>1. EventsOf(u)' = IF u = req[s].user THEN EventsOf(u) \cup {e} ELSE EventsOf(u)
    BY <1>0 DEF EventsOf
  <1>2. /\ \A i \in EventsOf(u) : events'[i] = events[i]
        /\ events'[e].business = req[s].business /\ events'[e].day = req[s].day
    BY <1>0 DEF EventsOf
  <1>3. CASE u # req[s].user
    BY <1>1, <1>2, <1>3 DEF Pairs
  <1>4. CASE u = req[s].user
    <2>1. Pairs(u)' = {<<events'[i].business, events'[i].day>> : i \in EventsOf(u) \cup {e}}
      BY <1>1, <1>4 DEF Pairs
    <2>2. QED
      BY <1>1, <1>2, <1>4, <2>1 DEF Pairs
  <1>5. QED
    BY <1>3, <1>4

LEMMA CommitCounts ==
    ASSUME CollectionInv, NEW s \in Sessions, NEW e \in EventIds, Commit(s, e),
           UNCHANGED <<orders, queue>>
    PROVE  TablesFinite' /\ EventsCounted' /\ DaysCovered' /\ SeenDays'
  <1>0. PICK u \in Users : u = req[s].user
    BY CommitRows DEF Recorded
  <1> DEFINE p == <<req[s].business, req[s].day>>
  <1>1. /\ req[s].adds \in {0, 1} /\ e \notin DOMAIN events
        /\ DOMAIN events' = DOMAIN events \cup {e}
    BY CommitRows DEF Recorded
  <1>2. TablesFinite'
    <2>1. IsFiniteSet(DOMAIN events') /\ IsFiniteSet(DOMAIN orders')
      BY <1>1, FS_AddElement DEF TablesFinite, CollectionInv
    <2>2. ASSUME NEW v \in Users PROVE IsFiniteSet(Pairs(v)')
      <3>1. IsFiniteSet(Pairs(v)) /\ IsFiniteSet(Pairs(v) \cup {p})
        BY FS_AddElement DEF TablesFinite, CollectionInv
      <3>2. Pairs(v)' = Pairs(v) \/ Pairs(v)' = Pairs(v) \cup {p}
        BY <1>0, CommitEvents
      <3>3. QED
        BY <3>1, <3>2
    <2>3. QED
      BY <2>1, <2>2 DEF TablesFinite
  <1>3. /\ Cardinality(EventsOf(u)) \in Nat /\ IsFiniteSet(EventsOf(u)) /\ e \notin EventsOf(u)
        /\ Cardinality(Pairs(u)) \in Nat /\ IsFiniteSet(Pairs(u))
    BY <1>0, <1>1, EventsFinite, FS_CardinalityType DEF EventsOf, TablesFinite, CollectionInv
  <1>4. Cardinality(EventsOf(u) \cup {e}) = Cardinality(EventsOf(u)) + 1
    BY <1>3, FS_AddElement
  <1>5. Cardinality(EventsOf(u)) = IF u \in DOMAIN threshold THEN threshold[u].events ELSE 0
    BY <1>0, FS_EmptySet DEF EventsCounted, CollectionInv
  <1>6. EventsCounted'
    <2>1. SUFFICES ASSUME NEW v \in Users
                   PROVE  IF v \in DOMAIN threshold'
                          THEN Cardinality(EventsOf(v)') = threshold'[v].events
                          ELSE EventsOf(v)' = {}
      BY DEF EventsCounted
    <2>2. CASE v = u
      BY <1>0, <1>1, <1>3, <1>4, <1>5, <2>2, CommitEvents, CommitThreshold
    <2>3. CASE v # u
      <3>1. EventsOf(v)' = EventsOf(v)
        BY <1>0, <2>3, CommitEvents
      <3>2. /\ v \in DOMAIN threshold' <=> v \in DOMAIN threshold
            /\ v \in DOMAIN threshold => threshold'[v] = threshold[v]
        BY <1>0, <2>3, CommitThreshold
      <3>3. QED
        BY <3>1, <3>2 DEF EventsCounted, CollectionInv
    <2>4. QED
      BY <2>2, <2>3
  <1>7. Cardinality(Pairs(u) \cup {p}) <= Cardinality(Pairs(u)) + req[s].adds
    <2>1. CASE req[s].adds = 0
      <3>1. Pairs(u) \cup {p} = Pairs(u)
        BY <1>0, <1>1, <2>1 DEF Commit, SeenDays, CollectionInv
      <3>2. Cardinality(Pairs(u) \cup {p}) = Cardinality(Pairs(u))
        BY <3>1
      <3>3. QED
        BY <1>3, <2>1, <3>2
    <2>2. CASE req[s].adds = 1
      <3>1. Cardinality(Pairs(u) \cup {p}) = Cardinality(Pairs(u))
              \/ Cardinality(Pairs(u) \cup {p}) = Cardinality(Pairs(u)) + 1
        BY <1>3, FS_AddElement
      <3>2. QED
        BY <1>3, <2>2, <3>1
    <2>3. QED
      BY <1>1, <2>1, <2>2
  <1>8. LET days == IF u \in DOMAIN threshold THEN threshold[u].days ELSE 0
            count == IF u \in DOMAIN threshold THEN threshold[u].events ELSE 0
        IN  /\ days \in Nat /\ count \in Nat
            /\ Cardinality(Pairs(u)) <= days /\ days <= count
    <2>1. CASE u \in DOMAIN threshold
      BY <1>0, <2>1, InvTypes DEF DaysCovered, CollectionInv, TypeOKC, RowsOK, Threshold
    <2>2. CASE u \notin DOMAIN threshold
      <3>1. Pairs(u) = {}
        BY <1>0, <2>2 DEF EventsCounted, Pairs, CollectionInv
      <3>2. QED
        BY <2>2, <3>1, FS_EmptySet
    <2>3. QED
      BY <2>1, <2>2
  <1>9. DaysCovered'
    <2>1. SUFFICES ASSUME NEW v \in DOMAIN threshold'
                   PROVE  /\ Cardinality(Pairs(v)') <= threshold'[v].days
                          /\ threshold'[v].days <= threshold'[v].events
      BY DEF DaysCovered
    <2>2. CASE v = u
      <3>1. Cardinality(Pairs(u) \cup {p}) \in Nat
        BY <1>3, FS_AddElement, FS_CardinalityType
      <3>2. Pairs(u)' = Pairs(u) \cup {p}
        BY <1>0, CommitEvents
      <3>3. /\ threshold'[u].events = (IF u \in DOMAIN threshold THEN threshold[u].events
                                        ELSE 0) + 1
            /\ threshold'[u].days = (IF u \in DOMAIN threshold THEN threshold[u].days
                                      ELSE 0) + req[s].adds
        BY <1>0, CommitThreshold
      <3>4. QED
        BY <1>1, <1>3, <1>7, <1>8, <2>2, <3>1, <3>2, <3>3
    <2>3. CASE v # u
      <3>1. v \in DOMAIN threshold /\ v \in Users /\ threshold'[v] = threshold[v]
        BY <1>0, <2>1, <2>3, CommitThreshold, InvTypes DEF TypeOKC, RowsOK
      <3>2. QED
        BY <1>0, <2>3, <3>1, CommitEvents DEF DaysCovered, CollectionInv
    <2>4. QED
      BY <2>2, <2>3
  <1>10. SeenDays'
    <2>1. ASSUME NEW t \in Sessions, req'[t].op = "event", req'[t].adds = 0
          PROVE  <<req'[t].business, req'[t].day>> \in Pairs(req[t].user)'
      <3>1. req' = [req EXCEPT ![s] = Idle] /\ req \in [Sessions -> CollectionRequest]
        BY CommitRows, InvTypes DEF TypeOKC
      <3>2. t # s /\ req'[t] = req[t]
        BY <2>1, <3>1, IdleFacts
      <3>3. req[t].user \in Users /\ <<req[t].business, req[t].day>> \in Pairs(req[t].user)
        BY <2>1, <3>2, RequestFields, InvTypes DEF SeenDays, CollectionInv
      <3>4. ASSUME NEW v \in Users PROVE Pairs(v) \subseteq Pairs(v)'
        BY CommitEvents
      <3>5. Pairs(req[t].user) \subseteq Pairs(req[t].user)'
        <4>1. PICK v \in Users : v = req[t].user
          BY <3>3
        <4>2. Pairs(req[t].user)' = Pairs(v)'
          BY <3>2, <4>1 DEF Pairs, EventsOf
        <4>3. QED
          BY <3>4, <4>1, <4>2
      <3>6. QED
        BY <3>2, <3>3, <3>5
    <2>2. QED
      BY <2>1 DEF SeenDays
  <1>11. QED
    BY <1>2, <1>6, <1>9, <1>10

\* A handler that ends holds nothing, the others hold what they held.
LEMMA EndFacts ==
    ASSUME TypeOKC, NEW s \in Sessions, req' = [req EXCEPT ![s] = Idle]
    PROVE  /\ req' \in [Sessions -> CollectionRequest]
           /\ req'[s].op = "idle"
           /\ \A t \in Sessions : t # s => req'[t] = req[t]
           /\ \A t \in Sessions : req'[t].op # "idle" => t # s /\ req'[t] = req[t]
  BY IdleFacts DEF TypeOKC

\* The locks held after a handler ends that may have tapped the box it had locked.
LEMMA LocksAfterEnd ==
    ASSUME CollectionInv, NEW s \in Sessions, req' = [req EXCEPT ![s] = Idle],
           DOMAIN boxes \subseteq DOMAIN boxes',
           \A x \in DOMAIN boxes : s \in Holders(x) \/ boxes'[x].tapper = boxes[x].tapper
    PROVE  RowsLocked'
  <1>1. ASSUME NEW x \in Boxes, NEW t \in Holders(x)', NEW v \in Holders(x)' PROVE t = v
    <2>1. t \in Holders(x) /\ v \in Holders(x)
      BY <1>1, EndFacts, InvTypes DEF Holders
    <2>2. QED
      BY <2>1 DEF RowsLocked, CollectionInv
  <1>2. ASSUME NEW t \in Sessions, req'[t].op = "collected"
        PROVE  boxes'[req'[t].box].tapper = NoUser
    <2>1. /\ t # s /\ req'[t] = req[t] /\ req[t].box \in DOMAIN boxes
          /\ req[t].box \in Boxes /\ boxes[req[t].box].tapper = NoUser
      BY <1>2, EndFacts, InvTypes, RequestFields DEF ReadsExist, RowsLocked, CollectionInv
    <2>2. t \in Holders(req[t].box)
      BY <1>2, <2>1 DEF Holders
    <2>3. s \notin Holders(req[t].box)
      BY <2>1, <2>2 DEF RowsLocked, CollectionInv
    <2>4. QED
      BY <2>1, <2>3
  <1>3. QED
    BY <1>1, <1>2 DEF RowsLocked

LEMMA CommitTables ==
    ASSUME CollectionInv, NEW s \in Sessions, NEW e \in EventIds, Commit(s, e),
           UNCHANGED <<orders, queue>>
    PROVE  /\ HandedOver' /\ OneOrderPerBox' /\ ReadsExist' /\ RowsLocked'
           /\ UsedIsTapped'
  <1>1. /\ TypeOKC /\ req[s].user \in Users /\ NoUser \notin Users
        /\ req' = [req EXCEPT ![s] = Idle]
    BY CommitRows, InvTypes, SentinelAssumption DEF Recorded
  <1>2. TypeOKC'
    <2>1. today' = today /\ today \in Days
      BY <1>1 DEF Commit, TypeOKC, RowsOK
    <2>2. /\ DOMAIN events' \subseteq EventIds /\ events' \in [DOMAIN events' -> Event]
          /\ DOMAIN boxes' \subseteq Boxes /\ boxes' \in [DOMAIN boxes' -> Box]
      <3>1. DOMAIN events' \subseteq EventIds
        <4>1. DOMAIN events' = DOMAIN events \cup {e}
          BY CommitRows
        <4>2. QED
          BY <1>1, <4>1 DEF TypeOKC, RowsOK
      <3>2. DOMAIN boxes' \subseteq Boxes /\ boxes' \in [DOMAIN boxes' -> Box]
        BY <1>1, CommitBoxes DEF TypeOKC, RowsOK
      <3>3. QED
        BY <3>1, <3>2, CommitEventType
    <2>3. /\ status' \in [Users -> Status] /\ DOMAIN threshold' \subseteq Users
          /\ threshold' \in [DOMAIN threshold' -> Threshold]
      BY <1>1, CommitThreshold DEF TypeOKC, RowsOK
    <2>4. QED
      BY <1>1, <2>1, <2>2, <2>3, EndFacts DEF TypeOKC, RowsOK
  <1>3. /\ DOMAIN boxes' = DOMAIN boxes /\ req[s].box \in DOMAIN boxes \cup {NoBox}
        /\ \A x \in DOMAIN boxes : boxes[x].tapper # NoUser => boxes'[x].tapper # NoUser
        /\ \A x \in DOMAIN boxes : x # req[s].box => boxes'[x].tapper = boxes[x].tapper
        /\ req[s].box # NoBox => boxes'[req[s].box].tapper # NoUser
    BY <1>1, CommitBoxes
  <1>4. HandedOver' /\ OneOrderPerBox'
    BY <1>2, <1>3 DEF HandedOver, OneOrderPerBox, CollectionInv
  <1>5. ReadsExist'
    BY <1>1, <1>3, EndFacts DEF ReadsExist, CollectionInv
  <1>6. RowsLocked'
    <2>1. \A x \in DOMAIN boxes : s \in Holders(x) \/ boxes'[x].tapper = boxes[x].tapper
      BY <1>3 DEF Commit, Holders
    <2>2. QED
      BY <1>1, <1>3, <2>1, LocksAfterEnd
  <1>7. UsedIsTapped'
    <2>1. ASSUME NEW i \in DOMAIN events', events'[i].box # NoBox
          PROVE  events'[i].box \in DOMAIN boxes' /\ boxes'[events'[i].box].tapper # NoUser
      <3>1. CASE i = e
        <4>1. events'[i].box = req[s].box
          BY <3>1, CommitRows
        <4>2. QED
          BY <1>3, <2>1, <4>1
      <3>2. CASE i \in DOMAIN events
        BY <1>3, <2>1, <3>2, CommitRows DEF UsedIsTapped, CollectionInv
      <3>3. QED
        BY <3>1, <3>2, CommitRows
    <2>2. QED
      BY <2>1 DEF UsedIsTapped
  <1>8. QED
    BY <1>4, <1>5, <1>6, <1>7

LEMMA CommitTaps ==
    ASSUME CollectionInv, NEW s \in Sessions, NEW e \in EventIds, Commit(s, e)
    PROVE  TapsOverlap'
  <1> DEFINE used(x) == {i \in DOMAIN events : events[i].box = x}
             held(x) == {t \in Sessions : req[t].op \in {"tap", "event"} /\ req[t].box = x}
  <1>1. /\ TypeOKC /\ req' = [req EXCEPT ![s] = Idle] /\ req[s].op = "event"
        /\ e \notin DOMAIN events /\ DOMAIN events' = DOMAIN events \cup {e}
        /\ events'[e].box = req[s].box /\ DOMAIN boxes' = DOMAIN boxes
        /\ \A i \in DOMAIN events : events'[i] = events[i]
    BY CommitRows, CommitBoxes, InvTypes DEF Commit
  <1>2. ASSUME NEW x \in DOMAIN boxes, used(x)' # {}
        PROVE  Cardinality(used(x)') + Cardinality(held(x)') <= Cardinality(Sessions)
    <2>1. /\ Cardinality(used(x)) \in Nat /\ IsFiniteSet(used(x)) /\ e \notin used(x)
          /\ Cardinality(held(x)) \in Nat /\ IsFiniteSet(held(x))
          /\ Cardinality(held(x)) <= Cardinality(Sessions) /\ Cardinality(Sessions) \in Nat
      <3>1. used(x) \subseteq DOMAIN events /\ e \notin used(x)
        BY <1>1
      <3>2. Cardinality(used(x)) \in Nat /\ IsFiniteSet(used(x))
        BY <3>1, EventsFinite DEF CollectionInv
      <3>3. QED
        BY <3>1, <3>2, SessionsFinite, held(x) \subseteq Sessions
    <2>2. used(x) # {} => Cardinality(used(x)) + Cardinality(held(x)) <= Cardinality(Sessions)
      BY DEF TapsOverlap, CollectionInv
    <2>3. CASE x = req[s].box
      <3>1. used(x)' = used(x) \cup {e}
        BY <1>1, <2>3
      <3>2. held(x)' = held(x) \ {s} /\ s \in held(x)
        BY <1>1, <2>3, EndFacts
      <3>3. Cardinality(used(x)') = Cardinality(used(x)) + 1
        BY <2>1, <3>1, FS_AddElement
      <3>4. Cardinality(held(x)') = Cardinality(held(x)) - 1
        BY <2>1, <3>2, FS_RemoveElement
      <3>5. used(x) = {} => Cardinality(used(x)) = 0
        BY FS_EmptySet
      <3>6. QED
        <4> HIDE DEF used, held
        <4>1. QED
          BY <2>1, <2>2, <3>3, <3>4, <3>5
    <2>4. CASE x # req[s].box
      <3>1. used(x)' = used(x)
        BY <1>1, <2>4
      <3>2. held(x)' = held(x)
        BY <1>1, <2>4, EndFacts
      <3>3. QED
        BY <1>2, <2>2, <3>1, <3>2
    <2>5. QED
      BY <2>3, <2>4
  <1>3. QED
    BY <1>1, <1>2 DEF TapsOverlap

LEMMA CommitStep ==
    ASSUME CollectionInv, NEW s \in Sessions, NEW e \in EventIds, Commit(s, e),
           UNCHANGED <<orders, queue>>
    PROVE  CollectionInv'
  BY CommitTables, CommitTaps, CommitCounts DEF CollectionInv

-----------------------------------------------------------------------------
(* Orders that are collected, cancelled and made                           *)

\* A step that leaves the events, the threshold rows, the users and the calendar as
\* they are, unlocks no used box, and lets no handler begin.
LEMMA PresenceKept ==
    ASSUME CollectionInv, IsFiniteSet(DOMAIN orders'), UNCHANGED <<status, events, threshold>>,
           \/ req' = req
           \/ \E s \in Sessions : req' = [req EXCEPT ![s] = Idle],
           DOMAIN boxes \subseteq DOMAIN boxes', DOMAIN boxes' \subseteq Boxes,
           \A x \in DOMAIN boxes : boxes[x].tapper # NoUser => boxes'[x].tapper # NoUser
    PROVE  /\ TablesFinite' /\ EventsCounted' /\ DaysCovered' /\ SeenDays'
           /\ UsedIsTapped' /\ TapsOverlap'
  <1>1. TypeOKC
    BY InvTypes
  <1>2. \A t \in Sessions : req'[t].op # "idle" => req'[t] = req[t]
    BY <1>1, EndFacts
  <1>3. \A u : EventsOf(u)' = EventsOf(u) /\ Pairs(u)' = Pairs(u)
    BY DEF EventsOf, Pairs
  <1>4. TablesFinite' /\ EventsCounted' /\ DaysCovered'
    BY <1>3 DEF TablesFinite, EventsCounted, DaysCovered, CollectionInv
  <1>5. SeenDays'
    <2>1. ASSUME NEW t \in Sessions, req'[t].op = "event", req'[t].adds = 0
          PROVE  <<req'[t].business, req'[t].day>> \in Pairs(req[t].user)'
      <3>1. req'[t] = req[t] /\ <<req[t].business, req[t].day>> \in Pairs(req[t].user)
        BY <1>2, <2>1 DEF SeenDays, CollectionInv
      <3>2. Pairs(req[t].user)' = Pairs(req[t].user)
        BY <3>1 DEF Pairs, EventsOf
      <3>3. QED
        BY <3>1, <3>2
    <2>2. QED
      BY <2>1 DEF SeenDays
  <1>6. UsedIsTapped'
    BY DEF UsedIsTapped, CollectionInv
  <1>7. TapsOverlap'
    <2> DEFINE used(x) == {e \in DOMAIN events : events[e].box = x}
               held(x) == {t \in Sessions : req[t].op \in {"tap", "event"} /\ req[t].box = x}
    <2>1. ASSUME NEW x \in DOMAIN boxes', used(x)' # {}
          PROVE  Cardinality(used(x)') + Cardinality(held(x)') <= Cardinality(Sessions)
      <3>1. used(x)' = used(x)
        OBVIOUS
      <3>2. x \in DOMAIN boxes
        BY <2>1, <3>1, SentinelAssumption DEF UsedIsTapped, CollectionInv
      <3>3. held(x)' \subseteq held(x)
        BY <1>2
      <3>4. /\ Cardinality(used(x)) \in Nat
            /\ Cardinality(used(x)) + Cardinality(held(x)) <= Cardinality(Sessions)
        BY <2>1, <3>1, <3>2, EventsFinite, used(x) \subseteq DOMAIN events
           DEF TapsOverlap, CollectionInv
      <3>5. /\ Cardinality(held(x)') \in Nat /\ Cardinality(held(x)) \in Nat
            /\ Cardinality(Sessions) \in Nat /\ Cardinality(held(x)') <= Cardinality(held(x))
        <4>1. held(x) \subseteq Sessions /\ held(x)' \subseteq Sessions
          OBVIOUS
        <4>2. QED
          BY <3>3, <4>1, SessionsFinite, FS_Subset
      <3>6. QED
        BY <3>1, <3>4, <3>5
    <2>2. QED
      BY <2>1 DEF TapsOverlap
  <1>8. QED
    BY <1>4, <1>5, <1>6, <1>7

LEMMA CollectCommitStep ==
    ASSUME CollectionInv, NEW s \in Sessions, CollectCommit(s)
    PROVE  CollectionInv'
  <1>1. PICK o \in OrderIds, x \in Boxes, u \in Users :
            req[s].order = o /\ req[s].box = x /\ req[s].user = u
    BY RequestFields, InvTypes DEF CollectCommit
  <1>2. /\ TypeOKC /\ o \in DOMAIN orders /\ x \in DOMAIN boxes /\ x # NoBox /\ u # NoUser
        /\ boxes[x].tapper = NoUser /\ s \in Holders(x)
    BY <1>1, InvTypes, SentinelAssumption
       DEF CollectCommit, ReadsExist, RowsLocked, Holders, CollectionInv
  <1>3. /\ orders' = [orders EXCEPT ![o].status = "collected", ![o].via = x]
        /\ boxes' = [boxes EXCEPT ![x].tapper = u]
        /\ req' = [req EXCEPT ![s] = Idle]
        /\ UNCHANGED <<today, status, events, threshold, queue>>
    BY <1>1 DEF CollectCommit, CollectedVia, End, presence
  <1>4. boxes \in [DOMAIN boxes -> Box] /\ orders \in [DOMAIN orders -> Order]
    BY <1>2 DEF TypeOKC, RowsOK
  <1>5. /\ boxes' \in [DOMAIN boxes -> Box] /\ DOMAIN boxes' = DOMAIN boxes
        /\ boxes'[x].tapper = u
        /\ \A y \in DOMAIN boxes : y # x => boxes'[y] = boxes[y]
    BY <1>2, <1>3, <1>4 DEF Box
  <1>6. /\ orders' \in [DOMAIN orders -> Order] /\ DOMAIN orders' = DOMAIN orders
        /\ orders'[o].via = x
        /\ \A p \in DOMAIN orders : p # o => orders'[p] = orders[p]
    BY <1>2, <1>3, <1>4 DEF Order, OrderStatus
  <1>7. TypeOKC'
    BY <1>2, <1>3, <1>5, <1>6, EndFacts DEF TypeOKC, RowsOK
  <1>8. ASSUME NEW p \in DOMAIN orders PROVE orders[p].via # x
    BY <1>2 DEF HandedOver, CollectionInv
  <1>9. HandedOver'
    <2>1. ASSUME NEW p \in DOMAIN orders
          PROVE  /\ orders'[p].status = "collected" => orders'[p].via # NoBox
                 /\ orders'[p].via # NoBox =>
                       /\ orders'[p].via \in DOMAIN boxes'
                       /\ boxes'[orders'[p].via].tapper # NoUser
      <3>1. CASE p = o
        BY <1>2, <1>5, <1>6, <3>1
      <3>2. CASE p # o
        BY <1>2, <1>5, <1>6, <3>2 DEF HandedOver, CollectionInv
      <3>3. QED
        BY <3>1, <3>2
    <2>2. QED
      BY <1>6, <1>7, <2>1 DEF HandedOver
  <1>10. OneOrderPerBox'
    BY <1>6, <1>8 DEF OneOrderPerBox, CollectionInv
  <1>11. ReadsExist'
    <2>1. \A t \in Sessions : req'[t].op # "idle" => req'[t] = req[t]
      BY <1>2, <1>3, EndFacts
    <2>2. QED
      BY <1>5, <1>6, <2>1 DEF ReadsExist, CollectionInv
  <1>12. RowsLocked'
    <2>1. \A y \in DOMAIN boxes : s \in Holders(y) \/ boxes'[y].tapper = boxes[y].tapper
      BY <1>2, <1>5
    <2>2. QED
      BY <1>3, <1>5, <2>1, LocksAfterEnd
  <1>13. /\ TablesFinite' /\ EventsCounted' /\ DaysCovered' /\ SeenDays'
         /\ UsedIsTapped' /\ TapsOverlap'
    <2>1. \A y \in DOMAIN boxes : boxes[y].tapper # NoUser => boxes'[y].tapper # NoUser
      BY <1>2, <1>5
    <2>2. DOMAIN boxes' \subseteq Boxes
      BY <1>7 DEF TypeOKC, RowsOK
    <2>3. QED
      BY <1>3, <1>5, <1>6, <2>1, <2>2, PresenceKept DEF TablesFinite, CollectionInv
  <1>14. QED
    BY <1>9, <1>10, <1>11, <1>12, <1>13 DEF CollectionInv

LEMMA CancelCommitStep ==
    ASSUME CollectionInv, NEW s \in Sessions, CancelCommit(s)
    PROVE  CollectionInv'
  <1>1. PICK o \in OrderIds : req[s].order = o /\ o \in DOMAIN orders
    BY RequestFields, InvTypes DEF CancelCommit, ReadsExist, CollectionInv
  <1>2. /\ TypeOKC /\ orders' = [orders EXCEPT ![o].status = "cancelled"]
        /\ req' = [req EXCEPT ![s] = Idle]
        /\ UNCHANGED <<today, status, events, threshold, boxes, queue>>
    BY <1>1, InvTypes DEF CancelCommit, CancelledAs, End, presence
  <1>3. /\ orders' \in [DOMAIN orders -> Order] /\ DOMAIN orders' = DOMAIN orders
        /\ \A p \in DOMAIN orders : orders'[p].via = orders[p].via
        /\ \A p \in DOMAIN orders :
              orders'[p].status = "collected" => orders[p].status = "collected"
    <2>1. orders \in [DOMAIN orders -> Order]
      BY <1>2 DEF TypeOKC
    <2>2. QED
      BY <1>1, <1>2, <2>1 DEF Order, OrderStatus
  <1>4. TypeOKC'
    BY <1>2, <1>3, EndFacts DEF TypeOKC, RowsOK
  <1>5. HandedOver' /\ OneOrderPerBox'
    BY <1>2, <1>3, <1>4 DEF HandedOver, OneOrderPerBox, CollectionInv
  <1>6. ReadsExist'
    BY <1>2, <1>3, EndFacts DEF ReadsExist, CollectionInv
  <1>7. RowsLocked'
    BY <1>2, LocksAfterEnd
  <1>8. /\ TablesFinite' /\ EventsCounted' /\ DaysCovered' /\ SeenDays'
        /\ UsedIsTapped' /\ TapsOverlap'
    <2>1. DOMAIN boxes' \subseteq Boxes
      BY <1>4 DEF TypeOKC, RowsOK
    <2>2. QED
      BY <1>2, <1>3, <2>1, PresenceKept DEF TablesFinite, CollectionInv
  <1>9. QED
    BY <1>5, <1>6, <1>7, <1>8 DEF CollectionInv

LEMMA CreateOrderStep ==
    ASSUME CollectionInv, NEW u \in Users, NEW b \in Businesses, NEW o \in OrderIds,
           CreateOrder(u, b, o)
    PROVE  CollectionInv'
  <1>1. /\ TypeOKC /\ o \notin DOMAIN orders
        /\ orders' = [p \in DOMAIN orders \cup {o} |->
                        IF p = o THEN NewOrder(u, b) ELSE orders[p]]
        /\ queue' = [p \in DOMAIN queue \cup {o} |->
                       IF p = o THEN Cardinality(DOMAIN queue) ELSE queue[p]]
        /\ UNCHANGED <<today, status, events, threshold, boxes, req>>
    BY InvTypes DEF CreateOrder, vars, presence
  <1>2. NewOrder(u, b) \in Order /\ NewOrder(u, b).via = NoBox
        /\ NewOrder(u, b).status = "pending"
    BY DEF NewOrder, Order, OrderStatus
  <1>3. Cardinality(DOMAIN queue) \in Nat
    BY <1>1, FS_CardinalityType DEF TypeOKC, TablesFinite, CollectionInv
  <1>4. TypeOKC'
    <2>1. /\ DOMAIN orders' \subseteq OrderIds /\ orders' \in [DOMAIN orders' -> Order]
      BY <1>1, <1>2 DEF TypeOKC
    <2>2. queue' \in [DOMAIN orders' -> Nat]
      BY <1>1, <1>3 DEF TypeOKC
    <2>3. QED
      BY <1>1, <2>1, <2>2 DEF TypeOKC, RowsOK
  <1>5. HandedOver' /\ OneOrderPerBox'
    BY <1>1, <1>2, <1>4 DEF HandedOver, OneOrderPerBox, CollectionInv
  <1>6. ReadsExist' /\ RowsLocked'
    BY <1>1 DEF ReadsExist, RowsLocked, Holders, CollectionInv
  <1>7. /\ TablesFinite' /\ EventsCounted' /\ DaysCovered' /\ SeenDays'
        /\ UsedIsTapped' /\ TapsOverlap'
    <2>1. DOMAIN boxes' \subseteq Boxes
      BY <1>4 DEF TypeOKC, RowsOK
    <2>2. IsFiniteSet(DOMAIN orders')
      BY <1>1, FS_AddElement DEF TablesFinite, CollectionInv
    <2>3. QED
      BY <1>1, <2>1, <2>2, PresenceKept
  <1>8. QED
    BY <1>5, <1>6, <1>7 DEF CollectionInv

-----------------------------------------------------------------------------
(* Boxes, days and users                                                   *)

LEMMA ActivateBoxStep ==
    ASSUME CollectionInv, NEW x \in Boxes, ActivateBox(x), UNCHANGED <<orders, queue>>
    PROVE  CollectionInv'
  <1>1. /\ TypeOKC /\ x \notin DOMAIN boxes
        /\ boxes' = [y \in DOMAIN boxes \cup {x} |-> IF y = x THEN NewBox ELSE boxes[y]]
        /\ UNCHANGED <<today, status, events, threshold, req>>
    BY InvTypes DEF ActivateBox, presence
  <1>2. /\ DOMAIN boxes' = DOMAIN boxes \cup {x} /\ boxes' \in [DOMAIN boxes' -> Box]
        /\ \A y \in DOMAIN boxes : boxes'[y] = boxes[y]
    <2>1. NewBox \in Box
      BY DEF NewBox, Box
    <2>2. QED
      BY <1>1, <2>1 DEF TypeOKC, RowsOK
  <1>3. TypeOKC'
    BY <1>1, <1>2 DEF TypeOKC, RowsOK
  <1>4. HandedOver' /\ OneOrderPerBox'
    BY <1>2, <1>3 DEF HandedOver, OneOrderPerBox, CollectionInv
  <1>5. ReadsExist'
    BY <1>1, <1>2 DEF ReadsExist, CollectionInv
  <1>6. RowsLocked'
    BY <1>1, <1>2 DEF ReadsExist, RowsLocked, Holders, CollectionInv
  <1>7. /\ TablesFinite' /\ EventsCounted' /\ DaysCovered' /\ SeenDays'
        /\ UsedIsTapped' /\ TapsOverlap'
    <2>1. DOMAIN boxes' \subseteq Boxes
      BY <1>3 DEF TypeOKC, RowsOK
    <2>2. QED
      BY <1>1, <1>2, <2>1, PresenceKept DEF TablesFinite, CollectionInv
  <1>8. QED
    BY <1>4, <1>5, <1>6, <1>7 DEF CollectionInv

LEMMA WindowEndsStep ==
    ASSUME CollectionInv, NEW x \in Boxes, WindowEnds(x), UNCHANGED <<orders, queue>>
    PROVE  CollectionInv'
  <1>1. /\ TypeOKC /\ x \in DOMAIN boxes
        /\ boxes' = [boxes EXCEPT ![x].window = "over"]
        /\ UNCHANGED <<today, status, events, threshold, req>>
    BY InvTypes DEF WindowEnds, presence
  <1>2. /\ DOMAIN boxes' = DOMAIN boxes /\ boxes' \in [DOMAIN boxes -> Box]
        /\ \A y \in DOMAIN boxes : boxes'[y].tapper = boxes[y].tapper
    <2>1. boxes \in [DOMAIN boxes -> Box]
      BY <1>1 DEF TypeOKC, RowsOK
    <2>2. QED
      BY <1>1, <2>1 DEF Box
  <1>3. TypeOKC'
    BY <1>1, <1>2 DEF TypeOKC, RowsOK
  <1>4. HandedOver' /\ OneOrderPerBox'
    BY <1>2, <1>3 DEF HandedOver, OneOrderPerBox, CollectionInv
  <1>5. ReadsExist'
    BY <1>1, <1>2 DEF ReadsExist, CollectionInv
  <1>6. RowsLocked'
    BY <1>1, <1>2 DEF ReadsExist, RowsLocked, Holders, CollectionInv
  <1>7. /\ TablesFinite' /\ EventsCounted' /\ DaysCovered' /\ SeenDays'
        /\ UsedIsTapped' /\ TapsOverlap'
    <2>1. DOMAIN boxes' \subseteq Boxes
      BY <1>3 DEF TypeOKC, RowsOK
    <2>2. QED
      BY <1>1, <1>2, <2>1, PresenceKept DEF TablesFinite, CollectionInv
  <1>8. QED
    BY <1>4, <1>5, <1>6, <1>7 DEF CollectionInv

\* A day passes, a user's status moves, or nothing happens.
LEMMA CalendarStep ==
    ASSUME CollectionInv, today' \in Days, status' \in [Users -> Status],
           UNCHANGED <<events, threshold, boxes, req, orders, queue>>
    PROVE  CollectionInv'
  <1>1. TypeOKC'
    BY InvTypes DEF TypeOKC, RowsOK
  <1>2. HandedOver' /\ OneOrderPerBox' /\ ReadsExist' /\ RowsLocked'
    BY <1>1 DEF HandedOver, OneOrderPerBox, ReadsExist, RowsLocked, Holders, CollectionInv
  <1>3. \A u : EventsOf(u)' = EventsOf(u) /\ Pairs(u)' = Pairs(u)
    BY DEF EventsOf, Pairs
  <1>4. TablesFinite' /\ EventsCounted' /\ DaysCovered'
    BY <1>3 DEF TablesFinite, EventsCounted, DaysCovered, CollectionInv
  <1>5. SeenDays' /\ UsedIsTapped' /\ TapsOverlap'
    BY <1>3 DEF SeenDays, UsedIsTapped, TapsOverlap, CollectionInv
  <1>6. QED
    BY <1>2, <1>4, <1>5 DEF CollectionInv

-----------------------------------------------------------------------------
(* Every reachable state                                                   *)

LEMMA CollectionInit == InitC => CollectionInv
  <1> SUFFICES ASSUME InitC PROVE CollectionInv
    OBVIOUS
  <1>1. /\ today = 1 /\ status = [u \in Users |-> "registered"]
        /\ DOMAIN events = {} /\ DOMAIN threshold = {} /\ DOMAIN boxes = {}
        /\ DOMAIN orders = {} /\ DOMAIN queue = {} /\ req = [s \in Sessions |-> Idle]
        /\ events = [e \in {} |-> Idle] /\ threshold = [u \in {} |-> Idle]
        /\ boxes = [x \in {} |-> Idle]
        /\ orders = [o \in {} |-> Idle] /\ queue = [o \in {} |-> 0]
    BY DEF InitC, Init
  <1>2. TypeOKC
    BY <1>1, IdleFacts, VerificationAssumption DEF TypeOKC, RowsOK, Days, Status
  <1>3. HandedOver /\ OneOrderPerBox
    BY <1>1, <1>2 DEF HandedOver, OneOrderPerBox
  <1>4. ReadsExist /\ RowsLocked /\ UsedIsTapped /\ SeenDays
    BY <1>1, IdleFacts DEF ReadsExist, RowsLocked, Holders, UsedIsTapped, SeenDays
  <1>5. \A u : EventsOf(u) = {} /\ Pairs(u) = {}
    BY <1>1 DEF EventsOf, Pairs
  <1>6. TablesFinite /\ EventsCounted /\ DaysCovered /\ TapsOverlap
    BY <1>1, <1>5, FS_EmptySet DEF TablesFinite, EventsCounted, DaysCovered, TapsOverlap
  <1>7. QED
    BY <1>3, <1>4, <1>6 DEF CollectionInv

LEMMA CollectionStep == CollectionInv /\ [NextC]_allVars => CollectionInv'
  <1> SUFFICES ASSUME CollectionInv, [NextC]_allVars PROVE CollectionInv'
    OBVIOUS
  <1>1. today \in Days /\ status \in [Users -> Status]
    BY InvTypes DEF TypeOKC, RowsOK
  <1>2. ASSUME NEW s \in Sessions, Handler(s), UNCHANGED <<orders, queue>>
        PROVE  CollectionInv'
    BY <1>2, DwellRecordStep, TapReadStep, TapRecordStep, CommitStep, DropStep DEF Handler
  <1>3. ASSUME Next, UNCHANGED <<orders, queue>> PROVE CollectionInv'
    <2>1. ASSUME NextDay PROVE CollectionInv'
      <3>1. today' \in Days
        BY <1>1, <2>1, VerificationAssumption DEF NextDay, Days
      <3>2. QED
        BY <1>1, <1>3, <2>1, <3>1, CalendarStep DEF NextDay
    <2>2. ASSUME NEW u \in Users, StatusMoves(u) PROVE CollectionInv'
      <3>1. status' \in [Users -> Status]
        BY <1>1, <2>2 DEF StatusMoves, Status
      <3>2. QED
        BY <1>1, <1>3, <2>2, <3>1, CalendarStep DEF StatusMoves
    <2>3. QED
      BY <1>2, <1>3, <2>1, <2>2, ActivateBoxStep, WindowEndsStep DEF Next
  <1>4. ASSUME NEW s \in Sessions, CollectionHandler(s) PROVE CollectionInv'
    BY <1>4, CollectReadStep, CollectTapStep, CollectCommitStep, CancelReadStep,
       CancelCommitStep DEF CollectionHandler
  <1>5. CASE UNCHANGED allVars
    BY <1>1, <1>5, CalendarStep DEF allVars, vars, presence
  <1>6. QED
    BY <1>3, <1>4, <1>5, CreateOrderStep DEF NextC

LEMMA CollectionInvariance == SpecC => []CollectionInv
  BY CollectionInit, CollectionStep, PTL DEF SpecC

\* record_beacon_dwell and record_nfc_tap never lose an advance and never make one
\* twice: presence_thresholds.event_count is the number of the user's events, however
\* many handlers of the user overlap and whatever else collects or cancels.
THEOREM EventsAlwaysCounted == SpecC => []EventsCounted
  BY CollectionInvariance, PTL DEF CollectionInv

\* days_count misses no day the user qualified on at a business and never exceeds
\* event_count, although the count behind it is read before the row is locked.
THEOREM DaysAlwaysCovered == SpecC => []DaysCovered
  BY CollectionInvariance, PTL DEF CollectionInv

\* A box serves at most the handlers that overlapped its first tap, however many
\* handlers there are: the unguarded UPDATE of record_nfc_tap goes no further.
THEOREM TapsAlwaysOverlap == SpecC => []TapsOverlap
  BY CollectionInvariance, PTL DEF CollectionInv

\* tap_box lets one collect_order have a box: no two orders are collected via it.
THEOREM OneOrderAlwaysPerBox == SpecC => []OneOrderPerBox
  BY CollectionInvariance, PTL DEF CollectionInv

\* Types, and that a collected order names the tapped box it was handed over with.
THEOREM AlwaysHandedOver == SpecC => []HandedOver
  BY CollectionInvariance, PTL DEF CollectionInv

-----------------------------------------------------------------------------
(* Credentials and background checks: handlers and what they hold          *)

LEMMA ScreeningIdle == Idle \in ScreeningRequest /\ Idle.op = "idle"
  BY DEF ScreeningRequest, Idle

LEMMA ScreeningTypes == ScreeningInv => TypeOKS
  BY DEF ScreeningInv

\* What a request of each kind holds.
LEMMA ScreeningFields ==
    ASSUME TypeOKS, NEW s \in Sessions
    PROVE  /\ req[s] \in ScreeningRequest
           /\ req[s].op \in {"idle", "verify", "open", "check"}
           /\ req[s].op = "verify" => /\ req[s].user \in Users
                                     /\ req[s].session \in StripeSessions
                                     /\ req[s].number \in 1 .. MaxCredentials
           /\ req[s].op = "open" => req[s].credential \in 1 .. MaxCredentials
           /\ req[s].op = "check" => /\ req[s].user \in Users /\ req[s].type \in CheckType
                                    /\ req[s].credential \in 1 .. MaxCredentials
                                    /\ req[s].number \in 1 .. MaxChecks
  BY DEF TypeOKS, ScreeningRequest, Idle

\* A number that a transaction starting now gets is nobody's.
LEMMA NextNumberFresh ==
    ASSUME NEW n \in Nat, NEW op, NEW rows, NextNumber(n, op, rows)
    PROVE  n \notin rows /\ \A t \in Sessions : req[t].op = op => req[t].number # n
  <1>1. \A m \in rows \cup {req[s].number : s \in {t \in Sessions : req[t].op = op}} : n > m
    BY DEF NextNumber
  <1>2. ~(n > n)
    OBVIOUS
  <1>3. QED
    BY <1>1, <1>2

\* A user both screenings of whom pass now was once cleared.
LEMMA ClearedOnce ==
    ASSUME ScreeningInv, NEW u, Cleared(u)
    PROVE  OnceCleared(u)
  BY DEF Cleared, PassedNow, LatestCheck, ValidPass, ChecksOf, OnceCleared,
         PassesRemembered, ScreeningInv

\* A handler that ends holds nothing, the others hold what they held.
LEMMA ScreeningEnds ==
    ASSUME TypeOKS, NEW s \in Sessions, req' = [req EXCEPT ![s] = Idle]
    PROVE  /\ req' \in [Sessions -> ScreeningRequest]
           /\ \A t \in Sessions : req'[t].op # "idle" => t # s /\ req'[t] = req[t]
  BY ScreeningIdle DEF TypeOKS

-----------------------------------------------------------------------------
(* Steps of a handler that write no row                                    *)

\* The handler goes on with request r: the number it takes is free, what it has
\* read holds.
GoesOnS(s, r) ==
    /\ r \in ScreeningRequest
    /\ r.op = "verify" => r.number \notin DOMAIN credentials
    /\ r.op = "check" => r.number \notin DOMAIN checks
    /\ r.op \in Numbering => \A t \in Sessions : req[t].op = r.op => req[t].number # r.number
    /\ r.op = "open" => r.credential \in DOMAIN credentials
    /\ r.op = "check" => CooledOf(r.user, r.credential)
    /\ r.op = "check" /\ r.type = Criminal => OnceCleared(r.user)
    /\ req' = [req EXCEPT ![s] = r]
    /\ UNCHANGED <<today, status, credentials, opens, checks>>

\* What is said of the rows alone.
RowsHold ==
    /\ CheckedAfterCooling /\ CoolingEarned /\ CriminalAfterClearance
    /\ PendingUnique /\ PassesRemembered /\ OpensFinite

LEMMA RowsKept ==
    ASSUME ScreeningInv, UNCHANGED <<credentials, opens, checks>>
    PROVE  RowsHold'
  BY DEF RowsHold, CheckedAfterCooling, CoolingEarned, CriminalAfterClearance, ChecksOf,
         PendingUnique, Pending, PassesRemembered, OpensFinite, ScreeningInv

LEMMA GoesOnSStep ==
    ASSUME ScreeningInv, NEW s \in Sessions, NEW r, GoesOnS(s, r)
    PROVE  ScreeningInv'
  <1>1. /\ req' = [req EXCEPT ![s] = r] /\ req \in [Sessions -> ScreeningRequest]
        /\ UNCHANGED <<today, status, credentials, opens, checks>>
    BY ScreeningTypes DEF GoesOnS, TypeOKS
  <1>2. TypeOKS'
    BY <1>1, ScreeningTypes DEF GoesOnS, TypeOKS
  <1>3. RowsHold'
    BY <1>1, RowsKept
  <1>4. NumbersFree'
    <2>1. ASSUME NEW t \in Sessions, NEW v \in Sessions, t # v,
                 req'[t].op \in Numbering, req'[t].op = req'[v].op
          PROVE  req'[t].number # req'[v].number
      BY <1>1, <2>1 DEF GoesOnS, NumbersFree, ScreeningInv
    <2>2. ASSUME NEW t \in Sessions
          PROVE  /\ req'[t].op = "verify" => req'[t].number \notin DOMAIN credentials'
                 /\ req'[t].op = "check" => req'[t].number \notin DOMAIN checks'
      BY <1>1 DEF GoesOnS, NumbersFree, ScreeningInv
    <2>3. QED
      BY <2>1, <2>2 DEF NumbersFree
  <1>5. ReadsHold'
    <2>1. \A u, c : /\ CooledOf(u, c)' = CooledOf(u, c)
                    /\ OnceCleared(u)' = OnceCleared(u)
      BY <1>1 DEF CooledOf, OnceCleared, ChecksOf
    <2>2. QED
      BY <1>1, <2>1 DEF GoesOnS, ReadsHold, ScreeningInv
  <1>6. QED
    BY <1>2, <1>3, <1>4, <1>5 DEF ScreeningInv, RowsHold

LEMMA VerifyReadStep ==
    ASSUME ScreeningInv, NEW s \in Sessions, NEW u \in Users, NEW session \in StripeSessions,
           NEW n \in 1 .. MaxCredentials, VerifyRead(s, u, session, n)
    PROVE  ScreeningInv'
  <1> DEFINE r == [op |-> "verify", user |-> u, session |-> session, number |-> n]
  <1>1. r \in ScreeningRequest
    BY DEF ScreeningRequest
  <1>2. /\ n \in Nat /\ n \notin DOMAIN credentials
        /\ \A t \in Sessions : req[t].op = "verify" => req[t].number # n
    BY NextNumberFresh, ScreeningAssumption DEF VerifyRead
  <1>3. GoesOnS(s, r)
    BY <1>1, <1>2 DEF VerifyRead, Start, GoesOnS
  <1>4. QED
    BY <1>3, GoesOnSStep

LEMMA OpenReadStep ==
    ASSUME ScreeningInv, NEW s \in Sessions, NEW c \in 1 .. MaxCredentials, OpenRead(s, c)
    PROVE  ScreeningInv'
  <1> DEFINE r == [op |-> "open", credential |-> c]
  <1>1. r \in ScreeningRequest
    BY DEF ScreeningRequest
  <1>2. GoesOnS(s, r)
    BY <1>1 DEF OpenRead, Start, GoesOnS, Numbering
  <1>3. QED
    BY <1>2, GoesOnSStep

LEMMA CheckReadStep ==
    ASSUME ScreeningInv, NEW s \in Sessions, NEW u \in Users, NEW c \in 1 .. MaxCredentials,
           NEW type \in CheckType, NEW n \in 1 .. MaxChecks, CheckRead(s, u, c, type, n)
    PROVE  ScreeningInv'
  <1> DEFINE r == [op |-> "check", user |-> u, credential |-> c, type |-> type, number |-> n]
  <1>1. r \in ScreeningRequest
    BY DEF ScreeningRequest
  <1>2. /\ n \in Nat /\ n \notin DOMAIN checks
        /\ \A t \in Sessions : req[t].op = "check" => req[t].number # n
    BY NextNumberFresh, ScreeningAssumption DEF CheckRead
  <1>3. CooledOf(u, c)
    BY DEF CheckRead, Cooled, LatestCredential, CredentialsOf, CooledOf
  <1>4. type = Criminal => OnceCleared(u)
    BY ClearedOnce DEF CheckRead
  <1>5. GoesOnS(s, r)
    BY <1>1, <1>2, <1>3, <1>4 DEF CheckRead, Start, GoesOnS
  <1>6. QED
    BY <1>5, GoesOnSStep

LEMMA DropSStep ==
    ASSUME ScreeningInv, NEW s \in Sessions, DropS(s)
    PROVE  ScreeningInv'
  <1>1. GoesOnS(s, Idle)
    BY ScreeningIdle DEF DropS, End, GoesOnS, Numbering
  <1>2. QED
    BY <1>1, GoesOnSStep

-----------------------------------------------------------------------------
(* Steps that write credentials                                            *)

\* A step that keeps the checks and every credential's user and completion, and lets
\* no handler begin, keeps what is said of checks.
LEMMA CredentialsGrow ==
    ASSUME ScreeningInv, NEW s \in Sessions, req' = [req EXCEPT ![s] = Idle],
           UNCHANGED checks, DOMAIN credentials \subseteq DOMAIN credentials',
           \A c \in DOMAIN credentials :
               /\ credentials'[c].user = credentials[c].user
               /\ credentials[c].done = "yes" => credentials'[c].done = "yes"
    PROVE  /\ CheckedAfterCooling' /\ CriminalAfterClearance' /\ PendingUnique'
           /\ PassesRemembered' /\ ReadsHold'
  <1>1. \A t \in Sessions : req'[t].op # "idle" => req'[t] = req[t]
    BY ScreeningEnds, ScreeningTypes
  <1>2. /\ \A u, c : CooledOf(u, c) => CooledOf(u, c)'
        /\ \A u : OnceCleared(u)' = OnceCleared(u)
    BY DEF CooledOf, OnceCleared, ChecksOf
  <1>3. CheckedAfterCooling'
    BY DEF CheckedAfterCooling, ScreeningInv
  <1>4. CriminalAfterClearance' /\ PendingUnique' /\ PassesRemembered'
    BY DEF CriminalAfterClearance, ChecksOf, PendingUnique, Pending, PassesRemembered,
           ScreeningInv
  <1>5. ReadsHold'
    BY <1>1, <1>2 DEF ReadsHold, ScreeningInv
  <1>6. QED
    BY <1>3, <1>4, <1>5

LEMMA VerifyCommitStep ==
    ASSUME ScreeningInv, NEW s \in Sessions, VerifyCommit(s)
    PROVE  ScreeningInv'
  <1>1. PICK n \in 1 .. MaxCredentials, u \in Users, session \in StripeSessions :
            /\ req[s].number = n /\ req[s].user = u /\ req[s].session = session
            /\ req[s].op = "verify" /\ n \notin DOMAIN credentials
    BY ScreeningFields, ScreeningTypes DEF VerifyCommit, NumbersFree, ScreeningInv
  <1> DEFINE new == NewCredential(u, session)
  <1>2. /\ credentials' = [c \in DOMAIN credentials \cup {n} |->
                             IF c = n THEN new ELSE credentials[c]]
        /\ opens' = [c \in DOMAIN opens \cup {n} |-> IF c = n THEN {} ELSE opens[c]]
        /\ status' = [status EXCEPT ![u] = IF @ = "registered" THEN "identity_confirmed"
                                            ELSE @]
        /\ req' = [req EXCEPT ![s] = Idle] /\ UNCHANGED <<today, checks>>
    BY <1>1 DEF VerifyCommit, End
  <1>3. TypeOKS /\ new \in Credential /\ new.done = "no"
    <2>1. TypeOKS /\ today \in Nat /\ CoolingDays \in Nat
      BY ScreeningTypes, ScreeningAssumption, VerificationAssumption DEF TypeOKS, Days
    <2>2. QED
      BY <2>1 DEF NewCredential, Credential
  <1> HIDE DEF new
  <1>4. /\ DOMAIN credentials' = DOMAIN credentials \cup {n}
        /\ credentials' \in [DOMAIN credentials' -> Credential]
        /\ credentials'[n] = new /\ opens'[n] = {}
        /\ \A c \in DOMAIN credentials :
              credentials'[c] = credentials[c] /\ opens'[c] = opens[c]
        /\ opens' \in [DOMAIN credentials' -> SUBSET Days]
    BY <1>1, <1>2, <1>3 DEF TypeOKS
  <1>5. TypeOKS'
    <2>1. status' \in [Users -> Standing]
      BY <1>2, <1>3 DEF TypeOKS, Standing
    <2>2. QED
      BY <1>2, <1>3, <1>4, <2>1, ScreeningEnds DEF TypeOKS
  <1>6. /\ CheckedAfterCooling' /\ CriminalAfterClearance' /\ PendingUnique'
        /\ PassesRemembered' /\ ReadsHold'
    BY <1>2, <1>4, CredentialsGrow
  <1>7. CoolingEarned' /\ OpensFinite'
    BY <1>3, <1>4, FS_EmptySet DEF CoolingEarned, OpensFinite, ScreeningInv
  <1>8. NumbersFree'
    <2>1. \A t \in Sessions : req'[t].op # "idle" => t # s /\ req'[t] = req[t]
      BY <1>2, <1>3, ScreeningEnds
    <2>2. \A t \in Sessions : t # s /\ req[t].op = "verify" => req[t].number # n
      BY <1>1 DEF NumbersFree, Numbering, ScreeningInv
    <2>3. QED
      BY <1>2, <1>4, <2>1, <2>2 DEF NumbersFree, Numbering, ScreeningInv
  <1>9. QED
    BY <1>5, <1>6, <1>7, <1>8 DEF ScreeningInv

LEMMA OpenCommitStep ==
    ASSUME ScreeningInv, NEW s \in Sessions, OpenCommit(s)
    PROVE  ScreeningInv'
  <1>1. PICK c \in DOMAIN credentials : req[s].credential = c /\ req[s].op = "open"
    BY DEF OpenCommit, ReadsHold, ScreeningInv
  <1>2. /\ opens' = [opens EXCEPT ![c] = Opened(c)]
        /\ credentials' = [credentials EXCEPT ![c].done = IF Completes(c) THEN "yes" ELSE @]
        /\ req' = [req EXCEPT ![s] = Idle] /\ UNCHANGED <<today, status, checks>>
    BY <1>1 DEF OpenCommit, End
  <1>3. /\ TypeOKS /\ today \in Days /\ credentials \in [DOMAIN credentials -> Credential]
        /\ opens \in [DOMAIN credentials -> SUBSET Days]
    BY ScreeningTypes DEF TypeOKS
  <1>4. /\ credentials' \in [DOMAIN credentials -> Credential]
        /\ \A d \in DOMAIN credentials :
              /\ credentials'[d].user = credentials[d].user
              /\ credentials'[d].ends = credentials[d].ends
              /\ credentials[d].done = "yes" => credentials'[d].done = "yes"
              /\ credentials'[d].done = "yes" =>
                     credentials[d].done = "yes" \/ (d = c /\ Completes(c))
    BY <1>1, <1>2, <1>3 DEF Credential
  <1>5. /\ opens' \in [DOMAIN credentials -> SUBSET Days]
        /\ opens'[c] = opens[c] \cup {today}
        /\ \A d \in DOMAIN credentials : d # c => opens'[d] = opens[d]
    BY <1>1, <1>2, <1>3 DEF Opened
  <1>6. TypeOKS'
    BY <1>2, <1>3, <1>4, <1>5, ScreeningEnds DEF TypeOKS
  <1>7. /\ CheckedAfterCooling' /\ CriminalAfterClearance' /\ PendingUnique'
        /\ PassesRemembered' /\ ReadsHold'
    BY <1>2, <1>4, CredentialsGrow
  <1>8. OpensFinite'
    <2>1. IsFiniteSet(opens[c] \cup {today})
      BY <1>1, FS_AddElement DEF OpensFinite, ScreeningInv
    <2>2. QED
      BY <1>4, <1>5, <2>1 DEF OpensFinite, ScreeningInv
  <1>9. CoolingEarned'
    <2>1. ASSUME NEW d \in DOMAIN credentials, credentials'[d].done = "yes"
          PROVE  /\ Cardinality(opens'[d]) >= RequiredOpens
                 /\ \E day \in opens'[d] : day >= credentials'[d].ends
      <3>1. CASE d = c /\ Completes(c)
        BY <1>4, <1>5, <3>1 DEF Completes, Opened
      <3>2. CASE credentials[d].done = "yes"
        <4>1. /\ Cardinality(opens[d]) >= RequiredOpens /\ RequiredOpens \in Nat
              /\ \E day \in opens[d] : day >= credentials[d].ends
          BY <3>2, ScreeningAssumption DEF CoolingEarned, ScreeningInv
        <4>2. opens[d] \subseteq opens'[d] /\ IsFiniteSet(opens[d]) /\ IsFiniteSet(opens'[d])
          BY <1>4, <1>5, <1>8 DEF OpensFinite, ScreeningInv
        <4>3. /\ Cardinality(opens[d]) \in Nat /\ Cardinality(opens'[d]) \in Nat
              /\ Cardinality(opens[d]) <= Cardinality(opens'[d])
          BY <4>2, FS_Subset, FS_CardinalityType
        <4>4. QED
          BY <1>4, <4>1, <4>2, <4>3
      <3>3. QED
        BY <1>4, <2>1, <3>1, <3>2
    <2>2. QED
      BY <1>4, <2>1 DEF CoolingEarned
  <1>10. NumbersFree'
    <2>1. \A t \in Sessions : req'[t].op # "idle" => t # s /\ req'[t] = req[t]
      BY <1>2, <1>3, ScreeningEnds
    <2>2. QED
      BY <1>2, <1>4, <2>1 DEF NumbersFree, Numbering, ScreeningInv
  <1>11. QED
    BY <1>6, <1>7, <1>8, <1>9, <1>10 DEF ScreeningInv

-----------------------------------------------------------------------------
(* Steps that write checks                                                 *)

LEMMA CheckCommitStep ==
    ASSUME ScreeningInv, NEW s \in Sessions, CheckCommit(s)
    PROVE  ScreeningInv'
  <1>1. PICK n \in 1 .. MaxChecks, u \in Users, c \in 1 .. MaxCredentials, ty \in CheckType :
            /\ req[s].number = n /\ req[s].user = u /\ req[s].credential = c
            /\ req[s].type = ty /\ req[s].op = "check" /\ n \notin DOMAIN checks
    BY ScreeningFields, ScreeningTypes DEF CheckCommit, NumbersFree, ScreeningInv
  <1> DEFINE new == [user |-> u, credential |-> c, type |-> ty,
                     status |-> "pending", until |-> 0, ever |-> "no"]
  <1>2. /\ checks' = [k \in DOMAIN checks \cup {n} |-> IF k = n THEN new ELSE checks[k]]
        /\ req' = [req EXCEPT ![s] = Idle]
        /\ UNCHANGED <<today, status, credentials, opens>>
    BY <1>1 DEF CheckCommit, NewCheck, End
  <1>3. TypeOKS /\ new \in Check
    BY ScreeningTypes DEF Check
  <1>4. /\ new.user = u /\ new.type = ty /\ new.credential = c /\ new.status = "pending"
    OBVIOUS
  <1> HIDE DEF new
  <1>5. /\ DOMAIN checks' = DOMAIN checks \cup {n} /\ checks' \in [DOMAIN checks' -> Check]
        /\ checks'[n] = new /\ \A k \in DOMAIN checks : checks'[k] = checks[k]
    BY <1>1, <1>2, <1>3 DEF TypeOKS
  <1>6. TypeOKS'
    BY <1>2, <1>3, <1>5, ScreeningEnds DEF TypeOKS
  <1>7. \A v : OnceCleared(v) => OnceCleared(v)'
    BY <1>5 DEF OnceCleared, ChecksOf
  <1>8. CooledOf(u, c) /\ (ty = Criminal => OnceCleared(u))
    BY <1>1 DEF ReadsHold, ScreeningInv
  <1>9. CheckedAfterCooling'
    BY <1>2, <1>4, <1>5, <1>8 DEF CheckedAfterCooling, CooledOf, ScreeningInv
  <1>10. CriminalAfterClearance'
    <2>1. ASSUME NEW k \in DOMAIN checks', checks'[k].type = Criminal
          PROVE  \A type \in Screenings : \E j \in ChecksOf(checks[k].user, type)' :
                    checks'[j].ever = "passed"
      <3>1. CASE k = n
        BY <1>4, <1>5, <1>7, <1>8, <2>1, <3>1 DEF OnceCleared, ChecksOf
      <3>2. CASE k \in DOMAIN checks
        <4>1. \A type \in Screenings : \E j \in ChecksOf(checks[k].user, type) :
                  checks[j].ever = "passed"
          BY <1>5, <2>1, <3>2 DEF CriminalAfterClearance, ScreeningInv
        <4>2. QED
          BY <1>5, <3>2, <4>1 DEF ChecksOf
      <3>3. QED
        BY <1>5, <3>1, <3>2
    <2>2. QED
      BY <2>1 DEF CriminalAfterClearance
  <1>11. PendingUnique'
    <2>1. Pending(u, ty) = {}
      <3>1. Pending(u, ty) \subseteq {n}
        BY <1>1 DEF CheckCommit, UniqueIndex
      <3>2. n \notin Pending(u, ty)
        BY <1>1 DEF Pending, ChecksOf
      <3>3. QED
        BY <3>1, <3>2
    <2>2. \A v, type : Pending(v, type)' =
             IF v = u /\ type = ty THEN {n} ELSE Pending(v, type)
      BY <1>1, <1>4, <1>5, <2>1 DEF Pending, ChecksOf
    <2>3. QED
      BY <2>2 DEF PendingUnique, ScreeningInv
  <1>12. PassesRemembered'
    BY <1>4, <1>5 DEF PassesRemembered, ScreeningInv
  <1>13. CoolingEarned' /\ OpensFinite'
    BY <1>2 DEF CoolingEarned, OpensFinite, ScreeningInv
  <1>14. \A t \in Sessions : req'[t].op # "idle" => t # s /\ req'[t] = req[t]
    BY <1>2, <1>3, ScreeningEnds
  <1>15. NumbersFree'
    <2>1. \A t \in Sessions : t # s /\ req[t].op = "check" => req[t].number # n
      BY <1>1 DEF NumbersFree, Numbering, ScreeningInv
    <2>2. QED
      BY <1>2, <1>5, <1>14, <2>1 DEF NumbersFree, Numbering, ScreeningInv
  <1>16. ReadsHold'
    <2>1. \A v, d : CooledOf(v, d)' = CooledOf(v, d)
      BY <1>2 DEF CooledOf
    <2>2. QED
      BY <1>2, <1>7, <1>14, <2>1 DEF ReadsHold, ScreeningInv
  <1>17. QED
    BY <1>6, <1>9, <1>10, <1>11, <1>12, <1>13, <1>15, <1>16 DEF ScreeningInv

LEMMA CheckWebhookStep ==
    ASSUME ScreeningInv, NEW k \in 1 .. MaxChecks, NEW r \in Results, CheckWebhook(k, r)
    PROVE  ScreeningInv'
  <1>1. /\ k \in DOMAIN checks
        /\ r = "pending" => Pending(checks[k].user, checks[k].type) \subseteq {k}
        /\ checks' = [checks EXCEPT ![k].status = r, ![k].until = today + ValidDays,
                                    ![k].ever = IF r = "passed" THEN r ELSE @]
        /\ UNCHANGED <<today, status, credentials, opens, req>>
    BY DEF CheckWebhook, Decided, UniqueIndex
  <1>2. TypeOKS /\ today + ValidDays \in Nat
    BY ScreeningTypes, ScreeningAssumption, VerificationAssumption DEF TypeOKS, Days
  <1> DEFINE row == checks[k]
             ever == IF r = "passed" THEN "passed" ELSE row.ever
             new == [user |-> row.user, credential |-> row.credential, type |-> row.type,
                     status |-> r, until |-> today + ValidDays, ever |-> ever]
  <1>3. row \in Check /\ new \in Check
    BY <1>1, <1>2 DEF TypeOKS, Check
  <1>4. checks' = [checks EXCEPT ![k] = new]
    <2> DEFINE decided == [checks EXCEPT ![k].status = r]
               dated == [decided EXCEPT ![k].until = today + ValidDays]
    <2>1. checks \in [DOMAIN checks -> Check]
      BY <1>2 DEF TypeOKS
    <2>2. decided = [checks EXCEPT ![k] = [row EXCEPT !.status = r]]
      BY <1>1, <2>1
    <2>3. dated = [checks EXCEPT ![k] = [[row EXCEPT !.status = r]
                                            EXCEPT !.until = today + ValidDays]]
      BY <1>1, <2>1, <2>2
    <2>4. checks' = [checks EXCEPT ![k] =
                        [[[row EXCEPT !.status = r] EXCEPT !.until = today + ValidDays]
                            EXCEPT !.ever = ever]]
      BY <1>1, <2>1, <2>3
    <2>5. [[[row EXCEPT !.status = r] EXCEPT !.until = today + ValidDays]
              EXCEPT !.ever = ever] = new
      <3> HIDE DEF row, ever
      <3>1. row = [user |-> row.user, credential |-> row.credential, type |-> row.type,
                   status |-> row.status, until |-> row.until, ever |-> row.ever]
        BY <1>3 DEF Check
      <3> DEFINE one == [user |-> row.user, credential |-> row.credential, type |-> row.type,
                         status |-> r, until |-> row.until, ever |-> row.ever]
                 two == [user |-> row.user, credential |-> row.credential, type |-> row.type,
                         status |-> r, until |-> today + ValidDays, ever |-> row.ever]
      <3>2. [row EXCEPT !.status = r] = one
        BY <3>1
      <3>3. [one EXCEPT !.until = today + ValidDays] = two
        OBVIOUS
      <3>4. [two EXCEPT !.ever = ever] = new
        OBVIOUS
      <3>5. QED
        BY <3>2, <3>3, <3>4
    <2>6. QED
      BY <2>4, <2>5
  <1>5. /\ new.user = row.user /\ new.credential = row.credential /\ new.type = row.type
        /\ new.status = r /\ (row.ever = "passed" => new.ever = "passed")
        /\ (r = "passed" => new.ever = "passed")
    OBVIOUS
  <1> HIDE DEF new
  <1>6. /\ DOMAIN checks' = DOMAIN checks /\ checks' \in [DOMAIN checks -> Check]
        /\ \A j \in DOMAIN checks :
              /\ checks'[j].user = checks[j].user /\ checks'[j].type = checks[j].type
              /\ checks'[j].credential = checks[j].credential
              /\ checks[j].ever = "passed" => checks'[j].ever = "passed"
              /\ checks'[j].status = "passed" => checks'[j].ever = "passed"
              /\ j # k => checks'[j].status = checks[j].status
        /\ checks'[k].status = r
    BY <1>1, <1>2, <1>3, <1>4, <1>5 DEF TypeOKS, PassesRemembered, ScreeningInv
  <1>7. TypeOKS'
    BY <1>1, <1>2, <1>6 DEF TypeOKS
  <1>8. \A v, type : ChecksOf(v, type)' = ChecksOf(v, type)
    BY <1>6 DEF ChecksOf
  <1>9. \A v : OnceCleared(v) => OnceCleared(v)'
    BY <1>6, <1>8 DEF OnceCleared, ChecksOf
  <1>10. CheckedAfterCooling' /\ PassesRemembered' /\ CoolingEarned' /\ OpensFinite'
    BY <1>1, <1>6 DEF CheckedAfterCooling, PassesRemembered, CoolingEarned, OpensFinite,
                      ScreeningInv
  <1>11. CriminalAfterClearance'
    <2>1. ASSUME NEW j \in DOMAIN checks, checks'[j].type = Criminal
          PROVE  \A type \in Screenings : \E i \in ChecksOf(checks[j].user, type)' :
                    checks'[i].ever = "passed"
      <3>1. \A type \in Screenings : \E i \in ChecksOf(checks[j].user, type) :
                checks[i].ever = "passed"
        BY <1>6, <2>1 DEF CriminalAfterClearance, ScreeningInv
      <3>2. QED
        BY <1>6, <2>1, <3>1 DEF ChecksOf
    <2>2. QED
      BY <1>6, <2>1 DEF CriminalAfterClearance
  <1>12. PendingUnique'
    <2>1. \A v, type : Pending(v, type)' \ {k} \subseteq Pending(v, type)
      BY <1>6 DEF Pending, ChecksOf
    <2>2. ASSUME NEW v \in Users, NEW type \in CheckType, k \in Pending(v, type)'
          PROVE  Pending(v, type) \subseteq {k}
      <3>1. r = "pending" /\ v = checks[k].user /\ type = checks[k].type
        BY <1>1, <1>6, <2>2 DEF Pending, ChecksOf
      <3>2. QED
        BY <1>1, <3>1
    <2>3. QED
      BY <2>1, <2>2 DEF PendingUnique, ScreeningInv
  <1>13. NumbersFree'
    BY <1>1, <1>6 DEF NumbersFree, ScreeningInv
  <1>14. ReadsHold'
    BY <1>1, <1>9 DEF ReadsHold, CooledOf, ScreeningInv
  <1>15. QED
    BY <1>7, <1>10, <1>11, <1>12, <1>13, <1>14 DEF ScreeningInv

-----------------------------------------------------------------------------
(* Every reachable state                                                   *)

\* A day passes, a user's standing moves, or nothing happens.
LEMMA StandingStep ==
    ASSUME ScreeningInv, today' \in Days, status' \in [Users -> Standing],
           UNCHANGED <<credentials, opens, checks, req>>
    PROVE  ScreeningInv'
  <1>1. TypeOKS'
    BY ScreeningTypes DEF TypeOKS
  <1>2. NumbersFree'
    BY DEF NumbersFree, ScreeningInv
  <1>3. \A u, c : CooledOf(u, c)' = CooledOf(u, c) /\ OnceCleared(u)' = OnceCleared(u)
    BY DEF CooledOf, OnceCleared, ChecksOf
  <1>4. ReadsHold'
    BY <1>3 DEF ReadsHold, ScreeningInv
  <1>5. QED
    BY <1>1, <1>2, <1>4, RowsKept DEF RowsHold, ScreeningInv

LEMMA ScreeningInit == InitS => ScreeningInv
  <1> SUFFICES ASSUME InitS PROVE ScreeningInv
    OBVIOUS
  <1>1. /\ today = 1 /\ status = [u \in Users |-> "registered"]
        /\ DOMAIN credentials = {} /\ DOMAIN checks = {}
        /\ credentials = [c \in {} |-> Idle] /\ opens = [c \in {} |-> {}]
        /\ checks = [k \in {} |-> Idle] /\ req = [s \in Sessions |-> Idle]
    BY DEF InitS
  <1>2. TypeOKS
    BY <1>1, ScreeningIdle, VerificationAssumption DEF TypeOKS, Days, Standing
  <1>3. /\ CheckedAfterCooling /\ CoolingEarned /\ CriminalAfterClearance
        /\ PassesRemembered /\ OpensFinite
    BY <1>1 DEF CheckedAfterCooling, CoolingEarned, CriminalAfterClearance,
                PassesRemembered, OpensFinite
  <1>4. NumbersFree /\ ReadsHold
    BY <1>1, ScreeningIdle DEF NumbersFree, Numbering, ReadsHold
  <1>5. PendingUnique
    BY <1>1 DEF PendingUnique, Pending, ChecksOf
  <1>6. QED
    BY <1>2, <1>3, <1>4, <1>5 DEF ScreeningInv

LEMMA ScreeningStep == ScreeningInv /\ [NextS]_screeningVars => ScreeningInv'
  <1> SUFFICES ASSUME ScreeningInv, [NextS]_screeningVars PROVE ScreeningInv'
    OBVIOUS
  <1>1. today \in Days /\ status \in [Users -> Standing]
    BY ScreeningTypes DEF TypeOKS
  <1>2. ASSUME NEW s \in Sessions, HandlerS(s) PROVE ScreeningInv'
    BY <1>2, VerifyReadStep, VerifyCommitStep, OpenReadStep, OpenCommitStep, CheckReadStep,
       CheckCommitStep, DropSStep DEF HandlerS
  <1>3. ASSUME NextDayS PROVE ScreeningInv'
    <2>1. today' \in Days
      BY <1>1, <1>3, VerificationAssumption DEF NextDayS, Days
    <2>2. QED
      BY <1>1, <1>3, <2>1, StandingStep DEF NextDayS
  <1>4. ASSUME NEW u \in Users, NEW st \in Standing, StatusMovesS(u, st) PROVE ScreeningInv'
    BY <1>1, <1>4, StandingStep DEF StatusMovesS
  <1>5. CASE UNCHANGED screeningVars
    BY <1>1, <1>5, StandingStep DEF screeningVars
  <1>6. QED
    BY <1>2, <1>3, <1>4, <1>5, CheckWebhookStep DEF NextS, Webhook

LEMMA ScreeningInvariance == SpecS => []ScreeningInv
  BY ScreeningInit, ScreeningStep, PTL DEF SpecS

\* A set with no two elements has at most one.
LEMMA AtMostOne ==
    ASSUME NEW S, \A j, k \in S : j = k
    PROVE  Cardinality(S) <= 1
  <1>1. CASE S = {}
    BY <1>1, FS_EmptySet
  <1>2. CASE S # {}
    <2>1. PICK k \in S : S = {k}
      BY <1>2
    <2>2. QED
      BY <2>1, FS_Singleton
  <1>3. QED
    BY <1>1, <1>2

LEMMA SoundFromInv == ScreeningInv => ChecksAreSound
  BY AtMostOne DEF ScreeningInv, PendingUnique, ChecksAreSound, OnePendingPerType

\* background_checks never holds two pending checks of a type for a user, nor a check
\* for a credential that is not its user's or has not cooled, whatever initiations
\* overlapped and whatever statuses the providers delivered, "pending" over an older
\* result included.
THEOREM ChecksAlwaysSound == SpecS => []ChecksAreSound
  BY ScreeningInvariance, SoundFromInv, PTL

\* No number of overlapping app opens completes a cooling period early.
THEOREM CoolingAlwaysEarned == SpecS => []CoolingEarned
  BY ScreeningInvariance, PTL DEF ScreeningInv

\* A criminal check exists only for a user who once passed both screenings, although
\* initiate_check reads them a transaction before it inserts and they may be revised.
THEOREM CriminalAlwaysAfterClearance == SpecS => []CriminalAfterClearance
  BY ScreeningInvariance, PTL DEF ScreeningInv
=============================================================================
