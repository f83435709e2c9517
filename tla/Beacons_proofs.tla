---------------------------- MODULE Beacons_proofs ----------------------------
(***************************************************************************)
(* For any holders, businesses, beacons and handlers: the cap a holder can *)
(* exceed, what suspends a business and what can be missed, and that the   *)
(* log of a beacon's UUIDs holds keys of their day.                        *)
(***************************************************************************)
EXTENDS Beacons, FiniteSetTheorems, TLAPS

-----------------------------------------------------------------------------
(* Handlers and what they hold                                             *)

LEMMA IdleFacts == Idle \in BeaconRequest /\ Idle.op = "idle"
  BY DEF BeaconRequest, BusinessRequest, Idle

LEMMA Constants ==
    /\ Cap \in Nat \ {0} /\ FailLimit \in Nat \ {0} /\ Window \in Nat \ {0} /\ MaxDay \in Nat
    /\ IsFiniteSet(Sessions) /\ IsFiniteSet(BusinessIds) /\ IsFiniteSet(FailureIds)
    /\ Cardinality(Sessions) \in Nat
  BY BusinessesAssumption, FS_CardinalityType

\* What a request that is not idle holds.
LEMMA RequestFields ==
    ASSUME TypeOK, NEW s \in Sessions
    PROVE  /\ req[s] \in BeaconRequest
           /\ req[s].op = "register" => req[s].holder \in Holders
           /\ req[s].op \in {"fail", "install"} => req[s].business \in BusinessIds
           /\ req[s].op = "fail" => req[s].prior \in Nat
           /\ req[s].op \in {"rotate", "uuid"} => req[s].beacon \in BeaconIds /\ req[s].key \in Keys
  BY DEF TypeOK, BeaconRequest, BusinessRequest, Idle

LEMMA HandlerSets ==
    ASSUME NEW u, NEW b
    PROVE  /\ IsFiniteSet(Registering(u)) /\ IsFiniteSet(Missing(b))
           /\ Cardinality(Registering(u)) \in Nat /\ Cardinality(Missing(b)) \in Nat
           /\ Cardinality(Registering(u)) <= Cardinality(Sessions)
           /\ Cardinality(Missing(b)) <= Cardinality(Sessions)
  <1>1. Registering(u) \subseteq Sessions /\ Missing(b) \subseteq Sessions
    BY DEF Registering, Missing
  <1>2. QED
    BY <1>1, Constants, FS_Subset, FS_CardinalityType

LEMMA RowSets ==
    ASSUME BusinessRowsOK, NEW u, NEW b
    PROVE  /\ IsFiniteSet(HeldBy(u)) /\ Cardinality(HeldBy(u)) \in Nat
           /\ IsFiniteSet(FailuresOf(b)) /\ Cardinality(FailuresOf(b)) \in Nat
           /\ IsFiniteSet(RecentFailures(b)) /\ Cardinality(RecentFailures(b)) \in Nat
  <1>1. /\ HeldBy(u) \subseteq BusinessIds /\ FailuresOf(b) \subseteq FailureIds
        /\ RecentFailures(b) \subseteq FailuresOf(b)
    BY DEF BusinessRowsOK, HeldBy, FailuresOf, RecentFailures
  <1>2. QED
    BY <1>1, Constants, FS_Subset, FS_CardinalityType

-----------------------------------------------------------------------------
(* The initial state                                                       *)

LEMMA InitIInv == Init => IInv
  <1> SUFFICES ASSUME Init PROVE IInv
    OBVIOUS
  <1>1. BusinessRowsOK
    BY Constants DEF Init, InitB, BusinessRowsOK, Days, Standing
  <1>2. TypeOK
    BY <1>1, IdleFacts DEF Init, InitB, TypeOK
  <1>3. LoggedWasCurrent /\ KeysWitnessed
    BY <1>2, IdleFacts DEF Init, InitB, LoggedWasCurrent, KeysWitnessed
  <1>4. FailuresRefer /\ PriorIsPast /\ SuspendedForCause /\ MissedByRacers
    BY IdleFacts DEF Init, InitB, FailuresRefer, PriorIsPast, SuspendedForCause, MissedByRacers
  <1>5. CapCounted
    <2>1. \A u : HeldBy(u) = {} /\ Registering(u) = {}
      BY IdleFacts DEF Init, InitB, HeldBy, Registering
    <2>2. Cardinality({}) = 0
      BY FS_EmptySet
    <2>3. \A u \in Holders :
             Cardinality(HeldBy(u)) + Cardinality(Registering(u)) <= Cap - 1 + Cardinality(Sessions)
      BY <2>1, <2>2, Constants
    <2>4. QED
      BY <2>3 DEF CapCounted
  <1>6. QED
    BY <1>3, <1>4, <1>5 DEF IInv, IInvB

-----------------------------------------------------------------------------
(* Steps that touch one half                                               *)

\* A handler's request is replaced by one that registers nothing.
LEMMA CapFrame ==
    ASSUME IInvB, TypeOK, NEW s \in Sessions, NEW r, r.op # "register",
           req' = [req EXCEPT ![s] = r],
           \A u \in Holders : HeldBy(u)' = HeldBy(u)
    PROVE  CapCounted'
  <1>1. ASSUME NEW u \in Holders
        PROVE  Cardinality(HeldBy(u)') + Cardinality(Registering(u)')
                   <= Cap - 1 + Cardinality(Sessions)
    <2>1. Registering(u)' \subseteq Registering(u)
      BY DEF TypeOK, Registering
    <2>2. /\ Cardinality(Registering(u)') <= Cardinality(Registering(u))
          /\ Cardinality(Registering(u)') \in Nat
      BY <2>1, HandlerSets, FS_Subset, FS_CardinalityType
    <2>3. /\ Cardinality(HeldBy(u)) + Cardinality(Registering(u))
                 <= Cap - 1 + Cardinality(Sessions)
          /\ Cardinality(HeldBy(u)) \in Nat
      BY RowSets DEF IInvB, CapCounted, TypeOK
    <2>4. QED
      BY <2>2, <2>3, HandlerSets, Constants
  <1>2. QED
    BY <1>1 DEF CapCounted

\* What is known of failures and their suspensions.
FailuresHold == FailuresRefer /\ PriorIsPast /\ SuspendedForCause /\ MissedByRacers

\* A handler's request is replaced by one that fails nothing.
LEMMA FailFrame ==
    ASSUME IInvB, TypeOK, NEW s \in Sessions, NEW r, r.op # "fail",
           req' = [req EXCEPT ![s] = r], UNCHANGED <<today, businesses, failures>>
    PROVE  FailuresHold'
  <1>1. FailuresRefer' /\ PriorIsPast' /\ SuspendedForCause'
    <2>1. \A b : FailuresOf(b)' = FailuresOf(b) /\ RecentFailures(b)' = RecentFailures(b)
      BY DEF RecentFailures, FailuresOf
    <2>2. FailuresRefer'
      BY DEF TypeOK, IInvB, FailuresRefer
    <2>3. PriorIsPast'
      BY <2>1 DEF TypeOK, IInvB, PriorIsPast
    <2>4. SuspendedForCause'
      BY <2>1 DEF IInvB, SuspendedForCause
    <2>5. QED
      BY <2>2, <2>3, <2>4
  <1>2. ASSUME NEW b \in DOMAIN businesses, businesses[b].suspended = "no"
        PROVE  Cardinality(RecentFailures(b)') + Cardinality(Missing(b)')
                   <= FailLimit - 2 + Cardinality(Sessions)
    <2>1. /\ Cardinality(RecentFailures(b)') = Cardinality(RecentFailures(b))
          /\ Missing(b)' \subseteq Missing(b)
      BY DEF RecentFailures, FailuresOf, Missing, TypeOK
    <2>2. /\ Cardinality(Missing(b)') <= Cardinality(Missing(b))
          /\ Cardinality(Missing(b)') \in Nat
      BY <2>1, HandlerSets, FS_Subset, FS_CardinalityType
    <2>3. /\ Cardinality(RecentFailures(b)) + Cardinality(Missing(b))
                 <= FailLimit - 2 + Cardinality(Sessions)
          /\ Cardinality(RecentFailures(b)) \in Nat
      BY <1>2, RowSets DEF IInvB, MissedByRacers, TypeOK
    <2>4. /\ Cardinality(Missing(b)) \in Nat /\ Cardinality(Sessions) \in Nat
          /\ FailLimit \in Nat
      BY HandlerSets, Constants
    <2>5. QED
      BY <2>1, <2>2, <2>3, <2>4
  <1>3. QED
    BY <1>1, <1>2 DEF FailuresHold, MissedByRacers

\* A handler replaces its request by one that registers and fails nothing.
QuietB(s, r) ==
    /\ r.op \notin {"register", "fail"}
    /\ req' = [req EXCEPT ![s] = r]
    /\ UNCHANGED <<today, businesses, failures>>

LEMMA QuietBStep ==
    ASSUME IInvB, TypeOK, NEW s \in Sessions, NEW r, QuietB(s, r)
    PROVE  IInvB'
  <1>1. \A u \in Holders : HeldBy(u)' = HeldBy(u)
    BY DEF QuietB, HeldBy
  <1>2. CapCounted' /\ FailuresHold'
    BY <1>1, CapFrame, FailFrame DEF QuietB
  <1>3. QED
    BY <1>2 DEF IInvB, FailuresHold

\* A handler replaces its request by one that holds no key.
QuietK(s, r) ==
    /\ r.op \notin {"rotate", "uuid"}
    /\ req' = [req EXCEPT ![s] = r]
    /\ UNCHANGED <<today, beacons, log, current>>

LEMMA QuietKStep ==
    ASSUME IInv, TypeOK', NEW s \in Sessions, NEW r, QuietK(s, r)
    PROVE  LoggedWasCurrent' /\ KeysWitnessed'
  <1>1. req' = [req EXCEPT ![s] = r] /\ req \in [Sessions -> BeaconRequest]
    BY DEF QuietK, IInv, LoggedWasCurrent, TypeOK
  <1>2. QED
    BY <1>1 DEF QuietK, IInv, LoggedWasCurrent, KeysWitnessed

-----------------------------------------------------------------------------
(* Registration                                                            *)

LEMMA RegisterReadStep ==
    ASSUME IInvB, TypeOK, NEW s \in Sessions, NEW u \in Holders, RegisterRead(s, u)
    PROVE  IInvB'
  <1> DEFINE r == [op |-> "register", holder |-> u]
  <1>1. req' = [req EXCEPT ![s] = r] /\ UNCHANGED <<today, businesses, failures>>
    BY DEF RegisterRead, Start
  <1>2. FailuresHold'
    BY <1>1, FailFrame
  <1>3. ASSUME NEW v \in Holders
        PROVE  Cardinality(HeldBy(v)') + Cardinality(Registering(v)')
                   <= Cap - 1 + Cardinality(Sessions)
    <2>1. HeldBy(v)' = HeldBy(v) /\ Cardinality(HeldBy(v)) \in Nat
      BY <1>1, RowSets DEF HeldBy, TypeOK
    <2>2. CASE v = u
      <3>1. Cardinality(HeldBy(v)) < Cap
        BY <2>2 DEF RegisterRead, BelowCap
      <3>2. Registering(v)' \subseteq Sessions
        BY DEF Registering
      <3>3. /\ Cardinality(Registering(v)') <= Cardinality(Sessions)
            /\ Cardinality(Registering(v)') \in Nat
        BY <3>2, Constants, FS_Subset, FS_CardinalityType
      <3>4. QED
        BY <2>1, <3>1, <3>3, Constants
    <2>3. CASE v # u
      <3>1. Registering(v)' \subseteq Registering(v)
        BY <1>1, <2>3 DEF Registering, TypeOK
      <3>2. /\ Cardinality(Registering(v)') <= Cardinality(Registering(v))
            /\ Cardinality(Registering(v)') \in Nat
        BY <3>1, HandlerSets, FS_Subset, FS_CardinalityType
      <3>3. Cardinality(HeldBy(v)) + Cardinality(Registering(v))
                <= Cap - 1 + Cardinality(Sessions)
        BY DEF IInvB, CapCounted
      <3>4. QED
        BY <2>1, <3>2, <3>3, HandlerSets, Constants
    <2>4. QED
      BY <2>2, <2>3
  <1>4. QED
    BY <1>2, <1>3 DEF IInvB, FailuresHold, CapCounted

\* The new business takes the place of its handler, and has not failed yet.
LEMMA RegisterCommitStep ==
    ASSUME IInvB, TypeOK, NEW s \in Sessions, NEW b \in BusinessIds, RegisterCommit(s, b)
    PROVE  IInvB'
  <1>1. /\ req[s].op = "register" /\ req[s].holder \in Holders
        /\ req' = [req EXCEPT ![s] = Idle] /\ UNCHANGED <<today, failures>>
        /\ b \notin DOMAIN businesses /\ DOMAIN businesses' = DOMAIN businesses \cup {b}
        /\ businesses'[b] = [holder |-> req[s].holder, suspended |-> "no"]
        /\ \A c \in DOMAIN businesses : businesses'[c] = businesses[c]
    BY RequestFields DEF RegisterCommit, End, NewBusiness
  <1>2. ASSUME NEW v \in Holders
        PROVE  Cardinality(HeldBy(v)') + Cardinality(Registering(v)')
                   <= Cap - 1 + Cardinality(Sessions)
    <2>1. /\ Cardinality(HeldBy(v)) + Cardinality(Registering(v))
                  <= Cap - 1 + Cardinality(Sessions)
          /\ IsFiniteSet(HeldBy(v)) /\ Cardinality(HeldBy(v)) \in Nat
      BY RowSets DEF IInvB, CapCounted, TypeOK
    <2>2. CASE v = req[s].holder
      <3>1. HeldBy(v)' = HeldBy(v) \cup {b} /\ b \notin HeldBy(v)
        BY <1>1, <2>2 DEF HeldBy
      <3>2. Registering(v)' = Registering(v) \ {s} /\ s \in Registering(v)
        BY <1>1, <2>2, IdleFacts DEF Registering, TypeOK
      <3>3. /\ Cardinality(HeldBy(v)') = Cardinality(HeldBy(v)) + 1
            /\ Cardinality(Registering(v)') = Cardinality(Registering(v)) - 1
        <4>1. Cardinality(HeldBy(v) \cup {b}) = Cardinality(HeldBy(v)) + 1
          BY <2>1, <3>1, FS_AddElement
        <4>2. Cardinality(Registering(v) \ {s}) = Cardinality(Registering(v)) - 1
          BY <3>2, HandlerSets, FS_RemoveElement
        <4>3. QED
          BY <3>1, <3>2, <4>1, <4>2
      <3>4. QED
        BY <2>1, <3>3, HandlerSets, Constants
    <2>3. CASE v # req[s].holder
      <3>1. HeldBy(v)' = HeldBy(v) /\ Registering(v)' = Registering(v)
        BY <1>1, <2>3, IdleFacts DEF HeldBy, Registering, TypeOK
      <3>2. QED
        BY <2>1, <3>1
    <2>4. QED
      BY <2>2, <2>3
  <1>3. \A c : FailuresOf(c)' = FailuresOf(c) /\ RecentFailures(c)' = RecentFailures(c)
    BY <1>1 DEF FailuresOf, RecentFailures
  <1>4. FailuresRefer' /\ PriorIsPast'
    BY <1>1, <1>3, IdleFacts DEF IInvB, FailuresRefer, PriorIsPast, TypeOK
  <1>5. SuspendedForCause'
    BY <1>1, <1>3 DEF IInvB, SuspendedForCause
  <1>6. ASSUME NEW c \in DOMAIN businesses', businesses'[c].suspended = "no"
        PROVE  Cardinality(RecentFailures(c)') + Cardinality(Missing(c)')
                   <= FailLimit - 2 + Cardinality(Sessions)
    <2>1. Missing(c)' = Missing(c)
      BY <1>1, IdleFacts DEF Missing, TypeOK
    <2>2. CASE c = b
      <3>1. RecentFailures(c) = {}
        BY <1>1, <2>2 DEF IInvB, FailuresRefer, RecentFailures, FailuresOf
      <3>2. /\ IsFiniteSet(Sessions \ {s})
            /\ Cardinality(Sessions \ {s}) = Cardinality(Sessions) - 1
        BY Constants, FS_RemoveElement
      <3>3. Cardinality(Sessions) - 1 \in Nat
        BY <3>2, FS_CardinalityType
      <3>4. Cardinality(Missing(c)) = 0
        <4>1. Missing(c) = {}
          BY <1>1, <2>2 DEF Missing, IInvB, FailuresRefer
        <4>2. QED
          BY <4>1, FS_EmptySet
      <3>5. Cardinality(RecentFailures(c)) = 0
        BY <3>1, FS_EmptySet
      <3>6. QED
        BY <1>3, <2>1, <3>3, <3>4, <3>5, Constants
    <2>3. CASE c # b
      BY <1>1, <1>3, <1>6, <2>1, <2>3 DEF IInvB, MissedByRacers
    <2>4. QED
      BY <2>2, <2>3
  <1>7. QED
    BY <1>2, <1>4, <1>5, <1>6 DEF IInvB, CapCounted, MissedByRacers

-----------------------------------------------------------------------------
(* Failed assessments                                                      *)

LEMMA FailReadStep ==
    ASSUME IInvB, TypeOK, NEW s \in Sessions, NEW b \in BusinessIds, FailRead(s, b)
    PROVE  IInvB'
  <1>1. PICK r : /\ r = [op |-> "fail", business |-> b,
                         prior |-> Cardinality(RecentFailures(b))]
                 /\ req' = [req EXCEPT ![s] = r]
    BY DEF FailRead, Start
  <1>2. UNCHANGED <<today, businesses, failures>> /\ b \in DOMAIN businesses
    BY DEF FailRead
  <1>3. \A c : /\ FailuresOf(c)' = FailuresOf(c)
               /\ RecentFailures(c)' = RecentFailures(c)
    BY <1>2 DEF FailuresOf, RecentFailures
  <1>4. CapCounted'
    <2>1. \A u \in Holders : HeldBy(u)' = HeldBy(u)
      BY <1>2 DEF HeldBy
    <2>2. r.op # "register"
      BY <1>1
    <2>3. QED
      BY <1>1, <2>1, <2>2, CapFrame
  <1>5. FailuresRefer'
    BY <1>1, <1>2 DEF IInvB, FailuresRefer, TypeOK
  <1>6. PriorIsPast'
    <2>1. Cardinality(RecentFailures(b)) \in Nat
      BY RowSets DEF TypeOK
    <2>2. ASSUME NEW x \in Sessions, NEW c \in DOMAIN businesses,
                 req'[x].op = "fail", req'[x].business = c
          PROVE  req'[x].prior <= Cardinality(RecentFailures(c)')
      <3>1. CASE x = s
        BY <1>1, <1>3, <2>1, <2>2, <3>1 DEF TypeOK
      <3>2. CASE x # s
        BY <1>1, <1>3, <2>2, <3>2 DEF TypeOK, IInvB, PriorIsPast
      <3>3. QED
        BY <3>1, <3>2
    <2>3. QED
      BY <1>2, <2>2 DEF PriorIsPast
  <1>7. SuspendedForCause'
    BY <1>2, <1>3 DEF IInvB, SuspendedForCause
  <1>8. ASSUME NEW c \in DOMAIN businesses, businesses[c].suspended = "no"
        PROVE  Cardinality(RecentFailures(c)') + Cardinality(Missing(c)')
                   <= FailLimit - 2 + Cardinality(Sessions)
    <2>1. /\ Cardinality(RecentFailures(c)) \in Nat
          /\ Cardinality(RecentFailures(c)) + Cardinality(Missing(c))
                  <= FailLimit - 2 + Cardinality(Sessions)
      BY <1>8, RowSets DEF IInvB, MissedByRacers, TypeOK
    <2>2. /\ Cardinality(Missing(c)) \in Nat /\ Cardinality(Sessions) \in Nat
          /\ FailLimit \in Nat
      BY HandlerSets, Constants
    <2>3. CASE c = b /\ Cardinality(RecentFailures(c)) + 1 < FailLimit
      <3>1. Missing(c)' \subseteq Sessions
        BY DEF Missing
      <3>2. /\ Cardinality(Missing(c)') <= Cardinality(Sessions)
            /\ Cardinality(Missing(c)') \in Nat
        BY <3>1, Constants, FS_Subset, FS_CardinalityType
      <3>3. QED
        BY <1>3, <2>1, <2>2, <2>3, <3>2
    <2>4. CASE ~(c = b /\ Cardinality(RecentFailures(c)) + 1 < FailLimit)
      <3>1. Missing(c)' \subseteq Missing(c)
        BY <1>1, <2>4 DEF Missing, TypeOK
      <3>2. /\ Cardinality(Missing(c)') <= Cardinality(Missing(c))
            /\ Cardinality(Missing(c)') \in Nat
        BY <3>1, HandlerSets, FS_Subset, FS_CardinalityType
      <3>3. QED
        BY <1>3, <2>1, <2>2, <3>2
    <2>5. QED
      BY <2>3, <2>4
  <1>9. MissedByRacers'
    BY <1>2, <1>8 DEF MissedByRacers
  <1>10. QED
    BY <1>4, <1>5, <1>6, <1>7, <1>9 DEF IInvB

\* What a commit of a failure changes.
LEMMA FailCommitFacts ==
    ASSUME IInvB, TypeOK, NEW s \in Sessions, NEW f \in FailureIds, FailCommit(s, f)
    PROVE  /\ req[s].op = "fail" /\ req[s].business \in DOMAIN businesses /\ req[s].prior \in Nat
           /\ req' = [req EXCEPT ![s] = Idle] /\ today' = today /\ today \in Nat
           /\ f \notin DOMAIN failures /\ DOMAIN failures' = DOMAIN failures \cup {f}
           /\ failures'[f] = [business |-> req[s].business, day |-> today]
           /\ \A g \in DOMAIN failures : failures'[g] = failures[g]
           /\ DOMAIN businesses' = DOMAIN businesses
           /\ \A c \in DOMAIN businesses :
                 /\ businesses'[c].holder = businesses[c].holder
                 /\ businesses'[c].suspended =
                       IF c = req[s].business /\ req[s].prior + 1 >= FailLimit THEN "yes"
                       ELSE businesses[c].suspended
  <1>1. req[s].op = "fail" /\ req[s].business \in DOMAIN businesses /\ req[s].prior \in Nat
    BY RequestFields DEF FailCommit, IInvB, FailuresRefer
  <1>2. today \in Nat
    BY Constants DEF TypeOK, BusinessRowsOK, Days
  <1>3. /\ f \notin DOMAIN failures /\ DOMAIN failures' = DOMAIN failures \cup {f}
        /\ failures'[f] = [business |-> req[s].business, day |-> today]
        /\ \A g \in DOMAIN failures : failures'[g] = failures[g]
    BY DEF FailCommit
  <1>4. /\ DOMAIN businesses' = DOMAIN businesses
        /\ \A c \in DOMAIN businesses :
              /\ businesses'[c].holder = businesses[c].holder
              /\ businesses'[c].suspended =
                    IF c = req[s].business /\ req[s].prior + 1 >= FailLimit THEN "yes"
                    ELSE businesses[c].suspended
    BY <1>1 DEF FailCommit, Suspended, TypeOK, BusinessRowsOK, Business
  <1>5. QED
    BY <1>1, <1>2, <1>3, <1>4 DEF FailCommit, End

\* The failure takes the place of its handler, if its count was too low to suspend.
LEMMA FailCommitStep ==
    ASSUME IInvB, TypeOK, NEW s \in Sessions, NEW f \in FailureIds, FailCommit(s, f)
    PROVE  IInvB'
  <1>a. /\ req[s].op = "fail" /\ req[s].business \in DOMAIN businesses /\ req[s].prior \in Nat
        /\ req' = [req EXCEPT ![s] = Idle] /\ today' = today /\ today \in Nat
    BY FailCommitFacts
  <1>b. /\ f \notin DOMAIN failures /\ DOMAIN failures' = DOMAIN failures \cup {f}
        /\ failures'[f] = [business |-> req[s].business, day |-> today]
        /\ \A g \in DOMAIN failures : failures'[g] = failures[g]
    BY FailCommitFacts
  <1>c. /\ DOMAIN businesses' = DOMAIN businesses
        /\ \A c \in DOMAIN businesses :
              /\ businesses'[c].holder = businesses[c].holder
              /\ businesses'[c].suspended =
                    IF c = req[s].business /\ req[s].prior + 1 >= FailLimit THEN "yes"
                    ELSE businesses[c].suspended
    BY FailCommitFacts
  <1>1. PICK b \in DOMAIN businesses : b = req[s].business
    BY <1>a, <1>b, <1>c
  <1>2. FailuresOf(b)' = FailuresOf(b) \cup {f} /\ f \notin FailuresOf(b)
    BY <1>1, <1>a, <1>b, <1>c DEF FailuresOf
  <1>3. RecentFailures(b)' = RecentFailures(b) \cup {f} /\ f \notin RecentFailures(b)
    BY <1>1, <1>a, <1>b, <1>c, Constants DEF RecentFailures, FailuresOf
  <1>4. \A c : c # b => /\ FailuresOf(c)' = FailuresOf(c)
                        /\ RecentFailures(c)' = RecentFailures(c)
    BY <1>1, <1>a, <1>b, <1>c DEF RecentFailures, FailuresOf
  <1>5. /\ IsFiniteSet(RecentFailures(b)) /\ Cardinality(RecentFailures(b)) \in Nat
        /\ Cardinality(RecentFailures(b)') = Cardinality(RecentFailures(b)) + 1
    BY <1>3, RowSets, FS_AddElement DEF TypeOK
  <1>6. CapCounted'
    <2>1. \A u \in Holders : HeldBy(u)' = HeldBy(u)
      BY <1>a, <1>b, <1>c DEF HeldBy
    <2>2. req' = [req EXCEPT ![s] = Idle]
      BY <1>a, <1>b, <1>c
    <2>3. QED
      BY <2>1, <2>2, IdleFacts, CapFrame
  <1>7. FailuresRefer'
    <2>1. \A g \in DOMAIN failures' :
             failures'[g].business \in DOMAIN businesses' /\ failures'[g].day <= today'
      BY <1>a, <1>b, <1>c DEF IInvB, FailuresRefer
    <2>2. \A x \in Sessions : req'[x].op = "fail" => req'[x].business \in DOMAIN businesses'
      BY <1>a, <1>b, <1>c, IdleFacts DEF IInvB, FailuresRefer, TypeOK
    <2>3. QED
      BY <2>1, <2>2 DEF FailuresRefer
  <1>8. PriorIsPast'
    <2>1. ASSUME NEW x \in Sessions, NEW c \in DOMAIN businesses,
                 req'[x].op = "fail", req'[x].business = c
          PROVE  req'[x].prior <= Cardinality(RecentFailures(c)')
      <3>1. /\ req'[x] = req[x] /\ req[x].prior \in Nat
            /\ req[x].prior <= Cardinality(RecentFailures(c))
        BY <2>1, <1>a, IdleFacts, RequestFields DEF IInvB, PriorIsPast, TypeOK
      <3>2. CASE c = b
        BY <1>5, <3>1, <3>2
      <3>3. CASE c # b
        BY <1>4, <3>1, <3>3
      <3>4. QED
        BY <3>2, <3>3
    <2>2. QED
      BY <1>c, <2>1 DEF PriorIsPast
  <1>9. SuspendedForCause'
    <2> DEFINE Within(c, d) == {g \in FailuresOf(c) : failures[g].day <= d
                                                     /\ d < failures[g].day + Window}
    <2>1. ASSUME NEW c \in DOMAIN businesses, businesses'[c].suspended = "yes"
          PROVE  \E d \in Days : Cardinality(Within(c, d)') >= FailLimit
      <3>1. CASE businesses[c].suspended = "yes"
        <4>1. PICK d \in Days : Cardinality(Within(c, d)) >= FailLimit
          BY <3>1 DEF IInvB, SuspendedForCause
        <4>2. /\ Within(c, d) \subseteq Within(c, d)' /\ Within(c, d)' \subseteq FailureIds
              /\ Within(c, d) \subseteq FailureIds
          BY <1>2, <1>4, <1>a, <1>b, <1>c DEF FailuresOf, TypeOK, BusinessRowsOK
        <4>3. /\ Cardinality(Within(c, d)) <= Cardinality(Within(c, d)')
              /\ Cardinality(Within(c, d)') \in Nat /\ Cardinality(Within(c, d)) \in Nat
          BY <4>2, Constants, FS_Subset, FS_CardinalityType
        <4>4. Cardinality(Within(c, d)') >= FailLimit
          BY <4>1, <4>3, Constants
        <4>5. QED
          BY <4>4
      <3>2. CASE businesses[c].suspended # "yes"
        <4>1. c = b /\ req[s].prior + 1 >= FailLimit
          BY <1>1, <2>1, <3>2, <1>a, <1>b, <1>c
        <4>2. today \in Days
          BY DEF TypeOK, BusinessRowsOK
        <4>3. \A g \in DOMAIN failures' : failures'[g].day <= today
          BY <1>a, <1>b, <1>c DEF IInvB, FailuresRefer
        <4>4. Within(b, today)' = RecentFailures(b)'
          BY <4>3, <1>a, <1>b, <1>c DEF RecentFailures, FailuresOf
        <4>5. req[s].prior <= Cardinality(RecentFailures(b)) /\ req[s].prior \in Nat
          BY <1>1, <1>a, <1>b, <1>c DEF IInvB, PriorIsPast
        <4>6. Cardinality(Within(b, today)') >= FailLimit
          BY <1>5, <4>1, <4>4, <4>5, Constants
        <4>7. today' = today
          BY <1>a, <1>b, <1>c
        <4>8. QED
          BY <4>1, <4>2, <4>6, <4>7
      <3>3. QED
        BY <3>1, <3>2
    <2>2. QED
      BY <2>1, <1>a, <1>b, <1>c DEF SuspendedForCause
  <1>10. ASSUME NEW c \in DOMAIN businesses, businesses'[c].suspended = "no"
         PROVE  Cardinality(RecentFailures(c)') + Cardinality(Missing(c)')
                    <= FailLimit - 2 + Cardinality(Sessions)
    <2>1. businesses[c].suspended = "no" /\ ~(c = b /\ req[s].prior + 1 >= FailLimit)
      BY <1>1, <1>10, <1>a, <1>b, <1>c
    <2>2. /\ Cardinality(RecentFailures(c)) + Cardinality(Missing(c))
                  <= FailLimit - 2 + Cardinality(Sessions)
      BY <2>1 DEF IInvB, MissedByRacers
    <2>3. /\ IsFiniteSet(Missing(c)) /\ Cardinality(Missing(c)) \in Nat
          /\ Cardinality(Sessions) \in Nat /\ FailLimit \in Nat
      BY HandlerSets, Constants
    <2>4. CASE c = b
      <3>1. s \in Missing(b) /\ Missing(b)' = Missing(b) \ {s}
        BY <1>1, <2>1, <2>4, <1>a, <1>b, <1>c, IdleFacts, Constants DEF Missing, TypeOK
      <3>2. Cardinality(Missing(b) \ {s}) = Cardinality(Missing(b)) - 1
        BY <2>3, <2>4, <3>1, FS_RemoveElement
      <3>3. QED
        BY <1>5, <2>2, <2>3, <2>4, <3>1, <3>2
    <2>5. CASE c # b
      <3>1. Missing(c)' = Missing(c)
        BY <1>1, <2>5, <1>a, <1>b, <1>c, IdleFacts DEF Missing, TypeOK
      <3>2. QED
        BY <1>4, <2>2, <2>5, <3>1
    <2>6. QED
      BY <2>4, <2>5
  <1>11. MissedByRacers'
    BY <1>10, <1>a, <1>b, <1>c DEF MissedByRacers
  <1>12. QED
    BY <1>6, <1>7, <1>8, <1>9, <1>11 DEF IInvB

-----------------------------------------------------------------------------
(* Around the handlers                                                     *)

LEMMA StutterB ==
    ASSUME IInvB, UNCHANGED <<today, businesses, failures, req>>
    PROVE  IInvB'
  BY DEF IInvB, CapCounted, FailuresRefer, PriorIsPast, SuspendedForCause, MissedByRacers,
         HeldBy, Registering, RecentFailures, FailuresOf, Missing

\* At midnight failures lapse, and no handler holds a count.
LEMMA NextDayStep ==
    ASSUME IInvB, TypeOK, NextDay
    PROVE  IInvB'
  <1>1. /\ today \in Nat /\ today' = today + 1 /\ UNCHANGED <<businesses, failures, req>>
        /\ \A s \in Sessions : req[s] = Idle
    BY Constants DEF NextDay, TypeOK, BusinessRowsOK, Days
  <1>2. /\ \A u : HeldBy(u)' = HeldBy(u) /\ Registering(u)' = Registering(u)
        /\ \A b : FailuresOf(b)' = FailuresOf(b) /\ Missing(b)' = Missing(b)
    BY <1>1 DEF HeldBy, Registering, FailuresOf, Missing
  <1>3. \A g \in DOMAIN failures : failures[g].day \in Nat
    BY Constants DEF TypeOK, BusinessRowsOK, Failure, Days
  <1>4. CapCounted'
    BY <1>2 DEF IInvB, CapCounted
  <1>5. FailuresRefer' /\ PriorIsPast'
    BY <1>1, <1>3, IdleFacts DEF IInvB, FailuresRefer, PriorIsPast
  <1>6. SuspendedForCause'
    BY <1>1, <1>2 DEF IInvB, SuspendedForCause
  <1>7. ASSUME NEW b \in DOMAIN businesses, businesses[b].suspended = "no"
        PROVE  Cardinality(RecentFailures(b)') + Cardinality(Missing(b)')
                   <= FailLimit - 2 + Cardinality(Sessions)
    <2>1. RecentFailures(b)' \subseteq RecentFailures(b)
      BY <1>1, <1>3, Constants DEF RecentFailures, FailuresOf
    <2>2. /\ Cardinality(RecentFailures(b)') <= Cardinality(RecentFailures(b))
          /\ Cardinality(RecentFailures(b)') \in Nat /\ Cardinality(RecentFailures(b)) \in Nat
      BY <2>1, RowSets, FS_Subset, FS_CardinalityType DEF TypeOK
    <2>3. Cardinality(RecentFailures(b)) + Cardinality(Missing(b))
              <= FailLimit - 2 + Cardinality(Sessions)
      BY <1>7 DEF IInvB, MissedByRacers
    <2>4. /\ Cardinality(Missing(b)) \in Nat /\ Cardinality(Sessions) \in Nat
          /\ FailLimit \in Nat /\ Cardinality(Missing(b)') = Cardinality(Missing(b))
      BY <1>2, HandlerSets, Constants
    <2>5. QED
      BY <2>2, <2>3, <2>4
  <1>8. MissedByRacers'
    BY <1>1, <1>7 DEF MissedByRacers
  <1>9. QED
    BY <1>4, <1>5, <1>6, <1>8 DEF IInvB

-----------------------------------------------------------------------------
(* Types                                                                   *)

\* The rows of beacons and their log.
BeaconRowsOK ==
    /\ DOMAIN beacons \subseteq BeaconIds
    /\ beacons \in [DOMAIN beacons -> Beacon]
    /\ DOMAIN log \subseteq BeaconIds \X Days
    /\ log \in [DOMAIN log -> Keys]
    /\ current \in [DOMAIN current -> SUBSET Keys]

LEMMA TypeSplit == TypeOK <=> BusinessRowsOK /\ req \in [Sessions -> BeaconRequest] /\ BeaconRowsOK
  BY DEF TypeOK, BeaconRowsOK

LEMMA TypeRows ==
    ASSUME TypeOK,
           \/ UNCHANGED <<today, standing, businesses, failures>>
           \/ \E s \in Sessions, b \in BusinessIds : RegisterCommit(s, b)
           \/ \E s \in Sessions, f \in FailureIds : IInvB /\ FailCommit(s, f)
           \/ \E u \in Holders : StandingChanges(u)
           \/ NextDay
    PROVE  BusinessRowsOK'
  <1>1. CASE UNCHANGED <<today, standing, businesses, failures>>
    BY <1>1 DEF TypeOK, BusinessRowsOK
  <1>2. ASSUME NEW s \in Sessions, NEW b \in BusinessIds, RegisterCommit(s, b)
        PROVE  BusinessRowsOK'
    <2>1. NewBusiness(req[s].holder) \in Business
      BY <1>2, RequestFields DEF RegisterCommit, NewBusiness, Business
    <2>2. QED
      BY <1>2, <2>1 DEF RegisterCommit, TypeOK, BusinessRowsOK
  <1>3. ASSUME NEW s \in Sessions, NEW f \in FailureIds, IInvB, FailCommit(s, f)
        PROVE  BusinessRowsOK'
    <2>1. req[s].business \in DOMAIN businesses /\ req[s].business \in BusinessIds
      BY <1>3, FailCommitFacts, RequestFields DEF FailCommit
    <2>2. [business |-> req[s].business, day |-> today] \in Failure
      BY <2>1 DEF TypeOK, BusinessRowsOK, Failure
    <2>3. businesses' \in [DOMAIN businesses -> Business] /\ DOMAIN businesses' = DOMAIN businesses
      BY <1>3, <2>1 DEF FailCommit, Suspended, TypeOK, BusinessRowsOK, Business
    <2>4. failures' \in [DOMAIN failures' -> Failure] /\ DOMAIN failures' \subseteq FailureIds
      BY <1>3, <2>2 DEF FailCommit, TypeOK, BusinessRowsOK
    <2>5. QED
      BY <1>3, <2>3, <2>4 DEF FailCommit, TypeOK, BusinessRowsOK
  <1>4. ASSUME NEW u \in Holders, StandingChanges(u) PROVE BusinessRowsOK'
    BY <1>4 DEF StandingChanges, TypeOK, BusinessRowsOK
  <1>5. CASE NextDay
    BY <1>5, Constants DEF NextDay, TypeOK, BusinessRowsOK, Days
  <1>6. QED
    BY <1>1, <1>2, <1>3, <1>4, <1>5

-----------------------------------------------------------------------------
(* Businesses under the beacons                                            *)

\* A handler of businesses replaces its request.
HandlerB(s, r) ==
    /\ r \in BeaconRequest /\ r.op \notin {"rotate", "uuid"}
    /\ req' = [req EXCEPT ![s] = r]
    /\ today' = today
    /\ CurrentKept /\ UNCHANGED <<beacons, log>>

LEMMA HandlerBStep ==
    ASSUME IInv, NEW s \in Sessions, NEW r, HandlerB(s, r), BusinessRowsOK', IInvB'
    PROVE  IInv'
  <1>1. QuietK(s, r)
    BY DEF HandlerB, CurrentKept, QuietK
  <1>2. TypeOK
    BY DEF IInv, LoggedWasCurrent
  <1>3. req' \in [Sessions -> BeaconRequest] /\ BeaconRowsOK'
    BY <1>1, <1>2 DEF HandlerB, TypeOK, BeaconRowsOK, QuietK, Days
  <1>4. TypeOK'
    BY <1>3, TypeSplit, BusinessRowsOK' DEF TypeOK, BeaconRowsOK
  <1>5. QED
    BY <1>1, <1>4, QuietKStep DEF IInv

LEMMA NextBStep ==
    ASSUME IInv, NextB, CurrentKept, UNCHANGED <<beacons, log>>
    PROVE  IInv'
  <1>0. TypeOK /\ IInvB
    BY DEF IInv, LoggedWasCurrent
  <1>1. ASSUME NEW s \in Sessions, NEW u \in Holders, RegisterRead(s, u)
        PROVE  IInv'
    <2>1. HandlerB(s, [op |-> "register", holder |-> u])
      BY <1>1 DEF RegisterRead, Start, HandlerB, BeaconRequest, BusinessRequest
    <2>2. BusinessRowsOK'
      BY <1>0, <1>1, TypeRows DEF RegisterRead
    <2>3. QED
      BY <1>0, <1>1, <2>1, <2>2, RegisterReadStep, HandlerBStep
  <1>2. ASSUME NEW s \in Sessions, NEW b \in BusinessIds, RegisterCommit(s, b)
        PROVE  IInv'
    <2>1. HandlerB(s, Idle)
      BY <1>2, IdleFacts DEF RegisterCommit, End, HandlerB
    <2>2. BusinessRowsOK'
      BY <1>0, <1>2, TypeRows
    <2>3. QED
      BY <1>0, <1>2, <2>1, <2>2, RegisterCommitStep, HandlerBStep
  <1>3. ASSUME NEW s \in Sessions, NEW b \in BusinessIds, FailRead(s, b)
        PROVE  IInv'
    <2>1. Cardinality(RecentFailures(b)) \in Nat
      BY <1>0, RowSets DEF TypeOK
    <2>2. HandlerB(s, [op |-> "fail", business |-> b, prior |-> Cardinality(RecentFailures(b))])
      BY <1>3, <2>1 DEF FailRead, Start, HandlerB, BeaconRequest, BusinessRequest
    <2>3. BusinessRowsOK'
      BY <1>0, <1>3, TypeRows DEF FailRead
    <2>4. QED
      BY <1>0, <1>3, <2>2, <2>3, FailReadStep, HandlerBStep
  <1>4. ASSUME NEW s \in Sessions, NEW f \in FailureIds, FailCommit(s, f)
        PROVE  IInv'
    <2>1. HandlerB(s, Idle)
      BY <1>4, IdleFacts DEF FailCommit, End, HandlerB
    <2>2. BusinessRowsOK'
      BY <1>0, <1>4, TypeRows
    <2>3. QED
      BY <1>0, <1>4, <2>1, <2>2, FailCommitStep, HandlerBStep
  <1>5. ASSUME NEW s \in Sessions, Drop(s)
        PROVE  IInv'
    <2>1. HandlerB(s, Idle) /\ QuietB(s, Idle)
      BY <1>5, IdleFacts DEF Drop, End, HandlerB, QuietB
    <2>2. BusinessRowsOK'
      BY <1>0, <1>5, TypeRows DEF Drop
    <2>3. QED
      BY <1>0, <2>1, <2>2, QuietBStep, HandlerBStep
  <1>6. ASSUME NEW u \in Holders, StandingChanges(u)
        PROVE  IInv'
    <2>1. BusinessRowsOK'
      BY <1>0, <1>6, TypeRows
    <2>2. UNCHANGED <<today, businesses, failures, req, current>>
      BY <1>6 DEF StandingChanges, CurrentKept
    <2>3. TypeOK'
      BY <1>0, <2>1, <2>2 DEF TypeOK, Days
    <2>4. LoggedWasCurrent' /\ KeysWitnessed'
      BY <2>2, <2>3 DEF IInv, LoggedWasCurrent, KeysWitnessed
    <2>5. QED
      BY <1>0, <2>2, <2>4, StutterB DEF IInv
  <1>7. CASE NextDay
    <2>1. BusinessRowsOK' /\ IInvB'
      BY <1>0, <1>7, TypeRows, NextDayStep
    <2>2. /\ today \in Nat /\ today' = today + 1 /\ req' = req
          /\ \A s \in Sessions : req[s] = Idle
      BY <1>0, <1>7, Constants DEF NextDay, TypeOK, BusinessRowsOK, Days
    <2>3. /\ DOMAIN current' = DOMAIN current \cup {<<n, today'>> : n \in DOMAIN beacons}
          /\ \A x \in DOMAIN current : current'[x] = current[x]
          /\ \A n \in DOMAIN beacons : <<n, today'>> \notin DOMAIN current
          /\ \A n \in DOMAIN beacons : current'[<<n, today'>>] = {beacons[n].key}
      <3>1. today' # today
        BY <2>2
      <3>2. \A n \in DOMAIN beacons : <<n, today'>> \notin DOMAIN current
        BY <2>2 DEF IInv, KeysWitnessed
      <3>3. QED
        BY <3>1, <3>2 DEF CurrentKept
    <2>4. current' \in [DOMAIN current' -> SUBSET Keys]
      <3>1. current' = [x \in DOMAIN current' |-> current'[x]]
        <4>1. today' # today
          BY <2>2
        <4>2. QED
          BY <4>1, Zenon DEF CurrentKept
      <3>2. \A x \in DOMAIN current' : current'[x] \in SUBSET Keys
        BY <1>0, <2>3 DEF TypeOK, Beacon
      <3>3. QED
        BY <3>1, <3>2
    <2>5. TypeOK'
      BY <1>0, <2>1, <2>2, <2>4 DEF TypeOK, Days
    <2>6. LoggedWasCurrent'
      BY <2>3, <2>5 DEF IInv, LoggedWasCurrent
    <2>7. KeysWitnessed'
      <3>1. DOMAIN current' \subseteq BeaconIds \X (0 .. today')
        BY <1>0, <2>2, <2>3 DEF IInv, KeysWitnessed, TypeOK
      <3>2. QED
        BY <2>2, <2>3, <3>1, IdleFacts DEF KeysWitnessed
    <2>8. QED
      BY <2>1, <2>6, <2>7 DEF IInv
  <1>8. QED
    BY <1>1, <1>2, <1>3, <1>4, <1>5, <1>6, <1>7 DEF NextB

-----------------------------------------------------------------------------
(* Beacons, their keys and their log                                       *)

\* record_rotation keeps the day's key, or logs one that is current.
LEMMA RecordedStep ==
    ASSUME LoggedWasCurrent, KeysWitnessed, NEW n \in BeaconIds, NEW k \in Keys,
           log' = Recorded(n, k),
           DOMAIN current \subseteq DOMAIN current',
           \A x \in DOMAIN current : current[x] \subseteq current'[x],
           <<n, today>> \in DOMAIN current', k \in current'[<<n, today>>]
    PROVE  /\ DOMAIN log' \subseteq BeaconIds \X Days
           /\ log' \in [DOMAIN log' -> Keys]
           /\ \A x \in DOMAIN log' : x \in DOMAIN current' /\ log'[x] \in current'[x]
  <1>1. /\ DOMAIN log' = DOMAIN log \cup {<<n, today>>}
        /\ \A x \in DOMAIN log' : log'[x] = IF x \in DOMAIN log THEN log[x] ELSE k
        /\ log' = [x \in DOMAIN log' |-> log'[x]]
    BY DEF Recorded
  <1>2. /\ DOMAIN log \subseteq BeaconIds \X Days /\ today \in Days
        /\ \A x \in DOMAIN log : log[x] \in Keys
    BY DEF LoggedWasCurrent, TypeOK, BusinessRowsOK
  <1>3. DOMAIN log' \subseteq BeaconIds \X Days /\ log' \in [DOMAIN log' -> Keys]
    BY <1>1, <1>2
  <1>4. \A x \in DOMAIN log' : x \in DOMAIN current' /\ log'[x] \in current'[x]
    BY <1>1 DEF LoggedWasCurrent
  <1>5. QED
    BY <1>3, <1>4

\* A handler of beacons replaces its request.
HandlerK(s, r) ==
    /\ r \in BeaconRequest /\ req' = [req EXCEPT ![s] = r]
    /\ r.op \notin {"register", "fail"}
    /\ r.op \in {"rotate", "uuid"} => r.beacon \in DOMAIN beacons'
    /\ r.op = "uuid" => /\ <<r.beacon, today>> \in DOMAIN current'
                        /\ r.key \in current'[<<r.beacon, today>>]
    /\ UNCHANGED <<today, standing, businesses, failures>>

LEMMA HandlerKStep ==
    ASSUME IInv, NEW s \in Sessions, NEW r, HandlerK(s, r), UNCHANGED <<beacons, log, current>>
    PROVE  IInv'
  <1>1. TypeOK /\ IInvB
    BY DEF IInv, LoggedWasCurrent
  <1>2. IInvB'
    <2>1. QuietB(s, r)
      BY DEF HandlerK, QuietB
    <2>2. QED
      BY <1>1, <2>1, QuietBStep
  <1>3. BusinessRowsOK'
    BY <1>1, TypeRows DEF HandlerK
  <1>4. TypeOK'
    BY <1>1, <1>3 DEF HandlerK, TypeOK, Days
  <1>5. LoggedWasCurrent'
    BY <1>4 DEF IInv, LoggedWasCurrent
  <1>6. KeysWitnessed'
    BY <1>1 DEF IInv, KeysWitnessed, HandlerK, TypeOK
  <1>7. QED
    BY <1>2, <1>5, <1>6 DEF IInv

\* A key is changed, and current and logged from now on.
LEMMA NewKeyStep ==
    ASSUME IInv, NEW s \in Sessions, HandlerK(s, Idle), NEW n \in BeaconIds, NEW k \in Keys,
           DOMAIN beacons' = DOMAIN beacons \cup {n},
           beacons' \in [DOMAIN beacons' -> Beacon], beacons'[n].key = k,
           log' = Recorded(n, k), current' = Witnessed(beacons')
    PROVE  IInv'
  <1>1. TypeOK /\ IInvB /\ LoggedWasCurrent /\ KeysWitnessed
    BY DEF IInv, LoggedWasCurrent
  <1>2. IInvB'
    <2>1. QuietB(s, Idle)
      BY DEF HandlerK, QuietB
    <2>2. QED
      BY <1>1, <2>1, QuietBStep
  <1>3. BusinessRowsOK'
    BY <1>1, TypeRows DEF HandlerK
  <1>4. /\ DOMAIN current' = DOMAIN current \cup {<<m, today>> : m \in DOMAIN beacons'}
        /\ \A x \in DOMAIN current' : current'[x] =
               (IF x \in DOMAIN current THEN current[x] ELSE {})
               \cup {beacons'[m].key : m \in {m \in DOMAIN beacons' : x = <<m, today>>}}
        /\ current' = [x \in DOMAIN current' |-> current'[x]]
    BY DEF Witnessed
  <1>5. /\ \A x \in DOMAIN current : current[x] \subseteq current'[x]
        /\ \A m \in DOMAIN beacons' : /\ <<m, today>> \in DOMAIN current'
                                      /\ beacons'[m].key \in current'[<<m, today>>]
    BY <1>4
  <1>6. \A x \in DOMAIN current' : current'[x] \subseteq Keys
    BY <1>1, <1>4 DEF TypeOK, Beacon
  <1>7. /\ DOMAIN log' \subseteq BeaconIds \X Days
        /\ log' \in [DOMAIN log' -> Keys]
        /\ \A x \in DOMAIN log' : x \in DOMAIN current' /\ log'[x] \in current'[x]
    BY <1>1, <1>4, <1>5, RecordedStep
  <1>8. TypeOK'
    <2>1. current' \in [DOMAIN current' -> SUBSET Keys]
      BY <1>4, <1>6
    <2>2. DOMAIN beacons' \subseteq BeaconIds /\ req' \in [Sessions -> BeaconRequest]
      BY <1>1, IdleFacts DEF TypeOK, HandlerK
    <2>3. QED
      BY <1>3, <1>7, <2>1, <2>2 DEF TypeOK, Days
  <1>9. LoggedWasCurrent'
    BY <1>7, <1>8 DEF LoggedWasCurrent
  <1>10. KeysWitnessed'
    <2>1. today' = today /\ today \in Nat
      BY <1>1, Constants DEF HandlerK, TypeOK, BusinessRowsOK, Days
    <2>2. DOMAIN current' \subseteq BeaconIds \X (0 .. today')
      BY <1>1, <1>4, <2>1 DEF KeysWitnessed, TypeOK
    <2>3. ASSUME NEW x \in Sessions, req'[x].op \in {"rotate", "uuid"}
          PROVE  req'[x] = req[x]
      BY <1>1, <2>3, IdleFacts DEF HandlerK, TypeOK
    <2>4. QED
      BY <1>1, <1>4, <1>5, <2>1, <2>2, <2>3 DEF KeysWitnessed
  <1>11. QED
    BY <1>2, <1>9, <1>10 DEF IInv

LEMMA InstallReadStep ==
    ASSUME IInv, NEW s \in Sessions, NEW u \in Holders, NEW b \in BusinessIds, InstallRead(s, u, b)
    PROVE  IInv'
  <1>1. HandlerK(s, [op |-> "install", business |-> b])
    BY DEF InstallRead, Start, HandlerK, BeaconRequest
  <1>2. QED
    BY <1>1, HandlerKStep DEF InstallRead

LEMMA InstallCommitStep ==
    ASSUME IInv, NEW s \in Sessions, NEW n \in BeaconIds, NEW k \in Keys, InstallCommit(s, n, k)
    PROVE  IInv'
  <1>1. TypeOK
    BY DEF IInv, LoggedWasCurrent
  <1>2. HandlerK(s, Idle)
    BY IdleFacts DEF InstallCommit, End, HandlerK
  <1>3. NewBeacon(req[s].business, k) \in Beacon /\ NewBeacon(req[s].business, k).key = k
    BY <1>1, RequestFields DEF InstallCommit, NewBeacon, Beacon
  <1>4. /\ DOMAIN beacons' = DOMAIN beacons \cup {n} /\ beacons'[n].key = k
        /\ beacons' \in [DOMAIN beacons' -> Beacon]
    BY <1>1, <1>3 DEF InstallCommit, TypeOK
  <1>5. QED
    BY <1>2, <1>4, NewKeyStep DEF InstallCommit

LEMMA RotateReadStep ==
    ASSUME IInv, NEW s \in Sessions, NEW p \in Holders \cup Admins, NEW n \in BeaconIds,
           RotateRead(s, p, n)
    PROVE  IInv'
  <1>1. n \in DOMAIN beacons /\ beacons[n].key \in Keys
    BY DEF RotateRead, MayManage, IInv, LoggedWasCurrent, TypeOK, Beacon
  <1>2. HandlerK(s, [op |-> "rotate", beacon |-> n, key |-> beacons[n].key])
    BY <1>1 DEF RotateRead, Start, HandlerK, BeaconRequest
  <1>3. QED
    BY <1>2, HandlerKStep DEF RotateRead

LEMMA RotateCommitStep ==
    ASSUME IInv, NEW s \in Sessions, NEW k \in Keys, RotateCommit(s, k)
    PROVE  IInv'
  <1>1. TypeOK
    BY DEF IInv, LoggedWasCurrent
  <1>2. HandlerK(s, Idle)
    BY IdleFacts DEF RotateCommit, End, HandlerK
  <1>3. PICK n \in DOMAIN beacons : n = req[s].beacon /\ n \in BeaconIds
    BY <1>1, RequestFields DEF RotateCommit, IInv, KeysWitnessed
  <1>4. beacons' = [beacons EXCEPT ![n] = [business |-> beacons[n].business, key |-> k,
                                           previous |-> beacons[n].key]]
    BY <1>3 DEF RotateCommit, Rotated
  <1>5. /\ DOMAIN beacons' = DOMAIN beacons \cup {n} /\ beacons'[n].key = k
        /\ beacons' \in [DOMAIN beacons' -> Beacon]
    <2>1. [business |-> beacons[n].business, key |-> k, previous |-> beacons[n].key] \in Beacon
      BY <1>1 DEF TypeOK, Beacon
    <2>2. QED
      BY <1>1, <1>4, <2>1 DEF TypeOK
  <1>6. log' = Recorded(n, k) /\ current' = Witnessed(beacons')
    BY <1>3 DEF RotateCommit
  <1>7. QED
    BY <1>2, <1>3, <1>5, <1>6, NewKeyStep

LEMMA UuidReadStep ==
    ASSUME IInv, NEW s \in Sessions, NEW p \in Holders \cup Admins, NEW n \in BeaconIds,
           UuidRead(s, p, n)
    PROVE  IInv'
  <1>1. n \in DOMAIN beacons /\ beacons[n].key \in Keys
    BY DEF UuidRead, MayManage, IInv, LoggedWasCurrent, TypeOK, Beacon
  <1>2. <<n, today>> \in DOMAIN current /\ beacons[n].key \in current[<<n, today>>]
    BY <1>1 DEF IInv, KeysWitnessed
  <1>3. HandlerK(s, [op |-> "uuid", beacon |-> n, key |-> beacons[n].key])
    BY <1>1, <1>2 DEF UuidRead, UuidKey, Start, HandlerK, BeaconRequest
  <1>4. QED
    BY <1>3, HandlerKStep DEF UuidRead

\* The key that get_daily_uuid read is one of today's, rotated meanwhile or not.
LEMMA UuidCommitStep ==
    ASSUME IInv, NEW s \in Sessions, UuidCommit(s)
    PROVE  IInv'
  <1>1. TypeOK /\ IInvB /\ LoggedWasCurrent /\ KeysWitnessed
    BY DEF IInv, LoggedWasCurrent
  <1>2. HandlerK(s, Idle) /\ UNCHANGED <<beacons, current>>
    BY IdleFacts DEF UuidCommit, End, HandlerK
  <1>3. PICK n \in BeaconIds, k \in Keys : n = req[s].beacon /\ k = req[s].key
    BY <1>1, RequestFields DEF UuidCommit
  <1>4. /\ log' = Recorded(n, k)
        /\ <<n, today>> \in DOMAIN current /\ k \in current[<<n, today>>]
    BY <1>1, <1>3 DEF UuidCommit, KeysWitnessed
  <1>5. /\ DOMAIN log' \subseteq BeaconIds \X Days
        /\ log' \in [DOMAIN log' -> Keys]
        /\ \A x \in DOMAIN log' : x \in DOMAIN current' /\ log'[x] \in current'[x]
    BY <1>1, <1>2, <1>4, RecordedStep
  <1>6. IInvB'
    <2>1. QuietB(s, Idle)
      BY <1>2 DEF HandlerK, QuietB
    <2>2. QED
      BY <1>1, <2>1, QuietBStep
  <1>7. BusinessRowsOK'
    BY <1>1, <1>2, TypeRows DEF HandlerK
  <1>8. TypeOK'
    BY <1>1, <1>2, <1>5, <1>7 DEF HandlerK, TypeOK, Days
  <1>9. KeysWitnessed'
    BY <1>1, <1>2, IdleFacts DEF HandlerK, KeysWitnessed, TypeOK
  <1>10. QED
    BY <1>5, <1>6, <1>8, <1>9 DEF IInv, LoggedWasCurrent

-----------------------------------------------------------------------------
(* The theorems                                                            *)

LEMMA NextIInv == IInv /\ [Next]_vars => IInv'
  <1> SUFFICES ASSUME IInv, [Next]_vars PROVE IInv'
    OBVIOUS
  <1>1. ASSUME NEW s \in Sessions, BeaconHandler(s) PROVE IInv'
    BY <1>1, InstallReadStep, InstallCommitStep, RotateReadStep, RotateCommitStep,
       UuidReadStep, UuidCommitStep DEF BeaconHandler
  <1>2. CASE NextB /\ CurrentKept /\ UNCHANGED <<beacons, log>>
    BY <1>2, NextBStep
  <1>3. CASE UNCHANGED vars
    <2>1. TypeOK /\ IInvB /\ UNCHANGED <<today, businesses, failures, req>>
      BY <1>3 DEF IInv, LoggedWasCurrent, vars
    <2>2. IInvB'
      BY <2>1, StutterB
    <2>3. BusinessRowsOK'
      BY <1>3, <2>1, TypeRows DEF vars
    <2>4. TypeOK'
      BY <1>3, <2>1, <2>3 DEF TypeOK, Days, vars
    <2>5. QED
      BY <1>3, <2>2, <2>4 DEF IInv, LoggedWasCurrent, KeysWitnessed, vars
  <1>4. QED
    BY <1>1, <1>2, <1>3 DEF Next

\* The inductive invariant of businesses and beacons.
THEOREM Invariance == Spec => []IInv
  <1>1. QED
    BY InitIInv, NextIInv, PTL DEF Spec

\* create_business: the cap is exceeded by fewer businesses than there are handlers.
THEOREM CapOverrunByRacersAlways == Spec => []CapOverrunByRacers
  <1>1. IInv => CapOverrunByRacers
    <2> SUFFICES ASSUME IInv, NEW u \in Holders
                 PROVE  Cardinality(HeldBy(u)) <= Cap - 1 + Cardinality(Sessions)
      BY DEF CapOverrunByRacers
    <2>1. /\ Cardinality(HeldBy(u)) + Cardinality(Registering(u))
                  <= Cap - 1 + Cardinality(Sessions)
          /\ Cardinality(HeldBy(u)) \in Nat
      BY RowSets DEF IInv, IInvB, CapCounted, LoggedWasCurrent, TypeOK
    <2>2. /\ Cardinality(Registering(u)) \in Nat /\ Cardinality(Sessions) \in Nat
          /\ Cap \in Nat
      BY HandlerSets, Constants
    <2>3. QED
      BY <2>1, <2>2
  <1>2. QED
    BY <1>1, Invariance, PTL

\* submit_quality_assessment: a suspension has FailLimit failures within one window.
THEOREM SuspendedForCauseAlways == Spec => []SuspendedForCause
  <1>1. IInv => SuspendedForCause
    BY DEF IInv, IInvB
  <1>2. QED
    BY <1>1, Invariance, PTL

\* submit_quality_assessment: overlapping assessments delay a suspension by fewer
\* failures than there are handlers.
THEOREM SuspendedAtLastAlways == Spec => []SuspendedAtLast
  <1>1. IInv => SuspendedAtLast
    <2> SUFFICES ASSUME IInv, NEW b \in DOMAIN businesses,
                        Cardinality(RecentFailures(b)) >= FailLimit - 1 + Cardinality(Sessions)
                 PROVE  businesses[b].suspended = "yes"
      BY DEF SuspendedAtLast
    <2>1. businesses[b].suspended \in {"no", "yes"} /\ Cardinality(RecentFailures(b)) \in Nat
      BY RowSets DEF IInv, LoggedWasCurrent, TypeOK, BusinessRowsOK, Business
    <2>2. businesses[b].suspended = "no" =>
             Cardinality(RecentFailures(b)) + Cardinality(Missing(b))
                 <= FailLimit - 2 + Cardinality(Sessions)
      BY DEF IInv, IInvB, MissedByRacers
    <2>3. Cardinality(Missing(b)) \in Nat /\ Cardinality(Sessions) \in Nat /\ FailLimit \in Nat
      BY HandlerSets, Constants
    <2>4. QED
      BY <2>1, <2>2, <2>3
  <1>2. QED
    BY <1>1, Invariance, PTL

\* get_daily_uuid and rotate_key: the log of a day names a key of that day.
THEOREM LoggedWasCurrentAlways == Spec => []LoggedWasCurrent
  <1>1. IInv => LoggedWasCurrent
    BY DEF IInv
  <1>2. QED
    BY <1>1, Invariance, PTL
=============================================================================
