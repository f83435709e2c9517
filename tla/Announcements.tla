--------------------------- MODULE Announcements ---------------------------
(***************************************************************************)
(* The domain event bus and what hangs on it: the append-only audit trail  *)
(* and the notification streams of the clients.                            *)
(*                                                                         *)
(* A request handler holds one pooled connection for its transaction,      *)
(* writes its audit row, publishes its event and only then commits.  One   *)
(* background task consumes the bus: it forwards some kinds to the clients *)
(* and writes an audit row of its own.  Both the bus and the notification  *)
(* channel are bounded broadcast rings: a sender never waits, a receiver   *)
(* that falls behind loses the oldest entries.  The process may stop after *)
(* a shutdown signal or be killed, and starts again with empty rings; only *)
(* the committed work and audit_events survive.                            *)
(***************************************************************************)
EXTENDS Naturals, Sequences, FiniteSets

CONSTANTS
    Handlers,       \* request handlers running at the same time
    Clients,        \* clients of the notification stream
    Audience,       \* the users the events are about
    Kinds,          \* the variants of DomainEvent under consideration
    MaxConns,       \* pooled connections
    BusCap,         \* slots of the event bus (256 in the code)
    StreamCap,      \* slots of the notification channel (1024 in the code)
    MaxEvents,      \* bound: events begun
    MaxStarts       \* bound: starts of the process

ASSUME CapacityAssumption == MaxConns \in Nat \ {0} /\ BusCap \in Nat \ {0}
                             /\ StreamCap \in Nat \ {0}
ASSUME BoundAssumption == MaxEvents \in Nat /\ MaxStarts \in Nat

VARIABLES
    phase,          \* "up", "draining" after a signal, or "down"
    starts,         \* how often the process has started
    begun,          \* events begun so far: their ids are 1 .. begun
    handler,        \* what each request handler is doing
    bus,            \* events sent on the bus since the process started
    next,           \* the consumer's position in the bus
    consumer,       \* the event the consumer has in hand, and its stage
    notices,        \* events sent on the notification channel since the start
    stream,         \* the notification stream of each client
    trail,          \* audit_events, ordered by id
    committed,      \* events whose transaction has committed
    unrecorded,     \* audit rows that are not there: the write failed, and is logged
    dropped         \* events a Lagged receiver of the bus was told about

process == <<handler, bus, next, consumer, notices, stream>>
announcementVars ==
    <<phase, starts, begun, process, trail, committed, unrecorded, dropped>>

-----------------------------------------------------------------------------
(* The kinds of event                                                      *)

\* The handler of these kinds writes an audit row on a connection of its own.
PoolKinds ==
    {"BusinessCreated", "BeaconCreated", "BeaconKeyRotated", "OrderCreated",
     "OrderCollected", "SoultokenRenewed", "AttestationInitiated",
     "AttestationApproved", "AttestationRejected", "CoolingPeriodCompleted",
     "StaffRoleGranted", "VisitScheduled", "VisitCompleted",
     "QualityAssessmentSubmitted", "BackgroundCheckInitiated",
     "BackgroundCheckPassed", "BackgroundCheckFailed", "AttestationTokenIssued",
     "AttestationTokenVerified", "SupportBookingCreated",
     "SupportBookingResolved", "DorotkaQueried"}

\* The handler of these kinds writes its audit row inside its transaction.
InlineKinds ==
    {"SoultokenIssued", "SoultokenRevoked", "IdentityVerificationInitiated"}

\* The consumer forwards these kinds to the user they are about.
NoticeKinds ==
    {"OrderCollected", "SoultokenIssued", "AttestationApproved",
     "AttestationRejected", "BackgroundCheckPassed", "SupportBookingCreated"}

\* The consumer leaves this kind alone.
SilentKinds == {"DorotkaQueried"}

Event == [id: 1 .. MaxEvents, kind: Kinds, user: Audience]
AuditRow == [ev: Event, by: {"service", "bus"}]

Entries(seq) == {seq[i] : i \in DOMAIN seq}
InTrail(ev, by) == [ev |-> ev, by |-> by] \in Entries(trail)

-----------------------------------------------------------------------------
(* The broadcast rings and the pool                                        *)

\* The oldest entry a ring of this capacity still holds.
Oldest(seq, cap) == IF Len(seq) > cap THEN Len(seq) - cap + 1 ELSE 1

Free == [stage |-> "idle"]
Receiving == [stage |-> "recv"]
Closed == [open |-> FALSE]

\* Every handler that has begun holds the connection of its transaction.
InUse == Cardinality({h \in Handlers : handler[h] # Free})

\* A statement on the pool takes a connection and gives it back at once.
CanAcquire == InUse < MaxConns

-----------------------------------------------------------------------------
InitN ==
    /\ phase = "up"
    /\ starts = 1
    /\ begun = 0
    /\ handler = [h \in Handlers |-> Free]
    /\ bus = <<>>
    /\ next = 1
    /\ consumer = Receiving
    /\ notices = <<>>
    /\ stream = [c \in Clients |-> Closed]
    /\ trail = <<>>
    /\ committed = {}
    /\ unrecorded = {}
    /\ dropped = {}

-----------------------------------------------------------------------------
(* Request handlers                                                        *)

\* The transaction begins and does its work; what it did is one event.
Begin(h, kind, u) ==
    /\ phase = "up"
    /\ handler[h] = Free
    /\ CanAcquire
    /\ begun < MaxEvents
    /\ begun' = begun + 1
    /\ handler' = [handler EXCEPT ![h] =
                      [stage |-> IF kind \in PoolKinds THEN "auditing" ELSE "done",
                       ev |-> [id |-> begun + 1, kind |-> kind, user |-> u]]]
    /\ UNCHANGED <<phase, starts, bus, next, consumer, notices, stream, trail,
                   committed, unrecorded, dropped>>

Advance(h, stage) == handler' = [handler EXCEPT ![h].stage = stage]

\* audit::write on the pool: the row is committed whatever becomes of h, or of the
\* answer of the INSERT.
AuditOnPool(h) ==
    /\ handler[h].stage = "auditing"
    /\ CanAcquire
    /\ trail' = Append(trail, [ev |-> handler[h].ev, by |-> "service"])
    /\ Advance(h, "done")
    /\ UNCHANGED <<phase, starts, begun, bus, next, consumer, notices, stream,
                   committed, unrecorded, dropped>>

\* Slip: the handler waits for a connection as long as it takes.
NeverGivesUp(h) == FALSE /\ UNCHANGED announcementVars

\* No connection within the acquire timeout, or any error of the INSERT, a connection
\* free or not: the error is logged and swallowed.
AuditFails(h) ==
    /\ handler[h].stage = "auditing"
    /\ unrecorded' = unrecorded \cup {[ev |-> handler[h].ev, by |-> "service"]}
    /\ Advance(h, "done")
    /\ UNCHANGED <<phase, starts, begun, bus, next, consumer, notices, stream,
                   trail, committed, dropped>>

\* EventBus::publish: a send on a broadcast channel never waits.
Publish(h) ==
    /\ handler[h].stage = "done"
    /\ bus' = Append(bus, handler[h].ev)
    /\ Advance(h, "published")
    /\ UNCHANGED <<phase, starts, begun, next, consumer, notices, stream, trail,
                   committed, unrecorded, dropped>>

\* Slip: the inlined audit row is written after the commit, and may be lost.
CommitWithoutRow(h) ==
    /\ handler[h].stage = "published"
    /\ committed' = committed \cup {handler[h].ev}
    /\ handler' = [handler EXCEPT ![h] = Free]
    /\ UNCHANGED <<phase, starts, begun, bus, next, consumer, notices, stream,
                   trail, unrecorded, dropped>>

\* The route handler commits; an inlined audit row is committed with it.  Its error is
\* swallowed too, but has aborted the transaction: the commit is then a Rollback.
Commit(h) ==
    LET ev == handler[h].ev IN
    /\ handler[h].stage = "published"
    /\ committed' = committed \cup {ev}
    /\ trail' = IF ev.kind \in InlineKinds
                  THEN Append(trail, [ev |-> ev, by |-> "service"])
                  ELSE trail
    /\ handler' = [handler EXCEPT ![h] = Free]
    /\ UNCHANGED <<phase, starts, begun, bus, next, consumer, notices, stream,
                   unrecorded, dropped>>

\* A later error, a failed commit or the end of the request: the transaction
\* is dropped, what was written on the pool or sent on the bus is not.
Rollback(h) ==
    /\ handler[h] # Free
    /\ handler' = [handler EXCEPT ![h] = Free]
    /\ UNCHANGED <<phase, starts, begun, bus, next, consumer, notices, stream,
                   trail, committed, unrecorded, dropped>>

-----------------------------------------------------------------------------
(* The consumer of the bus                                                 *)

\* The first thing events::handle does with an event of this kind.
FirstStage(kind) ==
    IF kind = "OrderCollected" THEN "lookup"
    ELSE IF kind \in NoticeKinds THEN "notify"
    ELSE "audit"

\* recv() returns the next event.
Receive ==
    /\ phase # "down"
    /\ consumer = Receiving
    /\ next \in Oldest(bus, BusCap) .. Len(bus)
    /\ next' = next + 1
    /\ consumer' = IF bus[next].kind \in SilentKinds THEN Receiving
                   ELSE [stage |-> FirstStage(bus[next].kind), ev |-> bus[next]]
    /\ UNCHANGED <<phase, starts, begun, handler, bus, notices, stream, trail,
                   committed, unrecorded, dropped>>

\* Slip: after a Lagged error the consumer subscribes anew.
Resubscribe ==
    /\ phase # "down"
    /\ consumer = Receiving
    /\ next < Oldest(bus, BusCap)
    /\ next' = Len(bus) + 1
    /\ dropped' = dropped \cup {bus[i] : i \in next .. (Oldest(bus, BusCap) - 1)}
    /\ UNCHANGED <<phase, starts, begun, handler, bus, consumer, notices, stream,
                   trail, committed, unrecorded>>

\* recv() returns Lagged: the loop warns and goes on with the oldest event held.
Lag ==
    /\ phase # "down"
    /\ consumer = Receiving
    /\ next < Oldest(bus, BusCap)
    /\ next' = Oldest(bus, BusCap)
    /\ dropped' = dropped \cup {bus[i] : i \in next .. (Oldest(bus, BusCap) - 1)}
    /\ UNCHANGED <<phase, starts, begun, handler, bus, consumer, notices, stream,
                   trail, committed, unrecorded>>

\* Slip: a failed lookup skips the notification.
LookUpFails ==
    /\ phase # "down"
    /\ consumer.stage = "lookup"
    /\ consumer' = [consumer EXCEPT !.stage = "audit"]
    /\ UNCHANGED <<phase, starts, begun, handler, bus, next, notices, stream,
                   trail, committed, unrecorded, dropped>>

\* The business of a collected order is looked up; a failure counts as 0.
LookUp ==
    /\ phase # "down"
    /\ consumer.stage = "lookup"
    /\ consumer' = [consumer EXCEPT !.stage = "notify"]
    /\ UNCHANGED <<phase, starts, begun, handler, bus, next, notices, stream,
                   trail, committed, unrecorded, dropped>>

\* Slip: the notification waits for the slowest client.
NotifyAndWait ==
    /\ phase # "down"
    /\ consumer.stage = "notify"
    /\ \A c \in Clients : stream[c].open => Len(notices) - stream[c].pos + 1 < StreamCap
    /\ notices' = Append(notices, consumer.ev)
    /\ consumer' = [consumer EXCEPT !.stage = "audit"]
    /\ UNCHANGED <<phase, starts, begun, handler, bus, next, stream, trail,
                   committed, unrecorded, dropped>>

\* event_tx.send: like any broadcast it never waits.
Notify ==
    /\ phase # "down"
    /\ consumer.stage = "notify"
    /\ notices' = Append(notices, consumer.ev)
    /\ consumer' = [consumer EXCEPT !.stage = "audit"]
    /\ UNCHANGED <<phase, starts, begun, handler, bus, next, stream, trail,
                   committed, unrecorded, dropped>>

\* The audit row of the event itself, by audit::write as well: written, or failed.
WriteRow ==
    /\ phase # "down"
    /\ consumer.stage = "audit"
    /\ LET row == [ev |-> consumer.ev, by |-> "bus"] IN
          \/ /\ CanAcquire
             /\ trail' = Append(trail, row)
             /\ UNCHANGED unrecorded
          \/ /\ unrecorded' = unrecorded \cup {row}
             /\ UNCHANGED trail
    /\ consumer' = Receiving
    /\ UNCHANGED <<phase, starts, begun, handler, bus, next, notices, stream,
                   committed, dropped>>

-----------------------------------------------------------------------------
(* Clients of the notification stream                                      *)

\* A subscription sees what is sent from now on.
Connect(c, u) ==
    /\ phase = "up"
    /\ stream[c] = Closed
    /\ stream' = [stream EXCEPT ![c] =
                     [open |-> TRUE, user |-> u, pos |-> Len(notices) + 1,
                      since |-> Len(bus), lagged |-> FALSE, seen |-> <<>>]]
    /\ UNCHANGED <<phase, starts, begun, handler, bus, next, consumer, notices,
                   trail, committed, unrecorded, dropped>>

\* target_user_id() matches; none of the kinds sent here is a broadcast.
Concerns(notice, u) == notice.user = u

\* The client takes the next notice: it is sent on if it concerns the user.
Deliver(c) ==
    /\ stream[c].open
    /\ stream[c].pos \in Oldest(notices, StreamCap) .. Len(notices)
    /\ LET mine == stream[c]
           notice == notices[mine.pos]
           seen == IF Concerns(notice, mine.user) THEN Append(mine.seen, notice)
                                                  ELSE mine.seen IN
       stream' = [stream EXCEPT ![c] = [mine EXCEPT !.pos = mine.pos + 1, !.seen = seen]]
    /\ UNCHANGED <<phase, starts, begun, handler, bus, next, consumer, notices,
                   trail, committed, unrecorded, dropped>>

\* A slow client: BroadcastStream yields Lagged, the stream goes on without.
SkipLagged(c) ==
    /\ stream[c].open
    /\ stream[c].pos < Oldest(notices, StreamCap)
    /\ stream' = [stream EXCEPT ![c] =
                     [@ EXCEPT !.pos = Oldest(notices, StreamCap), !.lagged = TRUE]]
    /\ UNCHANGED <<phase, starts, begun, handler, bus, next, consumer, notices,
                   trail, committed, unrecorded, dropped>>

Disconnect(c) ==
    /\ stream[c].open
    /\ stream' = [stream EXCEPT ![c] = Closed]
    /\ UNCHANGED <<phase, starts, begun, handler, bus, next, consumer, notices,
                   trail, committed, unrecorded, dropped>>

-----------------------------------------------------------------------------
(* The process                                                             *)

\* SIGINT or SIGTERM: no new requests, those in flight go on.
Signal ==
    /\ phase = "up"
    /\ phase' = "draining"
    /\ UNCHANGED <<starts, begun, process, trail, committed, unrecorded, dropped>>

\* All tasks of the process end and its memory is gone, whatever they did.
Halt ==
    /\ phase' = "down"
    /\ handler' = [h \in Handlers |-> Free]
    /\ bus' = <<>>
    /\ next' = 1
    /\ consumer' = Receiving
    /\ notices' = <<>>
    /\ stream' = [c \in Clients |-> Closed]
    /\ UNCHANGED <<starts, begun, trail, committed, unrecorded, dropped>>

\* serve returns once every request is answered, an open stream included; run
\* returns, and the consumer ends with it.
Stop ==
    /\ phase = "draining"
    /\ \A h \in Handlers : handler[h] = Free
    /\ \A c \in Clients : stream[c] = Closed
    /\ Halt

\* A crash, or a kill after the grace period of the platform.
Kill == phase # "down" /\ Halt

\* The process starts again; the consumer subscribes before it serves requests.
Boot ==
    /\ phase = "down"
    /\ starts < MaxStarts
    /\ phase' = "up"
    /\ starts' = starts + 1
    /\ UNCHANGED <<begun, process, trail, committed, unrecorded, dropped>>

-----------------------------------------------------------------------------
Work(h) ==
    AuditOnPool(h) \/ AuditFails(h) \/ Publish(h) \/ Commit(h)

Consume == Receive \/ Lag \/ LookUp \/ Notify \/ WriteRow

NextN ==
    \/ \E h \in Handlers, kind \in Kinds, u \in Audience : Begin(h, kind, u)
    \/ \E h \in Handlers : Work(h) \/ Rollback(h)
    \/ Consume
    \/ \E c \in Clients :
          \/ \E u \in Audience : Connect(c, u)
          \/ Deliver(c) \/ SkipLagged(c) \/ Disconnect(c)
    \/ Signal \/ Stop \/ Kill \/ Boot

SpecN == InitN /\ [][NextN]_announcementVars

\* The runtime polls a task that can go on, and the acquire timeout ends every
\* wait for a connection.  Nothing is assumed of the clients.
FairSpec ==
    /\ SpecN
    /\ WF_announcementVars(Consume)
    /\ \A h \in Handlers : WF_announcementVars(Work(h))

-----------------------------------------------------------------------------
(* Properties                                                              *)

Task == [stage: {"auditing", "done", "published"}, ev: Event]
Hand == [stage: {"lookup", "notify", "audit"}, ev: Event]

\* A stream among n notices that opened among b events of the bus.
Stream(n, b) ==
    [open: {TRUE}, user: Audience, pos: 1 .. (n + 1), since: 0 .. b,
     lagged: BOOLEAN, seen: Seq(Event)]

\* Phase, handlers, queues, streams and rows are of their types.
TypeOKN ==
    /\ phase \in {"up", "draining", "down"}
    /\ starts \in 1 .. (MaxStarts + 1)
    /\ begun \in 0 .. MaxEvents
    /\ handler \in [Handlers -> {Free} \cup Task]
    /\ bus \in Seq(Event)
    /\ next \in 1 .. (Len(bus) + 1)
    /\ consumer \in {Receiving} \cup Hand
    /\ notices \in Seq(Event)
    /\ stream \in [Clients -> {Closed} \cup Stream(Len(notices), Len(bus))]
    /\ trail \in Seq(AuditRow)
    /\ committed \subseteq Event
    /\ unrecorded \subseteq AuditRow
    /\ dropped \subseteq Event

\* No crash, no lagging consumer and no saturated pool loses the handler's own
\* audit row silently once its work is committed: the row is written or committed no
\* later than the work, or its write failed and the log says so before the work is
\* committed.  An inlined row is neither lost for committed work nor there for any
\* other.  Queues, rows and handlers are of their types throughout.
TrailCoversCommits ==
    /\ TypeOKN
    /\ \A ev \in Entries(bus) \cup committed :
        LET row == [ev |-> ev, by |-> "service"] IN
        /\ ev \in committed /\ ev.kind \in PoolKinds
              => row \in Entries(trail) \cup unrecorded
        /\ ev.kind \in InlineKinds => (row \in Entries(trail) <=> ev \in committed)

\* What the consumer has passed it has accounted for: an event has its row on
\* the trail, or the log has the failure of its write, or a Lagged warning counted
\* it, or its kind is silent; and no event is accounted for twice.
GapsAreExplained ==
    \A i \in 1 .. (next - 1) :
        LET row == [ev |-> bus[i], by |-> "bus"]
            inHand == consumer # Receiving /\ consumer.ev = bus[i] IN
        Cardinality({x \in {"row", "unrecorded", "dropped", "inHand", "silent"} :
            \/ x = "row" /\ row \in Entries(trail)
            \/ x = "unrecorded" /\ row \in unrecorded
            \/ x = "dropped" /\ bus[i] \in dropped
            \/ x = "inHand" /\ inHand
            \/ x = "silent" /\ bus[i].kind \in SilentKinds /\ bus[i] \notin dropped}) = 1

\* A client that has not lagged has seen, or still has in front of it, every
\* notice about its user whose event the trail holds and which was sent on the
\* bus while it was connected.
AuditedWasOffered ==
    \A c \in Clients : stream[c].open /\ ~stream[c].lagged =>
        \A i \in (stream[c].since + 1) .. Len(bus) :
            /\ bus[i].kind \in NoticeKinds
            /\ bus[i].user = stream[c].user
            /\ InTrail(bus[i], "bus")
            => \/ bus[i] \in Entries(stream[c].seen)
               \/ \E j \in stream[c].pos .. Len(notices) : notices[j] = bus[i]

\* Handlers that each hold a connection and wait for another one do not wait for
\* ever, and neither does one behind a lagging consumer: every request ends.
EveryRequestEnds ==
    \A h \in Handlers : handler[h] # Free ~> handler[h] = Free

\* While the process lives every event sent is taken from the bus and finished
\* with, whatever the clients do: one that reads nothing holds nobody up.
EverySentIsFinished ==
    \A n \in 1 .. MaxEvents :
        Len(bus) >= n ~> (next > n /\ consumer = Receiving) \/ phase = "down"

-----------------------------------------------------------------------------
(* The inductive invariant                                                 *)

ServiceRow(ev) == [ev |-> ev, by |-> "service"]
BusRow(ev) == [ev |-> ev, by |-> "bus"]
Rows == Entries(trail) \cup unrecorded

InHand(ev) == consumer # Receiving /\ consumer.ev = ev

\* The consumer has come to this event.
Reached(ev) == BusRow(ev) \in Rows \/ ev \in dropped \/ InHand(ev)

Unsent(h) == handler[h].stage \in {"auditing", "done"}

\* No event is known that was not begun.
OnlyBegun ==
    /\ \A h \in Handlers : handler[h] # Free => handler[h].ev.id <= begun
    /\ \A i \in DOMAIN bus : bus[i].id <= begun
    /\ \A ev \in Event : Reached(ev) => ev.id <= begun

\* An event has one handler and one place on the bus, and the consumer comes to it
\* there and not before.
EachEventOnce ==
    /\ \A g, h \in Handlers :
          handler[g] # Free /\ handler[h] # Free /\ handler[g].ev = handler[h].ev => g = h
    /\ \A i, j \in DOMAIN bus : bus[i] = bus[j] => i = j
    /\ \A h \in Handlers : Unsent(h) =>
          handler[h].ev \notin Entries(bus) /\ ~ Reached(handler[h].ev)
    /\ \A i \in next .. Len(bus) : ~ Reached(bus[i])

\* A handler that must write its row on the pool has tried before it publishes, and an
\* inlined row waits for the commit.
RowsFirst ==
    /\ \A h \in Handlers :
          /\ handler[h].stage = "auditing" => handler[h].ev.kind \in PoolKinds
          /\ handler[h].stage \in {"done", "published"} /\ handler[h].ev.kind \in PoolKinds
                => ServiceRow(handler[h].ev) \in Rows
    /\ \A ev \in committed :
          /\ ev.kind \in PoolKinds => ServiceRow(ev) \in Rows
          /\ ev.kind \in InlineKinds => ServiceRow(ev) \in Entries(trail)
    /\ \A ev \in Event :
          ev.kind \in InlineKinds /\ ServiceRow(ev) \in Entries(trail) => ev \in committed

\* The consumer neither holds a silent event nor writes its row.
SilentPassBy ==
    \A ev \in Event :
        ev.kind \in SilentKinds => BusRow(ev) \notin Rows /\ ~ InHand(ev)

\* The notice goes out before the row is written.
NoticeFirst ==
    \A c \in Clients : stream[c].open /\ ~stream[c].lagged =>
        \A i \in (stream[c].since + 1) .. Len(bus) :
            /\ bus[i].kind \in NoticeKinds
            /\ bus[i].user = stream[c].user
            /\ InTrail(bus[i], "bus") \/ (InHand(bus[i]) /\ consumer.stage = "audit")
            => \/ bus[i] \in Entries(stream[c].seen)
               \/ \E j \in stream[c].pos .. Len(notices) : notices[j] = bus[i]

AnnouncementsInv ==
    /\ TypeOKN /\ OnlyBegun /\ EachEventOnce /\ RowsFirst /\ SilentPassBy
    /\ GapsAreExplained /\ NoticeFirst
=============================================================================
