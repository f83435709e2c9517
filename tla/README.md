# TLA+ models of the Box Fraise platform

Box Fraise is a Rust platform (Axum, PostgreSQL, Redis, Stripe) that turns
repeated physical presence at partner businesses into an attested identity: a
user confirms identity, gathers presence events, is attested in person by a
delivery worker and two independent reviewers, and receives a soultoken. Around
that chain live box orders, drink orders, support bookings, third-party tokens,
billing and the usual authentication.

This directory holds the TLA+ modules that model it, the TLC configurations
that check them, and the TLAPS proofs. `PROJECT.json` maps every definition to
the lines it models and lists the runs, hazards, mutants and theorems.

## 1. Inventory

Every feature is a triple `domain/src/domain/<x>/{service,repository}.rs` and
`server/src/domain/<x>/routes.rs`. A route opens a transaction (`RlsTransaction`),
calls one service function with it, and commits when the function returned `Ok`;
dropping the wrapper rolls back. Isolation is READ COMMITTED: each statement
sees what is committed when it starts. Services read other domains through a
*second* pool connection (`user_repo::find_by_id(pool, ..)`), write audit rows
there, and publish an event to an in-process broadcast bus, all before the commit.
So components interact through shared rows (`users` above all), and the hard
behaviour of the platform is what two handlers do to the same row, what a handler that
stops half-way leaves behind, and what the stores outside PostgreSQL (Redis, the bus, the
memory of an instance) forget.

| Component | State | Operations | Hard behaviour | What makes it correct |
|---|---|---|---|---|
| attestations | visit_attestations, visit_signatures, reviewer_assignment_log, attestation_attempts, users.verification_status | initiate, staff_sign, reviewer_sign, reject | two reviewers at once, stale reads before unconditional updates, an aborted transaction taken for a success | nobody is attested without two signatures over one evidence, approval is never missed nor doubled |
| soultokens | soultokens, soultoken_renewals, users.soultoken_id | issue, revoke, surrender, renew | double issue, issue against revocation | at most one active token, only attested holders |
| users | users row | ban, unban, erase, export | a ban waits on its own row through a second connection | a banned or erased user keeps no active token, every request ends |
| identity_credentials, background_checks | credentials, cooling events, checks | initiate, webhook, app open | duplicated and reordered webhooks, day boundary | cooling is completed only by its rule |
| presence | presence_events, presence_thresholds | dwell, tap | read-modify-write counters | three events on three days before promotion |
| staff | staff_roles, staff_visits, assessments | grant, schedule, arrive, complete, assess | status read then unconditional update; failures counted before the insert | a visit runs scheduled → in_progress → completed; enough failures suspend |
| beacons, businesses | businesses, beacons, keys, UUID log | register, create, rotate, daily UUID | a UUID derived from a key read before a rotation; the cap counted before the insert | what is logged was current, the cap is exceeded by racers only |
| orders | orders, visit_boxes | create, activate, assign, collect, cancel | two taps of one box, cancel against collect | a box is collected once, by its order |
| whisked_orders | whisked_orders, Stripe payment intent | place, status, validate pick-up | crash between capture and update, double scan | collected iff captured, once |
| support | support_bookings, gift_box_history | book, attend, resolve, cancel | overbooking, double resolution | capacity, one gift per period |
| attestation_tokens | tokens, verification attempts | issue, verify, revoke | a verification without a transaction, against revocation, expiry and the attempt limit | a dead token never verifies again |
| auth, middleware, retention | JWT revocations, magic links, nonces, rate windows | login, logout, check, prune | Redis failures, fallback per process | a revoked token is refused, a nonce is used once |
| billing, platform_configuration | subscriptions, configuration and history | webhooks, update | reordered webhooks, lost update | history matches the values |
| event bus, audit | broadcast channels, append-only rows | publish, consume, stream, write | lag, a saturated pool, shutdown and crash | no gap that nothing explains, nobody waits for ever |
| verification_events, integrations, menu, analytics, dorotka | – | appends, HTTP clients, CRUD, aggregates, proxy | – | not protocols |

`PROJECT.json` lists each with its sources and status, and under `hazards` every
hard-to-test behaviour we met with its line.

## 2. What is modelled

### `TwoPersonRule` – the abstract promise

Dossiers with two distinct judges, consents to evidence, attested subjects. A
subject becomes attested only in the step in which the second judge of one
dossier consents to the very evidence the first one consented to, and always in
that step. A subject may stop being attested at any time (`Withdraw`): rejection
demotes unconditionally in the code.

### `Attestation` – the workflow as implemented

Each handler is two steps. A *Read* step evaluates the handler's guards on the
committed state and keeps in `tx[s]` what later statements use; the other step
applies all writes of the handler and commits them, under the database's
constraints. Between the two any other handler of `Sessions` may run.

| Code | Model |
|---|---|
| `initiate_attestation` | `InitiateRead`, then `InitiateCommit`, or `InitiateLost` when a log insert hits UNIQUE (visit_id, reviewer_id), or `InitiateRefused` when the trigger raises |
| `assign_reviewers_for_visit` | `Cosigns`, `OpenPairs`, `IsFirstPair`; the eligibility query is any set of `Rosters` without the visit's own delivery worker |
| `staff_sign` | `StaffSignRead`, `StaffSignCommit` (`StaffSigned` is the UPDATE with its COALESCE) |
| `reviewer_sign` | `ReviewerSignRead` takes the row lock (`SELECT .. FOR UPDATE`) and runs all checks; `ReviewerSignFirst` / `ReviewerSignSecond` commit |
| `reject_attestation` | `RejectRead`, `RejectCommit` |
| error returns, dropped requests, crashes | a Read step that is not enabled, `Rollback` |
| the 48-hour deadline, the seven-day window, the end of a visit | `DeadlinePasses`, `WeekPasses`, `VisitEnds` |

Why two steps are enough. Under READ COMMITTED the guards of `staff_sign` and
`reject` are evaluated on one read of the attestation row, and their writes become
visible together at commit; only where the commit falls relative to other commits
matters. Later statements of `initiate` read rows that no handler ever deletes, or
(user status, active attestations, candidates) give one consistent observation in
the model where the code makes several in sequence; splitting them would only let
more initiations through to the insert, where the trigger and the log's key decide
again, as they do here. `reviewer_sign` holds the row lock from its first statement to
commit, so nothing it reads can change; `RowFree` makes every writer of the row wait.

Data abstraction. A signature is the payload it was made over: the row's id stands
for visit and user, next to the photo hash; Ed25519 verification is equality of
payloads, and a stored signature is one that verified (`reviewer_sign` verifies
before it stores). Rejection reasons, the evidence hash a reviewer reports, storage
URIs and timestamps are left out, the deadline is the flag `overdue`, and `signed_at`
within seven days is membership of `recent`. The presence threshold checked by
`initiate` is a column no attestation handler changes: enumerated users have met it.

The database role is the one the tests and development use (BYPASSRLS, see
`domain/src/transaction.rs`), here and in every module.

### Properties

* `TypeOK` – types, CHECK constraints, ids from the sequence.
* `ApprovedIsCosigned` – an approved row has both co-signatures over the row *as
  stored now*. `staff_sign` may replace the photo under a reviewer's feet; the
  aggregated re-verification in `reviewer_sign` is what keeps this true.
* `AttestedIsCosigned` – no attested user without a co-signed attestation, although
  `staff_sign` and `reject` overwrite statuses they read earlier.
* `ApprovedOnceBothSigned` – the history has one approval exactly when both have
  signed; this is what the row lock buys.
* `ReviewerServesOneAttestation` – signatures are keyed by visit and reviewer, not by
  attestation. It holds only because the log insert that fails aborts the
  initiation; repairing the swallowed error without more would break it.
* `ImplementsTwoPersonRule` – refinement of `TwoPersonRule`: dossiers are persisted
  rows, consents stored signatures, attested the users with that status.
* `IInv` – the inductive invariant used by the proofs.

### `WhiskedSale` and `WhiskedOrder` – placement, timeline, pick-up

`WhiskedSale` is the promise of the counter: an order is handed over once, one with an
open bill only after its charge, and nothing is charged once handed over.

`WhiskedOrder` models the code. The staff handlers have no transaction: read, capture and
conditional update are separate steps on a pooled connection, so each is an action,
and `Drop` may end a handler between any two (the 30 s `TimeoutLayer` of `app.rs`, a client
that disconnects, a crash; a lost answer of Stripe is `Capture` followed by `Drop`).

| Code (`whisked_orders/service.rs`) | Actions |
|---|---|
| `place_order`, up to the PaymentIntent | `PlaceAuthorize` |
| `place_order`, INSERT and commit | `PlaceCommit` under the partial unique index `CodeFree`; `PlaceCollision`, because a unique violation aborts the transaction and the loop of `mint_order` cannot go on in it |
| `update_order_status` | `UpdateRead` (the `matches!`), `UpdateWrite` (unconditional) |
| `validate_pickup` | `ValidateRead`, `Capture` / `CaptureRefused`, `Collect` / `CollectConflict` |
| Stripe and the customer (external) | `ClientConfirms`, `AuthorizationExpires` |

The cart's validation and arithmetic, ownership and a wrong code answer an error and
write nothing; listings and lookups only read. Whether a Stripe key is configured is
chosen once (`stripeKey`). Order ids are any unused id: the sequence's order matters to
nothing here.

* `ImplementsSale` – refinement of `WhiskedSale`. A stale `UpdateWrite` can turn a collected
  order back to `ready`; only `pickup_code_used_at IS NULL` in the last UPDATE keeps it from
  being handed out again (the mutant drops it).
* `AuthorizedIsSettled` – an authorized payment is captured or lapses; without Stripe an
  order is handed over.
* `IInv` – codes and PaymentIntents identify one order; used, handed over and paid agree.

### `Credential` and `Lifecycle` – what the chain of verification earns, and loses

`Credential` is what a third party relies on when it is shown a soultoken: the holder never
changes, the signature covers the date on record, a revocation is final, and only a token that
is not revoked is renewed.

`Lifecycle` models the users row over its life: the status that identity, presence and
attestation drive, the tokens issued on it, and bans and erasures.

| Code | Actions |
|---|---|
| `identity_credentials::initiate_verification` | `IdentityConfirmed` |
| `presence::advance_threshold` when it promotes | `PresenceMet` |
| `initiate_attestation`; second `reviewer_sign`; `reject_attestation` | `AttestationInitiated`, `Approved`, `Rejected` |
| `issue_soultoken` | `IssueRead`, `IssueCommit` |
| `renew_soultoken` and the trigger on soultoken_renewals | `RenewRead`, `RenewCommit`, `RenewRefused` |
| `revoke_soultoken`, `surrender_soultoken` | `RevokeRead`, `SurrenderRead`, `RevokeCommit` |
| `request_erasure` | `EraseRead`, `EraseCommit` |
| `admin_ban_user`, `admin_unban_user` | `BanMark`, `BanSkipsRevoke`, `BanCommit`, `Unban` |
| error returns, dropped requests, crashes | a guard that fails, `Drop` |
| the passage of time against `expires_at` | `Tick` |

The first three rows are the *interface* of other components, one step each: their inner
races are the subject of `Screening`, `Presence` and `Attestation`. `attesting` counts the
user's pending attestations, because one that is still open decides over whatever status the user
has by then. The soultoken and user handlers are a read and a commit, as in `Attestation`.
A ban holds the users row from `BanMark` on (`Locked`), and every other commit writes that row and
waits for it. `req[s].op = "banRevoke"` is the handler that awaits
`revoke_soultoken` on a second connection while it holds the row; no step of the revocation is
enabled there, as in PostgreSQL. A signature is the
expiry date it was made over. Days are ticks of `now`, and 365 days are `Validity` ticks. Where
a user has several active tokens (two concurrent issues), `LIMIT 1` picks one and the model any.

* `IInv` – `PointerIsLive`: `users.soultoken_id` is NULL or a token of that user that is not
  revoked, although revocations write by id without looking again; `WaitingBanHoldsToken`: the
  token a waiting ban would revoke stays live, so nobody else can resolve the wait;
  `RowLockIsExclusive`; `SignatureCoversExpiry`.
* `ImplementsCredential` – refinement of `Credential`. A renewal that read its token before it
  was revoked is stopped by the trigger alone (the mutant drops it).

### `Verification` – the ground of the next three modules

The calendar, the users' status and the table of running handlers. `Presence`, `Collection` and
`Screening` extend it, so that one module can hold the proofs about all of them. A suffix tells
their operators apart where each has its own (`InitS`, `NextS`, `SpecS`, `TypeOKS` in `Screening`).

### `Presence` and `Collection` – dwells, taps, boxes and orders

`Presence` records dwells and taps and advances the user's one threshold row; `Collection`
EXTENDS it with the orders whose boxes the same taps open, because `collect_order` and
`record_nfc_tap` write the same `visit_boxes` rows, one with a guard, the other without.

| Code | Actions |
|---|---|
| `record_beacon_dwell` | `DwellRecord`, then `Commit` |
| `record_nfc_tap` | `TapRead` (the box is untapped), `TapRecord` (the unconditional UPDATE, which locks the box), `Commit` |
| `advance_threshold`, the promotion | `Commit`: from the upsert that locks the threshold row to COMMIT |
| `orders::activate_box`, the end of its window | `ActivateBox`, `WindowEnds` |
| `create_order` | `CreateOrder` |
| `collect_order` | `CollectRead`, `CollectTap` (`tap_box`, with its guard), `CollectCommit` |
| `cancel_order` | `CancelRead`, `CancelCommit` |
| identity confirmation, attestation (other components) | `StatusMoves` |

The count of the day's events is taken before the threshold row is locked, and is kept in
`req[s]` until `Commit`. Events that do not qualify are rows nothing else reads and are left
out, as are the clone records, none of which is ever committed.

* `EventsCounted`, `DaysCovered` – no advance is lost or made twice however many handlers of a
  user overlap, and a day on which the user qualified is never missed.
* `TapsOverlap` – only taps that overlapped can both have used one box.
* `OneOrderPerBox`, `HandedOver` – a box pays out one order; a collected order names the box
  handed over for it, although orders and boxes are updated by id after stale reads.

### `Screening` – identity, cooling and background checks

| Code | Actions |
|---|---|
| `initiate_verification` | `VerifyRead`, `VerifyCommit` |
| `record_app_open` | `OpenRead`, `OpenCommit` |
| `initiate_check` | `CheckRead`, `CheckCommit` under the index of migration 010; the loser is dropped |
| `handle_webhook` of a check | `CheckWebhook`: any status, `pending` included, at any time, any number of times |
| presence, bans, revocations (other components) | `StatusMovesS` |

A webhook has no transaction and one UPDATE, so it is one step. It writes whatever status the provider
names, before it looks at it: one that sets a check `pending` while another of its user and type is
fails on the index, as an initiation does (`UniqueIndex`). "Latest" is by `created_at`, which
is the *start* of the inserting transaction: rows are numbered when their handler reads.

* `ChecksAreSound` – a check belongs to a credential of its user that had cooled, and at most
  one check of a type is pending, whatever initiations race and whatever webhooks set back to pending.
* `CoolingEarned` – a cooling period ends on enough days and not before its end.
* `CriminalAfterClearance` – a criminal check is opened only after both screenings passed.

### `Visits` and `Support` – staff visits, bookings, gift boxes

`Visits` has roles (`GrantRead`, `GrantCommit`, `RoleExpires`) and visits (`Schedule`, `ArriveRead`,
`ArriveCommit`, `CompleteRead`, `CompleteCommit`); `Support` EXTENDS it with the bookings made at
visits.

| Code | Actions |
|---|---|
| `create_booking` | `BookRead` (counts the active bookings), `BookCommit` under the partial unique index |
| `attend_booking`, `cancel_booking` | `AttendRead`, `AttendCommit`; `CancelRead`, `CancelCommit` |
| `resolve_booking` | `ResolveRead`, `ResolveWrite` (its UPDATE locks the booking, then it reads whether the platform pays), `ResolveCommit` |
| dropped requests, the calendar | `Drop`, `NextMonth` |

`Indexed` are the rows of the index, uncommitted ones included: an insert that conflicts with one
waits, and the model lets it go on when the other has ended. No handler spans a month.

* `OverbookedByRacers` – a visit without room has no booking, any other exceeds its capacity by
  at most the handlers that ran together less one. In the run two handlers fill a visit of capacity 1
  with two bookings, and a third user, whose booking would exceed the bound, comes too late.
* `GiftSpacing` – a gift the platform pays for comes six months after every one that was
  committed when its handler read the eligibility.
* `IInv` – in addition one active booking of a user at a visit, whatever cancelled booking a
  stale `attend` brings back.

### `Businesses` and `Beacons` – the cap, suspension, keys

| Code | Actions |
|---|---|
| `businesses::create_business` | `RegisterRead` (cap), `RegisterCommit` |
| `staff::submit_quality_assessment` that fails | `FailRead` (counts), `FailCommit` (inserts, suspends) |
| `create_beacon`, `rotate_key` | `InstallRead`, `InstallCommit`; `RotateRead`, `RotateCommit` |
| `get_daily_uuid` | `UuidRead` (derives from the key read), `UuidCommit` (ON CONFLICT DO NOTHING) |
| the holder's status, the calendar | `StandingChanges`, `NextDay` |

No handler spans midnight (`NextDay` waits for them), which is what lets `LoggedWasCurrent` speak of
days; `current` is the history of the keys each beacon had on each day.

* `CapOverrunByRacers`, `SuspendedForCause`, `SuspendedAtLast` – both rules count and then insert;
  each is missed by at most the handlers that counted together, and never applied without cause.
* `LoggedWasCurrent` – the UUID logged for a day derives from a key the beacon had on that day.

### `Disclosure` – attestation tokens

`issue_token` and `revoke_my_token` are a read and a commit. `verify_token` has *no*
transaction: `Lookup`, `CountAttempts`, `Mark` and `Record` each commit on their own, and the first
result is never looked at again; `Drop` may end it after any of them.

* `DeadStaysDead` – a token that was used or revoked is never verified again once no handler is
  left that had found it valid; `UsedByRacers` (in `IInv`) – it is used more than once only
  by handlers that ran together when it was first marked.
* `OverLimitByRacers` – what a business has on record within a minute exceeds the limit by at
  most the handlers that counted together.

### `Server` – the ground of the next modules

The clock, the state of Redis and the table of running handlers, which `Access` and `Admission`
extend. Names ending in `A` belong to `Access` (`RestartA`, `OutageA`, `TickA`, `SpecA`), in `N` to
`Announcements` (`SpecN`), which has a clock and handlers of its own and shares nothing but the module
of the proofs.

### `Access` – magic links, Apple sign-in, tokens, logout

PostgreSQL holds accounts and links, Redis (`absent`, `up` or `down`) the logged-out tokens and
the counters of addresses, an instance the logouts Redis did not take.

| Code (`auth/service.rs`, `auth/mod.rs`) | Actions |
|---|---|
| `request_magic_link` | `Count` or `Uncounted` (INCR succeeds, or fails with or without effect), `SetExpiry`, `FindOrCreate`, `Mint` |
| `verify_magic_link` | `Claim` (one conditional UPDATE), `ReadUser`, `Sign` |
| `authenticate_apple` | `AppleSignIn`, `Sign` |
| `RequireClaims`, `RequireUser` | `Admit` (signature with leeway, Redis, local list), `BanRead` |
| `logout`, `revoke_token` | `Revoke` |
| `admin_ban_user`, `admin_unban_user` | `Ban`, `Unban` |
| deployment, Redis, clock, retention | `RestartA`, `OutageA`, `TickA`, `PruneLinks` |

* `LinkSignsOnce` – a link yields one token, however many open it at once and whatever is pruned.
* `LinksAreSpaced` – requests that pass the counter of an address are its period apart, although
  the counter is made and given its expiry in two calls.
* `LogoutHolds` – when an unexpired token that logged out is admitted: Redis answers and never got
  the logout; or Redis is absent or down, and the instance that is asked did not record the logout
  itself or has restarted since. Redis that got it refuses while it answers, and the instance that
  recorded it refuses while Redis does not. Each exception is reachable; there is no further one.

### `Settings` and `Admission` – configuration and the way in of a signed request

`Settings` is one integer key: `Seed` at every start, `EditRead`, `EditCommit` (value and history row),
`EditDrop`. `Admission` EXTENDS it with copies of signed requests: `Arrive` (the date within
`MAX_SKEW_SECS`), `Reserve` (the nonce, in Redis or in the cache of the process), `ReadLimit`, `Hit`
(the counter of the window), with `Restart`, `Outage` and `Tick` in between. The history `handled`
survives a restart, which only marks in it the nonces that went with the process.

* `HandledAgain` – a request reaches its handler twice only `Skew` apart, and only if it was dated
  ahead or held between the two checks: the nonce is remembered from when it was seen, the
  date may be as far in the future. Or Redis is not configured, and the server restarted in
  between (`Forgotten`): then a copy may be handled again at once.
* `LimitHolds` – a window lets through no more than the highest limit one of its requests was told.
* `HistoryTellsValue` – the last committed edit made the value what it is, and each row names as
  previous the value its handler saw, which is the one it replaced unless another edit overtook it.

### `Announcements` – the event bus, audit trail and notification streams

A handler holds one connection (`Begin`), writes its audit row on a second (`AuditOnPool`, or
`AuditFails`, for want of a connection within the acquire timeout or by any other error of the
INSERT, which `audit::write` logs and swallows), sends its event (`Publish`) and only then commits
(`Commit`, `Rollback`). A row that is inlined in the transaction comes with its commit; an error of
its INSERT aborts the transaction, which is `Rollback`. `unrecorded` holds the rows whose failure
was logged. The one consumer takes events (`Receive`, or `Lag` when the ring has gone round), looks
up a business (`LookUp`), notifies (`Notify`) and writes its own row (`WriteRow`, whose INSERT may
fail at any time too). Clients `Connect`, `Deliver`, `SkipLagged`, `Disconnect`. The process gets a
`Signal`, drains, `Stop`s, or is killed (`Kill`), and `Boot`s with empty rings. The semantics of the
ring are those of tokio's broadcast channel, external to the repository.

* `TrailCoversCommits` – committed work has its handler's audit row, written before or with it, unless
  the write failed and the log says so; an inlined row is there exactly when the work is committed.
* `GapsAreExplained` – what the consumer has passed has exactly one account: a row, the logged
  failure of its write, a Lagged warning, or a silent kind.
* `AuditedWasOffered` – a client that has not lagged was offered what the trail shows of its user.
* `EveryRequestEnds`, `EverySentIsFinished` – handlers that each hold a connection and want another
  do not wait for ever; while the process lives every event sent is finished with, and no
  client can hold that up.

## 3. Runs

Twelve runs; the check of each property is paired with a mutant of a mapped definition
(`PROJECT.json`), which is a `Slip` operator beside the definition it replaces.

| Run | Instance | Shows |
|---|---|---|
| `attestation_races` | 1 visit, 1 user, 1 attestation, 3 sessions, 2 photos | `ApprovedIsCosigned`, `AttestedIsCosigned`, `ApprovedOnceBothSigned` and the refinement `ImplementsTwoPersonRule`, in every interleaving of three handlers on one row, with up to three photo hashes |
| `attestation_visit` | 1 visit, 2 users, 2 attestations, 2 sessions | `ReviewerServesOneAttestation`, `IInv`: overlapping ({1,2}) and disjoint ({3,4}) pairs, co-sign limit reached, initiation refused, lost and committed |
| `whisked` | 2 orders, 2 intents, 2 codes, 2 handlers, Stripe on and off | `IInv`, the refinement `ImplementsSale`, and `AuthorizedIsSettled` under fairness |
| `lifecycle` | 1 user, 2 tokens, 3 handlers, 2 open attestations, clock to 2 | `IInv`, the refinement `ImplementsCredential` |
| `collection` | 1 user, 1 business, 2 boxes, 3 events, 2 orders, 2 handlers, days 0–2 | `EventsCounted`, `DaysCovered`, `TapsOverlap`, `OneOrderPerBox`, `HandedOver` |
| `screening` | 1 user, 2 Stripe sessions, 2 credentials, 3 checks, 2 handlers, days 1–3 | `ChecksAreSound`, `CoolingEarned`, `CriminalAfterClearance` |
| `support` | 3 users, 1 staff, 2 visits, 3 bookings, 2 gifts, 2 handlers, months 0–1, within `MCBound` | `IInv`, `OverbookedByRacers`, `GiftSpacing` |
| `beacons` | 1 holder, 1 admin, 3 businesses, 3 failures, 1 beacon, 3 keys, 2 handlers, days 0–1 | `CapOverrunByRacers`, `SuspendedForCause`, `SuspendedAtLast`, `LoggedWasCurrent` |
| `disclosure` | 1 user, 1 business and the anonymous verifier, 2 tokens, 3 attempts, 2 handlers | `IInv`, `OverLimitByRacers`, `DeadStaysDead` |
| `access` | 1 user, 1 link, 2 tokens, 2 instances, 2 handlers, Redis absent, up or down | `LinkSignsOnce`, `LinksAreSpaced`, `LogoutHolds` |
| `admission` | 2 requests dated 0 and 1, 2 copies at a time, 2 handlings and the third that follows (`MCBound`), 2 editors, 2 edits to 0 or 1, clock to 2 | `HandledAgain`, `LimitHolds`, `HistoryTellsValue` |
| `announcements` | 2 handlers, 1 client, 2 connections, rings of one slot, 2 events, 2 starts | `TrailCoversCommits`, `GapsAreExplained`, `AuditedWasOffered`, `EveryRequestEnds`, `EverySentIsFinished` |

**Bounds.** The `Max…` constants cap ids and clocks in the guards of the actions that allocate or
advance; the sets of ids (`TokenIds`, `EventIds`, …) do so by running out. Two handlers on one row
are enough for the races of a read with a write that follows it: each handler has at most one
stale read that matters, and one rival falsifies it. Three are used where a lock holder and two
writers with stale reads meet (`attestation_races`) or a renewal, a revocation and a ban
(`lifecycle`). Where a property bounds the damage by the number of handlers ("ByRacers"), two
handlers attain the bound, and the theorem of section 5 covers any number. Periods of days
or seconds are one or two ticks, thresholds 1 or 2, so that each is reached and passed within the
clock. A ring of one slot makes a receiver lag behind the second event, where 256 slots take 257.

`attestation_*`: `CosignLimit` is 0 instead of 3, so that the limit is met after one shared visit
rather than four (the code compares `cosign <= 3`, here `<= CosignLimit`); reviewers are 1 to 5,
user 5 is also the delivery worker. Two attestations suffice for key clashes on a visit. `whisked`:
the second order makes code collisions and intents of uncommitted placements happen. `lifecycle`: no
handler reads or writes two users' rows, so there is one; `Validity` is 2, so that a token can be
renewed to a *later* date and still expire within `MaxNow`. `collection`: two events or two days
meet the threshold, the third event comes after the promotion. `screening`: two of the sanctions,
identity-fraud and criminal checks leave room for a check that is repeated. Webhooks report `passed`
or `pending`: every guard asks only for these two, so that `failed` is to them what a pass that has
lapsed is, and the run has those; the theorems allow all five statuses. `support`: capacities 0 and
1; `MCBound`, a CONSTRAINT, keeps the two ways of racing apart: three users and three bookings for
one visit, or two bookings of one user over two visits. `beacons`: `Cap` 1 and `FailLimit` 2, with a
third business and a third failure beyond what racers may add. `disclosure`: `Limit` 0, since the
code lets a request through when the count is *at most* the limit read before it. `access`: all
durations are one tick, `Leeway` too, so that an expired token is still within it. `admission`:
`Skew` 2 against a clock to 2, with a request dated one tick ahead; the default and the edits raise
and lower the limit between 0 and 1. `MaxHandled` 2 lets a request through a second time, and
`MCBound`, a CONSTRAINT, goes on after two handlings of both together: enough for a copy that is
handled again and for two requests under a limit of one.

Symmetry is over handlers and other model values that nothing orders, never over reviewers,
whose order the pairing uses, and not at all in the runs that check liveness (`whisked`,
`announcements`). Deadlock checking is off throughout: once the ids are handed out and the clock
has run, the bounded system stops.

**Fairness in `WhiskedOrder`.** Weak on every running handler: it goes on or is dropped (the
timeout layer sees to it). Strong on `Capture`, `Collect`, `UpdateWrite`, and per order on the
staff's reads: the staff advance and rescan an order as long as it can be, and not
every try is dropped or refused. This is what the comment on retries in
`validate_pickup` presumes of its users. Nothing is assumed of customers.

**Fairness in `Announcements`.** Weak on the consumer and on every handler's next step: the runtime
polls a task that can go on, and the acquire timeout of 5 s ends every wait for a connection, so
a waiting handler always has a step. Nothing is assumed of clients, of signals or of starts.

No fairness is assumed elsewhere: handlers are driven by clients who may never call, so no
liveness property is stated. `ApprovedOnceBothSigned` states "not missed" as safety.

## 4. Seen while modelling

What the models show about the code beyond the properties. All of it is behaviour the modules
contain; the properties say what holds nevertheless. None has a run of its own.

*Attestations.* A second initiation on a visit with an overlapping reviewer is answered 201 and lost:
`let _ = log_reviewer_assignment(..)` ignores an error that aborted the transaction. A stale
`staff_sign` or `reject` may land after an approval. A staff signature need not verify over a photo
another `staff_sign` stored. A user with attestations on two visits can be approved twice.

*Lifecycle.* A ban of a user with an active token waits for its own row lock, through a revocation
on a second connection, until the request times out. Revocation and surrender send the user
back to `registered`, but the one threshold row is met already and never promotes again. Two
concurrent issues leave two active tokens; an issue that races an erasure or a ban leaves an
erased or banned user with one. Where the pool has no second connection for the ban's revocation,
the ban commits and the token stays active (`BanSkipsRevoke`).

*Whisked orders.* A scan dropped between capture and UPDATE leaves a charged order that no later scan
can collect, since a second capture is refused and the intent's status is not looked at. The
retry loop of `mint_order` never retries successfully (`PlaceCollision`). A stale `UpdateWrite` moves
an order against the timeline, `collected` to `ready` included.

*Presence and orders.* Two overlapping taps of one day may count as two days, so `DaysCovered` bounds
`days_count` from below and by the events only. A stale `record_nfc_tap` overwrites who tapped a
box first. A collected order can be cancelled by a handler that read it before.

*Screening.* One Stripe session may be recorded twice (the check in `identity_credentials/service.rs:89`
is a read). A webhook that is delivered again starts a new year of validity, and one that says
`pending` takes a decided check back. `create_check` never sets
`external_check_id`, by which webhooks find a check: the model takes it as set.

*Staff, support, businesses.* Two concurrent grants leave two active roles. Two bookings of a user
resolved together are both paid by the platform. `beacon_suspended` is written and read by no guard.

*Beacons.* After a rotation `get_daily_uuid` keeps the UUID logged earlier on that day (ON CONFLICT DO
NOTHING), and `previous_secret_key`, whose 24 hours of grace rule 4 above `rotate_key` describes, is
never consulted.

*Attestation tokens.* A verification stopped by the rate limit is an error without a log row, and an
error of the log insert is dropped, against "All attempts are logged regardless of outcome".

*Access.* A logout at or after `exp` is a no-op although the JWT library accepts the token for its
leeway. The logouts an instance kept while Redis was down are not consulted once it is back, and
those that Redis has are unknown while it is down. If the EXPIRE after INCR is lost, the counter of
the address never goes, and so it is with the limiter per address. A counter that cannot be reached
does not stop a link.

*Settings and admission.* The history is read ORDER BY `changed_at`, the start of the transaction, so
that the row of the last commit need not be on top. The nonce is kept 300 seconds and the date may
be 300 seconds ahead, which is what `HandledAgain` quantifies; without Redis the nonces of a
process go with it, and a copy is handled again right after a restart. An edit that another one
overtook names as previous a value it did not replace.

*Announcements.* Events sent and not yet handled are lost at every stop. A row whose INSERT fails is
missing for good, and only the log says so. Event and pool audit row
precede the commit, and stay when it fails. A graceful shutdown waits for the clients of the
notification stream to leave.

## 5. Proofs

`Attestation_proofs` proves, for all sets of users, reviewers, visits, photos and
sessions and all bounds, from the assumptions named in `Attestation` (reviewer ids and staff
ids are naturals, rosters are sets of reviewers, bounds are naturals, "no signature" is
no payload): `TypeCorrect` (`Spec => []TypeOK`), `Invariance` (`Spec => []IInv`), and from it
`ApprovedIsCosignedAlways`, `AttestedIsCosignedAlways`, `ReviewerServesOneAttestationAlways` and
`ApprovedOnceBothSignedAlways`. None of the four is inductive alone. The signature of a reviewer
counts for attestation `a` because it lies under (visit of `a`, reviewer); that it was made
*for* `a` needs `ReviewerServesOneAttestation`, which needs `LogCoversAssignments` (every
assignment is in the keyed log), and a fresh attestation has no signatures because of
`SignersAreAssigned`. That the second signer commits on what it read needs
`OpenSignIsFresh` for every open `reviewer_sign`: its row, photo and the other slot are
unchanged. That follows from `RowFree` for row writes, and from `LockIsExclusive` with the two
facts above for signature slots. `ReviewersDiffer` makes "the other reviewer" exist.
The proof splits `IInv` into `RowsInv` (committed rows) and `OpenInv` (open
transactions); `StaysFresh` and `OthersStayFresh` are the frame lemmas every action
uses, then there is one lemma per writing action.

The same module proves `Refinement`: `Spec => ImplementsTwoPersonRule`. A dossier
is an attestation with its two assigned reviewers, a consent is a stored reviewer
signature, and the attested people are the users in that status. `MappedActions` writes the
abstract actions in those terms; then one lemma per kind of step shows which abstract
action it takes (`InitiateCommit` opens a dossier, the first and the second signature are
`ConsentFirst` and `ConsentSecond`, a rejection withdraws or stutters), and every other
step stutters (`StutterRefines`). `RowsInv` turns "the other slot is signed" into "the other
judge consented to this dossier"; `OpenInv` carries what a transaction read to its commit.

`WhiskedOrder_proofs` proves, for all sets of orders, intents, codes and handlers, from
`NoIntentAssumption` (NULL is no intent): `TypeCorrect`, `Invariance` (`Spec => []IInv`) and
`SaleRefinement` (`Spec => ImplementsSale`). The hand-over is once because the counter equals
the used flag (`UsedIsHanded`); it is paid because a handler in its collect phase holds a paid
order (`UsedIsPaid`), and captured is final; a capture charges one order only because no intent
is shared and none of a running placement was ever confirmed (`IntentsDiffer`).

`Lifecycle_proofs` proves, for all sets of users, tokens and handlers, all validities and bounds,
from `NoTokenAssumption` and `NatAssumption`: `TypeCorrect`, `Invariance` (`Spec => []IInv`) and
`CredentialRefinement` (`Spec => ImplementsCredential`). `PointerIsLive` survives a revocation because
a pointer to the revoked token can only be its holder's, and that one is reset in the same
commit. A waiting ban keeps its pointer because every commit that would reset it finds the row
`Locked`, and a second ban of the same user does too. The frame of a handler that ends is one
lemma (`EndKeepsBans`); each commit adds only what it writes.

Four modules share an argument: **what racers may add is counted before it is added.** A
rule that counts and then inserts is no invariant; the sum of what is committed and of
the handlers let through but not yet done is. It grows only by a handler that has just found
the count below the limit, which makes one more than the count at the worst, and then all
other handlers together can add no more than their number. Each needs the handlers to be a
finite set, which the modules assume, and lemmas on the cardinality of a set a step adds to,
removes from or leaves alone, proved from the library's `FiniteSetTheorems`.

* `Disclosure_proofs`: `Invariance`, `OverLimitByRacersAlways`, `DeadStaysDeadAlways`. `CountedTogether`
  sums a business's successes on record within a minute and the handlers that hold a grant
  (`Granted`); `UsedByRacers` does so for the marks of a token. The clock only takes attempts
  out of the window.
* `Beacons_proofs` (for `Businesses` too): `Invariance`, `CapOverrunByRacersAlways`,
  `SuspendedForCauseAlways`, `SuspendedAtLastAlways`, `LoggedWasCurrentAlways`. `CapCounted` is held plus
  registering; `MissedByRacers` is recent failures plus handlers whose count was too low;
  `PriorIsPast` (a count can only be too low while its handler runs) gives the cause of a
  suspension; `KeysWitnessed` says that the history holds the key a handler read.
* `Support_proofs`: `Invariance`, `OverbookedByRacersAlways`, `GiftSpacingAlways`. What may be active at a
  visit is larger than what is: a stale `attend` or `resolve` revives a cancelled booking.
  `Potential` adds those to the active ones, `Entering` the handlers let through. `IndexIsUnique`
  follows from the index at every write; `GiftsDefer` relates each gift to the date on which its
  user is eligible again, and to the gifts its handler saw.
* `Verification_proofs`, first half (for `Presence` and `Collection`): `EventsAlwaysCounted`,
  `DaysAlwaysCovered`, `TapsAlwaysOverlap`, `OneOrderAlwaysPerBox`, `AlwaysHandedOver`, all from
  `CollectionInv`. `event_count` is the cardinality of the user's committed events because the
  threshold row is locked from the upsert to COMMIT; `days_count` may run ahead of the days, and never
  behind, because an event that adds no day found that day there when it counted (`SeenDays`), and no
  event is ever deleted. `TapsOverlap` adds the handlers that still hold a stale read of a box to the
  events the box has; it is inductive with `UsedIsTapped`, since a box with an event is never read as
  untapped again. `OneOrderPerBox` rests on `RowsLocked`: the handler that collects holds the
  row, and found the box untapped.

`Verification_proofs`, second half (for `Screening`): `ChecksAlwaysSound`, `CoolingAlwaysEarned`,
`CriminalAlwaysAfterClearance`, from `ScreeningInv`. A check is inserted on what its handler read
earlier, so `ReadsHold` says which of its reads are stable: a credential that cooled stays cooled, while
a screening that passed may fail later or be followed by another, and what remains is that it *once*
passed (`OnceCleared`). `NumbersFree` keeps the numbers of rows not yet inserted apart, and
`PendingUnique` is the index element by element, kept by initiations and by webhooks that say
`pending`, from which the cardinality in `ChecksAreSound` follows.

`Server_proofs`, first part (for `Settings` and `Admission`): `Invariance`, `HandledAgainAlways`,
`LimitHoldsAlways`, `HistoryTellsValueAlways`. `NoncesKept`: the nonce of a handled request is kept
until `Skew` after, or its process has ended; so a second handling comes later than that or is
`Forgotten`, and `DatedInTime` bounds the date its copy was let in with. `LimitsTold`: the ceiling
is over every limit a copy of this window holds or may be told, and the granted are at most the
ceiling. `EditsFollow`: a handler holds the value there was after the edits it has seen.

`Server_proofs`, second part (for `Access`): `LinkAlwaysSignsOnce` and the action properties
`LinksAlwaysSpaced` and `LogoutAlwaysHolds`, from `AccessInv`. `FreshLinks`: nothing was signed or
is about to be for a link that is unsent or unused, so the one claim starts from nothing; pruned
links are no longer in the table and are never sent again. `CountersKept`: while a counter exists it
outlives the spacing, even when its EXPIRE was lost. `LogoutsKept`: until a token expires its logout
is where `place` says, Redis or an instance, so an admission must have asked elsewhere. For the two
action properties, `Begins` shows which action a handler that starts can have taken.

`Server_proofs`, third part (for `Announcements`): `TrailAlwaysCovers`, `GapsAlwaysExplained` and
`AuditedAlwaysOffered`, for any handlers, clients, kinds, capacities and numbers of starts, from
`AnnouncementsInv`. `RowsFirst`: a handler that writes its row on the pool has tried before it
publishes, so that the row is on the trail or in `unrecorded` when the work commits, and an inlined
row waits for the commit. `EachEventOnce`: an event has one handler and one place on the bus, and the
consumer has not come to it before that place; `OnlyBegun` bounds the ids, so that an event that
begins is new even to the rows that survived a crash. With `SilentPassBy` that makes the accounts of
`GapsAreExplained` exclusive. `NoticeFirst` adds to `AuditedWasOffered` the event whose row is about to
be written: its notice is already out. The frame lemmas (`EventsStay`, `RowsStay`, `GapsStay`,
`NoticesStay`) say what a step that leaves the consumer or the rows alone keeps; each operation
then adds what it writes.

Every invariant and every action property that a run checks is stated by a theorem. Only
model-checked are the liveness properties (`AuthorizedIsSettled`, `EveryRequestEnds`,
`EverySentIsFinished`): they need ENABLED and well-founded induction over data, which the installed
provers cannot do. The theorems speak of the bounded specifications, for every value of the bounds.

## 6. Not modelled

* **billing**: rows that mirror what Stripe says. An update delivered after the deletion revives a
  subscription (listed as a hazard), but what order Stripe meant is in no text of the repository,
  so there is no property to hold the code to.
* **Row-level security**: the policies apply only with a second database role
  (`APP_USER_DATABASE_URL`); the modules describe the role the tests use. Under the other one some
  side writes fail on policies: the assignment log of the delivery worker, and the lookup of
  the consumer of the bus, which then notifies user 0.
* **Redis-side details and per-address limits**: the IP limiter, App Attest, the request log and
  security headers, feature flags that no handler asks for.
* **verification_events, menu, analytics, dorotka, integrations**: appends, CRUD, read-only aggregates,
  HTTP clients; the outcomes of the last are steps of the modules that call them.
* **Deployment files, fuzzing, and the cryptographic primitives.** A signature is the payload it
  was made over, a key an opaque value, a hash the identity of what it stands for.

What would come next: `Attestation` and `Lifecycle` under the row-level-security role, and the
composition of `Lifecycle` with `Attestation` and `Screening`, whose interface steps are now assumed to
be what their own modules show.
