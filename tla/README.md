# RustResort: models, model checking and proofs

RustResort (`src/`) is a single-user ActivityPub server: one process, one SQLite
database, an in-memory cache of the federated timeline, an object store for
media, and a Mastodon-compatible API for the owner. The modules here are
TLA+ models of the parts of it where steps of several actors meet. TLC checks
each on small instances; TLAPS proves the most important properties for every
value of the constants.

To check a run: `tlc -config <run>.cfg <module>` with the module that
`PROJECT.json` names for it. To check the proofs of a module: `tlapm <module>.tla`.

## 1. The system and its components

The process is a tokio runtime. HTTP handlers run at once, and a handler can be
suspended, or dropped because its client went away, at each `.await`. They share
a pool of SQLite connections, the caches, and the object store. A statement is
atomic; a handler is not, unless it opens a transaction (`BEGIN IMMEDIATE`, one
writer at a time). Remote servers post to the inbox, in any order and more than
once. Background tasks deliver activities, synchronise a copy of the database,
and make backups. The process can stop between any two steps; the database and
the bucket remain.

| component | state | operations | interacts with | hard because |
|---|---|---|---|---|
| Idempotent status creation (`api/mastodon/statuses.rs` `create_status`, `idempotency_keys`) | a row per key: reserved or a response | reserve, wait, take over, store, clear, prune by trigger | publishing; SQLite clock | requests with one key race; a reservation names no owner; errors after the commit; cancelled handlers; restarts |
| Publishing, editing, deleting (`statuses.rs`, `service/status.rs`, `database.rs`) | `statuses`, `status_edits`, `status_hashtags`, `media_attachments.status_id` | create, update, delete; history | media, polls, delivery | what is read before the transaction may be stale; several tables must agree |
| Polls (`polls.rs`, `database.rs`) | `polls`, `poll_options`, `poll_votes` | create with a status, vote, expire | publishing | checks in the handler and again in the transaction; the poll may end or go in between |
| Media upload (`service/status.rs` `upload_media`) | object in the bucket, row in `media_attachments` | put, insert, clean up | publishing | two stores, no common transaction |
| Favourites, reposts, bookmarks (`statuses.rs`, `service/status.rs`) | one row per mark, hanging on the row of a status | add, remove, read back, persist a remote status | timeline cache, inbox, delivery | ids are read and rows deleted later; a status may be deleted by its author meanwhile; deliveries overtake each other |
| Follow and Undo in the inbox (`federation/activity.rs`) | `followers`, `notifications` | `handle_follow`, `handle_undo` | remote servers | redelivery, reordering, crash between rows and the Accept |
| Inboxes and signatures (`activitypub.rs`, `signature.rs`) | none | match the keyId, fetch the key, verify, ask the limiter, dispatch | rate limiter, other servers | what is checked against a key that may be replaced meanwhile; quotas must not be charged to others |
| Other inbound activities (`activity.rs`) | `notifications`, cached statuses, `domain_blocks` | Create, Delete, Like, Announce, Accept, Update | caches, notifications, administrator | Delete racing persistence; one Create that is a mention and a reply; a block racing a delivery |
| Outgoing delivery (`federation/delivery.rs`, `federation_delivery.rs`) | a semaphore per batch | resolve an inbox, sign, post, batch over follower inboxes | all handlers that federate, profile cache | tasks without order or retry; a timeout around a batch whose tasks go on |
| Profile cache and discovery (`data/cache.rs`, `federation_delivery.rs`) | a table of profiles by name, with the time of their fetch | warm up, get, get by URI, insert, prune | outgoing delivery, startup | lookups under two names fill it together, with answers that may be slow |
| Inbound rate limiter (`federation/rate_limit.rs`) | a window and a count per domain, bounded | `check_and_increment`, `prune_old` | inbox | window boundaries; eviction |
| Avatar and header (`service/account.rs`) | a key in `account`, objects in the bucket | compare-and-swap update, clean up | bucket | two stores; concurrent updates; failed deletes |
| D1 synchronisation (`data/sync.rs`) | snapshot file, D1 database, hash history | copy, diff, check, execute, promote, prune | `sqlite3`, `sqldiff`, `wrangler` | a cycle may stop at each step; uploads whose answer is lost |
| Backup (`storage/backup.rs`) | objects in a bucket, named by the second | snapshot, seal, upload, clean up, by a timer and by requests | database, bucket | overlapping backups; names that collide; lists that are old |
| Turso replica (`database.rs`) | the library's | a timer task | external service | — |
| Relationships (`accounts.rs`, `database.rs`) | `follows`, blocks, mutes | follow, unfollow, block, mute | delivery, remote actors | several statements per operation |
| OAuth and tokens (`apps.rs`, `auth/middleware.rs`, `database.rs`) | apps, codes, tokens, the setting of a migration | register, consent, exchange, call, revoke, hash at startup | all handlers | single use of a code that two requests have read; expiry between two looks; restarts of the migration |
| Sessions and login (`auth/*.rs`) | none on the server | signed cookie; GitHub round trip | GitHub, OAuth | one cookie for all logins |
| Timelines (`service/timeline.rs`, `timelines.rs`, `bookmarks.rs`, `notifications.rs`, `accounts.rs`) | none | read a page below a row, dropping muted conversations | statuses, marks, lists, mutes | pages are cut by one order and sorted by another; what a cursor points at may go |
| Timeline cache (`data/cache.rs`) | a bounded map | insert, get, remove | inbox, marks | staleness |
| Lists, filters, conversations, scheduled statuses | rows | single statements | timelines | — |
| Documents, metrics, configuration, migrations | — | — | — | — |

What makes each correct is the list of properties in section 3.

`PROJECT.json` lists every component with its sources and status, and the
hazards of the code at their lines.

## 2. Plan

Order: the operations a user or a remote server would notice first.

1. `IdempotencyContract`, `CreateStatus` — done, with proofs.
2. `FollowHandshake` — done, with proofs.
3. `D1Sync` — done, with proofs.
4. `RateLimiter`, `AvatarUpdate` — done, with proofs.
5. `Interactions` — done, with proofs; it composes the handlers with the cache,
   the inbox's Create and Delete, and the deliveries.
6. `PostHistory`, `OwnStatuses` — done, with proofs; publishing, edits, deletion,
   polls and uploads over one database.
7. `Relationships` — done, with proofs.
8. `OAuth` — done, with proofs; logins, consent, codes, tokens, the middleware and
   the migration of tokens.
9. `Inbox` — done, with proofs; it extends `RateLimiter`, and composes signatures, the
   limiter, the blocklist and the handlers.
10. `Delivery`, `Backup`, `Timelines` — done, with proofs.

Every safety property of a run has its theorem now; section 7 says what stays with TLC.

## 3. Modules

Every definition that models code is mapped to its lines under `map` in
`PROJECT.json`. Each module also holds, next to some definitions, a variant
"With a bug": these are what the mutants put in their place to show that the
properties notice such a bug; no specification uses them.

### CreateStatus, implementing IdempotencyContract

`create_status` with an `Idempotency-Key`. A request is a program counter
`pc[r]`, one value for each await that touches the database: `lookup`,
`reserve`, `waitLookup`/`waitReserve` (the loop that waits for another request
with the key), `body`, `read`, `store`/`insert` (UPDATE, then INSERT OR IGNORE,
of `store_idempotency_response`) and `clear`. `row[k]` is `response_json` of
the key: absent, NULL or the response, for which the post that it names stands;
`createdAt` and `now` are the clock of SQLite, which decides when a reservation
may be taken over (5 minutes) and when the trigger of migration 009 deletes a
row (30 days; it runs on INSERT only). The transaction that makes the status is
one step, what is validated before it is the choice `RejectBody`, and what
happens to media and polls in it is the business of `OwnStatuses`.
Faults: a statement fails, the handler is dropped, the server restarts; after the
response is stored its answer may still be lost to one of the last two (`Reply`), and
the contract allows for it.

- `SingleOwner`, `ImplementsContract`: of an execution in which a request that
  holds a reservation ends within the 5 minutes (`prompt`; both values are
  explored). Then a key has one owner at a time and all successful answers
  for a key name one post, which is all that `IdempotencyContract` says.
  Without `prompt` the code does let two requests run the body: a reservation
  carries no owner. That is a limit the constant 5 minutes chooses.
- `AnswersAreCommitted` (proved): no answer, stored or given, names a post that was not
  committed or was made for another key; with and without `prompt`.
- `EveryRequestEnds`, `ReservationResolved`: liveness, see section 5.

### FollowHandshake

`handle_follow` (insert the follower, insert the notification, send the Accept)
and `handle_undo` (read the matching addresses, DELETE by address and Follow
id), each statement a step of one of several handlers. The remote servers are
external: an actor issues Follows with new ids and Undos of the last; a server
posts an activity until it gets a 2xx. `software` says how well a server behaves:
whether it posts in order (and one post of an activity at a time), and whether
its Undo names the Follow by id, as a string, or not at all. Faults: crash, a
failing statement, a lost Accept, a lost answer, a server that gives up.

- `AcceptedIsFollower`: whatever is late or repeated, an accepted Follow stays
  until it is undone, unless an Undo does not say which Follow it means.
- `SettledAgreement`: when nothing is under way, the table says what the remote side
  says, and each follower was notified of once; of servers that
  post in order, each activity until it is answered. With reordering, or when a server
  gives up an Undo, the table and the remote side stay apart: the code has no memory of
  an Undo that overtakes its Follow, and nothing asks for one that never came.

### D1Sync

One cycle of `sync_to_d1`: `Prepare` (VACUUM INTO and the diff or dump),
`CheckKey`, `Execute`, `RemoveSnapshot`, `RenameStaged`, `PruneHistory`; the
server writes at any time, and a cycle may stop at each of the steps (`Stop`): before
D1 has run the file, after it and before the promotion, between the two halves of the
promotion, and before the pruning. A database
is a function from rows to values; a payload is the set of statements that turn
one into another, and its key is the payload with its values canonicalised
(`Canon`): two values that differ only in blank lines and indentation have the same
canonical text. `sqlite3`, `sqldiff` and `wrangler` are external.

Three histories say where an upload went wrong. `last` is the payload that D1 carried
out last and `acked` whether a promotion followed it: until then its rows are
`Unsettled`. When the next cycle makes other SQL they are `adrift`, as are the rows of
a payload that was skipped for an older key, until D1 writes them again or takes a dump.

- `SnapshotIsRemote`: the snapshot agrees with D1 in all other rows, whatever stops
  wherever and however many keys are kept.
- `RetryIsApplied`: a payload with the key of the last upload is applied already, so
  skipping it is right. This is what the keys are for: a lost acknowledgement.
- `EventuallySynced`: when the writes and the stops are over, D1 has the database, but for
  those rows. It excepts a D1 that refuses the diff: a row that went adrift as an INSERT
  is inserted again, the file fails as a whole, and the cycles fail from then on
  until the row changes or the snapshot is removed (`Refused`; section 6).
- `KnownKeyIsApplied`, of any key that is known, does not hold: the run `D1SyncRecur`.

### RateLimiter, and Inbox on top of it

`check_and_increment` holds the write lock throughout, so `Admit` and `Refuse`
are single steps: room is made for a new domain (`WithRoom`: expired entries go,
then an oldest one; ties are open because a HashMap is iterated), then the
count is compared and incremented. `admitted`
is a history variable with which the property counts what was really let
through, against what the table says.

- `TwoWindowBound`: as long as every domain can be tracked.
  The window is fixed and starts with a domain's first request, so one window's
  length may meet two of them, and nearly twice the limit may pass: all but the request
  that opened the first one. The run gets there, with three where the limit is two.
  The comment "sliding window" (`rate_limit.rs:44`) describes something stricter.

`Inbox` is both inbox handlers and `ActivityProcessor::process`. A request `req[r]`
carries the activity of its body, the one its signature was made for, and the key
it was made with; `Take` matches the keyId with the actor, `FetchKey` reads the key
that the actor's document shows then (`published`, which `Rotate` changes), `Judge`
verifies and asks the limiter, `Check` asks the blocklist, and `Handler` says
which handler's statements follow: the notification of a Like or Announce, the
mention and the reply of a Create, the copy for the timeline cache, or the steps of
`handle_delete` (`Find` and `Remove` for the cache, `Row` and `Erase` for the table).
`KeepRead` and `KeepWrite` are the owner's request that persists a cached post. Other
servers sign, deliver late, twice and in any order, and a request may be altered on
its way; `world` says which of this happens in a behaviour.

- `OnlySigned`: what is notified, cached or kept comes from a body its actor signed.
- `ChargedIsFresh`: nothing takes from a domain's share but a request with a recent
  signature by a key that its actor still showed when it was asked for.
- `BlockedIsOut`: once a block is answered, no request of the domain gets to a
  handler. The administrator's endpoint that does not normalise the domain
  blocks nothing when it is typed in capitals (section 6).
- `OneNotePerDelivery`: a reply that mentions the owner makes one notification.
- `DeletedIsGone`: of servers that deliver once, and a Delete after the answer to the
  Create: a deleted post is in neither the cache nor the table, except where the
  owner's request had read the copy before the Delete looked for the row.

### AvatarUpdate

`update_avatar` (and `update_header`): read the key, upload under a new key,
swap the key if it is still the one read, then delete the old image or, when
the swap was lost, the new one. Each failure of the two stores is a fault.

- `CurrentIsStored`: always. `NoOrphans`: without faults.

### OAuth

How a client gets at the account. `login` and `csrf` are the GitHub logins and the
one cookie that holds the state of the latest, `sessions` the tokens that logins have
handed out: the server keeps none, so they are good until they expire, as cookie or
bearer, and a logout only clears the browser's cookies. `shown` and `jar` are the consent
pages and the cookies of their confirm tokens. `Approve` is a request with a session, a
confirm token whose cookie is there, and an application, URI and scopes of its own:
`authorize` validates those and binds the token to none of what the page showed.
`codes` and `tokens` are the two tables,
`issued` what a code was issued for. An exchange reads the row of its code
(`Select`), deletes it (`Consume`; what counts is whether the DELETE met the row,
and only then are the scopes judged), and stores a token (`Insert`). A call runs
when the middleware admits it (`Admits`), and `verify_app_credentials` looks the
token up again (`Name`). `Start` is the migration that hashes rows and writes its
setting. `approved`, `known`, `told` and `wasted` are histories: what the request that
got a code said and whose session it had, and what clients have been answered.

- `CodeBuysOneToken`, `AdmittedWasApproved`, `TokensSurviveRestarts`, `RevokedIsOut`:
  with faults, restarts and logins of anybody; proved. The approval that
  `AdmittedWasApproved` goes back to is the confirming request, not the page; the
  endpoints of the run are one that needs a write scope, one that any token may call,
  and one of the administration, which no scope grants.
- `RightIsServed`: without faults, a right exchange is refused only when another took
  the code, its application wasted it by asking for too much, or time ran out.

### Backup

The timer's task and the owner's requests each take a snapshot of the database
(`Snapshot`), seal it, take a name from the clock (`BeginUpload`), put the object
(`Put`), list the bucket (`List`) and delete what is beyond the retention count
(`Delete`, one object a step). Nothing keeps two of them apart. A database is a
version number; `Opens` is what `download_backup` asks of a sealed object.

- `FinishedIsRestorable`: some object opens with the configured key and holds what a
  finished backup saw or later; where backups overlap, what the oldest snapshot on its
  way saw, because it may be written over a newer one in the same second. The
  property leaves out an upload whose name an old list is about to delete
  (`Doomed`), and the module assumes a retention count no smaller than the number
  of overlapping backups.

### Timelines

A client reads one of nine timelines until a page is short: `Ask`, `ReadMutes`,
`Fetch` (one query) and `Filter` (the rows of muted conversations go; read on below
the last row while the page is not full), `Answer`. Between these steps statuses are
posted and deleted, conversations muted, marks set and withdrawn, lists changed.
`Before` is the ORDER BY, `Below` the cut at `max_id`, and `FirstRows` the LIMIT: the
row at place i is the one with i - 1 before it. A table is one that the server can have
(`IsTable`): a status comes after what it replies to, and what is muted is the root of a
conversation. A reply that comes before its parent is not modelled. The histories follow every
step: `stayed` is what has been in the timeline all the time, `silent` what has been
muted as long as the request.

- `NothingIsMissed`, `NothingTwice`: where rows are made in the order of their times,
  or the query is ordered by the column it is cut by; and while the mark that a page
  ended at stands. Section 6 says what happens otherwise.
- `MutedIsHidden`: no page has a row of a silenced conversation. Where a status
  in the middle of a conversation was deleted, what hung below it shows again, since
  its root cannot be found.

### Delivery

One remote actor is looked up by `resolve_remote_actor_and_inbox`, by its address or
its URI, for a delivery of its own or as the author that a new post replies to: the
cache (`GetByName`, `GetByUri`), WebFinger (`WebFinger`, `NextUrl`), the document
(`Document`), the insertion under both names (`Keep`, `KeepAlias`). The warm-up at
startup does the same without the cache. A fan-out (`FanOut`) spawns a task for each
inbox, which waits for one of the permits (`Acquire`, `Finish`); `TimeOut` drops the
future of the delivery and leaves the tasks. The actor moves (`Move`), answers may be
old when they are used, and the process may start again.

- `InboxIsRecent`: the age of what a delivery uses is bounded by the lifetime of a
  profile and the two timeouts.
- `EveryInboxOnce`: once a fan-out has begun, each inbox is tried once, though POSTs
  fail and the delivery is dropped. `since`, the time of a step, is
  checked against the timeouts on the assumption that timers are not late.

### Interactions

`favourite`, `unfavourite`, `reblog`, `unreblog`, `bookmark`, `unbookmark` and
`delete_status` over the rows of statuses and of marks, each statement a step,
together with the cache (`HandleCreate`, `Evict`), the inbox's Delete (which
removes the cached copy, looks the row up, and deletes it by id, in three
steps), the deliveries (`mail`: a set, because nothing orders them) and what
other servers know. A mark is named after the request that made it, since its
id (a favourite) or URI (a repost) is new each time; the id of a row shows
whether it is a copy of the cached status or an empty, private placeholder.

- `UndoneIsGone`: no Undo that is being delivered names a mark that stands. It
  holds with faults and any overlap.
- `StandingIsKnown`: without faults, what stands gets known.
- `KnownIsStanding`: what is known stands, of an owner who waits for each
  request and its deliveries; overlapping requests can be delivered out of order.

Abstractions: URIs are already normalised; a cached remote status is public;
where a handler looks the same thing up twice without using the difference, the
lookups are one step.

### OwnStatuses, implementing PostHistory

Uploads, posts with media or a poll, edits, deletions and ballots. Each
transaction is one step; a handler's reads before it are steps of their own
(`Load`, `ReadMedia`, `LoadPoll`), and what they found is kept in `task[r]` until
it is used. `row`, `edits`, `tags`, `poll` and `owner` are the tables
`statuses`, `status_edits`, `status_hashtags`, `polls` and
`media_attachments.status_id`; `stored` is the bucket. Deleting a status takes
its rows along (ON DELETE CASCADE), its attachments too, while their objects
stay. `mode` chooses whether the owner waits for each request (`serial`) and
whether statements fail, clients disconnect and the server restarts (`faulty`;
a restart runs `backfill_missing_status_hashtags`).

- `MediaIsKept`, `BallotIsFinal`, `UploadsAreWhole`: any overlap, any faults
  (the second half of `UploadsAreWhole`, that nothing is forgotten in the bucket but
  what had been attached to a deleted status, without faults).
- `EditTakesEffect` (proved), `ImplementsHistory`: of an owner who waits. `PostHistory` says
  that the versions of a status only grow, by one that is shown last; it is about the
  rows of `status_edits`, of which `get_status_history` shows the newest 40. With
  overlapping edits both fail: each saves the version it has read, so two edits
  of `a` that say `b` and `c` leave `a, a` in the history and `c` on show, and
  `b`, which was public, in neither.
- `TagsAreCurrent` does not hold: section 6.

### Relationships

The owner's `follow`, `unfollow`, `block`, `unblock`, `mute` and `unmute`, each
statement a step, and the task each may spawn. An account has several addresses
(with or without the default port of the server's protocol); `row[t][a]` is the
row of address `a` in `follows`, `account_blocks` or `account_mutes`, named after
the request that wrote it, since the id of a row and the URI of a follow are
new each time. `found[r]` holds the addresses that `find_matching_addresses`
has returned to a request, and `theirs` is what the account's own server has
been told (external: it takes a Block for the end of the follow).
`before` and `latest` are history variables of the properties.

- `FollowedOnce`, `EndedIsGone`, `UndoneIsGone`: any overlap, any faults. The
  first needs the transaction of `insert_follow_if_absent`. A block or a mute has
  none, and two overlapping ones under two addresses leave two rows; `EndedIsGone`
  says that an unblock or unmute ends them all.
- `LastWordCounts`: of an owner who waits. With overlap, a follow that begins
  during a block survives it.
- `ServersAgree`: of an owner who waits, without faults, but for the follows that
  a repeated block has ended in silence (section 6).

The lookup of an inbox is in `Delivery`; here finding it and posting to it are one
step that may fail.

## 4. Runs

| run | instance | distinct states | shows |
|---|---|---|---|
| `CreateStatus` | 3 requests, 1 key, clock 0..3 with takeover after 1 and pruning after 3, 2 faults | 85 000 | safety and liveness of the protocol; the contract |
| `CreateStatusRepost` | the same, one failing statement | violation | a retry posts again after a failed read |
| `Inbox` | followers: 1 actor, 2 Follows, 2 handlers, 2 faults, all six kinds of software; the rest: 2 actors of 2 domains, 7 activities, 4 requests, 5 worlds, clock 0..2, window 2, limit 2 | 679 000 | the followers table agrees with the remote side; only signed, recent, unblocked activities count, and once |
| `FollowCrash` | 1 Follow, 1 handler, well-behaved software, one crash | violation | a follow is never accepted |
| `D1Sync` | 2 rows, 3 values of which two have one canonical text, 2 keys kept, 4 writes, 2 stops at any step | 1.2 million | snapshot, retried keys and D1 agree but for what went adrift; D1 catches up |
| `D1SyncRecur` | 2 values, 4 keys kept, 4 writes, no stops | violation | a diff that recurs is skipped |
| `OAuth` | 2 applications, 1 page, 1 code, 2 exchanges and their tokens, 1 call, 3 endpoints, clock 0..1, with and without faults and logins | 1.8 million | a code, a consent and a token are good for what they say |
| `Interactions` | 3 requests, a local and a remote status | 2.2 million | marks and deliveries agree |
| `OwnStatuses` | 3 requests, a status that is there and one that may be made, 2 attachments, 2 texts, 2 options | 347 000 | the tables agree, edits and ballots do what they promise |
| `OwnStatusesTags` | the same | violation | an edit leaves the hashtags |
| `Relationships` | 3 requests, 2 accounts, one of them with 2 addresses | 597 000 | one follow an account, what is ended is gone, the other servers agree |
| `Services` | images: 3 requests, 2 faults; backups: 2 tasks, retention 2, 4 objects, 3 seconds, 2 keys; timelines: 4 tables of 4 rows and one new, 9 views, pages of 1 and 2, 2 changes; deliveries: a warm-up, 2 lookups, 2 inboxes, clock 1..5, 1 restart | 2.0 million | the two stores agree; a backup can be restored; pages miss and repeat nothing; deliveries are recent and complete |

Why these bounds are enough to be of interest. Three requests are an owner, one
that takes over or waits, and one that meets what both have left; two faults
let a second one hit the recovery from the first. In the clock of `CreateStatus`
a reservation can go stale and a row can reach its pruning age. Two Follows of
one actor are needed for a late Undo of an old one; actors share no row, so one
is enough. In `D1Sync` a row can come, change in its words or only in a blank
line, and go again, with cycles in between; two stops are an upload whose answer is lost
and a promotion that is cut in half, and with two keys one may be known that is not the
last. In `Inbox` a
key is rotated, a window ends and a signature becomes too old between two requests,
four requests of one domain fill a window and begin the next,
and the limiter's table is full with one domain in it where its size is 1. In `OAuth` the second exchange
can meet the code before, between and after the first one's statements, and code and
token expire at the last instant. In `Services` a third backup overwrites, or pushes
out, one of the first two; a table is longer than a page and than the largest
fetch; a profile expires, is pruned and is fetched again. In `OwnStatuses`
the two attachments and two statuses let a claim, an edit and a deletion meet. In
`Relationships` a block, a follow and a second block, or two ends and a
beginning, fit in three requests, and the second account is there to be left
alone.

`Inbox` and `Services` put modules that share no state into one run: a behaviour is
about one of them, which the first variable of `MCInbox` and `MCServices` says, while
the others stay as they are.

The runs do not check for deadlock: in all of them requests, writes or time
run out, and the system may then stop.

Symmetry is used only where requests, handlers, exchanges or lookups are interchangeable and no
liveness property is checked in the run.

## 5. Fairness

- `CreateStatus`: weak fairness of each request's steps, because the runtime
  polls a future that is ready; strong fairness of `GiveUp`, because a waiter
  that keeps going round its loop reaches the deadline that the loop compares
  with at each turn. Faults and time are not fair.
- `FollowHandshake`: in the run `FollowCrash` handlers are run; a server that keeps
  posting an activity eventually finds a free handler (strong fairness, since handlers
  may be busy again and again). This is what `FollowCrash` refutes its property under:
  the Follow is redelivered and still not accepted.
- `D1Sync`: cycles go on (the timer of `main.rs` starts one after the other);
  nothing says that the server keeps writing or that cycles do not stop, only
  that both are finite in an instance.
- All other modules: safety only. Deliveries are tried once, backups may fail for
  ever and clients may stop asking, so the code promises nothing there that fairness
  would help to state.

## 6. Disagreements with the code or its documents

Shown by a run:

1. `CreateStatusRepost`: a database error while the response is built, after the
   commit, frees the key; the client's retry posts a second time. The tests
   assert one post per key.
2. `FollowCrash`: after a crash between the follower row and the Accept, the
   redelivered Follow fails on the row, so it is never accepted, although
   `docs/FEDERATION.md` has the handler check for an existing follower and then
   accept.
3. `D1SyncRecur`: the key of a sync is the hash of its SQL alone. When the
   database takes the same step again (a row goes from a to b, back, and to b
   once more) the key is known and the step is skipped, and the snapshot then
   says that D1 has it.
4. `OwnStatusesTags`: the edit handler uses the one variant of the update that
   does not recompute the hashtags.

Noted while modelling, without a run:

- Overlapping edits lose a version (section 3), where the doc comment of the
  transaction says "snapshot previous content".
- `docs/SYNC_STRATEGY.md:91-93` has the snapshot refreshed by a VACUUM INTO from the
  live database after the upload. The code promotes the copy that it uploaded
  (`sync.rs:163`), and has to: what is written during the upload would otherwise be in the
  snapshot and never get to D1. What the document describes is the variant
  `RenameLive`, with which `SnapshotIsRemote` and `EventuallySynced` fail.
- `docs/SYNC_STRATEGY.md:99-100`: "Snapshot advances only when execution is accepted as
  success", and a failed execution is tried again from the same base. When only the
  acknowledgement was lost (`sync.rs:158`) or the promotion failed (`:163`), the next cycle
  may see other differences: an INSERT that D1 has carried out is then refused with the
  whole file, cycle after cycle, and an UPDATE back to the old value is never made.
- `authorize` does not bind the confirm token to the page it came with
  (`apps.rs:437-466`): the request that confirms is judged by its own application, URI
  and scopes.
- `docs/FEDERATION.md:206`: a redelivered Create notifies again. The Undo of a
  Like or an Announce (`docs/FEDERATION.md:237-241`) is ignored.
- An Update of a Note is never persisted: `decide_persistence` ignores it.
- `StatusService::delete` says that it deletes the media from the bucket; only
  rows are deleted, and the objects stay.
- Two overlapping deletes of a status both succeed, send the Delete twice and
  lower the metric of posts twice.
- `follow_account` does not look for a block, so an account can be followed and
  blocked. A second block then deletes the follow, and because the block is not
  new, nobody is told: the other server goes on sending to a follower who is none. The
  same happens when a block fails between its INSERT and the deletion of the follow,
  and is tried again.
- `block_account` leaves the blocked account among the owner's followers.
- The home, public, account and notification timelines (and the outbox) are `ORDER BY created_at` but
  cut by `id < max_id`, while id and time are taken separately. When two rows have them the other way, a client
  misses one or sees it twice: `NothingIsMissed` and `NothingTwice` do not hold
  without `IsOneOrder`. Withdrawing the mark that a page ended at moves the cursor
  from the order of the marks to that of the ids, with the same effect.
- `account_statuses` with limit 0 returns one row; the unread count stops at 1000.
- `create_status` puts the lookup of the author replied to and the whole fan-out under
  one timeout of 5 s (`statuses.rs:565`). A lookup that takes as long drops the batch before any task exists,
  and no follower gets the post, although `docs/FEDERATION.md` promises "Individual
  error handling". After the fan-out began the timeout drops only the wait.
- A follower that is accepted after `create_status` has read the inboxes misses the
  post. A Delete's fan-out can overtake the Create's.
- The comment at `data/cache.rs:842` says of the profile cache "Updated when Update activities
  are received", but `decide_persistence` has no case for Update, so neither
  `handle_update` nor `update_from_activity` is reached.
- `POST /api/v1/admin/domain_blocks` stores the domain as it is typed, and the inbox
  asks in small letters; its DELETE answers and deletes nothing.
  `docs/FEDERATION.md:435` lists subdomain blocking, which there is no code for.
- Likes and mentions are not deduplicated over deliveries; a Create that is delivered again after its Delete
  brings the cached post back; `is_followee` takes a database error for "no".
- Two backups that begin to upload in one second write one object, and a cleanup with an old
  list can delete one that was written again since. `retention_count = 0` deletes every backup, where
  `docs/BACKUP.md:130` guards against it. The list is one page of at most 1000 objects.
- Edits are not federated, scheduled statuses are never published, and
  `handle_accept` only logs.
- A placeholder row is private, so its repost is not announced.

## 7. Proofs

Each proof module extends its component and is checked by `tlapm` to the last
leaf; nothing is assumed but the named assumptions of the modules on their
constants, which TLC evaluates in every run.

| module | theorems | argument |
|---|---|---|
| `CreateStatusProofs` | `TypeCorrect`, `SingleOwnerHolds`, `StoredResponseIsFinalHolds`, `AnswersAreCommittedHolds`, `AgreedAnswerHolds`, `ContractHolds` | In a prompt execution the row of an owned key is NULL and fresh (`OwnedIsFresh`), so nobody else can reserve it; and since it stays, the UPDATE of the response always finds it (`NoInsert`). `SingleOwner` alone is not inductive: a second owner is excluded by the row, not by the first owner. The contract and `AgreedAnswer` assume `MaxTime <= PruneAfter`: a response that was pruned is forgotten. |
| `InboundProofs`, about `FollowHandshake` | `FollowTypeCorrect`, `AcceptedIsFollowerHolds`, `SettledAgreementHolds` | An Undo of an actor's last Follow exists, in the outbox or in a handler, only when the actor has stopped following (`IsOver`); so while it follows, each DELETE compares with an older id. For the second, of a server that posts in order: one activity of an actor is in the outbox and at most one handler works on it (`OneAtATime`), it is the last that was issued (`OnItsWay`), what that handler has done is in the tables (`Handled`), and an actor without an activity is recorded as it is (`Agrees`). |
| `InboundProofs`, about `Inbox` | `InboxTypeCorrect`, `OnlySignedHolds`, `BlockedIsOutHolds`, `OneNoteHolds`, `DeletedIsGoneHolds` | A request that is past the signature carries the activity that was signed and sent (`Carries`, `Placed`); it is past the blocklist only if it was not barred, and a block stands as long as a request it bars (`Barred`); the owner's own request writes only a post that came in with a signature (`Stored`); a request that has notified is done (`Noted`). For `DeletedIsGone` (`CalmInv`): no Create of the post is under way (`Quiet`), a Delete that is past a place has emptied it (`Emptied`), and a write of the owner that the Delete has missed is the exception the property names (`TooLate`). |
| `InboundProofs`, about `RateLimiter` | `ChargedIsFreshHolds`, `TwoWindowBoundHolds` | As long as no domain is evicted, a counter is at least the number of requests admitted in its window, and the window before it holds at most the limit (`Counted`); any stretch of one window's length meets at most two windows, and when it meets two it begins after the request that opened the first. The sets of admissions are counted by the library's facts about cardinality (`ThoseAreMany`). |
| `D1SyncProofs` | `SnapshotIsRemoteHolds`, `RetryIsAppliedHolds` | For any number of keys and stops at any step. Outside the rows that went adrift D1 holds what the last upload says of its rows (`LastIsRemote`) and the snapshot of the others; the payload is the one made from the snapshot in place (`PayloadIsMade`), so its statements meet the rows they expect and what is about to be promoted says what D1 holds (`SourceIsRemote`). A payload with the key of the last upload differs from it only in text that canonicalisation drops. |
| `OAuthProofs` | `Inductive`, `TypeCorrect`, `CodeBuysOneTokenHolds`, `AdmittedWasApprovedHolds`, `TokensSurviveRestartsHolds`, `RevokedIsOutHolds`, `RightIsServedHolds` | A code is bought by an exchange that is about to store its token as much as by a token (`Buys`), and what is bought is out of the table (`BoughtOnce`); so a second DELETE cannot meet the row. What a code says is what the request of the owner that got it said (`IssuedWasApproved`), and a token keeps to its code (`KeepsToCode`), so an endpoint that the token's scopes grant was approved, and the administration's is granted by none. Rows are in plain text only before the first start that sees them (`Forms`), and a client that was told of a revocation was told the truth (`Told`). For `RightIsServed`, without faults: a right request is covered by its code as long as it is under way, and the code is there or gone for a reason that the property names (`Promised`, `Gone`); a purge comes only after the expiry (`PurgesLate`), and a code allows no more than its application (`Issuable`), so the request cannot fail at the scopes. |
| `ServicesProofs`, about `AvatarUpdate` | `CurrentIsStoredHolds`, `NoOrphansHolds` | An image is published once, by the swap of the request that uploaded it; so what a request has replaced cannot be current when it deletes it. Without faults each stored image but the current one has a request that is about to publish or to delete it (`Attended`). |
| `ServicesProofs`, about `Delivery` | `InboxIsRecentHolds`, `EveryInboxOnceHolds` | `wasAt[i]` is the last time the actor's inbox was i; what a fetch has read was so when the fetch began (`Lookup`), so a cached profile was true at most one fetch before its stamp (`Sound`, `Filed`), and a lookup takes it only within the time to live. For the fan-out (`SendsInv`): its tasks have an inbox each, what was tried is the bag of those that have begun, with every inbox once, and the permits are what the POSTs under way have left, so no task waits when none posts; `OneReply` keeps the fan-outs apart. |
| `ServicesProofs`, about `Backup` | `FinishedIsRestorableHolds` | An object that is put later may have an earlier second, and be listed in its place. But only a backup that was under way in that second puts one: fewer than there are tasks overtake an object (`FewOvertake`, by the library's facts about cardinality). So what is listed, which `Retention` newer objects follow, has a newer object of a later second (`ExcessHasLater`), and no list has the latest of its second (`ListedBefore`). Since some put all objects are good, and one of them is safe (`Since`, `Safe`): it is of a later second than all that is listed, or it is the first of them and only earlier seconds are listed. A cleanup that endangers it leaves another such object. |
| `ServicesProofs`, about `Timelines` | `MutedIsHiddenHolds`, `NothingTwiceHolds`, `NothingIsMissedHolds` | The root of a conversation is a recursive function of the table; that it goes from parent to parent is shown by the least id for which it does not (`RootsLemma`, `ConversationsLemma`). A conversation that stays whole keeps its root (`WholeKeepsRoot`), and any other new root is a status that has just gone (`RootsMove`), so neither the mutes that a request has read nor those it has missed hide the wrong rows. A page is the first rows of what is below its cursor, in their order (`Ranks`, `FirstRowsAreFirst`, by the library's facts about cardinality). In a timeline of one order (`PageInv`) what the client has is above its cursor, what the request holds is sorted and below that, and the next query is below all of it; this stands while rows come and go because what is before a row stays so as long as that row has its mark (`PastStays`, `HeldStays`). So nothing comes twice. For `NothingIsMissed` (`CoverInv`): a row that is shown all the time has been read or is past the last row held, and it is never the one that is dropped (`StayInv`). |
| `InteractionsProofs` | `TypeCorrect`, `UndoneIsGoneHolds`, `StandingIsKnownHolds`, `KnownIsStandingHolds` | A mark is made once, and named nowhere before (`Fresh`); a removal has read a mark of its kind and status, and as long as the mark stands so does the row the removal has loaded. For `StandingIsKnown`: a standing mark that federates is known, or on its way, or about to be sent by a request. `KnownIsStanding` is about an owner who waits while nothing fails (`Faithful`): one request or delivery is under way at a time (`Alone`), so what a request has read is still so when it removes or announces it (`Seen`, `Announced`). |
| `OwnStatusesProofs` | `TypeCorrect`, `UploadsAreWholeHolds`, `MediaIsKeptHolds`, `BallotIsFinalHolds`, `EditTakesEffectHolds`, `HistoryHolds` | `Placed`: what a request asks for fits where it is. `Made`: the ids of new statuses are new, so nothing hangs on them yet. `Counted`: without a ballot the counts are zero. `Uploads`: an upload has its media to itself. `Given`: whoever has an attachment was given it by a request, so one that falls with a status had been attached to it. `Serial`: when one request is under way at a time, what it has read is what is there; with it, `Snapshot` saves the version it replaces, which is the refinement of `PostHistory`. |
| `RelationshipsProofs` | `TypeCorrect`, `FollowedOnceHolds`, `EndedIsGoneHolds`, `UndoneIsGoneHolds`, `LastWordCountsHolds`, `ServersAgreeHolds` | A row is written once, by the request it is named after, and nobody has met it before (`RowsAreWritten`, `Met`), so none that a request has met comes back; all rows of an account are at its addresses, so a request that deletes has read the address of every row it met that still stands (`Erasing`). `EndedIsGone` alone says nothing of a request on its way. `LastWordCounts` is about an owner who waits: one request is busy, what it has read still stands, and a request that is told to wait is the latest on its account (`InTurn`). `ServersAgree` adds that nothing fails: what the other server knows differs from the tables by what the busy request has yet to tell (`Agreed`). |

Several of these hold only under a condition that is part of the property
(`prompt`, the software of a remote server, `serial`, no faults). The condition is
a variable that Init chooses, or an assumption on constants, and TLC explores
both sides of it.

What the proofs assume of the constants is what the modules name: that requests,
accounts and so on are sets without `None`, that durations and limits are natural
numbers, and, of the modules that count, that the limiter's domains and the backups at
a time are finitely many (a server has no more), that the inboxes of the followers are a sequence
(`DeliveryAssumption`; the rows of a query) and that a reading begins with a table the
server can have (`IsTable`). `FollowHandshake` adds the conditions of section 3.

Model-checked only, and why:

- The liveness properties (`EveryRequestEnds`, `ReservationResolved`,
  `EventuallySynced`): the prover has neither fairness nor ENABLED.

The type invariants, `AnswersAreCommitted` and `EditTakesEffect` are proved and in no run.

## 8. What is not modelled

- Scheduled statuses are stored and listed, and no code publishes them. Account
  initialisation, configuration and migrations (but that of the tokens) run once
  before any request. Filters, markers, follow requests, search, streaming, instance,
  documents, converters and metrics are single statements or only read.
- The Turso replica is the library's protocol, which the server calls on a timer.
- `federation/webfinger.rs` (`resolve_webfinger`, `fetch_actor`), `key_cache.rs`,
  `prune_old` of the limiter and `ProfileCache::update_from_activity` are reached by
  nothing that runs.
- Eviction from the timeline cache by size and age is the cache library's.
- External parts appear as actions that do what the code relies on: SQLite
  (a statement or a transaction is atomic), the bucket (put and delete by key), the
  remote servers, GitHub, `wrangler` and `sqldiff`, the runtime that drops a handler.
- The connection pool. Transactions are raw `BEGIN IMMEDIATE` statements; when a
  handler is dropped inside one, the models take it as rolled back. Whether the
  pool does so is not decided in this repository (a hazard in `PROJECT.json`).
- Content: texts, HTML, JSON and signatures are model values, except where a
  conversion matters (`Canon`, `TagsOf`).
