# Verification of the snc-platform API

TLA+ modules, TLC configurations and TLAPS proofs for the state machines of the
snc-platform API (`src/apps/api`) and of the parts of its web client
(`src/apps/web`) that take part in a protocol. Each definition is a translation of
source lines; `PROJECT.json` holds the map from definitions to lines, the runs, the
mutants that show each property can fail, the hazards and the theorems.

Run from this directory, for example:

    tlc -workers 2 -config MCPlayoutQueueSerial.cfg MCPlayoutQueue
    tlc -workers 2 -config MCServices.cfg MCServices
    tlapm LibraryProofs.tla

## 1. Inventory

The platform is one Node process (Hono routes, Drizzle on PostgreSQL, pg-boss
jobs) beside SRS (RTMP ingest), Liquidsoap (playout), Garage (S3), Stripe,
Shopify, an SMTP server, and a web client. Almost no operation opens a database
transaction, and no service takes a lock: a handler is a list of statements with
an `await` between each two, and any other handler may run at any `await`. That is
the source of nearly every hazard below.

| Component | State | Operations | Talks to | What is hard | Correct when | Module |
|---|---|---|---|---|---|---|
| Playout queue (`playout-queue-transitions`, `playout/queue-control`, `playout/queue-status`) | `playout_queue`: status, position, source, pushed flag | enqueue, enqueueBatch, promoteNext, markPlayed, removeQueued; onTrackStarted, skip, insertIntoQueue, removeFromQueue | Liquidsoap (HTTP), content pool, cleanup job | reads used after an await, crashes between statements, events in step with the engine | one entry is on; order is kept; every entry moves on; what is reported is what airs | `PlayoutQueue` |
| Auto-fill, prefetch, startup, cleanup (`playout/*`, `playout-queue-cleanup`) | `pushed_to_liquidsoap` | depth check, candidates, batch insert; select, push, flag; reset; delete beyond a cap | queue, pool, Liquidsoap | check and insert are apart; pushes fail or are answered late | tops up to the batch, flags only what the engine took, recovers after a crash | `PlayoutQueue` |
| Liquidsoap engine (`liquidsoap-render`, `-client`, `-config`) | `request.queue`, airing track, the script it was started with | push, skip, track-event, restart | API webhooks | state is lost on restart, webhook is tried once | follows the queue and the stored settings | `PlayoutQueue`, `EditorialControl` |
| Content pool (`playout/content-pool`, `pool-scope`, `resolvePoolNextUri`) | `channel_content`, `lastPlayedAt` | assign, remove, pool/next | queue, creators | two statements, and NULLs in an order | every entry gets its turn; only the creator's items air | `PoolRotation`, `PlayoutQueue` |
| Editorial control (`editorial-*`, `playout-topology`, `liquidsoap-config`) | `channel_editorial_config`, `channel_editorial_tiers`, the script on disk | mode, pin, arm, take, tier CRUD, channels, render, write, restart, boot | Liquidsoap | graph validated before it is written; scripts rendered beside each other | no carry cycle; carried channels rendered first; the engine follows the store | `EditorialControl` |
| Playout library, ingest (`playout`, `playout-ingest`, `tusd-hooks.routes`) | `playout_items`, S3, pg-boss jobs | create, upload, ingest, retry, retitle, delete with reindex | tusd, ffmpeg, queue, pool | a job beside a second upload or a delete; counts read before an insert | a ready film is its last upload, remuxed; the playlist keeps its order | `PlayoutIngest`, delete also in `PlayoutQueue` |
| Simulcast (`simulcast`, `handleSrsOnForward`) | `simulcast_destinations`, publishers in SRS | add, toggle, remove, restart the playout's publish; classify and forward a publish | SRS hooks and API | a kick beside a reconnect; a late hang-up | the playout goes to what is switched on; a creator's stream to that creator's destinations; the cap | `Simulcast` |
| Press page (`press`, web `-press-editor`) | `creator_press_configs`: content and draft; the editor's tabs | load, type, save, publish, take offline, discard | - | answers out of order, two tabs | nothing typed is lost; what is public is complete; hidden stays hidden | `PressDraft` |
| Live sessions and channels (`streaming-callbacks`, `stream-sessions`, `stream-lifecycle`, `channels`) | `stream_sessions`, `stream_events`, `channels` | on_publish, on_unpublish, on_forward, activate, teardown, create and revoke a key, provision, dedupe | SRS, chat, notifications, simulcast | repeated and late callbacks, a reconnect beside a teardown, two provisions | the channel is on while a session of its creator streams; a channel is never lost | `LiveSession` |
| Subscriptions (`webhook.routes`, `subscription.routes`, `content-access`) | `user_subscriptions`, `payment_events` | five Stripe events, checkout, cancel, the access they give | Stripe | retries, order, a crash after the idempotence mark | each event takes effect once; the row follows Stripe; who pays has access | `Subscriptions` |
| Media pipeline (`upload-completion`, `processing-jobs`, handlers, `content.routes`) | `content` keys and status, `processing_jobs`, S3 | complete an upload, probe, transcode, thumbnail, clear, retry, delete | pg-boss, S3 | a job for an upload that was replaced; a delete before the row | a key that is served names an object; processing ends | `MediaPipeline` |
| Chat rooms (`chat-rooms`, `chat.routes`, web `chat-context`) | members and sockets in memory, the tab's room, users and messages | join, leave, post, history, prune | sockets | ghosts, reconnects, answers out of order | what a tab shows settles on what is so | `ChatRooms` |
| Chat moderation (`chat`, `chat-moderation`, `chat-reactions`) | sanctions, messages, reactions | post, ban, time out, slow mode, react | chat rooms | checks apart from the insert | the banned do not speak; slow mode holds; counts are true | `ChatModeration` |
| Go-live mail (`notify-dispatch`, `notify-when-live`, `notification-send`) | `notification_jobs`, preferences, cooldown in memory | subscribe, opt out, dispatch, send | SMTP, pg-boss | at-least-once jobs, cooldown set late | a mailing per cooldown; a queued mail ends | `GoLiveMail` |
| Inbox and reminders (`notification-inbox`, `event-reminder`, web bell) | inbox rows, reminders, the bell's count | create, mark, push, seed, toggle, sweep | socket, pg-boss cron | sweeps that overlap, counts out of order | one reminder per occurrence, in time; the bell settles | `Inbox` |
| Invites and teams (`invites`, `creator-team`, `creator-members.routes`) | invites, profiles, members | invite, accept, add, change, remove | auth, mail | two accepts, a crash within one | a token takes effect once; a creator keeps an owner | `CreatorTeam` |
| Image library (`library`, `creator-media.routes`) | blobs, assets, grants, S3 | upload with deduplication, share, grant, delete, set a profile image | S3 | two uploads of one image, failure between store and row | what is registered is stored; both rules of use agree | `Library` |
| Event bus and SSE (`event-bus`, `sse.routes`, web `spine-*`, `use-polling`) | subscriptions, connection count, the tab's list | publish, coalesce, connect, drain, heartbeat, close, fetch | every publisher | lost wakeups, a read that is older than an event | an open tab is fresh; streams end; the cap holds | `EventSpine` |
| Others: auth, federation, CRUD of content, creators, bookings, calendar, projects; press PDFs, emissions, merch; the rest of the web app | rows, or none | single statements, rendering, delegation | - | little | out of scope, see section 7 | - |

The queue is the heart of the playout part: it has the most statements per
operation, three writers (webhook, operator, jobs) and an external engine whose
state must be kept in step. It is modelled first and completely.

## 2. Modules

| Module | Role |
|---|---|
| `ChannelLineup` | what the queue of a channel promises: a total order of waiting entries, at most one entry on, the first goes on |
| `PlayoutQueue`, `MCPlayoutQueue` | the API handlers, the table, the pool and the engine, one action per statement; values for TLC |
| `LiveSession`, `MCLiveSession` | SRS callbacks, sessions, a creator's channel and its chat room, stream keys; values for TLC |
| `ApiCalls` | the value that means "none", shared by the modules below |
| `Subscriptions`, `MediaPipeline`, `GoLiveMail`, `Inbox`, `CreatorTeam`, `Library`, `EventSpine` | one component each, composed in `MCServices` |
| `ChatRooms`, `ChatModeration`, `PoolRotation`, `EditorialControl`, `PlayoutIngest`, `Simulcast`, `PressDraft` | one component each, composed in `MCRealtime` |
| `PlayoutQueueProofs` | theorems about `PlayoutQueue` under any overlap and any fault |
| `PlayoutQueueSerialProofs` | those for one call at a time, the refinement of `ChannelLineup` among them |
| `LiveSessionProofs`, `CreatorTeamProofs` | theorems about `LiveSession`, about `CreatorTeam` |
| `ServicesProofs` | theorems about `Subscriptions`, `GoLiveMail`, `EventSpine`, `Inbox` |
| `LibraryProofs` | theorems about `Library` and `MediaPipeline` |
| `CatalogProofs` | theorems about `PressDraft`, `Simulcast`, `PlayoutIngest`, `PoolRotation`, `EditorialControl` |
| `RealtimeProofs` | theorems about `ChatModeration` and `ChatRooms` |

In every module a *call* (a handler, a job, a loop) is a record in a function from slots:
the statement it runs next and its locals. One action is one statement with the
synchronous code up to the next `await`. What is called history below is no state of the
program: properties read it, and guards that bound the faults.

The components of `MCServices` share no variable, nor do those of `MCRealtime`. A behaviour
of the composition would be any interleaving of theirs, and no property speaks of two; so
in each behaviour one `part` moves, chosen at the start, and `VIEW Moving` counts its
variables only. The two interchangeable slots `v1`, `v2` are those of every component.

### PlayoutQueue and the code

*State.* `status`, `position`, `source`, `pushed` are columns of `playout_queue`;
row ids (random UUIDs) are numbers in order of birth, `born` of them in use, and
"absent" is a row not inserted yet or deleted. `pool`, `recency`, `library` stand
for `channel_content`, its `lastPlayedAt` as a rank, and the items that exist.
`buffer`, `airing`, `events` are the engine's `request.queue`, the track it plays
and the webhooks under way. `accepted` is history.

*Handlers.* A slot `h \in Handlers` is one API call in flight; `pc[h]` is the
statement it runs next, and `row`, `slot`, `picks`, `todo` are its local variables (the
row it loaded, a computed position or count, the items to insert, the rows left to push).

| Call | Steps |
|---|---|
| `onTrackStarted` (track-event webhook) | `TrackStarted` `EventMark` `EventStats`, then the tail |
| `skip` | `Skip` `SkipMark` `SkipEngine`, then the tail |
| the tail both share | `PromotePick` `PromoteSet` `FillDepth` `FillPick` `FillMax` `FillRows` `PushSelect` (`PushSend` `PushFlag`)* |
| `insertIntoQueue` | `AppendItem` or `InsertItemAt`, `InsertRow`, `PushSelect` ... |
| `removeFromQueue` | `RemoveLoad` `RemoveDelete`, or `RemoveRefused` (404, 409) |
| `initialize` | `StartupReset` `FillDepth` ... |
| `handlePlayoutQueueCleanup` | `CleanupPlayed` |
| `assignContent`, `removeContent`, `deletePlayoutItem` | `AssignItem`, `RemoveItem`, `DeleteItem` |
| Liquidsoap | `EngineAdvance`, and the engine's half of `SkipEngine` and `PushSend` |
| faults | `EngineRestart` ("engine"), `LoseEvent` ("event"), `ApiRestart` ("api"), failed or unacknowledged calls ("harbor") |

*Abstractions.*
- One channel: no statement of the queue touches a row of another.
- Ties in `ORDER BY` are nondeterministic (`FirstBy`, `PromotePick`).
- `FillDepth` merges the caller's depth check with the one `autoFill` repeats at
  once; both read one count and the outcome of the pair is that of one moment.
- `PushSend` merges `resolveContentUri` with the push: an item deleted before its uri
  is read is skipped, as a failed push is.
- `Pool` and `Items` are ready and owned by the channel's creator; the
  processing-status filter and the creator scope are those of `PoolRotation`.
- Play counts, titles, durations and uris do not influence the queue. The webhook's
  uri is logged by `onTrackStarted` and used for nothing, so events are counted only.
- `CleanupPlayed` is one DELETE of ids chosen one statement earlier; played rows do not
  change in between, so it is one step. It may keep either of two rows with equal age.
- The pool tier of the engine (`request.dynamic`) airs as `airing = None`: it posts no event.

### LiveSession and the code

*State.* `keys` is `stream_keys`; `publisher` and `ended` are `srsClientId` and `endedAt` of
`stream_sessions` (numbered in order of insertion, `ended` as a rank, 0 while NULL);
`name`, `onAir`, `current` are `srsStreamName`, `isActive`, `streamSessionId` of the creator's
live-ingest rows of `channels`, numbered by `createdAt`. `rooms` counts open chat rooms of a
channel, `announced` is what its last `channel.live-state-changed` event said. `srs` is what
each RTMP connection does and `posts` the callbacks SRS has sent and no handler has taken
up; a set, because they are HTTP requests with no order among them. `trouble` is history.

*Handlers.* `job[h]` is one API call: the statement that it runs next and its locals.

| Call | Steps |
|---|---|
| `on-publish` | `OnPublish` (key check, 403) `OpenSession` `FindChannel` `Activate` `Announce` `FindRoom` `MakeRoom` `Answer` |
| `on-unpublish` | `OnUnpublish` (select) `CloseSession` `LastSession` `FindOnAir` `Deactivate` `AnnounceOff` |
| `createStreamKey` | `CreateStreamKey` `FindRows` then `Provision`, or `Dedupe` once for each duplicate |
| `revokeStreamKey` | `RevokeStreamKey` |
| SRS | `Connect`, `Disconnect` (one RTMP connection each; a reconnect is another client) |
| faults | `RetryPublish` ("retry"), `ApiRestart` ("api") |

*Abstractions.*
- One creator: no statement touches the rows of another. A stream name held by another
  creator's row fails an activation exactly as one held by a row of the same creator.
- The select of a client's open session is merged with taking up its `on_unpublish`, and the
  key lookup with taking up `on_publish`: nothing is written before either.
- `stream_events` rows are an audit trail nothing reads, `createStreamKey` returns the raw key
  at its end, and the display name is text: left out. Failed statements that the
  code logs and swallows (a name in use, a room of a deleted channel) are in the model.
- An event about a channel that was deleted is not kept in `announced`.
- Notifications are fire-and-forget (`void dispatchNotification`): those of a go-live are `GoLiveMail`.
- The playout key's branch of `on_publish` changes no state. `on_forward` reads only;
  what it relies on is `SessionsFollowPublishers`.
- `Init` covers a creator with no row, one row, or several left by the former scheme in
  which each session made a row (`channels.ts:211-218`).

### Subscriptions and the code

`stripe` and `clock` are Stripe's subscriptions and their periods, `sent` its events (ids are
indexes) and `outbox` those not answered with 200; `recorded` is `payment_events`, `row`
is `user_subscriptions`; `applied`, `died` (ids whose handler died) and `repeated` are history.

| Call | Steps |
|---|---|
| Stripe | `Checkout` `Renew` `PaymentFails` `Ends` `PeriodPasses`; `Redeliver` ("duplicate") |
| the Stripe webhook | `Receive` (INSERT into `payment_events`), `Apply` (the handler of the event, and 200) |
| cancel | `CancelLoad` `CancelStripe` `CancelRow` |
| fault | `CallDies` ("crash") |
| `hasContentAccess` | `Effective`, `HasContentAccess` |

`webhook.routes.ts:199` tests `e.code === "23505"`, and its test (`webhook.routes.test.ts:156`) puts the code
on the error thrown. drizzle-orm 0.45.2, which the code runs with, throws a `DrizzleQueryError` whose `cause` is the
PostgreSQL error: the test is never true, and a delivery of a recorded id is answered 500. In the model a
delivery answered otherwise than with 200 changes nothing and is no step, so `Receive` takes ids not recorded only
(finding 4). `EveryEventHandled` says that each event's handler runs unless it died on the way. Events of one subscription delivered out of order leave the row behind
Stripe: `RowMirrorsStripe` is therefore about subscriptions whose events were handled in order
(`InStep`: all of them, each after those sent before it, and no call is under way).

### MediaPipeline and the code

One content item. `object` says of which upload the bytes under each key are; `item` is the
content row, `queue` the waiting pg-boss jobs of each kind, `uploads`, `needs`, `landed`
are the uploads and what was asked for; `big` are the uploads over the size limit, `mishap` is history.

| Call | Steps |
|---|---|
| upload | `Put` (presigned, or tusd's copy), `Complete`, then `FindOld` `DropOld` `Record` `Mark` `SendProbe`, or `DropTooBig` |
| jobs | `TakeJob`, then `ReadMedia` `ProbeChain` `ProbeThumb`; `ReadMedia` `TranscodeSave` `TranscodeRow`; `ReadMedia` `ThumbSave` `ThumbRow`; `Fails` ("ffmpeg") |
| routes | `ClearMedia`, `ClearThumbnail`, `Delete`, then `Sweep` of each object and `ClearRow`; `CustomThumbnail`; `Replace` `ReplaceFile` `ReplaceRow` |
| fault | `MediaCrash` |

A custom thumbnail, and a DELETE's load with its soft delete, are one step each. A
crash between `Mark` ("processing") and `SendProbe` leaves an item for which no job exists;
`ProcessingSettles` excludes it (`mishap`), since nothing in the code looks for such items.
An object is under its key before anything is checked. A refusal for want of a permission leaves it there; one for its
size deletes it (`DropTooBig`), and when its name is that of the item's own file the row then names nothing:
"refused" in `mishap`, which `ServedFileExists` leaves out.

### GoLiveMail and the code

One channel. `audience`, `optedOut` are the subscribers and preferences, `lastDispatchedAt` the
cooldown map's entry, lost on restart; `mails` the rows of `notification_jobs`, each with the state
of its pg-boss job; `edges`, `lapsed` and `pass[p].alone` are bounds and history.

| Call | Steps |
|---|---|
| `dispatchChannelGoLive` | `GoLive` (cooldown test) `ResolveAudience` `Member` for each reader, `Arm` |
| `handleNotificationSend` | `TakeMail` `SendMail` `MarkSent` `JobDone`; a throw gives the job back (`Threw`, `Again`) until `RetryLimit` |
| preferences | `SubscribeReader` `UnsubscribeReader` `OptOut` `OptIn` |
| environment | `MinutePasses`, `MailRestart` ("restart") |

Mail is assumed to be configured (`isEmailConfigured`).

### Inbox and the code

One user. `inbox` are the rows, `push` the count pushes under way, `bell` the browser's
socket, live count and seed; `wanted`, `startAt`, `deleted` are reminders and events, `sweep`
the passes of the job; `tick`, `fired` drive the cron.

| Call | Steps |
|---|---|
| inbox | `CreateNotification`, `MarkRead`, `MarkAllRead`, each of which ends in `StartPush`; `PushCount` `PushSend` |
| the bell | `OpenBell` `SeedRead` `SeedArrives`; `DropSocket` `ReopenSocket`; `DisplayCount` |
| reminders | `ToggleCheck` `ToggleWrite`; `Reschedule`, `DeleteEvent` |
| the job | `SweepStart` `SweepSelect` (`SweepCheck` `SweepCreate`)*; `Tick` |

The bell falls back to its seed when the live count is 0 (`notification-bell.tsx:29-31`), so a bell
opened with unread rows shows that number again once all are read. `UnreadSettles` is about
the live count that arrived last.

### CreatorTeam and the code

`creators` are profiles with their members; `invites` with `acceptedAt` and expiry; the first
creator has a team that changes, the others come from invites of owners.

| Call | Steps |
|---|---|
| add, change, remove, invite | `Request...` `Permission` `Existing` `CountOwners` `WriteMember`, or `InsertInvite` `MailInvite` |
| `acceptInvite` | `Validate` (`InsertProfile` `InsertOwner`, or `InsertMember`) `MarkAccepted` |
| environment | `ExpireInvite`, `TeamCrash` |

### Library and the code

An image stands for its bytes, its hash and its key. `objects` is S3, `blobs` the inventory,
`assets` the registrations of each creator with sharing and tombstone, `grants`, `avatar` the rest.

| Call | Steps |
|---|---|
| `uploadLibraryAsset` | `Upload` `FindRegistration`, then `Retag`; or `HeadObject` `Inventory` `Store` `Register`, and when another call registered first `ReadWinner` `AdoptWinner` |
| profile image | the same, then `DropLegacy` `SetAvatar` |
| others | `DeleteAsset`; `Grant` `InsertGrant`; `Revoke` `DeleteGrant`; `LibraryCrash` |
| rules | `UseStatus` is `aggregateUseStatus`, `CanUse` is `canUseAsset` |

### EventSpine and the code

`stream[s]` is one subscription of the bus with its coalescing map, and the loop of the
route that drains it; `page[p]` a tab, what it fetched and what is under way; `version` the
data that events are about, `unpublished` changes whose event is not out yet.

| Call | Steps |
|---|---|
| publisher | `Change` `Publish`; `CloseAll` at shutdown |
| `GET /api/sse` | `Connect` (the cap) `Subscribe`, then `TakeNext` or `Heartbeat`, `AfterNext`, `Write`; `Deadline`, `Abort`, `Release` |
| the tab | `Arrive`, `Lose`, `Poll`, `ReadFetch` `FetchArrives` or `FetchFails` |

Every consumer answers an event with a fetch, so of an event the coalescing key is all
that matters. A fetch that fails is swallowed and the tab keeps what it showed (`use-polling.ts:84-87`):
until it fetches again it may be stale, and `FreshWhenOpen` leaves that out (`failed`), as it does fetches that overtook one
another (`crossed`). Both are history, and the next fetch that arrives ends `failed`.

### ChatRooms and the code

`members` is the server's map of rooms, `socket`, `wire` the connections and what is on the way
down, in order; `tab` the reducer's state; `posted`, `unsent` messages and broadcasts to come;
`reading` history queries under way. `getMessageHistory` reads 50 rows: `HistoryLimit`, and no
room gets more messages than that (`ChatAssumption`).

| Call | Steps |
|---|---|
| the tab | `ConnectTab` `SetActiveRoom` `DisconnectTab`, `Deliver` (`chatReducer`) |
| the server | join and leave within those (`Joined`, `Left`, `BroadcastToRoom` with its pruning); `Post` `SendOut`; `Announce`; `Query` `Answer`; `Detect` `OnClose` |

Every `broadcastToRoom` culls connections that have closed (`Cull`) and tells nobody; a presence broadcast alone shows
it. `SendOut` is the broadcast of a message, `Announce` stands for the five others (reactions, timeouts, bans, unbans,
slow mode). `culled` is history: rooms culled so and with no presence event since, which `PresenceSettles` leaves out
(`.work/backlog/chat-presence-reliability.md` reports a miss that was not resolved).

### ChatModeration and the code

| Call | Steps |
|---|---|
| `createMessage` | `Say` `CheckBanned` `CheckTimedOut` `CheckSlowMode` `InsertMessage` |
| sanctions | `Moderate` `CheckBan` `InsertSanction`; `SetSlowMode`; `CloseChannelRoom` |
| reactions | `AddReaction`, `RemoveReaction`: `CheckReactor` `ChangeReaction` `CountReactions` `TellReactions` |

`BanHolds` is about members who were banned before their call began and were not unbanned since
(`barred`), `SlowModeHolds` about calls during which no other of the same member ran
(`alone`): checks and insert are separate statements, and the code promises no more. `isUserTimedOut` looks at the latest timeout only.
The SELECT of a message's reactions and the broadcast after it are two steps, so an older count may be told last and stay
on the screens: `latest`, `inTurn` are history, and `ReactionsShown` is about tells in the order of their SELECTs.

### PoolRotation and the code

`resolvePoolNextUri` is `ReadPool` `ReadKeys` `Touch`; the pool's other writers are `QueuePlayed`
(`onTrackStarted`), `Assign`, `Unassign`, `ChangeMedia`, `RemoveContent`. `since`, `overtaken` are history:
which entries were served since an entry waits.

### EditorialControl and the code

`settings` and `tier` are the tables, `script` the file, `engine` what the running engine was
started with, `active` the channels that exist. A script is what it lets each channel air.

| Call | Steps |
|---|---|
| `setMode`, `setManualTier` | `Upsert`, then the regeneration |
| arm, take | `ArmQueue`; `TakeQueue` `TakeArms` |
| channels | `SetChannel` `WriteChannel` |
| regeneration | `Generate` `WriteScript` `Signal` `EngineStart` |
| tiers | `CreateTier`, `UpdateTier`: `CheckGraph`, then `InsertTier` or `ChangeTier`; `DeleteTier` |
| boot | `Crash`, `EnsureConfig` `EnsureTiers` |

`HasCycle` and `TopoSort` are those of `editorial-graph.ts` and `playout-topology.ts`. A call that
changes a tier holds, in `old`, the edge that the tier had when it was loaded, which the check of the graph
leaves out; one that creates a tier leaves out none. `InOrder` is the ORDER BY priority of the tiers, and
`manualTierIndex` the pin, an index into the enabled tiers that the script looks up among the rendered ones. Of
the tier operations only `ensureBroadcastEditorialConfig` is called at this commit
(`register-workers.ts:158`); the rest is the service's exported interface. Known and not stated
as a property: a pin is an index into the enabled tiers and keeps its number when one goes
(`.work/backlog/editorial-render-followups.md`), and each boot sets the broadcast back to "auto".
A shutdown that is refused with a status or a connection refused, and an URL that is not set, are answered ok although
the engine was not restarted (`liquidsoap-config.ts:147-174`): one disjunct of `Signal`, after which `due` holds. A change
of a tier's priority is left out, and so are creators' channels, which may not carry (`editorial-config.ts:142-190`).

### PlayoutIngest and the code

`film` is `playout_items` (rows numbered as they are inserted), `reel` the objects by row and file name: which
upload the bytes are of, and whether they were remuxed. `ingests` are the pg-boss jobs that wait, `worker` the
one that runs (`localConcurrency` is 1), `desk` the calls of the API and of tusd. `newest`, `amiss` are history.

| Call | Steps |
|---|---|
| tusd's post-finish hook | `CopyUpload`, then `CheckUpload` `RecordSource` `MarkUploading` `SendIngest`, or `RefuseUpload` |
| the ingest job | `TakeIngest` `StartIngest` `Remux` `SaveClean` `FillMetadata` `MarkReady` |
| create | `CreateMax` `InsertFilm` |
| delete | `DeleteFilm` `ListRemaining` `Reindex` (one UPDATE of all that the list holds) |
| others | `Retitle`, `RetryLoad` `RetryReset` `RetrySend` |
| faults | `MarkFailed` ("media"), `IngestCrash` ("crash") |

Of the metadata the title alone is kept, since an admin and the job both write it. The sizes, durations and the
ffprobe report are data. A job that is cut short is handed out again by pg-boss, in `IngestCrash`.
The hook copies before the role, HEAD and the size are looked at; a refusal leaves the copy there, or deletes it. When a row
names that key it is "refused" in `amiss`, which `ReadyIsNewest` leaves out with "overwritten" and "lost" (`Unharmed`). The
reindex has parameters with no type (`playout.ts:147-151`), which PostgreSQL may refuse: a disjunct of `Reindex`.

### Simulcast and the code

`dest` is `simulcast_destinations`; `feed[s]` the publisher of each stream in SRS: what it was classified as, where it
is forwarded to, and whether a restart was `owed`. `sessions`, `onAir` are what the classification reads of
`stream_sessions` and `channels`; `hangUps` the on_unpublish callbacks on their way; `change` the calls of the API.

| Call | Steps |
|---|---|
| a publish | `Connect` `ClassifyPublish` `ReadUrls` `GoLive`; `Disconnect`, then `HangUp` at any time |
| platform destinations | `AddPlatform`, `TogglePlatform`, `RemovePlatform`, then the restart: `SelectNames` `ListPublishers` (`Kick` `Kicked`, or `KickRefused`)*; `RestartFails` ("srs") |
| a creator's | `CountDests` `InsertDest`; `ToggleDest`, `RemoveDest` |

`on_publish` and `on_unpublish` are a step each: `LiveSession` has what goes on inside them. The status of a kick
is not looked at (`simulcast.ts:341-344`): one that SRS refuses leaves the restart owed, as one that fails does.

### PressDraft and the code

`press` is the row of `creator_press_configs`, `page` the editor in each tab, `ask` the requests on their way, each with
the document that it carries. A document is its text, numbered as it is typed, and whether the page is on. `dialog[t]` is
what the dialog in a tab asks to confirm; `stored`, `forgone` are history.

| Call | Steps |
|---|---|
| the editor | `OpenEditor`, `Edit`; `PersistDraft` (save, or save and publish), `UnpublishPage`, `DiscardDraft` (each a `Confirm`), `CancelDialog` |
| the server | `UpsertPressConfig`, `PublishPressConfig`, `UnpublishPressConfig`, `DiscardPressDraft`, `GetPressConfig` |
| the answers | `SaveAnswered`, `PublishAnswered`, `UnpublishAnswered`, `DiscardAnswered`, `AskFails` ("net") |

The dialog of a discard or of taking offline covers the form until it is answered, but for one case: a save answered
late sets "unsaved" (`-press-editor.tsx:239-240`), which enables Cancel while the confirmed request is on its way (`:809-813`).
What is then typed is lost when the discard is answered (`:320-321`). `forgone` holds the texts on the page when a
discard was confirmed and those typed while one was on its way; `EditsKept` lets only these, and stored ones, be replaced.

*Definitions that a mutant uses* (`ReceiveChecks`, `TouchNothing`, `IsUserBannedLatest` ...) stand before the
definition they would replace and are plausible slips of the code. No specification uses them;
they exist so that each property can be seen to fail when the code is wrong.

## 3. Runs

| Run | Question | Shows |
|---|---|---|
| `serial` | one queue call at a time; the API dies between any two statements; append, insert, remove, skip, items deleted under a call | `AtMostOnePlaying`, `AutoFillTopsUp`, and that the table implements `ChannelLineup` (`ImplementsLineup`) |
| `overlap` | two queue calls overlap freely, every request, pushes fail, events are lost, the engine restarts | `PushedWasAccepted`, `NeverRequeued` |
| `chain` | no faults, no overlap, fairness | `QueueDrains`: every waiting entry leaves; `NowPlayingTracksAir`: what is reported is what airs |
| `live` | two calls overlap freely, no faults, two clients with different keys and names | `ChannelFollowsStream`, `StoppedStreamGoesOff`, `NeverWithoutChannel` |
| `live_faults` | the same with a repeated on_publish and a crash of the API | `SessionsFollowPublishers` |
| `services` | the seven components of `MCServices`, two calls overlapping, each component's faults | `AppliedOnce`, `RowMirrorsStripe`, `AccessFollowsPayment`; `ServedFileExists`; `NoSpam`; `ReminderOnce`, `RemindedInTime`, `UnreadSettles`; `InviteOnce`, `AlwaysOwned`; `RegisteredIsServed`; `FreshWhenOpen` |
| `settles` | liveness of four of them under crashes, failed sends and lost connections | `EveryEventHandled`, `ProcessingSettles`, `MailSettles`, `ClosedStreamsEnd` |
| `realtime` | the seven components of `MCRealtime`, two calls overlapping, each component's faults | `PresenceSettles`, `MessagesSettle`; `BanHolds`, `SlowModeHolds`; `PoolRotates`; `EngineFollowsStore`, `TiersLegal`, `CarriedFirst`; `ReadyIsNewest`, `PlaylistInOrder`; `ForwardsFollow`, `TenantForwards`; `EditsKept` |
| `skip` (violation) | one skip | `NowPlayingTracksAir` fails |
| `live_retry` (violation) | one call at a time, one on_publish repeated | `OffWhenNobodyPublishes` fails |
| `pool_rotation` (violation) | the pool of a platform channel | `PoolRotates` fails |
| `webhook` (violation) | an event that is delivered again once its id is recorded | `EveryEventAnswered` fails |

`serial` visits 360 thousand states, `services` 1.1 million, `realtime` 2.1 million. `TypeOK` of `PlayoutQueue` and
`LiveSession` and `ForwardTypeOK` are proved; those of the other modules (`BillingTypeOK`, `MediaTypeOK` ...) state
the ranges for a reader, and are no property of a standing run. Nor are the properties that a theorem states
and TLC checked while they were written: `QueuedPositionsDistinct`, `RoomReused`, `SentAsRecorded`, `UseAgrees`,
`StoredIsInventoried`, `CapHolds`, `NoLostWakeup`, `ReactionsShown`, `PublicIsComplete`, `HiddenStays`, `DestCap`.

### Findings

1. *A skip advances twice.* `skip` marks the playing row, tells the engine to skip
   and promotes the next row. The engine then starts its next track and posts a
   track-event; `onTrackStarted` marks the row just promoted as played, and promotes
   another. From then on the reported entry is one ahead of the air
   (`queue-control.ts:185-219` against `:31-75`).
2. *A repeated on_publish leaves a channel on, or a session open.* Each on_publish opens a session;
   on_unpublish closes one of the two, and `ORDER BY ended_at DESC` in `teardownLiveChannel` takes
   the one still open, as NULLs sort first in PostgreSQL. A channel on the closed one stays on
   (`stream-lifecycle.ts:88-98`), against `docs/streaming.md:56`.
3. *The pool of a platform channel does not rotate.* `editorial-control.ts:228` and `:237` say "nulls
   first"; the branch for platform channels orders by `asc(lastPlayedAt)` (`:275`), and PostgreSQL
   puts NULLs last. What has been played is offered before what never was.
4. *A repeated Stripe delivery is never answered with 200.* The id is recorded before the handler runs
   (`webhook.routes.ts:193`), and a repetition is recognised by `e.code === "23505"` (`:199`), which drizzle-orm 0.45.2
   hides under `cause` (`bun.lock:1187`). Each further delivery is answered 500, against "already processed"
   (`:169`, `:198`) and `webhook.routes.test.ts:156`, where the error is a mock with the code on it. An event
   whose handler died is thereby never handled, whatever Stripe sends.

Known races that are documented here and have no run: a removal beside a promotion can delete the
playing row; a lost track-event stops the queue until the next request, for nothing polls the engine; a
teardown between whose statements a replacement goes on air switches it off (`channels.ts:377-391`); two
removals of owners at once can remove the last one (`creator-members.routes.ts:252`); a video whose
upload is replaced during its transcode may serve the older transcode (`transcode.ts:85`); an admin's title, given while
the ingest job that read none is at work, is replaced by the file's tag (`AdminTitleKept`, `playout-ingest.ts:105`
beside the comment at `:97`); and since the playout's streams are looked up by the names of all active
channels, a change of the platform's destinations also kicks a creator who is on air (`SparesCreators`,
`simulcast.ts:311` beside the comment at `:299`). Also without a crash or a second call: an oversize upload under the
name of an item's own file deletes the file (`upload-completion.ts:167-170`), a playout upload that is refused after its copy
leaves a ready row over a raw or deleted file (`tusd-hooks.routes.ts:154-166`), and a refetch that fails leaves a tab stale. With
two calls: an older count of reactions told after a newer one, and text typed while a discard is on its way.

### Bounds

| Constant | Values | Why enough |
|---|---|---|
| `Handlers` | 1, or 2 | 1 is the regime in which calls do not overlap; every hazard of overlap listed needs two calls |
| `MaxEntries` | 2 to 6 | 3 allow one playing, one waiting and an insert before it, 6 let the chain refill more than once. It bounds rows ever inserted, not rows alive |
| `MaxPosition` | `MaxEntries` + 1 | shifts by an insert at the head; a shift beyond it is not started |
| `AutoFillThreshold`, `AutoFillBatch`, `PrefetchDepth`, `HistoryCap` | small | every limit is reached, in the order threshold < batch of the code (5, 10, 3, 100) |
| `MaxBuffer`, `MaxEvents` | 1, or as many as entries in `chain` | an engine that is full or an event not yet handled occurs; `chain` must not be stopped by them |
| `Clients`, `Keys`, `MaxSessions`, `MaxRows` | 2, 2, 2 or 3, 2 or 3 | a reconnect or two encoders; one session more where an on_publish is repeated; with 3 rows, two dedupes and an insert meet |
| `Subs`, `MaxEvents`, `MaxPeriods` | 1, 4, 1 | checkout, failed payment, recovery, end; subscriptions share no row. Two deliveries and a cancel share two slots |
| `Files`, `MaxUploads`, `MediaTasks` | 2, 2, 1 | an upload and its replacement (`Put` needs no task), with jobs of the first still waiting in `queue` |
| `Cooldown`, `MaxMinutes`, `MaxEdges`, `RetryLimit` | 2, 2, 2, 1 | an edge at the cooldown's last minute and one after it; one retry, then failed |
| `Window`, `MaxTicks`, `MaxEdits`, `MaxToggles`, `MaxRows`, `MaxDrops` | 2, 3, 1, 2, 2, 1 | an event ahead of, within and past the window, moved once; two rows, so counts 0, 1, 2 |
| `MaxInvites`, `MaxTeamCalls`, `People` | 1, 3, 2 | a request that ends, then two that overlap (`Team`) |
| `Artists`, `Images`, `MaxWishes` | 2, 2, 2 | two uploads of one image by one or by two creators; grants |
| `Streams`, `Pages`, `Keys`, `maxConnections`, `MaxVersion`, `MaxFetches`, `MaxLosses` | 2, 1, 2, 1, 2, 1, 1 | a reconnect beside the stream it replaces, two events that do and that do not coalesce |
| `Tabs`, `Sockets`, `Rooms`, `MaxMoves`, `MaxMessages` | 2, 3, 2, 2, 1 | a ghost, its replacement and another viewer; a move away and back. `MaxMessages` is at most the 50 that a history read returns |
| `MaxSaid`, `MaxSanctions`, `MaxSeconds` | 2, 3, 1 | ban, unban and ban; two messages within and beyond an interval |
| `PoolEntries`, `MaxPlays` | 3 (one foreign), 2 | an entry that waits while another plays twice |
| `Playouts`, `TierIds`, `MaxVerbs` | 2 and the broadcast, 3, 3 | a cycle of two channels, of one, and a third tier that reaches it |
| `Films`, `MaxFilms`, `MaxCopies`, `MaxWaiting` | 2, 3, 2, 0 | an upload and one under the same or another name; three rows, one of which goes |
| `Hosts`, `HostCap`, `MaxDests`, `MaxConnections` | 1, 1, 2, 2 | a connection and its successor; one destination of the platform's beside a creator's, or two of the creator's |
| `PressTabs`, `PressCalls`, `MaxTexts`, `MaxAsks`, `Unfinished` | 2, 2, 2, 3, one of the texts | two requests of one tab or of two on their way, a text that may not be published |
| fault sets | each fault once | `trouble`, `mishap`, `repeated`, ... |

The parts of `MCServices` and `MCRealtime` are narrowed further where two halves of a module do not
meet: the bell and the reminders, messages and reactions, tiers that change one after another and calls of
every kind beside each other, uploads of one film and a playlist without uploads (`Bell`, `Reminders`, `Speech`, `React`, `Graph`,
`Control`, `Ingest`, `Playlist`); `Forward` has one destination of the platform's at a time. In `live_faults` no
duplicate row is ever old enough to be deleted (`MaxRows` 2): `Dedupe` is exercised by `live`. `CHECK_DEADLOCK
FALSE` stands in the configurations whose supplies (entries, clients, events, requests) are bounded: when
they are used up the system comes to rest and waits for someone to ask for more.

### Fairness

`FairSpec` of PlayoutQueue assumes weak fairness of three things. `Step(h)`: Node runs a call that was
accepted to its end. `TrackStarted(h)`: the API answers a webhook it received.
`EngineAdvance`: a track comes to its end. No operator request is fair. Since requests are
bounded by `MaxEntries` they cannot keep a slot busy for ever, as real operators
do not. `FairSpec` of LiveSession: `Step(h)` again, and that a callback which SRS has posted is taken
up by some handler (Node accepts the request). Clients, keys and faults are not fair.

`FairSpec` of `MCServices` joins those of its components: weak fairness of `RunsOn(v)`, a call, job or loop
goes on, and strong fairness of `HandedOut`: Stripe delivers what was not answered, and
pg-boss hands out a job that waits. It is strong because a slot is a device of the model, which
others may take and give back again and again; the real servers have no such slot. Nothing
that a user or a fault does is fair.

## 4. Proofs

Each proof covers every value of the constants that its assumption admits, hence any number of calls
that overlap and any number of faults that the bounds, arbitrary naturals, allow.

| Theorem | States | Inductive invariant |
|---|---|---|
| `PlayoutQueueProofs!TypeCorrect` | `Spec => []TypeOK` | `TypeInv`: the ranges, and that a handler that is to write a row holds one, one that pushes has a list left, one that computed a position has a positive one |
| `PushedAccepted` | `Spec => []PushedWasAccepted` | `PushedInv`: a handler about to set the flag (`pushFlag`) holds an entry the engine took |
| `EntriesMoveOn` | `Spec => NeverRequeued`: no step from queued to played, from on or played to queued, or from deleted to anything; from played to playing is allowed, for promotes that overlap | `LifeInv`: a row in the hand of `markPlayed` is not queued, one in the hand of `promoteNext` is born, rows not yet born are absent |
| `OneNowPlaying` | `OneAtATime`: `Spec => []AtMostOnePlaying` | `PlayingInv`: nothing plays while the call is between `markPlayed` and `promoteNext`'s write, or only the row it is about to mark |
| `PositionsDistinct` | `OneAtATime`: `Spec => []QueuedPositionsDistinct` | `PositionInv`: the position computed by a call under way is free, by being above every live row or by the shift |
| `TableIsLineup` | `OneAtATime`: `Spec => ImplementsLineup`, the refinement | `SerialInv`: those of the rows above, and `PickedInv`: the row `promoteNext` holds is the first that waits, or its item was deleted since |
| `FillTopsUp` | `OneAtATime`: `Spec => AutoFillTopsUp` | `FillInv`: what a fill counted plus what it picked fits the batch, and the picks are items once each that no live row refers to |
| `LiveSessionProofs!TypeCorrect` | `Spec => []TypeOK` | `TypeInv`: a call that acts for a client, on a session or on a row has one |
| `ChannelKept` | `Spec => NeverWithoutChannel` | `KeptInv`: rows are numbered as they are made, no call's list holds a row not made yet, and the oldest row is on no call's list |
| `SessionsFollow` | `Spec => []SessionsFollowPublishers` | `FollowInv`: a client has at most one session, and one callback that waits or one call about it; a teardown is of a client that has stopped |
| `OneRoom` | `Spec => []RoomReused` | `RoomInv`: one call runs at most, and one that is to make a room knows of a channel that has none |
| `ChannelFollows` | `Spec => []ChannelFollowsStream` | `ChannelInv`: a channel that is out of step with its session or its event is in the hand of the one call that runs; with `FollowInv` and `RoomInv` |
| `ReportTracksAir` | `Undisturbed`: `Spec => []NowPlayingTracksAir` | `AirInv`: of the rows that wait the engine has played as many as there are events not handled yet, they are the first ones, and the last of them airs; `buffer` holds the next in their order |
| `HandledOnce` | `BillingSpec => []AppliedOnce` | `OnceInv`: an event is handled or in the hand of a delivery only when its id is recorded, and never both, nor in two hands |
| `RowsMirror`, `PaymentOpens` | `BillingSpec => []RowMirrorsStripe`, `[]AccessFollowsPayment` | `BillInv`: `Told`, what an event says follows from the event before it of that subscription (`Then`), and the last one says what Stripe holds; `RowFits`, while events were handled in turn the row is what the last handled one says, cancelled only if Stripe has it so; `CallFits` |
| `Spaced` | `MailSpec => []NoSpam` | `SpacedInv`: what a pass that is alone found out about the cooldown is still so when it arms |
| `RecordsTrue` | `MailSpec => []SentAsRecorded` | `RecordInv`: a job past its send has sent |
| `ImagesServed` | `LibrarySpec => []RegisteredIsServed` | `ServedInv`: every registration, tombstoned or not, has its image stored, and `CallOK`, what an upload in flight may rely on |
| `Inventoried` | `LibrarySpec => []StoredIsInventoried` | the same: an upload stores only what it has inventoried |
| `OneRule` | `LibrarySpec => []UseAgrees` | none: the two rules agree on all tables |
| `Capped` | `SpineSpec => []CapHolds` | `SpineInv`: places held by subscribed and admitted streams are within the cap unless `rushed` |
| `NeverSleepsOnEvent` | `SpineSpec => []NoLostWakeup` | `SpineInv`: a stream that waits has an open subscription with an empty map |
| `NothingMissed` | `SpineSpec => []FreshWhenOpen` | `FreshInv`: for each stream an event is out, or pending in its map, or on the wire (`Signals`), or the tab shows or fetches the version (`Shows`) |
| `BellSettles` | `InboxSpec => []UnreadSettles` | `BellInv`: a push that runs alone has counted what is unread now, and the bell shows that once no push is under way, unless all is read |
| `RemindedOnce` | `InboxSpec => []ReminderOnce` | `OncePending`: an event about to be reminded of by a pass that is alone has no row for its occurrence |
| `RemindedByThen` | `InboxSpec => []RemindedInTime` | `TriedInv`: as many passes failed or are under way as began since the event came within the window |
| `ServedThere` | `MediaSpec => []ServedFileExists` | `WholeInv`: the one task that runs has what it needs (`Fits`), and the row lacks only what that task has taken (`Lacks`) |
| `NoEditLost` | `PressSpec => EditsKept` | `KeptInv`: what the server holds and what a request brings back was stored, an answer is of the revision it was sent with, and while a discard is on its way the page shows what is kept or forgone |
| `PublishedComplete`, `StaysHidden` | `PressSpec => []PublicIsComplete`, `[]HiddenStays` | `PublicInv` |
| `PlayoutFollows` | `ForwardSpec => []ForwardsFollow` | `FollowsInv`: also what the playout is about to be answered is what is switched on, unless a call still has to restart it |
| `OwnForwards`, `DestsCapped`, `ForwardTyped` | `ForwardSpec => []TenantForwards`, `[]DestCap`, `[]ForwardTypeOK` | `TenantInv`; `CapInv`: calls that have counted are counted with the rows |
| `ReadyPlaysNewest` | `IngestSpec => []ReadyIsNewest` | `NewestInv`: bytes under a key are those of its last upload, and a row that is ready while its source is newer has a hook or a job that will say so |
| `PlaylistOrdered` | `IngestSpec => []PlaylistInOrder` | `OrderInv`: a row's position is at least its rank among those alive, and a list about to be written back keeps the order (`Rank`, `ListOK`) |
| `PoolTurns` | one call at a time on a creator's channel: `PoolSpec => []PoolRotates` | `PoolInv`: whoever was served since an entry waits was played after it, so that the entry comes first |
| `EngineRunsStore` | `EditSpec => []EngineFollowsStore` | `FollowInv`: unless renders crossed one call renders at most, and the script written, read or running is what the tables render to, or that call still owes a step (`Owes`) |
| `TiersStayLegal` | `EditSpec => []TiersLegal` | `TiersInv`: the edges of the tiers and what the one validated call is about to add form no cycle, and no playout channel gets both types |
| `BlocksInOrder` | `EditSpec => []CarriedFirst` | `RowsInv`: only playout channels are active. The loop's own is `Sorted`: out, or next in the queue, are those whose sources are all out, once each |
| `BansHold`, `SlowModeKept`, `ReactionsTold` | `ModerationSpec => []BanHolds`, `[]SlowModeHolds`, `[]ReactionsShown` | `BanInv`: who was banned before the call is still to be asked; `SlowInv`: a call that is alone and may insert has waited since each message of its user; `ReactInv`: what the latest SELECT found is what there is, unless a call is still to count |
| `PresenceTold` | `ChatSpec => []PresenceSettles` | `PresenceInv`: what a tab shows, with the broadcasts on its wire applied in order, is who is in the room |
| `MessagesShown` | `ChatSpec => []MessagesSettle` | `MessagesInv`: what a tab shows, with its wire and its reads applied, is the room's messages but for those not sent out yet |
| `GoodOnce` | `TeamSpec => []InviteOnce` | `InviteOK`: an invite whose acceptances did not overlap has one of them in flight at most, has had no effect before it writes, and none goes on once it is marked |
| `Owned` | `TeamSpec => []AlwaysOwned` | `OwnedInv`: a call about to remove a member leaves another owner, unless an owner was demoted or a call crossed it |

*Assumptions.* Those that the modules name, which TLC evaluates in the runs: `PlayoutAssumption` (finite `Items`, natural
bounds, `AutoFillThreshold <= AutoFillBatch`, `None` is neither an entry nor an item), `LiveAssumption`, and one each of
the others: natural bounds, finite sets of slots, and that `None` and other marks (`"custom"`, `"legacy"`) are not also files,
events, images, channels or rows. The 50 rows of a history read bound `MaxMessages`. In addition a theorem states what its
second column names: the serial ones `OneAtATime == \E h : Handlers = {h}`; `ReportTracksAir` also no faults, and requests
that append and assign only (`Undisturbed`: with a skip the property fails, see finding 1); `PoolTurns` one call at a time of a
creator's channel (see finding 3).

Why strengthening is needed: the properties speak of tables, yet what breaks them is what a
call holds in its hand between two statements. Each invariant says for every step what is
still true of what was read. Those that hold under every overlap rest on facts no other
call can take away: an entry once taken stays in `accepted`, one that left "queued" never returns, an id once
recorded stays recorded, an object of the library is never deleted. Those that do not (`OneNowPlaying`,
`PositionsDistinct`, `TableIsLineup`, `FillTopsUp`, `OneRoom`, `ChannelFollows`, `Spaced`, `Capped`, `GoodOnce`, `Owned`) state the overlap under which the code makes no
promise, and the proof shows that there is no other. In the newer ones that overlap is a history
variable in the property itself, and the invariant carries the property's own excuse.

`TableIsLineup` maps each statement: the row that `promoteNext` writes starts in the lineup, the one that
`markPlayed` or `skip` writes finishes, an INSERT enqueues, an item's deletion withdraws the rows that refer to it, and
every other statement stutters. One lemma per kind of step (`PromotionStarts`, `MarkFinishes`,
`InsertEnqueues`, `DeletionWithdraws`, `NothingMoves`) says so; `NumbersOrder` says that distinct
positions make the order of the rows the order of the lineup, and a shift keeps it.

`ChannelKept` is carried by this: a list of duplicates, however old, was made from the rows of its time without
their oldest, and a row that is inserted later is younger than all of them; so the oldest row
of now was the oldest then, or was not there. `HarmlessKeeps` covers the steps that neither
delete nor plan to. `InsertRowsOK`, `InsertRowsLife` and `InsertRowsDistinct` carry what an INSERT of
several rows preserves; `FirstByIsList`, `ListParts`, `MaxLiveBounds` and `LiveFinite` are about the queries.

`RowsMirror` reads the property off the last event: with all of them handled in turn the last handled one is the last
one sent, which says what Stripe holds. `LastOf` gives the last number of a bounded set, from the well-foundedness of <
(`WFMin`); `HandledFits` is the one step that matters, the handler of an event that follows the one the row stands for.
A webhook's handler runs twice nowhere in that argument: a second run would be out of turn.

`TiersStayLegal` needs that `detectChannelSourceCycles` finds every cycle, for any graph: `CyclesFound` takes a set of
channels each of which carries one of the set, walks along it once more than there are channels (`WalkExists`,
`WalkGoesOn`), and the walk meets itself. `EdgeMoves` says that it is sound to leave out the old edge of the tier that
changes, `FewerEdges` that deleting never adds a cycle. `Least`, `Greatest`, `Induct` and `Reaches` are induction on natural
numbers stated for sets, since the library's theorem takes an operator; `SomeOrder`, `ByTimeIs`, `OrderFound` and `InOrderIs` say
that a finite set has an ascending enumeration, for `PresenceTold`, `MessagesShown` and `BlocksInOrder`. `Ahead` and `Due` of `PoolTurns` use the same, for a batch is the
beginning of the pool by `lastPlayedAt` (`BatchIs`).

Two definitions were found not to say what was meant, and were changed. Guards of the CASE in `Handled` overlapped: TLC takes the
first, the definition leaves open which. And `SUBSET X \ Y` in `TiersLegal` is parenthesised, as the tools read it differently.

`BlocksInOrder` is about an algorithm and not about steps: `TopoSort` is a function of the turns of the loop, which
exists for any number of turns (`SortExists`); a turn keeps `Sorted` and puts one channel out (`EmitSorts`); and when the queue
is empty before every channel is out, those left each carry one of them, which `CyclesFound` excludes (`TopoSortIs`).
To prove about it, what waits is sorted by `inputOrder` (`InOrder`), as the code does, where it was filtered with
`SelectSeq`, which the provers cannot expand.

*Model-checked only.* Liveness under fairness is out of the prover's reach: `QueueDrains`, `StoppedStreamGoesOff`,
`EveryEventHandled`, `ProcessingSettles`, `MailSettles`, `ClosedStreamsEnd`. Every other property of a passing run is a theorem.

## 5. Hazards

`PROJECT.json` lists each at its line. All but two have properties; those two do go wrong, and have a note
that says how: a removal can delete the entry that a promotion has just put on, and a transcode of a
replaced upload may be served. `NeverDeletesPlaying` states the first for a reader who wants to see TLC refute it. Where
the code promises nothing for calls that overlap, the property says under which overlap it is void, by
a history variable (`barred`, `amiss`, `rushed`, `muddled`, `validatedTogether`, `renderedTogether`, `alone`,
`culled`, `inTurn`, `forgone`) that is set only where the second call really reads or writes between the first one's
statements, so that every other behaviour is still covered.

## 6. Plan

Done: the modules of section 2, their configurations and eight modules of proofs. Next, in this order:

1. `dispatchNotification` for the types other than go-live, closing of rooms, SRS's connection details.
2. `NeverDeletesPlaying`, `AdminTitleKept` and `SparesCreators`: the weakest condition under which each holds, and its proof.
3. The liveness properties again, on instances with more clients, events and jobs.

## 7. Not modelled

- Rendered Liquidsoap text, and live inputs: only what a script lets a channel air matters.
- `reorder` of playout items, and their columns other than source, status, title and position. `regenerateAndRestart` loses the engine's queue while rows stay pushed
  (`liquidsoap-config.ts:156`): "engine" in `PlayoutQueue` has that effect.
- `dispatchNotification` for other types than go-live; `isEmailConfigured` being false.
- The legacy multipart upload of a thumbnail, audio, images and the sweep of incomplete uploads.
- In chat, word filters and their patterns, `room_state` and what moderation broadcasts say, closing of rooms.
- In the library, browsing, filters and registrations of the platform.
- `fetchPlayoutChannel`, whose comment says that it rejects channels of other roles although it looks at
  none: every caller of the model passes a playout channel.
- Audit rows, titles, durations and wording everywhere.
- CRUD routes, federation and authentication, booking, calendar, projects, press PDFs, emissions,
  merch and the pages of the web client: single statements, rendering, or delegation to a library or
  remote service. They hold most of the repository's lines and none of its protocols.
