# Rideway API: a TLA+ verification project

This directory holds TLA+ models of the Rideway backend (NestJS, PostgreSQL
through TypeORM, Redis through ioredis, BullMQ, socket.io), the TLC
configurations that check them on small instances, and TLAPS proofs of the
properties that matter most for every value of the constants.  Paths below are
relative to the repository's `src/` unless they say otherwise.

## 1. The system

The server is one Node.js process.  Its handlers run on one thread and are
interleaved at every `await`.  Only `blockUser`, the creation of a conversation
and the sending of a message open a database transaction, and only
`CacheService` takes a lock.  Everything else is a sequence of single
statements, and this shapes every model here:

- a **check-then-act** over two awaits is a place where another request steps in;
- a **sequence of writes** can stop half-way, when a query fails or the process
  ends, and what is written stays;
- an **entity loaded earlier and saved later** writes stale columns back;
- a **counter** kept beside the rows it counts moves in a statement of its own.

One step of a model is what the code does between two awaits.  A `pc` variable
holds, for each request, handler or job, the await it stands at.

### 1.1 Inventory

Status: **M** modelled (every operation that changes state), **m** partly, **-** left out;
section 5.3 gives the reasons.

| component | state it keeps | operations | what is hard | what makes it correct | |
|---|---|---|---|---|---|
| Socket gateway, presence (`modules/gateway`) | Redis `socket:user:*`, `user:sockets:*`, `online:users`, appear-offline and typing keys; table `user_activity`; rooms in memory | connect, disconnect, presence messages, typing, rooms | two handlers per socket, several devices per user, failures between Redis calls, restart | sets, row and announcements agree; nobody stays online or offline for ever | m `Presence` |
| Authentication (`modules/auth`) | `users`, `user_profiles`, `otp_codes`, `refresh_tokens` | register, verify, login, refresh, logout, forgot, reset; the guards | whole-entity saves, codes checked and used in two statements, three-row registration | a code works before it is used up; a revoked token stays revoked; a reset password stays; a handler acts for whom its guard let in | m `AuthSessions`, `Registration`, `Access`, `Routes` |
| Notifications (`modules/notifications`) | `notifications`, `notification_preferences`, Redis `notification:unread:*` | create, mark, delete, count, preferences | a cached count beside the rows, a choice between socket and push over two reads | the count is right or is going to be; every event is heard, pushed or listed | m `NotificationUnread`, `NotificationDelivery` |
| Device tokens, FCM (`notifications/fcm`) | `device_tokens` | register, sign off, send, drop refused tokens | a phone changes hands in up to five statements; Firebase refuses some or all tokens | a token is active for one user; what was signed off stays so | m `Devices`, sender in `NotificationDelivery` |
| Queues (`modules/queue`) | BullMQ queues in Redis | add, process, retry, recurring jobs | retry after a partial success, stalled jobs, two servers that start together | attempts bound the effects; every job ends; no recurring job is missing | m `NotificationDelivery`, `Schedule` |
| Users, social graph (`modules/users`) | `user_follows`, `user_blocks`, profiles, avatars | follow, unfollow, block, unblock, profile edits, pictures, lists | block against follow, removal of a stale row, whole-row saves | nobody follows across a block; the profile names its picture; no list crosses a block | M `SocialGraph`, `Profiles`, `Audience` |
| Comments (`social/comments`) | `comments`, `comment_likes`, counters | create, edit, delete, like, lists | counters beside a soft-deleted tree | two levels; counters tell what is shown | M `Comments`, `Likes`, `Audience` |
| Posts (`social/posts`) | `posts`, images, likes, hashtags | create, edit, delete, like, share, feeds | counters, hashtags written one by one, uploads, three reads of a list | counters agree with rows; nobody sees what is not meant for him | M `Posts`, `Likes`, `Galleries`, `Audience` |
| Chat (`modules/chat`) | `conversations`, participants, `messages` | open, send, mark read, delete, mute, unread count | two users open at once; a marker in milliseconds against rows in microseconds | one conversation per pair; what was read is not unread | m `Chat` |
| Stories (`social/stories`) | `stories`, `story_views`, media | create, view, delete, hourly expiry | media removed before the row | visible stories have their media, but for named reasons; views counted once; expired ones go | M `Stories`, `Audience` |
| Forum (`modules/forum`) | threads, replies, likes, subscriptions, counters, categories | create, reply, lock, pin, like, subscribe | deletions and cascades under open requests | counters agree | m `ForumThreads`, `Catalog`, `ViewCounters` |
| Marketplace (`modules/marketplace`) | listings, parts, images, favourites, categories, cached copies, Redis view counters | create, edit, sell, view, favourite, lists | copies stored after their invalidation, objects deleted before rows, double clicks | lists and copies differ from rows only for a reason; no view counted twice | M `Shelves`, `Catalog`, `Favorites`, `Galleries`, `ViewCounters` |
| Services, reviews (`modules/services`) | services, pictures, reviews, stored rating | write, review, lists, categories | rating computed in one statement and stored in another | the rating is that of the reviews | m `Ratings`, `Shelves`, `Catalog` |
| Cache (`common/cache`) | Redis keys with TTL, lock keys | get-or-set, stale variant, warming | a lock without owner, a value computed before an invalidation | a stale value goes away | m `CacheAside` |
| Media, object storage (`modules/media`) | objects in R2 | upload variants, delete, delete by key | one of several objects fails; no owner is asked | no row without its objects | m `Galleries`, `Profiles`, `Stories` |
| Persistence (`database`, `redis`) | schema, client wrappers | migrations, up and down | two deployments migrate at once | each migration finds what it needs | m `Migrations` |
| Request pipeline (`main.ts`, modules, guards, pipes) | none | routes, guards | a handler that passes a field the user does not have | see Authentication | m `Routes`, `Access` |
| Admin, health (`modules/admin`, `modules/health`) | none | reports, flush of Redis | - | only administrators | m `Routes`, `Access`, flush in `ViewCounters` |
| Security (`common/security`) | failed-attempt counters, event lists | count, report | - | - | - |
| Logging, metrics, audit (`common/logging`) | bounded buffers | append, report | - | bounded | - |
| E-mail (`modules/email`) | none | one SMTP call | - | - | - |

### 1.2 How the parts interact

- Presence writes `online:users`; notification delivery and chat read it to choose
  between a socket event and a push.  In `NotificationDelivery` that set is an
  environment that changes at any moment, which `Presence` shows it does.
- `NotificationsService.create` is called in a request, or by the notification job.
  It writes a row, deletes the cached count (`NotificationUnread`), emits on a
  socket or adds a push job (`NotificationDelivery`).
- `user_blocks` is written by the social graph and read by follow, chat, feeds,
  comments and stories, always before and never in the transaction that acts on it.
  `Audience` composes these writers with every reader.
- Post, comment and thread counters are written by their own services only, so
  each is modelled with its component and without the others.
- Every HTTP request comes through a route, its guard and its handler: `Access` takes
  the table `Routes` of 190 handlers (all but the greeting at `/`) and puts one generic service behind them.
- Objects in R2 are named by rows of four services.  The names are fresh, but a row may
  be given any address (a story's `mediaUrl`, the `imageUrls` of a post), and `DELETE
  /media/:key` deletes any object for anybody who is signed in.  So a service may find
  that an object its rows name was deleted from outside: `DeleteByKey` of `Stories`,
  `Galleries` and `Profiles`, which stands for that route and for the other services.

## 2. Modules

`X.tla` is a component, `MCX.tla` instantiates it for TLC (symmetry, values for
function constants, the regions explored).  `X_proofs.tla` holds the theorems on `X`.
Components that share no state are run together by a harness: the initial state picks
a focus and only that component moves, so that the state space is the sum of theirs
and every invariant sees its own component.  The proofs on the components of a harness
are about the harness as TLC runs it, in `MCStores_proofs`, `MCJobs_proofs`,
`MCSocial_proofs` and `MCRecords_proofs`; `Content_proofs` goes on from
`MCSocial_proofs` with posts, forum and what joins the social components.
`Presence_proofs`, `AuthSessions_proofs` and `Registration_proofs` stand alone.

| harness | components |
|---|---|
| `MCStores` | `NotificationUnread`, `ViewCounters` (with `ViewFate`), `CacheAside` |
| `MCJobs` | `NotificationDelivery`, `Stories`, `Devices`, `Schedule` |
| `MCSocial` | `SocialGraph`, `Comments`, `Likes`, `Chat`, `Posts`, `ForumThreads` |
| `MCRecords` | `Registration`, `Access` (with `Routes`), `Audience`, `Profiles`, `Galleries`, `Ratings`, `Catalog`, `Shelves`, `Favorites`, `Migrations` |

### Presence

One instance of `handleConnection` (`cpc`) and one of `handleDisconnect` (`dpc`)
per socket, and one per presence message.  `socketUser`, `userSockets`, `online`
are the Redis keys, `row` the `user_activity` row, `conn` the transport, and the
followers' last announcement is kept per user.  Socket ids are fresh, as socket.io
draws them.  The commands of one `Promise.all` go out in one tick on the single
ioredis connection and are one step; when the connection fails, a prefix of them
has run (`RegisterWrites`).  Errors of the database inside `updateUserActivity` are
swallowed as in the code.  A failing call ends the handshake with `disconnect`
(`ConnectionFault`), a failing clean-up is only logged (`DisconnectFault`), and
`Crash` closes every socket and keeps Redis.  Times of last sight are left out.
`orphaned`, `raced` and `overlapped` are history variables: sockets whose clean-up
was cut short, users taken offline across a registration, users whose handlers
overlapped.

`OnlineStatus` is the abstract specification: a device comes and goes once, a user is online
while a device is on, and of a user whose handlers overlapped or whose calls failed
nothing is promised.  `Place` maps a socket to such a device by where its handlers stand,
not by what Redis holds: on from the writes of `registerSocket` until `unregisterSocket`
has removed the user or lowered the count.

### NotificationUnread

The rows of one user (absent, unread, read, gone) and the cached count (no key, or
a key with a number).  Requests create, mark, mark all, delete and count, each
await by await; `DeleteOld` is the clean-up job's deletion of old read rows; `Expire` is
the five-minute TTL; `Restart` ends every request.  `overtaken` records that a
write came between a request's count and its store, `excuse` what has happened
since the key was last right.

### AuthSessions and Registration

`AuthSessions` has one registered user.  TypeORM's `save` of a loaded entity
writes back every column that differs from the row (`Save`), its `update` only the
named ones.  `generateTokens` inserts a token row, signs, and saves it again; that
second save may find the row changed, so it writes nothing or clears
`revokedAt`.  Codes name the passwords set with them.  The branch of logout for all
devices cannot be reached from the controller, `blacklistToken` has no caller,
`isActive` is never changed and codes for telephones are never made: none is
modelled.  `Registration` has several users: two look-ups and three inserts without a
transaction, with only the unique indexes between overlapping requests.

### NotificationDelivery

Each event is one process: a request or a job, at most one worker at a time per
queue.  A job that throws is tried again until `MaxAttempts` (3 in the code, 2 in
the run), a job whose server died is given back once.  The gateway service
is null in the job processor because `QueueModule` does not import it.  An event is sent
to the sockets from its row, loaded again, so that a row its user deletes in between
(`DeleteRow`) is sent to nobody.  Firebase is an environment: no token, some refused,
all refused, down.

### SocialGraph

Follow and block rows are numbered, so that `remove` of a row found earlier deletes
that row and not one that replaced it.  A block is three statements of one
transaction at READ COMMITTED: each deletion sees the rows of its own moment and
locks them until the commit; two mutual blocks can deadlock and the database fails
one of them (`Fail`).

### Comments and Likes

`Comments` has the rows of one post with `replies_count` and `comments_count`, each
statement of `create` and `delete` a step.  Bodies, edits and order of the lists
are left out; `Listed` is what the two list queries can return.  `Likes` is the
toggle that posts and comments share (the forum has the same one): like rows have
numbers, since a toggle deletes the row it found by id.

### Chat

The chat of two users.  A conversation and a message are each written by one
transaction, which appears at its commit and carries the time of its beginning
(`now()` in PostgreSQL), so messages can appear in another order than their dates.
The clock counts finer than a `Date`: `Milli` ticks are one millisecond, and `Date`
cuts the rest off, as every value does that passes through JavaScript.  Left out:
`left_at`, which nothing sets (`leftAt: undefined` in a `where` is no condition), the
keys of the unread cache, which are deleted and never written, muting, and requests
that a block refuses, which write nothing.  `together` and `overtaken` record that
two requests opened the chat at once, and that a later mark passed an earlier one.

### ViewCounters and ViewFate

A number is modelled as the set of the views it stands for, so that a view counted
twice or never shows; a view is an increment that Redis executed.  `ListKeys`, `TakeKey`
and `AddViews` are the three awaits of `syncViewCounts`; runs of the timer overlap.
Failures are placed where they differ: an increment that fails (`AddFails`), Redis
answering with an error (`TakeFails`), an answer lost after the key was deleted
(`ReplyLost`), the administrator's flush (`FlushAll`, which empties the whole database
of Redis, views included), and a restart.  `ViewFate` is the abstract specification: a
view is open until it is counted, once and for good, or lost.  `CountsOnce` states that
the counters implement it, with the views in Redis and in hand as the open ones.

### CacheAside

One key with the data it copies.  Errors of Redis never reach the caller, so they are
misses, refused locks and deletions without effect.  The `:stale` twin decides only
whether a caller waits for the refresh, and is left out.  `tooLong` records that the
lock expired under a computation, `excuse` that the entry was stored after a change or
its deletion failed.  No service of the repository uses `getOrSet` or the decorators yet.

### Posts, Stories and ForumThreads

Rows and the counters beside them, a statement at a time.  `Posts` keeps the rows
that tie a post to hashtags, `posts_count` and `shares_count`; `create` and `share` differ in
where the original comes from; `Owed` is what a request has still to do to each
counter and `astray` what two requests for one post, or a failure, left wrong.
`Stories` adds the object store and a clock: expiry is a comparison with it, and the
hourly job and the deletions by owners delete media first, then rows.  A `mediaUrl` is
any string, which nobody looks at: `Reuse` takes the address of an object that is there,
that is there no more, or of nothing, so that several stories can name one object and
a story can name none.  `erased` records the objects deleted from outside.
`ForumThreads` has deletions of replies, threads and categories, whose rows go with
them by cascade, and requests that find nothing left to count; the lock is checked
before a reply is inserted.  A reply is stored with whatever parent it is given, of any
thread, and `parent_id` cascades too: `WithReplies` is what a deletion takes along, also
from threads of other categories, whose `replies_count` stays (`miscounted`).
Likes of the forum are `Likes`, its views `ViewCounters`.

### Audience

The lists and single look-ups of posts, stories, comments and users, as the sequence
of their reads: blocks, follows, rows.  In between others block, follow, edit, delete.
`Shown` is what a request would answer if its last read were now, for every choice
that paging or a filter can make.  For a guest `getUserPosts` looks for a follow without
a follower and finds anybody's, so that `UserPosts` shows him what is for followers when
the author has one.  `BlockKept` and `VisibilityKept` name the exceptions the code makes:
a single post or comment ignores blocks (a profile asks for them), comments ignore the
audience of their post, a guest is shown posts for followers, singly and in the author's
list, and a repost carries its original whatever that one's visibility.

### Galleries, Profiles and Ratings

`Galleries` has the image rows of a post, listing or part and the two objects
behind each; no step ties the two stores together, so that the order of the calls
decides what a failure leaves.  Rows of any address, uploads without a row and deletions
by key come from outside (`SaveImageUrl`, `UploadSingle`, `DeleteByKey`); `dropped` says
for which row an object was deleted, 0 being none.  `Profiles` has the profile row and its
picture: load, work, whole-row `save` that skips undefined columns, also of login and
`verifyOtp`, which save the profile with its user (`Login`).  When the store refuses to
delete the old picture this is only logged, and the object stays (`Refused`,
`undeleted`).  `Ratings` has the reviews
of a service with the stored rating (a computation and a store, which may
overtake each other) and its pictures, which an update deletes and inserts again.

### Access and Routes

`Routes` is the table of the HTTP handlers in the order in which NestJS registers
them, each with its guard, the field of the user it passes on, and what its service
does with rows; a route behind one that matches the same paths is never reached.
`Access` runs one request against a route: token, guard, look-up, ownership check, write.
`validate` returns the row of the user, which has an `id`; a third of the handlers pass
`sub`, so that their services act for nobody (`access_caller`).  The models of
posts, comments, stories and listings follow the services as their unit tests call
them, with the caller given, because behind this defect nothing could be written.

### Catalog, Shelves and Favorites

`Catalog` has the categories of one kind with their parents and the copies in Redis,
filled after a read and deleted after a change.  `Shelves` has listings, parts or
services and every list in which a member, a guest or the seller finds them, with
the copy of the popular ones.  `Favorites` has the rows behind the heart: a toggle
finds, then inserts or deletes by id, and the unique index orders the rest.

### Devices and Schedule

`Devices` has the rows of `device_tokens` and each statement of `register`: a row of
one's own is taken up again, otherwise one row of another user is deactivated, then
the older tokens of the device, then a row is inserted.  A push and Firebase's refusal
of some tokens run beside it.  `shared` and `doubled` record registrations that did not
see every row.  `Schedule` has what servers do at start-up with the repeatable
jobs in Redis: list, remove one by one, add one by one.

### Migrations

The nine migrations, up and down, as the objects each creates and drops and the
ones these refer to, and two runners that read the list of what is pending and then run
it in a transaction of their own.  A runner has the migrations it has to run (`todo`), the
one it is at (`now`), how many of its statements it has executed (`at`) and those it has
run (`ran`).  A statement locks its object and those it refers to until its transaction
ends.  `WellFormed` says of the nine migrations what a reader of them should check: each
table is made once and after what it refers to, and the reversal drops exactly what was
made, each table after those that refer to it.

## 3. Runs

Every bound is a constant of the configuration or a named definition.

| run | instance | what it shows |
|---|---|---|
| `presence_safety` | 1 user, 4 sockets, 2 messages, 1 fault, `Explored` | the index, ghost, zombie and race invariants under any interleaving; exact records when handlers do not overlap; the gateway implements `OnlineStatus` |
| `presence_live` | 2 sockets, 1 message, 1 fault, `ExploredLive`, fair | `HandlersSettle`: the last device takes the user offline; handshakes end |
| `presence_any_device` | 2 sockets, no fault | **violated**: "user online if ANY device connected" (`plan/phase-4-realtime.md:542`) |
| `stores` | unread: 2 notifications, 3 requests; views: 2 listings with 2 views, 2 runs of the timer; cache: 3 requests, 2 changes; 1 fault each, fair | a wrong cached count has a reason and goes away, rows only move forward; each view is in one place and is settled, `ViewFate` is implemented; one lock holder, an old entry has a reason (`EntryExplained` joins the two) |
| `auth_safety` | 3 requests, 3 tokens, 2 codes, 1 fault | codes before effects, rotation, revocation, lock-out |
| `auth_reset_sticks` | 2 requests, no fault | **violated**: an overlapping login puts the old password back |
| `records` | registration: 2 addresses, 2 names, 3 requests; all others 2 users or rows and 2 requests, bounds below; 1 fault where a failure matters, 2 for profiles | rows of a registration in order and incomplete users explained; a request changes only what its user owns; no list crosses a block or a visibility; rows and objects agree; lists, copies, favourites, ratings and categories differ from the rows only for a reason; migrations find what they need |
| `jobs` | 2 events, 2 attempts, 2 faults; 2 stories, 1 viewer, clock to 3 (`Explored`); 2 users with 2 tokens and 1 phone, 3 registrations; 2 servers, 3 starts; fair | no silent loss, rows bounded by attempts, who hears nothing came online between two checks or deleted the row; views of stories counted once, media there but for the named reasons; tokens and recurring jobs explained; everything settles and expired stories go |
| `social` | graph: 2 users, 3 requests, 4 rows; comments: 3 rows, 3 requests; likes: 2 users, 5 toggles; chat: 2 requests, 2 conversations, 1 message, 3 instants in 2 milliseconds; posts: 2 posts, 2 tags, 3 writes; forum: 2 categories, 2 threads, 2 replies, 5 requests; 1 fault each | a follow across a block is younger than the block's transaction; thread depth; every counter is its rows plus the steps open, but for what is named; one chat unless opened twice at once; markers go forward |
| `graph_block_holds` | 2 users, 2 requests, 3 rows | **violated**: "Cannot follow blocked user" (`plan/phase-2-core-modules.md:655`) |
| `chat_marked_is_read` | 2 requests, 1 message, 2 ticks a millisecond | **violated**: "Mark messages as read up to a specific message" (`modules/chat/chat.service.ts:386`) |
| `access_caller` | 1 request to any reachable route | **violated**: "Post created successfully" (`modules/social/posts/posts.controller.ts:54`): the handler passes a field the user does not have |

The further bounds of `records`: 4 profile edits and 4 objects, 2 pictures, 4 reviews of
1 or 5 stars, 2 categories and 2 slugs with 3 changes, 2 items with limits 1 and 2 and
3 offers, 4 favourite requests, 2 overlapping migration commands.

A property of a harness is the conjunction of those of its components, each of which
is stated and commented in its own module; the list of mutations in `PROJECT.json` has
one for each property of a run.  The modules keep further `Mutant` operators, beside the
definition they change, that break the other conjuncts in the same run.

Why these bounds are enough: the hazards are pairs (a check and an overlapping
write, a deletion and a creation), so two or three requests show every one
of them, a third one shows that two errors do not combine into a new one, and one
fault at any point covers each place where a sequence can stop.  One user suffices
for presence and unread counts because nothing is shared between users there; two
suffice for the graph because a row is about a pair, and for the audience because
a viewer and an author are.  Sizes are chosen so that each
interesting case happens, which the mutations in `PROJECT.json` confirm: for every
property there is a plausible bug of the code that breaks it in the same run.

`Explored` keeps `presence_safety` finite in time: two sockets with everything
including a failure or crash at any point, three sockets with at most two
handlers running and no failure, four sockets and two messages without overlap.
`ExploredLive` keeps two sockets without messages and failures, or one socket with
both.  A constraint could hide a liveness violation only by cutting a fair step;
the steps that lead out of the region are new connections, messages and
failures, and none is fair, so every behaviour kept is a behaviour of `FairSpec`.
`Explored` of `jobs` keeps apart what has nothing to do with each other in stories: views on
the one hand, addresses that are reused and objects deleted from outside on the other.
The steps that leave it are requests and deletions by key, which are not fair either.

**Fairness.**  `WF` on the steps of a handler, a request or a worker already
started: ioredis and pg settle every call, with a result or an error, and Node.js
then resumes the function.  In `jobs` an event goes on (its job is taken, its steps and
then its push job run) and so does the hourly job; of the requests on stories nothing is
asked.  `WF` on the expiry of a Redis key, and on the start of a
run of the view timer and of the hourly story job: they fire again and again, and time
passes.  No fairness on
connections, messages, requests, failures, crashes or the user coming online.

**Deadlock** is checked in every run.  Where the system may rest (all sockets
gone, no request open, bounds used up) a named disjunct (`Finished`, `Rest`)
stutters, so that a handler which cannot go on is still found; in the other
modules a new request or a change of the surroundings stays possible.

## 4. Theorems

`PROJECT.json` lists the theorems, each with the property it generalises from its run:
they hold for every value of the constants, for any number of requests, rows, users and
failures.  All invariants of all passing runs are proved, and so are the action
properties and both refinements; only liveness is not (below).

**What they assume.**  Only the named `ASSUME`s of the modules, which TLC evaluates on
each run: bounds are natural numbers, sets that are counted are finite, a value that
stands for "none" is not one of the others.  Two assumptions are of another kind:
`RoutesAssumption` says of the table `Routes` that a route that changes rows asks for
somebody signed in, and `SchemaAssumption` says of the nine migrations that they are
`WellFormed`.  Neither table has a parameter, so TLC's evaluation of them is complete;
the provers do not evaluate a literal of 190 records, or of sixty statements.  A new
migration that breaks the order is found when TLC evaluates the assumption; what the
theorem adds is that overlapping, failing and reverting commands cannot undo it.

**How the proofs are built.**  In a harness, a lemma (`StepOfOne`; `XMoves` in
`MCRecords_proofs`) says that while `X` is in focus a step of the harness is a step of
`X`, or changes nothing of it.  Each component then has an inductive invariant under its
focus (`XInv`), `XInit` and `XStep`, with a step for each action; the harness's
properties, which are conjunctions, follow at the end.  Few of the properties are
inductive as they stand.  What has to be added is nearly always the same: *what an open
request still knows* of the state it read, or *what it still owes* to a counter, a
copy or a store.

- **Presence.** Whether a clean-up will find a socket depends on where both handlers of
  the socket stand.  `Lifecycle` states this, per socket: which of `conn`, `cpc`, `dpc` go
  together and what each implies for the two keys.  With it, `SocketIndexed`,
  `NoGhostSocket`, `NoZombieUser` and `OfflineOnlyIfRaced` are inductive together with
  what a handler has decided from a count it read.
  `SequentialExact` is about the behaviours in which nothing of a user has overlapped or
  failed.  There at most one handler of the user runs, and `Staged` says for each of its
  awaits which set of sockets the index, the mapping, the room, `online:users` and the
  row stand for (`Agree`): those of the other devices, or these with the new or the
  closed one.  A handler goes from one stage to the next, leaves the stages of other
  users alone, and at the end all five stand for the open sockets (`RecordsAgree`).
  From `Staged` a user is online exactly while a device of his is on (`OnlineMeans`).  A
  step without a failure moves one socket, and onward (`OneMoves`), so that it is a step
  of `OnlineStatus` or stutters; a failure or an overlap is `Lose`: `PromiseKept`.
- **AuthSessions, Registration.** A request remembers a code or a token it checked;
  `ResetCode`, `CodeTaken` and `Owned` say what of this is still true, and carry
  `EffectsNeedCode`, `OriginRevoked` and `LockoutExplained`.  `RevokedStays` follows as
  an action property: a token becomes usable again only while its request holds it.
  `Written` ties the place of a registration to the rows it has written.
  `SequentialSticks` shows that the violated `ResetSticks` does hold when requests never
  overlap: what a request has loaded is then the row.
- **NotificationUnread.** `FillsFresh` says what a request in the middle of a count
  still knows; with types and `CountExplained` it is inductive.  `RowsMoveForward` is
  an action property proved from the types.
- **ViewCounters.** `EveryViewOnce` is inductive with the types.  From it every step is
  one of `ViewFate` or changes nothing there, so the counters implement `ViewFate` for
  any number of listings, views, runs and failures (`ViewsImplement`).
- **CacheAside.** A computation that took the lock finds it until it releases it, unless
  it expired meanwhile (`tooLong`).  With this, the types, `OneHolder` and
  `EntryExplained` are inductive together (`CacheInvariant`).
- **NotificationDelivery.** Rows per event are bounded by the attempts begun, and an event
  past its emission has told the socket, the push queue, or somebody who came online
  between the two checks or deleted the row: `RowsCounted`, `HeardOrMissed`.
- **Stories, Devices, Schedule.** For stories, the views whose request has still to count
  them make up the difference between rows and counter.  An object that a row names and
  the store has not was erased, or belongs to a row that is gone or that a deletion holds.
  For devices, a registration knows of its own row, and of the others
  either that they are inactive or that it did not see them.  For the schedule, the
  jobs a starting server has still to add.  `StoriesExplained`, `TargetsExplained`.
- **SocialGraph.** Rows are numbered below `made`, and `Deleted` says that what a
  transaction has not deleted is younger than its block; this gives
  `LateFollowsOnly` for any number of requests.  `SequentialSafe` shows that the
  violated `NoFollowAcrossBlock` does hold when requests never overlap.
- **Chat.** While no two requests were opening the chat at once, at most one is
  between its look-up and its commit, and it makes a conversation only when there
  is none: `OneConversation`.  For `MarkerForward`, what a request will write is not
  older than the marker unless another one of its reader has overtaken it, which
  needs that `Date` is monotone.  `MarkedToTheMilli` shows that the violated `MarkedIsRead`
  fails only by the resolution of a `Date`: a message just marked and still unread is
  less than a millisecond ahead of its marker, for any overlap, so that the property
  holds where the clock has no finer ticks (`CoarseClockReads`).
- **Comments, Likes, Posts, ForumThreads.** Each has an account: rows, minus the counter,
  is the number of requests that have inserted and not counted, less those that have
  counted and not removed.  One step changes one row, one counter and one request, and
  *ledger* lemmas say what this does to the cardinalities.  Where a failure or an
  overlap excuses a counter (`astray`, `miscounted`), the account is dropped for that
  counter only, and a bound by what open requests may still move keeps its type.  For the
  forum, what `WithReplies` takes along is shown to leave no row without its parent, and
  to touch no thread that stays except those it puts among the `miscounted`.
  `CountersExplained` joins the four; `TwoLevels` and the types of comments are inductive
  together, since a reply hangs under a row that was a root when it was read and
  parents never change.
- **Access.** An open request was let in by its guard, acts for whom the guard let in or
  for nobody, and has found at most that user's row: `LetIn`, for any route of the table.
- **Audience.** An open request knows the blocks and follows its list reads, but for
  those that are younger (`Knows`).  Every item of every list is then *fine*: carried
  by a repost, or of an author whom the request may show.
- **Profiles, Galleries.** While requests do not overlap, the open one knows what the
  store holds at each of its steps (`Holds`), what it refused to delete and what was
  deleted by key included.  An object whose address was told is in the store, left by a
  failure or was deleted (`Told`, `There`); a picture that is shown and gone is being
  deleted, or was deleted for another row or by its key (`ThereOrGone`); and what is in the
  store is `Accounted` for.
- **Ratings.** The stored rating is that of the reviews, or an open request is to compute
  or store it.  For pictures, requests that have deleted and not yet inserted bound the
  number of main images.
- **Catalog, Shelves, Favorites.** A copy in Redis differs from the rows only while its
  deletion is owed; what was read for a list is active and full but for `since`, the
  rows changed since the read (`Foremost`); a pair has one row by the index.
- **Migrations.** The tables are those of the rows in `migrations`, which stand in an order
  where nothing refers to a later one (`SchemaOfRows`).  A command on its way up has made
  what its scripts make so far, has locked this and what it refers to, and none of it is
  committed (`GoesUp`); one on its way down has dropped what its script drops so far, and
  nothing refers to that (`GoesDown`).  Locks of two commands are disjoint, so that a
  commit of one leaves the account of the other true (`OthersAdd`, `OthersDrop`).  While
  none commits, what a command read when it began is still the table `migrations`, hence
  every statement is accepted (`UpAccepted`, `DownAccepted`).  `SchemaSafe` holds for any
  number of commands.

**What the proofs found.**  The invariant of `Catalog` was not inductive: a row number
given again after a deletion stayed in the history `lifted`, so that `CatalogExplained`
would have failed with more changes than the run allows.  `Insert` now clears it, as
the new row of the database has a fresh id; the run's bound could not show this.
In `Likes`, `Stories` and the harnesses assumptions that had been tacit are now stated.

**Only model-checked.**  Liveness (`HandlersSettle`, `StaleEnds`,
`AllEnd`, `ViewsArrive`), because the prover handles neither `ENABLED` nor fairness.
The prover also cannot use induction theorems that take an operator, so what a
recursive definition computes on all inputs is out of reach, and modules that are
proved about contain no `RECURSIVE` operator.

## 5. Where the code departs from what it says

Five departures are runs (section 3).  Others were met while modelling and are
recorded here only.

### 5.1 State that goes wrong

| where | what |
|---|---|
| `modules/gateway/gateway.gateway.ts:89` | a socket that closes during its handshake is registered after its clean-up and stays |
| `modules/gateway/gateway.service.ts:454` | `setUserOnline` resets the connection count to 1 whatever it was |
| `modules/gateway/gateway.service.ts:152` | the online announcement ignores appear-offline |
| `modules/notifications/notifications.service.ts:250` | a count read before an invalidation is stored after it and stands up to five minutes |
| `modules/auth/auth.service.ts:131` | two requests can use one code; `:236` two refreshes can use one token |
| `modules/auth/auth.service.ts:410` | the second save of a new token can undo a revocation |
| `modules/auth/auth.service.ts:97` | a failure leaves a user without a profile, whose address is taken |
| `modules/notifications/notifications.service.ts:99` | a user who comes online between the two checks is told nothing |
| `modules/notifications/fcm/fcm.service.ts:145` | a push that Firebase refuses as a whole is swallowed, so the job is not tried again |
| `modules/queue/processors/notification.processor.ts:82` | the job for a user who is offline reports `pushQueued: true` and queues nothing (comment at `:74`); in the job the gateway service is null, so everybody is offline |
| `modules/social/posts/posts.service.ts:174` | `update` and `delete` look the post up without its user, so an owner can never edit or delete a private post |
| `modules/social/comments/comments.service.ts:82` | replies under a deleted root are accepted and counted, and shown nowhere; deleting one counts it twice |
| `modules/chat/chat.service.ts:77` | two users who open a chat at the same time get two; no index forbids it |
| `modules/marketplace/listings/listings.controller.ts:140` | `incrementViews` is neither awaited nor caught: when Redis fails there, the rejection is unhandled |
| `common/cache/cache.service.ts:61` | `del` leaves the `:stale` twin, which `getOrSetStale` goes on serving, whereas `plan/phase-5-production.md:1126` lists "Stale data not served" |
| `common/cache/cache.service.ts:441` | "Clear all cache" flushes the database of Redis with presence, unread counts and views in it |
| `modules/media/media.controller.ts:196` | `DELETE /media/:key` deletes any object, whoever shows it; a `mediaUrl` or image address is any string, and its object goes with the first row that is deleted |
| `modules/users/users.service.ts:535` | a refused deletion of the old picture is logged, and the object stays without a row |
| `modules/users/users.service.ts:571` | `deleteAvatar` and `deleteCover` set the column to undefined, which `save` skips: the profile goes on naming the deleted picture |
| `modules/users/users.service.ts:129` | a whole-row `save` takes back a column that another request changed since the load |
| `modules/media/media.service.ts:74` | a failing thumbnail upload, or a failing second deletion, leaves an object that no row names; `r2.service.ts` reads an error of `exists` as "no" |
| `modules/social/posts/posts.service.ts:680` | two posts that introduce one hashtag: the loser's request ends there, its post keeps the tags written before and the rest are missing |
| `modules/forum/forum-threads.service.ts:234` | lock and pin, and `verify` of services, write the negation of a value read before: two toggles count as one |
| `modules/forum/forum-threads.service.ts:286` | `parentId` is stored unchecked and may name a reply of another thread; with `parent_id` ON DELETE CASCADE, deleting a category removes replies elsewhere and leaves `replies_count` too high |
| `modules/forum/forum-threads.service.ts:389` | deleting the last reply leaves it as the thread's last reply |
| `modules/services/services.service.ts:220` | an update deletes the pictures and inserts the new ones: a failure in between leaves none, two updates leave both |
| `modules/services/services.service.ts:418` | a rating computed earlier can be stored later |
| `modules/marketplace/listings/listings.service.ts:305` | the popular copy keeps the limit of whoever filled it |
| `modules/marketplace/listings/categories.service.ts:145` | a category is deleted after a check for children; a child put there since loses its parent |
| `modules/notifications/fcm/device-tokens.service.ts:27` | taking up one's own row leaves the token active for the other user too; `:36` finds one of several rows |
| `database/typeorm-migrations.config.ts:29` | migrations take no lock: of two deployments one fails, and the order in the table may have a gap |

### 5.2 What a caller may not expect

| where | what |
|---|---|
| `modules/social/posts/posts.controller.ts:62` | handlers of posts, stories, comments, listings, parts, favourites and media pass `user.sub`, which is undefined (run `access_caller`) |
| `marketplace/listings/listings.controller.ts`, `notifications.controller.ts` | `GET listings/categories`, `listings/favorites`, `parts/categories` and `notifications/devices` come after `:id` and answer 400 (`Routes!Shadowed`) |
| `marketplace/listings/categories.controller.ts:90` | categories, verification, pin and lock are "(admin only)" or meant so, and check no role |
| `modules/social/posts/posts.service.ts:431` | for a guest the follow is searched without a follower, so that he sees the posts for followers of any author who has one |
| `modules/social/comments/comments.service.ts:111` | a comment by its address ignores blocks |
| `modules/social/posts/posts.service.ts` | `findOne` ignores blocks and shows a followers' post to a guest; the feed shows private posts of users one follows; a repost carries its original whatever that one's visibility, and `originalPostId` is not checked |
| `modules/social/comments/comments.service.ts:199` | three replies are taken before those of blocked users are dropped; comment lists do not ask who may see the post |
| `marketplace/listings/dto/create-listing.dto.ts:109` | the default status is inherited by the update DTO, so an update without a status makes a sold listing active again (parts: `create-part.dto.ts:119`) |
| `marketplace/listings/favorites.service.ts` | `meta.total` counts favourites of deleted listings that the page leaves out |
| `queue/processors/cleanup.processor.ts` | three of the four clean-up jobs are placeholders (expired stories go by a timer of `StoriesService`); `deleteInactive` has no caller |
| `database/entities` | notifications, preferences, conversations, messages, device tokens and activity have entities and no migration |

### 5.3 Not modelled

- **E-mail**, **logging, metrics and audit**: one call, or buffers in memory with
  formatting; no other component reads their state.
- **Security services**: sanitising and header checks are functions of strings; the
  counters of failed attempts are reached only from their own controller.
- **Typing indicators, rooms and `disconnectUser`** of the gateway: keys that expire by
  themselves and broadcasts that no state depends on.
- **The throttler, validation, response envelopes, configuration**: stateless or a library.
- **Prices, texts, filters, order and pages** of lists; mention rows, written once.
- **Cache warming and monitoring, bulk, hash and set commands, admin commands on queues**:
  wrappers around one command.
- **Topics of FCM and image processing**: no caller, and a library.

## 6. Plan

The components are modelled as far as section 5.3 says, and every safety property is
proved.  What could follow: an abstract specification `AtMostOnce` of notification rows,
refined by `NotificationDelivery` without failures, and one of what followers are told,
refined by `Presence` like `OnlineStatus`.
