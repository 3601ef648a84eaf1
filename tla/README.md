# TLA+ models of Garrul

Garrul is a self-hosted comment system: a Cloudflare Worker (Hono routes in
`src/routes`, logic in `src/lib`, SQL in `src/db/queries.ts`) over a D1
database, with KV for sessions, the Cache API for rendered trees, a Durable
Object for rate limits where the operator wants one, a cron trigger
(`src/index.ts`, every fifteen minutes by default) for mail, webhooks and
retention, an embedded widget (`src/widget`), and scripts an operator runs
(`scripts/upgrade.ts`, `src/db/migrate.ts`, the importers).

Three facts shape every model here.

* **A D1 statement is atomic, a request is not.** Each request runs in an
  isolate of its own and awaits D1, KV and outside services between its
  statements; nothing locks a row between a read and a later write, except a
  `WHERE` clause or a `batch`. So a handler that reads and later writes is a
  process with a program counter, and one statement is one action.
* **An isolate may die at any await**, and `waitUntil` work dies with it. Only
  rows survive.
* **A browser runs one task at a time**, but answers come back in any order: in
  the widget an action is what a handler does between two awaits.

## Inventory

| Component | State | Operations | What makes it hard | What makes it correct |
|---|---|---|---|---|
| Outbound mail budget, `lib/email-budget.ts` | `email_send_budget(scope, window_start, sent)` | reserve, release, seed | concurrent sends, window roll, leaks, fail-open | the counter is a ledger; the cap holds; no release takes another's slot |
| Rate limit, `lib/ratelimit.ts`, `lib/ratelimit-shard.ts` | stamps per key in the Cache API, or buckets of a Durable Object | check, evict, hibernate | read-modify-write over a cache; two buckets per request | the shard never admits more than a limit; the cache only through overlaps |
| Subscriptions, `routes/api.subscriptions.ts` | `subscriptions` rows, mailed links | signup, confirm, unsubscribe (5 ways), admin resend | read-then-write handlers, anonymous requests that name somebody else's address | double opt-in; cancel is final; a pending row has a link |
| Reply notifications, `lib/digest.ts` | `notifications` rows, cron work list | fan-out, digest pass, cancel | snapshot work list, no lease, two-statement cancel, crash between send and mark | at-least-once outbox; no stale mail; no starvation |
| Moderator digest, `lib/moderator-digest.ts` | `moderator_notifications` | enqueue (deduplicated), digest pass | one mark for several recipients, deduplication against a running pass | an outbox; a whole fan-out; a brigade of reports stays small |
| Webhooks, `lib/webhook.ts` | endpoints with `fail_count`, `webhook_deliveries` | dispatch, retry pass, prune, admin edits | the fail count read before a five second post, timeouts, D1 errors in a pass | at least once until five retries failed; a healthy endpoint stays enabled |
| Comment lifecycle, `routes/api.comments.ts`, `lib/moderation.ts`, `routes/admin.ts` | `comments.status`, body, `users.is_banned` | post, edit, delete, moderate, bulk, cascade, ban, erase | edits that await a spam verdict, moderation by id | what was deleted stays deleted; nothing unmoderated becomes public |
| Pins, thread close, `lib/thread.ts` | `pinned_at`, `posts.closed` | pin, unpin, close, auto-close | check, then batch | a pin lands on a live top-level comment; a closed thread takes no posts |
| Comment tree, `lib/tree.ts` and its queries | none (pure), rows of a page | select, build, sort, page | hidden parents, depth cap, lists that change between pages | every visible comment is drawn once and nothing else |
| Edge cache, `lib/tree-cache.ts`, `lib/response-cache.ts` | entries per data centre | fill, drop | a fill that read before a write, lost puts and deletes | staleness bounded; what lingers longer was under way at the drops |
| Settings, `lib/settings.ts` | `settings` rows, per-isolate memo | load, save, reset | shared derivations, isolates that disagree for a while | a save is served from its answer on, elsewhere after a memo's life |
| Sessions, `lib/session.ts` | KV `sess:` and `sessrev:` keys | issue, read with slide, sign out, revoke | a slide that overlaps a sign-out or a ban, KV's lag | a revoked session authenticates nobody while its stamp stands |
| Users, bans, roles, erasure; OAuth and owner login | `users` rows, hand-off records, owner link | sign in, ban, role, erase, redeem | read or count, then write | an administrator remains; barred accounts are out |
| Imports, `lib/import/*` | comments with `import_source`, `import_id`, ghost users | parse, plan, run | a run that dies between insert and link, two runs at once, readers meanwhile | no duplicate, threads restored, nothing rewritten that exists |
| Migrations and upgrade scripts | `_migrations`, checkout, live Worker | upgrade, migrate, deploy, reconcile | interruption between any two steps, readers meanwhile | schema before code; applied once; totals exact |
| Reactions, votes, page engagement | one row per user and kind, totals | toggle, recount | an outgoing Worker that keeps no totals | totals match rows |
| Reports | one row per reporter network | report, resolve | report races report | a row for the moderators once |
| Widget, `src/widget` | thread on screen, comment boxes, challenge gates | load, page, post, render | answers out of order, renders under a submit | nothing drawn twice, no reload lost, nobody waits for ever |
| Spam pipeline, `lib/spam/*` | none | verdict | outside services | not modelled: a verdict is any of its outcomes |
| Telegram bot and digest | bot messages, last-sent stamp | buttons, daily digest | duplicate updates | not modelled |
| Retention, re-render and seed scripts | cutoffs | prune, rewrite | interruption between two steps | not modelled |
| Admin UI, feed, permalink, embed, i18n, version check, usage, export | none of their own | rendering | none here | not modelled |

## Modules

| Module | Models | Composes |
|---|---|---|
| `EmailBudget` | `lib/email-budget.ts` and its callers' send / release | |
| `RateLimit` | `lib/ratelimit.ts` and the shard | |
| `Limits` | both limiters side by side | extends `EmailBudget`, instantiates `RateLimit` |
| `SubscriptionRow` | one row and the statements that write it | |
| `Subscriptions` | the handlers of `api.subscriptions.ts` and the admin's resend | extends `SubscriptionRow` |
| `Outbox` | what a queue drained by the cron promises (abstract) | |
| `ReplyDigest` | fan-out, queue, `runDigest`, cancels | extends `SubscriptionRow`, implements `Outbox` |
| `Mail` | the subscription routes and the reply digest side by side | extends `Subscriptions`, instantiates `ReplyDigest` |
| `ModeratorDigest` | reports, what they queue, the pass over several recipients | implements `Outbox` |
| `Webhooks` | inline posts, the retry queue and its pass, admin edits | implements `Outbox` |
| `Comments` | posts, edits, deletions, moderation, pins, closing, bans | |
| `Widget` | the thread as the widget draws it | |
| `Composer` | the comment boxes and their challenge | |
| `Discussion` | the three side by side | extends `Comments`, instantiates `Widget` and `Composer` |
| `Imports` | `runImport`, statement by statement | |
| `Adapters` | the six export formats, slugs, ghosts | |
| `Archive` | a file and its import side by side | extends `Imports`, instantiates `Adapters` |
| `Tree` | the rows of a page and what the builder makes of them | |
| `Reading` | `Tree` under names that stand beside the discussion's | instantiates `Tree` |
| `Sessions` | session cookies over KV | |
| `Accounts` | users, roles, bans, erasure, sign-ins | |
| `Access` | accounts and sessions side by side | extends `Accounts`, instantiates `Sessions` |
| `EdgeCache` | fills and drops of every kind of cached answer | |
| `Settings` | rows, memos, derivations, saves | |
| `Caches` | both caches side by side | extends `EdgeCache`, instantiates `Settings` |
| `Upgrade` | the upgrade and migration scripts beside readers | |
| `EmailBudgetProofs` | theorems of the two limiters | extends `Limits` |
| `CommentsProofs` | theorems of comments, thread, boxes and the reading of a post | extends `Discussion`, `Reading` |
| `EdgeCacheProofs` | theorems of the two caches | extends `Caches` |
| `AdminProofs` | theorems of accounts, sessions, imports and files | extends `Access`, `Archive` |
| `SubscriptionsProofs` | theorems of subscriptions and the reply digest | extends `Mail` |
| `WebhooksProofs`, `ModeratorDigestProofs`, `UpgradeProofs` | theorems | each extends its component |
| `MC...` | the instances TLC checks | each extends what it instantiates |

The components meet where the code lets them meet. `Outbox` is the one promise
three queues share. `SubscriptionRow` is shared by the routes and the digest,
which see the same rows. The mail ceiling appears in `ModeratorDigest` only as
`Reserve` or `Denied`, because `EmailBudget` says when each may happen, and a
comment appears in the two digests only by its status, which any action may
change, because `Comments` says which changes there are. An account is signed
in or not to `Accounts`, because `Sessions` says what a session is.

Where two components share no variable, an `MC` module runs one of them in each
behaviour: `part` says which, and the others stay as they begin. It is the
disjoint sum of their state spaces, so nothing of either is lost, and what is
checked of a sum is what would be checked of each.

### EmailBudget

`sent` and `windowStart` are the two columns, by scope. A request goes through
`Begin` (it captures `now`), one `Reserve` per budget of its chain, or `NoSlot`
and the `scopeExists` probe (`SkipMissing` fails open, `Deny` keeps what earlier
budgets granted), then `Grant`; its caller answers with `Mail`, or `NoMail` and
one `Release` per budget held. `NoMail` is a caller with nothing to send, or
`sendEmail` answering false, which it also does for a mail that the provider
took and whose answer was lost (`lib/email.ts:101`). `FailOpen` is the `catch`
of `reserveSend`, which may fire after the statement took effect; `Crash` is the
isolate. `counted` is history: the requests whose increment is in the present
window. `Cap` belongs to the request, since settings are memoised per isolate.

### RateLimit

A stamp is the request that left it, a bucket the set of its stamps; `Within`
and `Verdict` are `decideStamps` over a short and a long window. On the Cache
API a check is `Begin` (the clock), `ReadScope`, `ReadGlobal` and a `Write` of
each bucket, over what was read: two requests that overlap lose stamps.
`ReadFails` lets the request through, `Lose` is the cache forgetting an entry.
On the shard one `Decide` does all: it judges both buckets, charges them, drops
what expired and evicts the buckets written longest ago (`turn` keeps that order,
the order of a `Map`). `Hibernate` is the object losing its memory,
`Unreached` a call to it that fails or whose answer is lost after the charge.
`stamped` and `overlap` are history.

### SubscriptionRow and Subscriptions

`Row` keeps of a row what the statements test: the two timestamps as set or
NULL and the two secrets, minted together, as one number. `Upsert`, `Confirm`,
`Cancel` and `Rotate` are the SQL statements. In `Subscriptions` a handler is
a process over them: signup counts, asks the budget, upserts, selects, sends;
confirm looks up and writes by id; the unsubscribe routes look up and stamp;
the admin's resend looks up, sends and rotates. Mailed links collect in
`inbox`, and only the owner presses them. `opted`, `barred` and `retired` are
history that says what the owner has decided.

### Outbox and ReplyDigest

`Outbox` is the promise: an item is queued once, leaves the queue only after it
was delivered or became void, and is delivered only while it is queued, or after
it was voided behind the back of a pass that had read it. `ReplyDigest` models
the rows of one post. `batch` is the digests a pass has read and not come to,
`digest` the one in hand; the order is the database's, and any order is allowed.
`Fanout` is the `INSERT ... SELECT` behind a comment approved at once, `List`
reads the pass's work list, `Load` reads one digest's comments, `SendOk`,
`SendFail` and `SendLost` are the provider, which takes the mail, refuses it, or
takes it and is not heard (the rows stay queued, and the next pass mails them
again); `MarkSent` settles; `CancelRow` and `CancelStamp` are the two statements
of a cancel, and `Crash`, `FanoutLost` and `CancelStampLost` are dying isolates.

### ModeratorDigest

A row is named by its comment, its reason and its number, for at most one row of
a comment and reason is unsent. `Post` and `ReportCheck` / `ReportInsert` are
the requests; each leaves a note, a call of `enqueueModeratorNotification` in
`waitUntil`, that becomes a row, meets one that is unsent, or is lost
(`NoteLost`: the notifications are switched off, or the isolate died).
`SetStatus` is everything that moderates or edits a comment: it queues nothing,
also when an edit sends a published comment back to be held. `List` reads the
batch with the comments' statuses of that moment, `Reserve`, `SendOk`,
`SendFail`, `SendLost` and `Denied` go through the recipients, `Mark` settles
the batch for all of them if one took the mail.

### Webhooks

`endpoint` is the row: on, off or deleted, `fail_count`, and whether
`disabled_at` is set. `Fire`, `InlineOk`, `InlineReset`, `InlineFail`, `Enqueue`
are the `waitUntil` task of the request that caused an event; `InlineLost` is
its death. `row` and `attempts` are the queue. Time appears as what the query of
a pass sees of it: `due` holds the rows past `next_attempt_at`, and `ahead[d]`
the due rows that come before `d`; `Ripen` makes a row due. The pass is
`List`, `Load` per delivery, then `Drop` for a paused endpoint or a post
(`PostOk`, `PostFail`) with the writes that follow it, `Settle`, `Reset`,
`Backoff` or `Count`, each a statement. `LoadError` and `StepError` are a D1
error inside the loop's `try`, `Crash` the isolate. One pass runs at a time: the
cron fires every fifteen minutes and twenty-five posts of at most five seconds
fit in two. `read` is the fail count that was read with the delivery and is used
after the post; `stale` is history, that the endpoint was touched in between.

### Comments

The comments of one thread, each with the status, author and pin of its row;
`text` says of a body what the spam verdict said of it, the only thing about a
body a later step depends on. A handler is a request that reads and later
writes, with the row it read in `job`: posting (`PostStart`, `PostGate`,
`PostParent`, `PostInsert`), editing (`EditStart`, `EditRead`, `EditWrite`, with
the classifier awaited before the last), deleting, the cascade over a thread,
pinning and the operator's reply. `Moderate` is the status write of the admin
routes and the Telegram buttons, for one comment or a page of them, by id.
`Ban`, `Unban` and `Erase` act on a user while requests of theirs are in
flight. `vouched` is history: flagged texts that a moderator let through.
`overtaken` is history too: handlers that were past their check when a bar or a
closing came down. `Abandon` ends a handler anywhere, for a later refusal or a
dead isolate. Left out: `deleted_by`, the depth cap, the edit window, the audit
rows; an automatic closing is `SetClosed`.

### Widget, Composer and Discussion

`Widget` is the thread on the page. `st` is `loadState` (a load runs, another
is queued behind it), `ask` the fetch under way, which reads the server in
`LoadAnswered` and is drawn in `Render`; `Pick` is the choice of an order,
`LoadMore` / `PageAnswered` / `PageDrawn` a further page, `ShowMore` the batch of
replies behind a button, and `Send` / `Commit` / `Echo` the reader's own
comment, put into the thread before any reload. `stale`, `raced` and `overtook`
are history.

`Composer` is a comment box: `form` is its place, button, status line and gate,
`sub` a submit that waits for a token (`Begin`), posts (`Post`) and is answered
(`Accepted`, `Refused`). The frame of the challenge speaks in
`FrameToken`, `FrameExpired`, `FrameFails` and so on, the nine second cap in
`CapExpires`. `Rerender` throws the box on top away and builds another,
`OpenReply` and `Dismiss` come and go with a reply form. What a promise's
settlement runs is part of the action that settles it.

`Discussion` holds both beside `Comments`; no box knows of the thread and no
thread of the server but what it last answered.

### Imports, Adapters and Tree

A run of `runImport` is a process: `pc` is its loop, `next` the element it has
come to, and `fresh`, `known`, `mine` and `memo` are its `usersToInsert`,
`nativeIdBySourceId`, `insertedThisRun` and `depthBySourceId`. Each select and
each insert is a step. `Link` is one turn of the second pass: `MemoAfter` is
`depthOf`, `LinkParent` the climb past the cap, `Links` the restriction to rows
of this run. A comment of the export is named by its place in the file, and the
file says of each its parent, page and author; `Junk` are those that a run skips
unless its options include them (`Begin`). A run dies in `Cut`, also of an
INSERT that meets the unique index. `ReplyRead` and `ReplyInsert` are
`POST /comments` under a stored comment, `SetBanned` the operator.

`Adapters` goes before it: `Raw` says what a comment looks like in each format,
`Parse` is the adapter (what it keeps, skips, counts, refuses) and `Plan` the
core's slugs, merged pages and ghost authors. A page is the host, the path, the
query and the slashes of what the source names it by; a slug keeps the path
alone of a link (`LinkPath`), and of a bare path also the query, in a digest.
Disqus lists its threads, so that a thread without comments is a page there
(`Listing`).

`Tree` is the way back: `Refs` is the query for the threads of a page, `Fetched`
the query for their rows, `Built` is `buildTree` (placeholders for hidden
parents, threads flattened at the depth cap), and `ReadRefs`, `ReadPin`,
`ReadRows` are one request for a page, with writes between them. `Up` is what
stands above a comment; `Way` and `Dark` are the stretch that the walk down of
the query carries along, `Reached` what a walk down from the roots meets. The
order of siblings is left out, so pages, plans and threads are sets of comments,
and a place in a sort is what a cursor names (`Place`, `NextCursor`).

### Sessions and Accounts

`Sessions` splits each operation at its KV operations: a read is `GetSession`,
`GetRevocation`, and a `Slide` when less than half of the life is left; a
sign-out or a sign-in drops the cookie's record (`Drop`), a sign-in mints
another; the owner link signs in beside the cookie's record and leaves it
(`StartOwnerLogin`); a revocation puts the clock it read before (`PutStamp`).
`Readable` is KV's eventual consistency: for `Lag` after a put another location
may read what was there before. `Respond` is the answer that reaches the
browser. `gone`, `stamps` and `revived` are history.

`Accounts` has the rows of `users`. A sign-in is `LoginLookup`, then
`LoginUpdate` or `LoginInsert`, then `Issue`; an administrator's request is
`AdminStart` and then a ban (`BanRead`, `BanCount`, `BanWrite`, `Revoke`), a
role (`RoleRead`, `RoleCount`, `RoleWrite`) or an erasure (`EraseRead`,
`EraseWrite`, `Revoke`). `Redeem` is the owner link, `Exchange` a hand-off,
`StaffRead` / `StaffInsert` a post marked as staff. `stale` in a job is history:
a write that takes something from the account it read has come between.

### EdgeCache, Settings and Caches

A page of `EdgeCache` is abstracted to the number of mutations its first
statement saw. A reader asks (`Hit`, or `Build` and `Put`, which may come after
the answer, within `MaxFill` ticks); a mutation writes (`Write`) and drops keys
in its own colo (`Bust`, each delete may be lost). The keys are those of the
code: the first page per sort and page size, deeper pages, feed, counts and
permalinks, of which only some are dropped. `over` is history: fills that were
under way at the drops.

In `Settings` a load is answered from the memo (`FromMemo`), joins a derivation
(`Join`) or begins one (`Derive`, `ReadRows`, `Settle`, which publishes unless a
save has moved the generation since). A save writes row by row (`WriteRow`) and
then drops the memo of its own isolate (`Bust`); it may fail in between. Each
group of settings is parsed and clamped as in the code. `log` is history, what
each row has meant and since when, `acked` how much of it an isolate was told,
and `floor` in a request the entries its answer must have seen.

### Upgrade

`checkout`, `live`, `schema` and `ledger` are what an upgrade changes; `pc` is
`scripts/upgrade.ts` from `Begin` over `Checkout`, `Verify`, `Install`, the
runner's `ReadLedger`, `RunFile`, `RecordFile`, to `Deploy` and `Reconcile`.
`Stop` is a failure or a death at any of them, and `ReconcileFails` the one
failure that only warns. `MisreadLedger` is a runner that is given JSON of
another shape and takes it for an empty ledger. The actions `...ByHand` are what
the messages tell the operator to type. `Arrive` fixes the release a
request runs on until it ends; votes and reactions write a row and then recount
the totals, if that release keeps any. `runs`, `lost`,
`again`, `misread`, `settled` and `late` are history.

## Runs

| Run | Instance | Shows |
|---|---|---|
| `limits` | three mails race for a burst and a daily budget, windows of 1 and 2 ticks, one smaller cap; one identity, two routes, one colo, limits of 1 per tick and 2 per 2 ticks, a shard of two buckets that evicts to one | ceilings hold, slots are accounted for, the shard is exact, the cache lets more through only on overlaps |
| `mail` | two posts of one address, two handlers, three tokens, a pending cap of one; a digest for one subscriber and two comments, one crash | double opt-in, cancel is final, mail is fresh within its pass and goes twice only if a pass died or an answer was lost, the queue is an `Outbox` |
| `digests` | moderators: one comment, two reporting networks, two recipients of whom one is dead, one row per mail, one crash; replies: two subscribers, one with a dead address, one crash | a brigade stays small, the queue is an `Outbox`, both queues drain |
| `comments` | a comment and a reply, a reader and the operator, two handlers; a thread of two that grows to four, pages of one; two boxes, two submits, one token | nothing flagged is published unseen, deletions and bars hold; no comment is drawn twice, no reload is lost, no wait is without a timer |
| `webhooks` | two deliveries to one endpoint, one per pass, two posts each, a pause after two given up, two faults | pausing is in time, the queue is an `Outbox` and drains |
| `imports` | three comments, a cap of two, two runs, one reply; files of two comments in six formats, over two sites and six pages; trees of four comments; pages of one, two writes | nothing that exists is rewritten, threads are restored, people and pages are kept apart, trees are drawn exactly, paging misses nothing that stays |
| `access` | sessions: two of one user, one browser and an administrator, a life of two ticks, a lag of one; accounts: two persons, two requests at a time | a request that begins once a stamp is seen everywhere is refused what it revoked, while KV keeps the stamp; administrators, names and bars are lost only to requests that overlap |
| `edge_cache` | two colos, two readers, a writer, two sorts, two page sizes, lives of 1 and 2 ticks; two settings, two isolates, two askers, a save | staleness bounded, what outlives a drop overlapped it, saves are seen |
| `upgrade` | three releases and files, one once-only, one reader with two requests, two faults | schema before code, no file twice without a lost record or a misread ledger, totals exact |
| `cancel_link` | the double opt-in of `mail` | *violated*: a pending row's link survives the cancel |
| `edit_held` | the server of `comments` | *violated*: a held comment that is approved while its edit waits for the classifier is published with the flagged text |
| `upgrade_again` | as `upgrade` | *violated*: a run that stopped after the checkout is not completed by running it again |

Deadlock is not checked: requests, posts, faults and clocks are bounded, so each
instance comes to rest.

### Bounds, and why they are enough

Each bound leaves room for the case it is about and for one more.

* `limits`: two requests meet on the last slot, and a third is there to be
  denied or to roll the window between them; the two windows roll apart, and one
  request holds a smaller cap, as an isolate with an older settings memo. A
  limiter's long window outlives one tick of its short one, two routes share the
  envelope, and a third key makes the shard
  evict. Its requests are alike, so one of them may be taken to come first
  (`InTurn`).
* `mail`: two requests show every read-then-write race, since a handler races
  with one write at a time; three tokens are a signup, a renewal, and a link
  older than both; the two posts share the address's pending cap. Two comments
  are one in the mail in hand and one behind it. `MaxCrash` counts the dying
  passes; answers of the provider are lost at any pass.
* `digests`: the two reasons are the two rows a batch has to choose from; two
  networks are a first and a repeated report; `MaxRow` is two because the third
  row of a key would need a third network. The replies' pass takes two digests,
  so a dead address never fills it, and a lost answer of the moderators' provider
  counts as the one crash; that fifty dead addresses would is a known
  consequence of retrying for ever (`digest.ts:131`).
* `comments`: a thread and a reply are all that cascades, pins and parent checks
  tell apart; two handlers race, moderation and bans are steps of their own. Two
  further comments are one that a reload brings and one of the reader's own. A
  second box is a reply form or the box a render builds while a submit of the
  first one waits.
* `webhooks`: a pass takes one delivery while another waits, so order and
  starvation are visible; a threshold and a schedule of two have a first, a last
  and a count in between; two faults are one in each of two passes.
* `imports`: a chain of three is one more than the cap of two, so it is
  flattened in one order of the file, and cut by a page in the other; two runs
  are one and the next, or one and an overlapping one. A tree of four has a
  hidden parent with siblings and grandchildren; two comments of a file are two
  that could be taken for one person or one page. The six pages are a page, the
  same with other slashes, with a query and on another host, the root, and a
  comment with no link that parses; a path that no slug can be made of is left
  to the proof. The site, the deleted comments and the one page for all are
  asked for one at a time, and a reader's reply goes into a chain (`MCOptions`,
  `MCImport`).
* `access`: one session is revoked while another is minted, and the clock goes
  past the life of both. `Lag` is one tick, half of a life, so that a stamp is
  seen at one place and not yet at another; the clock goes to three, and
  `Within` lets a behaviour have a second revocation or the third tick. A
  request begins only while there is room for the stamp or the session it ends
  with (`Roomy`). Two administrators are what a last one needs.
* `edge_cache`: one colo mutates, another only expires; two page sizes are the
  one before and after the operator changes it; two askers are one that derives
  and one that joins or saves; clocks reach past every time to live.
* `upgrade`: a target, what was installed and a later one; a fault stops an
  upgrade and another the repair, or misreads a ledger; two requests of a reader
  overlap a deploy.

### Fairness

Users, moderators, the network and crashes are never fair. The cron is: it fires
every fifteen minutes, so `List` and the steps of a pass are weakly fair. A row
becomes due because time passes (`Ripen`). A provider that refuses an address
now and then accepts it at last: `SendOk` of a living address is strongly fair,
since the pass that would send may die or be denied before, and comes back; a
dead address (`Dead`) gets `SendFail` alone. The mail ceiling belongs to a day
and refills, so `Reserve` in `ModeratorDigest` is strongly fair. `RepliesDrain`
assumes fewer dead addresses than a pass has room for, and `QueueDrains` one
living recipient. `EverySettled` needs no receiver to answer: a delivery that
keeps failing is given up.

## Proofs

A proof module states an inductive invariant, proves that `Init` establishes it
and every action keeps it, one step per action, and derives the properties from
it. Everything holds for all values of the constants under the named assumptions
of the component's module, which TLC evaluates in the runs. `IInv` was checked
by TLC on the component's instance before it was proved. Temporal theorems end
in one PTL step.

* **EmailBudgetProofs, the mail budget** (`RequestAssumption`, `ChainAssumption`,
  `WindowAssumption`, `ClockAssumption`, `CapAssumption`). `IInv` is `TypeOK`,
  `SentIsLedger`, `SlotsAccountedFor`, `SentWithinCap`, and what a request knows:
  `HeldInWindow` (once the window of its slot has rolled, `window_start` is past
  its timestamp for ever), `HeldIsPast` (it holds slots only of budgets it has
  passed), `IdleIsFresh`. The ledger alone is not inductive: a release must know
  that its own increment is still in the window. From it `TypeCorrect`,
  `LedgerCorrect`, `NoSilentBurn`, `CeilingHolds`, `ReleaseSafe`.
* **EmailBudgetProofs, the rate limit** (`LimitAssumption`: a long window holds
  its short one, limits are at least one). `RateInv` is the limiter's type,
  `Placed` (a stamp sits in its own key's bucket, once), `Shard`
  (`ShardRemembers`: what a window counts is in its bucket or was evicted or
  lost; `ShardMeters`: no window of a bucket is over its limit) and `Caches`
  (`OverlapsSeen`, `Knows`, `MetersIfClean`: a request that overlapped no other
  of its key has read every stamp its write must keep). The bound on admissions
  is not inductive alone, for the write replaces a whole bucket by what was read
  several steps before. From it `ShardMetersExactly`, `OnlyOverlapsOvershoot`.
  `EarnedInv` (every stamp in a bucket or in a reader's hands is of a request
  that was let through, of that identity, place and route) gives `NoUndueBlock`:
  a request is turned away only if its window was full of such (`BlockIsEarned`,
  which TLC found true on the instance of `limits`; no run lists it).
* **SubscriptionsProofs** (`PostAssumption`). `IInv` is `TypeOK`,
  `WritesExisting`, `PressedIsOptIn` (a confirm that has found its row was
  pressed by the owner), `ResendIsMailed`, `PendingHasToken`, `BarredLinkIsDead`
  and `BarredUnheld` (a link older than a cancel opens no row, and no handler has
  one in hand), `ActiveMeansOptedIn`, `PendingHasLink`. A confirm writes by id
  after an await, so that it still confirms the row the owner meant rests on the
  history of the links, and not on the row. From it `TypeCorrect`, `DoubleOptIn`,
  `CancelHolds`, `PendingRowHasLink`.
* **SubscriptionsProofs, the reply digest** (no assumption on its constants).
  `DigestsInv` is `TypeOK`, `FannedOnce`, `CarriesOwed` (what a pass carries is
  queued or was voided behind its back, and its digests are of different
  subscribers), `ReadIsFresh` (what was loaded at a moment is still owed, or was
  cancelled after it) and `MailedOnce`. That a notification is not queued and done
  at once already rests on `CarriesOwed`: a second digest of one subscriber would
  settle rows its first one had sent. From it `DigestsTypeCorrect`, `MailIsFresh`,
  `NoMailTwiceUnlessLost`, and `ReplyQueueIsOutbox`, that every step is a step of
  `Outbox` or stutters.
* **ModeratorDigestProofs** (`NetworkAssumption`, `BoundAssumption`). `IInv` is
  `TypeOK`, `BatchFits` (the batch is unsent, its mail lists what was not
  handled, whoever is not left to try was offered it) and `NotesFit` (rows made
  and notes under way together never exceed the reports filed, which is what
  bounds a brigade however notes and digests overlap). From it `TypeCorrect`,
  `BrigadeBounded`, `FanoutIsWhole`, and `ModeratorQueueIsOutbox`, that every step
  is a step of `Outbox` or stutters.
* **WebhooksProofs** (`TargetAssumption`, `RetriesAssumption`,
  `ThresholdAssumption`, `BatchAssumption`, `FaultAssumption`). `IInv` is
  `TypeOK`, `CopyFits` (the fail count read before the post is at least the
  row's, and is the row's unless the endpoint was touched), `PausedInTime`,
  `HandsFit` (what is in hand is pending, or was removed with its endpoint),
  `Ledger` (posts of a delivery are its attempts, plus the one in flight, plus
  faults) and `GivenUpAfterRetries`. `PausedInTime` needs `CopyFits`: the pass
  decides by a number read before the post, and this is sound only because
  whoever else writes the counter sets it to zero. From it `TypeCorrect`,
  `PausesInTime`, `RetriesAll`, `LeavesPausedAlone`, `PausesAreEarned`,
  `RetryQueueIsOutbox`.
* **CommentsProofs** (`CommentAssumption`, `ParentAssumption`,
  `OperatorAssumption`, `BoxAssumption`, `ThreadAssumption`). `IInv` is
  `TypeOK`, `HandlersFit` (what a handler reads from its job before it writes:
  the row exists, a reserved id is its alone, a barred author is marked as
  overtaken) and `FlaggedNeedsModerator`. From it `TypeCorrect`,
  `NothingFlaggedUnseen`, `ApprovalIsModerators`, `DeletionHolds`, `PinHolds`,
  `BarHolds`, `ClosedThreadHolds`. For the thread on screen `LoadsFit` says that
  once a reload was asked for during a load, that load still runs and another is
  queued behind it, which gives `EveryReloadRuns`; and `ThreadFits` that a page
  fetched, a batch captured, the list and the tier each hold a comment once
  (`OncePerPage`). Its lemmas are about the operators: `Sorted` enumerates a set
  because as many elements come before one as its place says (`SortedOnce`), and
  `Without`, a join and a stretch keep entries apart (`WithoutKeeps`,
  `JoinedOnce`, `StretchOnce`). The library's `SelectSeq` and `SetToSortSeq`
  take an operator, which the provers do not instantiate, so `Widget` defines
  these two itself. For the boxes `BoxesFit` says that a submit past its gate
  has a token and that the gate of a box on the page is not disposed, without
  which a wait could outlive its timer (`WaitsAreTimed`).
* **CommentsProofs, the reading of a post** (`ReadingAssumption`). `RowsFit` (an
  answer is younger than what it answers, and not stored before it) is what the
  writes keep; all of `PostDrawnExactly` follows from it. `DownTheTree` (what
  holds of a comment when it holds of its parent holds of all) and `UpIsChain`
  (of two comments above one, one is above the other) are the two facts about
  forests; `NeedIsAbove` and `CarryIs` say what the query asks for, `FetchedIs`
  and `AllIsKept` that the builder prunes none of it. `PagesFit` is the
  invariant of the pages: the rows, the pager's type and, for every thread that
  stays, where it is at this step of the request (`Tracked`): before the first
  read nowhere, after a read on the pages or in hand if the cursor is past it or
  it is pinned, and in the last read each of them. `PageIsFirst` and
  `AheadGrows` say that a page is a stretch of the sort, so that its last place
  is where the next one begins. From it `ThreadsOnce`.
* **AdminProofs, the accounts** (`PersonAssumption`, `RoleAssumption`,
  `FounderAssumption`, `NoneAssumption`). `AccountsInv` is `RowsOK` and
  `JobsOK`: a request that no write has overtaken (`stale` is not set) still
  knows the truth about its row, its actor and its count. From it
  `AccountsTypeCorrect`, `LastAdminStays`, `ErasureIsOvertaken`,
  `BarredStaysOut`, `StaffMarksFollowRole`. The proof of `LastAdminStays` uses
  one of the two guards: that nobody bans or demotes themselves keeps an
  administrator while requests do not overlap, and the count of active
  administrators is not needed for it.
* **AdminProofs, the sessions** (`SessionAssumption`). `StampInv` is the type,
  `StampsOK` (stamps are numbered in the order they landed in), `LastStamps`
  (the last stamp of a user is in KV, the one before it may still be read) and
  `Knows` (what a request knows everywhere are the first stamps, and once it has
  passed the check it knows a later stamp for each that refuses its session). By
  `ReadsKnown` a location never answers with a stamp older than what the request
  is known to have, whatever the lag. From it `SessionsInvariant` and
  `StampedStaysDead`, the property the run checks, for every lag. `EndedInv`
  (what was ended is out of KV, or was put back by a slide) gives
  `SignedOutStaysOut`, and `OwnInv` (a session is issued past its own stamp)
  gives `CallerStaysIn`, both for every lag.
* **AdminProofs, the imports** (`SizeAssumption`). `IInv` is `Counting` (the loops
  stay within the export), `Columns` (every row has the columns a run may write)
  and `Held` (a run holds stored rows, and no row is held by two). A link is
  written by id: that the id is the run's own follows from the unique index at
  the insert. From it `RunsApart`, `LeavesOthersAlone`.
* **AdminProofs, the threads of an import** (`SizeAssumption`,
  `ExportAssumption`, `ReplyAssumption`, `DepthAssumption`). `LinkInv`, over
  `IInv`: a comment that is not stored has no parent; what a run has inserted and
  not come to has none either, and what it has come to is where it belongs
  (`Placed`); and what a memo holds of a comment that has a root is the number of
  steps to it (`MemoFits`). `Top` says that a root is met at the m-th step, which
  makes depth a matter of climbing and not of recursion: it is unique, one less at
  each step up (`TopAbove`), and at most the number of comments (`TopBounded`, by
  the pigeonhole principle). `MemoIs` is `depthOf`: the climb ends at a root, in
  the memo or in a cycle (`ClimbEnds`), a comment with a root meets no cycle
  (`TopApart`), and then the base and the length of the climb add up to its depth.
  `LinkPlaces` is the climb past the cap, `AboveCounts` what is above a comment.
  TLC checked `LinkInv` on the instance of `imports` first. From it
  `ThreadsAreRestored`.
* **AdminProofs, the files** (`FileAssumption`: the formats and paths are those
  that `Adapters` tells apart, and its words for a guest, a name and no site are
  nobody's id). `FileFits` says that a plan is of the file as it stands; the rest
  is about the plan. `GhostsArePeople` is `authorSeed`, `SlugsMeet` says which
  pages meet under a slug (the same path but for its slashes, and of links but for
  host and query), `OneSite` and `WholeFile` what is taken of a file, and
  `SlugsCounted` that slugs and merged pages add up to the pages: the first page
  on each slug is the one that is not merged. From it `PlansSayWhatFilesSay`, for
  files of any length.
* **EdgeCacheProofs, the answers** (`KindAssumption`, `TTLAssumption`,
  `FillAssumption`, `NowAssumption`, `SizeAssumption`). `IInv` is `TypeOK`,
  `FillInTime` and `EntryInTime` (a fill misses no mutation committed before it
  began, an entry none committed more than `MaxFill` before it was put),
  `NumbersPast`, `LateIsOver` (a fill without a mutation whose drops are done is
  in `over`) and the two properties. From it `TypeCorrect`,
  `StalenessBounded`, `OnlyOverlapsLinger`. A time to live of
  zero was found to break the bound, and is excluded because the code has none.
* **EdgeCacheProofs, the settings** (`SettingsAssumption`: a memo lives at least
  one tick). `SettingsInv` is the type, `LogIsRow` (a row means what its log
  ends with), `AckedInLog`, `AskerOK` (with `ReadOK`, for a derivation that has
  read some rows and not others), `MemoOK` and `FlightOK`. `FlightOK` is the one
  that matters: a derivation that was detached by a save still runs, and those
  who joined it before are served by it, so what it shows is bounded by when it
  began. From it `SavedIsServed`.
* **UpgradeProofs** (`ReleaseAssumption`, `FileAssumption`,
  `DeclaredAssumption`, `SkipAssumption`, `FaultAssumption`, `UserAssumption`,
  `KindAssumption`). `IInv` is `TypeOK`, `ReqOK`, `RecordedWasRun` (a recorded
  file was run), `PhaseOK`, `PlanIsWhole` and `RunnerIsWhole` (what the target
  declares is recorded, in the plan, or in the runner's hands), `DeployIsReady`,
  `LeftIsReady` (also after a stop whatever the messages tell the operator to do
  finds the files recorded), `RunsAccountedFor` and `MisreadOnce` (a file is run
  again without a lost record at most once per misread ledger, since its name is
  there already and ends that runner), and the three properties. The order of
  the steps enters only through these. From it `TypeCorrect`,
  `MigratedBeforeDeployed`, `RunOnceUnlessLost`, `TotalsAreCounts`.

### What stays with TLC

* Liveness: `QueueDrains`, `RepliesDrain`, `EverySettled`. They rest on fairness,
  and so on ENABLED, which the prover does not treat.
* ENABLED itself, and so any statement that a step can be taken.

Every safety invariant and every action property that a run checks is stated by
a theorem above. The library's induction theorems take an operator, which the
provers do not instantiate; the proofs here get by without them. `LeastOf` (a
non-empty set of numbers has a least one, from the library's `WFMin`) and
`Inductive` (a set of numbers that holds zero and each next one holds all) speak
of sets, and a statement about all numbers is proved of the set of those it
holds for: so the recursive functions `Up` and `Ancestor` are treated
(`UpIs`, `ClimbIs`).

## Disagreements between the code and what is said of it

Three have a run that shows them.

* `cancel_link`: the comment at `confirmSubscription` says its guard keeps a
  confirm link from reviving a cancelled row; it does so only for a row that was
  confirmed before.
* `edit_held`: PATCH says its second spam pass keeps a rewritten comment from
  being published; it compares with a status read before the classifier was
  awaited.
* `upgrade_again`: the operator's guide says a failed upgrade is completed by
  running it again; once the checkout has moved, the same command finds nothing
  to do.

The following are in the models without a run of their own.

* Mail. The admin's resend is refused for a confirmed row, but a row confirmed
  while the mail is out loses its confirmation (`db/queries.ts:3999`,
  `ResendSparesConfirmed`). `docs/notifications.md:80` says that approving a
  held comment enqueues its notifications; no approval does
  (`lib/moderation.ts:73`, `ApprovalEnqueues`). The cap of pending rows is
  counted before it is used and can be exceeded (`api.subscriptions.ts:210`).
  `sendEmail` answers false also for a mail that the provider took before the
  connection broke (`lib/email.ts:101`): its slot is handed back, and a digest
  is mailed again (`SendLost`).
* Webhooks. `docs/webhooks.md:102` says that re-enabling clears the auto-paused
  note; a post that was out when the endpoint was paused clears it too
  (`InlineReset`).
* Imports. A run that dies after its inserts and is started again does not link
  what the first one inserted: those threads stay flat. Migration 0009 speaks of
  a safe resume, which holds for duplicates (`RowSelect`, `Links`). The comment
  at `lib/import/core.ts:878` has the cap on `depth` bound what a reader pays:
  that holds of the column. A run without the deleted comments and one with them
  that overlap compute depths over different chains, and a comment of the first
  can be linked under one that the second puts at the cap, so the chain of parents
  is longer than the column says (four comments and a cap of two are enough).
* Sessions. The comment at `lib/session.ts:267` ("No session can outlive the
  TTL") has a stamp outlive what it revokes. A slide can write back a session
  whose stamp it could not see yet, and that record outlives the stamp:
  `RevokedStaysDead` fails from a lag of two ticks on, and what holds is
  `RevokedWhileStamped`. The two reads of a session are taken to fall within one
  tick; a read in between which both expire is left out.
* Accounts. An erased row gets a name back from a sign-in that had looked the
  person up before (`db/queries.ts:579`, `ErasureIrreversible`).
* Rate limit. The comment in `lib/ratelimit.ts` bounds what a race over the
  Cache API lets through by the number of concurrent requests; a slow one also
  rewinds a bucket over requests that came and went while it waited.
* Upgrade. The comment in `appliedSet` (`db/migrate.ts:55`) wants a ledger that
  cannot be read to end the run, and `?? []` below it takes JSON of another
  shape for an empty one, where `scripts/upgrade/wrangler.ts:328` throws: the
  runner may then run one file again before the record is refused
  (`MisreadLedger`). After exit code 2 and `npm run deploy` by hand the
  reconcile that follows a deploy never runs. `docs/troubleshooting.md` calls
  migrations idempotent; an `ALTER TABLE ... ADD COLUMN` whose record was lost
  stops every later run until it is recorded by hand (`Skips`).
* Widget. Nothing is to re-enable a box whose challenge failed for good
  (`embed.ts:4186`), but a submit that had its token and is accepted does
  (`FailureSticky`). The reader's order is to survive a reload, but a load under
  way when it is picked sets it back to its own (`LastPickWins`).

## Not modelled, and the plan

What `PROJECT.json` marks as not modelled and is not in this list is rendering,
string tables, operator scripts or calls to outside services.

1. Reactions and votes on comments, whose rows and totals differ from those of a
   page; the Telegram digest's day stamp and the buttons' updates.
2. Retention and re-render: cutoffs that advance while a pass runs, and a
   re-render that overlaps an edit or an erasure and writes back the old body.
3. The spam pipeline's order of verdicts; the providers' OAuth exchange; the
   widget's boot and sign-in state machines.
4. The settings' registry and the scripts that build from it.
