# Amoeba: verification project

TLA+ models of Amoeba, the TLC runs that check them on small instances, and
proofs about the gateway limiter that TLAPS checks for every instance.

Amoeba has three programs:

* **the gateway** (`src/nginx129`): nginx 1.2.9 with one added module,
  `ngx_http_access_control_module.c`, that admits requests per key and service
  and slows them down to the rate of the key, and a changed log module that
  writes the access log into an Oracle database;
* **RssFetcher** (`src/RssFetcher`): Quartz jobs that download RSS feeds into
  MongoDB, and jobs that mail what is new to users;
* **SpringReader** (`src/SpringReader`): a web application in which users
  subscribe to keywords and get a first push and a daily push of articles.

They interact through data. RssFetcher writes articles into MongoDB
(`rssdata`), a river copies them into the Elasticsearch index `mongoindex`,
and the pushes of both Java programs query that index. The gateway stands in
front of web services and shares nothing with the other two.

## Inventory

| Component | State | Operations | What is hard about it |
|---|---|---|---|
| limiter | per zone: tree and LRU queue of nodes (excess, last, count), slab pool; per request: ctx, timer, flag | handler, lookup, account, expire, delay | workers hold a node pointer while the zone mutex is free; cached clocks differ between workers; one of several limits refuses; a full pool |
| request parsing (gateway) | none | find service id and key in URI, arguments or body | pure |
| key table (gateway) | arrays of keys, rates, services | loaded from Oracle at start | runs once, in one process |
| database log (gateway) | OCI environment, session pool | log handler, pool life over reloads | planned |
| feed jobs (RssFetcher) | `rssfeeds`, `rssdata`, JobDataMap, triggers | run, execute | job chain must never break; dates lose their seconds; check then insert; int overflow of the ttl; restarts |
| mail jobs (RssFetcher) | `users`, JobDataMap, triggers | run, execute | no article may fall between two pushes; repeated mails |
| subscriptions (SpringReader) | `userKeyword`, Quartz jobs | createsubscribe, deletesubscribe, first push, daily push | requests and two kinds of jobs read, delete and save the same documents |
| accounts (SpringReader) | `userAccount` | sign-up, activation, sign-in | check then save; planned |
| articles, search, paging (SpringReader) | none of its own | read-only pages | page arithmetic; planned |

`PROJECT.json` lists every component with its status, every hazard at the line
where it bites and, in `map`, the source lines of every definition.

## Modules

| Module | Models | Size of a step |
|---|---|---|
| `AccessControl` | limiter, from the table lookup to the answer | one critical section of a zone mutex |
| `AccessControlProofs` | theorems about `AccessControl` | |
| `RssFetch` | `RssFetchScheduler`, `RssFetchJob`, `MongoDao`, `EntryDBObject` | one download or MongoDB call |
| `RssPush` | RssFetcher's `SendEmailScheduler`, `SendEmailJob` | one Elasticsearch, mail or MongoDB call |
| `Subscriptions` | SpringReader's `HomeController`, `UserKeywordsService`, `FirstPushSendEmailJob`, `SendEmailJob`, `SendEmailScheduler` | one MongoDB or Elasticsearch call |

Each has an `MC...` module with the values TLC uses and one `.cfg` per run.
Definitions named "faulty variant" in a comment are bugs the code does not
have; they stand beside the definition they imitate, and serve to see that a
property notices them. No action uses them.

### AccessControl

A worker takes a request (`Handler`), goes through the limits
(`LookupBusy`, `LookupAccount`, `LookupPin`, `LookupNoMemory`, `LookupNew`,
`Refuse`), and then either releases the nodes it pinned (`Release`,
`Limited`) or charges them (`Account`, `Accounted`). A delayed request waits
for its timer (`DelayOver`, or `DelayAborted` when the client goes away) and
passes the handler a second time. The red-black tree and the queue always hold
the same nodes, so `queue[z]` stands for both; `node[z][k]` is the shared part
of a node and `ctxnode[w][z]` the pointer a worker keeps. Time is in
milliseconds: `now` is the clock, `wtime[w]` the time worker `w` has cached,
which is why a worker may see a node's `last` in the future.

### RssFetch and RssPush

A job is `waiting` for its trigger, runs through `execute`, and ends by
scheduling itself: if it ends any other way it is `dead`. Dates in a JobDataMap
go through `SimpleDateFormat()`, which has no seconds (`Truncated`). The ttl
arithmetic is done in an int of `IntBits` bits (`Int32`). Exceptions that the
code swallows are alternatives of the action that makes the call, switched on by
`Faults` and counted in `faults`, in `RssPush` for each kind by itself and in
`RssFetch` also for each uuid a query fails for (`blind`); `Restart` makes all
jobs anew from the database.

### Subscriptions

A request goes `new -> checked -> save -> schedule -> done`, a first push
`ready -> send -> delete -> save`, the daily push loops over users, keywords,
addresses and documents. `updateLastpushdate` is three steps (find, delete,
save) because it is three calls. Every call may throw (`Failure`): in a request
that is the end of the request (`CreateFails`), in a first push the end of the job
(`FirstFails`, `FirstDatingFails`), in the daily push the end of the job before
the mails (`DailyEnds`) and the end of the user's turn from the mails on
(`DailySendFails`, `DailyDatingFails`). A delete or a save that throws may have
been carried out or not. `saved`, `deleted`, `mailed`, `straddled` and `lost` are
history: what users did, what was mailed, which articles were on their way into
the database or the index while a push was running, and which documents a fault
left neither in the database nor in the hands of a job.

## Runs

Passing runs:

| Run | Question | States |
|---|---|---|
| `ac_two_zones` | two workers, two limits, zones of one node: types, live nodes, exact pins in both zones, each request charged once in all zones or in none, bounded excess, errors only when the pool is pinned | 149,043 |
| `ac_changed_table` | two limits that loaded different tables: live nodes, counted pins, charges; every request gets an answer | 30,682 |
| `rss_feeds` | two feeds with the same entries, failing queries, restarts: unchanged means stored; one copy per feed and failing query | 1,663,381 |
| `rss_job` | one feed with every fault, undated issues, a ttl that overflows: dates do not run ahead of the articles, minimal gap between downloads, what the feed serves is stored | 688,795 |
| `push_job` | one user with every fault: no article falls between two pushes, nothing is mailed a third time but for a restart, every article is mailed or has a reason not to be | 140,949 |
| `sub_push` | one subscription with every fault: no date passes an article that was quietly in the index and not mailed, only a fault between delete and save loses the subscription, the settled news of one that is not lost is mailed | 155,477 |
| `sub_overflow` | the same about dates when two articles compete for one place in the mail | 712,846 |
| `sub_news` | two requests and two keywords: no document is lost while jobs delete and save it, and dating all keywords of an address at once passes over nothing | 3,075,069 |

Runs that end in a violation; each shows a place where the code does not do what
a comment, a page or an answer of it says. `findings` in `PROJECT.json` has the
quotations.

| Run | What happens |
|---|---|
| `ac_stale_pin` | a refusal by a later limit leaves the node of an earlier one pinned, and expiry stops there for good |
| `rss_no_description` | an entry without a description ends the job of its feed |
| `sub_undelete` | a push brings back a subscription the user has deleted |
| `sub_skipped` | an article stored between a push's query and its date is never mailed |

The models have other behaviours that a reader may not expect, and that no
property forbids: expiry measures the oldest node by the rate of the key being
inserted (`ExpireIdle`); an issue without a date is passed over once a date is
known (`Updated`); a ttl that does not fit an int makes the job come back every
minute (`NextTrigger`); two equal subscriptions requested at once are both saved
(`Create`, `CreateFind`); a first push is refused while one of the same user and
keyword is pending for another address (`CreateSchedule`). The code gives up four
things after a fault, and the properties leave out exactly those: a subscription
when the application stops, or MongoDB throws, between its delete and its save
(`lost`); an entry whose insert failed, until the feed is published again
(`failed`); an article whose mail could not be sent (`excused`); and the mail job
of a user whose query failed, until the program is started again (the second
disjunct of `NewsIsMailed`).

### Bounds

* Limiter: two workers are enough for every pair of steps at an unlocked gap,
  two limits for "an earlier and a later one", and zones of one node (`Slots`)
  make every second key evict. `slow` and `fast` are keys with different rates.
  The clock moves in half seconds, in `ac_two_zones` up to the age at which
  nodes expire.
* `MaxFaults` bounds the faults of a run, so that liveness is about what happens
  once they are over: two in `rss_feeds` and `sub_push`, one elsewhere.
* `RssFetch`: a minute has two ticks, so that dates do lose something; two
  issues (`MaxIssues`) are the least that can be mixed up. With `IntBits = 4` the
  ttl values 0, 4 and 9 are no ttl, one whose ticks wrap to a negative value and
  one whose ticks wrap to a positive one.
* `RssPush`, `sub_overflow`: two articles compete for a mail of one (`Size`,
  `DailySize`). In `Subscriptions` three points of time are before, at and after
  a push. `MaxDeletes` is 0 in `sub_news`, where a deletion would only remove
  documents the properties are about, and 1 in the other passing runs.
* At `MaxNow` the clock stands still. `RssFetch` then treats every trigger as due,
  so that liveness is not cut off. In `RssPush`, where distances in time matter,
  articles are stored up to the time `Settled`, the index has caught up before the
  clock goes on from there, and `MaxNow` is at least `PushRate` later
  (`SettledAssumption`): whatever is stored, a push still comes that asks for it.
* No run of `Subscriptions` has two addresses: what a failing mail to one address
  means for the user's other ones is in the model and not in a run.
* Requests, ids and articles are symmetric where nothing tells them apart; runs
  with liveness use no symmetry.
* Deadlock is not checked in the limiter's runs (all requests are answered),
  in `push_job` (a job ended by a failing query, or the clock at its end), in
  `rss_feeds` and `rss_no_description` (an entry without a description ends the
  job).

### Fairness

Weak fairness throughout. Limiter: workers do not stop inside the handler, and
the event loop fires timers. Jobs: Quartz starts a job whose trigger is due and
runs it to the end; the trigger of the daily push repeats for ever. The clock
advances, and the river copies what is in the database. Users, feeds and faults
are under no fairness. That a job runs to the end assumes that its calls return:
`RssFetchJob.getFeed` opens its `URLConnection` without a timeout, so for
`FeedIsRead` that is an assumption about the servers of the feeds, and a server
that never answers holds the job for good.

## Proofs

`AccessControlProofs` holds for any finite set of workers, any requests, keys,
number of limits, tables, bursts and pool size, from the assumptions named in
`AccessControl`:

* `TypeCorrect`: `Spec => []TypeOK`; no excess and no delay is negative.
* `NodesStayAlive`: `Spec => []NoDanglingNode`; a node a worker has pinned is
  in its zone's queue until the worker lets it go.
* `PinsAreCounted`: `Spec => []PinsCounted`; a node's count is at least the
  number of workers that hold it.
* `AlwaysIInv`: the inductive invariant they come from.

`IInv == TypeOK /\ ControlInv /\ NoDanglingNode /\ PinsCounted`. Neither of the
last two is inductive alone: expiry frees a node when its count is 0, so that no
held node is freed only if counts cover the holders; and a node made anew starts
with the count of its maker, so that counts cover the holders only if no worker
holds a node of that key that was freed. `ControlInv` says where the handler can
be. The proof has a lemma for each action; those about the queue rest on lemmas
that expiry keeps every node with a count (`KeepsPinned`), whichever of its three
forms runs, and on the counting of holders when one worker joins or leaves.

Only model-checked: `PinsExact`, `ChargedOnce`, `ExcessBounded`,
`ErrorOnlyWhenPinned`, everything about the Java programs, and all liveness
(the prover has no fairness).

## Not modelled

Request parsing with the reading of a POST body, the zones an nginx takes over on
reload, the key table and the OCI code of the gateway; stock nginx beyond what the
limiter uses of it; sign-up and sign-in; pages, search and paging;
how mails are put together; the `Deprecated` package. Feed and user names are
taken to be unique, sets of users do not change during a run, and the time zone
has no summer time (in the hour that comes twice `SimpleDateFormat` parses a date
back to the first or the second of the two). A 32-bit build of the gateway, and
the one product that wraps in a 64-bit build (head comment of `AccessControl`),
are left out. The time
between `new Date()` and the MongoDB call that uses it is a single step.

## Plan

1. Accounts (sign-up, activation, the demo accounts) and their check-then-save.
2. Database log: session pool and environment over reload and exit of workers.
3. Key table and request matching, paging: operators checked against reference
   definitions.
4. Composition of `RssFetch`, the river and the pushes, so that timestamps come
   from the fetch jobs; an abstract mailing service (each article at least once or
   excused) that `RssPush` implements.
5. Proofs: `UnchangedIsStored` and `CopiesPerFeed` for any feeds, `NothingElseLost`
   for any users and articles, `KeptUnlessDeleted`, `PinsExact` for equal tables.
