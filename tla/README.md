# Zorail in TLA+

Zorail is a self-hosted mail server for disposable and forwarding addresses: one
Go process receives mail over SMTP and HTTP, stores it in SQLite, serves it over
an HTTP API, an MCP server and a web page, and forwards copies through an SMTP
relay. This directory holds its specifications: TLA+ modules translated from the
source, TLC configurations that check them on small instances, and proofs that
TLAPS checks for every value of their constants.

Paths below are relative to the repository's root; Go packages are under
`internal/`. `PROJECT.json` says for every definition which lines of the source
it models, and lists the hazards the properties are for.

    tlc -config LongPoll.cfg MCLongPoll         # check one instance
    tlapm LongPollProofs.tla                    # check the proofs of one module

## 1. The system

### Parts, their state and their operations

| Part | Source | State | Operations | Module |
|---|---|---|---|---|
| Ingest service | `ingest`, `mailparse`, `id`, `model/message.go` | none of its own | `Accept` (normalize, scope, copy, save, publish, `maybeForward`) | `Ingest`, `LongPoll` |
| SMTP server | `smtp` | per connection: the envelope so far | `Mail`, `Rcpt`, `Data`, `Reset`, `Logout` | `Ingest` |
| HTTP ingest | `api/handlers_ingest.go` | one request | `handleIngest` | `Ingest` |
| Notification hub | `notify` | the channels per inbox, under a mutex | `Subscribe`, its cancel, `Publish` | `LongPoll` |
| Long poll | `api/handlers_ingest.go`, `mcp` | one request: cursor, row found | `handleWait`, `waitForMessage` | `LongPoll`, `WaitContract` |
| Message store | `storage/sqlite` | tables `messages`, `attachments`, `raw_blobs`, `messages_fts` | save, three deletes, reads, search, reopening | `MailStore` |
| Forward queue | `storage/sqlite/multitenant.go`, `forward` | table `forward_jobs`; the worker's batch in memory | enqueue, claim, send, the three marks | `ForwardQueue`, `Outbox` |
| Retention sweeper | `cli/serve.go` | a ticker | `DeleteExpiredMessages` | `MailStore` |
| Process composition | `cli/serve.go` | goroutines and their contexts | start, shutdown, what the worker is given | `ForwardQueue` (the relay), rest planned |
| Address registry, verification | `api/handlers_addresses.go`, `storage/sqlite/multitenant.go` | tables `addresses`, `verifications` | reserve, update, release, request, confirm | as ingest and the web page meet it: `Ingest`, `WebSession`; races planned |
| Identity and keys | `api/handlers_auth.go`, `api/auth.go`, `auth` | tables `users`, `api_keys`, organization setting | setup, register, login, key life cycle, resolve | as the web page meets it: `WebSession`; races planned |
| Reading and deleting over HTTP | `api/server.go` | none | list, get, raw, attachment, delete, search | `MailStore` (store calls), `WebMail` |
| Rate limiter | `api/ratelimit.go` | buckets per address | `allow`, eviction | planned |
| MCP server | `mcp` | none | tools over the same store and hub | `LongPoll` (`wait_for_message`); planned |
| Terminal UI | `tui` | the Bubble Tea model | keys, answers of commands, ticks | planned |
| Web page: mail | `src/ui/app`: `composables/useZorail.ts`, `pages/inbox`, `pages/index.vue`, `app.vue` | the composable's inbox, list, message, source, query, spinners | loads, search, delete, clear, long poll, polling, page changes | `WebMail` |
| Web page: session and account | `useZorail.ts`, `Onboarding`, `SignIn`, `KeysView`, `AddressesView` | user and token (also in the browser's storage), keys, addresses, the forms | setup, sign in and out, keys, destinations, reload | `WebSession` |
| Web page: keys, palette, reader, menus | `app.vue`, `CommandPalette`, `MessageReader`, `AppSidebar`, `SettingsView`, `Menu` | highlight, position, tab, menus, preferences, read marks | key presses, clicks, commands | `WebShell`, `InboxLink` |
| Web page: layout | `layouts`, `DomainsView`, `components/ui` | none | none | no behaviour |
| Cloudflare setup | `cfsetup` | a state file; remote resources | resumable remote steps, reset | planned |
| Up supervisor | `cfsetup/up.go` | two child processes | start, wait, interrupt | planned |
| Email worker | `cfsetup/worker.js` | none | post to `/api/ingest`, reject | `Ingest` (a sender) |
| Extraction | `extract` | none: pure | codes and links of a body | planned (ordered sets and verdict) |
| Configuration | `config` | read once | `AllowsRecipient` | `Ingest` |
| Web assets, AI interface | `api/embed.go`, `ai` | none | none | no behaviour |

### How they interact

    SMTP client --> smtp.session --+                       +--> notify.Hub --signal--> /wait, wait_for_message
                                   +--> ingest.Accept -----+                                |
    email worker -> /api/ingest ---+        |  (after the commit)                           | two queries
                                            v                                               v
                                 sqlite: messages, attachments, raw_blobs, messages_fts <---+--- readers
                                            |   ^------------- deletes: API, MCP, sweeper
                     maybeForward: registry, verifications
                                            v
                                     forward_jobs --claim--> forward.Worker --> SMTP relay

Calls are synchronous inside a goroutine. Goroutines share the hub (a mutex and
buffered channels) and the database. The database has one writer connection and
several reader connections, so each statement or transaction is atomic and
nothing larger is. The forward worker and the ingest path meet only in the
table `forward_jobs`.

    keys, palette, mouse --> app.vue, pages --> useZorail.ts (shared refs) --fetch, /wait--> HTTP API
                                 ^   |                   ^                                      |
                                 +- router, transition   +---- what runs after an await --------+

The web page runs on one thread; what it does between two awaits is atomic. Its
calls are answered in any order, and the page a route asks for is mounted only
after the old page has been animated out.

### What is hard, and what correct means

* **Long poll.** A message commits, and is published, at any point of the
  waiter's subscribe / query / sleep loop; channels hold one signal; a row is
  deleted between the waiter's two queries. Correct: no wakeup is lost, nothing
  blocks a publisher, no channel stays behind, an answer is in the caller's
  inbox and newer than what it had.
* **Forwarding.** Crashes between claim, send and mark; a relay that refuses,
  hangs, or accepts and is not heard; a batch that outlives its lease; a
  message deleted under its job. Correct: a job is sent or given up, "sent" is
  true, duplicates have a cause, attempts are counted and spaced.
* **The store.** A delete is three statements; two copies share one raw source,
  which is collected when nobody refers to it; readers use two queries.
  Correct: what is stored is whole, readable and searchable.
* **Ingest.** One call stores several copies one by one and can fail at any of
  them; the sender tries again, perhaps while the first call still runs; the
  registry changes under `maybeForward`. Correct: what is acknowledged is
  stored, nothing is stored that no envelope asked for, forwards go to
  destinations that were listed and verified.
* **The web page, mail.** Lists, searches, messages, their sources, deletes and
  a long poll are under way at once, beside a timer; they overtake each other,
  fail, or come back after the inbox was left. Correct: spinners stop, the list
  is that of the open inbox, the message that is read stays open, and what is
  shown becomes what the server has.
* **The web page, session.** Logins overlap, loads come back after the user has
  signed out, forms are unmounted while they wait, the whole list of
  destinations is sent as it was last shown. Correct: user, token and browser
  storage are of one login; lists are the user's own; the page never stays
  behind its spinner; edits add up.
* **The web page, hands.** Commands and messages change below the highlight and
  the keys; an address is completed, encoded and decoded on its way to a page.
  Correct: what runs or opens is what the user sees.
* **Planned.** Reserve is a read and an upsert (two owners); verification is
  re-requested while an old link or a queued job lives; two first-run setups;
  the bucket's arithmetic; answers that arrive late in the TUI; setup
  interrupted between remote steps; two children of which one dies.

## 2. The modules

Every action is one statement that another goroutine can observe: a database
statement or transaction, a critical section of the hub's mutex, a channel
operation, or one step of a network conversation whose outcome the program
learns separately. What a goroutine computes between two of these is part of
the action before or after. Counters that would be unbounded (time, attempts of
a sender, faults) have bounds named `Max...`, which are guards of the
environment's actions only.

In the modules of the web page an action is what its one thread does between two
awaits, or one step of the server that the page can tell from others.

History variables (`clean`, `hist`, `raced`, `faults`) record what happened; no
guard of an action of the program reads them. `faults` and `count` also carry
the bounds.

### LongPoll, WaitContract

`LongPoll` has the rows a waiter can see (`msgs`), the ingest goroutines
(`acc`), the hub (`subs`, `signal`), and the requests (`req`).

| Code | Actions |
|---|---|
| `ingest.Accept`, as the hub sees it | `AcceptStart`, `DrawId`, `SaveMessage`, `SaveFails`, `PublishSnapshot`, `PublishSend`, `PublishDone`, `AcceptReturn` |
| `notify.Hub.Publish`: the snapshot under the mutex, then one non-blocking send per channel | `PublishSnapshot`, `PublishSend` (a full channel is skipped) |
| `handleWait` / `waitForMessage` | `WaitCall`, `Subscribe`, `ReadLatest`, `Fetch`, `ReceiveSignal`, `PollTick`, `Deadline`, `Return` (with the deferred cancel), `ReadFails` |
| deletes | `DeleteMessage`, `DeleteInbox` |
| wall clock | `Tick` |

Time matters in one place: an id starts with the millisecond it was drawn in
and continues with random bits (`FreshIds`: the ids of one tick come in any
order), while `received_at` is read once per call, earlier, and kept in whole
seconds. `LatestMessageID` orders by the second and then compares one row by
the id.

`WaitContract` is what a caller may rely on: a wait ends with a message that is
in the inbox at that moment and newer than `after`, or with nothing. The
refinement maps a request to `View(req[w])`, which forgets the loop's position.

### ForwardQueue, Outbox

`ForwardQueue` has the table (`rows`, with `due` relative to now, so that time
passing is `Tick`), what `GetRaw` can find (`stored`), the process (`up`), and
each worker's memory (`wk`: the rest of its batch, the job in hand with the
attempts the claim returned, the body it loaded).

| Code | Actions |
|---|---|
| `EnqueueForward`, also of a message that has been deleted since it was stored | `EnqueueForward` |
| `ClaimForwardJobs`, one transaction: select due rows, charge an attempt, lease for two minutes | `ClaimForwardJobs` |
| `Worker.drain`: load the source; log and go on if that fails | `LoadRaw`, `LoadRawFails` |
| `SMTPRelay.Send` | `Dial`, `DialFails`, `RelayAccepts`, `RelayRefuses`, `RelayAcceptsUnheard`, and for the nil relay `NilRelayPanics` |
| the three marks, with their dropped errors | `MarkForwardSent`, `MarkForwardFailed`, `MarkForwardRetry`, `MarkForwardSentFails`, `MarkFails` |
| the process and the store around it | `Crash`, `Restart`, `DeleteMessage`, `Tick` |

`Outbox` forgets leases, attempts, batches and crashes: a pending delivery is
handed over zero or more times, becomes "sent" only after the relay accepted
it, and a settled one stays settled. The relay is external: it is modelled by
the four things `Send` can learn from it.

### MailStore

The four tables, the deleters (`del`: which of a delete's three statements is
next), the readers (`rd`), and what the sweeper's query tells apart (`old`,
`exempt`). `SaveMessage` is one transaction and one action. `DeleteMessage`,
`DeleteInbox` and `ExpireMessages` delete rows; `DeleteFromIndex` and
`GcRawBlobs` are the statements that follow, each of which may fail unnoticed
(`CleanupFails`); attachments go with their message by the foreign key.
`GetMessage`/`ReadAttachments` and `GetRaw`/`ReadBlob` are the two halves of the
two reads. `CrashAndOpen` forgets every call in progress and fills the index
again if, and only if, it is empty.

### Ingest

From a sender's attempt to the tables. `sess` is the SMTP session or HTTP
request, `run` its call of `Accept`, `copies` and `jobs` what is stored,
`route` and `verified` what `maybeForward` reads of the registry.

| Code | Actions |
|---|---|
| session methods, as go-smtp calls them | `MailFrom`, `Rcpt`, `AllRefused`, `Data`, `DataReadFails`, `ClientReset`, `Reset` |
| `handleIngest` | `handleIngest` |
| `Accept` | `StartAccept`, `SkipRecipient`, `AttachmentIdsTaken`, `SaveMessage`, `SaveCannotSucceed`, `SaveFails`, `AcceptReturns` |
| `maybeForward` | `GetAddress`, `IsVerified`, `EnqueueForward`, `ForwardCallFails` |
| the answer the sender reads | `Answer` |
| the world | `ContextEnds`, `HangUp`, `Crash`, `SetRoute`, `MarkVerified`, `CreateVerification` |

An address is a member of `Addr` and `Norm` says what normalization makes of
it: two spellings of one inbox, a blank, an address of a foreign domain. The
MIME parser is abstracted to what the store can tell: whether a mail has
attachments, whose ids Parse draws once for all copies. The sender keeps a mail
until it is told that it was taken, and may try again after anything else,
including its own impatience while the first call still runs. Cloudflare's email
worker (`cfsetup/worker.js`) is one such sender: it posts a mail of one recipient
and rejects it unless the answer is a success.

### WebMail

The composable's mail state (`st`), the URL's page and the mounted one (`route`,
`page`), the server's messages (`stored`), and the calls in flight (`calls`).
Every call goes through three moments: it is sent, with what the page knew;
`Serve` is when the server reads or changes its tables; `Answer` is when the code
after the `await` runs. Any call may be served and answered before an older one.

| Code | Actions |
|---|---|
| `openInbox`, `closeInbox`, `setSection`, links, history | `Navigate` |
| `enterInbox` and `leaveInbox`, called by the page that is mounted | `MountPage` |
| `loadMessages` | sent by most actions (`AskMessages`, `LoadingMessages`), `MessagesArrive` |
| `search` and the watch on the search field | `Search`, `SearchArrives` |
| `openMessage`, and the fetch of the source it does not await | `OpenMessage`, `MessageArrives`, `RawArrives` |
| `deleteMessage`, `clearInbox` | `DeleteMessage`, `DeleteArrives`, `ClearInbox`, `ClearArrives` |
| `waitForNext`: the wait, the reload or the change of inbox, the message | `WaitForNext`, `WaitArrives`, and the calls marked `chain` |
| `refresh`, `toggleAuto`, `startPolling` | `Refresh`, `ToggleAuto`, `Poll` |
| `guard`, `finally`, 404 | `CallFails` |
| the handlers behind them | `ServeRead`, `ServeDelete`, `ServeWait` |
| the world | `Arrive`, `DeletedElsewhere` |

`ListPane` and `ReaderPane` are what the inbox page shows of the state. Messages
and sources never change, so their calls are answered as they were when asked;
the long poll's server side is abstracted to what `WaitContract` promises. The
sidebar's counts, read marks and pins are left out.

### WebSession

The session and the account pages (`st`, `storage`, `view`), and the accounts,
keys and addresses of the server (`accounts`, `issued` with `scopes`, `revoked`,
`book`). Calls go through the same three moments, and carry the token of the moment
they were sent and the form that waits for them. An address is its place in `book`
and keeps its owner, also when it is no longer `live`; a row of the page's list says
which address it shows and how (`[at, is]`). PATCH and DELETE act on the address in
the path: only its owner's or, for PATCH, an admin's token is let through (`Owner`,
`IsAdmin`), the global token and the missing one of an open instance among the
admins'. PATCH reads and writes in two statements, and writes back an address that
was released in between.

| Code | Actions |
|---|---|
| `init`, `loadSetup`, the gate of `app.vue` | `Init`, `Reload`, `StatusArrives`, `Gate` |
| `Onboarding`'s `create` and `setup` | `SubmitSetup`, `SetupArrives` |
| `SignIn`'s overlay and `login`, `logout`, `saveToken` | `OpenSignIn`, `CloseSignIn`, `SubmitLogin`, `LoginArrives`, `Logout`, `SetToken` |
| `loadKeys`, `createKey`, `deleteKey`, the new secret | `LoadKeys`, `KeysArrive`, `MakeKey`, `RevokeKey`, `KeyMade`, `DismissSecret` |
| `loadAddresses`, reserve, `addDest`, `removeDest`, release | `LoadAddresses`, `AddressesArrive`, `Reserve`, `AddDest`, `RemoveDest`, `Release`, `AddressChanged` |
| pages mounted and unmounted, also by the gate | `Visit`, `StatusArrives`, `SetupArrives` (`Mounts`, `Unmounts`) |
| refused and failed calls | `CallFails` |
| the handlers | `ServeAccount`, `ServeKeys`, `ServeAddresses`, and for PATCH `FindAddress`, `WriteAddress` |
| another browser | `SetupElsewhere` |

### WebShell, InboxLink

`WebShell` has what the hands meet: the keys of `app.vue` (`PressJ`, `PressK`,
`PressEnter`, `PressEscape`, `PressX`, `PressG`), the field of the landing page
(`TypeAddress`, `OpenTyped`, `ClickNewAddress`), the reader's tabs and links (`PickTab`,
`ToggleExtras`), `Menu.vue` (`ToggleMenu`), settings and read marks
(`ChangeSetting`, `Marked`), and the palette: `flat` computes its commands from
term, inboxes and settings as the component's computed values do, `Move`, `Hover`,
`TypeTerm`, `ShowPalette`, `ClosePalette` and `Run` are its handlers. Calls are
answered and pages mounted at once here, because `WebMail` interleaves them; what
the server changes meanwhile is `InboxesArrive`, `ListArrives`, `ConfigArrives` (the
default domain gives way to the instance's while the user types), `InboxEntered`
(an inbox that was waited for has its message, and is opened).

`InboxLink` is the pure part: a typed text is trimmed, lowered, completed with
the domain of the moment (`Qualify`, `maybeQualify`), encoded into a path, decoded by the router and decoded
again by the page. A text is a sequence of the pieces these functions treat
differently (`Piece`). What a filter leaves is stated once, by the positions it
keeps (`Picked`), for the palette's lists and for the spelling of a path alike; it
computes what the library's filter does, and unlike that has no recursion, so that
the prover can follow it.

Instances for TLC are the modules `MC...`.

## 3. What the runs check

Passing runs explore every reachable state of their instance.

| Run | Question | Instance |
|---|---|---|
| `longpoll` | Is a wakeup ever lost, or a channel leaked? Does the loop implement `WaitContract`, does the poll ticker repair whatever the signals miss, does `Publish` end although no waiter moves? | 1 inbox, 1 waiter, 2 ingest goroutines with 2 calls, 1 delete, 1 failed read, two seconds |
| `forward_safe` | Are duplicates, empty copies and attempts explained, claims spaced, memory current, is `Outbox` implemented, is every job settled when the relay answers, and does the queue survive the nil relay? | 2 jobs of one message, 2 tries, with and without a relay, 1 crash, 1 failed statement, 1 lost acknowledgement |
| `store_tables` | Are messages whole; are leftovers, index gaps and reads that find nothing explained? | 2 ids, 2 inboxes, 1 shared source, 2 deleters, 1 reader, 1 failure, 1 crash |
| `ingest_envelopes` | Is what is acknowledged stored, and nothing else; is every mail taken or refused in the end? | 2 mails with blank, foreign and doubly spelled recipients, SMTP and HTTP, 3 attempts, 2 faults |
| `ingest_forwards` | Are the jobs those of listed and verified destinations? | 2 inboxes, 2 destinations, 1 registry change, 1 fault |
| `webmail` | Do spinners stop, is the list that of its inbox, does what the user reads stay, does the list become the server's? | 2 inboxes, 2 mails, 1 search, 3 calls in flight, 2 acts, 1 mishap, any number of polls |
| `websession` | Do user, token, storage and lists stay together, does the gate open, do edits add up? | 2 users, 1 destination, 3 keys, 2 addresses, 4 calls in flight, 3 acts, 1 mishap; no instance token; a new instance and two in use |
| `webshell` | Is what runs and opens what the user sees; do j and k miss nothing? | 3 messages, 4 texts, 2 inboxes, 4 acts, 1 change from outside |

The other four runs end in a counterexample: section 4.

### Properties

* `NoLostWakeup`: a waiter asleep on an empty channel beside a message it would
  return is about to be signalled, unless a delete or a failed read happened to
  it since it subscribed. `HubHoldsLiveCalls`: the hub holds the channels of
  exactly the calls in progress.
  `KeepsContract` is the refinement; `WaitersAreAnswered` says that a waiter whose
  query would find a message gets to answer it, whatever signals were lost;
  `PublishNeverBlocks`, that an ingest call ends whatever waiters do.
* `DuplicatesAreFaults`: every copy the relay has is the recorded one, the one
  about to be recorded, or one whose acknowledgement a counted fault lost.
  `AttemptsAreTries`: an attempt charged and not made is still ahead, or a crash
  took it, and none is made uncharged. `EmptyCopiesAreExcused`: the worker goes
  on when it cannot load the source, so a copy without a body can go out; it
  means the message was deleted or a statement failed. `MemoryIsCurrent`: what
  the worker remembers of its batch agrees with the rows, although leases run
  out. `VerdictsAreEarned`: a job is given up only when its attempts are used
  (`GivesUpLate`), and without a relay, whose first job panics again after every
  restart, nothing is recorded as sent or given up (`QueueOutlivesPanics`).
  `AttemptsAreSpaced`: a claim comes a minute at least after the last one of the
  same job. `EveryJobSettles`, `KeepsOutbox`.
* `StoredIsWhole`: no delete or collection takes a source or an attachment from
  a message that is still stored. `LeftoversAreExplained`: an index entry or a
  source without a message is there only while a delete is cleaning up, or after
  a failure or a crash cut one short. `SearchMissesOnlyRaced`: only a save that overtakes the
  deletion of its inbox is missing from the index. `ReadsLoseOnlyToDeletes`: a
  reader whose second query comes back short has lost to a delete of that
  message.
* `AckedIsStored`: a mail is acknowledged only with a copy in every inbox of its
  envelope that is handled here. `EnvelopesAreKept`: an inbox has at most one copy
  of a mail per naming in its envelope and attempt, through resets and several
  transactions on one connection. `JobsAreRight`: forwards are queued for
  destinations that were listed and verified since the copy was stored, and for
  all that were so throughout unless something failed. `EveryMailIsSettled`.
* `FlagsHaveOwners`: every spinner belongs to a call that will take it down, and
  at most one wait runs, through its list to its message. `ListIsOwn`: once a list
  of this visit has come, and no straggler after it, the list is that of the open
  inbox or of the search in the field; a straggler does replace it, until the next
  poll, and `ListSettles` says that in the end the list is the server's.
  `RawIsOwn`: the raw tab shows another message's source only if that was under
  way when this one was opened. `ReaderKeepsOpen`: nothing but the user, a page
  change, a clear or the message's own deletion closes what is read.
* `SessionIsWhole`: the storage a reload reads is the session in memory, and,
  until a token is pasted, the token is a key of the user shown, whichever login
  is answered last. `ListsAreOwn`: keys and addresses are those of the token's
  owner, except what late loads of an earlier session bring. `EditsAddUp`: every
  address is as its user last made it (`want`), or a call that makes it so is still
  to be done, unless its last edits are in doubt: one failed, was given up by a
  reload, or was made on a row that was not current, because it showed something
  else than was wanted by then or an edit of that address was under way. No other
  row's edit, no token, pasted or not, no list that another session left and no
  order of serving and answering costs an edit. And with no answer missing the page
  lists the book of its session, unless an answer was lost or overtaken since it last
  loaded the book in order (`behind`). `GateOpens`: the first spinner goes away even
  if the server never answers well, and forms come back.
* `HighlightNeverSlips`: while the user keeps still, the palette's highlight
  stays on its command or returns to the first, and never points past the end of
  the list. `OpensWhatItShows`: the inbox that
  opens is the one shown, for every address without a percent sign, but for the
  letters' case: a domain configured with capitals is shown with them and opened
  without.
  `KeysMissNothing`: j and k visit every message of a list that stays as it is.
* The type invariants of the web modules also say that the state follows the
  mounted page (`WebMail`), that a form waits exactly while its call is in flight
  (`WebSession`), and that tab, links, menus and highlight fit what is shown
  (`WebShell`).

Each is stated with a comment in its module; each has in `PROJECT.json` a mutated
definition (kept in the modules, marked "Mutant of") that it excludes.

### Why the bounds are enough

The hub's state is a set of independent channels, and a publisher touches each on
its own, so a second waiter repeats what one shows; two ingest goroutines are
where the order of commits and signals begins to matter. Two ids in one tick give both orders of id and
commit. `MaxClock = 1` with one tick per second gives messages on both sides of a
second, which matters to `LatestMessageID`'s order.

Two jobs with a batch of one make one job wait while the other is in hand; two
tries give a retry and a last attempt; minute by minute, the backoff of the first
attempt (1 minute) is shorter than the lease (2 minutes), which is the case in
which memory could become stale. With `Lateness = 0` a job that is due is due
now: the model then chooses freely among due jobs, which includes every choice
the order by `next_attempt_at` allows.

Two ids over two inboxes with one source give a copy deleted beside a copy that
stays, and one saved meanwhile. `SaveMessage` never waits for another call, so
two deleters give every order of their statements. Three attempts with two faults
let a mail fail twice, in any two ways, and still be taken. What the proofs cover
(section 6) does not depend on any of this.

Three calls in flight over two mails give a call that is overtaken, the one that
overtakes it and a poll beside both; two acts are enough to leave an inbox, or to
change the search, with calls under way, and polls, answers and arrivals cost
none. In `WebSession` four calls hold a login's two loads beside two others, and
three acts sign in, change and sign out, or edit one address twice beside another
act; the instances in use have the administrator signed in with or without an
address, and a second user with a key of his own to paste. In `WebShell` the positions 1, 2 and 3
of a list separate the ends from the middle; the four texts have a capital with a
space, a percent sign that starts a code and one that does not; the domain is
configured with a capital.

Symmetry is used in `store_tables`, which checks invariants only, over
interchangeable ids, deleters and inboxes. `CHECK_DEADLOCK FALSE` stands where the system really comes to rest:
every job settled, every mail taken or refused, every id drawn.

## 4. Where code and text disagree

These runs check one statement of a comment or document and end in a
counterexample.

| Run | Statement | What the code does |
|---|---|---|
| `longpoll_late` | `/wait` blocks until something newer than `after` lands | a message can be newer by its id and rank behind the one already seen by `received_at`; it stays unseen until something else arrives |
| `forward_nilsender` | a nil sender makes `Run` a no-op | `serve()` wraps a nil pointer in a non-nil interface; the first job panics |
| `ingest_fanout` | every inbox owns an independent copy | copies share attachment ids, a primary key: the second insert fails, and every retry repeats it |
| `webmail_wait` | `waitForNext`: "block until the next message lands in `inbox`, then open it" | from another inbox it opens the message before the inbox page is mounted, which then closes it |

Smaller differences appear as the exceptions that passing properties name:

* "messages are re-emitted verbatim" (`EmptyCopiesAreExcused`), "give up
  forwarding after this many attempts" (`AttemptsAreTries`), `ErrNotFound` or a
  whole message from `GetMessage` (`ReadsLoseOnlyToDeletes`), "each arriving
  message is also enqueued" (`JobsAreRight`);
* the search index "kept in sync": a save between two statements of
  `DeleteInbox` (`sqlite.go:518`) loses its entry (`SearchMissesOnlyRaced`);
* `SMTPRelay.Send` "honors the context deadline": only its dialer does
  (`forward.go:46`), so that a relay that stops answering holds the worker;
  `RelayStep` is fair only in `AnsweringSpec` because of it;
* `worker.js:30` calls a rejection transient; whether the sender tries again is
  up to the mail servers before it (`Ingest` lets it try again or not);
* the inbox page decodes what the router has decoded already: `x%40x` opens
  another inbox and `x%` none (`OpensWhatItShows` excepts them);
* a late list, or a late answer to a clear, is shown in whatever inbox is open by
  then (`ListIsOwn`); a search of white space alone stops polling and finds
  nothing; polling an empty inbox shows the skeleton again (`useZorail.ts:145`);
* at `/settings` the open inbox and message are kept, so that `x` deletes a
  message that is not on the screen; Escape with a menu open closes the message
  too; the position of the keys does not follow clicks (`WebShell`);
* loads that were under way when the user signed out fill the lists again
  (`ListsAreOwn`); an edit of an address before the answers to the last one sends
  the list without it, and a PATCH brings back an address that is released between
  its two statements (the `doubt` of `EditsAddUp`); a refused setup leaves the first-run screen until the page is
  loaded again; the last secret stays on the keys page through a logout; a form
  that was closed still signs in.

## 5. Fairness

* `WF` of each goroutine's own steps (`AcceptStep`, `WaitStep`, `WorkerStep`):
  Go's scheduler runs every goroutine that can run, and database statements end
  (a busy timeout turns waiting into an error, which is a step).
* `SlowWaitersSpec` assumes this of ingest goroutines only, for
  `PublishNeverBlocks`: no waiter has to move for an ingest call to end.
  `WaitersAreAnswered` adds, as its antecedent `WaitFairness`, that waiters run
  and that their two-second poll ticker fires.
* `WF_vars(Tick)`, `WF_vars(Restart)` in `ForwardQueue`: time passes, and the
  service manager that `cli/service.go` installs starts the process again.
* `RelayStep` is fair only in `AnsweringSpec`, which `forward_safe` uses for
  `EveryJobSettles`: nothing in the code makes a relay answer, and one that does
  not holds the worker (section 4).
* `NewAttempt` and `SenderStep` in `Ingest`: a mail server retries what was not
  taken and goes on with a transaction it began. That is what SMTP asks of it;
  the code cannot enforce it.
* `WebMail`'s `FairSpec`: the oldest call is served and answered in the end
  (fetches end, if by an error), whatever overtakes it; the page that the route
  asks for is mounted (transitions end); the polling timer fires.
  `WebSession`'s `FairSpec`: calls end. `WebShell` has no liveness.
* Nothing is assumed of deadlines, deletes, crashes, faults, or of what users do.

## 6. What is proved

The proofs hold for every value of the constants that satisfies the named
assumptions of the modules: the types of the constants; at least one inbox in
`LongPoll`; that `Norm` makes of every address an inbox or a blank that is none,
that an envelope names somebody, and that SMTP connections and HTTP requests are
different callers (`Ingest`); that "nobody" and "no message" are not among the
users and messages, and room for the calls a page sends as it is loaded
(`WebSession`, `WebMail`); that lists are sequences of messages, the server's
domain, the inboxes and what is typed texts, and that no more read marks are kept
than there may be (`WebShell`).

Each module's inductive invariant `IInv` is a conjunction of named parts; the
parts that no run checks by themselves stand at the head of the proof module.

**LongPollProofs.** `TypeCorrect`; `NoWakeupIsLost`; `ContractIsKept`, the
refinement of `WaitContract`. `NoLostWakeup` is not inductive: whether a
`Fetch` answers or falls asleep depends on its candidate being a newer row of
the right inbox (`CandIsNewer`) that only a delete can have removed
(`CandIsStored`), and whether a snapshot contains a waiter depends on the hub
holding exactly the calls in progress (`HubHoldsLiveCalls`, also a theorem of its
own, `HubStaysInStep`). `IInv` is their
conjunction; `AcceptInv`, `WaitInv` and `EnvironmentInv` show that each action
keeps it, and the refinement uses it for `Fetch`, the only step that maps to
`Answer`.

**ForwardQueueProofs.** `TypeCorrect` and `EmptyCopiesHaveCauses` for any number
of workers; `EveryCopyIsAccountedFor`, `AttemptsAreAccountedFor`,
`MemoryStaysCurrent`, `VerdictsComeFromTheRelay` and `OutboxIsKept` under `OneWorker`:
`serve()` starts one worker per process, and a second process on the same
database could claim what the first still holds once a batch has outlived its
lease. The argument: while it is the only one, the worker claims only with an
empty memory, so no row it holds can be claimed again even after its lease has
run out; therefore the attempts it writes back are the row's own, the rows it
marks are pending, and a marked row is never marked twice. `MemoryIsCurrent` says
that; with it, `DuplicatesAreFaults`, `GivesUpLate` and the refinement follow step
by step. `AttemptsAreTries` needs it too, to know that the retry writes back the
count the claim charged; `TriesOfOneJob` reduces it to the change of three
numbers per job. `AttemptsStaySpaced` proves the action property `AttemptsAreSpaced`: a job that was
claimed since the last minute is leased, backing off or settled, so that nothing is
due (`SpacedInv`); a step keeps, claims, queues, puts back or ages a row (`RowMoves`),
and what it puts back has a positive backoff. With a second worker a retry could set
the attempts of the other's claim back, and the property could not be read from the
counter any more.
`EmptyCopiesAreExcused` is inductive together with what an
empty body in a worker's memory means (`EmptyInv`). `VerdictsComeFromTheRelay`
joins `NobodyGivesUpEarly` and `QueueSurvivesPanics`, of which the second needs
no assumption on the number of workers: a worker that never dials records
nothing.

**IngestProofs.** `TypeCorrect`, `TakenIsStored`, `JobsStayRight` and
`EnvelopesStayKept`, for any mails, recipients, callers, destinations and bounds.
An acknowledgement tells of a call that ended steps ago, so the argument follows
a handled inbox of the envelope from the sender to the table: it is named in what
the client has still to say, or recorded by the session, or in what `Accept` has
still to do, or stored (`NobodyIsForgotten`), unless an error is on its way to
the sender. A caller carries one mail (`SessionsFit`, `RunsFit`), and several
callers carry the same mail only when all but one have been given up by the
sender, each at an attempt of its own (`AttemptsAreApart`); without that a second
call's copies could not be told from the first's. `EnvelopesAreKept` counts
copies against namings: every copy, and every recipient that is still to do, has
a place of its own in the envelope (`EnvelopesHavePlaces`, `CopiesHavePlaces`), a
mapping that is carried through `Rcpt`, refusals, resets and the loop of `Accept`
and at the end is an injection from the copies of an attempt into the namings.
`JobsAreRight` needs the history bracketed by the registry (`HistoriesFit`).

**WebMailProofs.** `TypeCorrect`, `FlagsKeepOwners`, `ListStaysOwn`,
`RawStaysOwn` and the action property `ReaderStaysOpen`, for any inboxes,
messages, searches and calls in flight. Each is about what an answer does to a
page that has moved on since, so the invariant says of every call what it
carries (`CallIsFormed`), that what it will bring is true of the messages
(`CallIsTrue`), and that only a stale one is about an inbox, search or message
that was left (`CallIsTimely`). `FlagsFit` ties each spinner to a call, and
`waiting` to the one chain of a wait, its list and its message. That the listing
is sorted and complete is proved by counting: the number of newer messages is a
bijection from the messages to the places.

**WebSessionProofs.** `SessionStaysWhole` and `ListsStayOwn`, for any users,
destinations and bounds. An answer acts on what the server said some steps
earlier, so neither is inductive alone: `CallsAreSound` says of every call in
flight what its answer will bring, whenever that comes: a login a key of the one
who logs in, a load what the owner of its token has, and only a call older than
the session (`stale`) another token than the session's. Keys are never issued
again nor change owners, so what an answer says stays true while it waits. The
assumption `UserAssumption` keeps "nobody" out of the users.

**WebAccountProofs.** `TypeCorrect` of `WebSession`, on the ground of that
invariant. Its hard part is that a form waits exactly while its one call, or the
load that follows it, is in flight. `PageInv` adds why no answer to another call
can end the wait: which kinds a form's calls have, and that a setup is under way
only on the first-run screen, which leaves it only by the setup's or the status'
answer, when nothing but loads can be in flight beside it (`CallFits`). The
bounds count what the calls will still need: a login becomes two loads (`Load`)
and issues a key (`Due`).

`EditsStayTrue` proves `EditsAddUp` by `BookInv`. What is wanted and what is in the
book meet only when an edit is written, so the invariant follows each edit until
then: an address that is not in doubt has one edit that is open, which asks for
what is wanted, or none, and is what is wanted (`EditsFit`). That an edit on a
current row finds no other is what `Current` says of the calls in flight; that the
server lets it through or answers a failure, and never does half, is the case of
`FindAddress`, `WriteAddress` and `ServeAddresses`. An address never changes its
owner (`RowFits`, `EntryFits`), so a list that another session left names the
addresses of that session's user, and an edit of it is refused or is an admin's.
For the list, `ListFits` looks at the last load that is neither stale nor late
(`LastGood`): while no change is under way it brings the book, if it has been
served; and when there is none, and the page is not `behind`, the page shows the
book. A change that ends asks for a load after it, so the next last load reads the
book with it. `Rooms` bounds the book, by what is being reserved.

**WebShellProofs.** `PathsReturn`, about `InboxLink`; `ShellTypeCorrect`,
`OpensTheShown`, `KeysOpenAll` and the action property `HighlightStays`, for any
messages, texts, commands, inboxes and bounds. The keys keep their position when the page
leaves an inbox, while the list goes: `KeysInv` adds that outside an inbox nothing
is listed (`Listed`), so that the position points at nothing that was skipped.
The highlight stays because a step that the user takes no part in either leaves
everything alone that the commands are computed from (`CommandsOf`, which states
them as a function of it), or sets the highlight back to the first; that it is on a
command to begin with, or on the first place of an empty list, is `Lit` in `ShellInv`.

What is on the screen fits together by `ShellInv`. Its hard parts are the highlight
(`Lit`: every step keeps the commands, or highlights the first of them, or closes the
palette, and the arrows' remainder is a position of the list) and the inbox (`Met`: a
page fails only at a promised address with a percent sign). Behind `Met` is
`PathsReturn`: decoding what `encodeURIComponent` made of a text gives the text back,
and never throws. That would be induction over the text, which the prover does not
have. Instead the spelling is compared with the text place by place: the places that
are spelled are listed in their order (`PositionsInOrder`, by counting the places
before each), each piece starts at a place of that list (`PlacesStart`), a percent
sign stands exactly where a coded piece starts (`PathReads`), and what decoding keeps
are those starts. The page then decodes once more, which leaves a text without a
percent sign alone (`PlainDecodes`); trimming and lowering twice is trimming and
lowering once (`NormalIsTrimmed`, `NormalOfTrimmed`). The proof of `OpensTheShown`
asked for both sides to be lowered: `Qualify` shows the domain as it is configured.

**MailStoreProofs.** `TypeCorrect`, `MessagesStayWhole`, `LostReadsAreDeletes`,
`SearchLosesOnlyRaced`, `LeftoversStayExplained`, for any number of messages, deleters and readers. The
strengthening names what keeps the tables together: ids are keys and are never
drawn again (`IdsAreKeys`), what a delete will still take from the index is
already gone from the messages (`DoomedEntriesAreGone`), and an index entry
agrees with its message about the inbox (`IndexAgrees`). For the leftovers, some
delete under way does not do: it must be one that will take that very entry
(`EntriesAreDoomed`).

The strengthened invariants were checked with TLC before they were proved, on the
instances of section 3 (but for the types of a call's fields in `WebSession`,
which mix kinds that TLC cannot compare).

### Model-checked only

Liveness (`WaitersAreAnswered`, `PublishNeverBlocks`, `EveryJobSettles`,
`EveryMailIsSettled`, `ListSettles`, `GateOpens`): the prover has no rules for
fairness. Every other property of a passing run is a theorem. The disagreements of
section 4 are counterexamples and need no proof.

## 7. Not modelled

* Text: header parsing, MIME decoding, JSON, HTML, log lines, layout. What the
  store or a caller can tell of it is a parameter (`RawOf`, `AttsOf`, `Norm`).
* Listings and `GetAttachment`: single reads of rows `MailStore` already has.
* SQLite, go-smtp, the relay, Cloudflare and browsers: external. SQLite is taken
  at its word (atomic statements and transactions, one writer, committed reads);
  the relay and go-smtp are modelled by what they do to the code.
* Durability below the database: a committed transaction survives a crash.
* `cfsetup/doctor.go` reports and changes nothing; `api/embed.go` embeds files;
  `ai/provider.go` is an interface with no implementation.
* `cli/service.go` writes unit files; the upgrade of databases of old versions.
* Of the web page: the browser's back and forward in `WebShell` (`WebMail` has
  them as `Navigate`), the sandboxed frame that renders a message, copying to the
  clipboard, asking for a verification mail (`requestVerify`, which changes nothing
  the page keeps), the widgets under `components/ui`, and what nothing uses
  (`register`, pins, recent inboxes).
* The parts marked "planned" in section 1.

## 8. Plan

In this order; what is done is in sections 2 to 6.

1. `RateLimiter`: the bucket of `api/ratelimit.go` with its refill, cap and
   eviction; a proof that no window admits more than burst plus rate.
2. `AddressRegistry`: reserve, update, release and mint over the registry's
   statements; request and confirm of verifications; composed with the forward
   jobs to ask whether anything reaches a destination that never confirmed.
   Abstract specification: one owner per address at a time.
3. `Identity`: setup, registration, keys and the principal a request runs as;
   the scope checks of the handlers that read and delete. Two setups at once.
4. `Tui`: answers that arrive late, and what the user then sees.
5. `UpSupervisor` and the shutdown of `serve()`: children, signals, contexts.
6. `CfSetup`: resumable steps against remote state; reset after a partial setup.
7. `Extract`: the pure part, against a reference definition.
8. A composition of `Ingest`, `ForwardQueue` and `MailStore`: from an accepted
    mail to the relay, with deletes and sweeps in between.
