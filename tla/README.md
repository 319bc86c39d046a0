# nexguard in TLA+

nexguard is two Go programs. **avtool** is a command-line antivirus for one
user: it matches files against a table of SHA-256 digests (`scan`, `watch`),
asks the user what to do with a match (`scan`, `review`), keeps a quarantine
(`quarantine restore|purge`) and fetches the digests (`sync`, `hashes`).
**avtool-web** sells it: accounts, Stripe checkout, a webhook that issues and
revokes licenses, and an API that validates them.

Neither program uses a transaction or a lock between processes. Everything
that can go wrong happens between two statements: of two commands on one
database, of two webhook requests, of a command and another program that
writes the same file, or of a statement and a kill. That is what the modules
model and the properties are about.

## 1. The parts, their state and how they interact

| component | state | operations | module |
|---|---|---|---|
| Quarantine store (`internal/quarantine`) | rows of `quarantine_records`; bodies `<id>_<hash>` in the quarantine directory | Quarantine, Restore, Purge, moveFile, List | `Quarantine` |
| Prompt (`internal/prompt`) | none: match in, answer out | quarantine, delete, ignore, report | `Quarantine`, `Detections` |
| Watcher (`internal/watcher`) | kernel queue, map of debounce timers, `fire`, `stop` | the select loop | `Watcher` |
| `watch` command | counters, heartbeat | onFile: ScanFile, Enqueue, Notify | `Watcher`, `Detections`, `Pipeline` |
| Detections queue (`internal/detections`) | rows of `detections` | Enqueue, ListPending, Resolve | `Detections` |
| `review` command | the rows it listed and where it is | re-verify, prompt, resolve | `Detections` |
| `scan` command, scanner | paths walked, matches found | ScanPath, prompt each match | `Detections` |
| Hash database (`internal/hashdb`), `hashes` | rows of `hash_entries` | Add, Remove, Upsert, Lookup, List | `HashDb` |
| Feed and `sync` | the parsed batch and the position in it | Fetch, Parse, Upsert | `HashDb` |
| Checkout (`handlers/checkout.go`, `billing/checkout.go`) | `users.stripe_customer_id`; Stripe's customers | CheckoutRedirect | `Billing` |
| Webhook (`billing/webhook.go`) | rows of `subscriptions` | upsert, cancel | `Billing` |
| Licenses (`internal/web/license`) | rows of `licenses` | Generate, RevokeAllForUser, Validate | `Billing` |
| Rate limiter (`web/ratelimit`) | a list of timestamps per key, under one mutex | Middleware, ClientIP, Allow | `RateLimit` |
| Accounts and sessions (`web/auth`, signup, login, logout) | rows of `users`, `sessions` | signup, login, logout, expiry | `Accounts` |
| Web server (`cmd/avtool-web`) | the listener's goroutine, the error and the stop channel, the connections | serveGraceful | `Serve` |
| Consent and phone (`handlers/consent.go`) | none | normalizePhone, checked | `Accounts` (as `Form` and `Consent`) |
| License API, dashboard, pages, notifier, report log, configuration, stores | none of their own | reads, or one write nobody reads back | not modelled |

How they meet:

* `watch` calls the handler on the loop's own goroutine, so a long scan lets
  kernel events and expired timers pile up (`Watcher`). The handler queues
  rows that `review`, another process, lists and resolves while `watch` adds
  more (`Detections`); what an answer removes is an event for `watch` again.
  `Pipeline` composes the two, from the write to the user's decision.
* `scan` and `review` share the prompt; its answers end in `Quarantine` or
  `os.Remove`, on whatever the path names when the answer comes
  (`Quarantine`, `Detections`).
* `sync` and `hashes` write the table that `scan`, `watch` and `review` look
  digests up in. The models of those take the table as fixed (`Bad`).
* Checkout writes the customer that the webhook later looks the user up by;
  between them lie Stripe's page and Stripe's delivery (`Billing`).
* The limiter sits in front of the login form and of the validation of
  licenses and shares nothing with them.
* `serveGraceful` ends the server under all of them (`Serve`): a request that
  it cuts after its ten seconds is the action `Fail` of `Billing` and of
  `Accounts`.
* Checkout, the dashboard and logout run behind `RequireAuth`. `Accounts` shows
  whose request they get; `Billing` starts from a user who is known.

What is hard, and the property that covers it, is listed line by line under
`hazards` in `PROJECT.json`. In short: a kill or an error between two steps
that belong together; SELECT-then-write by two processes; a file replaced
between match and answer; `Stop` losing against a timer that has expired;
events repeated, late and out of order; a clock read before a mutex.

What makes each part correct:

* **Quarantine**: no content is lost but by consent; every body can be reached
  by its row; no body is moved over another; a restored record has no body; a
  record is filled once, restored only after its file has left, and never
  returns.
* **Watcher**: every write leads to a scan; Ctrl+C ends the loop.
* **Detections**: a queued bad file keeps a pending row until somebody decides
  about it; an answer is replaced only by a review that had listed its row
  before; a row that fails holds up no other.
* **watch with review**: between a write and the decision, a bad file is
  forgotten only in the ways that the code prints, or because Ctrl+C came first.
* **HashDb**: the user's entries survive every sync that did not look at their
  digest just before they were added; a sync that reports success stored
  everything else; one entry per digest; what `hashes rm` removes returns only
  from a feed or by `hashes add`.
* **Billing**: no license without a paid subscription; who has paid gets one; a
  user has no more licenses than there are webhook requests at once, and loses
  fewer customers than there are checkouts at once; a license is taken only
  when a subscription of the user has ended; every event is answered.
* **Serve**: no request is cut unless the error says so; a failed listener is
  not taken for an orderly end; a signal ends the server.
* **RateLimit**: no client exceeds the limit; none is refused for another's
  calls; none makes up keys.
* **Accounts**: a request is served as the account whose password its browser
  has; a deleted session is over; a session lasts its TTL, less its last second
  at most; no consent without a number.

## 2. Modules

Each component module declares CONSTANTS with a named assumption, VARIABLES, a
type invariant, `Init`, one action per statement, system call or handler that
can be separated from the next, `Next`, `Spec` (and `FairSpec` where there is
liveness) and its properties. `MC<module>` adds the symmetry set for TLC;
`<module>Proofs` holds the theorems. Operators named `X_Something` next to an
operator `X` are mutants: the same operator with a plausible bug, which the
property they are listed with must catch.

**Quarantine.** A file is a directory entry (`at`) that leads to an inode
(`data`, `exec`), because `moveFile` keeps files open while other processes
rename and remove them. `rec` and `nextId` are the table with its
AUTOINCREMENT, `op` is what each process is doing and what it has read.
`InsertRow`, then `Rename` or `OpenSrc`/`CreateDst`/`CopyData`/`UnlinkSrc`,
then `Chmod` are Quarantine; `SelectRestore`, the same moves and
`MarkRestored` are Restore; `SelectPurge`/`RemoveBody`/`DeleteRow` are Purge.
`Abort` is every error return and every kill. Other programs replace a file
by a new inode (as editors and installers do), not in place. A directory
entry is durable at once: neither the code nor the model has an fsync. The
type invariant has two parts: `Types`, and `MatchedIsBad`, that every row and
every command is about a digest that the hash database had when it was matched.

**Lifecycle** is what the store promises of each record, without names, inodes
and system calls: unused, coming, held, left, restored, purged, and the two
phases that a purge beside a quarantine leads to (`doomed`, `orphan`).
`Quarantine` maps to it by `Phase`, which looks at the row, at the body of its
name and at whether a quarantine can still move one in; `RecordsLive` is
`Lifecycle!Spec` under that mapping.

**Watcher.** `events` is the kernel's queue, which drops (`dropped`) and
raises an error when it is full; `timer` are the AfterFunc timers, armed or
firing (expired, goroutine blocked on `fire`); `pending` is the loop's map;
`loop` is in the select or in the handler for a path. `Stopped` is `t.Stop()`:
in vain for a timer that is firing. Timers that nothing refers to are reused,
which stands for allocation and collection. `unseen` is history: the files
written since a scan read them.

**Detections.** `rows` is the table in id order (ids and `detected_at` grow
together, one `watch` inserts). `review` keeps the rows listed at the start
(`todo`) and works through them in order; `scan` collects all matches and then
asks. `Act` is what an answer does to the file: in the detail `Quarantine`
has, it is one step here, or a failure that may have moved the file
(`ActFails`). `fresh` and `fate` are history: whose match is of the file there
now, and what became of that file.

**Pipeline** extends `Detections` with an instance of `Watcher`. `WriteFile` is
a step of both: an event for the loop, new content for the queue. `Scan` and
`Report` are the handler, where the two meet: the match goes to the queue, a
file that cannot be read or a failed INSERT is printed and forgotten
(`missed`, history). A file that an answer takes away is an event (`Announce`).
Every step is written as one of `Watcher`, one of `Detections`, or both, so
that the invariants of the two carry over.

**HashDb.** `db` maps every spelling of a digest to an entry; the code
normalizes before it writes or looks up. `SelectSource` and `InsertEntry` are
the two statements of `Upsert`. A feed is a sequence of rows; the CSV syntax
is left out, the lower-casing and trimming of `Parse` is not. `hashes add` and
`hashes rm` run at any moment of a sync. `user` is history: what the user last
did to a digest, and whether a sync was between its SELECT and its INSERT of
that digest (`Contested`) when the user added it.

**Billing.** `customer`, `subs` and `licenses` are the database, `tab` the
checkout requests and Stripe's page, `handler` the webhook requests with one
step per statement, `account`, `log` and `due` are Stripe: whom a customer was
created for, the states of each subscription, the events not yet answered with
200. A checkout looks for an active subscription (`OpenCheckout`), reads the
customer, creates one if there is none (`NewCustomer`), makes the page
(`NewSession`) and saves the customer (`SaveCustomer`); it may end between any
two (`LeaveCheckout`). `Fail` is any statement of a webhook request that
fails, a timeout or the end of the server, `EndFailed` what Stripe sees of it;
also the 200 after the last statement may be lost (`OK`). Signature and payload checks come before any state is read and are left
out; `payment_failed` is only logged; a subscription event without items is
answered 500, which `Fail` covers. Keys of licenses are random 64-bit values
and taken as distinct, so that a count per user is enough.

**Entitlement** is what the user is promised: a license comes only after a
payment and goes only after a subscription has ended. `Billing` maps to it by
what Stripe's log says of the user (`paid`, `ended`) and by the license rows
(`licensed`); `Entitled` is `Entitlement!Spec` under that mapping. It holds in
any order of deliveries, which is the strongest promise that does.

**RateLimit.** `caller` has read the clock (`stamp`) and waits for the mutex;
`attempts` is the map's lists, as sets of the calls they stamp; `keys` is what
the map holds. `ClientIP` takes the last entry of X-Forwarded-For, the one
Apache appends, or the address of the connection when there is no header. `MaxDelay` bounds the wait for the mutex; the code has no such
bound, the scheduler does, and properties are stated relative to it.

**Accounts.** `users`, `sessions` are the tables, `cookie` what each browser
keeps, `req` the requests in flight with one step per statement and one for
the answer; `CreateSession` of the code is two, the clock (`ReadClock`) and the
INSERT. A browser may have several requests in flight, and takes their
answers in any order. A password stands for the browser whose user knows it;
an email is a key of `users` as the database compares it, so its collation
is in the constant; a token is drawn once and stands for its hash. The clock
ticks in parts of a second (`Second` ticks), because `expires_at` is cut off to
whole seconds and the clock it is compared with is not. `Fail` is a statement
that fails, an answer that is lost and the end of the server, at every step.
`OptionalAuth` differs only in what the page shows, and is left out. `issued`
and `ended` are history, and so is the field `late` of a request: its
token was one whose session a logout had deleted when the request came in.

**Serve.** `main` is `serveGraceful`, `listener` the goroutine of
`ListenAndServe` with its looks at `inShutdown` (before the bind, at the
registration of the listener and when Accept fails), `errCh` and `stop` are the
two channels of capacity one, `deadline` is the context of Shutdown and `conn`
the states of the connections. `Poll` is Shutdown's loop, which waits for the
accept loop, closes idle connections and those that have sent nothing for five
seconds, and ends when no other is left. net/http is modelled from its use.
When `serveGraceful` returns, main returns and the process is gone.

## 3. Runs

| run | instance | what it shows |
|---|---|---|
| `quarantine_single` | 1 process, 2 paths (one on another device, one edited by others), 2 contents, 2 rows | `TypeOK`, `NoOrphanBody`, `LossOnlyByConsent`: with kills and errors at every step, nothing is lost and no body is without its row |
| `quarantine_shared` | 2 processes, 2 paths, 2 rows, 1 content | `RestoredBodyGone`, `DestinationFree`, `StoreInv` (the inductive invariant), `RecordsLive`: two commands at once keep the life of every record |
| `quarantine_toctou` | 1 process, 1 path | violation of `ActsOnMatchedContent` (section 6) |
| `watcher_live` | 2 paths, 2 timers, queue of 2 | `PendingIsLive`, `NoLostWrite`, `SettledIsScanned`, `StopReturns` |
| `billing_ordered` | 2 handlers, 1 tab, 2 subscriptions, 3 states each, deliveries of one subscription in order | `LicenseBacked`, `LicensesPerHandler`, `SettledAgrees`, `Entitled` |
| `billing_live` | 1 handler, 2 tabs, 2 customers of our own, 1 subscription of 2 states, deliveries in any order, repeated | `FewLost`, `RowRulesLicense`, `AllAnswered`, `PaidGetsLicense` |
| `hashdb_sync` | 2 digests in 2 spellings, 2 names, feeds of up to 3 rows, commands beside the sync | `ManualSurvives`, `RemovedIsGone`, `SyncCovers`, `OneEntryPerDigest` |
| `accounts_race` | 2 browsers, 1 email, 2 tokens, 2 requests at once, a TTL of 1 second of 2 ticks, 4 ticks | `TypeOK` (with the rule of consent), `ServedToOwner`, `LoggedOutIsOut`, `LastsItsTTL` |
| `limit_window` | 2 clients, 2 requests at once, limit 2, window 3, delay 1 | `Throttled`, `LimitInv`, `KeysAreCallers`, `DeniedForOwnCalls` |
| `review_live` | 2 reviews, 1 scan and the watcher, 1 file, 2 rows | `NoThreatForgotten`, `ResolutionIsFinal`, `OneFailureBlocksNoOther` |
| `serve_stop` | 3 connections, any number of signals | `NilMeansClean`, `ListenErrorSurfaces`, `ServerEnds` |
| `pipeline` | 1 file, 2 timers, queue of 1, 2 bad contents and a good one, 1 review, 1 scan, 2 rows, 2 writes | `NothingSlips`, `ThreatIsDecided` |

**Bounds.** Every bound is a constant with `Max` or `Size` in its name, or the
size of a set. Why they are enough:

* `MaxId` and `MaxRow` 2: two records are needed for one to be in the way of
  another (same digest, same path); the invariants speak of pairs. For
  `Quarantine` and `Detections` the proofs remove the bound.
* `Inode` is two more than the paths: one inode for the body being copied and
  one for a file written meanwhile. An inode nothing refers to is free again.
* `Timer` 2 and 2 files: both timers on one file gives the race of Stop and
  expiry, one each gives competition for the loop; the proofs cover any number.
* Two rows and two reviews in `review_live`: the row that always fails and the
  one it must not hold up, an answer and a second review that comes after it.
  Both rows are about the one file; `pipeline` is about one file too, and the
  proofs cover any number.
* Two checkouts in `billing_live`: the second overwrites the customer of the
  first. Two handlers in `billing_ordered`: both count before either inserts.
  The proofs are for any number of both, but for `RowRulesLicense`, which needs
  one handler.
* `MaxVersion` 3 in `billing_ordered`: active, past due, canceled, or active and
  canceled with a late update between them. In `billing_live` it is 2: an
  incomplete subscription that becomes active later, or an active one that is
  canceled, and each delivered late and again.
* `FeedSize` 3: a digest repeated with another between, or a manual entry in
  the middle of the feed.
* One email and two browsers in `accounts_race`: both want the account, one
  gets it. Two tokens: a login while a session lives. The proofs remove the
  bounds.
* `MaxTime`, `MaxCalls`: more than one whole window and twice the
  limit; in `Accounts` a session is created at an odd tick, expires and is used
  after that.
* Three connections in `serve_stop`: one that hangs, one that is idle and one
  that is accepted while the signal arrives.
* `MaxWrite` 2 in `pipeline`: the second write can fall before, into and after
  the handling of the first, and a queue of one overflows with it.

`CHECK_DEADLOCK FALSE` is set where the instance really can stop: bodies and
rows run out (`Quarantine`: a process with a prompt still has `Abort`, but when
all paths are gone and all ids used nothing can start), Stripe's history is at
its bound (`Billing`), the clock is (`RateLimit`), the writes are and Ctrl+C
has ended the loop (`Pipeline`), the process has ended (`Serve`). `Watcher`,
`HashDb`, `Detections` and `Accounts` are checked for deadlock.

## 4. Fairness

* **Watcher.** Timers expire and the handler returns (weak fairness). Go's
  `select` picks uniformly among ready cases, so a case ready again and again
  is taken with probability one: strong fairness of each case. No fairness of
  writes, of Ctrl+C or of the kernel.
* **Billing.** Stripe retries an event that has not been answered with 2xx:
  strong fairness of the delivery of each due event. (Stripe gives up after
  three days; the model does not, and `FailuresEnd` asks that failures are
  over before.) A request that does not fail runs to its end. Liveness is
  stated under `FailuresEnd`: no failure of a due event from some time on.
  `PaidGetsLicense` excepts the user who has lost a customer to another
  checkout: there the webhook takes the event for another product's.
* **Detections.** The user runs `review` again while rows are pending and
  answers the prompts: weak fairness of each review. Which answer is open, and
  any prompt may fail again and again: `OneFailureBlocksNoOther` speaks of the
  other rows.
* **Pipeline.** The fairness of `Watcher`, lifted to the composition
  (`Lifted`), and of each review. `ThreatIsDecided` asks in its premise that
  from some time on the file is not written again, no review is broken off and
  no prompt fails: none of these is the code's to give. It excepts what is
  printed and forgotten, and Ctrl+C.
* **Serve.** The two goroutines run and the deadline of Shutdown passes (weak
  fairness). Clients owe nothing, and a handler may hang for ever. Accept
  fails once Shutdown has closed the listener.

## 5. Proofs

`tlapm` proves the following for every value of the constants (numbers of
processes, files, rows, feeds, requests), from the named assumptions of the
modules only, and from the assumption in the theorem's statement where there is
one.

* **QuarantineProofs**: `StoreSafe` (`Spec => []StoreInv`), and from it
  `TypeCorrect`, `RestoredHasNoBody`, `BodiesNeverCollide`. `RestoredBodyGone`
  alone is not inductive: a quarantine could move a body in under a restored
  id. It takes that ids are not reused (`IdsFresh`), that one id means one
  digest in every row and every command (`HashAgrees`), that a single process
  moves a body in under an id (`OneMover`), that until it has nobody restored
  that id (`NotYetMovedIn`), and that a restore about to mark its row has
  left no body (`MovedOut`). `OpShape` says what a process has read at each of
  its steps. `AloneNoOrphan` adds `RowOutlivesBody` and assumes one process:
  with two, `NoOrphanBody` is false (section 6).

  `StoreImplementsLifecycle` (`RecordsLive`) is the refinement, for any number
  of processes. Every step is shown to change the phase of one record at most
  (`PhaseFrame`), along one of the edges of `Lifecycle` (`Edges`, `Lives`). It
  needs `BodiesAgree` beside `StoreInv`: a body bears the digest of its row.

  `LossNeedsConsent` (`LossOnlyByConsent`) assumes one process and that other
  programs edit only files that a rename can move: an edit in the middle of a
  copy across devices goes with the source that is unlinked. Its invariant,
  `Kept`, says that an inode has one name and that a copy about to be
  completed (`Half`) still has its source.
* **WatcherProofs**: `WatchSafe` (`NoLostWrite`), `WatchMapSafe`
  (`PendingIsLive`), `WatchTypeCorrect`. Types, map and coverage are inductive
  together (`WatchInv`): that Stop disarms only a timer of the path for which a
  new one is armed needs `PendingIsLive`, and every step out of the queue or a
  timer hands the file on to the next stage.
* **PipelineProofs** holds the proofs about `Detections` and about `Pipeline`,
  which extends it. `ThreatsStayQueued` (`NoThreatForgotten`), for any number
  of reviews and scans. The property is strengthened (`QueueInv`): a queued bad
  file has a pending row that no review is about to resolve, and a review that
  prompts for it has matched the very file that is there (`Safe`); and a match
  of the handler that is still fresh is about to be inserted. `AnswersStand`
  (`ResolutionIsFinal`) is for any number of reviews too: that no review comes
  to hold an answered row is `ListPending`, which lists rows without an answer
  only; that a review which writes a row lets go of it is the loop of review
  (`NextRow`), which never goes back.

  `NoThreatSlips` (`NothingSlips`) is not inductive by itself: it does not say why an event, a
  timer or a row stays, nor of which file the handler's match is. It follows
  from three invariants together: `WatchInv` (a file written and not
  scanned since has an event, a timer or the loop), `QueueInv` (a file queued
  has its row, and a fresh match of the handler is about to be inserted), and
  `TraceInv`: a bad file is unscanned, waits for its INSERT, has a fate or has
  been given up. The steps of `WatcherProofs` are repeated there for the
  instance `W`, since the prover does not use theorems of an instance.
* **HashDbProofs**: every theorem is for commands at any moment of a sync.
  `AddIsFinal` (`ManualSurvives`): the digest that a sync is about to write over
  was seen not to be manual, so that an addition since then is contested
  (`SyncInv`). `OneSpelling` (`OneEntryPerDigest`) and
  `RemovedReturnsByFeedOnly` (`RemovedIsGone`) hold with any number of syncs:
  every key of the table is canonical (`Keyed`).
  `SyncStoresAll` (`SyncCovers`) assumes one sync, and TLC refutes it with two:
  an entry that a sync has stored can be renamed by the second before the first
  reports. `CoverInv` says it of every row the loop has passed,
  in the spelling that Parse gave it: a later row may overwrite the entry,
  but then under its own name, and what the user adds or removes is the user's.
* **BillingProofs**: `OwnInv` relates the customers, the checkouts, Stripe's log,
  the rows and what each handler has read: everything that names a user names
  the one for whom the customer was created. From it `LicensesAreBacked`
  (`LicenseBacked`), and `BillingEntitles` (`Entitled`): `StepRefines` shows that
  every step is one of `Entitlement` or a stutter, for any order of deliveries.

  `NeverMoreThanHandlers` (`LicensesPerHandler`) counts the requests that have
  found no license and are about to insert one together with the licenses
  (`Room`): a request joins them only while there is no license.
  `CheckoutsLoseFew` (`FewLost`): only a checkout that has read that there is no
  customer brings another one, and none begins to once there is one; so the
  customers overwritten and the checkouts about to overwrite are together
  fewer than the tabs (`LossRight`). It needs that a new customer is in one tab
  only until it is saved (`TabFresh`).

  `OnlyRowRules` (`RowRulesLicense`) is for deliveries in any order, late and
  repeated, any number of checkouts, and one handler. Row and license may
  differ while an event is at hand that will make them agree, due or in a
  request (`RowRule`), and the request that has written the row finds it so
  when it comes to the license (`RowStands`). A lost customer stays lost, so
  that the event at hand finds the user it is for. With a second handler TLC
  refutes it.

  `InOrderAgrees` (`SettledAgrees`) is for deliveries in order and any number of
  handlers and checkouts. `OrderInv` says that the last event is
  due with any other, that a request holds the first due event of its
  subscription to itself, and that the row of a customer who is not lost is
  behind Stripe only while the last event is due (`RowCurrent`). `LicenseInv`
  says that a license has a row whose subscription
  is not over (`EndsRight`), that an active subscription brings one unless a
  cancellation has taken it (`GetsRight`), and that each license, and each that a
  request is about to generate, has a row of its own (`CountRight`): the
  bound by the number of subscriptions is not inductive without counting the
  requests. Of a user who has lost a customer to a second checkout it is
  false: the next event of the first is answered without a look at its row.
* **RateLimitProofs**: `NobodyExceedsTheLimit` (`Throttled`) and
  `ListIsTheWindow` (`LimitInv`): a stamp is at most `MaxDelay` old when the
  mutex is taken, hence a call younger than `Window - MaxDelay` is still in the
  list, and the list never has more than `Max`. `RefusedForOwnCalls`
  (`DeniedForOwnCalls`) adds that the list of a client holds calls of that
  client (`OwnCalls`), which rests on the entry that `ClientIP` takes.
  `NoKeyIsMadeUp` (`KeysAreCallers`) rests on the same entry.
* **AccountsProofs**: `SessionsSafe` (`SessionInv`), and from it
  `SessionsAreOwned` (`ServedToOwner`) and `LogoutIsFinal` (`LoggedOutIsOut`).
  That a page is served to the owner needs that every browser that knows a
  token owns the account of its session (`Holder`), which a step keeps because
  a token is known to nobody before it is drawn and an account never changes
  hands (`Grows`), and that each request in flight holds what its step needs
  (`Right`). `SessionsLast` (`LastsItsTTL`) adds that every expiry, in the row
  and in a request that has read it, is that of the moment the token was drawn
  (`Dated`), and that less than a second is cut off (`CutBelowSecond`).
* **ServeProofs**: `ServeEndsClean` (`NilMeansClean`), `ServeReportsFailure`
  (`ListenErrorSurfaces`), `ServeTypeCorrect`, from `EndInv`: an error waits in
  the channel until it is read, the channel is closed without one only after
  Shutdown, and when Shutdown has succeeded no connection is left.

The type invariants of `Watcher`, `Billing`, `Detections` and `Serve` are theorems
and part of the inductive invariants; no run repeats them.

Only model-checked: liveness (`SettledIsScanned`, `StopReturns`,
`AllAnswered`, `PaidGetsLicense`, `OneFailureBlocksNoOther`, `ServerEnds`,
`ThreatIsDecided`), which the prover does not do. Every safety property of the
passing runs is a theorem.

## 6. Where the code and what is written about it differ

The run `quarantine_toctou` has its finding in `PROJECT.json`: `review`
re-verifies a file before the prompt, and acts on the path after it. A file
replaced in between is deleted or quarantined unseen, against "Never act on a
Match whose hash doesn't match what's on disk right now" (`review.go:54`).

The modules state further sentences of the documents, or properties one would
expect, that TLC refutes; they have no run of their own. To see one, put the
formula in place of the properties of the configuration named:

| formula | configuration | what happens |
|---|---|---|
| `CanceledHasNoLicense` | `billing_live`, `SPECIFICATION Spec` | an "active" update that arrives late or again after `subscription.deleted` makes the row active and issues a new license, which nothing revokes |
| `RowTellsStatus` | `quarantine_toctou` | a failed or killed quarantine leaves a row for a file that never came |
| `QuarantinedNotExecutable` | `quarantine_toctou` | a kill between rename and chmod leaves an executable body |
| `RestoreReproduces` (PROPERTY) | `quarantine_toctou`, `Renamable = {}` | a restore of a half-copied body reports success |
| `NoOrphanBody` | `quarantine_shared` | a purge beside a quarantine deletes the row of a body that arrives later |
| `HandsOverSettled` | `watcher_live`, `SPECIFICATION Spec` | a timer that expired before Stop hands over a file still being written |
| `ActiveHasLicense` | `billing_ordered` | a user cancels one of two subscriptions: all licenses are revoked, and the active one brings no new license until its next event |
| `OneLicense` | `billing_ordered` | two deliveries at once both count no license |
| `PaidIsMapped` | `billing_live`, `SPECIFICATION Spec` | the second checkout overwrites the customer the user pays with |
| `LicenseImpliesActive` | `billing_ordered` | past due keeps the license while no row is active (`api.go:35`) |
| `AdditionSurvives` | `hashdb_sync` | `hashes add` between SELECT and INSERT is overwritten |
| `RemovedStaysRemoved` | `hashdb_sync` | an entry removed by hand is back after the next sync (the design document, line 61) |
| `AtMostMax` | `limit_window` | a request recorded with its old stamp: Max+1 calls in one window (`ratelimit.go:12`) |
| `MemoryBounded` | `limit_window` | keys are never removed from the map (`ratelimit.go:34`) |
| `AnswerNeverReplaced` (PROPERTY) | `review_live`, `SPECIFICATION Spec` | a second review that listed the row before the answer finds the file gone and writes "skipped-stale" over it |
| `QuarantineResolvesRow` (PROPERTY) | `review_live`, `SPECIFICATION Spec` | a file quarantined by `scan` stays a pending detection |

What holds instead, and is checked: an orphan body comes only from a purge
beside the move (`RecordsLive`: the phase `orphan` is reached from `doomed` or by
deleting the row of a file that is held), a license follows the last active or
deleted event (`RowRulesLicense`) and goes only with an ended subscription
(`Entitled`), a race of deliveries brings as many licenses as there are
requests at most (`LicensesPerHandler`), a race of checkouts loses fewer
customers than there are checkouts (`FewLost`), an addition is lost only in
the gap between SELECT and INSERT (`ManualSurvives`), an answer is replaced
only by a review begun before it (`ResolutionIsFinal`), a removed digest returns only from a feed or by hand
(`RemovedIsGone`), the limit holds in the window less `MaxDelay` (`Throttled`).

## 7. Not modelled

* The license API and the dashboard read what `Billing` models and write
  nothing. `Validate` and `Revoke` of the license package likewise: the one only
  reads, the other has no caller.
* The public pages (landing, articles, alternatives, sitemap) are fixed text.
* The notifier and the report log are one write that nobody reads back.
* Configuration and stores are read and opened once at the start; the root
  command of the CLI opens the database before a command and closes it after.
  The schemas are mapped from the modules whose tables they declare.
* The heartbeat and the counters of `watch` only print; `validateWatchPaths`
  runs before the loop starts.
* Symbolic links and the size cap of the scanner, and SHA-256 itself: a content
  stands for its digest, and a file matches or does not.
* The table of routes of avtool-web, the signature check of the webhook and the
  parsing of its payload, which come before any state is read; the syntax of
  the CSV feed and of phone numbers (`normalizePhone` is "a number or none").

Left for later: `Access`, an abstract specification of who is logged in as
whom, which `Accounts` implements.
