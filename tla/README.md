# Statusnook in TLA+

Statusnook is a status page with its own uptime monitors: one Go process, one
SQLite database, three background loops and an HTTP server. The modules here
model the parts in which the order of events decides what somebody is told, let
in or left with: the monitor scheduler, the alert notification queue, the
alerts and their severity, the email subscriptions; accounts, sessions and
invitations; the first installation and the domain; the configuration file and
its webhook. TLC checks them on small instances, and TLAPS proves their
invariants for any values of the constants.

    tlc -config MonitorSafety.cfg MCMonitorScheduler     # a run
    tlapm MonitorSchedulerProofs.tla                     # the proofs of a module

`PROJECT.json` lists the runs, the lines each definition stands for, the
mutants each property is tried against, the hazards and the findings.

## The system

**Storage.** `db` is a pool of read connections; `rwDB` has exactly one
connection and begins IMMEDIATE (main.go 47-48, db.go 84-91). A write
transaction that does no other I/O is therefore one atomic step, and so is a
read transaction. Foreign keys are on, and deletions cascade. Every table has an
`integer primary key` without `autoincrement`: SQLite gives a new row one more
than the largest rowid, so the id of a deleted newest row is used again.

| Component | State | Operations | Talks to |
| --- | --- | --- | --- |
| Monitor scheduler (monitors2.go 18-378) | `checkout`, `lastChecked`, goroutines, `appWg` | a pass every 500 ms; one goroutine per due monitor | monitor tables, targets, mail and Slack |
| Monitor handlers (monitors4/5.go) | monitor, its channels and mail groups | create, edit, delete | the scheduler, through the tables |
| Notification loop (notifications.go 48-349) | `alert_notification`, one pass's batch | a pass every 10 s: list, deliver, stamp | alert tables, mail and Slack |
| Alerts (alerts3/4.go) | alert, messages, `alert_service`, severity | create, edit, resolve, reopen, delete, add message | the queue (posting inserts notifications) |
| Services (services.go) | service | create, edit, delete | `alert_service` cascades |
| Index page and banner (app.go 45-313) | none | read | alerts, severity |
| Subscriptions (notifications2.go) | `alert_subscription`, pending links, `supressionSyncMu`, `lastSuppressionSync` | subscribe, confirm, unsubscribe, resubscribe, suppression sync | Postmark, mail; the queue reads subscriptions |
| Slack install (users.go 82-179) | `alert_subscription` | OAuth callback | Slack, while holding `rwDB` |
| Retention (retention.go) | none | prune five tables in batches | all of the above |
| Process (main.go) | context, WaitGroup | start, cancel, wait, close | all loops |
| Channels and mail groups (notifications3/4.go) | tables | create, edit, delete | monitors, alert channel setting |
| Authentication (users*.go, loginlimit.go) | users, sessions, invitations, cross-domain tokens, failure counts | login, logout, invite, redeem, edit, delete | router |
| Setup wizard, router gates (setup.go, router.go) | metadata in memory and in the database | stages of the first installation | everything |
| Domain confirmation (monitors2.go 380-480, app3.go) | unconfirmed domain and its problem | loop, settings, cancel | DNS, ACME |
| Configuration as code (config*.go, configapply*.go) | the whole configuration | apply a file, webhook, secrets | every table |
| Database start-up (db.go) | schema, migrations, slugs | initialise, migrate | |
| Rendering, validation, self-update, certificates | none of their own | | |

**What is hard here.** Passes and goroutines that act on what they read some
transactions ago; rowids that are used again in between; errors in the middle
of a sequence of transactions; deliveries that cannot be made atomic with the
record of them; kills and restarts; a mutex released by hand on each of eleven
error returns; external calls with no deadline, one of them made while holding
the only write connection.

**What makes each component correct.**

- Scheduler: one check of a monitor at a time; no monitor dropped for ever; the
  stored row is consistent and an alert is about the newest one; the shutdown
  neither races the checks nor hangs.
- Queue: nothing lost, duplicates only where the record of a delivery is lost,
  order kept for each receiver, bad receivers do not starve good ones.
- Alerts: the stored severity is that of the worst ongoing alert; no reference
  outlives its row; the page shows what the alerts say.
- Subscriptions: only the owner of an address subscribes it, and stays
  subscribed; links are rate limited; every request is answered.
- Authentication: a session, an invitation and a token grant what they should,
  to whom they should, once, and no longer than they should; the limiter limits.
- Wizard and domain: the wizard ends with an account; memory and database agree;
  what goes live was proved.
- Configuration: an accepted file is in force and keeps the rows it names; a
  rejected one changes nothing; applying the file generated from the tables changes
  nothing; after any pushes the tables hold what the recorded commit declares.

## Modules

| Module | What it is |
| --- | --- |
| `MonitorScheduler` | the pass, check goroutines, handlers beside them, retention, shutdown, restart |
| `NotificationQueue` | posting, one pass of the loop, cascades, pruning, restart |
| `AlertBoard` | alerts, affected services, stored severity, the index page's computation |
| `Outbox` | abstract: what the queue promises, without tables, rowids and passes |
| `Subscriptions` | subscribe, suppression sync, confirm, unsubscribe, Slack callback |
| `Auth` | login and its limiter, sessions, invitations, account changes, cross-domain tokens |
| `Installation` | the setup wizard, the domain settings, the loop that waits for a domain |
| `ConfigApply` | the configuration file as a function on tables, and the forms beside it |
| `ConfigSync` | settings, editor, webhook, the gate of the forms, and GitHub |
| `MC...` | the same for TLC: symmetry sets, the files `ConfigApply` applies |
| `...Proofs` | inductive invariants and theorems |

**MonitorScheduler.** `loop`, `todo` and `due` are where a pass is:
`ListMonitors` is `listMonitors`; for each monitor `ReadLastChecked` is the first
critical section, `SkipCheckedOut`/`StartCheck` the checkout lookup and what
follows. Each goroutine `w` steps through `pc[w]`: `Attempt` (one iteration of
the request loop, whose outcome is one of the seven ways the code
distinguishes), `WriteLog` (the write transaction), `ReadChannels` with the
transition rule, `ReadEmails`, `SendEmail`, `SendSlackOrSkip`, and the deferred
`Release` and `StampLastChecked`. `GiveUp` stands for all eleven error returns.
`SendEmail` has three outcomes, for `smtp.SendMail` may fail after the server took
the mail (the answer to DATA or QUIT is lost): heard, unheard, not delivered; after
the last two the code goes on to the next mail channel. `emails` is the history of
the mails a server took. Handlers go on while the process is stopping, as they do
when the server's own shutdown times out (main.go 193-206), and end with the
databases.
A row of the monitor table is a generation number, so that a monitor can be
told from a later one with the same rowid. Time is only "has Frequency elapsed
since lastChecked" (`fresh`). Of the log only the row that
`monitor_log_last_checked` points at is kept; no code decides on another.

**NotificationQueue.** `CreateAlert` and `AddAlertMessage` insert a row for each
active subscription (`Enqueue`). A pass lists the unsent rows, reads channel and
tokens in a second transaction, then tries each row in the order of messages:
`Accept`, `AcceptUnheard` (received, answer lost) or `Reject`, and after an
accepted one `Stamp` or `StampFails`. `Cascade` is what foreign keys do when a
message, an alert or a Slack subscription is deleted. `Restart` may come at any
point. `ImplementsOutbox` is the refinement: a row unsent is a notification
pending, `owed` what was posted and not withdrawn, the batch is what the courier
carries, `delivered` what receivers got;
`clash` (rowids used again under a running pass) becomes `doubtful`, the one way
the outbox may lose something. `Stamp` is `Confirm` there, a cascade is
`Withdraw`, and listing, channel changes and pruning stutter or set out.

**AlertBoard.** One action for each handler, each a transaction. It starts with
what schema.sql inserts: a service, and an ongoing maintenance alert for it. `Recomputed` is
the severity the four recomputing handlers store; `NewSeverity` is the loop they
compute it with, in any order of rows, and `LoopFindsWorst` relates the two.
`ServiceStatus` is the loop of the index page over `ListOngoingAlerts`.

**Subscriptions.** Every request has a program counter: the sync section under
`supressionSyncMu` (`LockSync` to `EndSync`, with one transaction for each
address of the dump), the inserting transaction, the mail; for a confirmation
the read transaction, the call to Postmark (whose status 200 may still leave the
address suppressed, `Unsuppress`), the write transaction. `rw` is the
holder of the write connection across steps, which only the Slack callback is.

**Auth.** A request is first through the limiter (`LookAtLimit`) or through the
session middleware (`Authenticate`), and acts in a later step on what it learned:
a client to count failures against, the id of whoever is logged in, the id in a
redeemed token. `rwDB` has one connection and `postLogin` keeps it during the
password comparison, so each write transaction is one step. Rows are rowids that
are used again; each holds the number of the account, so that a session can be
asked whose it was meant to be. A session also has, as history, the password its
account had when it was made (`pw`) and the one that somebody really entered for it
(`proof`): a session made from a cross-domain token inherits the latter from the
session the token was issued on. Lifetimes may end at any time.

**Installation.** `db` is the rows of `meta`, `mem` their copies. A handler
commits (`Commit`) and stores the copies in a later step (`StoreCopies`); the
loop stores under its open transaction (`BeginConfirm` to `Confirm`); its commit
may fail after that, and each of its writes between the Stores (`ConfirmFails`). It
reads the pending domain four times (monitors2.go 394, 404, 449, 450): for the
lookup (`Tick`), for the certificate (`CertificateObtained`), for the copy
(`BeginConfirm`) and for the row (`Confirm`). `postSettings` looks at the live domain
(`NoDomainYet`) before it begins the transaction that records a pending one
(`RecordPending`), which does not look again.

**ConfigApply.** A transaction is one step, so `applyConfig` is an operator: from
tables and a file to the set of tables it may end in, one for each order in which
Go may range over the maps of the file (`Renamed`, `CreateDeclared`). The stages
have the code's names. A row is its kind, id and slug; a channel also has its
type. Of the rest a row keeps what a file makes of it, one of three `Values`: most
are `plain`; a form body with a key that occurs twice is `repeated`, and a file keeps
the first value only (config.go 156-159); `refused` is what the forms, or an edit
by a file that declares another type, store and `applyConfig` does not take back:

- a webhook URL such as `/x` or `ftp://h/x`, which notifications3.go 255 and
  notifications4.go 142 take and configapply_channels.go 124-136 does not;
- the SMTP port 0 (notifications3.go 152, configapply_channels.go 194);
- a member in two forms, `a@x.com` and `<a@x.com>` (configapply_refs.go 54), or any
  members after an empty first one, which nothing looks at (notifications4.go 357);
- the slug of a name in a script without lower case, which db.go 520 generates
  (`\p{L}`) and configapply.go 20 refuses (`\p{Ll}`);
- any text like `secret_x.y`, which configapply.go 47-65 tries to decode;
- a form body that `url.ParseQuery` refuses, for which config.go 151-154 generates no
  file at all.

The forms (`CreateEntity` to `ChooseAlertChannel`) make the tables a file is applied
to, with each of these values. The name of the site and the alert settings, which
are beside the entities, are taken not to look like an encrypted secret.

**ConfigSync.** What the tables hold is only the name of a file here, `edited`
after a form, `generated` once a file is made of them. The webhook is `Deliver`
(what it reads), `Fetch`, then `Skip`, `Apply`, or `Reject` and later
`RecordRejection`, its second transaction. Whether a file is accepted is open,
because it depends on more than the file (`AcceptanceIsCertain` below). A form
is `Gate` and `Commit`; the settings page is `Settings` and `StoreSwitch`. That
an accepted file is in force is what `ConfigApply` shows, so the two compose
without sharing a variable.

The modules share no variable. What one needs of another is an environment
action there, with the whole freedom the other has: `SetAlertChannel` and
`SubscribeEmail`/`UnsubscribeEmail`/`InstallSlack` in the queue stand for
`Subscriptions` and the settings handlers.

## Runs

| Run | Instance | Shows |
| --- | --- | --- |
| `MonitorSafety` | 1 rowid, 2 monitors in turn, 2 goroutines, 1 attempt, 1 Slack channel, 1 restart | types, no overlap, no leaked checkout, current alerts, drained before close |
| `MonitorCheck` | 1 monitor, 1 goroutine, 2 attempts, 2 mail channels, all outcomes, fairness | the columns of a log row agree; a check mails again only after a mail whose answer was lost; monitors keep being checked; shutdown completes |
| `QueueDelivery` | 1 email subscription that never has to accept, 1 healthy Slack one, 1 message, 2 rowids, 1 restart, fairness | types; duplicates only after a lost record; delivery in the end |
| `QueueOrder` | 1 Slack receiver, which every type of alert channel but none serves alike, 3 messages, 3 rowids, 1 restart | nothing lost; order kept; every step is a step of `Outbox` |
| `AlertBoardSafety` | 4 alerts, 2 services, one of each from schema.sql | types, severity, the loops of index page and handlers |
| `SubscribeSafety` | 2 addresses, 2 links, 2 requests; SMTP or unmanaged Postmark, changed at any time | types, the rate limit, consent, and that the sync takes nobody else off |
| `SubscribeLiveness` | 1 address, 1 link, 2 requests, fairness | requests are answered |
| `AuthSafety` | 2 requests, 1 client, limit 2, 2 session rows, 2 rowids, 3 accounts, 2 password changes, 2 invitations, 1 cross-domain token, restarts | the limit is exceeded by the requests in flight at most; sessions, invitations and tokens let in whom they were for, once; a password change ends sessions; an account remains |
| `InstallSafety` | 2 domains, 2 browsers, 1 loop, 1 account, with and without TLS, failed commits, restarts | the wizard ends with an account; memory follows the database; the live domain was proved |
| `ConfigApplySafety` | 8 files over 4 slugs, forms for channels and monitors over 2 slugs, ids up to 2, 1 row at a time whose value is not plain | an accepted file is in force, keeps its rows, whatever the order of its maps; the generated file is rejected if a refused value is stored, and else changes nothing but form bodies with a repeated key |
| `MonitorShutdownAlert` | 1 monitor, 1 goroutine, 1 attempt, 1 mail channel | violated: a down alert means that the target failed |
| `ConfigSafety` | 3 files, 2 webhooks, 2 admin requests, 2 deliveries on their way | tables hold what file and commit declare; deliveries one at a time end with the last push |

**Why these bounds.** Overlap, stale reads and id reuse each need two actors and
one id in two hands: two goroutines, and one rowid for two monitors, are the
smallest instance in which a goroutine of a deleted monitor meets a new one. Two
attempts are the least at which one attempt's leftovers reach the next. Three
messages let one be tried, one queued and one arrive. Ordering, loss and
duplicates concern one receiver at a time, so one receiver is enough there, and
two where one must not disturb the other. Four alerts hold every combination of
the three severities with one of them twice. Deletion of each other, a login
beside a password change, two browsers in the wizard and a form beside the
switch need two requests, and rowid reuse one account more than rows; a webhook
overtaking another needs two of them and three files to tell the first, the last
and the one between apart. The eight files of `ConfigApply` are chosen: plain, a
rename of a channel in each direction, renames in a chain, renames that take
each other's place, renames that lead to one name, a link to an unknown channel,
and a type that changes. Two
rows of a kind are what a rename can collide with, and one value that is not plain is
enough for a file to be rejected or changed. Two password changes let a token be
issued before the first and used after it or after the second. Only one domain loop runs in
the instance: two of them take turns at the one write connection. An installation without
a channel differs from one with SMTP only in answering more requests with an
error, which `SyncFails` and `InsertNothing` allow anyway. The bounds that cap counters
(`MaxId`, `MaxOdd`, `MaxGen`, `MaxMsg`, `MaxPw`, `MaxAcct`, `MaxRestarts`, `Links`,
`Requests`) are in the guards; what is proved holds for every value of them.

Deadlock is checked except in the monitor runs, where a process that has closed
its databases and used up its restarts really stops.

**Fairness.** Goroutines, tickers and timers run (weak fairness); a request to a
monitored target has a client timeout. Strong fairness where a choice recurs: the
`select` that must take `ctx.Done` although a tick may be pending (at most one
is), database errors that may happen often but not every time, waiting for a Go
mutex or for `database/sql`'s connection, which serve waiters in turn, and a
healthy receiver that is tried for ever (`AcceptsWhenTried`; in which order the
rows of one message are tried is left to the adversary). That mail servers and Slack answer at
all is stated as a conjunct of its own (`MailServersAnswer`,
`SlackAlwaysAnswers`) because no deadline in the code makes it true;
`TimeoutsSpec` is the specification without the one in question. Operators,
kills, retention and requests are never obliged to happen. `wg` counts the monitor
loop and its checks only. `appWg` counts the notification loop, retention and the
domain loop, too; they leave by the same `select`, but that a pass of theirs comes to
its end is no part of `ShutdownCompletes`.

## Where the code and its comments or tests disagree

One is a run that TLC must find violated: in `MonitorShutdownAlert`,
`DownMeansTargetFailed` fails because requests aborted by the shutdown are stored
and announced as outages; `PROJECT.json` quotes the lines.

The others are stated as properties beside their model, and TLC finds each
violated with the component's cfg and this property in the place of its
properties (and, where named, another instance):

- `StampedWasDelivered` (`QueueOrder.cfg`, 2 rowids): a notification inserted under
  the rowid of a deleted one is stamped by the delivery of the deleted one, so it
  is never sent; notificationloop_test.go 84 says a failed one must stay queued;
- `SlackDeliveredEventually` (`QueueDelivery.cfg`): without an alert email channel no
  pass delivers anything, while notifications.go 63 says everything unsent is;
- `BannerFollowsWorst` (`AlertBoardSafety.cfg`): deleting the worst alert leaves the
  banner as it was (routes_admin_test.go 141);
- `RequestsAnswered` under `TimeoutsSpec`: while Slack does not answer the OAuth
  callback, which holds the write connection, every writer waits, which
  notifications2.go 229 is careful to avoid for SMTP;
- `UnprovedNeverLive`: a pending domain that is replaced between the loop's lookup and
  its certificate, or between that and the row, goes live unproved
  (settings_domain_test.go 117-118);
- `LiveDomainNotErased`: `postSettings` makes a domain live and clears the pending one
  while the loop is at its last read, and the loop writes an empty domain;
- `ProblemStops`: a cancellation does not stop a tick that is on its way
  (settings_domain_test.go 40-42);
- `StageForward`: a request let in by the gate of an earlier stage sets the stage
  back, `done` included (setup_test.go 11-13);
- `CorrectionClearsErrors`: after a bad push, reverting to the commit applied last is
  skipped as already seen, so its errors and the rejected file stay on the
  settings page (config2.go, the comment before the second transaction, says
  that a corrected push re-applies);
- `GateHolds`: a form past its gate commits after the file is switched on
  (metastate.go 19-20);
- `GeneratedIsAccepted` (`ConfigApplySafety.cfg`): a value the forms stored and
  `applyConfig` refuses makes it refuse the file generated from the tables, while
  routes_settings_test.go 233 says "A config the app itself produced has to be one the
  app accepts", and configsettings_test.go 47 the same of the snapshot taken when the
  file is switched on;
- `AcceptedLeavesAll` (`ConfigApplySafety.cfg`): a form body with a repeated key loses
  all but the first value when the generated file is applied (config.go 157);
  routes_settings_test.go 234 warns of "a round trip that drifted";
- `OldPasswordLetsNobodyIn` (`AuthSafety.cfg`): a cross-domain token issued on a session
  of the old password and redeemed after the change (users.go 428-467, where nothing
  asks for the password again) makes a session for whoever knew only the old one;
- `OneEmailPerCheck` (`MonitorCheck.cfg`): when a server takes the mail and its answer
  is lost, monitors2.go 352-354 mails the same groups through the next channel, though
  `skipEmail` is there to mail once;
- `TypesInForce`: an accepted file may declare another type for a channel;
  `editNotificationChannel` never writes the type, and the details no longer fit;
- `AlertChannelMails`: a file may make a Slack channel the alert email channel, which
  the form refuses;
- `AcceptanceIsCertain`: whether a file with chained renames is accepted depends on
  the order in which Go ranges over them;
- `ImpossibleRenamesReported`: a rename looks its source up in what the renames
  before it left, so with `a: b` and `b: c`, and no `b`, the file is accepted when Go
  comes to the first entry first (configapply_full_test.go 296-297 says that a
  source that does not exist must be reported rather than silently applied);
- `OrderNeverDecides`: with `a: c`, `c: d` and `b: c`, and no `c`, two orders are
  accepted, and they leave the rows of `a` and `b` under each other's name (the
  attempt to prove `OrderDecidesNothing` for every file found this; it is now about
  files in which no two renames lead to one name);
- `ChecksOnlyDue` (2 goroutines): `lastChecked` is read before `checkout`, so a
  check that ends between the two lookups is started again at once;
- `AttemptsAreRequests` (1 goroutine): an attempt whose body cannot be read is
  not counted in the `attempts` column;
- `RecoveryAfterOwnFailure` (2 goroutines, `MaxGen = 2`): a monitor on a reused
  rowid announces the recovery of the deleted one;
- `ShutdownCompletes` under `TimeoutsSpec` (1 mail channel): a silent mail
  server holds the shutdown for ever;
- `EmailCarriesToken` (1 email subscription): mail queued before an unsubscribe
  is sent with an empty token;
- `SyncTouchesOnlySuppressed` (unmanaged Postmark): a dump undoes a confirmation
  made after it was taken.

The properties that do hold are stated around these: `MailedAgainOnlyUnheard` lets a
check mail again after a mail whose answer was lost, `PasswordChangeEndsSessions` lets
a session made from a token after the change go back to the old password (but no
session made before it stays, from a token or not), `RoundTrip` says which generated
files are rejected and what an accepted one changes, `NothingLost` and
`DeliveredEventually` leave out notifications queued under a rowid the running
pass still holds (`clash`), `StaleOnlyAfterDelete` the time between a deletion
and the next recomputation, `ConfirmedStaysActive` what a stale dump took off
(`struck`). In the same way `LiveDomainWasProved` leaves out domains made live by
a tick whose pending domain was replaced (`slipped`), `MemoryFollowsDatabase`
writers that overtook each other between commit and Store, and failed commits of
the loop (`crossed`, until the next start), `SomebodyRemains` an account that
deletes another after being deleted itself, `SessionOpensOwnAccount` a token
redeemed after its account is gone, whose rowid may be somebody else's,
`TablesMatchFile` and `TablesMatchSHA` what slipped through the gate or a stale
switch (`drifted`) and a webhook that writes after GitHub was switched off
(`late`), and `DeliveriesConverge` deliveries that failed or met another
(`disturbed`: an older file may then overwrite a newer one).

## Proofs

For every module a conjunction `IInv` is proved inductive (`Inductive`), and the
properties follow from it; TLC checked each `IInv` on the instance of a run first. The proofs use no assumption but those the modules
name: bounds are natural numbers (`BoundsAssumption`, `DeliveriesAssumption`), the
values that stand for nothing are no names (`NamesAssumption`, `FilesAssumption`),
sets of names are disjoint, there are finitely many requests at once
(`RequestsAssumption`), files have the form YAML gives them, maps with names for
keys (`ConfigApply.FilesAssumption`), and forms generate slugs (`FormsAssumption`).

- **MonitorSchedulerProofs.** NoOverlap is not inductive: it needs that the
  checkout map holds exactly the ids of goroutines between mark and release.
  With it, a start (which needs an unmarked id) cannot overlap, and a release
  removes only what its goroutine marked. AlertsReflectLatestLog follows from
  NoOverlap: the only step that could replace the row is another check of the
  same id. RowsConsistent (HappyIffSuccess, AttemptsNeverOvercount) needs an invariant of the
  request loop that holds before classification. DrainedBeforeClose needs that
  the WaitGroup counts exactly the loop and the goroutines in flight.
  MailedAgainOnlyUnheard needs that only the last mail was heard, and that it has set
  `skipEmail`, after which the check mails no more.
- **NotificationQueueProofs.** Every item a pass holds either is still its row,
  unsent, or its row is gone, or the row under its id is in `clash`. That
  relates `batch` and `inflight` to the table across cascades and rowid reuse;
  NothingLost is then kept by `Stamp`, the one step that could lose something.
  DuplicateOnlyIfRecordLost needs that a delivered pair whose record is not lost
  is neither unsent in the table nor left in the batch. DeliveredInOrder is an
  action property from the same invariant: an older unsent row is in the batch,
  or tried, or newer than the batch.
  `QueueIsOutbox` is the refinement, action by action: posting is `Post`, a cascade
  `Withdraw`, listing `SetOut`, an attempt `Deliver` or `Fail`, an abandoned, ended or
  killed pass `TurnBack`, and the rest stutters. `Stamp` needs the invariant: the
  one row it hides is of a delivered pair or of one in `clash`, and pairs have one
  row each, so it is `Confirm` of that pair. `OneInFlight`, a part of TypeOK, says that
  one delivery is in flight while a pass stamps and none otherwise; `PassInv` adds that
  nothing is carried between passes.
- **AlertBoardProofs.** A step that recomputes establishes the severity
  invariants by itself; one that does not leaves the ongoing alerts or removes
  one.
  LoopsAreRight is about recursive functions over the rows of a query. What
  each has computed after some rows is also said without recursion (`Found`,
  `Worst`). These satisfy the equation of the recursive function (`FoundNext`,
  `WorstNext`: for the page, because the ranks ascend), so it exists, and by
  induction on the rows it equals them. The induction is over a set of numbers
  (`SetInduction`, from the well-foundedness of the natural numbers: the least one
  missing). That the rows are all the ongoing alerts needs that these are finitely
  many, which holds because a step makes one at most.
- **SubscriptionsProofs.** `RequestsBound` carries what the read transaction of
  a confirmation saw to its write transaction, which does not look again;
  `ConfirmedNotSuppressed` makes a deactivation of a confirmed address the work
  of a stale dump.
- **AuthProofs.** What sessions, requests and tokens remember is a rowid that may
  pass to another account. `Own(uid, acct)` is what stays true of it: the account
  is under no other id. With every account under one id (`OneIdEach`) that gives
  SessionOpensOwnAccount, and PasswordChangeEndsSessions its step: the sessions
  ended are those of the id, and so those of the account. What a login proves is the
  present password, for it holds the write connection; every session that could prove
  an older one is made from a token. FailuresBounded is the
  sum `Counted`: failures counted and requests past the limiter, whose change
  over a step is a fact about cardinalities. UsedOnce needs that what can still be
  accepted has made nothing, and that no two requests hold one token.
  SomebodyRemains is inductive as it stands.
- **InstallationProofs.** NobodyLockedOut needs which requests come after an
  account. MemoryFollowsDatabase says nothing while somebody stores, so the
  invariant says what they are about to make of the copies (`StoresAgree`,
  `LoopsAgree`) and that they are alone (`OneWriter`), all of it until writers
  cross. LiveDomainWasProved needs which requests and ticks hold a proved domain
  (`ProvedRequests`, `ProvedLoops`), the latter for ticks whose pending domain was not
  replaced.
- **ConfigSyncProofs.** TablesMatchFile and TablesMatchSHA need little beyond the
  types: a webhook about to write holds a file, and only a late one records a
  commit that GitHub does not manage. DeliveriesConverge follows a lone delivery
  from its push to its end: it is alone (`Alone`), what it read is still recorded
  (`SeenIsRecorded`), what it fetched is the last push unless another is on its way
  (`HoldsLast`), and in between the last push is dealt with (`Settled`).
- **ConfigApplyProofs.** Inductive is `TypeOK` with finitely many rows; the work is in
  what `applyConfig` computes. Its loops are folds, whose recursive function exists
  by induction on the number of entries (`FoldsExist`) and is, read from 1 to n, a
  path from tables to tables, one entry a step (`FoldsArePaths`). Along a path it is
  shown what the entries so far have done (`CreatesDeclared`, `RenamesAreGood`). A
  stage then has three facts: which slugs of its kind are there (`Reaches`, `Only`),
  that rows of other kinds are as before (`OthersKept`), and which ids stay (`Keeps`).
  `Applied` puts the five stages together, and `ReferencesStage` needs its facts of
  the earlier ones: links and the alert channel are looked up by name, and the name
  must have a row. AcceptedIsInForce and RowsKept follow. RoundTrip is the converse:
  `After(t, K)` is the transaction when the kinds `K` have had their pass, which is `t`
  with the values of these kinds flattened (`Flat`), and a message exactly if a value is
  refused. A pass over a kind drops and creates nothing, and its edits write back what
  the rows had, flattened (`GeneratedEdits`, `GeneratedPass`); the last stage finds the
  links and the alert channel that were written (`SameReferences`).
  OrderDecidesNothing needs where every row is after some of the renames, without
  their order. A slug that had a row is left before it is given again, for else it
  would be taken; one that had none is given before it is left, for else there would
  be nothing to rename. So which row a rename carries is settled by the tables and
  the set of renames (`Carries`), and with it what every slug has (`Placed`); one path
  that works shows that there is such a `c`, and every other ends by the same `c`.

Only model-checked: the liveness properties (`CheckedAgain`, `ShutdownCompletes`,
`DeliveredEventually`, `RequestsAnswered`), for fairness is out of the prover's
reach, and the violations. Only proved: `LockHeldInSync` and `NoDanglingService`,
which the other properties of their modules lean on, and `TypeOK` of `Installation`,
`ConfigSync` and `ConfigApply` (it holds in the instances of their runs when it is
added to them).

## Not modelled

Templates, static files, formatting, YAML text, mail headers, secrets'
encryption, password hashing, TLS and ACME, the self-update's download, the
packer and shell scripts, and the generated `sqlcgen` (the modules read
`sql/*.sql` itself). Edits of texts are left out of the modules above. The
banner and the page are read in two transactions; nothing is promised about the
pair, and no property is stated.

Start-up and migrations (db.go 93-279): one process, alone, before it serves
anything. The schema of a new installation is one transaction, and so is each
migration with its record, so there is no state between them for a kill to
leave; what a migration does to rows is copying columns. The settings page
waits for GitHub while it holds the write connection (config.go 400-540), as
the Slack callback does; its client has a deadline of ten seconds, so writers
are late and no more.

## Plan

Every safety property that a run checks is a theorem, and so is the refinement.
What could be added: RowsKept for renames in a chain, which `Placed` has the facts
for; and that an older file may overwrite a newer one only when deliveries met, for
more than the lone delivery of DeliveriesConverge.
