# Kirka Lab: specifications

TLA+ models of the Kirka Lab backend (`app/`), its farm worker, its Telegram bot
(`bot/`) and its web panel (`frontend/farm.js`, `calc.js`), checked with TLC, with
theorems proved by TLAPS.  Every definition is translated from the code;
`PROJECT.json` (`map`) names the lines each one stands for.  Times, hashrates and
money are small numbers; texts, layouts and the wording of messages are left out.

## The system

A Python backend (FastAPI) serves the web client and, through `/internal/*`,
the Telegram bot.  Its endpoints are plain functions run on a pool of threads,
each with a database session of its own (`app/db/session.py`,
`autoflush=False`, PostgreSQL at read committed).  A second process, the farm
worker (`app/services/farm/worker.py`), has five threads: the farm sync (every
60 s), the notifier (60 s), the pools (10 min), the wallets (3 min) and
retention (6 h).  The bot is a third process that polls Telegram and calls the
backend over HTTP.  The three share nothing but the database and these calls.

The web panel is one script, `frontend/farm.js`, with one page element that every
page paints when its answers come; the account page is `calc.js`.  Both keep one
pair of tokens in the browser's storage.

| Component | State | Operations | What is hard about it |
|---|---|---|---|
| Billing and entitlement (`services/billing`) | the account's `is_pro`, `premium_until`; `subscriptions` keyed by Telegram charge id | activate, reconcile, sweep; grant and revoke in `support.py` | overlapping requests of one account on stale copies; redelivered payments; the relay's one call may fail |
| Bot payments (`bot/handlers/billing.py`) | Telegram's update queue | pre-checkout, `successful_payment` | an update is confirmed whatever became of the call |
| Calculator funnel and quota (`services/calc/funnel.py`, `crud/calc.py`) | `calc_runs` | status, run, history, compare, locks | the check and the record are two transactions with a slow calculation in between |
| Farm sync (`services/farm/sync.py`) | `farm_devices`, events, hourly buckets, container samples, incidents, run rows | `run_sync`, `_apply`, `_detect_incidents` | long sequences of readings; hysteresis; failures between commits |
| Farm notifier (`services/notify/service.py`) | settings and a saved state per recipient | `tick`: daily summary, power messages, digest | reads in several statements and saves in several commits, with calls to Telegram in between, while the sync commits; sleep hours; crashes |
| CROFT client (`farm/croft.py`) | a token with an age | fetch with one re-login on 401 | stale token |
| Retention, classes, layout (`farm/`) | old rows; layouts | delete in batches; save layouts | deletes under the readers |
| Pools (`services/pools`) | accounts, workers, links to devices, days | poll, archive, relink, import | workers vanish and return; a snapshot that is partial |
| Wallet watch (`services/wallets`) | watches, transfers, notified flags | add, poll, notify | first poll, duplicates, crash between sending and committing |
| Rates and market (`services/fx`, `services/market`) | caches with ages | get with a fallback chain | stale values |
| QR login, tokens, users (`api/v1/qr_auth.py`, `auth.py`, `crud/users.py`) | QR sessions, refresh tokens, users | create, scan, confirm, consume; rotate, revoke | three parties that poll |
| Support, admin (`support.py`, `api/v1/admin.py`) | messages, grants | grant, revoke, send | one of several deliveries fails |
| Connections, energy, activity (`services/connections.py`, `services/energy`, `services/activity`) | connections, hourly readings, a journal | save, import, record | repeated imports |
| Bot loops (`bot/alerts.py`, `bot/notifier.py`, `bot/live_screen.py`) | in-memory sets of a process | alert, deliver, refresh a message | restarts lose them |
| Web: session and login (`farm.js` 19–133, `calc.js`) | a pair of tokens in the storage, a timer, the login screen | call, refresh, poll a code, log out | two pages refresh one pair; polls overlap; answers are lost |
| Web: pages and navigation (`farm.js`, `go`) | the page, its argument, filters, the browser's history, requests counted by `S.seq` | tab, tile, Back, minute refresh, save | answers come late, out of order or never; entries of the history are rewritten |
| Web: sites and clients, lists, tables (`scope`, the pages, `DT`) | choices and filters, caches of 20 and 55 s | choose, press, type, sort | counts computed apart from the lists they lead to; choices outlive their devices |
| Web: pools, energy (`pagePools`, `pageEnergy`) | dates and filters; loads and hours | filter, compare periods, share out, stack | unordered answers; figures computed twice |
| Web: drawer, search (`openCard`, `openPool`, `openWallet`) | the pane, its fields, the search box | open, save, delete, pick | a late answer replaces the card under the cursor |
| Web: administrators' page (`pageAdmin`) | `ADM`: the person, boxes, drafts and files | choose, write, grant, change managers | buttons are pressed while the next answer is under way |
| Web: calculator, charts, layouts, 3D view (`pageCalc`, `demo/energy3d.js`) | fields; drawings | calculate, draw | not modelled, see below |

## Modules

| Module | Models | Depends on |
|---|---|---|
| `Entitlement` | what an account holder is promised: PRO time only moves by credits and withdrawals | |
| `Billing` | account, rows, requests in flight, Telegram's queue | refines `Entitlement` |
| `BillingProofs` | theorems about `Billing` | |
| `FarmTable` | the rules by which a row of `farm_devices` changes, as its readers assume them | |
| `FarmSync` | the passes of the sync over the feed | refines `FarmTable` |
| `FarmProofs` | theorems about `FarmSync` | |
| `Notify` | the notifier's thread, the sync's commits, the settings | the sync's commits follow the rules of `FarmTable` |
| `NotifyProofs` | theorems about `Notify` | |
| `Quota` | the free tier's calculations: count, decide, calculate, record | |
| `QuotaProofs` | theorems about `Quota` | |
| `Wallets` | watched wallets: the site's requests, the chains, the worker's pass | |
| `WalletsProofs` | theorems about `Wallets` | |
| `Session` | tokens, calls with their refresh, polls of a scanned code, on the pages and on the server | |
| `Panel` | pages, their requests, the history of the browser | |
| `Scope` | sites, clients and the caches behind the pages | |
| `Lists` | the filters of the five pages that list devices, with their counts | |
| `Table` | `DT`, the table all of them draw | |
| `Energy` | shares of the substations; hours of the meters, from import to picture | |
| `Pools` | the page of the pools and the days a page may ask for | |
| `Drawer` | cards, the changes made from them, the search | |
| `Admin` | the administrators' page | |
| `Web` | the nine modules of the panel together, one part at a time | extends `Session`, the others by `INSTANCE` |
| `Sums` | lemmas: sums over finite sets | |
| `PagesProofs` | theorems about `Admin`, `Pools`, `Scope`, `Energy`, `Table`, `Drawer`, `Lists` | `Web`, `Sums` |
| `WebProofs` | theorems about `Session`, `Panel` and `Web` | `PagesProofs` |
| `MCWeb`, `MCBilling`, `MCFarmSync`, `MCNotify`, `MCQuota`, `MCWallets` | the instances of the runs | |

### Billing

`user` is the account's row, `subs` the subscriptions by charge id, `relay` where
Telegram's update of a charge is, and `req` the request threads.  A request loads
the row (`Begin...`, keeping the copy in `seen`), decides from the copy and from
rows it selects what to write (`Decide...`), and commits (`Commit...`); any other
request may act in between.  Three details of the stack matter and are modelled:
an ORM attribute set to the value it was loaded with is not written
(`FlagWritten`); inserting a charge id twice fails and rolls back (`Taken`); and
an update that Telegram has not been told is handled is delivered again
(`BeginActivate` from `"dispatched"`).  `Abort` is a request that dies before its
commit, `GiveUp` a call of the bot that times out while the server goes on; in both,
and when the server refuses, the bot tells the payer that the activation is late
(`Failed`, kept in `late`).  The sweep `expire_subscriptions` is modelled though
nothing deployed calls it.  Days stand for the plans' 30 and 365 days.  The switch
`test_mode_all_pro` of `is_pro`, which makes everybody PRO in a test, is off.

`Entitlement` sees only the moment PRO lasts to, which purchases were credited and
the change in hand: a purchase or a withdrawal takes a moment of the clock and is
made, or dropped.  Time is taken back by a withdrawal alone, but for PRO without an
end, which a purchase or a gift gives one: `activate_subscription` counts from now
when there is no date.  `KeepsPromise` is the refinement, with the stored row read as that
moment; it holds of requests that do not overlap, and `BillingPaidDaysLost` shows
why it cannot hold of those that do.

### FarmSync

One action per step of the worker's loop: `StartRun` (the run row is committed),
`Apply` (the one transaction of `_apply`: upserts, events, hourly buckets,
LOWHASH, samples and incidents), `FinishRun`, `Fail` (rollback and error row) and
`Crash`.  `Apply(raw)` takes any map of devices to readings of `Feed`, absent
devices included.  `log` is a history variable: it replays the events the pass
writes, so that properties can compare the row with its history.  Of the six
logged columns status, worker, ip and container are modelled; pool and client are
handled as worker is.  Time is in minutes, hashrates in percent of nominal.

### Notify

`w` is the thread: a `pc` that stops at every statement or call after which
another process may act, the settings and the state as loaded for the recipient,
and what was read so far.  `StartTick`, `Pick`, `Daily`, `DailySend`, `DailySave`,
`PowerScan`, `PowerCheck`, `PowerSend`, `PowerSave`, `Digest`, `ReadBack`,
`ReadEvents`, `ReadLast`, `DigestSend`, `DigestSave` and `EndTick` follow the text
of `tick`, `power_check`, `snapshot` and `build_digest`.  The others are
`SyncCommit`, `SetPrefs` and `Clock`.  `told` is a history variable: what reached
the recipient, against which the saved state is compared.  Error lines, which the
code treats as it treats low hashrate, are not modelled separately; the journal
and the texts are not modelled.

### Quota

A request of the free tier goes through `Begin` (the user is loaded, an expired
flag lowered: the `reconcile` of `Billing`), `CountAll` (`count_runs`),
`CountToday` (`count_runs_today` and `funnel.evaluate`), any number of `Refresh`
(a market or rate refresh that commits in the request's session) and `Record`
(`record_run`), or `Fail`.  Each count is a statement of its own at read
committed, so other requests insert in between.  `made[d]` is what
`count_runs_today` counts on day d; a run is dated by `func.now()`, the start of
its transaction, which is why `since` is kept.  `EntitlementChanges` stands for
all of `Billing`.  `free` and `intro` are history variables: which pool a run was
admitted from.

### Wallets

Transfers are numbered in the order the chains confirm them and arrive on a fixed
wallet; what `classify` makes of each (news, hidden, or hidden and journalled) is
given.  `add` is `AddStart` (the limit is checked, by distinct addresses), `AddPoll`
for each chain of the address (a 0x address has two), then `AddCommit` of all of them
at once, or `AddEnds`; `Delete` and `Mute` are the other endpoints.  The worker is
`StartPass`, `PollRead`, `PollWrite` or `PollFails` for each wallet in turn, `Select`,
then `SkipMuted`, `Leave`, `Send` or `Unheard` for each row, `Save` or `SaveRefused`
after a message, `Finish`.  `Unheard` is a message Telegram took whose answer was lost
or came too late, which `send` takes for a refusal.  `Abort` is the exception
SQLAlchemy raises when a row the session holds is gone, and `CutPoll` a restart right
after a commit that a poll makes on its way (refreshed rates, a journalled transfer).

`setting`, which never changes in a run, says whether the user has Telegram, and of
each wallet its address and its chain's reader: `"page"` returns the latest transfers,
`Window` of them; `"sigs"` (SOL) keeps a position, and passes over what does not fit a
read and transactions its node does not find just then; `"blocks"` (BSC) keeps one
too, and looks back to a number of blocks only, so that `Reads` leaves open how far.
`told`, `undone` and `missed` are history variables.

Two details are left out.  While `add` polls, the refresh of the rates may commit its
row a moment before the others; the model has that only where the request then dies
(`AddCommit` with a row never read).  The transfer of BNB that the BSC reader makes of a
difference of balances is not modelled.

### Session

`tok` is the pair in the browser's storage, `call` the requests of the two pages
(with the access token they read, and what the server has done of a refresh),
`poll` the polls of a code, `sess` the server's QR sessions.  Pairs are numbers,
in the order they are minted, 0 is none.  A refresh is three transactions, as in
`auth.py`: `RefreshChecked`, `RefreshRevokes`, `RefreshInserts`; a poll is two, as
in `qr_auth.py`: `PollRead`, `PollHand`.  The timer (`TimerFires`) does not wait
for the poll before.  `farm.js` refreshes with the token it read before the call,
`calc.js` with the one in the storage by then (`Unauthorised`).  The timer of the
minute's refresh, once started, is never stopped (`ticks`), so that the panel may
call from the login screen too.  `CallLost` and
`PollLost` are answers that never come; `lost` remembers pairs whose replacement
never came.  An approval is one step.

### Panel, Scope, Lists, Table

In `Panel` devices do not change: the question is who asks, who answers and in which
order. `calls` are requests under way, each `fresh` until a later one with the same
counter (`S.seq`, `EN.seq`, or none at all); `hist` and `pos` are the browser's
history with the filters `go()` keeps in its entries; `trail` is a history variable,
what the user left, against which Back is compared. `mute` is set where what is in
sight becomes wrong and nobody asks again: a request outside `go()` failed without a
word; a late answer of a page that paints without looking where the user is; a step
through the history that changes the filters but not the page; a search whose timer
ends on another page and makes that page's request stale, where the two share a
counter. The next answer that is painted, or the next page that is opened (`Wait`),
clears it. The minute's refresh (`Tick`) is a step that may come and need not:
`farm.js:1750` skips it while the tab is hidden, a drawer, a form or a menu is open,
or a field has the focus, none of which is modelled. `Scope` adds the fleet that comes
and goes and the caches; `Lists` the filters, with `promised`, the number on what was
pressed; `Table` the columns' filters, typed texts and their timers.

### Energy, Pools, Drawer, Admin

`Energy` has the scheme (`Part` is `enModel`'s share of a container for a substation)
and the hours: `Import` is `import_hourly`, `Series` is `energy_hourly`, and the page
asks for meters and series at once (`AnswerMeters`, `AnswerHourly`). `import_hourly`
would not overwrite an hour entered by hand; nothing in the code enters one (rows are
written with source "file" only, `hourly_import.py:141`), so there are none. `Pools`
has the dates, the links without hashrate and the card's period; days are integers
with a month and a weekday given. `Drawer` keeps the card in sight (`pane`), the card
the buttons act on (`bound`) and the card a text was typed under (`typer`). In `Admin`
`adm` is the script's `ADM`, `view` the page as painted and as typed and checked on
since, and `calls` the requests for the page, oldest first; a request sent to the
server from there is served in the step that answers it.

### Web

A part meets the others only in what its module takes as input (an answer, a
list of devices, a choice), so one run explores them one at a time: `part` says
which and never changes.  The variables are those of the modules, named as they
are; parts that name a variable alike share it, and what a part does not have
stays `None` (`Rest`).  `Web` has no values: its constants are those of the parts,
with their assumptions (`Constants` of each module), and `MCWeb` gives the values
of the run.  The parts `login` and `calls` are the two halves of `Session` (with
both at once there are too many states); `panel` and `back` are two instances of
`Panel`: few commands of every kind, and more of them to and fro between two lists.

## What the runs check

| Run | Instance | Shows |
|---|---|---|
| `BillingSerial` | 1 request at a time, 3 charges (one of a plan not for sale), 1 grant, 4 days, requests may die | `PaidDaysKept`; `KeepsPromise`: the implementation of `Entitlement` |
| `BillingConcurrent` | 2 requests, 1 charge, 1 grant, 2 days, calls may fail or time out, fair | `NeverOvercredited`, `RowsWrittenOnce`, `RevokeTakesEffect`, `OnlyOvertakenTakeTime`, and the liveness property `PaymentAnswered` |
| `BillingPaidDaysLost` | 2 requests, 2 charges | violation of `PaidDaysKept` (finding) |
| `Farm` | part "rows": 1 device, hashrates 80/91/100 around the limits 90 and 92, passes 14 or 46 minutes apart; part "updown": 3 devices of a container, 5 passes | `RowTellsItsHistory` (`EventsTellTheRow`, `SinceIsLastStatusEvent`, `LowSinceIsAlarmOn`, `OnlineWithinLife`), `IncidentsDisjoint`, `WritesTheTable` |
| `NotifyReports` | 2 devices, calls succeed, sleep with wake-up | `SavedIsTold`, `OfflineThenBack` |
| `NotifyFailures` | 1 device that may leave operation with its alarm on, calls may fail, 2 events, limit 1 | `DailyOnce`, `PowerSavedIsTold`, `NothingToldTwice` |
| `NotifyHeld` | 1 device, passes may die, settings change, fair | `HeldOfflineTold`, `PowerTold` |
| `NotifyLostDigest` | 1 device, calls may fail | violation of `OfflineThenBack` (finding) |
| `NotifyEventRace` | 1 device, 2 events | violation of `EventsTold` (finding) |
| `QuotaShared` | 2 threads, pool 1, limit 1, 3 days, no request starts after 5 runs | `FreePerDay`, `IntroBounded`, `NoEarlyRefusal` |
| `WalletsWatched` | two wallets in three settings (a page and a position; both chains of one 0x address; two pages, no Telegram), 3 transfers, 2 additions, 1 restart or lost answer, reads of one transfer, fair | `ToldOnce`, `HistoryQuiet`, `ClosedIsTold`, `NothingSkipped`, and the liveness property `NothingWaits` |
| `Web` | the panel, one part at a time; bounds below | next table |

The properties of `Web`, and whose they are:

| Property | Says |
|---|---|
| `StoredIsLive` (`Session`) | the refresh token in the storage is one the server still takes, unless its replacement is on its way or was lost |
| `ShownIsPolled`, `ScannedEnds` (`Session`) | a code on the login screen is polled for; one that was scanned or ran out does not stay (liveness) |
| `ShownIsAsked` (`Panel`, `Admin`) | when all is quiet the page shows what was asked for last; Back stays inside the panel; the administrators' page shows whom a message will go to |
| `NumbersTell` (`Scope`, `Lists`, `Pools`, `Table`) | every number on an option, chip, row or box is the length of the list it leads to; no choice made earlier leaves the pages empty; a table shows the filters it applies |
| `FiguresAgree` (`Energy`, `Pools`) | shares add up to the load, stacked meters reach the total, a period is compared with one of its length that ends where it begins |
| `LoadingEnds` (`Panel`) | a page that is loading ends up with a list or an error, unless a search typed elsewhere took its answer from it (liveness) |
| `StepsKeepTheirWord` (`Panel`, `Table`, `Lists`, `Drawer`, `Admin`) | Back leads to the page that was left, with its filters; an option lists what its number says and is kept by the page it leads to; a button changes the row, or writes to the person, in sight |

The type invariant of each module is checked by one of its runs.  The three
violation runs are findings: each refutes one sentence of the code's own comments
or docstrings, quoted in `PROJECT.json`.

### Bounds, and why they are enough

- `Billing`: the account's hazards are pairs of requests, so two threads; two
  charges and a grant give purchases before and after expiry and on top of each
  other; `MaxTime` lets every plan run out within the run.  `Days` differ per
  plan so that credits cannot be mistaken for one another.
- `FarmSync`: rows are independent of each other except through a container's
  samples, so the rows of one device are checked alone, with hashrates on both
  sides of and between the two limits, and gaps on both sides of the 15 minutes
  of `online_sec_total` and across the hour of a bucket.  Incidents need
  `MinDevices` devices in one container; the code's constant 5 is lowered to 3
  so that the interesting counts are reached.
- `Notify`: days of five or six units, two or three of them sleep; a hold, a power
  window and an interval of a few units; one or two devices of one container. A pass
  takes one unit at most, as a pass of the code takes less than its interval.
  Properties of events allow two events and a read limit of 1 (the code's 500), or a
  limit out of reach where the limit is not the point.
- `Quota`: two threads reach the bounds' worst cases: TLC finds a violation
  when `FreePerDay` or `IntroBounded` is tightened by one.
- `Wallets`: a reader that pages and one with a position, and both chains of one
  address in one addition; three transfers fill a read of one twice over; a second
  addition is a wallet deleted and added again.  One fault, a restart or an answer of
  Telegram that is lost, is enough for a message to be sent twice.  The limit of two
  addresses is not reached: `LimitKept` is proved and in no run.

- `Web`: two pages and two codes; four pairs, so that a pair is traded, traded
  again and one is in the storage still (three in `calls`); two calls and two
  polls at once, answers may be lost.  The other parts have two requests at once,
  two to four devices, rows or links, and `MaxActs` commands: 3 in `panel`, 5 in
  `back`, 2 in `lists`, `scope` and `energy`, 3 in `pools`, 4 in `table`, `drawer`
  and `admin`.  Each is what its hazard takes: leaving, coming back and a late
  answer; choosing, an answer, typing and pressing.  `Prompt` says that answers
  come within the minute; without it the minute's refresh makes every answer
  stale and a page may load for ever.  Weekdays and months of `Pools` are those
  of thirty-day months, around the first of one and the first of a week.

In the runs of `FarmSync` and `Notify` the clock stops at `MaxTime`, and in `Web` a
user may have done all he does and nothing be under way, so these runs end in
states without a successor and set `CHECK_DEADLOCK FALSE`.  In the others deadlock
is checked.

### Fairness, and why the code justifies it

- `Billing`: a request that was started runs to its end (a thread of the pool),
  and Telegram delivers an update until it is confirmed.  Nothing makes a user
  pay or a clock tick, and any call may fail or time out.  That the payer is told
  (`PaymentAnswered`) takes a bot that goes on once Telegram has handed it an update.
- `Notify`: weak fairness of the notifier's thread (`notify_loop` catches every
  exception and sleeps 60 s) and of the clock; strong fairness of a delivered
  message: Telegram does not fail for ever.
- `Wallets`: weak fairness of the worker's pass (`wallets_loop` is of the same
  form); strong fairness of each wallet's successful read and of messages getting
  through, which are tried again every three minutes, sleep hours ending daily.  One
  fairness for all messages is enough: the rows are tried in their order, and there
  are finitely many.  Nothing is assumed of users, chains or restarts.
- `Session`: timers fire and the server goes on with a poll it has begun (weak);
  polls are read and answered again and again (strong: the timer repeats them
  every two seconds, and not all of them are lost).  Nobody needs to scan a code.
- `Panel`: each request is answered or fails (`fetch` settles).  Nothing is assumed
  of timers, forms, the minute's refresh or the user.

## What is proved

For every value of the constants, under the named assumptions of each module:

| Theorem | Says | Along which argument |
|---|---|---|
| `BillingProofs!TypeCorrect` | types | inductive with the ranges of the copies a request holds |
| `BillingProofs!RowsStayWritten` | `RowsWrittenOnce`, any number of overlapping requests | a credit commits only an unused id, the other commits only expire rows |
| `BillingProofs!RevokeIsFinal` | `RevokeTakesEffect` | a revoke writes an end that is no later than now whatever its copy held |
| `BillingProofs!NothingUnpaid` | `NeverOvercredited`, any number of overlapping requests, payments, grants and retries | below |
| `BillingProofs!OvertakenTakeTime` | `OnlyOvertakenTakeTime`, any number of overlapping requests, where no sweep runs | below |
| `BillingProofs!PaidDaysStay`, `ImplementsEntitlement` | `PaidDaysKept`, `KeepsPromise`: requests that do not overlap (`OneAtATime`) implement `Entitlement` | below |
| `FarmProofs!Typed`, `HistoryAccounts`, `OutagesDisjoint` | `TypeOK`, `RowTellsItsHistory`, `IncidentsDisjoint` | below |
| `FarmProofs!ImplementsTable` | `WritesTheTable`: `Spec => Table!Spec` | every commit is a table update: `status_since` and the alarm's start move as `Update` allows because a row without LOWHASH has no start |
| `NotifyProofs!TypeCorrect` | types of farm, settings, states, copies and the thread | one lemma per step of the pass |
| `NotifyProofs!PowerNeverLost` | `PowerSavedIsTold`, assuming passes do not die (`~MayCrash`) | below |
| `NotifyProofs!DevicesSavedAreTold` | `SavedIsTold`, assuming calls succeed, passes do not die and everybody wants offline and online lines (`AllHear`) | below |
| `NotifyProofs!NoRepeatedOutage` | `OfflineThenBack`, under `AllHear` | from the same invariant |
| `NotifyProofs!OneSummaryADay` | `DailyOnce`, though calls may fail, assuming passes do not die | below |
| `NotifyProofs!NeverTwice` | `NothingToldTwice`, though calls may fail, assuming passes do not die and the hold stays the same (`SameHold`) | below |
| `WebProofs!PanelTyped`, `QuietShowsAsked`, `BackInside` | `TypeOK`, `ShownIsAsked`, `BackStaysInside` of `Panel` | below |
| `WebProofs!BackToTheLeft` | `BackIsPrevious` of `Panel` | the pages left are the entries before the current one (`TrailIsHistory`) |
| `PagesProofs!AdminShowsChosen`, `AdminSendsShown` | `QuietShows`, `PressedIsMeant` of `Admin` | below |
| `PagesProofs!BoxTellsRight`, `PeriodsMatchAlways` | `BoxTells`, `PeriodsMatch` of `Pools` | filters change only together with a request (`PaintedNow`); the first of a month is not after its days |
| `PagesProofs!NeverComesUpEmpty`, `OptionsKeepTheirWord`, `ButtonsAgree` | `NeverEmpty`, `OptionTells`, `LabelsAgree` of `Scope` | below |
| `PagesProofs!ShareAddsUp`, `StackIsTotal` | `SharesAddUp`, `StackReachesTotal` of `Energy` | below |
| `PagesProofs!FiltersAreShown`, `OptionIsListed` | `FiltersShow`, `OptionTells` of `Table` | below |
| `PagesProofs!ButtonsMeanTheirCard` | `SavesWhatIsSeen` of `Drawer` | a card in sight is the one the buttons act on and the one its text was typed under (`OneCard`) |
| `PagesProofs!ChoicesHaveDevices`, `NumbersAreLists`, `OffersAreKept` | `ChoiceHasDevices`, `ChoiceTells`, `ChoiceStays` of `Lists` | below |
| `QuotaProofs!TypeCorrect`, `DayIsBounded`, `IntroIsBounded`, `RefusalsAreEarned` | `TypeOK`, `FreePerDay`, `IntroBounded`, `NoEarlyRefusal` | below |
| `WebProofs!RefreshesKeepTheSession` | `StoredIsLive`, any number of pages, calls, polls and codes, with answers that may be lost | below |
| `WebProofs!ScreenIsPolled` | `ShownIsPolled` | a poll's end, an approval or a logout stops the timer only together with `showLogin`, which asks for another code |
| `WebProofs!WebTyped`, `WebShowsAsked`, `WebNumbersTell`, `WebFiguresAgree`, `WebKeepsItsWord` | `WebTypeOK`, `ShownIsAsked`, `NumbersTell`, `FiguresAgree`, `StepsKeepTheirWord`: the panel with all its parts | below |
| `WalletsProofs!TypeCorrect`, `NoMessageTwice`, `HistoryIsQuiet`, `ClosedWasTold`, `PositionsSkipNothing` | `TypeOK`, `ToldOnce`, `HistoryQuiet`, `ClosedIsTold`, `NothingSkipped` | below |
| `WalletsProofs!LimitIsKept` | overlapping additions exceed the limit by fewer addresses than there are threads (`LimitKept`) | the address of a thread between its check and its commit counts as watched; distinct addresses are a set, not the rows |

*Billing.*  That the account's end is never further off than the days in the table
holds of committed rows, while a request carries a stale copy and a decision yet to
be written.  `CreditInv` says that whatever copy a request holds, and whatever it is
about to write, stays within what the table has paid for, a request about to insert
a row having that row's days on top.  The days of a table are a sum over its rows;
`SumIsSize` turns the sum into the size of a set of days, which grows by a plan's
days with a row (`FiniteSetTheorems`).  The sum is defined by recursion on sets;
that the recursion has one solution is proved by a least counterexample (`WFMin`
over inclusion of finite sets), which needs no induction over an operator.
`OvertakenTakeTime` needs that a request which decided to lapse an account did so from
a copy whose time was over, and that one which credits writes an end no earlier than
its copy's: if the copy is still the row, no time is taken.  The other
two are about one request at a time: then the copy is the row (`Planned`), and PRO
time that is left is flagged and is that of an active row (`Backed`).  `OneAtATime`
cannot be dropped: `BillingPaidDaysLost` is two requests.

*Farm sync.*  A history accounts for the row it was written with (`HistoryStep`,
column by column), but that the online minutes fit in the device's life needs its
last update not to be in the future (`RowsArePast`), and that incidents do not
overlap needs those that ended to have ended by now (`IncidentsArePast`): the next
begins now, and only when none is open.  The assumptions beyond the types of the
constants: the farm is finite and a missing row is none of the rows there may be
(`NullIsNoRow`).

*Notify.*  Saved and told agree only between passes, so neither property is
inductive.  The invariant follows the thread: at every `pc` it says how the copy
of the state, the lines already sent and the state about to be saved relate to
what the recipient was told.  `CopyStep` proves that the copy is the saved state
until the save; the step lemmas are one per action.  That a summary is not sent
twice needs that no day still to come is ticked off (`DailyPast`, by `LaterDay`) and
that everything a pass saves on its way keeps the day (`PowerCopies`,
`DigestCopies`).  That nothing is told twice follows two cursors: the number of the
last event (`ToldPast`, `PoolNew`), and the set of devices with an alarm, for which
the episodes told of must stay in every later snapshot (`ToldIsOn`: they are on and
held; `ToldIsSeen`, `ToldIsSaved`).  `~MayCrash` is needed by all but the
types: a pass that dies between a message and its save sends the message again.
`SameHold` is needed because a longer hold takes an alarm out of the snapshot.

*Panel.*  `ShownIsAsked` speaks of quiet moments and says nothing of how they come
about.  The invariant is about debts: a list in sight either is the one asked for,
with choices that are possible (`Fit`), or is owed by a request under way that will
be painted, for the page, container and tab the user is on (`ShownOrOwed`, `Owes`).
That no other answer is painted in its place needs the requests that count to be
for what the user sees of their page (`CallsCurrent`).  The theorems hold for any
number of requests at once, any farm and any set of pages, under `Constants`, which
the run checks of both instances (`PanelAssumption`); `Prompt` is not needed.  A
search whose timer makes another page's request stale leaves that request no debtor;
which counters pages share matters there (`CountedApart`).  Two of the four
occasions of `mute` were found in the search for this invariant, beyond the bounds
of the run: TLC confirms the one with five commands (`back` has them since), the
other with four and two devices with an alarm.

*Quota.*  Between its counts and its insert a request is invisible to the others,
so the bounds are not inductive.  What is inductive counts such a request as a
slot already taken: the free runs of today and the requests that may still add
one (`TodayHeld`); the same for past days, which only transactions that date from
them can still reach (`PastHeld`), and for the pool (`IntroHeld`).  `CountsAgree`
ties the history to the rows.  The lemma on refusals needs that the two counts of
a request are not taken at one moment: their difference, "older" runs in
`funnel.evaluate`, may be negative.  Two runs per thread, not one, are needed: a
thread may leave a run dated yesterday and hold a second one across midnight.

*Session.*  `StoredIsLive` says nothing of pairs that are on their way, and a pair
just stored might be one another refresh has traded meanwhile.  The invariant adds
that a pair that is still on its way to a page is known to no page (not stored,
sent with no call, never traded) and is on its way once (`CallsApart`,
`PollsApart`, `Apart`); that pairs are numbered as they are minted (`Numbered`),
so that a new one is known to nobody; and that only a token that was held is
traded (`HasToken`).  The types alone need more (`SessionRest`): that a code on the
screen, polled for or asked about was given out, or a poll could be answered
"none".

*Pages of the panel.*  Each invariant says what relates the choice, the list and
the numbers while they are in sight, and what of it survives while they are not.

- `Scope` (`Settled`, `WordStands`): while devices are listed, choice, list and
  menus are what `scope()` makes of the devices as they were loaded, and a promised
  number is the length of the list it will make, though a load may come between.
  The step from one load to the next needs that `scope()` applied twice drops
  nothing more (`ScopedSettles`).  The labels are sums over the chosen options.
- `Lists` (`Held`, `FHeld`): a choice whose devices are gone is dropped when the
  page is computed, not when they go; so every choice has devices once the page
  has been computed (`~due`), and before that only where it was made with a number
  on it.  A pressed row's number stays the length of the list until then.
- `Table` (`UpToDate`): list, options and fields are what the filters in force make
  of the rows, unless a text reached a table already gone (`missed`).  That no row
  is listed twice and none lost needs the order of the rows to be total by any
  column (`BeforeOrders`), ties going by position.
- `Energy` (`Stacked`): a picture names only meters that are known, and those
  answered with it are those, unless it is torn by an import between the two
  answers.  The shares are a double sum, over containers and over substations,
  added up by feeder; `SharesOfOne` is one container's row of it.
- `Admin` (`SeenOrAsked`, `LastIsChosen`): what is painted is what is chosen, or a
  request is under way that will paint it; and the last request of the line is for
  the person chosen, as long as one of the line is not older than an answer.

*Sums* (`Sums.tla`).  The community modules' `MapThenSumSet` is a recursive function
on sets.  `SumIsSize` reads a sum as the number of its units, a union of intervals,
one per element; then `FiniteSetTheorems` speaks of sums, and exchanging the order
of a double sum is counting one set of units in two ways.  That two solutions of
the recursion agree is a least counterexample (`Smallest`), as above.

*The panel together.*  `WebInv` is the session's invariant and that of the part at
hand.  `OwnSteps` is the argument: whatever happens, each part takes one of its own
steps or none, so that each keeps its invariant by its own lemma; the session
beside it does not move.  The five theorems then read each property of the run off
`WebInv`.  The assumptions are those the run checks (`PanelAssumption` …
`AdminAssumption`): sets are finite, `None` is not one of the values, the calendar's
months have at most 31 days.

*Wallets.* What is told depends on what the worker and the site hold in memory while
the other deletes wallets and adds them again, so none of the properties is inductive.
`ToldInv` says how the copies relate to the rows: each entry a pass holds is of a row
that still waits, as long as its wallet is the one the pass loaded (`Marks`); the
message just sent counts as the mark that is about to be made, and one whose answer
was lost as a mark that was lost (`Ledger`); nothing is left of a deleted wallet
(`Gone`). That history stays quiet needs an argument about pages: a transfer older
than its wallet that is not stored has a window of newer ones before it (`Buried`),
now and for ever, so that no later read returns it; `Asked` and `Polled` say this of
what a thread and the worker have read and not yet stored. A least transfer exists in
every set (`LeastNumber`), which needs the sets to be finite.

*Only model-checked:* the liveness properties (`PaymentAnswered`, `HeldOfflineTold`,
`PowerTold`, `NothingWaits`, `ScannedEnds`, `LoadingEnds`), which are out of the
prover's reach.  Every invariant and every action property of a passing run, and
the refinements, are theorems, under the assumptions named in the table.

## Behaviour worth knowing

These are consequences of the code that the models show; those marked (finding)
contradict a sentence of the repository.

- Two activations that overlap: both add their days to the end they read, and one
  period is lost (finding, `BillingPaidDaysLost`).  A reconcile that overlaps an
  activation may leave it without its flag, because the ORM does not write an
  attribute that equals its loaded copy.  `OnlyOvertakenTakeTime` bounds the damage:
  it takes a request whose copy of the row is no longer the row.
- The bot calls `/internal/billing/activate` once.  When the call fails or times out
  the payer is told «активация задерживается. Мы подключим PRO в ближайшее время»,
  and nothing retries it; when it timed out the server may still credit the payment.
- An account with PRO set by hand, without an end, gets one with its first purchase
  or gift: a purchase of 30 days turns PRO for ever into 30 days.
- `api/v1/calc.py:118` and `api/v1/firmware.py:53` read the stored PRO flag where
  nothing has reconciled it.
- The sweep of `entitlement.py` may clear a flag that a grant set meanwhile.
- A device that leaves the feed keeps its last status.  A container that shrinks
  below five devices keeps an open incident open.  The comparison of
  `_detect_incidents` is with the latest sample that is at least five minutes old,
  however old, and opens an incident at half the configured share.
- `run_sync` commits the run row outside its `try`, and the worker's main loop
  (`worker.py:103`) has no `except`: a connection lost there ends the process, and
  the container's restart policy brings it back (`Crash` in `FarmSync`).
- A digest that Telegram refused is nevertheless saved as told (finding,
  `NotifyLostDigest`), and an event committed between the two statements that read
  events and their largest id is never told (finding, `NotifyEventRace`).
- The hold test of a power message looks at the oldest and the newest device of a
  container; one device that has long been offline lets the others pass.  A power
  message before the first digest puts its devices into the saved state, so the
  silent baseline is skipped.  An alarm is told again when its device was out of
  operation for a digest, or when the recipient asks for a longer hold: it leaves
  the snapshot while it goes on.  Settings that leave a type out mark its devices as
  reported without telling them.
- "3 calculations per UTC day" is exceeded by overlapping requests, by up to one
  fewer than two per thread; see `FreePerDay`.
- Wallets: when the first read of a new wallet fails, its earlier transfers are
  news to the next pass (page chains) or never stored (a cursor already written is
  committed with the error).  A restart after a commit in the middle of a poll
  loses rows on cursor chains.  More transfers than a page between two polls push
  the older ones out.  Deleting a wallet while messages go out makes the journal
  roll back the mark of the message just sent, so it is sent again; so does an
  answer of Telegram that comes after the 15 seconds of `send`.  Transfers of muted
  wallets, and of users without Telegram, are closed silently: who connects Telegram
  later is not told of them.  A Solana transaction the node does not find just then,
  and blocks of BSC further back than 4000 when reads have failed for long, are passed
  over for good.

In the web panel:

- *Session.*  Two calls refused at once trade the same token; the loser's call
  ends at the login screen though a good pair is stored (`farm.js`), or clears it
  (`calc.js`, where any failure of the first call does).  Overlapping polls that
  both read "approved" each get a pair, against "handed out once and never again"
  (`qr_auth.py`); `HandedOnce` states it and is in no run.  A second poll, answered
  "consumed", puts the login screen over the panel that has just opened.  A
  refresh that ends after a logout stores tokens again.  The timer of the minute's
  refresh goes on after a logout: each minute the panel behind the login screen asks,
  is refused, and draws another code.  `calc.js` verifies e-mail
  with a field the server no longer returns.  The insert of a known user
  (`crud/users.py:139`, "does not raise") raises when two overlap.
- *Pages.*  `pageAdmin`, `pagePools` and `ev` look only at `S.page`, and `pageCalc`,
  `pageNotify`, `conn` and `wallets` at nothing, before they paint.  A change that
  is saved late brings the user back to its page.  An answer slower than the
  minute's refresh is never painted.  The catch of `go` may paint the error of an
  energy tab that was left.  Two entries of one page can follow each other in the
  history ("only these" takes the place of the problems opened from the list of
  devices); Back between them restores the filters (`farm.js:1732`) but asks for
  nothing, so the list of the other entry stays in sight until the minute's refresh.
  A search whose timer of a quarter of a second ends on another page asks for the
  list of devices, and a request that page made by itself is stale then: the page goes
  on loading until the minute's refresh, which is skipped while the tab is hidden, a
  pane is open or a field has the focus.  Back does not restore the filters of the
  administrators' page, and Forward loses those changed since.
- *Caches.*  `api()` clears the caches when a change begins, so a load under way
  fills them with what was there before it.  `S.order` is written before the
  request's number is looked at.
- *Lists and tables.*  The rows by class of the overview and the badge of problems
  count the whole farm though the list is of the chosen sites.  The number on a
  press leaves out a filter that stays on (`PressTells` fails, against
  `tools/qa/site_consistency.mjs`, whose selectors are moreover of older menus).
  `ef.gk` stays when its group has gone.  A text typed less than 200 ms before a
  table is sorted, reset or drawn again filters it without being in its field.
- *Energy, pools.*  A name with a substation the scheme has not got ends the page
  in an error.  The two requests of the hourly page may lie on both sides of an
  import.  Only the reading before is compared with a new one (`energy.py:145`).
  Dates of the pools and the word "today" stay yesterday's after midnight; a card
  names the dates chosen since; a start after the end gives a negative span.
- *Drawer.*  The answer of a card that was deleted hides whatever is shown by
  then; saving a wallet opens the pane again; a card that fails goes on spinning;
  Enter may open a hit of the query before.
- *Administrators' page.*  Answers out of order show one person's messages under
  another's name (`QuietShows` excepts them), and mark the other's as read; a
  person chosen while a request without one is under way gives an error.  What is
  typed between a click and its answer becomes the next person's draft, and a file
  chosen then his file.  A message that is sent clears the draft and the boxes
  changed since.  A repaint enables a button whose request is under way, and an
  answer that was lost leaves the text to be sent again.  The list of managers is
  sent whole, from the page as it was painted.  `SendAll` goes to the boxes
  checked by then, whatever number the button shows.
- *Calculator.*  Choosing the other currency corrects the price, and `keep()` then
  puts the old one back from its field; a result may be of the run before; an
  answer that comes after the page was left fails.

## What is not modelled, and why

- Readers of outside services (`pools/readers.py`, `viabtc.py`, the HTTP part of
  `wallets/chains.py`, `croft.py`, providers of rates): their answers are the
  inputs of the models.
- Texts, keyboards and formatting (`bot/*_format.py`, `keyboards.py`,
  `calc/export.py`), catalogues and seeds (`app/data`, `app/db/seed*.py`,
  `alembic`): no state, or data only.
- `demo/energy3d.js` is a bundle of a graphics library with one line of set-up: it
  draws and keeps no state.  It is two thirds of the lines of JavaScript, so that
  the share of those lines which `map` covers stays below one third whatever
  is modelled of the rest.
- `tools/qa/*.mjs` drive a browser and compare numbers: they are tests.
- Of `farm.js`: the calculator's page, the drawing of charts (268–337), the editor
  of layouts (471–491), the page of a wallet's AML check, the one-time link in the
  address (`boot`), texts and formatting.  Of the administrators' page: the
  journal's filter, the length of a grant, the download of files.
- The parts planned below.

## Plan

In this order, keeping the number of runs small by checking a new component
together with the one it talks to:

1. `Pools` (`services/pools/sync.py`, `daily.py`): the pass over the accounts with
   its rollbacks, the hourly archive, the days, `relink` with its duplicates, and
   the import that runs beside it.  Abstract: an archive whose finished hours only
   gain values.
2. `Market` and `Rates` (`services/market`, `services/fx`): caches filled by
   overlapping refreshes, fallbacks and ages; composed with `Quota`, whose
   `Refresh` is their commit.
3. The rest of `crud/users.py` and `auth.py`: the check-then-insert of users,
   registration and passwords; the approval in `qr_auth.py` as two steps.
4. `BotLoops` (`bot/alerts.py`, `notifier.py`, `live_screen.py`) and
   `support.send_out`: deliveries of which some fail.
5. `Farm` upkeep: `retention.py`, `layout.py`.
