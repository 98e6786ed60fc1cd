# AI Client Portal in TLA+

The AI Client Portal is a Django application (about 28,000 lines of Python besides tests and
migrations) that resells AI chat to the clients of an agency: users chat with models of several
providers, are billed per plan, and administrators verify payments by hand. It runs on Postgres,
Redis, Celery (workers and beat) and Gunicorn. `ATOMIC_REQUESTS` is off, so a view is a sequence of
separately committed statements except where it opens `transaction.atomic()`, and
`select_for_update()` is its main tool against concurrent requests (a no-op on SQLite; the modules
model Postgres, the production database). Most pages load a row, change it and save it: whole, or
with `update_fields`. Much of what follows is about the difference.

This directory models what keeps state and what decides on it. `PROJECT.json` lists the components,
the runs with their properties, the mutants that show each property can fail, the source lines of
each definition, the hazards, the findings and the theorems.

## 1. Inventory

| Component | State | Operations | Hard behaviour | What makes it correct |
|---|---|---|---|---|
| Invoices, refunds, checkout (`billing/views.py`, `models.py`, `invoicing.py`) | `Invoice.status`, `verified_at`, `RefundRequest.status` | checkout, generate, proof, verify, reject, toggle, refund, delete | double clicks, stale pages, requests that outlive their payment | decisions on a fresh row; one refund, in the window or reviewed; no duplicate checkout |
| Subscription (`governance/plans.py`, `billing/views.py`) | `UserPlanAssignment` | sync to a paid invoice, admin change, cancel, resume | the sync runs after the commit, statement by statement | no plan and no time without a confirmed payment; a purchase arrives and has an end |
| Billing sweep, reminders (`billing/tasks.py`, `access.py`) | due dates, `reminder_sent_at` | daily tasks | reruns, failures, prepaid periods | one invoice per cycle, a reminder for all |
| Chat replies (`chat/views.py`) | `Message.content`, `is_generating`, `generation_started_at` | post, edit, regenerate, stream | tabs, reconnects, slow providers, killed workers | no second call while a claim is trusted; every reply is resolved |
| Chat quotas, usage limits (`governance/limits.py`, `plans.py`) | counts, `UsageLimit` rows | check before create, limit pages, overviews | one conversation's lock, one user's caps; counting in batches | caps hold up to one request; pages count what the gate refuses |
| Context window (`chat/context_window.py`) | none | load, fit, refuse | bounds, edits meanwhile | what is sent fits, is the newest, and tells what it leaves out |
| Live intelligence (`chat/live_intelligence.py`) | cached headlines | fetch, refresh, brief | two caches, side by side fetches | freshness is labelled honestly |
| Model access, routing, compliance (`chat/router.py`, `governance/plans.py`) | plan, team, permissions, region, switches | choose a model, ask it, fall back | rules change while a reply is made | no model is asked that a rule forbids |
| Provider catalogue (`providers/*`) | `Provider`, `ProviderModel` | sync, approve, connect, toggle | concurrent syncs, retired models that return | never enabled without an admin; follows the provider |
| Maintenance (`governance/maintenance.py`) | `MaintenanceWindow`, a cached state | enable, schedule, cancel, end, advance, notices | a cache filled by a slow reader, duplicated and reordered tasks | one open window, on time, told once |
| Sign-in (`accounts/*`) | `active_session_token`, MFA keys, trusted devices, reset links, rate counters | login, MFA, log out everywhere, reset | concurrent logins, whole-row saves, non-atomic cache counters | one browser per account, bounded guesses, who is blocked was counted |
| Organization (`governance/views.py`) | users, teams, departments | add, role, department, team, delete | two-sided relations, stale rows | `Team.manager` and `User.team` agree; an Admin stays in the department |
| Department scope, reports, audit | none of their own | lists, posts, exports | two spellings of one rule | a list is what its posts accept |
| Plans and settings pages | `Plan`, switches, rules, `EmailSettings`, feature toggles | forms | a form writes more than it shows | a page changes what it shows |
| Branding, media (`governance/branding.py`, `media_service.py`) | files, `SiteBranding`, cached CSS | upload, replace, scan, bulk delete | files and rows are not in one transaction | no referenced file is deleted; no stale style sheet |
| Notifications, mail (`notifications/*`) | `Notification`, `EmailLog` | notify, send, retry, trial sweep | check-then-create, retries after sending | once per event; sent means accepted |
| Start pages and alerts (`governance/dashboards.py`) | `SYSTEM_ALERT` notices, a cached snapshot | open a page | counting while rows change | a number is what its link lists; everybody is told once |
| Task monitor, backups | cache records, a bucket | signals, dump, verify, prune | overlapping runs, kills, truncated uploads | reports the last outcome; the last whole backup stays |
| Pricing, tax, billing profiles; invoice documents; domain generator, playground, search; wire formats; deployment | see section 7 | | | |

**How they interact.** The invoice's row is shared by recipient and admins; marking it PAID (three
places) calls the plan sync, which writes the row of `UserPlanAssignment` that admins, cancellation
and the daily tasks write too. Chat reads the assignment, the quotas, the overdue invoices and the
model rules before it creates the rows of a turn; the reply is then generated by a separate GET that
the browser may repeat. The maintenance middleware and the single-session middleware read on every
request. Celery runs the notices, the sweeps, the mails and the syncs, at least once and in any
order. What those parts share with the rest of the program are columns that a module names in its
`VARIABLES`; a module's environment writes them as freely as the other components may.

## 2. The modules

**Billing**

| Module | Models |
|---|---|
| `InvoiceLedger` | abstract: the status graph of an invoice |
| `Invoices` | every handler on an invoice as one atomic action; implements `InvoiceLedger` |
| `InvoiceRequests` | the same handlers as concurrent requests with locks, stale pages and crashes; implements `Invoices` |
| `Subscription` | the plan that follows the payments; its rows move along `InvoiceLedger` |
| `DailyTasks` | the two daily tasks: the sweep that bills and the reminders |

**Chat**

| Module | Models |
|---|---|
| `ReplyStream` | the generation of replies |
| `ContextWindow` | what a request carries of its conversation |
| `LiveNews` | headlines, their two cache entries and the refresh button |
| `ChatQuota` | conversations, messages, tokens and kinds of request against the caps of a plan |
| `AccessRules` | the choice of a model for a reply and its fallbacks |
| `UsageLimits` | who governs a cap, and the pages that count who nears it |

**Accounts and people**

| Module | Models |
|---|---|
| `HitWindow` | abstract: a limiter never blocks anyone it has not counted |
| `RateLimit` | the shared counter with expiry, outages and the local fallback; `OnlyBlocksCounted` is that it implements `HitWindow`, and `LimiterHolds` adds its invariant |
| `SignIn` | the current session of an account, stale saves, reset links |
| `TrustedDevice` | the mailed code and the one browser that may skip it |
| `Organization` | accounts, teams, departments |
| `DepartmentScope` | what an Admin is shown and may post |

**Administration**

| Module | Models |
|---|---|
| `PlanSettings` | one plan and the three pages that change it |
| `SettingsRows` | the other switches and small forms |
| `FeatureToggles` | the visibility page and a request's own cache of it |
| `SingleChoice` | default plan, most popular plan, active prompt |
| `SmtpSettings` | the mail server's row, its form and its test |
| `ProviderSync` | a provider, its models and the syncs |
| `MediaLibrary`, `Branding` | files and the columns that refer to them; the CSS of the branding row |
| `Maintenance` | windows, cached state, notices |
| `Notices`, `Mails` | who has been told already; the e-mail of one notification |
| `Dashboards`, `SystemAlerts` | the start pages; whom a critical item is told |
| `TaskMonitor`, `Backups` | the records of the tasks; the database dumps |

`InvoicesProofs` (of `Invoices` and `InvoiceRequests`, and of `ChatQuota`), `SubscriptionProofs`, `ReplyStreamProofs`, `OrganizationProofs`, `PagesProofs`,
`BackgroundProofs` and `PlatformProofs` hold the theorems. `BackgroundProofs` puts what runs without a
user in front of it side by side (`DailyTasks`, `Maintenance`, `SingleChoice`, `ProviderSync`, `Notices`,
`Mails`), `PlatformProofs` what every part relies on (`SignIn`, `TrustedDevice`, `RateLimit`,
`TaskMonitor`, `SystemAlerts`, `Backups`), `OrganizationProofs` what administrators manage (`Organization`,
`DepartmentScope`, `MediaLibrary`, `Branding`, `AccessRules`, `FeatureToggles`, `SettingsRows`, `SmtpSettings`),
`PagesProofs` what they look at (`PlanSettings`, `UsageLimits`, `Dashboards`): each component is an
instance with its own variables. The `MC*`
modules give constants their values and put several specifications, each with its own variables, into
one run: a behaviour picks one of them at the start (`part` or `instance`), and the others stand
still, in one initial state where that is possible. Their properties name those of the modules and
say in a comment what they come to. `MCBackground` serves two runs, each with a specification of its own
that lets other components move.

### InvoiceLedger, Invoices, InvoiceRequests

`status` is `Invoice.status` with `"none"` before and `"deleted"` after the row; `verifiedAt` is
`verified_at` in days; `claimFor` and `claimStatus` are the rows of `RefundRequest`. `settledAt` is a
history variable: the day the invoice last became PAID. One action per handler: `SubmitProof`,
`VerifyPayment`, `RejectPayment`, `ToggleStatus`, `RequestRefund` (both outcomes),
`ApproveRefund`, `RejectRefund`, `DeleteInvoice`, and the two ways an invoice starts, `IssueUnpaid`
and `IssueCovered`. Amounts, line items, texts and departments do not affect the status and are left
out; scoping (which admin may touch which invoice) is a guard that only removes steps, and is
`DepartmentScope`'s subject.

`InvoiceRequests` splits each handler at its database statements: the unlocked read that authorises
it (`Begin...`), `select_for_update` (`LockRow`, `LockUser`) and the write with the commit
(`Commit...`). `seen` is what was read under the lock. `Abandon` is an early return, a 404 or the
death of a worker, which rolls the transaction back. `generate_invoice` and the DELETE statement run
beside them.

### Subscription

All rows belong to one recipient: no statement here reads another recipient's. `terms` holds the
columns an invoice is issued with, `assignment` the row of `UserPlanAssignment`. `sync[w]` is where
web worker `w` stands in `_sync_plan_assignment_to_paid_invoice`, which starts after PAID has been
committed: `SyncRead` (`get_assignment`), `AssignRead` and `AssignSave` (`assign_plan`: it reads and
writes the whole row), `SyncExpiry` (the final `save(update_fields=["expires_at"])`). An admin's plan
change enters at `AssignRead`. `Crash` kills a worker between two statements. The covered checkout
does all of it in its own transaction and is one action. A month has `MonthDays` days and prices are
`Rate` per day, which keeps the credit's arithmetic and leaves out calendars, tax and rounding.

### DailyTasks

The two daily tasks of `billing/tasks.py` for one recipient. `due`, `reminded` are the columns
`due_date` and `reminder_sent_at`; ids follow the issue dates, so the latest invoice is the one with
the greatest id. `sweep` is where `sweep_due_invoices` stands: `SweepLatest` reads the latest invoice
and asks whether its next cycle is in the window, `SweepCheck` whether it was generated or is not
billed, `SweepCreate` inserts it. `task` is where `send_overdue_reminders` stands: its candidates
are read once, then taken one by one, each mailed (`SendReminder`) and then saved (`SaveReminder`),
which raises when the row is gone. Any invoice may be issued, backdated, paid, refunded or deleted
in between. A task is stopped after 30 minutes and so does not see midnight; its own retries follow
one another. The two tasks share the rows and the date; the run lets each of them loose on its own.

### ReplyStream

`reply[t]` is the assistant's `Message` of a turn: `content` is `""`, an answer or a problem text;
`generating` and `age` are `is_generating` and the time since `generation_started_at`, which the claim
sets and nothing renews. `conn[c]` is a
GET of `stream_message`: `loaded` after the first read, `claimed` after the conditional UPDATE,
`calling` inside the fallback loop, `release` and `release2` before the two UPDATEs of the `finally`
block. `SaveContent` and `SaveWholeRow` are Django's two kinds of `save()`: the first writes
one column and nothing when the row is gone, the second writes every column as it was loaded and
inserts the row again. `Kill` is the death of a worker (no `finally`), `Disconnect` that of the
browser (a `finally` with the partial text). `Tick` ages the claims and the calls alike: `elapsed` is the
time in the present call and `held` the time since the connection's claim, over all the candidates tried under
it. `crossed` marks a connection whose reply was asked for again, or left blank by another, while it was at
work on it, `shown` the replies of which text went out since they were asked for.

### ContextWindow, LiveNews

`ContextWindow` makes one request: four queries load the number of turns, the newest turns, the
opening message and the older questions, and the conversation may change between them. `Fit` keeps as
many of the newest turns as the budget takes, sets part of it aside for notes on the rest, and
`CheckPlan` and `TryModel` refuse or ask in the order of the code, once for every model that is
tried. Tokens are scaled down and kept, words are not. `LiveNews` has a fresh entry and a last-good entry per category, each with its time of
fetching; two requests look, fetch and store side by side, and the cache may fail at any command.

### ChatQuota, UsageLimits

`ChatQuota` is one user's conversations and messages in one window (a day or a month): `req` is where
a request stands between the lock of its conversation, the counts and the insert. `UsageLimits` has
the rows of `UsageLimit` by primary key: `_effective_limit` takes the first, the batch pages
(`look`) keep an arbitrary one, and limits, departments, tokens and plans are read one after the
other while `changes` happen. Percentages are computed with Python's rounding.

### AccessRules

The filters (enabled, plan, team, permission, region, zero retention) are rows that administrators
change at any action. `reply` is where the generation stands: manual choice, routing rule,
classifier, tiers from the cheapest up, fallback over budget, then the candidates that are asked one
after the other. `since[f]` collects what has passed filter `f` since the reply began:
`AskedWasAllowed` says that whatever is asked passed each filter at some moment of the reply. The
classifier's own request is exempt there, and is the subject of the run `Compliance`.

### RateLimit, SignIn, TrustedDevice

`RateLimit` has the commands of the cache one by one (get, add, incr, set with an expiry), the
process-local counters used when one fails, and the two ways a key counts (every call, or failures).
`SignIn` keeps the columns of `User` that single session and reset links depend on; `req` is a request
with the row it has loaded, and `lost` marks that a whole-row save has written back an older token or
password. `TrustedDevice` has the mailed code with its expiry, attempts and resends in each browser's
session, and the two statements of a registration (revoke the others, create one).

### Organization, DepartmentScope

`Organization` has two requests at once (`req`), each with the rows it loaded, and commits
them column by column or whole, as their `save()` does, while others add, move, demote and delete;
`raced` marks a commit over rows that changed. `DepartmentScope` states the two spellings of the
scoping rule side by side, the querysets of the lists (`..Listed`, `Report..`) and the checks of the
posts (`May..`), and runs posts whose department was checked before the write.

### Maintenance, Notices, Mails

In `Maintenance`, `window` is the table, `cache` the value under `STATE_KEY`, `visit[r]` a request
inside `current_state` (`advance`, `read`, `store`: the three calls that another process can come
between). `queue` holds the tasks of `send_maintenance_notice`, `job[k]` what a Celery worker is doing
(between taking, claiming, mailing the recipients one after the other and finishing), `notified` the
claimed `notified_<kind>_at` columns. `Commit` applies a transition, drops the cached state and
queues the notices; the broker or the cache may be down, or the process may die after the commit.
`Notices` has the created times of one user's notices and the two places that look for an earlier one
(the trial sweep, the chat's usage warning); `Mails` follows one notification through
`send_notification_email` with retries, refusals, exceptions after the server's answer, and the bell.

### Administration

`PlanSettings`: `req` is a form with the row it was loaded from; `aimed` is what an administrator last
chose for each column, `undone` the columns a page has overwritten without showing them.
`SettingsRows` does the same for a row of any of the small forms (`kind`). `FeatureToggles` locks the
features in the order of the form, `SingleChoice` whatever rows its UPDATE meets under READ COMMITTED,
deadlocks included. `SmtpSettings` separates what is typed, what is saved and what was tried.
`ProviderSync` fetches the list, then upserts, retires and records in separate statements.
`MediaLibrary` writes the file first and the row later, and its scan and bulk delete look at rows and
files at different moments; `lost` and `left` name the only ways a file may go missing or stay behind.
`Branding` caches CSS by preset and version. `Dashboards` counts each kind of row by a query of its
own (`Reads`) and lists what it raises under keys (`Add`); `hidden` are those of an Admin's two optional
pages whose feature is switched off. `SystemAlerts` looks up and creates the
notices one SuperAdmin at a time. `TaskMonitor` reads, changes and writes one cache record per Celery
signal. `Backups` dumps, uploads, lists, verifies and prunes, and may fail or be killed anywhere.

## 3. What is checked

| Run | Parts and bounds | Shows |
|---|---|---|
| `Invoices` | money: 2 invoices, 3 refund requests, 4 days, window of 1 day. plans: 2 forms, 2 posts. limits: 2 rows, 2 changes, tokens at and beside the caps and 80 %. start: 2 accounts, 1 department, 2 changes while a page is made | refunds are decided once and in time, REFUNDED is final, the ledger is implemented; pages of a plan keep apart; pages count by the gate and by their links |
| `RowLocks` | 3 invoices, 2 requests, 2 refund requests, 2 offers, 2 days (one invoice with all handlers; three with checkout, toggles, deletion). quota: 2 requests in 2 conversations, 2 windows, 3 messages, caps of 1 and 2, with comparisons or with images | locks make handlers atomic: `Spec` of `Invoices` holds; no duplicate checkout; caps are passed by one request at most |
| `Subscription` | 2 invoices, 2 workers, 2 days, 2 plans with crashes and admins; 3 plans with upgrades, fair, no crash | no plan or time without a confirmation; the plan arrives and has an end |
| `ReplyStream` | 2 turns, 2 connections, 2 candidates, 1 killed worker, fair, a claim trusted as long as one call and less than two; 1 turn asked for twice with every interruption and the same times; a window of 3 turns with 4 questions asked; 2 requests for headlines, 2 fetches, 4 moments | a second call for a reply only when the first claim was too old to be trusted, none after text but such a takeover, every pending reply is resolved; claims end with their connection; what is sent fits, is newest and tells; headlines are as old as they say |
| `Schedules` | 4 invoices, cycle of 2, window of 1, 3 days, 1 failure; 2 invoices, threshold off or 1 day, 1 failure; 2 windows, 1 visitor, 4 moments, cache of 2, fair | no cycle twice or too early, the next invoice arrives; everybody is reminded, a second mail has a failure behind it; stale for less than the TTL, never closed after the end, the site reopens |
| `Platform` | 2 processes, limit and window of 2, 1 outage; 2 browsers, 2 tokens, 1 reset; 1 attempt, 1 resend; 2 runs of a task; 2 SuperAdmins; 3 dumps in the order of their days, 2 kept, 3 days | who is blocked was counted (`LimiterHolds`); only the newest session is served; guesses are bounded; the status page reports; everybody is told; the last whole backup stays |
| `Organization` | people: 3 accounts, 2 teams, 2 departments, 3 requests, 2 at once. scope: 2 accounts, 2 departments, 2 teams, 1 limit, 1 invoice, 3 acts. files: 5 files, 2 workers, 2 jobs, 1 scan, 1 deletion. branding: 3 saves. access: 2 models, 2 changes. features: 2 switches, 2 posts. settings: 3 columns, 3 saves. server: 3 acts | the relations agree; an Admin stays in the department; lists are what posts accept, and reports count what the pages list; no file is lost unexplained; no model that a rule forbade; forms write their own |
| `Operations` | 3 choices, 2 workers, 3 transactions; 2 models, 2 syncs, 2 changes, 3 acts; a trial of 2 days; 3 warnings; 3 retries; 1 window without visits, 2 workers, 1 failure | one choice; a retired model is off; late jobs undo nothing; nobody is told twice; background work ends |

Runs that find a violation, each of what a comment of the code says:

| Run | The code says | TLC shows |
|---|---|---|
| `EditDiscards` | `edit_message` discards the replies after the edited message (`chat/views.py:1187-1188`) | a stream that is running ends with `message.save()`, which inserts its deleted row again |
| `ClaimTaken` | a claim is "never reclaimed out from under a request that's still legitimately running" (`chat/views.py:1482-1484`) | it is longer than one call, but covers all candidates: while the second is called the claim is taken, and two calls run for one reply |
| `CustomLogos` | `is_referenced` is a "fresh, exact check against every place" (`media_service.py:597`) | it does not ask for `custom_logo_light` and `custom_logo_dark`: a logo in use is deleted as an orphan |
| `Compliance` | the region is "a hard ceiling on which providers this department's requests can ever reach" (`accounts/models.py:20`) | the classifier sends the text to the cheapest economy model of all |

**Properties of several parts.** A run's property such as `PagesSafe` is a conjunction of the named
properties of its modules, each stated and explained where it belongs; the mutants of `PROJECT.json`
break the parts one by one. Invariants of the form `part = "x" => ...` are about the part whose
variables move.

**Why the bounds are enough.** The races are between two actors on one row, so two requests, workers,
connections, browsers or administrators suffice, with one more row or actor where a property counts
them: a duplicate checkout needs three invoices, a cycle billed twice four (the first, the sweep's, a
backdated one, the sweep's again), backups one
more than are kept. Days and moments only matter relative to a window, an expiry or a
time to live: each run has a moment before, at and after. Numbers that are compared with a bound take
the values beside it. Every bound is a constant named `Max...`, a set of model values, or `Ops`, which
selects the handlers the users of a run call. Symmetry is used only without liveness properties, over
model values that no module orders. Deadlock is not checked where a bound ends a run.

**Histories that excuse.** Several properties hold "unless two requests crossed". Each such excuse is a
history variable set at the one step where the code loses a write (`lost`, `raced`, `overlapped`,
`crossed`, `undone`, `mixed`, `muddled`, `phantom`, `killed`); the property says that nothing else breaks the
promise, and section 5 lists what the excuse stands for.

**What a run leaves out on purpose.** In `ReplyStream` the first part has two turns with edits and is
where liveness is checked; regenerations, cached and blank answers and faults are the second part's,
on one turn. Both have the proportions of the code: one provider call (60 seconds, tried six times) is no
longer than `STALE_GENERATION_TIMEOUT`, two are longer, so live claims are taken over. `OneCallPerReply`,
what the comment says, is false of it and has a run of its own; `CallsApart` is what is left of it: of two
calls for one reply one was claimed more than `StaleTime` after the other. It speaks of connections that are not
`crossed`: a reply that is asked for again or left blank may be claimed by whoever comes next. The
instance `arrives` of `Subscription` runs without crashes: nothing resumes a sync that died. The daily tasks
have one run at a time.

**Fairness.** `Subscription`: a web worker that is not killed goes on with its request (weak fairness
per worker). `Schedules`: beat dispatches the daily tasks and a worker runs them (weak fairness of
`SweepStep` and `TaskStep`); days, moves and failures are not fair, failures are bounded. For the
windows, visits come and finish (weak), and the clock has strong fairness, because it is modelled as
standing still during the instants of a visit while the real one does not wait; admins and the beat
task are not fair there, so the site reopens without them. `ReplyStream`: each connection's steps, the
`EventSource` that reconnects while the reply is pending, and time (all weak); edits, disconnects and
kills are not fair and kills are bounded. `Operations`: a transaction's next statement (weak: Postgres
breaks a deadlock and the request then fails), the dispatch and the steps of a sync (weak) and its
fetch (strong: fetches may fail again and again, but not for ever), the
steps of the daily trial sweep (weak).

## 4. What is proved

The provers check, for every value of the constants, what the runs show for small ones. Each theorem
rests on an inductive invariant that TLC checked first, kept by one lemma per action or group of
actions. Assumptions about constants are named and say of what type a constant is, that a null is none
of the values it stands for, and that what is counted is finite; a theorem with a further hypothesis
says so in its statement.

| Module | Theorem | Says |
|---|---|---|
| `InvoicesProofs` | `Typing`, `RefundDecidedOnce`, `WindowBounded` | types; one refund, paid back when one was granted; the window never starts later than the confirmation |
| | `UnreviewedRefundsInTime`, `RefundedStaysClosed` | unreviewed refunds are in time; REFUNDED is only ever deleted |
| | `ImplementsInvoiceLedger` | `Invoices` implements `InvoiceLedger` |
| | `RequestsTyping`, `RequestsDecideOnFreshRow` | what was read under a row lock is true at the commit |
| | `RequestsImplementInvoices` | concurrent requests that may die anywhere implement `Invoices` |
| | `CommittedTogglesFlip`, `CheckoutNotDuplicated` | two clicks toggle twice; no duplicate checkout |
| | `QuotasHold`, `QuotasStay` (of `ChatQuota`) | caps hold, or are passed by less than the number of requests; only rewriting gives back |
| `BackgroundProofs` | `SweepBillsOnce`, `TasksAreSafe` | the sweep bills no cycle twice, none too early; a second reminder has a failure behind it |
| | `StateIsSafe`, `NoticesAreSafe` | a stale maintenance state is younger than its time to live; each notice is sent once at most |
| | `CatalogueIsSafe`, `DecisionsStay` | one default, one prompt; a retired model is off; late syncs and posts undo no decision |
| | `NotificationsAreSafe` | a user is told once of one thing, and mailed once of one notification, but for the causes named |
| `SubscriptionProofs` | `PlanTypeCorrect`, `PlansArePaidFor` | types; no plan without a payment or an admin |
| | `SubscriptionFollowsLedger` | the plan's invoices implement `InvoiceLedger` as well |
| | `TimeIsPaidFor` | no expiry beyond the confirmed time; unless a worker was killed, a bought term has an end |
| `ReplyStreamProofs` | `StreamTypeCorrect`, `ClaimsAreReleased` | types; a stream that went wrong leaves no claim |
| | `RepliesAreSafe`, `NeverRerunSilently` | two calls for one reply are claimed `StaleTime` apart, and what was shown stays claimed or answered; only a claim too old to be trusted is taken from it |
| `PlatformProofs` | `NewestIsServed`, `SessionsEndInOrder` | only the newest session is served; a link is good once |
| | `AccountsAreSafe` | that, and: one trusted device but for overlaps, guesses bounded, a step skipped only by the device |
| | `UpkeepIsSafe` | the status page reports what happened; a whole backup stays, the newest are not pruned |
| | `LimitersHold` | `RateLimit` implements `HitWindow`: who is blocked was counted; what a window lets through is bounded while the cache stays up |
| | `NobodyIsUntold` | every SuperAdmin is told of a critical item as it begins, and no more often than allowed |
| `OrganizationProofs` | `ManagersAgree`, `AdminsStayWithin` | teams and roles agree; an Admin stays in the department |
| | `PagesAreScoped`, `PostsAreScoped` | lists are what posts accept, without a department nothing; counts agree; a post writes rows of its department |
| | `AssetsAreSafe` | no file in use is missing and none unused is left, but for the causes named; no page is served a stale style sheet |
| | `AccessIsSafe` | no model is asked that a rule forbade since the reply began, and research goes to Claude alone |
| | `SettingsAreSafe` | a posted form is in force as a whole and writes its own columns; a server said to work was tried |
| `PagesProofs` | `PagesAreSafe` | a page of a plan writes what it shows; counts go by the limit the gate obeys; a start page lists each problem once, with the number its page lists |

**Invoices.** `RefundedOnce` is inductive together with `TypeOK` and the fact that a request that is
open or granted refers to a row that exists; `WindowNeverStretched` needs that nothing is stamped in
the future, `verifiedAt[i] <= today`. `UnreviewedRefundInTime` follows from it: the refund is within
the window counted from `verified_at`, which is not later than the confirmation. The refinement of the
ledger is a step simulation: every action is a `Move` of the ledger or leaves `status` alone.

**InvoiceRequests.** `DecidesOnFreshRow` is not inductive: `RequestInv` adds the types, that a request
that resolves a claim names an invoice, what a request may be doing at each of its steps, and that a
locked row exists. The argument has two halves: the holder of a lock changes nothing before it commits,
and nobody else changes the row it holds (`OthersKeep`, `HeldRowKept`). A commit is then the atomic
action of `Invoices` because its guard, evaluated on the row as it was read, is true of the row as it
is; so everything proved of `Invoices` holds of any interleaving of requests
(`RacingRefundsDecidedOnce` is the corollary for refunds). `CheckoutInv` says that a checkout which
found no open invoice for its plan and duration under the user's lock would still find none.

**DailyTasks.** `DailyInv` has a part for each task, and the steps of one keep the part of the other.
For the sweep: the answer of the already-generated check still holds of the sweep's own invoices when
the task inserts the next one, since rows of others are not the sweep's and a deletion removes rows
only; and the date it was given for is still today's. For the reminders, `RemindersExplained` is not
inductive: an invoice that is a candidate, or could become one because its mail is not recorded, has
been mailed no more often than the task has failed. A mail adds one and leaves the candidates; the mark
takes it out for good; when the row is gone it cannot return; and a failure adds one on the other side.

**Subscription.** The sync runs after the payment was committed, so `PlanInv` follows its worker: a
worker that is anywhere in the sync has an invoice that was confirmed and the plan of that invoice
(`Founded`), or a plan an admin has given. What founds a plan only grows (`SourcesGrow`): the history
keeps a confirmation that is taken back, and the terms of a confirmed invoice are not rewritten. So
no kill, refund or deletion between two statements takes the ground from a worker. `TimeIsPaidFor` adds
`EndIsComing`: a plan of fixed terms without an end has a worker about to write it, unless one was
killed (`killed`), for with a kill there the term has no end (section 5). And it adds `TimeInv`: an
expiry, and what a worker has read of one, are no later than the last day the confirmed payments
reach *less the days that workers have still to give*. Confirming adds the same days on both sides; the
final save moves the expiry and what is owed together; whoever reads in between reads a date that
leaves room for all that is owed. `TimeIsConfirmed` alone is not inductive: two workers that have not
written yet would each be free to use up the same room. The sums are cardinalities (`Under`, the points
under a function: as many as its values sum to), because what a fold adds up needs induction over data
while that a cardinality grows by what one value grows by (`UnderRaised`) does not.

**ReplyStream.** None of the theorems has a hypothesis: calls and claims may be of any length, and any of
the environment's operations may come. `StreamInv` says that whoever is at work on an unanswered reply and was
not crossed finds it claimed, by a claim that is its own or younger (`ClaimHeld`): releasing a claim that is
another's, or leaving the reply blank, is what crosses. A claim that succeeds there is therefore older
than `StaleTime`, and so was everybody's at work: whoever was calling has held for longer, which is `Apart`
of the newcomer, who has held for no time, and `Tick` ages both alike. `ShownIsHeld` is kept with it: text goes
out only from a connection that holds, and each way for a holder to stop leaves the text as the
answer (the `finally` block) or the claim in place (a kill). `HeldInTime` bounds `held` by the calls made.

**ChatQuota.** A check and its insert are apart, so a count alone is not inductive. `Room` counts the
rows together with the requests that have passed the check and not yet inserted: they stay
below the cap and the number of requests, because each passed while the cap was not reached and inserts
once. Under the lock of a conversation there is one such request at most, so its cap is exact, but for
the prompts of `generate_media`, which take no lock. That a cardinality grows by at most one with each
row is where the finite sets of the library come in.

**AccessRules.** A rule is read at one moment of the reply and the model asked at another.
`AccessInv` says that what is left after each filter was let pass by it since the reply began
(`since` only grows), that the candidates and whatever was told have passed all four, that the cached
region is one the department had since then, and that nothing is left of an earlier reply when none is
made. The order in which tiers and prices are tried is any order that sorts them: the theorem does not
depend on it. The classifier is not among what it speaks of.

**Maintenance.** `WindowInv` has two halves. For the notices: whoever is past the claim of a notice has
claimed it, and alone, so nothing was sent under that claim by anyone else; a withdrawal is only in
hand where the announcement was claimed before. For the states: a cached state that no longer tells the
truth was stored no later than the change that made it wrong (`cache.expires - Ttl <= changedAt`), and
so was a state that a visit is about to store, because the instants of a visit take no time; hence a
reader is misled for less than the time to live. Each half is kept by the steps of the other.

**SingleChoice, ProviderSync.** `ChoiceInv` follows each transaction: it turns on its own row only, no
two of them hold a row in common, and one that clears has on its list, or turned off already,
whatever is there besides its own row (`Clears`). So a commit leaves one row on, unless a row was made
that the UPDATE of another could not see (`phantom`). In `SyncInv` a toggle is of a model the catalogue
has; nothing else is needed, since each statement that retires a model also turns it off.

**Notices, Mails.** The warnings on their way count as given (`WarningsBounded`, as with the quotas):
within one gap no more than there are workers, unless the user deleted notices. `ToldKnown` says that
the sweep only tells of an assignment nobody was told of when it looked. `MailInv` counts: as many mails were accepted as
attempts broke after the server's answer, and the one under way.

**SignIn.** Tokens are numbered in the order in which they are given out, and each browser's
session is dated by the sign-in it came from. `SessionInv` says that a session with the row's
token is the newest and any other older, that a request goes by the token it saw when it loaded the
row, and that a used link is of an older password, all unless a whole-row save has written an
older row back (`lost`, section 5).

**TrustedDevice.** `DevicesFollow` orders registrations by the revocations they made: a device that
stands was created after the last one, so it is the only one, unless a registration was overtaken
between its two statements. `GuessesPaid` charges every guess to a code that was sent.

**RateLimit.** `LimiterInv` says that the shared counter and each local one has counted no more than
what was counted since its window began (`Sound`); a full counter has therefore `Limit` calls to show,
which is `HitWindow`'s condition for a block. `CountedBounded` needs another argument. `QuietInv` divides
the calls counted so far by what counted them and for whom: each started the counter, added to it or was
counted locally. A process starts one window at a time (`StartsApart`), counts locally twice within a
window at most (`LocalsApart`: it must have read the counter before it expired), and between two starts
no more is added than the limit leaves plus those who had read before (`AddsBounded`). The division is
not unique and is no state of the program, so the invariant says that there is one. The earlier bound,
twice the limit for each process, holds for the two processes of the run and is false for six: the
attempt to prove it gave the present one.

**TaskMonitor.** A signal reads the record and writes it back later, so `MonitorInv` says what a pending
update will make of the record: the outcome it bears, that any other pending update has read an older
record, and that the run which the record names works or has died since. All of it but the types holds
until updates mix (`mixed`).

**SystemAlerts, Backups.** While a page tells, everyone it has passed has a notice within its window, and
those who are left have none of this page (`LeftUntold`). In `Backups`, whatever is about to be deleted
has `MinKept` backups before it and is older than the backup its job has verified (`DoomedAreOld`); a
job under way began less than the retention ago, so that no other one prunes what it has stored.

**Organization.** `PeopleInv` says of each request in progress that the rows it has loaded have the
form its handler checked (`Formed`) and are in its author's scope (`Scoped`), that teams have a
department, and the agreement of `Team.manager` with `User.team`. The writes of two requests
keep the agreement when the rows are still what they were; the history `raced` marks when they are not.
`AdminsStayWithin` follows from the same facts of the request that commits.

**DepartmentScope.** The pages and the posts ask one question in two spellings, so what is listed and
what is accepted are proved equal from the types alone (`ListsAgree`, `NothingListed`): a missing
department is `None`, which no department is, and each spelling is asked whether it treats it so. The sums
are cardinalities again: the points under a table of counts are the answers it counts (`TableTotal`). For
the posts, `ScopeInv` says that what a form has checked of its row still holds (`IsOurs`) as long as
nobody has moved since; only one post is under way at a time, so nothing but a move can disturb it.

**MediaLibrary, Branding.** `MediaInv` is about the files nobody has lost sight of (`lost`): such a file
is on disk for whoever refers to it, a worker that is about to save a row with it is the only one to
hold it, and one that a scan or the bulk delete is about to remove is referred to by no row the check
asked for and held by no worker. A worker that writes the file before the row, and a scan that reads the
rows before the file is gone, are what puts a file into `lost`. In `BrandingInv` a version belongs to one
row of those in use, a page's included (`OneRowEach`), so what is cached under a row's key is that row's
style sheet (`CacheTells`), until two saves share a version (`overlapped`).

**FeatureToggles, SettingsRows, SmtpSettings.** The visibility page locks the rows in the order of the
form, so a post holds exactly those it has written (`PostHolds`); whoever comes second waits at the
first row. Hence no two wait for each other and one form is in force as a whole. A request's answers are
all from its own cache (`VisitTells`). `RowsInv` and `TestInv` follow a form from the row it was opened on
to its save: a model is only deleted when no reply named it as the check looked, a test proves what it
tried.

**PlanSettings, UsageLimits, Dashboards.** Three pages that read first and use later. `PlanInv` says of a
form under way that each column it will write without showing it is as it was read, or is marked
as out of date by whoever saved it since (`PostTells`); so what the save undoes is in `undone`, and a
switch whose model or cap it has looked for finds them there. `UsageInv` says of what a count has noted of
a person that each cap and the use are those of the moment before it began or of now, and that only one of
them is another now (`Before`), as long as no more than one thing changed and nobody has two rows; the row
that a batch keeps is then the one that governs. So the verdict is that of the gate before or after. That
the widget's rounded percentage tells when the gate will refuse is arithmetic: rounding is off by a half at
most (`Halves`).
`DashInv` says that each number already on the page counts what is there as long as nothing changed
(`Agrees`). The items are built by adding one after the other; each addition keeps that no key
occurs twice and that the keys are those of the problems found so far (`Shows`), and a sequence without
repetition has as many elements as keys (`ShowsKeys`).

**Only model-checked.** Liveness under fairness and anything with `ENABLED` is outside the prover: that
a plan arrives, that replies are resolved, that everybody is reminded and the site reopens, that
background work ends. So is induction over data, on which the windows of `ContextWindow` rest. The
one invariant that no theorem states is therefore `RequestSafe`, of `ContextWindow` and `LiveNews`.

## 5. Known divergences

Met while the modules were written. Those with a run are in section 3; the others are what the
excuses of section 3 stand for, or follow from the guards and actions of the module they concern.

**Billing**

| Where | What happens |
|---|---|
| `billing/views.py:1237` | paid, refund requested, toggled to unpaid, request approved: an invoice that is not paid is refunded |
| `billing/models.py:345` | a toggle to PAID leaves `verified_at` empty, so its refund is reviewed instead of automatic |
| `billing/models.py:300` | two invoices created at once compute the same next number: one insert fails |
| `billing/views.py:932` | paid, toggled to unpaid, toggled to paid: the months count twice |
| `billing/invoicing.py:131` | two upgrade checkouts before either is paid carry the same credit |
| `billing/views.py:897` | two renewals confirmed at once read the same expiry, one is lost |
| `billing/views.py:863` | a trial or an admin's plan has no paid invoice, so leaving it stacks onto its expiry |
| `billing/views.py:907` | a worker dies between `assign_plan` and the expiry: a paid term without an end |
| `governance/plans.py:59` | a cancellation between the read and the save of `assign_plan` is undone |
| `billing/views.py:962` | refunded between the verification and the sync: the plan is granted all the same |
| `billing/access.py:22` | a refunded invoice past its due date blocks the chat and is reminded of |
| `billing/tasks.py:69`, `72` | a customer who prepaid a year is invoiced again after a month; two sweeps at once both pass the already-generated check |
| `billing/views.py` (generate) | an Admin's invoice for a user of a department without a plan belongs to no department and to no Admin |

**Chat**

| Where | What happens |
|---|---|
| `chat/views.py:1848` | an empty answer, an exception or a cached answer that is cut: the second UPDATE releases the next connection's claim |
| `chat/views.py:1519` | one claim covers all candidates of a reply and is not renewed: the run `ClaimTaken`; the stream that lost it goes on, saves its text and releases the other's claim |
| `chat/views.py:1543` | an exception in `load_window`, before the generator exists, leaves the claim |
| `chat/context_window.py` (`fit`) | near the budget less than the notes' first line is set aside and the note is sent all the same: the request overruns by up to `NOTES_RESERVE_TOKENS`, and the plan may refuse a message that fits |
| `chat/views.py:497` | a second message while a reply is pending, or regenerating a reply that is not the last: the last turn sent is not this reply's question |
| `chat/views.py` (edit) | the edited text skips the PII rules (so do media prompts and the domain generator) and the length check |
| response cache | a research reply is stored under the key of ordinary ones |
| `chat/live_intelligence.py` | the prompt says "retrieved just now" of a copy up to a day old; one live card makes the overall label live; a failing cache answers a refresh with "already refreshed" |
| `governance/plans.py:510` | regenerating resets tokens and cost, editing deletes messages: both give back quota |
| quotas | at the cap of a conversation an edit is refused although it adds nothing; an uploaded and a generated image count together; an expired plan without a session limit still opens conversations |
| `governance/plans.py:14` | without a plan an explicit denial is ignored; taking a denial back leaves an explicit grant, which outlives restrictions of plan and team; a manager's grant outlives the membership and the pool |
| domain generator (`views.py:147-179`) | asks models without regard to zero retention, region and plan |

**Limits and pages**

| Where | What happens |
|---|---|
| `UsageLimit` | nothing keeps a second row for one target away: the gate takes the oldest, the pages an arbitrary one, `clear_user_overrides` deletes the first only, after which "their Plan alone governs again" (`plans.py:381-389`) is not so; nor is it under a department's limit |
| `governance/limits.py` | a personal row with a blank token cap lifts the caps of department and plan; a cap of 0 refuses everything while the widget says 0 %; "reached" is shown from 99.5 % |
| overview and team page | the first rounds (79.5 % is over), the second does not; a limit retargeted between the batches hides a person |
| `governance/dashboards.py` | an active maintenance window is shown as information only, the warning having the same key; a waiting proof or refund is two items for an Admin; the approvals tile warns at 0 when upgrade requests are hidden |
| `resolve_upgrade_request` | asks for no status: one request can be approved, then dismissed |
| `governance/reports.py:78` | "a department-less invoice is invisible to them" (line 70), yet the reports compare `department_id` without asking whether there is one: an Admin without a department is shown the department-less invoices, users and answers, which the lists hide; `ReportsAgree` excepts that Admin |
| audit log, usage | entries and tokens follow a person's present department |

**Accounts and organization**

| Where | What happens |
|---|---|
| `accounts/rate_limit.py:103`, `118` | the comments say a refused call counts too, and that nothing is read, modified and written; the code returns before it counts, and sets the first hit with a plain write |
| `accounts/views.py:667`, `google_auth.py:89` | whole-row saves write back a stale session token, password or last login |
| `accounts/trusted_device.py` | overlapping registrations leave two trusted devices, one that overlaps a sign-out everywhere survives it (`models.py:244`: "at most one") |
| password reset | a link opened twice before the first save is good for two passwords |
| `governance/views.py` (role, password) | whole-row saves re-create an account that was deleted meanwhile and undo other changes; department and team can disagree |
| `SingleChoice` | two default plans or two prompt versions *created* at once both stay |

**Administration**

| Where | What happens |
|---|---|
| provider approval | reconnecting makes the provider pending and leaves its models on; the toggle takes retired models |
| `governance/views.py:2164` | check, then delete: a reply saved in between loses its model's name |
| routing rules | a form that was open re-creates a rule that was deleted |
| plan form, capability page | the form can take the cap away from an automation that needs it and writes back columns it does not show; flags and models are saved in two steps |
| `governance/views.py:2006-2046` | a test of unsaved settings marks the saved ones as verified; the form overwrites a verdict or a password saved meanwhile |
| toggles | two clicks at once can both write the same value |
| `governance/branding.py:792` | two saves at once share a version: a stale style sheet for up to an hour |
| media | an upload that races its own orphan scan, or a row saved after the file was deleted |
| `governance/maintenance.py:152` | a reader stores its state after the change that invalidated it: wrong for at most the cache's time to live |
| `governance/maintenance.py:428`, `426` | an error after the claim: the notice is never sent; `cancelled` before `scheduled`: announced and never withdrawn |
| `notifications` | a plan assigned during the sweep is held to have been announced; deleting notices deletes the memory of them; an exception or a kill after the server's answer, or clearing the log meanwhile, mails twice |
| `governance/task_monitor.py` | overlapping signals lose an outcome or revive a running mark; an alert that ends and returns within six hours is not repeated |
| backups | a truncated upload has a valid name, counts as one of those kept and satisfies `ops_verify` |

## 6. Plan

What is left, in this order:

1. Proofs: `LiveNews`.
2. `RouteCache`: the response cache, whose reads and writes are one command each in `ReplyStream`.
3. Durations, discounts and tax as pure functions against a reference definition.

## 7. Not modelled

* Regional pricing, tax and billing profiles, and the numbers of plan limits: arithmetic on one row,
  without a second actor; the credit's arithmetic is in `Subscription`.
* Invoice documents, exports, e-mail bodies, templates, charts, shortcuts, the user's own page: layout.
* Domain generator, playground and search: one request each and a daily counter, without state that
  another actor changes meanwhile. Retention: a daily deletion by age.
* The providers' wire formats and file conversions, settings and deployment: external systems.
* Deleting a plan, two runs of one daily task at the same time, and the contents of prompts and answers.
