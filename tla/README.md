# Formal model of the agent-skill platform

TLA+ models of this repository's program: an internal platform where
maintainers publish packages (agent skills), with its governance, catalogue,
identities, telemetry, notices and the pages people work on them with. They are
checked with TLC on small instances. The safety properties of the server's
components and of the telemetry queue are proved with TLAPS for every instance;
section 4 says which, from what, and what is left to TLC.

## 1. The system

A version of a package is drafted, validated by an external runner, reviewed by
somebody who is not its author, and then served to clients whose install scripts
report back. The server (`src/src`) is a set of domain modules over one Postgres
database, or over memory when none is configured, assembled in `app.ts`; the web
client (`src/web/src`) only talks HTTP.

| Part (`src/src/modules/...`) | State it keeps | Operations that change it | Interacts with |
| --- | --- | --- | --- |
| `governance` | `package_versions.lifecycle`, `validation_runs`, `publication_reviews`, `version_delistings`, `user_notifications`, `domain_events` | submit, retry, approve, reject, revise, update content, deprecate, delist, emergency disable, mark a notice as read | runners (a call between two transactions), `identity` (authorization), reads `installations` |
| `governance` runners | containers, child processes, temporary directories | run a validation | called by the service, with timeouts of their own |
| `catalog` | `packages`, `package_versions`, `version_script_targets` and their revisions | create, update, archive and grade packages, create and edit drafts, edit script targets (expected revisions) | shares the row of a version with `governance`; delegates every lifecycle change to it |
| `identity` | identities, `role_assignments`, `reviewer_assignments`, sessions, login states | login, logout, grant and revoke roles, assign and revoke reviewers | asked by every other module |
| `telemetry` | `installations` | accept a report (idempotency key + fingerprint) | reports come from generated scripts, repeated and late |
| `script-generator` | on the client's disk: a queue of reports, a dead letter file, a lock directory | append, drain, lock | posts to `telemetry`; resolves the options of a script target |
| `notification` | a delivery log | dispatch an event to channels, with retries | not wired into `app.ts` yet |
| `monitoring` | the streak of a health probe | probe, alert | delivers alerts to the channels of `notification` |
| `experience` | support channels, feedback | replace the channels, send feedback, change its status | reads `catalog` |
| `analytics`, `audit`, `platform` | read models, append-only audit log | aggregate, append | read the other tables |
| `shared` | migrations table, configuration | migrate, seed, compare semantic versions | – |
| `web/src` | forms, lists with cursors, requests under way | everything a user does on a page | the HTTP routes of the above |

What is hard: a validation spans two transactions with an external call of
minutes in between, several requests may work on the same run, claims time out,
the server may die in between; content is edited, revised and reviewed
concurrently by different people, and most rights are checked before the
transaction that relies on them; telemetry arrives late, twice or never; and a
page holds what it was told a while ago, with answers that overtake one another
or are lost. What makes each part correct:

- **governance** – one open run per validating version and one open review per
  version under review; only the current attempt closes a run; a live claim is
  not stolen; what is published is exactly what was validated, reviewed and
  approved by somebody else; validations end; notices have a cause and reach
  those concerned; the outbox agrees with the tables; transactions that lock one
  another out end all the same.
- **runners** – a run gives a result; what passed was tried out; nothing a
  script started is left behind.
- **catalog** – a script target changes only in a draft, and no revision is
  replaced unseen; whoever writes had the right; lists show what can be
  maintained; the pages of a list cover it.
- **identity** – role and reviewer scope come and go together; a login state is
  used once; a session that ended stays so; an admin remains.
- **telemetry, scripts, analytics** – a report is counted once, none that was
  queued is lost, the queue has one writer and keeps its order, no script hangs
  on the lock of a dead one; what the reports fold into is what runs.
- **notification** – every target has a record, nothing that is logged as
  delivered is sent again. **monitoring** – one alert per turn, for a cause.
- **migrator** – each migration runs once, in order. **semantic versions** – an
  order.
- **pages** – a page says what is so: saved is saved, decided is decided, read
  is read; and no button waits for ever.

`PROJECT.json` lists the parts with what is modelled of each, the hazards at
their lines, and which property covers which.

## 2. Modules

| Module | What it is |
| --- | --- |
| `VersionStateMachine` | the transition table of `version-state-machine.ts` |
| `PublicationLifecycle` | abstract specification: a version moves along the table, its content is frozen from submission to decision, what is served is what was frozen |
| `Governance` | the handlers of `GovernanceService` and the transactions of `PostgresGovernanceRepository`, for one package |
| `Governance_proofs` | theorems about `Governance`, checked by TLAPS: its types, runs and claims |
| `GovernanceContent_proofs` | theorems about what `Governance` and `MemoryGovernance` publish and tell, and their refinement of `PublicationLifecycle`; EXTENDS `Governance_proofs` |
| `GovernanceLocking` | the same transactions statement by statement, with their row locks and deadlocks |
| `MemoryGovernance` | `MemoryGovernanceRepository`: the actions of `Governance` where it does the same, its own where not; implements `PublicationLifecycle` too |
| `ProcessRunner` | `process-runner.ts`: a child process, its group, output and timer |
| `TargetValidation` | one target tried out in a container or under PowerShell |
| `ReportQueue` | abstract specification: a queue of reports that grows at its tail and shrinks at its head, by what the server has or refuses |
| `TelemetryQueue` | the telemetry of the generated scripts (Bash and PowerShell) on one machine, with the server's idempotent ingestion |
| `TelemetryQueue_proofs` | theorems about `TelemetryQueue` and `Installations` |
| `Installations` | users with their machines, their scripts' reports, the folding of them by analytics, notices of new versions |
| `RunnableTime` | `timeToRunnable`: pairs, binary search, percentiles |
| `SemanticVersion` | `semantic-version.ts` and the choice of the latest |
| `ScriptTargets` | the script targets of a draft in Postgres: rows, revisions, expected revisions, calls |
| `MemoryTargets` | the same in memory, EXTENDS `ScriptTargets` |
| `ScriptOptions` | the options of a script from the form through the checks into the generator |
| `PublishForm` | the page a version is written on, EXTENDS `ScriptTargets` |
| `Catalog`, `MemoryCatalog` | packages, versions, rights and lists, in Postgres and in memory |
| `PagedList` | a page over a list that is cut by cursors: abstract, made an instance of by the two below |
| `CatalogPool`, `MaintainedHub` | the pool with filters and browser history; the maintained packages with tabs |
| `ReviewerRoles` | roles and reviewer assignments, statement by statement, in Postgres and in memory |
| `LoginSession` | login states, callbacks, sessions, restarts |
| `Identity_proofs` | theorems about the two |
| `NotificationDispatcher` | channels, attempts, the delivery log, workers that die |
| `HealthMonitor` | overlapping probes, the streak, alerts |
| `SupportChannels`, `Feedback` | the two halves of `experience` with their pages |
| `ReviewQueue`, `ReviewDesk`, `Inbox` | the list of reviews, the page of a review, the notices of a user |
| `Migrator` | runs of the migrator, also at the same time and killed |
| `Operations_proofs` | theorems about `Migrator`, `HealthMonitor`, `NotificationDispatcher`, `ProcessRunner`, `TargetValidation`, `GovernanceLocking` |
| `Authoring_proofs` | theorems about `Catalog`, `MemoryCatalog`, `ScriptTargets`, `MemoryTargets`, `PublishForm`, `SemanticVersion` |
| `Pages_proofs` | theorems about `ReviewDesk`, `Inbox`, `SupportChannels`, `Feedback` |
| `Lists_proofs` | theorems about `CatalogPool` and `MaintainedHub`, with what they share of `PagedList`, about `ReviewQueue` and about `ScriptOptions` |
| `MCGovernance`, `MCTelemetryQueue` | instances of the two for TLC |
| `MCGoverned` | governance in manual mode, with notices, and in memory; instances of `ReviewerRoles`, `LoginSession`, `Installations` (who is told) |
| `MCAuthoring` | instances of `Catalog`, `MemoryCatalog`, `ScriptTargets`, `MemoryTargets`, `PublishForm`, `ScriptOptions`, `SemanticVersion`, `Installations` (machines) |
| `MCPages` | instances of `CatalogPool`, `MaintainedHub`, `SupportChannels`, `Feedback`, `ReviewDesk`, `ReviewQueue`, `Inbox` |
| `MCOperations` | instances of `LoginSession`, `NotificationDispatcher`, `HealthMonitor`, `GovernanceLocking`, `Migrator`, `ProcessRunner`, `TargetValidation`, `RunnableTime` |
### Governance: state and actions

One variable per column or table that a decision reads: `lifecycle`, `notes`,
`digest`, `manifest` (columns of `package_versions`), `bundle` (the version's
active script targets), `run` (`validation_runs`), `review`
(`publication_reviews`), `log` (the newest outbox event of a version),
`installs` (`installations`, by uid and version), `notice`
(`user_notifications` by its unique key), `delistings`. `req` is the state of a
request between its transactions: the program counter, the run it works for, the
claim token it was handed, the clock it read and the runner's answer. `now` is
the clock.

| Action | Code |
| --- | --- |
| `EditScriptTargets` | create, save, copy, delete of script targets (`requireDraftVersionForUpdate` is the guard) |
| `UpdateVersionContent`, `ReviseVersion` | the transactions of the same names |
| `BeginValidation`, `FinishRunner`, `CompleteValidation` | `submitReview`: `beginValidation`, the runner, `completeValidation` |
| `LookupRetry`, `ClaimRetry` (then as above) | `retryValidation`: checks and clock, `claimValidationRetry` |
| `Crash` | the process dies with a request; committed rows remain |
| `ApproveReview`, `RejectReview` | `decideReview` |
| `DeprecateVersion`, `DelistVersion`, `EmergencyDisableVersion` | the transactions of the same names |
| `ReportInstallation`, `MarkNotificationRead`, `Tick` | telemetry `ingest`, `markNotificationRead`, time |

A transaction is one step: each locks (`FOR UPDATE`) or compares-and-sets the
rows it decides on, and the unique indexes on running runs and pending reviews
are conjuncts of the guards. A refusal that changes nothing is a stuttering
step; the refusal of a retry's claim or of a completion ends its request and is
a disjunct of its action.

Abstractions: one package; a version's script targets are one value, which is
also its digest (SHA-256 is taken as injective); release notes are members of a
small set; tokens are the number of the attempt they were issued for (the code
draws a fresh UUID); roles are constants; the audit row beside each event, the
reasons, times and matrices kept in rows are left out; evidence is one of three
outcomes (exact, claimed but not exact, failed), or `skipped` in manual mode.

`GovernanceLocking` justifies the one-step transactions. A transaction kind is a
sequence of statements (`Plans`), each of which selects `FOR UPDATE` (with the
update of that row when it comes next), updates a row it must match, or tries to; workers hold the rows they locked until they
commit, wait for rows others hold, and `Detect` is Postgres ending one of a
circle of waiting transactions. Only a decision (review, then version) and a
revision or a content update (version, then review) take rows in opposite
orders; what the survivors commit is what one-step transactions would have.

`MemoryGovernance` EXTENDS `Governance`: an operation of the in-memory
repository copies the store, decides on the copy and puts it back without giving
up the thread, so it is one step as a transaction is. It differs where the code
does: `asked` is what the handler read of a version before it submitted it, and
its targets are not read again; any result that is not an exact pass fails.

### Runners

`ProcessRunner` is `run()`: `child` is the command, `descendant` the processes
it started, each inside the process group or outside of it and with or without a
hold on the output; `timer` and `mode` are the variables of the function,
`written` and `captured` count bytes. `Spawn`, `TimeOut` and `Close` are the
three callbacks; `Fork`, `EndChild`, `EndDescendant` and `Write` are what
processes may do. On Unix a timeout kills the group, on Windows the command only,
and the result says which (`mode`).

`TargetValidation` follows one target through `prepare`, the install script, the
uninstall script and the decision. `stage` is what the runner waits for;
`script`, `container`, `exit`, `removed`, `telemetry` and `read` are kept per
script. `RemoveContainer` and `InspectContainer` are `docker rm -f` and
`docker inspect`, and `answers` says whether the daemon answered. That a report
matches what is expected (identifier, version, system, client) is whether it is
there with the right status; digests and collected paths are `files`.

### TelemetryQueue: state and actions

Each script is a process with a program counter `pc`; `task` is what it wants
the lock for. `lockDir` and `lockOwner` are the lock directory and the owner
file in it, or, with `LockKind = "stream"`, who holds the exclusive stream;
`attempt` and `seen` are the local variables of `_asp_acquire_queue_lock`. Files
are contents by inode (`file`): the first queue and one temporary per script;
`pending` says which of them has the name `pending_reports.jsonl`, `source`
which one a drain has open, so that a `mv` under an open file is what it is in
the system. `dead` is the dead letter file, `stored` the rows of
`installations` by idempotency key.

| Action | Code (`script-generator-service.ts`) |
| --- | --- |
| `TryMkdir`, `WriteOwner`, `ReadOwner`, `Probe`, `Disown`, `Sweep`, `Abandon` | `_asp_acquire_queue_lock`, one action per file operation |
| `CheckOwner`, `RemoveOwner`, `RemoveDir` | `_asp_release_queue_lock` |
| `OpenStream`, `CloseStream` | `Invoke-AspQueueLock` |
| `Start`, `OpenQueue`, `DrainLine`, `SwapQueue` | `_asp_drain_queue`, `Sync-AspPendingReports` |
| `ReportResult`, `AppendReport` | `_asp_report_result`, `_asp_append_locked`, `Add-AspQueueLine` |
| `Send` | `_asp_send_payload` with the three answers a script tells apart, and `PostgresTelemetryRepository.ingest` behind it; a script without an answer does not know whether its report was stored |
| `Kill` | the process ends without running its EXIT trap |

Abstractions: a report is its script's name; whether the server refuses it is
the set `Malformed`; the maintainer's command is the step from `run` on; pids
are not reused; reading the owner file and writing it are one step each; a write
to a file does not fail. PowerShell reads the queue and writes the temporary at
once, Bash line by line; under the exclusive stream this makes no difference.
`Prompt` is an assumption about time that TLA+ cannot count: a living process
gets from one file operation of the lock to the next before another one has
failed three times, 50 ms apart.

### What users run

`Installations` takes up where the queue ends. `machine` is what a user really
has, `script` the script that is running (`Start`, `Finish`), `transit` the
reports on their way, `table` the rows of `installations` in the order of
arrival. `ReceiveReport` in any order is what `TelemetryQueue` amounts to for a
reader. `Publish`, `ReviseVersion`, `DelistVersion` move versions;
publishing writes `notices` as `notifyExistingInstallers` does. The fold of
`analytics-service.ts` (newest start first, ties by arrival, an uninstall clears,
a failure changes nothing) is a set of operators on `table` that the properties
compare with `machine`. Times are whole seconds, so that ties occur.

`RunnableTime` is one run of `timeToRunnable`: `Sort`, `Halve` (one turn of the
binary search), `Pair`, `Report`. Its inputs are every short sequence of times.

`SemanticVersion` compares versions given as their pieces: a core and a
prerelease whose identifiers are runs of digits (with their value and leading
zeros) and runs of other characters (with their place in the order of such
runs). `CompareThree` compares three of them in all ways; the properties say
that the verdicts are an order. Texts that are no versions are among them.

### Catalogue

`ScriptTargets`: `row` and `revisions` are the two tables, `events` the outbox,
`lifecycle` the version's. `call` is the state of a request: checked against
the version it read, committed in one transaction under the row lock of the
version, answered by two reads outside of it, each a step of its own.
`SubmitVersion` and `ReviseVersion` are what governance does meanwhile. The
content of a revision is a value. `MemoryTargets` runs a call through in one step
and keeps `copy`, the active targets in the store's version record that the
in-memory governance reads.

`PublishForm` adds the page: `session` (the targets it was told of), `selected`,
`form`, `gate` (whose answer may fill the form), `busy`, `unsaved`. What an
editor does takes the gate from older requests; typing does not.

`ScriptOptions` follows one list of options through the form
(`UpdateName`, `UpdateType`, `UpdateChoices`, ...), the page's check, the request
schema with its coercions, `script-target-model.ts`, and `resolveOptions` of the
generator. A word is a text with or without white space around it; trimming and
splitting at commas are modelled by what they do (`Split` keeps the pieces that are not
blank, in their order).

`Catalog`: `pkg`, `version` and `log` are tables; `call` goes through `Arrive`,
`Check` and `Commit` or `Fail` (a constraint of the tables), so a check may be
old when its transaction commits; lists and the right to maintain are operators
on the state. People are constants with their roles and teams. `Govern` moves
versions as governance does. `MemoryCatalog` has the same calls without the
constraints.

`PagedList` is a page over a list: `choice` (filters, tab), `stack` (the cursors
of the pages before), `page`, `requests` with answers in any order, and the rows,
which change meanwhile. `CatalogPool` and `MaintainedHub` instantiate it with
the filters and the browser's history, and with the tabs and a server that may
answer for another scope than the one asked for. The order of a list is that of
ranks: by name, up or down, with packages of one name by their identifiers
(`Precedes`), or by the last update (`PlaceOf`). The list itself is chosen as the
one sequence in that order.

### Identity, notices, monitoring

`ReviewerRoles`: `roles`, `assignment` and `trail` (audit and outbox) are the
tables; a request is a program counter that runs the statements of
`assignReviewer`, `revokeReviewer`, `grantRole`, `revokeRoleAssignment` one at a
time, or in one step with `Backend = "memory"`. `Login` writes the
administrators of the configuration.

`LoginSession`: `pending` are the login states in the server's memory,
`callback` the requests between the answers of the identity provider, `session`
and `identities` the tables, `cookie` the browser. `Restart` loses states and
callbacks but no session. `ProviderFails` covers a refusal, an answer without
token or uid, and the ten seconds after which the request is given up.

`NotificationDispatcher`: `work` is a worker with its event, position and
attempt; `log` the delivery log; `inbox` what really arrived. A delivery is
accepted, refused for good, or fails with or without having arrived. `Die` stops
a worker between any two steps.

`HealthMonitor`: a probe is `StartProbe` (timer), `Ping` (the query), `Take`
(the rest of `runOnce`), `DeliverAlert` per channel; several are
under way at once, for an interval may be shorter than a query.

### Pages and their routes

`SupportChannels`: `table` and `tx` are the transaction of `replaceChannels`
statement by statement at READ COMMITTED (a delete sees what was committed when
it started, an insert waits for a key another transaction holds), `editor` the
page. The rows are listed by
their place and the time they were made; those equal in both come in any order
(`ListSupportChannels`). `Feedback`: `form` of a reporter, `console` of a maintainer with its two
requests, `feedback` and `audit` the tables. A change of a status is a request of
its own in `changes`: the role is asked for (`AdmitChange`), then the transaction
writes (`UpdateFeedbackStatus`); its connection may break while it goes on
(`ChangeBreaks`), so that a page told of a failure is followed by the write.
What is said of the audit lines is said in the order they were written: a line's
time is read before its transaction, and the audit page, which is not modelled,
sorts by it. A report whose connection breaks was written before the form is told
of it, or never is.

`ReviewDesk`: `desk` is the page of a review with its decision and its grade
panel, `requests` what it sent; an answer is lost before or after the server
wrote (`Losing`), or is cut off behind its head. `ReviewQueue`: `asked` is the
request, which the server answers in many reads – list, right for each, each once
more – with changes in between; `url`, `draft` and `view` are the page. `Inbox`:
`tab` is a page of notices, `requests` its marks as read.

### Migrator

`schema` is the SQL committed, `recorded` the table of migrations, `run` the
state of each runner: it lists its files, reads the records, records a baseline
for a database from before there were records, and applies what is missing, one
transaction each. `Die` kills it anywhere; two images may hold different files.
## 3. Runs

Every run has a module that makes instances of the components. `MCGovernance`
and `MCTelemetryQueue` extend the module they run. The others are suites: each
holds several components that share no variable, side by side, and `part` says
which of them moves. The behaviours of a suite are those of its parts, one part
at a time; the variables of the others keep their initial value, and where a
component has several initial states it rests in one of them, so nothing is
counted twice. A property of a suite is a conjunction of statements of the
components, each under the part it is about, grouped by what they say. A step of
two components that do not interact would show nothing more; where they do
interact (a page and its routes, catalogue and governance, scripts and server)
both are in one module.

| Run | Instance | What it shows |
| --- | --- | --- |
| `claims` | 1 version, 3 requests, 2 runs, TTL 2, time 0..3 | type correctness; one open run; the attempts agree with the run; one owner; only the last attempt closes; no live claim is stolen |
| `content` | author and admin, 2 requests, 2 runs, 2 bundles | released content is the content validated and approved by somebody else; one open review; outbox and lifecycle agree; refinement of `PublicationLifecycle` |
| `liveness` | fair, an author who installs, 2 requests, 2 runs, TTL 1, time 0..2, crashes | a validation ends |
| `bash` | fair, 2 scripts, 2 queued reports, 1 kill, directory lock, `Prompt` | types; one writer; no report lost; refinement of `ReportQueue`; every script ends |
| `powershell` | 3 scripts, 2 queued reports, 1 kill, exclusive stream | refinement of `ReportQueue`: only what is stored or put aside leaves the queue, from its head |
| `governed` | manual mode (author and reviewer, 2 notes); 2 versions of 2 authors who install; the repository in memory three times; 2 admins and 2 requests, 1 request and a crash, in memory; 1 browser with 2 callbacks; 3 versions and 3 users | reviewed and validated releases where nothing validates and in memory; who is notified of what, and that no notice comes back; refinement of `PublicationLifecycle`; assignments, trail and roles agree; a login makes one session; an admin remains |
| `authoring` | 1 package, 1 version, 3 people, 3 calls, tables and memory; 2 targets, 4 calls in tables, 3 in memory; 1 editor with 2 requests, 2 editors; 2 options, 5 edits; triples of versions; 1 machine with 3 scripts | creations happen once and by those who may; rows, revisions, events and the copy in memory tell one history; nothing frozen is changed; a page saves where it was written and over no revision it was not told of; a stored option list works; versions are in an order; folding tells the machines |
| `meet` | lists of 3 rows on pages of 1 or 2; 2 editors of channels; 2 consoles; 2 reviewers; 2 tabs; a queue of 3 reviews | a page shows what was asked for and what is so; what is stored is what was decided |
| `wait` | fair, the same with one user, and 2 editors | no page waits for ever or forgets what it was told |
| `operations` | fair, see *Bounds* | what other systems and the logs are told is so, and for a cause; results tell what happened; whatever is begun ends |
| `submitter`, `takeover` | smallest instances | documented statements the code does not keep, see 5 |

### Bounds

*Governance.* `RunId` bounds how often a package is submitted: two runs are a
first publication, a revision and a second one, with the old run and review
still in the tables. Three requests on one run are an original submission, a
retry and a retry that takes over. `MaxTime` stops the clock: with TTL 2 and
four ticks a claim can be alive, at its last tick, expired and taken over. The
guard `now + TTL <= MaxTime` of `Crash` keeps a crash from falling where the
bounded clock could not outlast the claim it leaves behind; it bites only at the
end of time. The instances in memory split what `claims` and `content` cover:
two submissions, retries of one run with a clock, and two versions with a reader.

*Telemetry queue.* Two reports in the queue are the least with an order; one of
them, and one of the scripts' own, is malformed. `MaxKilled = 1` puts one death
at every step of every script: with two scripts the survivor meets every state
of the lock and of the files the dead one can leave. `Patience` is 2 where the
code has 3 and `MaxAttempts` 2 or 3 instead of 40: what matters is that one is
below the other and that both can be reached. A third Bash script breaks the
lock, which `takeover` shows on its own.

*Authoring.* `MaxCalls` bounds the calls that are ever made: three on a package
are two that overlap and one that changed something before; four on targets are
add, save, delete and add again, or two that overlap on a target with a history
(three in memory, where a call commits in one step after its checks).
In the catalogue what an operation does not look at is fixed. Five edits fill in
an option of any type and change their mind once. A form never shows more
revisions than there are calls, which bounds it.

*Pages.* Three rows on pages of two, or of one, have a first, a middle and a
last page; one row appears or goes away; three requests overtake one another in
every order. Two people who write and two transactions that meet are the least
that interfere; where two pages of one person could, there are two. What is
typed between two requests is one step. `MaxLoads`, `MaxSaves`, `MaxEdits`,
`MaxReports`, `MaxChanges`, `MaxTurns` and `MaxRequests` bound how often each
thing happens, once to three times; of two consoles that show one report and
change it twice, one stays open. The grade of a package and the decision of
its review share the page but no column; they are two parts of the desk.

*Operations.* Two callbacks at a time and two logins make a repeated callback and
a second login. A worker that dies and is started again dispatches one event to
three targets, one of which is not enabled, with two attempts each. Two probes
with a threshold of two are the least that overlap with a streak between them;
`MaxTurns` is how often the database fails or comes back, and `MaxAlerts` is
more than that needs. Three transactions of governance at a time and four in
all: two that deadlock and one that waits for them. Two runners of migrations,
three runs, images of up to three files, any history of the schema. A command
with two children, one of which may leave the group, and output on both sides of
its limit. A target in a container and under PowerShell, with a daemon that may
fail. Up to three downloads and two successes in three seconds.

*People and machines.* Two requests of one admin each, in one scope, meet at every
statement; a server that dies is met with one request that is repeated in two
scopes. Versions are compared in triples, from sets with prereleases that are
prefixes of one another, numbers of one and two digits, leading zeros, builds
and texts that are no versions. Three scripts on one machine are install,
uninstall and install with reports in any order of arrival, over a tick of the
clock. Who is told of a release is asked of three users and three versions at
one time: recipients are chosen by what has arrived, whatever its time, and runs
of one time by their rows.

`CHECK_DEADLOCK FALSE` is in every cfg, because every system here comes to rest:
a version that was disabled in an emergency stays so, scripts end, pages have
been used, and the bounds on runs, calls and time end every behaviour. That
nothing waits before that is what the liveness properties say. Requests, run
ids, script targets and reviewer scopes are symmetric where a run has no
liveness property.

Every property of a passing run has a mutant in `PROJECT.json`: an operator
marked *Seeded fault* takes the place of the one it stands beside, as a plausible
bug would, and TLC then finds the property violated.

### Fairness

All of it is weak fairness of single actors unless said otherwise; no user is
ever obliged to press, type or open anything, nor is anything obliged to fail.

- `Governance`: the clock runs, a request in flight goes on (the runners have
  timeouts, `process-runner.ts`, far below the claim's TTL), and – strongly, per
  run – somebody allowed to retry an open run keeps trying. The last one is
  about people: the code has no job that picks up a stranded validation, so
  `ValidationEnds` says that retrying always suffices, not that it happens by
  itself.
- `TelemetryQueue`: each script goes on unless it is killed (every request has
  `--max-time 2` or `-TimeoutSec 2`, the sleeps are bounded); the maintainer's
  command ends.
- Pages (`Comes` of `MCPages`): a request comes back, with an answer, a refusal
  or without either (`fetch` fails in the end), and the database executes the
  next statement of a transaction unless it waits for a lock. A circle of
  waiting transactions is cut by `Detect`, as Postgres does after a second.
- `LoginSession`: the server goes on with a callback it has begun. The identity
  provider need not answer: the request is aborted after ten seconds.
- `NotificationDispatcher`: a worker goes on or dies. `HealthMonitor`: each
  probe's timer fires, its ping ends and its alerts go out or fail; each probe
  has its own fairness, for none of them waits for another.
- `GovernanceLocking`: a transaction whose next statement need not wait executes
  it, and deadlocks are detected. Nothing is assumed of who gets a row first.
- `Migrator`: a run goes on or is killed. `ProcessRunner`: spawning, the timer and
  `close` happen once they can; the processes of the command need not end, only
  the kill reaches them. In `leaving`, where they may leave the group, no end is
  claimed. `TargetValidation`: the runner goes on. `RunnableTime`: the loop runs.

In a suite the actors of the part that moves are numbered, and fairness is asked
of each number: the conjunction says of every part what its own `Fairness` says.

## 4. Proofs

`Governance_proofs` proves, from `GovernanceAssumption` alone and so for any
number of versions, users, requests and runs:

- `TypeCorrect`: `Spec => []TypeOK`.
- `OneOpenRunHolds`: inductive as it stands together with `TypeOK`; the
  transitions that neither start nor end a validation are handled once
  (`SameOpenRuns`, `MovesFromReviewable`).
- `AttemptsTellTheRunHolds`, `OneOwnerHolds`: neither is inductive. A retry's
  token is unique only because it is higher than every token that any request
  still holds, so the inductive invariant is
  `ClaimInv == TypeOK /\ AttemptsTellTheRun /\ TokensHandedOut`: the requests at
  work on a run hold distinct tokens, none above the number of its attempts.
- `OnlyLastAttemptClosesHolds`: an action property, from `ClaimInv`.
- `NoLiveClaimStolenHolds`: an action property, from `ClaimInv` and
  `StampsArePast` (the clock a retry read is not ahead of the clock).

`TelemetryQueue_proofs` proves, from `TelemetryQueueAssumption` alone:

- `TypeCorrect`: `Spec => []TypeOK`, for both locks.
- `StreamHasOneWriter`: with the exclusive stream, `Spec => []OneWriter` for any
  number of scripts, from `StreamInv`: who is past the lock holds the stream.
- `OneWriterImplementsQueue`, `OneWriterLosesNothing`: with *either* lock,
  `Spec /\ []OneWriter` implies the refinement of `ReportQueue` and
  `[]NothingLost`. This separates the queue from its lock: the files are right
  exactly as long as the lock is. The invariant `QueueInv` says where each
  script can be with which task, and that a drain at line n has let the first k
  lines through and holds the lines k+1..n in its temporary; the former is
  needed to know that nobody's temporary is the queue before its `mv`, the latter
  to see the `mv` as the removal of k reports from the head.
- `StreamImplementsQueue`, `StreamLosesNothing`: the condition discharged for
  PowerShell, for any number of scripts.
- `PairHasOneWriter`, `PairImplementsQueue`, `PairLosesNothing`: the same for *two*
  Bash scripts under `Prompt`. `DirectoryInv`: from its `mkdir` to its `rmdir` a
  script that lives has the directory, between which the owner file names it, and
  no two are there. A takeover could break it between its look at the owner and
  its `rm`, but of two scripts the one that takes over is alone (`AloneInv`): the
  other, whose name it read, has ended. For three scripts that fails, see
  `takeover`.

Then from `InstallationsAssumption`, for any number of users, versions and runs:

- `TablesTellMachines`: what the folding of a user's rows tells, once the reports
  have arrived, is what is on the machine, and figures over a period up to now show
  no version that the list does not. `UsersInv` says that a report is on
  its way or in one row (`InOnePlace`), that the runs of a
  machine came one after the other (`InTurn`), and that the machine has what the
  last of them left (`MachinesFit`). The newest row is the last in an order of
  times and arrivals, which does not depend on the order in which rows arrive.
- `OutdatedAreToldHolds`: of each step that publishes.

`GovernanceContent_proofs` EXTENDS the former and `MemoryGovernance`, and proves
what is published and told.

- *Reviews*: `OneOpenReviewHolds`, `ReviewedBeforeReleaseHolds`. Neither is
  inductive: that an approval was of what is released is only known if the open
  review was a snapshot of the columns all the while. `ReviewedInv` adds, besides
  `TypeOK`, that a version under validation has the digests of its manifest
  (`DigestsHeld`), that one under review holds what its open review is a snapshot
  of (`SnapshotHeld`), and that one that is released holds what an approved review
  was of (`ApprovalHeld`). It is kept by the steps of either repository.
- *Validation*: `ValidatedBeforeReleaseHolds`, over Postgres, in both modes.
  `ContentInv` adds that the open run was begun on the bundle the version still
  has, and that a review's bundle is that of its run.
- *Outbox*: `EventsTellUpToSkipsHolds` in both modes; `EventsTellLifecycleHolds`
  in automated mode, where there is no exception. In manual mode a skipped
  validation is logged as failed (`FailedMeansDraft`, section 5).
- *Notices*: `NoticesHaveCauseHolds`, `ReachesInstallersHolds`, `KeepsReadHolds`.
- *Refinement*: `ImplementsLifecycleHolds`, step by step: submission freezes,
  completion, approval and rejection move a frozen version, edits change only what
  is not frozen, everything else stutters. The same invariant is needed: the
  served content of the abstract specification is the frozen one because the
  columns are the snapshot.
- *In memory*: every step of `MemoryGovernance` is a step of `Governance`, a
  submission of the targets the handler had read, or a skipped result that fails
  (`MemSteps`). The lemmas about the first and second kind are stated for any
  submitted bundle, so `MemInv` needs little more than what `asked` may be.
  `MemReviewedHolds`, `MemClaimsHold`, `MemImplementsLifecycleHolds`.
  `ValidatedBeforeRelease` is not among them, for it does not hold there: see
  `ValidatedTargets` in section 5.

`Identity_proofs`, about `LoginSession` (from `LoginSessionAssumption`, any number
of browsers, callbacks and restarts). `LoginInv` says that a callback under way belongs to a
login that was begun (`UnderWay`), that no two work for one login
(`OneCallbackPerState`), and that a session came from a login that can be used no
more. From it: `StateUsedOnceHolds`, `CallbackFitsLoginHolds`,
`OnlyAllowedKnownHolds`, and of steps `EndedStaysEndedHolds`, `LogoutEndsHolds`,
`NoneExpiredHolds`.

About `ReviewerRoles` (from `ReviewerRolesAssumption`): `FitInv` says what a
request knows at each of its statements. `AdminsRemainHolds` is for any number of
requests. Three more have a hypothesis, and the runs check them where it holds:

- `TrailTellsAssignmentsHolds` under `TrailAssumption`: Postgres, where an update
  looks at the row again, or one request at a time. In memory a second request
  could revoke what was revoked.
- `AnswerKeepsPromiseHolds` under `OneAtATime`, crashes included: a request that
  answers has done both halves, also when it repeats one that died.
- `InAndOutTogetherHolds` under `TogetherAssumption`: one request at a time, none
  dies, and only `assignReviewer` and `revokeReviewer` write. With two requests it
  is false (section 5), and roles may be granted and withdrawn on their own.

`Operations_proofs` makes an instance of each of six modules and uses the
assumption that module names.

- `Migrator`: `AppliedInOrderHolds`, `RecordsTellSchemaHolds`,
  `SucceededIsMigratedHolds`, for any number of runners at a time, killed anywhere
  and with any images. `MigratorInv`: the schema is an initial segment of the
  migrations, the records name only what is in it and all of it but perhaps the
  baseline, and a run is past all migrations before the next one it looks at.
- `HealthMonitor`: `AlertsAlternateHolds`, `HasCauseHolds`. `HealthInv`: as
  many of the last answers were failures as the counter says.
- `NotificationDispatcher`: `EveryTargetAccountedHolds`, `DeliveredHasArrivedHolds`,
  `SameFactsEverywhereHolds` for any number of workers. `DispatchInv`: the targets
  before the one a dispatch is at have their record (`Served`). `NoneAgainHolds`
  is for one worker (`Alone`), which is how the run checks it; two send twice
  (`SentOnce`, section 5).
- `ProcessRunner`: `ExitIsOwnHolds`, `ModeTellsWhatEndedHolds`,
  `OutputUpToLimitHolds`, whether or not processes may leave the group.
- `TargetValidation`: `PassedMeansTriedHolds`. `TryInv` follows each script
  through its stages: a script that exited with zero ended, and its container is
  gone; and no report was read before it was written.
- `GovernanceLocking`: `RowsAgreeHolds` for any number of connections and
  transactions. `LockInv` says of each transaction that what it wrote is what its
  kind writes up to its statement (`Course`), that it holds the rows it wrote, that
  these are committed as it found them (`Found`), and that no row has two holders.
  `OnlyDecisionMeetsRevisionHolds`: any two transactions that wait for one another
  are a decision and a revision.

`Authoring_proofs`:

- `Catalog` (from `PeopleAssumption`, on who may be who): `CreatedOnceHolds`,
  `WriterHadTheRightHolds`, `GradeIsDecidedHolds`, `KeepsVersionsHolds`,
  `ReadsAgreeHolds`. A check may be old when its transaction commits, so
  `CatalogInv` says that what was found then is still in the log (`Checked`,
  `LogTellsPackages`), though the package may have changed hands.
- `ScriptTargets`: `CurrentIsNewestHolds`, `KeepsHistoryHolds` (`TargetsInv`).
  `MemoryTargets`: `CopyIsTheMapHolds`, `AnswerIsWholeHolds`, `KeepsFrozenHolds`;
  `MemoryInv` adds that a target with revisions of which none is current was
  deleted, by an event that tells so.
- `MemoryCatalog`: `MemoryHasOwners`. The part of `CatalogInv` that stands where a
  creation may replace a package is `CoreInv`; the steps the two repositories
  share are proved once, from it.
- `PublishForm` (from `FormAssumption`, and that a revision can hold what a form
  does): `SavedWhereWrittenHolds`, `BusyIsAnsweredHolds`, for any number of
  editors, calls and late answers. `PageInv` says of each call what it carries
  (`Carries`): a save the form it was sent from, an answer what was true of the
  target when the server gave it.
- `SemanticVersion` (from `VersionAssumption`): `OrderIsTotal`, `SameRankIsSame`,
  `ReleasesFollow`, `LatestOutranks`, with prereleases of any length. The
  comparison stops at the first identifier that differs, which exists because a set of numbers
  has a least one (`HasLeast`); transitivity is that of the identifiers, carried to
  the first place where two of three versions differ (`OutcomeChain`).

`Pages_proofs` makes an instance of each of four modules, with the assumption that
module names, for any number of pages, requests and people.

- `ReviewDesk`: `DecisionsAreReal`, `SentSurelyHolds`. `DeskInv`: a page holds
  a review there is and its content as submitted (`PageFits`); a decision that was
  written is that of its review (`RequestFits`); at most one review is pending, of
  the content there is (`OnePending`), which is why an approval releases what its
  page showed. `SentSurelyHolds` has the hypothesis `AnswersWhole`: no answer is
  cut off behind its head.
- `Inbox`: `ReadOnceHolds`, `StaysReadHolds`. `Recorded`: the notices that are
  read are those in the audit log, each once.
- `SupportChannels`: `ChannelsCompleteHolds`, for any number of maintainers. What a
  transaction inserted is the beginning of the list it was sent (`Begun`), what it
  will delete and insert fits the table when it commits (`OfTable`), and two
  transactions hold different addresses (`Apart`). `KeepsIdentityHolds` is for one
  maintainer at a time (`LooksAtTable`), as the run checks it: two that
  save at once may each delete and insert anew.
- `Feedback`: `FeedbackIsTrueHolds`. A form counts no more answers than it has
  records (`FormsFit`); a record has the status of its last line in the audit
  log (`StatusesFit`); consoles and requests know statuses the record had
  (`ConsoleFits`, `ChangeFits`); and a console that shows what it loaded while
  nothing changed has the figures of its list (`Current`).

`Lists_proofs` is about lists that are shown in pieces, from the assumptions of the
modules (the page has a size, the order of the list tells its items apart), for any
items, any size of a page and any number of requests; and about the list of options
of a script, for any words, any number of options and of edits.

- A list of a finite set in a given order exists (`Sortable`), so what the models
  choose is what sorting gives; the order of numbers leaves one choice (`OneOrder`).
- `PoolShowsWhatIsAsked`, `HubShowsWhatIsAsked`: the lemmas on asking, serving,
  failing and delivering are stated once for both. All requests but the last are
  given up (`OnlyLast`), so what a page shows is an answer to its last; and as long
  as nobody changes the rows, the list was seen up to the cursor, and further if the
  page has arrived (`Covered`): no cut leaves an item out. The pool adds that each
  answer under way fits its filters and that the URL is where the browser's history
  says; the hub that an answer without the right holds no package of others.
- `QueueShowsWhatWaits`: `CheckedUpTo` says how far the checks have come while
  nothing changes: what was let through may be reviewed, what is left comes after
  it, and nothing is missing. What is cut out of it in the end is then what is cut
  out of the queue (`CutIs`). `TrailFits`: the cursors of the pages turned are one
  page apart.
- `StoredOptionsWorkHolds`: in the form a default is of its option's type and choices
  belong to a select (`FormOptions`), which each edit keeps, a change of the type too
  (`ChangeFits`). What the server takes is cleaner (`Sound`): names and texts trimmed,
  choices trimmed, different and not blank, the default of a select among them, and
  no switch, since the coercing schema made a text of its default (`CoercedIs`).
  What is sound passes the page, the schema and the model once more and comes out
  as it went in (`SoundWorks`): trimming twice is trimming once, and splitting leaves
  choices that are trimmed as they are (`SplitIs`, with `OneOrder`).

The suites' properties are conjunctions, under `part`, of the statements these
theorems prove one by one; so only the theorems about `Governance` and
`TelemetryQueue` have the very names of a run's properties.

Only model-checked:

- *Liveness under fairness*, out of the prover's reach: `ValidationEnds`,
  `ScriptsEnd`, `WaitingEnds`, `EverythingEnds`.
- *What is selected from a sequence of any length* (induction over data):
  `EventsTellTargets`, which looks at the events of a target in the whole outbox,
  `CommitsWhole` of `SupportChannels` as to the order of a list, and the pairs and
  percentiles of `RunnableTime`.

## 5. Where documentation and code differ

Two runs show a statement of the repository that the code does not keep:

- `submitter`: the comment of `canReviewPackageSnapshot`
  (`authorization-service.ts:78`) says that whoever submitted a version does not
  review it. The code compares the *author* of the version; another maintainer
  may submit it and approve it.
- `takeover`: the telemetry design says that the queue lock keeps concurrent
  scripts from rewriting the queue together. With three Bash scripts it does
  not: one is killed with the lock; two others read its pid and find it gone;
  the first removes the owner file and the directory and makes its own; the
  second then removes the *new* owner file and directory, and both rewrite the
  queue.

The modules state more such sentences, which TLC refutes on the instances of the
runs, or on ones with a second worker or editor. They are definitions to check on
their own (add the name to a cfg); no run lists them.

| Statement | Said by | What the code does |
| --- | --- | --- |
| `Governance!FailedMeansDraft` | the publication design, table of transitions | a skipped validation goes on to review and appends `version.validation_failed` |
| `Governance!OwnerTeamRecused` | `README.md:88` | a reviewer of the owner team may approve (the code dropped the check on purpose) |
| `MemoryGovernance!SkippedDidNotFail` | `skipped-validation-runner.test.ts:36` | in memory a skipped result fails the run |
| `MemoryGovernance!ValidatedTargets` | `架構說明.md:45` | in memory the targets frozen are those the handler read before |
| `ReviewerRoles!InAndOutTogether` with two requests | `authorization-service.ts:158` | assignment and role are separate transactions |
| `ReviewerRoles!ConflictIsFound` | the assertion `postgres-identity-repository.ts:210` | a revocation in between makes the look-up empty |
| `NotificationDispatcher!SentOnce` | `notification-dispatcher.ts:33` | two dispatches look up before either records |
| `NotificationDispatcher!RejectedIsRecorded` | `notification/types.ts:66` | a rejection of the last attempt is recorded as retryable |
| `PublishForm!SavedOnShownRevision` | the conflict message `postgres-catalog-repository.ts:214` | rows and revisions are read by two queries; an empty form may replace a revision |
| `PublishForm!TypedWordsKept` | `publish-page-model.test.ts:299` | typing does not take the gate from a request; its answer fills the form anew |
| `ScriptOptions!FormStopsWhatIsRefused` | `publish-page-model.test.ts:268` | the page compares the untrimmed default, the server the trimmed choices |
| `ScriptOptions!SwitchesCanBeSaved` | `前端實作指導.md:141` | the coercing schema turns a switch's default into a text, which is refused |
| `ScriptOptions!CommaOpensPlace` | the label `PublishPage.tsx:150` | a comma typed at the end is dropped at once |
| `Catalog!ListedCanMaintain` | `catalog-service.ts:400` | lists know rights that `requireMaintainer` does not |
| `Catalog!ScopedMaintainerMayMaintain` | `catalog-service.ts:668` | only the global maintainer role counts |
| `Catalog!ArchivedKeepsGrade` | `catalog-service.ts:190` | a package archived after the check still changes its grade |
| `Catalog!ArchivedGetsNoVersion` | `catalog-service.ts:467` | `createVersion` does not look |
| `Catalog!LeftOutIsKept` | `catalog/index.ts:172` | the columns are NOT NULL; the insert fails |
| `Catalog!PublisherIsOwner` | `create-package-model.ts:103` | an update changes the team and leaves the publisher |
| `CatalogPool!CursorIsOfThisList` | `CatalogPage.tsx:248` | the browser's back changes the filters under the cursors |
| `CatalogPool!KeywordFindsTeam` | `CatalogPage.tsx:282` | the keyword is not compared with the team |
| `SupportChannels!CommitsWhole` with two editors | `架構說明.md:142` | two saves leave the channels of both |
| `ReviewDesk!SentSurely` with bodies cut off | `全局開發記憶.md:215` | an answer cut off behind its head is no `ApiError`: the decision may be sent again |
| `Inbox!AllNoticesFetched` | `前端實作指導.md:247` | the page takes the first twenty, oldest first |
| `ReviewQueue!TargetsAreFound` | `script-target-support.ts:23` | the queue filters by columns that stay empty |
| `Installations!NewerAreNotTold` | `架構說明.md:150` | whoever runs another version is told, a newer one too |
| `Installations!OutdatedAreCandidates` | `API使用說明.md:48` | candidates are chosen by the same empty columns |
| `ProcessRunner!TimeoutGivesResult` where processes may leave the group | `process-runner.ts:54` | the result waits for whoever holds the output |
| `TargetValidation!RemovedMeansGone` with a daemon that fails | `docker-linux-validation-runner.ts:207` | any failure of `docker inspect` counts as gone |

## 6. Plan

*Done*: governance, its locking and its repository in memory; the telemetry queue
and what is made of its reports; catalogue, targets and options; identity,
notices and monitoring; the pages that keep state across requests; runners,
migrator, semantic versions; the proofs of section 4, which cover the safety
properties of the server's modules but for those listed there.

*Next, models*: the difference of two versions (`version-diff-model.ts`) and the
pages of the audit log, as lists with cursors.

### Not modelled, and why

- *Rendering, routing and the pages that load once* (package detail, preview,
  difference, analytics, audit log, administration): they keep no state between
  two requests.
- *Audit*: each write is one insert in the transaction of the change it tells
  of; the modules with a property about it (`Feedback`, `Inbox`, `ReviewerRoles`)
  keep it themselves.
- *Platform settings*: one table that requests only read.
- *Configuration, HTTP application, static site, deployment scripts, SQL
  migrations*: wiring, file I/O and data definition. The constraints the
  migrations create are guards of the modules that meet them, the validation a
  route does is in the modules where it matters.
- *Seeds*: fixed rows. *The text of generated scripts* around the maintainer's
  commands: formatting.
- *Parsing of telemetry payloads and runner output*: whether it parses is one set
  or one flag. *Fingerprints*: equal or not.
- *Success rates, confidence intervals, funnel and failure distribution* of
  analytics: real arithmetic, and counts of rows without state.
