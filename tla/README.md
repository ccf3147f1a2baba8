# Verification of the Student Success backend

TLA+ models of the retention platform in this repository, the TLC configurations
that check them on small instances, and proofs, checked by TLAPS, of the
properties that should hold for every number of students, handlers and rows.

The backend is a multi-tenant Go service over PostgreSQL. Handlers run
concurrently, every usecase call runs one or a few READ COMMITTED transactions
(`internal/platform/postgres/postgres.go`, `WithTx` and `WithTenant`), and a
scheduler in the same process runs daily, weekly and 20-minute jobs. There is no
queue and no in-memory state that matters: all the state is in the database, and
what makes the system hard is which statements of which transactions interleave,
which of several transactions of one request fail, and which values were read
before somebody else changed them.

## The system

| Component | State | Operations | Interacts with | Correct when |
|---|---|---|---|---|
| Risk engine (`internal/risk`, helpers in `usecase/student`) | none | `Evaluate`, trigger rules | called in every recompute | score and tier follow the signals and are explained by them |
| Retention (`usecase/student`, `repo/postgres/retention_repo.go`) | `students.risk_*`, attendance, homework, surveys | Create, Update, Delete, Record*, Submit*, `RecomputeAll` | risk engine, tasks, points (after commit) | the stored risk is the evaluation of the committed signals, or will be |
| Intervention (`usecase/intervention`) | `intervention_tasks` | auto-open, Start, Assign, Resolve | opened by retention, escalated by notify | one open task per student, Red is on the board, resolved stays resolved |
| Points (`usecase/points`, `points_repo.go`) | `student_points`, `students.xp/coins`, config | five awards, config | called by attendance, homework, exams, check-ins | one award per action, totals are the ledger's |
| Shop (`usecase/shop`, `shop_repo.go`) | `shop_items`, `shop_purchases` | items, Buy | spends the coins of points | nobody owns what was not paid |
| Finance (`usecase/finance`, `finance_repo.go`) | `invoices`, `payments`, `expenses` | invoices, payments, refunds, monthly generation | membership decides who is billed | the total paid is the payments', nobody is billed twice or overpays |
| Maintenance (`usecase/maintenance`, `app.go`) | none | daily recompute, escalation, reminders, weekly push | retention, notify, bot | every center is visited, one failure does not stop the others |
| Notify (`usecase/notify`) | `notifications`, `escalated_at` | Notify, EscalateStaleTasks | maintenance, tasks | each overdue task reaches every director once, in time |
| Bot (`usecase/bot`) | chat links, `reminded_at` | link, broadcast, remind | homework, maintenance | a linked student is reminded before a deadline, once |
| Homework, exams (`usecase/homework`, `usecase/exam`) | assignments, submissions, results | assign, submit, grade | points, groups, bot | the XP of a work is that of a grade it got |
| Groups (`usecase/group`) | `groups`, `group_members`, primary group | assign, add, remove, delete | finance, homework, lessons | the primary group is one of the memberships |
| Lessons, rooms (`usecase/lesson`) | `lessons` | create, update, session topic | groups, rooms | a room holds one lesson at a time |
| Staff, teachers (`usecase/staff`, `usecase/teacher`) | `users` | create, update, delete | auth | a center keeps an administrator |
| Auth (`usecase/auth`, `usecase/studentauth`) | `refresh_sessions` | register, login, refresh, change password, reaper | superadmin suspends, staff deletes accounts | a login is one chain of tokens; only a replay is punished as one |
| Leads (`usecase/lead`, `controller/http/leads.go`) | `leads` | stages, convert | retention creates the student | a lead becomes at most one student |
| Payroll (`usecase/salary`) | rules, slips | rules, slips, paid | finance | the rules are what was asked; a slip is paid out once |
| Superadmin (`usecase/superadmin`) | `organizations` | centers, billing | auth | an edit changes what was edited |
| Courses, branches, rooms, obstacles, enrollments, activities, plans, signup | their table | validated single statements | — | — |
| Advice, chat, dashboard, analytics | none that decides | reads, external model | — | — |
| Controllers (`controller/http`), `platform/postgres`, `security/tokens.go` | the tenant of a connection, the role in a token | about 160 routes and four jobs | every usecase | every statement runs in its center, every role where it may, an error leaves nothing behind |

What is hard in each of them is listed, with its line, under `hazards` in
`PROJECT.json`.

## Modules

| Module | Extends | What it is |
|---|---|---|
| `RiskScore` | — | `Evaluate`, its inputs and the trigger rules as operators on one student's history |
| `RiskProfile` | `RiskScore` | a history edited row by row, to ask of the operators how an edit moves the score |
| `Retention` | `RiskScore` | students, signals, stored risk, tasks, transactions, the daily job |
| `Wallet` | — | config, awards, ledger, totals, shop items, purchases |
| `Billing` | — | members, invoices, payments, monthly generation |
| `LoginChain` | — | abstract: what the refresh sessions promise of one login |
| `Sessions` | instantiates `LoginChain` | login, refresh rotation, reuse detection, the reaper, suspension, deletion |
| `Accounts` | — | centers, their staff and teachers, the last-administrator guard, superadmin edits |
| `Alerts` | — | the daily job of the whole process, escalations, notifications, directors |
| `Handling` | — | the requests served next to one another, and their bounds, shared by the next four |
| `Coursework` | `Handling` | one assignment and one exam of a group: answers, grades, awards |
| `Reminders` | `Coursework` | the twenty-minute scan for deadlines next to it |
| `Roster` | `Handling` | the groups of one student, the primary one and its copied name |
| `Timetable` | `Roster` | the lessons of these groups in one room on one date |
| `Payroll` | — | the rules, overrides and slips of one teacher, and their expenses |
| `Statements` | — | every SQL statement that is called: the tables it reads and writes, and which tables have a row policy |
| `Transactions` | `Statements` | every repository function that is called: its statements in their transaction |
| `Routes` | `Transactions` | every route and job: the roles it admits, the transactions it runs |
| `Api` | `Routes` | a user, a token and a connection of the pool through all of them |
| `RetentionProofs` | `Retention`, `RiskProfile` | theorems of both, and of `RiskScore` below them |
| `WalletProofs`, `SessionsProofs`, `AccountsProofs`, `AlertsProofs`, `ApiProofs` | the module they are about | theorems |
| `FinanceProofs` | `Billing`, `Payroll` | theorems of both |
| `TeachingProofs` | `Timetable`, `Reminders` | theorems of these and of `Roster` and `Coursework` below them |
| `MCRiskProfile`, `MCRetention`, `MCWallet`, `MCBilling`, `MCSessions`, `MCAccounts`, `MCAlerts`, `MCReminders`, `MCTimetable`, `MCPayroll`, `MCApi` | the module they check | values of the constants for TLC |

The modules of one component follow the rows it reads and writes; `Api` follows
every request of the program, but only the tables its statements touch. What a
request does to the rows is checked in the first kind, what it does in which
order, for whom and inside which center in the second.

### Transactions

A transaction that reads before it writes is more than one step. The process
that runs it keeps what it read in its own record (`tx`, `req`), and the last
step does the writes and the commit together. That is exact where the first
write locks a row every competing transaction also writes: a second UPDATE waits
for the commit of the first and then sees it. Where an earlier statement has an
effect on others before the commit, it is a step of its own:

- an upsert holds its key of the unique index: `KeyFree` in `Retention`,
  `InsertPurchase` in `Wallet`;
- a foreign key holds a key-share lock on the parent: `DeleteStudent` waits for
  the transactions that inserted a child;
- `SELECT ... FOR UPDATE` holds the student (`LockStudent` in `Wallet`) or the
  session (`LockToRotate`, `LockToRevokeAll` in `Sessions`) until the commit;
- an UPDATE holds its row until the commit, but only that row: `RowFree` in
  `Retention`, where the task of the student is read, and may be resolved by staff,
  under a locked student;
- an UPDATE of several rows takes the rows committed when it started and waits
  for those that are locked: `seen` of `RevokeAllCommit` in `Sessions`.

`Fail` is a crash, a cancelled request, a serialization or deadlock error: the
transaction is gone and nothing of it remains. It may happen to any process at
any step.

### RiskScore and RiskProfile

A history holds the attendance and homework marks by date, the check-ins by week
and the confidence. The `switch` ladders of `Evaluate` are written as a step of
points per threshold fallen below. Rates are compared as fractions; labels are
the name of their factor; the debt factor is absent because no caller sets it.
A date carries one mark: two groups on one date are outside the model.

### Retention

`roster`, `history`, `stored` and `tasks` are the rows, `tx` what each process is
doing, `job` the students `RecomputeAll` has still to visit. `stale` is a history
variable: it says of a student that a committed signal was not seen by the
recompute that last wrote the risk. The requests are `CreateStudent`,
`UpdateStudent`, `DeleteStudent`, `RecordAttendance`, `RecordHomework`,
`SubmitSurvey`, the bot's `PickWeek`/`SubmitPicked`; they share the transaction
steps `ReadSignals`, `Persist` and `RefreshReasons`, as the code shares
`recomputeInTx`. `StartTask` and `ResolveTask` are the kanban.

`Persist` is `UpdateStudentRisk` and `CreateInterventionTask`. Where no task is asked
for, or it is opened, nobody can tell them from the commit, and they are one step
(`PersistRisk`). Where an unresolved task is in the way, the insert does nothing and
the transaction stops with the student row locked (`FindTask`); `RefreshReasons` is
the other statement, `UpdateOpenTaskReasons`, and the commit. A `ResolveTask` in
between touches only the task: the refresh then changes no row, without an error, and
the student is Red with no task until the next recompute. `resolved` records that, and
`RedOpensTask` excuses it and nothing else; `EventuallyRepaired` says that the daily
job puts the student back on the board.

### Wallet

`xp`, `coins` and `ledger` are the totals and the rows they are derived from,
`items` and `purchases` the shop. A ledger row keeps, for the properties, the
config it was priced with. An award is `StartAward` (the config is read, or the
default when that fails), `LockStudent`, `GrantAward`; a purchase is `Buy` (the
item is read), `InsertPurchase`, `SpendCoins`.

### Billing

An invoice id says student, group, month and which copy, so that a second invoice
of a month can be seen. `past` records, for the properties, that an invoice was
refunded, that its total hit the floor of zero, that a payment was reversed
twice. Operations that read first (`RecordPayment`, `RefundPayment`,
`DeletePayment`, `GenerateMonthly`) are two steps; the others are one statement.

### Sessions and LoginChain

`session`, `owner` and `expired` are the rows of `refresh_sessions`, `status` and
`accounts` what other components keep of centers and users, `req` the request a
handler serves, `held` the tokens clients have. A token is a number; the next one
generated is the smallest that was never used. `Refresh` is presented with a
token a client holds: `LockToRotate` / `RotateCommit` (the transaction), `LoadUser`
and `AnswerTokens` (two lookups after it). A second request for the same token
waits for the row lock, finds the row revoked and goes through `LockToRevokeAll` /
`RevokeAllCommit`. The answer of any step may be lost (`Answer` without its effect
on `held`), any request may end anywhere (`Fail`). An archived center is refused
as a suspended one is, so `Statuses` has one value for both.

Four variables are there for the properties. `login` names the login a token
descends from. `replayed` are the tokens whose presentation was answered as a
reuse. `excused` says why an honest client may present a revoked token: its
replacement never arrived, it was presented twice at once, or another replay
revoked all sessions of the user. `overtaken` are the logins with a rotation
committed while a revocation of their user's sessions was running.

`LoginChain` says what a login promises: it is opened once, its token is exchanged
one for one for an unused token, and once closed it stays closed. `Sessions`
implements it with the valid tokens of each login (`ValidOf`) and the tokens
handed out (`Handed`).

### Accounts

`org` is the row of a center, `home` and `role` those of an account, `req` what a
handler has read and is about to write. `GuardLastAdmin` is the list and the test,
`Remove` the UPDATE or DELETE (the same effect on the role and the same guard in
SQL); `GetCenter` is the read of the three superadmin edits and `WriteCenter` their
UPDATE of the columns of the form, named by the request or not. `ordered` is what
was last asked for per column, `stale` marks a request whose read has been
overtaken, `crossed` records that such a request wrote.

### Alerts

`task`, `user` and `feed` are the rows of `intervention_tasks`, `users` and
`notifications` that an escalation touches, `job` the place of the scheduler's
goroutine in its loops and what it read on the way. A task ages by mornings;
`created_at <= now - SlaDays` is certain a morning after the SLA and depends on the
minute on the morning itself, so `ListTasksForEscalation` is a set of possible
answers. Between any two statements the staff open, start, resolve and delete
tasks, directors are hired, demoted and deleted, alerts are read, and the process
may die (`Crash`); a statement may fail in the way its caller handles
(`NotifyFails`, `MarkFails`, `OrgFails`, `AllOrgIDsFails`). When the next morning
comes before the run is over, `nextDailyRun` skips it (`late`). `addressed` and
`past` are there for the properties: the directors an alert was raised for, and
what went wrong with it.

A failed insert does not stop the mark, and a center without a director gets its
task marked with nobody told: `EscalatedMeansTold` is about the directors there
were when the alert was raised.

### Coursework and Reminders

`submission`, `result` and `xp` are the rows of one assignment and one exam,
`request` what a handler has still to do: a submission is a membership check and
an upsert, a grade a lookup, the write and the award, each a transaction. The
upsert resets the grading, the award is one per work, and its error is dropped
(`lost`). `given` keeps the XP of every accepted grade. `Awarding` is where
`Wallet` begins.

`Reminders` adds the scan: `ListDueHomeworkReminders` in one transaction, a push per
student, the mark after the first of them. The clock moves a deadline from `far`
to `soon` (within two hours) to `past`; `slips` and `excuse` record why a student
may have been missed, for `MissedExplained`.

### Roster and Timetable

`student` is the primary group and its copied name, `members` the other table. A
request reads the student and the group, then writes membership and primary group
in transactions of their own (`JoinGroup`, `ListForStudent`, `AssignGroup`, ...);
`uneven` records that one was overtaken or cut off between its writes, `unnamed`
why the copied name may not be the group's.

In `Timetable` a lesson is written after `CheckRoom` or `FindByGroupDate` in an
earlier transaction. `doubled` says what let two lessons share the room: a request
that another write overtook (`raced`), or the topic of a cancelled lesson, which
makes it done without a look at the room (`revived`). Which lesson is the oldest of
a date is left open. `lessons.group_id` has no foreign key, so lessons outlive
their group. The columns `start_time` and `end_time` are TEXT and compared as such
(`query.sql:115`); the numbers of a slot are places in the order of these texts. It
is the order of the clock for `HH:MM`, the form `schema.sql` names and no validation
enforces ("9:00" sorts after "10:00"), so `RoomBookedOnce` is about hours only for
times of that form.

### Payroll

A rule is known by the number of the request that asked for it. `SetRule` writes
the default in one transaction; `ReplaceGroupRules` is the DELETE and
`InsertSalaryGroupRules` the INSERTs and the commit of the other. What the DELETE
found is kept in `seen`: rows that another replacement commits later survive it,
and may refuse the INSERT by the unique index (`ReplaceRefused`). Slips, their
payment and the expense are one transaction each. `asked`, `torn` and `gone` are
for the properties.

### Statements, Transactions, Routes and Api

These four are the program as its requests see it. A statement is the tables it
names; a transaction the statements of a repository function in order, once,
perhaps, or any number of times; a route the roles of its group in `server.go` and
the transactions of its handler, with one path per way through. Functions nothing
calls are left out.

`Api` runs them: `Request`, `PublicRequest` and `RunJob` let a route begin, `Begin`,
`RunStatement`, `PassStatement` and `Commit` are a transaction, `StatementFails` a
statement or a check that fails (the handler answers an error, or goes on where
the code drops it), `Refuse` an error of the handler's own before a transaction, `Crash` the caller or
the process going away. After the last transaction a handler answers one of the
`Verdicts` of its route: "ok", and an error too where it is `Judging`. That is the
login of the platform owner, which refuses another account of the platform center
with 401 when its session is committed (`admin.go:94`), and the refresh of a token,
which refuses a suspended center after the rotation; a replayed token is always
refused, its revocation committed. `conn` is `app.current_org` of the connection: `set_config`
with `true` lasts for the transaction, with `false` it would stay with the pooled
connection. `token` carries the role it was issued with, its age, and for how long
the account has no longer had that role (`ChangeAccount`). `Overtake` is another
request that commits a change to a table this one has read before.

What this level leaves out: rows, validation, foreign-key cascades, row policies
other than which tables have one; requests follow each other on one connection, so
what they do to each other is only `Overtake`; and a request is shorter than a unit
of the token's life. Two routes with the same gate and the same transactions are
one element of `AllRoutes` (`UpdateCenter` and `SetBilling`, for example). `Staged` and
`CheckThenAct` compare routes in that way, so they name every route they excuse.

## Runs

| Run | Checks | Instance |
|---|---|---|
| `RiskProfile` | `SignalsMonotone`, `LatestCheckinDecides` | four lessons edited after none or four attended ones, two homework dates, two weeks, three answers, two confidences |
| `Retention` | `StoredRiskExact`, `OneOpenTask`, `DeletedLeavesNothing`, `RedOpensTask`, `ResolvedIsFinal`, `EventuallyRepaired` | two students, two handlers and the daily job, one lesson, two weeks, two requests or failures, two tasks resolved, fairness |
| `Wallet` | `CoinsMatchLedger`, `PricedAtLevel`, `PurchasesPaid`, `AwardedOnce`, `LedgerOnlyGrows` | one student, two handlers, two items, two configs, four requests |
| `Billing` | `DriftExplained`, `OverpayBounded`, `DuplicatesBounded` | one student, one group and month, two handlers, three invoices and payments, six requests |
| `Sessions` | `OneSessionPerLogin`, `ReplayExplained`, `ReplayClosesUnlessOvertaken`, `ImplementsLoginChain` | one account, two handlers, three tokens |
| `Accounts` | `AdminLossExplained`, `DriftExplained` | one center, three accounts, two handlers, two values per column, five requests |
| `Alerts` | `AlertedOnce`, `EscalatedMeansTold`, `SlaKept`, `EventuallyEscalated` | two centers, one of them with a task and two directors, an SLA of one day, one fault, fairness |
| `Reminders` | `XpFromGrades`, `RemindedOnce`, `MissedExplained` | two students, two handlers, three requests, one edit, one fault |
| `Timetable` | `PrimaryIsMember`, `ShownNameExplained`, `RoomBookedOnce`, `TopicReusesLesson` | two groups, two handlers, two lessons, two overlapping hours, three requests, one edit, one fault |
| `Payroll` | `RulesAsAsked`, `PaidOnce` | two groups, two handlers, two slips, three requests, one fault |
| `Api` | `RlsSeesItsTenant`, `AuthorityBounded`, `MoneyKeptFrom`, `PartialWritesExplained`, `StaleWritesExplained` | every route and job, two centers, tokens of one and two units of life |
| `AccountsCenterKeepsAdmin` | `CenterKeepsAdmin`, violated | as `Accounts` |

Each module has a type invariant. No run lists it: it is proved, for every instance,
of every module that has a state but `LoginChain` (see Proofs).

Why the bounds are enough. A race in this code is between two transactions on
the rows of one student, teacher, room or center, so two handlers and one of these
show it; a third party (the daily job, the scan, the director, a deletion) is there
as an action of its own. Two of a kind are there where a loop visits them: two
directors and two centers in `Alerts`, two students in `Retention` and `Reminders`, two groups in
`Timetable` and `Payroll`. One fault per behaviour separates what a single failure
can do from what needs none. In `Retention` two requests overlap, or one meets a
failure or a deletion; what repairs them, the daily job and its next round, costs no
request, and two resolved tasks of a student are one in the middle of a refresh and one
before or after it. In the other modules three
requests are a race and one request more; four let a penalty, an award and two purchases meet; six let two payments, a
refund and a deletion of each meet. Three tokens are a login, its rotation and a
second device or the token of an overtaking rotation; replays need no fourth. Five
requests create a center with two administrators and let two removals, or three
edits, overlap. In the risk engine four edited dates reach
the forced Red, and the four attended ones before them separate the rate from the
streak. An SLA of one day has every case of a longer one: not due, due that
morning, a morning late, later. In `Api` one request at a time is enough because
what another does to it is `Overtake`, and one unit of a token's life is enough to
lose a role and go on with it. Identifiers are bounded (`Copies`, `Payments`,
`MaxToken`, `Lessons`, `Slips`) and so are
requests and failures (`MaxRequests`, `MaxResolved`, `MaxEdits`, `MaxFaults`, `budget`): when they
are used up `Billing`, `Accounts`, `Reminders`, `Timetable` and `Payroll`
stop, hence `CHECK_DEADLOCK FALSE` there; `Wallet`
says in `Finished` that only an idle system may stop, `Retention` and `Alerts` never
stop because the daily job goes on, nor do `Sessions`, whose logins can be refused
for ever, and `Api`.

Fairness. Safety needs none. `Retention` assumes weak fairness of each
process's transaction steps (a begun transaction ends: it runs to the commit or
fails, and where it waits for a student row, its holder ends) and of the daily job (`runScheduler` loops for the life of the process and
`RecomputeAll` walks the list). The first is written out as `RunsToEnd`, infinitely
often unable to go on or infinitely often a step of it, which says the same as
`WF_vars` with the guard (`CanGoOn`) in the place of ENABLED.
With two students the daily job may fail on one of them, which ends its round before
it has visited the other; failures are bounded, and `EventuallyRepaired` holds of each. `Alerts` assumes that days pass and that
a run that has begun goes on: the goroutine waits for nothing but its own
statements. Nothing is assumed of clients, of the staff or
of failures, whose number is bounded: a database that fails every day repairs
nothing and tells nobody.

### Where code and comments disagree

`AccountsCenterKeepsAdmin` checks what a comment says (`staff/service.go:91`, removing
the last administrator is blocked) and finds the behaviour that refutes it: two
removals list the staff before either writes.

The other disagreements have no run of their own; a passing property says how far
the statement does hold.

| Statement | What happens | What holds |
|---|---|---|
| cached totals in sync with the ledger (`points_repo.go:16`) | the XP total is floored at zero, the row of a penalty is not | `CoinsMatchLedger`, `PricedAtLevel` |
| generation is idempotent (`query.sql:605`) | two generations of a month at the same time do not see each other's rows | `DuplicatesBounded`, and for one handler `OneHandlerBillsOnce` |
| payments may not exceed the balance (`finance_repo.go:121`) | two payments are checked against the same balance | `OverpayBounded`, and for one handler `OneHandlerPaysWhatFits` |
| a deletion decrements the total (`contracts.go:516`) | two deletions of one payment each reverse it; a refund beyond zero is floored | `DriftExplained` |
| the whole token family is revoked on a replay (`contracts.go:21`) | a rotation commits during the revocation, which does not see its new session | `ReplayClosesUnlessOvertaken` |
| the stored risk that `Get` shows (`student/service.go:301`) | overlapping writes or a lost recompute leave an old one | `StoredRiskExact`, `EventuallyRepaired` |
| `recomputeInTx` "ensures an open task exists" (`retention_repo.go:134`) | staff resolve the task between the conflict of the insert and the refresh, which then finds none: Red stays without a task until the next recompute | `RedOpensTask`, `EventuallyRepaired` |
| the next check-in week (`student/service.go:350`) | two check-ins of the bot pick the same one | `PickWeek`, `SubmitPicked` do it in the model |
| tasks are marked escalated, once (`notify/service.go:52`) | a crash or a failed mark alerts the directors again; a failed insert marks all the same | `AlertedOnce`, `EscalatedMeansTold` |
| reminded assignments are not pinged again (`bot/service.go`, `RemindDueHomework`) | the mark fails, or the process dies before it; a later deadline keeps the mark | `RemindedOnce`, `MissedExplained` |
| `group_name` stays in sync (`query.sql:297`) | a rename or a deletion of the group does not reach it | `ShownNameExplained` |
| the primary group moves to a remaining membership (`group/service.go:173`) | another request, or the end of this one, comes in between | `PrimaryIsMember` |
| a double booking is rejected (`lesson/service.go:68`) | two requests check before either writes; the topic of a cancelled lesson revives it | `RoomBookedOnce` |
| one lesson per group and date (`SaveSessionTopic`) | two requests find none | `TopicReusesLesson` |
| the rules are replaced (`salary/service.go:44`) | the second transaction fails after the first, or two requests interleave | `RulesAsAsked` |

`AdminLossExplained` says the same of the last administrator, and `DriftExplained` of
`Accounts` of a superadmin edit, which otherwise changes what it names and nothing
else. `PartialWritesExplained` and `StaleWritesExplained` list, over all routes, the
requests that can answer an error for something they did, and those that write by
what they read in an earlier transaction. Among the first is the login of the platform
owner: another account of the platform center gets 401 (`admin.go:94`), and a refresh
session nobody was given stays behind until it expires.

## Proofs

All theorems are proved from the named assumptions on the constants
(`RiskAssumption`, `ProfileAssumption`, `RetentionAssumption`, `WalletAssumption`,
`BillingAssumption`, `SessionsAssumption`, `AccountsAssumption`, `AlertsAssumption`,
`PayrollAssumption`, `HandlingAssumption`, `CourseworkAssumption`, `GroupsAssumption`,
`RowsAssumption`, `HomeAssumption`, `LifeAssumption`), which TLC evaluates in the runs:
that bounds, prices and dates are numbers and defaults are values, that a marker such
as `NoGroup` is not a member of the set it marks the absence from, and that sets that
are counted are finite. None limits how many students, handlers, rows or centers there are.

| Theorem | Argument |
|---|---|
| `RetentionProofs!TypeCorrect` | every action keeps every variable in its type; its first lemmas bound each factor of `Evaluate` and so the score |
| `RetentionProofs!ProfileTypeCorrect`, `SignalsMonotoneHolds` | factor by factor: a mark written over adds or removes one element of the recorded and of the completed dates, so every rung of the ladder that was missed still is (`MissedRungs`, `AttendedRungs`), and the trailing run grows or shrinks as a set (`MissedStreak`); `FactorsDecide` adds them up to score and tier |
| `RetentionProofs!LatestCheckinDecidesHolds` | `LatestIs`: the check-in that is read is that of the greatest week, which an older one does not change |
| `RetentionProofs!OneOpenTaskHolds` | `TasksMoveStep`: a step leaves the tasks of a student, moves one status forward, opens a task, only when nothing is unresolved, or refreshes the unresolved ones |
| `RetentionProofs!ResolvedIsFinalHolds` | the same lemma: none of these touches a resolved task |
| `RetentionProofs!DeletedLeavesNothingHolds` | a deletion clears the rows, and every write is guarded by the enrolled student (in SQL, by the foreign key) |
| `RetentionProofs!StoredRiskExactHolds` | see below |
| `RetentionProofs!RedOpensTaskHolds` | inductive `RedHasReasons`: an outcome that is about to be stored as Red has a reason, because a score of Red, or the forced Red, needs a factor that is present; storing it with a reason opens a task, or refreshes the one that was found, which nobody but staff can have resolved since: `RowsHeld` says that while a transaction holds a student row its student is enrolled and its task unresolved or marked `resolved` |
| `WalletProofs!TypeCorrect` | includes that balances stay natural numbers: the guard of `SpendCoins` and `Floor` |
| `WalletProofs!LedgerOnlyGrowsHolds`, `AwardedOnceHolds` | `LedgerMoveStep`: a ledger is kept, emptied with its student, or extended by a row with a new key |
| `WalletProofs!PurchasesPaidHolds` | inductive `PaidInv`: a reserved item is unowned and reserved once (`Reserved`), a purchase row in the ledger means sold before (`Sold`) |
| `WalletProofs!CoinsMatchLedgerHolds` | `SumStep`: the sum of a ledger with one row more is the old sum and that row (see below), and every step that moves the balance appends the row that moves it |
| `WalletProofs!PricedAtLevelHolds` | inductive `LockedXp`: what an award has read under the row lock is the XP of the student until it commits, and nobody else holds the lock |
| `FinanceProofs!TypeCorrect`, `PaymentsHaveInvoiceHolds` | the cascade removes a payment with its invoice, and a payment is inserted only under an invoice |
| `FinanceProofs!OneHandlerBillsOnce` | with one handler nothing is inserted between the snapshot and the INSERT (`SnapshotHolds`) |
| `FinanceProofs!OneHandlerPaysWhatFits` | with one handler a read total can only be gone when it is used, not changed (`ReadHolds`) |
| `FinanceProofs!DriftExplainedHolds` | inductive with `RequestsHold` (a payment about to be deleted is taken already or still the one that was read): `paid` and the sum of the payments move by the same amount, or `past` says why not |
| `FinanceProofs!OverpayBoundedHolds` | inductive `TotalsBounded` and `RefundsShow`, see below |
| `FinanceProofs!DuplicatesBoundedHolds` | inductive `MonthliesBounded`: the monthly invoices of a member and month and the generations about to bill it are together no more than the handlers |
| `SessionsProofs!TypeCorrect`, `OneSessionPerLoginHolds` | inductive `RowInv`: every token in use has a login in use (`LoginInv`), a locked token is live or revoked as its request believes and no two requests hold it (`LockInv`) |
| `SessionsProofs!ImplementsLoginChainHolds` | refinement: `Issue` is `Open`, `RotateCommit` is `Exchange`, revocation and deletion are `Close`, every other step a stutter; `RowInv` makes the exchange one for one |
| `SessionsProofs!ReplayClosesUnlessOvertakenHolds` | inductive `CloseInv`: a running revocation has seen every live session of its user that was not inserted since (`SeenInv`) |
| `SessionsProofs!ReplayExplainedHolds` | inductive `HandInv`, see below |
| `AccountsProofs!TypeCorrect`, `AdminLossExplainedHolds`, `DriftExplainedHolds` | inductive `IInv`: a removal that is not stale would leave an administrator, an edit that is not stale read the row as it is |
| `AccountsProofs!OneHandlerKeepsAdmin` | with one handler nothing read is ever stale (`NothingStale`) |
| `AlertsProofs!AlertedOnceHolds` | inductive `Once` on top of `Unmarked` (what the job has listed is not marked yet): a director still to be notified of a task has no alert of it, unless its last run died or its mark failed |
| `AlertsProofs!EscalatedMeansToldHolds` | inductive `EveryoneTold`: at every moment of the loop, a director the task is for is still to come or has been told |
| `AlertsProofs!SlaKeptHolds` | inductive `InTime`, see below |
| `FinanceProofs!PayrollTypeCorrect`, `PaidOnceHolds` | inductive `Booked`, slip by slip: no expense before the payment, one after it, and what took slip or expense away |
| `FinanceProofs!RulesAsAskedHolds` | inductive `Rules`, see below |
| `TeachingProofs!TimetableTypeCorrect`, `RemindersTypeCorrect` | the types of `Roster` and `Timetable`, of `Coursework` and `Reminders` |
| `TeachingProofs!PrimaryIsMemberHolds`, `ShownNameExplainedHolds` | inductive `RosterInv`: what a request read of the student is still true unless it is marked as overtaken (`RosterFresh`) |
| `TeachingProofs!RoomBookedOnceHolds` | inductive `RoomInv`: the room a request found free, and the slot of the lesson a topic goes to, are as they were unless it is marked as overtaken (`RoomFresh`) |
| `TeachingProofs!TopicReusesLessonHolds` | the same `RoomFresh`, at the step that inserts the lesson |
| `TeachingProofs!XpFromGradesHolds` | inductive `XpInv`: every award on its way carries the XP of a grade that was given (`AwardsGiven`), and a grade worth XP has been credited, has its award on its way, or lost it |
| `TeachingProofs!RemindedOnceHolds` | inductive `OnceInv` on top of `LiveOnly`: whoever was pushed to is on no list still to be worked off, and the mark that keeps later scans away is there or the next step, unless its failure is noted |
| `TeachingProofs!MissedExplainedHolds` | inductive `MissedInv`, see below |
| `ApiProofs!ApiTypeCorrect` | every route of the program is typed (`EveryRoute`), every step keeps the request at a place of a path of its route |
| `ApiProofs!AuthorityBoundedHolds` | inductive `TokenAges`: a token counts no more time without its role than it counts at all, and is accepted for one life |
| `ApiProofs!RlsSeesItsTenantHolds` | inductive `TenantSet`, and every transaction sets its tenant before it touches a secured table (`Framed`) |
| `ApiProofs!MoneyKeptFromHolds` | the routes that admit a role of `FrontDesk` have no statement on `Money` (`MoneyRoutes`) |
| `ApiProofs!PartialWritesExplainedHolds` | `WroteBefore` and `DirtyWritten`, and no path outside `Staged` has a transaction that must succeed after one that writes, and no route outside it is `Judging` (`WholeRoutes`) |
| `ApiProofs!StaleWritesExplainedHolds` | no path outside `CheckThenAct` writes what an earlier transaction of it read (`FreshRoutes`) |

The invariant of `StoredRiskExactHolds`. `StoredRiskExact` alone is not
inductive: a commit stores an outcome computed earlier. `ExactInv` adds
`NoEarlyTx` (no transaction is on a student not created yet), `RowsHeld` (a student row
has one holder and is not deleted under it) and `ReadView`: a
transaction that has read and was not overtaken carries the evaluation of the
history as it will be after its own row is applied. A commit on the same student
either changes no signal, or marks the transactions that had read as overtaken,
and an overtaken one marks its student stale when it persists.

The invariant of `ReplayExplainedHolds`. A token is answered as a reuse when it is
revoked while a request presents it, so `HandInv` follows it from hand to hand: a
token a client holds is revoked only if it is excused or a request that has just
rotated it is about to answer (`HeldInv`); the same of a token being presented,
where a second presentation is already an excuse (`ServedInv`); and a replacement
not yet delivered is revoked only if it was swept (`NewInv`).

The invariant of `SlaKeptHolds`. That a task is never two mornings late says
nothing of the morning before. `InTime` adds where the job is: while no run was
delayed, a task one morning late is `Pending`, still to come to the goroutine before
it sleeps again (its center is not visited yet, or the task is in the list that is
being worked off); when the goroutine sleeps, no task is late.

The invariant of `RulesAsAskedHolds`. While a replacement is between its two
transactions the overrides are not what was asked. `Alone` says of a request that
nothing overtook that it is the only one, that the overrides asked for last are its
own, and that the rows its DELETE found are all there are, so that its INSERTs leave
what was asked. Any other request that begins or ends marks it as overtaken.

The invariant of `OverpayBoundedHolds`. That the payments are at most the amount
times the handlers is not inductive: each of them may be about to pay. `RoomLeft`
counts those: while nobody is, the total is within the bound; while some are
(`Paying`), one of them, were it the next to pay, would leave the total within one
amount for each handler that is not about to pay and one for itself. `RefundsShow` says that a negative payment, or
the request that reverses one, has its refund in `past`, where the bound ends.

The invariant of `MissedExplainedHolds`. Who has not been reminded and has no excuse
is `Waiting`. Before the clock nears the deadline nothing is marked (`NotYet`); from
the first scan that has listed, those who wait are on the list it still holds
(`StillListed`); so when the scan sleeps again, nobody waits. A student who starts to
wait later (a new member, a chat linked late, an answer taken back) has the excuse.

Sums and replays. `SumCoins`, `XpAfter` and the total of the payments are recursive
functions and folds. That a fold has a value for every ledger would need induction
over data, whose library theorems take an operator. What the invariants need is only
how the fold of a ledger with one row more differs from the fold without it, and that
two functions that satisfy the same equations are equal. That follows from the least
element of a set of natural numbers: the smallest place where they differ has a
predecessor where they agree (`CountUp` and the lemmas after it in `WalletProofs`,
`IsFold` in `FinanceProofs`).

The routes of `ApiProofs`. The first half is a fact about the text of the program:
each of the transactions, paths and routes is expanded once, bottom up, from
statements on known tables (`StatementsOn`) to `RoutesOn`. `Whole` and `Fresh` are
proved path by path from the tables each transaction writes and reads, by lemmas
on paths of one, two and three transactions; the exceptions are the routes
`Staged` and `CheckThenAct` name, and no others. The second half knows only that a
path has these facts, so it holds for any program whose routes have them. `TenantSet`
says that a running transaction that is past its `SetTenant` has the center of the
request on the connection, and that nothing stays between transactions. `WroteBefore`
says that a request that has committed a change is past a transaction that makes one,
or in its loop, so one that must succeed cannot be the next to fail.

Only model-checked: liveness (`EventuallyRepaired`, `EventuallyEscalated`), which the
prover does not do. Every other property of the passing runs is a theorem, and
`CenterKeepsAdmin`, which is violated, is one for a single handler
(`OneHandlerKeepsAdmin`).

## Not modelled

- What a row policy of PostgreSQL does with the setting it is given: `Api` checks
  that the setting is there and is the request's, and every other module is one
  center.
- Passwords, signatures and hashes; decoding, validation and encoding of requests;
  message texts and localisation; configuration and logging.
- What read-only reports compute: dashboard, analytics, finance summaries, debtors,
  the preview of a salary. `Routes` has who may read them and from which tables.
- The language model, the Telegram API, the conversation of the bot.
- Deadlocks of the database. `GroupRepository.Delete` (`group_repo.go:136`) clears the
  primary group of many students in one UPDATE, and other transactions lock the
  same students one at a time; PostgreSQL ends one of the two. The models have the
  outcome, a transaction that fails, but not the wait.
- Integers are unbounded: `int32` overflow of coins, XP and amounts is outside the
  model.
- The debt factor of the risk engine, two groups of a student on one lesson date, and
  everything nothing calls (`PointsRepository.Spend`, the hard delete of a center,
  invite tokens).

## Plan

Every safety property of the runs is proved. What would come next: the trigger of a
jump against a stored score that another transaction has replaced, and the week of a
check-in that two requests choose (hazards no property is about yet); attendance and
its award composed as grade and award are in `Coursework`, with the proof of
`XpFromGrades` carried over; and for `PartialWritesExplained` and
`StaleWritesExplained` the rows behind the exceptions, route by route, as `Payroll`
and `Roster` do it for `SetRule` and `AddMember`.
