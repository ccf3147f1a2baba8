------------------------------ MODULE Retention ------------------------------
(***************************************************************************)
(* Risk and intervention tasks of one learning center: the student usecase *)
(* (internal/usecase/student/service.go), the retention repository it      *)
(* writes through (internal/repo/postgres/retention_repo.go), the task     *)
(* operations of internal/usecase/intervention/service.go, and the daily   *)
(* RecomputeAll of the maintenance scheduler.                              *)
(*                                                                         *)
(* Every write of a signal is one READ COMMITTED transaction: upsert the   *)
(* row, read the student's history back, persist score and tier, open or   *)
(* refresh the task.  Nothing locks the student, so two transactions of    *)
(* one student interleave.  A transaction is three steps here: it begins   *)
(* with its upsert (visible to itself only), it reads, and it persists and *)
(* commits.  From the UPDATE of the student row to the commit nobody else  *)
(* writes that row, but a task is another row: a transaction that finds an *)
(* unresolved task stops once more, with the student row locked, before it *)
(* refreshes the reasons, and staff may resolve the task meanwhile.  A new *)
(* task is seen by nobody before the commit, so without the conflict       *)
(* UPDATE, INSERT and commit are one step.                                 *)
(***************************************************************************)
EXTENDS RiskScore, Sequences

CONSTANTS
  Students,     \* ids a student row can have; an id is never reused
  Workers,      \* request handlers running at the same time
  Daily,        \* the maintenance scheduler, a process like the handlers
  Answers,      \* check-ins the students send, a subset of Surveys
  Confidences,  \* confidence levels the staff type
  CanFail,      \* whether transactions may fail
  MaxRequests,  \* bound: client requests, deletions and failures in one behaviour
  MaxResolved   \* bound: tasks of one student that staff resolve

ASSUME RetentionAssumption ==
  /\ Daily \notin Workers
  /\ Answers \subseteq Surveys
  /\ Confidences \subseteq 1..10
  /\ CanFail \in BOOLEAN
  /\ MaxRequests \in Nat
  /\ MaxResolved \in Nat

VARIABLES
  roster,   \* per student: not created yet, enrolled, or deleted
  history,  \* per student: the committed attendance, homework, survey rows
            \*   and confidence
  stored,   \* per student: students.risk_score and students.risk_tier
  tasks,    \* per student: its intervention_tasks rows, oldest first
  tx,       \* per process: the transaction it is in
  job,      \* students the running RecomputeAll has still to visit
  budget,   \* client requests, deletions and failures left
  stale     \* history variable, per student: a signal was committed that
            \*   the stored risk was not computed from

vars == <<roster, history, stored, tasks, tx, job, budget, stale>>

Procs == Workers \cup {Daily}

-----------------------------------------------------------------------------
(* Rows and transactions.                                                 *)
Statuses == {"Open", "In Progress", "Resolved"}
Task     == [status : Statuses, reasons : Reasons]
Risk     == [score : 0..100, tier : Tiers]

Write == [kind : {"att"}, key : Dates, value : Marks \ {"none"}]
           \cup [kind : {"hw"}, key : HomeworkDates, value : Marks \ {"none"}]
           \cup [kind : {"survey"}, key : Weeks, value : Surveys]
NoWrite == [kind |-> "none", key |-> 0, value |-> "none"]

NoOutcome == [score |-> 0, tier |-> "Green", reasons |-> {}]

(* pc: "picked" has read the weeks and not yet begun, "read" has begun     *)
(* and will read the history, "persist" has read it, "refresh" has written *)
(* the risk and found a task in the way of its own.  resolved is a history *)
(* field: staff resolved a task of the student since.                      *)
Tx == [pc : {"picked", "read", "persist", "refresh"}, student : Students,
       write : Write \cup {NoWrite}, outcome : Outcomes, overtaken : BOOLEAN,
       resolved : BOOLEAN]
Idle == [pc |-> "idle"]

Busy(p)      == tx[p].pc # "idle"
On(p, s)     == Busy(p) /\ tx[p].student = s
Begun(p, s)  == On(p, s) /\ tx[p].pc \in {"read", "persist", "refresh"}

(* No transaction has updated the row of s and not yet committed.          *)
RowFree(s) == \A p \in Procs : On(p, s) => tx[p].pc # "refresh"

(* Mutant: the delete leaves the row behind for the other statements.     *)
EnrolledSoftDelete == {s \in Students : roster[s] # "unborn"}

Enrolled == {s \in Students : roster[s] = "enrolled"}

(* The row a write leaves in the history of its student.                  *)
Apply(h, write) ==
  CASE write.kind = "att"    -> [h EXCEPT !.att[write.key] = write.value]
    [] write.kind = "hw"     -> [h EXCEPT !.hw[write.key] = write.value]
    [] write.kind = "survey" -> [h EXCEPT !.survey[write.key] = write.value]
    [] OTHER                 -> h

-----------------------------------------------------------------------------
TypeOK ==
  /\ roster \in [Students -> {"unborn", "enrolled", "deleted"}]
  /\ history \in [Students -> History]
  /\ stored \in [Students -> Risk]
  /\ tasks \in [Students -> Seq(Task)]
  /\ tx \in [Procs -> Tx \cup {Idle}]
  /\ job \subseteq Students
  /\ budget \in Nat
  /\ stale \in [Students -> BOOLEAN]

(* Mutant: Create leaves the risk columns at their defaults.              *)
InitiallyZero(c) == [score |-> 0, tier |-> "Green"]

(* What Create stores: the score of a student without any history.        *)
Initially(c) == [score |-> Score(EmptyHistory(c)), tier |-> Tier(EmptyHistory(c))]

Init ==
  /\ roster = [s \in Students |-> "unborn"]
  /\ history = [s \in Students |-> EmptyHistory(1)]
  /\ stored = [s \in Students |-> Initially(1)]
  /\ tasks = [s \in Students |-> <<>>]
  /\ tx = [p \in Procs |-> Idle]
  /\ job = {}
  /\ budget = MaxRequests
  /\ stale = [s \in Students |-> FALSE]

-----------------------------------------------------------------------------
(***************************************************************************)
(* The students table.                                                     *)
(***************************************************************************)
CreateStudent(s, c) ==
  /\ roster[s] = "unborn"
  /\ roster' = [roster EXCEPT ![s] = "enrolled"]
  /\ history' = [history EXCEPT ![s] = EmptyHistory(c)]
  /\ stored' = [stored EXCEPT ![s] = Initially(c)]
  /\ UNCHANGED <<tasks, tx, job, budget, stale>>

(* The DELETE cascades to every child row.  A transaction that has         *)
(* inserted a child of s holds a key-share lock on the student row, so the *)
(* DELETE waits for it; one that only recomputes holds nothing before its  *)
(* UPDATE.                                                                 *)
DeleteStudent(s) ==
  /\ roster[s] = "enrolled" /\ budget > 0
  /\ \A p \in Procs : Begun(p, s) => tx[p].write = NoWrite
  /\ RowFree(s)
  /\ roster' = [roster EXCEPT ![s] = "deleted"]
  /\ history' = [history EXCEPT ![s] = EmptyHistory(1)]
  /\ stored' = [stored EXCEPT ![s] = Initially(1)]
  /\ tasks' = [tasks EXCEPT ![s] = <<>>]
  /\ stale' = [stale EXCEPT ![s] = FALSE]
  /\ budget' = budget - 1
  /\ UNCHANGED <<tx, job>>

(* A commit on s that changes a signal: a transaction that has already     *)
(* read the history of s will persist a risk computed without it.  One     *)
(* that holds the row is not overtaken: such a commit writes the row too.  *)
Overtake(t, s) ==
  [p \in Procs |-> IF /\ t[p].pc = "persist" /\ t[p].student = s
                   THEN [t[p] EXCEPT !.overtaken = TRUE] ELSE t[p]]

Begin(s, write, pc) == [pc |-> pc, student |-> s, write |-> write,
                        outcome |-> NoOutcome, overtaken |-> FALSE, resolved |-> FALSE]

(* Update commits the profile in a transaction of its own, then starts the *)
(* best-effort recompute.                                                  *)
UpdateStudent(w, s, c) ==
  /\ ~Busy(w) /\ roster[s] = "enrolled" /\ budget > 0
  /\ RowFree(s)
  /\ history' = [history EXCEPT ![s].confidence = c]
  /\ tx' = [Overtake(tx, s) EXCEPT ![w] = Begin(s, NoWrite, "read")]
  /\ stale' = [stale EXCEPT ![s] = TRUE]
  /\ budget' = budget - 1
  /\ UNCHANGED <<roster, stored, tasks, job>>

-----------------------------------------------------------------------------
(***************************************************************************)
(* The signal transactions.  The upsert waits while another transaction    *)
(* holds the same key of the unique index; without the student row the     *)
(* foreign key refuses it and nothing has happened.                        *)
(***************************************************************************)
KeyFree(s, write) ==
  \A p \in Procs : Begun(p, s) =>
    tx[p].write.kind # write.kind \/ tx[p].write.key # write.key

Request(w, s, write) ==
  /\ ~Busy(w) /\ roster[s] = "enrolled" /\ budget > 0
  /\ KeyFree(s, write)
  /\ tx' = [tx EXCEPT ![w] = Begin(s, write, "read")]
  /\ budget' = budget - 1
  /\ UNCHANGED <<roster, history, stored, tasks, job, stale>>

RecordAttendance(w, s, d, present) ==
  Request(w, s, [kind |-> "att", key |-> d, value |-> IF present THEN "yes" ELSE "no"])

RecordHomework(w, s, d, done) ==
  Request(w, s, [kind |-> "hw", key |-> d, value |-> IF done THEN "yes" ELSE "no"])

SubmitSurvey(w, s, week, answer) ==
  Request(w, s, [kind |-> "survey", key |-> week, value |-> answer])

(* SubmitWeeklySurvey, the bot's entry point, lists the surveys in one     *)
(* transaction to find the next week ...                                   *)
NextWeek(h) ==
  IF SurveyWeeks(h) = {} THEN 1
  ELSE 1 + CHOOSE w \in SurveyWeeks(h) : \A v \in SurveyWeeks(h) : v <= w

PickWeek(w, s, answer) ==
  /\ ~Busy(w) /\ roster[s] = "enrolled" /\ budget > 0
  /\ NextWeek(history[s]) \in Weeks
  /\ tx' = [tx EXCEPT ![w] =
              Begin(s, [kind |-> "survey", key |-> NextWeek(history[s]), value |-> answer],
                    "picked")]
  /\ budget' = budget - 1
  /\ UNCHANGED <<roster, history, stored, tasks, job, stale>>

(* ... and submits the check-in of that week in the next one, unless the   *)
(* student is gone.                                                        *)
SubmitPicked(w) ==
  /\ tx[w].pc = "picked"
  /\ IF tx[w].student \in Enrolled
     THEN /\ KeyFree(tx[w].student, tx[w].write)
          /\ tx' = [tx EXCEPT ![w].pc = "read"]
     ELSE tx' = [tx EXCEPT ![w] = Idle]
  /\ UNCHANGED <<roster, history, stored, tasks, job, budget, stale>>

(* An error ends the whole RecomputeAll of the center.                    *)
JobAfterError(p) == IF p = Daily THEN {} ELSE job

(* The four SELECTs of recomputeInTx, as one step, and the injected        *)
(* computation over the history the transaction sees, its own row          *)
(* included.  GetStudent finds no row when the student was deleted.        *)
ReadSignals(p) ==
  /\ tx[p].pc = "read"
  /\ LET s == tx[p].student
     IN  IF s \in Enrolled
         THEN /\ \E seen \in {Apply(history[s], tx[p].write)} :
                   tx' = [tx EXCEPT ![p].pc = "persist",
                                    ![p].outcome = Outcome(seen, stored[s].score)]
              /\ UNCHANGED job
         ELSE tx' = [tx EXCEPT ![p] = Idle] /\ job' = JobAfterError(p)
  /\ UNCHANGED <<roster, history, stored, tasks, budget, stale>>

Unresolved(ts) == {i \in DOMAIN ts : ts[i].status # "Resolved"}

(* Mutants: the insert has no conflict target; the unique index is not     *)
(* partial.                                                                *)
NeverInTheWay(ts) == FALSE
AnyInTheWay(ts)   == ts # <<>>

(* The partial unique index on the unresolved tasks of a student: the      *)
(* INSERT of CreateInterventionTask does nothing, ON CONFLICT DO NOTHING.  *)
InTheWay(ts) == Unresolved(ts) # {}

(* A tier that is not Red, and rose slowly, asks for no task.              *)
Opened(ts, reasons) ==
  IF reasons = {} THEN ts ELSE Append(ts, [status |-> "Open", reasons |-> reasons])

(* Mutant: the refresh forgets the status in its WHERE.                    *)
RefreshedAll(ts, reasons) == [i \in DOMAIN ts |-> [ts[i] EXCEPT !.reasons = reasons]]

Refreshed(ts, reasons) ==
  [i \in DOMAIN ts |-> IF i \in Unresolved(ts) THEN [ts[i] EXCEPT !.reasons = reasons]
                                               ELSE ts[i]]

(* The transaction of p commits its signal and the risk it computed, and   *)
(* leaves the student with the tasks ts.                                   *)
Commit(p, s, ts) ==
  /\ history' = [history EXCEPT ![s] = Apply(@, tx[p].write)]
  /\ stored' = [stored EXCEPT ![s] = [score |-> tx[p].outcome.score,
                                      tier  |-> tx[p].outcome.tier]]
  /\ tasks' = [tasks EXCEPT ![s] = ts]
  /\ stale' = [stale EXCEPT ![s] = tx[p].overtaken]
  /\ tx' = [(IF tx[p].write = NoWrite THEN tx ELSE Overtake(tx, s)) EXCEPT ![p] = Idle]
  /\ UNCHANGED <<roster, job, budget>>

(* UpdateStudentRisk, which waits for the row, and CreateInterventionTask. *)
(* Either no task is asked for or it is opened, and the transaction        *)
(* commits; or a task is in the way, and its reasons are still to come.    *)
PersistRisk(p) ==
  /\ tx[p].pc = "persist" /\ RowFree(tx[p].student)
  /\ LET s == tx[p].student
         reasons == tx[p].outcome.reasons
     IN  /\ s \in Enrolled
         /\ reasons = {} \/ ~InTheWay(tasks[s])
         /\ Commit(p, s, Opened(tasks[s], reasons))

FindTask(p) ==
  /\ tx[p].pc = "persist" /\ RowFree(tx[p].student)
  /\ tx[p].student \in Enrolled
  /\ tx[p].outcome.reasons # {} /\ InTheWay(tasks[tx[p].student])
  /\ tx' = [tx EXCEPT ![p].pc = "refresh"]
  /\ UNCHANGED <<roster, history, stored, tasks, job, budget, stale>>

(* For a student deleted since the read the UPDATE hits no row, and        *)
(* opening a task violates its foreign key.                                *)
MissStudent(p) ==
  /\ tx[p].pc = "persist"
  /\ tx[p].student \notin Enrolled
  /\ tx' = [tx EXCEPT ![p] = Idle]
  /\ job' = IF tx[p].outcome.reasons # {} THEN JobAfterError(p) ELSE job
  /\ UNCHANGED <<roster, history, stored, tasks, budget, stale>>

Persist(p) == PersistRisk(p) \/ FindTask(p) \/ MissStudent(p)

(* UpdateOpenTaskReasons and the commit.  It rewrites what is unresolved   *)
(* by now: nothing, without an error, when the task was resolved since.    *)
RefreshReasons(p) ==
  /\ tx[p].pc = "refresh"
  /\ LET s == tx[p].student
     IN  Commit(p, s, Refreshed(tasks[s], tx[p].outcome.reasons))

(* A crash, a cancelled request or a database error rolls back.           *)
Fail(p) ==
  /\ CanFail /\ Busy(p) /\ budget > 0
  /\ tx' = [tx EXCEPT ![p] = Idle]
  /\ job' = JobAfterError(p)
  /\ budget' = budget - 1
  /\ UNCHANGED <<roster, history, stored, tasks, stale>>

-----------------------------------------------------------------------------
(***************************************************************************)
(* The kanban: one UPDATE each, guarded by the status in its WHERE.        *)
(***************************************************************************)
StartTask(s, i) ==
  /\ i \in DOMAIN tasks[s] /\ tasks[s][i].status = "Open"
  /\ tasks' = [tasks EXCEPT ![s][i].status = "In Progress"]
  /\ UNCHANGED <<roster, history, stored, tx, job, budget, stale>>

ResolveTask(s, i) ==
  /\ i \in Unresolved(tasks[s])
  /\ Cardinality(DOMAIN tasks[s] \ Unresolved(tasks[s])) < MaxResolved
  /\ tasks' = [tasks EXCEPT ![s][i].status = "Resolved"]
  /\ tx' = [p \in Procs |-> IF tx[p].pc = "refresh" /\ tx[p].student = s
                            THEN [tx[p] EXCEPT !.resolved = TRUE] ELSE tx[p]]
  /\ UNCHANGED <<roster, history, stored, job, budget, stale>>

(***************************************************************************)
(* RecomputeAll: list the students, then one recompute transaction each.   *)
(***************************************************************************)
(* Mutant: the daily job skips the students already on the board.         *)
ListNotAtRisk ==
  /\ ~Busy(Daily) /\ job = {}
  /\ job' = {s \in Enrolled : stored[s].tier = "Green"}
  /\ UNCHANGED <<roster, history, stored, tasks, tx, budget, stale>>

ListForRecompute ==
  /\ ~Busy(Daily) /\ job = {}
  /\ job' = Enrolled
  /\ UNCHANGED <<roster, history, stored, tasks, tx, budget, stale>>

RecomputeNext(s) ==
  /\ ~Busy(Daily) /\ s \in job
  /\ job' = job \ {s}
  /\ tx' = [tx EXCEPT ![Daily] = Begin(s, NoWrite, "read")]
  /\ UNCHANGED <<roster, history, stored, tasks, budget, stale>>

-----------------------------------------------------------------------------
ClientStep(w, s) ==
  \/ \E c \in Confidences : UpdateStudent(w, s, c)
  \/ \E d \in Dates, present \in BOOLEAN : RecordAttendance(w, s, d, present)
  \/ \E d \in HomeworkDates, done \in BOOLEAN : RecordHomework(w, s, d, done)
  \/ \E week \in Weeks, answer \in Answers : SubmitSurvey(w, s, week, answer)
  \/ \E answer \in Answers : PickWeek(w, s, answer)

StaffStep(s) ==
  \/ \E c \in Confidences : CreateStudent(s, c)
  \/ DeleteStudent(s)
  \/ \E i \in DOMAIN tasks[s] : StartTask(s, i) \/ ResolveTask(s, i)

JobStep == ListForRecompute \/ \E s \in Students : RecomputeNext(s)

Next ==
  \/ \E w \in Workers, s \in Students : ClientStep(w, s)
  \/ \E s \in Students : StaffStep(s)
  \/ \E w \in Workers : SubmitPicked(w)
  \/ \E p \in Procs : ReadSignals(p) \/ Persist(p) \/ RefreshReasons(p) \/ Fail(p)
  \/ JobStep

Spec == Init /\ [][Next]_vars

(* Weak fairness of ReadSignals(p) \/ Persist(p) \/ RefreshReasons(p), with *)
(* its guard written out: TLC takes long to see through ENABLED of a       *)
(* computation.                                                            *)
CanGoOn(p) ==
  \/ tx[p].pc \in {"read", "refresh"}
  \/ tx[p].pc = "persist" /\ RowFree(tx[p].student)
RunsToEnd(p) ==
  \/ []<>~CanGoOn(p)
  \/ []<><<ReadSignals(p) \/ Persist(p) \/ RefreshReasons(p)>>_vars

(* A transaction that has begun runs to its end unless it fails, and the   *)
(* scheduler's loop starts a RecomputeAll every day and works through it.  *)
Fairness ==
  /\ \A p \in Procs : RunsToEnd(p)
  /\ WF_vars(JobStep)

FairSpec == Spec /\ Fairness

-----------------------------------------------------------------------------
Exact(s) == stored[s] = [score |-> Score(history[s]), tier |-> Tier(history[s])]

(* The stored risk is the evaluation of the committed signals, unless a    *)
(* signal was committed that the last recompute had not read: the profile  *)
(* edit whose own recompute is to come or failed, or a transaction that    *)
(* was overtaken between its read and its UPDATE.  Any later recompute     *)
(* that nobody overtakes repairs it (recomputeInTx).                       *)
StoredRiskExact == \A s \in Enrolled : stale[s] \/ Exact(s)

(* The one-open-per-student index holds through every interleaving of the  *)
(* auto-open, the refresh, Start, Resolve and the next auto-open.          *)
OneOpenTask ==
  \A s \in Students : \A i, j \in Unresolved(tasks[s]) : i = j

(* A recompute still running when its student is deleted brings nothing    *)
(* back: no task, no row (the foreign keys of the child tables).           *)
DeletedLeavesNothing ==
  \A s \in Students : roster[s] # "enrolled" =>
    /\ tasks[s] = <<>> /\ SurveyWeeks(history[s]) = {}
    /\ Recorded(history[s].att) = {} /\ Recorded(history[s].hw) = {}

(* A step that stores Red, or stores another score on a student who is     *)
(* Red, leaves an unresolved task with a reason on the board, whatever was *)
(* resolved, refreshed or reopened meanwhile, but for one case: staff      *)
(* resolved the task after it kept a new one from being opened and before  *)
(* its reasons were refreshed (recomputeInTx, between its last statements).*)
RedOpensTask ==
  [][\A s \in Students :
       stored'[s] # stored[s] /\ stored'[s].tier = "Red" =>
         \/ \E i \in Unresolved(tasks[s]') : tasks'[s][i].reasons # {}
         \/ \E p \in Procs : On(p, s) /\ tx[p].resolved]_vars

(* A resolved task is history: nothing reopens it or rewrites it, a new    *)
(* risk opens a new task.                                                  *)
ResolvedIsFinal ==
  [][\A s \in Students : roster'[s] = "enrolled" =>
       \A i \in DOMAIN tasks[s] \ Unresolved(tasks[s]) :
         i \in DOMAIN tasks'[s] /\ tasks'[s][i] = tasks[s][i]]_vars

(* Whatever overlapped, failed or was lost, the daily job brings every     *)
(* stored risk back to the evaluation of the signals and every Red student *)
(* back on the board, once staff let the task stand, and keeps them there. *)
OnTheBoard(s) ==
  stored[s].tier = "Red" => \E i \in Unresolved(tasks[s]) : tasks[s][i].reasons # {}
EventuallyRepaired ==
  \A s \in Students : <>[](roster[s] = "enrolled" => Exact(s) /\ OnTheBoard(s))
=============================================================================
