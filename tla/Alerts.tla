-------------------------------- MODULE Alerts --------------------------------
(***************************************************************************)
(* The daily job and the alerts it raises: runScheduler (internal/app),    *)
(* RunDaily and its loops over the centers (internal/usecase/maintenance), *)
(* EscalateStaleTasks and Notify (internal/usecase/notify), and the feed   *)
(* of a director (notification_repo.go).                                   *)
(*                                                                         *)
(* One goroutine runs the job; every statement of it is a transaction of   *)
(* its own, so the staff, the clock and a crash come in between.  A task   *)
(* is a row of intervention_tasks that a recompute opened for a Red        *)
(* student; Retention models how.                                          *)
(***************************************************************************)
EXTENDS Naturals, FiniteSets

CONSTANTS
  Orgs,       \* learning centers
  Tasks,      \* ids of intervention_tasks rows, never reused
  Users,      \* ids of users that are directors at some time, never reused
  OrgOf,      \* the center of a task or user
  SlaDays,    \* slaDays: days a task may wait
  MaxFaults   \* bound: crashes and failed statements in one behaviour

ASSUME AlertsAssumption ==
  /\ OrgOf \in [Tasks \cup Users -> Orgs]
  /\ SlaDays \in Nat /\ MaxFaults \in Nat

VARIABLES
  task,       \* intervention_tasks: status, mornings since created_at, and
              \*   whether escalated_at is set
  user,       \* users: no row yet, center_admin, another role, deleted
  feed,       \* notifications: unread and read rows per user and task
  job,        \* the goroutine of runScheduler: where it is, what it read
  faults,     \* crashes and failed statements so far
  addressed,  \* history, per task: the directors its last alert was for
  past,       \* history, per task: what went wrong with its alerts
  late        \* history: what delayed a whole run of the job

vars == <<task, user, feed, job, faults, addressed, past, late>>

-----------------------------------------------------------------------------
(* Ages beyond this one are all the same: the job is a morning late.       *)
MaxAge == SlaDays + 2

Row == [status : {"unborn", "Open", "In Progress", "Resolved", "deleted"},
        age : 0..MaxAge, escalated : BOOLEAN]

Unresolved == {t \in Tasks : task[t].status \in {"Open", "In Progress"}}
In(o, S)   == {x \in S : OrgOf[x] = o}
Sent(u, t) == feed[u][t].unread + feed[u][t].read
NoRows     == [unread |-> 0, read |-> 0]

(* Where the goroutine is: asleep until nine; about to list the centers    *)
(* for the recompute; in the loop over them; about to list them again; in  *)
(* the loop over them; with the stale tasks of one; in the loop over the   *)
(* tasks; in the loop over the directors of one task.                      *)
Asleep == [pc |-> "asleep"]
Job == {Asleep, [pc |-> "daily"], [pc |-> "escalations"]}
         \cup [pc : {"recompute", "escalate"}, orgs : SUBSET Orgs]
         \cup [pc : {"directors"}, orgs : SUBSET Orgs, org : Orgs, stale : SUBSET Tasks]
         \cup [pc : {"tasks"}, orgs : SUBSET Orgs, stale : SUBSET Tasks, dirs : SUBSET Users]
         \cup [pc : {"notify"}, orgs : SUBSET Orgs, stale : SUBSET Tasks, dirs : SUBSET Users,
               task : Tasks, todo : SUBSET Users]

TypeOK ==
  /\ task \in [Tasks -> Row]
  /\ user \in [Users -> {"absent", "director", "staff", "deleted"}]
  /\ feed \in [Users -> [Tasks -> [unread : Nat, read : Nat]]]
  /\ job \in Job
  /\ faults \in 0..MaxFaults
  /\ addressed \in [Tasks -> SUBSET Users]
  /\ past \in [Tasks -> SUBSET {"crash", "unmarked", "unsent"}]
  /\ late \in SUBSET {"fault", "overran"}

Init ==
  /\ task = [t \in Tasks |-> [status |-> "unborn", age |-> 0, escalated |-> FALSE]]
  /\ user = [u \in Users |-> "absent"]
  /\ feed = [u \in Users |-> [t \in Tasks |-> NoRows]]
  /\ job = Asleep
  /\ faults = 0
  /\ addressed = [t \in Tasks |-> {}]
  /\ past = [t \in Tasks |-> {}]
  /\ late = {}

-----------------------------------------------------------------------------
(* The statements of the job.                                             *)
Stale(t, days) == task[t].age >= days /\ ~task[t].escalated

(* Mutant: escalated tasks are listed again.                              *)
ListOverdueTasks(o) ==
  {S \in SUBSET In(o, Unresolved) :
     \A t \in In(o, Unresolved) : task[t].age >= SlaDays => t \in S}

(* Mutant: the cutoff is a day too early.                                 *)
ListTasksADayLate(o) ==
  {S \in SUBSET In(o, Unresolved) :
     \A t \in In(o, Unresolved) : t \in S <=> Stale(t, SlaDays + 2)}

(* Mutant: a task somebody has started is not listed.                     *)
ListOpenTasks(o) ==
  {S \in SUBSET In(o, Unresolved) :
     \A t \in In(o, Unresolved) :
        t \in S <=> Stale(t, SlaDays) /\ task[t].status = "Open"}

(* created_at <= now - SlaDays days: certain after more than SlaDays       *)
(* mornings; after SlaDays mornings it depends on the minute the task was  *)
(* created and the minute the job reaches the center.                     *)
ListTasksForEscalation(o) ==
  {S \in SUBSET In(o, Unresolved) :
     /\ \A t \in S : Stale(t, SlaDays)
     /\ \A t \in In(o, Unresolved) : Stale(t, SlaDays + 1) => t \in S}

ListOrgDirectorIDs(o) == {u \in In(o, Users) : user[u] = "director"}

(* The foreign key refuses the row of a deleted user.                     *)
CreateNotification(u, t) ==
  /\ user[u] # "deleted"
  /\ feed' = [feed EXCEPT ![u][t].unread = @ + 1]

(* No row, and no error, when the task is gone; no look at its status.     *)
MarkTaskEscalated(t) ==
  task' = [task EXCEPT ![t].escalated = @ \/ task[t].status # "deleted"]

-----------------------------------------------------------------------------
(* The staff and the recomputes, between any two statements of the job.    *)
OpenTask(t) ==
  /\ task[t].status = "unborn"
  /\ task' = [task EXCEPT ![t].status = "Open"]

StartTask(t) ==
  /\ task[t].status = "Open"
  /\ task' = [task EXCEPT ![t].status = "In Progress"]

ResolveTask(t) ==
  /\ t \in Unresolved
  /\ task' = [task EXCEPT ![t].status = "Resolved"]

(* The student is deleted, and the task with it.                          *)
DeleteTask(t) ==
  /\ task[t].status \notin {"unborn", "deleted"}
  /\ task' = [task EXCEPT ![t] = [status |-> "deleted", age |-> 0, escalated |-> FALSE]]

ChangeTask ==
  /\ \E t \in Tasks : OpenTask(t) \/ StartTask(t) \/ ResolveTask(t) \/ DeleteTask(t)
  /\ UNCHANGED <<user, feed, job, faults, addressed, past, late>>

(* A director is hired, gets another role or the role back.               *)
ChangeRole(u) ==
  /\ user[u] # "deleted"
  /\ \E role \in {"director", "staff"} : user' = [user EXCEPT ![u] = role]
  /\ UNCHANGED <<task, feed, job, faults, addressed, past, late>>

(* The notifications of a user go with the row (ON DELETE CASCADE).        *)
DeleteUser(u) ==
  /\ user[u] \in {"director", "staff"}
  /\ user' = [user EXCEPT ![u] = "deleted"]
  /\ feed' = [feed EXCEPT ![u] = [t \in Tasks |-> NoRows]]
  /\ UNCHANGED <<task, job, faults, addressed, past, late>>

MarkNotificationRead(u, t) ==
  /\ feed[u][t].unread > 0
  /\ feed' = [feed EXCEPT ![u][t] = [unread |-> @.unread - 1, read |-> @.read + 1]]
  /\ UNCHANGED <<task, user, job, faults, addressed, past, late>>

MarkAllNotificationsRead(u) ==
  /\ \E t \in Tasks : feed[u][t].unread > 0
  /\ feed' = [feed EXCEPT ![u] = [t \in Tasks |-> [unread |-> 0, read |-> Sent(u, t)]]]
  /\ UNCHANGED <<task, user, job, faults, addressed, past, late>>

-----------------------------------------------------------------------------
(* The goroutine.  At nine it wakes up if it sleeps; when the run of the   *)
(* day before is still going, nextDailyRun skips this morning.             *)
NextMorning ==
  /\ task' = [t \in Tasks |-> IF t \in Unresolved /\ task[t].age < MaxAge
                              THEN [task[t] EXCEPT !.age = @ + 1] ELSE task[t]]
  /\ job' = IF job = Asleep THEN [pc |-> "daily"] ELSE job
  /\ late' = IF job = Asleep THEN late ELSE late \cup {"overran"}
  /\ UNCHANGED <<user, feed, faults, addressed, past>>

AllOrgIDs ==
  /\ job.pc \in {"daily", "escalations"}
  /\ job' = [pc |-> IF job.pc = "daily" THEN "recompute" ELSE "escalate", orgs |-> Orgs]
  /\ UNCHANGED <<task, user, feed, faults, addressed, past, late>>

(* RecomputeAll opens tasks for the students who turned Red.              *)
RecomputeOrg(o) ==
  /\ job.pc = "recompute" /\ o \in job.orgs
  /\ \E S \in SUBSET {t \in In(o, Tasks) : task[t].status = "unborn"} :
        task' = [t \in Tasks |-> IF t \in S THEN [task[t] EXCEPT !.status = "Open"] ELSE task[t]]
  /\ job' = [job EXCEPT !.orgs = @ \ {o}]
  /\ UNCHANGED <<user, feed, faults, addressed, past, late>>

LoopEnds ==
  /\ job.pc \in {"recompute", "escalate"} /\ job.orgs = {}
  /\ job' = IF job.pc = "recompute" THEN [pc |-> "escalations"] ELSE Asleep
  /\ UNCHANGED <<task, user, feed, faults, addressed, past, late>>

(* EscalateStaleTasks of the next center; done at once without tasks.      *)
StaleTasks(o) ==
  /\ job.pc = "escalate" /\ o \in job.orgs
  /\ \E S \in ListTasksForEscalation(o) :
        job' = IF S = {} THEN [job EXCEPT !.orgs = @ \ {o}]
               ELSE [pc |-> "directors", orgs |-> job.orgs \ {o}, org |-> o, stale |-> S]
  /\ UNCHANGED <<task, user, feed, faults, addressed, past, late>>

DirectorIDs ==
  /\ job.pc = "directors"
  /\ job' = [pc |-> "tasks", orgs |-> job.orgs, stale |-> job.stale,
             dirs |-> ListOrgDirectorIDs(job.org)]
  /\ UNCHANGED <<task, user, feed, faults, addressed, past, late>>

NextTask(t) ==
  /\ job.pc = "tasks" /\ t \in job.stale
  /\ job' = [pc |-> "notify", orgs |-> job.orgs, stale |-> job.stale \ {t}, dirs |-> job.dirs,
             task |-> t, todo |-> job.dirs]
  /\ addressed' = [addressed EXCEPT ![t] = job.dirs]
  /\ UNCHANGED <<task, user, feed, faults, past, late>>

Notify(u) ==
  /\ job.pc = "notify" /\ u \in job.todo
  /\ CreateNotification(u, job.task)
  /\ job' = [job EXCEPT !.todo = @ \ {u}]
  /\ UNCHANGED <<task, user, faults, addressed, past, late>>

(* To the next task, or, after the last one, to the next center.          *)
AfterTask ==
  job' = IF job.stale = {} THEN [pc |-> "escalate", orgs |-> job.orgs]
         ELSE [pc |-> "tasks", orgs |-> job.orgs, stale |-> job.stale, dirs |-> job.dirs]

(* Mutant: the mark does not wait for the directors.                      *)
MarkAtFirst ==
  /\ job.pc = "notify"
  /\ MarkTaskEscalated(job.task)
  /\ AfterTask
  /\ UNCHANGED <<user, feed, faults, addressed, past, late>>

MarkEscalated ==
  /\ job.pc = "notify" /\ job.todo = {}
  /\ MarkTaskEscalated(job.task)
  /\ AfterTask
  /\ UNCHANGED <<user, feed, faults, addressed, past, late>>

-----------------------------------------------------------------------------
(* What goes wrong.  Notify only logs its error, also that of a deleted    *)
(* director, and the loop goes on.                                        *)
NotifyFails(u) ==
  /\ job.pc = "notify" /\ u \in job.todo
  /\ faults' = IF user[u] = "deleted" THEN faults ELSE faults + 1
  /\ job' = [job EXCEPT !.todo = @ \ {u}]
  /\ past' = IF user[u] = "deleted" THEN past
             ELSE [past EXCEPT ![job.task] = @ \cup {"unsent"}]
  /\ UNCHANGED <<task, user, feed, addressed, late>>

MarkFails ==
  /\ job.pc = "notify" /\ job.todo = {}
  /\ faults' = faults + 1
  /\ past' = [past EXCEPT ![job.task] = @ \cup {"unmarked"}]
  /\ AfterTask
  /\ UNCHANGED <<task, user, feed, addressed, late>>

(* Without the list of centers the run ends: after a failed first list     *)
(* there are no escalations that day.                                     *)
AllOrgIDsFails ==
  /\ job.pc \in {"daily", "escalations"}
  /\ job' = Asleep
  /\ faults' = faults + 1
  /\ late' = late \cup {"fault"}
  /\ UNCHANGED <<task, user, feed, addressed, past>>

(* The error of one center is logged and the others still run.            *)
OrgFails ==
  /\ \/ /\ job.pc \in {"recompute", "escalate"}
        /\ \E o \in job.orgs : job' = [job EXCEPT !.orgs = @ \ {o}]
     \/ /\ job.pc = "directors"
        /\ job' = [pc |-> "escalate", orgs |-> job.orgs]
  /\ faults' = faults + 1
  /\ late' = late \cup {"fault"}
  /\ UNCHANGED <<task, user, feed, addressed, past>>

(* The process dies and is started again; the goroutine sleeps until the   *)
(* next nine o'clock.                                                     *)
Crash ==
  /\ job # Asleep
  /\ job' = Asleep
  /\ faults' = faults + 1
  /\ late' = late \cup {"fault"}
  /\ past' = IF job.pc = "notify" THEN [past EXCEPT ![job.task] = @ \cup {"crash"}] ELSE past
  /\ UNCHANGED <<task, user, feed, addressed>>

-----------------------------------------------------------------------------
JobStep ==
  \/ AllOrgIDs \/ LoopEnds \/ DirectorIDs \/ MarkEscalated
  \/ \E o \in Orgs : RecomputeOrg(o) \/ StaleTasks(o)
  \/ \E t \in Tasks : NextTask(t)
  \/ \E u \in Users : Notify(u)
  \/ \E u \in Users : user[u] = "deleted" /\ NotifyFails(u)

Fault ==
  /\ faults < MaxFaults
  /\ \/ MarkFails \/ AllOrgIDsFails \/ OrgFails \/ Crash
     \/ \E u \in Users : user[u] # "deleted" /\ NotifyFails(u)

StaffStep ==
  \/ ChangeTask
  \/ \E u \in Users : ChangeRole(u) \/ DeleteUser(u) \/ MarkAllNotificationsRead(u)
  \/ \E u \in Users, t \in Tasks : MarkNotificationRead(u, t)

Next == NextMorning \/ JobStep \/ Fault \/ StaffStep

Spec == Init /\ [][Next]_vars

(* Days pass, and a run that has begun goes on: the goroutine waits for    *)
(* nothing but its own statements.                                        *)
FairSpec == Spec /\ WF_vars(NextMorning) /\ WF_vars(JobStep)

-----------------------------------------------------------------------------
(* "... then marks those tasks escalated (once)" (EscalateStaleTasks): a   *)
(* director has two alerts about one task only if the process died between *)
(* the first alert and the mark, or the mark itself failed.               *)
AlertedOnce ==
  \A u \in Users, t \in Tasks : Sent(u, t) > 1 => past[t] \cap {"crash", "unmarked"} # {}

(* The mark stops every further alert, so nobody may be missing behind it: *)
(* each director the center had when the alert was raised has a row in the *)
(* feed, unless that very insert failed.                                  *)
EscalatedMeansTold ==
  \A t \in Tasks : task[t].escalated =>
    \A u \in addressed[t] : Sent(u, t) > 0 \/ user[u] = "deleted" \/ "unsent" \in past[t]

(* A task is at most a morning late for its SLA: one that is later is due  *)
(* to a run that failed, died or overran a morning, or a mark that failed. *)
SlaKept ==
  \A t \in Unresolved :
    task[t].age = MaxAge /\ ~task[t].escalated => late # {} \/ past[t] # {}

(* Whatever fails, every task is escalated in the end, unless the staff    *)
(* resolve it first or its student leaves.                                *)
EventuallyEscalated ==
  \A t \in Tasks : t \in Unresolved ~> task[t].escalated \/ t \notin Unresolved
=============================================================================
