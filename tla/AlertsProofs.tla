---------------------------- MODULE AlertsProofs ----------------------------
(***************************************************************************)
(* Alerts: its type, and its three safety properties for any centers,      *)
(* tasks, directors and SLA.  What the goroutine holds in its loops is the *)
(* heart of each: the tasks still in its list have not been alerted about, *)
(* are not marked, and are all the tasks of the center that are due.       *)
(***************************************************************************)
EXTENDS Alerts, TLAPS

RecomputeJob == [pc : {"recompute"}, orgs : SUBSET Orgs]
EscalateJob  == [pc : {"escalate"}, orgs : SUBSET Orgs]
DirectorsJob == [pc : {"directors"}, orgs : SUBSET Orgs, org : Orgs, stale : SUBSET Tasks]
TasksJob     == [pc : {"tasks"}, orgs : SUBSET Orgs, stale : SUBSET Tasks, dirs : SUBSET Users]
NotifyJob    == [pc : {"notify"}, orgs : SUBSET Orgs, stale : SUBSET Tasks,
                 dirs : SUBSET Users, task : Tasks, todo : SUBSET Users]

(* What a job of each kind is made of.                                    *)
LEMMA JobType ==
  ASSUME job \in Job
  PROVE  /\ job.pc \in {"asleep", "daily", "escalations", "recompute", "escalate",
                        "directors", "tasks", "notify"}
         /\ job = Asleep <=> job.pc = "asleep"
         /\ job.pc = "recompute" => job \in RecomputeJob
         /\ job.pc = "escalate" => job \in EscalateJob
         /\ job.pc = "directors" => job \in DirectorsJob
         /\ job.pc = "tasks" => job \in TasksJob
         /\ job.pc = "notify" => job \in NotifyJob
BY DEF Job, Asleep, RecomputeJob, EscalateJob, DirectorsJob, TasksJob, NotifyJob

LEMMA IsJob ==
  ASSUME NEW j, \/ j = Asleep \/ j = [pc |-> "daily"] \/ j = [pc |-> "escalations"]
                \/ j \in RecomputeJob \/ j \in EscalateJob \/ j \in DirectorsJob
                \/ j \in TasksJob \/ j \in NotifyJob
  PROVE  j \in Job
BY DEF Job, Asleep, RecomputeJob, EscalateJob, DirectorsJob, TasksJob, NotifyJob

(* The tasks the job still has to alert about.                            *)
Listed == IF job.pc \in {"directors", "tasks", "notify"} THEN job.stale ELSE {}

-----------------------------------------------------------------------------
(* One more notification, one more morning.                               *)
LEMMA OneMoreUnread ==
  ASSUME NEW r \in [unread : Nat, read : Nat]
  PROVE  [r EXCEPT !.unread = @ + 1] \in [unread : Nat, read : Nat]
<1>1. r.unread + 1 \in Nat
  OBVIOUS
<1> QED  BY <1>1

LEMMA OneMoreMorning ==
  ASSUME AlertsAssumption, NEW r \in Row, r.age < MaxAge
  PROVE  [r EXCEPT !.age = @ + 1] \in Row
<1>1. MaxAge \in Nat
  BY DEF AlertsAssumption, MaxAge
<1>2. r.age \in 0..MaxAge
  BY DEF Row
<1>3. r.age + 1 \in 0..MaxAge
  BY <1>1, <1>2
<1> QED  BY <1>3 DEF Row

LEMMA MarkType ==
  ASSUME task \in [Tasks -> Row], NEW t \in Tasks, MarkTaskEscalated(t)
  PROVE  task' \in [Tasks -> Row]
<1>1. task' = [task EXCEPT ![t].escalated = @ \/ task[t].status # "deleted"]
  BY DEF MarkTaskEscalated
<1>2. (task[t].escalated \/ task[t].status # "deleted") \in BOOLEAN
  BY DEF Row
<1> QED  BY <1>1, <1>2 DEF Row

LEMMA AfterTaskType ==
  ASSUME job \in NotifyJob, AfterTask
  PROVE  job' \in EscalateJob \cup TasksJob
BY DEF AfterTask, NotifyJob, EscalateJob, TasksJob

LEMMA JobStepType ==
  ASSUME AlertsAssumption, TypeOK, JobStep
  PROVE  TypeOK'
<1> USE DEF TypeOK
<1>0. job \in Job
  OBVIOUS
<1>1. CASE AllOrgIDs
  <2>1. job' \in RecomputeJob \cup EscalateJob
    BY <1>1 DEF AllOrgIDs, RecomputeJob, EscalateJob
  <2> QED  BY <1>1, <2>1, IsJob DEF AllOrgIDs
<1>2. CASE LoopEnds
  <2>1. job' = Asleep \/ job' = [pc |-> "escalations"]
    BY <1>2 DEF LoopEnds
  <2> QED  BY <1>2, <2>1, IsJob DEF LoopEnds
<1>3. CASE DirectorIDs
  <2>1. job' \in TasksJob
    BY <1>3, JobType DEF DirectorIDs, DirectorsJob, TasksJob, ListOrgDirectorIDs, In
  <2> QED  BY <1>3, <2>1, IsJob DEF DirectorIDs
<1>4. CASE MarkEscalated
  <2>1. job \in NotifyJob
    BY <1>4, JobType DEF MarkEscalated
  <2>2. task' \in [Tasks -> Row]
    BY <1>4, <2>1, MarkType DEF MarkEscalated, NotifyJob
  <2>3. job' \in EscalateJob \cup TasksJob
    BY <1>4, <2>1, AfterTaskType DEF MarkEscalated
  <2> QED  BY <1>4, <2>2, <2>3, IsJob DEF MarkEscalated
<1>5. ASSUME NEW o \in Orgs, RecomputeOrg(o)
      PROVE  TypeOK'
  <2>1. job' \in RecomputeJob
    BY <1>5, JobType DEF RecomputeOrg, RecomputeJob
  <2>2. PICK S : task' = [t \in Tasks |-> IF t \in S THEN [task[t] EXCEPT !.status = "Open"]
                                                      ELSE task[t]]
    BY <1>5 DEF RecomputeOrg
  <2>3. \A t \in Tasks : [task[t] EXCEPT !.status = "Open"] \in Row
    BY DEF Row
  <2>4. task' \in [Tasks -> Row]
    BY <2>2, <2>3
  <2> QED  BY <1>5, <2>1, <2>4, IsJob DEF RecomputeOrg
<1>6. ASSUME NEW o \in Orgs, StaleTasks(o)
      PROVE  TypeOK'
  <2>0. job \in EscalateJob
    BY <1>6, JobType DEF StaleTasks
  <2>a. \A S \in ListTasksForEscalation(o) : S \subseteq Tasks
    BY DEF ListTasksForEscalation, In, Unresolved
  <2>b. PICK S \in ListTasksForEscalation(o) :
          job' = IF S = {} THEN [job EXCEPT !.orgs = @ \ {o}]
                 ELSE [pc |-> "directors", orgs |-> job.orgs \ {o}, org |-> o, stale |-> S]
    BY <1>6 DEF StaleTasks
  <2>c. [job EXCEPT !.orgs = @ \ {o}] \in EscalateJob
    BY <2>0 DEF EscalateJob
  <2>d. job.orgs \ {o} \subseteq Orgs /\ S \subseteq Tasks
    BY <2>0, <2>a DEF EscalateJob
  <2>1. job' \in EscalateJob \cup DirectorsJob
    BY <2>b, <2>c, <2>d DEF DirectorsJob
  <2> QED  BY <1>6, <2>1, IsJob DEF StaleTasks
<1>7. ASSUME NEW t \in Tasks, NextTask(t)
      PROVE  TypeOK'
  <2>1. job \in TasksJob
    BY <1>7, JobType DEF NextTask
  <2>2. job' \in NotifyJob
    BY <1>7, <2>1 DEF NextTask, TasksJob, NotifyJob
  <2>3. addressed' \in [Tasks -> SUBSET Users]
    BY <1>7, <2>1 DEF NextTask, TasksJob
  <2> QED  BY <1>7, <2>2, <2>3, IsJob DEF NextTask
<1>8. ASSUME NEW u \in Users, Notify(u)
      PROVE  TypeOK'
  <2>1. job \in NotifyJob
    BY <1>8, JobType DEF Notify
  <2>2. job' \in NotifyJob
    BY <1>8, <2>1 DEF Notify, NotifyJob
  <2>a. feed' = [feed EXCEPT ![u][job.task].unread = @ + 1]
    BY <1>8 DEF Notify, CreateNotification
  <2>b. job.task \in Tasks
    BY <2>1 DEF NotifyJob
  <2>c. feed[u][job.task] \in [unread : Nat, read : Nat]
    BY <2>b
  <2>d. [feed[u][job.task] EXCEPT !.unread = @ + 1] \in [unread : Nat, read : Nat]
    BY <2>c, OneMoreUnread
  <2>3. feed' \in [Users -> [Tasks -> [unread : Nat, read : Nat]]]
    BY <2>a, <2>b, <2>d
  <2> QED  BY <1>8, <2>2, <2>3, IsJob DEF Notify
<1>9. ASSUME NEW u \in Users, user[u] = "deleted" /\ NotifyFails(u)
      PROVE  TypeOK'
  <2>1. job' \in NotifyJob
    BY <1>9, JobType DEF NotifyFails, NotifyJob
  <2> QED  BY <1>9, <2>1, IsJob DEF NotifyFails
<1> QED  BY <1>1, <1>2, <1>3, <1>4, <1>5, <1>6, <1>7, <1>8, <1>9 DEF JobStep

LEMMA FaultType ==
  ASSUME AlertsAssumption, TypeOK, Fault
  PROVE  TypeOK'
<1> USE DEF TypeOK
<1>0. /\ job \in Job
      /\ MaxFaults \in Nat
      /\ faults < MaxFaults
  BY DEF AlertsAssumption, Fault
<1>a. faults + 1 \in 0..MaxFaults
  BY <1>0
<1>1. CASE MarkFails
  <2>1. job \in NotifyJob
    BY <1>1, JobType DEF MarkFails
  <2>2. job' \in EscalateJob \cup TasksJob
    BY <1>1, <2>1, AfterTaskType DEF MarkFails
  <2>3. past' \in [Tasks -> SUBSET {"crash", "unmarked", "unsent"}]
    BY <1>1, <2>1 DEF MarkFails, NotifyJob
  <2> QED  BY <1>1, <1>a, <2>2, <2>3, IsJob DEF MarkFails
<1>2. CASE AllOrgIDsFails
  BY <1>2, <1>a, IsJob DEF AllOrgIDsFails
<1>3. CASE OrgFails
  <2>1. job' \in RecomputeJob \cup EscalateJob
    BY <1>3, JobType DEF OrgFails, RecomputeJob, EscalateJob, DirectorsJob
  <2> QED  BY <1>3, <1>a, <2>1, IsJob DEF OrgFails
<1>4. CASE Crash
  <2>1. past' \in [Tasks -> SUBSET {"crash", "unmarked", "unsent"}]
    BY <1>4, JobType DEF Crash, NotifyJob
  <2> QED  BY <1>4, <1>a, <2>1, IsJob DEF Crash
<1>5. ASSUME NEW u \in Users, user[u] # "deleted" /\ NotifyFails(u)
      PROVE  TypeOK'
  <2>1. job \in NotifyJob
    BY <1>5, JobType DEF NotifyFails
  <2>2. job' \in NotifyJob
    BY <1>5, <2>1 DEF NotifyFails, NotifyJob
  <2>3. past' \in [Tasks -> SUBSET {"crash", "unmarked", "unsent"}]
    BY <1>5, <2>1 DEF NotifyFails, NotifyJob
  <2> QED  BY <1>5, <1>a, <2>2, <2>3, IsJob DEF NotifyFails
<1> QED  BY <1>1, <1>2, <1>3, <1>4, <1>5 DEF Fault

LEMMA StaffStepType ==
  ASSUME AlertsAssumption, TypeOK, StaffStep
  PROVE  TypeOK'
<1> USE DEF TypeOK
<1>1. CASE ChangeTask
  <2> PICK t \in Tasks : OpenTask(t) \/ StartTask(t) \/ ResolveTask(t) \/ DeleteTask(t)
    BY <1>1 DEF ChangeTask
  <2>1. 0 \in 0..MaxAge
    BY DEF AlertsAssumption, MaxAge
  <2>2. \A status \in {"Open", "In Progress", "Resolved"} :
          [task EXCEPT ![t].status = status] \in [Tasks -> Row]
    <3>1. \A status \in {"Open", "In Progress", "Resolved"} : [task[t] EXCEPT !.status = status] \in Row
      BY DEF Row
    <3> QED  BY <3>1
  <2>3. [status |-> "deleted", age |-> 0, escalated |-> FALSE] \in Row
    BY <2>1 DEF Row
  <2>4. task' \in [Tasks -> Row]
    BY <2>2, <2>3 DEF OpenTask, StartTask, ResolveTask, DeleteTask
  <2> QED  BY <1>1, <2>4 DEF ChangeTask
<1>2. ASSUME NEW u \in Users, ChangeRole(u)
      PROVE  TypeOK'
  BY <1>2 DEF ChangeRole
<1>3. ASSUME NEW u \in Users, DeleteUser(u)
      PROVE  TypeOK'
  BY <1>3 DEF DeleteUser, NoRows
<1>4. ASSUME NEW u \in Users, MarkAllNotificationsRead(u)
      PROVE  TypeOK'
  BY <1>4 DEF MarkAllNotificationsRead, Sent
<1>5. ASSUME NEW u \in Users, NEW t \in Tasks, MarkNotificationRead(u, t)
      PROVE  TypeOK'
  BY <1>5 DEF MarkNotificationRead
<1> QED  BY <1>1, <1>2, <1>3, <1>4, <1>5 DEF StaffStep

LEMMA MorningType ==
  ASSUME AlertsAssumption, TypeOK, NextMorning
  PROVE  TypeOK'
<1> USE DEF TypeOK
<1>1. ASSUME NEW t \in Tasks, task[t].age < MaxAge
      PROVE  [task[t] EXCEPT !.age = @ + 1] \in Row
  BY <1>1, OneMoreMorning
<1>2. task' \in [Tasks -> Row]
  BY <1>1 DEF NextMorning
<1>3. job' \in Job
  BY IsJob DEF NextMorning
<1> QED  BY <1>2, <1>3 DEF NextMorning

(* The state of Alerts has the types the module says, whatever the staff,  *)
(* the job and its failures do.                                           *)
THEOREM TypeCorrect ==
  ASSUME AlertsAssumption
  PROVE  Spec => []TypeOK
<1>1. Init => TypeOK
  BY DEF AlertsAssumption, Init, TypeOK, Row, MaxAge, Job, NoRows
<1>2. TypeOK /\ [Next]_vars => TypeOK'
  BY JobStepType, FaultType, StaffStepType, MorningType DEF Next, vars, TypeOK
<1> QED  BY <1>1, <1>2, PTL DEF Spec

-----------------------------------------------------------------------------
(* What a step can do to each variable.                                   *)
LEMMA PastMoves ==
  ASSUME TypeOK, [Next]_vars, NEW t \in Tasks
  PROVE  past[t] \subseteq past'[t]
<1> USE DEF TypeOK
<1>1. CASE Fault
  BY <1>1, JobType DEF Fault, MarkFails, AllOrgIDsFails, OrgFails, Crash, NotifyFails, NotifyJob
<1>2. CASE JobStep
  BY <1>2 DEF JobStep, AllOrgIDs, LoopEnds, DirectorIDs, MarkEscalated, RecomputeOrg, StaleTasks,
              NextTask, Notify, NotifyFails
<1>3. CASE StaffStep
  BY <1>3 DEF StaffStep, ChangeTask, ChangeRole, DeleteUser, MarkAllNotificationsRead,
              MarkNotificationRead
<1>4. CASE NextMorning
  BY <1>4 DEF NextMorning
<1>5. CASE UNCHANGED vars
  BY <1>5 DEF vars
<1> QED  BY <1>1, <1>2, <1>3, <1>4, <1>5 DEF Next

LEMMA UserMoves ==
  ASSUME TypeOK, [Next]_vars, NEW u \in Users, user[u] = "deleted"
  PROVE  user'[u] = "deleted"
<1> USE DEF TypeOK
<1>1. CASE Fault
  BY <1>1 DEF Fault, MarkFails, AllOrgIDsFails, OrgFails, Crash, NotifyFails
<1>2. CASE JobStep
  BY <1>2 DEF JobStep, AllOrgIDs, LoopEnds, DirectorIDs, MarkEscalated, RecomputeOrg, StaleTasks,
              NextTask, Notify, NotifyFails
<1>3. CASE StaffStep
  BY <1>3 DEF StaffStep, ChangeTask, ChangeRole, DeleteUser, MarkAllNotificationsRead,
              MarkNotificationRead
<1>4. CASE NextMorning
  BY <1>4 DEF NextMorning
<1>5. CASE UNCHANGED vars
  BY <1>5 DEF vars
<1> QED  BY <1>1, <1>2, <1>3, <1>4, <1>5 DEF Next

LEMMA JobMoves ==
  ASSUME TypeOK, [Next]_vars
  PROVE  \/ job' = job
         \/ job'.pc \in {"asleep", "daily", "escalations", "recompute", "escalate"}
         \/ \E o \in Orgs : StaleTasks(o)
         \/ DirectorIDs
         \/ \E t \in Tasks : NextTask(t)
         \/ \E u \in Users : /\ job.pc = "notify" /\ u \in job.todo
                             /\ job' = [job EXCEPT !.todo = @ \ {u}]
         \/ /\ job.pc = "notify"
            /\ job' = [pc |-> "tasks", orgs |-> job.orgs, stale |-> job.stale, dirs |-> job.dirs]
<1>0. job \in Job
  BY DEF TypeOK
<1>1. CASE Fault
  BY <1>1, <1>0, JobType
  DEF Fault, MarkFails, AllOrgIDsFails, OrgFails, Crash, NotifyFails, AfterTask, Asleep,
      RecomputeJob, EscalateJob
<1>2. CASE JobStep
  <2>1. CASE AllOrgIDs \/ LoopEnds
    BY <2>1 DEF AllOrgIDs, LoopEnds, Asleep
  <2>2. CASE MarkEscalated
    BY <2>2 DEF MarkEscalated, AfterTask
  <2>3. ASSUME NEW o \in Orgs, RecomputeOrg(o)
        PROVE  job'.pc = "recompute"
    BY <2>3, <1>0, JobType DEF RecomputeOrg, RecomputeJob
  <2>4. ASSUME NEW u \in Users, Notify(u) \/ NotifyFails(u)
        PROVE  /\ job.pc = "notify" /\ u \in job.todo
               /\ job' = [job EXCEPT !.todo = @ \ {u}]
    BY <2>4 DEF Notify, NotifyFails
  <2> QED  BY <1>2, <2>1, <2>2, <2>3, <2>4 DEF JobStep
<1>3. CASE StaffStep
  BY <1>3 DEF StaffStep, ChangeTask, ChangeRole, DeleteUser, MarkAllNotificationsRead,
              MarkNotificationRead
<1>4. CASE NextMorning
  BY <1>4 DEF NextMorning
<1>5. CASE UNCHANGED vars
  BY <1>5 DEF vars
<1> QED  BY <1>1, <1>2, <1>3, <1>4, <1>5 DEF Next

(* Only the mark sets escalated_at, and only the goroutine's own task's.   *)
LEMMA TaskMoves ==
  ASSUME TypeOK, [Next]_vars, NEW t \in Tasks
  PROVE  /\ task'[t].escalated => \/ task[t].escalated
                                  \/ t = job.task /\ MarkEscalated
         /\ task[t].escalated \/ task[t].status = "deleted"
              => task'[t].escalated \/ task'[t].status = "deleted"
<1> USE DEF TypeOK
<1>0. task[t] \in Row
  OBVIOUS
<1>1. CASE Fault
  BY <1>1 DEF Fault, MarkFails, AllOrgIDsFails, OrgFails, Crash, NotifyFails
<1>2. CASE JobStep
  <2>1. CASE MarkEscalated
    BY <2>1, <1>0, JobType DEF MarkEscalated, MarkTaskEscalated, NotifyJob, Row
  <2>2. ASSUME NEW o \in Orgs, RecomputeOrg(o)
        PROVE  /\ task'[t].escalated = task[t].escalated
               /\ task[t].status = "deleted" => task'[t].status = "deleted"
    <3>1. PICK S \in SUBSET {x \in In(o, Tasks) : task[x].status = "unborn"} :
            task' = [x \in Tasks |-> IF x \in S THEN [task[x] EXCEPT !.status = "Open"]
                                                ELSE task[x]]
      BY <2>2 DEF RecomputeOrg
    <3>2. task'[t] = IF t \in S THEN [task[t] EXCEPT !.status = "Open"] ELSE task[t]
      BY <3>1
    <3>3. t \in S => task[t].status = "unborn"
      OBVIOUS
    <3> QED  BY <3>2, <3>3, <1>0 DEF Row
  <2> QED
    BY <1>2, <2>1, <2>2 DEF JobStep, AllOrgIDs, LoopEnds, DirectorIDs, StaleTasks,
              NextTask, Notify, NotifyFails
<1>3. CASE StaffStep
  <2>1. CASE ChangeTask
    <3> PICK x \in Tasks : OpenTask(x) \/ StartTask(x) \/ ResolveTask(x) \/ DeleteTask(x)
      BY <2>1 DEF ChangeTask
    <3>1. CASE x # t
      BY <3>1 DEF OpenTask, StartTask, ResolveTask, DeleteTask
    <3>2. CASE x = t
      <4>1. CASE DeleteTask(x)
        BY <4>1, <3>2 DEF DeleteTask
      <4>2. CASE OpenTask(x)
        BY <4>2, <3>2, <1>0 DEF OpenTask, Row
      <4>3. CASE StartTask(x)
        BY <4>3, <3>2, <1>0 DEF StartTask, Row
      <4>4. CASE ResolveTask(x)
        BY <4>4, <3>2, <1>0 DEF ResolveTask, Row, Unresolved
      <4> QED  BY <4>1, <4>2, <4>3, <4>4
    <3> QED  BY <3>1, <3>2
  <2> QED
    BY <1>3, <2>1 DEF StaffStep, ChangeRole, DeleteUser, MarkAllNotificationsRead,
              MarkNotificationRead
<1>4. CASE NextMorning
  BY <1>4, <1>0 DEF NextMorning, Row
<1>5. CASE UNCHANGED vars
  BY <1>5 DEF vars
<1> QED  BY <1>1, <1>2, <1>3, <1>4, <1>5 DEF Next

LEMMA SentNat ==
  ASSUME TypeOK, NEW u \in Users, NEW t \in Tasks
  PROVE  Sent(u, t) \in Nat
<1>1. feed[u][t] \in [unread : Nat, read : Nat]
  BY DEF TypeOK
<1> QED  BY <1>1 DEF Sent

(* Only Notify adds a row to a feed, and only the deletion of its user      *)
(* takes one away.                                                        *)
LEMMA FeedMoves ==
  ASSUME TypeOK, [Next]_vars, NEW u \in Users, NEW t \in Tasks
  PROVE  \/ Sent(u, t)' = Sent(u, t)
         \/ Sent(u, t)' = 0 /\ user'[u] = "deleted"
         \/ /\ Sent(u, t)' = Sent(u, t) + 1
            /\ job.pc = "notify" /\ job.task = t /\ u \in job.todo
            /\ job' = [job EXCEPT !.todo = @ \ {u}]
<1> USE DEF TypeOK
<1>0. feed[u][t] \in [unread : Nat, read : Nat]
  OBVIOUS
<1>1. CASE Fault
  BY <1>1 DEF Fault, MarkFails, AllOrgIDsFails, OrgFails, Crash, NotifyFails, Sent
<1>2. CASE JobStep
  <2>1. ASSUME NEW x \in Users, Notify(x)
        PROVE  \/ Sent(u, t)' = Sent(u, t)
               \/ /\ Sent(u, t)' = Sent(u, t) + 1
                  /\ job.pc = "notify" /\ job.task = t /\ u \in job.todo
                  /\ job' = [job EXCEPT !.todo = @ \ {u}]
    <3>1. CASE x = u /\ job.task = t
      <4>1. feed'[u][t] = [feed[u][t] EXCEPT !.unread = @ + 1]
        BY <2>1, <3>1 DEF Notify, CreateNotification
      <4>2. Sent(u, t)' = Sent(u, t) + 1
        BY <4>1, <1>0 DEF Sent
      <4> QED  BY <2>1, <3>1, <4>2 DEF Notify
    <3>2. CASE ~(x = u /\ job.task = t)
      BY <2>1, <3>2 DEF Notify, CreateNotification, Sent
    <3> QED  BY <3>1, <3>2
  <2> QED
    BY <1>2, <2>1 DEF JobStep, AllOrgIDs, LoopEnds, DirectorIDs, MarkEscalated, RecomputeOrg,
              StaleTasks, NextTask, NotifyFails, Sent
<1>3. CASE StaffStep
  <2>1. ASSUME NEW x \in Users, DeleteUser(x)
        PROVE  \/ Sent(u, t)' = Sent(u, t)
               \/ Sent(u, t)' = 0 /\ user'[u] = "deleted"
    BY <2>1 DEF DeleteUser, Sent, NoRows
  <2>2. ASSUME NEW x \in Users, MarkAllNotificationsRead(x)
        PROVE  Sent(u, t)' = Sent(u, t)
    BY <2>2, <1>0 DEF MarkAllNotificationsRead, Sent
  <2>3. ASSUME NEW x \in Users, NEW y \in Tasks, MarkNotificationRead(x, y)
        PROVE  Sent(u, t)' = Sent(u, t)
    <3>1. CASE x = u /\ y = t
      <4>1. feed'[u][t] = [unread |-> feed[u][t].unread - 1, read |-> feed[u][t].read + 1]
        BY <2>3, <3>1 DEF MarkNotificationRead
      <4> QED  BY <4>1, <1>0 DEF Sent
    <3>2. CASE ~(x = u /\ y = t)
      BY <2>3, <3>2 DEF MarkNotificationRead, Sent
    <3> QED  BY <3>1, <3>2
  <2> QED
    BY <1>3, <2>1, <2>2, <2>3 DEF StaffStep, ChangeTask, ChangeRole, Sent
<1>4. CASE NextMorning
  BY <1>4 DEF NextMorning, Sent
<1>5. CASE UNCHANGED vars
  BY <1>5 DEF vars, Sent
<1> QED  BY <1>1, <1>2, <1>3, <1>4, <1>5 DEF Next

-----------------------------------------------------------------------------
(* A task in the list of the goroutine is not marked.                     *)
Unmarked ==
  /\ \A t \in Listed : ~task[t].escalated
  /\ job.pc = "notify" => job.task \notin job.stale /\ ~task[job.task].escalated

LEMMA UnmarkedStep ==
  ASSUME TypeOK, Unmarked, [Next]_vars
  PROVE  Unmarked'
<1> USE DEF Unmarked, Listed
<1>0. /\ job \in Job
      /\ \A t \in Tasks : task[t] \in Row
  BY DEF TypeOK
<1>a. Listed \subseteq Tasks
  BY <1>0, JobType DEF DirectorsJob, TasksJob, NotifyJob
<1>1. CASE job' = job
  <2>1. ~MarkEscalated
    BY <1>1, <1>0, JobType DEF MarkEscalated, AfterTask
  <2>2. \A t \in Tasks : ~task[t].escalated => ~task'[t].escalated
    BY <2>1, TaskMoves
  <2>3. job.pc = "notify" => job.task \in Tasks
    BY <1>0, JobType DEF NotifyJob
  <2> QED  BY <1>1, <2>2, <2>3, <1>a
<1>2. CASE job'.pc \in {"asleep", "daily", "escalations", "recompute", "escalate"}
  BY <1>2
<1>3. ASSUME NEW o \in Orgs, StaleTasks(o)
      PROVE  Unmarked'
  <2>1. task' = task
    BY <1>3 DEF StaleTasks
  <2>2. job \in EscalateJob
    BY <1>3, <1>0, JobType DEF StaleTasks
  <2>3. PICK S \in ListTasksForEscalation(o) :
          job' = IF S = {} THEN [job EXCEPT !.orgs = @ \ {o}]
                 ELSE [pc |-> "directors", orgs |-> job.orgs \ {o}, org |-> o, stale |-> S]
    BY <1>3 DEF StaleTasks
  <2>4. \A t \in S : ~task[t].escalated
    BY DEF ListTasksForEscalation, Stale
  <2> QED  BY <2>1, <2>2, <2>3, <2>4 DEF EscalateJob
<1>4. CASE DirectorIDs
  BY <1>4 DEF DirectorIDs
<1>5. ASSUME NEW t \in Tasks, NextTask(t)
      PROVE  Unmarked'
  BY <1>5 DEF NextTask
<1>6. ASSUME NEW u \in Users, job.pc = "notify", u \in job.todo,
             job' = [job EXCEPT !.todo = @ \ {u}]
      PROVE  Unmarked'
  <2>0. job \in NotifyJob
    BY <1>6, <1>0, JobType
  <2>1. /\ job'.pc = "notify" /\ job'.task = job.task /\ job'.stale = job.stale
    BY <1>6, <2>0 DEF NotifyJob
  <2>2. ~MarkEscalated
    BY <1>6 DEF MarkEscalated
  <2>3. \A t \in Tasks : ~task[t].escalated => ~task'[t].escalated
    BY <2>2, TaskMoves
  <2> QED  BY <1>6, <2>0, <2>1, <2>3, <1>a DEF NotifyJob
<1>7. CASE /\ job.pc = "notify"
           /\ job' = [pc |-> "tasks", orgs |-> job.orgs, stale |-> job.stale, dirs |-> job.dirs]
  <2>1. \A t \in job.stale : ~task'[t].escalated
    BY <1>7, <1>a, TaskMoves
  <2> QED  BY <1>7, <2>1
<1> QED  BY <1>1, <1>2, <1>3, <1>4, <1>5, <1>6, <1>7, JobMoves

-----------------------------------------------------------------------------
(* How a task leaves the hands of the goroutine: marked, deleted, or with   *)
(* its failure on record.                                                 *)
LEMMA NotifyEnds ==
  ASSUME TypeOK, [Next]_vars, job.pc = "notify", job'.pc # "notify"
  PROVE  \/ job.todo = {} /\ (task'[job.task].escalated \/ task'[job.task].status = "deleted")
         \/ past'[job.task] \cap {"crash", "unmarked"} # {}
<1> USE DEF TypeOK
<1>0. job \in NotifyJob
  BY JobType
<1>a. job.task \in Tasks /\ task[job.task] \in Row
  BY <1>0 DEF NotifyJob
<1>1. CASE Fault
  <2>1. CASE MarkFails \/ Crash
    <3>1. \E wrong \in {"crash", "unmarked"} :
            past' = [past EXCEPT ![job.task] = @ \cup {wrong}]
      BY <2>1 DEF MarkFails, Crash
    <3>2. past \in [Tasks -> SUBSET {"crash", "unmarked", "unsent"}]
      OBVIOUS
    <3> HIDE DEF TypeOK
    <3>3. \E wrong \in {"crash", "unmarked"} : wrong \in past'[job.task]
      BY <3>1, <3>2, <1>a
    <3> QED  BY <3>3
  <2>2. CASE AllOrgIDsFails \/ OrgFails
    BY <2>2 DEF AllOrgIDsFails, OrgFails
  <2>3. ASSUME NEW u \in Users, NotifyFails(u)
        PROVE  FALSE
    BY <2>3, <1>0 DEF NotifyFails, NotifyJob
  <2> QED  BY <1>1, <2>1, <2>2, <2>3 DEF Fault
<1>2. CASE JobStep
  <2>1. CASE MarkEscalated
    BY <2>1, <1>a DEF MarkEscalated, MarkTaskEscalated, Row
  <2>2. ASSUME NEW u \in Users, Notify(u) \/ NotifyFails(u)
        PROVE  FALSE
    BY <2>2, <1>0 DEF Notify, NotifyFails, NotifyJob
  <2> QED
    BY <1>2, <2>1, <2>2 DEF JobStep, AllOrgIDs, LoopEnds, DirectorIDs, RecomputeOrg, StaleTasks,
              NextTask
<1>3. CASE StaffStep \/ UNCHANGED vars
  BY <1>3 DEF StaffStep, ChangeTask, ChangeRole, DeleteUser, MarkAllNotificationsRead,
              MarkNotificationRead, vars
<1>4. CASE NextMorning
  BY <1>4 DEF NextMorning, Asleep
<1> QED  BY <1>1, <1>2, <1>3, <1>4 DEF Next

(* While nothing went wrong with a task, a director has no row about it     *)
(* before the goroutine comes to that director, and one row afterwards,    *)
(* with the mark to follow.                                               *)
Clear(t) == past[t] \cap {"crash", "unmarked"} = {}

Once ==
  \A u \in Users, t \in Tasks : Clear(t) =>
    /\ Sent(u, t) <= 1
    /\ t \in Listed => Sent(u, t) = 0
    /\ job.pc = "notify" /\ job.task = t /\ u \in job.todo => Sent(u, t) = 0
    /\ Sent(u, t) > 0 => \/ task[t].escalated \/ task[t].status = "deleted"
                         \/ job.pc = "notify" /\ job.task = t

LEMMA OnceStep ==
  ASSUME TypeOK, Unmarked, Once, [Next]_vars
  PROVE  Once'
<1> SUFFICES ASSUME NEW u \in Users, NEW t \in Tasks, Clear(t)'
             PROVE  /\ Sent(u, t)' <= 1
                    /\ t \in Listed' => Sent(u, t)' = 0
                    /\ job'.pc = "notify" /\ job'.task = t /\ u \in job'.todo => Sent(u, t)' = 0
                    /\ Sent(u, t)' > 0 => \/ task'[t].escalated \/ task'[t].status = "deleted"
                                          \/ job'.pc = "notify" /\ job'.task = t
  BY DEF Once
<1>1. Clear(t)
  BY PastMoves DEF Clear
<1>2. /\ Sent(u, t) <= 1
      /\ t \in Listed => Sent(u, t) = 0
      /\ job.pc = "notify" /\ job.task = t /\ u \in job.todo => Sent(u, t) = 0
      /\ Sent(u, t) > 0 => \/ task[t].escalated \/ task[t].status = "deleted"
                           \/ job.pc = "notify" /\ job.task = t
  BY <1>1 DEF Once
<1>3. Sent(u, t) \in Nat
  BY SentNat
<1>4. job \in Job
  BY DEF TypeOK
<1>5. CASE Sent(u, t)' = Sent(u, t) + 1
  <2>1. /\ job.pc = "notify" /\ job.task = t /\ u \in job.todo
        /\ job' = [job EXCEPT !.todo = @ \ {u}]
    BY <1>5, <1>3, FeedMoves
  <2>2. job \in NotifyJob
    BY <2>1, <1>4, JobType
  <2>3. /\ job'.pc = "notify" /\ job'.task = t /\ job'.stale = job.stale /\ u \notin job'.todo
    BY <2>1, <2>2 DEF NotifyJob
  <2>4. t \notin Listed'
    BY <2>1, <2>3 DEF Unmarked, Listed
  <2> QED  BY <1>2, <1>3, <1>5, <2>1, <2>3, <2>4
<1>6. CASE Sent(u, t)' = 0
  BY <1>6
<1>7. CASE Sent(u, t)' = Sent(u, t)
  <2>1. t \in Listed' => Sent(u, t) = 0
    <3>1. CASE job' = job \/ DirectorIDs \/ \E x \in Tasks : NextTask(x)
      BY <3>1, <1>2 DEF Listed, DirectorIDs, NextTask
    <3>2. CASE job'.pc \in {"asleep", "daily", "escalations", "recompute", "escalate"}
      BY <3>2 DEF Listed
    <3>3. ASSUME NEW o \in Orgs, StaleTasks(o), t \in Listed'
          PROVE  Sent(u, t) = 0
      <4>1. job \in EscalateJob
        BY <3>3, <1>4, JobType DEF StaleTasks
      <4>2. PICK S \in ListTasksForEscalation(o) :
              job' = IF S = {} THEN [job EXCEPT !.orgs = @ \ {o}]
                     ELSE [pc |-> "directors", orgs |-> job.orgs \ {o}, org |-> o, stale |-> S]
        BY <3>3 DEF StaleTasks
      <4>3. t \in S
        BY <3>3, <4>1, <4>2 DEF Listed, EscalateJob
      <4>4. ~task[t].escalated /\ task[t].status # "deleted"
        BY <4>3 DEF ListTasksForEscalation, Stale, In, Unresolved
      <4> QED  BY <4>1, <4>4, <1>2, <1>3 DEF EscalateJob
    <3>4. ASSUME NEW x \in Users, job.pc = "notify", job' = [job EXCEPT !.todo = @ \ {x}]
          PROVE  Listed' = Listed
      BY <3>4, <1>4, JobType DEF Listed, NotifyJob
    <3>5. CASE /\ job.pc = "notify"
               /\ job' = [pc |-> "tasks", orgs |-> job.orgs, stale |-> job.stale,
                          dirs |-> job.dirs]
      BY <3>5, <1>2 DEF Listed
    <3> QED  BY <1>2, <3>1, <3>2, <3>3, <3>4, <3>5, JobMoves
  <2>2. job'.pc = "notify" /\ job'.task = t /\ u \in job'.todo => Sent(u, t) = 0
    <3>1. CASE job' = job
      BY <3>1, <1>2
    <3>2. ASSUME NEW o \in Orgs, StaleTasks(o)
          PROVE  job'.pc # "notify"
      BY <3>2, <1>4, JobType DEF StaleTasks, EscalateJob
    <3>3. ASSUME NEW x \in Tasks, NextTask(x), job'.task = t
          PROVE  t \in Listed
      BY <3>3 DEF NextTask, Listed
    <3>4. ASSUME NEW x \in Users, job.pc = "notify", job' = [job EXCEPT !.todo = @ \ {x}]
          PROVE  job'.task = job.task /\ job'.todo \subseteq job.todo
      BY <3>4, <1>4, JobType DEF NotifyJob
    <3> QED  BY <1>2, <3>1, <3>2, <3>3, <3>4, JobMoves DEF DirectorIDs
  <2>3. Sent(u, t) > 0 => \/ task'[t].escalated \/ task'[t].status = "deleted"
                          \/ job'.pc = "notify" /\ job'.task = t
    <3> SUFFICES ASSUME Sent(u, t) > 0
                 PROVE  \/ task'[t].escalated \/ task'[t].status = "deleted"
                        \/ job'.pc = "notify" /\ job'.task = t
      OBVIOUS
    <3>1. CASE task[t].escalated \/ task[t].status = "deleted"
      BY <3>1, TaskMoves
    <3>2. CASE job.pc = "notify" /\ job.task = t /\ job'.pc # "notify"
      BY <3>2, NotifyEnds DEF Clear
    <3>3. CASE job.pc = "notify" /\ job.task = t /\ job'.pc = "notify"
      <4>1. job \in NotifyJob
        BY <3>3, <1>4, JobType
      <4> QED  BY <3>3, <4>1, JobMoves DEF NotifyJob, StaleTasks, DirectorIDs, NextTask
    <3> QED  BY <1>2, <3>1, <3>2, <3>3
  <2> QED  BY <1>2, <1>7, <2>1, <2>2, <2>3
<1> QED  BY <1>5, <1>6, <1>7, FeedMoves

(* No director is alerted twice about one task, but after a crash between   *)
(* the first alert and the mark or after a failed mark: for any centers,   *)
(* tasks and directors (EscalateStaleTasks).                              *)
THEOREM AlertedOnceHolds ==
  ASSUME AlertsAssumption
  PROVE  Spec => []AlertedOnce
<1> DEFINE IInv == TypeOK /\ Unmarked /\ Once
<1>1. Init => IInv
  <2> SUFFICES ASSUME Init PROVE IInv
    OBVIOUS
  <2>1. TypeOK
    BY DEF AlertsAssumption, Init, TypeOK, Row, MaxAge, Job, NoRows
  <2>2. Unmarked
    BY DEF Init, Unmarked, Listed, Asleep
  <2>3. Once
    BY DEF Init, Once, Listed, Asleep, Sent, NoRows
  <2> QED  BY <2>1, <2>2, <2>3
<1>2. IInv /\ [Next]_vars => IInv'
  <2>1. TypeOK /\ [Next]_vars => TypeOK'
    BY JobStepType, FaultType, StaffStepType, MorningType DEF Next, vars, TypeOK
  <2> QED  BY <2>1, UnmarkedStep, OnceStep
<1>3. IInv => AlertedOnce
  BY SentNat DEF Once, Clear, AlertedOnce
<1> QED  BY <1>1, <1>2, <1>3, PTL DEF Spec

-----------------------------------------------------------------------------
(* A director an alert was for is still to come, or has been told.         *)
Told(u, t) == Sent(u, t) > 0 \/ user[u] = "deleted" \/ "unsent" \in past[t]

EveryoneTold ==
  /\ EscalatedMeansTold
  /\ \A t \in Tasks : job.pc = "notify" /\ job.task = t =>
       \A u \in addressed[t] : u \in job.todo \/ Told(u, t)

LEMMA ToldStays ==
  ASSUME TypeOK, [Next]_vars, NEW u \in Users, NEW t \in Tasks, Told(u, t)
  PROVE  Told(u, t)'
BY FeedMoves, UserMoves, PastMoves, SentNat DEF Told

LEMMA AddressedMoves ==
  ASSUME TypeOK, [Next]_vars, NEW t \in Tasks
  PROVE  addressed'[t] = addressed[t] \/ NextTask(t)
<1> USE DEF TypeOK
<1>1. CASE Fault
  BY <1>1 DEF Fault, MarkFails, AllOrgIDsFails, OrgFails, Crash, NotifyFails
<1>2. CASE JobStep
  BY <1>2 DEF JobStep, AllOrgIDs, LoopEnds, DirectorIDs, MarkEscalated, RecomputeOrg, StaleTasks,
              NextTask, Notify, NotifyFails
<1>3. CASE StaffStep
  BY <1>3 DEF StaffStep, ChangeTask, ChangeRole, DeleteUser, MarkAllNotificationsRead,
              MarkNotificationRead
<1>4. CASE NextMorning
  BY <1>4 DEF NextMorning
<1>5. CASE UNCHANGED vars
  BY <1>5 DEF vars
<1> QED  BY <1>1, <1>2, <1>3, <1>4, <1>5 DEF Next

(* A director leaves the list of an alert told, deleted, or on record.     *)
LEMMA ToldOnTheWay ==
  ASSUME TypeOK, [Next]_vars, NEW u \in Users, NEW t \in Tasks,
         job \in NotifyJob, job.task = t, u \in job.todo, job' = [job EXCEPT !.todo = @ \ {u}]
  PROVE  Told(u, t)'
<1> USE DEF TypeOK
<1>0. job.todo \subseteq Users /\ job'.todo = job.todo \ {u}
      /\ job'.pc = "notify"
  BY DEF NotifyJob
<1>1. ASSUME NEW x \in Users, Notify(x)
      PROVE  Told(u, t)'
  <2>1. x = u
    BY <1>0, <1>1 DEF Notify, NotifyJob
  <2>2. Sent(u, t)' = Sent(u, t) + 1
    <3>1. feed'[u][t] = [feed[u][t] EXCEPT !.unread = @ + 1]
      BY <1>0, <1>1, <2>1 DEF Notify, CreateNotification
    <3>2. feed[u][t] \in [unread : Nat, read : Nat]
      BY <1>0
    <3> QED  BY <3>1, <3>2 DEF Sent
  <2> QED  BY <1>0, <2>2, SentNat DEF Told
<1>2. ASSUME NEW x \in Users, NotifyFails(x)
      PROVE  Told(u, t)'
  <2>1. x = u
    BY <1>0, <1>2 DEF NotifyFails, NotifyJob
  <2>3. CASE user[u] = "deleted"
    BY <1>2, <2>3 DEF NotifyFails, Told
  <2>4. CASE user[u] # "deleted"
    <3>1. past' = [past EXCEPT ![t] = @ \cup {"unsent"}]
      BY <1>2, <2>1, <2>4 DEF NotifyFails
    <3>2. "unsent" \in past'[t]
      BY <3>1
    <3> QED  BY <3>2 DEF Told
  <2> QED  BY <2>3, <2>4
<1>3. (\E x \in Users : Notify(x) \/ NotifyFails(x))
  <2>1. job' # job
    BY <1>0
  <2>2. CASE JobStep
    BY <1>0, <2>2 DEF JobStep, AllOrgIDs, LoopEnds, DirectorIDs, MarkEscalated, AfterTask,
                      RecomputeOrg, StaleTasks, NextTask, NotifyJob
  <2>3. CASE Fault
    BY <1>0, <2>3 DEF Fault, MarkFails, AfterTask, AllOrgIDsFails, OrgFails, Crash, Asleep, NotifyJob
  <2>4. CASE StaffStep
    BY <2>1, <2>4 DEF StaffStep, ChangeTask, ChangeRole, DeleteUser, MarkAllNotificationsRead,
                      MarkNotificationRead
  <2>5. CASE NextMorning
    BY <2>1, <2>5, JobType DEF NextMorning
  <2> QED  BY <2>1, <2>2, <2>3, <2>4, <2>5 DEF Next, vars
<1> QED  BY <1>1, <1>2, <1>3

LEMMA EveryoneToldStep ==
  ASSUME TypeOK, Unmarked, EveryoneTold, [Next]_vars
  PROVE  EveryoneTold'
<1>0. /\ job \in Job
      /\ \A t \in Tasks : addressed[t] \subseteq Users
  BY DEF TypeOK
<1>1. ASSUME NEW t \in Tasks, task'[t].escalated, NEW u \in addressed'[t]
      PROVE  Told(u, t)'
  <2>1. ~NextTask(t)
    <3> SUFFICES ASSUME NextTask(t) PROVE FALSE
      OBVIOUS
    <3>1. task' = task /\ t \in Listed
      BY DEF NextTask, Listed
    <3> QED  BY <1>1, <3>1 DEF Unmarked
  <2>2. u \in addressed[t] /\ u \in Users
    BY <1>0, <2>1, AddressedMoves
  <2>3. Told(u, t)
    <3>1. CASE task[t].escalated
      BY <2>2, <3>1 DEF EveryoneTold, EscalatedMeansTold, Told
    <3>2. CASE t = job.task /\ MarkEscalated
      BY <1>1, <2>2, <3>2 DEF EveryoneTold, MarkEscalated
    <3> QED  BY <1>1, <3>1, <3>2, TaskMoves
  <2> QED  BY <2>2, <2>3, ToldStays
<1>2. ASSUME NEW t \in Tasks, job'.pc = "notify", job'.task = t, NEW u \in addressed'[t]
      PROVE  u \in job'.todo \/ Told(u, t)'
  <2>1. CASE job' = job
    <3>1. ~NextTask(t)
      BY <2>1, <1>2 DEF NextTask
    <3>2. u \in addressed[t] /\ u \in Users
      BY <1>0, <1>2, <3>1, AddressedMoves
    <3>3. u \in job.todo \/ Told(u, t)
      BY <1>2, <2>1, <3>2 DEF EveryoneTold
    <3> QED  BY <2>1, <3>2, <3>3, ToldStays
  <2>2. ASSUME NEW x \in Tasks, NextTask(x)
        PROVE  u \in job'.todo
    BY <1>2, <2>2 DEF NextTask, TypeOK
  <2>3. ASSUME NEW x \in Users, job.pc = "notify", x \in job.todo,
               job' = [job EXCEPT !.todo = @ \ {x}]
        PROVE  u \in job'.todo \/ Told(u, t)'
    <3>1. job \in NotifyJob
      BY <1>0, <2>3, JobType
    <3>2. job.task = t /\ job'.todo = job.todo \ {x}
      BY <1>2, <2>3, <3>1 DEF NotifyJob
    <3>3. ~NextTask(t)
      BY <2>3 DEF NextTask
    <3>4. u \in addressed[t] /\ u \in Users
      BY <1>0, <1>2, <3>3, AddressedMoves
    <3>5. CASE u = x
      BY <2>3, <3>1, <3>2, <3>5, ToldOnTheWay
    <3>6. CASE u # x
      <4>1. u \in job.todo \/ Told(u, t)
        BY <2>3, <3>2, <3>4 DEF EveryoneTold
      <4> QED  BY <3>2, <3>4, <3>6, <4>1, ToldStays
    <3> QED  BY <3>5, <3>6
  <2>4. ASSUME NEW o \in Orgs, StaleTasks(o)
        PROVE  FALSE
    BY <1>0, <1>2, <2>4, JobType DEF StaleTasks, EscalateJob
  <2> QED  BY <1>2, <2>1, <2>2, <2>3, <2>4, JobMoves DEF DirectorIDs
<1>3. EscalatedMeansTold'
  BY <1>1 DEF EscalatedMeansTold, Told
<1> QED  BY <1>2, <1>3 DEF EveryoneTold

(* Behind a marked task nobody is missing: every director the center had    *)
(* when the alert was raised has a row in the feed, is deleted, or is the   *)
(* one whose insert failed; for any centers, tasks and directors.          *)
THEOREM EscalatedMeansToldHolds ==
  ASSUME AlertsAssumption
  PROVE  Spec => []EscalatedMeansTold
<1> DEFINE IInv == TypeOK /\ Unmarked /\ EveryoneTold
<1>1. Init => IInv
  <2> SUFFICES ASSUME Init PROVE IInv
    OBVIOUS
  <2>1. TypeOK
    BY DEF AlertsAssumption, Init, TypeOK, Row, MaxAge, Job, NoRows
  <2>2. Unmarked /\ EveryoneTold
    BY DEF Init, Unmarked, EveryoneTold, EscalatedMeansTold, Listed, Asleep
  <2> QED  BY <2>1, <2>2
<1>2. IInv /\ [Next]_vars => IInv'
  <2>1. TypeOK /\ [Next]_vars => TypeOK'
    BY JobStepType, FaultType, StaffStepType, MorningType DEF Next, vars, TypeOK
  <2> QED  BY <2>1, UnmarkedStep, EveryoneToldStep
<1>3. IInv => EscalatedMeansTold
  BY DEF EveryoneTold
<1> QED  BY <1>1, <1>2, <1>3, PTL DEF Spec

-----------------------------------------------------------------------------
(* A task that is still to come to the goroutine before it sleeps again.   *)
Pending(t) ==
  \/ job.pc \in {"daily", "recompute", "escalations"}
  \/ job.pc \in {"escalate", "directors", "tasks", "notify"} /\ OrgOf[t] \in job.orgs
  \/ t \in Listed
  \/ job.pc = "notify" /\ job.task = t

(* As long as no run was delayed, a task is past its SLA only in the run    *)
(* that is going to escalate it.                                          *)
InTime ==
  /\ \A t \in Tasks : task[t].status = "unborn" => task[t].age = 0
  /\ late = {} =>
       \A t \in Unresolved : ~task[t].escalated /\ past[t] = {} =>
         \/ task[t].age <= SlaDays
         \/ task[t].age = SlaDays + 1 /\ Pending(t)

(* Only a morning makes a task older.                                     *)
LEMMA TaskAges ==
  ASSUME TypeOK, [Next]_vars, ~NextMorning, NEW t \in Tasks
  PROVE  /\ task'[t].status = "unborn" => task[t].status = "unborn"
         /\ task'[t].status # "deleted" => task'[t].age = task[t].age
         /\ t \in Unresolved' => t \in Unresolved \/ task[t].status = "unborn"
<1> USE DEF TypeOK, Unresolved
<1>0. task[t] \in Row
  OBVIOUS
<1>1. CASE Fault
  BY <1>1 DEF Fault, MarkFails, AllOrgIDsFails, OrgFails, Crash, NotifyFails
<1>2. CASE JobStep
  <2>1. CASE MarkEscalated
    BY <2>1, <1>0 DEF MarkEscalated, MarkTaskEscalated, Row
  <2>2. ASSUME NEW o \in Orgs, RecomputeOrg(o)
        PROVE  /\ task'[t].status = "unborn" => task[t].status = "unborn"
               /\ task'[t].age = task[t].age
               /\ t \in Unresolved' => t \in Unresolved \/ task[t].status = "unborn"
    <3>1. PICK S \in SUBSET {x \in In(o, Tasks) : task[x].status = "unborn"} :
            task' = [x \in Tasks |-> IF x \in S THEN [task[x] EXCEPT !.status = "Open"]
                                                ELSE task[x]]
      BY <2>2 DEF RecomputeOrg
    <3>2. task'[t] = IF t \in S THEN [task[t] EXCEPT !.status = "Open"] ELSE task[t]
      BY <3>1
    <3>3. t \in S => task[t].status = "unborn"
      OBVIOUS
    <3> QED  BY <3>2, <3>3, <1>0 DEF Row
  <2> QED
    BY <1>2, <2>1, <2>2 DEF JobStep, AllOrgIDs, LoopEnds, DirectorIDs, StaleTasks,
              NextTask, Notify, NotifyFails
<1>3. CASE StaffStep
  <2>1. CASE ChangeTask
    <3> PICK x \in Tasks : OpenTask(x) \/ StartTask(x) \/ ResolveTask(x) \/ DeleteTask(x)
      BY <2>1 DEF ChangeTask
    <3>1. CASE x # t
      BY <3>1 DEF OpenTask, StartTask, ResolveTask, DeleteTask
    <3>2. CASE x = t
      <4>1. CASE DeleteTask(x)
        BY <4>1, <3>2 DEF DeleteTask
      <4>2. CASE OpenTask(x)
        BY <4>2, <3>2, <1>0 DEF OpenTask, Row
      <4>3. CASE StartTask(x)
        BY <4>3, <3>2, <1>0 DEF StartTask, Row
      <4>4. CASE ResolveTask(x)
        BY <4>4, <3>2, <1>0 DEF ResolveTask, Row
      <4> QED  BY <4>1, <4>2, <4>3, <4>4
    <3> QED  BY <3>1, <3>2
  <2> QED
    BY <1>3, <2>1 DEF StaffStep, ChangeRole, DeleteUser, MarkAllNotificationsRead,
              MarkNotificationRead
<1>4. CASE UNCHANGED vars
  BY <1>4 DEF vars
<1> QED  BY <1>1, <1>2, <1>3, <1>4 DEF Next

LEMMA LateGrows ==
  ASSUME TypeOK, [Next]_vars, late' = {}
  PROVE  late = {} /\ ~AllOrgIDsFails /\ ~OrgFails /\ ~Crash /\ (NextMorning => job = Asleep)
<1>1. CASE Fault
  BY <1>1 DEF Fault, MarkFails, AllOrgIDsFails, OrgFails, Crash, NotifyFails, NextMorning
<1>2. CASE JobStep
  BY <1>2 DEF JobStep, AllOrgIDs, LoopEnds, DirectorIDs, MarkEscalated, RecomputeOrg, StaleTasks,
              NextTask, Notify, NotifyFails, AllOrgIDsFails, OrgFails, Crash, NextMorning
<1>3. CASE StaffStep
  BY <1>3 DEF StaffStep, ChangeTask, ChangeRole, DeleteUser, MarkAllNotificationsRead,
              MarkNotificationRead, AllOrgIDsFails, OrgFails, Crash, NextMorning
<1>4. CASE NextMorning
  BY <1>4 DEF NextMorning, AllOrgIDsFails, OrgFails, Crash
<1>5. CASE UNCHANGED vars
  BY <1>5 DEF vars, AllOrgIDsFails, OrgFails, Crash, NextMorning
<1> QED  BY <1>1, <1>2, <1>3, <1>4, <1>5 DEF Next

(* The goroutine lets go of an overdue task only by marking it, or with a   *)
(* failed mark on record.                                                 *)
LEMMA PendingStays ==
  ASSUME AlertsAssumption, TypeOK, [Next]_vars, late' = {}, ~NextMorning,
         NEW t \in Unresolved, t \in Unresolved', ~task[t].escalated, ~task'[t].escalated,
         past'[t] = {}, task[t].age = SlaDays + 1, Pending(t)
  PROVE  Pending(t)'
<1> USE DEF Pending, Listed
<1>0. /\ job \in Job
      /\ t \in Tasks /\ task[t] \in Row /\ OrgOf[t] \in Orgs
      /\ past \in [Tasks -> SUBSET {"crash", "unmarked", "unsent"}]
  BY DEF TypeOK, Unresolved, AlertsAssumption
<1>1. CASE job' = job
  BY <1>1
<1>2. CASE AllOrgIDs
  BY <1>0, <1>2 DEF AllOrgIDs
<1>3. CASE LoopEnds
  BY <1>0, <1>3 DEF LoopEnds
<1>4. CASE DirectorIDs
  BY <1>0, <1>4 DEF DirectorIDs
<1>5. CASE MarkEscalated \/ MarkFails
  <2>1. t # job.task
    <3>1. CASE MarkEscalated
      <4> SUFFICES ASSUME t = job.task PROVE FALSE
        OBVIOUS
      <4>1. task' = [task EXCEPT ![t].escalated = @ \/ task[t].status # "deleted"]
        BY <3>1 DEF MarkEscalated, MarkTaskEscalated
      <4>2. task[t].status # "deleted"
        BY DEF Unresolved
      <4>3. task \in [Tasks -> Row]
        BY DEF TypeOK
      <4>4. task'[t] = [task[t] EXCEPT !.escalated = @ \/ task[t].status # "deleted"]
        BY <1>0, <4>1, <4>3
      <4>5. task'[t].escalated
        BY <1>0, <4>2, <4>4 DEF Row
      <4> QED  BY <4>5
    <3>2. CASE MarkFails
      <4> SUFFICES ASSUME t = job.task PROVE FALSE
        OBVIOUS
      <4>1. past' = [past EXCEPT ![t] = @ \cup {"unmarked"}]
        BY <3>2 DEF MarkFails
      <4> QED  BY <1>0, <4>1
    <3> QED  BY <1>5, <3>1, <3>2
  <2> QED  BY <1>0, <1>5, <2>1 DEF MarkEscalated, MarkFails, AfterTask
<1>6. ASSUME NEW o \in Orgs, RecomputeOrg(o)
      PROVE  Pending(t)'
  BY <1>0, <1>6, JobType DEF RecomputeOrg, RecomputeJob
<1>7. ASSUME NEW o \in Orgs, StaleTasks(o)
      PROVE  Pending(t)'
  <2>1. job \in EscalateJob /\ OrgOf[t] \in job.orgs
    BY <1>0, <1>7, JobType DEF StaleTasks
  <2>2. PICK S \in ListTasksForEscalation(o) :
          job' = IF S = {} THEN [job EXCEPT !.orgs = @ \ {o}]
                 ELSE [pc |-> "directors", orgs |-> job.orgs \ {o}, org |-> o, stale |-> S]
    BY <1>7 DEF StaleTasks
  <2>3. OrgOf[t] = o => t \in S
    <3>1. Stale(t, SlaDays + 1)
      BY <1>0 DEF Stale, AlertsAssumption
    <3>2. OrgOf[t] = o => t \in In(o, Unresolved)
      BY DEF In
    <3> QED  BY <3>1, <3>2 DEF ListTasksForEscalation
  <2>4. CASE S = {}
    <3>1. job'.pc = "escalate" /\ job'.orgs = job.orgs \ {o}
      BY <2>1, <2>2, <2>4 DEF EscalateJob
    <3> QED  BY <2>1, <2>3, <2>4, <3>1
  <2>5. CASE S # {}
    <3>1. job'.pc = "directors" /\ job'.orgs = job.orgs \ {o} /\ job'.stale = S
      BY <2>2, <2>5
    <3> QED  BY <2>1, <2>3, <3>1
  <2> QED  BY <2>4, <2>5
<1>8. ASSUME NEW x \in Tasks, NextTask(x)
      PROVE  Pending(t)'
  BY <1>0, <1>8 DEF NextTask
<1>9. ASSUME NEW u \in Users, Notify(u) \/ NotifyFails(u)
      PROVE  Pending(t)'
  <2>1. job \in NotifyJob /\ job' = [job EXCEPT !.todo = @ \ {u}]
    BY <1>0, <1>9, JobType DEF Notify, NotifyFails
  <2>2. job'.pc = job.pc /\ job'.orgs = job.orgs /\ job'.stale = job.stale /\ job'.task = job.task
    BY <2>1 DEF NotifyJob
  <2> QED  BY <2>2
<1>10. CASE Fault
  BY <1>5, <1>9, <1>10, LateGrows DEF Fault
<1>11. CASE JobStep
  BY <1>2, <1>3, <1>4, <1>5, <1>6, <1>7, <1>8, <1>9, <1>11 DEF JobStep
<1>12. CASE StaffStep \/ UNCHANGED vars
  BY <1>1, <1>12 DEF StaffStep, ChangeTask, ChangeRole, DeleteUser, MarkAllNotificationsRead,
                     MarkNotificationRead, vars
<1> QED  BY <1>10, <1>11, <1>12 DEF Next

LEMMA InTimeStep ==
  ASSUME AlertsAssumption, TypeOK, InTime, [Next]_vars
  PROVE  InTime'
<1>0. /\ SlaDays \in Nat
      /\ \A t \in Tasks : task[t] \in Row
  BY DEF AlertsAssumption, TypeOK
<1>1. CASE NextMorning
  <2>1. \A t \in Tasks :
          task'[t] = IF t \in Unresolved /\ task[t].age < MaxAge
                     THEN [task[t] EXCEPT !.age = @ + 1] ELSE task[t]
    BY <1>1 DEF NextMorning
  <2>2. \A t \in Tasks : /\ task'[t].status = task[t].status
                         /\ task'[t].escalated = task[t].escalated
    BY <1>0, <2>1 DEF Row
  <2>3. \A t \in Tasks : t \notin Unresolved => task'[t] = task[t]
    BY <2>1
  <2>4. \A t \in Tasks : task'[t].status = "unborn" => task'[t].age = 0
    BY <2>2, <2>3 DEF InTime, Unresolved
  <2>5. ASSUME late' = {}, NEW t \in Unresolved', ~task'[t].escalated, past'[t] = {}
        PROVE  \/ task'[t].age <= SlaDays
               \/ task'[t].age = SlaDays + 1 /\ Pending(t)'
    <3>1. job = Asleep /\ late = {} /\ past' = past /\ job' = [pc |-> "daily"]
      BY <1>1, <2>5, LateGrows DEF NextMorning
    <3>2. t \in Unresolved /\ t \in Tasks
      BY <2>2 DEF Unresolved
    <3>3. ~Pending(t)
      BY <3>1 DEF Pending, Listed, Asleep
    <3>4. task[t].age <= SlaDays
      BY <2>2, <2>5, <3>1, <3>2, <3>3 DEF InTime
    <3>5. task[t].age \in Nat
      <4>1. MaxAge \in Nat
        BY <1>0 DEF MaxAge
      <4>2. task[t].age \in 0..MaxAge
        BY <1>0, <3>2 DEF Row
      <4> QED  BY <4>1, <4>2
    <3>6. task'[t].age = task[t].age \/ task'[t].age = task[t].age + 1
      BY <1>0, <2>1, <3>2 DEF Row
    <3>7. Pending(t)'
      BY <3>1 DEF Pending
    <3> QED  BY <1>0, <3>4, <3>5, <3>6, <3>7
  <2> QED  BY <2>4, <2>5 DEF InTime
<1>2. CASE ~NextMorning
  <2>1. \A t \in Tasks : task'[t].status = "unborn" => task'[t].age = 0
    BY <1>2, TaskAges DEF InTime
  <2>2. ASSUME late' = {}, NEW t \in Unresolved', ~task'[t].escalated, past'[t] = {}
        PROVE  \/ task'[t].age <= SlaDays
               \/ task'[t].age = SlaDays + 1 /\ Pending(t)'
    <3>0. t \in Tasks /\ task'[t].status # "deleted"
      BY DEF Unresolved
    <3>1. task'[t].age = task[t].age
      BY <1>2, <3>0, TaskAges
    <3>2. CASE t \in Unresolved
      <4>1. late = {} /\ past[t] = {}
        BY <2>2, <3>0, LateGrows, PastMoves
      <4>2. ~task[t].escalated
        BY <2>2, <3>0, TaskMoves
      <4>3. \/ task[t].age <= SlaDays
            \/ task[t].age = SlaDays + 1 /\ Pending(t)
        BY <3>2, <4>1, <4>2 DEF InTime
      <4> QED  BY <1>2, <2>2, <3>1, <3>2, <4>2, <4>3, PendingStays
    <3>3. CASE task[t].status = "unborn"
      BY <1>0, <3>0, <3>1, <3>3 DEF InTime
    <3> QED  BY <1>2, <3>0, <3>2, <3>3, TaskAges
  <2> QED  BY <2>1, <2>2 DEF InTime
<1> QED  BY <1>1, <1>2

(* A task is two mornings late for its SLA only after a run that failed,    *)
(* died or overran a morning, or a failed mark: for any SLA, any number of  *)
(* centers and tasks (RunDaily, EscalateStaleTasks).                       *)
THEOREM SlaKeptHolds ==
  ASSUME AlertsAssumption
  PROVE  Spec => []SlaKept
<1> DEFINE IInv == TypeOK /\ InTime
<1>1. Init => IInv
  <2> SUFFICES ASSUME Init PROVE IInv
    OBVIOUS
  <2>1. TypeOK
    BY DEF AlertsAssumption, Init, TypeOK, Row, MaxAge, Job, NoRows
  <2>2. InTime
    BY DEF Init, InTime, Unresolved
  <2> QED  BY <2>1, <2>2
<1>2. IInv /\ [Next]_vars => IInv'
  <2>1. TypeOK /\ [Next]_vars => TypeOK'
    BY JobStepType, FaultType, StaffStepType, MorningType DEF Next, vars, TypeOK
  <2> QED  BY <2>1, InTimeStep
<1>3. IInv => SlaKept
  <2> SUFFICES ASSUME InTime, NEW t \in Unresolved, task[t].age = MaxAge, ~task[t].escalated,
                      late = {}, past[t] = {}
               PROVE  FALSE
    BY DEF SlaKept
  <2>1. task[t].age <= SlaDays \/ task[t].age = SlaDays + 1
    BY DEF InTime
  <2> QED  BY <2>1 DEF MaxAge, AlertsAssumption
<1> QED  BY <1>1, <1>2, <1>3, PTL DEF Spec

=============================================================================
