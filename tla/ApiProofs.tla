------------------------------ MODULE ApiProofs ------------------------------
(***************************************************************************)
(* Api, the routes and jobs it serves, and the statements they run: for    *)
(* any centers and any lives of the tokens.                                *)
(*                                                                         *)
(* The first half is about the text of the handlers, and knows no state:   *)
(* every transaction of src/internal/repo/postgres sets its tenant before  *)
(* it touches a secured table, only the routes of the director and of the  *)
(* accountant touch the money, every path that commits more than once is   *)
(* in the list of Staged, and every path that writes what it read before   *)
(* is in the list of CheckThenAct (EveryRoute, MoneyRoutes, WholeRoutes,   *)
(* FreshRoutes).  The second half is the request, whatever its path: what  *)
(* its place on the path says of the connection, of the token, and of what *)
(* it has written, and with the first half the properties of Api.          *)
(***************************************************************************)
EXTENDS Api, TLAPS

-----------------------------------------------------------------------------
(* What a path may be *)

\* The tables of every day: all but the money.
Everyday == Tables \ Money

\* Statements, steps, transactions, paths and routes on the tables T.  No statement
\* sets the tenant of the session.
StatementsOn(T) == [reads : SUBSET T, writes : SUBSET T, sets : {"nothing", "transaction"}]
StepsOn(T) == [run : StatementsOn(T), times : {"once", "maybe", "each"}]

\* The steps of a transaction that sets its tenant before it touches a secured table.
Framed(T) ==
  {steps \in Seq(StepsOn(T)) :
     \A n \in 1..Len(steps) :
       \/ Touches(steps[n].run) \subseteq Unsecured
       \/ \E m \in 1..(n - 1) : steps[m] = Do(SetTenant)}

TransactionsOn(T) ==
  [scoped : BOOLEAN, steps : Framed(T), times : {"once", "maybe", "each"},
   of : SUBSET Roles, center : {"own", "next"}, must : BOOLEAN]
OnceOn(T) == {t \in TransactionsOn(T) : t.times = "once"}
PathsOn(T) == Seq(TransactionsOn(T))
RoutesOn(T) ==
  [gate : SUBSET (Roles \cup {Nobody, Job}), paths : SUBSET PathsOn(T),
   ends : SUBSET {"ok", "error"}]

\* The roles that never see the money.
FrontDesk == {"manager", "mentor", "teacher", "student"}

WrittenIn(t) == UNION {t.steps[n].run.writes : n \in 1..Len(t.steps)}

\* No transaction that the request cannot do without comes after one that writes, in
\* the order of the path or around a loop: the failing one leaves nothing behind.
Whole(p) ==
  \A i, j \in 1..Len(p) :
     WrittenIn(p[i]) # {} /\ (\A k \in j..i : p[k].times = "each") => ~p[j].must

\* What a transaction writes, no earlier one has read, unless it reads it again.
Fresh(p) ==
  \A i \in 1..Len(p) : \A k \in 1..(i - 1) :
     (ReadIn(p[k]) \ ReadIn(p[i])) \cap WrittenIn(p[i]) = {}

-----------------------------------------------------------------------------
(* What the transactions are made of *)

\* A step is a statement, run once, or not, or many times.
LEMMA StepTypes ==
  ASSUME NEW T, NEW s \in StatementsOn(T)
  PROVE  /\ Do(s) \in StepsOn(T) /\ Maybe(s) \in StepsOn(T) /\ Each(s) \in StepsOn(T)
         /\ Do(s).run = s /\ Maybe(s).run = s /\ Each(s).run = s
BY DEF Do, Maybe, Each, StepsOn

\* Framed steps make a transaction.
LEMMA TransactionTypes ==
  ASSUME NEW T, NEW steps \in Framed(T), NEW scoped \in BOOLEAN
  PROVE  /\ Transaction(scoped, steps) \in OnceOn(T)
         /\ Transaction(scoped, steps).steps = steps
BY DEF Transaction, TransactionsOn, OnceOn

\* SetTenant touches no table.
LEMMA SetTenantTypes ==
  ASSUME NEW T
  PROVE  Do(SetTenant) \in StepsOn(T) /\ Do(SetTenant).run = SetTenant
<1>1. SetTenant \in StatementsOn(T)
  BY DEF SetTenant, Statement, StatementsOn
<1> QED
  BY <1>1, StepTypes

\* WithTenant: whatever its statements are, the tenant is set before them.
LEMMA TenantFirst ==
  ASSUME NEW T, NEW steps \in Seq(StepsOn(T))
  PROVE  WithTenant(steps) \in OnceOn(T)
<1> DEFINE all == <<Do(SetTenant)>> \o steps
<1>1. Do(SetTenant) \in StepsOn(T) /\ Do(SetTenant).run = SetTenant
  BY SetTenantTypes
<1>2. /\ all \in Seq(StepsOn(T)) /\ Len(all) = Len(steps) + 1
      /\ all[1] = Do(SetTenant)
  BY <1>1
<1>3. Touches(SetTenant) \subseteq Unsecured
  BY DEF SetTenant, Statement, Touches
<1> HIDE DEF all
<1>4. ASSUME NEW n \in 1..Len(all)
      PROVE  \/ Touches(all[n].run) \subseteq Unsecured
             \/ \E m \in 1..(n - 1) : all[m] = Do(SetTenant)
  <2>1. CASE n = 1
    BY <1>1, <1>2, <1>3, <2>1
  <2>2. CASE n # 1
    <3>1. 1 \in 1..(n - 1)
      BY <1>2, <2>2
    <3> QED  BY <1>2, <3>1
  <2> QED  BY <2>1, <2>2
<1>5. all \in Framed(T)
  BY <1>2, <1>4 DEF Framed
<1> QED
  BY <1>5, TransactionTypes DEF WithTenant, WithTx, all

\* The transaction of one statement, with its tenant.
LEMMA OneStatement ==
  ASSUME NEW T, NEW s \in StatementsOn(T)
  PROVE  Tenant(s) \in OnceOn(T)
<1>1. <<Do(s)>> \in Seq(StepsOn(T))
  BY StepTypes
<1> QED
  BY <1>1, TenantFirst DEF Tenant

\* On tables without a row policy no tenant is needed.
LEMMA UnsecuredFramed ==
  ASSUME NEW steps \in Seq(StepsOn(Unsecured))
  PROVE  steps \in Framed(Everyday)
<1>1. Unsecured \subseteq Everyday
  BY DEF Everyday, Tables, Unsecured, Money
<1>2. ASSUME NEW s \in StatementsOn(Unsecured)
      PROVE  s \in StatementsOn(Everyday) /\ Touches(s) \subseteq Unsecured
  BY <1>1 DEF StatementsOn, Touches
<1>3. ASSUME NEW n \in 1..Len(steps)
      PROVE  steps[n] \in StepsOn(Everyday) /\ Touches(steps[n].run) \subseteq Unsecured
  <2>1. steps[n] \in StepsOn(Unsecured)
    OBVIOUS
  <2> QED  BY <1>2, <2>1 DEF StepsOn
<1>4. steps \in Seq(StepsOn(Everyday))
  BY <1>3
<1> QED
  BY <1>3, <1>4 DEF Framed

\* A statement on the pool, of those tables.
LEMMA OnThePool ==
  ASSUME NEW s \in StatementsOn(Unsecured)
  PROVE  Pooled(s) \in OnceOn(Everyday)
<1>1. <<Do(s)>> \in Seq(StepsOn(Unsecured))
  BY StepTypes
<1> QED
  BY <1>1, UnsecuredFramed, TransactionTypes DEF Pooled

\* activity_repo.go
LEMMA ActivityTransactions ==
  {Activity_List, Activity_Create, Activity_Delete}
    \subseteq OnceOn(Everyday)
<1>1. {ListActivities, CreateActivity, DeleteActivity} \subseteq StatementsOn(Everyday)
  BY DEF ListActivities, CreateActivity, DeleteActivity, Reads, Writes, Statement,
         StatementsOn, Everyday, Tables, Secured, Unsecured, Money
<1> QED
  BY <1>1, OneStatement
     DEF Activity_List, Activity_Create, Activity_Delete

\* analytics_repo.go
LEMMA AnalyticsTransactions ==
  {Analytics_Retention}
    \subseteq OnceOn(Everyday)
<1>1. {RetentionStatusCounts, RetentionCohorts, InterventionEffectiveness}
         \subseteq StatementsOn(Everyday)
  BY DEF RetentionStatusCounts, RetentionCohorts, InterventionEffectiveness, Reads,
         Statement, StatementsOn, Everyday, Tables, Secured, Unsecured, Money
<1>2. {<<Do(RetentionStatusCounts), Do(RetentionCohorts), Do(InterventionEffectiveness)>>}
       \subseteq Seq(StepsOn(Everyday))
  BY <1>1, StepTypes
<1> QED
  BY <1>1, <1>2, TenantFirst
     DEF Analytics_Retention

\* assignment_repo.go
LEMMA AssignmentTransactions ==
  {Assignment_CreateAssignment, Assignment_UpdateAssignment,
   Assignment_ListGroupAssignments, Assignment_GetAssignment, Assignment_DeleteAssignment,
   Assignment_ListSubmissions, Assignment_Grade, Assignment_GroupForSubmission,
   Assignment_GetAssignmentForStudent, Assignment_UpsertSubmission,
   Assignment_ListStudentAssignments}
    \subseteq OnceOn(Everyday)
<1>1. {CreateHomeworkAssignment, UpdateHomeworkAssignment, ListGroupAssignments,
       GetAssignment, DeleteAssignment, ListAssignmentSubmissions, GradeSubmission,
       GetSubmissionGroup, GetAssignmentForStudent, UpsertSubmission,
       ListStudentAssignments} \subseteq StatementsOn(Everyday)
  BY DEF CreateHomeworkAssignment, UpdateHomeworkAssignment, ListGroupAssignments,
         GetAssignment, DeleteAssignment, ListAssignmentSubmissions, GradeSubmission,
         GetSubmissionGroup, GetAssignmentForStudent, UpsertSubmission,
         ListStudentAssignments, Reads, Writes, Statement, StatementsOn, Everyday, Tables,
         Secured, Unsecured, Money
<1> QED
  BY <1>1, OneStatement
     DEF Assignment_CreateAssignment, Assignment_UpdateAssignment,
         Assignment_ListGroupAssignments, Assignment_GetAssignment,
         Assignment_DeleteAssignment, Assignment_ListSubmissions, Assignment_Grade,
         Assignment_GroupForSubmission, Assignment_GetAssignmentForStudent,
         Assignment_UpsertSubmission, Assignment_ListStudentAssignments

\* attendance_repo.go
LEMMA AttendanceTransactions ==
  {Attendance_ListByStudent}
    \subseteq OnceOn(Everyday)
<1>1. {ListAttendanceByStudent} \subseteq StatementsOn(Everyday)
  BY DEF ListAttendanceByStudent, Reads, Statement, StatementsOn, Everyday, Tables, Secured,
         Unsecured, Money
<1> QED
  BY <1>1, OneStatement
     DEF Attendance_ListByStudent

\* auth_repo.go
LEMMA AuthTransactions ==
  {Auth_OrgBySlug, Auth_OrgByID, Auth_SlugExists, Auth_AllOrgIDs, Auth_UserByEmailInOrg,
   Auth_UserByID, Auth_SetPassword}
    \subseteq OnceOn(Everyday)
<1>1. {GetUserByEmail, GetUserByID, UpdateUserPassword} \subseteq StatementsOn(Everyday)
  BY DEF GetUserByEmail, GetUserByID, UpdateUserPassword, Reads, Writes, Statement,
         StatementsOn, Everyday, Tables, Secured, Unsecured, Money
<1>2. {GetOrganizationBySlug, GetOrganizationByID, SlugExists, ListAllOrgIDs}
         \subseteq StatementsOn(Unsecured)
  BY DEF GetOrganizationBySlug, GetOrganizationByID, SlugExists, ListAllOrgIDs, Reads,
         Statement, StatementsOn, Unsecured
<1> QED
  BY <1>1, <1>2, OneStatement, OnThePool
     DEF Auth_OrgBySlug, Auth_OrgByID, Auth_SlugExists, Auth_AllOrgIDs,
         Auth_UserByEmailInOrg, Auth_UserByID, Auth_SetPassword

\* bot_repo.go
LEMMA BotTransactions ==
  {Bot_BindChat, Bot_SetStudentChat, Bot_DueHomeworkReminders, Bot_MarkHomeworkReminded,
   Bot_ListLinkedChats}
    \subseteq OnceOn(Everyday)
<1>1. {SetStudentTelegramChat, ListDueHomeworkReminders, MarkHomeworkReminded}
         \subseteq StatementsOn(Everyday)
  BY DEF SetStudentTelegramChat, ListDueHomeworkReminders, MarkHomeworkReminded, Reads,
         Writes, Statement, StatementsOn, Everyday, Tables, Secured, Unsecured, Money
<1>2. {BindBotChat, ListLinkedChats} \subseteq StatementsOn(Unsecured)
  BY DEF BindBotChat, ListLinkedChats, Reads, Writes, Statement, StatementsOn, Unsecured
<1> QED
  BY <1>1, <1>2, OneStatement, OnThePool
     DEF Bot_BindChat, Bot_SetStudentChat, Bot_DueHomeworkReminders,
         Bot_MarkHomeworkReminded, Bot_ListLinkedChats

\* branch_repo.go
LEMMA BranchTransactions ==
  {Branch_List, Branch_Create, Branch_Update, Branch_Delete}
    \subseteq OnceOn(Everyday)
<1>1. {ListBranches, CreateBranch, UpdateBranch, DeleteBranch}
         \subseteq StatementsOn(Everyday)
  BY DEF ListBranches, CreateBranch, UpdateBranch, DeleteBranch, Reads, Writes, Statement,
         StatementsOn, Everyday, Tables, Secured, Unsecured, Money
<1> QED
  BY <1>1, OneStatement
     DEF Branch_List, Branch_Create, Branch_Update, Branch_Delete

\* course_repo.go
LEMMA CourseTransactions ==
  {Course_List, Course_Create, Course_Update, Course_Delete}
    \subseteq OnceOn(Everyday)
<1>1. {ListCourses, CreateCourse, UpdateCourse, DeleteCourse}
         \subseteq StatementsOn(Everyday)
  BY DEF ListCourses, CreateCourse, UpdateCourse, DeleteCourse, Reads, Writes, Statement,
         StatementsOn, Everyday, Tables, Secured, Unsecured, Money
<1> QED
  BY <1>1, OneStatement
     DEF Course_List, Course_Create, Course_Update, Course_Delete

\* dashboard_repo.go
LEMMA DashboardTransactions ==
  {Dashboard_Load}
    \subseteq OnceOn(Everyday)
<1>1. {CountStudentsByTier, RiskByGroup, TopObstacles, HighRiskStudents,
       AvgMotivationByWeek} \subseteq StatementsOn(Everyday)
  BY DEF CountStudentsByTier, RiskByGroup, TopObstacles, HighRiskStudents,
         AvgMotivationByWeek, Reads, Statement, StatementsOn, Everyday, Tables, Secured,
         Unsecured, Money
<1>2. {<<Do(CountStudentsByTier), Do(RiskByGroup), Do(TopObstacles), Do(HighRiskStudents),
       Do(AvgMotivationByWeek)>>}
       \subseteq Seq(StepsOn(Everyday))
  BY <1>1, StepTypes
<1> QED
  BY <1>1, <1>2, TenantFirst
     DEF Dashboard_Load

\* enrollment_repo.go
LEMMA EnrollmentTransactions ==
  {Enrollment_ListByStudent, Enrollment_Create, Enrollment_Update, Enrollment_Delete}
    \subseteq OnceOn(Everyday)
<1>1. {ListEnrollmentsByStudent, CreateEnrollment, UpdateEnrollment, DeleteEnrollment}
         \subseteq StatementsOn(Everyday)
  BY DEF ListEnrollmentsByStudent, CreateEnrollment, UpdateEnrollment, DeleteEnrollment,
         Reads, Writes, Statement, StatementsOn, Everyday, Tables, Secured, Unsecured, Money
<1> QED
  BY <1>1, OneStatement
     DEF Enrollment_ListByStudent, Enrollment_Create, Enrollment_Update, Enrollment_Delete

\* exam_repo.go
LEMMA ExamTransactions ==
  {Exam_Create, Exam_ListGroupExams, Exam_GetExam, Exam_DeleteExam, Exam_UpsertResult,
   Exam_ListResults, Exam_StudentResults}
    \subseteq OnceOn(Everyday)
<1>1. {CreateExam, ListGroupExams, GetExam, DeleteExam, UpsertExamResult, ListExamResults,
       ListStudentExamResults} \subseteq StatementsOn(Everyday)
  BY DEF CreateExam, ListGroupExams, GetExam, DeleteExam, UpsertExamResult, ListExamResults,
         ListStudentExamResults, Reads, Writes, Statement, StatementsOn, Everyday, Tables,
         Secured, Unsecured, Money
<1> QED
  BY <1>1, OneStatement
     DEF Exam_Create, Exam_ListGroupExams, Exam_GetExam, Exam_DeleteExam, Exam_UpsertResult,
         Exam_ListResults, Exam_StudentResults

\* finance_repo.go
LEMMA FinanceTransactions ==
  {Finance_ListInvoices, Finance_CreateInvoice, Finance_GenerateMonthly,
   Finance_DeleteInvoice, Finance_StudentBalance, Finance_ListPayments,
   Finance_RecordPayment, Finance_DeletePayment, Finance_ListDebtors, Finance_GroupFinance,
   Finance_OverdueInvoices, Finance_GraceOverdue, Finance_GetGraceLessons,
   Finance_SetGraceLessons}
    \subseteq OnceOn(Everyday)
<1>1. {ListInvoicesByStudent, CreateInvoice, GenerateMonthlyInvoices, DeleteInvoice,
       StudentBalance, ListPaymentsByStudent, GetInvoice, CreatePayment, AdjustInvoicePaid,
       GetPayment, DeletePayment, ListDebtors, GroupFinanceByPeriod, OverdueInvoices,
       GraceOverdueStudents} \subseteq StatementsOn(Everyday)
  BY DEF ListInvoicesByStudent, CreateInvoice, GenerateMonthlyInvoices, DeleteInvoice,
         StudentBalance, ListPaymentsByStudent, GetInvoice, CreatePayment,
         AdjustInvoicePaid, GetPayment, DeletePayment, ListDebtors, GroupFinanceByPeriod,
         OverdueInvoices, GraceOverdueStudents, Reads, ReadsInto, Writes, Statement,
         StatementsOn, Everyday, Tables, Secured, Unsecured, Money
<1>2. {GetGraceLessons, SetGraceLessons} \subseteq StatementsOn(Unsecured)
  BY DEF GetGraceLessons, SetGraceLessons, Reads, Writes, Statement, StatementsOn, Unsecured
<1>3. {<<Do(GetInvoice), Do(CreatePayment), Do(AdjustInvoicePaid)>>,
       <<Do(GetPayment), Do(DeletePayment), Do(AdjustInvoicePaid)>>}
       \subseteq Seq(StepsOn(Everyday))
  BY <1>1, StepTypes
<1> QED
  BY <1>1, <1>2, OneStatement, OnThePool, <1>3, TenantFirst
     DEF Finance_ListInvoices, Finance_CreateInvoice, Finance_GenerateMonthly,
         Finance_DeleteInvoice, Finance_StudentBalance, Finance_ListPayments,
         Finance_RecordPayment, Finance_DeletePayment, Finance_ListDebtors,
         Finance_GroupFinance, Finance_OverdueInvoices, Finance_GraceOverdue,
         Finance_GetGraceLessons, Finance_SetGraceLessons

\* finance_repo.go: the expenses.
LEMMA FinanceMoneyTransactions ==
  {Finance_Summary, Finance_CreateExpense, Finance_ListExpenses, Finance_DeleteExpense,
   Finance_ExpensesByCategory}
    \subseteq OnceOn(Tables)
<1>1. {FinanceSummary, CreateExpense, ListExpenses, DeleteExpense, ExpensesByCategory}
         \subseteq StatementsOn(Tables)
  BY DEF FinanceSummary, CreateExpense, ListExpenses, DeleteExpense, ExpensesByCategory,
         Reads, Writes, Statement, StatementsOn, Tables, Secured, Unsecured
<1> QED
  BY <1>1, OneStatement
     DEF Finance_Summary, Finance_CreateExpense, Finance_ListExpenses,
         Finance_DeleteExpense, Finance_ExpensesByCategory

\* group_repo.go
LEMMA GroupTransactions ==
  {Group_Create, Group_List, Group_GetByID, Group_ListByTeacher, Group_Update, Group_Delete,
   Group_MissingAttendance, Group_AddMember, Group_RemoveMember, Group_ListForStudent}
    \subseteq OnceOn(Everyday)
<1>1. {CreateGroup, ListGroups, GetGroup, ListGroupsByTeacher, UpdateGroup,
       NullGroupForStudents, DeleteGroup, GroupsMissingAttendance, AddGroupMember,
       RemoveGroupMember, ListGroupsForStudent} \subseteq StatementsOn(Everyday)
  BY DEF CreateGroup, ListGroups, GetGroup, ListGroupsByTeacher, UpdateGroup,
         NullGroupForStudents, DeleteGroup, GroupsMissingAttendance, AddGroupMember,
         RemoveGroupMember, ListGroupsForStudent, Reads, Writes, Statement, StatementsOn,
         Everyday, Tables, Secured, Unsecured, Money
<1>2. {<<Do(NullGroupForStudents), Do(DeleteGroup)>>}
       \subseteq Seq(StepsOn(Everyday))
  BY <1>1, StepTypes
<1> QED
  BY <1>1, OneStatement, <1>2, TenantFirst
     DEF Group_Create, Group_List, Group_GetByID, Group_ListByTeacher, Group_Update,
         Group_Delete, Group_MissingAttendance, Group_AddMember, Group_RemoveMember,
         Group_ListForStudent

\* homework_repo.go
LEMMA HomeworkTransactions ==
  {Homework_ListByStudent}
    \subseteq OnceOn(Everyday)
<1>1. {ListHomeworkByStudent} \subseteq StatementsOn(Everyday)
  BY DEF ListHomeworkByStudent, Reads, Statement, StatementsOn, Everyday, Tables, Secured,
         Unsecured, Money
<1> QED
  BY <1>1, OneStatement
     DEF Homework_ListByStudent

\* intervention_repo.go
LEMMA InterventionTransactions ==
  {Intervention_List, Intervention_Assign, Intervention_Start, Intervention_Resolve}
    \subseteq OnceOn(Everyday)
<1>1. {ListInterventionTasks, AssignInterventionTask, StartInterventionTask,
       ResolveInterventionTask} \subseteq StatementsOn(Everyday)
  BY DEF ListInterventionTasks, AssignInterventionTask, StartInterventionTask,
         ResolveInterventionTask, Reads, Writes, Statement, StatementsOn, Everyday, Tables,
         Secured, Unsecured, Money
<1> QED
  BY <1>1, OneStatement
     DEF Intervention_List, Intervention_Assign, Intervention_Start, Intervention_Resolve

\* lead_repo.go
LEMMA LeadTransactions ==
  {Lead_List, Lead_Get, Lead_Create, Lead_Update, Lead_SetStage, Lead_MarkConverted,
   Lead_Delete}
    \subseteq OnceOn(Everyday)
<1>1. {ListLeads, GetLead, CreateLead, UpdateLead, SetLeadStage, MarkLeadConverted,
       DeleteLead} \subseteq StatementsOn(Everyday)
  BY DEF ListLeads, GetLead, CreateLead, UpdateLead, SetLeadStage, MarkLeadConverted,
         DeleteLead, Reads, Writes, Statement, StatementsOn, Everyday, Tables, Secured,
         Unsecured, Money
<1> QED
  BY <1>1, OneStatement
     DEF Lead_List, Lead_Get, Lead_Create, Lead_Update, Lead_SetStage, Lead_MarkConverted,
         Lead_Delete

\* lesson_repo.go
LEMMA LessonTransactions ==
  {Lesson_List, Lesson_FindByGroupDate, Lesson_Create, Lesson_Update, Lesson_Delete,
   Lesson_CountRoomConflicts}
    \subseteq OnceOn(Everyday)
<1>1. {ListLessons, GetLessonByGroupDate, CreateLesson, UpdateLesson, DeleteLesson,
       CountRoomConflicts} \subseteq StatementsOn(Everyday)
  BY DEF ListLessons, GetLessonByGroupDate, CreateLesson, UpdateLesson, DeleteLesson,
         CountRoomConflicts, Reads, Writes, Statement, StatementsOn, Everyday, Tables,
         Secured, Unsecured, Money
<1> QED
  BY <1>1, OneStatement
     DEF Lesson_List, Lesson_FindByGroupDate, Lesson_Create, Lesson_Update, Lesson_Delete,
         Lesson_CountRoomConflicts

\* notification_repo.go
LEMMA NotificationTransactions ==
  {Notification_Create, Notification_List, Notification_CountUnread, Notification_MarkRead,
   Notification_MarkAllRead, Notification_StaleTasks, Notification_MarkTaskEscalated,
   Notification_DirectorIDs}
    \subseteq OnceOn(Everyday)
<1>1. {CreateNotification, ListNotifications, CountUnreadNotifications,
       MarkNotificationRead, MarkAllNotificationsRead, ListTasksForEscalation,
       MarkTaskEscalated, ListOrgDirectorIDs} \subseteq StatementsOn(Everyday)
  BY DEF CreateNotification, ListNotifications, CountUnreadNotifications,
         MarkNotificationRead, MarkAllNotificationsRead, ListTasksForEscalation,
         MarkTaskEscalated, ListOrgDirectorIDs, Reads, Writes, Statement, StatementsOn,
         Everyday, Tables, Secured, Unsecured, Money
<1> QED
  BY <1>1, OneStatement
     DEF Notification_Create, Notification_List, Notification_CountUnread,
         Notification_MarkRead, Notification_MarkAllRead, Notification_StaleTasks,
         Notification_MarkTaskEscalated, Notification_DirectorIDs

\* obstacle_repo.go
LEMMA ObstacleTransactions ==
  {Obstacle_List, Obstacle_Create, Obstacle_Delete}
    \subseteq OnceOn(Everyday)
<1>1. {ListObstacleOptions, CreateObstacleOption, DeleteObstacleOption}
         \subseteq StatementsOn(Everyday)
  BY DEF ListObstacleOptions, CreateObstacleOption, DeleteObstacleOption, Reads, Writes,
         Statement, StatementsOn, Everyday, Tables, Secured, Unsecured, Money
<1> QED
  BY <1>1, OneStatement
     DEF Obstacle_List, Obstacle_Create, Obstacle_Delete

\* plan_repo.go
LEMMA PlanTransactions ==
  {Plan_ListActive, Plan_ListAll, Plan_Create, Plan_Update, Plan_Delete}
    \subseteq OnceOn(Everyday)
<1>1. {ListActivePlans, ListAllPlans, CreatePlan, UpdatePlan, DeletePlan}
         \subseteq StatementsOn(Unsecured)
  BY DEF ListActivePlans, ListAllPlans, CreatePlan, UpdatePlan, DeletePlan, Reads, Writes,
         Statement, StatementsOn, Unsecured
<1> QED
  BY <1>1, OnThePool
     DEF Plan_ListActive, Plan_ListAll, Plan_Create, Plan_Update, Plan_Delete

\* points_repo.go
LEMMA PointsTransactions ==
  {Points_Award, Points_GetConfig, Points_SetConfig, Points_Leaderboard,
   Points_LeaderboardByGroup}
    \subseteq OnceOn(Everyday)
<1>1. {LockStudentXp, InsertPointsIfNew, AddStudentPoints, LeaderboardOrg, LeaderboardGroup}
         \subseteq StatementsOn(Everyday)
  BY DEF LockStudentXp, InsertPointsIfNew, AddStudentPoints, LeaderboardOrg,
         LeaderboardGroup, Reads, Writes, Statement, StatementsOn, Everyday, Tables,
         Secured, Unsecured, Money
<1>2. {GetGamification, SetGamification} \subseteq StatementsOn(Unsecured)
  BY DEF GetGamification, SetGamification, Reads, Writes, Statement, StatementsOn, Unsecured
<1>3. {<<Do(LockStudentXp), Do(InsertPointsIfNew), Maybe(AddStudentPoints)>>}
       \subseteq Seq(StepsOn(Everyday))
  BY <1>1, StepTypes
<1> QED
  BY <1>1, <1>2, OneStatement, OnThePool, <1>3, TenantFirst
     DEF Points_Award, Points_GetConfig, Points_SetConfig, Points_Leaderboard,
         Points_LeaderboardByGroup

\* room_repo.go
LEMMA RoomTransactions ==
  {Room_List, Room_Create, Room_Update, Room_Delete}
    \subseteq OnceOn(Everyday)
<1>1. {ListRooms, CreateRoom, UpdateRoom, DeleteRoom} \subseteq StatementsOn(Everyday)
  BY DEF ListRooms, CreateRoom, UpdateRoom, DeleteRoom, Reads, Writes, Statement,
         StatementsOn, Everyday, Tables, Secured, Unsecured, Money
<1> QED
  BY <1>1, OneStatement
     DEF Room_List, Room_Create, Room_Update, Room_Delete

\* salary_repo.go
LEMMA SalaryTransactions ==
  {Salary_GroupBasis}
    \subseteq OnceOn(Everyday)
<1>1. {TeacherGroupBasis} \subseteq StatementsOn(Everyday)
  BY DEF TeacherGroupBasis, Reads, Statement, StatementsOn, Everyday, Tables, Secured,
         Unsecured, Money
<1> QED
  BY <1>1, OneStatement
     DEF Salary_GroupBasis

\* salary_repo.go: the rules and the slips.
LEMMA SalaryMoneyTransactions ==
  {Salary_GetRule, Salary_SetRule, Salary_ListGroupRules, Salary_ReplaceGroupRules,
   Salary_CreateSlip, Salary_ListSlips, Salary_MarkPaid, Salary_DeleteSlip}
    \subseteq OnceOn(Tables)
<1>1. {GetSalaryRule, UpsertSalaryRule, ListSalaryGroupRules, DeleteTeacherGroupRules,
       InsertSalaryGroupRule, CreateSalarySlip, ListSalarySlips, MarkSalarySlipPaid,
       GetUserByID, CreateExpense, DeleteSalarySlip} \subseteq StatementsOn(Tables)
  BY DEF GetSalaryRule, UpsertSalaryRule, ListSalaryGroupRules, DeleteTeacherGroupRules,
         InsertSalaryGroupRule, CreateSalarySlip, ListSalarySlips, MarkSalarySlipPaid,
         GetUserByID, CreateExpense, DeleteSalarySlip, Reads, Writes, Statement,
         StatementsOn, Tables, Secured, Unsecured
<1>2. {<<Do(DeleteTeacherGroupRules), Each(InsertSalaryGroupRule)>>,
       <<Do(MarkSalarySlipPaid), Do(GetUserByID), Do(CreateExpense)>>}
       \subseteq Seq(StepsOn(Tables))
  BY <1>1, StepTypes
<1> QED
  BY <1>1, OneStatement, <1>2, TenantFirst
     DEF Salary_GetRule, Salary_SetRule, Salary_ListGroupRules, Salary_ReplaceGroupRules,
         Salary_CreateSlip, Salary_ListSlips, Salary_MarkPaid, Salary_DeleteSlip

\* shop_repo.go
LEMMA ShopTransactions ==
  {Shop_CreateItem, Shop_ListItems, Shop_UpdateItem, Shop_DeleteItem, Shop_ListForStudent,
   Shop_BuyItem, Shop_GetItem}
    \subseteq OnceOn(Everyday)
<1>1. {CreateShopItem, ListShopItems, UpdateShopItem, DeleteShopItem, ListShopForStudent,
       InsertPurchase, SpendStudentCoins, InsertPointsIfNew, GetShopItem}
         \subseteq StatementsOn(Everyday)
  BY DEF CreateShopItem, ListShopItems, UpdateShopItem, DeleteShopItem, ListShopForStudent,
         InsertPurchase, SpendStudentCoins, InsertPointsIfNew, GetShopItem, Reads, Writes,
         Statement, StatementsOn, Everyday, Tables, Secured, Unsecured, Money
<1>2. {<<Do(InsertPurchase), Do(SpendStudentCoins), Do(InsertPointsIfNew)>>}
       \subseteq Seq(StepsOn(Everyday))
  BY <1>1, StepTypes
<1> QED
  BY <1>1, OneStatement, <1>2, TenantFirst
     DEF Shop_CreateItem, Shop_ListItems, Shop_UpdateItem, Shop_DeleteItem,
         Shop_ListForStudent, Shop_BuyItem, Shop_GetItem

\* signup_repo.go
LEMMA SignupTransactions ==
  {Signup_Create, Signup_List, Signup_SetStatus}
    \subseteq OnceOn(Everyday)
<1>1. {CreateSignupRequest, ListSignupRequests, UpdateSignupRequestStatus}
         \subseteq StatementsOn(Unsecured)
  BY DEF CreateSignupRequest, ListSignupRequests, UpdateSignupRequestStatus, Reads, Writes,
         Statement, StatementsOn, Unsecured
<1> QED
  BY <1>1, OnThePool
     DEF Signup_Create, Signup_List, Signup_SetStatus

\* staff_repo.go
LEMMA StaffTransactions ==
  {Staff_Create, Staff_List, Staff_Update, Staff_SetPassword, Staff_Delete}
    \subseteq OnceOn(Everyday)
<1>1. {CreateStaffUser, ListStaffUsers, UpdateStaffUser, UpdateUserPassword,
       DeleteStaffUser} \subseteq StatementsOn(Everyday)
  BY DEF CreateStaffUser, ListStaffUsers, UpdateStaffUser, UpdateUserPassword,
         DeleteStaffUser, Reads, Writes, Statement, StatementsOn, Everyday, Tables, Secured,
         Unsecured, Money
<1> QED
  BY <1>1, OneStatement
     DEF Staff_Create, Staff_List, Staff_Update, Staff_SetPassword, Staff_Delete

\* student_repo.go
LEMMA StudentTransactions ==
  {Student_Create, Student_Update, Student_List, Student_GetByID, Student_SetLoginPassword,
   Student_GetPasswordHash, Student_Profile, Student_AddNote, Student_Delete,
   Student_AssignGroup, Student_ListByGroup, Student_ListNotes}
    \subseteq OnceOn(Everyday)
<1>1. {CreateStudent, UpdateStudent, ListStudents, GetStudent, SetStudentLoginPassword,
       GetStudentPasswordHash, GetStudentForApp, CreateNote, DeleteStudent,
       AssignStudentGroup, ListStudentsInGroup, ListNotesByStudent}
         \subseteq StatementsOn(Everyday)
  BY DEF CreateStudent, UpdateStudent, ListStudents, GetStudent, SetStudentLoginPassword,
         GetStudentPasswordHash, GetStudentForApp, CreateNote, DeleteStudent,
         AssignStudentGroup, ListStudentsInGroup, ListNotesByStudent, Reads, ReadsInto,
         Writes, Statement, StatementsOn, Everyday, Tables, Secured, Unsecured, Money
<1> QED
  BY <1>1, OneStatement
     DEF Student_Create, Student_Update, Student_List, Student_GetByID,
         Student_SetLoginPassword, Student_GetPasswordHash, Student_Profile,
         Student_AddNote, Student_Delete, Student_AssignGroup, Student_ListByGroup,
         Student_ListNotes

\* studentauth_repo.go
LEMMA StudentauthTransactions ==
  {StudentAuth_LookupByPhone}
    \subseteq OnceOn(Everyday)
<1>1. {StudentAuthLookup} \subseteq StatementsOn(Unsecured)
  BY DEF StudentAuthLookup, Reads, Statement, StatementsOn, Unsecured
<1> QED
  BY <1>1, OnThePool
     DEF StudentAuth_LookupByPhone

\* superadmin_repo.go
LEMMA SuperadminTransactions ==
  {Superadmin_ListCenters, Superadmin_GetCenter, Superadmin_statsFor,
   Superadmin_UpdateCenter, Superadmin_SetBilling}
    \subseteq OnceOn(Everyday)
<1>1. {CountStudentsInOrg, CountUsersInOrg, CountStudentsByTier}
         \subseteq StatementsOn(Everyday)
  BY DEF CountStudentsInOrg, CountUsersInOrg, CountStudentsByTier, Reads, Statement,
         StatementsOn, Everyday, Tables, Secured, Unsecured, Money
<1>2. {ListAllOrganizations, GetOrganizationByID, UpdateOrgPlanStatus, UpdateOrgBilling}
         \subseteq StatementsOn(Unsecured)
  BY DEF ListAllOrganizations, GetOrganizationByID, UpdateOrgPlanStatus, UpdateOrgBilling,
         Reads, Writes, Statement, StatementsOn, Unsecured
<1>3. {<<Do(CountStudentsInOrg), Do(CountUsersInOrg), Do(CountStudentsByTier)>>}
       \subseteq Seq(StepsOn(Everyday))
  BY <1>1, StepTypes
<1> QED
  BY <1>1, <1>2, OnThePool, <1>3, TenantFirst
     DEF Superadmin_ListCenters, Superadmin_GetCenter, Superadmin_statsFor,
         Superadmin_UpdateCenter, Superadmin_SetBilling

\* survey_repo.go
LEMMA SurveyTransactions ==
  {Survey_ListByStudent}
    \subseteq OnceOn(Everyday)
<1>1. {ListSurveysByStudent} \subseteq StatementsOn(Everyday)
  BY DEF ListSurveysByStudent, Reads, Statement, StatementsOn, Everyday, Tables, Secured,
         Unsecured, Money
<1> QED
  BY <1>1, OneStatement
     DEF Survey_ListByStudent

\* teacher_repo.go
LEMMA TeacherTransactions ==
  {Teacher_Create, Teacher_List, Teacher_GetByID, Teacher_Update, Teacher_SetPassword,
   Teacher_Delete}
    \subseteq OnceOn(Everyday)
<1>1. {CreateTeacherUser, ListUsersByRole, GetUserByID, UpdateTeacher, UpdateUserPassword,
       DeleteTeacher} \subseteq StatementsOn(Everyday)
  BY DEF CreateTeacherUser, ListUsersByRole, GetUserByID, UpdateTeacher, UpdateUserPassword,
         DeleteTeacher, Reads, Writes, Statement, StatementsOn, Everyday, Tables, Secured,
         Unsecured, Money
<1> QED
  BY <1>1, OneStatement
     DEF Teacher_Create, Teacher_List, Teacher_GetByID, Teacher_Update, Teacher_SetPassword,
         Teacher_Delete

\* auth_repo.go: the center is created, and set, before its administrator is.
LEMMA ProvisionTransaction == Auth_ProvisionOrgWithAdmin \in OnceOn(Everyday)
<1> DEFINE steps == <<Do(CreateOrganization), Do(SetTenant), Do(CreateUser)>>
<1>1. CreateOrganization \in StatementsOn(Everyday) /\ CreateUser \in StatementsOn(Everyday)
  BY DEF CreateOrganization, CreateUser, Writes, Statement, StatementsOn, Everyday, Tables,
         Secured, Unsecured, Money
<1>2. steps \in Seq(StepsOn(Everyday))
  BY <1>1, StepTypes, SetTenantTypes
<1>3. Touches(CreateOrganization) \subseteq Unsecured /\ Touches(SetTenant) \subseteq Unsecured
  BY DEF CreateOrganization, SetTenant, Writes, Statement, Touches, Unsecured
<1>4. Do(CreateOrganization).run = CreateOrganization /\ Do(SetTenant).run = SetTenant
  BY DEF Do
<1>5. Len(steps) = 3 /\ steps[1] = Do(CreateOrganization) /\ steps[2] = Do(SetTenant)
  OBVIOUS
<1> HIDE DEF steps
<1>6. ASSUME NEW n \in 1..3
      PROVE  \/ Touches(steps[n].run) \subseteq Unsecured
             \/ \E m \in 1..(n - 1) : steps[m] = Do(SetTenant)
  <2>1. CASE n \in {1, 2}
    BY <1>3, <1>4, <1>5, <2>1
  <2>2. CASE n = 3
    BY <1>5, <2>2, 2 \in 1..(n - 1)
  <2> QED  BY <2>1, <2>2
<1>7. steps \in Framed(Everyday)
  BY <1>2, <1>5, <1>6 DEF Framed
<1> QED
  BY <1>7, TransactionTypes DEF Auth_ProvisionOrgWithAdmin, WithTx, steps

\* session_repo.go
LEMMA SessionTransactions ==
  {Session_CreateSession, Session_RotateSession, Session_ReplaySession, Session_DeleteExpired}
    \subseteq OnceOn(Everyday)
<1>1. {CreateRefreshSession, LockRefreshSessionByHash, RevokeRefreshSession,
       RevokeAllUserSessions, DeleteExpiredRefreshSessions} \subseteq StatementsOn(Unsecured)
  BY DEF CreateRefreshSession, LockRefreshSessionByHash, RevokeRefreshSession,
         RevokeAllUserSessions, DeleteExpiredRefreshSessions, Reads, Writes, Statement,
         StatementsOn, Unsecured
<1>2. {<<Do(LockRefreshSessionByHash), Do(RevokeRefreshSession), Do(CreateRefreshSession)>>,
       <<Do(LockRefreshSessionByHash), Do(RevokeAllUserSessions)>>}
         \subseteq Seq(StepsOn(Unsecured))
  BY <1>1, StepTypes
<1>3. {Session_RotateSession, Session_ReplaySession} \subseteq OnceOn(Everyday)
  BY <1>2, UnsecuredFramed, TransactionTypes
     DEF Session_RotateSession, Session_ReplaySession, WithTx
<1> QED
  BY <1>1, <1>3, OnThePool DEF Session_CreateSession, Session_DeleteExpired

\* retention_repo.go
LEMMA RetentionTransactions ==
  {Retention_SubmitSurvey, Retention_RecordAttendance, Retention_RecordHomework,
   Retention_RecordAdviceFeedback, Retention_RecomputeStudent}
    \subseteq OnceOn(Everyday)
<1>1. {GetStudent, ListAttendanceByStudent, ListSurveysByStudent, ListHomeworkByStudent,
       UpdateStudentRisk, CreateInterventionTask, UpdateOpenTaskReasons, CreateSurvey,
       CreateAttendance, CreateHomework, CreateAdviceFeedback} \subseteq StatementsOn(Everyday)
  BY DEF GetStudent, ListAttendanceByStudent, ListSurveysByStudent, ListHomeworkByStudent,
         UpdateStudentRisk, CreateInterventionTask, UpdateOpenTaskReasons, CreateSurvey,
         CreateAttendance, CreateHomework, CreateAdviceFeedback, Reads, Writes, Statement,
         StatementsOn, Everyday, Tables, Secured, Unsecured, Money
<1>2. recomputeInTx \in Seq(StepsOn(Everyday))
  BY <1>1, StepTypes DEF recomputeInTx
<1>3. {<<Do(CreateSurvey)>>, <<Do(CreateAttendance)>>, <<Do(CreateHomework)>>}
         \subseteq Seq(StepsOn(Everyday))
  BY <1>1, StepTypes
<1>4. {<<Do(CreateSurvey)>> \o recomputeInTx, <<Do(CreateAttendance)>> \o recomputeInTx,
       <<Do(CreateHomework)>> \o recomputeInTx} \subseteq Seq(StepsOn(Everyday))
  BY <1>2, <1>3
<1> QED
  BY <1>1, <1>2, <1>4, OneStatement, TenantFirst
     DEF Retention_SubmitSurvey, Retention_RecordAttendance, Retention_RecordHomework,
         Retention_RecordAdviceFeedback, Retention_RecomputeStudent

-----------------------------------------------------------------------------
(* Routes of one transaction *)

SoundOn(T) ==
  {r \in RoutesOn(T) : r.ends = {"ok"} /\ \A p \in r.paths : Whole(p) /\ Fresh(p)}

\* The groups of server.go; the one of the money admits nobody of the front desk.
LEMMA GateTypes ==
  /\ {publicAPI, protectedAPI, studentAPI, teachingAPI, financeAPI, paymentsAPI, staffReadAPI,
      centerStaffAPI, directorAPI, teacherAPI, adminAPI, {Job}}
       \subseteq SUBSET (Roles \cup {Nobody, Job})
  /\ financeAPI \cap FrontDesk = {}
<1>1. {publicAPI, protectedAPI, studentAPI, teachingAPI, financeAPI, paymentsAPI, staffReadAPI}
         \subseteq SUBSET (Roles \cup {Nobody, Job})
  BY DEF publicAPI, protectedAPI, studentAPI, teachingAPI, financeAPI, paymentsAPI,
         staffReadAPI, Roles
<1>2. {centerStaffAPI, directorAPI, teacherAPI, adminAPI, {Job}}
         \subseteq SUBSET (Roles \cup {Nobody, Job})
  BY DEF centerStaffAPI, directorAPI, teacherAPI, adminAPI, Roles
<1>3. financeAPI \cap FrontDesk = {}
  BY DEF financeAPI, FrontDesk
<1> QED
  BY <1>1, <1>2, <1>3

\* A path of one transaction.
LEMMA OneTransaction ==
  ASSUME NEW T, NEW t \in OnceOn(T)
  PROVE  <<t>> \in PathsOn(T) /\ Whole(<<t>>) /\ Fresh(<<t>>)
<1>1. t \in TransactionsOn(T) /\ t.times = "once"
  BY DEF OnceOn
<1>2. <<t>> \in PathsOn(T) /\ Len(<<t>>) = 1 /\ <<t>>[1] = t
  BY <1>1 DEF PathsOn
<1>3. Whole(<<t>>)
  BY <1>1, <1>2 DEF Whole
<1>4. Fresh(<<t>>)
  BY <1>2 DEF Fresh
<1> QED
  BY <1>2, <1>3, <1>4

\* A route of one transaction commits once, and knows nothing from before.
LEMMA OneRoute ==
  ASSUME NEW T, NEW t \in OnceOn(T), NEW gate \in SUBSET (Roles \cup {Nobody, Job})
  PROVE  Route(gate, <<t>>) \in SoundOn(T)
BY OneTransaction DEF Route, Branching, RoutesOn, SoundOn

\* Auth: routes of one transaction.
LEMMA AuthSingle ==
  {student_login}
    \subseteq SoundOn(Everyday)
BY OneRoute, GateTypes, StudentauthTransactions
   DEF student_login

\* Admin: routes of one transaction.
LEMMA AdminSingle ==
  {admin_centers_create, public_plans_list, admin_plans_list, admin_plans_create,
   admin_plans_update, admin_plans_delete, public_signup_request,
   admin_signup_requests_list, admin_signup_requests_status}
    \subseteq SoundOn(Everyday)
BY OneRoute, GateTypes, ProvisionTransaction, PlanTransactions, SignupTransactions
   DEF admin_centers_create, public_plans_list, admin_plans_list, admin_plans_create,
       admin_plans_update, admin_plans_delete, public_signup_request,
       admin_signup_requests_list, admin_signup_requests_status

\* Staff: routes of one transaction.
LEMMA StaffSingle ==
  {staff_list, staff_create, staff_set_password}
    \subseteq SoundOn(Everyday)
BY OneRoute, GateTypes, StaffTransactions
   DEF staff_list, staff_create, staff_set_password

\* Students: routes of one transaction.
LEMMA StudentsSingle ==
  {students_list, students_create, students_delete, students_submit_survey,
   students_record_homework, students_add_note, students_ai_advice_feedback}
    \subseteq SoundOn(Everyday)
BY OneRoute, GateTypes, StudentTransactions, RetentionTransactions
   DEF students_list, students_create, students_delete, students_submit_survey,
       students_record_homework, students_add_note, students_ai_advice_feedback

\* Retention: routes of one transaction.
LEMMA RetentionSingle ==
  {intervention_tasks_list, intervention_tasks_resolve, intervention_tasks_start,
   notifications_list, notifications_unread_count, notifications_read,
   notifications_read_all, dashboard_get, analytics_retention}
    \subseteq SoundOn(Everyday)
BY OneRoute, GateTypes, InterventionTransactions, NotificationTransactions,
   DashboardTransactions, AnalyticsTransactions
   DEF intervention_tasks_list, intervention_tasks_resolve, intervention_tasks_start,
       notifications_list, notifications_unread_count, notifications_read,
       notifications_read_all, dashboard_get, analytics_retention

\* Groups: routes of one transaction.
LEMMA GroupsSingle ==
  {groups_list, groups_get, groups_missing_attendance, students_groups, teachers_list,
   teachers_create, teachers_get, teachers_update, teachers_set_password, teachers_delete}
    \subseteq SoundOn(Everyday)
BY OneRoute, GateTypes, GroupTransactions, TeacherTransactions
   DEF groups_list, groups_get, groups_missing_attendance, students_groups, teachers_list,
       teachers_create, teachers_get, teachers_update, teachers_set_password,
       teachers_delete

\* Finance: routes of one transaction.
LEMMA FinanceSingle ==
  {invoice_create, invoice_delete, invoices_generate_monthly, payment_record,
   payment_refund, payment_delete, finance_debtors, group_finance, billing_settings_get,
   billing_settings_update}
    \subseteq SoundOn(Everyday)
BY OneRoute, GateTypes, FinanceTransactions
   DEF invoice_create, invoice_delete, invoices_generate_monthly, payment_record,
       payment_refund, payment_delete, finance_debtors, group_finance, billing_settings_get,
       billing_settings_update

\* FinanceMoney: routes of one transaction.
LEMMA FinanceMoneySingle ==
  {finance_summary, expense_create, expense_delete, salary_rule_get, salary_slips_list,
   salary_slip_create, salary_slip_pay, salary_slip_delete}
    \subseteq SoundOn(Tables)
BY OneRoute, GateTypes, FinanceMoneyTransactions, SalaryMoneyTransactions
   DEF finance_summary, expense_create, expense_delete, salary_rule_get, salary_slips_list,
       salary_slip_create, salary_slip_pay, salary_slip_delete

\* Teaching: routes of one transaction.
LEMMA TeachingSingle ==
  {me_groups}
    \subseteq SoundOn(Everyday)
BY OneRoute, GateTypes, GroupTransactions
   DEF me_groups

\* Gamification: routes of one transaction.
LEMMA GamificationSingle ==
  {gamification_set, shop_items_list, shop_item_create, shop_item_update, shop_item_delete}
    \subseteq SoundOn(Everyday)
BY OneRoute, GateTypes, PointsTransactions, ShopTransactions
   DEF gamification_set, shop_items_list, shop_item_create, shop_item_update,
       shop_item_delete

\* Catalogue: routes of one transaction.
LEMMA CatalogueSingle ==
  {branches_list, branch_create, branch_update, branch_delete, rooms_list, room_create,
   room_update, room_delete, courses_list, courses_create, courses_update, courses_delete,
   enrollments_list, enrollments_create, enrollments_update, enrollments_delete,
   obstacle_options_list, obstacle_options_delete, activities_list, activities_create,
   activities_delete}
    \subseteq SoundOn(Everyday)
BY OneRoute, GateTypes, BranchTransactions, RoomTransactions, CourseTransactions,
   EnrollmentTransactions, ObstacleTransactions, ActivityTransactions
   DEF branches_list, branch_create, branch_update, branch_delete, rooms_list, room_create,
       room_update, room_delete, courses_list, courses_create, courses_update,
       courses_delete, enrollments_list, enrollments_create, enrollments_update,
       enrollments_delete, obstacle_options_list, obstacle_options_delete, activities_list,
       activities_create, activities_delete

\* Leads: routes of one transaction.
LEMMA LeadsSingle ==
  {leads_list, leads_create, leads_update, leads_set_stage, leads_delete, lessons_list,
   lessons_delete, lessons_session_get}
    \subseteq SoundOn(Everyday)
BY OneRoute, GateTypes, LeadTransactions, LessonTransactions
   DEF leads_list, leads_create, leads_update, leads_set_stage, leads_delete, lessons_list,
       lessons_delete, lessons_session_get

\* App: routes of one transaction.
LEMMA AppSingle ==
  {student_my_groups, student_exams, student_homework_list, student_shop_list}
    \subseteq SoundOn(Everyday)
BY OneRoute, GateTypes, GroupTransactions, ExamTransactions, AssignmentTransactions,
   ShopTransactions
   DEF student_my_groups, student_exams, student_homework_list, student_shop_list

\* Jobs: routes of one transaction.
LEMMA JobsSingle ==
  {runSessionReaper}
    \subseteq SoundOn(Everyday)
BY OneRoute, GateTypes, SessionTransactions
   DEF runSessionReaper

-----------------------------------------------------------------------------
(* Routes of several transactions: what they are made of *)

\* How a handler uses a transaction changes none of its statements.
LEMMA Modified ==
  ASSUME NEW T, NEW t \in TransactionsOn(T)
  PROVE  /\ {Sometimes(t), Repeated(t), BestEffort(t), OfTeacher(t), NextCenter(t)}
              \subseteq TransactionsOn(T)
         /\ \A m \in {Sometimes(t), Repeated(t), BestEffort(t), OfTeacher(t), NextCenter(t)} :
               ReadIn(m) = ReadIn(t) /\ WrittenIn(m) = WrittenIn(t)
         /\ Sometimes(t).times = "maybe" /\ BestEffort(t).times = t.times
         /\ OfTeacher(t).times = t.times /\ NextCenter(t).times = t.times
         /\ BestEffort(t).must = FALSE
         /\ Repeated(t).must = t.must /\ Sometimes(t).must = t.must
<1>1. {"teacher"} \in SUBSET Roles
  BY DEF Roles
<1>2. /\ Sometimes(t) \in TransactionsOn(T) /\ Sometimes(t).steps = t.steps
      /\ Sometimes(t).times = "maybe" /\ Sometimes(t).must = t.must
  BY DEF Sometimes, TransactionsOn
<1>3. /\ Repeated(t) \in TransactionsOn(T) /\ Repeated(t).steps = t.steps
      /\ Repeated(t).must = t.must
  BY DEF Repeated, TransactionsOn
<1>4. /\ BestEffort(t) \in TransactionsOn(T) /\ BestEffort(t).steps = t.steps
      /\ BestEffort(t).times = t.times /\ BestEffort(t).must = FALSE
  BY DEF BestEffort, TransactionsOn
<1>5. /\ OfTeacher(t) \in TransactionsOn(T) /\ OfTeacher(t).steps = t.steps
      /\ OfTeacher(t).times = t.times
  BY <1>1 DEF OfTeacher, TransactionsOn
<1>6. /\ NextCenter(t) \in TransactionsOn(T) /\ NextCenter(t).steps = t.steps
      /\ NextCenter(t).times = t.times
  BY DEF NextCenter, TransactionsOn
<1>7. ASSUME NEW m, m.steps = t.steps  PROVE ReadIn(m) = ReadIn(t) /\ WrittenIn(m) = WrittenIn(t)
  BY <1>7 DEF ReadIn, WrittenIn
<1> QED
  BY <1>2, <1>3, <1>4, <1>5, <1>6, <1>7

\* What is allowed on fewer tables is allowed on more.
LEMMA Wider ==
  /\ OnceOn(Everyday) \subseteq OnceOn(Tables)
  /\ RoutesOn(Everyday) \subseteq RoutesOn(Tables)
<1>1. StepsOn(Everyday) \subseteq StepsOn(Tables)
  <2>1. StatementsOn(Everyday) \subseteq StatementsOn(Tables)
    BY DEF StatementsOn, Everyday
  <2> QED  BY <2>1 DEF StepsOn
<1>2. Framed(Everyday) \subseteq Framed(Tables)
  <2>1. Seq(StepsOn(Everyday)) \subseteq Seq(StepsOn(Tables))
    BY <1>1
  <2> QED  BY <2>1 DEF Framed
<1>3. TransactionsOn(Everyday) \subseteq TransactionsOn(Tables)
  BY <1>2 DEF TransactionsOn
<1>4. PathsOn(Everyday) \subseteq PathsOn(Tables)
  BY <1>3 DEF PathsOn
<1> QED
  BY <1>3, <1>4 DEF OnceOn, RoutesOn

\* The checks that many handlers begin with.
LEMMA Helpers ==
  /\ {Config, canManageGroup, ownsStudent, validateTeacher} \subseteq TransactionsOn(Everyday)
  /\ GetCenter \in PathsOn(Everyday) /\ ListCenters \in PathsOn(Everyday)
<1>1. {Points_GetConfig, Group_GetByID, Group_ListForStudent, Teacher_GetByID,
       Superadmin_GetCenter, Superadmin_ListCenters, Superadmin_statsFor}
         \subseteq TransactionsOn(Everyday)
  BY PointsTransactions, GroupTransactions, TeacherTransactions, SuperadminTransactions
     DEF OnceOn
<1>2. {NextCenter(Superadmin_statsFor), Repeated(NextCenter(Superadmin_statsFor))}
         \subseteq TransactionsOn(Everyday)
  <2>1. NextCenter(Superadmin_statsFor) \in TransactionsOn(Everyday)
    BY <1>1, Modified
  <2>2. Repeated(NextCenter(Superadmin_statsFor)) \in TransactionsOn(Everyday)
    BY <2>1, Modified
  <2> QED  BY <2>1, <2>2
<1>3. GetCenter \in PathsOn(Everyday) /\ ListCenters \in PathsOn(Everyday)
  BY <1>1, <1>2 DEF GetCenter, ListCenters, PathsOn
<1> QED
  BY <1>1, <1>3, Modified DEF Config, canManageGroup, ownsStudent, validateTeacher

\* An award, and the reading of its configuration, may follow any path.
LEMMA Awarded ==
  ASSUME NEW path \in PathsOn(Everyday)
  PROVE  Awarding(path) \subseteq PathsOn(Everyday)
<1>1. Points_Award \in TransactionsOn(Everyday)
  BY PointsTransactions DEF OnceOn
<1>2. {Config, BestEffort(Points_Award)} \subseteq TransactionsOn(Everyday)
  BY <1>1, Helpers, Modified
<1>3. /\ <<Config>> \in PathsOn(Everyday)
      /\ <<Config, BestEffort(Points_Award)>> \in PathsOn(Everyday)
  BY <1>2 DEF PathsOn
<1> QED
  BY <1>3 DEF Awarding, PathsOn

\* Auth: routes of several.
LEMMA AuthRoutes ==
  {auth_register, auth_login, admin_login, auth_refresh, me_change_password,
       student_change_password} \subseteq RoutesOn(Everyday)
<1>1. {Auth_SlugExists, Auth_ProvisionOrgWithAdmin, Session_CreateSession, Auth_OrgBySlug,
       Auth_UserByEmailInOrg, Session_RotateSession, Auth_UserByID, Auth_OrgByID,
       Session_ReplaySession, Auth_SetPassword, Student_GetPasswordHash,
       Student_SetLoginPassword} \subseteq TransactionsOn(Everyday)
  BY AuthTransactions, ProvisionTransaction, SessionTransactions, StudentTransactions DEF OnceOn
<1>2. {<<Auth_SlugExists, Auth_ProvisionOrgWithAdmin, Session_CreateSession>>,
       <<Auth_OrgBySlug, Auth_UserByEmailInOrg, Session_CreateSession>>,
       <<Session_RotateSession, Auth_UserByID, Auth_OrgByID>>, <<Session_ReplaySession>>,
       <<Auth_UserByID, Auth_SetPassword>>,
       <<Student_GetPasswordHash, Student_SetLoginPassword>>}
         \subseteq PathsOn(Everyday)
  BY <1>1 DEF PathsOn
<1> QED
  BY <1>2, GateTypes
     DEF auth_register, auth_login, admin_login, auth_refresh, me_change_password,
         student_change_password, Judging, Route, Branching, RoutesOn

\* Admin: routes of several.
LEMMA AdminRoutes ==
  {admin_centers_list, admin_centers_get, admin_centers_update, admin_centers_billing,
       admin_centers_delete, admin_metrics} \subseteq RoutesOn(Everyday)
<1>1. {Superadmin_UpdateCenter, Superadmin_SetBilling}
         \subseteq TransactionsOn(Everyday)
  BY SuperadminTransactions DEF OnceOn
<1>2. {<<Superadmin_UpdateCenter>>, <<Superadmin_SetBilling>>}
         \subseteq PathsOn(Everyday)
  BY <1>1 DEF PathsOn
<1>3. {GetCenter \o <<Superadmin_UpdateCenter>> \o GetCenter,
       GetCenter \o <<Superadmin_SetBilling>> \o GetCenter,
       GetCenter \o <<Superadmin_UpdateCenter>>} \subseteq PathsOn(Everyday)
  BY <1>2, Helpers DEF PathsOn
<1> QED
  BY <1>3, Helpers, GateTypes
     DEF admin_centers_list, admin_centers_get, admin_centers_update, admin_centers_billing,
         admin_centers_delete, admin_metrics, Route, Branching, RoutesOn

\* Staff: routes of several.
LEMMA StaffRoutes ==
  {staff_update, staff_delete} \subseteq RoutesOn(Everyday)
<1>1. {Staff_Update, Staff_List, Staff_Delete} \subseteq TransactionsOn(Everyday)
  BY StaffTransactions DEF OnceOn
<1>2. {<<Staff_Update>>, <<Staff_List, Staff_Update>>, <<Staff_List, Staff_Delete>>}
         \subseteq PathsOn(Everyday)
  BY <1>1 DEF PathsOn
<1> QED
  BY <1>2, GateTypes
     DEF staff_update, staff_delete, Route, Branching, RoutesOn

\* Students: routes of several.
LEMMA StudentsRoutes ==
  {students_set_login_password, students_update, students_get, students_record_attendance,
       students_ai_advice, import_records, maintenance_recompute}
         \subseteq RoutesOn(Everyday)
<1>1. {Student_SetLoginPassword, Student_Update, Retention_RecomputeStudent,
       Student_GetByID, Student_ListNotes, Attendance_ListByStudent, Survey_ListByStudent,
       Homework_ListByStudent, Retention_RecordAttendance, Student_List,
       Retention_RecordHomework} \subseteq TransactionsOn(Everyday)
  BY StudentTransactions, RetentionTransactions, AttendanceTransactions, SurveyTransactions,
     HomeworkTransactions DEF OnceOn
<1>2. {BestEffort(Retention_RecordAttendance), BestEffort(Retention_RecordHomework),
       BestEffort(Retention_RecomputeStudent), Repeated(Retention_RecomputeStudent)}
         \subseteq TransactionsOn(Everyday)
  BY <1>1, Modified
<1>3. {Repeated(BestEffort(Retention_RecordAttendance)),
       Repeated(BestEffort(Retention_RecordHomework))}
         \subseteq TransactionsOn(Everyday)
  BY <1>2, Modified
<1>4. {<<ownsStudent, Student_SetLoginPassword>>,
       <<Student_Update, BestEffort(Retention_RecomputeStudent)>>, <<Student_GetByID,
       Student_ListNotes, Attendance_ListByStudent, Survey_ListByStudent,
       Homework_ListByStudent>>, <<Retention_RecordAttendance>>, <<Student_List,
       Repeated(BestEffort(Retention_RecordAttendance)),
       Repeated(BestEffort(Retention_RecordHomework))>>,
       <<Student_List, Repeated(Retention_RecomputeStudent)>>}
         \subseteq PathsOn(Everyday)
  BY <1>1, <1>2, <1>3, Helpers DEF PathsOn
<1> QED
  BY <1>4, GateTypes, Awarded
     DEF students_set_login_password, students_update, students_get,
         students_record_attendance, students_ai_advice, import_records,
         maintenance_recompute, Route, Branching, RoutesOn

\* Retention: routes of several.
LEMMA RetentionRoutes ==
  {intervention_tasks_assign} \subseteq RoutesOn(Everyday)
<1>1. {Intervention_Assign, Notification_Create} \subseteq TransactionsOn(Everyday)
  BY InterventionTransactions, NotificationTransactions DEF OnceOn
<1>2. {BestEffort(Notification_Create)} \subseteq TransactionsOn(Everyday)
  BY <1>1, Modified
<1>3. {Sometimes(BestEffort(Notification_Create))} \subseteq TransactionsOn(Everyday)
  BY <1>2, Modified
<1>4. {<<Intervention_Assign, Sometimes(BestEffort(Notification_Create))>>}
         \subseteq PathsOn(Everyday)
  BY <1>1, <1>3 DEF PathsOn
<1> QED
  BY <1>4, GateTypes
     DEF intervention_tasks_assign, Route, Branching, RoutesOn

\* Groups: routes of several.
LEMMA GroupsRoutes ==
  {groups_create, groups_update, groups_delete, groups_add_member, groups_remove_member,
       groups_students, students_assign_group} \subseteq RoutesOn(Everyday)
<1>1. {Group_Create, Group_Update, Group_GetByID, Group_Delete, Student_GetByID,
       Group_AddMember, Student_AssignGroup, Group_RemoveMember, Group_ListForStudent,
       Student_ListByGroup} \subseteq TransactionsOn(Everyday)
  BY GroupTransactions, StudentTransactions DEF OnceOn
<1>2. {Sometimes(Student_AssignGroup)} \subseteq TransactionsOn(Everyday)
  BY <1>1, Modified
<1>3. {<<validateTeacher, Group_Create>>, <<validateTeacher, Group_Update>>,
       <<Group_GetByID, Group_Delete>>, <<Student_GetByID, Group_GetByID, Group_AddMember,
       Sometimes(Student_AssignGroup)>>, <<Student_GetByID, Group_RemoveMember>>,
       <<Student_GetByID, Group_RemoveMember, Group_ListForStudent, Student_AssignGroup>>,
       <<Group_GetByID, Student_ListByGroup>>, <<Student_GetByID, Student_AssignGroup>>,
       <<Student_GetByID, Group_GetByID, Student_AssignGroup, Group_AddMember>>}
         \subseteq PathsOn(Everyday)
  BY <1>1, <1>2, Helpers DEF PathsOn
<1> QED
  BY <1>3, GateTypes
     DEF groups_create, groups_update, groups_delete, groups_add_member,
         groups_remove_member, groups_students, students_assign_group, Route, Branching,
         RoutesOn

\* Finance: routes of several.
LEMMA FinanceRoutes ==
  {student_finance, finance_alerts} \subseteq RoutesOn(Everyday)
<1>1. {Finance_ListInvoices, Finance_ListPayments, Finance_StudentBalance,
       Finance_OverdueInvoices, Finance_GraceOverdue, Finance_GetGraceLessons}
         \subseteq TransactionsOn(Everyday)
  BY FinanceTransactions DEF OnceOn
<1>2. {BestEffort(Finance_GetGraceLessons)} \subseteq TransactionsOn(Everyday)
  BY <1>1, Modified
<1>3. {<<Finance_ListInvoices, Finance_ListPayments, Finance_StudentBalance>>,
       <<Finance_OverdueInvoices, Finance_GraceOverdue,
       BestEffort(Finance_GetGraceLessons)>>} \subseteq PathsOn(Everyday)
  BY <1>1, <1>2 DEF PathsOn
<1> QED
  BY <1>3, GateTypes
     DEF student_finance, finance_alerts, Route, Branching, RoutesOn

\* Finance: routes of several, on the money.
LEMMA FinanceRoutesOfMoney ==
  {expenses_list, salary_rule_set, salary_preview} \subseteq RoutesOn(Tables)
<1>1. {Finance_ListExpenses, Finance_ExpensesByCategory, Salary_SetRule,
       Salary_ReplaceGroupRules, Salary_GetRule, Salary_ListGroupRules, Salary_GroupBasis}
         \subseteq TransactionsOn(Tables)
  BY FinanceMoneyTransactions, SalaryMoneyTransactions, SalaryTransactions, Wider DEF OnceOn
<1>2. {Sometimes(Salary_ReplaceGroupRules)} \subseteq TransactionsOn(Tables)
  BY <1>1, Modified
<1>3. {<<Finance_ListExpenses, Finance_ExpensesByCategory>>,
       <<Salary_SetRule, Sometimes(Salary_ReplaceGroupRules)>>,
       <<Salary_GetRule, Salary_ListGroupRules, Salary_GroupBasis>>}
         \subseteq PathsOn(Tables)
  BY <1>1, <1>2 DEF PathsOn
<1> QED
  BY <1>3, GateTypes
     DEF expenses_list, salary_rule_set, salary_preview, Route, Branching, RoutesOn

\* Teaching: routes of several.
LEMMA TeachingRoutes ==
  {homework_create, homework_list, homework_update, homework_delete, homework_submissions,
       homework_grade, exam_create, exam_list, exam_delete, exam_results, exam_grade,
       me_students, me_record_attendance, me_record_homework}
         \subseteq RoutesOn(Everyday)
<1>1. {Assignment_CreateAssignment, Assignment_ListGroupAssignments,
       Assignment_GetAssignment, Assignment_UpdateAssignment, Assignment_DeleteAssignment,
       Assignment_ListSubmissions, Assignment_GroupForSubmission, Assignment_Grade,
       Exam_Create, Exam_ListGroupExams, Exam_GetExam, Exam_DeleteExam, Exam_ListResults,
       Exam_UpsertResult, Group_ListByTeacher, Student_ListByGroup,
       Retention_RecordAttendance, Retention_RecordHomework}
         \subseteq TransactionsOn(Everyday)
  BY AssignmentTransactions, ExamTransactions, GroupTransactions, StudentTransactions,
     RetentionTransactions DEF OnceOn
<1>2. {Repeated(Student_ListByGroup)} \subseteq TransactionsOn(Everyday)
  BY <1>1, Modified
<1>3. {<<canManageGroup, Assignment_CreateAssignment>>,
       <<canManageGroup, Assignment_ListGroupAssignments>>,
       <<Assignment_GetAssignment, canManageGroup, Assignment_UpdateAssignment>>,
       <<Assignment_GetAssignment, canManageGroup, Assignment_DeleteAssignment>>,
       <<Assignment_GetAssignment, canManageGroup, Assignment_ListSubmissions>>,
       <<Assignment_GroupForSubmission, canManageGroup, Assignment_Grade>>,
       <<canManageGroup, Exam_Create>>, <<canManageGroup, Exam_ListGroupExams>>,
       <<Exam_GetExam, canManageGroup, Exam_DeleteExam>>,
       <<Exam_GetExam, canManageGroup, Exam_ListResults>>,
       <<Exam_GetExam, canManageGroup, Exam_UpsertResult>>,
       <<Group_ListByTeacher, Repeated(Student_ListByGroup)>>,
       <<ownsStudent, Retention_RecordAttendance>>,
       <<ownsStudent, Retention_RecordHomework>>} \subseteq PathsOn(Everyday)
  BY <1>1, <1>2, Helpers DEF PathsOn
<1> QED
  BY <1>3, GateTypes, Awarded
     DEF homework_create, homework_list, homework_update, homework_delete,
         homework_submissions, homework_grade, exam_create, exam_list, exam_delete,
         exam_results, exam_grade, me_students, me_record_attendance, me_record_homework,
         Route, Branching, RoutesOn

\* Gamification: routes of several.
LEMMA GamificationRoutes ==
  {gamification_get, student_award_xp, leaderboard} \subseteq RoutesOn(Everyday)
<1>1. {Points_Award, Points_Leaderboard, Points_LeaderboardByGroup}
         \subseteq TransactionsOn(Everyday)
  BY PointsTransactions DEF OnceOn
<1>2. {<<Config>>, <<ownsStudent, Config>>, <<ownsStudent, Config, Points_Award>>,
       <<Points_Leaderboard>>, <<Points_LeaderboardByGroup>>}
         \subseteq PathsOn(Everyday)
  BY <1>1, Helpers DEF PathsOn
<1> QED
  BY <1>2, GateTypes
     DEF gamification_get, student_award_xp, leaderboard, Route, Branching, RoutesOn

\* Catalogue: routes of several.
LEMMA CatalogueRoutes ==
  {obstacle_options_create} \subseteq RoutesOn(Everyday)
<1>1. {Obstacle_List, Obstacle_Create} \subseteq TransactionsOn(Everyday)
  BY ObstacleTransactions DEF OnceOn
<1>2. {<<Obstacle_List, Obstacle_Create>>} \subseteq PathsOn(Everyday)
  BY <1>1 DEF PathsOn
<1> QED
  BY <1>2, GateTypes
     DEF obstacle_options_create, Route, Branching, RoutesOn

\* Leads: routes of several.
LEMMA LeadsRoutes ==
  {leads_convert, lessons_create, lessons_update, lessons_session_save}
         \subseteq RoutesOn(Everyday)
<1>1. {Lead_Get, Student_Create, Lead_MarkConverted, Lesson_CountRoomConflicts,
       Lesson_Create, Lesson_Update, Lesson_FindByGroupDate}
         \subseteq TransactionsOn(Everyday)
  BY LeadTransactions, StudentTransactions, LessonTransactions DEF OnceOn
<1>2. {Sometimes(Lesson_CountRoomConflicts)} \subseteq TransactionsOn(Everyday)
  BY <1>1, Modified
<1>3. {<<Lead_Get, Student_Create, Lead_MarkConverted>>,
       <<Sometimes(Lesson_CountRoomConflicts), Lesson_Create>>,
       <<Sometimes(Lesson_CountRoomConflicts), Lesson_Update>>,
       <<Lesson_FindByGroupDate, Lesson_Update>>, <<Lesson_FindByGroupDate, Lesson_Create>>}
         \subseteq PathsOn(Everyday)
  BY <1>1, <1>2 DEF PathsOn
<1> QED
  BY <1>3, GateTypes
     DEF leads_convert, lessons_create, lessons_update, lessons_session_save, Route,
         Branching, RoutesOn

\* App: routes of several.
LEMMA AppRoutes ==
  {student_me, student_checkin, student_my_finance, student_homework_submit,
       student_shop_buy, student_leaderboard, student_telegram_link, student_chat}
         \subseteq RoutesOn(Everyday)
<1>1. {Student_Profile, Survey_ListByStudent, Retention_SubmitSurvey, Finance_ListInvoices,
       Finance_ListPayments, Finance_StudentBalance, Assignment_GetAssignmentForStudent,
       Assignment_UpsertSubmission, Shop_GetItem, Shop_BuyItem, Points_Leaderboard,
       Points_LeaderboardByGroup, Bot_SetStudentChat, Bot_BindChat}
         \subseteq TransactionsOn(Everyday)
  BY StudentTransactions, SurveyTransactions, RetentionTransactions, FinanceTransactions,
     AssignmentTransactions, ShopTransactions, PointsTransactions, BotTransactions DEF OnceOn
<1>2. {BestEffort(Bot_BindChat)} \subseteq TransactionsOn(Everyday)
  BY <1>1, Modified
<1>3. {<<Student_Profile, Config>>, <<Survey_ListByStudent, Retention_SubmitSurvey>>,
       <<Finance_ListInvoices, Finance_ListPayments, Finance_StudentBalance>>,
       <<Assignment_GetAssignmentForStudent, Assignment_UpsertSubmission>>,
       <<Shop_GetItem, Shop_BuyItem>>, <<Points_Leaderboard>>,
       <<Points_LeaderboardByGroup>>, <<Bot_SetStudentChat, BestEffort(Bot_BindChat)>>,
       <<>>} \subseteq PathsOn(Everyday)
  BY <1>1, <1>2, Helpers DEF PathsOn
<1> QED
  BY <1>3, GateTypes, Awarded
     DEF student_me, student_checkin, student_my_finance, student_homework_submit,
         student_shop_buy, student_leaderboard, student_telegram_link, student_chat, Route,
         Branching, RoutesOn

\* The background jobs: whatever fails, they go on.
LEMMA JobRoutes ==
  {RemindHomeworkAllTenants, RunDaily, RunWeekly} \subseteq RoutesOn(Everyday)
<1>1. {Auth_AllOrgIDs, Student_List, Retention_RecomputeStudent, Notification_StaleTasks,
       Notification_DirectorIDs, Notification_Create, Notification_MarkTaskEscalated,
       Bot_DueHomeworkReminders, Bot_MarkHomeworkReminded, Bot_ListLinkedChats}
         \subseteq TransactionsOn(Everyday)
  BY AuthTransactions, StudentTransactions, RetentionTransactions, NotificationTransactions,
     BotTransactions DEF OnceOn
<1>2. ASSUME NEW t \in TransactionsOn(Everyday)
      PROVE  Repeated(BestEffort(t)) \in TransactionsOn(Everyday)
  <2>1. BestEffort(t) \in TransactionsOn(Everyday)
    BY Modified
  <2> QED  BY <2>1, Modified
<1>3. {NextCenter(Student_List), NextCenter(Notification_StaleTasks),
       NextCenter(Bot_DueHomeworkReminders)} \subseteq TransactionsOn(Everyday)
  BY <1>1, Modified
<1>4. RecomputeAllTenants \in PathsOn(Everyday)
  BY <1>1, <1>2, <1>3 DEF RecomputeAllTenants, PathsOn
<1>5. EscalateAllTenants \in PathsOn(Everyday)
  BY <1>1, <1>2, <1>3 DEF EscalateAllTenants, PathsOn
<1>6. <<Auth_AllOrgIDs, Repeated(BestEffort(NextCenter(Bot_DueHomeworkReminders))),
        Repeated(BestEffort(Bot_MarkHomeworkReminded))>> \in PathsOn(Everyday)
  BY <1>1, <1>2, <1>3 DEF PathsOn
<1>7. <<Bot_ListLinkedChats>> \in PathsOn(Everyday)
  BY <1>1 DEF PathsOn
<1>8. {RecomputeAllTenants \o EscalateAllTenants,
       RecomputeAllTenants \o EscalateAllTenants \o <<Bot_ListLinkedChats>>}
         \subseteq PathsOn(Everyday)
  BY <1>4, <1>5, <1>7 DEF PathsOn
<1> QED
  BY <1>6, <1>8, GateTypes
     DEF RemindHomeworkAllTenants, RunDaily, RunWeekly, Route, Branching, RoutesOn

-----------------------------------------------------------------------------
(* What a transaction reads and writes *)

\* A transaction that runs once, reads the tables R and writes the tables W.
Footprint(t, R, W) == t.times = "once" /\ ReadIn(t) = R /\ WrittenIn(t) = W

\* The tables the risk of a student is computed from.
Signals == {"students", "attendance_records", "surveys", "homework_records"}

ReadBy(steps) == UNION {steps[n].run.reads : n \in 1..Len(steps)}
WrittenBy(steps) == UNION {steps[n].run.writes : n \in 1..Len(steps)}

\* One statement more at the beginning of a transaction.
LEMMA Preceded ==
  ASSUME NEW S, NEW steps \in Seq(S), NEW x
  PROVE  /\ <<x>> \o steps \in Seq(S \cup {x})
         /\ ReadBy(<<x>> \o steps) = x.run.reads \cup ReadBy(steps)
         /\ WrittenBy(<<x>> \o steps) = x.run.writes \cup WrittenBy(steps)
<1> DEFINE all == <<x>> \o steps
<1>1. steps \in Seq(S \cup {x})
  OBVIOUS
<1>2. /\ all \in Seq(S \cup {x})
      /\ Len(steps) \in Nat /\ Len(all) = Len(steps) + 1 /\ all[1] = x
      /\ \A n \in 1..Len(steps) : all[n + 1] = steps[n]
  BY <1>1
<1> HIDE DEF all
<1>3. ASSUME NEW m \in 1..Len(all), m # 1
      PROVE  m - 1 \in 1..Len(steps) /\ all[m] = steps[m - 1]
  BY <1>2, <1>3
<1>4. ASSUME NEW n \in 1..Len(steps)
      PROVE  n + 1 \in 1..Len(all) /\ all[n + 1] = steps[n]
  BY <1>2
<1>5. 1 \in 1..Len(all)
  BY <1>2
<1>6. ReadBy(all) = x.run.reads \cup ReadBy(steps)
  <2>1. ASSUME NEW y \in ReadBy(all)  PROVE y \in x.run.reads \/ y \in ReadBy(steps)
    <3>1. PICK m \in 1..Len(all) : y \in all[m].run.reads
      BY DEF ReadBy
    <3> QED  BY <1>2, <1>3, <3>1 DEF ReadBy
  <2>2. ASSUME NEW y \in ReadBy(steps)  PROVE y \in ReadBy(all)
    <3>1. PICK n \in 1..Len(steps) : y \in steps[n].run.reads
      BY DEF ReadBy
    <3> QED  BY <1>4, <3>1 DEF ReadBy
  <2>3. x.run.reads \subseteq ReadBy(all)
    BY <1>2, <1>5 DEF ReadBy
  <2> QED  BY <2>1, <2>2, <2>3
<1>7. WrittenBy(all) = x.run.writes \cup WrittenBy(steps)
  <2>1. ASSUME NEW y \in WrittenBy(all)  PROVE y \in x.run.writes \/ y \in WrittenBy(steps)
    <3>1. PICK m \in 1..Len(all) : y \in all[m].run.writes
      BY DEF WrittenBy
    <3> QED  BY <1>2, <1>3, <3>1 DEF WrittenBy
  <2>2. ASSUME NEW y \in WrittenBy(steps)  PROVE y \in WrittenBy(all)
    <3>1. PICK n \in 1..Len(steps) : y \in steps[n].run.writes
      BY DEF WrittenBy
    <3> QED  BY <1>4, <3>1 DEF WrittenBy
  <2>3. x.run.writes \subseteq WrittenBy(all)
    BY <1>2, <1>5 DEF WrittenBy
  <2> QED  BY <2>1, <2>2, <2>3
<1> QED
  BY <1>2, <1>6, <1>7 DEF all

\* SetTenant adds nothing to what the transaction reads and writes.
LEMMA TenantFootprint ==
  ASSUME NEW S, NEW steps \in Seq(S)
  PROVE  Footprint(WithTenant(steps), ReadBy(steps), WrittenBy(steps))
<1> DEFINE all == <<Do(SetTenant)>> \o steps
<1>1. WithTenant(steps).steps = all /\ WithTenant(steps).times = "once"
  BY DEF WithTenant, WithTx, Transaction
<1>2. Do(SetTenant).run.reads = {} /\ Do(SetTenant).run.writes = {}
  BY DEF Do, SetTenant, Statement
<1>3. ReadBy(all) = ReadBy(steps) /\ WrittenBy(all) = WrittenBy(steps)
  <2>1. /\ ReadBy(all) = Do(SetTenant).run.reads \cup ReadBy(steps)
        /\ WrittenBy(all) = Do(SetTenant).run.writes \cup WrittenBy(steps)
    BY Preceded
  <2> HIDE DEF all
  <2> QED  BY <1>2, <2>1
<1> QED
  BY <1>1, <1>3 DEF Footprint, ReadIn, WrittenIn, ReadBy, WrittenBy

\* The transaction of one statement reads and writes what the statement does.
LEMMA OneFootprint ==
  ASSUME NEW R, NEW W, NEW sets
  PROVE  /\ Footprint(Tenant(Statement(R, W, sets)), R, W)
         /\ Footprint(Pooled(Statement(R, W, sets)), R, W)
<1> DEFINE s == Statement(R, W, sets)
           steps == <<Do(s)>>
<1>1. steps \in Seq({Do(s)}) /\ Len(steps) = 1 /\ steps[1].run = s
  BY DEF Do
<1>2. s.reads = R /\ s.writes = W
  BY DEF Statement
<1> HIDE DEF s, steps
<1>3. ReadBy(steps) = R /\ WrittenBy(steps) = W
  <2>1. \A n \in 1..Len(steps) : n = 1
    BY <1>1
  <2> QED  BY <1>1, <1>2, <2>1 DEF ReadBy, WrittenBy
<1>4. Footprint(WithTenant(steps), R, W)
  BY <1>1, <1>3, TenantFootprint
<1>5. Transaction(FALSE, steps).steps = steps /\ Transaction(FALSE, steps).times = "once"
  BY DEF Transaction
<1>6. Footprint(Transaction(FALSE, steps), R, W)
  BY <1>3, <1>5 DEF Footprint, ReadIn, WrittenIn, ReadBy, WrittenBy
<1> QED
  BY <1>4, <1>6 DEF Tenant, Pooled, s, steps

\* Looking something up.
LEMMA LookupFootprints ==
  /\ Footprint(Auth_OrgBySlug, {"organizations"}, {})
  /\ Footprint(Auth_UserByEmailInOrg, {"users"}, {})
  /\ Footprint(Auth_UserByID, {"users"}, {})
  /\ Footprint(Auth_OrgByID, {"organizations"}, {})
  /\ Footprint(Student_GetPasswordHash, {"students"}, {})
  /\ Footprint(Student_List, {"students"}, {})
  /\ Footprint(Student_GetByID, {"students"}, {})
  /\ Footprint(Student_Profile, {"students"}, {})
  /\ Footprint(Staff_List, {"users"}, {})
  /\ Footprint(Group_GetByID, {"groups"}, {})
  /\ Footprint(Group_ListForStudent, {"group_members", "groups"}, {})
  /\ Footprint(Group_ListByTeacher, {"groups"}, {})
  /\ Footprint(Teacher_GetByID, {"users"}, {})
  /\ Footprint(Superadmin_GetCenter, {"organizations"}, {})
  /\ Footprint(Superadmin_ListCenters, {"organizations"}, {})
  /\ Footprint(Points_GetConfig, {"organizations"}, {})
  /\ Footprint(Obstacle_List, {"obstacle_options"}, {})
  /\ Footprint(Lesson_CountRoomConflicts, {"lessons"}, {})
  /\ Footprint(Lesson_FindByGroupDate, {"lessons"}, {})
  /\ Footprint(Survey_ListByStudent, {"surveys"}, {})
  /\ Footprint(Shop_GetItem, {"shop_items"}, {})
BY OneFootprint
   DEF Auth_OrgBySlug, GetOrganizationBySlug, Auth_UserByEmailInOrg, GetUserByEmail,
       Auth_UserByID, GetUserByID, Auth_OrgByID, GetOrganizationByID,
       Student_GetPasswordHash, GetStudentPasswordHash, Student_List, ListStudents,
       Student_GetByID, GetStudent, Student_Profile, GetStudentForApp, Staff_List,
       ListStaffUsers, Group_GetByID, GetGroup, Group_ListForStudent, ListGroupsForStudent,
       Group_ListByTeacher, ListGroupsByTeacher, Teacher_GetByID, Superadmin_GetCenter,
       Superadmin_ListCenters, ListAllOrganizations, Points_GetConfig, GetGamification,
       Obstacle_List, ListObstacleOptions, Lesson_CountRoomConflicts, CountRoomConflicts,
       Lesson_FindByGroupDate, GetLessonByGroupDate, Survey_ListByStudent,
       ListSurveysByStudent, Shop_GetItem, GetShopItem, Reads, Writes

\* Homework and exams.
LEMMA WorkFootprints ==
  /\ Footprint(Assignment_GetAssignment, {"homework_assignments"}, {})
  /\ Footprint(Assignment_GroupForSubmission, {"homework_assignments", "homework_submissions"},
               {})
  /\ Footprint(Assignment_GetAssignmentForStudent, {"group_members", "homework_assignments"},
               {})
  /\ Footprint(Assignment_ListGroupAssignments, {"homework_assignments", "homework_submissions"},
               {})
  /\ Footprint(Assignment_ListSubmissions, {"homework_submissions", "students"}, {})
  /\ Footprint(Exam_GetExam, {"exams"}, {})
  /\ Footprint(Exam_ListGroupExams, {"exam_results", "exams"}, {})
  /\ Footprint(Exam_ListResults, {"exam_results", "students"}, {})
  /\ Footprint(Assignment_CreateAssignment, {}, {"homework_assignments"})
  /\ Footprint(Assignment_UpdateAssignment, {}, {"homework_assignments"})
  /\ Footprint(Assignment_DeleteAssignment, {}, {"homework_assignments"})
  /\ Footprint(Assignment_Grade, {}, {"homework_submissions"})
  /\ Footprint(Assignment_UpsertSubmission, {}, {"homework_submissions"})
  /\ Footprint(Exam_Create, {}, {"exams"})
  /\ Footprint(Exam_DeleteExam, {}, {"exams"})
  /\ Footprint(Exam_UpsertResult, {}, {"exam_results"})
BY OneFootprint
   DEF Assignment_GetAssignment, GetAssignment, Assignment_GroupForSubmission,
       GetSubmissionGroup, Assignment_GetAssignmentForStudent, GetAssignmentForStudent,
       Assignment_ListGroupAssignments, ListGroupAssignments, Assignment_ListSubmissions,
       ListAssignmentSubmissions, Exam_GetExam, GetExam, Exam_ListGroupExams,
       ListGroupExams, Exam_ListResults, ListExamResults, Assignment_CreateAssignment,
       CreateHomeworkAssignment, Assignment_UpdateAssignment, UpdateHomeworkAssignment,
       Assignment_DeleteAssignment, DeleteAssignment, Assignment_Grade, GradeSubmission,
       Assignment_UpsertSubmission, UpsertSubmission, Exam_Create, CreateExam,
       Exam_DeleteExam, DeleteExam, Exam_UpsertResult, UpsertExamResult, Reads, Writes

\* What the other routes that only read are made of.
LEMMA ListFootprints ==
  \A t \in {Student_ListNotes, Attendance_ListByStudent, Homework_ListByStudent,
               Student_ListByGroup, Finance_ListInvoices, Finance_ListPayments,
               Finance_StudentBalance, Finance_OverdueInvoices, Finance_GraceOverdue,
               Finance_GetGraceLessons, Finance_ListExpenses, Finance_ExpensesByCategory,
               Salary_GetRule, Salary_ListGroupRules, Salary_GroupBasis} :
     WrittenIn(t) = {}
BY OneFootprint
   DEF Student_ListNotes, ListNotesByStudent, Attendance_ListByStudent,
       ListAttendanceByStudent, Homework_ListByStudent, ListHomeworkByStudent,
       Student_ListByGroup, ListStudentsInGroup, Finance_ListInvoices,
       ListInvoicesByStudent, Finance_ListPayments, ListPaymentsByStudent,
       Finance_StudentBalance, StudentBalance, Finance_OverdueInvoices, OverdueInvoices,
       Finance_GraceOverdue, GraceOverdueStudents, Finance_GetGraceLessons,
       GetGraceLessons, Finance_ListExpenses, ListExpenses, Finance_ExpensesByCategory,
       ExpensesByCategory, Salary_GetRule, GetSalaryRule, Salary_ListGroupRules,
       ListSalaryGroupRules, Salary_GroupBasis, TeacherGroupBasis, Reads, Footprint

\* Writing one table.
LEMMA WriteFootprints ==
  /\ Footprint(Session_CreateSession, {}, {"refresh_sessions"})
  /\ Footprint(Auth_SetPassword, {}, {"users"})
  /\ Footprint(Student_SetLoginPassword, {}, {"students"})
  /\ Footprint(Student_Update, {}, {"students"})
  /\ Footprint(Superadmin_UpdateCenter, {}, {"organizations"})
  /\ Footprint(Staff_Update, {}, {"users"})
  /\ Footprint(Staff_Delete, {}, {"users"})
  /\ Footprint(Group_Create, {}, {"groups"})
  /\ Footprint(Group_Update, {}, {"groups"})
  /\ Footprint(Intervention_Assign, {}, {"intervention_tasks"})
  /\ Footprint(Notification_Create, {}, {"notifications"})
  /\ Footprint(Obstacle_Create, {}, {"obstacle_options"})
  /\ Footprint(Lesson_Create, {}, {"lessons"})
  /\ Footprint(Lesson_Update, {}, {"lessons"})
  /\ Footprint(Bot_SetStudentChat, {}, {"students"})
  /\ Footprint(Bot_BindChat, {}, {"bot_conversations"})
  /\ Footprint(Salary_SetRule, {}, {"salary_rules"})
BY OneFootprint
   DEF Session_CreateSession, CreateRefreshSession, Auth_SetPassword, UpdateUserPassword,
       Student_SetLoginPassword, SetStudentLoginPassword, Student_Update, UpdateStudent,
       Superadmin_UpdateCenter, UpdateOrgPlanStatus, Staff_Update, UpdateStaffUser,
       Staff_Delete, DeleteStaffUser, Group_Create, CreateGroup, Group_Update, UpdateGroup,
       Intervention_Assign, AssignInterventionTask, Notification_Create,
       CreateNotification, Obstacle_Create, CreateObstacleOption, Lesson_Create,
       CreateLesson, Lesson_Update, UpdateLesson, Bot_SetStudentChat,
       SetStudentTelegramChat, Bot_BindChat, BindBotChat, Salary_SetRule, UpsertSalaryRule,
       Reads, Writes

\* What a signal reads, and what it writes besides itself.
LEMMA RecomputeFootprints ==
  /\ Footprint(Retention_RecomputeStudent, Signals, {"students", "intervention_tasks"})
  /\ Footprint(Retention_SubmitSurvey, Signals,
               {"surveys", "students", "intervention_tasks"})
  /\ Footprint(Retention_RecordAttendance, Signals,
               {"attendance_records", "students", "intervention_tasks"})
  /\ Footprint(Retention_RecordHomework, Signals,
               {"homework_records", "students", "intervention_tasks"})
<1>1. /\ Do(GetStudent).run.reads = {"students"} /\ Do(GetStudent).run.writes = {}
      /\ Do(ListAttendanceByStudent).run.reads = {"attendance_records"}
      /\ Do(ListAttendanceByStudent).run.writes = {}
      /\ Do(ListSurveysByStudent).run.reads = {"surveys"}
      /\ Do(ListSurveysByStudent).run.writes = {}
      /\ Do(ListHomeworkByStudent).run.reads = {"homework_records"}
      /\ Do(ListHomeworkByStudent).run.writes = {}
      /\ Do(UpdateStudentRisk).run.reads = {} /\ Do(UpdateStudentRisk).run.writes = {"students"}
  BY DEF Do, GetStudent, ListAttendanceByStudent, ListSurveysByStudent, ListHomeworkByStudent,
         UpdateStudentRisk, Reads, Writes, Statement
<1>2. /\ Maybe(CreateInterventionTask).run.reads = {}
      /\ Maybe(CreateInterventionTask).run.writes = {"intervention_tasks"}
      /\ Maybe(UpdateOpenTaskReasons).run.reads = {}
      /\ Maybe(UpdateOpenTaskReasons).run.writes = {"intervention_tasks"}
  BY DEF Maybe, CreateInterventionTask, UpdateOpenTaskReasons, Writes, Statement
<1> DEFINE S == {Do(GetStudent), Do(ListAttendanceByStudent), Do(ListSurveysByStudent),
                 Do(ListHomeworkByStudent), Do(UpdateStudentRisk),
                 Maybe(CreateInterventionTask), Maybe(UpdateOpenTaskReasons)}
<1>3. /\ recomputeInTx \in Seq(S) /\ Len(recomputeInTx) = 7
      /\ recomputeInTx[1] = Do(GetStudent) /\ recomputeInTx[2] = Do(ListAttendanceByStudent)
      /\ recomputeInTx[3] = Do(ListSurveysByStudent)
      /\ recomputeInTx[4] = Do(ListHomeworkByStudent)
      /\ recomputeInTx[5] = Do(UpdateStudentRisk)
      /\ recomputeInTx[6] = Maybe(CreateInterventionTask)
      /\ recomputeInTx[7] = Maybe(UpdateOpenTaskReasons)
  BY DEF recomputeInTx
<1>4. /\ ReadBy(recomputeInTx) = Signals
      /\ WrittenBy(recomputeInTx) = {"students", "intervention_tasks"}
  <2>1. \A n \in 1..7 : \/ n = 1 \/ n = 2 \/ n = 3 \/ n = 4 \/ n = 5 \/ n = 6 \/ n = 7
    OBVIOUS
  <2>2. ReadBy(recomputeInTx) = Signals
    BY <1>1, <1>2, <1>3, <2>1 DEF Signals, ReadBy
  <2>3. WrittenBy(recomputeInTx) = {"students", "intervention_tasks"}
    BY <1>1, <1>2, <1>3, <2>1 DEF WrittenBy
  <2> QED  BY <2>2, <2>3
<1> HIDE DEF S
<1>5. ASSUME NEW table, NEW s, s = Statement({}, {table}, "nothing")
      PROVE  Footprint(WithTenant(<<Do(s)>> \o recomputeInTx), Signals,
                       {table, "students", "intervention_tasks"})
  <2> DEFINE all == <<Do(s)>> \o recomputeInTx
  <2>1. Do(s).run.reads = {} /\ Do(s).run.writes = {table}
    BY <1>5 DEF Do, Statement
  <2>2. /\ all \in Seq(S \cup {Do(s)})
        /\ ReadBy(all) = Do(s).run.reads \cup ReadBy(recomputeInTx)
        /\ WrittenBy(all) = Do(s).run.writes \cup WrittenBy(recomputeInTx)
    BY <1>3, Preceded
  <2> HIDE DEF all
  <2>3. Footprint(WithTenant(all), ReadBy(all), WrittenBy(all))
    BY <2>2, TenantFootprint
  <2>4. ReadBy(all) = Signals /\ WrittenBy(all) = {table, "students", "intervention_tasks"}
    BY <1>4, <2>1, <2>2
  <2> QED  BY <2>3, <2>4 DEF all
<1>6. Footprint(WithTenant(recomputeInTx), Signals, {"students", "intervention_tasks"})
  <2>1. Footprint(WithTenant(recomputeInTx), ReadBy(recomputeInTx), WrittenBy(recomputeInTx))
    BY <1>3, TenantFootprint
  <2> QED  BY <1>4, <2>1
<1> QED
  BY <1>5, <1>6
     DEF Retention_RecomputeStudent, Retention_SubmitSurvey, Retention_RecordAttendance,
         Retention_RecordHomework, CreateSurvey, CreateAttendance, CreateHomework, Writes

\* The transaction of three statements.
LEMMA ThreeFootprint ==
  ASSUME NEW a, NEW b, NEW c
  PROVE  Footprint(WithTenant(<<a, b, c>>),
                   a.run.reads \cup b.run.reads \cup c.run.reads,
                   a.run.writes \cup b.run.writes \cup c.run.writes)
<1> DEFINE steps == <<a, b, c>>
<1>1. /\ steps \in Seq({a, b, c}) /\ Len(steps) = 3
      /\ steps[1] = a /\ steps[2] = b /\ steps[3] = c
  OBVIOUS
<1> HIDE DEF steps
<1>2. \A n \in 1..3 : n = 1 \/ n = 2 \/ n = 3
  OBVIOUS
<1>3. /\ ReadBy(steps) = a.run.reads \cup b.run.reads \cup c.run.reads
      /\ WrittenBy(steps) = a.run.writes \cup b.run.writes \cup c.run.writes
  BY <1>1, <1>2 DEF ReadBy, WrittenBy
<1>4. Footprint(WithTenant(steps), ReadBy(steps), WrittenBy(steps))
  BY <1>1, TenantFootprint
<1> QED  BY <1>3, <1>4 DEF steps

\* An award reads the student whose coins it prices; a purchase reads nothing before.
LEMMA PointsFootprints ==
  /\ Footprint(Points_Award, {"students"}, {"student_points", "students"})
  /\ Footprint(Shop_BuyItem, {}, {"shop_purchases", "students", "student_points"})
  /\ WrittenIn(Superadmin_statsFor) = {}
<1>1. /\ Do(LockStudentXp).run = Reads({"students"})
      /\ Do(InsertPointsIfNew).run = Writes({"student_points"})
      /\ Maybe(AddStudentPoints).run = Writes({"students"})
      /\ Do(InsertPurchase).run = Writes({"shop_purchases"})
      /\ Do(SpendStudentCoins).run = Writes({"students"})
  BY DEF Do, Maybe, LockStudentXp, InsertPointsIfNew, AddStudentPoints, InsertPurchase,
         SpendStudentCoins
<1>2. /\ Do(CountStudentsInOrg).run = Reads({"students"})
      /\ Do(CountUsersInOrg).run = Reads({"users"})
      /\ Do(CountStudentsByTier).run = Reads({"students"})
  BY DEF Do, CountStudentsInOrg, CountUsersInOrg, CountStudentsByTier
<1>3. \A tables : /\ Reads(tables).reads = tables /\ Reads(tables).writes = {}
                  /\ Writes(tables).reads = {} /\ Writes(tables).writes = tables
  BY DEF Reads, Writes, Statement
<1>4. Footprint(Points_Award, {"students"} \cup {} \cup {},
                {} \cup {"student_points"} \cup {"students"})
  BY <1>1, <1>3, ThreeFootprint DEF Points_Award
<1>5. Footprint(Shop_BuyItem, {} \cup {} \cup {},
                {"shop_purchases"} \cup {"students"} \cup {"student_points"})
  BY <1>1, <1>3, ThreeFootprint DEF Shop_BuyItem
<1>6. Footprint(Superadmin_statsFor, {"students"} \cup {"users"} \cup {"students"},
                {} \cup {} \cup {})
  BY <1>2, <1>3, ThreeFootprint DEF Superadmin_statsFor
<1> QED
  BY <1>4, <1>5, <1>6 DEF Footprint

\* The same, of what the handlers make of them.
LEMMA HandlerFootprints ==
  /\ ReadIn(Config) = {"organizations"} /\ WrittenIn(Config) = {} /\ ~Config.must
  /\ ReadIn(canManageGroup) = {"groups"} /\ WrittenIn(canManageGroup) = {}
  /\ ReadIn(ownsStudent) = {"group_members", "groups"} /\ WrittenIn(ownsStudent) = {}
  /\ ReadIn(validateTeacher) = {"users"} /\ WrittenIn(validateTeacher) = {}
  /\ WrittenIn(NextCenter(Superadmin_statsFor)) = {}
  /\ WrittenIn(Repeated(NextCenter(Superadmin_statsFor))) = {}
  /\ WrittenIn(Sometimes(Lesson_CountRoomConflicts)) = {}
  /\ WrittenIn(BestEffort(Finance_GetGraceLessons)) = {}
  /\ WrittenIn(Repeated(Student_ListByGroup)) = {}
<1>1. {Points_GetConfig, Group_GetByID, Group_ListForStudent, Teacher_GetByID,
       Superadmin_statsFor, Lesson_CountRoomConflicts, Finance_GetGraceLessons,
       Student_ListByGroup} \subseteq TransactionsOn(Everyday)
  BY PointsTransactions, GroupTransactions, TeacherTransactions, SuperadminTransactions,
     LessonTransactions, FinanceTransactions, StudentTransactions DEF OnceOn
<1>2. /\ ReadIn(Config) = ReadIn(Points_GetConfig)
      /\ WrittenIn(Config) = WrittenIn(Points_GetConfig) /\ ~Config.must
      /\ ReadIn(canManageGroup) = ReadIn(Group_GetByID)
      /\ WrittenIn(canManageGroup) = WrittenIn(Group_GetByID)
      /\ ReadIn(ownsStudent) = ReadIn(Group_ListForStudent)
      /\ WrittenIn(ownsStudent) = WrittenIn(Group_ListForStudent)
      /\ ReadIn(validateTeacher) = ReadIn(Teacher_GetByID)
      /\ WrittenIn(validateTeacher) = WrittenIn(Teacher_GetByID)
  BY <1>1, Modified DEF Config, canManageGroup, ownsStudent, validateTeacher
<1>3. /\ NextCenter(Superadmin_statsFor) \in TransactionsOn(Everyday)
      /\ WrittenIn(NextCenter(Superadmin_statsFor)) = WrittenIn(Superadmin_statsFor)
  BY <1>1, Modified
<1>4. /\ WrittenIn(Repeated(NextCenter(Superadmin_statsFor))) = WrittenIn(Superadmin_statsFor)
      /\ WrittenIn(Sometimes(Lesson_CountRoomConflicts)) = WrittenIn(Lesson_CountRoomConflicts)
      /\ WrittenIn(BestEffort(Finance_GetGraceLessons)) = WrittenIn(Finance_GetGraceLessons)
      /\ WrittenIn(Repeated(Student_ListByGroup)) = WrittenIn(Student_ListByGroup)
  BY <1>1, <1>3, Modified
<1> QED
  BY <1>2, <1>3, <1>4, LookupFootprints, ListFootprints, PointsFootprints DEF Footprint

\* What follows a signal, or an assignment, and may fail.
LEMMA AfterwardsFootprints ==
  /\ ~BestEffort(Retention_RecomputeStudent).must
  /\ WrittenIn(BestEffort(Retention_RecomputeStudent)) = {"students", "intervention_tasks"}
  /\ ReadIn(Repeated(Retention_RecomputeStudent)) = Signals
  /\ \A t \in {Retention_RecordAttendance, Retention_RecordHomework} :
        /\ ~Repeated(BestEffort(t)).must /\ ReadIn(Repeated(BestEffort(t))) = Signals
        /\ WrittenIn(Repeated(BestEffort(t))) = WrittenIn(t)
  /\ ~Sometimes(BestEffort(Notification_Create)).must
  /\ ~BestEffort(Bot_BindChat).must
  /\ /\ BestEffort(Points_Award).times = "once" /\ ~BestEffort(Points_Award).must
     /\ ReadIn(BestEffort(Points_Award)) = {"students"}
     /\ WrittenIn(BestEffort(Points_Award)) = {"student_points", "students"}
<1>1. {Retention_RecomputeStudent, Retention_RecordAttendance, Retention_RecordHomework,
       Notification_Create, Bot_BindChat, Points_Award} \subseteq TransactionsOn(Everyday)
  BY RetentionTransactions, NotificationTransactions, BotTransactions, PointsTransactions
     DEF OnceOn
<1>2. ASSUME NEW t \in TransactionsOn(Everyday)
      PROVE  /\ ~BestEffort(t).must /\ BestEffort(t).times = t.times
             /\ ReadIn(BestEffort(t)) = ReadIn(t) /\ WrittenIn(BestEffort(t)) = WrittenIn(t)
             /\ ReadIn(Repeated(t)) = ReadIn(t)
             /\ ~Repeated(BestEffort(t)).must /\ ~Sometimes(BestEffort(t)).must
             /\ ReadIn(Repeated(BestEffort(t))) = ReadIn(t)
             /\ WrittenIn(Repeated(BestEffort(t))) = WrittenIn(t)
  <2>1. BestEffort(t) \in TransactionsOn(Everyday)
    BY Modified
  <2>2. ~BestEffort(t).must /\ Sometimes(BestEffort(t)).must = BestEffort(t).must
    BY <2>1, Modified
  <2>3. /\ Repeated(BestEffort(t)).must = BestEffort(t).must
        /\ ReadIn(Repeated(BestEffort(t))) = ReadIn(BestEffort(t))
        /\ WrittenIn(Repeated(BestEffort(t))) = WrittenIn(BestEffort(t))
    BY <2>1, Modified
  <2>4. /\ BestEffort(t).times = t.times /\ ReadIn(Repeated(t)) = ReadIn(t)
        /\ ReadIn(BestEffort(t)) = ReadIn(t) /\ WrittenIn(BestEffort(t)) = WrittenIn(t)
    BY Modified
  <2> QED  BY <2>2, <2>3, <2>4
<1> QED
  BY <1>1, <1>2, RecomputeFootprints, PointsFootprints DEF Footprint

-----------------------------------------------------------------------------
(* Paths *)

Sound(p) == Whole(p) /\ Fresh(p)

\* A path that writes nothing leaves nothing behind.
LEMMA ReadOnly ==
  ASSUME NEW S, \A t \in S : WrittenIn(t) = {}, NEW p \in Seq(S)
  PROVE  Sound(p)
<1>1. \A i \in 1..Len(p) : WrittenIn(p[i]) = {}
  OBVIOUS
<1> QED
  BY <1>1 DEF Sound, Whole, Fresh

\* One transaction that writes and must be done; lookups before, best effort after.
LEMMA OneThatMust ==
  ASSUME NEW S, NEW p \in Seq(S), NEW n \in 1..Len(p), p[n].times # "each",
         \A i \in 1..(n - 1) : WrittenIn(p[i]) = {},
         \A i \in (n + 1)..Len(p) : ~p[i].must
  PROVE  Whole(p)
<1> SUFFICES ASSUME NEW i \in 1..Len(p), NEW j \in 1..Len(p), WrittenIn(p[i]) # {},
                    \A k \in j..i : p[k].times = "each", p[j].must
             PROVE  FALSE
  BY DEF Whole
<1>1. i \in n..Len(p)
  OBVIOUS
<1>2. j \in 1..n
  OBVIOUS
<1>3. n \in j..i
  BY <1>1, <1>2
<1> QED
  BY <1>3

\* One transaction that runs once.
LEMMA PathOfOne ==
  ASSUME NEW a, a.times = "once"
  PROVE  Sound(<<a>>)
<1> DEFINE p == <<a>>
<1>1. p \in Seq({a}) /\ Len(p) = 1 /\ p[1] = a
  OBVIOUS
<1> HIDE DEF p
<1>2. Whole(p)
  BY <1>1, OneThatMust
<1>3. Fresh(p)
  BY <1>1 DEF Fresh
<1> QED
  BY <1>2, <1>3 DEF Sound, p

\* Two: a lookup and a write, or a write and a best effort.
LEMMA PathOfTwo ==
  ASSUME NEW a, NEW b
  PROVE  /\ WrittenIn(a) = {} /\ b.times = "once" => Whole(<<a, b>>)
         /\ a.times = "once" /\ ~b.must => Whole(<<a, b>>)
         /\ (ReadIn(a) \ ReadIn(b)) \cap WrittenIn(b) = {} => Fresh(<<a, b>>)
<1> DEFINE p == <<a, b>>
<1>1. p \in Seq({a, b}) /\ Len(p) = 2 /\ p[1] = a /\ p[2] = b
  OBVIOUS
<1> HIDE DEF p
<1>2. ASSUME WrittenIn(a) = {}, b.times = "once"  PROVE Whole(p)
  <2>1. 2 \in 1..Len(p) /\ p[2].times # "each"
    BY <1>1, <1>2
  <2>2. \A i \in 1..(2 - 1) : WrittenIn(p[i]) = {}
    BY <1>1, <1>2
  <2>3. \A i \in (2 + 1)..Len(p) : ~p[i].must
    BY <1>1
  <2> QED  BY <1>1, <2>1, <2>2, <2>3, OneThatMust
<1>3. ASSUME a.times = "once", ~b.must  PROVE Whole(p)
  <2>1. 1 \in 1..Len(p) /\ p[1].times # "each"
    BY <1>1, <1>3
  <2>2. \A i \in 1..(1 - 1) : WrittenIn(p[i]) = {}
    OBVIOUS
  <2>3. \A i \in (1 + 1)..Len(p) : ~p[i].must
    BY <1>1, <1>3
  <2> QED  BY <1>1, <2>1, <2>2, <2>3, OneThatMust
<1>4. ASSUME (ReadIn(a) \ ReadIn(b)) \cap WrittenIn(b) = {}  PROVE Fresh(p)
  <2> SUFFICES ASSUME NEW i \in 1..Len(p), NEW k \in 1..(i - 1)
               PROVE  (ReadIn(p[k]) \ ReadIn(p[i])) \cap WrittenIn(p[i]) = {}
    BY DEF Fresh
  <2>1. i = 2 /\ k = 1
    BY <1>1
  <2> QED  BY <1>1, <1>4, <2>1
<1> QED
  BY <1>2, <1>3, <1>4 DEF p

\* Three: two lookups and a write, or a write and two best efforts.
LEMMA PathOfThree ==
  ASSUME NEW a, NEW b, NEW c
  PROVE  /\ WrittenIn(a) = {} /\ WrittenIn(b) = {} /\ c.times = "once" => Whole(<<a, b, c>>)
         /\ a.times = "once" /\ ~b.must /\ ~c.must => Whole(<<a, b, c>>)
         /\ /\ (ReadIn(a) \ ReadIn(b)) \cap WrittenIn(b) = {}
            /\ (ReadIn(a) \ ReadIn(c)) \cap WrittenIn(c) = {}
            /\ (ReadIn(b) \ ReadIn(c)) \cap WrittenIn(c) = {}
            => Fresh(<<a, b, c>>)
<1> DEFINE p == <<a, b, c>>
<1>1. p \in Seq({a, b, c}) /\ Len(p) = 3 /\ p[1] = a /\ p[2] = b /\ p[3] = c
  OBVIOUS
<1> HIDE DEF p
<1>2. ASSUME WrittenIn(a) = {}, WrittenIn(b) = {}, c.times = "once"  PROVE Whole(p)
  <2>1. 3 \in 1..Len(p) /\ p[3].times # "each"
    BY <1>1, <1>2
  <2>2. \A i \in 1..(3 - 1) : i = 1 \/ i = 2
    OBVIOUS
  <2>3. \A i \in 1..(3 - 1) : WrittenIn(p[i]) = {}
    BY <1>1, <1>2, <2>2
  <2>4. \A i \in (3 + 1)..Len(p) : ~p[i].must
    BY <1>1
  <2> QED  BY <1>1, <2>1, <2>3, <2>4, OneThatMust
<1>3. ASSUME a.times = "once", ~b.must, ~c.must  PROVE Whole(p)
  <2>1. 1 \in 1..Len(p) /\ p[1].times # "each"
    BY <1>1, <1>3
  <2>2. \A i \in 1..(1 - 1) : WrittenIn(p[i]) = {}
    OBVIOUS
  <2>3. \A i \in (1 + 1)..Len(p) : i = 2 \/ i = 3
    BY <1>1
  <2>4. \A i \in (1 + 1)..Len(p) : ~p[i].must
    BY <1>1, <1>3, <2>3
  <2> QED  BY <1>1, <2>1, <2>2, <2>4, OneThatMust
<1>4. ASSUME (ReadIn(a) \ ReadIn(b)) \cap WrittenIn(b) = {},
             (ReadIn(a) \ ReadIn(c)) \cap WrittenIn(c) = {},
             (ReadIn(b) \ ReadIn(c)) \cap WrittenIn(c) = {}
      PROVE  Fresh(p)
  <2> SUFFICES ASSUME NEW i \in 1..Len(p), NEW k \in 1..(i - 1)
               PROVE  (ReadIn(p[k]) \ ReadIn(p[i])) \cap WrittenIn(p[i]) = {}
    BY DEF Fresh
  <2>1. (i = 2 /\ k = 1) \/ (i = 3 /\ k = 1) \/ (i = 3 /\ k = 2)
    BY <1>1
  <2> QED  BY <1>1, <1>4, <2>1
<1> QED
  BY <1>2, <1>3, <1>4 DEF p

\* One more transaction at the end of a path, whose failure is dropped.
LEMMA Appended ==
  ASSUME NEW S, NEW path \in Seq(S), NEW t
  PROVE  /\ Whole(path) /\ ~t.must /\ (WrittenIn(t) = {} \/ t.times = "once")
              => Whole(path \o <<t>>)
         /\ /\ Fresh(path)
            /\ \A k \in 1..Len(path) : (ReadIn(path[k]) \ ReadIn(t)) \cap WrittenIn(t) = {}
            => Fresh(path \o <<t>>)
<1> DEFINE p == path \o <<t>>
           n == Len(path)
<1>1. path \in Seq(S \cup {t})
  OBVIOUS
<1>2. /\ n \in Nat /\ p \in Seq(S \cup {t}) /\ Len(p) = n + 1 /\ p[n + 1] = t
      /\ \A i \in 1..n : p[i] = path[i]
  BY <1>1
<1> HIDE DEF p, n
<1>3. ASSUME Whole(path), ~t.must, WrittenIn(t) = {} \/ t.times = "once"
      PROVE  Whole(p)
  <2> SUFFICES ASSUME NEW i \in 1..Len(p), NEW j \in 1..Len(p), WrittenIn(p[i]) # {},
                      \A k \in j..i : p[k].times = "each", p[j].must
               PROVE  FALSE
    BY DEF Whole
  <2>1. j \in 1..n
    BY <1>2, <1>3
  <2>2. CASE i = n + 1
    <3>1. i \in j..i
      BY <2>1, <2>2, <1>2
    <3> QED  BY <1>2, <1>3, <2>2, <3>1
  <2>3. CASE i # n + 1
    <3>1. i \in 1..n
      BY <1>2, <2>3
    <3>2. \A k \in j..i : path[k].times = "each"
      <4>1. \A k \in j..i : k \in 1..n
        BY <1>2, <2>1, <3>1
      <4> QED  BY <1>2, <4>1
    <3> QED  BY <1>2, <1>3, <2>1, <3>1, <3>2 DEF Whole, n
  <2> QED  BY <2>2, <2>3
<1>4. ASSUME Fresh(path),
             \A k \in 1..n : (ReadIn(path[k]) \ ReadIn(t)) \cap WrittenIn(t) = {}
      PROVE  Fresh(p)
  <2> SUFFICES ASSUME NEW i \in 1..Len(p), NEW k \in 1..(i - 1)
               PROVE  (ReadIn(p[k]) \ ReadIn(p[i])) \cap WrittenIn(p[i]) = {}
    BY DEF Fresh
  <2>1. k \in 1..n
    BY <1>2
  <2>2. CASE i = n + 1
    BY <1>2, <1>4, <2>1, <2>2
  <2>3. CASE i # n + 1
    <3>1. i \in 1..n
      BY <1>2, <2>3
    <3> QED  BY <1>2, <1>4, <2>1, <3>1 DEF Fresh, n
  <2> QED  BY <2>2, <2>3
<1> QED
  BY <1>3, <1>4 DEF p, n

\* An award may follow any path, and nobody reads the points before.
LEMMA AwardedPaths ==
  ASSUME NEW S, NEW path \in Seq(S), NEW p \in Awarding(path)
  PROVE  /\ Whole(path) => Whole(p)
         /\ Fresh(path) /\ (\A k \in 1..Len(path) : "student_points" \notin ReadIn(path[k]))
              => Fresh(p)
<1> DEFINE b == BestEffort(Points_Award)
           q == path \o <<Config>>
<1>1. /\ ReadIn(Config) = {"organizations"} /\ WrittenIn(Config) = {} /\ ~Config.must
      /\ ReadIn(b) = {"students"} /\ WrittenIn(b) = {"student_points", "students"}
      /\ b.times = "once" /\ ~b.must
  BY HandlerFootprints, AfterwardsFootprints
<1> HIDE DEF b
<1>2. q \in Seq(S \cup {Config}) /\ path \o <<Config, b>> = q \o <<b>>
  <2>1. path \in Seq(S \cup {Config, b})
    OBVIOUS
  <2> QED  BY <2>1
<1>3. p = q \/ p = q \o <<b>>
  BY <1>2 DEF Awarding, b
<1>4. /\ Whole(path) => Whole(q)
      /\ Fresh(path) => Fresh(q)
  BY <1>1, Appended
<1>5. \A k \in 1..Len(q) : (k \in 1..Len(path) /\ q[k] = path[k]) \/ q[k] = Config
  <2>1. path \in Seq(S \cup {Config})
    OBVIOUS
  <2> QED  BY <2>1
<1> HIDE DEF q
<1>6. Whole(q) => Whole(q \o <<b>>)
  BY <1>1, <1>2, Appended
<1>7. ASSUME Fresh(q), \A k \in 1..Len(path) : "student_points" \notin ReadIn(path[k])
      PROVE  Fresh(q \o <<b>>)
  <2>1. \A k \in 1..Len(q) : "student_points" \notin ReadIn(q[k])
    BY <1>1, <1>5, <1>7
  <2>2. \A k \in 1..Len(q) : (ReadIn(q[k]) \ ReadIn(b)) \cap WrittenIn(b) = {}
    BY <1>1, <2>1
  <2> QED  BY <1>2, <1>7, <2>2, Appended
<1> QED
  BY <1>3, <1>4, <1>6, <1>7

-----------------------------------------------------------------------------
(* Routes of several transactions: what is whole and what is fresh *)

WholeRoute(r) == r.ends = {"ok"} /\ \A p \in r.paths : Whole(p)
FreshRoute(r) == \A p \in r.paths : Fresh(p)

\* The paths of a route as it is defined, and how it ends.
LEMMA PathsOfARoute ==
  \A gate, p, paths :
     /\ Route(gate, p).paths = {p} /\ Branching(gate, paths).paths = paths
     /\ Route(gate, p).ends = {"ok"} /\ Branching(gate, paths).ends = {"ok"}
     /\ Judging(Route(gate, p)).paths = {p} /\ Judging(Branching(gate, paths)).paths = paths
BY DEF Route, Branching, Judging

\* The routes that only read.
LEMMA ReadingRoutes ==
  \A r \in {admin_centers_list, admin_centers_get, admin_metrics, students_get,
            students_ai_advice, groups_students, student_finance, finance_alerts,
            expenses_list, salary_preview, homework_list, homework_submissions, exam_list,
            exam_results, me_students, student_me, student_my_finance, gamification_get,
            student_chat} :
     WholeRoute(r) /\ FreshRoute(r)
<1> DEFINE S == {Superadmin_GetCenter, Superadmin_ListCenters, NextCenter(Superadmin_statsFor),
                 Repeated(NextCenter(Superadmin_statsFor)), Student_GetByID, Student_ListNotes,
                 Attendance_ListByStudent, Survey_ListByStudent, Homework_ListByStudent,
                 Group_GetByID, Student_ListByGroup, Finance_ListInvoices,
                 Finance_ListPayments, Finance_StudentBalance, Finance_OverdueInvoices,
                 Finance_GraceOverdue, BestEffort(Finance_GetGraceLessons),
                 Finance_ListExpenses, Finance_ExpensesByCategory, Salary_GetRule,
                 Salary_ListGroupRules, Salary_GroupBasis, canManageGroup,
                 Assignment_ListGroupAssignments, Assignment_GetAssignment,
                 Assignment_ListSubmissions, Exam_ListGroupExams, Exam_GetExam,
                 Exam_ListResults, Group_ListByTeacher, Repeated(Student_ListByGroup),
                 Student_Profile, Config}
<1>1. \A t \in S : WrittenIn(t) = {}
  BY LookupFootprints, WorkFootprints, ListFootprints, HandlerFootprints DEF Footprint
<1>2. /\ ListCenters \in Seq(S) /\ GetCenter \in Seq(S)
      /\ <<Student_GetByID, Student_ListNotes, Attendance_ListByStudent,
           Survey_ListByStudent, Homework_ListByStudent>> \in Seq(S)
      /\ <<Group_GetByID, Student_ListByGroup>> \in Seq(S)
      /\ <<Finance_ListInvoices, Finance_ListPayments, Finance_StudentBalance>> \in Seq(S)
      /\ <<Finance_OverdueInvoices, Finance_GraceOverdue,
           BestEffort(Finance_GetGraceLessons)>> \in Seq(S)
  BY DEF ListCenters, GetCenter
<1>3. /\ <<Finance_ListExpenses, Finance_ExpensesByCategory>> \in Seq(S)
      /\ <<Salary_GetRule, Salary_ListGroupRules, Salary_GroupBasis>> \in Seq(S)
      /\ <<canManageGroup, Assignment_ListGroupAssignments>> \in Seq(S)
      /\ <<Assignment_GetAssignment, canManageGroup, Assignment_ListSubmissions>> \in Seq(S)
      /\ <<canManageGroup, Exam_ListGroupExams>> \in Seq(S)
      /\ <<Exam_GetExam, canManageGroup, Exam_ListResults>> \in Seq(S)
  OBVIOUS
<1>4. /\ <<Group_ListByTeacher, Repeated(Student_ListByGroup)>> \in Seq(S)
      /\ <<Student_Profile, Config>> \in Seq(S)
      /\ <<Config>> \in Seq(S)
      /\ <<>> \in Seq(S)
  OBVIOUS
<1> HIDE DEF S
<1>5. \A gate : \A p \in Seq(S) : WholeRoute(Route(gate, p)) /\ FreshRoute(Route(gate, p))
  BY <1>1, ReadOnly, PathsOfARoute DEF WholeRoute, FreshRoute, Sound
<1>6. \A r \in {admin_centers_list, admin_centers_get, admin_metrics, students_get,
                students_ai_advice, groups_students, student_finance, finance_alerts,
                student_my_finance} :
         WholeRoute(r) /\ FreshRoute(r)
  BY <1>2, <1>5
     DEF admin_centers_list, admin_centers_get, admin_metrics, students_get,
         students_ai_advice, groups_students, student_finance, finance_alerts,
         student_my_finance
<1>7. \A r \in {expenses_list, salary_preview, homework_list, homework_submissions, exam_list,
                exam_results} :
         WholeRoute(r) /\ FreshRoute(r)
  BY <1>3, <1>5
     DEF expenses_list, salary_preview, homework_list, homework_submissions, exam_list,
         exam_results
<1>8. \A r \in {me_students, student_me, gamification_get, student_chat} :
         WholeRoute(r) /\ FreshRoute(r)
  BY <1>4, <1>5 DEF me_students, student_me, gamification_get, student_chat
<1> QED
  BY <1>6, <1>7, <1>8

\* Something is looked up, of tables that are not written after, or are read again.
LEMMA LookingRoutes ==
  \A r \in {auth_login, students_set_login_password, groups_create, groups_update,
            homework_create, exam_create, me_record_homework, student_homework_submit,
            student_shop_buy, student_award_xp} :
     WholeRoute(r) /\ FreshRoute(r)
<1> DEFINE Good(r) == WholeRoute(r) /\ FreshRoute(r)
<1>1. \A gate, p : Sound(p) => Good(Route(gate, p))
  BY PathsOfARoute DEF WholeRoute, FreshRoute, Sound
<1>2. ASSUME NEW a, NEW b, WrittenIn(a) = {}, b.times = "once",
             (ReadIn(a) \ ReadIn(b)) \cap WrittenIn(b) = {}
      PROVE  Sound(<<a, b>>)
  BY <1>2, PathOfTwo DEF Sound
<1>3. ASSUME NEW a, NEW b, NEW c, WrittenIn(a) = {}, WrittenIn(b) = {}, c.times = "once",
             ReadIn(a) \cap WrittenIn(c) = {}, ReadIn(b) \cap WrittenIn(c) = {}
      PROVE  Sound(<<a, b, c>>)
  BY <1>3, PathOfThree DEF Sound
<1>4. Sound(<<Auth_OrgBySlug, Auth_UserByEmailInOrg, Session_CreateSession>>)
  BY <1>3, LookupFootprints, WriteFootprints DEF Footprint
<1>5. Sound(<<ownsStudent, Student_SetLoginPassword>>)
  BY <1>2, HandlerFootprints, WriteFootprints DEF Footprint
<1>6. Sound(<<validateTeacher, Group_Create>>) /\ Sound(<<validateTeacher, Group_Update>>)
  BY <1>2, HandlerFootprints, WriteFootprints DEF Footprint
<1>7. Sound(<<canManageGroup, Assignment_CreateAssignment>>)
  BY <1>2, HandlerFootprints, WorkFootprints DEF Footprint
<1>8. Sound(<<canManageGroup, Exam_Create>>)
  BY <1>2, HandlerFootprints, WorkFootprints DEF Footprint
<1>9. Sound(<<ownsStudent, Retention_RecordHomework>>)
  BY <1>2, HandlerFootprints, RecomputeFootprints DEF Footprint, Signals
<1>10. Sound(<<Assignment_GetAssignmentForStudent, Assignment_UpsertSubmission>>)
  BY <1>2, WorkFootprints DEF Footprint
<1>11. Sound(<<Shop_GetItem, Shop_BuyItem>>)
  BY <1>2, LookupFootprints, PointsFootprints DEF Footprint
<1>12. Sound(<<ownsStudent, Config>>) /\ Sound(<<ownsStudent, Config, Points_Award>>)
  <2>1. Sound(<<ownsStudent, Config, Points_Award>>)
    BY <1>3, HandlerFootprints, PointsFootprints DEF Footprint
  <2>2. Sound(<<ownsStudent, Config>>)
    <3>1. \A t \in {ownsStudent, Config} : WrittenIn(t) = {}
      BY HandlerFootprints
    <3>2. <<ownsStudent, Config>> \in Seq({ownsStudent, Config})
      OBVIOUS
    <3> QED  BY <3>1, <3>2, ReadOnly
  <2> QED  BY <2>1, <2>2
<1>13. Good(student_award_xp)
  BY <1>12, PathsOfARoute DEF student_award_xp, Sound, WholeRoute, FreshRoute
<1> HIDE DEF Good
<1>14. \A r \in {auth_login, students_set_login_password, groups_create,
                 groups_update} : Good(r)
  BY <1>1, <1>4, <1>5, <1>6
     DEF auth_login, students_set_login_password, groups_create, groups_update
<1>15. \A r \in {homework_create, exam_create, me_record_homework, student_homework_submit,
                 student_shop_buy} : Good(r)
  BY <1>1, <1>7, <1>8, <1>9, <1>10, <1>11
     DEF homework_create, exam_create, me_record_homework, student_homework_submit,
         student_shop_buy
<1>16. \A r \in {auth_login, students_set_login_password, groups_create, groups_update,
                 homework_create, exam_create, me_record_homework, student_homework_submit,
                 student_shop_buy, student_award_xp} : Good(r)
  BY <1>13, <1>14, <1>15
<1> QED
  BY <1>16 DEF Good

\* A signal, an answer or a grade is written, then the student is awarded for it.
LEMMA AwardingRoutes ==
  \A r \in {students_record_attendance, exam_grade, me_record_attendance, student_checkin} :
     WholeRoute(r) /\ FreshRoute(r)
<1> DEFINE Fit(path) == /\ Sound(path)
                        /\ \E S : path \in Seq(S)
                        /\ \A k \in 1..Len(path) : "student_points" \notin ReadIn(path[k])
<1>1. ASSUME NEW path, Fit(path)
      PROVE  \A p \in {path} \cup Awarding(path) : Sound(p)
  BY <1>1, AwardedPaths DEF Sound
<1>2. Fit(<<Retention_RecordAttendance>>)
  <2> DEFINE p == <<Retention_RecordAttendance>>
  <2>1. Sound(p)
    BY PathOfOne, RecomputeFootprints DEF Footprint
  <2>2. p \in Seq({Retention_RecordAttendance}) /\ Len(p) = 1
        /\ p[1] = Retention_RecordAttendance
    OBVIOUS
  <2> HIDE DEF p
  <2>3. \A k \in 1..Len(p) : "student_points" \notin ReadIn(p[k])
    BY <2>2, RecomputeFootprints DEF Footprint, Signals
  <2> QED  BY <2>1, <2>2, <2>3 DEF p
<1>3. ASSUME NEW a, NEW b, WrittenIn(a) = {}, b.times = "once",
             (ReadIn(a) \ ReadIn(b)) \cap WrittenIn(b) = {},
             "student_points" \notin ReadIn(a), "student_points" \notin ReadIn(b)
      PROVE  Fit(<<a, b>>)
  <2> DEFINE p == <<a, b>>
  <2>1. Sound(p)
    BY <1>3, PathOfTwo DEF Sound
  <2>2. p \in Seq({a, b}) /\ Len(p) = 2 /\ p[1] = a /\ p[2] = b
    OBVIOUS
  <2> HIDE DEF p
  <2>3. \A k \in 1..Len(p) : k = 1 \/ k = 2
    BY <2>2
  <2>4. \A k \in 1..Len(p) : "student_points" \notin ReadIn(p[k])
    BY <1>3, <2>2, <2>3
  <2> QED  BY <2>1, <2>2, <2>4 DEF p
<1>4. Fit(<<ownsStudent, Retention_RecordAttendance>>)
  BY <1>3, HandlerFootprints, RecomputeFootprints DEF Footprint, Signals
<1>5. Fit(<<Survey_ListByStudent, Retention_SubmitSurvey>>)
  BY <1>3, LookupFootprints, RecomputeFootprints DEF Footprint, Signals
<1>6. Fit(<<Exam_GetExam, canManageGroup, Exam_UpsertResult>>)
  <2> DEFINE p == <<Exam_GetExam, canManageGroup, Exam_UpsertResult>>
  <2>1. /\ ReadIn(Exam_GetExam) = {"exams"} /\ WrittenIn(Exam_GetExam) = {}
        /\ ReadIn(canManageGroup) = {"groups"} /\ WrittenIn(canManageGroup) = {}
        /\ ReadIn(Exam_UpsertResult) = {} /\ WrittenIn(Exam_UpsertResult) = {"exam_results"}
        /\ Exam_UpsertResult.times = "once"
    BY HandlerFootprints, WorkFootprints DEF Footprint
  <2>2. Sound(p)
    BY <2>1, PathOfThree DEF Sound
  <2>3. /\ p \in Seq({Exam_GetExam, canManageGroup, Exam_UpsertResult}) /\ Len(p) = 3
        /\ p[1] = Exam_GetExam /\ p[2] = canManageGroup /\ p[3] = Exam_UpsertResult
    OBVIOUS
  <2> HIDE DEF p
  <2>4. \A k \in 1..Len(p) : k = 1 \/ k = 2 \/ k = 3
    BY <2>3
  <2>5. \A k \in 1..Len(p) : "student_points" \notin ReadIn(p[k])
    BY <2>1, <2>3, <2>4
  <2> QED  BY <2>2, <2>3, <2>5 DEF p
<1> HIDE DEF Fit
<1> QED
  BY <1>1, <1>2, <1>4, <1>5, <1>6, PathsOfARoute
     DEF students_record_attendance, exam_grade, me_record_attendance, student_checkin, Sound,
         WholeRoute, FreshRoute

\* What follows the first write may fail without failing the request.
LEMMA TolerantRoutes ==
  \A r \in {students_update, import_records, intervention_tasks_assign,
            student_telegram_link} :
     WholeRoute(r) /\ FreshRoute(r)
<1>1. \A gate, p : Sound(p) => WholeRoute(Route(gate, p)) /\ FreshRoute(Route(gate, p))
  BY PathsOfARoute DEF WholeRoute, FreshRoute, Sound
<1>2. ASSUME NEW a, NEW b, a.times = "once", ReadIn(a) = {}, ~b.must
      PROVE  Sound(<<a, b>>)
  BY <1>2, PathOfTwo DEF Sound
<1>3. Sound(<<Student_Update, BestEffort(Retention_RecomputeStudent)>>)
  BY <1>2, WriteFootprints, AfterwardsFootprints DEF Footprint
<1>4. Sound(<<Intervention_Assign, Sometimes(BestEffort(Notification_Create))>>)
  BY <1>2, WriteFootprints, AfterwardsFootprints DEF Footprint
<1>5. Sound(<<Bot_SetStudentChat, BestEffort(Bot_BindChat)>>)
  BY <1>2, WriteFootprints, AfterwardsFootprints DEF Footprint
<1>6. Sound(<<Student_List, Repeated(BestEffort(Retention_RecordAttendance)),
              Repeated(BestEffort(Retention_RecordHomework))>>)
  <2> DEFINE b == Repeated(BestEffort(Retention_RecordAttendance))
             c == Repeated(BestEffort(Retention_RecordHomework))
  <2>1. /\ ReadIn(b) = Signals /\ ReadIn(c) = Signals /\ ~b.must /\ ~c.must
        /\ ReadIn(Student_List) = {"students"} /\ Student_List.times = "once"
    BY AfterwardsFootprints, LookupFootprints DEF Footprint
  <2> HIDE DEF b, c
  <2>2. ReadIn(Student_List) \subseteq Signals
    BY <2>1 DEF Signals
  <2>3. Sound(<<Student_List, b, c>>)
    BY <2>1, <2>2, PathOfThree DEF Sound
  <2> QED  BY <2>3 DEF b, c
<1> QED
  BY <1>1, <1>3, <1>4, <1>5, <1>6
     DEF students_update, import_records, intervention_tasks_assign, student_telegram_link

\* The ranking of the center, or of one group of it.
LEMMA TwoRankings ==
  \A r \in {leaderboard, student_leaderboard} : WholeRoute(r) /\ FreshRoute(r)
<1>1. Points_Leaderboard.times = "once" /\ Points_LeaderboardByGroup.times = "once"
  BY PointsTransactions DEF OnceOn
<1>2. Sound(<<Points_Leaderboard>>) /\ Sound(<<Points_LeaderboardByGroup>>)
  BY <1>1, PathOfOne
<1> QED
  BY <1>2, PathsOfARoute DEF leaderboard, student_leaderboard, Sound, WholeRoute, FreshRoute

\* A write after any lookups.
LEMMA LookedUp ==
  ASSUME NEW S, \A t \in S : WrittenIn(t) = {}, NEW path \in Seq(S), NEW t, t.times = "once"
  PROVE  Whole(path \o <<t>>)
<1> DEFINE p == path \o <<t>>
           n == Len(path) + 1
<1>1. path \in Seq(S \cup {t})
  OBVIOUS
<1>2. /\ n \in Nat /\ p \in Seq(S \cup {t}) /\ Len(p) = n /\ p[n] = t
      /\ \A i \in 1..(n - 1) : p[i] = path[i] /\ path[i] \in S
  BY <1>1
<1> HIDE DEF p, n
<1>3. n \in 1..Len(p)
  BY <1>2 DEF n
<1>4. \A i \in 1..(n - 1) : WrittenIn(p[i]) = {}
  BY <1>2
<1>5. \A i \in (n + 1)..Len(p) : ~p[i].must
  BY <1>2
<1> QED
  BY <1>2, <1>3, <1>4, <1>5, OneThatMust DEF p

\* The rest of the routes that commit no more than one transaction they need.
LEMMA CheckingRoutes ==
  \A r \in {me_change_password, student_change_password, admin_centers_delete, staff_update,
            staff_delete, groups_delete, homework_update, homework_delete, homework_grade,
            exam_delete, obstacle_options_create, lessons_create, lessons_update,
            lessons_session_save} :
     WholeRoute(r)
<1>1. \A gate, p : Whole(p) => WholeRoute(Route(gate, p))
  BY PathsOfARoute DEF WholeRoute
<1>2. ASSUME NEW a, NEW b, WrittenIn(a) = {}, b.times = "once"
      PROVE  Whole(<<a, b>>)
  BY <1>2, PathOfTwo
<1>3. ASSUME NEW a, NEW b, NEW c, WrittenIn(a) = {}, WrittenIn(b) = {}, c.times = "once"
      PROVE  Whole(<<a, b, c>>)
  BY <1>3, PathOfThree
<1>4. /\ Whole(<<Auth_UserByID, Auth_SetPassword>>)
      /\ Whole(<<Student_GetPasswordHash, Student_SetLoginPassword>>)
      /\ Whole(<<Staff_List, Staff_Update>>) /\ Whole(<<Staff_List, Staff_Delete>>)
      /\ Whole(<<Obstacle_List, Obstacle_Create>>)
      /\ Whole(<<Lesson_FindByGroupDate, Lesson_Update>>)
      /\ Whole(<<Lesson_FindByGroupDate, Lesson_Create>>)
  <2>1. \A t \in {Auth_UserByID, Student_GetPasswordHash, Staff_List, Obstacle_List,
                  Lesson_FindByGroupDate} : WrittenIn(t) = {}
    BY LookupFootprints DEF Footprint
  <2>2. \A t \in {Auth_SetPassword, Student_SetLoginPassword, Staff_Update, Staff_Delete,
                  Obstacle_Create, Lesson_Update, Lesson_Create} : t.times = "once"
    BY WriteFootprints DEF Footprint
  <2> QED  BY <1>2, <2>1, <2>2
<1>5. /\ Whole(<<Sometimes(Lesson_CountRoomConflicts), Lesson_Create>>)
      /\ Whole(<<Sometimes(Lesson_CountRoomConflicts), Lesson_Update>>)
  <2>1. WrittenIn(Sometimes(Lesson_CountRoomConflicts)) = {}
    BY HandlerFootprints
  <2>2. Lesson_Create.times = "once" /\ Lesson_Update.times = "once"
    BY WriteFootprints DEF Footprint
  <2> QED  BY <1>2, <2>1, <2>2
<1>6. Whole(<<Group_GetByID, Group_Delete>>)
  <2>1. Group_Delete.times = "once"
    BY GroupTransactions DEF OnceOn
  <2> QED  BY <1>2, <2>1, LookupFootprints DEF Footprint
<1>7. /\ WrittenIn(Superadmin_GetCenter) = {}
      /\ WrittenIn(NextCenter(Superadmin_statsFor)) = {}
      /\ Superadmin_UpdateCenter.times = "once"
  BY LookupFootprints, HandlerFootprints, WriteFootprints DEF Footprint
<1>8. Whole(GetCenter \o <<Superadmin_UpdateCenter>>)
  <2> DEFINE S == {Superadmin_GetCenter, NextCenter(Superadmin_statsFor)}
  <2>1. GetCenter \in Seq(S)
    BY DEF GetCenter
  <2>2. \A t \in S : WrittenIn(t) = {}
    BY <1>7
  <2> HIDE DEF S
  <2> QED  BY <1>7, <2>1, <2>2, LookedUp
<1>9. /\ Whole(<<Assignment_GetAssignment, canManageGroup, Assignment_UpdateAssignment>>)
      /\ Whole(<<Assignment_GetAssignment, canManageGroup, Assignment_DeleteAssignment>>)
      /\ Whole(<<Assignment_GroupForSubmission, canManageGroup, Assignment_Grade>>)
      /\ Whole(<<Exam_GetExam, canManageGroup, Exam_DeleteExam>>)
  BY <1>3, WorkFootprints, HandlerFootprints DEF Footprint
<1>10. WholeRoute(staff_update)
  <2>1. Whole(<<Staff_Update>>)
    BY PathOfOne, WriteFootprints DEF Footprint, Sound
  <2> QED  BY <1>4, <2>1, PathsOfARoute DEF staff_update, WholeRoute
<1>11. WholeRoute(lessons_session_save)
  BY <1>4, PathsOfARoute DEF lessons_session_save, WholeRoute
<1>12. WholeRoute(homework_grade)
  <2> DEFINE path == <<Assignment_GroupForSubmission, canManageGroup, Assignment_Grade>>
  <2>1. path \in Seq({Assignment_GroupForSubmission, canManageGroup, Assignment_Grade})
    OBVIOUS
  <2>2. Whole(path)
    BY <1>9
  <2>3. homework_grade.paths = {path} \cup Awarding(path) /\ homework_grade.ends = {"ok"}
    BY PathsOfARoute DEF homework_grade
  <2> HIDE DEF path
  <2>4. \A p \in Awarding(path) : Whole(p)
    BY <2>1, <2>2, AwardedPaths
  <2> QED  BY <2>2, <2>3, <2>4 DEF WholeRoute
<1>13. \A r \in {me_change_password, student_change_password, staff_delete,
                 obstacle_options_create, lessons_create, lessons_update} : WholeRoute(r)
  BY <1>1, <1>4, <1>5
     DEF me_change_password, student_change_password, staff_delete, obstacle_options_create,
         lessons_create, lessons_update
<1>14. \A r \in {groups_delete, admin_centers_delete, homework_update, homework_delete,
                 exam_delete} : WholeRoute(r)
  BY <1>1, <1>6, <1>8, <1>9
     DEF groups_delete, admin_centers_delete, homework_update, homework_delete, exam_delete
<1> QED
  BY <1>10, <1>11, <1>12, <1>13, <1>14

\* The routes that commit in stages, and change nothing by what they read before.
LEMMA StagedRoutes ==
  \A r \in {admin_login, auth_refresh, maintenance_recompute, salary_rule_set} :
     FreshRoute(r)
<1>1. \A gate, p : Fresh(p) => FreshRoute(Route(gate, p))
  BY PathsOfARoute DEF FreshRoute
<1>2. Fresh(<<Student_List, Repeated(Retention_RecomputeStudent)>>)
  <2>1. /\ ReadIn(Student_List) = {"students"}
        /\ ReadIn(Repeated(Retention_RecomputeStudent)) = Signals
    BY LookupFootprints, AfterwardsFootprints DEF Footprint
  <2> QED  BY <2>1, PathOfTwo DEF Signals
<1>3. Fresh(<<Salary_SetRule, Sometimes(Salary_ReplaceGroupRules)>>)
  BY WriteFootprints, PathOfTwo DEF Footprint
<1>4. Fresh(<<Session_RotateSession, Auth_UserByID, Auth_OrgByID>>)
  BY LookupFootprints, PathOfThree DEF Footprint
<1>5. Fresh(<<Session_ReplaySession>>)
  <2>1. Session_ReplaySession.times = "once"
    BY SessionTransactions DEF OnceOn
  <2> QED  BY <2>1, PathOfOne DEF Sound
<1>6. FreshRoute(auth_refresh)
  BY <1>4, <1>5, PathsOfARoute DEF auth_refresh, FreshRoute
<1>7. FreshRoute(admin_login)
  <2>1. Fresh(<<Auth_OrgBySlug, Auth_UserByEmailInOrg, Session_CreateSession>>)
    BY LookupFootprints, WriteFootprints, PathOfThree DEF Footprint
  <2> QED  BY <2>1, PathsOfARoute DEF admin_login, FreshRoute
<1> QED
  BY <1>1, <1>2, <1>3, <1>6, <1>7 DEF maintenance_recompute, salary_rule_set

-----------------------------------------------------------------------------
(* All the routes *)

\* Every route is one of the above; the ones on the money are of one gate.
LEMMA RouteKinds ==
  \A r \in AllRoutes :
     \/ r \in SoundOn(Everyday)
     \/ r \in SoundOn(Tables) /\ r.gate = financeAPI
     \/ r \in RoutesOn(Everyday)
     \/ r \in RoutesOn(Tables) /\ r.gate = financeAPI
<1>1. \A r \in {finance_summary, expense_create, expense_delete, salary_rule_get,
                salary_slips_list, salary_slip_create, salary_slip_pay, salary_slip_delete,
                expenses_list, salary_rule_set, salary_preview} : r.gate = financeAPI
  BY DEF finance_summary, expense_create, expense_delete, salary_rule_get, salary_slips_list,
         salary_slip_create, salary_slip_pay, salary_slip_delete, expenses_list,
         salary_rule_set, salary_preview, Route, Branching
<1> QED
  BY <1>1, AuthSingle, AdminSingle, StaffSingle, StudentsSingle, RetentionSingle, GroupsSingle,
     FinanceSingle, FinanceMoneySingle, TeachingSingle, GamificationSingle, CatalogueSingle,
     LeadsSingle, AppSingle, JobsSingle, AuthRoutes, AdminRoutes, StaffRoutes, StudentsRoutes,
     RetentionRoutes, GroupsRoutes, FinanceRoutes, FinanceRoutesOfMoney, TeachingRoutes,
     GamificationRoutes, CatalogueRoutes, LeadsRoutes, AppRoutes, JobRoutes
     DEF AllRoutes

\* Every transaction of every route sets its tenant before it touches a secured table.
LEMMA EveryRoute == AllRoutes \subseteq RoutesOn(Tables)
BY RouteKinds, Wider DEF SoundOn

\* The routes that touch the money admit nobody of the front desk.
LEMMA MoneyRoutes ==
  \A r \in AllRoutes : r.gate \cap FrontDesk = {} \/ r \in RoutesOn(Everyday)
BY RouteKinds, GateTypes DEF SoundOn

\* Every route but the staged ones commits one transaction it cannot do without, and
\* refuses nothing after.
LEMMA WholeRoutes ==
  \A r \in AllRoutes :
     r \in Staged \/ r.gate = {Job} \/ (r.ends = {"ok"} /\ \A p \in r.paths : Whole(p))
<1>1. \A r \in {RemindHomeworkAllTenants, RunDaily, RunWeekly} : r.gate = {Job}
  BY DEF RemindHomeworkAllTenants, RunDaily, RunWeekly, Route, Branching
<1>2. \A T : \A r \in SoundOn(T) : WholeRoute(r)
  BY DEF SoundOn, WholeRoute
<1>3. \A r \in AllRoutes : r \in Staged \/ r.gate = {Job} \/ WholeRoute(r)
  BY <1>1, <1>2, AuthSingle, AdminSingle, StaffSingle, StudentsSingle, RetentionSingle,
     GroupsSingle, FinanceSingle, FinanceMoneySingle, TeachingSingle, GamificationSingle,
     CatalogueSingle, LeadsSingle, AppSingle, JobsSingle, ReadingRoutes, LookingRoutes,
     AwardingRoutes, TolerantRoutes, TwoRankings, CheckingRoutes
     DEF AllRoutes, Staged
<1> QED
  BY <1>3 DEF WholeRoute

\* Every route but those of CheckThenAct reads again what it writes.
LEMMA FreshRoutes ==
  \A r \in AllRoutes : r \in CheckThenAct \/ \A p \in r.paths : Fresh(p)
<1>1. \A T : \A r \in SoundOn(T) : FreshRoute(r)
  BY DEF SoundOn, FreshRoute
<1>2. \A r \in AllRoutes : r \in CheckThenAct \/ FreshRoute(r)
  BY <1>1, AuthSingle, AdminSingle, StaffSingle, StudentsSingle, RetentionSingle,
     GroupsSingle, FinanceSingle, FinanceMoneySingle, TeachingSingle, GamificationSingle,
     CatalogueSingle, LeadsSingle, AppSingle, JobsSingle, ReadingRoutes, LookingRoutes,
     AwardingRoutes, TolerantRoutes, TwoRankings, StagedRoutes
     DEF AllRoutes, CheckThenAct
<1> QED
  BY <1>2 DEF FreshRoute

-----------------------------------------------------------------------------
(* The shape of the state *)

\* An element of a path.
LEMMA Element ==
  ASSUME NEW S, NEW p \in Seq(S), NEW j \in 1..Len(p)
  PROVE  p[j] \in S
OBVIOUS

\* The statements of a transaction.
LEMMA TransactionParts ==
  ASSUME NEW T, NEW t \in TransactionsOn(T)
  PROVE  /\ t.steps \in Seq(StepsOn(T)) /\ Len(t.steps) \in Nat
         /\ ReadIn(t) \subseteq T /\ WrittenIn(t) \subseteq T
         /\ \A n \in 1..Len(t.steps) : t.steps[n].run \in StatementsOn(T)
<1>1. t.steps \in Seq(StepsOn(T))
  BY DEF TransactionsOn, Framed
<1>2. ASSUME NEW n \in 1..Len(t.steps)  PROVE t.steps[n].run \in StatementsOn(T)
  <2>1. t.steps[n] \in StepsOn(T)
    BY <1>1
  <2> QED  BY <2>1 DEF StepsOn
<1>3. ReadIn(t) \subseteq T /\ WrittenIn(t) \subseteq T
  BY <1>2 DEF ReadIn, WrittenIn, StatementsOn
<1> QED
  BY <1>1, <1>2, <1>3

\* A request that stays where it is, and one that goes on within its transaction.
LEMMA Stays ==
  ASSUME NEW r \in Requests, NEW q \in RequestRecords,
         q.route = r.route, q.role = r.role, q.path = r.path, q.tx = r.tx, q.step = r.step
  PROVE  q \in Requests
BY DEF Requests

\* ... and one that is somewhere else.
LEMMA Moves ==
  ASSUME NEW r \in Requests, NEW q \in RequestRecords,
         q.route = r.route, q.role = r.role, q.path = r.path,
         NEW tx \in 0..Len(r.path), tx # 0, q.tx = tx,
         q.step \in 0..(Len(r.path[tx].steps) + 1)
  PROVE  q \in Requests
<1>1. (IF q.tx = 0 THEN 0 ELSE Len(q.path[q.tx].steps) + 1) = Len(r.path[tx].steps) + 1
  OBVIOUS
<1> QED
  BY <1>1 DEF Requests

\* A request that is answered.
LEMMA Answered ==
  ASSUME NEW r \in Requests, NEW a \in {"ok", "error", "lost"}
  PROVE  Answer(r, a) \in Requests
<1> DEFINE q == Answer(r, a)
<1>1. /\ q \in RequestRecords /\ q.route = r.route /\ q.role = r.role /\ q.path = r.path
      /\ q.tx = r.tx /\ q.step = r.step
  BY DEF Answer, Requests, RequestRecords
<1> HIDE DEF q
<1>2. q \in Requests
  BY <1>1, Stays
<1> QED
  BY <1>2 DEF q

\* The path and the transaction of a request are of its route.
LEMMA PathTypes ==
  ASSUME req \in Requests
  PROVE  /\ req.route \in AllRoutes /\ req.route \in RoutesOn(Tables)
         /\ req.path \in PathsOn(Tables)
         /\ req.tx > 0 => req.tx \in 1..Len(req.path) /\ Tx \in TransactionsOn(Tables)
BY EveryRoute DEF Requests, RequestRecords, RoutesOn, PathsOn, Tx

\* A statement that is to run is one of its transaction.
LEMMA PendingPlace ==
  ASSUME TypeOK, Pending
  PROVE  req \in Requests /\ Running /\ req.step \in 1..Len(Tx.steps) /\ req.tx > 0
BY DEF TypeOK, Pending, Running, Busy, Idle, Requests, RequestRecords, Tx

\* The request as the commit of its transaction leaves it, before it goes on.
Committed ==
  [req EXCEPT !.wrote = @ \/ req.dirty # {},
              !.stale = @ \/ req.dirty \cap Known \cap req.moved # {}]

\* The commit leaves it a request that goes on.
LEMMA CommitKeeps ==
  ASSUME TypeOK, Commit
  PROVE  /\ req \in Requests /\ Busy /\ Committed \in Requests /\ GoOn(Committed, req.tx)
         /\ Committed.path = req.path /\ Committed.route = req.route
         /\ Committed.role = req.role /\ Committed.tx = req.tx /\ Committed.at = "busy"
         /\ Committed.wrote = (req.wrote \/ req.dirty # {})
         /\ Committed.stale = (req.stale \/ req.dirty \cap Known \cap req.moved # {})
<1>1. req \in Requests /\ Busy /\ GoOn(Committed, req.tx)
  BY DEF TypeOK, Commit, Running, Busy, Idle, Committed
<1>2. /\ Committed \in RequestRecords
      /\ Committed.path = req.path /\ Committed.route = req.route
      /\ Committed.role = req.role /\ Committed.tx = req.tx /\ Committed.at = "busy"
      /\ Committed.step = req.step
      /\ Committed.wrote = (req.wrote \/ req.dirty # {})
      /\ Committed.stale = (req.stale \/ req.dirty \cap Known \cap req.moved # {})
  BY <1>1 DEF Requests, RequestRecords, Committed, Busy
<1> QED
  BY <1>1, <1>2, Stays

\* Where a request goes on is a place of its path.
LEMMA GoOnTypes ==
  ASSUME TypeOK, Busy, NEW r \in Requests, r.path = req.path, NEW i, GoOn(r, i)
  PROVE  req' \in Requests
<1>1. ASSUME NEW a \in Verdicts(r)  PROVE Answer(r, a) \in Requests
  <2>1. a \in {"ok", "error"}
    BY EveryRoute DEF Verdicts, RoutesOn, Requests, RequestRecords
  <2> QED  BY <2>1, Answered
<1>2. ASSUME NEW j \in After(i), req' = [r EXCEPT !.tx = j, !.step = 0, !.dirty = {}]
      PROVE  req' \in Requests
  <2>1. j \in 1..Len(r.path)
    BY <1>2 DEF After
  <2>2. r.path \in PathsOn(Tables) /\ Len(r.path) \in Nat
    BY PathTypes DEF TypeOK, Busy, Idle, PathsOn
  <2>3. r.path[j].steps \in Seq(StepsOn(Tables))
    BY <2>1, <2>2, TransactionParts DEF PathsOn
  <2>4. 0 \in 0..(Len(r.path[j].steps) + 1) /\ j \in 0..Len(r.path) /\ j \in Nat /\ j # 0
    BY <2>1, <2>2, <2>3
  <2>5. /\ req' \in RequestRecords /\ req'.tx = j /\ req'.step = 0
        /\ req'.route = r.route /\ req'.role = r.role /\ req'.path = r.path
    BY <1>2, <2>4 DEF Requests, RequestRecords
  <2> QED  BY <2>4, <2>5, Moves
<1> QED
  BY <1>1, <1>2 DEF GoOn

\* The roles a route hands out are roles.
LEMMA IssuedRoles ==
  ASSUME NEW route
  PROVE  Issued(route) \subseteq Roles
BY DEF Issued, Roles

\* A step keeps the shape of the state: one step per action.
LEMMA TypeStep ==
  ASSUME TypeOK, [Next]_vars
  PROVE  TypeOK'
<1> USE DEF TypeOK
<1>1. ASSUME NEW route \in AllRoutes, NEW role \in route.gate, NEW org \in Orgs,
             role \in Roles \cup {Nobody, Job}, Arrive(route, role, org)
      PROVE  TypeOK'
  <2>1. PICK path \in route.paths :
            req' = [at |-> "busy", route |-> route, role |-> role, org |-> org,
                    path |-> path, tx |-> 0, step |-> 0, dirty |-> {}, wrote |-> FALSE,
                    moved |-> {}, stale |-> FALSE, answer |-> Nothing]
    BY <1>1 DEF Arrive
  <2>2. route \in RoutesOn(Tables)
    BY EveryRoute
  <2>3. path \in PathsOn(Tables) /\ Len(path) \in Nat
    BY <2>2 DEF RoutesOn, PathsOn
  <2>4. req' \in Requests
    BY <1>1, <2>1, <2>3 DEF Requests, RequestRecords
  <2> QED  BY <1>1, <2>4 DEF Arrive
<1>2. ASSUME NEW route \in AllRoutes, Request(route)  PROVE TypeOK'
  BY <1>1, <1>2, HomeAssumption DEF Request, ParseAccessToken, NoToken
<1>3. ASSUME NEW route \in AllRoutes, PublicRequest(route)  PROVE TypeOK'
  BY <1>1, <1>3 DEF PublicRequest
<1>4. ASSUME NEW route \in AllRoutes, RunJob(route)  PROVE TypeOK'
  BY <1>1, <1>4 DEF RunJob
<1>5. CASE Start
  <2>1. req \in Requests
    BY <1>5 DEF Start, Busy, Idle
  <2> QED  BY <1>5, <2>1, GoOnTypes DEF Start
<1>6. CASE Begin
  <2>1. req \in Requests /\ req.tx > 0 /\ req.step = 0
    BY <1>6 DEF Begin, Busy, Idle
  <2>2. Len(Tx.steps) \in Nat
    BY <2>1, PathTypes, TransactionParts
  <2>3. PICK org \in Orgs : req' = [req EXCEPT !.step = 1, !.org = org]
    BY <1>6, <2>1 DEF Begin, Requests, RequestRecords
  <2>4. /\ req' \in RequestRecords /\ req'.tx = req.tx /\ req'.step = 1
        /\ req'.route = req.route /\ req'.role = req.role /\ req'.path = req.path
    BY <2>1, <2>3 DEF Requests, RequestRecords
  <2>5. req.tx \in 0..Len(req.path) /\ req.tx # 0 /\ 1 \in 0..(Len(Tx.steps) + 1)
    BY <2>1, <2>2 DEF Requests
  <2>6. req' \in Requests
    BY <2>1, <2>4, <2>5, Moves DEF Tx
  <2> QED  BY <1>6, <2>6 DEF Begin
<1>7. CASE RunStatement
  <2>1. req \in Requests /\ req.step \in 1..Len(Tx.steps) /\ req.tx > 0
    BY <1>7, PendingPlace DEF RunStatement
  <2>2. Tx.steps \in Seq(StepsOn(Tables))
    BY <2>1, PathTypes, TransactionParts
  <2>3. Statement_ \in StatementsOn(Tables)
    <3>1. Tx \in TransactionsOn(Tables)
      BY <2>1, PathTypes
    <3> QED  BY <2>1, <3>1, TransactionParts DEF Statement_
  <2>4. conn' \in [session : Orgs \cup {Nothing}, local : Orgs \cup {Nothing}]
    BY <1>7, <2>1 DEF RunStatement, Requests, RequestRecords
  <2>5. PICK next \in {req.step, req.step + 1} :
           req' = [req EXCEPT !.step = next, !.dirty = @ \cup Statement_.writes]
    BY <1>7 DEF RunStatement
  <2>6. next \in 0..(Len(Tx.steps) + 1) /\ next \in Nat
    BY <2>1, <2>2
  <2>7. req.dirty \cup Statement_.writes \in SUBSET Tables
    BY <2>1, <2>3 DEF Requests, RequestRecords, StatementsOn
  <2>8. /\ req' \in RequestRecords /\ req'.tx = req.tx /\ req'.step = next
        /\ req'.route = req.route /\ req'.role = req.role /\ req'.path = req.path
    BY <2>1, <2>5, <2>6, <2>7 DEF Requests, RequestRecords
  <2>9. req.tx \in 0..Len(req.path) /\ req.tx # 0
    BY <2>1 DEF Requests
  <2>10. req' \in Requests
    BY <2>1, <2>6, <2>8, <2>9, Moves DEF Tx
  <2> QED  BY <1>7, <2>4, <2>10 DEF RunStatement
<1>8. CASE PassStatement
  <2>1. req \in Requests /\ req.step \in 1..Len(Tx.steps) /\ req.tx > 0
    BY <1>8, PendingPlace DEF PassStatement
  <2>2. Len(Tx.steps) \in Nat
    BY <2>1, PathTypes, TransactionParts
  <2>3. req.step + 1 \in 0..(Len(Tx.steps) + 1) /\ req.step + 1 \in Nat
    BY <2>1, <2>2
  <2>4. /\ req' \in RequestRecords /\ req'.tx = req.tx /\ req'.step = req.step + 1
        /\ req'.route = req.route /\ req'.role = req.role /\ req'.path = req.path
    BY <1>8, <2>1, <2>3 DEF PassStatement, Requests, RequestRecords
  <2>5. req.tx \in 0..Len(req.path) /\ req.tx # 0
    BY <2>1 DEF Requests
  <2>6. req' \in Requests
    BY <2>1, <2>3, <2>4, <2>5, Moves DEF Tx
  <2> QED  BY <1>8, <2>6 DEF PassStatement
<1>9. CASE Commit
  BY <1>9, CommitKeeps, GoOnTypes DEF Commit
<1>10. CASE StatementFails
  <2>1. req \in Requests /\ Busy
    BY <1>10 DEF StatementFails, Running, Busy, Idle
  <2>2. Answer(req, "error") \in Requests
    BY <2>1, Answered
  <2>3. req' \in Requests
    BY <1>10, <2>1, <2>2, GoOnTypes DEF StatementFails
  <2> QED  BY <1>10, <2>3 DEF StatementFails
<1>11. CASE Refuse
  BY <1>11, Answered DEF Refuse, Busy, Idle
<1>12. CASE Crash
  BY <1>12, Answered DEF Crash, Busy, Idle
<1>13. CASE Overtake
  <2>1. req \in Requests /\ req.tx > 0
    BY <1>13 DEF Overtake, Busy, Idle
  <2>2. req.path \in PathsOn(Tables) /\ req.tx \in 1..Len(req.path)
    BY <2>1, PathTypes
  <2>3. ASSUME NEW k \in 1..(req.tx - 1)  PROVE ReadIn(req.path[k]) \subseteq Tables
    <3>1. req.path[k] \in TransactionsOn(Tables)
      BY <2>2 DEF PathsOn
    <3> QED  BY <3>1, TransactionParts
  <2>4. Known \subseteq Tables
    BY <2>3 DEF Known
  <2>5. PICK table \in Known : req' = [req EXCEPT !.moved = {table}]
    BY <1>13 DEF Overtake
  <2>6. /\ req' \in RequestRecords /\ req'.tx = req.tx /\ req'.step = req.step
        /\ req'.route = req.route /\ req'.role = req.role /\ req'.path = req.path
    BY <2>1, <2>4, <2>5 DEF Requests, RequestRecords
  <2>7. req' \in Requests
    BY <2>1, <2>6, Stays
  <2> QED  BY <1>13, <2>7 DEF Overtake
<1>14. CASE Return
  BY <1>14, IssuedRoles DEF Return
<1>15. CASE ChangeAccount
  BY <1>15 DEF ChangeAccount
<1>16. CASE Tick
  <2> DEFINE lost == IF token.held THEN 0 ELSE token.lost + 1
  <2>1. token.age + 1 \in Nat /\ lost \in Nat
    OBVIOUS
  <2>2. token' = [token EXCEPT !.age = token.age + 1, !.lost = lost]
    BY <1>16 DEF Tick
  <2> HIDE DEF lost
  <2>3. token' \in [role : Roles \cup {Nobody}, age : Nat, held : BOOLEAN, lost : Nat]
    BY <2>1, <2>2
  <2> QED  BY <1>16, <2>3 DEF Tick
<1>17. CASE UNCHANGED vars
  BY <1>17 DEF vars
<1> QED
  BY <1>2, <1>3, <1>4, <1>5, <1>6, <1>7, <1>8, <1>9, <1>10, <1>11, <1>12, <1>13, <1>14,
     <1>15, <1>16, <1>17 DEF Next

\* Every reachable state has its shape: a request is one of a role its route admits,
\* and is at a place of a path of its route (server.go: RequireRole).
THEOREM ApiTypeCorrect == Spec => []TypeOK
<1>1. Init => TypeOK
  BY DEF Init, TypeOK, NoToken, Clean
<1> QED
  BY <1>1, TypeStep, PTL DEF Spec

-----------------------------------------------------------------------------
(* The role of a request *)

\* A token never counts more time without its role than it counts at all.
TokenAges ==
  /\ token.lost <= token.age
  /\ Busy /\ req.role \in Roles => token.lost <= Life(req.role)

\* The life of a token is a number.
LEMMA LifeTypes == \A role : Life(role) \in Nat
BY LifeAssumption DEF Life

\* A request that goes on is of the same role and route.
LEMMA GoesOnAs ==
  ASSUME NEW r \in Requests, r.path = req.path, NEW i, GoOn(r, i)
  PROVE  req'.role = r.role /\ req'.route = r.route /\ req'.path = r.path /\ req'.org = r.org
BY DEF GoOn, Answer, Requests, RequestRecords

\* So is one that takes any step but its arrival and its return.
LEMMA StaysAs ==
  ASSUME TypeOK, Start \/ Begin \/ RunStatement \/ PassStatement \/ Commit
                 \/ StatementFails \/ Refuse \/ Crash \/ Overtake
  PROVE  /\ req \in Requests /\ Busy /\ token' = token
         /\ req'.role = req.role /\ req'.route = req.route /\ req'.path = req.path
<1>1. req \in Requests /\ Busy /\ token' = token
  <2>1. Busy /\ token' = token
    BY Zenon DEF Start, Begin, RunStatement, Pending, Running, PassStatement, Commit,
                 StatementFails, Refuse, Crash, Overtake
  <2> QED  BY <2>1 DEF TypeOK, Idle, Busy
<1>2. CASE Start
  BY <1>1, <1>2, GoesOnAs DEF Start
<1>3. CASE Begin
  BY <1>1, <1>3 DEF Begin, Requests, RequestRecords
<1>4. CASE RunStatement
  BY <1>1, <1>4 DEF RunStatement, Requests, RequestRecords
<1>5. CASE PassStatement
  BY <1>1, <1>5 DEF PassStatement, Requests, RequestRecords
<1>6. CASE Commit
  BY <1>1, <1>6, CommitKeeps, GoesOnAs
<1>7. CASE StatementFails
  BY <1>1, <1>7, GoesOnAs DEF StatementFails, Answer, Requests, RequestRecords
<1>8. CASE Refuse
  BY <1>1, <1>8 DEF Refuse, Answer, Requests, RequestRecords
<1>9. CASE Crash
  BY <1>1, <1>9 DEF Crash, Answer, Requests, RequestRecords
<1>10. CASE Overtake
  BY <1>1, <1>10 DEF Overtake, Requests, RequestRecords
<1> QED
  BY <1>2, <1>3, <1>4, <1>5, <1>6, <1>7, <1>8, <1>9, <1>10

\* A step keeps TokenAges: the age is looked at when a request arrives, and no time
\* passes while it is served.
LEMMA AgesStep ==
  ASSUME TypeOK, TokenAges, [Next]_vars
  PROVE  TokenAges'
<1>1. ASSUME NEW route \in AllRoutes, Request(route)  PROVE TokenAges'
  <2>1. PICK path \in route.paths :
            req' = [at |-> "busy", route |-> route, role |-> token.role, org |-> Home,
                    path |-> path, tx |-> 0, step |-> 0, dirty |-> {}, wrote |-> FALSE,
                    moved |-> {}, stale |-> FALSE, answer |-> Nothing]
    BY <1>1 DEF Request, Arrive
  <2>2. token.age <= Life(token.role) /\ token' = token /\ req'.role = token.role
    BY <1>1, <2>1 DEF Request, ParseAccessToken, Arrive
  <2>3. token.lost <= Life(token.role)
    BY <2>2, LifeTypes DEF TypeOK, TokenAges
  <2> QED  BY <2>2, <2>3 DEF TokenAges
<1>2. ASSUME NEW route \in AllRoutes, PublicRequest(route) \/ RunJob(route)  PROVE TokenAges'
  <2>1. token' = token /\ req'.role \notin Roles
    BY <1>2 DEF PublicRequest, RunJob, Arrive, Nobody, Job, Roles
  <2> QED  BY <2>1 DEF TokenAges
<1>3. CASE Start \/ Begin \/ RunStatement \/ PassStatement \/ Commit
           \/ StatementFails \/ Refuse \/ Crash \/ Overtake
  BY <1>3, StaysAs DEF TokenAges
<1>4. CASE Return
  <2>1. ~Busy'
    BY <1>4 DEF Return, Idle, Busy
  <2>2. token'.lost <= token'.age
    BY <1>4 DEF Return, TokenAges
  <2> QED  BY <2>1, <2>2 DEF TokenAges
<1>5. CASE ChangeAccount
  <2>1. token'.lost = 0 /\ token'.age = token.age /\ req' = req
    BY <1>5 DEF ChangeAccount, TypeOK
  <2> QED  BY <2>1, LifeTypes DEF TokenAges, TypeOK, Busy
<1>6. CASE Tick
  <2>1. token'.age = token.age + 1 /\ token'.lost <= token.lost + 1
    BY <1>6 DEF Tick, TypeOK
  <2>2. ~Busy'
    BY <1>6 DEF Tick, Idle, Busy
  <2>3. token'.lost <= token'.age
    BY <1>6, <2>1, TypeStep DEF TokenAges, TypeOK
  <2> QED  BY <2>2, <2>3 DEF TokenAges
<1>7. CASE UNCHANGED vars
  BY <1>7 DEF vars, TokenAges, Busy
<1> QED
  BY <1>1, <1>2, <1>3, <1>4, <1>5, <1>6, <1>7 DEF Next

\* A role reaches no further than the life of one token after the account lost it
\* (middleware.go: the role is the token's; ParseAccessToken: until the token expires).
THEOREM AuthorityBoundedHolds == Spec => []AuthorityBounded
<1>1. Init => TokenAges
  BY DEF Init, NoToken, Idle, TokenAges, Busy
<1>2. TokenAges => AuthorityBounded
  BY DEF TokenAges, AuthorityBounded
<1> QED
  BY <1>1, <1>2, AgesStep, ApiTypeCorrect, PTL DEF Spec

-----------------------------------------------------------------------------
(* The center of a statement *)

\* The tenant is set by the transaction, for its own center, and with it gone.
TenantSet ==
  /\ conn.session = Nothing
  /\ ~Running => conn.local = Nothing
  /\ Running => \A n \in 1..(req.step - 1) : Tx.steps[n] = Do(SetTenant) => conn.local = req.org

\* A request that goes on is in no transaction.
LEMMA GoesOnUnstarted ==
  ASSUME NEW r \in Requests, NEW i, GoOn(r, i)
  PROVE  ~Running'
<1>1. ASSUME NEW a, req' = Answer(r, a)  PROVE ~Running'
  BY <1>1 DEF Answer, Requests, RequestRecords, Running, Busy
<1>2. ASSUME NEW j, req' = [r EXCEPT !.tx = j, !.step = 0, !.dirty = {}]  PROVE ~Running'
  <2>1. req'.step = 0
    BY <1>2 DEF Requests, RequestRecords
  <2> QED  BY <2>1 DEF Running
<1> QED
  BY <1>1, <1>2 DEF GoOn

\* A step keeps TenantSet.
LEMMA TenantStep ==
  ASSUME TypeOK, TenantSet, [Next]_vars
  PROVE  TenantSet'
<1>1. conn \in [session : Orgs \cup {Nothing}, local : Orgs \cup {Nothing}]
  BY DEF TypeOK
<1>2. ASSUME NEW route \in AllRoutes, Request(route) \/ PublicRequest(route) \/ RunJob(route)
      PROVE  TenantSet'
  <2>1. conn' = conn /\ req = Idle /\ ~Running'
    BY <1>2 DEF Request, PublicRequest, RunJob, Arrive, Running
  <2> QED  BY <2>1 DEF TenantSet, Running, Busy, Idle
<1>3. CASE Start
  <2>1. req \in Requests /\ req.step = 0 /\ conn' = conn
    BY <1>3, StaysAs DEF Start, Requests, RequestRecords
  <2>2. ~Running /\ ~Running'
    BY <1>3, <2>1, GoesOnUnstarted DEF Start, Running
  <2> QED  BY <2>1, <2>2 DEF TenantSet
<1>4. CASE Begin
  <2>1. ~Running /\ conn' = conn
    BY <1>4 DEF Begin, Running
  <2>2. req'.step = 1
    BY <1>4, StaysAs DEF Begin, Requests, RequestRecords
  <2> QED  BY <2>1, <2>2 DEF TenantSet
<1>5. CASE RunStatement
  <2>1. req \in Requests /\ Running /\ req.step \in 1..Len(Tx.steps) /\ req.tx > 0
    BY <1>5, PendingPlace DEF RunStatement
  <2>2. Statement_ \in StatementsOn(Tables)
    <3>1. Tx \in TransactionsOn(Tables)
      BY <2>1, PathTypes
    <3> QED  BY <2>1, <3>1, TransactionParts DEF Statement_
  <2>3. \/ Statement_.sets = "transaction" /\ conn' = [conn EXCEPT !.local = req.org]
        \/ Statement_.sets = "nothing" /\ conn' = conn
    BY <1>5, <2>2 DEF RunStatement, StatementsOn
  <2>4. PICK next \in {req.step, req.step + 1} :
           req' = [req EXCEPT !.step = next, !.dirty = @ \cup Statement_.writes]
    BY <1>5 DEF RunStatement
  <2>5. req'.step = next /\ Tx' = Tx /\ req'.org = req.org /\ Running'
    BY <2>1, <2>4 DEF Requests, RequestRecords, Tx, Running, Busy
  <2>6. conn'.session = Nothing /\ (conn'.local = conn.local \/ conn'.local = req.org)
    BY <1>1, <2>3 DEF TenantSet
  <2>7. ASSUME NEW n \in 1..(next - 1), Tx.steps[n] = Do(SetTenant)
        PROVE  conn'.local = req.org
    <3>1. CASE n = req.step
      <4>1. Statement_.sets = "transaction"
        BY <2>7, <3>1 DEF Statement_, Do, SetTenant, Statement
      <4> QED  BY <1>1, <2>3, <4>1
    <3>2. CASE n # req.step
      <4>1. n \in 1..(req.step - 1)
        BY <2>1, <3>2
      <4> QED  BY <2>1, <2>6, <2>7, <4>1 DEF TenantSet
    <3> QED  BY <3>1, <3>2
  <2> QED  BY <2>5, <2>6, <2>7 DEF TenantSet
<1>6. CASE PassStatement
  <2>1. req \in Requests /\ Running /\ req.step \in 1..Len(Tx.steps) /\ conn' = conn
    BY <1>6, PendingPlace DEF PassStatement
  <2>2. /\ req'.step = req.step + 1 /\ Tx' = Tx /\ req'.org = req.org /\ Running'
    BY <1>6, <2>1 DEF PassStatement, Requests, RequestRecords, Tx, Running, Busy
  <2>3. Tx.steps[req.step] # Do(SetTenant)
    BY <1>6 DEF PassStatement, Do
  <2>4. ASSUME NEW n \in 1..req.step, Tx.steps[n] = Do(SetTenant)
        PROVE  conn.local = req.org
    <3>1. n \in 1..(req.step - 1)
      BY <2>1, <2>3, <2>4
    <3> QED  BY <2>1, <2>4, <3>1 DEF TenantSet
  <2>5. req'.step - 1 = req.step
    BY <2>1, <2>2
  <2> QED  BY <2>1, <2>2, <2>4, <2>5 DEF TenantSet
<1>7. CASE Commit
  <2>1. conn' = [conn EXCEPT !.local = Nothing] /\ ~Running'
    BY <1>7, CommitKeeps, GoesOnUnstarted DEF Commit
  <2> QED  BY <1>1, <2>1 DEF TenantSet
<1>8. CASE StatementFails
  <2>1. req \in Requests /\ conn' = [conn EXCEPT !.local = Nothing]
    BY <1>8, StaysAs DEF StatementFails
  <2>2. ~Running'
    BY <1>8, <2>1, GoesOnUnstarted
       DEF StatementFails, Answer, Requests, RequestRecords, Running, Busy
  <2> QED  BY <1>1, <2>1, <2>2 DEF TenantSet
<1>9. CASE Refuse
  <2>1. req \in Requests /\ conn' = conn /\ ~Running /\ ~Running'
    BY <1>9, StaysAs DEF Refuse, Answer, Requests, RequestRecords, Running, Busy
  <2> QED  BY <2>1 DEF TenantSet
<1>10. CASE Crash
  <2>1. req \in Requests /\ conn' = [conn EXCEPT !.local = Nothing] /\ ~Running'
    BY <1>10, StaysAs DEF Crash, Answer, Requests, RequestRecords, Running, Busy
  <2> QED  BY <1>1, <2>1 DEF TenantSet
<1>11. CASE Overtake
  <2>1. /\ conn' = conn /\ req'.step = req.step /\ Tx' = Tx /\ req'.org = req.org
        /\ req'.at = req.at
    BY <1>11, StaysAs DEF Overtake, Requests, RequestRecords, Tx
  <2> QED  BY <2>1 DEF TenantSet, Running, Busy
<1>12. CASE Return
  <2>1. conn' = conn /\ ~Running /\ ~Running'
    BY <1>12 DEF Return, Idle, Running, Busy
  <2> QED  BY <2>1 DEF TenantSet
<1>13. CASE ChangeAccount \/ Tick \/ UNCHANGED vars
  <2>1. UNCHANGED <<conn, req>>
    BY <1>13 DEF ChangeAccount, Tick, vars
  <2> QED  BY <2>1 DEF TenantSet, Running, Busy, Tx
<1> QED
  BY <1>2, <1>3, <1>4, <1>5, <1>6, <1>7, <1>8, <1>9, <1>10, <1>11, <1>12, <1>13 DEF Next

\* Every statement on a table with a row policy, of every route and job, runs with the
\* center of its request set, and no connection goes back to the pool with a center set
\* (postgres.go: WithTenant, SetTenant).
THEOREM RlsSeesItsTenantHolds == Spec => []RlsSeesItsTenant
<1>1. Init => TenantSet
  BY DEF Init, Clean, Idle, TenantSet, Running, Busy
<1>2. TypeOK /\ TenantSet => RlsSeesItsTenant
  <2> SUFFICES ASSUME TypeOK, TenantSet  PROVE RlsSeesItsTenant
    OBVIOUS
  <2>1. ASSUME Pending, ~(Touches(Statement_) \subseteq Unsecured)
        PROVE  CurrentOrg = req.org
    <3>1. req \in Requests /\ Running /\ req.step \in 1..Len(Tx.steps) /\ req.tx > 0
      BY <2>1, PendingPlace
    <3>2. Tx.steps \in Framed(Tables)
      BY <3>1, PathTypes DEF TransactionsOn
    <3>3. PICK n \in 1..(req.step - 1) : Tx.steps[n] = Do(SetTenant)
      BY <2>1, <3>1, <3>2 DEF Framed, Statement_
    <3>4. conn.local = req.org
      BY <3>1, <3>3 DEF TenantSet
    <3> QED  BY <3>4 DEF CurrentOrg, TenantSet
  <2>2. ASSUME req = Idle  PROVE conn = Clean
    <3>1. conn.session = Nothing /\ conn.local = Nothing
      BY <2>2 DEF TenantSet, Running, Busy, Idle
    <3> QED  BY <3>1 DEF TypeOK, Clean
  <2> QED  BY <2>1, <2>2 DEF RlsSeesItsTenant
<1> QED
  BY <1>1, <1>2, TenantStep, ApiTypeCorrect, PTL DEF Spec

-----------------------------------------------------------------------------
(* The money *)

\* No request of a manager, a mentor, a teacher or a student runs a statement on the
\* expenses or the salaries (server.go: financeAPI).
THEOREM MoneyKeptFromHolds == Spec => []MoneyKeptFrom
<1>1. TypeOK => MoneyKeptFrom
  <2> SUFFICES ASSUME TypeOK, Pending, req.role \in FrontDesk
               PROVE  Touches(Statement_) \cap Money = {}
    BY DEF MoneyKeptFrom, FrontDesk
  <2>1. req \in Requests /\ req.step \in 1..Len(Tx.steps) /\ req.tx > 0
    BY PendingPlace
  <2>2. /\ req.route \in AllRoutes /\ req.role \in req.route.gate
        /\ req.path \in req.route.paths /\ req.tx \in 1..Len(req.path)
    BY <2>1, PathTypes DEF Requests
  <2>3. req.route \in RoutesOn(Everyday)
    BY <2>2, MoneyRoutes
  <2>4. Tx \in TransactionsOn(Everyday)
    BY <2>2, <2>3 DEF Tx, RoutesOn, PathsOn
  <2>5. Statement_ \in StatementsOn(Everyday)
    BY <2>1, <2>4, TransactionParts DEF Statement_
  <2> QED  BY <2>5 DEF StatementsOn, Touches, Everyday
<1> QED
  BY <1>1, ApiTypeCorrect, PTL

-----------------------------------------------------------------------------
(* What an error leaves behind, and what a stale read changes *)

\* What the transaction of the request has written so far is what its statements write.
DirtyWritten ==
  Busy => IF req.tx = 0 THEN req.dirty = {} ELSE req.dirty \subseteq WrittenIn(Tx)

\* A request that has committed a change has been through a transaction that makes one,
\* and is past it or in its loop.
WroteBefore ==
  Busy /\ req.wrote =>
     \E i \in 1..Len(req.path) :
        WrittenIn(req.path[i]) # {} /\ req.tx > 0 /\ OneLoop(i, req.tx)

\* Loops that meet are one loop.
LEMMA LoopOfLoop ==
  ASSUME NEW i \in Int, NEW j \in Int, NEW k \in Int, OneLoop(i, j), OneLoop(j, k)
  PROVE  OneLoop(i, k)
<1>1. ASSUME NEW n \in k..i  PROVE n \in j..i \/ n \in k..j
  BY <1>1
<1> QED
  BY <1>1 DEF OneLoop

\* What comes after is later on the path, or in the same loop.
LEMMA AfterIsLater ==
  ASSUME NEW i \in Nat, req.path \in PathsOn(Tables), NEW j \in After(i)
  PROVE  j \in 1..Len(req.path) /\ OneLoop(i, j)
<1>1. j \in 1..Len(req.path) /\ (j > i \/ OneLoop(i, j))
  BY DEF After
<1>2. j > i => j..i = {}
  BY <1>1
<1> QED
  BY <1>1, <1>2 DEF OneLoop

\* Where a request goes on: past its place or in its loop, with nothing written yet there.
LEMMA GoesOnLater ==
  ASSUME TypeOK, Busy, NEW r \in Requests, r.path = req.path, r.tx = req.tx,
         GoOn(r, req.tx)
  PROVE  /\ req'.wrote = r.wrote /\ req'.stale = r.stale
         /\ Busy' => /\ req'.dirty = {} /\ req'.tx \in 1..Len(req.path)
                     /\ OneLoop(req.tx, req'.tx)
<1>1. req \in Requests /\ req.path \in PathsOn(Tables) /\ req.tx \in Nat
  BY PathTypes DEF TypeOK, Busy, Idle, Requests, RequestRecords
<1>2. ASSUME NEW a, req' = Answer(r, a)
      PROVE  req'.wrote = r.wrote /\ req'.stale = r.stale /\ ~Busy'
  BY <1>2 DEF Answer, Requests, RequestRecords, Busy
<1>3. ASSUME NEW j \in After(req.tx), req' = [r EXCEPT !.tx = j, !.step = 0, !.dirty = {}]
      PROVE  /\ req'.wrote = r.wrote /\ req'.stale = r.stale /\ req'.dirty = {} /\ req'.tx = j
  BY <1>3 DEF Requests, RequestRecords
<1> QED
  BY <1>1, <1>2, <1>3, AfterIsLater DEF GoOn

\* A request that is refused, lost or returned is served no more.
LEMMA EndsThere ==
  ASSUME TypeOK, Refuse \/ Crash \/ Return
  PROVE  ~Busy'
<1>1. CASE Refuse \/ Crash
  <2>1. PICK a : req' = Answer(req, a)
    BY <1>1 DEF Refuse, Crash
  <2>2. req \in Requests
    BY <1>1, StaysAs
  <2> QED  BY <2>1, <2>2 DEF Answer, Requests, RequestRecords, Busy
<1>2. CASE Return
  BY <1>2 DEF Return, Idle, Busy
<1> QED
  BY <1>1, <1>2

\* A step keeps DirtyWritten.
LEMMA DirtyStep ==
  ASSUME TypeOK, DirtyWritten, [Next]_vars
  PROVE  DirtyWritten'
<1>1. ASSUME NEW route \in AllRoutes, Request(route) \/ PublicRequest(route) \/ RunJob(route)
      PROVE  DirtyWritten'
  <2>1. req'.tx = 0 /\ req'.dirty = {}
    BY <1>1 DEF Request, PublicRequest, RunJob, Arrive
  <2> QED  BY <2>1 DEF DirtyWritten
<1>2. CASE RunStatement
  <2>1. req \in Requests /\ req.step \in 1..Len(Tx.steps) /\ req.tx > 0 /\ Busy
    BY <1>2, PendingPlace DEF RunStatement, Pending, Running
  <2>2. Statement_.writes \subseteq WrittenIn(Tx)
    BY <2>1 DEF Statement_, WrittenIn
  <2>3. req'.dirty = req.dirty \cup Statement_.writes /\ req'.tx = req.tx /\ Tx' = Tx
    BY <1>2, <2>1 DEF RunStatement, Requests, RequestRecords, Tx
  <2> QED  BY <2>1, <2>2, <2>3 DEF DirtyWritten, Requests, RequestRecords
<1>3. ASSUME NEW r \in Requests, r.path = req.path, r.tx = req.tx, Busy, GoOn(r, req.tx)
      PROVE  DirtyWritten'
  BY <1>3, GoesOnLater DEF DirtyWritten
<1>4. CASE Start
  BY <1>3, <1>4, StaysAs DEF Start
<1>5. CASE Commit
  BY <1>3, <1>5, CommitKeeps
<1>6. CASE StatementFails
  <2>1. CASE req' = Answer(req, "error")
    BY <1>6, <2>1, StaysAs DEF Answer, Requests, RequestRecords, DirtyWritten, Busy
  <2> QED  BY <1>3, <1>6, <2>1, StaysAs DEF StatementFails
<1>7. CASE Begin \/ PassStatement \/ Overtake
  <2>1. req'.dirty = req.dirty /\ req'.tx = req.tx /\ Tx' = Tx /\ req'.at = req.at
    BY <1>7, StaysAs DEF Begin, PassStatement, Overtake, Requests, RequestRecords, Tx
  <2> QED  BY <2>1 DEF DirtyWritten, Busy
<1>8. CASE Refuse \/ Crash \/ Return
  BY <1>8, EndsThere DEF DirtyWritten
<1>9. CASE ChangeAccount \/ Tick \/ UNCHANGED vars
  <2>1. req' = req
    BY <1>9 DEF ChangeAccount, Tick, vars
  <2> QED  BY <2>1 DEF DirtyWritten, Busy, Tx
<1> QED
  BY <1>1, <1>2, <1>4, <1>5, <1>6, <1>7, <1>8, <1>9 DEF Next

\* A step keeps WroteBefore.
LEMMA WroteStep ==
  ASSUME TypeOK, DirtyWritten, WroteBefore, [Next]_vars
  PROVE  WroteBefore'
<1>1. ASSUME NEW route \in AllRoutes, Request(route) \/ PublicRequest(route) \/ RunJob(route)
      PROVE  WroteBefore'
  <2>1. req'.wrote = FALSE
    BY <1>1 DEF Request, PublicRequest, RunJob, Arrive
  <2> QED  BY <2>1 DEF WroteBefore
<1>2. ASSUME NEW r \in Requests, r.path = req.path, r.tx = req.tx, Busy, GoOn(r, req.tx),
             NEW i \in 1..Len(req.path), WrittenIn(req.path[i]) # {}, req.tx > 0,
             i = req.tx \/ OneLoop(i, req.tx)
      PROVE  WroteBefore'
  <2>1. SUFFICES ASSUME Busy'
                 PROVE  /\ i \in 1..Len(req'.path) /\ WrittenIn(req'.path[i]) # {}
                        /\ req'.tx > 0 /\ OneLoop(i, req.tx)'
    BY DEF WroteBefore
  <2>2. req \in Requests /\ req.path \in PathsOn(Tables) /\ req.tx \in Nat
    BY <1>2, PathTypes DEF TypeOK, Busy, Idle, Requests, RequestRecords
  <2>3. req'.path = req.path
    BY <1>2, GoesOnAs
  <2>4. req'.tx \in 1..Len(req.path) /\ OneLoop(req.tx, req'.tx)
    BY <1>2, <2>1, GoesOnLater
  <2>5. i \in Int /\ req.tx \in Int /\ req'.tx \in Int
    BY <2>2, <2>4
  <2>6. OneLoop(i, req'.tx)
    BY <1>2, <2>4, <2>5, LoopOfLoop
  <2> QED  BY <1>2, <2>3, <2>4, <2>6 DEF OneLoop
<1>3. ASSUME NEW r \in Requests, r.path = req.path, r.tx = req.tx, Busy, GoOn(r, req.tx),
             r.wrote = req.wrote
      PROVE  WroteBefore'
  BY <1>2, <1>3, GoesOnLater DEF WroteBefore
<1>4. CASE Start
  BY <1>3, <1>4, StaysAs DEF Start
<1>5. CASE Commit
  <2>1. CASE req.wrote
    BY <1>2, <1>5, <2>1, CommitKeeps DEF WroteBefore
  <2>2. CASE ~req.wrote /\ req.dirty # {}
    <3>1. req.tx > 0
      BY <1>5, CommitKeeps DEF Commit, Running, Requests, RequestRecords
    <3>2. req.tx \in 1..Len(req.path) /\ WrittenIn(req.path[req.tx]) # {}
      BY <1>5, <2>2, <3>1, CommitKeeps, PathTypes DEF DirtyWritten, Tx
    <3>3. Committed \in Requests /\ Committed.path = req.path /\ Committed.tx = req.tx
      BY <1>5, CommitKeeps
    <3>4. Busy /\ GoOn(Committed, req.tx)
      BY <1>5, CommitKeeps
    <3> HIDE DEF Committed
    <3> QED  BY <1>2, <3>1, <3>2, <3>3, <3>4
  <2>3. CASE ~req.wrote /\ req.dirty = {}
    <3>1. Committed.wrote = req.wrote
      BY <1>5, <2>3, CommitKeeps DEF Requests, RequestRecords
    <3> QED  BY <1>3, <1>5, <3>1, CommitKeeps
  <2> QED  BY <2>1, <2>2, <2>3
<1>6. CASE StatementFails
  <2>1. CASE req' = Answer(req, "error")
    BY <1>6, <2>1, StaysAs DEF Answer, Requests, RequestRecords, WroteBefore, Busy
  <2> QED  BY <1>3, <1>6, <2>1, StaysAs DEF StatementFails
<1>7. CASE Begin \/ PassStatement \/ RunStatement \/ Overtake
  <2>1. /\ req'.wrote = req.wrote /\ req'.tx = req.tx /\ req'.at = req.at
        /\ req'.path = req.path
    BY <1>7, StaysAs DEF Begin, PassStatement, RunStatement, Overtake, Requests, RequestRecords
  <2> QED  BY <2>1 DEF WroteBefore, Busy, OneLoop
<1>8. CASE Refuse \/ Crash \/ Return
  BY <1>8, EndsThere DEF WroteBefore
<1>9. CASE ChangeAccount \/ Tick \/ UNCHANGED vars
  <2>1. req' = req
    BY <1>9 DEF ChangeAccount, Tick, vars
  <2> QED  BY <2>1 DEF WroteBefore, Busy, OneLoop
<1> QED
  BY <1>1, <1>4, <1>5, <1>6, <1>7, <1>8, <1>9 DEF Next

\* A request of any route but the staged ones that is answered with an error has
\* committed nothing (leads.go convert, group/service.go AddMember, salary/service.go
\* SetRule are of the staged ones).
THEOREM PartialWritesExplainedHolds == Spec => []PartialWritesExplained
<1>1. Init => DirtyWritten /\ WroteBefore /\ PartialWritesExplained
  BY DEF Init, Idle, DirtyWritten, WroteBefore, PartialWritesExplained, Busy
<1>2. TypeOK /\ WroteBefore /\ PartialWritesExplained /\ [Next]_vars => PartialWritesExplained'
  <2> SUFFICES ASSUME TypeOK, WroteBefore, PartialWritesExplained, [Next]_vars,
                      req'.at = "answered", req'.answer = "error", req'.wrote, req'.role # Job
               PROVE  req'.route \in Staged
    BY DEF PartialWritesExplained
  <2>1. ASSUME req \in Requests, Busy, req.tx > 0 => Tx.must, req' = Answer(req, "error")
        PROVE  req'.route \in Staged
    <3>1. req.wrote /\ req'.route = req.route /\ req'.role = req.role
      BY <2>1 DEF Answer, Requests, RequestRecords
    <3>2. PICK i \in 1..Len(req.path) :
             WrittenIn(req.path[i]) # {} /\ req.tx > 0 /\ OneLoop(i, req.tx)
      BY <2>1, <3>1 DEF WroteBefore
    <3>3. req.tx \in 1..Len(req.path) /\ req.path[req.tx].must
      BY <2>1, <3>2, PathTypes DEF Tx
    <3>4. ~Whole(req.path)
      BY <3>2, <3>3 DEF Whole, OneLoop
    <3>5. req.route \in AllRoutes /\ req.path \in req.route.paths /\ req.role \in req.route.gate
      BY <2>1, PathTypes DEF Requests
    <3> QED  BY <3>1, <3>4, <3>5, WholeRoutes
  <2>2. ASSUME NEW r \in Requests, r.at = "busy", NEW i, GoOn(r, i)
        PROVE  req'.route \in Staged
    <3>1. ASSUME NEW a \in Verdicts(r), req' = Answer(r, a)
          PROVE  req'.route \in Staged
      <4>1. a = "error" /\ req'.route = r.route /\ req'.role = r.role
        BY <3>1 DEF Answer, Requests, RequestRecords
      <4>2. r.route.ends # {"ok"}
        BY <4>1 DEF Verdicts
      <4>3. r.route \in AllRoutes /\ r.route.gate # {Job}
        BY <4>1 DEF Requests, RequestRecords
      <4> QED  BY <4>1, <4>2, <4>3, WholeRoutes
    <3>2. ASSUME NEW j, req' = [r EXCEPT !.tx = j, !.step = 0, !.dirty = {}]
          PROVE  FALSE
      BY <2>2, <3>2 DEF Requests, RequestRecords
    <3> QED  BY <2>2, <3>1, <3>2 DEF GoOn
  <2>3. CASE Start
    BY <2>2, <2>3, StaysAs DEF Start, Busy
  <2>4. CASE Commit
    BY <2>2, <2>4, CommitKeeps
  <2>5. CASE StatementFails
    <3>1. CASE Tx.must
      BY <2>1, <2>5, <3>1, StaysAs DEF StatementFails
    <3>2. CASE ~Tx.must
      BY <2>2, <2>5, <3>2, StaysAs DEF StatementFails, Busy
    <3> QED  BY <3>1, <3>2
  <2>6. CASE Refuse
    BY <2>1, <2>6, StaysAs DEF Refuse
  <2>7. CASE Begin \/ PassStatement \/ RunStatement \/ Overtake
    <3>1. req'.at = req.at
      BY <2>7, StaysAs DEF Begin, PassStatement, RunStatement, Overtake, Requests, RequestRecords
    <3> QED  BY <2>7, <3>1, StaysAs DEF Busy
  <2>8. CASE Crash
    BY <2>8, StaysAs DEF Crash, Answer, Requests, RequestRecords
  <2>9. CASE Return
    BY <2>9 DEF Return, Idle
  <2>10. ASSUME NEW route \in AllRoutes, Request(route) \/ PublicRequest(route) \/ RunJob(route)
         PROVE  FALSE
    BY <2>10 DEF Request, PublicRequest, RunJob, Arrive
  <2>11. CASE ChangeAccount \/ Tick \/ UNCHANGED vars
    BY <2>11 DEF ChangeAccount, Tick, vars, PartialWritesExplained
  <2> QED
    BY <2>3, <2>4, <2>5, <2>6, <2>7, <2>8, <2>9, <2>10, <2>11 DEF Next
<1> QED
  BY <1>1, <1>2, DirtyStep, WroteStep, ApiTypeCorrect, PTL DEF Spec

\* What a request writes in a transaction it has not read before without reading it again.
LEMMA NothingStale ==
  ASSUME req \in Requests, req.tx > 0, Fresh(req.path)
  PROVE  Known \cap WrittenIn(Tx) = {}
<1>1. req.tx \in 1..Len(req.path)
  BY PathTypes
<1>2. ASSUME NEW table \in Known, table \in WrittenIn(Tx)  PROVE FALSE
  <2>1. PICK k \in 1..(req.tx - 1) : table \in ReadIn(req.path[k])
    BY DEF Known
  <2>2. table \notin ReadIn(Tx)
    BY DEF Known
  <2>3. (ReadIn(req.path[k]) \ ReadIn(Tx)) \cap WrittenIn(Tx) = {}
    <3>1. (ReadIn(req.path[k]) \ ReadIn(req.path[req.tx])) \cap WrittenIn(req.path[req.tx]) = {}
      BY <1>1, <2>1, Zenon DEF Fresh
    <3> QED  BY <3>1 DEF Tx
  <2> QED  BY <1>2, <2>1, <2>2, <2>3
<1> QED
  BY <1>2

\* No request of any route but those that check and then act changes a table by what it
\* read of it in an earlier transaction and others have changed since.
THEOREM StaleWritesExplainedHolds == Spec => []StaleWritesExplained
<1>1. Init => DirtyWritten /\ StaleWritesExplained
  BY DEF Init, Idle, DirtyWritten, StaleWritesExplained, Busy
<1>2. TypeOK /\ DirtyWritten /\ StaleWritesExplained /\ [Next]_vars => StaleWritesExplained'
  <2> SUFFICES ASSUME TypeOK, DirtyWritten, StaleWritesExplained, [Next]_vars,
                      req' # Idle, req'.stale
               PROVE  req'.route \in CheckThenAct
    BY DEF StaleWritesExplained
  <2>1. ASSUME req \in Requests, req'.route = req.route, req.stale
        PROVE  req'.route \in CheckThenAct
    BY <2>1 DEF StaleWritesExplained, Idle, Requests, RequestRecords
  <2>2. CASE Start
    BY <2>1, <2>2, StaysAs, GoesOnLater DEF Start
  <2>3. CASE Commit
    <3>1. req \in Requests /\ Busy /\ req'.route = req.route /\ req'.stale = Committed.stale
      BY <2>3, CommitKeeps, StaysAs, GoesOnLater
    <3>2. CASE req.stale
      BY <2>1, <3>1, <3>2
    <3>3. CASE ~req.stale
      <4>1. req.dirty \cap Known # {} /\ req.tx > 0
        BY <2>3, <3>1, <3>3, CommitKeeps DEF Commit, Running, Requests, RequestRecords
      <4>2. Known \cap WrittenIn(Tx) # {}
        BY <3>1, <4>1 DEF DirtyWritten
      <4>3. ~Fresh(req.path)
        BY <3>1, <4>1, <4>2, NothingStale
      <4>4. req.route \in AllRoutes /\ req.path \in req.route.paths
        BY <3>1, PathTypes DEF Requests
      <4> QED  BY <3>1, <4>3, <4>4, FreshRoutes
    <3> QED  BY <3>2, <3>3
  <2>4. CASE StatementFails
    <3>1. CASE req' = Answer(req, "error")
      BY <2>1, <2>4, <3>1, StaysAs DEF Answer, Requests, RequestRecords
    <3> QED  BY <2>1, <2>4, <3>1, StaysAs, GoesOnLater DEF StatementFails
  <2>5. CASE Begin \/ PassStatement \/ RunStatement \/ Overtake
    <3>1. req'.stale = req.stale
      BY <2>5, StaysAs DEF Begin, PassStatement, RunStatement, Overtake, Requests, RequestRecords
    <3> QED  BY <2>1, <2>5, <3>1, StaysAs
  <2>6. CASE Refuse \/ Crash
    <3>1. req'.stale = req.stale
      BY <2>6, StaysAs DEF Refuse, Crash, Answer, Requests, RequestRecords
    <3> QED  BY <2>1, <2>6, <3>1, StaysAs
  <2>7. CASE Return
    BY <2>7 DEF Return
  <2>8. ASSUME NEW route \in AllRoutes, Request(route) \/ PublicRequest(route) \/ RunJob(route)
        PROVE  FALSE
    BY <2>8 DEF Request, PublicRequest, RunJob, Arrive
  <2>9. CASE ChangeAccount \/ Tick \/ UNCHANGED vars
    BY <2>9 DEF ChangeAccount, Tick, vars, StaleWritesExplained
  <2> QED
    BY <2>2, <2>3, <2>4, <2>5, <2>6, <2>7, <2>8, <2>9 DEF Next
<1> QED
  BY <1>1, <1>2, DirtyStep, ApiTypeCorrect, PTL DEF Spec

=============================================================================
