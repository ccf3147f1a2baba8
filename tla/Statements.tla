----------------------------- MODULE Statements -----------------------------
(***************************************************************************)
(* The statements of src/db/query/query.sql, as the generated functions of *)
(* src/internal/repo/sqlc run them, those that something calls: the tables *)
(* each one names.  A statement is a record of the tables it reads, the    *)
(* tables it writes and whether it sets the tenant of its transaction.     *)
(* Columns, conditions and rows are left out, and so are the cascades of   *)
(* foreign keys, which the database runs past the row policies.            *)
(***************************************************************************)

Statement(reads, writes, sets) == [reads |-> reads, writes |-> writes, sets |-> sets]

Reads(tables) == Statement(tables, {}, "nothing")
Writes(tables) == Statement({}, tables, "nothing")
ReadsInto(tables, written) == Statement(tables, written, "nothing")

Touches(s) == s.reads \cup s.writes

\* The tables with a row policy, forced on their owner too: it shows the rows of
\* the center the transaction has set.
Secured ==
    {"activities", "ai_advice_feedback", "attendance_records", "branches", "courses",
     "enrollments", "exam_results", "exams", "expenses", "group_members", "groups",
     "homework_assignments", "homework_records", "homework_submissions",
     "intervention_tasks", "invoices", "leads", "lessons", "notes", "notifications",
     "obstacle_options", "payments", "rooms", "salary_group_rules", "salary_rules",
     "salary_slips", "shop_items", "shop_purchases", "student_points", "students",
     "surveys", "users"}

\* The tables without one.
Unsecured ==
    {"organizations", "signup_requests", "plans", "refresh_sessions",
     "bot_conversations", "invite_tokens"}

Tables == Secured \cup Unsecured

\* Mutant: set_config('app.current_org', org, false).
SetTenantOfSession == Statement({}, {}, "session")

\* SELECT set_config('app.current_org', org, true): until the transaction ends.
SetTenant == Statement({}, {}, "transaction")

\* student_auth_lookup runs as its owner, past the row policies: it finds a
\* phone number in every center.
StudentAuthLookup == Reads({})

\* The row lock an award takes before it prices its coins.
LockStudentXp == Reads({"students"})

\* organizations
CreateOrganization == Writes({"organizations"})
GetOrganizationBySlug == Reads({"organizations"})
GetOrganizationByID == Reads({"organizations"})
SlugExists == Reads({"organizations"})
ListAllOrgIDs == Reads({"organizations"})
ListAllOrganizations == Reads({"organizations"})
UpdateOrgPlanStatus == Writes({"organizations"})
UpdateOrgBilling == Writes({"organizations"})
GetGraceLessons == Reads({"organizations"})
SetGraceLessons == Writes({"organizations"})
GetGamification == Reads({"organizations"})
SetGamification == Writes({"organizations"})

\* signup requests
CreateSignupRequest == Writes({"signup_requests"})
ListSignupRequests == Reads({"signup_requests"})
UpdateSignupRequestStatus == Writes({"signup_requests"})

\* branches
CreateBranch == Writes({"branches"})
ListBranches == Reads({"branches"})
UpdateBranch == Writes({"branches"})
DeleteBranch == Writes({"branches"})

\* plans
ListActivePlans == Reads({"plans"})
ListAllPlans == Reads({"plans"})
CreatePlan == Writes({"plans"})
UpdatePlan == Writes({"plans"})
DeletePlan == Writes({"plans"})

\* users
CountUsersInOrg == Reads({"users"})
CreateUser == Writes({"users"})
GetUserByEmail == Reads({"users"})
GetUserByID == Reads({"users"})
ListUsersByRole == Reads({"users"})
CreateTeacherUser == Writes({"users"})
CreateStaffUser == Writes({"users"})
ListStaffUsers == Reads({"users"})
UpdateStaffUser == Writes({"users"})
DeleteStaffUser == Writes({"users"})
UpdateTeacher == Writes({"users"})
UpdateUserPassword == Writes({"users"})
DeleteTeacher == Writes({"users"})
ListOrgDirectorIDs == Reads({"users"})

\* refresh sessions
CreateRefreshSession == Writes({"refresh_sessions"})
LockRefreshSessionByHash == Reads({"refresh_sessions"})
RevokeRefreshSession == Writes({"refresh_sessions"})
RevokeAllUserSessions == Writes({"refresh_sessions"})
DeleteExpiredRefreshSessions == Writes({"refresh_sessions"})

\* groups
CreateGroup == Writes({"groups"})
ListGroups == Reads({"groups"})
GetGroup == Reads({"groups"})
ListGroupsByTeacher == Reads({"groups"})
UpdateGroup == Writes({"groups"})
DeleteGroup == Writes({"groups"})
ListGroupsForStudent == Reads({"group_members", "groups"})
GroupsMissingAttendance == Reads({"attendance_records", "group_members", "groups"})

\* group members
AddGroupMember == Writes({"group_members"})
RemoveGroupMember == Writes({"group_members"})

\* students
CountStudentsInOrg == Reads({"students"})
ListStudentsInGroup == Reads({"group_members", "students"})
CreateStudent == Writes({"students"})
UpdateStudent == Writes({"students"})
AssignStudentGroup == ReadsInto({"groups"}, {"students"})
NullGroupForStudents == Writes({"students"})
ListStudents == Reads({"students"})
GetStudent == Reads({"students"})
DeleteStudent == Writes({"students"})
UpdateStudentRisk == Writes({"students"})
SetStudentLoginPassword == Writes({"students"})
GetStudentPasswordHash == Reads({"students"})
GetStudentForApp == Reads({"students"})
AddStudentPoints == Writes({"students"})
SpendStudentCoins == Writes({"students"})
LeaderboardOrg == Reads({"students"})
LeaderboardGroup == Reads({"group_members", "students"})
CountStudentsByTier == Reads({"students"})
RiskByGroup == Reads({"students"})
HighRiskStudents == Reads({"students"})
SetStudentTelegramChat == Writes({"students"})
RetentionStatusCounts == Reads({"students"})
RetentionCohorts == Reads({"students"})

\* attendance records
CreateAttendance == Writes({"attendance_records"})
ListAttendanceByStudent == Reads({"attendance_records"})

\* surveys
CreateSurvey == Writes({"surveys"})
ListSurveysByStudent == Reads({"surveys"})
TopObstacles == Reads({"surveys"})
AvgMotivationByWeek == Reads({"surveys"})

\* homework records
CreateHomework == Writes({"homework_records"})
ListHomeworkByStudent == Reads({"homework_records"})

\* homework assignments
CreateHomeworkAssignment == Writes({"homework_assignments"})
UpdateHomeworkAssignment == Writes({"homework_assignments"})
ListDueHomeworkReminders ==
    Reads({"group_members", "homework_assignments", "homework_submissions", "students"})
MarkHomeworkReminded == Writes({"homework_assignments"})
ListGroupAssignments == Reads({"homework_assignments", "homework_submissions"})
GetAssignment == Reads({"homework_assignments"})
DeleteAssignment == Writes({"homework_assignments"})
GetAssignmentForStudent == Reads({"group_members", "homework_assignments"})
ListStudentAssignments ==
    Reads({"group_members", "groups", "homework_assignments", "homework_submissions"})

\* homework submissions
ListAssignmentSubmissions == Reads({"homework_submissions", "students"})
GradeSubmission == Writes({"homework_submissions"})
GetSubmissionGroup == Reads({"homework_assignments", "homework_submissions"})
UpsertSubmission == Writes({"homework_submissions"})

\* student points
InsertPointsIfNew == Writes({"student_points"})

\* shop items
CreateShopItem == Writes({"shop_items"})
ListShopItems == Reads({"shop_items"})
GetShopItem == Reads({"shop_items"})
UpdateShopItem == Writes({"shop_items"})
DeleteShopItem == Writes({"shop_items"})
ListShopForStudent == Reads({"shop_items", "shop_purchases"})

\* shop purchases
InsertPurchase == Writes({"shop_purchases"})

\* ai advice feedback
CreateAdviceFeedback == Writes({"ai_advice_feedback"})

\* obstacle options
ListObstacleOptions == Reads({"obstacle_options"})
CreateObstacleOption == Writes({"obstacle_options"})
DeleteObstacleOption == Writes({"obstacle_options"})

\* courses
ListCourses == Reads({"courses"})
CreateCourse == Writes({"courses"})
UpdateCourse == Writes({"courses"})
DeleteCourse == Writes({"courses"})

\* enrollments
ListEnrollmentsByStudent == Reads({"enrollments"})
CreateEnrollment == Writes({"enrollments"})
UpdateEnrollment == Writes({"enrollments"})
DeleteEnrollment == Writes({"enrollments"})

\* invoices
ListInvoicesByStudent == Reads({"invoices"})
GetInvoice == Reads({"invoices"})
CreateInvoice == Writes({"invoices"})
GenerateMonthlyInvoices ==
    ReadsInto({"courses", "group_members", "groups", "invoices", "students"}, {"invoices"})
DeleteInvoice == Writes({"invoices"})
AdjustInvoicePaid == Writes({"invoices"})
StudentBalance == Reads({"invoices"})
FinanceSummary == Reads({"expenses", "invoices", "payments"})
OverdueInvoices == Reads({"invoices", "students"})
GraceOverdueStudents ==
    Reads({"attendance_records", "group_members", "groups", "invoices", "students"})
ListDebtors == Reads({"invoices", "students"})
GroupFinanceByPeriod == Reads({"attendance_records", "group_members", "invoices", "students"})

\* payments
ListPaymentsByStudent == Reads({"payments"})
CreatePayment == Writes({"payments"})
GetPayment == Reads({"payments"})
DeletePayment == Writes({"payments"})

\* expenses
CreateExpense == Writes({"expenses"})
ListExpenses == Reads({"expenses"})
DeleteExpense == Writes({"expenses"})
ExpensesByCategory == Reads({"expenses"})

\* salary rules
UpsertSalaryRule == Writes({"salary_rules"})
GetSalaryRule == Reads({"salary_rules"})
TeacherGroupBasis ==
    Reads({"attendance_records", "group_members", "groups", "invoices", "payments", "students"})

\* salary group rules
ListSalaryGroupRules == Reads({"salary_group_rules"})
DeleteTeacherGroupRules == Writes({"salary_group_rules"})
InsertSalaryGroupRule == Writes({"salary_group_rules"})

\* salary slips
CreateSalarySlip == Writes({"salary_slips"})
ListSalarySlips == Reads({"salary_slips", "users"})
MarkSalarySlipPaid == Writes({"salary_slips"})
DeleteSalarySlip == Writes({"salary_slips"})

\* leads
ListLeads == Reads({"leads"})
GetLead == Reads({"leads"})
CreateLead == Writes({"leads"})
UpdateLead == Writes({"leads"})
SetLeadStage == Writes({"leads"})
MarkLeadConverted == Writes({"leads"})
DeleteLead == Writes({"leads"})

\* activities
ListActivities == Reads({"activities"})
CreateActivity == Writes({"activities"})
DeleteActivity == Writes({"activities"})

\* lessons
CountRoomConflicts == Reads({"lessons"})
ListLessons == Reads({"lessons"})
CreateLesson == Writes({"lessons"})
UpdateLesson == Writes({"lessons"})
DeleteLesson == Writes({"lessons"})
GetLessonByGroupDate == Reads({"lessons"})

\* rooms
CreateRoom == Writes({"rooms"})
ListRooms == Reads({"rooms"})
UpdateRoom == Writes({"rooms"})
DeleteRoom == Writes({"rooms"})

\* notes
CreateNote == Writes({"notes"})
ListNotesByStudent == Reads({"notes"})

\* intervention tasks
CreateInterventionTask == Writes({"intervention_tasks"})
UpdateOpenTaskReasons == Writes({"intervention_tasks"})
ListInterventionTasks == Reads({"intervention_tasks", "students", "users"})
AssignInterventionTask == Writes({"intervention_tasks"})
ListTasksForEscalation == Reads({"intervention_tasks", "students"})
MarkTaskEscalated == Writes({"intervention_tasks"})
StartInterventionTask == Writes({"intervention_tasks"})
ResolveInterventionTask == Writes({"intervention_tasks"})
InterventionEffectiveness == Reads({"intervention_tasks"})

\* exams
CreateExam == Writes({"exams"})
ListGroupExams == Reads({"exam_results", "exams"})
GetExam == Reads({"exams"})
DeleteExam == Writes({"exams"})

\* exam results
UpsertExamResult == Writes({"exam_results"})
ListExamResults == Reads({"exam_results", "students"})
ListStudentExamResults == Reads({"exam_results", "exams"})

\* notifications
CreateNotification == Writes({"notifications"})
ListNotifications == Reads({"notifications"})
CountUnreadNotifications == Reads({"notifications"})
MarkNotificationRead == Writes({"notifications"})
MarkAllNotificationsRead == Writes({"notifications"})

\* bot conversations
BindBotChat == Writes({"bot_conversations"})
ListLinkedChats == Reads({"bot_conversations"})

=============================================================================
