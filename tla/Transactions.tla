---------------------------- MODULE Transactions ----------------------------
(***************************************************************************)
(* The functions of src/internal/repo/postgres that something calls, one   *)
(* definition each: the statements a function runs, in order, and how.     *)
(* WithTenant runs them in one transaction whose first statement sets the  *)
(* tenant; WithTx runs them in one transaction without; a function on the  *)
(* pool itself runs its statement on its own.  A statement marked Maybe    *)
(* runs or not as the rows decide, one marked Each any number of times.    *)
(***************************************************************************)
EXTENDS Statements, Sequences

Do(s) == [run |-> s, times |-> "once"]
Maybe(s) == [run |-> s, times |-> "maybe"]
Each(s) == [run |-> s, times |-> "each"]

(* How a request uses a transaction: how often, for callers of which roles  *)
(* ({}: all), for which center, and whether its failure fails the request. *)
Transaction(scoped, steps) ==
    [scoped |-> scoped, steps |-> steps, times |-> "once", of |-> {}, center |-> "own",
     must |-> TRUE]

Pooled(s) == Transaction(FALSE, <<Do(s)>>)
WithTx(steps) == Transaction(TRUE, steps)
WithTenant(steps) == WithTx(<<Do(SetTenant)>> \o steps)
Tenant(s) == WithTenant(<<Do(s)>>)

\* activity_repo.go
Activity_List == Tenant(ListActivities)
Activity_Create == Tenant(CreateActivity)
Activity_Delete == Tenant(DeleteActivity)

\* analytics_repo.go
Analytics_Retention ==
    WithTenant(<<Do(RetentionStatusCounts), Do(RetentionCohorts),
                 Do(InterventionEffectiveness)>>)

\* assignment_repo.go
Assignment_CreateAssignment == Tenant(CreateHomeworkAssignment)
Assignment_UpdateAssignment == Tenant(UpdateHomeworkAssignment)
Assignment_ListGroupAssignments == Tenant(ListGroupAssignments)
Assignment_GetAssignment == Tenant(GetAssignment)
Assignment_DeleteAssignment == Tenant(DeleteAssignment)
Assignment_ListSubmissions == Tenant(ListAssignmentSubmissions)
Assignment_Grade == Tenant(GradeSubmission)
Assignment_GroupForSubmission == Tenant(GetSubmissionGroup)
Assignment_GetAssignmentForStudent == Tenant(GetAssignmentForStudent)
Assignment_UpsertSubmission == Tenant(UpsertSubmission)
Assignment_ListStudentAssignments == Tenant(ListStudentAssignments)

\* attendance_repo.go
Attendance_ListByStudent == Tenant(ListAttendanceByStudent)

\* auth_repo.go
Auth_ProvisionOrgWithAdmin == WithTx(<<Do(CreateOrganization), Do(SetTenant), Do(CreateUser)>>)
Auth_OrgBySlug == Pooled(GetOrganizationBySlug)
Auth_OrgByID == Pooled(GetOrganizationByID)
Auth_SlugExists == Pooled(SlugExists)
Auth_AllOrgIDs == Pooled(ListAllOrgIDs)
Auth_UserByEmailInOrg == Tenant(GetUserByEmail)
Auth_UserByID == Tenant(GetUserByID)
Auth_SetPassword == Tenant(UpdateUserPassword)

\* bot_repo.go
Bot_BindChat == Pooled(BindBotChat)
Bot_SetStudentChat == Tenant(SetStudentTelegramChat)
Bot_DueHomeworkReminders == Tenant(ListDueHomeworkReminders)
Bot_MarkHomeworkReminded == Tenant(MarkHomeworkReminded)
Bot_ListLinkedChats == Pooled(ListLinkedChats)

\* branch_repo.go
Branch_List == Tenant(ListBranches)
Branch_Create == Tenant(CreateBranch)
Branch_Update == Tenant(UpdateBranch)
Branch_Delete == Tenant(DeleteBranch)

\* course_repo.go
Course_List == Tenant(ListCourses)
Course_Create == Tenant(CreateCourse)
Course_Update == Tenant(UpdateCourse)
Course_Delete == Tenant(DeleteCourse)

\* dashboard_repo.go
Dashboard_Load ==
    WithTenant(<<Do(CountStudentsByTier), Do(RiskByGroup), Do(TopObstacles),
                 Do(HighRiskStudents), Do(AvgMotivationByWeek)>>)

\* enrollment_repo.go
Enrollment_ListByStudent == Tenant(ListEnrollmentsByStudent)
Enrollment_Create == Tenant(CreateEnrollment)
Enrollment_Update == Tenant(UpdateEnrollment)
Enrollment_Delete == Tenant(DeleteEnrollment)

\* exam_repo.go
Exam_Create == Tenant(CreateExam)
Exam_ListGroupExams == Tenant(ListGroupExams)
Exam_GetExam == Tenant(GetExam)
Exam_DeleteExam == Tenant(DeleteExam)
Exam_UpsertResult == Tenant(UpsertExamResult)
Exam_ListResults == Tenant(ListExamResults)
Exam_StudentResults == Tenant(ListStudentExamResults)

\* finance_repo.go
Finance_ListInvoices == Tenant(ListInvoicesByStudent)
Finance_CreateInvoice == Tenant(CreateInvoice)
Finance_GenerateMonthly == Tenant(GenerateMonthlyInvoices)
Finance_DeleteInvoice == Tenant(DeleteInvoice)
Finance_StudentBalance == Tenant(StudentBalance)
Finance_ListPayments == Tenant(ListPaymentsByStudent)
Finance_RecordPayment ==
    WithTenant(<<Do(GetInvoice), Do(CreatePayment), Do(AdjustInvoicePaid)>>)
Finance_DeletePayment ==
    WithTenant(<<Do(GetPayment), Do(DeletePayment), Do(AdjustInvoicePaid)>>)
Finance_Summary == Tenant(FinanceSummary)
Finance_CreateExpense == Tenant(CreateExpense)
Finance_ListExpenses == Tenant(ListExpenses)
Finance_DeleteExpense == Tenant(DeleteExpense)
Finance_ExpensesByCategory == Tenant(ExpensesByCategory)
Finance_ListDebtors == Tenant(ListDebtors)
Finance_GroupFinance == Tenant(GroupFinanceByPeriod)
Finance_OverdueInvoices == Tenant(OverdueInvoices)
Finance_GraceOverdue == Tenant(GraceOverdueStudents)
Finance_GetGraceLessons == Pooled(GetGraceLessons)
Finance_SetGraceLessons == Pooled(SetGraceLessons)

\* group_repo.go
Group_Create == Tenant(CreateGroup)
Group_List == Tenant(ListGroups)
Group_GetByID == Tenant(GetGroup)
Group_ListByTeacher == Tenant(ListGroupsByTeacher)
Group_Update == Tenant(UpdateGroup)
Group_Delete == WithTenant(<<Do(NullGroupForStudents), Do(DeleteGroup)>>)
Group_MissingAttendance == Tenant(GroupsMissingAttendance)
Group_AddMember == Tenant(AddGroupMember)
Group_RemoveMember == Tenant(RemoveGroupMember)
Group_ListForStudent == Tenant(ListGroupsForStudent)

\* homework_repo.go
Homework_ListByStudent == Tenant(ListHomeworkByStudent)

\* intervention_repo.go
Intervention_List == Tenant(ListInterventionTasks)
Intervention_Assign == Tenant(AssignInterventionTask)
Intervention_Start == Tenant(StartInterventionTask)
Intervention_Resolve == Tenant(ResolveInterventionTask)

\* lead_repo.go
Lead_List == Tenant(ListLeads)
Lead_Get == Tenant(GetLead)
Lead_Create == Tenant(CreateLead)
Lead_Update == Tenant(UpdateLead)
Lead_SetStage == Tenant(SetLeadStage)
Lead_MarkConverted == Tenant(MarkLeadConverted)
Lead_Delete == Tenant(DeleteLead)

\* lesson_repo.go
Lesson_List == Tenant(ListLessons)
Lesson_FindByGroupDate == Tenant(GetLessonByGroupDate)
Lesson_Create == Tenant(CreateLesson)
Lesson_Update == Tenant(UpdateLesson)
Lesson_Delete == Tenant(DeleteLesson)
Lesson_CountRoomConflicts == Tenant(CountRoomConflicts)

\* notification_repo.go
Notification_Create == Tenant(CreateNotification)
Notification_List == Tenant(ListNotifications)
Notification_CountUnread == Tenant(CountUnreadNotifications)
Notification_MarkRead == Tenant(MarkNotificationRead)
Notification_MarkAllRead == Tenant(MarkAllNotificationsRead)
Notification_StaleTasks == Tenant(ListTasksForEscalation)
Notification_MarkTaskEscalated == Tenant(MarkTaskEscalated)
Notification_DirectorIDs == Tenant(ListOrgDirectorIDs)

\* obstacle_repo.go
Obstacle_List == Tenant(ListObstacleOptions)
Obstacle_Create == Tenant(CreateObstacleOption)
Obstacle_Delete == Tenant(DeleteObstacleOption)

\* plan_repo.go
Plan_ListActive == Pooled(ListActivePlans)
Plan_ListAll == Pooled(ListAllPlans)
Plan_Create == Pooled(CreatePlan)
Plan_Update == Pooled(UpdatePlan)
Plan_Delete == Pooled(DeletePlan)

\* points_repo.go
Points_Award ==
    WithTenant(<<Do(LockStudentXp), Do(InsertPointsIfNew), Maybe(AddStudentPoints)>>)
Points_GetConfig == Pooled(GetGamification)
Points_SetConfig == Pooled(SetGamification)
Points_Leaderboard == Tenant(LeaderboardOrg)
Points_LeaderboardByGroup == Tenant(LeaderboardGroup)

\* retention_repo.go
\* The risk of a student is read, computed and stored, and a task is opened or
\* its reasons refreshed, in the transaction of the signal.
recomputeInTx ==
    <<Do(GetStudent), Do(ListAttendanceByStudent), Do(ListSurveysByStudent),
      Do(ListHomeworkByStudent), Do(UpdateStudentRisk), Maybe(CreateInterventionTask),
      Maybe(UpdateOpenTaskReasons)>>
Retention_SubmitSurvey == WithTenant(<<Do(CreateSurvey)>> \o recomputeInTx)
Retention_RecordAttendance == WithTenant(<<Do(CreateAttendance)>> \o recomputeInTx)
Retention_RecordHomework == WithTenant(<<Do(CreateHomework)>> \o recomputeInTx)
Retention_RecordAdviceFeedback == Tenant(CreateAdviceFeedback)
Retention_RecomputeStudent == WithTenant(recomputeInTx)

\* room_repo.go
Room_List == Tenant(ListRooms)
Room_Create == Tenant(CreateRoom)
Room_Update == Tenant(UpdateRoom)
Room_Delete == Tenant(DeleteRoom)

\* salary_repo.go
Salary_GetRule == Tenant(GetSalaryRule)
Salary_SetRule == Tenant(UpsertSalaryRule)
Salary_ListGroupRules == Tenant(ListSalaryGroupRules)
Salary_ReplaceGroupRules ==
    WithTenant(<<Do(DeleteTeacherGroupRules), Each(InsertSalaryGroupRule)>>)
Salary_GroupBasis == Tenant(TeacherGroupBasis)
Salary_CreateSlip == Tenant(CreateSalarySlip)
Salary_ListSlips == Tenant(ListSalarySlips)
Salary_MarkPaid == WithTenant(<<Do(MarkSalarySlipPaid), Do(GetUserByID), Do(CreateExpense)>>)
Salary_DeleteSlip == Tenant(DeleteSalarySlip)

\* session_repo.go
Session_CreateSession == Pooled(CreateRefreshSession)
Session_RotateSession ==
    WithTx(<<Do(LockRefreshSessionByHash), Do(RevokeRefreshSession), Do(CreateRefreshSession)>>)
\* A refresh token that was rotated before: the whole family is revoked, committed,
\* and the caller is refused.
Session_ReplaySession == WithTx(<<Do(LockRefreshSessionByHash), Do(RevokeAllUserSessions)>>)
Session_DeleteExpired == Pooled(DeleteExpiredRefreshSessions)

\* shop_repo.go
Shop_CreateItem == Tenant(CreateShopItem)
Shop_ListItems == Tenant(ListShopItems)
Shop_UpdateItem == Tenant(UpdateShopItem)
Shop_DeleteItem == Tenant(DeleteShopItem)
Shop_ListForStudent == Tenant(ListShopForStudent)
Shop_BuyItem == WithTenant(<<Do(InsertPurchase), Do(SpendStudentCoins), Do(InsertPointsIfNew)>>)
Shop_GetItem == Tenant(GetShopItem)

\* signup_repo.go
Signup_Create == Pooled(CreateSignupRequest)
Signup_List == Pooled(ListSignupRequests)
Signup_SetStatus == Pooled(UpdateSignupRequestStatus)

\* staff_repo.go
Staff_Create == Tenant(CreateStaffUser)
Staff_List == Tenant(ListStaffUsers)
Staff_Update == Tenant(UpdateStaffUser)
Staff_SetPassword == Tenant(UpdateUserPassword)
Staff_Delete == Tenant(DeleteStaffUser)

\* student_repo.go
Student_Create == Tenant(CreateStudent)
Student_Update == Tenant(UpdateStudent)
Student_List == Tenant(ListStudents)
Student_GetByID == Tenant(GetStudent)
Student_SetLoginPassword == Tenant(SetStudentLoginPassword)
Student_GetPasswordHash == Tenant(GetStudentPasswordHash)
Student_Profile == Tenant(GetStudentForApp)
Student_AddNote == Tenant(CreateNote)
Student_Delete == Tenant(DeleteStudent)
Student_AssignGroup == Tenant(AssignStudentGroup)
Student_ListByGroup == Tenant(ListStudentsInGroup)
Student_ListNotes == Tenant(ListNotesByStudent)

\* studentauth_repo.go
StudentAuth_LookupByPhone == Pooled(StudentAuthLookup)

\* superadmin_repo.go
Superadmin_ListCenters == Pooled(ListAllOrganizations)
Superadmin_GetCenter == Pooled(GetOrganizationByID)
Superadmin_statsFor ==
    WithTenant(<<Do(CountStudentsInOrg), Do(CountUsersInOrg), Do(CountStudentsByTier)>>)
Superadmin_UpdateCenter == Pooled(UpdateOrgPlanStatus)
Superadmin_SetBilling == Pooled(UpdateOrgBilling)

\* survey_repo.go
Survey_ListByStudent == Tenant(ListSurveysByStudent)

\* teacher_repo.go
Teacher_Create == Tenant(CreateTeacherUser)
Teacher_List == Tenant(ListUsersByRole)
Teacher_GetByID == Tenant(GetUserByID)
Teacher_Update == Tenant(UpdateTeacher)
Teacher_SetPassword == Tenant(UpdateUserPassword)
Teacher_Delete == Tenant(DeleteTeacher)

=============================================================================
