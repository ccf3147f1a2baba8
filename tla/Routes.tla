------------------------------- MODULE Routes -------------------------------
(***************************************************************************)
(* The operations of src/internal/controller/http, one definition each:    *)
(* the roles its group admits (server.go) and the transactions its handler *)
(* runs, through the services of src/internal/usecase, in order.  A route  *)
(* with more than one way through has one path for each.  A handler may    *)
(* return an error before any of them, and those that are Judging after    *)
(* the last too; what it validates is left out.                            *)
(***************************************************************************)
EXTENDS Transactions

Roles == {"super_admin", "center_admin", "manager", "finance", "mentor", "teacher", "student"}

\* Who a call without a token is, and who the background jobs are.
Nobody == "nobody"
Job == "job"

(* The groups of server.go *)
publicAPI == Roles \cup {Nobody}
protectedAPI == Roles \ {"student"}
studentAPI == {"student"}
teachingAPI == {"teacher", "manager", "center_admin", "super_admin"}
financeAPI == {"finance", "center_admin", "super_admin"}
paymentsAPI == {"manager", "finance", "center_admin", "super_admin"}
staffReadAPI == {"manager", "finance", "center_admin", "super_admin"}
centerStaffAPI == {"manager", "center_admin", "super_admin"}
directorAPI == {"center_admin", "super_admin"}
teacherAPI == {"teacher"}
adminAPI == {"super_admin"}

Branching(gate, paths) == [gate |-> gate, paths |-> paths, ends |-> {"ok"}]
Route(gate, path) == Branching(gate, {path})

\* A handler that may still refuse when all its transactions are committed.
Judging(route) == [route EXCEPT !.ends = {"ok", "error"}]

(* How a handler uses a transaction *)
Sometimes(t) == [t EXCEPT !.times = "maybe"]
Repeated(t) == [t EXCEPT !.times = "each"]
BestEffort(t) == [t EXCEPT !.must = FALSE]
OfTeacher(t) == [t EXCEPT !.of = {"teacher"}]
NextCenter(t) == [t EXCEPT !.center = "next"]

\* The configuration of the points falls back to a default when it cannot be read.
Config == BestEffort(Points_GetConfig)

\* An award follows what it rewards and its failure is dropped; none of no XP.
Awarding(path) == {path \o <<Config>>, path \o <<Config, BestEffort(Points_Award)>>}

\* A teacher's own group or student, any for the others.
canManageGroup == OfTeacher(Group_GetByID)
ownsStudent == OfTeacher(Group_ListForStudent)

\* The teacher a group is given, when it is given one.
validateTeacher == Sometimes(Teacher_GetByID)

\* One center and its counts, read inside that center.
GetCenter == <<Superadmin_GetCenter, NextCenter(Superadmin_statsFor)>>
ListCenters == <<Superadmin_ListCenters, Repeated(NextCenter(Superadmin_statsFor))>>

-----------------------------------------------------------------------------
(* auth.go, admin.go, studentapp.go, account.go *)

auth_register ==
    Route(publicAPI, <<Auth_SlugExists, Auth_ProvisionOrgWithAdmin, Session_CreateSession>>)
auth_login ==
    Route(publicAPI, <<Auth_OrgBySlug, Auth_UserByEmailInOrg, Session_CreateSession>>)
\* A member of the platform's own center who is not a super_admin is logged in and refused.
admin_login ==
    Judging(Route(publicAPI, <<Auth_OrgBySlug, Auth_UserByEmailInOrg, Session_CreateSession>>))
\* The center may be suspended; a replay is refused after its family has been revoked.
auth_refresh ==
    Judging(Branching(publicAPI, {<<Session_RotateSession, Auth_UserByID, Auth_OrgByID>>,
                                  <<Session_ReplaySession>>}))
student_login == Route(publicAPI, <<StudentAuth_LookupByPhone>>)
me_change_password == Route(protectedAPI, <<Auth_UserByID, Auth_SetPassword>>)
student_change_password ==
    Route(studentAPI, <<Student_GetPasswordHash, Student_SetLoginPassword>>)

(* admin.go, plans.go, signup.go *)

admin_centers_list == Route(adminAPI, ListCenters)
admin_centers_create == Route(adminAPI, <<Auth_ProvisionOrgWithAdmin>>)
admin_centers_get == Route(adminAPI, GetCenter)
admin_centers_update == Route(adminAPI, GetCenter \o <<Superadmin_UpdateCenter>> \o GetCenter)
admin_centers_billing == Route(adminAPI, GetCenter \o <<Superadmin_SetBilling>> \o GetCenter)
admin_centers_delete == Route(adminAPI, GetCenter \o <<Superadmin_UpdateCenter>>)
admin_metrics == Route(adminAPI, ListCenters)
public_plans_list == Route(publicAPI, <<Plan_ListActive>>)
admin_plans_list == Route(adminAPI, <<Plan_ListAll>>)
admin_plans_create == Route(adminAPI, <<Plan_Create>>)
admin_plans_update == Route(adminAPI, <<Plan_Update>>)
admin_plans_delete == Route(adminAPI, <<Plan_Delete>>)
public_signup_request == Route(publicAPI, <<Signup_Create>>)
admin_signup_requests_list == Route(adminAPI, <<Signup_List>>)
admin_signup_requests_status == Route(adminAPI, <<Signup_SetStatus>>)

(* staff.go *)

staff_list == Route(directorAPI, <<Staff_List>>)
staff_create == Route(directorAPI, <<Staff_Create>>)
staff_update == Branching(directorAPI, {<<Staff_Update>>, <<Staff_List, Staff_Update>>})
staff_set_password == Route(directorAPI, <<Staff_SetPassword>>)
staff_delete == Route(directorAPI, <<Staff_List, Staff_Delete>>)

(* students.go, advice.go, import.go, maintenance.go *)

students_set_login_password == Route(teachingAPI, <<ownsStudent, Student_SetLoginPassword>>)
students_list == Route(protectedAPI, <<Student_List>>)
students_create == Route(protectedAPI, <<Student_Create>>)
students_update ==
    Route(protectedAPI, <<Student_Update, BestEffort(Retention_RecomputeStudent)>>)
students_delete == Route(protectedAPI, <<Student_Delete>>)
students_get ==
    Route(protectedAPI, <<Student_GetByID, Student_ListNotes, Attendance_ListByStudent,
                          Survey_ListByStudent, Homework_ListByStudent>>)
students_submit_survey == Route(protectedAPI, <<Retention_SubmitSurvey>>)
students_record_attendance ==
    Branching(protectedAPI, {<<Retention_RecordAttendance>>}
                            \cup Awarding(<<Retention_RecordAttendance>>))
students_record_homework == Route(protectedAPI, <<Retention_RecordHomework>>)
students_add_note == Route(protectedAPI, <<Student_AddNote>>)
students_ai_advice ==
    Route(protectedAPI, <<Student_GetByID, Student_ListNotes, Attendance_ListByStudent,
                          Survey_ListByStudent, Homework_ListByStudent>>)
students_ai_advice_feedback == Route(protectedAPI, <<Retention_RecordAdviceFeedback>>)
import_records ==
    Route(centerStaffAPI, <<Student_List, Repeated(BestEffort(Retention_RecordAttendance)),
                            Repeated(BestEffort(Retention_RecordHomework))>>)
maintenance_recompute ==
    Route(centerStaffAPI, <<Student_List, Repeated(Retention_RecomputeStudent)>>)

(* intervention.go, notifications.go, dashboard.go, analytics.go *)

intervention_tasks_list == Route(protectedAPI, <<Intervention_List>>)
intervention_tasks_resolve == Route(protectedAPI, <<Intervention_Resolve>>)
intervention_tasks_start == Route(protectedAPI, <<Intervention_Start>>)
intervention_tasks_assign ==
    Route(protectedAPI, <<Intervention_Assign, Sometimes(BestEffort(Notification_Create))>>)
notifications_list == Route(protectedAPI, <<Notification_List>>)
notifications_unread_count == Route(protectedAPI, <<Notification_CountUnread>>)
notifications_read == Route(protectedAPI, <<Notification_MarkRead>>)
notifications_read_all == Route(protectedAPI, <<Notification_MarkAllRead>>)
dashboard_get == Route(protectedAPI, <<Dashboard_Load>>)
analytics_retention == Route(staffReadAPI, <<Analytics_Retention>>)

(* groups.go, teachers.go *)

groups_list == Route(staffReadAPI, <<Group_List>>)
groups_create == Route(centerStaffAPI, <<validateTeacher, Group_Create>>)
groups_get == Route(centerStaffAPI, <<Group_GetByID>>)
groups_update == Route(centerStaffAPI, <<validateTeacher, Group_Update>>)
groups_delete == Route(centerStaffAPI, <<Group_GetByID, Group_Delete>>)
groups_missing_attendance == Route(centerStaffAPI, <<Group_MissingAttendance>>)
groups_add_member ==
    Route(centerStaffAPI, <<Student_GetByID, Group_GetByID, Group_AddMember,
                            Sometimes(Student_AssignGroup)>>)
groups_remove_member ==
    Branching(centerStaffAPI, {<<Student_GetByID, Group_RemoveMember>>,
                               <<Student_GetByID, Group_RemoveMember, Group_ListForStudent,
                                 Student_AssignGroup>>})
students_groups == Route(centerStaffAPI, <<Group_ListForStudent>>)
groups_students == Route(centerStaffAPI, <<Group_GetByID, Student_ListByGroup>>)
students_assign_group ==
    Branching(centerStaffAPI, {<<Student_GetByID, Student_AssignGroup>>,
                               <<Student_GetByID, Group_GetByID, Student_AssignGroup,
                                 Group_AddMember>>})
teachers_list == Route(staffReadAPI, <<Teacher_List>>)
teachers_create == Route(centerStaffAPI, <<Teacher_Create>>)
teachers_get == Route(centerStaffAPI, <<Teacher_GetByID>>)
teachers_update == Route(centerStaffAPI, <<Teacher_Update>>)
teachers_set_password == Route(centerStaffAPI, <<Teacher_SetPassword>>)
teachers_delete == Route(centerStaffAPI, <<Teacher_Delete>>)

(* finance.go, salary.go *)

student_finance ==
    Route(paymentsAPI, <<Finance_ListInvoices, Finance_ListPayments, Finance_StudentBalance>>)
invoice_create == Route(paymentsAPI, <<Finance_CreateInvoice>>)
invoice_delete == Route(paymentsAPI, <<Finance_DeleteInvoice>>)
invoices_generate_monthly == Route(paymentsAPI, <<Finance_GenerateMonthly>>)
\* Mutant: the invoice is read, and found to have room, before the payment's transaction.
payment_checked_first ==
    Route(paymentsAPI, <<Tenant(GetInvoice),
                         WithTenant(<<Do(CreatePayment), Do(AdjustInvoicePaid)>>)>>)
payment_record == Route(paymentsAPI, <<Finance_RecordPayment>>)
payment_refund == Route(paymentsAPI, <<Finance_RecordPayment>>)
payment_delete == Route(paymentsAPI, <<Finance_DeletePayment>>)
\* Mutant: the summary, expenses and salaries in it, is served to the front desk.
finance_summary_of_payments == Route(paymentsAPI, <<Finance_Summary>>)
finance_summary == Route(financeAPI, <<Finance_Summary>>)
finance_debtors == Route(paymentsAPI, <<Finance_ListDebtors>>)
group_finance == Route(paymentsAPI, <<Finance_GroupFinance>>)
finance_alerts ==
    Route(paymentsAPI, <<Finance_OverdueInvoices, Finance_GraceOverdue,
                         BestEffort(Finance_GetGraceLessons)>>)
billing_settings_get == Route(paymentsAPI, <<Finance_GetGraceLessons>>)
billing_settings_update == Route(paymentsAPI, <<Finance_SetGraceLessons>>)
expenses_list == Route(financeAPI, <<Finance_ListExpenses, Finance_ExpensesByCategory>>)
expense_create == Route(financeAPI, <<Finance_CreateExpense>>)
expense_delete == Route(financeAPI, <<Finance_DeleteExpense>>)
salary_rule_get == Route(financeAPI, <<Salary_GetRule>>)
salary_rule_set == Route(financeAPI, <<Salary_SetRule, Sometimes(Salary_ReplaceGroupRules)>>)
salary_preview ==
    Route(financeAPI, <<Salary_GetRule, Salary_ListGroupRules, Salary_GroupBasis>>)
salary_slips_list == Route(financeAPI, <<Salary_ListSlips>>)
salary_slip_create == Route(financeAPI, <<Salary_CreateSlip>>)
\* Mutant: the slip is paid in one transaction and its expense written in another.
salary_slip_pay_in_two ==
    Route(financeAPI, <<Tenant(MarkSalarySlipPaid), Finance_CreateExpense>>)
salary_slip_pay == Route(financeAPI, <<Salary_MarkPaid>>)
salary_slip_delete == Route(financeAPI, <<Salary_DeleteSlip>>)

(* homework.go, exams.go, me.go *)

homework_create == Route(teachingAPI, <<canManageGroup, Assignment_CreateAssignment>>)
homework_list == Route(teachingAPI, <<canManageGroup, Assignment_ListGroupAssignments>>)
homework_update ==
    Route(teachingAPI, <<Assignment_GetAssignment, canManageGroup, Assignment_UpdateAssignment>>)
homework_delete ==
    Route(teachingAPI, <<Assignment_GetAssignment, canManageGroup, Assignment_DeleteAssignment>>)
homework_submissions ==
    Route(teachingAPI, <<Assignment_GetAssignment, canManageGroup, Assignment_ListSubmissions>>)
homework_grade ==
    Branching(teachingAPI, {<<Assignment_GroupForSubmission, canManageGroup, Assignment_Grade>>}
        \cup Awarding(<<Assignment_GroupForSubmission, canManageGroup, Assignment_Grade>>))
exam_create == Route(teachingAPI, <<canManageGroup, Exam_Create>>)
exam_list == Route(teachingAPI, <<canManageGroup, Exam_ListGroupExams>>)
exam_delete == Route(teachingAPI, <<Exam_GetExam, canManageGroup, Exam_DeleteExam>>)
exam_results == Route(teachingAPI, <<Exam_GetExam, canManageGroup, Exam_ListResults>>)
exam_grade ==
    Branching(teachingAPI, {<<Exam_GetExam, canManageGroup, Exam_UpsertResult>>}
        \cup Awarding(<<Exam_GetExam, canManageGroup, Exam_UpsertResult>>))
me_groups == Route(teacherAPI, <<Group_ListByTeacher>>)
me_students == Route(teacherAPI, <<Group_ListByTeacher, Repeated(Student_ListByGroup)>>)
me_record_attendance ==
    Branching(teacherAPI, {<<ownsStudent, Retention_RecordAttendance>>}
                          \cup Awarding(<<ownsStudent, Retention_RecordAttendance>>))
me_record_homework == Route(teacherAPI, <<ownsStudent, Retention_RecordHomework>>)

(* gamification.go, shop.go *)

gamification_get == Route(centerStaffAPI, <<Config>>)
gamification_set == Route(centerStaffAPI, <<Points_SetConfig>>)
student_award_xp ==
    Branching(teachingAPI, {<<ownsStudent, Config>>, <<ownsStudent, Config, Points_Award>>})
shop_items_list == Route(centerStaffAPI, <<Shop_ListItems>>)
shop_item_create == Route(centerStaffAPI, <<Shop_CreateItem>>)
shop_item_update == Route(centerStaffAPI, <<Shop_UpdateItem>>)
shop_item_delete == Route(centerStaffAPI, <<Shop_DeleteItem>>)
leaderboard ==
    Branching(teachingAPI, {<<Points_Leaderboard>>, <<Points_LeaderboardByGroup>>})

(* branches.go, rooms.go, courses.go, enrollments.go, obstacle.go, activities.go *)

branches_list == Route(centerStaffAPI, <<Branch_List>>)
branch_create == Route(centerStaffAPI, <<Branch_Create>>)
branch_update == Route(centerStaffAPI, <<Branch_Update>>)
branch_delete == Route(centerStaffAPI, <<Branch_Delete>>)
rooms_list == Route(centerStaffAPI, <<Room_List>>)
room_create == Route(centerStaffAPI, <<Room_Create>>)
room_update == Route(centerStaffAPI, <<Room_Update>>)
room_delete == Route(centerStaffAPI, <<Room_Delete>>)
courses_list == Route(centerStaffAPI, <<Course_List>>)
courses_create == Route(centerStaffAPI, <<Course_Create>>)
courses_update == Route(centerStaffAPI, <<Course_Update>>)
courses_delete == Route(centerStaffAPI, <<Course_Delete>>)
enrollments_list == Route(centerStaffAPI, <<Enrollment_ListByStudent>>)
enrollments_create == Route(centerStaffAPI, <<Enrollment_Create>>)
enrollments_update == Route(centerStaffAPI, <<Enrollment_Update>>)
enrollments_delete == Route(centerStaffAPI, <<Enrollment_Delete>>)
obstacle_options_list == Route(centerStaffAPI, <<Obstacle_List>>)
obstacle_options_create == Route(centerStaffAPI, <<Obstacle_List, Obstacle_Create>>)
obstacle_options_delete == Route(centerStaffAPI, <<Obstacle_Delete>>)
activities_list == Route(centerStaffAPI, <<Activity_List>>)
activities_create == Route(centerStaffAPI, <<Activity_Create>>)
activities_delete == Route(centerStaffAPI, <<Activity_Delete>>)

(* leads.go, lessons.go *)

leads_list == Route(centerStaffAPI, <<Lead_List>>)
leads_create == Route(centerStaffAPI, <<Lead_Create>>)
leads_update == Route(centerStaffAPI, <<Lead_Update>>)
leads_set_stage == Route(centerStaffAPI, <<Lead_SetStage>>)
leads_convert == Route(centerStaffAPI, <<Lead_Get, Student_Create, Lead_MarkConverted>>)
leads_delete == Route(centerStaffAPI, <<Lead_Delete>>)
lessons_list == Route(centerStaffAPI, <<Lesson_List>>)
lessons_create == Route(centerStaffAPI, <<Sometimes(Lesson_CountRoomConflicts), Lesson_Create>>)
lessons_update == Route(centerStaffAPI, <<Sometimes(Lesson_CountRoomConflicts), Lesson_Update>>)
lessons_delete == Route(centerStaffAPI, <<Lesson_Delete>>)
lessons_session_get == Route(centerStaffAPI, <<Lesson_FindByGroupDate>>)
lessons_session_save ==
    Branching(centerStaffAPI, {<<Lesson_FindByGroupDate, Lesson_Update>>,
                               <<Lesson_FindByGroupDate, Lesson_Create>>})

(* the student's mini app: studentapp.go, student*.go, exams.go, telegram.go, chat.go *)

student_me == Route(studentAPI, <<Student_Profile, Config>>)
student_checkin ==
    Branching(studentAPI, Awarding(<<Survey_ListByStudent, Retention_SubmitSurvey>>))
student_my_groups == Route(studentAPI, <<Group_ListForStudent>>)
student_my_finance ==
    Route(studentAPI, <<Finance_ListInvoices, Finance_ListPayments, Finance_StudentBalance>>)
student_exams == Route(studentAPI, <<Exam_StudentResults>>)
student_homework_list == Route(studentAPI, <<Assignment_ListStudentAssignments>>)
student_homework_submit ==
    Route(studentAPI, <<Assignment_GetAssignmentForStudent, Assignment_UpsertSubmission>>)
student_shop_list == Route(studentAPI, <<Shop_ListForStudent>>)
student_shop_buy == Route(studentAPI, <<Shop_GetItem, Shop_BuyItem>>)
student_leaderboard ==
    Branching(studentAPI, {<<Points_Leaderboard>>, <<Points_LeaderboardByGroup>>})
student_telegram_link ==
    Route(studentAPI, <<Bot_SetStudentChat, BestEffort(Bot_BindChat)>>)
student_chat == Route(studentAPI, <<>>)

-----------------------------------------------------------------------------
(* The background jobs: a failing center is logged and the next one follows. *)

RecomputeAllTenants ==
    <<Auth_AllOrgIDs, Repeated(BestEffort(NextCenter(Student_List))),
      Repeated(BestEffort(Retention_RecomputeStudent))>>
EscalateAllTenants ==
    <<Auth_AllOrgIDs, Repeated(BestEffort(NextCenter(Notification_StaleTasks))),
      Repeated(BestEffort(Notification_DirectorIDs)),
      Repeated(BestEffort(Notification_Create)),
      Repeated(BestEffort(Notification_MarkTaskEscalated))>>
RemindHomeworkAllTenants ==
    Route({Job}, <<Auth_AllOrgIDs, Repeated(BestEffort(NextCenter(Bot_DueHomeworkReminders))),
                   Repeated(BestEffort(Bot_MarkHomeworkReminded))>>)
RunDaily == Route({Job}, RecomputeAllTenants \o EscalateAllTenants)
RunWeekly ==
    Route({Job}, RecomputeAllTenants \o EscalateAllTenants \o <<Bot_ListLinkedChats>>)
runSessionReaper == Route({Job}, <<Session_DeleteExpired>>)

(* Everything that is served or scheduled; routes alike in all the above are one. *)
AllRoutes ==
    {auth_register, auth_login, admin_login, auth_refresh, student_login, me_change_password,
     student_change_password, admin_centers_list, admin_centers_create, admin_centers_get,
     admin_centers_update, admin_centers_billing, admin_centers_delete, admin_metrics,
     public_plans_list, admin_plans_list, admin_plans_create, admin_plans_update,
     admin_plans_delete, public_signup_request, admin_signup_requests_list,
     admin_signup_requests_status, staff_list, staff_create, staff_update, staff_set_password,
     staff_delete, students_set_login_password, students_list, students_create,
     students_update, students_delete, students_get, students_submit_survey,
     students_record_attendance, students_record_homework, students_add_note,
     students_ai_advice, students_ai_advice_feedback, import_records, maintenance_recompute,
     intervention_tasks_list, intervention_tasks_resolve, intervention_tasks_start,
     intervention_tasks_assign, notifications_list, notifications_unread_count,
     notifications_read, notifications_read_all, dashboard_get, analytics_retention,
     groups_list, groups_create, groups_get, groups_update, groups_delete,
     groups_missing_attendance, groups_add_member, groups_remove_member, students_groups,
     groups_students, students_assign_group, teachers_list, teachers_create, teachers_get,
     teachers_update, teachers_set_password, teachers_delete, student_finance, invoice_create,
     invoice_delete, invoices_generate_monthly, payment_record, payment_refund, payment_delete,
     finance_summary, finance_debtors, group_finance, finance_alerts, billing_settings_get,
     billing_settings_update, expenses_list, expense_create, expense_delete, salary_rule_get,
     salary_rule_set, salary_preview, salary_slips_list, salary_slip_create, salary_slip_pay,
     salary_slip_delete, homework_create, homework_list, homework_update, homework_delete,
     homework_submissions, homework_grade, exam_create, exam_list, exam_delete, exam_results,
     exam_grade, me_groups, me_students, me_record_attendance, me_record_homework,
     gamification_get, gamification_set, student_award_xp, shop_items_list, shop_item_create,
     shop_item_update, shop_item_delete, leaderboard, branches_list, branch_create,
     branch_update, branch_delete, rooms_list, room_create, room_update, room_delete,
     courses_list, courses_create, courses_update, courses_delete, enrollments_list,
     enrollments_create, enrollments_update, enrollments_delete, obstacle_options_list,
     obstacle_options_create, obstacle_options_delete, activities_list, activities_create,
     activities_delete, leads_list, leads_create, leads_update, leads_set_stage, leads_convert,
     leads_delete, lessons_list, lessons_create, lessons_update, lessons_delete,
     lessons_session_get, lessons_session_save, student_me, student_checkin, student_my_groups,
     student_my_finance, student_exams, student_homework_list, student_homework_submit,
     student_shop_list, student_shop_buy, student_leaderboard, student_telegram_link,
     student_chat, runSessionReaper, RemindHomeworkAllTenants, RunDaily, RunWeekly}

=============================================================================
