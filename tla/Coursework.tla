------------------------------ MODULE Coursework ------------------------------
(***************************************************************************)
(* Homework and exams of one group: the assignment a teacher attaches, the *)
(* answers of the students, their grades and the XP a grade is worth       *)
(* (internal/usecase/homework, internal/usecase/exam, AwardHomework and    *)
(* AwardExam of internal/usecase/points).                                  *)
(*                                                                         *)
(* Submitting is a membership check and an upsert in two transactions;     *)
(* grading is a lookup, the write of the grade and the award in three, and *)
(* the error of the award is dropped.  canManageGroup stands between the   *)
(* lookup and the write: it changes nothing, and whom it refuses is a      *)
(* request that never starts here.                                         *)
(***************************************************************************)
EXTENDS Handling

CONSTANTS
  Students,    \* students of the center, members of the group or not
  Scores,      \* scores a homework grade may carry; 0 is also "no score"
  XpMax,       \* XPHomeworkMax of the center's settings
  ExamXp       \* XP of an exam score: round(score / max_score * examXPMax)

ASSUME CourseworkAssumption ==
  /\ Scores \subseteq Nat /\ XpMax \in Nat
  /\ ExamXp \in [DOMAIN ExamXp -> Nat]

VARIABLES
  enrolled,    \* students: the rows there are
  members,     \* group_members of the group
  assignment,  \* the homework_assignments row
  exam,        \* the exams row: "live" or "deleted"
  submission,  \* homework_submissions per student: NoRow, or status and score
  result,      \* exam_results per student: no score or one
  xp,          \* student_points: XP of the homework row and of the exam row
  given,       \* history: XP of every accepted homework and every exam grade
  lost         \* history: students an award was lost for

courseworkVars ==
  <<enrolled, members, assignment, exam, submission, result, xp, request, bounds, given, lost>>

-----------------------------------------------------------------------------
NoRow    == [status |-> "none", score |-> 0]
NoResult == {}
Works    == {"homework", "exam"}
Deadlines == {"none", "far", "soon", "past"}

(* soon: within the next two hours.                                       *)
Absent  == [status |-> "absent", deadline |-> "none", reminded |-> FALSE]
Live(d) == [status |-> "live", deadline |-> d, reminded |-> FALSE]
Dropped == [status |-> "deleted", deadline |-> "none", reminded |-> FALSE]

Smaller(a, b) == IF a < b THEN a ELSE b
NoXp == [w \in Works |-> 0]

(* AwardHomework clamps the score of the teacher; the award of 0 XP is a   *)
(* no-op.                                                                 *)
HomeworkXp(score) == Smaller(score, XpMax)

Requests ==
  {Idle} \cup [op : {"submit"}, student : Students]
         \cup [op : {"grade"}, student : Students, status : {"accepted", "rejected"}, score : Scores]
         \cup [op : {"examgrade"}, student : Students, score : DOMAIN ExamXp]
         \cup [op : {"award"}, student : Students, work : Works, xp : Nat]

CourseworkTypeOK ==
  /\ enrolled \subseteq Students /\ members \subseteq enrolled
  /\ assignment \in [status : {"absent", "live", "deleted"}, deadline : Deadlines, reminded : BOOLEAN]
  /\ exam \in {"live", "deleted"}
  /\ submission \in [Students -> [status : {"none", "submitted", "accepted", "rejected"}, score : Scores \cup {0}]]
  /\ result \in [Students -> SUBSET DOMAIN ExamXp]
  /\ xp \in [Students -> [Works -> Nat]]
  /\ request \in [Handlers -> Requests]
  /\ BoundsTypeOK
  /\ given \in [Students -> [Works -> SUBSET Nat]]
  /\ lost \subseteq Students

CourseworkInit ==
  /\ enrolled = Students /\ members \in SUBSET Students
  /\ assignment \in {Absent, Live("far")}
  /\ exam = "live"
  /\ submission = [s \in Students |-> NoRow]
  /\ result = [s \in Students |-> NoResult]
  /\ xp = [s \in Students |-> NoXp]
  /\ HandlingInit
  /\ given = [s \in Students |-> [w \in Works |-> {}]]
  /\ lost = {}

-----------------------------------------------------------------------------
(* The statements.                                                        *)
CreateHomeworkAssignment(d) == assignment' = Live(d)

(* No line of the UPDATE names reminded_at.                               *)
UpdateHomeworkAssignment(d) == assignment' = [assignment EXCEPT !.deadline = d]

(* ON CONFLICT resets the grading.  The foreign keys want the assignment   *)
(* and the student, but no membership.                                    *)
UpsertSubmission(s) ==
  /\ assignment.status = "live" /\ s \in enrolled
  /\ submission' = [submission EXCEPT ![s] = [status |-> "submitted", score |-> 0]]

(* By id, whatever the status: also an answer sent in after the lookup.    *)
GradeSubmission(s, status, score) ==
  /\ submission[s] # NoRow
  /\ submission' = [submission EXCEPT ![s] = [status |-> status, score |-> score]]

(* exam_results has no foreign key to the student, nor to the group.       *)
UpsertExamResult(s, score) ==
  /\ exam = "live"
  /\ result' = [result EXCEPT ![s] = {score}]

(* Award: one row per student, kind and submission or exam; 0 XP no row.   *)
InsertPointsIfNew(s, work, amount) ==
  xp' = [xp EXCEPT ![s][work] = IF s \in enrolled /\ @ = 0 THEN amount ELSE @]

-----------------------------------------------------------------------------
(* Edits of the assignment, the exam and the group, one write each.        *)
CreateAssignment(d) ==
  /\ Edit
  /\ assignment = Absent
  /\ CreateHomeworkAssignment(d)
  /\ UNCHANGED <<enrolled, members, exam, submission, result, xp, request, given, lost>>

UpdateAssignment(d) ==
  /\ Edit
  /\ assignment.status = "live"
  /\ UpdateHomeworkAssignment(d)
  /\ UNCHANGED <<enrolled, members, exam, submission, result, xp, request, given, lost>>

(* The submissions go with the assignment, the XP stay.                   *)
DeleteAssignment ==
  /\ Edit
  /\ assignment.status = "live"
  /\ assignment' = Dropped
  /\ submission' = [s \in Students |-> NoRow]
  /\ UNCHANGED <<enrolled, members, exam, result, xp, request, given, lost>>

DeleteExam ==
  /\ Edit
  /\ exam = "live"
  /\ exam' = "deleted"
  /\ result' = [s \in Students |-> NoResult]
  /\ UNCHANGED <<enrolled, members, assignment, submission, xp, request, given, lost>>

JoinGroup(s) ==
  /\ Edit
  /\ s \in enrolled \ members
  /\ members' = members \cup {s}
  /\ UNCHANGED <<enrolled, assignment, exam, submission, result, xp, request, given, lost>>

LeaveGroup(s) ==
  /\ Edit
  /\ s \in members
  /\ members' = members \ {s}
  /\ UNCHANGED <<enrolled, assignment, exam, submission, result, xp, request, given, lost>>

(* Submissions and points go with the student, exam results stay.          *)
DeleteStudent(s) ==
  /\ Edit
  /\ s \in enrolled
  /\ enrolled' = enrolled \ {s}
  /\ members' = members \ {s}
  /\ submission' = [submission EXCEPT ![s] = NoRow]
  /\ xp' = [xp EXCEPT ![s] = NoXp]
  /\ UNCHANGED <<assignment, exam, result, request, given, lost>>

-----------------------------------------------------------------------------
(* Submit: GetAssignmentForStudent, then the upsert.                      *)
Submit(h, s) ==
  /\ Ask
  /\ request[h] = Idle
  /\ assignment.status = "live" /\ s \in members
  /\ request' = [request EXCEPT ![h] = [op |-> "submit", student |-> s]]
  /\ UNCHANGED <<enrolled, members, assignment, exam, submission, result, xp, given, lost>>

WriteSubmission(h) ==
  /\ request[h].op = "submit"
  /\ UpsertSubmission(request[h].student)
  /\ request' = [request EXCEPT ![h] = Idle]
  /\ UNCHANGED <<enrolled, members, assignment, exam, result, xp, bounds, given, lost>>

(* Grade: GroupForSubmission; a rejected submission carries no score.      *)
GradeHomework(h, s, status, score) ==
  /\ Ask
  /\ request[h] = Idle
  /\ submission[s] # NoRow
  /\ status = "rejected" => score = 0
  /\ request' = [request EXCEPT ![h] =
                   [op |-> "grade", student |-> s, status |-> status, score |-> score]]
  /\ UNCHANGED <<enrolled, members, assignment, exam, submission, result, xp, given, lost>>

Awarding(s, work, amount) == [op |-> "award", student |-> s, work |-> work, xp |-> amount]

(* Mutant: the XP does not wait for an accepted answer.                   *)
AwardAtEveryGrade(h) ==
  /\ request[h].op = "grade"
  /\ GradeSubmission(request[h].student, request[h].status, request[h].score)
  /\ request' = [request EXCEPT ![h] = Awarding(@.student, "homework", XpMax)]
  /\ given' = [given EXCEPT ![request[h].student]["homework"] =
                 IF request[h].status = "accepted" THEN @ \cup {HomeworkXp(request[h].score)} ELSE @]
  /\ UNCHANGED <<enrolled, members, assignment, exam, result, xp, bounds, lost>>

(* The award follows when the answer is accepted.                         *)
WriteGrade(h) ==
  /\ request[h].op = "grade"
  /\ GradeSubmission(request[h].student, request[h].status, request[h].score)
  /\ LET amount == HomeworkXp(request[h].score) IN
     IF request[h].status = "accepted"
     THEN /\ request' = [request EXCEPT ![h] = Awarding(@.student, "homework", amount)]
          /\ given' = [given EXCEPT ![request[h].student]["homework"] = @ \cup {amount}]
     ELSE /\ request' = [request EXCEPT ![h] = Idle]
          /\ UNCHANGED given
  /\ UNCHANGED <<enrolled, members, assignment, exam, result, xp, bounds, lost>>

(* Exam Grade: GetExam, then the result clamped to max_score, the award.   *)
GradeExam(h, s, score) ==
  /\ Ask
  /\ request[h] = Idle
  /\ exam = "live"
  /\ request' = [request EXCEPT ![h] = [op |-> "examgrade", student |-> s, score |-> score]]
  /\ UNCHANGED <<enrolled, members, assignment, exam, submission, result, xp, given, lost>>

WriteResult(h) ==
  /\ request[h].op = "examgrade"
  /\ UpsertExamResult(request[h].student, request[h].score)
  /\ request' = [request EXCEPT ![h] = Awarding(@.student, "exam", ExamXp[@.score])]
  /\ given' = [given EXCEPT ![request[h].student]["exam"] = @ \cup {ExamXp[request[h].score]}]
  /\ UNCHANGED <<enrolled, members, assignment, exam, submission, xp, bounds, lost>>

Award(h) ==
  /\ request[h].op = "award"
  /\ InsertPointsIfNew(request[h].student, request[h].work, request[h].xp)
  /\ request' = [request EXCEPT ![h] = Idle]
  /\ UNCHANGED <<enrolled, members, assignment, exam, submission, result, bounds, given, lost>>

(* The row that the write wants is gone: not found, and nothing written.   *)
NotFound(h) ==
  /\ \/ request[h].op = "submit" /\ (assignment.status # "live" \/ request[h].student \notin enrolled)
     \/ request[h].op = "grade" /\ submission[request[h].student] = NoRow
     \/ request[h].op = "examgrade" /\ exam # "live"
  /\ request' = [request EXCEPT ![h] = Idle]
  /\ UNCHANGED <<enrolled, members, assignment, exam, submission, result, xp, bounds, given, lost>>

(* A statement fails and ends the request; after a failed award the client *)
(* still hears of success.                                                *)
StatementFails(h) ==
  /\ Fault
  /\ request[h] # Idle
  /\ request' = [request EXCEPT ![h] = Idle]
  /\ lost' = IF request[h].op = "award" THEN lost \cup {request[h].student} ELSE lost
  /\ UNCHANGED <<enrolled, members, assignment, exam, submission, result, xp, given>>

CourseworkEdit ==
  \/ \E s \in Students : LeaveGroup(s) \/ DeleteStudent(s)
  \/ DeleteAssignment \/ DeleteExam

CourseworkRequest ==
  \E h \in Handlers :
    \/ \E s \in Students :
         \/ Submit(h, s)
         \/ \E status \in {"accepted", "rejected"}, score \in Scores : GradeHomework(h, s, status, score)
         \/ \E score \in DOMAIN ExamXp : GradeExam(h, s, score)
    \/ WriteSubmission(h) \/ WriteGrade(h) \/ WriteResult(h) \/ Award(h)
    \/ NotFound(h) \/ StatementFails(h)

-----------------------------------------------------------------------------
Pending(s) == \E h \in Handlers : request[h].op = "award" /\ request[h].student = s

(* The XP of a homework or exam is that of one of the grades it got, never *)
(* of a rejected answer, and a grade worth XP leaves the student without   *)
(* any only if the award was lost; whichever way two grades, a new answer  *)
(* and their awards overlap.                                              *)
XpFromGrades ==
  \A s \in enrolled, w \in Works :
    /\ xp[s][w] \in {0} \cup given[s][w]
    /\ given[s][w] \notin SUBSET {0} => xp[s][w] > 0 \/ Pending(s) \/ s \in lost
=============================================================================
