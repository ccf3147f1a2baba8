------------------------------- MODULE Reminders ------------------------------
(***************************************************************************)
(* The reminders of homework deadlines: runReminderScheduler               *)
(* (internal/app), RemindHomeworkAllTenants (internal/usecase/maintenance) *)
(* and RemindDueHomework (internal/usecase/bot), over the assignment of    *)
(* Coursework and the telegram links of its students.                      *)
(*                                                                         *)
(* Every twenty minutes a goroutine lists the students to push to in one   *)
(* transaction, then pushes one by one; at the first push it marks the     *)
(* assignment, so that no later scan lists it.  Everything the staff and   *)
(* the students do in Coursework happens in between.                       *)
(***************************************************************************)
EXTENDS Coursework

VARIABLES
  linked,   \* students with a telegram_chat_id
  scan,     \* the goroutine: asleep, or the students still to push to
  told,     \* history: pushes each student received
  scanned,  \* history: a scan listed since the deadline came near
  slips,    \* history: what can have kept the scans from the assignment
  excuse    \* history, per student: what went wrong with the push

remindersVars == <<linked, scan, told, scanned, slips, excuse>>
vars == <<courseworkVars, remindersVars>>

-----------------------------------------------------------------------------
(* Asleep; about to push to one of todo; about to mark the assignment.     *)
Asleep        == [pc |-> "asleep"]
Pushing(S, m) == [pc |-> "push", todo |-> S, marked |-> m]
Marking(S)    == [pc |-> "mark", todo |-> S]

Scans ==
  {Asleep} \cup [pc : {"push"}, todo : SUBSET Students, marked : BOOLEAN]
           \cup [pc : {"mark"}, todo : SUBSET Students]

TypeOK ==
  /\ CourseworkTypeOK
  /\ linked \subseteq Students
  /\ scan \in Scans
  /\ told \in [Students -> Nat]
  /\ scanned \in BOOLEAN
  /\ slips \subseteq {"hasty", "moved", "overran"}
  /\ excuse \in [Students -> SUBSET {"late", "unsent", "crash", "unmarked"}]

Init ==
  /\ CourseworkInit
  /\ linked \in SUBSET Students
  /\ scan = Asleep
  /\ told = [s \in Students |-> 0]
  /\ scanned = FALSE
  /\ slips = {}
  /\ excuse = [s \in Students |-> {}]

Blame(S, why) == excuse' = [s \in Students |-> excuse[s] \cup IF s \in S THEN {why} ELSE {}]

-----------------------------------------------------------------------------
(* What the staff and the students do.  A deadline may be set less than    *)
(* one scan ahead, or moved after the reminders were sent.                *)
SetDeadline ==
  /\ \E d \in {"none", "far", "soon"} :
        /\ CreateAssignment(d) \/ UpdateAssignment(d)
        /\ slips' = slips \cup (IF d = "soon" THEN {"hasty"} ELSE {})
                          \cup (IF assignment.reminded \/ scan # Asleep THEN {"moved"} ELSE {})
  /\ scanned' = FALSE
  /\ UNCHANGED <<linked, scan, told, excuse>>

(* A student who joins or links when the deadline is near may come after   *)
(* the last scan, or after the mark.                                      *)
TooLate(s) ==
  IF assignment.reminded \/ assignment.deadline \in {"soon", "past"} THEN Blame({s}, "late")
  ELSE UNCHANGED excuse

Join(s) ==
  /\ JoinGroup(s)
  /\ TooLate(s)
  /\ UNCHANGED <<linked, scan, told, scanned, slips>>

LinkTelegram(s) ==
  /\ Edit
  /\ s \in enrolled \ linked
  /\ linked' = linked \cup {s}
  /\ TooLate(s)
  /\ UNCHANGED <<enrolled, members, assignment, exam, submission, result, xp, request, given, lost>>
  /\ UNCHANGED <<scan, told, scanned, slips>>

CourseworkStep ==
  /\ CourseworkEdit \/ CourseworkRequest
  /\ UNCHANGED remindersVars

-----------------------------------------------------------------------------
(* The clock.                                                             *)
DeadlineNears ==
  /\ assignment.deadline = "far"
  /\ assignment' = [assignment EXCEPT !.deadline = "soon"]
  /\ UNCHANGED <<enrolled, members, exam, submission, result, xp, request, bounds, given, lost>>
  /\ UNCHANGED remindersVars

(* Two hours hold six scans, unless the goroutine is held up all the time.  *)
DeadlinePasses ==
  /\ assignment.deadline = "soon"
  /\ assignment' = [assignment EXCEPT !.deadline = "past"]
  /\ slips' = IF scanned /\ scan = Asleep THEN slips ELSE slips \cup {"overran"}
  /\ UNCHANGED <<enrolled, members, exam, submission, result, xp, request, bounds, given, lost>>
  /\ UNCHANGED <<linked, scan, told, scanned, excuse>>

-----------------------------------------------------------------------------
(* The statements of the goroutine.                                       *)

(* Mutant: the mark of an earlier scan is not looked at.                   *)
ListEveryDueHomework ==
  IF assignment.deadline = "soon"
  THEN {s \in members \cap linked : submission[s] = NoRow} ELSE {}

ListDueHomeworkReminders ==
  IF assignment.deadline = "soon" /\ ~assignment.reminded
  THEN {s \in members \cap linked : submission[s] = NoRow} ELSE {}

(* No row, and no error, when the assignment is gone.                     *)
MarkHomeworkReminded ==
  assignment' = [assignment EXCEPT !.reminded = @ \/ assignment.status = "live"]

-----------------------------------------------------------------------------
DueHomeworkReminders ==
  /\ scan = Asleep
  /\ scan' = IF ListDueHomeworkReminders = {} THEN Asleep ELSE Pushing(ListDueHomeworkReminders, FALSE)
  /\ scanned' = (scanned \/ assignment.deadline = "soon")
  /\ UNCHANGED <<courseworkVars, linked, told, slips, excuse>>

(* Mutant: the map of marked assignments also skips the push.              *)
OnePushEach(todo, marked) == IF ~marked THEN Marking({}) ELSE Asleep

(* To the mark after the first push, then to the next student.            *)
AfterPush(todo, marked) ==
  IF ~marked THEN Marking(todo) ELSE IF todo = {} THEN Asleep ELSE Pushing(todo, TRUE)

(* One push; its error is only logged, and the loop goes on.               *)
Push(s) ==
  /\ scan.pc = "push" /\ s \in scan.todo
  /\ scan' = AfterPush(scan.todo \ {s}, scan.marked)
  /\ \/ /\ told' = [told EXCEPT ![s] = @ + 1]
        /\ UNCHANGED <<bounds, excuse>>
     \/ /\ Fault
        /\ Blame({s}, "unsent")
        /\ UNCHANGED told
  /\ UNCHANGED <<enrolled, members, assignment, exam, submission, result, xp, request, given, lost>>
  /\ UNCHANGED <<linked, scanned, slips>>

(* After the first push, before the others; a failed mark is not retried.  *)
MarkFirst ==
  /\ scan.pc = "mark"
  /\ scan' = AfterPush(scan.todo, TRUE)
  /\ \/ /\ MarkHomeworkReminded
        /\ UNCHANGED <<bounds, excuse>>
     \/ /\ Fault
        /\ Blame(Students, "unmarked")
        /\ UNCHANGED assignment
  /\ UNCHANGED <<enrolled, members, exam, submission, result, xp, request, given, lost>>
  /\ UNCHANGED <<linked, told, scanned, slips>>

(* The process dies, with every request and the scan under way.            *)
Crash ==
  /\ Fault
  /\ request' = [h \in Handlers |-> Idle]
  /\ lost' = lost \cup {s \in Students : Pending(s)}
  /\ scan' = Asleep
  /\ excuse' = [s \in Students |-> excuse[s]
                 \cup (IF scan # Asleep /\ s \in scan.todo THEN {"crash"} ELSE {})
                 \cup (IF scan.pc = "mark" THEN {"unmarked"} ELSE {})]
  /\ UNCHANGED <<enrolled, members, assignment, exam, submission, result, xp, given>>
  /\ UNCHANGED <<linked, told, scanned, slips>>

ScanStep == DueHomeworkReminders \/ MarkFirst \/ \E s \in Students : Push(s)

Next ==
  \/ SetDeadline \/ CourseworkStep
  \/ \E s \in Students : Join(s) \/ LinkTelegram(s)
  \/ DeadlineNears \/ DeadlinePasses
  \/ ScanStep \/ Crash

Spec == Init /\ [][Next]_vars

-----------------------------------------------------------------------------
(* "then marks those assignments reminded so they aren't pinged again"     *)
(* (RemindDueHomework): whatever the students and the staff do meanwhile,  *)
(* a second push for one assignment means that the mark failed or that the *)
(* process died between the first push and the mark.                      *)
RemindedOnce == \A s \in Students : told[s] > 1 => "unmarked" \in excuse[s]

(* The mark is set at the first push and outlives a change of the deadline *)
(* (UpdateHomeworkAssignment), so somebody else may pay for it.  A linked  *)
(* member who let the deadline pass without an answer and was never pushed *)
(* is explained: pushed to in vain, cut off by a crash, a late comer, a    *)
(* deadline moved after the mark or set too close, or scans held up.       *)
MissedExplained ==
  assignment.deadline = "past" =>
    \A s \in members \cap linked :
      submission[s] = NoRow /\ told[s] = 0 => slips # {} \/ excuse[s] # {}
=============================================================================
