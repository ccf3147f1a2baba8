-------------------------------- MODULE Roster --------------------------------
(***************************************************************************)
(* The groups of one student (internal/usecase/group, group_repo.go and    *)
(* AssignGroup of student_repo.go): the memberships, the primary group     *)
(* students.group_id, and students.group_name, a copy of its name.         *)
(*                                                                         *)
(* A membership and the primary group are two rows.  A request reads the   *)
(* student in one transaction and writes them in others, so two requests   *)
(* and the deletion of a group come in between.                            *)
(***************************************************************************)
EXTENDS Handling

CONSTANT
  Groups       \* groups of the center

VARIABLES
  group,       \* groups: whether the row is there, and which name it has
  student,     \* students: group_id and group_name
  memberships, \* group_members: the groups of the student
  uneven,      \* history: a request was overtaken or cut off between its writes
  unnamed      \* history: why the copied name may be stale

rosterVars == <<group, student, memberships, request, bounds, uneven, unnamed>>

-----------------------------------------------------------------------------
NoGroup == "none"
NoName  == <<>>

ASSUME GroupsAssumption == NoGroup \notin Groups

There     == {g \in Groups : group[g].there}
NameOf(g) == IF g \in There THEN <<g, group[g].name>> ELSE NoName

(* What a handler does next: the transactions of AssignStudent, AddMember  *)
(* and RemoveMember in their order; was is the primary group it read;      *)
(* overtaken, a history flag, that another request has written since.      *)
RosterRequests ==
  {Idle}
    \cup [op : {"assign"}, to : Groups \cup {NoGroup}, overtaken : BOOLEAN]
    \cup [op : {"join"}, to : Groups, overtaken : BOOLEAN]
    \cup [op : {"add", "remove"}, to : Groups, was : Groups \cup {NoGroup}, overtaken : BOOLEAN]
    \cup [op : {"first", "next", "settle"}, to : Groups \cup {NoGroup}, overtaken : BOOLEAN]

RosterTypeOK ==
  /\ group \in [Groups -> [there : BOOLEAN, name : Nat]]
  /\ student \in [primary : There \cup {NoGroup}, shown : {NoName} \cup (Groups \X Nat)]
  /\ memberships \subseteq There
  /\ request \in [Handlers -> RosterRequests]
  /\ BoundsTypeOK
  /\ uneven \in BOOLEAN
  /\ unnamed \subseteq {"typed", "renamed", "dropped"}

(* A student is created with a free text for the group name.              *)
RosterInit ==
  /\ group = [g \in Groups |-> [there |-> TRUE, name |-> 0]]
  /\ \E n \in {NoName} \cup (Groups \X {0}) :
        /\ student = [primary |-> NoGroup, shown |-> n]
        /\ unnamed = IF n = NoName THEN {} ELSE {"typed"}
  /\ memberships = {}
  /\ HandlingInit
  /\ uneven = FALSE

(* A write overtakes the requests in progress; handler h goes on with r.   *)
Overtaken(x) == IF request[x] = Idle THEN Idle ELSE [request[x] EXCEPT !.overtaken = TRUE]
Continue(h, r) == request' = [x \in Handlers |-> IF x = h THEN r ELSE Overtaken(x)]

-----------------------------------------------------------------------------
(* The statements.                                                        *)

(* Mutant: the name is not copied.                                        *)
AssignGroupOnly(g) == student' = [student EXCEPT !.primary = g]

AssignStudentGroup(g) == student' = [primary |-> g, shown |-> IF g = NoGroup THEN NoName ELSE NameOf(g)]

AddGroupMember(g) == memberships' = memberships \cup {g}

RemoveGroupMember(g) == memberships' = memberships \ {g}

ListGroupsForStudent == memberships

(* Both in one transaction.  NullGroupForStudents leaves the name alone;   *)
(* the memberships go with the group.                                     *)
NullGroupForStudents(g) ==
  student' = IF student.primary = g THEN [student EXCEPT !.primary = NoGroup] ELSE student

-----------------------------------------------------------------------------
(* Reads: the student, and the group that must be there.                   *)
AssignStudent(h, g) ==
  /\ Ask
  /\ request[h] = Idle
  /\ g # NoGroup => g \in There
  /\ request' = [request EXCEPT ![h] = [op |-> "assign", to |-> g, overtaken |-> FALSE]]
  /\ UNCHANGED <<group, student, memberships, uneven, unnamed>>

AddMember(h, g) ==
  /\ Ask
  /\ request[h] = Idle
  /\ g \in There
  /\ request' = [request EXCEPT ![h] =
                   [op |-> "add", to |-> g, was |-> student.primary, overtaken |-> FALSE]]
  /\ UNCHANGED <<group, student, memberships, uneven, unnamed>>

RemoveMember(h, g) ==
  /\ Ask
  /\ request[h] = Idle
  /\ request' = [request EXCEPT ![h] =
                   [op |-> "remove", to |-> g, was |-> student.primary, overtaken |-> FALSE]]
  /\ UNCHANGED <<group, student, memberships, uneven, unnamed>>

-----------------------------------------------------------------------------
(* Writes.  A foreign key refuses a group that is gone: not found.         *)
Then(h, op, g) == [op |-> op, to |-> g, overtaken |-> request[h].overtaken]
Done(h) == uneven' = (uneven \/ request[h].overtaken)

(* AssignStudent: the primary group first, then its membership.            *)
AssignPrimary(h) ==
  /\ request[h].op = "assign"
  /\ request[h].to \in There \cup {NoGroup}
  /\ AssignStudentGroup(request[h].to)
  /\ unnamed' = {}
  /\ Continue(h, IF request[h].to = NoGroup THEN Idle ELSE Then(h, "join", request[h].to))
  /\ IF request[h].to = NoGroup THEN Done(h) ELSE UNCHANGED uneven
  /\ UNCHANGED <<group, memberships, bounds>>

JoinAssigned(h) ==
  /\ request[h].op = "join"
  /\ request[h].to \in There
  /\ AddGroupMember(request[h].to)
  /\ Continue(h, Idle)
  /\ Done(h)
  /\ UNCHANGED <<group, student, bounds, unnamed>>

(* AddMember: the membership, then the primary group of who had none.      *)
AddMembership(h) ==
  /\ request[h].op = "add"
  /\ request[h].to \in There
  /\ AddGroupMember(request[h].to)
  /\ Continue(h, IF request[h].was = NoGroup THEN Then(h, "first", request[h].to) ELSE Idle)
  /\ IF request[h].was = NoGroup THEN UNCHANGED uneven ELSE Done(h)
  /\ UNCHANGED <<group, student, bounds, unnamed>>

(* RemoveMember: the membership; when it was the primary group, the list   *)
(* of the others; then the first of them, or none, becomes primary.        *)
DropMembership(h) ==
  /\ request[h].op = "remove"
  /\ RemoveGroupMember(request[h].to)
  /\ Continue(h, IF request[h].was = request[h].to THEN Then(h, "next", request[h].to) ELSE Idle)
  /\ IF request[h].was = request[h].to THEN UNCHANGED uneven ELSE Done(h)
  /\ UNCHANGED <<group, student, bounds, unnamed>>

(* Mutant: the groups listed are those before the removal.                *)
ListBefore(h) ==
  /\ request[h].op = "next"
  /\ \E g \in memberships \cup {request[h].to} : request' = [request EXCEPT ![h] = Then(h, "settle", g)]
  /\ UNCHANGED <<group, student, memberships, bounds, uneven, unnamed>>

ListForStudent(h) ==
  /\ request[h].op = "next"
  /\ \E g \in IF ListGroupsForStudent = {} THEN {NoGroup} ELSE ListGroupsForStudent :
        request' = [request EXCEPT ![h] = Then(h, "settle", g)]
  /\ UNCHANGED <<group, student, memberships, bounds, uneven, unnamed>>

AssignGroup(h) ==
  /\ request[h].op \in {"first", "settle"}
  /\ request[h].to \in There \cup {NoGroup}
  /\ AssignStudentGroup(request[h].to)
  /\ unnamed' = {}
  /\ Continue(h, Idle)
  /\ Done(h)
  /\ UNCHANGED <<group, memberships, bounds>>

(* The group was deleted meanwhile: the rest of the request is not done.   *)
GroupNotFound(h) ==
  /\ request[h].op \in {"assign", "join", "add", "first", "settle"}
  /\ request[h].to \notin There \cup {NoGroup}
  /\ request' = [request EXCEPT ![h] = Idle]
  /\ Done(h)
  /\ UNCHANGED <<group, student, memberships, bounds, unnamed>>

MembershipFails(h) ==
  /\ Fault
  /\ request[h].op \notin {"idle", "assign", "add", "remove"}
  /\ request' = [request EXCEPT ![h] = Idle]
  /\ uneven' = TRUE
  /\ UNCHANGED <<group, student, memberships, unnamed>>

-----------------------------------------------------------------------------
(* Edits of a group.                                                      *)
UpdateGroup(g) ==
  /\ Edit
  /\ g \in There
  /\ group' = [group EXCEPT ![g].name = @ + 1]
  /\ unnamed' = unnamed \cup {"renamed"}
  /\ UNCHANGED <<student, memberships, request, uneven>>

DeleteGroup(g) ==
  /\ Edit
  /\ g \in There
  /\ NullGroupForStudents(g)
  /\ group' = [group EXCEPT ![g].there = FALSE]
  /\ memberships' = memberships \ {g}
  /\ unnamed' = unnamed \cup {"dropped"}
  /\ request' = [x \in Handlers |-> Overtaken(x)]
  /\ UNCHANGED uneven

RosterNext ==
  \/ \E g \in Groups : UpdateGroup(g) \/ DeleteGroup(g)
  \/ \E h \in Handlers :
       \/ \E g \in Groups : AssignStudent(h, g) \/ AddMember(h, g) \/ RemoveMember(h, g)
       \/ AssignStudent(h, NoGroup)
       \/ AssignPrimary(h) \/ JoinAssigned(h) \/ AddMembership(h) \/ DropMembership(h)
       \/ ListForStudent(h) \/ AssignGroup(h) \/ GroupNotFound(h) \/ MembershipFails(h)

-----------------------------------------------------------------------------
Between(h) == request[h].op \in {"join", "next", "settle"}

(* "If it was their primary group, the primary moves to another remaining  *)
(* membership (or clears)" (RemoveMember): a student whose primary group   *)
(* is not one of theirs is between two writes of a request, or a request   *)
(* was overtaken by another or cut off between its writes.                *)
PrimaryIsMember ==
  student.primary \in memberships \cup {NoGroup} \/ uneven \/ \E h \in Handlers : Between(h)

(* "so the legacy group_name field stays in sync" (AssignStudentGroup):    *)
(* the student list shows the name of the primary group, unless that name  *)
(* was typed in, or a group was renamed or deleted since the last          *)
(* assignment.                                                            *)
ShownNameExplained ==
  student.shown = (IF student.primary = NoGroup THEN NoName ELSE NameOf(student.primary)) \/ unnamed # {}
=============================================================================
