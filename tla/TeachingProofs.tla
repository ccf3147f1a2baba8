---------------------------- MODULE TeachingProofs ----------------------------
(***************************************************************************)
(* Roster, Timetable, Coursework and Reminders: their types and their      *)
(* properties, for any groups, lessons, students, handlers and bounds.     *)
(*                                                                         *)
(* Two arguments carry the module.  In Roster and Timetable a request acts *)
(* on what an earlier transaction read: as long as no other write overtook *)
(* it, what it read is still true.  In Reminders the goroutine acts on a   *)
(* list it read: who is on the list has not been told, and who was told    *)
(* is on no list to come, because the assignment is marked.                *)
(***************************************************************************)
EXTENDS Timetable, Reminders, TLAPS

-----------------------------------------------------------------------------
(* The requests of Roster.                                                *)

LEMMA RosterRequestKind ==
  ASSUME NEW r \in RosterRequests
  PROVE  /\ r.op \in {"idle", "assign", "join", "add", "remove", "first", "next", "settle"}
         /\ r = Idle <=> r.op = "idle"
         /\ r # Idle => r.overtaken \in BOOLEAN /\ r.to \in Groups \cup {NoGroup}
         /\ r.op \in {"join", "add", "remove"} => r.to \in Groups
         /\ r.op \in {"add", "remove"} => r.was \in Groups \cup {NoGroup}
BY DEF RosterRequests, Idle

(* Overtaken, a request goes on with what it was about.                    *)
LEMMA OvertakenKind ==
  ASSUME NEW r \in RosterRequests, r # Idle
  PROVE  /\ [r EXCEPT !.overtaken = TRUE] \in RosterRequests
         /\ [r EXCEPT !.overtaken = TRUE].op = r.op
         /\ [r EXCEPT !.overtaken = TRUE].overtaken
         /\ [r EXCEPT !.overtaken = TRUE] # Idle
BY DEF RosterRequests, Idle

LEMMA ContinueStep ==
  ASSUME request \in [Handlers -> RosterRequests],
         NEW h \in Handlers, NEW r \in RosterRequests, Continue(h, r)
  PROVE  /\ request' \in [Handlers -> RosterRequests]
         /\ request'[h] = r
         /\ \A x \in Handlers \ {h} :
              /\ request'[x].op = request[x].op
              /\ request'[x] # Idle => request'[x].overtaken
<1>1. \A x \in Handlers :
         /\ Overtaken(x) \in RosterRequests
         /\ Overtaken(x).op = request[x].op
         /\ Overtaken(x) # Idle => Overtaken(x).overtaken
  <2> TAKE x \in Handlers
  <2>1. CASE request[x] = Idle
    BY <2>1 DEF Overtaken, RosterRequests
  <2>2. CASE request[x] # Idle
    BY <2>2, OvertakenKind DEF Overtaken
  <2> QED  BY <2>1, <2>2
<1> QED  BY <1>1 DEF Continue

(* The next transaction of a request is a request.                         *)
LEMMA ThenType ==
  ASSUME request \in [Handlers -> RosterRequests], NEW h \in Handlers, request[h] # Idle,
         NEW g \in Groups \cup {NoGroup},
         NEW op \in {"join", "first", "next", "settle"}, op = "join" => g \in Groups
  PROVE  Then(h, op, g) \in RosterRequests
<1>1. request[h].overtaken \in BOOLEAN
  BY RosterRequestKind
<1>2. CASE op = "join"
  BY <1>1, <1>2 DEF Then, RosterRequests
<1>3. CASE op # "join"
  BY <1>1, <1>3 DEF Then, RosterRequests
<1> QED  BY <1>2, <1>3

LEMMA BoundsStep ==
  ASSUME BoundsTypeOK, Ask \/ Edit \/ Fault \/ UNCHANGED bounds
  PROVE  BoundsTypeOK'
<1>1. MaxRequests \in Nat /\ MaxEdits \in Nat /\ MaxFaults \in Nat
  BY HandlingAssumption
<1> QED  BY <1>1 DEF BoundsTypeOK, Ask, Edit, Fault

-----------------------------------------------------------------------------
(* Roster keeps its type.                                                  *)

LEMMA RosterTypeStep ==
  ASSUME RosterTypeOK, RosterNext
  PROVE  RosterTypeOK'
<1> USE DEF RosterTypeOK
<1>0. \A h \in Handlers : request[h] \in RosterRequests
  OBVIOUS
<1>i. Idle \in RosterRequests
  BY DEF RosterRequests
<1>1. ASSUME NEW g \in Groups, UpdateGroup(g)
      PROVE  RosterTypeOK'
  <2>1. group' \in [Groups -> [there : BOOLEAN, name : Nat]]
    BY <1>1 DEF UpdateGroup
  <2>2. There' = There
    BY <1>1 DEF UpdateGroup, There
  <2> QED  BY <1>1, <2>1, <2>2, BoundsStep DEF UpdateGroup
<1>2. ASSUME NEW g \in Groups, DeleteGroup(g)
      PROVE  RosterTypeOK'
  <2>1. group' \in [Groups -> [there : BOOLEAN, name : Nat]]
    BY <1>2 DEF DeleteGroup
  <2>2. There' = There \ {g}
    BY <1>2 DEF DeleteGroup, There
  <2>3. /\ student' \in [primary : (There \ {g}) \cup {NoGroup}, shown : {NoName} \cup (Groups \X Nat)]
        /\ memberships' \subseteq There \ {g}
    BY <1>2, GroupsAssumption DEF DeleteGroup, NullGroupForStudents
  <2>4. request' \in [Handlers -> RosterRequests]
    BY <1>2, <1>0, <1>i, OvertakenKind DEF DeleteGroup, Overtaken
  <2> QED  BY <1>2, <2>1, <2>2, <2>3, <2>4, BoundsStep DEF DeleteGroup
<1>3. ASSUME NEW h \in Handlers, NEW g \in Groups \cup {NoGroup}, AssignStudent(h, g)
      PROVE  RosterTypeOK'
  <2>1. [op |-> "assign", to |-> g, overtaken |-> FALSE] \in RosterRequests
    BY DEF RosterRequests
  <2> QED  BY <1>3, <2>1, BoundsStep DEF AssignStudent, There
<1>4. ASSUME NEW h \in Handlers, NEW g \in Groups, AddMember(h, g) \/ RemoveMember(h, g)
      PROVE  RosterTypeOK'
  <2>1. student.primary \in Groups \cup {NoGroup}
    BY DEF There
  <2>2. \A op \in {"add", "remove"} :
          [op |-> op, to |-> g, was |-> student.primary, overtaken |-> FALSE] \in RosterRequests
    BY <2>1 DEF RosterRequests
  <2>3. request' \in [Handlers -> RosterRequests]
    BY <1>4, <2>2 DEF AddMember, RemoveMember
  <2>4. UNCHANGED <<group, student, memberships, uneven, unnamed>> /\ Ask
    BY <1>4 DEF AddMember, RemoveMember
  <2> QED  BY <2>3, <2>4, BoundsStep DEF There
<1>5. ASSUME NEW h \in Handlers, AssignPrimary(h) \/ AssignGroup(h)
      PROVE  RosterTypeOK'
  <2>1. request[h] # Idle /\ request[h].to \in There \cup {NoGroup}
    BY <1>5 DEF AssignPrimary, AssignGroup, Idle
  <2>2. student' \in [primary : There \cup {NoGroup}, shown : {NoName} \cup (Groups \X Nat)]
    BY <1>5, <2>1 DEF AssignPrimary, AssignGroup, AssignStudentGroup, NameOf, There
  <2>3. request[h].to # NoGroup => Then(h, "join", request[h].to) \in RosterRequests
    BY <2>1, ThenType DEF There
  <2>4. request' \in [Handlers -> RosterRequests]
    BY <1>5, <1>i, <2>3, ContinueStep DEF AssignPrimary, AssignGroup
  <2>5. uneven' \in BOOLEAN
    BY <1>0, <1>5, <2>1, RosterRequestKind DEF AssignPrimary, AssignGroup, Done
  <2> QED  BY <1>5, <2>2, <2>4, <2>5, BoundsStep DEF AssignPrimary, AssignGroup, There
<1>6. ASSUME NEW h \in Handlers, JoinAssigned(h) \/ AddMembership(h) \/ DropMembership(h)
      PROVE  RosterTypeOK'
  <2>1. request[h] # Idle /\ request[h].to \in Groups
    BY <1>0, <1>6, RosterRequestKind DEF JoinAssigned, AddMembership, DropMembership
  <2>2. memberships' \subseteq There
    BY <1>6 DEF JoinAssigned, AddMembership, DropMembership, AddGroupMember, RemoveGroupMember
  <2>3. /\ Then(h, "first", request[h].to) \in RosterRequests
        /\ Then(h, "next", request[h].to) \in RosterRequests
    BY <2>1, ThenType
  <2>4. request' \in [Handlers -> RosterRequests]
    BY <1>6, <1>i, <2>3, ContinueStep DEF JoinAssigned, AddMembership, DropMembership
  <2>5. uneven' \in BOOLEAN
    BY <1>0, <1>6, <2>1, RosterRequestKind DEF JoinAssigned, AddMembership, DropMembership, Done
  <2> QED
    BY <1>6, <2>2, <2>4, <2>5, BoundsStep DEF JoinAssigned, AddMembership, DropMembership, There
<1>7. ASSUME NEW h \in Handlers, ListForStudent(h)
      PROVE  RosterTypeOK'
  <2>1. request[h] # Idle
    BY <1>7 DEF ListForStudent, Idle
  <2>2. memberships \subseteq Groups
    BY DEF There
  <2>3. \A g \in Groups \cup {NoGroup} : Then(h, "settle", g) \in RosterRequests
    BY <2>1, ThenType
  <2> QED
    BY <1>7, <2>2, <2>3, BoundsStep DEF ListForStudent, ListGroupsForStudent, There
<1>8. ASSUME NEW h \in Handlers, GroupNotFound(h) \/ MembershipFails(h)
      PROVE  RosterTypeOK'
  <2>1. request[h] # Idle
    BY <1>8 DEF GroupNotFound, MembershipFails, Idle
  <2>2. uneven' \in BOOLEAN
    BY <1>0, <1>8, <2>1, RosterRequestKind DEF GroupNotFound, MembershipFails, Done
  <2> QED  BY <1>8, <1>i, <2>2, BoundsStep DEF GroupNotFound, MembershipFails, There
<1> QED
  BY <1>1, <1>2, <1>3, <1>4, <1>5, <1>6, <1>7, <1>8 DEF RosterNext

(* A step of a lesson, or none, leaves the student alone.                  *)
LEMMA RosterFrame ==
  ASSUME RosterTypeOK, UNCHANGED <<group, student, memberships, request, uneven, unnamed>>,
         Ask \/ Edit \/ Fault \/ UNCHANGED bounds
  PROVE  RosterTypeOK'
BY BoundsStep DEF RosterTypeOK, There, RosterRequests

LEMMA LessonStepFrame ==
  ASSUME LessonStep \/ UNCHANGED timetableVars
  PROVE  /\ UNCHANGED <<group, student, memberships, request, uneven, unnamed>>
         /\ Ask \/ Edit \/ Fault \/ UNCHANGED bounds
BY DEF LessonStep, CheckCreate, CheckUpdate, FindByGroupDate, Serve, CreateChecked, UpdateChecked,
       UpdateTopic, DeleteLesson, RequestFails, rosterVars, timetableVars

-----------------------------------------------------------------------------
(* The primary group.                                                      *)

(* What a request read, or wrote, is still true.                           *)
StillTrue(h) ==
  LET r == request[h] IN
  /\ r.op \in {"add", "remove"} => student.primary = r.was
  /\ r.op = "join" => student.primary = r.to
  /\ r.op = "first" => r.to \in memberships
  /\ r.op = "settle" => r.to \in memberships \cup {NoGroup}
  /\ r.op \in {"assign", "join", "add", "first", "settle"} => r.to \in There \cup {NoGroup}

(* So it is of every request that no other write overtook.                 *)
RosterFresh ==
  \A h \in Handlers : request[h] # Idle /\ ~request[h].overtaken => StillTrue(h)

(* The writes of a handler overtake all the others: its own request is the *)
(* only one to look at.                                                    *)
LEMMA FreshAfterContinue ==
  ASSUME RosterTypeOK, NEW h \in Handlers, NEW r \in RosterRequests, Continue(h, r),
         r # Idle /\ ~r.overtaken => StillTrue(h)'
  PROVE  RosterFresh'
<1>1. /\ request'[h] = r
      /\ \A x \in Handlers \ {h} : request'[x] # Idle => request'[x].overtaken
  BY ContinueStep DEF RosterTypeOK
<1> QED  BY <1>1 DEF RosterFresh

(* A request that only reads, or ends, overtakes nobody.                   *)
LEMMA FreshAfterRead ==
  ASSUME RosterTypeOK, RosterFresh, NEW h \in Handlers, NEW r,
         request' = [request EXCEPT ![h] = r], UNCHANGED <<group, student, memberships>>,
         r # Idle /\ ~r.overtaken => StillTrue(h)'
  PROVE  RosterFresh'
<1>1. request'[h] = r /\ \A x \in Handlers \ {h} : request'[x] = request[x]
  BY DEF RosterTypeOK
<1>2. There' = There
  BY DEF There
<1>3. \A x \in Handlers \ {h} : StillTrue(x)' = StillTrue(x)
  BY <1>1, <1>2 DEF StillTrue
<1> QED  BY <1>1, <1>3 DEF RosterFresh

LEMMA RosterFreshStep ==
  ASSUME RosterTypeOK, RosterFresh, RosterNext
  PROVE  RosterFresh'
<1>0. \A h \in Handlers : request[h] \in RosterRequests
  BY DEF RosterTypeOK
<1>i. Idle \in RosterRequests
  BY DEF RosterRequests
<1>1. ASSUME NEW g \in Groups, UpdateGroup(g)
      PROVE  RosterFresh'
  <2>1. There' = There
    BY <1>1 DEF UpdateGroup, There, RosterTypeOK
  <2> QED  BY <1>1, <2>1 DEF UpdateGroup, RosterFresh, StillTrue
<1>2. ASSUME NEW g \in Groups, DeleteGroup(g)
      PROVE  RosterFresh'
  <2>1. \A x \in Handlers : Overtaken(x) # Idle => Overtaken(x).overtaken
    BY <1>0, OvertakenKind DEF Overtaken
  <2> QED  BY <1>2, <2>1 DEF DeleteGroup, RosterFresh
<1>3. ASSUME NEW h \in Handlers, NEW g \in Groups \cup {NoGroup}, AssignStudent(h, g)
      PROVE  RosterFresh'
  <2> DEFINE r == [op |-> "assign", to |-> g, overtaken |-> FALSE]
  <2>1. /\ request' = [request EXCEPT ![h] = r]
        /\ UNCHANGED <<group, student, memberships>>
        /\ g \in There \cup {NoGroup}
    BY <1>3 DEF AssignStudent
  <2>2. request'[h] = r /\ There' = There
    BY <2>1 DEF RosterTypeOK, There
  <2>3. StillTrue(h)'
    BY <2>1, <2>2 DEF StillTrue
  <2> QED  BY <2>1, <2>3, FreshAfterRead
<1>4. ASSUME NEW h \in Handlers, NEW g \in Groups, AddMember(h, g) \/ RemoveMember(h, g)
      PROVE  RosterFresh'
  <2>1. PICK op \in {"add", "remove"} :
          /\ request' = [request EXCEPT ![h] =
                           [op |-> op, to |-> g, was |-> student.primary, overtaken |-> FALSE]]
          /\ op = "add" => g \in There
    BY <1>4 DEF AddMember, RemoveMember
  <2> DEFINE r == [op |-> op, to |-> g, was |-> student.primary, overtaken |-> FALSE]
  <2>2. UNCHANGED <<group, student, memberships>>
    BY <1>4 DEF AddMember, RemoveMember
  <2>3. request'[h] = r /\ There' = There
    BY <2>1, <2>2 DEF RosterTypeOK, There
  <2>4. StillTrue(h)'
    BY <2>1, <2>2, <2>3 DEF StillTrue
  <2> QED  BY <2>1, <2>2, <2>4, FreshAfterRead
<1>5. ASSUME NEW h \in Handlers, AssignPrimary(h)
      PROVE  RosterFresh'
  <2>1. request[h] # Idle /\ request[h].to \in There \cup {NoGroup}
    BY <1>5 DEF AssignPrimary, Idle
  <2>2. request[h].to = NoGroup => RosterFresh'
    BY <1>5, <1>i, FreshAfterContinue DEF AssignPrimary
  <2>3. ASSUME request[h].to # NoGroup
        PROVE  RosterFresh'
    <3> DEFINE r == Then(h, "join", request[h].to)
    <3>1. r \in RosterRequests /\ Continue(h, r)
      BY <1>5, <2>1, <2>3, ThenType DEF AssignPrimary, There, RosterTypeOK
    <3>2. request'[h] = r
      BY <3>1, ContinueStep DEF RosterTypeOK
    <3>3. student'.primary = request[h].to /\ There' = There
      BY <1>5 DEF AssignPrimary, AssignStudentGroup, There
    <3>4. StillTrue(h)'
      BY <2>1, <3>2, <3>3 DEF StillTrue, Then
    <3> QED  BY <3>1, <3>4, FreshAfterContinue
  <2> QED  BY <2>2, <2>3
<1>6. ASSUME NEW h \in Handlers, JoinAssigned(h) \/ AssignGroup(h)
      PROVE  RosterFresh'
  BY <1>6, <1>i, FreshAfterContinue DEF JoinAssigned, AssignGroup
<1>7. ASSUME NEW h \in Handlers, AddMembership(h)
      PROVE  RosterFresh'
  <2>1. request[h] # Idle /\ request[h].to \in There
    BY <1>7 DEF AddMembership, Idle
  <2>2. request[h].was # NoGroup => RosterFresh'
    BY <1>7, <1>i, FreshAfterContinue DEF AddMembership
  <2>3. ASSUME request[h].was = NoGroup
        PROVE  RosterFresh'
    <3> DEFINE r == Then(h, "first", request[h].to)
    <3>1. r \in RosterRequests /\ Continue(h, r)
      BY <1>7, <2>1, <2>3, ThenType DEF AddMembership, There, RosterTypeOK
    <3>2. request'[h] = r
      BY <3>1, ContinueStep DEF RosterTypeOK
    <3>3. request[h].to \in memberships' /\ There' = There
      BY <1>7 DEF AddMembership, AddGroupMember, There
    <3>4. StillTrue(h)'
      BY <2>1, <3>2, <3>3 DEF StillTrue, Then
    <3> QED  BY <3>1, <3>4, FreshAfterContinue
  <2> QED  BY <2>2, <2>3
<1>8. ASSUME NEW h \in Handlers, DropMembership(h)
      PROVE  RosterFresh'
  <2>1. request[h] # Idle /\ request[h].to \in Groups
    BY <1>0, <1>8, RosterRequestKind DEF DropMembership
  <2> DEFINE r == Then(h, "next", request[h].to)
  <2>2. r \in RosterRequests
    BY <2>1, ThenType DEF RosterTypeOK
  <2>3. Continue(h, r) => request'[h] = r
    BY <2>2, ContinueStep DEF RosterTypeOK
  <2>4. Continue(h, r) => StillTrue(h)'
    BY <2>3 DEF StillTrue, Then
  <2> QED  BY <1>8, <1>i, <2>2, <2>4, FreshAfterContinue DEF DropMembership
<1>9. ASSUME NEW h \in Handlers, ListForStudent(h)
      PROVE  RosterFresh'
  <2>1. PICK g \in memberships \cup {NoGroup} :
          request' = [request EXCEPT ![h] = Then(h, "settle", g)]
    BY <1>9 DEF ListForStudent, ListGroupsForStudent
  <2>2. UNCHANGED <<group, student, memberships>>
    BY <1>9 DEF ListForStudent
  <2>3. request'[h] = Then(h, "settle", g) /\ There' = There /\ memberships \subseteq There
    BY <2>1, <2>2 DEF RosterTypeOK, There
  <2>4. StillTrue(h)'
    BY <2>1, <2>2, <2>3 DEF StillTrue, Then
  <2> QED  BY <2>1, <2>2, <2>4, FreshAfterRead
<1>10. ASSUME NEW h \in Handlers, GroupNotFound(h) \/ MembershipFails(h)
       PROVE  RosterFresh'
  BY <1>10, FreshAfterRead DEF GroupNotFound, MembershipFails
<1> QED
  BY <1>1, <1>2, <1>3, <1>4, <1>5, <1>6, <1>7, <1>8, <1>9, <1>10 DEF RosterNext

(* A request between its two writes stays there while others write.        *)
LEMMA BetweenKept ==
  ASSUME RosterTypeOK, NEW h \in Handlers, NEW r \in RosterRequests, Continue(h, r),
         NEW x \in Handlers, Between(x), x = h => r.op \in {"join", "next", "settle"}
  PROVE  \E y \in Handlers : Between(y)'
<1>1. /\ request'[h] = r
      /\ \A y \in Handlers \ {h} : request'[y].op = request[y].op
  BY ContinueStep DEF RosterTypeOK
<1>2. Between(x)'
  BY <1>1 DEF Between
<1> QED  BY <1>2

LEMMA PrimaryStep ==
  ASSUME RosterTypeOK, RosterFresh, PrimaryIsMember, RosterNext
  PROVE  PrimaryIsMember'
<1>0. /\ \A h \in Handlers : request[h] \in RosterRequests
      /\ uneven \in BOOLEAN
  BY DEF RosterTypeOK
<1>i. Idle \in RosterRequests
  BY DEF RosterRequests
(* Done tells of a request that was overtaken.                            *)
<1>d. ASSUME NEW h \in Handlers, Done(h), uneven \/ request[h].overtaken
      PROVE  uneven'
  BY <1>d DEF Done
<1>u. uneven /\ (UNCHANGED uneven \/ (\E h \in Handlers : Done(h)) \/ uneven' = TRUE) => uneven'
  BY DEF Done
<1>1. ASSUME NEW g \in Groups, UpdateGroup(g)
      PROVE  PrimaryIsMember'
  BY <1>1 DEF UpdateGroup, PrimaryIsMember, Between
<1>2. ASSUME NEW g \in Groups, DeleteGroup(g)
      PROVE  PrimaryIsMember'
  <2>1. student'.primary = (IF student.primary = g THEN NoGroup ELSE student.primary)
    BY <1>2 DEF DeleteGroup, NullGroupForStudents, RosterTypeOK
  <2>2. \A x \in Handlers : request'[x].op = request[x].op
    BY <1>0, <1>2, OvertakenKind DEF DeleteGroup, Overtaken
  <2> QED  BY <1>2, <2>1, <2>2 DEF DeleteGroup, PrimaryIsMember, Between
<1>3. ASSUME NEW h \in Handlers, NEW r, r.op \notin {"join", "next", "settle"},
             request' = [request EXCEPT ![h] = r], request[h] = Idle,
             UNCHANGED <<student, memberships, uneven>>
      PROVE  PrimaryIsMember'
  <2>1. \A x \in Handlers : Between(x) => Between(x)'
    BY <1>3 DEF Between, Idle, RosterTypeOK
  <2> QED  BY <1>3, <2>1 DEF PrimaryIsMember
<1>4. ASSUME NEW h \in Handlers, NEW g \in Groups \cup {NoGroup}, AssignStudent(h, g)
      PROVE  PrimaryIsMember'
  BY <1>3, <1>4 DEF AssignStudent
<1>5. ASSUME NEW h \in Handlers, NEW g \in Groups, AddMember(h, g) \/ RemoveMember(h, g)
      PROVE  PrimaryIsMember'
  BY <1>3, <1>5 DEF AddMember, RemoveMember
<1>6. ASSUME NEW h \in Handlers, AssignPrimary(h)
      PROVE  PrimaryIsMember'
  <2>1. request[h] # Idle /\ student'.primary = request[h].to
    BY <1>6 DEF AssignPrimary, AssignStudentGroup, Idle
  <2>2. CASE request[h].to = NoGroup
    BY <2>1, <2>2 DEF PrimaryIsMember
  <2>3. CASE request[h].to # NoGroup
    <3> DEFINE r == Then(h, "join", request[h].to)
    <3>1. r \in RosterRequests /\ Continue(h, r)
      BY <1>6, <2>1, <2>3, ThenType DEF AssignPrimary, There, RosterTypeOK
    <3>2. Between(h)'
      BY <3>1, ContinueStep DEF RosterTypeOK, Then, Between
    <3> QED  BY <3>2 DEF PrimaryIsMember
  <2> QED  BY <2>2, <2>3
<1>7. ASSUME NEW h \in Handlers, JoinAssigned(h)
      PROVE  PrimaryIsMember'
  <2>1. request[h] # Idle /\ request[h].op = "join" /\ request[h].overtaken \in BOOLEAN
    BY <1>0, <1>7, RosterRequestKind DEF JoinAssigned
  <2>2. CASE request[h].overtaken
    BY <1>d, <1>7, <2>2 DEF JoinAssigned, PrimaryIsMember
  <2>3. CASE ~request[h].overtaken
    <3>1. student.primary = request[h].to
      BY <2>1, <2>3 DEF RosterFresh, StillTrue
    <3> QED  BY <1>7, <3>1 DEF JoinAssigned, AddGroupMember, PrimaryIsMember
  <2> QED  BY <2>1, <2>2, <2>3
<1>8. ASSUME NEW h \in Handlers, AddMembership(h)
      PROVE  PrimaryIsMember'
  <2>1. request[h] # Idle /\ request[h].op = "add" /\ request[h].to \in Groups
    BY <1>0, <1>8, RosterRequestKind DEF AddMembership
  <2>2. PICK r \in RosterRequests : Continue(h, r)
    BY <1>8, <1>i, <2>1, ThenType DEF AddMembership, RosterTypeOK
  <2>3. (\E x \in Handlers : Between(x)) => \E y \in Handlers : Between(y)'
    BY <2>1, <2>2, BetweenKept DEF Between
  <2> QED
    BY <1>8, <1>u, <2>3 DEF AddMembership, AddGroupMember, PrimaryIsMember
<1>9. ASSUME NEW h \in Handlers, DropMembership(h)
      PROVE  PrimaryIsMember'
  <2>1. /\ request[h] # Idle /\ request[h].op = "remove" /\ request[h].to \in Groups
        /\ request[h].overtaken \in BOOLEAN
    BY <1>0, <1>9, RosterRequestKind DEF DropMembership
  <2> DEFINE r == Then(h, "next", request[h].to)
  <2>2. r \in RosterRequests
    BY <2>1, ThenType DEF RosterTypeOK
  <2>3. CASE request[h].was = request[h].to
    <3>1. Continue(h, r)
      BY <1>9, <2>3 DEF DropMembership
    <3>2. Between(h)'
      BY <2>2, <3>1, ContinueStep DEF RosterTypeOK, Then, Between
    <3> QED  BY <3>2 DEF PrimaryIsMember
  <2>4. CASE request[h].was # request[h].to
    <3>1. Continue(h, Idle) /\ Done(h)
      BY <1>9, <2>4 DEF DropMembership
    <3>2. CASE request[h].overtaken
      BY <1>d, <3>1, <3>2 DEF PrimaryIsMember
    <3>3. CASE ~request[h].overtaken
      <4>1. student.primary = request[h].was
        BY <2>1, <3>3 DEF RosterFresh, StillTrue
      <4>2. (\E x \in Handlers : Between(x)) => \E y \in Handlers : Between(y)'
        BY <1>i, <2>1, <3>1, BetweenKept DEF Between
      <4> QED
        BY <1>9, <1>u, <2>4, <3>1, <4>1, <4>2 DEF DropMembership, RemoveGroupMember, PrimaryIsMember
    <3> QED  BY <2>1, <3>2, <3>3
  <2> QED  BY <2>3, <2>4
<1>10. ASSUME NEW h \in Handlers, ListForStudent(h)
       PROVE  PrimaryIsMember'
  <2>1. PICK g : request' = [request EXCEPT ![h] = Then(h, "settle", g)]
    BY <1>10 DEF ListForStudent
  <2>2. Between(h)'
    BY <2>1 DEF RosterTypeOK, Then, Between
  <2> QED  BY <2>2 DEF PrimaryIsMember
<1>11. ASSUME NEW h \in Handlers, AssignGroup(h)
       PROVE  PrimaryIsMember'
  <2>1. /\ request[h] # Idle /\ request[h].op \in {"first", "settle"}
        /\ request[h].overtaken \in BOOLEAN
    BY <1>0, <1>11, RosterRequestKind DEF AssignGroup
  <2>2. CASE request[h].overtaken
    BY <1>d, <1>11, <2>2 DEF AssignGroup, PrimaryIsMember
  <2>3. CASE ~request[h].overtaken
    <3>1. request[h].to \in memberships \cup {NoGroup}
      BY <2>1, <2>3 DEF RosterFresh, StillTrue
    <3> QED  BY <1>11, <3>1 DEF AssignGroup, AssignStudentGroup, PrimaryIsMember
  <2> QED  BY <2>1, <2>2, <2>3
<1>12. ASSUME NEW h \in Handlers, GroupNotFound(h)
       PROVE  PrimaryIsMember'
  <2>1. request[h] # Idle /\ request[h].overtaken \in BOOLEAN
    BY <1>0, <1>12, RosterRequestKind DEF GroupNotFound
  <2>2. request[h].overtaken
    BY <1>12, <2>1 DEF GroupNotFound, RosterFresh, StillTrue
  <2> QED  BY <1>d, <1>12, <2>2 DEF GroupNotFound, PrimaryIsMember
<1>13. ASSUME NEW h \in Handlers, MembershipFails(h)
       PROVE  PrimaryIsMember'
  BY <1>13 DEF MembershipFails, PrimaryIsMember
<1> QED
  BY <1>1, <1>2, <1>4, <1>5, <1>6, <1>7, <1>8, <1>9, <1>10, <1>11, <1>12, <1>13 DEF RosterNext

(* The copied name.                                                       *)
LEMMA ShownStep ==
  ASSUME RosterTypeOK, ShownNameExplained, RosterNext
  PROVE  ShownNameExplained'
<1>1. ASSUME NEW g \in Groups, UpdateGroup(g) \/ DeleteGroup(g)
      PROVE  ShownNameExplained'
  BY <1>1 DEF UpdateGroup, DeleteGroup, ShownNameExplained
<1>2. ASSUME NEW h \in Handlers, AssignPrimary(h) \/ AssignGroup(h)
      PROVE  ShownNameExplained'
  <2>1. group' = group /\ There' = There
    BY <1>2 DEF AssignPrimary, AssignGroup, There
  <2>2. student' = [primary |-> request[h].to,
                    shown |-> IF request[h].to = NoGroup THEN NoName ELSE NameOf(request[h].to)]
    BY <1>2 DEF AssignPrimary, AssignGroup, AssignStudentGroup
  <2> QED  BY <2>1, <2>2 DEF ShownNameExplained, NameOf
<1>3. UNCHANGED <<group, student, unnamed>> => ShownNameExplained'
  BY DEF ShownNameExplained, NameOf, There
<1> QED
  BY <1>1, <1>2, <1>3
  DEF RosterNext, AssignStudent, AddMember, RemoveMember, JoinAssigned, AddMembership,
      DropMembership, ListForStudent, GroupNotFound, MembershipFails

RosterInv == RosterTypeOK /\ RosterFresh /\ PrimaryIsMember /\ ShownNameExplained

LEMMA RosterInitInv ==
  ASSUME RosterInit
  PROVE  RosterInv
<1>1. There = Groups
  BY DEF RosterInit, There
<1>2. BoundsTypeOK
  BY HandlingAssumption DEF RosterInit, HandlingInit, BoundsTypeOK
<1>3. request \in [Handlers -> RosterRequests]
  BY DEF RosterInit, HandlingInit, RosterRequests
<1>4. /\ group \in [Groups -> [there : BOOLEAN, name : Nat]]
      /\ memberships \subseteq There
      /\ uneven \in BOOLEAN
  BY DEF RosterInit
<1>5. /\ student \in [primary : There \cup {NoGroup}, shown : {NoName} \cup (Groups \X Nat)]
      /\ unnamed \subseteq {"typed", "renamed", "dropped"}
      /\ ShownNameExplained
  BY DEF RosterInit, ShownNameExplained, NoName
<1>6. RosterFresh /\ PrimaryIsMember
  BY DEF RosterInit, HandlingInit, RosterFresh, PrimaryIsMember
<1> QED
  BY <1>2, <1>3, <1>4, <1>5, <1>6 DEF RosterInv, RosterTypeOK

LEMMA RosterInvStep == RosterInv /\ [TimetableNext]_timetableVars => RosterInv'
<1>1. ASSUME RosterInv, RosterNext
      PROVE  RosterInv'
  BY <1>1, RosterTypeStep, RosterFreshStep, PrimaryStep, ShownStep DEF RosterInv
<1>2. ASSUME RosterInv, LessonStep \/ UNCHANGED timetableVars
      PROVE  RosterInv'
  <2>1. UNCHANGED <<group, student, memberships, request, uneven, unnamed>>
    BY <1>2, LessonStepFrame
  <2>2. RosterTypeOK'
    BY <1>2, LessonStepFrame, RosterFrame DEF RosterInv
  <2>3. There' = There
    BY <2>1 DEF There
  <2>4. RosterFresh'
    BY <1>2, <2>1, <2>3 DEF RosterInv, RosterFresh, StillTrue
  <2>5. PrimaryIsMember' /\ ShownNameExplained'
    BY <1>2, <2>1, <2>3 DEF RosterInv, PrimaryIsMember, Between, ShownNameExplained, NameOf
  <2> QED  BY <2>2, <2>4, <2>5 DEF RosterInv
<1> QED  BY <1>1, <1>2 DEF TimetableNext, RosterStep

LEMMA RosterInvHolds == TimetableSpec => []RosterInv
<1>1. TimetableInit => RosterInv
  BY RosterInitInv DEF TimetableInit
<1> QED  BY <1>1, RosterInvStep, PTL DEF TimetableSpec

(* "If it was their primary group, the primary moves to another remaining  *)
(* membership (or clears)" (group/service.go RemoveMember): whatever two   *)
(* requests and the deletion of a group do in between, a student whose     *)
(* primary group is not one of theirs is between two writes, or a request  *)
(* was overtaken or cut off.                                              *)
THEOREM PrimaryIsMemberHolds == TimetableSpec => []PrimaryIsMember
BY RosterInvHolds, PTL DEF RosterInv

(* "so the legacy group_name field stays in sync" (AssignStudentGroup): it *)
(* does, but for a name typed in and a group renamed or deleted since.     *)
THEOREM ShownNameExplainedHolds == TimetableSpec => []ShownNameExplained
BY RosterInvHolds, PTL DEF RosterInv

-----------------------------------------------------------------------------
(* The lesson requests.                                                    *)

LEMMA RowType ==
  ASSUME NEW r \in {NoLesson, Deleted} \cup Rows \cup Sessions
  PROVE  /\ r.slot \in [from : Nat, to : Nat] /\ r.slot \in Slots
         /\ r.status \in {"none", "deleted"} \cup Statuses
         /\ r \in Rows \cup Sessions <=> r.status \in Statuses
<1>1. \A q \in Rows : q.slot \in [from : Nat, to : Nat] /\ q.slot \in Slots /\ q.status \in Statuses
  BY RowsAssumption DEF Slots
<1>2. NoSlot \in [from : Nat, to : Nat] /\ NoSlot \in Slots
  BY DEF NoSlot, Slots
<1>3. Slots \subseteq [from : Nat, to : Nat]
  BY <1>1, <1>2 DEF Slots
<1>4. \A q \in Sessions : q.slot \in Slots /\ q.status = "done"
  BY DEF Sessions, Session
<1> QED  BY <1>1, <1>2, <1>3, <1>4 DEF NoLesson, Deleted, Statuses

LEMMA DeskKind ==
  ASSUME NEW r \in Desks
  PROVE  /\ r.op \in {"idle", "create", "update", "topic", "newtopic"}
         /\ r = Idle <=> r.op = "idle"
         /\ r # Idle => r.overtaken \in BOOLEAN /\ r.row \in Rows \cup Sessions
         /\ r.op \in {"update", "topic"} => r.id \in Lessons
         /\ r.op \in {"topic", "newtopic"} => r.row \in Sessions
BY DEF Desks, Idle

LEMMA DeskOvertaken ==
  ASSUME NEW r \in Desks, r # Idle
  PROVE  /\ [r EXCEPT !.overtaken = TRUE] \in Desks
         /\ [r EXCEPT !.overtaken = TRUE].overtaken
BY DEF Desks, Idle

(* A write serves its own desk and overtakes all the others.               *)
LEMMA ServesStep ==
  ASSUME desk \in [Handlers -> Desks], NEW h \in Handlers, Serves(h)
  PROVE  /\ desk' \in [Handlers -> Desks]
         /\ \A x \in Handlers : desk'[x] # Idle => desk'[x].overtaken
<1>1. Idle \in Desks
  BY DEF Desks
<1> QED  BY <1>1, DeskOvertaken DEF Serves

LEMMA LessonTypeStep ==
  ASSUME TimetableTypeOK, LessonStep
  PROVE  /\ lesson' \in [Lessons -> {NoLesson, Deleted} \cup Rows \cup Sessions]
         /\ desk' \in [Handlers -> Desks]
         /\ doubled' \subseteq {"raced", "revived"}
<1>0. /\ lesson \in [Lessons -> {NoLesson, Deleted} \cup Rows \cup Sessions]
      /\ desk \in [Handlers -> Desks]
      /\ doubled \subseteq {"raced", "revived"}
  BY DEF TimetableTypeOK
<1>1. ASSUME NEW h \in Handlers, NEW r \in Desks, Serve(h, r)
      PROVE  UNCHANGED <<lesson, doubled>> /\ desk' \in [Handlers -> Desks]
  BY <1>0, <1>1 DEF Serve
<1>2. ASSUME NEW h \in Handlers, NEW row \in Rows, CheckCreate(h, row)
      PROVE  UNCHANGED <<lesson, doubled>> /\ desk' \in [Handlers -> Desks]
  <2>1. [op |-> "create", row |-> row, overtaken |-> FALSE] \in Desks
    BY DEF Desks
  <2> QED  BY <1>1, <1>2, <2>1 DEF CheckCreate
<1>3. ASSUME NEW h \in Handlers, NEW l \in Lessons, NEW row \in Rows, CheckUpdate(h, l, row)
      PROVE  UNCHANGED <<lesson, doubled>> /\ desk' \in [Handlers -> Desks]
  <2>1. [op |-> "update", id |-> l, row |-> row, overtaken |-> FALSE] \in Desks
    BY DEF Desks
  <2> QED  BY <1>1, <1>3, <2>1 DEF CheckUpdate
<1>4. ASSUME NEW h \in Handlers, NEW g \in Groups, FindByGroupDate(h, g)
      PROVE  UNCHANGED <<lesson, doubled>> /\ desk' \in [Handlers -> Desks]
  <2>1. [op |-> "newtopic", row |-> Session(g, NoSlot), overtaken |-> FALSE] \in Desks
    BY DEF Desks, Sessions, Slots
  <2>2. \A l \in Lessons :
          [op |-> "topic", id |-> l, row |-> Session(g, lesson[l].slot), overtaken |-> FALSE] \in Desks
    BY <1>0, RowType DEF Desks, Sessions
  <2> QED  BY <1>1, <1>4, <2>1, <2>2 DEF FindByGroupDate, GetLessonByGroupDate, Kept
<1>5. ASSUME NEW h \in Handlers, CreateChecked(h) \/ UpdateChecked(h) \/ UpdateTopic(h)
      PROVE  /\ lesson' \in [Lessons -> {NoLesson, Deleted} \cup Rows \cup Sessions]
             /\ desk' \in [Handlers -> Desks]
             /\ doubled' \subseteq {"raced", "revived"}
  <2>1. desk[h].row \in Rows \cup Sessions
    BY <1>0, <1>5, DeskKind DEF CreateChecked, UpdateChecked, UpdateTopic
  <2>2. lesson' \in [Lessons -> {NoLesson, Deleted} \cup Rows \cup Sessions]
    BY <1>0, <1>5, <2>1 DEF CreateChecked, UpdateChecked, UpdateTopic, CreateLesson, UpdateLesson
  <2>3. doubled' \subseteq {"raced", "revived"}
    BY <1>0, <1>5 DEF CreateChecked, UpdateChecked, UpdateTopic, Raced
  <2> QED
    BY <1>0, <1>5, <2>2, <2>3, ServesStep DEF CreateChecked, UpdateChecked, UpdateTopic
<1>6. ASSUME NEW h \in Handlers, RequestFails(h)
      PROVE  UNCHANGED <<lesson, doubled>> /\ desk' \in [Handlers -> Desks]
  BY <1>0, <1>6 DEF RequestFails, Desks
<1>7. ASSUME NEW l \in Lessons, DeleteLesson(l)
      PROVE  /\ lesson' \in [Lessons -> {NoLesson, Deleted} \cup Rows \cup Sessions]
             /\ UNCHANGED <<desk, doubled>>
  BY <1>0, <1>7 DEF DeleteLesson
<1> QED
  BY <1>0, <1>2, <1>3, <1>4, <1>5, <1>6, <1>7 DEF LessonStep

(* The rows of the timetable and what the handlers hold of them keep their *)
(* types (group_repo.go, lesson_repo.go); the foreign keys hold: the       *)
(* primary group and the memberships are groups that are there.            *)
THEOREM TimetableTypeCorrect == TimetableSpec => []TimetableTypeOK
<1>1. TimetableInit => TimetableTypeOK
  BY RosterInitInv DEF TimetableInit, TimetableTypeOK, RosterInv, Desks
<1>2. TimetableTypeOK /\ [TimetableNext]_timetableVars => TimetableTypeOK'
  <2>1. ASSUME TimetableTypeOK, RosterStep
        PROVE  TimetableTypeOK'
    BY <2>1, RosterTypeStep DEF RosterStep, lessonVars, TimetableTypeOK
  <2>2. ASSUME TimetableTypeOK, LessonStep
        PROVE  TimetableTypeOK'
    BY <2>2, LessonTypeStep, LessonStepFrame, RosterFrame DEF TimetableTypeOK
  <2>3. ASSUME TimetableTypeOK, UNCHANGED timetableVars
        PROVE  TimetableTypeOK'
    BY <2>3, LessonStepFrame, RosterFrame DEF TimetableTypeOK, timetableVars, lessonVars
  <2> QED  BY <2>1, <2>2, <2>3 DEF TimetableNext
<1> QED  BY <1>1, <1>2, PTL DEF TimetableSpec

-----------------------------------------------------------------------------
(* The room.                                                               *)

(* What the check of a lesson request found is still so.                   *)
RoomStillFree(h) ==
  LET r == desk[h] IN
  /\ r.op = "create" => CheckRoom(r.row.slot, {})
  /\ r.op = "update" => CheckRoom(r.row.slot, {r.id})
  /\ r.op = "topic" /\ r.id \in Kept => lesson[r.id].slot = r.row.slot
  /\ r.op = "newtopic" => r.row.slot = NoSlot /\ GetLessonByGroupDate(r.row.group) = {}

RoomFresh ==
  \A h \in Handlers : desk[h] # Idle /\ ~desk[h].overtaken => RoomStillFree(h)

RoomInv == TimetableTypeOK /\ RoomFresh /\ RoomBookedOnce

(* Two lessons that both are in the way of the other.                      *)
Clash(k, l) ==
  /\ k # l /\ Overlap(lesson[k].slot, lesson[l].slot)
  /\ lesson[k].status # "cancelled" /\ lesson[l].status # "cancelled"

LEMMA OverlapFacts ==
  ASSUME NEW a \in [from : Nat, to : Nat], NEW b \in [from : Nat, to : Nat]
  PROVE  /\ Overlap(a, b) <=> Overlap(b, a)
         /\ ~Overlap(a, NoSlot) /\ ~Overlap(NoSlot, a)
BY DEF Overlap, NoSlot

LEMMA LessonType ==
  ASSUME TimetableTypeOK, NEW l \in Lessons
  PROVE  lesson[l].slot \in [from : Nat, to : Nat]
BY RowType DEF TimetableTypeOK

(* Fewer lessons, and the same ones: what was found is still so.           *)
LEMMA FreshWhenFewer ==
  ASSUME RoomFresh, desk' = desk, TimetableTypeOK,
         \A l \in Lessons : l \in Kept' => l \in Kept /\ lesson'[l] = lesson[l]
  PROVE  RoomFresh'
<1> SUFFICES ASSUME NEW h \in Handlers, desk[h] # Idle, ~desk[h].overtaken, RoomStillFree(h)
             PROVE  RoomStillFree(h)'
  BY DEF RoomFresh
<1>1. Kept' \subseteq Kept
  BY DEF Kept
<1>2. \A slot, self : CheckRoom(slot, self) => CheckRoom(slot, self)'
  BY <1>1 DEF CheckRoom, CountRoomConflicts, Kept
<1>3. \A g : GetLessonByGroupDate(g) = {} => GetLessonByGroupDate(g)' = {}
  BY <1>1 DEF GetLessonByGroupDate, Kept
<1> QED  BY <1>1, <1>2, <1>3 DEF RoomStillFree, Kept

(* A lesson whose row is written over, when nothing in the room is in the  *)
(* way of the new row, or it is cancelled.                                *)
LEMMA NoClashAfterWrite ==
  ASSUME TimetableTypeOK, NEW l \in Lessons, NEW row \in Rows \cup Sessions,
         lesson' = [lesson EXCEPT ![l] = row],
         \A k, m \in Kept : ~Clash(k, m),
         \A m \in Kept \ {l} :
            lesson[m].status # "cancelled" /\ row.status # "cancelled" => ~Overlap(lesson[m].slot, row.slot)
  PROVE  \A k, m \in Kept' : ~Clash(k, m)'
<1>0. lesson \in [Lessons -> {NoLesson, Deleted} \cup Rows \cup Sessions]
  BY DEF TimetableTypeOK
<1>1. lesson'[l] = row /\ \A m \in Lessons \ {l} : lesson'[m] = lesson[m]
  BY <1>0
<1>2. \A m \in Lessons \ {l} : m \in Kept' <=> m \in Kept
  BY <1>1 DEF Kept
<1>3. row.slot \in [from : Nat, to : Nat] /\ \A m \in Lessons : lesson[m].slot \in [from : Nat, to : Nat]
  BY <1>0, RowType
<1> SUFFICES ASSUME NEW k \in Kept', NEW m \in Kept', Clash(k, m)'
             PROVE  FALSE
  OBVIOUS
<1>4. k \in Lessons /\ m \in Lessons /\ k # m
  BY DEF Kept, Clash
<1>5. CASE k # l /\ m # l
  BY <1>1, <1>2, <1>4, <1>5 DEF Clash
<1>6. CASE k = l
  BY <1>1, <1>2, <1>3, <1>4, <1>6, OverlapFacts DEF Clash
<1>7. CASE m = l
  BY <1>1, <1>2, <1>3, <1>4, <1>7, OverlapFacts DEF Clash
<1> QED  BY <1>5, <1>6, <1>7

LEMMA NoClash ==
  RoomBookedOnce <=> doubled # {} \/ \A k, m \in Kept : ~Clash(k, m)
BY DEF RoomBookedOnce, Clash

LEMMA CreateKeepsRoom ==
  ASSUME RoomInv, NEW h \in Handlers, CreateChecked(h)
  PROVE  RoomBookedOnce'
<1>0. desk[h] \in Desks /\ desk[h] # Idle
  BY DEF CreateChecked, RoomInv, TimetableTypeOK, Idle
<1>1. desk[h].op \in {"create", "newtopic"} /\ desk[h].overtaken \in BOOLEAN /\ desk[h].row \in Rows \cup Sessions
  BY <1>0, DeskKind DEF CreateChecked
<1> SUFFICES ASSUME doubled' = {}
             PROVE  \A k, m \in Kept' : ~Clash(k, m)'
  BY DEF RoomBookedOnce, Clash
<1>2. doubled = {} /\ ~desk[h].overtaken
  BY <1>1 DEF CreateChecked, Raced
<1>3. RoomStillFree(h) /\ \A k, m \in Kept : ~Clash(k, m)
  BY <1>0, <1>2, NoClash DEF RoomInv, RoomFresh
<1>4. CheckRoom(desk[h].row.slot, {})
  BY <1>1, <1>3 DEF RoomStillFree, CheckRoom
<1>5. \A m \in Kept : lesson[m].status # "cancelled" => ~Overlap(lesson[m].slot, desk[h].row.slot)
  BY <1>4, LessonType, OverlapFacts DEF CheckRoom, CountRoomConflicts, RoomInv, Kept
<1>6. PICK l \in Lessons : lesson' = [lesson EXCEPT ![l] = desk[h].row]
  BY DEF CreateChecked, CreateLesson
<1> QED  BY <1>1, <1>3, <1>5, <1>6, NoClashAfterWrite DEF RoomInv

LEMMA UpdateKeepsRoom ==
  ASSUME RoomInv, NEW h \in Handlers, UpdateChecked(h)
  PROVE  RoomBookedOnce'
<1>0. desk[h] \in Desks /\ desk[h] # Idle
  BY DEF UpdateChecked, RoomInv, TimetableTypeOK, Idle
<1> DEFINE l == desk[h].id
<1>1. /\ desk[h].op = "update" /\ desk[h].overtaken \in BOOLEAN
      /\ desk[h].row \in Rows \cup Sessions /\ l \in Lessons
  BY <1>0, DeskKind DEF UpdateChecked
<1> SUFFICES ASSUME doubled' = {}
             PROVE  \A k, m \in Kept' : ~Clash(k, m)'
  BY DEF RoomBookedOnce, Clash
<1>2. doubled = {} /\ ~desk[h].overtaken
  BY <1>1 DEF UpdateChecked, Raced
<1>3. RoomStillFree(h) /\ \A k, m \in Kept : ~Clash(k, m)
  BY <1>0, <1>2, NoClash DEF RoomInv, RoomFresh
<1>4. CheckRoom(desk[h].row.slot, {l})
  BY <1>1, <1>3 DEF RoomStillFree
<1>5. \A m \in Kept \ {l} : lesson[m].status # "cancelled" => ~Overlap(lesson[m].slot, desk[h].row.slot)
  BY <1>4, LessonType, OverlapFacts DEF CheckRoom, CountRoomConflicts, RoomInv, Kept
<1>6. CASE l \in Kept
  <2>1. lesson' = [lesson EXCEPT ![l] = desk[h].row]
    BY <1>6 DEF UpdateChecked, UpdateLesson
  <2> QED  BY <1>1, <1>3, <1>5, <2>1, NoClashAfterWrite DEF RoomInv
<1>7. CASE l \notin Kept
  <2>1. lesson' = lesson
    BY <1>7 DEF UpdateChecked, UpdateLesson, RoomInv, TimetableTypeOK
  <2> QED  BY <1>3, <2>1 DEF Kept, Clash
<1> QED  BY <1>6, <1>7

(* A topic keeps the slot of its lesson, and revives none that was         *)
(* cancelled unless the history says so.                                  *)
LEMMA TopicKeepsRoom ==
  ASSUME RoomInv, NEW h \in Handlers, UpdateTopic(h)
  PROVE  RoomBookedOnce'
<1>0. desk[h] \in Desks /\ desk[h] # Idle
  BY DEF UpdateTopic, RoomInv, TimetableTypeOK, Idle
<1> DEFINE l == desk[h].id
<1>1. /\ desk[h].op = "topic" /\ desk[h].overtaken \in BOOLEAN
      /\ desk[h].row \in Rows \cup Sessions /\ l \in Lessons
  BY <1>0, DeskKind DEF UpdateTopic
<1> SUFFICES ASSUME doubled' = {}
             PROVE  \A k, m \in Kept' : ~Clash(k, m)'
  BY DEF RoomBookedOnce, Clash
<1>2. doubled = {} /\ ~desk[h].overtaken /\ lesson[l].status # "cancelled"
  BY <1>1 DEF UpdateTopic
<1>3. RoomStillFree(h) /\ \A k, m \in Kept : ~Clash(k, m)
  BY <1>0, <1>2, NoClash DEF RoomInv, RoomFresh
<1>4. CASE l \in Kept
  <2>1. lesson[l].slot = desk[h].row.slot
    BY <1>1, <1>3, <1>4 DEF RoomStillFree
  <2>2. \A m \in Kept \ {l} : lesson[m].status # "cancelled" => ~Overlap(lesson[m].slot, desk[h].row.slot)
    BY <1>2, <1>3, <1>4, <2>1 DEF Clash
  <2>3. lesson' = [lesson EXCEPT ![l] = desk[h].row]
    BY <1>4 DEF UpdateTopic, UpdateLesson
  <2> QED  BY <1>1, <1>3, <2>2, <2>3, NoClashAfterWrite DEF RoomInv
<1>5. CASE l \notin Kept
  <2>1. lesson' = lesson
    BY <1>5 DEF UpdateTopic, UpdateLesson, RoomInv, TimetableTypeOK
  <2> QED  BY <1>3, <2>1 DEF Kept, Clash
<1> QED  BY <1>4, <1>5

LEMMA RoomFreshStep ==
  ASSUME RoomInv, LessonStep
  PROVE  RoomFresh'
<1>0. desk \in [Handlers -> Desks] /\ lesson \in [Lessons -> {NoLesson, Deleted} \cup Rows \cup Sessions]
  BY DEF RoomInv, TimetableTypeOK
<1>1. ASSUME NEW h \in Handlers, NEW r, Serve(h, r), RoomStillFree(h)'
      PROVE  RoomFresh'
  <2>1. lesson' = lesson /\ \A x \in Handlers \ {h} : desk'[x] = desk[x]
    BY <1>0, <1>1 DEF Serve
  <2>2. \A x \in Handlers \ {h} : RoomStillFree(x) => RoomStillFree(x)'
    BY <2>1 DEF RoomStillFree, CheckRoom, CountRoomConflicts, GetLessonByGroupDate, Kept
  <2> QED  BY <1>1, <2>1, <2>2 DEF RoomInv, RoomFresh
<1>2. ASSUME NEW h \in Handlers, NEW row \in Rows, CheckCreate(h, row)
      PROVE  RoomFresh'
  <2>1. /\ Serve(h, [op |-> "create", row |-> row, overtaken |-> FALSE])
        /\ CheckRoom(row.slot, {}) /\ lesson' = lesson
    BY <1>2 DEF CheckCreate, Serve
  <2>2. desk'[h] = [op |-> "create", row |-> row, overtaken |-> FALSE]
    BY <1>0, <2>1 DEF Serve
  <2>3. RoomStillFree(h)'
    BY <2>1, <2>2 DEF RoomStillFree, CheckRoom, CountRoomConflicts, Kept
  <2> QED  BY <1>1, <2>1, <2>3
<1>3. ASSUME NEW h \in Handlers, NEW l \in Lessons, NEW row \in Rows, CheckUpdate(h, l, row)
      PROVE  RoomFresh'
  <2>1. /\ Serve(h, [op |-> "update", id |-> l, row |-> row, overtaken |-> FALSE])
        /\ CheckRoom(row.slot, {l}) /\ lesson' = lesson
    BY <1>3 DEF CheckUpdate, Serve
  <2>2. desk'[h] = [op |-> "update", id |-> l, row |-> row, overtaken |-> FALSE]
    BY <1>0, <2>1 DEF Serve
  <2>3. RoomStillFree(h)'
    BY <2>1, <2>2 DEF RoomStillFree, CheckRoom, CountRoomConflicts, Kept
  <2> QED  BY <1>1, <2>1, <2>3
<1>4. ASSUME NEW h \in Handlers, NEW g \in Groups, FindByGroupDate(h, g)
      PROVE  RoomFresh'
  <2>1. CASE GetLessonByGroupDate(g) = {}
    <3>1. Serve(h, [op |-> "newtopic", row |-> Session(g, NoSlot), overtaken |-> FALSE])
      BY <1>4, <2>1 DEF FindByGroupDate
    <3>2. desk'[h] = [op |-> "newtopic", row |-> Session(g, NoSlot), overtaken |-> FALSE] /\ lesson' = lesson
      BY <1>0, <3>1 DEF Serve
    <3>3. RoomStillFree(h)'
      BY <2>1, <3>2 DEF RoomStillFree, Session, GetLessonByGroupDate, Kept
    <3> QED  BY <1>1, <3>1, <3>3
  <2>2. CASE GetLessonByGroupDate(g) # {}
    <3>1. PICK l \in GetLessonByGroupDate(g) :
            Serve(h, [op |-> "topic", id |-> l, row |-> Session(g, lesson[l].slot), overtaken |-> FALSE])
      BY <1>4, <2>2 DEF FindByGroupDate
    <3>2. /\ desk'[h] = [op |-> "topic", id |-> l, row |-> Session(g, lesson[l].slot), overtaken |-> FALSE]
          /\ lesson' = lesson
      BY <1>0, <3>1 DEF Serve
    <3>3. RoomStillFree(h)'
      BY <3>2 DEF RoomStillFree, Session
    <3> QED  BY <1>1, <3>1, <3>3
  <2> QED  BY <2>1, <2>2
<1>5. ASSUME NEW h \in Handlers, CreateChecked(h) \/ UpdateChecked(h) \/ UpdateTopic(h)
      PROVE  RoomFresh'
  BY <1>0, <1>5, ServesStep DEF CreateChecked, UpdateChecked, UpdateTopic, RoomFresh
<1>6. ASSUME NEW h \in Handlers, RequestFails(h)
      PROVE  RoomFresh'
  <2>1. lesson' = lesson /\ \A x \in Handlers : desk'[x] = desk[x] \/ desk'[x] = Idle
    BY <1>0, <1>6 DEF RequestFails
  <2>2. \A x \in Handlers : desk'[x] = desk[x] => RoomStillFree(x)' = RoomStillFree(x)
    BY <2>1 DEF RoomStillFree, CheckRoom, CountRoomConflicts, GetLessonByGroupDate, Kept
  <2> QED  BY <2>1, <2>2 DEF RoomInv, RoomFresh
<1>7. ASSUME NEW l \in Lessons, DeleteLesson(l)
      PROVE  RoomFresh'
  <2>1. \A m \in Lessons : m \in Kept' => m \in Kept /\ lesson'[m] = lesson[m]
    BY <1>0, <1>7 DEF DeleteLesson, Kept, Deleted, Statuses
  <2> QED  BY <1>7, <2>1, FreshWhenFewer DEF DeleteLesson, RoomInv
<1> QED  BY <1>2, <1>3, <1>4, <1>5, <1>6, <1>7 DEF LessonStep

LEMMA RoomInvStep == RoomInv /\ TimetableTypeOK' /\ [TimetableNext]_timetableVars => RoomInv'
<1>1. ASSUME RoomInv, UNCHANGED lessonVars
      PROVE  RoomFresh' /\ RoomBookedOnce'
  BY <1>1 DEF RoomInv, lessonVars, RoomFresh, RoomStillFree, CheckRoom, CountRoomConflicts,
              GetLessonByGroupDate, RoomBookedOnce, Kept
<1>2. ASSUME RoomInv, LessonStep
      PROVE  RoomBookedOnce'
  <2>1. ASSUME NEW h \in Handlers, CreateChecked(h) \/ UpdateChecked(h) \/ UpdateTopic(h)
        PROVE  RoomBookedOnce'
    BY <1>2, <2>1, CreateKeepsRoom, UpdateKeepsRoom, TopicKeepsRoom
  <2>2. ASSUME NEW l \in Lessons, DeleteLesson(l)
        PROVE  RoomBookedOnce'
    <3>1. \A m \in Lessons : m \in Kept' => m \in Kept /\ lesson'[m] = lesson[m]
      BY <1>2, <2>2 DEF DeleteLesson, Kept, Deleted, Statuses, RoomInv, TimetableTypeOK
    <3> QED  BY <1>2, <2>2, <3>1 DEF DeleteLesson, RoomBookedOnce, RoomInv, Kept
  <2>3. UNCHANGED <<lesson, doubled>> => RoomBookedOnce'
    BY <1>2 DEF RoomInv, RoomBookedOnce, Kept
  <2> QED
    BY <1>2, <2>1, <2>2, <2>3
    DEF LessonStep, CheckCreate, CheckUpdate, FindByGroupDate, RequestFails, Serve
<1> QED
  BY <1>1, <1>2, RoomFreshStep DEF RoomInv, TimetableNext, RosterStep, timetableVars

LEMMA RoomInvHolds == TimetableSpec => []RoomInv
<1>1. TimetableInit => RoomInv
  <2> SUFFICES ASSUME TimetableInit PROVE RoomInv
    OBVIOUS
  <2>1. TimetableTypeOK
    BY RosterInitInv DEF TimetableInit, TimetableTypeOK, RosterInv, Desks
  <2>2. RoomFresh /\ RoomBookedOnce
    BY DEF TimetableInit, RoomFresh, RoomBookedOnce, Kept, NoLesson, Statuses
  <2> QED  BY <2>1, <2>2 DEF RoomInv
<1> QED  BY <1>1, RoomInvStep, TimetableTypeCorrect, PTL DEF TimetableSpec

(* "checkRoom rejects a lesson that double-books a room" (lesson/service.go *)
(* Create, Update, SaveSessionTopic), for any lessons and any times of day: *)
(* two lessons share the room only if a request was overtaken between its  *)
(* check and its write, or a topic was saved for a cancelled lesson.       *)
THEOREM RoomBookedOnceHolds == TimetableSpec => []RoomBookedOnce
BY RoomInvHolds, PTL DEF RoomInv

(* "upserts a single lesson row per (group, date)" (SaveSessionTopic): a   *)
(* request that nothing overtook adds a lesson to a group that has none.   *)
THEOREM TopicReusesLessonHolds == TimetableSpec => TopicReusesLesson
<1> DEFINE Reuses ==
      \A h \in Handlers :
        desk[h] # Idle /\ desk[h].op = "newtopic" /\ ~desk[h].overtaken /\ lesson' # lesson /\ desk'[h] = Idle
          => \A l \in Kept : lesson[l].group # desk[h].row.group
<1>1. RoomInv => Reuses
  BY DEF RoomInv, RoomFresh, RoomStillFree, GetLessonByGroupDate
<1> QED  BY <1>1, RoomInvHolds, PTL DEF TopicReusesLesson, TimetableSpec

-----------------------------------------------------------------------------
(* Coursework and Reminders keep their types.                              *)

LEMMA WorkRequestKind ==
  ASSUME NEW r \in Requests
  PROVE  /\ r.op \in {"idle", "submit", "grade", "examgrade", "award"}
         /\ r = Idle <=> r.op = "idle"
         /\ r # Idle => r.student \in Students
         /\ r.op = "grade" => r.status \in {"accepted", "rejected"} /\ r.score \in Scores
         /\ r.op = "examgrade" => r.score \in DOMAIN ExamXp
         /\ r.op = "award" => r.work \in Works /\ r.xp \in Nat
BY DEF Requests, Idle

LEMMA AwardingType ==
  ASSUME NEW s \in Students, NEW w \in Works, NEW amount \in Nat
  PROVE  Awarding(s, w, amount) \in Requests
BY DEF Awarding, Requests

LEMMA XpOfGrade ==
  /\ \A score \in Scores : HomeworkXp(score) \in Nat
  /\ \A score \in DOMAIN ExamXp : ExamXp[score] \in Nat
BY CourseworkAssumption DEF HomeworkXp, Smaller

(* The places of the scan.                                                *)
LEMMA ScanKind ==
  ASSUME NEW r \in Scans
  PROVE  /\ r.pc \in {"asleep", "push", "mark"}
         /\ r = Asleep <=> r.pc = "asleep"
         /\ r # Asleep => r.todo \subseteq Students
         /\ r.pc = "push" => r.marked \in BOOLEAN
BY DEF Scans, Asleep

LEMMA AfterPushKind ==
  ASSUME NEW S \in SUBSET Students, NEW m \in BOOLEAN
  PROVE  /\ AfterPush(S, m) \in Scans
         /\ ~m => AfterPush(S, m).pc = "mark" /\ AfterPush(S, m).todo = S
         /\ m /\ S = {} => AfterPush(S, m) = Asleep
         /\ m /\ S # {} => AfterPush(S, m).pc = "push" /\ AfterPush(S, m).todo = S /\ AfterPush(S, m).marked
BY DEF AfterPush, Pushing, Marking, Scans

LEMMA CourseworkTypeStep ==
  ASSUME CourseworkTypeOK, CourseworkEdit \/ CourseworkRequest
  PROVE  CourseworkTypeOK'
<1> USE DEF CourseworkTypeOK
<1>0. \A h \in Handlers : request[h] \in Requests
  OBVIOUS
<1>i. Idle \in Requests
  BY DEF Requests
<1>1. ASSUME NEW s \in Students, LeaveGroup(s)
      PROVE  CourseworkTypeOK'
  BY <1>1, BoundsStep DEF LeaveGroup
<1>2. ASSUME NEW s \in Students, DeleteStudent(s)
      PROVE  CourseworkTypeOK'
  <2>1. submission' \in [Students -> [status : {"none", "submitted", "accepted", "rejected"}, score : Scores \cup {0}]]
    BY <1>2 DEF DeleteStudent, NoRow
  <2>2. xp' \in [Students -> [Works -> Nat]]
    BY <1>2 DEF DeleteStudent, NoXp
  <2> QED  BY <1>2, <2>1, <2>2, BoundsStep DEF DeleteStudent
<1>3. CASE DeleteAssignment
  <2>1. submission' \in [Students -> [status : {"none", "submitted", "accepted", "rejected"}, score : Scores \cup {0}]]
    BY <1>3 DEF DeleteAssignment, NoRow
  <2> QED  BY <1>3, <2>1, BoundsStep DEF DeleteAssignment, Dropped, Deadlines
<1>4. CASE DeleteExam
  BY <1>4, BoundsStep DEF DeleteExam, NoResult
<1>5. ASSUME NEW h \in Handlers, NEW s \in Students, Submit(h, s)
      PROVE  CourseworkTypeOK'
  <2>1. [op |-> "submit", student |-> s] \in Requests
    BY DEF Requests
  <2> QED  BY <1>5, <2>1, BoundsStep DEF Submit
<1>6. ASSUME NEW h \in Handlers, NEW s \in Students, NEW status \in {"accepted", "rejected"},
             NEW score \in Scores, GradeHomework(h, s, status, score)
      PROVE  CourseworkTypeOK'
  <2>1. [op |-> "grade", student |-> s, status |-> status, score |-> score] \in Requests
    BY DEF Requests
  <2> QED  BY <1>6, <2>1, BoundsStep DEF GradeHomework
<1>7. ASSUME NEW h \in Handlers, NEW s \in Students, NEW score \in DOMAIN ExamXp, GradeExam(h, s, score)
      PROVE  CourseworkTypeOK'
  <2>1. [op |-> "examgrade", student |-> s, score |-> score] \in Requests
    BY DEF Requests
  <2> QED  BY <1>7, <2>1, BoundsStep DEF GradeExam
<1>8. ASSUME NEW h \in Handlers, WriteSubmission(h)
      PROVE  CourseworkTypeOK'
  <2>1. submission' \in [Students -> [status : {"none", "submitted", "accepted", "rejected"}, score : Scores \cup {0}]]
    BY <1>8 DEF WriteSubmission, UpsertSubmission
  <2> QED  BY <1>8, <1>i, <2>1, BoundsStep DEF WriteSubmission
<1>9. ASSUME NEW h \in Handlers, WriteGrade(h)
      PROVE  CourseworkTypeOK'
  <2> DEFINE s == request[h].student
             amount == HomeworkXp(request[h].score)
  <2>1. /\ s \in Students /\ request[h].status \in {"accepted", "rejected"}
        /\ request[h].score \in Scores /\ amount \in Nat
    BY <1>0, <1>9, WorkRequestKind, XpOfGrade DEF WriteGrade
  <2>2. submission' \in [Students -> [status : {"none", "submitted", "accepted", "rejected"}, score : Scores \cup {0}]]
    BY <1>9, <2>1 DEF WriteGrade, GradeSubmission
  <2>3. Awarding(s, "homework", amount) \in Requests
    BY <2>1, AwardingType DEF Works
  <2>4. request' \in [Handlers -> Requests]
    BY <1>9, <1>i, <2>3 DEF WriteGrade
  <2>5. given' \in [Students -> [Works -> SUBSET Nat]]
    BY <1>9, <2>1 DEF WriteGrade, Works
  <2> QED  BY <1>9, <2>2, <2>4, <2>5, BoundsStep DEF WriteGrade
<1>10. ASSUME NEW h \in Handlers, WriteResult(h)
       PROVE  CourseworkTypeOK'
  <2> DEFINE s == request[h].student
             amount == ExamXp[request[h].score]
  <2>1. s \in Students /\ request[h].score \in DOMAIN ExamXp /\ amount \in Nat
    BY <1>0, <1>10, WorkRequestKind, XpOfGrade DEF WriteResult
  <2>2. result' \in [Students -> SUBSET DOMAIN ExamXp]
    BY <1>10, <2>1 DEF WriteResult, UpsertExamResult
  <2>3. Awarding(s, "exam", amount) \in Requests
    BY <2>1, AwardingType DEF Works
  <2>4. request' \in [Handlers -> Requests]
    BY <1>10, <2>3 DEF WriteResult
  <2>5. given' \in [Students -> [Works -> SUBSET Nat]]
    BY <1>10, <2>1 DEF WriteResult, Works
  <2> QED  BY <1>10, <2>2, <2>4, <2>5, BoundsStep DEF WriteResult
<1>11. ASSUME NEW h \in Handlers, Award(h)
       PROVE  CourseworkTypeOK'
  <2>1. request[h].student \in Students /\ request[h].work \in Works /\ request[h].xp \in Nat
    BY <1>0, <1>11, WorkRequestKind DEF Award
  <2>2. xp' \in [Students -> [Works -> Nat]]
    BY <1>11, <2>1 DEF Award, InsertPointsIfNew
  <2> QED  BY <1>11, <1>i, <2>2, BoundsStep DEF Award
<1>12. ASSUME NEW h \in Handlers, NotFound(h) \/ StatementFails(h)
       PROVE  CourseworkTypeOK'
  <2>1. request[h] # Idle /\ request[h].student \in Students
    BY <1>0, <1>12, WorkRequestKind DEF NotFound, StatementFails, Idle
  <2> QED  BY <1>12, <1>i, <2>1, BoundsStep DEF NotFound, StatementFails
<1> QED
  BY <1>1, <1>2, <1>3, <1>4, <1>5, <1>6, <1>7, <1>8, <1>9, <1>10, <1>11, <1>12
     DEF CourseworkEdit, CourseworkRequest

LEMMA BlameType ==
  ASSUME excuse \in [Students -> SUBSET {"late", "unsent", "crash", "unmarked"}],
         NEW S, NEW why \in {"late", "unsent", "crash", "unmarked"}, Blame(S, why)
  PROVE  /\ excuse' \in [Students -> SUBSET {"late", "unsent", "crash", "unmarked"}]
         /\ \A s \in Students : excuse'[s] = excuse[s] \cup IF s \in S THEN {why} ELSE {}
BY DEF Blame

LEMMA TooLateType ==
  ASSUME excuse \in [Students -> SUBSET {"late", "unsent", "crash", "unmarked"}],
         NEW t \in Students, TooLate(t)
  PROVE  /\ excuse' \in [Students -> SUBSET {"late", "unsent", "crash", "unmarked"}]
         /\ \A s \in Students : excuse[s] \subseteq excuse'[s] /\ ("unmarked" \in excuse'[s] <=> "unmarked" \in excuse[s])
         /\ assignment.reminded \/ assignment.deadline \in {"soon", "past"} => "late" \in excuse'[t]
<1>1. CASE assignment.reminded \/ assignment.deadline \in {"soon", "past"}
  BY <1>1, BlameType DEF TooLate
<1>2. CASE ~(assignment.reminded \/ assignment.deadline \in {"soon", "past"})
  BY <1>2 DEF TooLate
<1> QED  BY <1>1, <1>2

(* What a step outside Coursework leaves of it.                            *)
LEMMA CourseworkFrame ==
  ASSUME CourseworkTypeOK,
         UNCHANGED <<enrolled, exam, submission, result, xp, request, given, lost>>,
         Ask \/ Edit \/ Fault \/ UNCHANGED bounds,
         members' \subseteq enrolled,
         assignment' \in [status : {"absent", "live", "deleted"}, deadline : Deadlines, reminded : BOOLEAN]
  PROVE  CourseworkTypeOK'
BY BoundsStep DEF CourseworkTypeOK

LEMMA RemindersTypeStep ==
  ASSUME TypeOK, Next
  PROVE  TypeOK'
<1> USE DEF TypeOK
<1>0. /\ members \subseteq enrolled /\ enrolled \subseteq Students
      /\ assignment \in [status : {"absent", "live", "deleted"}, deadline : Deadlines, reminded : BOOLEAN]
  BY DEF CourseworkTypeOK
<1>1. CASE SetDeadline
  <2>1. PICK d \in {"none", "far", "soon"} :
          /\ CreateAssignment(d) \/ UpdateAssignment(d)
          /\ slips' \subseteq {"hasty", "moved", "overran"}
    BY <1>1 DEF SetDeadline
  <2>2. assignment' \in [status : {"absent", "live", "deleted"}, deadline : Deadlines, reminded : BOOLEAN]
    <3>1. /\ Live(d) \in [status : {"absent", "live", "deleted"}, deadline : Deadlines, reminded : BOOLEAN]
          /\ [assignment EXCEPT !.deadline = d]
               \in [status : {"absent", "live", "deleted"}, deadline : Deadlines, reminded : BOOLEAN]
      BY <1>0 DEF Live, Deadlines
    <3> QED
      BY <2>1, <3>1 DEF CreateAssignment, CreateHomeworkAssignment, UpdateAssignment,
                        UpdateHomeworkAssignment
  <2>3. CourseworkTypeOK'
    BY <1>0, <2>1, <2>2, CourseworkFrame DEF CreateAssignment, UpdateAssignment
  <2> QED  BY <1>1, <2>1, <2>3 DEF SetDeadline
<1>2. CASE CourseworkStep
  BY <1>2, CourseworkTypeStep DEF CourseworkStep, remindersVars
<1>3. ASSUME NEW s \in Students, Join(s) \/ LinkTelegram(s)
      PROVE  TypeOK'
  <2>1. CourseworkTypeOK'
    BY <1>0, <1>3, CourseworkFrame DEF Join, JoinGroup, LinkTelegram
  <2>2. excuse' \in [Students -> SUBSET {"late", "unsent", "crash", "unmarked"}]
    BY <1>3, TooLateType DEF Join, LinkTelegram
  <2> QED  BY <1>3, <2>1, <2>2 DEF Join, LinkTelegram
<1>4. CASE DeadlineNears \/ DeadlinePasses
  <2>1. assignment' \in [status : {"absent", "live", "deleted"}, deadline : Deadlines, reminded : BOOLEAN]
    <3>1. \A d \in Deadlines :
            [assignment EXCEPT !.deadline = d]
              \in [status : {"absent", "live", "deleted"}, deadline : Deadlines, reminded : BOOLEAN]
      BY <1>0
    <3>2. \E d \in Deadlines : assignment' = [assignment EXCEPT !.deadline = d]
      BY <1>4 DEF DeadlineNears, DeadlinePasses, Deadlines
    <3> QED  BY <3>1, <3>2
  <2>2. CourseworkTypeOK'
    BY <1>0, <1>4, <2>1, CourseworkFrame DEF DeadlineNears, DeadlinePasses
  <2> QED  BY <1>4, <2>2 DEF DeadlineNears, DeadlinePasses, remindersVars
<1>5. CASE DueHomeworkReminders
  <2>1. ListDueHomeworkReminders \in SUBSET Students
    BY <1>0 DEF ListDueHomeworkReminders
  <2>2. scan' \in Scans
    BY <1>5, <2>1 DEF DueHomeworkReminders, Scans, Pushing
  <2>3. CourseworkTypeOK'
    BY <1>0, <1>5, CourseworkFrame DEF DueHomeworkReminders, courseworkVars
  <2> QED  BY <1>5, <2>2, <2>3 DEF DueHomeworkReminders
<1>6. ASSUME NEW s \in Students, Push(s)
      PROVE  TypeOK'
  <2>1. scan' \in Scans
    BY <1>6, ScanKind, AfterPushKind DEF Push
  <2>2. CourseworkTypeOK'
    BY <1>0, <1>6, CourseworkFrame DEF Push
  <2>3. excuse' \in [Students -> SUBSET {"late", "unsent", "crash", "unmarked"}] /\ told' \in [Students -> Nat]
    BY <1>6, BlameType DEF Push
  <2> QED  BY <1>6, <2>1, <2>2, <2>3 DEF Push
<1>7. CASE MarkFirst
  <2>1. scan' \in Scans
    BY <1>7, ScanKind, AfterPushKind DEF MarkFirst, Asleep
  <2>2. assignment' \in [status : {"absent", "live", "deleted"}, deadline : Deadlines, reminded : BOOLEAN]
    BY <1>0, <1>7 DEF MarkFirst, MarkHomeworkReminded
  <2>3. CourseworkTypeOK'
    BY <1>0, <1>7, <2>2, CourseworkFrame DEF MarkFirst
  <2>4. excuse' \in [Students -> SUBSET {"late", "unsent", "crash", "unmarked"}]
    BY <1>7, BlameType DEF MarkFirst
  <2> QED  BY <1>7, <2>1, <2>3, <2>4 DEF MarkFirst
<1>8. CASE Crash
  <2>1. /\ request' \in [Handlers -> Requests] /\ lost' \subseteq Students
        /\ BoundsTypeOK'
    BY <1>8, BoundsStep DEF Crash, CourseworkTypeOK, Requests
  <2>2. CourseworkTypeOK'
    BY <1>8, <2>1 DEF Crash, CourseworkTypeOK
  <2>3. excuse' \in [Students -> SUBSET {"late", "unsent", "crash", "unmarked"}]
    BY <1>8 DEF Crash
  <2> QED  BY <1>8, <2>2, <2>3 DEF Crash, Scans
<1> QED
  BY <1>1, <1>2, <1>3, <1>4, <1>5, <1>6, <1>7, <1>8 DEF Next, ScanStep

LEMMA RemindersInit == Init => TypeOK
<1> SUFFICES ASSUME Init PROVE TypeOK
  OBVIOUS
<1>1. BoundsTypeOK
  BY HandlingAssumption DEF Init, CourseworkInit, HandlingInit, BoundsTypeOK
<1>2. request \in [Handlers -> Requests]
  BY DEF Init, CourseworkInit, HandlingInit, Requests
<1>3. assignment \in [status : {"absent", "live", "deleted"}, deadline : Deadlines, reminded : BOOLEAN]
  <2>1. /\ Absent \in [status : {"absent", "live", "deleted"}, deadline : Deadlines, reminded : BOOLEAN]
        /\ Live("far") \in [status : {"absent", "live", "deleted"}, deadline : Deadlines, reminded : BOOLEAN]
    BY DEF Absent, Live, Deadlines
  <2> QED  BY <2>1 DEF Init, CourseworkInit
<1>4. submission \in [Students -> [status : {"none", "submitted", "accepted", "rejected"}, score : Scores \cup {0}]]
  BY DEF Init, CourseworkInit, NoRow
<1>5. xp \in [Students -> [Works -> Nat]] /\ given \in [Students -> [Works -> SUBSET Nat]]
  BY DEF Init, CourseworkInit, NoXp
<1>6. CourseworkTypeOK
  BY <1>1, <1>2, <1>3, <1>4, <1>5 DEF Init, CourseworkInit, CourseworkTypeOK, NoResult
<1> QED  BY <1>6 DEF Init, TypeOK, Scans

(* The rows of an assignment and an exam, the requests under way and the   *)
(* list the goroutine holds keep their types (homework_repo.go,            *)
(* exam_repo.go, bot_repo.go); a member of the group is enrolled.          *)
THEOREM RemindersTypeCorrect == Spec => []TypeOK
<1>1. TypeOK /\ [Next]_vars => TypeOK'
  <2>1. TypeOK /\ UNCHANGED vars => TypeOK'
    BY DEF vars, courseworkVars, remindersVars, TypeOK, CourseworkTypeOK, BoundsTypeOK
  <2> QED  BY <2>1, RemindersTypeStep
<1> QED  BY <1>1, RemindersInit, PTL DEF Spec

-----------------------------------------------------------------------------
(* XP.                                                                     *)

(* An award carries the XP of a grade that was given.                      *)
AwardsGiven ==
  \A h \in Handlers : request[h].op = "award" => request[h].xp \in given[request[h].student][request[h].work]

OnItsWay(s, w) ==
  \E h \in Handlers :
    request[h].op = "award" /\ request[h].student = s /\ request[h].work = w /\ request[h].xp > 0

(* Pending, as the property has it, is about the student: another award may *)
(* be the one that is pending, or one of 0 XP.  This is about the grade.    *)
XpExplained(s, w) ==
  /\ xp[s][w] \in {0} \cup given[s][w]
  /\ given[s][w] \notin SUBSET {0} => xp[s][w] > 0 \/ OnItsWay(s, w) \/ s \in lost

XpInv == AwardsGiven /\ \A s \in enrolled, w \in Works : XpExplained(s, w)

LEMMA XpFrame ==
  ASSUME XpInv, UNCHANGED <<xp, request, given, lost>>, enrolled' = enrolled
  PROVE  XpInv'
BY DEF XpInv, AwardsGiven, XpExplained, OnItsWay

(* A request that carries no award becomes another that carries none.      *)
LEMMA XpRequestFrame ==
  ASSUME XpInv, request \in [Handlers -> Requests], NEW h \in Handlers, NEW r,
         request' = [request EXCEPT ![h] = r], request[h].op # "award", r.op # "award",
         UNCHANGED <<xp, given, lost>>, enrolled' = enrolled
  PROVE  XpInv'
<1>1. \A x \in Handlers : \/ request'[x] = request[x]
                          \/ request'[x].op # "award" /\ request[x].op # "award"
  OBVIOUS
<1>2. AwardsGiven'
  BY <1>1 DEF XpInv, AwardsGiven
<1>3. \A s, w : XpExplained(s, w) => XpExplained(s, w)'
  BY <1>1 DEF XpExplained, OnItsWay
<1> QED  BY <1>2, <1>3 DEF XpInv

(* A grade is given, and its award is on its way.                          *)
LEMMA XpGiven ==
  ASSUME CourseworkTypeOK, XpInv, NEW h \in Handlers, request[h].op # "award",
         NEW t \in Students, NEW v \in Works, NEW amount \in Nat,
         request' = [request EXCEPT ![h] = Awarding(t, v, amount)],
         given' = [given EXCEPT ![t][v] = @ \cup {amount}],
         UNCHANGED <<enrolled, xp, lost>>
  PROVE  XpInv'
<1>0. /\ request \in [Handlers -> Requests]
      /\ given \in [Students -> [Works -> SUBSET Nat]]
      /\ xp \in [Students -> [Works -> Nat]]
      /\ enrolled \subseteq Students
  BY DEF CourseworkTypeOK
<1>1. /\ request'[h].op = "award" /\ request'[h].student = t /\ request'[h].work = v
      /\ request'[h].xp = amount
      /\ \A x \in Handlers \ {h} : request'[x] = request[x]
  BY <1>0 DEF Awarding
<1>2. \A s \in Students, w \in Works :
        given'[s][w] = (IF s = t /\ w = v THEN given[s][w] \cup {amount} ELSE given[s][w])
  BY <1>0
<1>3. AwardsGiven'
  <2> SUFFICES ASSUME NEW x \in Handlers, request'[x].op = "award"
               PROVE  request'[x].xp \in given'[request'[x].student][request'[x].work]
    BY DEF AwardsGiven
  <2>1. CASE x = h
    BY <1>1, <1>2, <2>1
  <2>2. CASE x # h
    <3>1. request[x].student \in Students /\ request[x].work \in Works
      BY <1>0, <1>1, <2>2, WorkRequestKind DEF Idle
    <3> QED  BY <1>1, <1>2, <2>2, <3>1 DEF XpInv, AwardsGiven
  <2> QED  BY <2>1, <2>2
<1>4. ASSUME NEW s \in enrolled, NEW w \in Works
      PROVE  XpExplained(s, w)'
  <2>1. XpExplained(s, w) /\ s \in Students /\ xp[s][w] \in Nat
    BY <1>0 DEF XpInv
  <2>2. OnItsWay(s, w) => OnItsWay(s, w)'
    BY <1>1 DEF OnItsWay
  <2>3. s = t /\ w = v /\ amount > 0 => OnItsWay(s, w)'
    BY <1>1 DEF OnItsWay
  <2> QED  BY <1>2, <2>1, <2>2, <2>3 DEF XpExplained
<1> QED  BY <1>3, <1>4 DEF XpInv

(* The award is written, or finds a row, or the student is gone.           *)
LEMMA XpAward ==
  ASSUME CourseworkTypeOK, XpInv, NEW h \in Handlers, Award(h)
  PROVE  XpInv'
<1>0. /\ request \in [Handlers -> Requests]
      /\ given \in [Students -> [Works -> SUBSET Nat]]
      /\ xp \in [Students -> [Works -> Nat]]
      /\ enrolled \subseteq Students
  BY DEF CourseworkTypeOK
<1> DEFINE t == request[h].student
           v == request[h].work
           amount == request[h].xp
<1>1. t \in Students /\ v \in Works /\ amount \in Nat /\ amount \in given[t][v]
  BY <1>0, WorkRequestKind DEF Award, Idle, XpInv, AwardsGiven
<1>2. \A s \in Students, w \in Works :
        xp'[s][w] = (IF s = t /\ w = v /\ s \in enrolled /\ xp[s][w] = 0 THEN amount ELSE xp[s][w])
  BY <1>0, <1>1 DEF Award, InsertPointsIfNew
<1>3. /\ request'[h].op # "award"
      /\ \A x \in Handlers \ {h} : request'[x] = request[x]
  BY <1>0 DEF Award, Idle
<1>4. AwardsGiven'
  BY <1>3 DEF XpInv, AwardsGiven, Award
<1>5. ASSUME NEW s \in enrolled, NEW w \in Works
      PROVE  XpExplained(s, w)'
  <2>1. XpExplained(s, w) /\ s \in Students /\ xp[s][w] \in Nat
    BY <1>0 DEF XpInv
  <2>2. OnItsWay(s, w) => OnItsWay(s, w)' \/ (s = t /\ w = v /\ amount > 0)
    BY <1>3 DEF OnItsWay
  <2>3. given' = given /\ lost' = lost
    BY DEF Award
  <2> HIDE DEF t, v, amount
  <2> QED  BY <1>1, <1>2, <2>1, <2>2, <2>3 DEF XpExplained
<1>6. enrolled' = enrolled
  BY DEF Award
<1> QED  BY <1>4, <1>5, <1>6 DEF XpInv

(* Requests end, each in place of the award it carried.                    *)
LEMMA XpLost ==
  ASSUME XpInv, request \in [Handlers -> Requests],
         \A h \in Handlers : \/ request'[h] = request[h]
                             \/ /\ request'[h].op # "award"
                                /\ request[h].op = "award" => request[h].student \in lost',
         lost \subseteq lost', UNCHANGED <<xp, given, enrolled>>
  PROVE  XpInv'
<1>1. AwardsGiven'
  BY DEF XpInv, AwardsGiven
<1>2. \A s, w : OnItsWay(s, w) => OnItsWay(s, w)' \/ s \in lost'
  BY DEF OnItsWay
<1>3. \A s, w : XpExplained(s, w) => XpExplained(s, w)'
  BY <1>2 DEF XpExplained
<1> QED  BY <1>1, <1>3 DEF XpInv

LEMMA XpStep ==
  ASSUME TypeOK, XpInv, Next
  PROVE  XpInv'
<1>0. /\ CourseworkTypeOK
      /\ request \in [Handlers -> Requests]
      /\ given \in [Students -> [Works -> SUBSET Nat]]
      /\ xp \in [Students -> [Works -> Nat]]
      /\ enrolled \subseteq Students
  BY DEF TypeOK, CourseworkTypeOK
<1>1. CASE SetDeadline
  BY <1>1, XpFrame DEF SetDeadline, CreateAssignment, UpdateAssignment
<1>2. ASSUME NEW s \in Students, Join(s) \/ LinkTelegram(s)
      PROVE  XpInv'
  BY <1>2, XpFrame DEF Join, JoinGroup, LinkTelegram
<1>3. CASE DeadlineNears \/ DeadlinePasses
  BY <1>3, XpFrame DEF DeadlineNears, DeadlinePasses
<1>4. CASE ScanStep
  BY <1>4, XpFrame DEF ScanStep, DueHomeworkReminders, MarkFirst, Push, courseworkVars
<1>5. CASE Crash
  <2>1. \A h \in Handlers : /\ request'[h].op # "award"
                            /\ request[h].op = "award" => request[h].student \in lost'
    BY <1>0, <1>5, WorkRequestKind DEF Crash, Pending, Idle
  <2> QED  BY <1>0, <1>5, <2>1, XpLost DEF Crash
<1>6. CASE CourseworkEdit
  <2>1. ASSUME NEW s \in Students, DeleteStudent(s)
        PROVE  XpInv'
    <3>1. \A x \in enrolled', w \in Works : x \in enrolled /\ xp'[x][w] = xp[x][w]
      BY <1>0, <2>1 DEF DeleteStudent
    <3> QED  BY <2>1, <3>1 DEF XpInv, AwardsGiven, XpExplained, OnItsWay, DeleteStudent
  <2> QED  BY <1>6, <2>1, XpFrame DEF CourseworkEdit, LeaveGroup, DeleteAssignment, DeleteExam
<1>7. CASE CourseworkRequest
  <2>1. PICK h \in Handlers :
          \/ \E s \in Students :
               \/ Submit(h, s)
               \/ \E status \in {"accepted", "rejected"}, score \in Scores : GradeHomework(h, s, status, score)
               \/ \E score \in DOMAIN ExamXp : GradeExam(h, s, score)
          \/ WriteSubmission(h) \/ WriteGrade(h) \/ WriteResult(h) \/ Award(h)
          \/ NotFound(h) \/ StatementFails(h)
    BY <1>7 DEF CourseworkRequest
  <2>2. ASSUME NEW s \in Students,
               \/ Submit(h, s)
               \/ \E status \in {"accepted", "rejected"}, score \in Scores : GradeHomework(h, s, status, score)
               \/ \E score \in DOMAIN ExamXp : GradeExam(h, s, score)
        PROVE  XpInv'
    <3>1. request[h].op # "award"
      BY <2>2 DEF Submit, GradeHomework, GradeExam, Idle
    <3>2. PICK r : r.op # "award" /\ request' = [request EXCEPT ![h] = r]
      BY <2>2 DEF Submit, GradeHomework, GradeExam
    <3>3. UNCHANGED <<enrolled, xp, given, lost>>
      BY <2>2 DEF Submit, GradeHomework, GradeExam
    <3> QED  BY <1>0, <3>1, <3>2, <3>3, XpRequestFrame
  <2>3. CASE WriteSubmission(h) \/ NotFound(h)
    <3>1. request[h].op # "award" /\ request' = [request EXCEPT ![h] = Idle] /\ Idle.op # "award"
      BY <2>3 DEF WriteSubmission, NotFound, Idle
    <3>2. UNCHANGED <<enrolled, xp, given, lost>>
      BY <2>3 DEF WriteSubmission, NotFound
    <3> QED  BY <1>0, <3>1, <3>2, XpRequestFrame
  <2>4. CASE WriteGrade(h)
    <3>1. request[h].op # "award" /\ UNCHANGED <<enrolled, xp, lost>>
      BY <2>4 DEF WriteGrade
    <3>2. /\ request[h].student \in Students /\ HomeworkXp(request[h].score) \in Nat
          /\ "homework" \in Works
      BY <1>0, <2>4, WorkRequestKind, CourseworkAssumption
         DEF WriteGrade, Idle, HomeworkXp, Smaller, Works
    <3>3. CASE request[h].status = "accepted"
      <4>1. /\ request' = [request EXCEPT ![h] =
                 Awarding(request[h].student, "homework", HomeworkXp(request[h].score))]
            /\ given' = [given EXCEPT ![request[h].student]["homework"] =
                 @ \cup {HomeworkXp(request[h].score)}]
        BY <1>0, <2>4, <3>3 DEF WriteGrade
      <4> QED  BY <1>0, <3>1, <3>2, <4>1, XpGiven
    <3>4. CASE request[h].status # "accepted"
      BY <1>0, <2>4, <3>1, <3>4, XpRequestFrame DEF WriteGrade, Idle
    <3> QED  BY <3>3, <3>4
  <2>5. CASE WriteResult(h)
    <3>1. request[h].op # "award" /\ UNCHANGED <<enrolled, xp, lost>>
      BY <2>5 DEF WriteResult
    <3>2. request[h].student \in Students /\ ExamXp[request[h].score] \in Nat /\ "exam" \in Works
      BY <1>0, <2>5, WorkRequestKind, CourseworkAssumption DEF WriteResult, Idle, Works
    <3>3. /\ request' = [request EXCEPT ![h] =
               Awarding(request[h].student, "exam", ExamXp[request[h].score])]
          /\ given' = [given EXCEPT ![request[h].student]["exam"] = @ \cup {ExamXp[request[h].score]}]
      BY <1>0, <2>5 DEF WriteResult
    <3> QED  BY <1>0, <3>1, <3>2, <3>3, XpGiven
  <2>6. CASE StatementFails(h)
    <3>1. \A x \in Handlers : \/ request'[x] = request[x]
                              \/ /\ request'[x].op # "award"
                                 /\ request[x].op = "award" => request[x].student \in lost'
      BY <1>0, <2>6 DEF StatementFails, Idle
    <3>2. lost \subseteq lost' /\ UNCHANGED <<xp, given, enrolled>>
      BY <2>6 DEF StatementFails
    <3> QED  BY <1>0, <3>1, <3>2, XpLost
  <2> QED  BY <1>0, <2>1, <2>2, <2>3, <2>4, <2>5, <2>6, XpAward
<1> QED
  BY <1>1, <1>2, <1>3, <1>4, <1>5, <1>6, <1>7 DEF Next, CourseworkStep

(* The XP of a homework or exam is that of a grade it got, and a grade      *)
(* worth XP leaves the student without any only if its award was lost      *)
(* (homework.Grade, exam.Grade, AwardHomework, AwardExam), for any number   *)
(* of handlers, students and grades.                                      *)
THEOREM XpFromGradesHolds == Spec => []XpFromGrades
<1>1. Init => XpInv
  <2> SUFFICES ASSUME Init PROVE XpInv
    OBVIOUS
  <2>1. AwardsGiven
    BY DEF Init, CourseworkInit, HandlingInit, AwardsGiven, Idle
  <2>2. \A s \in enrolled, w \in Works : xp[s][w] = 0 /\ given[s][w] = {}
    BY DEF Init, CourseworkInit, NoXp
  <2> QED  BY <2>1, <2>2 DEF XpInv, XpExplained
<1>2. TypeOK /\ XpInv /\ [Next]_vars => XpInv'
  BY XpStep, XpFrame DEF vars, courseworkVars
<1>3. TypeOK /\ XpInv => XpFromGrades
  <2>1. \A s, w : OnItsWay(s, w) => Pending(s)
    BY DEF OnItsWay, Pending
  <2> QED  BY <2>1 DEF XpInv, XpFromGrades, XpExplained
<1> QED  BY <1>1, <1>2, <1>3, RemindersTypeCorrect, PTL DEF Spec

-----------------------------------------------------------------------------
(* Reminders.                                                              *)

(* Only a live assignment has a deadline or a mark, and a scan under way    *)
(* started from one that was live.                                        *)
LiveOnly ==
  /\ assignment.status # "live" => assignment.deadline = "none" /\ ~assignment.reminded
  /\ scan # Asleep => assignment.status # "absent"

(* What a step can do to the assignment: the edits, the clock and the mark. *)
LEMMA AssignmentMoves ==
  ASSUME TypeOK, LiveOnly, Next, assignment' # assignment
  PROVE  \/ assignment = Absent /\ \E d \in Deadlines : assignment' = Live(d)
         \/ /\ assignment.status = "live"
            /\ \E d \in Deadlines : assignment' = [assignment EXCEPT !.deadline = d]
         \/ assignment.status = "live" /\ assignment' = Dropped
         \/ MarkFirst /\ assignment.status = "live" /\ assignment' = [assignment EXCEPT !.reminded = TRUE]
<1>0. assignment \in [status : {"absent", "live", "deleted"}, deadline : Deadlines, reminded : BOOLEAN]
  BY DEF TypeOK, CourseworkTypeOK
<1>1. CASE SetDeadline
  BY <1>1 DEF SetDeadline, CreateAssignment, UpdateAssignment, CreateHomeworkAssignment,
              UpdateHomeworkAssignment, Deadlines
<1>2. CASE DeadlineNears \/ DeadlinePasses
  BY <1>2 DEF DeadlineNears, DeadlinePasses, Deadlines, LiveOnly
<1>3. CASE MarkFirst
  <2>1. assignment' = [assignment EXCEPT !.reminded = @ \/ assignment.status = "live"]
    BY <1>3 DEF MarkFirst, MarkHomeworkReminded
  <2>2. CASE assignment.status = "live"
    BY <1>3, <2>1, <2>2
  <2>3. CASE assignment.status # "live"
    <3>1. assignment.reminded = FALSE
      BY <1>0, <2>3 DEF LiveOnly
    <3>2. assignment' = [assignment EXCEPT !.reminded = FALSE]
      BY <2>1, <2>3, <3>1
    <3>3. assignment' = assignment
      BY <1>0, <3>1, <3>2
    <3> QED  BY <3>3
  <2> QED  BY <2>2, <2>3
<1>4. CASE CourseworkStep
  BY <1>4 DEF CourseworkStep, CourseworkEdit, CourseworkRequest, LeaveGroup, DeleteStudent,
              DeleteAssignment, DeleteExam, Submit, GradeHomework, GradeExam, WriteSubmission,
              WriteGrade, WriteResult, Award, NotFound, StatementFails
<1>5. ASSUME NEW s \in Students, Join(s) \/ LinkTelegram(s) \/ Push(s)
      PROVE  FALSE
  BY <1>5 DEF Join, JoinGroup, LinkTelegram, Push
<1>6. ~Crash /\ ~DueHomeworkReminders
  BY DEF Crash, DueHomeworkReminders, courseworkVars
<1> QED
  BY <1>1, <1>2, <1>3, <1>4, <1>5, <1>6 DEF Next, ScanStep

(* What a step can do to the goroutine.                                    *)
LEMMA ScanMoves ==
  ASSUME Next, scan' # scan
  PROVE  DueHomeworkReminders \/ MarkFirst \/ Crash \/ \E s \in Students : Push(s)
BY DEF Next, SetDeadline, CourseworkStep, Join, LinkTelegram, DeadlineNears, DeadlinePasses,
       ScanStep, remindersVars

LEMMA LiveOnlyStep ==
  ASSUME TypeOK, LiveOnly, Next
  PROVE  LiveOnly'
<1>0. assignment \in [status : {"absent", "live", "deleted"}, deadline : Deadlines, reminded : BOOLEAN]
  BY DEF TypeOK, CourseworkTypeOK
<1>1. assignment'.status # "live" => assignment'.deadline = "none" /\ ~assignment'.reminded
  BY <1>0, AssignmentMoves DEF LiveOnly, Live, Dropped
<1>2. assignment.status # "absent" => assignment'.status # "absent"
  BY <1>0, AssignmentMoves DEF Live, Dropped
<1>3. scan' # Asleep => scan # Asleep \/ assignment.status # "absent"
  <2>1. \A s \in Students : Push(s) => scan # Asleep
    BY DEF Push, Asleep
  <2>2. MarkFirst => scan # Asleep
    BY DEF MarkFirst, Asleep
  <2>3. DueHomeworkReminders /\ scan' # Asleep => assignment.deadline = "soon"
    BY DEF DueHomeworkReminders, ListDueHomeworkReminders
  <2>4. Crash => scan' = Asleep
    BY DEF Crash
  <2> QED  BY <2>1, <2>2, <2>3, <2>4, ScanMoves DEF LiveOnly
<1> QED  BY <1>1, <1>2, <1>3 DEF LiveOnly

(* A student of whom no mark failed is pushed to once, and the mark that    *)
(* follows keeps every later scan away.                                   *)
Blameless(s) == "unmarked" \notin excuse[s]
MarkKept == assignment.reminded \/ assignment.status = "deleted"

PushedOnce(s) ==
  Blameless(s) /\ told[s] > 0 =>
    /\ told[s] = 1
    /\ MarkKept \/ scan.pc = "mark"
    /\ scan # Asleep => s \notin scan.todo

OnceInv ==
  /\ scan.pc = "push" /\ scan.marked => MarkKept \/ \A s \in Students : ~Blameless(s)
  /\ scan.pc = "push" /\ ~scan.marked => \A s \in Students : Blameless(s) => told[s] = 0
  /\ \A s \in Students : PushedOnce(s)

LEMMA MarkStays ==
  ASSUME TypeOK, LiveOnly, Next, MarkKept
  PROVE  MarkKept'
<1>0. assignment \in [status : {"absent", "live", "deleted"}, deadline : Deadlines, reminded : BOOLEAN]
  BY DEF TypeOK, CourseworkTypeOK
<1> QED  BY <1>0, AssignmentMoves DEF MarkKept, LiveOnly, Dropped, Absent

(* No step takes a blame away, and only a push tells.                      *)
LEMMA BlameGrows ==
  ASSUME TypeOK, Next
  PROVE  \A s \in Students : excuse[s] \subseteq excuse'[s]
<1>0. excuse \in [Students -> SUBSET {"late", "unsent", "crash", "unmarked"}]
  BY DEF TypeOK
<1>1. ASSUME NEW t \in Students, Join(t) \/ LinkTelegram(t)
      PROVE  \A s \in Students : excuse[s] \subseteq excuse'[s]
  BY <1>0, <1>1, TooLateType DEF Join, LinkTelegram
<1>2. ASSUME NEW t \in Students, Push(t)
      PROVE  \A s \in Students : excuse[s] \subseteq excuse'[s]
  BY <1>0, <1>2, BlameType DEF Push
<1>3. CASE MarkFirst
  BY <1>0, <1>3, BlameType DEF MarkFirst
<1>4. CASE Crash
  BY <1>0, <1>4 DEF Crash
<1>5. SetDeadline \/ CourseworkStep \/ DeadlineNears \/ DeadlinePasses \/ DueHomeworkReminders
        => excuse' = excuse
  BY DEF SetDeadline, CourseworkStep, DeadlineNears, DeadlinePasses, DueHomeworkReminders,
         remindersVars
<1> QED  BY <1>1, <1>2, <1>3, <1>4, <1>5 DEF Next, ScanStep

LEMMA OnlyPushTells ==
  ASSUME Next, \A s \in Students : ~Push(s)
  PROVE  told' = told
BY DEF Next, ScanStep, SetDeadline, CourseworkStep, Join, LinkTelegram, DeadlineNears,
       DeadlinePasses, DueHomeworkReminders, MarkFirst, Crash, remindersVars

LEMMA OnceStep ==
  ASSUME TypeOK, LiveOnly, OnceInv, Next
  PROVE  OnceInv'
<1>0. /\ assignment \in [status : {"absent", "live", "deleted"}, deadline : Deadlines, reminded : BOOLEAN]
      /\ told \in [Students -> Nat]
      /\ excuse \in [Students -> SUBSET {"late", "unsent", "crash", "unmarked"}]
      /\ scan \in Scans
  BY DEF TypeOK, CourseworkTypeOK
<1>1. \A s \in Students : Blameless(s)' => Blameless(s)
  BY BlameGrows DEF Blameless
<1>2. CASE scan' = scan /\ told' = told
  <2>1. \A s \in Students : PushedOnce(s)'
    BY <1>1, <1>2, MarkStays DEF OnceInv, PushedOnce
  <2> QED  BY <1>1, <1>2, <2>1, MarkStays DEF OnceInv
<1>3. CASE DueHomeworkReminders
  <2>1. told' = told /\ scan = Asleep
    BY <1>3 DEF DueHomeworkReminders
  <2>2. CASE scan' = Asleep
    BY <1>2, <2>1, <2>2
  <2>3. CASE scan' # Asleep
    <3>1. scan' = Pushing(ListDueHomeworkReminders, FALSE)
      BY <1>3, <2>3 DEF DueHomeworkReminders
    <3>2. assignment.deadline = "soon" /\ ~assignment.reminded
      BY <1>3, <2>3 DEF DueHomeworkReminders, ListDueHomeworkReminders
    <3>3. \A s \in Students : Blameless(s) => told[s] = 0
      BY <1>0, <2>1, <3>2 DEF OnceInv, PushedOnce, MarkKept, LiveOnly, Asleep
    <3> QED  BY <1>1, <2>1, <3>1, <3>3 DEF OnceInv, PushedOnce, Pushing
  <2> QED  BY <2>2, <2>3
<1>4. CASE MarkFirst
  <2>1. told' = told /\ scan.pc = "mark" /\ scan' = AfterPush(scan.todo, TRUE)
    BY <1>4, OnlyPushTells DEF MarkFirst, Push
  <2>2. MarkKept' \/ \A s \in Students : ~Blameless(s)'
    <3>1. CASE MarkHomeworkReminded
      BY <1>0, <1>4, <3>1, ScanKind DEF MarkHomeworkReminded, MarkKept, LiveOnly, MarkFirst, Asleep
    <3>2. CASE Blame(Students, "unmarked")
      BY <1>0, <3>2, BlameType DEF Blameless
    <3> QED  BY <1>4, <3>1, <3>2 DEF MarkFirst
  <2>3. /\ scan # Asleep
        /\ scan' = Asleep \/ (scan'.pc = "push" /\ scan'.marked /\ scan'.todo = scan.todo)
    BY <1>0, <2>1, ScanKind, AfterPushKind
  <2>4. \A s \in Students : PushedOnce(s)'
    BY <1>1, <2>1, <2>2, <2>3 DEF OnceInv, PushedOnce
  <2>5. scan'.pc = "push" => scan'.marked
    BY <2>3 DEF Asleep
  <2> QED  BY <2>2, <2>4, <2>5 DEF OnceInv
<1>5. CASE Crash
  <2>1. told' = told /\ scan' = Asleep
    BY <1>5 DEF Crash
  <2>2. \A s \in Students : scan.pc = "mark" => ~Blameless(s)'
    BY <1>0, <1>5 DEF Crash, Blameless
  <2>3. \A s \in Students : PushedOnce(s)'
    BY <1>1, <2>1, <2>2, MarkStays DEF OnceInv, PushedOnce
  <2> QED  BY <2>1, <2>3 DEF OnceInv, Asleep
<1>6. ASSUME NEW t \in Students, Push(t)
      PROVE  OnceInv'
  <2>1. /\ scan.pc = "push" /\ t \in scan.todo /\ scan # Asleep
        /\ scan' = AfterPush(scan.todo \ {t}, scan.marked)
        /\ scan.todo \subseteq Students /\ scan.marked \in BOOLEAN
    BY <1>0, <1>6, ScanKind DEF Push, Asleep
  <2>2. \A s \in Students : /\ s # t => told'[s] = told[s]
                            /\ told'[s] \in {told[s], told[s] + 1}
    BY <1>0, <1>6 DEF Push
  <2>3. Blameless(t) => told[t] = 0
    BY <1>0, <2>1 DEF OnceInv, PushedOnce
  <2>4. MarkKept => MarkKept'
    BY MarkStays
  <2>5. CASE scan.marked
    <3>1. \/ scan' = Asleep
          \/ scan'.pc = "push" /\ scan'.marked /\ scan'.todo = scan.todo \ {t}
      BY <2>1, <2>5, AfterPushKind
    <3>2. MarkKept' \/ \A s \in Students : ~Blameless(s)'
      BY <1>1, <2>1, <2>4, <2>5 DEF OnceInv
    <3>3. ASSUME NEW s \in Students PROVE PushedOnce(s)'
      <4>1. told[s] \in Nat
        BY <1>0
      <4>2. Blameless(s)' /\ told'[s] > 0 => told'[s] = 1
        BY <1>1, <2>2, <2>3, <4>1 DEF OnceInv, PushedOnce
      <4>3. Blameless(s)' /\ told'[s] > 0 /\ scan' # Asleep => s \notin scan'.todo
        BY <1>1, <2>1, <2>2, <3>1, <4>1 DEF OnceInv, PushedOnce
      <4> QED  BY <3>2, <4>2, <4>3 DEF PushedOnce
    <3>4. scan'.pc = "push" => scan'.marked
      BY <3>1 DEF Asleep
    <3> QED  BY <3>2, <3>3, <3>4 DEF OnceInv
  <2>6. CASE ~scan.marked
    <3>1. scan'.pc = "mark" /\ scan'.todo = scan.todo \ {t}
      BY <2>1, <2>6, AfterPushKind
    <3>2. \A s \in Students : Blameless(s)' => told[s] = 0
      BY <1>1, <2>1, <2>6 DEF OnceInv
    <3>3. ASSUME NEW s \in Students PROVE PushedOnce(s)'
      BY <2>2, <3>1, <3>2 DEF PushedOnce
    <3> QED  BY <3>1, <3>3 DEF OnceInv
  <2> QED  BY <2>1, <2>5, <2>6
<1> QED
  <2>1. CASE \E s \in Students : Push(s)
    BY <1>6, <2>1
  <2>2. CASE \A s \in Students : ~Push(s)
    BY <1>2, <1>3, <1>4, <1>5, <2>2, ScanMoves, OnlyPushTells
  <2> QED  BY <2>1, <2>2

THEOREM LiveOnlyHolds == Spec => []LiveOnly
<1>1. Init => LiveOnly
  BY DEF Init, CourseworkInit, LiveOnly, Absent, Live
<1>2. LiveOnly /\ UNCHANGED vars => LiveOnly'
  BY DEF LiveOnly, vars, courseworkVars, remindersVars
<1> QED  BY <1>1, <1>2, LiveOnlyStep, RemindersTypeCorrect, PTL DEF Spec

(* "then marks those assignments reminded so they aren't pinged again"      *)
(* (RemindDueHomework): a student pushed to twice for one assignment is one *)
(* for whom the mark after the first push failed, or the process died       *)
(* before it, for any number of students, requests and moved deadlines.    *)
THEOREM RemindedOnceHolds == Spec => []RemindedOnce
<1>1. Init => OnceInv
  BY DEF Init, OnceInv, PushedOnce, Asleep
<1>2. OnceInv /\ UNCHANGED vars => OnceInv'
  BY DEF OnceInv, PushedOnce, Blameless, MarkKept, vars, courseworkVars, remindersVars
<1>3. TypeOK /\ OnceInv => RemindedOnce
  BY DEF TypeOK, OnceInv, PushedOnce, Blameless, RemindedOnce
<1> QED
  BY <1>1, <1>2, <1>3, OnceStep, LiveOnlyHolds, RemindersTypeCorrect, PTL DEF Spec

-----------------------------------------------------------------------------
(* Missed reminders.                                                       *)

(* Who should still get the reminder, with nothing to explain why not.     *)
Waiting(s) == submission[s] = NoRow /\ told[s] = 0 /\ excuse[s] = {}

(* Before the deadline comes near nothing has been listed or marked.       *)
NotYet ==
  assignment.status # "deleted" /\ assignment.deadline \in {"none", "far"} =>
    scan = Asleep /\ ~assignment.reminded /\ ~scanned

(* A scan under way, and a mark, come from a scan that listed.             *)
ScanListed ==
  /\ scan # Asleep /\ assignment.status # "deleted" => scanned
  /\ assignment.reminded => scanned

(* Once a scan has listed, those who wait are the ones it still holds.     *)
StillListed == \A s \in members \cap linked : Waiting(s) => scan # Asleep /\ s \in scan.todo
NobodyWaits == \A s \in members \cap linked : ~Waiting(s)

MissedInv ==
  slips = {} =>
    /\ NotYet /\ ScanListed
    /\ assignment.deadline = "soon" /\ scanned => StillListed
    /\ assignment.deadline = "past" => NobodyWaits

LEMMA SlipsGrow ==
  ASSUME Next
  PROVE  slips \subseteq slips'
BY DEF Next, SetDeadline, CourseworkStep, Join, LinkTelegram, DeadlineNears, DeadlinePasses,
       ScanStep, DueHomeworkReminders, MarkFirst, Push, Crash, remindersVars

(* The staff and the students: nobody starts to wait who did not, unless    *)
(* the assignment goes.                                                   *)
LEMMA CourseworkWaits ==
  ASSUME TypeOK, CourseworkStep
  PROVE  \/ assignment' = Dropped
         \/ /\ assignment' = assignment /\ members' \subseteq members
            /\ \A s \in members' : Waiting(s)' => Waiting(s)
<1>0. /\ submission \in [Students -> [status : {"none", "submitted", "accepted", "rejected"}, score : Scores \cup {0}]]
      /\ request \in [Handlers -> Requests]
      /\ members \subseteq Students
  BY DEF TypeOK, CourseworkTypeOK
<1>1. told' = told /\ excuse' = excuse
  BY DEF CourseworkStep, remindersVars
<1>2. CASE assignment' = assignment /\ members' \subseteq members /\ submission' = submission
  BY <1>1, <1>2 DEF Waiting
<1>3. CASE CourseworkEdit
  <2>1. ASSUME NEW t \in Students, DeleteStudent(t)
        PROVE  /\ assignment' = assignment /\ members' \subseteq members
               /\ \A s \in members' : Waiting(s)' => Waiting(s)
    BY <1>0, <1>1, <2>1 DEF DeleteStudent, Waiting
  <2> QED  BY <1>2, <1>3, <2>1 DEF CourseworkEdit, LeaveGroup, DeleteAssignment, DeleteExam
<1>4. CASE CourseworkRequest
  <2>1. assignment' = assignment /\ members' = members
    BY <1>4 DEF CourseworkRequest, Submit, GradeHomework, GradeExam, WriteSubmission,
                WriteGrade, WriteResult, Award, NotFound, StatementFails
  <2>2. ASSUME NEW h \in Handlers, WriteSubmission(h)
        PROVE  \A s \in Students : submission'[s] = NoRow => submission[s] = NoRow
    BY <1>0, <2>2 DEF WriteSubmission, UpsertSubmission, NoRow
  <2>3. ASSUME NEW h \in Handlers, WriteGrade(h)
        PROVE  \A s \in Students : submission'[s] = NoRow => submission[s] = NoRow
    <3>1. request[h].status \in {"accepted", "rejected"} /\ request[h].student \in Students
      BY <1>0, <2>3, WorkRequestKind DEF WriteGrade
    <3>2. submission' = [submission EXCEPT ![request[h].student] =
                           [status |-> request[h].status, score |-> request[h].score]]
      BY <2>3 DEF WriteGrade, GradeSubmission
    <3> QED  BY <1>0, <3>1, <3>2 DEF NoRow
  <2>4. submission' = submission \/ \E h \in Handlers : WriteSubmission(h) \/ WriteGrade(h)
    BY <1>4 DEF CourseworkRequest, Submit, GradeHomework, GradeExam, WriteResult, Award,
                NotFound, StatementFails
  <2> QED  BY <1>0, <1>1, <2>1, <2>2, <2>3, <2>4 DEF Waiting
<1> QED  BY <1>3, <1>4 DEF CourseworkStep

LEMMA MissedStep ==
  ASSUME TypeOK, LiveOnly, MissedInv, Next
  PROVE  MissedInv'
<1> SUFFICES ASSUME slips' = {}
             PROVE  /\ NotYet' /\ ScanListed'
                    /\ assignment'.deadline = "soon" /\ scanned' => StillListed'
                    /\ assignment'.deadline = "past" => NobodyWaits'
  BY DEF MissedInv
<1>0. /\ assignment \in [status : {"absent", "live", "deleted"}, deadline : Deadlines, reminded : BOOLEAN]
      /\ told \in [Students -> Nat]
      /\ excuse \in [Students -> SUBSET {"late", "unsent", "crash", "unmarked"}]
      /\ scan \in Scans
      /\ linked \subseteq Students /\ members \subseteq Students
  BY DEF TypeOK, CourseworkTypeOK
<1>1. /\ slips = {} /\ NotYet /\ ScanListed
      /\ assignment.deadline = "soon" /\ scanned => StillListed
      /\ assignment.deadline = "past" => NobodyWaits
  BY SlipsGrow DEF MissedInv
<1>2. CASE SetDeadline
  <2>1. PICK d \in {"none", "far"} :
          /\ CreateAssignment(d) \/ UpdateAssignment(d)
          /\ ~assignment.reminded /\ scan = Asleep
    BY <1>2 DEF SetDeadline
  <2>2. assignment'.deadline = d /\ ~assignment'.reminded
    BY <1>0, <2>1 DEF CreateAssignment, UpdateAssignment, CreateHomeworkAssignment,
                      UpdateHomeworkAssignment, Live
  <2>3. scan' = Asleep /\ ~scanned'
    BY <1>2, <2>1 DEF SetDeadline
  <2> QED  BY <2>2, <2>3 DEF NotYet, ScanListed
<1>3. CASE CourseworkStep
  <2>1. UNCHANGED <<linked, scan, told, scanned, slips, excuse>>
    BY <1>3 DEF CourseworkStep, remindersVars
  <2>2. CASE assignment' = Dropped
    BY <2>2 DEF Dropped, NotYet, ScanListed
  <2>3. CASE /\ assignment' = assignment /\ members' \subseteq members
             /\ \A s \in members' : Waiting(s)' => Waiting(s)
    BY <1>1, <2>1, <2>3 DEF NotYet, ScanListed, StillListed, NobodyWaits
  <2> QED  BY <1>3, <2>2, <2>3, CourseworkWaits
<1>4. ASSUME NEW t \in Students, Join(t) \/ LinkTelegram(t)
      PROVE  /\ NotYet' /\ ScanListed'
             /\ assignment'.deadline = "soon" /\ scanned' => StillListed'
             /\ assignment'.deadline = "past" => NobodyWaits'
  <2>1. /\ UNCHANGED <<assignment, submission, scan, told, scanned>>
        /\ members' \cap linked' \subseteq (members \cap linked) \cup {t}
        /\ TooLate(t)
    BY <1>4 DEF Join, JoinGroup, LinkTelegram
  <2>2. \A s \in members' \cap linked' : Waiting(s)' =>
          Waiting(s) /\ (assignment.deadline \in {"soon", "past"} => s \in members \cap linked)
    BY <1>0, <2>1, TooLateType DEF Waiting
  <2> QED  BY <1>1, <2>1, <2>2 DEF NotYet, ScanListed, StillListed, NobodyWaits
<1>5. CASE DeadlineNears
  <2>1. /\ assignment.deadline = "far" /\ assignment.status = "live"
        /\ assignment' = [assignment EXCEPT !.deadline = "soon"]
        /\ UNCHANGED <<scan, scanned>>
    BY <1>0, <1>5 DEF DeadlineNears, LiveOnly, remindersVars
  <2> QED  BY <1>0, <1>1, <2>1 DEF NotYet, ScanListed
<1>6. CASE DeadlinePasses
  <2>1. /\ assignment.deadline = "soon" /\ scanned /\ scan = Asleep
        /\ assignment' = [assignment EXCEPT !.deadline = "past"]
        /\ UNCHANGED <<scan, scanned, members, linked, submission, told, excuse>>
    BY <1>6 DEF DeadlinePasses
  <2>2. NobodyWaits'
    BY <1>1, <2>1 DEF StillListed, NobodyWaits, Waiting
  <2> QED  BY <1>0, <1>1, <2>1, <2>2 DEF NotYet, ScanListed
<1>7. CASE DueHomeworkReminders
  <2>1. /\ UNCHANGED <<assignment, members, linked, submission, told, excuse>>
        /\ scan = Asleep
        /\ scan' = IF ListDueHomeworkReminders = {} THEN Asleep
                   ELSE Pushing(ListDueHomeworkReminders, FALSE)
        /\ scanned' = (scanned \/ assignment.deadline = "soon")
    BY <1>7 DEF DueHomeworkReminders, courseworkVars
  <2>2. assignment.deadline # "soon" => scan' = Asleep /\ (scanned' <=> scanned)
    BY <2>1 DEF ListDueHomeworkReminders
  <2>3. assignment.deadline = "soon" => scanned'
    BY <2>1
  <2>4. ASSUME assignment.deadline = "soon", NEW s \in members \cap linked, Waiting(s)
        PROVE  scan' # Asleep /\ s \in scan'.todo
    <3>1. ~assignment.reminded
      BY <1>1, <2>1, <2>4 DEF ScanListed, StillListed
    <3>2. s \in ListDueHomeworkReminders
      BY <2>4, <3>1 DEF ListDueHomeworkReminders, Waiting
    <3> QED  BY <2>1, <3>2 DEF Pushing, Asleep
  <2>5. StillListed' \/ assignment.deadline # "soon"
    BY <2>1, <2>4 DEF StillListed, Waiting
  <2>6. NotYet' /\ ScanListed'
    BY <1>1, <2>1, <2>2, <2>3 DEF NotYet, ScanListed
  <2> QED  BY <1>1, <2>1, <2>5, <2>6 DEF NobodyWaits, Waiting
<1>8. ASSUME NEW t \in Students, Push(t)
      PROVE  /\ NotYet' /\ ScanListed'
             /\ assignment'.deadline = "soon" /\ scanned' => StillListed'
             /\ assignment'.deadline = "past" => NobodyWaits'
  <2>1. /\ scan.pc = "push" /\ t \in scan.todo /\ scan # Asleep
        /\ scan' = AfterPush(scan.todo \ {t}, scan.marked)
        /\ scan.todo \subseteq Students /\ scan.marked \in BOOLEAN
        /\ UNCHANGED <<assignment, members, linked, submission, scanned>>
    BY <1>0, <1>8, ScanKind DEF Push, Asleep
  <2>2. \A s \in Students : Waiting(s)' => Waiting(s) /\ s # t
    BY <1>0, <1>8, BlameType DEF Push, Waiting
  <2>3. scan.todo \ {t} # {} => scan'.pc # "asleep" /\ scan'.todo = scan.todo \ {t}
    BY <2>1, AfterPushKind
  <2>4. StillListed => StillListed'
    <3> SUFFICES ASSUME StillListed, NEW s \in members \cap linked, Waiting(s)'
                 PROVE  scan' # Asleep /\ s \in scan'.todo
      BY <2>1 DEF StillListed
    <3>1. s \in scan.todo \ {t}
      BY <1>0, <2>2 DEF StillListed
    <3> QED  BY <2>3, <3>1 DEF Asleep
  <2>5. NobodyWaits => NobodyWaits'
    BY <1>0, <2>1, <2>2 DEF NobodyWaits
  <2> QED  BY <1>1, <2>1, <2>4, <2>5 DEF NotYet, ScanListed
<1>9. CASE MarkFirst
  <2>1. /\ scan # Asleep /\ scan.todo \subseteq Students
        /\ scan' = AfterPush(scan.todo, TRUE)
        /\ UNCHANGED <<members, linked, submission, told, scanned>>
    BY <1>0, <1>9, ScanKind DEF MarkFirst, Asleep
  <2>2. /\ assignment'.status = assignment.status /\ assignment'.deadline = assignment.deadline
        /\ assignment'.reminded => assignment.reminded \/ assignment.status = "live"
    BY <1>0, <1>9 DEF MarkFirst, MarkHomeworkReminded
  <2>3. \A s \in Students : Waiting(s)' => Waiting(s)
    BY <1>0, <1>9, <2>1, BlameGrows DEF Waiting
  <2>4. scan.todo # {} => scan'.pc # "asleep" /\ scan'.todo = scan.todo
    BY <2>1, AfterPushKind
  <2>5. StillListed => StillListed'
    <3> SUFFICES ASSUME StillListed, NEW s \in members \cap linked, Waiting(s)'
                 PROVE  scan' # Asleep /\ s \in scan'.todo
      BY <2>1 DEF StillListed
    <3>1. s \in scan.todo
      BY <1>0, <2>3 DEF StillListed
    <3> QED  BY <2>4, <3>1 DEF Asleep
  <2>6. NobodyWaits => NobodyWaits'
    BY <1>0, <2>1, <2>3 DEF NobodyWaits
  <2> QED  BY <1>1, <2>1, <2>2, <2>5, <2>6 DEF NotYet, ScanListed
<1>10. CASE Crash
  <2>1. /\ scan' = Asleep
        /\ UNCHANGED <<assignment, members, linked, submission, told, scanned>>
    BY <1>10 DEF Crash
  <2>2. \A s \in Students : Waiting(s)' => Waiting(s) /\ ~(scan # Asleep /\ s \in scan.todo)
    BY <1>0, <1>10, <2>1 DEF Crash, Waiting
  <2> QED  BY <1>0, <1>1, <2>1, <2>2 DEF NotYet, ScanListed, StillListed, NobodyWaits
<1> QED
  BY <1>2, <1>3, <1>4, <1>5, <1>6, <1>7, <1>8, <1>9, <1>10 DEF Next, ScanStep

(* A linked member who let the deadline pass without an answer and without  *)
(* a push is explained by what slipped or went wrong (RemindDueHomework,    *)
(* ListDueHomeworkReminders, MarkHomeworkReminded): the scans of two hours  *)
(* miss nobody else.                                                      *)
THEOREM MissedExplainedHolds == Spec => []MissedExplained
<1>1. Init => MissedInv
  BY DEF Init, CourseworkInit, MissedInv, NotYet, ScanListed, Absent, Live
<1>2. MissedInv /\ UNCHANGED vars => MissedInv'
  BY DEF MissedInv, NotYet, ScanListed, StillListed, NobodyWaits, Waiting, vars, courseworkVars,
         remindersVars
<1>3. MissedInv => MissedExplained
  BY DEF MissedInv, NobodyWaits, Waiting, MissedExplained
<1> QED
  BY <1>1, <1>2, <1>3, MissedStep, LiveOnlyHolds, RemindersTypeCorrect, PTL DEF Spec
=============================================================================
