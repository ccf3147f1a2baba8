------------------------------- MODULE Timetable ------------------------------
(***************************************************************************)
(* The lessons of the groups in one room on one date                       *)
(* (internal/usecase/lesson, lesson_repo.go), next to the Roster.          *)
(*                                                                         *)
(* checkRoom and FindByGroupDate read in one transaction what the next one *)
(* relies on.  lessons.group_id has no foreign key: lessons outlive their  *)
(* group.                                                                  *)
(***************************************************************************)
EXTENDS Roster

CONSTANTS
  Lessons,     \* ids of lessons, never reused
  Rows         \* lessons a request may ask for: status, group and slot

VARIABLES
  lesson,      \* lessons: status, group and slot
  desk,        \* the lesson request each handler serves
  doubled      \* history: how two lessons may share the room

lessonVars == <<lesson, desk, doubled>>
timetableVars == <<rosterVars, lessonVars>>

-----------------------------------------------------------------------------
(* A slot is a time of day, from and to; NoSlot is a lesson without a room *)
(* or without times.  The columns are TEXT and CountRoomConflicts compares *)
(* the texts: the numbers are places in that order, which is the order of  *)
(* the clock for times of the form "HH:MM", the form of schema.sql.        *)
NoSlot    == [from |-> 0, to |-> 0]
NoLesson  == [status |-> "none", group |-> NoGroup, slot |-> NoSlot]
Deleted   == [status |-> "deleted", group |-> NoGroup, slot |-> NoSlot]
Statuses  == {"scheduled", "done", "cancelled"}
Session(g, slot) == [status |-> "done", group |-> g, slot |-> slot]
Slots     == {NoSlot} \cup {r.slot : r \in Rows}

ASSUME RowsAssumption == Rows \subseteq [status : Statuses, group : Groups, slot : [from : Nat, to : Nat]]

Kept == {l \in Lessons : lesson[l].status \in Statuses}

Sessions == {Session(g, slot) : g \in Groups, slot \in Slots}
Desks ==
  {Idle} \cup [op : {"create"}, row : Rows, overtaken : BOOLEAN]
         \cup [op : {"update"}, id : Lessons, row : Rows, overtaken : BOOLEAN]
         \cup [op : {"topic"}, id : Lessons, row : Sessions, overtaken : BOOLEAN]
         \cup [op : {"newtopic"}, row : Sessions, overtaken : BOOLEAN]

TimetableTypeOK ==
  /\ RosterTypeOK
  /\ lesson \in [Lessons -> {NoLesson, Deleted} \cup Rows \cup Sessions]
  /\ desk \in [Handlers -> Desks]
  /\ doubled \subseteq {"raced", "revived"}

TimetableInit ==
  /\ RosterInit
  /\ lesson = [l \in Lessons |-> NoLesson]
  /\ desk = [h \in Handlers |-> Idle]
  /\ doubled = {}

Serve(h, r) ==
  /\ Ask
  /\ desk[h] = Idle
  /\ desk' = [desk EXCEPT ![h] = r]
  /\ UNCHANGED <<group, student, memberships, request, uneven, unnamed, lesson, doubled>>

(* A write of lessons overtakes the lesson requests in progress.           *)
Serves(h) ==
  desk' = [x \in Handlers |-> IF x = h \/ desk[x] = Idle THEN Idle ELSE [desk[x] EXCEPT !.overtaken = TRUE]]

-----------------------------------------------------------------------------
Overlap(a, b) == a.from < b.to /\ a.to > b.from

(* Mutant: only scheduled lessons book the room.                          *)
CountScheduledConflicts(slot, self) ==
  {l \in Kept \ self : lesson[l].status = "scheduled" /\ Overlap(lesson[l].slot, slot)}

CountRoomConflicts(slot, self) ==
  {l \in Kept \ self : lesson[l].status # "cancelled" /\ Overlap(lesson[l].slot, slot)}

CheckRoom(slot, self) == slot = NoSlot \/ CountRoomConflicts(slot, self) = {}

(* Mutant: only a session that has been held counts as the session.        *)
GetDoneLesson(g) == {l \in Kept : lesson[l].group = g /\ lesson[l].status = "done"}

(* One of them: which is the oldest is left open.                          *)
GetLessonByGroupDate(g) == {l \in Kept : lesson[l].group = g}

CreateLesson(row) ==
  \E l \in Lessons : lesson[l].status = "none" /\ lesson' = [lesson EXCEPT ![l] = row]

UpdateLesson(l, row) == lesson' = [lesson EXCEPT ![l] = IF l \in Kept THEN row ELSE @]

-----------------------------------------------------------------------------
(* The reads of Create, Update and SaveSessionTopic.                       *)
CheckCreate(h, row) ==
  /\ CheckRoom(row.slot, {})
  /\ Serve(h, [op |-> "create", row |-> row, overtaken |-> FALSE])

CheckUpdate(h, l, row) ==
  /\ CheckRoom(row.slot, {l})
  /\ Serve(h, [op |-> "update", id |-> l, row |-> row, overtaken |-> FALSE])

FindByGroupDate(h, g) ==
  IF GetLessonByGroupDate(g) = {}
  THEN Serve(h, [op |-> "newtopic", row |-> Session(g, NoSlot), overtaken |-> FALSE])
  ELSE \E l \in GetLessonByGroupDate(g) :
         Serve(h, [op |-> "topic", id |-> l, row |-> Session(g, lesson[l].slot), overtaken |-> FALSE])

(* Their writes.  The topic of a cancelled lesson makes it done, and no    *)
(* look at the room.                                                      *)
Raced(h) == doubled' = doubled \cup (IF desk[h].overtaken THEN {"raced"} ELSE {})

CreateChecked(h) ==
  /\ desk[h].op \in {"create", "newtopic"}
  /\ CreateLesson(desk[h].row)
  /\ Serves(h)
  /\ Raced(h)
  /\ UNCHANGED rosterVars

UpdateChecked(h) ==
  /\ desk[h].op = "update"
  /\ UpdateLesson(desk[h].id, desk[h].row)
  /\ Serves(h)
  /\ Raced(h)
  /\ UNCHANGED rosterVars

UpdateTopic(h) ==
  /\ desk[h].op = "topic"
  /\ UpdateLesson(desk[h].id, desk[h].row)
  /\ Serves(h)
  /\ doubled' = doubled \cup (IF desk[h].overtaken THEN {"raced"} ELSE {})
                        \cup (IF lesson[desk[h].id].status = "cancelled" THEN {"revived"} ELSE {})
  /\ UNCHANGED rosterVars

DeleteLesson(l) ==
  /\ Edit
  /\ l \in Kept
  /\ lesson' = [lesson EXCEPT ![l] = Deleted]
  /\ UNCHANGED <<group, student, memberships, request, uneven, unnamed, desk, doubled>>

RequestFails(h) ==
  /\ Fault
  /\ desk[h] # Idle
  /\ desk' = [desk EXCEPT ![h] = Idle]
  /\ UNCHANGED <<group, student, memberships, request, uneven, unnamed, lesson, doubled>>

RosterStep == RosterNext /\ UNCHANGED lessonVars

LessonStep ==
  \/ \E h \in Handlers :
       \/ \E row \in Rows : CheckCreate(h, row) \/ \E l \in Lessons : CheckUpdate(h, l, row)
       \/ \E g \in Groups : FindByGroupDate(h, g)
       \/ CreateChecked(h) \/ UpdateChecked(h) \/ UpdateTopic(h) \/ RequestFails(h)
  \/ \E l \in Lessons : DeleteLesson(l)

TimetableNext == RosterStep \/ LessonStep

TimetableSpec == TimetableInit /\ [][TimetableNext]_timetableVars

-----------------------------------------------------------------------------
(* "checkRoom rejects a lesson that double-books a room": two lessons that *)
(* are not cancelled share the room only if one was written by a request   *)
(* that another write overtook, or a topic was saved for a cancelled       *)
(* lesson.                                                                *)
RoomBookedOnce ==
  \A k, l \in Kept :
    /\ k # l /\ Overlap(lesson[k].slot, lesson[l].slot)
    /\ lesson[k].status # "cancelled" /\ lesson[l].status # "cancelled"
    => doubled # {}

(* "upserts a single lesson row per (group, date)" (SaveSessionTopic): it  *)
(* adds a lesson to a group that has one only when overtaken.              *)
TopicReusesLesson ==
  [][\A h \in Handlers :
       desk[h] # Idle /\ desk[h].op = "newtopic" /\ ~desk[h].overtaken /\ lesson' # lesson /\ desk'[h] = Idle
         => \A l \in Kept : lesson[l].group # desk[h].row.group]_timetableVars
=============================================================================
