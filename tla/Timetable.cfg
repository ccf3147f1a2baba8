CONSTANTS
  g1 = g1
  g2 = g2
  h1 = h1
  h2 = h2
  l1 = l1
  l2 = l2
  Groups <- MCGroups
  Handlers <- MCHandlers
  Lessons <- MCLessons
  Rows <- MCRows
  MaxRequests = 3
  MaxEdits = 1
  MaxFaults = 1
SPECIFICATION TimetableSpec
SYMMETRY MCSymmetry
INVARIANTS PrimaryIsMember ShownNameExplained RoomBookedOnce
PROPERTY TopicReusesLesson
CHECK_DEADLOCK FALSE
