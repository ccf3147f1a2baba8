SPECIFICATION FairSpec
CONSTANTS
  Students = {s1, s2}
  Workers = {w1, w2}
  Daily = Daily
  Dates <- MCOneDate
  HomeworkDates <- MCOneDate
  MaxWeek = 2
  Answers <- MCAnswers
  Confidences <- MCLow
  CanFail = TRUE
  MaxRequests = 2
  MaxResolved = 2
INVARIANTS
  StoredRiskExact
  OneOpenTask
  DeletedLeavesNothing
PROPERTIES
  RedOpensTask
  ResolvedIsFinal
  EventuallyRepaired
