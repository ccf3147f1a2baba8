SPECIFICATION ProfileSpec
CONSTANTS
  Dates <- MCDates
  HomeworkDates <- MCHomeworkDates
  MaxWeek = 2
  SurveyAnswers <- MCAnswers
  Levels <- MCLevels
  Pasts <- MCPasts
PROPERTIES
  SignalsMonotone
  LatestCheckinDecides
