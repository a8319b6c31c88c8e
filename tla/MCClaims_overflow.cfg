SPECIFICATION MCSpec
CONSTANTS
  NotANumber = NotANumber
  Gone = Gone
  None = None
  line = line
  Lines = {line}
  Hours = {0, 1, 2, 3}
  Rate = 2
  Amounts <- MCAmounts
  Percentages = {50, 100, 200}
  MaxMoney = 4
  MaxFloat = 400
  FileLines <- MCFileLines
  Starts <- MCStarts
  Submissions <- MCSubmissions
  Spends <- MCSpends
  MaxProjects = 21
INVARIANT
  GuardIsNeverSilent
