SPECIFICATION Spec
CONSTANTS
  app = app
  guild = guild
  None = None
  Absent = Absent
  Project = {app, guild}
  Foundings <- OneOrTwo
  MaxVisits = 2
  MaxFlows = 1
INVARIANTS SettledPageAgrees FilesMatchProjects OnlyCheckedIsSent
PROPERTY UnshownPartsSurvive
CHECK_DEADLOCK FALSE
