SPECIFICATION PageSpec
CONSTANTS
  None = None
  MaxSessions = 2
  MaxClicks = 4
  MaxRestarts = 1
INVARIANTS
  SpinnersHaveCalls
  PatientUserSeesActiveSession
PROPERTY
  FormComesBack
CHECK_DEADLOCK FALSE
