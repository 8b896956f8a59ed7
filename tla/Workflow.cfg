SPECIFICATION WorkflowSpec
CONSTANTS
  r1 = r1
  NoKey = NoKey
  Reports = {r1}
  Keys = {}
  Content <- MCContent
  Activities <- MCActivities
  MaxAttempts = 3
  MaxLate = 1
  MaxForgotten = 1
PROPERTY RunCloses
CHECK_DEADLOCK FALSE
