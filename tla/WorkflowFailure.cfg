SPECIFICATION WorkflowSpec
CONSTANTS
  r1 = r1
  NoKey = NoKey
  Reports = {r1}
  Keys = {}
  Content <- MCContent
  Activities <- MCActivities
  MaxAttempts = 3
  MaxLate = 0
  MaxForgotten = 0
INVARIANT FinalFailureLeavesFailed
CHECK_DEADLOCK FALSE
