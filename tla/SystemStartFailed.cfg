\* The start of a reprocess run fails.
SPECIFICATION Spec
CONSTANTS
  r1 = r1
  c1 = c1
  p1 = p1
  p2 = p2
  g1 = g1
  NoKey = NoKey
  NoReport = NoReport
  Reports = {r1}
  Keys = {}
  CreateCalls = {c1}
  ReprocessCalls = {p1}
  GetCalls = {}
  KeyOf <- MCKeyOf
  Content <- MCContent
  Activities <- MCActivities
  MaxAttempts = 1
  MaxLate = 0
  MaxForgotten = 0
INVARIANTS
  StartFailedMeansUntried
CHECK_DEADLOCK FALSE
