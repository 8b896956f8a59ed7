\* A GET reads while the report is triaged and reprocessed; the duplicate window moves on.
SPECIFICATION Spec
CONSTANTS
  r1 = r1
  c1 = c1
  p1 = p1
  p2 = p2
  g1 = g1
  NoKey = NoKey
  NoReport = NoReport
  Reports = {r1}
  Keys = {}
  CreateCalls = {c1}
  ReprocessCalls = {p1}
  GetCalls = {g1}
  KeyOf <- MCKeyOf
  Content <- MCContent
  Activities <- MCActivities
  MaxAttempts = 2
  MaxLate = 0
  MaxForgotten = 1
INVARIANTS
  GetNeverBlank
  EventsFollowRows
CHECK_DEADLOCK FALSE
