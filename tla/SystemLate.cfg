\* One report, created and reprocessed; one attempt at a time may come late.
SPECIFICATION WatchedSpec
CONSTANTS
  r1 = r1
  c1 = c1
  p1 = p1
  p2 = p2
  g1 = g1
  NoKey = NoKey
  NoReport = NoReport
  Reports = {r1}
  Keys = {}
  CreateCalls = {c1}
  ReprocessCalls = {p1}
  GetCalls = {}
  KeyOf <- MCKeyOf
  Content <- MCContent
  Activities <- MCActivities
  MaxAttempts = 2
  MaxLate = 1
  MaxForgotten = 0
INVARIANTS
  TypeOK
  ClassifiedHasRows
  SettledUnlessOvertaken
PROPERTY ReportsProgress
VIEW MCView
CHECK_DEADLOCK FALSE
