SPECIFICATION ApiSpec
CONSTANTS
  r1 = r1
  r2 = r2
  r3 = r3
  k1 = k1
  c1 = c1
  c2 = c2
  c3 = c3
  p1 = p1
  NoKey = NoKey
  NoReport = NoReport
  Reports = {r1, r2, r3}
  Keys = {k1}
  CreateCalls = {c1, c2, c3}
  ReprocessCalls = {p1}
  GetCalls = {}
  KeyOf <- MCKeyOf
  Activities = {"load"}
  MaxAttempts = 1
  MaxLate = 0
SYMMETRY Symmetry
INVARIANTS
  KeyedAnswersAgree
  RunsAreAccountedFor
PROPERTY KeyedCreates
CHECK_DEADLOCK FALSE
