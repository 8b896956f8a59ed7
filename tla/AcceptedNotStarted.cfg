SPECIFICATION ApiSpec
CONSTANTS
  r1 = r1
  r2 = r2
  r3 = r3
  k1 = k1
  c1 = c1
  c2 = c2
  c3 = c3
  p1 = p1
  NoKey = NoKey
  NoReport = NoReport
  Reports = {r1}
  Keys = {k1}
  CreateCalls = {c1, c2}
  ReprocessCalls = {}
  GetCalls = {}
  KeyOf <- MCKeyOf
  Activities = {"load"}
  MaxAttempts = 1
  MaxLate = 0
SYMMETRY Symmetry
INVARIANTS
  AcceptedMeansStarted
CHECK_DEADLOCK FALSE
