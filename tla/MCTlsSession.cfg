\* Two servers, three clients, two kills.
SPECIFICATION Spec
CONSTANTS
  s1 = s1  s2 = s2
  c1 = c1  c2 = c2  c3 = c3
  Servers = {s1, s2}
  Clients = {c1, c2, c3}
  MaxKills = 2
SYMMETRY ProgramSymmetry
INVARIANTS
  SessionsSucceed
  EndsAgree
  NobodyWaitsForNoOne
  ServersSurvive
CHECK_DEADLOCK FALSE
