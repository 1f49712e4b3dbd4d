\* Two generations, two servers, a client, two kills.
SPECIFICATION ServiceSpec
CONSTANTS
  g1 = g1  g2 = g2
  s1 = s1  s2 = s2
  c1 = c1
  Generators = {g1, g2}
  Servers = {s1, s2}
  Clients = {c1}
  MaxKills = 2
SYMMETRY ProgramSymmetry
INVARIANTS
  LoadedPairMatches
  CalmServerLoads
  ShownIsServers
PROPERTY ImplementsService
CHECK_DEADLOCK FALSE
