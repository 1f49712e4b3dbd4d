\* The same programs, scheduled fairly, with two clients: everybody ends.
SPECIFICATION FairSpec
CONSTANTS
  s1 = s1  s2 = s2
  c1 = c1  c2 = c2  c3 = c3
  Servers = {s1, s2}
  Clients = {c1, c2}
  MaxKills = 1
CHECK_DEADLOCK FALSE
PROPERTIES
  ClientsEnd
  ServersEnd
