\* Two clients register their handler under "client_handler"; the server's
\* push loops look the name up once per iteration.
CONSTANTS
  Servers = {s1}
  Clients = {c1, c2}
  NoPeer = NoPeer
  MaxRounds = 0
  MaxPushes = 1
  MaxMag = 1000

SPECIFICATION Spec
PROPERTIES PushReachesEveryHandler
