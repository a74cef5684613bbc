\* One client against one server: a full demo round of the five
\* calculations, one iteration of each push loop, every ask able to time
\* out, every message able to be lost and either process able to end.
CONSTANTS
  Servers = {s1}
  Clients = {c1}
  NoPeer = NoPeer
  MaxRounds = 1
  MaxPushes = 1
  MaxMag = 1000

SPECIFICATION Spec
INVARIANTS TypeOK ReplyMatchesRequest
