\* One client subscribing to one server's notification service; the
\* subscribe ask may time out.
CONSTANTS
  Servers = {s1}
  Clients = {c1}
  NoPeer = NoPeer
  MaxRounds = 0
  MaxPushes = 0
  MaxMag = 1000

SPECIFICATION Spec
INVARIANTS SubscribeTimeoutNotFatal
