SPECIFICATION FairSpec
CONSTANTS
  Daemon = {d1, d2}
  Starter = {s1}
  Client = {c1}
  NoDaemon = NoDaemon
INVARIANTS
  TypeOK
  OneServes
  ServingIsReachable
  AcceptedIsAnswered
PROPERTIES
  ShutdownEnds
