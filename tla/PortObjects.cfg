CONSTANTS
  Threads = {app, hal}
  Ports = {p1, p2}
  Fds = {n3, n4, n5}
  NoThread = NoThread
  NoPort = NoPort
  NoFd = NoFd
SPECIFICATION FairSpec
INVARIANTS TypeOK NoUseAfterDestruction OneOwnerPerFd NoHoldAndWait
PROPERTIES NeverClosesOthers TransferKeepsFd HalfLockedEnds
