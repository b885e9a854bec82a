CONSTANTS
  reader = reader
  writer = writer
  blocking = blocking
  timed = timed
  polled = polled
  exotic = exotic
  foreign = foreign
  Threads = {reader, writer}
  Fds = {n3, n4}
  Configs = {timed, polled, exotic}
  UartConfigs = {timed, polled, exotic}
  Blocking = {}
  NonBlocking = {polled}
  Unsupported = {exotic}
  DefaultConfig = DefaultConfig
  Mixed = Mixed
  NoThread = NoThread
  NoFd = NoFd
  TxCap = 2
  Calls <- OneOwner
SPECIFICATION FairSpec
INVARIANTS DrainDelivers
PROPERTIES HolderReturns OpenRecovers
