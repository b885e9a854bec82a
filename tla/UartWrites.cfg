CONSTANTS
  reader = reader
  writer = writer
  blocking = blocking
  timed = timed
  polled = polled
  exotic = exotic
  foreign = foreign
  Threads = {reader, writer}
  Fds = {n3, n4}
  Configs = {blocking}
  UartConfigs = {blocking}
  Blocking = {blocking}
  NonBlocking = {}
  Unsupported = {}
  DefaultConfig = DefaultConfig
  Mixed = Mixed
  NoThread = NoThread
  NoFd = NoFd
  TxCap = 1
  Calls <- ReaderAndWriter
SPECIFICATION FairLockSpec
PROPERTIES WriteReturns
