CONSTANTS
  reader = reader
  writer = writer
  blocking = blocking
  timed = timed
  polled = polled
  exotic = exotic
  foreign = foreign
  Threads = {reader, writer}
  Fds = {n3, n4}
  Configs = {timed}
  UartConfigs = {timed}
  Blocking = {}
  NonBlocking = {}
  Unsupported = {}
  DefaultConfig = DefaultConfig
  Mixed = Mixed
  NoThread = NoThread
  NoFd = NoFd
  TxCap = 2
  Calls <- ReaderReconnects
SPECIFICATION Spec
SYMMETRY FdSymmetry
INVARIANTS DrainDelivers
