CONSTANTS
  reader = reader
  writer = writer
  blocking = blocking
  timed = timed
  polled = polled
  exotic = exotic
  foreign = foreign
  Threads = {reader, writer}
  Fds = {n3, n4}
  Configs = {blocking, polled, exotic, foreign, timed}
  UartConfigs = {blocking, polled, exotic, timed}
  Blocking = {blocking, exotic}
  NonBlocking = {polled}
  Unsupported = {exotic}
  DefaultConfig = DefaultConfig
  Mixed = Mixed
  NoThread = NoThread
  NoFd = NoFd
  TxCap = 1
  Calls <- AllCalls
SPECIFICATION Spec
SYMMETRY FdSymmetry
INVARIANTS TypeOK DescriptorOwned OpenMeansApplied FreshRx
PROPERTIES NeverClosesOthers InFlightStable UartImplements BytesAccounted
