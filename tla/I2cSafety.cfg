CONSTANTS
  poller = poller
  sender = sender
  ddc = ddc
  taken = taken
  foreign = foreign
  Threads = {poller, sender}
  Fds = {n3, n4}
  Configs = {ddc, taken, foreign}
  I2cConfigs = {ddc, taken}
  Refused = {taken}
  DefaultConfig = DefaultConfig
  NoThread = NoThread
  NoFd = NoFd
  MaxQueue = 3
  Byte = 2
  Word = 4
  MaxMessage = 2
  MaxTransfer = 5
  ShortTransfers = TRUE
  Calls <- AllCalls
SPECIFICATION FairSpec
INVARIANTS TypeOK DescriptorOwned FetchesSelected
PROPERTIES AvailableKept ReconnectRecovers I2cImplements
