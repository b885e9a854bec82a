CONSTANTS
  poller = poller
  sender = sender
  ddc = ddc
  taken = taken
  foreign = foreign
  Threads = {poller, sender}
  Fds = {n3, n4}
  Configs = {ddc}
  I2cConfigs = {ddc}
  Refused = {}
  DefaultConfig = DefaultConfig
  NoThread = NoThread
  NoFd = NoFd
  MaxQueue = 1
  Byte = 2
  Word = 4
  MaxMessage = 2
  MaxTransfer = 5
  ShortTransfers = FALSE
  Calls <- Transfers
SPECIFICATION Spec
INVARIANTS CountsReal
