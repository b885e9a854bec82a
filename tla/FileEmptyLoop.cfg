CONSTANTS
  player = player
  recorder = recorder
  replay = replay
  endless = endless
  record = record
  tape = tape
  foreign = foreign
  Threads = {player, recorder}
  Configs = {endless}
  FileConfigs = {endless}
  Writable = {}
  Looping = {endless}
  Throttled = {endless}
  DefaultConfig = DefaultConfig
  NoThread = NoThread
  Recording = 0
  DiskSize = 2
  MaxTransfer = 1
  IntHalf = 128
  Calls <- PlayAndRecord
SPECIFICATION FairSpec
PROPERTIES ReadReturns
