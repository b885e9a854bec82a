CONSTANTS
  player = player
  recorder = recorder
  replay = replay
  endless = endless
  record = record
  tape = tape
  foreign = foreign
  Threads = {player, recorder}
  Configs = {endless, record, tape, foreign}
  FileConfigs = {endless, record, tape}
  Writable = {record, tape}
  Looping = {endless, tape}
  Throttled = {endless}
  DefaultConfig = DefaultConfig
  NoThread = NoThread
  Recording = 2
  DiskSize = 3
  MaxTransfer = 2
  IntHalf = 3
  Calls <- AllCalls
SPECIFICATION FairSpec
INVARIANTS TypeOK RecordingWhole LoopsBounded
PROPERTIES RecordingGrows AvailableKept LoopsEnd FileImplements FileAtomic
