CONSTANTS
  b9600 = b9600
  b115200 = b115200
  b4000000 = b4000000
  Bauds = {b9600, b115200, b4000000}
  Speeds = {b9600, b115200}
  NoConfig = NoConfig
  Configs <- SomeConfigs
  Foreign <- SomeForeign
SPECIFICATION Spec
INVARIANTS TypeOK  TimeoutFollowsConfig
