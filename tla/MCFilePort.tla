----------------------------- MODULE MCFilePort -----------------------------
(***************************************************************************)
(* Instances of FilePort for TLC: who calls what in each run.              *)
(***************************************************************************)
EXTENDS FilePort, TLC

CONSTANTS
  player, recorder,  \* the two threads
  replay,            \* file_config::replay(path)
  endless,           \* file_config::replay(path, true, throttle_us > 0)
  record,            \* file_config::record(path)
  tape,              \* file_config::custom(path, ...): writable, loop
  foreign            \* an i_io_config of another channel type

Plain(ops) == {[op |-> op, cfg |-> DefaultConfig, len |-> 0] : op \in ops}
With(ops, cfgs) == {[op |-> op, cfg |-> c, len |-> 0] : op \in ops, c \in cfgs}
Move(ops, lens) == {[op |-> op, cfg |-> DefaultConfig, len |-> n] : op \in ops, n \in lens}

\* Every method is called, reads and writes by both threads.
AllCalls ==
  (player :> Move({"read"}, {0, MaxTransfer}) \cup Move({"write"}, {MaxTransfer})
             \cup With({"open"}, FileConfigs) \cup Plain({"reconnect", "available"}))
  @@
  (recorder :> Move({"write"}, {MaxTransfer}) \cup Move({"read"}, {1})
               \cup With({"reconfigure"}, {foreign})
               \cup Plain({"close", "is_open", "flush"}))

\* One thread opens and reads, the other one writes.
PlayAndRecord ==
  (player :> Move({"read"}, 0..MaxTransfer) \cup With({"open"}, Configs) \cup Plain({"available"}))
  @@
  (recorder :> Move({"write"}, 0..MaxTransfer) \cup Plain({"reconnect"}))
=============================================================================
