----------------------------- MODULE MCI2cPort ------------------------------
(***************************************************************************)
(* Instances of I2cPort for TLC: who calls what in each run.               *)
(***************************************************************************)
EXTENDS I2cPort, TLC

CONSTANTS
  poller, sender,  \* the two threads
  ddc,             \* i2c_config::ddc_default(dev)
  taken,           \* an i2c_config whose address a kernel driver has taken
  foreign          \* an i_io_config of another channel type

Plain(ops) == {[op |-> op, cfg |-> DefaultConfig, len |-> 0] : op \in ops}
With(ops, cfgs) == {[op |-> op, cfg |-> c, len |-> 0] : op \in ops, c \in cfgs}
Move(ops, lens) == {[op |-> op, cfg |-> DefaultConfig, len |-> n] : op \in ops, n \in lens}

\* Every method is called.  Of the lengths, 3 and 5 wrap in __u16: the one
\* to an empty frame, the other to a transfer of one byte.
AllCalls ==
  (poller :> Move({"read"}, {0, 2, 5}) \cup With({"open"}, {ddc, foreign})
             \cup Plain({"available", "reconnect", "get_fd"}))
  @@
  (sender :> Move({"write"}, {0, 1, 3}) \cup Move({"read"}, {1})
             \cup With({"reconfigure"}, {taken, foreign})
             \cup Plain({"close", "is_open", "flush"}))

\* One thread opens, reads and writes.
Transfers ==
  [t \in Threads |->
     Move({"read", "write"}, 1..MaxTransfer) \cup With({"open"}, Configs)]
=============================================================================
