----------------------------- MODULE MCUartPort -----------------------------
(***************************************************************************)
(* Instances of UartPort for TLC: who calls what in each run.              *)
(***************************************************************************)
EXTENDS UartPort, TLC

CONSTANTS
  reader, writer,   \* the two threads
  blocking,         \* a uart_config with read_timeout_ms = 0
  timed,            \* a uart_config with read_timeout_ms > 0
  polled,           \* a uart_config with non_blocking = true
  exotic,           \* a uart_config that the platform refuses
  foreign           \* an i_io_config of another channel type

Plain(ops) == {[op |-> op, arg |-> "none"] : op \in ops}
With(ops, args) == {[op |-> op, arg |-> a] : op \in ops, a \in args}

Transfers == With({"read", "write"}, {"some", "empty"})
Queries == Plain({"is_open", "get_config", "get_fd", "available"})

\* One thread calls every method with every argument, the other all but
\* some ways of opening.
AllCalls ==
  (reader :> Transfers \cup Queries
             \cup Plain({"close", "reconnect", "flush", "drain"})
             \cup With({"open", "reconfigure"}, Configs))
  @@
  (writer :> Transfers \cup Plain({"close", "reconnect", "drain"})
             \cup With({"reconfigure"}, {timed}))

\* One thread owns the lifecycle, the Tx queue and the drains.
OneOwner ==
  (reader :> Transfers \cup Plain({"available"}))
  @@
  (writer :> With({"write"}, {"some"})
             \cup Plain({"close", "reconnect", "flush", "drain"})
             \cup With({"open", "reconfigure"}, Configs))

\* The writer drains while the reader handles errors by reconnecting.
ReaderReconnects ==
  (reader :> With({"read"}, {"some"}) \cup Plain({"reconnect"}))
  @@
  (writer :> With({"write"}, {"some"}) \cup Plain({"drain"})
             \cup With({"open"}, Configs))

\* A reader thread and a writer thread on a port that the writer opens.
ReaderAndWriter ==
  (reader :> With({"read"}, {"some"}))
  @@
  (writer :> With({"write"}, {"some"}) \cup With({"open"}, Configs)
             \cup Plain({"drain"}))

\* Both threads open, and then retry reconnect.
RetryReconnect == [t \in Threads |-> With({"open"}, Configs) \cup Plain({"reconnect"})]

FdSymmetry == Permutations(Fds)
=============================================================================
