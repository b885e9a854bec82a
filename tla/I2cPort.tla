------------------------------ MODULE I2cPort -------------------------------
(***************************************************************************)
(* One i2c_port object (src/i2c/i2c_port.cpp) shared by several threads,   *)
(* the receiver behind it and the other users of the bus.                  *)
(*                                                                         *)
(* A read of the receiver is a combined transaction: message 0 selects one *)
(* of its registers, message 1 fetches from the selected register, and the *)
(* bus is held in between.  The bytes of the data stream are counted, not  *)
(* told apart; past the last one the receiver sends filler bytes.          *)
(***************************************************************************)
EXTENDS Naturals

CONSTANTS
  Threads,       \* callers of the port
  Fds,           \* descriptor numbers of the process
  Configs,       \* i_io_config objects that callers pass to the port
  I2cConfigs,    \* those with channel_type() = io_channel_type::i2c
  Refused,       \* those whose address the I2C_SLAVE ioctl refuses
  DefaultConfig, \* config_ as default-constructed: its empty path cannot be opened
  NoThread,      \* the mutex, the bus is free
  NoFd,          \* fd_ = -1
  MaxQueue,      \* bound: bytes that wait in the receiver
  Byte,          \* values of a byte: the base of the receiver's byte count
  Word,          \* values of __u16, the type of i2c_msg::len
  MaxMessage,    \* longest message the kernel accepts (8192 bytes)
  MaxTransfer,   \* bound: longest buffer of a read or a write
  ShortTransfers,\* does the adapter report fewer messages than it was given?
  Calls          \* [thread -> set of calls the thread may make]

Lifecycle == {"open", "close", "reconnect", "reconfigure"}

Ops == Lifecycle \cup {"is_open", "flush", "get_fd", "available", "read", "write"}

\* cfg: the argument of open and reconfigure; len: the length of a transfer.
CallSet == [op : Ops, cfg : Configs \cup {DefaultConfig}, len : 0..MaxTransfer]

NoCall == [op |-> "none", cfg |-> DefaultConfig, len |-> 0]

ASSUME I2cAssumption ==
  /\ I2cConfigs \subseteq Configs
  /\ Refused \subseteq I2cConfigs
  /\ DefaultConfig \notin Configs
  /\ NoThread \notin Threads
  /\ NoFd \notin Fds
  /\ MaxQueue \in Nat /\ MaxTransfer \in Nat /\ MaxMessage \in Nat
  /\ Byte \in Nat \ {0} /\ Word \in Nat \ {0}
  /\ MaxQueue < Word  \* the receiver counts in two bytes, as wide as __u16
  /\ ShortTransfers \in BOOLEAN
  /\ Calls \in [Threads -> SUBSET CallSet]

VARIABLES
  pc,       \* where each thread is: outside, called, or between two messages
  call,     \* the call each thread is making, or made last
  ret,      \* what that call returned or threw
  count,    \* the number it returned
  moved,    \* bytes its transfer moved between its buffer and the receiver
  mutex,    \* holder of mutex_
  fd,       \* fd_
  config,   \* config_
  held,     \* the process's descriptors on the adapter
  present,  \* the adapter is there
  bus,      \* holder of the bus between two messages
  reg,      \* the register the receiver has selected
  queue,    \* bytes that wait in the receiver
  promised  \* history: what available() counted for each thread, until
            \* somebody takes bytes or opens or closes the port

client == <<pc, call, ret, count, moved>>
port   == <<fd, config, held>>
device == <<bus, reg, queue>>
vars   == <<client, mutex, port, present, device, promised>>

Results == {"none", "true", "false", "done", "count", "minus1",
            "open_error", "config_error", "read_error", "write_error"}

\* I2C_DDC_REG_BYTES_AVAIL_MSB, _DATA_STREAM and _DATA_WRITE.
Registers == {"count", "stream", "write"}

TypeOK ==
  /\ pc \in [Threads -> {"idle", "called", "fetching"}]
  /\ call \in [Threads -> CallSet \cup {NoCall}]
  /\ ret \in [Threads -> Results]
  /\ count \in [Threads -> Nat]
  /\ moved \in [Threads -> Nat]
  /\ mutex \in Threads \cup {NoThread}
  /\ fd \in Fds \cup {NoFd}
  /\ config \in I2cConfigs \cup {DefaultConfig}
  /\ held \subseteq Fds
  /\ present \in BOOLEAN
  /\ bus \in Threads \cup {NoThread}
  /\ reg \in Registers
  /\ queue \in 0..MaxQueue
  /\ promised \in [Threads -> Nat]

Init ==
  /\ pc = [t \in Threads |-> "idle"]
  /\ call = [t \in Threads |-> NoCall]
  /\ ret = [t \in Threads |-> "none"]
  /\ count = [t \in Threads |-> 0]
  /\ moved = [t \in Threads |-> 0]
  /\ mutex = NoThread
  /\ fd = NoFd
  /\ config = DefaultConfig
  /\ held = {}
  /\ present = TRUE
  /\ bus = NoThread
  /\ reg = "stream"
  /\ queue = 0
  /\ promised = [t \in Threads |-> 0]

-----------------------------------------------------------------------------
(* Calls and the mutex.                                                    *)

Invoke(t) ==
  /\ pc[t] = "idle"
  /\ \E c \in Calls[t] : call' = [call EXCEPT ![t] = c]
  /\ pc' = [pc EXCEPT ![t] = "called"]
  /\ ret' = [ret EXCEPT ![t] = "none"]
  /\ count' = [count EXCEPT ![t] = 0]
  /\ moved' = [moved EXCEPT ![t] = 0]
  /\ UNCHANGED <<mutex, port, present, device, promised>>

Calling(t, op) == pc[t] = "called" /\ call[t].op = op

\* std::lock_guard<std::mutex> lock(mutex_) in method op.
Locked(t, op) == Calling(t, op) /\ mutex = NoThread

\* The method returns or throws; n is the number it returns, m what it moved.
Leave(t, r, n, m) ==
  /\ pc' = [pc EXCEPT ![t] = "idle"]
  /\ ret' = [ret EXCEPT ![t] = r]
  /\ count' = [count EXCEPT ![t] = n]
  /\ moved' = [moved EXCEPT ![t] = m]
  /\ UNCHANGED call

\* The same, and the lock_guard releases mutex_.
Return(t, r, n, m) == Leave(t, r, n, m) /\ mutex' = NoThread

NothingPromised == promised' = [t \in Threads |-> 0]

-----------------------------------------------------------------------------
(* Lifecycle.                                                              *)

\* The descriptors left after close_locked.
Others == held \ {fd}

\* Mutant: no check of the channel type.
CanOpenUntyped(c) == c \in Configs \ Refused /\ present /\ Fds # Others

\* ::open and the I2C_SLAVE ioctl succeed.
CanOpen(c) == c \in I2cConfigs \ Refused /\ present /\ Fds # Others

\* What open_locked throws otherwise.
OpenError(c) ==
  IF c \in Configs \ I2cConfigs \/ (c \in Refused /\ present /\ Fds # Others)
  THEN "config_error" ELSE "open_error"

\* Mutant: the failing I2C_SLAVE ioctl forgets ::close(new_fd).
OpenLockedLeaks(t, c) ==
  \/ /\ CanOpen(c)
     /\ \E n \in Fds \ Others : fd' = n /\ held' = Others \cup {n}
     /\ config' = c
     /\ Return(t, "true", 0, 0)
  \/ /\ ~CanOpen(c)
     /\ fd' = NoFd
     /\ IF c \in Refused /\ present /\ Fds # Others
        THEN \E n \in Fds \ Others : held' = Others \cup {n}
        ELSE held' = Others
     /\ Return(t, OpenError(c), 0, 0)
     /\ UNCHANGED config

\* Mutant: config_ is assigned before the address is accepted.
OpenLockedEarly(t, c) ==
  /\ config' = IF c \in I2cConfigs THEN c ELSE config
  /\ \/ /\ CanOpen(c)
        /\ \E n \in Fds \ Others : fd' = n /\ held' = Others \cup {n}
        /\ Return(t, "true", 0, 0)
     \/ /\ ~CanOpen(c)
        /\ fd' = NoFd /\ held' = Others
        /\ Return(t, OpenError(c), 0, 0)

\* open_locked(c) after close_locked: fd_ and config_ are assigned when the
\* adapter is open and the receiver's address accepted, and only then.
OpenLocked(t, c) ==
  \/ /\ CanOpen(c)
     /\ \E n \in Fds \ Others : fd' = n /\ held' = Others \cup {n}
     /\ config' = c
     /\ Return(t, "true", 0, 0)
  \/ /\ ~CanOpen(c)
     /\ fd' = NoFd /\ held' = Others
     /\ Return(t, OpenError(c), 0, 0)
     /\ UNCHANGED config

\* open and reconfigure: the port is closed before the channel type is checked.
Open(t) ==
  /\ Locked(t, "open") \/ Locked(t, "reconfigure")
  /\ OpenLocked(t, call[t].cfg)
  /\ NothingPromised
  /\ UNCHANGED <<present, device>>

\* Mutant: a closed port is not reopened.
ReconnectOpenOnly(t) ==
  /\ Locked(t, "reconnect")
  /\ \/ fd # NoFd /\ OpenLocked(t, config)
     \/ fd = NoFd /\ Return(t, "false", 0, 0) /\ UNCHANGED port
  /\ NothingPromised
  /\ UNCHANGED <<present, device>>

\* reconnect does not ask whether the port is open.
Reconnect(t) ==
  /\ Locked(t, "reconnect")
  /\ OpenLocked(t, config)
  /\ NothingPromised
  /\ UNCHANGED <<present, device>>

Close(t) ==
  /\ Locked(t, "close")
  /\ fd' = NoFd /\ held' = Others
  /\ NothingPromised
  /\ Return(t, "done", 0, 0)
  /\ UNCHANGED <<config, present, device>>

-----------------------------------------------------------------------------
(* Queries.                                                                *)

Quiet == UNCHANGED <<port, present, device, promised>>

IsOpen(t) ==
  /\ Locked(t, "is_open")
  /\ Return(t, IF fd # NoFd THEN "true" ELSE "false", 0, 0)
  /\ Quiet

\* flush and drain answer without a lock and without a look at the port.
Flush(t) == Calling(t, "flush") /\ Leave(t, "true", 0, 0) /\ UNCHANGED mutex /\ Quiet

\* An i2c-dev descriptor cannot be polled.
GetFd(t) == Calling(t, "get_fd") /\ Leave(t, "minus1", 0, 0) /\ UNCHANGED mutex /\ Quiet

-----------------------------------------------------------------------------
(* Transfers.                                                              *)

\* A transfer of no bytes returns before it takes the lock.
NoTransfer(t) ==
  /\ Calling(t, "read") \/ Calling(t, "write")
  /\ call[t].len = 0
  /\ Leave(t, "count", 0, 0)
  /\ UNCHANGED mutex
  /\ Quiet

\* What a read method makes of rdwr_locked's -1, and of a closed port.
ReadError(t) == IF call[t].op = "available" THEN "minus1" ELSE "read_error"

\* static_cast<__u16>: the length of a message.
MessageLen(n) == n % Word

\* read and available on a closed port; or the ioctl fails before message 0.
ReadFails(t) ==
  /\ Locked(t, "available") \/ (Locked(t, "read") /\ call[t].len > 0)
  /\ Return(t, ReadError(t), 0, 0)
  /\ Quiet

\* The ioctl can start: the kernel accepts the length of message 1.
Accepted(t) ==
  /\ fd # NoFd /\ present
  /\ \/ Locked(t, "available")
     \/ Locked(t, "read") /\ call[t].len > 0 /\ MessageLen(call[t].len) <= MaxMessage

\* Mutant: two ioctls, the bus is free between the messages.
SelectReleases(t) ==
  /\ Accepted(t)
  /\ reg' = IF call[t].op = "read" THEN "stream" ELSE "count"
  /\ pc' = [pc EXCEPT ![t] = "fetching"]
  /\ mutex' = t
  /\ UNCHANGED <<call, ret, count, moved, port, present, bus, queue, promised>>

\* I2C_RDWR, message 0: the receiver selects the register.
Select(t) ==
  /\ Accepted(t)
  /\ bus = NoThread /\ bus' = t
  /\ reg' = IF call[t].op = "read" THEN "stream" ELSE "count"
  /\ pc' = [pc EXCEPT ![t] = "fetching"]
  /\ mutex' = t
  /\ UNCHANGED <<call, ret, count, moved, port, present, queue, promised>>

\* Mutant: the bytes are taken in the order of a little-endian machine.
JoinedSwapped(msb, lsb) == lsb * Byte + msb

\* The two bytes of the count, most significant first, as available() joins
\* them.
Joined(msb, lsb) == msb * Byte + lsb

\* Message 1 of available.
FetchCount(t) ==
  /\ pc[t] = "fetching" /\ call[t].op = "available"
  /\ LET n == Joined(queue \div Byte, queue % Byte) IN
       /\ Return(t, "count", n, 2)
       /\ promised' = [promised EXCEPT ![t] = n]
  /\ bus' = NoThread
  /\ UNCHANGED <<port, present, reg, queue>>

\* Message 1 of a read: bytes of the stream while there are any, then filler.
\* rdwr_locked returns the length it was given.
FetchStream(t) ==
  /\ pc[t] = "fetching" /\ call[t].op = "read"
  /\ LET n == MessageLen(call[t].len) IN
       /\ queue' = IF n < queue THEN queue - n ELSE 0
       /\ Return(t, "count", call[t].len, n)
  /\ NothingPromised
  /\ bus' = NoThread
  /\ UNCHANGED <<port, present, reg>>

\* ioctl fails between the messages, or with part of the stream
\* already clocked out of the receiver.
BusFails(t) ==
  /\ pc[t] = "fetching" /\ Return(t, ReadError(t), 0, 0)
  /\ \/ UNCHANGED <<queue, promised>>
     \/ /\ call[t].op = "read" /\ queue > 0
        /\ queue' \in 0..(queue - 1)
        /\ NothingPromised
  /\ bus' = NoThread
  /\ UNCHANGED <<port, present, reg>>

\* ioctl returns 1: message 0 alone was transferred.  A result that is not
\* negative is taken for success; the buffer of available() holds zeros.
ShortTransfer(t) ==
  /\ ShortTransfers
  /\ pc[t] = "fetching"
  /\ Return(t, "count", IF call[t].op = "read" THEN call[t].len ELSE 0, 0)
  /\ bus' = NoThread
  /\ UNCHANGED <<port, present, reg, queue, promised>>

\* One message: the write register, then the payload.
WriteFrame(t) ==
  /\ Locked(t, "write") /\ call[t].len > 0
  /\ LET n == MessageLen(call[t].len + 1) IN
       \/ /\ fd # NoFd /\ present /\ bus = NoThread /\ n <= MaxMessage
          /\ reg' = IF n > 0 THEN "write" ELSE reg
          /\ Return(t, "count", call[t].len, IF n > 0 THEN n - 1 ELSE 0)
       \/ Return(t, "write_error", 0, 0) /\ UNCHANGED reg
  /\ UNCHANGED <<port, present, bus, queue, promised>>

-----------------------------------------------------------------------------
(* The receiver, the adapter and the other users of the bus.               *)

DeviceProduces ==
  /\ queue < MaxQueue
  /\ queue' = queue + 1
  /\ UNCHANGED <<client, mutex, port, present, bus, reg, promised>>

\* Another process talks to the receiver through the same adapter.
OtherMaster ==
  /\ present /\ bus = NoThread
  /\ \/ reg' \in {"count", "write"} /\ UNCHANGED <<queue, promised>>
     \/ reg' = "stream" /\ queue' \in 0..queue /\ NothingPromised
  /\ UNCHANGED <<client, mutex, port, present, bus>>

\* The adapter goes and comes back.
AdapterGone == present /\ present' = FALSE /\ UNCHANGED <<client, mutex, port, device, promised>>

AdapterBack == ~present /\ present' = TRUE /\ UNCHANGED <<client, mutex, port, device, promised>>

-----------------------------------------------------------------------------
TakesLock(t) ==
  \/ Open(t) \/ Reconnect(t) \/ Close(t) \/ IsOpen(t) \/ ReadFails(t)
  \/ Select(t) \/ WriteFrame(t)

Continues(t) ==
  \/ Flush(t) \/ GetFd(t) \/ NoTransfer(t) \/ FetchCount(t) \/ FetchStream(t)
  \/ BusFails(t)

ThreadStep(t) == Invoke(t) \/ TakesLock(t) \/ Continues(t) \/ ShortTransfer(t)

Environment == DeviceProduces \/ OtherMaster \/ AdapterGone \/ AdapterBack

Next == (\E t \in Threads : ThreadStep(t)) \/ Environment

Spec == Init /\ [][Next]_vars

-----------------------------------------------------------------------------
(* Safety.                                                                 *)

\* The process holds the descriptor that fd_ names and no other: no failing
\* open, reconfigure or reconnect leaks one (open_locked, close_locked).
DescriptorOwned == held = IF fd = NoFd THEN {} ELSE {fd}

\* A fetch takes its bytes from the register that its own message 0 selected,
\* whoever else talks to the receiver through the adapter (rdwr_locked).
FetchesSelected ==
  \A t \in Threads :
    pc[t] = "fetching" => reg = IF call[t].op = "read" THEN "stream" ELSE "count"

\* A read of no more bytes than available() counted for the thread gets bytes
\* of the stream and no filler, unless somebody else took them, or the adapter
\* cut the transfer short.
AvailableKept ==
  [][\A t \in Threads :
       /\ pc[t] = "fetching" /\ call[t].op = "read" /\ call[t].len <= promised[t]
       /\ ret'[t] = "count" /\ moved'[t] > 0
       => queue' + call[t].len = queue]_vars

\* A read or a write returns the number of bytes it moved
\* (rdwr_locked, write_bytes).
CountsReal ==
  \A t \in Threads :
    ret[t] = "count" /\ call[t].op \in {"read", "write"} => count[t] = moved[t]

-----------------------------------------------------------------------------
(* Liveness: a thread inside the library runs on, and a free mutex is taken. *)

FairSpec == Spec /\ \A t \in Threads : WF_vars(TakesLock(t)) /\ WF_vars(Continues(t))

\* A thread that calls reconnect again and again.
RetriesReconnect(t) == []<><<Invoke(t) /\ call'[t].op = "reconnect">>_vars

\* When the port was open once and the adapter stays at last, retrying
\* reconnect() brings the port back, whatever failed in between and whatever
\* configurations the other threads tried.
ReconnectRecovers ==
  /\ <>(config # DefaultConfig)
  /\ <>[]present
  /\ \E t \in Threads : RetriesReconnect(t)
  => []<>(fd # NoFd)

-----------------------------------------------------------------------------
(* The contract of i_io_port.                                              *)

NoQuestion == [op |-> "none", cfg |-> DefaultConfig]

Question(c) ==
  [op  |-> IF c.op \in {"read", "write"} /\ c.len = 0 THEN "nothing" ELSE c.op,
   cfg |-> c.cfg]

Errors == {"open_error", "config_error", "read_error", "write_error"}

AnswerTo(r) == IF r = "none" THEN "pending" ELSE IF r \in Errors THEN "error" ELSE r

Contract ==
  INSTANCE IoPort WITH
    Unset <- DefaultConfig, Nobody <- NoThread, Exempt <- {"flush"},
    open <- fd # NoFd, changer <- NoThread, applied <- config,
    asked <- [t \in Threads |-> IF pc[t] = "idle" THEN NoQuestion ELSE Question(call[t])],
    answer <- [t \in Threads |-> AnswerTo(ret[t])]

\* The port keeps the contract: its calls take effect one at a time, a failed
\* open leaves the configuration, reconnect restores it, and every answer
\* about the port is true when it is given.  The exception is flush and drain:
\* they return true of a port that is not open, too (i2c_port.cpp:99-109),
\* where i_io_port.h:106 and 117 promise false.
I2cImplements == Contract!Spec

=============================================================================
