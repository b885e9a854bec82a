# A TLA+ model of the serial_helper I/O library

The library gives an application one interface, `i_io_port`, to a serial line
(`uart_port`), a file used for record and replay (`file_port`) and an I2C bus
(`i2c_port`).  A factory constructs the ports and `io_channel_wrapper`
forwards to one of them.  The library promises that a port may be used from
several threads, that it survives the loss of its device, and that a caller
can rely on what a call returned.  These promises are what this directory
states, model-checks with TLC and, where it can be done for every instance,
proves with TLAPS.

    tlc -workers 2 -config UartSafety.cfg MCUartPort     # one run
    tlapm UartPortProofs.tla                             # one proof module

`PROJECT.json` lists every run, the lines of source behind every definition,
and a mutant (a plausible bug in the code) that breaks each property that
holds.  The mutants stand in the modules, in front of the definition they
change.

## 1. The system

| Component | State | Operations | Hard behaviour | Correct when |
|---|---|---|---|---|
| `uart_port` (src/uart) | `fd_`, `config_`, `mutex_`; in the kernel the tty's settings and its two queues | open, close, reconnect, reconfigure, flush, drain, available, 5 reads, 5 writes, 3 queries; move construction, move assignment, destruction | calls that block with the mutex held, hang-up, failing steps of an open, reuse of descriptor numbers, two mutexes at once | a descriptor has one owner, the port whose `fd_` names it; an open port has the settings it says; a call in flight is not disturbed; calls return; a retry recovers |
| termios settings (`apply_termios_config`) | none of its own; the tty's settings outlive the port | configuration and old settings to new settings | 8-bit wrap, flags that are not cleared, other programs | the line frames, handshakes and times out as the configuration says, whatever was there |
| `file_port` (src/file) | `fd_`, `config_`, `mutex_`; the file and the one offset of the descriptor | as `uart_port`, without moves | loops over short reads and writes, wrap at the end of the file, errors half-way, narrowing of counts | a recording keeps every byte and its order; a read returns; `available()` tells the truth |
| `i2c_port` (src/i2c) | `fd_`, `config_`, `mutex_`; the receiver's selected register and its queue | as `file_port` | counts narrowed to 16 bits, select and fetch in one transaction, count and data in two, return codes, other users of the bus | returned bytes are the receiver's bytes; a failed open changes nothing; a retry recovers |
| `io_channel_wrapper` | weak reference to a port | forwards each call, shutdown | the port dies between or during calls; check and act in separate steps; references that outlive the port | a call either reaches a live port or says that there is none |
| `io_port_factory` | none | create | none | the port of the requested type |
| `i_io_port`, `i_io_reader`, `i_io_writer` | none (interface) | the contract that the application relies on | calls of several threads | the ports implement it |
| exceptions, configurations, presets | none | | | |

Interaction: the application calls the wrapper, the wrapper locks its weak
reference and calls the port, the port takes its own mutex for the whole body
of the method and makes its system calls with the mutex held.  Nothing else is
shared between threads but what a caller took out of a port: the reference that
`get_config` returns and the number that `get_fd` returns, which callers and
external pollers use without the lock.  There are no callbacks and the library starts
no thread.

The hazards that follow from this, each at its line, are the `hazards` of
`PROJECT.json`, with the properties that watch them or the reason why none
does.

## 2. The modules

| Module | What it is | Instances | Theorems |
|---|---|---|---|
| `IoPort` | the contract of `i_io_port`: an abstract port | | |
| `UartPort` | one `uart_port`, its callers, the tty, the descriptor table, the device; implements `IoPort` | `MCUartPort` | `UartPortProofs` |
| `FilePort` | one `file_port`, its callers, the file and its offset; implements `IoPort` and `AtomicFile` | `MCFilePort` | `FilePortProofs` |
| `AtomicFile` | what the callers of a `file_port` get of the bytes: each call is one step on the file | (through `FilePort`) | `AtomicFileProofs` |
| `I2cPort` | one `i2c_port`, its callers, the receiver, the bus; implements `IoPort` | `MCI2cPort` | `I2cPortProofs` |
| `PortObjects` | several `uart_port` objects, who keeps them, wrappers that call them, moves between them | `MCPortObjects` | `PortObjectsProofs` |
| `Termios` | `apply_termios_config` on a tty that others set too | `MCTermios` | `TermiosProofs` |

They meet at four seams.  `UartPort`, `FilePort` and `I2cPort` each contain
`Contract`, an instance of `IoPort` with a refinement mapping, so that what is
said of a port through its interface holds of all three.  `FilePort` contains
`Atomic`, an instance of `AtomicFile`, which says of the bytes what the
contract leaves open.  `PortObjects` reduces
the methods of a `uart_port` to what they do to its mutex and its descriptor,
which is what `UartPort` has them do.  `UartPort!TermiosApplied` puts a
configuration in effect in one step, with `TermiosFailed` beside it; `Termios`
opens that step up.

### UartPort

*State.*  `fd`, `config` and `mutex` are the members of the class.  `pc`,
`call` and `ret` say for every thread where it is, what it called and what it
got back.  `fdTable` is the process's descriptor table: a number is free, on
the tty, on a tty that has hung up, or another component's.  `line` is the
termios configuration that the tty has; `rx` keeps, of the unread bytes, only
the settings under which they arrived, and `tx`, of the unsent ones, only which
threads wrote them, which is all that the properties tell apart.  `plugged` is
the device.  `applied` and `lost` are history: the last configuration that an
open reported as applied, and whose bytes were thrown away by somebody else.

*Actions.*  A method body that neither blocks nor can be observed half-way is
one action (`Close`, `Flush`, `Available`, ...).  The others are cut where the
code can wait or be seen, with the mutex held across the cut:

| Code | Actions |
|---|---|
| `open`, `reconnect`, `reconfigure` up to the call of `open_locked` | `Open`, `Reconnect`, `Reconfigure` (each with its own check, in its own order, and `CloseLocked`) |
| `open_locked`: `::open` | `OpenDevice` |
| `config_ = ucfg`, an assignment of several members | `OpenDevice` begins it (`Mixed`), `AssignConfig` ends it |
| `apply_termios_config`, and the catch block | `TermiosApplied`, `TermiosFailed` |
| the reads | `Read`, then `ReadData`, `ReadNothing`, `ReadHangup` or `Interrupted` |
| the writes | `Write`, then `WriteData`, `WriteFails` or `Interrupted` |
| `drain` | `Drain`, then `DrainEnds` or `Interrupted` |
| `get_config` and the use of the reference it returns | `GetConfig`, `ReadConfigRef` |

`close_locked` flushes both queues before it closes, and `reconnect` on a
closed port returns false: both are in the model because both matter below.
The five reads have the same control and differ in the buffer type; so have
the five writes.

The device and the kernel are actions too: bytes arrive (`DeviceSends`) and go
out (`Transmit`), the device is unplugged and comes back, and another
component opens and closes descriptors, so that a number the port had may come
to mean something else.

### FilePort

*State.*  The members, `pc`, `call`, `ret` as above; `count` is the `total` of a read loop, or
what has been written, and after the call the number it returned.  `file` is
the content: of a byte it keeps who wrote it and its place in the buffer of
that write.  `offset` is the descriptor's only file offset.  Three variables are
history, which no guard reads.  `promised`: who got a positive count from
`available()`, while nothing has happened since that would entitle another
thread to the bytes.  `committed`: the file as the last call that ended left it.
`turns`: the rounds that the loop under way has made after its first; it counts
a round that changes nothing else too, which a property of steps would not see.

*Actions.*  `Read` enters `read_locked`; `ReadSome` is one `::read` that gives
any number of bytes, `ReadEnd` one that reports the end of the file, with the
wrap of the loop mode, `ReadFails` an error, `ThrottleEnds` the end of `usleep`.
`Write` enters the loop of `write_bytes`; `WriteSome`, `DiskFull`, `WriteFails`
are its iterations.  `EINTR` repeats the call and changes nothing: a
stuttering step.  `open`, `reconfigure` and `reconnect` close first and check the type
afterwards (a refused one leaves the port closed), and `reconnect` does not
ask whether the port was open: in both it differs from `uart_port`.  Opening
for writing truncates.  A read in loop mode that meets the end after some
bytes returns short, as `read_locked` does; only the next one wraps.

### AtomicFile

*State.*  Is the port `open`, how was it opened last (`config`), the `file` and
the `place` where the next transfer starts, what each thread has `asked` and
what it was `told`.  There is no mutex, no system call and no half-way state.

*Actions.*  Every call is one step that answers it: `Reopen` and `Refuse`,
`Close`, `Available`, `Look`, `Read` and `ReadFails`, `Write` and `WriteFails`;
`Rewind`, the loop mode's return to the start, answers nothing.  The failures
are told as they are: a read that fails passes over bytes that nobody gets, and
a write that fails leaves the first part of its buffer.

Where the comments of the code disagree, the module allows what each of them
says and the port does one of it: a read in loop mode may go on from the end of
the file at its start, as `file_port.h:147` has it, or stop there (`Passes`), and
`available()` at the end of a looping file may count the file that follows or
not (`Left`).  What `available()` answers when more bytes are left than an `int`
can say is open, since nothing says what it should be.

The refinement mapping (`Atomic` in `FilePort`) takes for the file the one that
the last call left (`committed`) and steps the place back by what the call in
progress has moved (`Moved`), so that `WriteSome` and `ReadSome`, which move
some of the bytes, are stutters until the one that returns.  This is sound
because only the thread with the mutex is in a transfer, and it is what would
fail if a write could be interleaved or an iteration lost count.

### I2cPort

*State.*  The members, `pc`, `call`, `ret` as above, and `held`, the
descriptors that the process has on the adapter.  Of the receiver: `reg`, the
register that is selected, and `queue`, how many bytes of the stream wait; past
the last one it sends filler.  `bus` is the holder of the bus between two
messages.  `count` is the number a call returned, `moved` the number of bytes
it really moved.  `promised` is history: what `available()` counted for a
thread, until somebody takes bytes or opens or closes the port.

*Actions.*  `I2C_RDWR` with two messages is `Select`, then `FetchCount` (of
`available`), `FetchStream` (of a read), `BusFails` or `ShortTransfer` (the
ioctl returns 1, which `rdwr_locked` takes for success).  `ReadFails` is a closed port, or an ioctl that
fails at once.  `WriteFrame` is the single message of a write.  `OpenLocked`
assigns `fd_` and `config_` only when both `::open` and `I2C_SLAVE` succeeded;
this, and a `reconnect` that does not ask whether the port is open, is what
`uart_port` does otherwise.  `OtherMaster` is another user of the adapter, who
selects another register or takes bytes; `AdapterGone` and `AdapterBack` are
the adapter's.  A length passes through `MessageLen`, the cast to `__u16`.

### PortObjects

*State.*  For each object `life`, `mutex`, `fd`; for each thread the
`shared_ptr`s it keeps (`owns`), the one that a wrapper's call keeps for its
duration (`pinned`), where it is (`pc`) and with which objects (`work`); and the
descriptor table.

*Actions.*  `Create`, `Share`, `Forget` are the application's: a factory call,
a copy, a reset; the last reference runs the destructor, `Destroy`, which takes no
lock.  `Call` is `port_.lock()`: it pins a live object, and returns at once when
there is none.  Then comes the method's body under the object's mutex, one action for
each kind of method, two for `shutdown` (`is_open` and `close` take the lock
separately) and for those that block (`Transfer`, `TransferEnds`); `Leave` is
the end of the scope of the `shared_ptr`, which may be the last one.
`get_config` is a query like the others: what its caller does with the reference
afterwards, when nothing need keep the object any more, is not modelled here
(section 3).  `MoveConstruct` holds the other
object's mutex; move assignment is `Assign`, then `std::lock` as the standard
describes it (`LockOne`, and `BackOff` when the other mutex is taken), then
the body, `MoveAssign`.

### Termios

*State.*  `tty`, the settings in effect; `seen`, what `tcgetattr` gave;
`config`, the configuration being applied; `applied` is history, the configuration that
made `tty`, unless another program has set the tty since.

*Actions.*  `Get` and `Set` are `tcgetattr` and `tcsetattr`, between which
other programs may set the tty; `Set` writes `Configured(config, seen)`, in
which each `switch` of the code is an operator (`WithParity`, `WithStop`,
`WithFlow`, `VMin`, `VTime`).  `Throw` is a failing call or a rate that
`baud_to_speed` does not know.  The properties read the settings back the way
a serial line does (`Parity`, `Flow`, `Blocks`, `WaitMs`) and compare the
result with the configuration.

### IoPort

*State.*  Is the port `open`, who is reopening it (`changer`), with which
configuration was it `applied` last, what has each thread `asked`, what was
the last `answer`.

*Actions.*  A question is answered in one step, from the state at that moment:
`Query` for what needs the port and for `get_config`, which shows what was
applied last; `Immediate` for a transfer of no bytes, which does not need it;
`Close`.  A call that opens the port may
`Begin`, after which the port counts as closed and everybody else waits, and
ends in `Succeed`, with the new configuration, for `reconnect` the last one, or
in `Fail`, which leaves the last configuration for the next `reconnect`.
`Exempted` gives any answer to a call of `Exempt` while the port is not open.
`Exempt` is `{}` in the contract as `i_io_port.h` words it, which is the one that
`FilePort` implements.  `UartPort` implements it but for `get_config`, and
`I2cPort` but for `flush` (which stands for `drain` as well): there the code
breaks it (section 3), and the constant says where.

The refinement mappings (`Contract` in each port) map a thread that is idle to
no question, results to answers (of `get_config` the configuration itself), and,
in `UartPort`, a port inside
`open_locked` to one that its holder is changing.  `applied` is
`UartPort!applied`, not `config_`, which a failed open overwrites: that
`reconnect` nevertheless restores the last applied configuration, since it
refuses a port that a failure closed, is part of what the refinement shows.

## 3. The runs

What holds:

| Run | States | What it shows |
|---|---|---|
| `uart_safety` | 673 000 | `DescriptorOwned`, `OpenMeansApplied`, `FreshRx`, `NeverClosesOthers`, `InFlightStable`: whatever two threads call, whatever fails and whenever the device goes, no descriptor is leaked or closed twice or closed for somebody else, an open port runs with what `config_` says, no byte framed under other settings is read, and nothing is changed under a blocked call.  `BytesAccounted`: no byte enters or leaves a queue of the tty without a call that reports it or discards, so that a transfer that fails may be repeated.  `UartImplements`: the port refines `IoPort`, but for `get_config` while it is not open |
| `uart_owner` | 154 000 | `DrainDelivers`: if one thread alone writes, opens, closes, flushes and reconnects, its `drain` is the guarantee `i_io_port.h` speaks of; `HolderReturns`: with a read timeout or `O_NONBLOCK`, whoever has the mutex gives it back; `OpenRecovers`: retrying `open` gets the port back after any outage |
| `file_safety` | 293 000 | `RecordingWhole`, `RecordingGrows`: in a session without loop mode the bytes of a write stay together and no call moves the offset back into the recording; `AvailableKept`: a read after `available()` > 0 gets something; `LoopsBounded`: a loop takes at most one round more than it has bytes to move, and `LoopsEnd`: every loop of the port ends, both except for a read of an empty file in loop mode; `FileImplements`, `FileAtomic`: the port refines `IoPort`, and `AtomicFile`, in sessions that record and loop too |
| `i2c_safety` | 86 000 | `DescriptorOwned`, `FetchesSelected`, `AvailableKept`: no failing open leaks, nobody comes between select and fetch, and what `available()` counted is read without filler, unless somebody else took it or the adapter cut the transfer short; `ReconnectRecovers`: retrying `reconnect` gets the port back, whatever failed before; `I2cImplements`: the port refines `IoPort`, but for `flush` and `drain` while it is not open |
| `port_objects` | 583 000 | `NoUseAfterDestruction`: no thread is inside a method of an object, or waits for its mutex, when it is destroyed, whoever drops the last `shared_ptr`; `OneOwnerPerFd`, `NeverClosesOthers`, `TransferKeepsFd`: moves, assignments and destructors leave each descriptor with one owner, close it once and never under a transfer; `NoHoldAndWait`: a thread has at most one mutex, and none while it waits; `HalfLockedEnds`: crosswise assignments do not deadlock |
| `termios` | 46 000 | `FramingFollowsConfig`, `TimeoutFollowsConfig`: for every frame, the line does what the configuration in effect says, whatever was set before; a read waits for the timeout and less than a tenth of a second more, up to 25.5 s |

Promises of the documentation that the code does not keep; each run has the
one property and TLC's trace is the counterexample:

| Run | Promise | What happens |
|---|---|---|
| `uart_writes` | `uart_port.h:37`: a port may be used from a reader and a writer thread simultaneously | a reader blocks in `::read` with the mutex, with the default timeout 0 for ever; the writer, whose request the device waits for, waits for the mutex.  The run uses a lock that starves nobody, so that the lock is not to blame |
| `uart_drain_reconnect` | `i_io_port.h:113`, `:125`: drain guarantees delivery, reconnect is safe beside other calls | write, reconnect in the other thread (flushes the queue), drain returns true: nothing was sent |
| `uart_reconnect` | `io_channel_wrapper.h:37`: `reconnect()` recovers from transient errors without the caller managing the lifecycle | one failed `reconnect` closes the port, and every later one returns false (`i2c_safety` shows that `i2c_port` does recover) |
| `file_empty_loop` | `file_port.h:144`: returns the number of bytes placed in the buffer | an empty file in loop mode is sought and read for ever, with the mutex |
| `i2c_truncated` | `i2c_port.h:146`: the number of bytes read | a length of 2^16 and more is cut in the transfer, but returned in full |
| `termios_timeout` | `uart_port.cpp:548`: round up to ensure the requested timeout | 25.6 s becomes `VTIME` 0, a read that does not wait |

Further places where code and comments differ, found while modelling and
without a run of their own:

- `i_io_port.h:91`: `get_config` returns "the configuration that was last
  successfully applied" (`uart_port.h:119` says the same of `config_`).
  `uart_port` stores it before it is applied (`uart_port.cpp:207`): after a
  refused one the closed port shows it.  `UartImplements` exempts this case.
- `i_io_port.h:106`, `:117`: `flush` and `drain` return "false if the channel is
  not open".  Those of `i2c_port` return true always (`i2c_port.cpp:99-109`).
  `I2cImplements` exempts this case.
- `uart_port.h:35`, "internally synchronised": `get_config` returns a reference
  that is read without the lock, while another thread may assign `config_`
  (`Mixed` in the model).
- `io_channel_wrapper.h:144-149` asks only for `is_ready()` before `get_config`.
  The wrapper has a `weak_ptr`, and the `shared_ptr` of the call is gone when it
  returns (`io_channel_wrapper.cpp:107-114`): the reference dangles once the last
  owner, perhaps another thread, lets go.
- `file_port.h:41`, "appends": in a session that is both writable and looping
  a read wraps the shared offset, and the next write overwrites the recording.
  `RecordingGrows` and `RecordingWhole` therefore speak of the others.
- `file_port.h:144-148`: `read_locked` is to "read exactly `len` bytes" and, in
  loop mode, to seek to the start at the end of the file and continue.  It does
  so only if it has read nothing yet (`file_port.cpp:437`): a read that meets the
  end after some bytes returns short.
- `file_port.h:35`, `:119`: `available()` returns what remains "to EOF".  At the
  end of a looping file it returns the size of the file (`file_port.cpp:264`, whose
  comment says why; `i_io_reader.h:126`, bytes "available to read without
  blocking", is on its side).
- `file_port.h:119`: `available()` narrows the count to `int`; from 2^31 bytes
  on it is negative on a healthy port, or too small.
- `io_channel_wrapper.h:84`: the destructor "calls shutdown()"; its body is empty.
- `i2c_config.h:66`: `read_timeout_ms` "controls how long available() waits";
  nothing reads it.

### Bounds, and why they are enough

- *Two threads.*  Every method but the part inside a system call is one
  critical section, and at most one thread is inside.  A violation needs one
  thread in flight and one that interferes; a third only repeats the second.
  The theorems hold for any number.
- *Two descriptor numbers* for one port: one for the port and one that another
  component may take in between, which is what reuse needs; both may be taken,
  so that `::open` fails with a full table.  `PortObjects` has two objects and
  three numbers for the same reason; two objects are what an assignment relates, and
  one of them may come into being by a move from the other.
- *Configurations by kind.*  One with a timeout, one without, one
  non-blocking, one that the driver refuses, one of another channel type: the
  ports distinguish nothing else.  For the file, one that replays in loop mode,
  one that records, one that does both, and one of another type; a plain replay
  reads like the one that records.
- *`TxCap`* 1 or 2 writers in the Tx queue: with 1 a writer finds it full,
  with 2 both threads have unsent bytes.
- *`Recording` 2, `DiskSize` 3, `MaxTransfer` 2* (file).  A transfer of two bytes can be
  cut in the middle, two writes fill the disk half-way, and a file of two bytes can be left
  with its offset at the start, in the middle and at the end.
- *`IntHalf` 3.*  `int` has 2 * `IntHalf` values: a full disk is one byte more
  than it can count.
- *`Byte` 2, `Word` 4, `MaxMessage` 2, `MaxQueue` 3* (I2C).  A byte has two
  values and a message length four, so that a count takes two bytes, a frame of
  four wraps to 0, a read of five to 1, and one of three is refused by
  the kernel.  `MaxQueue` < `Word` as in the receiver, whose counter has two bytes.
- *`ShortTransfers`* is whether the adapter may report fewer messages than it
  was given; `i2c_truncated` leaves it off, so that the counterexample is the
  cast's.
- *Termios.*  Every data width, parity, stop bit count and flow control, with one
  speed and timeout; every timeout of `Timeouts` (0, small, on and
  between tenths, and the three around the wrap) with 8N1, at a speed that is
  supported and at one that is not; two foreign settings, which between them
  have every flag that the code might leave on.
- *Who calls what* (`MC*` modules).  In `uart_safety`, `file_safety` and
  `i2c_safety` every method is called, and the runs fire every action.  The
  other runs are restricted to the callers that the question is about,
  `uart_owner` above all: `DrainDelivers` holds only for one owner, and
  `uart_drain_reconnect` shows what happens with two.
- Descriptor numbers are symmetric in the `UartPort` runs that check safety
  only; runs with a liveness property use no symmetry.

### Fairness

`UartPort!FairSpec` assumes that a thread inside the library runs on
(`Continues`), that a free mutex is taken by somebody who waits and, if the
same thread waits alone, by it (`TakesLock`, weak), and that the kernel
transmits while the device is there (`Transmit`).  It does not assume that a
thread calls anything, that the device sends, that a plug returns or a signal
arrives; `std::mutex` promises no more than this to a thread that competes.
`uart_owner` therefore excludes flow control that stops the line for ever,
and blocking configurations, for which `uart_writes` shows the opposite.
`FairLockSpec` adds a lock that serves everybody (strong fairness), only to
show that the violation of `WriteReturns` is not the lock's.

`OpenRecovers` and both `ReconnectRecovers` are implications: *if* some
thread keeps calling (`Retries`) and the outage ends (`OutageEnds`: the
device stays, a descriptor is free), *then* the port is open again and again.
The caller's persistence is a hypothesis and no fairness of the library.

`FilePort!FairSpec` is the same without the disk's failures: nothing makes
`ReadFails` or `WriteFails` happen, so that `LoopsEnd` cannot rely on them to
leave a loop.  `I2cPort!FairSpec` assumes `TakesLock` and `Continues`.
`PortObjects!FairSpec` assumes only that a thread with one of the two mutexes
tries the other.  Nothing says when an assignment ends: `std::lock` may back
off again and again while transfers take the mutexes, and the property asks only that
no thread stays half-locked.

## 4. The proofs

Each proof module argues by an inductive invariant, `IInv`, for any number of
threads and any values of the constants that satisfy the assumption of the
module (`UartAssumption`, `FileAssumption`, `I2cAssumption`, `ObjectsAssumption`,
`TermiosAssumption`: the kinds of configurations are sets of configurations,
the special values are distinct from the others, the bounds are numbers, calls
carry the arguments they need).  TLC evaluates the assumptions in every run.
The theorem `Invariance` of each module is `Spec => []IInv`.

`UartPortProofs`.  `DescriptorOwned` is not inductive alone: that
`TermiosFailed` closes a live descriptor needs to know that a thread inside
`open_locked` has one, and that nobody else is inside.  `IInv` adds `MutexHeld`
(the thread inside a method is the holder, hence alone), `InsideMethod` (what
`fd_`, `config_` and the argument are at each program counter) and
`OpenIsConfigured`, which joins `OpenMeansApplied` and `FreshRx` and adds that
the configuration of an open port is a uart one, so that `reconnect` passes a
sound one on.  From it follow

- `TypeCorrect`, `DescriptorsOwned`, `OpenPortsConfigured`, `RxIsFresh`:
  the invariants of `uart_safety`;
- `OthersKeepTheirs`: a step that closes frees the number that `fd_` holds, and
  by `DescriptorOwned` that is never another component's;
- `BlockedCallsUndisturbed`: by `MutexHeld` the only steps beside a blocked call
  are those that wait for the lock, `ReadConfigRef` and the environment's;
- `QueuesAreAccounted`: the steps are split by what they do to the two queues;
  `CallsInside`, below, says which call a thread is in that takes such a step;
- `ImplementsContract`: with `CallsInside` (a thread inside a method has called
  it and has not been answered) every step maps to a step of `IoPort` or to
  a stutter, action by action;
- `DrainsDeliver`: under `SoleOwner(w)`, which says that nobody but `w` may
  write, open, close, reconnect or flush, the invariant `Unharmed` holds: what
  the owner loses it loses to an unplug, and until it has reopened the port,
  which wipes the slate, the port is hung up and cannot drain.

`FilePortProofs`.  `RecordingGrows` rests on `AtEnd`: a session that records
without loop mode stays at the end of its file, since opening truncates, writes
leave the offset at the end and a read there can neither move nor wrap.
`RecordingWhole` needs `Halfway` in addition: between two parts of a write the
file ends with the last byte of the part before, which `MutexHeld` protects.  It is
stated, as `RecordingGrows` is, for sessions that do not loop (section 3 says why).
From these
follow `TypeCorrect`, `RecordingKept` and `RecordingIsWhole`;
`ImplementsContract` as above.  `AvailableIsKept` rests on `Owed`: while a
promise of `available()` stands, the offset is before the end of the file, or the
file starts over there; a write cannot use the promise up, because by `AtEnd` a
session that records is promised nothing.  `LoopsAreBounded` rests on
`Turning`: in a loop, the rounds so far are at most the bytes moved, and one more
only for the read that has just gone back from the end of a looping file, which
therefore stands before a byte.

`AtomicFileProofs`.  `FileIsAtomic` is the refinement of `AtomicFile`, for any
file, buffers, disk, threads and configurations.  Its invariant `AInv` adds to
`IInv` which call a thread in a loop is in (`LoopOps`), how far it has got and
where that puts the offset (`Progress`), what a thread that has not got anywhere
looks like (`Fresh`), and what the write under way has done to the file
(`Written`): it is the one of the last call with the first bytes of the buffer put
over it at the place where the call began.  The lemma `PutTwice`, that two
consecutive pieces are one, then makes the iteration of a write a stutter.  Every
action is mapped to a step or a stutter, one lemma each.

`I2cPortProofs`.  `Exclusion` (between two messages a thread has the mutex and
the bus) makes `FetchesSelected` inductive.  `AvailableKept` rests on
`Waiting`: what was counted for a thread still waits, since every step that
takes bytes ends all promises; and on the lemma `JoinedCount`, that the two bytes
of the count, joined as `available()` joins them, are the count, for any width of a byte.
`ImplementsContract` as above.  `CountsAreReal` says when the property that
`i2c_truncated` refutes does hold: if no transfer reaches the range of a message
length (`Fitting`, which for a write counts the register in front of it) and
the adapter never reports fewer messages than it was given (`~ShortTransfers`).
The run refutes it without the first; `ShortTransfer`, which returns the full
length although nothing was fetched, is why the second is needed.

`PortObjectsProofs`.  `Keeping` says which reference keeps the object that a
thread works with: the wrapper's `shared_ptr` in a call, the thread's own in an
assignment.  `NoUseAfterDestruction` follows, as an object is
destroyed only with its last reference.  `Locking` says who holds which mutex,
so that neither a move nor an assignment gets at an object in a transfer
(`TransfersUndisturbed`), and that nobody waits for a mutex with another in
hand (`NobodyHoldsAndWaits`), which rules out every circle of waiting threads:
what is left to `HalfLockedEnds` is that a thread with one mutex moves on.
`OneOwnerPerFd` is inductive with the two: from it
come `FdsOwned` and `OthersKeepTheirs`.

`TermiosProofs`.  The invariants are inductive with the type; the work is in
two lemmas about `Configured` for *every* configuration and *every* earlier
settings: `FlagsOf` (no flag of the frame or the handshake depends on what was
seen) and `VTimeRoundsUp` (the arithmetic of the cast).  `TimeoutIsKept` says
when the property that `termios_timeout` refutes does hold, for timeouts up to
25.5 s, and `LongTimeoutsCut` that every longer one is cut.

Only model-checked: everything under fairness (`HolderReturns`, `OpenRecovers`,
`ReconnectRecovers`, `LoopsEnd`, `HalfLockedEnds`), which is out of the
prover's reach.  For `LoopsEnd` and `HalfLockedEnds` the safety half is proved:
the rounds of a loop are bounded, and nobody waits with a mutex in hand.  Every invariant and
every action property of the runs that pass is stated by a theorem; of the runs
that show a violation, `CountsReal` and `TimeoutKept` are proved under the
conditions that exclude it, and `DrainDelivers` for one owner.

## 5. Not modelled

- Null buffers (they are the empty transfer), the text of exceptions, and the
  presets of the configurations, which are data.
- `file_port::get_config`, `get_fd` and `i2c_port::get_config`, which return a
  member; the hazard of the reference is in `UartPort`.
- The use of the reference that the wrapper's `get_config` returns (section 3).
- A `::open` that waits: without `O_NONBLOCK` a serial line with modem control
  may keep it until there is a carrier, with the mutex held.  `OpenDevice`
  returns at once.
- Pipes and terminals behind a `file_port`, and other processes that write the
  file.
- The lives of `file_port` and `i2c_port` objects: they cannot be moved, and
  their destructors call `close()`; what `PortObjects` shows of wrappers and
  references does not depend on the kind of port.
- The configuration that a move carries along, and what a moved-from
  `config_` contains.
- A poller that keeps the number of `get_fd`: it is outside the library, which
  offers it no way to learn of a reconnect.
- The switch of the factory over the channel types, which has no state.
- Timeouts near `INT_MAX`, where `read_timeout_ms + 99` overflows, and
  drivers that accept part of what `tcsetattr` is given and report success.
- Allocation failure inside a method.

## 6. What could follow

A run of its own for each difference of the list in section 3; a poller beside
`UartPort` that keeps a descriptor number across a reconnect; and a refinement from `UartPort` to the methods of `PortObjects`, which are now
related by reading.
