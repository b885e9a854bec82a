------------------------------ MODULE UartPort ------------------------------
(***************************************************************************)
(* One uart_port object (src/uart/uart_port.cpp) shared by several         *)
(* threads, the tty it drives and the descriptor table of the process.     *)
(*                                                                         *)
(* Every public method takes the port's mutex for its whole body.  A body  *)
(* that cannot block and that nobody can observe half-way is one action    *)
(* (lock, body, unlock).  A body that blocks in a system call, or whose    *)
(* intermediate states the kernel or an unlocked reader of the             *)
(* configuration can see, holds the mutex across several actions.          *)
(*                                                                         *)
(* The bytes in the tty's two queues are abstracted: of the unread bytes   *)
(* rx keeps the line settings under which they arrived, of the unsent      *)
(* bytes tx keeps the threads that wrote them.                             *)
(***************************************************************************)
EXTENDS FiniteSets, Naturals

CONSTANTS
  Threads,        \* callers of the port
  Fds,            \* descriptor numbers of the process
  Configs,        \* i_io_config objects that callers pass to the port
  UartConfigs,    \* those with channel_type() = io_channel_type::uart
  Blocking,       \* those with read_timeout_ms = 0 (VMIN = 1, VTIME = 0)
  NonBlocking,    \* those with non_blocking = true (O_NONBLOCK)
  Unsupported,    \* those the platform or the driver refuses to apply
  DefaultConfig,  \* config_ as default-constructed
  Mixed,          \* config_ while its members are being overwritten
  NoThread,       \* the mutex is free
  NoFd,           \* fd_ = -1
  TxCap,          \* bound: writers whose bytes fit the kernel's Tx queue
  Calls           \* [thread -> set of calls the thread may make]

Ops == {"open", "close", "reconnect", "reconfigure", "is_open", "get_config",
        "get_fd", "flush", "drain", "available", "read", "write"}

\* arg: the configuration of open and reconfigure; whether the buffer of a
\* read or a write has room for a byte.
CallSet == [op : Ops, arg : Configs \cup {"none", "empty", "some"}]

NoCall == [op |-> "none", arg |-> "none"]

Results == {"none", "true", "false", "done", "zero", "some", "minus1",
            "open_error", "config_error", "read_error", "write_error"}

ASSUME UartAssumption ==
  /\ UartConfigs \subseteq Configs
  /\ Blocking \subseteq UartConfigs
  /\ NonBlocking \subseteq UartConfigs
  /\ Unsupported \subseteq UartConfigs
  /\ Configs \cap {DefaultConfig, Mixed} = {}
  /\ DefaultConfig # Mixed
  /\ NoThread \notin Threads
  /\ NoFd \notin Fds
  /\ TxCap \in Nat \ {0}
  /\ Calls \in [Threads -> SUBSET CallSet]
  /\ \A t \in Threads : \A c \in Calls[t] : c.op \in {"open", "reconfigure"} => c.arg \in Configs
  /\ Results \cap (Configs \cup {DefaultConfig, Mixed} \cup Fds \cup {NoFd}) = {}
  /\ (Fds \cup {NoFd}) \cap (Configs \cup {DefaultConfig, Mixed}) = {}

VARIABLES
  pc,       \* where each thread is: outside, at the lock, or inside a method
  call,     \* the call each thread is making, or made last
  ret,      \* what that call returned or threw
  mutex,    \* holder of mutex_
  fd,       \* fd_
  config,   \* config_
  fdTable,  \* the process's descriptors: whose they are, and still usable?
  line,     \* the termios settings in effect on the tty
  rx,       \* settings under which the unread received bytes arrived
  tx,       \* threads with written bytes not yet on the wire
  plugged,  \* the device node exists and the device is there
  applied,  \* history: configuration of the last open_locked that returned
  lost      \* history: threads whose unsent bytes were discarded by a call
            \* of another thread, or by an unplug, since they last drained or
            \* discarded what was unsent themselves

client == <<pc, call, ret>>
port   == <<fd, config>>
tty    == <<line, rx, tx>>
hist   == <<applied, lost>>
vars   == <<client, mutex, port, fdTable, tty, plugged, hist>>

Inside == {"ref", "reading", "writing", "draining", "opening", "assigning",
           "configuring"}

\* The program counters at which a thread holds mutex_.
Holding == Inside \ {"ref"}

TypeOK ==
  /\ pc \in [Threads -> {"idle", "lock"} \cup Inside]
  /\ call \in [Threads -> CallSet \cup {NoCall}]
  /\ ret \in [Threads -> Results \cup Configs \cup {DefaultConfig, Mixed}
                         \cup Fds \cup {NoFd}]
  /\ mutex \in Threads \cup {NoThread}
  /\ fd \in Fds \cup {NoFd}
  /\ config \in UartConfigs \cup {DefaultConfig, Mixed}
  /\ fdTable \in [Fds -> {"free", "tty", "hungup", "other"}]
  /\ line \in UartConfigs \cup {DefaultConfig}
  /\ rx \subseteq UartConfigs \cup {DefaultConfig}
  /\ tx \subseteq Threads
  /\ plugged \in BOOLEAN
  /\ applied \in UartConfigs \cup {DefaultConfig}
  /\ lost \subseteq Threads

Init ==
  /\ pc = [t \in Threads |-> "idle"]
  /\ call = [t \in Threads |-> NoCall]
  /\ ret = [t \in Threads |-> "none"]
  /\ mutex = NoThread
  /\ fd = NoFd
  /\ config = DefaultConfig
  /\ fdTable = [n \in Fds |-> "free"]
  /\ line = DefaultConfig
  /\ rx = {}
  /\ tx = {}
  /\ plugged = TRUE
  /\ applied = DefaultConfig
  /\ lost = {}

-----------------------------------------------------------------------------
(* Calls, the mutex, and the system calls on the descriptor.               *)

\* A thread calls a method.  A drain that has returned ends the window over
\* which lost is kept for the thread.
Invoke(t) ==
  /\ pc[t] = "idle"
  /\ \E c \in Calls[t] : call' = [call EXCEPT ![t] = c]
  /\ pc' = [pc EXCEPT ![t] = "lock"]
  /\ ret' = [ret EXCEPT ![t] = "none"]
  /\ lost' = IF call[t].op = "drain" THEN lost \ {t} ELSE lost
  /\ UNCHANGED <<mutex, port, fdTable, tty, plugged, applied>>

\* std::lock_guard<std::mutex> lock(mutex_) at the head of method op.
Locked(t, op) == pc[t] = "lock" /\ call[t].op = op /\ mutex = NoThread

\* The method returns or throws; the lock_guard releases mutex_.
Return(t, r) ==
  /\ pc' = [pc EXCEPT ![t] = "idle"]
  /\ ret' = [ret EXCEPT ![t] = r]
  /\ mutex' = NoThread

\* The method goes on, or blocks, with mutex_ held.
Hold(t, where) ==
  /\ pc' = [pc EXCEPT ![t] = where]
  /\ mutex' = t
  /\ UNCHANGED ret

\* fd_ refers to a tty that has not hung up: system calls on it can succeed.
Live == fd # NoFd /\ fdTable[fd] = "tty"

\* ::tcflush(fd_, TCIOFLUSH), which fails without effect after a hang-up.
\* What t has written before is no longer t's concern.
Purge(t) ==
  /\ rx' = IF Live THEN {} ELSE rx
  /\ tx' = IF Live THEN {} ELSE tx
  /\ lost' = (lost \cup (IF Live THEN tx ELSE {})) \ {t}

\* ::close(n) frees the number, whoever holds it by then.
CloseFd(n) == fdTable' = [fdTable EXCEPT ![n] = "free"]

\* Mutant: close_locked forgets fd_ = -1.
CloseLockedStale(t) ==
  IF fd = NoFd
  THEN UNCHANGED <<fd, fdTable, rx, tx, lost>>
  ELSE Purge(t) /\ CloseFd(fd) /\ UNCHANGED fd

CloseLocked(t) ==
  IF fd = NoFd
  THEN UNCHANGED <<fd, fdTable, rx, tx, lost>>
  ELSE Purge(t) /\ CloseFd(fd) /\ fd' = NoFd

-----------------------------------------------------------------------------
(* Lifecycle.                                                              *)

\* open: the channel type is checked before anything is closed.
Open(t) ==
  /\ Locked(t, "open")
  /\ \/ /\ call[t].arg \notin UartConfigs
        /\ Return(t, "config_error")
        /\ UNCHANGED <<fd, fdTable, rx, tx, lost>>
     \/ /\ call[t].arg \in UartConfigs
        /\ CloseLocked(t)
        /\ Hold(t, "opening")
  /\ UNCHANGED <<call, config, line, plugged, applied>>

\* Mutant: close takes no lock.
CloseUnlocked(t) ==
  /\ pc[t] = "lock" /\ call[t].op = "close"
  /\ CloseLocked(t)
  /\ pc' = [pc EXCEPT ![t] = "idle"]
  /\ ret' = [ret EXCEPT ![t] = "done"]
  /\ UNCHANGED <<call, mutex, config, line, plugged, applied>>

Close(t) ==
  /\ Locked(t, "close")
  /\ CloseLocked(t)
  /\ Return(t, "done")
  /\ UNCHANGED <<call, config, line, plugged, applied>>

\* Mutant: reconnect reopens without having saved the configuration.
ReconnectUnsaved(t) ==
  /\ Locked(t, "reconnect")
  /\ \/ fd = NoFd /\ Return(t, "false")
     \/ fd # NoFd /\ Hold(t, "opening")
  /\ CloseLocked(t)
  /\ UNCHANGED <<call, config, line, plugged, applied>>

\* reconnect: false on a closed port, else close and open_locked(saved).
Reconnect(t) ==
  /\ Locked(t, "reconnect")
  /\ \/ /\ fd = NoFd
        /\ Return(t, "false")
        /\ UNCHANGED call
     \/ /\ fd # NoFd
        /\ call' = [call EXCEPT ![t] = [op |-> "reconnect", arg |-> config]]
        /\ Hold(t, "opening")
  /\ CloseLocked(t)
  /\ UNCHANGED <<config, line, plugged, applied>>

\* reconfigure: the port is closed before the channel type is checked.
Reconfigure(t) ==
  /\ Locked(t, "reconfigure")
  /\ CloseLocked(t)
  /\ \/ call[t].arg \notin UartConfigs /\ Return(t, "config_error")
     \/ call[t].arg \in UartConfigs /\ Hold(t, "opening")
  /\ UNCHANGED <<call, config, line, plugged, applied>>

\* open_locked: ::open, and the start of config_ = ucfg.  That ::open may wait
\* for a carrier, with mutex_ held, is left out.
OpenDevice(t) ==
  /\ pc[t] = "opening"
  /\ \/ /\ plugged
        /\ \E n \in Fds :
             /\ fdTable[n] = "free"
             /\ fdTable' = [fdTable EXCEPT ![n] = "tty"]
             /\ fd' = n
        /\ config' = Mixed
        /\ Hold(t, "assigning")
     \/ /\ ~plugged \/ \A n \in Fds : fdTable[n] # "free"
        /\ Return(t, "open_error")
        /\ UNCHANGED <<fd, config, fdTable>>
  /\ UNCHANGED <<call, tty, plugged, hist>>

\* open_locked: the end of config_ = ucfg.
AssignConfig(t) ==
  /\ pc[t] = "assigning"
  /\ config' = call[t].arg
  /\ Hold(t, "configuring")
  /\ UNCHANGED <<call, fd, fdTable, tty, plugged, hist>>

\* Mutant: no flush after the new settings.
TermiosAppliedUnflushed(t) ==
  /\ pc[t] = "configuring"
  /\ Live /\ config \notin Unsupported
  /\ line' = config
  /\ applied' = config
  /\ Return(t, "true")
  /\ UNCHANGED <<call, port, fdTable, rx, tx, plugged, lost>>

\* apply_termios_config succeeds: settings, then the flush of what arrived
\* under the old ones.
TermiosApplied(t) ==
  /\ pc[t] = "configuring"
  /\ Live /\ config \notin Unsupported
  /\ line' = config
  /\ Purge(t)
  /\ applied' = config
  /\ Return(t, "true")
  /\ UNCHANGED <<call, port, fdTable, plugged>>

\* Mutant: the catch block resets fd_ and forgets ::close.
TermiosFailedLeaks(t) ==
  /\ pc[t] = "configuring"
  /\ ~Live \/ config \in Unsupported
  /\ fd' = NoFd
  /\ Return(t, "config_error")
  /\ UNCHANGED <<call, config, fdTable, tty, plugged, hist>>

\* Mutant: no catch block, the port stays open.
TermiosFailedStaysOpen(t) ==
  /\ pc[t] = "configuring"
  /\ ~Live \/ config \in Unsupported
  /\ Return(t, "config_error")
  /\ UNCHANGED <<call, port, fdTable, tty, plugged, hist>>

\* apply_termios_config throws: the catch block closes fd_ and rethrows.
TermiosFailed(t) ==
  /\ pc[t] = "configuring"
  /\ ~Live \/ config \in Unsupported
  /\ CloseFd(fd)
  /\ fd' = NoFd
  /\ Return(t, "config_error")
  /\ UNCHANGED <<call, config, tty, plugged, hist>>

-----------------------------------------------------------------------------
(* Queries and buffer management.                                          *)

Unmoved == UNCHANGED <<call, port, fdTable, line, rx, plugged, applied>>

Quiet == Unmoved /\ UNCHANGED <<tx, lost>>

IsOpen(t) ==
  /\ Locked(t, "is_open")
  /\ Return(t, IF fd # NoFd THEN "true" ELSE "false")
  /\ Quiet

GetFd(t) == Locked(t, "get_fd") /\ Return(t, fd) /\ Quiet

\* get_config returns a reference to config_; the lock is released on return
\* and the caller reads through the reference in a later step.
GetConfig(t) ==
  /\ Locked(t, "get_config")
  /\ pc' = [pc EXCEPT ![t] = "ref"]
  /\ UNCHANGED <<ret, mutex>>
  /\ Quiet

ReadConfigRef(t) ==
  /\ pc[t] = "ref"
  /\ pc' = [pc EXCEPT ![t] = "idle"]
  /\ ret' = [ret EXCEPT ![t] = config]
  /\ UNCHANGED mutex
  /\ Quiet

Available(t) ==
  /\ Locked(t, "available")
  /\ Return(t, IF ~Live THEN "minus1" ELSE IF rx = {} THEN "zero" ELSE "some")
  /\ Quiet

Flush(t) ==
  /\ Locked(t, "flush")
  /\ \/ /\ fd = NoFd
        /\ Return(t, "false")
        /\ UNCHANGED <<rx, tx, lost>>
     \/ /\ fd # NoFd
        /\ Purge(t)
        /\ Return(t, IF Live THEN "true" ELSE "false")
  /\ UNCHANGED <<call, port, fdTable, line, plugged, applied>>

Drain(t) ==
  /\ Locked(t, "drain")
  /\ \/ fd = NoFd /\ Return(t, "false")
     \/ fd # NoFd /\ Hold(t, "draining")
  /\ Quiet

\* Mutant: drain does not wait.
DrainEndsEarly(t) ==
  /\ pc[t] = "draining"
  /\ Return(t, IF Live THEN "true" ELSE "false")
  /\ Quiet

\* ::tcdrain returns once the Tx queue is empty, and fails on a hang-up.
DrainEnds(t) ==
  /\ pc[t] = "draining"
  /\ \/ Live /\ tx = {} /\ Return(t, "true")
     \/ ~Live /\ Return(t, "false")
  /\ Quiet

-----------------------------------------------------------------------------
(* Reading and writing.  The methods of one direction differ in the type   *)
(* of the buffer only.                                                     *)

Read(t) ==
  /\ Locked(t, "read")
  /\ \/ fd = NoFd /\ Return(t, "read_error")
     \/ fd # NoFd /\ call[t].arg = "empty" /\ Return(t, "zero")
     \/ fd # NoFd /\ call[t].arg = "some" /\ Hold(t, "reading")
  /\ Quiet

\* ::read delivers some of the bytes that wait.
ReadData(t) ==
  /\ pc[t] = "reading"
  /\ Live /\ rx # {}
  /\ \E got \in SUBSET rx \ {{}} :
       \E rest \in SUBSET got : rx' = (rx \ got) \cup rest
  /\ Return(t, "some")
  /\ UNCHANGED <<call, port, fdTable, line, tx, plugged, hist>>

\* Mutant: VMIN = 1 whatever the timeout.
ReadNothingUntimed(t) ==
  /\ pc[t] = "reading"
  /\ Live /\ rx = {}
  /\ config \in NonBlocking
  /\ \E r \in {"zero", "read_error"} : Return(t, r)
  /\ Quiet

\* ::read finds nothing: VTIME runs out, or the descriptor is O_NONBLOCK and
\* read returns 0 or EAGAIN (POSIX leaves open which).
ReadNothing(t) ==
  /\ pc[t] = "reading"
  /\ Live /\ rx = {}
  /\ \/ config \notin NonBlocking /\ line \notin Blocking /\ Return(t, "zero")
     \/ config \in NonBlocking /\ \E r \in {"zero", "read_error"} : Return(t, r)
  /\ Quiet

ReadHangup(t) ==
  /\ pc[t] = "reading"
  /\ ~Live
  /\ \E r \in {"zero", "read_error"} : Return(t, r)
  /\ Quiet

Write(t) ==
  /\ Locked(t, "write")
  /\ \/ fd = NoFd /\ Return(t, "write_error")
     \/ fd # NoFd /\ call[t].arg = "empty" /\ Return(t, "zero")
     \/ fd # NoFd /\ call[t].arg = "some" /\ Hold(t, "writing")
  /\ Quiet

Room == Cardinality(tx) < TxCap

\* ::write queues some of the bytes.
WriteData(t) ==
  /\ pc[t] = "writing"
  /\ Live /\ Room
  /\ tx' = tx \cup {t}
  /\ Return(t, "some")
  /\ UNCHANGED lost
  /\ Unmoved

\* Mutant: what fits is queued, and the call fails all the same.
WriteFailsHalfway(t) ==
  /\ pc[t] = "writing"
  /\ ~Live \/ (~Room /\ config \in NonBlocking)
  /\ tx' = tx \cup {t}
  /\ Return(t, "write_error")
  /\ UNCHANGED lost
  /\ Unmoved

\* ::write fails: hang-up, or EAGAIN when the queue is full.
WriteFails(t) ==
  /\ pc[t] = "writing"
  /\ ~Live \/ (~Room /\ config \in NonBlocking)
  /\ Return(t, "write_error")
  /\ Quiet

\* A signal handler interrupts a blocked call (EINTR); nothing is retried.
Interrupted(t) ==
  /\ Live
  /\ \/ pc[t] = "reading" /\ rx = {} /\ Return(t, "read_error")
     \/ pc[t] = "writing" /\ ~Room /\ Return(t, "write_error")
     \/ pc[t] = "draining" /\ tx # {} /\ Return(t, "false")
  /\ Quiet

-----------------------------------------------------------------------------
(* The device, the kernel and the rest of the process.                     *)

\* The device sends; the tty receives while a descriptor is open on it.
DeviceSends ==
  /\ Live
  /\ rx' = rx \cup {line}
  /\ UNCHANGED <<client, mutex, port, fdTable, line, tx, plugged, hist>>

\* The kernel puts the bytes of thread t on the wire.
Transmit(t) ==
  /\ plugged /\ t \in tx
  /\ tx' = tx \ {t}
  /\ UNCHANGED <<client, mutex, port, fdTable, line, rx, plugged, hist>>

\* The device goes away: open descriptors on it hang up for good.
Unplug ==
  /\ plugged
  /\ plugged' = FALSE
  /\ fdTable' = [n \in Fds |-> IF fdTable[n] = "tty" THEN "hungup" ELSE fdTable[n]]
  /\ rx' = {} /\ tx' = {}
  /\ lost' = lost \cup tx
  /\ UNCHANGED <<client, mutex, port, line, applied>>

Replug ==
  /\ ~plugged
  /\ plugged' = TRUE
  /\ UNCHANGED <<client, mutex, port, fdTable, tty, hist>>

\* Another component of the process opens or closes a descriptor of its own.
OtherDescriptor ==
  /\ \E n \in Fds :
       \/ fdTable[n] = "free" /\ fdTable' = [fdTable EXCEPT ![n] = "other"]
       \/ fdTable[n] = "other" /\ fdTable' = [fdTable EXCEPT ![n] = "free"]
  /\ UNCHANGED <<client, mutex, port, tty, plugged, hist>>

-----------------------------------------------------------------------------
\* Taking the mutex, up to the first blocking or observable point.
TakesLock(t) ==
  \/ Open(t) \/ Close(t) \/ Reconnect(t) \/ Reconfigure(t)
  \/ IsOpen(t) \/ GetFd(t) \/ GetConfig(t) \/ Available(t)
  \/ Flush(t) \/ Drain(t) \/ Read(t) \/ Write(t)

\* The rest of the method.
Continues(t) ==
  \/ OpenDevice(t) \/ AssignConfig(t) \/ TermiosApplied(t) \/ TermiosFailed(t)
  \/ ReadConfigRef(t) \/ DrainEnds(t)
  \/ ReadData(t) \/ ReadNothing(t) \/ ReadHangup(t)
  \/ WriteData(t) \/ WriteFails(t)

ThreadStep(t) == Invoke(t) \/ TakesLock(t) \/ Continues(t) \/ Interrupted(t)

Environment ==
  DeviceSends \/ (\E t \in Threads : Transmit(t)) \/ Unplug \/ Replug \/ OtherDescriptor

Next == (\E t \in Threads : ThreadStep(t)) \/ Environment

Spec == Init /\ [][Next]_vars

-----------------------------------------------------------------------------
(* Safety.                                                                 *)

\* No thread is between the close and the end of an open_locked.
Settled == \A t \in Threads : pc[t] \notin {"opening", "assigning", "configuring"}

\* The process holds exactly one descriptor on the device while fd_ >= 0 and
\* none otherwise: no path through open_locked, reconnect or reconfigure
\* leaks a descriptor or keeps the number of a closed one.
DescriptorOwned == \A n \in Fds : fdTable[n] \in {"tty", "hungup"} <=> n = fd

\* Whatever failed before, an open port runs with the configuration that
\* config_ holds and that the last successful open_locked applied.
OpenMeansApplied == Settled /\ fd # NoFd => config = applied /\ line = config

\* Bytes received under other line settings never reach a reader: all that
\* waits in the Rx queue of an open port arrived under its configuration.
FreshRx == Settled /\ fd # NoFd => rx \subseteq {config}

\* A ::close() of the port never hits a descriptor of another component,
\* even one that got a number the port had before.
NeverClosesOthers ==
  [][pc' # pc => \A n \in Fds : fdTable[n] = "other" => fdTable'[n] = "other"]_vars

\* While a thread is in ::read, ::write or ::tcdrain, no other thread closes
\* or replaces the descriptor, changes the configuration or the line settings
\* under it, takes its bytes, or flushes the queues.
InFlightStable ==
  [][\A t \in Threads :
       pc[t] \in {"reading", "writing", "draining"} /\ pc'[t] = pc[t]
         => /\ UNCHANGED <<port, line>>
            /\ plugged' => rx \subseteq rx' /\ lost' \subseteq lost]_vars

\* The calls that may discard what waits in the two queues.
Discarding == {"open", "close", "reconnect", "reconfigure", "flush"}

Steps(t) == pc'[t] # pc[t]

\* Every byte that enters or leaves a queue is accounted for: it is queued by
\* a write that reports it and taken by a read that reports it, or the device
\* sent it, the kernel transmitted it, a call that discards was made or the
\* device went.  So a read, write or drain that fails (a signal, EAGAIN, a
\* hang-up) has moved nothing, and its caller may repeat it.
BytesAccounted ==
  [][/\ \A t \in tx' \ tx : Steps(t) /\ call[t].op = "write" /\ ret'[t] = "some"
     /\ plugged' /\ ~(rx \subseteq rx')
          => \E t \in Threads :
               /\ Steps(t)
               /\ \/ call[t].op = "read" /\ ret'[t] = "some"
                  \/ call[t].op \in Discarding
     /\ pc' # pc /\ ~(tx \subseteq tx')
          => \E t \in Threads : Steps(t) /\ call[t].op \in Discarding]_vars

\* A drain() that returns true has put every byte on the wire that its
\* caller wrote since it last drained, flushed, closed or reopened the port.
DrainDelivers ==
  \A t \in Threads :
    pc[t] = "idle" /\ call[t].op = "drain" /\ ret[t] = "true" => t \notin lost \cup tx

-----------------------------------------------------------------------------
(* Liveness.  A thread inside the library runs on, a free mutex is taken,  *)
(* the kernel transmits.  Nothing makes a thread call, the device send, or *)
(* a signal arrive.                                                        *)

FairSpec ==
  /\ Spec
  /\ \A t \in Threads :
       WF_vars(TakesLock(t)) /\ WF_vars(Continues(t)) /\ WF_vars(Transmit(t))

\* Whoever takes the mutex gives it back.
HolderReturns == \A t \in Threads : mutex = t ~> mutex # t

\* The same with a lock that serves every waiting thread.
FairLockSpec == FairSpec /\ \A t \in Threads : SF_vars(TakesLock(t))

\* Every write returns, whatever other threads do with the port.
WriteReturns ==
  \A t \in Threads : pc[t] = "lock" /\ call[t].op = "write" ~> pc[t] = "idle"

\* A thread that calls op again and again, with a configuration that the
\* driver accepts if it calls open.
Retries(t, op) ==
  []<><<Invoke(t) /\ call'[t].op = op
        /\ (op = "open" => call'[t].arg \in UartConfigs \ Unsupported)>>_vars

\* At last the device stays and the rest of the process leaves a descriptor.
OutageEnds == <>[](plugged /\ \E n \in Fds : fdTable[n] # "other")

\* Retrying open() brings the port back after any outage, whatever calls
\* failed in between (open_locked, its catch block).
OpenRecovers ==
  OutageEnds /\ (\E t \in Threads : Retries(t, "open")) => []<>Live

\* When the port was open once, so does retrying reconnect().
ReconnectRecovers ==
  /\ <>(applied # DefaultConfig)
  /\ OutageEnds
  /\ \E t \in Threads : Retries(t, "reconnect")
  => []<>Live

-----------------------------------------------------------------------------
(* The contract of i_io_port.                                              *)

NoQuestion == [op |-> "none", cfg |-> DefaultConfig]

Question(c) ==
  [op  |-> c.op,
   cfg |-> IF c.op \in {"open", "reconfigure"} THEN c.arg ELSE DefaultConfig]

AnswerTo(r) ==
  IF r = "none" THEN "pending"
  ELSE IF r \in {"true", "false", "done", "minus1"} THEN r
  ELSE IF r \in {"zero", "some"} THEN "count"
  ELSE IF r \in {"open_error", "config_error", "read_error", "write_error"} THEN "error"
  ELSE IF r = NoFd THEN "minus1"
  ELSE IF r \in Fds THEN "value"
  ELSE r

Contract ==
  INSTANCE IoPort WITH
    Unset <- DefaultConfig, Nobody <- NoThread, Exempt <- {"get_config"},
    open <- fd # NoFd /\ Settled, changer <- IF Settled THEN NoThread ELSE mutex,
    asked <- [t \in Threads |-> IF pc[t] = "idle" THEN NoQuestion ELSE Question(call[t])],
    answer <- [t \in Threads |-> AnswerTo(ret[t])]

\* The port keeps the contract although its calls take many steps and block:
\* they take effect one at a time, reconnect restores the configuration that
\* was applied last, and every answer about the port, the configuration that
\* a caller reads through the reference of get_config included, is true when
\* it is given.  The exception is get_config on a port that is closed or
\* being reopened: config_ is assigned before the settings are applied
\* (uart_port.cpp:207), so that the caller may see a configuration that was
\* refused, or half of one, where i_io_port.h:91 promises the last applied.
UartImplements == Contract!Spec

=============================================================================
