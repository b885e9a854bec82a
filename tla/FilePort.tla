------------------------------ MODULE FilePort ------------------------------
(***************************************************************************)
(* One file_port object (src/file/file_port.cpp) shared by several threads *)
(* and the regular file that all its configurations name.                  *)
(*                                                                         *)
(* One descriptor serves reads and writes, so that they share one offset.  *)
(* A read and a write loop over system calls, each of which may move fewer *)
(* bytes than asked; the loop is several actions, with the mutex held.     *)
(* A call interrupted by a signal is repeated and changes nothing: it is a *)
(* stuttering step.  A byte is known by the thread that wrote it and by    *)
(* its place in the buffer of that write.                                  *)
(***************************************************************************)
EXTENDS Integers, Sequences

CONSTANTS
  Threads,      \* callers of the port
  Configs,      \* i_io_config objects that callers pass to the port
  FileConfigs,  \* those with channel_type() = io_channel_type::file
  Writable,     \* those with writable = true
  Looping,      \* those with loop = true
  Throttled,    \* those with throttle_us > 0
  DefaultConfig,\* config_ as default-constructed: its empty path cannot be opened
  NoThread,     \* the mutex is free; who wrote the bytes of a given recording
  Recording,    \* length of the file before the first open
  DiskSize,     \* bytes that fit the file: a write beyond fails with ENOSPC
  MaxTransfer,  \* bound: longest buffer of a read or a write
  IntHalf,      \* half the range of int, the type that available() returns
  Calls         \* [thread -> set of calls the thread may make]

Lifecycle == {"open", "close", "reconnect", "reconfigure"}

Ops == Lifecycle \cup {"is_open", "flush", "available", "read", "write"}

\* cfg: the argument of open and reconfigure; len: the length of a transfer.
CallSet == [op : Ops, cfg : Configs \cup {DefaultConfig}, len : 0..MaxTransfer]

NoCall == [op |-> "none", cfg |-> DefaultConfig, len |-> 0]

ASSUME FileAssumption ==
  /\ FileConfigs \subseteq Configs
  /\ Writable \subseteq FileConfigs
  /\ Looping \subseteq FileConfigs
  /\ Throttled \subseteq FileConfigs
  /\ DefaultConfig \notin Configs
  /\ NoThread \notin Threads
  /\ DiskSize \in Nat /\ MaxTransfer \in Nat /\ Recording \in 0..DiskSize
  /\ IntHalf \in Nat \ {0}
  /\ Calls \in [Threads -> SUBSET CallSet]

VARIABLES
  pc,       \* where each thread is: outside, called, or inside a loop
  call,     \* the call each thread is making, or made last
  ret,      \* what that call returned or threw
  count,    \* bytes moved so far by the call; the number it returned
  mutex,    \* holder of mutex_
  isOpen,   \* fd_ >= 0
  config,   \* config_
  file,     \* the bytes in the file
  offset,   \* the file offset of the descriptor
  committed, \* history: the file as the calls that are over left it
  turns,    \* history: how often the loop of the holder of mutex_ went round
  promised  \* history: threads that available() promised bytes, until
            \* somebody gets bytes or reopens or closes the port

client == <<pc, call, ret, count>>
port   == <<isOpen, config>>
lock   == <<mutex, turns>>
bytes  == <<file, committed>>
disk   == <<bytes, offset>>
vars   == <<client, lock, port, disk, promised>>

Bytes == [by : Threads \cup {NoThread}, nth : Nat]

Results == {"none", "true", "false", "done", "count", "minus1",
            "open_error", "read_error"}

Inside == {"reading", "sleeping", "writing"}

TypeOK ==
  /\ pc \in [Threads -> {"idle", "called"} \cup Inside]
  /\ call \in [Threads -> CallSet \cup {NoCall}]
  /\ ret \in [Threads -> Results]
  /\ count \in [Threads -> Int]
  /\ mutex \in Threads \cup {NoThread}
  /\ isOpen \in BOOLEAN
  /\ config \in FileConfigs \cup {DefaultConfig}
  /\ file \in Seq(Bytes) /\ Len(file) <= DiskSize
  /\ offset \in 0..Len(file)
  /\ committed \in Seq(Bytes)
  /\ turns \in 0..(MaxTransfer + 1)
  /\ promised \subseteq Threads

Init ==
  /\ pc = [t \in Threads |-> "idle"]
  /\ call = [t \in Threads |-> NoCall]
  /\ ret = [t \in Threads |-> "none"]
  /\ count = [t \in Threads |-> 0]
  /\ mutex = NoThread
  /\ isOpen = FALSE
  /\ config = DefaultConfig
  /\ file = [i \in 1..Recording |-> [by |-> NoThread, nth |-> i]]
  /\ offset = 0
  /\ committed = file
  /\ turns = 0
  /\ promised = {}

-----------------------------------------------------------------------------
(* Calls and the mutex.                                                    *)

Invoke(t) ==
  /\ pc[t] = "idle"
  /\ \E c \in Calls[t] : call' = [call EXCEPT ![t] = c]
  /\ pc' = [pc EXCEPT ![t] = "called"]
  /\ ret' = [ret EXCEPT ![t] = "none"]
  /\ count' = [count EXCEPT ![t] = 0]
  /\ UNCHANGED <<lock, port, disk, promised>>

\* std::lock_guard<std::mutex> lock(mutex_) in method op.
Locked(t, op) == pc[t] = "called" /\ call[t].op = op /\ mutex = NoThread

\* The method returns or throws; the lock_guard releases mutex_.
Return(t, r, n) ==
  /\ pc' = [pc EXCEPT ![t] = "idle"]
  /\ ret' = [ret EXCEPT ![t] = r]
  /\ count' = [count EXCEPT ![t] = n]
  /\ mutex' = NoThread /\ turns' = 0

\* Another round of a loop; more than MaxTransfer of them are not told apart.
Turn == IF turns > MaxTransfer THEN turns ELSE turns + 1

\* The method goes on with mutex_ held, having moved n bytes.
Hold(t, where, n) ==
  /\ pc' = [pc EXCEPT ![t] = where]
  /\ count' = [count EXCEPT ![t] = n]
  /\ mutex' = t
  /\ turns' = IF pc[t] = where THEN Turn ELSE 0
  /\ UNCHANGED ret

-----------------------------------------------------------------------------
(* Lifecycle.                                                              *)

\* Mutant: no check of the channel type.
OpenLockedUntyped(t, c) ==
  \/ /\ isOpen' = TRUE
     /\ config' = c
     /\ file' = IF c \in Writable THEN <<>> ELSE file
     /\ offset' = 0 /\ committed' = file'
     /\ Return(t, "true", 0)
  \/ /\ isOpen' = FALSE
     /\ UNCHANGED <<config, disk>>
     /\ Return(t, "open_error", 0)

\* open_locked(c) on a closed port: the type check, the directories and the
\* open, either of which may fail; O_TRUNC empties a file opened for writing.
OpenLocked(t, c) ==
  \/ /\ c \in FileConfigs
     /\ isOpen' = TRUE
     /\ config' = c
     /\ file' = IF c \in Writable THEN <<>> ELSE file
     /\ offset' = 0 /\ committed' = file'
     /\ Return(t, "true", 0)
  \/ /\ isOpen' = FALSE
     /\ UNCHANGED <<config, disk>>
     /\ Return(t, "open_error", 0)

\* open and reconfigure: the port is closed whatever open_locked finds.
Open(t) ==
  /\ Locked(t, "open") \/ Locked(t, "reconfigure")
  /\ OpenLocked(t, call[t].cfg)
  /\ promised' = {}
  /\ UNCHANGED call

\* reconnect does not ask whether the port is open.
Reconnect(t) ==
  /\ Locked(t, "reconnect")
  /\ OpenLocked(t, config)
  /\ promised' = {}
  /\ UNCHANGED call

Close(t) ==
  /\ Locked(t, "close")
  /\ isOpen' = FALSE
  /\ promised' = {}
  /\ Return(t, "done", 0)
  /\ UNCHANGED <<call, config, disk>>

-----------------------------------------------------------------------------
(* Queries.                                                                *)

Quiet == UNCHANGED <<call, port, disk, promised>>

IsOpen(t) ==
  /\ Locked(t, "is_open")
  /\ Return(t, IF isOpen THEN "true" ELSE "false", 0)
  /\ Quiet

\* flush and drain: ::fsync, which may fail.
Flush(t) ==
  /\ Locked(t, "flush")
  /\ \/ isOpen /\ Return(t, "true", 0)
     \/ Return(t, "false", 0)
  /\ Quiet

\* static_cast<int>(n)
ToInt(n) == ((n + IntHalf) % (2 * IntHalf)) - IntHalf

\* What the next read can give: the rest of the file, or in loop mode all of
\* it once the rest is empty.
Remaining ==
  IF offset < Len(file) THEN Len(file) - offset
  ELSE IF config \in Looping THEN Len(file) ELSE 0

\* On an open port ::lseek or ::fstat may fail.
Available(t) ==
  /\ Locked(t, "available")
  /\ \/ Return(t, "minus1", 0) /\ UNCHANGED promised
     \/ /\ isOpen
        /\ Return(t, "count", ToInt(Remaining))
        /\ promised' = IF ToInt(Remaining) > 0 THEN promised \cup {t} ELSE promised
  /\ UNCHANGED <<call, port, disk>>

-----------------------------------------------------------------------------
(* Reading.                                                                *)

\* A transfer of no bytes returns before it takes the lock.
NoTransfer(t) ==
  /\ pc[t] = "called" /\ call[t].op \in {"read", "write"} /\ call[t].len = 0
  /\ pc' = [pc EXCEPT ![t] = "idle"]
  /\ ret' = [ret EXCEPT ![t] = "count"]
  /\ UNCHANGED <<call, count, lock, port, disk, promised>>

Read(t) ==
  /\ Locked(t, "read") /\ call[t].len > 0
  /\ \/ ~isOpen /\ Return(t, "read_error", 0)
     \/ isOpen /\ Hold(t, "reading", 0)
  /\ Quiet

\* The loop of read_locked is over with n bytes: throttle, then return.
LeaveRead(t, n) ==
  IF n > 0 /\ config \in Throttled THEN Hold(t, "sleeping", n)
  ELSE Return(t, "count", n)

\* Mutant: total = n instead of total += n.
ReadSomeRestarts(t) ==
  /\ pc[t] = "reading"
  /\ \E n \in 1..(call[t].len - count[t]) :
       /\ offset + n <= Len(file)
       /\ offset' = offset + n
       /\ IF n = call[t].len THEN LeaveRead(t, n) ELSE Hold(t, "reading", n)
  /\ promised' = {}
  /\ UNCHANGED <<call, port, bytes>>

\* ::read gives some of the bytes asked for.
ReadSome(t) ==
  /\ pc[t] = "reading"
  /\ \E n \in 1..(call[t].len - count[t]) :
       /\ offset + n <= Len(file)
       /\ offset' = offset + n
       /\ IF count[t] + n = call[t].len THEN LeaveRead(t, count[t] + n)
          ELSE Hold(t, "reading", count[t] + n)
  /\ promised' = {}
  /\ UNCHANGED <<call, port, bytes>>

\* Mutant: the loop flag is not looked at.
ReadEndAlwaysWraps(t) ==
  /\ pc[t] = "reading" /\ offset = Len(file)
  /\ IF count[t] = 0 /\ file # <<>>
     THEN offset' = 0 /\ turns' = Turn /\ UNCHANGED <<client, mutex, promised>>
     ELSE LeaveRead(t, count[t]) /\ UNCHANGED <<call, offset, promised>>
  /\ UNCHANGED <<port, bytes>>

\* Mutant: the end of the file always stops the read.
ReadEndNeverWraps(t) ==
  /\ pc[t] = "reading" /\ offset = Len(file)
  /\ LeaveRead(t, count[t])
  /\ Quiet

\* Mutant: the loop continues without having sought.
ReadEndNoSeek(t) ==
  /\ pc[t] = "reading" /\ offset = Len(file)
  /\ IF config \in Looping /\ count[t] = 0
     THEN turns' = Turn /\ UNCHANGED <<client, mutex, promised, offset>>
     ELSE LeaveRead(t, count[t]) /\ UNCHANGED <<call, offset, promised>>
  /\ UNCHANGED <<port, bytes>>

\* ::read reports the end of the file: seek to its start or stop.
ReadEnd(t) ==
  /\ pc[t] = "reading" /\ offset = Len(file)
  /\ \/ /\ config \in Looping /\ count[t] = 0
        /\ offset' = 0 /\ turns' = Turn
        /\ UNCHANGED <<client, mutex, promised>>
     \/ /\ config \notin Looping \/ count[t] > 0
        /\ LeaveRead(t, count[t])
        /\ UNCHANGED <<call, offset, promised>>
  /\ UNCHANGED <<port, bytes>>

\* ::read or ::lseek fails: what was read before is lost to the caller.
ReadFails(t) ==
  /\ pc[t] = "reading"
  /\ Return(t, "read_error", 0)
  /\ Quiet

ThrottleEnds(t) ==
  /\ pc[t] = "sleeping"
  /\ Return(t, "count", count[t])
  /\ Quiet

-----------------------------------------------------------------------------
(* Writing.                                                                *)

Write(t) ==
  /\ Locked(t, "write") /\ call[t].len > 0
  /\ \/ /\ ~isOpen \/ config \notin Writable
        /\ Return(t, "open_error", 0)
     \/ isOpen /\ config \in Writable /\ Hold(t, "writing", 0)
  /\ Quiet

\* n bytes of thread t's buffer, after the first from bytes, written at the
\* offset: over what is there and past the end.
Overwritten(t, from, n) ==
  [i \in 1..(IF offset + n > Len(file) THEN offset + n ELSE Len(file)) |->
     IF i \in (offset + 1)..(offset + n)
     THEN [by |-> t, nth |-> from + i - offset]
     ELSE file[i]]

\* Mutant: the lock covers one ::write, not the loop.
WriteSomeUnlocks(t) ==
  /\ pc[t] = "writing"
  /\ \E n \in 1..(call[t].len - count[t]) :
       /\ offset + n <= DiskSize
       /\ file' = Overwritten(t, count[t], n)
       /\ offset' = offset + n
       /\ IF count[t] + n = call[t].len
          THEN Return(t, "count", count[t] + n) /\ committed' = file'
          ELSE /\ count' = [count EXCEPT ![t] = @ + n]
               /\ mutex' = NoThread /\ turns' = 0
               /\ UNCHANGED <<pc, ret, committed>>
  /\ UNCHANGED <<call, port, promised>>

\* ::write takes some of the bytes left.
WriteSome(t) ==
  /\ pc[t] = "writing"
  /\ \E n \in 1..(call[t].len - count[t]) :
       /\ offset + n <= DiskSize
       /\ file' = Overwritten(t, count[t], n)
       /\ offset' = offset + n
       /\ \/ /\ count[t] + n = call[t].len
             /\ Return(t, "count", count[t] + n) /\ committed' = file'
          \/ /\ count[t] + n < call[t].len
             /\ Hold(t, "writing", count[t] + n) /\ UNCHANGED committed
  /\ UNCHANGED <<call, port, promised>>

\* ::write fails on a full disk, and may fail at any time: the bytes written
\* before stay in the file.
WriteThrows(t) ==
  /\ pc[t] = "writing"
  /\ Return(t, "open_error", 0)
  /\ committed' = file
  /\ UNCHANGED <<call, port, file, offset, promised>>

DiskFull(t) == offset = DiskSize /\ WriteThrows(t)

WriteFails(t) == WriteThrows(t)

-----------------------------------------------------------------------------
TakesLock(t) ==
  \/ Open(t) \/ Reconnect(t) \/ Close(t) \/ IsOpen(t) \/ Flush(t) \/ Available(t)
  \/ Read(t) \/ Write(t)

\* What a method does next as long as the disk works.
Continues(t) ==
  \/ NoTransfer(t) \/ ReadSome(t) \/ ReadEnd(t) \/ ThrottleEnds(t)
  \/ WriteSome(t) \/ DiskFull(t)

Next ==
  \E t \in Threads :
    \/ Invoke(t) \/ TakesLock(t) \/ Continues(t) \/ ReadFails(t) \/ WriteFails(t)

Spec == Init /\ [][Next]_vars

-----------------------------------------------------------------------------
(* Safety.                                                                 *)

\* Reads, writes, queries and failures never change or remove a byte that a
\* session without loop mode has recorded: although reads share the offset
\* with writes, no order of calls moves it back.
RecordingGrows ==
  [][/\ config \notin Looping
     /\ \A t \in Threads : pc'[t] # pc[t] => call[t].op \notin Lifecycle
     => /\ Len(file) <= Len(file')
        /\ \A i \in 1..Len(file) : file'[i] = file[i]]_vars

\* In a recording without loop mode the bytes of one write are together and in
\* order, however many ::write calls they took and whoever else writes.  (In
\* loop mode a read may take the offset back, and a later write goes over the
\* middle of an earlier one.)
RecordingWhole ==
  config \in Writable \ Looping =>
    \A i \in 1..Len(file) :
      file[i].nth > 1 => i > 1 /\ file[i - 1] = [file[i] EXCEPT !.nth = @ - 1]

\* What available() promised, the next read of the port gives: it does not
\* come back empty.
AvailableKept ==
  [][\A t \in promised :
       pc[t] \in Inside /\ pc'[t] = "idle" /\ ret'[t] = "count" => count'[t] > 0]_vars

\* A call of n bytes makes at most n system calls after its first one, however
\* few bytes each of them moves, wherever the file ends and whatever the other
\* threads call meanwhile (those that a signal interrupts not counted): all
\* but a read of a looping file that is empty.
LoopsBounded ==
  \A t \in Threads :
    pc[t] \in {"reading", "writing"} /\ ~(config \in Looping /\ file = <<>>)
      => turns <= call[t].len

-----------------------------------------------------------------------------
(* Liveness: the code inside a method runs on; the disk need not fail.     *)

FairSpec == Spec /\ \A t \in Threads : WF_vars(TakesLock(t)) /\ WF_vars(Continues(t))

\* Every loop of the port ends, and with it the hold on the mutex, whatever
\* short reads and writes, signals and wraps it goes through: all but the
\* endless replay of an empty file.
LoopsEnd ==
  \A t \in Threads : mutex = t ~> mutex # t \/ (config \in Looping /\ file = <<>>)

\* Every read returns, with the number of bytes it placed in the buffer.
ReadReturns == \A t \in Threads : pc[t] = "reading" ~> pc[t] = "idle"

-----------------------------------------------------------------------------
(* The contract of i_io_port.                                              *)

NoQuestion == [op |-> "none", cfg |-> DefaultConfig]

Question(c) ==
  [op  |-> IF c.op \in {"read", "write"} /\ c.len = 0 THEN "nothing" ELSE c.op,
   cfg |-> c.cfg]

AnswerTo(r) ==
  IF r = "none" THEN "pending"
  ELSE IF r \in {"open_error", "read_error"} THEN "error"
  ELSE r

Contract ==
  INSTANCE IoPort WITH
    Unset <- DefaultConfig, Nobody <- NoThread, Exempt <- {},
    open <- isOpen, changer <- NoThread, applied <- config,
    asked <- [t \in Threads |-> IF pc[t] = "idle" THEN NoQuestion ELSE Question(call[t])],
    answer <- [t \in Threads |-> AnswerTo(ret[t])]

\* The port keeps the contract: its calls take effect one at a time, a failed
\* open leaves the configuration, reconnect restores it, and every answer
\* about the port is true when it is given, however long the loop of a read
\* or a write went on before it.
FileImplements == Contract!Spec

-----------------------------------------------------------------------------
(* The calls as single steps on the file.                                  *)

\* Bytes that the call which holds mutex_ has moved so far.
Moved == IF mutex = NoThread THEN 0 ELSE count[mutex]

Atomic ==
  INSTANCE AtomicFile WITH
    Unset <- DefaultConfig, IntLimit <- IntHalf,
    open <- isOpen, file <- committed, place <- offset - Moved,
    asked <- [t \in Threads |-> IF pc[t] = "idle" THEN NoCall ELSE call[t]],
    told <- [t \in Threads |->
               IF pc[t] = "idle" THEN [ret |-> ret[t], count |-> count[t]]
               ELSE [ret |-> "none", count |-> 0]]

\* However the system calls cut them up, fail or are interrupted, reads and
\* writes are single steps on the file, in every mode: a write puts all of its
\* buffer at the place where the file is or, when it throws, the beginning of
\* it; a read gets the bytes that follow the place and fewer than asked only
\* at the end of the file; nothing but a successful open empties the file.
FileAtomic == Atomic!Spec

=============================================================================
