----------------------------- MODULE PortObjects -----------------------------
(***************************************************************************)
(* The lives of uart_port objects: created by io_port_factory, kept by     *)
(* shared_ptrs, used through io_channel_wrappers that hold a weak_ptr, and *)
(* moved into one another (src/io_channel_wrapper.cpp, the constructors,   *)
(* destructor and assignment of src/uart/uart_port.cpp).                   *)
(*                                                                         *)
(* The methods of a port are reduced to what they do to its mutex and its  *)
(* descriptor; UartPort has their detail.  An object is never created      *)
(* twice: a weak_ptr to a destroyed object does not come back to life.     *)
(***************************************************************************)

CONSTANTS
  Threads,
  Ports,      \* uart_port objects
  Fds,        \* descriptor numbers of the process
  NoThread,   \* a free mutex
  NoPort,     \* an empty shared_ptr
  NoFd        \* fd_ = -1

\* The methods of io_channel_wrapper; "transfer" is a read, write or drain,
\* which may block, and "query" one of those that only look.
Ops == {"initialize", "shutdown", "reconnect", "reconfigure", "query", "transfer"}

ASSUME ObjectsAssumption ==
  /\ NoThread \notin Threads
  /\ NoPort \notin Ports
  /\ NoFd \notin Fds

VARIABLES
  life,     \* each object: not yet, alive, or destroyed
  owns,     \* the objects that each thread keeps a shared_ptr to
  pinned,   \* the object that the shared_ptr of a wrapper's call keeps
  mutex,    \* mutex_ of each object
  fd,       \* fd_ of each object
  fdTable,  \* the process's descriptors, and whose they are
  pc,       \* where each thread is
  work      \* what it does there, and with which objects

refs   == <<life, owns, pinned>>
ports  == <<mutex, fd, fdTable>>
vars   == <<refs, ports, pc, work>>

Works == [op : Ops \cup {"assign"}, port : Ports, from : Ports]
NoWork == [op |-> "none", port |-> NoPort, from |-> NoPort]

\* Where a thread uses the object work.port.
Using == {"called", "blocked", "closing", "assigning", "half"}

TypeOK ==
  /\ life \in [Ports -> {"unborn", "alive", "gone"}]
  /\ owns \in [Threads -> SUBSET Ports]
  /\ pinned \in [Threads -> Ports \cup {NoPort}]
  /\ mutex \in [Ports -> Threads \cup {NoThread}]
  /\ fd \in [Ports -> Fds \cup {NoFd}]
  /\ fdTable \in [Fds -> {"free", "tty", "other"}]
  /\ pc \in [Threads -> {"idle", "leaving"} \cup Using]
  /\ work \in [Threads -> Works \cup {NoWork}]
  /\ \A p \in Ports : life[p] # "alive" =>
       /\ fd[p] = NoFd /\ mutex[p] = NoThread
       /\ \A t \in Threads : p \notin owns[t] /\ pinned[t] # p

Init ==
  /\ life = [p \in Ports |-> "unborn"]
  /\ owns = [t \in Threads |-> {}]
  /\ pinned = [t \in Threads |-> NoPort]
  /\ mutex = [p \in Ports |-> NoThread]
  /\ fd = [p \in Ports |-> NoFd]
  /\ fdTable = [n \in Fds |-> "free"]
  /\ pc = [t \in Threads |-> "idle"]
  /\ work = [t \in Threads |-> NoWork]

-----------------------------------------------------------------------------
(* Descriptors.                                                            *)

\* The descriptor table after ::close(fd_) of p, if p has one.
Without(p) == [n \in Fds |-> IF n = fd[p] THEN "free" ELSE fdTable[n]]

CloseIt(p) ==
  /\ fdTable' = Without(p)
  /\ fd' = [fd EXCEPT ![p] = NoFd]

\* close_locked and open_locked: another descriptor, or none.
Reopen(p) ==
  \/ CloseIt(p)
  \/ \E n \in Fds :
       /\ Without(p)[n] = "free"
       /\ fdTable' = [Without(p) EXCEPT ![n] = "tty"]
       /\ fd' = [fd EXCEPT ![p] = n]

-----------------------------------------------------------------------------
(* Lifetime.                                                               *)

\* No shared_ptr but those of thread t keeps p.
OnlyRefOf(t, p) == \A u \in Threads \ {t} : p \notin owns[u] /\ pinned[u] # p

\* Mutant: the destructor does not close.
DestroyLeaks(p) ==
  /\ life' = [life EXCEPT ![p] = "gone"]
  /\ UNCHANGED <<fd, fdTable>>

\* ~uart_port, which takes no lock.
Destroy(p) ==
  /\ life' = [life EXCEPT ![p] = "gone"]
  /\ CloseIt(p)

\* io_port_factory::create: a new object with no descriptor.
Create(t) ==
  /\ pc[t] = "idle"
  /\ \E p \in Ports :
       /\ life[p] = "unborn"
       /\ life' = [life EXCEPT ![p] = "alive"]
       /\ owns' = [owns EXCEPT ![t] = @ \cup {p}]
  /\ UNCHANGED <<pinned, ports, pc, work>>

\* The application hands a copy of a shared_ptr to another thread.
Share(t) ==
  /\ pc[t] = "idle"
  /\ \E p \in owns[t], u \in Threads :
       /\ pc[u] = "idle"
       /\ owns' = [owns EXCEPT ![u] = @ \cup {p}]
  /\ UNCHANGED <<life, pinned, ports, pc, work>>

\* The application resets one; the last one destroys the object.
Forget(t) ==
  /\ pc[t] = "idle"
  /\ \E p \in owns[t] :
       /\ owns' = [owns EXCEPT ![t] = @ \ {p}]
       /\ \/ OnlyRefOf(t, p) /\ Destroy(p)
          \/ ~OnlyRefOf(t, p) /\ UNCHANGED <<life, fd, fdTable>>
  /\ UNCHANGED <<pinned, mutex, pc, work>>

-----------------------------------------------------------------------------
(* Calls through a wrapper.                                                *)

Goes(t, where) == pc' = [pc EXCEPT ![t] = where]

\* The thread is back in the application.
Done(t) ==
  /\ Goes(t, "idle")
  /\ work' = [work EXCEPT ![t] = NoWork]

Begins(t, op, p) ==
  /\ Goes(t, "called")
  /\ work' = [work EXCEPT ![t] = [op |-> op, port |-> p, from |-> p]]

\* Mutant: the wrapper looks at the weak_ptr and keeps nothing.
CallUnpinned(t) ==
  /\ pc[t] = "idle"
  /\ \E op \in Ops, p \in Ports :
       /\ life[p] # "unborn"
       /\ \/ life[p] = "alive" /\ Begins(t, op, p)
          \/ life[p] = "gone" /\ UNCHANGED <<pc, work>>
  /\ UNCHANGED <<refs, ports>>

\* auto port = port_.lock(): the call keeps the object, or returns at once
\* with false, -1 or an exception.
Call(t) ==
  /\ pc[t] = "idle"
  /\ \E op \in Ops, p \in Ports :
       /\ life[p] # "unborn"
       /\ \/ /\ life[p] = "alive"
             /\ pinned' = [pinned EXCEPT ![t] = p]
             /\ Begins(t, op, p)
          \/ /\ life[p] = "gone"
             /\ UNCHANGED <<pinned, pc, work>>
  /\ UNCHANGED <<life, owns, ports>>

\* The method op of the port gets past its lock_guard.
Enters(t, op) ==
  pc[t] = "called" /\ work[t].op = op /\ mutex[work[t].port] = NoThread

\* initialize may be given a configuration of another channel, which open
\* refuses before it closes anything.
Initialize(t) ==
  /\ Enters(t, "initialize")
  /\ Reopen(work[t].port) \/ UNCHANGED <<fd, fdTable>>
  /\ Goes(t, "leaving")
  /\ UNCHANGED <<refs, mutex, work>>

\* reconnect: false on a closed port.
Reconnect(t) ==
  /\ Enters(t, "reconnect")
  /\ \/ fd[work[t].port] = NoFd /\ UNCHANGED <<fd, fdTable>>
     \/ fd[work[t].port] # NoFd /\ Reopen(work[t].port)
  /\ Goes(t, "leaving")
  /\ UNCHANGED <<refs, mutex, work>>

Reconfigure(t) ==
  /\ Enters(t, "reconfigure")
  /\ Reopen(work[t].port)
  /\ Goes(t, "leaving")
  /\ UNCHANGED <<refs, mutex, work>>

\* shutdown: is_open(), and close() in a critical section of its own.
ShutdownAsks(t) ==
  /\ Enters(t, "shutdown")
  /\ \/ fd[work[t].port] = NoFd /\ Goes(t, "leaving")
     \/ fd[work[t].port] # NoFd /\ Goes(t, "closing")
  /\ UNCHANGED <<refs, ports, work>>

ShutdownCloses(t) ==
  /\ pc[t] = "closing" /\ mutex[work[t].port] = NoThread
  /\ CloseIt(work[t].port)
  /\ Goes(t, "leaving")
  /\ UNCHANGED <<refs, mutex, work>>

\* is_ready, get_fd, get_config, available and flush leave the descriptor
\* alone.  (What becomes of the reference that get_config returns, once the
\* call keeps the object no more, is not modelled.)
Query(t) ==
  /\ Enters(t, "query")
  /\ Goes(t, "leaving")
  /\ UNCHANGED <<refs, ports, work>>

\* A transfer on an open port may block, with mutex_ held.
Transfer(t) ==
  /\ Enters(t, "transfer")
  /\ \/ fd[work[t].port] = NoFd /\ Goes(t, "leaving") /\ UNCHANGED mutex
     \/ /\ fd[work[t].port] # NoFd
        /\ Goes(t, "blocked")
        /\ mutex' = [mutex EXCEPT ![work[t].port] = t]
  /\ UNCHANGED <<refs, fd, fdTable, work>>

TransferEnds(t) ==
  /\ pc[t] = "blocked"
  /\ mutex' = [mutex EXCEPT ![work[t].port] = NoThread]
  /\ Goes(t, "leaving")
  /\ UNCHANGED <<refs, fd, fdTable, work>>

\* The port has returned; the wrapper's shared_ptr goes out of scope, and
\* destroys the object if it was the last.
Leave(t) ==
  LET p == pinned[t] IN
  /\ pc[t] = "leaving"
  /\ pinned' = [pinned EXCEPT ![t] = NoPort]
  /\ \/ OnlyRefOf(t, p) /\ p \notin owns[t] /\ Destroy(p)
     \/ ~(OnlyRefOf(t, p) /\ p \notin owns[t]) /\ UNCHANGED <<life, fd, fdTable>>
  /\ Done(t)
  /\ UNCHANGED <<owns, mutex>>

-----------------------------------------------------------------------------
(* Moves, between objects that the thread keeps.                           *)

\* Mutant: the moved-from object keeps its descriptor.
TakesCopy(p, q) == fd' = [fd EXCEPT ![p] = fd[q]]

\* fd_ = other.fd_; other.fd_ = -1.
Takes(p, q) == fd' = [fd EXCEPT ![p] = fd[q], ![q] = NoFd]

\* Mutant: the move constructor takes no lock.
MoveConstructUnlocked(t) ==
  /\ pc[t] = "idle"
  /\ \E q \in owns[t], p \in Ports :
       /\ life[p] = "unborn"
       /\ life' = [life EXCEPT ![p] = "alive"]
       /\ owns' = [owns EXCEPT ![t] = @ \cup {p}]
       /\ Takes(p, q)
  /\ UNCHANGED <<pinned, mutex, fdTable, pc, work>>

\* uart_port(uart_port&&), under the mutex of the object moved from.
MoveConstruct(t) ==
  /\ pc[t] = "idle"
  /\ \E q \in owns[t], p \in Ports :
       /\ life[p] = "unborn" /\ mutex[q] = NoThread
       /\ life' = [life EXCEPT ![p] = "alive"]
       /\ owns' = [owns EXCEPT ![t] = @ \cup {p}]
       /\ Takes(p, q)
  /\ UNCHANGED <<pinned, mutex, fdTable, pc, work>>

\* operator=(uart_port&&); an assignment to itself does nothing.
Assign(t) ==
  /\ pc[t] = "idle"
  /\ \E p, q \in owns[t] :
       /\ p # q
       /\ work' = [work EXCEPT ![t] = [op |-> "assign", port |-> p, from |-> q]]
       /\ Goes(t, "assigning")
  /\ UNCHANGED <<refs, ports>>

Pair(t) == {work[t].port, work[t].from}

\* std::lock takes one of the mutexes,
LockOne(t) ==
  /\ pc[t] = "assigning"
  /\ \E p \in Pair(t) : mutex[p] = NoThread /\ mutex' = [mutex EXCEPT ![p] = t]
  /\ Goes(t, "half")
  /\ UNCHANGED <<refs, fd, fdTable, work>>

\* Mutant: waits for the other.
BackOffNever(t) == pc[t] = "half" /\ FALSE /\ UNCHANGED vars

\* Mutant: waits for the other with the first one in hand.
BackOffKeeps(t) ==
  /\ pc[t] = "half"
  /\ \A p \in Pair(t) : mutex[p] # NoThread
  /\ Goes(t, "assigning")
  /\ UNCHANGED <<refs, ports, work>>

\* tries the other, and gives the first one back when that fails.
BackOff(t) ==
  /\ pc[t] = "half"
  /\ \A p \in Pair(t) : mutex[p] # NoThread
  /\ mutex' = [p \in Ports |-> IF mutex[p] = t THEN NoThread ELSE mutex[p]]
  /\ Goes(t, "assigning")
  /\ UNCHANGED <<refs, fd, fdTable, work>>

\* Mutant: the object assigned to forgets what it had open.
MoveAssignLeaks(t) ==
  LET p == work[t].port
      q == work[t].from IN
  /\ pc[t] = "half"
  /\ \E r \in Pair(t) : mutex[r] = NoThread
  /\ Takes(p, q)
  /\ mutex' = [r \in Ports |-> IF mutex[r] = t THEN NoThread ELSE mutex[r]]
  /\ Done(t)
  /\ UNCHANGED <<refs, fdTable>>

\* With both: the body of the assignment, and both unlocked.
MoveAssign(t) ==
  LET p == work[t].port
      q == work[t].from IN
  /\ pc[t] = "half"
  /\ \E r \in Pair(t) : mutex[r] = NoThread
  /\ fdTable' = Without(p)
  /\ Takes(p, q)
  /\ mutex' = [r \in Ports |-> IF mutex[r] = t THEN NoThread ELSE mutex[r]]
  /\ Done(t)
  /\ UNCHANGED refs

-----------------------------------------------------------------------------
\* Another component of the process opens or closes a descriptor of its own.
OtherDescriptor ==
  /\ \E n \in Fds :
       \/ fdTable[n] = "free" /\ fdTable' = [fdTable EXCEPT ![n] = "other"]
       \/ fdTable[n] = "other" /\ fdTable' = [fdTable EXCEPT ![n] = "free"]
  /\ UNCHANGED <<refs, mutex, fd, pc, work>>

Lifetime(t) == Create(t) \/ Share(t) \/ Forget(t)

Wrapped(t) ==
  \/ Call(t) \/ Leave(t)
  \/ Initialize(t) \/ Reconnect(t) \/ Reconfigure(t)
  \/ ShutdownAsks(t) \/ ShutdownCloses(t) \/ Query(t)
  \/ Transfer(t) \/ TransferEnds(t)

Moves(t) == MoveConstruct(t) \/ Assign(t) \/ LockOne(t) \/ BackOff(t) \/ MoveAssign(t)

ThreadStep(t) == Lifetime(t) \/ Wrapped(t) \/ Moves(t)

Next == (\E t \in Threads : ThreadStep(t)) \/ OtherDescriptor

Spec == Init /\ [][Next]_vars

\* A thread that has one of the mutexes of an assignment goes on.
FairSpec == Spec /\ \A t \in Threads : WF_vars(BackOff(t) \/ MoveAssign(t))

-----------------------------------------------------------------------------
(* Properties.                                                             *)

\* The objects that thread t touches: through the wrapper's shared_ptr, or as
\* a side of an assignment.
Touched(t) ==
  IF pc[t] = "leaving" THEN {work[t].port}
  ELSE IF pc[t] \in {"assigning", "half"} THEN Pair(t)
  ELSE IF pc[t] \in Using THEN {work[t].port}
  ELSE {}

\* No thread is in a method of an object, or waits for its mutex, when it is
\* destroyed, whoever drops the last shared_ptr.  (It does not cover a caller
\* of get_config that still reads through the reference it was given.)
NoUseAfterDestruction ==
  \A t \in Threads : \A p \in Touched(t) : life[p] = "alive"

\* Every descriptor on the tty belongs to just one object that is alive: moves
\* leave no second owner, and no assignment or destructor forgets one.
OneOwnerPerFd ==
  /\ \A n \in Fds : fdTable[n] = "tty" => \E p \in Ports : fd[p] = n /\ life[p] = "alive"
  /\ \A p \in Ports : fd[p] # NoFd => fdTable[fd[p]] = "tty"
  /\ \A p, q \in Ports : fd[p] # NoFd /\ fd[p] = fd[q] => p = q

\* No circle of threads that wait for each other's mutexes: whoever has one
\* is in a transfer, or in an assignment that does not wait, and has no other.
NoHoldAndWait ==
  \A t \in Threads, p \in Ports :
    mutex[p] = t => /\ pc[t] \in {"blocked", "half"} /\ p \in Touched(t)
                    /\ \A q \in Ports : mutex[q] = t => q = p

\* No ::close of a port, a destructor or an assignment hits a descriptor of
\* another component.
NeverClosesOthers ==
  [][(pc' # pc \/ owns' # owns)
       => \A n \in Fds : fdTable[n] = "other" => fdTable'[n] = "other"]_vars

\* While a transfer is under way on a port, no other thread closes, moves or
\* replaces its descriptor.
TransferKeepsFd ==
  [][\A t \in Threads :
       pc[t] = "blocked" => fd'[work[t].port] = fd[work[t].port]]_vars

\* Two threads that assign the same objects crosswise do not block each other
\* for good, nor does one keep a mutex while a transfer keeps the other.
HalfLockedEnds == \A t \in Threads : pc[t] = "half" ~> pc[t] # "half"

=============================================================================
