--------------------------- MODULE I2cPortProofs ----------------------------
(***************************************************************************)
(* Safety of I2cPort, and its refinement of the i_io_port contract, for    *)
(* any number of threads, descriptors and configurations and any lengths.  *)
(***************************************************************************)
EXTENDS I2cPort, TLAPS

\* The two halves of TypeOK: of the threads, and of the port and the receiver.
ClientOK ==
  /\ pc \in [Threads -> {"idle", "called", "fetching"}]
  /\ call \in [Threads -> CallSet \cup {NoCall}]
  /\ ret \in [Threads -> Results]
  /\ count \in [Threads -> Nat]
  /\ moved \in [Threads -> Nat]
  /\ mutex \in Threads \cup {NoThread}

PortOK ==
  /\ fd \in Fds \cup {NoFd}
  /\ config \in I2cConfigs \cup {DefaultConfig}
  /\ held \subseteq Fds
  /\ present \in BOOLEAN
  /\ bus \in Threads \cup {NoThread}
  /\ reg \in Registers
  /\ queue \in 0..MaxQueue
  /\ promised \in [Threads -> Nat]

\* Between two messages a thread has mutex_ and the bus; nobody else has.
Exclusion ==
  /\ bus = mutex
  /\ \A t \in Threads : pc[t] = "fetching" <=> mutex = t

\* A fetch belongs to a read of at least one byte, or to available, of an
\* open port.
Fetching ==
  \A t \in Threads :
    pc[t] = "fetching" =>
      /\ fd \in Fds
      /\ \/ call[t].op = "available"
         \/ call[t].op = "read" /\ call[t].len > 0

\* A thread outside has been answered, or has not called yet.
Answering ==
  \A t \in Threads :
    /\ pc[t] # "idle" => ret[t] = "none" /\ call[t] \in CallSet
    /\ call[t] = NoCall => ret[t] = "none"

\* What was counted for a thread still waits.
Waiting == \A t \in Threads : promised[t] <= queue

IInv ==
  /\ ClientOK /\ PortOK /\ Exclusion /\ Fetching /\ Answering
  /\ DescriptorOwned /\ FetchesSelected /\ Waiting

-----------------------------------------------------------------------------
(* Lemmas about the operators.                                             *)

\* The two bytes of the count give the count.
LEMMA JoinedCount ==
  ASSUME NEW n \in Nat PROVE Joined(n \div Byte, n % Byte) = n
BY I2cAssumption DEF Joined

\* The cast to __u16 keeps a length that it can represent.
LEMMA MessageLenKept ==
  ASSUME NEW n \in Nat PROVE MessageLen(n) \in Nat /\ (n < Word => MessageLen(n) = n)
BY I2cAssumption DEF MessageLen

\* The outcomes of open_locked.
LEMMA OpenLockedOutcomes ==
  ASSUME DescriptorOwned, PortOK, NEW t \in Threads, NEW c, OpenLocked(t, c)
  PROVE  \/ /\ c \in I2cConfigs
            /\ fd' \in Fds /\ held' = {fd'} /\ config' = c
            /\ Return(t, "true", 0, 0)
         \/ /\ fd' = NoFd /\ held' = {} /\ config' = config
            /\ \E r \in {"open_error", "config_error"} : Return(t, r, 0, 0)
<1>1. Others = {}
  BY DEF Others, DescriptorOwned
<1>2. CASE CanOpen(c)
  <2>1. PICK n \in Fds : fd' = n /\ held' = {n} /\ config' = c /\ Return(t, "true", 0, 0)
    BY <1>1, <1>2 DEF OpenLocked
  <2>2. QED
    BY <1>2, <2>1 DEF CanOpen
<1>3. CASE ~CanOpen(c)
  <2>1. OpenError(c) \in {"open_error", "config_error"}
    BY DEF OpenError
  <2>2. QED
    BY <1>1, <1>3, <2>1 DEF OpenLocked
<1>4. QED
  BY <1>2, <1>3

-----------------------------------------------------------------------------
(* The invariant.                                                          *)

Reopens(t) == Open(t) \/ Reconnect(t) \/ Close(t)

\* The steps that change neither the port nor the receiver.
QuietStep(t) == IsOpen(t) \/ Flush(t) \/ GetFd(t) \/ NoTransfer(t) \/ ReadFails(t)

Fetches(t) == FetchCount(t) \/ FetchStream(t) \/ BusFails(t) \/ ShortTransfer(t)

LEMMA NextSplit ==
  [Next]_vars =>
    \/ \E t \in Threads :
         \/ Invoke(t) \/ Reopens(t) \/ QuietStep(t) \/ Select(t) \/ Fetches(t)
         \/ WriteFrame(t)
    \/ Environment
    \/ UNCHANGED vars
BY DEF Next, ThreadStep, TakesLock, Continues, Reopens, QuietStep, Fetches

\* What the steps of each group do to the port and the mutex.
LEMMA ReopensEffect ==
  ASSUME IInv, NEW t \in Threads, Reopens(t)
  PROVE  /\ pc[t] = "called" /\ mutex = NoThread
         /\ call[t].op \in Lifecycle
         /\ \/ fd' \in Fds /\ held' = {fd'} /\ config' \in I2cConfigs
            \/ fd' = NoFd /\ held' = {} /\ config' = config
         /\ \E r \in {"true", "done", "open_error", "config_error"} : Return(t, r, 0, 0)
         /\ UNCHANGED <<present, device>>
         /\ NothingPromised
<1> USE DEF IInv, Locked, Calling, Lifecycle
<1>1. CASE Open(t)
  BY <1>1, OpenLockedOutcomes DEF Open
<1>2. CASE Reconnect(t)
  BY <1>2, OpenLockedOutcomes DEF Reconnect
<1>3. CASE Close(t)
  <2>1. Others = {}
    BY DEF Others, DescriptorOwned
  <2>2. QED
    BY <1>3, <2>1 DEF Close
<1>4. QED
  BY <1>1, <1>2, <1>3 DEF Reopens

LEMMA QuietEffect ==
  ASSUME NEW t \in Threads, QuietStep(t)
  PROVE  /\ pc[t] = "called"
         /\ \E r \in Results \ {"none"} : Leave(t, r, 0, 0)
         /\ mutex' = mutex \/ (mutex = NoThread /\ mutex' = NoThread)
         /\ UNCHANGED <<port, present, device, promised>>
BY DEF QuietStep, IsOpen, Flush, GetFd, NoTransfer, ReadFails, ReadError, Quiet, Return,
   Locked, Calling, Results

LEMMA FetchEffect ==
  ASSUME IInv, NEW t \in Threads, Fetches(t)
  PROVE  /\ pc[t] = "fetching"
         /\ \E r \in {"count", "minus1", "read_error"}, n, m \in Nat : Return(t, r, n, m)
         /\ bus' = NoThread
         /\ UNCHANGED <<port, present, reg>>
         /\ queue' \in 0..queue
         /\ \/ NothingPromised
            \/ UNCHANGED <<queue, promised>>
            \/ UNCHANGED queue /\ promised' = [promised EXCEPT ![t] = queue]
<1> USE I2cAssumption DEF IInv, PortOK
<1>1. CASE FetchCount(t)
  <2>1. queue \in Nat /\ Joined(queue \div Byte, queue % Byte) = queue
    BY JoinedCount
  <2>2. Return(t, "count", queue, 2) /\ promised' = [promised EXCEPT ![t] = queue]
    BY <1>1, <2>1 DEF FetchCount
  <2>3. pc[t] = "fetching" /\ bus' = NoThread /\ UNCHANGED <<port, present, reg, queue>>
    BY <1>1 DEF FetchCount
  <2>4. 2 \in Nat /\ queue \in 0..queue
    BY <2>1
  <2>5. QED
    BY <2>1, <2>2, <2>3, <2>4
<1>2. call[t].len \in Nat
  BY DEF ClientOK, CallSet, NoCall
<1>3. CASE FetchStream(t)
  BY <1>2, <1>3, MessageLenKept DEF FetchStream
<1>4. CASE BusFails(t)
  BY <1>4 DEF BusFails, ReadError
<1>5. CASE ShortTransfer(t)
  BY <1>2, <1>5 DEF ShortTransfer
<1>6. QED
  BY <1>1, <1>3, <1>4, <1>5 DEF Fetches

LEMMA WriteEffect ==
  ASSUME IInv, NEW t \in Threads, WriteFrame(t)
  PROVE  /\ pc[t] = "called" /\ mutex = NoThread
         /\ \E r \in {"count", "write_error"}, n, m \in Nat : Return(t, r, n, m)
         /\ UNCHANGED <<port, present, bus, queue, promised>>
         /\ reg' \in {reg, "write"}
<1> USE I2cAssumption DEF IInv
<1>1. call[t].len \in Nat
  BY DEF ClientOK, CallSet, NoCall
<1>2. MessageLen(call[t].len + 1) \in Nat
  BY <1>1, MessageLenKept
<1>3. QED
  BY <1>1, <1>2 DEF WriteFrame, Locked, Calling

LEMMA InitIInv == Init => IInv
BY I2cAssumption
   DEF Init, IInv, ClientOK, PortOK, Exclusion, Fetching, Answering, DescriptorOwned,
       FetchesSelected, Waiting, NoCall, Results, Registers

LEMMA ClientStep == IInv /\ [Next]_vars => ClientOK' /\ Answering'
<1> SUFFICES ASSUME IInv, [Next]_vars PROVE ClientOK' /\ Answering'
  OBVIOUS
<1> USE I2cAssumption DEF IInv, ClientOK, Answering, Results
<1>1. ASSUME NEW t \in Threads, Invoke(t) PROVE ClientOK' /\ Answering'
  <2>1. PICK c \in CallSet : call' = [call EXCEPT ![t] = c]
    BY <1>1 DEF Invoke
  <2>2. NoCall \notin CallSet
    BY DEF NoCall, CallSet, Ops, Lifecycle
  <2>3. QED
    BY <1>1, <2>1, <2>2 DEF Invoke
<1>2. ASSUME NEW t \in Threads, NEW r \in Results, NEW n \in Nat, NEW m \in Nat,
             Leave(t, r, n, m), pc[t] # "idle", mutex' \in Threads \cup {NoThread}
      PROVE  ClientOK' /\ Answering'
  <2>1. call[t] # NoCall
    BY <1>2 DEF NoCall, CallSet, Ops, Lifecycle
  <2>2. QED
    BY <1>2, <2>1 DEF Leave
<1>3. ASSUME NEW t \in Threads, Reopens(t) PROVE ClientOK' /\ Answering'
  BY <1>2, <1>3, ReopensEffect DEF Return
<1>4. ASSUME NEW t \in Threads, QuietStep(t) PROVE ClientOK' /\ Answering'
  <2>1. PICK r \in Results \ {"none"} : Leave(t, r, 0, 0)
    BY <1>4, QuietEffect
  <2>2. pc[t] # "idle" /\ mutex' \in Threads \cup {NoThread}
    BY <1>4, QuietEffect
  <2>3. QED
    BY <1>2, <2>1, <2>2
<1>5. ASSUME NEW t \in Threads, Fetches(t) PROVE ClientOK' /\ Answering'
  BY <1>2, <1>5, FetchEffect DEF Return
<1>6. ASSUME NEW t \in Threads, WriteFrame(t) PROVE ClientOK' /\ Answering'
  BY <1>2, <1>6, WriteEffect DEF Return
<1>7. ASSUME NEW t \in Threads, Select(t) PROVE ClientOK' /\ Answering'
  BY <1>7 DEF Select, Accepted, Locked, Calling
<1>8. CASE Environment \/ UNCHANGED vars
  BY <1>8 DEF Environment, DeviceProduces, OtherMaster, AdapterGone, AdapterBack, vars, client
<1>9. QED
  BY <1>1, <1>3, <1>4, <1>5, <1>6, <1>7, <1>8, NextSplit

\* The descriptors, the configuration and the receiver; and what available()
\* counted for a thread still waits.
LEMMA PortStep == IInv /\ [Next]_vars => PortOK' /\ DescriptorOwned' /\ Waiting'
<1> DEFINE Goal == PortOK /\ DescriptorOwned /\ Waiting
<1> SUFFICES ASSUME IInv, [Next]_vars PROVE Goal'
  OBVIOUS
<1> USE I2cAssumption DEF IInv, PortOK, DescriptorOwned, Waiting
<1>1. ASSUME NEW t \in Threads, Invoke(t) PROVE Goal'
  BY <1>1 DEF Invoke, port, device
<1>2. ASSUME NEW t \in Threads, Reopens(t) PROVE Goal'
  BY <1>2, ReopensEffect DEF device, NothingPromised
<1>3. ASSUME NEW t \in Threads, QuietStep(t) PROVE Goal'
  BY <1>3, QuietEffect DEF port, device
<1>4. ASSUME NEW t \in Threads, Select(t) PROVE Goal'
  BY <1>4 DEF Select, port, Registers
<1>5. ASSUME NEW t \in Threads, Fetches(t) PROVE Goal'
  BY <1>5, FetchEffect DEF port, NothingPromised
<1>6. ASSUME NEW t \in Threads, WriteFrame(t) PROVE Goal'
  BY <1>6, WriteEffect DEF port, Registers
<1>7. CASE Environment
  <2>1. CASE DeviceProduces
    BY <2>1 DEF DeviceProduces, port
  <2>2. CASE OtherMaster
    BY <2>2 DEF OtherMaster, port, Registers, NothingPromised
  <2>3. CASE AdapterGone \/ AdapterBack
    BY <2>3 DEF AdapterGone, AdapterBack, port, device
  <2>4. QED
    BY <1>7, <2>1, <2>2, <2>3 DEF Environment
<1>8. CASE UNCHANGED vars
  BY <1>8 DEF vars, port, device
<1>9. QED
  BY <1>1, <1>2, <1>3, <1>4, <1>5, <1>6, <1>7, <1>8, NextSplit

\* The mutex and the bus go together from Select to the end of the fetch, so
\* that the register stays the one that message 0 selected.
LEMMA FetchingStep == IInv /\ [Next]_vars => Exclusion' /\ Fetching' /\ FetchesSelected'
<1> DEFINE Goal == Exclusion /\ Fetching /\ FetchesSelected
<1> SUFFICES ASSUME IInv, [Next]_vars PROVE Goal'
  OBVIOUS
<1> USE I2cAssumption DEF IInv, ClientOK, Exclusion, Fetching, FetchesSelected
<1>1. ASSUME NEW t \in Threads, Invoke(t) PROVE Goal'
  BY <1>1 DEF Invoke, port, device
<1>2. ASSUME NEW t \in Threads, Reopens(t) PROVE Goal'
  BY <1>2, ReopensEffect DEF Return, Leave, device
<1>3. ASSUME NEW t \in Threads, QuietStep(t) PROVE Goal'
  BY <1>3, QuietEffect DEF Leave, port, device
<1>4. ASSUME NEW t \in Threads, Select(t) PROVE Goal'
  BY <1>4 DEF Select, Accepted, Locked, Calling, port, PortOK
<1>5. ASSUME NEW t \in Threads, Fetches(t) PROVE Goal'
  BY <1>5, FetchEffect DEF Return, Leave, port
<1>6. ASSUME NEW t \in Threads, WriteFrame(t) PROVE Goal'
  BY <1>6, WriteEffect DEF Return, Leave, port
<1>7. CASE Environment
  BY <1>7 DEF Environment, DeviceProduces, OtherMaster, AdapterGone, AdapterBack, client,
     port, device
<1>8. CASE UNCHANGED vars
  BY <1>8 DEF vars, client, port, device
<1>9. QED
  BY <1>1, <1>2, <1>3, <1>4, <1>5, <1>6, <1>7, <1>8, NextSplit

-----------------------------------------------------------------------------
(* The theorems.                                                           *)

\* The inductive invariant holds.
THEOREM Invariance == Spec => []IInv
<1>1. IInv /\ [Next]_vars => IInv'
  BY ClientStep, PortStep, FetchingStep DEF IInv
<1>2. QED
  BY <1>1, InitIInv, PTL DEF Spec

\* Every variable keeps its type; in particular config_ never takes the value
\* of a configuration of another channel (the channel_type check).
THEOREM TypeCorrect == Spec => []TypeOK
<1>1. IInv => TypeOK
  BY DEF IInv, ClientOK, PortOK, TypeOK
<1>2. QED
  BY <1>1, Invariance, PTL

\* No path through open_locked leaks a descriptor of the adapter.
THEOREM DescriptorsOwned == Spec => []DescriptorOwned
<1>1. IInv => DescriptorOwned
  BY DEF IInv
<1>2. QED
  BY <1>1, Invariance, PTL

\* Whatever the other users of the adapter do, a fetch reads the register
\* that its own message selected.
THEOREM FetchesTheSelected == Spec => []FetchesSelected
<1>1. IInv => FetchesSelected
  BY DEF IInv
<1>2. QED
  BY <1>1, Invariance, PTL

\* A read within what available() counted takes just its length out of the
\* receiver: nothing of it is filler, and the cast to __u16 does not bite.
LEMMA ReadTakesItsLength ==
  ASSUME IInv, [Next]_vars, NEW t \in Threads,
         pc[t] = "fetching", call[t].op = "read", call[t].len <= promised[t],
         ret'[t] = "count", moved'[t] > 0
  PROVE  queue' + call[t].len = queue
<1> USE I2cAssumption DEF IInv
<1>1. call[t].len \in Nat /\ promised[t] \in Nat /\ queue \in Nat /\ promised[t] <= queue
  BY DEF ClientOK, PortOK, CallSet, NoCall, Waiting
<1>2. MessageLen(call[t].len) = call[t].len
  BY <1>1, MessageLenKept DEF PortOK
<1>3. ret[t] = "none"
  BY DEF Answering
<1>4. \A u \in Threads : pc[u] = "fetching" => u = t
  BY DEF Exclusion
<1>5. ASSUME NEW u \in Threads, Fetches(u) PROVE queue' + call[t].len = queue
  <2>1. u = t
    BY <1>4, <1>5, FetchEffect
  <2>2. FetchStream(t)
    BY <1>5, <2>1 DEF Fetches, FetchCount, BusFails, ShortTransfer, Return, Leave, ReadError,
       ClientOK
  <2>3. QED
    BY <1>1, <1>2, <2>2 DEF FetchStream
<1>6. ASSUME NEW u \in Threads,
             \/ Invoke(u) \/ Reopens(u) \/ QuietStep(u) \/ Select(u) \/ WriteFrame(u)
      PROVE  FALSE
  <2>1. u # t
    BY <1>6, ReopensEffect, QuietEffect, WriteEffect DEF Invoke, Select, Accepted, Locked,
       Calling
  <2>2. ret'[t] = ret[t]
    BY <1>6, <2>1, ReopensEffect, QuietEffect, WriteEffect DEF Invoke, Select, Return, Leave,
       ClientOK
  <2>3. QED
    BY <1>3, <2>2
<1>7. ~Environment /\ ~UNCHANGED vars
  BY <1>3 DEF Environment, DeviceProduces, OtherMaster, AdapterGone, AdapterBack, vars, client
<1>8. QED
  BY <1>5, <1>6, <1>7, NextSplit

THEOREM AvailableIsKept == Spec => AvailableKept
<1>1. IInv /\ [Next]_vars =>
        [\A t \in Threads :
           /\ pc[t] = "fetching" /\ call[t].op = "read" /\ call[t].len <= promised[t]
           /\ ret'[t] = "count" /\ moved'[t] > 0
           => queue' + call[t].len = queue]_vars
  BY ReadTakesItsLength
<1>2. QED
  BY <1>1, Invariance, PTL DEF Spec, AvailableKept

-----------------------------------------------------------------------------
(* The counts that reads and writes return.                                *)

\* Every transfer is short enough for i2c_msg::len: a read with its buffer, a
\* write with the register in front of it.
Fitting ==
  \A t \in Threads : \A c \in Calls[t] :
    /\ c.op = "read" => c.len < Word
    /\ c.op = "write" => c.len + 1 < Word

\* A thread makes the calls it may make.
OwnCalls == \A t \in Threads : call[t] \in Calls[t] \cup {NoCall}

LEMMA OwnCallsStep == IInv /\ OwnCalls /\ [Next]_vars => OwnCalls'
<1> SUFFICES ASSUME IInv, OwnCalls, [Next]_vars PROVE OwnCalls'
  OBVIOUS
<1> USE DEF OwnCalls
<1>1. ASSUME NEW t \in Threads, Invoke(t) PROVE OwnCalls'
  BY <1>1 DEF Invoke, IInv, ClientOK
<1>2. ASSUME NEW t \in Threads,
             Reopens(t) \/ QuietStep(t) \/ Select(t) \/ Fetches(t) \/ WriteFrame(t)
      PROVE  UNCHANGED call
  BY <1>2, ReopensEffect, QuietEffect, FetchEffect, WriteEffect DEF Return, Leave, Select
<1>3. CASE Environment \/ UNCHANGED vars
  BY <1>3 DEF Environment, DeviceProduces, OtherMaster, AdapterGone, AdapterBack, vars, client
<1>4. QED
  BY <1>1, <1>2, <1>3, NextSplit

\* A call that returns a count it has moved.
LEMMA RealCount ==
  ASSUME IInv, CountsReal, NEW t \in Threads, NEW r, NEW n, NEW m, Leave(t, r, n, m),
         r = "count" /\ call[t].op \in {"read", "write"} => n = m
  PROVE  CountsReal'
BY DEF Leave, CountsReal, IInv, ClientOK

LEMMA CountsStep ==
  ASSUME ~ShortTransfers, Fitting, IInv, OwnCalls, CountsReal, [Next]_vars
  PROVE  CountsReal'
<1> USE I2cAssumption DEF IInv, ClientOK
<1>1. ASSUME NEW t \in Threads, pc[t] # "idle"
      PROVE  /\ call[t].len \in Nat
             /\ call[t].op = "read" => MessageLen(call[t].len) = call[t].len
             /\ call[t].op = "write" => MessageLen(call[t].len + 1) = call[t].len + 1
  <2>1. call[t] \in Calls[t] /\ call[t].len \in Nat
    BY <1>1 DEF OwnCalls, Answering, CallSet, NoCall, Ops, Lifecycle
  <2>2. QED
    BY <2>1, MessageLenKept DEF Fitting
<1>2. ASSUME NEW t \in Threads, Invoke(t) PROVE CountsReal'
  BY <1>2 DEF Invoke, CountsReal
<1>3. ASSUME NEW t \in Threads, Reopens(t) PROVE CountsReal'
  BY <1>3, ReopensEffect, RealCount DEF Return
<1>4. ASSUME NEW t \in Threads, QuietStep(t) PROVE CountsReal'
  BY <1>4, QuietEffect, RealCount
<1>5. ASSUME NEW t \in Threads, Select(t) PROVE CountsReal'
  BY <1>5 DEF Select, CountsReal
<1>6. ASSUME NEW t \in Threads, FetchCount(t) PROVE CountsReal'
  <2>1. PICK n : Leave(t, "count", n, 2) /\ call[t].op = "available"
    BY <1>6 DEF FetchCount, Return
  <2>2. QED
    BY <2>1, RealCount
<1>7. ASSUME NEW t \in Threads, FetchStream(t) PROVE CountsReal'
  <2>1. /\ pc[t] # "idle" /\ call[t].op = "read"
        /\ Leave(t, "count", call[t].len, MessageLen(call[t].len))
    BY <1>7 DEF FetchStream, Return
  <2>2. PICK n : n = call[t].len /\ Leave(t, "count", n, n)
    BY <1>1, <2>1
  <2>3. QED
    BY <2>2, RealCount
<1>8. ASSUME NEW t \in Threads, BusFails(t) PROVE CountsReal'
  <2>1. PICK r \in {"minus1", "read_error"} : Leave(t, r, 0, 0)
    BY <1>8 DEF BusFails, ReadError, Return
  <2>2. QED
    BY <2>1, RealCount
<1>9. ASSUME NEW t \in Threads, WriteFrame(t) PROVE CountsReal'
  <2>1. CASE Leave(t, "write_error", 0, 0)
    BY <2>1, RealCount
  <2>2. CASE \E n : n = MessageLen(call[t].len + 1)
                    /\ Leave(t, "count", call[t].len, IF n > 0 THEN n - 1 ELSE 0)
    <3>1. call[t].len \in Nat /\ MessageLen(call[t].len + 1) = call[t].len + 1
      BY <1>1, <1>9 DEF WriteFrame, Locked, Calling
    <3>2. PICK n, k, m : /\ n = call[t].len + 1 /\ k = call[t].len
                         /\ m = (IF n > 0 THEN n - 1 ELSE 0)
                         /\ Leave(t, "count", k, m)
      BY <2>2, <3>1
    <3>3. k = m
      BY <3>1, <3>2
    <3>4. QED
      BY <3>2, <3>3, RealCount
  <2>3. QED
    BY <1>9, <2>1, <2>2 DEF WriteFrame, Return
<1>10. CASE Environment \/ UNCHANGED vars
  BY <1>10 DEF Environment, DeviceProduces, OtherMaster, AdapterGone, AdapterBack, vars,
     client, CountsReal
<1>11. ASSUME NEW t \in Threads, ShortTransfer(t) PROVE FALSE
  BY <1>11 DEF ShortTransfer
<1>12. QED
  BY <1>2, <1>3, <1>4, <1>5, <1>6, <1>7, <1>8, <1>9, <1>10, <1>11, NextSplit DEF Fetches

\* Reads and writes return what they moved as long as no transfer reaches the
\* range of __u16 and the adapter transfers all messages or fails: the two
\* things that the run i2c_truncated and rdwr_locked's test of the result
\* leave open.
THEOREM CountsAreReal ==
  ASSUME ~ShortTransfers, Fitting
  PROVE  Spec => []CountsReal
<1>1. Init => OwnCalls /\ CountsReal
  BY DEF Init, OwnCalls, CountsReal
<1>2. IInv /\ OwnCalls /\ CountsReal /\ [Next]_vars => OwnCalls' /\ CountsReal'
  BY OwnCallsStep, CountsStep
<1>3. QED
  BY <1>1, <1>2, Invariance, PTL DEF Spec

-----------------------------------------------------------------------------
(* The refinement.                                                         *)

Asked == [t \in Threads |-> IF pc[t] = "idle" THEN NoQuestion ELSE Question(call[t])]
Answered == [t \in Threads |-> AnswerTo(ret[t])]

\* A call of a method is a question, and its return an answer.
LEMMA InvokeAsks ==
  ASSUME IInv, NEW t \in Threads, Invoke(t) PROVE Contract!Ask(t)
<1> USE DEF IInv, ClientOK
<1>1. PICK c \in CallSet : call' = [call EXCEPT ![t] = c]
  BY I2cAssumption DEF Invoke
<1>2. Question(c) \in Contract!Questions
  BY <1>1 DEF Question, CallSet, Ops, Lifecycle, Contract!Questions, Contract!Ops,
     Contract!Changes, Contract!Transfers
<1>3. Asked[t] = NoQuestion /\ Asked' = [Asked EXCEPT ![t] = Question(c)]
  BY <1>1 DEF Invoke, Asked
<1>4. Answered' = [Answered EXCEPT ![t] = "pending"]
  BY <1>1 DEF Invoke, Answered, AnswerTo
<1>5. Asked'[t] = Question(c)
  BY <1>3 DEF Asked
<1>6. QED
  BY <1>2, <1>3, <1>4, <1>5 DEF Contract!Ask, Contract!Idle, NoQuestion, Asked, Answered,
     Invoke, port

LEMMA LeaveAnswers ==
  ASSUME IInv, NEW t \in Threads, NEW r, NEW n, NEW m, Leave(t, r, n, m),
         NEW a, a = AnswerTo(r)
  PROVE  Contract!Answer(t, a)
<1> USE DEF IInv, ClientOK, Leave
<1>1. Asked' = [Asked EXCEPT ![t] = NoQuestion]
  BY DEF Asked
<1>2. Answered' = [Answered EXCEPT ![t] = a]
  BY DEF Answered
<1>3. QED
  BY <1>1, <1>2 DEF Contract!Answer, Contract!Idle, NoQuestion, Asked, Answered

\* What a thread inside the library asks.
LEMMA AskedInside ==
  ASSUME NEW t \in Threads, pc[t] # "idle"
  PROVE  LET empty == call[t].op \in {"read", "write"} /\ call[t].len = 0 IN
         /\ Asked[t].op = IF empty THEN "nothing" ELSE call[t].op
         /\ Asked[t].cfg = call[t].cfg
BY DEF Asked, Question

\* A step that leaves the threads and the port's state alone is not visible.
LEMMA Invisible ==
  ASSUME IInv, UNCHANGED <<fd, config, call, ret>>,
         \A t \in Threads : pc'[t] = "idle" <=> pc[t] = "idle"
  PROVE  UNCHANGED Contract!vars
BY DEF Contract!vars

LEMMA ChangeAnswers ==
  ASSUME IInv, NEW t \in Threads, Open(t) \/ Reconnect(t)
  PROVE  Contract!Succeed(t) \/ Contract!Fail(t)
<1> DEFINE c == IF call[t].op = "reconnect" THEN config ELSE call[t].cfg
<1>1. OpenLocked(t, c) /\ pc[t] = "called"
      /\ call[t].op \in {"open", "reconfigure", "reconnect"}
  BY DEF Open, Reconnect, Locked, Calling
<1>2. Asked[t].op = call[t].op /\ Asked[t].cfg = call[t].cfg
  BY <1>1, AskedInside
<1>3. CASE /\ c \in I2cConfigs
           /\ fd' \in Fds /\ held' = {fd'} /\ config' = c
           /\ Return(t, "true", 0, 0)
  <2>1. Contract!Answer(t, "true")
    BY <1>1, <1>3, LeaveAnswers DEF Return, AnswerTo, Errors
  <2>2. QED
    BY <1>1, <1>2, <1>3, <2>1, I2cAssumption DEF Contract!Succeed, Contract!Changes, Asked
<1>4. CASE /\ fd' = NoFd /\ held' = {} /\ config' = config
           /\ \E r \in {"open_error", "config_error"} : Return(t, r, 0, 0)
  <2>1. Contract!Answer(t, "error")
    BY <1>1, <1>4, LeaveAnswers DEF Return, AnswerTo, Errors
  <2>2. QED
    BY <1>1, <1>2, <1>4, <2>1 DEF Contract!Fail, Contract!Changes, Asked
<1>5. QED
  BY <1>1, <1>3, <1>4, OpenLockedOutcomes DEF IInv

LEMMA CloseAnswers ==
  ASSUME IInv, NEW t \in Threads, Close(t) PROVE Contract!Close(t)
<1>1. Contract!Answer(t, "done")
  BY LeaveAnswers DEF Close, Locked, Calling, Return, AnswerTo, Errors
<1>2. Asked[t].op = "close"
  BY AskedInside DEF Close, Locked, Calling
<1>3. QED
  BY <1>1, <1>2 DEF Close, Contract!Close, Asked

LEMMA QuietAnswers ==
  ASSUME IInv, NEW t \in Threads, QuietStep(t)
  PROVE  Contract!Query(t) \/ Contract!Immediate(t) \/ Contract!Exempted(t)
<1>1. pc[t] = "called" /\ UNCHANGED <<fd, config>>
  BY QuietEffect DEF port
<1>2. CASE IsOpen(t)
  <2>1. \/ fd # NoFd /\ Contract!Answer(t, "true")
        \/ fd = NoFd /\ Contract!Answer(t, "false")
    BY <1>2, LeaveAnswers DEF IsOpen, Locked, Calling, Return, AnswerTo, Errors
  <2>2. Asked[t].op = "is_open"
    BY <1>1, <1>2, AskedInside DEF IsOpen, Locked, Calling
  <2>3. QED
    BY <1>1, <2>1, <2>2 DEF Contract!Query, Asked
<1>3. CASE NoTransfer(t)
  <2>1. Contract!Answer(t, "count")
    BY <1>3, LeaveAnswers DEF NoTransfer, Calling, AnswerTo, Errors
  <2>2. Asked[t].op = "nothing"
    BY <1>1, <1>3, AskedInside DEF NoTransfer, Calling
  <2>3. QED
    BY <1>1, <2>1, <2>2 DEF Contract!Immediate, Asked
<1>4. CASE GetFd(t)
  <2>1. Contract!Answer(t, "minus1")
    BY <1>4, LeaveAnswers DEF GetFd, Calling, AnswerTo, Errors
  <2>2. Asked[t].op = "get_fd"
    BY <1>1, <1>4, AskedInside DEF GetFd, Calling
  <2>3. QED
    BY <1>1, <2>1, <2>2 DEF Contract!Query, Asked
<1>5. CASE ReadFails(t)
  <2>1. \/ call[t].op = "available" /\ Contract!Answer(t, "minus1")
        \/ call[t].op = "read" /\ call[t].len # 0 /\ Contract!Answer(t, "error")
    BY <1>5, LeaveAnswers
       DEF ReadFails, ReadError, Locked, Calling, Return, AnswerTo, Errors
  <2>2. Asked[t].op = call[t].op
    BY <1>1, <2>1, AskedInside
  <2>3. QED
    BY <1>1, <2>1, <2>2 DEF Contract!Query, Contract!Transfers, Asked
<1>6. CASE Flush(t)
  <2>1. Contract!Answer(t, "true")
    BY <1>6, LeaveAnswers DEF Flush, Calling, AnswerTo, Errors
  <2>2. Asked[t].op = "flush"
    BY <1>1, <1>6, AskedInside DEF Flush, Calling
  <2>3. CASE fd # NoFd
    BY <1>1, <2>1, <2>2, <2>3 DEF Contract!Query, Asked
  <2>4. CASE fd = NoFd
    <3>1. Answered'[t] = "true" /\ Contract!Answer(t, Answered'[t])
      BY <2>1 DEF Contract!Answer, Answered
    <3>2. QED
      BY <1>1, <2>2, <2>4, <3>1 DEF Contract!Exempted, Asked, Answered
  <2>5. QED
    BY <2>3, <2>4
<1>7. QED
  BY <1>2, <1>3, <1>4, <1>5, <1>6 DEF QuietStep

LEMMA TransferAnswers ==
  ASSUME IInv, NEW t \in Threads, Fetches(t) \/ WriteFrame(t)
  PROVE  Contract!Query(t)
<1>1. CASE Fetches(t)
  <2>1. pc[t] = "fetching" /\ UNCHANGED <<fd, config>>
    BY <1>1, FetchEffect DEF port
  <2>2. /\ fd # NoFd
        /\ call[t].op = "available" \/ (call[t].op = "read" /\ call[t].len # 0)
    BY <2>1, I2cAssumption DEF IInv, Fetching
  <2>3. PICK r, n, m : Return(t, r, n, m) /\ r \in {"count", ReadError(t)}
    BY <1>1 DEF Fetches, FetchCount, FetchStream, BusFails, ShortTransfer
  <2>4. \/ Contract!Answer(t, "count")
        \/ call[t].op = "available" /\ Contract!Answer(t, "minus1")
        \/ call[t].op = "read" /\ Contract!Answer(t, "error")
    BY <2>2, <2>3, LeaveAnswers DEF Return, ReadError, AnswerTo, Errors
  <2>5. Asked[t].op = call[t].op
    BY <2>1, <2>2, AskedInside
  <2>6. QED
    BY <2>1, <2>2, <2>4, <2>5 DEF Contract!Query, Contract!Transfers, Asked
<1>2. CASE WriteFrame(t)
  <2>1. PICK r, n, m :
          Return(t, r, n, m) /\ (r = "write_error" \/ (r = "count" /\ fd # NoFd))
    BY <1>2 DEF WriteFrame
  <2>2. /\ pc[t] = "called" /\ UNCHANGED <<fd, config>>
        /\ call[t].op = "write" /\ call[t].len # 0
    BY <1>2 DEF WriteFrame, Locked, Calling, port
  <2>3. Contract!Answer(t, "error") \/ (fd # NoFd /\ Contract!Answer(t, "count"))
    BY <2>1, <2>2, LeaveAnswers DEF Return, AnswerTo, Errors
  <2>4. Asked[t].op = "write"
    BY <2>2, AskedInside
  <2>5. QED
    BY <2>2, <2>3, <2>4 DEF Contract!Query, Contract!Transfers, Asked
<1>3. QED
  BY <1>1, <1>2

LEMMA ContractStep == IInv /\ [Next]_vars => [Contract!Next]_Contract!vars
<1> SUFFICES ASSUME IInv, [Next]_vars PROVE [Contract!Next]_Contract!vars
  OBVIOUS
<1>1. ASSUME NEW t \in Threads,
             \/ Invoke(t) \/ Reopens(t) \/ QuietStep(t) \/ Fetches(t) \/ WriteFrame(t)
      PROVE  Contract!Next
  BY <1>1, InvokeAsks, ChangeAnswers, CloseAnswers, QuietAnswers, TransferAnswers
     DEF Reopens, Contract!Next
<1>2. ASSUME NEW t \in Threads, Select(t) PROVE UNCHANGED Contract!vars
  BY <1>2, Invisible DEF Select, Accepted, Locked, Calling, port, IInv, ClientOK
<1>3. CASE Environment \/ UNCHANGED vars
  BY <1>3, Invisible DEF Environment, DeviceProduces, OtherMaster, AdapterGone, AdapterBack,
     vars, client, port
<1>4. QED
  BY <1>1, <1>2, <1>3, NextSplit

\* The port implements what i_io_port promises.
THEOREM ImplementsContract == Spec => I2cImplements
<1>1. Init => Contract!Init
  BY DEF Init, Contract!Init, Contract!Idle, NoQuestion, AnswerTo
<1>2. IInv /\ [Next]_vars => [Contract!Next]_Contract!vars
  BY ContractStep
<1>3. QED
  BY <1>1, <1>2, Invariance, PTL DEF Spec, I2cImplements, Contract!Spec

=============================================================================
