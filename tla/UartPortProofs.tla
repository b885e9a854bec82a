--------------------------- MODULE UartPortProofs ---------------------------
(***************************************************************************)
(* Safety of UartPort for any number of threads, descriptors and           *)
(* configurations.                                                         *)
(***************************************************************************)
EXTENDS UartPort, TLAPS

Reopening == {"opening", "assigning", "configuring"}
Blocked   == {"reading", "writing", "draining"}

\* mutex_ is held by the thread inside a method, and by no other.
MutexHeld == \A t \in Threads : pc[t] \in Holding <=> mutex = t

\* What a thread inside a method knows of the port.
InsideMethod ==
  \A t \in Threads :
    /\ pc[t] = "opening" => fd = NoFd
    /\ pc[t] \in {"assigning", "configuring"} \cup Blocked => fd \in Fds
    /\ pc[t] \in Reopening => call[t].arg \in UartConfigs
    /\ pc[t] = "configuring" => config = call[t].arg

\* Between calls an open port has a configuration that was applied.
OpenIsConfigured ==
  Settled /\ fd # NoFd =>
    config = applied /\ line = config /\ rx \subseteq {config} /\ config \in UartConfigs

IInv ==
  TypeOK /\ MutexHeld /\ InsideMethod /\ DescriptorOwned /\ OpenIsConfigured

-----------------------------------------------------------------------------
LEMMA InitIInv == Init => IInv
BY UartAssumption
   DEF Init, IInv, TypeOK, MutexHeld, InsideMethod, DescriptorOwned, OpenIsConfigured,
       Settled, NoCall, Results, Inside, Holding, Blocked, Reopening

\* The steps that change neither the port nor the tty.
QuietStep(t) ==
  \/ IsOpen(t) \/ GetFd(t) \/ GetConfig(t) \/ ReadConfigRef(t) \/ Available(t)
  \/ Drain(t) \/ DrainEnds(t) \/ Interrupted(t)
  \/ Read(t) \/ ReadNothing(t) \/ ReadHangup(t) \/ Write(t) \/ WriteFails(t)

\* The steps of a thread, by what they do to the port.
LEMMA NextSplit ==
  [Next]_vars =>
    \/ \E t \in Threads :
         \/ Invoke(t) \/ Open(t) \/ Close(t) \/ Reconnect(t) \/ Reconfigure(t)
         \/ OpenDevice(t) \/ AssignConfig(t) \/ TermiosApplied(t) \/ TermiosFailed(t)
         \/ Flush(t) \/ ReadData(t) \/ WriteData(t) \/ QuietStep(t)
    \/ Environment
    \/ UNCHANGED vars
BY DEF Next, ThreadStep, TakesLock, Continues, QuietStep

LEMMA QuietIsQuiet ==
  ASSUME NEW t \in Threads, QuietStep(t)
  PROVE  UNCHANGED <<call, port, fdTable, tty, plugged, hist>>
BY DEF QuietStep, IsOpen, GetFd, GetConfig, ReadConfigRef, Available, Drain, DrainEnds,
   Interrupted, Read, ReadNothing, ReadHangup, Write, WriteFails, Quiet, Unmoved,
   port, tty, hist

-----------------------------------------------------------------------------
(* Each part of the invariant is preserved by every step.                  *)

\* A configuration reaches config_ only through a thread that InsideMethod
\* says passed a uart_config.
LEMMA TypeStep == IInv /\ [Next]_vars => TypeOK'
<1> SUFFICES ASSUME IInv, [Next]_vars PROVE TypeOK'
  OBVIOUS
<1> USE UartAssumption
    DEF IInv, TypeOK, InsideMethod, Results, Inside, Holding, CallSet, Return, Hold,
        Purge, CloseFd, CloseLocked
<1>1. ASSUME NEW t \in Threads, Invoke(t) PROVE TypeOK'
  BY <1>1 DEF Invoke, port, tty
<1>2. ASSUME NEW t \in Threads, Open(t) PROVE TypeOK'
  BY <1>2 DEF Open
<1>3. ASSUME NEW t \in Threads, Close(t) PROVE TypeOK'
  BY <1>3 DEF Close
<1>4. ASSUME NEW t \in Threads, Reconnect(t) PROVE TypeOK'
  <2>1. fd # NoFd => config \in UartConfigs
    BY <1>4 DEF Reconnect, Locked, MutexHeld, OpenIsConfigured, Settled
  <2>2. QED
    BY <1>4, <2>1 DEF Reconnect, Locked, Ops
<1>5. ASSUME NEW t \in Threads, Reconfigure(t) PROVE TypeOK'
  BY <1>5 DEF Reconfigure
<1>6. ASSUME NEW t \in Threads, OpenDevice(t) PROVE TypeOK'
  BY <1>6 DEF OpenDevice, tty, hist
<1>7. ASSUME NEW t \in Threads, AssignConfig(t) PROVE TypeOK'
  BY <1>7 DEF AssignConfig, Reopening, tty, hist
<1>8. ASSUME NEW t \in Threads, TermiosApplied(t) PROVE TypeOK'
  BY <1>8 DEF TermiosApplied, Reopening, port
<1>9. ASSUME NEW t \in Threads, TermiosFailed(t) PROVE TypeOK'
  BY <1>9 DEF TermiosFailed, tty, hist
<1>10. ASSUME NEW t \in Threads, Flush(t) PROVE TypeOK'
  BY <1>10 DEF Flush, port
<1>11. ASSUME NEW t \in Threads, ReadData(t) PROVE TypeOK'
  BY <1>11 DEF ReadData, port, hist
<1>12. ASSUME NEW t \in Threads, WriteData(t) PROVE TypeOK'
  BY <1>12 DEF WriteData, Unmoved, port
<1>13. ASSUME NEW t \in Threads, QuietStep(t) PROVE TypeOK'
  <2>1. /\ pc' \in [Threads -> {"idle", "lock"} \cup Inside]
        /\ ret' \in [Threads -> Results \cup Configs \cup {DefaultConfig, Mixed}
                                \cup Fds \cup {NoFd}]
        /\ mutex' \in Threads \cup {NoThread}
    BY <1>13 DEF QuietStep, IsOpen, GetFd, GetConfig, ReadConfigRef, Available, Drain,
       DrainEnds, Interrupted, Read, ReadNothing, ReadHangup, Write, WriteFails
  <2>2. QED
    BY <1>13, <2>1, QuietIsQuiet DEF port, tty, hist
<1>14. CASE Environment
  <2>1. CASE DeviceSends
    BY <2>1 DEF DeviceSends, client, port, hist, Live
  <2>2. CASE \E t \in Threads : Transmit(t)
    BY <2>2 DEF Transmit, client, port, hist
  <2>3. CASE Unplug
    BY <2>3 DEF Unplug, client, port
  <2>4. CASE Replug
    BY <2>4 DEF Replug, client, port, tty, hist
  <2>5. CASE OtherDescriptor
    BY <2>5 DEF OtherDescriptor, client, port, tty, hist
  <2>6. QED
    BY <1>14, <2>1, <2>2, <2>3, <2>4, <2>5 DEF Environment
<1>15. CASE UNCHANGED vars
  BY <1>15 DEF vars, client, port, tty, hist
<1>16. QED
  BY <1>1, <1>2, <1>3, <1>4, <1>5, <1>6, <1>7, <1>8, <1>9, <1>10, <1>11, <1>12, <1>13,
     <1>14, <1>15, NextSplit

\* A thread gets past the lock only when nobody is inside, and lets go of
\* mutex_ when and only when it leaves.
LEMMA MutexStep == IInv /\ [Next]_vars => MutexHeld'
<1> SUFFICES ASSUME IInv, [Next]_vars PROVE MutexHeld'
  OBVIOUS
<1> USE UartAssumption DEF IInv, TypeOK, MutexHeld, Inside, Holding, Return, Hold
<1>1. ASSUME NEW t \in Threads, Invoke(t) PROVE MutexHeld'
  BY <1>1 DEF Invoke
<1>2. ASSUME NEW t \in Threads, TakesLock(t) PROVE MutexHeld'
  BY <1>2 DEF TakesLock, Locked, Open, Close, Reconnect, Reconfigure, IsOpen, GetFd,
     GetConfig, Available, Flush, Drain, Read, Write
<1>3. ASSUME NEW t \in Threads, Continues(t) \/ Interrupted(t) PROVE MutexHeld'
  BY <1>3 DEF Continues, OpenDevice, AssignConfig, TermiosApplied, TermiosFailed,
     ReadConfigRef, DrainEnds, ReadData, ReadNothing, ReadHangup, WriteData, WriteFails,
     Interrupted
<1>4. CASE Environment \/ UNCHANGED vars
  BY <1>4 DEF Environment, DeviceSends, Transmit, Unplug, Replug, OtherDescriptor,
     vars, client
<1>5. QED
  BY <1>1, <1>2, <1>3, <1>4 DEF Next, ThreadStep

\* What a thread knows of fd_ and config_ stays true while it holds mutex_:
\* whoever else could change them would hold mutex_ too.
LEMMA InsideStep == IInv /\ [Next]_vars => InsideMethod'
<1> SUFFICES ASSUME IInv, [Next]_vars PROVE InsideMethod'
  OBVIOUS
<1> USE UartAssumption
    DEF IInv, TypeOK, MutexHeld, InsideMethod, Inside, Holding, Reopening, Blocked,
        Return, Hold
<1>1. ASSUME NEW t \in Threads, Invoke(t) PROVE InsideMethod'
  BY <1>1 DEF Invoke, port
<1>2. ASSUME NEW t \in Threads, Open(t) \/ Close(t) \/ Reconfigure(t)
      PROVE  InsideMethod'
  BY <1>2 DEF Open, Close, Reconfigure, Locked, CloseLocked
<1>3. ASSUME NEW t \in Threads, Reconnect(t) PROVE InsideMethod'
  <2>1. fd # NoFd => config \in UartConfigs
    BY <1>3 DEF Reconnect, Locked, OpenIsConfigured, Settled
  <2>2. QED
    BY <1>3, <2>1 DEF Reconnect, Locked, CloseLocked
<1>4. ASSUME NEW t \in Threads, OpenDevice(t) PROVE InsideMethod'
  BY <1>4 DEF OpenDevice
<1>5. ASSUME NEW t \in Threads, AssignConfig(t) PROVE InsideMethod'
  BY <1>5 DEF AssignConfig
<1>6. ASSUME NEW t \in Threads, TermiosApplied(t) \/ TermiosFailed(t)
      PROVE  InsideMethod'
  BY <1>6 DEF TermiosApplied, TermiosFailed, port
<1>7. ASSUME NEW t \in Threads, Flush(t) \/ ReadData(t) \/ WriteData(t)
      PROVE  InsideMethod'
  BY <1>7 DEF Flush, ReadData, WriteData, Unmoved, port
<1>8. ASSUME NEW t \in Threads, QuietStep(t) PROVE InsideMethod'
  <2>1. /\ pc'[t] \notin Reopening
        /\ pc'[t] \in Blocked => fd \in Fds
        /\ \A u \in Threads : u # t => pc'[u] = pc[u]
    BY <1>8 DEF QuietStep, IsOpen, GetFd, GetConfig, ReadConfigRef, Available, Drain,
       DrainEnds, Interrupted, Read, ReadNothing, ReadHangup, Write, WriteFails
  <2>2. QED
    BY <1>8, <2>1, QuietIsQuiet DEF port
<1>9. CASE Environment \/ UNCHANGED vars
  BY <1>9 DEF Environment, DeviceSends, Transmit, Unplug, Replug, OtherDescriptor,
     vars, client, port
<1>10. QED
  BY <1>1, <1>2, <1>3, <1>4, <1>5, <1>6, <1>7, <1>8, <1>9, NextSplit

\* ::open and ::close move fd_ and the descriptor table together.
LEMMA OwnedStep == IInv /\ [Next]_vars => DescriptorOwned'
<1> SUFFICES ASSUME IInv, [Next]_vars PROVE DescriptorOwned'
  OBVIOUS
<1> USE UartAssumption DEF IInv, TypeOK, DescriptorOwned, CloseFd
<1>1. ASSUME NEW t \in Threads, Open(t) \/ Close(t) \/ Reconnect(t) \/ Reconfigure(t)
      PROVE  DescriptorOwned'
  BY <1>1 DEF Open, Close, Reconnect, Reconfigure, CloseLocked
<1>2. ASSUME NEW t \in Threads, OpenDevice(t) PROVE DescriptorOwned'
  BY <1>2 DEF OpenDevice, InsideMethod
<1>3. ASSUME NEW t \in Threads, TermiosFailed(t) PROVE DescriptorOwned'
  BY <1>3 DEF TermiosFailed
<1>4. ASSUME NEW t \in Threads,
             \/ Invoke(t) \/ AssignConfig(t) \/ TermiosApplied(t) \/ Flush(t)
             \/ ReadData(t) \/ WriteData(t) \/ QuietStep(t)
      PROVE  DescriptorOwned'
  BY <1>4, QuietIsQuiet DEF Invoke, AssignConfig, TermiosApplied, Flush, ReadData,
     WriteData, Unmoved, port
<1>5. CASE Unplug
  BY <1>5 DEF Unplug, port
<1>6. CASE OtherDescriptor
  BY <1>6 DEF OtherDescriptor, port
<1>7. CASE \/ DeviceSends \/ Replug \/ \E t \in Threads : Transmit(t)
           \/ UNCHANGED vars
  BY <1>7 DEF DeviceSends, Replug, Transmit, vars, port
<1>8. QED
  BY <1>1, <1>2, <1>3, <1>4, <1>5, <1>6, <1>7, NextSplit DEF Environment

\* Only apply_termios_config's success leaves a thread's open_locked with the
\* port open, and it applies the configuration that config_ holds.
LEMMA ConfiguredStep == IInv /\ [Next]_vars => OpenIsConfigured'
<1> DEFINE Configured ==
             config = applied /\ line = config /\ rx \subseteq {config} /\ config \in UartConfigs
<1> SUFFICES ASSUME IInv, [Next]_vars, Settled', fd' # NoFd
             PROVE  Configured'
  BY DEF OpenIsConfigured
<1> USE DEF IInv, TypeOK, OpenIsConfigured, Settled, Inside
<1>1. ASSUME NEW t \in Threads, Open(t) \/ Close(t) \/ Reconnect(t) \/ Reconfigure(t)
      PROVE  Configured'
  \* open refuses a configuration of another channel before it closes.
  <2>1. Open(t) /\ call[t].arg \notin UartConfigs /\ UNCHANGED <<fd, rx>>
    BY <1>1 DEF Open, Close, Reconnect, Reconfigure, CloseLocked, Hold
  <2>2. QED
    BY <2>1 DEF Open, Locked, Return
<1>2. ASSUME NEW t \in Threads, OpenDevice(t) \/ AssignConfig(t) \/ TermiosFailed(t)
      PROVE  FALSE
  BY <1>2 DEF OpenDevice, AssignConfig, TermiosFailed, Hold, InsideMethod
<1>3. ASSUME NEW t \in Threads, TermiosApplied(t) PROVE Configured'
  BY <1>3 DEF TermiosApplied, Purge, InsideMethod, Reopening, port
<1>4. ASSUME NEW t \in Threads,
             Invoke(t) \/ Flush(t) \/ ReadData(t) \/ WriteData(t) \/ QuietStep(t)
      PROVE  Settled /\ UNCHANGED <<fd, config, line, applied>> /\ rx' \subseteq rx
  <2>1. UNCHANGED <<fd, config, line, applied>> /\ rx' \subseteq rx
    BY <1>4, QuietIsQuiet DEF Invoke, Flush, ReadData, WriteData, Unmoved, Purge,
       port, tty, hist
  <2>2. pc[t] \notin Reopening /\ \A u \in Threads : u # t => pc'[u] = pc[u]
    BY <1>4 DEF Invoke, Flush, ReadData, WriteData, QuietStep, IsOpen, GetFd, GetConfig,
       ReadConfigRef, Available, Drain, DrainEnds, Interrupted, Read, ReadNothing,
       ReadHangup, Write, WriteFails, Locked, Return, Hold, Reopening
  <2>3. QED
    BY <2>1, <2>2 DEF Reopening
<1>5. CASE Environment
  <2>1. Settled /\ UNCHANGED <<fd, config, line, applied>>
    BY <1>5 DEF Environment, DeviceSends, Transmit, Unplug, Replug, OtherDescriptor,
       client, port, tty, hist
  <2>2. rx' \subseteq rx \cup {line}
    BY <1>5 DEF Environment, DeviceSends, Transmit, Unplug, Replug, OtherDescriptor, tty
  <2>3. QED
    BY <2>1, <2>2
<1>6. CASE UNCHANGED vars
  BY <1>6 DEF vars, client, port, tty, hist
<1>7. QED
  BY <1>1, <1>2, <1>3, <1>4, <1>5, <1>6, NextSplit

-----------------------------------------------------------------------------
(* The theorems.                                                           *)

\* The inductive invariant holds: the mutex excludes, a thread inside a
\* method knows the port, and an open port is configured.
THEOREM Invariance == Spec => []IInv
<1>1. Init => IInv
  BY InitIInv
<1>2. IInv /\ [Next]_vars => IInv'
  BY TypeStep, MutexStep, InsideStep, OwnedStep, ConfiguredStep DEF IInv
<1>3. QED
  BY <1>1, <1>2, PTL DEF Spec

\* Every variable keeps its type; in particular config_ never takes the value
\* of a configuration of another channel (the channel_type check).
THEOREM TypeCorrect == Spec => []TypeOK
BY Invariance, PTL DEF IInv

\* No path of open_locked, reconnect, reconfigure or close leaks a descriptor
\* or keeps the number of a closed one in fd_.
THEOREM DescriptorsOwned == Spec => []DescriptorOwned
BY Invariance, PTL DEF IInv

\* An open port runs with the configuration that was applied last.
THEOREM OpenPortsConfigured == Spec => []OpenMeansApplied
<1>1. IInv => OpenMeansApplied
  BY DEF IInv, OpenIsConfigured, OpenMeansApplied
<1>2. QED
  BY <1>1, Invariance, PTL

\* What waits in the Rx queue of an open port arrived under its settings.
THEOREM RxIsFresh == Spec => []FreshRx
<1>1. IInv => FreshRx
  BY DEF IInv, OpenIsConfigured, FreshRx
<1>2. QED
  BY <1>1, Invariance, PTL

\* The descriptor that a thread closes is the port's own: fd_ always names a
\* descriptor on the tty, so ::close(fd_) cannot hit a reused number.
LEMMA ClosesItsOwn ==
  IInv /\ [Next]_vars =>
    (pc' # pc => \A n \in Fds : fdTable[n] = "other" => fdTable'[n] = "other")
<1> SUFFICES ASSUME IInv, [Next]_vars, pc' # pc, NEW n \in Fds, fdTable[n] = "other"
             PROVE  fdTable'[n] = "other"
  OBVIOUS
<1> USE DEF IInv, TypeOK, DescriptorOwned
<1>1. n # fd
  OBVIOUS
<1>2. ASSUME NEW t \in Threads, CloseLocked(t) PROVE fdTable'[n] = "other"
  BY <1>1, <1>2 DEF CloseLocked, CloseFd
<1>3. ASSUME NEW t \in Threads, Open(t) \/ Close(t) \/ Reconnect(t) \/ Reconfigure(t)
      PROVE fdTable'[n] = "other"
  BY <1>2, <1>3 DEF Open, Close, Reconnect, Reconfigure
<1>4. ASSUME NEW t \in Threads, OpenDevice(t) PROVE fdTable'[n] = "other"
  BY <1>4 DEF OpenDevice
<1>5. ASSUME NEW t \in Threads, TermiosFailed(t) PROVE fdTable'[n] = "other"
  BY <1>1, <1>5 DEF TermiosFailed, CloseFd
<1>6. ASSUME NEW t \in Threads,
             \/ Invoke(t) \/ AssignConfig(t) \/ TermiosApplied(t) \/ Flush(t)
             \/ ReadData(t) \/ WriteData(t) \/ QuietStep(t)
      PROVE fdTable'[n] = "other"
  BY <1>6 DEF Invoke, AssignConfig, TermiosApplied, Flush, ReadData, WriteData,
     QuietStep, IsOpen, GetFd, GetConfig, ReadConfigRef, Available, Drain, DrainEnds,
     Read, ReadNothing, ReadHangup, Write, WriteFails, Interrupted, Quiet, Unmoved
<1>7. ~Environment /\ ~UNCHANGED vars
  BY DEF Environment, DeviceSends, Transmit, Unplug, Replug, OtherDescriptor, vars, client
<1>8. QED
  BY <1>3, <1>4, <1>5, <1>6, <1>7, NextSplit

THEOREM OthersKeepTheirs == Spec => NeverClosesOthers
<1>1. IInv /\ [Next]_vars =>
        [pc' # pc => \A n \in Fds : fdTable[n] = "other" => fdTable'[n] = "other"]_vars
  BY ClosesItsOwn
<1>2. QED
  BY <1>1, Invariance, PTL DEF Spec, NeverClosesOthers

\* A thread blocked in a system call holds mutex_, so that no other thread
\* gets past the lock and touches what the call works on.
LEMMA NobodyInterferes ==
  ASSUME IInv, [Next]_vars, NEW t \in Threads, pc[t] \in Blocked, pc'[t] = pc[t]
  PROVE  UNCHANGED <<port, line>> /\ (plugged' => rx \subseteq rx' /\ lost' \subseteq lost)
<1> USE DEF IInv, TypeOK, Holding, Inside, Blocked
<1>1. mutex = t /\ mutex # NoThread
  BY UartAssumption DEF MutexHeld
<1>2. ASSUME NEW u \in Threads, u # t PROVE pc[u] \in {"idle", "lock", "ref"}
  BY <1>1, <1>2 DEF MutexHeld
<1>3. ASSUME NEW u \in Threads, TakesLock(u) PROVE FALSE
  BY <1>1, <1>3 DEF TakesLock, Locked, Open, Close, Reconnect, Reconfigure, IsOpen,
     GetFd, GetConfig, Available, Flush, Drain, Read, Write
<1>4. ASSUME NEW u \in Threads, Continues(u) \/ Interrupted(u)
      PROVE  UNCHANGED <<port, line, rx, lost>>
  <2>1. CASE u = t
    BY <1>4, <2>1 DEF Continues, OpenDevice, AssignConfig, TermiosApplied, TermiosFailed,
       ReadConfigRef, DrainEnds, ReadData, ReadNothing, ReadHangup, WriteData, WriteFails,
       Interrupted, Return
  <2>2. CASE u # t
    BY <1>2, <1>4, <2>2 DEF Continues, OpenDevice, AssignConfig, TermiosApplied,
       TermiosFailed, ReadConfigRef, DrainEnds, ReadData, ReadNothing, ReadHangup,
       WriteData, WriteFails, Interrupted, Quiet, Unmoved
  <2>3. QED
    BY <2>1, <2>2
<1>5. ASSUME NEW u \in Threads, Invoke(u)
      PROVE  UNCHANGED <<port, line, rx>> /\ lost' \subseteq lost
  BY <1>5 DEF Invoke, tty
<1>6. CASE Environment
  BY <1>6 DEF Environment, DeviceSends, Transmit, Unplug, Replug, OtherDescriptor, tty, hist
<1>7. CASE UNCHANGED vars
  BY <1>7 DEF vars, tty, hist
<1>8. QED
  BY <1>3, <1>4, <1>5, <1>6, <1>7 DEF Next, ThreadStep

\* The conflict that the mutex is there to exclude never happens: a port is
\* not closed, reconfigured or flushed under a blocked read, write or drain.
THEOREM BlockedCallsUndisturbed == Spec => InFlightStable
<1>1. IInv /\ [Next]_vars =>
        [\A t \in Threads :
           pc[t] \in {"reading", "writing", "draining"} /\ pc'[t] = pc[t]
             => /\ UNCHANGED <<port, line>>
                /\ plugged' => rx \subseteq rx' /\ lost' \subseteq lost]_vars
  BY NobodyInterferes DEF Blocked
<1>2. QED
  BY <1>1, Invariance, PTL DEF Spec, InFlightStable

-----------------------------------------------------------------------------
(* The refinement.                                                         *)

Changes == {"open", "reconfigure", "reconnect"}

\* Which method a thread is inside, and what reconnect saved.
CallsInside ==
  \A t \in Threads :
    /\ pc[t] = "ref" => call[t].op = "get_config"
    /\ pc[t] = "reading" => call[t].op = "read"
    /\ pc[t] = "writing" => call[t].op = "write"
    /\ pc[t] = "draining" => call[t].op = "drain"
    /\ pc[t] \in Reopening =>
         /\ call[t].op \in Changes
         /\ call[t].op = "reconnect" => call[t].arg = applied

LEMMA CallsInsideStep == IInv /\ CallsInside /\ [Next]_vars => CallsInside'
<1> SUFFICES ASSUME IInv, CallsInside, [Next]_vars PROVE CallsInside'
  OBVIOUS
<1> USE UartAssumption
    DEF IInv, TypeOK, CallsInside, Inside, Reopening, Changes, Return, Hold
<1>1. ASSUME NEW t \in Threads, Invoke(t) PROVE CallsInside'
  BY <1>1 DEF Invoke, hist
<1>2. ASSUME NEW t \in Threads, Open(t) \/ Close(t) \/ Reconfigure(t)
      PROVE  CallsInside'
  BY <1>2 DEF Open, Close, Reconfigure, Locked
<1>3. ASSUME NEW t \in Threads, Reconnect(t) PROVE CallsInside'
  <2>1. fd # NoFd => config = applied
    BY <1>3 DEF Reconnect, Locked, MutexHeld, Holding, OpenIsConfigured, Settled
  <2>2. QED
    BY <1>3, <2>1 DEF Reconnect, Locked
<1>4. ASSUME NEW t \in Threads, OpenDevice(t) \/ AssignConfig(t) \/ TermiosFailed(t)
      PROVE  CallsInside'
  BY <1>4 DEF OpenDevice, AssignConfig, TermiosFailed, hist
<1>5. ASSUME NEW t \in Threads, TermiosApplied(t) PROVE CallsInside'
  <2>1. \A u \in Threads : u # t => pc[u] \notin Reopening
    BY <1>5 DEF TermiosApplied, MutexHeld, Holding
  <2>2. QED
    BY <1>5, <2>1 DEF TermiosApplied
<1>6. ASSUME NEW t \in Threads, Flush(t) \/ ReadData(t) \/ WriteData(t)
      PROVE  CallsInside'
  BY <1>6 DEF Flush, ReadData, WriteData, Unmoved, hist
<1>7. ASSUME NEW t \in Threads, QuietStep(t) PROVE CallsInside'
  <2>1. UNCHANGED <<call, applied>>
    BY <1>7, QuietIsQuiet DEF hist
  <2>2. /\ \A u \in Threads : u # t => pc'[u] = pc[u]
        /\ \/ pc'[t] = "idle"
           \/ pc'[t] = "ref" /\ call[t].op = "get_config"
           \/ pc'[t] = "reading" /\ call[t].op = "read"
           \/ pc'[t] = "writing" /\ call[t].op = "write"
           \/ pc'[t] = "draining" /\ call[t].op = "drain"
    BY <1>7 DEF QuietStep, IsOpen, GetFd, GetConfig, ReadConfigRef, Available, Drain,
       DrainEnds, Interrupted, Read, ReadNothing, ReadHangup, Write, WriteFails, Locked
  <2>3. QED
    BY <2>1, <2>2
<1>8. CASE Environment \/ UNCHANGED vars
  BY <1>8 DEF Environment, DeviceSends, Transmit, Unplug, Replug, OtherDescriptor,
     vars, client, hist
<1>9. QED
  BY <1>1, <1>2, <1>3, <1>4, <1>5, <1>6, <1>7, <1>8, NextSplit

LEMMA CallsInsideHolds == Spec => []CallsInside
<1>1. Init => CallsInside
  BY DEF Init, CallsInside, Reopening
<1>2. QED
  BY <1>1, CallsInsideStep, Invariance, PTL DEF Spec

\* What a step does to the queues, by the call that takes it.
LEMMA QueuesAccounted ==
  ASSUME IInv, CallsInside, [Next]_vars
  PROVE  /\ \A t \in tx' \ tx : Steps(t) /\ call[t].op = "write" /\ ret'[t] = "some"
         /\ plugged' /\ ~(rx \subseteq rx')
              => \E t \in Threads :
                   /\ Steps(t)
                   /\ \/ call[t].op = "read" /\ ret'[t] = "some"
                      \/ call[t].op \in Discarding
         /\ pc' # pc /\ ~(tx \subseteq tx')
              => \E t \in Threads : Steps(t) /\ call[t].op \in Discarding
<1> USE DEF IInv, TypeOK, Steps
<1>1. ASSUME NEW t \in Threads,
             \/ Open(t) \/ Close(t) \/ Reconnect(t) \/ Reconfigure(t) \/ Flush(t)
             \/ TermiosApplied(t)
      PROVE  Steps(t) /\ call[t].op \in Discarding /\ tx' \subseteq tx
  <2>1. CASE TermiosApplied(t)
    BY <2>1 DEF TermiosApplied, Purge, Return, CallsInside, Reopening, Changes, Discarding
  <2>2. CASE Open(t) \/ Close(t) \/ Reconnect(t) \/ Reconfigure(t) \/ Flush(t)
    BY <2>2 DEF Open, Close, Reconnect, Reconfigure, Flush, CloseLocked, Purge, Locked,
       Return, Hold, Discarding
  <2>3. QED
    BY <1>1, <2>1, <2>2
<1>2. ASSUME NEW t \in Threads,
             \/ Invoke(t) \/ OpenDevice(t) \/ AssignConfig(t) \/ TermiosFailed(t)
             \/ QuietStep(t)
      PROVE  UNCHANGED <<rx, tx>>
  BY <1>2, QuietIsQuiet DEF Invoke, OpenDevice, AssignConfig, TermiosFailed, tty
<1>3. ASSUME NEW t \in Threads, ReadData(t)
      PROVE  Steps(t) /\ call[t].op = "read" /\ ret'[t] = "some" /\ UNCHANGED tx
  BY <1>3 DEF ReadData, Return, CallsInside
<1>4. ASSUME NEW t \in Threads, WriteData(t)
      PROVE  /\ Steps(t) /\ call[t].op = "write" /\ ret'[t] = "some"
             /\ tx' = tx \cup {t} /\ UNCHANGED rx
  BY <1>4 DEF WriteData, Return, CallsInside, Unmoved
<1>5. CASE Environment
  BY <1>5 DEF Environment, DeviceSends, Transmit, Unplug, Replug, OtherDescriptor, client, tty
<1>6. CASE UNCHANGED vars
  BY <1>6 DEF vars, client, tty
<1>7. QED
  BY <1>1, <1>2, <1>3, <1>4, <1>5, <1>6, NextSplit

\* No byte comes or goes without a call that reports it or discards: a
\* transfer that fails has moved nothing.
THEOREM QueuesAreAccounted == Spec => BytesAccounted
<1>1. IInv /\ CallsInside /\ [Next]_vars =>
        [/\ \A t \in tx' \ tx : Steps(t) /\ call[t].op = "write" /\ ret'[t] = "some"
         /\ plugged' /\ ~(rx \subseteq rx')
              => \E t \in Threads :
                   /\ Steps(t)
                   /\ \/ call[t].op = "read" /\ ret'[t] = "some"
                      \/ call[t].op \in Discarding
         /\ pc' # pc /\ ~(tx \subseteq tx')
              => \E t \in Threads : Steps(t) /\ call[t].op \in Discarding]_vars
  BY QueuesAccounted
<1>2. QED
  BY <1>1, Invariance, CallsInsideHolds, PTL DEF Spec, BytesAccounted

Opened   == fd # NoFd /\ Settled
Changer  == IF Settled THEN NoThread ELSE mutex
Asked    == [t \in Threads |-> IF pc[t] = "idle" THEN NoQuestion ELSE Question(call[t])]
Answered == [t \in Threads |-> AnswerTo(ret[t])]

\* Only the holder of mutex_ can be reopening the port.
LEMMA SettledByMutex ==
  ASSUME IInv
  PROVE  /\ mutex = NoThread => Settled
         /\ \A t \in Threads : mutex = t => (Settled <=> pc[t] \notin Reopening)
BY UartAssumption DEF IInv, TypeOK, MutexHeld, Settled, Reopening, Holding, Inside

LEMMA SettledByMutexNext ==
  ASSUME IInv'
  PROVE  /\ mutex' = NoThread => Settled'
         /\ \A t \in Threads : mutex' = t => (Settled' <=> pc'[t] \notin Reopening)
BY UartAssumption DEF IInv, TypeOK, MutexHeld, Settled, Reopening, Holding, Inside

\* Past the lock, or inside with mutex_ held.
Has(t) == (pc[t] = "lock" /\ mutex = NoThread) \/ pc[t] \in Holding

LEMMA HasThePort ==
  ASSUME IInv, NEW t \in Threads, Has(t)
  PROVE  /\ pc[t] \notin Reopening => Settled
         /\ pc[t] \in Reopening => ~Settled /\ mutex = t
<1> USE DEF IInv, MutexHeld
<1>1. pc[t] \in Reopening => pc[t] \in Holding
  BY DEF Reopening, Holding, Inside
<1>2. CASE pc[t] = "lock" /\ mutex = NoThread
  BY <1>2, SettledByMutex DEF Reopening
<1>3. CASE pc[t] \in Holding
  BY <1>3, SettledByMutex
<1>4. QED
  BY <1>1, <1>2, <1>3 DEF Has

\* A call of a method is a question, and its return an answer.
LEMMA InvokeAsks ==
  ASSUME IInv, NEW t \in Threads, Invoke(t) PROVE Contract!Ask(t)
<1> USE UartAssumption DEF IInv, TypeOK
<1>1. PICK c \in Calls[t] : call' = [call EXCEPT ![t] = c]
  BY DEF Invoke
<1>2. c \in CallSet /\ (c.op \in {"open", "reconfigure"} => c.arg \in Configs)
  OBVIOUS
<1>3. Question(c) \in Contract!Questions
  BY <1>2 DEF Question, CallSet, Ops, Contract!Questions, Contract!Ops,
     Contract!Changes, Contract!Transfers
<1>4. Asked[t] = NoQuestion /\ Asked' = [Asked EXCEPT ![t] = Question(c)]
  BY <1>1 DEF Invoke, Asked
<1>5. Answered' = [Answered EXCEPT ![t] = "pending"]
  BY DEF Invoke, Answered, AnswerTo
<1>6. Asked'[t] = Question(c)
  BY <1>4 DEF Asked
<1>7. Settled' = Settled /\ UNCHANGED <<fd, mutex, applied>>
  BY DEF Invoke, Settled, port
<1>8. QED
  BY <1>3, <1>4, <1>5, <1>6, <1>7, ZenonT(60)
  DEF Contract!Ask, Contract!Idle, NoQuestion, Asked, Answered, Opened

LEMMA ReturnAnswers ==
  ASSUME IInv, NEW t \in Threads, UNCHANGED call, NEW r,
         pc' = [pc EXCEPT ![t] = "idle"], ret' = [ret EXCEPT ![t] = r],
         NEW a, a = AnswerTo(r)
  PROVE  Contract!Answer(t, a)
<1> USE DEF IInv, TypeOK
<1>1. Asked' = [Asked EXCEPT ![t] = NoQuestion]
  BY DEF Asked
<1>2. Answered' = [Answered EXCEPT ![t] = a]
  BY DEF Answered
<1>3. QED
  BY <1>1, <1>2 DEF Contract!Answer, Contract!Idle, NoQuestion, Asked, Answered

LEMMA AskedInside ==
  ASSUME NEW t \in Threads, pc[t] # "idle"
  PROVE  /\ Asked[t].op = call[t].op
         /\ call[t].op \in {"open", "reconfigure"} => Asked[t].cfg = call[t].arg
BY DEF Asked, Question

\* A step within a method that leaves the state of the port as it was, as
\* far as the contract tells.
LEMMA Invisible ==
  ASSUME IInv, Opened' = Opened, Changer' = Changer, UNCHANGED <<applied, ret>>,
         \A t \in Threads :
           /\ pc'[t] = "idle" <=> pc[t] = "idle"
           /\ Question(call'[t]) = Question(call[t])
  PROVE  UNCHANGED Contract!vars
<1>1. Asked' = Asked /\ Answered' = Answered
  BY DEF Asked, Answered
<1>2. QED
  BY <1>1 DEF Contract!vars, Opened, Changer, Asked, Answered

\* A method that returns and leaves fd_ as it was.
LEMMA Answers ==
  ASSUME IInv, IInv', NEW t \in Threads, Has(t), pc[t] \notin Reopening,
         UNCHANGED <<call, fd>>, NEW r, Return(t, r)
  PROVE  /\ \A a : a = AnswerTo(r) => Contract!Answer(t, a)
         /\ Changer = NoThread /\ Changer' = NoThread
         /\ Opened = (fd # NoFd) /\ Opened' = Opened
<1>1. Settled /\ Settled'
  BY HasThePort, SettledByMutexNext DEF Return
<1>2. ASSUME NEW a, a = AnswerTo(r) PROVE Contract!Answer(t, a)
  BY <1>2, ReturnAnswers DEF Return
<1>3. QED
  BY <1>1, <1>2 DEF Opened, Changer

\* What the answers to queries and transfers are made of.
LEMMA AnswersOf ==
  /\ \A r \in {"true", "false", "done", "minus1"} : AnswerTo(r) = r
  /\ AnswerTo("zero") = "count" /\ AnswerTo("some") = "count"
  /\ \A r \in {"open_error", "config_error", "read_error", "write_error"} :
       AnswerTo(r) = "error"
  /\ AnswerTo(NoFd) = "minus1"
  /\ \A n \in Fds : AnswerTo(n) = "value"
  /\ \A c \in UartConfigs \cup {DefaultConfig, Mixed} : AnswerTo(c) = c
BY UartAssumption DEF AnswerTo, Results

\* A call that does not open the port.
LEMMA QueryAnswers ==
  ASSUME IInv, IInv', CallsInside, NEW t \in Threads, Has(t), pc[t] \notin Reopening,
         UNCHANGED <<call, fd, applied>>, NEW r, Return(t, r),
         \/ call[t].op = "is_open" /\ r = (IF fd # NoFd THEN "true" ELSE "false")
         \/ call[t].op = "get_fd" /\ r = fd
         \/ call[t].op = "available" /\ (r = "minus1" \/ (fd # NoFd /\ r \in {"zero", "some"}))
         \/ call[t].op \in {"flush", "drain"} /\ (r = "false" \/ (fd # NoFd /\ r = "true"))
         \/ /\ call[t].op \in {"read", "write"}
            /\ r \in {"read_error", "write_error"} \/ (fd # NoFd /\ r \in {"zero", "some"})
  PROVE  Contract!Query(t)
<1> DEFINE a == AnswerTo(r)
<1>1. /\ Contract!Answer(t, a)
      /\ Changer = NoThread /\ Changer' = NoThread
      /\ Opened = (fd # NoFd) /\ Opened' = Opened
  BY Answers
<1>2. Asked[t].op = call[t].op
  BY AskedInside, UartAssumption DEF Has, Holding, Inside
<1>3. fd \in Fds \cup {NoFd}
  BY DEF IInv, TypeOK
<1>4. \/ call[t].op = "is_open" /\ a = (IF fd # NoFd THEN "true" ELSE "false")
      \/ call[t].op = "get_fd" /\ (a = "minus1" \/ (fd # NoFd /\ a = "value"))
      \/ call[t].op = "available" /\ (a = "minus1" \/ (fd # NoFd /\ a = "count"))
      \/ call[t].op \in {"flush", "drain"} /\ (a = "false" \/ (fd # NoFd /\ a = "true"))
      \/ call[t].op \in {"read", "write"} /\ (a = "error" \/ (fd # NoFd /\ a = "count"))
  BY <1>3, AnswersOf
<1> HIDE DEF a
<1>5. QED
  BY <1>1, <1>2, <1>4 DEF Contract!Query, Contract!Transfers, Opened, Changer, Asked

\* The mutex stays with the thread: nothing the contract tells has changed.
LEMMA GoesOn ==
  ASSUME IInv, IInv', NEW t \in Threads, NEW w \in Inside, Hold(t, w),
         Has(t), w \in Reopening <=> pc[t] \in Reopening,
         w \in Reopening \/ UNCHANGED fd,
         UNCHANGED <<call, applied>>
  PROVE  UNCHANGED Contract!vars
<1> USE DEF IInv, TypeOK
<1>1. /\ pc[t] \notin Reopening => Settled
      /\ pc[t] \in Reopening => ~Settled /\ mutex = t
  BY HasThePort
<1>2. mutex' = t /\ (Settled' <=> w \notin Reopening)
  BY SettledByMutexNext DEF Hold
<1>3. Opened' = Opened /\ Changer' = Changer
  BY <1>1, <1>2 DEF Opened, Changer
<1>4. \A u \in Threads : pc'[u] = "idle" <=> pc[u] = "idle"
  BY UartAssumption DEF Hold, Has, Holding, Inside
<1>5. QED
  BY <1>3, <1>4, Invisible DEF Hold

LEMMA ReturnFails ==
  ASSUME IInv, IInv', CallsInside, NEW t \in Threads, Has(t), call[t].op \in Changes,
         UNCHANGED <<call, applied>>,
         fd' = NoFd \/ (UNCHANGED fd /\ pc[t] \notin Reopening),
         NEW r, Return(t, r),
         \/ r \in {"open_error", "config_error"}
         \/ call[t].op = "reconnect" /\ r = "false"
  PROVE  Contract!Fail(t)
<1> DEFINE a == AnswerTo(r)
<1>1. Contract!Answer(t, a)
  BY ReturnAnswers DEF Return
<1>2. a = "error" \/ (call[t].op = "reconnect" /\ a = "false")
  BY AnswersOf
<1>3. Asked[t].op = call[t].op
  BY AskedInside, UartAssumption DEF Has, Holding, Inside
<1>4. Changer \in {NoThread, t}
  BY HasThePort DEF Changer, Opened
<1>5. Changer' = NoThread /\ Settled'
  BY SettledByMutexNext DEF Return, Changer
<1>6. Opened' \in {FALSE, Opened}
  BY <1>5, HasThePort DEF Opened
<1> HIDE DEF a
<1>7. QED
  BY <1>1, <1>2, <1>3, <1>4, <1>5, <1>6
     DEF Contract!Fail, Contract!Changes, Changes, Opened, Changer, Asked

\* Open, reconnect and reconfigure: the port is closed first, or refuses.
LEMMA ChangeBegins ==
  ASSUME IInv, IInv', CallsInside, NEW t \in Threads,
         Open(t) \/ Reconnect(t) \/ Reconfigure(t)
  PROVE  Contract!Begin(t) \/ Contract!Fail(t)
<1> USE DEF IInv, TypeOK
<1>1. /\ pc[t] = "lock" /\ mutex = NoThread /\ call[t].op \in Changes
      /\ Has(t) /\ pc[t] \notin Reopening /\ UNCHANGED applied
  BY DEF Open, Reconnect, Reconfigure, Locked, Changes, Has, Reopening
<1>2. CASE Hold(t, "opening")
  <2>1. fd' = NoFd /\ \A u \in Threads : Question(call'[u]) = Question(call[u])
    BY <1>2 DEF Open, Reconnect, Reconfigure, CloseLocked, Locked, Question, Hold, Return
  <2>2. Asked' = Asked /\ Answered' = Answered
    BY <1>1, <1>2, <2>1 DEF Hold, Asked, Answered
  <2>3. Changer = NoThread /\ Changer' = t /\ Opened' = FALSE
    BY <1>1, <1>2, <2>1, SettledByMutex, SettledByMutexNext
       DEF Changer, Opened, Hold, Reopening
  <2>4. Asked[t].op = call[t].op
    BY <1>1, AskedInside
  <2>5. QED
    BY <1>1, <2>2, <2>3, <2>4
       DEF Contract!Begin, Contract!Changes, Changes, Opened, Changer, Asked, Answered
<1>3. CASE ~Hold(t, "opening")
  <2>1. PICK r : /\ Return(t, r) /\ UNCHANGED call /\ fd' \in {fd, NoFd}
                 /\ r = "config_error" \/ (call[t].op = "reconnect" /\ r = "false")
    BY <1>3 DEF Open, Reconnect, Reconfigure, Locked, CloseLocked
  <2>2. QED
    BY <1>1, <2>1, ReturnFails
<1>4. QED
  BY <1>2, <1>3

\* The end of open_locked: opened with the configuration that was asked for,
\* by reconnect with the one applied before, or closed.
LEMMA OpeningAnswers ==
  ASSUME IInv, IInv', CallsInside, NEW t \in Threads,
         OpenDevice(t) \/ AssignConfig(t) \/ TermiosApplied(t) \/ TermiosFailed(t)
  PROVE  Contract!Succeed(t) \/ Contract!Fail(t) \/ UNCHANGED Contract!vars
<1> USE DEF IInv, TypeOK
<1>1. /\ pc[t] \in Reopening /\ Has(t) /\ call[t].op \in Changes /\ UNCHANGED call
      /\ call[t].arg \in UartConfigs
      /\ call[t].op = "reconnect" => call[t].arg = applied
  BY DEF OpenDevice, AssignConfig, TermiosApplied, TermiosFailed, Reopening, CallsInside,
     Has, Holding, Inside, InsideMethod
<1>2. CASE Hold(t, "assigning") \/ Hold(t, "configuring")
  <2>1. UNCHANGED applied
    BY <1>2 DEF OpenDevice, AssignConfig, TermiosApplied, TermiosFailed, Hold, Return, hist
  <2>2. QED
    BY <1>1, <1>2, <2>1, GoesOn DEF Inside, Reopening
<1>3. CASE TermiosApplied(t)
  <2>1. Return(t, "true") /\ UNCHANGED fd /\ fd # NoFd
        /\ applied' = config /\ config = call[t].arg
    BY <1>3 DEF TermiosApplied, InsideMethod, Live, port
  <2>2. Contract!Answer(t, "true")
    BY <1>1, <2>1, ReturnAnswers, AnswersOf DEF Return
  <2>3. Changer = t /\ Changer' = NoThread /\ Opened' = TRUE
    BY <1>1, <2>1, HasThePort, SettledByMutexNext DEF Changer, Opened, Return
  <2>4. Asked[t].op = call[t].op
        /\ (call[t].op \in {"open", "reconfigure"} => Asked[t].cfg = call[t].arg)
    BY <1>3, AskedInside DEF TermiosApplied
  <2>5. QED
    BY <1>1, <2>1, <2>2, <2>3, <2>4, UartAssumption
       DEF Contract!Succeed, Contract!Changes, Changes, Opened, Changer, Asked
<1>4. CASE TermiosFailed(t) \/ (OpenDevice(t) /\ ~Hold(t, "assigning"))
  <2>1. PICK r \in {"open_error", "config_error"} :
          Return(t, r) /\ fd' = NoFd /\ UNCHANGED applied
    BY <1>4 DEF TermiosFailed, OpenDevice, InsideMethod, hist
  <2>2. QED
    BY <1>1, <2>1, ReturnFails
<1>5. QED
  BY <1>2, <1>3, <1>4 DEF AssignConfig

LEMMA CloseAnswers ==
  ASSUME IInv, IInv', NEW t \in Threads, Close(t) PROVE Contract!Close(t)
<1> USE DEF IInv, TypeOK
<1>1. Contract!Answer(t, "done")
  BY ReturnAnswers, AnswersOf DEF Close, Return
<1>2. Asked[t].op = "close" /\ fd' = NoFd /\ UNCHANGED applied
  BY AskedInside DEF Close, Locked, CloseLocked
<1>3. Changer = NoThread /\ Changer' = NoThread /\ Opened' = FALSE
  BY <1>2, SettledByMutex, SettledByMutexNext DEF Close, Locked, Return, Changer, Opened
<1>4. QED
  BY <1>1, <1>2, <1>3 DEF Contract!Close, Opened, Changer, Asked

LEMMA TransferAnswers ==
  ASSUME IInv, IInv', CallsInside, NEW t \in Threads,
         Flush(t) \/ ReadData(t) \/ WriteData(t)
  PROVE  Contract!Query(t)
<1>1. Has(t) /\ pc[t] \notin Reopening /\ UNCHANGED <<call, fd, applied>>
  BY DEF Flush, ReadData, WriteData, Locked, Has, Holding, Inside, Reopening, Unmoved,
     port, hist
<1>2. \/ /\ call[t].op = "flush"
         /\ \E r : Return(t, r) /\ (r = "false" \/ (fd # NoFd /\ r = "true"))
      \/ call[t].op \in {"read", "write"} /\ fd # NoFd /\ Return(t, "some")
  BY DEF Flush, ReadData, WriteData, Locked, Live, CallsInside
<1>3. QED
  BY <1>1, <1>2, QueryAnswers

LEMMA QuietAnswers ==
  ASSUME IInv, IInv', CallsInside, NEW t \in Threads, QuietStep(t)
  PROVE  Contract!Next \/ UNCHANGED Contract!vars
<1> USE DEF IInv, TypeOK
<1>1. UNCHANGED <<call, fd, config, applied>>
  BY QuietIsQuiet DEF port, hist
<1>2. CASE GetConfig(t)
  <2>1. Settled' = Settled /\ UNCHANGED mutex
    BY <1>2 DEF GetConfig, Locked, Settled
  <2>2. \A u \in Threads : pc'[u] = "idle" <=> pc[u] = "idle"
    BY <1>2 DEF GetConfig, Locked
  <2>3. UNCHANGED ret
    BY <1>2 DEF GetConfig
  <2>4. QED
    BY <1>1, <2>1, <2>2, <2>3, Invisible DEF Opened, Changer
<1>3. CASE ReadConfigRef(t)
  <2>1. Settled' = Settled /\ UNCHANGED mutex
    BY <1>3 DEF ReadConfigRef, Settled
  <2>2. Contract!Answer(t, config)
    <3>1. PICK c \in UartConfigs \cup {DefaultConfig, Mixed} : c = config
      OBVIOUS
    <3>2. c = AnswerTo(c)
      BY AnswersOf
    <3>3. /\ pc' = [pc EXCEPT ![t] = "idle"]
          /\ ret' = [ret EXCEPT ![t] = c]
      BY <1>3, <3>1 DEF ReadConfigRef
    <3>4. Contract!Answer(t, c)
      BY <1>1, <3>2, <3>3, ReturnAnswers
    <3>5. QED
      BY <3>1, <3>4 DEF Contract!Answer
  <2>3. Asked[t].op = "get_config"
    BY <1>3, AskedInside DEF ReadConfigRef, CallsInside
  <2>4. CASE Opened
    <3>1. config = applied /\ config # DefaultConfig /\ Changer = NoThread
      BY <2>4, UartAssumption DEF Opened, Changer, OpenIsConfigured
    <3>2. Contract!Answer(t, IF applied = DefaultConfig THEN Answered'[t] ELSE applied)
      BY <2>2, <3>1 DEF Contract!Answer
    <3>3. Contract!Query(t)
      BY <1>1, <2>1, <2>3, <3>1, <3>2 DEF Contract!Query, Opened, Changer, Asked, Answered
    <3>4. QED
      BY <3>3 DEF Contract!Next
  <2>5. CASE ~Opened
    <3>1. Contract!Answer(t, Answered'[t])
      BY <2>2 DEF Contract!Answer, Answered
    <3>2. Contract!Exempted(t)
      BY <1>1, <2>1, <2>3, <2>5, <3>1 DEF Contract!Exempted, Opened, Changer, Asked, Answered
    <3>3. QED
      BY <3>2 DEF Contract!Next
  <2>6. QED
    BY <2>4, <2>5
<1>4. CASE ~GetConfig(t) /\ ~ReadConfigRef(t)
  <2>1. Has(t) /\ pc[t] \notin Reopening
    BY <1>4 DEF QuietStep, IsOpen, GetFd, Available, Drain, DrainEnds, Interrupted, Read,
       ReadNothing, ReadHangup, Write, WriteFails, Locked, Has, Holding, Inside, Reopening
  <2>2. CASE \E w \in Blocked : Hold(t, w)
    BY <1>1, <2>1, <2>2, GoesOn DEF Blocked, Inside, Reopening
  <2>3. CASE ~ \E w \in Blocked : Hold(t, w)
    <3> DEFINE Fits(r) ==
                 /\ Return(t, r)
                 /\ \/ call[t].op = "is_open" /\ r = (IF fd # NoFd THEN "true" ELSE "false")
                    \/ call[t].op = "get_fd" /\ r = fd
                    \/ /\ call[t].op = "available"
                       /\ r = "minus1" \/ (fd # NoFd /\ r \in {"zero", "some"})
                    \/ /\ call[t].op \in {"flush", "drain"}
                       /\ r = "false" \/ (fd # NoFd /\ r = "true")
                    \/ /\ call[t].op \in {"read", "write"}
                       /\ \/ r \in {"read_error", "write_error"}
                          \/ fd # NoFd /\ r \in {"zero", "some"}
    <3>1. \E r : Fits(r)
      <4>1. CASE IsOpen(t)
        BY <4>1 DEF IsOpen, Locked
      <4>2. CASE GetFd(t) \/ Available(t)
        BY <4>2 DEF GetFd, Available, Locked, Live
      <4>3. CASE Drain(t) \/ DrainEnds(t)
        BY <2>3, <4>3 DEF Drain, DrainEnds, Locked, Blocked, CallsInside, Live
      <4>4. CASE Read(t) \/ Write(t)
        <5>1. \E r \in {"read_error", "write_error", "zero"} :
                Return(t, r) /\ (r = "zero" => fd # NoFd)
          BY <2>3, <4>4 DEF Read, Write, Blocked
        <5>2. QED
          BY <4>4, <5>1 DEF Read, Write, Locked
      <4>5. CASE ReadNothing(t) \/ ReadHangup(t) \/ WriteFails(t)
        <5>1. /\ fd # NoFd /\ call[t].op \in {"read", "write"}
              /\ \E r \in {"zero", "read_error", "write_error"} : Return(t, r)
          BY <4>5, UartAssumption DEF ReadNothing, ReadHangup, WriteFails, CallsInside,
             InsideMethod, Blocked
        <5>2. QED
          BY <5>1
      <4>6. CASE Interrupted(t)
        BY <4>6 DEF Interrupted, CallsInside
      <4>7. QED
        BY <1>4, <4>1, <4>2, <4>3, <4>4, <4>5, <4>6 DEF QuietStep
    <3>2. Contract!Query(t)
      BY <1>1, <2>1, <3>1, QueryAnswers
    <3>3. QED
      BY <3>2 DEF Contract!Next
  <2>4. QED
    BY <2>2, <2>3
<1>5. QED
  BY <1>2, <1>3, <1>4

LEMMA ContractStep ==
  IInv /\ IInv' /\ CallsInside /\ [Next]_vars => [Contract!Next]_Contract!vars
<1> SUFFICES ASSUME IInv, IInv', CallsInside, [Next]_vars
             PROVE  Contract!Next \/ UNCHANGED Contract!vars
  OBVIOUS
<1>1. ASSUME NEW t \in Threads, Invoke(t) PROVE Contract!Next
  BY <1>1, InvokeAsks DEF Contract!Next
<1>2. ASSUME NEW t \in Threads, Open(t) \/ Reconnect(t) \/ Reconfigure(t)
      PROVE  Contract!Next
  BY <1>2, ChangeBegins DEF Contract!Next
<1>3. ASSUME NEW t \in Threads,
             OpenDevice(t) \/ AssignConfig(t) \/ TermiosApplied(t) \/ TermiosFailed(t)
      PROVE  Contract!Next \/ UNCHANGED Contract!vars
  BY <1>3, OpeningAnswers DEF Contract!Next
<1>4. ASSUME NEW t \in Threads, Close(t) \/ Flush(t) \/ ReadData(t) \/ WriteData(t)
      PROVE  Contract!Next
  BY <1>4, CloseAnswers, TransferAnswers DEF Contract!Next
<1>5. CASE Environment \/ UNCHANGED vars
  <2>1. UNCHANGED <<client, mutex, fd, applied>>
    BY <1>5 DEF Environment, DeviceSends, Transmit, Unplug, Replug, OtherDescriptor,
       vars, port, hist
  <2>2. Settled' = Settled
    BY <2>1 DEF client, Settled
  <2>3. QED
    BY <2>1, <2>2, Invisible DEF client, Opened, Changer
<1>6. QED
  BY <1>1, <1>2, <1>3, <1>4, <1>5, QuietAnswers, NextSplit

\* The port implements what i_io_port promises, although its calls block and
\* take many steps.
THEOREM ImplementsContract == Spec => UartImplements
<1>1. Init => Contract!Init
  BY DEF Init, Contract!Init, Contract!Idle, NoQuestion, AnswerTo, Settled
<1>2. IInv /\ IInv' /\ CallsInside /\ [Next]_vars => [Contract!Next]_Contract!vars
  BY ContractStep
<1>3. QED
  BY <1>1, <1>2, Invariance, CallsInsideHolds, PTL DEF Spec, UartImplements, Contract!Spec

-----------------------------------------------------------------------------
(* Draining, when one thread owns the lifecycle.                           *)

Owning == {"open", "close", "reconnect", "reconfigure", "flush", "drain"}

SoleOwner(w) ==
  \A t \in Threads \ {w} : \A c \in Calls[t] : c.op \notin Owning

\* What the owner has unsent is lost with the device only; and then it must
\* reopen the port, which the owner knows, before the port can drain.
Unharmed(w) ==
  /\ \A t \in Threads \ {w} : call[t].op \notin Owning
  /\ w \in lost /\ Settled /\ fd # NoFd => fdTable[fd] # "tty"
  /\ pc[w] = "idle" /\ call[w].op = "drain" /\ ret[w] = "true" => w \notin lost \cup tx

LEMMA UnharmedStep ==
  ASSUME NEW w \in Threads, SoleOwner(w), IInv, IInv', CallsInside, Unharmed(w), [Next]_vars
  PROVE  Unharmed(w)'
<1> USE UartAssumption DEF IInv, TypeOK
<1>1. ASSUME NEW t \in Threads, Invoke(t) PROVE Unharmed(w)'
  <2>1. PICK c \in Calls[t] : call' = [call EXCEPT ![t] = c]
    BY <1>1 DEF Invoke
  <2>2. (\A u \in Threads \ {w} : call[u].op \notin Owning)'
    BY <2>1 DEF SoleOwner, Unharmed
  <2>3. Settled' = Settled /\ UNCHANGED <<fd, fdTable, tx>> /\ lost' \subseteq lost
    BY <1>1 DEF Invoke, Settled, port, tty
  <2>4. pc'[t] # "idle" /\ \A u \in Threads : u # t =>
          pc'[u] = pc[u] /\ call'[u] = call[u] /\ ret'[u] = ret[u]
    BY <1>1, <2>1 DEF Invoke
  <2>5. QED
    BY <2>2, <2>3, <2>4 DEF Unharmed
<1>2. ASSUME NEW t \in Threads,
             Open(t) \/ Close(t) \/ Reconnect(t) \/ Reconfigure(t) \/ Flush(t)
      PROVE  Unharmed(w)'
  <2>1. t = w /\ pc[t] = "lock" /\ call[t].op \in Owning \ {"drain"} /\ mutex = NoThread
    BY <1>2 DEF Open, Close, Reconnect, Reconfigure, Flush, Locked, Owning, Unharmed
  <2>2. Settled
    BY <2>1, SettledByMutex
  <2>3. (\A u \in Threads \ {w} : call[u].op \notin Owning)' /\ call'[w].op = call[w].op
    BY <1>2, <2>1 DEF Open, Close, Reconnect, Reconfigure, Flush, Locked, Unharmed
  <2>4. \/ fd' = NoFd
        \/ UNCHANGED <<fd, fdTable>> /\ (lost' = lost \/ w \notin lost')
    <3>1. CASE Flush(t)
      BY <2>1, <3>1 DEF Flush, Purge, port
    <3>2. CASE ~Flush(t)
      <4>1. CloseLocked(t) \/ UNCHANGED <<fd, fdTable, lost>>
        BY <1>2, <3>2 DEF Open, Close, Reconnect, Reconfigure
      <4>2. QED
        BY <4>1 DEF CloseLocked
    <3>3. QED
      BY <3>1, <3>2
  <2>5. QED
    BY <2>1, <2>2, <2>3, <2>4 DEF Unharmed
<1>3. ASSUME NEW t \in Threads,
             OpenDevice(t) \/ AssignConfig(t) \/ TermiosApplied(t) \/ TermiosFailed(t)
      PROVE  Unharmed(w)'
  <2>1. UNCHANGED call /\ pc[t] \in Reopening
    BY <1>3 DEF OpenDevice, AssignConfig, TermiosApplied, TermiosFailed, Reopening
  <2>2. t = w /\ call[w].op # "drain"
    BY <2>1 DEF CallsInside, Changes, Owning, Unharmed
  <2>3. (Settled /\ fd # NoFd)' => TermiosApplied(t)
    BY <1>3, <2>2 DEF OpenDevice, AssignConfig, TermiosFailed, Hold, Settled, InsideMethod
  <2>4. TermiosApplied(t) => w \notin lost'
    BY <2>2 DEF TermiosApplied, Purge
  <2>5. QED
    BY <2>1, <2>2, <2>3, <2>4 DEF Unharmed
<1>4. ASSUME NEW t \in Threads, QuietStep(t) \/ ReadData(t) \/ WriteData(t)
      PROVE  Unharmed(w)'
  <2>1. UNCHANGED <<call, fd, fdTable, lost>>
    BY <1>4, QuietIsQuiet DEF ReadData, WriteData, Unmoved, port, hist
  <2>2. tx' \subseteq tx \cup {t} /\ (~WriteData(t) => tx' = tx)
    BY <1>4, QuietIsQuiet DEF ReadData, WriteData, tty
  <2>3. /\ pc[t] # "idle"
        /\ \A u \in Threads : u # t => pc'[u] = pc[u] /\ ret'[u] = ret[u]
    BY <1>4 DEF QuietStep, IsOpen, GetFd, GetConfig, ReadConfigRef, Available, Drain,
       DrainEnds, Interrupted, Read, ReadNothing, ReadHangup, Write, WriteFails, ReadData,
       WriteData, Locked, Return, Hold
  <2>4. Settled' = Settled
    <3>1. /\ pc[t] \notin Reopening /\ pc'[t] \notin Reopening
      BY <1>4 DEF QuietStep, IsOpen, GetFd, GetConfig, ReadConfigRef, Available, Drain,
         DrainEnds, Interrupted, Read, ReadNothing, ReadHangup, Write, WriteFails, ReadData,
         WriteData, Locked, Return, Hold, Reopening
    <3>2. QED
      BY <2>3, <3>1 DEF Settled, Reopening
  <2>5. t = w /\ call[w].op = "drain" /\ pc'[w] = "idle" /\ ret'[w] = "true"
          => pc[w] = "draining" /\ Live /\ tx = {} /\ ~WriteData(t)
    BY <1>4 DEF QuietStep, IsOpen, GetFd, GetConfig, ReadConfigRef, Available, Drain,
       DrainEnds, Interrupted, Read, ReadNothing, ReadHangup, Write, WriteFails, ReadData,
       WriteData, Locked, Return, Hold, CallsInside
  <2>6. pc[w] = "draining" => Settled
    BY HasThePort DEF Has, Holding, Inside, Reopening
  <2>7. QED
    BY <2>1, <2>2, <2>3, <2>4, <2>5, <2>6 DEF Unharmed, Live
<1>5. CASE Environment
  <2>1. UNCHANGED <<client, fd>> /\ tx' \subseteq tx
    BY <1>5 DEF Environment, DeviceSends, Transmit, Unplug, Replug, OtherDescriptor, port, tty
  <2>2. Settled' = Settled
    BY <2>1 DEF client, Settled
  <2>3. \/ lost' = lost
        \/ /\ lost' = lost \cup tx
           /\ fd # NoFd => fdTable'[fd] # "tty"
    BY <1>5 DEF Environment, DeviceSends, Transmit, Unplug, Replug, OtherDescriptor, hist
  <2>4. fd # NoFd /\ fdTable'[fd] = "tty" => fdTable[fd] = "tty"
    BY <1>5 DEF Environment, DeviceSends, Transmit, Unplug, Replug, OtherDescriptor
  <2>5. QED
    BY <2>1, <2>2, <2>3, <2>4 DEF Unharmed, client
<1>6. CASE UNCHANGED vars
  BY <1>6 DEF vars, client, port, tty, hist, Unharmed, Settled
<1>7. QED
  BY <1>1, <1>2, <1>3, <1>4, <1>5, <1>6, NextSplit

\* When only one thread opens, closes, flushes and drains, every drain() that
\* returns true has delivered what its caller wrote.
THEOREM DrainsDeliver ==
  ASSUME NEW w \in Threads, SoleOwner(w)
  PROVE  Spec => []DrainDelivers
<1>1. Init => Unharmed(w)
  BY DEF Init, Unharmed, NoCall, Owning
<1>2. IInv /\ IInv' /\ CallsInside /\ Unharmed(w) /\ [Next]_vars => Unharmed(w)'
  BY UnharmedStep
<1>3. Unharmed(w) => DrainDelivers
  BY DEF Unharmed, DrainDelivers, Owning
<1>4. QED
  BY <1>1, <1>2, <1>3, Invariance, CallsInsideHolds, PTL DEF Spec

=============================================================================
