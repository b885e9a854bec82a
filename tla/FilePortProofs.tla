--------------------------- MODULE FilePortProofs ---------------------------
(***************************************************************************)
(* What a recording keeps, for any number of threads, any file and disk    *)
(* size and any transfer lengths.                                          *)
(***************************************************************************)
EXTENDS FilePort, TLAPS

\* The parts of TypeOK: of the threads, of the port and the file, and of the
\* history.
ClientOK ==
  /\ pc \in [Threads -> {"idle", "called"} \cup Inside]
  /\ call \in [Threads -> CallSet \cup {NoCall}]
  /\ ret \in [Threads -> Results]
  /\ count \in [Threads -> Int]
  /\ mutex \in Threads \cup {NoThread}
  /\ promised \subseteq Threads

DiskOK ==
  /\ isOpen \in BOOLEAN
  /\ config \in FileConfigs \cup {DefaultConfig}
  /\ file \in Seq(Bytes) /\ Len(file) <= DiskSize
  /\ offset \in 0..Len(file)

HistoryOK == committed \in Seq(Bytes) /\ turns \in 0..(MaxTransfer + 1)

\* mutex_ is held by the thread inside a method, and by no other.
MutexHeld == \A t \in Threads : pc[t] \in Inside <=> mutex = t

\* What a thread inside a loop knows.
InsideMethod ==
  \A t \in Threads :
    /\ pc[t] \in Inside => isOpen
    /\ pc[t] \in {"reading", "writing"} => count[t] \in Nat /\ count[t] < call[t].len
    /\ pc[t] = "writing" => config \in Writable

\* A session that records without loop mode stays at the end of the file: its
\* reads find nothing and have nowhere to wrap to.
AtEnd == isOpen /\ config \in Writable \ Looping => offset = Len(file)

\* Halfway through a write, a recording ends with what was written so far.
Halfway ==
  \A t \in Threads :
    pc[t] = "writing" /\ count[t] > 0 /\ config \notin Looping
      => Len(file) > 0 /\ file[Len(file)] = [by |-> t, nth |-> count[t]]

IInv == ClientOK /\ DiskOK /\ HistoryOK /\ MutexHeld /\ InsideMethod /\ AtEnd

-----------------------------------------------------------------------------
(* Lemmas about the operators.                                             *)

\* The cast of available() gives an int.
LEMMA ToIntType == ASSUME NEW n \in Int PROVE ToInt(n) \in Int
BY FileAssumption DEF ToInt

\* Rounds of a loop are counted as far as the bound goes.
LEMMA TurnType ==
  ASSUME turns \in 0..(MaxTransfer + 1)
  PROVE  Turn \in 0..(MaxTransfer + 1) /\ Turn <= turns + 1
BY FileAssumption DEF Turn

\* A write extends the file to where it ends, and keeps what is before it.
LEMMA OverwrittenFile ==
  ASSUME DiskOK, NEW t \in Threads, NEW from \in Nat, NEW n \in Nat,
         offset + n <= DiskSize
  PROVE  LET new == Overwritten(t, from, n) IN
         /\ new \in Seq(Bytes)
         /\ Len(new) = IF offset + n > Len(file) THEN offset + n ELSE Len(file)
         /\ \A i \in 1..Len(new) :
              new[i] = IF i \in (offset + 1)..(offset + n)
                       THEN [by |-> t, nth |-> from + i - offset] ELSE file[i]
<1> DEFINE size == IF offset + n > Len(file) THEN offset + n ELSE Len(file)
           new  == Overwritten(t, from, n)
<1>1. size \in Nat /\ Len(file) \in Nat /\ offset \in Nat
  BY FileAssumption DEF DiskOK
<1>2. ASSUME NEW i \in 1..size, i \in (offset + 1)..(offset + n)
      PROVE  [by |-> t, nth |-> from + i - offset] \in Bytes
  <2>1. from + i - offset \in Nat
    BY <1>1, <1>2
  <2>2. QED
    BY <2>1 DEF Bytes
<1>3. ASSUME NEW i \in 1..size, i \notin (offset + 1)..(offset + n)
      PROVE  file[i] \in Bytes
  <2>1. i \in 1..Len(file)
    BY <1>1, <1>3 DEF DiskOK
  <2>2. QED
    BY <2>1 DEF DiskOK
<1>4. new \in [1..size -> Bytes]
  BY <1>2, <1>3 DEF Overwritten
<1>5. new \in Seq(Bytes) /\ Len(new) = size
  BY <1>1, <1>4
<1>6. QED
  BY <1>5 DEF Overwritten

-----------------------------------------------------------------------------
(* The invariant.                                                          *)

\* The steps that change neither the port nor the file nor the offset.
QuietStep(t) ==
  \/ Invoke(t) \/ IsOpen(t) \/ Flush(t) \/ Available(t) \/ NoTransfer(t)
  \/ Read(t) \/ ReadFails(t) \/ ThrottleEnds(t)
  \/ Write(t) \/ WriteThrows(t)

LEMMA NextSplit ==
  [Next]_vars =>
    \/ \E t \in Threads :
         \/ Open(t) \/ Reconnect(t) \/ Close(t)
         \/ ReadSome(t) \/ ReadEnd(t) \/ WriteSome(t) \/ QuietStep(t)
    \/ UNCHANGED vars
BY DEF Next, TakesLock, Continues, QuietStep, DiskFull, WriteFails

LEMMA QuietIsQuiet ==
  ASSUME NEW t \in Threads, QuietStep(t)
  PROVE  UNCHANGED <<port, file, offset>> /\ committed' \in {committed, file}
BY DEF QuietStep, Invoke, IsOpen, Flush, Available, NoTransfer, Read, ReadFails,
   ThrottleEnds, Write, WriteThrows, Quiet, port, disk, bytes

LEMMA InitIInv == Init => IInv
<1> SUFFICES ASSUME Init PROVE IInv
  OBVIOUS
<1> USE FileAssumption
<1>1. file \in Seq(Bytes) /\ Len(file) = Recording
  <2>1. file \in [1..Recording -> Bytes]
    BY DEF Init, Bytes
  <2>2. QED
    BY <2>1
<1>2. isOpen = FALSE /\ config = DefaultConfig /\ offset = 0
  BY DEF Init
<1>3. ClientOK
  BY DEF Init, ClientOK, NoCall, Results, Inside
<1>4. DiskOK
  <2>1. isOpen \in BOOLEAN
    BY <1>2
  <2>2. Len(file) <= DiskSize /\ offset \in 0..Len(file)
    BY <1>1, <1>2
  <2>3. config \in FileConfigs \cup {DefaultConfig}
    BY <1>2
  <2>4. QED
    BY <1>1, <2>1, <2>2, <2>3 DEF DiskOK
<1>5. HistoryOK
  <2>1. committed = file /\ turns = 0
    BY DEF Init
  <2>2. QED
    BY <1>1, <2>1 DEF HistoryOK
<1>6. MutexHeld /\ InsideMethod /\ AtEnd
  BY <1>2 DEF Init, MutexHeld, InsideMethod, AtEnd, Inside
<1>7. QED
  BY <1>3, <1>4, <1>5, <1>6 DEF IInv

LEMMA ClientStep == ClientOK /\ DiskOK /\ [Next]_vars => ClientOK'
<1> SUFFICES ASSUME ClientOK, DiskOK, [Next]_vars PROVE ClientOK'
  OBVIOUS
<1> USE FileAssumption DEF ClientOK, Results, Inside, Return, Hold
<1>1. ASSUME NEW t \in Threads, Open(t) \/ Reconnect(t) \/ Close(t) PROVE ClientOK'
  <2>1. /\ UNCHANGED call
        /\ promised' = {}
        /\ \/ Return(t, "true", 0) \/ Return(t, "open_error", 0) \/ Return(t, "done", 0)
    BY <1>1 DEF Open, Reconnect, Close, OpenLocked
  <2>2. QED
    BY <2>1
<1>2. ASSUME NEW t \in Threads, ReadSome(t) PROVE ClientOK'
  <2>1. PICK n \in 1..(call[t].len - count[t]) :
          \/ LeaveRead(t, count[t] + n) \/ Hold(t, "reading", count[t] + n)
    BY <1>2 DEF ReadSome
  <2>2. call[t].len \in Int /\ count[t] + n \in Int
    BY DEF CallSet, NoCall
  <2>3. UNCHANGED call /\ promised' = {}
    BY <1>2 DEF ReadSome
  <2>4. QED
    BY <2>1, <2>2, <2>3 DEF LeaveRead
<1>3. ASSUME NEW t \in Threads, ReadEnd(t) PROVE ClientOK'
  BY <1>3, ZenonT(60) DEF ReadEnd, LeaveRead, client
<1>4. ASSUME NEW t \in Threads, WriteSome(t) PROVE ClientOK'
  <2>1. call[t].len \in Int
    BY DEF CallSet, NoCall
  <2>2. QED
    BY <1>4, <2>1 DEF WriteSome
<1>5. ASSUME NEW t \in Threads, Invoke(t) PROVE ClientOK'
  BY <1>5 DEF Invoke, lock
<1>6. ASSUME NEW t \in Threads, Available(t) PROVE ClientOK'
  <2>1. Remaining \in Int
    BY DEF Remaining, DiskOK
  <2>2. ToInt(Remaining) \in Int
    BY <2>1, ToIntType
  <2>3. QED
    BY <1>6, <2>2 DEF Available
<1>7. ASSUME NEW t \in Threads,
             \/ IsOpen(t) \/ Flush(t) \/ NoTransfer(t) \/ Read(t) \/ ReadFails(t)
             \/ ThrottleEnds(t) \/ Write(t) \/ WriteThrows(t)
      PROVE  ClientOK'
  BY <1>7 DEF IsOpen, Flush, NoTransfer, Read, ReadFails, ThrottleEnds, Write,
     WriteThrows, Quiet, lock
<1>8. CASE UNCHANGED vars
  BY <1>8 DEF vars, client, lock
<1>9. QED
  BY <1>1, <1>2, <1>3, <1>4, <1>5, <1>6, <1>7, <1>8, NextSplit DEF QuietStep

\* The file stays within the disk and the offset within the file.
LEMMA DiskStep == IInv /\ [Next]_vars => DiskOK'
<1> SUFFICES ASSUME IInv, [Next]_vars PROVE DiskOK'
  OBVIOUS
<1> USE FileAssumption DEF IInv, DiskOK
<1>1. ASSUME NEW t \in Threads, Open(t) \/ Reconnect(t) PROVE DiskOK'
  <2>1. PICK c : OpenLocked(t, c)
    BY <1>1 DEF Open, Reconnect
  <2>2. <<>> \in Seq(Bytes) /\ Len(<<>>) = 0
    OBVIOUS
  <2>3. CASE UNCHANGED <<config, disk>> /\ isOpen' = FALSE
    BY <2>3 DEF disk, bytes
  <2>4. CASE isOpen' /\ config' = c /\ c \in FileConfigs /\ offset' = 0 /\ file' = <<>>
    BY <2>2, <2>4
  <2>5. CASE isOpen' /\ config' = c /\ c \in FileConfigs /\ offset' = 0 /\ file' = file
    BY <2>5
  <2>6. QED
    BY <2>1, <2>3, <2>4, <2>5 DEF OpenLocked
<1>2. ASSUME NEW t \in Threads, Close(t) PROVE DiskOK'
  BY <1>2 DEF Close, disk, bytes
<1>3. ASSUME NEW t \in Threads, ReadSome(t) PROVE DiskOK'
  <2>1. PICK n \in 1..(call[t].len - count[t]) :
          offset + n <= Len(file) /\ offset' = offset + n
    BY <1>3 DEF ReadSome
  <2>2. call[t].len \in Int /\ count[t] \in Int
    BY DEF ClientOK, CallSet, NoCall
  <2>3. QED
    BY <1>3, <2>1, <2>2 DEF ReadSome, port, bytes
<1>4. ASSUME NEW t \in Threads, ReadEnd(t) PROVE DiskOK'
  BY <1>4 DEF ReadEnd, port, bytes
<1>5. ASSUME NEW t \in Threads, WriteSome(t) PROVE DiskOK'
  <2>1. PICK n \in 1..(call[t].len - count[t]) :
          /\ offset + n <= DiskSize
          /\ file' = Overwritten(t, count[t], n)
          /\ offset' = offset + n
    BY <1>5 DEF WriteSome
  <2>2. call[t].len \in Int /\ count[t] \in Nat /\ n \in Nat
    BY <1>5, <2>1 DEF WriteSome, InsideMethod, ClientOK, CallSet, NoCall
  <2>3. file' \in Seq(Bytes) /\ Len(file') <= DiskSize /\ offset' \in 0..Len(file')
    BY <2>1, <2>2, OverwrittenFile
  <2>4. QED
    BY <1>5, <2>3 DEF WriteSome, port
<1>6. ASSUME NEW t \in Threads, QuietStep(t) PROVE DiskOK'
  BY <1>6, QuietIsQuiet DEF port, disk
<1>7. CASE UNCHANGED vars
  BY <1>7 DEF vars, port, disk, bytes
<1>8. QED
  BY <1>1, <1>2, <1>3, <1>4, <1>5, <1>6, <1>7, NextSplit

\* The history follows the file and the rounds.
LEMMA HistoryStep == IInv /\ DiskOK' /\ [Next]_vars => HistoryOK'
<1> SUFFICES ASSUME IInv, DiskOK', [Next]_vars PROVE HistoryOK'
  OBVIOUS
<1>1. committed' \in {committed, file, file'} /\ turns' \in {turns, 0, Turn}
  <2> USE DEF Return, Hold
  <2>1. ASSUME NEW t \in Threads, Open(t) \/ Reconnect(t) \/ Close(t)
        PROVE  committed' \in {committed, file, file'} /\ turns' \in {turns, 0, Turn}
    BY <2>1 DEF Open, Reconnect, Close, OpenLocked, disk, bytes
  <2>2. ASSUME NEW t \in Threads, ReadSome(t) \/ ReadEnd(t)
        PROVE  committed' \in {committed, file, file'} /\ turns' \in {turns, 0, Turn}
    BY <2>2 DEF ReadSome, ReadEnd, LeaveRead, bytes
  <2>3. ASSUME NEW t \in Threads, WriteSome(t)
        PROVE  committed' \in {committed, file, file'} /\ turns' \in {turns, 0, Turn}
    BY <2>3 DEF WriteSome
  <2>4. ASSUME NEW t \in Threads, QuietStep(t)
        PROVE  committed' \in {committed, file, file'} /\ turns' \in {turns, 0, Turn}
    <3>1. committed' \in {committed, file}
      BY <2>4, QuietIsQuiet
    <3>2. turns' \in {turns, 0, Turn}
      BY <2>4 DEF QuietStep, Invoke, IsOpen, Flush, Available, NoTransfer, Read, ReadFails,
         ThrottleEnds, Write, WriteThrows, lock
    <3>3. QED
      BY <3>1, <3>2
  <2>5. CASE UNCHANGED vars
    BY <2>5 DEF vars, lock, disk, bytes
  <2>6. QED
    BY <2>1, <2>2, <2>3, <2>4, <2>5, NextSplit
<1>2. /\ committed \in Seq(Bytes) /\ file \in Seq(Bytes) /\ file' \in Seq(Bytes)
      /\ turns \in 0..(MaxTransfer + 1) /\ Turn \in 0..(MaxTransfer + 1)
  BY TurnType DEF IInv, HistoryOK, DiskOK
<1>3. 0 \in 0..(MaxTransfer + 1)
  BY FileAssumption
<1>4. QED
  BY <1>1, <1>2, <1>3 DEF HistoryOK

LEMMA MutexStep == IInv /\ [Next]_vars => MutexHeld'
<1> SUFFICES ASSUME IInv, [Next]_vars PROVE MutexHeld'
  OBVIOUS
<1> USE FileAssumption DEF IInv, ClientOK, MutexHeld, Inside, Return, Hold
<1>1. ASSUME NEW t \in Threads, Open(t) \/ Reconnect(t) \/ Close(t) PROVE MutexHeld'
  BY <1>1 DEF Open, Reconnect, Close, OpenLocked, Locked
<1>2. ASSUME NEW t \in Threads, ReadSome(t) \/ ReadEnd(t) \/ WriteSome(t) PROVE MutexHeld'
  BY <1>2 DEF ReadSome, ReadEnd, WriteSome, LeaveRead, client
<1>3. ASSUME NEW t \in Threads, QuietStep(t) PROVE MutexHeld'
  BY <1>3 DEF QuietStep, Invoke, IsOpen, Flush, Available, NoTransfer, Read, ReadFails,
     ThrottleEnds, Write, WriteThrows, Locked, lock
<1>4. CASE UNCHANGED vars
  BY <1>4 DEF vars, client, lock
<1>5. QED
  BY <1>1, <1>2, <1>3, <1>4, NextSplit

\* The port stays open and writable under a loop, which holds mutex_, and the
\* loop stops when the buffer is done.
LEMMA InsideStep == IInv /\ [Next]_vars => InsideMethod'
<1> SUFFICES ASSUME IInv, [Next]_vars PROVE InsideMethod'
  OBVIOUS
<1> USE FileAssumption DEF IInv, ClientOK, MutexHeld, InsideMethod, Inside, Return, Hold
<1>1. ASSUME NEW t \in Threads, Open(t) \/ Reconnect(t) \/ Close(t) PROVE InsideMethod'
  BY <1>1 DEF Open, Reconnect, Close, OpenLocked, Locked
<1>2. ASSUME NEW t \in Threads, ReadSome(t) \/ WriteSome(t) PROVE InsideMethod'
  <2>1. call[t].len \in Int
    BY DEF CallSet, NoCall
  <2>2. PICK n \in 1..(call[t].len - count[t]) :
          \/ pc'[t] \in {"idle", "sleeping"}
          \/ pc'[t] = pc[t] /\ count'[t] = count[t] + n /\ count[t] + n # call[t].len
    BY <1>2 DEF ReadSome, WriteSome, LeaveRead
  <2>3. count[t] \in Nat /\ count[t] < call[t].len
    BY <1>2 DEF ReadSome, WriteSome
  <2>4. pc'[t] \in {"reading", "writing"} =>
          count'[t] \in Nat /\ count'[t] < call[t].len /\ pc'[t] = pc[t]
    BY <2>1, <2>2, <2>3
  <2>5. \A u \in Threads : u # t => pc'[u] = pc[u] /\ count'[u] = count[u]
    BY <1>2 DEF ReadSome, WriteSome, LeaveRead
  <2>6. UNCHANGED <<call, isOpen, config>> /\ isOpen
    BY <1>2 DEF ReadSome, WriteSome, port
  <2>7. pc[t] = "writing" => config \in Writable
    OBVIOUS
  <2>8. QED
    BY <2>4, <2>5, <2>6, <2>7
<1>3. ASSUME NEW t \in Threads, ReadEnd(t) PROVE InsideMethod'
  <2>1. UNCHANGED <<call, isOpen, config>> /\ isOpen
    BY <1>3 DEF ReadEnd, port, client
  <2>2. CASE UNCHANGED client
    BY <2>1, <2>2 DEF client
  <2>3. CASE LeaveRead(t, count[t])
    BY <2>1, <2>3 DEF LeaveRead
  <2>4. QED
    BY <1>3, <2>2, <2>3 DEF ReadEnd
<1>4. ASSUME NEW t \in Threads, QuietStep(t) PROVE InsideMethod'
  <2>1. /\ pc'[t] \in Inside => isOpen
        /\ pc'[t] \in {"reading", "writing"} => count'[t] = 0 /\ 0 < call'[t].len
        /\ pc'[t] = "writing" => config \in Writable
    BY <1>4 DEF QuietStep, Invoke, IsOpen, Flush, Available, NoTransfer, Read, ReadFails,
       ThrottleEnds, Write, WriteThrows, Quiet
  <2>2. \A u \in Threads :
          u # t => pc'[u] = pc[u] /\ count'[u] = count[u] /\ call'[u] = call[u]
    BY <1>4 DEF QuietStep, Invoke, IsOpen, Flush, Available, NoTransfer, Read, ReadFails,
       ThrottleEnds, Write, WriteThrows, Quiet
  <2>3. QED
    BY <1>4, <2>1, <2>2, QuietIsQuiet DEF port
<1>5. CASE UNCHANGED vars
  BY <1>5 DEF vars, client, lock, port
<1>6. QED
  BY <1>1, <1>2, <1>3, <1>4, <1>5, NextSplit

\* Opening for writing truncates, writing moves the end along, and a read at
\* the end of a file that does not loop leaves the offset there.
LEMMA AtEndStep == IInv /\ [Next]_vars => AtEnd'
<1> SUFFICES ASSUME IInv, [Next]_vars PROVE AtEnd'
  OBVIOUS
<1> USE FileAssumption DEF IInv, DiskOK, AtEnd
<1>1. ASSUME NEW t \in Threads, Open(t) \/ Reconnect(t) \/ Close(t) PROVE AtEnd'
  <2>1. Len(<<>>) = 0
    OBVIOUS
  <2>2. QED
    BY <1>1, <2>1 DEF Open, Reconnect, Close, OpenLocked
<1>2. ASSUME NEW t \in Threads, ReadSome(t) PROVE AtEnd'
  <2>1. isOpen
    BY <1>2 DEF ReadSome, InsideMethod, Inside
  <2>2. call[t].len \in Int /\ count[t] \in Int
    BY DEF ClientOK, CallSet, NoCall
  <2>3. offset < Len(file)
    BY <1>2, <2>2 DEF ReadSome
  <2>4. QED
    BY <1>2, <2>1, <2>3 DEF ReadSome, port, bytes
<1>3. ASSUME NEW t \in Threads, ReadEnd(t) PROVE AtEnd'
  BY <1>3 DEF ReadEnd, port, bytes
<1>4. ASSUME NEW t \in Threads, WriteSome(t) PROVE AtEnd'
  <2>1. PICK n \in 1..(call[t].len - count[t]) :
          /\ offset + n <= DiskSize
          /\ file' = Overwritten(t, count[t], n)
          /\ offset' = offset + n
    BY <1>4 DEF WriteSome
  <2>2. call[t].len \in Int /\ count[t] \in Nat /\ n \in Nat /\ isOpen
    BY <1>4, <2>1 DEF WriteSome, InsideMethod, Inside, ClientOK, CallSet, NoCall
  <2>3. Len(file') = IF offset + n > Len(file) THEN offset + n ELSE Len(file)
    BY <2>1, <2>2, OverwrittenFile
  <2>4. UNCHANGED <<isOpen, config>>
    BY <1>4 DEF WriteSome, port
  <2>5. QED
    BY <2>1, <2>2, <2>3, <2>4
<1>5. ASSUME NEW t \in Threads, QuietStep(t) PROVE AtEnd'
  BY <1>5, QuietIsQuiet DEF port, disk
<1>6. CASE UNCHANGED vars
  BY <1>6 DEF vars, port, disk, bytes
<1>7. QED
  BY <1>1, <1>2, <1>3, <1>4, <1>5, <1>6, NextSplit

-----------------------------------------------------------------------------
(* The theorems.                                                           *)

\* The inductive invariant holds; the part that carries the rest is that a
\* recording session stays at the end of its file.
THEOREM Invariance == Spec => []IInv
<1>1. Init => IInv
  BY InitIInv
<1>2. IInv /\ [Next]_vars => IInv'
  BY ClientStep, DiskStep, HistoryStep, MutexStep, InsideStep, AtEndStep DEF IInv
<1>3. QED
  BY <1>1, <1>2, PTL DEF Spec

\* Every variable keeps its type: the offset never leaves the file, the file
\* never outgrows the disk, config_ never holds a foreign configuration.
THEOREM TypeCorrect == Spec => []TypeOK
<1>1. IInv => TypeOK
  BY DEF IInv, ClientOK, DiskOK, HistoryOK, TypeOK
<1>2. QED
  BY <1>1, Invariance, PTL

\* A write of a recording session lands at the end and keeps all before it.
LEMMA WriteExtends ==
  ASSUME IInv, NEW t \in Threads, WriteSome(t), config \notin Looping
  PROVE  /\ file' \in Seq(Bytes) /\ Len(file) <= Len(file')
         /\ \A i \in 1..Len(file) : file'[i] = file[i]
         /\ \A i \in 1..Len(file') : i > Len(file) =>
              file'[i] = [by |-> t, nth |-> count[t] + i - Len(file)]
         /\ count[t] \in Nat
         /\ pc'[t] = "writing" => count'[t] = count[t] + Len(file') - Len(file)
<1>1. PICK n \in 1..(call[t].len - count[t]) :
        /\ offset + n <= DiskSize
        /\ file' = Overwritten(t, count[t], n)
        /\ offset' = offset + n
        /\ \/ Return(t, "count", count[t] + n)
           \/ Hold(t, "writing", count[t] + n)
  BY DEF WriteSome
<1>2. /\ call[t].len \in Int /\ count[t] \in Nat /\ n \in Nat
      /\ isOpen /\ config \in Writable
  BY <1>1 DEF WriteSome, IInv, InsideMethod, Inside, ClientOK, CallSet, NoCall
<1>3. offset = Len(file) /\ Len(file) \in Nat
  BY <1>2 DEF IInv, AtEnd, DiskOK
<1>4. /\ file' \in Seq(Bytes) /\ Len(file') = Len(file) + n
      /\ \A i \in 1..Len(file') :
           file'[i] = IF i \in (offset + 1)..(offset + n)
                      THEN [by |-> t, nth |-> count[t] + i - offset] ELSE file[i]
  <2>1. DiskOK /\ offset + n <= DiskSize /\ count[t] \in Nat /\ n \in Nat
    BY <1>1, <1>2 DEF IInv
  <2>2. LET new == Overwritten(t, count[t], n) IN
        /\ new \in Seq(Bytes)
        /\ Len(new) = IF offset + n > Len(file) THEN offset + n ELSE Len(file)
        /\ \A i \in 1..Len(new) :
             new[i] = IF i \in (offset + 1)..(offset + n)
                      THEN [by |-> t, nth |-> count[t] + i - offset] ELSE file[i]
    BY <2>1, OverwrittenFile
  <2>3. Len(file') = Len(file) + n
    BY <1>1, <1>2, <1>3, <2>2
  <2>4. QED
    BY <1>1, <2>2, <2>3
<1>5. pc'[t] = "writing" => count'[t] = count[t] + n
  BY <1>1 DEF Return, Hold, IInv, ClientOK
<1>6. QED
  BY <1>2, <1>3, <1>4, <1>5

\* Whatever is read, queried or fails between its writes, a session that does
\* not loop never loses or changes a recorded byte.
THEOREM RecordingKept == Spec => RecordingGrows
<1>1. ASSUME IInv, [Next]_vars, config \notin Looping,
             \A t \in Threads : pc'[t] # pc[t] => call[t].op \notin Lifecycle
      PROVE  Len(file) <= Len(file') /\ \A i \in 1..Len(file) : file'[i] = file[i]
  <2>1. Len(file) \in Nat
    BY <1>1 DEF IInv, DiskOK
  <2>2. ASSUME NEW t \in Threads, WriteSome(t)
        PROVE  Len(file) <= Len(file') /\ \A i \in 1..Len(file) : file'[i] = file[i]
    BY <1>1, <2>2, WriteExtends
  <2>3. ASSUME NEW t \in Threads, Open(t) \/ Reconnect(t) \/ Close(t) PROVE FALSE
    BY <1>1, <2>3 DEF Open, Reconnect, Close, OpenLocked, Locked, Return, Lifecycle,
       IInv, ClientOK
  <2>4. ASSUME NEW t \in Threads, ReadSome(t) \/ ReadEnd(t) PROVE UNCHANGED file
    BY <2>4 DEF ReadSome, ReadEnd, bytes
  <2>5. ASSUME NEW t \in Threads, QuietStep(t) PROVE UNCHANGED file
    BY <2>5, QuietIsQuiet DEF disk
  <2>6. CASE UNCHANGED vars
    BY <2>1, <2>6 DEF vars, disk, bytes
  <2>7. QED
    BY <1>1, <2>1, <2>2, <2>3, <2>4, <2>5, <2>6, NextSplit
<1>2. IInv /\ [Next]_vars =>
        [/\ config \notin Looping
         /\ \A t \in Threads : pc'[t] # pc[t] => call[t].op \notin Lifecycle
         => /\ Len(file) <= Len(file')
            /\ \A i \in 1..Len(file) : file'[i] = file[i]]_vars
  BY <1>1
<1>3. QED
  BY <1>2, Invariance, PTL DEF Spec, RecordingGrows

\* A write in progress has its bytes so far at the end of the file, where its
\* next ::write continues them: nobody else gets in between.
LEMMA WholeStep ==
  ASSUME IInv, Halfway, RecordingWhole, [Next]_vars
  PROVE  Halfway' /\ RecordingWhole'
<1>1. Len(file) \in Nat /\ file \in Seq(Bytes)
  BY DEF IInv, DiskOK
<1>2. ASSUME NEW t \in Threads, WriteSome(t) PROVE Halfway' /\ RecordingWhole'
  <2> SUFFICES ASSUME config \notin Looping PROVE Halfway' /\ RecordingWhole'
    BY <1>2 DEF WriteSome, port, Halfway, RecordingWhole
  <2>1. config \in Writable \ Looping /\ pc[t] = "writing"
    BY <1>2 DEF WriteSome, IInv, InsideMethod
  <2>2. /\ Len(file') \in Nat /\ Len(file) <= Len(file')
        /\ \A i \in 1..Len(file) : file'[i] = file[i]
        /\ \A i \in 1..Len(file') : i > Len(file) =>
             file'[i] = [by |-> t, nth |-> count[t] + i - Len(file)]
        /\ count[t] \in Nat
        /\ pc'[t] = "writing" => count'[t] = count[t] + Len(file') - Len(file)
    BY <1>2, <2>1, WriteExtends
  <2>3. Len(file') \in Nat /\ count[t] \in Nat
    BY <2>2
  <2>4. count[t] > 0 => Len(file) > 0 /\ file[Len(file)] = [by |-> t, nth |-> count[t]]
    BY <2>1 DEF Halfway
  <2>5. \A u \in Threads : u # t => pc'[u] # "writing"
    BY <1>2, FileAssumption DEF WriteSome, IInv, MutexHeld, Inside, ClientOK, Return, Hold
  <2>6. Halfway'
    <3>1. SUFFICES ASSUME pc'[t] = "writing", count'[t] > 0
                   PROVE  Len(file') > 0 /\ file'[Len(file')] = [by |-> t, nth |-> count'[t]]
      BY <2>5 DEF Halfway
    <3>2. CASE Len(file') = Len(file)
      BY <1>1, <2>2, <2>4, <3>1, <3>2
    <3>3. CASE Len(file') > Len(file)
      BY <1>1, <2>2, <3>1, <3>3
    <3>4. QED
      BY <1>1, <2>2, <3>2, <3>3
  <2>7. RecordingWhole'
    <3>1. SUFFICES ASSUME NEW i \in 1..Len(file'), file'[i].nth > 1
                   PROVE  i > 1 /\ file'[i - 1] = [file'[i] EXCEPT !.nth = @ - 1]
      BY DEF RecordingWhole
    <3>2. CASE i <= Len(file)
      <4>1. file'[i] = file[i] /\ i \in 1..Len(file)
        BY <1>1, <2>2, <3>2
      <4>2. i > 1 /\ file[i - 1] = [file[i] EXCEPT !.nth = @ - 1]
        BY <2>1, <3>1, <4>1 DEF RecordingWhole
      <4>3. QED
        BY <1>1, <2>2, <4>1, <4>2
    <3>3. CASE i = Len(file) + 1
      <4>1. file'[i] = [by |-> t, nth |-> count[t] + 1]
        BY <1>1, <2>2, <3>3
      <4>2. count[t] > 0
        BY <2>2, <3>1, <4>1
      <4>3. i > 1 /\ file'[i - 1] = [by |-> t, nth |-> count[t]]
        BY <1>1, <2>2, <2>4, <3>3, <4>2
      <4>4. QED
        BY <2>2, <4>1, <4>3
    <3>4. CASE i > Len(file) + 1
      <4> DEFINE n == count[t] + i - Len(file)
      <4>1. /\ i > Len(file) /\ i - 1 > Len(file) /\ i > 1
            /\ i \in 1..Len(file') /\ i - 1 \in 1..Len(file')
        BY <1>1, <2>3, <3>4
      <4>2. n \in Int /\ n - 1 = count[t] + (i - 1) - Len(file)
        BY <1>1, <2>3, <4>1
      <4>3. file'[i] = [by |-> t, nth |-> n]
        BY <2>2, <4>1
      <4>4. file'[i - 1] = [by |-> t, nth |-> n - 1]
        BY <2>2, <4>1, <4>2
      <4> HIDE DEF n
      <4>5. QED
        BY <4>1, <4>3, <4>4
    <3>5. QED
      BY <1>1, <2>2, <3>2, <3>3, <3>4
  <2>8. QED
    BY <2>6, <2>7
<1>3. ASSUME NEW t \in Threads, Open(t) \/ Reconnect(t) \/ Close(t)
      PROVE  Halfway' /\ RecordingWhole'
  <2>1. \A u \in Threads : pc'[u] # "writing"
    BY <1>3, FileAssumption DEF Open, Reconnect, Close, OpenLocked, Locked, Return, IInv,
       MutexHeld, Inside, ClientOK
  <2>2. \/ file' = <<>> \/ config' \notin Writable
        \/ UNCHANGED <<file, config>>
    BY <1>3 DEF Open, Reconnect, Close, OpenLocked, disk, bytes
  <2>3. Len(<<>>) = 0
    OBVIOUS
  <2>4. QED
    BY <2>1, <2>2, <2>3 DEF Halfway, RecordingWhole
<1>4. ASSUME NEW t \in Threads, ReadSome(t) \/ ReadEnd(t)
      PROVE  Halfway' /\ RecordingWhole'
  <2>1. UNCHANGED <<file, config>>
    BY <1>4 DEF ReadSome, ReadEnd, port, bytes
  <2>2. \A u \in Threads : pc'[u] # "writing"
    BY <1>4, FileAssumption DEF ReadSome, ReadEnd, LeaveRead, Return, Hold, IInv, MutexHeld,
       Inside, ClientOK, client
  <2>3. QED
    BY <2>1, <2>2 DEF Halfway, RecordingWhole
<1>5. ASSUME NEW t \in Threads, QuietStep(t) PROVE Halfway' /\ RecordingWhole'
  <2>1. UNCHANGED <<file, config>>
    BY <1>5, QuietIsQuiet DEF port
  <2>2. \A u \in Threads :
          pc'[u] = "writing" => count'[u] = 0 \/ (pc[u] = "writing" /\ count'[u] = count[u])
    BY <1>5 DEF QuietStep, Invoke, IsOpen, Flush, Available, NoTransfer, Read, ReadFails,
       ThrottleEnds, Write, WriteThrows, Return, Hold, IInv, ClientOK
  <2>3. QED
    BY <2>1, <2>2 DEF Halfway, RecordingWhole
<1>6. CASE UNCHANGED vars
  BY <1>6 DEF vars, client, port, disk, bytes, Halfway, RecordingWhole
<1>7. QED
  BY <1>2, <1>3, <1>4, <1>5, <1>6, NextSplit

\* Writes of several threads are never interleaved in a recording, as long as
\* it is not in loop mode.
THEOREM RecordingIsWhole == Spec => []RecordingWhole
<1>1. Init => Halfway /\ RecordingWhole
  BY FileAssumption DEF Init, Halfway, RecordingWhole
<1>2. IInv /\ Halfway /\ RecordingWhole /\ [Next]_vars => Halfway' /\ RecordingWhole'
  BY WholeStep
<1>3. QED
  BY <1>1, <1>2, Invariance, PTL DEF Spec

-----------------------------------------------------------------------------
(* What available() promised.                                              *)

\* Between the promise and the read there are bytes before the end of the
\* file, or a file to start over.
Owed ==
  /\ promised # {} => offset < Len(file) \/ (config \in Looping /\ Len(file) > 0)
  /\ \A t \in Threads : pc[t] = "sleeping" => count[t] > 0

\* A count of available() that is positive is not a count of nothing.
LEMMA ToIntOfNone == ToInt(0) = 0
BY FileAssumption DEF ToInt

\* Writes cannot use up what was promised: they move the offset to the end
\* only in a file that loops, since one that does not is at its end already.
LEMMA OwedStep == IInv /\ Owed /\ [Next]_vars => Owed'
<1> SUFFICES ASSUME IInv, Owed, [Next]_vars PROVE Owed'
  OBVIOUS
<1> USE FileAssumption DEF IInv, Owed, Return, Hold
<1>1. ASSUME NEW t \in Threads, Open(t) \/ Reconnect(t) \/ Close(t) PROVE Owed'
  <2>1. promised' = {}
    BY <1>1 DEF Open, Reconnect, Close
  <2>2. \A u \in Threads : pc'[u] = "sleeping" => pc[u] = "sleeping" /\ count'[u] = count[u]
    BY <1>1 DEF Open, Reconnect, Close, OpenLocked, ClientOK
  <2>3. QED
    BY <2>1, <2>2
<1>2. ASSUME NEW t \in Threads, ReadSome(t) PROVE Owed'
  <2>1. PICK n \in 1..(call[t].len - count[t]) :
          \/ LeaveRead(t, count[t] + n) \/ Hold(t, "reading", count[t] + n)
    BY <1>2 DEF ReadSome
  <2>2. promised' = {} /\ call[t].len \in Int /\ count[t] \in Nat
    BY <1>2 DEF ReadSome, InsideMethod, ClientOK, CallSet, NoCall
  <2>3. count[t] + n > 0
    BY <2>2
  <2>4. QED
    BY <2>1, <2>2, <2>3 DEF LeaveRead, ClientOK
<1>3. ASSUME NEW t \in Threads, ReadEnd(t) PROVE Owed'
  <2>1. UNCHANGED <<promised, config, file>> /\ Len(file) \in Nat /\ offset = Len(file)
    BY <1>3 DEF ReadEnd, port, bytes, DiskOK
  <2>2. CASE offset' = 0 /\ UNCHANGED client
    BY <2>1, <2>2 DEF client
  <2>3. CASE UNCHANGED offset /\ LeaveRead(t, count[t])
    BY <2>1, <2>3 DEF LeaveRead, ClientOK
  <2>4. QED
    BY <1>3, <2>2, <2>3 DEF ReadEnd
<1>4. ASSUME NEW t \in Threads, WriteSome(t) PROVE Owed'
  <2>1. PICK n \in 1..(call[t].len - count[t]) :
          /\ offset + n <= DiskSize
          /\ file' = Overwritten(t, count[t], n)
    BY <1>4 DEF WriteSome
  <2>2. call[t].len \in Int /\ count[t] \in Nat /\ n \in Nat /\ isOpen /\ config \in Writable
    BY <1>4, <2>1 DEF WriteSome, InsideMethod, Inside, ClientOK, CallSet, NoCall
  <2>3. Len(file') = IF offset + n > Len(file) THEN offset + n ELSE Len(file)
    BY <2>1, <2>2, OverwrittenFile
  <2>4. UNCHANGED <<promised, config>>
    BY <1>4 DEF WriteSome, port
  <2>5. promised # {} => config \in Looping /\ Len(file) > 0
    BY <2>2 DEF AtEnd, DiskOK
  <2>6. Len(file) > 0 => Len(file') > 0
    BY <2>3 DEF DiskOK
  <2>7. \A u \in Threads : pc'[u] = "sleeping" => pc[u] = "sleeping" /\ count'[u] = count[u]
    BY <1>4 DEF WriteSome, ClientOK
  <2>8. QED
    BY <2>4, <2>5, <2>6, <2>7
<1>5. ASSUME NEW t \in Threads, QuietStep(t) PROVE Owed'
  <2>1. UNCHANGED <<config, file, offset>>
    BY <1>5, QuietIsQuiet DEF port, disk
  <2>2. \A u \in Threads : pc'[u] = "sleeping" => pc[u] = "sleeping" /\ count'[u] = count[u]
    BY <1>5 DEF QuietStep, Invoke, IsOpen, Flush, Available, NoTransfer, Read, ReadFails,
       ThrottleEnds, Write, WriteThrows, ClientOK
  <2>3. UNCHANGED promised \/ ToInt(Remaining) > 0
    BY <1>5 DEF QuietStep, Invoke, IsOpen, Flush, Available, NoTransfer, Read, ReadFails,
       ThrottleEnds, Write, WriteThrows, Quiet
  <2>4. ToInt(Remaining) > 0 => Remaining # 0
    BY ToIntOfNone
  <2>5. Remaining # 0 => offset < Len(file) \/ (config \in Looping /\ Len(file) > 0)
    BY DEF Remaining, DiskOK
  <2>6. QED
    BY <2>1, <2>2, <2>3, <2>4, <2>5
<1>6. CASE UNCHANGED vars
  BY <1>6 DEF vars, client, lock, port, disk, bytes
<1>7. QED
  BY <1>1, <1>2, <1>3, <1>4, <1>5, <1>6, NextSplit

\* The step by which a call that moves bytes returns a count.
LEMMA PromiseMet ==
  ASSUME IInv, Owed, [Next]_vars, NEW t \in promised,
         pc[t] \in Inside, pc'[t] = "idle", ret'[t] = "count"
  PROVE  count'[t] > 0
<1> USE DEF IInv, ClientOK, Return, Hold
<1>1. t \in Threads /\ pc'[t] # pc[t]
  BY DEF Inside
<1>2. ReadSome(t) \/ ReadEnd(t) \/ WriteSome(t) \/ ThrottleEnds(t)
  <2>1. ASSUME NEW u \in Threads, Open(u) \/ Reconnect(u) \/ Close(u) PROVE FALSE
    BY <1>1, <2>1 DEF Open, Reconnect, Close, OpenLocked, Locked, Inside
  <2>2. ASSUME NEW u \in Threads, ReadSome(u) \/ ReadEnd(u) \/ WriteSome(u) PROVE u = t
    BY <1>1, <2>2 DEF ReadSome, ReadEnd, WriteSome, LeaveRead, client
  <2>3. ASSUME NEW u \in Threads, QuietStep(u) PROVE u = t /\ ThrottleEnds(t)
    BY <1>1, <2>3 DEF QuietStep, Invoke, IsOpen, Flush, Available, NoTransfer, Read,
       ReadFails, ThrottleEnds, Write, WriteThrows, Locked, Inside
  <2>4. CASE UNCHANGED vars
    BY <1>1, <2>4 DEF vars, client, lock
  <2>5. QED
    BY <2>1, <2>2, <2>3, <2>4, NextSplit
<1>3. CASE ReadSome(t) \/ WriteSome(t)
  <2>1. PICK n \in 1..(call[t].len - count[t]) : count'[t] = count[t] + n
    BY <1>1, <1>3 DEF ReadSome, WriteSome, LeaveRead
  <2>2. count[t] \in Nat /\ call[t].len \in Int
    BY <1>1, <1>3 DEF ReadSome, WriteSome, InsideMethod, CallSet, NoCall
  <2>3. QED
    BY <2>1, <2>2
<1>4. CASE ReadEnd(t)
  <2>1. LeaveRead(t, count[t]) /\ (config \notin Looping \/ count[t] > 0)
    BY <1>1, <1>4 DEF ReadEnd, client
  <2>2. offset = Len(file) /\ Len(file) \in Nat
    BY <1>4 DEF ReadEnd, DiskOK
  <2>3. count[t] > 0
    BY <2>1, <2>2 DEF Owed
  <2>4. QED
    BY <1>1, <2>1, <2>3 DEF LeaveRead
<1>5. CASE ThrottleEnds(t)
  BY <1>1, <1>5 DEF ThrottleEnds, Owed
<1>6. QED
  BY <1>2, <1>3, <1>4, <1>5

\* A read of a port whose available() gave a positive count gives a byte, for
\* any file, throttling, short reads and writes in between.
THEOREM AvailableIsKept == Spec => AvailableKept
<1>1. Init => Owed
  BY DEF Init, Owed
<1>2. IInv /\ Owed /\ [Next]_vars => Owed'
  BY OwedStep
<1>3. IInv /\ Owed /\ [Next]_vars =>
        [\A t \in promised :
           pc[t] \in Inside /\ pc'[t] = "idle" /\ ret'[t] = "count" => count'[t] > 0]_vars
  BY PromiseMet
<1>4. QED
  BY <1>1, <1>2, <1>3, Invariance, PTL DEF Spec, AvailableKept

-----------------------------------------------------------------------------
(* The loops come to their end.                                            *)

\* Every round of a loop moved a byte, but for the one that went back to the
\* start of a looping file, after which there is a byte to move.
Turning ==
  \A t \in Threads :
    /\ pc[t] = "writing" => turns <= count[t]
    /\ pc[t] = "reading" /\ ~(config \in Looping /\ file = <<>>)
         => turns <= count[t] + 1 /\ (turns = 0 \/ count[t] > 0 \/ offset < Len(file))

\* What the holder of mutex_ does to its own rounds.
LEMMA RoundStep ==
  ASSUME IInv, Turning, NEW t \in Threads,
         ReadSome(t) \/ ReadEnd(t) \/ WriteSome(t)
  PROVE  Turning'
<1> USE DEF IInv, ClientOK, HistoryOK
<1>1. ASSUME NEW u \in Threads \ {t} PROVE pc[u] \notin Inside /\ pc'[u] = pc[u]
  <2>1. pc[t] \in Inside
    BY DEF ReadSome, ReadEnd, WriteSome, Inside
  <2>2. QED
    BY <2>1 DEF ReadSome, ReadEnd, WriteSome, LeaveRead, Return, Hold, MutexHeld, client
<1>2. /\ call[t].len \in Int /\ count[t] \in Nat /\ turns \in Nat
      /\ Turn \in Nat /\ Turn <= turns + 1
  BY TurnType, FileAssumption DEF ReadSome, ReadEnd, WriteSome, InsideMethod, CallSet, NoCall
<1>3. CASE ReadSome(t)
  <2>1. PICK n \in 1..(call[t].len - count[t]) :
          /\ offset + n <= Len(file)
          /\ \/ pc'[t] # "reading"
             \/ count'[t] = count[t] + n /\ turns' = Turn
    BY <1>3 DEF ReadSome, LeaveRead, Return, Hold
  <2>2. pc'[t] # "writing" /\ UNCHANGED <<config, file>> /\ Len(file) > 0
    BY <1>2, <1>3, <2>1 DEF ReadSome, LeaveRead, Return, Hold, port, bytes, DiskOK
  <2>3. turns <= count[t] + 1
    BY <1>3, <2>2 DEF ReadSome, Turning
  <2>4. pc'[t] = "reading" => turns' <= count'[t] + 1 /\ count'[t] > 0
    BY <1>2, <2>1, <2>3
  <2>5. QED
    BY <1>1, <2>2, <2>4 DEF Turning, Inside
<1>4. CASE ReadEnd(t)
  <2>1. /\ UNCHANGED <<config, file>> /\ pc'[t] # "writing" /\ Len(file) \in Nat
        /\ offset = Len(file)
    BY <1>4 DEF ReadEnd, LeaveRead, Return, Hold, port, bytes, client, DiskOK
  <2>2. pc'[t] = "reading" =>
          config \in Looping /\ count'[t] = 0 /\ offset' = 0 /\ turns' = Turn /\ count[t] = 0
    BY <1>4 DEF ReadEnd, LeaveRead, Return, Hold, client
  <2>3. pc'[t] = "reading" /\ file # <<>> => turns = 0 /\ Len(file) > 0
    <3>1. file # <<>> => Len(file) > 0
      BY <2>1 DEF DiskOK
    <3>2. file # <<>> => turns = 0 \/ count[t] > 0 \/ offset < Len(file)
      BY <1>4 DEF ReadEnd, Turning
    <3>3. QED
      BY <2>1, <2>2, <3>1, <3>2
  <2>4. pc'[t] = "reading" /\ file # <<>> => turns' <= count'[t] + 1 /\ offset' < Len(file)
    BY <1>2, <2>2, <2>3
  <2>5. QED
    BY <1>1, <2>1, <2>2, <2>4 DEF Turning, Inside
<1>5. CASE WriteSome(t)
  <2>1. PICK n \in 1..(call[t].len - count[t]) :
          \/ pc'[t] = "idle"
          \/ pc'[t] = "writing" /\ count'[t] = count[t] + n /\ turns' = Turn
    BY <1>5 DEF WriteSome, Return, Hold
  <2>2. turns <= count[t]
    BY <1>5 DEF WriteSome, Turning
  <2>3. pc'[t] = "writing" => turns' <= count'[t]
    BY <1>2, <2>1, <2>2
  <2>4. QED
    BY <1>1, <2>1, <2>3 DEF Turning, Inside
<1>6. QED
  BY <1>3, <1>4, <1>5

LEMMA TurningStep == IInv /\ Turning /\ [Next]_vars => Turning'
<1> SUFFICES ASSUME IInv, Turning, [Next]_vars PROVE Turning'
  OBVIOUS
<1> USE DEF IInv, ClientOK, Inside
<1>1. ASSUME NEW t \in Threads, Open(t) \/ Reconnect(t) \/ Close(t) PROVE Turning'
  <2>1. \A u \in Threads : pc'[u] \notin {"reading", "writing"}
    BY <1>1, FileAssumption DEF Open, Reconnect, Close, OpenLocked, Locked, Return, MutexHeld
  <2>2. QED
    BY <2>1 DEF Turning
<1>2. ASSUME NEW t \in Threads, ReadSome(t) \/ ReadEnd(t) \/ WriteSome(t) PROVE Turning'
  BY <1>2, RoundStep
<1>3. ASSUME NEW t \in Threads, Invoke(t) \/ NoTransfer(t) PROVE Turning'
  <2>1. UNCHANGED <<config, file, offset, turns>>
    BY <1>3 DEF Invoke, NoTransfer, lock, port, disk, bytes
  <2>2. \A u \in Threads :
          pc'[u] \in {"reading", "writing"} => pc'[u] = pc[u] /\ count'[u] = count[u]
    BY <1>3 DEF Invoke, NoTransfer
  <2>3. QED
    BY <2>1, <2>2 DEF Turning
<1>4. ASSUME NEW t \in Threads,
             \/ IsOpen(t) \/ Flush(t) \/ Available(t) \/ Read(t) \/ ReadFails(t)
             \/ ThrottleEnds(t) \/ Write(t) \/ WriteThrows(t)
      PROVE  Turning'
  <2>1. mutex \in {t, NoThread}
    BY <1>4 DEF IsOpen, Flush, Available, Read, ReadFails, ThrottleEnds, Write, WriteThrows,
       Locked, MutexHeld
  <2>2. \A u \in Threads \ {t} : pc[u] \notin Inside /\ pc'[u] = pc[u]
    BY <1>4, <2>1, FileAssumption DEF IsOpen, Flush, Available, Read, ReadFails,
       ThrottleEnds, Write, WriteThrows, Return, Hold, MutexHeld
  <2>3. pc'[t] \in {"reading", "writing"} => turns' = 0 /\ count'[t] = 0
    BY <1>4 DEF IsOpen, Flush, Available, Read, ReadFails, ThrottleEnds, Write, WriteThrows,
       Return, Hold, Locked
  <2>4. QED
    BY <2>2, <2>3 DEF Turning
<1>5. CASE UNCHANGED vars
  BY <1>5 DEF vars, client, lock, port, disk, bytes, Turning
<1>6. QED
  BY <1>1, <1>2, <1>3, <1>4, <1>5, NextSplit DEF QuietStep

\* However the file, the disk and the other threads behave, a read or a write
\* of n bytes goes round its loop at most n times, but for a read of a looping
\* file that is empty; LoopsEnd, which needs fairness, rests on it.
THEOREM LoopsAreBounded == Spec => []LoopsBounded
<1>1. Init => Turning
  BY DEF Init, Turning
<1>2. IInv /\ Turning /\ [Next]_vars => Turning'
  BY TurningStep
<1>3. IInv /\ Turning => LoopsBounded
  <2>1. SUFFICES ASSUME IInv, Turning, NEW t \in Threads,
                        pc[t] \in {"reading", "writing"}, ~(config \in Looping /\ file = <<>>)
                 PROVE  turns <= call[t].len
    BY DEF LoopsBounded
  <2>2. /\ call[t].len \in Int /\ count[t] \in Nat /\ count[t] < call[t].len
        /\ turns \in Nat
    BY <2>1, FileAssumption DEF IInv, ClientOK, HistoryOK, InsideMethod, CallSet, NoCall
  <2>3. turns <= count[t] + 1
    BY <2>1, <2>2 DEF Turning
  <2>4. QED
    BY <2>2, <2>3
<1>4. QED
  BY <1>1, <1>2, <1>3, Invariance, PTL DEF Spec

-----------------------------------------------------------------------------
(* The refinement.                                                         *)

Asked == [t \in Threads |-> IF pc[t] = "idle" THEN NoQuestion ELSE Question(call[t])]
Answered == [t \in Threads |-> AnswerTo(ret[t])]

\* The loops of read and write belong to a call that moves bytes.
LoopOps ==
  \A t \in Threads :
    /\ pc[t] \in {"reading", "sleeping"} => call[t].op = "read" /\ call[t].len # 0
    /\ pc[t] = "writing" => call[t].op = "write" /\ call[t].len # 0

LEMMA LoopOpsStep == IInv /\ LoopOps /\ [Next]_vars => LoopOps'
<1> SUFFICES ASSUME IInv, LoopOps, [Next]_vars PROVE LoopOps'
  OBVIOUS
<1> USE DEF IInv, ClientOK, LoopOps, Inside, Return, Hold
<1>1. ASSUME NEW t \in Threads, Open(t) \/ Reconnect(t) \/ Close(t) PROVE LoopOps'
  BY <1>1 DEF Open, Reconnect, Close, OpenLocked
<1>2. ASSUME NEW t \in Threads, ReadSome(t) \/ ReadEnd(t) \/ WriteSome(t) PROVE LoopOps'
  BY <1>2 DEF ReadSome, ReadEnd, WriteSome, LeaveRead, client
<1>3. ASSUME NEW t \in Threads, QuietStep(t) PROVE LoopOps'
  BY <1>3 DEF QuietStep, Invoke, IsOpen, Flush, Available, NoTransfer, Read, ReadFails,
     ThrottleEnds, Write, WriteThrows, Locked, Quiet
<1>4. CASE UNCHANGED vars
  BY <1>4 DEF vars, client, lock
<1>5. QED
  BY <1>1, <1>2, <1>3, <1>4, NextSplit

\* A call of a method is a question, and its return an answer.
LEMMA InvokeAsks ==
  ASSUME IInv, NEW t \in Threads, Invoke(t) PROVE Contract!Ask(t)
<1> USE DEF IInv, ClientOK
<1>1. PICK c \in CallSet : call' = [call EXCEPT ![t] = c]
  BY FileAssumption DEF Invoke
<1>2. Question(c) \in Contract!Questions
  BY <1>1 DEF Question, CallSet, Ops, Lifecycle, Contract!Questions, Contract!Ops,
     Contract!Changes, Contract!Transfers
<1>3. Asked[t] = NoQuestion /\ Asked' = [Asked EXCEPT ![t] = Question(c)]
  BY <1>1 DEF Invoke, Asked
<1>4. Answered' = [Answered EXCEPT ![t] = "pending"]
  BY <1>1 DEF Invoke, Answered, AnswerTo
<1>5. Asked'[t] = Question(c)
  BY <1>3 DEF Asked
<1>6. QED
  BY <1>2, <1>3, <1>4, <1>5 DEF Contract!Ask, Contract!Idle, NoQuestion, Asked, Answered,
     Invoke, port

LEMMA ReturnAnswers ==
  ASSUME IInv, NEW t \in Threads, NEW r,
         pc' = [pc EXCEPT ![t] = "idle"], ret' = [ret EXCEPT ![t] = r], UNCHANGED call,
         NEW a, a = AnswerTo(r)
  PROVE  Contract!Answer(t, a)
<1> USE DEF IInv, ClientOK
<1>1. Asked' = [Asked EXCEPT ![t] = NoQuestion]
  BY DEF Asked
<1>2. Answered' = [Answered EXCEPT ![t] = a]
  BY DEF Answered
<1>3. QED
  BY <1>1, <1>2 DEF Contract!Answer, Contract!Idle, NoQuestion, Asked, Answered

\* What a thread inside the library asks.
LEMMA AskedInside ==
  ASSUME NEW t \in Threads, pc[t] # "idle"
  PROVE  LET empty == call[t].op \in {"read", "write"} /\ call[t].len = 0 IN
         /\ empty => Asked[t].op = "nothing"
         /\ ~empty => Asked[t].op = call[t].op
         /\ Asked[t].cfg = call[t].cfg
BY DEF Asked, Question

\* A step within a method is not visible.
LEMMA HoldInvisible ==
  ASSUME IInv, NEW t \in Threads, pc[t] # "idle", NEW w, w # "idle", NEW n,
         Hold(t, w, n), UNCHANGED <<call, port>>
  PROVE  UNCHANGED Contract!vars
<1>1. \A u \in Threads : pc'[u] = "idle" <=> pc[u] = "idle"
  BY DEF Hold, IInv, ClientOK
<1>2. UNCHANGED <<call, ret, isOpen, config>>
  BY DEF Hold, port
<1>3. QED
  BY <1>1, <1>2 DEF Contract!vars

\* A read or a write of an open port that returns or throws gives an answer.
LEMMA TransferAnswers ==
  ASSUME IInv, NEW t \in Threads, pc[t] # "idle",
         call[t].op \in {"read", "write"}, call[t].len # 0, UNCHANGED <<call, port>>,
         NEW r, NEW n, Return(t, r, n),
         r \in {"open_error", "read_error"} \/ (isOpen /\ r = "count")
  PROVE  Contract!Query(t)
<1>1. Contract!Answer(t, "error") \/ (isOpen /\ Contract!Answer(t, "count"))
  BY ReturnAnswers DEF Return, AnswerTo
<1>2. Asked[t].op \in Contract!Transfers
  BY AskedInside DEF Contract!Transfers
<1>3. QED
  BY <1>1, <1>2 DEF Contract!Query, Asked, port

LEMMA ChangeAnswers ==
  ASSUME IInv, NEW t \in Threads, Open(t) \/ Reconnect(t)
  PROVE  Contract!Succeed(t) \/ Contract!Fail(t)
<1> DEFINE c == IF call[t].op = "reconnect" THEN config ELSE call[t].cfg
<1>1. /\ OpenLocked(t, c) /\ pc[t] = "called" /\ UNCHANGED call
      /\ call[t].op \in {"open", "reconfigure", "reconnect"}
  BY DEF Open, Reconnect, Locked
<1>2. Asked[t].op = call[t].op /\ Asked[t].cfg = call[t].cfg
  BY <1>1, AskedInside
<1>3. CASE c \in FileConfigs /\ isOpen' = TRUE /\ config' = c /\ Return(t, "true", 0)
  <2>1. Contract!Answer(t, "true")
    BY <1>1, <1>3, ReturnAnswers DEF Return, AnswerTo
  <2>2. QED
    BY <1>1, <1>2, <1>3, <2>1, FileAssumption DEF Contract!Succeed, Contract!Changes, Asked
<1>4. CASE isOpen' = FALSE /\ UNCHANGED config /\ Return(t, "open_error", 0)
  <2>1. Contract!Answer(t, "error")
    BY <1>1, <1>4, ReturnAnswers DEF Return, AnswerTo
  <2>2. QED
    BY <1>1, <1>2, <1>4, <2>1 DEF Contract!Fail, Contract!Changes, Asked
<1>5. QED
  BY <1>1, <1>3, <1>4 DEF OpenLocked

LEMMA CloseAnswers ==
  ASSUME IInv, NEW t \in Threads, Close(t) PROVE Contract!Close(t)
<1>1. Contract!Answer(t, "done")
  BY ReturnAnswers DEF Close, Return, AnswerTo
<1>2. Asked[t].op = "close"
  BY AskedInside DEF Close, Locked
<1>3. QED
  BY <1>1, <1>2 DEF Close, Contract!Close, Asked

\* Queries, and transfers that move nothing.
LEMMA QueryAnswers ==
  ASSUME IInv, NEW t \in Threads, IsOpen(t) \/ Flush(t) \/ Available(t) \/ NoTransfer(t)
  PROVE  Contract!Query(t) \/ Contract!Immediate(t)
<1>1. UNCHANGED <<isOpen, config>> /\ isOpen \in BOOLEAN
  BY DEF IsOpen, Flush, Available, NoTransfer, Quiet, port, IInv, DiskOK
<1>2. CASE IsOpen(t)
  <2>1. (isOpen /\ Contract!Answer(t, "true")) \/ (~isOpen /\ Contract!Answer(t, "false"))
    BY <1>1, <1>2, ReturnAnswers DEF IsOpen, Quiet, Return, AnswerTo
  <2>2. Asked[t].op = "is_open"
    BY <1>2, AskedInside DEF IsOpen, Locked
  <2>3. QED
    BY <1>1, <2>1, <2>2 DEF Contract!Query, Asked
<1>3. CASE Flush(t)
  <2>1. (isOpen /\ Contract!Answer(t, "true")) \/ Contract!Answer(t, "false")
    BY <1>3, ReturnAnswers DEF Flush, Quiet, Return, AnswerTo
  <2>2. Asked[t].op = "flush"
    BY <1>3, AskedInside DEF Flush, Locked
  <2>3. QED
    BY <1>1, <2>1, <2>2 DEF Contract!Query, Asked
<1>4. CASE Available(t)
  <2>1. (isOpen /\ Contract!Answer(t, "count")) \/ Contract!Answer(t, "minus1")
    BY <1>4, ReturnAnswers DEF Available, Return, AnswerTo
  <2>2. Asked[t].op = "available"
    BY <1>4, AskedInside DEF Available, Locked
  <2>3. QED
    BY <1>1, <2>1, <2>2 DEF Contract!Query, Asked
<1>5. CASE NoTransfer(t)
  <2>1. Contract!Answer(t, "count")
    BY <1>5, ReturnAnswers DEF NoTransfer, AnswerTo
  <2>2. Asked[t].op = "nothing"
    BY <1>5, AskedInside DEF NoTransfer
  <2>3. QED
    BY <1>1, <2>1, <2>2 DEF Contract!Immediate, Asked
<1>6. QED
  BY <1>2, <1>3, <1>4, <1>5

\* A read or a write, from the lock to the end of its loop.
LEMMA LoopAnswers ==
  ASSUME IInv, LoopOps, NEW t \in Threads,
         \/ Read(t) \/ ReadSome(t) \/ ReadEnd(t) \/ ReadFails(t) \/ ThrottleEnds(t)
         \/ Write(t) \/ WriteSome(t) \/ WriteThrows(t)
  PROVE  Contract!Query(t) \/ UNCHANGED Contract!vars
<1> USE DEF LoopOps, Inside
<1>1. CASE Read(t) \/ Write(t)
  <2>1. /\ pc[t] # "idle" /\ call[t].op \in {"read", "write"} /\ call[t].len # 0
        /\ UNCHANGED <<call, port>>
        /\ \/ Hold(t, "reading", 0) \/ Hold(t, "writing", 0)
           \/ Return(t, "open_error", 0) \/ Return(t, "read_error", 0)
    BY <1>1 DEF Read, Write, Locked, Quiet, IInv, ClientOK, CallSet, NoCall
  <2>2. QED
    BY <2>1, HoldInvisible, TransferAnswers
<1>2. CASE ReadSome(t) \/ ReadEnd(t) \/ WriteSome(t)
  <2>1. /\ pc[t] # "idle" /\ isOpen /\ UNCHANGED port
        /\ call[t].op \in {"read", "write"} /\ call[t].len # 0
    BY <1>2 DEF ReadSome, ReadEnd, WriteSome, IInv, InsideMethod
  <2>2. \/ UNCHANGED client
        \/ /\ UNCHANGED call
           /\ \E n : \/ \E w : w # "idle" /\ Hold(t, w, n)
                     \/ Return(t, "count", n)
    <3>1. CASE ReadSome(t)
      BY <3>1 DEF ReadSome, LeaveRead
    <3>2. CASE ReadEnd(t)
      BY <3>2 DEF ReadEnd, LeaveRead
    <3>3. CASE WriteSome(t)
      BY <3>3 DEF WriteSome
    <3>4. QED
      BY <1>2, <3>1, <3>2, <3>3
  <2>3. CASE UNCHANGED client
    BY <2>1, <2>3 DEF client, port, Contract!vars
  <2>4. QED
    BY <2>1, <2>2, <2>3, HoldInvisible, TransferAnswers
<1>3. CASE ReadFails(t) \/ ThrottleEnds(t) \/ WriteThrows(t)
  <2>1. /\ pc[t] # "idle" /\ isOpen /\ UNCHANGED <<call, port>>
        /\ call[t].op \in {"read", "write"} /\ call[t].len # 0
    BY <1>3 DEF ReadFails, ThrottleEnds, WriteThrows, Quiet, IInv, InsideMethod
  <2>2. \E n : \E r \in {"open_error", "read_error", "count"} : Return(t, r, n)
    BY <1>3 DEF ReadFails, ThrottleEnds, WriteThrows
  <2>3. QED
    BY <2>1, <2>2, TransferAnswers
<1>4. QED
  BY <1>1, <1>2, <1>3

LEMMA ContractStep == IInv /\ LoopOps /\ [Next]_vars => [Contract!Next]_Contract!vars
<1> SUFFICES ASSUME IInv, LoopOps, [Next]_vars PROVE [Contract!Next]_Contract!vars
  OBVIOUS
<1>1. ASSUME NEW t \in Threads, Invoke(t) PROVE Contract!Next
  BY <1>1, InvokeAsks DEF Contract!Next
<1>2. ASSUME NEW t \in Threads, Open(t) \/ Reconnect(t) \/ Close(t) PROVE Contract!Next
  BY <1>2, ChangeAnswers, CloseAnswers DEF Contract!Next
<1>3. ASSUME NEW t \in Threads, IsOpen(t) \/ Flush(t) \/ Available(t) \/ NoTransfer(t)
      PROVE  Contract!Next
  BY <1>3, QueryAnswers DEF Contract!Next
<1>4. ASSUME NEW t \in Threads,
             \/ Read(t) \/ ReadSome(t) \/ ReadEnd(t) \/ ReadFails(t) \/ ThrottleEnds(t)
             \/ Write(t) \/ WriteSome(t) \/ WriteThrows(t)
      PROVE  [Contract!Next]_Contract!vars
  BY <1>4, LoopAnswers DEF Contract!Next
<1>5. CASE UNCHANGED vars
  BY <1>5 DEF vars, client, lock, port, Contract!vars
<1>6. QED
  BY <1>1, <1>2, <1>3, <1>4, <1>5, NextSplit DEF QuietStep

\* The port implements what i_io_port promises.
THEOREM ImplementsContract == Spec => FileImplements
<1>1. Init => Contract!Init
  BY DEF Init, Contract!Init, Contract!Idle, NoQuestion, AnswerTo
<1>2. Init => LoopOps
  BY DEF Init, LoopOps
<1>3. IInv /\ [Next]_vars => (LoopOps => LoopOps')
  BY LoopOpsStep
<1>4. IInv /\ LoopOps /\ [Next]_vars => [Contract!Next]_Contract!vars
  BY ContractStep
<1>5. QED
  BY <1>1, <1>2, <1>3, <1>4, Invariance, PTL DEF Spec, FileImplements, Contract!Spec

=============================================================================
