--------------------------- MODULE AtomicFileProofs ---------------------------
(***************************************************************************)
(* The loops of a file_port are single steps on the file (AtomicFile), for *)
(* any number of threads, any file and disk, transfers of any length, and  *)
(* every configuration, those that both record and loop included.          *)
(***************************************************************************)
EXTENDS FilePortProofs

\* The variables of AtomicFile that differ from those of the port.
Place == offset - Moved
Calling == [t \in Threads |-> IF pc[t] = "idle" THEN NoCall ELSE call[t]]
Told ==
  [t \in Threads |->
     IF pc[t] = "idle" THEN [ret |-> ret[t], count |-> count[t]]
     ELSE [ret |-> "none", count |-> 0]]

\* What a thread inside a loop has done: its bytes are those before the offset.
Progress ==
  \A t \in Threads :
    /\ pc[t] \in Inside => count[t] \in 0..offset /\ count[t] <= call[t].len
    /\ pc[t] = "sleeping" => count[t] > 0 /\ (count[t] < call[t].len => offset = Len(file))

\* The file s with n bytes of thread t's buffer, after the first k, put at p.
Put(s, p, t, k, n) ==
  [i \in 1..(IF p + n > Len(s) THEN p + n ELSE Len(s)) |->
     IF i \in (p + 1)..(p + n) THEN [by |-> t, nth |-> k + i - p] ELSE s[i]]

\* The file differs from the one that the last call left by what the write
\* under way has put there.
Written ==
  /\ (\A t \in Threads : pc[t] # "writing") => file = committed
  /\ \A t \in Threads : pc[t] = "writing" =>
       /\ offset - count[t] <= Len(committed)
       /\ file = Put(committed, offset - count[t], t, 0, count[t])

\* A call that waits for the mutex has done nothing.
Fresh == \A t \in Threads : pc[t] = "called" => count[t] = 0

AInv == IInv /\ LoopOps /\ Progress /\ Written /\ Fresh

-----------------------------------------------------------------------------
(* Lemmas about the operators.                                             *)

LEMMA SameFunction ==
  ASSUME NEW S, NEW f, NEW g, f = [i \in S |-> f[i]], g = [i \in S |-> g[i]],
         \A i \in S : f[i] = g[i]
  PROVE  f = g
OBVIOUS

\* Both specifications put bytes into the file in the same way.
LEMMA PutByPort ==
  ASSUME NEW t, NEW k, NEW n PROVE Overwritten(t, k, n) = Put(file, offset, t, k, n)
BY DEF Overwritten, Put

LEMMA PutByContract ==
  ASSUME Place \in Int, NEW t, NEW n \in Nat
  PROVE  Atomic!Overwritten(t, n) = Put(committed, Place, t, 0, n)
<1> DEFINE p == Place
           size == IF p + n > Len(committed) THEN p + n ELSE Len(committed)
           New(i) == IF i \in (p + 1)..(p + n) THEN [by |-> t, nth |-> i - p] ELSE committed[i]
           Old(i) == IF i \in (p + 1)..(p + n) THEN [by |-> t, nth |-> 0 + i - p]
                     ELSE committed[i]
           f == Atomic!Overwritten(t, n)
           g == Put(committed, p, t, 0, n)
<1>1. f = [i \in 1..size |-> New(i)]
  BY DEF Atomic!Overwritten, Place
<1>2. g = [i \in 1..size |-> Old(i)]
  BY DEF Put
<1>3. \A i : New(i) = Old(i)
  <2>1. \A i \in (p + 1)..(p + n) : 0 + i - p = i - p
    OBVIOUS
  <2>2. QED
    BY <2>1
<1>4. f = g
  <2> HIDE DEF p, size, New, Old, f, g
  <2>1. f = [i \in 1..size |-> f[i]] /\ g = [i \in 1..size |-> g[i]]
    BY <1>1, <1>2
  <2>2. \A i \in 1..size : f[i] = g[i]
    BY <1>1, <1>2, <1>3
  <2>3. QED
    BY <2>1, <2>2, SameFunction
<1>5. QED
  BY <1>4

\* The size of a file after bytes are put within it or at its end.
LEMMA PutLength ==
  ASSUME NEW s \in Seq(Bytes), NEW p \in Nat, p <= Len(s), NEW t \in Threads,
         NEW k \in Nat, NEW n \in Nat
  PROVE  /\ Put(s, p, t, k, n) \in Seq(Bytes)
         /\ Len(Put(s, p, t, k, n)) = IF p + n > Len(s) THEN p + n ELSE Len(s)
<1> DEFINE size == IF p + n > Len(s) THEN p + n ELSE Len(s)
<1>1. size \in Nat /\ Len(s) \in Nat
  OBVIOUS
<1>2. ASSUME NEW i \in 1..size
      PROVE  (IF i \in (p + 1)..(p + n) THEN [by |-> t, nth |-> k + i - p] ELSE s[i]) \in Bytes
  <2>1. CASE i \in (p + 1)..(p + n)
    <3>1. k + i - p \in Nat
      BY <2>1
    <3>2. QED
      BY <2>1, <3>1 DEF Bytes
  <2>2. CASE i \notin (p + 1)..(p + n)
    <3>1. i \in 1..Len(s)
      BY <1>1, <2>2
    <3>2. QED
      BY <2>2, <3>1
  <2>3. QED
    BY <2>1, <2>2
<1>3. Put(s, p, t, k, n) \in [1..size -> Bytes]
  BY <1>2 DEF Put
<1>4. QED
  BY <1>1, <1>3

LEMMA PutNothing ==
  ASSUME NEW s \in Seq(Bytes), NEW p \in Nat, p <= Len(s), NEW t, NEW k
  PROVE  Put(s, p, t, k, 0) = s
<1>1. Len(s) \in Nat /\ ~(p + 0 > Len(s)) /\ (p + 1)..(p + 0) = {}
  OBVIOUS
<1>2. Put(s, p, t, k, 0) = [i \in 1..Len(s) |-> s[i]]
  BY <1>1 DEF Put
<1>3. s = [i \in 1..Len(s) |-> s[i]]
  OBVIOUS
<1>4. QED
  BY <1>2, <1>3

\* A buffer put in two pieces, one behind the other, is put in one.
LEMMA PutTwice ==
  ASSUME NEW s \in Seq(Bytes), NEW p \in Nat, p <= Len(s), NEW t \in Threads,
         NEW c \in Nat, NEW n \in Nat
  PROVE  Put(Put(s, p, t, 0, c), p + c, t, c, n) = Put(s, p, t, 0, c + n)
<1> DEFINE r == Put(s, p, t, 0, c)
           size == IF p + c + n > Len(s) THEN p + c + n ELSE Len(s)
           f == Put(r, p + c, t, c, n)
           g == Put(s, p, t, 0, c + n)
           lenr == IF p + c > Len(s) THEN p + c ELSE Len(s)
           Twice(i) == IF i \in (p + c + 1)..(p + c + n)
                       THEN [by |-> t, nth |-> c + i - (p + c)] ELSE r[i]
           Once(i) == IF i \in (p + 1)..(p + (c + n))
                      THEN [by |-> t, nth |-> 0 + i - p] ELSE s[i]
<1>1. Len(r) = lenr /\ Len(s) \in Nat
  BY PutLength
<1>2. (IF p + c + n > lenr THEN p + c + n ELSE lenr) = size
  BY <1>1
<1>3. f = [i \in 1..size |-> Twice(i)]
  <2> HIDE DEF r, size, lenr
  <2>1. QED
    BY <1>1, <1>2 DEF Put
<1>4. g = [i \in 1..size |-> Once(i)]
  <2>1. p + (c + n) = p + c + n
    OBVIOUS
  <2>2. QED
    BY <2>1 DEF Put
<1>5. ASSUME NEW i \in 1..size PROVE Twice(i) = Once(i)
  <2>1. CASE i \in (p + c + 1)..(p + c + n)
    <3>1. i \in (p + 1)..(p + (c + n)) /\ c + i - (p + c) = 0 + i - p
      BY <2>1
    <3> HIDE DEF r, size
    <3>2. QED
      BY <2>1, <3>1
  <2>2. CASE i \notin (p + c + 1)..(p + c + n)
    <3>1. i \in Int /\ i \in 1..lenr
      BY <1>1, <2>2
    <3>2. r[i] = IF i \in (p + 1)..(p + c) THEN [by |-> t, nth |-> 0 + i - p] ELSE s[i]
      BY <3>1 DEF Put
    <3>3. i \in (p + 1)..(p + c) <=> i \in (p + 1)..(p + (c + n))
      BY <2>2, <3>1
    <3> HIDE DEF r, size
    <3>4. QED
      BY <2>2, <3>2, <3>3
  <2>3. QED
    BY <2>1, <2>2
<1>6. QED
  <2>1. f = g
    <3> HIDE DEF r, size, Twice, Once, f, g
    <3>1. f = [i \in 1..size |-> f[i]] /\ g = [i \in 1..size |-> g[i]]
      BY <1>3, <1>4
    <3>2. \A i \in 1..size : f[i] = g[i]
      BY <1>3, <1>4, <1>5
    <3>3. QED
      BY <3>1, <3>2, SameFunction
  <2>2. QED
    BY <2>1

\* A count that an int can hold passes through the cast unchanged.
LEMMA ToIntSmall ==
  ASSUME NEW n \in Nat, n < IntHalf PROVE ToInt(n) = n
<1>1. IntHalf \in Nat /\ n + IntHalf \in 0..(2 * IntHalf - 1)
  BY FileAssumption
<1>2. (n + IntHalf) % (2 * IntHalf) = n + IntHalf
  BY <1>1
<1>3. QED
  BY <1>1, <1>2 DEF ToInt

LEMMA Holder ==
  ASSUME IInv, NEW t \in Threads, pc[t] \in Inside
  PROVE  mutex = t /\ Moved = count[t]
BY FileAssumption DEF IInv, MutexHeld, Moved

LEMMA NoHolder ==
  ASSUME IInv, Written, mutex = NoThread
  PROVE  Moved = 0 /\ committed = file /\ Place = offset
<1>1. \A t \in Threads : pc[t] # "writing"
  BY FileAssumption DEF IInv, MutexHeld, Inside
<1>2. offset \in Nat
  BY DEF IInv, DiskOK
<1>3. QED
  BY <1>1, <1>2 DEF Moved, Place, Written

\* A reader has written nothing.
LEMMA ReaderHolds ==
  ASSUME IInv, Written, NEW t \in Threads, pc[t] \in {"reading", "sleeping"}
  PROVE  mutex = t /\ committed = file /\ Place = offset - count[t]
<1>1. mutex = t /\ Moved = count[t]
  BY Holder DEF Inside
<1>2. \A u \in Threads : pc[u] # "writing"
  BY <1>1 DEF IInv, MutexHeld, Inside
<1>3. QED
  BY <1>1, <1>2 DEF Place, Written

\* A writer has put count[t] bytes at the place where it began.
LEMMA WriterHolds ==
  ASSUME IInv, LoopOps, Progress, Written, NEW t \in Threads, pc[t] = "writing"
  PROVE  /\ mutex = t /\ count[t] \in Nat /\ Place = offset - count[t]
         /\ Place \in Nat /\ Place <= Len(committed) /\ Place + count[t] = offset
         /\ file = Put(committed, Place, t, 0, count[t])
         /\ Calling[t] = call[t] /\ call[t].op = "write"
<1>1. mutex = t /\ Moved = count[t]
  BY Holder DEF Inside
<1>2. count[t] \in 0..offset /\ offset \in Nat
  BY DEF Progress, Inside, IInv, DiskOK
<1>3. Place = offset - count[t] /\ Place \in Nat /\ Place + count[t] = offset
  BY <1>1, <1>2 DEF Place
<1>4. Place <= Len(committed) /\ file = Put(committed, Place, t, 0, count[t])
  BY <1>3 DEF Written
<1>5. QED
  BY <1>1, <1>2, <1>3, <1>4 DEF Calling, LoopOps

-----------------------------------------------------------------------------
(* The invariant.                                                          *)

\* One ::write: how far it gets, and what the file is then.
LEMMA WriteGoesOn ==
  ASSUME IInv, LoopOps, Progress, Written, NEW t \in Threads, WriteSome(t)
  PROVE  \E m \in 1..call[t].len :
           /\ offset' = Place + m
           /\ file' = Put(committed, Place, t, 0, m)
           /\ \/ m = call[t].len /\ Return(t, "count", m) /\ committed' = file'
              \/ m < call[t].len /\ Hold(t, "writing", m) /\ UNCHANGED committed
<1>1. PICK n \in 1..(call[t].len - count[t]) :
        /\ file' = Overwritten(t, count[t], n)
        /\ offset' = offset + n
        /\ \/ /\ count[t] + n = call[t].len
              /\ Return(t, "count", count[t] + n) /\ committed' = file'
           \/ /\ count[t] + n < call[t].len
              /\ Hold(t, "writing", count[t] + n) /\ UNCHANGED committed
  BY DEF WriteSome
<1>2. /\ count[t] \in Nat /\ Place \in Nat /\ Place <= Len(committed)
      /\ Place + count[t] = offset /\ file = Put(committed, Place, t, 0, count[t])
  BY WriterHolds DEF WriteSome
<1>3. call[t].len \in Int /\ committed \in Seq(Bytes)
  BY DEF IInv, ClientOK, HistoryOK, CallSet, NoCall
<1>4. n \in Nat /\ count[t] + n \in 1..call[t].len /\ offset + n = Place + (count[t] + n)
  BY <1>2, <1>3
<1>5. file' = Put(Put(committed, Place, t, 0, count[t]), Place + count[t], t, count[t], n)
  BY <1>1, <1>2, PutByPort
<1>6. file' = Put(committed, Place, t, 0, count[t] + n)
  <2>1. n \in Nat /\ count[t] \in Nat /\ Place \in Nat /\ Place <= Len(committed)
    BY <1>2, <1>4
  <2>2. Put(Put(committed, Place, t, 0, count[t]), Place + count[t], t, count[t], n)
        = Put(committed, Place, t, 0, count[t] + n)
    BY <1>3, <2>1, PutTwice, ZenonT(60)
  <2>3. QED
    BY <1>5, <2>2
<1> USE <1>4
<1> WITNESS count[t] + n \in 1..call[t].len
<1>7. QED
  BY <1>1, <1>6

LEMMA ProgressStep ==
  ASSUME IInv, LoopOps, Progress, Written, [Next]_vars
  PROVE  Progress'
<1> USE DEF Inside
<1>1. pc \in [Threads -> {"idle", "called"} \cup Inside] /\ count \in [Threads -> Int]
  BY DEF IInv, ClientOK
<1>2. ASSUME NEW t \in Threads, ReadSome(t) \/ ReadEnd(t) \/ WriteSome(t)
      PROVE  \A u \in Threads : u # t => pc'[u] \notin Inside
  <2>1. pc[t] \in Inside
    BY <1>2 DEF ReadSome, ReadEnd, WriteSome
  <2>2. \A u \in Threads : u # t => pc[u] \notin Inside /\ pc'[u] = pc[u]
    BY <1>1, <1>2, <2>1 DEF ReadSome, ReadEnd, WriteSome, LeaveRead, Return, Hold, client,
       IInv, MutexHeld
  <2>3. QED
    BY <2>2
<1>3. ASSUME NEW t \in Threads, ReadSome(t) PROVE Progress'
  <2>1. PICK n \in 1..(call[t].len - count[t]) :
          /\ offset + n <= Len(file)
          /\ offset' = offset + n
          /\ IF count[t] + n = call[t].len THEN LeaveRead(t, count[t] + n)
             ELSE Hold(t, "reading", count[t] + n)
    BY <1>3 DEF ReadSome
  <2>2. /\ call[t].len \in Int /\ count[t] \in 0..offset /\ offset \in Nat
        /\ UNCHANGED call
    BY <1>3 DEF ReadSome, IInv, ClientOK, CallSet, NoCall, DiskOK, Progress, bytes
  <2>3. CASE pc'[t] = "reading" /\ count'[t] = count[t] + n
    <3>1. count'[t] \in 0..offset' /\ count'[t] <= call'[t].len
      BY <2>1, <2>2, <2>3
    <3>2. \A u \in Threads : pc'[u] \in Inside => u = t
      BY <1>2, <1>3
    <3>3. QED
      BY <2>3, <3>1, <3>2 DEF Progress
  <2>4. CASE pc'[t] = "sleeping" /\ count'[t] = call[t].len /\ count[t] + n = call[t].len
    <3>1. /\ count'[t] \in 0..offset' /\ count'[t] > 0 /\ count'[t] <= call'[t].len
          /\ ~(count'[t] < call'[t].len)
      BY <2>1, <2>2, <2>4
    <3>2. pc'[t] # "writing"
      BY <2>4
    <3>3. QED
      <4>1. ASSUME NEW u \in Threads, pc'[u] \in Inside PROVE u = t
        BY <1>2, <1>3, <4>1
      <4>2. \A u \in Threads :
              pc'[u] \in Inside \/ pc'[u] = "sleeping" \/ pc'[u] = "writing" => u = t
        BY <4>1
      <4>3. QED
        BY <3>1, <3>2, <4>2 DEF Progress
  <2>5. CASE pc'[t] = "idle"
    BY <1>2, <1>3, <2>5 DEF Progress
  <2>6. QED
    BY <1>1, <2>1, <2>3, <2>4, <2>5 DEF LeaveRead, Hold, Return
<1>4. ASSUME NEW t \in Threads, ReadEnd(t) PROVE Progress'
  <2>1. /\ count[t] \in 0..offset /\ count[t] <= call[t].len /\ offset \in Nat
        /\ pc[t] = "reading" /\ offset = Len(file) /\ UNCHANGED <<call, file>>
    BY <1>4 DEF ReadEnd, IInv, DiskOK, Progress, client, bytes
  <2>2. CASE count[t] = 0 /\ offset' = 0 /\ UNCHANGED client
    BY <1>2, <1>4, <2>1, <2>2 DEF Progress, client
  <2>3. CASE LeaveRead(t, count[t]) /\ UNCHANGED offset
    BY <1>1, <1>2, <1>4, <2>1, <2>3 DEF Progress, LeaveRead, Hold, Return
  <2>4. QED
    BY <1>4, <2>2, <2>3 DEF ReadEnd
<1>5. ASSUME NEW t \in Threads, WriteSome(t) PROVE Progress'
  <2>1. PICK m \in 1..call[t].len :
          /\ offset' = Place + m
          /\ Return(t, "count", m) \/ Hold(t, "writing", m)
    BY <1>5, WriteGoesOn
  <2>2. UNCHANGED call /\ Place \in Nat /\ call[t].len \in Int
    BY <1>5, WriterHolds DEF WriteSome, IInv, ClientOK, CallSet, NoCall
  <2>3. CASE pc'[t] = "idle"
    BY <1>2, <1>5, <2>3 DEF Progress
  <2>4. CASE pc'[t] = "writing" /\ count'[t] = m
    <3>1. count'[t] \in 0..offset' /\ count'[t] <= call'[t].len
      BY <2>1, <2>2, <2>4
    <3>2. QED
      BY <1>2, <1>5, <2>4, <3>1 DEF Progress
  <2>5. QED
    BY <1>1, <2>1, <2>3, <2>4 DEF Return, Hold
<1>6. ASSUME NEW t \in Threads, Open(t) \/ Reconnect(t) \/ Close(t) PROVE Progress'
  <2>1. \A u \in Threads : pc'[u] \notin Inside
    BY <1>1, <1>6, FileAssumption DEF Open, Reconnect, Close, OpenLocked, Locked, Return,
       IInv, MutexHeld
  <2>2. QED
    BY <2>1 DEF Progress
<1>7. ASSUME NEW t \in Threads, QuietStep(t) PROVE Progress'
  <2>1. UNCHANGED <<file, offset>> /\ offset \in Nat
    BY <1>7, QuietIsQuiet DEF port, IInv, DiskOK
  <2>2. ASSUME NEW u \in Threads, pc'[u] \in Inside
        PROVE  \/ pc'[u] = pc[u] /\ count'[u] = count[u] /\ call'[u] = call[u]
               \/ /\ count'[u] = 0 /\ call'[u] \in CallSet \cup {NoCall}
                  /\ pc'[u] \in {"reading", "writing"}
    BY <1>1, <1>7, <2>2 DEF QuietStep, Invoke, IsOpen, Flush, Available, NoTransfer, Read,
       ReadFails, ThrottleEnds, Write, WriteThrows, Quiet, Return, Hold, IInv, ClientOK
  <2>3. \A c \in CallSet \cup {NoCall} : c.len \in Nat
    BY FileAssumption DEF CallSet, NoCall
  <2>4. ASSUME NEW u \in Threads, count'[u] = 0, call'[u] \in CallSet \cup {NoCall}
        PROVE  count'[u] \in 0..offset' /\ count'[u] <= call'[u].len
    BY <2>1, <2>3, <2>4
  <2>5. QED
    BY <2>1, <2>2, <2>4 DEF Progress
<1>8. CASE UNCHANGED vars
  BY <1>8 DEF vars, client, disk, bytes, Progress
<1>9. QED
  BY <1>3, <1>4, <1>5, <1>6, <1>7, <1>8, NextSplit

LEMMA WrittenStep ==
  ASSUME IInv, LoopOps, Progress, Written, [Next]_vars
  PROVE  Written'
<1>1. pc \in [Threads -> {"idle", "called"} \cup Inside] /\ count \in [Threads -> Int]
  BY DEF IInv, ClientOK
<1>2. file \in Seq(Bytes) /\ committed \in Seq(Bytes) /\ offset \in Nat /\ offset <= Len(file)
  BY DEF IInv, DiskOK, HistoryOK
<1>3. ASSUME NEW t \in Threads, WriteSome(t) PROVE Written'
  <2>1. \A u \in Threads : u # t => pc'[u] # "writing"
    BY <1>1, <1>3 DEF WriteSome, Return, Hold, IInv, MutexHeld, Inside
  <2>2. PICK m \in 1..call[t].len :
          /\ offset' = Place + m
          /\ file' = Put(committed, Place, t, 0, m)
          /\ \/ Return(t, "count", m) /\ committed' = file'
             \/ Hold(t, "writing", m) /\ UNCHANGED committed
    BY <1>3, WriteGoesOn
  <2>3. Place \in Nat /\ Place <= Len(committed) /\ call[t].len \in Int
    BY <1>3, WriterHolds DEF WriteSome, IInv, ClientOK, CallSet, NoCall
  <2>4. CASE Return(t, "count", m) /\ committed' = file'
    <3>1. pc'[t] = "idle"
      BY <1>1, <2>4 DEF Return
    <3>2. QED
      BY <2>1, <2>4, <3>1 DEF Written
  <2>5. CASE Hold(t, "writing", m) /\ UNCHANGED committed
    <3>1. pc'[t] = "writing" /\ count'[t] = m
      BY <1>1, <2>5 DEF Hold
    <3>2. offset' - count'[t] = Place
      BY <2>2, <2>3, <3>1
    <3>3. /\ offset' - count'[t] <= Len(committed')
          /\ file' = Put(committed', offset' - count'[t], t, 0, count'[t])
      BY <2>2, <2>3, <2>5, <3>1, <3>2
    <3>4. QED
      BY <2>1, <3>1, <3>3 DEF Written
  <2>6. QED
    BY <2>2, <2>4, <2>5
<1>4. ASSUME NEW t \in Threads,
             \/ Open(t) \/ Reconnect(t) \/ Close(t)
             \/ ReadSome(t) \/ ReadEnd(t) \/ ReadFails(t) \/ ThrottleEnds(t)
             \/ IsOpen(t) \/ Flush(t) \/ Available(t) \/ Read(t)
      PROVE  Written'
  <2>1. mutex = NoThread \/ pc[t] \in {"reading", "sleeping"}
    BY <1>4 DEF Open, Reconnect, Close, ReadSome, ReadEnd, ReadFails, ThrottleEnds, IsOpen,
       Flush, Available, Read, Locked
  <2>2. committed = file /\ \A u \in Threads : pc[u] # "writing"
    <3>1. CASE mutex = NoThread
      BY <3>1, NoHolder, FileAssumption DEF IInv, MutexHeld, Inside
    <3>2. CASE pc[t] \in {"reading", "sleeping"}
      BY <3>2, ReaderHolds DEF IInv, MutexHeld, Inside
    <3>3. QED
      BY <2>1, <3>1, <3>2
  <2>3. \A u \in Threads : pc'[u] # "writing"
    BY <1>1, <1>4, <2>2 DEF Open, Reconnect, Close, OpenLocked, ReadSome, ReadEnd, ReadFails,
       ThrottleEnds, IsOpen, Flush, Available, Read, LeaveRead, Return, Hold, client
  <2>4. committed' = file'
    <3>1. \/ UNCHANGED <<committed, file>>
          \/ committed' = file'
      <4>1. CASE Open(t) \/ Reconnect(t) \/ Close(t)
        BY <4>1 DEF Open, Reconnect, Close, OpenLocked, disk, bytes
      <4>2. CASE ReadSome(t) \/ ReadEnd(t)
        BY <4>2 DEF ReadSome, ReadEnd, bytes
      <4>3. CASE \/ ReadFails(t) \/ ThrottleEnds(t) \/ IsOpen(t) \/ Flush(t)
                 \/ Available(t) \/ Read(t)
        BY <4>3 DEF ReadFails, ThrottleEnds, IsOpen, Flush, Available, Read, Quiet, disk, bytes
      <4>4. QED
        BY <1>4, <4>1, <4>2, <4>3
    <3>2. QED
      BY <2>2, <3>1
  <2>5. QED
    BY <2>3, <2>4 DEF Written
<1>5. ASSUME NEW t \in Threads, Write(t) PROVE Written'
  <2>1. /\ committed = file /\ UNCHANGED <<committed, file, offset>>
        /\ \A u \in Threads : pc[u] # "writing"
    BY <1>5, NoHolder, FileAssumption DEF Write, Locked, Quiet, disk, bytes, IInv, MutexHeld,
       Inside
  <2>2. \A u \in Threads : pc'[u] = "writing" => u = t /\ count'[t] = 0
    BY <1>1, <1>5, <2>1 DEF Write, Return, Hold
  <2>3. offset - 0 <= Len(committed) /\ file = Put(committed, offset - 0, t, 0, 0)
    BY <1>2, <2>1, PutNothing
  <2>4. QED
    BY <2>1, <2>2, <2>3 DEF Written
<1>6. ASSUME NEW t \in Threads, WriteThrows(t) PROVE Written'
  <2>1. \A u \in Threads : pc'[u] # "writing"
    BY <1>1, <1>6 DEF WriteThrows, Return, IInv, MutexHeld, Inside
  <2>2. QED
    BY <1>6, <2>1 DEF WriteThrows, Written
<1>7. ASSUME NEW t \in Threads, Invoke(t) \/ NoTransfer(t) PROVE Written'
  <2>1. UNCHANGED <<committed, file, offset>>
    BY <1>7 DEF Invoke, NoTransfer, disk, bytes
  <2>2. \A u \in Threads :
          /\ pc'[u] = "writing" <=> pc[u] = "writing"
          /\ pc[u] = "writing" => count'[u] = count[u]
    BY <1>1, <1>7 DEF Invoke, NoTransfer
  <2>3. QED
    BY <2>1, <2>2 DEF Written
<1>8. CASE UNCHANGED vars
  BY <1>8 DEF vars, client, disk, bytes, Written
<1>9. QED
  BY <1>3, <1>4, <1>5, <1>6, <1>7, <1>8, NextSplit DEF QuietStep

LEMMA FreshStep == IInv /\ Fresh /\ [Next]_vars => Fresh'
<1> SUFFICES ASSUME IInv, Fresh, [Next]_vars PROVE Fresh'
  OBVIOUS
<1> USE DEF IInv, ClientOK, Fresh, Return, Hold, Inside
<1>1. ASSUME NEW t \in Threads, Open(t) \/ Reconnect(t) \/ Close(t) PROVE Fresh'
  BY <1>1 DEF Open, Reconnect, Close, OpenLocked
<1>2. ASSUME NEW t \in Threads, ReadSome(t) \/ ReadEnd(t) \/ WriteSome(t) PROVE Fresh'
  BY <1>2 DEF ReadSome, ReadEnd, WriteSome, LeaveRead, client
<1>3. ASSUME NEW t \in Threads, QuietStep(t) PROVE Fresh'
  BY <1>3 DEF QuietStep, Invoke, IsOpen, Flush, Available, NoTransfer, Read, ReadFails,
     ThrottleEnds, Write, WriteThrows
<1>4. CASE UNCHANGED vars
  BY <1>4 DEF vars, client
<1>5. QED
  BY <1>1, <1>2, <1>3, <1>4, NextSplit

-----------------------------------------------------------------------------
(* The steps.                                                              *)

\* A method that returns tells its thread.
LEMMA ReturnTells ==
  ASSUME IInv, NEW t \in Threads, NEW r, NEW n, Return(t, r, n),
         UNCHANGED call, offset' \in Int
  PROVE  Atomic!Tell(t, r, n) /\ Place' = offset'
<1>1. Calling' = [Calling EXCEPT ![t] = NoCall]
  BY DEF Calling, Return, IInv, ClientOK
<1>2. Told' = [Told EXCEPT ![t] = [ret |-> r, count |-> n]]
  BY DEF Told, Return, IInv, ClientOK
<1>3. Place' = offset'
  <2>1. Moved' = 0
    BY DEF Return, Moved
  <2>2. PICK x \in Int : offset' = x
    OBVIOUS
  <2>3. QED
    BY <2>1, <2>2 DEF Place
<1>4. QED
  BY <1>1, <1>2, <1>3 DEF Atomic!Tell, Atomic!NoCall, NoCall, Calling, Told

\* A method that goes on tells nothing.
LEMMA HoldTells ==
  ASSUME IInv, NEW t \in Threads, pc[t] # "idle", NEW w \in Inside, NEW n,
         Hold(t, w, n), UNCHANGED call
  PROVE  UNCHANGED <<Calling, Told>> /\ Moved' = n
<1>1. \A u \in Threads : pc'[u] = "idle" <=> pc[u] = "idle"
  BY DEF Hold, IInv, ClientOK, Inside
<1>2. \A u \in Threads : pc[u] = "idle" => ret'[u] = ret[u] /\ count'[u] = count[u]
  BY DEF Hold, IInv, ClientOK
<1>3. UNCHANGED Calling
  BY <1>1 DEF Calling
<1>4. UNCHANGED Told
  BY <1>1, <1>2 DEF Told
<1>5. pc'[t] = w /\ count'[t] = n /\ mutex' = t /\ t # NoThread
  BY FileAssumption DEF Hold, IInv, ClientOK
<1>6. QED
  BY <1>3, <1>4, <1>5 DEF Moved

\* The variables of AtomicFile, named.
LEMMA Unseen ==
  ASSUME UNCHANGED <<isOpen, config, committed, Place, Calling, Told>>
  PROVE  UNCHANGED Atomic!vars
BY DEF Atomic!vars, Place, Calling, Told

LEMMA Called ==
  ASSUME NEW t \in Threads, pc[t] # "idle" PROVE Calling[t] = call[t]
BY DEF Calling

LEMMA InvokeAsksFile ==
  ASSUME IInv, NEW t \in Threads, Invoke(t) PROVE Atomic!Ask(t)
<1> USE DEF IInv, ClientOK
<1>1. PICK c \in CallSet : call' = [call EXCEPT ![t] = c]
  BY FileAssumption DEF Invoke
<1>2. c \in Atomic!Requests
  BY <1>1 DEF CallSet, Ops, Lifecycle, Atomic!Requests, Atomic!Reopening
<1>3. Calling[t] = NoCall /\ Calling' = [Calling EXCEPT ![t] = c] /\ Calling'[t] = c
  BY <1>1 DEF Invoke, Calling
<1>4. Told' = [Told EXCEPT ![t] = [ret |-> "none", count |-> 0]]
  BY DEF Invoke, Told
<1>5. UNCHANGED Moved
  <2>1. mutex # t \/ mutex = NoThread
    BY DEF MutexHeld, Invoke, Inside
  <2>2. mutex # NoThread => pc'[mutex] = pc[mutex] /\ count'[mutex] = count[mutex]
    BY <2>1 DEF Invoke
  <2>3. QED
    BY <2>2 DEF Invoke, Moved, lock
<1>6. UNCHANGED <<isOpen, config, committed, Place>>
  BY <1>5 DEF Invoke, port, disk, bytes, Place
<1>7. QED
  BY <1>2, <1>3, <1>4, <1>6 DEF Atomic!Ask, Atomic!NoCall, Atomic!NoAnswer, NoCall,
     Place, Calling, Told

LEMMA Reopens ==
  ASSUME IInv, Written, NEW t \in Threads, Open(t) \/ Reconnect(t)
  PROVE  Atomic!Reopen(t) \/ Atomic!Refuse(t)
<1> DEFINE c == IF call[t].op = "reconnect" THEN config ELSE call[t].cfg
<1>1. /\ OpenLocked(t, c) /\ pc[t] = "called" /\ mutex = NoThread /\ UNCHANGED call
      /\ call[t].op \in {"open", "reconfigure", "reconnect"}
  BY DEF Open, Reconnect, Locked
<1>2. /\ Calling[t] = call[t] /\ committed = file /\ Place = offset
      /\ call[t].op \in Atomic!Reopening
  BY <1>1, Called, NoHolder DEF Atomic!Reopening
<1>3. offset \in Int
  BY DEF IInv, DiskOK
<1>4. CASE /\ c \in FileConfigs /\ isOpen' = TRUE /\ config' = c /\ offset' = 0
           /\ file' = (IF c \in Writable THEN <<>> ELSE file) /\ committed' = file'
           /\ Return(t, "true", 0)
  <2>1. Atomic!Tell(t, "true", 0) /\ Place' = 0
    BY <1>1, <1>3, <1>4, ReturnTells
  <2>2. config' \in Configs
    BY <1>4, FileAssumption
  <2>3. Atomic!Reopen(t)
    BY <1>2, <1>4, <2>1, <2>2 DEF Atomic!Reopen, Place, Calling
  <2>4. QED
    BY <2>3
<1>5. CASE isOpen' = FALSE /\ UNCHANGED <<config, disk>> /\ Return(t, "open_error", 0)
  <2>1. UNCHANGED <<committed, offset>>
    BY <1>5 DEF disk, bytes
  <2>2. Atomic!Tell(t, "open_error", 0) /\ UNCHANGED <<committed, Place>>
    BY <1>1, <1>2, <1>3, <1>5, <2>1, ReturnTells
  <2>3. Atomic!Refuse(t)
    BY <1>2, <1>5, <2>2 DEF Atomic!Refuse, Place, Calling
  <2>4. QED
    BY <2>3
<1>6. QED
  BY <1>1, <1>4, <1>5 DEF OpenLocked

\* A call that returns and leaves the port and the file as they are.
LEMMA QuietReturn ==
  ASSUME IInv, Written, NEW t \in Threads, mutex = NoThread, pc[t] = "called",
         UNCHANGED <<call, port, disk>>, NEW r, NEW n, Return(t, r, n)
  PROVE  Atomic!Tell(t, r, n) /\ UNCHANGED <<isOpen, config, committed, Place>>
<1>1. UNCHANGED <<committed, offset, isOpen, config, call>> /\ offset' \in Int
  BY DEF disk, bytes, port, IInv, DiskOK
<1>2. Atomic!Tell(t, r, n) /\ Place' = offset
  BY <1>1, ReturnTells
<1>3. QED
  BY <1>1, <1>2, NoHolder

LEMMA Closes ==
  ASSUME IInv, Written, NEW t \in Threads, Close(t) PROVE Atomic!Close(t)
<1>1. UNCHANGED <<committed, offset, config, call>> /\ offset' \in Int
  BY DEF Close, disk, bytes, IInv, DiskOK
<1>2. Atomic!Tell(t, "done", 0) /\ Place' = offset
  BY <1>1, ReturnTells DEF Close
<1>3. Calling[t].op = "close" /\ Place = offset
  BY Called, NoHolder DEF Close, Locked
<1>4. QED
  BY <1>1, <1>2, <1>3 DEF Close, Atomic!Close, Place, Calling

\* What available() counts is what a read can get.
LEMMA Counts ==
  ASSUME IInv, Written, NEW t \in Threads, Available(t) PROVE Atomic!Available(t)
<1>1. /\ pc[t] = "called" /\ mutex = NoThread /\ call[t].op = "available"
      /\ UNCHANGED <<call, port, disk>>
  BY DEF Available, Locked
<1>2. Calling[t].op = "available" /\ committed = file /\ Place = offset
  BY <1>1, Called, NoHolder
<1>3. CASE Return(t, "minus1", 0)
  <2>1. Atomic!Tell(t, "minus1", 0) /\ UNCHANGED <<isOpen, config, committed, Place>>
    BY <1>1, <1>3, QuietReturn
  <2>2. QED
    BY <1>2, <1>3, <2>1 DEF Atomic!Available, Place, Calling
<1>4. CASE isOpen /\ Return(t, "count", ToInt(Remaining))
  <2>1. PICK n : n = ToInt(Remaining) /\ Return(t, "count", n)
    BY <1>4
  <2>2. Atomic!Tell(t, "count", n) /\ UNCHANGED <<isOpen, config, committed, Place>>
    BY <1>1, <2>1, QuietReturn
  <2>3. /\ Calling' = [Calling EXCEPT ![t] = NoCall]
        /\ Told' = [Told EXCEPT ![t] = [ret |-> "count", count |-> n]]
    BY <2>2 DEF Atomic!Tell, Atomic!NoCall, NoCall, Calling, Told
  <2>4. Told'[t].count = n
    BY <2>3 DEF Told
  <2>5. /\ Calling' = [Calling EXCEPT ![t] = NoCall]
        /\ Told' = [Told EXCEPT ![t] = [ret |-> "count", count |-> Told'[t].count]]
    BY <2>3, <2>4
  <2>6. Remaining \in Nat
    BY DEF Remaining, IInv, DiskOK
  <2>7. Remaining \in Atomic!Left
    <3>1. Atomic!Left = {Len(file) - offset}
            \cup {k \in {Len(file)} : config \in Looping /\ offset = Len(file)}
      BY <1>2 DEF Atomic!Left, Place
    <3>2. QED
      BY <3>1 DEF Remaining, IInv, DiskOK
  <2>8. Told'[t].count \in Atomic!Left \/ \E k \in Atomic!Left : k >= IntHalf
    BY <2>1, <2>4, <2>6, <2>7, ToIntSmall, FileAssumption
  <2>9. QED
    BY <1>2, <1>4, <2>2, <2>5, <2>8
       DEF Atomic!Available, Atomic!Tell, Atomic!NoCall, NoCall, Place, Calling, Told
<1>5. QED
  BY <1>3, <1>4 DEF Available

LEMMA Looks ==
  ASSUME IInv, Written, Fresh, NEW t \in Threads, IsOpen(t) \/ Flush(t) \/ NoTransfer(t)
  PROVE  Atomic!Look(t)
<1>1. CASE IsOpen(t) \/ Flush(t)
  <2>1. /\ pc[t] = "called" /\ mutex = NoThread /\ call[t].op \in {"is_open", "flush"}
        /\ UNCHANGED <<call, port, disk>>
        /\ \E r \in {"true", "false"} : Return(t, r, 0)
    BY <1>1 DEF IsOpen, Flush, Locked, Quiet
  <2>2. PICK r \in {"true", "false"} :
          Atomic!Tell(t, r, 0) /\ UNCHANGED <<isOpen, config, committed, Place>>
    BY <2>1, QuietReturn
  <2>3. Calling[t].op \in {"is_open", "flush"}
    BY <2>1, Called
  <2>4. QED
    BY <2>2, <2>3 DEF Atomic!Look, Place, Calling
<1>2. CASE NoTransfer(t)
  <2>1. /\ pc[t] = "called" /\ call[t].op \in {"read", "write"} /\ call[t].len = 0
        /\ UNCHANGED <<call, count, mutex, isOpen, config, committed, offset>>
        /\ pc' = [pc EXCEPT ![t] = "idle"] /\ ret' = [ret EXCEPT ![t] = "count"]
    BY <1>2 DEF NoTransfer, lock, port, disk, bytes
  <2>2. UNCHANGED Moved
    <3>1. mutex # NoThread => mutex # t /\ pc'[mutex] = pc[mutex]
      BY <2>1 DEF IInv, MutexHeld, ClientOK, Inside
    <3>2. QED
      BY <2>1, <3>1 DEF Moved
  <2>3. UNCHANGED Place
    BY <2>1, <2>2 DEF Place
  <2>4. Calling' = [Calling EXCEPT ![t] = NoCall]
    BY <2>1 DEF Calling, IInv, ClientOK
  <2>5. Told' = [Told EXCEPT ![t] = [ret |-> "count", count |-> 0]]
    BY <2>1 DEF Told, IInv, ClientOK, Fresh
  <2>6. Calling[t].op \in {"read", "write"} /\ Calling[t].len = 0
    BY <2>1, Called
  <2>7. Atomic!Tell(t, "count", 0)
    BY <2>4, <2>5 DEF Atomic!Tell, Atomic!NoCall, NoCall, Calling, Told
  <2>8. QED
    BY <2>1, <2>3, <2>6, <2>7 DEF Atomic!Look, Place, Calling
<1>3. QED
  BY <1>1, <1>2

\* A method that goes on inside its loop, seen from the file.
LEMMA LoopUnseen ==
  ASSUME IInv, NEW t \in Threads, pc[t] # "idle", NEW w \in Inside, NEW n,
         Hold(t, w, n), UNCHANGED <<call, port, committed>>, Place = offset' - n
  PROVE  UNCHANGED Atomic!vars
<1>1. UNCHANGED <<Calling, Told, isOpen, config>> /\ Moved' = n
  BY HoldTells DEF port
<1>2. UNCHANGED Place
  BY <1>1 DEF Place
<1>3. QED
  BY <1>1, <1>2, Unseen

\* A read that has n bytes of its buffer leaves the loop with them.
LEMMA Gets ==
  ASSUME IInv, LoopOps, Written, NEW t \in Threads, pc[t] \in {"reading", "sleeping"},
         UNCHANGED <<call, port, bytes>>, NEW n \in 0..call[t].len,
         offset' \in Int, offset' <= Len(file), Place + n = offset', Return(t, "count", n),
         n < call[t].len => offset' = Len(file),
         n = 0 => config \notin Looping
  PROVE  Atomic!Read(t)
<1>1. committed = file /\ Place \in Int /\ pc[t] # "idle"
  BY ReaderHolds DEF IInv, DiskOK, ClientOK
<1>2. UNCHANGED <<isOpen, config, committed>> /\ isOpen
  BY DEF port, bytes, IInv, InsideMethod, Inside
<1>3. Atomic!Tell(t, "count", n) /\ Place' = Place + n
  BY ReturnTells
<1>4. Calling[t] = call[t] /\ call[t].op = "read"
  BY <1>1, Called DEF LoopOps
<1>5. Atomic!Passes(n) /\ (n < Calling[t].len => Place' = Len(committed))
  BY <1>1, <1>3, <1>4 DEF Atomic!Passes, Place
<1>6. QED
  BY <1>2, <1>3, <1>4, <1>5 DEF Atomic!Read, Place, Calling

\* A transfer that throws after n bytes.
LEMMA ReadThrows ==
  ASSUME NEW t \in Threads, Calling[t].op = "read", NEW n \in 0..Calling[t].len,
         n > 0 => isOpen, Place + n <= Len(committed), Place' = Place + n,
         Atomic!Tell(t, "read_error", 0), UNCHANGED <<isOpen, config, committed>>
  PROVE  Atomic!ReadFails(t)
BY DEF Atomic!ReadFails, Place, Calling

LEMMA WriteThrowsPart ==
  ASSUME NEW t \in Threads, Calling[t].op = "write", NEW n \in 0..Calling[t].len,
         n < Calling[t].len, n > 0 => isOpen /\ config \in Writable,
         Place \in Int, committed' = Put(committed, Place, t, 0, n), Place' = Place + n,
         Atomic!Tell(t, "open_error", 0), UNCHANGED <<isOpen, config>>
  PROVE  Atomic!WriteFails(t)
<1>1. n \in Nat /\ Atomic!Overwritten(t, n) = Put(committed, Place, t, 0, n)
  BY PutByContract
<1>2. Atomic!Puts(t, n)
  BY <1>1 DEF Atomic!Puts, Place
<1>3. QED
  BY <1>2 DEF Atomic!WriteFails, Calling

\* A transfer takes the lock and finds the port fit for it, or throws.
LEMMA Starts ==
  ASSUME IInv, Written, NEW t \in Threads, Read(t) \/ Write(t)
  PROVE  Atomic!ReadFails(t) \/ Atomic!WriteFails(t) \/ UNCHANGED Atomic!vars
<1>1. /\ pc[t] = "called" /\ mutex = NoThread /\ UNCHANGED <<call, port, disk>>
      /\ call[t].len \in Nat /\ call[t].len > 0
      /\ offset \in Nat /\ file \in Seq(Bytes) /\ offset <= Len(file) /\ Len(file) \in Nat
  BY FileAssumption DEF Read, Write, Locked, Quiet, IInv, ClientOK, DiskOK, CallSet, NoCall
<1>2. Calling[t] = call[t] /\ committed = file /\ Place = offset
  BY <1>1, Called, NoHolder
<1>3. CASE Read(t) /\ Return(t, "read_error", 0)
  <2>1. Atomic!Tell(t, "read_error", 0) /\ UNCHANGED <<isOpen, config, committed, Place>>
    BY <1>1, <1>3, QuietReturn
  <2>2. Calling[t].op = "read" /\ 0 \in 0..Calling[t].len
    BY <1>1, <1>2, <1>3 DEF Read, Locked
  <2>3. Place + 0 <= Len(committed) /\ Place' = Place + 0
    BY <1>1, <1>2, <2>1
  <2>4. Atomic!ReadFails(t)
    BY <2>1, <2>2, <2>3, ReadThrows
  <2>5. QED
    BY <2>4
<1>4. CASE Write(t) /\ Return(t, "open_error", 0)
  <2>1. Atomic!Tell(t, "open_error", 0) /\ UNCHANGED <<isOpen, config, committed, Place>>
    BY <1>1, <1>4, QuietReturn
  <2>2. Calling[t].op = "write" /\ 0 \in 0..Calling[t].len /\ 0 < Calling[t].len
    BY <1>1, <1>2, <1>4 DEF Write, Locked
  <2>3. committed' = Put(committed, Place, t, 0, 0)
    BY <1>1, <1>2, <2>1, PutNothing
  <2>4. Place \in Int /\ Place' = Place + 0
    BY <1>1, <1>2, <2>1
  <2>5. Atomic!WriteFails(t)
    BY <2>1, <2>2, <2>3, <2>4, WriteThrowsPart
  <2>6. QED
    BY <2>5
<1>5. CASE Hold(t, "reading", 0) \/ Hold(t, "writing", 0)
  <2>1. UNCHANGED <<committed, offset>> /\ "reading" \in Inside /\ "writing" \in Inside
    BY <1>1 DEF disk, bytes, Inside
  <2>2. Place = offset' - 0
    BY <1>1, <1>2, <2>1
  <2>3. QED
    BY <1>1, <1>5, <2>1, <2>2, LoopUnseen
<1>6. QED
  BY <1>3, <1>4, <1>5 DEF Read, Write

\* An iteration of read_locked.
LEMMA ReadsOn ==
  ASSUME IInv, LoopOps, Progress, Written, NEW t \in Threads, ReadSome(t)
  PROVE  Atomic!Read(t) \/ UNCHANGED Atomic!vars
<1>1. PICK n \in 1..(call[t].len - count[t]) :
        /\ offset + n <= Len(file)
        /\ offset' = offset + n
        /\ IF count[t] + n = call[t].len THEN LeaveRead(t, count[t] + n)
           ELSE Hold(t, "reading", count[t] + n)
  BY DEF ReadSome
<1>2. /\ pc[t] = "reading" /\ UNCHANGED <<call, port, bytes, committed>>
      /\ call[t].len \in Nat /\ count[t] \in Nat /\ offset \in Nat /\ Len(file) \in Nat
  BY FileAssumption
     DEF ReadSome, bytes, IInv, InsideMethod, ClientOK, DiskOK, CallSet, NoCall
<1>3. Place = offset - count[t]
  BY <1>2, ReaderHolds
<1>4. /\ offset' \in Int /\ offset' <= Len(file) /\ Place = offset' - (count[t] + n)
      /\ Place + (count[t] + n) = offset'
  BY <1>1, <1>2, <1>3
<1>5. CASE Hold(t, "reading", count[t] + n) \/ Hold(t, "sleeping", count[t] + n)
  BY <1>2, <1>4, <1>5, LoopUnseen DEF Inside
<1>6. CASE count[t] + n = call[t].len /\ Return(t, "count", count[t] + n)
  <2>1. count[t] + n \in 0..call[t].len /\ ~(count[t] + n < call[t].len) /\ count[t] + n # 0
    BY <1>2, <1>6
  <2>2. QED
    BY <1>2, <1>4, <1>6, <2>1, Gets
<1>7. QED
  BY <1>1, <1>5, <1>6 DEF LeaveRead

\* The end of the file, within a read.
LEMMA ReadsEnd ==
  ASSUME IInv, LoopOps, Progress, Written, NEW t \in Threads, ReadEnd(t)
  PROVE  Atomic!Rewind(t) \/ Atomic!Read(t) \/ UNCHANGED Atomic!vars
<1>1. /\ pc[t] = "reading" /\ offset = Len(file) /\ UNCHANGED <<call, port, bytes, committed>>
      /\ count[t] \in 0..call[t].len /\ offset \in Nat /\ isOpen /\ call[t].len \in Int
  BY FileAssumption DEF ReadEnd, client, bytes, IInv, DiskOK, InsideMethod, Inside,
     Progress, ClientOK, CallSet, NoCall
<1>2. committed = file /\ Place = offset - count[t] /\ Calling[t] = call[t] /\ mutex = t
  BY <1>1, ReaderHolds, Called
<1>3. CASE config \in Looping /\ count[t] = 0 /\ offset' = 0 /\ UNCHANGED <<client, mutex>>
  <2>1. Moved = 0 /\ UNCHANGED <<Moved, Calling, Told, config, isOpen>>
    <3>1. Moved = count[t]
      BY <1>1, Holder DEF Inside
    <3>2. UNCHANGED <<pc, call, ret, count, mutex>>
      BY <1>3 DEF client
    <3>3. UNCHANGED <<Moved, Calling, Told>>
      BY <3>2 DEF Moved, Calling, Told
    <3>4. QED
      BY <1>1, <1>3, <3>1, <3>3 DEF port
  <2>2. Place = Len(committed)
    BY <1>1, <1>2, <1>3
  <2>3. Place' = 0
    BY <1>3, <2>1 DEF Place
  <2>5. Calling[t].op = "read"
    BY <1>1, <1>2 DEF LoopOps
  <2>6. Atomic!Rewind(t)
    BY <1>1, <1>3, <2>1, <2>2, <2>3, <2>5 DEF Atomic!Rewind, Place, Calling, Told
  <2>7. QED
    BY <2>6
<1>4. CASE LeaveRead(t, count[t]) /\ UNCHANGED offset /\ (config \notin Looping \/ count[t] > 0)
  <2>1. CASE Hold(t, "sleeping", count[t])
    BY <1>1, <1>2, <1>4, <2>1, LoopUnseen DEF Inside
  <2>2. CASE Return(t, "count", count[t])
    <3>1. /\ offset' \in Int /\ offset' <= Len(file) /\ Place + count[t] = offset'
          /\ offset' = Len(file) /\ (count[t] = 0 => config \notin Looping)
      BY <1>1, <1>2, <1>4
    <3>2. QED
      BY <1>1, <2>2, <3>1, Gets
  <2>3. QED
    BY <1>4, <2>1, <2>2 DEF LeaveRead
<1>5. QED
  BY <1>3, <1>4 DEF ReadEnd

\* The other ways out of a read.
LEMMA ReadsStop ==
  ASSUME IInv, LoopOps, Progress, Written, NEW t \in Threads, ReadFails(t) \/ ThrottleEnds(t)
  PROVE  Atomic!Read(t) \/ Atomic!ReadFails(t)
<1>1. /\ pc[t] \in {"reading", "sleeping"} /\ UNCHANGED <<call, port, disk>>
      /\ count[t] \in 0..call[t].len /\ offset \in Nat /\ isOpen /\ call[t].len \in Int
      /\ Len(file) \in Nat /\ offset <= Len(file) /\ file \in Seq(Bytes)
  BY FileAssumption DEF ReadFails, ThrottleEnds, Quiet, IInv, DiskOK, InsideMethod, Inside,
     Progress, ClientOK, CallSet, NoCall
<1>2. /\ committed = file /\ Place = offset - count[t] /\ Calling[t] = call[t]
      /\ call[t].op = "read"
  BY <1>1, ReaderHolds, Called DEF LoopOps
<1>3. UNCHANGED <<bytes, committed, offset, isOpen, config>> /\ offset' \in Int
  BY <1>1 DEF disk, bytes, port
<1>4. Place + count[t] = offset
  BY <1>1, <1>2
<1>5. CASE ReadFails(t)
  <2>1. Atomic!Tell(t, "read_error", 0) /\ Place' = offset'
    BY <1>1, <1>3, <1>5, ReturnTells DEF ReadFails
  <2>2. QED
    BY <1>1, <1>2, <1>3, <1>4, <2>1, ReadThrows
<1>6. CASE ThrottleEnds(t)
  <2>1. count[t] > 0 /\ (count[t] < call[t].len => offset = Len(file))
    BY <1>6 DEF ThrottleEnds, Progress
  <2>2. Return(t, "count", count[t])
    BY <1>6 DEF ThrottleEnds
  <2>3. offset' \in Int /\ offset' <= Len(file) /\ Place + count[t] = offset'
    BY <1>1, <1>3, <1>4
  <2>4. QED
    BY <1>1, <1>3, <2>1, <2>2, <2>3, Gets
<1>7. QED
  BY <1>5, <1>6

\* An iteration of write_locked.
LEMMA WritesOn ==
  ASSUME IInv, LoopOps, Progress, Written, NEW t \in Threads, WriteSome(t)
  PROVE  Atomic!Write(t) \/ UNCHANGED Atomic!vars
<1>1. /\ pc[t] = "writing" /\ UNCHANGED <<call, port>> /\ isOpen /\ config \in Writable
      /\ UNCHANGED <<isOpen, config>> /\ call[t].len \in Int
  BY DEF WriteSome, port, IInv, InsideMethod, Inside, ClientOK, CallSet, NoCall
<1>2. Place \in Nat /\ Calling[t] = call[t] /\ call[t].op = "write"
  BY <1>1, WriterHolds
<1>3. PICK m \in 1..call[t].len :
        /\ offset' = Place + m
        /\ file' = Put(committed, Place, t, 0, m)
        /\ \/ m = call[t].len /\ Return(t, "count", m) /\ committed' = file'
           \/ Hold(t, "writing", m) /\ UNCHANGED committed
  BY WriteGoesOn
<1>4. m \in Nat /\ offset' \in Int /\ Place = offset' - m
  BY <1>1, <1>2, <1>3
<1>5. CASE Hold(t, "writing", m) /\ UNCHANGED committed
  BY <1>1, <1>4, <1>5, LoopUnseen DEF Inside
<1>6. CASE m = call[t].len /\ Return(t, "count", m) /\ committed' = file'
  <2>1. Atomic!Tell(t, "count", m) /\ Place' = Place + m
    BY <1>1, <1>3, <1>4, <1>6, ReturnTells
  <2>2. Atomic!Overwritten(t, m) = Put(committed, Place, t, 0, m)
    BY <1>2, <1>4, PutByContract
  <2>3. Calling[t].op = "write" /\ Calling[t].len = m
    BY <1>2, <1>6
  <2>4. Atomic!Puts(t, Calling[t].len)
    <3>1. committed' = Atomic!Overwritten(t, Calling[t].len)
      BY <1>3, <1>6, <2>2, <2>3 DEF Atomic!Overwritten
    <3>2. QED
      BY <1>1, <2>1, <2>3, <3>1 DEF Atomic!Puts, Place, Calling
  <2>5. Atomic!Tell(t, "count", Calling[t].len)
    BY <2>1, <2>3 DEF Atomic!Tell, Atomic!NoCall, NoCall, Calling, Told
  <2>6. Atomic!Write(t)
    BY <1>1, <2>3, <2>4, <2>5 DEF Atomic!Write, Calling
  <2>7. QED
    BY <2>6
<1>7. QED
  BY <1>3, <1>5, <1>6

\* The other ways out of a write.
LEMMA WritesStop ==
  ASSUME IInv, LoopOps, Progress, Written, NEW t \in Threads, WriteThrows(t)
  PROVE  Atomic!WriteFails(t)
<1>1. /\ pc[t] = "writing" /\ UNCHANGED <<call, port, offset>> /\ committed' = file
      /\ UNCHANGED <<isOpen, config>> /\ isOpen /\ config \in Writable
      /\ call[t].len \in Int /\ count[t] < call[t].len /\ offset \in Int
      /\ Return(t, "open_error", 0)
  BY DEF WriteThrows, port, IInv, DiskOK, InsideMethod, Inside, ClientOK, CallSet, NoCall
<1>2. /\ count[t] \in Nat /\ Place \in Nat /\ Place + count[t] = offset
      /\ file = Put(committed, Place, t, 0, count[t])
      /\ Calling[t] = call[t] /\ call[t].op = "write"
  BY <1>1, WriterHolds
<1>3. Atomic!Tell(t, "open_error", 0) /\ Place' = Place + count[t]
  BY <1>1, <1>2, ReturnTells
<1>4. count[t] \in 0..Calling[t].len /\ count[t] < Calling[t].len
  BY <1>1, <1>2
<1>5. committed' = Put(committed, Place, t, 0, count[t])
  BY <1>1, <1>2
<1>6. QED
  BY <1>1, <1>2, <1>3, <1>4, <1>5, WriteThrowsPart

-----------------------------------------------------------------------------
(* The theorem.                                                            *)

LEMMA AtomicStep == ASSUME AInv, [Next]_vars PROVE [Atomic!Next]_Atomic!vars
<1> USE DEF AInv
<1>1. ASSUME NEW t \in Threads,
             \/ Invoke(t) \/ Open(t) \/ Reconnect(t) \/ Close(t)
             \/ IsOpen(t) \/ Flush(t) \/ Available(t) \/ NoTransfer(t)
      PROVE  Atomic!Next
  BY <1>1, InvokeAsksFile, Reopens, Closes, Looks, Counts DEF Atomic!Next
<1>2. ASSUME NEW t \in Threads,
             Read(t) \/ ReadSome(t) \/ ReadEnd(t) \/ ReadFails(t) \/ ThrottleEnds(t)
      PROVE  [Atomic!Next]_Atomic!vars
  BY <1>2, Starts, ReadsOn, ReadsEnd, ReadsStop DEF Atomic!Next
<1>3. ASSUME NEW t \in Threads, Write(t) \/ WriteSome(t) \/ WriteThrows(t)
      PROVE  [Atomic!Next]_Atomic!vars
  BY <1>3, Starts, WritesOn, WritesStop DEF Atomic!Next
<1>4. CASE UNCHANGED vars
  BY <1>4 DEF vars, client, lock, port, disk, bytes, Moved, Atomic!vars
<1>5. QED
  BY <1>1, <1>2, <1>3, <1>4, NextSplit DEF QuietStep

\* Each read and each write of a file_port is a single step on the file,
\* although it is a loop of system calls that move what they like: for any
\* threads, lengths, files and configurations.
THEOREM FileIsAtomic == Spec => FileAtomic
<1>1. Init => LoopOps /\ Progress /\ Written /\ Fresh
  BY DEF Init, LoopOps, Progress, Written, Fresh, Inside
<1>2. Init => Atomic!Init
  <2>1. SUFFICES ASSUME Init PROVE Atomic!Init
    OBVIOUS
  <2>2. IInv /\ mutex = NoThread /\ offset = 0
    BY <2>1, InitIInv DEF Init
  <2>3. committed = file /\ Place = 0 /\ committed \in Seq(Bytes)
    BY <1>1, <2>1, <2>2, NoHolder DEF IInv, HistoryOK
  <2>4. /\ Calling = [t \in Threads |-> NoCall]
        /\ Told = [t \in Threads |-> [ret |-> "none", count |-> 0]]
    BY <2>1 DEF Init, Calling, Told
  <2>5. QED
    BY <2>1, <2>3, <2>4 DEF Init, Atomic!Init, Atomic!NoCall, Atomic!NoAnswer, NoCall,
       Place, Calling, Told
<1>3. IInv /\ LoopOps /\ Progress /\ Written /\ Fresh /\ [Next]_vars
        => LoopOps' /\ Progress' /\ Written' /\ Fresh'
  BY LoopOpsStep, ProgressStep, WrittenStep, FreshStep
<1>4. IInv /\ LoopOps /\ Progress /\ Written /\ Fresh /\ [Next]_vars
        => [Atomic!Next]_Atomic!vars
  BY AtomicStep DEF AInv
<1>5. QED
  BY <1>1, <1>2, <1>3, <1>4, Invariance, PTL DEF Spec, FileAtomic, Atomic!Spec

=============================================================================
