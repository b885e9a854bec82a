-------------------------- MODULE PortObjectsProofs --------------------------
(***************************************************************************)
(* Safety of PortObjects for any number of threads, objects and            *)
(* descriptors.                                                            *)
(***************************************************************************)
EXTENDS PortObjects, TLAPS

\* What keeps the objects that a thread is working with.
Keeping ==
  \A t \in Threads :
    /\ pc[t] # "idle" => work[t] \in Works
    /\ pc[t] \in {"called", "blocked", "closing", "leaving"} => pinned[t] = work[t].port
    /\ pc[t] \in {"idle", "assigning", "half"} => pinned[t] = NoPort
    /\ pc[t] \in {"assigning", "half"} => Pair(t) \subseteq owns[t] /\ work[t].op = "assign"

\* Who holds which mutex.
Locking ==
  /\ \A t \in Threads, p \in Ports :
       mutex[p] = t => \/ pc[t] = "blocked" /\ p = work[t].port
                       \/ pc[t] = "half" /\ p \in Pair(t)
  /\ \A t \in Threads, p, q \in Ports : mutex[p] = t /\ mutex[q] = t => p = q
  /\ \A t \in Threads :
       /\ pc[t] = "blocked" => mutex[work[t].port] = t
       /\ pc[t] = "half" => \E p \in Pair(t) : mutex[p] = t

IInv == TypeOK /\ Keeping /\ Locking /\ OneOwnerPerFd

LEMMA InitIInv == Init => IInv
BY ObjectsAssumption DEF Init, IInv, TypeOK, Keeping, Locking, OneOwnerPerFd, Works, NoWork

-----------------------------------------------------------------------------
(* Lemmas about the operators.                                             *)

\* Closing and reopening keep the descriptors owned, and other components'.
LEMMA ReopenOwned ==
  ASSUME TypeOK, OneOwnerPerFd, NEW p \in Ports, Reopen(p)
  PROVE  /\ fd' \in [Ports -> Fds \cup {NoFd}]
         /\ fdTable' \in [Fds -> {"free", "tty", "other"}]
         /\ \A q \in Ports : q # p => fd'[q] = fd[q]
         /\ \A n \in Fds : fdTable[n] = "other" => fdTable'[n] = "other"
         /\ life[p] = "alive" /\ UNCHANGED life => OneOwnerPerFd'
<1> USE ObjectsAssumption DEF TypeOK, OneOwnerPerFd, Without
<1>1. CASE CloseIt(p)
  BY <1>1 DEF CloseIt
<1>2. ASSUME NEW n \in Fds, Without(p)[n] = "free",
             fdTable' = [Without(p) EXCEPT ![n] = "tty"],
             fd' = [fd EXCEPT ![p] = n]
      PROVE  /\ fd' \in [Ports -> Fds \cup {NoFd}]
             /\ fdTable' \in [Fds -> {"free", "tty", "other"}]
             /\ \A q \in Ports : q # p => fd'[q] = fd[q]
             /\ \A m \in Fds : fdTable[m] = "other" => fdTable'[m] = "other"
             /\ life[p] = "alive" /\ UNCHANGED life => OneOwnerPerFd'
  <2>1. \A m \in Fds : fdTable'[m] = IF m = n THEN "tty" ELSE IF m = fd[p] THEN "free"
                                     ELSE fdTable[m]
    BY <1>2
  <2>2. \A q \in Ports : fd'[q] = IF q = p THEN n ELSE fd[q]
    BY <1>2
  <2>3. \A q \in Ports : q # p => fd[q] # n
    BY <1>2
  <2>4. \A m \in Fds : fdTable[m] = "other" => m # n /\ m # fd[p]
    BY <1>2
  <2>5. /\ fd' \in [Ports -> Fds \cup {NoFd}]
        /\ fdTable' \in [Fds -> {"free", "tty", "other"}]
    BY <1>2
  <2>6. ASSUME life[p] = "alive", UNCHANGED life PROVE OneOwnerPerFd'
    BY <2>1, <2>2, <2>3, <2>6
  <2>7. QED
    BY <2>1, <2>2, <2>4, <2>5, <2>6
<1>3. QED
  BY <1>1, <1>2 DEF Reopen

\* The last shared_ptr is gone: the object is destroyed, its descriptor closed.
LEMMA DestroyOwned ==
  ASSUME TypeOK, OneOwnerPerFd, NEW p \in Ports, Destroy(p)
  PROVE  /\ OneOwnerPerFd'
         /\ fd' = [fd EXCEPT ![p] = NoFd]
         /\ life' = [life EXCEPT ![p] = "gone"]
         /\ fdTable' \in [Fds -> {"free", "tty", "other"}]
         /\ \A n \in Fds : fdTable[n] = "other" => fdTable'[n] = "other"
BY ObjectsAssumption DEF TypeOK, OneOwnerPerFd, Without, Destroy, CloseIt

\* A move hands the descriptor on: nobody else has it.
LEMMA TakesOwned ==
  ASSUME TypeOK, OneOwnerPerFd, NEW p \in Ports, NEW q \in Ports, p # q, Takes(p, q),
         fdTable' = Without(p), life'[p] = "alive",
         \A r \in Ports : life[r] = "alive" => life'[r] = "alive"
  PROVE  /\ OneOwnerPerFd'
         /\ fd' \in [Ports -> Fds \cup {NoFd}]
         /\ fdTable' \in [Fds -> {"free", "tty", "other"}]
         /\ \A n \in Fds : fdTable[n] = "other" => fdTable'[n] = "other"
BY ObjectsAssumption DEF TypeOK, OneOwnerPerFd, Without, Takes

-----------------------------------------------------------------------------
(* The invariant.                                                          *)

\* The steps inside a port that replace its descriptor.
Reopens(t) == Initialize(t) \/ Reconnect(t) \/ Reconfigure(t) \/ ShutdownCloses(t)

LEMMA ReopensEffect ==
  ASSUME IInv, NEW t \in Threads, Reopens(t)
  PROVE  /\ pc[t] \in {"called", "closing"} /\ pc' = [pc EXCEPT ![t] = "leaving"]
         /\ mutex[work[t].port] = NoThread
         /\ work[t].port \in Ports /\ life[work[t].port] = "alive"
         /\ Reopen(work[t].port) \/ UNCHANGED <<fd, fdTable>>
         /\ UNCHANGED <<refs, mutex, work>>
<1>1. work[t].port \in Ports /\ pinned[t] = work[t].port
  BY DEF IInv, Keeping, Reopens, Initialize, Reconnect, Reconfigure, ShutdownCloses, Enters,
     Works
<1>2. QED
  BY <1>1, ObjectsAssumption DEF IInv, TypeOK, Reopens, Initialize, Reconnect, Reconfigure,
     ShutdownCloses, Enters, Goes, Reopen

\* The steps of a call that leave the ports and the shared_ptrs alone.
Walks(t) == ShutdownAsks(t) \/ Query(t)

LEMMA NextSplit ==
  [Next]_vars =>
    \/ \E t \in Threads :
         \/ Create(t) \/ Share(t) \/ Forget(t) \/ Call(t) \/ Leave(t) \/ Reopens(t)
         \/ Walks(t) \/ Transfer(t) \/ TransferEnds(t)
         \/ MoveConstruct(t) \/ Assign(t) \/ LockOne(t) \/ BackOff(t) \/ MoveAssign(t)
    \/ OtherDescriptor
    \/ UNCHANGED vars
BY DEF Next, ThreadStep, Lifetime, Wrapped, Moves, Reopens, Walks

\* Whoever destroys an object is the only one to have it in hand.
LEMMA ForgetEffect ==
  ASSUME IInv, NEW t \in Threads, Forget(t)
  PROVE  \E p \in owns[t] :
           /\ pc[t] = "idle" /\ UNCHANGED <<pinned, mutex, pc, work>>
           /\ owns' = [owns EXCEPT ![t] = @ \ {p}]
           /\ \/ /\ Destroy(p)
                 /\ \A u \in Threads : p \notin owns'[u] /\ pinned'[u] # p
              \/ UNCHANGED <<life, fd, fdTable>>
<1>1. PICK p \in owns[t] :
        /\ owns' = [owns EXCEPT ![t] = @ \ {p}]
        /\ \/ OnlyRefOf(t, p) /\ Destroy(p)
           \/ ~OnlyRefOf(t, p) /\ UNCHANGED <<life, fd, fdTable>>
  BY DEF Forget
<1>2. pc[t] = "idle" /\ UNCHANGED <<pinned, mutex, pc, work>> /\ pinned[t] = NoPort
  BY DEF Forget, IInv, Keeping
<1>3. p \in Ports
  BY DEF IInv, TypeOK
<1>4. OnlyRefOf(t, p) => \A u \in Threads : p \notin owns'[u] /\ pinned'[u] # p
  BY <1>1, <1>2, <1>3, ObjectsAssumption DEF OnlyRefOf, IInv, TypeOK
<1>5. QED
  BY <1>1, <1>2, <1>4

LEMMA LeaveEffect ==
  ASSUME IInv, NEW t \in Threads, Leave(t)
  PROVE  LET p == pinned[t] IN
         /\ pc[t] = "leaving" /\ p \in Ports /\ UNCHANGED <<owns, mutex>>
         /\ pinned' = [pinned EXCEPT ![t] = NoPort]
         /\ pc' = [pc EXCEPT ![t] = "idle"] /\ work' = [work EXCEPT ![t] = NoWork]
         /\ \/ /\ Destroy(p)
               /\ \A u \in Threads : p \notin owns'[u] /\ pinned'[u] # p
            \/ UNCHANGED <<life, fd, fdTable>>
<1> DEFINE p == pinned[t]
<1>1. pc[t] = "leaving" /\ p \in Ports /\ UNCHANGED <<owns, mutex>>
      /\ pinned' = [pinned EXCEPT ![t] = NoPort]
  BY DEF Leave, IInv, Keeping, Works
<1>2. OnlyRefOf(t, p) /\ p \notin owns[t]
        => \A u \in Threads : p \notin owns'[u] /\ pinned'[u] # p
  BY <1>1, ObjectsAssumption DEF OnlyRefOf, IInv, TypeOK
<1>3. QED
  BY <1>1, <1>2 DEF Leave, Goes, Done

LEMMA Outside ==
  ASSUME IInv
  PROVE  \A t \in Threads : /\ owns[t] \subseteq Ports
                            /\ \A p \in owns[t] : life[p] = "alive"
                            /\ pinned[t] # NoPort => life[pinned[t]] = "alive"
BY DEF IInv, TypeOK

\* Destroying an object that nobody refers to leaves nobody inside it.
LEMMA DestroyKeepsTypes ==
  ASSUME IInv, NEW p \in Ports, Destroy(p), UNCHANGED mutex,
         \A u \in Threads : p \notin owns'[u] /\ pinned'[u] # p,
         \A u \in Threads : /\ owns'[u] \subseteq owns[u]
                            /\ pinned'[u] \in {pinned[u], NoPort}
                            /\ pc[u] \in {"blocked", "half"} =>
                                 pinned'[u] = pinned[u] /\ owns'[u] = owns[u]
  PROVE  \A q \in Ports : life'[q] # "alive" =>
           /\ fd'[q] = NoFd /\ mutex'[q] = NoThread
           /\ \A u \in Threads : q \notin owns'[u] /\ pinned'[u] # q
<1> USE ObjectsAssumption DEF IInv, TypeOK
<1>1. fd' = [fd EXCEPT ![p] = NoFd] /\ life' = [life EXCEPT ![p] = "gone"]
  BY DestroyOwned
<1>2. mutex[p] = NoThread
  <2>1. SUFFICES ASSUME NEW u \in Threads, mutex[p] = u PROVE FALSE
    OBVIOUS
  <2>2. CASE pc[u] = "blocked" /\ p = work[u].port
    BY <2>2 DEF Keeping
  <2>3. CASE pc[u] = "half" /\ p \in Pair(u)
    BY <2>3 DEF Keeping
  <2>4. QED
    BY <2>1, <2>2, <2>3 DEF Locking
<1>3. QED
  BY <1>1, <1>2
LEMMA TypeStep == IInv /\ [Next]_vars => TypeOK' /\ OneOwnerPerFd'
<1> SUFFICES ASSUME IInv, [Next]_vars PROVE TypeOK' /\ OneOwnerPerFd'
  OBVIOUS
<1> USE ObjectsAssumption DEF IInv, TypeOK, Using
<1>1. ASSUME NEW t \in Threads, Create(t) PROVE TypeOK' /\ OneOwnerPerFd'
  BY <1>1 DEF Create, ports, OneOwnerPerFd
<1>2. ASSUME NEW t \in Threads, Share(t) PROVE TypeOK' /\ OneOwnerPerFd'
  BY <1>2 DEF Share, ports, OneOwnerPerFd
<1>3. ASSUME NEW t \in Threads, Forget(t) PROVE TypeOK' /\ OneOwnerPerFd'
  <2>1. PICK p \in owns[t] :
           /\ pc[t] = "idle" /\ UNCHANGED <<pinned, mutex, pc, work>>
           /\ owns' = [owns EXCEPT ![t] = @ \ {p}]
           /\ \/ /\ Destroy(p)
                 /\ \A u \in Threads : p \notin owns'[u] /\ pinned'[u] # p
              \/ UNCHANGED <<life, fd, fdTable>>
    BY <1>3, ForgetEffect
  <2>2. p \in Ports
    OBVIOUS
  <2>3. CASE UNCHANGED <<life, fd, fdTable>>
    BY <2>1, <2>3 DEF OneOwnerPerFd
  <2>4. CASE Destroy(p) /\ \A u \in Threads : p \notin owns'[u] /\ pinned'[u] # p
    <3>1. /\ OneOwnerPerFd' /\ fd' = [fd EXCEPT ![p] = NoFd]
          /\ life' = [life EXCEPT ![p] = "gone"]
          /\ fdTable' \in [Fds -> {"free", "tty", "other"}]
      BY <2>2, <2>4, DestroyOwned
    <3>2. \A u \in Threads : owns'[u] \subseteq owns[u] /\ (u # t => owns'[u] = owns[u])
      BY <2>1
    <3>3. \A q \in Ports : life'[q] # "alive" =>
            /\ fd'[q] = NoFd /\ mutex'[q] = NoThread
            /\ \A u \in Threads : q \notin owns'[u] /\ pinned'[u] # q
      BY <2>1, <2>2, <2>4, <3>2, DestroyKeepsTypes
    <3>4. QED
      BY <2>1, <3>1, <3>3
  <2>5. QED
    BY <2>1, <2>3, <2>4
<1>4. ASSUME NEW t \in Threads, Call(t) PROVE TypeOK' /\ OneOwnerPerFd'
  <2>1. /\ UNCHANGED <<life, owns, fd, fdTable, mutex>>
        /\ \/ UNCHANGED <<pinned, pc, work>>
           \/ \E op \in Ops, p \in Ports :
                /\ life[p] = "alive" /\ pinned' = [pinned EXCEPT ![t] = p]
                /\ pc' = [pc EXCEPT ![t] = "called"]
                /\ work' = [work EXCEPT ![t] = [op |-> op, port |-> p, from |-> p]]
    BY <1>4 DEF Call, Begins, Goes, ports
  <2>2. CASE UNCHANGED <<pinned, pc, work>>
    BY <2>1, <2>2 DEF OneOwnerPerFd
  <2>3. ASSUME NEW op \in Ops, NEW p \in Ports,
               life[p] = "alive", pinned' = [pinned EXCEPT ![t] = p],
               pc' = [pc EXCEPT ![t] = "called"],
               work' = [work EXCEPT ![t] = [op |-> op, port |-> p, from |-> p]]
        PROVE  TypeOK' /\ OneOwnerPerFd'
    <3>1. /\ pinned' \in [Threads -> Ports \cup {NoPort}]
          /\ pc' \in [Threads -> {"idle", "leaving"} \cup Using]
      BY <2>3 DEF Using
    <3>2. work' \in [Threads -> Works \cup {NoWork}]
      BY <2>3 DEF Works
    <3>3. \A u \in Threads : pinned'[u] \in {pinned[u], p}
      BY <2>3
    <3>4. QED
      BY <2>1, <2>3, <3>1, <3>2, <3>3 DEF OneOwnerPerFd
  <2>4. QED
    BY <2>1, <2>2, <2>3
<1>5. ASSUME NEW t \in Threads, Leave(t) PROVE TypeOK' /\ OneOwnerPerFd'
  <2> DEFINE p == pinned[t]
  <2>1. /\ pc[t] = "leaving" /\ p \in Ports /\ UNCHANGED <<owns, mutex>>
        /\ pinned' = [pinned EXCEPT ![t] = NoPort]
        /\ \/ Destroy(p) /\ \A u \in Threads : p \notin owns'[u] /\ pinned'[u] # p
           \/ UNCHANGED <<life, fd, fdTable>>
    BY <1>5, LeaveEffect
  <2>2. /\ pc' \in [Threads -> {"idle", "leaving"} \cup Using]
        /\ work' \in [Threads -> Works \cup {NoWork}]
    BY <1>5, LeaveEffect
  <2> HIDE DEF p
  <2>3. CASE UNCHANGED <<life, fd, fdTable>>
    <3>1. \A u \in Threads : pinned'[u] \in {pinned[u], NoPort}
      BY <2>1
    <3>2. pinned' \in [Threads -> Ports \cup {NoPort}]
      BY <2>1
    <3>3. QED
      BY <2>1, <2>2, <2>3, <3>1, <3>2 DEF OneOwnerPerFd
  <2>4. CASE Destroy(p) /\ \A u \in Threads : p \notin owns'[u] /\ pinned'[u] # p
    <3>1. /\ OneOwnerPerFd' /\ fd' = [fd EXCEPT ![p] = NoFd]
          /\ life' = [life EXCEPT ![p] = "gone"]
          /\ fdTable' \in [Fds -> {"free", "tty", "other"}]
      BY <2>1, <2>4, DestroyOwned
    <3>2. \A u \in Threads : pinned'[u] \in {pinned[u], NoPort}
                             /\ (u # t => pinned'[u] = pinned[u])
      BY <2>1
    <3>3. \A q \in Ports : life'[q] # "alive" =>
            /\ fd'[q] = NoFd /\ mutex'[q] = NoThread
            /\ \A u \in Threads : q \notin owns'[u] /\ pinned'[u] # q
      BY <2>1, <2>4, <3>2, DestroyKeepsTypes
    <3>4. QED
      BY <2>1, <2>2, <3>1, <3>3
  <2>5. QED
    BY <2>1, <2>3, <2>4
<1>6. ASSUME NEW t \in Threads, Reopens(t) PROVE TypeOK' /\ OneOwnerPerFd'
  <2> DEFINE p == work[t].port
  <2>1. /\ pc' = [pc EXCEPT ![t] = "leaving"]
        /\ p \in Ports /\ life[p] = "alive" /\ UNCHANGED <<refs, mutex, work>>
        /\ Reopen(p) \/ UNCHANGED <<fd, fdTable>>
    BY <1>6, ReopensEffect
  <2>2. CASE Reopen(p)
    <3> HIDE DEF p
    <3>1. /\ fd' \in [Ports -> Fds \cup {NoFd}]
          /\ fdTable' \in [Fds -> {"free", "tty", "other"}]
          /\ \A q \in Ports : q # p => fd'[q] = fd[q]
          /\ OneOwnerPerFd'
      BY <2>1, <2>2, ReopenOwned DEF refs
    <3>2. QED
      BY <2>1, <3>1 DEF refs
  <2>3. CASE UNCHANGED <<fd, fdTable>>
    BY <2>1, <2>3 DEF refs, OneOwnerPerFd
  <2>4. QED
    BY <2>1, <2>2, <2>3
<1>7. ASSUME NEW t \in Threads, Walks(t) PROVE TypeOK' /\ OneOwnerPerFd'
  BY <1>7 DEF Walks, ShutdownAsks, Query, Goes, Done, refs, ports,
     OneOwnerPerFd
<1>8. ASSUME NEW t \in Threads, Transfer(t) \/ TransferEnds(t)
      PROVE  TypeOK' /\ OneOwnerPerFd'
  <2>1. work[t].port \in Ports /\ life[work[t].port] = "alive"
    BY <1>8 DEF Transfer, TransferEnds, Enters, Keeping, Works
  <2>2. QED
    BY <1>8, <2>1 DEF Transfer, TransferEnds, Goes, refs, OneOwnerPerFd
<1>9. ASSUME NEW t \in Threads, MoveConstruct(t) PROVE TypeOK' /\ OneOwnerPerFd'
  <2>1. PICK q \in owns[t], p \in Ports :
          /\ life[p] = "unborn" /\ mutex[q] = NoThread
          /\ life' = [life EXCEPT ![p] = "alive"]
          /\ owns' = [owns EXCEPT ![t] = @ \cup {p}]
          /\ Takes(p, q)
    BY <1>9 DEF MoveConstruct
  <2>2. UNCHANGED <<pinned, mutex, fdTable, pc, work>>
    BY <1>9 DEF MoveConstruct
  <2>3. q \in Ports /\ p # q /\ fdTable' = Without(p) /\ life'[p] = "alive"
    BY <2>1, <2>2 DEF Without
  <2>4. OneOwnerPerFd' /\ fd' \in [Ports -> Fds \cup {NoFd}]
    BY <2>1, <2>3, TakesOwned
  <2>5. \A r \in Ports : r # p /\ r # q => fd'[r] = fd[r]
    BY <2>1 DEF Takes
  <2>6. QED
    BY <2>1, <2>2, <2>3, <2>4, <2>5, ZenonT(60)
<1>10. ASSUME NEW t \in Threads, Assign(t) \/ LockOne(t) \/ BackOff(t)
       PROVE  TypeOK' /\ OneOwnerPerFd'
  <2>1. CASE Assign(t)
    BY <2>1 DEF Assign, Goes, Works, refs, ports, OneOwnerPerFd
  <2>2. CASE LockOne(t)
    BY <2>2 DEF LockOne, Goes, Keeping, refs, OneOwnerPerFd
  <2>3. CASE BackOff(t)
    BY <2>3 DEF BackOff, Goes, refs, OneOwnerPerFd
  <2>4. QED
    BY <1>10, <2>1, <2>2, <2>3
<1>11. ASSUME NEW t \in Threads, MoveAssign(t) PROVE TypeOK' /\ OneOwnerPerFd'
  <2> DEFINE p == work[t].port
  <2> DEFINE q == work[t].from
  <2>1. /\ Takes(p, q) /\ fdTable' = Without(p) /\ UNCHANGED refs
        /\ p \in Ports /\ q \in Ports /\ life[p] = "alive" /\ life[q] = "alive"
    BY <1>11 DEF MoveAssign, Keeping, Pair, Works
  <2>2. p # q
    BY <1>11 DEF MoveAssign, Locking, Pair
  <2> HIDE DEF p, q
  <2>3. /\ OneOwnerPerFd'
        /\ fd' \in [Ports -> Fds \cup {NoFd}]
        /\ fdTable' \in [Fds -> {"free", "tty", "other"}]
    BY <2>1, <2>2, TakesOwned DEF refs
  <2>4. \A r \in Ports : r # p /\ r # q => fd'[r] = fd[r]
    BY <2>1 DEF Takes
  <2>5. /\ mutex' = [r \in Ports |-> IF mutex[r] = t THEN NoThread ELSE mutex[r]]
        /\ pc' = [pc EXCEPT ![t] = "idle"] /\ work' = [work EXCEPT ![t] = NoWork]
    BY <1>11 DEF MoveAssign, Done, Goes
  <2>6. QED
    BY <2>1, <2>3, <2>4, <2>5 DEF refs
<1>12. CASE OtherDescriptor
  BY <1>12 DEF OtherDescriptor, refs, OneOwnerPerFd
<1>13. CASE UNCHANGED vars
  BY <1>13 DEF vars, refs, ports, OneOwnerPerFd
<1>14. QED
  BY <1>1, <1>2, <1>3, <1>4, <1>5, <1>6, <1>7, <1>8, <1>9, <1>10, <1>11, <1>12, <1>13,
     NextSplit

LEMMA KeepingStep == IInv /\ [Next]_vars => Keeping'
<1> SUFFICES ASSUME IInv, [Next]_vars PROVE Keeping'
  OBVIOUS
<1> USE ObjectsAssumption DEF IInv, TypeOK, Keeping, Using
<1>1. ASSUME NEW t \in Threads, Create(t) \/ Share(t) PROVE Keeping'
  BY <1>1 DEF Create, Share, ports, Pair
<1>2. ASSUME NEW t \in Threads, Forget(t) PROVE Keeping'
  BY <1>2, ForgetEffect DEF Pair
<1>3. ASSUME NEW t \in Threads, Call(t) PROVE Keeping'
  BY <1>3 DEF Call, Begins, Goes, Works, Pair
<1>4. ASSUME NEW t \in Threads, Leave(t) PROVE Keeping'
  BY <1>4, LeaveEffect DEF Pair
<1>5. ASSUME NEW t \in Threads, Reopens(t) PROVE Keeping'
  BY <1>5, ReopensEffect DEF refs, Pair
<1>6. ASSUME NEW t \in Threads, Walks(t) \/ Transfer(t) \/ TransferEnds(t) PROVE Keeping'
  BY <1>6 DEF Walks, ShutdownAsks, Query, Transfer, TransferEnds,
     Enters, Goes, Done, refs, ports, Pair
<1>7. ASSUME NEW t \in Threads, MoveConstruct(t) PROVE Keeping'
  BY <1>7 DEF MoveConstruct, Pair
<1>8. ASSUME NEW t \in Threads, Assign(t) PROVE Keeping'
  BY <1>8 DEF Assign, Goes, Works, Ops, refs, Pair
<1>9. ASSUME NEW t \in Threads, LockOne(t) \/ BackOff(t) \/ MoveAssign(t) PROVE Keeping'
  BY <1>9 DEF LockOne, BackOff, MoveAssign, Goes, Done, refs, Pair
<1>10. CASE OtherDescriptor \/ UNCHANGED vars
  BY <1>10 DEF OtherDescriptor, vars, refs, ports, Pair
<1>11. QED
  BY <1>1, <1>2, <1>3, <1>4, <1>5, <1>6, <1>7, <1>8, <1>9, <1>10, NextSplit

LEMMA LockingStep == IInv /\ [Next]_vars => Locking'
<1> SUFFICES ASSUME IInv, [Next]_vars PROVE Locking'
  OBVIOUS
<1> USE ObjectsAssumption DEF IInv, TypeOK, Locking, Using
<1>1. ASSUME NEW t \in Threads,
             Create(t) \/ Share(t) \/ MoveConstruct(t)
      PROVE  Locking'
  BY <1>1 DEF Create, Share, MoveConstruct, ports, Pair
<1>2. ASSUME NEW t \in Threads, Forget(t) PROVE Locking'
  BY <1>2, ForgetEffect DEF Pair
<1>3. ASSUME NEW t \in Threads, Leave(t) PROVE Locking'
  <2>1. /\ pc[t] = "leaving" /\ UNCHANGED mutex
        /\ pc' = [pc EXCEPT ![t] = "idle"] /\ work' = [work EXCEPT ![t] = NoWork]
    BY <1>3, LeaveEffect
  <2>2. pc'[t] = "idle" /\ \A q \in Ports : mutex[q] # t
    BY <2>1
  <2>3. \A u \in Threads : u # t => /\ pc'[u] = pc[u] /\ work'[u] = work[u]
                                   /\ Pair(u)' = Pair(u)
    BY <2>1 DEF Pair
  <2>4. QED
    BY <2>1, <2>2, <2>3
<1>4. ASSUME NEW t \in Threads, Call(t) \/ Assign(t) PROVE Locking'
  <2>1. /\ pc[t] = "idle" /\ UNCHANGED mutex
        /\ pc'[t] \in {"idle", "called", "assigning"}
        /\ \A u \in Threads : u # t => pc'[u] = pc[u] /\ work'[u] = work[u]
    BY <1>4 DEF Call, Begins, Assign, Goes, ports
  <2>2. \A q \in Ports : mutex[q] # t
    BY <2>1
  <2>3. \A u \in Threads : u # t => Pair(u)' = Pair(u)
    BY <2>1 DEF Pair
  <2>4. QED
    BY <2>1, <2>2, <2>3
<1>5. ASSUME NEW t \in Threads, Reopens(t) PROVE Locking'
  BY <1>5, ReopensEffect DEF Pair
<1>6. ASSUME NEW t \in Threads, Walks(t) PROVE Locking'
  BY <1>6 DEF Walks, ShutdownAsks, Query, Enters, Goes, Done,
     refs, ports, Pair
<1>7. ASSUME NEW t \in Threads, Transfer(t) \/ TransferEnds(t) PROVE Locking'
  <2> DEFINE p == work[t].port
  <2>1. p \in Ports /\ UNCHANGED work
        /\ \A u \in Threads : u # t => pc'[u] = pc[u]
    BY <1>7 DEF Transfer, TransferEnds, Enters, Keeping, Works, Goes
  <2>2. \/ pc[t] = "called" /\ pc'[t] = "leaving" /\ UNCHANGED mutex
        \/ /\ pc[t] = "called" /\ pc'[t] = "blocked"
           /\ mutex[p] = NoThread /\ mutex' = [mutex EXCEPT ![p] = t]
        \/ /\ pc[t] = "blocked" /\ pc'[t] = "leaving"
           /\ mutex' = [mutex EXCEPT ![p] = NoThread]
    BY <1>7 DEF Transfer, TransferEnds, Enters, Goes
  <2>3. \A u \in Threads : /\ pc[u] = "blocked" => work[u].port \in Ports
                           /\ pc[u] = "half" => Pair(u) \subseteq Ports
    BY DEF Keeping, Works
  <2>4. \A u \in Threads : Pair(u)' = Pair(u)
    BY <2>1 DEF Pair
  <2>5. CASE pc[t] = "called" /\ pc'[t] = "leaving" /\ UNCHANGED mutex
    BY <2>1, <2>4, <2>5
  <2>6. CASE /\ pc[t] = "called" /\ pc'[t] = "blocked"
             /\ mutex[p] = NoThread /\ mutex' = [mutex EXCEPT ![p] = t]
    BY <2>1, <2>3, <2>4, <2>6
  <2>7. CASE /\ pc[t] = "blocked" /\ pc'[t] = "leaving"
             /\ mutex' = [mutex EXCEPT ![p] = NoThread]
    <3>1. /\ mutex[p] = t /\ mutex'[p] = NoThread
          /\ \A q \in Ports : q # p => mutex'[q] = mutex[q] /\ mutex[q] # t
      BY <2>1, <2>7
    <3>2. \A u \in Threads, q \in Ports : mutex'[q] = u => mutex[q] = u /\ u # t /\ q # p
      BY <3>1
    <3>3. \A u \in Threads \ {t} : /\ pc[u] = "blocked" => work[u].port # p
                                   /\ \A q \in Pair(u) : mutex[q] = u => q # p
      BY <3>1
    <3>4. QED
      BY <2>1, <2>3, <2>4, <2>7, <3>1, <3>2, <3>3
  <2>8. QED
    BY <2>2, <2>5, <2>6, <2>7
<1>8. ASSUME NEW t \in Threads, LockOne(t) PROVE Locking'
  <2>1. Pair(t) \subseteq Ports
    BY <1>8 DEF LockOne, Keeping
  <2>2. QED
    BY <1>8, <2>1 DEF LockOne, Goes, Pair
<1>9. ASSUME NEW t \in Threads, BackOff(t) \/ MoveAssign(t) PROVE Locking'
  <2>1. /\ pc[t] = "half" /\ pc'[t] \notin {"half", "blocked"}
        /\ mutex' = [p \in Ports |-> IF mutex[p] = t THEN NoThread ELSE mutex[p]]
        /\ \A u \in Threads : u # t => pc'[u] = pc[u] /\ work'[u] = work[u]
    BY <1>9 DEF BackOff, MoveAssign, Goes, Done
  <2>2. \A u \in Threads, p \in Ports : mutex'[p] = u <=> u # t /\ mutex[p] = u
    BY <2>1
  <2>3. \A u \in Threads : pc[u] \in {"half", "blocked"} => work[u].port \in Ports
                                                           /\ Pair(u) \subseteq Ports
    BY DEF Keeping, Works, Pair
  <2>4. QED
    BY <2>1, <2>2, <2>3 DEF Pair
<1>10. CASE OtherDescriptor \/ UNCHANGED vars
  BY <1>10 DEF OtherDescriptor, vars, ports, Pair
<1>11. QED
  BY <1>1, <1>2, <1>3, <1>4, <1>5, <1>6, <1>7, <1>8, <1>9, <1>10, NextSplit

-----------------------------------------------------------------------------
(* The theorems.                                                           *)

\* The inductive invariant holds: what a thread works with is kept, and who
\* holds a mutex is working with its port.
THEOREM Invariance == Spec => []IInv
<1>1. IInv /\ [Next]_vars => IInv'
  BY TypeStep, KeepingStep, LockingStep DEF IInv
<1>2. QED
  BY <1>1, InitIInv, PTL DEF Spec

\* Every variable keeps its type, and an object that is not alive has no
\* descriptor, no mutex held and no shared_ptr.
THEOREM TypeCorrect == Spec => []TypeOK
<1>1. IInv => TypeOK
  BY DEF IInv
<1>2. QED
  BY <1>1, Invariance, PTL

\* The shared_ptr of a wrapper's call, or those of a thread that moves objects,
\* outlive every method that is under way.
THEOREM UsesAreAlive == Spec => []NoUseAfterDestruction
<1>1. IInv => NoUseAfterDestruction
  <2> SUFFICES ASSUME IInv, NEW t \in Threads, NEW p \in Touched(t) PROVE life[p] = "alive"
    BY DEF NoUseAfterDestruction
  <2> USE ObjectsAssumption DEF IInv, Keeping
  <2>1. CASE pc[t] \in {"assigning", "half"}
    BY <2>1, Outside DEF Touched
  <2>2. CASE pc[t] \in {"called", "blocked", "closing", "leaving"}
    <3>1. p = work[t].port /\ pinned[t] = p /\ p \in Ports
      BY <2>2 DEF Touched, Using, Works
    <3>2. QED
      BY <3>1, Outside
  <2>3. QED
    BY <2>1, <2>2 DEF Touched, Using
<1>2. QED
  BY <1>1, Invariance, PTL

\* A thread waits for a mutex with none in hand: nobody waits in a circle.
THEOREM NobodyHoldsAndWaits == Spec => []NoHoldAndWait
<1>1. IInv => NoHoldAndWait
  BY DEF IInv, Locking, NoHoldAndWait, Touched, Using
<1>2. QED
  BY <1>1, Invariance, PTL

\* No move, assignment or destructor loses or duplicates a descriptor.
THEOREM FdsOwned == Spec => []OneOwnerPerFd
<1>1. IInv => OneOwnerPerFd
  BY DEF IInv
<1>2. QED
  BY <1>1, Invariance, PTL

\* A step that can free a descriptor frees one that a port had.
LEMMA ClosesItsOwn ==
  IInv /\ [Next]_vars =>
    (pc' # pc \/ owns' # owns
       => \A n \in Fds : fdTable[n] = "other" => fdTable'[n] = "other")
<1> SUFFICES ASSUME IInv, [Next]_vars, pc' # pc \/ owns' # owns,
                    NEW n \in Fds, fdTable[n] = "other"
             PROVE  fdTable'[n] = "other"
  OBVIOUS
<1> USE DEF IInv
<1>1. ASSUME NEW t \in Threads, Forget(t) PROVE fdTable'[n] = "other"
  BY <1>1, ForgetEffect, DestroyOwned DEF TypeOK
<1>2. ASSUME NEW t \in Threads, Leave(t) PROVE fdTable'[n] = "other"
  BY <1>2, LeaveEffect, DestroyOwned
<1>3. ASSUME NEW t \in Threads, Reopens(t) PROVE fdTable'[n] = "other"
  BY <1>3, ReopensEffect, ReopenOwned
<1>4. ASSUME NEW t \in Threads, MoveAssign(t) PROVE fdTable'[n] = "other"
  <2>1. work[t].port \in Ports /\ fdTable' = Without(work[t].port)
    BY <1>4 DEF MoveAssign, Keeping, Works
  <2>2. fd[work[t].port] # n
    BY <2>1, ObjectsAssumption DEF OneOwnerPerFd
  <2>3. QED
    BY <2>1, <2>2 DEF Without
<1>5. ASSUME NEW t \in Threads,
             \/ Create(t) \/ Share(t) \/ Call(t) \/ Walks(t) \/ Transfer(t)
             \/ TransferEnds(t) \/ MoveConstruct(t) \/ Assign(t) \/ LockOne(t) \/ BackOff(t)
      PROVE  fdTable'[n] = "other"
  BY <1>5 DEF Create, Share, Call, Walks, ShutdownAsks, Query,
     Transfer, TransferEnds, MoveConstruct, Assign, LockOne, BackOff, ports
<1>6. ~OtherDescriptor /\ ~UNCHANGED vars
  BY DEF OtherDescriptor, vars, refs
<1>7. QED
  BY <1>1, <1>2, <1>3, <1>4, <1>5, <1>6, NextSplit

THEOREM OthersKeepTheirs == Spec => NeverClosesOthers
<1>1. IInv /\ [Next]_vars =>
        [pc' # pc \/ owns' # owns
           => \A n \in Fds : fdTable[n] = "other" => fdTable'[n] = "other"]_vars
  BY ClosesItsOwn
<1>2. QED
  BY <1>1, Invariance, PTL DEF Spec, NeverClosesOthers

\* Who replaces a descriptor has the mutex, or the only shared_ptr.
LEMMA BlockedKeepsFd ==
  ASSUME IInv, [Next]_vars, NEW t \in Threads, pc[t] = "blocked"
  PROVE  fd'[work[t].port] = fd[work[t].port]
<1> DEFINE p == work[t].port
<1> USE ObjectsAssumption DEF IInv
<1>1. p \in Ports /\ mutex[p] = t /\ mutex[p] # NoThread /\ pinned[t] = p
  BY DEF Keeping, Locking, Works
<1> HIDE DEF p
<1>2. ASSUME NEW u \in Threads, Forget(u) PROVE fd'[p] = fd[p]
  BY <1>1, <1>2, ForgetEffect, DestroyOwned DEF TypeOK
<1>3. ASSUME NEW u \in Threads, Leave(u) PROVE fd'[p] = fd[p]
  <2>1. u # t
    BY <1>3 DEF Leave
  <2>2. PICK q \in Ports : \/ /\ Destroy(q)
                              /\ \A v \in Threads : q \notin owns'[v] /\ pinned'[v] # q
                           \/ UNCHANGED <<life, fd, fdTable>>
    BY <1>3, LeaveEffect
  <2>3. pinned'[t] = p
    BY <1>1, <1>3, <2>1, LeaveEffect DEF TypeOK
  <2>4. QED
    BY <1>1, <2>2, <2>3, DestroyOwned DEF TypeOK
<1>4. ASSUME NEW u \in Threads, Reopens(u) PROVE fd'[p] = fd[p]
  BY <1>1, <1>4, ReopensEffect, ReopenOwned
<1>5. ASSUME NEW u \in Threads, MoveConstruct(u) PROVE fd'[p] = fd[p]
  <2>1. PICK q \in owns[u], r \in Ports :
          life[r] = "unborn" /\ mutex[q] = NoThread /\ Takes(r, q)
    BY <1>5 DEF MoveConstruct
  <2>2. p # q /\ p # r
    BY <1>1, <2>1 DEF TypeOK
  <2>3. QED
    BY <1>1, <2>1, <2>2 DEF Takes, TypeOK
<1>6. ASSUME NEW u \in Threads, MoveAssign(u) PROVE fd'[p] = fd[p]
  <2>1. /\ pc[u] = "half" /\ u # t /\ Pair(u) \subseteq Ports
        /\ \E r \in Pair(u) : mutex[r] = NoThread
        /\ \E r \in Pair(u) : mutex[r] = u
    BY <1>6 DEF MoveAssign, Keeping, Locking, Works, Pair
  <2>2. p \notin Pair(u)
    BY <1>1, <2>1 DEF Pair
  <2>3. Takes(work[u].port, work[u].from)
    BY <1>6 DEF MoveAssign
  <2>4. QED
    BY <1>1, <2>2, <2>3 DEF Takes, Pair, TypeOK
<1>7. ASSUME NEW u \in Threads,
             \/ Create(u) \/ Share(u) \/ Call(u) \/ Walks(u) \/ Transfer(u)
             \/ TransferEnds(u) \/ Assign(u) \/ LockOne(u) \/ BackOff(u)
      PROVE  UNCHANGED fd
  BY <1>7 DEF Create, Share, Call, Walks, ShutdownAsks, Query,
     Transfer, TransferEnds, Assign, LockOne, BackOff, ports
<1>8. CASE OtherDescriptor \/ UNCHANGED vars
  BY <1>8 DEF OtherDescriptor, vars, ports, p
<1>9. QED
  BY <1>2, <1>3, <1>4, <1>5, <1>6, <1>7, <1>8, NextSplit DEF p

\* No other thread closes, moves or replaces a descriptor under a transfer.
THEOREM TransfersUndisturbed == Spec => TransferKeepsFd
<1>1. IInv /\ [Next]_vars =>
        [\A t \in Threads :
           pc[t] = "blocked" => fd'[work[t].port] = fd[work[t].port]]_vars
  BY BlockedKeepsFd
<1>2. QED
  BY <1>1, Invariance, PTL DEF Spec, TransferKeepsFd

=============================================================================
