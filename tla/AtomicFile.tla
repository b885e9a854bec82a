----------------------------- MODULE AtomicFile ------------------------------
(***************************************************************************)
(* What the threads that share a file_port may rely on, of the bytes: each *)
(* call is a single step on the file, although the port makes it out of    *)
(* many system calls, any of which may move fewer bytes than asked, fail,  *)
(* or be interrupted.  IoPort says what they may rely on of the port; this *)
(* module says what they get.  FilePort implements it (FilePort, Atomic).  *)
(***************************************************************************)
EXTENDS Integers, Sequences

CONSTANTS
  Threads,      \* callers of the port
  Configs,      \* configurations that open and reconfigure are given
  Writable,     \* those that record
  Looping,      \* those that replay for ever
  Unset,        \* no configuration
  Bytes,        \* what a file consists of
  MaxTransfer,  \* longest buffer
  IntLimit      \* numbers from here on do not fit an int

Reopening == {"open", "reconfigure", "reconnect"}

Requests ==
  [op  : Reopening \cup {"close", "is_open", "flush", "available", "read", "write"},
   cfg : Configs \cup {Unset},
   len : 0..MaxTransfer]

NoCall == [op |-> "none", cfg |-> Unset, len |-> 0]
NoAnswer == [ret |-> "none", count |-> 0]

VARIABLES
  open,    \* the port can transfer
  config,  \* how it was opened last
  file,    \* the bytes of the file
  place,   \* where the next transfer starts
  asked,   \* the call each thread is making
  told     \* what each thread's last call returned, and how many bytes

vars == <<open, config, file, place, asked, told>>

\* The file holds whatever it held before.
Init ==
  /\ open = FALSE
  /\ config = Unset
  /\ file \in Seq(Bytes)
  /\ place = 0
  /\ asked = [t \in Threads |-> NoCall]
  /\ told = [t \in Threads |-> NoAnswer]

Ask(t) ==
  /\ asked[t] = NoCall
  /\ asked'[t] \in Requests
  /\ asked' = [asked EXCEPT ![t] = asked'[t]]
  /\ told' = [told EXCEPT ![t] = NoAnswer]
  /\ UNCHANGED <<open, config, file, place>>

Tell(t, r, n) ==
  /\ asked' = [asked EXCEPT ![t] = NoCall]
  /\ told' = [told EXCEPT ![t] = [ret |-> r, count |-> n]]

-----------------------------------------------------------------------------
\* Opening starts at the first byte, and empties the file of a recording.
Reopen(t) ==
  /\ asked[t].op \in Reopening
  /\ open' = TRUE
  /\ config' = IF asked[t].op = "reconnect" THEN config ELSE asked[t].cfg
  /\ config' \in Configs
  /\ file' = IF config' \in Writable THEN <<>> ELSE file
  /\ place' = 0
  /\ Tell(t, "true", 0)

\* Nothing that fails to open the port touches the file.
Refuse(t) ==
  /\ asked[t].op \in Reopening
  /\ open' = FALSE
  /\ Tell(t, "open_error", 0)
  /\ UNCHANGED <<config, file, place>>

Close(t) ==
  /\ asked[t].op = "close"
  /\ open' = FALSE
  /\ Tell(t, "done", 0)
  /\ UNCHANGED <<config, file, place>>

\* What a read can get: what is left of the file.  At the end of a looping
\* file the whole of it follows, which a port may count or not: the comments
\* on it disagree (file_port.h:119, file_port.cpp:264).
Left ==
  {Len(file) - place} \cup {n \in {Len(file)} : config \in Looping /\ place = Len(file)}

\* The number is what is left, as long as an int can say so.
Available(t) ==
  /\ asked[t].op = "available"
  /\ \/ Tell(t, "minus1", 0)
     \/ /\ open
        /\ told'[t].count \in Left \/ \E n \in Left : n >= IntLimit
        /\ Tell(t, "count", told'[t].count)
  /\ UNCHANGED <<open, config, file, place>>

Look(t) ==
  /\ \/ asked[t].op \in {"is_open", "flush"} /\ \E r \in {"true", "false"} : Tell(t, r, 0)
     \/ asked[t].op \in {"read", "write"} /\ asked[t].len = 0 /\ Tell(t, "count", 0)
  /\ UNCHANGED <<open, config, file, place>>

-----------------------------------------------------------------------------
\* In loop mode the end of the file is its start.
Rewind(t) ==
  /\ asked[t].op = "read"
  /\ open /\ config \in Looping
  /\ place = Len(file) /\ place' = 0
  /\ UNCHANGED <<open, config, file, asked, told>>

\* The place after the next n bytes.  In loop mode the file may be followed by
\* its start, as often as it takes.
Passes(n) ==
  \/ place + n <= Len(file) /\ place' = place + n
  \/ /\ config \in Looping /\ file # <<>> /\ place + n > Len(file)
     /\ place' = 1 + ((place + n - 1) % Len(file))

\* A read gets the n bytes after the place: all that it asked for, or those up
\* to the end of the file; in loop mode, at least one.
Read(t) ==
  /\ asked[t].op = "read" /\ open
  /\ \E n \in 0..asked[t].len :
       /\ Passes(n)
       /\ n < asked[t].len => place' = Len(file)
       /\ n = 0 => config \notin Looping
       /\ Tell(t, "count", n)
  /\ UNCHANGED <<open, config, file>>

\* A read that fails has passed over some of the bytes, which nobody gets.
ReadFails(t) ==
  /\ asked[t].op = "read"
  /\ \E n \in 0..asked[t].len :
       /\ n > 0 => open
       /\ place + n <= Len(file)
       /\ place' = place + n
  /\ Tell(t, "read_error", 0)
  /\ UNCHANGED <<open, config, file>>

\* The file with the first n bytes of thread t's buffer at the place: over
\* what is there, and past the end.
Overwritten(t, n) ==
  [i \in 1..(IF place + n > Len(file) THEN place + n ELSE Len(file)) |->
     IF i \in (place + 1)..(place + n) THEN [by |-> t, nth |-> i - place] ELSE file[i]]

Puts(t, n) ==
  /\ n > 0 => open /\ config \in Writable
  /\ file' = Overwritten(t, n)
  /\ place' = place + n

\* A write puts its buffer into the file as one piece.
Write(t) ==
  /\ asked[t].op = "write"
  /\ Puts(t, asked[t].len)
  /\ Tell(t, "count", asked[t].len)
  /\ UNCHANGED <<open, config>>

\* A write that fails has put the first bytes of it there, or none.
WriteFails(t) ==
  /\ asked[t].op = "write"
  /\ \E n \in 0..asked[t].len : n < asked[t].len /\ Puts(t, n)
  /\ Tell(t, "open_error", 0)
  /\ UNCHANGED <<open, config>>

-----------------------------------------------------------------------------
Next ==
  \E t \in Threads :
    \/ Ask(t) \/ Reopen(t) \/ Refuse(t) \/ Close(t) \/ Available(t) \/ Look(t)
    \/ Rewind(t) \/ Read(t) \/ ReadFails(t) \/ Write(t) \/ WriteFails(t)

Spec == Init /\ [][Next]_vars

=============================================================================
