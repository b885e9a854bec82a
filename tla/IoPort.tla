------------------------------- MODULE IoPort -------------------------------
(***************************************************************************)
(* What i_io_port promises to the threads that share a port, whatever the  *)
(* channel: calls take effect one after the other, a call that opens the   *)
(* port replaces the configuration or leaves it as it was, and while one   *)
(* is under way nobody is told anything about the port.  The ports         *)
(* implement this specification (UartPort, FilePort and I2cPort, Contract),*)
(* each but for the calls of Exempt on a port that is not open.            *)
(***************************************************************************)
CONSTANTS
  Threads,   \* callers of the port
  Configs,   \* configurations that open and reconfigure are given
  Unset,     \* no configuration
  Nobody,    \* no thread
  Exempt     \* calls that the port answers without keeping the contract
             \* while it is not open; {} in the contract as it is documented

Changes == {"open", "reconfigure", "reconnect"}

Transfers == {"read", "write"}

\* "nothing" is a read or a write of no bytes.
Ops == Changes \cup Transfers
       \cup {"nothing", "close", "is_open", "get_config", "get_fd", "flush",
             "drain", "available"}

Questions == [op : Ops, cfg : Configs \cup {Unset}]

Idle == [op |-> "none", cfg |-> Unset]

VARIABLES
  open,     \* the port can transfer
  changer,  \* the thread that is opening the port
  applied,  \* the configuration of the last call that opened it
  asked,    \* what each thread is asking for
  answer    \* the answer to what each thread asked last: "pending", "true",
            \* "false", "done", "count", "minus1", "error", of get_fd "value",
            \* and of get_config a configuration

vars == <<open, changer, applied, asked, answer>>

Init ==
  /\ open = FALSE
  /\ changer = Nobody
  /\ applied = Unset
  /\ asked = [t \in Threads |-> Idle]
  /\ answer = [t \in Threads |-> "pending"]

Ask(t) ==
  /\ asked[t] = Idle
  /\ asked'[t] \in Questions
  /\ asked' = [asked EXCEPT ![t] = asked'[t]]
  /\ answer' = [answer EXCEPT ![t] = "pending"]
  /\ UNCHANGED <<open, changer, applied>>

Answer(t, a) ==
  /\ asked' = [asked EXCEPT ![t] = Idle]
  /\ answer' = [answer EXCEPT ![t] = a]

\* The port is closed while it is being opened, and busy for everybody else.
Begin(t) ==
  /\ asked[t].op \in Changes
  /\ changer = Nobody
  /\ changer' = t
  /\ open' = FALSE
  /\ UNCHANGED <<applied, asked, answer>>

\* reconnect opens the port with the configuration it had last.
Succeed(t) ==
  /\ asked[t].op \in Changes
  /\ changer \in {Nobody, t}
  /\ changer' = Nobody
  /\ open' = TRUE
  /\ \/ /\ asked[t].op = "reconnect" /\ applied # Unset
        /\ UNCHANGED applied
     \/ /\ asked[t].op # "reconnect" /\ asked[t].cfg \in Configs
        /\ applied' = asked[t].cfg
  /\ Answer(t, "true")

\* A call that fails to open the port may have closed it, no more.
Fail(t) ==
  /\ asked[t].op \in Changes
  /\ changer \in {Nobody, t}
  /\ changer' = Nobody
  /\ open' \in {FALSE, open}
  /\ \/ Answer(t, "error")
     \/ asked[t].op = "reconnect" /\ Answer(t, "false")
  /\ UNCHANGED applied

Close(t) ==
  /\ asked[t].op = "close"
  /\ changer = Nobody
  /\ open' = FALSE
  /\ Answer(t, "done")
  /\ UNCHANGED <<changer, applied>>

\* An answer is true of the port when it is given; a transfer or a count is
\* of an open port, the configuration the one that was applied last (before
\* the first, the answer is undefined).
Query(t) ==
  /\ changer = Nobody
  /\ \/ asked[t].op = "is_open" /\ (open => Answer(t, "true")) /\ (~open => Answer(t, "false"))
     \/ asked[t].op \in {"flush", "drain"} /\ (Answer(t, "false") \/ (open /\ Answer(t, "true")))
     \/ asked[t].op = "available" /\ (Answer(t, "minus1") \/ (open /\ Answer(t, "count")))
     \/ asked[t].op \in Transfers /\ (Answer(t, "error") \/ (open /\ Answer(t, "count")))
     \/ asked[t].op = "get_fd" /\ (Answer(t, "minus1") \/ (open /\ Answer(t, "value")))
     \/ asked[t].op = "get_config" /\ Answer(t, IF applied = Unset THEN answer'[t] ELSE applied)
  /\ UNCHANGED <<open, changer, applied>>

\* A transfer of no bytes need not wait.
Immediate(t) ==
  /\ asked[t].op = "nothing" /\ (Answer(t, "count") \/ Answer(t, "error"))
  /\ UNCHANGED <<open, changer, applied>>

\* Where the port departs from the contract, any answer is possible.
Exempted(t) ==
  /\ asked[t].op \in Exempt /\ ~open
  /\ Answer(t, answer'[t])
  /\ UNCHANGED <<open, changer, applied>>

Next ==
  \E t \in Threads :
    \/ Ask(t) \/ Begin(t) \/ Succeed(t) \/ Fail(t) \/ Close(t)
    \/ Query(t) \/ Immediate(t) \/ Exempted(t)

Spec == Init /\ [][Next]_vars

=============================================================================
