------------------------------ MODULE MCTermios ------------------------------
(***************************************************************************)
(* Instances of Termios for TLC.                                           *)
(***************************************************************************)
EXTENDS Termios

CONSTANTS b9600, b115200, b4000000

\* Every framing with the speed and the timeout of gnss_default, and every
\* timeout with 8N1 at a speed that the platform has or has not.
Timeouts == {0, 1, 100, 250, 25500, 25600, 25700}

SomeConfigs ==
  {c \in [baud : {b9600, b4000000}, data : DataBits, par : Parities, stop : StopBits,
          flow : FlowControls, read_timeout_ms : Timeouts] :
     \/ c.read_timeout_ms = 100 /\ c.baud = b9600
     \/ c.par = "NONE" /\ c.stop = 1 /\ c.flow = "NONE" /\ c.data = 8}

\* A console, and what a program with another protocol leaves.
SomeForeign ==
  {[speed |-> b115200, csize |-> 8,
    flags |-> {"COOKED", "IXON", "CREAD"}, vmin |-> 1, vtime |-> 0],
   [speed |-> b9600, csize |-> 7,
    flags |-> {"PARENB", "PARODD", "CSTOPB", "CRTSCTS", "IXANY", "CREAD", "CLOCAL"},
    vmin |-> 0, vtime |-> 5]}
=============================================================================
