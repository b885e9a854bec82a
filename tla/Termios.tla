------------------------------- MODULE Termios -------------------------------
(***************************************************************************)
(* uart_port::apply_termios_config (src/uart/uart_port.cpp) on a tty whose *)
(* settings outlive the port that made them, and that other programs set   *)
(* too.  UartPort takes the whole of it for the step TermiosApplied, which *)
(* puts a configuration in effect; here is why it is in effect.            *)
(*                                                                         *)
(* A struct termios is a record: the speed, the character size, the set of *)
(* the flags that are on, VMIN and VTIME.                                  *)
(***************************************************************************)
EXTENDS Integers

CONSTANTS
  Configs,    \* uart_configs that the port is opened with
  Bauds,      \* baud_rate enumerators
  Speeds,     \* those the platform has a speed_t for
  Foreign,    \* settings that other programs make
  NoConfig    \* the settings in effect are not the port's

DataBits == 5..8
Parities == {"NONE", "ODD", "EVEN"}
StopBits == 1..2
FlowControls == {"NONE", "HARDWARE", "SOFTWARE"}

UartConfigs == [baud : Bauds, data : DataBits, par : Parities, stop : StopBits,
                flow : FlowControls, read_timeout_ms : Int]

\* The flags that the code touches, and one for all that cfmakeraw clears
\* besides IXON and PARENB.
Flags == {"PARENB", "PARODD", "CSTOPB", "CRTSCTS", "IXON", "IXOFF", "IXANY",
          "CREAD", "CLOCAL", "COOKED"}

CcT == 256

Settings == [speed : Bauds, csize : DataBits, flags : SUBSET Flags,
             vmin : 0..(CcT - 1), vtime : 0..(CcT - 1)]

ASSUME TermiosAssumption ==
  /\ Configs \subseteq UartConfigs
  /\ Speeds \subseteq Bauds
  /\ Foreign \subseteq Settings
  /\ NoConfig \notin Configs

-----------------------------------------------------------------------------
(* From a configuration to settings.                                       *)

\* cfmakeraw.
Raw(flags) == flags \ {"COOKED", "IXON", "PARENB"}

\* Mutant: EVEN leaves PARODD as it was.
WithParityKeepsOdd(flags, par) ==
  IF par = "NONE" THEN flags \ {"PARENB"}
  ELSE IF par = "ODD" THEN flags \cup {"PARENB", "PARODD"}
  ELSE flags \cup {"PARENB"}

WithParity(flags, par) ==
  IF par = "NONE" THEN flags \ {"PARENB"}
  ELSE IF par = "ODD" THEN flags \cup {"PARENB", "PARODD"}
  ELSE (flags \cup {"PARENB"}) \ {"PARODD"}

WithStop(flags, stop) ==
  IF stop = 2 THEN flags \cup {"CSTOPB"} ELSE flags \ {"CSTOPB"}

WithFlow(flags, flow) ==
  IF flow = "NONE" THEN flags \ {"CRTSCTS", "IXON", "IXOFF", "IXANY"}
  ELSE IF flow = "HARDWARE"
       THEN (flags \cup {"CRTSCTS"}) \ {"IXON", "IXOFF", "IXANY"}
       ELSE (flags \ {"CRTSCTS"}) \cup {"IXON", "IXOFF"}

VMin(ms) == IF ms = 0 THEN 1 ELSE 0

\* The quotient of C, which truncates towards zero.
Quotient(a, b) == IF a >= 0 THEN a \div b ELSE -((-a) \div b)

\* Mutant: no cast to the 8 bits of a cc_t.
VTimeWide(ms) == IF ms = 0 THEN 0 ELSE Quotient(ms + 99, 100)

\* Mutant: rounded down.
VTimeDown(ms) == IF ms = 0 THEN 0 ELSE Quotient(ms, 100) % CcT

\* static_cast<cc_t>((read_timeout_ms + 99) / 100).
VTime(ms) == IF ms = 0 THEN 0 ELSE Quotient(ms + 99, 100) % CcT

\* What apply_termios_config makes of the settings s it found.
Configured(c, s) ==
  [speed |-> c.baud,
   csize |-> c.data,
   flags |-> WithFlow(WithStop(WithParity(Raw(s.flags), c.par), c.stop), c.flow)
             \cup {"CREAD", "CLOCAL"},
   vmin  |-> VMin(c.read_timeout_ms),
   vtime |-> VTime(c.read_timeout_ms)]

-----------------------------------------------------------------------------
(* The tty.                                                                *)

VARIABLES
  tty,      \* settings in effect
  seen,     \* what tcgetattr returned to the port
  config,   \* config_ while it is being applied, else NoConfig
  applied   \* history: the configuration that made tty, or NoConfig

vars == <<tty, seen, config, applied>>

TypeOK ==
  /\ tty \in Settings
  /\ seen \in Settings
  /\ config \in Configs \cup {NoConfig}
  /\ applied \in Configs \cup {NoConfig}

Init ==
  /\ tty \in Foreign
  /\ seen = tty
  /\ config = NoConfig
  /\ applied = NoConfig

\* tcgetattr.
Get ==
  /\ config = NoConfig
  /\ config' \in Configs
  /\ seen' = tty
  /\ UNCHANGED <<tty, applied>>

\* tcsetattr with the settings computed from those that were seen.
Set ==
  /\ config # NoConfig
  /\ config.baud \in Speeds
  /\ tty' = Configured(config, seen)
  /\ applied' = config
  /\ config' = NoConfig
  /\ UNCHANGED seen

\* baud_to_speed throws; or a call fails, as on a device that was unplugged.
Throw ==
  /\ config # NoConfig
  /\ config' = NoConfig
  /\ UNCHANGED <<tty, seen, applied>>

\* Another program sets the tty, at any time.
OtherProgram ==
  /\ tty' \in Foreign
  /\ applied' = NoConfig
  /\ UNCHANGED <<seen, config>>

Next == Get \/ Set \/ Throw \/ OtherProgram

Spec == Init /\ [][Next]_vars

-----------------------------------------------------------------------------
(* From settings to what the line does.                                    *)

Parity(s) ==
  IF "PARENB" \notin s.flags THEN "NONE"
  ELSE IF "PARODD" \in s.flags THEN "ODD" ELSE "EVEN"

Flow(s) ==
  IF "CRTSCTS" \in s.flags THEN "HARDWARE"
  ELSE IF {"IXON", "IXOFF"} \cap s.flags # {} THEN "SOFTWARE" ELSE "NONE"

\* A line that frames characters, and handshakes, as configuration c asks,
\* and passes bytes on as they are.
Frames(s, c) ==
  /\ s.speed = c.baud
  /\ s.csize = c.data
  /\ Parity(s) = c.par
  /\ "CSTOPB" \in s.flags <=> c.stop = 2
  /\ Flow(s) = c.flow
  /\ {"CREAD", "CLOCAL"} \subseteq s.flags
  /\ "COOKED" \notin s.flags

\* The settings in effect are those the last configuration asks for, whatever
\* earlier configurations and other programs left in the tty, and whatever
\* changed between tcgetattr and tcsetattr.
FramingFollowsConfig == applied # NoConfig => Frames(tty, applied)

Blocks(s) == s.vmin = 1
WaitMs(s) == 100 * s.vtime

\* The longest timeout that an 8-bit VTIME holds.
MaxTimeout == 100 * (CcT - 1)

\* A read waits for a byte, or for the timeout and no more than a tenth of a
\* second longer, as far as VTIME can say so.
TimeoutFollowsConfig ==
  applied # NoConfig =>
    LET ms == applied.read_timeout_ms IN
    /\ ms = 0 <=> Blocks(tty)
    /\ ms \in 1..MaxTimeout => ms <= WaitMs(tty) /\ WaitMs(tty) < ms + 100

\* The comment at VTIME: "round up to ensure the requested timeout".
TimeoutKept ==
  applied # NoConfig /\ applied.read_timeout_ms > 0
    => WaitMs(tty) >= applied.read_timeout_ms

=============================================================================
