---------------------------- MODULE TermiosProofs ----------------------------
(***************************************************************************)
(* What apply_termios_config puts in effect, for any configurations, any   *)
(* timeout and any settings that other programs leave.                     *)
(***************************************************************************)
EXTENDS Termios, TLAPS

IInv == TypeOK /\ FramingFollowsConfig /\ TimeoutFollowsConfig

-----------------------------------------------------------------------------
(* Lemmas about the operators.                                             *)

\* VTIME holds a timeout of up to 25.5 s, rounded up to tenths of a second;
\* a longer one, or a negative one, comes out as some 8-bit value.
LEMMA VTimeRoundsUp ==
  ASSUME NEW ms \in Int
  PROVE  /\ VTime(ms) \in 0..(CcT - 1)
         /\ ms \in 1..MaxTimeout => ms <= 100 * VTime(ms) /\ 100 * VTime(ms) < ms + 100
<1> DEFINE q == Quotient(ms + 99, 100)
<1>1. q \in Int
  <2>1. CASE ms + 99 >= 0
    BY <2>1 DEF Quotient
  <2>2. CASE ~(ms + 99 >= 0)
    <3>1. q = -((-(ms + 99)) \div 100) /\ -(ms + 99) \in Int
      BY <2>2 DEF Quotient
    <3>2. (-(ms + 99)) \div 100 \in Int
      BY <3>1
    <3>3. QED
      BY <3>1, <3>2
  <2>3. QED
    BY <2>1, <2>2
<1>2. ms \in 1..MaxTimeout => q \in 1..255 /\ ms <= 100 * q /\ 100 * q < ms + 100
  BY SMTT(30) DEF Quotient, MaxTimeout, CcT
<1>3. VTime(ms) = IF ms = 0 THEN 0 ELSE q % 256
  BY DEF VTime, CcT
<1> HIDE DEF q
<1>4. q % 256 \in 0..255
  BY <1>1
<1>5. q \in 1..255 => q % 256 = q
  OBVIOUS
<1>6. VTime(ms) \in 0..(CcT - 1)
  BY <1>3, <1>4 DEF CcT
<1>7. ASSUME ms \in 1..MaxTimeout PROVE ms <= 100 * VTime(ms) /\ 100 * VTime(ms) < ms + 100
  <2>1. VTime(ms) = q
    <3>1. ms # 0
      BY <1>7
    <3>2. q % 256 = q
      BY <1>2, <1>5, <1>7
    <3>3. QED
      BY <1>3, <3>1, <3>2
  <2>2. QED
    BY <1>2, <1>7, <2>1
<1>8. QED
  BY <1>6, <1>7

\* Whatever flags were on before, those of the frame are the configuration's.
LEMMA FlagsOf ==
  ASSUME NEW c \in UartConfigs, NEW s \in Settings
  PROVE  LET f == Configured(c, s).flags IN
         /\ f \subseteq Flags
         /\ "PARENB" \in f <=> c.par # "NONE"
         /\ c.par # "NONE" => ("PARODD" \in f <=> c.par = "ODD")
         /\ "CSTOPB" \in f <=> c.stop = 2
         /\ "CRTSCTS" \in f <=> c.flow = "HARDWARE"
         /\ {"IXON", "IXOFF"} \cap f # {} <=> c.flow = "SOFTWARE"
         /\ {"CREAD", "CLOCAL"} \subseteq f
         /\ "COOKED" \notin f
<1> USE DEF UartConfigs, Settings, Flags, Parities, FlowControls
<1> DEFINE r == Raw(s.flags)
<1> DEFINE p == WithParity(r, c.par)
<1> DEFINE t == WithStop(p, c.stop)
<1> DEFINE w == WithFlow(t, c.flow)
<1>1. r \subseteq Flags /\ {"PARENB", "IXON", "COOKED"} \cap r = {}
  BY DEF Raw
<1> HIDE DEF r
<1>2. /\ p \subseteq Flags /\ {"IXON", "COOKED"} \cap p = {}
      /\ "PARENB" \in p <=> c.par # "NONE"
      /\ c.par # "NONE" => ("PARODD" \in p <=> c.par = "ODD")
  BY <1>1 DEF WithParity
<1> HIDE DEF p
<1>3. /\ t \subseteq Flags /\ {"IXON", "COOKED"} \cap t = {}
      /\ "PARENB" \in t <=> c.par # "NONE"
      /\ c.par # "NONE" => ("PARODD" \in t <=> c.par = "ODD")
      /\ "CSTOPB" \in t <=> c.stop = 2
  BY <1>2 DEF WithStop
<1> HIDE DEF t
<1>4. /\ w \subseteq Flags /\ "COOKED" \notin w
      /\ "PARENB" \in w <=> c.par # "NONE"
      /\ c.par # "NONE" => ("PARODD" \in w <=> c.par = "ODD")
      /\ "CSTOPB" \in w <=> c.stop = 2
      /\ "CRTSCTS" \in w <=> c.flow = "HARDWARE"
      /\ {"IXON", "IXOFF"} \cap w # {} <=> c.flow = "SOFTWARE"
  BY <1>3 DEF WithFlow
<1> HIDE DEF w
<1>5. Configured(c, s).flags = w \cup {"CREAD", "CLOCAL"}
  BY DEF Configured, w, t, p, r
<1>6. QED
  BY <1>4, <1>5

\* What the port makes of any settings is what the configuration asks for.
LEMMA ConfiguredFrames ==
  ASSUME NEW c \in UartConfigs, NEW s \in Settings
  PROVE  Configured(c, s) \in Settings /\ Frames(Configured(c, s), c)
<1> DEFINE f == Configured(c, s)
<1>1. f = [speed |-> c.baud, csize |-> c.data, flags |-> f.flags,
           vmin |-> VMin(c.read_timeout_ms), vtime |-> VTime(c.read_timeout_ms)]
  BY DEF Configured
<1>2. /\ VMin(c.read_timeout_ms) \in 0..(CcT - 1)
      /\ VTime(c.read_timeout_ms) \in 0..(CcT - 1)
  BY VTimeRoundsUp DEF UartConfigs, VMin, CcT
<1>3. f.flags \subseteq Flags
  BY FlagsOf
<1>4. f \in Settings
  BY <1>1, <1>2, <1>3 DEF Settings, UartConfigs
<1>5. f.speed = c.baud /\ f.csize = c.data
  BY <1>1
<1>6. Parity(f) = c.par
  BY FlagsOf DEF Parity, UartConfigs, Parities
<1>7. Flow(f) = c.flow
  BY FlagsOf DEF Flow, UartConfigs, FlowControls
<1>8. QED
  BY <1>4, <1>5, <1>6, <1>7, FlagsOf DEF Frames

LEMMA ConfiguredTimes ==
  ASSUME NEW c \in UartConfigs, NEW s \in Settings
  PROVE  LET ms == c.read_timeout_ms
             f  == Configured(c, s) IN
         /\ ms = 0 <=> Blocks(f)
         /\ ms \in 1..MaxTimeout => ms <= WaitMs(f) /\ WaitMs(f) < ms + 100
<1>1. c.read_timeout_ms \in Int
  BY DEF UartConfigs
<1>2. QED
  BY <1>1, VTimeRoundsUp DEF Configured, Blocks, WaitMs, VMin

-----------------------------------------------------------------------------
(* The theorems.                                                           *)

LEMMA StepIInv == IInv /\ [Next]_vars => IInv'
<1> SUFFICES ASSUME IInv, [Next]_vars PROVE IInv'
  OBVIOUS
<1> USE TermiosAssumption DEF IInv, TypeOK, FramingFollowsConfig, TimeoutFollowsConfig
<1>1. CASE Set
  <2>1. config \in UartConfigs /\ config \in Configs
    BY <1>1 DEF Set
  <2>2. tty' = Configured(config, seen) /\ applied' = config
        /\ config' = NoConfig /\ UNCHANGED seen
    BY <1>1 DEF Set
  <2>3. tty' \in Settings /\ Frames(tty', config)
    BY <2>1, <2>2, ConfiguredFrames
  <2>4. LET ms == config.read_timeout_ms IN
        /\ ms = 0 <=> Blocks(tty')
        /\ ms \in 1..MaxTimeout => ms <= WaitMs(tty') /\ WaitMs(tty') < ms + 100
    BY <2>1, <2>2, ConfiguredTimes
  <2>5. FramingFollowsConfig'
    BY <2>2, <2>3
  <2>6. TimeoutFollowsConfig'
    BY <2>2, <2>4
  <2>7. QED
    BY <2>1, <2>2, <2>3, <2>5, <2>6
<1>2. CASE Get \/ Throw \/ OtherProgram \/ UNCHANGED vars
  BY <1>2 DEF Get, Throw, OtherProgram, vars
<1>3. QED
  BY <1>1, <1>2 DEF Next

\* What is in effect is what was applied last.
THEOREM Invariance == Spec => []IInv
<1>1. Init => IInv
  BY TermiosAssumption DEF Init, IInv, TypeOK, FramingFollowsConfig, TimeoutFollowsConfig
<1>2. QED
  BY <1>1, StepIInv, PTL DEF Spec

\* Every variable keeps its type: VMIN and VTIME fit a cc_t.
THEOREM TypeCorrect == Spec => []TypeOK
<1>1. IInv => TypeOK
  BY DEF IInv
<1>2. QED
  BY <1>1, Invariance, PTL

\* The frame on the line is the configuration's, whatever was there before.
THEOREM FramingFollows == Spec => []FramingFollowsConfig
<1>1. IInv => FramingFollowsConfig
  BY DEF IInv
<1>2. QED
  BY <1>1, Invariance, PTL

\* Up to 25.5 s the driver waits for as long as the configuration asks.
THEOREM TimeoutFollows == Spec => []TimeoutFollowsConfig
<1>1. IInv => TimeoutFollowsConfig
  BY DEF IInv
<1>2. QED
  BY <1>1, Invariance, PTL

\* Beyond 25.5 s the driver never waits for as long as the configuration asks:
\* the bound of the next theorem is the best one.
LEMMA LongTimeoutsCut ==
  ASSUME NEW c \in UartConfigs, NEW s \in Settings, c.read_timeout_ms > MaxTimeout
  PROVE  WaitMs(Configured(c, s)) < c.read_timeout_ms
<1>1. c.read_timeout_ms \in Int /\ VTime(c.read_timeout_ms) \in 0..(CcT - 1)
  BY VTimeRoundsUp DEF UartConfigs
<1>2. Configured(c, s).vtime = VTime(c.read_timeout_ms)
  BY DEF Configured
<1>3. QED
  BY <1>1, <1>2 DEF WaitMs, MaxTimeout, CcT

\* The comment at VTIME is right about every configuration whose timeout is at
\* most 25.5 s, as all of the factories' are.
THEOREM TimeoutIsKept ==
  ASSUME \A c \in Configs : c.read_timeout_ms <= MaxTimeout
  PROVE  Spec => []TimeoutKept
<1>1. IInv => TimeoutKept
  <2>1. SUFFICES ASSUME IInv, applied # NoConfig, applied.read_timeout_ms > 0
                 PROVE  WaitMs(tty) >= applied.read_timeout_ms
    BY DEF TimeoutKept
  <2>2. /\ applied \in Configs /\ applied.read_timeout_ms \in Int
        /\ applied.read_timeout_ms <= MaxTimeout
    BY <2>1, TermiosAssumption DEF IInv, TypeOK, UartConfigs
  <2>3. applied.read_timeout_ms \in 1..MaxTimeout
    <3>1. PICK ms \in Int : ms = applied.read_timeout_ms
      BY <2>2
    <3>2. ms > 0 /\ ms <= MaxTimeout /\ MaxTimeout \in Int
      BY <2>1, <2>2, <3>1 DEF MaxTimeout, CcT
    <3>3. QED
      BY <3>1, <3>2
  <2>4. applied.read_timeout_ms <= WaitMs(tty) /\ tty.vtime \in Int
    BY <2>1, <2>3 DEF IInv, TimeoutFollowsConfig, TypeOK, Settings
  <2>5. QED
    BY <2>2, <2>4 DEF WaitMs
<1>2. QED
  BY <1>1, Invariance, PTL

=============================================================================
