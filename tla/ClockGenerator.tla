--------------------------- MODULE ClockGenerator ---------------------------
(***************************************************************************)
(* The clock generator of the ALPHA250 board (boards/alpha250/drivers/     *)
(* clock-generator.hpp), whose operations are called by the sessions       *)
(* through its own driver, by Common::init through the driver Common, and  *)
(* by constructors of drivers (Dds, PhaseNoiseAnalyzer) that the driver    *)
(* manager starts: under different mutexes.  Its members are plain memory. *)
(*                                                                         *)
(* A configuration stands for its array of parameters and the frequency    *)
(* that follows from it; Torn is an array of which one thread reads one    *)
(* part before and one part after another thread writes it.                *)
(***************************************************************************)
EXTENDS I2cBus

CONSTANTS Configs,    \* clock_cfg::configs, by their index
          DefaultCfg, \* the index of fs_250MHz
          Clkins, TCXO_CLOCK,
          Torn

\* The arguments of configure; CLKIN_SELECT comes with the member itself, None.
Targets == [mode : {"CFG_ALL", "CLKIN_SELECT", "SAMPLING_FREQ_SET"},
            clkin : Clkins, cfg : Configs \cup {None}]

ASSUME ClockAssumption ==
  /\ DefaultCfg \in Configs /\ TCXO_CLOCK \in Clkins
  /\ {None, Torn} \cap (Configs \cup Clkins) = {} /\ None \notin Targets \cup {Torn}

VARIABLES
  clkin, clk_cfg, fs_selected, fs_adc,  \* members; fs_dac goes with fs_adc
  hw_clkin, hw_cfg,  \* what the registers of the generator hold (not the phase of the
                     \* clock of the FPGA)
  target,            \* per thread: the arguments of its configure, or None
  params,            \* per thread: the parameters it has read from clk_cfg
  overlapped         \* history: a configure overlapped another, and no CFG_ALL came since

members == <<clkin, clk_cfg, fs_selected, fs_adc>>
hardware == <<hw_clkin, hw_cfg>>
clockVars == <<members, hardware, target, params, overlapped>>

\* driver_manager.init has called Common::init.
ClockInit ==
  /\ clkin = TCXO_CLOCK /\ clk_cfg = DefaultCfg /\ fs_selected = None /\ fs_adc = DefaultCfg
  /\ hw_clkin = TCXO_CLOCK /\ hw_cfg = DefaultCfg
  /\ target = [t \in Threads |-> None] /\ params = [t \in Threads |-> None]
  /\ overlapped = FALSE

-----------------------------------------------------------------------------
(* The calls.  An operation that calls another has its steps. *)

Read(s, r) == [op |-> "read", slave |-> s, reg |-> r]
Write(s, r) == [op |-> "write", slave |-> s, reg |-> r]

\* ClockGenerator::init: the potentiometer gets what was read, or what was in the
\* array when nothing was.
InitSteps == <<Read("eeprom", "clock"), Write("tcxo", "wiper"), [op |-> "init"]>>

\* ClockGenerator::init, then one read for those of Ltc2157::init and
\* PrecisionDac::init; what these do on the SPI bus with it locked does not meet the
\* clock generator.
CommonInit ==
  [driver |-> "Common", steps |-> Append(InitSteps, Read("eeprom", "adc"))]

SetTcxoCalibration ==
  [driver |-> "ClockGenerator",
   steps |-> <<Write("tcxo", "wiper"), Write("eeprom", "clock")>>]

SetReferenceClock(c) ==
  [driver |-> "ClockGenerator", steps |-> <<[op |-> "reference", arg |-> c]>>]

SetSamplingFrequency(i) ==
  [driver |-> "ClockGenerator", steps |-> <<[op |-> "frequency", arg |-> i]>>]

\* Of the two monitors, which are read alike, one.
GetSuppliesUI ==
  [driver |-> "PowerMonitor",
   steps |-> <<Read("monitor", "shunt"), Read("monitor", "bus")>>]

-----------------------------------------------------------------------------
(* configure *)

Configuring == {t \in Threads : target[t] # None}

\* configure is entered.  A CFG_ALL that runs alone sets everything again.
Start(t, mode, c, i) ==
  /\ target' = [target EXCEPT ![t] = [mode |-> mode, clkin |-> c, cfg |-> i]]
  /\ at' = [at EXCEPT ![t] = "assign"]
  /\ overlapped' = (Configuring # {} \/ (overlapped /\ mode # "CFG_ALL"))
  /\ UNCHANGED <<call, todo, members, hardware, params>>

Skip(t) == NextStep(t) /\ UNCHANGED clockVars

\* What is selected is left alone, what does not exist refused.  set_reference_clock
\* passes the member clk_cfg itself.
Decide(t) ==
  LET step == Head(todo[t])
  IN /\ call[t] # None /\ at[t] = "step" /\ UNCHANGED <<local, bus>>
     /\ \/ step.op = "init" /\ Start(t, "CFG_ALL", TCXO_CLOCK, DefaultCfg)
        \/ step.op = "reference" /\ step.arg \in Clkins \ {clkin}
             /\ Start(t, "CLKIN_SELECT", step.arg, None)
        \/ step.op = "frequency" /\ step.arg \in Configs \ {fs_selected}
             /\ Start(t, "SAMPLING_FREQ_SET", clkin, step.arg)
        \/ step.op = "reference" /\ step.arg \notin Clkins \ {clkin} /\ Skip(t)
        \/ step.op = "frequency" /\ step.arg \notin Configs \ {fs_selected} /\ Skip(t)

\* clkin and clk_cfg are assigned.  While the array is copied it is neither the old
\* nor the new one.  The member copied to itself keeps, undoes or tears what
\* another thread writes meanwhile.
Assign(t) ==
  /\ \/ /\ at[t] = "assign"
        /\ clkin' = target[t].clkin
        /\ clk_cfg' = IF target[t].cfg \in {None, clk_cfg} THEN clk_cfg ELSE Torn
        /\ params' = [params EXCEPT ![t] = clk_cfg]
        /\ at' = [at EXCEPT ![t] = "assigning"]
     \/ /\ at[t] = "assigning"
        /\ \/ target[t].cfg # None /\ clk_cfg' = target[t].cfg
           \/ /\ target[t].cfg = None
              /\ clk_cfg' \in IF clk_cfg = params[t] THEN {clk_cfg}
                             ELSE {clk_cfg, params[t], Torn}
        /\ at' = [at EXCEPT ![t] = "dividers"]
        /\ UNCHANGED <<clkin, params>>
  /\ UNCHANGED <<call, todo, local, bus, fs_selected, fs_adc, hardware, target, overlapped>>

\* The dividers are read from the member, later the parameters of the PLL.
ReadDividers(t) ==
  /\ at[t] = "dividers"
  /\ params' = [params EXCEPT ![t] = clk_cfg]
  /\ at' = [at EXCEPT ![t] = "pll"]
  /\ UNCHANGED <<call, todo, local, bus, members, hardware, target, overlapped>>

\* configure returns; fs_selected is assigned if it succeeded.
Return(t, succeeded) ==
  /\ fs_selected' = IF succeeded /\ target[t].mode = "SAMPLING_FREQ_SET" THEN target[t].cfg
                    ELSE fs_selected
  /\ target' = [target EXCEPT ![t] = None] /\ params' = [params EXCEPT ![t] = None]
  /\ NextStep(t)

\* The frequencies are computed, and checked.  Those of a configuration are in range,
\* those of a torn one may be: too late for the members.
ReadPll(t) ==
  LET cfg == IF clk_cfg = params[t] THEN clk_cfg ELSE Torn
  IN /\ at[t] = "pll"
     /\ UNCHANGED <<local, bus, clkin, clk_cfg, hardware, overlapped>>
     /\ \/ /\ fs_adc' = cfg
           /\ params' = [params EXCEPT ![t] = cfg]
           /\ at' = [at EXCEPT ![t] = "program"]
           /\ UNCHANGED <<call, todo, fs_selected, target>>
        \/ cfg = Torn /\ fs_adc' \in {fs_adc, Torn} /\ Return(t, FALSE)

\* Bug variant of ProgramGenerator: a change of the reference clock is not programmed.
ProgramDividersOnly(t) ==
  /\ at[t] = "program"
  /\ hw_cfg' = IF target[t].mode = "CLKIN_SELECT" THEN hw_cfg ELSE params[t]
  /\ Return(t, TRUE)
  /\ UNCHANGED <<local, bus, clkin, clk_cfg, fs_adc, hw_clkin, overlapped>>

\* Between spi_cfg.lock() and unlock().  The phase_shift that follows moves the phase of
\* the clock of the FPGA on from where it is: what a configuration leaves it at depends on
\* all those before, so it is no part of hw_cfg.
ProgramGenerator(t) ==
  /\ at[t] = "program"
  /\ hw_cfg' = IF target[t].mode = "CLKIN_SELECT" THEN hw_cfg ELSE params[t]
  /\ hw_clkin' = IF target[t].mode = "SAMPLING_FREQ_SET" THEN hw_clkin ELSE target[t].clkin
  /\ Return(t, TRUE)
  /\ UNCHANGED <<local, bus, clkin, clk_cfg, fs_adc, overlapped>>

Configure(t) == Assign(t) \/ ReadDividers(t) \/ ReadPll(t) \/ ProgramGenerator(t)

-----------------------------------------------------------------------------
Init == BusInit /\ ClockInit

Next ==
  \/ BusNext /\ UNCHANGED clockVars
  \/ \E t \in Threads : Decide(t) \/ Configure(t)

vars == <<busVars, clockVars>>

Spec == Init /\ [][Next]_vars

-----------------------------------------------------------------------------
(* Properties *)

\* When no configure is under way, the members tell what the generator was
\* programmed with, unless two of them overlapped since the last CFG_ALL: all
\* the operations together keep cached and real configuration the same.  The
\* frequency that counts as selected is the programmed one, or init came after it.
MembersMatchHardware ==
  Configuring = {} /\ ~overlapped =>
    /\ clkin = hw_clkin /\ clk_cfg = hw_cfg /\ fs_adc = hw_cfg
    /\ hw_cfg \in {fs_selected, DefaultCfg}
=============================================================================
