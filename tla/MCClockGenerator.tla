------------------------- MODULE MCClockGenerator -------------------------
(* An instance of ClockGenerator for TLC.                                    *)
EXTENDS ClockGenerator, TLC
CONSTANTS t1, t2

TwoThreads == {t1, t2}
Symmetry == Permutations(Threads)
TwoConfigs == {0, 1}
\* EXT_CLOCK and TCXO_CLOCK.
TwoClocks == {0, 2}
BoardSlaves == {"eeprom", "tcxo", "monitor"}
BoardRegisters == {"clock", "adc", "wiper", "shunt", "bus"}
OneEeprom == {"eeprom"}

BoardCalls == {CommonInit, SetTcxoCalibration, SetReferenceClock(0),
               SetSamplingFrequency(0), GetSuppliesUI}
=============================================================================
