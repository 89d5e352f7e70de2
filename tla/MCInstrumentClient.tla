------------------------- MODULE MCInstrumentClient -------------------------
(* An instance of InstrumentClient: the default and one other instrument,   *)
(* which is the firmware of the client, if it has one.                       *)
EXTENDS InstrumentClient
CONSTANTS led_blinker, pulse, v1

TwoNames == {led_blinker, pulse}
OneVersion == {v1}
PulseOrNone == {pulse, None}
=============================================================================
