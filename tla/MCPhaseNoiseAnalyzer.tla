----------------------- MODULE MCPhaseNoiseAnalyzer -----------------------
(* An instance of PhaseNoiseAnalyzer for TLC.                              *)
EXTENDS PhaseNoiseAnalyzer
TwoUsers == {Analyzer, Session}
TwoChannels == {0, 1}
OneRate == {4}
=============================================================================
