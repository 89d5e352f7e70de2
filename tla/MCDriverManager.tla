-------------------------- MODULE MCDriverManager --------------------------
(* An instance of DriverManager for TLC: two sessions, and dependencies in   *)
(* the shape of the boards' drivers, with a circle.                        *)
EXTENDS DriverManager

CONSTANTS s1, s2, common, clock, dac, app

TwoSessions == {s1, s2}
FourDrivers == {common, clock, dac, app}

\* The converter and the application need each other, and both need the clock:
\* a dependency that two share, and a circle found when a session asks for it.
SharedAndCircular ==
  [d \in FourDrivers |->
     CASE d \in {common, clock} -> <<>>
       [] d = dac -> <<clock, app>>
       [] d = app -> <<clock, dac>>]
=============================================================================
