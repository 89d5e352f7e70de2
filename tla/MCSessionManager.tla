-------------------------- MODULE MCSessionManager --------------------------
(* Instance of SessionManager for TLC: three connections and main.         *)
EXTENDS SessionManager, TLC

CONSTANTS c1, c2, c3

MCSessions == {c1, c2, c3}
Symmetry == Permutations(MCSessions)

\* Every call has been made and answered: the behaviour may stop here.
Quiescent ==
  /\ \A s \in Sessions : step[s] = "deleted"
  /\ step[Main] = "comm_exited"
  /\ UNCHANGED smVars

MCSpec == SMInit /\ [][SMNext \/ Quiescent]_smVars
=============================================================================
