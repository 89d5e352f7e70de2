-------------------------- MODULE MCKoheronServer --------------------------
(* Instances of KoheronServer for TLC.                                     *)
EXTENDS KoheronServer, TLC

CONSTANTS c1, c2, c3

TwoConnections == {c1, c2}
Symmetry == Permutations(Sessions)

\* One TCP channel with a single worker.
OneWorker == <<1>>
\* TCP with one worker, WebSocket with two, the third channel disabled.
MixedWorkers == <<1, 2, 0>>
=============================================================================
