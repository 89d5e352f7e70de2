------------------------- MODULE MCWebSocketSession -------------------------
(* Instances of WebSocketSession for TLC: lengths up to 3 fit one byte, up  *)
(* to 5 two bytes; a payload may have 7 bytes, a command 2 at least.       *)
EXTENDS WebSocketSession

Data(n, r) == [opcode |-> "data", payload |-> n, reply |-> r]

\* Both sides of every limit.
Accepted == {Data(2, 3), Data(3, 8), Data(4, 4), Data(7, 6)}
Bad == {Data(0, 0), Data(1, 0), Data(5, 0), Data(9, 0),
        [opcode |-> "close", payload |-> 0, reply |-> 0],
        [opcode |-> "other", payload |-> 0, reply |-> 0]}
AllFrames == Accepted \cup Bad
=============================================================================
