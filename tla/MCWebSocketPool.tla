-------------------------- MODULE MCWebSocketPool --------------------------
(* An instance of WebSocketPool for TLC.                                    *)
EXTENDS WebSocketPool
CONSTANTS load, read1, read2, write

FourRequests == {load, read1, read2, write}
ThreeReads == {load, read1, read2}
=============================================================================
