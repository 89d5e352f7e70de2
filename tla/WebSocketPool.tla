--------------------------- MODULE WebSocketPool ---------------------------
(***************************************************************************)
(* The pool of WebSockets of the TypeScript client and the requests that   *)
(* share it (web/koheron.ts, WebSocketPool and Client).  JavaScript runs a *)
(* task to its end, so an action is a task: an event of a socket, a timer, *)
(* a call of the application.  Only the function of a request runs inside  *)
(* another task (handling), and may itself ask or exit.                    *)
(*                                                                         *)
(* The variable websocket of the constructor belongs to the constructor,   *)
(* not to the loop: the closures of all the sockets see the last one.      *)
(***************************************************************************)
EXTENDS Integers, SequencesExt

CONSTANTS PoolSize,
          Requests,  \* calls of Client.send and of Client.readXXX
          Reads,     \* those that have an answer
          LoadCmds,  \* the read of Client.loadCmds, which comes first
          None

ASSUME PoolAssumption ==
  /\ PoolSize \in Nat \ {0}
  /\ LoadCmds \in Reads /\ Reads \subseteq Requests
  /\ None \notin Requests /\ None \notin Nat

Sockets == 0 .. PoolSize - 1
LastSocket == PoolSize - 1

VARIABLES
  ready,          \* readyState of pool[k]
  opening,        \* where the onopen of pool[k] stands
  freeSockets,    \* stack of identifiers
  socketCounter,
  exiting,
  pc, sock,       \* per request: where it stands, the identifier it was given
  onmessage,      \* pool[k].onmessage: the request whose function it calls
  inflight,       \* the commands sent on pool[k] whose answer, if any, is to come
  handling,       \* the socket whose onmessage is calling a request's function
  lost,           \* sockets whose function threw before freeSocket
  got             \* per request: the one whose answer it was called with

conn == <<ready, opening, socketCounter, exiting>>
vars == <<ready, opening, freeSockets, socketCounter, exiting, pc, sock,
          onmessage, inflight, handling, lost, got>>

Init ==
  /\ ready = [k \in Sockets |-> "connecting"]
  /\ opening = [k \in Sockets |-> "connecting"]
  /\ freeSockets = <<>> /\ socketCounter = 0 /\ exiting = FALSE
  /\ pc = [r \in Requests |-> "idle"] /\ sock = [r \in Requests |-> None]
  /\ onmessage = [k \in Sockets |-> None] /\ inflight = [k \in Sockets |-> <<>>]
  /\ handling = None /\ lost = {} /\ got = [r \in Requests |-> None]

-----------------------------------------------------------------------------
(* Requests *)

\* Bug variant of Send: a read gives its socket back once the command is sent.
SendAndFree(r, k, free) ==
  /\ inflight' = [inflight EXCEPT ![k] = Append(@, r)]
  /\ onmessage' = [onmessage EXCEPT ![k] = IF r \in Reads THEN r ELSE @]
  /\ pc' = [pc EXCEPT ![r] = IF r \in Reads THEN "sent" ELSE "done"]
  /\ sock' = [sock EXCEPT ![r] = None]
  /\ freeSockets' = Append(free, k)

\* The callback of requestSocket in Client._readBase and Client.send.
Send(r, k, free) ==
  /\ inflight' = [inflight EXCEPT ![k] = Append(@, r)]
  /\ \/ /\ r \in Reads
        /\ onmessage' = [onmessage EXCEPT ![k] = r]
        /\ pc' = [pc EXCEPT ![r] = "sent"] /\ sock' = [sock EXCEPT ![r] = k]
        /\ freeSockets' = free
     \/ /\ r \notin Reads
        /\ pc' = [pc EXCEPT ![r] = "done"] /\ sock' = [sock EXCEPT ![r] = None]
        /\ freeSockets' = Append(free, k)
        /\ UNCHANGED onmessage

\* Bug variant of RequestSocket: the identifier is not popped.
RequestSocketPeek(r, free) ==
  /\ pc' = [pc EXCEPT ![r] = IF free = <<>> THEN "retry" ELSE "polling"]
  /\ sock' = [sock EXCEPT ![r] = IF free = <<>> THEN None ELSE Last(free)]
  /\ freeSockets' = free
  /\ UNCHANGED <<onmessage, inflight>>

\* requestSocket, where free is freeSockets.  The identifier is popped before its
\* socket is known to be open.
RequestSocket(r, free) ==
  \/ /\ exiting
     /\ pc' = [pc EXCEPT ![r] = "failed"] /\ freeSockets' = free
     /\ UNCHANGED <<sock, onmessage, inflight>>
  \/ /\ ~exiting /\ free = <<>>
     /\ pc' = [pc EXCEPT ![r] = "retry"] /\ freeSockets' = free
     /\ UNCHANGED <<sock, onmessage, inflight>>
  \/ /\ ~exiting /\ free # <<>> /\ ready'[Last(free)] = "open"
     /\ Send(r, Last(free), Front(free))
  \/ /\ ~exiting /\ free # <<>> /\ ready'[Last(free)] # "open"
     /\ pc' = [pc EXCEPT ![r] = "polling"] /\ sock' = [sock EXCEPT ![r] = Last(free)]
     /\ freeSockets' = Front(free)
     /\ UNCHANGED <<onmessage, inflight>>

\* The application gets its drivers, and asks anything, once loadCmds is done.
Ask(r) ==
  /\ pc[r] = "idle" /\ r # LoadCmds /\ pc[LoadCmds] = "done"
  /\ UNCHANGED <<conn, handling, lost, got>>
  /\ RequestSocket(r, freeSockets)

\* The timer of a request that found no free socket.
Retry(r) ==
  /\ handling = None /\ pc[r] = "retry" /\ (exiting \/ freeSockets # <<>>)
  /\ UNCHANGED <<conn, handling, lost, got>>
  /\ RequestSocket(r, freeSockets)

\* waitForConnection on the socket of a request.  It is never open when exiting.
Poll(r) ==
  /\ handling = None /\ pc[r] = "polling" /\ ready[sock[r]] = "open"
  /\ Send(r, sock[r], freeSockets)
  /\ UNCHANGED <<conn, handling, lost, got>>

-----------------------------------------------------------------------------
(* Events of the sockets *)

\* The callback of waitForConnection in the constructor.
AddSocket(k) ==
  /\ opening' = [opening EXCEPT ![k] = "added"]
  /\ socketCounter' = socketCounter + 1
  /\ \/ socketCounter = 0 /\ RequestSocket(LoadCmds, Append(freeSockets, socketCounter))
     \/ /\ socketCounter > 0
        /\ freeSockets' = Append(freeSockets, socketCounter)
        /\ UNCHANGED <<pc, sock, onmessage, inflight>>

Open(k) ==
  /\ handling = None /\ ready[k] = "connecting"
  /\ ready' = [ready EXCEPT ![k] = "open"]
  /\ \/ ready'[LastSocket] = "open" /\ AddSocket(k)
     \/ /\ ready'[LastSocket] # "open"
        /\ opening' = [opening EXCEPT ![k] = "waiting"]
        /\ UNCHANGED <<freeSockets, socketCounter, pc, sock, onmessage, inflight>>
  /\ UNCHANGED <<exiting, handling, lost, got>>

\* The timer of an onopen that waits for the last socket.
WaitForLast(k) ==
  /\ handling = None /\ opening[k] = "waiting" /\ ready[LastSocket] = "open"
  /\ UNCHANGED <<ready, exiting, handling, lost, got>>
  /\ AddSocket(k)

\* The server executes the next command; its answer, if it has one, is a message.
Deliver(k) ==
  LET command == Head(inflight[k])
      reader == onmessage[k]
  IN /\ handling = None /\ ready[k] = "open" /\ inflight[k] # <<>>
     /\ inflight' = [inflight EXCEPT ![k] = Tail(@)]
     /\ \/ /\ command \in Reads /\ reader # None
           /\ handling' = k
           /\ got' = [got EXCEPT ![reader] = command]
           /\ pc' = [pc EXCEPT ![reader] = "done"]
           /\ sock' = [sock EXCEPT ![reader] = None]
        \/ /\ command \notin Reads \/ reader = None
           /\ UNCHANGED <<handling, got, pc, sock>>
     /\ UNCHANGED <<conn, freeSockets, onmessage, lost>>

\* Bug variant of FreeSocket: the socket is not given back.
KeepSocket ==
  /\ handling # None /\ handling' = None
  /\ UNCHANGED <<conn, freeSockets, pc, sock, onmessage, inflight, lost, got>>

\* The function returns: freeSocket, which refuses an identifier that is free.
FreeSocket ==
  /\ handling # None /\ handling' = None
  /\ freeSockets' = IF exiting \/ handling \in Range(freeSockets) THEN freeSockets
                    ELSE Append(freeSockets, handling)
  /\ UNCHANGED <<conn, pc, sock, onmessage, inflight, lost, got>>

\* It throws, and freeSocket is not reached.
Throw ==
  /\ handling # None /\ handling' = None
  /\ lost' = lost \cup {handling}
  /\ UNCHANGED <<conn, freeSockets, pc, sock, onmessage, inflight, got>>

\* The server or the network ends a connection, which may not be open yet.
Close(k) ==
  /\ handling = None /\ ready[k] # "closed"
  /\ ready' = [ready EXCEPT ![k] = "closed"]
  /\ inflight' = [inflight EXCEPT ![k] = <<>>]
  /\ UNCHANGED <<opening, socketCounter, exiting, freeSockets, pc, sock, onmessage,
                 handling, lost, got>>

\* Client.exit.  A socket that is closing delivers nothing any more.
Exit ==
  /\ ~exiting /\ exiting' = TRUE
  /\ freeSockets' = <<>> /\ socketCounter' = 0
  /\ ready' = [k \in Sockets |-> "closed"]
  /\ inflight' = [k \in Sockets |-> <<>>]
  /\ UNCHANGED <<opening, pc, sock, onmessage, handling, lost, got>>

\* The onclose of the last socket, set by the first that is added, loads the
\* page again.
Reload ==
  /\ handling = None /\ ready[LastSocket] = "closed" /\ pc[LoadCmds] # "idle"
  /\ ready' = [k \in Sockets |-> "connecting"]
  /\ opening' = [k \in Sockets |-> "connecting"]
  /\ freeSockets' = <<>> /\ socketCounter' = 0 /\ exiting' = FALSE
  /\ pc' = [r \in Requests |-> "idle"] /\ sock' = [r \in Requests |-> None]
  /\ onmessage' = [k \in Sockets |-> None] /\ inflight' = [k \in Sockets |-> <<>>]
  /\ handling' = None /\ lost' = {} /\ got' = [r \in Requests |-> None]

-----------------------------------------------------------------------------
Next ==
  \/ \E r \in Requests : Ask(r) \/ Retry(r) \/ Poll(r)
  \/ \E k \in Sockets : Open(k) \/ WaitForLast(k) \/ Deliver(k) \/ Close(k)
  \/ FreeSocket \/ Throw \/ Exit \/ Reload

\* Timers fire, the server answers and functions return.
Fairness ==
  /\ \A r \in Requests : WF_vars(Retry(r)) /\ WF_vars(Poll(r))
  /\ \A k \in Sockets : WF_vars(Open(k)) /\ WF_vars(WaitForLast(k)) /\ WF_vars(Deliver(k))
  /\ WF_vars(FreeSocket)

Spec == Init /\ [][Next]_vars
FairSpec == Spec /\ Fairness

-----------------------------------------------------------------------------
(* Properties *)

TypeOK ==
  /\ ready \in [Sockets -> {"connecting", "open", "closed"}]
  /\ opening \in [Sockets -> {"connecting", "waiting", "added"}]
  /\ freeSockets \in Seq(Sockets) /\ socketCounter \in 0 .. PoolSize
  /\ exiting \in BOOLEAN
  /\ pc \in [Requests -> {"idle", "retry", "polling", "sent", "done", "failed"}]
  /\ sock \in [Requests -> Sockets \cup {None}]
  /\ onmessage \in [Sockets -> Reads \cup {None}]
  /\ inflight \in [Sockets -> Seq(Requests)]
  /\ handling \in Sockets \cup {None} /\ lost \subseteq Sockets
  /\ got \in [Requests -> Reads \cup {None}]

Holders == {r \in Requests : pc[r] \in {"polling", "sent"}}
InUse == {sock[r] : r \in Holders} \cup ({handling} \ {None})

\* Every variable keeps its type.  Every identifier given out so far is free, in use by one request, or lost to a
\* function that threw, and never two of these: no two requests share a socket,
\* whatever sockets close and in whatever order they opened.
SocketsAccountedFor ==
  /\ TypeOK
  /\ ~exiting =>
       /\ IsInjective(freeSockets)
       /\ \A r, q \in Holders : sock[r] = sock[q] => r = q
       /\ \A r \in Holders : sock[r] # handling
       /\ Range(freeSockets) \cap InUse = {}
       /\ lost \cap (Range(freeSockets) \cup InUse) = {}
       /\ Range(freeSockets) \cup InUse \cup lost = 0 .. socketCounter - 1

\* A function is called with the answer to its own command.  A read whose command
\* is on its way is the one its socket will call, although void commands of others
\* may be on their way before it.
AnswersReachTheirRequest ==
  /\ \A r \in Reads : pc[r] = "done" => got[r] = r
  /\ \A k \in Sockets : \A i \in DOMAIN inflight[k] :
        inflight[k][i] \in Reads => /\ onmessage[k] = inflight[k][i]
                                    /\ i = Len(inflight[k])

Healthy == ~exiting /\ lost = {} /\ \A k \in Sockets : ready[k] # "closed"

\* As long as no socket is closed, the client does not exit and no function
\* throws, the commands of the server are loaded and every request gets a socket
\* and its answer, in whatever order the sockets open.
RequestsReturn ==
  []Healthy => /\ <>(pc[LoadCmds] = "done")
               /\ \A r \in Requests : pc[r] # "idle" ~> pc[r] = "done"
=============================================================================
