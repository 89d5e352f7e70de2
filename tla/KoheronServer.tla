---------------------------- MODULE KoheronServer ----------------------------
(***************************************************************************)
(* koheron-server as a process (server/core/server.hpp, server.cpp,        *)
(* listening_channel.cpp, Session::run of session.hpp): the main thread    *)
(* that constructs the Server, starts one comm thread per listening        *)
(* channel, waits for an exit request and shuts everything down; the comm  *)
(* threads that accept connections; one detached session thread per        *)
(* accepted connection.  The sessions live in SessionManager.              *)
(*                                                                         *)
(* Channels are numbered in the order the code handles them (TCP,          *)
(* WebSocket, Unix).  A channel whose worker limit is 0 is disabled.       *)
(***************************************************************************)
EXTENDS SessionManager

CONSTANTS NChannels,    \* 3 in the code
          WebSocketCh,  \* the channels that authenticate (init_socket)
          MaxWorkers,   \* config::*_worker_connections, per channel
          FdLimits,     \* how many descriptors the process may have for connections
          DEBUG_KOHERON, \* the build is one with asserts
          DriversMayFail  \* some driver of the instrument cannot be allocated

Channels == 1 .. NChannels

ASSUME ChannelAssumption ==
  /\ NChannels \in Nat \ {0}
  /\ WebSocketCh \subseteq Channels
  /\ MaxWorkers \in [Channels -> Nat]
  /\ FdLimits \subseteq Nat
  /\ DEBUG_KOHERON \in BOOLEAN
  /\ DriversMayFail \in BOOLEAN

Enabled(l) == MaxWorkers[l] > 0

VARIABLES
  main,               \* program point of the main thread
  index,              \* the channel main works on next
  interrupted,        \* SignalHandler::s_interrupted
  exit_all, exit_comm,
  ready_notified,     \* local of Server::run
  listen_fd,          \* per channel: "none", "bound", "listening", "shut"
  is_ready, number_of_threads,
  comm,               \* per channel: program point of comm_thread_call
  comm_fd,            \* per channel: what accept returned, Nobody if < 0
  client, via,        \* per connection: the peer, and the channel it uses
  thread,             \* per connection: program point of session_thread_call
  session,            \* per connection: the session object it runs
  fd_limit            \* what the limit on descriptors leaves for connections

mainVars == <<main, index, interrupted, exit_all, exit_comm, ready_notified>>
chanVars == <<listen_fd, is_ready, number_of_threads, comm, comm_fd>>
connVars == <<client, via, thread, session>>
vars == <<smVars, mainVars, chanVars, connVars, fd_limit>>

Stopped == main \in {"exited", "aborted"}

\* exit_comm and exit_all are atomics without an initial value.
Init ==
  /\ SMInit
  /\ main = "driver_init"
  /\ index = 1
  /\ interrupted = FALSE
  /\ exit_all \in BOOLEAN
  /\ exit_comm \in BOOLEAN
  /\ ready_notified = FALSE
  /\ listen_fd = [l \in Channels |-> "none"]
  /\ is_ready = [l \in Channels |-> FALSE]
  /\ number_of_threads = [l \in Channels |-> -1]
  /\ comm = [l \in Channels |-> "none"]
  /\ comm_fd = [l \in Channels |-> Nobody]
  /\ client = [c \in Sessions |-> "away"]
  /\ via = [c \in Sessions |-> 0]
  /\ thread = [c \in Sessions |-> "none"]
  /\ session = [c \in Sessions |-> Nobody]
  /\ fd_limit \in FdLimits

-----------------------------------------------------------------------------
(* Main thread *)

MainGoto(from, to) == main = from /\ main' = to

\* Server::Server, signal handlers installed: driver_manager.init starts the
\* Common driver and what it depends on; a driver that cannot be allocated
\* sets exit_all, a context that cannot be initialized ends the process.
DriverInit ==
  /\ \/ MainGoto("driver_init", "exited") /\ UNCHANGED exit_all
     \/ MainGoto("driver_init", "store_flags") /\ UNCHANGED exit_all
     \/ /\ MainGoto("driver_init", "store_flags")
        /\ DriversMayFail
        /\ exit_all' = TRUE
  /\ UNCHANGED <<smVars, index, interrupted, exit_comm, ready_notified, chanVars,
                 connVars>>

\* The constructor stores both flags and binds the enabled channels.
BindListeners ==
  /\ exit_comm' = FALSE
  /\ exit_all' = FALSE
  /\ \/ MainGoto("store_flags", "exited") /\ UNCHANGED chanVars
     \/ /\ MainGoto("store_flags", "start")
        /\ listen_fd' = [l \in Channels |-> IF Enabled(l) THEN "bound" ELSE "none"]
        /\ number_of_threads' = [l \in Channels |-> IF Enabled(l) THEN 0 ELSE -1]
        /\ UNCHANGED <<is_ready, comm, comm_fd>>
  /\ UNCHANGED <<smVars, index, interrupted, ready_notified, connVars>>

\* start_listeners_workers: listen() and start the comm thread of the next
\* channel; a failure makes run() return and main() exit.
StartWorker ==
  /\ main = "start"
  /\ index \in Channels
  /\ \/ /\ listen_fd[index] = "none"
        /\ index' = index + 1
        /\ UNCHANGED <<main, chanVars>>
     \/ /\ listen_fd[index] = "bound"
        /\ listen_fd' = [listen_fd EXCEPT ![index] = "listening"]
        /\ comm' = [comm EXCEPT ![index] = "start"]
        /\ index' = index + 1
        /\ UNCHANGED <<main, is_ready, number_of_threads, comm_fd>>
     \/ /\ listen_fd[index] = "bound"
        /\ main' = "exited"
        /\ UNCHANGED <<index, chanVars>>
  /\ UNCHANGED <<smVars, interrupted, exit_all, exit_comm, ready_notified,
                 connVars>>

WorkersStarted ==
  /\ index = NChannels + 1
  /\ MainGoto("start", "loop")
  /\ UNCHANGED <<smVars, index, interrupted, exit_all, exit_comm, ready_notified,
                 chanVars, connVars>>

\* Bug variant of IsReady: one listener is enough.
IsReadyAny == \E l \in Channels : is_ready[l]

IsReady == \A l \in Channels : Enabled(l) => is_ready[l]

\* One turn of the loop of run(): tell systemd once,
NotifyReady ==
  /\ main = "loop"
  /\ ~ready_notified
  /\ IsReady
  /\ ready_notified' = TRUE
  /\ UNCHANGED <<smVars, main, index, interrupted, exit_all, exit_comm, chanVars,
                 connVars>>

\* ... and leave on an interrupt or when a driver asked for it, beginning with
\* session_manager.delete_all().
ExitRequested ==
  /\ MainGoto("loop", "delete_all")
  /\ interrupted \/ exit_all
  /\ CallDeleteAll
  /\ UNCHANGED <<index, interrupted, exit_all, exit_comm, ready_notified, chanVars,
                 connVars>>

\* The asserts of delete_all read the counter and the map without the lock: at
\* its start, and at its end, when a session may have been created meanwhile.
\* server_definitions.hpp compiles them out unless DEBUG_KOHERON is defined.
DeleteAllAsserts ==
  /\ DEBUG_KOHERON
  /\ MainGoto("delete_all", "aborted")
  /\ \/ /\ step[Main] = "delete_all"
        /\ number_of_sessions # Cardinality(DOMAIN session_pool)
     \/ step[Main] = "all_deleted" /\ number_of_sessions # 0
  /\ UNCHANGED <<smVars, index, interrupted, exit_all, exit_comm, ready_notified,
                 chanVars, connVars>>

\* Bug variant of CloseComm: the comm threads are not told.
CloseCommSilent ==
  /\ MainGoto("delete_all", "exit_comm")
  /\ CallExitComm
  /\ UNCHANGED <<index, interrupted, exit_all, exit_comm, ready_notified, chanVars,
                 connVars>>

\* close_listeners: exit_comm, then session_manager.exit_comm(),
CloseComm ==
  /\ MainGoto("delete_all", "exit_comm")
  /\ exit_comm' = TRUE
  /\ CallExitComm
  /\ UNCHANGED <<index, interrupted, exit_all, ready_notified, chanVars, connVars>>

\* ... shut down the listening sockets,
ShutdownListeners ==
  /\ MainGoto("exit_comm", "join")
  /\ step[Main] = "comm_exited"
  /\ listen_fd' = [l \in Channels |->
                      IF Enabled(l) THEN "shut" ELSE listen_fd[l]]
  /\ index' = 1
  /\ UNCHANGED <<smVars, interrupted, exit_all, exit_comm, ready_notified,
                 is_ready, number_of_threads, comm, comm_fd, connVars>>

\* ... and join the comm threads one after the other.
JoinWorker ==
  /\ main = "join"
  /\ index \in Channels
  /\ listen_fd[index] # "none" => comm[index] = "done"
  /\ index' = index + 1
  /\ UNCHANGED <<smVars, main, interrupted, exit_all, exit_comm, ready_notified,
                 chanVars, connVars>>

\* run() returns and main() exits: the process and its threads are gone.
Exit ==
  /\ index = NChannels + 1
  /\ MainGoto("join", "exited")
  /\ UNCHANGED <<smVars, index, interrupted, exit_all, exit_comm, ready_notified,
                 chanVars, connVars>>

MainThread ==
  \/ DriverInit \/ BindListeners \/ StartWorker \/ WorkersStarted
  \/ NotifyReady \/ ExitRequested \/ CloseComm \/ ShutdownListeners
  \/ JoinWorker \/ Exit \/ DeleteAllAsserts
  \/ /\ (MainStep \/ DeleteStep(Main))
     /\ UNCHANGED <<mainVars, chanVars, connVars>>

-----------------------------------------------------------------------------
(* Comm thread of channel l *)

CommGoto(l, from, to) == comm[l] = from /\ comm' = [comm EXCEPT ![l] = to]

\* The test of the loop, evaluated together with the step before it: the comm
\* thread ends, or blocks in accept.
LoopTest == IF exit_comm THEN "done" ELSE "accept"

CommStart(l) ==
  /\ CommGoto(l, "start", LoopTest)
  /\ is_ready' = [is_ready EXCEPT ![l] = TRUE]
  /\ UNCHANGED <<smVars, mainVars, listen_fd, number_of_threads, comm_fd, connVars>>

Pending(c, l) == via[c] = l /\ step[c] = "idle" /\ thread[c] = "none"

DescriptorsLeft == Cardinality(open_fds) < fd_limit

\* open_communication returns a connection,
Accept(l, c) ==
  /\ CommGoto(l, "accept", "check")
  /\ listen_fd[l] = "listening"
  /\ Pending(c, l)
  /\ DescriptorsLeft
  /\ Accepted(c)
  /\ comm_fd' = [comm_fd EXCEPT ![l] = c]
  /\ UNCHANGED <<mainVars, listen_fd, is_ready, number_of_threads, connVars>>

\* ... or takes it from the queue without a descriptor to show for it: a socket
\* option cannot be set and it is closed again, or its client has already gone
\* (ECONNABORTED),
AcceptRefused(l, c) ==
  /\ CommGoto(l, "accept", "check")
  /\ listen_fd[l] = "listening"
  /\ Pending(c, l)
  /\ DescriptorsLeft
  /\ thread' = [thread EXCEPT ![c] = "refused"]
  /\ comm_fd' = [comm_fd EXCEPT ![l] = Nobody]
  /\ UNCHANGED <<smVars, mainVars, listen_fd, is_ready, number_of_threads, client,
                 via, session>>

\* ... or fails and leaves the queue alone, because no descriptor is left (EMFILE,
\* before the queue is looked at) or the listening socket was shut down.
AcceptFails(l) ==
  /\ CommGoto(l, "accept", "check")
  /\ ~DescriptorsLeft \/ listen_fd[l] = "shut"
  /\ comm_fd' = [comm_fd EXCEPT ![l] = Nobody]
  /\ UNCHANGED <<smVars, mainVars, listen_fd, is_ready, number_of_threads, connVars>>

\* Bug variant of CommCheck: a refused connection ends the thread.
CommCheckGivesUp(l) ==
  /\ \/ /\ CommGoto(l, "check", "done")
        /\ exit_comm \/ comm_fd[l] = Nobody
        /\ comm_fd' = [comm_fd EXCEPT ![l] = Nobody]
     \/ CommGoto(l, "check", "admit") /\ ~exit_comm /\ comm_fd[l] # Nobody
        /\ UNCHANGED comm_fd
  /\ UNCHANGED <<smVars, mainVars, listen_fd, is_ready, number_of_threads, connVars>>

\* The thread looks at exit_comm again, then at the descriptor.  On exit an
\* accepted descriptor is dropped, not closed.
CommCheck(l) ==
  /\ \/ /\ CommGoto(l, "check", "done")
        /\ exit_comm
        /\ comm_fd' = [comm_fd EXCEPT ![l] = Nobody]
     \/ CommGoto(l, "check", "accept") /\ ~exit_comm /\ comm_fd[l] = Nobody
        /\ UNCHANGED comm_fd
     \/ CommGoto(l, "check", "admit") /\ ~exit_comm /\ comm_fd[l] # Nobody
        /\ UNCHANGED comm_fd
  /\ UNCHANGED <<smVars, mainVars, listen_fd, is_ready, number_of_threads, connVars>>

IsMaxThreads(l) == number_of_threads[l] >= MaxWorkers[l]

\* Over the limit the descriptor is dropped, not closed; under it the session
\* thread is started and detached.
CommAdmit(l) ==
  /\ CommGoto(l, "admit", LoopTest)
  /\ thread' = [thread EXCEPT ![comm_fd[l]] =
                   IF IsMaxThreads(l) THEN "rejected" ELSE "begin"]
  /\ comm_fd' = [comm_fd EXCEPT ![l] = Nobody]
  /\ UNCHANGED <<smVars, mainVars, listen_fd, is_ready, number_of_threads, client,
                 via, session>>

CommThread(l) ==
  \/ CommStart(l) \/ AcceptFails(l) \/ CommCheck(l) \/ CommAdmit(l)
  \/ \E c \in Sessions : Accept(l, c) \/ AcceptRefused(l, c)

-----------------------------------------------------------------------------
(* Session thread of connection c: session_thread_call and Session::run.   *)

ThreadGoto(c, from, to) ==
  thread[c] = from /\ thread' = [thread EXCEPT ![c] = to]

\* The session object the thread runs has not been destroyed.
Alive(c) == session[c] \in Live

SessionBegin(c) ==
  /\ ThreadGoto(c, "begin", "create")
  /\ number_of_threads' = [number_of_threads EXCEPT ![via[c]] = @ + 1]
  /\ CallCreate(c)
  /\ UNCHANGED <<mainVars, listen_fd, is_ready, comm, comm_fd, client, via,
                 session>>

\* An exception that nothing catches.
Abort ==
  /\ main' = "aborted"
  /\ UNCHANGED <<smVars, index, interrupted, exit_all, exit_comm, ready_notified,
                 chanVars, connVars>>

\* Another thread, which holds the mutex, is inserting into the map or erasing
\* from it: std::map rebalances its tree.
MapChanging(c) ==
  \E t \in Callers \ {c} : step[t] \in {"insert", "erase"}

\* get_session is session_pool.at(sid), without the lock.  A lookup beside a
\* change of the map finds the session, or misses it and throws, as does one of
\* an identifier that is gone.  It may also fault: crash_signal_handler then sets
\* s_interrupted, as Interrupt does at any time, and returns to the instruction
\* that faulted, so that the thread, which holds no mutex, gets no further.
GetSession(c) ==
  /\ thread[c] = "create"
  /\ step[c] = "created"
  /\ \/ /\ arg[c] \in DOMAIN session_pool
        /\ ThreadGoto(c, "create", "init")
        /\ session' = [session EXCEPT ![c] = session_pool[arg[c]]]
        /\ UNCHANGED <<smVars, mainVars, chanVars, client, via>>
     \/ (arg[c] \notin DOMAIN session_pool \/ MapChanging(c)) /\ Abort

\* The end of run(): session_manager.delete_session(sid).
ReturnFrom(c, from) ==
  /\ ThreadGoto(c, from, "delete")
  /\ CallDelete(c)
  /\ session' = [session EXCEPT ![c] = Nobody]
  /\ UNCHANGED <<mainVars, chanVars, client, via>>

\* The head of the loop of run(), together with the step before it: leave if
\* exit_signal is set, otherwise block in read_command.
LoopFrom(c, from) ==
  \/ /\ session[c] \notin exit_signal
     /\ ThreadGoto(c, from, "read")
     /\ UNCHANGED <<smVars, mainVars, chanVars, client, via, session>>
  \/ session[c] \in exit_signal /\ ReturnFrom(c, from)

\* init_socket: WebSocket authentication, which may fail.
SessionInit(c) ==
  /\ Alive(c)
  /\ \/ LoopFrom(c, "init")
     \/ via[c] \in WebSocketCh /\ ReturnFrom(c, "init")

\* read_command returns a command the client has sent; exit_signal is looked at
\* again before it is used.
SessionCommand(c) ==
  /\ Alive(c)
  /\ client[session[c]] = "connected"
  /\ \/ /\ session[c] \notin exit_signal
        /\ ThreadGoto(c, "read", "exec")
        /\ UNCHANGED <<smVars, mainVars, chanVars, client, via, session>>
     \/ session[c] \in exit_signal /\ ReturnFrom(c, "read")

\* Bug variant of SessionClosed: only an error ends the loop of run().
SessionClosedLoops(c) ==
  /\ Alive(c)
  /\ client[session[c]] = "closed"
  /\ LoopFrom(c, "read")

\* read_command returns 0: the client has closed the connection.
SessionClosed(c) ==
  /\ Alive(c)
  /\ client[session[c]] = "closed"
  /\ ReturnFrom(c, "read")

\* driver_manager.execute: a driver that cannot be started sets exit_all;
\* the session goes on unless the answer met a closed connection.
SessionExecute(c) ==
  /\ Alive(c)
  /\ \/ LoopFrom(c, "exec")
     \/ /\ thread[c] = "exec"
        /\ DriversMayFail
        /\ exit_all' = TRUE
        /\ UNCHANGED <<smVars, main, index, interrupted, exit_comm, ready_notified,
                       chanVars, connVars>>
     \/ client[session[c]] = "closed" /\ ReturnFrom(c, "exec")

\* ... and ends with the process if the length of a vector or a string is one
\* that resize throws at, or if the get_session of Server::execute meets a
\* change of the map.
SessionExecuteThrows(c) ==
  /\ Alive(c)
  /\ thread[c] = "exec"
  /\ Abort

Serving(c) == thread[c] \in {"init", "read", "exec"}

\* The session object was destroyed under the thread.  It reads freed memory
\* and a closed descriptor: it leaves run(), is never heard of again, or ends
\* the process, as the get_session of Server::execute does.
SessionStale(c) ==
  /\ Serving(c)
  /\ ~Alive(c)
  /\ ReturnFrom(c, thread[c]) \/ Abort

\* Bug variant of SessionEnd: the slot is not given back.
SessionEndKeepsSlot(c) ==
  /\ ThreadGoto(c, "delete", "done")
  /\ step[c] = "deleted"
  /\ UNCHANGED <<smVars, mainVars, chanVars, client, via, session>>

SessionEnd(c) ==
  /\ ThreadGoto(c, "delete", "done")
  /\ step[c] = "deleted"
  /\ number_of_threads' = [number_of_threads EXCEPT ![via[c]] = @ - 1]
  /\ UNCHANGED <<smVars, mainVars, listen_fd, is_ready, comm, comm_fd, client, via,
                 session>>

SessionThread(c) ==
  \/ SessionBegin(c) \/ GetSession(c) \/ SessionInit(c)
  \/ SessionClosed(c) \/ SessionExecute(c) \/ SessionEnd(c)
  \/ (CreateStep(c) \/ DeleteStep(c)) /\ UNCHANGED <<mainVars, chanVars, connVars>>

-----------------------------------------------------------------------------
(* Environment: clients, and the signal systemd sends to stop the server.  *)

Connect(c, l) ==
  /\ client[c] = "away"
  /\ listen_fd[l] = "listening"
  /\ client' = [client EXCEPT ![c] = "connected"]
  /\ via' = [via EXCEPT ![c] = l]
  /\ UNCHANGED <<smVars, mainVars, chanVars, thread, session>>

Disconnect(c) ==
  /\ client[c] = "connected"
  /\ client' = [client EXCEPT ![c] = "closed"]
  /\ UNCHANGED <<smVars, mainVars, chanVars, via, thread, session>>

\* The handlers are installed without SA_RESTART: the thread that receives the
\* signal may be a comm thread, whose accept then fails (EINTR); its tests of
\* exit_comm are evaluated together with this step.
Interrupt ==
  /\ ~interrupted
  /\ interrupted' = TRUE
  /\ UNCHANGED comm \/ \E l \in Channels : CommGoto(l, "accept", LoopTest)
  /\ UNCHANGED <<smVars, main, index, exit_all, exit_comm, ready_notified,
                 listen_fd, is_ready, number_of_threads, comm_fd, connVars>>

Environment ==
  \/ \E c \in Sessions :
        Disconnect(c) \/ \E l \in Channels : Connect(c, l)
  \/ Interrupt

Step ==
  \/ MainThread
  \/ \E l \in Channels : CommThread(l)
  \/ \E c \in Sessions :
        \/ SessionThread(c) \/ SessionCommand(c)
        \/ SessionExecuteThrows(c) \/ SessionStale(c)
  \/ Environment

\* Nothing happens in a process that is gone.
Running(A) == ~Stopped /\ A /\ UNCHANGED fd_limit

Next == Running(Step) \/ (Stopped /\ UNCHANGED vars)

\* The scheduler runs every thread that can run; driver operations return.
\* Clients and signals owe nothing (a session may wait for a command for ever),
\* nor does a thread that runs on freed memory.
Fairness ==
  /\ WF_vars(Running(MainThread))
  /\ \A l \in Channels : WF_vars(Running(CommThread(l)))
  /\ \A c \in Sessions : WF_vars(Running(SessionThread(c)))

Spec == Init /\ [][Next]_vars
FairSpec == Spec /\ Fairness

-----------------------------------------------------------------------------
(* Properties *)

HoldsSlot(c) == thread[c] \in {"create", "init", "read", "exec", "delete"}
ShuttingDown == main \notin {"driver_init", "store_flags", "start", "loop"}

ThreadPoints == {"none", "refused", "rejected", "begin", "create", "init", "read",
                 "exec", "delete", "done"}

TypeOK ==
  /\ SMTypeOK
  /\ main \in {"driver_init", "store_flags", "start", "loop", "delete_all",
               "exit_comm", "join", "exited", "aborted"}
  /\ index \in 1 .. NChannels + 1
  /\ interrupted \in BOOLEAN /\ exit_all \in BOOLEAN /\ exit_comm \in BOOLEAN
  /\ ready_notified \in BOOLEAN
  /\ listen_fd \in [Channels -> {"none", "bound", "listening", "shut"}]
  /\ is_ready \in [Channels -> BOOLEAN]
  /\ number_of_threads \in [Channels -> Nat \cup {-1}]
  /\ comm \in [Channels -> {"none", "start", "accept", "check", "admit", "done"}]
  /\ comm_fd \in [Channels -> Sessions \cup {Nobody}]
  /\ client \in [Sessions -> {"away", "connected", "closed"}]
  /\ via \in [Sessions -> Channels \cup {0}]
  /\ thread \in [Sessions -> ThreadPoints]
  /\ session \in [Sessions -> Sessions \cup {Nobody}]
  /\ fd_limit \in FdLimits

\* Until the server shuts down, get_session gave every session thread its own
\* session, and that session object lives as long as the thread runs it.
SessionsOwned ==
  \A c \in Sessions :
     Serving(c) /\ ~ShuttingDown =>
        session[c] = c /\ arg[c] \in DOMAIN session_pool /\ session_pool[arg[c]] = c

\* Before an exit is requested the process is aborted only by what a command
\* makes a driver do, or by a lookup that meets a change of the map: never by
\* the identifier of a session that is gone, never by a session destroyed under
\* its thread, never by an assert of delete_all.
AbortsHaveACause ==
  [][main # "aborted" /\ main' = "aborted" =>
        \/ interrupted \/ exit_all
        \/ \E c \in Sessions :
              \/ thread[c] = "exec"
              \/ thread[c] = "create" /\ step[c] = "created" /\ MapChanging(c)]_vars

\* Every variable of the server keeps its type, and number_of_threads counts the
\* session threads between its increment and its decrement: every way out of
\* session_thread_call gives the slot back.
SlotsMatchThreads ==
  /\ TypeOK
  /\ \A l \in Channels :
       listen_fd[l] # "none" =>
          number_of_threads[l] = Cardinality({c \in Sessions : via[c] = l /\ HoldsSlot(c)})

\* When systemd has been told that the server is ready, every enabled channel
\* listens and its comm thread serves it, until the shutdown.
ReadyMeansListening ==
  ready_notified /\ main = "loop" =>
     \A l \in Channels :
        Enabled(l) => listen_fd[l] = "listening"
                      /\ comm[l] \in {"accept", "check", "admit"}

\* An interrupt at any moment, also during the construction of the server,
\* ends the process: delete_all and close_listeners terminate, every comm
\* thread can be joined.
InterruptStops == interrupted ~> Stopped

\* A client that goes away frees its session thread.
DisconnectEndsSession ==
  \A c \in Sessions :
     (client[c] = "closed" /\ HoldsSlot(c)) ~> (thread[c] = "done" \/ Stopped)

\* No accept failure or rejection stops a comm thread: a connection that waits
\* is eventually taken from the queue, unless the server shuts down or is out of
\* descriptors for ever, as those of rejected connections may leave it.
PendingIsAccepted ==
  []<>DescriptorsLeft =>
     \A c \in Sessions : \A l \in Channels :
        Pending(c, l) ~> (~Pending(c, l) \/ exit_comm \/ Stopped)

\* The inductive invariant behind SessionsOwned and AbortsHaveACause:
\* main only calls the manager in the shutdown, which was asked for; a thread
\* that runs a session has created it and not called delete_session.
ServerInv ==
  /\ SMInv
  /\ thread \in [Sessions -> ThreadPoints]
  /\ session \in [Sessions -> Sessions \cup {Nobody}]
  /\ main \in {"driver_init", "store_flags", "start", "loop"} => step[Main] = "idle"
  /\ step[Main] # "idle" => interrupted \/ exit_all
  /\ \A c \in Sessions : Serving(c) => step[c] = "created"
  /\ step[Main] = "idle" => \A c \in Sessions : Serving(c) => session[c] = c

\* config.hpp: "TCP max parallel connections", the limit of each channel.
MaxParallelConnections ==
  \A l \in Channels : Enabled(l) => number_of_threads[l] <= MaxWorkers[l]
=============================================================================
