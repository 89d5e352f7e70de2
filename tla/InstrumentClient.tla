-------------------------- MODULE InstrumentClient --------------------------
(***************************************************************************)
(* A program that uses KoheronClient (client/koheron-client.hpp) beside    *)
(* the HTTP application: connect() asks the application for its firmware,  *)
(* waits until it is live, connects to koheron-server, and downloads, over *)
(* a second connection, the table of operations its calls are checked      *)
(* with.  Others send requests to the application all the while.           *)
(***************************************************************************)
EXTENDS InstrumentStore

CONSTANT Firmwares \* the names a client may have been constructed with, or None

ASSUME ClientAssumption == Firmwares \subseteq Names \cup {None}

VARIABLES
  firmware, firmware_restart, \* members, constant after the construction
  step,       \* where connect() stands; "out" and "in": outside, after a failure or not
  will_run,
  asked,      \* the application is working on the client's request
  sock,       \* sockfd is connected to the server that runs now, and connect() has not
              \* failed or begun anew: nobody uses it then
  op_table,   \* is there and of the server that runs now
  disturbed   \* history: an install began since the firmware was seen live

client == <<firmware, firmware_restart, step, will_run, asked, sock, op_table, disturbed>>
allvars == <<vars, client>>

ClientInit ==
  /\ Init
  /\ firmware \in Firmwares
  /\ firmware_restart \in IF firmware = None THEN {FALSE} ELSE BOOLEAN
  /\ step = "out" /\ will_run = FALSE /\ asked = FALSE
  /\ sock = FALSE /\ op_table = FALSE /\ disturbed = FALSE

-----------------------------------------------------------------------------
(* connect() *)

\* What the application tells of the live instrument; an exception while it is busy
\* for too long or down, and if it has no live instrument (__init__.py:111).
StatusFails == at # "idle" \/ live_instrument = None
Live == live_instrument.name

\* The client has nothing of a server that is gone, or that it does not use any more.
Lost == sock' = FALSE /\ op_table' = FALSE

Forgotten == Lost /\ disturbed' = FALSE

Throw == step' = "out" /\ will_run' = FALSE /\ Forgotten

\* The deadline of 30 s has passed, or there is another try.
TryAgain(from) ==
  \/ step' = from /\ Lost /\ UNCHANGED <<will_run, disturbed>>
  \/ Throw

Connect ==
  /\ step \in {"out", "in"}
  /\ step' = IF firmware = None THEN "open" ELSE "look"
  /\ Forgotten
  /\ UNCHANGED <<firmware, firmware_restart, will_run, asked>>
  /\ UNCHANGED vars

\* will_run stays true if the status is not available.
Look ==
  /\ step = "look"
  /\ \/ StatusFails /\ will_run' = TRUE
     \/ ~StatusFails /\ will_run' = (Live # firmware \/ firmware_restart)
  /\ step' = "status"
  /\ UNCHANGED <<firmware, firmware_restart, asked, sock, op_table, disturbed>>
  /\ UNCHANGED vars

\* What follows run_instrument.
AfterRun == step' = IF will_run THEN "wait" ELSE "open"

\* The status, once more, in run_instrument.
Status ==
  /\ step = "status"
  /\ \/ StatusFails /\ Throw
     \/ /\ ~StatusFails /\ Live = firmware /\ ~firmware_restart
        /\ AfterRun /\ UNCHANGED <<will_run, sock, op_table, disturbed>>
     \/ /\ ~StatusFails
        /\ IF Live = firmware THEN firmware_restart
           ELSE \E e \in Range(instruments_list) : e.name = firmware
        /\ step' = "run" /\ UNCHANGED <<will_run, sock, op_table, disturbed>>
     \/ /\ ~StatusFails /\ Live # firmware
        /\ \A e \in Range(instruments_list) : e.name # firmware
        /\ Throw
  /\ UNCHANGED <<firmware, firmware_restart, asked>>
  /\ UNCHANGED vars

\* The request waits until the application serves it; without a file the answer holds
\* "Failed", and the client throws.
AskRun ==
  /\ step = "run" /\ ~asked
  /\ Run(firmware)
  /\ \/ zips[firmware] = None /\ Throw /\ UNCHANGED asked
     \/ zips[firmware] # None /\ asked' = TRUE
                              /\ UNCHANGED <<step, will_run, sock, op_table, disturbed>>
  /\ UNCHANGED <<firmware, firmware_restart>>

\* 60 s without an answer.  The application does not stop for that.
RunTimesOut ==
  /\ step = "run" /\ at # "idle"
  /\ Throw /\ asked' = FALSE
  /\ UNCHANGED <<firmware, firmware_restart>>
  /\ UNCHANGED vars

\* wait_for_instrument, a look at the status each time.
Wait ==
  /\ step = "wait"
  /\ IF ~StatusFails /\ Live = firmware
     THEN step' = "open" /\ UNCHANGED <<will_run, sock, op_table, disturbed>>
     ELSE TryAgain("wait")
  /\ UNCHANGED <<firmware, firmware_restart, asked>>
  /\ UNCHANGED vars

\* A socket_error in connect_once: only connect() after a run tries again.
SocketError == IF will_run THEN TryAgain("open") ELSE Throw

\* connect_once.  The socket of a try before is not closed, only forgotten.
Open ==
  /\ step = "open"
  /\ \/ server = None /\ SocketError
     \/ /\ server # None /\ sock' = TRUE /\ step' = "context"
        /\ UNCHANGED <<will_run, op_table, disturbed>>
  /\ UNCHANGED <<firmware, firmware_restart, asked>>
  /\ UNCHANGED vars

Connected ==
  step' = "in" /\ will_run' = FALSE /\ UNCHANGED <<sock, disturbed>>

\* Bug variant of Context: the table is downloaded only after an install.
ContextAfterRun ==
  /\ step = "context" /\ server # None
  /\ op_table' = (op_table \/ will_run) /\ Connected
  /\ UNCHANGED <<firmware, firmware_restart, asked>>
  /\ UNCHANGED vars

\* refresh_server_context.  A connection that is refused is an instrument_error, which
\* connect() does not catch; one that the server drops or does not answer in 2 s is a
\* socket_error.
Context ==
  /\ step = "context"
  /\ \/ server # None /\ op_table' = TRUE /\ Connected
     \/ server = None /\ Throw
     \/ SocketError
  /\ UNCHANGED <<firmware, firmware_restart, asked>>
  /\ UNCHANGED vars

\* The table may be fetched again at any time, of whatever server there is.
Refresh ==
  /\ step = "in" /\ server # None
  /\ op_table' = TRUE
  /\ UNCHANGED <<firmware, firmware_restart, step, will_run, asked, sock, disturbed>>
  /\ UNCHANGED vars

Client ==
  \/ Connect \/ Look \/ Status \/ AskRun \/ RunTimesOut \/ Wait \/ Open \/ Context
  \/ Refresh

-----------------------------------------------------------------------------
(* What the rest of the board does to the client *)

\* A connection ends with the process that serves it.
Connections == IF server' = server THEN UNCHANGED <<sock, op_table>> ELSE Lost

\* The client has seen its firmware live.
Seen == firmware # None /\ step \in {"open", "context", "in"}

\* Another install begins.
Disturb == disturbed' = (disturbed \/ (Seen /\ at = "clear"))

\* The application goes on; the end of the install is the answer to the client.
Serve ==
  /\ Application
  /\ Connections /\ Disturb
  /\ UNCHANGED <<firmware, firmware_restart, will_run>>
  /\ IF asked /\ at = "installed"
     THEN asked' = FALSE /\ AfterRun
     ELSE UNCHANGED <<asked, step>>

Others ==
  /\ Requests \/ NetworkUp \/ ServerEnds
  /\ Connections
  /\ UNCHANGED <<firmware, firmware_restart, step, will_run, asked, disturbed>>

\* The request of the client is lost with the application.
Failure ==
  /\ \/ Kill /\ UNCHANGED <<sock, op_table, disturbed>>
     \/ PowerLoss /\ Lost /\ disturbed' = Seen
  /\ asked' = FALSE
  /\ IF asked
     THEN step' = "out" /\ will_run' = FALSE
     ELSE UNCHANGED <<step, will_run>>
  /\ UNCHANGED <<firmware, firmware_restart>>

ClientNext == Client \/ Serve \/ Others \/ Failure

\* As in InstrumentStore; nobody has to connect.
ClientSpec == ClientInit /\ [][ClientNext]_allvars /\ WF_vars(Application)

-----------------------------------------------------------------------------
(* Properties *)

ClientTypeOK ==
  /\ firmware \in Firmwares /\ firmware_restart \in BOOLEAN
  /\ step \in {"out", "look", "status", "run", "wait", "open", "context", "in"}
  /\ will_run \in BOOLEAN /\ asked \in BOOLEAN
  /\ sock \in BOOLEAN /\ op_table \in BOOLEAN
  /\ disturbed \in BOOLEAN
  /\ asked => step = "run" /\ target.name = firmware

\* Every variable keeps its type.  Once connect() has returned, calls are checked
\* with the operations of the server that executes them, although the table came over
\* another connection and servers were replaced, once or more, before, in between and
\* after; and that server runs the firmware the client was constructed with, unless
\* somebody installed an instrument since the application told that it was live.
ConnectedAsAsked ==
  /\ ClientTypeOK
  /\ step = "in" /\ sock =>
       /\ op_table
       /\ firmware = None \/ disturbed \/ server.name = firmware
=============================================================================
