# A TLA+ model of koheron-server

The Koheron SDK runs `koheron-server` on a Zynq board: a C++ daemon that accepts
TCP, WebSocket and Unix connections, gives each one a session thread, and lets the
sessions call the drivers of the loaded instrument. This directory models that
daemon in TLA+, with the HTTP application that installs instruments, the clients that
talk to it and those drivers whose state several sessions share; it model-checks them
with TLC and proves the central properties with TLAPS.

## The system

| Part | Code | State | Operations |
|---|---|---|---|
| Server | `src/server/core/server.{hpp,cpp}`, `main.cpp` | `exit_comm`, `exit_all`, listeners, managers | constructor, `run`, `close_listeners`, `is_ready` |
| Listening channels | `listening_channel.cpp`, `server.hpp` | `listen_fd`, `number_of_threads`, `is_ready`, `comm_thread` | `init`, `start_worker`, `open_communication`, `is_max_threads`, `shutdown`, `join_worker` |
| Sessions | `session.hpp`, `session.cpp`, `session_abstract.hpp` | descriptor, `exit_signal`, `status`, buffers | `run`, `read_command`, `send`, `exit_comm` |
| Session manager | `session_manager.{hpp,cpp}` | `session_pool`, `reusable_ids`, `number_of_sessions`, mutex | `create_session`, `get_session`, `delete_session`, `delete_all`, `exit_comm` |
| Signal handler | `signal_handler.cpp` | `s_interrupted` | handlers |
| Driver manager | `drivers_manager.{hpp,cpp}`, `server_commands.cpp`, generated `Driver<>` classes | `is_started`, `is_starting`, `driver_tuple`, `device_list`, recursive mutex, one mutex per driver | `init`, `get`, `alloc_driver`, `execute` |
| WebSocket | `websocket.cpp` | read buffer, header fields | `authenticate`, `receive_cmd`, `send_request` |
| Serializer | `serializer_deserializer.hpp` | none | `append`, `extract` |
| Context and bus devices | `src/server/context/` | descriptors, cached addresses | FPGA manager, clocks, I2C, SPI, memory maps |
| I2C bus | `src/server/context/i2c_dev.hpp`, `boards/alpha250/drivers/eeprom.hpp`, `power-monitor.hpp` | mutex, cached address; in the slaves: the register selected, an EEPROM that is busy | `read`, `write`, `set_address`, `__write` |
| Clock generator | `boards/alpha250/drivers/clock-generator.hpp`, `common.hpp` | `clkin`, `clk_cfg`, `fs_selected`, `fs_adc`; the registers of the chip | `init`, `set_reference_clock`, `set_sampling_frequency`, `configure`, `set_tcxo_calibration` |
| DMA and its user | `src/server/drivers/dma-s2mm.hpp`, `examples/alpha250/phase-noise-analyzer/` | state of the engine, content of the RAM, `channel`, `cic_rate`, `fft_navg` | `start_transfer`, `wait_for_transfer`, `get_data`, `get_phase_noise`, setters |
| Other drivers | `src/server/drivers/`, `src/boards/`, `src/examples/` | hardware registers | per driver |
| HTTP API | `src/os/api/`, `src/os/systemd/` | instrument files, live directory, `instruments_list`, `live_instrument` | start, upload, run, delete, boot |
| TypeScript client | `src/web/koheron.ts` | `pool`, `freeSockets`, `socketCounter`, `exiting` | `requestSocket`, `freeSocket`, `exit`, `send`, `readXXX` |
| Python client | `src/python/` | a socket | calls |
| C++ client | `src/server/client/koheron-client.hpp` | `sockfd`, `firmware`, `op_table` | `connect`, `refresh_server_context`, calls |

How they interact. The main thread constructs the `Server` (which starts the
`Common` driver through the driver manager), starts one *comm thread* per enabled
channel and polls `s_interrupted` and `exit_all` every 50 ms. A comm thread blocks
in `accept` and starts a detached *session thread* per connection. A session thread
creates its session in the session manager, reads commands and passes them to the
driver manager, and deletes its session at the end. On exit the main thread deletes
all sessions, sets `exit_comm` and every session's `exit_signal`, shuts down the
listening sockets and joins the comm threads. Session threads are never joined.

What is hard. Nearly everything is shared between threads and only partly locked:
`create_session` and `delete_session` hold the manager's mutex, `delete_all`,
`get_session`, `get_session_ids` (when called by `delete_all`) and `exit_comm` do
not; the thread limit is tested in one thread and counted in another; `execute`
tests `is_started` without the mutex; constructors of drivers call back into the
driver manager; each driver has a mutex that its own sessions take and the drivers that
call it do not; hardware may be late or never answer. The hazards are listed, with the line where each bites and the
properties that watch it, in `PROJECT.json`.

What makes each part correct:
* *session manager*: an identifier designates one session; counter, map and stack
  agree; each descriptor is closed once; a session is not destroyed under its thread;
* *server and channels*: slots are given back, the limit is kept, ready means
  serving, an interrupt ends the process, no pending connection is forgotten;
* *driver manager*: each driver is constructed once, after what it depends on, and
  only a command that
  raced with the first start of a driver can find none; a failed allocation ends the server;
* *command stream*: what one side sends is what the other reads; calls are executed in
  order, an answer goes to the call it answers, a lost connection ends the session;
* *WebSocket session*: the same on frames, within the limits of the buffers;
* *instrument store*: list and files agree after any request and any failure, the live directory
  holds nothing and the server runs nothing but the instrument that is called live, and the
  application comes back with a live instrument;
* *C++ client*: a client that is connected is so to its firmware, and knows the operations
  of that server;
* *I2C bus*: a message goes to the slave it is meant for, a read returns the register
  that was selected;
* *clock generator*: its members tell what the chip was programmed with;
* *DMA*: a measurement is one whole transfer with the present parameters, unless another session
  drives the DMA meanwhile, and returns;
* *TypeScript client*: a socket is free, in use by one request, or lost to an exception; an
  answer goes to its request; every request returns while no socket is closed or lost.

## Modules

| Module | Models | Kind |
|---|---|---|
| `SessionTable` | what the session manager promises: a table of sessions under distinct identifiers | abstract specification |
| `SessionManager` | the session manager and the calls threads make to it | component |
| `KoheronServer` | the process: main, comm and session threads, clients, signal; EXTENDS `SessionManager` | composition |
| `DriverManager` | lazy allocation of drivers and dispatch of commands | component |
| `CommandStream` | one TCP or Unix connection: the Python client, the kernel's buffers, the session loop and the generated parser | component |
| `WebSocketSession` | one WebSocket connection: the client, the kernel's buffers, the handshake, frames both ways | component |
| `InstrumentStore` | the HTTP application, its install script, kills and losses of power | component |
| `InstrumentClient` | `connect()` of the C++ client, beside the HTTP application; EXTENDS `InstrumentStore` | composition |
| `WebSocketPool` | the pool of sockets of the TypeScript client, and the requests that share it | component |
| `I2cBus` | `I2cDev` and the messages of the drivers on the bus | component |
| `ClockGenerator` | the clock generator and the calls of four drivers; EXTENDS `I2cBus` | composition |
| `DmaS2MM` | the DMA driver and the engine | component |
| `PhaseNoiseAnalyzer` | the measurements over the DMA; EXTENDS `DmaS2MM` | composition |
| `MC...` | instances of the components for TLC | MC |
| `KoheronServerProofs` | theorems about `SessionManager` and `KoheronServer` | proofs |
| `DriverManagerProofs`, `CommandStreamProofs`, `WebSocketSessionProofs`, `WebSocketPoolProofs` | theorems about the component of that name | proofs |
| `InstrumentProofs` | theorems about `InstrumentStore` and `InstrumentClient` | proofs |
| `ClockGeneratorProofs` | theorems about `I2cBus` and `ClockGenerator` | proofs |
| `PhaseNoiseAnalyzerProofs` | theorems about `DmaS2MM` and `PhaseNoiseAnalyzer` | proofs |

### SessionManager

A session object is named by the connection it serves, its thread too. The variables
`session_pool`, `reusable_ids`, `number_of_sessions` and `mutex` are the members;
`step[t]` is where a caller stands and `arg[t]` the identifier it holds. The critical
sections are split exactly where an unlocked reader can look in: `CreateChoose`,
`CreateInsert`, `CreateCount`; `DeleteUnknown` or `DeleteClose`, `DeleteErase`,
`DeleteRecycle`. `delete_all` is `DeleteAllEnter` (the test of `empty()`), `Collect`
per key of the unlocked iteration, then one `delete_session` per collected
identifier. An iterator whose node another thread erased may end anywhere
(`IterationMayEnd`): that is undefined behaviour, and a crash is the outcome not
modelled. `exit_signal` is a set of sessions, `open_fds` the connections whose
descriptor the server holds (numbers are not recycled: two connections never share
one). A caller's `arg` is reset when it goes out of scope.

Definitions marked *Bug variant* are what a plausible mistake in the definition after
them would be; they are in no specification and serve only to test that the
properties notice.

### KoheronServer

`main`, `comm[l]` and `thread[c]` are the program points of the three kinds of
threads; everything else is a member of the code's classes under its own name.
Each action is the code between two points where another thread may interfere. The
loop tests of the comm thread and of `Session::run` are taken together with the step
before (`LoopTest`, `LoopFrom`); the three `shutdown` calls of `close_listeners` are
one step, since nothing reads them in between but the accepts they end. `GetSession` is
`session_pool.at(sid)` outside the lock: if the identifier is gone the exception
leaves a detached thread and the process is terminated. The same may happen while another
thread inserts into the map or erases from it (`MapChanging`), because the tree is not a
tree then: the lookup finds the session, throws, or faults. The crash handler writes a
backtrace, sets `s_interrupted` and returns to the instruction that faulted; for the model that
is an `Interrupt` and a thread that gets no further. `SessionStale` is a thread
whose session object was destroyed: it returns from `run`, never moves again, or
ends the process. The outcome of a command is abstracted: it answers, meets a closed
connection, makes the driver manager set `exit_all` (`DriversMayFail`), or throws
(`SessionExecuteThrows`: a length `resize` cannot serve, see `CommandStream`, or the `get_session` of
`Server::execute`). The two asserts of `delete_all`
are a step of a build with `DEBUG_KOHERON` (`DeleteAllAsserts`); its
unlocked loop is in `SessionManager`, where a loop over a changing map may end anywhere, but
one that crashes or never ends is not modelled.

`accept` gives a connection (`Accept`), takes one from the queue without a descriptor to show
for it (`AcceptRefused`: it was aborted, or a socket option failed), fails and leaves the queue alone
(`AcceptFails`: no descriptor is left, or the socket was shut), or is interrupted
(`Interrupt`). `fd_limit` is what the limit of the process leaves for connections, any member of
`FdLimits`; the descriptors of rejected connections, which nobody closes, count.
`listen` errors, listener errors and context errors end the process. The systemd
datagram, the log and the listener statistics are left out.

### DriverManager

`frames[t]` is the stack of `alloc_driver` calls of a thread: the driver, how far its
constructor has come through `Deps[d]`, and which of the two stores that publish
the driver are left. `Deps` is what the constructors call `ctx.get` for, in member
order. `driver_tuple[d]` and `device_list[d]` count constructions, 0 being a null
pointer. The container's own `is_started` is `driver_tuple[d] > 0`: both are written
under the mutex and in one step. `is_started` and `device_list` are plain memory read
without the mutex, on ARM: the two stores are made in any order (`StoreDevice`, `StoreFlag`), and a thread
that has not taken the mutex for its command may read `device_list` as it was when the command
came, even after it read the flag (`raced`; `Lock` clears it). A dispatch through a null
pointer ends the process as `"null_device"`, and `DeviceFoundUnlessRaced` says that only such a
thread can do it: whoever takes the mutex, and whoever comes after the driver was stored,
finds the device. Operations keep nothing but the driver's mutex; an operation of a
driver with a null reference may crash. Driver 1 is answered by `Server::execute`
under `ks_mutex` (`ServerDriver`). A command for a number that no driver
has reads past the arrays of the manager, since the assert is compiled out, and ends the process
(`NoSuchDriver`); one for driver 0 returns at once and is no step.

### CommandStream

The client side is `KoheronClient.send_command` and `recv_all` (`koheron.py`), the
server side `Session<TCP>::run`, `read_command`, `rcv_n_bytes`, `get_pack_length`, the
parser that `server/__init__.py` generates for an operation, and `send`. The operations
are data: `Packs[o]` is what the generator makes of the parameter list (one fixed pack
per run of scalars and arrays, one pack per string or vector), `Reply[o]` the length of
the answer, 0 for a void method.

No byte is kept. `put`, `taken`, `written` and `fetched` count what went in and out of
the two streams; `bounds[k]` is where call `k` begins and `answers` where each answer
begins. A session that stands where no header begins (`Here = {}`) may decode anything:
any operation, any length in `Garbage`. Each direction is a kernel buffer of `Capacity`
bytes, a `read` or `recv` takes any part of it, a `write` or `sendall` waits for room.
`link` says what the session meets at the end of the stream: nothing yet, the end of
file, or an error, which the kernel reports once; or that the server has shut the connection down
or closed the descriptor.

`get_pack_length` returns what an unwritten buffer holds when the stream ends
(`LengthEnds`), and -1 divided by `sizeof(T)` when `read` fails (`LengthFails`): the
quotient depends on the width of `size_t` (`SizeT64`; the boards have 32 bits, an
aarch64 build 64). The client is Python 3, where `recv` returns `b''`, which is not `''`.
`delete_all` does not signal the session first. `ServerStops` is its `shutdown`: the read that
waits returns 0, and a parser in the middle of a command goes on and runs the operation on
arguments that never came, as it does when the client goes. `SessionDeleted` closes the descriptor
and destroys the session; its thread goes on in freed memory, at most until the process ends
(`ThreadEnds`). `ExecutedInOrder` therefore lets the last command of a connection that was lost or shut
down, and no other, run on less than was sent. A header that is out of place, or of an unknown driver, may
end the process as `NoSuchDriver` does. `exit_signal`, which is set afterwards for sessions that
`delete_all` did not see, and descriptor numbers are in `KoheronServer`. A signal that interrupts a
`write` half-way is left out.

Two disagreements of client and session are in the model and outside its properties.
`UnderstoodCalls` excludes operations the server does not have but that carry
arguments, which the session leaves in the stream; and strings with characters outside
ASCII, for which `koheron.py` announces characters and sends bytes (`Pack.length` and
`Pack.bytes`). After either the session reads headers where there are none.

### WebSocketSession

The same construction for `Session<WEBSOCK>`: counters for bytes, `bounds` and `answers`
for where frames begin. `Handshake` is `authenticate`, with the single `read` of
`read_http_packet`; `Read`, `ReadClosed`, `ReadError` and `Overflow` are the loop of
`read_n_bytes`; `Header` and `Length` are `read_header` with `check_opcode`;
`CommandTooSmall`, `CommandAfterExit` and `Execute` are what `read_command` and `run` do
with a frame; `Write`, `Written` and `WriteFails` are `send_request` for the handshake, an
answer and the close frame. A close met in a header makes the code read a payload of the
length of the frame before, which meets the same end: the two are one step here. The end of the
server is `SessionShut`, then `SessionDeleted`, as on the command stream, or for a session that
`delete_all` did not see only the exit signal (`ExitComm`); in both cases the process ends soon after
(`ThreadEnds`). `read_n_bytes` tries again when `read` fails, so on a closed descriptor the session
thread spins until then. Masks
and keys are not modelled. `Refused` lists what ends a session, among it a frame of
exactly `KOHERON_READ_STR_LEN` bytes, which `read_n_bytes` takes for a full buffer although
the buffer is sixteen times as large.

### InstrumentStore

The application serves one request at a time (`uwsgi.ini:16`), so the model has one
program point `at` and the local variables of the request in `target`. A request is
split where a failure leaves something behind: after `os.remove` (`Delete`, `Deleted`),
around the copy of an upload (`Upload`, `Saved` or `SaveFails`, `Uploaded`), at each command of
`install_instrument.sh` (`Clear`, `StopServer`, `Unzip` in two steps, `StartServer`). Neither the
script nor the application looks at a status: `unzip` may fail before it has written anything or
half-way, also at boot, and the server may fail to start (`SystemctlStart`); in each case the application
calls the instrument live all the same. `ServerEnds` is a server that exits or crashes, at any time:
`koheron-server.service` has no `Restart=`, so it stays down until the next install or start.
`SaveFails` is a disk that is full: the file stays broken and the list as it was (`unsaved`).
`Kill` ends the application and the script and forgets the attributes; `PowerLoss` also
empties `/tmp` and boots. Failures are not bounded in number. `zips[n]` is the version a zip file tells, or `Broken` for an
unfinished file and for an upload that is no zip. An entry is removed from the list as `list.remove` does, the first that is
equal. Two comparisons are modelled as what they do: `run` compares the default with a path secured twice, which is never equal, and
`upload` compares a version with a name, which always differ. Not modelled: names that
`secure_filename` changes, zips without a version file, a file system that loses
what was not synced, and the install at the start of the application overlapping the unzip
of the boot.

`NetworkUp` is the post-up line that the image writes to `/etc/network/interfaces`:
`koheron-server-init` requires `koheron-server`, so the server is started, if none runs, from
what is in the live directory at that moment, which may be half of an instrument
(`Unfinished`); the script then finds a server running and starts none. That is why
`ServedIsLive` has its last alternative. It says nothing about a server being up: none has to be.
What it excludes is a server or a file of the instrument before.

An answer is no variable: `Run` without a file is a request that changes nothing, and so is
`Deleted` for the default instrument, which is answered by "Default instrument cannot be
removed".

### InstrumentClient

`step` is where `connect()` stands: the first look at the status (`Look`), the second one in
`run_instrument` (`Status`), the request to install (`AskRun`, then `asked` until the application
answers, dies or takes more than 60 s), `wait_for_instrument` (`Wait`), `connect_once` (`Open`)
and the download of the table (`Context`). The steps of the application are those of
`InstrumentStore`, with what they do to the client: a connection ends with its server
(`Lost`), and the end of the install is the answer (`Serve`). Others send requests all the while.
`Requests` includes a request the client no longer waits for. A client may try any number of
times. `op_table` and `sock` are not
records of a server, but tell whether it is the one that runs now. A `socket_error` is tried
again after an install, an `instrument_error` is not (`SocketError`). What the code does not promise:
after a failed `connect()` the table may be of another server than the socket.

### WebSocketPool

JavaScript runs a task to its end, so an action is a task: an event of a socket, a timer,
a call of the application. The function of a request runs inside the `onmessage` of
its socket (`handling`), and may ask or exit there, hence `Ask` and `Exit` are the only
actions without the guard `handling = None`. `var websocket` belongs to the constructor, so
all the closures see the last socket: `Open` and `WaitForLast` test that one, and
`AddSocket` numbers the identifiers by the order of the callbacks, not by socket.
`requestSocket` takes an identifier off the stack before it knows that the socket is
open (`"polling"`); a request that finds none comes back after 100 ms (`Retry`). A command
without an answer frees the socket at once, so commands of several requests may be under
way on one socket; the server executes them in order. `Throw` is a function that throws:
`freeSocket` is not reached, and after as many of these as there are sockets nobody is
served. `RequestsReturn` is about a pool in which no socket is closed or lost. `readUint32Array` and the others throw by themselves when the client has exited
(`fn(null)`).

A request is asked once. An application that asks again and again can take every socket
before the timer of another request fires, so `RequestsReturn` would not hold for
unbounded requests. Dedicated sockets are left out: nothing in the repository asks for one.

### I2cBus and ClockGenerator

A session thread that calls an operation holds the mutex of the driver the command was
addressed to and of no other (`Begin`); an operation is the sequence of its steps, those of
the operations it calls included. `I2cBus` takes the steps on the bus: `Lock`, `Address`,
`Transfer` are one message, and a register is read with two. Each of them may fail; the
callers in the code look at the result only to return early, and `Eeprom::__write` tries again.
`ClockGenerator` takes the other steps: `Decide`, then `configure` split where a second
thread in it can be seen (`Assign` in two, `ReadDividers`, `ReadPll`, `ProgramGenerator`).
`Torn` is an array of parameters that was read or written in two parts. `SPI` is held during
`ProgramGenerator`, so the writes of two threads to the chip do not mix. The phase of the FPGA
clock is shifted by increments (`phase_shift`): it is not a value that was programmed, and not part of
`hw_cfg`.

The instance has `Common::init`, an operation of each kind of `ClockGenerator` and one of
`PowerMonitor`. The constructors of `Dds` and of `PhaseNoiseAnalyzer` call
`set_sampling_frequency` under the mutex of the driver manager, `Eeprom::get_serial_number`
reads under that of `Eeprom`: the same steps, under one more mutex that excludes nothing.

What the code does not promise and the properties therefore do not say: two `configure` at a time
(a session of `Common`, a session of `ClockGenerator`) may leave members and chip with
different or mixed parameters (`overlapped`); the EEPROM is read by several drivers, so the
register one selected may be moved by another before it reads; `ClockGenerator::init` writes
to the potentiometer what is in an uninitialized array if the EEPROM could not be read; and `init`
does not change `fs_selected`, the "Current frequency configuration" of `clock-generator.hpp:163`:
after it, selecting the frequency that was selected before does nothing.

### DmaS2MM and PhaseNoiseAnalyzer

Every wait of the driver is `Sleep`: it ends when the engine is there or when
`max_sleeps_cnt` is exceeded, and the caller goes on in both cases; `"exceeded"` is where
`wait_for_transfer` returns after it logged that, which the code does not pass on. The engine is
external: it needs any time for a reset, a start, a transfer, or never does them.

The operations of the analyzer exclude each other by the mutex of its driver. But the DMA is a driver
of the instrument too (`config.yml:98`), so a session may call `start_transfer` under the mutex
of that driver while the analyzer is anywhere in its own: there are two users, and each access to
a register is a step, `set_bit` a read and a write (`ReadControl`, `Start`). The other session may
pass any address and length (`SessionWrites`). Its `wait_for_transfer` only reads, so it has no step.

`transfer` is what the transfer under way brings, by the parameters in force when it began;
`Mixed` if they changed meanwhile, `Elsewhere` if it goes to another address. `get_phase_noise` starts a
transfer at the end of each round, which nobody waits for until the next call: its first round may
use samples taken with older parameters. `unread` remembers that no operation has read the RAM since
the last transfer was completed. `intruded` remembers that the other session wrote to a register
since the analyzer began its last transfer: nothing in the code prevents that, and what the
analyzer then reads may be anything. `MeasurementIsCurrent` is about a wait that did not give
up and a transfer on which nobody intruded; what the other session wrote before that, and where it
stands meanwhile, is arbitrary. `MeasurementsReturn` is about all measurements.

## Runs

| Run | Instance | Shows |
|---|---|---|
| `session_manager` | 3 connections | identifiers, counter, ownership, descriptors, `SessionTable` is implemented |
| `server` | 2 connections; TCP with 1 worker, WebSocket with 2, one channel disabled | safety of the process: ownership of sessions, slots, readiness, what it may abort for |
| `server_live` | 2 connections, one channel with 1 worker, 1 or 3 descriptors | an interrupt stops the process, a disconnect frees its thread, no pending connection is forgotten unless the descriptors run out for ever |
| `driver_manager` | 2 sessions, 4 drivers, with a shared dependency and a circle outside `Common` | single construction, dispatch finds the device unless it raced with the first start, dependencies exist or the circle is reported; the recursion ends and every wanted driver is started; a client that keeps its arguments back stops only the sessions that call the same driver |
| `websocket_session` | 2 frames of 10 kinds | frames and answers in place, order of execution, buffers, why a session ends; commands are executed and answered unless the answer is too long, a lost connection ends the session |
| `command_stream` | 3 calls of 5 operations, two that the server does not have | framing, order of execution, answers, what a lost connection or a server that stops can mangle; calls and sends return, a lost connection ends the session |
| `instrument_store` | the default and one other instrument; a client of the other one, or of none | list and files agree, what is in the live directory and what runs is of the live instrument; a client that is connected is connected to its firmware with its operations; the application recovers |
| `websocket_pool` | 3 sockets, 3 reads (one loads the commands) and a write | sockets are free, in use by one request, or lost to an exception; answers reach their request; requests return as long as no socket is closed or lost |
| `clock_generator` | 2 sessions, 5 operations of 3 drivers on 3 slaves | messages reach their slave, registers are read as selected, members and chip agree |
| `phase_noise_analyzer` | the analyzer and another session of the DMA driver; 2 channels, 1 rate, up to 2 averages, 1 sleep | a measurement is whole and current unless its wait gave up or the other session interfered; it returns |

Three connections are needed for an identifier to be reused while another is live
(delete one of two, create a third), which is what separates the stack from the
counter. `FdLimits` has one descriptor for two connections, so that `accept` fails and a leaked
descriptor ends the service, and more than enough. Two connections suffice in the server, where the questions are about one
session thread and main, about two connections and one slot, and about two
session threads in `create_session`; the manager's own properties are proved for any
number. Among four drivers two share a dependency and two depend on each other, and
two sessions race for them. The runs of these three components have no bound other than these sets: the
identifiers, counters and stacks are bounded by the number of connections, each of
which lives once. On the command stream `MaxCalls` bounds the calls of a connection.
Headers and lengths have 2 bytes, as a buffer of the kernel: every read can be
partial, a call is longer than the buffer, and parts of two calls of a void
operation are in it at once. For WebSocket frames the limits are scaled (125 to 3, 65535 to
5, the read buffer to 22 bytes with 15 kept free, the send buffer to 17) and the frames lie
on both sides of each; the sizes of headers are the real ones. In the instrument store
one instrument is the default and one is not, which is all the code tells apart; a
version and a broken file, which has none, make a stale entry visible; failures, tries and
deadlines are not bounded. In the pool three sockets let one be the last, one be open before it
and one be used by two requests in turn; four requests are more than there are sockets.
On the bus `MaxRetries` = 2 instead of 5 has a first try, a retry and a failure; two threads suffice,
since every question is about one thread between two steps of another. The DMA driver
sleeps once instead of four times, since the engine may do anything between two looks at it; with
`MaxAvg` = 2 there are a first and a last round. Of the two parameters one takes two values:
they have the same role, and the theorem covers any.

Two more runs show that the code does something a comment or a message of the
repository excludes:
* `max_parallel_connections`: `is_max_threads` is tested in the comm thread, the
  counter incremented in the session thread. `config.hpp:37` calls the limit "TCP max
  parallel connections".
* `recv_all_ends`: `recv_all` compares with `''` and never raises "socket connection
  broken" under Python 3: it polls a closed connection for ever.

Further disagreements, met while modelling and without a run of their own:
* `session_manager.cpp:109`: `delete_all` runs before the listeners are closed, so a session may
  be there at `assert(number_of_sessions == 0)`. The assert at its beginning (line 98) reads
  counter and map without the lock and fails in the same way (`DeleteAllAsserts`). Only a build with
  `DEBUG_KOHERON` notices.
* `drivers_manager.cpp:67`: the constructor of the server stores `exit_all = false` after
  `driver_manager.init`, which has set it if `Common` is in a circle of dependencies; the log said
  "Exiting server...". `AllocationFailureExits` fails on such a graph.
* `__init__.py:149` and `157`: `delete_instrument` removes the file of the default instrument, then
  answers "Default instrument cannot be removed"; after the next start no instrument runs.
* `clock-generator.hpp:163`: `fs_selected` is not the current configuration after `init`.
* `koheron-client.hpp:1690`: "retry the TCP connection until the context server is back". A retry
  opens another socket and forgets the one before, which keeps its slot at the server; and a server
  that goes between `connect_once` and the download of the table is not tried again, because
  `tcp_connect` throws an `instrument_error`.
* `koheron-client.hpp:1557`: `close` throws when `shutdown` fails, which it does on a socket that was
  refused or reset. The destructor calls `close`, and an exception there ends the program.

`server_definitions.hpp:51` defines `NDEBUG` unless `DEBUG_KOHERON` is defined, before `<cassert>` is
included for the last time in `session_manager.cpp` and `drivers_manager.cpp`: the asserts there are
compiled out. `server` is a build with asserts, `server_live` one without; the theorems cover both.

### Fairness

`server_live` assumes weak fairness of each thread: the kernel runs a thread that can
run, and driver operations return. Clients and signals owe nothing: a session may
wait for a command for ever (`SessionCommand` and `Environment` are outside the
fairness conditions), and so may a thread that runs on freed memory
(`SessionStale`). `PendingIsAccepted` asks in addition that descriptors come free again and again
(`[]<>DescriptorsLeft`): those of rejected connections are never closed, and with enough of them
no connection is accepted any more. `driver_manager` assumes the same of the threads; mutexes
are not assumed fair (no strong fairness), and clients need not send arguments.
`command_stream` assumes that the session thread runs when it can and that a client
inside a call goes on with it (`Send`, `Sent`, `RecvAll`, `RecvAllRaises`, `Received`);
nobody has to make a call, to leave, or to stop the server. `websocket_session` assumes the
same of the session thread, that the network delivers (`Put`, `Fetch`), and that the process ends
after it has deleted its sessions (`ThreadEnds` of a dropped link). `instrument_store`
assumes that the application and its script go on (`Application`), since systemd starts them again
(`Restart=always`), and that an upload ends; `Recovers` holds unless kills and losses of power never
stop, and if the default instrument has a file. Nobody has to send a request or to connect, and the
network need not come up. `websocket_pool` assumes that timers fire, that sockets open unless they close, that
the server answers and that functions return; `phase_noise_analyzer` that the thread of the measurement runs,
and nothing of the engine or of the other session. `clock_generator` checks safety only.

## Proofs

Every safety property of a passing run, invariant or action property, is a theorem, for every
value of the constants that the named assumptions of the modules allow; TLC evaluates these
assumptions on the instances. Each proof is an inductive invariant that implies the property, a
lemma per action (or group of actions) that it is kept, and a temporal step. The inductive
invariants were checked with TLC on the instances of the runs before they were proved; they
are not among the properties of a run.

**Session manager and server** (`KoheronServerProofs`), for any set of connections, channels
and worker limits.
* `SMInvariant`: `SMInv` is inductive. It adds to the properties that the mutex
  is held exactly in the critical sections (`MutexInv`), that the entry found is still
  there when it is erased (`ArgInv`), what the counter has not followed yet
  (`CountInv`), that a pooled session is under the identifier its thread holds
  (`OwnerInv`, `OwnInv`), and which descriptors are open (`FdInv`). The heart is that a
  finite set of naturals without gaps is `0 .. n-1` (`DenseSet`): with an empty stack
  the counter is the least identifier not in use, which is why `create_session` may
  take it. Hence `IdentifiersAreFresh`, `ThreadsOwnTheirSession`, `DescriptorsAreClosed`,
  `SMTypeCorrect`.
* `TableRefinement`: `CreateInsert` opens, `DeleteErase` closes, the rest stutters.
* `ThreadsRunTheirSession` and `AbortsOnlyForACause`, from `ServerInv`: main calls
  the manager only once an exit was requested, and a thread that runs a session has
  created it and not called `delete_session`. So before an exit is requested the process is
  aborted only from within a command, or by a lookup that meets a change of the map. The lemma
  `ServerImplementsManager` (a step of the server is one of the manager or leaves it alone, as the
  modules are composed) carries `SMInv` over.
* `SlotsAreCounted` and `ReadyServesChannels`, from `ListenersInv`: the counter of a channel is
  the number of threads between its two updates (`SlotsInv`), because a connection keeps the
  channel it came through and a descriptor that a comm thread holds is served by nobody yet
  (`OriginInv`); a channel listens from its `listen` to the shutdown (`StartInv`), and its
  comm thread is there from then until `exit_comm` (`CommInv`).

**Driver manager** (`DriverManagerProofs`), for any drivers, dependencies (circular or not) and
sessions.
* `DMInvariant`: `DMInv` is inductive. The stack of the one thread inside `alloc_driver`
  follows the dependencies (`StackInv`): every call but the last is a constructor that
  waits for the driver of the next call, its driver is starting and is there once, and
  the references it has got are bound or known to be null. A driver (`DriverInv`) is
  absent, or under construction by one call, or constructed and being published by the
  last call, or complete. That is why the two tests at the entry of `alloc_driver` are
  enough: a driver that is neither started nor starting is absent, because the last
  call is then at its entry and cannot be the one that publishes it.
* `DriverTypes`, `DriversConstructedOnce`, `OperationsBound`.
* `DevicesFound`, whatever the order of the two stores: a thread that has taken the mutex finds the
  driver complete (`DriverInv`), and one that has not may miss the device only if it was missing
  when the command came (`CallInv`).
* `FailureExits`: a null reference has made the server exit, if no circle of dependencies can be
  reached from `Common`. The hypothesis `CommonIsAcyclic` is a rank that falls along the
  dependencies below `Common`; the run's instance has one, and a circle elsewhere. Without it the
  statement is false: the constructor of the server resets `exit_all` (see above). The
  stack of the main thread goes down the ranks (`StartupInv`), so the main thread
  gets no null reference before it serves, and afterwards nothing resets `exit_all`.

**Command stream** (`CommandStreamProofs`), for any operations and layouts, header and length
sizes, buffers and number of calls: `StreamStaysInPlace`, `CallsRunInOrder`,
`AnswersReachTheirCall`, from `StreamInv`, with a client that leaves, a connection that breaks and a
server that stops at any byte. Its heart is `OrderInv`: if the server understands all
calls, there is one call `c` such that the calls before it were executed in order and no
other (`Served`), the session stands in call `c` at the byte its parser state tells, or
will never read again (`StandsAt`), and the client waits for an answer that is not begun, or
is being written, or for none (`AnswersAt`). Void calls have no answer, so several calls may lie
between the two. `Least` is the least-number principle, from the well-foundedness of the
naturals: it gives the first call with an answer.

**WebSocket session** (`WebSocketSessionProofs`), for any sizes of frames, limits and buffers:
`FramesStayInPlace`, `CommandsInOrder`, `SessionsEndForACause`, from `WsInv`: what is in the read buffer
begins where the frame after those executed begins, and what is wanted is the rest of its
header or of the frame (`PlaceInv`); answers follow each other and between two the session owes
nothing (`AnswersInv`); the client sends no frame before the answer to its handshake
(`HandshakeInv`).

**Instrument store and C++ client** (`InstrumentProofs`), for any finite set of instruments, any
versions and firmware.
* `ListIsOfFiles` and `OnlyTheLiveIsServed`, from `StoreInv`. Only the instrument that is being uploaded or
  deleted may be listed otherwise than its file says (`FilesInv`), and since no two entries have a
  name in common (`UniqueNames`), removing the first entry of a name removes it (`ListWithout`).
  `LiveInv` follows the script: what an install or a boot that may fail at any point has left in the
  live directory, and which server, if one, the network may have started meanwhile.
* `ClientKeepsStore`: beside a client the store makes steps of `InstrumentStore`, or none; hence
  `ListIsOfFilesWithClients` and `OnlyTheLiveIsServedWithClients`, which is what the run checks.
* `ConnectsAsAsked`, from `ClientInv`: from the moment the client has seen its firmware live until
  another install begins, the live directory and the server, if one runs, are of that firmware, and
  no install is past its first step (`AsSeen`). A kill changes neither of these, a loss of power counts as
  an install.

**Bus and clock generator** (`ClockGeneratorProofs`), for any threads, slaves, registers,
calls and configurations: `MessagesReach`, `ReadsReach`, `MembersMatch`, from `Inv`. `BusInv`: the
mutex of the bus is held from the address to the end of the message, and the cached address is that
of the kernel. `CallInv`: the mutexes of the drivers keep two calls of one driver apart, which is
what keeps the two messages of a read together in a slave that no other driver uses.
`ClockInv` says how far a `configure` that overlaps no other has come.

**DMA** (`PhaseNoiseAnalyzerProofs`), for any channels, rates, number of averages and of sleeps:
`MeasurementsAreCurrent`, from `PhaseNoiseInv`. As long as nobody intruded, the address is the analyzer's
once it has set it, a transfer that an operation started itself is of the present parameters, since
nothing sets them during an operation (`OwnIsCurrent`), and a wait that did not give up saw it
completed (`WaitedIsIdle`). What the other session may have left half-done before is no part of it: the
reset at the beginning of a transfer ends that.

**Pool of the TypeScript client** (`WebSocketPoolProofs`), for any sockets and requests:
`SocketsAccounted` and `AnswersReach`, from `PoolInv`. `Accounted`: the identifiers given out so far are
free, in use by one request, or lost to an exception, and no two of these. `InflightInv`: the last
command on its way on a socket is the read of the request that holds it, if there is one, so the
next answer that somebody waits for is his.

The assumptions on the constants, beyond types and that markers such as `None` are no values:
the sizes of headers, buffers and lengths are not zero (`LayoutAssumption`, `WebSocketAssumption`); the
length at which `read_n_bytes` takes its buffer for full is not that of a header or of the handshake
request, and the room it keeps free holds a header (`WebSocketAssumption`); `Common` is a driver and the server is none (`DriverAssumption`); a call of
the I2C drivers has at least one step (`BusAssumption`); at least one average is taken
and the users of the DMA are the analyzer and one other session (`AnalyzerAssumption`); the limits
on descriptors are numbers (`ChannelAssumption`); the pool has a socket, and loading the commands is one
of the reads (`PoolAssumption`); the main thread is no session (`CallersAreDistinct`); the names of the instruments are finitely many
and the default is one of them (`StoreAssumption`).

Only model-checked: liveness under fairness (out of the prover's reach), and the two
disagreements with the code's words, which are violations.

## Not modelled, and the plan

What is left to prove: that the connections of `CommandStream` and `WebSocketSession` implement
one abstract specification of a command channel (calls executed in order, each answered
once), which needs that specification first; and action properties of the components whose
states are proved.

Not modelled, because there is nothing in them that steps could get wrong:
* `Serializer` and the encoding of arguments in the clients: pure functions of their input, which
  the tests of the repository cover; `CommandStream` models what they do to lengths.
* `SpiDev`, memory maps, FPGA manager, clocks of the context: opened once at the start, before any
  session, and without state afterwards (nothing calls `fpga_rewrite_bitsream`).
* Of the C++ client the encoding of arguments, the parsing of JSON and the type checks of calls:
  functions of their input. Its descriptors: one client, no interleaving.
* Register-level drivers and FPGA cores: each operation writes registers and keeps no state
  that another could find stale; what the logic behind the registers does is HDL.
* First-stage boot loaders (`boards/*/patches/fsbl`) and other vendored or generated code: most of the lines of the repository, none of its own logic.
* Build scripts, log formatting, the backtrace of the crash handler (which then sets `s_interrupted` and returns).
