--------------------------- MODULE DriverManager ---------------------------
(***************************************************************************)
(* Lazy allocation and dispatch of the drivers                             *)
(* (server/core/drivers_manager.hpp and .cpp, the generated Driver<>       *)
(* classes of server/templates/interface_driver.*, server_commands.cpp).   *)
(* A session thread that executes a command tests is_started without a     *)
(* lock; if the driver is not started it takes the recursive mutex and     *)
(* constructs it, and the constructor gets the drivers it depends on       *)
(* through the context, recursively.  The operation itself runs under the  *)
(* mutex of its Driver<> object.  The main thread starts Common from the   *)
(* constructor of the server.                                              *)
(***************************************************************************)
EXTENDS Integers, Sequences, FiniteSets

CONSTANTS Drivers,       \* the drivers of the instrument (ids 2 and up)
          Common,        \* the one the server starts itself
          ServerDriver,  \* driver 1: answered by Server::execute
          Deps,          \* per driver: what its constructor gets, in order
          Sessions,      \* the session threads
          Main, Nobody

Threads == Sessions \cup {Main}
Targets == Drivers \cup {ServerDriver}

ASSUME DriverAssumption ==
  /\ Common \in Drivers
  /\ ServerDriver \notin Drivers
  /\ Deps \in [Drivers -> Seq(Drivers)]
  /\ Main \notin Sessions
  /\ Nobody \notin Threads

VARIABLES
  process,       \* "up", "exited", "out_of_bounds", or the null pointer that crashed it
  exit_all,
  pc, cmd,       \* per thread: program point, driver of its command
  raced,         \* per thread: it may still read the device as null, see Command
  frames,        \* per thread: the alloc_driver calls in progress, outermost first
  mutex,         \* the thread that holds the recursive mutex, or Nobody
  is_started,    \* DriverManager::is_started
  is_starting,   \* DriverContainer::is_starting
  driver_tuple,  \* how often the driver object was constructed, 0 for null
  device_list,   \* how often its Driver<> object was, 0 for null
  null_refs,     \* pairs: the constructor of the first got a null second
  driver_mutex   \* per target: the thread inside execute, or Nobody

vars == <<process, exit_all, pc, cmd, raced, frames, mutex, is_started, is_starting,
          driver_tuple, device_list, null_refs, driver_mutex>>

\* The atomic exit_all has no initial value.
Init ==
  /\ process = "up"
  /\ exit_all \in BOOLEAN
  /\ pc = [t \in Threads |-> IF t = Main THEN "dispatch" ELSE "idle"]
  /\ cmd = [t \in Threads |-> Common]
  /\ raced = [t \in Threads |-> TRUE]
  /\ frames = [t \in Threads |-> <<>>]
  /\ mutex = Nobody
  /\ is_started = [d \in Drivers |-> FALSE]
  /\ is_starting = [d \in Drivers |-> FALSE]
  /\ driver_tuple = [d \in Drivers |-> 0]
  /\ device_list = [d \in Drivers |-> 0]
  /\ null_refs = {}
  /\ driver_mutex = [d \in Targets |-> Nobody]

Goto(t, from, to) == pc[t] = from /\ pc' = [pc EXCEPT ![t] = to]

alloc == <<frames, mutex, is_started, is_starting, driver_tuple, device_list,
           null_refs>>

-----------------------------------------------------------------------------
(* DriverManager::execute and get *)

\* Session::run passes a command on once the server is constructed.  (One for
\* driver 0 returns at once.)  Nothing orders the two loads of execute but the
\* mutex: a thread that does not take it may read device_list as it was when the
\* command came, even after it read is_started.
Command(s, d) ==
  /\ pc[Main] = "serving"
  /\ Goto(s, "idle", "dispatch")
  /\ cmd' = [cmd EXCEPT ![s] = d]
  /\ raced' = [raced EXCEPT ![s] = d \in Drivers => device_list[d] = 0]
  /\ UNCHANGED <<process, exit_all, alloc, driver_mutex>>

\* The driver's number is read from the client, and the assert that it is one is
\* compiled out (NDEBUG).  With any other, execute reads past its arrays, and calls
\* a pointer that is none: the process ends here.
NoSuchDriver(s) ==
  /\ pc[Main] = "serving" /\ pc[s] = "idle"
  /\ process' = "out_of_bounds"
  /\ UNCHANGED <<exit_all, pc, cmd, raced, alloc, driver_mutex>>

\* Bug variant of Dispatch: every command takes the lock.
DispatchLocked(t) ==
  /\ Goto(t, "dispatch", IF cmd[t] = ServerDriver THEN "wait" ELSE "lock")
  /\ UNCHANGED <<process, exit_all, cmd, raced, alloc, driver_mutex>>

\* The test of is_started, without the lock.
Dispatch(t) ==
  /\ Goto(t, "dispatch",
          IF cmd[t] = ServerDriver THEN "wait"
          ELSE IF is_started[cmd[t]] THEN "run" ELSE "lock")
  /\ UNCHANGED <<process, exit_all, cmd, raced, alloc, driver_mutex>>

Call(d) == [driver |-> d, next |-> 0, left |-> {"device", "flag"}]

\* Bug variant of Lock: alloc_driver does not take the mutex.
LockNothing(t) ==
  /\ Goto(t, "lock", "alloc")
  /\ frames' = [frames EXCEPT ![t] = <<Call(cmd[t])>>]
  /\ UNCHANGED <<process, exit_all, cmd, raced, mutex, is_started, is_starting,
                 driver_tuple, device_list, null_refs, driver_mutex>>

\* alloc_driver, called from outside: take the recursive mutex, and with it see
\* what its last holder stored.
Lock(t) ==
  /\ Goto(t, "lock", "alloc")
  /\ mutex = Nobody
  /\ mutex' = t
  /\ raced' = [raced EXCEPT ![t] = FALSE]
  /\ frames' = [frames EXCEPT ![t] = <<Call(cmd[t])>>]
  /\ UNCHANGED <<process, exit_all, cmd, is_started, is_starting, driver_tuple,
                 device_list, null_refs, driver_mutex>>

-----------------------------------------------------------------------------
(* alloc_driver and the constructors, under the mutex.  A frame is a call  *)
(* of alloc_driver: next = 0 at its entry, i while the constructor gets    *)
(* its i-th dependency; left holds the stores it has still to make.        *)

Depth(t) == Len(frames[t])
Top(t) == frames[t][Depth(t)]
Constructs(t) == pc[t] = "alloc" /\ Top(t).next \in 1 .. Len(Deps[Top(t).driver])

\* alloc_driver returns: to the constructor of the driver below, which binds
\* *driver_tuple whatever it is, or, with the mutex released, to the caller.
Return(t) ==
  LET d == Top(t).driver
      n == Depth(t) - 1
      caller == frames[t][n]
  IN \/ /\ n = 0
        /\ frames' = [frames EXCEPT ![t] = <<>>]
        /\ mutex' = Nobody
        /\ Goto(t, "alloc", "run")
        /\ UNCHANGED null_refs
     \/ /\ n > 0
        /\ frames' = [frames EXCEPT ![t] = Append(SubSeq(@, 1, n - 1),
                                                  [caller EXCEPT !.next = @ + 1])]
        /\ null_refs' = IF driver_tuple[d] = 0
                        THEN null_refs \cup {<<caller.driver, d>>} ELSE null_refs
        /\ UNCHANGED <<pc, mutex>>

\* Bug variants of AllocDriver: is_started is not tested again under the
\* lock; the failure is not reported.
AllocDriverOnce(t) ==
  LET d == Top(t).driver
  IN /\ pc[t] = "alloc" /\ Top(t).next = 0
     /\ is_starting' = [is_starting EXCEPT ![d] = driver_tuple[d] = 0]
     /\ frames' = [frames EXCEPT ![t][Depth(t)].next =
                      IF driver_tuple[d] = 0 THEN 1 ELSE Len(Deps[d]) + 2]
     /\ UNCHANGED <<exit_all, pc, mutex, null_refs>>
     /\ UNCHANGED <<process, cmd, raced, is_started, driver_tuple, device_list,
                    driver_mutex>>

AllocDriverSilent(t) ==
  LET d == Top(t).driver
  IN /\ pc[t] = "alloc" /\ Top(t).next = 0
     /\ \/ /\ is_started[d] \/ is_starting[d]
           /\ Return(t)
           /\ UNCHANGED is_starting
        \/ /\ ~is_started[d] /\ ~is_starting[d]
           /\ is_starting' = [is_starting EXCEPT ![d] = TRUE]
           /\ frames' = [frames EXCEPT ![t][Depth(t)].next = 1]
           /\ UNCHANGED <<pc, mutex, null_refs>>
     /\ UNCHANGED <<process, exit_all, cmd, raced, is_started, driver_tuple, device_list,
                    driver_mutex>>

\* The entry of alloc_driver: another thread was faster; or the driver is
\* being constructed further down the stack, a circular dependency that makes
\* the server exit; or its construction begins.
AllocDriver(t) ==
  LET d == Top(t).driver
  IN /\ pc[t] = "alloc" /\ Top(t).next = 0
     /\ \/ /\ is_started[d]
           /\ Return(t)
           /\ UNCHANGED <<exit_all, is_starting>>
        \/ /\ ~is_started[d] /\ is_starting[d]
           /\ exit_all' = TRUE
           /\ Return(t)
           /\ UNCHANGED is_starting
        \/ /\ ~is_started[d] /\ ~is_starting[d]
           /\ is_starting' = [is_starting EXCEPT ![d] = TRUE]
           /\ frames' = [frames EXCEPT ![t][Depth(t)].next = 1]
           /\ UNCHANGED <<exit_all, pc, mutex, null_refs>>
     /\ UNCHANGED <<process, cmd, raced, is_started, driver_tuple, device_list,
                    driver_mutex>>

\* Bug variant of GetDependency: get does not allocate.
GetDependencyOnly(t) ==
  /\ Constructs(t)
  /\ frames' = [frames EXCEPT ![t][Depth(t)].next = @ + 1]
  /\ UNCHANGED <<process, exit_all, pc, cmd, raced, mutex, is_started, is_starting,
                 driver_tuple, device_list, null_refs, driver_mutex>>

\* A constructor calls ctx.get for its next dependency.
GetDependency(t) ==
  LET d == Deps[Top(t).driver][Top(t).next]
  IN /\ Constructs(t)
     /\ frames' = IF is_started[d]
                  THEN [frames EXCEPT ![t][Depth(t)].next = @ + 1]
                  ELSE [frames EXCEPT ![t] = Append(@, Call(d))]
     /\ UNCHANGED <<process, exit_all, pc, cmd, raced, mutex, is_started, is_starting,
                    driver_tuple, device_list, null_refs, driver_mutex>>

\* The constructor returns and driver_tuple owns the object.
Construct(t) ==
  LET d == Top(t).driver
  IN /\ pc[t] = "alloc" /\ Top(t).next = Len(Deps[d]) + 1
     /\ driver_tuple' = [driver_tuple EXCEPT ![d] = @ + 1]
     /\ is_starting' = [is_starting EXCEPT ![d] = FALSE]
     /\ frames' = [frames EXCEPT ![t][Depth(t)].next = @ + 1]
     /\ UNCHANGED <<process, exit_all, pc, cmd, raced, mutex, is_started, device_list,
                    null_refs, driver_mutex>>

Stores(t, v) ==
  /\ pc[t] = "alloc" /\ Top(t).next = Len(Deps[Top(t).driver]) + 2
  /\ v \in Top(t).left
  /\ frames' = [frames EXCEPT ![t][Depth(t)].left = @ \ {v}]
  /\ UNCHANGED <<process, exit_all, pc, cmd, raced, mutex, is_starting, driver_tuple,
                 null_refs, driver_mutex>>

StoreDevice(t) ==
  /\ Stores(t, "device")
  /\ device_list' = [device_list EXCEPT ![Top(t).driver] = @ + 1]
  /\ UNCHANGED is_started

\* is_started and device_list are plain memory: a thread that reads them
\* without the lock may see the stores in either order.
StoreFlag(t) ==
  /\ Stores(t, "flag")
  /\ is_started' = [is_started EXCEPT ![Top(t).driver] = TRUE]
  /\ UNCHANGED device_list

Allocated(t) ==
  /\ pc[t] = "alloc" /\ Top(t).left = {}
  /\ Return(t)
  /\ UNCHANGED <<process, exit_all, cmd, raced, is_started, is_starting, driver_tuple,
                 device_list, driver_mutex>>

-----------------------------------------------------------------------------
(* Driver<>::execute, called through device_list.                          *)

RunDevice(s) ==
  /\ s # Main
  /\ pc[s] = "run"
  /\ \/ /\ device_list[cmd[s]] = 0 \/ raced[s]
        /\ process' = "null_device"
        /\ UNCHANGED <<pc, raced>>
     \/ /\ device_list[cmd[s]] # 0
        /\ Goto(s, "run", "wait")
        /\ raced' = [raced EXCEPT ![s] = TRUE]
        /\ UNCHANGED process
  /\ UNCHANGED <<exit_all, cmd, alloc, driver_mutex>>

\* Bug variant of LockDriver: one mutex for all the drivers.
LockDriverShared(s) ==
  /\ Goto(s, "wait", "args")
  /\ \A d \in Targets : driver_mutex[d] = Nobody
  /\ driver_mutex' = [driver_mutex EXCEPT ![cmd[s]] = s]
  /\ UNCHANGED <<process, exit_all, cmd, raced, alloc>>

LockDriver(s) ==
  /\ Goto(s, "wait", "args")
  /\ driver_mutex[cmd[s]] = Nobody
  /\ driver_mutex' = [driver_mutex EXCEPT ![cmd[s]] = s]
  /\ UNCHANGED <<process, exit_all, cmd, raced, alloc>>

\* The arguments are received under the mutex, from a client that may take its
\* time; without them the operation is not run.
ReceiveArgs(s) ==
  /\ Goto(s, "args", "operation")
  /\ UNCHANGED <<process, exit_all, cmd, raced, alloc, driver_mutex>>

ArgsFail(s) ==
  /\ Goto(s, "args", "idle")
  /\ driver_mutex' = [driver_mutex EXCEPT ![cmd[s]] = Nobody]
  /\ UNCHANGED <<process, exit_all, cmd, raced, alloc>>

NullRef(d) == \E e \in Drivers : <<d, e>> \in null_refs

\* The operation of the driver, which may use the drivers it depends on.
Operation(s) ==
  /\ pc[s] = "operation"
  /\ \/ /\ Goto(s, "operation", "idle")
        /\ driver_mutex' = [driver_mutex EXCEPT ![cmd[s]] = Nobody]
        /\ UNCHANGED process
     \/ /\ NullRef(cmd[s])
        /\ process' = "null_reference"
        /\ UNCHANGED <<pc, driver_mutex>>
  /\ UNCHANGED <<exit_all, cmd, raced, alloc>>

-----------------------------------------------------------------------------
(* The main thread: the constructor of the server, then the loop of run(). *)

\* Common.init(), without the mutex of Driver<Common>.
InitCommon ==
  /\ pc[Main] = "run"
  /\ \/ Goto(Main, "run", "store_flags") /\ UNCHANGED process
     \/ NullRef(Common) /\ process' = "null_reference" /\ UNCHANGED pc
  /\ UNCHANGED <<exit_all, cmd, raced, alloc, driver_mutex>>

StoreFlags ==
  /\ Goto(Main, "store_flags", "serving")
  /\ exit_all' = FALSE
  /\ UNCHANGED <<process, cmd, raced, alloc, driver_mutex>>

\* run() leaves its loop and the process ends.
ServerExit ==
  /\ pc[Main] = "serving"
  /\ exit_all
  /\ process' = "exited"
  /\ UNCHANGED <<exit_all, pc, cmd, raced, alloc, driver_mutex>>

-----------------------------------------------------------------------------
Allocate(t) ==
  \/ Lock(t) \/ AllocDriver(t) \/ GetDependency(t) \/ Construct(t)
  \/ StoreDevice(t) \/ StoreFlag(t) \/ Allocated(t)

Execute(s) ==
  \/ RunDevice(s) \/ LockDriver(s) \/ Operation(s)

Thread(t) ==
  \/ Dispatch(t) \/ Allocate(t)
  \/ t \in Sessions /\ Execute(t)
  \/ t = Main /\ (InitCommon \/ StoreFlags \/ ServerExit)

Clients(s) ==
  \/ \E d \in Targets : Command(s, d)
  \/ NoSuchDriver(s) \/ ReceiveArgs(s) \/ ArgsFail(s)

Next ==
  \/ /\ process = "up"
     /\ (\E t \in Threads : Thread(t)) \/ (\E s \in Sessions : Clients(s))
  \/ process # "up" /\ UNCHANGED vars

\* Threads that can run do; clients owe neither commands nor arguments.  The
\* mutexes are not fair: a thread may be overtaken for ever.
Spec == Init /\ [][Next]_vars
FairSpec == Spec /\ \A t \in Threads : WF_vars(process = "up" /\ Thread(t))

-----------------------------------------------------------------------------
(* Properties *)

Points == {"idle", "dispatch", "lock", "alloc", "run", "wait", "args", "operation",
           "store_flags", "serving"}
Frame == [driver : Drivers, next : Nat, left : SUBSET {"device", "flag"}]

\* Every variable keeps its type, and the thread inside alloc_driver is the one
\* that holds the mutex and has a call on its stack.
TypeOK ==
  /\ process \in {"up", "exited", "out_of_bounds", "null_device", "null_reference"}
  /\ exit_all \in BOOLEAN
  /\ pc \in [Threads -> Points]
  /\ cmd \in [Threads -> Targets]
  /\ raced \in [Threads -> BOOLEAN]
  /\ frames \in [Threads -> Seq(Frame)]
  /\ \A t \in Threads : pc[t] = "alloc" <=> frames[t] # <<>>
  /\ \A t \in Threads : pc[t] = "alloc" <=> mutex = t
  /\ mutex \in Threads \cup {Nobody}
  /\ is_started \in [Drivers -> BOOLEAN]
  /\ is_starting \in [Drivers -> BOOLEAN]
  /\ driver_tuple \in [Drivers -> Nat]
  /\ device_list \in [Drivers -> Nat]
  /\ null_refs \subseteq Drivers \X Drivers
  /\ driver_mutex \in [Targets -> Threads \cup {Nobody}]

\* drivers_table.hpp: "single instantiation of each driver", and of the Driver<>
\* object that holds its mutex, which a second allocation would destroy under
\* the threads that use it.
SingleInstance == \A d \in Drivers : driver_tuple[d] <= 1 /\ device_list[d] <= 1

\* execute dispatches to a device that is there, although alloc_driver may return
\* without one (only a call nested in a constructor can fail): a null device can be
\* met only by a command that came before its driver had one and read is_started
\* without ever taking the mutex, and even then the driver is constructed.
DeviceFoundUnlessRaced ==
  \A s \in Sessions :
     pc[s] = "run" => IF raced[s] THEN driver_tuple[cmd[s]] = 1
                                  ELSE device_list[cmd[s]] = 1

\* While an operation of a driver runs, each driver its constructor asked for
\* exists, or the circular dependency was detected and the reference is null.
DependenciesBound ==
  \A s \in Sessions :
     pc[s] = "operation" /\ cmd[s] # ServerDriver =>
        \A i \in DOMAIN Deps[cmd[s]] :
           LET e == Deps[cmd[s]][i]
           IN driver_tuple[e] = 1 \/ <<cmd[s], e>> \in null_refs

\* "Failed to allocate driver [%u] %s. Exiting server...": once a constructor
\* got a null reference the server that serves has been told to exit.
AllocationFailureExits == null_refs # {} /\ pc[Main] = "serving" => exit_all

\* A thread that needs a driver to be started gets it started, although the
\* mutex is not fair: only threads that wait for an unstarted driver take it,
\* and the recursion over the dependencies ends, circular or not.
StartsEventually ==
  \A t \in Threads : \A d \in Drivers :
     pc[t] = "lock" /\ cmd[t] = d ~> (is_started[d] \/ process # "up")

\* A client that keeps the arguments of its command back, for which the parser waits
\* with the mutex of the driver, stops only the sessions that call this driver: a
\* command gets to its own arguments unless another session uses the same driver.
WaitsForItsDriver ==
  \A s \in Sessions : \A d \in Targets :
     pc[s] \in {"dispatch", "lock", "alloc", "run", "wait"} /\ cmd[s] = d
       ~> \/ pc[s] = "args" \/ process # "up"
          \/ driver_mutex[d] \notin {s, Nobody}

(***************************************************************************)
(* The inductive invariant behind SingleInstance, DependenciesBound and    *)
(* DeviceFoundUnlessRaced.                                                 *)
(***************************************************************************)

\* How far the call of a frame has come.
Begun(f) == f.next \in 1 .. Len(Deps[f.driver]) + 1
Publishes(f) == f.next = Len(Deps[f.driver]) + 2

Bound(d, e) == driver_tuple[e] = 1 \/ <<d, e>> \in null_refs

\* The stack of a thread follows the dependencies: every call but the last waits
\* for the next one.  A driver whose construction began is starting, and below
\* the last call no driver is there twice.
WaitsForNext(t, i) ==
  LET f == frames[t][i]
  IN /\ f.next \in 1 .. Len(Deps[f.driver])
     /\ frames[t][i + 1].driver = Deps[f.driver][f.next]

FrameInv(t, i) ==
  LET f == frames[t][i]
  IN /\ f.next \in 0 .. Len(Deps[f.driver]) + 2
     /\ Begun(f) => /\ is_starting[f.driver]
                    /\ \A j \in 1 .. f.next - 1 : Bound(f.driver, Deps[f.driver][j])
     /\ f.next # 0 => \A j \in 1 .. i - 1 : frames[t][j].driver # f.driver
     /\ ~Publishes(f) => f.left = {"device", "flag"}
     /\ Publishes(f) =>
          /\ driver_tuple[f.driver] = 1
          /\ is_started[f.driver] <=> "flag" \notin f.left
          /\ device_list[f.driver] = 0 <=> "device" \in f.left

StackInv ==
  \A t \in Threads :
     /\ frames[t] # <<>> => frames[t][1].driver = cmd[t]
     /\ \A i \in 1 .. Len(frames[t]) : FrameInv(t, i)
     /\ \A i \in 1 .. Len(frames[t]) - 1 : WaitsForNext(t, i)

\* A driver is absent, or being constructed by one frame, or being published by
\* one, or there with its flag and its device.
Starting(d) ==
  \E t \in Threads : \E i \in 1 .. Len(frames[t]) :
     frames[t][i].driver = d /\ Begun(frames[t][i])

Publishing(d) ==
  \E t \in Threads : frames[t] # <<>> /\ Top(t).driver = d /\ Publishes(Top(t))

DriverState(d) ==
  /\ driver_tuple[d] \in {0, 1} /\ device_list[d] \in {0, 1}
  /\ driver_tuple[d] = 0 => device_list[d] = 0 /\ ~is_started[d]
  /\ is_starting[d] => driver_tuple[d] = 0 /\ Starting(d)
  /\ driver_tuple[d] = 1 =>
       /\ (is_started[d] /\ device_list[d] = 1) \/ Publishing(d)
       /\ \A j \in 1 .. Len(Deps[d]) : Bound(d, Deps[d][j])

DriverInv == \A d \in Drivers : DriverState(d)

\* A command is for a driver that is there once its thread waits for the mutex
\* of the driver, and has a device once alloc_driver or the test let it pass.
HasDevice(d) == d \in Drivers /\ device_list[d] = 1

CallInv ==
  /\ cmd[Main] = Common
  /\ \A t \in Threads :
       /\ pc[t] \in {"lock", "alloc", "run"} => cmd[t] \in Drivers
       /\ pc[t] \in {"wait", "args", "operation"} /\ cmd[t] # ServerDriver =>
            driver_tuple[cmd[t]] = 1
       /\ pc[t] = "dispatch" /\ ~raced[t] => HasDevice(cmd[t])
       /\ pc[t] = "run" => IF raced[t] THEN driver_tuple[cmd[t]] = 1
                                       ELSE HasDevice(cmd[t])

DMInv == TypeOK /\ StackInv /\ DriverInv /\ CallInv
=============================================================================
