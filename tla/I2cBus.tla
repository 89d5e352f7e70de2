------------------------------- MODULE I2cBus -------------------------------
(***************************************************************************)
(* The I2C bus of a board and the operations of its drivers that use it    *)
(* (server/context/i2c_dev.hpp; boards/alpha250/drivers/eeprom.hpp and     *)
(* power-monitor.hpp).                                                     *)
(*                                                                         *)
(* A session thread that calls an operation holds the mutex of the driver  *)
(* it was addressed to, and no other: what this driver calls in others is  *)
(* part of the same call.  A call is the sequence of its steps.  This      *)
(* module takes the steps on the bus: a register of a slave is written, or *)
(* selected by one message and read by the next.  The bus has a mutex of   *)
(* its own, held for one message.  The data are left out.                  *)
(***************************************************************************)
EXTENDS Naturals, Sequences

CONSTANTS Threads,    \* of sessions
          Calls,      \* [driver, steps]
          Slaves, Registers,
          Eeproms,    \* slaves that do not answer while they program a page
          MaxRetries, \* Eeprom::__write, max_retries
          None

BusOps == {"read", "write"}
BusStep(s) == s.op \in BusOps /\ s.slave \in Slaves /\ s.reg \in Registers
Steps == UNION {{c.steps[i] : i \in DOMAIN c.steps} : c \in Calls}

ASSUME BusAssumption ==
  /\ Eeproms \subseteq Slaves /\ MaxRetries \in Nat \ {0}
  /\ None \notin Threads /\ None \notin Calls /\ None \notin Slaves \cup Registers
  /\ \A c \in Calls : c.steps \in Seq(Steps) /\ c.steps # <<>>
  /\ \A s \in Steps : s.op \in BusOps => BusStep(s)

VARIABLES
  call, todo,  \* per thread: the call it serves or None, what is left of its steps
  at,          \* program point in the first of these
  message,     \* "select" or "read": which message of a step on the bus
  tries,       \* of Eeprom::__write
  mutex,       \* of I2cDev: the thread that holds it, or None
  last_addr,   \* the cached address, None if not set
  slave,       \* the address the kernel has
  pointer,     \* per slave: the register its next read starts from
  busy         \* the slaves that program a page

local == <<message, tries>>
bus == <<mutex, last_addr, slave, pointer, busy>>
busVars == <<call, todo, at, message, tries, mutex, last_addr, slave, pointer, busy>>

\* The context was built and the start of the server has used the bus.
BusInit ==
  /\ call = [t \in Threads |-> None] /\ todo = [t \in Threads |-> <<>>]
  /\ at = [t \in Threads |-> "step"] /\ message = [t \in Threads |-> "select"]
  /\ tries = [t \in Threads |-> 0]
  /\ mutex = None
  /\ last_addr \in Slaves \cup {None} /\ slave = last_addr
  /\ pointer = [s \in Slaves |-> None] /\ busy = {}

-----------------------------------------------------------------------------
(* Calls *)

\* Bug variant of Begin: operations run without the mutex of their driver.
BeginUnlocked(t, c) ==
  /\ call[t] = None
  /\ call' = [call EXCEPT ![t] = c] /\ todo' = [todo EXCEPT ![t] = c.steps]
  /\ UNCHANGED <<at, local, bus>>

\* Driver<>::execute takes the mutex of the driver.
Begin(t, c) ==
  /\ call[t] = None
  /\ \A u \in Threads : call[u] # None => call[u].driver # c.driver
  /\ call' = [call EXCEPT ![t] = c] /\ todo' = [todo EXCEPT ![t] = c.steps]
  /\ UNCHANGED <<at, local, bus>>

Doing(t, op) == call[t] # None /\ Head(todo[t]).op = op
OnBus(t) == call[t] # None /\ Head(todo[t]).op \in BusOps

\* The step is done; after the last one the mutex of the driver is released.
NextStep(t) ==
  /\ todo' = [todo EXCEPT ![t] = Tail(@)]
  /\ call' = [call EXCEPT ![t] = IF Len(todo[t]) = 1 THEN None ELSE @]
  /\ at' = [at EXCEPT ![t] = "step"]

-----------------------------------------------------------------------------
(* I2cDev::write and I2cDev::read *)

\* Bug variant of Lock: I2cDev has no mutex.
LockNothing(t) ==
  /\ OnBus(t) /\ at[t] = "step"
  /\ mutex' = t
  /\ at' = [at EXCEPT ![t] = "address"]
  /\ UNCHANGED <<call, todo, local, last_addr, slave, pointer, busy>>

Lock(t) ==
  /\ OnBus(t) /\ at[t] = "step" /\ mutex = None
  /\ mutex' = t
  /\ at' = [at EXCEPT ![t] = "address"]
  /\ UNCHANGED <<call, todo, local, last_addr, slave, pointer, busy>>

\* The message was not sent.  Only Eeprom::__write tries again, after 5 ms; the
\* callers go on to their next step whatever was returned.
Failed(t) ==
  /\ mutex' = None
  /\ \/ /\ Head(todo[t]).slave \in Eeproms /\ message[t] = "select"
        /\ tries[t] + 1 < MaxRetries
        /\ tries' = [tries EXCEPT ![t] = @ + 1]
        /\ at' = [at EXCEPT ![t] = "step"]
        /\ UNCHANGED <<call, todo, message>>
     \/ /\ Head(todo[t]).slave \notin Eeproms \/ message[t] = "read"
             \/ tries[t] + 1 = MaxRetries
        /\ tries' = [tries EXCEPT ![t] = 0] /\ message' = [message EXCEPT ![t] = "select"]
        /\ NextStep(t)

\* Bug variant of Address: the address is cached before it is known to be set.
AddressCachedFirst(t) ==
  LET addr == Head(todo[t]).slave
  IN /\ OnBus(t) /\ at[t] = "address"
     /\ last_addr' = addr
     /\ UNCHANGED <<pointer, busy>>
     /\ \/ /\ slave' = IF addr = last_addr THEN slave ELSE addr
           /\ at' = [at EXCEPT ![t] = "transfer"]
           /\ UNCHANGED <<call, todo, local, mutex>>
        \/ addr # last_addr /\ UNCHANGED slave /\ Failed(t)

\* set_address: the ioctl is left out if the address is the cached one.
Address(t) ==
  LET addr == Head(todo[t]).slave
  IN /\ OnBus(t) /\ at[t] = "address"
     /\ UNCHANGED <<pointer, busy>>
     /\ \/ /\ slave' = IF addr = last_addr THEN slave ELSE addr
           /\ last_addr' = addr
           /\ at' = [at EXCEPT ![t] = "transfer"]
           /\ UNCHANGED <<call, todo, local, mutex>>
        \/ addr # last_addr /\ UNCHANGED <<slave, last_addr>> /\ Failed(t)

\* The message goes to the slave whose address the kernel has.  A page that is
\* written starts to be programmed; the pointer of an EEPROM moves past what is read.
Transfer(t) ==
  LET step == Head(todo[t])
  IN /\ OnBus(t) /\ at[t] = "transfer"
     /\ UNCHANGED <<last_addr, slave>>
     /\ \/ UNCHANGED <<pointer, busy>> /\ Failed(t)
        \/ /\ slave \notin busy /\ message[t] = "select" /\ step.op = "write"
           /\ pointer' = [pointer EXCEPT ![slave] = step.reg]
           /\ busy' = busy \cup ({slave} \cap Eeproms)
           /\ mutex' = None /\ tries' = [tries EXCEPT ![t] = 0]
           /\ NextStep(t)
           /\ UNCHANGED message
        \/ /\ slave \notin busy /\ message[t] = "select" /\ step.op = "read"
           /\ pointer' = [pointer EXCEPT ![slave] = step.reg]
           /\ mutex' = None /\ tries' = [tries EXCEPT ![t] = 0]
           /\ message' = [message EXCEPT ![t] = "read"]
           /\ at' = [at EXCEPT ![t] = "step"]
           /\ UNCHANGED <<call, todo, busy>>
        \/ /\ slave \notin busy /\ message[t] = "read"
           /\ pointer' = [pointer EXCEPT ![slave] = IF slave \in Eeproms THEN None ELSE @]
           /\ mutex' = None /\ message' = [message EXCEPT ![t] = "select"]
           /\ NextStep(t)
           /\ UNCHANGED <<tries, busy>>

\* The internal programming of an EEPROM ends.
Programmed(s) ==
  /\ s \in busy /\ busy' = busy \ {s}
  /\ UNCHANGED <<call, todo, at, local, mutex, last_addr, slave, pointer>>

-----------------------------------------------------------------------------
BusNext ==
  \/ \E t \in Threads : \/ \E c \in Calls : Begin(t, c)
                        \/ Lock(t) \/ Address(t) \/ Transfer(t)
  \/ \E s \in Slaves : Programmed(s)

BusSpec == BusInit /\ [][BusNext]_busVars

-----------------------------------------------------------------------------
(* Properties *)

BusTypeOK ==
  /\ call \in [Threads -> Calls \cup {None}]
  /\ \A t \in Threads : call[t] = None <=> todo[t] = <<>>
  /\ \A t \in Threads : OnBus(t) => /\ BusStep(Head(todo[t]))
                                    /\ at[t] \in {"step", "address", "transfer"}
  /\ message \in [Threads -> {"select", "read"}]
  /\ tries \in [Threads -> 0 .. MaxRetries - 1]
  /\ mutex \in Threads \cup {None}
  /\ last_addr \in Slaves \cup {None} /\ slave \in Slaves \cup {None}
  /\ pointer \in [Slaves -> Registers \cup {None}]
  /\ busy \subseteq Eeproms

\* Every variable keeps its type.  "Lock to avoid another process to change the driver address": a message goes to
\* the slave it is meant for, although the address is only set when it differs from
\* the cached one, setting it may fail, and other threads use the bus in between.
MessagesReachTheirSlave ==
  /\ BusTypeOK
  /\ \A t \in Threads :
       OnBus(t) /\ at[t] = "transfer" => mutex = t /\ slave = Head(todo[t]).slave

\* The drivers whose operations use a slave.
Users(s) == {c.driver : c \in {d \in Calls : \E i \in DOMAIN d.steps :
                                  d.steps[i].op \in BusOps /\ d.steps[i].slave = s}}

\* What a thread has selected is what it will read, until it has read it, in a slave
\* that one driver uses: the mutex of the driver is what keeps the two messages
\* together, which the bus does not.  A slave that several drivers use (the EEPROM)
\* has no such promise.
ReadsTheirRegister ==
  \A t \in Threads :
     LET step == Head(todo[t])
     IN OnBus(t) /\ message[t] = "read" /\ Users(step.slave) = {call[t].driver}
          => pointer[step.slave] = step.reg
=============================================================================
