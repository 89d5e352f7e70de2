------------------------ MODULE ClockGeneratorProofs ------------------------
(***************************************************************************)
(* Proofs about I2cBus and ClockGenerator, for any threads, any calls and  *)
(* any slaves: the mutex of the bus brings every message to the slave it   *)
(* is meant for; the mutexes of the drivers, and not that of the bus, keep *)
(* the two messages of a read together; and the members of the clock       *)
(* generator tell what it was programmed with as long as no two configure  *)
(* overlap.                                                                *)
(***************************************************************************)
EXTENDS ClockGenerator, SequenceTheorems, TLAPS

ClockOps == {"init", "reference", "frequency"}
BusPoints == {"address", "transfer"}
ConfigurePoints == {"assign", "assigning", "dividers", "pll", "program"}

\* Calls: what is left of a call are steps of it, and the mutexes of the
\* drivers keep two calls of one driver apart.
CallInv ==
  /\ call \in [Threads -> Calls \cup {None}]
  /\ todo \in [Threads -> Seq(Steps)]
  /\ \A t \in Threads : call[t] = None <=> todo[t] = <<>>
  /\ \A t \in Threads : \A i \in 1 .. Len(todo[t]) :
        \E j \in DOMAIN call[t].steps : todo[t][i] = call[t].steps[j]
  /\ \A t, u \in Threads :
        call[t] # None /\ call[u] # None /\ call[t].driver = call[u].driver => t = u

\* Program points: a thread on the bus is in a bus step, one in configure in a
\* step of the clock generator, and only a read has a second message.
PointInv ==
  /\ at \in [Threads -> {"step"} \cup BusPoints \cup ConfigurePoints]
  /\ message \in [Threads -> {"select", "read"}]
  /\ target \in [Threads -> Targets \cup {None}]
  /\ \A t \in Threads :
       /\ at[t] \in BusPoints => OnBus(t)
       /\ at[t] \in ConfigurePoints <=> target[t] # None
       /\ target[t] # None => call[t] # None /\ ~OnBus(t)
       /\ message[t] = "read" => OnBus(t) /\ Head(todo[t]).op = "read"

\* The bus: its mutex is held from the address to the end of the message, the
\* cached address is the one the kernel has, and what a thread selected in a
\* slave of one driver is still selected.
BusInv ==
  /\ tries \in [Threads -> 0 .. MaxRetries - 1]
  /\ mutex \in Threads \cup {None}
  /\ last_addr \in Slaves \cup {None} /\ slave \in Slaves \cup {None}
  /\ pointer \in [Slaves -> Registers \cup {None}]
  /\ busy \subseteq Eeproms
  /\ \A t \in Threads : mutex = t <=> at[t] \in BusPoints
  /\ last_addr # None => slave = last_addr
  /\ \A t \in Threads :
       at[t] = "transfer" => last_addr = Head(todo[t]).slave /\ slave = Head(todo[t]).slave
  /\ ReadsTheirRegister

ClockTypeOK ==
  /\ clkin \in Clkins /\ hw_clkin \in Clkins
  /\ clk_cfg \in Configs \cup {Torn} /\ fs_adc \in Configs \cup {Torn}
  /\ hw_cfg \in Configs \cup {Torn}
  /\ fs_selected \in Configs \cup {None}
  /\ params \in [Threads -> Configs \cup {Torn, None}]
  /\ \A t \in Threads : at[t] \in ConfigurePoints \ {"assign"} => params[t] # None

\* configure sets everything, or one of the two and keeps the other.
TargetMatchesMode(t) ==
  /\ target[t].mode = "CLKIN_SELECT" <=> target[t].cfg = None
  /\ target[t].mode = "CFG_ALL" => target[t].cfg = DefaultCfg

\* How far a configure that overlaps no other has come: the members are assigned
\* in the order of the code, and those its mode leaves alone match the hardware.
Progress(t) ==
  LET mode == target[t].mode
  IN /\ at[t] # "assign" => clkin = target[t].clkin
     /\ mode = "SAMPLING_FREQ_SET" => target[t].clkin = hw_clkin
     /\ mode = "CLKIN_SELECT" =>
          /\ clk_cfg = hw_cfg /\ fs_adc = hw_cfg /\ hw_cfg \in {fs_selected, DefaultCfg}
          /\ at[t] = "assigning" => params[t] = clk_cfg
     /\ mode # "CLKIN_SELECT" /\ at[t] \in {"dividers", "pll", "program"} =>
          clk_cfg = target[t].cfg
     /\ at[t] \in {"pll", "program"} => params[t] = clk_cfg
     /\ at[t] = "program" => fs_adc = clk_cfg

\* The clock generator: without an overlap one thread at most configures.
ClockInv ==
  /\ ClockTypeOK
  /\ \A t \in Configuring : TargetMatchesMode(t)
  /\ ~overlapped => \A t, u \in Configuring : t = u
  /\ ~overlapped => \A t \in Configuring : Progress(t)
  /\ MembersMatchHardware

\* The inductive invariant.
Inv == CallInv /\ PointInv /\ BusInv /\ ClockInv

-----------------------------------------------------------------------------
(* Calls.                                                                  *)

\* A sequence that is not empty: its first element and what is left.
LEMMA HeadAndTail ==
  ASSUME NEW S, NEW s \in Seq(S), s # <<>>
  PROVE  /\ Head(s) \in S /\ Head(s) = s[1] /\ Len(s) \in Nat \ {0}
         /\ Tail(s) \in Seq(S) /\ Len(Tail(s)) = Len(s) - 1
         /\ \A i \in 1 .. Len(Tail(s)) : Tail(s)[i] = s[i + 1] /\ i + 1 \in 1 .. Len(s)
         /\ Tail(s) = <<>> <=> Len(s) = 1
<1>1. Len(s) \in Nat \ {0} /\ Head(s) = s[1] /\ s[1] \in S
  OBVIOUS
<1>2. Tail(s) \in Seq(S) /\ Len(Tail(s)) = Len(s) - 1
  BY <1>1
<1>3. \A i \in 1 .. Len(Tail(s)) : Tail(s)[i] = s[i + 1] /\ i + 1 \in 1 .. Len(s)
  BY <1>1, <1>2
<1>4. Tail(s) = <<>> <=> Len(Tail(s)) = 0
  BY <1>2, EmptySeq
<1> QED
  BY <1>1, <1>2, <1>3, <1>4

\* The first step left of a call is one of its steps; on the bus, a bus step
\* whose slave is used by the driver of the call.
LEMMA CurrentStep ==
  ASSUME CallInv, NEW t \in Threads, call[t] # None
  PROVE  /\ Head(todo[t]) \in Steps
         /\ OnBus(t) => /\ BusStep(Head(todo[t]))
                        /\ call[t].driver \in Users(Head(todo[t]).slave)
<1>1. /\ call[t] \in Calls /\ todo[t] \in Seq(Steps) /\ todo[t] # <<>>
  BY DEF CallInv
<1>2. /\ Head(todo[t]) \in Steps /\ Head(todo[t]) = todo[t][1] /\ 1 \in 1 .. Len(todo[t])
  BY <1>1, HeadAndTail
<1>3. PICK j \in DOMAIN call[t].steps : Head(todo[t]) = call[t].steps[j]
  BY <1>2 DEF CallInv
<1>4. ASSUME OnBus(t)
      PROVE  /\ BusStep(Head(todo[t]))
             /\ call[t].driver \in Users(Head(todo[t]).slave)
  BY <1>1, <1>2, <1>3, <1>4, BusAssumption DEF OnBus, Users
<1> QED
  BY <1>2, <1>4

\* Driver<>::execute waits for the mutex of its driver.
LEMMA BeginCall ==
  ASSUME CallInv, NEW t \in Threads, NEW c \in Calls, Begin(t, c)
  PROVE  CallInv'
<1> USE DEF CallInv
<1>1. /\ call' = [call EXCEPT ![t] = c] /\ todo' = [todo EXCEPT ![t] = c.steps]
      /\ call[t] = None
      /\ \A u \in Threads : call[u] # None => call[u].driver # c.driver
  BY DEF Begin
<1>2. /\ c.steps \in Seq(Steps) /\ c.steps # <<>> /\ c # None
      /\ DOMAIN c.steps = 1 .. Len(c.steps)
  BY BusAssumption
<1>3. call' \in [Threads -> Calls \cup {None}] /\ todo' \in [Threads -> Seq(Steps)]
  BY <1>1, <1>2
<1>4. \A u \in Threads : call'[u] = None <=> todo'[u] = <<>>
  BY <1>1, <1>2
<1>5. \A u \in Threads : \A i \in 1 .. Len(todo'[u]) :
        \E j \in DOMAIN call'[u].steps : todo'[u][i] = call'[u].steps[j]
  <2> SUFFICES ASSUME NEW u \in Threads, NEW i \in 1 .. Len(todo'[u])
               PROVE  \E j \in DOMAIN call'[u].steps : todo'[u][i] = call'[u].steps[j]
    OBVIOUS
  <2>1. CASE u = t
    BY <2>1, <1>1, <1>2
  <2>2. CASE u # t
    BY <2>2, <1>1
  <2> QED
    BY <2>1, <2>2
<1>6. \A u, v \in Threads :
        call'[u] # None /\ call'[v] # None /\ call'[u].driver = call'[v].driver => u = v
  BY <1>1
<1> QED
  BY <1>3, <1>4, <1>5, <1>6

\* What the end of a step does to a thread, and what it leaves to the others.
Next1(t) ==
  /\ call' \in [Threads -> Calls \cup {None}] /\ todo' \in [Threads -> Seq(Steps)]
  /\ call'[t] \in {call[t], None}
  /\ \A u \in Threads \ {t} : call'[u] = call[u] /\ todo'[u] = todo[u]

\* A call goes on with its next step or is over.
LEMMA NextStepCall ==
  ASSUME CallInv, NEW t \in Threads, call[t] # None, NextStep(t)
  PROVE  CallInv' /\ Next1(t)
<1> USE DEF CallInv
<1>1. /\ todo' = [todo EXCEPT ![t] = Tail(todo[t])]
      /\ call' = [call EXCEPT ![t] = IF Len(todo[t]) = 1 THEN None ELSE call[t]]
  BY DEF NextStep
<1>2. todo[t] \in Seq(Steps) /\ todo[t] # <<>>
  OBVIOUS
<1>3. /\ Tail(todo[t]) \in Seq(Steps)
      /\ \A i \in 1 .. Len(Tail(todo[t])) :
            Tail(todo[t])[i] = todo[t][i + 1] /\ i + 1 \in 1 .. Len(todo[t])
      /\ Tail(todo[t]) = <<>> <=> Len(todo[t]) = 1
      /\ Len(Tail(todo[t])) = Len(todo[t]) - 1
  BY <1>2, HeadAndTail
<1>4. Next1(t)
  BY <1>1, <1>3 DEF Next1
<1>5. \A u \in Threads : call'[u] = None <=> todo'[u] = <<>>
  BY <1>1, <1>3
<1>6. \A u \in Threads : \A i \in 1 .. Len(todo'[u]) :
        \E j \in DOMAIN call'[u].steps : todo'[u][i] = call'[u].steps[j]
  <2> SUFFICES ASSUME NEW u \in Threads, NEW i \in 1 .. Len(todo'[u])
               PROVE  \E j \in DOMAIN call'[u].steps : todo'[u][i] = call'[u].steps[j]
    OBVIOUS
  <2>1. CASE u = t
    <3>1. todo'[u] = Tail(todo[t]) /\ i \in 1 .. Len(Tail(todo[t]))
      BY <2>1, <1>1
    <3>2. todo'[u][i] = todo[t][i + 1] /\ i + 1 \in 1 .. Len(todo[t])
      BY <3>1, <1>3
    <3>3. Len(todo[t]) # 1
      BY <3>1, <1>2, <1>3, HeadAndTail
    <3>4. call'[u] = call[t]
      BY <2>1, <3>3, <1>1
    <3> QED
      BY <3>2, <3>4
  <2>2. CASE u # t
    BY <2>2, <1>1
  <2> QED
    BY <2>1, <2>2
<1>7. \A u, v \in Threads :
        call'[u] # None /\ call'[v] # None /\ call'[u].driver = call'[v].driver => u = v
  BY <1>1
<1> QED
  BY <1>4, <1>5, <1>6, <1>7 DEF Next1

\* Steps that end no step of a call leave the calls alone.
LEMMA SameCalls == CallInv /\ UNCHANGED <<call, todo>> => CallInv'
  BY DEF CallInv

-----------------------------------------------------------------------------
(* The bus.                                                                *)

\* What a step of thread t leaves to the other threads.
Others(t) ==
  \A u \in Threads \ {t} :
    /\ call'[u] = call[u] /\ todo'[u] = todo[u] /\ at'[u] = at[u]
    /\ message'[u] = message[u] /\ target'[u] = target[u]

\* The others are where they were.
LEMMA OthersPoints ==
  ASSUME PointInv, NEW t \in Threads, Others(t), NEW u \in Threads \ {t}
  PROVE  /\ at'[u] \in BusPoints => OnBus(u)'
         /\ at'[u] \in ConfigurePoints <=> target'[u] # None
         /\ target'[u] # None => call'[u] # None /\ ~OnBus(u)'
         /\ message'[u] = "read" => OnBus(u)' /\ Head(todo'[u]).op = "read"
  BY DEF PointInv, Others, OnBus

\* A call begins: its thread is at its first step and has selected nothing.
LEMMA BeginKeeps ==
  ASSUME CallInv, PointInv, BusInv, NEW t \in Threads, NEW c \in Calls, Begin(t, c),
         UNCHANGED clockVars
  PROVE  PointInv' /\ BusInv'
<1>1. /\ call[t] = None /\ UNCHANGED <<at, local, bus, target>>
      /\ call' = [call EXCEPT ![t] = c] /\ todo' = [todo EXCEPT ![t] = c.steps]
  BY DEF Begin, clockVars
<1>2. Others(t)
  BY <1>1 DEF Others, CallInv, local
<1>3. at[t] \notin BusPoints /\ target[t] = None /\ message[t] = "select"
  BY <1>1 DEF PointInv, OnBus
<1>4. PointInv'
  <2>1. /\ at' \in [Threads -> {"step"} \cup BusPoints \cup ConfigurePoints]
        /\ message' \in [Threads -> {"select", "read"}]
        /\ target' \in [Threads -> Targets \cup {None}]
    BY <1>1 DEF PointInv, local
  <2>2. at'[t] \notin BusPoints /\ target'[t] = None /\ message'[t] = "select"
        /\ at'[t] \notin ConfigurePoints
    BY <1>1, <1>3 DEF PointInv, local
  <2> QED
    BY <2>1, <2>2, <1>2, OthersPoints DEF PointInv
<1>5. BusInv'
  <2>1. /\ tries' = tries /\ mutex' = mutex /\ last_addr' = last_addr /\ slave' = slave
        /\ pointer' = pointer /\ busy' = busy /\ at' = at /\ message' = message
    BY <1>1 DEF local, bus
  <2>2. ASSUME NEW u \in Threads, at'[u] = "transfer"
        PROVE  last_addr' = Head(todo'[u]).slave /\ slave' = Head(todo'[u]).slave
    BY <2>1, <2>2, <1>2, <1>3 DEF BusInv, Others, BusPoints
  <2>3. ReadsTheirRegister'
    <3>1. ASSUME NEW u \in Threads, message'[u] = "read"
          PROVE  call'[u] = call[u] /\ todo'[u] = todo[u] /\ message[u] = "read"
      BY <3>1, <2>1, <1>2, <1>3 DEF Others
    <3> QED
      BY <2>1, <3>1 DEF BusInv, ReadsTheirRegister, OnBus
  <2> QED
    BY <2>1, <2>2, <2>3 DEF BusInv
<1> QED
  BY <1>4, <1>5

\* Only the thread that takes the free mutex is at the address.
LEMMA LockKeeps ==
  ASSUME CallInv, PointInv, BusInv, NEW t \in Threads, Lock(t), UNCHANGED clockVars
  PROVE  PointInv' /\ BusInv'
<1>1. /\ OnBus(t) /\ at[t] = "step" /\ mutex = None /\ mutex' = t
      /\ at' = [at EXCEPT ![t] = "address"]
      /\ UNCHANGED <<call, todo, message, tries, last_addr, slave, pointer, busy, target>>
  BY DEF Lock, local, clockVars
<1>2. Others(t) /\ at \in [Threads -> {"step"} \cup BusPoints \cup ConfigurePoints]
  BY <1>1 DEF Others, PointInv
<1>3. PointInv'
  <2>1. target'[t] = None /\ OnBus(t)' /\ at'[t] = "address"
    BY <1>1, <1>2 DEF PointInv, OnBus
  <2>2. message'[t] = "read" => OnBus(t)' /\ Head(todo'[t]).op = "read"
    BY <1>1 DEF PointInv, OnBus
  <2>3. /\ at' \in [Threads -> {"step"} \cup BusPoints \cup ConfigurePoints]
        /\ message' \in [Threads -> {"select", "read"}]
        /\ target' \in [Threads -> Targets \cup {None}]
    BY <1>1 DEF PointInv, BusPoints
  <2> QED
    BY <2>1, <2>2, <2>3, <1>2, OthersPoints DEF PointInv, BusPoints, ConfigurePoints
<1>4. BusInv'
  <2>1. \A u \in Threads : mutex' = u <=> at'[u] \in BusPoints
    <3>1. \A u \in Threads : at[u] \notin BusPoints
      BY <1>1, BusAssumption DEF BusInv
    <3> QED
      BY <1>1, <1>2, <3>1 DEF BusPoints
  <2>2. \A u \in Threads : at'[u] = "transfer" => at[u] = "transfer"
    BY <1>1, <1>2
  <2>3. ReadsTheirRegister'
    BY <1>1 DEF BusInv, ReadsTheirRegister, OnBus
  <2> QED
    BY <1>1, <2>1, <2>2, <2>3 DEF BusInv
<1> QED
  BY <1>3, <1>4

\* A message that was not sent releases the mutex; the step is tried again from
\* its start or, with nothing selected, left for the next.
LEMMA FailedKeeps ==
  ASSUME CallInv, PointInv, BusInv, NEW t \in Threads, OnBus(t), at[t] \in BusPoints,
         Failed(t), UNCHANGED <<last_addr, slave, pointer, busy, clockVars>>
  PROVE  CallInv' /\ PointInv' /\ BusInv'
<1>1. call[t] # None /\ mutex = t /\ target[t] = None /\ target' = target
  BY DEF OnBus, BusInv, PointInv, clockVars
<1>2. /\ mutex' = None /\ at' = [at EXCEPT ![t] = "step"]
      /\ message' \in {message, [message EXCEPT ![t] = "select"]}
      /\ tries' \in [Threads -> 0 .. MaxRetries - 1]
  <2>1. tries \in [Threads -> 0 .. MaxRetries - 1] /\ MaxRetries \in Nat \ {0}
    BY BusAssumption DEF BusInv
  <2> QED
    BY <2>1 DEF Failed, NextStep
<1>3. CASE UNCHANGED <<call, todo, message>>
  <2>1. CallInv'
    BY <1>3, SameCalls
  <2>2. Others(t) /\ at'[t] = "step" /\ target'[t] = None
        /\ message'[t] = message[t] /\ OnBus(t)'
    BY <1>1, <1>2, <1>3 DEF Others, PointInv, OnBus
  <2>3. message'[t] = "read" => OnBus(t)' /\ Head(todo'[t]).op = "read"
    BY <1>3, <2>2 DEF PointInv, OnBus
  <2>4. PointInv'
    BY <1>1, <1>2, <1>3, <2>2, <2>3, OthersPoints DEF PointInv, BusPoints, ConfigurePoints
  <2>5. ReadsTheirRegister'
    BY <1>3 DEF BusInv, ReadsTheirRegister, OnBus
  <2>6. \A u \in Threads : mutex' = u <=> at'[u] \in BusPoints
    BY <1>1, <1>2, <2>2, BusAssumption DEF BusInv, BusPoints, PointInv
  <2>7. \A u \in Threads : at'[u] = "transfer" => at[u] = "transfer"
    BY <1>2 DEF PointInv
  <2> QED
    BY <1>2, <1>3, <2>1, <2>4, <2>5, <2>6, <2>7 DEF BusInv
<1>4. CASE NextStep(t) /\ message' = [message EXCEPT ![t] = "select"]
  <2>1. CallInv' /\ Next1(t)
    BY <1>1, <1>4, NextStepCall
  <2>2. Others(t) /\ at'[t] = "step" /\ target'[t] = None /\ message'[t] = "select"
    BY <1>1, <1>2, <1>4, <2>1 DEF Others, PointInv, Next1
  <2>3. PointInv'
    <3>1. /\ at' \in [Threads -> {"step"} \cup BusPoints \cup ConfigurePoints]
          /\ message' \in [Threads -> {"select", "read"}]
          /\ target' \in [Threads -> Targets \cup {None}]
      BY <1>1, <1>2, <1>4 DEF PointInv
    <3> QED
      BY <3>1, <2>2, OthersPoints DEF PointInv, BusPoints, ConfigurePoints
  <2>4. ReadsTheirRegister'
    BY <2>2 DEF BusInv, ReadsTheirRegister, OnBus, Others
  <2>5. \A u \in Threads : mutex' = u <=> at'[u] \in BusPoints
    BY <1>1, <1>2, <2>2, BusAssumption DEF BusInv, BusPoints, PointInv
  <2>6. \A u \in Threads : at'[u] = "transfer" =>
          at[u] = "transfer" /\ todo'[u] = todo[u]
    BY <1>2, <2>2 DEF PointInv, Others
  <2> QED
    BY <1>2, <2>1, <2>3, <2>4, <2>5, <2>6 DEF BusInv
<1> QED
  BY <1>3, <1>4 DEF Failed

\* The address that counts as set is the one the kernel has, so leaving the
\* ioctl out does not send a message elsewhere.
LEMMA AddressKeeps ==
  ASSUME CallInv, PointInv, BusInv, NEW t \in Threads, Address(t), UNCHANGED clockVars
  PROVE  CallInv' /\ PointInv' /\ BusInv'
<1> DEFINE addr == Head(todo[t]).slave
<1>1. /\ OnBus(t) /\ at[t] = "address" /\ mutex = t /\ UNCHANGED <<pointer, busy, target>>
      /\ \A u \in Threads \ {t} : at[u] \notin BusPoints
  BY DEF Address, BusInv, BusPoints, clockVars
<1>2. addr \in Slaves /\ addr # None
  BY <1>1, CurrentStep, BusAssumption DEF OnBus, BusStep
<1>3. CASE /\ slave' = IF addr = last_addr THEN slave ELSE addr
           /\ last_addr' = addr
           /\ at' = [at EXCEPT ![t] = "transfer"]
           /\ UNCHANGED <<call, todo, local, mutex>>
  <2>1. CallInv' /\ UNCHANGED <<message, tries>>
    BY <1>3, SameCalls DEF local
  <2>2. slave' = addr /\ last_addr' = addr
    BY <1>2, <1>3 DEF BusInv
  <2>3. Others(t) /\ at'[t] = "transfer" /\ target'[t] = None /\ OnBus(t)'
    BY <1>1, <1>3, <2>1 DEF Others, PointInv, OnBus
  <2>4. message'[t] = "read" => OnBus(t)' /\ Head(todo'[t]).op = "read"
    BY <1>3, <2>1, <2>3 DEF PointInv
  <2>5. PointInv'
    <3>1. /\ at' \in [Threads -> {"step"} \cup BusPoints \cup ConfigurePoints]
          /\ message' \in [Threads -> {"select", "read"}]
          /\ target' \in [Threads -> Targets \cup {None}]
      BY <1>1, <1>3, <2>1 DEF PointInv, BusPoints
    <3> QED
      BY <3>1, <2>3, <2>4, OthersPoints DEF PointInv, BusPoints, ConfigurePoints
  <2>6. ReadsTheirRegister'
    BY <1>1, <1>3, <2>1 DEF BusInv, ReadsTheirRegister, OnBus
  <2>7. \A u \in Threads : mutex' = u <=> at'[u] \in BusPoints
    BY <1>1, <1>3, <2>3 DEF BusInv, BusPoints, Others
  <2>8. \A u \in Threads : at'[u] = "transfer" => u = t
    BY <1>1, <2>3 DEF BusPoints, Others
  <2>9. \A u \in Threads : at'[u] = "transfer" =>
          last_addr' = Head(todo'[u]).slave /\ slave' = Head(todo'[u]).slave
    BY <1>3, <2>2, <2>8
  <2> QED
    BY <1>1, <1>2, <1>3, <2>1, <2>2, <2>5, <2>6, <2>7, <2>9 DEF BusInv
<1>4. CASE UNCHANGED <<slave, last_addr>> /\ Failed(t)
  BY <1>1, <1>4, FailedKeeps DEF BusPoints
<1> QED
  BY <1>3, <1>4 DEF Address

\* A message that is sent goes to the slave of its step, whose pointer no thread
\* but one of the same driver relies on.
LEMMA TransferKeeps ==
  ASSUME CallInv, PointInv, BusInv, NEW t \in Threads, Transfer(t), UNCHANGED clockVars
  PROVE  CallInv' /\ PointInv' /\ BusInv'
<1> DEFINE step == Head(todo[t])
<1>1. /\ OnBus(t) /\ call[t] # None /\ at[t] = "transfer" /\ mutex = t
      /\ slave = step.slave /\ last_addr = step.slave
      /\ UNCHANGED <<last_addr, slave, target>> /\ target[t] = None
      /\ \A u \in Threads \ {t} : at[u] \notin BusPoints
  BY DEF Transfer, OnBus, BusInv, PointInv, BusPoints, clockVars
<1>2. /\ step.slave \in Slaves /\ step.reg \in Registers
      /\ call[t].driver \in Users(step.slave)
  BY <1>1, CurrentStep DEF BusStep
<1>3. CASE UNCHANGED <<pointer, busy>> /\ Failed(t)
  BY <1>1, <1>3, FailedKeeps DEF BusPoints
<1>4. ASSUME NEW v \in Registers \cup {None}, pointer' = [pointer EXCEPT ![slave] = v],
             mutex' = None, tries' \in [Threads -> 0 .. MaxRetries - 1],
             busy' \subseteq Eeproms, CallInv', Others(t), at' = [at EXCEPT ![t] = "step"],
             message' \in [Threads -> {"select", "read"}],
             message'[t] = "read" =>
                /\ OnBus(t)' /\ Head(todo'[t]) = step /\ step.op = "read" /\ v = step.reg
      PROVE  PointInv' /\ BusInv'
  <2> USE <1>4
  <2>1. at'[t] = "step"
    BY DEF PointInv
  <2>2. PointInv'
    <3>1. /\ at' \in [Threads -> {"step"} \cup BusPoints \cup ConfigurePoints]
          /\ target' \in [Threads -> Targets \cup {None}] /\ target'[t] = None
      BY <1>1 DEF PointInv
    <3> QED
      BY <3>1, <2>1, OthersPoints DEF PointInv, BusPoints, ConfigurePoints
  <2>3. ReadsTheirRegister'
    <3> SUFFICES ASSUME NEW u \in Threads, OnBus(u)', message'[u] = "read",
                        Users(Head(todo'[u]).slave) = {call'[u].driver}
                 PROVE  pointer'[Head(todo'[u]).slave] = Head(todo'[u]).reg
      BY DEF ReadsTheirRegister
    <3>1. CASE u = t
      BY <3>1, <1>1, <1>2 DEF BusInv
    <3>2. CASE u # t
      <4>1. /\ call'[u] = call[u] /\ todo'[u] = todo[u] /\ message[u] = "read"
            /\ OnBus(u) /\ call[u] # None
        BY <3>2 DEF Others, OnBus
      <4>2. call[u].driver # call[t].driver
        BY <3>2, <4>1, <1>1 DEF CallInv
      <4>3. Head(todo[u]).slave # step.slave
        BY <4>1, <4>2, <1>2
      <4>4. pointer[Head(todo[u]).slave] = Head(todo[u]).reg
        BY <4>1 DEF BusInv, ReadsTheirRegister
      <4>5. Head(todo[u]).slave \in Slaves
        BY <4>1, CurrentStep DEF BusStep
      <4> QED
        BY <1>1, <4>1, <4>3, <4>4, <4>5 DEF BusInv
    <3> QED
      BY <3>1, <3>2
  <2>4. \A u \in Threads : at'[u] \notin BusPoints
    BY <1>1, <2>1 DEF Others, BusPoints
  <2>5. pointer' \in [Slaves -> Registers \cup {None}]
    BY <1>1, <1>2 DEF BusInv
  <2> QED
    BY <1>1, <2>2, <2>3, <2>4, <2>5, BusAssumption DEF BusInv, BusPoints
<1>5. busy \subseteq Eeproms /\ tries \in [Threads -> 0 .. MaxRetries - 1]
      /\ [tries EXCEPT ![t] = 0] \in [Threads -> 0 .. MaxRetries - 1]
  <2>1. MaxRetries \in Nat \ {0}
    BY BusAssumption
  <2> QED
    BY <2>1 DEF BusInv
<1>6. CASE /\ message[t] = "select" /\ step.op = "write"
           /\ pointer' = [pointer EXCEPT ![slave] = step.reg]
           /\ busy' = busy \cup ({slave} \cap Eeproms)
           /\ mutex' = None /\ tries' = [tries EXCEPT ![t] = 0]
           /\ NextStep(t) /\ UNCHANGED message
  <2>1. CallInv' /\ Next1(t)
    BY <1>1, <1>6, NextStepCall
  <2>2. Others(t) /\ message'[t] = "select" /\ at' = [at EXCEPT ![t] = "step"]
        /\ message' \in [Threads -> {"select", "read"}]
    BY <1>1, <1>6, <2>1 DEF Others, Next1, NextStep, PointInv
  <2> QED
    BY <1>2, <1>4, <1>5, <1>6, <2>1, <2>2
<1>7. CASE /\ message[t] = "select" /\ step.op = "read"
           /\ pointer' = [pointer EXCEPT ![slave] = step.reg]
           /\ mutex' = None /\ tries' = [tries EXCEPT ![t] = 0]
           /\ message' = [message EXCEPT ![t] = "read"]
           /\ at' = [at EXCEPT ![t] = "step"]
           /\ UNCHANGED <<call, todo, busy>>
  <2>1. CallInv'
    BY <1>7, SameCalls
  <2>2. Others(t) /\ message' \in [Threads -> {"select", "read"}]
    BY <1>1, <1>7 DEF Others, PointInv
  <2>3. OnBus(t)' /\ Head(todo'[t]) = step
    BY <1>1, <1>7 DEF OnBus
  <2> QED
    BY <1>2, <1>4, <1>5, <1>7, <2>1, <2>2, <2>3
<1>8. CASE /\ message[t] = "read"
           /\ pointer' = [pointer EXCEPT ![slave] = IF slave \in Eeproms THEN None ELSE @]
           /\ mutex' = None /\ message' = [message EXCEPT ![t] = "select"]
           /\ NextStep(t)
           /\ UNCHANGED <<tries, busy>>
  <2>1. CallInv' /\ Next1(t)
    BY <1>1, <1>8, NextStepCall
  <2>2. Others(t) /\ message'[t] = "select" /\ at' = [at EXCEPT ![t] = "step"]
        /\ message' \in [Threads -> {"select", "read"}]
    BY <1>1, <1>8, <2>1 DEF Others, Next1, NextStep, PointInv
  <2> DEFINE v == IF slave \in Eeproms THEN None ELSE pointer[slave]
  <2>3. pointer' = [pointer EXCEPT ![slave] = v] /\ v \in Registers \cup {None}
    BY <1>1, <1>2, <1>8 DEF BusInv
  <2> HIDE DEF v
  <2> QED
    BY <1>4, <1>5, <1>8, <2>1, <2>2, <2>3
<1> QED
  BY <1>3, <1>4, <1>6, <1>7, <1>8 DEF Transfer

\* The end of the programming of a page changes no message and no pointer.
LEMMA ProgrammedKeeps ==
  ASSUME CallInv, PointInv, BusInv, NEW s \in Slaves, Programmed(s), UNCHANGED clockVars
  PROVE  CallInv' /\ PointInv' /\ BusInv'
<1>1. /\ UNCHANGED <<call, todo, at, message, tries, mutex, last_addr, slave, pointer, target>>
      /\ busy' = busy \ {s}
  BY DEF Programmed, local, clockVars
<1>2. CallInv' /\ PointInv'
  BY <1>1, SameCalls DEF PointInv, OnBus
<1>3. BusInv'
  BY <1>1 DEF BusInv, ReadsTheirRegister, OnBus
<1> QED
  BY <1>2, <1>3

-----------------------------------------------------------------------------
(* The clock generator and what its steps leave to the bus.                *)

\* A thread that is not on the bus leaves the bus and the others alone.
LEMMA OffBusKeepsBus ==
  ASSUME PointInv, BusInv, NEW t \in Threads, ~OnBus(t), at'[t] \notin BusPoints,
         Others(t), UNCHANGED <<local, bus>>
  PROVE  BusInv'
<1>1. /\ UNCHANGED <<message, tries, mutex, last_addr, slave, pointer, busy>>
      /\ at[t] \notin BusPoints /\ message[t] # "read"
  BY DEF local, bus, PointInv
<1>2. \A u \in Threads : mutex' = u <=> at'[u] \in BusPoints
  BY <1>1 DEF BusInv, Others
<1>3. \A u \in Threads : at'[u] = "transfer" => at[u] = "transfer" /\ todo'[u] = todo[u]
  BY DEF Others, BusPoints
<1>4. \A u \in Threads : message'[u] = "read" => call'[u] = call[u] /\ todo'[u] = todo[u]
  BY <1>1 DEF Others
<1>5. ReadsTheirRegister'
  BY <1>1, <1>4 DEF BusInv, ReadsTheirRegister, OnBus
<1> QED
  BY <1>1, <1>2, <1>3, <1>5 DEF BusInv

\* A step into or within configure.
LEMMA ConfigureKeeps ==
  ASSUME CallInv, PointInv, BusInv, NEW t \in Threads, call[t] # None, ~OnBus(t),
         NEW p \in ConfigurePoints, at' = [at EXCEPT ![t] = p],
         NEW g \in Targets, target' = [target EXCEPT ![t] = g],
         UNCHANGED <<call, todo, local, bus>>
  PROVE  CallInv' /\ PointInv' /\ BusInv' /\ Others(t)
<1>1. CallInv' /\ UNCHANGED message
  BY SameCalls DEF local
<1>2. Others(t) /\ at'[t] = p /\ target'[t] = g /\ ~OnBus(t)' /\ call'[t] # None
  BY <1>1 DEF Others, PointInv, OnBus
<1>3. g # None
  BY ClockAssumption
<1>4. PointInv'
  <2>1. /\ at' \in [Threads -> {"step"} \cup BusPoints \cup ConfigurePoints]
        /\ message' \in [Threads -> {"select", "read"}]
        /\ target' \in [Threads -> Targets \cup {None}]
    BY <1>1 DEF PointInv
  <2>2. p \notin BusPoints /\ message'[t] # "read"
    BY <1>1 DEF ConfigurePoints, BusPoints, PointInv
  <2> QED
    BY <2>1, <2>2, <1>2, <1>3, OthersPoints DEF PointInv
<1>5. BusInv'
  BY <1>2, OffBusKeepsBus DEF ConfigurePoints, BusPoints
<1> QED
  BY <1>1, <1>2, <1>4, <1>5

\* The end of a step that is not on the bus.
LEMMA ReturnKeeps ==
  ASSUME CallInv, PointInv, BusInv, NEW t \in Threads, call[t] # None, ~OnBus(t),
         NextStep(t), target' = [target EXCEPT ![t] = None], UNCHANGED <<local, bus>>
  PROVE  CallInv' /\ PointInv' /\ BusInv' /\ Others(t) /\ at'[t] = "step"
<1>1. CallInv' /\ Next1(t) /\ UNCHANGED message
  BY NextStepCall DEF local
<1>2. /\ Others(t) /\ at'[t] = "step" /\ target'[t] = None
      /\ at' = [at EXCEPT ![t] = "step"] /\ message'[t] # "read"
  BY <1>1 DEF Others, PointInv, Next1, NextStep
<1>3. PointInv'
  <2>1. /\ at' \in [Threads -> {"step"} \cup BusPoints \cup ConfigurePoints]
        /\ message' \in [Threads -> {"select", "read"}]
        /\ target' \in [Threads -> Targets \cup {None}]
    BY <1>1, <1>2 DEF PointInv
  <2> QED
    BY <2>1, <1>2, OthersPoints DEF PointInv, BusPoints, ConfigurePoints
<1>4. BusInv'
  BY <1>2, OffBusKeepsBus DEF BusPoints
<1> QED
  BY <1>1, <1>2, <1>3, <1>4

\* Steps on the bus move no thread that is in configure.
LEMMA OnBusKeepsClock ==
  ASSUME PointInv, PointInv', ClockInv, UNCHANGED clockVars,
         \A u \in Threads : target[u] # None => at'[u] = at[u]
  PROVE  ClockInv'
<1>1. UNCHANGED <<clkin, clk_cfg, fs_selected, fs_adc, hw_clkin, hw_cfg, target, params,
                  overlapped>>
  BY DEF clockVars, members, hardware
<1>2. Configuring' = Configuring
  BY <1>1 DEF Configuring
<1>3. ClockTypeOK'
  BY <1>1 DEF PointInv, ClockInv, ClockTypeOK
<1>4. \A t \in Configuring : TargetMatchesMode(t)' /\ (Progress(t) => Progress(t)')
  BY <1>1 DEF ClockInv, TargetMatchesMode, Progress, Configuring
<1> QED
  BY <1>1, <1>2, <1>3, <1>4 DEF ClockInv, MembersMatchHardware

\* Every step of the bus keeps the invariant.
LEMMA BusNextKeeps ==
  ASSUME Inv, BusNext, UNCHANGED clockVars
  PROVE  Inv'
<1> USE DEF Inv
<1>1. ASSUME NEW t \in Threads, NEW c \in Calls, Begin(t, c)
      PROVE  CallInv' /\ PointInv' /\ BusInv' /\ UNCHANGED at
  BY <1>1, BeginCall, BeginKeeps DEF Begin
<1>2. ASSUME NEW t \in Threads, Lock(t) \/ Address(t) \/ Transfer(t)
      PROVE  /\ CallInv' /\ PointInv' /\ BusInv'
             /\ target[t] = None /\ \A u \in Threads \ {t} : at'[u] = at[u]
  <2>1. CallInv' /\ PointInv' /\ BusInv'
    BY <1>2, LockKeeps, AddressKeeps, TransferKeeps, SameCalls DEF Lock
  <2>2. target[t] = None
    BY <1>2 DEF Lock, Address, Transfer, PointInv
  <2>3. \E p : at' = [at EXCEPT ![t] = p]
    BY <1>2 DEF Lock, Address, Transfer, Failed, NextStep
  <2> QED
    BY <2>1, <2>2, <2>3 DEF PointInv
<1>3. ASSUME NEW s \in Slaves, Programmed(s)
      PROVE  CallInv' /\ PointInv' /\ BusInv' /\ UNCHANGED at
  BY <1>3, ProgrammedKeeps DEF Programmed
<1>4. CallInv' /\ PointInv' /\ BusInv' /\ \A u \in Threads : target[u] # None => at'[u] = at[u]
  BY <1>1, <1>2, <1>3 DEF BusNext
<1> QED
  BY <1>4, OnBusKeepsClock

\* configure is entered when the members match the hardware, or sets everything,
\* or overlaps another configure.
LEMMA StartKeeps ==
  ASSUME Inv, NEW t \in Threads, call[t] # None, ~OnBus(t), at[t] = "step",
         NEW mode, NEW c, NEW i, Start(t, mode, c, i), UNCHANGED <<local, bus>>,
         [mode |-> mode, clkin |-> c, cfg |-> i] \in Targets,
         mode = "CLKIN_SELECT" <=> i = None,
         mode = "CFG_ALL" => i = DefaultCfg,
         mode = "SAMPLING_FREQ_SET" => c = clkin
  PROVE  Inv'
<1> USE DEF Inv
<1> DEFINE g == [mode |-> mode, clkin |-> c, cfg |-> i]
<1>1. /\ target' = [target EXCEPT ![t] = g] /\ at' = [at EXCEPT ![t] = "assign"]
      /\ overlapped' = (Configuring # {} \/ (overlapped /\ mode # "CFG_ALL"))
      /\ UNCHANGED <<call, todo, clkin, clk_cfg, fs_selected, fs_adc, hw_clkin, hw_cfg, params>>
  BY DEF Start, members, hardware
<1>2. CallInv' /\ PointInv' /\ BusInv' /\ Others(t)
  BY <1>1, ConfigureKeeps DEF ConfigurePoints
<1>3. target'[t] = g /\ g # None /\ at'[t] = "assign" /\ target[t] = None
  BY <1>1, ClockAssumption DEF PointInv, ConfigurePoints
<1>4. Configuring' = Configuring \cup {t} /\ t \notin Configuring
  BY <1>2, <1>3 DEF Configuring, Others
<1>5. ClockTypeOK'
  BY <1>1, <1>2, <1>3 DEF ClockInv, ClockTypeOK, Others
<1>6. \A u \in Configuring' : TargetMatchesMode(u)'
  BY <1>2, <1>3, <1>4 DEF ClockInv, TargetMatchesMode, Others, Configuring
<1>7. ASSUME ~overlapped'
      PROVE  Configuring' = {t} /\ Progress(t)'
  <2>1. Configuring = {} /\ (mode # "CFG_ALL" => ~overlapped)
    BY <1>1, <1>7
  <2>2. mode # "CFG_ALL" =>
           /\ clkin = hw_clkin /\ clk_cfg = hw_cfg /\ fs_adc = hw_cfg
           /\ hw_cfg \in {fs_selected, DefaultCfg}
    BY <2>1 DEF ClockInv, MembersMatchHardware
  <2> QED
    BY <1>1, <1>3, <1>4, <2>1, <2>2 DEF Progress
<1>8. ClockInv'
  BY <1>4, <1>5, <1>6, <1>7 DEF ClockInv, MembersMatchHardware
<1> QED
  BY <1>2, <1>8

\* init always configures; set_reference_clock and set_sampling_frequency leave
\* alone what is selected, and refuse what does not exist.
LEMMA DecideKeeps == ASSUME Inv, NEW t \in Threads, Decide(t) PROVE Inv'
<1> DEFINE step == Head(todo[t])
<1>1. /\ call[t] # None /\ at[t] = "step" /\ UNCHANGED <<local, bus>>
      /\ step.op \in ClockOps /\ ~OnBus(t)
  BY DEF Decide, ClockOps, OnBus, BusOps
<1>2. clkin \in Clkins /\ TCXO_CLOCK \in Clkins /\ DefaultCfg \in Configs /\ None \notin Configs
  BY ClockAssumption DEF Inv, ClockInv, ClockTypeOK
<1>3. CASE Start(t, "CFG_ALL", TCXO_CLOCK, DefaultCfg)
  <2>1. [mode |-> "CFG_ALL", clkin |-> TCXO_CLOCK, cfg |-> DefaultCfg] \in Targets
    BY <1>2 DEF Targets
  <2> QED
    BY <1>1, <1>2, <1>3, <2>1, StartKeeps
<1>4. CASE step.arg \in Clkins \ {clkin} /\ Start(t, "CLKIN_SELECT", step.arg, None)
  <2>1. [mode |-> "CLKIN_SELECT", clkin |-> step.arg, cfg |-> None] \in Targets
    BY <1>4 DEF Targets
  <2> QED
    BY <1>1, <1>2, <1>4, <2>1, StartKeeps
<1>5. CASE /\ step.arg \in Configs \ {fs_selected}
           /\ Start(t, "SAMPLING_FREQ_SET", clkin, step.arg)
  <2>1. [mode |-> "SAMPLING_FREQ_SET", clkin |-> clkin, cfg |-> step.arg] \in Targets
    BY <1>2, <1>5 DEF Targets
  <2> QED
    BY <1>1, <1>2, <1>5, <2>1, StartKeeps
<1>6. CASE Skip(t)
  <2>1. target[t] = None /\ NextStep(t) /\ UNCHANGED <<clockVars, target>>
        /\ target = [target EXCEPT ![t] = None]
    BY <1>1, <1>6 DEF Skip, Inv, PointInv, ConfigurePoints, clockVars
  <2>2. CallInv' /\ PointInv' /\ BusInv' /\ Others(t) /\ at'[t] = "step"
    BY <1>1, <2>1, ReturnKeeps DEF Inv
  <2>3. \A u \in Threads : target[u] # None => at'[u] = at[u]
    BY <1>1, <2>2 DEF Others
  <2> QED
    BY <2>1, <2>2, <2>3, OnBusKeepsClock DEF Inv
<1> QED
  BY <1>3, <1>4, <1>5, <1>6 DEF Decide

\* A thread in configure is in a step of a call, and its arguments are of its mode.
LEMMA InConfigure ==
  ASSUME Inv, NEW t \in Threads, at[t] \in ConfigurePoints
  PROVE  /\ call[t] # None /\ ~OnBus(t) /\ target[t] \in Targets /\ t \in Configuring
         /\ TargetMatchesMode(t) /\ target = [target EXCEPT ![t] = target[t]]
         /\ target[t].clkin \in Clkins /\ target[t].cfg \in Configs \cup {None}
         /\ ~overlapped => Configuring = {t} /\ Progress(t)
         /\ at[t] # "assign" => params[t] \in Configs \cup {Torn}
<1>1. target[t] # None /\ target[t] \in Targets /\ call[t] # None /\ ~OnBus(t)
  BY DEF Inv, PointInv
<1>2. t \in Configuring /\ TargetMatchesMode(t) /\ (~overlapped => Configuring = {t} /\ Progress(t))
  BY <1>1 DEF Inv, ClockInv, Configuring
<1>3. at[t] # "assign" => params[t] \in Configs \cup {Torn}
  BY DEF Inv, ClockInv, ClockTypeOK
<1>4. target = [target EXCEPT ![t] = target[t]]
  BY DEF Inv, PointInv
<1>5. target[t].clkin \in Clkins /\ target[t].cfg \in Configs \cup {None}
  BY <1>1 DEF Targets
<1> QED
  BY <1>1, <1>2, <1>3, <1>4, <1>5

\* A step of configure that does not return keeps the invariant if it keeps the
\* types and brings a configure that is alone further.
LEMMA ConfigureGoesOn ==
  ASSUME Inv, NEW t \in Threads, at[t] \in ConfigurePoints,
         NEW p \in ConfigurePoints, at' = [at EXCEPT ![t] = p],
         UNCHANGED <<call, todo, local, bus, target, overlapped>>, ClockTypeOK',
         ~overlapped => Progress(t)'
  PROVE  Inv'
<1>1. CallInv' /\ PointInv' /\ BusInv' /\ Others(t)
  BY InConfigure, ConfigureKeeps DEF Inv
<1>2. Configuring' = Configuring /\ \A u \in Configuring : TargetMatchesMode(u)'
  BY DEF Inv, ClockInv, Configuring, TargetMatchesMode
<1>3. ~overlapped => Configuring = {t} 
  BY InConfigure
<1>4. ClockInv'
  BY <1>2, <1>3, InConfigure DEF ClockInv, MembersMatchHardware
<1> QED
  BY <1>1, <1>4 DEF Inv

\* configure returns: alone, it leaves members that match the hardware.
LEMMA ConfigureReturns ==
  ASSUME Inv, NEW t \in Threads, at[t] \in ConfigurePoints,
         NEW succeeded \in BOOLEAN, Return(t, succeeded),
         UNCHANGED <<local, bus, overlapped>>,
         /\ clkin' \in Clkins /\ hw_clkin' \in Clkins
         /\ clk_cfg' \in Configs \cup {Torn} /\ fs_adc' \in Configs \cup {Torn}
         /\ hw_cfg' \in Configs \cup {Torn},
         ~overlapped =>
           /\ clkin' = hw_clkin' /\ clk_cfg' = hw_cfg' /\ fs_adc' = hw_cfg'
           /\ hw_cfg' \in {fs_selected', DefaultCfg}
  PROVE  Inv'
<1>1. /\ target' = [target EXCEPT ![t] = None] /\ params' = [params EXCEPT ![t] = None]
      /\ NextStep(t)
  BY DEF Return
<1>2. CallInv' /\ PointInv' /\ BusInv' /\ Others(t) /\ at'[t] = "step"
  BY <1>1, InConfigure, ReturnKeeps DEF Inv
<1>3. Configuring' = Configuring \ {t}
  BY <1>1 DEF Configuring, Inv, PointInv
<1>4. fs_selected' \in Configs \cup {None}
  <2>1. fs_selected' \in {fs_selected, target[t].cfg}
    BY DEF Return
  <2> QED
    BY <2>1, InConfigure DEF Inv, ClockInv, ClockTypeOK
<1>5. ClockTypeOK'
  <2>1. params' \in [Threads -> Configs \cup {Torn, None}]
    BY <1>1 DEF Inv, ClockInv, ClockTypeOK
  <2>2. \A u \in Threads : at'[u] \in ConfigurePoints \ {"assign"} => params'[u] # None
    BY <1>1, <1>2 DEF Inv, ClockInv, ClockTypeOK, Others, ConfigurePoints
  <2> QED
    BY <1>4, <2>1, <2>2 DEF ClockTypeOK
<1>6. \A u \in Configuring' : TargetMatchesMode(u)'
  BY <1>2, <1>3 DEF Inv, ClockInv, Configuring, TargetMatchesMode, Others
<1>7. ~overlapped => Configuring' = {}
  BY <1>3, InConfigure
<1>8. ClockInv'
  BY <1>5, <1>6, <1>7 DEF ClockInv, MembersMatchHardware
<1> QED
  BY <1>2, <1>8 DEF Inv

\* What the clock steps use of the types of members and registers.
LEMMA ClockTypes ==
  ASSUME Inv
  PROVE  /\ clkin \in Clkins /\ hw_clkin \in Clkins
         /\ clk_cfg \in Configs \cup {Torn} /\ fs_adc \in Configs \cup {Torn}
         /\ hw_cfg \in Configs \cup {Torn} /\ fs_selected \in Configs \cup {None}
         /\ params \in [Threads -> Configs \cup {Torn, None}]
         /\ None \notin Configs \cup {Torn} /\ Torn \notin Configs /\ DefaultCfg \in Configs
  BY ClockAssumption DEF Inv, ClockInv, ClockTypeOK

\* What remains of the type of the clock generator when a step of t in configure
\* has read its parameters.
LEMMA ConfigureType ==
  ASSUME Inv, NEW t \in Threads, NEW p \in ConfigurePoints, at' = [at EXCEPT ![t] = p],
         NEW q \in Configs \cup {Torn}, params' = [params EXCEPT ![t] = q],
         UNCHANGED <<fs_selected, hw_clkin, hw_cfg>>,
         clkin' \in Clkins, clk_cfg' \in Configs \cup {Torn}, fs_adc' \in Configs \cup {Torn}
  PROVE  ClockTypeOK'
<1>1. params' \in [Threads -> Configs \cup {Torn, None}]
  BY ClockTypes
<1>2. \A u \in Threads : at'[u] \in ConfigurePoints \ {"assign"} => params'[u] # None
  BY ClockTypes DEF Inv, ClockInv, ClockTypeOK, PointInv
<1> QED
  BY <1>1, <1>2, ClockTypes DEF ClockTypeOK

\* clkin and clk_cfg are assigned; the member copied to itself, by nobody else
\* changed meanwhile, is kept.
LEMMA AssignKeeps == ASSUME Inv, NEW t \in Threads, Assign(t) PROVE Inv'
<1>1. /\ at[t] \in ConfigurePoints
      /\ UNCHANGED <<call, todo, local, bus, fs_selected, fs_adc, hw_clkin, hw_cfg, target,
                     overlapped>>
  BY DEF Assign, hardware, ConfigurePoints
<1>2. CASE /\ at[t] = "assign"
           /\ clkin' = target[t].clkin
           /\ clk_cfg' = IF target[t].cfg \in {None, clk_cfg} THEN clk_cfg ELSE Torn
           /\ params' = [params EXCEPT ![t] = clk_cfg]
           /\ at' = [at EXCEPT ![t] = "assigning"]
  <2>1. ClockTypeOK'
    BY <1>1, <1>2, InConfigure, ClockTypes, ConfigureType DEF ConfigurePoints
  <2>2. /\ at'[t] = "assigning" /\ params'[t] = clk_cfg
        /\ target[t].mode = "CLKIN_SELECT" => clk_cfg' = clk_cfg
    BY <1>1, <1>2, InConfigure, ClockTypes DEF TargetMatchesMode, Inv, PointInv
  <2>3. ~overlapped => Progress(t)'
    BY <1>1, <1>2, <2>2, InConfigure DEF Progress
  <2> QED
    BY <1>1, <1>2, <2>1, <2>3, ConfigureGoesOn DEF ConfigurePoints
<1>3. CASE /\ at[t] = "assigning"
           /\ \/ target[t].cfg # None /\ clk_cfg' = target[t].cfg
              \/ /\ target[t].cfg = None
                 /\ clk_cfg' \in IF clk_cfg = params[t] THEN {clk_cfg}
                                 ELSE {clk_cfg, params[t], Torn}
           /\ at' = [at EXCEPT ![t] = "dividers"]
           /\ UNCHANGED <<clkin, params>>
  <2>1. params[t] \in Configs \cup {Torn} /\ params' = [params EXCEPT ![t] = params[t]]
    BY <1>1, <1>3, InConfigure, ClockTypes
  <2>2. clk_cfg' \in Configs \cup {Torn}
    BY <1>1, <1>3, <2>1, InConfigure, ClockTypes
  <2>3. ClockTypeOK'
    BY <1>1, <1>3, <2>1, <2>2, ClockTypes, ConfigureType DEF ConfigurePoints
  <2>4. at'[t] = "dividers"
    BY <1>3 DEF Inv, PointInv
  <2>5. ~overlapped => Progress(t)'
    BY <1>1, <1>3, <2>4, InConfigure DEF Progress, TargetMatchesMode
  <2> QED
    BY <1>1, <1>3, <2>3, <2>5, ConfigureGoesOn DEF ConfigurePoints
<1> QED
  BY <1>1, <1>2, <1>3 DEF Assign

\* The dividers are read from the member that was assigned.
LEMMA ReadDividersKeeps == ASSUME Inv, NEW t \in Threads, ReadDividers(t) PROVE Inv'
<1>1. /\ at[t] = "dividers" /\ at[t] \in ConfigurePoints
      /\ params' = [params EXCEPT ![t] = clk_cfg] /\ at' = [at EXCEPT ![t] = "pll"]
      /\ UNCHANGED <<call, todo, local, bus, clkin, clk_cfg, fs_selected, fs_adc, hw_clkin,
                     hw_cfg, target, overlapped>>
  BY DEF ReadDividers, members, hardware, ConfigurePoints
<1>2. ClockTypeOK'
  BY <1>1, ClockTypes, ConfigureType DEF ConfigurePoints
<1>3. at'[t] = "pll" /\ params'[t] = clk_cfg
  BY <1>1, ClockTypes DEF Inv, PointInv
<1>4. ~overlapped => Progress(t)'
  BY <1>1, <1>3, InConfigure DEF Progress
<1> QED
  BY <1>1, <1>2, <1>4, ConfigureGoesOn DEF ConfigurePoints

\* The parameters of the PLL are read; alone they are those of the dividers, a
\* configuration, and the frequencies are in range.
LEMMA ReadPllKeeps == ASSUME Inv, NEW t \in Threads, ReadPll(t) PROVE Inv'
<1> DEFINE cfg == IF clk_cfg = params[t] THEN clk_cfg ELSE Torn
<1>1. /\ at[t] = "pll" /\ at[t] \in ConfigurePoints
      /\ UNCHANGED <<local, bus, clkin, clk_cfg, hw_clkin, hw_cfg, overlapped>>
  BY DEF ReadPll, hardware, ConfigurePoints
<1>2. cfg \in Configs \cup {Torn} /\ (~overlapped => cfg = clk_cfg /\ clk_cfg \in Configs)
  <2>1. ~overlapped => clk_cfg = params[t] /\ clk_cfg \in {target[t].cfg, hw_cfg}
    BY <1>1, InConfigure DEF Progress
  <2>2. ASSUME ~overlapped PROVE clk_cfg \in Configs
    <3>1. CASE target[t].mode = "CLKIN_SELECT"
      <4>1. clk_cfg \in {fs_selected, DefaultCfg}
        BY <1>1, <2>2, <3>1, InConfigure DEF Progress
      <4> QED
        BY <4>1, ClockTypes
    <3>2. CASE target[t].mode # "CLKIN_SELECT"
      <4>1. clk_cfg = target[t].cfg /\ target[t].cfg # None
        BY <1>1, <2>2, <3>2, InConfigure DEF Progress, TargetMatchesMode
      <4> QED
        BY <1>1, <4>1, InConfigure
    <3> QED
      BY <3>1, <3>2
  <2> QED
    BY <2>1, <2>2, ClockTypes
<1>3. CASE /\ fs_adc' = cfg /\ params' = [params EXCEPT ![t] = cfg]
           /\ at' = [at EXCEPT ![t] = "program"]
           /\ UNCHANGED <<call, todo, fs_selected, target>>
  <2>1. at'[t] = "program" /\ params'[t] = cfg
    BY <1>3, ClockTypes DEF Inv, PointInv
  <2> HIDE DEF cfg
  <2>2. ClockTypeOK'
    BY <1>1, <1>2, <1>3, ClockTypes, ConfigureType DEF ConfigurePoints
  <2>3. ~overlapped => Progress(t)'
    BY <1>1, <1>2, <1>3, <2>1, InConfigure DEF Progress
  <2> QED
    BY <1>1, <1>3, <2>2, <2>3, ConfigureGoesOn DEF ConfigurePoints
<1>4. CASE cfg = Torn /\ fs_adc' \in {fs_adc, Torn} /\ Return(t, FALSE)
  <2>1. overlapped
    BY <1>2, <1>4, ClockTypes
  <2> QED
    BY <1>1, <1>4, <2>1, ClockTypes, ConfigureReturns
<1> QED
  BY <1>3, <1>4 DEF ReadPll

\* The generator gets what the members tell: all of it, or the part of the mode
\* while the rest was right before.
LEMMA ProgramGeneratorKeeps == ASSUME Inv, NEW t \in Threads, ProgramGenerator(t) PROVE Inv'
<1>1. /\ at[t] = "program" /\ at[t] \in ConfigurePoints /\ Return(t, TRUE)
      /\ hw_cfg' = IF target[t].mode = "CLKIN_SELECT" THEN hw_cfg ELSE params[t]
      /\ hw_clkin' = IF target[t].mode = "SAMPLING_FREQ_SET" THEN hw_clkin ELSE target[t].clkin
      /\ UNCHANGED <<local, bus, clkin, clk_cfg, fs_adc, overlapped>>
  BY DEF ProgramGenerator, ConfigurePoints
<1>2. hw_cfg' \in Configs \cup {Torn} /\ hw_clkin' \in Clkins
  BY <1>1, InConfigure, ClockTypes
<1>3. target[t].mode \in {"CFG_ALL", "CLKIN_SELECT", "SAMPLING_FREQ_SET"}
  BY <1>1, InConfigure DEF Targets
<1>4. ASSUME ~overlapped
      PROVE  /\ clkin' = hw_clkin' /\ clk_cfg' = hw_cfg' /\ fs_adc' = hw_cfg'
             /\ hw_cfg' \in {fs_selected', DefaultCfg}
  <2>1. Progress(t) /\ TargetMatchesMode(t)
    BY <1>1, <1>4, InConfigure
  <2>2. fs_selected' = IF target[t].mode = "SAMPLING_FREQ_SET" THEN target[t].cfg ELSE fs_selected
    BY <1>1 DEF Return
  <2> QED
    BY <1>1, <1>3, <2>1, <2>2 DEF Progress, TargetMatchesMode
<1> QED
  BY <1>1, <1>2, <1>4, ClockTypes, ConfigureReturns

-----------------------------------------------------------------------------
(* Results.                                                                *)

\* After the start of the server the members tell what Common::init programmed,
\* and the bus was used by nobody else.
LEMMA InitInv == Init => Inv
<1> SUFFICES ASSUME Init PROVE Inv
  OBVIOUS
<1> USE DEF Init, BusInit, ClockInit
<1>1. CallInv
  BY EmptySeq DEF CallInv
<1>2. PointInv
  BY BusAssumption DEF PointInv, OnBus, BusPoints, ConfigurePoints
<1>3. BusInv
  <2>1. 0 \in 0 .. MaxRetries - 1
    BY BusAssumption
  <2> QED
    BY <2>1, BusAssumption DEF BusInv, BusPoints, ReadsTheirRegister
<1>4. ClockInv
  BY ClockAssumption
  DEF ClockInv, ClockTypeOK, Configuring, MembersMatchHardware, ConfigurePoints
<1> QED
  BY <1>1, <1>2, <1>3, <1>4 DEF Inv

\* Every step keeps the inductive invariant.
LEMMA StepInv == Inv /\ [Next]_vars => Inv'
<1> SUFFICES ASSUME Inv, [Next]_vars PROVE Inv'
  OBVIOUS
<1>1. CASE UNCHANGED vars
  <2>1. UNCHANGED <<call, todo, at, message, tries, mutex, last_addr, slave, pointer, busy,
                    clockVars>>
    BY <1>1 DEF vars, busVars
  <2>2. CallInv' /\ PointInv' /\ BusInv'
    BY <2>1, SameCalls DEF Inv, PointInv, BusInv, ReadsTheirRegister, OnBus, clockVars
  <2> QED
    BY <2>1, <2>2, OnBusKeepsClock DEF Inv
<1>2. CASE BusNext /\ UNCHANGED clockVars
  BY <1>2, BusNextKeeps
<1>3. CASE \E t \in Threads : Decide(t) \/ Configure(t)
  BY <1>3, DecideKeeps, AssignKeeps, ReadDividersKeeps, ReadPllKeeps, ProgramGeneratorKeeps
  DEF Configure
<1> QED
  BY <1>1, <1>2, <1>3 DEF Next

\* The invariant of every behaviour.
LEMMA AlwaysInv == Spec => []Inv
  BY InitInv, StepInv, PTL DEF Spec

\* A thread on the bus is at the bus step it stands for.
LEMMA BusTyped == Inv => BusTypeOK
<1> SUFFICES ASSUME Inv PROVE BusTypeOK
  OBVIOUS
<1>1. \A t \in Threads : OnBus(t) => /\ BusStep(Head(todo[t]))
                                     /\ at[t] \in {"step", "address", "transfer"}
  BY CurrentStep DEF Inv, PointInv, OnBus, BusPoints
<1> QED
  BY <1>1 DEF Inv, CallInv, PointInv, BusInv, BusTypeOK

\* I2cDev: every message goes to the slave it is meant for, although setting the
\* address is left out when it is the cached one, may fail, and other threads use
\* the bus between any two messages.
THEOREM MessagesReach == Spec => []MessagesReachTheirSlave
<1>1. Inv => MessagesReachTheirSlave
  BY BusTyped DEF Inv, BusInv, PointInv, MessagesReachTheirSlave, BusPoints
<1> QED
  BY <1>1, AlwaysInv, PTL

\* The two messages of a read are not one critical section of the bus: what keeps
\* them together is the mutex of the only driver that uses the slave.
THEOREM ReadsReach == Spec => []ReadsTheirRegister
<1>1. Inv => ReadsTheirRegister
  BY DEF Inv, BusInv
<1> QED
  BY <1>1, AlwaysInv, PTL

\* ClockGenerator: as long as no two configure overlapped since the last CFG_ALL,
\* the cached members are what the generator was programmed with, by whatever
\* operations of whatever drivers.
THEOREM MembersMatch == Spec => []MembersMatchHardware
<1>1. Inv => MembersMatchHardware
  BY DEF Inv, ClockInv
<1> QED
  BY <1>1, AlwaysInv, PTL

=============================================================================
