------------------------ MODULE DriverManagerProofs ------------------------
(***************************************************************************)
(* Proofs about DriverManager for any instrument (drivers and their        *)
(* dependencies, circular or not) and any set of sessions: the invariant   *)
(* DMInv and the safety properties it implies.                             *)
(***************************************************************************)
EXTENDS DriverManager, SequenceTheorems, TLAPS

-----------------------------------------------------------------------------
(* The stack of calls *)

\* The last call of t becomes g.
TopBecomes(t, g) ==
  /\ frames' \in [Threads -> Seq(Frame)]
  /\ Len(frames'[t]) = Len(frames[t])
  /\ frames'[t][Len(frames[t])] = g
  /\ \A j \in 1 .. Len(frames[t]) - 1 : frames'[t][j] = frames[t][j]
  /\ \A u \in Threads \ {t} : frames'[u] = frames[u]

\* A thread inside alloc_driver has a last call, and no other thread has any.
LEMMA OnlyStack ==
  ASSUME TypeOK, NEW t \in Threads, pc[t] = "alloc"
  PROVE  /\ frames[t] \in Seq(Frame)
         /\ Len(frames[t]) \in Nat \ {0}
         /\ Top(t) = frames[t][Len(frames[t])]
         /\ Top(t) \in Frame
         /\ Len(Deps[Top(t).driver]) \in Nat
         /\ \A u \in Threads \ {t} : frames[u] = <<>>
<1>1. frames[t] \in Seq(Frame) /\ frames[t] # <<>>
  BY DEF TypeOK
<1>2. Len(frames[t]) \in Nat \ {0}
  BY <1>1, EmptySeq
<1>3. Top(t) = frames[t][Len(frames[t])] /\ Top(t) \in Frame
  BY <1>1, <1>2, ElementOfSeq DEF Top, Depth
<1>4. Len(Deps[Top(t).driver]) \in Nat
  BY <1>3, DriverAssumption DEF Frame
<1>5. \A u \in Threads \ {t} : frames[u] = <<>>
  BY DEF TypeOK
<1>6. QED
  BY <1>1, <1>2, <1>3, <1>4, <1>5

\* What an update of the last call does to the stacks.
LEMMA ReplaceTop ==
  ASSUME TypeOK, NEW t \in Threads, pc[t] = "alloc", NEW g \in Frame,
         frames' = [frames EXCEPT ![t] = [@ EXCEPT ![Depth(t)] = g]]
  PROVE  TopBecomes(t, g)
<1>1. /\ frames[t] \in Seq(Frame)
      /\ Depth(t) \in 1 .. Len(frames[t])
      /\ Depth(t) = Len(frames[t])
  BY OnlyStack DEF Depth
<1> DEFINE q == [frames[t] EXCEPT ![Depth(t)] = g]
<1>2. /\ q \in Seq(Frame) /\ Len(q) = Len(frames[t])
      /\ \A j \in 1 .. Len(frames[t]) : q[j] = IF j = Depth(t) THEN g ELSE frames[t][j]
  BY <1>1, ExceptSeq
<1>3. frames' = [frames EXCEPT ![t] = q] /\ frames \in [Threads -> Seq(Frame)]
  BY DEF TypeOK
<1> HIDE DEF q
<1>4. QED
  BY <1>1, <1>2, <1>3 DEF TopBecomes

\* The updates of the actions are of this kind.
LEMMA TopNext ==
  ASSUME TypeOK, NEW t \in Threads, pc[t] = "alloc", NEW n \in Nat,
         frames' = [frames EXCEPT ![t][Depth(t)].next = n]
  PROVE  TopBecomes(t, [driver |-> Top(t).driver, next |-> n, left |-> Top(t).left])
<1> DEFINE g == [driver |-> Top(t).driver, next |-> n, left |-> Top(t).left]
<1>1. Top(t) \in Frame /\ Top(t) = frames[t][Depth(t)]
  BY OnlyStack DEF Top
<1>2. g \in Frame /\ g = [frames[t][Depth(t)] EXCEPT !.next = n]
  BY <1>1 DEF Frame
<1>3. frames' = [frames EXCEPT ![t] = [@ EXCEPT ![Depth(t)] = g]]
  BY <1>2
<1>4. QED
  BY <1>2, <1>3, ReplaceTop

\* A constructor goes on to its next dependency.
LEMMA TopAdvances ==
  ASSUME TypeOK, NEW t \in Threads, pc[t] = "alloc",
         frames' = [frames EXCEPT ![t][Depth(t)].next = @ + 1]
  PROVE  TopBecomes(t, [driver |-> Top(t).driver, next |-> Top(t).next + 1,
                        left |-> Top(t).left])
<1>1. Top(t) \in Frame /\ Top(t) = frames[t][Depth(t)]
  BY OnlyStack DEF Top
<1>2. Top(t).next + 1 \in Nat
  BY <1>1 DEF Frame
<1>3. frames' = [frames EXCEPT ![t][Depth(t)].next = Top(t).next + 1]
  BY <1>1
<1>4. QED
  BY <1>2, <1>3, TopNext

\* One of the two stores is made.
LEMMA TopStores ==
  ASSUME TypeOK, NEW t \in Threads, pc[t] = "alloc", NEW v,
         frames' = [frames EXCEPT ![t][Depth(t)].left = @ \ {v}]
  PROVE  TopBecomes(t, [driver |-> Top(t).driver, next |-> Top(t).next,
                        left |-> Top(t).left \ {v}])
<1> DEFINE g == [driver |-> Top(t).driver, next |-> Top(t).next,
                 left |-> Top(t).left \ {v}]
<1>1. Top(t) \in Frame /\ Top(t) = frames[t][Depth(t)]
  BY OnlyStack DEF Top
<1>2. g \in Frame /\ g = [frames[t][Depth(t)] EXCEPT !.left = @ \ {v}]
  BY <1>1 DEF Frame
<1>3. frames' = [frames EXCEPT ![t] = [@ EXCEPT ![Depth(t)] = g]]
  BY <1>2
<1>4. QED
  BY <1>2, <1>3, ReplaceTop

\* A new call on the stack of t, and the last one gone, with the call below it
\* at its next dependency.
Pushes(t, g) ==
  /\ frames' \in [Threads -> Seq(Frame)]
  /\ Len(frames'[t]) = Len(frames[t]) + 1
  /\ frames'[t][Len(frames[t]) + 1] = g
  /\ \A j \in 1 .. Len(frames[t]) : frames'[t][j] = frames[t][j]
  /\ \A u \in Threads \ {t} : frames'[u] = frames[u]

Pops(t) ==
  LET n == Len(frames[t]) - 1
      f == frames[t][n]
  IN /\ frames' \in [Threads -> Seq(Frame)]
     /\ Len(frames'[t]) = n
     /\ frames'[t][n] = [driver |-> f.driver, next |-> f.next + 1, left |-> f.left]
     /\ \A j \in 1 .. n - 1 : frames'[t][j] = frames[t][j]
     /\ \A u \in Threads \ {t} : frames'[u] = frames[u]

\* A new call is a frame.
LEMMA CallIsFrame ==
  ASSUME NEW d \in Drivers
  PROVE  Call(d) \in Frame
  BY DEF Call, Frame

\* What a call for a dependency does to the stacks.
LEMMA PushCall ==
  ASSUME TypeOK, NEW t \in Threads, NEW d \in Drivers,
         frames' = [frames EXCEPT ![t] = Append(@, Call(d))]
  PROVE  Pushes(t, Call(d))
<1>1. frames[t] \in Seq(Frame) /\ Call(d) \in Frame
  BY CallIsFrame DEF TypeOK
<1> DEFINE q == Append(frames[t], Call(d))
<1>2. /\ q \in Seq(Frame) /\ Len(q) = Len(frames[t]) + 1
      /\ q[Len(frames[t]) + 1] = Call(d)
      /\ \A j \in 1 .. Len(frames[t]) : q[j] = frames[t][j]
  BY <1>1, AppendProperties
<1>3. frames' = [frames EXCEPT ![t] = q] /\ frames \in [Threads -> Seq(Frame)]
  BY DEF TypeOK
<1> HIDE DEF q
<1>4. QED
  BY <1>2, <1>3 DEF Pushes

\* What the return to the constructor below does to the stacks.
LEMMA PopCall ==
  ASSUME TypeOK, NEW t \in Threads, pc[t] = "alloc", NEW n, n = Depth(t) - 1, n > 0,
         frames' = [frames EXCEPT ![t] = Append(SubSeq(@, 1, n - 1),
                                                [frames[t][n] EXCEPT !.next = @ + 1])]
  PROVE  Pops(t)
<1> DEFINE f == frames[t][n]
           g == [driver |-> f.driver, next |-> f.next + 1, left |-> f.left]
           rest == SubSeq(frames[t], 1, n - 1)
           q == Append(rest, g)
<1>1. /\ frames[t] \in Seq(Frame) /\ Len(frames[t]) = n + 1
      /\ n \in Nat \ {0}
  BY OnlyStack DEF Depth
<1>2. f \in Frame /\ \A j \in 1 .. n - 1 : frames[t][j] \in Frame
  BY <1>1, ElementOfSeq
<1>3. g \in Frame /\ g = [f EXCEPT !.next = @ + 1]
  <2> HIDE DEF f
  <2>1. QED
    BY <1>2 DEF Frame
<1>4. /\ rest \in Seq(Frame) /\ Len(rest) = n - 1
      /\ \A j \in 1 .. n - 1 : rest[j] = frames[t][j]
  <2>1. n - 1 \in Nat /\ 1 \in Int
    BY <1>1
  <2>2. /\ rest \in Seq(Frame)
        /\ Len(rest) = IF 1 <= n - 1 THEN n - 1 - 1 + 1 ELSE 0
        /\ \A j \in 1 .. n - 1 - 1 + 1 : rest[j] = frames[t][1 + j - 1]
    BY <1>2, <2>1, SubSeqProperties
  <2> HIDE DEF rest
  <2>3. QED
    BY <2>1, <2>2
<1>5. frames' = [frames EXCEPT ![t] = q]
  BY <1>3
<1> HIDE DEF rest
<1>6. /\ q \in Seq(Frame) /\ Len(q) = n /\ q[n] = g
      /\ \A j \in 1 .. n - 1 : q[j] = frames[t][j]
  BY <1>1, <1>3, <1>4, AppendProperties
<1> HIDE DEF q
<1>7. /\ frames' \in [Threads -> Seq(Frame)]
      /\ frames'[t] = q
      /\ \A u \in Threads \ {t} : frames'[u] = frames[u]
  BY <1>5, <1>6 DEF TypeOK
<1>8. n = Len(frames[t]) - 1
  BY <1>1
<1>9. QED
  BY <1>6, <1>7, <1>8 DEF Pops

-----------------------------------------------------------------------------
(* What the stack says of the drivers *)

\* Below the last call everything is under construction.
LEMMA BelowTop ==
  ASSUME TypeOK, StackInv, NEW t \in Threads, pc[t] = "alloc",
         NEW j \in 1 .. Len(frames[t]) - 1
  PROVE  /\ frames[t][j] \in Frame
         /\ Begun(frames[t][j]) /\ ~Publishes(frames[t][j])
         /\ is_starting[frames[t][j].driver]
         /\ Top(t).next # 0 => frames[t][j].driver # Top(t).driver
<1>1. /\ frames[t] \in Seq(Frame) /\ Len(frames[t]) \in Nat \ {0}
      /\ Top(t) = frames[t][Len(frames[t])]
  BY OnlyStack
<1>2. j \in 1 .. Len(frames[t]) /\ frames[t][j] \in Frame
  BY <1>1, ElementOfSeq
<1>3. WaitsForNext(t, j) /\ FrameInv(t, j) /\ FrameInv(t, Len(frames[t]))
  BY <1>1, <1>2 DEF StackInv
<1>4. Len(Deps[frames[t][j].driver]) \in Nat
  BY <1>2, DriverAssumption DEF Frame
<1>5. Begun(frames[t][j]) /\ ~Publishes(frames[t][j])
  BY <1>3, <1>4 DEF WaitsForNext, Begun, Publishes
<1>6. QED
  BY <1>1, <1>2, <1>3, <1>5 DEF FrameInv

\* Who starts a driver or publishes it is the thread inside alloc_driver.
LEMMA WhoPublishes ==
  ASSUME TypeOK, NEW t \in Threads, pc[t] = "alloc", NEW d \in Drivers, Publishing(d)
  PROVE  Top(t).driver = d /\ Publishes(Top(t))
  BY OnlyStack DEF Publishing

\* The same of a driver that is being constructed.
LEMMA WhoStarts ==
  ASSUME TypeOK, NEW t \in Threads, pc[t] = "alloc", NEW d \in Drivers, Starting(d)
  PROVE  \E i \in 1 .. Len(frames[t]) :
            frames[t][i].driver = d /\ Begun(frames[t][i])
<1>1. PICK u \in Threads : \E i \in 1 .. Len(frames[u]) :
            frames[u][i].driver = d /\ Begun(frames[u][i])
  BY DEF Starting
<1>2. CASE u = t
  BY <1>1, <1>2
<1>3. CASE u # t
  BY <1>1, <1>3, OnlyStack, EmptySeq
<1>4. QED
  BY <1>2, <1>3

\* Nobody is inside alloc_driver: nothing is started or published.
LEMMA NobodyStarts ==
  ASSUME TypeOK, NEW d \in Drivers, mutex = Nobody
  PROVE  ~Starting(d) /\ ~Publishing(d)
<1>1. \A u \in Threads : frames[u] = <<>>
  BY DriverAssumption DEF TypeOK
<1>2. QED
  BY <1>1 DEF Starting, Publishing

-----------------------------------------------------------------------------
(* Types *)

\* The server starts with variables of their types.
LEMMA InitType == Init => TypeOK
<1> SUFFICES ASSUME Init PROVE TypeOK
  OBVIOUS
<1>1. <<>> \in Seq(Frame) /\ frames \in [Threads -> Seq(Frame)]
  BY EmptySeq DEF Init
<1>2. QED
  BY <1>1, DriverAssumption DEF Init, TypeOK, Points, Threads, Targets

\* alloc_driver returns to the thread that called it, or to the constructor of
\* the driver below.
LastReturns(t) ==
  /\ Len(frames[t]) = 1
  /\ frames' = [frames EXCEPT ![t] = <<>>]
  /\ mutex' = Nobody
  /\ pc' = [pc EXCEPT ![t] = "run"]
  /\ UNCHANGED null_refs

NestedReturns(t) ==
  LET f == frames[t][Len(frames[t]) - 1]
      d == Top(t).driver
  IN /\ Len(frames[t]) - 1 \in Nat \ {0}
     /\ Pops(t)
     /\ null_refs' = IF driver_tuple[d] = 0
                     THEN null_refs \cup {<<f.driver, d>>} ELSE null_refs
     /\ UNCHANGED <<pc, mutex>>

\* A return of alloc_driver is one of the two.
LEMMA ReturnStack ==
  ASSUME TypeOK, NEW t \in Threads, pc[t] = "alloc", Return(t)
  PROVE  LastReturns(t) \/ NestedReturns(t)
<1> DEFINE n == Depth(t) - 1
<1>1. Depth(t) = Len(frames[t]) /\ n \in Nat
  BY OnlyStack DEF Depth
<1>2. CASE n = 0
  <2>1. /\ frames' = [frames EXCEPT ![t] = <<>>]
        /\ mutex' = Nobody /\ pc' = [pc EXCEPT ![t] = "run"]
        /\ UNCHANGED null_refs
    BY <1>2 DEF Return, Goto
  <2>2. Len(frames[t]) = 1
    BY <1>1, <1>2, OnlyStack
  <2>3. QED
    BY <2>1, <2>2 DEF LastReturns
<1>3. CASE n # 0
  <2>1. /\ n > 0
        /\ frames' = [frames EXCEPT ![t] = Append(SubSeq(@, 1, n - 1),
                                                 [frames[t][n] EXCEPT !.next = @ + 1])]
        /\ null_refs' = IF driver_tuple[Top(t).driver] = 0
                        THEN null_refs \cup {<<frames[t][n].driver, Top(t).driver>>}
                        ELSE null_refs
        /\ UNCHANGED <<pc, mutex>>
    BY <1>3, Zenon DEF Return
  <2>2. Pops(t)
    BY <2>1, PopCall
  <2>3. n = Len(frames[t]) - 1 /\ n \in Nat \ {0}
    BY <1>1, <1>3
  <2>4. QED
    BY <2>1, <2>2, <2>3 DEF NestedReturns
<1>4. QED
  BY <1>2, <1>3

\* The thread keeps a stack, and stays inside alloc_driver with the mutex.
LEMMA StackType ==
  ASSUME TypeOK, NEW t \in Threads, pc[t] = "alloc",
         \/ \E g \in Frame : TopBecomes(t, g)
         \/ \E g \in Frame : Pushes(t, g)
         \/ Pops(t) /\ Len(frames[t]) - 1 \in Nat \ {0}
  PROVE  /\ frames' \in [Threads -> Seq(Frame)]
         /\ \A u \in Threads : pc[u] = "alloc" <=> frames'[u] # <<>>
<1>1. Len(frames[t]) \in Nat \ {0}
  BY OnlyStack
<1>2. /\ frames' \in [Threads -> Seq(Frame)] /\ Len(frames'[t]) \in Nat \ {0}
      /\ \A u \in Threads \ {t} : frames'[u] = frames[u]
  <2>1. CASE \E g \in Frame : TopBecomes(t, g)
    BY <1>1, <2>1 DEF TopBecomes
  <2>2. CASE \E g \in Frame : Pushes(t, g)
    BY <1>1, <2>2 DEF Pushes
  <2>3. CASE Pops(t) /\ Len(frames[t]) - 1 \in Nat \ {0}
    BY <2>3 DEF Pops
  <2>4. QED
    BY <2>1, <2>2, <2>3
<1>3. frames'[t] # <<>>
  BY <1>2, EmptySeq
<1>4. QED
  BY <1>2, <1>3 DEF TypeOK

\* Steps inside alloc_driver keep the types.
LEMMA ReturnType ==
  ASSUME TypeOK, NEW t \in Threads, pc[t] = "alloc", Return(t)
  PROVE  /\ frames' \in [Threads -> Seq(Frame)]
         /\ \/ pc' = pc /\ mutex' = mutex
            \/ pc' = [pc EXCEPT ![t] = "run"] /\ mutex' = Nobody
         /\ \A u \in Threads : pc'[u] = "alloc" <=> frames'[u] # <<>>
         /\ null_refs' \subseteq Drivers \X Drivers
<1>1. CASE LastReturns(t)
  <2>1. frames' \in [Threads -> Seq(Frame)]
    BY <1>1, EmptySeq DEF TypeOK, LastReturns
  <2>2. QED
    BY <1>1, <2>1 DEF TypeOK, LastReturns
<1>2. CASE NestedReturns(t)
  <2> DEFINE n == Len(frames[t]) - 1
  <2>1. frames[t] \in Seq(Frame) /\ n \in 1 .. Len(frames[t]) /\ Top(t) \in Frame
    <3>1. n \in Nat \ {0}
      BY <1>2 DEF NestedReturns
    <3>2. frames[t] \in Seq(Frame) /\ Len(frames[t]) \in Nat /\ Top(t) \in Frame
      BY OnlyStack
    <3>3. \A l \in Nat : l - 1 \in Nat \ {0} => l - 1 \in 1 .. l
      OBVIOUS
    <3>4. QED
      BY <3>1, <3>2, <3>3
  <2>2. frames[t][n] \in Frame
    BY <2>1, ElementOfSeq
  <2>3. frames[t][n].driver \in Drivers /\ Top(t).driver \in Drivers
    BY <2>1, <2>2 DEF Frame
  <2>4. null_refs' \subseteq Drivers \X Drivers
    BY <1>2, <2>3 DEF TypeOK, NestedReturns
  <2>5. QED
    BY <1>2, <2>4, StackType DEF NestedReturns
<1>3. QED
  BY <1>1, <1>2, ReturnStack

\* Taking the mutex keeps the types: the command is for a driver.
LEMMA LockType ==
  ASSUME TypeOK, CallInv, NEW t \in Threads, Lock(t)
  PROVE  TypeOK'
<1>1. cmd[t] \in Drivers
  BY DEF CallInv, Lock, Goto
<1> DEFINE q == <<Call(cmd[t])>>
<1>2. q \in Seq(Frame) /\ q # <<>>
  BY <1>1, CallIsFrame, EmptySeq
<1> HIDE DEF q
<1>3. frames' = [frames EXCEPT ![t] = q]
  BY DEF Lock, q
<1>4. frames' \in [Threads -> Seq(Frame)]
  BY <1>2, <1>3 DEF TypeOK
<1>5. \A u \in Threads : pc'[u] = "alloc" <=> frames'[u] # <<>>
  BY <1>2, <1>3 DEF TypeOK, Points, Lock, Goto
<1>6. \A u \in Threads : pc'[u] = "alloc" <=> mutex' = u
  BY DriverAssumption DEF TypeOK, Points, Lock, Goto
<1>7. QED
  BY <1>4, <1>5, <1>6 DEF TypeOK, Points, Lock, Goto

\* So does the entry of alloc_driver.
LEMMA AllocDriverType ==
  ASSUME TypeOK, NEW t \in Threads, AllocDriver(t)
  PROVE  TypeOK'
<1>1. pc[t] = "alloc" /\ Top(t) \in Frame
  BY OnlyStack DEF AllocDriver
<1>2. CASE Return(t) /\ UNCHANGED is_starting /\ exit_all' \in BOOLEAN
  <2>1. /\ pc' \in [Threads -> Points]
        /\ mutex' \in Threads \cup {Nobody}
        /\ \A u \in Threads : pc'[u] = "alloc" <=> mutex' = u
    BY <1>1, <1>2, ReturnType, DriverAssumption DEF TypeOK, Points
  <2>2. QED
    BY <1>1, <1>2, <2>1, ReturnType DEF TypeOK, AllocDriver
<1>3. CASE /\ is_starting' = [is_starting EXCEPT ![Top(t).driver] = TRUE]
           /\ frames' = [frames EXCEPT ![t][Depth(t)].next = 1]
           /\ UNCHANGED <<exit_all, pc, mutex, null_refs>>
  <2>1. TopBecomes(t, [driver |-> Top(t).driver, next |-> 1, left |-> Top(t).left])
    BY <1>1, <1>3, TopNext
  <2>2. [driver |-> Top(t).driver, next |-> 1, left |-> Top(t).left] \in Frame
    BY <1>1 DEF Frame
  <2>3. QED
    BY <1>1, <1>3, <2>1, <2>2, StackType DEF TypeOK, AllocDriver
<1>4. QED
  BY <1>2, <1>3 DEF AllocDriver, TypeOK

\* A dependency that is started lets the constructor go on; another is called for.
LEMMA GetDependencyStack ==
  ASSUME TypeOK, NEW t \in Threads, GetDependency(t),
         NEW d, d = Deps[Top(t).driver][Top(t).next]
  PROVE  /\ d \in Drivers
         /\ \/ /\ is_started[d]
               /\ TopBecomes(t, [driver |-> Top(t).driver, next |-> Top(t).next + 1,
                                 left |-> Top(t).left])
            \/ Pushes(t, Call(d))
<1>1. pc[t] = "alloc" /\ Top(t) \in Frame
  BY OnlyStack DEF GetDependency, Constructs
<1>2. d \in Drivers
  BY <1>1, DriverAssumption, ElementOfSeq DEF GetDependency, Constructs, Frame
<1>3. CASE is_started[d]
  <2>1. frames' = [frames EXCEPT ![t][Depth(t)].next = @ + 1]
    BY <1>3 DEF GetDependency
  <2>2. QED
    BY <1>1, <1>2, <1>3, <2>1, TopAdvances
<1>4. CASE ~is_started[d]
  <2>1. frames' = [frames EXCEPT ![t] = Append(@, Call(d))]
    BY <1>4 DEF GetDependency
  <2>2. QED
    BY <1>2, <2>1, PushCall
<1>5. QED
  BY <1>3, <1>4

\* The steps of a constructor keep the types.
LEMMA ConstructorType ==
  ASSUME TypeOK, NEW t \in Threads, GetDependency(t) \/ Construct(t)
  PROVE  TypeOK'
<1> DEFINE g == [driver |-> Top(t).driver, next |-> Top(t).next + 1, left |-> Top(t).left]
<1>1. pc[t] = "alloc" /\ Top(t) \in Frame /\ Len(Deps[Top(t).driver]) \in Nat
  BY OnlyStack DEF GetDependency, Constructs, Construct
<1>2. g \in Frame
  BY <1>1 DEF Frame
<1>3. CASE Construct(t)
  <2>1. TopBecomes(t, g)
    BY <1>1, <1>3, TopAdvances DEF Construct
  <2> HIDE DEF g
  <2>2. driver_tuple' \in [Drivers -> Nat] /\ is_starting' \in [Drivers -> BOOLEAN]
    <3>1. Top(t).driver \in Drivers
      BY <1>1 DEF Frame
    <3>2. QED
      BY <1>3, <3>1 DEF Construct, TypeOK
  <2>3. /\ frames' \in [Threads -> Seq(Frame)]
        /\ \A u \in Threads : pc[u] = "alloc" <=> frames'[u] # <<>>
    BY <1>1, <1>2, <2>1, StackType
  <2>4. QED
    BY <1>3, <2>2, <2>3 DEF TypeOK, Construct
<1>4. CASE GetDependency(t)
  <2> DEFINE d == Deps[Top(t).driver][Top(t).next]
  <2>1. d \in Drivers /\ (TopBecomes(t, g) \/ Pushes(t, Call(d)))
    BY <1>4, GetDependencyStack
  <2> HIDE DEF d, g
  <2>2. /\ frames' \in [Threads -> Seq(Frame)]
        /\ \A u \in Threads : pc[u] = "alloc" <=> frames'[u] # <<>>
    BY <1>1, <1>2, <2>1, CallIsFrame, StackType
  <2>3. QED
    BY <1>4, <2>2 DEF TypeOK, GetDependency
<1>5. QED
  BY <1>3, <1>4

\* So do the stores that publish the driver.
LEMMA StoresType ==
  ASSUME TypeOK, NEW t \in Threads, StoreDevice(t) \/ StoreFlag(t)
  PROVE  TypeOK'
<1>1. PICK v \in {"device", "flag"} : Stores(t, v)
  BY DEF StoreDevice, StoreFlag
<1> DEFINE g == [driver |-> Top(t).driver, next |-> Top(t).next, left |-> Top(t).left \ {v}]
<1>2. pc[t] = "alloc" /\ Top(t) \in Frame
  BY <1>1, OnlyStack DEF Stores
<1>3. g \in Frame /\ Top(t).driver \in Drivers
  BY <1>2 DEF Frame
<1>4. TopBecomes(t, g)
  BY <1>1, <1>2, TopStores DEF Stores
<1> HIDE DEF g
<1>5. /\ frames' \in [Threads -> Seq(Frame)]
      /\ \A u \in Threads : pc[u] = "alloc" <=> frames'[u] # <<>>
  BY <1>2, <1>3, <1>4, StackType
<1>6. is_started' \in [Drivers -> BOOLEAN] /\ device_list' \in [Drivers -> Nat]
  <2>1. CASE StoreDevice(t)
    BY <1>3, <2>1 DEF StoreDevice, TypeOK
  <2>2. CASE StoreFlag(t)
    BY <1>3, <2>2 DEF StoreFlag, TypeOK
  <2>3. QED
    BY <2>1, <2>2
<1>7. QED
  BY <1>1, <1>5, <1>6 DEF TypeOK, Stores

\* And the return after them.
LEMMA AllocatedType ==
  ASSUME TypeOK, NEW t \in Threads, Allocated(t)
  PROVE  TypeOK'
<1>1. pc[t] = "alloc" /\ Return(t)
  BY DEF Allocated
<1>2. /\ pc' \in [Threads -> Points]
      /\ mutex' \in Threads \cup {Nobody}
      /\ \A u \in Threads : pc'[u] = "alloc" <=> mutex' = u
  BY <1>1, ReturnType, DriverAssumption DEF TypeOK, Points
<1>3. QED
  BY <1>1, <1>2, ReturnType DEF TypeOK, Allocated

\* Every step inside alloc_driver keeps the types.
LEMMA AllocateType ==
  ASSUME TypeOK, CallInv, NEW t \in Threads, Allocate(t)
  PROVE  TypeOK'
  BY LockType, AllocDriverType, ConstructorType, StoresType, AllocatedType DEF Allocate

\* The steps of a command outside alloc_driver.
Outside(t) ==
  \/ Dispatch(t) \/ RunDevice(t) \/ LockDriver(t) \/ ReceiveArgs(t) \/ ArgsFail(t)
  \/ Operation(t) \/ NoSuchDriver(t)
  \/ \E d \in Targets : Command(t, d)
  \/ t = Main /\ (InitCommon \/ StoreFlags \/ ServerExit)

\* A step of the system is one inside alloc_driver or one outside it.
LEMMA NextSteps ==
  ASSUME [Next]_vars, ~UNCHANGED vars
  PROVE  \E t \in Threads : Allocate(t) \/ Outside(t)
<1>1. CASE \E t \in Threads : Thread(t)
  BY <1>1 DEF Thread, Execute, Outside
<1>2. CASE \E s \in Sessions : Clients(s)
  BY <1>2 DEF Clients, Outside, Threads
<1>3. QED
  BY <1>1, <1>2 DEF Next

\* A step outside alloc_driver moves one thread and allocates nothing.
LEMMA OutsideType ==
  ASSUME TypeOK, NEW t \in Threads, Outside(t)
  PROVE  /\ TypeOK' /\ UNCHANGED alloc
         /\ pc[t] # "alloc" /\ pc'[t] # "alloc"
         /\ \A u \in Threads \ {t} : pc'[u] = pc[u] /\ cmd'[u] = cmd[u] /\ raced'[u] = raced[u]
<1>1. CASE Dispatch(t)
  BY <1>1 DEF Dispatch, Goto, TypeOK, Points, alloc
<1>2. CASE RunDevice(t)
  BY <1>2 DEF RunDevice, Goto, TypeOK, Points, alloc
<1>3. CASE LockDriver(t)
  BY <1>3 DEF LockDriver, Goto, TypeOK, Points, alloc
<1>4. CASE ReceiveArgs(t)
  BY <1>4 DEF ReceiveArgs, Goto, TypeOK, Points, alloc
<1>5. CASE ArgsFail(t)
  BY <1>5 DEF ArgsFail, Goto, TypeOK, Points, alloc
<1>6. CASE Operation(t)
  BY <1>6 DEF Operation, Goto, TypeOK, Points, alloc
<1>7. ASSUME NEW d \in Targets, Command(t, d)
      PROVE  /\ TypeOK' /\ UNCHANGED alloc
             /\ pc[t] # "alloc" /\ pc'[t] # "alloc"
             /\ \A u \in Threads \ {t} :
                  pc'[u] = pc[u] /\ cmd'[u] = cmd[u] /\ raced'[u] = raced[u]
  BY <1>7 DEF Command, Goto, TypeOK, Points, alloc
<1>8. CASE t = Main /\ (InitCommon \/ StoreFlags \/ ServerExit)
  BY <1>8 DEF InitCommon, StoreFlags, ServerExit, Goto, TypeOK, Points, alloc
<1>9. CASE NoSuchDriver(t)
  BY <1>9 DEF NoSuchDriver, TypeOK, Points, alloc
<1>10. QED
  BY <1>1, <1>2, <1>3, <1>4, <1>5, <1>6, <1>7, <1>8, <1>9 DEF Outside

-----------------------------------------------------------------------------
(* The stack and the drivers, step by step *)

\* A reference that is bound, or known to be null, remains so.
BoundGrows == \A d, e \in Drivers : Bound(d, e) => Bound(d, e)'

\* A call below the last one keeps its invariant.
LEMMA FrameKept ==
  ASSUME TypeOK, StackInv, NEW t \in Threads, pc[t] = "alloc", BoundGrows,
         NEW i \in 1 .. Len(frames[t]) - 1, NEW f, f = frames[t][i],
         \A j \in 1 .. i : frames'[t][j] = frames[t][j],
         is_starting'[f.driver]
  PROVE  FrameInv(t, i)'
<1>1. i \in 1 .. Len(frames[t]) /\ i \in 1 .. i
  BY OnlyStack
<1>2. f \in Frame /\ Begun(f) /\ ~Publishes(f) /\ FrameInv(t, i) /\ frames'[t][i] = f
  BY <1>1, BelowTop DEF StackInv
<1>3. Deps[f.driver] \in Seq(Drivers) /\ f.driver \in Drivers
  BY <1>2, DriverAssumption DEF Frame
<1>4. \A j \in 1 .. f.next - 1 : Bound(f.driver, Deps[f.driver][j])'
  <2> SUFFICES ASSUME NEW j \in 1 .. f.next - 1 PROVE Bound(f.driver, Deps[f.driver][j])'
    OBVIOUS
  <2>1. j \in 1 .. Len(Deps[f.driver])
    BY <1>2, <1>3 DEF Begun, Frame
  <2>2. Deps[f.driver][j] \in Drivers /\ Bound(f.driver, Deps[f.driver][j])
    BY <1>2, <1>3, <2>1, ElementOfSeq DEF FrameInv
  <2>3. QED
    BY <1>3, <2>2 DEF BoundGrows
<1>5. \A j \in 1 .. i - 1 : frames'[t][j].driver # f.driver
  <2> SUFFICES ASSUME NEW j \in 1 .. i - 1 PROVE frames'[t][j].driver # f.driver
    OBVIOUS
  <2>1. f.next # 0 /\ j \in 1 .. i
    BY <1>2, <1>3 DEF Begun
  <2>2. QED
    BY <1>2, <2>1 DEF FrameInv
<1>6. f.next \in 0 .. Len(Deps[f.driver]) + 2 /\ f.left = {"device", "flag"}
  BY <1>2 DEF FrameInv
<1>7. QED
  BY <1>2, <1>4, <1>5, <1>6 DEF FrameInv, Begun, Publishes, Bound

\* A step that changes the last call of t only.
LEMMA TopStep ==
  ASSUME TypeOK, StackInv, NEW t \in Threads, pc[t] = "alloc", BoundGrows,
         NEW g \in Frame, TopBecomes(t, g), g.driver = Top(t).driver, cmd' = cmd,
         \A j \in 1 .. Len(frames[t]) - 1 : is_starting'[frames[t][j].driver],
         NEW n, n = Len(frames[t]), FrameInv(t, n)'
  PROVE  StackInv'
<1>1. n \in Nat \ {0} /\ Top(t) = frames[t][n] /\ Len(frames'[t]) = n
  BY OnlyStack DEF TopBecomes
<1>2. \A j \in 1 .. n : frames'[t][j].driver = frames[t][j].driver
  BY <1>1 DEF TopBecomes
<1>3. frames'[t][1].driver = cmd'[t]
  <2>1. frames[t] # <<>>
    BY DEF TypeOK
  <2>2. QED
    BY <1>1, <1>2, <2>1 DEF StackInv
<1>4. \A i \in 1 .. n : FrameInv(t, i)'
  <2> SUFFICES ASSUME NEW i \in 1 .. n PROVE FrameInv(t, i)'
    OBVIOUS
  <2>1. CASE i = n
    BY <2>1
  <2>2. CASE i # n
    <3>1. i \in 1 .. n - 1
      BY <1>1, <2>2
    <3>2. \A j \in 1 .. i : frames'[t][j] = frames[t][j]
      BY <1>1, <3>1 DEF TopBecomes
    <3>3. is_starting'[frames[t][i].driver]
      BY <3>1
    <3>4. QED
      BY <3>1, <3>2, <3>3, FrameKept
  <2>3. QED
    BY <2>1, <2>2
<1>5. \A i \in 1 .. n - 1 : WaitsForNext(t, i)'
  <2> SUFFICES ASSUME NEW i \in 1 .. n - 1 PROVE WaitsForNext(t, i)'
    OBVIOUS
  <2>1. WaitsForNext(t, i)
    BY DEF StackInv
  <2>2. frames'[t][i] = frames[t][i] /\ i + 1 \in 1 .. n
    BY <1>1 DEF TopBecomes
  <2>3. QED
    BY <1>2, <2>1, <2>2 DEF WaitsForNext
<1>6. \A u \in Threads \ {t} : frames'[u] = <<>>
  BY OnlyStack DEF TopBecomes
<1>7. QED
  BY <1>1, <1>3, <1>4, <1>5, <1>6, EmptySeq DEF StackInv

\* The drivers below the last call, and those without a call, stay as they are.
LEMMA OtherDriver ==
  ASSUME TypeOK, StackInv, NEW t \in Threads, pc[t] = "alloc", BoundGrows,
         NEW g, TopBecomes(t, g), NEW d \in Drivers, d # Top(t).driver, DriverState(d),
         driver_tuple'[d] = driver_tuple[d], device_list'[d] = device_list[d],
         is_started'[d] = is_started[d], is_starting'[d] = is_starting[d]
  PROVE  DriverState(d)'
<1>1. ~Publishing(d)
  BY WhoPublishes
<1>2. Starting(d) => Starting(d)'
  <2> SUFFICES ASSUME Starting(d) PROVE Starting(d)'
    OBVIOUS
  <2>1. PICK i \in 1 .. Len(frames[t]) : frames[t][i].driver = d /\ Begun(frames[t][i])
    BY WhoStarts
  <2>2. i # Len(frames[t]) /\ Len(frames[t]) \in Nat \ {0}
    BY <2>1, OnlyStack
  <2>3. i \in 1 .. Len(frames'[t]) /\ frames'[t][i] = frames[t][i]
    BY <2>2 DEF TopBecomes
  <2>4. QED
    BY <2>1, <2>3 DEF Starting, Begun
<1>3. \A j \in 1 .. Len(Deps[d]) : Bound(d, Deps[d][j]) => Bound(d, Deps[d][j])'
  BY DriverAssumption, ElementOfSeq DEF BoundGrows
<1>4. QED
  BY <1>1, <1>2, <1>3 DEF DriverState

\* What is known of the last call of the thread inside alloc_driver.
LEMMA TopInv ==
  ASSUME TypeOK, StackInv, NEW t \in Threads, pc[t] = "alloc",
         NEW f, f = Top(t), NEW n, n = Len(frames[t])
  PROVE  /\ f \in Frame /\ f.driver \in Drivers
         /\ n \in Nat \ {0} /\ frames[t][n] = f /\ FrameInv(t, n)
         /\ Deps[f.driver] \in Seq(Drivers) /\ Len(Deps[f.driver]) \in Nat
         /\ f.next = 0 => ~Begun(f) /\ ~Publishes(f)
<1>1. f \in Frame /\ n \in Nat \ {0} /\ frames[t][n] = f
  BY OnlyStack
<1>2. FrameInv(t, n)
  BY <1>1 DEF StackInv
<1>3. f.driver \in Drivers /\ Deps[f.driver] \in Seq(Drivers) /\ Len(Deps[f.driver]) \in Nat
  BY <1>1, DriverAssumption DEF Frame
<1>4. QED
  BY <1>1, <1>2, <1>3 DEF Begun, Publishes

\* The construction of an absent driver begins.
LEMMA BeginStep ==
  ASSUME TypeOK, StackInv, DriverInv, NEW t \in Threads, pc[t] = "alloc",
         NEW f, f = Top(t), f.next = 0, ~is_started[f.driver], ~is_starting[f.driver],
         is_starting' = [is_starting EXCEPT ![f.driver] = TRUE],
         NEW g, g = [driver |-> f.driver, next |-> 1, left |-> f.left], TopBecomes(t, g),
         UNCHANGED <<cmd, is_started, driver_tuple, device_list, null_refs>>
  PROVE  StackInv' /\ DriverInv'
<1>0. PICK n : n = Len(frames[t])
  OBVIOUS
<1>1. /\ f \in Frame /\ f.driver \in Drivers
      /\ n \in Nat \ {0} /\ frames[t][n] = f /\ FrameInv(t, n)
      /\ Len(Deps[f.driver]) \in Nat
      /\ ~Begun(f) /\ ~Publishes(f)
  BY <1>0, TopInv
<1>2. /\ g \in Frame /\ g.driver = f.driver /\ g.next = 1 /\ g.left = {"device", "flag"}
      /\ Begun(g) /\ ~Publishes(g)
  BY <1>1 DEF Frame, FrameInv, Begun, Publishes
<1>3. BoundGrows
  BY DEF BoundGrows, Bound
<1>4. /\ frames'[t][n] = g /\ Len(frames'[t]) = n
      /\ \A j \in 1 .. n - 1 : frames'[t][j] = frames[t][j]
  BY <1>0 DEF TopBecomes
<1>5. \A j \in 1 .. n - 1 : /\ is_starting'[frames[t][j].driver]
                           /\ frames[t][j].driver # f.driver
  <2> SUFFICES ASSUME NEW j \in 1 .. n - 1
               PROVE  /\ is_starting'[frames[t][j].driver]
                      /\ frames[t][j].driver # f.driver
    OBVIOUS
  <2>1. is_starting[frames[t][j].driver] /\ frames[t][j] \in Frame
    BY <1>0, BelowTop
  <2>2. QED
    BY <2>1 DEF TypeOK, Frame
<1>6. FrameInv(t, n)'
  <2>1. is_starting'[g.driver]
    BY <1>1, <1>2 DEF TypeOK
  <2>2. \A j \in 1 .. n - 1 : frames'[t][j].driver # g.driver
    BY <1>2, <1>4, <1>5
  <2>3. g.next \in 0 .. Len(Deps[g.driver]) + 2
    BY <1>1, <1>2
  <2>4. QED
    BY <1>2, <1>4, <2>1, <2>2, <2>3 DEF FrameInv, Begun, Publishes
<1>7. StackInv'
  BY <1>0, <1>2, <1>3, <1>5, <1>6, TopStep
<1>8. DriverState(f.driver)'
  <2>1. driver_tuple[f.driver] = 0
    BY <1>1, WhoPublishes DEF DriverInv, DriverState
  <2>2. Starting(f.driver)'
    BY <1>1, <1>2, <1>4 DEF Starting, Begun
  <2>3. QED
    BY <1>1, <2>1, <2>2 DEF DriverInv, DriverState
<1>9. \A d \in Drivers \ {f.driver} : DriverState(d)'
  <2> SUFFICES ASSUME NEW d \in Drivers, d # f.driver PROVE DriverState(d)'
    OBVIOUS
  <2>1. DriverState(d) /\ is_starting'[d] = is_starting[d]
    BY DEF DriverInv, TypeOK
  <2>2. QED
    BY <1>3, <2>1, OtherDriver
<1>10. QED
  BY <1>7, <1>8, <1>9 DEF DriverInv

\* A dependency is there already, and the constructor goes on.
LEMMA AdvanceStep ==
  ASSUME TypeOK, StackInv, DriverInv, NEW t \in Threads, pc[t] = "alloc",
         NEW f, f = Top(t), f.next \in 1 .. Len(Deps[f.driver]),
         is_started[Deps[f.driver][f.next]],
         NEW g, g = [driver |-> f.driver, next |-> f.next + 1, left |-> f.left],
         TopBecomes(t, g),
         UNCHANGED <<cmd, is_started, is_starting, driver_tuple, device_list, null_refs>>
  PROVE  StackInv' /\ DriverInv'
<1>0. PICK n : n = Len(frames[t])
  OBVIOUS
<1>1. /\ f \in Frame /\ f.driver \in Drivers
      /\ n \in Nat \ {0} /\ frames[t][n] = f /\ FrameInv(t, n)
      /\ Len(Deps[f.driver]) \in Nat
      /\ Begun(f) /\ ~Publishes(f)
  BY <1>0, TopInv DEF Begun, Publishes
<1>2. /\ g \in Frame /\ g.driver = f.driver /\ g.next = f.next + 1
      /\ g.left = {"device", "flag"} /\ Begun(g) /\ ~Publishes(g)
      /\ g.next \in 0 .. Len(Deps[g.driver]) + 2
  BY <1>1 DEF Frame, FrameInv, Begun, Publishes
<1>3. BoundGrows
  BY DEF BoundGrows, Bound
<1>4. /\ frames'[t][n] = g /\ Len(frames'[t]) = n
      /\ \A j \in 1 .. n - 1 : frames'[t][j] = frames[t][j]
  BY <1>0 DEF TopBecomes
<1>5. \A j \in 1 .. n - 1 : /\ is_starting'[frames[t][j].driver]
                           /\ frames[t][j].driver # f.driver
  BY <1>0, <1>1, BelowTop
<1>6. \A j \in 1 .. g.next - 1 : Bound(g.driver, Deps[g.driver][j])
  <2> SUFFICES ASSUME NEW j \in 1 .. g.next - 1 PROVE Bound(g.driver, Deps[g.driver][j])
    OBVIOUS
  <2>1. CASE j = f.next
    <3>1. Deps[f.driver][j] \in Drivers
      BY <1>1, <2>1, DriverAssumption, ElementOfSeq
    <3>2. driver_tuple[Deps[f.driver][j]] = 1
      BY <2>1, <3>1 DEF DriverInv, DriverState
    <3>3. QED
      BY <1>2, <3>2 DEF Bound
  <2>2. CASE j # f.next
    <3>1. j \in 1 .. f.next - 1
      BY <1>2, <2>2
    <3>2. QED
      BY <1>1, <1>2, <3>1 DEF FrameInv
  <2>3. QED
    BY <2>1, <2>2
<1>7. FrameInv(t, n)'
  <2>1. is_starting'[g.driver]
    BY <1>1, <1>2 DEF FrameInv
  <2>2. \A j \in 1 .. n - 1 : frames'[t][j].driver # g.driver
    BY <1>2, <1>4, <1>5
  <2>3. QED
    BY <1>2, <1>4, <1>6, <2>1, <2>2 DEF FrameInv, Begun, Publishes, Bound
<1>8. StackInv'
  BY <1>0, <1>2, <1>3, <1>5, <1>7, TopStep
<1>9. DriverState(f.driver)'
  <2>1. DriverState(f.driver) /\ is_starting[f.driver]
    BY <1>1 DEF DriverInv, FrameInv
  <2>2. Starting(f.driver)'
    <3>1. n \in 1 .. Len(frames'[t]) /\ frames'[t][n].driver = f.driver
      BY <1>1, <1>2, <1>4
    <3>2. frames'[t][n].next \in 1 .. Len(Deps[frames'[t][n].driver]) + 1
      BY <1>2, <1>4 DEF Begun
    <3>3. QED
      BY <3>1, <3>2 DEF Starting, Begun
  <2>3. QED
    BY <1>1, <2>1, <2>2 DEF DriverState
<1>10. \A d \in Drivers \ {f.driver} : DriverState(d)'
  BY <1>3, OtherDriver DEF DriverInv
<1>11. QED
  BY <1>8, <1>9, <1>10 DEF DriverInv

\* The constructor returns.
LEMMA ConstructStep ==
  ASSUME TypeOK, StackInv, DriverInv, NEW t \in Threads, pc[t] = "alloc",
         NEW f, f = Top(t), f.next = Len(Deps[f.driver]) + 1,
         driver_tuple' = [driver_tuple EXCEPT ![f.driver] = @ + 1],
         is_starting' = [is_starting EXCEPT ![f.driver] = FALSE],
         NEW g, g = [driver |-> f.driver, next |-> f.next + 1, left |-> f.left],
         TopBecomes(t, g), UNCHANGED <<cmd, is_started, device_list, null_refs>>
  PROVE  /\ StackInv' /\ DriverInv'
         /\ driver_tuple[f.driver] = 0
<1>0. PICK n : n = Len(frames[t])
  OBVIOUS
<1>1. /\ f \in Frame /\ f.driver \in Drivers
      /\ n \in Nat \ {0} /\ frames[t][n] = f /\ FrameInv(t, n)
      /\ Len(Deps[f.driver]) \in Nat
      /\ Begun(f) /\ ~Publishes(f)
  BY <1>0, TopInv DEF Begun, Publishes
<1>2. /\ g \in Frame /\ g.driver = f.driver /\ g.left = {"device", "flag"}
      /\ ~Begun(g) /\ Publishes(g)
      /\ g.next \in 0 .. Len(Deps[g.driver]) + 2
  BY <1>1 DEF Frame, FrameInv, Begun, Publishes
<1>3. /\ driver_tuple[f.driver] = 0 /\ device_list[f.driver] = 0
      /\ ~is_started[f.driver]
      /\ driver_tuple'[f.driver] = 1 /\ ~is_starting'[f.driver]
  BY <1>1 DEF FrameInv, DriverInv, DriverState, TypeOK
<1>4. /\ BoundGrows
      /\ \A d \in Drivers \ {f.driver} : /\ driver_tuple'[d] = driver_tuple[d]
                                        /\ is_starting'[d] = is_starting[d]
  BY <1>3 DEF BoundGrows, Bound, TypeOK
<1>5. /\ frames'[t][n] = g /\ Len(frames'[t]) = n
      /\ \A j \in 1 .. n - 1 : frames'[t][j] = frames[t][j]
  BY <1>0 DEF TopBecomes
<1>6. \A j \in 1 .. n - 1 : /\ is_starting'[frames[t][j].driver]
                           /\ frames[t][j].driver # f.driver
  <2> SUFFICES ASSUME NEW j \in 1 .. n - 1
               PROVE  /\ is_starting'[frames[t][j].driver]
                      /\ frames[t][j].driver # f.driver
    OBVIOUS
  <2>1. /\ is_starting[frames[t][j].driver] /\ frames[t][j] \in Frame
        /\ frames[t][j].driver # f.driver
    BY <1>0, <1>1, BelowTop
  <2>2. QED
    BY <1>4, <2>1 DEF Frame
<1>7. FrameInv(t, n)'
  <2>1. \A j \in 1 .. n - 1 : frames'[t][j].driver # g.driver
    BY <1>2, <1>5, <1>6
  <2>2. QED
    BY <1>2, <1>3, <1>5, <2>1 DEF FrameInv, Begun, Publishes
<1>8. StackInv'
  BY <1>0, <1>2, <1>4, <1>6, <1>7, TopStep
<1>9. DriverState(f.driver)'
  <2>1. Publishing(f.driver)'
    BY <1>1, <1>2, <1>5, EmptySeq DEF Publishing, Publishes, Top, Depth
  <2>2. \A j \in 1 .. Len(Deps[f.driver]) : Bound(f.driver, Deps[f.driver][j])'
    <3>1. \A j \in 1 .. Len(Deps[f.driver]) : Bound(f.driver, Deps[f.driver][j])
      BY <1>1 DEF FrameInv
    <3>2. QED
      BY <1>1, <1>4, <3>1, DriverAssumption, ElementOfSeq DEF BoundGrows
  <2>3. QED
    BY <1>3, <2>1, <2>2 DEF DriverState
<1>10. \A d \in Drivers \ {f.driver} : DriverState(d)'
  BY <1>4, OtherDriver DEF DriverInv
<1>11. QED
  BY <1>3, <1>8, <1>9, <1>10 DEF DriverInv

\* The driver is put into the device list, or its flag is set.
LEMMA StoreStep ==
  ASSUME TypeOK, StackInv, DriverInv, NEW t \in Threads, pc[t] = "alloc",
         NEW f, f = Top(t), Publishes(f),
         NEW v \in f.left,
         \/ /\ v = "device" /\ UNCHANGED is_started
            /\ device_list' = [device_list EXCEPT ![f.driver] = @ + 1]
         \/ /\ v = "flag" /\ UNCHANGED device_list
            /\ is_started' = [is_started EXCEPT ![f.driver] = TRUE],
         NEW g, g = [driver |-> f.driver, next |-> f.next, left |-> f.left \ {v}],
         TopBecomes(t, g), UNCHANGED <<cmd, is_starting, driver_tuple, null_refs>>
  PROVE  /\ StackInv' /\ DriverInv'
         /\ v = "device" => device_list[f.driver] = 0
<1>0. PICK n : n = Len(frames[t])
  OBVIOUS
<1>1. /\ f \in Frame /\ f.driver \in Drivers
      /\ n \in Nat \ {0} /\ frames[t][n] = f /\ FrameInv(t, n)
      /\ f.next = Len(Deps[f.driver]) + 2 /\ f.next # 0
  BY <1>0, TopInv DEF Publishes
<1>2. /\ g \in Frame /\ g.driver = f.driver /\ g.left = f.left \ {v} /\ g.next = f.next
      /\ ~Begun(g) /\ Publishes(g)
      /\ g.next \in 0 .. Len(Deps[g.driver]) + 2
  BY <1>1, TopInv DEF Frame, Begun, Publishes
<1>3. /\ driver_tuple[f.driver] = 1 /\ DriverState(f.driver)
      /\ is_started[f.driver] <=> "flag" \notin f.left
      /\ device_list[f.driver] = 0 <=> "device" \in f.left
  BY <1>1 DEF FrameInv, DriverInv
<1>4. /\ is_started'[f.driver] <=> "flag" \notin g.left
      /\ device_list'[f.driver] = 0 <=> "device" \in g.left
      /\ device_list'[f.driver] \in {0, 1}
      /\ v = "device" => device_list[f.driver] = 0
  <2>1. is_started \in [Drivers -> BOOLEAN] /\ device_list \in [Drivers -> Nat]
    BY DEF TypeOK
  <2>2. device_list[f.driver] \in {0, 1} /\ f.left \subseteq {"device", "flag"}
    BY <1>1, <1>3 DEF DriverState, Frame
  <2>3. CASE v = "device"
    BY <1>1, <1>2, <1>3, <2>1, <2>2, <2>3
  <2>4. CASE v = "flag"
    BY <1>1, <1>2, <1>3, <2>1, <2>2, <2>4
  <2>5. QED
    BY <2>2, <2>3, <2>4
<1>5. /\ BoundGrows
      /\ \A d \in Drivers \ {f.driver} : /\ device_list'[d] = device_list[d]
                                        /\ is_started'[d] = is_started[d]
  BY DEF BoundGrows, Bound, TypeOK
<1>6. /\ frames'[t][n] = g /\ Len(frames'[t]) = n
      /\ \A j \in 1 .. n - 1 : frames'[t][j] = frames[t][j]
  BY <1>0 DEF TopBecomes
<1>7. \A j \in 1 .. n - 1 : /\ is_starting'[frames[t][j].driver]
                           /\ frames[t][j].driver # f.driver
  BY <1>0, <1>1, BelowTop
<1>8. FrameInv(t, n)'
  <2>1. \A j \in 1 .. n - 1 : frames'[t][j].driver # g.driver
    BY <1>2, <1>6, <1>7
  <2>2. QED
    BY <1>2, <1>3, <1>4, <1>6, <2>1 DEF FrameInv, Begun, Publishes
<1>9. StackInv'
  BY <1>0, <1>2, <1>5, <1>7, <1>8, TopStep
<1>10. DriverState(f.driver)'
  <2>1. Publishing(f.driver)'
    BY <1>1, <1>2, <1>6, EmptySeq DEF Publishing, Publishes, Top, Depth
  <2>2. \A j \in 1 .. Len(Deps[f.driver]) : Bound(f.driver, Deps[f.driver][j])'
    BY <1>3 DEF DriverState, Bound
  <2>3. ~is_starting'[f.driver]
    BY <1>3 DEF DriverState
  <2>4. QED
    BY <1>3, <1>4, <2>1, <2>2, <2>3 DEF DriverState
<1>11. \A d \in Drivers \ {f.driver} : DriverState(d)'
  BY <1>5, OtherDriver DEF DriverInv
<1>12. QED
  BY <1>4, <1>9, <1>10, <1>11 DEF DriverInv

\* alloc_driver is called for a dependency that is not started.
LEMMA PushStep ==
  ASSUME TypeOK, StackInv, DriverInv, NEW t \in Threads, pc[t] = "alloc",
         NEW f, f = Top(t), f.next \in 1 .. Len(Deps[f.driver]),
         Pushes(t, Call(Deps[f.driver][f.next])),
         UNCHANGED <<cmd, is_started, is_starting, driver_tuple, device_list, null_refs>>
  PROVE  StackInv' /\ DriverInv'
<1>0. PICK n : n = Len(frames[t])
  OBVIOUS
<1>1. /\ f \in Frame /\ f.driver \in Drivers
      /\ n \in Nat \ {0} /\ frames[t][n] = f /\ FrameInv(t, n)
      /\ Len(Deps[f.driver]) \in Nat
      /\ ~Publishes(f)
  BY <1>0, TopInv DEF Publishes
<1>2. PICK d \in Drivers : d = Deps[f.driver][f.next]
  BY <1>1, DriverAssumption, ElementOfSeq
<1>3. /\ Len(frames'[t]) = n + 1 /\ frames'[t][n + 1] = Call(d)
      /\ \A u \in Threads \ {t} : frames'[u] = frames[u]
  BY <1>0, <1>2 DEF Pushes
<1>kept. \A j \in 1 .. n : frames'[t][j] = frames[t][j]
  BY <1>0 DEF Pushes
<1>nat. n \in Nat \ {0}
  BY <1>1
<1>4. FrameInv(t, n + 1)'
  BY <1>2, <1>3, DriverAssumption DEF FrameInv, Call, Begun, Publishes
<1>5. \A i \in 1 .. n : FrameInv(t, i)'
  <2> SUFFICES ASSUME NEW i \in 1 .. n PROVE FrameInv(t, i)'
    OBVIOUS
  <2>1. FrameInv(t, i)
    BY <1>0 DEF StackInv
  <2>2. \A j \in 1 .. i : frames'[t][j] = frames[t][j]
    BY <1>nat, <1>kept
  <2>3. frames'[t][i] = frames[t][i] /\ \A j \in 1 .. i - 1 : frames'[t][j] = frames[t][j]
    BY <2>2
  <2>4. QED
    BY <2>1, <2>3 DEF FrameInv, Begun, Publishes, Bound
<1>6. \A i \in 1 .. n : WaitsForNext(t, i)'
  <2>1. WaitsForNext(t, n)'
    BY <1>1, <1>2, <1>3, <1>kept DEF WaitsForNext, Call
  <2>2. ASSUME NEW i \in 1 .. n - 1 PROVE WaitsForNext(t, i)'
    <3>1. WaitsForNext(t, i)
      BY <1>0 DEF StackInv
    <3>2. frames'[t][i] = frames[t][i] /\ frames'[t][i + 1] = frames[t][i + 1]
      BY <1>nat, <1>kept
    <3>3. QED
      BY <3>1, <3>2 DEF WaitsForNext
  <2>3. QED
    BY <1>1, <2>1, <2>2
<1>7. StackInv'
  <2>1. frames'[t][1].driver = cmd'[t]
    <3>1. frames[t][1].driver = cmd[t]
      BY DEF StackInv, TypeOK
    <3>2. frames'[t][1] = frames[t][1]
      BY <1>nat, <1>kept
    <3>3. QED
      BY <3>1, <3>2
  <2>2. \A u \in Threads \ {t} : frames'[u] = <<>>
    BY <1>3, OnlyStack
  <2>3. \A i \in 1 .. n + 1 : FrameInv(t, i)'
    BY <1>1, <1>4, <1>5
  <2>4. QED
    BY <1>1, <1>3, <1>6, <2>1, <2>2, <2>3, EmptySeq DEF StackInv
<1>8. \A e \in Drivers : DriverState(e)'
  <2> SUFFICES ASSUME NEW e \in Drivers PROVE DriverState(e)'
    OBVIOUS
  <2>1. DriverState(e) /\ ~Publishing(e)
    BY <1>1, WhoPublishes DEF DriverInv
  <2>2. Starting(e) => Starting(e)'
    <3> SUFFICES ASSUME Starting(e) PROVE Starting(e)'
      OBVIOUS
    <3>1. PICK i \in 1 .. n : frames[t][i].driver = e /\ Begun(frames[t][i])
      BY <1>0, WhoStarts
    <3>2. i \in 1 .. Len(frames'[t]) /\ frames'[t][i] = frames[t][i]
      BY <1>nat, <1>3, <1>kept
    <3>3. QED
      BY <3>1, <3>2 DEF Starting, Begun
  <2>3. QED
    BY <2>1, <2>2 DEF DriverState, Bound
<1>9. QED
  BY <1>7, <1>8 DEF DriverInv

\* alloc_driver returns when it did nothing, or when both stores are made.
Returnable(f) == f.next = 0 \/ f.left = {}

\* The call that returns is not under construction, and if it publishes its
\* driver the driver is complete.
LEMMA ReturnsComplete ==
  ASSUME TypeOK, StackInv, DriverInv, NEW t \in Threads, pc[t] = "alloc",
         NEW f, f = Top(t), Returnable(f)
  PROVE  /\ ~Begun(f)
         /\ Publishes(f) => is_started[f.driver] /\ device_list[f.driver] = 1
         /\ f.left = {} => Publishes(f)
<1>1. PICK n : n = Len(frames[t])
  OBVIOUS
<1>2. /\ f \in Frame /\ f.driver \in Drivers /\ frames[t][n] = f /\ FrameInv(t, n)
      /\ Len(Deps[f.driver]) \in Nat
      /\ f.next = 0 => ~Begun(f) /\ ~Publishes(f)
  BY <1>1, TopInv
<1>3. device_list[f.driver] \in {0, 1}
  BY <1>2 DEF DriverInv, DriverState
<1>4. CASE f.next = 0
  BY <1>2, <1>4 DEF FrameInv
<1>5. CASE f.left = {}
  <2>1. Publishes(f)
    BY <1>2, <1>5 DEF FrameInv
  <2>2. ~Begun(f)
    BY <1>2, <2>1 DEF Begun, Publishes
  <2>3. is_started[f.driver] /\ device_list[f.driver] = 1
    BY <1>2, <1>3, <1>5, <2>1 DEF FrameInv
  <2>4. QED
    BY <2>1, <2>2, <2>3
<1>6. QED
  BY <1>4, <1>5 DEF Returnable

\* It returns to the constructor of the driver below, which gets a reference to
\* a driver or a null one.
LEMMA NestedReturnStep ==
  ASSUME TypeOK, StackInv, DriverInv, NEW t \in Threads, pc[t] = "alloc",
         Returnable(Top(t)), NestedReturns(t),
         UNCHANGED <<cmd, is_started, is_starting, driver_tuple, device_list>>
  PROVE  StackInv' /\ DriverInv'
<1>1. PICK n \in Nat \ {0} : n = Len(frames[t]) - 1
  BY DEF NestedReturns
<1>2. Len(frames[t]) = n + 1 /\ n \in 1 .. Len(frames[t]) - 1
  <2>1. Len(frames[t]) \in Nat
    BY OnlyStack
  <2>2. \A l \in Nat : n = l - 1 => l = n + 1 /\ n \in 1 .. l - 1
    OBVIOUS
  <2>3. QED
    BY <1>1, <2>1, <2>2
<1>3. PICK f : f = frames[t][n]
  OBVIOUS
<1>4. PICK e : e = Top(t)
  OBVIOUS
<1>5. /\ f \in Frame /\ Begun(f) /\ ~Publishes(f) /\ is_starting[f.driver]
      /\ FrameInv(t, n) /\ WaitsForNext(t, n)
  BY <1>2, <1>3, BelowTop DEF StackInv
<1>6. /\ f.driver \in Drivers /\ Len(Deps[f.driver]) \in Nat
      /\ Deps[f.driver] \in Seq(Drivers)
  BY <1>5, DriverAssumption DEF Frame
<1>7. e = frames[t][n + 1] /\ e.driver \in Drivers
  BY <1>2, <1>4, OnlyStack DEF Frame
<1>8. f.next \in 1 .. Len(Deps[f.driver]) /\ Deps[f.driver][f.next] = e.driver
  BY <1>3, <1>5, <1>7 DEF WaitsForNext
<1>9. PICK g : g = [driver |-> f.driver, next |-> f.next + 1, left |-> f.left]
  OBVIOUS
<1>10. /\ g.driver = f.driver /\ g.next = f.next + 1
       /\ g.left = {"device", "flag"} /\ Begun(g) /\ ~Publishes(g)
       /\ g.next \in 0 .. Len(Deps[g.driver]) + 2
  <2>1. f.left = {"device", "flag"}
    BY <1>3, <1>5 DEF FrameInv
  <2>2. g.driver = f.driver /\ g.next = f.next + 1 /\ g.left = {"device", "flag"}
    BY <1>9, <2>1
  <2>3. f.next + 1 \in 2 .. Len(Deps[f.driver]) + 1
    BY <1>6, <1>8
  <2>4. QED
    BY <1>6, <2>2, <2>3 DEF Begun, Publishes
<1>11. /\ Len(frames'[t]) = n /\ frames'[t][n] = g
       /\ \A u \in Threads \ {t} : frames'[u] = frames[u]
  BY <1>1, <1>3, <1>9 DEF NestedReturns, Pops
<1>12. \A j \in 1 .. n - 1 : frames'[t][j] = frames[t][j]
  BY <1>1 DEF NestedReturns, Pops
<1>13. null_refs' = IF driver_tuple[e.driver] = 0
                    THEN null_refs \cup {<<f.driver, e.driver>>} ELSE null_refs
  BY <1>1, <1>3, <1>4 DEF NestedReturns
<1>14. BoundGrows
  BY <1>13 DEF BoundGrows, Bound
<1>15. Bound(f.driver, e.driver)'
  BY <1>7, <1>13 DEF Bound, DriverInv, DriverState
<1>16. FrameInv(t, n)'
  <2>1. \A j \in 1 .. g.next - 1 : Bound(g.driver, Deps[g.driver][j])'
    <3> SUFFICES ASSUME NEW j \in 1 .. g.next - 1
                 PROVE  Bound(f.driver, Deps[f.driver][j])'
      BY <1>10
    <3>1. CASE j = f.next
      BY <1>8, <1>15, <3>1
    <3>2. CASE j # f.next
      <4>1. j \in 1 .. f.next - 1 /\ j \in 1 .. Len(Deps[f.driver])
        BY <1>6, <1>8, <1>10, <3>2
      <4>2. Bound(f.driver, Deps[f.driver][j]) /\ Deps[f.driver][j] \in Drivers
        BY <1>3, <1>5, <1>6, <4>1, ElementOfSeq DEF FrameInv
      <4>3. QED
        BY <1>6, <1>14, <4>2 DEF BoundGrows
    <3>3. QED
      BY <3>1, <3>2
  <2>2. \A j \in 1 .. n - 1 : frames'[t][j].driver # g.driver
    <3>1. f.next # 0
      BY <1>6, <1>8
    <3>2. \A j \in 1 .. n - 1 : frames[t][j].driver # f.driver
      BY <1>3, <1>5, <3>1 DEF FrameInv
    <3>3. QED
      BY <1>10, <1>12, <3>2
  <2>3. is_starting'[g.driver]
    BY <1>5, <1>10
  <2>4. QED
    BY <1>10, <1>11, <2>1, <2>2, <2>3 DEF FrameInv, Begun, Publishes, Bound
<1>17. \A i \in 1 .. n : FrameInv(t, i)'
  <2> SUFFICES ASSUME NEW i \in 1 .. n - 1 PROVE FrameInv(t, i)'
    BY <1>16
  <2>1. i \in 1 .. Len(frames[t]) - 1 /\ \A j \in 1 .. i : frames'[t][j] = frames[t][j]
    BY <1>2, <1>12
  <2>2. is_starting'[frames[t][i].driver]
    BY <2>1, BelowTop
  <2>3. QED
    BY <1>14, <2>1, <2>2, FrameKept
<1>18. \A i \in 1 .. n - 1 : WaitsForNext(t, i)'
  <2> SUFFICES ASSUME NEW i \in 1 .. n - 1 PROVE WaitsForNext(t, i)'
    OBVIOUS
  <2>1. WaitsForNext(t, i)
    BY <1>2 DEF StackInv
  <2>2. frames'[t][i] = frames[t][i]
    BY <1>12
  <2>3. frames'[t][i + 1].driver = frames[t][i + 1].driver
    <3>1. i + 1 = n \/ i + 1 \in 1 .. n - 1
      OBVIOUS
    <3>2. QED
      BY <1>3, <1>10, <1>11, <1>12, <3>1
  <2>4. QED
    BY <2>1, <2>2, <2>3 DEF WaitsForNext
<1>19. StackInv'
  <2>1. frames'[t][1].driver = cmd'[t]
    <3>1. frames[t][1].driver = cmd[t]
      BY DEF StackInv, TypeOK
    <3>2. 1 = n \/ 1 \in 1 .. n - 1
      OBVIOUS
    <3>3. QED
      BY <1>3, <1>10, <1>11, <1>12, <3>1, <3>2
  <2>2. \A u \in Threads \ {t} : frames'[u] = <<>>
    BY <1>11, OnlyStack
  <2>3. QED
    BY <1>11, <1>17, <1>18, <2>1, <2>2, EmptySeq DEF StackInv
<1>20. \A d \in Drivers : DriverState(d)'
  <2> SUFFICES ASSUME NEW d \in Drivers PROVE DriverState(d)'
    OBVIOUS
  <2>1. DriverState(d) /\ (Publishing(d) => is_started[d] /\ device_list[d] = 1)
    BY ReturnsComplete, WhoPublishes DEF DriverInv
  <2>2. Starting(d) => Starting(d)'
    <3> SUFFICES ASSUME Starting(d) PROVE Starting(d)'
      OBVIOUS
    <3>1. PICK i \in 1 .. n + 1 : frames[t][i].driver = d /\ Begun(frames[t][i])
      BY <1>2, WhoStarts
    <3>2. i # n + 1
      BY <1>4, <1>7, <3>1, ReturnsComplete
    <3>3. i = n \/ i \in 1 .. n - 1
      BY <3>2
    <3>4. i \in 1 .. Len(frames'[t]) /\ frames'[t][i].driver = d /\ Begun(frames'[t][i])
      BY <1>3, <1>10, <1>11, <1>12, <3>1, <3>3
    <3>5. QED
      BY <3>4 DEF Starting, Begun
  <2>3. \A j \in 1 .. Len(Deps[d]) : Bound(d, Deps[d][j]) => Bound(d, Deps[d][j])'
    BY <1>14, DriverAssumption, ElementOfSeq DEF BoundGrows
  <2>4. QED
    BY <2>1, <2>2, <2>3 DEF DriverState
<1>21. QED
  BY <1>19, <1>20 DEF DriverInv

\* It returns to the thread, which releases the mutex: nothing is under
\* construction, and the driver of the command has its device.
LEMMA LastReturnStep ==
  ASSUME TypeOK, StackInv, DriverInv, NEW t \in Threads, pc[t] = "alloc",
         Returnable(Top(t)), LastReturns(t),
         UNCHANGED <<cmd, is_started, is_starting, driver_tuple, device_list>>
  PROVE  /\ StackInv' /\ DriverInv'
         /\ Top(t).driver = cmd[t]
         /\ Top(t).left = {} \/ is_started[Top(t).driver] => HasDevice(cmd[t])
         /\ \A d \in Drivers : ~is_starting[d]
<1>1. frames[t] # <<>> /\ Len(frames[t]) = 1 /\ Top(t) = frames[t][1]
  BY OnlyStack DEF LastReturns, TypeOK
<1>2. Top(t).driver = cmd[t]
  BY <1>1 DEF StackInv
<1>3. \A u \in Threads : frames'[u] = <<>>
  BY OnlyStack DEF LastReturns, TypeOK
<1>4. StackInv'
  BY <1>3, EmptySeq DEF StackInv
<1>5. \A d \in Drivers : ~is_starting[d]
  <2> SUFFICES ASSUME NEW d \in Drivers, is_starting[d] PROVE FALSE
    OBVIOUS
  <2>1. PICK i \in 1 .. 1 : frames[t][i].driver = d /\ Begun(frames[t][i])
    BY <1>1, WhoStarts DEF DriverInv, DriverState
  <2>2. i = 1
    OBVIOUS
  <2>3. QED
    BY <1>1, <2>1, <2>2, ReturnsComplete
<1>6. \A d \in Drivers : DriverState(d)'
  <2> SUFFICES ASSUME NEW d \in Drivers PROVE DriverState(d)'
    OBVIOUS
  <2>1. DriverState(d) /\ (Publishing(d) => is_started[d] /\ device_list[d] = 1)
    BY ReturnsComplete, WhoPublishes DEF DriverInv
  <2>2. null_refs' = null_refs
    BY DEF LastReturns
  <2>3. QED
    BY <1>5, <2>1, <2>2 DEF DriverState, Bound
<1>7. Top(t).left = {} \/ is_started[Top(t).driver] => HasDevice(cmd[t])
  <2> SUFFICES ASSUME Top(t).left = {} \/ is_started[Top(t).driver]
               PROVE  HasDevice(cmd[t])
    OBVIOUS
  <2>1. PICK d \in Drivers : d = cmd[t]
    BY <1>2, OnlyStack DEF Frame
  <2>2. CASE Top(t).left = {}
    BY <1>2, <2>1, <2>2, ReturnsComplete DEF HasDevice
  <2>3. CASE is_started[d]
    <3>1. DriverState(d) /\ (Publishing(d) => is_started[d] /\ device_list[d] = 1)
      BY ReturnsComplete, WhoPublishes DEF DriverInv
    <3>2. QED
      BY <2>1, <2>3, <3>1 DEF DriverState, HasDevice
  <2>4. QED
    BY <1>2, <2>1, <2>2, <2>3
<1>8. QED
  BY <1>2, <1>4, <1>5, <1>6, <1>7 DEF DriverInv

\* A thread takes the mutex and calls alloc_driver for its command.
LEMMA LockStep ==
  ASSUME TypeOK, StackInv, DriverInv, CallInv, NEW t \in Threads, Lock(t)
  PROVE  StackInv' /\ DriverInv' /\ CallInv'
<1>1. PICK d \in Drivers : d = cmd[t]
  BY DEF CallInv, Lock, Goto
<1>2. \A u \in Threads : frames[u] = <<>>
  BY DriverAssumption DEF Lock, TypeOK
<1>3. /\ frames'[t] = <<Call(d)>> /\ cmd' = cmd
      /\ \A u \in Threads \ {t} : frames'[u] = <<>>
  BY <1>1, <1>2 DEF Lock, TypeOK
<1>4. Len(frames'[t]) = 1 /\ frames'[t][1] = Call(d)
  BY <1>3
<1>5. FrameInv(t, 1)'
  BY <1>4, DriverAssumption DEF FrameInv, Call, Begun, Publishes
<1>6. StackInv'
  <2>1. frames'[t][1].driver = cmd'[t]
    BY <1>1, <1>3, <1>4 DEF Call
  <2>2. \A i \in 1 .. Len(frames'[t]) : FrameInv(t, i)'
    <3>1. \A i \in 1 .. 1 : i = 1
      OBVIOUS
    <3>2. QED
      BY <1>4, <1>5, <3>1
  <2>3. \A i \in 1 .. Len(frames'[t]) - 1 : WaitsForNext(t, i)'
    <3>1. 1 .. 1 - 1 = {}
      OBVIOUS
    <3>2. QED
      BY <1>4, <3>1
  <2>4. \A u \in Threads \ {t} : frames'[u] = <<>>
    BY <1>3
  <2>5. QED
    BY <2>1, <2>2, <2>3, <2>4, EmptySeq DEF StackInv
<1>7. DriverInv'
  <2> SUFFICES ASSUME NEW e \in Drivers PROVE DriverState(e)'
    BY DEF DriverInv
  <2>1. DriverState(e) /\ ~Starting(e) /\ ~Publishing(e)
    BY NobodyStarts DEF Lock, DriverInv
  <2>2. QED
    BY <2>1 DEF DriverState, Bound, Lock
<1>8. CallInv'
  BY <1>1 DEF CallInv, HasDevice, Lock, Goto, TypeOK
<1>9. QED
  BY <1>6, <1>7, <1>8

\* The call that returns to the thread leaves a driver with a device.
LEMMA ReturnedCall ==
  ASSUME TypeOK, DriverInv, CallInv, NEW t \in Threads, pc[t] = "alloc", LastReturns(t),
         HasDevice(cmd[t]), UNCHANGED <<cmd, raced, driver_tuple, device_list>>
  PROVE  CallInv'
<1>1. driver_tuple[cmd[t]] = 1
  BY DEF DriverInv, DriverState, HasDevice
<1>2. \A u \in Threads : pc'[u] = IF u = t THEN "run" ELSE pc[u]
  BY DEF LastReturns, TypeOK
<1>3. QED
  BY <1>1, <1>2 DEF CallInv, HasDevice

\* The commands that are past alloc_driver, or outside it, keep what they have.
LEMMA CallsKept ==
  ASSUME TypeOK, CallInv, NEW t \in Threads, pc[t] = "alloc",
         UNCHANGED <<process, pc, cmd, raced>>,
         \A d \in Drivers : driver_tuple[d] = 1 => driver_tuple'[d] = 1,
         \A d \in Drivers : device_list[d] = 1 => device_list'[d] = 1
  PROVE  CallInv'
<1>1. \A u \in Threads : cmd[u] \in Drivers \cup {ServerDriver}
  BY DEF TypeOK, Targets
<1>2. QED
  BY <1>1 DEF CallInv, HasDevice

-----------------------------------------------------------------------------
(* The invariant *)

\* The entry of alloc_driver keeps the invariant.
LEMMA AllocDriverInv ==
  ASSUME TypeOK, StackInv, DriverInv, CallInv, NEW t \in Threads, AllocDriver(t)
  PROVE  StackInv' /\ DriverInv' /\ CallInv'
<1>1. PICK f : f = Top(t)
  OBVIOUS
<1>2. /\ pc[t] = "alloc" /\ f.next = 0 /\ f.driver \in Drivers
      /\ UNCHANGED <<process, cmd, raced, is_started, driver_tuple, device_list>>
  BY <1>1, TopInv DEF AllocDriver
<1>4. CASE Return(t) /\ UNCHANGED is_starting /\ (is_started[f.driver] \/ is_starting[f.driver])
  <2>1. Returnable(Top(t))
    BY <1>1, <1>2 DEF Returnable
  <2>2. CASE NestedReturns(t)
    <3>1. UNCHANGED <<process, pc, cmd, raced, driver_tuple, device_list>>
      BY <1>2, <2>2 DEF NestedReturns
    <3>2. CallInv'
      BY <1>2, <3>1, CallsKept
    <3>3. StackInv' /\ DriverInv'
      BY <1>2, <1>4, <2>1, <2>2, NestedReturnStep
    <3>4. QED
      BY <3>2, <3>3
  <2>3. CASE LastReturns(t)
    <3>1. /\ StackInv' /\ DriverInv'
          /\ f.driver = cmd[t] /\ ~is_starting[f.driver]
          /\ is_started[f.driver] => HasDevice(cmd[t])
      BY <1>1, <1>2, <1>4, <2>1, <2>3, LastReturnStep
    <3>2. CallInv'
      BY <1>2, <1>4, <2>3, <3>1, ReturnedCall
    <3>3. QED
      BY <3>1, <3>2
  <2>4. QED
    BY <1>2, <1>4, <2>2, <2>3, ReturnStack
<1>5. CASE /\ ~is_started[f.driver] /\ ~is_starting[f.driver]
           /\ is_starting' = [is_starting EXCEPT ![f.driver] = TRUE]
           /\ frames' = [frames EXCEPT ![t][Depth(t)].next = 1]
           /\ UNCHANGED <<exit_all, pc, mutex, null_refs>>
  <2>1. TopBecomes(t, [driver |-> f.driver, next |-> 1, left |-> f.left])
    BY <1>1, <1>2, <1>5, TopNext
  <2>2. StackInv' /\ DriverInv'
    BY <1>1, <1>2, <1>5, <2>1, BeginStep
  <2>3. CallInv'
    BY <1>2, <1>5, CallsKept
  <2>4. QED
    BY <2>2, <2>3
<1>6. QED
  BY <1>1, <1>4, <1>5 DEF AllocDriver

\* So do the steps of a constructor.
LEMMA ConstructorInv ==
  ASSUME TypeOK, StackInv, DriverInv, CallInv, NEW t \in Threads,
         GetDependency(t) \/ Construct(t)
  PROVE  StackInv' /\ DriverInv' /\ CallInv'
<1>1. PICK f : f = Top(t)
  OBVIOUS
<1>2. pc[t] = "alloc" /\ f.driver \in Drivers
  BY <1>1, TopInv DEF GetDependency, Construct, Constructs
<1>3. CASE GetDependency(t)
  <2>1. PICK d : d = Deps[f.driver][f.next]
    OBVIOUS
  <2>2. /\ f.next \in 1 .. Len(Deps[f.driver])
        /\ UNCHANGED <<process, pc, cmd, raced, is_started, is_starting, driver_tuple,
                       device_list, null_refs>>
    BY <1>1, <1>3 DEF GetDependency, Constructs
  <2>3. CallInv'
    BY <1>2, <2>2, CallsKept
  <2>4. \/ /\ is_started[d]
           /\ TopBecomes(t, [driver |-> f.driver, next |-> f.next + 1, left |-> f.left])
        \/ Pushes(t, Call(d))
    BY <1>1, <1>3, <2>1, GetDependencyStack
  <2>5. StackInv' /\ DriverInv'
    BY <1>1, <1>2, <2>1, <2>2, <2>4, AdvanceStep, PushStep
  <2>6. QED
    BY <2>3, <2>5
<1>4. CASE Construct(t)
  <2>1. /\ f.next = Len(Deps[f.driver]) + 1
        /\ driver_tuple' = [driver_tuple EXCEPT ![f.driver] = @ + 1]
        /\ is_starting' = [is_starting EXCEPT ![f.driver] = FALSE]
        /\ UNCHANGED <<process, pc, cmd, raced, is_started, device_list, null_refs>>
    BY <1>1, <1>4 DEF Construct
  <2>2. TopBecomes(t, [driver |-> f.driver, next |-> f.next + 1, left |-> f.left])
    BY <1>1, <1>2, <1>4, TopAdvances DEF Construct
  <2>3. StackInv' /\ DriverInv' /\ driver_tuple[f.driver] = 0
    BY <1>1, <1>2, <2>1, <2>2, ConstructStep
  <2>4. \A d \in Drivers : driver_tuple[d] = 1 => driver_tuple'[d] = 1
    BY <2>1, <2>3 DEF TypeOK
  <2>5. CallInv'
    BY <1>2, <2>1, <2>4, CallsKept
  <2>6. QED
    BY <2>3, <2>5
<1>5. QED
  BY <1>3, <1>4

\* So do the stores that publish a driver.
LEMMA StoresInv ==
  ASSUME TypeOK, StackInv, DriverInv, CallInv, NEW t \in Threads,
         StoreDevice(t) \/ StoreFlag(t)
  PROVE  StackInv' /\ DriverInv' /\ CallInv'
<1>1. PICK f : f = Top(t)
  OBVIOUS
<1>2. PICK v : /\ Stores(t, v)
               /\ \/ /\ v = "device" /\ UNCHANGED is_started
                     /\ device_list' = [device_list EXCEPT ![f.driver] = @ + 1]
                  \/ /\ v = "flag" /\ UNCHANGED device_list
                     /\ is_started' = [is_started EXCEPT ![f.driver] = TRUE]
  BY <1>1 DEF StoreDevice, StoreFlag
<1>3. /\ pc[t] = "alloc" /\ f.driver \in Drivers /\ Publishes(f) /\ v \in f.left
      /\ UNCHANGED <<process, pc, cmd, raced, is_starting, driver_tuple, null_refs>>
  BY <1>1, <1>2, TopInv DEF Stores, Publishes
<1>4. TopBecomes(t, [driver |-> f.driver, next |-> f.next, left |-> f.left \ {v}])
  BY <1>1, <1>2, <1>3, TopStores DEF Stores
<1>5. /\ StackInv' /\ DriverInv'
      /\ v = "device" => device_list[f.driver] = 0
  BY <1>1, <1>2, <1>3, <1>4, StoreStep
<1>6. \A d \in Drivers : device_list[d] = 1 => device_list'[d] = 1
  BY <1>2, <1>5 DEF TypeOK
<1>7. CallInv'
  BY <1>3, <1>6, CallsKept
<1>8. QED
  BY <1>5, <1>7

\* And the return after them.
LEMMA AllocatedInv ==
  ASSUME TypeOK, StackInv, DriverInv, CallInv, NEW t \in Threads, Allocated(t)
  PROVE  StackInv' /\ DriverInv' /\ CallInv'
<1>1. /\ pc[t] = "alloc" /\ Top(t).left = {} /\ Return(t) /\ Returnable(Top(t))
      /\ UNCHANGED <<process, cmd, raced, is_started, is_starting, driver_tuple,
                     device_list>>
  BY DEF Allocated, Returnable
<1>2. CASE NestedReturns(t)
  <2>1. CallInv'
    BY <1>1, <1>2, CallsKept DEF NestedReturns
  <2>2. QED
    BY <1>1, <1>2, <2>1, NestedReturnStep
<1>3. CASE LastReturns(t)
  <2>1. StackInv' /\ DriverInv' /\ HasDevice(cmd[t])
    BY <1>1, <1>3, LastReturnStep
  <2>2. CallInv'
    BY <1>1, <1>3, <2>1, ReturnedCall
  <2>3. QED
    BY <2>1, <2>2
<1>4. QED
  BY <1>1, <1>2, <1>3, ReturnStack

\* Every step inside alloc_driver keeps the invariant.
LEMMA AllocateInv ==
  ASSUME DMInv, NEW t \in Threads, Allocate(t)
  PROVE  DMInv'
<1>1. TypeOK'
  BY AllocateType DEF DMInv
<1>2. StackInv' /\ DriverInv' /\ CallInv'
  <2>1. CASE Lock(t)
    BY <2>1, LockStep DEF DMInv
  <2>2. QED
    BY <2>1, AllocDriverInv, ConstructorInv, StoresInv, AllocatedInv DEF DMInv, Allocate
<1>3. QED
  BY <1>1, <1>2 DEF DMInv

\* A thread goes on with a driver that is there, and runs it once it has a device.
CallOK(t) ==
  /\ pc[t] \in {"lock", "alloc", "run"} => cmd[t] \in Drivers
  /\ pc[t] \in {"wait", "args", "operation"} /\ cmd[t] # ServerDriver =>
       driver_tuple[cmd[t]] = 1
  /\ pc[t] = "dispatch" /\ ~raced[t] => HasDevice(cmd[t])
  /\ pc[t] = "run" => IF raced[t] THEN driver_tuple[cmd[t]] = 1 ELSE HasDevice(cmd[t])

\* The thread that moves outside alloc_driver is where its driver lets it be.
LEMMA OutsideCall ==
  ASSUME DMInv, NEW t \in Threads, Outside(t)
  PROVE  cmd'[Main] = Common /\ CallOK(t)'
<1>1. /\ cmd[Main] = Common /\ cmd[t] \in Drivers \cup {ServerDriver}
      /\ CallOK(t)
      /\ pc \in [Threads -> Points] /\ cmd \in [Threads -> Targets]
  BY DEF DMInv, CallInv, CallOK, TypeOK, Targets
<1>2. \A d \in Drivers : device_list[d] # 0 => driver_tuple[d] = 1
  BY DEF DMInv, DriverInv, DriverState
<1>3. UNCHANGED <<driver_tuple, device_list>>
  BY OutsideType DEF DMInv, alloc
<1>4. CASE Dispatch(t)
  <2>1. /\ cmd' = cmd /\ raced' = raced /\ pc[t] = "dispatch"
        /\ pc'[t] = IF cmd[t] = ServerDriver THEN "wait"
                    ELSE IF is_started[cmd[t]] THEN "run" ELSE "lock"
    BY <1>1, <1>4 DEF Dispatch, Goto
  <2>2. CASE cmd[t] = ServerDriver
    BY <1>1, <2>1, <2>2 DEF CallOK, HasDevice
  <2>3. CASE cmd[t] \in Drivers
    <3>1. cmd[t] # ServerDriver
      BY <2>3, DriverAssumption
    <3>2. CASE is_started[cmd[t]]
      <4>1. pc'[t] = "run"
        BY <2>1, <3>1, <3>2
      <4>2. driver_tuple[cmd[t]] = 1
        BY <2>3, <3>2 DEF DMInv, DriverInv, DriverState
      <4>3. QED
        BY <1>1, <1>3, <2>1, <2>3, <4>1, <4>2 DEF CallOK, HasDevice
    <3>3. CASE ~is_started[cmd[t]]
      <4>1. pc'[t] = "lock"
        BY <2>1, <3>1, <3>3
      <4>2. QED
        BY <1>1, <2>1, <2>3, <4>1 DEF CallOK, HasDevice
    <3>4. QED
      BY <3>2, <3>3
  <2>4. QED
    BY <1>1, <2>2, <2>3
<1>5. CASE RunDevice(t)
  BY <1>1, <1>2, <1>3, <1>5 DEF RunDevice, Goto, CallOK, HasDevice
<1>6. CASE LockDriver(t) \/ ReceiveArgs(t)
  BY <1>1, <1>3, <1>6 DEF LockDriver, ReceiveArgs, Goto, CallOK, HasDevice
<1>7. CASE ArgsFail(t) \/ Operation(t)
  BY <1>1, <1>3, <1>7 DEF ArgsFail, Operation, Goto, CallOK, HasDevice
<1>8. ASSUME NEW d \in Targets, Command(t, d)
      PROVE  cmd'[Main] = Common /\ CallOK(t)'
  <2>1. /\ pc'[t] = "dispatch" /\ cmd'[t] = d /\ t # Main
        /\ cmd'[Main] = cmd[Main]
    BY <1>1, <1>8 DEF Command, Goto
  <2>2. d \in Drivers => device_list[d] \in {0, 1}
    BY DEF DMInv, DriverInv, DriverState
  <2>3. raced'[t] = (d \in Drivers => device_list[d] = 0)
    BY <1>8 DEF Command, DMInv, TypeOK
  <2>4. ASSUME ~raced'[t] PROVE HasDevice(d)
    <3>1. d \in Drivers /\ device_list[d] # 0
      BY <2>3, <2>4, Zenon
    <3>2. QED
      BY <2>2, <3>1 DEF HasDevice
  <2>5. HasDevice(d) => HasDevice(cmd[t])'
    BY <1>3, <2>1 DEF HasDevice
  <2>6. CallOK(t)'
    BY <2>1, <2>4, <2>5 DEF CallOK
  <2>7. QED
    BY <1>1, <2>1, <2>6
<1>9. CASE t = Main /\ (InitCommon \/ StoreFlags \/ ServerExit)
  BY <1>1, <1>3, <1>9 DEF InitCommon, StoreFlags, ServerExit, Goto, CallOK, HasDevice
<1>10. CASE NoSuchDriver(t)
  BY <1>1, <1>3, <1>10 DEF NoSuchDriver, CallOK, HasDevice
<1>11. QED
  BY <1>4, <1>5, <1>6, <1>7, <1>8, <1>9, <1>10 DEF Outside

\* The invariant of the stack is about the drivers and the stack only.
LEMMA StackUnchanged ==
  ASSUME StackInv, UNCHANGED alloc,
         \A t \in Threads : frames[t] # <<>> => cmd'[t] = cmd[t]
  PROVE  StackInv'
<1> SUFFICES ASSUME NEW t \in Threads
             PROVE  /\ frames'[t] # <<>> => frames'[t][1].driver = cmd'[t]
                    /\ \A i \in 1 .. Len(frames'[t]) : FrameInv(t, i)'
                    /\ \A i \in 1 .. Len(frames'[t]) - 1 : WaitsForNext(t, i)'
  BY DEF StackInv
<1>1. UNCHANGED <<frames, is_started, is_starting, driver_tuple, device_list, null_refs>>
  BY DEF alloc
<1>2. frames'[t] # <<>> => frames'[t][1].driver = cmd'[t]
  BY <1>1 DEF StackInv
<1>3. \A i \in 1 .. Len(frames[t]) : FrameInv(t, i)'
  <2> SUFFICES ASSUME NEW i \in 1 .. Len(frames[t]) PROVE FrameInv(t, i)'
    OBVIOUS
  <2>1. FrameInv(t, i)
    BY DEF StackInv
  <2>2. QED
    BY <1>1, <2>1 DEF FrameInv, Begun, Publishes, Bound
<1>4. \A i \in 1 .. Len(frames[t]) - 1 : WaitsForNext(t, i)'
  <2> SUFFICES ASSUME NEW i \in 1 .. Len(frames[t]) - 1 PROVE WaitsForNext(t, i)'
    OBVIOUS
  <2>1. WaitsForNext(t, i)
    BY DEF StackInv
  <2>2. QED
    BY <1>1, <2>1 DEF WaitsForNext
<1>5. QED
  BY <1>1, <1>2, <1>3, <1>4

\* Nor do the facts about the drivers.
LEMMA DriversUnchanged ==
  ASSUME DriverInv, UNCHANGED alloc
  PROVE  DriverInv'
<1> SUFFICES ASSUME NEW d \in Drivers PROVE DriverState(d)'
  BY DEF DriverInv
<1>1. UNCHANGED <<frames, is_started, is_starting, driver_tuple, device_list, null_refs>>
  BY DEF alloc
<1>2. DriverState(d)
  BY DEF DriverInv
<1>3. Starting(d)' <=> Starting(d)
  BY <1>1 DEF Starting, Begun, Depth
<1>4. Publishing(d)' <=> Publishing(d)
  BY <1>1 DEF Publishing, Publishes, Top, Depth
<1>5. \A e \in Drivers : Bound(d, e)' <=> Bound(d, e)
  BY <1>1 DEF Bound
<1>6. \A j \in 1 .. Len(Deps[d]) : Deps[d][j] \in Drivers
  BY DriverAssumption, ElementOfSeq
<1>7. QED
  BY <1>1, <1>2, <1>3, <1>4, <1>5, <1>6 DEF DriverState

\* Outside alloc_driver only the point of the thread and its command change.
LEMMA OutsideInv ==
  ASSUME DMInv, NEW t \in Threads, Outside(t)
  PROVE  DMInv'
<1>1. TypeOK /\ StackInv /\ DriverInv /\ CallInv
  BY DEF DMInv
<1>2. /\ TypeOK' /\ UNCHANGED alloc
      /\ pc[t] # "alloc" /\ pc'[t] # "alloc"
      /\ \A u \in Threads \ {t} : pc'[u] = pc[u] /\ cmd'[u] = cmd[u] /\ raced'[u] = raced[u]
  BY <1>1, OutsideType
<1>3. frames[t] = <<>>
  BY <1>1, <1>2 DEF TypeOK
<1>4. StackInv'
  BY <1>1, <1>2, <1>3, StackUnchanged DEF TypeOK
<1>5. DriverInv'
  BY <1>1, <1>2, DriversUnchanged
<1>6. CallInv'
  BY <1>1, <1>2, OutsideCall DEF CallInv, CallOK, HasDevice, alloc
<1>7. QED
  BY <1>2, <1>4, <1>5, <1>6 DEF DMInv

\* The invariant holds when the process starts.
LEMMA DMInit == Init => DMInv
<1> SUFFICES ASSUME Init PROVE DMInv
  OBVIOUS
<1>1. TypeOK
  BY InitType
<1>2. \A t \in Threads : frames[t] = <<>> /\ pc[t] \in {"dispatch", "idle"}
  BY DEF Init
<1>3. StackInv
  BY <1>2, EmptySeq DEF StackInv
<1>4. DriverInv
  BY DEF DriverInv, DriverState, Init
<1>5. CallInv
  BY <1>2, DriverAssumption DEF CallInv, Init, Threads
<1>6. QED
  BY <1>1, <1>3, <1>4, <1>5 DEF DMInv

\* Every step keeps it.
LEMMA DMStep == DMInv /\ [Next]_vars => DMInv'
<1> SUFFICES ASSUME DMInv, [Next]_vars PROVE DMInv'
  OBVIOUS
<1>1. CASE UNCHANGED vars
  <2>1. TypeOK'
    BY <1>1 DEF DMInv, TypeOK, vars
  <2>2. StackInv'
    BY <1>1, StackUnchanged DEF DMInv, alloc, vars
  <2>3. DriverInv'
    BY <1>1, DriversUnchanged DEF DMInv, alloc, vars
  <2>4. QED
    BY <1>1, <2>1, <2>2, <2>3 DEF DMInv, CallInv, HasDevice, vars
<1>2. CASE ~UNCHANGED vars
  BY <1>2, NextSteps, AllocateInv, OutsideInv
<1>3. QED
  BY <1>1, <1>2

-----------------------------------------------------------------------------
(* What holds of every run *)

\* The stack follows the dependencies and the drivers the stack, in every
\* reachable state of the driver manager.
THEOREM DMInvariant == Spec => []DMInv
<1>1. QED
  BY DMInit, DMStep, PTL DEF Spec

\* Every variable keeps its type, and only the thread that holds the recursive
\* mutex is inside alloc_driver.
THEOREM DriverTypes == Spec => []TypeOK
<1>1. DMInv => TypeOK
  BY DEF DMInv
<1>2. QED
  BY <1>1, DMInvariant, PTL

\* alloc_driver constructs no driver and no Driver<> object twice, whatever the
\* dependencies, the sessions and the order of the plain stores.
THEOREM DriversConstructedOnce == Spec => []SingleInstance
<1>1. DMInv => SingleInstance
  BY DEF DMInv, DriverInv, DriverState, SingleInstance
<1>2. QED
  BY <1>1, DMInvariant, PTL

\* An operation runs on a driver whose dependencies are there, unless the
\* circular dependency was detected, whatever the order of the plain stores.
THEOREM OperationsBound == Spec => []DependenciesBound
<1>1. DMInv => DependenciesBound
  <2> SUFFICES ASSUME DMInv, NEW s \in Sessions, pc[s] = "operation",
                      cmd[s] # ServerDriver, NEW i \in DOMAIN Deps[cmd[s]]
               PROVE  \/ driver_tuple[Deps[cmd[s]][i]] = 1
                      \/ <<cmd[s], Deps[cmd[s]][i]>> \in null_refs
    BY DEF DependenciesBound
  <2>1. cmd[s] \in Drivers /\ driver_tuple[cmd[s]] = 1
    BY DEF DMInv, CallInv, TypeOK, Threads, Targets
  <2>2. i \in 1 .. Len(Deps[cmd[s]])
    BY <2>1, DriverAssumption, LenProperties
  <2>3. QED
    BY <2>1, <2>2 DEF DMInv, DriverInv, DriverState, Bound
<1>2. QED
  BY <1>1, DMInvariant, PTL

\* A command finds its device, whatever the order in which the plain stores become
\* visible, unless it came before the driver had one and never took the mutex.
THEOREM DevicesFound == Spec => []DeviceFoundUnlessRaced
<1>1. DMInv => DeviceFoundUnlessRaced
  BY DEF DMInv, CallInv, HasDevice, DeviceFoundUnlessRaced, Threads
<1>2. QED
  BY <1>1, DMInvariant, PTL

-----------------------------------------------------------------------------
(* What a failed allocation does                                           *)

\* The drivers that Common needs, itself included, are in Below and can be
\* ordered: a driver ranks above those its constructor gets.
Ranks(Below, rank) ==
  /\ Common \in Below /\ Below \subseteq Drivers
  /\ rank \in [Below -> Nat]
  /\ \A d \in Below : \A i \in 1 .. Len(Deps[d]) :
        Deps[d][i] \in Below /\ rank[Deps[d][i]] < rank[d]

\* No circular dependency is reachable from Common; elsewhere there may be any.
CommonIsAcyclic ==
  \E Below \in SUBSET Drivers : \E rank \in [Below -> Nat] : Ranks(Below, rank)

\* The stack of the main thread goes down the ranks.
Ordered(Below, rank) ==
  \A i \in 1 .. Len(frames[Main]) :
     /\ frames[Main][i].driver \in Below
     /\ \A j \in 1 .. i - 1 :
           rank[frames[Main][i].driver] < rank[frames[Main][j].driver]

\* Until the server serves, only the main thread runs and it gets no null
\* reference; afterwards the first null reference sets exit_all, which nothing
\* resets any more.
StartupInv(Below, rank) ==
  /\ pc[Main] # "serving" =>
       /\ null_refs = {}
       /\ \A s \in Sessions : pc[s] = "idle"
       /\ Ordered(Below, rank)
  /\ pc[Main] = "serving" /\ null_refs # {} => exit_all

\* What a step inside alloc_driver does to the stack of the main thread.
LEMMA OrderedStep ==
  ASSUME NEW Below, NEW rank, Ranks(Below, rank), TypeOK, pc[Main] = "alloc",
         Ordered(Below, rank),
         \/ \E g \in Frame : TopBecomes(Main, g) /\ g.driver = Top(Main).driver
         \/ Pops(Main) /\ Len(frames[Main]) - 1 \in Nat \ {0}
         \/ \E d \in Below : Pushes(Main, Call(d)) /\ rank[d] < rank[Top(Main).driver]
  PROVE  Ordered(Below, rank)'
<1>1. PICK n \in Nat \ {0} : n = Len(frames[Main]) /\ Top(Main) = frames[Main][n]
  BY OnlyStack DEF Threads
<1>2. \A d \in Below : rank[d] \in Nat
  BY DEF Ranks
<1>3. \A i \in 1 .. n :
         /\ frames[Main][i].driver \in Below
         /\ \A j \in 1 .. i - 1 :
               rank[frames[Main][i].driver] < rank[frames[Main][j].driver]
  BY <1>1 DEF Ordered
<1> DEFINE m == Len(frames'[Main])
<1>4. SUFFICES ASSUME NEW i \in 1 .. m
               PROVE  /\ frames'[Main][i].driver \in Below
                      /\ \A j \in 1 .. i - 1 :
                           rank[frames'[Main][i].driver] < rank[frames'[Main][j].driver]
  BY DEF Ordered
<1>5. ASSUME NEW g \in Frame, TopBecomes(Main, g), g.driver = Top(Main).driver
      PROVE  m = n /\ \A k \in 1 .. n : frames'[Main][k].driver = frames[Main][k].driver
  <2>1. /\ Len(frames'[Main]) = n /\ frames'[Main][n] = g
        /\ \A j \in 1 .. n - 1 : frames'[Main][j] = frames[Main][j]
    BY <1>1, <1>5 DEF TopBecomes
  <2>2. \A k \in 1 .. n : k = n \/ k \in 1 .. n - 1
    OBVIOUS
  <2>3. QED
    BY <1>1, <1>5, <2>1, <2>2
<1>6. ASSUME Pops(Main), n - 1 \in Nat \ {0}
      PROVE  /\ m = n - 1
             /\ \A k \in 1 .. n - 1 : frames'[Main][k].driver = frames[Main][k].driver
  BY <1>1, <1>6 DEF Pops
<1>7. ASSUME NEW d \in Below, Pushes(Main, Call(d)), rank[d] < rank[Top(Main).driver]
      PROVE  /\ m = n + 1 /\ frames'[Main][n + 1].driver = d
             /\ \A k \in 1 .. n : /\ frames'[Main][k].driver = frames[Main][k].driver
                                   /\ rank[d] < rank[frames[Main][k].driver]
  <2>1. /\ m = n + 1 /\ frames'[Main][n + 1].driver = d
        /\ \A k \in 1 .. n : frames'[Main][k].driver = frames[Main][k].driver
    BY <1>1, <1>7 DEF Pushes, Call
  <2>2. \A k \in 1 .. n : rank[d] < rank[frames[Main][k].driver]
    BY <1>1, <1>2, <1>3, <1>7
  <2>3. QED
    BY <2>1, <2>2
<1> HIDE DEF m
<1>8. CASE \/ \E g \in Frame : TopBecomes(Main, g) /\ g.driver = Top(Main).driver
           \/ Pops(Main) /\ n - 1 \in Nat \ {0}
  <2>1. /\ i \in 1 .. n
        /\ \A k \in 1 .. i : frames'[Main][k].driver = frames[Main][k].driver
    BY <1>5, <1>6, <1>8
  <2>2. QED
    BY <1>3, <2>1
<1>9. CASE \E d \in Below : Pushes(Main, Call(d)) /\ rank[d] < rank[Top(Main).driver]
  <2>1. PICK d \in Below : Pushes(Main, Call(d)) /\ rank[d] < rank[Top(Main).driver]
    BY <1>9
  <2>2. CASE i = n + 1
    BY <1>7, <2>1, <2>2
  <2>3. CASE i # n + 1
    <3>1. i \in 1 .. n /\ \A j \in 1 .. i - 1 : j \in 1 .. n
      BY <1>7, <2>1, <2>3
    <3>2. QED
      BY <1>3, <1>7, <2>1, <3>1
  <2>4. QED
    BY <2>2, <2>3
<1>10. QED
  BY <1>1, <1>8, <1>9

\* The main thread never meets a driver that it is constructing already.
LEMMA NoCircle ==
  ASSUME NEW Below, NEW rank, Ranks(Below, rank), TypeOK, StackInv, DriverInv,
         pc[Main] = "alloc", Ordered(Below, rank), Top(Main).next = 0
  PROVE  ~is_starting[Top(Main).driver]
<1> DEFINE n == Len(frames[Main])
           d == Top(Main).driver
<1>1. n \in Nat \ {0} /\ Top(Main) = frames[Main][n] /\ d \in Drivers
  BY OnlyStack DEF Threads, Frame
<1>2. SUFFICES ASSUME is_starting[d] PROVE FALSE
  OBVIOUS
<1>3. PICK i \in 1 .. n : frames[Main][i].driver = d /\ Begun(frames[Main][i])
  BY <1>1, <1>2, WhoStarts DEF DriverInv, DriverState, Threads
<1>4. i # n
  BY <1>1, <1>3 DEF Begun
<1>5. rank[d] < rank[d] /\ d \in Below
  <2> HIDE DEF n
  <2>1. i \in 1 .. n - 1 /\ n \in 1 .. n
    BY <1>1, <1>3, <1>4
  <2>2. QED
    BY <1>1, <1>3, <2>1 DEF Ordered, n
<1>6. QED
  BY <1>5 DEF Ranks

\* alloc_driver returns: the caller gets a null reference only from the branch
\* that reports the circular dependency.
LEMMA ReturnRefs ==
  ASSUME TypeOK, StackInv, DriverInv, NEW t \in Threads, pc[t] = "alloc", Return(t),
         is_started[Top(t).driver] \/ Top(t).left = {}
  PROVE  null_refs' = null_refs
<1>1. driver_tuple[Top(t).driver] # 0
  <2>1. CASE is_started[Top(t).driver]
    BY <2>1, OnlyStack DEF DriverInv, DriverState, Frame
  <2>2. CASE Top(t).left = {}
    <3>1. Publishes(Top(t)) /\ FrameInv(t, Len(frames[t])) /\ Top(t) = frames[t][Len(frames[t])]
      BY <2>2, ReturnsComplete, TopInv DEF Returnable
    <3>2. QED
      BY <3>1 DEF FrameInv
  <2>3. QED
    BY <2>1, <2>2
<1>2. QED
  BY <1>1, ReturnStack DEF LastReturns, NestedReturns

\* The steps inside alloc_driver: the references that become null, and exit_all.
LEMMA AllocateRefs ==
  ASSUME DMInv, NEW t \in Threads, Allocate(t)
  PROVE  /\ pc[t] \in {"lock", "alloc"}
         /\ \A u \in Threads \ {t} : pc'[u] = pc[u]
         /\ pc'[t] # "serving"
         /\ exit_all => exit_all'
         /\ null_refs' # null_refs =>
              /\ pc[t] = "alloc" /\ Top(t).next = 0
              /\ is_starting[Top(t).driver] /\ exit_all'
<1> USE DEF DMInv
<1>1. CASE Lock(t)
  BY <1>1 DEF Lock, Goto, TypeOK
<1>2. CASE AllocDriver(t)
  <2>1. pc[t] = "alloc" /\ Top(t).next = 0
    BY <1>2 DEF AllocDriver
  <2>2. CASE is_started[Top(t).driver] /\ Return(t) /\ UNCHANGED <<exit_all, is_starting>>
    BY <2>1, <2>2, ReturnRefs, ReturnStack DEF LastReturns, NestedReturns, TypeOK
  <2>3. CASE /\ ~is_started[Top(t).driver] /\ is_starting[Top(t).driver]
             /\ exit_all' = TRUE /\ Return(t)
    BY <2>1, <2>3, ReturnStack DEF LastReturns, NestedReturns, TypeOK
  <2>4. CASE UNCHANGED <<exit_all, pc, mutex, null_refs>>
    BY <2>1, <2>4
  <2>5. QED
    BY <1>2, <2>2, <2>3, <2>4 DEF AllocDriver
<1>3. CASE GetDependency(t) \/ Construct(t) \/ StoreDevice(t) \/ StoreFlag(t)
  BY <1>3 DEF GetDependency, Constructs, Construct, StoreDevice, StoreFlag, Stores
<1>4. CASE Allocated(t)
  <2>1. pc[t] = "alloc" /\ Return(t) /\ Top(t).left = {} /\ UNCHANGED exit_all
    BY <1>4 DEF Allocated
  <2>2. QED
    BY <2>1, ReturnRefs, ReturnStack DEF LastReturns, NestedReturns, TypeOK
<1>5. QED
  BY <1>1, <1>2, <1>3, <1>4 DEF Allocate

\* The stack of the main thread inside alloc_driver.
LEMMA AllocateOrdered ==
  ASSUME NEW Below, NEW rank, Ranks(Below, rank), DMInv, Ordered(Below, rank),
         Allocate(Main)
  PROVE  Ordered(Below, rank)'
<1> USE DEF DMInv, Threads
<1>1. CASE Lock(Main)
  <2>1. frames'[Main] = <<Call(Common)>>
    BY <1>1 DEF Lock, CallInv, TypeOK
  <2>2. Len(frames'[Main]) = 1 /\ frames'[Main][1].driver = Common
    BY <2>1 DEF Call
  <2>3. QED
    BY <2>2 DEF Ordered, Ranks
<1>2. ASSUME Return(Main), pc[Main] = "alloc" PROVE Ordered(Below, rank)'
  <2>1. CASE LastReturns(Main)
    <3>1. frames'[Main] = <<>>
      BY <2>1 DEF LastReturns, TypeOK
    <3>2. QED
      BY <3>1, EmptySeq DEF Ordered
  <2>2. CASE NestedReturns(Main)
    BY <1>2, <2>2, OrderedStep DEF NestedReturns
  <2>3. QED
    BY <1>2, <2>1, <2>2, ReturnStack
<1>3. ASSUME pc[Main] = "alloc", NEW g \in Frame, TopBecomes(Main, g),
             g.driver = Top(Main).driver
      PROVE  Ordered(Below, rank)'
  BY <1>3, OrderedStep
<1>4. pc[Main] = "alloc" => Top(Main) \in Frame
  BY OnlyStack
<1>5. CASE AllocDriver(Main)
  <2>1. CASE Return(Main)
    BY <1>2, <1>5, <2>1 DEF AllocDriver
  <2>2. CASE frames' = [frames EXCEPT ![Main][Depth(Main)].next = 1]
    <3> DEFINE g == [driver |-> Top(Main).driver, next |-> 1, left |-> Top(Main).left]
    <3>1. pc[Main] = "alloc"
      BY <1>5 DEF AllocDriver
    <3>2. g \in Frame /\ g.driver = Top(Main).driver
      BY <1>4, <3>1 DEF Frame
    <3>3. TopBecomes(Main, g)
      BY <2>2, <3>1, TopNext
    <3> HIDE DEF g
    <3>4. QED
      BY <1>3, <3>1, <3>2, <3>3
  <2>3. QED
    BY <1>5, <2>1, <2>2 DEF AllocDriver
<1>6. CASE Construct(Main)
  <2> DEFINE g == [driver |-> Top(Main).driver, next |-> Top(Main).next + 1,
                   left |-> Top(Main).left]
  <2>1. pc[Main] = "alloc"
    BY <1>6 DEF Construct
  <2>2. g \in Frame /\ g.driver = Top(Main).driver
    BY <1>4, <2>1 DEF Frame
  <2>3. TopBecomes(Main, g)
    BY <1>6, <2>1, TopAdvances DEF Construct
  <2> HIDE DEF g
  <2>4. QED
    BY <1>3, <2>1, <2>2, <2>3
<1>7. CASE GetDependency(Main)
  <2> DEFINE d == Deps[Top(Main).driver][Top(Main).next]
             g == [driver |-> Top(Main).driver, next |-> Top(Main).next + 1,
                   left |-> Top(Main).left]
  <2>1. pc[Main] = "alloc" /\ Top(Main).next \in 1 .. Len(Deps[Top(Main).driver])
    BY <1>7 DEF GetDependency, Constructs
  <2>2. g \in Frame /\ g.driver = Top(Main).driver
    BY <1>4, <2>1 DEF Frame
  <2>3. TopBecomes(Main, g) \/ Pushes(Main, Call(d))
    BY <1>7, GetDependencyStack
  <2>4. Top(Main).driver \in Below
    BY <2>1, OnlyStack DEF Ordered
  <2>5. d \in Below /\ rank[d] < rank[Top(Main).driver]
    BY <2>1, <2>4 DEF Ranks
  <2> HIDE DEF g, d
  <2>6. QED
    BY <1>3, <2>1, <2>2, <2>3, <2>5, OrderedStep
<1>8. CASE StoreDevice(Main) \/ StoreFlag(Main)
  <2>1. PICK v : Stores(Main, v)
    BY <1>8 DEF StoreDevice, StoreFlag
  <2> DEFINE g == [driver |-> Top(Main).driver, next |-> Top(Main).next,
                   left |-> Top(Main).left \ {v}]
  <2>2. pc[Main] = "alloc"
    BY <2>1 DEF Stores
  <2>3. g \in Frame /\ g.driver = Top(Main).driver
    BY <1>4, <2>2 DEF Frame
  <2>4. TopBecomes(Main, g)
    BY <2>1, <2>2, TopStores DEF Stores
  <2> HIDE DEF g
  <2>5. QED
    BY <1>3, <2>2, <2>3, <2>4
<1>9. CASE Allocated(Main)
  BY <1>2, <1>9 DEF Allocated
<1>10. QED
  BY <1>1, <1>5, <1>6, <1>7, <1>8, <1>9 DEF Allocate

\* A step outside alloc_driver makes no reference null and leaves exit_all set
\* once the server serves.
LEMMA OutsideRefs ==
  ASSUME TypeOK, NEW t \in Threads, Outside(t)
  PROVE  /\ UNCHANGED <<frames, null_refs>>
         /\ \A u \in Threads \ {t} : pc'[u] = pc[u]
         /\ pc[Main] = "serving" => pc'[Main] = "serving" /\ exit_all' = exit_all
         /\ pc[Main] # "serving" /\ pc[t] = "idle" => FALSE
<1> USE DriverAssumption DEF Goto, Threads
<1>1. UNCHANGED <<frames, null_refs>> /\ \A u \in Threads \ {t} : pc'[u] = pc[u]
  BY OutsideType DEF alloc
<1>2. /\ pc[Main] = "serving" => pc'[Main] = "serving" /\ exit_all' = exit_all
      /\ ~(pc[Main] # "serving" /\ pc[t] = "idle")
  BY DEF Outside, Dispatch, RunDevice, LockDriver, ReceiveArgs, ArgsFail, Operation,
         Command, NoSuchDriver, InitCommon, StoreFlags, ServerExit, TypeOK
<1>3. QED
  BY <1>1, <1>2

\* Every step keeps the invariant.
LEMMA StartupStep ==
  ASSUME NEW Below, NEW rank, Ranks(Below, rank), DMInv, StartupInv(Below, rank),
         [Next]_vars
  PROVE  StartupInv(Below, rank)'
<1> USE DriverAssumption DEF Threads
<1>1. CASE UNCHANGED vars
  BY <1>1 DEF vars, StartupInv, Ordered
<1>2. ASSUME NEW t \in Threads, Allocate(t) PROVE StartupInv(Below, rank)'
  <2>1. CASE pc[Main] = "serving"
    BY <1>2, <2>1, AllocateRefs DEF StartupInv
  <2>2. CASE pc[Main] # "serving"
    <3>1. t = Main
      BY <1>2, <2>2, AllocateRefs DEF StartupInv
    <3>2. null_refs' = null_refs
      BY <1>2, <2>2, <3>1, AllocateRefs, NoCircle DEF StartupInv, DMInv
    <3>3. Ordered(Below, rank)'
      BY <1>2, <2>2, <3>1, AllocateOrdered DEF StartupInv
    <3>4. QED
      BY <1>2, <2>2, <3>1, <3>2, <3>3, AllocateRefs DEF StartupInv
  <2>3. QED
    BY <2>1, <2>2
<1>3. ASSUME NEW t \in Threads, Outside(t) PROVE StartupInv(Below, rank)'
  <2>1. CASE pc[Main] = "serving"
    BY <1>3, <2>1, OutsideRefs DEF StartupInv, DMInv
  <2>2. CASE pc[Main] # "serving"
    <3>1. t = Main
      BY <1>3, <2>2, OutsideRefs DEF StartupInv, DMInv
    <3>2. QED
      BY <1>3, <2>2, <3>1, OutsideRefs DEF StartupInv, Ordered, DMInv
  <2>3. QED
    BY <2>1, <2>2
<1>4. QED
  BY <1>1, <1>2, <1>3, NextSteps

\* If no circular dependency is reachable from Common, which the constructor of
\* the server starts, a constructor that gets a null reference has told the
\* server that serves to exit.
LEMMA FailureExitsRanked ==
  ASSUME NEW CONSTANT Below, NEW CONSTANT rank, Ranks(Below, rank)
  PROVE  Spec => []AllocationFailureExits
<1>1. Init => StartupInv(Below, rank)
  BY EmptySeq, DriverAssumption DEF Init, StartupInv, Ordered, Threads
<1>2. DMInv /\ StartupInv(Below, rank) /\ [Next]_vars => StartupInv(Below, rank)'
  BY StartupStep
<1>3. StartupInv(Below, rank) => AllocationFailureExits
  BY DEF StartupInv, AllocationFailureExits
<1>4. QED
  BY <1>1, <1>2, <1>3, DMInvariant, PTL DEF Spec

\* The same of every instrument whose Common driver has no circular dependency;
\* with one, the constructor of the server would reset the exit_all it set.
THEOREM FailureExits ==
  ASSUME CommonIsAcyclic
  PROVE  Spec => []AllocationFailureExits
<1>1. PICK Below \in SUBSET Drivers : \E rank \in [Below -> Nat] : Ranks(Below, rank)
  BY DEF CommonIsAcyclic
<1>2. PICK rank \in [Below -> Nat] : Ranks(Below, rank)
  BY <1>1
<1>3. QED
  BY <1>2, FailureExitsRanked
=============================================================================
