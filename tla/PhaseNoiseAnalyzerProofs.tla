---------------------- MODULE PhaseNoiseAnalyzerProofs ----------------------
(***************************************************************************)
(* Proofs about PhaseNoiseAnalyzer for any number of sleeps, averages,     *)
(* channels and rates: a measurement whose wait did not give up reads      *)
(* samples taken for it with the present parameters, although parameters   *)
(* change while a transfer goes on and every wait may time out, unless     *)
(* another session wrote to the registers of the DMA meanwhile.            *)
(***************************************************************************)
EXTENDS PhaseNoiseAnalyzer, TLAPS

Operations == {"start", "get_data", "get_phase_noise"}
Samples == (Channels \X Rates) \cup {Mixed}

\* Between the reset and the length no transfer is under way or completed: a
\* transfer that was under way before is lost with the reset.
ResetStopsTransfer ==
  at[Analyzer] \in {"resetting", "start", "write", "starting", "address", "length"} =>
    engine \notin {"moving", "idle"}

\* The length starts a transfer to the RAM.
LengthIsForRam == at[Analyzer] = "length" => address = TRUE

\* A transfer that completed is in the RAM as a whole.
IdleIsWhole ==
  /\ engine \in {"moving", "idle"} => transfer \in Samples
  /\ engine = "idle" => ram = transfer

\* The operation waits for a transfer of its own, which the engine cannot lose:
\* get_data always, get_phase_noise from its second round on.
OwnTransfer ==
  \/ at[Analyzer] = "started"
  \/ /\ at[Analyzer] \in {"waiting", "waited", "exceeded"}
     /\ operation = "get_data" \/ round > 0

\* Such a transfer has the present parameters and, completed, was not read.
OwnIsCurrent ==
  OwnTransfer =>
    /\ engine \in {"moving", "idle"} => transfer = Parameters
    /\ engine = "idle" => unread

\* A wait that did not give up saw a completed transfer, which stays.
WaitedIsIdle == at[Analyzer] = "waited" => engine = "idle"

\* What holds as long as no other session writes to the registers.
Undisturbed ==
  intruded = FALSE =>
    /\ ResetStopsTransfer /\ LengthIsForRam /\ IdleIsWhole /\ OwnIsCurrent /\ WaitedIsIdle

\* Only operations that measure wait, and get_phase_noise has rounds left.
OperationAtPoint ==
  /\ at[Analyzer] \in {"waiting", "waited", "exceeded"} =>
       operation \in {"get_data", "get_phase_noise"}
  /\ operation = "get_phase_noise" => round < fft_navg

\* The inductive invariant.
PhaseNoiseInv == TypeOK /\ Undisturbed /\ OperationAtPoint

-----------------------------------------------------------------------------
(* The inductive invariant, one lemma per group of operations.             *)

\* What the proofs use of the constants.
LEMMA Bounds ==
  /\ 0 \in 0 .. max_sleeps_cnt
  /\ 0 \in 0 .. MaxAvg /\ 1 \in 0 .. MaxAvg
  /\ None \notin Operations
  /\ Users = {Analyzer, Session} /\ Analyzer # Session
<1>1. max_sleeps_cnt \in Nat /\ MaxAvg \in Nat \ {0}
  BY DmaAssumption, AnalyzerAssumption
<1>2. None \notin Operations
  BY AnalyzerAssumption DEF Operations
<1>3. Users = {Analyzer, Session} /\ Analyzer # Session
  BY AnalyzerAssumption
<1> QED
  BY <1>1, <1>2, <1>3

\* The constructor leaves the engine halted and nothing to read.
LEMMA AnalyzerInit == Init => PhaseNoiseInv
<1> SUFFICES ASSUME Init PROVE PhaseNoiseInv
  OBVIOUS
<1> USE DEF Init, DmaInit
<1>0. at[Analyzer] = "idle"
  BY Bounds
<1>1. TypeOK
  BY <1>0, Bounds DEF TypeOK, DmaTypeOK
<1>2. ResetStopsTransfer /\ LengthIsForRam /\ IdleIsWhole /\ OwnIsCurrent /\ WaitedIsIdle
  BY <1>0 DEF ResetStopsTransfer, LengthIsForRam, IdleIsWhole, OwnIsCurrent, OwnTransfer,
              WaitedIsIdle
<1>3. OperationAtPoint
  BY <1>0, Bounds DEF OperationAtPoint, Operations
<1> QED
  BY <1>1, <1>2, <1>3 DEF PhaseNoiseInv, Undisturbed

\* A parameter changes when no operation waits: a transfer that goes on is nobody's.
LEMMA ParameterKeeps ==
  ASSUME PhaseNoiseInv, Free, Disturb, channel' \in Channels, cic_rate' \in Rates,
         UNCHANGED <<locals, engine, address, ram, fft_navg, operation, round, history>>
  PROVE  PhaseNoiseInv'
<1> USE DEF PhaseNoiseInv, Free, Disturb, locals, history
<1>1. TypeOK'
  BY DEF TypeOK, DmaTypeOK
<1>2. at[Analyzer] = "idle" /\ at'[Analyzer] = "idle"
  BY DEF TypeOK
<1>3. Undisturbed'
  BY <1>2 DEF Undisturbed, ResetStopsTransfer, LengthIsForRam, IdleIsWhole, OwnIsCurrent,
              OwnTransfer, WaitedIsIdle, Samples
<1>4. OperationAtPoint'
  BY DEF OperationAtPoint
<1> QED
  BY <1>1, <1>3, <1>4

\* set_channel, set_cic_rate and set_fft_navg.
LEMMA SetterKeeps ==
  ASSUME PhaseNoiseInv,
         \/ \E c \in Channels : set_channel(c)
         \/ \E r \in Rates : set_cic_rate(r)
         \/ \E n \in 0 .. MaxAvg : set_fft_navg(n)
  PROVE  PhaseNoiseInv'
<1>0. channel \in Channels /\ cic_rate \in Rates
  BY DEF PhaseNoiseInv, TypeOK
<1>1. ASSUME NEW c \in Channels, set_channel(c) PROVE PhaseNoiseInv'
  BY <1>0, <1>1, ParameterKeeps DEF set_channel
<1>2. ASSUME NEW r \in Rates, set_cic_rate(r) PROVE PhaseNoiseInv'
  BY <1>0, <1>2, ParameterKeeps DEF set_cic_rate
<1>3. ASSUME NEW n \in 0 .. MaxAvg, set_fft_navg(n) PROVE PhaseNoiseInv'
  <2> USE <1>3, AnalyzerAssumption
      DEF set_fft_navg, PhaseNoiseInv, Free, dmaVars, locals, hardware, history
  <2>1. TypeOK'
    BY DEF TypeOK, DmaTypeOK
  <2>2. Undisturbed'
    BY DEF Undisturbed, ResetStopsTransfer, LengthIsForRam, IdleIsWhole, OwnIsCurrent,
           OwnTransfer, WaitedIsIdle, Parameters
  <2>3. OperationAtPoint'
    BY DEF OperationAtPoint
  <2> QED
    BY <2>1, <2>2, <2>3
<1> QED
  BY <1>1, <1>2, <1>3

\* What the steps of the analyzer between its transfers leave as it was.
Kept == <<sleeps, read, hardware, channel, cic_rate, fft_navg, intruded>>

\* An operation begins with its start_transfer, or get_phase_noise with the
\* wait for a transfer that is not its own.
LEMMA MeasureKeeps ==
  ASSUME PhaseNoiseInv, NEW op \in Operations, Measure(op)
  PROVE  PhaseNoiseInv'
<1> USE Bounds DEF PhaseNoiseInv, Measure, Free, members, history, Operations
<1>1. UNCHANGED Kept /\ operation' = op /\ round' = 0 /\ unread' = unread
  BY DEF BeginWait, Kept
<1>2. PICK point \in {"start_transfer", "waiting"} :
        /\ at' = [at EXCEPT ![Analyzer] = point]
        /\ (point = "waiting") = (op = "get_phase_noise")
  BY DEF BeginWait, GoTo
<1>3. at'[Analyzer] = point
  BY <1>2 DEF TypeOK, DmaTypeOK
<1>4. TypeOK'
  BY <1>1, <1>2, <1>3 DEF TypeOK, DmaTypeOK, Kept, hardware
<1>5. Undisturbed'
  BY <1>1, <1>2, <1>3 DEF Undisturbed, ResetStopsTransfer, LengthIsForRam, IdleIsWhole,
     OwnIsCurrent, OwnTransfer, WaitedIsIdle, Kept, hardware
<1>6. OperationAtPoint'
  BY <1>1, <1>2, <1>3 DEF TypeOK, OperationAtPoint, Kept
<1> QED
  BY <1>4, <1>5, <1>6

\* After start_transfer the operation ends or waits for the transfer it started.
LEMMA StartedKeeps == PhaseNoiseInv /\ Started => PhaseNoiseInv'
<1> SUFFICES ASSUME PhaseNoiseInv, Started PROVE PhaseNoiseInv'
  OBVIOUS
<1> USE Bounds DEF PhaseNoiseInv, Started, Return, BeginWait, members, history, Operations
<1>0. round' \in 0 .. MaxAvg
  BY AnalyzerAssumption DEF TypeOK, OperationAtPoint
<1>1. UNCHANGED Kept /\ unread' = unread
  BY DEF Kept
<1>2. PICK point \in {"idle", "waiting"} :
        /\ at' = [at EXCEPT ![Analyzer] = point]
        /\ point = "idle" => operation' = None
        /\ point = "waiting" => /\ operation' = operation
                                /\ operation \in {"get_data", "get_phase_noise"}
                                /\ operation = "get_phase_noise" => round' < fft_navg
  BY DEF GoTo
<1>3. at'[Analyzer] = point /\ at[Analyzer] = "started"
  BY <1>2 DEF TypeOK, DmaTypeOK
<1>4. TypeOK'
  BY <1>0, <1>1, <1>2, <1>3 DEF TypeOK, DmaTypeOK, Kept, hardware
<1>5. Undisturbed'
  <2> HIDE DEF Started
  <2>1. Parameters' = Parameters
    BY <1>1 DEF Parameters, Kept
  <2> QED
    BY <1>1, <1>2, <1>3, <2>1 DEF Undisturbed, ResetStopsTransfer, LengthIsForRam, IdleIsWhole,
       OwnIsCurrent, OwnTransfer, WaitedIsIdle, Kept, hardware
<1>6. OperationAtPoint'
  BY <1>1, <1>2, <1>3 DEF OperationAtPoint, Kept
<1> QED
  BY <1>4, <1>5, <1>6

\* The RAM is read before the next start_transfer, or the operation ends.
LEMMA ReadRamKeeps == PhaseNoiseInv /\ ReadRam => PhaseNoiseInv'
<1> SUFFICES ASSUME PhaseNoiseInv, ReadRam PROVE PhaseNoiseInv'
  OBVIOUS
<1> USE Bounds DEF PhaseNoiseInv, ReadRam, Return, members, Operations
<1>1. UNCHANGED Kept /\ unread' = FALSE /\ round' = round
  BY DEF Kept
<1>2. PICK point \in {"idle", "start_transfer"} :
        /\ at' = [at EXCEPT ![Analyzer] = point]
        /\ point = "idle" => operation' = None
        /\ point = "start_transfer" => operation' = operation /\ operation = "get_phase_noise"
  BY DEF GoTo
<1>3. at'[Analyzer] = point
  BY <1>2 DEF TypeOK, DmaTypeOK
<1>4. TypeOK'
  BY <1>1, <1>2, <1>3 DEF TypeOK, DmaTypeOK, Kept, hardware
<1>5. Undisturbed'
  <2> HIDE DEF ReadRam
  <2> QED
    BY <1>1, <1>2, <1>3 DEF Undisturbed, ResetStopsTransfer, LengthIsForRam, IdleIsWhole,
       OwnIsCurrent, OwnTransfer, WaitedIsIdle, Kept, hardware
<1>6. OperationAtPoint'
  BY <1>1, <1>2, <1>3 DEF OperationAtPoint, Kept
<1> QED
  BY <1>4, <1>5, <1>6

\* A sleep counts up, or ends and forgets its count.
LEMMA SleepTypes ==
  ASSUME TypeOK, NEW u \in Users,
         \/ sleeps[u] < max_sleeps_cnt /\ sleeps' = [sleeps EXCEPT ![u] = @ + 1]
         \/ sleeps' = [sleeps EXCEPT ![u] = 0]
  PROVE  sleeps' \in [Users -> 0 .. max_sleeps_cnt]
  BY DmaAssumption DEF TypeOK, DmaTypeOK

\* The types of the locals after a step that takes a user to a point.
LEMMA GoToTypes ==
  ASSUME TypeOK, NEW u \in Users, NEW point, GoTo(u, point),
         point \in {"start_transfer", "resetting", "start", "write", "starting", "address",
                    "length", "started", "waiting", "waited", "exceeded"}
  PROVE  /\ at' \in [Users -> {"idle", "start_transfer", "resetting", "start", "write",
                     "starting", "address", "length", "started", "waiting", "waited", "exceeded"}]
         /\ at'[u] = point
         /\ \A v \in Users \ {u} : at'[v] = at[v]
  BY DEF GoTo, TypeOK, DmaTypeOK

\* The driver resets the engine before it starts it, and a wait only ends when
\* the engine is idle or the sleeps are used up.
LEMMA DriverKeeps == PhaseNoiseInv /\ DriverStep => PhaseNoiseInv'
<1> SUFFICES ASSUME PhaseNoiseInv, DriverStep PROVE PhaseNoiseInv'
  OBVIOUS
<1> USE DEF PhaseNoiseInv
<1> DEFINE Parts == ResetStopsTransfer /\ LengthIsForRam /\ IdleIsWhole /\ OwnIsCurrent
                    /\ WaitedIsIdle
<1>a. /\ UNCHANGED <<members, operation, round, unread>>
      /\ Parameters' = Parameters /\ Parameters \in Channels \X Rates
      /\ Analyzer \in Users
  BY Bounds DEF DriverStep, Parameters, members, TypeOK
<1>b. OperationAtPoint /\ (at[Analyzer] # "idle" => operation # None)
  BY DEF TypeOK
<1>1. CASE Reset(Analyzer) /\ intruded' = FALSE
  <2>1. at[Analyzer] = "start_transfer" /\ at'[Analyzer] = "resetting" /\ engine' = "resetting"
    BY <1>1, <1>a, GoToTypes DEF Reset
  <2>2. TypeOK'
    BY <1>1, <1>a, <2>1, GoToTypes DEF Reset, TypeOK, DmaTypeOK, members
  <2>3. Parts'
    BY <1>a, <2>1 DEF ResetStopsTransfer, LengthIsForRam, IdleIsWhole, OwnIsCurrent,
                      OwnTransfer, WaitedIsIdle
  <2>4. OperationAtPoint'
    BY <1>a, <2>1 DEF OperationAtPoint, members
  <2> QED
    BY <2>2, <2>3, <2>4 DEF Undisturbed
<1>2. CASE AwaitReset(Analyzer) /\ UNCHANGED intruded
  <2>1. /\ sleeps' \in [Users -> 0 .. max_sleeps_cnt] /\ UNCHANGED <<read, hardware>>
        /\ at[Analyzer] = "resetting"
        /\ at' = at \/ GoTo(Analyzer, "start")
    BY <1>2, <1>a, SleepTypes DEF AwaitReset, Sleep, GoTo
  <2>2. at'[Analyzer] \in {"resetting", "start"}
    BY <1>a, <2>1, GoToTypes
  <2>3. TypeOK'
    BY <1>2, <1>a, <2>1, <2>2, GoToTypes DEF TypeOK, DmaTypeOK, members, hardware
  <2>4. Undisturbed'
    BY <1>2, <1>a, <2>1, <2>2 DEF Undisturbed, ResetStopsTransfer, LengthIsForRam, IdleIsWhole,
       OwnIsCurrent, OwnTransfer, WaitedIsIdle, hardware
  <2>5. OperationAtPoint'
    BY <1>a, <2>2 DEF OperationAtPoint, members
  <2> QED
    BY <2>3, <2>4, <2>5
<1>3. CASE ReadControl(Analyzer) /\ UNCHANGED intruded
  <2>1. at[Analyzer] = "start" /\ at'[Analyzer] = "write" /\ UNCHANGED <<sleeps, hardware>>
    BY <1>3, <1>a, GoToTypes DEF ReadControl
  <2>2. read' \in [Users -> BOOLEAN]
    <3>1. (engine = "resetting") \in BOOLEAN
      OBVIOUS
    <3> QED
      BY <1>3, <3>1 DEF ReadControl, TypeOK, DmaTypeOK
  <2>3. TypeOK'
    BY <1>3, <1>a, <2>1, <2>2, GoToTypes DEF ReadControl, TypeOK, DmaTypeOK, members, hardware
  <2>4. Undisturbed'
    BY <1>3, <1>a, <2>1 DEF Undisturbed, ResetStopsTransfer, LengthIsForRam, IdleIsWhole,
       OwnIsCurrent, OwnTransfer, WaitedIsIdle, hardware
  <2>5. OperationAtPoint'
    BY <1>a, <2>1 DEF OperationAtPoint, members
  <2> QED
    BY <2>3, <2>4, <2>5
<1>4. CASE Start(Analyzer) /\ UNCHANGED intruded
  <2>1. /\ at[Analyzer] = "write" /\ at'[Analyzer] = "starting"
        /\ UNCHANGED <<sleeps, address, transfer, ram>>
        /\ engine' \in {"resetting", "starting", engine}
    BY <1>4, <1>a, GoToTypes DEF Start
  <2>2. read' \in [Users -> BOOLEAN]
    BY <1>4 DEF Start, TypeOK, DmaTypeOK
  <2>3. TypeOK'
    BY <1>4, <1>a, <2>1, <2>2, GoToTypes DEF Start, TypeOK, DmaTypeOK, members
  <2>4. Undisturbed'
    BY <1>4, <1>a, <2>1 DEF Undisturbed, ResetStopsTransfer, LengthIsForRam, IdleIsWhole,
       OwnIsCurrent, OwnTransfer, WaitedIsIdle
  <2>5. OperationAtPoint'
    BY <1>a, <2>1 DEF OperationAtPoint, members
  <2> QED
    BY <2>3, <2>4, <2>5
<1>5. CASE AwaitStart(Analyzer) /\ UNCHANGED intruded
  <2>1. /\ sleeps' \in [Users -> 0 .. max_sleeps_cnt] /\ UNCHANGED <<read, hardware>>
        /\ at[Analyzer] = "starting"
        /\ at' = at \/ GoTo(Analyzer, "address")
    BY <1>5, <1>a, SleepTypes DEF AwaitStart, Sleep, GoTo
  <2>2. at'[Analyzer] \in {"starting", "address"}
    BY <1>a, <2>1, GoToTypes
  <2>3. TypeOK'
    BY <1>5, <1>a, <2>1, <2>2, GoToTypes DEF TypeOK, DmaTypeOK, members, hardware
  <2>4. Undisturbed'
    BY <1>5, <1>a, <2>1, <2>2 DEF Undisturbed, ResetStopsTransfer, LengthIsForRam, IdleIsWhole,
       OwnIsCurrent, OwnTransfer, WaitedIsIdle, hardware
  <2>5. OperationAtPoint'
    BY <1>a, <2>2 DEF OperationAtPoint, members
  <2> QED
    BY <2>3, <2>4, <2>5
<1>6. CASE SetAddress(Analyzer, TRUE) /\ UNCHANGED intruded
  <2>1. /\ at[Analyzer] = "address" /\ at'[Analyzer] = "length" /\ address' = TRUE
        /\ UNCHANGED <<sleeps, read, engine, transfer, ram>>
    BY <1>6, <1>a, GoToTypes DEF SetAddress
  <2>2. TypeOK'
    BY <1>6, <1>a, <2>1, GoToTypes DEF SetAddress, TypeOK, DmaTypeOK, members
  <2>3. Undisturbed'
    BY <1>6, <1>a, <2>1 DEF Undisturbed, ResetStopsTransfer, LengthIsForRam, IdleIsWhole,
       OwnIsCurrent, OwnTransfer, WaitedIsIdle
  <2>4. OperationAtPoint'
    BY <1>a, <2>1 DEF OperationAtPoint, members
  <2> QED
    BY <2>2, <2>3, <2>4
<1>7. CASE SetLength(Analyzer, Parameters) /\ UNCHANGED intruded
  <2>1. /\ at[Analyzer] = "length" /\ at'[Analyzer] = "started"
        /\ UNCHANGED <<sleeps, read, address>>
        /\ \/ UNCHANGED <<engine, transfer, ram>>
           \/ /\ engine' = "moving"
              /\ \/ address /\ transfer' = Parameters /\ ram' = Partial
                 \/ ~address /\ transfer' = Elsewhere /\ ram' = ram
    BY <1>7, <1>a, GoToTypes DEF SetLength
  <2>2. TypeOK'
    BY <1>7, <1>a, <2>1, GoToTypes DEF SetLength, TypeOK, DmaTypeOK, members
  <2>3. Undisturbed'
    <3>1. SUFFICES ASSUME intruded = FALSE PROVE Parts'
      BY <1>7 DEF Undisturbed
    <3>2. engine \notin {"moving", "idle"} /\ address = TRUE
      BY <2>1, <3>1 DEF Undisturbed, ResetStopsTransfer, LengthIsForRam
    <3>3. \/ engine' \notin {"moving", "idle"}
          \/ engine' = "moving" /\ transfer' = Parameters
      BY <2>1, <3>2
    <3> QED
      BY <1>a, <2>1, <3>3 DEF ResetStopsTransfer, LengthIsForRam, IdleIsWhole,
         OwnIsCurrent, OwnTransfer, WaitedIsIdle, Samples
  <2>4. OperationAtPoint'
    BY <1>a, <2>1 DEF OperationAtPoint, members
  <2> QED
    BY <2>2, <2>3, <2>4
<1>8. CASE AwaitTransfer(Analyzer) /\ UNCHANGED intruded
  <2>1. /\ sleeps' \in [Users -> 0 .. max_sleeps_cnt] /\ UNCHANGED <<read, hardware>>
        /\ at[Analyzer] = "waiting"
        /\ \/ at' = at
           \/ GoTo(Analyzer, "waited") /\ engine = "idle"
           \/ GoTo(Analyzer, "exceeded")
    BY <1>8, <1>a, SleepTypes DEF AwaitTransfer, Sleep, GoTo
  <2>2. \/ at'[Analyzer] \in {"waiting", "exceeded"}
        \/ at'[Analyzer] = "waited" /\ engine = "idle"
    BY <1>a, <2>1, GoToTypes
  <2>3. TypeOK'
    BY <1>8, <1>a, <2>1, <2>2, GoToTypes DEF TypeOK, DmaTypeOK, members, hardware
  <2>4. Undisturbed'
    BY <1>8, <1>a, <2>1, <2>2 DEF Undisturbed, ResetStopsTransfer, LengthIsForRam, IdleIsWhole,
       OwnIsCurrent, OwnTransfer, WaitedIsIdle, hardware
  <2>5. OperationAtPoint'
    BY <1>a, <2>1, <2>2 DEF OperationAtPoint, members
  <2> QED
    BY <2>3, <2>4, <2>5
<1> QED
  BY <1>1, <1>2, <1>3, <1>4, <1>5, <1>6, <1>7, <1>8 DEF DriverStep

\* The engine completes the transfer under way and no other.
LEMMA EngineKeeps == PhaseNoiseInv /\ EngineStep => PhaseNoiseInv'
<1> SUFFICES ASSUME PhaseNoiseInv, EngineStep PROVE PhaseNoiseInv'
  OBVIOUS
<1> USE DEF PhaseNoiseInv, EngineStep, Engine, members, locals
<1>1. TypeOK'
  <2>1. unread' \in BOOLEAN
    BY DEF TypeOK
  <2>2. engine' \in {"halted", "running", "idle"} /\ UNCHANGED <<locals, address, transfer>>
    OBVIOUS
  <2>3. ram' \in (Channels \X Rates) \cup {Mixed, Partial, None}
    BY DEF TypeOK
  <2> QED
    BY <2>1, <2>2, <2>3 DEF TypeOK, DmaTypeOK
<1>2. Undisturbed'
  <2>1. SUFFICES ASSUME intruded = FALSE
                 PROVE  (ResetStopsTransfer /\ LengthIsForRam /\ IdleIsWhole /\ OwnIsCurrent
                         /\ WaitedIsIdle)'
    BY DEF Undisturbed
  <2>2. ResetStopsTransfer /\ LengthIsForRam /\ IdleIsWhole /\ OwnIsCurrent /\ WaitedIsIdle
    BY <2>1 DEF Undisturbed
  <2>3. engine = "moving" => transfer # Elsewhere
    BY <2>2, AnalyzerAssumption DEF IdleIsWhole, Samples
  <2>4. (ResetStopsTransfer /\ LengthIsForRam /\ IdleIsWhole /\ WaitedIsIdle)'
    BY <2>2, <2>3 DEF ResetStopsTransfer, LengthIsForRam, IdleIsWhole, WaitedIsIdle
  <2>5. OwnIsCurrent'
    BY <2>2 DEF OwnIsCurrent, OwnTransfer, Parameters
  <2> QED
    BY <2>4, <2>5
<1>3. OperationAtPoint'
  BY DEF OperationAtPoint
<1> QED
  BY <1>1, <1>2, <1>3

\* Another session that only reads and sleeps changes nothing of the analyzer.
LEMMA SessionCallKeeps == PhaseNoiseInv /\ (SessionCall \/ SessionWaits) => PhaseNoiseInv'
<1> SUFFICES ASSUME PhaseNoiseInv, SessionCall \/ SessionWaits PROVE PhaseNoiseInv'
  OBVIOUS
<1> USE DEF PhaseNoiseInv
<1>1. /\ UNCHANGED <<hardware, members, operation, round, history>>
      /\ \/ at' = at
         \/ \E point \in {"start_transfer", "idle", "start", "write", "address"} :
              GoTo(Session, point)
  BY DEF SessionCall, SessionWaits, AwaitReset, ReadControl, AwaitStart, Sleep
<1>2. at'[Analyzer] = at[Analyzer]
      /\ at' \in [Users -> {"idle", "start_transfer", "resetting", "start", "write", "starting",
                   "address", "length", "started", "waiting", "waited", "exceeded"}]
  BY <1>1, Bounds DEF GoTo, TypeOK, DmaTypeOK
<1>3. sleeps' \in [Users -> 0 .. max_sleeps_cnt]
  <2>1. UNCHANGED sleeps => sleeps' \in [Users -> 0 .. max_sleeps_cnt]
    BY DEF TypeOK, DmaTypeOK
  <2> QED
    BY <2>1, SleepTypes, Bounds
    DEF SessionCall, SessionWaits, AwaitReset, ReadControl, AwaitStart, Sleep
<1>4. read' \in [Users -> BOOLEAN]
  <2>1. (engine = "resetting") \in BOOLEAN /\ read \in [Users -> BOOLEAN]
    BY DEF TypeOK, DmaTypeOK
  <2> QED
    BY <2>1 DEF SessionCall, SessionWaits, AwaitReset, ReadControl, AwaitStart
<1>5. TypeOK'
  BY <1>1, <1>2, <1>3, <1>4 DEF TypeOK, DmaTypeOK, hardware, members, history
<1>6. Undisturbed'
  BY <1>1, <1>2 DEF Undisturbed, ResetStopsTransfer, LengthIsForRam, IdleIsWhole, OwnIsCurrent,
     OwnTransfer, WaitedIsIdle, Parameters, hardware, members, history
<1>7. OperationAtPoint'
  BY <1>1, <1>2 DEF OperationAtPoint, members
<1> QED
  BY <1>5, <1>6, <1>7

\* Another session that writes makes no promise but the types.
LEMMA SessionWritesKeeps == PhaseNoiseInv /\ SessionWrites => PhaseNoiseInv'
<1> SUFFICES ASSUME PhaseNoiseInv, SessionWrites PROVE PhaseNoiseInv'
  OBVIOUS
<1> USE DEF PhaseNoiseInv
<1>1. /\ UNCHANGED <<sleeps, members, operation, round, unread>> /\ intruded' = TRUE
      /\ \E point \in {"resetting", "starting", "length", "started"} : GoTo(Session, point)
  BY DEF SessionWrites, Reset, Start, SetAddress, SetLength
<1>2. at'[Analyzer] = at[Analyzer]
      /\ at' \in [Users -> {"idle", "start_transfer", "resetting", "start", "write", "starting",
                   "address", "length", "started", "waiting", "waited", "exceeded"}]
  BY <1>1, Bounds DEF GoTo, TypeOK, DmaTypeOK
<1>3. read' \in [Users -> BOOLEAN] /\ address' \in BOOLEAN
  BY DEF SessionWrites, Reset, Start, SetAddress, SetLength, TypeOK, DmaTypeOK
<1>4. Parameters \in Channels \X Rates
  BY DEF Parameters, TypeOK
<1>5. /\ engine' \in {"halted", "resetting", "starting", "running", "moving", "idle"}
      /\ transfer' \in (Channels \X Rates) \cup {Mixed, Elsewhere, None}
      /\ ram' \in (Channels \X Rates) \cup {Mixed, Partial, None}
  <2>1. CASE Reset(Session)
    BY <2>1 DEF Reset, TypeOK, DmaTypeOK
  <2>2. CASE Start(Session)
    BY <2>2 DEF Start, TypeOK, DmaTypeOK
  <2>3. CASE \E to_ram \in BOOLEAN : SetAddress(Session, to_ram)
    BY <2>3 DEF SetAddress, TypeOK, DmaTypeOK
  <2>4. ASSUME NEW samples \in {Parameters, Mixed}, SetLength(Session, samples)
        PROVE  /\ engine' \in {"moving", engine}
               /\ transfer' \in {samples, Elsewhere, transfer} /\ ram' \in {Partial, ram}
    BY <2>4 DEF SetLength
  <2>5. CASE \E samples \in {Parameters, Mixed} : SetLength(Session, samples)
    BY <2>4, <2>5, <1>4 DEF TypeOK, DmaTypeOK
  <2> QED
    BY <2>1, <2>2, <2>3, <2>5 DEF SessionWrites
<1>6. TypeOK'
  BY <1>1, <1>2, <1>3, <1>5 DEF TypeOK, DmaTypeOK, members
<1>7. Undisturbed' /\ OperationAtPoint'
  BY <1>1, <1>2 DEF Undisturbed, OperationAtPoint, members
<1> QED
  BY <1>6, <1>7

\* Every step keeps the inductive invariant.
LEMMA AnalyzerStep == PhaseNoiseInv /\ [Next]_vars => PhaseNoiseInv'
<1> SUFFICES ASSUME PhaseNoiseInv, [Next]_vars PROVE PhaseNoiseInv'
  OBVIOUS
<1>1. CASE UNCHANGED vars
  <2> USE <1>1 DEF vars, dmaVars, locals, hardware, members, history, PhaseNoiseInv
  <2>1. TypeOK'
    BY DEF TypeOK, DmaTypeOK
  <2>2. Undisturbed'
    BY DEF Undisturbed, ResetStopsTransfer, LengthIsForRam, IdleIsWhole, OwnIsCurrent,
           OwnTransfer, WaitedIsIdle, Parameters
  <2>3. OperationAtPoint'
    BY DEF OperationAtPoint
  <2> QED
    BY <2>1, <2>2, <2>3
<1>2. CASE Next
  BY <1>2, SetterKeeps, MeasureKeeps, StartedKeeps, ReadRamKeeps, DriverKeeps, EngineKeeps,
     SessionCallKeeps, SessionWritesKeeps
  DEF Next, Operations
<1> QED
  BY <1>1, <1>2

-----------------------------------------------------------------------------
(* Results.                                                                *)

\* The inductive invariant says of a wait that did not give up that the RAM
\* holds what the engine completed, which is the operation's own.
LEMMA AnalyzerInvImplies == PhaseNoiseInv => MeasurementIsCurrent
  BY DEF PhaseNoiseInv, MeasurementIsCurrent, Undisturbed, IdleIsWhole, OwnIsCurrent, OwnTransfer,
         WaitedIsIdle, OperationAtPoint, Samples, TypeOK

\* Whatever the engine does, whenever parameters are set and whatever other sessions
\* ask of the DMA driver, get_data and every round of get_phase_noise but the first
\* read a whole transfer, taken for them with the present parameters, that nobody
\* read, unless the wait gave up or another session wrote to the registers of the
\* DMA since this transfer began.
THEOREM MeasurementsAreCurrent == Spec => []MeasurementIsCurrent
<1>1. Spec => []PhaseNoiseInv
  BY AnalyzerInit, AnalyzerStep, PTL DEF Spec
<1> QED
  BY <1>1, AnalyzerInvImplies, PTL

=============================================================================
