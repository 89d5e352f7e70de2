------------------------- MODULE PhaseNoiseAnalyzer -------------------------
(***************************************************************************)
(* The measurements of the phase noise analyzer (examples/alpha250/        *)
(* phase-noise-analyzer/phase-noise-analyzer.hpp): get_data starts a       *)
(* transfer and waits for it, get_phase_noise averages transfers and has   *)
(* always started the next one before it computes.  Its operations exclude *)
(* each other by the mutex of its driver; a transfer goes on after them.   *)
(* The DMA driver is one of the drivers of the instrument (config.yml):    *)
(* any other session may call it all the while.                            *)
(***************************************************************************)
EXTENDS DmaS2MM

CONSTANTS Analyzer, Session, \* the users of the DMA driver
          Channels, Rates,
          MaxAvg,  \* bound on fft_navg
          Mixed    \* samples of which some were taken with other parameters

ASSUME AnalyzerAssumption ==
  /\ Users = {Analyzer, Session} /\ Analyzer # Session
  /\ MaxAvg \in Nat \ {0} /\ None \notin {"start", "get_data", "get_phase_noise"}
  /\ Mixed \notin {Partial, None, Elsewhere} \cup (Channels \X Rates)
  /\ Elsewhere \notin {Partial, None}
  /\ {Partial, None, Elsewhere} \cap (Channels \X Rates) = {}

VARIABLES
  channel, cic_rate,  \* members and registers alike
  fft_navg,
  operation,          \* the one under way, or None
  round,              \* i of get_phase_noise
  unread,             \* history: the transfer in the RAM was not read yet
  intruded            \* history: another session wrote to the DMA since the analyzer began
                      \* its last transfer

history == <<unread, intruded>>
members == <<channel, cic_rate, fft_navg>>
vars == <<dmaVars, members, operation, round, history>>

Parameters == <<channel, cic_rate>>

\* The constructor: one average, channel 0 and the default rate.
Init ==
  /\ DmaInit
  /\ channel \in Channels /\ cic_rate \in Rates /\ fft_navg = 1
  /\ operation = None /\ round = 0 /\ unread = FALSE /\ intruded = FALSE

-----------------------------------------------------------------------------
(* Parameters.  Refused values change nothing. *)

Free == operation = None

\* What is under way gets samples of both kinds when a parameter changes.
Disturb ==
  transfer' = IF engine = "moving" /\ transfer # Elsewhere /\ Parameters' # Parameters
              THEN Mixed ELSE transfer

set_channel(chan) ==
  /\ Free /\ channel' = chan /\ UNCHANGED cic_rate /\ Disturb
  /\ UNCHANGED <<locals, engine, address, ram, fft_navg, operation, round, history>>

set_cic_rate(rate) ==
  /\ Free /\ cic_rate' = rate /\ UNCHANGED channel /\ Disturb
  /\ UNCHANGED <<locals, engine, address, ram, fft_navg, operation, round, history>>

set_fft_navg(n_avg) ==
  /\ Free /\ fft_navg' = n_avg
  /\ UNCHANGED <<dmaVars, channel, cic_rate, operation, round, history>>

-----------------------------------------------------------------------------
(* Measurements *)

\* start, get_data (get_phase is no more) and, if an average is asked for,
\* get_phase_noise, which otherwise divides by zero.
Measure(op) ==
  /\ Free /\ (op = "get_phase_noise" => fft_navg > 0)
  /\ operation' = op /\ round' = 0
  /\ \/ /\ op # "get_phase_noise" /\ GoTo(Analyzer, "start_transfer")
        /\ UNCHANGED <<sleeps, read, hardware>>
     \/ op = "get_phase_noise" /\ BeginWait(Analyzer, "idle")
  /\ UNCHANGED <<members, history>>

Return ==
  /\ GoTo(Analyzer, "idle") /\ operation' = None
  /\ UNCHANGED <<sleeps, read, hardware>>

\* After start_transfer.
Started ==
  /\ at[Analyzer] = "started"
  /\ \/ operation = "start" /\ Return /\ UNCHANGED round
     \/ operation = "get_data" /\ BeginWait(Analyzer, "started") /\ UNCHANGED <<operation, round>>
     \/ /\ operation = "get_phase_noise" /\ round' = round + 1
        /\ \/ round' = fft_navg /\ Return
           \/ round' < fft_navg /\ BeginWait(Analyzer, "started") /\ UNCHANGED operation
  /\ UNCHANGED <<members, history>>

\* Bug variant of ReadRam: get_phase_noise does not start the next transfer.
ReadOnly ==
  /\ at[Analyzer] \in {"waited", "exceeded"} /\ unread' = FALSE
  /\ \/ operation = "get_data" /\ Return
     \/ /\ operation = "get_phase_noise" /\ GoTo(Analyzer, "started")
        /\ UNCHANGED <<operation, sleeps, read, hardware>>
  /\ UNCHANGED <<members, round, intruded>>

\* The samples are read from the RAM, whatever wait_for_transfer found; that takes the
\* time the analyzer is at "waited" or "exceeded".
ReadRam ==
  /\ at[Analyzer] \in {"waited", "exceeded"} /\ unread' = FALSE
  /\ \/ operation = "get_data" /\ Return
     \/ /\ operation = "get_phase_noise" /\ GoTo(Analyzer, "start_transfer")
        /\ UNCHANGED <<operation, sleeps, read, hardware>>
  /\ UNCHANGED <<members, round, intruded>>

\* The analyzer in the driver.
DriverStep ==
  /\ \/ Reset(Analyzer) /\ intruded' = FALSE
     \/ /\ \/ AwaitReset(Analyzer) \/ ReadControl(Analyzer) \/ Start(Analyzer)
           \/ AwaitStart(Analyzer) \/ SetAddress(Analyzer, TRUE)
           \/ SetLength(Analyzer, Parameters) \/ AwaitTransfer(Analyzer)
        /\ UNCHANGED intruded
  /\ UNCHANGED <<members, operation, round, unread>>

-----------------------------------------------------------------------------
(* Another session, with the mutex of the DMA driver *)

\* start_transfer, or its end.  wait_for_transfer only reads: nobody sees it.
SessionCall ==
  /\ \/ at[Session] = "idle" /\ GoTo(Session, "start_transfer")
     \/ at[Session] = "started" /\ GoTo(Session, "idle")
  /\ UNCHANGED <<sleeps, read, hardware, members, operation, round, history>>

SessionWaits ==
  /\ AwaitReset(Session) \/ ReadControl(Session) \/ AwaitStart(Session)
  /\ UNCHANGED <<members, operation, round, history>>

\* To any address and of any length: one that is too short leaves older samples.
SessionWrites ==
  /\ \/ Reset(Session) \/ Start(Session)
     \/ \E to_ram \in BOOLEAN : SetAddress(Session, to_ram)
     \/ \E samples \in {Parameters, Mixed} : SetLength(Session, samples)
  /\ intruded' = TRUE
  /\ UNCHANGED <<members, operation, round, unread>>

EngineStep ==
  /\ Engine
  /\ unread' = (unread \/ engine' = "idle")
  /\ UNCHANGED <<members, operation, round, intruded>>

-----------------------------------------------------------------------------
Next ==
  \/ \E c \in Channels : set_channel(c)
  \/ \E r \in Rates : set_cic_rate(r)
  \/ \E n \in 0 .. MaxAvg : set_fft_navg(n)
  \/ \E op \in {"start", "get_data", "get_phase_noise"} : Measure(op)
  \/ Started \/ ReadRam \/ DriverStep \/ EngineStep
  \/ SessionCall \/ SessionWaits \/ SessionWrites

\* The thread of the measurement runs; nothing is asked of the engine or of others.
Spec == Init /\ [][Next]_vars /\ WF_vars(Started \/ ReadRam \/ DriverStep)

-----------------------------------------------------------------------------
(* Properties *)

TypeOK ==
  /\ DmaTypeOK
  /\ channel \in Channels /\ cic_rate \in Rates /\ fft_navg \in 0 .. MaxAvg
  /\ transfer \in (Channels \X Rates) \cup {Mixed, Elsewhere, None}
  /\ ram \in (Channels \X Rates) \cup {Mixed, Partial, None}
  /\ operation \in {"start", "get_data", "get_phase_noise", None}
  /\ round \in 0 .. MaxAvg /\ unread \in BOOLEAN /\ intruded \in BOOLEAN
  /\ operation = None <=> at[Analyzer] = "idle"

\* Every variable keeps its type.  Unless the wait gave up, or another session has written to
\* the registers of the DMA since the analyzer began its last transfer, what is read is
\* one whole transfer.  For get_data, and for get_phase_noise after its first round, it
\* is one taken with the present parameters that nobody has read before; the first round
\* may get an older one.
MeasurementIsCurrent ==
  /\ TypeOK
  /\ at[Analyzer] = "waited" /\ ~intruded =>
       /\ ram \in (Channels \X Rates) \cup {Mixed}
       /\ operation = "get_data" \/ round > 0 => ram = Parameters /\ unread

\* Every measurement returns, although the engine may never finish and others may start
\* it anew.
MeasurementsReturn == operation # None ~> operation = None
=============================================================================
