------------------------------ MODULE DmaS2MM ------------------------------
(***************************************************************************)
(* The driver of the DMA that writes samples to the RAM                    *)
(* (server/drivers/dma-s2mm.hpp) and the engine it talks to.  The engine   *)
(* may take any time for anything, or never do it: every wait of the       *)
(* driver gives up after max_sleeps_cnt sleeps and goes on.                *)
(*                                                                         *)
(* Two threads may be in the driver at a time: a session whose command is  *)
(* one of the DMA driver, with the mutex of that driver, and one whose     *)
(* command is of the driver of the instrument, with the mutex of that one. *)
(* They share the registers, of which each access is a step.               *)
(***************************************************************************)
EXTENDS Naturals

CONSTANTS Users,     \* the threads in the driver
          max_sleeps_cnt,
          Partial,   \* the content of a RAM that is not completely written
          Elsewhere, \* a transfer to another address
          None

ASSUME DmaAssumption == max_sleeps_cnt \in Nat /\ Partial # None

VARIABLES
  at,        \* program point of a user; it returns at "started", at "waited", and at
             \* "exceeded" when wait_for_transfer gave up
  sleeps,    \* cnt of a user
  read,      \* what a user read of s2mm_dmacr: the engine was being reset
  engine,    \* "idle": a transfer was completed (s2mm_dmasr, bit 1)
  address,   \* s2mm_da is mem::ram_addr
  transfer,  \* what the transfer under way brings, None before the first
  ram        \* what the RAM holds

locals == <<at, sleeps, read>>
hardware == <<engine, address, transfer, ram>>
dmaVars == <<locals, hardware>>

DmaInit ==
  /\ at = [u \in Users |-> "idle"] /\ sleeps = [u \in Users |-> 0]
  /\ read = [u \in Users |-> FALSE]
  /\ engine = "halted" /\ address = FALSE /\ transfer = None /\ ram = None

halted == engine \in {"resetting", "halted", "starting"}

GoTo(u, point) == at' = [at EXCEPT ![u] = point]

-----------------------------------------------------------------------------
(* start_transfer: reset, start, then the address and the length *)

\* Setting the reset bit resets the engine, whatever else was read and is written.
Reset(u) ==
  /\ at[u] = "start_transfer" /\ GoTo(u, "resetting")
  /\ engine' = "resetting"
  /\ UNCHANGED <<sleeps, read, address, transfer, ram>>

\* The loop around a sleep that waits until done, or gives up; cnt is local to it.
Sleep(u, done, next, given_up) ==
  \/ /\ ~done /\ sleeps[u] < max_sleeps_cnt
     /\ sleeps' = [sleeps EXCEPT ![u] = @ + 1] /\ UNCHANGED at
  \/ /\ \/ done /\ GoTo(u, next)
        \/ ~done /\ sleeps[u] = max_sleeps_cnt /\ GoTo(u, given_up)
     /\ sleeps' = [sleeps EXCEPT ![u] = 0]

AwaitReset(u) ==
  /\ at[u] = "resetting"
  /\ Sleep(u, engine # "resetting", "start", "start")
  /\ UNCHANGED <<read, hardware>>

\* set_bit reads the register, then writes it.
ReadControl(u) ==
  /\ at[u] = "start" /\ GoTo(u, "write")
  /\ read' = [read EXCEPT ![u] = engine = "resetting"]
  /\ UNCHANGED <<sleeps, hardware>>

\* A reset bit that was read is written back; an engine that is being reset forgets
\* that it was started.
Start(u) ==
  /\ at[u] = "write" /\ GoTo(u, "starting")
  /\ read' = [read EXCEPT ![u] = FALSE]
  /\ engine' = IF read[u] THEN "resetting" ELSE IF engine = "halted" THEN "starting" ELSE engine
  /\ UNCHANGED <<sleeps, address, transfer, ram>>

AwaitStart(u) ==
  /\ at[u] = "starting"
  /\ Sleep(u, ~halted, "address", "address")
  /\ UNCHANGED <<read, hardware>>

SetAddress(u, to_ram) ==
  /\ at[u] = "address" /\ GoTo(u, "length")
  /\ address' = to_ram
  /\ UNCHANGED <<sleeps, read, engine, transfer, ram>>

\* The length starts a transfer of samples to the address that is set, unless the engine
\* is halted, or still busy with another.
SetLength(u, samples) ==
  /\ at[u] = "length" /\ GoTo(u, "started")
  /\ \/ /\ halted \/ engine = "moving"
        /\ UNCHANGED <<engine, transfer, ram>>
     \/ /\ ~halted /\ engine # "moving" /\ engine' = "moving"
        /\ \/ address /\ transfer' = samples /\ ram' = Partial
           \/ ~address /\ transfer' = Elsewhere /\ UNCHANGED ram
  /\ UNCHANGED <<sleeps, read, address>>

-----------------------------------------------------------------------------
(* wait_for_transfer *)

BeginWait(u, from) ==
  /\ at[u] = from /\ GoTo(u, "waiting")
  /\ UNCHANGED <<sleeps, read, hardware>>

\* Bug variant of AwaitTransfer: the sleeps are not counted.
AwaitTransferForEver(u) ==
  /\ at[u] = "waiting"
  /\ engine = "idle" /\ GoTo(u, "waited")
  /\ UNCHANGED <<sleeps, read, hardware>>

AwaitTransfer(u) ==
  /\ at[u] = "waiting"
  /\ Sleep(u, engine = "idle", "waited", "exceeded")
  /\ UNCHANGED <<read, hardware>>

-----------------------------------------------------------------------------
(* The engine *)

Engine ==
  /\ \/ engine = "resetting" /\ engine' = "halted" /\ UNCHANGED ram
     \/ engine = "starting" /\ engine' = "running" /\ UNCHANGED ram
     \/ /\ engine = "moving" /\ engine' = "idle"
        /\ ram' = IF transfer = Elsewhere THEN ram ELSE transfer
  /\ UNCHANGED <<locals, address, transfer>>

DmaTypeOK ==
  /\ at \in [Users -> {"idle", "start_transfer", "resetting", "start", "write", "starting",
                       "address", "length", "started", "waiting", "waited", "exceeded"}]
  /\ sleeps \in [Users -> 0 .. max_sleeps_cnt]
  /\ read \in [Users -> BOOLEAN]
  /\ engine \in {"halted", "resetting", "starting", "running", "moving", "idle"}
  /\ address \in BOOLEAN
=============================================================================
