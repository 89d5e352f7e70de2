-------------------------- MODULE InstrumentStore --------------------------
(***************************************************************************)
(* The HTTP application that stores and runs the instruments               *)
(* (os/api/__init__.py), the script with which it installs one and the     *)
(* boot of the board (install_instrument.sh, unzip_default_instrument.sh,  *)
(* os/systemd).  uwsgi runs the application in one process with one thread *)
(* (os/config/uwsgi.ini), so requests do not overlap, but it is killed     *)
(* with SIGKILL and started again, and the board may lose its power.  The  *)
(* zip files survive both, /tmp and koheron-server the first, the          *)
(* attributes of the application neither.                                  *)
(***************************************************************************)
EXTENDS Naturals, SequencesExt

CONSTANTS Names,      \* of instruments
          Default,    \* the one in the file "default"
          Versions,   \* of which a zip file tells one
          NoVersion,  \* "0.0.0": it does not tell any
          Broken,     \* the content of an unfinished file
          None

Instrument == [name : Names, is_default : BOOLEAN, version : Versions \cup {NoVersion}]
Directory == [name : Names, content : Versions \cup {Broken}]

ASSUME StoreAssumption ==
  /\ IsFiniteSet(Names) /\ Default \in Names
  /\ Broken # None /\ {NoVersion, Broken, None} \cap Versions = {}
  /\ None \notin Instrument \cup Directory

VARIABLES
  zips,             \* per name: what <name>.zip in instruments_dirname holds
  live_dir,         \* /tmp/live-instrument: an instrument or None
  server,           \* the instrument koheron-server was started from, or None
  at, target,       \* program point of the application, its local variables
  instruments_list,
  live_instrument,  \* None: the attribute is not set
  unsaved           \* history: the files whose last save failed, since the start

vars == <<zips, live_dir, server, at, target, instruments_list, live_instrument, unsaved>>

\* What get_instrument_dict tells: unzip lists no version of a broken or absent zip.
Entry(n, is_default) ==
  [name |-> n, is_default |-> is_default,
   version |-> IF zips[n] \in Versions THEN zips[n] ELSE NoVersion]

Unzipped(n) == [name |-> n, content |-> zips[n]]

Unfinished(n) == [name |-> n, content |-> Broken]

\* Nothing is started if a server runs, from whatever it was started.  Otherwise serverd
\* may be missing, also from an unfinished directory, and it may fail; nobody tries again.
SystemctlStart ==
  \/ server # None /\ UNCHANGED server
  \/ server = None /\ server' \in {None, live_dir}

\* The boot unzips the default instrument into an empty /tmp, or fails to.  The network
\* may come up before that is done: the ordering of the units waits for its start only.
Booted(dir, serverd) ==
  /\ dir \in IF zips[Default] = None THEN {None}
             ELSE {None, Unfinished(Default), Unzipped(Default)}
  /\ serverd \in IF dir = None THEN {None} ELSE {None, Unfinished(Default)}

\* A development image holds its default instrument; more may be there.
Init ==
  /\ zips \in [Names -> Versions \cup {None}] /\ zips[Default] # None
  /\ Booted(live_dir, server)
  /\ at = "down" /\ target = None
  /\ instruments_list = <<>> /\ live_instrument = None
  /\ unsaved = {}

-----------------------------------------------------------------------------
(* The start of the application *)

\* Bug variant of Start: the default instrument is listed and not run.
StartWithoutRun ==
  /\ at = "down"
  /\ instruments_list' = SetToSeq({Entry(n, n = Default) : n \in {m \in Names : zips[m] # None}})
  /\ at' = "idle"
  /\ UNCHANGED <<zips, live_dir, server, target, live_instrument, unsaved>>

\* init_instruments, in the order of listdir, which nothing depends on.  The
\* list is complete when the first request is served.
Start ==
  /\ at = "down"
  /\ instruments_list' = SetToSeq({Entry(n, n = Default) : n \in {m \in Names : zips[m] # None}})
  /\ IF zips[Default] # None
     THEN at' = "clear" /\ target' = Entry(Default, TRUE)
     ELSE at' = "idle" /\ UNCHANGED target
  /\ UNCHANGED <<zips, live_dir, server, live_instrument, unsaved>>

-----------------------------------------------------------------------------
(* run_instrument: the script, a step per command that changes something.   *)

\* The zip is looked for by its secured name, but compared with the default by
\* its secured path, in which no directory is left: is_default is never true.
Run(n) ==
  /\ at = "idle"
  /\ IF zips[n] = None
     THEN UNCHANGED <<at, target>>
     ELSE at' = "clear" /\ target' = Entry(n, FALSE)
  /\ UNCHANGED <<zips, live_dir, server, instruments_list, live_instrument, unsaved>>

Clear ==
  /\ at = "clear"
  /\ live_dir' = None
  /\ at' = "stop"
  /\ UNCHANGED <<zips, server, target, instruments_list, live_instrument, unsaved>>

\* Bug variant of StopServer: the server survives.
StopNothing ==
  /\ at = "stop"
  /\ at' = "unzip"
  /\ UNCHANGED <<zips, live_dir, server, target, instruments_list, live_instrument, unsaved>>

StopServer ==
  /\ at = "stop"
  /\ server' = None
  /\ at' = "unzip"
  /\ UNCHANGED <<zips, live_dir, target, instruments_list, live_instrument, unsaved>>

\* Some of the files are there, then all that the zip holds.  unzip may fail before and
\* in between; neither the script nor the application looks at its status.
Unzip ==
  /\ \/ at = "unzip" /\ at' = "unzipping" /\ live_dir' = Unfinished(target.name)
     \/ at = "unzipping" /\ at' = "start" /\ live_dir' = Unzipped(target.name)
     \/ at \in {"unzip", "unzipping"} /\ at' = "start" /\ UNCHANGED live_dir
  /\ UNCHANGED <<zips, server, target, instruments_list, live_instrument, unsaved>>

StartServer ==
  /\ at = "start"
  /\ SystemctlStart
  /\ at' = "installed"
  /\ UNCHANGED <<zips, live_dir, target, instruments_list, live_instrument, unsaved>>

Installed ==
  /\ at = "installed"
  /\ live_instrument' = target
  /\ at' = "idle" /\ target' = None
  /\ UNCHANGED <<zips, live_dir, server, instruments_list, unsaved>>

-----------------------------------------------------------------------------
(* upload_instrument and delete_instrument *)

\* The file is opened for writing, then its content is copied.  Nothing says
\* that it is a zip file.
Upload(n) ==
  /\ at = "idle"
  /\ zips' = [zips EXCEPT ![n] = Broken]
  /\ at' = "save" /\ target' = Entry(n, n = Default)
  /\ unsaved' = unsaved \ {n}
  /\ UNCHANGED <<live_dir, server, instruments_list, live_instrument>>

Saved(v) ==
  /\ at = "save"
  /\ zips' = [zips EXCEPT ![target.name] = v]
  /\ at' = "uploaded"
  /\ UNCHANGED <<live_dir, server, target, instruments_list, live_instrument, unsaved>>

\* The copy raises an exception, when the disk is full.
SaveFails ==
  /\ at = "save"
  /\ unsaved' = unsaved \cup {target.name}
  /\ at' = "idle" /\ target' = None
  /\ UNCHANGED <<zips, live_dir, server, instruments_list, live_instrument>>

\* list.remove takes out the first of the entries that are equal.
Without(n) ==
  LET named == {i \in DOMAIN instruments_list : instruments_list[i].name = n}
  IN  IF named = {} THEN instruments_list ELSE RemoveAt(instruments_list, Min(named))

\* Bug variant of Uploaded: an instrument of that name stays as it was listed.
UploadedOnce ==
  /\ at = "uploaded"
  /\ instruments_list' =
       IF \E e \in Range(instruments_list) : e.name = target.name
       THEN instruments_list
       ELSE Append(instruments_list, Entry(target.name, target.is_default))
  /\ at' = "idle" /\ target' = None
  /\ UNCHANGED <<zips, live_dir, server, live_instrument, unsaved>>

\* A listed instrument of that name is always removed: its version is compared
\* with the name.
Uploaded ==
  /\ at = "uploaded"
  /\ instruments_list' =
       Append(Without(target.name), Entry(target.name, target.is_default))
  /\ at' = "idle" /\ target' = None
  /\ UNCHANGED <<zips, live_dir, server, live_instrument, unsaved>>

Delete(n) ==
  /\ at = "idle"
  /\ zips' = [zips EXCEPT ![n] = None]
  /\ at' = "deleted" /\ target' = Entry(n, n = Default)
  /\ unsaved' = unsaved \ {n}
  /\ UNCHANGED <<live_dir, server, instruments_list, live_instrument>>

\* The list tells which instrument is the default: for that one the answer is "Default
\* instrument cannot be removed".  An instrument that is not listed gets no answer.
Deleted ==
  /\ at = "deleted"
  /\ IF \E e \in Range(instruments_list) : e.name = target.name /\ ~e.is_default
     THEN instruments_list' = Without(target.name)
     ELSE UNCHANGED instruments_list
  /\ at' = "idle" /\ target' = None
  /\ UNCHANGED <<zips, live_dir, server, live_instrument, unsaved>>

-----------------------------------------------------------------------------
(* Failures *)

Forget ==
  /\ at' = "down" /\ target' = None
  /\ instruments_list' = <<>> /\ live_instrument' = None /\ unsaved' = {}
  /\ UNCHANGED zips

\* SIGKILL ends the application and the script; systemd starts it again.
Kill ==
  /\ at # "down"
  /\ Forget
  /\ UNCHANGED <<live_dir, server>>

PowerLoss == Forget /\ Booted(live_dir', server')

\* eth0 comes up, at any time: its post-up line starts koheron-server-init, which
\* requires koheron-server.
NetworkUp ==
  /\ SystemctlStart
  /\ UNCHANGED <<zips, live_dir, at, target, instruments_list, live_instrument, unsaved>>

\* serverd ends: a driver makes it exit, or it crashes.  The unit has no Restart=.
ServerEnds ==
  /\ server # None
  /\ server' = None
  /\ UNCHANGED <<zips, live_dir, at, target, instruments_list, live_instrument, unsaved>>

-----------------------------------------------------------------------------
Application ==
  \/ Start \/ Clear \/ StopServer \/ Unzip \/ StartServer \/ Installed
  \/ SaveFails \/ Uploaded \/ Deleted
  \/ \E v \in Versions \cup {Broken} : Saved(v)

Requests == \E n \in Names : Run(n) \/ Upload(n) \/ Delete(n)

Next == Application \/ Requests \/ Kill \/ PowerLoss \/ NetworkUp \/ ServerEnds

\* The application runs and an upload comes to an end; nobody has to ask for
\* anything, and failures come when they come.
Spec == Init /\ [][Next]_vars /\ WF_vars(Application)

-----------------------------------------------------------------------------
(* Properties *)

TypeOK ==
  /\ zips \in [Names -> Versions \cup {Broken, None}]
  /\ live_dir \in Directory \cup {None}
  /\ server \in Directory \cup {None}
  /\ at \in {"down", "idle", "clear", "stop", "unzip", "unzipping", "start", "installed",
             "save", "uploaded", "deleted"}
  /\ target \in Instrument \cup {None}
  /\ target = None <=> at \in {"down", "idle"}
  /\ instruments_list \in Seq(Instrument)
  /\ live_instrument \in Instrument \cup {None}
  /\ unsaved \subseteq Names

\* Between requests the list in memory and the files agree whatever uploads,
\* deletions and failures came before: each file is listed once, with its version,
\* and only the default may be listed without a file.  After an upload that was not
\* saved the file is broken, and listed as before until the next one or the next start.
ListMatchesFiles ==
  at = "idle" =>
    /\ IsInjective([i \in DOMAIN instruments_list |-> instruments_list[i].name])
    /\ \A n \in Names :
         LET listed == {e \in Range(instruments_list) : e.name = n}
         IN /\ n \in unsaved => zips[n] = Broken
            /\ zips[n] # None /\ n \notin unsaved => listed = {Entry(n, n = Default)}
            /\ zips[n] = None => listed = {} \/ n = Default

\* What an install of e may leave in the live directory: nothing, some or all of it.
Copies(e) == {None, Unfinished(e.name), [name |-> e.name, content |-> e.version]}

\* Every variable keeps its type.  Between requests the live directory holds nothing but
\* files of the instrument, and of its version, that /api/instruments calls live, however
\* the last install ended; and a koheron-server that runs was started from there, or
\* from what there was of it when the network came up while unzip was at work: never
\* from the directory of an instrument before, whoever started it and when.
ServedIsLive ==
  /\ TypeOK
  /\ at = "idle" /\ live_instrument # None =>
       /\ live_dir \in Copies(live_instrument)
       /\ server \in {None, live_dir, Unfinished(live_instrument.name)}

\* After a failure at any point the application comes back with a live instrument, if
\* the default one has a file, unless failures never stop.
Recovers ==
  \/ []<><<Kill \/ PowerLoss>>_vars
  \/ at = "down" ~> at = "idle" /\ (live_instrument # None \/ zips[Default] = None)
=============================================================================
