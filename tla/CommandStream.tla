--------------------------- MODULE CommandStream ---------------------------
(***************************************************************************)
(* One TCP or Unix connection: the Python client (koheron.py) and the      *)
(* session thread that serves it (session.cpp, session.hpp, the parsers    *)
(* generated by server/__init__.py).                                       *)
(*                                                                         *)
(* A connection carries two byte streams, each a buffer of the kernel that *)
(* holds Capacity bytes.  The bytes themselves are not kept: the model     *)
(* counts how many went in and out, and remembers where each command       *)
(* (bounds) and each answer (answers) begins.  A session that has lost its *)
(* place decodes anything.                                                 *)
(***************************************************************************)
EXTENDS Integers, Sequences

CONSTANTS
  Ops,          \* what the client calls
  NoOp,         \* the operation of a Command whose header was not read
  Known,        \* the operations the server has, a subset of Ops
  Packs,        \* per operation: its arguments, as build_args_packs groups them
  Offset,       \* per operation: where each pack begins, and the whole size
  Reply,        \* per operation: bytes of the answer, 0 for void
  HeaderBytes, LengthBytes,
  Garbage,      \* lengths that memory nobody wrote may decode to
  SizeT64,      \* size_t has 64 bits (zynqmp), not 32 (zynq)
  Capacity, MaxCalls

Dynamic == {"string", "bytes", "vector"}  \* "bytes": vector of 1-byte elements

\* A pack is sent as its length, if dynamic, and its bytes.  What the length
\* announces is what the session reads.
Pack == [kind : Dynamic \cup {"fixed"}, bytes : Nat, length : Nat]
PackBytes(p) == (IF p.kind \in Dynamic THEN LengthBytes ELSE 0) + p.bytes

ASSUME LayoutAssumption ==
  /\ Known \subseteq Ops /\ NoOp \notin Ops
  /\ HeaderBytes \in Nat \ {0} /\ LengthBytes \in Nat \ {0}
  /\ Capacity \in Nat \ {0} /\ MaxCalls \in Nat
  /\ Garbage \subseteq Nat /\ SizeT64 \in BOOLEAN
  /\ Reply \in [Ops -> Nat]
  /\ Packs \in [Ops -> Seq(Pack)]
  /\ \A o \in Ops :
       /\ Offset[o] \in Seq(Nat)
       /\ Len(Offset[o]) = Len(Packs[o]) + 1
       /\ Offset[o][1] = HeaderBytes
       /\ \A j \in 1 .. Len(Packs[o]) :
            /\ Offset[o][j + 1] = Offset[o][j] + PackBytes(Packs[o][j])
            /\ Packs[o][j].kind = "fixed" =>
                  Packs[o][j].length = Packs[o][j].bytes

Size(o) == Offset[o][Len(Packs[o]) + 1]

VARIABLES
  sent, bounds,     \* the calls made, and where the bytes of each begin
  put,              \* bytes the client wrote
  client,           \* "idle", "sending", "receiving", "gone"
  left,             \* bytes the client has yet to send, or to receive
  fetched, got,     \* bytes of answers read; the calls read for, and from where
  link,             \* "open"; "closed" or "reset" by the client; "shut" by the
                    \* server that stops, then "dropped" with its session
  session,          \* program point of the session thread
  taken, want,      \* bytes it read, and bytes rcv_n_bytes still wants
  op, at,           \* operation of the command, and the call, 0 if out of place
  pack, args,       \* argument being read; "all", "ended", "error": what came
  executed,         \* the commands handed to a driver
  answers, written, \* where each answer begins, and bytes of answers written
  owed              \* bytes of the answer still to be written

clientVars == <<sent, bounds, put, client, left, fetched, got, link>>
readVars == <<taken, want, op, at, pack, args>>
answerVars == <<answers, written, owed>>
serverVars == <<session, readVars, executed, answerVars>>
vars == <<clientVars, serverVars>>

Init ==
  /\ sent = <<>> /\ bounds = <<>> /\ put = 0
  /\ client = "idle" /\ left = 0 /\ fetched = 0 /\ got = <<>> /\ link = "open"
  /\ session = "header" /\ taken = 0 /\ want = HeaderBytes
  /\ op = NoOp /\ at = 0 /\ pack = 1 /\ args = "all"
  /\ executed = <<>> /\ answers = <<>> /\ written = 0 /\ owed = 0

Gone == session \in {"ended", "aborted"}
Closed == Gone \/ link = "dropped"
Stopping == link \in {"shut", "dropped"}
LowerOf(a, b) == IF a < b THEN a ELSE b

-----------------------------------------------------------------------------
(* The client *)

\* A decorated method calls send_command,
SendCommand(o) ==
  /\ client = "idle"
  /\ Len(sent) < MaxCalls
  /\ client' = "sending"
  /\ sent' = Append(sent, o)
  /\ bounds' = Append(bounds, put)
  /\ left' = Size(o)
  /\ UNCHANGED <<put, fetched, got, link, serverVars>>

\* ... whose sock.send blocks until the kernel has taken the whole command,
Send ==
  /\ client = "sending" /\ left > 0
  /\ link = "open"
  /\ \E n \in 1 .. LowerOf(left, Capacity - (put - taken)) :
        put' = put + n /\ left' = left - n
  /\ UNCHANGED <<sent, bounds, client, fetched, got, link, serverVars>>

\* ... and raises when the server is gone, or stops: what comes in after a
\* shutdown is answered with a reset.
SendRaises ==
  /\ client = "sending" /\ left > 0
  /\ Gone \/ link # "open"
  /\ client' = "gone"
  /\ link' = link \/ (link = "shut" /\ link' = "reset")
  /\ UNCHANGED <<sent, bounds, put, left, fetched, got, serverVars>>

\* A void method is done; any other reads its answer with recv_all.
Sent ==
  /\ client = "sending" /\ left = 0
  /\ LET call == Len(sent)
         bytes == Reply[sent[call]]
     IN  /\ client' = IF bytes = 0 THEN "idle" ELSE "receiving"
         /\ left' = bytes
         /\ got' = IF bytes = 0 THEN got
                   ELSE Append(got, [call |-> call, from |-> fetched])
  /\ UNCHANGED <<sent, bounds, put, fetched, link, serverVars>>

\* Bug variant of RecvAll: n_bytes are asked for in every turn.
RecvAllTooMuch ==
  /\ client = "receiving" /\ left > 0
  /\ \E n \in 1 .. written - fetched :
        fetched' = fetched + n /\ left' = left - n
  /\ UNCHANGED <<sent, bounds, put, client, got, link, serverVars>>

\* A turn of the loop of recv_all.
RecvAll ==
  /\ client = "receiving" /\ left > 0
  /\ \E n \in 1 .. LowerOf(left, written - fetched) :
        fetched' = fetched + n /\ left' = left - n
  /\ UNCHANGED <<sent, bounds, put, client, got, link, serverVars>>

\* The server has closed the connection, or shut it down: recv returns b'', which
\* is not '', and the loop goes on.
RecvAllEmpty ==
  /\ client = "receiving" /\ left > 0
  /\ written = fetched
  /\ link = "shut" \/ (Closed /\ taken = put)
  /\ UNCHANGED vars

\* ... or raises, if what the client sent was not all read.
RecvAllRaises ==
  /\ client = "receiving" /\ left > 0
  /\ Closed /\ taken < put
  /\ client' = "gone"
  /\ UNCHANGED <<sent, bounds, put, left, fetched, got, link, serverVars>>

Received ==
  /\ client = "receiving" /\ left = 0
  /\ client' = "idle"
  /\ UNCHANGED <<sent, bounds, put, left, fetched, got, link, serverVars>>

\* The client closes its socket or is killed, at any moment.  A reset may lose
\* what the session has not read.
Leave ==
  /\ client # "gone"
  /\ client' = "gone"
  /\ \/ link' = (IF Stopping THEN link ELSE "closed") /\ UNCHANGED put
     \/ link # "dropped" /\ link' = "reset" /\ put' \in taken .. put
  /\ UNCHANGED <<sent, bounds, left, fetched, got, serverVars>>

Client ==
  \/ \E o \in Ops : SendCommand(o)
  \/ Send \/ SendRaises \/ Sent \/ RecvAll \/ RecvAllEmpty \/ RecvAllRaises \/ Received \/ Leave

-----------------------------------------------------------------------------
(* The session: rcv_n_bytes *)

\* Bug variant of Read: a read after a partial one may bring more than is wanted.
ReadPastWanted ==
  /\ session \in {"header", "length", "data"} /\ want > 0
  /\ \E n \in 1 .. put - taken :
        taken' = taken + n /\ want' = want - LowerOf(n, want)
  /\ UNCHANGED <<clientVars, session, op, at, pack, args, executed, answerVars>>

\* One read: any number of bytes up to what is wanted.  Those that came before a
\* shutdown can still be read, until the descriptor is closed.
Read ==
  /\ session \in {"header", "length", "data"}
  /\ link # "dropped"
  /\ \E n \in 1 .. LowerOf(want, put - taken) :
        taken' = taken + n /\ want' = want - n
  /\ UNCHANGED <<clientVars, session, op, at, pack, args, executed, answerVars>>

\* How rcv_n_bytes ends: everything read, 0 at the end of the stream, -1.
GotAll == want = 0
GotEnd == want > 0 /\ put = taken /\ link \in {"closed", "shut"}
GotError ==
  want > 0 /\ ((put = taken /\ link = "reset") \/ link = "dropped")

\* The kernel reports a reset once, and then the end of the stream; of a closed
\* descriptor it reports nothing but an error.
Reported == link' = IF link = "reset" THEN "closed" ELSE link

\* The next rcv_n_bytes, for n bytes.
Receive(point, n) == session' = point /\ want' = n

\* run() goes on with a new Command, wherever the stream stands.
NextCommand ==
  /\ Receive("header", HeaderBytes)
  /\ op' = NoOp /\ at' = 0 /\ pack' = 1 /\ args' = "all"

\* The parser comes to pack j of a command of operation o, or past the last.
ParseFrom(o, j) ==
  /\ pack' = j
  /\ CASE j > Len(Packs[o]) -> session' = "execute" /\ want' = 0
       [] j <= Len(Packs[o]) /\ Packs[o][j].kind \in Dynamic ->
            Receive("length", LengthBytes)
       [] j <= Len(Packs[o]) /\ Packs[o][j].kind = "fixed" ->
            Receive("data", Packs[o][j].bytes)

-----------------------------------------------------------------------------
(* The session: read_command, the parser, the driver *)

\* The call whose header ends where the session stands.
Here == {k \in DOMAIN bounds : bounds[k] + HeaderBytes = taken}

\* read_command has a header, which out of place may decode to anything.  An
\* operation the server does not have is refused, and its payload stays in the
\* stream; a number that is no driver's ends the process (DriverManager::execute
\* reads past its arrays).
Header ==
  /\ session = "header" /\ GotAll
  /\ \E k \in IF Here = {} THEN {0} ELSE Here :
     \E o \in IF k = 0 THEN Ops ELSE {sent[k]} :
        \/ /\ o \in Known
           /\ at' = k /\ op' = o /\ args' = "all"
           /\ ParseFrom(o, 1)
        \/ o \notin Known /\ NextCommand
        \/ /\ k = 0 \/ o \notin Known
           /\ session' = "aborted"
           /\ UNCHANGED <<want, op, at, pack, args>>
  /\ UNCHANGED <<clientVars, taken, executed, answerVars>>

\* Bug variants of HeaderFails: an end of file is not the end of the session,
HeaderFailsOnError ==
  /\ session = "header"
  /\ GotError
  /\ session' = "ended"
  /\ UNCHANGED <<clientVars, readVars, executed, answerVars>>

\* ... or is a header.
HeaderOfNothing ==
  /\ session = "header"
  /\ GotEnd
  /\ op' \in Known /\ at' = 0 /\ args' = "ended"
  /\ ParseFrom(op', 1)
  /\ UNCHANGED <<clientVars, taken, executed, answerVars>>

\* The session ends on 0 and on -1.
HeaderFails ==
  /\ session = "header"
  /\ GotEnd \/ GotError
  /\ session' = "ended"
  /\ Reported
  /\ UNCHANGED <<sent, bounds, put, client, left, fetched, got, readVars, executed,
                 answerVars>>

Argument == Packs[op][pack]

\* Bug variant of Length: elements are taken for bytes.
LengthInElements ==
  /\ session = "length" /\ GotAll
  /\ \E n \in IF at = 0 THEN Garbage
             ELSE {IF Argument.kind = "vector" THEN Argument.length \div 2
                   ELSE Argument.length} : Receive("data", n)
  /\ UNCHANGED <<clientVars, taken, op, at, pack, args, executed, answerVars>>

\* get_pack_length: the length announced, or anything when out of place.
Length ==
  /\ session = "length" /\ GotAll
  /\ \E n \in IF at = 0 THEN Garbage ELSE {Argument.length} : Receive("data", n)
  /\ UNCHANGED <<clientVars, taken, op, at, pack, args, executed, answerVars>>

\* It does not tell the end of the stream from a length: the length is what an
\* unwritten buffer holds, and the container may be too large to exist.
LengthEnds ==
  /\ session = "length" /\ GotEnd
  /\ args' = "ended"
  /\ \/ \E n \in Garbage : Receive("data", n)
     \/ session' = "aborted" /\ want' = 0
  /\ UNCHANGED <<clientVars, taken, op, at, pack, executed, answerVars>>

\* On an error it is -1.  A string is refused.  For a vector -1 / sizeof(T) is
\* unsigned if size_t has 64 bits, and no vector is that long; else it is
\* signed: still -1 for bytes, but 0 for anything larger, an empty vector.
LengthFails ==
  /\ session = "length" /\ GotError
  /\ Reported
  /\ CASE Argument.kind # "string" /\ SizeT64 ->
            session' = "aborted" /\ want' = 0 /\ UNCHANGED <<op, at, pack, args>>
       [] Argument.kind = "vector" /\ ~SizeT64 ->
            Receive("data", 0) /\ args' = "error" /\ UNCHANGED <<op, at, pack>>
       [] OTHER -> NextCommand
  /\ UNCHANGED <<sent, bounds, put, client, left, fetched, got, taken, executed,
                 answerVars>>

\* The parser only looks for -1: at the end of the stream it goes on.
Data ==
  /\ session = "data"
  /\ GotAll \/ GotEnd
  /\ args' = IF GotAll THEN args ELSE "ended"
  /\ ParseFrom(op, pack + 1)
  /\ UNCHANGED <<clientVars, taken, op, at, executed, answerVars>>

DataFails ==
  /\ session = "data" /\ GotError
  /\ Reported
  /\ NextCommand
  /\ UNCHANGED <<sent, bounds, put, client, left, fetched, got, taken, executed,
                 answerVars>>

\* Bug variant of Execute: a void operation is answered too.
ExecuteAnswersAll ==
  /\ session = "execute"
  /\ executed' = Append(executed, [call |-> at, args |-> args])
  /\ answers' = Append(answers, [call |-> at, from |-> written])
  /\ owed' = IF Reply[op] = 0 THEN 1 ELSE Reply[op]
  /\ session' = "answer"
  /\ UNCHANGED <<clientVars, readVars, written>>

\* The operation runs; unless it is void its answer is sent.
Execute ==
  /\ session = "execute"
  /\ executed' = Append(executed, [call |-> at, args |-> args])
  /\ \/ Reply[op] = 0 /\ NextCommand /\ UNCHANGED <<answers, owed>>
     \/ /\ Reply[op] > 0
        /\ answers' = Append(answers, [call |-> at, from |-> written])
        /\ owed' = Reply[op]
        /\ session' = "answer"
        /\ UNCHANGED <<want, op, at, pack, args>>
  /\ UNCHANGED <<clientVars, taken, written>>

\* write blocks until the kernel has taken the answer; run() goes on,
Answer ==
  /\ session = "answer"
  /\ \/ /\ ~Stopping
        /\ \E n \in 1 .. LowerOf(owed, Capacity - (written - fetched)) :
             written' = written + n /\ owed' = owed - n
        /\ UNCHANGED <<session, want, op, at, pack, args>>
     \/ owed = 0 /\ NextCommand /\ UNCHANGED <<written, owed>>
  /\ UNCHANGED <<clientVars, taken, executed, answers>>

\* ... also when it fails because the client is gone, whose kernel may answer
\* with a reset that the next read reports, or because the server stops.
AnswerFails ==
  /\ session = "answer"
  /\ link # "open"
  /\ link' \in IF Stopping THEN {link} ELSE {"closed", "reset"}
  /\ owed' = 0
  /\ NextCommand
  /\ UNCHANGED <<sent, bounds, put, client, left, fetched, got, taken, executed,
                 answers, written>>

\* The server stops: delete_session, called by delete_all, shuts the connection
\* down, which wakes the session thread if it is in a read,
ServerStops ==
  /\ ~Gone /\ link = "open"
  /\ link' = "shut"
  /\ UNCHANGED <<sent, bounds, put, client, left, fetched, got, serverVars>>

\* ... then closes the descriptor and destroys the session.  Its thread goes on,
\* in memory that may still hold what it held,
SessionDeleted ==
  /\ ~Gone /\ link \notin {"open", "dropped"}
  /\ link' = "dropped"
  /\ UNCHANGED <<sent, bounds, put, client, left, fetched, got, serverVars>>

\* ... or not, until it ends with the process.
ThreadEnds ==
  /\ ~Gone /\ link = "dropped"
  /\ session' \in {"ended", "aborted"}
  /\ UNCHANGED <<clientVars, readVars, executed, answerVars>>

Server == ServerStops \/ SessionDeleted \/ ThreadEnds

Thread ==
  \/ Read \/ Header \/ HeaderFails \/ Length \/ LengthEnds \/ LengthFails
  \/ Data \/ DataFails \/ Execute \/ Answer \/ AnswerFails

Finished == client = "gone" /\ Gone /\ UNCHANGED vars

Next == Client \/ Thread \/ Server \/ Finished

\* Both threads run when they can; nobody has to call, to leave or to stop.
Fairness ==
  /\ WF_vars(Thread)
  /\ WF_vars(Send) /\ WF_vars(SendRaises) /\ WF_vars(Sent) /\ WF_vars(RecvAll)
  /\ WF_vars(RecvAllRaises) /\ WF_vars(Received)

Spec == Init /\ [][Next]_vars
FairSpec == Spec /\ Fairness

-----------------------------------------------------------------------------
(* Properties *)

\* A call both sides understand alike: its operation is known, or has nothing
\* that would be left unread, and its lengths announce the bytes that follow.
WellFormed(o) ==
  /\ o \in Known \/ (Packs[o] = <<>> /\ Reply[o] = 0)
  /\ \A j \in DOMAIN Packs[o] : Packs[o][j].length = Packs[o][j].bytes

UnderstoodCalls == \A k \in DOMAIN sent : WellFormed(sent[k])

\* Every variable keeps its type, and no buffer of the kernel overflows.
TypeOK ==
  /\ sent \in Seq(Ops) /\ bounds \in Seq(Nat)
  /\ put \in Nat /\ taken \in 0 .. put /\ put - taken <= Capacity
  /\ written \in Nat /\ fetched \in 0 .. written
  /\ written - fetched <= Capacity
  /\ client \in {"idle", "sending", "receiving", "gone"}
  /\ left \in Nat /\ want \in Nat /\ owed \in Nat
  /\ got \in Seq([call : Nat, from : Nat])
  /\ link \in {"open", "closed", "reset", "shut", "dropped"}
  /\ session \in {"header", "length", "data", "execute", "answer", "ended", "aborted"}
  /\ op \in Ops \cup {NoOp} /\ at \in 0 .. Len(sent) /\ pack \in Nat
  /\ args \in {"all", "ended", "error"}
  /\ executed \in Seq([call : Nat, args : {"all", "ended", "error"}])
  /\ answers \in Seq([call : Nat, from : Nat])

\* Every variable keeps its type.  As long as the connection stands, a session whose
\* client makes understood calls is never out of place: no partial read and no kind
\* of argument makes it take one part of the stream for another.
InPlace ==
  /\ TypeOK
  /\ UnderstoodCalls /\ link = "open" =>
       /\ session \in {"length", "data", "execute", "answer"} =>
             at # 0 /\ op = sent[at]
       /\ session = "header" /\ GotAll => Here # {}
       /\ session = "data" /\ GotAll => taken = bounds[at] + Offset[op][pack + 1]

\* Understood calls are executed in the order they were made, none twice and
\* none left out but those the server does not have.  The parser takes the end of
\* the stream for success and runs an operation on arguments that did not all
\* arrive, but only one, the last, and only when the connection is lost or the
\* server stops.
ExecutedInOrder ==
  \A i \in DOMAIN executed :
     LET k == executed[i].call
     IN /\ executed[i].args # "all" => i = Len(executed) /\ link # "open"
        /\ UnderstoodCalls =>
             /\ k # 0 /\ sent[k] \in Known
             /\ \A j \in 1 .. k - 1 :
                   sent[j] \in Known => \E h \in 1 .. i - 1 : executed[h].call = j
             /\ \A h \in 1 .. i - 1 : executed[h].call < k

\* An answer is read by the call it answers, from its first byte: void
\* operations answer nothing, the others exactly what their client reads.
AnswersMatchCalls ==
  UnderstoodCalls =>
     \A i \in DOMAIN got :
        i \in DOMAIN answers => answers[i] = got[i]

\* A call that is understood can be sent, and returns with its answer while the
\* server lives.  Neither the two buffers of bounded size nor partial reads and
\* writes can stop both sides.
CallsReturn ==
  (client \in {"sending", "receiving"} /\ UnderstoodCalls)
    ~> (client \in {"idle", "gone"} \/ Gone)

\* A connection that is closed, reset or shut down ends its session, wherever it
\* stands.
LeavingEndsSession == (client = "gone" \/ Stopping) ~> Gone

\* koheron.py: recv_all raises when the connection is broken.
RecvAllEnds == (client = "receiving" /\ Gone) ~> (client # "receiving")
=============================================================================
