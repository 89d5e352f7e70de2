-------------------------- MODULE WebSocketSession --------------------------
(***************************************************************************)
(* One WebSocket connection: a browser and the session thread that serves  *)
(* it (websocket.cpp, websocket.hpp, Session<WEBSOCK>).                    *)
(*                                                                         *)
(* As in CommandStream the bytes are counted, not kept: the model knows    *)
(* where each frame of the client (bounds) and of the server (answers)     *)
(* begins, and a session that does not stand there decodes any frame.      *)
(***************************************************************************)
EXTENDS Integers, Sequences, FiniteSets

CONSTANTS
  Frames,        \* what the client may send, see Frame
  SmallStream,   \* longest payload whose length fits the second byte (125)
  MediumMax,     \* longest whose length fits two bytes (0xFFFF)
  CommandHeader, \* Command::HEADER_SIZE
  ReadStrLen,    \* WEBSOCK_READ_STR_LEN
  Margin,        \* what read_header keeps free of it (56)
  OverflowLen,   \* KOHERON_READ_STR_LEN
  SendBufLen,    \* WEBSOCK_SEND_BUF_LEN
  RequestBytes, AcceptBytes,  \* the two sides of the handshake
  Capacity,      \* bytes a buffer of the kernel holds
  MaxFrames      \* bound on the frames of the client

\* A frame: text and binary are "data", continuation, ping, pong and the rest
\* "other".  The command in it has an answer of reply bytes, 0 if it is void.
Frame == [opcode : {"data", "close", "other"}, payload : Nat, reply : Nat]

\* The length that looks like a full buffer is not that of a header, nor of the request.
ASSUME WebSocketAssumption ==
  /\ Frames \subseteq Frame
  /\ {SmallStream, MediumMax, ReadStrLen, Margin, OverflowLen, SendBufLen,
      MaxFrames} \subseteq Nat
  /\ {CommandHeader, RequestBytes, AcceptBytes, Capacity} \subseteq Nat \ {0}
  /\ OverflowLen \notin {6, 8, 14, RequestBytes}
  /\ SmallStream < MediumMax
  /\ 14 <= Margin /\ Margin <= ReadStrLen

VARIABLES
  client,            \* "connecting", "open", "closing", "gone"
  sent, bounds,      \* frames it sent, and where each begins
  put, fetched,      \* bytes of it that left, bytes it received
  link,              \* "open", "closed" or "reset" by it, "shut" and "dropped" by the server
  session,           \* program point of the session thread
  taken,             \* bytes it has read
  read_str_len, want,\* length of read_str, bytes read_n_bytes still wants
  frame, at,         \* the frame decoded last, and which it is, 0 if none
  connection_closed, exit_signal,
  executed,          \* frames whose command was executed
  answers, written,  \* frames of the server, and bytes of it written
  owed               \* bytes send_request still has to write

clientVars == <<client, sent, bounds, put, fetched>>
readVars == <<taken, read_str_len, want, frame, at>>
sendVars == <<answers, written, owed>>
serverVars == <<session, readVars, connection_closed, exit_signal, executed, sendVars>>
vars == <<clientVars, link, serverVars>>

LowerOf(a, b) == IF a < b THEN a ELSE b

\* A client masks its frames: 4 bytes in every header.
HeaderSize(n) ==
  CASE n <= SmallStream -> 6
    [] SmallStream < n /\ n <= MediumMax -> 8
    [] MediumMax < n -> 14

FrameSize(f) == HeaderSize(f.payload) + f.payload

\* The header field of a session that has read no frame.
NoFrame == [opcode |-> "data", payload |-> 0, reply |-> 0]

\* Where the next frame of the client begins.
StreamEnd ==
  IF sent = <<>> THEN RequestBytes
  ELSE bounds[Len(sent)] + FrameSize(sent[Len(sent)])

Init ==
  /\ client = "connecting" /\ sent = <<>> /\ bounds = <<>>
  /\ put = 0 /\ fetched = 0 /\ link = "open"
  /\ session = "handshake" /\ taken = 0 /\ read_str_len = 0 /\ want = 0
  /\ frame = NoFrame /\ at = 0
  /\ connection_closed = FALSE /\ exit_signal = FALSE
  /\ executed = <<>> /\ answers = <<>> /\ written = 0 /\ owed = 0

\* The server has taken the connection from the session.
Stopping == link \in {"shut", "dropped"}

-----------------------------------------------------------------------------
(* The client and the kernel *)

SendFrame(f) ==
  /\ client = "open" /\ Len(sent) < MaxFrames
  /\ sent' = Append(sent, f)
  /\ bounds' = Append(bounds, StreamEnd)
  /\ client' = IF f.opcode = "close" THEN "closing" ELSE client
  /\ UNCHANGED <<put, fetched, link, serverVars>>

Put ==
  /\ client # "gone" /\ link = "open"
  /\ \E n \in 1 .. LowerOf(StreamEnd - put, Capacity - (put - taken)) : put' = put + n
  /\ UNCHANGED <<client, sent, bounds, fetched, link, serverVars>>

\* The connection is open for the client when it has read the answer to its
\* request.
Fetch ==
  /\ client # "gone"
  /\ \E n \in 1 .. written - fetched : fetched' = fetched + n
  /\ client' = IF client = "connecting" /\ fetched' >= AcceptBytes THEN "open"
               ELSE client
  /\ UNCHANGED <<sent, bounds, put, link, serverVars>>

\* The client disappears.  A reset may lose what the session has not read.
Leave ==
  /\ client # "gone"
  /\ client' = "gone"
  /\ \/ link' = (IF Stopping THEN link ELSE "closed") /\ UNCHANGED put
     \/ link # "dropped" /\ link' = "reset" /\ put' \in taken .. put
  /\ UNCHANGED <<sent, bounds, fetched, serverVars>>

Client == (\E f \in Frames : SendFrame(f)) \/ Put \/ Fetch \/ Leave

-----------------------------------------------------------------------------
(* The session: where it goes next *)

Gone == session = "ended"

\* exit: a close frame, unless the connection is closed.
ExitSession(closed) ==
  IF closed THEN session' = "ended" /\ UNCHANGED owed
  ELSE session' = "closing" /\ owed' = 2

\* read_command returned 0 or -1.
CommandFails(closed) ==
  IF exit_signal THEN ExitSession(closed)
  ELSE session' = "ended" /\ UNCHANGED owed

\* The next turn of the loop of run, up to the first read.
NextCommand ==
  IF exit_signal
  THEN ExitSession(connection_closed) /\ UNCHANGED <<read_str_len, want>>
  ELSE /\ session' = IF connection_closed THEN "ended" ELSE "header"
       /\ read_str_len' = 0 /\ want' = 6
       /\ owed' = 0

\* run answers the handshake, a command, or takes its leave.
Writing == session \in {"accept", "answer", "closing"}
Reading == session \in {"header", "length", "payload"}

-----------------------------------------------------------------------------
(* The session: handshake and send_request *)

\* What a read reports when there is nothing more to read: 0 or -1.  A descriptor that
\* is closed only has errors.
EndOfStream == taken = put /\ link \in {"closed", "shut"}
ReadFails == (taken = put /\ link = "reset") \/ link = "dropped"

\* read_http_packet reads once; the request has to be there as a whole.
Handshake ==
  /\ session = "handshake" /\ taken < put /\ link # "dropped"
  /\ taken' = put /\ read_str_len' = put - taken
  /\ IF put - taken < RequestBytes
     THEN session' = "ended" /\ UNCHANGED owed
     ELSE session' = "accept" /\ owed' = AcceptBytes
  /\ UNCHANGED <<clientVars, link, want, frame, at, connection_closed, exit_signal,
                 executed, answers, written>>

HandshakeFails ==
  /\ session = "handshake"
  /\ EndOfStream \/ ReadFails
  /\ session' = "ended"
  /\ connection_closed' = EndOfStream
  /\ UNCHANGED <<clientVars, link, readVars, exit_signal, executed, sendVars>>

\* One write of send_request.
Write ==
  /\ Writing /\ ~Stopping
  /\ \E n \in 1 .. LowerOf(owed, Capacity - (written - fetched)) :
        written' = written + n /\ owed' = owed - n
  /\ UNCHANGED <<clientVars, link, session, readVars, connection_closed, exit_signal,
                 executed, answers>>

Written ==
  /\ Writing /\ owed = 0
  /\ IF session = "closing"
     THEN session' = "ended" /\ UNCHANGED <<read_str_len, want, owed>>
     ELSE NextCommand
  /\ UNCHANGED <<clientVars, link, taken, frame, at, connection_closed, exit_signal,
                 executed, answers, written>>

\* ... and one that fails: authenticate fails; a command does not, but the next
\* receive_cmd finds the connection closed.  The kernel of the client may answer with a
\* reset.
WriteFails ==
  /\ Writing /\ link # "open"
  /\ link' \in IF Stopping THEN {link} ELSE {"closed", "reset"}
  /\ connection_closed' = TRUE
  /\ session' = "ended" /\ owed' = 0
  /\ UNCHANGED <<clientVars, readVars, exit_signal, executed, answers, written>>

-----------------------------------------------------------------------------
(* The session: read_stream *)

\* Bug variants of Read: a turn asks for whatever there is, and counts it
ReadAll ==
  /\ Reading
  /\ \E n \in 1 .. put - taken :
        taken' = taken + n /\ read_str_len' = read_str_len + n /\ want' = want - n
  /\ UNCHANGED <<clientVars, link, session, frame, at, connection_closed, exit_signal,
                 executed, sendVars>>

\* ... or not.
ReadPastWanted ==
  /\ Reading /\ want > 0
  /\ \E n \in 1 .. put - taken :
        /\ taken' = taken + n /\ read_str_len' = read_str_len + n
        /\ want' = want - LowerOf(n, want)
  /\ UNCHANGED <<clientVars, link, session, frame, at, connection_closed, exit_signal,
                 executed, sendVars>>

\* One read of read_n_bytes.
Read ==
  /\ Reading /\ link # "dropped"
  /\ \E n \in 1 .. LowerOf(want, put - taken) :
        taken' = taken + n /\ read_str_len' = read_str_len + n /\ want' = want - n
  /\ UNCHANGED <<clientVars, link, session, frame, at, connection_closed, exit_signal,
                 executed, sendVars>>

Failing(closed) ==
  /\ CommandFails(closed)
  /\ connection_closed' = closed
  /\ UNCHANGED <<clientVars, readVars, exit_signal, executed, answers, written>>

\* Bug variants of ReadClosed: the end of the stream ends the payload only,
ReadClosedInPayload ==
  /\ session = "payload" /\ want > 0
  /\ EndOfStream
  /\ Failing(TRUE)
  /\ UNCHANGED link

\* ... or the read only.
ReadClosedGoesOn ==
  /\ Reading /\ want > 0
  /\ EndOfStream
  /\ want' = 0
  /\ UNCHANGED <<clientVars, link, session, taken, read_str_len, frame, at,
                 connection_closed, exit_signal, executed, sendVars>>

\* The end of the stream.  In a header, read_header returns 0 and the payload is
\* read next, of the length of the frame before: it meets the same end.
ReadClosed ==
  /\ Reading /\ want > 0
  /\ EndOfStream
  /\ Failing(TRUE)
  /\ UNCHANGED link

\* A read that fails is tried again: the test for it is behind a loop that only
\* a positive result enters.  The kernel reports a reset once, and then the end of the
\* stream.
ReadError ==
  /\ Reading /\ want > 0
  /\ ReadFails
  /\ link' = IF link = "reset" THEN "closed" ELSE link
  /\ IF read_str_len = OverflowLen THEN Failing(connection_closed)
     ELSE UNCHANGED <<clientVars, serverVars>>

\* All was read, but this much looks like a full buffer.
Overflow ==
  /\ Reading /\ want = 0 /\ read_str_len = OverflowLen
  /\ Failing(connection_closed)
  /\ UNCHANGED link

Received == want = 0 /\ read_str_len # OverflowLen

\* The frame that begins where this header does.
Here == {k \in DOMAIN bounds : bounds[k] = taken - read_str_len}

TooLarge(n) == n > ReadStrLen - Margin

ReceivePayload(n) == session' = "payload" /\ want' = n /\ UNCHANGED owed

\* Bug variant of ExtendedBytes: every longer length has 8 bytes.
ExtendedBytesBig(n) == 8

ExtendedBytes(n) == HeaderSize(n) - 6

\* The first 6 bytes.  Only data frames go on; a close frame ends the session
\* in silence.
Header ==
  /\ session = "header" /\ Received
  /\ \E k \in IF Here = {} THEN {0} ELSE Here :
     \E f \in IF k = 0 THEN Frames ELSE {sent[k]} :
        /\ at' = k /\ frame' = f
        /\ connection_closed' = (f.opcode = "close")
        /\ \/ /\ f.opcode # "data"
              /\ CommandFails(f.opcode = "close")
              /\ UNCHANGED want
           \/ /\ f.opcode = "data" /\ f.payload <= SmallStream
              /\ \/ TooLarge(f.payload) /\ CommandFails(FALSE) /\ UNCHANGED want
                 \/ ~TooLarge(f.payload) /\ ReceivePayload(f.payload)
           \/ /\ f.opcode = "data" /\ f.payload > SmallStream
              /\ session' = "length" /\ want' = ExtendedBytes(f.payload)
              /\ UNCHANGED owed
  /\ UNCHANGED <<clientVars, link, taken, read_str_len, exit_signal, executed, answers,
                 written>>

\* The 2 or 8 bytes of a longer length.
Length ==
  /\ session = "length" /\ Received
  /\ \/ TooLarge(frame.payload) /\ CommandFails(FALSE) /\ UNCHANGED want
     \/ ~TooLarge(frame.payload) /\ ReceivePayload(frame.payload)
  /\ UNCHANGED <<clientVars, link, taken, read_str_len, frame, at, connection_closed,
                 exit_signal, executed, answers, written>>

-----------------------------------------------------------------------------
(* The session: the command *)

\* Bug variant of TooSmall: a command without arguments is refused too.
TooSmallOffByOne == frame.payload <= CommandHeader

\* decode_raw_stream_cmd wants a byte, read_command a header.
TooSmall ==
  \/ read_str_len < HeaderSize(frame.payload) + 1
  \/ frame.payload < CommandHeader

\* Bug variant of SendHeader: the comparison is off by one.
SendHeaderOffByOne(n) ==
  CASE n <= SmallStream -> [bytes |-> 2, short |-> n, long |-> 0]
    [] SmallStream < n /\ n <= MediumMax + 1 ->
         [bytes |-> 4, short |-> SmallStream + 1, long |-> n % (MediumMax + 1)]
    [] MediumMax + 1 < n -> [bytes |-> 10, short |-> SmallStream + 2, long |-> n]

\* set_send_header: the length in the second byte, or a mark there and the length
\* in the next 2 or 8 bytes.
SendHeader(n) ==
  CASE n <= SmallStream -> [bytes |-> 2, short |-> n, long |-> 0]
    [] SmallStream < n /\ n <= MediumMax ->
         [bytes |-> 4, short |-> SmallStream + 1, long |-> n % (MediumMax + 1)]
    [] MediumMax < n -> [bytes |-> 10, short |-> SmallStream + 2, long |-> n]

\* send keeps room for the longest header.
TooLong(n) == n + 10 > SendBufLen

\* A command that would be too small ends the session.
CommandTooSmall ==
  /\ session = "payload" /\ Received
  /\ TooSmall
  /\ Failing(connection_closed)
  /\ UNCHANGED link

\* The exit signal is looked at between read_command and execute.
CommandAfterExit ==
  /\ session = "payload" /\ Received
  /\ ~TooSmall /\ exit_signal
  /\ Failing(connection_closed)
  /\ UNCHANGED link

\* execute: an answer that does not fit the buffer is not sent, and the session
\* goes on.
Execute ==
  /\ session = "payload" /\ Received
  /\ ~TooSmall /\ ~exit_signal
  /\ executed' = Append(executed, at)
  /\ \/ /\ frame.reply = 0 \/ TooLong(frame.reply)
        /\ NextCommand
        /\ UNCHANGED answers
     \/ /\ frame.reply > 0 /\ ~TooLong(frame.reply)
        /\ answers' = Append(answers, [from |-> written, header |-> SendHeader(frame.reply)])
        /\ owed' = SendHeader(frame.reply).bytes + frame.reply
        /\ session' = "answer"
        /\ UNCHANGED <<read_str_len, want>>
  /\ UNCHANGED <<clientVars, link, taken, frame, at, connection_closed, exit_signal,
                 written>>

\* The server stops: delete_all shuts the connection down, which ends a read,
SessionShut ==
  /\ ~Gone /\ link = "open" /\ ~exit_signal
  /\ link' = "shut"
  /\ UNCHANGED <<client, sent, bounds, put, fetched, serverVars>>

\* ... then closes the descriptor and destroys the session.  Its thread goes on in
\* memory that may still hold what it held, to the end of the process at the latest.
SessionDeleted ==
  /\ ~Gone /\ link \notin {"open", "dropped"} /\ ~exit_signal
  /\ link' = "dropped"
  /\ UNCHANGED <<client, sent, bounds, put, fetched, serverVars>>

\* A session that delete_all did not see is only signalled,
ExitComm ==
  /\ ~Gone /\ ~Stopping /\ ~exit_signal
  /\ exit_signal' = TRUE
  /\ UNCHANGED <<clientVars, link, session, readVars, connection_closed, executed, sendVars>>

\* ... and ends with the process too.
ThreadEnds ==
  /\ ~Gone
  /\ link = "dropped" \/ exit_signal
  /\ session' = "ended"
  /\ UNCHANGED <<clientVars, link, readVars, connection_closed, exit_signal, executed, sendVars>>

Server == SessionShut \/ SessionDeleted \/ ExitComm \/ ThreadEnds

Thread ==
  \/ Handshake \/ HandshakeFails \/ Write \/ Written \/ WriteFails
  \/ Read \/ ReadClosed \/ ReadError \/ Overflow
  \/ Header \/ Length \/ CommandTooSmall \/ CommandAfterExit \/ Execute

Finished == client = "gone" /\ Gone /\ UNCHANGED vars

\* A browser that the server left stays, but does no more.
Quiet == client # "gone" /\ Gone /\ UNCHANGED vars

Next == Client \/ Thread \/ Server \/ Finished \/ Quiet

\* The session thread runs when it can, the network delivers, and the process ends when
\* its sessions are deleted.
Fairness ==
  /\ WF_vars(Thread) /\ WF_vars(Put) /\ WF_vars(Fetch)
  /\ WF_vars(link = "dropped" /\ ThreadEnds)

Spec == Init /\ [][Next]_vars /\ Fairness

-----------------------------------------------------------------------------
(* Properties *)

\* What a session does not serve: it ends instead.
Refused(f) ==
  \/ f.opcode # "data"
  \/ f.payload < CommandHeader
  \/ TooLarge(f.payload)
  \/ FrameSize(f) = OverflowLen

TypeOK ==
  /\ client \in {"connecting", "open", "closing", "gone"}
  /\ sent \in Seq(Frames) /\ bounds \in Seq(Nat)
  /\ put \in Nat /\ taken \in 0 .. put /\ put - taken <= Capacity
  /\ written \in Nat /\ fetched \in 0 .. written /\ written - fetched <= Capacity
  /\ link \in {"open", "closed", "reset", "shut", "dropped"}
  /\ session \in {"handshake", "accept", "header", "length", "payload", "answer",
                  "closing", "ended"}
  /\ read_str_len \in Nat /\ want \in Nat /\ owed \in Nat
  /\ frame \in Frames \cup {NoFrame} /\ at \in 0 .. Len(sent)
  /\ connection_closed \in BOOLEAN /\ exit_signal \in BOOLEAN
  /\ executed \in Seq(Nat)
  /\ answers \in Seq([from : Nat, header : [bytes : Nat, short : Nat, long : Nat]])
  /\ Reading => read_str_len + want <= ReadStrLen
  /\ session = "answer" => owed <= SendBufLen

\* What a client makes of the header of an answer (RFC 6455, 5.2).
Announced(h) == IF h.short <= SmallStream THEN h.short ELSE h.long

AnswersInPlace ==
  \A i \in DOMAIN answers :
     LET next == answers[i].from + answers[i].header.bytes + Announced(answers[i].header)
     IN  IF i < Len(answers) THEN answers[i + 1].from = next
         ELSE session = "answer" => written + owed = next

\* Every variable keeps its type, and no buffer overflows: the limit on a payload leaves
\* room for the longest header, the one on an answer for its own.
\* Partial reads never move the session off the frames: what it decodes is
\* where a frame begins, and a payload ends where the frame does.  Nor is the client
\* moved off: each answer begins where the header of the one before says it ends.
FramesInPlace ==
  /\ TypeOK
  /\ AnswersInPlace
  /\ session = "header" /\ want = 0 => Here # {}
  /\ session \in {"length", "payload"} => at # 0 /\ frame = sent[at]
  /\ session = "payload" /\ want = 0 => taken = bounds[at] + FrameSize(frame)

\* The commands are executed in the order they were sent, each once and none
\* left out, and none of a frame that is cut short or refused.
ExecutedInOrder ==
  \A i \in DOMAIN executed :
     /\ executed[i] = i
     /\ bounds[i] + FrameSize(sent[i]) <= taken
     /\ ~Refused(sent[i])

\* A session ends only if its client left or sent what is refused, if the server
\* stops, or if the request of the handshake came in pieces.
EndsForACause ==
  Gone => \/ link # "open"
          \/ exit_signal
          \/ taken < RequestBytes
          \/ at # 0 /\ Refused(sent[at])

Answered(k) == sent[k].reply > 0 /\ ~TooLong(sent[k].reply)

\* The client has the whole answer to frame k.
HasAnswer(k) ==
  LET i == Cardinality({j \in 1 .. k : Answered(j)})
  IN /\ i \in DOMAIN answers
     /\ fetched >= answers[i].from + answers[i].header.bytes + sent[k].reply

\* A command is executed and its answer arrives, unless something refused comes
\* before it or one side goes.  Only an answer too long for the send buffer, which is
\* dropped without a word, leaves a client waiting.
CommandsAreAnswered ==
  \A k \in 1 .. MaxFrames :
     (k \in DOMAIN sent /\ \A j \in 1 .. k : ~Refused(sent[j]))
       ~> \/ k \in DOMAIN executed /\ (Answered(k) => HasAnswer(k))
          \/ Gone \/ link # "open"

\* A connection that is closed, reset or shut down ends its session, wherever it stands.
LostConnectionEnds == link # "open" ~> Gone

=============================================================================
