----------------------- MODULE WebSocketSessionProofs -----------------------
(***************************************************************************)
(* Proofs about WebSocketSession for any frames, any limits of the two     *)
(* buffers and any number of frames: whatever the kernel delivers in one   *)
(* read or takes in one write, both sides of the connection stay on the    *)
(* frames of the other.                                                    *)
(***************************************************************************)
EXTENDS WebSocketSession, SequenceTheorems, TLAPS

-----------------------------------------------------------------------------
(* The inductive invariant                                                 *)

\* Where frame k of the client begins, or will begin.
Start(k) == IF k \in 1 .. Len(sent) THEN bounds[k] ELSE StreamEnd

\* The frames follow each other, behind the request of the handshake, and the
\* client has put no byte of what it has not sent.
BoundsInv ==
  /\ Len(bounds) = Len(sent)
  /\ Start(1) = RequestBytes
  /\ \A k \in 1 .. Len(sent) : Start(k + 1) = bounds[k] + FrameSize(sent[k])
  /\ \A j, k \in 1 .. Len(sent) : j < k => bounds[j] < bounds[k]
  /\ put <= StreamEnd

\* The client sends its first frame after the answer to its request.
HandshakeInv ==
  /\ client = "connecting" => sent = <<>>
  /\ session \in {"handshake", "accept"} => executed = <<>> /\ answers = <<>>
  /\ session = "handshake" =>
       client \in {"connecting", "gone"} /\ sent = <<>> /\ taken = 0 /\ written = 0
  /\ session = "accept" => taken = RequestBytes

\* The frame the session is at, or waits for: the one after those executed.
Current == Len(executed) + 1

\* What the session has read of it begins where the frame does, and what it
\* still wants is the rest of the header or of the frame.
PlaceInv ==
  /\ Len(executed) <= Len(sent)
  /\ session = "answer" => taken = Start(Current)
  /\ session = "header" =>
       /\ taken - read_str_len = Start(Current)
       /\ read_str_len + want = 6
  /\ session \in {"length", "payload"} =>
       /\ at = Current /\ at <= Len(sent)
       /\ frame = sent[at] /\ frame.opcode = "data"
       /\ taken - read_str_len = bounds[at]
  /\ session = "length" =>
       /\ frame.payload > SmallStream
       /\ read_str_len + want = HeaderSize(frame.payload)
  /\ session = "payload" =>
       /\ ~TooLarge(frame.payload)
       /\ read_str_len + want = FrameSize(frame)

\* Where the answer after answer i begins.
AnswerEnd(i) == answers[i].from + answers[i].header.bytes + Announced(answers[i].header)

\* The answers follow each other, and between two the session owes nothing.
AnswersInv ==
  /\ AnswersInPlace
  /\ Reading /\ answers # <<>> => written = AnswerEnd(Len(answers))

\* A session leaves the loop for a cause.
EndInv ==
  /\ EndsForACause
  /\ connection_closed => Gone
  /\ session = "closing" => exit_signal

WsInv ==
  /\ TypeOK /\ BoundsInv /\ HandshakeInv /\ PlaceInv /\ ExecutedInOrder
  /\ AnswersInv /\ EndInv

-----------------------------------------------------------------------------
(* Frames and where they begin                                             *)

\* The three headers.
LEMMA HeaderSizes ==
  ASSUME NEW n \in Nat
  PROVE  /\ HeaderSize(n) \in {6, 8, 14}
         /\ n <= SmallStream <=> HeaderSize(n) = 6
  BY WebSocketAssumption DEF HeaderSize

\* A frame of the client is longer than nothing.
LEMMA FrameSizes ==
  ASSUME NEW f \in Frames
  PROVE  /\ f.opcode \in {"data", "close", "other"}
         /\ f.payload \in Nat /\ f.reply \in Nat
         /\ FrameSize(f) \in Nat /\ FrameSize(f) >= 6
         /\ FrameSize(f) = HeaderSize(f.payload) + f.payload
<1>1. f \in Frame
  BY WebSocketAssumption
<1>2. f.payload \in Nat /\ f.reply \in Nat /\ f.opcode \in {"data", "close", "other"}
  BY <1>1 DEF Frame
<1> QED
  BY <1>2, HeaderSizes DEF FrameSize

\* The stream of the client ends behind the last frame.
LEMMA Starts ==
  ASSUME TypeOK, BoundsInv
  PROVE  /\ Len(sent) \in Nat /\ StreamEnd \in Nat
         /\ \A k \in 1 .. Len(sent) :
              /\ sent[k] \in Frames /\ bounds[k] \in Nat
              /\ Start(k) = bounds[k] /\ bounds[k] < StreamEnd
              /\ Start(k + 1) \in Nat
         /\ Start(Len(sent) + 1) = StreamEnd
<1>1. /\ sent \in Seq(Frames) /\ bounds \in Seq(Nat) /\ Len(sent) \in Nat
      /\ Len(bounds) = Len(sent)
  BY DEF TypeOK, BoundsInv
<1>2. \A k \in 1 .. Len(sent) : sent[k] \in Frames /\ bounds[k] \in Nat
  BY <1>1, ElementOfSeq
<1>3. \A k \in 1 .. Len(sent) : FrameSize(sent[k]) \in Nat /\ FrameSize(sent[k]) >= 6
  BY <1>2, FrameSizes
<1>4. CASE sent = <<>>
  BY <1>1, <1>4, EmptySeq, WebSocketAssumption DEF StreamEnd, Start
<1>5. CASE sent # <<>>
  <2>1. Len(sent) \in 1 .. Len(sent)
    BY <1>1, <1>5, EmptySeq
  <2>2. StreamEnd = bounds[Len(sent)] + FrameSize(sent[Len(sent)])
    BY <1>5 DEF StreamEnd
  <2>3. StreamEnd \in Nat /\ bounds[Len(sent)] < StreamEnd
    BY <1>2, <1>3, <2>1, <2>2
  <2>4. \A k \in 1 .. Len(sent) : k # Len(sent) => bounds[k] < bounds[Len(sent)]
    BY <1>1, <2>1 DEF BoundsInv
  <2>5. \A k \in 1 .. Len(sent) : bounds[k] < StreamEnd
    BY <1>1, <1>2, <2>1, <2>3, <2>4
  <2>6. \A k \in 1 .. Len(sent) : Start(k) = bounds[k] /\ Start(k + 1) \in Nat
    BY <1>1, <1>2, <2>3 DEF Start
  <2>7. Start(Len(sent) + 1) = StreamEnd
    BY <1>1 DEF Start
  <2> QED
    BY <1>1, <1>2, <2>3, <2>5, <2>6, <2>7
<1> QED
  BY <1>4, <1>5

\* A header that was read in place is that of the frame the session waits for.
LEMMA HereIsCurrent ==
  ASSUME TypeOK, BoundsInv, PlaceInv, session = "header", want = 0
  PROVE  Current \in 1 .. Len(sent) /\ Here = {Current}
<1>1. /\ taken - read_str_len = Start(Current)
      /\ read_str_len = 6 /\ taken \in Nat /\ taken <= StreamEnd
      /\ Len(executed) \in Nat /\ Len(executed) <= Len(sent)
  <2>1. taken \in Nat /\ put \in Nat /\ taken <= put /\ read_str_len \in Nat
    BY DEF TypeOK
  <2>2. put <= StreamEnd /\ StreamEnd \in Nat
    BY Starts DEF BoundsInv
  <2>3. /\ taken - read_str_len = Start(Current) /\ read_str_len + want = 6
        /\ Len(executed) <= Len(sent) /\ Len(executed) \in Nat
    BY DEF PlaceInv, TypeOK
  <2>4. read_str_len = 6
    BY <2>1, <2>3
  <2>5. taken <= StreamEnd
    BY <2>1, <2>2
  <2> QED
    BY <2>1, <2>3, <2>4, <2>5
<1>2. Current \in 1 .. Len(sent)
  <2>1. Current \in 1 .. Len(sent) + 1 /\ Len(sent) \in Nat
    BY <1>1, Starts DEF Current
  <2>2. ASSUME Current = Len(sent) + 1 PROVE FALSE
    <3>1. Start(Current) = StreamEnd /\ StreamEnd \in Nat
      BY <2>2, Starts
    <3> QED
      BY <1>1, <3>1
  <2> QED
    BY <2>1, <2>2
<1>3. DOMAIN bounds = 1 .. Len(sent)
  BY DEF TypeOK, BoundsInv
<1>4. taken - read_str_len = bounds[Current]
  BY <1>1, <1>2, Starts
<1>5. \A k \in 1 .. Len(sent) : bounds[k] = bounds[Current] => k = Current
  BY <1>2, Starts DEF BoundsInv
<1> QED
  BY <1>2, <1>3, <1>4, <1>5 DEF Here

\* A step of the session leaves the frames where they are.
LEMMA FramesStay ==
  ASSUME UNCHANGED <<sent, bounds>>
  PROVE  StreamEnd' = StreamEnd /\ \A k : Start(k)' = Start(k)
  BY DEF StreamEnd, Start

-----------------------------------------------------------------------------
(* The client                                                              *)

\* It sends a frame,
LEMMA SendFrameStep ==
  ASSUME WsInv, NEW f \in Frames, SendFrame(f)
  PROVE  WsInv'
<1> USE DEF WsInv
<1>0. PICK n \in Nat : n = Len(sent)
  BY DEF TypeOK
<1>1. /\ sent \in Seq(Frames) /\ bounds \in Seq(Nat) /\ Len(sent) = n /\ Len(bounds) = n
      /\ StreamEnd \in Nat
  BY <1>0, Starts DEF TypeOK, BoundsInv
<1>2. /\ sent' \in Seq(Frames) /\ Len(sent') = n + 1 /\ sent'[n + 1] = f
      /\ \A k \in 1 .. n : sent'[k] = sent[k]
  BY <1>1 DEF SendFrame
<1>3. /\ bounds' \in Seq(Nat) /\ Len(bounds') = n + 1 /\ bounds'[n + 1] = StreamEnd
      /\ \A k \in 1 .. n : bounds'[k] = bounds[k]
  BY <1>1 DEF SendFrame
<1>4. StreamEnd' = StreamEnd + FrameSize(f)
  <2>1. sent' # <<>>
    BY <1>1, <1>2, EmptySeq
  <2> QED
    BY <1>2, <1>3, <2>1 DEF StreamEnd
<1>5. /\ \A k \in 1 .. n + 1 : Start(k)' = Start(k)
      /\ Start(n + 2)' = StreamEnd'
  <2>1. Start(n + 1) = StreamEnd /\ \A k \in 1 .. n : Start(k) = bounds[k]
    BY <1>1 DEF Start
  <2>2. \A k : Start(k)' = IF k \in 1 .. n + 1 THEN bounds'[k] ELSE StreamEnd'
    BY <1>2 DEF Start
  <2>3. n + 2 \notin 1 .. n + 1
    BY <1>1
  <2> QED
    BY <1>1, <1>3, <2>1, <2>2, <2>3
<1>6. BoundsInv'
  <2>1. Start(1)' = RequestBytes
    BY <1>1, <1>5 DEF BoundsInv
  <2>2. \A k \in 1 .. n + 1 : Start(k + 1)' = bounds'[k] + FrameSize(sent'[k])
    <3> SUFFICES ASSUME NEW k \in 1 .. n + 1
                 PROVE  Start(k + 1)' = bounds'[k] + FrameSize(sent'[k])
      OBVIOUS
    <3>1. CASE k = n + 1
      <4>1. k + 1 = n + 2
        BY <1>1, <3>1
      <4> QED
        BY <1>2, <1>3, <1>4, <1>5, <3>1, <4>1
    <3>2. CASE k # n + 1
      <4>1. k \in 1 .. n /\ k + 1 \in 1 .. n + 1
        BY <1>1, <3>2
      <4>2. Start(k + 1) = bounds[k] + FrameSize(sent[k])
        BY <1>1, <4>1 DEF BoundsInv
      <4>3. \A j \in 1 .. n + 1 : Start(j)' = Start(j)
        BY <1>5
      <4>4. Start(k + 1)' = Start(k + 1)
        BY <4>1, <4>3
      <4> QED
        BY <1>2, <1>3, <4>1, <4>2, <4>4
    <3> QED
      BY <3>1, <3>2
  <2>3. \A j, k \in 1 .. n + 1 : j < k => bounds'[j] < bounds'[k]
    <3>1. \A j \in 1 .. n : bounds[j] < StreamEnd
      BY <1>0, Starts
    <3>2. \A j, k \in 1 .. n : j < k => bounds[j] < bounds[k]
      BY <1>1 DEF BoundsInv
    <3>3. SUFFICES ASSUME NEW j \in 1 .. n + 1, NEW k \in 1 .. n + 1, j < k
                   PROVE  bounds'[j] < bounds'[k]
      OBVIOUS
    <3>4. j \in 1 .. n /\ (k = n + 1 \/ k \in 1 .. n)
      BY <1>1, <3>3
    <3> QED
      BY <1>3, <3>1, <3>2, <3>3, <3>4
  <2>4. put' <= StreamEnd'
    BY <1>1, <1>4, FrameSizes DEF BoundsInv, TypeOK, SendFrame
  <2> QED
    BY <1>2, <1>3, <2>1, <2>2, <2>3, <2>4 DEF BoundsInv
<1>7. /\ client = "open" /\ client' \in {"open", "closing"}
      /\ UNCHANGED <<put, fetched, link, serverVars>>
  BY DEF SendFrame
<1>8. TypeOK'
  BY <1>1, <1>2, <1>3, <1>7
  DEF TypeOK, serverVars, readVars, sendVars, Reading
<1>9. HandshakeInv'
  BY <1>7 DEF HandshakeInv, serverVars, readVars, sendVars
<1>10. Len(executed) \in Nat /\ Len(executed) <= n /\ at \in Nat /\ at <= n
  BY <1>0 DEF PlaceInv, TypeOK
<1>11. PlaceInv'
  <2>1. UNCHANGED <<session, executed, taken, read_str_len, want, at, frame, Current>>
    BY <1>7 DEF serverVars, readVars, Current
  <2>2. Current \in 1 .. n + 1 /\ Start(Current)' = Start(Current)
    <3>1. Current \in 1 .. n + 1
      BY <1>1, <1>10 DEF Current
    <3>2. Start(Current)' = Start(Current)
      <4>1. Current' = Current /\ \A k \in 1 .. n + 1 : Start(k)' = Start(k)
        BY <1>5, <2>1
      <4> QED
        BY <3>1, <4>1, Zenon
    <3> QED
      BY <3>1, <3>2
  <2>3. session \in {"length", "payload"} => at \in 1 .. n
    BY <1>10, <2>2 DEF PlaceInv
  <2>4. \A k \in 1 .. n : sent'[k] = sent[k] /\ bounds'[k] = bounds[k]
    BY <1>2, <1>3
  <2>5. Start(Current)' = Start(Current)
    BY <2>2
  <2>6. session = "answer" => taken' = Start(Current)'
    BY <2>1, <2>5 DEF PlaceInv
  <2>7. session = "header" => (taken' - read_str_len' = Start(Current)'
                               /\ read_str_len' + want' = 6)
    BY <2>1, <2>5 DEF PlaceInv
  <2>8. session \in {"length", "payload"} =>
          /\ at' = Current' /\ at' <= n + 1
          /\ frame' = sent'[at'] /\ frame'.opcode = "data"
          /\ taken' - read_str_len' = bounds'[at']
    BY <1>10, <2>1, <2>3, <2>4 DEF PlaceInv
  <2> QED
    BY <1>2, <1>10, <2>1, <2>6, <2>7, <2>8 DEF PlaceInv, TooLarge
<1>12. ExecutedInOrder'
  <2>1. UNCHANGED <<executed, taken>> /\ DOMAIN executed = 1 .. Len(executed)
    BY <1>7 DEF serverVars, readVars, TypeOK
  <2> QED
    BY <1>2, <1>3, <1>10, <2>1 DEF ExecutedInOrder
<1>13. AnswersInv'
  BY <1>7 DEF AnswersInv, AnswersInPlace, AnswerEnd, serverVars, sendVars, Reading
<1>14. EndInv'
  <2>1. at # 0 => sent'[at] = sent[at]
    BY <1>2, <1>10
  <2> QED
    BY <1>7, <2>1 DEF EndInv, EndsForACause, Gone, serverVars, readVars
<1> QED
  BY <1>6, <1>8, <1>9, <1>11, <1>12, <1>13, <1>14

\* ... its kernel sends and receives, and it leaves.
LEMMA ClientStep ==
  ASSUME WsInv, Client
  PROVE  WsInv'
<1> USE DEF WsInv
<1>1. CASE \E f \in Frames : SendFrame(f)
  BY <1>1, SendFrameStep
<1>2. CASE Put \/ Fetch \/ Leave
  <2>1. UNCHANGED <<sent, bounds, serverVars>>
    BY <1>2 DEF Put, Fetch, Leave
  <2>2. StreamEnd' = StreamEnd /\ \A k : Start(k)' = Start(k)
    BY <2>1, FramesStay
  <2>3. /\ put' \in Nat /\ taken <= put' /\ put' <= StreamEnd /\ put' - taken <= Capacity
        /\ fetched' \in 0 .. written /\ written - fetched' <= Capacity
    <3>1. /\ put \in Nat /\ taken \in Nat /\ taken <= put /\ put - taken <= Capacity
          /\ written \in Nat /\ fetched \in Nat /\ fetched <= written
          /\ written - fetched <= Capacity /\ StreamEnd \in Nat /\ put <= StreamEnd
          /\ Capacity \in Nat
      <4>1. StreamEnd \in Nat
        BY Starts
      <4>2. Capacity \in Nat
        BY WebSocketAssumption
      <4> QED
        BY <4>1, <4>2 DEF TypeOK, BoundsInv
    <3>2. CASE Put
      <4>1. PICK n \in 1 .. LowerOf(StreamEnd - put, Capacity - (put - taken)) :
                 put' = put + n
        BY <3>2 DEF Put
      <4>2. n \in Nat /\ n <= StreamEnd - put /\ n <= Capacity - (put - taken)
        BY <3>1 DEF LowerOf
      <4>3. fetched' = fetched
        BY <3>2 DEF Put
      <4> QED
        BY <3>1, <4>1, <4>2, <4>3
    <3>3. CASE Fetch
      <4>1. PICK n \in 1 .. written - fetched : fetched' = fetched + n
        BY <3>3 DEF Fetch
      <4>2. put' = put
        BY <3>3 DEF Fetch
      <4> QED
        BY <3>1, <4>1, <4>2
    <3>4. CASE Leave
      BY <3>1, <3>4 DEF Leave
    <3> QED
      BY <1>2, <3>2, <3>3, <3>4
  <2>4. /\ client' \in {"connecting", "open", "closing", "gone"}
        /\ link' \in {"open", "closed", "reset", "shut", "dropped"}
        /\ link # "open" => link' # "open"
    BY <1>2 DEF Put, Fetch, Leave, Stopping, TypeOK
  <2>5. TypeOK'
    BY <2>1, <2>3, <2>4 DEF TypeOK, serverVars, readVars, sendVars, Reading
  <2>6. BoundsInv'
    BY <2>1, <2>2, <2>3 DEF BoundsInv
  <2>7. HandshakeInv'
    <3>1. client' = client \/ client' = "gone"
          \/ (client = "connecting" /\ client' = "open" /\ written >= AcceptBytes)
      <4>1. CASE Fetch
        <5>1. fetched' >= AcceptBytes => written >= AcceptBytes
          <6>1. written \in Nat /\ AcceptBytes \in Nat
            BY WebSocketAssumption DEF TypeOK
          <6> QED
            BY <2>3, <6>1
        <5>2. client' = client
              \/ (client = "connecting" /\ fetched' >= AcceptBytes /\ client' = "open")
          BY <4>1 DEF Fetch
        <5> QED
          BY <5>1, <5>2
      <4> QED
        BY <1>2, <4>1 DEF Put, Leave
    <3>2. ~(session = "handshake" /\ written >= AcceptBytes)
      BY WebSocketAssumption DEF HandshakeInv
    <3>3. UNCHANGED <<sent, session, taken, written, executed, answers>>
      BY <2>1 DEF serverVars, readVars, sendVars
    <3> QED
      BY <3>1, <3>2, <3>3 DEF HandshakeInv
  <2>8. PlaceInv'
    BY <2>1, <2>2 DEF PlaceInv, Current, TooLarge, serverVars, readVars
  <2>9. ExecutedInOrder' /\ AnswersInv'
    BY <2>1 DEF ExecutedInOrder, AnswersInv, AnswersInPlace, AnswerEnd, serverVars,
                readVars, sendVars, Reading
  <2>10. EndInv'
    BY <2>1, <2>4 DEF EndInv, EndsForACause, Gone, serverVars, readVars
  <2> QED
    BY <2>5, <2>6, <2>7, <2>8, <2>9, <2>10
<1> QED
  BY <1>1, <1>2 DEF Client

-----------------------------------------------------------------------------
(* The session                                                             *)

\* No step of the session moves a frame.
LEMMA SessionKeepsFrames ==
  ASSUME WsInv, UNCHANGED clientVars
  PROVE  /\ UNCHANGED <<client, sent, bounds, put, fetched>>
         /\ StreamEnd' = StreamEnd /\ \A k : Start(k)' = Start(k)
         /\ BoundsInv'
<1>1. UNCHANGED <<client, sent, bounds, put, fetched>>
  BY DEF clientVars
<1>2. StreamEnd' = StreamEnd /\ \A k : Start(k)' = Start(k)
  BY <1>1, FramesStay
<1> QED
  BY <1>1, <1>2 DEF BoundsInv, WsInv

\* The numbers the session counts with.
LEMMA Counts ==
  ASSUME WsInv
  PROVE  /\ put \in Nat /\ taken \in Nat /\ taken <= put /\ put - taken <= Capacity
         /\ written \in Nat /\ fetched \in Nat /\ fetched <= written
         /\ written - fetched <= Capacity /\ Capacity \in Nat
         /\ read_str_len \in Nat /\ want \in Nat /\ owed \in Nat /\ at \in Nat
         /\ Len(executed) \in Nat /\ Len(sent) \in Nat /\ Len(executed) <= Len(sent)
         /\ at <= Len(sent)
         /\ ReadStrLen \in Nat /\ Margin \in Nat /\ 14 <= Margin /\ Margin <= ReadStrLen
         /\ SendBufLen \in Nat /\ SmallStream \in Nat /\ MediumMax \in Nat
         /\ SmallStream < MediumMax
         /\ DOMAIN executed = 1 .. Len(executed) /\ DOMAIN answers = 1 .. Len(answers)
         /\ Len(answers) \in Nat
<1>1. /\ ReadStrLen \in Nat /\ Margin \in Nat /\ 14 <= Margin /\ Margin <= ReadStrLen
      /\ SendBufLen \in Nat /\ SmallStream \in Nat /\ MediumMax \in Nat
      /\ SmallStream < MediumMax /\ Capacity \in Nat
  BY WebSocketAssumption
<1>2. Len(executed) <= Len(sent)
  BY DEF WsInv, PlaceInv
<1> QED
  BY <1>1, <1>2 DEF WsInv, TypeOK

\* What was executed stays executed as the session reads on.
LEMMA ExecutedStays ==
  ASSUME WsInv, UNCHANGED <<sent, bounds, executed>>, taken' \in Nat, taken <= taken'
  PROVE  ExecutedInOrder'
<1>1. Len(executed) \in Nat /\ Len(executed) <= Len(sent) /\ Len(sent) \in Nat
      /\ DOMAIN executed = 1 .. Len(executed) /\ taken \in Nat
  BY Counts
<1>2. SUFFICES ASSUME NEW i \in DOMAIN executed
               PROVE  /\ executed[i] = i
                      /\ bounds[i] + FrameSize(sent[i]) <= taken'
                      /\ ~Refused(sent[i])
  BY DEF ExecutedInOrder, Refused, TooLarge, FrameSize, HeaderSize
<1>3. i \in 1 .. Len(sent)
  BY <1>1
<1>4. bounds[i] \in Nat /\ FrameSize(sent[i]) \in Nat
  <2>1. sent[i] \in Frames /\ bounds[i] \in Nat
    BY <1>3, Starts DEF WsInv
  <2> QED
    BY <2>1, FrameSizes
<1> QED
  BY <1>1, <1>4 DEF ExecutedInOrder, WsInv

\* What it reads leaves room in the buffer of the kernel.
LEMMA ReadsOn ==
  ASSUME WsInv, NEW t \in taken .. put
  PROVE  t \in 0 .. put /\ put - t <= Capacity /\ t \in Nat /\ taken <= t
<1>1. /\ put \in Nat /\ taken \in Nat /\ taken <= put /\ put - taken <= Capacity
      /\ Capacity \in Nat
  BY Counts
<1>2. t \in Nat /\ taken <= t /\ t <= put
  BY <1>1
<1> QED
  BY <1>1, <1>2

\* The session leaves the loop, with a close frame or without.
LEMMA LeavesStep ==
  ASSUME WsInv, UNCHANGED clientVars, UNCHANGED <<exit_signal, answers, written>>,
         executed' \in Seq(Nat), Len(executed') <= Len(sent), ExecutedInOrder',
         session' \in {"closing", "ended"},
         session' = "closing" => exit_signal /\ ~connection_closed',
         connection_closed' \in BOOLEAN,
         link' \in {"open", "closed", "reset", "shut", "dropped"},
         taken' \in taken .. put,
         read_str_len' \in Nat, want' \in Nat, owed' \in Nat,
         frame' \in Frames \cup {NoFrame}, at' \in 0 .. Len(sent),
         \/ link' # "open" \/ exit_signal \/ taken' < RequestBytes
         \/ at' # 0 /\ Refused(sent[at'])
  PROVE  WsInv'
<1>1. /\ UNCHANGED <<client, sent, bounds, put, fetched>>
      /\ StreamEnd' = StreamEnd /\ \A k : Start(k)' = Start(k)
      /\ BoundsInv'
  BY SessionKeepsFrames
<1>2. taken' \in 0 .. put /\ put - taken' <= Capacity /\ taken' \in Nat /\ taken <= taken'
  BY ReadsOn
<1>3. TypeOK'
  BY <1>1, <1>2 DEF WsInv, TypeOK, Reading
<1>4. HandshakeInv' /\ PlaceInv'
  <2>1. client = "connecting" => sent = <<>>
    BY DEF WsInv, HandshakeInv
  <2>2. HandshakeInv'
    BY <1>1, <2>1 DEF HandshakeInv
  <2>3. PlaceInv'
    BY <1>1 DEF PlaceInv
  <2> QED
    BY <2>2, <2>3
<1>5. ExecutedInOrder'
  OBVIOUS
<1>6. AnswersInv'
  BY DEF WsInv, AnswersInv, AnswersInPlace, AnswerEnd, Reading
<1>7. EndInv'
  <2>1. connection_closed' => session' = "ended"
    OBVIOUS
  <2>2. session' = "closing" => exit_signal'
    OBVIOUS
  <2>3. EndsForACause'
    <3>1. CASE link' # "open" \/ exit_signal \/ taken' < RequestBytes
      BY <3>1 DEF EndsForACause
    <3>2. CASE at' # 0 /\ Refused(sent[at'])
      <4>1. at' # 0 /\ Refused(sent'[at'])
        BY <1>1, <3>2
      <4> QED
        BY <4>1 DEF EndsForACause
    <3> QED
      BY <3>1, <3>2
  <2> QED
    BY <2>1, <2>2, <2>3 DEF EndInv, Gone
<1> QED
  BY <1>1, <1>3, <1>4, <1>5, <1>6, <1>7 DEF WsInv

\* A command that cannot be read ends the session.
LEMMA FailingStep ==
  ASSUME WsInv, Reading, NEW closed \in BOOLEAN, Failing(closed),
         link' \in {"open", "closed", "reset", "shut", "dropped"},
         link' # "open" \/ exit_signal \/ (at # 0 /\ Refused(sent[at]))
  PROVE  WsInv'
<1>1. /\ session' \in {"closing", "ended"} /\ owed' \in {owed, 2}
      /\ session' = "closing" => exit_signal /\ ~closed
  BY DEF Failing, CommandFails, ExitSession
<1>2. /\ connection_closed' = closed
      /\ UNCHANGED <<clientVars, readVars, exit_signal, executed, answers, written>>
  BY DEF Failing
<1>3. /\ frame' \in Frames \cup {NoFrame} /\ at' \in 0 .. Len(sent)
      /\ read_str_len' \in Nat /\ want' \in Nat /\ owed' \in Nat
      /\ taken' \in taken .. put /\ at' = at
  BY <1>1, <1>2, Counts DEF WsInv, TypeOK, readVars
<1>4. executed' \in Seq(Nat) /\ Len(executed') <= Len(sent)
  BY <1>2, Counts DEF WsInv, TypeOK
<1>5. ExecutedInOrder'
  BY <1>2, <1>3, Counts, ExecutedStays DEF clientVars, readVars
<1> QED
  BY <1>1, <1>2, <1>3, <1>4, <1>5, LeavesStep

\* The session goes to its next command, or leaves because it was told to.
LEMMA NextCommandStep ==
  ASSUME WsInv, ~Gone, UNCHANGED clientVars, NextCommand,
         UNCHANGED <<link, taken, frame, at, connection_closed, exit_signal, answers, written>>,
         executed' \in Seq(Nat), Len(executed') <= Len(sent), ExecutedInOrder',
         taken = Start(Len(executed') + 1),
         answers # <<>> => written = AnswerEnd(Len(answers))
  PROVE  WsInv'
<1>1. connection_closed = FALSE
  BY DEF WsInv, EndInv, TypeOK
<1>2. /\ 0 + 6 <= ReadStrLen /\ 0 + 6 = 6
      /\ taken \in Nat /\ taken - 0 = taken
  <2>1. ReadStrLen \in Nat /\ Margin \in Nat /\ 14 <= Margin /\ Margin <= ReadStrLen
        /\ taken \in Nat
    BY Counts
  <2> QED
    BY <2>1
<1>3. PICK e \in Nat : e = Len(executed')
  OBVIOUS
<1>4. CASE exit_signal
  <2>1. session' = "closing" /\ owed' = 2 /\ UNCHANGED <<read_str_len, want>>
    BY <1>1, <1>4 DEF NextCommand, ExitSession
  <2>2. /\ frame' \in Frames \cup {NoFrame} /\ at' \in 0 .. Len(sent)
        /\ read_str_len' \in Nat /\ want' \in Nat /\ owed' \in Nat
        /\ taken' \in taken .. put /\ link' \in {"open", "closed", "reset", "shut", "dropped"}
    BY <2>1, Counts DEF WsInv, TypeOK
  <2> QED
    BY <1>1, <1>4, <2>1, <2>2, LeavesStep
<1>5. CASE ~exit_signal
  <2>1. session' = "header" /\ read_str_len' = 0 /\ want' = 6 /\ owed' = 0
    BY <1>1, <1>5 DEF NextCommand
  <2>2. /\ UNCHANGED <<client, sent, bounds, put, fetched>>
        /\ StreamEnd' = StreamEnd /\ \A k : Start(k)' = Start(k)
        /\ BoundsInv'
    BY SessionKeepsFrames
  <2>3. 0 + 6 <= ReadStrLen
    BY <1>2
  <2>4. TypeOK'
    BY <2>1, <2>2, <2>3 DEF WsInv, TypeOK
  <2>5. HandshakeInv'
    BY <2>1, <2>2 DEF WsInv, HandshakeInv
  <2>6. PlaceInv'
    <3>1. Start(e + 1)' = Start(e + 1)
      BY <2>2
    <3>2. Current' = e + 1
      BY <1>3 DEF Current
    <3>3. Start(Current)' = taken
      BY <1>3, <3>1, <3>2
    <3>4. taken' - read_str_len' = Start(Current)' /\ read_str_len' + want' = 6
      BY <1>2, <2>1, <3>3
    <3> QED
      BY <2>1, <2>2, <3>4 DEF PlaceInv
  <2>7. AnswersInv'
    BY <2>1 DEF WsInv, AnswersInv, AnswersInPlace, AnswerEnd
  <2>8. EndInv'
    BY <1>1, <2>1 DEF EndInv, EndsForACause, Gone
  <2> QED
    BY <2>2, <2>4, <2>5, <2>6, <2>7, <2>8 DEF WsInv
<1> QED
  BY <1>4, <1>5

\* The request is taken as a whole, or the session ends.
LEMMA HandshakeStep ==
  ASSUME WsInv, Handshake \/ HandshakeFails
  PROVE  WsInv'
<1>1. session = "handshake" /\ UNCHANGED clientVars
  BY DEF Handshake, HandshakeFails
<1>2. /\ sent = <<>> /\ taken = 0 /\ executed = <<>> /\ answers = <<>>
      /\ client \in {"connecting", "gone"} /\ put <= RequestBytes /\ RequestBytes \in Nat
  <2>1. sent = <<>> => StreamEnd = RequestBytes
    BY DEF StreamEnd
  <2> QED
    BY <1>1, <2>1, WebSocketAssumption DEF WsInv, HandshakeInv, BoundsInv
<1>3. connection_closed = FALSE
  BY <1>1 DEF WsInv, EndInv, TypeOK, Gone
<1>4. UNCHANGED executed /\ executed' \in Seq(Nat) /\ Len(executed') <= Len(sent)
  BY Counts DEF WsInv, TypeOK, Handshake, HandshakeFails
<1>5. taken' \in taken .. put
  <2>1. taken' \in {taken, put}
    BY DEF Handshake, HandshakeFails, readVars
  <2>2. taken \in Nat /\ put \in Nat /\ taken <= put
    BY Counts
  <2> QED
    BY <2>1, <2>2
<1>6. ExecutedInOrder'
  BY <1>1, <1>4, <1>5, Counts, ExecutedStays DEF clientVars
<1>7. /\ UNCHANGED <<exit_signal, answers, written, link, want, frame, at>>
      /\ connection_closed' \in BOOLEAN
      /\ link' \in {"open", "closed", "reset", "shut", "dropped"} /\ want' \in Nat
      /\ frame' \in Frames \cup {NoFrame} /\ at' \in 0 .. Len(sent)
  BY DEF WsInv, TypeOK, Handshake, HandshakeFails, EndOfStream, readVars, sendVars
<1>8. put - taken \in Nat /\ owed \in Nat /\ read_str_len \in Nat
  <2>1. /\ put \in Nat /\ taken \in Nat /\ taken <= put
        /\ owed \in Nat /\ read_str_len \in Nat
    BY Counts
  <2> QED
    BY <2>1
<1>9. CASE HandshakeFails
  <2>1. session' = "ended" /\ link' # "open" /\ read_str_len' \in Nat /\ owed' \in Nat
    BY <1>9, <1>8 DEF HandshakeFails, EndOfStream, ReadFails, readVars, sendVars
  <2> QED
    BY <1>1, <1>4, <1>5, <1>6, <1>7, <2>1, LeavesStep
<1>10. CASE Handshake /\ put - taken < RequestBytes
  <2>1. session' = "ended" /\ owed' \in Nat /\ read_str_len' \in Nat /\ taken' = put
    BY <1>10, <1>8 DEF Handshake
  <2>2. taken' < RequestBytes
    BY <1>2, <1>10, <2>1, Counts
  <2> QED
    BY <1>1, <1>4, <1>5, <1>6, <1>7, <2>1, <2>2, LeavesStep
<1>11. CASE Handshake /\ ~(put - taken < RequestBytes)
  <2>1. /\ session' = "accept" /\ owed' = AcceptBytes /\ taken' = put
        /\ read_str_len' \in Nat /\ UNCHANGED <<connection_closed, executed>>
    BY <1>11, <1>8 DEF Handshake
  <2>2. taken' = RequestBytes
    BY <1>2, <1>11, <2>1, Counts
  <2>3. /\ UNCHANGED <<client, sent, bounds, put, fetched>>
        /\ BoundsInv'
    BY <1>1, SessionKeepsFrames
  <2>4. taken' \in 0 .. put' /\ put' - taken' <= Capacity
    BY <1>5, <2>3, ReadsOn
  <2>5. owed' \in Nat
    BY <2>1, WebSocketAssumption
  <2>6. TypeOK'
    BY <1>7, <2>1, <2>3, <2>4, <2>5 DEF WsInv, TypeOK, Reading
  <2>7. HandshakeInv'
    BY <1>2, <1>7, <2>1, <2>2, <2>3 DEF HandshakeInv
  <2>8. PlaceInv'
    BY <2>1, <2>3, Counts DEF PlaceInv
  <2>9. AnswersInv'
    BY <1>2, <1>7, <2>1 DEF AnswersInv, AnswersInPlace, Reading
  <2>10. EndInv'
    BY <1>3, <2>1 DEF EndInv, EndsForACause, Gone
  <2> QED
    BY <1>6, <2>3, <2>6, <2>7, <2>8, <2>9, <2>10 DEF WsInv
<1> QED
  BY <1>9, <1>10, <1>11

\* One write leaves what is written and what is owed where they were together.
LEMMA WriteStep ==
  ASSUME WsInv, Write
  PROVE  WsInv'
<1>1. /\ Writing /\ UNCHANGED clientVars
      /\ UNCHANGED <<link, session, taken, read_str_len, want, frame, at>>
      /\ UNCHANGED <<connection_closed, exit_signal, executed, answers>>
  BY DEF Write, readVars
<1>2. /\ UNCHANGED <<client, sent, bounds, put, fetched>>
      /\ StreamEnd' = StreamEnd /\ \A k : Start(k)' = Start(k)
      /\ BoundsInv'
  BY <1>1, SessionKeepsFrames
<1>3. PICK n \in 1 .. LowerOf(owed, Capacity - (written - fetched)) :
           written' = written + n /\ owed' = owed - n
  BY DEF Write
<1>4. /\ written' \in Nat /\ written <= written' /\ fetched \in 0 .. written'
      /\ written' - fetched <= Capacity /\ owed' \in Nat /\ owed' <= owed
      /\ written' + owed' = written + owed
  <2>1. /\ written \in Nat /\ fetched \in Nat /\ fetched <= written
        /\ owed \in Nat /\ Capacity \in Nat
    BY Counts
  <2>2. n \in Nat /\ n <= owed /\ n <= Capacity - (written - fetched)
    BY <1>3, <2>1 DEF LowerOf
  <2> QED
    BY <1>3, <2>1, <2>2
<1>5. session = "answer" => owed' <= SendBufLen
  <2>1. session = "answer" => owed <= SendBufLen
    BY DEF WsInv, TypeOK
  <2>2. owed \in Nat /\ SendBufLen \in Nat
    BY Counts
  <2> QED
    BY <1>4, <2>1, <2>2
<1>6. TypeOK'
  BY <1>1, <1>2, <1>4, <1>5 DEF WsInv, TypeOK, Reading
<1>7. HandshakeInv'
  BY <1>1, <1>2 DEF WsInv, HandshakeInv, Writing
<1>8. PlaceInv'
  <2>1. \A k : Start(k)' = Start(k)
    BY <1>2
  <2>2. Current' = Current
    BY <1>1 DEF Current
  <2>3. Start(Current)' = Start(Current)
    BY <2>1, <2>2
  <2> QED
    BY <1>1, <1>2, <2>3 DEF WsInv, PlaceInv, Writing
<1>9. ExecutedInOrder'
  BY <1>1, <1>2, Counts, ExecutedStays
<1>10. AnswersInv'
  BY <1>1, <1>4 DEF WsInv, AnswersInv, AnswersInPlace, AnswerEnd, Reading, Writing
<1>11. EndInv'
  BY <1>1, <1>2 DEF WsInv, EndInv, EndsForACause, Gone, Writing
<1> QED
  BY <1>2, <1>6, <1>7, <1>8, <1>9, <1>10, <1>11 DEF WsInv

\* A write that fails ends the session.
LEMMA WriteFailsStep ==
  ASSUME WsInv, WriteFails
  PROVE  WsInv'
<1>1. /\ UNCHANGED clientVars /\ UNCHANGED <<exit_signal, answers, written>>
      /\ UNCHANGED <<taken, read_str_len, want, frame, at, executed>>
      /\ connection_closed' = TRUE /\ session' = "ended" /\ owed' = 0
      /\ link' \in {"closed", "reset", "shut", "dropped"}
  BY DEF WriteFails, Stopping, readVars
<1>2. executed' \in Seq(Nat) /\ Len(executed') <= Len(sent)
  BY <1>1, Counts DEF WsInv, TypeOK
<1>3. taken' \in Nat /\ taken <= taken' /\ taken' \in taken .. put
  <2>1. taken \in Nat /\ put \in Nat /\ taken <= put
    BY Counts
  <2> QED
    BY <1>1, <2>1
<1>4. ExecutedInOrder'
  BY <1>1, <1>3, ExecutedStays DEF clientVars
<1>5. /\ frame' \in Frames \cup {NoFrame} /\ at' \in 0 .. Len(sent)
      /\ read_str_len' \in Nat /\ want' \in Nat /\ owed' \in Nat
      /\ link' \in {"open", "closed", "reset", "shut", "dropped"} /\ link' # "open"
  BY <1>1 DEF WsInv, TypeOK
<1> QED
  BY <1>1, <1>2, <1>3, <1>4, <1>5, LeavesStep

\* The session wrote all of what it owed.
LEMMA WrittenStep ==
  ASSUME WsInv, Written
  PROVE  WsInv'
<1>1. /\ Writing /\ owed = 0 /\ UNCHANGED clientVars
      /\ UNCHANGED <<link, taken, frame, at, connection_closed, exit_signal, executed,
                     answers, written>>
  BY DEF Written
<1>2. executed' \in Seq(Nat) /\ Len(executed') <= Len(sent)
  BY <1>1, Counts DEF WsInv, TypeOK
<1>3. taken' \in Nat /\ taken <= taken' /\ taken' \in taken .. put
  <2>1. taken \in Nat /\ put \in Nat /\ taken <= put
    BY Counts
  <2> QED
    BY <1>1, <2>1
<1>4. ExecutedInOrder'
  BY <1>1, <1>3, ExecutedStays DEF clientVars
<1>5. CASE session = "closing"
  <2>1. session' = "ended" /\ UNCHANGED <<read_str_len, want, owed>>
    BY <1>5 DEF Written
  <2>2. exit_signal
    BY <1>5 DEF WsInv, EndInv
  <2>3. /\ frame' \in Frames \cup {NoFrame} /\ at' \in 0 .. Len(sent)
        /\ read_str_len' \in Nat /\ want' \in Nat /\ owed' \in Nat
        /\ link' \in {"open", "closed", "reset", "shut", "dropped"} /\ connection_closed' \in BOOLEAN
    BY <1>1, <2>1 DEF WsInv, TypeOK
  <2> QED
    BY <1>1, <1>2, <1>3, <1>4, <2>1, <2>2, <2>3, LeavesStep
<1>6. CASE session # "closing"
  <2>1. NextCommand /\ ~Gone
    BY <1>1, <1>6 DEF Written, Writing, Gone
  <2>2. taken = Start(Len(executed') + 1)
    <3>1. CASE session = "accept"
      <4>1. taken = RequestBytes /\ executed = <<>>
        BY <3>1 DEF WsInv, HandshakeInv
      <4>2. Len(executed') + 1 = 1
        BY <1>1, <4>1
      <4>3. Start(1) = RequestBytes
        BY DEF WsInv, BoundsInv
      <4> QED
        BY <4>1, <4>2, <4>3
    <3>2. CASE session = "answer"
      BY <1>1, <3>2 DEF WsInv, PlaceInv, Current
    <3> QED
      BY <1>1, <1>6, <3>1, <3>2 DEF Writing
  <2>3. answers # <<>> => written = AnswerEnd(Len(answers))
    <3>1. SUFFICES ASSUME answers # <<>>
                   PROVE  written = AnswerEnd(Len(answers))
      OBVIOUS
    <3>2. session = "answer"
      BY <1>1, <1>6, <3>1 DEF WsInv, HandshakeInv, Writing
    <3>3. Len(answers) \in DOMAIN answers
      BY <3>1, EmptySeq DEF WsInv, TypeOK
    <3>4. written + owed = AnswerEnd(Len(answers))
      BY <3>2, <3>3, Counts DEF WsInv, AnswersInv, AnswersInPlace, AnswerEnd
    <3> QED
      BY <1>1, <3>4, Counts
  <2> QED
    BY <1>1, <1>2, <1>4, <2>1, <2>2, <2>3, NextCommandStep
<1> QED
  BY <1>5, <1>6

\* A read that got less than was wanted leaves the rest to the next.
LEMMA ReadStep ==
  ASSUME WsInv, Read
  PROVE  WsInv'
<1>1. /\ Reading /\ UNCHANGED clientVars
      /\ UNCHANGED <<link, session, frame, at, connection_closed, exit_signal, executed>>
      /\ UNCHANGED <<answers, written, owed>>
  BY DEF Read, sendVars
<1>2. /\ UNCHANGED <<client, sent, bounds, put, fetched>>
      /\ StreamEnd' = StreamEnd /\ \A k : Start(k)' = Start(k)
      /\ BoundsInv'
  BY <1>1, SessionKeepsFrames
<1>3. PICK n \in 1 .. LowerOf(want, put - taken) :
           taken' = taken + n /\ read_str_len' = read_str_len + n /\ want' = want - n
  BY DEF Read
<1>4. /\ taken' \in Nat /\ taken <= taken' /\ taken' \in taken .. put
      /\ read_str_len' \in Nat /\ want' \in Nat
      /\ taken' - read_str_len' = taken - read_str_len
      /\ read_str_len' + want' = read_str_len + want
  <2>1. /\ taken \in Nat /\ put \in Nat /\ taken <= put
        /\ read_str_len \in Nat /\ want \in Nat
    BY Counts
  <2>2. n \in Nat /\ n <= want /\ n <= put - taken
    BY <1>3, <2>1 DEF LowerOf
  <2> QED
    BY <1>3, <2>1, <2>2
<1>5. taken' \in 0 .. put' /\ put' - taken' <= Capacity
  BY <1>2, <1>4, ReadsOn
<1>6. TypeOK'
  BY <1>1, <1>2, <1>4, <1>5 DEF WsInv, TypeOK, Reading
<1>7. HandshakeInv'
  BY <1>1, <1>2 DEF WsInv, HandshakeInv, Reading
<1>8. PlaceInv'
  <2>1. \A k : Start(k)' = Start(k)
    BY <1>2
  <2>2. Current' = Current
    BY <1>1 DEF Current
  <2>3. Start(Current)' = Start(Current)
    BY <2>1, <2>2
  <2> QED
    BY <1>1, <1>2, <1>4, <2>2, <2>3 DEF WsInv, PlaceInv, Reading, TooLarge
<1>9. ExecutedInOrder'
  BY <1>1, <1>2, <1>4, ExecutedStays
<1>10. AnswersInv'
  BY <1>1 DEF WsInv, AnswersInv, AnswersInPlace, AnswerEnd, Reading
<1>11. EndInv'
  BY <1>1, <1>2 DEF WsInv, EndInv, EndsForACause, Gone, Reading
<1> QED
  BY <1>2, <1>6, <1>7, <1>8, <1>9, <1>10, <1>11 DEF WsInv

\* Only one length is taken for an overflow, and a session reads it only as a
\* frame it refuses.
LEMMA OverflowIsRefused ==
  ASSUME WsInv, Reading, want = 0, read_str_len = OverflowLen
  PROVE  at # 0 /\ Refused(sent[at])
<1>1. read_str_len \in Nat /\ at \in Nat /\ Len(sent) \in Nat
  BY Counts
<1>2. session # "header"
  <2>1. session = "header" => read_str_len + want = 6
    BY DEF WsInv, PlaceInv
  <2> QED
    BY <1>1, <2>1, WebSocketAssumption
<1>3. session \in {"length", "payload"} /\ at = Current /\ at <= Len(sent)
      /\ frame = sent[at]
  BY <1>2 DEF WsInv, PlaceInv, Reading
<1>4. at # 0 /\ at \in 1 .. Len(sent)
  <2>1. Current # 0
    BY Counts DEF Current
  <2> QED
    BY <1>1, <1>3, <2>1
<1>5. frame \in Frames
  BY <1>3, <1>4, Starts DEF WsInv
<1>6. session # "length"
  <2>1. session = "length" => read_str_len + want = HeaderSize(frame.payload)
                              /\ frame.payload > SmallStream
    BY DEF WsInv, PlaceInv
  <2>2. frame.payload \in Nat
    BY <1>5, FrameSizes
  <2>3. HeaderSize(frame.payload) \in {6, 8, 14}
    BY <2>2, HeaderSizes
  <2> QED
    BY <1>1, <2>1, <2>3, WebSocketAssumption
<1>7. read_str_len + want = FrameSize(frame)
  BY <1>3, <1>6 DEF WsInv, PlaceInv
<1>8. FrameSize(sent[at]) = OverflowLen
  BY <1>1, <1>3, <1>7
<1> QED
  BY <1>4, <1>8 DEF Refused

\* The connection changes, or the session is told to leave, or ends because of either.
LEMMA StopStep ==
  ASSUME WsInv, session # "ended", session' \in {session, "ended"},
         link' \in {"open", "closed", "reset", "shut", "dropped"},
         exit_signal => exit_signal', exit_signal' \in BOOLEAN,
         session' # session => link' # "open" \/ exit_signal',
         UNCHANGED clientVars, UNCHANGED <<taken, read_str_len, want, frame, at>>,
         UNCHANGED <<connection_closed, executed, answers, written, owed>>
  PROVE  WsInv'
<1>1. /\ UNCHANGED <<client, sent, bounds, put, fetched>>
      /\ StreamEnd' = StreamEnd /\ \A k : Start(k)' = Start(k)
      /\ BoundsInv'
  BY SessionKeepsFrames
<1>2. TypeOK' /\ HandshakeInv'
  BY <1>1 DEF WsInv, TypeOK, HandshakeInv, Reading
<1>3. PlaceInv'
  <2>1. Current' = Current /\ \A k : Start(k)' = Start(k)
    BY <1>1 DEF Current
  <2>2. Start(Current)' = Start(Current)
    BY <2>1
  <2> QED
    BY <1>1, <2>1, <2>2 DEF WsInv, PlaceInv, TooLarge
<1>4. ExecutedInOrder'
  <2>1. taken' \in Nat /\ taken <= taken'
    <3>1. taken \in Nat
      BY Counts
    <3> QED
      BY <3>1
  <2> QED
    BY <1>1, <2>1, ExecutedStays
<1>5. AnswersInv'
  BY DEF WsInv, AnswersInv, AnswersInPlace, AnswerEnd, Reading
<1>6. EndInv'
  BY <1>1 DEF WsInv, EndInv, EndsForACause, Gone
<1> QED
  BY <1>1, <1>2, <1>3, <1>4, <1>5, <1>6 DEF WsInv

\* A read that finds no byte: the client is gone, or the kernel says so.
LEMMA ReadFailsStep ==
  ASSUME WsInv, ReadClosed \/ ReadError \/ Overflow
  PROVE  WsInv'
<1>1. CASE ReadClosed
  <2>1. /\ Reading /\ Failing(TRUE)
        /\ link' \in {"open", "closed", "reset", "shut", "dropped"} /\ link' # "open"
    BY <1>1 DEF ReadClosed, EndOfStream
  <2> QED
    BY <2>1, FailingStep
<1>2. CASE ReadError /\ read_str_len = OverflowLen
  <2>1. /\ Reading /\ Failing(connection_closed)
        /\ link' \in {"open", "closed", "reset", "shut", "dropped"} /\ link' # "open"
    BY <1>2 DEF ReadError, ReadFails
  <2>2. connection_closed \in BOOLEAN
    BY DEF WsInv, TypeOK
  <2> QED
    BY <2>1, <2>2, FailingStep
<1>3. CASE ReadError /\ read_str_len # OverflowLen
  <2>1. UNCHANGED <<clientVars, serverVars>>
        /\ link' \in {"open", "closed", "reset", "shut", "dropped"}
    BY <1>3 DEF ReadError, WsInv, TypeOK
  <2>2. session # "ended" /\ exit_signal \in BOOLEAN
    BY <1>3 DEF ReadError, Reading, WsInv, TypeOK
  <2>3. UNCHANGED <<session, taken, read_str_len, want, frame, at, connection_closed,
                    exit_signal, executed, answers, written, owed>>
    BY <2>1 DEF serverVars, readVars, sendVars
  <2> QED
    BY <2>1, <2>2, <2>3, StopStep
<1>4. CASE Overflow
  <2>1. Reading /\ want = 0 /\ read_str_len = OverflowLen
        /\ Failing(connection_closed) /\ link' = link
    BY <1>4 DEF Overflow
  <2>2. connection_closed \in BOOLEAN /\ link' \in {"open", "closed", "reset", "shut", "dropped"}
    BY <2>1 DEF WsInv, TypeOK
  <2>3. at # 0 /\ Refused(sent[at])
    BY <2>1, OverflowIsRefused
  <2> QED
    BY <2>1, <2>2, <2>3, FailingStep
<1> QED
  BY <1>1, <1>2, <1>3, <1>4

\* The header of a frame is that of the frame the session waits for: a length that is
\* served fits the buffer behind it.
LEMMA HeaderStep ==
  ASSUME WsInv, Header
  PROVE  WsInv'
<1>1. session = "header" /\ want = 0 /\ UNCHANGED clientVars
      /\ UNCHANGED <<link, taken, read_str_len, exit_signal, executed, answers, written>>
  BY DEF Header, Received
<1>2. Current \in 1 .. Len(sent) /\ Here = {Current}
  BY <1>1, HereIsCurrent DEF WsInv
<1>3. PICK c \in 1 .. Len(sent) : c = Current
  BY <1>2
<1>4. PICK f : f = sent[c]
  OBVIOUS
<1>5. c # 0 /\ c \in 0 .. Len(sent)
  BY <1>3, Counts
<1>6. /\ at' = c /\ frame' = f
      /\ connection_closed' = (f.opcode = "close")
      /\ \/ /\ f.opcode # "data"
            /\ CommandFails(f.opcode = "close")
            /\ UNCHANGED want
         \/ /\ f.opcode = "data" /\ f.payload <= SmallStream
            /\ \/ TooLarge(f.payload) /\ CommandFails(FALSE) /\ UNCHANGED want
               \/ ~TooLarge(f.payload) /\ ReceivePayload(f.payload)
         \/ /\ f.opcode = "data" /\ f.payload > SmallStream
            /\ session' = "length" /\ want' = ExtendedBytes(f.payload)
            /\ UNCHANGED owed
  BY <1>2, <1>3, <1>4, <1>5 DEF Header
<1>7. /\ f \in Frames /\ bounds[c] \in Nat /\ Start(c) = bounds[c]
      /\ f.payload \in Nat /\ f.opcode \in {"data", "close", "other"}
      /\ HeaderSize(f.payload) \in {6, 8, 14}
      /\ f.payload <= SmallStream <=> HeaderSize(f.payload) = 6
      /\ FrameSize(f) = HeaderSize(f.payload) + f.payload
  <2>1. f \in Frames /\ bounds[c] \in Nat /\ Start(c) = bounds[c]
    BY <1>4, Starts DEF WsInv
  <2>2. /\ f.payload \in Nat /\ f.opcode \in {"data", "close", "other"}
        /\ FrameSize(f) = HeaderSize(f.payload) + f.payload
    BY <2>1, FrameSizes
  <2> QED
    BY <2>1, <2>2, HeaderSizes
<1>8. /\ UNCHANGED <<client, sent, bounds, put, fetched>>
      /\ StreamEnd' = StreamEnd /\ \A k : Start(k)' = Start(k)
      /\ BoundsInv'
  BY <1>1, SessionKeepsFrames
<1>9. /\ taken' \in Nat /\ taken <= taken' /\ taken' \in taken .. put
      /\ read_str_len' \in Nat /\ want \in Nat /\ owed \in Nat
      /\ read_str_len = 6 /\ taken - read_str_len = bounds[c]
  <2>1. taken \in Nat /\ put \in Nat /\ taken <= put /\ read_str_len \in Nat
        /\ want \in Nat /\ owed \in Nat
    BY Counts
  <2>2. taken - read_str_len = Start(Current) /\ read_str_len + want = 6
    BY <1>1 DEF WsInv, PlaceInv
  <2> QED
    BY <1>1, <1>3, <1>7, <2>1, <2>2
<1>10. ExecutedInOrder' /\ executed' \in Seq(Nat) /\ Len(executed') <= Len(sent)
  <2>1. ExecutedInOrder'
    BY <1>1, <1>8, <1>9, ExecutedStays
  <2>2. executed' \in Seq(Nat) /\ Len(executed') <= Len(sent)
    BY <1>1, Counts DEF WsInv, TypeOK
  <2> QED
    BY <2>1, <2>2
<1>11. ~(f.payload <= SmallStream /\ f.payload > SmallStream)
  <2>1. SmallStream \in Nat /\ f.payload \in Nat
    BY <1>7, Counts
  <2> QED
    BY <2>1
<1>12. CASE f.opcode # "data" \/ (f.payload <= SmallStream /\ TooLarge(f.payload))
  <2>1. Refused(sent[c])
    BY <1>4, <1>12 DEF Refused
  <2>2. UNCHANGED want
    BY <1>6, <1>12, <1>11
  <2>3. /\ session' \in {"closing", "ended"} /\ owed' \in {owed, 2}
        /\ session' = "closing" => exit_signal /\ ~(f.opcode = "close")
    <3>1. CASE f.opcode # "data"
      <4>1. CommandFails(f.opcode = "close")
        BY <1>6, <3>1
      <4> QED
        BY <4>1 DEF CommandFails, ExitSession
    <3>2. CASE f.opcode = "data"
      <4>1. CommandFails(FALSE)
        BY <1>6, <1>12, <1>11, <3>2
      <4> QED
        BY <3>2, <4>1 DEF CommandFails, ExitSession
    <3> QED
      BY <3>1, <3>2
  <2>4. /\ frame' \in Frames \cup {NoFrame} /\ at' \in 0 .. Len(sent)
        /\ want' \in Nat /\ owed' \in Nat /\ at' # 0 /\ Refused(sent[at'])
        /\ link' \in {"open", "closed", "reset", "shut", "dropped"}
    BY <1>1, <1>5, <1>6, <1>7, <1>9, <2>1, <2>2, <2>3 DEF WsInv, TypeOK
  <2>5. connection_closed' \in BOOLEAN /\ session' = "closing" => ~connection_closed'
    BY <1>6, <2>3
  <2>6. connection_closed' \in BOOLEAN
    BY <1>6
  <2> QED
    BY <1>1, <1>9, <1>10, <2>3, <2>4, <2>5, <2>6, LeavesStep
<1>13. CASE f.opcode = "data" /\ ~(f.payload <= SmallStream /\ TooLarge(f.payload))
  <2>1. connection_closed' = FALSE /\ UNCHANGED owed
        /\ session' \in {"length", "payload"}
    BY <1>6, <1>13 DEF ReceivePayload
  <2>2. session' = "length" =>
          /\ f.payload > SmallStream /\ want' \in Nat
          /\ read_str_len + want' = HeaderSize(f.payload)
    <3>1. session' = "length" => f.payload > SmallStream
                                 /\ want' = HeaderSize(f.payload) - 6
      BY <1>6, <1>13 DEF ReceivePayload, ExtendedBytes
    <3>2. /\ HeaderSize(f.payload) - 6 \in Nat
          /\ 6 + (HeaderSize(f.payload) - 6) = HeaderSize(f.payload)
      BY <1>7
    <3> QED
      BY <1>9, <3>1, <3>2
  <2>3. session' = "payload" =>
          /\ ~TooLarge(f.payload) /\ want' \in Nat
          /\ read_str_len + want' = FrameSize(f)
          /\ HeaderSize(f.payload) = 6
    BY <1>6, <1>7, <1>9, <1>13 DEF ReceivePayload
  <2>4. want' \in Nat /\ read_str_len' + want' <= ReadStrLen
    <3>1. /\ ReadStrLen \in Nat /\ Margin \in Nat /\ 14 <= Margin
          /\ Margin <= ReadStrLen
      BY Counts
    <3>2. CASE session' = "length"
      BY <1>1, <1>7, <2>2, <3>1, <3>2
    <3>3. CASE session' = "payload"
      BY <1>1, <1>7, <2>3, <3>1, <3>3 DEF TooLarge
    <3> QED
      BY <2>1, <3>2, <3>3
  <2>5. taken' \in 0 .. put' /\ put' - taken' <= Capacity
    BY <1>8, <1>9, ReadsOn
  <2>6. TypeOK'
    BY <1>1, <1>5, <1>6, <1>7, <1>8, <1>9, <2>1, <2>4, <2>5 DEF WsInv, TypeOK, Reading
  <2>7. HandshakeInv'
    BY <1>1, <1>8, <2>1 DEF WsInv, HandshakeInv
  <2>8. PlaceInv'
    <3>1. Len(executed') <= Len(sent') /\ Current' = c
      BY <1>1, <1>3, <1>8, <1>10 DEF Current
    <3>2. /\ at' = Current' /\ at' <= Len(sent')
          /\ frame' = sent'[at'] /\ frame'.opcode = "data"
      BY <1>4, <1>5, <1>6, <1>8, <1>13, <3>1, Counts
    <3>3. taken' - read_str_len' = bounds'[at']
      BY <1>1, <1>6, <1>8, <1>9
    <3>4. session' = "length" =>
            /\ frame'.payload > SmallStream
            /\ read_str_len' + want' = HeaderSize(frame'.payload)
      BY <1>1, <1>6, <2>2
    <3>5. session' = "payload" =>
            /\ ~TooLarge(frame'.payload)
            /\ read_str_len' + want' = FrameSize(frame')
      BY <1>1, <1>6, <2>3
    <3>6. (~TooLarge(frame.payload))' <=> ~TooLarge(frame'.payload)
      BY DEF TooLarge
    <3>7. FrameSize(frame)' = FrameSize(frame')
          /\ HeaderSize(frame.payload)' = HeaderSize(frame'.payload)
      BY DEF FrameSize, HeaderSize
    <3> QED
      BY <2>1, <3>1, <3>2, <3>3, <3>4, <3>5, <3>6, <3>7 DEF PlaceInv
  <2>9. AnswersInv'
    BY <1>1, <2>1 DEF WsInv, AnswersInv, AnswersInPlace, AnswerEnd, Reading
  <2>10. EndInv'
    BY <2>1 DEF EndInv, EndsForACause, Gone
  <2> QED
    BY <1>8, <1>10, <2>6, <2>7, <2>8, <2>9, <2>10 DEF WsInv
<1> QED
  BY <1>12, <1>13

\* The frame a session has begun to read.
LEMMA FrameAt ==
  ASSUME WsInv, session \in {"length", "payload"}
  PROVE  /\ at = Current /\ at \in 1 .. Len(sent) /\ at # 0
         /\ frame = sent[at] /\ frame.opcode = "data"
         /\ frame \in Frames /\ bounds[at] \in Nat
         /\ taken - read_str_len = bounds[at]
         /\ frame.payload \in Nat /\ frame.reply \in Nat
         /\ HeaderSize(frame.payload) \in {6, 8, 14}
         /\ FrameSize(frame) = HeaderSize(frame.payload) + frame.payload
<1>1. /\ at = Current /\ at <= Len(sent)
      /\ frame = sent[at] /\ frame.opcode = "data"
      /\ taken - read_str_len = bounds[at]
  BY DEF WsInv, PlaceInv
<1>2. at \in 1 .. Len(sent) /\ at # 0
  <2>1. /\ Len(executed) \in Nat /\ Len(sent) \in Nat
        /\ at = Len(executed) + 1 /\ at <= Len(sent)
    BY <1>1, Counts DEF Current
  <2>2. at \in Nat /\ at # 0 /\ at <= Len(sent) /\ Len(sent) \in Nat
    BY <2>1
  <2> QED
    BY <2>2
<1>3. frame \in Frames /\ bounds[at] \in Nat
  BY <1>1, <1>2, Starts DEF WsInv
<1>4. /\ frame.payload \in Nat /\ frame.reply \in Nat
      /\ FrameSize(frame) = HeaderSize(frame.payload) + frame.payload
  BY <1>3, FrameSizes
<1>5. HeaderSize(frame.payload) \in {6, 8, 14}
  BY <1>4, HeaderSizes
<1> QED
  BY <1>1, <1>2, <1>3, <1>4, <1>5

\* The longer length ends the header.
LEMMA LengthStep ==
  ASSUME WsInv, Length
  PROVE  WsInv'
<1>1. session = "length" /\ want = 0 /\ UNCHANGED clientVars
      /\ UNCHANGED <<link, taken, read_str_len, frame, at, connection_closed>>
      /\ UNCHANGED <<exit_signal, executed, answers, written>>
  BY DEF Length, Received
<1>2. /\ at = Current /\ at \in 1 .. Len(sent) /\ at # 0
      /\ frame = sent[at] /\ frame.opcode = "data"
      /\ frame \in Frames /\ bounds[at] \in Nat
      /\ taken - read_str_len = bounds[at]
      /\ frame.payload \in Nat
      /\ HeaderSize(frame.payload) \in {6, 8, 14}
      /\ FrameSize(frame) = HeaderSize(frame.payload) + frame.payload
  BY <1>1, FrameAt
<1>3. /\ UNCHANGED <<client, sent, bounds, put, fetched>>
      /\ StreamEnd' = StreamEnd /\ \A k : Start(k)' = Start(k)
      /\ BoundsInv'
  BY <1>1, SessionKeepsFrames
<1>4. /\ taken' \in Nat /\ taken <= taken' /\ taken' \in taken .. put
      /\ read_str_len \in Nat /\ want \in Nat /\ owed \in Nat
      /\ read_str_len = HeaderSize(frame.payload)
  <2>1. taken \in Nat /\ put \in Nat /\ taken <= put /\ read_str_len \in Nat
        /\ want \in Nat /\ owed \in Nat
    BY Counts
  <2>2. read_str_len + want = HeaderSize(frame.payload)
    BY <1>1 DEF WsInv, PlaceInv
  <2> QED
    BY <1>1, <2>1, <2>2
<1>5. ExecutedInOrder' /\ executed' \in Seq(Nat) /\ Len(executed') <= Len(sent)
  <2>1. ExecutedInOrder'
    BY <1>1, <1>3, <1>4, ExecutedStays
  <2>2. executed' \in Seq(Nat) /\ Len(executed') <= Len(sent)
    BY <1>1, Counts DEF WsInv, TypeOK
  <2> QED
    BY <2>1, <2>2
<1>6. connection_closed = FALSE
  BY <1>1 DEF WsInv, EndInv, TypeOK, Gone
<1>7. CASE TooLarge(frame.payload) /\ CommandFails(FALSE) /\ UNCHANGED want
  <2>1. Refused(sent[at])
    BY <1>2, <1>7 DEF Refused
  <2>2. /\ session' \in {"closing", "ended"} /\ owed' \in {owed, 2}
        /\ session' = "closing" => exit_signal
    BY <1>7 DEF CommandFails, ExitSession
  <2>3. /\ frame' \in Frames \cup {NoFrame} /\ at' \in 0 .. Len(sent)
        /\ read_str_len' \in Nat /\ want' \in Nat /\ owed' \in Nat
        /\ at' # 0 /\ Refused(sent[at'])
        /\ link' \in {"open", "closed", "reset", "shut", "dropped"}
    BY <1>1, <1>2, <1>4, <1>7, <2>1, <2>2 DEF WsInv, TypeOK
  <2>4. connection_closed' \in BOOLEAN
    BY <1>1, <1>6
  <2>5. session' = "closing" => exit_signal /\ ~connection_closed'
    BY <1>1, <1>6, <2>2
  <2> QED
    BY <1>1, <1>4, <1>5, <2>2, <2>3, <2>4, <2>5, LeavesStep
<1>8. CASE ~TooLarge(frame.payload) /\ ReceivePayload(frame.payload)
  <2>1. session' = "payload" /\ want' = frame.payload /\ owed' = owed
    BY <1>8 DEF ReceivePayload
  <2>2. want' \in Nat /\ read_str_len' + want' <= ReadStrLen
    <3>1. /\ ReadStrLen \in Nat /\ Margin \in Nat /\ 14 <= Margin
          /\ Margin <= ReadStrLen
      BY Counts
    <3> QED
      BY <1>1, <1>2, <1>4, <1>8, <2>1, <3>1 DEF TooLarge
  <2>3. taken' \in 0 .. put' /\ put' - taken' <= Capacity
    BY <1>3, <1>4, ReadsOn
  <2>4. TypeOK'
    BY <1>1, <1>3, <1>4, <2>1, <2>2, <2>3 DEF WsInv, TypeOK, Reading
  <2>5. HandshakeInv'
    BY <1>1, <1>3, <2>1 DEF WsInv, HandshakeInv
  <2>6. PlaceInv'
    <3>1. Len(executed') <= Len(sent') /\ Current' = Current
      BY <1>1, <1>3, <1>5 DEF Current
    <3>2. read_str_len' + want' = FrameSize(frame')
      BY <1>1, <1>2, <1>4, <2>1
    <3>3. at \in Nat /\ at <= Len(sent)
      BY Counts
    <3> QED
      BY <1>1, <1>2, <1>3, <1>8, <2>1, <3>1, <3>2, <3>3 DEF PlaceInv, TooLarge
  <2>7. AnswersInv'
    BY <1>1, <2>1 DEF WsInv, AnswersInv, AnswersInPlace, AnswerEnd, Reading
  <2>8. EndInv'
    BY <1>1, <1>6, <2>1 DEF EndInv, EndsForACause, Gone
  <2> QED
    BY <1>3, <1>5, <2>4, <2>5, <2>6, <2>7, <2>8 DEF WsInv
<1> QED
  BY <1>7, <1>8 DEF Length

\* A command that is too short, or comes after the signal to exit, is not executed.
LEMMA CommandRefusedStep ==
  ASSUME WsInv, CommandTooSmall \/ CommandAfterExit
  PROVE  WsInv'
<1>1. /\ session = "payload" /\ want = 0 /\ Reading /\ Failing(connection_closed)
      /\ link' = link
  BY DEF CommandTooSmall, CommandAfterExit, Received, Reading
<1>2. connection_closed \in BOOLEAN /\ link' \in {"open", "closed", "reset", "shut", "dropped"}
  BY <1>1 DEF WsInv, TypeOK
<1>3. CASE CommandAfterExit
  <2>1. exit_signal
    BY <1>3 DEF CommandAfterExit
  <2> QED
    BY <1>1, <1>2, <2>1, FailingStep
<1>4. CASE CommandTooSmall
  <2>1. /\ at # 0 /\ frame = sent[at] /\ frame.payload \in Nat
        /\ HeaderSize(frame.payload) \in {6, 8, 14}
        /\ FrameSize(frame) = HeaderSize(frame.payload) + frame.payload
    BY <1>1, FrameAt
  <2>2. read_str_len \in Nat /\ CommandHeader \in Nat \ {0}
    BY Counts, WebSocketAssumption
  <2>3. read_str_len + want = FrameSize(frame)
    BY <1>1 DEF WsInv, PlaceInv
  <2>4. read_str_len < HeaderSize(frame.payload) + 1 \/ frame.payload < CommandHeader
    BY <1>4 DEF CommandTooSmall, TooSmall
  <2>5. frame.payload < CommandHeader
    BY <1>1, <2>1, <2>2, <2>3, <2>4
  <2>6. Refused(sent[at])
    BY <2>1, <2>5 DEF Refused
  <2> QED
    BY <1>1, <1>2, <2>1, <2>6, FailingStep
<1> QED
  BY <1>3, <1>4

\* A client reads from the header of an answer the length the session put there.
LEMMA HeaderAnnounces ==
  ASSUME NEW n \in Nat
  PROVE  /\ SendHeader(n) \in [bytes : Nat, short : Nat, long : Nat]
         /\ SendHeader(n).bytes \in {2, 4, 10}
         /\ Announced(SendHeader(n)) = n
<1>1. SmallStream \in Nat /\ MediumMax \in Nat /\ SmallStream < MediumMax
  BY WebSocketAssumption
<1>2. CASE n <= SmallStream
  <2>1. SendHeader(n) = [bytes |-> 2, short |-> n, long |-> 0]
    BY <1>1, <1>2 DEF SendHeader
  <2> QED
    BY <1>2, <2>1 DEF Announced
<1>3. CASE SmallStream < n /\ n <= MediumMax
  <2>1. SendHeader(n) = [bytes |-> 4, short |-> SmallStream + 1, long |-> n % (MediumMax + 1)]
    BY <1>1, <1>3 DEF SendHeader
  <2>2. n % (MediumMax + 1) = n
    BY <1>1, <1>3
  <2> QED
    BY <1>1, <2>1, <2>2 DEF Announced
<1>4. CASE MediumMax < n
  <2>1. SendHeader(n) = [bytes |-> 10, short |-> SmallStream + 2, long |-> n]
    BY <1>1, <1>4 DEF SendHeader
  <2> QED
    BY <1>1, <2>1 DEF Announced
<1> QED
  BY <1>1, <1>2, <1>3, <1>4

\* A command is executed where its frame ends: the next frame begins there, and its
\* answer where the one before ends.
LEMMA ExecuteStep ==
  ASSUME WsInv, Execute
  PROVE  WsInv'
<1>1. /\ session = "payload" /\ want = 0 /\ read_str_len # OverflowLen
      /\ ~TooSmall /\ ~exit_signal /\ UNCHANGED clientVars
      /\ UNCHANGED <<link, taken, frame, at, connection_closed, exit_signal, written>>
      /\ executed' = Append(executed, at)
  BY DEF Execute, Received
<1>2. /\ at = Current /\ at \in 1 .. Len(sent) /\ at # 0
      /\ frame = sent[at] /\ frame.opcode = "data"
      /\ frame \in Frames /\ bounds[at] \in Nat
      /\ taken - read_str_len = bounds[at]
      /\ frame.payload \in Nat /\ frame.reply \in Nat
      /\ FrameSize(frame) = HeaderSize(frame.payload) + frame.payload
  BY <1>1, FrameAt
<1>3. /\ UNCHANGED <<client, sent, bounds, put, fetched>>
      /\ StreamEnd' = StreamEnd /\ \A k : Start(k)' = Start(k)
      /\ BoundsInv'
  BY <1>1, SessionKeepsFrames
<1>4. PICK e \in Nat : e = Len(executed)
  BY Counts
<1>5. at = e + 1 /\ e + 1 \in 1 .. Len(sent) /\ e + 1 <= Len(sent)
  <2>1. at = e + 1
    BY <1>2, <1>4 DEF Current
  <2>2. at <= Len(sent)
    BY Counts
  <2> QED
    BY <1>2, <2>1, <2>2
<1>6. /\ executed' \in Seq(Nat) /\ Len(executed') = e + 1 /\ Len(executed') <= Len(sent)
      /\ executed'[e + 1] = at
      /\ \A i \in 1 .. e : executed'[i] = executed[i]
      /\ DOMAIN executed' = 1 .. e + 1 /\ DOMAIN executed = 1 .. e
  <2>1. executed \in Seq(Nat) /\ at \in Nat
    BY Counts DEF WsInv, TypeOK
  <2> QED
    BY <1>1, <1>4, <1>5, <2>1
<1>7. /\ read_str_len = FrameSize(frame) /\ read_str_len \in Nat
      /\ taken = bounds[at] + FrameSize(frame) /\ taken \in Nat
  <2>1. read_str_len + want = FrameSize(frame)
    BY <1>1 DEF WsInv, PlaceInv
  <2>2. read_str_len \in Nat /\ taken \in Nat
    BY Counts
  <2>3. read_str_len = FrameSize(frame)
    BY <1>1, <2>1, <2>2
  <2>4. taken = bounds[at] + read_str_len
    BY <1>2, <2>2
  <2> QED
    BY <2>2, <2>3, <2>4
<1>8. ~Refused(sent[at])
  <2>1. ~TooLarge(frame.payload)
    BY <1>1 DEF WsInv, PlaceInv
  <2>2. ~(frame.payload < CommandHeader)
    BY <1>1 DEF TooSmall
  <2>3. FrameSize(frame) # OverflowLen
    BY <1>1, <1>7
  <2> QED
    BY <1>2, <2>1, <2>2, <2>3 DEF Refused
<1>9. ExecutedInOrder'
  <2> SUFFICES ASSUME NEW i \in 1 .. e + 1
               PROVE  /\ executed'[i] = i
                      /\ bounds[i] + FrameSize(sent[i]) <= taken
                      /\ ~Refused(sent[i])
    <3>1. UNCHANGED <<sent, bounds, taken>> /\ DOMAIN executed' = 1 .. e + 1
      BY <1>1, <1>3, <1>6
    <3> QED
      BY <3>1 DEF ExecutedInOrder, Refused, TooLarge, FrameSize, HeaderSize
  <2>1. CASE i = e + 1
    <3>1. i = at /\ executed'[i] = i
      BY <1>5, <1>6, <2>1
    <3>2. bounds[i] + FrameSize(sent[i]) = taken
      BY <1>2, <1>7, <3>1
    <3> QED
      BY <1>7, <1>8, <3>1, <3>2
  <2>2. CASE i # e + 1
    <3>1. i \in 1 .. e
      BY <2>2
    <3> QED
      BY <1>6, <3>1 DEF WsInv, ExecutedInOrder
  <2> QED
    BY <2>1, <2>2
<1>10. taken = Start(Len(executed') + 1)
  <2>1. Start(at + 1) = bounds[at] + FrameSize(sent[at])
    BY <1>2 DEF WsInv, BoundsInv
  <2> QED
    BY <1>2, <1>5, <1>6, <1>7, <2>1
<1>11. answers # <<>> => written = AnswerEnd(Len(answers))
  BY <1>1 DEF WsInv, AnswersInv, Reading
<1>12. CASE NextCommand /\ UNCHANGED answers
  <2>1. ~Gone
    BY <1>1 DEF Gone
  <2> QED
    BY <1>1, <1>6, <1>9, <1>10, <1>11, <1>12, <2>1, NextCommandStep
<1>13. CASE /\ frame.reply > 0 /\ ~TooLong(frame.reply)
            /\ answers' = Append(answers, [from |-> written, header |-> SendHeader(frame.reply)])
            /\ owed' = SendHeader(frame.reply).bytes + frame.reply
            /\ session' = "answer"
            /\ UNCHANGED <<read_str_len, want>>
  <2>1. /\ SendHeader(frame.reply) \in [bytes : Nat, short : Nat, long : Nat]
        /\ SendHeader(frame.reply).bytes \in {2, 4, 10}
        /\ Announced(SendHeader(frame.reply)) = frame.reply
    BY <1>2, HeaderAnnounces
  <2>2. PICK a \in [from : Nat, header : [bytes : Nat, short : Nat, long : Nat]] :
             /\ a = [from |-> written, header |-> SendHeader(frame.reply)]
             /\ answers' = Append(answers, a)
    <3>1. written \in Nat
      BY Counts
    <3> QED
      BY <1>13, <2>1, <3>1
  <2>3. PICK m \in Nat : m = Len(answers)
    BY Counts
  <2>4. /\ answers \in Seq([from : Nat, header : [bytes : Nat, short : Nat, long : Nat]])
        /\ answers' \in Seq([from : Nat, header : [bytes : Nat, short : Nat, long : Nat]])
        /\ Len(answers') = m + 1 /\ answers'[m + 1] = a
        /\ \A i \in 1 .. m : answers'[i] = answers[i]
        /\ DOMAIN answers' = 1 .. m + 1 /\ DOMAIN answers = 1 .. m
    <3> DEFINE A == [from : Nat, header : [bytes : Nat, short : Nat, long : Nat]]
    <3>1. answers \in Seq(A) /\ a \in A
      BY DEF WsInv, TypeOK
    <3> HIDE DEF A
    <3>2. /\ answers' \in Seq(A) /\ Len(answers') = m + 1 /\ answers'[m + 1] = a
          /\ \A i \in 1 .. m : answers'[i] = answers[i]
          /\ DOMAIN answers' = 1 .. m + 1 /\ DOMAIN answers = 1 .. m
      BY <2>2, <2>3, <3>1
    <3> QED
      BY <3>1, <3>2 DEF A
  <2>5. owed' \in Nat /\ owed' <= SendBufLen
    <3>1. SendBufLen \in Nat
      BY Counts
    <3>2. PICK r \in Nat : r = frame.reply
      BY <1>2
    <3>3. PICK b \in {2, 4, 10} : b = SendHeader(frame.reply).bytes
      BY <2>1
    <3>4. ~(r + 10 > SendBufLen) /\ owed' = b + r
      BY <1>13, <3>2, <3>3 DEF TooLong
    <3> QED
      BY <3>1, <3>4
  <2>6. taken' \in 0 .. put' /\ put' - taken' <= Capacity
    BY <1>1, <1>3 DEF WsInv, TypeOK
  <2>7. TypeOK'
    BY <1>1, <1>3, <1>6, <1>13, <2>4, <2>5, <2>6 DEF WsInv, TypeOK, Reading
  <2>8. HandshakeInv'
    BY <1>3, <1>13 DEF WsInv, HandshakeInv
  <2>9. PlaceInv'
    <3>1. Start(e + 2)' = Start(e + 2)
      BY <1>3
    <3>2. Current' = e + 2 /\ Len(executed') + 1 = e + 2
      BY <1>6 DEF Current
    <3>3. taken' = Start(Current)'
      BY <1>1, <1>10, <3>1, <3>2
    <3> QED
      BY <1>3, <1>6, <1>13, <3>3 DEF PlaceInv
  <2>10. AnswersInPlace'
    <3>1. \A i \in 1 .. m + 1 :
            IF i < m + 1
            THEN answers'[i + 1].from = answers'[i].from + answers'[i].header.bytes
                                        + Announced(answers'[i].header)
            ELSE written' + owed' = answers'[i].from + answers'[i].header.bytes
                                    + Announced(answers'[i].header)
      <4> SUFFICES ASSUME NEW i \in 1 .. m + 1
                   PROVE  IF i < m + 1
                          THEN answers'[i + 1].from =
                                 answers'[i].from + answers'[i].header.bytes
                                 + Announced(answers'[i].header)
                          ELSE written' + owed' =
                                 answers'[i].from + answers'[i].header.bytes
                                 + Announced(answers'[i].header)
        OBVIOUS
      <4>1. CASE i = m + 1
        <5>1. /\ answers'[i].from = written /\ answers'[i].header = SendHeader(frame.reply)
              /\ ~(i < m + 1)
          BY <2>2, <2>4, <4>1
        <5>2. written \in Nat
          BY Counts
        <5>3. written + owed' = written + SendHeader(frame.reply).bytes + frame.reply
          BY <1>2, <1>13, <2>1, <5>2
        <5> QED
          BY <1>1, <2>1, <5>1, <5>3
      <4>2. CASE i = m
        <5>1. i < m + 1 /\ i + 1 = m + 1 /\ i \in 1 .. m
          BY <4>2
        <5>2. answers # <<>>
          BY <2>4, <5>1
        <5>3. answers'[i + 1].from = written
          BY <2>2, <2>4, <5>1
        <5>4. written = answers[i].from + answers[i].header.bytes
                        + Announced(answers[i].header)
          BY <1>11, <2>3, <4>2, <5>2 DEF AnswerEnd
        <5> QED
          BY <2>4, <5>1, <5>3, <5>4
      <4>3. CASE i < m
        <5>1. i < m + 1 /\ i + 1 \in 1 .. m /\ i \in 1 .. m
          BY <4>3
        <5>2. answers[i + 1].from = answers[i].from + answers[i].header.bytes
                                    + Announced(answers[i].header)
          BY <2>3, <2>4, <4>3, <5>1 DEF WsInv, AnswersInv, AnswersInPlace
        <5> QED
          BY <2>4, <5>1, <5>2
      <4>4. i = m + 1 \/ i = m \/ i < m
        OBVIOUS
      <4> QED
        BY <4>1, <4>2, <4>3, <4>4
    <3> QED
      <4>1. DOMAIN answers' = 1 .. m + 1 /\ Len(answers') = m + 1
        BY <2>4
      <4>2. ASSUME NEW i \in DOMAIN answers'
            PROVE  LET next == answers'[i].from + answers'[i].header.bytes
                               + Announced(answers'[i].header)
                   IN  IF i < Len(answers') THEN answers'[i + 1].from = next
                       ELSE written' + owed' = next
        BY <3>1, <4>1
      <4> QED
        BY <4>2 DEF AnswersInPlace
  <2>11. AnswersInv'
    BY <1>13, <2>10 DEF AnswersInv, Reading
  <2>12. connection_closed' = FALSE
    BY <1>1 DEF WsInv, EndInv, TypeOK, Gone
  <2>13. EndInv'
    BY <1>13, <2>12 DEF EndInv, EndsForACause, Gone
  <2> QED
    BY <1>3, <1>9, <2>7, <2>8, <2>9, <2>11, <2>13 DEF WsInv
<1> QED
  BY <1>12, <1>13 DEF Execute

\* The server stops: it takes the connection from the session, or only signals.
LEMMA ServerStep ==
  ASSUME WsInv, Server
  PROVE  WsInv'
<1>1. /\ session # "ended" /\ UNCHANGED <<clientVars, taken, read_str_len, want, frame, at>>
      /\ UNCHANGED <<connection_closed, executed, answers, written, owed>>
  BY DEF Server, SessionShut, SessionDeleted, ExitComm, ThreadEnds, Gone, clientVars,
         serverVars, readVars, sendVars
<1>2. /\ session' \in {session, "ended"}
      /\ link' \in {"open", "closed", "reset", "shut", "dropped"}
      /\ (exit_signal => exit_signal') /\ exit_signal' \in BOOLEAN
      /\ session' # session => link' # "open" \/ exit_signal'
  BY DEF Server, SessionShut, SessionDeleted, ExitComm, ThreadEnds, WsInv, TypeOK, serverVars
<1> QED
  BY <1>1, <1>2, StopStep

\* A step that changes nothing.
LEMMA WsStutter ==
  ASSUME WsInv, UNCHANGED vars
  PROVE  WsInv'
<1>1. /\ UNCHANGED <<client, sent, bounds, put, fetched, link, session>>
      /\ UNCHANGED <<taken, read_str_len, want, frame, at, connection_closed, exit_signal>>
      /\ UNCHANGED <<executed, answers, written, owed>>
  BY DEF vars, clientVars, serverVars, readVars, sendVars
<1>2. StreamEnd' = StreamEnd /\ \A k : Start(k)' = Start(k)
  BY <1>1, FramesStay
<1>3. TypeOK' /\ BoundsInv' /\ HandshakeInv'
  BY <1>1, <1>2 DEF WsInv, TypeOK, BoundsInv, HandshakeInv, Reading
<1>4. PlaceInv'
  <2>1. Current' = Current
    BY <1>1 DEF Current
  <2>2. Start(Current)' = Start(Current)
    BY <1>2, <2>1
  <2> QED
    BY <1>1, <2>1, <2>2 DEF WsInv, PlaceInv, TooLarge
<1>5. ExecutedInOrder'
  <2>1. taken' = taken /\ taken' \in Nat /\ UNCHANGED <<sent, bounds, executed>>
    BY <1>1, Counts
  <2> QED
    BY <2>1, ExecutedStays
<1>6. AnswersInv' /\ EndInv'
  BY <1>1
  DEF WsInv, AnswersInv, AnswersInPlace, AnswerEnd, Reading, EndInv, EndsForACause, Gone
<1> QED
  BY <1>3, <1>4, <1>5, <1>6 DEF WsInv

-----------------------------------------------------------------------------
(* The specification                                                       *)

\* Nothing was sent, read or executed.
LEMMA WsInit == Init => WsInv
<1> SUFFICES ASSUME Init PROVE WsInv
  OBVIOUS
<1>1. /\ sent = <<>> /\ bounds = <<>> /\ executed = <<>> /\ answers = <<>>
      /\ Len(sent) = 0 /\ Len(executed) = 0
      /\ client = "connecting" /\ session = "handshake" /\ link = "open"
      /\ put = 0 /\ fetched = 0 /\ taken = 0 /\ written = 0
  BY DEF Init
<1>2. /\ RequestBytes \in Nat /\ Capacity \in Nat /\ SendBufLen \in Nat
      /\ 0 < RequestBytes
  BY WebSocketAssumption
<1>3. StreamEnd = RequestBytes /\ Start(1) = StreamEnd
  BY <1>1 DEF StreamEnd, Start
<1>4. TypeOK
  <2>1. sent \in Seq(Frames) /\ bounds \in Seq(Nat) /\ executed \in Seq(Nat)
        /\ answers \in Seq([from : Nat, header : [bytes : Nat, short : Nat, long : Nat]])
    BY <1>1
  <2>2. /\ put \in Nat /\ taken \in 0 .. put /\ put - taken <= Capacity
        /\ written \in Nat /\ fetched \in 0 .. written /\ written - fetched <= Capacity
        /\ at \in 0 .. Len(sent)
    BY <1>1, <1>2 DEF Init
  <2> QED
    BY <1>1, <2>1, <2>2 DEF Init, TypeOK, Reading
<1>5. BoundsInv
  BY <1>1, <1>2, <1>3 DEF BoundsInv
<1>6. HandshakeInv /\ PlaceInv
  BY <1>1 DEF HandshakeInv, PlaceInv
<1>7. ExecutedInOrder
  BY <1>1 DEF ExecutedInOrder
<1>8. AnswersInv
  BY <1>1 DEF AnswersInv, AnswersInPlace, Reading
<1>9. EndInv
  BY <1>1 DEF Init, EndInv, EndsForACause, Gone
<1> QED
  BY <1>4, <1>5, <1>6, <1>7, <1>8, <1>9 DEF WsInv

\* The strengthened invariant holds of every execution.
LEMMA WsInvariant == Spec => []WsInv
<1>1. WsInv /\ [Next]_vars => WsInv'
  <2> SUFFICES ASSUME WsInv, [Next]_vars PROVE WsInv'
    OBVIOUS
  <2>1. CASE Client
    BY <2>1, ClientStep
  <2>2. CASE Thread
    BY <2>2, HandshakeStep, WriteStep, WrittenStep, WriteFailsStep, ReadStep,
       ReadFailsStep, HeaderStep, LengthStep, CommandRefusedStep, ExecuteStep
    DEF Thread
  <2>3. CASE Server
    BY <2>3, ServerStep
  <2>4. CASE Finished \/ Quiet
    BY <2>4, WsStutter DEF Finished, Quiet
  <2>5. CASE UNCHANGED vars
    BY <2>5, WsStutter
  <2> QED
    BY <2>1, <2>2, <2>3, <2>4, <2>5 DEF Next
<1> QED
  BY <1>1, WsInit, PTL DEF Spec

-----------------------------------------------------------------------------
(* What it shows                                                           *)

\* Partial reads never move the session off the frames, its buffers never overflow, and
\* each answer begins where a client expects it.
THEOREM FramesStayInPlace == Spec => []FramesInPlace
<1>1. WsInv => FramesInPlace
  <2> SUFFICES ASSUME WsInv PROVE FramesInPlace
    OBVIOUS
  <2>1. session = "header" /\ want = 0 => Here # {}
    BY HereIsCurrent DEF WsInv
  <2>2. session \in {"length", "payload"} => at # 0 /\ frame = sent[at]
    BY FrameAt
  <2>3. session = "payload" /\ want = 0 => taken = bounds[at] + FrameSize(frame)
    <3>1. SUFFICES ASSUME session = "payload", want = 0
                   PROVE  taken = bounds[at] + FrameSize(frame)
      OBVIOUS
    <3>2. taken - read_str_len = bounds[at] /\ bounds[at] \in Nat
      BY <3>1, FrameAt
    <3>3. read_str_len + want = FrameSize(frame)
      BY <3>1 DEF WsInv, PlaceInv
    <3>4. read_str_len \in Nat /\ taken \in Nat
      BY Counts
    <3> QED
      BY <3>1, <3>2, <3>3, <3>4
  <2> QED
    BY <2>1, <2>2, <2>3 DEF FramesInPlace, WsInv, AnswersInv
<1> QED
  BY <1>1, WsInvariant, PTL

\* The commands are executed in the order of their frames, each once and whole.
THEOREM CommandsInOrder == Spec => []ExecutedInOrder
BY WsInvariant, PTL DEF WsInv

\* No session ends without a cause.
THEOREM SessionsEndForACause == Spec => []EndsForACause
BY WsInvariant, PTL DEF WsInv, EndInv
=============================================================================
