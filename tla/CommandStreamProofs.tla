------------------------ MODULE CommandStreamProofs ------------------------
(***************************************************************************)
(* Proofs about CommandStream for any operations, any arguments, a kernel  *)
(* with buffers of any size and any number of calls.                       *)
(***************************************************************************)
EXTENDS CommandStream, SequenceTheorems, WellFoundedInduction, TLAPS

-----------------------------------------------------------------------------
(* The inductive invariant                                                 *)

\* Where the next call of the client begins.
End == IF sent = <<>> THEN 0 ELSE bounds[Len(sent)] + Size(sent[Len(sent)])

\* Where call k begins, or will begin.
Start(k) == IF k \in 1 .. Len(sent) THEN bounds[k] ELSE End

\* The calls follow each other, and the client has put none of what it has not sent.
BoundsInv ==
  /\ Len(bounds) = Len(sent)
  /\ Start(1) = 0
  /\ \A k \in 1 .. Len(sent) : Start(k + 1) = bounds[k] + Size(sent[k])
  /\ \A j, k \in 1 .. Len(sent) : j < k => bounds[j] < bounds[k]
  /\ put <= End
  /\ client \in {"idle", "receiving"} => put = End
  /\ client = "sending" => sent # <<>> /\ put + left = End

\* The parser is at an argument of an operation that the server has.
ParserInv ==
  /\ session \in {"length", "data", "execute", "answer"} => op \in Known
  /\ session \in {"length", "data"} => pack \in 1 .. Len(Packs[op])
  /\ session = "length" => Packs[op][pack].kind \in Dynamic

\* There is nothing more to read, and never will be.
Lost == link # "open" /\ (taken = put \/ link = "dropped")

\* A connection that is not open any more stays so, and a descriptor is closed for good.
LinkGoesOn ==
  /\ link' \in {"open", "closed", "reset", "shut", "dropped"}
  /\ link # "open" => link' # "open"
  /\ link = "dropped" => link' = "dropped"

\* Arguments that did not all arrive are the last that is read of a connection.
LostInv ==
  /\ args # "all" => Lost /\ session # "header"
  /\ session = "length" /\ args # "all" => want > 0
  /\ \A i \in DOMAIN executed :
       executed[i].args # "all" =>
         /\ i = Len(executed) /\ Lost
         /\ session \in {"header", "answer", "ended", "aborted"}
         /\ session = "header" => want > 0

\* All calls before c that the server has were executed, in their order, and no other.
Served(c) ==
  /\ \A j \in 1 .. c - 1 :
       sent[j] \in Known => \E h \in DOMAIN executed : executed[h].call = j
  /\ \A h \in DOMAIN executed : executed[h].call < c

\* The session is at call c, or at the end of what it will ever read.
StandsAt(c) ==
  /\ session = "header" =>
       (Lost /\ want > 0) \/ taken + want = Start(c) + HeaderBytes
  /\ session \in {"length", "data", "execute"} =>
       at = c /\ c \in 1 .. Len(sent) /\ op = sent[c]
  /\ session = "length" /\ args = "all" =>
       taken + want = Start(c) + Offset[op][pack] + LengthBytes
  /\ session = "data" /\ args = "all" =>
       taken + want = Start(c) + Offset[op][pack + 1]
  /\ session = "execute" /\ args = "all" => taken = Start(c + 1)
  /\ session = "answer" =>
       /\ at + 1 = c /\ at \in 1 .. Len(sent) /\ op = sent[at]
       /\ Lost \/ taken = Start(c)

\* From call c on, the first call that has an answer is k, if any up to k has one.
NextAnswered(c, k) == \A j \in c .. k - 1 : Reply[sent[j]] = 0

\* The answer goes out up to byte n, unless the connection is lost before.
Owing(n) == written + owed = n \/ (link # "open" /\ owed = 0 /\ written < n)

\* Nothing of an answer is under way.
Silent == written = fetched /\ owed = 0

\* The client reads for an answer the session has not begun, for the one it writes,
\* or for none.
AnswersAt(c) ==
  LET last == Len(sent)
      a == Len(answers)
      g == Len(got)
  IN /\ client = "idle" => a = g /\ Silent /\ NextAnswered(c, last + 1)
     /\ client = "sending" =>
          \/ /\ a = g /\ Silent /\ NextAnswered(c, last)
             /\ c = last + 1 => Reply[sent[last]] = 0
          \/ /\ a = g + 1 /\ c = last + 1 /\ Reply[sent[last]] > 0
             /\ answers[a] = [call |-> last, from |-> fetched]
             /\ Owing(fetched + Reply[sent[last]])
     /\ client = "receiving" =>
          /\ g > 0 /\ got[g].call = last /\ last > 0 /\ Reply[sent[last]] > 0
          /\ fetched + left = got[g].from + Reply[sent[last]]
          /\ \/ a + 1 = g
             \/ a = g /\ c = last + 1 /\ Owing(got[g].from + Reply[sent[last]])
     /\ a < g =>
          /\ a + 1 = g /\ owed = 0 /\ written = got[g].from
          /\ c <= got[g].call /\ got[g].call <= last /\ Reply[sent[got[g].call]] > 0
          /\ NextAnswered(c, got[g].call)

OrderInv ==
  UnderstoodCalls =>
    \E c \in 1 .. Len(sent) + 1 : Served(c) /\ StandsAt(c) /\ AnswersAt(c)

StreamInv ==
  /\ TypeOK /\ BoundsInv /\ ParserInv /\ LostInv
  /\ OrderInv /\ ExecutedInOrder /\ AnswersMatchCalls

-----------------------------------------------------------------------------
(* Calls and where they begin                                              *)

\* A set of numbers has a least one.
LEMMA Least ==
  ASSUME NEW S \in SUBSET Nat, S # {}
  PROVE  \E n \in S : \A m \in S : n <= m
<1>1. PICK n \in S : \A m \in S : <<m, n>> \notin OpToRel(<, Nat)
  BY NatLessThanWellFounded, WFMin
<1>2. \A m \in S : ~(m < n)
  BY <1>1 DEF OpToRel
<1> QED
  BY <1>2

\* A summand is at most the sum.
LEMMA SumBounds ==
  ASSUME NEW m \in Nat, NEW n \in Nat, NEW e \in Nat, m + n = e
  PROVE  m <= e
OBVIOUS

\* A sum is at least what its first summand is.
LEMMA SumIsLarger ==
  ASSUME NEW h \in Nat, NEW m \in Nat, NEW n \in Nat, h <= m
  PROVE  h <= m + n
OBVIOUS

\* The arguments of a command are behind its header.
LEMMA Offsets ==
  ASSUME NEW o \in Ops
  PROVE  /\ Packs[o] \in Seq(Pack) /\ Len(Packs[o]) \in Nat
         /\ \A j \in 1 .. Len(Packs[o]) + 1 :
              Offset[o][j] \in Nat /\ HeaderBytes <= Offset[o][j]
         /\ \A j \in 1 .. Len(Packs[o]) :
              /\ Packs[o][j] \in Pack /\ PackBytes(Packs[o][j]) \in Nat
              /\ Offset[o][j + 1] = Offset[o][j] + PackBytes(Packs[o][j])
         /\ Size(o) \in Nat \ {0}
<1>1. /\ Packs[o] \in Seq(Pack) /\ Len(Packs[o]) \in Nat
      /\ Offset[o] \in Seq(Nat) /\ Len(Offset[o]) = Len(Packs[o]) + 1
      /\ Offset[o][1] = HeaderBytes /\ HeaderBytes \in Nat \ {0}
  BY LayoutAssumption
<1>2. \A j \in 1 .. Len(Packs[o]) :
        /\ Packs[o][j] \in Pack
        /\ Offset[o][j + 1] = Offset[o][j] + PackBytes(Packs[o][j])
  BY <1>1, LayoutAssumption, ElementOfSeq
<1>3. \A j \in 1 .. Len(Packs[o]) + 1 : Offset[o][j] \in Nat
  BY <1>1, ElementOfSeq
<1>4. \A p \in Pack : PackBytes(p) \in Nat
  BY LayoutAssumption DEF Pack, PackBytes
<1>5. \A j \in 1 .. Len(Packs[o]) + 1 : HeaderBytes <= Offset[o][j]
  <2> DEFINE S == {j \in 1 .. Len(Packs[o]) + 1 : ~(HeaderBytes <= Offset[o][j])}
  <2>1. SUFFICES ASSUME S # {} PROVE FALSE
    OBVIOUS
  <2>2. S \in SUBSET Nat
    BY <1>1
  <2>3. PICK n \in S : \A m \in S : n <= m
    BY <2>1, <2>2, Least
  <2>4. n \in 1 .. Len(Packs[o]) + 1 /\ n # 1
    <3>1. HeaderBytes <= Offset[o][1]
      BY <1>1
    <3> QED
      BY <2>3, <3>1
  <2>5. PICK i \in 1 .. Len(Packs[o]) : n = i + 1
    <3>1. n - 1 \in 1 .. Len(Packs[o]) /\ n = (n - 1) + 1
      BY <1>1, <2>4
    <3> QED
      BY <3>1
  <2>6. i \in 1 .. Len(Packs[o]) + 1 /\ ~(n <= i)
    BY <1>1, <2>5
  <2>7. HeaderBytes <= Offset[o][i]
    BY <2>3, <2>6
  <2>8. PackBytes(Packs[o][i]) \in Nat /\ Offset[o][i] \in Nat
    BY <1>2, <1>3, <1>4, <2>5, <2>6
  <2>9. Offset[o][i + 1] = Offset[o][i] + PackBytes(Packs[o][i])
    BY <1>2
  <2>10. HeaderBytes <= Offset[o][i + 1]
    <3>1. HeaderBytes \in Nat
      BY LayoutAssumption
    <3>2. HeaderBytes <= Offset[o][i] + PackBytes(Packs[o][i])
      BY <2>7, <2>8, <3>1, SumIsLarger
    <3> QED
      BY <2>9, <3>2
  <2>11. HeaderBytes <= Offset[o][n]
    BY <2>5, <2>10
  <2> QED
    BY <2>3, <2>11
<1>6. Size(o) \in Nat \ {0}
  BY <1>1, <1>3, <1>5 DEF Size
<1> QED
  BY <1>1, <1>2, <1>3, <1>4, <1>5, <1>6

\* A dynamic argument is its length and its bytes.
LEMMA LengthAndBytes ==
  ASSUME NEW o \in Ops, NEW j \in 1 .. Len(Packs[o]), Packs[o][j].kind \in Dynamic
  PROVE  /\ Offset[o][j] \in Nat /\ Packs[o][j].bytes \in Nat
         /\ Offset[o][j + 1] = Offset[o][j] + LengthBytes + Packs[o][j].bytes
<1>1. PICK n \in Nat : n = Len(Packs[o])
  BY Offsets
<1>2. j \in 1 .. Len(Packs[o]) + 1
  BY <1>1
<1>3. Offset[o][j] \in Nat /\ Packs[o][j] \in Pack
  BY <1>2, Offsets
<1>4. Packs[o][j].bytes \in Nat /\ LengthBytes \in Nat
  BY <1>3, LayoutAssumption DEF Pack
<1>5. Offset[o][j + 1] = Offset[o][j] + PackBytes(Packs[o][j])
  BY Offsets
<1>6. PackBytes(Packs[o][j]) = LengthBytes + Packs[o][j].bytes
  BY DEF PackBytes
<1> QED
  BY <1>3, <1>4, <1>5, <1>6

\* The calls end where the last of them does.
LEMMA Starts ==
  ASSUME TypeOK, BoundsInv
  PROVE  /\ Len(sent) \in Nat /\ End \in Nat /\ put <= End /\ DOMAIN bounds = 1 .. Len(sent)
         /\ \A k \in 1 .. Len(sent) :
              /\ sent[k] \in Ops /\ bounds[k] \in Nat /\ Start(k) = bounds[k]
              /\ Start(k + 1) = bounds[k] + Size(sent[k])
         /\ \A k \in 1 .. Len(sent) + 1 : Start(k) \in Nat
         /\ Start(Len(sent) + 1) = End
<1>1. /\ sent \in Seq(Ops) /\ bounds \in Seq(Nat) /\ Len(sent) \in Nat
      /\ Len(bounds) = Len(sent)
  BY DEF TypeOK, BoundsInv
<1>2. \A k \in 1 .. Len(sent) : sent[k] \in Ops /\ bounds[k] \in Nat
  BY <1>1, ElementOfSeq
<1>3. End \in Nat
  <2>1. CASE sent = <<>>
    BY <2>1 DEF End
  <2>2. CASE sent # <<>>
    <3>1. Len(sent) \in 1 .. Len(sent)
      BY <1>1, <2>2, EmptySeq
    <3>2. Size(sent[Len(sent)]) \in Nat
      BY <1>2, <3>1, Offsets
    <3> QED
      BY <1>2, <2>2, <3>1, <3>2 DEF End
  <2> QED
    BY <2>1, <2>2
<1>4. \A k \in 1 .. Len(sent) : /\ Start(k) = bounds[k]
                                /\ Start(k + 1) = bounds[k] + Size(sent[k])
  BY DEF Start, BoundsInv
<1>5. \A k \in 1 .. Len(sent) + 1 : Start(k) \in Nat
  BY <1>1, <1>2, <1>3 DEF Start
<1>6. Start(Len(sent) + 1) = End
  BY <1>1 DEF Start
<1> QED
  BY <1>1, <1>2, <1>3, <1>4, <1>5, <1>6 DEF BoundsInv

\* A header that was read in place is that of call c.
LEMMA HereIsCall ==
  ASSUME TypeOK, BoundsInv, NEW c \in 1 .. Len(sent) + 1, taken = Start(c) + HeaderBytes
  PROVE  c \in 1 .. Len(sent) /\ Here = {c}
<1>1. HeaderBytes \in Nat \ {0} /\ taken \in Nat /\ put \in Nat /\ taken <= put
  BY LayoutAssumption DEF TypeOK
<1>2. c # Len(sent) + 1
  <2>1. ASSUME c = Len(sent) + 1 PROVE FALSE
    <3>1. taken = End + HeaderBytes /\ End \in Nat /\ put <= End
      BY <2>1, Starts
    <3> QED
      BY <1>1, <3>1
  <2> QED
    BY <2>1
<1>3. c \in 1 .. Len(sent)
  BY <1>2, Starts
<1>4. \A k \in 1 .. Len(sent) : bounds[k] \in Nat /\ (bounds[k] = bounds[c] => k = c)
  BY <1>3, Starts DEF BoundsInv
<1>5. taken = bounds[c] + HeaderBytes /\ bounds[c] \in Nat
  BY <1>3, Starts
<1>6. \A k \in 1 .. Len(sent) : bounds[k] + HeaderBytes = taken <=> k = c
  BY <1>1, <1>3, <1>4, <1>5
<1> QED
  BY <1>3, <1>6, Starts DEF Here

\* No step of the session moves a call.
LEMMA SessionKeepsCalls ==
  ASSUME StreamInv, UNCHANGED <<sent, bounds, put, client, left, fetched, got>>, LinkGoesOn
  PROVE  /\ BoundsInv' /\ End' = End /\ \A k : Start(k)' = Start(k)
         /\ UnderstoodCalls' <=> UnderstoodCalls
         /\ UNCHANGED answers => AnswersMatchCalls'
         /\ UNCHANGED executed => ExecutedInOrder' /\ \A c : Served(c)' <=> Served(c)
         /\ UNCHANGED <<answers, written, owed>> => \A c : AnswersAt(c) => AnswersAt(c)'
         /\ UNCHANGED taken => (Lost => Lost')
<1>1. End' = End
  BY DEF End
<1>2. \A k : Start(k)' = Start(k)
  BY <1>1 DEF Start
<1>3. BoundsInv'
  BY <1>1, <1>2 DEF StreamInv, BoundsInv
<1>4. UnderstoodCalls' <=> UnderstoodCalls
  BY DEF UnderstoodCalls
<1>5. UNCHANGED answers => AnswersMatchCalls'
  BY <1>4 DEF StreamInv, AnswersMatchCalls
<1>6. UNCHANGED executed => ExecutedInOrder'
  BY <1>4 DEF StreamInv, ExecutedInOrder, LinkGoesOn
<1>7. UNCHANGED executed => \A c : Served(c)' <=> Served(c)
  BY DEF Served
<1>8. UNCHANGED <<answers, written, owed>> => \A c : AnswersAt(c) => AnswersAt(c)'
  <2>1. UNCHANGED <<answers, written, owed>> => \A n : Owing(n) => Owing(n)'
    BY DEF Owing, LinkGoesOn
  <2> QED
    BY <2>1 DEF AnswersAt, Silent, NextAnswered
<1>9. UNCHANGED taken => (Lost => Lost')
  BY DEF Lost, LinkGoesOn
<1> QED
  BY <1>1, <1>2, <1>3, <1>4, <1>5, <1>6, <1>7, <1>8, <1>9

\* The numbers both sides count with.
LEMMA Numbers ==
  ASSUME TypeOK
  PROVE  /\ put \in Nat /\ taken \in Nat /\ taken <= put /\ put - taken <= Capacity
         /\ written \in Nat /\ fetched \in Nat /\ fetched <= written
         /\ written - fetched <= Capacity /\ Capacity \in Nat
         /\ left \in Nat /\ want \in Nat /\ owed \in Nat /\ at \in Nat
         /\ HeaderBytes \in Nat \ {0} /\ LengthBytes \in Nat \ {0}
         /\ Len(sent) \in Nat /\ Len(answers) \in Nat /\ Len(got) \in Nat
         /\ Len(executed) \in Nat
         /\ DOMAIN sent = 1 .. Len(sent) /\ DOMAIN answers = 1 .. Len(answers)
         /\ DOMAIN got = 1 .. Len(got) /\ DOMAIN executed = 1 .. Len(executed)
<1>1. Capacity \in Nat /\ HeaderBytes \in Nat \ {0} /\ LengthBytes \in Nat \ {0}
  BY LayoutAssumption
<1> QED
  BY <1>1 DEF TypeOK

\* The answers have a length.
LEMMA Replies ==
  ASSUME TypeOK
  PROVE  \A k \in 1 .. Len(sent) : sent[k] \in Ops /\ Reply[sent[k]] \in Nat
<1>1. \A k \in 1 .. Len(sent) : sent[k] \in Ops
  BY ElementOfSeq DEF TypeOK
<1> QED
  BY <1>1, LayoutAssumption

-----------------------------------------------------------------------------
(* The answers                                                             *)

\* The session goes past a call that has no answer.
LEMMA PassesCall ==
  ASSUME TypeOK, NEW c \in 1 .. Len(sent), AnswersAt(c), Reply[sent[c]] = 0
  PROVE  AnswersAt(c + 1)
<1> DEFINE last == Len(sent)
           a == Len(answers)
           g == Len(got)
<1>1. last \in Nat /\ a \in Nat /\ g \in Nat /\ c <= last /\ c + 1 \in Nat
  BY Numbers
<1>2. \A k \in Nat : NextAnswered(c, k) => NextAnswered(c + 1, k)
  BY DEF NextAnswered
<1>3. client = "idle" => a = g /\ Silent /\ NextAnswered(c + 1, last + 1)
  BY <1>1, <1>2 DEF AnswersAt
<1>4. client = "sending" =>
        /\ a = g /\ Silent /\ NextAnswered(c + 1, last)
        /\ c + 1 = last + 1 => Reply[sent[last]] = 0
  <2> SUFFICES ASSUME client = "sending"
               PROVE  /\ a = g /\ Silent /\ NextAnswered(c + 1, last)
                      /\ c + 1 = last + 1 => Reply[sent[last]] = 0
    OBVIOUS
  <2>1. c # last + 1
    BY <1>1
  <2>2. a = g /\ Silent /\ NextAnswered(c, last)
    BY <2>1 DEF AnswersAt
  <2>3. c + 1 = last + 1 => c = last
    BY <1>1
  <2> QED
    BY <1>1, <1>2, <2>2, <2>3
<1>5. client = "receiving" =>
        /\ g > 0 /\ got[g].call = last /\ last > 0 /\ Reply[sent[last]] > 0
        /\ fetched + left = got[g].from + Reply[sent[last]]
        /\ a + 1 = g
  <2>1. c # last + 1
    BY <1>1
  <2> QED
    BY <2>1 DEF AnswersAt
<1>6. a < g =>
        /\ a + 1 = g /\ owed = 0 /\ written = got[g].from
        /\ c + 1 <= got[g].call /\ got[g].call <= last /\ Reply[sent[got[g].call]] > 0
        /\ NextAnswered(c + 1, got[g].call)
  <2> SUFFICES ASSUME a < g
               PROVE  /\ a + 1 = g /\ owed = 0 /\ written = got[g].from
                      /\ c + 1 <= got[g].call /\ got[g].call <= last
                      /\ Reply[sent[got[g].call]] > 0
                      /\ NextAnswered(c + 1, got[g].call)
    OBVIOUS
  <2>1. /\ a + 1 = g /\ owed = 0 /\ written = got[g].from
        /\ c <= got[g].call /\ got[g].call <= last /\ Reply[sent[got[g].call]] > 0
        /\ NextAnswered(c, got[g].call)
    BY DEF AnswersAt
  <2>2. PICK k \in Nat : k = got[g].call
    <3>1. g \in 1 .. Len(got) /\ got \in Seq([call : Nat, from : Nat])
      BY <1>1, <2>1 DEF TypeOK
    <3>2. got[g] \in [call : Nat, from : Nat]
      BY <3>1, ElementOfSeq
    <3> QED
      BY <3>2
  <2>3. c # k
    BY <2>1, <2>2
  <2>4. c + 1 <= k
    BY <2>1, <2>2, <2>3
  <2> QED
    BY <1>2, <2>1, <2>2, <2>4
<1> QED
  BY <1>3, <1>4, <1>5, <1>6 DEF AnswersAt

\* The session begins the answer to a call: its client reads for it, will, or is gone.
LEMMA AnswerBegins ==
  ASSUME TypeOK, NEW c \in 1 .. Len(sent), AnswersAt(c), Reply[sent[c]] > 0,
         UNCHANGED <<sent, client, left, fetched, got, link, written>>,
         answers' = Append(answers, [call |-> c, from |-> written]),
         owed' = Reply[sent[c]],
         \A i \in DOMAIN got : i \in DOMAIN answers => answers[i] = got[i]
  PROVE  /\ AnswersAt(c + 1)'
         /\ \A i \in DOMAIN got' : i \in DOMAIN answers' => answers'[i] = got'[i]
<1>1. PICK last \in Nat : last = Len(sent)
  BY Numbers
<1>2. PICK a \in Nat : a = Len(answers)
  BY Numbers
<1>3. PICK g \in Nat : g = Len(got)
  BY Numbers
<1>4. PICK r \in Nat : r = Reply[sent[c]] /\ r > 0
  BY Replies
<1>5. /\ answers \in Seq([call : Nat, from : Nat]) /\ written \in Nat /\ fetched \in Nat
      /\ got \in Seq([call : Nat, from : Nat]) /\ c \in Nat /\ c <= last /\ c >= 1
  BY <1>1 DEF TypeOK
<1>6. PICK e \in [call : Nat, from : Nat] : e = [call |-> c, from |-> written]
  BY <1>5
<1>7. /\ Len(answers') = a + 1 /\ answers'[a + 1] = [call |-> c, from |-> written]
      /\ \A i \in 1 .. a : answers'[i] = answers[i]
      /\ DOMAIN answers' = 1 .. a + 1 /\ DOMAIN answers = 1 .. a /\ DOMAIN got = 1 .. g
  BY <1>2, <1>3, <1>5, <1>6
<1>8. a < g => /\ a + 1 = g /\ owed = 0 /\ written = got[g].from
               /\ c = got[g].call /\ got[g] = [call |-> c, from |-> written]
  <2> SUFFICES ASSUME a < g
               PROVE  /\ a + 1 = g /\ owed = 0 /\ written = got[g].from
                      /\ c = got[g].call /\ got[g] = [call |-> c, from |-> written]
    OBVIOUS
  <2>1. /\ a + 1 = g /\ owed = 0 /\ written = got[g].from
        /\ c <= got[g].call /\ NextAnswered(c, got[g].call)
    BY <1>2, <1>3 DEF AnswersAt
  <2>2. got[g] \in [call : Nat, from : Nat]
    <3>1. g \in 1 .. Len(got)
      BY <1>3, <2>1
    <3> QED
      BY <1>5, <3>1, ElementOfSeq
  <2>3. PICK k \in Nat : k = got[g].call
    BY <2>2
  <2>4. ~(c \in c .. k - 1)
    <3>1. NextAnswered(c, k)
      BY <2>1, <2>3
    <3> QED
      BY <1>4, <3>1 DEF NextAnswered
  <2>5. c = k
    <3>1. c <= k /\ c \in Nat
      BY <1>5, <2>1, <2>3
    <3> QED
      BY <2>4, <3>1
  <2> QED
    BY <2>1, <2>2, <2>3, <2>5
<1>9. client # "idle"
  <2>1. c \in c .. (last + 1) - 1
    BY <1>5
  <2> QED
    BY <1>1, <1>4, <2>1 DEF AnswersAt, NextAnswered
<1>10. client = "sending" => a = g /\ Silent /\ c = last
  <2> SUFFICES ASSUME client = "sending" PROVE a = g /\ Silent /\ c = last
    OBVIOUS
  <2>1. c # last + 1
    BY <1>5
  <2>2. a = g /\ Silent /\ NextAnswered(c, last)
    BY <1>1, <1>2, <1>3, <2>1 DEF AnswersAt
  <2>3. ~(c \in c .. last - 1)
    BY <1>4, <2>2 DEF NextAnswered
  <2>4. c = last
    BY <1>5, <2>3
  <2> QED
    BY <2>2, <2>4
<1>11. client = "receiving" =>
         /\ a + 1 = g /\ c = last /\ g > 0 /\ got[g].call = last /\ last > 0
         /\ fetched + left = got[g].from + r /\ written = got[g].from
  <2> SUFFICES ASSUME client = "receiving"
               PROVE  /\ a + 1 = g /\ c = last /\ g > 0 /\ got[g].call = last /\ last > 0
                      /\ fetched + left = got[g].from + r /\ written = got[g].from
    OBVIOUS
  <2>1. c # last + 1
    BY <1>5
  <2>2. /\ g > 0 /\ got[g].call = last /\ last > 0
        /\ fetched + left = got[g].from + Reply[sent[last]]
        /\ a + 1 = g
    BY <1>1, <1>2, <1>3, <2>1 DEF AnswersAt
  <2>3. a < g
    BY <2>2
  <2> QED
    BY <1>4, <1>8, <2>2, <2>3
<1>12. AnswersAt(c + 1)'
  <2>1. Len(sent') = last /\ Len(got') = g /\ Len(answers') = a + 1
    BY <1>1, <1>3, <1>7
  <2>2. client' = "sending" =>
          /\ a + 1 = g + 1 /\ c + 1 = last + 1 /\ Reply[sent'[last]] > 0
          /\ answers'[a + 1] = [call |-> last, from |-> fetched']
          /\ written' + owed' = fetched' + Reply[sent'[last]]
    BY <1>4, <1>5, <1>7, <1>10 DEF Silent
  <2>3. client' = "receiving" =>
          /\ g > 0 /\ got'[g].call = last /\ last > 0 /\ Reply[sent'[last]] > 0
          /\ fetched' + left' = got'[g].from + Reply[sent'[last]]
          /\ a + 1 = g /\ c + 1 = last + 1
          /\ written' + owed' = got'[g].from + Reply[sent'[last]]
    BY <1>4, <1>5, <1>11
  <2>4. ~(a + 1 < g)
    BY <1>8
  <2> QED
    BY <1>9, <2>1, <2>2, <2>3, <2>4 DEF AnswersAt, Owing
<1>13. ASSUME NEW i \in DOMAIN got', i \in DOMAIN answers'
       PROVE  answers'[i] = got'[i]
  <2>1. i \in 1 .. g /\ i \in 1 .. a + 1
    BY <1>7, <1>13
  <2>2. CASE i \in 1 .. a
    BY <1>7, <2>1, <2>2
  <2>3. CASE i = a + 1
    <3>1. a < g
      BY <2>1, <2>3
    <3>2. i = g /\ got[g] = [call |-> c, from |-> written]
      BY <1>8, <2>3, <3>1
    <3>3. answers'[i] = [call |-> c, from |-> written]
      BY <1>7, <2>3
    <3> QED
      BY <3>2, <3>3
  <2>4. i \in 1 .. a \/ i = a + 1
    BY <2>1
  <2> QED
    BY <2>2, <2>3, <2>4
<1> QED
  BY <1>12, <1>13

-----------------------------------------------------------------------------
(* The client                                                              *)

\* Whatever the client does, the session stays where it is.
LEMMA ClientKeepsPlace ==
  ASSUME StreamInv, Lost => Lost', UNCHANGED serverVars,
         sent' \in Seq(Ops), Len(sent) <= Len(sent'),
         \A k \in 1 .. Len(sent) : sent'[k] = sent[k] /\ bounds'[k] = bounds[k],
         \A k \in 1 .. Len(sent) + 1 : Start(k)' = Start(k)
  PROVE  /\ ParserInv' /\ LostInv' /\ ExecutedInOrder'
         /\ UnderstoodCalls' => UnderstoodCalls
         /\ \A c \in 1 .. Len(sent) + 1 :
              Served(c) /\ StandsAt(c) => Served(c)' /\ StandsAt(c)'
<1> USE DEF StreamInv
<1>1. /\ UNCHANGED <<session, taken, want, op, at, pack, args, executed>>
      /\ UNCHANGED <<answers, written, owed>>
  BY DEF serverVars, readVars, answerVars
<1>2. PICK n \in Nat : n = Len(sent)
  BY Numbers
<1>3. PICK m \in Nat : m = Len(sent')
  OBVIOUS
<1>4. /\ n <= m /\ DOMAIN sent = 1 .. n /\ DOMAIN sent' = 1 .. m
      /\ DOMAIN executed = 1 .. Len(executed) /\ Len(executed) \in Nat
  BY <1>2, <1>3, Numbers
<1>5. Lost => link' # "open"
  BY DEF Lost
<1>6. \A i \in DOMAIN executed :
        executed[i].args # "all" => i = Len(executed) /\ link' # "open"
  BY <1>5 DEF LostInv
<1>7. ParserInv'
  BY <1>1 DEF ParserInv
<1>8. LostInv'
  BY <1>1 DEF LostInv
<1>9. UnderstoodCalls' => UnderstoodCalls
  <2>1. \A k \in 1 .. n : k \in 1 .. m /\ sent'[k] = sent[k]
    BY <1>2, <1>4
  <2> QED
    BY <1>4, <2>1 DEF UnderstoodCalls
<1>10. ASSUME NEW c \in 1 .. Len(sent) + 1, Served(c), StandsAt(c)
       PROVE  Served(c)' /\ StandsAt(c)'
  <2>1. \A j \in 1 .. c - 1 : sent'[j] = sent[j]
    BY <1>2
  <2>2. Served(c)'
    BY <1>1, <1>10, <2>1 DEF Served
  <2>3. Start(c)' = Start(c)
    OBVIOUS
  <2>4. c \in 1 .. Len(sent) => /\ Start(c + 1)' = Start(c + 1) /\ sent'[c] = sent[c]
                                /\ c \in 1 .. Len(sent')
    BY <1>2, <1>3, <1>4
  <2>5. session = "header" =>
          (Lost' /\ want > 0) \/ taken + want = Start(c)' + HeaderBytes
    BY <1>10, <2>3 DEF StandsAt
  <2>6. session \in {"length", "data", "execute"} =>
          at = c /\ c \in 1 .. Len(sent') /\ op = sent'[c]
    BY <1>10, <2>4 DEF StandsAt
  <2>7. session = "length" /\ args = "all" =>
          taken + want = Start(c)' + Offset[op][pack] + LengthBytes
    BY <1>10, <2>3 DEF StandsAt
  <2>8. session = "data" /\ args = "all" =>
          taken + want = Start(c)' + Offset[op][pack + 1]
    BY <1>10, <2>3 DEF StandsAt
  <2>9. session = "execute" /\ args = "all" => taken = Start(c + 1)'
    BY <1>10, <2>4 DEF StandsAt
  <2>10. session = "answer" =>
           /\ at + 1 = c /\ at \in 1 .. Len(sent') /\ op = sent'[at]
           /\ Lost' \/ taken = Start(c)'
    <3>1. session = "answer" => /\ at + 1 = c /\ at \in 1 .. Len(sent) /\ op = sent[at]
                                /\ Lost \/ taken = Start(c)
      BY <1>10 DEF StandsAt
    <3>2. at \in 1 .. n => at \in 1 .. m
      BY <1>4
    <3> QED
      BY <1>2, <1>3, <2>3, <3>1, <3>2
  <2>11. StandsAt(c)'
    BY <1>1, <2>5, <2>6, <2>7, <2>8, <2>9, <2>10 DEF StandsAt
  <2> QED
    BY <2>2, <2>11
<1>11. ExecutedInOrder'
  <2>1. CASE ~UnderstoodCalls'
    BY <1>1, <1>6, <2>1 DEF ExecutedInOrder
  <2>2. CASE UnderstoodCalls'
    <3>1. UnderstoodCalls
      BY <1>9, <2>2
    <3>2. PICK c \in 1 .. Len(sent) + 1 : Served(c)
      BY <3>1 DEF OrderInv
    <3> SUFFICES ASSUME NEW i \in DOMAIN executed
                 PROVE  LET k == executed[i].call
                        IN /\ k # 0 /\ sent'[k] \in Known
                           /\ \A j \in 1 .. k - 1 :
                                sent'[j] \in Known =>
                                  \E h \in 1 .. i - 1 : executed[h].call = j
                           /\ \A h \in 1 .. i - 1 : executed[h].call < k
      BY <1>1, <1>6 DEF ExecutedInOrder
    <3>3. PICK k \in Nat : k = executed[i].call
      <4>1. executed \in Seq([call : Nat, args : {"all", "ended", "error"}])
            /\ i \in 1 .. Len(executed)
        BY <1>4 DEF TypeOK
      <4>2. executed[i] \in [call : Nat, args : {"all", "ended", "error"}]
        BY <4>1, ElementOfSeq
      <4> QED
        BY <4>2
    <3>4. /\ k # 0 /\ sent[k] \in Known
          /\ \A j \in 1 .. k - 1 :
               sent[j] \in Known => \E h \in 1 .. i - 1 : executed[h].call = j
          /\ \A h \in 1 .. i - 1 : executed[h].call < k
      BY <3>1, <3>3 DEF ExecutedInOrder
    <3>5. k < c
      BY <3>2, <3>3 DEF Served
    <3>6. k \in 1 .. n /\ \A j \in 1 .. k - 1 : j \in 1 .. n
      BY <1>2, <3>2, <3>4, <3>5
    <3> QED
      BY <1>2, <3>3, <3>4, <3>6
  <2> QED
    BY <2>1, <2>2
<1> QED
  BY <1>7, <1>8, <1>9, <1>10, <1>11

\* It makes a call, when it has the answer to the one before.
LEMMA SendCommandStep ==
  ASSUME StreamInv, NEW o \in Ops, SendCommand(o)
  PROVE  StreamInv'
<1> USE DEF StreamInv
<1>0. PICK n \in Nat : n = Len(sent)
  BY Numbers
<1>1. /\ sent \in Seq(Ops) /\ bounds \in Seq(Nat) /\ Len(sent) = n /\ Len(bounds) = n
      /\ End \in Nat /\ put = End /\ client = "idle"
  BY <1>0, Starts DEF TypeOK, BoundsInv, SendCommand
<1>2. /\ sent' \in Seq(Ops) /\ Len(sent') = n + 1 /\ sent'[n + 1] = o
      /\ \A k \in 1 .. n : sent'[k] = sent[k]
  BY <1>1 DEF SendCommand
<1>3. /\ bounds' \in Seq(Nat) /\ Len(bounds') = n + 1 /\ bounds'[n + 1] = End
      /\ \A k \in 1 .. n : bounds'[k] = bounds[k]
  BY <1>1 DEF SendCommand
<1>4. /\ client' = "sending" /\ left' = Size(o)
      /\ UNCHANGED <<put, fetched, got, link, serverVars>>
      /\ UNCHANGED <<session, taken, want, op, at, pack, args, executed>>
      /\ UNCHANGED <<answers, written, owed>>
  BY DEF SendCommand, serverVars, readVars, answerVars
<1>5. Size(o) \in Nat \ {0}
  BY Offsets
<1>6. End' = End + Size(o)
  <2>1. sent' # <<>>
    BY <1>2, EmptySeq
  <2> QED
    BY <1>2, <1>3, <2>1 DEF End
<1>7. /\ \A k \in 1 .. n + 1 : Start(k)' = Start(k)
      /\ \A k : k = n + 2 => Start(k)' = End'
  <2>1. Start(n + 1) = End /\ \A k \in 1 .. n : Start(k) = bounds[k]
    BY <1>1 DEF Start
  <2>2. \A k : Start(k)' = IF k \in 1 .. n + 1 THEN bounds'[k] ELSE End'
    BY <1>2 DEF Start
  <2>3. n + 2 \notin 1 .. n + 1
    OBVIOUS
  <2> QED
    BY <1>3, <2>1, <2>2, <2>3
<1>8. BoundsInv'
  <2>1. Start(1)' = 0
    BY <1>1, <1>7 DEF BoundsInv
  <2>2. ASSUME NEW k \in 1 .. n + 1
        PROVE  Start(k + 1)' = bounds'[k] + Size(sent'[k])
    <3>1. CASE k = n + 1
      <4>1. k + 1 = n + 2
        BY <3>1
      <4>2. Start(k + 1)' = End'
        BY <1>7, <4>1
      <4> QED
        BY <1>2, <1>3, <1>6, <3>1, <4>2
    <3>2. CASE k # n + 1
      <4>1. k \in 1 .. n /\ k + 1 \in 1 .. n + 1
        BY <3>2
      <4>2. Start(k + 1) = bounds[k] + Size(sent[k])
        BY <1>1, <4>1 DEF BoundsInv
      <4>3. Start(k + 1)' = Start(k + 1)
        BY <1>7, <4>1
      <4> QED
        BY <1>2, <1>3, <4>1, <4>2, <4>3
    <3> QED
      BY <3>1, <3>2
  <2>3. ASSUME NEW j \in 1 .. n + 1, NEW k \in 1 .. n + 1, j < k
        PROVE  bounds'[j] < bounds'[k]
    <3>1. \A i \in 1 .. n : bounds[i] < End
      <4>1. SUFFICES ASSUME NEW i \in 1 .. n PROVE bounds[i] < End
        OBVIOUS
      <4>2. n \in 1 .. n /\ sent # <<>>
        BY <1>1, <4>1
      <4>3. End = bounds[n] + Size(sent[n])
        BY <1>1, <4>2 DEF End
      <4>4. bounds[n] \in Nat /\ Size(sent[n]) \in Nat \ {0}
        BY <1>0, <4>2, Starts, Offsets
      <4>5. i = n \/ bounds[i] < bounds[n]
        BY <1>1, <4>1, <4>2 DEF BoundsInv
      <4>6. bounds[i] \in Nat
        BY <1>0, <4>1, Starts
      <4> QED
        BY <4>3, <4>4, <4>5, <4>6
    <3>2. \A h, i \in 1 .. n : h < i => bounds[h] < bounds[i]
      BY <1>1 DEF BoundsInv
    <3>3. j \in 1 .. n /\ (k = n + 1 \/ k \in 1 .. n)
      BY <2>3
    <3> QED
      BY <1>3, <2>3, <3>1, <3>2, <3>3
  <2>4. put' <= End' /\ put' + left' = End' /\ sent' # <<>>
    BY <1>1, <1>2, <1>4, <1>5, <1>6, EmptySeq
  <2> QED
    BY <1>2, <1>3, <1>4, <2>1, <2>2, <2>3, <2>4 DEF BoundsInv
<1>9. TypeOK'
  <2>1. at' \in 0 .. Len(sent')
    BY <1>1, <1>2, <1>4 DEF TypeOK
  <2> QED
    BY <1>2, <1>3, <1>4, <1>5, <2>1 DEF TypeOK
<1>10. /\ ParserInv' /\ LostInv' /\ ExecutedInOrder'
       /\ UnderstoodCalls' => UnderstoodCalls
       /\ \A c \in 1 .. Len(sent) + 1 :
            Served(c) /\ StandsAt(c) => Served(c)' /\ StandsAt(c)'
  <2>1. Lost => Lost'
    BY <1>4 DEF Lost
  <2>2. /\ Len(sent) <= Len(sent')
        /\ \A k \in 1 .. Len(sent) : sent'[k] = sent[k] /\ bounds'[k] = bounds[k]
        /\ \A k \in 1 .. Len(sent) + 1 : Start(k)' = Start(k)
    BY <1>1, <1>2, <1>3, <1>7
  <2>3. sent' \in Seq(Ops) /\ UNCHANGED serverVars
    BY <1>2, <1>4
  <2> QED
    BY <2>1, <2>2, <2>3, ClientKeepsPlace
<1>11. OrderInv'
  <2> SUFFICES ASSUME UnderstoodCalls'
               PROVE  \E c \in 1 .. Len(sent') + 1 :
                         Served(c)' /\ StandsAt(c)' /\ AnswersAt(c)'
    BY DEF OrderInv
  <2>1. PICK c \in 1 .. Len(sent) + 1 : Served(c) /\ StandsAt(c) /\ AnswersAt(c)
    BY <1>10 DEF OrderInv
  <2>2. c \in 1 .. n + 1 /\ c \in 1 .. (n + 1) + 1 /\ c # (n + 1) + 1
    BY <1>1, <2>1
  <2>3. Len(answers) = Len(got) /\ Silent /\ NextAnswered(c, n + 1)
    BY <1>1, <2>1 DEF AnswersAt
  <2>4. Silent' /\ \A j \in c .. n : Reply[sent'[j]] = 0
    <3>1. \A j \in c .. n : j \in 1 .. n /\ j \in c .. (n + 1) - 1
      BY <2>2
    <3> QED
      BY <1>2, <1>4, <2>3, <3>1 DEF Silent, NextAnswered
  <2>5. ~(Len(answers) < Len(got)) /\ \A j : j \in c .. (n + 1) - 1 <=> j \in c .. n
    BY <2>3, Numbers
  <2>6. client' = "sending" =>
          /\ Len(answers') = Len(got') /\ Silent' /\ NextAnswered(c, n + 1)'
    BY <1>4, <2>3, <2>4, <2>5 DEF NextAnswered
  <2>7. AnswersAt(c)'
    BY <1>2, <1>4, <2>2, <2>5, <2>6 DEF AnswersAt
  <2> QED
    BY <1>2, <1>10, <2>1, <2>2, <2>7
<1>12. AnswersMatchCalls'
  BY <1>4, <1>10 DEF AnswersMatchCalls
<1> QED
  BY <1>8, <1>9, <1>10, <1>11, <1>12

\* Its other steps make no call.
LEMMA ClientGoesOn ==
  ASSUME StreamInv, Lost => Lost', UNCHANGED <<sent, bounds, serverVars>>,
         TypeOK', BoundsInv', AnswersMatchCalls',
         UnderstoodCalls =>
           \A c \in 1 .. Len(sent) + 1 : AnswersAt(c) => AnswersAt(c)'
  PROVE  StreamInv'
<1>1. sent' \in Seq(Ops) /\ Len(sent) <= Len(sent') /\ Len(sent') = Len(sent)
  <2>1. sent \in Seq(Ops) /\ Len(sent) \in Nat
    BY DEF StreamInv, TypeOK
  <2> QED
    BY <2>1
<1>2. \A k : Start(k)' = Start(k)
  BY DEF Start, End
<1>3. /\ ParserInv' /\ LostInv' /\ ExecutedInOrder'
      /\ UnderstoodCalls' => UnderstoodCalls
      /\ \A c \in 1 .. Len(sent) + 1 :
           Served(c) /\ StandsAt(c) => Served(c)' /\ StandsAt(c)'
  BY <1>1, <1>2, ClientKeepsPlace
<1>4. OrderInv'
  <2> SUFFICES ASSUME UnderstoodCalls'
               PROVE  \E c \in 1 .. Len(sent') + 1 :
                         Served(c)' /\ StandsAt(c)' /\ AnswersAt(c)'
    BY DEF OrderInv
  <2>1. PICK c \in 1 .. Len(sent) + 1 : Served(c) /\ StandsAt(c) /\ AnswersAt(c)
    BY <1>3 DEF StreamInv, OrderInv
  <2> QED
    BY <1>1, <1>3, <2>1
<1> QED
  BY <1>3, <1>4 DEF StreamInv

\* A reset loses some of what the session has not read.
LEMMA BytesLost ==
  ASSUME TypeOK, NEW p \in taken .. put
  PROVE  p \in Nat /\ taken <= p /\ p <= put /\ p - taken <= Capacity
<1>1. put \in Nat /\ taken \in Nat /\ put - taken <= Capacity /\ Capacity \in Nat
  BY Numbers
<1>2. p \in Nat /\ taken <= p /\ p <= put
  BY <1>1
<1>3. p - taken <= put - taken
  BY <1>1, <1>2
<1> QED
  BY <1>1, <1>2, <1>3

\* It leaves, or meets the end of the session.
LEMMA GoneStep ==
  ASSUME StreamInv, client # "gone", client' = "gone",
         UNCHANGED <<sent, bounds, fetched, got, serverVars>>, left' \in Nat,
         LinkGoesOn, put' \in taken .. put
  PROVE  StreamInv'
<1> USE DEF StreamInv
<1>1. UNCHANGED <<session, taken, want, op, at, pack, args, executed, answers, written, owed>>
  BY DEF serverVars, readVars, answerVars
<1>2. put' \in Nat /\ taken <= put' /\ put' <= put /\ put' - taken <= Capacity
  BY BytesLost
<1>3. TypeOK'
  BY <1>1, <1>2 DEF TypeOK, LinkGoesOn
<1>4. BoundsInv'
  <2>1. End' = End /\ \A k : Start(k)' = Start(k)
    BY DEF Start, End
  <2>2. put' <= End
    <3>1. put \in Nat /\ End \in Nat /\ put <= End
      BY Numbers, Starts
    <3> QED
      BY <1>2, <3>1
  <2> QED
    BY <2>1, <2>2 DEF BoundsInv
<1>5. AnswersMatchCalls'
  BY <1>1 DEF AnswersMatchCalls, UnderstoodCalls
<1>6. \A c : AnswersAt(c) => AnswersAt(c)'
  BY <1>1 DEF AnswersAt, NextAnswered
<1>7. Lost => Lost'
  <2>1. taken = put => put' = taken'
    BY <1>1, <1>2, Numbers
  <2> QED
    BY <2>1 DEF Lost, LinkGoesOn
<1> QED
  BY <1>3, <1>4, <1>5, <1>6, <1>7, ClientGoesOn

\* It puts bytes of its call.
LEMMA SendStep ==
  ASSUME StreamInv, Send
  PROVE  StreamInv'
<1> USE DEF StreamInv
<1>1. PICK n \in 1 .. LowerOf(left, Capacity - (put - taken)) :
           put' = put + n /\ left' = left - n
  BY DEF Send
<1>2. /\ client = "sending" /\ client' = client /\ link = "open"
      /\ UNCHANGED <<sent, bounds, fetched, got, link, serverVars>>
      /\ UNCHANGED <<session, taken, want, op, at, pack, args, executed>>
      /\ UNCHANGED <<answers, written, owed>>
  BY DEF Send, serverVars, readVars, answerVars
<1>3. /\ put' \in Nat /\ taken \in 0 .. put' /\ put' - taken <= Capacity
      /\ left' \in Nat /\ put' + left' = put + left
  <2>1. /\ put \in Nat /\ taken \in Nat /\ taken <= put /\ left \in Nat
        /\ Capacity \in Nat
    BY Numbers
  <2>2. n \in Nat /\ n <= left /\ n <= Capacity - (put - taken)
    BY <1>1, <2>1 DEF LowerOf
  <2> QED
    BY <1>1, <2>1, <2>2
<1>4. TypeOK'
  BY <1>2, <1>3 DEF TypeOK
<1>5. BoundsInv'
  <2>1. End' = End /\ \A k : Start(k)' = Start(k)
    BY <1>2 DEF Start, End
  <2>2. put' + left' = End /\ End \in Nat
    BY <1>2, <1>3, Starts DEF BoundsInv
  <2>3. put' <= End
    <3>1. put' \in Nat /\ left' \in Nat
      BY <1>3
    <3> QED
      BY <2>2, <3>1, SumBounds
  <2> QED
    BY <1>2, <2>1, <2>2, <2>3 DEF BoundsInv
<1>6. AnswersMatchCalls'
  BY <1>2 DEF AnswersMatchCalls, UnderstoodCalls
<1>7. \A c : AnswersAt(c) => AnswersAt(c)'
  BY <1>2 DEF AnswersAt, NextAnswered, Silent, Owing
<1>8. ~Lost
  BY <1>2 DEF Lost
<1> QED
  BY <1>2, <1>4, <1>5, <1>6, <1>7, <1>8, ClientGoesOn

\* Its send fails.
LEMMA SendRaisesStep ==
  ASSUME StreamInv, SendRaises
  PROVE  StreamInv'
<1>1. /\ client = "sending" /\ client' = "gone"
      /\ UNCHANGED <<sent, bounds, put, left, fetched, got, serverVars>>
      /\ link' = link \/ (link = "shut" /\ link' = "reset")
  BY DEF SendRaises
<1>2. TypeOK /\ left' \in Nat
  BY <1>1 DEF StreamInv, TypeOK
<1>3. LinkGoesOn
  BY <1>1, <1>2 DEF LinkGoesOn, TypeOK
<1>4. put' \in taken .. put
  BY <1>1, <1>2, Numbers
<1> QED
  BY <1>1, <1>2, <1>3, <1>4, GoneStep

\* It sent its call, and reads for the answer unless there is none.
LEMMA SentStep ==
  ASSUME StreamInv, Sent
  PROVE  StreamInv'
<1> USE DEF StreamInv
<1>1. /\ client = "sending" /\ left = 0
      /\ UNCHANGED <<sent, bounds, put, fetched, link, serverVars>>
      /\ UNCHANGED <<session, taken, want, op, at, pack, args, executed>>
      /\ UNCHANGED <<answers, written, owed>>
  BY DEF Sent, serverVars, readVars, answerVars
<1>2. PICK last \in Nat : last = Len(sent)
  BY Numbers
<1>3. last \in 1 .. last /\ last > 0
  <2>1. sent # <<>>
    BY <1>1 DEF BoundsInv
  <2> QED
    BY <1>2, <2>1, EmptySeq DEF TypeOK
<1>4. PICK r \in Nat : r = Reply[sent[last]]
  BY <1>2, <1>3, Replies
<1>5. PICK g \in Nat : g = Len(got)
  BY Numbers
<1>6. PICK e \in [call : Nat, from : Nat] : e = [call |-> last, from |-> fetched]
  BY Numbers
<1>7. /\ got \in Seq([call : Nat, from : Nat]) /\ DOMAIN got = 1 .. g
      /\ DOMAIN answers = 1 .. Len(answers) /\ Len(answers) \in Nat
  BY <1>5, Numbers DEF TypeOK
<1>8. /\ left' = r
      /\ client' = IF r = 0 THEN "idle" ELSE "receiving"
      /\ got' = IF r = 0 THEN got ELSE Append(got, e)
  BY <1>2, <1>4, <1>6 DEF Sent
<1>9. r # 0 => /\ got' \in Seq([call : Nat, from : Nat]) /\ Len(got') = g + 1
               /\ got'[g + 1] = e /\ DOMAIN got' = 1 .. g + 1
               /\ \A i \in 1 .. g : got'[i] = got[i]
  BY <1>5, <1>7, <1>8
<1>10. TypeOK'
  BY <1>1, <1>7, <1>8, <1>9 DEF TypeOK
<1>11. BoundsInv'
  <2>1. End' = End /\ \A k : Start(k)' = Start(k)
    BY <1>1 DEF Start, End
  <2>2. put = End
    <3>1. put + left = End /\ put \in Nat
      BY <1>1, Numbers DEF BoundsInv
    <3> QED
      BY <1>1, <3>1
  <2> QED
    BY <1>1, <1>8, <2>1, <2>2 DEF BoundsInv
<1>12. ASSUME UnderstoodCalls, NEW c \in 1 .. Len(sent) + 1, AnswersAt(c)
       PROVE  AnswersAt(c)' /\ \A i \in DOMAIN got' : i \in DOMAIN answers => answers[i] = got'[i]
  <2>1. \/ /\ Len(answers) = g /\ Silent /\ NextAnswered(c, last)
           /\ c = last + 1 => r = 0
        \/ /\ Len(answers) = g + 1 /\ c = last + 1 /\ r > 0
           /\ answers[Len(answers)] = e
           /\ Owing(fetched + r)
    BY <1>1, <1>2, <1>4, <1>5, <1>6, <1>12 DEF AnswersAt
  <2>2. \A i \in 1 .. g : i \in DOMAIN answers => answers[i] = got[i]
    BY <1>7, <1>12 DEF AnswersMatchCalls
  <2>3. c \in Nat /\ c <= last + 1 /\ c >= 1
    BY <1>2
  <2>4. CASE r = 0
    <3>1. Len(answers) = g /\ Silent /\ NextAnswered(c, last)
      BY <2>1, <2>4
    <3>2. NextAnswered(c, last + 1)
      <4>1. SUFFICES ASSUME NEW j \in c .. (last + 1) - 1 PROVE Reply[sent[j]] = 0
        BY DEF NextAnswered
      <4>2. j = last \/ j \in c .. last - 1
        BY <2>3
      <4> QED
        BY <1>4, <2>4, <3>1, <4>2 DEF NextAnswered
    <3>3. client' = "idle" /\ got' = got /\ ~(Len(answers) < g)
      BY <1>8, <2>4, <3>1
    <3>4. AnswersAt(c)'
      BY <1>1, <1>2, <1>5, <3>1, <3>2, <3>3 DEF AnswersAt, Silent, NextAnswered
    <3> QED
      BY <1>7, <2>2, <3>3, <3>4
  <2>5. CASE r # 0 /\ Len(answers) = g
    <3>1. Silent /\ NextAnswered(c, last) /\ c <= last
      BY <2>1, <2>3, <2>5
    <3>2. client' = "receiving" /\ Len(got') = g + 1 /\ got'[g + 1] = e
      BY <1>8, <1>9, <2>5
    <3>3. fetched + r = e.from + r /\ owed = 0 /\ written = e.from /\ e.call = last
      BY <1>6, <3>1 DEF Silent
    <3>4. AnswersAt(c)'
      <4>1. client' = "receiving" =>
              /\ g + 1 > 0 /\ got'[g + 1].call = last /\ last > 0 /\ Reply[sent[last]] > 0
              /\ fetched + left' = got'[g + 1].from + Reply[sent[last]]
              /\ Len(answers) + 1 = g + 1
        BY <1>3, <1>4, <1>8, <2>5, <3>2, <3>3
      <4>2. /\ Len(answers) + 1 = g + 1 /\ owed = 0 /\ written = got'[g + 1].from
            /\ c <= got'[g + 1].call /\ got'[g + 1].call <= last
            /\ Reply[sent[got'[g + 1].call]] > 0
            /\ NextAnswered(c, got'[g + 1].call)
        BY <1>3, <1>4, <2>5, <3>1, <3>2, <3>3
      <4>3. NextAnswered(c, got'[g + 1].call) =>
              \A j \in c .. got'[g + 1].call - 1 : Reply[sent[j]] = 0
        BY DEF NextAnswered
      <4> QED
        BY <1>1, <1>2, <3>2, <4>1, <4>2, <4>3 DEF AnswersAt, NextAnswered
    <3>5. \A i \in 1 .. g + 1 : i \in DOMAIN answers => i \in 1 .. g
      BY <1>7, <2>5
    <3> QED
      BY <1>7, <1>9, <2>2, <2>5, <3>4, <3>5
  <2>6. CASE r # 0 /\ Len(answers) # g
    <3>1. /\ Len(answers) = g + 1 /\ c = last + 1
          /\ answers[g + 1] = e /\ Owing(fetched + r)
      BY <2>1, <2>6
    <3>2. client' = "receiving" /\ Len(got') = g + 1 /\ got'[g + 1] = e
      BY <1>8, <1>9, <2>6
    <3>3. AnswersAt(c)'
      <4>1. client' = "receiving" =>
              /\ g + 1 > 0 /\ got'[g + 1].call = last /\ last > 0 /\ Reply[sent[last]] > 0
              /\ fetched + left' = got'[g + 1].from + Reply[sent[last]]
              /\ Len(answers) = g + 1 /\ c = last + 1
              /\ Owing(got'[g + 1].from + Reply[sent[last]])
        BY <1>3, <1>4, <1>6, <1>8, <2>6, <3>1, <3>2
      <4>2. ~(Len(answers) < g + 1)
        BY <3>1
      <4> QED
        BY <1>1, <1>2, <3>2, <4>1, <4>2 DEF AnswersAt, Owing
    <3>4. \A i \in 1 .. g + 1 : i \in 1 .. g \/ i = g + 1
      OBVIOUS
    <3> QED
      BY <1>9, <2>2, <2>6, <3>1, <3>2, <3>3, <3>4
  <2> QED
    BY <2>4, <2>5, <2>6
<1>13. AnswersMatchCalls'
  <2>1. UnderstoodCalls' => UnderstoodCalls
    BY <1>1 DEF UnderstoodCalls
  <2>2. UnderstoodCalls => \E c \in 1 .. Len(sent) + 1 : AnswersAt(c)
    BY DEF OrderInv
  <2> QED
    BY <1>1, <1>12, <2>1, <2>2 DEF AnswersMatchCalls
<1>14. Lost => Lost'
  BY <1>1 DEF Lost
<1> QED
  BY <1>1, <1>10, <1>11, <1>12, <1>13, <1>14, ClientGoesOn

\* It reads bytes of the answer.
LEMMA RecvAllStep ==
  ASSUME StreamInv, RecvAll
  PROVE  StreamInv'
<1> USE DEF StreamInv
<1>1. /\ client = "receiving" /\ UNCHANGED <<sent, bounds, put, client, got, link, serverVars>>
      /\ UNCHANGED <<session, taken, want, op, at, pack, args, executed>>
      /\ UNCHANGED <<answers, written, owed>>
  BY DEF RecvAll, serverVars, readVars, answerVars
<1>2. PICK n \in 1 .. LowerOf(left, written - fetched) :
           fetched' = fetched + n /\ left' = left - n
  BY DEF RecvAll
<1>3. /\ fetched' \in 0 .. written /\ written - fetched' <= Capacity
      /\ left' \in Nat /\ fetched' + left' = fetched + left
  <2>1. /\ written \in Nat /\ fetched \in Nat /\ fetched <= written /\ left \in Nat
        /\ Capacity \in Nat /\ written - fetched <= Capacity
    BY Numbers
  <2>2. n \in Nat /\ n <= left /\ n <= written - fetched
    BY <1>2, <2>1 DEF LowerOf
  <2> QED
    BY <1>2, <2>1, <2>2
<1>4. TypeOK'
  BY <1>1, <1>3 DEF TypeOK
<1>5. BoundsInv'
  <2>1. End' = End /\ \A k : Start(k)' = Start(k)
    BY <1>1 DEF Start, End
  <2> QED
    BY <1>1, <2>1 DEF BoundsInv
<1>6. AnswersMatchCalls'
  BY <1>1 DEF AnswersMatchCalls, UnderstoodCalls
<1>7. \A c : AnswersAt(c) => AnswersAt(c)'
  BY <1>1, <1>3 DEF AnswersAt, NextAnswered, Owing
<1>8. Lost => Lost'
  BY <1>1 DEF Lost
<1> QED
  BY <1>1, <1>4, <1>5, <1>6, <1>7, <1>8, ClientGoesOn

\* It has the whole answer, and there is nothing more to come.
LEMMA ReceivedStep ==
  ASSUME StreamInv, Received
  PROVE  StreamInv'
<1> USE DEF StreamInv
<1>1. /\ client = "receiving" /\ left = 0 /\ client' = "idle"
      /\ UNCHANGED <<sent, bounds, put, left, fetched, got, link, serverVars>>
      /\ UNCHANGED <<session, taken, want, op, at, pack, args, executed>>
      /\ UNCHANGED <<answers, written, owed>>
  BY DEF Received, serverVars, readVars, answerVars
<1>2. TypeOK'
  BY <1>1 DEF TypeOK
<1>3. BoundsInv'
  <2>1. End' = End /\ \A k : Start(k)' = Start(k)
    BY <1>1 DEF Start, End
  <2> QED
    BY <1>1, <2>1 DEF BoundsInv
<1>4. AnswersMatchCalls'
  BY <1>1 DEF AnswersMatchCalls, UnderstoodCalls
<1>5. ASSUME NEW c \in 1 .. Len(sent) + 1, AnswersAt(c)
      PROVE  AnswersAt(c)'
  <2>1. PICK last \in Nat : last = Len(sent)
    BY Numbers
  <2>2. PICK g \in Nat : g = Len(got)
    BY Numbers
  <2>3. PICK a \in Nat : a = Len(answers)
    BY Numbers
  <2>4. /\ g > 0 /\ got[g].call = last /\ last > 0 /\ Reply[sent[last]] > 0
        /\ fetched + left = got[g].from + Reply[sent[last]]
        /\ \/ a + 1 = g
           \/ a = g /\ c = last + 1 /\ Owing(got[g].from + Reply[sent[last]])
    BY <1>1, <1>5, <2>1, <2>2, <2>3 DEF AnswersAt
  <2>5. PICK from \in Nat : from = got[g].from
    <3>1. g \in 1 .. Len(got) /\ got \in Seq([call : Nat, from : Nat])
      BY <2>2, <2>4 DEF TypeOK
    <3>2. got[g] \in [call : Nat, from : Nat]
      BY <3>1, ElementOfSeq
    <3> QED
      BY <3>2
  <2>6. PICK r \in Nat : r = Reply[sent[last]]
    <3>1. last \in 1 .. Len(sent)
      BY <2>1, <2>4
    <3> QED
      BY <3>1, Replies
  <2>7. fetched \in Nat /\ written \in Nat /\ owed \in Nat /\ fetched <= written
    BY Numbers
  <2>8. fetched = from + r /\ r > 0
    BY <1>1, <2>4, <2>5, <2>6, <2>7
  <2>9. a + 1 # g
    <3>1. ASSUME a + 1 = g PROVE FALSE
      <4>1. a < g
        BY <3>1
      <4>2. written = from
        BY <1>5, <2>2, <2>3, <2>5, <4>1 DEF AnswersAt
      <4> QED
        BY <2>7, <2>8, <4>2
    <3> QED
      BY <3>1
  <2>10. a = g /\ c = last + 1 /\ written + owed = from + r
    <3>1. a = g /\ c = last + 1 /\ Owing(from + r)
      BY <2>4, <2>5, <2>6, <2>9
    <3>2. ~(written < from + r)
      BY <2>7, <2>8
    <3> QED
      BY <3>1, <3>2 DEF Owing
  <2>11. Silent
    <3>1. written = fetched /\ owed = 0
      BY <2>7, <2>8, <2>10
    <3> QED
      BY <3>1 DEF Silent
  <2>12. NextAnswered(c, last + 1)
    BY <2>10 DEF NextAnswered
  <2>13. ~(a < g)
    BY <2>10
  <2> QED
    BY <1>1, <2>1, <2>2, <2>3, <2>10, <2>11, <2>12, <2>13
    DEF AnswersAt, Silent, NextAnswered
<1>6. Lost => Lost'
  BY <1>1 DEF Lost
<1> QED
  BY <1>1, <1>2, <1>3, <1>4, <1>5, <1>6, ClientGoesOn

\* The recv of recv_all fails.
LEMMA RecvAllRaisesStep ==
  ASSUME StreamInv, RecvAllRaises
  PROVE  StreamInv'
<1>1. /\ client = "receiving" /\ client' = "gone" /\ taken < put
      /\ UNCHANGED <<sent, bounds, put, left, fetched, got, link, serverVars>>
  BY DEF RecvAllRaises
<1>2. left' \in Nat /\ LinkGoesOn
  BY <1>1 DEF StreamInv, TypeOK, LinkGoesOn
<1>3. put' \in taken .. put
  <2>1. TypeOK
    BY DEF StreamInv
  <2>2. put \in Nat /\ taken \in Nat
    BY <2>1, Numbers
  <2> QED
    BY <1>1, <2>2
<1> QED
  BY <1>1, <1>2, <1>3, GoneStep

\* It closes its socket.
LEMMA LeaveStep ==
  ASSUME StreamInv, Leave
  PROVE  StreamInv'
<1>1. /\ client # "gone" /\ client' = "gone"
      /\ UNCHANGED <<sent, bounds, left, fetched, got, serverVars>>
  BY DEF Leave
<1>2. left' \in Nat
  BY <1>1 DEF StreamInv, TypeOK
<1>3. LinkGoesOn
  BY DEF Leave, LinkGoesOn, Stopping, StreamInv, TypeOK
<1>4. put' \in taken .. put
  <2>1. TypeOK
    BY DEF StreamInv
  <2>2. put \in Nat /\ taken \in Nat /\ taken <= put
    BY <2>1, Numbers
  <2>3. CASE put' = put
    BY <2>2, <2>3
  <2>4. CASE put' # put
    BY <2>4 DEF Leave
  <2> QED
    BY <2>3, <2>4
<1> QED
  BY <1>1, <1>2, <1>3, <1>4, GoneStep

\* Nothing happens.
LEMMA Stutter ==
  ASSUME StreamInv, UNCHANGED vars
  PROVE  StreamInv'
<1>1. /\ UNCHANGED <<sent, bounds, put, client, left, fetched, got, link>>
      /\ UNCHANGED <<session, taken, want, op, at, pack, args, executed>>
      /\ UNCHANGED <<answers, written, owed>>
  BY DEF vars, clientVars, serverVars, readVars, answerVars
<1>2. /\ End' = End /\ \A k : Start(k)' = Start(k)
      /\ UnderstoodCalls' <=> UnderstoodCalls
  BY <1>1 DEF End, Start, UnderstoodCalls
<1>3. TypeOK' /\ BoundsInv' /\ ParserInv' /\ LostInv'
  <2>1. TypeOK'
    BY <1>1 DEF StreamInv, TypeOK
  <2>2. BoundsInv'
    BY <1>1, <1>2 DEF StreamInv, BoundsInv
  <2>3. ParserInv' /\ LostInv'
    BY <1>1 DEF StreamInv, ParserInv, LostInv, Lost
  <2> QED
    BY <2>1, <2>2, <2>3
<1>4. \A c : Served(c)' <=> Served(c)
  BY <1>1 DEF Served
<1>5. \A c : StandsAt(c)' <=> StandsAt(c)
  BY <1>1, <1>2 DEF StandsAt, Lost
<1>6. \A c : AnswersAt(c)' <=> AnswersAt(c)
  BY <1>1 DEF AnswersAt, Silent, NextAnswered, Owing
<1>7. OrderInv'
  BY <1>1, <1>2, <1>4, <1>5, <1>6 DEF StreamInv, OrderInv
<1>8. ExecutedInOrder' /\ AnswersMatchCalls'
  BY <1>1, <1>2 DEF StreamInv, ExecutedInOrder, AnswersMatchCalls
<1> QED
  BY <1>3, <1>7, <1>8 DEF StreamInv

\* No step of the client breaks the invariant.
LEMMA ClientStep ==
  ASSUME StreamInv, Client
  PROVE  StreamInv'
<1>1. RecvAllEmpty => UNCHANGED vars
  BY DEF RecvAllEmpty
<1> QED
  BY <1>1, SendCommandStep, SendStep, SendRaisesStep, SentStep, RecvAllStep,
     ReceivedStep, RecvAllRaisesStep, LeaveStep, Stutter DEF Client

-----------------------------------------------------------------------------
(* The session reads                                                       *)

\* A connection goes on as it was.
LEMMA LinkKept ==
  ASSUME TypeOK, UNCHANGED link
  PROVE  LinkGoesOn
BY DEF TypeOK, LinkGoesOn

\* What remains to be shown of a step of the session.
LEMMA SessionGoesOn ==
  ASSUME StreamInv, UNCHANGED <<sent, bounds, put, client, left, fetched, got>>,
         LinkGoesOn, TypeOK', ParserInv', LostInv', ExecutedInOrder', AnswersMatchCalls',
         UnderstoodCalls =>
           \A c \in 1 .. Len(sent) + 1 :
             Served(c) /\ StandsAt(c) /\ AnswersAt(c) =>
               \E d \in 1 .. Len(sent) + 1 : Served(d)' /\ StandsAt(d)' /\ AnswersAt(d)'
  PROVE  StreamInv'
<1>2. BoundsInv' /\ (UnderstoodCalls' <=> UnderstoodCalls)
  BY SessionKeepsCalls
<1>3. OrderInv'
  BY <1>2 DEF StreamInv, OrderInv
<1> QED
  BY <1>2, <1>3 DEF StreamInv

\* The parser comes to pack j of call c, if so far all has arrived.
LEMMA ParserStands ==
  ASSUME StreamInv, NEW o \in Known, NEW j \in 1 .. Len(Packs[o]) + 1, ParseFrom(o, j),
         op' = o, UNCHANGED <<sent, bounds, taken>>, args' \in {"all", "ended", "error"}
  PROVE  /\ session' \in {"length", "data", "execute"} /\ want' \in Nat /\ pack' \in Nat
         /\ ParserInv'
         /\ session' = "length" => want' > 0
         /\ \A c \in 1 .. Len(sent) :
              at' = c /\ sent[c] = o /\ (args' = "all" => taken = Start(c) + Offset[o][j]) =>
                StandsAt(c)'
<1> USE DEF StreamInv
<1>1. o \in Ops
  BY LayoutAssumption
<1>2. PICK n \in Nat : n = Len(Packs[o])
  BY <1>1, Offsets
<1>3. /\ LengthBytes \in Nat \ {0} /\ taken \in Nat
      /\ \A i \in 1 .. n + 1 : Offset[o][i] \in Nat
      /\ Size(o) = Offset[o][n + 1]
  BY <1>1, <1>2, Offsets, Numbers DEF Size
<1>4. j \in Nat /\ j <= n + 1 /\ j >= 1 /\ pack' = j /\ j \in 1 .. n + 1
  BY <1>2 DEF ParseFrom
<1>5. j # n + 1 =>
        /\ j \in 1 .. n /\ Packs[o][j] \in Pack
        /\ Offset[o][j + 1] = Offset[o][j] + PackBytes(Packs[o][j])
  BY <1>1, <1>2, <1>4, Offsets
<1>6. CASE j = n + 1
  <2>1. session' = "execute" /\ want' = 0
    <3>1. j > Len(Packs[o]) /\ ~(j <= Len(Packs[o]))
      BY <1>2, <1>6
    <3> QED
      BY <3>1 DEF ParseFrom
  <2>2. ASSUME NEW c \in 1 .. Len(sent), at' = c, sent[c] = o,
               args' = "all" => taken = Start(c) + Offset[o][j]
        PROVE  StandsAt(c)'
    <3>1. Start(c + 1) = bounds[c] + Size(o) /\ Start(c) = bounds[c]
      BY <2>2, Starts
    <3>2. args' = "all" => taken = Start(c + 1)
      BY <1>3, <1>6, <2>2, <3>1
    <3>3. \A k : Start(k)' = Start(k)
      BY DEF Start, End
    <3> QED
      BY <2>1, <2>2, <3>2, <3>3 DEF StandsAt
  <2> QED
    BY <1>4, <2>1, <2>2 DEF ParserInv
<1>7. CASE j # n + 1 /\ Packs[o][j].kind \in Dynamic
  <2>1. session' = "length" /\ want' = LengthBytes
    <3>1. ~(j > Len(Packs[o])) /\ j <= Len(Packs[o])
      BY <1>2, <1>4, <1>7
    <3>2. Packs[o][j].kind # "fixed"
      BY <1>7 DEF Dynamic
    <3> QED
      BY <1>7, <3>1, <3>2 DEF ParseFrom, Receive
  <2>2. ASSUME NEW c \in 1 .. Len(sent), at' = c, sent[c] = o,
               args' = "all" => taken = Start(c) + Offset[o][j]
        PROVE  StandsAt(c)'
    <3>1. args' = "all" => taken + want' = Start(c) + Offset[o][j] + LengthBytes
      BY <2>1, <2>2
    <3>2. \A k : Start(k)' = Start(k)
      BY DEF Start, End
    <3> QED
      BY <1>4, <2>1, <2>2, <3>1, <3>2 DEF StandsAt
  <2>3. want' \in Nat /\ want' > 0
    BY <1>3, <2>1
  <2> QED
    BY <1>2, <1>4, <1>5, <1>7, <2>1, <2>2, <2>3 DEF ParserInv
<1>8. CASE j # n + 1 /\ Packs[o][j].kind \notin Dynamic
  <2>1. Packs[o][j].kind = "fixed" /\ Packs[o][j].bytes \in Nat
    BY <1>5, <1>8 DEF Pack
  <2>2. session' = "data" /\ want' = Packs[o][j].bytes
    <3>1. ~(j > Len(Packs[o])) /\ j <= Len(Packs[o])
      BY <1>2, <1>4, <1>8
    <3> QED
      BY <1>8, <2>1, <3>1 DEF ParseFrom, Receive
  <2>3. Offset[o][j + 1] = Offset[o][j] + want'
    BY <1>5, <1>8, <2>1, <2>2 DEF PackBytes
  <2>4. ASSUME NEW c \in 1 .. Len(sent), at' = c, sent[c] = o,
               args' = "all" => taken = Start(c) + Offset[o][j]
        PROVE  StandsAt(c)'
    <3>1. Start(c) \in Nat /\ Offset[o][j] \in Nat /\ want' \in Nat
      <4>1. c \in 1 .. Len(sent) + 1
        BY Numbers
      <4> QED
        BY <1>3, <1>4, <2>1, <2>2, <4>1, Starts
    <3>2. args' = "all" => taken + want' = Start(c) + Offset[o][j + 1]
      BY <2>3, <2>4, <3>1
    <3>3. \A k : Start(k)' = Start(k)
      BY DEF Start, End
    <3> QED
      BY <1>4, <2>2, <2>4, <3>2, <3>3 DEF StandsAt
  <2> QED
    BY <1>2, <1>4, <1>5, <1>8, <2>1, <2>2, <2>4 DEF ParserInv
<1> QED
  BY <1>6, <1>7, <1>8

\* It reads some of what it wants.
LEMMA ReadStep ==
  ASSUME StreamInv, Read
  PROVE  StreamInv'
<1> USE DEF StreamInv
<1>1. /\ session \in {"header", "length", "data"}
      /\ UNCHANGED <<sent, bounds, put, client, left, fetched, got, link>>
      /\ UNCHANGED <<session, op, at, pack, args, executed, answers, written, owed>>
  BY DEF Read, clientVars, answerVars
<1>2. PICK n \in 1 .. LowerOf(want, put - taken) : taken' = taken + n /\ want' = want - n
  BY DEF Read
<1>3. /\ taken' \in 0 .. put /\ put - taken' <= Capacity /\ taken # put
      /\ want' \in Nat /\ taken' + want' = taken + want
  <2>1. /\ put \in Nat /\ taken \in Nat /\ taken <= put /\ want \in Nat
        /\ Capacity \in Nat /\ put - taken <= Capacity
    BY Numbers
  <2>2. n \in Nat /\ n >= 1 /\ n <= want /\ n <= put - taken
    BY <1>2, <2>1 DEF LowerOf
  <2> QED
    BY <1>2, <2>1, <2>2
<1>4. TypeOK'
  BY <1>1, <1>3 DEF TypeOK
<1>5. ~Lost /\ args = "all" /\ \A i \in DOMAIN executed : executed[i].args = "all"
  <2>1. link # "dropped"
    BY DEF Read
  <2>2. ~Lost
    BY <1>3, <2>1 DEF Lost
  <2> QED
    BY <2>2 DEF LostInv
<1>6. ParserInv' /\ LostInv'
  BY <1>1, <1>5 DEF ParserInv, LostInv
<1>7. /\ \A k : Start(k)' = Start(k)
      /\ ExecutedInOrder' /\ AnswersMatchCalls'
      /\ \A c : Served(c)' <=> Served(c)
      /\ \A c : AnswersAt(c) => AnswersAt(c)'
  BY <1>1, LinkKept, SessionKeepsCalls
<1>8. \A c : StandsAt(c) => StandsAt(c)'
  BY <1>1, <1>3, <1>5, <1>7 DEF StandsAt
<1> QED
  BY <1>1, <1>4, <1>6, <1>7, <1>8, LinkKept, SessionGoesOn

\* It reads a header that is not that of call c only if it is out of place.
LEMMA HeaderInPlace ==
  ASSUME StreamInv, session = "header", GotAll,
         NEW c \in 1 .. Len(sent) + 1, StandsAt(c)
  PROVE  c \in 1 .. Len(sent) /\ Here = {c} /\ taken = Start(c) + HeaderBytes
<1> USE DEF StreamInv
<1>1. taken + want = Start(c) + HeaderBytes
  BY DEF StandsAt, GotAll
<1>2. taken = Start(c) + HeaderBytes
  BY <1>1, Numbers DEF GotAll
<1> QED
  BY <1>2, HereIsCall

\* It goes on with the next command, behind call c.
LEMMA NextStands ==
  ASSUME StreamInv, NextCommand, NEW c \in 1 .. Len(sent) + 1,
         UNCHANGED <<sent, bounds, put>>, Lost' \/ taken' = Start(c)
  PROVE  StandsAt(c)'
<1> USE DEF StreamInv
<1>1. session' = "header" /\ want' = HeaderBytes /\ HeaderBytes \in Nat \ {0}
  BY Numbers DEF NextCommand, Receive
<1>2. \A k : Start(k)' = Start(k)
  BY DEF Start, End
<1>3. want' > 0
  BY <1>1
<1>4. (Lost' /\ want' > 0) \/ taken' + want' = Start(c)' + HeaderBytes
  BY <1>1, <1>2, <1>3
<1> QED
  BY <1>1, <1>4 DEF StandsAt

\* What a new Command begins with.
LEMMA NextTypes ==
  ASSUME TypeOK, NextCommand
  PROVE  /\ session' = "header" /\ want' \in Nat /\ want' > 0 /\ op' \in Ops \cup {NoOp}
         /\ at' = 0 /\ pack' \in Nat /\ args' = "all" /\ ParserInv'
<1>1. HeaderBytes \in Nat \ {0}
  BY Numbers
<1> QED
  BY <1>1 DEF NextCommand, Receive, ParserInv

\* What was executed was a call, or was out of place.
LEMMA Calls ==
  ASSUME TypeOK
  PROVE  \A h \in 1 .. Len(executed) :
           executed[h] \in [call : Nat, args : {"all", "ended", "error"}] /\ executed[h].call \in Nat
<1>1. executed \in Seq([call : Nat, args : {"all", "ended", "error"}])
  BY DEF TypeOK
<1>2. \A h \in 1 .. Len(executed) :
        executed[h] \in [call : Nat, args : {"all", "ended", "error"}]
  BY <1>1, ElementOfSeq
<1> QED
  BY <1>2

\* A call that the server does not have is not executed.
LEMMA CallRefused ==
  ASSUME TypeOK, NEW c \in 1 .. Len(sent), Served(c), sent[c] \notin Known
  PROVE  Served(c + 1)
<1>1. c \in Nat /\ c >= 1
  OBVIOUS
<1>2. \A j \in 1 .. (c + 1) - 1 : j = c \/ j \in 1 .. c - 1
  BY <1>1
<1>3. \A j \in 1 .. (c + 1) - 1 :
        sent[j] \in Known => \E h \in DOMAIN executed : executed[h].call = j
  BY <1>2 DEF Served
<1>4. ASSUME NEW h \in DOMAIN executed
      PROVE  executed[h].call < c + 1
  <2>1. executed[h].call \in Nat
    BY Calls, Numbers
  <2>2. executed[h].call < c
    BY DEF Served
  <2> QED
    BY <1>1, <2>1, <2>2
<1> QED
  BY <1>3, <1>4 DEF Served

\* It ends, wherever it stands.
LEMMA SessionEnds ==
  ASSUME StreamInv, session' \in {"ended", "aborted"}, LinkGoesOn,
         UNCHANGED <<sent, bounds, put, client, left, fetched, got>>,
         UNCHANGED <<taken, want, op, at, pack, args, executed, answers, written, owed>>
  PROVE  StreamInv'
<1> USE DEF StreamInv
<1>1. TypeOK'
  BY DEF TypeOK, LinkGoesOn
<1>2. /\ ExecutedInOrder' /\ AnswersMatchCalls' /\ (Lost => Lost')
      /\ \A d : Served(d)' <=> Served(d)
      /\ \A d : AnswersAt(d) => AnswersAt(d)'
  BY SessionKeepsCalls
<1>3. ParserInv' /\ \A d : StandsAt(d)'
  BY DEF ParserInv, StandsAt
<1>4. LostInv'
  BY <1>2 DEF LostInv
<1> QED
  BY <1>1, <1>2, <1>3, <1>4, SessionGoesOn

\* It refuses a header or begins with the arguments.
LEMMA HeaderStep ==
  ASSUME StreamInv, Header
  PROVE  StreamInv'
<1> USE DEF StreamInv
<1>1. /\ session = "header" /\ GotAll
      /\ UNCHANGED <<sent, bounds, put, client, left, fetched, got, link>>
      /\ UNCHANGED <<taken, executed, answers, written, owed>>
  BY DEF Header, clientVars, answerVars
<1>2. PICK k \in IF Here = {} THEN {0} ELSE Here :
      \E o \in IF k = 0 THEN Ops ELSE {sent[k]} :
        \/ /\ o \in Known
           /\ at' = k /\ op' = o /\ args' = "all"
           /\ ParseFrom(o, 1)
        \/ o \notin Known /\ NextCommand
        \/ session' = "aborted" /\ UNCHANGED <<want, op, at, pack, args>>
  BY DEF Header
<1>3. PICK o \in IF k = 0 THEN Ops ELSE {sent[k]} :
        \/ /\ o \in Known
           /\ at' = k /\ op' = o /\ args' = "all"
           /\ ParseFrom(o, 1)
        \/ o \notin Known /\ NextCommand
        \/ session' = "aborted" /\ UNCHANGED <<want, op, at, pack, args>>
  BY <1>2
<1>4. k \in 0 .. Len(sent)
  <2>1. Here \subseteq 1 .. Len(sent) /\ Len(sent) \in Nat
    BY Starts DEF Here
  <2> QED
    BY <1>2, <2>1
<1>5. \A i \in DOMAIN executed : executed[i].args = "all"
  <2>1. ~(want > 0)
    BY <1>1, Numbers DEF GotAll
  <2> QED
    BY <1>1, <2>1 DEF LostInv
<1>6. /\ ExecutedInOrder' /\ AnswersMatchCalls'
      /\ \A d : Served(d)' <=> Served(d)
      /\ \A d : AnswersAt(d) => AnswersAt(d)'
  BY <1>1, LinkKept, SessionKeepsCalls
<1>7. UnderstoodCalls =>
        \A c \in 1 .. Len(sent) + 1 :
          StandsAt(c) =>
            /\ c \in 1 .. Len(sent) /\ k = c /\ o = sent[c]
            /\ taken = Start(c) + HeaderBytes /\ WellFormed(o) /\ o \in Ops
            /\ Offset[o][1] = HeaderBytes
  <2> SUFFICES ASSUME UnderstoodCalls, NEW c \in 1 .. Len(sent) + 1, StandsAt(c)
               PROVE  /\ c \in 1 .. Len(sent) /\ k = c /\ o = sent[c]
                      /\ taken = Start(c) + HeaderBytes /\ WellFormed(o) /\ o \in Ops
                      /\ Offset[o][1] = HeaderBytes
    OBVIOUS
  <2>1. c \in 1 .. Len(sent) /\ Here = {c} /\ taken = Start(c) + HeaderBytes
    BY <1>1, HeaderInPlace
  <2>2. k = c /\ c # 0
    BY <1>2, <2>1
  <2>3. o = sent[c] /\ o \in Ops
    BY <1>3, <2>1, <2>2, Replies
  <2>4. WellFormed(o)
    BY <2>1, <2>3, Numbers DEF UnderstoodCalls
  <2>5. Offset[o][1] = HeaderBytes
    BY <2>3, LayoutAssumption
  <2> QED
    BY <2>1, <2>2, <2>3, <2>4, <2>5
<1>0. CASE session' = "aborted" /\ UNCHANGED <<want, op, at, pack, args>>
  BY <1>0, <1>1, LinkKept, SessionEnds
<1>8. CASE o \in Known /\ ~(session' = "aborted" /\ UNCHANGED <<want, op, at, pack, args>>)
  <2>1. at' = k /\ op' = o /\ args' = "all" /\ ParseFrom(o, 1)
    BY <1>3, <1>8
  <2>2. o \in Ops /\ 1 \in 1 .. Len(Packs[o]) + 1
    BY <1>8, LayoutAssumption, Offsets
  <2>3. /\ session' \in {"length", "data", "execute"} /\ want' \in Nat /\ pack' \in Nat
        /\ ParserInv'
        /\ \A c \in 1 .. Len(sent) :
             at' = c /\ sent[c] = o /\ (args' = "all" => taken = Start(c) + Offset[o][1]) =>
               StandsAt(c)'
    BY <1>1, <1>8, <2>1, <2>2, ParserStands
  <2>4. TypeOK'
    BY <1>1, <1>4, <2>1, <2>2, <2>3 DEF TypeOK
  <2>5. LostInv'
    BY <1>1, <1>5, <2>1 DEF LostInv
  <2>6. ASSUME UnderstoodCalls, NEW c \in 1 .. Len(sent) + 1, StandsAt(c)
        PROVE  StandsAt(c)'
    <3>1. /\ c \in 1 .. Len(sent) /\ k = c /\ o = sent[c]
          /\ taken = Start(c) + Offset[o][1]
      BY <1>7, <2>6
    <3> QED
      BY <2>1, <2>3, <3>1
  <2> QED
    BY <1>1, <1>6, <2>3, <2>4, <2>5, <2>6, LinkKept, SessionGoesOn
<1>9. CASE o \notin Known /\ ~(session' = "aborted" /\ UNCHANGED <<want, op, at, pack, args>>)
  <2>1. NextCommand
    BY <1>3, <1>9
  <2>2. /\ session' = "header" /\ want' \in Nat /\ want' > 0 /\ op' \in Ops \cup {NoOp}
        /\ at' = 0 /\ pack' \in Nat /\ args' = "all" /\ ParserInv'
    BY <2>1, NextTypes
  <2>3. at' \in 0 .. Len(sent)
    BY <2>2, Numbers
  <2>4. TypeOK'
    BY <1>1, <2>2, <2>3 DEF TypeOK
  <2>5. LostInv'
    BY <1>1, <1>5, <2>2 DEF LostInv
  <2>6. ASSUME UnderstoodCalls, NEW c \in 1 .. Len(sent) + 1,
               Served(c), StandsAt(c), AnswersAt(c)
        PROVE  \E d \in 1 .. Len(sent) + 1 : Served(d)' /\ StandsAt(d)' /\ AnswersAt(d)'
    <3>1. /\ c \in 1 .. Len(sent) /\ k = c /\ o = sent[c]
          /\ taken = Start(c) + HeaderBytes /\ WellFormed(o) /\ o \in Ops
          /\ Offset[o][1] = HeaderBytes
      BY <1>7, <2>6
    <3>2. Packs[o] = <<>> /\ Reply[o] = 0
      BY <1>9, <3>1 DEF WellFormed
    <3>3. Size(o) = HeaderBytes
      <4>1. Len(Packs[o]) = 0
        BY <3>2
      <4> QED
        BY <3>1, <4>1 DEF Size
    <3>4. c + 1 \in 1 .. Len(sent) + 1
      BY <3>1, Numbers
    <3>5. taken = Start(c + 1)
      BY <3>1, <3>3, Starts
    <3>6. PICK d \in 1 .. Len(sent) + 1 : d = c + 1
      BY <3>4
    <3>7. StandsAt(d)'
      BY <1>1, <2>1, <3>5, <3>6, NextStands
    <3>8. AnswersAt(d)'
      BY <1>6, <2>6, <3>1, <3>2, <3>6, PassesCall
    <3>9. Served(c + 1)
      BY <1>9, <2>6, <3>1, CallRefused
    <3> QED
      BY <1>6, <3>6, <3>7, <3>8, <3>9
  <2> QED
    BY <1>1, <1>6, <2>2, <2>4, <2>5, <2>6, LinkKept, SessionGoesOn
<1> QED
  BY <1>0, <1>8, <1>9

\* The end of the stream and an error stay what they are.
LEMMA ReportedKeeps ==
  ASSUME TypeOK, Reported
  PROVE  LinkGoesOn
BY DEF TypeOK, Reported, LinkGoesOn

\* There is no header.
LEMMA HeaderFailsStep ==
  ASSUME StreamInv, HeaderFails
  PROVE  StreamInv'
<1>1. TypeOK
  BY DEF StreamInv
<1>2. /\ session' = "ended" /\ Reported
      /\ UNCHANGED <<sent, bounds, put, client, left, fetched, got>>
      /\ UNCHANGED <<taken, want, op, at, pack, args, executed, answers, written, owed>>
  BY DEF HeaderFails, readVars, answerVars
<1> QED
  BY <1>1, <1>2, ReportedKeeps, SessionEnds

\* The connection is taken from the session, which goes on.
LEMMA LinkStep ==
  ASSUME StreamInv, LinkGoesOn,
         UNCHANGED <<sent, bounds, put, client, left, fetched, got, serverVars>>
  PROVE  StreamInv'
<1> USE DEF StreamInv
<1>1. UNCHANGED <<session, taken, want, op, at, pack, args, executed, answers, written, owed>>
  BY DEF serverVars, readVars, answerVars
<1>2. TypeOK'
  BY <1>1 DEF TypeOK, LinkGoesOn
<1>3. /\ ExecutedInOrder' /\ AnswersMatchCalls' /\ (Lost => Lost')
      /\ \A k : Start(k)' = Start(k)
      /\ \A d : Served(d)' <=> Served(d)
      /\ \A d : AnswersAt(d) => AnswersAt(d)'
  BY <1>1, SessionKeepsCalls
<1>4. ParserInv' /\ LostInv'
  BY <1>1, <1>3 DEF ParserInv, LostInv
<1>5. \A d : StandsAt(d) => StandsAt(d)'
  BY <1>1, <1>3 DEF StandsAt
<1> QED
  BY <1>1, <1>2, <1>3, <1>4, <1>5, SessionGoesOn

\* The server stops.
LEMMA ServerStep ==
  ASSUME StreamInv, Server
  PROVE  StreamInv'
<1>1. TypeOK
  BY DEF StreamInv
<1>2. CASE ServerStops
  <2>1. LinkGoesOn
    BY <1>1, <1>2 DEF ServerStops, LinkGoesOn
  <2> QED
    BY <1>2, <2>1, LinkStep DEF ServerStops
<1>3. CASE SessionDeleted
  <2>1. LinkGoesOn
    BY <1>1, <1>3 DEF SessionDeleted, LinkGoesOn
  <2> QED
    BY <1>3, <2>1, LinkStep DEF SessionDeleted
<1>4. CASE ThreadEnds
  BY <1>1, <1>4, LinkKept, SessionEnds DEF ThreadEnds, clientVars, readVars, answerVars
<1> QED
  BY <1>2, <1>3, <1>4 DEF Server

\* While the parser works, all that was executed had its arguments.
LEMMA ParserFacts ==
  ASSUME StreamInv, session \in {"length", "data"}
  PROVE  /\ \A i \in DOMAIN executed : executed[i].args = "all"
         /\ op \in Known /\ op \in Ops /\ pack \in 1 .. Len(Packs[op]) /\ Argument \in Pack
         /\ pack + 1 \in 1 .. Len(Packs[op]) + 1
<1> USE DEF StreamInv
<1>1. \A i \in DOMAIN executed : executed[i].args = "all"
  BY DEF LostInv
<1>2. op \in Known /\ op \in Ops /\ pack \in 1 .. Len(Packs[op])
  BY LayoutAssumption DEF ParserInv
<1>3. Argument \in Pack /\ Len(Packs[op]) \in Nat
  BY <1>2, Offsets DEF Argument
<1> QED
  BY <1>1, <1>2, <1>3

\* It gives up the command because nothing more will come.
LEMMA GivesUp ==
  ASSUME StreamInv, session \in {"length", "data"}, GotError, Reported, NextCommand,
         UNCHANGED <<sent, bounds, put, client, left, fetched, got>>,
         UNCHANGED <<taken, executed, answers, written, owed>>
  PROVE  StreamInv'
<1> USE DEF StreamInv
<1>1. LinkGoesOn
  BY ReportedKeeps
<1>2. /\ session' = "header" /\ want' \in Nat /\ want' > 0 /\ op' \in Ops \cup {NoOp}
      /\ at' = 0 /\ pack' \in Nat /\ args' = "all" /\ ParserInv'
  BY NextTypes
<1>3. at' \in 0 .. Len(sent)
  BY <1>2, Numbers
<1>4. TypeOK'
  BY <1>1, <1>2, <1>3 DEF TypeOK, LinkGoesOn
<1>5. LostInv'
  BY <1>2, ParserFacts DEF LostInv
<1>6. /\ ExecutedInOrder' /\ AnswersMatchCalls'
      /\ \A d : Served(d)' <=> Served(d)
      /\ \A d : AnswersAt(d) => AnswersAt(d)'
  BY <1>1, SessionKeepsCalls
<1>7. Lost'
  BY <1>1 DEF GotError, Lost, LinkGoesOn
<1>8. \A c \in 1 .. Len(sent) + 1 : StandsAt(c)'
  BY <1>7, NextStands
<1> QED
  BY <1>1, <1>2, <1>4, <1>5, <1>6, <1>8, SessionGoesOn

\* It has the length of an argument.
LEMMA LengthStep ==
  ASSUME StreamInv, Length
  PROVE  StreamInv'
<1> USE DEF StreamInv
<1>1. /\ session = "length" /\ want = 0 /\ session' = "data"
      /\ UNCHANGED <<sent, bounds, put, client, left, fetched, got, link>>
      /\ UNCHANGED <<taken, op, at, pack, args, executed, answers, written, owed>>
  BY DEF Length, GotAll, Receive, clientVars, answerVars
<1>2. PICK n \in IF at = 0 THEN Garbage ELSE {Argument.length} : want' = n
  BY DEF Length, Receive
<1>3. /\ \A i \in DOMAIN executed : executed[i].args = "all"
      /\ op \in Known /\ op \in Ops /\ pack \in 1 .. Len(Packs[op]) /\ Argument \in Pack
  BY <1>1, ParserFacts
<1>4. want' \in Nat
  BY <1>2, <1>3, LayoutAssumption DEF Pack
<1>5. args = "all"
  BY <1>1 DEF LostInv
<1>6. TypeOK'
  BY <1>1, <1>4 DEF TypeOK
<1>7. ParserInv' /\ LostInv'
  BY <1>1, <1>3, <1>5 DEF ParserInv, LostInv
<1>8. /\ ExecutedInOrder' /\ AnswersMatchCalls'
      /\ \A k : Start(k)' = Start(k)
      /\ \A d : Served(d)' <=> Served(d)
      /\ \A d : AnswersAt(d) => AnswersAt(d)'
  BY <1>1, LinkKept, SessionKeepsCalls
<1>9. ASSUME UnderstoodCalls, NEW c \in 1 .. Len(sent) + 1, StandsAt(c)
      PROVE  StandsAt(c)'
  <2>1. /\ at = c /\ c \in 1 .. Len(sent) /\ op = sent[c] /\ c # 0
        /\ taken + want = Start(c) + Offset[op][pack] + LengthBytes
    BY <1>1, <1>5, <1>9 DEF StandsAt
  <2>2. want' = Argument.bytes
    <3>1. WellFormed(op)
      BY <1>9, <2>1, Numbers DEF UnderstoodCalls
    <3>2. pack \in DOMAIN Packs[op]
      BY <1>3, Offsets
    <3> QED
      BY <1>2, <2>1, <3>1, <3>2 DEF WellFormed, Argument
  <2>3. /\ Offset[op][pack] \in Nat /\ Argument.bytes \in Nat
        /\ Offset[op][pack + 1] = Offset[op][pack] + LengthBytes + Argument.bytes
    <3>1. Packs[op][pack].kind \in Dynamic
      BY <1>1 DEF ParserInv
    <3> QED
      BY <1>3, <3>1, LengthAndBytes DEF Argument
  <2>4. taken + want' = Start(c) + Offset[op][pack + 1]
    <3>1. taken \in Nat /\ Start(c) \in Nat /\ LengthBytes \in Nat
      BY <1>9, Starts, Numbers
    <3>2. taken + 0 = Start(c) + Offset[op][pack] + LengthBytes
      BY <1>1, <2>1
    <3> QED
      BY <2>2, <2>3, <3>1, <3>2
  <2> QED
    BY <1>1, <1>8, <2>1, <2>4 DEF StandsAt
<1> QED
  BY <1>1, <1>6, <1>7, <1>8, <1>9, LinkKept, SessionGoesOn

\* It takes the end of the stream for a length.
LEMMA LengthEndsStep ==
  ASSUME StreamInv, LengthEnds
  PROVE  StreamInv'
<1> USE DEF StreamInv
<1>1. /\ session = "length" /\ GotEnd /\ args' = "ended"
      /\ UNCHANGED <<sent, bounds, put, client, left, fetched, got, link>>
      /\ UNCHANGED <<taken, op, at, pack, executed, answers, written, owed>>
  BY DEF LengthEnds, clientVars, answerVars
<1>2. session' \in {"data", "aborted"} /\ want' \in Nat
  BY LayoutAssumption DEF LengthEnds, Receive
<1>3. /\ \A i \in DOMAIN executed : executed[i].args = "all"
      /\ op \in Known /\ pack \in 1 .. Len(Packs[op])
  BY <1>1, ParserFacts
<1>4. Lost'
  BY <1>1 DEF GotEnd, Lost
<1>5. TypeOK'
  BY <1>1, <1>2 DEF TypeOK
<1>6. ParserInv' /\ LostInv'
  BY <1>1, <1>2, <1>3, <1>4 DEF ParserInv, LostInv
<1>7. /\ ExecutedInOrder' /\ AnswersMatchCalls'
      /\ \A d : Served(d)' <=> Served(d)
      /\ \A d : AnswersAt(d) => AnswersAt(d)'
  BY <1>1, LinkKept, SessionKeepsCalls
<1>8. \A c : StandsAt(c) => StandsAt(c)'
  BY <1>1, <1>2 DEF StandsAt
<1> QED
  BY <1>1, <1>5, <1>6, <1>7, <1>8, LinkKept, SessionGoesOn

\* It takes an error for a length, or refuses it.
LEMMA LengthFailsStep ==
  ASSUME StreamInv, LengthFails
  PROVE  StreamInv'
<1> USE DEF StreamInv
<1>1. /\ session = "length" /\ GotError /\ Reported
      /\ UNCHANGED <<sent, bounds, put, client, left, fetched, got>>
      /\ UNCHANGED <<taken, executed, answers, written, owed>>
  BY DEF LengthFails, answerVars
<1>2. LinkGoesOn
  BY <1>1, ReportedKeeps
<1>3. \/ /\ session' = "aborted" /\ want' = 0 /\ UNCHANGED <<op, at, pack, args>>
      \/ /\ session' = "data" /\ want' = 0 /\ args' = "error" /\ UNCHANGED <<op, at, pack>>
      \/ NextCommand
  BY DEF LengthFails, Receive
<1>4. CASE NextCommand
  BY <1>1, <1>4, GivesUp
<1>5. CASE ~NextCommand
  <2>1. /\ session' \in {"aborted", "data"} /\ want' = 0 /\ UNCHANGED <<op, at, pack>>
        /\ args' \in {args, "error"} /\ (session' = "data" => args' = "error")
    BY <1>3, <1>5
  <2>2. /\ \A i \in DOMAIN executed : executed[i].args = "all"
        /\ op \in Known /\ pack \in 1 .. Len(Packs[op])
    BY <1>1, ParserFacts
  <2>3. Lost'
    BY <1>1, <1>2 DEF GotError, Lost, LinkGoesOn
  <2>4. TypeOK'
    BY <1>1, <1>2, <2>1 DEF TypeOK, LinkGoesOn
  <2>5. ParserInv' /\ LostInv'
    BY <1>1, <2>1, <2>2, <2>3 DEF ParserInv, LostInv
  <2>6. /\ ExecutedInOrder' /\ AnswersMatchCalls'
        /\ \A d : Served(d)' <=> Served(d)
        /\ \A d : AnswersAt(d) => AnswersAt(d)'
    BY <1>1, <1>2, SessionKeepsCalls
  <2>7. \A c : StandsAt(c) => StandsAt(c)'
    BY <1>1, <2>1 DEF StandsAt
  <2> QED
    BY <1>1, <1>2, <2>4, <2>5, <2>6, <2>7, SessionGoesOn
<1> QED
  BY <1>4, <1>5

\* It has an argument, or takes the end of the stream for one.
LEMMA DataStep ==
  ASSUME StreamInv, Data
  PROVE  StreamInv'
<1> USE DEF StreamInv
<1>1. /\ session = "data" /\ (GotAll \/ GotEnd)
      /\ args' = IF GotAll THEN args ELSE "ended"
      /\ UNCHANGED <<sent, bounds, put, client, left, fetched, got, link>>
      /\ UNCHANGED <<taken, op, at, executed, answers, written, owed>>
  BY DEF Data, clientVars, answerVars
<1>2. /\ \A i \in DOMAIN executed : executed[i].args = "all"
      /\ op \in Known /\ pack + 1 \in 1 .. Len(Packs[op]) + 1
  BY <1>1, ParserFacts
<1>3. args' \in {"all", "ended", "error"} /\ ParseFrom(op, pack + 1)
  BY <1>1 DEF TypeOK, Data
<1>4. /\ session' \in {"length", "data", "execute"} /\ want' \in Nat /\ pack' \in Nat
      /\ ParserInv'
      /\ session' = "length" => want' > 0
      /\ \A c \in 1 .. Len(sent) :
           at' = c /\ sent[c] = op
             /\ (args' = "all" => taken = Start(c) + Offset[op][pack + 1]) =>
             StandsAt(c)'
  BY <1>1, <1>2, <1>3, ParserStands
<1>5. TypeOK'
  BY <1>1, <1>3, <1>4 DEF TypeOK
<1>6. args' # "all" => Lost'
  <2>1. args # "all" => Lost'
    BY <1>1 DEF LostInv, Lost
  <2>2. GotEnd => Lost'
    BY <1>1 DEF Lost, GotEnd
  <2> QED
    BY <1>1, <2>1, <2>2
<1>7. LostInv'
  BY <1>1, <1>2, <1>4, <1>6 DEF LostInv
<1>8. /\ ExecutedInOrder' /\ AnswersMatchCalls'
      /\ \A d : Served(d)' <=> Served(d)
      /\ \A d : AnswersAt(d) => AnswersAt(d)'
  BY <1>1, LinkKept, SessionKeepsCalls
<1>9. ASSUME NEW c \in 1 .. Len(sent) + 1, StandsAt(c)
      PROVE  StandsAt(c)'
  <2>1. at = c /\ c \in 1 .. Len(sent) /\ op = sent[c]
    BY <1>1, <1>9 DEF StandsAt
  <2>2. args' = "all" => taken = Start(c) + Offset[op][pack + 1]
    <3>1. SUFFICES ASSUME args' = "all" PROVE taken = Start(c) + Offset[op][pack + 1]
      OBVIOUS
    <3>2. want = 0 /\ args = "all"
      BY <1>1, <3>1 DEF GotAll
    <3>3. taken + want = Start(c) + Offset[op][pack + 1]
      BY <1>1, <1>9, <3>2 DEF StandsAt
    <3>4. taken \in Nat
      BY Numbers
    <3> QED
      BY <3>2, <3>3, <3>4
  <2> QED
    BY <1>1, <1>4, <2>1, <2>2
<1> QED
  BY <1>1, <1>4, <1>5, <1>7, <1>8, <1>9, LinkKept, SessionGoesOn

\* An error gives up the command.
LEMMA DataFailsStep ==
  ASSUME StreamInv, DataFails
  PROVE  StreamInv'
<1>1. /\ session = "data" /\ GotError /\ Reported /\ NextCommand
      /\ UNCHANGED <<sent, bounds, put, client, left, fetched, got>>
      /\ UNCHANGED <<taken, executed, answers, written, owed>>
  BY DEF DataFails, answerVars
<1> QED
  BY <1>1, GivesUp

-----------------------------------------------------------------------------
(* The session executes and answers                                        *)

\* The operation runs, and the next command is read unless there is an answer.
LEMMA ExecuteStep ==
  ASSUME StreamInv, Execute
  PROVE  StreamInv'
<1> USE DEF StreamInv
<1>1. /\ session = "execute"
      /\ UNCHANGED <<sent, bounds, put, client, left, fetched, got, link>>
      /\ UNCHANGED <<taken, written>>
  BY DEF Execute, clientVars
<1>2. PICK m \in Nat : m = Len(executed)
  BY Numbers
<1>3. PICK e \in [call : Nat, args : {"all", "ended", "error"}] :
           e = [call |-> at, args |-> args]
  BY Numbers DEF TypeOK
<1>4. e.call = at /\ e.args = args
  BY <1>3
<1>5. /\ executed' \in Seq([call : Nat, args : {"all", "ended", "error"}])
      /\ Len(executed') = m + 1 /\ executed'[m + 1] = e
      /\ \A i \in 1 .. m : executed'[i] = executed[i]
      /\ DOMAIN executed' = 1 .. m + 1 /\ DOMAIN executed = 1 .. m
  <2>1. executed \in Seq([call : Nat, args : {"all", "ended", "error"}])
    BY DEF TypeOK
  <2>2. executed' = Append(executed, e)
    BY <1>3 DEF Execute
  <2> QED
    BY <1>2, <2>1, <2>2
<1>6. /\ \A i \in 1 .. m : executed[i].args = "all"
      /\ args # "all" => Lost
      /\ op \in Known /\ op \in Ops
  BY <1>1, <1>5, LayoutAssumption DEF LostInv, ParserInv
<1>7. /\ \A k : Start(k)' = Start(k)
      /\ UnderstoodCalls' <=> UnderstoodCalls
  BY <1>1, LinkKept, SessionKeepsCalls
<1>8. ASSUME UnderstoodCalls, NEW c \in 1 .. Len(sent) + 1, Served(c), StandsAt(c)
      PROVE  /\ Served(c + 1)' /\ at = c /\ c \in 1 .. Len(sent) /\ op = sent[c]
             /\ args = "all" => taken = Start(c + 1)
             /\ c \in Nat /\ c # 0
             /\ \A j \in 1 .. c - 1 :
                  sent[j] \in Known => \E h \in 1 .. m : executed[h].call = j
             /\ \A h \in 1 .. m : executed[h].call < c
  <2>1. /\ at = c /\ c \in 1 .. Len(sent) /\ op = sent[c]
        /\ args = "all" => taken = Start(c + 1)
    BY <1>1, <1>8 DEF StandsAt
  <2>2. /\ \A j \in 1 .. c - 1 :
             sent[j] \in Known => \E h \in 1 .. m : executed[h].call = j
        /\ \A h \in 1 .. m : executed[h].call < c
    BY <1>5, <1>8 DEF Served
  <2>3. c \in Nat /\ c >= 1 /\ \A j \in 1 .. (c + 1) - 1 : j = c \/ j \in 1 .. c - 1
    BY <2>1
  <2>4. m + 1 \in 1 .. m + 1 /\ \A h \in 1 .. m : h \in 1 .. m + 1
    OBVIOUS
  <2>5. ASSUME NEW j \in 1 .. (c + 1) - 1, sent[j] \in Known
        PROVE  \E h \in 1 .. m + 1 : executed'[h].call = j
    <3>1. CASE j = c
      <4>1. executed'[m + 1].call = j
        BY <1>4, <1>5, <2>1, <3>1
      <4> QED
        BY <2>4, <4>1
    <3>2. CASE j # c
      <4>1. PICK h \in 1 .. m : executed[h].call = j
        BY <2>2, <2>3, <2>5, <3>2
      <4> QED
        BY <1>5, <2>4, <4>1
    <3> QED
      BY <3>1, <3>2
  <2>6. ASSUME NEW h \in 1 .. m + 1
        PROVE  executed'[h].call < c + 1
    <3>1. CASE h = m + 1
      <4>1. executed'[h].call = c
        BY <1>4, <1>5, <2>1, <3>1
      <4> QED
        BY <2>3, <4>1
    <3>2. CASE h # m + 1
      <4>1. h \in 1 .. m
        BY <3>2
      <4>2. executed'[h].call = executed[h].call
        BY <1>5, <4>1
      <4>3. executed[h].call < c
        BY <2>2, <4>1
      <4>4. executed[h].call \in Nat
        BY <1>2, <4>1, Calls
      <4> QED
        BY <2>3, <4>2, <4>3, <4>4
    <3> QED
      BY <3>1, <3>2
  <2>7. Served(c + 1)'
    BY <1>1, <1>5, <2>5, <2>6 DEF Served
  <2> QED
    BY <2>1, <2>2, <2>3, <2>7
<1>9. ExecutedInOrder'
  <2>1. CASE UnderstoodCalls
    <3>1. PICK c \in 1 .. Len(sent) + 1 : Served(c) /\ StandsAt(c)
      BY <2>1 DEF OrderInv
    <3>2. /\ at = c /\ op = sent[c] /\ c \in Nat /\ c # 0
          /\ \A j \in 1 .. c - 1 :
               sent[j] \in Known => \E h \in 1 .. m : executed[h].call = j
          /\ \A h \in 1 .. m : executed[h].call < c
      BY <1>8, <2>1, <3>1
    <3>3. ASSUME NEW i \in 1 .. m + 1
          PROVE  LET k == executed'[i].call
                 IN /\ executed'[i].args # "all" => i = m + 1 /\ link' # "open"
                    /\ k # 0 /\ sent'[k] \in Known
                    /\ \A j \in 1 .. k - 1 :
                         sent'[j] \in Known => \E h \in 1 .. i - 1 : executed'[h].call = j
                    /\ \A h \in 1 .. i - 1 : executed'[h].call < k
      <4>1. CASE i = m + 1
        <5>1. executed'[i].call = c /\ (executed'[i].args # "all" => link' # "open")
          BY <1>1, <1>4, <1>5, <1>6, <3>2, <4>1 DEF Lost
        <5>2. \A h : h \in 1 .. i - 1 <=> h \in 1 .. m
          BY <4>1
        <5>3. /\ \A j \in 1 .. c - 1 :
                   sent'[j] \in Known => \E h \in 1 .. i - 1 : executed'[h].call = j
              /\ \A h \in 1 .. i - 1 : executed'[h].call < c
          BY <1>1, <1>5, <3>2, <5>2
        <5>4. c # 0 /\ sent'[c] \in Known
          BY <1>1, <1>6, <3>2
        <5> QED
          BY <4>1, <5>1, <5>3, <5>4
      <4>2. CASE i # m + 1
        <5>1. i \in 1 .. m /\ \A h \in 1 .. i - 1 : h \in 1 .. m
          BY <4>2
        <5>2. executed'[i] = executed[i] /\ executed[i].args = "all"
          BY <1>5, <1>6, <5>1
        <5>3. /\ executed[i].call # 0 /\ sent[executed[i].call] \in Known
              /\ \A j \in 1 .. executed[i].call - 1 :
                   sent[j] \in Known => \E h \in 1 .. i - 1 : executed[h].call = j
              /\ \A h \in 1 .. i - 1 : executed[h].call < executed[i].call
          BY <1>5, <2>1, <5>1 DEF ExecutedInOrder
        <5>4. \A h \in 1 .. i - 1 : executed'[h] = executed[h]
          BY <1>5, <5>1
        <5> QED
          BY <1>1, <5>2, <5>3, <5>4
      <4> QED
        BY <4>1, <4>2
    <3> QED
      BY <1>5, <3>3 DEF ExecutedInOrder
  <2>2. CASE ~UnderstoodCalls
    <3>1. ASSUME NEW i \in 1 .. m + 1, executed'[i].args # "all"
          PROVE  i = m + 1 /\ link' # "open"
      <4>1. i = m + 1
        <5>1. i \notin 1 .. m
          BY <1>5, <1>6, <3>1
        <5> QED
          BY <5>1
      <4> QED
        BY <1>1, <1>4, <1>5, <1>6, <3>1, <4>1 DEF Lost
    <3> QED
      BY <1>5, <1>7, <2>2, <3>1 DEF ExecutedInOrder
  <2> QED
    BY <2>1, <2>2
<1>10. Reply[op] \in Nat
  BY <1>6, LayoutAssumption
<1>11. ASSUME NEW i \in 1 .. m + 1, executed'[i].args # "all"
       PROVE  i = m + 1 /\ Lost
  <2>1. i = m + 1
    <3>1. i \notin 1 .. m
      BY <1>5, <1>6, <1>11
    <3> QED
      BY <3>1
  <2> QED
    BY <1>4, <1>5, <1>6, <1>11, <2>1
<1>12. CASE Reply[op] = 0
  <2>1. NextCommand /\ UNCHANGED <<answers, owed>>
    BY <1>12 DEF Execute
  <2>2. /\ session' = "header" /\ want' \in Nat /\ want' > 0 /\ op' \in Ops \cup {NoOp}
        /\ at' = 0 /\ pack' \in Nat /\ args' = "all" /\ ParserInv'
    BY <2>1, NextTypes
  <2>3. at' \in 0 .. Len(sent)
    BY <2>2, Numbers
  <2>4. TypeOK'
    BY <1>1, <1>5, <2>1, <2>2, <2>3 DEF TypeOK
  <2>5. LostInv'
    BY <1>1, <1>5, <1>11, <2>2 DEF LostInv, Lost
  <2>6. AnswersMatchCalls' /\ \A d : AnswersAt(d) => AnswersAt(d)'
    BY <1>1, <2>1, LinkKept, SessionKeepsCalls
  <2>7. ASSUME UnderstoodCalls, NEW c \in 1 .. Len(sent) + 1,
               Served(c), StandsAt(c), AnswersAt(c)
        PROVE  \E d \in 1 .. Len(sent) + 1 : Served(d)' /\ StandsAt(d)' /\ AnswersAt(d)'
    <3>1. /\ Served(c + 1)' /\ at = c /\ c \in 1 .. Len(sent) /\ op = sent[c]
          /\ args = "all" => taken = Start(c + 1)
      BY <1>8, <2>7
    <3>2. PICK d \in 1 .. Len(sent) + 1 : d = c + 1
      <4>1. c + 1 \in 1 .. Len(sent) + 1
        BY <3>1, Numbers
      <4> QED
        BY <4>1
    <3>3. AnswersAt(d)'
      BY <1>12, <2>6, <2>7, <3>1, <3>2, PassesCall
    <3>4. Lost' \/ taken' = Start(d)
      BY <1>1, <1>6, <3>1, <3>2 DEF Lost
    <3>5. StandsAt(d)'
      BY <1>1, <2>1, <3>4, NextStands
    <3> QED
      BY <3>1, <3>2, <3>3, <3>5
  <2> QED
    BY <1>1, <1>9, <2>2, <2>4, <2>5, <2>6, <2>7, LinkKept, SessionGoesOn
<1>13. CASE Reply[op] # 0
  <2>1. /\ Reply[op] > 0 /\ session' = "answer"
        /\ answers' = Append(answers, [call |-> at, from |-> written])
        /\ owed' = Reply[op]
        /\ UNCHANGED <<want, op, at, pack, args>>
    BY <1>10, <1>13 DEF Execute
  <2>2. answers' \in Seq([call : Nat, from : Nat])
    <3>1. [call |-> at, from |-> written] \in [call : Nat, from : Nat]
      BY Numbers
    <3>2. answers \in Seq([call : Nat, from : Nat])
      BY DEF TypeOK
    <3> QED
      BY <2>1, <3>1, <3>2
  <2>3. TypeOK'
    BY <1>1, <1>5, <1>10, <2>1, <2>2 DEF TypeOK
  <2>4. ParserInv'
    BY <1>6, <2>1 DEF ParserInv
  <2>5. LostInv'
    BY <1>1, <1>5, <1>6, <1>11, <2>1 DEF LostInv, Lost
  <2>6. ASSUME UnderstoodCalls, NEW c \in 1 .. Len(sent) + 1,
               Served(c), StandsAt(c), AnswersAt(c)
        PROVE  /\ \E d \in 1 .. Len(sent) + 1 : Served(d)' /\ StandsAt(d)' /\ AnswersAt(d)'
               /\ \A i \in DOMAIN got' : i \in DOMAIN answers' => answers'[i] = got'[i]
    <3>1. /\ Served(c + 1)' /\ at = c /\ c \in 1 .. Len(sent) /\ op = sent[c]
          /\ args = "all" => taken = Start(c + 1)
      BY <1>8, <2>6
    <3>2. PICK d \in 1 .. Len(sent) + 1 : d = c + 1
      <4>1. c + 1 \in 1 .. Len(sent) + 1
        BY <3>1, Numbers
      <4> QED
        BY <4>1
    <3>3. \A i \in DOMAIN got : i \in DOMAIN answers => answers[i] = got[i]
      BY <2>6 DEF AnswersMatchCalls
    <3>4. /\ AnswersAt(c + 1)'
          /\ \A i \in DOMAIN got' : i \in DOMAIN answers' => answers'[i] = got'[i]
      BY <1>1, <2>1, <2>6, <3>1, <3>3, AnswerBegins
    <3>5. StandsAt(d)'
      BY <1>1, <1>6, <1>7, <2>1, <3>1, <3>2 DEF StandsAt, Lost
    <3> QED
      BY <3>1, <3>2, <3>4, <3>5
  <2>7. AnswersMatchCalls'
    BY <1>7, <2>6 DEF AnswersMatchCalls, OrderInv
  <2> QED
    BY <1>1, <1>9, <2>3, <2>4, <2>5, <2>6, <2>7, LinkKept, SessionGoesOn
<1> QED
  BY <1>12, <1>13

\* The answer goes out, and the next command is read behind it.
LEMMA AnswerStep ==
  ASSUME StreamInv, Answer
  PROVE  StreamInv'
<1> USE DEF StreamInv
<1>1. /\ session = "answer"
      /\ UNCHANGED <<sent, bounds, put, client, left, fetched, got, link>>
      /\ UNCHANGED <<taken, executed, answers>>
  BY DEF Answer, clientVars
<1>2. /\ ExecutedInOrder' /\ AnswersMatchCalls'
      /\ \A k : Start(k)' = Start(k)
      /\ \A d : Served(d)' <=> Served(d)
  BY <1>1, LinkKept, SessionKeepsCalls
<1>3. CASE NextCommand /\ UNCHANGED <<written, owed>>
  <2>1. /\ session' = "header" /\ want' \in Nat /\ want' > 0 /\ op' \in Ops \cup {NoOp}
        /\ at' = 0 /\ pack' \in Nat /\ args' = "all" /\ ParserInv'
    BY <1>3, NextTypes
  <2>2. at' \in 0 .. Len(sent)
    BY <2>1, Numbers
  <2>3. TypeOK'
    BY <1>1, <1>3, <2>1, <2>2 DEF TypeOK
  <2>4. LostInv'
    BY <1>1, <2>1 DEF LostInv, Lost
  <2>5. \A d : AnswersAt(d) => AnswersAt(d)'
    BY <1>1, <1>3, LinkKept, SessionKeepsCalls
  <2>6. ASSUME NEW c \in 1 .. Len(sent) + 1, StandsAt(c)
        PROVE  StandsAt(c)'
    <3>1. Lost' \/ taken' = Start(c)
      BY <1>1, <2>6 DEF StandsAt, Lost
    <3> QED
      BY <1>1, <1>3, <3>1, NextStands
  <2> QED
    BY <1>1, <1>2, <2>1, <2>3, <2>4, <2>5, <2>6, LinkKept, SessionGoesOn
<1>4. CASE ~(NextCommand /\ UNCHANGED <<written, owed>>)
  <2>1. /\ UNCHANGED <<session, want, op, at, pack, args>>
        /\ \E n \in 1 .. LowerOf(owed, Capacity - (written - fetched)) :
             written' = written + n /\ owed' = owed - n
    BY <1>4 DEF Answer
  <2>2. PICK n \in 1 .. LowerOf(owed, Capacity - (written - fetched)) :
             written' = written + n /\ owed' = owed - n
    BY <2>1
  <2>3. /\ written' \in Nat /\ fetched \in 0 .. written' /\ written' - fetched <= Capacity
        /\ owed' \in Nat /\ owed # 0 /\ written' + owed' = written + owed
    <3>1. /\ written \in Nat /\ fetched \in Nat /\ fetched <= written /\ owed \in Nat
          /\ Capacity \in Nat
      BY Numbers
    <3>2. n \in Nat /\ n >= 1 /\ n <= owed /\ n <= Capacity - (written - fetched)
      BY <2>2, <3>1 DEF LowerOf
    <3> QED
      BY <2>2, <3>1, <3>2
  <2>4. TypeOK'
    BY <1>1, <2>1, <2>3 DEF TypeOK
  <2>5. ParserInv' /\ LostInv'
    BY <1>1, <2>1 DEF ParserInv, LostInv, Lost
  <2>6. \A c : StandsAt(c) => StandsAt(c)'
    BY <1>1, <1>2, <2>1 DEF StandsAt, Lost
  <2>7. \A c : AnswersAt(c) => AnswersAt(c)'
    <3> SUFFICES ASSUME NEW c, AnswersAt(c) PROVE AnswersAt(c)'
      OBVIOUS
    <3>1. client # "idle" /\ ~(Len(answers) < Len(got))
      BY <2>3 DEF AnswersAt, Silent
    <3>2. client = "sending" =>
            /\ Len(answers) = Len(got) + 1 /\ c = Len(sent) + 1 /\ Reply[sent[Len(sent)]] > 0
            /\ answers[Len(answers)] = [call |-> Len(sent), from |-> fetched]
            /\ written' + owed' = fetched + Reply[sent[Len(sent)]]
      BY <2>3 DEF AnswersAt, Silent, Owing
    <3>3. client = "receiving" =>
            /\ Len(got) > 0 /\ got[Len(got)].call = Len(sent) /\ Len(sent) > 0
            /\ Reply[sent[Len(sent)]] > 0
            /\ fetched + left = got[Len(got)].from + Reply[sent[Len(sent)]]
            /\ \/ Len(answers) + 1 = Len(got)
               \/ Len(answers) = Len(got) /\ c = Len(sent) + 1
                  /\ written' + owed' = got[Len(got)].from + Reply[sent[Len(sent)]]
      BY <2>3 DEF AnswersAt, Owing
    <3> QED
      BY <1>1, <3>1, <3>2, <3>3 DEF AnswersAt, Owing
  <2> QED
    BY <1>1, <1>2, <2>4, <2>5, <2>6, <2>7, LinkKept, SessionGoesOn
<1> QED
  BY <1>3, <1>4

\* The connection is lost, and the session goes on.
LEMMA AnswerFailsStep ==
  ASSUME StreamInv, AnswerFails
  PROVE  StreamInv'
<1> USE DEF StreamInv
<1>1. /\ session = "answer" /\ link # "open" /\ owed' = 0 /\ NextCommand
      /\ UNCHANGED <<sent, bounds, put, client, left, fetched, got>>
      /\ UNCHANGED <<taken, executed, answers, written>>
  BY DEF AnswerFails
<1>2. LinkGoesOn /\ link' # "open"
  BY DEF AnswerFails, Stopping, TypeOK, LinkGoesOn
<1>3. /\ session' = "header" /\ want' \in Nat /\ want' > 0 /\ op' \in Ops \cup {NoOp}
      /\ at' = 0 /\ pack' \in Nat /\ args' = "all" /\ ParserInv'
  BY <1>1, NextTypes
<1>4. at' \in 0 .. Len(sent)
  BY <1>3, Numbers
<1>5. TypeOK'
  BY <1>1, <1>2, <1>3, <1>4 DEF TypeOK, LinkGoesOn
<1>7. /\ ExecutedInOrder' /\ AnswersMatchCalls' /\ (Lost => Lost')
      /\ \A d : Served(d)' <=> Served(d)
  BY <1>1, <1>2, SessionKeepsCalls
<1>6. LostInv'
  BY <1>1, <1>3, <1>7 DEF LostInv
<1>8. \A n : Owing(n) => Owing(n)'
  <2> SUFFICES ASSUME NEW n, Owing(n) PROVE Owing(n)'
    OBVIOUS
  <2>1. CASE owed = 0
    BY <1>1, <1>2, <2>1 DEF Owing
  <2>2. CASE owed # 0
    <3>1. written + owed = n
      BY <2>2 DEF Owing
    <3>2. written < n
      BY <2>2, <3>1, Numbers
    <3> QED
      BY <1>1, <1>2, <3>2 DEF Owing
  <2> QED
    BY <2>1, <2>2
<1>9. \A c : AnswersAt(c) => AnswersAt(c)'
  BY <1>1, <1>8 DEF AnswersAt, NextAnswered, Silent
<1>10. ASSUME NEW c \in 1 .. Len(sent) + 1, StandsAt(c)
       PROVE  StandsAt(c)'
  <2>1. Lost' \/ taken' = Start(c)
    BY <1>1, <1>7, <1>10 DEF StandsAt
  <2> QED
    BY <1>1, <2>1, NextStands
<1> QED
  BY <1>1, <1>2, <1>3, <1>5, <1>6, <1>7, <1>9, <1>10, SessionGoesOn

-----------------------------------------------------------------------------
(* The theorems                                                            *)

\* Both sides begin in place.
LEMMA StreamInit ==
  ASSUME Init
  PROVE  StreamInv
<1>1. /\ sent = <<>> /\ bounds = <<>> /\ put = 0
      /\ client = "idle" /\ left = 0 /\ fetched = 0 /\ got = <<>> /\ link = "open"
      /\ session = "header" /\ taken = 0 /\ want = HeaderBytes
      /\ op = NoOp /\ at = 0 /\ pack = 1 /\ args = "all"
      /\ executed = <<>> /\ answers = <<>> /\ written = 0 /\ owed = 0
  BY DEF Init
<1>2. /\ Len(sent) = 0 /\ Len(bounds) = 0 /\ Len(got) = 0 /\ Len(answers) = 0
      /\ Len(executed) = 0 /\ DOMAIN executed = 1 .. 0 /\ DOMAIN got = 1 .. 0
  BY <1>1
<1>3. TypeOK
  <2>1. HeaderBytes \in Nat \ {0} /\ Capacity \in Nat
    BY LayoutAssumption
  <2>2. /\ sent \in Seq(Ops) /\ bounds \in Seq(Nat)
        /\ got \in Seq([call : Nat, from : Nat]) /\ answers \in Seq([call : Nat, from : Nat])
        /\ executed \in Seq([call : Nat, args : {"all", "ended", "error"}])
    BY <1>1, EmptySeq
  <2> QED
    BY <1>1, <1>2, <2>1, <2>2 DEF TypeOK
<1>4. End = 0 /\ \A k : k \notin 1 .. 0 => Start(k) = 0
  BY <1>1, <1>2 DEF End, Start
<1>5. Start(1) = 0
  BY <1>4
<1>6. BoundsInv
  BY <1>1, <1>2, <1>4, <1>5 DEF BoundsInv
<1>7. ParserInv /\ LostInv /\ ExecutedInOrder /\ AnswersMatchCalls
  BY <1>1, <1>2 DEF ParserInv, LostInv, ExecutedInOrder, AnswersMatchCalls
<1>8. Served(1)
  BY <1>2 DEF Served
<1>9. StandsAt(1)
  <2>1. taken + want = Start(1) + HeaderBytes
    BY <1>1, <1>5, Numbers
  <2> QED
    BY <1>1, <2>1 DEF StandsAt
<1>10. AnswersAt(1)
  BY <1>1, <1>2 DEF AnswersAt, Silent, NextAnswered
<1>11. 1 \in 1 .. Len(sent) + 1
  BY <1>2
<1> QED
  BY <1>3, <1>6, <1>7, <1>8, <1>9, <1>10, <1>11 DEF StreamInv, OrderInv

\* No step breaks the invariant.
LEMMA StreamNext ==
  ASSUME StreamInv, [Next]_vars
  PROVE  StreamInv'
<1>1. CASE Client
  BY <1>1, ClientStep
<1>2. CASE Thread
  BY <1>2, ReadStep, HeaderStep, HeaderFailsStep, LengthStep, LengthEndsStep,
     LengthFailsStep, DataStep, DataFailsStep, ExecuteStep, AnswerStep, AnswerFailsStep
  DEF Thread
<1>3. CASE Server
  BY <1>3, ServerStep
<1>4. CASE Finished \/ UNCHANGED vars
  BY <1>4, Stutter DEF Finished
<1> QED
  BY <1>1, <1>2, <1>3, <1>4 DEF Next

\* The inductive invariant of a connection.
LEMMA StreamInvariant == Spec => []StreamInv
BY StreamInit, StreamNext, PTL DEF Spec

\* Whatever the calls, the buffers and the sizes of reads and writes, the session and
\* the client count the bytes of the stream alike: rcv_n_bytes and the generated parser
\* never take one part of an understood command for another.
THEOREM StreamStaysInPlace == Spec => []InPlace
<1>1. StreamInv => InPlace
  <2> SUFFICES ASSUME StreamInv PROVE InPlace
    OBVIOUS
  <2> USE DEF StreamInv
  <2> SUFFICES ASSUME UnderstoodCalls, link = "open"
               PROVE  /\ session \in {"length", "data", "execute", "answer"} =>
                           at # 0 /\ op = sent[at]
                      /\ session = "header" /\ GotAll => Here # {}
                      /\ session = "data" /\ GotAll => taken = bounds[at] + Offset[op][pack + 1]
    BY DEF InPlace
  <2>1. PICK c \in 1 .. Len(sent) + 1 : StandsAt(c)
    BY DEF OrderInv
  <2>2. args = "all" /\ ~Lost
    BY DEF LostInv, Lost
  <2>3. session \in {"length", "data", "execute", "answer"} => at # 0 /\ op = sent[at]
    BY <2>1 DEF StandsAt
  <2>4. session = "header" /\ GotAll => Here # {}
    BY <2>1, HeaderInPlace
  <2>5. ASSUME session = "data", GotAll
        PROVE  taken = bounds[at] + Offset[op][pack + 1]
    <3>1. /\ at = c /\ c \in 1 .. Len(sent)
          /\ taken + want = Start(c) + Offset[op][pack + 1]
      BY <2>1, <2>2, <2>5 DEF StandsAt
    <3>2. taken + want = taken
      BY <2>5, Numbers DEF GotAll
    <3> QED
      BY <3>1, <3>2, Starts
  <2> QED
    BY <2>3, <2>4, <2>5
<1> QED
  BY <1>1, StreamInvariant, PTL

\* read_command and the parser lose none of the understood calls, repeat none and swap
\* none, and only the last command of a connection that is lost, or shut down by the
\* server, runs on arguments that did not all arrive.
THEOREM CallsRunInOrder == Spec => []ExecutedInOrder
<1>1. StreamInv => ExecutedInOrder
  BY DEF StreamInv
<1> QED
  BY <1>1, StreamInvariant, PTL

\* send_command, recv_all and the answers of the session agree: what a method returns is
\* the answer to its own call, read from its first byte.
THEOREM AnswersReachTheirCall == Spec => []AnswersMatchCalls
<1>1. StreamInv => AnswersMatchCalls
  BY DEF StreamInv
<1> QED
  BY <1>1, StreamInvariant, PTL
=============================================================================
