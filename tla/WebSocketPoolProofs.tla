------------------------ MODULE WebSocketPoolProofs ------------------------
(***************************************************************************)
(* Proofs about WebSocketPool for a pool of any size and any requests:     *)
(* every identifier is free, in use by one request or lost, and an answer  *)
(* reaches the function that waits for it.                                 *)
(***************************************************************************)
EXTENDS WebSocketPool, SequenceTheorems, FiniteSetTheorems, TLAPS

\* The identifiers 0 .. n - 1 are free, in use by one request, or lost.
Accounted(free, n) ==
  /\ IsInjective(free)
  /\ \A r, q \in Holders : sock[r] = sock[q] => r = q
  /\ \A r \in Holders : sock[r] # handling
  /\ Range(free) \cap InUse = {}
  /\ lost \cap (Range(free) \cup InUse) = {}
  /\ Range(free) \cup InUse \cup lost = 0 .. n - 1

\* The last command on its way on a socket is the read, if there is one, of the
\* request that holds the socket, and the socket is open.
InflightInv ==
  /\ \A k \in Sockets : ready[k] # "open" => inflight[k] = <<>>
  /\ \A k \in Sockets : \A i \in DOMAIN inflight[k] :
       inflight[k][i] \in Reads =>
         /\ onmessage[k] = inflight[k][i] /\ i = Len(inflight[k])
         /\ pc[inflight[k][i]] = "sent" /\ sock[inflight[k][i]] = k
  /\ \A r \in Reads : pc[r] = "done" => got[r] = r

Added == {k \in Sockets : opening[k] = "added"}

\* The constructor: one identifier per onopen that is through, the first of which
\* asks for the commands before anybody can ask; exit closes everything.
OpeningInv ==
  /\ exiting => \A k \in Sockets : ready[k] = "closed"
  /\ \A k \in Sockets : ready[k] = "connecting" => opening[k] = "connecting"
  /\ ~exiting => /\ socketCounter = Cardinality(Added)
                 /\ socketCounter = 0 => pc[LoadCmds] = "idle"
  /\ pc[LoadCmds] = "idle" => \A r \in Requests : pc[r] = "idle"

\* The inductive invariant.
PoolInv ==
  /\ TypeOK
  /\ \A r \in Holders : sock[r] \in Sockets
  /\ ~exiting => Accounted(freeSockets, socketCounter)
  /\ InflightInv
  /\ OpeningInv

-----------------------------------------------------------------------------
(* Stacks of identifiers.                                                  *)

\* Pushing an identifier that is not on the stack.
LEMMA PushIdentifier ==
  ASSUME NEW S, NEW s \in Seq(S), NEW k \in S
  PROVE  /\ Append(s, k) \in Seq(S) /\ Append(s, k) # <<>>
         /\ Range(Append(s, k)) = Range(s) \cup {k}
         /\ IsInjective(s) /\ k \notin Range(s) => IsInjective(Append(s, k))
<1>1. /\ Append(s, k) \in Seq(S) /\ Len(Append(s, k)) = Len(s) + 1 /\ Len(s) \in Nat
      /\ DOMAIN s = 1 .. Len(s) /\ DOMAIN Append(s, k) = 1 .. Len(s) + 1
      /\ \A i \in 1 .. Len(s) : Append(s, k)[i] = s[i]
      /\ Append(s, k)[Len(s) + 1] = k
  OBVIOUS
<1>2. \A i \in 1 .. Len(s) + 1 : i \in 1 .. Len(s) \/ i = Len(s) + 1
  BY <1>1
<1>3. Range(Append(s, k)) = Range(s) \cup {k}
  <2>1. ASSUME NEW x \in Range(Append(s, k)) PROVE x \in Range(s) \cup {k}
    BY <1>1, <1>2 DEF Range
  <2>2. ASSUME NEW x \in Range(s) \cup {k} PROVE x \in Range(Append(s, k))
    BY <1>1 DEF Range
  <2> QED
    BY <2>1, <2>2
<1>4. ASSUME IsInjective(s), k \notin Range(s) PROVE IsInjective(Append(s, k))
  BY <1>1, <1>2, <1>4 DEF IsInjective, Range
<1>5. Append(s, k) # <<>>
  BY <1>1, EmptySeq
<1> QED
  BY <1>1, <1>3, <1>4, <1>5

\* Popping the last one: it is not on what is left of the stack.
LEMMA PopIdentifier ==
  ASSUME NEW S, NEW s \in Seq(S), s # <<>>, IsInjective(s)
  PROVE  /\ Front(s) \in Seq(S) /\ Last(s) \in S /\ IsInjective(Front(s))
         /\ Range(s) = Range(Front(s)) \cup {Last(s)} /\ Last(s) \notin Range(Front(s))
<1>1. Len(s) \in Nat \ {0} /\ DOMAIN s = 1 .. Len(s)
  BY EmptySeq
<1>2. /\ Front(s) \in Seq(S) /\ Len(Front(s)) = Len(s) - 1
      /\ DOMAIN Front(s) = 1 .. Len(s) - 1
      /\ \A i \in 1 .. Len(s) - 1 : Front(s)[i] = s[i]
  BY <1>1 DEF Front
<1>3. Last(s) \in S /\ Last(s) = s[Len(s)]
  BY <1>1 DEF Last
<1>4. IsInjective(Front(s)) /\ Last(s) \notin Range(Front(s))
  BY <1>1, <1>2, <1>3 DEF IsInjective, Range
<1>5. Range(s) = Range(Front(s)) \cup {Last(s)}
  <2> DEFINE n == Len(s)
  <2>1. \A i \in 1 .. n : i \in 1 .. n - 1 \/ i = n
    <3>1. n \in Nat
      BY <1>1
    <3> HIDE DEF n
    <3> QED
      BY <3>1
  <2>2. ASSUME NEW x \in Range(s) PROVE x \in Range(Front(s)) \cup {Last(s)}
    BY <1>1, <1>2, <1>3, <2>1 DEF Range
  <2>3. ASSUME NEW x \in Range(Front(s)) \cup {Last(s)} PROVE x \in Range(s)
    BY <1>1, <1>2, <1>3 DEF Range
  <2> QED
    BY <2>2, <2>3
<1> QED
  BY <1>2, <1>3, <1>4, <1>5

\* The identifiers on a stack of sockets are sockets, and none of them is None.
LEMMA StackOfSockets ==
  ASSUME NEW s \in Seq(Sockets)
  PROVE  Range(s) \subseteq Sockets /\ None \notin Sockets /\ None \notin Range(s)
<1>1. Range(s) \subseteq Sockets
  BY DEF Range
<1>2. None \notin Sockets
  BY PoolAssumption DEF Sockets
<1> QED
  BY <1>1, <1>2

-----------------------------------------------------------------------------
(* Requests.                                                               *)

\* The identifier k is neither free nor lost nor in use, but by request r.
Reserved(r, k, free, n) ==
  /\ IsInjective(free)
  /\ \A p, q \in Holders \ {r} : sock[p] = sock[q] => p = q
  /\ \A q \in Holders \ {r} : /\ sock[q] \notin {handling, k}
                              /\ sock[q] \notin Range(free) \cup lost
  /\ k # handling /\ k \notin Range(free) \cup lost
  /\ handling \notin Range(free) \cup lost
  /\ lost \cap Range(free) = {}
  /\ Range(free) \cup {k} \cup {sock[q] : q \in Holders \ {r}} \cup ({handling} \ {None})
       \cup lost = 0 .. n - 1

\* What requestSocket changes, and the types it keeps.
RequestTypes ==
  /\ freeSockets \in Seq(Sockets)
  /\ pc \in [Requests -> {"idle", "retry", "polling", "sent", "done", "failed"}]
  /\ sock \in [Requests -> Sockets \cup {None}]
  /\ onmessage \in [Sockets -> Reads \cup {None}]
  /\ inflight \in [Sockets -> Seq(Requests)]
  /\ \A r \in Holders : sock[r] \in Sockets

\* An identifier popped for a request that holds none is reserved for it.
LEMMA PopReserves ==
  ASSUME TypeOK, NEW free \in Seq(Sockets), free # <<>>, NEW n \in Nat, Accounted(free, n),
         NEW r \in Requests \ Holders
  PROVE  /\ Reserved(r, Last(free), Front(free), n)
         /\ Front(free) \in Seq(Sockets) /\ Last(free) \in Sockets
<1>1. /\ Front(free) \in Seq(Sockets) /\ Last(free) \in Sockets /\ IsInjective(Front(free))
      /\ Range(free) = Range(Front(free)) \cup {Last(free)}
      /\ Last(free) \notin Range(Front(free))
  BY PopIdentifier DEF Accounted
<1>2. Holders \ {r} = Holders
  OBVIOUS
<1>3. None \notin Range(free) /\ None \notin lost /\ Last(free) # None
  BY StackOfSockets, <1>1 DEF TypeOK
<1>4. ASSUME NEW q \in Holders
      PROVE  /\ sock[q] \notin {handling, Last(free)}
             /\ sock[q] \notin Range(Front(free)) \cup lost
  BY <1>1 DEF Accounted, InUse
<1>5. /\ Last(free) # handling /\ Last(free) \notin lost
      /\ handling \notin Range(Front(free)) \cup lost
  BY <1>1, <1>3 DEF Accounted, InUse
<1>6. /\ Range(Front(free)) \cup {Last(free)} \cup {sock[q] : q \in Holders}
           \cup ({handling} \ {None}) \cup lost = 0 .. n - 1
      /\ lost \cap Range(Front(free)) = {}
  BY <1>1 DEF Accounted, InUse
<1> QED
  BY <1>1, <1>2, <1>4, <1>5, <1>6 DEF Reserved, Accounted

\* Holding what is reserved, a request accounts for it.
LEMMA HoldReserved ==
  ASSUME NEW r \in Requests, NEW k, NEW free, NEW n \in Nat, Reserved(r, k, free, n),
         Holders' = Holders \cup {r}, sock'[r] = k,
         \A q \in Holders \ {r} : sock'[q] = sock[q],
         UNCHANGED <<handling, lost>>, freeSockets' = free
  PROVE  Accounted(freeSockets, n)'
<1>1. \A p, q \in Holders' : sock'[p] = sock'[q] => p = q
  BY DEF Reserved
<1>2. \A q \in Holders' : sock'[q] # handling'
  BY DEF Reserved
<1>3. InUse' = {k} \cup {sock[q] : q \in Holders \ {r}} \cup ({handling} \ {None})
  BY DEF InUse
<1>4. Range(free) \cap InUse' = {} /\ lost' \cap (Range(free) \cup InUse') = {}
  BY <1>3 DEF Reserved
<1>5. Range(free) \cup InUse' \cup lost' = 0 .. n - 1
  BY <1>3 DEF Reserved
<1> QED
  BY <1>1, <1>2, <1>4, <1>5 DEF Reserved, Accounted

\* Giving it back, it is free again.
LEMMA FreeReserved ==
  ASSUME NEW r \in Requests, NEW k \in Sockets, NEW free \in Seq(Sockets), NEW n \in Nat,
         Reserved(r, k, free, n),
         Holders' = Holders \ {r}, \A q \in Holders \ {r} : sock'[q] = sock[q],
         UNCHANGED <<handling, lost>>, freeSockets' = Append(free, k)
  PROVE  Accounted(freeSockets, n)'
<1>1. Range(freeSockets') = Range(free) \cup {k} /\ IsInjective(freeSockets')
  BY PushIdentifier DEF Reserved
<1>2. /\ \A p, q \in Holders' : sock'[p] = sock'[q] => p = q
      /\ \A q \in Holders' : sock'[q] # handling'
  BY DEF Reserved
<1>3. InUse' = {sock[q] : q \in Holders \ {r}} \cup ({handling} \ {None})
  BY DEF InUse
<1>4. /\ Range(freeSockets') \cap InUse' = {}
      /\ lost' \cap (Range(freeSockets') \cup InUse') = {}
  BY <1>1, <1>3 DEF Reserved
<1>5. Range(freeSockets') \cup InUse' \cup lost' = 0 .. n - 1
  BY <1>1, <1>3 DEF Reserved
<1> QED
  BY <1>1, <1>2, <1>4, <1>5 DEF Accounted

\* What a task of request r leaves behind, whichever way it went.
RequestOutcome(r) ==
  /\ RequestTypes' /\ InflightInv'
  /\ pc'[r] # "idle" /\ \A q \in Requests \ {r} : pc'[q] = pc[q]

\* A socket that is open for this task was so before or opens with it.
StaysOpen == \A j \in Sockets : ready[j] = "open" => ready'[j] = "open"

\* The command is sent on a socket on which no read of another is on its way, so
\* that the function set there belongs to the last command.
LEMMA SendKeeps ==
  ASSUME RequestTypes, InflightInv, StaysOpen, NEW r \in Requests, pc[r] # "sent",
         NEW k \in Sockets, NEW free \in Seq(Sockets), NEW n \in Nat, Reserved(r, k, free, n),
         Send(r, k, free), ready'[k] = "open", UNCHANGED <<handling, lost, got>>
  PROVE  RequestOutcome(r) /\ Accounted(freeSockets, n)'
<1>1. inflight' = [inflight EXCEPT ![k] = Append(inflight[k], r)] /\ inflight[k] \in Seq(Requests)
  BY DEF Send, RequestTypes
<1>2. /\ Append(inflight[k], r) \in Seq(Requests)
      /\ Len(Append(inflight[k], r)) = Len(inflight[k]) + 1 /\ Len(inflight[k]) \in Nat
      /\ DOMAIN inflight[k] = 1 .. Len(inflight[k])
      /\ DOMAIN Append(inflight[k], r) = 1 .. Len(inflight[k]) + 1
      /\ \A i \in 1 .. Len(inflight[k]) : Append(inflight[k], r)[i] = inflight[k][i]
      /\ Append(inflight[k], r)[Len(inflight[k]) + 1] = r
  BY <1>1
<1>3. inflight'[k] = Append(inflight[k], r) /\ \A j \in Sockets \ {k} : inflight'[j] = inflight[j]
  BY <1>1 DEF RequestTypes
<1>4. \A i \in DOMAIN inflight[k] : inflight[k][i] \notin Reads
  <2> SUFFICES ASSUME NEW i \in DOMAIN inflight[k], inflight[k][i] \in Reads PROVE FALSE
    OBVIOUS
  <2>1. pc[inflight[k][i]] = "sent" /\ sock[inflight[k][i]] = k
    BY DEF InflightInv
  <2>2. inflight[k][i] \in Holders \ {r}
    BY <2>1, PoolAssumption DEF Holders
  <2> QED
    BY <2>1, <2>2 DEF Reserved
<1>0. ASSUME NEW i \in DOMAIN inflight'[k], inflight'[k][i] \in Reads
      PROVE  i = Len(inflight[k]) + 1 /\ inflight'[k][i] = r
  <2> DEFINE len == Len(inflight[k])
  <2>1. i \in 1 .. len + 1 /\ len \in Nat
    BY <1>2, <1>3, <1>0
  <2>2. i \notin 1 .. len
    BY <1>2, <1>3, <1>4, <1>0
  <2>3. i = len + 1
    <3> HIDE DEF len
    <3> QED
      BY <2>1, <2>2
  <2> QED
    BY <1>2, <1>3, <2>3
<1>5. CASE r \in Reads
  <2>1. /\ onmessage' = [onmessage EXCEPT ![k] = r]
        /\ pc' = [pc EXCEPT ![r] = "sent"] /\ sock' = [sock EXCEPT ![r] = k]
        /\ freeSockets' = free
    BY <1>5 DEF Send
  <2>2. /\ pc'[r] = "sent" /\ sock'[r] = k /\ onmessage'[k] = r
        /\ \A q \in Requests \ {r} : pc'[q] = pc[q] /\ sock'[q] = sock[q]
        /\ \A j \in Sockets \ {k} : onmessage'[j] = onmessage[j]
    BY <2>1 DEF RequestTypes
  <2>3. Holders' = Holders \cup {r}
    BY <2>2 DEF Holders
  <2>4. Accounted(freeSockets, n)'
    BY <2>1, <2>2, <2>3, HoldReserved DEF Holders
  <2>5. RequestTypes'
    <3>1. \A q \in Holders' : sock'[q] \in Sockets
      BY <2>2, <2>3 DEF RequestTypes, Holders
    <3> QED
      BY <1>1, <1>2, <1>5, <2>1, <3>1 DEF RequestTypes
  <2>6. InflightInv'
    <3>1. \A j \in Sockets : ready'[j] # "open" => inflight'[j] = <<>>
      BY <1>3 DEF InflightInv, StaysOpen
    <3>2. ASSUME NEW j \in Sockets, NEW i \in DOMAIN inflight'[j], inflight'[j][i] \in Reads
          PROVE  /\ onmessage'[j] = inflight'[j][i] /\ i = Len(inflight'[j])
                 /\ pc'[inflight'[j][i]] = "sent" /\ sock'[inflight'[j][i]] = j
      <4>1. CASE j = k
        <5>1. i = Len(inflight[k]) + 1
          BY <1>0, <3>2, <4>1
        <5> QED
          BY <1>2, <1>3, <2>2, <4>1, <5>1
      <4>2. CASE j # k
        <5>1. inflight'[j] = inflight[j] /\ onmessage'[j] = onmessage[j]
          BY <1>3, <2>2, <4>2
        <5>2. /\ onmessage[j] = inflight[j][i] /\ i = Len(inflight[j])
              /\ pc[inflight[j][i]] = "sent" /\ sock[inflight[j][i]] = j
          BY <3>2, <5>1 DEF InflightInv
        <5>3. inflight[j][i] \in Requests \ {r}
          BY <3>2, <5>1, <5>2, PoolAssumption
        <5> QED
          BY <2>2, <5>1, <5>2, <5>3
      <4> QED
        BY <4>1, <4>2
    <3>3. \A q \in Reads : pc'[q] = "done" => got'[q] = q
      BY <2>2, PoolAssumption DEF InflightInv
    <3> QED
      BY <3>1, <3>2, <3>3 DEF InflightInv
  <2> QED
    BY <2>2, <2>4, <2>5, <2>6 DEF RequestOutcome
<1>6. CASE r \notin Reads
  <2>1. /\ pc' = [pc EXCEPT ![r] = "done"] /\ sock' = [sock EXCEPT ![r] = None]
        /\ freeSockets' = Append(free, k) /\ UNCHANGED onmessage
    BY <1>6 DEF Send
  <2>2. /\ pc'[r] = "done"
        /\ \A q \in Requests \ {r} : pc'[q] = pc[q] /\ sock'[q] = sock[q]
    BY <2>1 DEF RequestTypes
  <2>3. Holders' = Holders \ {r}
    BY <2>2 DEF Holders
  <2>4. Accounted(freeSockets, n)'
    BY <2>1, <2>2, <2>3, FreeReserved DEF Holders
  <2>5. RequestTypes'
    <3>1. \A q \in Holders' : sock'[q] \in Sockets
      BY <2>2, <2>3 DEF RequestTypes, Holders
    <3> QED
      BY <1>1, <1>2, <2>1, <3>1, PushIdentifier DEF RequestTypes
  <2>6. InflightInv'
    <3>1. \A j \in Sockets : ready'[j] # "open" => inflight'[j] = <<>>
      BY <1>3 DEF InflightInv, StaysOpen
    <3>2. ASSUME NEW j \in Sockets, NEW i \in DOMAIN inflight'[j], inflight'[j][i] \in Reads
          PROVE  /\ onmessage'[j] = inflight'[j][i] /\ i = Len(inflight'[j])
                 /\ pc'[inflight'[j][i]] = "sent" /\ sock'[inflight'[j][i]] = j
      <4>1. j # k
        BY <1>0, <1>6, <3>2
      <4>2. inflight'[j] = inflight[j]
        BY <1>3, <4>1
      <4>3. /\ onmessage[j] = inflight[j][i] /\ i = Len(inflight[j])
            /\ pc[inflight[j][i]] = "sent" /\ sock[inflight[j][i]] = j
        BY <3>2, <4>2 DEF InflightInv
      <4>4. inflight[j][i] \in Requests \ {r}
        BY <3>2, <4>2, <4>3, PoolAssumption
      <4> QED
        BY <2>1, <2>2, <4>2, <4>3, <4>4
    <3>3. \A q \in Reads : pc'[q] = "done" => got'[q] = q
      BY <1>6, <2>2, PoolAssumption DEF InflightInv
    <3> QED
      BY <3>1, <3>2, <3>3 DEF InflightInv
  <2> QED
    BY <2>2, <2>4, <2>5, <2>6 DEF RequestOutcome
<1> QED
  BY <1>5, <1>6

\* A request that gets no socket to send on changes nothing on the sockets.
LEMMA WithoutSendKeeps ==
  ASSUME RequestTypes, InflightInv, StaysOpen, NEW r \in Requests \ Holders,
         NEW p \in {"retry", "polling", "failed"}, pc' = [pc EXCEPT ![r] = p],
         \A q \in Requests \ {r} : sock'[q] = sock[q],
         sock' \in [Requests -> Sockets \cup {None}],
         p = "polling" => sock'[r] \in Sockets, freeSockets' \in Seq(Sockets),
         UNCHANGED <<onmessage, inflight, got>>
  PROVE  RequestOutcome(r)
<1>1. pc'[r] = p /\ \A q \in Requests \ {r} : pc'[q] = pc[q]
  BY DEF RequestTypes
<1>2. RequestTypes'
  BY <1>1 DEF RequestTypes, Holders
<1>3. InflightInv'
  <2>1. \A j \in Sockets : ready'[j] # "open" => inflight'[j] = <<>>
    BY DEF InflightInv, StaysOpen
  <2>2. \A q \in Reads : pc'[q] = "done" => got'[q] = q
    BY <1>1, PoolAssumption DEF InflightInv
  <2>3. \A q \in Requests : pc[q] = "sent" => pc'[q] = "sent" /\ sock'[q] = sock[q]
    BY <1>1 DEF Holders
  <2> QED
    BY <2>1, <2>2, <2>3, PoolAssumption DEF InflightInv
<1> QED
  BY <1>1, <1>2, <1>3 DEF RequestOutcome

\* requestSocket: the identifier that is popped is the request's alone, whether
\* its socket is open yet or has to be waited for.
LEMMA RequestSocketKeeps ==
  ASSUME TypeOK, RequestTypes, InflightInv, StaysOpen, NEW r \in Requests \ Holders,
         NEW free \in Seq(Sockets), NEW n \in Nat, ~exiting => Accounted(free, n),
         RequestSocket(r, free), UNCHANGED <<handling, lost, got>>
  PROVE  RequestOutcome(r) /\ (~exiting => Accounted(freeSockets, n)')
<1>1. CASE /\ exiting
           /\ pc' = [pc EXCEPT ![r] = "failed"] /\ freeSockets' = free
           /\ UNCHANGED <<sock, onmessage, inflight>>
  BY <1>1, WithoutSendKeeps DEF RequestTypes
<1>2. CASE /\ ~exiting /\ free = <<>>
           /\ pc' = [pc EXCEPT ![r] = "retry"] /\ freeSockets' = free
           /\ UNCHANGED <<sock, onmessage, inflight>>
  <2>1. RequestOutcome(r)
    BY <1>2, WithoutSendKeeps DEF RequestTypes
  <2>2. Holders' = Holders /\ sock' = sock
    BY <1>2 DEF Holders, RequestTypes
  <2>3. InUse' = InUse
    BY <2>2 DEF InUse
  <2> QED
    BY <1>2, <2>1, <2>2, <2>3 DEF Accounted
<1>3. CASE /\ ~exiting /\ free # <<>> /\ ready'[Last(free)] = "open"
           /\ Send(r, Last(free), Front(free))
  BY <1>3, PopReserves, SendKeeps DEF Holders
<1>4. CASE /\ ~exiting /\ free # <<>>
           /\ pc' = [pc EXCEPT ![r] = "polling"] /\ sock' = [sock EXCEPT ![r] = Last(free)]
           /\ freeSockets' = Front(free)
           /\ UNCHANGED <<onmessage, inflight>>
  <2>1. /\ Reserved(r, Last(free), Front(free), n)
        /\ Front(free) \in Seq(Sockets) /\ Last(free) \in Sockets
    BY <1>4, PopReserves
  <2>2. /\ sock'[r] = Last(free) /\ sock' \in [Requests -> Sockets \cup {None}]
        /\ \A q \in Requests \ {r} : sock'[q] = sock[q]
    BY <1>4, <2>1 DEF RequestTypes
  <2>3. RequestOutcome(r)
    BY <1>4, <2>1, <2>2, WithoutSendKeeps
  <2>4. Holders' = Holders \cup {r}
    BY <1>4 DEF Holders, RequestTypes
  <2>5. Accounted(freeSockets, n)'
    BY <1>4, <2>1, <2>2, <2>4, HoldReserved DEF Holders
  <2> QED
    BY <2>3, <2>5
<1> QED
  BY <1>1, <1>2, <1>3, <1>4 DEF RequestSocket

-----------------------------------------------------------------------------
(* Tasks.                                                                  *)

\* The types that no request touches.
ConnTypes ==
  /\ ready \in [Sockets -> {"connecting", "open", "closed"}]
  /\ opening \in [Sockets -> {"connecting", "waiting", "added"}]
  /\ socketCounter \in 0 .. PoolSize /\ exiting \in BOOLEAN
  /\ handling \in Sockets \cup {None} /\ lost \subseteq Sockets
  /\ got \in [Requests -> Reads \cup {None}]

\* The type invariant, by who touches what.
LEMMA PoolTypes ==
  /\ PoolInv => RequestTypes /\ ConnTypes /\ InflightInv /\ OpeningInv
  /\ RequestTypes /\ ConnTypes => TypeOK /\ \A r \in Holders : sock[r] \in Sockets
  BY DEF PoolInv, TypeOK, RequestTypes, ConnTypes

\* A request that asks, asks again or finds its socket open: the connections are
\* as they were.
LEMMA RequestKeepsPool ==
  ASSUME PoolInv, NEW r \in Requests, RequestOutcome(r), pc[LoadCmds] # "idle",
         UNCHANGED <<conn, handling, lost, got>>,
         ~exiting => Accounted(freeSockets, socketCounter)'
  PROVE  PoolInv'
<1>1. /\ UNCHANGED <<ready, opening, socketCounter, exiting, handling, lost, got>>
      /\ RequestTypes' /\ InflightInv'
  BY DEF conn, RequestOutcome
<1>2. ConnTypes'
  BY <1>1, PoolTypes DEF ConnTypes
<1>3. pc'[LoadCmds] # "idle" /\ Added' = Added
  BY <1>1, PoolAssumption DEF RequestOutcome, Added
<1>4. OpeningInv'
  BY <1>1, <1>3 DEF PoolInv, OpeningInv
<1> QED
  BY <1>1, <1>2, <1>4, PoolTypes DEF PoolInv, TypeOK, RequestTypes, ConnTypes

\* Requests of the application, and the timers of those that found no socket.
LEMMA AskKeeps ==
  ASSUME PoolInv, NEW r \in Requests, Ask(r) \/ Retry(r)
  PROVE  PoolInv'
<1>1. /\ UNCHANGED <<conn, handling, lost, got>> /\ RequestSocket(r, freeSockets)
      /\ pc[r] \in {"idle", "retry"} /\ r \in Requests \ Holders
  BY DEF Ask, Retry, Holders
<1>2. pc[LoadCmds] # "idle"
  BY DEF Ask, Retry, PoolInv, OpeningInv
<1>3. StaysOpen /\ UNCHANGED <<ready, socketCounter, exiting>>
  BY <1>1 DEF StaysOpen, conn
<1>4. TypeOK /\ RequestTypes /\ InflightInv /\ freeSockets \in Seq(Sockets) /\ socketCounter \in Nat
  BY PoolTypes, PoolAssumption DEF PoolInv, TypeOK
<1>5. ~exiting => Accounted(freeSockets, socketCounter)
  BY DEF PoolInv
<1>6. ASSUME NEW n \in Nat, n = socketCounter
      PROVE  RequestOutcome(r) /\ (~exiting => Accounted(freeSockets, n)')
  BY <1>1, <1>3, <1>4, <1>5, <1>6, RequestSocketKeeps
<1>7. RequestOutcome(r) /\ (~exiting => Accounted(freeSockets, socketCounter)')
  BY <1>3, <1>4, <1>6
<1> QED
  BY <1>1, <1>2, <1>7, RequestKeepsPool

\* The socket that a request waits for is reserved for it.
LEMMA PollKeeps ==
  ASSUME PoolInv, NEW r \in Requests, Poll(r)
  PROVE  PoolInv'
<1>1. /\ pc[r] = "polling" /\ ready[sock[r]] = "open" /\ Send(r, sock[r], freeSockets)
      /\ UNCHANGED <<conn, handling, lost, got>> /\ r \in Holders
  BY DEF Poll, Holders
<1>2. /\ sock[r] \in Sockets /\ RequestTypes /\ InflightInv /\ freeSockets \in Seq(Sockets)
      /\ socketCounter \in Nat /\ lost \subseteq Sockets
  BY <1>1, PoolTypes, PoolAssumption DEF PoolInv, TypeOK
<1>3. ~exiting /\ Accounted(freeSockets, socketCounter)
  BY <1>1, <1>2 DEF PoolInv, OpeningInv
<1>4. StaysOpen /\ ready'[sock[r]] = "open" /\ socketCounter' = socketCounter
  BY <1>1 DEF StaysOpen, conn
<1>5. None \notin Sockets /\ None \notin Range(freeSockets)
  BY <1>2, StackOfSockets
<1>6. Reserved(r, sock[r], freeSockets, socketCounter)
  <2>1. \A q \in Holders \ {r} : /\ sock[q] \notin {handling, sock[r]}
                               /\ sock[q] \notin Range(freeSockets) \cup lost
    BY <1>1, <1>3 DEF Accounted, InUse
  <2>2. /\ sock[r] # handling /\ sock[r] \notin Range(freeSockets) \cup lost
        /\ handling \notin Range(freeSockets) \cup lost
    BY <1>1, <1>2, <1>3, <1>5 DEF Accounted, InUse
  <2>3. InUse = {sock[r]} \cup {sock[q] : q \in Holders \ {r}} \cup ({handling} \ {None})
    BY <1>1 DEF InUse
  <2>4. Range(freeSockets) \cup {sock[r]} \cup {sock[q] : q \in Holders \ {r}}
          \cup ({handling} \ {None}) \cup lost = 0 .. socketCounter - 1
    BY <1>3, <2>3 DEF Accounted
  <2> QED
    BY <1>3, <2>1, <2>2, <2>4 DEF Accounted, Reserved
<1>7. ASSUME NEW n \in Nat, n = socketCounter, NEW k \in Sockets, k = sock[r],
             NEW free \in Seq(Sockets), free = freeSockets
      PROVE  RequestOutcome(r) /\ Accounted(freeSockets, n)'
  BY <1>1, <1>2, <1>4, <1>6, <1>7, SendKeeps
<1>8. RequestOutcome(r) /\ Accounted(freeSockets, socketCounter)'
  BY <1>2, <1>4, <1>7
<1>9. pc[LoadCmds] # "idle"
  BY <1>1 DEF PoolInv, OpeningInv
<1> QED
  BY <1>1, <1>8, <1>9, RequestKeepsPool

\* The identifiers given out are fewer than the sockets while an onopen is left.
LEMMA NextIdentifier ==
  ASSUME PoolInv, NEW k \in Sockets, opening[k] # "added", ~exiting
  PROVE  /\ socketCounter \in Sockets /\ socketCounter + 1 \in 0 .. PoolSize
         /\ Cardinality(Added \cup {k}) = socketCounter + 1
<1>1. IsFiniteSet(Sockets) /\ Cardinality(Sockets) = PoolSize
  BY FS_Interval, PoolAssumption DEF Sockets
<1>2. IsFiniteSet(Added) /\ k \notin Added /\ Added \cup {k} \subseteq Sockets
  BY <1>1, FS_Subset DEF Added
<1>3. Cardinality(Added \cup {k}) = Cardinality(Added) + 1
  BY <1>2, FS_AddElement
<1>4. Cardinality(Added \cup {k}) <= PoolSize
  BY <1>1, <1>2, FS_Subset
<1>5. socketCounter = Cardinality(Added) /\ socketCounter \in 0 .. PoolSize
  BY DEF PoolInv, OpeningInv, TypeOK
<1> QED
  BY <1>3, <1>4, <1>5, PoolAssumption DEF Sockets

\* An onopen that is through gives out the next identifier, the first to the
\* request for the commands.
LEMMA AddSocketKeeps ==
  ASSUME PoolInv, NEW k \in Sockets, opening[k] # "added", ~exiting, AddSocket(k), StaysOpen,
         ready' \in [Sockets -> {"connecting", "open", "closed"}], ready'[k] # "connecting",
         \A j \in Sockets : ready'[j] = "connecting" => ready[j] = "connecting",
         UNCHANGED <<exiting, handling, lost, got>>
  PROVE  PoolInv'
<1>1. /\ opening' = [opening EXCEPT ![k] = "added"] /\ socketCounter' = socketCounter + 1
      /\ socketCounter \in Sockets /\ socketCounter \in Nat /\ socketCounter' \in 0 .. PoolSize
  <2>1. socketCounter \in Sockets /\ socketCounter + 1 \in 0 .. PoolSize
    BY NextIdentifier
  <2>2. socketCounter \in Nat
    BY <2>1, PoolAssumption DEF Sockets
  <2>3. opening' = [opening EXCEPT ![k] = "added"] /\ socketCounter' = socketCounter + 1
    BY DEF AddSocket
  <2> QED
    BY <2>1, <2>2, <2>3
<1>2. /\ TypeOK /\ RequestTypes /\ ConnTypes /\ InflightInv /\ OpeningInv
      /\ Accounted(freeSockets, socketCounter)
  BY PoolTypes DEF PoolInv
<1>3. ConnTypes'
  BY <1>1, <1>2 DEF ConnTypes
<1>4. Added' = Added \cup {k}
  BY <1>1, <1>2 DEF Added, ConnTypes
<1> DEFINE free == Append(freeSockets, socketCounter)
<1>5. free \in Seq(Sockets) /\ Accounted(free, socketCounter + 1)
  <2>1. socketCounter \notin 0 .. socketCounter - 1
        /\ 0 .. socketCounter + 1 - 1 = (0 .. socketCounter - 1) \cup {socketCounter}
    BY <1>1
  <2>2. socketCounter \notin Range(freeSockets) \cup InUse \cup lost
    BY <1>2, <2>1 DEF Accounted
  <2>3. /\ free \in Seq(Sockets) /\ IsInjective(free)
        /\ Range(free) = Range(freeSockets) \cup {socketCounter}
    BY <1>1, <1>2, <2>2, PushIdentifier DEF RequestTypes, Accounted
  <2> HIDE DEF free
  <2>4. Range(free) \cap InUse = {} /\ lost \cap (Range(free) \cup InUse) = {}
    BY <1>2, <2>2, <2>3 DEF Accounted
  <2>5. Range(free) \cup InUse \cup lost = 0 .. socketCounter + 1 - 1
    BY <1>2, <2>1, <2>3 DEF Accounted
  <2> QED
    BY <1>2, <2>3, <2>4, <2>5 DEF Accounted
<1> HIDE DEF free
<1>6. CASE socketCounter = 0 /\ RequestSocket(LoadCmds, free)
  <2>1. LoadCmds \in Requests \ Holders /\ pc[LoadCmds] = "idle"
    BY <1>2, <1>6, PoolAssumption DEF OpeningInv, Holders
  <2>2. ASSUME NEW n \in Nat, n = socketCounter + 1
        PROVE  RequestOutcome(LoadCmds) /\ Accounted(freeSockets, n)'
    BY <1>2, <1>5, <1>6, <2>1, <2>2, RequestSocketKeeps
  <2>3. RequestOutcome(LoadCmds) /\ Accounted(freeSockets, socketCounter)'
    BY <1>1, <2>2
  <2>4. OpeningInv'
    BY <1>1, <1>2, <1>4, <2>3, NextIdentifier DEF OpeningInv, RequestOutcome, ConnTypes
  <2> QED
    BY <1>3, <2>3, <2>4, PoolTypes DEF RequestOutcome, PoolInv, TypeOK, RequestTypes, ConnTypes
<1>7. CASE /\ socketCounter > 0 /\ freeSockets' = free
           /\ UNCHANGED <<pc, sock, onmessage, inflight>>
  <2>1. RequestTypes'
    BY <1>2, <1>5, <1>7 DEF RequestTypes, Holders
  <2>2. InflightInv'
    BY <1>2, <1>7 DEF InflightInv, StaysOpen
  <2>3. Accounted(freeSockets, socketCounter)'
    <3>1. Holders' = Holders
      BY <1>7 DEF Holders
    <3>2. InUse' = InUse
      BY <1>7, <3>1 DEF InUse
    <3> QED
      BY <1>1, <1>5, <1>7, <3>1, <3>2 DEF Accounted
  <2>4. OpeningInv'
    BY <1>1, <1>2, <1>4, <1>7, NextIdentifier DEF OpeningInv, ConnTypes
  <2> QED
    BY <1>3, <2>1, <2>2, <2>3, <2>4, PoolTypes DEF PoolInv, TypeOK, RequestTypes, ConnTypes
<1> QED
  BY <1>6, <1>7 DEF AddSocket, free

\* A step that leaves requests and identifiers alone.
LEMMA SameRequests ==
  ASSUME PoolInv, ConnTypes', InflightInv', OpeningInv',
         UNCHANGED <<freeSockets, socketCounter, exiting, pc, sock, onmessage, handling, lost>>,
         inflight' \in [Sockets -> Seq(Requests)]
  PROVE  PoolInv'
<1>1. Holders' = Holders
  BY DEF Holders
<1>2. InUse' = InUse
  BY <1>1 DEF InUse
<1>3. Accounted(freeSockets, socketCounter) => Accounted(freeSockets, socketCounter)'
  BY <1>1, <1>2 DEF Accounted
<1>4. RequestTypes'
  BY <1>1, PoolTypes DEF RequestTypes
<1>5. TypeOK' /\ \A r \in Holders' : sock'[r] \in Sockets
  BY <1>4 DEF TypeOK, RequestTypes, ConnTypes
<1>6. ~exiting' => Accounted(freeSockets, socketCounter)'
  BY <1>3 DEF PoolInv
<1> QED
  BY <1>5, <1>6 DEF PoolInv

\* An onopen waits for the last socket or gives out an identifier; nothing opens
\* after exit.
LEMMA OpenKeeps ==
  ASSUME PoolInv, NEW k \in Sockets, Open(k) \/ WaitForLast(k)
  PROVE  PoolInv'
<1>1. /\ ~exiting /\ opening[k] # "added" /\ LastSocket \in Sockets
      /\ UNCHANGED <<exiting, handling, lost, got>>
  BY PoolAssumption DEF Open, WaitForLast, PoolInv, OpeningInv, LastSocket, Sockets
<1>2. CASE AddSocket(k) /\ ready' = [ready EXCEPT ![k] = "open"]
  BY <1>1, <1>2, AddSocketKeeps DEF StaysOpen, PoolInv, TypeOK
<1>3. CASE AddSocket(k) /\ opening[k] = "waiting" /\ UNCHANGED ready
  <2>1. ready[k] # "connecting"
    BY <1>3 DEF PoolInv, OpeningInv
  <2> QED
    BY <1>1, <1>3, <2>1, AddSocketKeeps DEF StaysOpen, PoolInv, TypeOK
<1>4. CASE /\ ready[k] = "connecting" /\ ready' = [ready EXCEPT ![k] = "open"]
           /\ opening' = [opening EXCEPT ![k] = "waiting"]
           /\ UNCHANGED <<freeSockets, socketCounter, pc, sock, onmessage, inflight>>
  <2>1. ConnTypes'
    BY <1>1, <1>4, PoolTypes DEF ConnTypes
  <2>2. InflightInv'
    BY <1>1, <1>4, PoolTypes DEF InflightInv, ConnTypes
  <2>3. Added' = Added
    BY <1>1, <1>4, PoolTypes DEF Added, ConnTypes
  <2>4. OpeningInv'
    BY <1>1, <1>4, <2>3, PoolTypes DEF OpeningInv, ConnTypes
  <2> QED
    BY <1>1, <1>4, <2>1, <2>2, <2>4, SameRequests DEF PoolInv, TypeOK
<1> QED
  BY <1>2, <1>3, <1>4 DEF Open, WaitForLast

\* A connection ends: what was on its way on it is gone.
LEMMA CloseKeeps == ASSUME PoolInv, NEW k \in Sockets, Close(k) PROVE PoolInv'
<1>1. /\ ready' = [ready EXCEPT ![k] = "closed"] /\ inflight' = [inflight EXCEPT ![k] = <<>>]
      /\ UNCHANGED <<opening, socketCounter, exiting, freeSockets, pc, sock, onmessage,
                     handling, lost, got>>
  BY DEF Close
<1>2. ConnTypes' /\ inflight' \in [Sockets -> Seq(Requests)]
  BY <1>1, PoolTypes, EmptySeq DEF ConnTypes, RequestTypes
<1>3. InflightInv'
  BY <1>1, PoolTypes DEF InflightInv, ConnTypes, RequestTypes
<1>4. Added' = Added
  BY <1>1 DEF Added
<1>5. OpeningInv'
  BY <1>1, <1>4, PoolTypes DEF OpeningInv, ConnTypes
<1> QED
  BY <1>1, <1>2, <1>3, <1>5, SameRequests

\* The answer to the read on its way reaches the request that holds the socket,
\* whose function now has it; no other read is on its way there.
LEMMA DeliverKeeps == ASSUME PoolInv, NEW k \in Sockets, Deliver(k) PROVE PoolInv'
<1> DEFINE command == Head(inflight[k])
           reader == onmessage[k]
<1>1. /\ handling = None /\ ready[k] = "open" /\ inflight[k] # <<>> /\ ~exiting
      /\ inflight' = [inflight EXCEPT ![k] = Tail(inflight[k])]
      /\ UNCHANGED <<ready, opening, socketCounter, exiting, freeSockets, onmessage, lost>>
  BY DEF Deliver, conn, PoolInv, OpeningInv
<1>2. RequestTypes /\ ConnTypes /\ InflightInv /\ OpeningInv /\ Accounted(freeSockets, socketCounter)
  BY <1>1, PoolTypes DEF PoolInv
<1>3. inflight[k] \in Seq(Requests) /\ inflight[k] # <<>>
  BY <1>1, <1>2 DEF RequestTypes
<1>4. /\ command = inflight[k][1] /\ 1 \in DOMAIN inflight[k]
      /\ Tail(inflight[k]) \in Seq(Requests) /\ Len(Tail(inflight[k])) = Len(inflight[k]) - 1
      /\ DOMAIN Tail(inflight[k]) = 1 .. Len(inflight[k]) - 1
      /\ Len(inflight[k]) \in Nat \ {0} /\ DOMAIN inflight[k] = 1 .. Len(inflight[k])
      /\ \A i \in 1 .. Len(inflight[k]) - 1 : Tail(inflight[k])[i] = inflight[k][i + 1]
  BY <1>3, HeadTailProperties, EmptySeq
<1>5. /\ inflight' \in [Sockets -> Seq(Requests)] /\ inflight'[k] = Tail(inflight[k])
      /\ \A j \in Sockets \ {k} : inflight'[j] = inflight[j]
  BY <1>1, <1>2, <1>4 DEF RequestTypes
<1>6. command \in Reads => /\ reader = command /\ Len(inflight[k]) = 1 /\ DOMAIN inflight'[k] = {}
                           /\ pc[command] = "sent" /\ sock[command] = k /\ command \in Holders
  <2>1. ASSUME command \in Reads
        PROVE  /\ reader = command /\ Len(inflight[k]) = 1
               /\ pc[command] = "sent" /\ sock[command] = k
    <3>1. inflight[k][1] \in Reads /\ 1 \in DOMAIN inflight[k] /\ command = inflight[k][1]
      BY <1>4, <2>1
    <3>2. /\ onmessage[k] = inflight[k][1] /\ 1 = Len(inflight[k])
          /\ pc[inflight[k][1]] = "sent" /\ sock[inflight[k][1]] = k
      BY <1>2, <3>1 DEF InflightInv
    <3> QED
      BY <3>1, <3>2
  <2> QED
    BY <1>4, <1>5, <2>1, PoolAssumption DEF Holders
\* Whatever is left on its way was so before.
<1>7. ASSUME NEW j \in Sockets, NEW i \in DOMAIN inflight'[j], inflight'[j][i] \in Reads
      PROVE  /\ onmessage[j] = inflight'[j][i] /\ i = Len(inflight'[j])
             /\ pc[inflight'[j][i]] = "sent" /\ sock[inflight'[j][i]] = j
             /\ inflight'[j][i] \in Requests
             /\ command \in Reads => inflight'[j][i] # command
  <2>1. CASE j # k
    <3>1. inflight'[j] = inflight[j]
      BY <1>5, <2>1
    <3>2. /\ onmessage[j] = inflight[j][i] /\ i = Len(inflight[j])
          /\ pc[inflight[j][i]] = "sent" /\ sock[inflight[j][i]] = j
      BY <1>2, <1>7, <3>1 DEF InflightInv
    <3> QED
      BY <1>6, <1>7, <2>1, <3>1, <3>2, PoolAssumption
  <2>2. CASE j = k
    <3>1. command \notin Reads
      BY <1>6, <2>2
    <3> DEFINE len == Len(inflight[k])
    <3>2. i \in 1 .. len - 1 /\ len \in Nat /\ inflight'[k][i] = inflight[k][i + 1]
      BY <1>4, <1>5, <2>2
    <3>3. i + 1 \in 1 .. len
      <4> HIDE DEF len
      <4> QED
        BY <3>2
    <3>4. /\ onmessage[k] = inflight[k][i + 1] /\ i + 1 = len
          /\ pc[inflight[k][i + 1]] = "sent" /\ sock[inflight[k][i + 1]] = k
      BY <1>2, <1>4, <1>7, <2>2, <3>2, <3>3 DEF InflightInv
    <3>5. i = len - 1
      <4> HIDE DEF len
      <4> QED
        BY <3>2, <3>4
    <3> QED
      BY <1>4, <1>5, <1>7, <2>2, <3>1, <3>2, <3>4, <3>5, PoolAssumption
  <2> QED
    BY <2>1, <2>2
<1>8. \A j \in Sockets : ready[j] # "open" => inflight'[j] = <<>>
  BY <1>1, <1>2, <1>5 DEF InflightInv
<1>9. Added' = Added
  BY <1>1 DEF Added
<1>10. CASE command \notin Reads \/ reader = None
  <2>1. command \notin Reads
    BY <1>6, <1>10, PoolAssumption
  <2>2. UNCHANGED <<handling, got, pc, sock>>
    BY <1>10, <2>1 DEF Deliver
  <2>3. InflightInv'
    BY <1>1, <1>2, <1>7, <1>8, <2>2 DEF InflightInv
  <2>4. ConnTypes' /\ OpeningInv'
    BY <1>1, <1>2, <1>9, <2>2 DEF ConnTypes, OpeningInv
  <2> QED
    BY <1>1, <1>5, <2>2, <2>3, <2>4, SameRequests
<1>11. CASE command \in Reads /\ reader # None
  <2>1. /\ reader = command /\ command \in Requests /\ command \in Holders
        /\ pc[command] = "sent" /\ sock[command] = k /\ command \in Reads
    BY <1>6, <1>11, PoolAssumption
  <2>2. /\ handling' = k
        /\ got' = [got EXCEPT ![reader] = command]
        /\ pc' = [pc EXCEPT ![reader] = "done"]
        /\ sock' = [sock EXCEPT ![reader] = None]
    BY <1>11 DEF Deliver
  <2> HIDE DEF command, reader
  <2>3. /\ pc'[command] = "done" /\ got'[command] = command
        /\ \A q \in Requests \ {command} :
              pc'[q] = pc[q] /\ sock'[q] = sock[q] /\ got'[q] = got[q]
    BY <1>2, <2>1, <2>2 DEF RequestTypes, ConnTypes
  <2>4. Holders' = Holders \ {command}
    BY <2>1, <2>3 DEF Holders
  <2>5. InflightInv'
    <3>1. \A q \in Reads : pc'[q] = "done" => got'[q] = q
      BY <1>2, <2>3, PoolAssumption DEF InflightInv
    <3>2. ASSUME NEW j \in Sockets, NEW i \in DOMAIN inflight'[j], inflight'[j][i] \in Reads
          PROVE  /\ onmessage'[j] = inflight'[j][i] /\ i = Len(inflight'[j])
                 /\ pc'[inflight'[j][i]] = "sent" /\ sock'[inflight'[j][i]] = j
      <4>1. inflight'[j][i] \in Requests \ {command}
        BY <1>7, <2>1, <3>2
      <4> QED
        BY <1>1, <1>7, <2>3, <3>2, <4>1
    <3> QED
      BY <1>1, <1>8, <3>1, <3>2 DEF InflightInv
  <2>6. RequestTypes' /\ ConnTypes'
    BY <1>1, <1>2, <1>5, <2>1, <2>2, <2>3, <2>4 DEF RequestTypes, ConnTypes, Holders
  <2>7. OpeningInv'
    <3>1. pc[LoadCmds] # "idle" /\ pc'[LoadCmds] # "idle"
      BY <1>2, <2>1, <2>3, PoolAssumption DEF OpeningInv
    <3> QED
      BY <1>1, <1>2, <1>9, <3>1 DEF OpeningInv
  <2>8. Accounted(freeSockets, socketCounter)'
    <3>1. InUse' = InUse
      <4>1. k # None /\ handling = None
        BY <1>1, PoolAssumption DEF Sockets
      <4>2. {sock'[q] : q \in Holders'} = {sock[q] : q \in Holders \ {command}}
        BY <2>3, <2>4 DEF Holders
      <4>3. InUse' = {sock[q] : q \in Holders \ {command}} \cup {k}
        BY <2>2, <4>1, <4>2 DEF InUse
      <4> QED
        BY <2>1, <4>1, <4>3 DEF InUse
    <3>2. /\ \A p, q \in Holders' : sock'[p] = sock'[q] => p = q
          /\ \A q \in Holders' : sock'[q] # k
      BY <1>2, <2>1, <2>3, <2>4 DEF Accounted, Holders
    <3> QED
      BY <1>1, <1>2, <2>2, <3>1, <3>2 DEF Accounted
  <2> QED
    BY <1>1, <2>5, <2>6, <2>7, <2>8 DEF PoolInv, TypeOK, RequestTypes, ConnTypes
<1> QED
  BY <1>10, <1>11

\* The function returns or throws: its socket is free again or lost.
LEMMA HandledKeeps == ASSUME PoolInv, FreeSocket \/ Throw PROVE PoolInv'
<1>1. /\ handling \in Sockets /\ handling' = None
      /\ UNCHANGED <<ready, opening, socketCounter, exiting, pc, sock, onmessage, inflight, got>>
  BY DEF FreeSocket, Throw, conn, PoolInv, TypeOK
<1>2. RequestTypes /\ ConnTypes /\ InflightInv /\ OpeningInv
  BY PoolTypes
<1>3. Holders' = Holders
  BY <1>1 DEF Holders
<1>4. InUse' = InUse \ {handling} \/ exiting
  <2>1. ASSUME ~exiting PROVE \A r \in Holders : sock[r] # handling
    BY <2>1 DEF PoolInv, Accounted
  <2>2. InUse' = {sock[r] : r \in Holders}
    BY <1>1, <1>3 DEF InUse
  <2> QED
    BY <2>1, <2>2 DEF InUse
<1>5. InflightInv' /\ OpeningInv'
  <2>1. Added' = Added
    BY <1>1 DEF Added
  <2> QED
    BY <1>1, <1>2, <2>1 DEF InflightInv, OpeningInv
<1>6. ASSUME ~exiting
      PROVE  /\ Accounted(freeSockets, socketCounter)
             /\ handling \in InUse /\ handling \notin Range(freeSockets) \cup lost
             /\ None \notin Range(freeSockets) \cup lost
             /\ \A r \in Holders : sock[r] \in Sockets /\ sock[r] # None
  <2>1. Accounted(freeSockets, socketCounter) /\ None \notin Sockets
    BY <1>6, PoolAssumption DEF PoolInv, Sockets
  <2>2. handling \in InUse
    BY <1>1, <2>1 DEF InUse
  <2> QED
    BY <1>2, <2>1, <2>2, StackOfSockets DEF Accounted, RequestTypes, ConnTypes
<1>7. CASE FreeSocket
  <2>1. /\ lost' = lost
        /\ freeSockets' = IF exiting \/ handling \in Range(freeSockets) THEN freeSockets
                          ELSE Append(freeSockets, handling)
    BY <1>7 DEF FreeSocket
  <2>2. RequestTypes' /\ ConnTypes'
    BY <1>1, <1>2, <1>3, <2>1, PushIdentifier DEF RequestTypes, ConnTypes
  <2>3. ASSUME ~exiting PROVE Accounted(freeSockets, socketCounter)'
    <3>1. /\ freeSockets' = Append(freeSockets, handling) /\ IsInjective(freeSockets')
          /\ Range(freeSockets') = Range(freeSockets) \cup {handling}
      BY <1>1, <1>2, <1>6, <2>1, <2>3, PushIdentifier DEF RequestTypes, Accounted
    <3>2. /\ Range(freeSockets') \cap InUse' = {}
          /\ lost' \cap (Range(freeSockets') \cup InUse') = {}
          /\ Range(freeSockets') \cup InUse' \cup lost' = 0 .. socketCounter - 1
      BY <1>4, <1>6, <2>1, <2>3, <3>1 DEF Accounted
    <3>3. /\ \A r, q \in Holders' : sock'[r] = sock'[q] => r = q
          /\ \A r \in Holders' : sock'[r] # handling'
      BY <1>1, <1>3, <1>6, <2>3 DEF Accounted
    <3> QED
      BY <1>1, <3>1, <3>2, <3>3 DEF Accounted
  <2> QED
    BY <1>1, <1>5, <2>2, <2>3 DEF PoolInv, TypeOK, RequestTypes, ConnTypes
<1>8. CASE Throw
  <2>1. lost' = lost \cup {handling} /\ freeSockets' = freeSockets
    BY <1>8 DEF Throw
  <2>2. RequestTypes' /\ ConnTypes'
    BY <1>1, <1>2, <1>3, <2>1 DEF RequestTypes, ConnTypes
  <2>3. ASSUME ~exiting PROVE Accounted(freeSockets, socketCounter)'
    <3>1. /\ Range(freeSockets') \cap InUse' = {}
          /\ lost' \cap (Range(freeSockets') \cup InUse') = {}
          /\ Range(freeSockets') \cup InUse' \cup lost' = 0 .. socketCounter - 1
      BY <1>4, <1>6, <2>1, <2>3 DEF Accounted
    <3>2. /\ \A r, q \in Holders' : sock'[r] = sock'[q] => r = q
          /\ \A r \in Holders' : sock'[r] # handling'
      BY <1>1, <1>3, <1>6, <2>3 DEF Accounted
    <3> QED
      BY <1>1, <1>6, <2>1, <2>3, <3>1, <3>2 DEF Accounted
  <2> QED
    BY <1>1, <1>5, <2>2, <2>3 DEF PoolInv, TypeOK, RequestTypes, ConnTypes
<1> QED
  BY <1>7, <1>8

\* Client.exit closes every socket: nothing is on its way any more.
LEMMA ExitKeeps == PoolInv /\ Exit => PoolInv'
<1> SUFFICES ASSUME PoolInv, Exit PROVE PoolInv'
  OBVIOUS
<1>1. /\ exiting' = TRUE /\ freeSockets' = <<>> /\ socketCounter' = 0
      /\ ready' = [k \in Sockets |-> "closed"] /\ inflight' = [k \in Sockets |-> <<>>]
      /\ UNCHANGED <<opening, pc, sock, onmessage, handling, lost, got>>
  BY DEF Exit
<1>2. RequestTypes /\ ConnTypes /\ InflightInv /\ OpeningInv
  BY PoolTypes
<1>3. <<>> \in Seq(Sockets) /\ <<>> \in Seq(Requests) /\ DOMAIN <<>> = {}
  BY EmptySeq
<1>4. RequestTypes' /\ ConnTypes'
  BY <1>1, <1>2, <1>3, PoolAssumption DEF RequestTypes, ConnTypes, Holders
<1>5. InflightInv'
  BY <1>1, <1>2, <1>3 DEF InflightInv
<1>6. OpeningInv'
  BY <1>1, <1>2 DEF OpeningInv
<1> QED
  BY <1>1, <1>4, <1>5, <1>6 DEF PoolInv, TypeOK, RequestTypes, ConnTypes

\* A page that was just loaded.
LEMMA InitPool == Init => PoolInv
<1> SUFFICES ASSUME Init PROVE PoolInv
  OBVIOUS
<1> USE DEF Init
<1>1. <<>> \in Seq(Sockets) /\ <<>> \in Seq(Requests) /\ DOMAIN <<>> = {} /\ Range(<<>>) = {}
  BY EmptySeq DEF Range
<1>2. Holders = {} /\ InUse = {}
  BY DEF Holders, InUse
<1>3. RequestTypes /\ ConnTypes
  <2>1. 0 \in 0 .. PoolSize
    BY PoolAssumption
  <2>2. RequestTypes
    BY <1>1, <1>2 DEF RequestTypes
  <2>3. ConnTypes
    BY <2>1 DEF ConnTypes
  <2> QED
    BY <2>2, <2>3
<1>4. InflightInv
  BY <1>1, PoolAssumption DEF InflightInv
<1>5. OpeningInv
  <2>1. Added = {}
    BY DEF Added
  <2> QED
    BY <2>1, FS_EmptySet, PoolAssumption DEF OpeningInv
<1>6. Accounted(freeSockets, socketCounter)
  <2>1. 0 .. 0 - 1 = {}
    OBVIOUS
  <2> QED
    BY <1>1, <1>2, <2>1 DEF Accounted, IsInjective
<1> QED
  BY <1>3, <1>4, <1>5, <1>6, PoolTypes DEF PoolInv

\* Loading the page again starts over.
LEMMA ReloadKeeps == Reload => PoolInv'
<1>1. Reload => Init'
  BY DEF Reload, Init
<1>2. Init' => PoolInv'
  BY InitPool, PTL
<1> QED
  BY <1>1, <1>2

\* Every task keeps the inductive invariant.
LEMMA StepPool == PoolInv /\ [Next]_vars => PoolInv'
<1> SUFFICES ASSUME PoolInv, [Next]_vars PROVE PoolInv'
  OBVIOUS
<1>1. CASE UNCHANGED vars
  <2>1. Holders' = Holders /\ Added' = Added
    BY <1>1 DEF vars, Holders, Added
  <2>2. InUse' = InUse
    BY <1>1, <2>1 DEF vars, InUse
  <2>3. TypeOK' /\ \A r \in Holders' : sock'[r] \in Sockets
    BY <1>1, <2>1 DEF vars, PoolInv, TypeOK
  <2>4. ~exiting' => Accounted(freeSockets, socketCounter)'
    BY <1>1, <2>1, <2>2 DEF vars, PoolInv, Accounted
  <2>5. InflightInv' /\ OpeningInv'
    BY <1>1, <2>1 DEF vars, PoolInv, InflightInv, OpeningInv
  <2> QED
    BY <2>3, <2>4, <2>5 DEF PoolInv
<1>2. CASE Next
  BY <1>2, AskKeeps, PollKeeps, OpenKeeps, DeliverKeeps, CloseKeeps, HandledKeeps, ExitKeeps,
     ReloadKeeps DEF Next
<1> QED
  BY <1>1, <1>2

-----------------------------------------------------------------------------
(* Results.                                                                *)

\* The invariant of every behaviour.
LEMMA AlwaysPool == Spec => []PoolInv
  BY InitPool, StepPool, PTL DEF Spec

\* WebSocketPool: no two requests ever share a socket and none is lost but to a
\* function that threw, for a pool of any size, in whatever order its sockets open
\* and close and requests come from within the functions of others.
THEOREM SocketsAccounted == Spec => []SocketsAccountedFor
<1>1. PoolInv => SocketsAccountedFor
  BY DEF PoolInv, Accounted, SocketsAccountedFor
<1> QED
  BY <1>1, AlwaysPool, PTL

\* Client._readBase: the function of a request is called with the answer to the
\* command of that request.
THEOREM AnswersReach == Spec => []AnswersReachTheirRequest
<1>1. PoolInv => AnswersReachTheirRequest
  BY DEF PoolInv, InflightInv, AnswersReachTheirRequest
<1> QED
  BY <1>1, AlwaysPool, PTL

=============================================================================
