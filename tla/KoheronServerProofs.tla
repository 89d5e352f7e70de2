------------------------- MODULE KoheronServerProofs -------------------------
(***************************************************************************)
(* Proofs about SessionManager and KoheronServer for any set of            *)
(* connections, any number of channels and any worker limits.  First the   *)
(* manager by itself: the invariant SMInv, the safety properties it        *)
(* implies, the refinement of SessionTable.  Then the server: it uses the  *)
(* manager the way SessionManager assumes, so what is proved of the        *)
(* manager holds in the server; and what the threads read without the lock *)
(* is right until the shutdown.                                            *)
(***************************************************************************)
EXTENDS KoheronServer, FiniteSetTheorems, TLAPS

-----------------------------------------------------------------------------
(* The session manager: its containers *)

\* PoolInsert adds a fresh key and keeps the other entries (std::map::insert).
LEMMA PoolInsertFresh ==
  ASSUME NEW id, id \notin DOMAIN session_pool, NEW s
  PROVE  /\ DOMAIN PoolInsert(id, s) = DOMAIN session_pool \cup {id}
         /\ PoolInsert(id, s)[id] = s
         /\ \A i \in DOMAIN session_pool : PoolInsert(id, s)[i] = session_pool[i]
  BY DEF PoolInsert

\* PoolErase removes one key and keeps the other entries (std::map::erase).
LEMMA PoolEraseKey ==
  ASSUME NEW id
  PROVE  /\ DOMAIN PoolErase(id) = DOMAIN session_pool \ {id}
         /\ \A i \in DOMAIN session_pool \ {id} :
               PoolErase(id)[i] = session_pool[i]
  BY DEF PoolErase

\* What pop_back does to the set of reusable identifiers.
LEMMA PopReusable ==
  ASSUME NEW q \in Seq(Nat), q # <<>>,
         \A j, k \in DOMAIN q : q[j] = q[k] => j = k
  PROVE  LET p == SubSeq(q, 1, Len(q) - 1)
             Elts(r) == {r[k] : k \in DOMAIN r}
         IN  /\ p \in Seq(Nat)
             /\ q[Len(q)] \in Nat
             /\ Elts(p) = Elts(q) \ {q[Len(q)]}
             /\ q[Len(q)] \in Elts(q)
             /\ \A j, k \in DOMAIN p : p[j] = p[k] => j = k
<1> DEFINE p == SubSeq(q, 1, Len(q) - 1)
           Elts(r) == {r[k] : k \in DOMAIN r}
<1>1. Len(q) \in Nat \ {0} /\ DOMAIN q = 1 .. Len(q)
  OBVIOUS
<1>2. p \in Seq(Nat) /\ DOMAIN p = 1 .. (Len(q) - 1)
      /\ \A k \in DOMAIN p : p[k] = q[k]
  BY <1>1
<1>3. Elts(p) = Elts(q) \ {q[Len(q)]}
  <2>1. ASSUME NEW x \in Elts(p) PROVE x \in Elts(q) \ {q[Len(q)]}
    <3>1. PICK k \in DOMAIN p : x = p[k]
      BY <2>1
    <3>2. k \in DOMAIN q /\ k # Len(q) /\ x = q[k]
      BY <1>1, <1>2, <3>1
    <3>3. QED
      BY <1>1, <3>2
  <2>2. ASSUME NEW x \in Elts(q) \ {q[Len(q)]} PROVE x \in Elts(p)
    <3>1. PICK k \in DOMAIN q : x = q[k]
      BY <2>2
    <3>2. k \in DOMAIN p /\ x = p[k]
      BY <1>1, <1>2, <2>2, <3>1
    <3>3. QED
      BY <3>2
  <2>3. QED
    BY <2>1, <2>2
<1>4. \A j, k \in DOMAIN p : p[j] = p[k] => j = k
  BY <1>1, <1>2
<1>5. q[Len(q)] \in Nat /\ q[Len(q)] \in Elts(q)
  BY <1>1
<1> QED
  BY <1>2, <1>3, <1>4, <1>5

\* What push_back does to it.
LEMMA PushReusable ==
  ASSUME NEW q \in Seq(Nat), NEW id \in Nat,
         id \notin {q[k] : k \in DOMAIN q},
         \A j, k \in DOMAIN q : q[j] = q[k] => j = k
  PROVE  LET p == Append(q, id)
             Elts(r) == {r[k] : k \in DOMAIN r}
         IN  /\ p \in Seq(Nat)
             /\ Elts(p) = Elts(q) \cup {id}
             /\ \A j, k \in DOMAIN p : p[j] = p[k] => j = k
<1> DEFINE p == Append(q, id)
           Elts(r) == {r[k] : k \in DOMAIN r}
<1>1. Len(q) \in Nat /\ DOMAIN q = 1 .. Len(q)
  OBVIOUS
<1>2. p \in Seq(Nat) /\ DOMAIN p = 1 .. (Len(q) + 1)
      /\ (\A k \in DOMAIN q : p[k] = q[k]) /\ p[Len(q) + 1] = id
  BY <1>1
<1>3. ASSUME NEW x \in Elts(p) PROVE x \in Elts(q) \cup {id}
  <2>1. PICK k \in DOMAIN p : x = p[k]
    BY <1>3
  <2>2. k \in DOMAIN q \/ k = Len(q) + 1
    BY <1>1, <1>2
  <2>3. QED
    BY <1>2, <2>1, <2>2
<1>4. ASSUME NEW x \in Elts(q) \cup {id} PROVE x \in Elts(p)
  <2>1. CASE x = id
    <3>1. Len(q) + 1 \in DOMAIN p
      BY <1>1, <1>2
    <3>2. QED
      BY <1>2, <2>1, <3>1
  <2>2. CASE x \in Elts(q)
    <3>1. PICK k \in DOMAIN q : x = q[k]
      BY <2>2
    <3>2. k \in DOMAIN p
      BY <1>1, <1>2
    <3>3. QED
      BY <1>2, <3>1, <3>2
  <2>3. QED
    BY <1>4, <2>1, <2>2
<1>5. \A j, k \in DOMAIN p : p[j] = p[k] => j = k
  BY <1>1, <1>2
<1> QED
  BY <1>2, <1>3, <1>4, <1>5

\* A finite set of naturals without gaps is 0 .. n-1 for its cardinality n:
\* the counter is the first identifier that is not in use.
LEMMA DenseSet ==
  ASSUME NEW D, D \subseteq Nat, IsFiniteSet(D), \A i \in D : 0 .. i \subseteq D
  PROVE  /\ Cardinality(D) \in Nat
         /\ Cardinality(D) \notin D
         /\ \A j \in 0 .. Cardinality(D) - 1 : j \in D
<1> DEFINE n == Cardinality(D)
<1>1. n \in Nat
  BY FS_CardinalityType
<1>2. n \notin D
  <2> SUFFICES ASSUME n \in D PROVE FALSE
    OBVIOUS
  <2>1. 0 .. n \subseteq D
    OBVIOUS
  <2>2. Cardinality(0 .. n) = n + 1
    <3>1. 0 \in Int /\ n \in Int /\ ~(0 > n)
      BY <1>1
    <3>2. Cardinality(0 .. n) = IF 0 > n THEN 0 ELSE n - 0 + 1
      BY ONLY <3>1, FS_Interval
    <3>3. QED
      BY <1>1, <3>1, <3>2
  <2>3. Cardinality(0 .. n) <= n
    BY <2>1, FS_Subset
  <2>4. QED
    BY <1>1, <2>2, <2>3
<1>3. ASSUME NEW j \in 0 .. n - 1, j \notin D PROVE FALSE
  <2>1. D \subseteq 0 .. (j - 1)
    <3> SUFFICES ASSUME NEW i \in D PROVE i \in 0 .. (j - 1)
      OBVIOUS
    <3>1. i \in Nat /\ j \notin 0 .. i
      BY <1>3
    <3>2. QED
      BY <1>1, <3>1
  <2>2. IsFiniteSet(0 .. (j - 1)) /\ Cardinality(0 .. (j - 1)) = j
    <3>1. 0 \in Int /\ j \in Nat /\ j - 1 \in Int
      BY <1>1
    <3>2. /\ IsFiniteSet(0 .. (j - 1))
          /\ Cardinality(0 .. (j - 1)) = IF 0 > j - 1 THEN 0 ELSE (j - 1) - 0 + 1
      BY ONLY <3>1, FS_Interval
    <3>3. QED
      BY <3>1, <3>2
  <2>3. n <= j
    BY <2>1, <2>2, FS_Subset
  <2>4. QED
    BY <1>1, <2>3
<1>4. QED
  BY <1>1, <1>2, <1>3

-----------------------------------------------------------------------------
(* The inductive invariant *)

\* The invariant holds of the empty manager.
LEMMA SMInitInv == SMInit => SMInv
<1> SUFFICES ASSUME SMInit PROVE SMInv
  OBVIOUS
<1> USE CallersAreDistinct DEF SMInit
<1>1. DOMAIN session_pool = {} /\ reusable_ids = <<>> /\ DOMAIN reusable_ids = {}
  OBVIOUS
<1>2. SMTypeOK
  BY <1>1 DEF SMTypeOK, Callers, SessionSteps, MainSteps
<1>3. MutexInv /\ ArgInv
  BY DEF MutexInv, ArgInv, Critical, Callers
<1>4. IdsPartitioned /\ IdsDense
  BY <1>1 DEF IdsPartitioned, IdsDense, UsedIds, Reusable, InFlight
<1>5. CountInv
  BY <1>1, FS_EmptySet DEF CountInv, Uncounted
<1>6. OwnerInv /\ OwnInv
  BY <1>1 DEF OwnerInv, OwnInv, Callers
<1>7. FdInv
  BY <1>1 DEF FdInv, Callers
<1> QED
  BY <1>2, <1>3, <1>4, <1>5, <1>6, <1>7 DEF SMInv

\* A step outside the critical sections that leaves the containers alone.
LEMMA NonCriticalStep ==
  ASSUME SMInv, SMTypeOK', NEW t \in Callers, NEW to,
         UNCHANGED <<session_pool, reusable_ids, number_of_sessions, mutex,
                     open_fds>>,
         step[t] \notin Critical, to \notin Critical,
         step' = [step EXCEPT ![t] = to],
         \A u \in Callers \ {t} : arg'[u] = arg[u],
         to = "delete" => arg'[t] \in Nat,
         t = Main => to # "idle",
         t \in Sessions =>
            \/ step[t] = "accepted" /\ to = "create" /\ arg'[t] = arg[t]
            \/ step[t] = "created" /\ to = "delete" /\ arg'[t] = arg[t]
            \/ step[t] = "delete" /\ to = "deleted"
               /\ arg[t] \notin DOMAIN session_pool
  PROVE  SMInv'
<1> USE CallersAreDistinct DEF Callers
<1>1. step \in [Callers -> SessionSteps \cup MainSteps] /\ step'[t] = to
      /\ \A u \in Callers \ {t} : step'[u] = step[u]
  BY DEF SMInv, SMTypeOK
<1>2. \A i \in DOMAIN session_pool : session_pool[i] \in Sessions
  BY DEF SMInv, SMTypeOK
<1>3. mutex # t /\ step'[t] \notin Critical
  BY <1>1 DEF SMInv, MutexInv
<1>4. MutexInv'
  BY <1>1, <1>3 DEF SMInv, MutexInv
<1>5. mutex # Nobody => mutex \in Callers /\ step'[mutex] = step[mutex]
                        /\ arg'[mutex] = arg[mutex]
  BY <1>1, <1>3 DEF SMInv, SMTypeOK
<1>6. ArgInv'
  BY <1>1, <1>3 DEF SMInv, ArgInv, Critical
<1>7. InFlight' = InFlight /\ Uncounted' = Uncounted /\ Reusable' = Reusable
      /\ \A i : BeingErased(i)' <=> BeingErased(i)
  BY <1>5 DEF InFlight, Uncounted, Reusable, BeingErased
<1>8. IdsPartitioned' /\ IdsDense'
  BY <1>7 DEF SMInv, IdsPartitioned, IdsDense, UsedIds
<1>9. CountInv'
  BY <1>7 DEF SMInv, CountInv
<1>10. OwnerInv'
  BY <1>1, <1>2 DEF SMInv, OwnerInv
<1>11. OwnInv'
  BY <1>1 DEF SMInv, OwnInv, Critical
<1>12. FdInv'
  <2>1. \A i \in DOMAIN session_pool' :
           session_pool'[i] \in open_fds' <=> ~BeingErased(i)'
    BY <1>7 DEF SMInv, FdInv
  <2>2. \A s \in Sessions :
           /\ step'[s] \in {"accepted", "create", "insert"} => s \in open_fds'
           /\ s \in open_fds' =>
                 step'[s] \in {"accepted", "create", "insert"} \/ s \in Live'
    BY <1>1 DEF SMInv, FdInv, Live, Critical
  <2>3. QED
    BY <2>1, <2>2 DEF FdInv, SMInv, SMTypeOK
<1> QED
  BY <1>4, <1>6, <1>8, <1>9, <1>10, <1>11, <1>12 DEF SMInv

\* Every step keeps the types; the identifier taken from number_of_sessions is
\* a natural number because the counter is the size of the map.
LEMMA SMTypeStep == SMInv /\ SMNext => SMTypeOK'
<1> SUFFICES ASSUME SMInv, SMNext PROVE SMTypeOK'
  OBVIOUS
<1> USE CallersAreDistinct DEF Callers, SMInv, SMTypeOK, SessionSteps, MainSteps,
        Goto
<1>1. ASSUME NEW s \in Sessions, Accepted(s) \/ CallCreate(s) \/ CallDelete(s)
      PROVE  SMTypeOK'
  BY <1>1 DEF Accepted, CallCreate, CallDelete
<1>2. ASSUME NEW s \in Sessions, CreateChoose(s) PROVE SMTypeOK'
  <2>1. number_of_sessions \in Nat
    BY <1>2, FS_CardinalityType DEF CreateChoose, CountInv, Uncounted
  <2>2. reusable_ids' \in Seq(Nat) /\ arg' \in [Callers -> Nat \cup {-1}]
    <3>1. CASE reusable_ids = <<>>
      BY <1>2, <2>1, <3>1 DEF CreateChoose
    <3>2. CASE reusable_ids # <<>>
      <4>1. SubSeq(reusable_ids, 1, Len(reusable_ids) - 1) \in Seq(Nat)
            /\ reusable_ids[Len(reusable_ids)] \in Nat
        BY <3>2, PopReusable DEF IdsPartitioned
      <4>2. QED
        BY <1>2, <3>2, <4>1 DEF CreateChoose
    <3>3. QED
      BY <3>1, <3>2
  <2>3. QED
    BY <1>2, <2>2 DEF CreateChoose
<1>3. ASSUME NEW s \in Sessions, CreateInsert(s) PROVE SMTypeOK'
  <2>1. arg[s] \in Nat
    BY <1>3 DEF CreateInsert, ArgInv, Critical
  <2>2. /\ DOMAIN session_pool' = DOMAIN session_pool \cup {arg[s]}
        /\ session_pool' \in [DOMAIN session_pool' -> Sessions]
    BY <1>3 DEF CreateInsert, PoolInsert
  <2>3. QED
    BY <1>3, <2>1, <2>2 DEF CreateInsert
<1>4. ASSUME NEW s \in Sessions, CreateCount(s) PROVE SMTypeOK'
  BY <1>4 DEF CreateCount
<1>5. ASSUME NEW t \in Callers, DeleteUnknown(t) PROVE SMTypeOK'
  BY <1>5 DEF DeleteUnknown
<1>6. ASSUME NEW t \in Callers, DeleteClose(t) PROVE SMTypeOK'
  BY <1>6 DEF DeleteClose
<1>7. ASSUME NEW t \in Callers, DeleteErase(t) PROVE SMTypeOK'
  <2>1. /\ DOMAIN session_pool' = DOMAIN session_pool \ {arg[t]}
        /\ session_pool' \in [DOMAIN session_pool' -> Sessions]
    BY <1>7 DEF DeleteErase, PoolErase
  <2>2. QED
    BY <1>7, <2>1 DEF DeleteErase
<1>8. ASSUME NEW t \in Callers, DeleteRecycle(t) PROVE SMTypeOK'
  <2>1. arg[t] \in Nat
    BY <1>8 DEF DeleteRecycle, ArgInv, Critical
  <2>2. reusable_ids' \in Seq(Nat)
    BY <1>8, <2>1 DEF DeleteRecycle
  <2>3. QED
    BY <1>8, <2>2 DEF DeleteRecycle
<1>9. ASSUME CallDeleteAll \/ CallExitComm \/ DeleteAllEnter \/ DeleteAllEnd
      PROVE  SMTypeOK'
  BY <1>9 DEF CallDeleteAll, CallExitComm, DeleteAllEnter, DeleteAllEnd
<1>10. ASSUME CollectEnd \/ ExitCommEnd PROVE SMTypeOK'
  BY <1>10 DEF CollectEnd, ExitCommEnd
<1>11. ASSUME Collect PROVE SMTypeOK'
  <2>1. PICK id \in DOMAIN session_pool :
           todo' = Append(todo, id) /\ cursor' = id
    BY <1>11 DEF Collect
  <2>2. id \in Nat /\ todo' \in Seq(Nat)
    BY <2>1
  <2>3. QED
    BY <1>11, <2>1, <2>2 DEF Collect
<1>12. ASSUME ExitComm PROVE SMTypeOK'
  <2>1. PICK id \in DOMAIN session_pool :
           exit_signal' = exit_signal \cup {session_pool[id]} /\ cursor' = id
    BY <1>12 DEF ExitComm
  <2>2. id \in Nat /\ session_pool[id] \in Sessions
    BY <2>1
  <2>3. QED
    BY <1>12, <2>1, <2>2 DEF ExitComm
<1>13. ASSUME DeleteAllNext PROVE SMTypeOK'
  <2>1. Head(todo) \in Nat /\ Tail(todo) \in Seq(Nat)
    BY <1>13 DEF DeleteAllNext
  <2>2. QED
    BY <1>13, <2>1 DEF DeleteAllNext
<1> QED
  BY <1>1, <1>2, <1>3, <1>4, <1>5, <1>6, <1>7, <1>8, <1>9, <1>10, <1>11, <1>12,
     <1>13
  DEF SMNext, SMInternal, SMCall, CreateStep, DeleteStep, MainStep

\* The calls, and everything main does between two calls of delete_session.
LEMMA SMQuietSteps ==
  ASSUME SMInv, SMTypeOK',
         \/ \E s \in Sessions : CallCreate(s) \/ CallDelete(s)
         \/ \E t \in Callers : DeleteUnknown(t)
         \/ CallDeleteAll \/ CallExitComm \/ MainStep
  PROVE  SMInv'
<1> USE CallersAreDistinct DEF Callers, Goto, Critical
<1>0. step \in [Callers -> SessionSteps \cup MainSteps] /\ SMTypeOK
  BY DEF SMInv, SMTypeOK
<1>1. ASSUME NEW s \in Sessions, CallCreate(s) PROVE SMInv'
  BY <1>0, <1>1, NonCriticalStep DEF CallCreate
<1>2. ASSUME NEW s \in Sessions, CallDelete(s) PROVE SMInv'
  <2>1. arg[s] \in Nat
    BY <1>2 DEF CallDelete, SMInv, ArgInv
  <2>2. QED
    BY <1>0, <1>2, <2>1, NonCriticalStep DEF CallDelete
<1>3. ASSUME NEW t \in Callers, DeleteUnknown(t) PROVE SMInv'
  <2>1. \A u \in Callers \ {t} : arg'[u] = arg[u]
    BY <1>0, <1>3 DEF DeleteUnknown, SMTypeOK
  <2>2. QED
    BY <1>0, <1>3, <2>1, NonCriticalStep DEF DeleteUnknown
<1>4. ASSUME CallDeleteAll \/ CallExitComm PROVE SMInv'
  BY <1>0, <1>4, NonCriticalStep DEF CallDeleteAll, CallExitComm
<1>5. ASSUME DeleteAllEnter \/ CollectEnd \/ DeleteAllEnd \/ ExitCommEnd PROVE SMInv'
  BY <1>0, <1>5, NonCriticalStep
  DEF DeleteAllEnter, CollectEnd, DeleteAllEnd, ExitCommEnd
<1>6. ASSUME Collect \/ ExitComm PROVE SMInv'
  <2>1. step' = [step EXCEPT ![Main] = step[Main]]
    BY <1>0, <1>6 DEF Collect, ExitComm
  <2>2. QED
    BY <1>0, <1>6, <2>1, NonCriticalStep DEF Collect, ExitComm
<1>7. ASSUME DeleteAllNext PROVE SMInv'
  <2>1. arg'[Main] \in Nat /\ \A u \in Callers \ {Main} : arg'[u] = arg[u]
    BY <1>0, <1>7 DEF DeleteAllNext, SMTypeOK
  <2>2. QED
    BY <1>0, <1>7, <2>1, NonCriticalStep DEF DeleteAllNext
<1> QED
  BY <1>1, <1>2, <1>3, <1>4, <1>5, <1>6, <1>7 DEF MainStep

\* accept() opens a descriptor; the manager itself does not move.
LEMMA AcceptedStep ==
  ASSUME SMInv, SMTypeOK', NEW s \in Sessions, Accepted(s)
  PROVE  SMInv'
<1> USE CallersAreDistinct DEF Callers, Goto, Accepted
<1>1. /\ step[s] = "idle" /\ step'[s] = "accepted"
      /\ \A u \in Callers \ {s} : step'[u] = step[u]
  BY DEF SMInv, SMTypeOK
<1>2. MutexInv' /\ mutex # s
  BY <1>1 DEF SMInv, MutexInv, Critical
<1>3. ArgInv'
  BY <1>1 DEF SMInv, ArgInv, Critical
<1>4. mutex # Nobody => step'[mutex] = step[mutex]
  BY <1>1, <1>2 DEF SMInv, SMTypeOK
<1>5. InFlight' = InFlight /\ Uncounted' = Uncounted /\ Reusable' = Reusable
      /\ \A i : BeingErased(i)' <=> BeingErased(i)
  BY <1>4 DEF InFlight, Uncounted, Reusable, BeingErased
<1>6. IdsPartitioned' /\ IdsDense' /\ CountInv'
  BY <1>5 DEF SMInv, IdsPartitioned, IdsDense, UsedIds, CountInv
<1>7. OwnerInv'
  BY <1>1 DEF SMInv, SMTypeOK, OwnerInv
<1>8. OwnInv'
  BY <1>1 DEF SMInv, OwnInv
<1>9. FdInv'
  <2>1. \A i \in DOMAIN session_pool' :
           session_pool'[i] \in open_fds' <=> ~BeingErased(i)'
    BY <1>1, <1>5 DEF SMInv, FdInv, OwnerInv
  <2>2. \A u \in Sessions :
           /\ step'[u] \in {"accepted", "create", "insert"} => u \in open_fds'
           /\ u \in open_fds' =>
                 step'[u] \in {"accepted", "create", "insert"} \/ u \in Live'
    BY <1>1 DEF SMInv, FdInv, Live
  <2>3. QED
    BY <2>1, <2>2 DEF FdInv, SMTypeOK
<1> QED
  BY <1>2, <1>3, <1>6, <1>7, <1>8, <1>9 DEF SMInv

\* create_session chooses an identifier that nobody has: the top of the stack,
\* or with an empty stack the counter (DenseSet).
LEMMA CreateChooseStep ==
  ASSUME SMInv, SMTypeOK', NEW s \in Sessions, CreateChoose(s)
  PROVE  SMInv'
<1> USE CallersAreDistinct DEF Callers, Goto
<1>1. /\ step[s] = "create" /\ step'[s] = "insert" /\ mutex = Nobody /\ mutex' = s
      /\ \A u \in Callers \ {s} : step'[u] = step[u] /\ arg'[u] = arg[u]
      /\ UNCHANGED <<session_pool, number_of_sessions, open_fds>>
  BY DEF CreateChoose, SMInv, SMTypeOK
<1>2. InFlight = {} /\ InFlight' = {arg'[s]}
  BY <1>1 DEF InFlight
<1>3. number_of_sessions = Cardinality(DOMAIN session_pool)
      /\ IsFiniteSet(DOMAIN session_pool)
  BY <1>1, FS_CardinalityType DEF SMInv, CountInv, Uncounted
<1>4. /\ Reusable' \cap {arg'[s]} = {}
      /\ arg'[s] \notin DOMAIN session_pool
      /\ arg'[s] \in Nat
      /\ Reusable' \subseteq Reusable
      /\ \A j, k \in DOMAIN reusable_ids' :
            reusable_ids'[j] = reusable_ids'[k] => j = k
      /\ \A i \in UsedIds' : 0 .. i \subseteq UsedIds'
  <2>1. CASE reusable_ids = <<>>
    <3>1. reusable_ids' = <<>> /\ arg'[s] = number_of_sessions
      BY <1>1, <2>1 DEF CreateChoose, SMInv, SMTypeOK
    <3>2. Reusable = {} /\ Reusable' = {} /\ DOMAIN reusable_ids' = {}
      BY <2>1, <3>1 DEF Reusable
    <3>3. UsedIds = DOMAIN session_pool
          /\ UsedIds' = DOMAIN session_pool \cup {number_of_sessions}
      BY <1>1, <1>2, <3>1, <3>2 DEF UsedIds
    <3>4. \A i \in DOMAIN session_pool : 0 .. i \subseteq DOMAIN session_pool
      BY <3>3 DEF SMInv, IdsDense
    <3>5. DOMAIN session_pool \subseteq Nat
      BY DEF SMInv, SMTypeOK
    <3>6. /\ number_of_sessions \in Nat
          /\ number_of_sessions \notin DOMAIN session_pool
          /\ \A j \in 0 .. number_of_sessions - 1 : j \in DOMAIN session_pool
      BY ONLY <1>3, <3>4, <3>5, DenseSet
    <3>7. \A i \in UsedIds' : 0 .. i \subseteq UsedIds'
      <4> SUFFICES ASSUME NEW i \in UsedIds', NEW j \in 0 .. i PROVE j \in UsedIds'
        OBVIOUS
      <4>1. CASE i \in DOMAIN session_pool
        BY <3>3, <3>4, <4>1
      <4>2. CASE i = number_of_sessions
        <5>1. j = number_of_sessions \/ j \in 0 .. number_of_sessions - 1
          BY <3>6, <4>2
        <5>2. QED
          BY <3>3, <3>6, <5>1
      <4>3. QED
        BY <3>3, <4>1, <4>2
    <3>8. QED
      BY <3>1, <3>2, <3>6, <3>7
  <2>2. CASE reusable_ids # <<>>
    <3> DEFINE top == reusable_ids[Len(reusable_ids)]
    <3>1. reusable_ids' = SubSeq(reusable_ids, 1, Len(reusable_ids) - 1)
          /\ arg'[s] = top
      BY <1>1, <2>2 DEF CreateChoose, SMInv, SMTypeOK
    <3>2. /\ top \in Nat /\ top \in Reusable /\ Reusable' = Reusable \ {top}
          /\ \A j, k \in DOMAIN reusable_ids' :
                reusable_ids'[j] = reusable_ids'[k] => j = k
      <4>1. reusable_ids \in Seq(Nat)
            /\ \A j, k \in DOMAIN reusable_ids :
                  reusable_ids[j] = reusable_ids[k] => j = k
        BY DEF SMInv, SMTypeOK, IdsPartitioned
      <4> HIDE DEF top
      <4>2. LET p == SubSeq(reusable_ids, 1, Len(reusable_ids) - 1)
                Elts(r) == {r[k] : k \in DOMAIN r}
            IN  /\ reusable_ids[Len(reusable_ids)] \in Nat
                /\ Elts(p) = Elts(reusable_ids) \ {reusable_ids[Len(reusable_ids)]}
                /\ reusable_ids[Len(reusable_ids)] \in Elts(reusable_ids)
                /\ \A j, k \in DOMAIN p : p[j] = p[k] => j = k
        BY ONLY <2>2, <4>1, PopReusable
      <4>3. QED
        BY <3>1, <4>2 DEF Reusable, top
    <3>3. top \notin DOMAIN session_pool
      BY <3>2 DEF SMInv, IdsPartitioned
    <3>4. UsedIds' = UsedIds
      BY <1>1, <1>2, <3>1, <3>2 DEF UsedIds
    <3>5. QED
      BY <3>1, <3>2, <3>3, <3>4 DEF SMInv, IdsDense
  <2>3. QED
    BY <2>1, <2>2
<1>5. MutexInv'
  BY <1>1 DEF SMInv, MutexInv, Critical
<1>6. ArgInv'
  BY <1>1, <1>4 DEF SMInv, ArgInv, Critical
<1>7. IdsPartitioned'
  <2>1. DOMAIN session_pool \cap Reusable = {}
    BY DEF SMInv, IdsPartitioned
  <2>2. QED
    BY <1>1, <1>2, <1>4, <2>1 DEF IdsPartitioned
<1>8. IdsDense'
  BY <1>4 DEF IdsDense
<1>9. CountInv'
  BY <1>1 DEF SMInv, CountInv, Uncounted
<1>10. OwnerInv'
  <2>1. \A i \in DOMAIN session_pool : session_pool[i] \in Sessions \ {s}
    BY <1>1 DEF SMInv, SMTypeOK, OwnerInv
  <2>2. QED
    BY <1>1, <2>1 DEF SMInv, OwnerInv
<1>11. OwnInv'
  BY <1>1 DEF SMInv, OwnInv
<1>12. FdInv'
  <2>1. \A i \in DOMAIN session_pool' :
           session_pool'[i] \in open_fds' <=> ~BeingErased(i)'
    BY <1>1 DEF SMInv, FdInv, BeingErased
  <2>2. \A u \in Sessions :
           /\ step'[u] \in {"accepted", "create", "insert"} => u \in open_fds'
           /\ u \in open_fds' =>
                 step'[u] \in {"accepted", "create", "insert"} \/ u \in Live'
    BY <1>1 DEF SMInv, FdInv, Live
  <2>3. QED
    BY <2>1, <2>2 DEF FdInv, SMTypeOK
<1> QED
  BY <1>5, <1>6, <1>7, <1>8, <1>9, <1>10, <1>11, <1>12 DEF SMInv

\* The new session enters the map under the identifier held in flight.
LEMMA CreateInsertStep ==
  ASSUME SMInv, SMTypeOK', NEW s \in Sessions, CreateInsert(s)
  PROVE  SMInv'
<1> USE CallersAreDistinct DEF Callers, Goto
<1>1. /\ step[s] = "insert" /\ step'[s] = "count"
      /\ \A u \in Callers \ {s} : step'[u] = step[u]
      /\ UNCHANGED <<reusable_ids, number_of_sessions, mutex, arg, open_fds>>
  BY DEF CreateInsert, SMInv, SMTypeOK
<1>2. mutex = s /\ s # Nobody
  BY <1>1 DEF SMInv, MutexInv, Critical
<1>3. InFlight = {arg[s]} /\ InFlight' = {} /\ Reusable' = Reusable
  BY <1>1, <1>2 DEF InFlight, Reusable
<1>4. arg[s] \notin DOMAIN session_pool /\ arg[s] \notin Reusable /\ arg[s] \in Nat
  BY <1>1, <1>3 DEF SMInv, IdsPartitioned, ArgInv, Critical
<1>5. /\ DOMAIN session_pool' = DOMAIN session_pool \cup {arg[s]}
      /\ session_pool'[arg[s]] = s
      /\ \A i \in DOMAIN session_pool : session_pool'[i] = session_pool[i]
  <2>1. session_pool' = PoolInsert(arg[s], s)
    BY DEF CreateInsert
  <2>2. /\ DOMAIN PoolInsert(arg[s], s) = DOMAIN session_pool \cup {arg[s]}
        /\ PoolInsert(arg[s], s)[arg[s]] = s
        /\ \A i \in DOMAIN session_pool :
              PoolInsert(arg[s], s)[i] = session_pool[i]
    BY <1>4 DEF PoolInsert
  <2>3. QED
    BY ONLY <2>1, <2>2
<1>6. MutexInv'
  BY <1>1, <1>2 DEF SMInv, MutexInv, Critical
<1>7. ArgInv'
  BY <1>1, <1>4, <1>5 DEF SMInv, ArgInv, Critical
<1>8. IdsPartitioned' /\ IdsDense'
  <2>1. UsedIds' = UsedIds
    BY <1>3, <1>5 DEF UsedIds
  <2>2. QED
    BY <1>1, <1>3, <1>4, <1>5, <2>1 DEF SMInv, IdsPartitioned, IdsDense
<1>9. CountInv'
  <2>1. Uncounted = 0 /\ Uncounted' = -1
    BY <1>1, <1>2 DEF Uncounted
  <2>2. IsFiniteSet(DOMAIN session_pool)
        /\ number_of_sessions = Cardinality(DOMAIN session_pool)
        /\ Cardinality(DOMAIN session_pool) \in Nat
    BY <2>1, FS_CardinalityType DEF SMInv, CountInv
  <2>3. IsFiniteSet(DOMAIN session_pool \cup {arg[s]})
        /\ Cardinality(DOMAIN session_pool \cup {arg[s]})
             = Cardinality(DOMAIN session_pool) + 1
    BY ONLY <1>4, <2>2, FS_AddElement
  <2>4. QED
    BY <1>1, <1>5, <2>1, <2>2, <2>3 DEF CountInv
<1>10. OwnerInv'
  <2>1. \A i \in DOMAIN session_pool : session_pool[i] \in Sessions \ {s}
    BY <1>1 DEF SMInv, SMTypeOK, OwnerInv
  <2>2. QED
    BY <1>1, <1>5, <2>1 DEF SMInv, OwnerInv
<1>11. OwnInv'
  BY <1>1, <1>5 DEF SMInv, OwnInv
<1>12. FdInv'
  <2>1. \A i \in DOMAIN session_pool' :
           session_pool'[i] \in open_fds' <=> ~BeingErased(i)'
    BY <1>1, <1>2, <1>5 DEF SMInv, FdInv, BeingErased
  <2>2. \A u \in Sessions : u \in Live \/ u = s => u \in Live'
    BY <1>5 DEF Live
  <2>3. \A u \in Sessions :
           /\ step'[u] \in {"accepted", "create", "insert"} => u \in open_fds'
           /\ u \in open_fds' =>
                 step'[u] \in {"accepted", "create", "insert"} \/ u \in Live'
    BY <1>1, <2>2 DEF SMInv, FdInv
  <2>4. QED
    BY <2>1, <2>3 DEF FdInv, SMTypeOK
<1> QED
  BY <1>6, <1>7, <1>8, <1>9, <1>10, <1>11, <1>12 DEF SMInv

\* The counter catches up with the map and the lock is released.
LEMMA CreateCountStep ==
  ASSUME SMInv, SMTypeOK', NEW s \in Sessions, CreateCount(s)
  PROVE  SMInv'
<1> USE CallersAreDistinct DEF Callers, Goto
<1>1. /\ step[s] = "count" /\ step'[s] = "created" /\ mutex' = Nobody
      /\ number_of_sessions' = number_of_sessions + 1
      /\ \A u \in Callers \ {s} : step'[u] = step[u]
      /\ UNCHANGED <<session_pool, reusable_ids, arg, open_fds>>
  BY DEF CreateCount, SMInv, SMTypeOK
<1>2. mutex = s /\ s # Nobody
  BY <1>1 DEF SMInv, MutexInv, Critical
<1>3. InFlight = {} /\ InFlight' = {} /\ Reusable' = Reusable
  BY <1>1, <1>2 DEF InFlight, Reusable
<1>4. MutexInv'
  BY <1>1, <1>2 DEF SMInv, MutexInv, Critical
<1>5. ArgInv'
  BY <1>1 DEF SMInv, ArgInv, Critical
<1>6. IdsPartitioned' /\ IdsDense'
  BY <1>1, <1>3 DEF SMInv, IdsPartitioned, IdsDense, UsedIds
<1>7. CountInv'
  <2>1. Uncounted = -1 /\ Uncounted' = 0
    BY <1>1, <1>2 DEF Uncounted
  <2>2. IsFiniteSet(DOMAIN session_pool)
        /\ number_of_sessions = Cardinality(DOMAIN session_pool) - 1
        /\ Cardinality(DOMAIN session_pool) \in Nat
    BY <2>1, FS_CardinalityType DEF SMInv, CountInv
  <2>3. QED
    BY <1>1, <2>1, <2>2 DEF CountInv
<1>8. OwnerInv'
  BY <1>1 DEF SMInv, SMTypeOK, OwnerInv
<1>9. OwnInv'
  BY <1>1 DEF SMInv, OwnInv
<1>10. FdInv'
  <2>1. \A i \in DOMAIN session_pool' :
           session_pool'[i] \in open_fds' <=> ~BeingErased(i)'
    BY <1>1, <1>2 DEF SMInv, FdInv, BeingErased
  <2>2. \A u \in Sessions :
           /\ step'[u] \in {"accepted", "create", "insert"} => u \in open_fds'
           /\ u \in open_fds' =>
                 step'[u] \in {"accepted", "create", "insert"} \/ u \in Live'
    BY <1>1 DEF SMInv, FdInv, Live
  <2>3. QED
    BY <2>1, <2>2 DEF FdInv, SMTypeOK
<1> QED
  BY <1>4, <1>5, <1>6, <1>7, <1>8, <1>9, <1>10 DEF SMInv

\* The descriptor of the session found under arg[t] is closed first.
LEMMA DeleteCloseStep ==
  ASSUME SMInv, SMTypeOK', NEW t \in Callers, DeleteClose(t)
  PROVE  SMInv'
<1> USE CallersAreDistinct DEF Callers, Goto
<1>1. /\ step[t] = "delete" /\ step'[t] = "erase" /\ mutex = Nobody /\ mutex' = t
      /\ arg[t] \in DOMAIN session_pool
      /\ open_fds' = open_fds \ {session_pool[arg[t]]}
      /\ \A u \in Callers \ {t} : step'[u] = step[u]
      /\ UNCHANGED <<session_pool, reusable_ids, number_of_sessions, arg>>
  BY DEF DeleteClose, SMInv, SMTypeOK
<1>2. InFlight = {} /\ InFlight' = {} /\ Reusable' = Reusable
  BY <1>1 DEF InFlight, Reusable
<1>3. MutexInv'
  BY <1>1 DEF SMInv, MutexInv, Critical
<1>4. ArgInv'
  BY <1>1 DEF SMInv, ArgInv, Critical
<1>5. IdsPartitioned' /\ IdsDense'
  BY <1>1, <1>2 DEF SMInv, IdsPartitioned, IdsDense, UsedIds
<1>6. CountInv'
  <2>1. Uncounted = 0 /\ Uncounted' = 0
    BY <1>1 DEF Uncounted
  <2>2. QED
    BY <1>1, <2>1 DEF SMInv, CountInv
<1>7. OwnerInv'
  BY <1>1 DEF SMInv, SMTypeOK, OwnerInv
<1>8. OwnInv'
  BY <1>1 DEF SMInv, OwnInv
<1>9. FdInv'
  <2>1. \A i \in DOMAIN session_pool' :
           session_pool'[i] \in open_fds' <=> ~BeingErased(i)'
    <3> SUFFICES ASSUME NEW i \in DOMAIN session_pool
                 PROVE  session_pool[i] \in open_fds' <=> i # arg[t]
      BY <1>1 DEF BeingErased
    <3>1. session_pool[i] \in open_fds
      BY <1>1 DEF SMInv, FdInv, BeingErased
    <3>2. session_pool[i] = session_pool[arg[t]] => i = arg[t]
      BY <1>1 DEF SMInv, OwnerInv
    <3>3. QED
      BY <1>1, <3>1, <3>2
  <2>2. step[session_pool[arg[t]]] \notin {"accepted", "create", "insert"}
    BY <1>1 DEF SMInv, OwnerInv
  <2>3. \A u \in Sessions :
           /\ step'[u] \in {"accepted", "create", "insert"} => u \in open_fds'
           /\ u \in open_fds' =>
                 step'[u] \in {"accepted", "create", "insert"} \/ u \in Live'
    BY <1>1, <2>2 DEF SMInv, FdInv, Live
  <2>4. QED
    BY <2>1, <2>3 DEF FdInv, SMTypeOK
<1> QED
  BY <1>3, <1>4, <1>5, <1>6, <1>7, <1>8, <1>9 DEF SMInv

\* Nobody else can have removed the entry: the lock is held since it was found.
LEMMA DeleteEraseStep ==
  ASSUME SMInv, SMTypeOK', NEW t \in Callers, DeleteErase(t)
  PROVE  SMInv'
<1> USE CallersAreDistinct DEF Callers, Goto
<1>1. /\ step[t] = "erase" /\ step'[t] = "recycle"
      /\ \A u \in Callers \ {t} : step'[u] = step[u]
      /\ UNCHANGED <<reusable_ids, number_of_sessions, mutex, arg, open_fds>>
  BY DEF DeleteErase, SMInv, SMTypeOK
<1>2. mutex = t /\ t # Nobody
  BY <1>1 DEF SMInv, MutexInv, Critical
<1>3. InFlight = {} /\ InFlight' = {arg[t]} /\ Reusable' = Reusable
  BY <1>1, <1>2 DEF InFlight, Reusable
<1>4. arg[t] \in DOMAIN session_pool /\ arg[t] \in Nat
  BY <1>1 DEF SMInv, ArgInv, Critical
<1>5. /\ DOMAIN session_pool' = DOMAIN session_pool \ {arg[t]}
      /\ \A i \in DOMAIN session_pool' : session_pool'[i] = session_pool[i]
  <2>1. session_pool' = PoolErase(arg[t])
    BY DEF DeleteErase
  <2>2. /\ DOMAIN PoolErase(arg[t]) = DOMAIN session_pool \ {arg[t]}
        /\ \A i \in DOMAIN session_pool \ {arg[t]} :
              PoolErase(arg[t])[i] = session_pool[i]
    BY ONLY PoolEraseKey
  <2>3. QED
    BY ONLY <2>1, <2>2
<1>6. MutexInv'
  BY <1>1, <1>2 DEF SMInv, MutexInv, Critical
<1>7. ArgInv'
  BY <1>1, <1>2, <1>4, <1>5 DEF SMInv, ArgInv, MutexInv, Critical
<1>8. IdsPartitioned' /\ IdsDense'
  <2>1. UsedIds' = UsedIds
    BY <1>3, <1>4, <1>5 DEF UsedIds
  <2>2. arg[t] \notin Reusable
    BY <1>4 DEF SMInv, IdsPartitioned
  <2>3. QED
    BY <1>1, <1>3, <1>5, <2>1, <2>2 DEF SMInv, IdsPartitioned, IdsDense
<1>9. CountInv'
  <2>1. Uncounted = 0 /\ Uncounted' = 1
    BY <1>1, <1>2 DEF Uncounted
  <2>2. IsFiniteSet(DOMAIN session_pool)
        /\ number_of_sessions = Cardinality(DOMAIN session_pool)
        /\ Cardinality(DOMAIN session_pool) \in Nat
    BY <2>1, FS_CardinalityType DEF SMInv, CountInv
  <2>3. IsFiniteSet(DOMAIN session_pool \ {arg[t]})
        /\ Cardinality(DOMAIN session_pool \ {arg[t]})
             = Cardinality(DOMAIN session_pool) - 1
    BY ONLY <1>4, <2>2, FS_RemoveElement
  <2>4. QED
    BY <1>1, <1>5, <2>1, <2>2, <2>3 DEF CountInv
<1>10. OwnerInv'
  <2>1. \A i \in DOMAIN session_pool' : session_pool[i] # t /\ session_pool[i] \in Callers
    BY <1>5 DEF SMInv, SMTypeOK, OwnerInv
  <2>2. QED
    BY <1>1, <1>5, <2>1 DEF SMInv, OwnerInv
<1>11. OwnInv'
  <2>1. step'[Main] = "idle" => step[Main] = "idle" /\ t \in Sessions
    BY <1>1
  <2>2. QED
    BY <1>1, <1>5, <2>1 DEF SMInv, OwnInv
<1>12. FdInv'
  <2>1. \A i \in DOMAIN session_pool' :
           session_pool'[i] \in open_fds' <=> ~BeingErased(i)'
    BY <1>1, <1>2, <1>5 DEF SMInv, FdInv, BeingErased
  <2>2. session_pool[arg[t]] \notin open_fds
    BY <1>1, <1>2, <1>4 DEF SMInv, FdInv, BeingErased
  <2>3. \A u \in Sessions :
           /\ step'[u] \in {"accepted", "create", "insert"} => u \in open_fds'
           /\ u \in open_fds' =>
                 step'[u] \in {"accepted", "create", "insert"} \/ u \in Live'
    BY <1>1, <1>5, <2>2 DEF SMInv, FdInv, Live
  <2>4. QED
    BY <2>1, <2>3 DEF FdInv, SMTypeOK
<1> QED
  BY <1>6, <1>7, <1>8, <1>9, <1>10, <1>11, <1>12 DEF SMInv

\* The identifier held in flight goes on the stack.
LEMMA DeleteRecycleStep ==
  ASSUME SMInv, SMTypeOK', NEW t \in Callers, DeleteRecycle(t)
  PROVE  SMInv'
<1> USE CallersAreDistinct DEF Callers, Goto
<1>1. /\ step[t] = "recycle" /\ step'[t] = "deleted" /\ mutex' = Nobody
      /\ number_of_sessions' = number_of_sessions - 1
      /\ reusable_ids' = Append(reusable_ids, arg[t])
      /\ \A u \in Callers \ {t} : step'[u] = step[u] /\ arg'[u] = arg[u]
      /\ UNCHANGED <<session_pool, open_fds>>
  BY DEF DeleteRecycle, SMInv, SMTypeOK
<1>2. mutex = t /\ t # Nobody
  BY <1>1 DEF SMInv, MutexInv, Critical
<1>3. InFlight = {arg[t]} /\ InFlight' = {}
  BY <1>1, <1>2 DEF InFlight
<1>4. arg[t] \in Nat /\ arg[t] \notin DOMAIN session_pool /\ arg[t] \notin Reusable
  BY <1>1, <1>3 DEF SMInv, ArgInv, IdsPartitioned, Critical
<1>5. Reusable' = Reusable \cup {arg[t]}
      /\ \A j, k \in DOMAIN reusable_ids' :
            reusable_ids'[j] = reusable_ids'[k] => j = k
  <2>1. /\ reusable_ids \in Seq(Nat)
        /\ arg[t] \in Nat
        /\ arg[t] \notin {reusable_ids[k] : k \in DOMAIN reusable_ids}
        /\ \A j, k \in DOMAIN reusable_ids :
              reusable_ids[j] = reusable_ids[k] => j = k
    BY <1>4 DEF SMInv, SMTypeOK, IdsPartitioned, Reusable
  <2>2. LET p == Append(reusable_ids, arg[t])
            Elts(r) == {r[k] : k \in DOMAIN r}
        IN  /\ Elts(p) = Elts(reusable_ids) \cup {arg[t]}
            /\ \A j, k \in DOMAIN p : p[j] = p[k] => j = k
    BY ONLY <2>1, PushReusable
  <2>3. QED
    BY <1>1, <2>2 DEF Reusable
<1>6. MutexInv'
  BY <1>1, <1>2 DEF SMInv, MutexInv, Critical
<1>7. ArgInv'
  BY <1>1 DEF SMInv, ArgInv, Critical
<1>8. IdsPartitioned' /\ IdsDense'
  <2>1. UsedIds' = UsedIds
    BY <1>1, <1>3, <1>5 DEF UsedIds
  <2>2. DOMAIN session_pool \cap Reusable = {}
    BY DEF SMInv, IdsPartitioned
  <2>3. QED
    BY <1>1, <1>3, <1>4, <1>5, <2>1, <2>2 DEF SMInv, IdsPartitioned, IdsDense
<1>9. CountInv'
  <2>1. Uncounted = 1 /\ Uncounted' = 0
    BY <1>1, <1>2 DEF Uncounted
  <2>2. IsFiniteSet(DOMAIN session_pool)
        /\ number_of_sessions = Cardinality(DOMAIN session_pool) + 1
        /\ Cardinality(DOMAIN session_pool) \in Nat
    BY <2>1, FS_CardinalityType DEF SMInv, CountInv
  <2>3. QED
    BY <1>1, <2>1, <2>2 DEF CountInv
<1>10. OwnerInv'
  <2>1. \A i \in DOMAIN session_pool : session_pool[i] \in Sessions \ {t}
    BY <1>1 DEF SMInv, SMTypeOK, OwnerInv
  <2>2. QED
    BY <1>1, <2>1 DEF SMInv, OwnerInv
<1>11. OwnInv'
  <2>1. step'[Main] = "idle" => step[Main] = "idle"
    BY <1>1
  <2>2. QED
    BY <1>1, <2>1 DEF SMInv, OwnInv
<1>12. FdInv'
  <2>1. \A i \in DOMAIN session_pool' :
           session_pool'[i] \in open_fds' <=> ~BeingErased(i)'
    BY <1>1, <1>2 DEF SMInv, FdInv, BeingErased
  <2>2. \A u \in Sessions :
           /\ step'[u] \in {"accepted", "create", "insert"} => u \in open_fds'
           /\ u \in open_fds' =>
                 step'[u] \in {"accepted", "create", "insert"} \/ u \in Live'
    BY <1>1 DEF SMInv, FdInv, Live
  <2>3. QED
    BY <2>1, <2>2 DEF FdInv, SMTypeOK
<1> QED
  BY <1>6, <1>7, <1>8, <1>9, <1>10, <1>11, <1>12 DEF SMInv

\* Every step of a caller keeps it.
LEMMA SMStep == SMInv /\ [SMNext]_smVars => SMInv'
<1> SUFFICES ASSUME SMInv, [SMNext]_smVars PROVE SMInv'
  OBVIOUS
<1>1. CASE UNCHANGED smVars
  <2>1. /\ InFlight' = InFlight /\ Reusable' = Reusable /\ Uncounted' = Uncounted
        /\ Live' = Live /\ \A i : BeingErased(i)' <=> BeingErased(i)
    BY <1>1 DEF smVars, InFlight, Reusable, Uncounted, Live, BeingErased
  <2>2. SMTypeOK' /\ MutexInv' /\ ArgInv'
    BY <1>1 DEF smVars, SMInv, SMTypeOK, MutexInv, ArgInv
  <2>3. IdsPartitioned' /\ IdsDense' /\ CountInv'
    BY <1>1, <2>1 DEF smVars, SMInv, IdsPartitioned, IdsDense, UsedIds, CountInv
  <2>4. OwnerInv' /\ OwnInv' /\ FdInv'
    BY <1>1, <2>1 DEF smVars, SMInv, OwnerInv, OwnInv, FdInv
  <2>5. QED
    BY <2>2, <2>3, <2>4 DEF SMInv
<1>2. CASE SMNext
  <2>1. SMTypeOK'
    BY <1>2, SMTypeStep
  <2>2. CASE \E s \in Sessions : Accepted(s)
    BY <2>1, <2>2, AcceptedStep
  <2>3. CASE \E s \in Sessions : CreateStep(s)
    BY <2>1, <2>3, CreateChooseStep, CreateInsertStep, CreateCountStep
    DEF CreateStep
  <2>4. CASE \E t \in Callers : DeleteClose(t) \/ DeleteErase(t) \/ DeleteRecycle(t)
    BY <2>1, <2>4, DeleteCloseStep, DeleteEraseStep, DeleteRecycleStep
  <2>5. CASE \/ \E s \in Sessions : CallCreate(s) \/ CallDelete(s)
             \/ \E t \in Callers : DeleteUnknown(t)
             \/ CallDeleteAll \/ CallExitComm \/ MainStep
    BY <2>1, <2>5, SMQuietSteps
  <2>6. QED
    BY <1>2, <2>2, <2>3, <2>4, <2>5
    DEF SMNext, SMInternal, SMCall, DeleteStep
<1>3. QED
  BY <1>1, <1>2

\* The session manager keeps SMInv for any set of connections and any
\* interleaving of create_session, delete_session, delete_all and exit_comm.
THEOREM SMInvariant == SMSpec => []SMInv
<1>1. QED
  BY SMInitInv, SMStep, PTL DEF SMSpec

-----------------------------------------------------------------------------
(* What the invariant gives the callers of the manager.                    *)

\* It implies the safety properties.
LEMMA SMInvImplies ==
  SMInv => /\ SMTypeOK /\ IdsPartitioned /\ IdsDense /\ CountMatchesPool
           /\ FreshIdentifier /\ OwnSession /\ PooledDescriptorOpen
           /\ NoDescriptorLeak
<1> SUFFICES ASSUME SMInv
             PROVE  /\ SMTypeOK /\ IdsPartitioned /\ IdsDense /\ CountMatchesPool
                    /\ FreshIdentifier /\ OwnSession /\ PooledDescriptorOpen
                    /\ NoDescriptorLeak
  OBVIOUS
<1> USE CallersAreDistinct DEF Callers
<1>1. CountMatchesPool
  <2> SUFFICES ASSUME mutex = Nobody
               PROVE  number_of_sessions = Cardinality(DOMAIN session_pool)
    BY DEF CountMatchesPool
  <2>1. Cardinality(DOMAIN session_pool) \in Nat
    BY FS_CardinalityType DEF SMInv, CountInv
  <2>2. QED
    BY <2>1 DEF SMInv, CountInv, Uncounted
<1>2. FreshIdentifier
  <2> SUFFICES ASSUME NEW s \in Sessions, step[s] = "insert"
               PROVE  arg[s] \notin DOMAIN session_pool
    BY DEF FreshIdentifier
  <2>1. mutex = s /\ s # Nobody
    BY DEF SMInv, MutexInv, Critical
  <2>2. arg[s] \in InFlight
    BY <2>1 DEF InFlight
  <2>3. QED
    BY <2>2 DEF SMInv, IdsPartitioned
<1>3. OwnSession
  BY DEF SMInv, OwnInv, OwnSession
<1>4. PooledDescriptorOpen
  BY DEF SMInv, FdInv, BeingErased, PooledDescriptorOpen, Live
<1>5. NoDescriptorLeak
  <2> SUFFICES ASSUME NEW s \in Sessions, step[s] = "deleted", s \in open_fds
               PROVE  FALSE
    BY DEF NoDescriptorLeak
  <2>1. PICK i \in DOMAIN session_pool : session_pool[i] = s
    BY DEF SMInv, FdInv, Live
  <2>2. QED
    BY <2>1 DEF SMInv, OwnerInv
<1> QED
  BY <1>1, <1>2, <1>3, <1>4, <1>5 DEF SMInv

\* The variables of the manager keep their types.
THEOREM SMTypeCorrect == SMSpec => []SMTypeOK
<1>1. QED
  BY SMInvariant, SMInvImplies, PTL

\* create_session never inserts under an identifier of the map: neither the
\* stack nor the counter can hand out one that is in use, because identifiers
\* are partitioned and dense and the counter is the size of the map.
THEOREM IdentifiersAreFresh ==
  SMSpec => [](IdsPartitioned /\ IdsDense /\ CountMatchesPool /\ FreshIdentifier)
<1>1. QED
  BY SMInvariant, SMInvImplies, PTL

\* Until delete_all starts, the identifier a session thread passes to
\* get_session and delete_session designates its own session.
THEOREM ThreadsOwnTheirSession == SMSpec => []OwnSession
<1>1. QED
  BY SMInvariant, SMInvImplies, PTL

\* delete_session closes every accepted descriptor: not before the session
\* leaves the map, and at the latest when the session's thread has deleted it.
THEOREM DescriptorsAreClosed == SMSpec => [](PooledDescriptorOpen /\ NoDescriptorLeak)
<1>1. QED
  BY SMInvariant, SMInvImplies, PTL

-----------------------------------------------------------------------------
(* Refinement of SessionTable.                                             *)

\* The empty manager is an empty table.
LEMMA TableInit == SMInit => Table!Init
  BY DEF SMInit, Table!Init

\* Every step maps to a step of the table or leaves it alone.
LEMMA TableStep == SMInv /\ [SMNext]_smVars => [Table!Next]_session_pool
<1> SUFFICES ASSUME SMInv, [SMNext]_smVars
             PROVE  Table!Next \/ UNCHANGED session_pool
  OBVIOUS
<1> USE CallersAreDistinct DEF Callers
<1>1. ASSUME NEW s \in Sessions, CreateInsert(s) PROVE Table!Next
  <2>1. mutex = s /\ s # Nobody /\ step[s] = "insert"
    BY <1>1 DEF CreateInsert, Goto, SMInv, MutexInv, Critical
  <2>2. arg[s] \notin DOMAIN session_pool /\ arg[s] \in Nat
    BY <2>1 DEF SMInv, IdsPartitioned, InFlight, ArgInv, Critical
  <2>3. session_pool' = PoolInsert(arg[s], s)
    BY <1>1 DEF CreateInsert
  <2>4. session_pool' = [i \in DOMAIN session_pool \cup {arg[s]} |->
                            IF i = arg[s] THEN s ELSE session_pool[i]]
    BY <2>2, <2>3 DEF PoolInsert
  <2>5. arg[s] \in DOMAIN session_pool' \ DOMAIN session_pool
    BY <2>2, <2>4
  <2>6. \A i \in DOMAIN session_pool : session_pool[i] # s
    BY <2>1 DEF SMInv, OwnerInv
  <2>7. Table!Open(s)
    BY <2>2, <2>4, <2>5, <2>6 DEF Table!Open
  <2>8. QED
    BY <2>7 DEF Table!Next
<1>2. ASSUME NEW t \in Callers, DeleteErase(t) PROVE Table!Next
  <2>1. step[t] = "erase" /\ session_pool' = PoolErase(arg[t])
    BY <1>2 DEF DeleteErase, Goto
  <2>2. arg[t] \in DOMAIN session_pool
    BY <2>1 DEF SMInv, ArgInv
  <2>3. Table!Close
    BY <2>1, <2>2 DEF Table!Close, PoolErase
  <2>4. QED
    BY <2>3 DEF Table!Next
<1>3. CASE UNCHANGED smVars
  BY <1>3 DEF smVars
<1>4. ASSUME NEW s \in Sessions,
             \/ Accepted(s) \/ CallCreate(s) \/ CallDelete(s)
             \/ CreateChoose(s) \/ CreateCount(s)
      PROVE  UNCHANGED session_pool
  BY <1>4 DEF Accepted, CallCreate, CallDelete, CreateChoose, CreateCount
<1>5. ASSUME NEW t \in Callers, DeleteUnknown(t) \/ DeleteClose(t) \/ DeleteRecycle(t)
      PROVE  UNCHANGED session_pool
  BY <1>5 DEF DeleteUnknown, DeleteClose, DeleteRecycle
<1>6. ASSUME CallDeleteAll \/ CallExitComm \/ MainStep
      PROVE  UNCHANGED session_pool
  BY <1>6 DEF CallDeleteAll, CallExitComm, MainStep, DeleteAllEnter, Collect,
              CollectEnd, DeleteAllNext, DeleteAllEnd, ExitComm, ExitCommEnd
<1> QED
  BY <1>1, <1>2, <1>3, <1>4, <1>5, <1>6
  DEF SMNext, SMInternal, SMCall, CreateStep, DeleteStep

\* SessionManager implements SessionTable: sessions are opened under unused
\* identifiers and closed, and no entry is ever overwritten, whatever the
\* connections and the interleaving.
THEOREM TableRefinement == SMSpec => TableSpec
<1>1. QED
  BY SMInvariant, TableInit, TableStep, PTL DEF SMSpec, TableSpec, Table!Spec

-----------------------------------------------------------------------------
(* The server implements the session manager.                              *)

\* The main thread uses the manager by its operations only.
LEMMA MainThreadManager == MainThread => [SMNext]_smVars
<1> SUFFICES ASSUME MainThread PROVE SMNext \/ UNCHANGED smVars
  OBVIOUS
<1>1. CASE \/ DriverInit \/ BindListeners \/ StartWorker \/ WorkersStarted
           \/ NotifyReady \/ ShutdownListeners \/ JoinWorker \/ Exit
           \/ DeleteAllAsserts
  BY <1>1 DEF DriverInit, BindListeners, StartWorker, WorkersStarted, NotifyReady,
              ShutdownListeners, JoinWorker, Exit, DeleteAllAsserts
<1>2. CASE ExitRequested \/ CloseComm
  BY <1>2 DEF ExitRequested, CloseComm, SMNext, SMCall
<1>3. CASE MainStep \/ DeleteStep(Main)
  BY <1>3 DEF SMNext, SMInternal, Callers
<1> QED
  BY <1>1, <1>2, <1>3 DEF MainThread

\* So does a comm thread.
LEMMA CommThreadManager ==
  ASSUME NEW l \in Channels, CommThread(l)
  PROVE  [SMNext]_smVars
<1>1. ASSUME NEW c \in Sessions, Accept(l, c) PROVE SMNext
  BY <1>1 DEF Accept, SMNext, SMCall
<1>2. ASSUME NEW c \in Sessions, AcceptRefused(l, c) PROVE UNCHANGED smVars
  BY <1>2 DEF AcceptRefused
<1>3. ASSUME CommStart(l) \/ AcceptFails(l) \/ CommCheck(l) \/ CommAdmit(l)
      PROVE  UNCHANGED smVars
  BY <1>3 DEF CommStart, AcceptFails, CommCheck, CommAdmit
<1> QED
  BY <1>1, <1>2, <1>3 DEF CommThread

\* So does a session thread that leaves run.
LEMMA ReturnFromManager ==
  ASSUME NEW c \in Sessions, NEW from, ReturnFrom(c, from)
  PROVE  SMNext
  BY DEF ReturnFrom, SMNext, SMCall

\* So does a session thread at the test of its loop.
LEMMA LoopFromManager ==
  ASSUME NEW c \in Sessions, NEW from, LoopFrom(c, from)
  PROVE  [SMNext]_smVars
  BY ReturnFromManager DEF LoopFrom

\* What thread c of a session does.
SessionMoves(c) ==
  \/ SessionThread(c) \/ SessionCommand(c)
  \/ SessionExecuteThrows(c) \/ SessionStale(c)

\* So does a session thread at every step.
LEMMA SessionThreadManager ==
  ASSUME NEW c \in Sessions, SessionMoves(c)
  PROVE  [SMNext]_smVars
<1>1. CASE SessionBegin(c)
  BY <1>1 DEF SessionBegin, SMNext, SMCall
<1>2. CASE GetSession(c) \/ SessionEnd(c) \/ SessionExecuteThrows(c)
  BY <1>2 DEF GetSession, SessionEnd, SessionExecuteThrows, Abort
<1>3. CASE SessionInit(c) \/ SessionClosed(c) \/ SessionStale(c)
  BY <1>3, ReturnFromManager, LoopFromManager
  DEF SessionInit, SessionClosed, SessionStale, Abort
<1>4. CASE SessionExecute(c) \/ SessionCommand(c)
  BY <1>4, ReturnFromManager, LoopFromManager DEF SessionExecute, SessionCommand
<1>5. CASE CreateStep(c) \/ DeleteStep(c)
  BY <1>5 DEF SMNext, SMInternal, Callers
<1> QED
  BY <1>1, <1>2, <1>3, <1>4, <1>5 DEF SessionMoves, SessionThread

\* A step of the server is a step of the manager or leaves it alone.
LEMMA ServerStepManager == [Next]_vars => [SMNext]_smVars
<1> SUFFICES ASSUME [Next]_vars PROVE [SMNext]_smVars
  OBVIOUS
<1>1. CASE UNCHANGED vars
  BY <1>1 DEF vars
<1>2. CASE Environment
  BY <1>2 DEF Environment, Connect, Disconnect, Interrupt
<1>3. CASE MainThread
  BY <1>3, MainThreadManager
<1>4. CASE \E l \in Channels : CommThread(l)
  BY <1>4, CommThreadManager
<1>5. CASE \E c \in Sessions : SessionMoves(c)
  BY <1>5, SessionThreadManager
<1> QED
  BY <1>1, <1>2, <1>3, <1>4, <1>5 DEF Next, Running, Step, SessionMoves

\* Every behaviour of the server is one of the session manager: the threads
\* call it in the order SessionManager expects, and touch its state nowhere
\* else.
LEMMA ServerImplementsManager == Spec => SMSpec
<1>1. Init => SMInit
  BY DEF Init
<1>2. QED
  BY <1>1, ServerStepManager, PTL DEF Spec, SMSpec

\* The invariant of the session manager holds in the server.
THEOREM ServerKeepsSMInv == Spec => []SMInv
<1>1. QED
  BY ServerImplementsManager, SMInvariant, PTL

-----------------------------------------------------------------------------
(* What the threads read without the lock.                                 *)

\* ServerInv but for SMInv, which has its own lemma.
ThreadsInv ==
  /\ thread \in [Sessions -> ThreadPoints]
  /\ session \in [Sessions -> Sessions \cup {Nobody}]
  /\ main \in {"driver_init", "store_flags", "start", "loop"} => step[Main] = "idle"
  /\ step[Main] # "idle" => interrupted \/ exit_all
  /\ \A c \in Sessions : Serving(c) => step[c] = "created"
  /\ step[Main] = "idle" => \A c \in Sessions : Serving(c) => session[c] = c

\* Main's steps: it calls the manager when the exit was requested, and leaves
\* the shutdown only to end the process.
LEMMA MainThreadInv ==
  ASSUME ServerInv, MainThread
  PROVE  ThreadsInv'
<1> USE CallersAreDistinct DEF Callers, ServerInv, MainGoto, Goto, Serving
<1>0. step \in [Callers -> SessionSteps \cup MainSteps]
  BY DEF SMInv, SMTypeOK
<1>1. CASE DriverInit \/ BindListeners
  BY <1>1 DEF DriverInit, BindListeners, smVars, connVars, ThreadsInv
<1>2. CASE StartWorker \/ WorkersStarted \/ NotifyReady
  BY <1>2 DEF StartWorker, WorkersStarted, NotifyReady, smVars, connVars, ThreadsInv
<1>3. CASE ShutdownListeners \/ JoinWorker \/ Exit \/ DeleteAllAsserts
  BY <1>3 DEF ShutdownListeners, JoinWorker, Exit, DeleteAllAsserts, smVars, connVars,
              ThreadsInv
<1>4. CASE ExitRequested \/ CloseComm
  BY <1>0, <1>4 DEF ExitRequested, CloseComm, CallDeleteAll, CallExitComm, connVars,
                    ThreadsInv
<1>5. CASE (MainStep \/ DeleteStep(Main)) /\ UNCHANGED <<mainVars, chanVars, connVars>>
  <2>1. /\ step[Main] # "idle" /\ step'[Main] # "idle"
        /\ \A c \in Sessions : step'[c] = step[c]
    BY <1>0, <1>5
    DEF MainStep, DeleteStep, DeleteAllEnter, Collect, CollectEnd, DeleteAllNext,
        DeleteAllEnd, ExitComm, ExitCommEnd, DeleteUnknown, DeleteClose, DeleteErase,
        DeleteRecycle
  <2>2. QED
    BY <1>5, <2>1 DEF mainVars, connVars, ThreadsInv
<1> QED
  BY <1>1, <1>2, <1>3, <1>4, <1>5 DEF MainThread

\* A comm thread moves connections that no session thread serves.
LEMMA CommThreadInv ==
  ASSUME ServerInv, NEW l \in Channels, CommThread(l)
  PROVE  ThreadsInv'
<1> USE CallersAreDistinct DEF Callers, ServerInv, CommGoto, Goto, Serving
<1>0. step \in [Callers -> SessionSteps \cup MainSteps]
  BY DEF SMInv, SMTypeOK
<1>1. ASSUME NEW c \in Sessions, Accept(l, c) PROVE ThreadsInv'
  BY <1>0, <1>1 DEF Accept, Accepted, mainVars, connVars, ThreadsInv
<1>2. ASSUME NEW c \in Sessions, AcceptRefused(l, c) PROVE ThreadsInv'
  BY <1>2 DEF AcceptRefused, smVars, mainVars, ThreadsInv, ThreadPoints
<1>3. CASE CommStart(l) \/ AcceptFails(l) \/ CommCheck(l)
  BY <1>3 DEF CommStart, AcceptFails, CommCheck, smVars, mainVars, connVars, ThreadsInv
<1>4. CASE CommAdmit(l)
  BY <1>4 DEF CommAdmit, smVars, mainVars, ThreadsInv, ThreadPoints
<1> QED
  BY <1>1, <1>2, <1>3, <1>4 DEF CommThread

\* A session thread that leaves run keeps the invariant.
LEMMA ReturnFromInv ==
  ASSUME ServerInv, NEW c \in Sessions, NEW from, ReturnFrom(c, from)
  PROVE  ThreadsInv'
<1> USE CallersAreDistinct DEF Callers, ServerInv, ThreadGoto, Goto, Serving
<1>0. step \in [Callers -> SessionSteps \cup MainSteps]
  BY DEF SMInv, SMTypeOK
<1>1. QED
  BY <1>0 DEF ReturnFrom, CallDelete, mainVars, ThreadsInv, ThreadPoints

\* So does one at the test of its loop.
LEMMA LoopFromInv ==
  ASSUME ServerInv, NEW c \in Sessions, NEW from \in {"init", "exec"},
         LoopFrom(c, from)
  PROVE  ThreadsInv'
<1> USE DEF ServerInv, ThreadGoto, Serving
<1>1. CASE ReturnFrom(c, from)
  BY <1>1, ReturnFromInv
<1>2. CASE ThreadGoto(c, from, "read")
           /\ UNCHANGED <<smVars, mainVars, chanVars, client, via, session>>
  BY <1>2 DEF smVars, mainVars, ThreadsInv, ThreadPoints
<1> QED
  BY <1>1, <1>2 DEF LoopFrom

\* An exception leaves the threads where they are.
LEMMA AbortInv ==
  ASSUME ServerInv, Abort
  PROVE  ThreadsInv'
  BY DEF ServerInv, Abort, ThreadsInv, smVars, connVars, Serving

\* A lookup that succeeds finds the caller's own session as long as main has not
\* called delete_all (OwnSession).
LEMMA GetSessionInv ==
  ASSUME ServerInv, NEW c \in Sessions, GetSession(c)
  PROVE  ThreadsInv'
<1> USE CallersAreDistinct DEF Callers, ServerInv, ThreadGoto, Serving
<1>1. step[Main] = "idle" => arg[c] \in DOMAIN session_pool
                             /\ session_pool[arg[c]] = c
  BY SMInvImplies DEF GetSession, OwnSession
<1>2. \A i \in DOMAIN session_pool : session_pool[i] \in Sessions
  BY DEF SMInv, SMTypeOK
<1>3. CASE Abort
  BY <1>3, AbortInv
<1>4. CASE ~Abort
  <2>1. /\ arg[c] \in DOMAIN session_pool
        /\ thread' = [thread EXCEPT ![c] = "init"]
        /\ session' = [session EXCEPT ![c] = session_pool[arg[c]]]
        /\ step[c] = "created"
        /\ UNCHANGED <<smVars, mainVars>>
    BY <1>4 DEF GetSession
  <2>2. QED
    BY <1>1, <1>2, <2>1 DEF smVars, mainVars, ThreadsInv, ThreadPoints
<1> QED
  BY <1>3, <1>4

\* So does every step of a session thread.
LEMMA SessionThreadInv ==
  ASSUME ServerInv, NEW c \in Sessions,
         SessionMoves(c)
  PROVE  ThreadsInv'
<1> USE CallersAreDistinct DEF Callers, ServerInv, ThreadGoto, Goto, Serving
<1>0. step \in [Callers -> SessionSteps \cup MainSteps]
  BY DEF SMInv, SMTypeOK
<1>1. CASE SessionBegin(c)
  BY <1>0, <1>1 DEF SessionBegin, CallCreate, mainVars, ThreadsInv, ThreadPoints
<1>2. CASE SessionInit(c) \/ SessionClosed(c)
  BY <1>2, ReturnFromInv, LoopFromInv DEF SessionInit, SessionClosed
<1>8. CASE SessionStale(c) \/ SessionExecuteThrows(c)
  BY <1>8, ReturnFromInv, AbortInv DEF SessionStale, SessionExecuteThrows
<1>3. CASE SessionExecute(c)
  <2>1. CASE LoopFrom(c, "exec") \/ ReturnFrom(c, "exec")
    BY <2>1, ReturnFromInv, LoopFromInv
  <2>2. CASE exit_all' = TRUE /\ UNCHANGED <<smVars, main, index, interrupted,
                exit_comm, ready_notified, chanVars, connVars>>
    BY <2>2 DEF smVars, connVars, ThreadsInv
  <2>3. QED
    BY <1>3, <2>1, <2>2 DEF SessionExecute
<1>4. CASE SessionCommand(c)
  <2>1. CASE ReturnFrom(c, "read")
    BY <2>1, ReturnFromInv
  <2>2. CASE ThreadGoto(c, "read", "exec")
             /\ UNCHANGED <<smVars, mainVars, chanVars, client, via, session>>
    BY <2>2 DEF smVars, mainVars, ThreadsInv, ThreadPoints
  <2>3. QED
    BY <1>4, <2>1, <2>2 DEF SessionCommand
<1>5. CASE SessionEnd(c)
  BY <1>5 DEF SessionEnd, smVars, mainVars, ThreadsInv, ThreadPoints
<1>6. CASE GetSession(c)
  BY <1>6, GetSessionInv
<1>7. CASE (CreateStep(c) \/ DeleteStep(c)) /\ UNCHANGED <<mainVars, chanVars, connVars>>
  <2>1. step[c] # "created" /\ \A u \in Callers \ {c} : step'[u] = step[u]
    BY <1>0, <1>7 DEF CreateStep, DeleteStep, CreateChoose, CreateInsert, CreateCount,
                DeleteUnknown, DeleteClose, DeleteErase, DeleteRecycle
  <2>2. QED
    BY <1>7, <2>1 DEF mainVars, connVars, ThreadsInv
<1> QED
  BY <1>1, <1>2, <1>3, <1>4, <1>5, <1>6, <1>7, <1>8 DEF SessionMoves, SessionThread

\* Every step of the server keeps the invariant.
LEMMA ServerStepInv == ServerInv /\ [Next]_vars => ServerInv'
<1> SUFFICES ASSUME ServerInv, [Next]_vars PROVE SMInv' /\ ThreadsInv'
  BY DEF ServerInv, ThreadsInv
<1>1. SMInv'
  BY ServerStepManager, SMStep DEF ServerInv
<1>2. CASE UNCHANGED vars
  BY <1>1, <1>2 DEF vars, smVars, mainVars, connVars, ServerInv, ThreadsInv, Serving
<1>3. CASE Environment
  BY <1>1, <1>3 DEF Environment, Connect, Disconnect, Interrupt, smVars, mainVars,
                    connVars, ServerInv, ThreadsInv, Serving
<1>4. CASE MainThread
  BY <1>1, <1>4, MainThreadInv
<1>5. CASE \E l \in Channels : CommThread(l)
  BY <1>1, <1>5, CommThreadInv
<1>6. CASE \E c \in Sessions : SessionMoves(c)
  BY <1>1, <1>6, SessionThreadInv
<1> QED
  BY <1>2, <1>3, <1>4, <1>5, <1>6 DEF Next, Running, Step, SessionMoves

\* The invariant holds when the process starts.
LEMMA ServerInitInv == Init => ServerInv
<1> SUFFICES ASSUME Init PROVE ServerInv
  OBVIOUS
<1>1. SMInv
  BY SMInitInv DEF Init
<1>2. step[Main] = "idle"
  BY DEF Init, SMInit, Callers
<1> QED
  BY <1>1, <1>2 DEF Init, ServerInv, ThreadPoints, Serving

\* It holds in every reachable state.
LEMMA ServerInvariant == Spec => []ServerInv
<1>1. QED
  BY ServerInitInv, ServerStepInv, PTL DEF Spec

\* Until the shutdown every session thread works on its own session object,
\* and the object is not destroyed while the thread runs it, although
\* get_session reads the map without the lock.
THEOREM ThreadsRunTheirSession == Spec => []SessionsOwned
<1>1. ServerInv => SessionsOwned
  <2> SUFFICES ASSUME ServerInv, NEW c \in Sessions, Serving(c), ~ShuttingDown
               PROVE  session[c] = c /\ arg[c] \in DOMAIN session_pool
                      /\ session_pool[arg[c]] = c
    BY DEF SessionsOwned
  <2>1. step[Main] = "idle" /\ step[c] = "created"
    BY DEF ServerInv, ShuttingDown
  <2>2. QED
    BY <2>1, SMInvImplies DEF ServerInv, OwnSession
<1>2. QED
  BY <1>1, ServerInvariant, PTL

\* Main aborts only in the shutdown.
LEMMA MainThreadAborts ==
  ASSUME ServerInv, MainThread, main # "aborted", main' = "aborted"
  PROVE  interrupted \/ exit_all
<1> USE DEF MainGoto
<1>1. ~(\/ DriverInit \/ BindListeners \/ StartWorker \/ WorkersStarted
        \/ NotifyReady \/ ExitRequested \/ CloseComm \/ ShutdownListeners
        \/ JoinWorker \/ Exit)
  BY DEF DriverInit, BindListeners, StartWorker, WorkersStarted, NotifyReady,
         ExitRequested, CloseComm, ShutdownListeners, JoinWorker, Exit
<1>2. DeleteAllAsserts
  BY <1>1 DEF MainThread, mainVars
<1> QED
  BY <1>2 DEF DeleteAllAsserts, ServerInv

\* A session thread aborts the process while it executes a command, when its
\* lookup meets a change of the map, or in the shutdown: before, its identifier
\* is in the map and its session alive.
LEMMA SessionThreadAborts ==
  ASSUME ServerInv, NEW c \in Sessions, SessionMoves(c),
         main # "aborted", main' = "aborted"
  PROVE  \/ interrupted \/ exit_all
         \/ thread[c] = "exec"
         \/ thread[c] = "create" /\ step[c] = "created" /\ MapChanging(c)
<1>1. \A from : ~LoopFrom(c, from) /\ ~ReturnFrom(c, from)
  BY DEF LoopFrom, ReturnFrom, mainVars
<1>2. CASE GetSession(c)
  <2>1. CASE MapChanging(c)
    BY <1>2, <2>1 DEF GetSession
  <2>2. CASE arg[c] \notin DOMAIN session_pool
    <3>1. step[Main] # "idle"
      BY <1>2, <2>2, SMInvImplies DEF GetSession, ServerInv, OwnSession
    <3>2. QED
      BY <3>1 DEF ServerInv
  <2>3. QED
    BY <1>2, <2>1, <2>2 DEF GetSession, mainVars
<1>3. CASE SessionStale(c)
  <2>1. step[Main] # "idle"
    BY <1>3, SMInvImplies DEF SessionStale, Alive, Live, ServerInv, OwnSession
  <2>2. QED
    BY <2>1 DEF ServerInv
<1>4. CASE SessionExecuteThrows(c)
  BY <1>4 DEF SessionExecuteThrows
<1>5. ~SessionBegin(c) /\ ~SessionEnd(c) /\ ~SessionInit(c) /\ ~SessionClosed(c)
  BY <1>1 DEF SessionBegin, SessionEnd, SessionInit, SessionClosed, mainVars
<1>6. ~SessionCommand(c) /\ ~SessionExecute(c)
  BY <1>1 DEF SessionCommand, SessionExecute, mainVars
<1> QED
  BY <1>2, <1>3, <1>4, <1>5, <1>6 DEF SessionMoves, SessionThread, mainVars

\* Before an exit is requested the process is aborted only while a command is
\* executed or when the unlocked session_pool.at(sid) runs beside a change of the
\* map: until then no identifier a thread looks up is gone, no session is
\* destroyed under its thread, and the asserts of delete_all are not reached.
THEOREM AbortsOnlyForACause == Spec => AbortsHaveACause
<1>1. ServerInv /\ [Next]_vars =>
        [main # "aborted" /\ main' = "aborted" =>
           \/ interrupted \/ exit_all
           \/ \E c \in Sessions :
                 \/ thread[c] = "exec"
                 \/ thread[c] = "create" /\ step[c] = "created" /\ MapChanging(c)]_vars
  <2> SUFFICES ASSUME ServerInv, Next, main # "aborted", main' = "aborted"
               PROVE  \/ interrupted \/ exit_all
                      \/ \E c \in Sessions :
                            \/ thread[c] = "exec"
                            \/ /\ thread[c] = "create" /\ step[c] = "created"
                               /\ MapChanging(c)
    OBVIOUS
  <2>1. CASE MainThread
    BY <2>1, MainThreadAborts
  <2>2. CASE \E c \in Sessions : SessionMoves(c)
    BY <2>2, SessionThreadAborts
  <2>3. ~Environment
    BY DEF Environment, Connect, Disconnect, Interrupt, mainVars
  <2>4. \A l \in Channels : ~CommThread(l)
    BY DEF CommThread, CommStart, Accept, AcceptRefused, AcceptFails, CommCheck,
           CommAdmit, mainVars
  <2>5. ~UNCHANGED vars
    BY DEF vars, mainVars
  <2> QED
    BY <2>1, <2>2, <2>3, <2>4, <2>5 DEF Next, Running, Step, SessionMoves
<1>2. QED
  BY <1>1, ServerInvariant, PTL DEF Spec, AbortsHaveACause

-----------------------------------------------------------------------------
(* The listening channels and the count of their sessions.                 *)

\* The main thread binds the enabled channels, lets them listen one by one and
\* keeps them so until it shuts them down; exit_comm is not set before.
StartInv ==
  /\ main \in {"driver_init", "store_flags"} =>
        index = 1 /\ \A l \in Channels : listen_fd[l] = "none"
  /\ main = "start" =>
        \A l \in Channels : Enabled(l) =>
           /\ l < index => listen_fd[l] = "listening"
           /\ l >= index => listen_fd[l] = "bound"
  /\ main \in {"loop", "delete_all", "exit_comm"} =>
        \A l \in Channels : Enabled(l) => listen_fd[l] = "listening"
  /\ main \in {"start", "loop", "delete_all"} => ~exit_comm

\* A channel has its comm thread from listen() on, and only exit_comm ends it.
CommInv ==
  \A l \in Channels :
     /\ listen_fd[l] \in {"none", "bound"} <=> comm[l] = "none"
     /\ comm[l] = "done" => exit_comm
     /\ is_ready[l] => comm[l] \notin {"none", "start"}
     /\ ready_notified /\ Enabled(l) => is_ready[l]

\* A connection comes through a channel that was bound, and the descriptor a
\* comm thread holds is of a connection that no thread serves yet.
OriginInv ==
  /\ \A c \in Sessions :
        /\ client[c] = "away" => via[c] = 0
        /\ via[c] = 0 => thread[c] = "none"
        /\ via[c] # 0 => listen_fd[via[c]] # "none"
  /\ \A l \in Channels : comm_fd[l] # Nobody =>
        /\ via[comm_fd[l]] = l
        /\ thread[comm_fd[l]] = "none"
        /\ step[comm_fd[l]] # "idle"

\* The session threads of channel l between the two updates of the counter.
Slots(l) == {c \in Sessions : via[c] = l /\ HoldsSlot(c)}

\* The counter of a bound channel counts them.
SlotsInv ==
  \A l \in Channels : listen_fd[l] # "none" =>
     IsFiniteSet(Slots(l)) /\ number_of_threads[l] = Cardinality(Slots(l))

ListenersInv == TypeOK /\ StartInv /\ CommInv /\ OriginInv /\ SlotsInv

\* Slots of a channel are what they were when no connection changes its channel
\* and no session thread starts or ends.
LEMMA SlotsUnchanged ==
  ASSUME SlotsInv, number_of_threads' = number_of_threads, via' = via,
         \A c \in Sessions : HoldsSlot(c)' <=> HoldsSlot(c),
         \A l \in Channels : listen_fd'[l] # "none" => listen_fd[l] # "none"
  PROVE  SlotsInv'
<1> SUFFICES ASSUME NEW l \in Channels, listen_fd'[l] # "none"
             PROVE  IsFiniteSet(Slots(l)') /\ number_of_threads'[l] = Cardinality(Slots(l)')
  BY DEF SlotsInv
<1>1. Slots(l)' = Slots(l)
  BY DEF Slots
<1> QED
  BY <1>1 DEF SlotsInv

\* No step of the manager makes a caller idle again.
LEMMA StaysBusy ==
  ASSUME SMTypeOK, [SMNext]_smVars, NEW u \in Callers, step'[u] = "idle"
  PROVE  step[u] = "idle"
<1> USE DEF SMTypeOK, Goto
<1>1. CASE SMCall
  BY <1>1 DEF SMCall, Accepted, CallCreate, CallDelete, CallDeleteAll, CallExitComm
<1>2. CASE \E s \in Sessions : CreateStep(s)
  BY <1>2 DEF CreateStep, CreateChoose, CreateInsert, CreateCount
<1>3. CASE \E t \in Callers : DeleteStep(t)
  BY <1>3 DEF DeleteStep, DeleteUnknown, DeleteClose, DeleteErase, DeleteRecycle
<1>4. CASE MainStep
  BY <1>4 DEF MainStep, DeleteAllEnter, Collect, CollectEnd, DeleteAllNext,
              DeleteAllEnd, ExitComm, ExitCommEnd
<1> QED
  BY <1>1, <1>2, <1>3, <1>4 DEF SMNext, SMInternal, smVars

\* A step that only moves the manager, the client or the exit requests.
LEMMA OtherStepListeners ==
  ASSUME ListenersInv, UNCHANGED fd_limit, SMTypeOK', [SMNext]_smVars,
         UNCHANGED <<main, index, exit_comm, ready_notified, chanVars, connVars>>,
         interrupted' \in BOOLEAN, exit_all' \in BOOLEAN
  PROVE  ListenersInv'
<1> USE DEF ListenersInv, chanVars, connVars
<1>1. TypeOK'
  BY DEF TypeOK
<1>2. StartInv' /\ CommInv'
  BY DEF StartInv, CommInv
<1>3. OriginInv'
  BY StaysBusy DEF OriginInv, TypeOK, Callers
<1>4. SlotsInv'
  BY SlotsUnchanged DEF HoldsSlot
<1> QED
  BY <1>1, <1>2, <1>3, <1>4

\* A step that ends the process leaves every count as it is.
LEMMA AbortListeners ==
  ASSUME ListenersInv, Abort, UNCHANGED fd_limit
  PROVE  ListenersInv'
<1> USE DEF ListenersInv, smVars, chanVars, connVars
<1>1. TypeOK'
  BY DEF Abort, TypeOK, SMTypeOK
<1>2. StartInv' /\ CommInv' /\ OriginInv'
  BY DEF Abort, StartInv, CommInv, OriginInv
<1>3. SlotsInv'
  BY SlotsUnchanged DEF Abort, HoldsSlot
<1> QED
  BY <1>1, <1>2, <1>3

\* Main's steps: the channels that are bound, listen and are shut down.
LEMMA MainThreadListeners ==
  ASSUME ListenersInv, UNCHANGED fd_limit, SMTypeOK', [SMNext]_smVars, MainThread
  PROVE  ListenersInv'
<1> USE ChannelAssumption DEF ListenersInv, MainGoto
<1>0. Channels \subseteq Nat \ {0} /\ NChannels + 1 \notin Channels
  BY DEF Channels
<1>1. CASE DriverInit
  <2>1. TypeOK'
    BY <1>1 DEF DriverInit, TypeOK, smVars, chanVars, connVars
  <2>2. StartInv' /\ CommInv' /\ OriginInv'
    BY <1>1 DEF DriverInit, StartInv, CommInv, OriginInv, smVars, chanVars, connVars
  <2>3. SlotsInv'
    BY <1>1, SlotsUnchanged DEF DriverInit, chanVars, connVars, HoldsSlot
  <2> QED
    BY <2>1, <2>2, <2>3
<1>2. CASE BindListeners
  <2>1. TypeOK'
    <3>1. /\ listen_fd' \in [Channels -> {"none", "bound", "listening", "shut"}]
          /\ number_of_threads' \in [Channels -> Nat \cup {-1}]
      BY <1>2 DEF BindListeners, TypeOK, chanVars
    <3>2. /\ main' \in {"start", "exited"} /\ exit_all' \in BOOLEAN
          /\ exit_comm' \in BOOLEAN
          /\ UNCHANGED <<is_ready, comm, comm_fd>>
      BY <1>2 DEF BindListeners, chanVars
    <3>3. QED
      BY <1>2, <3>1, <3>2 DEF BindListeners, TypeOK, smVars, connVars
  <2>2. \A l \in Channels : comm[l] = "none" /\ ~is_ready[l] /\ listen_fd[l] = "none"
    BY <1>2 DEF BindListeners, StartInv, CommInv, TypeOK
  <2>3. StartInv'
    BY <1>2, <2>2, <1>0 DEF BindListeners, StartInv, TypeOK, chanVars, Enabled
  <2>4. CommInv'
    BY <1>2, <2>2 DEF BindListeners, CommInv, TypeOK, chanVars
  <2>5. \A c \in Sessions : via[c] = 0
    BY <2>2 DEF OriginInv, TypeOK
  <2>6. OriginInv'
    BY <1>2, <2>5 DEF BindListeners, OriginInv, chanVars, connVars, smVars, TypeOK
  <2>7. \A l \in Channels : Slots(l)' = {}
    BY <1>2, <2>5, <1>0 DEF Slots, BindListeners, connVars
  <2>8. SlotsInv'
    <3>1. \A l \in Channels : listen_fd'[l] # "none" => number_of_threads'[l] = 0
      BY <1>2, <2>2 DEF BindListeners, chanVars
    <3>2. QED
      BY <2>7, <3>1, FS_EmptySet DEF SlotsInv
  <2> QED
    BY <2>1, <2>3, <2>4, <2>6, <2>8
<1>3. CASE StartWorker
  <2>1. TypeOK'
    <3>1. index' \in 1 .. NChannels + 1
      BY <1>3 DEF StartWorker, TypeOK, Channels
    <3>2. /\ listen_fd' \in [Channels -> {"none", "bound", "listening", "shut"}]
          /\ comm' \in [Channels -> {"none", "start", "accept", "check", "admit", "done"}]
          /\ main' \in {"start", "exited"}
      BY <1>3 DEF StartWorker, TypeOK, chanVars
    <3>3. QED
      BY <1>3, <3>1, <3>2 DEF StartWorker, TypeOK, chanVars, connVars
  <2>2. StartInv'
    BY <1>3, <1>0 DEF StartWorker, StartInv, TypeOK, chanVars, Channels
  <2>3. CommInv'
    BY <1>3 DEF StartWorker, CommInv, TypeOK, chanVars
  <2>4. OriginInv'
    <3>1. \A l \in Channels : listen_fd[l] # "none" => listen_fd'[l] # "none"
      BY <1>3 DEF StartWorker, TypeOK, chanVars
    <3>2. UNCHANGED <<step, comm_fd, client, via, thread>>
      BY <1>3 DEF StartWorker, chanVars, connVars, smVars
    <3>3. QED
      BY <3>1, <3>2 DEF OriginInv, TypeOK
  <2>5. SlotsInv'
    BY <1>3, SlotsUnchanged DEF StartWorker, TypeOK, chanVars, connVars, HoldsSlot
  <2> QED
    BY <2>1, <2>2, <2>3, <2>4, <2>5
<1>4. CASE WorkersStarted \/ NotifyReady \/ ExitRequested
  <2>1. TypeOK'
    BY <1>4 DEF WorkersStarted, NotifyReady, ExitRequested, TypeOK, chanVars, connVars
  <2>2. StartInv'
    BY <1>4, <1>0 DEF WorkersStarted, NotifyReady, ExitRequested, StartInv, chanVars,
                     Channels
  <2>3. CommInv'
    BY <1>4 DEF WorkersStarted, NotifyReady, ExitRequested, CommInv, chanVars, IsReady
  <2>4. OriginInv'
    BY <1>4, StaysBusy DEF WorkersStarted, NotifyReady, ExitRequested, OriginInv,
                           TypeOK, chanVars, connVars, Callers
  <2>5. SlotsInv'
    BY <1>4, SlotsUnchanged DEF WorkersStarted, NotifyReady, ExitRequested, chanVars,
                                connVars, HoldsSlot
  <2> QED
    BY <2>1, <2>2, <2>3, <2>4, <2>5
<1>5. CASE CloseComm
  <2>1. TypeOK'
    BY <1>5 DEF CloseComm, TypeOK, chanVars, connVars
  <2>2. StartInv' /\ CommInv'
    BY <1>5 DEF CloseComm, StartInv, CommInv, chanVars
  <2>3. OriginInv'
    BY <1>5, StaysBusy DEF CloseComm, OriginInv, TypeOK, chanVars, connVars, Callers
  <2>4. SlotsInv'
    BY <1>5, SlotsUnchanged DEF CloseComm, chanVars, connVars, HoldsSlot
  <2> QED
    BY <2>1, <2>2, <2>3, <2>4
<1>6. CASE ShutdownListeners
  <2>1. TypeOK'
    BY <1>6 DEF ShutdownListeners, TypeOK, smVars, connVars, Channels
  <2>2. StartInv' /\ CommInv'
    BY <1>6 DEF ShutdownListeners, StartInv, CommInv, TypeOK
  <2>3. \A l \in Channels : listen_fd'[l] = "none" <=> listen_fd[l] = "none"
    BY <1>6 DEF ShutdownListeners, StartInv, TypeOK
  <2>4. OriginInv'
    BY <1>6, <2>3 DEF ShutdownListeners, OriginInv, TypeOK, connVars, smVars
  <2>5. SlotsInv'
    BY <1>6, <2>3, SlotsUnchanged DEF ShutdownListeners, connVars, HoldsSlot
  <2> QED
    BY <2>1, <2>2, <2>4, <2>5
<1>7. CASE JoinWorker \/ Exit
  <2>1. TypeOK'
    BY <1>7 DEF JoinWorker, Exit, TypeOK, smVars, chanVars, connVars, Channels
  <2>2. StartInv' /\ CommInv' /\ OriginInv'
    BY <1>7 DEF JoinWorker, Exit, StartInv, CommInv, OriginInv, smVars, chanVars,
                connVars
  <2>3. SlotsInv'
    BY <1>7, SlotsUnchanged DEF JoinWorker, Exit, chanVars, connVars, HoldsSlot
  <2> QED
    BY <2>1, <2>2, <2>3
<1>8. CASE (MainStep \/ DeleteStep(Main)) /\ UNCHANGED <<mainVars, chanVars, connVars>>
  BY <1>8, OtherStepListeners DEF mainVars, TypeOK
<1>9. CASE DeleteAllAsserts
  <2>1. Abort
    BY <1>9 DEF DeleteAllAsserts, Abort
  <2> QED
    BY <2>1, AbortListeners
<1> QED
  BY <1>1, <1>2, <1>3, <1>4, <1>5, <1>6, <1>7, <1>8, <1>9 DEF MainThread

\* A comm thread: it takes connections from its own channel only, and hands
\* each to at most one session thread.
LEMMA CommThreadListeners ==
  ASSUME ListenersInv, UNCHANGED fd_limit, SMTypeOK', [SMNext]_smVars,
         NEW l \in Channels, CommThread(l)
  PROVE  ListenersInv'
<1> USE CallersAreDistinct DEF ListenersInv, CommGoto
<1>1. ASSUME NEW c \in Sessions, Accept(l, c) PROVE ListenersInv'
  <2>1. TypeOK'
    BY <1>1 DEF Accept, TypeOK, mainVars, connVars
  <2>2. StartInv' /\ CommInv'
    BY <1>1 DEF Accept, StartInv, CommInv, TypeOK, mainVars
  <2>3. step'[c] # "idle"
    BY <1>1 DEF Accept, Accepted, Goto, TypeOK, SMTypeOK, Callers
  <2>4. OriginInv'
    BY <1>1, <2>3, StaysBusy
    DEF Accept, Pending, OriginInv, TypeOK, connVars, Callers
  <2>5. SlotsInv'
    BY <1>1, SlotsUnchanged DEF Accept, connVars, HoldsSlot
  <2> QED
    BY <2>1, <2>2, <2>4, <2>5
<1>2. ASSUME NEW c \in Sessions, AcceptRefused(l, c) PROVE ListenersInv'
  <2>1. TypeOK'
    BY <1>2 DEF AcceptRefused, TypeOK, ThreadPoints, smVars, mainVars
  <2>2. StartInv' /\ CommInv'
    BY <1>2 DEF AcceptRefused, StartInv, CommInv, TypeOK, mainVars
  <2>3. via[c] = l /\ l # 0
    BY <1>2 DEF AcceptRefused, Pending, Channels
  <2>4. OriginInv'
    BY <1>2, <2>3 DEF AcceptRefused, Pending, OriginInv, TypeOK, smVars
  <2>5. SlotsInv'
    BY <1>2, SlotsUnchanged DEF AcceptRefused, Pending, HoldsSlot, TypeOK
  <2> QED
    BY <2>1, <2>2, <2>4, <2>5
<1>3. CASE CommStart(l) \/ AcceptFails(l) \/ CommCheck(l)
  <2>1. TypeOK'
    BY <1>3 DEF CommStart, AcceptFails, CommCheck, LoopTest, TypeOK, smVars, mainVars,
                connVars
  <2>2. StartInv'
    BY <1>3 DEF CommStart, AcceptFails, CommCheck, StartInv, mainVars
  <2>3. CommInv'
    BY <1>3 DEF CommStart, AcceptFails, CommCheck, LoopTest, CommInv, TypeOK, mainVars
  <2>4. OriginInv'
    BY <1>3 DEF CommStart, AcceptFails, CommCheck, OriginInv, TypeOK, smVars, connVars
  <2>5. SlotsInv'
    BY <1>3, SlotsUnchanged DEF CommStart, AcceptFails, CommCheck, connVars, HoldsSlot
  <2> QED
    BY <2>1, <2>2, <2>3, <2>4, <2>5
<1>4. CASE CommAdmit(l)
  <2>1. TypeOK'
    BY <1>4 DEF CommAdmit, LoopTest, TypeOK, ThreadPoints, smVars, mainVars
  <2>2. StartInv' /\ CommInv'
    BY <1>4 DEF CommAdmit, LoopTest, StartInv, CommInv, TypeOK, mainVars
  <2>3. \A c \in Sessions : c # comm_fd[l] => thread'[c] = thread[c]
    BY <1>4 DEF CommAdmit, TypeOK
  <2>4. /\ l # 0
        /\ \A k \in Channels : comm_fd[k] # Nobody => via[comm_fd[k]] = k
    BY DEF OriginInv, Channels
  <2>5. OriginInv'
    BY <1>4, <2>3, <2>4 DEF CommAdmit, OriginInv, TypeOK, smVars
  <2>6. SlotsInv'
    <3>1. \A c \in Sessions : HoldsSlot(c)' <=> HoldsSlot(c)
      BY <1>4, <2>3 DEF CommAdmit, HoldsSlot, OriginInv, TypeOK
    <3>2. QED
      BY <1>4, <3>1, SlotsUnchanged DEF CommAdmit
  <2> QED
    BY <2>1, <2>2, <2>5, <2>6
<1> QED
  BY <1>1, <1>2, <1>3, <1>4 DEF CommThread

\* A session thread that moves on and keeps its slot.
LEMMA SessionMovesListeners ==
  ASSUME ListenersInv, UNCHANGED fd_limit, SMTypeOK', [SMNext]_smVars,
         NEW c \in Sessions, HoldsSlot(c),
         NEW to \in {"init", "read", "exec", "delete"},
         thread' = [thread EXCEPT ![c] = to],
         session' \in [Sessions -> Sessions \cup {Nobody}],
         UNCHANGED <<mainVars, chanVars, client, via>>
  PROVE  ListenersInv'
<1> USE DEF ListenersInv, mainVars, chanVars
<1>1. TypeOK'
  BY DEF TypeOK, ThreadPoints
<1>2. StartInv' /\ CommInv'
  BY DEF StartInv, CommInv
<1>3. OriginInv'
  BY StaysBusy DEF OriginInv, TypeOK, Callers, HoldsSlot
<1>4. SlotsInv'
  BY SlotsUnchanged DEF HoldsSlot, TypeOK
<1> QED
  BY <1>1, <1>2, <1>3, <1>4

\* So does one that leaves run,
LEMMA ReturnFromListeners ==
  ASSUME ListenersInv, UNCHANGED fd_limit, SMTypeOK', [SMNext]_smVars,
         NEW c \in Sessions,
         NEW from \in {"init", "read", "exec"}, ReturnFrom(c, from)
  PROVE  ListenersInv'
<1>1. session' \in [Sessions -> Sessions \cup {Nobody}]
  BY DEF ReturnFrom, ListenersInv, TypeOK
<1> QED
  BY <1>1, SessionMovesListeners DEF ReturnFrom, ThreadGoto, HoldsSlot

\* ... or is at the test of its loop.
LEMMA LoopFromListeners ==
  ASSUME ListenersInv, UNCHANGED fd_limit, SMTypeOK', [SMNext]_smVars,
         NEW c \in Sessions,
         NEW from \in {"init", "read", "exec"}, LoopFrom(c, from)
  PROVE  ListenersInv'
<1>1. CASE ReturnFrom(c, from)
  BY <1>1, ReturnFromListeners
<1>2. CASE ThreadGoto(c, from, "read")
           /\ UNCHANGED <<smVars, mainVars, chanVars, client, via, session>>
  BY <1>2, SessionMovesListeners DEF ThreadGoto, HoldsSlot, ListenersInv, TypeOK
<1> QED
  BY <1>1, <1>2 DEF LoopFrom

\* The first thing a session thread does is to count itself.
LEMMA SessionBeginListeners ==
  ASSUME ListenersInv, UNCHANGED fd_limit, SMTypeOK', [SMNext]_smVars,
         NEW c \in Sessions, SessionBegin(c)
  PROVE  ListenersInv'
<1> USE DEF ListenersInv
<1> DEFINE l == via[c]
<1>1. l \in Channels /\ listen_fd[l] # "none"
  BY DEF SessionBegin, ThreadGoto, OriginInv, TypeOK
<1>2. /\ IsFiniteSet(Slots(l))
      /\ number_of_threads[l] = Cardinality(Slots(l))
      /\ number_of_threads[l] \in Nat
  BY <1>1, FS_CardinalityType DEF SlotsInv
<1>3. TypeOK'
  BY <1>1, <1>2 DEF SessionBegin, ThreadGoto, TypeOK, ThreadPoints, mainVars
<1>4. StartInv' /\ CommInv'
  BY DEF SessionBegin, StartInv, CommInv, mainVars
<1>5. OriginInv'
  BY <1>1, StaysBusy
  DEF SessionBegin, ThreadGoto, OriginInv, TypeOK, Callers
<1>6. SlotsInv'
  <2> SUFFICES ASSUME NEW k \in Channels, listen_fd'[k] # "none"
               PROVE  /\ IsFiniteSet(Slots(k)')
                      /\ number_of_threads'[k] = Cardinality(Slots(k)')
    BY DEF SlotsInv
  <2>1. CASE k = l
    <3>1. Slots(k)' = Slots(l) \cup {c} /\ c \notin Slots(l)
      BY <2>1 DEF Slots, HoldsSlot, SessionBegin, ThreadGoto, TypeOK
    <3>2. number_of_threads'[k] = number_of_threads[l] + 1
      BY <2>1, <1>1 DEF SessionBegin, TypeOK
    <3>3. QED
      BY <3>1, <3>2, <1>2, FS_AddElement
  <2>2. CASE k # l
    <3>1. Slots(k)' = Slots(k)
      BY <2>2 DEF Slots, HoldsSlot, SessionBegin, ThreadGoto, TypeOK
    <3>2. number_of_threads'[k] = number_of_threads[k] /\ listen_fd[k] # "none"
      BY <2>2, <1>1 DEF SessionBegin, TypeOK
    <3>3. QED
      BY <3>1, <3>2 DEF SlotsInv
  <2> QED
    BY <2>1, <2>2
<1> QED
  BY <1>3, <1>4, <1>5, <1>6

\* The last is to give its slot back.
LEMMA SessionEndListeners ==
  ASSUME ListenersInv, UNCHANGED fd_limit, SMTypeOK', NEW c \in Sessions, SessionEnd(c)
  PROVE  ListenersInv'
<1> USE DEF ListenersInv
<1> DEFINE l == via[c]
<1>1. l \in Channels /\ listen_fd[l] # "none" /\ c \in Slots(l)
  BY DEF SessionEnd, ThreadGoto, OriginInv, TypeOK, Slots, HoldsSlot
<1>2. /\ IsFiniteSet(Slots(l))
      /\ number_of_threads[l] = Cardinality(Slots(l))
      /\ Cardinality(Slots(l) \ {c}) = number_of_threads[l] - 1
      /\ IsFiniteSet(Slots(l) \ {c})
      /\ number_of_threads[l] - 1 \in Nat
  <2>1. IsFiniteSet(Slots(l)) /\ number_of_threads[l] = Cardinality(Slots(l))
    BY <1>1 DEF SlotsInv
  <2>2. /\ Cardinality(Slots(l) \ {c}) = Cardinality(Slots(l)) - 1
        /\ IsFiniteSet(Slots(l) \ {c})
    BY <1>1, <2>1, FS_RemoveElement
  <2>3. Cardinality(Slots(l)) \in Nat /\ Cardinality(Slots(l) \ {c}) \in Nat
    BY <2>1, <2>2, FS_CardinalityType
  <2> QED
    BY <2>1, <2>2, <2>3
<1>3. TypeOK'
  BY <1>1, <1>2 DEF SessionEnd, ThreadGoto, TypeOK, ThreadPoints, mainVars
<1>4. StartInv' /\ CommInv'
  BY DEF SessionEnd, StartInv, CommInv, mainVars
<1>5. OriginInv'
  BY <1>1 DEF SessionEnd, ThreadGoto, OriginInv, TypeOK, smVars
<1>6. SlotsInv'
  <2> SUFFICES ASSUME NEW k \in Channels, listen_fd'[k] # "none"
               PROVE  /\ IsFiniteSet(Slots(k)')
                      /\ number_of_threads'[k] = Cardinality(Slots(k)')
    BY DEF SlotsInv
  <2>1. CASE k = l
    <3>1. Slots(k)' = Slots(l) \ {c}
      BY <2>1 DEF Slots, HoldsSlot, SessionEnd, ThreadGoto, TypeOK
    <3>2. number_of_threads'[k] = number_of_threads[l] - 1
      BY <2>1, <1>1 DEF SessionEnd, TypeOK
    <3>3. QED
      BY <3>1, <3>2, <1>2
  <2>2. CASE k # l
    <3>1. Slots(k)' = Slots(k)
      BY <2>2 DEF Slots, HoldsSlot, SessionEnd, ThreadGoto, TypeOK
    <3>2. number_of_threads'[k] = number_of_threads[k] /\ listen_fd[k] # "none"
      BY <2>2, <1>1 DEF SessionEnd, TypeOK
    <3>3. QED
      BY <3>1, <3>2 DEF SlotsInv
  <2> QED
    BY <2>1, <2>2
<1> QED
  BY <1>3, <1>4, <1>5, <1>6

\* Every step of a session thread.
LEMMA SessionThreadListeners ==
  ASSUME ListenersInv, UNCHANGED fd_limit, SMTypeOK', [SMNext]_smVars,
         NEW c \in Sessions,
         SessionMoves(c)
  PROVE  ListenersInv'
<1>1. CASE SessionBegin(c) \/ SessionEnd(c)
  BY <1>1, SessionBeginListeners, SessionEndListeners
<1>2. CASE SessionInit(c) \/ SessionClosed(c)
  BY <1>2, ReturnFromListeners, LoopFromListeners DEF SessionInit, SessionClosed
<1>3. CASE GetSession(c)
  <2>1. CASE Abort
    BY <2>1, AbortListeners
  <2>2. CASE ~Abort
    <3>1. session' \in [Sessions -> Sessions \cup {Nobody}]
      BY <1>3, <2>2 DEF GetSession, ListenersInv, TypeOK, SMTypeOK
    <3>2. HoldsSlot(c) /\ thread' = [thread EXCEPT ![c] = "init"]
          /\ UNCHANGED <<mainVars, chanVars, client, via>>
      BY <1>3, <2>2 DEF GetSession, ThreadGoto, HoldsSlot, mainVars
    <3>3. QED
      BY <3>1, <3>2, SessionMovesListeners
  <2> QED
    BY <2>1, <2>2
<1>4. CASE SessionExecute(c)
  <2>1. CASE LoopFrom(c, "exec") \/ ReturnFrom(c, "exec")
    BY <2>1, ReturnFromListeners, LoopFromListeners
  <2>2. CASE exit_all' = TRUE /\ UNCHANGED <<smVars, main, index, interrupted,
                exit_comm, ready_notified, chanVars, connVars>>
    BY <2>2, OtherStepListeners DEF ListenersInv, TypeOK
  <2> QED
    BY <1>4, <2>1, <2>2 DEF SessionExecute
<1>5. CASE SessionCommand(c)
  <2>1. CASE ReturnFrom(c, "read")
    BY <2>1, ReturnFromListeners
  <2>2. CASE ThreadGoto(c, "read", "exec")
             /\ UNCHANGED <<smVars, mainVars, chanVars, client, via, session>>
    BY <2>2, SessionMovesListeners DEF ThreadGoto, HoldsSlot, ListenersInv, TypeOK
  <2> QED
    BY <1>5, <2>1, <2>2 DEF SessionCommand
<1>6. CASE SessionStale(c) \/ SessionExecuteThrows(c)
  BY <1>6, ReturnFromListeners, AbortListeners
  DEF SessionStale, SessionExecuteThrows, Serving
<1>7. CASE (CreateStep(c) \/ DeleteStep(c)) /\ UNCHANGED <<mainVars, chanVars, connVars>>
  BY <1>7, OtherStepListeners DEF mainVars, ListenersInv, TypeOK
<1> QED
  BY <1>1, <1>2, <1>3, <1>4, <1>5, <1>6, <1>7 DEF SessionMoves, SessionThread

\* Clients connect to channels that listen.
LEMMA EnvironmentListeners ==
  ASSUME ListenersInv, UNCHANGED fd_limit, Environment
  PROVE  ListenersInv'
<1> USE DEF ListenersInv
<1>1. ASSUME NEW c \in Sessions, NEW l \in Channels, Connect(c, l)
      PROVE  ListenersInv'
  <2>1. TypeOK'
    BY <1>1 DEF Connect, TypeOK, SMTypeOK, smVars, mainVars, chanVars
  <2>2. StartInv' /\ CommInv'
    BY <1>1 DEF Connect, StartInv, CommInv, mainVars, chanVars
  <2>3. thread[c] = "none" /\ via[c] = 0 /\ l # 0
    BY <1>1 DEF Connect, OriginInv, Channels
  <2>4. \A k \in Channels : comm_fd[k] # Nobody => comm_fd[k] # c
    BY <2>3 DEF OriginInv, Channels
  <2>5. /\ \A d \in Sessions \ {c} : via'[d] = via[d] /\ client'[d] = client[d]
        /\ via'[c] = l /\ client'[c] = "connected"
        /\ UNCHANGED <<step, thread, listen_fd, number_of_threads, comm_fd>>
    BY <1>1 DEF Connect, TypeOK, smVars, chanVars
  <2>6. OriginInv'
    BY <1>1, <2>3, <2>4, <2>5 DEF Connect, OriginInv, TypeOK
  <2>7. \A k \in Channels : Slots(k)' = Slots(k)
    BY <2>3, <2>5 DEF Slots, HoldsSlot
  <2>8. SlotsInv'
    BY <2>5, <2>7 DEF SlotsInv
  <2> QED
    BY <2>1, <2>2, <2>6, <2>8
<1>2. ASSUME NEW c \in Sessions, Disconnect(c) PROVE ListenersInv'
  <2>1. TypeOK'
    BY <1>2 DEF Disconnect, TypeOK, SMTypeOK, smVars, mainVars, chanVars
  <2>2. StartInv' /\ CommInv'
    BY <1>2 DEF Disconnect, StartInv, CommInv, mainVars, chanVars
  <2>3. OriginInv'
    BY <1>2 DEF Disconnect, OriginInv, TypeOK, smVars, chanVars
  <2>4. SlotsInv'
    BY <1>2, SlotsUnchanged DEF Disconnect, chanVars, HoldsSlot
  <2> QED
    BY <2>1, <2>2, <2>3, <2>4
<1>3. CASE Interrupt
  <2>1. TypeOK'
    BY <1>3 DEF Interrupt, CommGoto, LoopTest, TypeOK, SMTypeOK, smVars, connVars
  <2>2. StartInv' /\ OriginInv'
    BY <1>3 DEF Interrupt, StartInv, OriginInv, smVars, connVars
  <2>3. CommInv'
    BY <1>3 DEF Interrupt, CommGoto, LoopTest, CommInv, TypeOK
  <2>4. SlotsInv'
    BY <1>3, SlotsUnchanged DEF Interrupt, connVars, HoldsSlot
  <2> QED
    BY <2>1, <2>2, <2>3, <2>4
<1> QED
  BY <1>1, <1>2, <1>3 DEF Environment

\* Every step of the server keeps the invariant.
LEMMA ListenersStep == ListenersInv /\ SMTypeOK' /\ [Next]_vars => ListenersInv'
<1> SUFFICES ASSUME ListenersInv, SMTypeOK', [Next]_vars PROVE ListenersInv'
  OBVIOUS
<1>1. [SMNext]_smVars
  BY ServerStepManager
<1> UNCHANGED fd_limit
  BY DEF Next, Running, vars
<1>2. CASE UNCHANGED vars
  BY <1>1, <1>2, OtherStepListeners DEF vars, mainVars, ListenersInv, TypeOK
<1>3. CASE Environment
  BY <1>3, EnvironmentListeners
<1>4. CASE MainThread
  BY <1>1, <1>4, MainThreadListeners
<1>5. CASE \E l \in Channels : CommThread(l)
  BY <1>1, <1>5, CommThreadListeners
<1>6. CASE \E c \in Sessions : SessionMoves(c)
  BY <1>1, <1>6, SessionThreadListeners
<1> QED
  BY <1>2, <1>3, <1>4, <1>5, <1>6 DEF Next, Running, Step, SessionMoves

\* The invariant holds when the process starts.
LEMMA ListenersInit == Init => ListenersInv
<1> SUFFICES ASSUME Init PROVE ListenersInv
  OBVIOUS
<1>1. SMTypeOK
  BY SMInitInv DEF Init, SMInv
<1>2. TypeOK
  <2>1. index \in 1 .. NChannels + 1
    BY ChannelAssumption DEF Init
  <2>2. /\ exit_all \in BOOLEAN /\ exit_comm \in BOOLEAN
        /\ interrupted \in BOOLEAN /\ ready_notified \in BOOLEAN
    BY DEF Init
  <2>3. /\ listen_fd \in [Channels -> {"none", "bound", "listening", "shut"}]
        /\ is_ready \in [Channels -> BOOLEAN]
        /\ number_of_threads \in [Channels -> Nat \cup {-1}]
        /\ comm \in [Channels -> {"none", "start", "accept", "check", "admit", "done"}]
        /\ comm_fd \in [Channels -> Sessions \cup {Nobody}]
    BY DEF Init
  <2>4. /\ client \in [Sessions -> {"away", "connected", "closed"}]
        /\ via \in [Sessions -> Channels \cup {0}]
        /\ thread \in [Sessions -> ThreadPoints]
        /\ session \in [Sessions -> Sessions \cup {Nobody}]
    BY DEF Init, ThreadPoints
  <2> QED
    BY <1>1, <2>1, <2>2, <2>3, <2>4 DEF Init, TypeOK
<1>3. StartInv /\ CommInv /\ OriginInv /\ SlotsInv
  BY DEF Init, StartInv, CommInv, OriginInv, SlotsInv
<1> QED
  BY <1>2, <1>3 DEF ListenersInv

\* It holds in every reachable state.
LEMMA ListenersInvariant == Spec => []ListenersInv
<1>1. SMInv => SMTypeOK
  BY DEF SMInv
<1>2. QED
  BY <1>1, ListenersInit, ListenersStep, ServerKeepsSMInv, PTL DEF Spec

\* number_of_threads counts the session threads of its channel, whatever
\* threads run and in whatever order they end: no path through
\* session_thread_call loses a slot or gives one back twice.
THEOREM SlotsAreCounted == Spec => []SlotsMatchThreads
<1>1. ListenersInv => SlotsMatchThreads
  BY DEF ListenersInv, SlotsInv, Slots, SlotsMatchThreads
<1>2. QED
  BY <1>1, ListenersInvariant, PTL

\* After systemd was told that the server is ready, every enabled channel
\* listens and has a comm thread in its loop, until the shutdown.
THEOREM ReadyServesChannels == Spec => []ReadyMeansListening
<1>1. ListenersInv => ReadyMeansListening
  <2> SUFFICES ASSUME ListenersInv, ready_notified, main = "loop",
                      NEW l \in Channels, Enabled(l)
               PROVE  /\ listen_fd[l] = "listening"
                      /\ comm[l] \in {"accept", "check", "admit"}
    BY DEF ReadyMeansListening
  <2> QED
    BY DEF ListenersInv, StartInv, CommInv, TypeOK
<1>2. QED
  BY <1>1, ListenersInvariant, PTL
==============================================================================
