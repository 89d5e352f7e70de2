--------------------------- MODULE SessionManager ---------------------------
(***************************************************************************)
(* The session manager of koheron-server (server/core/session_manager.hpp  *)
(* and .cpp): the pool of live sessions, the stack of identifiers that can *)
(* be used again, the session counter, and the mutex that create_session   *)
(* and delete_session hold.  delete_all, get_session_ids and exit_comm     *)
(* read the same state WITHOUT the mutex, so the critical sections are     *)
(* split wherever such a reader can look in between.                       *)
(*                                                                         *)
(* A session object is named by the connection it serves; its thread has   *)
(* the same name.  step[t] is where thread t stands with respect to the    *)
(* manager, arg[t] the identifier it was given or passes on; locals that   *)
(* go out of scope return to their initial value.                          *)
(***************************************************************************)
EXTENDS Integers, Sequences, FiniteSets

CONSTANTS Sessions,   \* the connections the server may accept
          Main,       \* the main thread: caller of delete_all and exit_comm
          Nobody      \* the mutex is free

ASSUME CallersAreDistinct ==
  Main \notin Sessions /\ Nobody \notin Sessions \cup {Main}

Callers == Sessions \cup {Main}

VARIABLES
  session_pool,        \* std::map from identifiers to session objects
  reusable_ids,        \* stack of released identifiers
  number_of_sessions,  \* static int
  mutex,               \* the caller that holds SessionManager::mutex, or Nobody
  step, arg,           \* per caller
  cursor, todo,        \* of main: the unlocked iterator, the ids to delete
  exit_signal,         \* the sessions whose exit_signal is set
  open_fds             \* the connections whose descriptor the server holds open

smVars == <<session_pool, reusable_ids, number_of_sessions, mutex, step, arg,
            cursor, todo, exit_signal, open_fds>>

-----------------------------------------------------------------------------
(* The containers *)

\* std::map::insert leaves an existing key alone.
PoolInsert(id, s) ==
  [i \in DOMAIN session_pool \cup {id} |->
      IF i \in DOMAIN session_pool THEN session_pool[i] ELSE s]

PoolErase(id) == [i \in DOMAIN session_pool \ {id} |-> session_pool[i]]

Live == {session_pool[i] : i \in DOMAIN session_pool}

Reusable == {reusable_ids[k] : k \in DOMAIN reusable_ids}

SMInit ==
  /\ session_pool = [i \in {} |-> Nobody]
  /\ reusable_ids = <<>>
  /\ number_of_sessions = 0
  /\ mutex = Nobody
  /\ step = [t \in Callers |-> "idle"]
  /\ arg = [t \in Callers |-> -1]
  /\ cursor = -1
  /\ todo = <<>>
  /\ exit_signal = {}
  /\ open_fds = {}

Goto(t, from, to) == step[t] = from /\ step' = [step EXCEPT ![t] = to]

-----------------------------------------------------------------------------
(* Calls made by a session thread.                                         *)

\* The listener accepted the connection: the server now owns a descriptor.
Accepted(s) ==
  /\ Goto(s, "idle", "accepted")
  /\ open_fds' = open_fds \cup {s}
  /\ UNCHANGED <<session_pool, reusable_ids, number_of_sessions, mutex, arg,
                 cursor, todo, exit_signal>>

CallCreate(s) ==
  /\ Goto(s, "accepted", "create")
  /\ UNCHANGED <<session_pool, reusable_ids, number_of_sessions, mutex, arg,
                 cursor, todo, exit_signal, open_fds>>

\* Bug variants of CreateChoose: the identifier stays on the stack; the stack
\* is not looked at; identifiers count from -1; the lock is not taken.
CreateChooseNoPop(s) ==
  /\ Goto(s, "create", "insert")
  /\ mutex = Nobody
  /\ mutex' = s
  /\ arg' = [arg EXCEPT ![s] = IF reusable_ids = <<>> THEN number_of_sessions
                               ELSE reusable_ids[Len(reusable_ids)]]
  /\ UNCHANGED <<session_pool, reusable_ids, number_of_sessions, cursor, todo,
                 exit_signal, open_fds>>

CreateChooseCounter(s) ==
  /\ Goto(s, "create", "insert")
  /\ mutex = Nobody
  /\ mutex' = s
  /\ arg' = [arg EXCEPT ![s] = number_of_sessions]
  /\ UNCHANGED <<session_pool, reusable_ids, number_of_sessions, cursor, todo,
                 exit_signal, open_fds>>

CreateChooseOffByOne(s) ==
  /\ Goto(s, "create", "insert")
  /\ mutex = Nobody
  /\ mutex' = s
  /\ arg' = [arg EXCEPT ![s] = number_of_sessions - 1]
  /\ UNCHANGED <<session_pool, reusable_ids, number_of_sessions, cursor, todo,
                 exit_signal, open_fds>>

CreateChooseUnlocked(s) ==
  /\ Goto(s, "create", "insert")
  /\ \/ /\ reusable_ids = <<>>
        /\ arg' = [arg EXCEPT ![s] = number_of_sessions]
        /\ UNCHANGED reusable_ids
     \/ /\ reusable_ids # <<>>
        /\ arg' = [arg EXCEPT ![s] = reusable_ids[Len(reusable_ids)]]
        /\ reusable_ids' = SubSeq(reusable_ids, 1, Len(reusable_ids) - 1)
  /\ UNCHANGED <<session_pool, number_of_sessions, mutex, cursor, todo, exit_signal,
                 open_fds>>

\* create_session: take the lock and choose the identifier.
CreateChoose(s) ==
  /\ Goto(s, "create", "insert")
  /\ mutex = Nobody
  /\ mutex' = s
  /\ \/ /\ reusable_ids = <<>>
        /\ arg' = [arg EXCEPT ![s] = number_of_sessions]
        /\ UNCHANGED reusable_ids
     \/ /\ reusable_ids # <<>>
        /\ arg' = [arg EXCEPT ![s] = reusable_ids[Len(reusable_ids)]]
        /\ reusable_ids' = SubSeq(reusable_ids, 1, Len(reusable_ids) - 1)
  /\ UNCHANGED <<session_pool, number_of_sessions, cursor, todo, exit_signal,
                 open_fds>>

\* ... build the session and insert it in the map,
CreateInsert(s) ==
  /\ Goto(s, "insert", "count")
  /\ session_pool' = PoolInsert(arg[s], s)
  /\ UNCHANGED <<reusable_ids, number_of_sessions, mutex, arg, cursor, todo,
                 exit_signal, open_fds>>

\* Bug variant of CreateCount: the counter is returned.
CreateCountReturned(s) ==
  /\ Goto(s, "count", "created")
  /\ number_of_sessions' = number_of_sessions + 1
  /\ arg' = [arg EXCEPT ![s] = number_of_sessions']
  /\ mutex' = Nobody
  /\ UNCHANGED <<session_pool, reusable_ids, cursor, todo, exit_signal, open_fds>>

\* ... count it, release the lock and return the identifier.
CreateCount(s) ==
  /\ Goto(s, "count", "created")
  /\ number_of_sessions' = number_of_sessions + 1
  /\ mutex' = Nobody
  /\ UNCHANGED <<session_pool, reusable_ids, arg, cursor, todo, exit_signal,
                 open_fds>>

CallDelete(s) ==
  /\ Goto(s, "created", "delete")
  /\ UNCHANGED <<session_pool, reusable_ids, number_of_sessions, mutex, arg,
                 cursor, todo, exit_signal, open_fds>>

-----------------------------------------------------------------------------
(* delete_session(arg[t]), called by a session thread or by delete_all.    *)

\* Bug variant of DeleteUnknown: the entry is looked up with operator[], which
\* inserts a null session.
DeleteUnknownInserts(t) ==
  /\ mutex = Nobody
  /\ arg[t] \notin DOMAIN session_pool
  /\ Goto(t, "delete", "deleted")
  /\ session_pool' = PoolInsert(arg[t], Nobody)
  /\ arg' = [arg EXCEPT ![t] = -1]
  /\ UNCHANGED <<reusable_ids, number_of_sessions, mutex, cursor, todo, exit_signal,
                 open_fds>>

\* "Not allocated session ID": the call returns.
DeleteUnknown(t) ==
  /\ mutex = Nobody
  /\ arg[t] \notin DOMAIN session_pool
  /\ Goto(t, "delete", "deleted")
  /\ arg' = [arg EXCEPT ![t] = -1]
  /\ UNCHANGED <<session_pool, reusable_ids, number_of_sessions, mutex, cursor,
                 todo, exit_signal, open_fds>>

\* Bug variants of DeleteClose: without the lock; without close().
DeleteCloseUnlocked(t) ==
  /\ arg[t] \in DOMAIN session_pool
  /\ Goto(t, "delete", "erase")
  /\ open_fds' = open_fds \ {session_pool[arg[t]]}
  /\ UNCHANGED <<session_pool, reusable_ids, number_of_sessions, mutex, arg,
                 cursor, todo, exit_signal>>

DeleteCloseLeaky(t) ==
  /\ mutex = Nobody
  /\ mutex' = t
  /\ arg[t] \in DOMAIN session_pool
  /\ Goto(t, "delete", "erase")
  /\ UNCHANGED <<session_pool, reusable_ids, number_of_sessions, arg, cursor,
                 todo, exit_signal, open_fds>>

\* Take the lock, find the session, shut down and close its descriptor,
DeleteClose(t) ==
  /\ mutex = Nobody
  /\ mutex' = t
  /\ arg[t] \in DOMAIN session_pool
  /\ Goto(t, "delete", "erase")
  /\ open_fds' = open_fds \ {session_pool[arg[t]]}
  /\ UNCHANGED <<session_pool, reusable_ids, number_of_sessions, arg, cursor,
                 todo, exit_signal>>

\* ... erase the entry, which destroys the session object,
DeleteErase(t) ==
  /\ Goto(t, "erase", "recycle")
  /\ session_pool' = PoolErase(arg[t])
  /\ exit_signal' = exit_signal \ {session_pool[arg[t]]}
  /\ UNCHANGED <<reusable_ids, number_of_sessions, mutex, arg, cursor, todo,
                 open_fds>>

\* Bug variants of DeleteRecycle: the identifier is lost; an early return skips
\* the count.
DeleteRecycleLost(t) ==
  /\ Goto(t, "recycle", "deleted")
  /\ number_of_sessions' = number_of_sessions - 1
  /\ arg' = [arg EXCEPT ![t] = -1]
  /\ mutex' = Nobody
  /\ UNCHANGED <<session_pool, reusable_ids, cursor, todo, exit_signal, open_fds>>

DeleteRecycleUncounted(t) ==
  /\ Goto(t, "recycle", "deleted")
  /\ reusable_ids' = Append(reusable_ids, arg[t])
  /\ arg' = [arg EXCEPT ![t] = -1]
  /\ mutex' = Nobody
  /\ UNCHANGED <<session_pool, number_of_sessions, cursor, todo, exit_signal,
                 open_fds>>

\* ... give the identifier back, count down and release the lock.
DeleteRecycle(t) ==
  /\ Goto(t, "recycle", "deleted")
  /\ reusable_ids' = Append(reusable_ids, arg[t])
  /\ number_of_sessions' = number_of_sessions - 1
  /\ arg' = [arg EXCEPT ![t] = -1]
  /\ mutex' = Nobody
  /\ UNCHANGED <<session_pool, cursor, todo, exit_signal, open_fds>>

-----------------------------------------------------------------------------
(* delete_all and exit_comm, called by the main thread without the lock.   *)

\* The unlocked iterator moves to the next key.
Follows(id) ==
  /\ id \in DOMAIN session_pool
  /\ id > cursor
  /\ \A i \in DOMAIN session_pool : i > cursor => id <= i

\* It stops after the last key; an iterator whose node another thread has
\* erased meanwhile may also stop anywhere.
IterationMayEnd ==
  \/ \A i \in DOMAIN session_pool : i <= cursor
  \/ cursor # -1 /\ cursor \notin DOMAIN session_pool

CallDeleteAll ==
  /\ Goto(Main, "idle", "delete_all")
  /\ UNCHANGED <<session_pool, reusable_ids, number_of_sessions, mutex, arg,
                 cursor, todo, exit_signal, open_fds>>

\* The empty() test of delete_all.
DeleteAllEnter ==
  /\ \/ Goto(Main, "delete_all", "all_deleted") /\ DOMAIN session_pool = {}
     \/ Goto(Main, "delete_all", "collect") /\ DOMAIN session_pool # {}
  /\ UNCHANGED <<session_pool, reusable_ids, number_of_sessions, mutex, arg,
                 cursor, todo, exit_signal, open_fds>>

\* get_session_ids
Collect ==
  /\ step[Main] = "collect"
  /\ \E id \in DOMAIN session_pool :
        /\ Follows(id)
        /\ todo' = Append(todo, id)
        /\ cursor' = id
  /\ UNCHANGED <<session_pool, reusable_ids, number_of_sessions, mutex, step,
                 arg, exit_signal, open_fds>>

CollectEnd ==
  /\ IterationMayEnd
  /\ Goto(Main, "collect", "deleted")
  /\ cursor' = -1
  /\ UNCHANGED <<session_pool, reusable_ids, number_of_sessions, mutex, arg,
                 todo, exit_signal, open_fds>>

DeleteAllNext ==
  /\ todo # <<>>
  /\ Goto(Main, "deleted", "delete")
  /\ arg' = [arg EXCEPT ![Main] = Head(todo)]
  /\ todo' = Tail(todo)
  /\ UNCHANGED <<session_pool, reusable_ids, number_of_sessions, mutex, cursor,
                 exit_signal, open_fds>>

DeleteAllEnd ==
  /\ todo = <<>>
  /\ Goto(Main, "deleted", "all_deleted")
  /\ UNCHANGED <<session_pool, reusable_ids, number_of_sessions, mutex, arg,
                 cursor, todo, exit_signal, open_fds>>

CallExitComm ==
  /\ Goto(Main, "all_deleted", "exit_comm")
  /\ UNCHANGED <<session_pool, reusable_ids, number_of_sessions, mutex, arg,
                 cursor, todo, exit_signal, open_fds>>

ExitComm ==
  /\ step[Main] = "exit_comm"
  /\ \E id \in DOMAIN session_pool :
        /\ Follows(id)
        /\ exit_signal' = exit_signal \cup {session_pool[id]}
        /\ cursor' = id
  /\ UNCHANGED <<session_pool, reusable_ids, number_of_sessions, mutex, step,
                 arg, todo, open_fds>>

ExitCommEnd ==
  /\ IterationMayEnd
  /\ Goto(Main, "exit_comm", "comm_exited")
  /\ cursor' = -1
  /\ UNCHANGED <<session_pool, reusable_ids, number_of_sessions, mutex, arg,
                 todo, exit_signal, open_fds>>

-----------------------------------------------------------------------------
(* What the manager does by itself once called, and what starts a call.    *)

DeleteStep(t) ==
  DeleteUnknown(t) \/ DeleteClose(t) \/ DeleteErase(t) \/ DeleteRecycle(t)

CreateStep(s) == CreateChoose(s) \/ CreateInsert(s) \/ CreateCount(s)

MainStep ==
  \/ DeleteAllEnter \/ Collect \/ CollectEnd \/ DeleteAllNext \/ DeleteAllEnd
  \/ ExitComm \/ ExitCommEnd

SMInternal ==
  \/ \E s \in Sessions : CreateStep(s)
  \/ \E t \in Callers : DeleteStep(t)
  \/ MainStep

SMCall ==
  \/ \E s \in Sessions : Accepted(s) \/ CallCreate(s) \/ CallDelete(s)
  \/ CallDeleteAll
  \/ CallExitComm

SMNext == SMInternal \/ SMCall

SMSpec == SMInit /\ [][SMNext]_smVars

-----------------------------------------------------------------------------
(* Properties *)

SessionSteps == {"idle", "accepted", "create", "insert", "count", "created",
                 "delete", "erase", "recycle", "deleted"}
MainSteps == {"idle", "delete_all", "collect", "delete", "erase", "recycle",
              "deleted", "all_deleted", "exit_comm", "comm_exited"}

\* Every variable of the manager keeps its type; identifiers are naturals.
SMTypeOK ==
  /\ DOMAIN session_pool \in SUBSET Nat
  /\ session_pool \in [DOMAIN session_pool -> Sessions]
  /\ reusable_ids \in Seq(Nat)
  /\ number_of_sessions \in Int
  /\ mutex \in Callers \cup {Nobody}
  /\ step \in [Callers -> SessionSteps \cup MainSteps]
  /\ \A s \in Sessions : step[s] \in SessionSteps
  /\ step[Main] \in MainSteps
  /\ arg \in [Callers -> Nat \cup {-1}]
  /\ cursor \in Nat \cup {-1}
  /\ todo \in Seq(Nat)
  /\ exit_signal \in SUBSET Sessions
  /\ open_fds \in SUBSET Sessions

\* The identifier a critical section holds that is neither in the map nor on
\* the stack.
InFlight ==
  IF mutex # Nobody /\ step[mutex] \in {"insert", "recycle"}
  THEN {arg[mutex]} ELSE {}

\* create_session and delete_session hand every identifier to exactly one of
\* the map, the stack and the critical section in progress, also while the
\* lock is held: the assert of get_session_ids holds for its unlocked caller.
IdsPartitioned ==
  /\ DOMAIN session_pool \cap Reusable = {}
  /\ (DOMAIN session_pool \cup Reusable) \cap InFlight = {}
  /\ \A j, k \in DOMAIN reusable_ids :
        reusable_ids[j] = reusable_ids[k] => j = k

\* All the identifiers issued so far.
UsedIds == DOMAIN session_pool \cup Reusable \cup InFlight

\* The identifiers issued have no gap: with an empty stack they are those in
\* the map, 0 .. n-1, which is why "a new ID equal to the session number" is
\* one that create_session has not issued.
IdsDense == \A i \in UsedIds : 0 .. i \subseteq UsedIds

\* number_of_sessions, a counter kept by hand beside the map, is the size of
\* the map whenever no critical section is in progress.
CountMatchesPool ==
  mutex = Nobody => number_of_sessions = Cardinality(DOMAIN session_pool)

\* create_session never inserts under an identifier that is in the map, where
\* std::map::insert would silently drop the new session.
FreshIdentifier ==
  \A s \in Sessions : step[s] = "insert" => arg[s] \notin DOMAIN session_pool

\* Until main starts delete_all, the identifier a session thread got from
\* create_session designates that thread's own session, whatever other
\* sessions come and go.
OwnSession ==
  \A s \in Sessions :
     step[Main] = "idle" /\ step[s] \in {"created", "delete"} =>
        arg[s] \in DOMAIN session_pool /\ session_pool[arg[s]] = s

\* delete_session closes each descriptor once: outside critical sections every
\* session in the map still holds its descriptor open.
PooledDescriptorOpen == mutex = Nobody => Live \subseteq open_fds

\* A session thread that has run delete_session to the end has no descriptor
\* left, even when delete_all, or the thread of a later session with the same
\* identifier, deleted its session first.
NoDescriptorLeak ==
  \A s \in Sessions : step[s] = "deleted" => s \notin open_fds

-----------------------------------------------------------------------------
(* The inductive invariant behind these properties.                        *)

Critical == {"insert", "count", "erase", "recycle"}

\* The mutex is held exactly in the critical sections.
MutexInv == \A t \in Callers : step[t] \in Critical <=> mutex = t

\* Identifiers are set before they are used; the entry DeleteClose found is
\* still there when it is erased.
ArgInv ==
  /\ \A t \in Callers : step[t] \in Critical \cup {"delete"} => arg[t] \in Nat
  /\ \A s \in Sessions : step[s] = "created" => arg[s] \in Nat
  /\ \A t \in Callers : step[t] = "erase" => arg[t] \in DOMAIN session_pool

\* What number_of_sessions has not followed yet.
Uncounted ==
  IF mutex = Nobody THEN 0
  ELSE IF step[mutex] = "count" THEN -1
  ELSE IF step[mutex] = "recycle" THEN 1 ELSE 0

CountInv ==
  /\ IsFiniteSet(DOMAIN session_pool)
  /\ number_of_sessions = Cardinality(DOMAIN session_pool) + Uncounted

\* A session in the map is there under the identifier its thread was given.
OwnerInv ==
  \A i \in DOMAIN session_pool :
     /\ arg[session_pool[i]] = i
     /\ step[session_pool[i]] \in {"count", "created", "delete", "erase"}

\* Before delete_all, a session that was inserted is in the map.
OwnInv ==
  step[Main] = "idle" =>
     \A s \in Sessions : step[s] \in {"count", "created", "delete", "erase"} =>
        arg[s] \in DOMAIN session_pool /\ session_pool[arg[s]] = s

BeingErased(i) == mutex # Nobody /\ step[mutex] = "erase" /\ arg[mutex] = i

FdInv ==
  /\ \A i \in DOMAIN session_pool :
        session_pool[i] \in open_fds <=> ~BeingErased(i)
  /\ \A s \in open_fds :
        step[s] \in {"accepted", "create", "insert"} \/ s \in Live
  /\ \A s \in Sessions :
        step[s] \in {"accepted", "create", "insert"} => s \in open_fds

SMInv ==
  /\ SMTypeOK /\ MutexInv /\ ArgInv /\ IdsPartitioned /\ IdsDense
  /\ CountInv /\ OwnerInv /\ OwnInv /\ FdInv

\* SessionManager implements the table of sessions.
Table == INSTANCE SessionTable WITH table <- session_pool
TableSpec == Table!Spec
=============================================================================
