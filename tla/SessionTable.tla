---------------------------- MODULE SessionTable ----------------------------
(***************************************************************************)
(* What SessionManager promises its callers: a table in which every open   *)
(* session has an identifier of its own.  Opening a session adds one entry *)
(* under an unused identifier, closing removes one, and nothing else ever  *)
(* changes: no entry is overwritten, renamed or handed to another session. *)
(***************************************************************************)
EXTENDS Integers

CONSTANT Sessions
VARIABLE table

Init == table = [i \in {} |-> 0]

\* The identifier is whichever key appears.
Open(s) ==
  \E id \in DOMAIN table' \ DOMAIN table :
     /\ \A i \in DOMAIN table : table[i] # s
     /\ id \in Nat
     /\ table' = [i \in DOMAIN table \cup {id} |->
                     IF i = id THEN s ELSE table[i]]

Close ==
  \E id \in DOMAIN table :
     table' = [i \in DOMAIN table \ {id} |-> table[i]]

Next == (\E s \in Sessions : Open(s)) \/ Close

Spec == Init /\ [][Next]_table
=============================================================================
