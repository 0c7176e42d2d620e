------------------------------ MODULE MCStores ------------------------------
(* The conversation's stores: the sessions and the memories.  They share   *)
(* no state, so a behaviour runs one of them.                              *)
EXTENDS SessionStore, MemoryService

CONSTANTS s1, s2, user, guest, e1, e2,   \* sessions, their owners, history entries
          w1, query                       \* a workspace and a query

VARIABLE part   \* the store that runs

allVars == <<part, vars, memoryVars>>

(* Two sessions of one user, one of them in a workspace, and another user. *)
MCReaders ==
  {[who |-> user,  session |-> s1, workspace |-> NoId],
   [who |-> user,  session |-> s2, workspace |-> w1],
   [who |-> guest, session |-> s1, workspace |-> w1]}

StoresInit == Init /\ MemoryInit /\ part \in {"sessions", "memory"}

StoresNext ==
  \/ part = "sessions" /\ Next /\ UNCHANGED <<part, memoryVars>>
  \/ part = "memory" /\ MemoryNext /\ UNCHANGED <<part, vars>>

StoresSpec == StoresInit /\ [][StoresNext]_allVars
=============================================================================
