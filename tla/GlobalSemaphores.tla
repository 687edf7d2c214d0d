-------------------------- MODULE GlobalSemaphores --------------------------
(***************************************************************************)
(* What simbly promises about an element of a global used as a semaphore:  *)
(* a client that executes DOWN waits until it takes one token, UP adds one *)
(* token, STORE sets the number of tokens, and nothing else changes it.  A *)
(* waiting client stops waiting in no other way, unless it is taken away   *)
(* for good: a client that is gone never asks again.                       *)
(***************************************************************************)
EXTENDS Integers

CONSTANTS
  Clients,     \* the programs
  Sems,        \* the semaphores
  Storable,    \* the values the programs STORE
  NotWaiting

VARIABLES
  count,
  waiting,     \* the semaphore a client waits for
  gone         \* the clients that have been taken away

semaphores == <<count, waiting, gone>>

Init ==
  /\ count = [s \in Sems |-> 0]
  /\ waiting = [c \in Clients |-> NotWaiting]
  /\ gone = {}

Request(c, s) ==
  /\ c \notin gone /\ waiting[c] = NotWaiting
  /\ waiting' = [waiting EXCEPT ![c] = s]
  /\ UNCHANGED <<count, gone>>

Take(c) ==
  /\ waiting[c] # NotWaiting
  /\ count[waiting[c]] > 0
  /\ count' = [count EXCEPT ![waiting[c]] = @ - 1]
  /\ waiting' = [waiting EXCEPT ![c] = NotWaiting]
  /\ UNCHANGED gone

Up(s) ==
  /\ count' = [count EXCEPT ![s] = @ + 1]
  /\ UNCHANGED <<waiting, gone>>

Store(s, v) ==
  /\ count' = [count EXCEPT ![s] = v]
  /\ UNCHANGED <<waiting, gone>>

Leave(C) ==
  /\ gone' = gone \cup C
  /\ waiting' = [c \in Clients |-> IF c \in C THEN NotWaiting ELSE waiting[c]]
  /\ UNCHANGED count

Next ==
  \/ \E c \in Clients : Take(c) \/ \E s \in Sems : Request(c, s)
  \/ \E s \in Sems : Up(s) \/ \E v \in Storable : Store(s, v)
  \/ \E C \in SUBSET Clients : Leave(C)

Spec == Init /\ [][Next]_semaphores

=============================================================================
