---------------------------- MODULE GlobalStore ----------------------------
(***************************************************************************)
(* What simbly promises about the global variables (README.md: "sort of    *)
(* like a RAM", every element 0 until a value is assigned): every LOAD,    *)
(* STORE, UP and DOWN takes effect once, at one moment between its call    *)
(* and its return, on one element of one variable; a program that executed *)
(* DOWN waits until it takes one token.                                    *)
(***************************************************************************)
EXTENDS Integers

CONSTANTS
  Programs,
  Operations,   \* what programs call: records [name, key, idx, val]
  Idle          \* no operation, no element

\* the elements of globals, named by key and index
ElementOf(o) == <<o.key, o.idx>>
Elements == {ElementOf(o) : o \in Operations}

VARIABLES
  value,        \* what each element holds
  pending,      \* the operation called and not yet performed
  waiting,      \* the element whose token the program waits for
  result        \* what the last operation has loaded

store == <<value, pending, waiting, result>>

Init ==
  /\ value = [e \in Elements |-> 0]
  /\ pending = [p \in Programs |-> Idle]
  /\ waiting = [p \in Programs |-> Idle]
  /\ result = [p \in Programs |-> 0]

Call(p) ==
  /\ pending[p] = Idle /\ waiting[p] = Idle
  /\ \E o \in Operations : pending' = [pending EXCEPT ![p] = o]
  /\ result' = [result EXCEPT ![p] = 0]
  /\ UNCHANGED <<value, waiting>>

Effect(p, o) ==
  \/ /\ o.name = "LOAD"
     /\ result' = [result EXCEPT ![p] = value[ElementOf(o)]]
     /\ UNCHANGED <<value, waiting>>
  \/ /\ o.name = "STORE"
     /\ value' = [value EXCEPT ![ElementOf(o)] = o.val]
     /\ UNCHANGED <<waiting, result>>
  \/ /\ o.name = "UP"
     /\ value' = [value EXCEPT ![ElementOf(o)] = @ + 1]
     /\ UNCHANGED <<waiting, result>>
  \/ /\ o.name = "DOWN"
     /\ waiting' = [waiting EXCEPT ![p] = ElementOf(o)]
     /\ UNCHANGED <<value, result>>

Perform(p) ==
  /\ pending[p] # Idle
  /\ Effect(p, pending[p])
  /\ pending' = [pending EXCEPT ![p] = Idle]

Take(p) ==
  /\ waiting[p] # Idle /\ value[waiting[p]] > 0
  /\ value' = [value EXCEPT ![waiting[p]] = @ - 1]
  /\ waiting' = [waiting EXCEPT ![p] = Idle]
  /\ UNCHANGED <<pending, result>>

Next == \E p \in Programs : Call(p) \/ Perform(p) \/ Take(p)

Spec == Init /\ [][Next]_store

=============================================================================
