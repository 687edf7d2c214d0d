------------------------------ MODULE Machine ------------------------------
(***************************************************************************)
(* Programs that run side by side: each executes its own lines with its    *)
(* own variables, and all of them work on the global variables as          *)
(* GlobalStore promises, as long as every index is within the variable as  *)
(* it was made: the first use of a global makes it as long as its index    *)
(* asks for, and an index beyond that loses the process (global.c gives    *)
(* realloc the variable instead of its array).  An instruction is one      *)
(* step: nobody else sees a program's variables, and a global instruction  *)
(* takes effect at one moment between its call and its return.             *)
(*                                                                         *)
(* A line is a record [label, op, dst, src, idx]: src are the operands     *)
(* read, dst the variable written, for the global instructions src[1] is   *)
(* the name of the global and idx its index.                               *)
(***************************************************************************)
EXTENDS Integers, Sequences, FiniteSets

CONSTANTS
  Programs,
  Scenarios,      \* which programs run together
  TextOf(_, _),   \* the lines of a program in a scenario, <<>> for none
  Given(_, _),    \* its argc and argv, as a record
  First(_),       \* the programs that must have ended before others start
  Made(_),        \* the length of each global that programs before them made,
                  \* 0 for those they have not used
  Locals,         \* names of local variables
  Literals,       \* the integer of each literal
  Keys,           \* names of globals
  Indices,        \* indices of globals
  MaxValue,       \* a program that counts beyond it goes on no more
  Idle

VARIABLES
  scenario,
  line,           \* the line each program executes next, 0 after the end
  vartable,       \* its local variables
  value,          \* the global variables
  waiting,        \* the global a program has executed DOWN on
  result,         \* what its last LOAD has read
  extent,         \* the length of each global, 0 before its first use
  lost            \* a global was used beyond its length

system == <<scenario, line, vartable, value, waiting, result>>
vars == <<system, extent, lost>>

Operations ==
  [name : {"LOAD", "STORE", "UP", "DOWN"}, key : Keys, idx : Indices, val : {0}]

Store == INSTANCE GlobalStore WITH pending <- [p \in Programs |-> Idle]

Text(p) == TextOf(scenario, p)
Here(p) == Text(p)[line[p]]

Value(p, operand) ==
  IF operand \in DOMAIN Literals THEN Literals[operand] ELSE vartable[p][operand]

Started(p) == \A q \in First(scenario) : q = p \/ line[q] = 0

\* mutant: a program goes on without a token
RunsWaiting(p) == line[p] # 0 /\ Started(p)

Runs(p) == line[p] # 0 /\ Started(p) /\ waiting[p] = Idle

Goto(p, n) == line' = [line EXCEPT ![p] = IF n > Len(Text(p)) THEN 0 ELSE n]
GoOn(p) == Goto(p, line[p] + 1)

Init ==
  /\ scenario \in Scenarios
  /\ line = [p \in Programs |-> IF Text(p) = <<>> THEN 0 ELSE 1]
  /\ vartable = [p \in Programs |-> [v \in Locals |->
                   IF v \in DOMAIN Given(scenario, p) THEN Given(scenario, p)[v] ELSE 0]]
  /\ value = [e \in Store!Elements |-> 0]
  /\ waiting = [p \in Programs |-> Idle]
  /\ result = [p \in Programs |-> 0]
  /\ extent = Made(scenario) /\ lost = FALSE

Arithmetic == {"SET", "ADD", "SUB", "MOD"}
Branches == {"BRA", "BREQ", "BRGT", "BRGE", "BRLE"}
OnGlobals == {"LOAD", "STORE", "UP", "DOWN"}

Lines ==
  [label : STRING, op : Arithmetic \cup Branches \cup OnGlobals \cup {"PRINT", "SLEEP", "RETURN"},
   dst : STRING, src : Seq(STRING), idx : STRING]

\* the label of every branch has its line, a literal is no variable, and a
\* program that does not wait is not taken for one that waits for an element
ASSUME MachineAssumption ==
  /\ IsFiniteSet(Programs)
  /\ \A s \in Scenarios : First(s) \subseteq Programs
  /\ \A s \in Scenarios, p \in Programs :
       LET t == TextOf(s, p) IN
       /\ t \in Seq(Lines)
       /\ \A n \in DOMAIN t : t[n].op \in Branches => \E m \in DOMAIN t : t[m].label = t[n].dst
  /\ \A s \in Scenarios : Made(s) \in [Keys -> Nat]
  /\ Locals \cap DOMAIN Literals = {}
  /\ Idle \notin Keys \X Int

\* set_handler, primitive_op_handler
Apply(op, a) ==
  CASE op = "SET" -> a[1]
    [] op = "ADD" -> a[1] + a[2]
    [] op = "SUB" -> a[1] - a[2]
    [] op = "MOD" -> a[1] % a[2]

Compute(p) ==
  LET here == Here(p)
      v == Apply(here.op, [i \in DOMAIN here.src |-> Value(p, here.src[i])]) IN
  /\ Runs(p) /\ here.op \in Arithmetic /\ v <= MaxValue
  /\ vartable' = [vartable EXCEPT ![p][here.dst] = v]
  /\ GoOn(p)
  /\ UNCHANGED <<scenario, value, waiting, result, extent, lost>>

\* branch_handler
Holds(op, a) ==
  CASE op = "BRA"  -> TRUE
    [] op = "BREQ" -> a[1] = a[2]
    [] op = "BRGT" -> a[1] > a[2]
    [] op = "BRGE" -> a[1] >= a[2]
    [] op = "BRLE" -> a[1] <= a[2]

LineOf(p, label) == CHOOSE n \in DOMAIN Text(p) : Text(p)[n].label = label

\* where a branch goes on
Jump(p) ==
  LET here == Here(p) IN
  IF Holds(here.op, [i \in DOMAIN here.src |-> Value(p, here.src[i])])
  THEN LineOf(p, here.dst) ELSE line[p] + 1

Branch(p) ==
  /\ Runs(p) /\ Here(p).op \in Branches
  /\ Goto(p, Jump(p))
  /\ UNCHANGED <<scenario, vartable, value, waiting, result, extent, lost>>

\* the element of a global that the instruction is about
Length(p) == extent[Here(p).src[1]]
Index(p) == Value(p, Here(p).idx)

\* the variable is made with the element, or has it
Within(p) == Length(p) = 0 \/ Index(p) < Length(p)

\* load_handler, store_handler, semaphore_handler
Global(p) ==
  LET here == Here(p)
      operation == [name |-> here.op, key |-> here.src[1], idx |-> Index(p),
                    val |-> IF here.op = "STORE" THEN Value(p, here.src[2]) ELSE 0] IN
  /\ Runs(p) /\ here.op \in OnGlobals /\ Within(p)
  /\ Store!Effect(p, operation)
  /\ vartable' = IF here.op = "LOAD" THEN [vartable EXCEPT ![p][here.dst] = result'[p]]
                 ELSE vartable
  /\ GoOn(p)
  /\ extent' = [extent EXCEPT ![here.src[1]] = IF @ = 0 THEN Index(p) + 1 ELSE @]
  /\ UNCHANGED <<scenario, lost>>

\* realloc(var, ...) of an index beyond the length: anything may follow
Overrun(p) ==
  /\ Runs(p) /\ Here(p).op \in OnGlobals /\ ~Within(p)
  /\ lost' = TRUE
  /\ UNCHANGED <<system, extent>>

\* PRINT and SLEEP
Show(p) ==
  /\ Runs(p) /\ Here(p).op \in {"PRINT", "SLEEP"}
  /\ GoOn(p)
  /\ UNCHANGED <<scenario, vartable, value, waiting, result, extent, lost>>

\* return_handler
Return(p) ==
  /\ Runs(p) /\ Here(p).op = "RETURN"
  /\ line' = [line EXCEPT ![p] = 0]
  /\ UNCHANGED <<scenario, vartable, value, waiting, result, extent, lost>>

\* mutant: the last token is left
TakeButLast(p) ==
  /\ waiting[p] # Idle /\ value[waiting[p]] > 1
  /\ Store!Take(p) /\ UNCHANGED <<scenario, line, vartable, extent, lost>>

\* program_state_blocked
Take(p) == Store!Take(p) /\ UNCHANGED <<scenario, line, vartable, extent, lost>>

Step(p) == Compute(p) \/ Branch(p) \/ Global(p) \/ Show(p) \/ Return(p) \/ Take(p)

Turn(p) == ~lost /\ (Step(p) \/ Overrun(p))

Next == \E p \in Programs : Turn(p)

Spec == Init /\ [][Next]_vars

\* every program gets its turns; a token that stays is taken
FairSpec == Spec /\ \A p \in Programs : WF_vars(Turn(p))

=============================================================================
