--------------------------- MODULE SamplesProofs ---------------------------
(***************************************************************************)
(* For any number of programs in any scenarios that satisfy                *)
(* CastAssumption, BufferAssumption and IndexAssumption: the sample        *)
(* programs solve their problems.                                          *)
(***************************************************************************)
EXTENDS Samples, FiniteSetTheorems, TLAPS

-----------------------------------------------------------------------------
(***************************************************************************)
(* The machine.  What an instruction does is said of the variables and     *)
(* globals it names: G(k) is the element 0 of the global k.                *)
(***************************************************************************)
G(k) == value[<<k, 0>>]

Follow(p, n) == IF n + 1 > Len(Text(p)) THEN 0 ELSE n + 1

\* A program that waits has executed DOWN on the line before.
WaitsAt(p, n) ==
  /\ n \in DOMAIN Text(p) /\ Text(p)[n].op = "DOWN"
  /\ line[p] = Follow(p, n)
  /\ \E i : waiting[p] = <<Text(p)[n].src[1], i>> /\ (Text(p)[n].idx = "0" => i = 0)

MachineInv ==
  /\ scenario \in Scenarios
  /\ line \in [Programs -> Nat]
  /\ vartable = [p \in Programs |-> vartable[p]]
  /\ \A p \in Programs : vartable[p] = [x \in Locals |-> vartable[p][x]]
  /\ value = [e \in Keys \X Indices |-> value[e]]
  /\ waiting = [p \in Programs |-> waiting[p]]
  /\ result = [p \in Programs |-> result[p]]
  /\ \A p \in Programs :
       /\ line[p] <= Len(Text(p))
       /\ line[p] \notin {0, 1} => Started(p)
       /\ waiting[p] # Idle => \E n : WaitsAt(p, n)

LEMMA ElementsAre == Store!Elements = Keys \X Indices
<1>1. ASSUME NEW o \in Operations PROVE <<o.key, o.idx>> \in Keys \X Indices
  BY DEF Operations
<1>2. ASSUME NEW k \in Keys, NEW i \in Indices
      PROVE  \E o \in Operations : <<k, i>> = <<o.key, o.idx>>
  <2>1. [name |-> "UP", key |-> k, idx |-> i, val |-> 0] \in Operations
    BY DEF Operations
  <2> QED
    BY <2>1
<1> QED
  BY <1>1, <1>2 DEF Store!Elements, Store!ElementOf

LEMMA TextTyped ==
  ASSUME MachineInv, NEW p \in Programs
  PROVE  Text(p) \in Seq(Lines) /\ Len(Text(p)) \in Nat /\ DOMAIN Text(p) = 1 .. Len(Text(p))
<1>1. Text(p) \in Seq(Lines)
  BY MachineAssumption DEF MachineInv, Text
<1> QED
  BY <1>1

LEMMA LineBounds ==
  ASSUME MachineInv, NEW p \in Programs
  PROVE  line[p] \in Nat /\ line[p] <= Len(Text(p))
BY DEF MachineInv

LEMMA HasStarted ==
  ASSUME MachineInv, NEW p \in Programs, line[p] \notin {0, 1}
  PROVE  Started(p)
BY DEF MachineInv

\* What happens is a step of a program, or the loss of the process.
LEMMA NextSteps ==
  ASSUME [Next]_vars
  PROVE  \/ \E p \in Programs : ~lost /\ Step(p) /\ lost' = lost
         \/ \E p \in Programs : ~lost /\ Overrun(p)
         \/ UNCHANGED vars
<1>1. ASSUME NEW p \in Programs, Step(p) PROVE lost' = lost
  BY <1>1 DEF Step, Compute, Branch, Global, Show, Return, Take
<1> QED
  BY <1>1 DEF Next, Turn

LEMMA InitMachine == Init => MachineInv
<1> SUFFICES ASSUME Init PROVE MachineInv
  OBVIOUS
<1>1. ASSUME NEW p \in Programs
      PROVE  Text(p) \in Seq(Lines) /\ Len(Text(p)) \in Nat /\ (Text(p) # <<>> => Len(Text(p)) >= 1)
  <2>1. Text(p) \in Seq(Lines)
    BY MachineAssumption DEF Init, Text
  <2> QED
    BY <2>1
<1>2. line = [p \in Programs |-> IF Text(p) = <<>> THEN 0 ELSE 1]
  BY DEF Init
<1>3. \A p \in Programs : line[p] <= Len(Text(p)) /\ line[p] \in {0, 1}
  BY <1>1, <1>2
<1>4. line \in [Programs -> Nat]
  BY <1>2
<1>5. \A p \in Programs : vartable[p] = [x \in Locals |-> vartable[p][x]]
  BY DEF Init
<1>6. value = [e \in Keys \X Indices |-> value[e]]
  BY ElementsAre DEF Init
<1>7. /\ scenario \in Scenarios
      /\ vartable = [p \in Programs |-> vartable[p]]
      /\ waiting = [p \in Programs |-> waiting[p]]
      /\ result = [p \in Programs |-> result[p]]
      /\ \A p \in Programs : waiting[p] = Idle
  BY DEF Init
<1> QED
  BY <1>3, <1>4, <1>5, <1>6, <1>7 DEF MachineInv

\* A step of a program leaves the others where they are.
Alone(p) ==
  /\ scenario' = scenario
  /\ \A q \in Programs \ {p} :
       line'[q] = line[q] /\ waiting'[q] = waiting[q] /\ vartable'[q] = vartable[q]

LEMMA StepAlone ==
  ASSUME MachineInv, NEW p \in Programs, Step(p)
  PROVE  Alone(p)
<1>1. CASE Compute(p)
  BY <1>1 DEF Compute, GoOn, Goto, Alone, MachineInv
<1>2. CASE Branch(p)
  BY <1>2 DEF Branch, Goto, Alone, MachineInv
<1>3. CASE Global(p)
  <2>1. \A q \in Programs \ {p} : waiting'[q] = waiting[q]
    BY <1>3 DEF Global, Store!Effect, MachineInv
  <2>2. \A q \in Programs \ {p} : line'[q] = line[q] /\ vartable'[q] = vartable[q]
    BY <1>3 DEF Global, GoOn, Goto, MachineInv
  <2> QED
    BY <1>3, <2>1, <2>2 DEF Global, Alone
<1>4. CASE Show(p)
  BY <1>4 DEF Show, GoOn, Goto, Alone, MachineInv
<1>5. CASE Return(p)
  BY <1>5 DEF Return, Alone, MachineInv
<1>6. CASE Take(p)
  BY <1>6 DEF Take, Store!Take, Alone, MachineInv
<1> QED
  BY <1>1, <1>2, <1>3, <1>4, <1>5, <1>6 DEF Step

\* Where a program is after an instruction.
LEMMA StepLine ==
  ASSUME MachineInv, NEW p \in Programs, Step(p), waiting[p] = Idle
  PROVE  /\ line[p] # 0 /\ Started(p) /\ line[p] \in DOMAIN Text(p)
         /\ line'[p] \in Nat /\ line'[p] <= Len(Text(p))
         /\ Here(p).op \notin Branches \cup {"RETURN"} => line'[p] = Follow(p, line[p])
         /\ Here(p).op = "DOWN" => waiting'[p] = <<Here(p).src[1], Value(p, Here(p).idx)>>
         /\ Here(p).op # "DOWN" => waiting'[p] = Idle
<1>1. /\ Runs(p) /\ ~Take(p)
      /\ Compute(p) \/ Branch(p) \/ Global(p) \/ Show(p) \/ Return(p)
  BY DEF Step, Take, Store!Take, Compute, Branch, Global, Show, Return
<1>2. line[p] # 0 /\ Started(p)
  BY <1>1 DEF Runs
<1>3. line[p] \in Nat /\ line[p] <= Len(Text(p)) /\ p \in DOMAIN line /\ p \in DOMAIN waiting
  BY DEF MachineInv
<1>4. line[p] \in 1 .. Len(Text(p)) /\ Len(Text(p)) \in Nat /\ DOMAIN Text(p) = 1 .. Len(Text(p))
  BY <1>2, <1>3, TextTyped
<1>5. Follow(p, line[p]) \in Nat /\ Follow(p, line[p]) <= Len(Text(p))
  BY <1>4 DEF Follow
<1>6. ASSUME GoOn(p) PROVE line'[p] = Follow(p, line[p])
  BY <1>3, <1>6 DEF GoOn, Goto, Follow
<1>7. CASE Compute(p)
  BY <1>2, <1>4, <1>5, <1>6, <1>7 DEF Compute, Arithmetic, Branches
<1>8. CASE Branch(p)
  <2>1. Jump(p) \in Nat
    <3>1. PICK m \in DOMAIN Text(p) : Text(p)[m].label = Here(p).dst
      <4>1. Here(p).op \in Branches
        BY <1>8 DEF Branch
      <4>2. \A n \in DOMAIN Text(p) : Text(p)[n].op \in Branches =>
              \E m \in DOMAIN Text(p) : Text(p)[m].label = Text(p)[n].dst
        BY MachineAssumption DEF MachineInv, Text
      <4> QED
        BY <1>4, <4>1, <4>2 DEF Here
    <3>2. LineOf(p, Here(p).dst) \in DOMAIN Text(p)
      BY <3>1 DEF LineOf
    <3>3. LineOf(p, Here(p).dst) \in Nat
      BY <3>2, <1>4
    <3> HIDE DEF LineOf
    <3> QED
      BY <3>3, <1>4 DEF Jump
  <2>2. line'[p] \in Nat /\ line'[p] <= Len(Text(p))
    BY <1>3, <1>4, <1>8, <2>1 DEF Branch, Goto
  <2>3. Here(p).op \in Branches /\ Here(p).op # "DOWN" /\ waiting'[p] = Idle
    BY <1>8 DEF Branch, Branches
  <2> QED
    BY <1>2, <1>4, <2>2, <2>3
<1>9. CASE Global(p)
  <2>1. GoOn(p) /\ Here(p).op \in OnGlobals
    BY <1>9 DEF Global
  <2>2. Here(p).op = "DOWN" => waiting'[p] = <<Here(p).src[1], Value(p, Here(p).idx)>>
    BY <1>3, <1>9 DEF Global, Index, Store!Effect, Store!ElementOf
  <2>3. Here(p).op # "DOWN" => waiting'[p] = Idle
    BY <1>3, <1>9 DEF Global, Store!Effect, Store!ElementOf
  <2> QED
    BY <1>2, <1>4, <1>5, <1>6, <2>1, <2>2, <2>3
<1>10. CASE Show(p)
  BY <1>2, <1>4, <1>5, <1>6, <1>10 DEF Show
<1>11. CASE Return(p)
  BY <1>2, <1>3, <1>4, <1>11 DEF Return
<1> QED
  BY <1>1, <1>7, <1>8, <1>9, <1>10, <1>11

\* A program that has found its token goes on behind the DOWN.
LEMMA TakeLine ==
  ASSUME MachineInv, NEW p \in Programs, Step(p), waiting[p] # Idle
  PROVE  /\ value[waiting[p]] > 0
         /\ value' = [value EXCEPT ![waiting[p]] = @ - 1]
         /\ waiting'[p] = Idle /\ line' = line /\ vartable' = vartable
<1>1. Take(p)
  BY DEF Step, Compute, Branch, Global, Show, Return, Runs
<1> QED
  BY <1>1 DEF Take, Store!Take, MachineInv

\* What a step leaves as it is: the names there are.
LEMMA StepShapes ==
  ASSUME MachineInv, NEW p \in Programs, Step(p)
  PROVE  /\ line' = [q \in Programs |-> line'[q]]
         /\ vartable' = [q \in Programs |-> vartable'[q]]
         /\ \A q \in Programs : vartable'[q] = [x \in Locals |-> vartable'[q][x]]
         /\ value' = [e \in Keys \X Indices |-> value'[e]]
         /\ waiting' = [q \in Programs |-> waiting'[q]]
         /\ result' = [q \in Programs |-> result'[q]]
<1>1. /\ line = [q \in Programs |-> line[q]]
      /\ vartable = [q \in Programs |-> vartable[q]]
      /\ \A q \in Programs : vartable[q] = [x \in Locals |-> vartable[q][x]]
      /\ value = [e \in Keys \X Indices |-> value[e]]
      /\ waiting = [q \in Programs |-> waiting[q]]
      /\ result = [q \in Programs |-> result[q]]
  BY DEF MachineInv
<1>2. CASE Compute(p)
  BY <1>1, <1>2 DEF Compute, GoOn, Goto
<1>3. CASE Branch(p)
  BY <1>1, <1>3 DEF Branch, Goto
<1>4. CASE Global(p)
  <2>1. /\ line' = [q \in Programs |-> line'[q]]
        /\ vartable' = [q \in Programs |-> vartable'[q]]
        /\ \A q \in Programs : vartable'[q] = [x \in Locals |-> vartable'[q][x]]
    BY <1>1, <1>4 DEF Global, GoOn, Goto
  <2>2. /\ value' = [e \in Keys \X Indices |-> value'[e]]
        /\ waiting' = [q \in Programs |-> waiting'[q]]
        /\ result' = [q \in Programs |-> result'[q]]
    BY <1>1, <1>4 DEF Global, Store!Effect
  <2> QED
    BY <2>1, <2>2
<1>5. CASE Show(p)
  BY <1>1, <1>5 DEF Show, GoOn, Goto
<1>6. CASE Return(p)
  BY <1>1, <1>6 DEF Return
<1>7. CASE Take(p)
  BY <1>1, <1>7 DEF Take, Store!Take
<1> QED
  BY <1>2, <1>3, <1>4, <1>5, <1>6, <1>7 DEF Step

LEMMA SameText ==
  ASSUME scenario' = scenario
  PROVE  \A q : Text(q)' = Text(q)
BY DEF Text

LEMMA NextMachine ==
  ASSUME MachineInv, NEW p \in Programs, Step(p)
  PROVE  MachineInv'
<1>1. scenario' = scenario /\ scenario' \in Scenarios
  BY StepAlone DEF Alone, MachineInv
<1>2. \A q : Text(q)' = Text(q)
  BY <1>1, SameText
<1>3. line'[p] \in Nat /\ line'[p] <= Len(Text(p))
  BY StepLine, TakeLine DEF MachineInv
<1>4. \A q \in Programs : line'[q] \in Nat /\ line'[q] <= Len(Text(q))
  BY <1>3, StepAlone DEF Alone, MachineInv
<1>5. line' \in [Programs -> Nat]
  BY <1>4, StepShapes
<1>6. line[p] = 0 => line'[p] = 0
  BY StepLine, TakeLine
<1>7. \A q \in Programs : line[q] = 0 => line'[q] = 0
  BY <1>6, StepAlone DEF Alone
<1>8. ASSUME NEW q \in Programs, line'[q] \notin {0, 1} PROVE Started(q)'
  <2>1. Started(q)
    <3>1. CASE q = p /\ waiting[p] = Idle
      BY <3>1, StepLine
    <3>2. CASE ~(q = p /\ waiting[p] = Idle)
      <4>1. line'[q] = line[q]
        BY <3>2, StepAlone, TakeLine DEF Alone
      <4> QED
        BY <1>8, <4>1 DEF MachineInv
    <3> QED
      BY <3>1, <3>2
  <2>2. ASSUME NEW r \in First(scenario'), r # q PROVE line'[r] = 0
    <3>1. r \in Programs /\ line[r] = 0
      BY <1>1, <2>1, <2>2, MachineAssumption DEF Started
    <3> QED
      BY <1>7, <3>1
  <2> QED
    BY <2>2 DEF Started
<1>9. ASSUME NEW q \in Programs, waiting'[q] # Idle PROVE \E n : WaitsAt(q, n)'
  <2>1. CASE q = p /\ waiting[p] = Idle
    <3> PICK n : n = line[p]
      OBVIOUS
    <3>1. /\ n \in DOMAIN Text(p) /\ Text(p)[n].op = "DOWN"
          /\ waiting'[p] = <<Text(p)[n].src[1], Value(p, Text(p)[n].idx)>>
          /\ line'[p] = Follow(p, n)
      BY <1>9, <2>1, StepLine DEF Here, Branches
    <3>2. Value(p, "0") = 0
      BY NamesAssumption DEF Value
    <3>3. line'[p] = IF n + 1 > Len(Text(p)) THEN 0 ELSE n + 1
      BY <3>1 DEF Follow
    <3>4. WaitsAt(p, n)'
      BY <1>2, <3>1, <3>2, <3>3 DEF WaitsAt, Follow
    <3> QED
      BY <2>1, <3>4
  <2>2. CASE q # p
    <3>1. waiting'[q] = waiting[q] /\ line'[q] = line[q]
      BY <2>2, StepAlone DEF Alone
    <3>2. PICK n : WaitsAt(q, n)
      BY <1>9, <3>1 DEF MachineInv
    <3>3. WaitsAt(q, n)'
      BY <1>2, <3>1, <3>2 DEF WaitsAt, Follow
    <3> QED
      BY <3>3
  <2>3. CASE q = p /\ waiting[p] # Idle
    BY <1>9, <2>3, TakeLine
  <2> QED
    BY <2>1, <2>2, <2>3
<1> QED
  BY <1>1, <1>2, <1>4, <1>5, <1>8, <1>9, StepShapes DEF MachineInv

-----------------------------------------------------------------------------
(***************************************************************************)
(* The instructions.                                                       *)
(***************************************************************************)
Is(l, m) == l.op = m.op /\ l.dst = m.dst /\ l.src = m.src /\ l.idx = m.idx

\* the program p executes the line m
Does(p, m) == waiting[p] = Idle /\ Is(Here(p), m)

Keeps == \A k \in Keys : G(k)' = G(k)
Puts(k, v) == G(k)' = v /\ \A j \in Keys \ {k} : G(j)' = G(j)
Own(p) == vartable'[p] = vartable[p]
Binds(p, x, v) == vartable'[p][x] = v /\ \A y \in Locals \ {x} : vartable'[p][y] = vartable[p][y]

LEMMA Operand ==
  ASSUME NEW p
  PROVE  /\ Value(p, "0") = 0 /\ Value(p, "1") = 1
         /\ \A x \in Locals : Value(p, x) = vartable[p][x]
<1>1. \A x \in Locals : x \notin DOMAIN Literals
  BY MachineAssumption
<1> QED
  BY <1>1, NamesAssumption DEF Value

LEMMA SameGlobals ==
  ASSUME value' = value
  PROVE  Keeps
BY DEF Keeps, G

LEMMA PutGlobal ==
  ASSUME MachineInv, NEW k \in Keys, NEW v, value' = [value EXCEPT ![<<k, 0>>] = v]
  PROVE  Puts(k, v)
<1>1. \A j \in Keys : <<j, 0>> \in DOMAIN value
  BY NamesAssumption DEF MachineInv
<1>2. \A j \in Keys \ {k} : <<j, 0>> # <<k, 0>>
  OBVIOUS
<1> QED
  BY <1>1, <1>2 DEF Puts, G

LEMMA BindLocal ==
  ASSUME MachineInv, NEW p \in Programs, NEW x \in Locals, NEW v,
         vartable' = [vartable EXCEPT ![p][x] = v]
  PROVE  Binds(p, x, v)
BY DEF MachineInv, Binds

\* An instruction on a global, with the element it is about.
LEMMA OnElement ==
  ASSUME NEW p \in Programs, Step(p), waiting[p] = Idle, Here(p).op \in OnGlobals
  PROVE  \E o : /\ o.name = Here(p).op
                /\ Store!ElementOf(o) = <<Here(p).src[1], Value(p, Here(p).idx)>>
                /\ o.val = IF Here(p).op = "STORE" THEN Value(p, Here(p).src[2]) ELSE 0
                /\ Store!Effect(p, o)
                /\ vartable' = IF Here(p).op = "LOAD"
                               THEN [vartable EXCEPT ![p][Here(p).dst] = result'[p]] ELSE vartable
<1>1. Global(p)
  BY DEF Step, Take, Store!Take, Compute, Branch, Show, Return, OnGlobals, Arithmetic, Branches
<1> DEFINE o == [name |-> Here(p).op, key |-> Here(p).src[1], idx |-> Value(p, Here(p).idx),
                 val |-> IF Here(p).op = "STORE" THEN Value(p, Here(p).src[2]) ELSE 0]
<1>2. Store!ElementOf(o) = <<Here(p).src[1], Value(p, Here(p).idx)>>
  BY DEF Store!ElementOf
<1>3. /\ Store!Effect(p, o)
      /\ vartable' = IF Here(p).op = "LOAD"
                     THEN [vartable EXCEPT ![p][Here(p).dst] = result'[p]] ELSE vartable
  BY <1>1 DEF Global, Index
<1>4. o.name = Here(p).op /\ o.val = IF Here(p).op = "STORE" THEN Value(p, Here(p).src[2]) ELSE 0
  OBVIOUS
<1> HIDE DEF o
<1> QED
  BY <1>2, <1>3, <1>4

LEMMA OnGlobal ==
  ASSUME NEW p \in Programs, Step(p), waiting[p] = Idle, Here(p).op \in OnGlobals, Here(p).idx = "0"
  PROVE  \E o : /\ o.name = Here(p).op /\ Store!ElementOf(o) = <<Here(p).src[1], 0>>
                /\ o.val = IF Here(p).op = "STORE" THEN Value(p, Here(p).src[2]) ELSE 0
                /\ Store!Effect(p, o)
                /\ vartable' = IF Here(p).op = "LOAD"
                               THEN [vartable EXCEPT ![p][Here(p).dst] = result'[p]] ELSE vartable
<1>1. Value(p, Here(p).idx) = 0
  BY Operand
<1> QED
  BY <1>1, OnElement

LEMMA Loads ==
  ASSUME MachineInv, NEW p \in Programs, Step(p), NEW x \in Locals, NEW k \in Keys,
         Does(p, LOAD(x, k))
  PROVE  /\ line'[p] = Follow(p, line[p]) /\ waiting'[p] = Idle
         /\ Keeps /\ Binds(p, x, G(k))
<1>1. /\ waiting[p] = Idle /\ Here(p).op = "LOAD" /\ Here(p).dst = x /\ Here(p).src[1] = k
      /\ Here(p).idx = "0"
  BY DEF Does, Is, LOAD, Line
<1>2. PICK o : /\ o.name = Here(p).op /\ Store!ElementOf(o) = <<Here(p).src[1], 0>>
               /\ Store!Effect(p, o)
               /\ vartable' = IF Here(p).op = "LOAD"
                              THEN [vartable EXCEPT ![p][Here(p).dst] = result'[p]] ELSE vartable
  BY <1>1, OnGlobal DEF OnGlobals
<1>3. result'[p] = G(k) /\ value' = value
  BY <1>1, <1>2 DEF Store!Effect, MachineInv, G
<1>4. vartable' = [vartable EXCEPT ![p][x] = G(k)]
  BY <1>1, <1>2, <1>3
<1>5. line'[p] = Follow(p, line[p]) /\ waiting'[p] = Idle
  BY <1>1, StepLine DEF Branches
<1> QED
  BY <1>3, <1>4, <1>5, SameGlobals, BindLocal

LEMMA Stores ==
  ASSUME MachineInv, NEW p \in Programs, Step(p), NEW x, NEW k \in Keys, Does(p, STORE(k, x))
  PROVE  /\ line'[p] = Follow(p, line[p]) /\ waiting'[p] = Idle
         /\ Puts(k, Value(p, x)) /\ Own(p)
<1>1. /\ waiting[p] = Idle /\ Here(p).op = "STORE" /\ Here(p).src[1] = k /\ Here(p).src[2] = x
      /\ Here(p).idx = "0"
  <2>1. STORE(k, x).op = "STORE" /\ STORE(k, x).src = <<k, x>> /\ STORE(k, x).idx = "0"
    BY DEF STORE, Line
  <2> QED
    BY <2>1 DEF Does, Is
<1>2. PICK o : /\ o.name = Here(p).op /\ Store!ElementOf(o) = <<Here(p).src[1], 0>>
               /\ o.val = IF Here(p).op = "STORE" THEN Value(p, Here(p).src[2]) ELSE 0
               /\ Store!Effect(p, o)
               /\ vartable' = IF Here(p).op = "LOAD"
                              THEN [vartable EXCEPT ![p][Here(p).dst] = result'[p]] ELSE vartable
  BY <1>1, OnGlobal DEF OnGlobals
<1>3. value' = [value EXCEPT ![<<k, 0>>] = Value(p, x)] /\ vartable' = vartable
  BY <1>1, <1>2 DEF Store!Effect
<1>4. line'[p] = Follow(p, line[p]) /\ waiting'[p] = Idle
  BY <1>1, StepLine DEF Branches
<1> QED
  BY <1>3, <1>4, PutGlobal DEF Own

LEMMA Raises ==
  ASSUME MachineInv, NEW p \in Programs, Step(p), NEW k \in Keys, Does(p, UP(k))
  PROVE  /\ line'[p] = Follow(p, line[p]) /\ waiting'[p] = Idle
         /\ Puts(k, G(k) + 1) /\ Own(p)
<1>1. waiting[p] = Idle /\ Here(p).op = "UP" /\ Here(p).src[1] = k /\ Here(p).idx = "0"
  <2>1. UP(k).op = "UP" /\ UP(k).src = <<k>> /\ UP(k).idx = "0"
    BY DEF UP, Line
  <2> QED
    BY <2>1 DEF Does, Is
<1>2. PICK o : /\ o.name = Here(p).op /\ Store!ElementOf(o) = <<Here(p).src[1], 0>>
               /\ Store!Effect(p, o)
               /\ vartable' = IF Here(p).op = "LOAD"
                              THEN [vartable EXCEPT ![p][Here(p).dst] = result'[p]] ELSE vartable
  BY <1>1, OnGlobal DEF OnGlobals
<1>3. value' = [value EXCEPT ![<<k, 0>>] = G(k) + 1] /\ vartable' = vartable
  BY <1>1, <1>2 DEF Store!Effect, G
<1>4. line'[p] = Follow(p, line[p]) /\ waiting'[p] = Idle
  BY <1>1, StepLine DEF Branches
<1> QED
  BY <1>3, <1>4, PutGlobal DEF Own

LEMMA Asks ==
  ASSUME MachineInv, NEW p \in Programs, Step(p), NEW k \in Keys, Does(p, DOWN(k))
  PROVE  /\ line'[p] = Follow(p, line[p]) /\ waiting'[p] = <<k, 0>> /\ waiting'[p] # Idle
         /\ Keeps /\ Own(p)
<1>1. waiting[p] = Idle /\ Here(p).op = "DOWN" /\ Here(p).src[1] = k /\ Here(p).idx = "0"
  <2>1. DOWN(k).op = "DOWN" /\ DOWN(k).src = <<k>> /\ DOWN(k).idx = "0"
    BY DEF DOWN, Line
  <2> QED
    BY <2>1 DEF Does, Is
<1>2. PICK o : /\ o.name = Here(p).op /\ Store!Effect(p, o)
               /\ vartable' = IF Here(p).op = "LOAD"
                              THEN [vartable EXCEPT ![p][Here(p).dst] = result'[p]] ELSE vartable
  BY <1>1, OnGlobal DEF OnGlobals
<1>3. value' = value /\ vartable' = vartable
  BY <1>1, <1>2 DEF Store!Effect
<1>4. line'[p] = Follow(p, line[p]) /\ waiting'[p] = <<k, 0>>
  BY <1>1, StepLine, Operand DEF Branches
<1>5. <<k, 0>> # Idle
  BY MachineAssumption
<1> QED
  BY <1>3, <1>4, <1>5, SameGlobals DEF Own

LEMMA Adds ==
  ASSUME MachineInv, NEW p \in Programs, Step(p), NEW x \in Locals, NEW a, NEW b,
         Does(p, ADD(x, a, b))
  PROVE  /\ line'[p] = Follow(p, line[p]) /\ waiting'[p] = Idle
         /\ Keeps /\ Binds(p, x, Value(p, a) + Value(p, b))
<1>1. waiting[p] = Idle /\ Here(p).op = "ADD" /\ Here(p).dst = x /\ Here(p).src = <<a, b>>
  BY DEF Does, Is, ADD, Line
<1>2. Compute(p)
  BY <1>1 DEF Step, Take, Store!Take, Global, Branch, Show, Return, OnGlobals, Branches
<1>3. Apply("ADD", [i \in DOMAIN <<a, b>> |-> Value(p, <<a, b>>[i])]) = Value(p, a) + Value(p, b)
  BY DEF Apply
<1>4. /\ vartable' = [vartable EXCEPT ![p][x] = Value(p, a) + Value(p, b)]
      /\ value' = value
  BY <1>1, <1>2, <1>3 DEF Compute
<1>5. line'[p] = Follow(p, line[p]) /\ waiting'[p] = Idle
  BY <1>1, StepLine DEF Branches
<1> QED
  BY <1>4, <1>5, SameGlobals, BindLocal

LEMMA Subtracts ==
  ASSUME MachineInv, NEW p \in Programs, Step(p), NEW x \in Locals, NEW a, NEW b,
         Does(p, SUB(x, a, b))
  PROVE  /\ line'[p] = Follow(p, line[p]) /\ waiting'[p] = Idle
         /\ Keeps /\ Binds(p, x, Value(p, a) - Value(p, b))
<1>1. waiting[p] = Idle /\ Here(p).op = "SUB" /\ Here(p).dst = x /\ Here(p).src = <<a, b>>
  BY DEF Does, Is, SUB, Line
<1>2. Compute(p)
  BY <1>1 DEF Step, Take, Store!Take, Global, Branch, Show, Return, OnGlobals, Branches
<1>3. Apply("SUB", [i \in DOMAIN <<a, b>> |-> Value(p, <<a, b>>[i])]) = Value(p, a) - Value(p, b)
  BY DEF Apply
<1>4. /\ vartable' = [vartable EXCEPT ![p][x] = Value(p, a) - Value(p, b)]
      /\ value' = value
  BY <1>1, <1>2, <1>3 DEF Compute
<1>5. line'[p] = Follow(p, line[p]) /\ waiting'[p] = Idle
  BY <1>1, StepLine DEF Branches
<1> QED
  BY <1>4, <1>5, SameGlobals, BindLocal

LEMMA Sets ==
  ASSUME MachineInv, NEW p \in Programs, Step(p), NEW x \in Locals, NEW a, Does(p, SET(x, a))
  PROVE  /\ line'[p] = Follow(p, line[p]) /\ waiting'[p] = Idle
         /\ Keeps /\ Binds(p, x, Value(p, a))
<1>1. waiting[p] = Idle /\ Here(p).op = "SET" /\ Here(p).dst = x /\ Here(p).src = <<a>>
  BY DEF Does, Is, SET, Line
<1>2. Compute(p)
  BY <1>1 DEF Step, Take, Store!Take, Global, Branch, Show, Return, OnGlobals, Branches
<1>3. Apply("SET", [i \in DOMAIN <<a>> |-> Value(p, <<a>>[i])]) = Value(p, a)
  BY DEF Apply
<1>4. /\ vartable' = [vartable EXCEPT ![p][x] = Value(p, a)]
      /\ value' = value
  BY <1>1, <1>2, <1>3 DEF Compute
<1>5. line'[p] = Follow(p, line[p]) /\ waiting'[p] = Idle
  BY <1>1, StepLine DEF Branches
<1> QED
  BY <1>4, <1>5, SameGlobals, BindLocal

LEMMA Modulo ==
  ASSUME MachineInv, NEW p \in Programs, Step(p), NEW x \in Locals, NEW a, NEW b,
         Does(p, MOD(x, a, b))
  PROVE  /\ line'[p] = Follow(p, line[p]) /\ waiting'[p] = Idle
         /\ Keeps /\ Binds(p, x, Value(p, a) % Value(p, b))
<1>1. waiting[p] = Idle /\ Here(p).op = "MOD" /\ Here(p).dst = x /\ Here(p).src = <<a, b>>
  BY DEF Does, Is, MOD, Line
<1>2. Compute(p)
  BY <1>1 DEF Step, Take, Store!Take, Global, Branch, Show, Return, OnGlobals, Branches
<1>3. Apply("MOD", [i \in DOMAIN <<a, b>> |-> Value(p, <<a, b>>[i])]) = Value(p, a) % Value(p, b)
  BY DEF Apply
<1>4. /\ vartable' = [vartable EXCEPT ![p][x] = Value(p, a) % Value(p, b)]
      /\ value' = value
  BY <1>1, <1>2, <1>3 DEF Compute
<1>5. line'[p] = Follow(p, line[p]) /\ waiting'[p] = Idle
  BY <1>1, StepLine DEF Branches
<1> QED
  BY <1>4, <1>5, SameGlobals, BindLocal

LEMMA LoadsAt ==
  ASSUME MachineInv, NEW p \in Programs, Step(p), NEW x \in Locals, NEW k \in Keys, NEW y \in Locals,
         Does(p, LOADAT(x, k, y))
  PROVE  /\ line'[p] = Follow(p, line[p]) /\ waiting'[p] = Idle
         /\ Keeps /\ Binds(p, x, value[<<k, vartable[p][y]>>])
<1>1. /\ waiting[p] = Idle /\ Here(p).op = "LOAD" /\ Here(p).dst = x /\ Here(p).src[1] = k
      /\ Here(p).idx = y
  BY DEF Does, Is, LOADAT, Line
<1>2. PICK o : /\ o.name = Here(p).op
               /\ Store!ElementOf(o) = <<Here(p).src[1], Value(p, Here(p).idx)>>
               /\ Store!Effect(p, o)
               /\ vartable' = IF Here(p).op = "LOAD"
                              THEN [vartable EXCEPT ![p][Here(p).dst] = result'[p]] ELSE vartable
  BY <1>1, OnElement DEF OnGlobals
<1>3. Store!ElementOf(o) = <<k, vartable[p][y]>>
  BY <1>1, <1>2, Operand
<1>4. result'[p] = value[<<k, vartable[p][y]>>] /\ value' = value
  BY <1>1, <1>2, <1>3 DEF Store!Effect, MachineInv
<1>5. vartable' = [vartable EXCEPT ![p][x] = value[<<k, vartable[p][y]>>]]
  BY <1>1, <1>2, <1>4
<1>6. line'[p] = Follow(p, line[p]) /\ waiting'[p] = Idle
  BY <1>1, StepLine DEF Branches
<1> QED
  BY <1>4, <1>5, <1>6, SameGlobals, BindLocal

LEMMA StoresAt ==
  ASSUME MachineInv, NEW p \in Programs, Step(p), NEW x, NEW k \in Keys, NEW y \in Locals,
         Does(p, STOREAT(k, y, x)), vartable[p][y] \in Indices
  PROVE  /\ line'[p] = Follow(p, line[p]) /\ waiting'[p] = Idle /\ Own(p)
         /\ \A j \in Indices :
              value'[<<k, j>>] = IF j = vartable[p][y] THEN Value(p, x) ELSE value[<<k, j>>]
         /\ \A j \in Keys \ {k} : G(j)' = G(j)
<1>1. /\ waiting[p] = Idle /\ Here(p).op = "STORE" /\ Here(p).src[1] = k /\ Here(p).src[2] = x
      /\ Here(p).idx = y
  <2>1. STOREAT(k, y, x).op = "STORE" /\ STOREAT(k, y, x).src = <<k, x>> /\ STOREAT(k, y, x).idx = y
    BY DEF STOREAT, Line
  <2> QED
    BY <2>1 DEF Does, Is
<1>2. PICK o : /\ o.name = Here(p).op
               /\ Store!ElementOf(o) = <<Here(p).src[1], Value(p, Here(p).idx)>>
               /\ o.val = IF Here(p).op = "STORE" THEN Value(p, Here(p).src[2]) ELSE 0
               /\ Store!Effect(p, o)
               /\ vartable' = IF Here(p).op = "LOAD"
                              THEN [vartable EXCEPT ![p][Here(p).dst] = result'[p]] ELSE vartable
  BY <1>1, OnElement DEF OnGlobals
<1>3. Store!ElementOf(o) = <<k, vartable[p][y]>>
  BY <1>1, <1>2, Operand
<1>4. value' = [value EXCEPT ![<<k, vartable[p][y]>>] = Value(p, x)] /\ vartable' = vartable
  BY <1>1, <1>2, <1>3 DEF Store!Effect
<1>5. \A j \in Indices :
        value'[<<k, j>>] = IF j = vartable[p][y] THEN Value(p, x) ELSE value[<<k, j>>]
  <2> SUFFICES ASSUME NEW j \in Indices
               PROVE  value'[<<k, j>>] = IF j = vartable[p][y] THEN Value(p, x) ELSE value[<<k, j>>]
    OBVIOUS
  <2>1. <<k, j>> \in DOMAIN value
    BY DEF MachineInv
  <2>2. <<k, j>> = <<k, vartable[p][y]>> <=> j = vartable[p][y]
    OBVIOUS
  <2> QED
    BY <1>4, <2>1, <2>2
<1>6. \A j \in Keys \ {k} : G(j)' = G(j)
  <2>1. \A j \in Keys \ {k} : <<j, 0>> \in DOMAIN value /\ <<j, 0>> # <<k, vartable[p][y]>>
    BY NamesAssumption DEF MachineInv
  <2> QED
    BY <1>4, <2>1 DEF G
<1>7. line'[p] = Follow(p, line[p]) /\ waiting'[p] = Idle
  BY <1>1, StepLine DEF Branches
<1> QED
  BY <1>4, <1>5, <1>6, <1>7 DEF Own

\* A step that is not about a global leaves all its elements alone.
LEMMA KeepsElements ==
  ASSUME MachineInv, NEW p \in Programs, Step(p), NEW k \in Keys,
         waiting[p] # Idle => \E g : g # k /\ waiting[p] = <<g, 0>>,
         waiting[p] = Idle /\ Here(p).op \in {"STORE", "UP"} => Here(p).src[1] # k
  PROVE  \A j \in Indices : value'[<<k, j>>] = value[<<k, j>>]
<1> SUFFICES ASSUME NEW j \in Indices PROVE value'[<<k, j>>] = value[<<k, j>>]
  OBVIOUS
<1>1. <<k, j>> \in DOMAIN value
  BY DEF MachineInv
<1>2. CASE waiting[p] # Idle
  <2>1. <<k, j>> # waiting[p]
    BY <1>2
  <2> QED
    BY <1>1, <1>2, <2>1, TakeLine
<1>3. CASE waiting[p] = Idle /\ Here(p).op \in OnGlobals
  <2>1. PICK o : /\ o.name = Here(p).op
                 /\ Store!ElementOf(o) = <<Here(p).src[1], Value(p, Here(p).idx)>>
                 /\ Store!Effect(p, o)
    BY <1>3, OnElement
  <2>2. Here(p).op \in {"STORE", "UP"} => <<k, j>> # Store!ElementOf(o)
    BY <1>3, <2>1
  <2> QED
    BY <1>1, <2>1, <2>2 DEF Store!Effect
<1>4. CASE waiting[p] = Idle /\ Here(p).op \notin OnGlobals
  BY <1>4 DEF Step, Take, Store!Take, Global, Compute, Branch, Show, Return
<1> QED
  BY <1>2, <1>3, <1>4

\* n is the one line of the text with the label
Labels(t, label, n) == n \in DOMAIN t /\ \A m \in DOMAIN t : t[m].label = label => m = n

\* A branch is taken or not; it changes nothing but the line.
LEMMA Branching ==
  ASSUME MachineInv, NEW p \in Programs, Step(p), waiting[p] = Idle, Here(p).op \in Branches,
         NEW n, Labels(Text(p), Here(p).dst, n)
  PROVE  /\ waiting'[p] = Idle /\ Keeps /\ Own(p)
         /\ line'[p] = IF Holds(Here(p).op, [i \in DOMAIN Here(p).src |-> Value(p, Here(p).src[i])])
                       THEN n ELSE Follow(p, line[p])
<1> DEFINE holds == Holds(Here(p).op, [i \in DOMAIN Here(p).src |-> Value(p, Here(p).src[i])])
<1>1. Branch(p)
  BY DEF Step, Take, Store!Take, Global, Compute, Show, Return, OnGlobals, Branches, Arithmetic
<1>2. value' = value /\ vartable' = vartable /\ waiting'[p] = Idle
  BY <1>1 DEF Branch
<1>3. line[p] \in DOMAIN Text(p) /\ p \in DOMAIN line
  BY StepLine DEF MachineInv
<1>4. LineOf(p, Here(p).dst) = n
  <2>1. PICK m \in DOMAIN Text(p) : Text(p)[m].label = Here(p).dst
    <3>1. \A i \in DOMAIN Text(p) : Text(p)[i].op \in Branches =>
            \E m \in DOMAIN Text(p) : Text(p)[m].label = Text(p)[i].dst
      BY MachineAssumption DEF MachineInv, Text
    <3> QED
      BY <1>3, <3>1 DEF Here
  <2>2. LineOf(p, Here(p).dst) \in DOMAIN Text(p)
        /\ Text(p)[LineOf(p, Here(p).dst)].label = Here(p).dst
    BY <2>1 DEF LineOf
  <2> QED
    BY <2>2 DEF Labels
<1>5. Jump(p) = IF holds THEN n ELSE line[p] + 1
  BY <1>4 DEF Jump
<1>6. n \in 1 .. Len(Text(p)) /\ Len(Text(p)) \in Nat
  BY TextTyped DEF Labels
<1> HIDE DEF holds
<1>7. line'[p] = IF Jump(p) > Len(Text(p)) THEN 0 ELSE Jump(p)
  BY <1>1, <1>3 DEF Branch, Goto
<1>8. holds => line'[p] = n
  BY <1>5, <1>6, <1>7
<1>9. ~holds => line'[p] = Follow(p, line[p])
  BY <1>5, <1>7 DEF Follow
<1> QED
  BY <1>2, <1>8, <1>9, SameGlobals DEF Own, holds

LEMMA Always ==
  ASSUME MachineInv, NEW p \in Programs, Step(p), NEW lb, NEW n,
         Does(p, BRA(lb)), Labels(Text(p), lb, n)
  PROVE  waiting'[p] = Idle /\ Keeps /\ Own(p) /\ line'[p] = n
<1>1. waiting[p] = Idle /\ Here(p).op = "BRA" /\ Here(p).dst = lb
  BY DEF Does, Is, BRA, Line
<1> QED
  BY <1>1, Branching DEF Branches, Holds

LEMMA IfEqual ==
  ASSUME MachineInv, NEW p \in Programs, Step(p), NEW a, NEW b, NEW lb, NEW n,
         Does(p, BREQ(a, b, lb)), Labels(Text(p), lb, n)
  PROVE  /\ waiting'[p] = Idle /\ Keeps /\ Own(p)
         /\ line'[p] = IF Value(p, a) = Value(p, b) THEN n ELSE Follow(p, line[p])
<1>1. waiting[p] = Idle /\ Here(p).op = "BREQ" /\ Here(p).dst = lb /\ Here(p).src = <<a, b>>
  BY DEF Does, Is, BREQ, Line
<1>2. Holds("BREQ", [i \in DOMAIN <<a, b>> |-> Value(p, <<a, b>>[i])]) <=> Value(p, a) = Value(p, b)
  BY DEF Holds
<1> QED
  BY <1>1, <1>2, Branching DEF Branches

LEMMA IfGreater ==
  ASSUME MachineInv, NEW p \in Programs, Step(p), NEW a, NEW b, NEW lb, NEW n,
         Does(p, BRGT(a, b, lb)), Labels(Text(p), lb, n)
  PROVE  /\ waiting'[p] = Idle /\ Keeps /\ Own(p)
         /\ line'[p] = IF Value(p, a) > Value(p, b) THEN n ELSE Follow(p, line[p])
<1>1. waiting[p] = Idle /\ Here(p).op = "BRGT" /\ Here(p).dst = lb /\ Here(p).src = <<a, b>>
  BY DEF Does, Is, BRGT, Line
<1>2. Holds("BRGT", [i \in DOMAIN <<a, b>> |-> Value(p, <<a, b>>[i])]) <=> Value(p, a) > Value(p, b)
  BY DEF Holds
<1> QED
  BY <1>1, <1>2, Branching DEF Branches

LEMMA IfNotLess ==
  ASSUME MachineInv, NEW p \in Programs, Step(p), NEW a, NEW b, NEW lb, NEW n,
         Does(p, BRGE(a, b, lb)), Labels(Text(p), lb, n)
  PROVE  /\ waiting'[p] = Idle /\ Keeps /\ Own(p)
         /\ line'[p] = IF Value(p, a) >= Value(p, b) THEN n ELSE Follow(p, line[p])
<1>1. waiting[p] = Idle /\ Here(p).op = "BRGE" /\ Here(p).dst = lb /\ Here(p).src = <<a, b>>
  BY DEF Does, Is, BRGE, Line
<1>2. Holds("BRGE", [i \in DOMAIN <<a, b>> |-> Value(p, <<a, b>>[i])]) <=> Value(p, a) >= Value(p, b)
  BY DEF Holds
<1> QED
  BY <1>1, <1>2, Branching DEF Branches

LEMMA IfNotGreater ==
  ASSUME MachineInv, NEW p \in Programs, Step(p), NEW a, NEW b, NEW lb, NEW n,
         Does(p, BRLE(a, b, lb)), Labels(Text(p), lb, n)
  PROVE  /\ waiting'[p] = Idle /\ Keeps /\ Own(p)
         /\ line'[p] = IF Value(p, a) <= Value(p, b) THEN n ELSE Follow(p, line[p])
<1>1. waiting[p] = Idle /\ Here(p).op = "BRLE" /\ Here(p).dst = lb /\ Here(p).src = <<a, b>>
  BY DEF Does, Is, BRLE, Line
<1>2. Holds("BRLE", [i \in DOMAIN <<a, b>> |-> Value(p, <<a, b>>[i])]) <=> Value(p, a) <= Value(p, b)
  BY DEF Holds
<1> QED
  BY <1>1, <1>2, Branching DEF Branches

LEMMA Shows ==
  ASSUME MachineInv, NEW p \in Programs, Step(p), Does(p, SAY) \/ Does(p, SLEEP)
  PROVE  line'[p] = Follow(p, line[p]) /\ waiting'[p] = Idle /\ Keeps /\ Own(p)
<1>1. waiting[p] = Idle /\ Here(p).op \in {"PRINT", "SLEEP"}
  BY DEF Does, Is, SAY, SLEEP, Line
<1>2. Show(p)
  BY <1>1 DEF Step, Take, Store!Take, Global, Compute, Branch, Return, OnGlobals, Branches, Arithmetic
<1>3. value' = value /\ vartable' = vartable
  BY <1>2 DEF Show
<1> QED
  BY <1>1, <1>3, StepLine, SameGlobals DEF Branches, Own

LEMMA Returns ==
  ASSUME MachineInv, NEW p \in Programs, Step(p), Does(p, RETURN)
  PROVE  line'[p] = 0 /\ waiting'[p] = Idle /\ Keeps /\ Own(p)
<1>1. waiting[p] = Idle /\ Here(p).op = "RETURN"
  BY DEF Does, Is, RETURN, Line
<1>2. Return(p)
  BY <1>1 DEF Step, Take, Store!Take, Global, Compute, Branch, Show, OnGlobals, Branches, Arithmetic
<1>3. value' = value /\ vartable' = vartable /\ line'[p] = 0
  BY <1>2 DEF Return, MachineInv
<1> QED
  BY <1>1, <1>3, StepLine, SameGlobals DEF Own

LEMMA Takes ==
  ASSUME MachineInv, NEW p \in Programs, Step(p), NEW k \in Keys, waiting[p] = <<k, 0>>
  PROVE  /\ line'[p] = line[p] /\ waiting'[p] = Idle /\ Own(p)
         /\ G(k) > 0 /\ Puts(k, G(k) - 1)
<1>1. waiting[p] # Idle
  BY MachineAssumption
<1>2. /\ G(k) > 0 /\ value' = [value EXCEPT ![<<k, 0>>] = G(k) - 1]
      /\ waiting'[p] = Idle /\ line' = line /\ vartable' = vartable
  BY <1>1, TakeLine DEF G
<1> QED
  BY <1>2, PutGlobal DEF Own

\* A program whose text leaves globals alone leaves their values alone.
LEMMA ElementsElsewhere ==
  ASSUME MachineInv, NEW p \in Programs, Step(p), NEW ks \in SUBSET Keys, LeavesAlone(Text(p), ks)
  PROVE  \A k \in ks, j \in Indices : value'[<<k, j>>] = value[<<k, j>>]
<1> SUFFICES ASSUME NEW k \in ks, NEW j \in Indices PROVE value'[<<k, j>>] = value[<<k, j>>]
  OBVIOUS
<1>1. <<k, j>> \in DOMAIN value
  BY DEF MachineInv
<1>2. CASE waiting[p] # Idle
  <2>1. PICK n : WaitsAt(p, n)
    BY <1>2 DEF MachineInv
  <2>2. PICK i : waiting[p] = <<Text(p)[n].src[1], i>>
    BY <2>1 DEF WaitsAt
  <2>3. Text(p)[n].src[1] \notin ks
    BY <2>1 DEF WaitsAt, LeavesAlone, OnGlobals
  <2>4. <<k, j>> # waiting[p]
    BY <2>2, <2>3
  <2> QED
    BY <1>1, <1>2, <2>4, TakeLine
<1>3. CASE waiting[p] = Idle
  <2>1. ~Take(p)
    BY <1>3 DEF Take, Store!Take
  <2>2. CASE Global(p)
    <3> DEFINE o == [name |-> Here(p).op, key |-> Here(p).src[1], idx |-> Value(p, Here(p).idx),
                     val |-> IF Here(p).op = "STORE" THEN Value(p, Here(p).src[2]) ELSE 0]
    <3>1. Store!Effect(p, o) /\ Here(p).op \in OnGlobals
      BY <2>2 DEF Global, Index
    <3>2. Here(p).src[1] \notin ks
      BY <1>3, <3>1, StepLine DEF LeavesAlone, Here
    <3>3. <<k, j>> # Store!ElementOf(o)
      BY <3>2 DEF Store!ElementOf
    <3> HIDE DEF o
    <3> QED
      BY <1>1, <3>1, <3>3 DEF Store!Effect
  <2>3. CASE ~Global(p)
    BY <2>1, <2>3 DEF Step, Compute, Branch, Show, Return
  <2> QED
    BY <2>2, <2>3
<1> QED
  BY <1>2, <1>3

LEMMA Elsewhere ==
  ASSUME MachineInv, NEW p \in Programs, Step(p), NEW ks \in SUBSET Keys, LeavesAlone(Text(p), ks)
  PROVE  \A k \in ks : G(k)' = G(k)
BY ElementsElsewhere, NamesAssumption DEF G

-----------------------------------------------------------------------------
(***************************************************************************)
(* The rendezvous.  Each program waits for a token that only the other     *)
(* one raises, behind its first line.                                      *)
(***************************************************************************)
Meets(a, b) == <<SAY, UP(b), DOWN(a), SAY>>

LEMMA MeetsWaits ==
  ASSUME MachineInv, NEW p \in Programs, NEW a, NEW b, Text(p) = Meets(a, b), waiting[p] # Idle
  PROVE  line[p] = 4 /\ waiting[p] = <<a, 0>>
<1>1. PICK n : WaitsAt(p, n)
  BY DEF MachineInv
<1>2. Len(Meets(a, b)) = 4 /\ DOMAIN Meets(a, b) = 1 .. 4
  BY DEF Meets
<1>3. /\ Meets(a, b)[1] = SAY /\ Meets(a, b)[2] = UP(b)
      /\ Meets(a, b)[3] = DOWN(a) /\ Meets(a, b)[4] = SAY
  BY DEF Meets
<1>4. SAY.op = "PRINT" /\ UP(b).op = "UP"
  BY DEF SAY, UP, Line
<1>5. DOWN(a).src = <<a>> /\ DOWN(a).idx = "0"
  BY DEF DOWN, Line
<1>6. n = 3
  BY <1>1, <1>2, <1>3, <1>4 DEF WaitsAt
<1> QED
  BY <1>1, <1>2, <1>3, <1>5, <1>6 DEF WaitsAt, Follow

LEMMA MeetsMoves ==
  ASSUME MachineInv, NEW p \in Programs, NEW a \in Keys, NEW b \in Keys,
         Text(p) = Meets(a, b), Step(p), waiting[p] = Idle
  PROVE  \/ /\ line[p] = 1 /\ line'[p] = 2 /\ waiting'[p] = Idle /\ Keeps
         \/ /\ line[p] = 2 /\ line'[p] = 3 /\ waiting'[p] = Idle /\ Puts(b, G(b) + 1)
         \/ /\ line[p] = 3 /\ line'[p] = 4 /\ waiting'[p] # Idle /\ Keeps
         \/ /\ line[p] = 4 /\ line'[p] = 0 /\ waiting'[p] = Idle /\ Keeps
<1>1. Len(Text(p)) = 4 /\ DOMAIN Text(p) = 1 .. 4
  BY DEF Meets
<1>2. line[p] \in 1 .. 4
  BY <1>1, StepLine
<1>3. /\ Text(p)[1] = SAY /\ Text(p)[2] = UP(b) /\ Text(p)[3] = DOWN(a) /\ Text(p)[4] = SAY
  BY DEF Meets
<1>4. \A m : Is(m, m)
  BY DEF Is
<1>5. CASE line[p] = 1
  <2>1. Does(p, SAY) /\ Follow(p, 1) = 2
    BY <1>1, <1>3, <1>4, <1>5 DEF Does, Here, Follow
  <2> QED
    BY <1>5, <2>1, Shows
<1>6. CASE line[p] = 2
  <2>1. Does(p, UP(b)) /\ Follow(p, 2) = 3
    BY <1>1, <1>3, <1>4, <1>6 DEF Does, Here, Follow
  <2> QED
    BY <1>6, <2>1, Raises
<1>7. CASE line[p] = 3
  <2>1. Does(p, DOWN(a)) /\ Follow(p, 3) = 4
    BY <1>1, <1>3, <1>4, <1>7 DEF Does, Here, Follow
  <2> QED
    BY <1>7, <2>1, Asks
<1>8. CASE line[p] = 4
  <2>1. Does(p, SAY) /\ Follow(p, 4) = 0
    BY <1>1, <1>3, <1>4, <1>8 DEF Does, Here, Follow
  <2> QED
    BY <1>8, <2>1, Shows
<1> QED
  BY <1>2, <1>5, <1>6, <1>7, <1>8

\* p waits for the token a that q raises
MeetInv(p, q, a) ==
  /\ G(a) \in Nat
  /\ line[q] \in {1, 2} => G(a) = 0 /\ ~(line[p] \in {4, 0} /\ waiting[p] = Idle)

LEMMA NextMeet ==
  ASSUME MachineInv, NEW p \in Programs, NEW q \in Programs, p # q,
         NEW a \in Keys, NEW b \in Keys, a # b, Text(p) = Meets(a, b), Text(q) = Meets(b, a),
         MeetInv(p, q, a), NEW r \in Programs, Step(r), r \notin {p, q} => G(a)' = G(a)
  PROVE  MeetInv(p, q, a)'
<1>1. CASE r \notin {p, q}
  BY <1>1, StepAlone DEF Alone, MeetInv
<1>2. CASE r = p
  <2>1. line'[q] = line[q]
    BY <1>2, StepAlone DEF Alone
  <2>2. CASE waiting[p] = Idle
    <3>1. G(a)' = G(a)
      BY <1>2, <2>2, MeetsMoves DEF Keeps, Puts
    <3>2. line'[p] \in {4, 0} /\ waiting'[p] = Idle => line[p] = 4
      BY <1>2, <2>2, MeetsMoves
    <3> QED
      BY <2>1, <2>2, <3>1, <3>2 DEF MeetInv
  <2>3. CASE waiting[p] # Idle
    <3>1. G(a) > 0 /\ G(a)' = G(a) - 1
      BY <1>2, <2>3, MeetsWaits, Takes DEF Puts
    <3> QED
      BY <2>1, <3>1 DEF MeetInv
  <2> QED
    BY <2>2, <2>3
<1>3. CASE r = q
  <2>1. line'[p] = line[p] /\ waiting'[p] = waiting[p]
    BY <1>3, StepAlone DEF Alone
  <2>2. CASE waiting[q] = Idle
    <3>1. \/ G(a)' = G(a) /\ (line'[q] \in {1, 2} => line[q] \in {1, 2})
          \/ G(a)' = G(a) + 1 /\ line'[q] = 3
      BY <1>3, <2>2, MeetsMoves DEF Keeps, Puts
    <3> QED
      BY <2>1, <3>1 DEF MeetInv
  <2>3. CASE waiting[q] # Idle
    <3>1. G(a)' = G(a) /\ line'[q] = line[q]
      BY <1>3, <2>3, MeetsWaits, Takes DEF Puts
    <3> QED
      BY <2>1, <3>1 DEF MeetInv
  <2> QED
    BY <2>2, <2>3
<1> QED
  BY <1>1, <1>2, <1>3

RendezvousInv ==
  \A p \in Users(Rend1), q \in Users(Rend2) : MeetInv(p, q, "SEMA") /\ MeetInv(q, p, "SEMB")

LEMMA RendTexts ==
  Rend1 = Meets("SEMA", "SEMB") /\ Rend2 = Meets("SEMB", "SEMA") /\ Rend1 # Rend2
  /\ Len(Rend1) = 4 /\ Len(Rend2) = 4
<1>1. Rend1 = Meets("SEMA", "SEMB") /\ Rend2 = Meets("SEMB", "SEMA")
  BY DEF Rend1, Rend2, Meets
<1>2. Rend1[2] = UP("SEMB") /\ Rend2[2] = UP("SEMA")
  BY DEF Rend1, Rend2
<1>3. UP("SEMB").src = <<"SEMB">> /\ UP("SEMA").src = <<"SEMA">>
  BY DEF UP, Line
<1>4. <<"SEMB">>[1] # <<"SEMA">>[1]
  OBVIOUS
<1>5. UP("SEMB").src # UP("SEMA").src
  BY <1>3, <1>4
<1>6. Len(Rend1) = 4 /\ Len(Rend2) = 4
  BY DEF Rend1, Rend2
<1> QED
  BY <1>1, <1>2, <1>5, <1>6

LEMMA SameUsers ==
  ASSUME scenario' = scenario
  PROVE  \A t : Users(t)' = Users(t)
BY SameText DEF Users, Executing

LEMMA InitGlobals ==
  ASSUME Init
  PROVE  /\ \A k \in Keys : G(k) = 0
         /\ \A p \in Programs : waiting[p] = Idle /\ (Len(Text(p)) > 0 => line[p] = 1)
         /\ \A p \in Programs : line[p] \in {0, 1}
<1>1. \A k \in Keys : <<k, 0>> \in Store!Elements
  BY ElementsAre, NamesAssumption
<1>2. \A k \in Keys : G(k) = 0
  BY <1>1 DEF Init, G
<1>3. Len(<<>>) = 0
  OBVIOUS
<1>4. \A p \in Programs : Len(Text(p)) > 0 => Text(p) # <<>>
  BY <1>3
<1> QED
  BY <1>2, <1>4 DEF Init

LEMMA InitRendezvous == Init => RendezvousInv
<1> SUFFICES ASSUME Init, NEW p \in Users(Rend1), NEW q \in Users(Rend2)
             PROVE  MeetInv(p, q, "SEMA") /\ MeetInv(q, p, "SEMB")
  BY DEF RendezvousInv
<1>1. p \in Programs /\ q \in Programs /\ Text(p) = Rend1 /\ Text(q) = Rend2
  BY DEF Users, Executing
<1>2. Len(Rend1) = 4 /\ Len(Rend2) = 4
  BY RendTexts
<1>3. line[p] = 1 /\ line[q] = 1
  BY <1>1, <1>2, InitGlobals
<1>4. G("SEMA") = 0 /\ G("SEMB") = 0
  BY InitGlobals, NamesAssumption
<1> QED
  BY <1>3, <1>4 DEF MeetInv

LEMMA NextRendezvous ==
  ASSUME MachineInv, RendezvousInv, NEW r \in Programs, Step(r)
  PROVE  RendezvousInv'
<1>1. scenario' = scenario
  BY StepAlone DEF Alone
<1> SUFFICES ASSUME NEW p \in Users(Rend1), NEW q \in Users(Rend2)
             PROVE  MeetInv(p, q, "SEMA")' /\ MeetInv(q, p, "SEMB")'
  BY <1>1, SameUsers DEF RendezvousInv
<1>2. p \in Programs /\ q \in Programs /\ Text(p) = Rend1 /\ Text(q) = Rend2
  BY DEF Users, Executing
<1>3. p # q
  BY <1>2, RendTexts
<1>4. MeetInv(p, q, "SEMA") /\ MeetInv(q, p, "SEMB")
  BY DEF RendezvousInv
<1>5. "SEMA" \in Keys /\ "SEMB" \in Keys
  BY NamesAssumption
<1>6. ASSUME r \notin {p, q} PROVE G("SEMA")' = G("SEMA") /\ G("SEMB")' = G("SEMB")
  <2>1. p \in Plays(scenario, Rend1) /\ q \in Plays(scenario, Rend2)
    BY <1>2 DEF Plays, Text
  <2>2. Once(scenario, Rend1) /\ Once(scenario, Rend2)
        /\ Among(scenario, {Rend1, Rend2}, {"SEMA", "SEMB"})
    BY <2>1, CastAssumption DEF MachineInv
  <2>3. Text(r) \notin {Rend1, Rend2}
    BY <1>6, <2>1, <2>2 DEF Once, Plays, Text
  <2>4. LeavesAlone(Text(r), {"SEMA", "SEMB"})
    BY <2>2, <2>3 DEF Among, Text
  <2> QED
    BY <1>5, <2>4, Elsewhere
<1>7. MeetInv(p, q, "SEMA")'
  BY <1>2, <1>3, <1>4, <1>5, <1>6, RendTexts, NextMeet
<1>8. MeetInv(q, p, "SEMB")'
  BY <1>2, <1>3, <1>4, <1>5, <1>6, RendTexts, NextMeet
<1> QED
  BY <1>7, <1>8

LEMMA SameMachine ==
  ASSUME UNCHANGED system
  PROVE  /\ MachineInv => MachineInv'
         /\ RendezvousInv => RendezvousInv'
<1> USE DEF system
<1>1. MachineInv => MachineInv'
  BY DEF MachineInv, Text, Started, WaitsAt, Follow
<1>2. RendezvousInv => RendezvousInv'
  BY DEF RendezvousInv, Users, Executing, Text, MeetInv, G
<1> QED
  BY <1>1, <1>2

(***************************************************************************)
(* The machine keeps its types, and a program waits only behind a DOWN.    *)
(***************************************************************************)
THEOREM MachineInvariant == Spec => []MachineInv
<1>1. MachineInv /\ [Next]_vars => MachineInv'
  BY NextMachine, SameMachine, NextSteps DEF Overrun, vars
<1> QED
  BY <1>1, InitMachine, PTL DEF Spec

(***************************************************************************)
(* Neither of the two programs gets past the other: b2 is printed after a1 *)
(* and a2 after b1 (Rend1.txt, Rend2.txt), whatever else is executed.      *)
(***************************************************************************)
THEOREM RendezvousHolds == Spec => []Rendezvous
<1>1. MachineInv /\ RendezvousInv /\ [Next]_vars => RendezvousInv'
  BY NextRendezvous, SameMachine, NextSteps DEF Overrun, vars
<1>2. ASSUME MachineInv, RendezvousInv, NEW p \in Users(Rend1), NEW q \in Users(Rend2)
      PROVE  /\ Passed(p, 4) => Passed(q, 1)
             /\ Passed(q, 4) => Passed(p, 1)
  <2>1. p \in Programs /\ q \in Programs /\ Text(p) = Rend1 /\ Text(q) = Rend2
    BY DEF Users, Executing
  <2>2. line[p] \in 0 .. 4 /\ line[q] \in 0 .. 4
    <3>1. MachineInv
      BY <1>2
    <3>2. line[p] \in Nat /\ line[p] <= 4
      BY <2>1, <3>1, RendTexts, LineBounds
    <3>3. line[q] \in Nat /\ line[q] <= 4
      BY <2>1, <3>1, RendTexts, LineBounds
    <3> QED
      BY <3>2, <3>3
  <2>3. (line[p] = 0 => waiting[p] = Idle) /\ (line[q] = 0 => waiting[q] = Idle)
    <3>1. MachineInv
      BY <1>2
    <3>2. line[p] = 0 => waiting[p] = Idle
      BY <2>1, <3>1, RendTexts, MeetsWaits
    <3>3. line[q] = 0 => waiting[q] = Idle
      BY <2>1, <3>1, RendTexts, MeetsWaits
    <3> QED
      BY <3>2, <3>3
  <2>4. MeetInv(p, q, "SEMA") /\ MeetInv(q, p, "SEMB")
    BY <1>2 DEF RendezvousInv
  <2> QED
    BY <2>2, <2>3, <2>4 DEF MeetInv, Passed
<1>3. MachineInv /\ RendezvousInv => Rendezvous
  BY <1>2 DEF Rendezvous
<1> QED
  BY <1>1, <1>3, InitRendezvous, MachineInvariant, PTL DEF Spec

-----------------------------------------------------------------------------
(***************************************************************************)
(* The lines of the samples, one by one: what a program does at a line and *)
(* where it goes on.                                                       *)
(***************************************************************************)
Plain(l, m, o) == Is(l, m) /\ l.op = o /\ l.label = ""
Marked(l, m, o, lb) == Is(l, m) /\ l.op = o /\ l.label = lb

LEMMA LineNames ==
  ASSUME NEW o, NEW d, NEW s, NEW i, NEW lb
  PROVE  /\ Plain(Line(o, d, s, i), Line(o, d, s, i), o)
         /\ Marked(At(lb, Line(o, d, s, i)), Line(o, d, s, i), o, lb)
BY DEF Plain, Marked, Is, Line, At

LEMMA Constructors ==
  /\ \A x, k, lb : Plain(LOAD(x, k), LOAD(x, k), "LOAD") /\ Marked(At(lb, LOAD(x, k)), LOAD(x, k), "LOAD", lb)
  /\ \A k, x, lb : Plain(STORE(k, x), STORE(k, x), "STORE") /\ Marked(At(lb, STORE(k, x)), STORE(k, x), "STORE", lb)
  /\ \A k, lb : Plain(DOWN(k), DOWN(k), "DOWN") /\ Marked(At(lb, DOWN(k)), DOWN(k), "DOWN", lb)
  /\ \A k, lb : Plain(UP(k), UP(k), "UP") /\ Marked(At(lb, UP(k)), UP(k), "UP", lb)
  /\ \A x, a, b, lb : Plain(ADD(x, a, b), ADD(x, a, b), "ADD") /\ Marked(At(lb, ADD(x, a, b)), ADD(x, a, b), "ADD", lb)
  /\ \A x, a, b, lb : Plain(SUB(x, a, b), SUB(x, a, b), "SUB") /\ Marked(At(lb, SUB(x, a, b)), SUB(x, a, b), "SUB", lb)
  /\ \A x, k, y, lb : Plain(LOADAT(x, k, y), LOADAT(x, k, y), "LOAD") /\ Marked(At(lb, LOADAT(x, k, y)), LOADAT(x, k, y), "LOAD", lb)
  /\ \A k, y, x, lb : Plain(STOREAT(k, y, x), STOREAT(k, y, x), "STORE") /\ Marked(At(lb, STOREAT(k, y, x)), STOREAT(k, y, x), "STORE", lb)
  /\ \A x, a, lb : Plain(SET(x, a), SET(x, a), "SET") /\ Marked(At(lb, SET(x, a)), SET(x, a), "SET", lb)
  /\ \A x, a, b, lb : Plain(MOD(x, a, b), MOD(x, a, b), "MOD") /\ Marked(At(lb, MOD(x, a, b)), MOD(x, a, b), "MOD", lb)
  /\ \A l, lb : Plain(BRA(l), BRA(l), "BRA") /\ Marked(At(lb, BRA(l)), BRA(l), "BRA", lb)
  /\ \A a, b, l, lb : Plain(BREQ(a, b, l), BREQ(a, b, l), "BREQ") /\ Marked(At(lb, BREQ(a, b, l)), BREQ(a, b, l), "BREQ", lb)
  /\ \A a, b, l, lb : Plain(BRGT(a, b, l), BRGT(a, b, l), "BRGT") /\ Marked(At(lb, BRGT(a, b, l)), BRGT(a, b, l), "BRGT", lb)
  /\ \A a, b, l, lb : Plain(BRGE(a, b, l), BRGE(a, b, l), "BRGE") /\ Marked(At(lb, BRGE(a, b, l)), BRGE(a, b, l), "BRGE", lb)
  /\ \A a, b, l, lb : Plain(BRLE(a, b, l), BRLE(a, b, l), "BRLE") /\ Marked(At(lb, BRLE(a, b, l)), BRLE(a, b, l), "BRLE", lb)
  /\ \A lb : Plain(SAY, SAY, "PRINT") /\ Marked(At(lb, SAY), SAY, "PRINT", lb)
  /\ \A lb : Plain(SLEEP, SLEEP, "SLEEP") /\ Marked(At(lb, SLEEP), SLEEP, "SLEEP", lb)
  /\ \A lb : Plain(RETURN, RETURN, "RETURN") /\ Marked(At(lb, RETURN), RETURN, "RETURN", lb)
BY LineNames DEF LOAD, LOADAT, STORE, STOREAT, DOWN, UP, SET, ADD, SUB, MOD, BRA,
                  BREQ, BRGT, BRGE, BRLE, SAY, SLEEP, RETURN

LEMMA LineFacts ==
  /\ \A l, m, o : Plain(l, m, o) => Is(l, m) /\ l.op = o
  /\ \A l, m, o, lb : Marked(l, m, o, lb) => Is(l, m) /\ l.op = o /\ l.label = lb
BY DEF Plain, Marked

\* the labels of the samples
SampleLabels == {"LBARBERLOOP", "LCUSTOMERISHERE", "LNOWAKEUP", "LNOWAITINQUEUE", "LENTERCS",
                 "LNOWAKEUPREADER", "LNOWAKEUPWRITER", "LNOREADERSLEFT", "LWAKEUPWRITER",
                 "LSTART", "LOOP"}

LEMMA PlainLabel ==
  ASSUME NEW l, NEW m, NEW o, Plain(l, m, o)
  PROVE  l.label \notin SampleLabels
BY Zenon DEF Plain, SampleLabels

\* What a program waits for is told by the line it has left.
LEMMA WaitsBehind ==
  ASSUME MachineInv, NEW p \in Programs, waiting[p] # Idle
  PROVE  \E n \in DOMAIN Text(p) :
           /\ Text(p)[n].op = "DOWN" /\ line[p] = Follow(p, n)
           /\ \A k : Is(Text(p)[n], DOWN(k)) => waiting[p] = <<k, 0>>
<1>1. PICK n : WaitsAt(p, n)
  BY DEF MachineInv
<1>2. ASSUME NEW k, Is(Text(p)[n], DOWN(k)) PROVE waiting[p] = <<k, 0>>
  <2>1. DOWN(k).src = <<k>> /\ DOWN(k).idx = "0"
    BY DEF DOWN, Line
  <2>2. Text(p)[n].src = <<k>> /\ Text(p)[n].idx = "0"
    BY <1>2, <2>1 DEF Is
  <2> QED
    BY <1>1, <2>2 DEF WaitsAt
<1> QED
  BY <1>1, <1>2 DEF WaitsAt

V(p, x) == vartable[p][x]

Quiet(p) == waiting'[p] = Idle /\ Keeps /\ Own(p)
Bound(p, x, v) == waiting'[p] = Idle /\ Keeps /\ Binds(p, x, v)
Put(p, k, v) == waiting'[p] = Idle /\ Puts(k, v) /\ Own(p)
Asked(p, k) == waiting'[p] = <<k, 0>> /\ waiting'[p] # Idle /\ Keeps /\ Own(p)

LEMMA CustomerLines ==
  /\ Len(Customer) = 10 /\ DOMAIN Customer = 1 .. 10
  /\ Plain(Customer[1], DOWN("mtx"), "DOWN")
  /\ Plain(Customer[2], SAY, "PRINT")
  /\ Plain(Customer[3], LOAD("tmp", "avl"), "LOAD")
  /\ Plain(Customer[4], ADD("tmp", "tmp", "1"), "ADD")
  /\ Plain(Customer[5], STORE("avl", "tmp"), "STORE")
  /\ Plain(Customer[6], BRGT("tmp", "0", "LNOWAKEUP"), "BRGT")
  /\ Plain(Customer[7], SAY, "PRINT")
  /\ Plain(Customer[8], UP("sleep"), "UP")
  /\ Marked(Customer[9], UP("mtx"), "UP", "LNOWAKEUP")
  /\ Plain(Customer[10], RETURN, "RETURN")
<1>1. Customer[1] = DOWN("mtx")
  BY DEF Customer
<1>2. Customer[2] = SAY
  BY DEF Customer
<1>3. Customer[3] = LOAD("tmp", "avl")
  BY DEF Customer
<1>4. Customer[4] = ADD("tmp", "tmp", "1")
  BY DEF Customer
<1>5. Customer[5] = STORE("avl", "tmp")
  BY DEF Customer
<1>6. Customer[6] = BRGT("tmp", "0", "LNOWAKEUP")
  BY DEF Customer
<1>7. Customer[7] = SAY
  BY DEF Customer
<1>8. Customer[8] = UP("sleep")
  BY DEF Customer
<1>9. Customer[9] = At("LNOWAKEUP", UP("mtx"))
  BY DEF Customer
<1>10. Customer[10] = RETURN
  BY DEF Customer
<1>11. Len(Customer) = 10 /\ DOMAIN Customer = 1 .. 10
  BY DEF Customer
<1> QED
  BY <1>1, <1>2, <1>3, <1>4, <1>5, <1>6, <1>7, <1>8, <1>9, <1>10, <1>11, Constructors

LEMMA CustomerPlaces ==
  /\ \A n \in 1 .. 10 : Customer[n].op = "DOWN" => n \in {1}
  /\ Labels(Customer, "LNOWAKEUP", 9)
<1>1. Customer[1].op = "DOWN" /\ Customer[2].op = "PRINT" /\ Customer[3].op = "LOAD"
     /\ Customer[4].op = "ADD" /\ Customer[5].op = "STORE" /\ Customer[6].op = "BRGT"
     /\ Customer[7].op = "PRINT" /\ Customer[8].op = "UP" /\ Customer[9].op = "UP"
     /\ Customer[10].op = "RETURN"
  BY CustomerLines, LineFacts
<1>2. Customer[1].label \notin SampleLabels /\ Customer[2].label \notin SampleLabels
     /\ Customer[3].label \notin SampleLabels /\ Customer[4].label \notin SampleLabels
     /\ Customer[5].label \notin SampleLabels /\ Customer[6].label \notin SampleLabels
     /\ Customer[7].label \notin SampleLabels /\ Customer[8].label \notin SampleLabels
     /\ Customer[10].label \notin SampleLabels
  BY CustomerLines, PlainLabel
<1>3. Customer[9].label = "LNOWAKEUP"
  BY CustomerLines, LineFacts
<1>4. "LNOWAKEUP" \in SampleLabels
  BY DEF SampleLabels
<1> QED
  BY <1>1, <1>2, <1>3, <1>4, CustomerLines DEF Labels

LEMMA CustomerMoves ==
  ASSUME MachineInv, NEW p \in Programs, Text(p) = Customer, Step(p), waiting[p] = Idle
  PROVE  /\ line[p] \in 1 .. 10
         /\ line[p] = 1 => line'[p] = 2 /\ Asked(p, "mtx")
         /\ line[p] = 2 => line'[p] = 3 /\ Quiet(p)
         /\ line[p] = 3 => line'[p] = 4 /\ Bound(p, "tmp", G("avl"))
         /\ line[p] = 4 => line'[p] = 5 /\ Bound(p, "tmp", V(p, "tmp") + 1)
         /\ line[p] = 5 => line'[p] = 6 /\ Put(p, "avl", V(p, "tmp"))
         /\ line[p] = 6 => line'[p] = (IF V(p, "tmp") > 0 THEN 9 ELSE 7) /\ Quiet(p)
         /\ line[p] = 7 => line'[p] = 8 /\ Quiet(p)
         /\ line[p] = 8 => line'[p] = 9 /\ Put(p, "sleep", G("sleep") + 1)
         /\ line[p] = 9 => line'[p] = 10 /\ Put(p, "mtx", G("mtx") + 1)
         /\ line[p] = 10 => line'[p] = 0 /\ Quiet(p)
<1>0. line[p] \in 1 .. 10 /\ Len(Text(p)) = 10
  BY CustomerLines, StepLine
<1>1. ASSUME line[p] = 1 PROVE line'[p] = 2 /\ Asked(p, "mtx")
  <2>1. Does(p, DOWN("mtx")) /\ Follow(p, 1) = 2
    BY <1>0, <1>1, CustomerLines, LineFacts DEF Does, Here, Follow
  <2> QED
    BY <1>1, <2>1, Asks, Operand, NamesAssumption DEF Asked, V
<1>2. ASSUME line[p] = 2 PROVE line'[p] = 3 /\ Quiet(p)
  <2>1. Does(p, SAY) /\ Follow(p, 2) = 3
    BY <1>0, <1>2, CustomerLines, LineFacts DEF Does, Here, Follow
  <2> QED
    BY <1>2, <2>1, Shows, Operand, NamesAssumption DEF Quiet, V
<1>3. ASSUME line[p] = 3 PROVE line'[p] = 4 /\ Bound(p, "tmp", G("avl"))
  <2>1. Does(p, LOAD("tmp", "avl")) /\ Follow(p, 3) = 4
    BY <1>0, <1>3, CustomerLines, LineFacts DEF Does, Here, Follow
  <2> QED
    BY <1>3, <2>1, Loads, Operand, NamesAssumption DEF Bound, V
<1>4. ASSUME line[p] = 4 PROVE line'[p] = 5 /\ Bound(p, "tmp", V(p, "tmp") + 1)
  <2>1. Does(p, ADD("tmp", "tmp", "1")) /\ Follow(p, 4) = 5
    BY <1>0, <1>4, CustomerLines, LineFacts DEF Does, Here, Follow
  <2> QED
    BY <1>4, <2>1, Adds, Operand, NamesAssumption DEF Bound, V
<1>5. ASSUME line[p] = 5 PROVE line'[p] = 6 /\ Put(p, "avl", V(p, "tmp"))
  <2>1. Does(p, STORE("avl", "tmp")) /\ Follow(p, 5) = 6
    BY <1>0, <1>5, CustomerLines, LineFacts DEF Does, Here, Follow
  <2> QED
    BY <1>5, <2>1, Stores, Operand, NamesAssumption DEF Put, V
<1>6. ASSUME line[p] = 6 PROVE line'[p] = (IF V(p, "tmp") > 0 THEN 9 ELSE 7) /\ Quiet(p)
  <2>1. Does(p, BRGT("tmp", "0", "LNOWAKEUP")) /\ Follow(p, 6) = 7
    BY <1>0, <1>6, CustomerLines, LineFacts DEF Does, Here, Follow
  <2> QED
    BY <1>6, <2>1, IfGreater, CustomerPlaces, Operand, NamesAssumption DEF Quiet, V
<1>7. ASSUME line[p] = 7 PROVE line'[p] = 8 /\ Quiet(p)
  <2>1. Does(p, SAY) /\ Follow(p, 7) = 8
    BY <1>0, <1>7, CustomerLines, LineFacts DEF Does, Here, Follow
  <2> QED
    BY <1>7, <2>1, Shows, Operand, NamesAssumption DEF Quiet, V
<1>8. ASSUME line[p] = 8 PROVE line'[p] = 9 /\ Put(p, "sleep", G("sleep") + 1)
  <2>1. Does(p, UP("sleep")) /\ Follow(p, 8) = 9
    BY <1>0, <1>8, CustomerLines, LineFacts DEF Does, Here, Follow
  <2> QED
    BY <1>8, <2>1, Raises, Operand, NamesAssumption DEF Put, V
<1>9. ASSUME line[p] = 9 PROVE line'[p] = 10 /\ Put(p, "mtx", G("mtx") + 1)
  <2>1. Does(p, UP("mtx")) /\ Follow(p, 9) = 10
    BY <1>0, <1>9, CustomerLines, LineFacts DEF Does, Here, Follow
  <2> QED
    BY <1>9, <2>1, Raises, Operand, NamesAssumption DEF Put, V
<1>10. ASSUME line[p] = 10 PROVE line'[p] = 0 /\ Quiet(p)
  <2>1. Does(p, RETURN) /\ Follow(p, 10) = 0
    BY <1>0, <1>10, CustomerLines, LineFacts DEF Does, Here, Follow
  <2> QED
    BY <1>10, <2>1, Returns, Operand, NamesAssumption DEF Quiet, V
<1> QED
  BY <1>0, <1>1, <1>2, <1>3, <1>4, <1>5, <1>6, <1>7, <1>8, <1>9, <1>10

LEMMA BarberLines ==
  /\ Len(Barber) = 16 /\ DOMAIN Barber = 1 .. 16
  /\ Plain(Barber[1], STORE("mtx", "1"), "STORE")
  /\ Plain(Barber[2], STORE("sleep", "0"), "STORE")
  /\ Marked(Barber[3], DOWN("mtx"), "DOWN", "LBARBERLOOP")
  /\ Plain(Barber[4], LOAD("tmp", "avl"), "LOAD")
  /\ Plain(Barber[5], SUB("tmp", "tmp", "1"), "SUB")
  /\ Plain(Barber[6], STORE("avl", "tmp"), "STORE")
  /\ Plain(Barber[7], BRGE("tmp", "0", "LCUSTOMERISHERE"), "BRGE")
  /\ Plain(Barber[8], SAY, "PRINT")
  /\ Plain(Barber[9], UP("mtx"), "UP")
  /\ Plain(Barber[10], DOWN("sleep"), "DOWN")
  /\ Plain(Barber[11], DOWN("mtx"), "DOWN")
  /\ Marked(Barber[12], SAY, "PRINT", "LCUSTOMERISHERE")
  /\ Plain(Barber[13], UP("mtx"), "UP")
  /\ Plain(Barber[14], SAY, "PRINT")
  /\ Plain(Barber[15], SLEEP, "SLEEP")
  /\ Plain(Barber[16], BRA("LBARBERLOOP"), "BRA")
<1>1. Barber[1] = STORE("mtx", "1")
  BY DEF Barber
<1>2. Barber[2] = STORE("sleep", "0")
  BY DEF Barber
<1>3. Barber[3] = At("LBARBERLOOP", DOWN("mtx"))
  BY DEF Barber
<1>4. Barber[4] = LOAD("tmp", "avl")
  BY DEF Barber
<1>5. Barber[5] = SUB("tmp", "tmp", "1")
  BY DEF Barber
<1>6. Barber[6] = STORE("avl", "tmp")
  BY DEF Barber
<1>7. Barber[7] = BRGE("tmp", "0", "LCUSTOMERISHERE")
  BY DEF Barber
<1>8. Barber[8] = SAY
  BY DEF Barber
<1>9. Barber[9] = UP("mtx")
  BY DEF Barber
<1>10. Barber[10] = DOWN("sleep")
  BY DEF Barber
<1>11. Barber[11] = DOWN("mtx")
  BY DEF Barber
<1>12. Barber[12] = At("LCUSTOMERISHERE", SAY)
  BY DEF Barber
<1>13. Barber[13] = UP("mtx")
  BY DEF Barber
<1>14. Barber[14] = SAY
  BY DEF Barber
<1>15. Barber[15] = SLEEP
  BY DEF Barber
<1>16. Barber[16] = BRA("LBARBERLOOP")
  BY DEF Barber
<1>17. Len(Barber) = 16 /\ DOMAIN Barber = 1 .. 16
  BY DEF Barber
<1> QED
  BY <1>1, <1>2, <1>3, <1>4, <1>5, <1>6, <1>7, <1>8, <1>9, <1>10, <1>11, <1>12, <1>13,
     <1>14, <1>15, <1>16, <1>17, Constructors

LEMMA BarberPlaces ==
  /\ \A n \in 1 .. 16 : Barber[n].op = "DOWN" => n \in {3, 10, 11}
  /\ Labels(Barber, "LBARBERLOOP", 3)
  /\ Labels(Barber, "LCUSTOMERISHERE", 12)
<1>1. Barber[1].op = "STORE" /\ Barber[2].op = "STORE" /\ Barber[3].op = "DOWN"
     /\ Barber[4].op = "LOAD" /\ Barber[5].op = "SUB" /\ Barber[6].op = "STORE"
     /\ Barber[7].op = "BRGE" /\ Barber[8].op = "PRINT" /\ Barber[9].op = "UP"
     /\ Barber[10].op = "DOWN" /\ Barber[11].op = "DOWN" /\ Barber[12].op = "PRINT"
     /\ Barber[13].op = "UP" /\ Barber[14].op = "PRINT" /\ Barber[15].op = "SLEEP"
     /\ Barber[16].op = "BRA"
  BY BarberLines, LineFacts
<1>2. Barber[1].label \notin SampleLabels /\ Barber[2].label \notin SampleLabels
     /\ Barber[4].label \notin SampleLabels /\ Barber[5].label \notin SampleLabels
     /\ Barber[6].label \notin SampleLabels /\ Barber[7].label \notin SampleLabels
     /\ Barber[8].label \notin SampleLabels /\ Barber[9].label \notin SampleLabels
     /\ Barber[10].label \notin SampleLabels /\ Barber[11].label \notin SampleLabels
     /\ Barber[13].label \notin SampleLabels /\ Barber[14].label \notin SampleLabels
     /\ Barber[15].label \notin SampleLabels /\ Barber[16].label \notin SampleLabels
  BY BarberLines, PlainLabel
<1>3. Barber[3].label = "LBARBERLOOP" /\ Barber[12].label = "LCUSTOMERISHERE"
  BY BarberLines, LineFacts
<1>4. "LBARBERLOOP" \in SampleLabels /\ "LCUSTOMERISHERE" \in SampleLabels
  BY DEF SampleLabels
<1> QED
  BY <1>1, <1>2, <1>3, <1>4, BarberLines DEF Labels

LEMMA BarberMoves ==
  ASSUME MachineInv, NEW p \in Programs, Text(p) = Barber, Step(p), waiting[p] = Idle
  PROVE  /\ line[p] \in 1 .. 16
         /\ line[p] = 1 => line'[p] = 2 /\ Put(p, "mtx", 1)
         /\ line[p] = 2 => line'[p] = 3 /\ Put(p, "sleep", 0)
         /\ line[p] = 3 => line'[p] = 4 /\ Asked(p, "mtx")
         /\ line[p] = 4 => line'[p] = 5 /\ Bound(p, "tmp", G("avl"))
         /\ line[p] = 5 => line'[p] = 6 /\ Bound(p, "tmp", V(p, "tmp") - 1)
         /\ line[p] = 6 => line'[p] = 7 /\ Put(p, "avl", V(p, "tmp"))
         /\ line[p] = 7 => line'[p] = (IF V(p, "tmp") >= 0 THEN 12 ELSE 8) /\ Quiet(p)
         /\ line[p] = 8 => line'[p] = 9 /\ Quiet(p)
         /\ line[p] = 9 => line'[p] = 10 /\ Put(p, "mtx", G("mtx") + 1)
         /\ line[p] = 10 => line'[p] = 11 /\ Asked(p, "sleep")
         /\ line[p] = 11 => line'[p] = 12 /\ Asked(p, "mtx")
         /\ line[p] = 12 => line'[p] = 13 /\ Quiet(p)
         /\ line[p] = 13 => line'[p] = 14 /\ Put(p, "mtx", G("mtx") + 1)
         /\ line[p] = 14 => line'[p] = 15 /\ Quiet(p)
         /\ line[p] = 15 => line'[p] = 16 /\ Quiet(p)
         /\ line[p] = 16 => line'[p] = 3 /\ Quiet(p)
<1>0. line[p] \in 1 .. 16 /\ Len(Text(p)) = 16
  BY BarberLines, StepLine
<1>1. ASSUME line[p] = 1 PROVE line'[p] = 2 /\ Put(p, "mtx", 1)
  <2>1. Does(p, STORE("mtx", "1")) /\ Follow(p, 1) = 2
    BY <1>0, <1>1, BarberLines, LineFacts DEF Does, Here, Follow
  <2> QED
    BY <1>1, <2>1, Stores, Operand, NamesAssumption DEF Put, V
<1>2. ASSUME line[p] = 2 PROVE line'[p] = 3 /\ Put(p, "sleep", 0)
  <2>1. Does(p, STORE("sleep", "0")) /\ Follow(p, 2) = 3
    BY <1>0, <1>2, BarberLines, LineFacts DEF Does, Here, Follow
  <2> QED
    BY <1>2, <2>1, Stores, Operand, NamesAssumption DEF Put, V
<1>3. ASSUME line[p] = 3 PROVE line'[p] = 4 /\ Asked(p, "mtx")
  <2>1. Does(p, DOWN("mtx")) /\ Follow(p, 3) = 4
    BY <1>0, <1>3, BarberLines, LineFacts DEF Does, Here, Follow
  <2> QED
    BY <1>3, <2>1, Asks, Operand, NamesAssumption DEF Asked, V
<1>4. ASSUME line[p] = 4 PROVE line'[p] = 5 /\ Bound(p, "tmp", G("avl"))
  <2>1. Does(p, LOAD("tmp", "avl")) /\ Follow(p, 4) = 5
    BY <1>0, <1>4, BarberLines, LineFacts DEF Does, Here, Follow
  <2> QED
    BY <1>4, <2>1, Loads, Operand, NamesAssumption DEF Bound, V
<1>5. ASSUME line[p] = 5 PROVE line'[p] = 6 /\ Bound(p, "tmp", V(p, "tmp") - 1)
  <2>1. Does(p, SUB("tmp", "tmp", "1")) /\ Follow(p, 5) = 6
    BY <1>0, <1>5, BarberLines, LineFacts DEF Does, Here, Follow
  <2> QED
    BY <1>5, <2>1, Subtracts, Operand, NamesAssumption DEF Bound, V
<1>6. ASSUME line[p] = 6 PROVE line'[p] = 7 /\ Put(p, "avl", V(p, "tmp"))
  <2>1. Does(p, STORE("avl", "tmp")) /\ Follow(p, 6) = 7
    BY <1>0, <1>6, BarberLines, LineFacts DEF Does, Here, Follow
  <2> QED
    BY <1>6, <2>1, Stores, Operand, NamesAssumption DEF Put, V
<1>7. ASSUME line[p] = 7 PROVE line'[p] = (IF V(p, "tmp") >= 0 THEN 12 ELSE 8) /\ Quiet(p)
  <2>1. Does(p, BRGE("tmp", "0", "LCUSTOMERISHERE")) /\ Follow(p, 7) = 8
    BY <1>0, <1>7, BarberLines, LineFacts DEF Does, Here, Follow
  <2> QED
    BY <1>7, <2>1, IfNotLess, BarberPlaces, Operand, NamesAssumption DEF Quiet, V
<1>8. ASSUME line[p] = 8 PROVE line'[p] = 9 /\ Quiet(p)
  <2>1. Does(p, SAY) /\ Follow(p, 8) = 9
    BY <1>0, <1>8, BarberLines, LineFacts DEF Does, Here, Follow
  <2> QED
    BY <1>8, <2>1, Shows, Operand, NamesAssumption DEF Quiet, V
<1>9. ASSUME line[p] = 9 PROVE line'[p] = 10 /\ Put(p, "mtx", G("mtx") + 1)
  <2>1. Does(p, UP("mtx")) /\ Follow(p, 9) = 10
    BY <1>0, <1>9, BarberLines, LineFacts DEF Does, Here, Follow
  <2> QED
    BY <1>9, <2>1, Raises, Operand, NamesAssumption DEF Put, V
<1>10. ASSUME line[p] = 10 PROVE line'[p] = 11 /\ Asked(p, "sleep")
  <2>1. Does(p, DOWN("sleep")) /\ Follow(p, 10) = 11
    BY <1>0, <1>10, BarberLines, LineFacts DEF Does, Here, Follow
  <2> QED
    BY <1>10, <2>1, Asks, Operand, NamesAssumption DEF Asked, V
<1>11. ASSUME line[p] = 11 PROVE line'[p] = 12 /\ Asked(p, "mtx")
  <2>1. Does(p, DOWN("mtx")) /\ Follow(p, 11) = 12
    BY <1>0, <1>11, BarberLines, LineFacts DEF Does, Here, Follow
  <2> QED
    BY <1>11, <2>1, Asks, Operand, NamesAssumption DEF Asked, V
<1>12. ASSUME line[p] = 12 PROVE line'[p] = 13 /\ Quiet(p)
  <2>1. Does(p, SAY) /\ Follow(p, 12) = 13
    BY <1>0, <1>12, BarberLines, LineFacts DEF Does, Here, Follow
  <2> QED
    BY <1>12, <2>1, Shows, Operand, NamesAssumption DEF Quiet, V
<1>13. ASSUME line[p] = 13 PROVE line'[p] = 14 /\ Put(p, "mtx", G("mtx") + 1)
  <2>1. Does(p, UP("mtx")) /\ Follow(p, 13) = 14
    BY <1>0, <1>13, BarberLines, LineFacts DEF Does, Here, Follow
  <2> QED
    BY <1>13, <2>1, Raises, Operand, NamesAssumption DEF Put, V
<1>14. ASSUME line[p] = 14 PROVE line'[p] = 15 /\ Quiet(p)
  <2>1. Does(p, SAY) /\ Follow(p, 14) = 15
    BY <1>0, <1>14, BarberLines, LineFacts DEF Does, Here, Follow
  <2> QED
    BY <1>14, <2>1, Shows, Operand, NamesAssumption DEF Quiet, V
<1>15. ASSUME line[p] = 15 PROVE line'[p] = 16 /\ Quiet(p)
  <2>1. Does(p, SLEEP) /\ Follow(p, 15) = 16
    BY <1>0, <1>15, BarberLines, LineFacts DEF Does, Here, Follow
  <2> QED
    BY <1>15, <2>1, Shows, Operand, NamesAssumption DEF Quiet, V
<1>16. ASSUME line[p] = 16 PROVE line'[p] = 3 /\ Quiet(p)
  <2>1. Does(p, BRA("LBARBERLOOP")) /\ Follow(p, 16) = 0
    BY <1>0, <1>16, BarberLines, LineFacts DEF Does, Here, Follow
  <2> QED
    BY <1>16, <2>1, Always, BarberPlaces, Operand, NamesAssumption DEF Quiet, V
<1> QED
  BY <1>0, <1>1, <1>2, <1>3, <1>4, <1>5, <1>6, <1>7, <1>8, <1>9, <1>10, <1>11, <1>12,
     <1>13, <1>14, <1>15, <1>16

LEMMA CustomerWaits ==
  ASSUME MachineInv, NEW p \in Programs, Text(p) = Customer, waiting[p] # Idle
  PROVE  line[p] = 2 /\ waiting[p] = <<"mtx", 0>>
<1>1. PICK n \in DOMAIN Text(p) :
        /\ Text(p)[n].op = "DOWN" /\ line[p] = Follow(p, n)
        /\ \A k : Is(Text(p)[n], DOWN(k)) => waiting[p] = <<k, 0>>
  BY WaitsBehind
<1>2. Len(Customer) = 10 /\ n \in 1 .. 10
  BY CustomerLines
<1>3. n = 1
  BY <1>1, <1>2, CustomerPlaces
<1>4. Is(Customer[1], DOWN("mtx"))
  BY CustomerLines, LineFacts
<1> QED
  BY <1>1, <1>2, <1>3, <1>4 DEF Follow

LEMMA BarberWaits ==
  ASSUME MachineInv, NEW p \in Programs, Text(p) = Barber, waiting[p] # Idle
  PROVE  \/ line[p] = 4 /\ waiting[p] = <<"mtx", 0>>
         \/ line[p] = 11 /\ waiting[p] = <<"sleep", 0>>
         \/ line[p] = 12 /\ waiting[p] = <<"mtx", 0>>
<1>1. PICK n \in DOMAIN Text(p) :
        /\ Text(p)[n].op = "DOWN" /\ line[p] = Follow(p, n)
        /\ \A k : Is(Text(p)[n], DOWN(k)) => waiting[p] = <<k, 0>>
  BY WaitsBehind
<1>2. Len(Barber) = 16 /\ n \in 1 .. 16
  BY BarberLines
<1>3. n \in {3, 10, 11}
  BY <1>1, <1>2, BarberPlaces
<1>4. Is(Barber[3], DOWN("mtx")) /\ Is(Barber[10], DOWN("sleep")) /\ Is(Barber[11], DOWN("mtx"))
  BY BarberLines, LineFacts
<1> QED
  BY <1>1, <1>2, <1>3, <1>4 DEF Follow

-----------------------------------------------------------------------------
(***************************************************************************)
(* The sleeping barber.  First $mtx: the barber raises it to 1 with his    *)
(* first line, and from then on one program is in the critical section or  *)
(* none and $mtx is 1.                                                     *)
(***************************************************************************)
CustomerIn(c) == line[c] \in 3 .. 9 \/ (line[c] = 2 /\ waiting[c] = Idle)
BarberIn(b) == line[b] \in (5 .. 9) \cup {13} \/ (line[b] \in {4, 12} /\ waiting[b] = Idle)

LockInv(b) ==
  /\ G("mtx") \in {0, 1}
  /\ G("mtx") = 1 => ~BarberIn(b) /\ \A c \in Users(Customer) : ~CustomerIn(c)
  /\ line[b] = 1 => G("mtx") = 0 /\ \A c \in Users(Customer) : ~CustomerIn(c)
  /\ BarberIn(b) => \A c \in Users(Customer) : ~CustomerIn(c)
  /\ \A c, d \in Users(Customer) : CustomerIn(c) /\ CustomerIn(d) => c = d

LEMMA BarberKeys == "mtx" \in Keys /\ "sleep" \in Keys /\ "avl" \in Keys /\ "tmp" \in Locals
BY NamesAssumption

LEMMA CustomerLocks ==
  ASSUME MachineInv, NEW c \in Programs, Text(c) = Customer, Step(c)
  PROVE  \/ (CustomerIn(c)' <=> CustomerIn(c)) /\ G("mtx")' = G("mtx")
         \/ ~CustomerIn(c) /\ CustomerIn(c)' /\ G("mtx") > 0 /\ G("mtx")' = G("mtx") - 1
         \/ CustomerIn(c) /\ ~CustomerIn(c)' /\ G("mtx")' = G("mtx") + 1
<1>1. CASE waiting[c] # Idle
  <2>1. /\ line[c] = 2 /\ line'[c] = 2 /\ waiting'[c] = Idle
        /\ G("mtx") > 0 /\ G("mtx")' = G("mtx") - 1
    BY <1>1, CustomerWaits, Takes, BarberKeys DEF Puts
  <2> QED
    BY <1>1, <2>1 DEF CustomerIn
<1>2. CASE waiting[c] = Idle
  <2>0. line[c] \in 1 .. 10
    BY <1>2, CustomerMoves
  <2>1. CASE line[c] = 1
    <3>1. line'[c] = 2 /\ waiting'[c] # Idle /\ G("mtx")' = G("mtx")
      BY <1>2, <2>1, CustomerMoves, BarberKeys DEF Asked, Keeps
    <3> QED
      BY <2>1, <3>1 DEF CustomerIn
  <2>2. CASE line[c] \in (2 .. 8)
    <3>1. line'[c] \in 3 .. 9
      BY <1>2, <2>2, CustomerMoves
    <3>2. G("mtx")' = G("mtx")
      BY <1>2, <2>2, CustomerMoves, BarberKeys DEF Quiet, Bound, Put, Keeps, Puts
    <3> QED
      BY <1>2, <2>2, <3>1, <3>2 DEF CustomerIn
  <2>3. CASE line[c] = 9
    <3>1. line'[c] = 10 /\ G("mtx")' = G("mtx") + 1
      BY <1>2, <2>3, CustomerMoves, BarberKeys DEF Put, Puts
    <3> QED
      BY <2>3, <3>1 DEF CustomerIn
  <2>4. CASE line[c] = 10
    <3>1. line'[c] = 0 /\ G("mtx")' = G("mtx")
      BY <1>2, <2>4, CustomerMoves, BarberKeys DEF Quiet, Keeps
    <3> QED
      BY <2>4, <3>1 DEF CustomerIn
  <2> QED
    BY <2>0, <2>1, <2>2, <2>3, <2>4
<1> QED
  BY <1>1, <1>2

LEMMA BarberLocks ==
  ASSUME MachineInv, NEW b \in Programs, Text(b) = Barber, Step(b)
  PROVE  /\ line'[b] # 1
         /\ \/ (BarberIn(b)' <=> BarberIn(b)) /\ G("mtx")' = G("mtx")
            \/ line[b] = 1 /\ ~BarberIn(b)' /\ G("mtx")' = 1
            \/ ~BarberIn(b) /\ BarberIn(b)' /\ G("mtx") > 0 /\ G("mtx")' = G("mtx") - 1
            \/ BarberIn(b) /\ ~BarberIn(b)' /\ G("mtx")' = G("mtx") + 1
<1>1. CASE waiting[b] # Idle /\ waiting[b] = <<"mtx", 0>>
  <2>1. line[b] \in {4, 12}
    <3>1. <<"mtx", 0>>[1] # <<"sleep", 0>>[1]
      OBVIOUS
    <3>2. <<"mtx", 0>> # <<"sleep", 0>>
      BY <3>1
    <3> QED
      BY <1>1, <3>2, BarberWaits
  <2>2. line'[b] = line[b] /\ waiting'[b] = Idle /\ G("mtx") > 0 /\ G("mtx")' = G("mtx") - 1
    BY <1>1, Takes, BarberKeys DEF Puts
  <2> QED
    BY <1>1, <2>1, <2>2 DEF BarberIn
<1>2. CASE waiting[b] # Idle /\ waiting[b] = <<"sleep", 0>>
  <2>1. line[b] = 11
    <3>1. <<"mtx", 0>>[1] # <<"sleep", 0>>[1]
      OBVIOUS
    <3>2. <<"mtx", 0>> # <<"sleep", 0>>
      BY <3>1
    <3> QED
      BY <1>2, <3>2, BarberWaits
  <2>2. line'[b] = line[b] /\ waiting'[b] = Idle /\ G("mtx")' = G("mtx")
    BY <1>2, Takes, BarberKeys DEF Puts
  <2> QED
    BY <2>1, <2>2 DEF BarberIn
<1>3. CASE waiting[b] = Idle
  <2>0. line[b] \in 1 .. 16
    BY <1>3, BarberMoves
  <2>1. CASE line[b] = 1
    <3>1. line'[b] = 2 /\ G("mtx")' = 1
      BY <1>3, <2>1, BarberMoves, BarberKeys DEF Put, Puts
    <3> QED
      BY <2>1, <3>1 DEF BarberIn
  <2>2. CASE line[b] \in {2, 10, 14, 15, 16}
    <3>1. line'[b] \in {3, 11, 15, 16}
      BY <1>3, <2>2, BarberMoves
    <3>2. G("mtx")' = G("mtx")
      BY <1>3, <2>2, BarberMoves, BarberKeys DEF Quiet, Put, Asked, Keeps, Puts
    <3> QED
      BY <2>2, <3>1, <3>2 DEF BarberIn
  <2>3. CASE line[b] \in {3, 11}
    <3>1. line'[b] \in {4, 12} /\ waiting'[b] # Idle
      BY <1>3, <2>3, BarberMoves DEF Asked
    <3>2. G("mtx")' = G("mtx")
      BY <1>3, <2>3, BarberMoves, BarberKeys DEF Asked, Keeps
    <3> QED
      BY <2>3, <3>1, <3>2 DEF BarberIn
  <2>4. CASE line[b] \in {4, 5, 6, 7, 8, 12}
    <3>1. line'[b] \in (5 .. 9) \cup {12, 13} /\ waiting'[b] = Idle
      BY <1>3, <2>4, BarberMoves DEF Quiet, Bound, Put
    <3>2. G("mtx")' = G("mtx")
      BY <1>3, <2>4, BarberMoves, BarberKeys DEF Quiet, Bound, Put, Keeps, Puts
    <3> QED
      BY <1>3, <2>4, <3>1, <3>2 DEF BarberIn
  <2>5. CASE line[b] \in {9, 13}
    <3>1. line'[b] \in {10, 14} /\ G("mtx")' = G("mtx") + 1
      BY <1>3, <2>5, BarberMoves, BarberKeys DEF Put, Puts
    <3> QED
      BY <2>5, <3>1 DEF BarberIn
  <2> QED
    BY <2>0, <2>1, <2>2, <2>3, <2>4, <2>5
<1> QED
  BY <1>1, <1>2, <1>3, BarberWaits

LEMMA BarberUsers ==
  ASSUME MachineInv, NEW b \in Users(Barber), NEW r \in Programs
  PROVE  /\ b \in Programs /\ Text(b) = Barber /\ b \notin Users(Customer)
         /\ \/ r = b
            \/ r # b /\ r \in Users(Customer) /\ Text(r) = Customer
            \/ r # b /\ r \notin Users(Customer) /\ LeavesAlone(Text(r), {"mtx", "sleep", "avl"})
<1>1. b \in Programs /\ Text(b) = Barber
  BY DEF Users, Executing
<1>2. Barber # Customer
  BY BarberLines, CustomerLines
<1>3. b \in Plays(scenario, Barber)
  BY <1>1 DEF Plays, Text
<1>4. Once(scenario, Barber) /\ Among(scenario, {Barber, Customer}, {"mtx", "sleep", "avl"})
  BY <1>3, CastAssumption DEF MachineInv
<1>5. Text(r) = Barber => r = b
  BY <1>3, <1>4 DEF Once, Plays, Text
<1>6. Text(r) \in {Barber, Customer} \/ LeavesAlone(Text(r), {"mtx", "sleep", "avl"})
  BY <1>4 DEF Among, Text
<1>7. r \in Users(Customer) <=> Text(r) = Customer
  BY DEF Users, Executing
<1>8. b \notin Users(Customer)
  BY <1>1, <1>2 DEF Users, Executing
<1> QED
  BY <1>1, <1>5, <1>6, <1>7, <1>8

LEMMA OthersLeaveBarber ==
  ASSUME MachineInv, NEW r \in Programs, Step(r), LeavesAlone(Text(r), {"mtx", "sleep", "avl"})
  PROVE  G("mtx")' = G("mtx") /\ G("sleep")' = G("sleep") /\ G("avl")' = G("avl")
BY BarberKeys, Elsewhere

LEMMA NextLock ==
  ASSUME MachineInv, NEW b \in Users(Barber), LockInv(b), NEW r \in Programs, Step(r)
  PROVE  LockInv(b)'
<1>1. /\ scenario' = scenario /\ Users(Customer)' = Users(Customer)
      /\ \A q \in Programs \ {r} : line'[q] = line[q] /\ waiting'[q] = waiting[q]
  BY StepAlone, SameUsers DEF Alone
<1>2. \A c \in Users(Customer) : c \in Programs
  BY DEF Users
<1>3. /\ b \in Programs /\ Text(b) = Barber /\ b \notin Users(Customer)
      /\ \/ r = b
         \/ r # b /\ r \in Users(Customer) /\ Text(r) = Customer
         \/ r # b /\ r \notin Users(Customer) /\ LeavesAlone(Text(r), {"mtx", "sleep", "avl"})
  BY BarberUsers
<1>4. \A c \in Users(Customer) : c # r => (CustomerIn(c)' <=> CustomerIn(c))
  BY <1>1, <1>2 DEF CustomerIn
<1>5. b # r => (BarberIn(b)' <=> BarberIn(b)) /\ line'[b] = line[b]
  BY <1>1, <1>3 DEF BarberIn
<1>6. CASE r = b
  <2>1. /\ line'[b] # 1
        /\ \/ (BarberIn(b)' <=> BarberIn(b)) /\ G("mtx")' = G("mtx")
           \/ line[b] = 1 /\ ~BarberIn(b)' /\ G("mtx")' = 1
           \/ ~BarberIn(b) /\ BarberIn(b)' /\ G("mtx") > 0 /\ G("mtx")' = G("mtx") - 1
           \/ BarberIn(b) /\ ~BarberIn(b)' /\ G("mtx")' = G("mtx") + 1
    BY <1>3, <1>6, BarberLocks
  <2>2. \A c \in Users(Customer) : CustomerIn(c)' <=> CustomerIn(c)
    BY <1>3, <1>4, <1>6
  <2> QED
    BY <1>1, <2>1, <2>2 DEF LockInv
<1>7. CASE r # b /\ r \in Users(Customer) /\ Text(r) = Customer
  <2>1. \/ (CustomerIn(r)' <=> CustomerIn(r)) /\ G("mtx")' = G("mtx")
        \/ ~CustomerIn(r) /\ CustomerIn(r)' /\ G("mtx") > 0 /\ G("mtx")' = G("mtx") - 1
        \/ CustomerIn(r) /\ ~CustomerIn(r)' /\ G("mtx")' = G("mtx") + 1
    BY <1>7, CustomerLocks
  <2> QED
    BY <1>1, <1>4, <1>5, <1>7, <2>1 DEF LockInv
<1>8. CASE r # b /\ r \notin Users(Customer) /\ LeavesAlone(Text(r), {"mtx", "sleep", "avl"})
  <2>1. G("mtx")' = G("mtx")
    BY <1>8, OthersLeaveBarber
  <2> QED
    BY <1>1, <1>4, <1>5, <1>8, <2>1 DEF LockInv
<1> QED
  BY <1>3, <1>6, <1>7, <1>8

(***************************************************************************)
(* What $avl says of the customers, and who has raised $sleep.             *)
(***************************************************************************)
Asleep(b) == line[b] \in 8 .. 10 \/ (line[b] = 11 /\ waiting[b] # Idle)

\* nobody is about to wake the barber
NobodyWakes ==
  \A c \in Users(Customer) : line[c] \notin {7, 8} /\ (line[c] = 6 => G("avl") >= 1)

\* the barber has counted everybody, somebody is about to wake him, or has done it
SleepInv ==
  \/ G("avl") = -1 /\ G("sleep") = 0 /\ \A c \in Users(Customer) : line[c] \notin 6 .. 9
  \/ G("avl") = 0 /\ G("sleep") = 0 /\ \E c \in Users(Customer) : line[c] \in 6 .. 8
  \/ G("avl") >= 0 /\ G("sleep") = 1 /\ NobodyWakes

\* the copies of $avl in the critical section
CopyInv(c) ==
  /\ line[c] \in {4, 6} => V(c, "tmp") = G("avl")
  /\ line[c] = 5 => V(c, "tmp") = G("avl") + 1

BarberCopyInv(b) ==
  /\ line[b] \in {5, 7} => V(b, "tmp") = G("avl")
  /\ line[b] = 6 => V(b, "tmp") = G("avl") - 1
  /\ line[b] = 7 => G("avl") >= -1
  /\ line[b] \in {8, 9} => G("avl") = -1 /\ G("sleep") = 0

SeatInv(b) ==
  /\ G("avl") \in Int /\ G("sleep") \in Int
  /\ \A c \in Users(Customer) : CopyInv(c)
  /\ BarberCopyInv(b)
  /\ Asleep(b) => SleepInv
  /\ ~Asleep(b) => G("sleep") = 0 /\ (line[b] # 7 => G("avl") >= 0) /\ NobodyWakes

LEMMA CustomerSeat ==
  ASSUME MachineInv, NEW b \in Users(Barber), LockInv(b), SeatInv(b),
         NEW c \in Users(Customer), c # b, Text(c) = Customer, Step(c)
  PROVE  SeatInv(b)'
<1>1. /\ Users(Customer)' = Users(Customer) /\ c \in Programs /\ b \in Programs
      /\ line'[b] = line[b] /\ waiting'[b] = waiting[b] /\ V(b, "tmp")' = V(b, "tmp")
      /\ \A d \in Users(Customer) : d # c => line'[d] = line[d] /\ V(d, "tmp")' = V(d, "tmp")
  <2>1. Users(Customer)' = Users(Customer) /\ c \in Programs /\ b \in Programs
    BY StepAlone, SameUsers DEF Alone, Users
  <2>2. \A q \in Programs \ {c} : /\ line'[q] = line[q] /\ waiting'[q] = waiting[q]
                                  /\ V(q, "tmp")' = V(q, "tmp")
    BY <2>1, StepAlone DEF Alone, V
  <2> QED
    BY <2>1, <2>2 DEF Users
<1>2. Asleep(b)' <=> Asleep(b)
  BY <1>1 DEF Asleep
<1>3. /\ line[c] \in 3 .. 9 => \A d \in Users(Customer) : d # c => line[d] \notin 3 .. 9
      /\ line[c] \in 3 .. 9 => line[b] \notin 5 .. 9
  BY DEF LockInv, CustomerIn, BarberIn
\* the lines at which it does not matter for the barber where the customer is
<1>4. ASSUME G("avl")' = G("avl"), G("sleep")' = G("sleep"), CopyInv(c)',
             line[c] \notin 6 .. 8, line'[c] \notin 6 .. 9
      PROVE  SeatInv(b)'
  <2>1. \A d \in Users(Customer) : CopyInv(d)'
    BY <1>1, <1>4 DEF SeatInv, CopyInv
  <2>2. BarberCopyInv(b)'
    BY <1>1, <1>4 DEF SeatInv, BarberCopyInv
  <2>3. NobodyWakes => NobodyWakes'
    BY <1>1, <1>4 DEF NobodyWakes
  <2>4. SleepInv => SleepInv'
    BY <1>1, <1>4, <2>3 DEF SleepInv
  <2> QED
    BY <1>1, <1>2, <1>4, <2>1, <2>2, <2>3, <2>4 DEF SeatInv
<1>5. CASE waiting[c] # Idle
  <2>1. line[c] = 2 /\ line'[c] = 2 /\ G("avl")' = G("avl") /\ G("sleep")' = G("sleep")
    BY <1>1, <1>5, CustomerWaits, Takes, BarberKeys DEF Puts
  <2> QED
    BY <1>4, <2>1 DEF CopyInv
<1>6. CASE waiting[c] = Idle
  <2>0. line[c] \in 1 .. 10
    BY <1>1, <1>6, CustomerMoves
  <2>1. CASE line[c] \in {1, 2, 10}
    <3>1. line'[c] \in {0, 2, 3} /\ G("avl")' = G("avl") /\ G("sleep")' = G("sleep")
      BY <1>1, <1>6, <2>1, CustomerMoves, BarberKeys DEF Asked, Quiet, Keeps
    <3> QED
      BY <1>4, <2>1, <3>1 DEF CopyInv
  <2>2. CASE line[c] = 3
    <3>1. /\ line'[c] = 4 /\ G("avl")' = G("avl") /\ G("sleep")' = G("sleep")
          /\ V(c, "tmp")' = G("avl")
      BY <1>1, <1>6, <2>2, CustomerMoves, BarberKeys DEF Bound, Binds, Keeps, V
    <3> QED
      BY <1>4, <2>2, <3>1 DEF CopyInv
  <2>3. CASE line[c] = 4
    <3>1. /\ line'[c] = 5 /\ G("avl")' = G("avl") /\ G("sleep")' = G("sleep")
          /\ V(c, "tmp")' = V(c, "tmp") + 1
      BY <1>1, <1>6, <2>3, CustomerMoves, BarberKeys DEF Bound, Binds, Keeps, V
    <3>2. V(c, "tmp") = G("avl")
      BY <2>3 DEF SeatInv, CopyInv
    <3> QED
      BY <1>4, <2>3, <3>1, <3>2 DEF CopyInv
  <2>4. CASE line[c] = 5
    <3>1. /\ line'[c] = 6 /\ G("avl")' = V(c, "tmp") /\ G("sleep")' = G("sleep")
          /\ V(c, "tmp")' = V(c, "tmp")
      BY <1>1, <1>6, <2>4, CustomerMoves, BarberKeys DEF Put, Puts, Own, V
    <3>2. V(c, "tmp") = G("avl") + 1
      BY <2>4 DEF SeatInv, CopyInv
    <3>3. \A d \in Users(Customer) : CopyInv(d)'
      BY <1>1, <1>3, <2>4, <3>1 DEF CopyInv
    <3>4. BarberCopyInv(b)'
      BY <1>1, <1>3, <2>4 DEF BarberCopyInv
    <3>5. G("avl") \in Int /\ G("avl") >= 0 => NobodyWakes'
      BY <1>1, <1>3, <2>4, <3>1, <3>2 DEF NobodyWakes
    <3>6. SleepInv /\ G("avl") \in Int => SleepInv'
      BY <1>1, <1>3, <2>4, <3>1, <3>2, <3>5 DEF SleepInv
    <3> QED
      BY <1>1, <1>2, <1>3, <2>4, <3>1, <3>2, <3>3, <3>4, <3>5, <3>6 DEF SeatInv
  <2>5. CASE line[c] = 6
    <3>1. /\ line'[c] = (IF V(c, "tmp") > 0 THEN 9 ELSE 7)
          /\ G("avl")' = G("avl") /\ G("sleep")' = G("sleep")
      BY <1>1, <1>6, <2>5, CustomerMoves, BarberKeys DEF Quiet, Keeps
    <3>2. V(c, "tmp") = G("avl") /\ G("avl") \in Int
      BY <2>5 DEF SeatInv, CopyInv
    <3>3. \A d \in Users(Customer) : CopyInv(d)'
      BY <1>1, <1>3, <2>5, <3>1 DEF CopyInv
    <3>4. BarberCopyInv(b)'
      BY <1>1, <1>3, <2>5 DEF BarberCopyInv
    <3>5. NobodyWakes => NobodyWakes'
      BY <1>1, <2>5, <3>1, <3>2 DEF NobodyWakes
    <3>6. SleepInv => SleepInv'
      BY <1>1, <1>3, <2>5, <3>1, <3>2, <3>5 DEF SleepInv
    <3> QED
      BY <1>1, <1>2, <1>3, <2>5, <3>1, <3>2, <3>3, <3>4, <3>5, <3>6 DEF SeatInv
  <2>6. CASE line[c] = 7
    <3>1. line'[c] = 8 /\ G("avl")' = G("avl") /\ G("sleep")' = G("sleep")
      BY <1>1, <1>6, <2>6, CustomerMoves, BarberKeys DEF Quiet, Keeps
    <3>2. \A d \in Users(Customer) : CopyInv(d)'
      BY <1>1, <1>3, <2>6, <3>1 DEF CopyInv
    <3>3. BarberCopyInv(b)'
      BY <1>1, <1>3, <2>6 DEF BarberCopyInv
    <3>4. ~NobodyWakes
      BY <2>6 DEF NobodyWakes
    <3>5. SleepInv => SleepInv'
      BY <1>1, <2>6, <3>1, <3>4 DEF SleepInv
    <3> QED
      BY <1>1, <1>2, <3>1, <3>2, <3>3, <3>4, <3>5 DEF SeatInv
  <2>7. CASE line[c] = 8
    <3>1. line'[c] = 9 /\ G("avl")' = G("avl") /\ G("sleep")' = G("sleep") + 1
      BY <1>1, <1>6, <2>7, CustomerMoves, BarberKeys DEF Put, Puts
    <3>2. \A d \in Users(Customer) : CopyInv(d)'
      BY <1>1, <1>3, <2>7, <3>1 DEF CopyInv
    <3>3. BarberCopyInv(b)'
      BY <1>1, <1>3, <2>7 DEF BarberCopyInv
    <3>4. ~NobodyWakes /\ NobodyWakes'
      BY <1>1, <1>3, <2>7, <3>1 DEF NobodyWakes
    <3>5. SleepInv => SleepInv'
      BY <1>1, <2>7, <3>1, <3>4 DEF SleepInv
    <3> QED
      BY <1>1, <1>2, <3>1, <3>2, <3>3, <3>4, <3>5 DEF SeatInv
  <2>8. CASE line[c] = 9
    <3>1. line'[c] = 10 /\ G("avl")' = G("avl") /\ G("sleep")' = G("sleep")
      BY <1>1, <1>6, <2>8, CustomerMoves, BarberKeys DEF Put, Puts
    <3> QED
      BY <1>4, <2>8, <3>1 DEF CopyInv
  <2> QED
    BY <2>0, <2>1, <2>2, <2>3, <2>4, <2>5, <2>6, <2>7, <2>8
<1> QED
  BY <1>5, <1>6

LEMMA BarberSeat ==
  ASSUME MachineInv, NEW b \in Users(Barber), Text(b) = Barber, LockInv(b), SeatInv(b), Step(b),
         b \notin Users(Customer)
  PROVE  SeatInv(b)'
<1>1. /\ Users(Customer)' = Users(Customer) /\ b \in Programs
      /\ \A d \in Users(Customer) : line'[d] = line[d] /\ V(d, "tmp")' = V(d, "tmp")
  <2>1. Users(Customer)' = Users(Customer) /\ b \in Programs
    BY StepAlone, SameUsers DEF Alone, Users
  <2>2. \A q \in Programs \ {b} : line'[q] = line[q] /\ V(q, "tmp")' = V(q, "tmp")
    BY <2>1, StepAlone DEF Alone, V
  <2> QED
    BY <2>1, <2>2 DEF Users
<1>2. BarberIn(b) => \A d \in Users(Customer) : line[d] \notin 3 .. 9
  BY DEF LockInv, CustomerIn
<1>3. ASSUME G("avl")' = G("avl"), G("sleep")' = G("sleep")
      PROVE  /\ \A d \in Users(Customer) : CopyInv(d)'
             /\ NobodyWakes => NobodyWakes'
             /\ SleepInv => SleepInv'
  <2>1. \A d \in Users(Customer) : CopyInv(d)'
    BY <1>1, <1>3 DEF SeatInv, CopyInv
  <2>2. NobodyWakes => NobodyWakes'
    BY <1>1, <1>3 DEF NobodyWakes
  <2>3. SleepInv => SleepInv'
    BY <1>1, <1>3, <2>2 DEF SleepInv
  <2> QED
    BY <2>1, <2>2, <2>3
\* the barber goes on where nobody asks what he has read
<1>4. ASSUME G("avl")' = G("avl"), G("sleep")' = G("sleep"), Asleep(b)' <=> Asleep(b),
             line[b] # 7, line'[b] \notin 5 .. 9
      PROVE  SeatInv(b)'
  BY <1>1, <1>3, <1>4 DEF SeatInv, BarberCopyInv
<1>5. CASE waiting[b] # Idle /\ waiting[b] = <<"mtx", 0>>
  <2>1. line[b] \in {4, 12}
    <3>1. <<"mtx", 0>>[1] # <<"sleep", 0>>[1]
      OBVIOUS
    <3>2. <<"mtx", 0>> # <<"sleep", 0>>
      BY <3>1
    <3> QED
      BY <1>1, <1>5, <3>2, BarberWaits
  <2>2. line'[b] = line[b] /\ G("avl")' = G("avl") /\ G("sleep")' = G("sleep")
    BY <1>1, <1>5, Takes, BarberKeys DEF Puts
  <2> QED
    BY <1>4, <2>1, <2>2 DEF Asleep
<1>6. CASE waiting[b] # Idle /\ waiting[b] = <<"sleep", 0>>
  <2>1. line[b] = 11
    <3>1. <<"mtx", 0>>[1] # <<"sleep", 0>>[1]
      OBVIOUS
    <3>2. <<"mtx", 0>> # <<"sleep", 0>>
      BY <3>1
    <3> QED
      BY <1>1, <1>6, <3>2, BarberWaits
  <2>2. /\ line'[b] = line[b] /\ waiting'[b] = Idle /\ G("avl")' = G("avl")
        /\ G("sleep") > 0 /\ G("sleep")' = G("sleep") - 1
    BY <1>1, <1>6, Takes, BarberKeys DEF Puts
  <2>3. Asleep(b) /\ ~Asleep(b)'
    BY <1>6, <2>1, <2>2 DEF Asleep
  <2>4. G("sleep") = 1 /\ G("avl") >= 0 /\ NobodyWakes
    BY <2>2, <2>3 DEF SeatInv, SleepInv
  <2>5. NobodyWakes'
    BY <1>1, <2>2, <2>4 DEF NobodyWakes
  <2>6. \A d \in Users(Customer) : CopyInv(d)'
    BY <1>1, <2>2 DEF SeatInv, CopyInv
  <2> QED
    BY <1>1, <2>1, <2>2, <2>3, <2>4, <2>5, <2>6 DEF SeatInv, BarberCopyInv
<1>7. CASE waiting[b] = Idle
  <2>0. line[b] \in 1 .. 16
    BY <1>1, <1>7, BarberMoves
  <2>1. CASE line[b] \in {1, 3, 9, 10, 11, 12, 13, 14, 15, 16}
    <3>1. /\ G("avl")' = G("avl") /\ G("sleep")' = G("sleep")
          /\ line'[b] \in {2, 3, 4, 10, 11, 12, 13, 14, 15, 16}
          /\ line[b] \in {9, 10} <=> line'[b] \in {10, 11}
          /\ line'[b] = 11 => waiting'[b] # Idle
      BY <1>1, <1>7, <2>1, BarberMoves, BarberKeys DEF Put, Puts, Quiet, Asked, Keeps
    <3>2. Asleep(b)' <=> Asleep(b)
      BY <1>7, <2>1, <3>1 DEF Asleep
    <3> QED
      BY <1>4, <2>1, <3>1, <3>2
  <2>2. CASE line[b] = 2
    <3>1. line'[b] = 3 /\ G("avl")' = G("avl") /\ G("sleep")' = 0
      BY <1>1, <1>7, <2>2, BarberMoves, BarberKeys DEF Put, Puts
    <3>2. G("sleep") = 0 /\ ~Asleep(b) /\ ~Asleep(b)'
      BY <2>2, <3>1 DEF SeatInv, Asleep
    <3> QED
      BY <1>4, <2>2, <3>1, <3>2
  <2>3. CASE line[b] = 4
    <3>1. /\ line'[b] = 5 /\ G("avl")' = G("avl") /\ G("sleep")' = G("sleep")
          /\ V(b, "tmp")' = G("avl")
      BY <1>1, <1>7, <2>3, BarberMoves, BarberKeys DEF Bound, Binds, Keeps, V
    <3>2. ~Asleep(b) /\ ~Asleep(b)'
      BY <2>3, <3>1 DEF Asleep
    <3> QED
      BY <1>1, <1>3, <2>3, <3>1, <3>2 DEF SeatInv, BarberCopyInv
  <2>4. CASE line[b] = 5
    <3>1. /\ line'[b] = 6 /\ G("avl")' = G("avl") /\ G("sleep")' = G("sleep")
          /\ V(b, "tmp")' = V(b, "tmp") - 1
      BY <1>1, <1>7, <2>4, BarberMoves, BarberKeys DEF Bound, Binds, Keeps, V
    <3>2. ~Asleep(b) /\ ~Asleep(b)'
      BY <2>4, <3>1 DEF Asleep
    <3> QED
      BY <1>1, <1>3, <2>4, <3>1, <3>2 DEF SeatInv, BarberCopyInv
  <2>5. CASE line[b] = 6
    <3>1. /\ line'[b] = 7 /\ G("avl")' = V(b, "tmp") /\ G("sleep")' = G("sleep")
          /\ V(b, "tmp")' = V(b, "tmp")
      BY <1>1, <1>7, <2>5, BarberMoves, BarberKeys DEF Put, Puts, Own, V
    <3>2. ~Asleep(b) /\ ~Asleep(b)'
      BY <2>5, <3>1 DEF Asleep
    <3>3. G("avl") \in Int /\ G("avl") >= 0 /\ V(b, "tmp") = G("avl") - 1
      BY <2>5, <3>2 DEF SeatInv, BarberCopyInv
    <3>4. \A d \in Users(Customer) : line[d] \notin 3 .. 9
      BY <1>2, <2>5 DEF BarberIn
    <3>5. NobodyWakes' /\ \A d \in Users(Customer) : CopyInv(d)'
      BY <1>1, <3>4 DEF NobodyWakes, CopyInv
    <3>6. BarberCopyInv(b)'
      BY <3>1, <3>3 DEF BarberCopyInv
    <3> QED
      BY <1>1, <3>1, <3>2, <3>3, <3>5, <3>6 DEF SeatInv
  <2>6. CASE line[b] = 7
    <3>1. /\ line'[b] = (IF V(b, "tmp") >= 0 THEN 12 ELSE 8) /\ waiting'[b] = Idle
          /\ G("avl")' = G("avl") /\ G("sleep")' = G("sleep")
      BY <1>1, <1>7, <2>6, BarberMoves, BarberKeys DEF Quiet, Keeps
    <3>2. ~Asleep(b) /\ NobodyWakes /\ G("sleep") = 0
      BY <2>6 DEF Asleep, SeatInv
    <3>3. G("avl") \in Int /\ G("avl") >= -1 /\ V(b, "tmp") = G("avl")
      BY <2>6 DEF SeatInv, BarberCopyInv
    <3>4. \A d \in Users(Customer) : line[d] \notin 3 .. 9
      BY <1>2, <2>6 DEF BarberIn
    <3>5. CASE G("avl") >= 0
      <4>1. ~Asleep(b)' /\ BarberCopyInv(b)'
        BY <3>1, <3>3, <3>5 DEF Asleep, BarberCopyInv
      <4> QED
        BY <1>1, <1>3, <3>1, <3>2, <3>3, <3>5, <4>1 DEF SeatInv
    <3>6. CASE ~(G("avl") >= 0)
      <4>1. Asleep(b)' /\ BarberCopyInv(b)'
        BY <3>1, <3>2, <3>3, <3>6 DEF Asleep, BarberCopyInv
      <4>2. G("avl") = -1
        BY <3>3, <3>6
      <4>3. SleepInv'
        BY <1>1, <3>1, <3>2, <3>4, <4>2 DEF SleepInv
      <4> QED
        BY <1>1, <1>3, <3>1, <3>2, <3>3, <4>1, <4>3 DEF SeatInv
    <3> QED
      BY <3>5, <3>6
  <2>7. CASE line[b] = 8
    <3>1. line'[b] = 9 /\ G("avl")' = G("avl") /\ G("sleep")' = G("sleep")
      BY <1>1, <1>7, <2>7, BarberMoves, BarberKeys DEF Quiet, Keeps
    <3>2. Asleep(b) /\ Asleep(b)'
      BY <2>7, <3>1 DEF Asleep
    <3> QED
      BY <1>1, <1>3, <2>7, <3>1, <3>2 DEF SeatInv, BarberCopyInv
  <2> QED
    BY <2>0, <2>1, <2>2, <2>3, <2>4, <2>5, <2>6, <2>7
<1> QED
  BY <1>1, <1>5, <1>6, <1>7, BarberWaits

BarberInv == \A b \in Users(Barber) : LockInv(b) /\ SeatInv(b)

LEMMA InitBarber == Init => BarberInv
<1> SUFFICES ASSUME Init, NEW b \in Users(Barber) PROVE LockInv(b) /\ SeatInv(b)
  BY DEF BarberInv
<1>1. b \in Programs /\ line[b] \in {0, 1} /\ \A c \in Users(Customer) : line[c] \in {0, 1}
  BY InitGlobals DEF Users
<1>2. G("mtx") = 0 /\ G("sleep") = 0 /\ G("avl") = 0
  BY InitGlobals, BarberKeys
<1>3. LockInv(b)
  BY <1>1, <1>2 DEF LockInv, CustomerIn, BarberIn
<1>4. /\ \A c \in Users(Customer) : CopyInv(c)
      /\ BarberCopyInv(b) /\ ~Asleep(b) /\ NobodyWakes
  BY <1>1 DEF CopyInv, BarberCopyInv, Asleep, NobodyWakes
<1> QED
  BY <1>2, <1>3, <1>4 DEF SeatInv

LEMMA NextBarber ==
  ASSUME MachineInv, BarberInv, NEW r \in Programs, Step(r)
  PROVE  BarberInv'
<1>1. scenario' = scenario /\ Users(Barber)' = Users(Barber) /\ Users(Customer)' = Users(Customer)
  BY StepAlone, SameUsers DEF Alone
<1> SUFFICES ASSUME NEW b \in Users(Barber) PROVE LockInv(b)' /\ SeatInv(b)'
  BY <1>1 DEF BarberInv
<1>2. LockInv(b) /\ SeatInv(b)
  BY DEF BarberInv
<1>3. LockInv(b)'
  BY <1>2, NextLock
<1>4. /\ b \in Programs /\ Text(b) = Barber /\ b \notin Users(Customer)
      /\ \/ r = b
         \/ r # b /\ r \in Users(Customer) /\ Text(r) = Customer
         \/ r # b /\ r \notin Users(Customer) /\ LeavesAlone(Text(r), {"mtx", "sleep", "avl"})
  BY BarberUsers
<1>5. CASE r = b
  BY <1>2, <1>3, <1>4, <1>5, BarberSeat
<1>6. CASE r # b /\ r \in Users(Customer) /\ Text(r) = Customer
  BY <1>2, <1>3, <1>6, CustomerSeat
<1>7. CASE r # b /\ r \notin Users(Customer) /\ LeavesAlone(Text(r), {"mtx", "sleep", "avl"})
  <2>1. G("sleep")' = G("sleep") /\ G("avl")' = G("avl")
    BY <1>7, OthersLeaveBarber
  <2>2. \A q \in Programs \ {r} : /\ line'[q] = line[q] /\ waiting'[q] = waiting[q]
                                  /\ V(q, "tmp")' = V(q, "tmp")
    BY StepAlone DEF Alone, V
  <2>3. \A c \in Users(Customer) : line'[c] = line[c] /\ V(c, "tmp")' = V(c, "tmp")
    BY <1>7, <2>2 DEF Users
  <2>4. line'[b] = line[b] /\ waiting'[b] = waiting[b] /\ V(b, "tmp")' = V(b, "tmp")
    BY <1>4, <1>7, <2>2
  <2>5. /\ \A c \in Users(Customer) : CopyInv(c)'
        /\ BarberCopyInv(b)' /\ (Asleep(b)' <=> Asleep(b)) /\ (NobodyWakes => NobodyWakes')
    BY <1>1, <1>2, <2>1, <2>3, <2>4 DEF SeatInv, CopyInv, BarberCopyInv, Asleep, NobodyWakes
  <2>6. SleepInv => SleepInv'
    BY <1>1, <2>1, <2>3, <2>5 DEF SleepInv
  <2> QED
    BY <1>1, <1>2, <1>3, <2>1, <2>4, <2>5, <2>6 DEF SeatInv
<1> QED
  BY <1>4, <1>5, <1>6, <1>7

LEMMA SameBarber ==
  ASSUME UNCHANGED system
  PROVE  BarberInv => BarberInv'
<1>1. /\ \A p : (Text(p)' = Text(p)) /\ line'[p] = line[p] /\ waiting'[p] = waiting[p]
      /\ \A p, x : V(p, x)' = V(p, x)
      /\ \A k : G(k)' = G(k)
      /\ \A t : Users(t)' = Users(t)
  BY SameUsers DEF system, Text, V, G
<1>2. ASSUME NEW b PROVE LockInv(b) => LockInv(b)'
  BY <1>1 DEF LockInv, CustomerIn, BarberIn
<1>3. /\ \A c : CopyInv(c) => CopyInv(c)'
      /\ \A b : (BarberCopyInv(b) => BarberCopyInv(b)') /\ (Asleep(b)' <=> Asleep(b))
      /\ NobodyWakes => NobodyWakes'
  BY <1>1 DEF CopyInv, BarberCopyInv, Asleep, NobodyWakes
<1>4. SleepInv => SleepInv'
  BY <1>1, <1>3 DEF SleepInv
<1>5. ASSUME NEW b PROVE SeatInv(b) => SeatInv(b)'
  BY <1>1, <1>3, <1>4 DEF SeatInv
<1> QED
  BY <1>1, <1>2, <1>5 DEF BarberInv

(***************************************************************************)
(* The barber sleeps only when he has counted every customer that has left *)
(* the critical section, and is woken only while he sleeps or goes to      *)
(* (Barber.txt, Customer.txt), for any number of customers.                *)
(***************************************************************************)
THEOREM BarberSleepsWell == Spec => []BarberSleepsAlone
<1>1. MachineInv /\ BarberInv /\ [Next]_vars => BarberInv'
  BY NextBarber, SameBarber, NextSteps DEF Overrun, vars
<1>2. ASSUME MachineInv, BarberInv, NEW p \in Users(Barber)
      PROVE  /\ G("sleep") > 0 => waiting[p] = <<"sleep", 0>> \/ (Runs(p) /\ Here(p) = DOWN("sleep"))
             /\ waiting[p] = <<"sleep", 0>> /\ ~(G("sleep") > 0) /\ G("mtx") = 1 => G("avl") = -1
  <2>0. MachineInv
    BY <1>2
  <2>1. p \in Programs /\ Text(p) = Barber /\ LockInv(p) /\ SeatInv(p)
    BY <1>2 DEF BarberInv, Users, Executing
  <2>2. /\ <<"sleep", 0>> # Idle /\ <<"mtx", 0>> # <<"sleep", 0>>
    <3>1. <<"sleep", 0>> # Idle
      BY MachineAssumption, BarberKeys
    <3>2. <<"mtx", 0>>[1] # <<"sleep", 0>>[1]
      OBVIOUS
    <3>3. <<"mtx", 0>> # <<"sleep", 0>>
      BY <3>2
    <3> QED
      BY <3>1, <3>3
  <2>3. ASSUME G("sleep") > 0, waiting[p] # <<"sleep", 0>>
        PROVE  Runs(p) /\ Here(p) = DOWN("sleep")
    <3>1. Asleep(p)
      BY <2>1, <2>3 DEF SeatInv
    <3>2. line[p] \notin {8, 9}
      BY <2>1, <2>3 DEF SeatInv, BarberCopyInv
    <3>3. line[p] = 10 /\ waiting[p] = Idle
      BY <2>0, <2>1, <2>3, <3>1, <3>2, BarberWaits DEF Asleep
    <3>4. Started(p)
      BY <2>0, <2>1, <3>3, HasStarted
    <3>5. Barber[10] = DOWN("sleep")
      BY DEF Barber
    <3> QED
      BY <2>1, <3>3, <3>4, <3>5 DEF Runs, Here
  <2>4. ASSUME waiting[p] = <<"sleep", 0>>, ~(G("sleep") > 0), G("mtx") = 1
        PROVE  G("avl") = -1
    <3>1. line[p] = 11 /\ waiting[p] # Idle
      BY <2>0, <2>1, <2>2, <2>4, BarberWaits
    <3>2. SleepInv
      BY <2>1, <3>1 DEF SeatInv, Asleep
    <3>3. \A c \in Users(Customer) : line[c] \notin 3 .. 9
      BY <2>1, <2>4 DEF LockInv, CustomerIn
    <3> QED
      BY <2>4, <3>2, <3>3 DEF SleepInv
  <2> QED
    BY <2>3, <2>4
<1>3. MachineInv /\ BarberInv => BarberSleepsAlone
  BY <1>2 DEF BarberSleepsAlone, G, Free
<1> QED
  BY <1>1, <1>3, InitBarber, MachineInvariant, PTL DEF Spec

-----------------------------------------------------------------------------
(***************************************************************************)
(* Readers and one writer.  The lines of InitRW.txt, Reader.txt and        *)
(* Writer.txt.                                                             *)
(***************************************************************************)
LEMMA InitRWLines ==
  /\ Len(InitRW) = 1 /\ DOMAIN InitRW = 1 .. 1
  /\ Plain(InitRW[1], STORE("mtx", "1"), "STORE")
<1>1. InitRW[1] = STORE("mtx", "1")
  BY DEF InitRW
<1>2. Len(InitRW) = 1 /\ DOMAIN InitRW = 1 .. 1
  BY DEF InitRW
<1> QED
  BY <1>1, <1>2, Constructors

LEMMA InitRWPlaces ==
  /\ \A n \in 1 .. 1 : InitRW[n].op = "DOWN" => n \in {}
<1>1. InitRW[1].op = "STORE"
  BY InitRWLines, LineFacts
<1> QED
  BY <1>1, InitRWLines DEF Labels

LEMMA InitRWMoves ==
  ASSUME MachineInv, NEW p \in Programs, Text(p) = InitRW, Step(p), waiting[p] = Idle
  PROVE  /\ line[p] \in 1 .. 1
         /\ line[p] = 1 => line'[p] = 0 /\ Put(p, "mtx", 1)
<1>0. line[p] \in 1 .. 1 /\ Len(Text(p)) = 1
  BY InitRWLines, StepLine
<1>1. ASSUME line[p] = 1 PROVE line'[p] = 0 /\ Put(p, "mtx", 1)
  <2>1. Does(p, STORE("mtx", "1")) /\ Follow(p, 1) = 0
    BY <1>0, <1>1, InitRWLines, LineFacts DEF Does, Here, Follow
  <2> QED
    BY <1>1, <2>1, Stores, Operand, NamesAssumption DEF Put, V
<1> QED
  BY <1>0, <1>1

LEMMA ReaderLines ==
  /\ Len(Reader) = 44 /\ DOMAIN Reader = 1 .. 44
  /\ Plain(Reader[1], DOWN("mtx"), "DOWN")
  /\ Plain(Reader[2], LOAD("eax", "wrs"), "LOAD")
  /\ Plain(Reader[3], LOAD("ebx", "ww"), "LOAD")
  /\ Plain(Reader[4], ADD("eax", "ebx", "eax"), "ADD")
  /\ Plain(Reader[5], BRLE("eax", "0", "LNOWAITINQUEUE"), "BRLE")
  /\ Plain(Reader[6], LOAD("eax", "rw"), "LOAD")
  /\ Plain(Reader[7], ADD("eax", "eax", "1"), "ADD")
  /\ Plain(Reader[8], STORE("rw", "eax"), "STORE")
  /\ Plain(Reader[9], UP("mtx"), "UP")
  /\ Plain(Reader[10], DOWN("rq"), "DOWN")
  /\ Plain(Reader[11], LOAD("eax", "rw"), "LOAD")
  /\ Plain(Reader[12], BRLE("eax", "0", "LNOWAKEUPREADER"), "BRLE")
  /\ Plain(Reader[13], SUB("eax", "eax", "1"), "SUB")
  /\ Plain(Reader[14], STORE("rw", "eax"), "STORE")
  /\ Plain(Reader[15], LOAD("eax", "rds"), "LOAD")
  /\ Plain(Reader[16], ADD("eax", "eax", "1"), "ADD")
  /\ Plain(Reader[17], STORE("rds", "eax"), "STORE")
  /\ Plain(Reader[18], UP("rq"), "UP")
  /\ Plain(Reader[19], BRA("LENTERCS"), "BRA")
  /\ Marked(Reader[20], UP("mtx"), "UP", "LNOWAKEUPREADER")
  /\ Plain(Reader[21], BRA("LENTERCS"), "BRA")
  /\ Marked(Reader[22], LOAD("eax", "rds"), "LOAD", "LNOWAITINQUEUE")
  /\ Plain(Reader[23], ADD("eax", "eax", "1"), "ADD")
  /\ Plain(Reader[24], STORE("rds", "eax"), "STORE")
  /\ Plain(Reader[25], UP("mtx"), "UP")
  /\ Marked(Reader[26], SAY, "PRINT", "LENTERCS")
  /\ Plain(Reader[27], SLEEP, "SLEEP")
  /\ Plain(Reader[28], DOWN("mtx"), "DOWN")
  /\ Plain(Reader[29], LOAD("eax", "rds"), "LOAD")
  /\ Plain(Reader[30], SUB("eax", "eax", "1"), "SUB")
  /\ Plain(Reader[31], STORE("rds", "eax"), "STORE")
  /\ Plain(Reader[32], BREQ("eax", "0", "LNOREADERSLEFT"), "BREQ")
  /\ Plain(Reader[33], UP("mtx"), "UP")
  /\ Plain(Reader[34], RETURN, "RETURN")
  /\ Marked(Reader[35], LOAD("eax", "ww"), "LOAD", "LNOREADERSLEFT")
  /\ Plain(Reader[36], BRGT("eax", "0", "LWAKEUPWRITER"), "BRGT")
  /\ Plain(Reader[37], UP("mtx"), "UP")
  /\ Plain(Reader[38], RETURN, "RETURN")
  /\ Marked(Reader[39], SUB("eax", "eax", "1"), "SUB", "LWAKEUPWRITER")
  /\ Plain(Reader[40], STORE("ww", "eax"), "STORE")
  /\ Plain(Reader[41], LOAD("eax", "wrs"), "LOAD")
  /\ Plain(Reader[42], ADD("eax", "eax", "1"), "ADD")
  /\ Plain(Reader[43], STORE("wrs", "eax"), "STORE")
  /\ Plain(Reader[44], UP("wq"), "UP")
<1>1. Reader[1] = DOWN("mtx")
  BY DEF Reader
<1>2. Reader[2] = LOAD("eax", "wrs")
  BY DEF Reader
<1>3. Reader[3] = LOAD("ebx", "ww")
  BY DEF Reader
<1>4. Reader[4] = ADD("eax", "ebx", "eax")
  BY DEF Reader
<1>5. Reader[5] = BRLE("eax", "0", "LNOWAITINQUEUE")
  BY DEF Reader
<1>6. Reader[6] = LOAD("eax", "rw")
  BY DEF Reader
<1>7. Reader[7] = ADD("eax", "eax", "1")
  BY DEF Reader
<1>8. Reader[8] = STORE("rw", "eax")
  BY DEF Reader
<1>9. Reader[9] = UP("mtx")
  BY DEF Reader
<1>10. Reader[10] = DOWN("rq")
  BY DEF Reader
<1>11. Reader[11] = LOAD("eax", "rw")
  BY DEF Reader
<1>12. Reader[12] = BRLE("eax", "0", "LNOWAKEUPREADER")
  BY DEF Reader
<1>13. Reader[13] = SUB("eax", "eax", "1")
  BY DEF Reader
<1>14. Reader[14] = STORE("rw", "eax")
  BY DEF Reader
<1>15. Reader[15] = LOAD("eax", "rds")
  BY DEF Reader
<1>16. Reader[16] = ADD("eax", "eax", "1")
  BY DEF Reader
<1>17. Reader[17] = STORE("rds", "eax")
  BY DEF Reader
<1>18. Reader[18] = UP("rq")
  BY DEF Reader
<1>19. Reader[19] = BRA("LENTERCS")
  BY DEF Reader
<1>20. Reader[20] = At("LNOWAKEUPREADER", UP("mtx"))
  BY DEF Reader
<1>21. Reader[21] = BRA("LENTERCS")
  BY DEF Reader
<1>22. Reader[22] = At("LNOWAITINQUEUE", LOAD("eax", "rds"))
  BY DEF Reader
<1>23. Reader[23] = ADD("eax", "eax", "1")
  BY DEF Reader
<1>24. Reader[24] = STORE("rds", "eax")
  BY DEF Reader
<1>25. Reader[25] = UP("mtx")
  BY DEF Reader
<1>26. Reader[26] = At("LENTERCS", SAY)
  BY DEF Reader
<1>27. Reader[27] = SLEEP
  BY DEF Reader
<1>28. Reader[28] = DOWN("mtx")
  BY DEF Reader
<1>29. Reader[29] = LOAD("eax", "rds")
  BY DEF Reader
<1>30. Reader[30] = SUB("eax", "eax", "1")
  BY DEF Reader
<1>31. Reader[31] = STORE("rds", "eax")
  BY DEF Reader
<1>32. Reader[32] = BREQ("eax", "0", "LNOREADERSLEFT")
  BY DEF Reader
<1>33. Reader[33] = UP("mtx")
  BY DEF Reader
<1>34. Reader[34] = RETURN
  BY DEF Reader
<1>35. Reader[35] = At("LNOREADERSLEFT", LOAD("eax", "ww"))
  BY DEF Reader
<1>36. Reader[36] = BRGT("eax", "0", "LWAKEUPWRITER")
  BY DEF Reader
<1>37. Reader[37] = UP("mtx")
  BY DEF Reader
<1>38. Reader[38] = RETURN
  BY DEF Reader
<1>39. Reader[39] = At("LWAKEUPWRITER", SUB("eax", "eax", "1"))
  BY DEF Reader
<1>40. Reader[40] = STORE("ww", "eax")
  BY DEF Reader
<1>41. Reader[41] = LOAD("eax", "wrs")
  BY DEF Reader
<1>42. Reader[42] = ADD("eax", "eax", "1")
  BY DEF Reader
<1>43. Reader[43] = STORE("wrs", "eax")
  BY DEF Reader
<1>44. Reader[44] = UP("wq")
  BY DEF Reader
<1>45. Len(Reader) = 44 /\ DOMAIN Reader = 1 .. 44
  BY DEF Reader
<1> QED
  BY <1>1, <1>2, <1>3, <1>4, <1>5, <1>6, <1>7, <1>8, <1>9, <1>10, <1>11, <1>12, <1>13,
     <1>14, <1>15, <1>16, <1>17, <1>18, <1>19, <1>20, <1>21, <1>22, <1>23, <1>24,
     <1>25, <1>26, <1>27, <1>28, <1>29, <1>30, <1>31, <1>32, <1>33, <1>34, <1>35,
     <1>36, <1>37, <1>38, <1>39, <1>40, <1>41, <1>42, <1>43, <1>44, <1>45, Constructors

LEMMA ReaderPlaces ==
  /\ \A n \in 1 .. 44 : /\ Reader[n].op = "DOWN" => n \in {1, 10, 28}
                        /\ Reader[n].op = "SLEEP" => n = 27
  /\ Labels(Reader, "LNOWAKEUPREADER", 20)
  /\ Labels(Reader, "LNOWAITINQUEUE", 22)
  /\ Labels(Reader, "LENTERCS", 26)
  /\ Labels(Reader, "LNOREADERSLEFT", 35)
  /\ Labels(Reader, "LWAKEUPWRITER", 39)
<1>1. Reader[1].op = "DOWN" /\ Reader[2].op = "LOAD" /\ Reader[3].op = "LOAD"
     /\ Reader[4].op = "ADD" /\ Reader[5].op = "BRLE" /\ Reader[6].op = "LOAD"
     /\ Reader[7].op = "ADD" /\ Reader[8].op = "STORE" /\ Reader[9].op = "UP"
     /\ Reader[10].op = "DOWN" /\ Reader[11].op = "LOAD" /\ Reader[12].op = "BRLE"
     /\ Reader[13].op = "SUB" /\ Reader[14].op = "STORE" /\ Reader[15].op = "LOAD"
     /\ Reader[16].op = "ADD" /\ Reader[17].op = "STORE" /\ Reader[18].op = "UP"
     /\ Reader[19].op = "BRA" /\ Reader[20].op = "UP" /\ Reader[21].op = "BRA"
     /\ Reader[22].op = "LOAD" /\ Reader[23].op = "ADD" /\ Reader[24].op = "STORE"
     /\ Reader[25].op = "UP" /\ Reader[26].op = "PRINT" /\ Reader[27].op = "SLEEP"
     /\ Reader[28].op = "DOWN" /\ Reader[29].op = "LOAD" /\ Reader[30].op = "SUB"
     /\ Reader[31].op = "STORE" /\ Reader[32].op = "BREQ" /\ Reader[33].op = "UP"
     /\ Reader[34].op = "RETURN" /\ Reader[35].op = "LOAD" /\ Reader[36].op = "BRGT"
     /\ Reader[37].op = "UP" /\ Reader[38].op = "RETURN" /\ Reader[39].op = "SUB"
     /\ Reader[40].op = "STORE" /\ Reader[41].op = "LOAD" /\ Reader[42].op = "ADD"
     /\ Reader[43].op = "STORE" /\ Reader[44].op = "UP"
  BY ReaderLines, LineFacts
<1>2. Reader[1].label \notin SampleLabels /\ Reader[2].label \notin SampleLabels
     /\ Reader[3].label \notin SampleLabels /\ Reader[4].label \notin SampleLabels
     /\ Reader[5].label \notin SampleLabels /\ Reader[6].label \notin SampleLabels
     /\ Reader[7].label \notin SampleLabels /\ Reader[8].label \notin SampleLabels
     /\ Reader[9].label \notin SampleLabels /\ Reader[10].label \notin SampleLabels
     /\ Reader[11].label \notin SampleLabels /\ Reader[12].label \notin SampleLabels
     /\ Reader[13].label \notin SampleLabels /\ Reader[14].label \notin SampleLabels
     /\ Reader[15].label \notin SampleLabels /\ Reader[16].label \notin SampleLabels
     /\ Reader[17].label \notin SampleLabels /\ Reader[18].label \notin SampleLabels
     /\ Reader[19].label \notin SampleLabels /\ Reader[21].label \notin SampleLabels
     /\ Reader[23].label \notin SampleLabels /\ Reader[24].label \notin SampleLabels
     /\ Reader[25].label \notin SampleLabels /\ Reader[27].label \notin SampleLabels
     /\ Reader[28].label \notin SampleLabels /\ Reader[29].label \notin SampleLabels
     /\ Reader[30].label \notin SampleLabels /\ Reader[31].label \notin SampleLabels
     /\ Reader[32].label \notin SampleLabels /\ Reader[33].label \notin SampleLabels
     /\ Reader[34].label \notin SampleLabels /\ Reader[36].label \notin SampleLabels
     /\ Reader[37].label \notin SampleLabels /\ Reader[38].label \notin SampleLabels
     /\ Reader[40].label \notin SampleLabels /\ Reader[41].label \notin SampleLabels
     /\ Reader[42].label \notin SampleLabels /\ Reader[43].label \notin SampleLabels
     /\ Reader[44].label \notin SampleLabels
  BY ReaderLines, PlainLabel
<1>3. Reader[20].label = "LNOWAKEUPREADER" /\ Reader[22].label = "LNOWAITINQUEUE"
     /\ Reader[26].label = "LENTERCS" /\ Reader[35].label = "LNOREADERSLEFT"
     /\ Reader[39].label = "LWAKEUPWRITER"
  BY ReaderLines, LineFacts
<1>4. "LNOWAKEUPREADER" \in SampleLabels /\ "LNOWAITINQUEUE" \in SampleLabels
     /\ "LENTERCS" \in SampleLabels /\ "LNOREADERSLEFT" \in SampleLabels
     /\ "LWAKEUPWRITER" \in SampleLabels
  BY DEF SampleLabels
<1> QED
  BY <1>1, <1>2, <1>3, <1>4, ReaderLines DEF Labels

LEMMA ReaderMoves ==
  ASSUME MachineInv, NEW p \in Programs, Text(p) = Reader, Step(p), waiting[p] = Idle
  PROVE  /\ line[p] \in 1 .. 44
         /\ line[p] = 1 => line'[p] = 2 /\ Asked(p, "mtx")
         /\ line[p] = 2 => line'[p] = 3 /\ Bound(p, "eax", G("wrs"))
         /\ line[p] = 3 => line'[p] = 4 /\ Bound(p, "ebx", G("ww"))
         /\ line[p] = 4 => line'[p] = 5 /\ Bound(p, "eax", V(p, "ebx") + V(p, "eax"))
         /\ line[p] = 5 => line'[p] = (IF V(p, "eax") <= 0 THEN 22 ELSE 6) /\ Quiet(p)
         /\ line[p] = 6 => line'[p] = 7 /\ Bound(p, "eax", G("rw"))
         /\ line[p] = 7 => line'[p] = 8 /\ Bound(p, "eax", V(p, "eax") + 1)
         /\ line[p] = 8 => line'[p] = 9 /\ Put(p, "rw", V(p, "eax"))
         /\ line[p] = 9 => line'[p] = 10 /\ Put(p, "mtx", G("mtx") + 1)
         /\ line[p] = 10 => line'[p] = 11 /\ Asked(p, "rq")
         /\ line[p] = 11 => line'[p] = 12 /\ Bound(p, "eax", G("rw"))
         /\ line[p] = 12 => line'[p] = (IF V(p, "eax") <= 0 THEN 20 ELSE 13) /\ Quiet(p)
         /\ line[p] = 13 => line'[p] = 14 /\ Bound(p, "eax", V(p, "eax") - 1)
         /\ line[p] = 14 => line'[p] = 15 /\ Put(p, "rw", V(p, "eax"))
         /\ line[p] = 15 => line'[p] = 16 /\ Bound(p, "eax", G("rds"))
         /\ line[p] = 16 => line'[p] = 17 /\ Bound(p, "eax", V(p, "eax") + 1)
         /\ line[p] = 17 => line'[p] = 18 /\ Put(p, "rds", V(p, "eax"))
         /\ line[p] = 18 => line'[p] = 19 /\ Put(p, "rq", G("rq") + 1)
         /\ line[p] = 19 => line'[p] = 26 /\ Quiet(p)
         /\ line[p] = 20 => line'[p] = 21 /\ Put(p, "mtx", G("mtx") + 1)
         /\ line[p] = 21 => line'[p] = 26 /\ Quiet(p)
         /\ line[p] = 22 => line'[p] = 23 /\ Bound(p, "eax", G("rds"))
         /\ line[p] = 23 => line'[p] = 24 /\ Bound(p, "eax", V(p, "eax") + 1)
         /\ line[p] = 24 => line'[p] = 25 /\ Put(p, "rds", V(p, "eax"))
         /\ line[p] = 25 => line'[p] = 26 /\ Put(p, "mtx", G("mtx") + 1)
         /\ line[p] = 26 => line'[p] = 27 /\ Quiet(p)
         /\ line[p] = 27 => line'[p] = 28 /\ Quiet(p)
         /\ line[p] = 28 => line'[p] = 29 /\ Asked(p, "mtx")
         /\ line[p] = 29 => line'[p] = 30 /\ Bound(p, "eax", G("rds"))
         /\ line[p] = 30 => line'[p] = 31 /\ Bound(p, "eax", V(p, "eax") - 1)
         /\ line[p] = 31 => line'[p] = 32 /\ Put(p, "rds", V(p, "eax"))
         /\ line[p] = 32 => line'[p] = (IF V(p, "eax") = 0 THEN 35 ELSE 33) /\ Quiet(p)
         /\ line[p] = 33 => line'[p] = 34 /\ Put(p, "mtx", G("mtx") + 1)
         /\ line[p] = 34 => line'[p] = 0 /\ Quiet(p)
         /\ line[p] = 35 => line'[p] = 36 /\ Bound(p, "eax", G("ww"))
         /\ line[p] = 36 => line'[p] = (IF V(p, "eax") > 0 THEN 39 ELSE 37) /\ Quiet(p)
         /\ line[p] = 37 => line'[p] = 38 /\ Put(p, "mtx", G("mtx") + 1)
         /\ line[p] = 38 => line'[p] = 0 /\ Quiet(p)
         /\ line[p] = 39 => line'[p] = 40 /\ Bound(p, "eax", V(p, "eax") - 1)
         /\ line[p] = 40 => line'[p] = 41 /\ Put(p, "ww", V(p, "eax"))
         /\ line[p] = 41 => line'[p] = 42 /\ Bound(p, "eax", G("wrs"))
         /\ line[p] = 42 => line'[p] = 43 /\ Bound(p, "eax", V(p, "eax") + 1)
         /\ line[p] = 43 => line'[p] = 44 /\ Put(p, "wrs", V(p, "eax"))
         /\ line[p] = 44 => line'[p] = 0 /\ Put(p, "wq", G("wq") + 1)
<1>0. line[p] \in 1 .. 44 /\ Len(Text(p)) = 44
  BY ReaderLines, StepLine
<1>1. ASSUME line[p] = 1 PROVE line'[p] = 2 /\ Asked(p, "mtx")
  <2>1. Does(p, DOWN("mtx")) /\ Follow(p, 1) = 2
    BY <1>0, <1>1, ReaderLines, LineFacts DEF Does, Here, Follow
  <2> QED
    BY <1>1, <2>1, Asks, Operand, NamesAssumption DEF Asked, V
<1>2. ASSUME line[p] = 2 PROVE line'[p] = 3 /\ Bound(p, "eax", G("wrs"))
  <2>1. Does(p, LOAD("eax", "wrs")) /\ Follow(p, 2) = 3
    BY <1>0, <1>2, ReaderLines, LineFacts DEF Does, Here, Follow
  <2> QED
    BY <1>2, <2>1, Loads, Operand, NamesAssumption DEF Bound, V
<1>3. ASSUME line[p] = 3 PROVE line'[p] = 4 /\ Bound(p, "ebx", G("ww"))
  <2>1. Does(p, LOAD("ebx", "ww")) /\ Follow(p, 3) = 4
    BY <1>0, <1>3, ReaderLines, LineFacts DEF Does, Here, Follow
  <2> QED
    BY <1>3, <2>1, Loads, Operand, NamesAssumption DEF Bound, V
<1>4. ASSUME line[p] = 4 PROVE line'[p] = 5 /\ Bound(p, "eax", V(p, "ebx") + V(p, "eax"))
  <2>1. Does(p, ADD("eax", "ebx", "eax")) /\ Follow(p, 4) = 5
    BY <1>0, <1>4, ReaderLines, LineFacts DEF Does, Here, Follow
  <2> QED
    BY <1>4, <2>1, Adds, Operand, NamesAssumption DEF Bound, V
<1>5. ASSUME line[p] = 5 PROVE line'[p] = (IF V(p, "eax") <= 0 THEN 22 ELSE 6) /\ Quiet(p)
  <2>1. Does(p, BRLE("eax", "0", "LNOWAITINQUEUE")) /\ Follow(p, 5) = 6
    BY <1>0, <1>5, ReaderLines, LineFacts DEF Does, Here, Follow
  <2> QED
    BY <1>5, <2>1, IfNotGreater, ReaderPlaces, Operand, NamesAssumption DEF Quiet, V
<1>6. ASSUME line[p] = 6 PROVE line'[p] = 7 /\ Bound(p, "eax", G("rw"))
  <2>1. Does(p, LOAD("eax", "rw")) /\ Follow(p, 6) = 7
    BY <1>0, <1>6, ReaderLines, LineFacts DEF Does, Here, Follow
  <2> QED
    BY <1>6, <2>1, Loads, Operand, NamesAssumption DEF Bound, V
<1>7. ASSUME line[p] = 7 PROVE line'[p] = 8 /\ Bound(p, "eax", V(p, "eax") + 1)
  <2>1. Does(p, ADD("eax", "eax", "1")) /\ Follow(p, 7) = 8
    BY <1>0, <1>7, ReaderLines, LineFacts DEF Does, Here, Follow
  <2> QED
    BY <1>7, <2>1, Adds, Operand, NamesAssumption DEF Bound, V
<1>8. ASSUME line[p] = 8 PROVE line'[p] = 9 /\ Put(p, "rw", V(p, "eax"))
  <2>1. Does(p, STORE("rw", "eax")) /\ Follow(p, 8) = 9
    BY <1>0, <1>8, ReaderLines, LineFacts DEF Does, Here, Follow
  <2> QED
    BY <1>8, <2>1, Stores, Operand, NamesAssumption DEF Put, V
<1>9. ASSUME line[p] = 9 PROVE line'[p] = 10 /\ Put(p, "mtx", G("mtx") + 1)
  <2>1. Does(p, UP("mtx")) /\ Follow(p, 9) = 10
    BY <1>0, <1>9, ReaderLines, LineFacts DEF Does, Here, Follow
  <2> QED
    BY <1>9, <2>1, Raises, Operand, NamesAssumption DEF Put, V
<1>10. ASSUME line[p] = 10 PROVE line'[p] = 11 /\ Asked(p, "rq")
  <2>1. Does(p, DOWN("rq")) /\ Follow(p, 10) = 11
    BY <1>0, <1>10, ReaderLines, LineFacts DEF Does, Here, Follow
  <2> QED
    BY <1>10, <2>1, Asks, Operand, NamesAssumption DEF Asked, V
<1>11. ASSUME line[p] = 11 PROVE line'[p] = 12 /\ Bound(p, "eax", G("rw"))
  <2>1. Does(p, LOAD("eax", "rw")) /\ Follow(p, 11) = 12
    BY <1>0, <1>11, ReaderLines, LineFacts DEF Does, Here, Follow
  <2> QED
    BY <1>11, <2>1, Loads, Operand, NamesAssumption DEF Bound, V
<1>12. ASSUME line[p] = 12 PROVE line'[p] = (IF V(p, "eax") <= 0 THEN 20 ELSE 13) /\ Quiet(p)
  <2>1. Does(p, BRLE("eax", "0", "LNOWAKEUPREADER")) /\ Follow(p, 12) = 13
    BY <1>0, <1>12, ReaderLines, LineFacts DEF Does, Here, Follow
  <2> QED
    BY <1>12, <2>1, IfNotGreater, ReaderPlaces, Operand, NamesAssumption DEF Quiet, V
<1>13. ASSUME line[p] = 13 PROVE line'[p] = 14 /\ Bound(p, "eax", V(p, "eax") - 1)
  <2>1. Does(p, SUB("eax", "eax", "1")) /\ Follow(p, 13) = 14
    BY <1>0, <1>13, ReaderLines, LineFacts DEF Does, Here, Follow
  <2> QED
    BY <1>13, <2>1, Subtracts, Operand, NamesAssumption DEF Bound, V
<1>14. ASSUME line[p] = 14 PROVE line'[p] = 15 /\ Put(p, "rw", V(p, "eax"))
  <2>1. Does(p, STORE("rw", "eax")) /\ Follow(p, 14) = 15
    BY <1>0, <1>14, ReaderLines, LineFacts DEF Does, Here, Follow
  <2> QED
    BY <1>14, <2>1, Stores, Operand, NamesAssumption DEF Put, V
<1>15. ASSUME line[p] = 15 PROVE line'[p] = 16 /\ Bound(p, "eax", G("rds"))
  <2>1. Does(p, LOAD("eax", "rds")) /\ Follow(p, 15) = 16
    BY <1>0, <1>15, ReaderLines, LineFacts DEF Does, Here, Follow
  <2> QED
    BY <1>15, <2>1, Loads, Operand, NamesAssumption DEF Bound, V
<1>16. ASSUME line[p] = 16 PROVE line'[p] = 17 /\ Bound(p, "eax", V(p, "eax") + 1)
  <2>1. Does(p, ADD("eax", "eax", "1")) /\ Follow(p, 16) = 17
    BY <1>0, <1>16, ReaderLines, LineFacts DEF Does, Here, Follow
  <2> QED
    BY <1>16, <2>1, Adds, Operand, NamesAssumption DEF Bound, V
<1>17. ASSUME line[p] = 17 PROVE line'[p] = 18 /\ Put(p, "rds", V(p, "eax"))
  <2>1. Does(p, STORE("rds", "eax")) /\ Follow(p, 17) = 18
    BY <1>0, <1>17, ReaderLines, LineFacts DEF Does, Here, Follow
  <2> QED
    BY <1>17, <2>1, Stores, Operand, NamesAssumption DEF Put, V
<1>18. ASSUME line[p] = 18 PROVE line'[p] = 19 /\ Put(p, "rq", G("rq") + 1)
  <2>1. Does(p, UP("rq")) /\ Follow(p, 18) = 19
    BY <1>0, <1>18, ReaderLines, LineFacts DEF Does, Here, Follow
  <2> QED
    BY <1>18, <2>1, Raises, Operand, NamesAssumption DEF Put, V
<1>19. ASSUME line[p] = 19 PROVE line'[p] = 26 /\ Quiet(p)
  <2>1. Does(p, BRA("LENTERCS")) /\ Follow(p, 19) = 20
    BY <1>0, <1>19, ReaderLines, LineFacts DEF Does, Here, Follow
  <2> QED
    BY <1>19, <2>1, Always, ReaderPlaces, Operand, NamesAssumption DEF Quiet, V
<1>20. ASSUME line[p] = 20 PROVE line'[p] = 21 /\ Put(p, "mtx", G("mtx") + 1)
  <2>1. Does(p, UP("mtx")) /\ Follow(p, 20) = 21
    BY <1>0, <1>20, ReaderLines, LineFacts DEF Does, Here, Follow
  <2> QED
    BY <1>20, <2>1, Raises, Operand, NamesAssumption DEF Put, V
<1>21. ASSUME line[p] = 21 PROVE line'[p] = 26 /\ Quiet(p)
  <2>1. Does(p, BRA("LENTERCS")) /\ Follow(p, 21) = 22
    BY <1>0, <1>21, ReaderLines, LineFacts DEF Does, Here, Follow
  <2> QED
    BY <1>21, <2>1, Always, ReaderPlaces, Operand, NamesAssumption DEF Quiet, V
<1>22. ASSUME line[p] = 22 PROVE line'[p] = 23 /\ Bound(p, "eax", G("rds"))
  <2>1. Does(p, LOAD("eax", "rds")) /\ Follow(p, 22) = 23
    BY <1>0, <1>22, ReaderLines, LineFacts DEF Does, Here, Follow
  <2> QED
    BY <1>22, <2>1, Loads, Operand, NamesAssumption DEF Bound, V
<1>23. ASSUME line[p] = 23 PROVE line'[p] = 24 /\ Bound(p, "eax", V(p, "eax") + 1)
  <2>1. Does(p, ADD("eax", "eax", "1")) /\ Follow(p, 23) = 24
    BY <1>0, <1>23, ReaderLines, LineFacts DEF Does, Here, Follow
  <2> QED
    BY <1>23, <2>1, Adds, Operand, NamesAssumption DEF Bound, V
<1>24. ASSUME line[p] = 24 PROVE line'[p] = 25 /\ Put(p, "rds", V(p, "eax"))
  <2>1. Does(p, STORE("rds", "eax")) /\ Follow(p, 24) = 25
    BY <1>0, <1>24, ReaderLines, LineFacts DEF Does, Here, Follow
  <2> QED
    BY <1>24, <2>1, Stores, Operand, NamesAssumption DEF Put, V
<1>25. ASSUME line[p] = 25 PROVE line'[p] = 26 /\ Put(p, "mtx", G("mtx") + 1)
  <2>1. Does(p, UP("mtx")) /\ Follow(p, 25) = 26
    BY <1>0, <1>25, ReaderLines, LineFacts DEF Does, Here, Follow
  <2> QED
    BY <1>25, <2>1, Raises, Operand, NamesAssumption DEF Put, V
<1>26. ASSUME line[p] = 26 PROVE line'[p] = 27 /\ Quiet(p)
  <2>1. Does(p, SAY) /\ Follow(p, 26) = 27
    BY <1>0, <1>26, ReaderLines, LineFacts DEF Does, Here, Follow
  <2> QED
    BY <1>26, <2>1, Shows, Operand, NamesAssumption DEF Quiet, V
<1>27. ASSUME line[p] = 27 PROVE line'[p] = 28 /\ Quiet(p)
  <2>1. Does(p, SLEEP) /\ Follow(p, 27) = 28
    BY <1>0, <1>27, ReaderLines, LineFacts DEF Does, Here, Follow
  <2> QED
    BY <1>27, <2>1, Shows, Operand, NamesAssumption DEF Quiet, V
<1>28. ASSUME line[p] = 28 PROVE line'[p] = 29 /\ Asked(p, "mtx")
  <2>1. Does(p, DOWN("mtx")) /\ Follow(p, 28) = 29
    BY <1>0, <1>28, ReaderLines, LineFacts DEF Does, Here, Follow
  <2> QED
    BY <1>28, <2>1, Asks, Operand, NamesAssumption DEF Asked, V
<1>29. ASSUME line[p] = 29 PROVE line'[p] = 30 /\ Bound(p, "eax", G("rds"))
  <2>1. Does(p, LOAD("eax", "rds")) /\ Follow(p, 29) = 30
    BY <1>0, <1>29, ReaderLines, LineFacts DEF Does, Here, Follow
  <2> QED
    BY <1>29, <2>1, Loads, Operand, NamesAssumption DEF Bound, V
<1>30. ASSUME line[p] = 30 PROVE line'[p] = 31 /\ Bound(p, "eax", V(p, "eax") - 1)
  <2>1. Does(p, SUB("eax", "eax", "1")) /\ Follow(p, 30) = 31
    BY <1>0, <1>30, ReaderLines, LineFacts DEF Does, Here, Follow
  <2> QED
    BY <1>30, <2>1, Subtracts, Operand, NamesAssumption DEF Bound, V
<1>31. ASSUME line[p] = 31 PROVE line'[p] = 32 /\ Put(p, "rds", V(p, "eax"))
  <2>1. Does(p, STORE("rds", "eax")) /\ Follow(p, 31) = 32
    BY <1>0, <1>31, ReaderLines, LineFacts DEF Does, Here, Follow
  <2> QED
    BY <1>31, <2>1, Stores, Operand, NamesAssumption DEF Put, V
<1>32. ASSUME line[p] = 32 PROVE line'[p] = (IF V(p, "eax") = 0 THEN 35 ELSE 33) /\ Quiet(p)
  <2>1. Does(p, BREQ("eax", "0", "LNOREADERSLEFT")) /\ Follow(p, 32) = 33
    BY <1>0, <1>32, ReaderLines, LineFacts DEF Does, Here, Follow
  <2> QED
    BY <1>32, <2>1, IfEqual, ReaderPlaces, Operand, NamesAssumption DEF Quiet, V
<1>33. ASSUME line[p] = 33 PROVE line'[p] = 34 /\ Put(p, "mtx", G("mtx") + 1)
  <2>1. Does(p, UP("mtx")) /\ Follow(p, 33) = 34
    BY <1>0, <1>33, ReaderLines, LineFacts DEF Does, Here, Follow
  <2> QED
    BY <1>33, <2>1, Raises, Operand, NamesAssumption DEF Put, V
<1>34. ASSUME line[p] = 34 PROVE line'[p] = 0 /\ Quiet(p)
  <2>1. Does(p, RETURN) /\ Follow(p, 34) = 35
    BY <1>0, <1>34, ReaderLines, LineFacts DEF Does, Here, Follow
  <2> QED
    BY <1>34, <2>1, Returns, Operand, NamesAssumption DEF Quiet, V
<1>35. ASSUME line[p] = 35 PROVE line'[p] = 36 /\ Bound(p, "eax", G("ww"))
  <2>1. Does(p, LOAD("eax", "ww")) /\ Follow(p, 35) = 36
    BY <1>0, <1>35, ReaderLines, LineFacts DEF Does, Here, Follow
  <2> QED
    BY <1>35, <2>1, Loads, Operand, NamesAssumption DEF Bound, V
<1>36. ASSUME line[p] = 36 PROVE line'[p] = (IF V(p, "eax") > 0 THEN 39 ELSE 37) /\ Quiet(p)
  <2>1. Does(p, BRGT("eax", "0", "LWAKEUPWRITER")) /\ Follow(p, 36) = 37
    BY <1>0, <1>36, ReaderLines, LineFacts DEF Does, Here, Follow
  <2> QED
    BY <1>36, <2>1, IfGreater, ReaderPlaces, Operand, NamesAssumption DEF Quiet, V
<1>37. ASSUME line[p] = 37 PROVE line'[p] = 38 /\ Put(p, "mtx", G("mtx") + 1)
  <2>1. Does(p, UP("mtx")) /\ Follow(p, 37) = 38
    BY <1>0, <1>37, ReaderLines, LineFacts DEF Does, Here, Follow
  <2> QED
    BY <1>37, <2>1, Raises, Operand, NamesAssumption DEF Put, V
<1>38. ASSUME line[p] = 38 PROVE line'[p] = 0 /\ Quiet(p)
  <2>1. Does(p, RETURN) /\ Follow(p, 38) = 39
    BY <1>0, <1>38, ReaderLines, LineFacts DEF Does, Here, Follow
  <2> QED
    BY <1>38, <2>1, Returns, Operand, NamesAssumption DEF Quiet, V
<1>39. ASSUME line[p] = 39 PROVE line'[p] = 40 /\ Bound(p, "eax", V(p, "eax") - 1)
  <2>1. Does(p, SUB("eax", "eax", "1")) /\ Follow(p, 39) = 40
    BY <1>0, <1>39, ReaderLines, LineFacts DEF Does, Here, Follow
  <2> QED
    BY <1>39, <2>1, Subtracts, Operand, NamesAssumption DEF Bound, V
<1>40. ASSUME line[p] = 40 PROVE line'[p] = 41 /\ Put(p, "ww", V(p, "eax"))
  <2>1. Does(p, STORE("ww", "eax")) /\ Follow(p, 40) = 41
    BY <1>0, <1>40, ReaderLines, LineFacts DEF Does, Here, Follow
  <2> QED
    BY <1>40, <2>1, Stores, Operand, NamesAssumption DEF Put, V
<1>41. ASSUME line[p] = 41 PROVE line'[p] = 42 /\ Bound(p, "eax", G("wrs"))
  <2>1. Does(p, LOAD("eax", "wrs")) /\ Follow(p, 41) = 42
    BY <1>0, <1>41, ReaderLines, LineFacts DEF Does, Here, Follow
  <2> QED
    BY <1>41, <2>1, Loads, Operand, NamesAssumption DEF Bound, V
<1>42. ASSUME line[p] = 42 PROVE line'[p] = 43 /\ Bound(p, "eax", V(p, "eax") + 1)
  <2>1. Does(p, ADD("eax", "eax", "1")) /\ Follow(p, 42) = 43
    BY <1>0, <1>42, ReaderLines, LineFacts DEF Does, Here, Follow
  <2> QED
    BY <1>42, <2>1, Adds, Operand, NamesAssumption DEF Bound, V
<1>43. ASSUME line[p] = 43 PROVE line'[p] = 44 /\ Put(p, "wrs", V(p, "eax"))
  <2>1. Does(p, STORE("wrs", "eax")) /\ Follow(p, 43) = 44
    BY <1>0, <1>43, ReaderLines, LineFacts DEF Does, Here, Follow
  <2> QED
    BY <1>43, <2>1, Stores, Operand, NamesAssumption DEF Put, V
<1>44. ASSUME line[p] = 44 PROVE line'[p] = 0 /\ Put(p, "wq", G("wq") + 1)
  <2>1. Does(p, UP("wq")) /\ Follow(p, 44) = 0
    BY <1>0, <1>44, ReaderLines, LineFacts DEF Does, Here, Follow
  <2> QED
    BY <1>44, <2>1, Raises, Operand, NamesAssumption DEF Put, V
<1> QED
  BY <1>0, <1>1, <1>2, <1>3, <1>4, <1>5, <1>6, <1>7, <1>8, <1>9, <1>10, <1>11, <1>12,
     <1>13, <1>14, <1>15, <1>16, <1>17, <1>18, <1>19, <1>20, <1>21, <1>22, <1>23,
     <1>24, <1>25, <1>26, <1>27, <1>28, <1>29, <1>30, <1>31, <1>32, <1>33, <1>34,
     <1>35, <1>36, <1>37, <1>38, <1>39, <1>40, <1>41, <1>42, <1>43, <1>44

LEMMA WriterLines ==
  /\ Len(Writer) = 40 /\ DOMAIN Writer = 1 .. 40
  /\ Plain(Writer[1], DOWN("mtx"), "DOWN")
  /\ Plain(Writer[2], LOAD("eax", "rds"), "LOAD")
  /\ Plain(Writer[3], LOAD("ebx", "wrs"), "LOAD")
  /\ Plain(Writer[4], ADD("eax", "eax", "ebx"), "ADD")
  /\ Plain(Writer[5], BRLE("eax", "0", "LNOWAITINQUEUE"), "BRLE")
  /\ Plain(Writer[6], LOAD("eax", "ww"), "LOAD")
  /\ Plain(Writer[7], ADD("eax", "eax", "1"), "ADD")
  /\ Plain(Writer[8], STORE("ww", "eax"), "STORE")
  /\ Plain(Writer[9], UP("mtx"), "UP")
  /\ Plain(Writer[10], DOWN("wq"), "DOWN")
  /\ Plain(Writer[11], BRA("LENTERCS"), "BRA")
  /\ Marked(Writer[12], LOAD("eax", "wrs"), "LOAD", "LNOWAITINQUEUE")
  /\ Plain(Writer[13], ADD("eax", "eax", "1"), "ADD")
  /\ Plain(Writer[14], STORE("wrs", "eax"), "STORE")
  /\ Plain(Writer[15], UP("mtx"), "UP")
  /\ Marked(Writer[16], SAY, "PRINT", "LENTERCS")
  /\ Plain(Writer[17], SLEEP, "SLEEP")
  /\ Plain(Writer[18], LOAD("eax", "wrs"), "LOAD")
  /\ Plain(Writer[19], SUB("eax", "eax", "1"), "SUB")
  /\ Plain(Writer[20], STORE("wrs", "eax"), "STORE")
  /\ Plain(Writer[21], LOAD("eax", "rw"), "LOAD")
  /\ Plain(Writer[22], BRLE("eax", "0", "LNOWAKEUPREADER"), "BRLE")
  /\ Plain(Writer[23], LOAD("eax", "rw"), "LOAD")
  /\ Plain(Writer[24], SUB("eax", "eax", "1"), "SUB")
  /\ Plain(Writer[25], STORE("rw", "eax"), "STORE")
  /\ Plain(Writer[26], LOAD("eax", "rds"), "LOAD")
  /\ Plain(Writer[27], ADD("eax", "eax", "1"), "ADD")
  /\ Plain(Writer[28], STORE("rds", "eax"), "STORE")
  /\ Plain(Writer[29], UP("rq"), "UP")
  /\ Plain(Writer[30], RETURN, "RETURN")
  /\ Marked(Writer[31], LOAD("eax", "ww"), "LOAD", "LNOWAKEUPREADER")
  /\ Plain(Writer[32], BRLE("eax", "0", "LNOWAKEUPWRITER"), "BRLE")
  /\ Plain(Writer[33], SUB("eax", "eax", "1"), "SUB")
  /\ Plain(Writer[34], STORE("ww", "eax"), "STORE")
  /\ Plain(Writer[35], LOAD("eax", "wrs"), "LOAD")
  /\ Plain(Writer[36], ADD("eax", "eax", "1"), "ADD")
  /\ Plain(Writer[37], STORE("wrs", "eax"), "STORE")
  /\ Plain(Writer[38], UP("wq"), "UP")
  /\ Plain(Writer[39], RETURN, "RETURN")
  /\ Marked(Writer[40], UP("mtx"), "UP", "LNOWAKEUPWRITER")
<1>1. Writer[1] = DOWN("mtx")
  BY DEF Writer
<1>2. Writer[2] = LOAD("eax", "rds")
  BY DEF Writer
<1>3. Writer[3] = LOAD("ebx", "wrs")
  BY DEF Writer
<1>4. Writer[4] = ADD("eax", "eax", "ebx")
  BY DEF Writer
<1>5. Writer[5] = BRLE("eax", "0", "LNOWAITINQUEUE")
  BY DEF Writer
<1>6. Writer[6] = LOAD("eax", "ww")
  BY DEF Writer
<1>7. Writer[7] = ADD("eax", "eax", "1")
  BY DEF Writer
<1>8. Writer[8] = STORE("ww", "eax")
  BY DEF Writer
<1>9. Writer[9] = UP("mtx")
  BY DEF Writer
<1>10. Writer[10] = DOWN("wq")
  BY DEF Writer
<1>11. Writer[11] = BRA("LENTERCS")
  BY DEF Writer
<1>12. Writer[12] = At("LNOWAITINQUEUE", LOAD("eax", "wrs"))
  BY DEF Writer
<1>13. Writer[13] = ADD("eax", "eax", "1")
  BY DEF Writer
<1>14. Writer[14] = STORE("wrs", "eax")
  BY DEF Writer
<1>15. Writer[15] = UP("mtx")
  BY DEF Writer
<1>16. Writer[16] = At("LENTERCS", SAY)
  BY DEF Writer
<1>17. Writer[17] = SLEEP
  BY DEF Writer
<1>18. Writer[18] = LOAD("eax", "wrs")
  BY DEF Writer
<1>19. Writer[19] = SUB("eax", "eax", "1")
  BY DEF Writer
<1>20. Writer[20] = STORE("wrs", "eax")
  BY DEF Writer
<1>21. Writer[21] = LOAD("eax", "rw")
  BY DEF Writer
<1>22. Writer[22] = BRLE("eax", "0", "LNOWAKEUPREADER")
  BY DEF Writer
<1>23. Writer[23] = LOAD("eax", "rw")
  BY DEF Writer
<1>24. Writer[24] = SUB("eax", "eax", "1")
  BY DEF Writer
<1>25. Writer[25] = STORE("rw", "eax")
  BY DEF Writer
<1>26. Writer[26] = LOAD("eax", "rds")
  BY DEF Writer
<1>27. Writer[27] = ADD("eax", "eax", "1")
  BY DEF Writer
<1>28. Writer[28] = STORE("rds", "eax")
  BY DEF Writer
<1>29. Writer[29] = UP("rq")
  BY DEF Writer
<1>30. Writer[30] = RETURN
  BY DEF Writer
<1>31. Writer[31] = At("LNOWAKEUPREADER", LOAD("eax", "ww"))
  BY DEF Writer
<1>32. Writer[32] = BRLE("eax", "0", "LNOWAKEUPWRITER")
  BY DEF Writer
<1>33. Writer[33] = SUB("eax", "eax", "1")
  BY DEF Writer
<1>34. Writer[34] = STORE("ww", "eax")
  BY DEF Writer
<1>35. Writer[35] = LOAD("eax", "wrs")
  BY DEF Writer
<1>36. Writer[36] = ADD("eax", "eax", "1")
  BY DEF Writer
<1>37. Writer[37] = STORE("wrs", "eax")
  BY DEF Writer
<1>38. Writer[38] = UP("wq")
  BY DEF Writer
<1>39. Writer[39] = RETURN
  BY DEF Writer
<1>40. Writer[40] = At("LNOWAKEUPWRITER", UP("mtx"))
  BY DEF Writer
<1>41. Len(Writer) = 40 /\ DOMAIN Writer = 1 .. 40
  BY DEF Writer
<1> QED
  BY <1>1, <1>2, <1>3, <1>4, <1>5, <1>6, <1>7, <1>8, <1>9, <1>10, <1>11, <1>12, <1>13,
     <1>14, <1>15, <1>16, <1>17, <1>18, <1>19, <1>20, <1>21, <1>22, <1>23, <1>24,
     <1>25, <1>26, <1>27, <1>28, <1>29, <1>30, <1>31, <1>32, <1>33, <1>34, <1>35,
     <1>36, <1>37, <1>38, <1>39, <1>40, <1>41, Constructors

LEMMA WriterPlaces ==
  /\ \A n \in 1 .. 40 : /\ Writer[n].op = "DOWN" => n \in {1, 10}
                        /\ Writer[n].op = "SLEEP" => n = 17
  /\ Labels(Writer, "LNOWAITINQUEUE", 12)
  /\ Labels(Writer, "LENTERCS", 16)
  /\ Labels(Writer, "LNOWAKEUPREADER", 31)
  /\ Labels(Writer, "LNOWAKEUPWRITER", 40)
<1>1. Writer[1].op = "DOWN" /\ Writer[2].op = "LOAD" /\ Writer[3].op = "LOAD"
     /\ Writer[4].op = "ADD" /\ Writer[5].op = "BRLE" /\ Writer[6].op = "LOAD"
     /\ Writer[7].op = "ADD" /\ Writer[8].op = "STORE" /\ Writer[9].op = "UP"
     /\ Writer[10].op = "DOWN" /\ Writer[11].op = "BRA" /\ Writer[12].op = "LOAD"
     /\ Writer[13].op = "ADD" /\ Writer[14].op = "STORE" /\ Writer[15].op = "UP"
     /\ Writer[16].op = "PRINT" /\ Writer[17].op = "SLEEP" /\ Writer[18].op = "LOAD"
     /\ Writer[19].op = "SUB" /\ Writer[20].op = "STORE" /\ Writer[21].op = "LOAD"
     /\ Writer[22].op = "BRLE" /\ Writer[23].op = "LOAD" /\ Writer[24].op = "SUB"
     /\ Writer[25].op = "STORE" /\ Writer[26].op = "LOAD" /\ Writer[27].op = "ADD"
     /\ Writer[28].op = "STORE" /\ Writer[29].op = "UP" /\ Writer[30].op = "RETURN"
     /\ Writer[31].op = "LOAD" /\ Writer[32].op = "BRLE" /\ Writer[33].op = "SUB"
     /\ Writer[34].op = "STORE" /\ Writer[35].op = "LOAD" /\ Writer[36].op = "ADD"
     /\ Writer[37].op = "STORE" /\ Writer[38].op = "UP" /\ Writer[39].op = "RETURN"
     /\ Writer[40].op = "UP"
  BY WriterLines, LineFacts
<1>2. Writer[1].label \notin SampleLabels /\ Writer[2].label \notin SampleLabels
     /\ Writer[3].label \notin SampleLabels /\ Writer[4].label \notin SampleLabels
     /\ Writer[5].label \notin SampleLabels /\ Writer[6].label \notin SampleLabels
     /\ Writer[7].label \notin SampleLabels /\ Writer[8].label \notin SampleLabels
     /\ Writer[9].label \notin SampleLabels /\ Writer[10].label \notin SampleLabels
     /\ Writer[11].label \notin SampleLabels /\ Writer[13].label \notin SampleLabels
     /\ Writer[14].label \notin SampleLabels /\ Writer[15].label \notin SampleLabels
     /\ Writer[17].label \notin SampleLabels /\ Writer[18].label \notin SampleLabels
     /\ Writer[19].label \notin SampleLabels /\ Writer[20].label \notin SampleLabels
     /\ Writer[21].label \notin SampleLabels /\ Writer[22].label \notin SampleLabels
     /\ Writer[23].label \notin SampleLabels /\ Writer[24].label \notin SampleLabels
     /\ Writer[25].label \notin SampleLabels /\ Writer[26].label \notin SampleLabels
     /\ Writer[27].label \notin SampleLabels /\ Writer[28].label \notin SampleLabels
     /\ Writer[29].label \notin SampleLabels /\ Writer[30].label \notin SampleLabels
     /\ Writer[32].label \notin SampleLabels /\ Writer[33].label \notin SampleLabels
     /\ Writer[34].label \notin SampleLabels /\ Writer[35].label \notin SampleLabels
     /\ Writer[36].label \notin SampleLabels /\ Writer[37].label \notin SampleLabels
     /\ Writer[38].label \notin SampleLabels /\ Writer[39].label \notin SampleLabels
  BY WriterLines, PlainLabel
<1>3. Writer[12].label = "LNOWAITINQUEUE" /\ Writer[16].label = "LENTERCS"
     /\ Writer[31].label = "LNOWAKEUPREADER" /\ Writer[40].label = "LNOWAKEUPWRITER"
  BY WriterLines, LineFacts
<1>4. "LNOWAITINQUEUE" \in SampleLabels /\ "LENTERCS" \in SampleLabels
     /\ "LNOWAKEUPREADER" \in SampleLabels /\ "LNOWAKEUPWRITER" \in SampleLabels
  BY DEF SampleLabels
<1> QED
  BY <1>1, <1>2, <1>3, <1>4, WriterLines DEF Labels

LEMMA WriterMoves ==
  ASSUME MachineInv, NEW p \in Programs, Text(p) = Writer, Step(p), waiting[p] = Idle
  PROVE  /\ line[p] \in 1 .. 40
         /\ line[p] = 1 => line'[p] = 2 /\ Asked(p, "mtx")
         /\ line[p] = 2 => line'[p] = 3 /\ Bound(p, "eax", G("rds"))
         /\ line[p] = 3 => line'[p] = 4 /\ Bound(p, "ebx", G("wrs"))
         /\ line[p] = 4 => line'[p] = 5 /\ Bound(p, "eax", V(p, "eax") + V(p, "ebx"))
         /\ line[p] = 5 => line'[p] = (IF V(p, "eax") <= 0 THEN 12 ELSE 6) /\ Quiet(p)
         /\ line[p] = 6 => line'[p] = 7 /\ Bound(p, "eax", G("ww"))
         /\ line[p] = 7 => line'[p] = 8 /\ Bound(p, "eax", V(p, "eax") + 1)
         /\ line[p] = 8 => line'[p] = 9 /\ Put(p, "ww", V(p, "eax"))
         /\ line[p] = 9 => line'[p] = 10 /\ Put(p, "mtx", G("mtx") + 1)
         /\ line[p] = 10 => line'[p] = 11 /\ Asked(p, "wq")
         /\ line[p] = 11 => line'[p] = 16 /\ Quiet(p)
         /\ line[p] = 12 => line'[p] = 13 /\ Bound(p, "eax", G("wrs"))
         /\ line[p] = 13 => line'[p] = 14 /\ Bound(p, "eax", V(p, "eax") + 1)
         /\ line[p] = 14 => line'[p] = 15 /\ Put(p, "wrs", V(p, "eax"))
         /\ line[p] = 15 => line'[p] = 16 /\ Put(p, "mtx", G("mtx") + 1)
         /\ line[p] = 16 => line'[p] = 17 /\ Quiet(p)
         /\ line[p] = 17 => line'[p] = 18 /\ Quiet(p)
         /\ line[p] = 18 => line'[p] = 19 /\ Bound(p, "eax", G("wrs"))
         /\ line[p] = 19 => line'[p] = 20 /\ Bound(p, "eax", V(p, "eax") - 1)
         /\ line[p] = 20 => line'[p] = 21 /\ Put(p, "wrs", V(p, "eax"))
         /\ line[p] = 21 => line'[p] = 22 /\ Bound(p, "eax", G("rw"))
         /\ line[p] = 22 => line'[p] = (IF V(p, "eax") <= 0 THEN 31 ELSE 23) /\ Quiet(p)
         /\ line[p] = 23 => line'[p] = 24 /\ Bound(p, "eax", G("rw"))
         /\ line[p] = 24 => line'[p] = 25 /\ Bound(p, "eax", V(p, "eax") - 1)
         /\ line[p] = 25 => line'[p] = 26 /\ Put(p, "rw", V(p, "eax"))
         /\ line[p] = 26 => line'[p] = 27 /\ Bound(p, "eax", G("rds"))
         /\ line[p] = 27 => line'[p] = 28 /\ Bound(p, "eax", V(p, "eax") + 1)
         /\ line[p] = 28 => line'[p] = 29 /\ Put(p, "rds", V(p, "eax"))
         /\ line[p] = 29 => line'[p] = 30 /\ Put(p, "rq", G("rq") + 1)
         /\ line[p] = 30 => line'[p] = 0 /\ Quiet(p)
         /\ line[p] = 31 => line'[p] = 32 /\ Bound(p, "eax", G("ww"))
         /\ line[p] = 32 => line'[p] = (IF V(p, "eax") <= 0 THEN 40 ELSE 33) /\ Quiet(p)
         /\ line[p] = 33 => line'[p] = 34 /\ Bound(p, "eax", V(p, "eax") - 1)
         /\ line[p] = 34 => line'[p] = 35 /\ Put(p, "ww", V(p, "eax"))
         /\ line[p] = 35 => line'[p] = 36 /\ Bound(p, "eax", G("wrs"))
         /\ line[p] = 36 => line'[p] = 37 /\ Bound(p, "eax", V(p, "eax") + 1)
         /\ line[p] = 37 => line'[p] = 38 /\ Put(p, "wrs", V(p, "eax"))
         /\ line[p] = 38 => line'[p] = 39 /\ Put(p, "wq", G("wq") + 1)
         /\ line[p] = 39 => line'[p] = 0 /\ Quiet(p)
         /\ line[p] = 40 => line'[p] = 0 /\ Put(p, "mtx", G("mtx") + 1)
<1>0. line[p] \in 1 .. 40 /\ Len(Text(p)) = 40
  BY WriterLines, StepLine
<1>1. ASSUME line[p] = 1 PROVE line'[p] = 2 /\ Asked(p, "mtx")
  <2>1. Does(p, DOWN("mtx")) /\ Follow(p, 1) = 2
    BY <1>0, <1>1, WriterLines, LineFacts DEF Does, Here, Follow
  <2> QED
    BY <1>1, <2>1, Asks, Operand, NamesAssumption DEF Asked, V
<1>2. ASSUME line[p] = 2 PROVE line'[p] = 3 /\ Bound(p, "eax", G("rds"))
  <2>1. Does(p, LOAD("eax", "rds")) /\ Follow(p, 2) = 3
    BY <1>0, <1>2, WriterLines, LineFacts DEF Does, Here, Follow
  <2> QED
    BY <1>2, <2>1, Loads, Operand, NamesAssumption DEF Bound, V
<1>3. ASSUME line[p] = 3 PROVE line'[p] = 4 /\ Bound(p, "ebx", G("wrs"))
  <2>1. Does(p, LOAD("ebx", "wrs")) /\ Follow(p, 3) = 4
    BY <1>0, <1>3, WriterLines, LineFacts DEF Does, Here, Follow
  <2> QED
    BY <1>3, <2>1, Loads, Operand, NamesAssumption DEF Bound, V
<1>4. ASSUME line[p] = 4 PROVE line'[p] = 5 /\ Bound(p, "eax", V(p, "eax") + V(p, "ebx"))
  <2>1. Does(p, ADD("eax", "eax", "ebx")) /\ Follow(p, 4) = 5
    BY <1>0, <1>4, WriterLines, LineFacts DEF Does, Here, Follow
  <2> QED
    BY <1>4, <2>1, Adds, Operand, NamesAssumption DEF Bound, V
<1>5. ASSUME line[p] = 5 PROVE line'[p] = (IF V(p, "eax") <= 0 THEN 12 ELSE 6) /\ Quiet(p)
  <2>1. Does(p, BRLE("eax", "0", "LNOWAITINQUEUE")) /\ Follow(p, 5) = 6
    BY <1>0, <1>5, WriterLines, LineFacts DEF Does, Here, Follow
  <2> QED
    BY <1>5, <2>1, IfNotGreater, WriterPlaces, Operand, NamesAssumption DEF Quiet, V
<1>6. ASSUME line[p] = 6 PROVE line'[p] = 7 /\ Bound(p, "eax", G("ww"))
  <2>1. Does(p, LOAD("eax", "ww")) /\ Follow(p, 6) = 7
    BY <1>0, <1>6, WriterLines, LineFacts DEF Does, Here, Follow
  <2> QED
    BY <1>6, <2>1, Loads, Operand, NamesAssumption DEF Bound, V
<1>7. ASSUME line[p] = 7 PROVE line'[p] = 8 /\ Bound(p, "eax", V(p, "eax") + 1)
  <2>1. Does(p, ADD("eax", "eax", "1")) /\ Follow(p, 7) = 8
    BY <1>0, <1>7, WriterLines, LineFacts DEF Does, Here, Follow
  <2> QED
    BY <1>7, <2>1, Adds, Operand, NamesAssumption DEF Bound, V
<1>8. ASSUME line[p] = 8 PROVE line'[p] = 9 /\ Put(p, "ww", V(p, "eax"))
  <2>1. Does(p, STORE("ww", "eax")) /\ Follow(p, 8) = 9
    BY <1>0, <1>8, WriterLines, LineFacts DEF Does, Here, Follow
  <2> QED
    BY <1>8, <2>1, Stores, Operand, NamesAssumption DEF Put, V
<1>9. ASSUME line[p] = 9 PROVE line'[p] = 10 /\ Put(p, "mtx", G("mtx") + 1)
  <2>1. Does(p, UP("mtx")) /\ Follow(p, 9) = 10
    BY <1>0, <1>9, WriterLines, LineFacts DEF Does, Here, Follow
  <2> QED
    BY <1>9, <2>1, Raises, Operand, NamesAssumption DEF Put, V
<1>10. ASSUME line[p] = 10 PROVE line'[p] = 11 /\ Asked(p, "wq")
  <2>1. Does(p, DOWN("wq")) /\ Follow(p, 10) = 11
    BY <1>0, <1>10, WriterLines, LineFacts DEF Does, Here, Follow
  <2> QED
    BY <1>10, <2>1, Asks, Operand, NamesAssumption DEF Asked, V
<1>11. ASSUME line[p] = 11 PROVE line'[p] = 16 /\ Quiet(p)
  <2>1. Does(p, BRA("LENTERCS")) /\ Follow(p, 11) = 12
    BY <1>0, <1>11, WriterLines, LineFacts DEF Does, Here, Follow
  <2> QED
    BY <1>11, <2>1, Always, WriterPlaces, Operand, NamesAssumption DEF Quiet, V
<1>12. ASSUME line[p] = 12 PROVE line'[p] = 13 /\ Bound(p, "eax", G("wrs"))
  <2>1. Does(p, LOAD("eax", "wrs")) /\ Follow(p, 12) = 13
    BY <1>0, <1>12, WriterLines, LineFacts DEF Does, Here, Follow
  <2> QED
    BY <1>12, <2>1, Loads, Operand, NamesAssumption DEF Bound, V
<1>13. ASSUME line[p] = 13 PROVE line'[p] = 14 /\ Bound(p, "eax", V(p, "eax") + 1)
  <2>1. Does(p, ADD("eax", "eax", "1")) /\ Follow(p, 13) = 14
    BY <1>0, <1>13, WriterLines, LineFacts DEF Does, Here, Follow
  <2> QED
    BY <1>13, <2>1, Adds, Operand, NamesAssumption DEF Bound, V
<1>14. ASSUME line[p] = 14 PROVE line'[p] = 15 /\ Put(p, "wrs", V(p, "eax"))
  <2>1. Does(p, STORE("wrs", "eax")) /\ Follow(p, 14) = 15
    BY <1>0, <1>14, WriterLines, LineFacts DEF Does, Here, Follow
  <2> QED
    BY <1>14, <2>1, Stores, Operand, NamesAssumption DEF Put, V
<1>15. ASSUME line[p] = 15 PROVE line'[p] = 16 /\ Put(p, "mtx", G("mtx") + 1)
  <2>1. Does(p, UP("mtx")) /\ Follow(p, 15) = 16
    BY <1>0, <1>15, WriterLines, LineFacts DEF Does, Here, Follow
  <2> QED
    BY <1>15, <2>1, Raises, Operand, NamesAssumption DEF Put, V
<1>16. ASSUME line[p] = 16 PROVE line'[p] = 17 /\ Quiet(p)
  <2>1. Does(p, SAY) /\ Follow(p, 16) = 17
    BY <1>0, <1>16, WriterLines, LineFacts DEF Does, Here, Follow
  <2> QED
    BY <1>16, <2>1, Shows, Operand, NamesAssumption DEF Quiet, V
<1>17. ASSUME line[p] = 17 PROVE line'[p] = 18 /\ Quiet(p)
  <2>1. Does(p, SLEEP) /\ Follow(p, 17) = 18
    BY <1>0, <1>17, WriterLines, LineFacts DEF Does, Here, Follow
  <2> QED
    BY <1>17, <2>1, Shows, Operand, NamesAssumption DEF Quiet, V
<1>18. ASSUME line[p] = 18 PROVE line'[p] = 19 /\ Bound(p, "eax", G("wrs"))
  <2>1. Does(p, LOAD("eax", "wrs")) /\ Follow(p, 18) = 19
    BY <1>0, <1>18, WriterLines, LineFacts DEF Does, Here, Follow
  <2> QED
    BY <1>18, <2>1, Loads, Operand, NamesAssumption DEF Bound, V
<1>19. ASSUME line[p] = 19 PROVE line'[p] = 20 /\ Bound(p, "eax", V(p, "eax") - 1)
  <2>1. Does(p, SUB("eax", "eax", "1")) /\ Follow(p, 19) = 20
    BY <1>0, <1>19, WriterLines, LineFacts DEF Does, Here, Follow
  <2> QED
    BY <1>19, <2>1, Subtracts, Operand, NamesAssumption DEF Bound, V
<1>20. ASSUME line[p] = 20 PROVE line'[p] = 21 /\ Put(p, "wrs", V(p, "eax"))
  <2>1. Does(p, STORE("wrs", "eax")) /\ Follow(p, 20) = 21
    BY <1>0, <1>20, WriterLines, LineFacts DEF Does, Here, Follow
  <2> QED
    BY <1>20, <2>1, Stores, Operand, NamesAssumption DEF Put, V
<1>21. ASSUME line[p] = 21 PROVE line'[p] = 22 /\ Bound(p, "eax", G("rw"))
  <2>1. Does(p, LOAD("eax", "rw")) /\ Follow(p, 21) = 22
    BY <1>0, <1>21, WriterLines, LineFacts DEF Does, Here, Follow
  <2> QED
    BY <1>21, <2>1, Loads, Operand, NamesAssumption DEF Bound, V
<1>22. ASSUME line[p] = 22 PROVE line'[p] = (IF V(p, "eax") <= 0 THEN 31 ELSE 23) /\ Quiet(p)
  <2>1. Does(p, BRLE("eax", "0", "LNOWAKEUPREADER")) /\ Follow(p, 22) = 23
    BY <1>0, <1>22, WriterLines, LineFacts DEF Does, Here, Follow
  <2> QED
    BY <1>22, <2>1, IfNotGreater, WriterPlaces, Operand, NamesAssumption DEF Quiet, V
<1>23. ASSUME line[p] = 23 PROVE line'[p] = 24 /\ Bound(p, "eax", G("rw"))
  <2>1. Does(p, LOAD("eax", "rw")) /\ Follow(p, 23) = 24
    BY <1>0, <1>23, WriterLines, LineFacts DEF Does, Here, Follow
  <2> QED
    BY <1>23, <2>1, Loads, Operand, NamesAssumption DEF Bound, V
<1>24. ASSUME line[p] = 24 PROVE line'[p] = 25 /\ Bound(p, "eax", V(p, "eax") - 1)
  <2>1. Does(p, SUB("eax", "eax", "1")) /\ Follow(p, 24) = 25
    BY <1>0, <1>24, WriterLines, LineFacts DEF Does, Here, Follow
  <2> QED
    BY <1>24, <2>1, Subtracts, Operand, NamesAssumption DEF Bound, V
<1>25. ASSUME line[p] = 25 PROVE line'[p] = 26 /\ Put(p, "rw", V(p, "eax"))
  <2>1. Does(p, STORE("rw", "eax")) /\ Follow(p, 25) = 26
    BY <1>0, <1>25, WriterLines, LineFacts DEF Does, Here, Follow
  <2> QED
    BY <1>25, <2>1, Stores, Operand, NamesAssumption DEF Put, V
<1>26. ASSUME line[p] = 26 PROVE line'[p] = 27 /\ Bound(p, "eax", G("rds"))
  <2>1. Does(p, LOAD("eax", "rds")) /\ Follow(p, 26) = 27
    BY <1>0, <1>26, WriterLines, LineFacts DEF Does, Here, Follow
  <2> QED
    BY <1>26, <2>1, Loads, Operand, NamesAssumption DEF Bound, V
<1>27. ASSUME line[p] = 27 PROVE line'[p] = 28 /\ Bound(p, "eax", V(p, "eax") + 1)
  <2>1. Does(p, ADD("eax", "eax", "1")) /\ Follow(p, 27) = 28
    BY <1>0, <1>27, WriterLines, LineFacts DEF Does, Here, Follow
  <2> QED
    BY <1>27, <2>1, Adds, Operand, NamesAssumption DEF Bound, V
<1>28. ASSUME line[p] = 28 PROVE line'[p] = 29 /\ Put(p, "rds", V(p, "eax"))
  <2>1. Does(p, STORE("rds", "eax")) /\ Follow(p, 28) = 29
    BY <1>0, <1>28, WriterLines, LineFacts DEF Does, Here, Follow
  <2> QED
    BY <1>28, <2>1, Stores, Operand, NamesAssumption DEF Put, V
<1>29. ASSUME line[p] = 29 PROVE line'[p] = 30 /\ Put(p, "rq", G("rq") + 1)
  <2>1. Does(p, UP("rq")) /\ Follow(p, 29) = 30
    BY <1>0, <1>29, WriterLines, LineFacts DEF Does, Here, Follow
  <2> QED
    BY <1>29, <2>1, Raises, Operand, NamesAssumption DEF Put, V
<1>30. ASSUME line[p] = 30 PROVE line'[p] = 0 /\ Quiet(p)
  <2>1. Does(p, RETURN) /\ Follow(p, 30) = 31
    BY <1>0, <1>30, WriterLines, LineFacts DEF Does, Here, Follow
  <2> QED
    BY <1>30, <2>1, Returns, Operand, NamesAssumption DEF Quiet, V
<1>31. ASSUME line[p] = 31 PROVE line'[p] = 32 /\ Bound(p, "eax", G("ww"))
  <2>1. Does(p, LOAD("eax", "ww")) /\ Follow(p, 31) = 32
    BY <1>0, <1>31, WriterLines, LineFacts DEF Does, Here, Follow
  <2> QED
    BY <1>31, <2>1, Loads, Operand, NamesAssumption DEF Bound, V
<1>32. ASSUME line[p] = 32 PROVE line'[p] = (IF V(p, "eax") <= 0 THEN 40 ELSE 33) /\ Quiet(p)
  <2>1. Does(p, BRLE("eax", "0", "LNOWAKEUPWRITER")) /\ Follow(p, 32) = 33
    BY <1>0, <1>32, WriterLines, LineFacts DEF Does, Here, Follow
  <2> QED
    BY <1>32, <2>1, IfNotGreater, WriterPlaces, Operand, NamesAssumption DEF Quiet, V
<1>33. ASSUME line[p] = 33 PROVE line'[p] = 34 /\ Bound(p, "eax", V(p, "eax") - 1)
  <2>1. Does(p, SUB("eax", "eax", "1")) /\ Follow(p, 33) = 34
    BY <1>0, <1>33, WriterLines, LineFacts DEF Does, Here, Follow
  <2> QED
    BY <1>33, <2>1, Subtracts, Operand, NamesAssumption DEF Bound, V
<1>34. ASSUME line[p] = 34 PROVE line'[p] = 35 /\ Put(p, "ww", V(p, "eax"))
  <2>1. Does(p, STORE("ww", "eax")) /\ Follow(p, 34) = 35
    BY <1>0, <1>34, WriterLines, LineFacts DEF Does, Here, Follow
  <2> QED
    BY <1>34, <2>1, Stores, Operand, NamesAssumption DEF Put, V
<1>35. ASSUME line[p] = 35 PROVE line'[p] = 36 /\ Bound(p, "eax", G("wrs"))
  <2>1. Does(p, LOAD("eax", "wrs")) /\ Follow(p, 35) = 36
    BY <1>0, <1>35, WriterLines, LineFacts DEF Does, Here, Follow
  <2> QED
    BY <1>35, <2>1, Loads, Operand, NamesAssumption DEF Bound, V
<1>36. ASSUME line[p] = 36 PROVE line'[p] = 37 /\ Bound(p, "eax", V(p, "eax") + 1)
  <2>1. Does(p, ADD("eax", "eax", "1")) /\ Follow(p, 36) = 37
    BY <1>0, <1>36, WriterLines, LineFacts DEF Does, Here, Follow
  <2> QED
    BY <1>36, <2>1, Adds, Operand, NamesAssumption DEF Bound, V
<1>37. ASSUME line[p] = 37 PROVE line'[p] = 38 /\ Put(p, "wrs", V(p, "eax"))
  <2>1. Does(p, STORE("wrs", "eax")) /\ Follow(p, 37) = 38
    BY <1>0, <1>37, WriterLines, LineFacts DEF Does, Here, Follow
  <2> QED
    BY <1>37, <2>1, Stores, Operand, NamesAssumption DEF Put, V
<1>38. ASSUME line[p] = 38 PROVE line'[p] = 39 /\ Put(p, "wq", G("wq") + 1)
  <2>1. Does(p, UP("wq")) /\ Follow(p, 38) = 39
    BY <1>0, <1>38, WriterLines, LineFacts DEF Does, Here, Follow
  <2> QED
    BY <1>38, <2>1, Raises, Operand, NamesAssumption DEF Put, V
<1>39. ASSUME line[p] = 39 PROVE line'[p] = 0 /\ Quiet(p)
  <2>1. Does(p, RETURN) /\ Follow(p, 39) = 40
    BY <1>0, <1>39, WriterLines, LineFacts DEF Does, Here, Follow
  <2> QED
    BY <1>39, <2>1, Returns, Operand, NamesAssumption DEF Quiet, V
<1>40. ASSUME line[p] = 40 PROVE line'[p] = 0 /\ Put(p, "mtx", G("mtx") + 1)
  <2>1. Does(p, UP("mtx")) /\ Follow(p, 40) = 0
    BY <1>0, <1>40, WriterLines, LineFacts DEF Does, Here, Follow
  <2> QED
    BY <1>40, <2>1, Raises, Operand, NamesAssumption DEF Put, V
<1> QED
  BY <1>0, <1>1, <1>2, <1>3, <1>4, <1>5, <1>6, <1>7, <1>8, <1>9, <1>10, <1>11, <1>12,
     <1>13, <1>14, <1>15, <1>16, <1>17, <1>18, <1>19, <1>20, <1>21, <1>22, <1>23,
     <1>24, <1>25, <1>26, <1>27, <1>28, <1>29, <1>30, <1>31, <1>32, <1>33, <1>34,
     <1>35, <1>36, <1>37, <1>38, <1>39, <1>40

LEMMA ReaderWaits ==
  ASSUME MachineInv, NEW p \in Programs, Text(p) = Reader, waiting[p] # Idle
  PROVE  \/ line[p] \in {2, 29} /\ waiting[p] = <<"mtx", 0>>
         \/ line[p] = 11 /\ waiting[p] = <<"rq", 0>>
<1>1. PICK n \in DOMAIN Text(p) :
        /\ Text(p)[n].op = "DOWN" /\ line[p] = Follow(p, n)
        /\ \A k : Is(Text(p)[n], DOWN(k)) => waiting[p] = <<k, 0>>
  BY WaitsBehind
<1>2. Len(Reader) = 44 /\ n \in 1 .. 44
  BY ReaderLines
<1>3. n \in {1, 10, 28}
  BY <1>1, <1>2, ReaderPlaces
<1>4. Is(Reader[1], DOWN("mtx")) /\ Is(Reader[10], DOWN("rq")) /\ Is(Reader[28], DOWN("mtx"))
  BY ReaderLines, LineFacts
<1> QED
  BY <1>1, <1>2, <1>3, <1>4 DEF Follow

LEMMA WriterWaits ==
  ASSUME MachineInv, NEW p \in Programs, Text(p) = Writer, waiting[p] # Idle
  PROVE  \/ line[p] = 2 /\ waiting[p] = <<"mtx", 0>>
         \/ line[p] = 11 /\ waiting[p] = <<"wq", 0>>
<1>1. PICK n \in DOMAIN Text(p) :
        /\ Text(p)[n].op = "DOWN" /\ line[p] = Follow(p, n)
        /\ \A k : Is(Text(p)[n], DOWN(k)) => waiting[p] = <<k, 0>>
  BY WaitsBehind
<1>2. Len(Writer) = 40 /\ n \in 1 .. 40
  BY WriterLines
<1>3. n \in {1, 10}
  BY <1>1, <1>2, WriterPlaces
<1>4. Is(Writer[1], DOWN("mtx")) /\ Is(Writer[10], DOWN("wq"))
  BY WriterLines, LineFacts
<1> QED
  BY <1>1, <1>2, <1>3, <1>4 DEF Follow

LEMMA InitRWWaits ==
  ASSUME MachineInv, NEW p \in Programs, Text(p) = InitRW
  PROVE  waiting[p] = Idle
<1> SUFFICES ASSUME waiting[p] # Idle PROVE FALSE
  OBVIOUS
<1>1. PICK n \in DOMAIN Text(p) : Text(p)[n].op = "DOWN"
  BY WaitsBehind
<1> QED
  BY <1>1, InitRWLines, InitRWPlaces

-----------------------------------------------------------------------------
(***************************************************************************)
(* $mtx of the readers and the writer, up to the writer's critical         *)
(* section: what Writer.txt does behind it is not needed, since it does    *)
(* not start again.  Here nobody in the critical section does not mean     *)
(* that $mtx is 1: the reader that wakes the writer hands it over.         *)
(***************************************************************************)
RWKeys == {"mtx", "wrs", "ww", "rds", "rw", "rq", "wq"}

ReaderIn(r) ==
  \/ line[r] \in (3 .. 9) \cup (22 .. 25) \cup (30 .. 33) \cup (35 .. 37) \cup (39 .. 44)
  \/ line[r] \in {2, 29} /\ waiting[r] = Idle
WriterIn(w) == line[w] \in (3 .. 9) \cup (12 .. 15) \/ (line[w] = 2 /\ waiting[w] = Idle)

\* no reader that waits in the queue is let in
Queued(r) == line[r] \notin 12 .. 21 /\ (line[r] = 11 => waiting[r] # Idle)

RWLockInv(w) ==
  /\ G("mtx") \in {0, 1}
  /\ G("mtx") = 1 => ~WriterIn(w) /\ \A r \in Users(Reader) : ~ReaderIn(r)
  /\ \A i \in Users(InitRW) : line[i] = 1 =>
        G("mtx") = 0 /\ ~WriterIn(w) /\ \A r \in Users(Reader) : ~ReaderIn(r)
  /\ WriterIn(w) => \A r \in Users(Reader) : ~ReaderIn(r)
  /\ \A r, s \in Users(Reader) : ReaderIn(r) /\ ReaderIn(s) => r = s
  /\ G("rq") = 0 /\ \A r \in Users(Reader) : Queued(r)

LEMMA RWNames ==
  /\ RWKeys \subseteq Keys
  /\ "mtx" \in Keys /\ "wrs" \in Keys /\ "ww" \in Keys /\ "rds" \in Keys
  /\ "rw" \in Keys /\ "rq" \in Keys /\ "wq" \in Keys
  /\ "eax" \in Locals /\ "ebx" \in Locals
BY NamesAssumption DEF RWKeys

LEMMA DifferentKeys ==
  ASSUME NEW k, NEW j, k # j
  PROVE  <<k, 0>> # <<j, 0>>
<1>1. <<k, 0>>[1] = k /\ <<j, 0>>[1] = j
  OBVIOUS
<1> QED
  BY <1>1

LEMMA ReaderLocks ==
  ASSUME MachineInv, NEW r \in Programs, Text(r) = Reader, Step(r), G("rq") = 0, Queued(r)
  PROVE  /\ \/ (ReaderIn(r)' <=> ReaderIn(r)) /\ G("mtx")' = G("mtx")
            \/ ~ReaderIn(r) /\ ReaderIn(r)' /\ G("mtx") > 0 /\ G("mtx")' = G("mtx") - 1
            \/ ReaderIn(r) /\ ~ReaderIn(r)' /\ G("mtx")' = G("mtx") + 1
            \/ ReaderIn(r) /\ ~ReaderIn(r)' /\ G("mtx")' = G("mtx")
         /\ G("rq")' = 0 /\ Queued(r)'
<1>1. CASE waiting[r] # Idle
  <2>1. waiting[r] # <<"rq", 0>>
    <3>1. waiting[r] = <<"rq", 0>> => G("rq") > 0
      BY Takes, RWNames
    <3> QED
      BY <3>1
  <2>2. line[r] \in {2, 29} /\ waiting[r] = <<"mtx", 0>>
    BY <1>1, <2>1, ReaderWaits
  <2>3. /\ line'[r] = line[r] /\ waiting'[r] = Idle /\ G("rq")' = G("rq")
        /\ G("mtx") > 0 /\ G("mtx")' = G("mtx") - 1
    BY <2>2, Takes, RWNames DEF Puts
  <2> QED
    BY <1>1, <2>2, <2>3 DEF ReaderIn, Queued
<1>2. CASE waiting[r] = Idle
  <2>0. line[r] \in (1 .. 10) \cup (22 .. 44)
    <3>1. line[r] \in 1 .. 44
      BY <1>2, ReaderMoves
    <3> QED
      BY <1>2, <3>1 DEF Queued
  <2>1. CASE line[r] \in {1, 28}
    <3>1. /\ line'[r] \in {2, 29} /\ waiting'[r] # Idle
          /\ G("mtx")' = G("mtx") /\ G("rq")' = G("rq")
      BY <1>2, <2>1, ReaderMoves, RWNames DEF Asked, Keeps
    <3> QED
      BY <2>1, <3>1 DEF ReaderIn, Queued
  <2>2. CASE line[r] = 10
    <3>1. /\ line'[r] = 11 /\ waiting'[r] # Idle
          /\ G("mtx")' = G("mtx") /\ G("rq")' = G("rq")
      BY <1>2, <2>2, ReaderMoves, RWNames DEF Asked, Keeps
    <3> QED
      BY <2>2, <3>1 DEF ReaderIn, Queued
  <2>3. CASE line[r] \in {26, 27, 34, 38}
    <3>1. /\ line'[r] \in {27, 28, 0}
          /\ G("mtx")' = G("mtx") /\ G("rq")' = G("rq")
      BY <1>2, <2>3, ReaderMoves, RWNames DEF Quiet, Keeps
    <3> QED
      BY <2>3, <3>1 DEF ReaderIn, Queued
  <2>4. CASE line[r] \in {9, 25, 33, 37}
    <3>1. /\ line'[r] \in {10, 26, 34, 38}
          /\ G("mtx")' = G("mtx") + 1 /\ G("rq")' = G("rq")
      BY <1>2, <2>4, ReaderMoves, RWNames DEF Put, Puts
    <3> QED
      BY <2>4, <3>1 DEF ReaderIn, Queued
  <2>5. CASE line[r] = 44
    <3>1. line'[r] = 0 /\ G("mtx")' = G("mtx") /\ G("rq")' = G("rq")
      BY <1>2, <2>5, ReaderMoves, RWNames DEF Put, Puts
    <3> QED
      BY <2>5, <3>1 DEF ReaderIn, Queued
  <2>6. CASE line[r] \in (2 .. 8) \cup (22 .. 24)
    <3>1. line'[r] \in (3 .. 9) \cup (22 .. 25)
      BY <1>2, <2>6, ReaderMoves
    <3>2. G("mtx")' = G("mtx") /\ G("rq")' = G("rq")
      BY <1>2, <2>6, ReaderMoves, RWNames DEF Quiet, Bound, Put, Keeps, Puts
    <3> QED
      BY <1>2, <2>6, <3>1, <3>2 DEF ReaderIn, Queued
  <2>7. CASE line[r] \in (29 .. 32) \cup {35, 36} \cup (39 .. 43)
    <3>1. line'[r] \in (30 .. 33) \cup (35 .. 37) \cup (39 .. 44)
      BY <1>2, <2>7, ReaderMoves
    <3>2. G("mtx")' = G("mtx") /\ G("rq")' = G("rq")
      BY <1>2, <2>7, ReaderMoves, RWNames DEF Quiet, Bound, Put, Keeps, Puts
    <3> QED
      BY <1>2, <2>7, <3>1, <3>2 DEF ReaderIn, Queued
  <2> QED
    BY <2>0, <2>1, <2>2, <2>3, <2>4, <2>5, <2>6, <2>7
<1> QED
  BY <1>1, <1>2

LEMMA WriterLocks ==
  ASSUME MachineInv, NEW w \in Programs, Text(w) = Writer, Step(w), line[w] \in 1 .. 16
  PROVE  /\ line'[w] \in 1 .. 17 /\ G("rq")' = G("rq")
         /\ \/ (WriterIn(w)' <=> WriterIn(w)) /\ G("mtx")' = G("mtx")
            \/ ~WriterIn(w) /\ WriterIn(w)' /\ G("mtx") > 0 /\ G("mtx")' = G("mtx") - 1
            \/ WriterIn(w) /\ ~WriterIn(w)' /\ G("mtx")' = G("mtx") + 1
<1>1. CASE waiting[w] # Idle /\ waiting[w] = <<"mtx", 0>>
  <2>1. line[w] = 2
    <3>1. <<"mtx", 0>> # <<"wq", 0>>
      BY DifferentKeys
    <3> QED
      BY <1>1, <3>1, WriterWaits
  <2>2. /\ line'[w] = line[w] /\ waiting'[w] = Idle /\ G("rq")' = G("rq")
        /\ G("mtx") > 0 /\ G("mtx")' = G("mtx") - 1
    BY <1>1, Takes, RWNames DEF Puts
  <2> QED
    BY <1>1, <2>1, <2>2 DEF WriterIn
<1>2. CASE waiting[w] # Idle /\ waiting[w] = <<"wq", 0>>
  <2>1. line[w] = 11
    <3>1. <<"mtx", 0>> # <<"wq", 0>>
      BY DifferentKeys
    <3> QED
      BY <1>2, <3>1, WriterWaits
  <2>2. line'[w] = line[w] /\ G("rq")' = G("rq") /\ G("mtx")' = G("mtx")
    BY <1>2, Takes, RWNames DEF Puts
  <2> QED
    BY <2>1, <2>2 DEF WriterIn
<1>3. CASE waiting[w] = Idle
  <2>1. CASE line[w] = 1
    <3>1. /\ line'[w] = 2 /\ waiting'[w] # Idle
          /\ G("mtx")' = G("mtx") /\ G("rq")' = G("rq")
      BY <1>3, <2>1, WriterMoves, RWNames DEF Asked, Keeps
    <3> QED
      BY <2>1, <3>1 DEF WriterIn
  <2>2. CASE line[w] \in {10, 11, 16}
    <3>1. /\ line'[w] \in {11, 16, 17}
          /\ G("mtx")' = G("mtx") /\ G("rq")' = G("rq")
      BY <1>3, <2>2, WriterMoves, RWNames DEF Asked, Quiet, Keeps
    <3> QED
      BY <2>2, <3>1 DEF WriterIn
  <2>3. CASE line[w] \in {9, 15}
    <3>1. /\ line'[w] \in {10, 16}
          /\ G("mtx")' = G("mtx") + 1 /\ G("rq")' = G("rq")
      BY <1>3, <2>3, WriterMoves, RWNames DEF Put, Puts
    <3> QED
      BY <2>3, <3>1 DEF WriterIn
  <2>4. CASE line[w] \in (2 .. 8) \cup (12 .. 14)
    <3>1. line'[w] \in (3 .. 9) \cup (12 .. 15)
      BY <1>3, <2>4, WriterMoves
    <3>2. G("mtx")' = G("mtx") /\ G("rq")' = G("rq")
      BY <1>3, <2>4, WriterMoves, RWNames DEF Quiet, Bound, Put, Keeps, Puts
    <3> QED
      BY <1>3, <2>4, <3>1, <3>2 DEF WriterIn
  <2> QED
    BY <2>1, <2>2, <2>3, <2>4
<1> QED
  BY <1>1, <1>2, <1>3, WriterWaits

\* README.md has one writer in mind: two are refuted by the run WritersExclude.
OneWriter == \A s \in Scenarios : Once(s, Writer)

LEMMA RWUsers ==
  ASSUME OneWriter, MachineInv, NEW w \in Users(Writer), NEW r \in Programs
  PROVE  /\ w \in Programs /\ Text(w) = Writer
         /\ w \notin Users(Reader) /\ w \notin Users(InitRW)
         /\ \A i, j \in Users(InitRW) : i = j
         /\ \/ r = w
            \/ r # w /\ r \in Users(Reader) /\ r \notin Users(InitRW) /\ Text(r) = Reader
            \/ r # w /\ r \in Users(InitRW) /\ r \notin Users(Reader) /\ Text(r) = InitRW
            \/ /\ r # w /\ r \notin Users(Reader) /\ r \notin Users(InitRW)
               /\ LeavesAlone(Text(r), RWKeys)
<1>1. w \in Programs /\ Text(w) = Writer
  BY DEF Users, Executing
<1>2. Writer # Reader /\ Writer # InitRW /\ Reader # InitRW
  BY WriterLines, ReaderLines, InitRWLines
<1>3. w \in Plays(scenario, Writer)
  BY <1>1 DEF Plays, Text
<1>4. /\ Once(scenario, InitRW) /\ Once(scenario, Writer)
      /\ Among(scenario, {InitRW, Reader, Writer}, RWKeys)
  BY <1>3, CastAssumption DEF MachineInv, OneWriter, RWKeys
<1>5. Text(r) = Writer => r = w
  BY <1>3, <1>4 DEF Once, Plays, Text
<1>6. Text(r) \in {InitRW, Reader, Writer} \/ LeavesAlone(Text(r), RWKeys)
  BY <1>4 DEF Among, Text
<1>7. \A t : \A q \in Programs : q \in Users(t) <=> Text(q) = t
  BY DEF Users, Executing
<1>8. \A i, j \in Users(InitRW) : i = j
  BY <1>4 DEF Once, Plays, Users, Executing, Text
<1> QED
  BY <1>1, <1>2, <1>5, <1>6, <1>7, <1>8

LEMMA OthersLeaveRW ==
  ASSUME MachineInv, NEW r \in Programs, Step(r), LeavesAlone(Text(r), RWKeys)
  PROVE  \A k \in RWKeys : G(k)' = G(k)
BY RWNames, Elsewhere

LEMMA StepFrame ==
  ASSUME MachineInv, NEW r \in Programs, Step(r)
  PROVE  /\ \A t : Users(t)' = Users(t)
         /\ \A q \in Programs : q # r => /\ line'[q] = line[q] /\ waiting'[q] = waiting[q]
                                         /\ \A x : V(q, x)' = V(q, x)
<1>1. \A q \in Programs : q # r => /\ line'[q] = line[q] /\ waiting'[q] = waiting[q]
                                   /\ vartable'[q] = vartable[q]
  BY StepAlone DEF Alone
<1>2. \A q \in Programs : q # r => \A x : V(q, x)' = V(q, x)
  BY <1>1 DEF V
<1> QED
  BY <1>1, <1>2, StepAlone, SameUsers DEF Alone

\* InitRW.txt is one line
LEMMA InitRWStep ==
  ASSUME MachineInv, NEW i \in Programs, Text(i) = InitRW, Step(i)
  PROVE  line[i] = 1 /\ line'[i] = 0 /\ G("mtx")' = 1 /\ \A k \in RWKeys \ {"mtx"} : G(k)' = G(k)
BY InitRWWaits, InitRWMoves, RWNames DEF Put, Puts

LEMMA NextRWLock ==
  ASSUME OneWriter, MachineInv, NEW w \in Users(Writer), RWLockInv(w), line[w] \in 1 .. 17,
         NEW r \in Programs, Step(r), line'[w] \in 1 .. 17
  PROVE  RWLockInv(w)'
<1>1. /\ w \in Programs /\ Text(w) = Writer
      /\ w \notin Users(Reader) /\ w \notin Users(InitRW)
      /\ \A i, j \in Users(InitRW) : i = j
      /\ \/ r = w
         \/ r # w /\ r \in Users(Reader) /\ r \notin Users(InitRW) /\ Text(r) = Reader
         \/ r # w /\ r \in Users(InitRW) /\ r \notin Users(Reader) /\ Text(r) = InitRW
         \/ /\ r # w /\ r \notin Users(Reader) /\ r \notin Users(InitRW)
            /\ LeavesAlone(Text(r), RWKeys)
  BY RWUsers
<1>2. /\ Users(Reader)' = Users(Reader) /\ Users(InitRW)' = Users(InitRW)
      /\ \A q \in Programs : q # r => line'[q] = line[q] /\ waiting'[q] = waiting[q]
  BY StepFrame
<1>3. \A t, q : q \in Users(t) => q \in Programs
  BY DEF Users
<1>4. \A q \in Users(Reader) : q # r => (ReaderIn(q)' <=> ReaderIn(q)) /\ (Queued(q)' <=> Queued(q))
  BY <1>2, <1>3 DEF ReaderIn, Queued
<1>5. w # r => (WriterIn(w)' <=> WriterIn(w))
  BY <1>1, <1>2 DEF WriterIn
<1>6. \A i \in Users(InitRW) : i # r => line'[i] = line[i]
  BY <1>2, <1>3
<1>7. CASE r = w
  <2>1. line[w] \in 1 .. 16
    <3>1. line[w] # 17
      <4>1. line[w] = 17 => line'[w] = 18
        BY <1>1, <1>7, WriterWaits, WriterMoves
      <4> QED
        BY <4>1
    <3> QED
      BY <3>1
  <2>2. /\ G("rq")' = G("rq")
        /\ \/ (WriterIn(w)' <=> WriterIn(w)) /\ G("mtx")' = G("mtx")
           \/ ~WriterIn(w) /\ WriterIn(w)' /\ G("mtx") > 0 /\ G("mtx")' = G("mtx") - 1
           \/ WriterIn(w) /\ ~WriterIn(w)' /\ G("mtx")' = G("mtx") + 1
    BY <1>1, <1>7, <2>1, WriterLocks
  <2>3. /\ \A q \in Users(Reader) : (ReaderIn(q)' <=> ReaderIn(q)) /\ (Queued(q)' <=> Queued(q))
        /\ \A i \in Users(InitRW) : line'[i] = line[i]
    BY <1>1, <1>4, <1>6, <1>7
  <2> QED
    BY <1>2, <2>2, <2>3 DEF RWLockInv
<1>8. CASE r # w /\ r \in Users(Reader) /\ r \notin Users(InitRW) /\ Text(r) = Reader
  <2>1. /\ \/ (ReaderIn(r)' <=> ReaderIn(r)) /\ G("mtx")' = G("mtx")
           \/ ~ReaderIn(r) /\ ReaderIn(r)' /\ G("mtx") > 0 /\ G("mtx")' = G("mtx") - 1
           \/ ReaderIn(r) /\ ~ReaderIn(r)' /\ G("mtx")' = G("mtx") + 1
           \/ ReaderIn(r) /\ ~ReaderIn(r)' /\ G("mtx")' = G("mtx")
        /\ G("rq")' = 0 /\ Queued(r)'
    BY <1>8, ReaderLocks DEF RWLockInv
  <2>2. /\ WriterIn(w)' <=> WriterIn(w)
        /\ \A i \in Users(InitRW) : line'[i] = line[i]
    BY <1>5, <1>6, <1>8
  <2> QED
    BY <1>2, <1>4, <1>8, <2>1, <2>2 DEF RWLockInv
<1>9. CASE r # w /\ r \in Users(InitRW) /\ r \notin Users(Reader) /\ Text(r) = InitRW
  <2>1. line[r] = 1 /\ line'[r] = 0 /\ G("mtx")' = 1 /\ G("rq")' = G("rq")
    BY <1>9, InitRWStep DEF RWKeys
  <2>2. \A i \in Users(InitRW) : line'[i] # 1
    BY <1>1, <1>9, <2>1
  <2>3. /\ \A q \in Users(Reader) : (ReaderIn(q)' <=> ReaderIn(q)) /\ (Queued(q)' <=> Queued(q))
        /\ WriterIn(w)' <=> WriterIn(w)
    BY <1>4, <1>5, <1>9
  <2> QED
    BY <1>2, <1>9, <2>1, <2>2, <2>3 DEF RWLockInv
<1>10. CASE /\ r # w /\ r \notin Users(Reader) /\ r \notin Users(InitRW)
            /\ LeavesAlone(Text(r), RWKeys)
  <2>1. G("mtx")' = G("mtx") /\ G("rq")' = G("rq")
    BY <1>10, OthersLeaveRW DEF RWKeys
  <2>2. /\ \A q \in Users(Reader) : (ReaderIn(q)' <=> ReaderIn(q)) /\ (Queued(q)' <=> Queued(q))
        /\ WriterIn(w)' <=> WriterIn(w)
        /\ \A i \in Users(InitRW) : line'[i] = line[i]
    BY <1>4, <1>5, <1>6, <1>10
  <2> QED
    BY <1>2, <2>1, <2>2 DEF RWLockInv
<1> QED
  BY <1>1, <1>7, <1>8, <1>9, <1>10

-----------------------------------------------------------------------------
(***************************************************************************)
(* What $rds, $wrs and $ww count, and on which way the writer is.          *)
(***************************************************************************)
\* the readers that are counted in $rds
Active == {r \in Users(Reader) : line[r] \in 25 .. 31}

\* the copies of the counts in the critical section, and what a reader there knows
ReaderCopy(r) ==
  /\ line[r] = 3 => V(r, "eax") = G("wrs")
  /\ line[r] = 4 => V(r, "eax") = G("wrs") /\ V(r, "ebx") = G("ww")
  /\ line[r] = 5 => V(r, "eax") = G("ww") + G("wrs")
  /\ line[r] \in 22 .. 24 => G("ww") = 0 /\ G("wrs") = 0
  /\ line[r] \in {23, 30, 32} => V(r, "eax") = G("rds")
  /\ line[r] = 24 => V(r, "eax") = G("rds") + 1
  /\ line[r] = 31 => V(r, "eax") = G("rds") - 1
  /\ line[r] \in {35, 36} \cup (39 .. 44) => G("rds") = 0
  /\ line[r] \in {36, 39} => V(r, "eax") = G("ww")
  /\ line[r] = 40 => V(r, "eax") = G("ww") - 1
  /\ line[r] = 42 => V(r, "eax") = G("wrs")
  /\ line[r] = 43 => V(r, "eax") = G("wrs") + 1

WriterCopy(w) ==
  /\ line[w] = 3 => V(w, "eax") = G("rds")
  /\ line[w] = 4 => V(w, "eax") = G("rds") /\ V(w, "ebx") = G("wrs")
  /\ line[w] = 5 => V(w, "eax") = G("rds") + G("wrs")
  /\ line[w] = 7 => V(w, "eax") = G("ww")
  /\ line[w] = 8 => V(w, "eax") = G("ww") + 1
  /\ line[w] \in 12 .. 14 => G("rds") = 0
  /\ line[w] = 13 => V(w, "eax") = G("wrs")
  /\ line[w] = 14 => V(w, "eax") = G("wrs") + 1

\* a reader at the lines from n to 44 is on its way to wake the writer
NoneWakes(n) == \A r \in Users(Reader) : line[r] \notin n .. 44

\* the writer is counted in nothing, in $ww, or in $wrs
Uncounted == G("ww") = 0 /\ G("wrs") = 0 /\ G("wq") = 0 /\ NoneWakes(39)
Granted(n) == G("ww") = 0 /\ G("wrs") = 1 /\ G("wq") = n /\ G("rds") = 0 /\ NoneWakes(39)
Waits ==
  \/ G("ww") = 1 /\ G("wrs") = 0 /\ G("wq") = 0 /\ NoneWakes(41)
  \/ /\ G("ww") = 0 /\ G("wrs") = 0 /\ G("wq") = 0
     /\ \E r \in Users(Reader) : line[r] \in 41 .. 43
  \/ G("ww") = 0 /\ G("wrs") = 1 /\ G("wq") = 0 /\ \E r \in Users(Reader) : line[r] = 44
  \/ Granted(1)

PhaseInv(w) ==
  /\ line[w] \in (1 .. 8) \cup (12 .. 14) => Uncounted
  /\ line[w] \in {9, 10} \/ (line[w] = 11 /\ waiting[w] # Idle) => Waits
  /\ line[w] \in 15 .. 17 \/ (line[w] = 11 /\ waiting[w] = Idle) => Granted(0)

RWDataInv(w) ==
  /\ G("rds") = Cardinality(Active)
  /\ \A r \in Users(Reader) : ReaderCopy(r)
  /\ WriterCopy(w)
  /\ PhaseInv(w)

Counts == <<G("rds"), G("wrs"), G("ww"), G("wq")>>

LEMMA ActiveFinite == IsFiniteSet(Active) /\ Cardinality(Active) \in Nat
<1>1. Active \subseteq Programs
  BY DEF Active, Users
<1>2. IsFiniteSet(Active)
  BY <1>1, MachineAssumption, FS_Subset
<1> QED
  BY <1>2, FS_CardinalityType

\* only the reader r moves
LEMMA ActiveMoves ==
  ASSUME NEW r \in Users(Reader), Users(Reader)' = Users(Reader),
         \A d \in Users(Reader) : d # r => line'[d] = line[d]
  PROVE  /\ (line'[r] \in 25 .. 31 <=> line[r] \in 25 .. 31) => Active' = Active
         /\ line'[r] \in 25 .. 31 /\ line[r] \notin 25 .. 31 =>
              Cardinality(Active)' = Cardinality(Active) + 1
         /\ line'[r] \notin 25 .. 31 /\ line[r] \in 25 .. 31 =>
              Cardinality(Active)' = Cardinality(Active) - 1 /\ Cardinality(Active) > 0
<1>1. (line'[r] \in 25 .. 31 <=> line[r] \in 25 .. 31) => Active' = Active
  BY DEF Active
<1>2. ASSUME line'[r] \in 25 .. 31, line[r] \notin 25 .. 31
      PROVE  Cardinality(Active)' = Cardinality(Active) + 1
  <2>1. Active' = Active \cup {r} /\ r \notin Active
    BY <1>2 DEF Active
  <2> QED
    BY <2>1, ActiveFinite, FS_AddElement
<1>3. ASSUME line'[r] \notin 25 .. 31, line[r] \in 25 .. 31
      PROVE  Cardinality(Active)' = Cardinality(Active) - 1 /\ Cardinality(Active) > 0
  <2>1. Active' = Active \ {r} /\ r \in Active
    BY <1>3 DEF Active
  <2>2. Cardinality(Active)' = Cardinality(Active) - 1
    BY <2>1, ActiveFinite, FS_RemoveElement
  <2>3. Cardinality(Active) # 0
    BY <2>1, ActiveFinite, FS_EmptySet
  <2> QED
    BY <2>2, <2>3, ActiveFinite
<1> QED
  BY <1>1, <1>2, <1>3

\* A reader that leaves the counts alone and stays on its way, or off it.
LEMMA ReaderKeeps ==
  ASSUME NEW w, NEW r \in Users(Reader), RWDataInv(w), Counts' = Counts,
         Users(Reader)' = Users(Reader),
         \A d \in Users(Reader) : d # r => line'[d] = line[d] /\ \A x : V(d, x)' = V(d, x),
         line'[w] = line[w], waiting'[w] = waiting[w], \A x : V(w, x)' = V(w, x),
         ReaderCopy(r)',
         line'[r] \in 25 .. 31 <=> line[r] \in 25 .. 31,
         line'[r] \in 39 .. 44 <=> line[r] \in 39 .. 44,
         line'[r] \in 41 .. 43 <=> line[r] \in 41 .. 43,
         line'[r] = 44 <=> line[r] = 44
  PROVE  RWDataInv(w)'
<1>1. /\ G("rds")' = G("rds") /\ G("wrs")' = G("wrs") /\ G("ww")' = G("ww") /\ G("wq")' = G("wq")
  BY DEF Counts
<1>2. Active' = Active
  BY ActiveMoves
<1>3. \A d \in Users(Reader) : ReaderCopy(d)'
  BY <1>1 DEF RWDataInv, ReaderCopy
<1>4. WriterCopy(w)'
  BY <1>1 DEF RWDataInv, WriterCopy
<1>5. /\ NoneWakes(39) => NoneWakes(39)'
      /\ NoneWakes(41) => NoneWakes(41)'
  BY DEF NoneWakes
<1>6. /\ Uncounted => Uncounted'
      /\ \A n : Granted(n) => Granted(n)'
  BY <1>1, <1>5 DEF Uncounted, Granted
<1>7. Waits => Waits'
  BY <1>1, <1>5, <1>6 DEF Waits
<1>8. PhaseInv(w)'
  BY <1>6, <1>7 DEF RWDataInv, PhaseInv
<1> QED
  BY <1>1, <1>2, <1>3, <1>4, <1>8 DEF RWDataInv

\* A reader in the critical section that changes the counts is the only one
\* to know them.
LEMMA ReaderAlone ==
  ASSUME NEW w, NEW r \in Users(Reader), RWLockInv(w), ReaderIn(r),
         Users(Reader)' = Users(Reader),
         \A d \in Users(Reader) : d # r => line'[d] = line[d],
         line'[w] = line[w]
  PROVE  /\ \A d \in Users(Reader) : d # r => ReaderCopy(d)' /\ line[d] \notin 39 .. 44
         /\ WriterCopy(w)'
<1>1. \A d \in Users(Reader) : d # r => ~ReaderIn(d)
  BY DEF RWLockInv
<1>2. ~WriterIn(w)
  BY DEF RWLockInv
<1>3. \A d \in Users(Reader) : d # r => ReaderCopy(d)' /\ line[d] \notin 39 .. 44
  BY <1>1 DEF ReaderIn, ReaderCopy
<1>4. WriterCopy(w)'
  BY <1>2 DEF WriterIn, WriterCopy
<1> QED
  BY <1>3, <1>4

\* the steps of a reader by what they are to the writer and to the counts
LEMMA ReaderData ==
  ASSUME MachineInv, NEW w \in Users(Writer), line[w] \in 1 .. 17, RWLockInv(w), RWDataInv(w),
         NEW r \in Users(Reader), r # w, Text(r) = Reader, Step(r)
  PROVE  RWDataInv(w)'
<1>1. /\ Users(Reader)' = Users(Reader) /\ r \in Programs
      /\ \A d \in Users(Reader) : d # r => line'[d] = line[d] /\ \A x : V(d, x)' = V(d, x)
      /\ line'[w] = line[w] /\ waiting'[w] = waiting[w] /\ \A x : V(w, x)' = V(w, x)
  <2>1. \A t : \A q \in Users(t) : q \in Programs
    BY DEF Users
  <2> QED
    BY <2>1, StepFrame
<1>2. /\ G("rds") = Cardinality(Active) /\ Cardinality(Active) \in Nat
      /\ ReaderCopy(r) /\ PhaseInv(w) /\ Queued(r) /\ G("rq") = 0
  BY ActiveFinite DEF RWDataInv, RWLockInv
<1>3. ASSUME Counts' = Counts, ReaderCopy(r)',
             line'[r] \in 25 .. 31 <=> line[r] \in 25 .. 31,
             line'[r] \in 39 .. 44 <=> line[r] \in 39 .. 44,
             line'[r] \in 41 .. 43 <=> line[r] \in 41 .. 43,
             line'[r] = 44 <=> line[r] = 44
      PROVE  RWDataInv(w)'
  BY <1>1, <1>3, ReaderKeeps
<1>4. ASSUME ReaderIn(r)
      PROVE  /\ \A d \in Users(Reader) : d # r => ReaderCopy(d)' /\ line[d] \notin 39 .. 44
             /\ WriterCopy(w)'
  BY <1>1, <1>4, ReaderAlone
<1>5. CASE waiting[r] # Idle
  <2>1. waiting[r] # <<"rq", 0>>
    <3>1. waiting[r] = <<"rq", 0>> => G("rq") > 0
      BY <1>1, Takes, RWNames
    <3> QED
      BY <1>2, <3>1
  <2>2. line[r] \in {2, 29} /\ waiting[r] = <<"mtx", 0>>
    BY <1>1, <1>5, <2>1, ReaderWaits
  <2>3. line'[r] = line[r] /\ Counts' = Counts
    BY <1>1, <2>2, Takes, RWNames DEF Puts, Counts
  <2> QED
    BY <1>3, <2>2, <2>3 DEF ReaderCopy
<1>6. CASE waiting[r] = Idle
  <2>0. line[r] \in (1 .. 10) \cup (22 .. 44)
    <3>1. line[r] \in 1 .. 44
      BY <1>1, <1>6, ReaderMoves
    <3> QED
      BY <1>2, <1>6, <3>1 DEF Queued
  <2>1. CASE line[r] \in {1, 6, 7, 8, 9, 10, 25, 26, 27, 28, 33, 34, 37, 38}
    <3>1. /\ line'[r] \in {2, 7, 8, 9, 10, 11, 26, 27, 28, 29, 34, 0, 38}
          /\ line'[r] \in 25 .. 31 <=> line[r] \in 25 .. 31
      BY <1>1, <1>6, <2>1, ReaderMoves
    <3>2. Counts' = Counts
      BY <1>1, <1>6, <2>1, ReaderMoves, RWNames DEF Quiet, Bound, Put, Asked, Keeps, Puts, Counts
    <3> QED
      BY <1>3, <2>1, <3>1, <3>2 DEF ReaderCopy
  <2>2. CASE line[r] = 2
    <3>1. line'[r] = 3 /\ Counts' = Counts /\ V(r, "eax")' = G("wrs") /\ G("wrs")' = G("wrs")
      BY <1>1, <1>6, <2>2, ReaderMoves, RWNames DEF Bound, Binds, Keeps, Counts, V
    <3> QED
      BY <1>3, <2>2, <3>1 DEF ReaderCopy
  <2>3. CASE line[r] = 3
    <3>1. /\ line'[r] = 4 /\ Counts' = Counts /\ V(r, "ebx")' = G("ww") /\ V(r, "eax")' = V(r, "eax")
          /\ G("ww")' = G("ww") /\ G("wrs")' = G("wrs")
      BY <1>1, <1>6, <2>3, ReaderMoves, RWNames DEF Bound, Binds, Keeps, Counts, V
    <3> QED
      BY <1>2, <1>3, <2>3, <3>1 DEF ReaderCopy
  <2>4. CASE line[r] = 4
    <3>1. /\ line'[r] = 5 /\ Counts' = Counts /\ V(r, "eax")' = V(r, "ebx") + V(r, "eax")
          /\ G("ww")' = G("ww") /\ G("wrs")' = G("wrs")
      BY <1>1, <1>6, <2>4, ReaderMoves, RWNames DEF Bound, Binds, Keeps, Counts, V
    <3> QED
      BY <1>2, <1>3, <2>4, <3>1 DEF ReaderCopy
  <2>5. CASE line[r] = 5
    <3>1. /\ line'[r] = (IF V(r, "eax") <= 0 THEN 22 ELSE 6) /\ Counts' = Counts
          /\ G("ww")' = G("ww") /\ G("wrs")' = G("wrs")
      BY <1>1, <1>6, <2>5, ReaderMoves, RWNames DEF Quiet, Keeps, Counts
    <3>2. V(r, "eax") = G("ww") + G("wrs")
      BY <1>2, <2>5 DEF ReaderCopy
    <3>3. G("ww") \in {0, 1} /\ G("wrs") \in {0, 1}
      BY <1>2 DEF PhaseInv, Uncounted, Waits, Granted
    <3>4. line'[r] = 22 => G("ww") = 0 /\ G("wrs") = 0
      BY <3>1, <3>2, <3>3
    <3> QED
      BY <1>3, <2>5, <3>1, <3>4 DEF ReaderCopy
  <2>6. CASE line[r] \in {22, 29}
    <3>1. /\ line'[r] = line[r] + 1 /\ Counts' = Counts /\ V(r, "eax")' = G("rds")
          /\ G("rds")' = G("rds") /\ G("ww")' = G("ww") /\ G("wrs")' = G("wrs")
      BY <1>1, <1>6, <2>6, ReaderMoves, RWNames DEF Bound, Binds, Keeps, Counts, V
    <3> QED
      BY <1>2, <1>3, <2>6, <3>1 DEF ReaderCopy
  <2>7. CASE line[r] \in {23, 30}
    <3>1. /\ line'[r] = line[r] + 1 /\ Counts' = Counts
          /\ V(r, "eax")' = IF line[r] = 23 THEN V(r, "eax") + 1 ELSE V(r, "eax") - 1
          /\ G("rds")' = G("rds") /\ G("ww")' = G("ww") /\ G("wrs")' = G("wrs")
      BY <1>1, <1>6, <2>7, ReaderMoves, RWNames DEF Bound, Binds, Keeps, Counts, V
    <3> QED
      BY <1>2, <1>3, <2>7, <3>1 DEF ReaderCopy
  <2>8. CASE line[r] = 24
    <3>1. /\ line'[r] = 25 /\ G("rds")' = V(r, "eax") /\ G("ww")' = G("ww")
          /\ G("wrs")' = G("wrs") /\ G("wq")' = G("wq")
      BY <1>1, <1>6, <2>8, ReaderMoves, RWNames DEF Put, Puts
    <3>2. V(r, "eax") = G("rds") + 1 /\ G("ww") = 0 /\ G("wrs") = 0
      BY <1>2, <2>8 DEF ReaderCopy
    <3>3. ReaderIn(r)
      BY <2>8 DEF ReaderIn
    <3>4. G("rds")' = Cardinality(Active)'
      BY <1>1, <1>2, <2>8, <3>1, <3>2, ActiveMoves
    <3>5. \A d \in Users(Reader) : ReaderCopy(d)'
      BY <1>1, <1>4, <3>1, <3>3 DEF ReaderCopy
    <3>6. ~Waits /\ ~Granted(0)
      BY <1>4, <2>8, <3>2, <3>3 DEF Waits, Granted
    <3>7. Uncounted => Uncounted'
      BY <1>1, <3>1 DEF Uncounted, NoneWakes
    <3>8. PhaseInv(w)'
      BY <1>1, <1>2, <3>6, <3>7 DEF PhaseInv
    <3> QED
      BY <1>1, <1>4, <3>3, <3>4, <3>5, <3>8 DEF RWDataInv
  <2>9. CASE line[r] = 31
    <3>1. /\ line'[r] = 32 /\ G("rds")' = V(r, "eax") /\ V(r, "eax")' = V(r, "eax")
          /\ G("ww")' = G("ww") /\ G("wrs")' = G("wrs") /\ G("wq")' = G("wq")
      BY <1>1, <1>6, <2>9, ReaderMoves, RWNames DEF Put, Puts, Own, V
    <3>2. V(r, "eax") = G("rds") - 1
      BY <1>2, <2>9 DEF ReaderCopy
    <3>3. ReaderIn(r)
      BY <2>9 DEF ReaderIn
    <3>4. G("rds")' = Cardinality(Active)' /\ G("rds") # 0
      BY <1>1, <1>2, <2>9, <3>1, <3>2, ActiveMoves
    <3>5. \A d \in Users(Reader) : ReaderCopy(d)'
      BY <1>1, <1>4, <3>1, <3>3 DEF ReaderCopy
    <3>6. ~Granted(0) /\ ~Granted(1)
      BY <3>4 DEF Granted
    <3>7. Uncounted => Uncounted'
      BY <1>1, <3>1 DEF Uncounted, NoneWakes
    <3>8. Waits => Waits'
      BY <1>1, <1>4, <2>9, <3>1, <3>3, <3>6 DEF Waits, NoneWakes
    <3>9. PhaseInv(w)'
      BY <1>1, <1>2, <3>6, <3>7, <3>8 DEF PhaseInv
    <3> QED
      BY <1>1, <1>4, <3>3, <3>4, <3>5, <3>9 DEF RWDataInv
  <2>10. CASE line[r] = 32
    <3>1. /\ line'[r] = (IF V(r, "eax") = 0 THEN 35 ELSE 33) /\ Counts' = Counts
          /\ G("rds")' = G("rds")
      BY <1>1, <1>6, <2>10, ReaderMoves, RWNames DEF Quiet, Keeps, Counts
    <3>2. V(r, "eax") = G("rds")
      BY <1>2, <2>10 DEF ReaderCopy
    <3> QED
      BY <1>3, <2>10, <3>1, <3>2 DEF ReaderCopy
  <2>11. CASE line[r] = 35
    <3>1. /\ line'[r] = 36 /\ Counts' = Counts /\ V(r, "eax")' = G("ww")
          /\ G("rds")' = G("rds") /\ G("ww")' = G("ww")
      BY <1>1, <1>6, <2>11, ReaderMoves, RWNames DEF Bound, Binds, Keeps, Counts, V
    <3> QED
      BY <1>2, <1>3, <2>11, <3>1 DEF ReaderCopy
  <2>12. CASE line[r] = 36
    <3>1. /\ line'[r] = (IF V(r, "eax") > 0 THEN 39 ELSE 37) /\ Counts' = Counts
          /\ V(r, "eax")' = V(r, "eax") /\ G("rds")' = G("rds") /\ G("ww")' = G("ww")
          /\ G("wrs")' = G("wrs") /\ G("wq")' = G("wq")
      BY <1>1, <1>6, <2>12, ReaderMoves, RWNames DEF Quiet, Own, Keeps, Counts, V
    <3>2. V(r, "eax") = G("ww") /\ G("rds") = 0 /\ ReaderIn(r)
      BY <1>2, <2>12 DEF ReaderCopy, ReaderIn
    <3>3. ReaderCopy(r)'
      BY <3>1, <3>2 DEF ReaderCopy
    <3>4. CASE line'[r] = 37
      BY <1>3, <2>12, <3>1, <3>3, <3>4
    <3>5. CASE line'[r] = 39
      <4>1. G("ww") # 0
        BY <3>1, <3>2, <3>5
      <4>2. ~Uncounted /\ ~Granted(0) /\ ~Granted(1)
        BY <4>1 DEF Uncounted, Granted
      <4>3. Waits => Waits'
        BY <1>1, <3>1, <3>5, <4>1, <4>2 DEF Waits, NoneWakes
      <4>4. PhaseInv(w)'
        BY <1>1, <1>2, <4>2, <4>3 DEF PhaseInv
      <4>5. \A d \in Users(Reader) : ReaderCopy(d)'
        BY <1>1, <1>4, <3>2, <3>3
      <4>6. Active' = Active
        BY <1>1, <2>12, <3>5, ActiveMoves
      <4> QED
        BY <1>1, <1>2, <1>4, <3>1, <3>2, <4>4, <4>5, <4>6 DEF RWDataInv
    <3> QED
      BY <3>1, <3>4, <3>5
  <2>13. CASE line[r] \in {39, 41, 42}
    <3>1. /\ line'[r] = line[r] + 1 /\ Counts' = Counts
          /\ V(r, "eax")' = IF line[r] = 39 THEN V(r, "eax") - 1
                            ELSE IF line[r] = 41 THEN G("wrs") ELSE V(r, "eax") + 1
          /\ G("rds")' = G("rds") /\ G("ww")' = G("ww") /\ G("wrs")' = G("wrs")
      BY <1>1, <1>6, <2>13, ReaderMoves, RWNames DEF Bound, Binds, Keeps, Counts, V
    <3>2. ReaderCopy(r)'
      BY <1>2, <2>13, <3>1 DEF ReaderCopy
    <3> QED
      BY <1>3, <2>13, <3>1, <3>2
  <2>14. CASE line[r] = 40
    <3>1. /\ line'[r] = 41 /\ G("ww")' = V(r, "eax") /\ G("rds")' = G("rds")
          /\ G("wrs")' = G("wrs") /\ G("wq")' = G("wq")
      BY <1>1, <1>6, <2>14, ReaderMoves, RWNames DEF Put, Puts
    <3>2. V(r, "eax") = G("ww") - 1 /\ G("rds") = 0 /\ ReaderIn(r)
      BY <1>2, <2>14 DEF ReaderCopy, ReaderIn
    <3>3. ~Uncounted /\ ~Granted(0) /\ ~Granted(1)
      BY <2>14 DEF Uncounted, Granted, NoneWakes
    <3>4. Waits => Waits'
      BY <1>1, <1>4, <2>14, <3>1, <3>2, <3>3 DEF Waits, NoneWakes
    <3>5. PhaseInv(w)'
      BY <1>1, <1>2, <3>3, <3>4 DEF PhaseInv
    <3>6. \A d \in Users(Reader) : ReaderCopy(d)'
      BY <1>1, <1>4, <3>1, <3>2 DEF ReaderCopy
    <3>7. Active' = Active
      BY <1>1, <2>14, <3>1, ActiveMoves
    <3> QED
      BY <1>1, <1>2, <1>4, <3>1, <3>2, <3>5, <3>6, <3>7 DEF RWDataInv
  <2>15. CASE line[r] = 43
    <3>1. /\ line'[r] = 44 /\ G("wrs")' = V(r, "eax") /\ G("rds")' = G("rds")
          /\ G("ww")' = G("ww") /\ G("wq")' = G("wq")
      BY <1>1, <1>6, <2>15, ReaderMoves, RWNames DEF Put, Puts
    <3>2. V(r, "eax") = G("wrs") + 1 /\ G("rds") = 0 /\ ReaderIn(r)
      BY <1>2, <2>15 DEF ReaderCopy, ReaderIn
    <3>3. ~Uncounted /\ ~Granted(0) /\ ~Granted(1)
      BY <2>15 DEF Uncounted, Granted, NoneWakes
    <3>4. Waits => Waits'
      BY <1>1, <1>4, <2>15, <3>1, <3>2, <3>3 DEF Waits, NoneWakes
    <3>5. PhaseInv(w)'
      BY <1>1, <1>2, <3>3, <3>4 DEF PhaseInv
    <3>6. \A d \in Users(Reader) : ReaderCopy(d)'
      BY <1>1, <1>4, <3>1, <3>2 DEF ReaderCopy
    <3>7. Active' = Active
      BY <1>1, <2>15, <3>1, ActiveMoves
    <3> QED
      BY <1>1, <1>2, <1>4, <3>1, <3>2, <3>5, <3>6, <3>7 DEF RWDataInv
  <2>16. CASE line[r] = 44
    <3>1. /\ line'[r] = 0 /\ G("wq")' = G("wq") + 1 /\ G("rds")' = G("rds")
          /\ G("ww")' = G("ww") /\ G("wrs")' = G("wrs")
      BY <1>1, <1>6, <2>16, ReaderMoves, RWNames DEF Put, Puts
    <3>2. G("rds") = 0 /\ ReaderIn(r)
      BY <1>2, <2>16 DEF ReaderCopy, ReaderIn
    <3>3. ~Uncounted /\ ~Granted(0) /\ ~Granted(1)
      BY <2>16 DEF Uncounted, Granted, NoneWakes
    <3>4. NoneWakes(39)'
      BY <1>1, <1>4, <3>1, <3>2 DEF NoneWakes
    <3>5. Waits => Granted(1)'
      BY <1>1, <1>4, <2>16, <3>1, <3>2, <3>3, <3>4 DEF Waits, Granted, NoneWakes
    <3>6. PhaseInv(w)'
      BY <1>1, <1>2, <3>3, <3>5 DEF PhaseInv, Waits
    <3>7. \A d \in Users(Reader) : ReaderCopy(d)'
      BY <1>1, <1>4, <3>1, <3>2 DEF ReaderCopy
    <3>8. Active' = Active
      BY <1>1, <2>16, <3>1, ActiveMoves
    <3> QED
      BY <1>1, <1>2, <1>4, <3>1, <3>2, <3>6, <3>7, <3>8 DEF RWDataInv
  <2> QED
    BY <2>0, <2>1, <2>2, <2>3, <2>4, <2>5, <2>6, <2>7, <2>8, <2>9, <2>10, <2>11, <2>12,
       <2>13, <2>14, <2>15, <2>16
<1> QED
  BY <1>5, <1>6

\* A step of somebody else, or one of the writer's that changes no count.
LEMMA WriterKeeps ==
  ASSUME NEW w, RWDataInv(w), Counts' = Counts, Users(Reader)' = Users(Reader),
         \A d \in Users(Reader) : line'[d] = line[d] /\ \A x : V(d, x)' = V(d, x),
         WriterCopy(w)',
         line'[w] \in (1 .. 8) \cup (12 .. 14) => line[w] \in (1 .. 8) \cup (12 .. 14),
         line'[w] \in {9, 10} \/ (line'[w] = 11 /\ waiting'[w] # Idle) =>
           line[w] \in {9, 10} \/ (line[w] = 11 /\ waiting[w] # Idle),
         line'[w] \in 15 .. 17 \/ (line'[w] = 11 /\ waiting'[w] = Idle) =>
           line[w] \in 15 .. 17 \/ (line[w] = 11 /\ waiting[w] = Idle)
  PROVE  RWDataInv(w)'
<1>1. /\ G("rds")' = G("rds") /\ G("wrs")' = G("wrs") /\ G("ww")' = G("ww") /\ G("wq")' = G("wq")
  BY DEF Counts
<1>2. Active' = Active
  BY DEF Active
<1>3. \A d \in Users(Reader) : ReaderCopy(d)'
  BY <1>1 DEF RWDataInv, ReaderCopy
<1>4. /\ NoneWakes(39) => NoneWakes(39)'
      /\ NoneWakes(41) => NoneWakes(41)'
  BY DEF NoneWakes
<1>5. /\ Uncounted => Uncounted'
      /\ \A n : Granted(n) => Granted(n)'
  BY <1>1, <1>4 DEF Uncounted, Granted
<1>6. Waits => Waits'
  BY <1>1, <1>4, <1>5 DEF Waits
<1>7. PhaseInv(w)
  BY DEF RWDataInv
<1>8. PhaseInv(w)'
  BY <1>5, <1>6, <1>7 DEF PhaseInv
<1> QED
  BY <1>1, <1>2, <1>3, <1>8 DEF RWDataInv

LEMMA WriterData ==
  ASSUME MachineInv, NEW w \in Users(Writer), line[w] \in 1 .. 16, RWLockInv(w), RWDataInv(w),
         w \notin Users(Reader), Text(w) = Writer, Step(w)
  PROVE  RWDataInv(w)'
<1>1. /\ Users(Reader)' = Users(Reader) /\ w \in Programs
      /\ \A d \in Users(Reader) : line'[d] = line[d] /\ \A x : V(d, x)' = V(d, x)
  <2>1. \A t : \A q \in Users(t) : q \in Programs
    BY DEF Users
  <2> QED
    BY <2>1, StepFrame
<1>2. /\ G("rds") = Cardinality(Active) /\ Cardinality(Active) \in Nat
      /\ WriterCopy(w) /\ PhaseInv(w)
  BY ActiveFinite DEF RWDataInv
<1>3. ASSUME Counts' = Counts, WriterCopy(w)',
             line'[w] \in (1 .. 8) \cup (12 .. 14) => line[w] \in (1 .. 8) \cup (12 .. 14),
             line'[w] \in {9, 10} \/ (line'[w] = 11 /\ waiting'[w] # Idle) =>
               line[w] \in {9, 10} \/ (line[w] = 11 /\ waiting[w] # Idle),
             line'[w] \in 15 .. 17 \/ (line'[w] = 11 /\ waiting'[w] = Idle) =>
               line[w] \in 15 .. 17 \/ (line[w] = 11 /\ waiting[w] = Idle)
      PROVE  RWDataInv(w)'
  BY <1>1, <1>3, WriterKeeps
\* the writer in the critical section changes what no reader has read
<1>4. Active' = Active
  BY <1>1 DEF Active
<1>5. /\ \A n : (NoneWakes(n)' <=> NoneWakes(n))
      /\ NoneWakes(39) => NoneWakes(41)
  BY <1>1 DEF NoneWakes
<1>6. WriterIn(w) => \A d \in Users(Reader) : ReaderCopy(d)'
  BY <1>1 DEF RWLockInv, ReaderIn, ReaderCopy
<1>7. CASE waiting[w] # Idle /\ waiting[w] = <<"mtx", 0>>
  <2>1. line[w] = 2
    <3>1. <<"mtx", 0>> # <<"wq", 0>>
      BY DifferentKeys
    <3> QED
      BY <1>1, <1>7, <3>1, WriterWaits
  <2>2. line'[w] = line[w] /\ Counts' = Counts
    BY <1>1, <1>7, Takes, RWNames DEF Puts, Counts
  <2> QED
    BY <1>3, <2>1, <2>2 DEF WriterCopy
<1>8. CASE waiting[w] # Idle /\ waiting[w] = <<"wq", 0>>
  <2>1. line[w] = 11
    <3>1. <<"mtx", 0>> # <<"wq", 0>>
      BY DifferentKeys
    <3> QED
      BY <1>1, <1>8, <3>1, WriterWaits
  <2>2. /\ line'[w] = line[w] /\ waiting'[w] = Idle /\ G("rds")' = G("rds") /\ G("ww")' = G("ww")
        /\ G("wrs")' = G("wrs") /\ G("wq") > 0 /\ G("wq")' = G("wq") - 1
    BY <1>1, <1>8, Takes, RWNames DEF Puts
  <2>3. Granted(1)
    BY <1>2, <1>8, <2>1, <2>2 DEF PhaseInv, Waits
  <2>4. Granted(0)'
    BY <1>5, <2>2, <2>3 DEF Granted
  <2>5. WriterCopy(w)' /\ PhaseInv(w)'
    BY <2>1, <2>2, <2>4 DEF WriterCopy, PhaseInv
  <2>6. \A d \in Users(Reader) : ReaderCopy(d)'
    BY <1>1, <2>2 DEF RWDataInv, ReaderCopy
  <2> QED
    BY <1>1, <1>2, <1>4, <2>2, <2>5, <2>6 DEF RWDataInv
<1>9. CASE waiting[w] = Idle
  <2>1. CASE line[w] \in {1, 9, 10, 11, 15, 16}
    <3>1. /\ line'[w] = (IF line[w] = 11 THEN 16 ELSE line[w] + 1)
          /\ line[w] = 10 => waiting'[w] # Idle
      BY <1>1, <1>9, <2>1, WriterMoves DEF Asked
    <3>2. Counts' = Counts
      BY <1>1, <1>9, <2>1, WriterMoves, RWNames DEF Quiet, Put, Asked, Keeps, Puts, Counts
    <3> QED
      BY <1>3, <1>9, <2>1, <3>1, <3>2 DEF WriterCopy
  <2>2. CASE line[w] \in {2, 3, 4, 6, 7, 12, 13}
    <3>1. line'[w] = line[w] + 1 /\ Counts' = Counts
      BY <1>1, <1>9, <2>2, WriterMoves, RWNames DEF Quiet, Bound, Keeps, Counts
    <3>2. G("rds")' = G("rds") /\ G("ww")' = G("ww") /\ G("wrs")' = G("wrs")
      BY <3>1 DEF Counts
    <3>3. /\ line[w] = 2 => V(w, "eax")' = G("rds")
          /\ line[w] = 3 => V(w, "ebx")' = G("wrs") /\ V(w, "eax")' = V(w, "eax")
          /\ line[w] = 4 => V(w, "eax")' = V(w, "eax") + V(w, "ebx")
          /\ line[w] = 6 => V(w, "eax")' = G("ww")
          /\ line[w] \in {7, 13} => V(w, "eax")' = V(w, "eax") + 1
          /\ line[w] = 12 => V(w, "eax")' = G("wrs")
      BY <1>1, <1>9, <2>2, WriterMoves, RWNames DEF Bound, Binds, V
    <3>4. WriterCopy(w)'
      BY <1>2, <2>2, <3>1, <3>2, <3>3 DEF WriterCopy
    <3> QED
      BY <1>3, <2>2, <3>1, <3>4
  <2>3. CASE line[w] = 5
    <3>1. line'[w] = (IF V(w, "eax") <= 0 THEN 12 ELSE 6) /\ Counts' = Counts /\ G("rds")' = G("rds")
      BY <1>1, <1>9, <2>3, WriterMoves, RWNames DEF Quiet, Keeps, Counts
    <3>2. V(w, "eax") = G("rds") + G("wrs") /\ G("wrs") = 0
      BY <1>2, <2>3 DEF WriterCopy, PhaseInv, Uncounted
    <3>3. line'[w] = 12 => G("rds") = 0
      BY <1>2, <3>1, <3>2
    <3> QED
      BY <1>3, <2>3, <3>1, <3>3 DEF WriterCopy
  <2>4. CASE line[w] = 8
    <3>1. /\ line'[w] = 9 /\ G("ww")' = V(w, "eax") /\ G("rds")' = G("rds")
          /\ G("wrs")' = G("wrs") /\ G("wq")' = G("wq")
      BY <1>1, <1>9, <2>4, WriterMoves, RWNames DEF Put, Puts
    <3>2. V(w, "eax") = G("ww") + 1 /\ Uncounted /\ WriterIn(w)
      BY <1>2, <2>4 DEF WriterCopy, PhaseInv, WriterIn
    <3>3. Waits'
      BY <1>5, <3>1, <3>2 DEF Uncounted, Waits
    <3>4. PhaseInv(w)' /\ WriterCopy(w)'
      BY <3>1, <3>3 DEF PhaseInv, WriterCopy
    <3> QED
      BY <1>1, <1>2, <1>4, <1>6, <3>1, <3>2, <3>4 DEF RWDataInv
  <2>5. CASE line[w] = 14
    <3>1. /\ line'[w] = 15 /\ G("wrs")' = V(w, "eax") /\ G("rds")' = G("rds")
          /\ G("ww")' = G("ww") /\ G("wq")' = G("wq")
      BY <1>1, <1>9, <2>5, WriterMoves, RWNames DEF Put, Puts
    <3>2. V(w, "eax") = G("wrs") + 1 /\ G("rds") = 0 /\ Uncounted /\ WriterIn(w)
      BY <1>2, <2>5 DEF WriterCopy, PhaseInv, WriterIn
    <3>3. Granted(0)'
      BY <1>5, <3>1, <3>2 DEF Uncounted, Granted
    <3>4. PhaseInv(w)' /\ WriterCopy(w)'
      BY <3>1, <3>3 DEF PhaseInv, WriterCopy
    <3> QED
      BY <1>1, <1>2, <1>4, <1>6, <3>1, <3>2, <3>4 DEF RWDataInv
  <2> QED
    BY <2>1, <2>2, <2>3, <2>4, <2>5
<1> QED
  BY <1>1, <1>7, <1>8, <1>9, WriterWaits

RWInv == \A w \in Users(Writer) : line[w] \in 1 .. 17 => RWLockInv(w) /\ RWDataInv(w)

\* the writer does not come back to its first lines
LEMMA WriterLeaves ==
  ASSUME MachineInv, NEW w \in Programs, Text(w) = Writer, Step(w), line[w] \notin 1 .. 16
  PROVE  line'[w] \notin 1 .. 17
<1>1. waiting[w] = Idle
  BY WriterWaits
<1>2. line[w] \in 17 .. 40
  BY <1>1, WriterMoves
<1> QED
  BY <1>1, <1>2, WriterMoves

LEMMA InitRWHolds == Init => RWInv
<1> SUFFICES ASSUME Init, NEW w \in Users(Writer), line[w] \in 1 .. 17
             PROVE  RWLockInv(w) /\ RWDataInv(w)
  BY DEF RWInv
<1>0. /\ \A k \in Keys : G(k) = 0
      /\ \A q \in Programs : line[q] \in {0, 1}
  BY InitGlobals
<1>1. /\ line[w] = 1
      /\ \A q \in Users(Reader) \cup Users(InitRW) : line[q] \in {0, 1}
  BY <1>0 DEF Users
<1>2. /\ G("mtx") = 0 /\ G("rq") = 0 /\ G("rds") = 0 /\ G("wrs") = 0 /\ G("ww") = 0 /\ G("wq") = 0
  BY <1>0, RWNames
<1>3. RWLockInv(w)
  BY <1>1, <1>2 DEF RWLockInv, ReaderIn, WriterIn, Queued
<1>4. Cardinality(Active) = 0
  <2>1. Active = {}
    BY <1>1 DEF Active
  <2> QED
    BY <2>1, FS_EmptySet
<1>5. /\ \A r \in Users(Reader) : ReaderCopy(r)
      /\ WriterCopy(w)
  BY <1>1 DEF ReaderCopy, WriterCopy
<1>6. Uncounted
  BY <1>1, <1>2 DEF Uncounted, NoneWakes
<1>7. PhaseInv(w)
  BY <1>1, <1>6 DEF PhaseInv
<1> QED
  BY <1>2, <1>3, <1>4, <1>5, <1>7 DEF RWDataInv

LEMMA NextRW ==
  ASSUME OneWriter, MachineInv, RWInv, NEW r \in Programs, Step(r)
  PROVE  RWInv'
<1>1. \A t : Users(t)' = Users(t)
  BY StepFrame
<1> SUFFICES ASSUME NEW w \in Users(Writer), line'[w] \in 1 .. 17
             PROVE  RWLockInv(w)' /\ RWDataInv(w)'
  BY <1>1 DEF RWInv
<1>2. /\ w \in Programs /\ Text(w) = Writer /\ w \notin Users(Reader)
      /\ \/ r = w
         \/ r # w /\ r \in Users(Reader) /\ r \notin Users(InitRW) /\ Text(r) = Reader
         \/ r # w /\ r \in Users(InitRW) /\ r \notin Users(Reader) /\ Text(r) = InitRW
         \/ /\ r # w /\ r \notin Users(Reader) /\ r \notin Users(InitRW)
            /\ LeavesAlone(Text(r), RWKeys)
  BY RWUsers
<1>3. \A q \in Programs : q # r => /\ line'[q] = line[q] /\ waiting'[q] = waiting[q]
                                   /\ \A x : V(q, x)' = V(q, x)
  BY StepFrame
<1>4. line[w] \in 1 .. 17 /\ (r = w => line[w] \in 1 .. 16)
  <2>1. r = w => line[w] \in 1 .. 16
    BY <1>2, WriterLeaves
  <2> QED
    BY <1>2, <1>3, <2>1
<1>5. RWLockInv(w) /\ RWDataInv(w)
  BY <1>4 DEF RWInv
<1>6. RWLockInv(w)'
  BY <1>4, <1>5, NextRWLock
<1>7. CASE r = w
  BY <1>2, <1>4, <1>5, <1>6, <1>7, WriterData
<1>8. CASE r # w /\ r \in Users(Reader) /\ Text(r) = Reader
  BY <1>4, <1>5, <1>6, <1>8, ReaderData
<1>9. CASE /\ r # w /\ r \notin Users(Reader)
           /\ LeavesAlone(Text(r), RWKeys) \/ Text(r) = InitRW
  <2>1. \A k \in RWKeys \ {"mtx"} : G(k)' = G(k)
    BY <1>9, InitRWStep, OthersLeaveRW
  <2>2. Counts' = Counts
    BY <2>1 DEF RWKeys, Counts
  <2>3. /\ G("rds")' = G("rds") /\ G("ww")' = G("ww") /\ G("wrs")' = G("wrs")
    BY <2>2 DEF Counts
  <2>4. /\ \A d \in Users(Reader) : line'[d] = line[d] /\ \A x : V(d, x)' = V(d, x)
        /\ line'[w] = line[w] /\ waiting'[w] = waiting[w] /\ \A x : V(w, x)' = V(w, x)
    BY <1>2, <1>3, <1>9 DEF Users
  <2>5. WriterCopy(w)'
    BY <1>5, <2>3, <2>4 DEF RWDataInv, WriterCopy
  <2>6. RWDataInv(w)'
    BY <1>1, <1>5, <2>2, <2>4, <2>5, WriterKeeps
  <2> QED
    BY <1>6, <2>6
<1> QED
  BY <1>2, <1>7, <1>8, <1>9

LEMMA SameRW ==
  ASSUME UNCHANGED system
  PROVE  RWInv => RWInv'
<1>1. /\ \A p : line'[p] = line[p] /\ waiting'[p] = waiting[p]
      /\ \A p, x : V(p, x)' = V(p, x)
      /\ \A k : G(k)' = G(k)
      /\ \A t : Users(t)' = Users(t)
  BY SameUsers DEF system, V, G
<1>2. ASSUME NEW w, RWLockInv(w) PROVE RWLockInv(w)'
  BY <1>1, <1>2 DEF RWLockInv, ReaderIn, WriterIn, Queued
<1>3. ASSUME NEW w, RWDataInv(w) PROVE RWDataInv(w)'
  <2>1. WriterCopy(w)' /\ Counts' = Counts
    BY <1>1, <1>3 DEF RWDataInv, WriterCopy, Counts
  <2> QED
    BY <1>1, <1>3, <2>1, WriterKeeps
<1> QED
  BY <1>1, <1>2, <1>3 DEF RWInv

(***************************************************************************)
(* While the writer is in the critical section nobody else is: no reader   *)
(* (Reader.txt, Writer.txt), for any number of readers and one writer.     *)
(***************************************************************************)
THEOREM WriterIsAlone == ASSUME OneWriter PROVE Spec => []WritersExclude
<1>1. MachineInv /\ RWInv /\ [Next]_vars => RWInv'
  BY NextRW, SameRW, NextSteps DEF Overrun, vars
<1>2. ASSUME MachineInv, RWInv, NEW p \in Users(Writer), NEW q \in Programs,
             Runs(p), Here(p) = SLEEP, Runs(q), Here(q) = SLEEP
      PROVE  p = q
  <2>0. MachineInv
    BY <1>2
  <2>1. /\ p \in Programs /\ Text(p) = Writer
    BY DEF Users, Executing
  <2>2. /\ line[p] # 0 /\ Text(p)[line[p]].op = "SLEEP"
        /\ line[q] # 0 /\ Text(q)[line[q]].op = "SLEEP"
    <3>1. SLEEP.op = "SLEEP"
      BY DEF SLEEP, Line
    <3> QED
      BY <1>2, <3>1 DEF Runs, Here
  <2>3. line[p] = 17
    <3>1. Len(Writer) = 40
      BY WriterLines
    <3>2. line[p] \in Nat /\ line[p] <= 40
      BY <2>0, <2>1, <3>1, LineBounds
    <3>3. line[p] \in 1 .. 40
      BY <2>2, <3>2
    <3> QED
      BY <2>1, <2>2, <3>3, WriterPlaces
  <2>4. Granted(0) /\ G("rds") = Cardinality(Active)
    BY <1>2, <2>3 DEF RWInv, RWDataInv, PhaseInv
  <2>5. Active = {}
    BY <2>4, ActiveFinite, FS_EmptySet DEF Granted
  <2>6. ASSUME Text(q) = Reader PROVE FALSE
    <3>1. q \in Users(Reader)
      BY <2>6 DEF Users, Executing
    <3>2. Len(Reader) = 44
      BY ReaderLines
    <3>3. line[q] \in Nat /\ line[q] <= 44
      BY <2>0, <2>6, <3>2, LineBounds
    <3>4. line[q] \in 1 .. 44
      BY <2>2, <3>3
    <3>5. line[q] = 27
      BY <2>2, <2>6, <3>4, ReaderPlaces
    <3> QED
      BY <2>5, <3>1, <3>5 DEF Active
  <2>7. p \in Plays(scenario, Writer) /\ scenario \in Scenarios
    BY <2>0, <2>1 DEF Plays, Text, MachineInv
  <2>8. ASSUME Text(q) # Writer, Text(q) # Reader PROVE FALSE
    <3>1. \A n \in DOMAIN Text(q) : Text(q)[n].op # "SLEEP"
      BY <2>7, <2>8, CastAssumption DEF Text
    <3>2. line[q] \in Nat /\ line[q] <= Len(Text(q))
      BY <2>0, LineBounds
    <3>3. line[q] \in DOMAIN Text(q)
      BY <2>0, <2>2, <3>2, TextTyped
    <3> QED
      BY <2>2, <3>1, <3>3
  <2>9. Text(q) = Writer => p = q
    BY <2>1, <2>7 DEF OneWriter, Once, Plays, Text
  <2> QED
    BY <2>6, <2>8, <2>9
<1>3. MachineInv /\ RWInv => WritersExclude
  BY <1>2 DEF WritersExclude
<1> QED
  BY <1>1, <1>3, InitRWHolds, MachineInvariant, PTL DEF Spec

-----------------------------------------------------------------------------
(***************************************************************************)
(* The lines of Init.txt, Producer.txt and Consumer.txt.                   *)
(***************************************************************************)
Buf(j) == value[<<"buf", j>>]

\* the instruction that stores v in the slot j, and the others
Filled(p, j, v) ==
  /\ waiting'[p] = Idle /\ Own(p)
  /\ \A i \in Indices : Buf(i)' = IF i = j THEN v ELSE Buf(i)
  /\ \A g \in Keys \ {"buf"} : G(g)' = G(g)
Unfilled == \A i \in Indices : Buf(i)' = Buf(i)

LEMMA InitPCLines ==
  /\ Len(InitPC) = 14 /\ DOMAIN InitPC = 1 .. 14
  /\ Plain(InitPC[1], BREQ("argc", "2", "LSTART"), "BREQ")
  /\ Plain(InitPC[2], SAY, "PRINT")
  /\ Plain(InitPC[3], RETURN, "RETURN")
  /\ Marked(InitPC[4], SAY, "PRINT", "LSTART")
  /\ Plain(InitPC[5], STORE("in", "0"), "STORE")
  /\ Plain(InitPC[6], SAY, "PRINT")
  /\ Plain(InitPC[7], STORE("out", "0"), "STORE")
  /\ Plain(InitPC[8], SAY, "PRINT")
  /\ Plain(InitPC[9], STORE("mtx", "1"), "STORE")
  /\ Plain(InitPC[10], SAY, "PRINT")
  /\ Plain(InitPC[11], STORE("free", "argv[1]"), "STORE")
  /\ Plain(InitPC[12], SAY, "PRINT")
  /\ Plain(InitPC[13], STORE("full", "0"), "STORE")
  /\ Plain(InitPC[14], RETURN, "RETURN")
<1>1. InitPC[1] = BREQ("argc", "2", "LSTART")
  BY DEF InitPC
<1>2. InitPC[2] = SAY
  BY DEF InitPC
<1>3. InitPC[3] = RETURN
  BY DEF InitPC
<1>4. InitPC[4] = At("LSTART", SAY)
  BY DEF InitPC
<1>5. InitPC[5] = STORE("in", "0")
  BY DEF InitPC
<1>6. InitPC[6] = SAY
  BY DEF InitPC
<1>7. InitPC[7] = STORE("out", "0")
  BY DEF InitPC
<1>8. InitPC[8] = SAY
  BY DEF InitPC
<1>9. InitPC[9] = STORE("mtx", "1")
  BY DEF InitPC
<1>10. InitPC[10] = SAY
  BY DEF InitPC
<1>11. InitPC[11] = STORE("free", "argv[1]")
  BY DEF InitPC
<1>12. InitPC[12] = SAY
  BY DEF InitPC
<1>13. InitPC[13] = STORE("full", "0")
  BY DEF InitPC
<1>14. InitPC[14] = RETURN
  BY DEF InitPC
<1>15. Len(InitPC) = 14 /\ DOMAIN InitPC = 1 .. 14
  BY DEF InitPC
<1> QED
  BY <1>1, <1>2, <1>3, <1>4, <1>5, <1>6, <1>7, <1>8, <1>9, <1>10, <1>11, <1>12, <1>13,
     <1>14, <1>15, Constructors

LEMMA InitPCPlaces ==
  /\ \A n \in 1 .. 14 : InitPC[n].op = "DOWN" => n \in {}
  /\ Labels(InitPC, "LSTART", 4)
<1>1. InitPC[1].op = "BREQ" /\ InitPC[2].op = "PRINT" /\ InitPC[3].op = "RETURN"
     /\ InitPC[4].op = "PRINT" /\ InitPC[5].op = "STORE" /\ InitPC[6].op = "PRINT"
     /\ InitPC[7].op = "STORE" /\ InitPC[8].op = "PRINT" /\ InitPC[9].op = "STORE"
     /\ InitPC[10].op = "PRINT" /\ InitPC[11].op = "STORE" /\ InitPC[12].op = "PRINT"
     /\ InitPC[13].op = "STORE" /\ InitPC[14].op = "RETURN"
  BY InitPCLines, LineFacts
<1>2. InitPC[1].label \notin SampleLabels /\ InitPC[2].label \notin SampleLabels
     /\ InitPC[3].label \notin SampleLabels /\ InitPC[5].label \notin SampleLabels
     /\ InitPC[6].label \notin SampleLabels /\ InitPC[7].label \notin SampleLabels
     /\ InitPC[8].label \notin SampleLabels /\ InitPC[9].label \notin SampleLabels
     /\ InitPC[10].label \notin SampleLabels /\ InitPC[11].label \notin SampleLabels
     /\ InitPC[12].label \notin SampleLabels /\ InitPC[13].label \notin SampleLabels
     /\ InitPC[14].label \notin SampleLabels
  BY InitPCLines, PlainLabel
<1>3. InitPC[4].label = "LSTART"
  BY InitPCLines, LineFacts
<1>4. "LSTART" \in SampleLabels
  BY DEF SampleLabels
<1> QED
  BY <1>1, <1>2, <1>3, <1>4, InitPCLines DEF Labels

LEMMA InitPCMoves ==
  ASSUME MachineInv, NEW p \in Programs, Text(p) = InitPC, Step(p), waiting[p] = Idle
  PROVE  /\ line[p] \in 1 .. 14
         /\ line[p] = 1 => line'[p] \in {4, 2} /\ Quiet(p)
         /\ line[p] = 2 => line'[p] = 3 /\ Quiet(p)
         /\ line[p] = 3 => line'[p] = 0 /\ Quiet(p)
         /\ line[p] = 4 => line'[p] = 5 /\ Quiet(p)
         /\ line[p] = 5 => line'[p] = 6 /\ Put(p, "in", 0)
         /\ line[p] = 6 => line'[p] = 7 /\ Quiet(p)
         /\ line[p] = 7 => line'[p] = 8 /\ Put(p, "out", 0)
         /\ line[p] = 8 => line'[p] = 9 /\ Quiet(p)
         /\ line[p] = 9 => line'[p] = 10 /\ Put(p, "mtx", 1)
         /\ line[p] = 10 => line'[p] = 11 /\ Quiet(p)
         /\ line[p] = 11 => line'[p] = 12 /\ Put(p, "free", V(p, "argv[1]"))
         /\ line[p] = 12 => line'[p] = 13 /\ Quiet(p)
         /\ line[p] = 13 => line'[p] = 14 /\ Put(p, "full", 0)
         /\ line[p] = 14 => line'[p] = 0 /\ Quiet(p)
<1>0. line[p] \in 1 .. 14 /\ Len(Text(p)) = 14
  BY InitPCLines, StepLine
<1>1. ASSUME line[p] = 1 PROVE line'[p] \in {4, 2} /\ Quiet(p)
  <2>1. Does(p, BREQ("argc", "2", "LSTART")) /\ Follow(p, 1) = 2
    BY <1>0, <1>1, InitPCLines, LineFacts DEF Does, Here, Follow
  <2> QED
    BY <1>1, <2>1, IfEqual, InitPCPlaces, Operand, NamesAssumption DEF Quiet, V
<1>2. ASSUME line[p] = 2 PROVE line'[p] = 3 /\ Quiet(p)
  <2>1. Does(p, SAY) /\ Follow(p, 2) = 3
    BY <1>0, <1>2, InitPCLines, LineFacts DEF Does, Here, Follow
  <2> QED
    BY <1>2, <2>1, Shows, Operand, NamesAssumption DEF Quiet, V
<1>3. ASSUME line[p] = 3 PROVE line'[p] = 0 /\ Quiet(p)
  <2>1. Does(p, RETURN) /\ Follow(p, 3) = 4
    BY <1>0, <1>3, InitPCLines, LineFacts DEF Does, Here, Follow
  <2> QED
    BY <1>3, <2>1, Returns, Operand, NamesAssumption DEF Quiet, V
<1>4. ASSUME line[p] = 4 PROVE line'[p] = 5 /\ Quiet(p)
  <2>1. Does(p, SAY) /\ Follow(p, 4) = 5
    BY <1>0, <1>4, InitPCLines, LineFacts DEF Does, Here, Follow
  <2> QED
    BY <1>4, <2>1, Shows, Operand, NamesAssumption DEF Quiet, V
<1>5. ASSUME line[p] = 5 PROVE line'[p] = 6 /\ Put(p, "in", 0)
  <2>1. Does(p, STORE("in", "0")) /\ Follow(p, 5) = 6
    BY <1>0, <1>5, InitPCLines, LineFacts DEF Does, Here, Follow
  <2> QED
    BY <1>5, <2>1, Stores, Operand, NamesAssumption DEF Put, V
<1>6. ASSUME line[p] = 6 PROVE line'[p] = 7 /\ Quiet(p)
  <2>1. Does(p, SAY) /\ Follow(p, 6) = 7
    BY <1>0, <1>6, InitPCLines, LineFacts DEF Does, Here, Follow
  <2> QED
    BY <1>6, <2>1, Shows, Operand, NamesAssumption DEF Quiet, V
<1>7. ASSUME line[p] = 7 PROVE line'[p] = 8 /\ Put(p, "out", 0)
  <2>1. Does(p, STORE("out", "0")) /\ Follow(p, 7) = 8
    BY <1>0, <1>7, InitPCLines, LineFacts DEF Does, Here, Follow
  <2> QED
    BY <1>7, <2>1, Stores, Operand, NamesAssumption DEF Put, V
<1>8. ASSUME line[p] = 8 PROVE line'[p] = 9 /\ Quiet(p)
  <2>1. Does(p, SAY) /\ Follow(p, 8) = 9
    BY <1>0, <1>8, InitPCLines, LineFacts DEF Does, Here, Follow
  <2> QED
    BY <1>8, <2>1, Shows, Operand, NamesAssumption DEF Quiet, V
<1>9. ASSUME line[p] = 9 PROVE line'[p] = 10 /\ Put(p, "mtx", 1)
  <2>1. Does(p, STORE("mtx", "1")) /\ Follow(p, 9) = 10
    BY <1>0, <1>9, InitPCLines, LineFacts DEF Does, Here, Follow
  <2> QED
    BY <1>9, <2>1, Stores, Operand, NamesAssumption DEF Put, V
<1>10. ASSUME line[p] = 10 PROVE line'[p] = 11 /\ Quiet(p)
  <2>1. Does(p, SAY) /\ Follow(p, 10) = 11
    BY <1>0, <1>10, InitPCLines, LineFacts DEF Does, Here, Follow
  <2> QED
    BY <1>10, <2>1, Shows, Operand, NamesAssumption DEF Quiet, V
<1>11. ASSUME line[p] = 11 PROVE line'[p] = 12 /\ Put(p, "free", V(p, "argv[1]"))
  <2>1. Does(p, STORE("free", "argv[1]")) /\ Follow(p, 11) = 12
    BY <1>0, <1>11, InitPCLines, LineFacts DEF Does, Here, Follow
  <2> QED
    BY <1>11, <2>1, Stores, Operand, NamesAssumption DEF Put, V
<1>12. ASSUME line[p] = 12 PROVE line'[p] = 13 /\ Quiet(p)
  <2>1. Does(p, SAY) /\ Follow(p, 12) = 13
    BY <1>0, <1>12, InitPCLines, LineFacts DEF Does, Here, Follow
  <2> QED
    BY <1>12, <2>1, Shows, Operand, NamesAssumption DEF Quiet, V
<1>13. ASSUME line[p] = 13 PROVE line'[p] = 14 /\ Put(p, "full", 0)
  <2>1. Does(p, STORE("full", "0")) /\ Follow(p, 13) = 14
    BY <1>0, <1>13, InitPCLines, LineFacts DEF Does, Here, Follow
  <2> QED
    BY <1>13, <2>1, Stores, Operand, NamesAssumption DEF Put, V
<1>14. ASSUME line[p] = 14 PROVE line'[p] = 0 /\ Quiet(p)
  <2>1. Does(p, RETURN) /\ Follow(p, 14) = 0
    BY <1>0, <1>14, InitPCLines, LineFacts DEF Does, Here, Follow
  <2> QED
    BY <1>14, <2>1, Returns, Operand, NamesAssumption DEF Quiet, V
<1> QED
  BY <1>0, <1>1, <1>2, <1>3, <1>4, <1>5, <1>6, <1>7, <1>8, <1>9, <1>10, <1>11, <1>12,
     <1>13, <1>14

LEMMA ProducerLines ==
  /\ Len(Producer) = 20 /\ DOMAIN Producer = 1 .. 20
  /\ Plain(Producer[1], SET("item", "0"), "SET")
  /\ Plain(Producer[2], BREQ("argc", "3", "LOOP"), "BREQ")
  /\ Plain(Producer[3], SAY, "PRINT")
  /\ Plain(Producer[4], RETURN, "RETURN")
  /\ Marked(Producer[5], ADD("item", "item", "1"), "ADD", "LOOP")
  /\ Plain(Producer[6], SAY, "PRINT")
  /\ Plain(Producer[7], SLEEP, "SLEEP")
  /\ Plain(Producer[8], SAY, "PRINT")
  /\ Plain(Producer[9], DOWN("free"), "DOWN")
  /\ Plain(Producer[10], SAY, "PRINT")
  /\ Plain(Producer[11], DOWN("mtx"), "DOWN")
  /\ Plain(Producer[12], LOAD("k", "in"), "LOAD")
  /\ Plain(Producer[13], STOREAT("buf", "k", "item"), "STORE")
  /\ Plain(Producer[14], ADD("k", "k", "1"), "ADD")
  /\ Plain(Producer[15], MOD("k", "k", "argv[1]"), "MOD")
  /\ Plain(Producer[16], STORE("in", "k"), "STORE")
  /\ Plain(Producer[17], UP("mtx"), "UP")
  /\ Plain(Producer[18], SAY, "PRINT")
  /\ Plain(Producer[19], UP("full"), "UP")
  /\ Plain(Producer[20], BRA("LOOP"), "BRA")
<1>1. Producer[1] = SET("item", "0")
  BY DEF Producer
<1>2. Producer[2] = BREQ("argc", "3", "LOOP")
  BY DEF Producer
<1>3. Producer[3] = SAY
  BY DEF Producer
<1>4. Producer[4] = RETURN
  BY DEF Producer
<1>5. Producer[5] = At("LOOP", ADD("item", "item", "1"))
  BY DEF Producer
<1>6. Producer[6] = SAY
  BY DEF Producer
<1>7. Producer[7] = SLEEP
  BY DEF Producer
<1>8. Producer[8] = SAY
  BY DEF Producer
<1>9. Producer[9] = DOWN("free")
  BY DEF Producer
<1>10. Producer[10] = SAY
  BY DEF Producer
<1>11. Producer[11] = DOWN("mtx")
  BY DEF Producer
<1>12. Producer[12] = LOAD("k", "in")
  BY DEF Producer
<1>13. Producer[13] = STOREAT("buf", "k", "item")
  BY DEF Producer
<1>14. Producer[14] = ADD("k", "k", "1")
  BY DEF Producer
<1>15. Producer[15] = MOD("k", "k", "argv[1]")
  BY DEF Producer
<1>16. Producer[16] = STORE("in", "k")
  BY DEF Producer
<1>17. Producer[17] = UP("mtx")
  BY DEF Producer
<1>18. Producer[18] = SAY
  BY DEF Producer
<1>19. Producer[19] = UP("full")
  BY DEF Producer
<1>20. Producer[20] = BRA("LOOP")
  BY DEF Producer
<1>21. Len(Producer) = 20 /\ DOMAIN Producer = 1 .. 20
  BY DEF Producer
<1> QED
  BY <1>1, <1>2, <1>3, <1>4, <1>5, <1>6, <1>7, <1>8, <1>9, <1>10, <1>11, <1>12, <1>13,
     <1>14, <1>15, <1>16, <1>17, <1>18, <1>19, <1>20, <1>21, Constructors

LEMMA ProducerPlaces ==
  /\ \A n \in 1 .. 20 : Producer[n].op = "DOWN" => n \in {9, 11}
  /\ Labels(Producer, "LOOP", 5)
<1>1. Producer[1].op = "SET" /\ Producer[2].op = "BREQ" /\ Producer[3].op = "PRINT"
     /\ Producer[4].op = "RETURN" /\ Producer[5].op = "ADD" /\ Producer[6].op = "PRINT"
     /\ Producer[7].op = "SLEEP" /\ Producer[8].op = "PRINT" /\ Producer[9].op = "DOWN"
     /\ Producer[10].op = "PRINT" /\ Producer[11].op = "DOWN" /\ Producer[12].op = "LOAD"
     /\ Producer[13].op = "STORE" /\ Producer[14].op = "ADD" /\ Producer[15].op = "MOD"
     /\ Producer[16].op = "STORE" /\ Producer[17].op = "UP" /\ Producer[18].op = "PRINT"
     /\ Producer[19].op = "UP" /\ Producer[20].op = "BRA"
  BY ProducerLines, LineFacts
<1>2. Producer[1].label \notin SampleLabels /\ Producer[2].label \notin SampleLabels
     /\ Producer[3].label \notin SampleLabels /\ Producer[4].label \notin SampleLabels
     /\ Producer[6].label \notin SampleLabels /\ Producer[7].label \notin SampleLabels
     /\ Producer[8].label \notin SampleLabels /\ Producer[9].label \notin SampleLabels
     /\ Producer[10].label \notin SampleLabels /\ Producer[11].label \notin SampleLabels
     /\ Producer[12].label \notin SampleLabels /\ Producer[13].label \notin SampleLabels
     /\ Producer[14].label \notin SampleLabels /\ Producer[15].label \notin SampleLabels
     /\ Producer[16].label \notin SampleLabels /\ Producer[17].label \notin SampleLabels
     /\ Producer[18].label \notin SampleLabels /\ Producer[19].label \notin SampleLabels
     /\ Producer[20].label \notin SampleLabels
  BY ProducerLines, PlainLabel
<1>3. Producer[5].label = "LOOP"
  BY ProducerLines, LineFacts
<1>4. "LOOP" \in SampleLabels
  BY DEF SampleLabels
<1> QED
  BY <1>1, <1>2, <1>3, <1>4, ProducerLines DEF Labels

LEMMA ProducerMoves ==
  ASSUME MachineInv, NEW p \in Programs, Text(p) = Producer, Step(p), waiting[p] = Idle
  PROVE  /\ line[p] \in 1 .. 20
         /\ line[p] = 1 => line'[p] = 2 /\ Bound(p, "item", 0)
         /\ line[p] = 2 => line'[p] \in {5, 3} /\ Quiet(p)
         /\ line[p] = 3 => line'[p] = 4 /\ Quiet(p)
         /\ line[p] = 4 => line'[p] = 0 /\ Quiet(p)
         /\ line[p] = 5 => line'[p] = 6 /\ Bound(p, "item", V(p, "item") + 1)
         /\ line[p] = 6 => line'[p] = 7 /\ Quiet(p)
         /\ line[p] = 7 => line'[p] = 8 /\ Quiet(p)
         /\ line[p] = 8 => line'[p] = 9 /\ Quiet(p)
         /\ line[p] = 9 => line'[p] = 10 /\ Asked(p, "free")
         /\ line[p] = 10 => line'[p] = 11 /\ Quiet(p)
         /\ line[p] = 11 => line'[p] = 12 /\ Asked(p, "mtx")
         /\ line[p] = 12 => line'[p] = 13 /\ Bound(p, "k", G("in"))
         /\ line[p] = 13 /\ V(p, "k") \in Indices => line'[p] = 14 /\ Filled(p, V(p, "k"), V(p, "item"))
         /\ line[p] = 14 => line'[p] = 15 /\ Bound(p, "k", V(p, "k") + 1)
         /\ line[p] = 15 => line'[p] = 16 /\ Bound(p, "k", V(p, "k") % V(p, "argv[1]"))
         /\ line[p] = 16 => line'[p] = 17 /\ Put(p, "in", V(p, "k"))
         /\ line[p] = 17 => line'[p] = 18 /\ Put(p, "mtx", G("mtx") + 1)
         /\ line[p] = 18 => line'[p] = 19 /\ Quiet(p)
         /\ line[p] = 19 => line'[p] = 20 /\ Put(p, "full", G("full") + 1)
         /\ line[p] = 20 => line'[p] = 5 /\ Quiet(p)
<1>0. line[p] \in 1 .. 20 /\ Len(Text(p)) = 20
  BY ProducerLines, StepLine
<1>1. ASSUME line[p] = 1 PROVE line'[p] = 2 /\ Bound(p, "item", 0)
  <2>1. Does(p, SET("item", "0")) /\ Follow(p, 1) = 2
    BY <1>0, <1>1, ProducerLines, LineFacts DEF Does, Here, Follow
  <2> QED
    BY <1>1, <2>1, Sets, Operand, NamesAssumption DEF Bound, V
<1>2. ASSUME line[p] = 2 PROVE line'[p] \in {5, 3} /\ Quiet(p)
  <2>1. Does(p, BREQ("argc", "3", "LOOP")) /\ Follow(p, 2) = 3
    BY <1>0, <1>2, ProducerLines, LineFacts DEF Does, Here, Follow
  <2> QED
    BY <1>2, <2>1, IfEqual, ProducerPlaces, Operand, NamesAssumption DEF Quiet, V
<1>3. ASSUME line[p] = 3 PROVE line'[p] = 4 /\ Quiet(p)
  <2>1. Does(p, SAY) /\ Follow(p, 3) = 4
    BY <1>0, <1>3, ProducerLines, LineFacts DEF Does, Here, Follow
  <2> QED
    BY <1>3, <2>1, Shows, Operand, NamesAssumption DEF Quiet, V
<1>4. ASSUME line[p] = 4 PROVE line'[p] = 0 /\ Quiet(p)
  <2>1. Does(p, RETURN) /\ Follow(p, 4) = 5
    BY <1>0, <1>4, ProducerLines, LineFacts DEF Does, Here, Follow
  <2> QED
    BY <1>4, <2>1, Returns, Operand, NamesAssumption DEF Quiet, V
<1>5. ASSUME line[p] = 5 PROVE line'[p] = 6 /\ Bound(p, "item", V(p, "item") + 1)
  <2>1. Does(p, ADD("item", "item", "1")) /\ Follow(p, 5) = 6
    BY <1>0, <1>5, ProducerLines, LineFacts DEF Does, Here, Follow
  <2> QED
    BY <1>5, <2>1, Adds, Operand, NamesAssumption DEF Bound, V
<1>6. ASSUME line[p] = 6 PROVE line'[p] = 7 /\ Quiet(p)
  <2>1. Does(p, SAY) /\ Follow(p, 6) = 7
    BY <1>0, <1>6, ProducerLines, LineFacts DEF Does, Here, Follow
  <2> QED
    BY <1>6, <2>1, Shows, Operand, NamesAssumption DEF Quiet, V
<1>7. ASSUME line[p] = 7 PROVE line'[p] = 8 /\ Quiet(p)
  <2>1. Does(p, SLEEP) /\ Follow(p, 7) = 8
    BY <1>0, <1>7, ProducerLines, LineFacts DEF Does, Here, Follow
  <2> QED
    BY <1>7, <2>1, Shows, Operand, NamesAssumption DEF Quiet, V
<1>8. ASSUME line[p] = 8 PROVE line'[p] = 9 /\ Quiet(p)
  <2>1. Does(p, SAY) /\ Follow(p, 8) = 9
    BY <1>0, <1>8, ProducerLines, LineFacts DEF Does, Here, Follow
  <2> QED
    BY <1>8, <2>1, Shows, Operand, NamesAssumption DEF Quiet, V
<1>9. ASSUME line[p] = 9 PROVE line'[p] = 10 /\ Asked(p, "free")
  <2>1. Does(p, DOWN("free")) /\ Follow(p, 9) = 10
    BY <1>0, <1>9, ProducerLines, LineFacts DEF Does, Here, Follow
  <2> QED
    BY <1>9, <2>1, Asks, Operand, NamesAssumption DEF Asked, V
<1>10. ASSUME line[p] = 10 PROVE line'[p] = 11 /\ Quiet(p)
  <2>1. Does(p, SAY) /\ Follow(p, 10) = 11
    BY <1>0, <1>10, ProducerLines, LineFacts DEF Does, Here, Follow
  <2> QED
    BY <1>10, <2>1, Shows, Operand, NamesAssumption DEF Quiet, V
<1>11. ASSUME line[p] = 11 PROVE line'[p] = 12 /\ Asked(p, "mtx")
  <2>1. Does(p, DOWN("mtx")) /\ Follow(p, 11) = 12
    BY <1>0, <1>11, ProducerLines, LineFacts DEF Does, Here, Follow
  <2> QED
    BY <1>11, <2>1, Asks, Operand, NamesAssumption DEF Asked, V
<1>12. ASSUME line[p] = 12 PROVE line'[p] = 13 /\ Bound(p, "k", G("in"))
  <2>1. Does(p, LOAD("k", "in")) /\ Follow(p, 12) = 13
    BY <1>0, <1>12, ProducerLines, LineFacts DEF Does, Here, Follow
  <2> QED
    BY <1>12, <2>1, Loads, Operand, NamesAssumption DEF Bound, V
<1>13. ASSUME line[p] = 13, V(p, "k") \in Indices PROVE line'[p] = 14 /\ Filled(p, V(p, "k"), V(p, "item"))
  <2>1. Does(p, STOREAT("buf", "k", "item")) /\ Follow(p, 13) = 14
    BY <1>0, <1>13, ProducerLines, LineFacts DEF Does, Here, Follow
  <2> QED
    BY <1>13, <2>1, StoresAt, Operand, NamesAssumption DEF Filled, V, Buf
<1>14. ASSUME line[p] = 14 PROVE line'[p] = 15 /\ Bound(p, "k", V(p, "k") + 1)
  <2>1. Does(p, ADD("k", "k", "1")) /\ Follow(p, 14) = 15
    BY <1>0, <1>14, ProducerLines, LineFacts DEF Does, Here, Follow
  <2> QED
    BY <1>14, <2>1, Adds, Operand, NamesAssumption DEF Bound, V
<1>15. ASSUME line[p] = 15 PROVE line'[p] = 16 /\ Bound(p, "k", V(p, "k") % V(p, "argv[1]"))
  <2>1. Does(p, MOD("k", "k", "argv[1]")) /\ Follow(p, 15) = 16
    BY <1>0, <1>15, ProducerLines, LineFacts DEF Does, Here, Follow
  <2> QED
    BY <1>15, <2>1, Modulo, Operand, NamesAssumption DEF Bound, V
<1>16. ASSUME line[p] = 16 PROVE line'[p] = 17 /\ Put(p, "in", V(p, "k"))
  <2>1. Does(p, STORE("in", "k")) /\ Follow(p, 16) = 17
    BY <1>0, <1>16, ProducerLines, LineFacts DEF Does, Here, Follow
  <2> QED
    BY <1>16, <2>1, Stores, Operand, NamesAssumption DEF Put, V
<1>17. ASSUME line[p] = 17 PROVE line'[p] = 18 /\ Put(p, "mtx", G("mtx") + 1)
  <2>1. Does(p, UP("mtx")) /\ Follow(p, 17) = 18
    BY <1>0, <1>17, ProducerLines, LineFacts DEF Does, Here, Follow
  <2> QED
    BY <1>17, <2>1, Raises, Operand, NamesAssumption DEF Put, V
<1>18. ASSUME line[p] = 18 PROVE line'[p] = 19 /\ Quiet(p)
  <2>1. Does(p, SAY) /\ Follow(p, 18) = 19
    BY <1>0, <1>18, ProducerLines, LineFacts DEF Does, Here, Follow
  <2> QED
    BY <1>18, <2>1, Shows, Operand, NamesAssumption DEF Quiet, V
<1>19. ASSUME line[p] = 19 PROVE line'[p] = 20 /\ Put(p, "full", G("full") + 1)
  <2>1. Does(p, UP("full")) /\ Follow(p, 19) = 20
    BY <1>0, <1>19, ProducerLines, LineFacts DEF Does, Here, Follow
  <2> QED
    BY <1>19, <2>1, Raises, Operand, NamesAssumption DEF Put, V
<1>20. ASSUME line[p] = 20 PROVE line'[p] = 5 /\ Quiet(p)
  <2>1. Does(p, BRA("LOOP")) /\ Follow(p, 20) = 0
    BY <1>0, <1>20, ProducerLines, LineFacts DEF Does, Here, Follow
  <2> QED
    BY <1>20, <2>1, Always, ProducerPlaces, Operand, NamesAssumption DEF Quiet, V
<1> QED
  BY <1>0, <1>1, <1>2, <1>3, <1>4, <1>5, <1>6, <1>7, <1>8, <1>9, <1>10, <1>11, <1>12,
     <1>13, <1>14, <1>15, <1>16, <1>17, <1>18, <1>19, <1>20

LEMMA ConsumerLines ==
  /\ Len(Consumer) = 18 /\ DOMAIN Consumer = 1 .. 18
  /\ Plain(Consumer[1], BREQ("argc", "3", "LOOP"), "BREQ")
  /\ Plain(Consumer[2], SAY, "PRINT")
  /\ Plain(Consumer[3], RETURN, "RETURN")
  /\ Marked(Consumer[4], SAY, "PRINT", "LOOP")
  /\ Plain(Consumer[5], DOWN("full"), "DOWN")
  /\ Plain(Consumer[6], SAY, "PRINT")
  /\ Plain(Consumer[7], DOWN("mtx"), "DOWN")
  /\ Plain(Consumer[8], LOAD("k", "out"), "LOAD")
  /\ Plain(Consumer[9], LOADAT("item", "buf", "k"), "LOAD")
  /\ Plain(Consumer[10], ADD("k", "k", "1"), "ADD")
  /\ Plain(Consumer[11], MOD("k", "k", "argv[1]"), "MOD")
  /\ Plain(Consumer[12], STORE("out", "k"), "STORE")
  /\ Plain(Consumer[13], UP("mtx"), "UP")
  /\ Plain(Consumer[14], SAY, "PRINT")
  /\ Plain(Consumer[15], UP("free"), "UP")
  /\ Plain(Consumer[16], SAY, "PRINT")
  /\ Plain(Consumer[17], SLEEP, "SLEEP")
  /\ Plain(Consumer[18], BRA("LOOP"), "BRA")
<1>1. Consumer[1] = BREQ("argc", "3", "LOOP")
  BY DEF Consumer
<1>2. Consumer[2] = SAY
  BY DEF Consumer
<1>3. Consumer[3] = RETURN
  BY DEF Consumer
<1>4. Consumer[4] = At("LOOP", SAY)
  BY DEF Consumer
<1>5. Consumer[5] = DOWN("full")
  BY DEF Consumer
<1>6. Consumer[6] = SAY
  BY DEF Consumer
<1>7. Consumer[7] = DOWN("mtx")
  BY DEF Consumer
<1>8. Consumer[8] = LOAD("k", "out")
  BY DEF Consumer
<1>9. Consumer[9] = LOADAT("item", "buf", "k")
  BY DEF Consumer
<1>10. Consumer[10] = ADD("k", "k", "1")
  BY DEF Consumer
<1>11. Consumer[11] = MOD("k", "k", "argv[1]")
  BY DEF Consumer
<1>12. Consumer[12] = STORE("out", "k")
  BY DEF Consumer
<1>13. Consumer[13] = UP("mtx")
  BY DEF Consumer
<1>14. Consumer[14] = SAY
  BY DEF Consumer
<1>15. Consumer[15] = UP("free")
  BY DEF Consumer
<1>16. Consumer[16] = SAY
  BY DEF Consumer
<1>17. Consumer[17] = SLEEP
  BY DEF Consumer
<1>18. Consumer[18] = BRA("LOOP")
  BY DEF Consumer
<1>19. Len(Consumer) = 18 /\ DOMAIN Consumer = 1 .. 18
  BY DEF Consumer
<1> QED
  BY <1>1, <1>2, <1>3, <1>4, <1>5, <1>6, <1>7, <1>8, <1>9, <1>10, <1>11, <1>12, <1>13,
     <1>14, <1>15, <1>16, <1>17, <1>18, <1>19, Constructors

LEMMA ConsumerPlaces ==
  /\ \A n \in 1 .. 18 : Consumer[n].op = "DOWN" => n \in {5, 7}
  /\ Labels(Consumer, "LOOP", 4)
<1>1. Consumer[1].op = "BREQ" /\ Consumer[2].op = "PRINT" /\ Consumer[3].op = "RETURN"
     /\ Consumer[4].op = "PRINT" /\ Consumer[5].op = "DOWN" /\ Consumer[6].op = "PRINT"
     /\ Consumer[7].op = "DOWN" /\ Consumer[8].op = "LOAD" /\ Consumer[9].op = "LOAD"
     /\ Consumer[10].op = "ADD" /\ Consumer[11].op = "MOD" /\ Consumer[12].op = "STORE"
     /\ Consumer[13].op = "UP" /\ Consumer[14].op = "PRINT" /\ Consumer[15].op = "UP"
     /\ Consumer[16].op = "PRINT" /\ Consumer[17].op = "SLEEP" /\ Consumer[18].op = "BRA"
  BY ConsumerLines, LineFacts
<1>2. Consumer[1].label \notin SampleLabels /\ Consumer[2].label \notin SampleLabels
     /\ Consumer[3].label \notin SampleLabels /\ Consumer[5].label \notin SampleLabels
     /\ Consumer[6].label \notin SampleLabels /\ Consumer[7].label \notin SampleLabels
     /\ Consumer[8].label \notin SampleLabels /\ Consumer[9].label \notin SampleLabels
     /\ Consumer[10].label \notin SampleLabels /\ Consumer[11].label \notin SampleLabels
     /\ Consumer[12].label \notin SampleLabels /\ Consumer[13].label \notin SampleLabels
     /\ Consumer[14].label \notin SampleLabels /\ Consumer[15].label \notin SampleLabels
     /\ Consumer[16].label \notin SampleLabels /\ Consumer[17].label \notin SampleLabels
     /\ Consumer[18].label \notin SampleLabels
  BY ConsumerLines, PlainLabel
<1>3. Consumer[4].label = "LOOP"
  BY ConsumerLines, LineFacts
<1>4. "LOOP" \in SampleLabels
  BY DEF SampleLabels
<1> QED
  BY <1>1, <1>2, <1>3, <1>4, ConsumerLines DEF Labels

LEMMA ConsumerMoves ==
  ASSUME MachineInv, NEW p \in Programs, Text(p) = Consumer, Step(p), waiting[p] = Idle
  PROVE  /\ line[p] \in 1 .. 18
         /\ line[p] = 1 => line'[p] \in {4, 2} /\ Quiet(p)
         /\ line[p] = 2 => line'[p] = 3 /\ Quiet(p)
         /\ line[p] = 3 => line'[p] = 0 /\ Quiet(p)
         /\ line[p] = 4 => line'[p] = 5 /\ Quiet(p)
         /\ line[p] = 5 => line'[p] = 6 /\ Asked(p, "full")
         /\ line[p] = 6 => line'[p] = 7 /\ Quiet(p)
         /\ line[p] = 7 => line'[p] = 8 /\ Asked(p, "mtx")
         /\ line[p] = 8 => line'[p] = 9 /\ Bound(p, "k", G("out"))
         /\ line[p] = 9 => line'[p] = 10 /\ Bound(p, "item", Buf(V(p, "k")))
         /\ line[p] = 10 => line'[p] = 11 /\ Bound(p, "k", V(p, "k") + 1)
         /\ line[p] = 11 => line'[p] = 12 /\ Bound(p, "k", V(p, "k") % V(p, "argv[1]"))
         /\ line[p] = 12 => line'[p] = 13 /\ Put(p, "out", V(p, "k"))
         /\ line[p] = 13 => line'[p] = 14 /\ Put(p, "mtx", G("mtx") + 1)
         /\ line[p] = 14 => line'[p] = 15 /\ Quiet(p)
         /\ line[p] = 15 => line'[p] = 16 /\ Put(p, "free", G("free") + 1)
         /\ line[p] = 16 => line'[p] = 17 /\ Quiet(p)
         /\ line[p] = 17 => line'[p] = 18 /\ Quiet(p)
         /\ line[p] = 18 => line'[p] = 4 /\ Quiet(p)
<1>0. line[p] \in 1 .. 18 /\ Len(Text(p)) = 18
  BY ConsumerLines, StepLine
<1>1. ASSUME line[p] = 1 PROVE line'[p] \in {4, 2} /\ Quiet(p)
  <2>1. Does(p, BREQ("argc", "3", "LOOP")) /\ Follow(p, 1) = 2
    BY <1>0, <1>1, ConsumerLines, LineFacts DEF Does, Here, Follow
  <2> QED
    BY <1>1, <2>1, IfEqual, ConsumerPlaces, Operand, NamesAssumption DEF Quiet, V
<1>2. ASSUME line[p] = 2 PROVE line'[p] = 3 /\ Quiet(p)
  <2>1. Does(p, SAY) /\ Follow(p, 2) = 3
    BY <1>0, <1>2, ConsumerLines, LineFacts DEF Does, Here, Follow
  <2> QED
    BY <1>2, <2>1, Shows, Operand, NamesAssumption DEF Quiet, V
<1>3. ASSUME line[p] = 3 PROVE line'[p] = 0 /\ Quiet(p)
  <2>1. Does(p, RETURN) /\ Follow(p, 3) = 4
    BY <1>0, <1>3, ConsumerLines, LineFacts DEF Does, Here, Follow
  <2> QED
    BY <1>3, <2>1, Returns, Operand, NamesAssumption DEF Quiet, V
<1>4. ASSUME line[p] = 4 PROVE line'[p] = 5 /\ Quiet(p)
  <2>1. Does(p, SAY) /\ Follow(p, 4) = 5
    BY <1>0, <1>4, ConsumerLines, LineFacts DEF Does, Here, Follow
  <2> QED
    BY <1>4, <2>1, Shows, Operand, NamesAssumption DEF Quiet, V
<1>5. ASSUME line[p] = 5 PROVE line'[p] = 6 /\ Asked(p, "full")
  <2>1. Does(p, DOWN("full")) /\ Follow(p, 5) = 6
    BY <1>0, <1>5, ConsumerLines, LineFacts DEF Does, Here, Follow
  <2> QED
    BY <1>5, <2>1, Asks, Operand, NamesAssumption DEF Asked, V
<1>6. ASSUME line[p] = 6 PROVE line'[p] = 7 /\ Quiet(p)
  <2>1. Does(p, SAY) /\ Follow(p, 6) = 7
    BY <1>0, <1>6, ConsumerLines, LineFacts DEF Does, Here, Follow
  <2> QED
    BY <1>6, <2>1, Shows, Operand, NamesAssumption DEF Quiet, V
<1>7. ASSUME line[p] = 7 PROVE line'[p] = 8 /\ Asked(p, "mtx")
  <2>1. Does(p, DOWN("mtx")) /\ Follow(p, 7) = 8
    BY <1>0, <1>7, ConsumerLines, LineFacts DEF Does, Here, Follow
  <2> QED
    BY <1>7, <2>1, Asks, Operand, NamesAssumption DEF Asked, V
<1>8. ASSUME line[p] = 8 PROVE line'[p] = 9 /\ Bound(p, "k", G("out"))
  <2>1. Does(p, LOAD("k", "out")) /\ Follow(p, 8) = 9
    BY <1>0, <1>8, ConsumerLines, LineFacts DEF Does, Here, Follow
  <2> QED
    BY <1>8, <2>1, Loads, Operand, NamesAssumption DEF Bound, V
<1>9. ASSUME line[p] = 9 PROVE line'[p] = 10 /\ Bound(p, "item", Buf(V(p, "k")))
  <2>1. Does(p, LOADAT("item", "buf", "k")) /\ Follow(p, 9) = 10
    BY <1>0, <1>9, ConsumerLines, LineFacts DEF Does, Here, Follow
  <2> QED
    BY <1>9, <2>1, LoadsAt, Operand, NamesAssumption DEF Bound, V, Buf
<1>10. ASSUME line[p] = 10 PROVE line'[p] = 11 /\ Bound(p, "k", V(p, "k") + 1)
  <2>1. Does(p, ADD("k", "k", "1")) /\ Follow(p, 10) = 11
    BY <1>0, <1>10, ConsumerLines, LineFacts DEF Does, Here, Follow
  <2> QED
    BY <1>10, <2>1, Adds, Operand, NamesAssumption DEF Bound, V
<1>11. ASSUME line[p] = 11 PROVE line'[p] = 12 /\ Bound(p, "k", V(p, "k") % V(p, "argv[1]"))
  <2>1. Does(p, MOD("k", "k", "argv[1]")) /\ Follow(p, 11) = 12
    BY <1>0, <1>11, ConsumerLines, LineFacts DEF Does, Here, Follow
  <2> QED
    BY <1>11, <2>1, Modulo, Operand, NamesAssumption DEF Bound, V
<1>12. ASSUME line[p] = 12 PROVE line'[p] = 13 /\ Put(p, "out", V(p, "k"))
  <2>1. Does(p, STORE("out", "k")) /\ Follow(p, 12) = 13
    BY <1>0, <1>12, ConsumerLines, LineFacts DEF Does, Here, Follow
  <2> QED
    BY <1>12, <2>1, Stores, Operand, NamesAssumption DEF Put, V
<1>13. ASSUME line[p] = 13 PROVE line'[p] = 14 /\ Put(p, "mtx", G("mtx") + 1)
  <2>1. Does(p, UP("mtx")) /\ Follow(p, 13) = 14
    BY <1>0, <1>13, ConsumerLines, LineFacts DEF Does, Here, Follow
  <2> QED
    BY <1>13, <2>1, Raises, Operand, NamesAssumption DEF Put, V
<1>14. ASSUME line[p] = 14 PROVE line'[p] = 15 /\ Quiet(p)
  <2>1. Does(p, SAY) /\ Follow(p, 14) = 15
    BY <1>0, <1>14, ConsumerLines, LineFacts DEF Does, Here, Follow
  <2> QED
    BY <1>14, <2>1, Shows, Operand, NamesAssumption DEF Quiet, V
<1>15. ASSUME line[p] = 15 PROVE line'[p] = 16 /\ Put(p, "free", G("free") + 1)
  <2>1. Does(p, UP("free")) /\ Follow(p, 15) = 16
    BY <1>0, <1>15, ConsumerLines, LineFacts DEF Does, Here, Follow
  <2> QED
    BY <1>15, <2>1, Raises, Operand, NamesAssumption DEF Put, V
<1>16. ASSUME line[p] = 16 PROVE line'[p] = 17 /\ Quiet(p)
  <2>1. Does(p, SAY) /\ Follow(p, 16) = 17
    BY <1>0, <1>16, ConsumerLines, LineFacts DEF Does, Here, Follow
  <2> QED
    BY <1>16, <2>1, Shows, Operand, NamesAssumption DEF Quiet, V
<1>17. ASSUME line[p] = 17 PROVE line'[p] = 18 /\ Quiet(p)
  <2>1. Does(p, SLEEP) /\ Follow(p, 17) = 18
    BY <1>0, <1>17, ConsumerLines, LineFacts DEF Does, Here, Follow
  <2> QED
    BY <1>17, <2>1, Shows, Operand, NamesAssumption DEF Quiet, V
<1>18. ASSUME line[p] = 18 PROVE line'[p] = 4 /\ Quiet(p)
  <2>1. Does(p, BRA("LOOP")) /\ Follow(p, 18) = 0
    BY <1>0, <1>18, ConsumerLines, LineFacts DEF Does, Here, Follow
  <2> QED
    BY <1>18, <2>1, Always, ConsumerPlaces, Operand, NamesAssumption DEF Quiet, V
<1> QED
  BY <1>0, <1>1, <1>2, <1>3, <1>4, <1>5, <1>6, <1>7, <1>8, <1>9, <1>10, <1>11, <1>12,
     <1>13, <1>14, <1>15, <1>16, <1>17, <1>18

LEMMA InitPCWaits ==
  ASSUME MachineInv, NEW p \in Programs, Text(p) = InitPC
  PROVE  waiting[p] = Idle
<1> SUFFICES ASSUME waiting[p] # Idle PROVE FALSE
  OBVIOUS
<1>1. PICK n \in DOMAIN Text(p) : Text(p)[n].op = "DOWN"
  BY WaitsBehind
<1> QED
  BY <1>1, InitPCLines, InitPCPlaces

LEMMA ProducerWaits ==
  ASSUME MachineInv, NEW p \in Programs, Text(p) = Producer, waiting[p] # Idle
  PROVE  \/ line[p] = 10 /\ waiting[p] = <<"free", 0>>
         \/ line[p] = 12 /\ waiting[p] = <<"mtx", 0>>
<1>1. PICK n \in DOMAIN Text(p) :
        /\ Text(p)[n].op = "DOWN" /\ line[p] = Follow(p, n)
        /\ \A k : Is(Text(p)[n], DOWN(k)) => waiting[p] = <<k, 0>>
  BY WaitsBehind
<1>2. Len(Producer) = 20 /\ n \in 1 .. 20
  BY ProducerLines
<1>3. n \in {9, 11}
  BY <1>1, <1>2, ProducerPlaces
<1>4. Is(Producer[9], DOWN("free")) /\ Is(Producer[11], DOWN("mtx"))
  BY ProducerLines, LineFacts
<1> QED
  BY <1>1, <1>2, <1>3, <1>4 DEF Follow

LEMMA ConsumerWaits ==
  ASSUME MachineInv, NEW p \in Programs, Text(p) = Consumer, waiting[p] # Idle
  PROVE  \/ line[p] = 6 /\ waiting[p] = <<"full", 0>>
         \/ line[p] = 8 /\ waiting[p] = <<"mtx", 0>>
<1>1. PICK n \in DOMAIN Text(p) :
        /\ Text(p)[n].op = "DOWN" /\ line[p] = Follow(p, n)
        /\ \A k : Is(Text(p)[n], DOWN(k)) => waiting[p] = <<k, 0>>
  BY WaitsBehind
<1>2. Len(Consumer) = 18 /\ n \in 1 .. 18
  BY ConsumerLines
<1>3. n \in {5, 7}
  BY <1>1, <1>2, ConsumerPlaces
<1>4. Is(Consumer[5], DOWN("full")) /\ Is(Consumer[7], DOWN("mtx"))
  BY ConsumerLines, LineFacts
<1> QED
  BY <1>1, <1>2, <1>3, <1>4 DEF Follow

\* Only the line 13 of the producer changes what is in the buffer.
LEMMA InitPCUnfilled ==
  ASSUME MachineInv, NEW p \in Programs, Text(p) = InitPC, Step(p)
  PROVE  Unfilled
<1>1. waiting[p] = Idle /\ line[p] \in 1 .. 14
  BY InitPCWaits, InitPCMoves
<1>2. /\ InitPC[1].op = "BREQ" /\ InitPC[2].op = "PRINT" /\ InitPC[3].op = "RETURN"
      /\ InitPC[4].op = "PRINT" /\ InitPC[6].op = "PRINT" /\ InitPC[8].op = "PRINT"
      /\ InitPC[10].op = "PRINT" /\ InitPC[12].op = "PRINT" /\ InitPC[14].op = "RETURN"
  BY InitPCLines, LineFacts
<1>3. /\ STORE("in", "0").src = <<"in", "0">> /\ STORE("out", "0").src = <<"out", "0">>
      /\ STORE("mtx", "1").src = <<"mtx", "1">> /\ STORE("full", "0").src = <<"full", "0">>
      /\ STORE("free", "argv[1]").src = <<"free", "argv[1]">>
  BY DEF STORE, Line
<1>4. /\ InitPC[5].src[1] = "in" /\ InitPC[7].src[1] = "out" /\ InitPC[9].src[1] = "mtx"
      /\ InitPC[11].src[1] = "free" /\ InitPC[13].src[1] = "full"
  BY <1>3, InitPCLines, LineFacts DEF Is
<1>5. Here(p).op \in {"STORE", "UP"} => Here(p).src[1] # "buf"
  BY <1>1, <1>2, <1>4 DEF Here
<1>6. "buf" \in Keys
  BY NamesAssumption
<1> QED
  BY <1>1, <1>5, <1>6, KeepsElements DEF Unfilled, Buf

LEMMA ProducerUnfilled ==
  ASSUME MachineInv, NEW p \in Programs, Text(p) = Producer, Step(p), line[p] # 13
  PROVE  Unfilled
<1>1. waiting[p] = Idle => line[p] \in 1 .. 20
  BY ProducerMoves
<1>2. /\ Producer[1].op = "SET" /\ Producer[2].op = "BREQ" /\ Producer[3].op = "PRINT"
      /\ Producer[4].op = "RETURN" /\ Producer[5].op = "ADD" /\ Producer[6].op = "PRINT"
      /\ Producer[7].op = "SLEEP" /\ Producer[8].op = "PRINT" /\ Producer[9].op = "DOWN"
      /\ Producer[10].op = "PRINT" /\ Producer[11].op = "DOWN" /\ Producer[12].op = "LOAD"
      /\ Producer[14].op = "ADD" /\ Producer[15].op = "MOD" /\ Producer[18].op = "PRINT"
      /\ Producer[20].op = "BRA"
  BY ProducerLines, LineFacts
<1>3. /\ STORE("in", "k").src = <<"in", "k">>
      /\ UP("mtx").src = <<"mtx">> /\ UP("full").src = <<"full">>
  BY DEF STORE, UP, Line
<1>4. /\ Producer[16].src[1] = "in" /\ Producer[17].src[1] = "mtx" /\ Producer[19].src[1] = "full"
  BY <1>3, ProducerLines, LineFacts DEF Is
<1>5. waiting[p] = Idle /\ Here(p).op \in {"STORE", "UP"} => Here(p).src[1] # "buf"
  BY <1>1, <1>2, <1>4 DEF Here
<1>6. "buf" \in Keys
  BY NamesAssumption
<1>7. waiting[p] # Idle => \E g : g # "buf" /\ waiting[p] = <<g, 0>>
  BY ProducerWaits
<1> QED
  BY <1>5, <1>6, <1>7, KeepsElements DEF Unfilled, Buf

LEMMA ConsumerUnfilled ==
  ASSUME MachineInv, NEW p \in Programs, Text(p) = Consumer, Step(p)
  PROVE  Unfilled
<1>1. waiting[p] = Idle => line[p] \in 1 .. 18
  BY ConsumerMoves
<1>2. /\ Consumer[1].op = "BREQ" /\ Consumer[2].op = "PRINT" /\ Consumer[3].op = "RETURN"
      /\ Consumer[4].op = "PRINT" /\ Consumer[5].op = "DOWN" /\ Consumer[6].op = "PRINT"
      /\ Consumer[7].op = "DOWN" /\ Consumer[8].op = "LOAD" /\ Consumer[9].op = "LOAD"
      /\ Consumer[10].op = "ADD" /\ Consumer[11].op = "MOD" /\ Consumer[14].op = "PRINT"
      /\ Consumer[16].op = "PRINT" /\ Consumer[17].op = "SLEEP" /\ Consumer[18].op = "BRA"
  BY ConsumerLines, LineFacts
<1>3. /\ STORE("out", "k").src = <<"out", "k">>
      /\ UP("mtx").src = <<"mtx">> /\ UP("free").src = <<"free">>
  BY DEF STORE, UP, Line
<1>4. /\ Consumer[12].src[1] = "out" /\ Consumer[13].src[1] = "mtx" /\ Consumer[15].src[1] = "free"
  BY <1>3, ConsumerLines, LineFacts DEF Is
<1>5. waiting[p] = Idle /\ Here(p).op \in {"STORE", "UP"} => Here(p).src[1] # "buf"
  BY <1>1, <1>2, <1>4 DEF Here
<1>6. "buf" \in Keys
  BY NamesAssumption
<1>7. waiting[p] # Idle => \E g : g # "buf" /\ waiting[p] = <<g, 0>>
  BY ConsumerWaits
<1> QED
  BY <1>5, <1>6, <1>7, KeepsElements DEF Unfilled, Buf

-----------------------------------------------------------------------------
(***************************************************************************)
(* The buffer.  Up to a moment t items were stored in it and c were taken  *)
(* from it: the items c + 1 .. t are in the slots from o on, the next one  *)
(* is stored in the slot i.  $in and $out are i and o, except that the     *)
(* producer and the consumer that have moved them have not written it      *)
(* back; $full and $free count the slots that nobody has claimed.          *)
(***************************************************************************)
PCKeys == {"in", "out", "mtx", "free", "full", "buf"}

\* the slot d places behind the slot o of a buffer with n slots
Slot(n, o, d) == IF o + d < n THEN o + d ELSE o + d - n

ProducerIn(w) == line[w] \in 13 .. 17 \/ (line[w] = 12 /\ waiting[w] = Idle)
ConsumerIn(r) == line[r] \in 9 .. 13 \/ (line[r] = 8 /\ waiting[r] = Idle)

PCLockInv ==
  /\ G("mtx") \in {0, 1}
  /\ \A w \in Users(Producer) : ProducerIn(w) =>
       G("mtx") = 0 /\ \A r \in Users(Consumer) : ~ConsumerIn(r)
  /\ \A r \in Users(Consumer) : ConsumerIn(r) =>
       G("mtx") = 0 /\ \A s \in Users(Consumer) : ConsumerIn(s) => r = s

Sizes(n) ==
  /\ n \in Nat \ {0} /\ 0 .. (n - 1) \subseteq Indices
  /\ \A p \in Users(InitPC) \cup Users(Producer) \cup Users(Consumer) : V(p, "argv[1]") = n

Ring(n, t, c, i, o) ==
  /\ c \in Nat /\ t \in Nat /\ c <= t /\ t - c <= n
  /\ o \in 0 .. (n - 1) /\ i \in 0 .. (n - 1) /\ i = Slot(n, o, t - c)
  /\ \A d \in 0 .. (t - c - 1) : Buf(Slot(n, o, d)) = c + d + 1

\* the producer's $k and item
ProducerCopy(w, n, t, i) ==
  /\ line[w] \in {1, 2} => t = 0
  /\ line[w] \in {2, 5} \cup (14 .. 20) => V(w, "item") = t
  /\ line[w] \in 6 .. 13 => V(w, "item") = t + 1
  /\ line[w] \in {13, 16} => V(w, "k") = i
  /\ line[w] = 14 => V(w, "k") \in 0 .. (n - 1) /\ i = Slot(n, V(w, "k"), 1)
  /\ line[w] = 15 => (V(w, "k") = i /\ i > 0) \/ (V(w, "k") = n /\ i = 0)

\* a consumer's $k and item
ConsumerCopy(r, n, c, o) ==
  /\ V(r, "item") \in 0 .. c
  /\ line[r] \in {9, 12} => V(r, "k") = o
  /\ line[r] = 10 => V(r, "k") \in 0 .. (n - 1) /\ o = Slot(n, V(r, "k"), 1)
  /\ line[r] = 11 => (V(r, "k") = o /\ o > 0) \/ (V(r, "k") = n /\ o = 0)

\* $in and $out are up to date, unless somebody is about to update them
Written(i, o) ==
  /\ (\A w \in Users(Producer) : line[w] \notin 14 .. 16) => G("in") = i
  /\ (\A r \in Users(Consumer) : line[r] \notin 10 .. 12) => G("out") = o

\* the programs that have claimed a slot or an item and not yet used it, and
\* those that have used it and not yet told the others
Filling == {w \in Users(Producer) : line[w] \in 11 .. 13 \/ (line[w] = 10 /\ waiting[w] = Idle)}
Stored == {w \in Users(Producer) : line[w] \in 14 .. 19}
Fetching == {r \in Users(Consumer) : line[r] \in 7 .. 9 \/ (line[r] = 6 /\ waiting[r] = Idle)}
Emptied == {r \in Users(Consumer) : line[r] \in 10 .. 15}

Counted(n, d) ==
  /\ G("full") \in Nat /\ G("free") \in Nat
  /\ G("full") + Cardinality(Fetching) + Cardinality(Stored) <= d
  /\ G("free") + Cardinality(Emptied) + Cardinality(Filling) + d <= n

\* Init.txt has the globals for itself
Prepared(t, c, i, o) ==
  \A q \in Users(InitPC) : line[q] # 0 =>
    /\ t = 0 /\ c = 0 /\ i = 0 /\ o = 0
    /\ \A p \in Users(Producer) \cup Users(Consumer) : line[p] = 1

BufferAt(n, t, c, i, o) ==
  /\ Sizes(n) /\ Ring(n, t, c, i, o)
  /\ \A w \in Users(Producer) : ProducerCopy(w, n, t, i)
  /\ \A r \in Users(Consumer) : ConsumerCopy(r, n, c, o)
  /\ \A r \in Users(Consumer) : Users(Consumer) = {r} => V(r, "item") = c
  /\ Written(i, o) /\ Counted(n, t - c) /\ Prepared(t, c, i, o)

\* until a side has gone round once it is in the slot of its next item, and of
\* a buffer that is too short no slot is used that was not made
Room(n, t, c, i, o) ==
  /\ t < n => i = t
  /\ c < n => o = c
  /\ extent["buf"] < n => t <= extent["buf"]

BufferInv ==
  /\ extent \in [Keys -> Nat]
  /\ Users(Consumer) # {} =>
       PCLockInv /\ \E n, t, c, i, o : BufferAt(n, t, c, i, o) /\ Room(n, t, c, i, o)

LEMMA PCNames ==
  /\ PCKeys \subseteq Keys
  /\ "in" \in Keys /\ "out" \in Keys /\ "mtx" \in Keys
  /\ "free" \in Keys /\ "full" \in Keys /\ "buf" \in Keys
  /\ "item" \in Locals /\ "k" \in Locals /\ "argv[1]" \in Locals
BY NamesAssumption DEF PCKeys

LEMMA PCUsers ==
  ASSUME MachineInv, Users(Consumer) # {}, NEW p \in Programs
  PROVE  /\ \A w, x \in Users(Producer) : w = x
         /\ \A q \in Users(InitPC) : q \in First(scenario)
         /\ \/ /\ Text(p) = InitPC /\ p \in Users(InitPC)
               /\ p \notin Users(Producer) /\ p \notin Users(Consumer)
            \/ /\ Text(p) = Producer /\ p \in Users(Producer)
               /\ p \notin Users(InitPC) /\ p \notin Users(Consumer)
            \/ /\ Text(p) = Consumer /\ p \in Users(Consumer)
               /\ p \notin Users(InitPC) /\ p \notin Users(Producer)
            \/ /\ LeavesAlone(Text(p), PCKeys)
               /\ p \notin Users(InitPC) /\ p \notin Users(Producer) /\ p \notin Users(Consumer)
<1>1. InitPC # Producer /\ InitPC # Consumer /\ Producer # Consumer
  BY InitPCLines, ProducerLines, ConsumerLines
<1>2. PICK r \in Users(Consumer) : TRUE
  OBVIOUS
<1>3. r \in Plays(scenario, Consumer)
  BY <1>2 DEF Users, Executing, Plays, Text
<1>4. /\ Once(scenario, Producer) /\ Plays(scenario, InitPC) \subseteq First(scenario)
      /\ Among(scenario, {InitPC, Producer, Consumer}, PCKeys)
  BY <1>3, BufferAssumption DEF MachineInv, PCKeys
<1>5. Text(p) \in {InitPC, Producer, Consumer} \/ LeavesAlone(Text(p), PCKeys)
  BY <1>4 DEF Among, Text
<1>6. \A t : \A q \in Programs : q \in Users(t) <=> Text(q) = t
  BY DEF Users, Executing
<1>7. \A w, x \in Users(Producer) : w = x
  BY <1>4 DEF Once, Plays, Users, Executing, Text
<1>8. \A q \in Users(InitPC) : q \in First(scenario)
  BY <1>4 DEF Plays, Users, Executing, Text
<1> QED
  BY <1>1, <1>5, <1>6, <1>7, <1>8

\* A program that moves has waited for Init.txt.
LEMMA InitHasEnded ==
  ASSUME MachineInv, Users(Consumer) # {}, NEW p \in Programs, Step(p),
         waiting[p] = Idle \/ line[p] \notin {0, 1}
  PROVE  \A q \in Users(InitPC) \ {p} : line[q] = 0
<1>1. Started(p)
  BY StepLine, HasStarted
<1> QED
  BY <1>1, PCUsers DEF Started

LEMMA ProducerLocks ==
  ASSUME MachineInv, NEW p \in Programs, Text(p) = Producer, Step(p),
         line[p] = 13 => V(p, "k") \in Indices
  PROVE  \/ (ProducerIn(p)' <=> ProducerIn(p)) /\ G("mtx")' = G("mtx")
         \/ ~ProducerIn(p) /\ ProducerIn(p)' /\ G("mtx") > 0 /\ G("mtx")' = G("mtx") - 1
         \/ ProducerIn(p) /\ ~ProducerIn(p)' /\ G("mtx")' = G("mtx") + 1
<1>0. <<"mtx", 0>> # <<"free", 0>>
  BY DifferentKeys
<1>1. CASE waiting[p] # Idle /\ waiting[p] = <<"mtx", 0>>
  <2>1. line[p] = 12
    BY <1>0, <1>1, ProducerWaits
  <2>2. /\ line'[p] = line[p] /\ waiting'[p] = Idle
        /\ G("mtx") > 0 /\ G("mtx")' = G("mtx") - 1
    BY <1>1, Takes, PCNames DEF Puts
  <2> QED
    BY <1>1, <2>1, <2>2 DEF ProducerIn
<1>2. CASE waiting[p] # Idle /\ waiting[p] = <<"free", 0>>
  <2>1. line[p] = 10
    BY <1>0, <1>2, ProducerWaits
  <2>2. line'[p] = line[p] /\ G("mtx")' = G("mtx")
    BY <1>2, Takes, PCNames DEF Puts
  <2> QED
    BY <2>1, <2>2 DEF ProducerIn
<1>3. CASE waiting[p] = Idle
  <2>0. line[p] \in 1 .. 20
    BY <1>3, ProducerMoves
  <2>1. CASE line[p] = 11
    <3>1. line'[p] = 12 /\ waiting'[p] # Idle /\ G("mtx")' = G("mtx")
      BY <1>3, <2>1, ProducerMoves, PCNames DEF Asked, Keeps
    <3> QED
      BY <2>1, <3>1 DEF ProducerIn
  <2>2. CASE line[p] = 17
    <3>1. line'[p] = 18 /\ G("mtx")' = G("mtx") + 1
      BY <1>3, <2>2, ProducerMoves, PCNames DEF Put, Puts
    <3> QED
      BY <2>2, <3>1 DEF ProducerIn
  <2>3. CASE line[p] \in 12 .. 16
    <3>1. line'[p] \in 13 .. 17
      BY <1>3, <2>3, ProducerMoves
    <3>2. G("mtx")' = G("mtx")
      BY <1>3, <2>3, ProducerMoves, PCNames DEF Bound, Put, Filled, Keeps, Puts
    <3> QED
      BY <1>3, <2>3, <3>1, <3>2 DEF ProducerIn
  <2>4. CASE line[p] \in (1 .. 10) \cup (18 .. 20)
    <3>1. line'[p] \in (0 .. 11) \cup (19 .. 20)
      BY <1>3, <2>4, ProducerMoves
    <3>2. G("mtx")' = G("mtx")
      BY <1>3, <2>4, ProducerMoves, PCNames DEF Quiet, Bound, Asked, Put, Keeps, Puts
    <3> QED
      BY <1>3, <2>4, <3>1, <3>2 DEF ProducerIn
  <2> QED
    BY <2>0, <2>1, <2>2, <2>3, <2>4
<1> QED
  BY <1>1, <1>2, <1>3, ProducerWaits

LEMMA ConsumerLocks ==
  ASSUME MachineInv, NEW p \in Programs, Text(p) = Consumer, Step(p)
  PROVE  \/ (ConsumerIn(p)' <=> ConsumerIn(p)) /\ G("mtx")' = G("mtx")
         \/ ~ConsumerIn(p) /\ ConsumerIn(p)' /\ G("mtx") > 0 /\ G("mtx")' = G("mtx") - 1
         \/ ConsumerIn(p) /\ ~ConsumerIn(p)' /\ G("mtx")' = G("mtx") + 1
<1>0. <<"mtx", 0>> # <<"full", 0>>
  BY DifferentKeys
<1>1. CASE waiting[p] # Idle /\ waiting[p] = <<"mtx", 0>>
  <2>1. line[p] = 8
    BY <1>0, <1>1, ConsumerWaits
  <2>2. /\ line'[p] = line[p] /\ waiting'[p] = Idle
        /\ G("mtx") > 0 /\ G("mtx")' = G("mtx") - 1
    BY <1>1, Takes, PCNames DEF Puts
  <2> QED
    BY <1>1, <2>1, <2>2 DEF ConsumerIn
<1>2. CASE waiting[p] # Idle /\ waiting[p] = <<"full", 0>>
  <2>1. line[p] = 6
    BY <1>0, <1>2, ConsumerWaits
  <2>2. line'[p] = line[p] /\ G("mtx")' = G("mtx")
    BY <1>2, Takes, PCNames DEF Puts
  <2> QED
    BY <2>1, <2>2 DEF ConsumerIn
<1>3. CASE waiting[p] = Idle
  <2>0. line[p] \in 1 .. 18
    BY <1>3, ConsumerMoves
  <2>1. CASE line[p] = 7
    <3>1. line'[p] = 8 /\ waiting'[p] # Idle /\ G("mtx")' = G("mtx")
      BY <1>3, <2>1, ConsumerMoves, PCNames DEF Asked, Keeps
    <3> QED
      BY <2>1, <3>1 DEF ConsumerIn
  <2>2. CASE line[p] = 13
    <3>1. line'[p] = 14 /\ G("mtx")' = G("mtx") + 1
      BY <1>3, <2>2, ConsumerMoves, PCNames DEF Put, Puts
    <3> QED
      BY <2>2, <3>1 DEF ConsumerIn
  <2>3. CASE line[p] \in 8 .. 12
    <3>1. line'[p] \in 9 .. 13
      BY <1>3, <2>3, ConsumerMoves
    <3>2. G("mtx")' = G("mtx")
      BY <1>3, <2>3, ConsumerMoves, PCNames DEF Bound, Put, Keeps, Puts
    <3> QED
      BY <1>3, <2>3, <3>1, <3>2 DEF ConsumerIn
  <2>4. CASE line[p] \in (1 .. 6) \cup (14 .. 18)
    <3>1. line'[p] \in (0 .. 7) \cup (15 .. 18)
      BY <1>3, <2>4, ConsumerMoves
    <3>2. G("mtx")' = G("mtx")
      BY <1>3, <2>4, ConsumerMoves, PCNames DEF Quiet, Asked, Put, Keeps, Puts
    <3> QED
      BY <1>3, <2>4, <3>1, <3>2 DEF ConsumerIn
  <2> QED
    BY <2>0, <2>1, <2>2, <2>3, <2>4
<1> QED
  BY <1>1, <1>2, <1>3, ConsumerWaits

\* What Init.txt does to the globals of the buffer.
LEMMA InitPCStep ==
  ASSUME MachineInv, NEW p \in Programs, Text(p) = InitPC, Step(p)
  PROVE  /\ line[p] # 0 /\ Own(p)
         /\ G("in")' \in {G("in"), 0} /\ G("out")' \in {G("out"), 0}
         /\ G("mtx")' \in {G("mtx"), 1} /\ G("full")' \in {G("full"), 0}
         /\ G("free")' \in {G("free"), V(p, "argv[1]")}
<1>1. waiting[p] = Idle
  BY InitPCWaits
<1>2. line[p] \in 1 .. 14
  BY <1>1, InitPCMoves
<1>3. CASE line[p] \in {5, 7, 9, 11, 13}
  BY <1>1, <1>3, InitPCMoves, PCNames DEF Put, Puts
<1>4. CASE line[p] \notin {5, 7, 9, 11, 13}
  BY <1>1, <1>2, <1>4, InitPCMoves, PCNames DEF Quiet, Keeps
<1> QED
  BY <1>2, <1>3, <1>4

LEMMA NextPCLock ==
  ASSUME MachineInv, Users(Consumer) # {}, PCLockInv, NEW n, NEW t, NEW c, NEW i, NEW o,
         BufferAt(n, t, c, i, o), NEW p \in Programs, Step(p)
  PROVE  PCLockInv'
<1>1. /\ \A w, x \in Users(Producer) : w = x
      /\ \/ /\ Text(p) = InitPC /\ p \in Users(InitPC)
            /\ p \notin Users(Producer) /\ p \notin Users(Consumer)
         \/ /\ Text(p) = Producer /\ p \in Users(Producer)
            /\ p \notin Users(InitPC) /\ p \notin Users(Consumer)
         \/ /\ Text(p) = Consumer /\ p \in Users(Consumer)
            /\ p \notin Users(InitPC) /\ p \notin Users(Producer)
         \/ /\ LeavesAlone(Text(p), PCKeys)
            /\ p \notin Users(InitPC) /\ p \notin Users(Producer) /\ p \notin Users(Consumer)
  BY PCUsers
<1>2. /\ Users(Producer)' = Users(Producer) /\ Users(Consumer)' = Users(Consumer)
      /\ \A q \in Programs : q # p => line'[q] = line[q] /\ waiting'[q] = waiting[q]
  BY StepFrame
<1>3. \A q : q \in Users(Producer) \/ q \in Users(Consumer) => q \in Programs
  BY DEF Users
<1>4. /\ \A w \in Users(Producer) : w # p => (ProducerIn(w)' <=> ProducerIn(w))
      /\ \A r \in Users(Consumer) : r # p => (ConsumerIn(r)' <=> ConsumerIn(r))
  BY <1>2, <1>3 DEF ProducerIn, ConsumerIn
<1>5. CASE Text(p) = Producer /\ p \in Users(Producer) /\ p \notin Users(Consumer)
  <2>1. line[p] = 13 => V(p, "k") \in Indices
    <3>1. /\ ProducerCopy(p, n, t, i) /\ i \in 0 .. (n - 1) /\ 0 .. (n - 1) \subseteq Indices
      BY <1>5 DEF BufferAt, Ring, Sizes
    <3> QED
      BY <3>1 DEF ProducerCopy
  <2>2. \/ (ProducerIn(p)' <=> ProducerIn(p)) /\ G("mtx")' = G("mtx")
        \/ ~ProducerIn(p) /\ ProducerIn(p)' /\ G("mtx") > 0 /\ G("mtx")' = G("mtx") - 1
        \/ ProducerIn(p) /\ ~ProducerIn(p)' /\ G("mtx")' = G("mtx") + 1
    BY <1>5, <2>1, ProducerLocks
  <2> QED
    BY <1>1, <1>2, <1>4, <1>5, <2>2 DEF PCLockInv
<1>6. CASE Text(p) = Consumer /\ p \in Users(Consumer) /\ p \notin Users(Producer)
  <2>1. \/ (ConsumerIn(p)' <=> ConsumerIn(p)) /\ G("mtx")' = G("mtx")
        \/ ~ConsumerIn(p) /\ ConsumerIn(p)' /\ G("mtx") > 0 /\ G("mtx")' = G("mtx") - 1
        \/ ConsumerIn(p) /\ ~ConsumerIn(p)' /\ G("mtx")' = G("mtx") + 1
    BY <1>6, ConsumerLocks
  <2> QED
    BY <1>2, <1>4, <1>6, <2>1 DEF PCLockInv
<1>7. CASE /\ Text(p) = InitPC /\ p \in Users(InitPC)
           /\ p \notin Users(Producer) /\ p \notin Users(Consumer)
  <2>1. line[p] # 0 /\ G("mtx")' \in {G("mtx"), 1}
    BY <1>7, InitPCStep
  <2>2. \A q \in Users(Producer) \cup Users(Consumer) : line[q] = 1
    BY <1>7, <2>1 DEF BufferAt, Prepared
  <2>3. /\ \A w \in Users(Producer) : ~ProducerIn(w)
        /\ \A r \in Users(Consumer) : ~ConsumerIn(r)
    BY <2>2 DEF ProducerIn, ConsumerIn
  <2> QED
    BY <1>2, <1>4, <1>7, <2>1, <2>3 DEF PCLockInv
<1>8. CASE LeavesAlone(Text(p), PCKeys) /\ p \notin Users(Producer) /\ p \notin Users(Consumer)
  <2>1. G("mtx")' = G("mtx")
    BY <1>8, PCNames, Elsewhere DEF PCKeys
  <2> QED
    BY <1>2, <1>4, <1>8, <2>1 DEF PCLockInv
<1> QED
  BY <1>1, <1>5, <1>6, <1>7, <1>8

-----------------------------------------------------------------------------
(***************************************************************************)
(* The slots.                                                              *)
(***************************************************************************)
LEMMA Slots ==
  ASSUME NEW n \in Nat \ {0}, NEW o \in 0 .. (n - 1)
  PROVE  /\ \A d \in 0 .. n : Slot(n, o, d) \in 0 .. (n - 1)
         /\ \A d \in 0 .. (n - 1) : /\ Slot(n, Slot(n, o, d), 1) = Slot(n, o, d + 1)
                                    /\ Slot(n, Slot(n, o, 1), d) = Slot(n, o, d + 1)
         /\ \A d, e \in 0 .. (n - 1) : Slot(n, o, d) = Slot(n, o, e) => d = e
         /\ Slot(n, o, 0) = o
BY DEF Slot

\* An item is stored in the next slot: it follows the others.
LEMMA RingStore ==
  ASSUME NEW n \in Nat \ {0}, 0 .. (n - 1) \subseteq Indices, NEW t, NEW c, NEW i, NEW o,
         Ring(n, t, c, i, o), t - c < n,
         \A j \in Indices : Buf(j)' = IF j = i THEN t + 1 ELSE Buf(j)
  PROVE  Ring(n, t + 1, c, Slot(n, i, 1), o)'
<1>1. /\ c \in Nat /\ t \in Nat /\ c <= t /\ o \in 0 .. (n - 1) /\ i = Slot(n, o, t - c)
      /\ \A d \in 0 .. (t - c - 1) : Buf(Slot(n, o, d)) = c + d + 1
  BY DEF Ring
<1>2. t - c \in 0 .. (n - 1)
  BY <1>1
<1>3. /\ Slot(n, i, 1) = Slot(n, o, t - c + 1)
      /\ Slot(n, o, t - c + 1) \in 0 .. (n - 1)
  BY <1>1, <1>2, Slots
<1>4. ASSUME NEW d \in 0 .. (t - c) PROVE Buf(Slot(n, o, d))' = c + d + 1
  <2>0. d \in 0 .. (n - 1) /\ d \in 0 .. n
    BY <1>1, <1>2, <1>4
  <2>1. Slot(n, o, d) \in Indices
    BY <1>1, <2>0, Slots
  <2>2. Slot(n, o, d) = i <=> d = t - c
    BY <1>1, <1>2, <2>0 DEF Slot
  <2>3. CASE d = t - c
    BY <1>1, <2>1, <2>2, <2>3
  <2>4. CASE d # t - c
    <3>1. d \in 0 .. (t - c - 1)
      BY <1>1, <1>4, <2>4
    <3>2. Buf(Slot(n, o, d))' = Buf(Slot(n, o, d))
      BY <2>1, <2>2, <2>4
    <3> QED
      BY <1>1, <3>1, <3>2
  <2> QED
    BY <2>3, <2>4
<1>5. (t + 1) - c - 1 = t - c /\ (t + 1) - c = t - c + 1
  BY <1>1
<1> QED
  BY <1>1, <1>2, <1>3, <1>4, <1>5 DEF Ring

\* The item after the last one taken is taken from the first slot.
LEMMA RingTake ==
  ASSUME NEW n \in Nat \ {0}, 0 .. (n - 1) \subseteq Indices, NEW t, NEW c, NEW i, NEW o,
         Ring(n, t, c, i, o), c < t, Unfilled
  PROVE  Buf(o) = c + 1 /\ Ring(n, t, c + 1, i, Slot(n, o, 1))'
<1>1. /\ c \in Nat /\ t \in Nat /\ t - c <= n /\ o \in 0 .. (n - 1) /\ i \in 0 .. (n - 1)
      /\ i = Slot(n, o, t - c)
      /\ \A d \in 0 .. (t - c - 1) : Buf(Slot(n, o, d)) = c + d + 1
  BY DEF Ring
<1>2. t - c - 1 \in 0 .. (n - 1) /\ 0 \in 0 .. (t - c - 1) /\ 1 \in 0 .. n
  BY <1>1
<1>3. Buf(o) = c + 1
  BY <1>1, <1>2, Slots
<1>4. Slot(n, o, 1) \in 0 .. (n - 1) /\ i = Slot(n, Slot(n, o, 1), t - c - 1)
  <2> DEFINE e == t - c - 1
  <2>1. e \in 0 .. (n - 1) /\ t - c = e + 1
    BY <1>1, <1>2
  <2> HIDE DEF e
  <2>2. Slot(n, o, 1) \in 0 .. (n - 1)
    BY <1>1, <1>2, Slots
  <2>3. i = Slot(n, Slot(n, o, 1), e)
    BY <1>1, <2>1, Slots
  <2> QED
    BY <2>2, <2>3 DEF e
<1>5. ASSUME NEW d \in 0 .. (t - (c + 1) - 1)
      PROVE  Buf(Slot(n, Slot(n, o, 1), d))' = (c + 1) + d + 1
  <2>1. d \in 0 .. (n - 1) /\ d + 1 \in 0 .. n /\ d + 1 \in 0 .. (t - c - 1)
    BY <1>1, <1>5
  <2> DEFINE e == d + 1
  <2>2. Slot(n, Slot(n, o, 1), d) = Slot(n, o, e)
    BY <1>1, <2>1, Slots
  <2>3. e \in 0 .. n /\ e \in 0 .. (t - c - 1) /\ c + e + 1 = (c + 1) + d + 1
    BY <1>1, <1>5, <2>1
  <2> HIDE DEF e
  <2>4. Slot(n, o, e) \in Indices
    BY <1>1, <2>3, Slots
  <2>5. Buf(Slot(n, o, e))' = c + e + 1
    BY <1>1, <2>3, <2>4 DEF Unfilled
  <2> QED
    BY <2>2, <2>3, <2>5
<1>6. t - (c + 1) = t - c - 1
  BY <1>1
<1> QED
  BY <1>1, <1>2, <1>3, <1>4, <1>5, <1>6 DEF Ring

LEMMA RingKept ==
  ASSUME NEW n \in Nat \ {0}, 0 .. (n - 1) \subseteq Indices, NEW t, NEW c, NEW i, NEW o,
         Ring(n, t, c, i, o), Unfilled
  PROVE  Ring(n, t, c, i, o)'
<1>1. /\ c \in Nat /\ t \in Nat /\ t - c <= n /\ o \in 0 .. (n - 1)
      /\ \A d \in 0 .. (t - c - 1) : Buf(Slot(n, o, d)) = c + d + 1
  BY DEF Ring
<1>2. ASSUME NEW d \in 0 .. (t - c - 1) PROVE Buf(Slot(n, o, d))' = c + d + 1
  <2>1. d \in 0 .. n
    BY <1>1
  <2>2. Slot(n, o, d) \in Indices
    BY <1>1, <2>1, Slots
  <2> QED
    BY <1>1, <2>2 DEF Unfilled
<1> QED
  BY <1>2 DEF Ring

\* Only p may enter or leave a set of programs.
LEMMA OneMoves ==
  ASSUME NEW S, NEW T, NEW p, IsFiniteSet(S), \A q : q # p => (q \in T <=> q \in S)
  PROVE  /\ IsFiniteSet(T) /\ Cardinality(S) \in Nat /\ Cardinality(T) \in Nat
         /\ (p \in S <=> p \in T) => Cardinality(T) = Cardinality(S)
         /\ p \notin S /\ p \in T => Cardinality(T) = Cardinality(S) + 1
         /\ p \in S /\ p \notin T => Cardinality(S) > 0 /\ Cardinality(T) = Cardinality(S) - 1
<1>0. Cardinality(S) \in Nat
  BY FS_CardinalityType
<1>1. CASE p \in S <=> p \in T
  <2>1. S = T
    BY <1>1
  <2> QED
    BY <1>0, <2>1
<1>2. CASE p \notin S /\ p \in T
  <2>1. T = S \cup {p}
    BY <1>2
  <2>2. Cardinality(T) = Cardinality(S) + 1 /\ IsFiniteSet(T)
    BY <1>2, <2>1, FS_AddElement
  <2> QED
    BY <1>0, <1>2, <2>2
<1>3. CASE p \in S /\ p \notin T
  <2>1. T = S \ {p}
    BY <1>3
  <2>2. Cardinality(T) = Cardinality(S) - 1 /\ IsFiniteSet(T)
    BY <1>3, <2>1, FS_RemoveElement
  <2>3. Cardinality(S) # 0
    BY <1>3, FS_EmptySet
  <2> QED
    BY <1>0, <1>3, <2>2, <2>3
<1> QED
  BY <1>1, <1>2, <1>3

-----------------------------------------------------------------------------
(***************************************************************************)
(* The items and indices of the producer and the consumers.                *)
(***************************************************************************)
LEMMA NextSlot ==
  ASSUME NEW n \in Nat \ {0}, NEW i \in 0 .. (n - 1), NEW k
  PROVE  /\ k \in 0 .. (n - 1) /\ i = Slot(n, k, 1) => (k + 1 = i /\ i > 0) \/ (k + 1 = n /\ i = 0)
         /\ (k = i /\ i > 0) \/ (k = n /\ i = 0) => k % n = i
<1>1. k \in 0 .. (n - 1) /\ i = Slot(n, k, 1) => (k + 1 = i /\ i > 0) \/ (k + 1 = n /\ i = 0)
  BY DEF Slot
<1>2. k = i => k % n = i
  OBVIOUS
<1>3. n % n = 0
  OBVIOUS
<1> QED
  BY <1>1, <1>2, <1>3

LEMMA ProducerCopies ==
  ASSUME MachineInv, NEW p \in Programs, Text(p) = Producer, Step(p),
         NEW n \in Nat \ {0}, NEW t \in Nat, NEW i \in 0 .. (n - 1),
         ProducerCopy(p, n, t, i), V(p, "argv[1]") = n, line[p] # 13, line[p] = 12 => G("in") = i
  PROVE  ProducerCopy(p, n, t, i)' /\ V(p, "argv[1]")' = n
<1>1. CASE waiting[p] # Idle
  <2>1. waiting[p] \in {<<"free", 0>>, <<"mtx", 0>>}
    BY <1>1, ProducerWaits
  <2>2. line'[p] = line[p] /\ \A x : V(p, x)' = V(p, x)
    BY <2>1, Takes, PCNames DEF Own, V
  <2> QED
    BY <2>2 DEF ProducerCopy
<1>2. CASE waiting[p] = Idle
  <2>0. line[p] \in 1 .. 20
    BY <1>2, ProducerMoves
  <2>1. CASE line[p] \in {3, 4, 6, 7, 8, 9, 10, 11, 16, 17, 18, 19, 20}
    <3>1. /\ line'[p] \in {4, 0, 7, 8, 9, 10, 11, 12, 17, 18, 19, 20, 5}
          /\ line[p] \in {6, 7, 8, 9, 10, 11} => line'[p] \in {7, 8, 9, 10, 11, 12}
          /\ line[p] \in {16, 17, 18, 19, 20} => line'[p] \in {17, 18, 19, 20, 5}
          /\ line[p] \in {3, 4} => line'[p] \in {4, 0}
      BY <1>2, <2>1, ProducerMoves
    <3>2. \A x : V(p, x)' = V(p, x)
      BY <1>2, <2>1, ProducerMoves DEF Quiet, Asked, Put, Own, V
    <3> QED
      BY <2>1, <3>1, <3>2 DEF ProducerCopy
  <2>2. CASE line[p] = 1
    <3>1. line'[p] = 2 /\ V(p, "item")' = 0 /\ V(p, "argv[1]")' = V(p, "argv[1]")
      BY <1>2, <2>2, ProducerMoves, PCNames DEF Bound, Binds, V
    <3> QED
      BY <2>2, <3>1 DEF ProducerCopy
  <2>3. CASE line[p] = 2
    <3>1. line'[p] \in {5, 3} /\ V(p, "item")' = V(p, "item") /\ V(p, "argv[1]")' = V(p, "argv[1]")
      BY <1>2, <2>3, ProducerMoves DEF Quiet, Own, V
    <3> QED
      BY <2>3, <3>1 DEF ProducerCopy
  <2>4. CASE line[p] = 5
    <3>1. /\ line'[p] = 6 /\ V(p, "item")' = V(p, "item") + 1
          /\ V(p, "argv[1]")' = V(p, "argv[1]")
      BY <1>2, <2>4, ProducerMoves, PCNames DEF Bound, Binds, V
    <3> QED
      BY <2>4, <3>1 DEF ProducerCopy
  <2>5. CASE line[p] = 12
    <3>1. /\ line'[p] = 13 /\ V(p, "k")' = i /\ V(p, "item")' = V(p, "item")
          /\ V(p, "argv[1]")' = V(p, "argv[1]")
      BY <1>2, <2>5, ProducerMoves, PCNames DEF Bound, Binds, V
    <3> QED
      BY <2>5, <3>1 DEF ProducerCopy
  <2>6. CASE line[p] = 14
    <3>1. /\ line'[p] = 15 /\ V(p, "k")' = V(p, "k") + 1 /\ V(p, "item")' = V(p, "item")
          /\ V(p, "argv[1]")' = V(p, "argv[1]")
      BY <1>2, <2>6, ProducerMoves, PCNames DEF Bound, Binds, V
    <3>2. (V(p, "k") + 1 = i /\ i > 0) \/ (V(p, "k") + 1 = n /\ i = 0)
      BY <2>6, NextSlot DEF ProducerCopy
    <3> QED
      BY <2>6, <3>1, <3>2 DEF ProducerCopy
  <2>7. CASE line[p] = 15
    <3>1. /\ line'[p] = 16 /\ V(p, "k")' = V(p, "k") % V(p, "argv[1]") /\ V(p, "item")' = V(p, "item")
          /\ V(p, "argv[1]")' = V(p, "argv[1]")
      BY <1>2, <2>7, ProducerMoves, PCNames DEF Bound, Binds, V
    <3>2. V(p, "k") % n = i
      BY <2>7, NextSlot DEF ProducerCopy
    <3> QED
      BY <2>7, <3>1, <3>2 DEF ProducerCopy
  <2> QED
    BY <2>0, <2>1, <2>2, <2>3, <2>4, <2>5, <2>6, <2>7
<1> QED
  BY <1>1, <1>2

\* Line 13 stores the item t + 1 in the slot i.
LEMMA ProducerStores ==
  ASSUME MachineInv, NEW p \in Programs, Text(p) = Producer, Step(p), line[p] = 13,
         NEW n \in Nat \ {0}, NEW t \in Nat, NEW i \in 0 .. (n - 1), i \in Indices,
         ProducerCopy(p, n, t, i)
  PROVE  /\ ProducerCopy(p, n, t + 1, Slot(n, i, 1))' /\ V(p, "argv[1]")' = V(p, "argv[1]")
         /\ \A j \in Indices : Buf(j)' = IF j = i THEN t + 1 ELSE Buf(j)
         /\ line'[p] = 14 /\ \A g \in Keys \ {"buf"} : G(g)' = G(g)
<1>1. waiting[p] = Idle
  BY ProducerWaits
<1>2. V(p, "k") = i /\ V(p, "item") = t + 1
  BY DEF ProducerCopy
<1>3. line'[p] = 14 /\ Filled(p, i, t + 1)
  BY <1>1, <1>2, ProducerMoves
<1>4. \A x : V(p, x)' = V(p, x)
  BY <1>3 DEF Filled, Own, V
<1>5. /\ \A j \in Indices : Buf(j)' = IF j = i THEN t + 1 ELSE Buf(j)
      /\ \A g \in Keys \ {"buf"} : G(g)' = G(g)
  BY <1>3 DEF Filled
<1>6. ProducerCopy(p, n, t + 1, Slot(n, i, 1))'
  BY <1>2, <1>3, <1>4 DEF ProducerCopy
<1> QED
  BY <1>3, <1>4, <1>5, <1>6

LEMMA ConsumerCopies ==
  ASSUME MachineInv, NEW p \in Programs, Text(p) = Consumer, Step(p),
         NEW n \in Nat \ {0}, NEW c \in Nat, NEW o \in 0 .. (n - 1),
         ConsumerCopy(p, n, c, o), V(p, "argv[1]") = n, line[p] # 9,
         line[p] = 8 /\ waiting[p] = Idle => G("out") = o
  PROVE  ConsumerCopy(p, n, c, o)' /\ V(p, "argv[1]")' = n /\ V(p, "item")' = V(p, "item")
<1>1. CASE waiting[p] # Idle
  <2>1. waiting[p] \in {<<"full", 0>>, <<"mtx", 0>>}
    BY <1>1, ConsumerWaits
  <2>2. line'[p] = line[p] /\ \A x : V(p, x)' = V(p, x)
    BY <2>1, Takes, PCNames DEF Own, V
  <2> QED
    BY <2>2 DEF ConsumerCopy
<1>2. CASE waiting[p] = Idle
  <2>0. line[p] \in 1 .. 18
    BY <1>2, ConsumerMoves
  <2>1. CASE line[p] \in (1 .. 7) \cup (12 .. 18)
    <3>1. line'[p] \in (0 .. 8) \cup (13 .. 18)
      BY <1>2, <2>1, ConsumerMoves
    <3>2. \A x : V(p, x)' = V(p, x)
      BY <1>2, <2>1, ConsumerMoves DEF Quiet, Asked, Put, Own, V
    <3> QED
      BY <2>1, <3>1, <3>2 DEF ConsumerCopy
  <2>2. CASE line[p] = 8
    <3>1. /\ line'[p] = 9 /\ V(p, "k")' = o /\ V(p, "item")' = V(p, "item")
          /\ V(p, "argv[1]")' = V(p, "argv[1]")
      BY <1>2, <2>2, ConsumerMoves, PCNames DEF Bound, Binds, V
    <3> QED
      BY <2>2, <3>1 DEF ConsumerCopy
  <2>3. CASE line[p] = 10
    <3>1. /\ line'[p] = 11 /\ V(p, "k")' = V(p, "k") + 1 /\ V(p, "item")' = V(p, "item")
          /\ V(p, "argv[1]")' = V(p, "argv[1]")
      BY <1>2, <2>3, ConsumerMoves, PCNames DEF Bound, Binds, V
    <3>2. (V(p, "k") + 1 = o /\ o > 0) \/ (V(p, "k") + 1 = n /\ o = 0)
      BY <2>3, NextSlot DEF ConsumerCopy
    <3> QED
      BY <2>3, <3>1, <3>2 DEF ConsumerCopy
  <2>4. CASE line[p] = 11
    <3>1. /\ line'[p] = 12 /\ V(p, "k")' = V(p, "k") % V(p, "argv[1]") /\ V(p, "item")' = V(p, "item")
          /\ V(p, "argv[1]")' = V(p, "argv[1]")
      BY <1>2, <2>4, ConsumerMoves, PCNames DEF Bound, Binds, V
    <3>2. V(p, "k") % n = o
      BY <2>4, NextSlot DEF ConsumerCopy
    <3> QED
      BY <2>4, <3>1, <3>2 DEF ConsumerCopy
  <2> QED
    BY <2>0, <2>1, <2>2, <2>3, <2>4
<1> QED
  BY <1>1, <1>2

\* Line 9 takes what is in the slot o.
LEMMA ConsumerTakes ==
  ASSUME MachineInv, NEW p \in Programs, Text(p) = Consumer, Step(p), line[p] = 9,
         NEW n \in Nat \ {0}, NEW c \in Nat, NEW o \in 0 .. (n - 1),
         ConsumerCopy(p, n, c, o), Buf(o) = c + 1
  PROVE  /\ ConsumerCopy(p, n, c + 1, Slot(n, o, 1))' /\ V(p, "argv[1]")' = V(p, "argv[1]")
         /\ V(p, "item")' = c + 1 /\ line'[p] = 10 /\ Keeps
<1>1. waiting[p] = Idle
  BY ConsumerWaits
<1>2. V(p, "k") = o
  BY DEF ConsumerCopy
<1>3. /\ line'[p] = 10 /\ V(p, "item")' = c + 1 /\ V(p, "k")' = V(p, "k")
      /\ V(p, "argv[1]")' = V(p, "argv[1]") /\ Keeps
  BY <1>1, <1>2, ConsumerMoves, PCNames DEF Bound, Binds, V
<1>4. ConsumerCopy(p, n, c + 1, Slot(n, o, 1))'
  BY <1>2, <1>3 DEF ConsumerCopy
<1> QED
  BY <1>3, <1>4

LEMMA ProducerWrites ==
  ASSUME MachineInv, NEW p \in Users(Producer), Text(p) = Producer, Step(p), line[p] # 13,
         \A w \in Users(Producer) : w = p,
         Users(Producer)' = Users(Producer), Users(Consumer)' = Users(Consumer),
         \A r \in Users(Consumer) : line'[r] = line[r],
         NEW n, NEW t, NEW i, NEW o, ProducerCopy(p, n, t, i), Written(i, o)
  PROVE  Written(i, o)'
<1>0. p \in Programs
  BY DEF Users
<1>1. CASE waiting[p] # Idle
  <2>1. line[p] \in {10, 12} /\ waiting[p] \in {<<"free", 0>>, <<"mtx", 0>>}
    BY <1>0, <1>1, ProducerWaits
  <2>2. line'[p] = line[p] /\ G("in")' = G("in") /\ G("out")' = G("out")
    BY <1>0, <2>1, Takes, PCNames DEF Puts
  <2> QED
    BY <2>1, <2>2 DEF Written
<1>2. CASE waiting[p] = Idle /\ line[p] = 16
  <2>1. line'[p] = 17 /\ G("in")' = V(p, "k") /\ G("out")' = G("out")
    BY <1>0, <1>2, ProducerMoves, PCNames DEF Put, Puts
  <2> QED
    BY <1>2, <2>1 DEF Written, ProducerCopy
<1>3. CASE waiting[p] = Idle /\ line[p] \in {14, 15}
  <2>1. line'[p] \in {15, 16} /\ G("out")' = G("out")
    BY <1>0, <1>3, ProducerMoves, PCNames DEF Bound, Keeps
  <2> QED
    BY <2>1 DEF Written
<1>4. CASE waiting[p] = Idle /\ line[p] \notin 13 .. 16
  <2>1. line[p] \in (1 .. 12) \cup (17 .. 20)
    BY <1>0, <1>4, ProducerMoves
  <2>2. G("in")' = G("in") /\ G("out")' = G("out")
    BY <1>0, <1>4, <2>1, ProducerMoves, PCNames DEF Quiet, Bound, Asked, Put, Keeps, Puts
  <2> QED
    BY <1>4, <2>2 DEF Written
<1> QED
  BY <1>1, <1>2, <1>3, <1>4

LEMMA ConsumerWrites ==
  ASSUME MachineInv, NEW p \in Users(Consumer), Text(p) = Consumer, Step(p), line[p] # 9,
         Users(Producer)' = Users(Producer), Users(Consumer)' = Users(Consumer),
         \A w \in Users(Producer) : line'[w] = line[w],
         \A r \in Users(Consumer) : r # p => line'[r] = line[r],
         NEW n, NEW c, NEW i, NEW o, ConsumerCopy(p, n, c, o), Written(i, o)
  PROVE  Written(i, o)'
<1>0. p \in Programs
  BY DEF Users
<1>1. CASE waiting[p] # Idle
  <2>1. line[p] \in {6, 8} /\ waiting[p] \in {<<"full", 0>>, <<"mtx", 0>>}
    BY <1>0, <1>1, ConsumerWaits
  <2>2. line'[p] = line[p] /\ G("in")' = G("in") /\ G("out")' = G("out")
    BY <1>0, <2>1, Takes, PCNames DEF Puts
  <2> QED
    BY <2>1, <2>2 DEF Written
<1>2. CASE waiting[p] = Idle /\ line[p] = 12
  <2>1. line'[p] = 13 /\ G("out")' = V(p, "k") /\ G("in")' = G("in")
    BY <1>0, <1>2, ConsumerMoves, PCNames DEF Put, Puts
  <2> QED
    BY <1>2, <2>1 DEF Written, ConsumerCopy
<1>3. CASE waiting[p] = Idle /\ line[p] \in {10, 11}
  <2>1. line'[p] \in {11, 12} /\ G("in")' = G("in")
    BY <1>0, <1>3, ConsumerMoves, PCNames DEF Bound, Keeps
  <2> QED
    BY <2>1 DEF Written
<1>4. CASE waiting[p] = Idle /\ line[p] \notin 9 .. 12
  <2>1. line[p] \in (1 .. 8) \cup (13 .. 18)
    BY <1>0, <1>4, ConsumerMoves
  <2>2. G("in")' = G("in") /\ G("out")' = G("out")
    BY <1>0, <1>4, <2>1, ConsumerMoves, PCNames DEF Quiet, Bound, Asked, Put, Keeps, Puts
  <2> QED
    BY <1>4, <2>2 DEF Written
<1> QED
  BY <1>1, <1>2, <1>3, <1>4

-----------------------------------------------------------------------------
(***************************************************************************)
(* The slots and items that are claimed.                                   *)
(***************************************************************************)
Moved(S, T, p) ==
  /\ Cardinality(S) \in Nat /\ Cardinality(T) \in Nat
  /\ (p \in S <=> p \in T) => Cardinality(T) = Cardinality(S)
  /\ p \notin S /\ p \in T => Cardinality(T) = Cardinality(S) + 1
  /\ p \in S /\ p \notin T => Cardinality(S) > 0 /\ Cardinality(T) = Cardinality(S) - 1

LEMMA ClaimsMove ==
  ASSUME Users(Producer)' = Users(Producer), Users(Consumer)' = Users(Consumer), NEW p,
         \A q \in Programs : q # p => line'[q] = line[q] /\ waiting'[q] = waiting[q]
  PROVE  /\ Moved(Filling, Filling', p) /\ Moved(Stored, Stored', p)
         /\ Moved(Fetching, Fetching', p) /\ Moved(Emptied, Emptied', p)
<1>1. /\ Filling \subseteq Programs /\ Stored \subseteq Programs
      /\ Fetching \subseteq Programs /\ Emptied \subseteq Programs
  BY DEF Filling, Stored, Fetching, Emptied, Users
<1>2. IsFiniteSet(Filling) /\ IsFiniteSet(Stored) /\ IsFiniteSet(Fetching) /\ IsFiniteSet(Emptied)
  BY <1>1, MachineAssumption, FS_Subset
<1>3. \A q : q \in Users(Producer) \/ q \in Users(Consumer) => q \in Programs
  BY DEF Users
<1>4. \A q : q # p => (q \in Filling' <=> q \in Filling)
  BY <1>3 DEF Filling
<1>5. \A q : q # p => (q \in Stored' <=> q \in Stored)
  BY <1>3 DEF Stored
<1>6. \A q : q # p => (q \in Fetching' <=> q \in Fetching)
  BY <1>3 DEF Fetching
<1>7. \A q : q # p => (q \in Emptied' <=> q \in Emptied)
  BY <1>3 DEF Emptied
<1>8. Moved(Filling, Filling', p)
  BY <1>2, <1>4, OneMoves DEF Moved
<1>9. Moved(Stored, Stored', p)
  BY <1>2, <1>5, OneMoves DEF Moved
<1>10. Moved(Fetching, Fetching', p)
  BY <1>2, <1>6, OneMoves DEF Moved
<1>11. Moved(Emptied, Emptied', p)
  BY <1>2, <1>7, OneMoves DEF Moved
<1> QED
  BY <1>8, <1>9, <1>10, <1>11

LEMMA ProducerCounts ==
  ASSUME MachineInv, NEW p \in Users(Producer), p \notin Users(Consumer),
         Text(p) = Producer, Step(p), line[p] # 13,
         Users(Producer)' = Users(Producer), Users(Consumer)' = Users(Consumer),
         \A q \in Programs : q # p => line'[q] = line[q] /\ waiting'[q] = waiting[q],
         NEW n \in Nat, NEW d \in Nat, Counted(n, d)
  PROVE  Counted(n, d)'
<1>0. p \in Programs
  BY DEF Users
<1>1. /\ Cardinality(Fetching)' = Cardinality(Fetching) /\ Cardinality(Fetching) \in Nat
      /\ Cardinality(Emptied)' = Cardinality(Emptied) /\ Cardinality(Emptied) \in Nat
  <2>1. p \notin Fetching /\ p \notin Fetching' /\ p \notin Emptied /\ p \notin Emptied'
    BY DEF Fetching, Emptied
  <2> QED
    BY <2>1, ClaimsMove DEF Moved
<1>2. /\ Cardinality(Filling) \in Nat /\ Cardinality(Stored) \in Nat
      /\ Cardinality(Filling)' \in Nat /\ Cardinality(Stored)' \in Nat
      /\ (p \in Filling <=> p \in Filling') => Cardinality(Filling)' = Cardinality(Filling)
      /\ p \notin Filling /\ p \in Filling' => Cardinality(Filling)' = Cardinality(Filling) + 1
      /\ (p \in Stored <=> p \in Stored') => Cardinality(Stored)' = Cardinality(Stored)
      /\ p \in Stored /\ p \notin Stored' => Cardinality(Stored)' = Cardinality(Stored) - 1
  BY ClaimsMove DEF Moved
<1>3. ASSUME p \in Filling <=> p \in Filling', p \in Stored <=> p \in Stored',
             G("full")' = G("full"), G("free")' = G("free")
      PROVE  Counted(n, d)'
  BY <1>1, <1>2, <1>3 DEF Counted
<1>4. CASE waiting[p] = <<"free", 0>>
  <2>0. line[p] = 10 /\ waiting[p] # Idle
    <3>1. <<"free", 0>> # <<"mtx", 0>>
      BY DifferentKeys
    <3>2. waiting[p] # Idle
      BY <1>4, PCNames, MachineAssumption
    <3> QED
      BY <1>0, <1>4, <3>1, <3>2, ProducerWaits
  <2>1. /\ line'[p] = 10 /\ waiting'[p] = Idle /\ G("full")' = G("full")
        /\ G("free") > 0 /\ G("free")' = G("free") - 1
    BY <1>0, <1>4, <2>0, Takes, PCNames DEF Puts
  <2>2. p \notin Filling /\ p \in Filling' /\ p \notin Stored /\ p \notin Stored'
    BY <2>0, <2>1 DEF Filling, Stored
  <2> QED
    BY <1>1, <1>2, <2>1, <2>2 DEF Counted
<1>5. CASE waiting[p] = <<"mtx", 0>> /\ waiting[p] # Idle
  <2>0. line[p] = 12
    <3>1. <<"free", 0>> # <<"mtx", 0>>
      BY DifferentKeys
    <3> QED
      BY <1>0, <1>5, <3>1, ProducerWaits
  <2>1. line'[p] = 12 /\ G("full")' = G("full") /\ G("free")' = G("free")
    BY <1>0, <1>5, <2>0, Takes, PCNames DEF Puts
  <2>2. p \in Filling /\ p \in Filling' /\ p \notin Stored /\ p \notin Stored'
    BY <2>0, <2>1 DEF Filling, Stored
  <2> QED
    BY <1>3, <2>1, <2>2
<1>6. CASE waiting[p] = Idle
  <2>0. line[p] \in 1 .. 20
    BY <1>0, <1>6, ProducerMoves
  <2>1. CASE line[p] = 9
    <3>1. line'[p] = 10 /\ waiting'[p] # Idle /\ G("full")' = G("full") /\ G("free")' = G("free")
      BY <1>0, <1>6, <2>1, ProducerMoves, PCNames DEF Asked, Keeps
    <3>2. p \notin Filling /\ p \notin Filling' /\ p \notin Stored /\ p \notin Stored'
      BY <2>1, <3>1 DEF Filling, Stored
    <3> QED
      BY <1>3, <3>1, <3>2
  <2>2. CASE line[p] \in 10 .. 12
    <3>1. line'[p] \in 11 .. 13 /\ G("full")' = G("full") /\ G("free")' = G("free")
      BY <1>0, <1>6, <2>2, ProducerMoves, PCNames DEF Quiet, Bound, Asked, Keeps
    <3>2. p \in Filling /\ p \in Filling' /\ p \notin Stored /\ p \notin Stored'
      BY <1>6, <2>2, <3>1 DEF Filling, Stored
    <3> QED
      BY <1>3, <3>1, <3>2
  <2>3. CASE line[p] \in 14 .. 18
    <3>1. line'[p] \in 15 .. 19 /\ G("full")' = G("full") /\ G("free")' = G("free")
      BY <1>0, <1>6, <2>3, ProducerMoves, PCNames DEF Quiet, Bound, Put, Keeps, Puts
    <3>2. p \notin Filling /\ p \notin Filling' /\ p \in Stored /\ p \in Stored'
      BY <2>3, <3>1 DEF Filling, Stored
    <3> QED
      BY <1>3, <3>1, <3>2
  <2>4. CASE line[p] = 19
    <3>1. line'[p] = 20 /\ G("full")' = G("full") + 1 /\ G("free")' = G("free")
      BY <1>0, <1>6, <2>4, ProducerMoves, PCNames DEF Put, Puts
    <3>2. p \notin Filling /\ p \notin Filling' /\ p \in Stored /\ p \notin Stored'
      BY <2>4, <3>1 DEF Filling, Stored
    <3> QED
      BY <1>1, <1>2, <3>1, <3>2 DEF Counted
  <2>5. CASE line[p] \in (1 .. 8) \cup {20}
    <3>1. line'[p] \in 0 .. 9 /\ G("full")' = G("full") /\ G("free")' = G("free")
      BY <1>0, <1>6, <2>5, ProducerMoves, PCNames DEF Quiet, Bound, Keeps
    <3>2. p \notin Filling /\ p \notin Filling' /\ p \notin Stored /\ p \notin Stored'
      BY <2>5, <3>1 DEF Filling, Stored
    <3> QED
      BY <1>3, <3>1, <3>2
  <2> QED
    BY <2>0, <2>1, <2>2, <2>3, <2>4, <2>5
<1> QED
  BY <1>0, <1>4, <1>5, <1>6, ProducerWaits

\* An item more is in the buffer, and a slot was free for it.
LEMMA ProducerCountsOn ==
  ASSUME NEW p \in Users(Producer), p \notin Users(Consumer), line[p] = 13, line'[p] = 14,
         Users(Producer)' = Users(Producer), Users(Consumer)' = Users(Consumer),
         \A q \in Programs : q # p => line'[q] = line[q] /\ waiting'[q] = waiting[q],
         G("full")' = G("full"), G("free")' = G("free"),
         NEW n \in Nat, NEW d \in Nat, Counted(n, d)
  PROVE  d < n /\ Counted(n, d + 1)'
<1>1. /\ p \notin Fetching /\ p \notin Fetching' /\ p \notin Emptied /\ p \notin Emptied'
      /\ p \in Filling /\ p \notin Filling' /\ p \notin Stored /\ p \in Stored'
  BY DEF Fetching, Emptied, Filling, Stored
<1>2. /\ Cardinality(Fetching)' = Cardinality(Fetching) /\ Cardinality(Fetching) \in Nat
      /\ Cardinality(Emptied)' = Cardinality(Emptied) /\ Cardinality(Emptied) \in Nat
      /\ Cardinality(Filling) \in Nat /\ Cardinality(Stored) \in Nat
      /\ Cardinality(Filling) > 0 /\ Cardinality(Filling)' = Cardinality(Filling) - 1
      /\ Cardinality(Stored)' = Cardinality(Stored) + 1
  BY <1>1, ClaimsMove DEF Moved
<1> QED
  BY <1>2 DEF Counted

LEMMA ConsumerCounts ==
  ASSUME MachineInv, NEW p \in Users(Consumer), p \notin Users(Producer),
         Text(p) = Consumer, Step(p), line[p] # 9,
         Users(Producer)' = Users(Producer), Users(Consumer)' = Users(Consumer),
         \A q \in Programs : q # p => line'[q] = line[q] /\ waiting'[q] = waiting[q],
         NEW n \in Nat, NEW d \in Nat, Counted(n, d)
  PROVE  Counted(n, d)'
<1>0. p \in Programs
  BY DEF Users
<1>1. /\ Cardinality(Filling)' = Cardinality(Filling) /\ Cardinality(Filling) \in Nat
      /\ Cardinality(Stored)' = Cardinality(Stored) /\ Cardinality(Stored) \in Nat
  <2>1. p \notin Filling /\ p \notin Filling' /\ p \notin Stored /\ p \notin Stored'
    BY DEF Filling, Stored
  <2> QED
    BY <2>1, ClaimsMove DEF Moved
<1>2. /\ Cardinality(Fetching) \in Nat /\ Cardinality(Emptied) \in Nat
      /\ Cardinality(Fetching)' \in Nat /\ Cardinality(Emptied)' \in Nat
      /\ (p \in Fetching <=> p \in Fetching') => Cardinality(Fetching)' = Cardinality(Fetching)
      /\ p \notin Fetching /\ p \in Fetching' => Cardinality(Fetching)' = Cardinality(Fetching) + 1
      /\ (p \in Emptied <=> p \in Emptied') => Cardinality(Emptied)' = Cardinality(Emptied)
      /\ p \in Emptied /\ p \notin Emptied' => Cardinality(Emptied)' = Cardinality(Emptied) - 1
  BY ClaimsMove DEF Moved
<1>3. ASSUME p \in Fetching <=> p \in Fetching', p \in Emptied <=> p \in Emptied',
             G("full")' = G("full"), G("free")' = G("free")
      PROVE  Counted(n, d)'
  BY <1>1, <1>2, <1>3 DEF Counted
<1>4. CASE waiting[p] = <<"full", 0>>
  <2>0. line[p] = 6 /\ waiting[p] # Idle
    <3>1. <<"full", 0>> # <<"mtx", 0>>
      BY DifferentKeys
    <3>2. waiting[p] # Idle
      BY <1>4, PCNames, MachineAssumption
    <3> QED
      BY <1>0, <1>4, <3>1, <3>2, ConsumerWaits
  <2>1. /\ line'[p] = 6 /\ waiting'[p] = Idle /\ G("free")' = G("free")
        /\ G("full") > 0 /\ G("full")' = G("full") - 1
    BY <1>0, <1>4, <2>0, Takes, PCNames DEF Puts
  <2>2. p \notin Fetching /\ p \in Fetching' /\ p \notin Emptied /\ p \notin Emptied'
    BY <2>0, <2>1 DEF Fetching, Emptied
  <2> QED
    BY <1>1, <1>2, <2>1, <2>2 DEF Counted
<1>5. CASE waiting[p] = <<"mtx", 0>> /\ waiting[p] # Idle
  <2>0. line[p] = 8
    <3>1. <<"full", 0>> # <<"mtx", 0>>
      BY DifferentKeys
    <3> QED
      BY <1>0, <1>5, <3>1, ConsumerWaits
  <2>1. line'[p] = 8 /\ G("full")' = G("full") /\ G("free")' = G("free")
    BY <1>0, <1>5, <2>0, Takes, PCNames DEF Puts
  <2>2. p \in Fetching /\ p \in Fetching' /\ p \notin Emptied /\ p \notin Emptied'
    BY <2>0, <2>1 DEF Fetching, Emptied
  <2> QED
    BY <1>3, <2>1, <2>2
<1>6. CASE waiting[p] = Idle
  <2>0. line[p] \in 1 .. 18
    BY <1>0, <1>6, ConsumerMoves
  <2>1. CASE line[p] = 5
    <3>1. line'[p] = 6 /\ waiting'[p] # Idle /\ G("full")' = G("full") /\ G("free")' = G("free")
      BY <1>0, <1>6, <2>1, ConsumerMoves, PCNames DEF Asked, Keeps
    <3>2. p \notin Fetching /\ p \notin Fetching' /\ p \notin Emptied /\ p \notin Emptied'
      BY <2>1, <3>1 DEF Fetching, Emptied
    <3> QED
      BY <1>3, <3>1, <3>2
  <2>2. CASE line[p] \in 6 .. 8
    <3>1. line'[p] \in 7 .. 9 /\ G("full")' = G("full") /\ G("free")' = G("free")
      BY <1>0, <1>6, <2>2, ConsumerMoves, PCNames DEF Quiet, Bound, Asked, Keeps
    <3>2. p \in Fetching /\ p \in Fetching' /\ p \notin Emptied /\ p \notin Emptied'
      BY <1>6, <2>2, <3>1 DEF Fetching, Emptied
    <3> QED
      BY <1>3, <3>1, <3>2
  <2>3. CASE line[p] \in 10 .. 14
    <3>1. line'[p] \in 11 .. 15 /\ G("full")' = G("full") /\ G("free")' = G("free")
      BY <1>0, <1>6, <2>3, ConsumerMoves, PCNames DEF Quiet, Bound, Put, Keeps, Puts
    <3>2. p \notin Fetching /\ p \notin Fetching' /\ p \in Emptied /\ p \in Emptied'
      BY <2>3, <3>1 DEF Fetching, Emptied
    <3> QED
      BY <1>3, <3>1, <3>2
  <2>4. CASE line[p] = 15
    <3>1. line'[p] = 16 /\ G("free")' = G("free") + 1 /\ G("full")' = G("full")
      BY <1>0, <1>6, <2>4, ConsumerMoves, PCNames DEF Put, Puts
    <3>2. p \notin Fetching /\ p \notin Fetching' /\ p \in Emptied /\ p \notin Emptied'
      BY <2>4, <3>1 DEF Fetching, Emptied
    <3> QED
      BY <1>1, <1>2, <3>1, <3>2 DEF Counted
  <2>5. CASE line[p] \in (1 .. 4) \cup (16 .. 18)
    <3>1. /\ line'[p] \in (0 .. 5) \cup (17 .. 18)
          /\ G("full")' = G("full") /\ G("free")' = G("free")
      BY <1>0, <1>6, <2>5, ConsumerMoves, PCNames DEF Quiet, Keeps
    <3>2. p \notin Fetching /\ p \notin Fetching' /\ p \notin Emptied /\ p \notin Emptied'
      BY <2>5, <3>1 DEF Fetching, Emptied
    <3> QED
      BY <1>3, <3>1, <3>2
  <2> QED
    BY <2>0, <2>1, <2>2, <2>3, <2>4, <2>5
<1> QED
  BY <1>0, <1>4, <1>5, <1>6, ConsumerWaits

\* An item less is in the buffer, and there was one.
LEMMA ConsumerCountsDown ==
  ASSUME NEW p \in Users(Consumer), p \notin Users(Producer), line[p] = 9, line'[p] = 10,
         Users(Producer)' = Users(Producer), Users(Consumer)' = Users(Consumer),
         \A q \in Programs : q # p => line'[q] = line[q] /\ waiting'[q] = waiting[q],
         G("full")' = G("full"), G("free")' = G("free"),
         NEW n \in Nat, NEW d \in Nat, Counted(n, d)
  PROVE  d > 0 /\ Counted(n, d - 1)'
<1>1. /\ p \notin Filling /\ p \notin Filling' /\ p \notin Stored /\ p \notin Stored'
      /\ p \in Fetching /\ p \notin Fetching' /\ p \notin Emptied /\ p \in Emptied'
  BY DEF Fetching, Emptied, Filling, Stored
<1>2. /\ Cardinality(Filling)' = Cardinality(Filling) /\ Cardinality(Filling) \in Nat
      /\ Cardinality(Stored)' = Cardinality(Stored) /\ Cardinality(Stored) \in Nat
      /\ Cardinality(Fetching) \in Nat /\ Cardinality(Emptied) \in Nat
      /\ Cardinality(Fetching) > 0 /\ Cardinality(Fetching)' = Cardinality(Fetching) - 1
      /\ Cardinality(Emptied)' = Cardinality(Emptied) + 1
  BY <1>1, ClaimsMove DEF Moved
<1> QED
  BY <1>2 DEF Counted

-----------------------------------------------------------------------------
(***************************************************************************)
(* The steps.                                                              *)
(***************************************************************************)
\* the types in an invariant that holds
LEMMA BufferTypes ==
  ASSUME NEW n, NEW t, NEW c, NEW i, NEW o, BufferAt(n, t, c, i, o)
  PROVE  /\ n \in Nat \ {0} /\ n \in Nat /\ 0 .. (n - 1) \subseteq Indices
         /\ t \in Nat /\ c \in Nat /\ c <= t /\ t - c \in Nat
         /\ i \in 0 .. (n - 1) /\ i \in Indices /\ o \in 0 .. (n - 1)
BY DEF BufferAt, Sizes, Ring

LEMMA ProducerBuffer ==
  ASSUME MachineInv, Users(Consumer) # {}, NEW n, NEW t, NEW c, NEW i, NEW o,
         BufferAt(n, t, c, i, o), NEW p \in Programs, Text(p) = Producer, Step(p)
  PROVE  \/ BufferAt(n, t, c, i, o)'
         \/ line[p] = 13 /\ BufferAt(n, t + 1, c, Slot(n, i, 1), o)'
<1>1. /\ p \in Users(Producer) /\ p \notin Users(Consumer) /\ p \notin Users(InitPC)
      /\ \A w \in Users(Producer) : w = p
  <2>1. p \in Users(Producer)
    BY DEF Users, Executing
  <2> QED
    BY <2>1, PCUsers
<1>2. /\ Users(Producer)' = Users(Producer) /\ Users(Consumer)' = Users(Consumer)
      /\ Users(InitPC)' = Users(InitPC)
      /\ \A q \in Programs : q # p => line'[q] = line[q] /\ waiting'[q] = waiting[q]
      /\ \A q \in Programs : q # p => \A x : V(q, x)' = V(q, x)
  BY StepFrame
<1>3. \A q \in Users(Consumer) \cup Users(InitPC) : q \in Programs /\ q # p
  BY <1>1 DEF Users
<1>4. \A q \in Users(InitPC) : line'[q] = 0
  <2>1. waiting[p] = Idle \/ line[p] \notin {0, 1}
    BY ProducerWaits
  <2>2. \A q \in Users(InitPC) \ {p} : line[q] = 0
    BY <2>1, InitHasEnded
  <2> QED
    BY <1>2, <1>3, <2>2
<1>5. /\ n \in Nat \ {0} /\ n \in Nat /\ 0 .. (n - 1) \subseteq Indices
      /\ t \in Nat /\ c \in Nat /\ c <= t /\ t - c \in Nat
      /\ i \in 0 .. (n - 1) /\ i \in Indices /\ o \in 0 .. (n - 1)
  BY BufferTypes
<1>6. /\ Sizes(n) /\ Ring(n, t, c, i, o) /\ ProducerCopy(p, n, t, i)
      /\ Written(i, o) /\ Counted(n, t - c) /\ V(p, "argv[1]") = n
      /\ \A r \in Users(Consumer) : ConsumerCopy(r, n, c, o)
      /\ \A r \in Users(Consumer) : Users(Consumer) = {r} => V(r, "item") = c
  BY <1>1 DEF BufferAt, Sizes
<1>7. \A r \in Users(Consumer) : ConsumerCopy(r, n, c, o)'
  BY <1>2, <1>3, <1>6 DEF ConsumerCopy
<1>8. \A r \in Users(Consumer)' : Users(Consumer)' = {r} => V(r, "item")' = c
  BY <1>2, <1>3, <1>6
<1>9. ASSUME V(p, "argv[1]")' = n PROVE Sizes(n)'
  <2>1. \A q \in Users(InitPC) \cup Users(Producer) \cup Users(Consumer) : V(q, "argv[1]")' = n
    BY <1>1, <1>2, <1>3, <1>6, <1>9 DEF Sizes
  <2> QED
    BY <1>2, <1>5, <2>1 DEF Sizes
<1>10. CASE line[p] # 13
  <2>1. line[p] = 12 => G("in") = i
    BY <1>1, <1>6 DEF Written
  <2>2. ProducerCopy(p, n, t, i)' /\ V(p, "argv[1]")' = n
    BY <1>5, <1>6, <1>10, <2>1, ProducerCopies
  <2>3. Unfilled
    BY <1>10, ProducerUnfilled
  <2>4. Ring(n, t, c, i, o)'
    BY <1>5, <1>6, <2>3, RingKept
  <2>5. \A r \in Users(Consumer) : line'[r] = line[r]
    BY <1>2, <1>3
  <2>6. Written(i, o)'
    BY <1>1, <1>2, <1>6, <1>10, <2>5, ProducerWrites
  <2>7. Counted(n, t - c)'
    BY <1>1, <1>2, <1>5, <1>6, <1>10, ProducerCounts
  <2>8. Prepared(t, c, i, o)'
    BY <1>2, <1>4 DEF Prepared
  <2>9. \A w \in Users(Producer)' : ProducerCopy(w, n, t, i)'
    BY <1>1, <1>2, <2>2
  <2>10. BufferAt(n, t, c, i, o)'
    BY <1>2, <1>7, <1>8, <1>9, <2>2, <2>4, <2>6, <2>7, <2>8, <2>9 DEF BufferAt
  <2> QED
    BY <2>10
<1>11. CASE line[p] = 13
  <2> DEFINE j == Slot(n, i, 1)
  <2>1. /\ ProducerCopy(p, n, t + 1, j)' /\ V(p, "argv[1]")' = V(p, "argv[1]")
        /\ \A x \in Indices : Buf(x)' = IF x = i THEN t + 1 ELSE Buf(x)
        /\ line'[p] = 14 /\ \A g \in Keys \ {"buf"} : G(g)' = G(g)
    BY <1>5, <1>6, <1>11, ProducerStores
  <2>2. G("in")' = G("in") /\ G("out")' = G("out") /\ G("full")' = G("full") /\ G("free")' = G("free")
    BY <2>1, PCNames
  <2>3. t - c < n /\ Counted(n, t - c + 1)'
    BY <1>1, <1>2, <1>5, <1>6, <1>11, <2>1, <2>2, ProducerCountsOn
  <2>4. Ring(n, t + 1, c, j, o)'
    BY <1>5, <1>6, <2>1, <2>3, RingStore
  <2> HIDE DEF j
  <2>5. Written(j, o)'
    <3>1. \A r \in Users(Consumer) : line'[r] = line[r]
      BY <1>2, <1>3
    <3> QED
      BY <1>1, <1>2, <1>6, <2>1, <2>2, <3>1 DEF Written
  <2>6. (t + 1) - c = t - c + 1
    BY <1>5
  <2>7. Counted(n, (t + 1) - c)'
    BY <2>3, <2>6
  <2>8. Prepared(t + 1, c, j, o)'
    BY <1>2, <1>4 DEF Prepared
  <2>9. \A w \in Users(Producer)' : ProducerCopy(w, n, t + 1, j)'
    BY <1>1, <1>2, <2>1
  <2>10. Sizes(n)'
    BY <1>6, <1>9, <2>1
  <2>11. BufferAt(n, t + 1, c, j, o)'
    BY <1>2, <1>7, <1>8, <2>4, <2>5, <2>7, <2>8, <2>9, <2>10 DEF BufferAt
  <2> QED
    BY <1>11, <2>11 DEF j
<1> QED
  BY <1>10, <1>11

\* A step of a consumer, and the item it gets.
LEMMA ConsumerBuffer ==
  ASSUME MachineInv, Users(Consumer) # {}, PCLockInv, NEW n, NEW t, NEW c, NEW i, NEW o,
         BufferAt(n, t, c, i, o), NEW p \in Programs, Text(p) = Consumer, Step(p)
  PROVE  \/ V(p, "item")' = V(p, "item") /\ BufferAt(n, t, c, i, o)'
         \/ V(p, "item")' = c + 1 /\ BufferAt(n, t, c + 1, i, Slot(n, o, 1))'
<1>1. p \in Users(Consumer) /\ p \notin Users(Producer) /\ p \notin Users(InitPC)
  <2>1. p \in Users(Consumer)
    BY DEF Users, Executing
  <2> QED
    BY <2>1, PCUsers
<1>2. /\ Users(Producer)' = Users(Producer) /\ Users(Consumer)' = Users(Consumer)
      /\ Users(InitPC)' = Users(InitPC)
      /\ \A q \in Programs : q # p => line'[q] = line[q] /\ waiting'[q] = waiting[q]
      /\ \A q \in Programs : q # p => \A x : V(q, x)' = V(q, x)
  BY StepFrame
<1>3. /\ \A q \in Users(Producer) \cup Users(InitPC) : q \in Programs /\ q # p
      /\ \A q \in Users(Consumer) : q \in Programs
  BY <1>1 DEF Users
<1>4. \A q \in Users(InitPC) : line'[q] = 0
  <2>1. waiting[p] = Idle \/ line[p] \notin {0, 1}
    BY ConsumerWaits
  <2>2. \A q \in Users(InitPC) \ {p} : line[q] = 0
    BY <2>1, InitHasEnded
  <2> QED
    BY <1>2, <1>3, <2>2
<1>5. /\ n \in Nat \ {0} /\ n \in Nat /\ 0 .. (n - 1) \subseteq Indices
      /\ t \in Nat /\ c \in Nat /\ c <= t /\ t - c \in Nat
      /\ i \in 0 .. (n - 1) /\ o \in 0 .. (n - 1)
  BY BufferTypes
<1>6. /\ Sizes(n) /\ Ring(n, t, c, i, o) /\ ConsumerCopy(p, n, c, o)
      /\ Written(i, o) /\ Counted(n, t - c) /\ V(p, "argv[1]") = n
      /\ \A w \in Users(Producer) : ProducerCopy(w, n, t, i)
      /\ \A r \in Users(Consumer) : ConsumerCopy(r, n, c, o)
      /\ \A r \in Users(Consumer) : Users(Consumer) = {r} => V(r, "item") = c
  BY <1>1 DEF BufferAt, Sizes
<1>7. \A w \in Users(Producer) : ProducerCopy(w, n, t, i)'
  BY <1>2, <1>3, <1>6 DEF ProducerCopy
<1>8. Unfilled
  BY ConsumerUnfilled
<1>9. ASSUME V(p, "argv[1]")' = n PROVE Sizes(n)'
  <2>1. \A q \in Users(InitPC) \cup Users(Producer) \cup Users(Consumer) : V(q, "argv[1]")' = n
    BY <1>2, <1>3, <1>6, <1>9 DEF Sizes
  <2> QED
    BY <1>2, <1>5, <2>1 DEF Sizes
<1>10. \A w \in Users(Producer) : line'[w] = line[w]
  BY <1>2, <1>3
<1>11. CASE line[p] # 9
  <2>1. line[p] = 8 /\ waiting[p] = Idle => G("out") = o
    <3>1. \A r \in Users(Consumer) : line[p] = 8 /\ waiting[p] = Idle => line[r] \notin 10 .. 12
      BY <1>1 DEF PCLockInv, ConsumerIn
    <3> QED
      BY <1>6, <3>1 DEF Written
  <2>2. ConsumerCopy(p, n, c, o)' /\ V(p, "argv[1]")' = n /\ V(p, "item")' = V(p, "item")
    BY <1>5, <1>6, <1>11, <2>1, ConsumerCopies
  <2>3. Ring(n, t, c, i, o)'
    BY <1>5, <1>6, <1>8, RingKept
  <2>4. Written(i, o)'
    BY <1>1, <1>2, <1>3, <1>6, <1>10, <1>11, ConsumerWrites
  <2>5. Counted(n, t - c)'
    BY <1>1, <1>2, <1>5, <1>6, <1>11, ConsumerCounts
  <2>6. Prepared(t, c, i, o)'
    BY <1>2, <1>4 DEF Prepared
  <2>7. \A r \in Users(Consumer)' : ConsumerCopy(r, n, c, o)'
    <3>1. \A r \in Users(Consumer) : r # p => ConsumerCopy(r, n, c, o)'
      BY <1>2, <1>3, <1>6 DEF ConsumerCopy
    <3> QED
      BY <1>2, <2>2, <3>1
  <2>8. \A r \in Users(Consumer)' : Users(Consumer)' = {r} => V(r, "item")' = c
    BY <1>1, <1>2, <1>6, <2>2
  <2>9. BufferAt(n, t, c, i, o)'
    BY <1>2, <1>7, <1>9, <2>2, <2>3, <2>4, <2>5, <2>6, <2>7, <2>8 DEF BufferAt
  <2> QED
    BY <2>2, <2>9
<1>12. CASE line[p] = 9
  <2> DEFINE s == Slot(n, o, 1)
  <2>1. waiting[p] = Idle
    BY <1>12, ConsumerWaits
  <2>2. line'[p] = 10 /\ Keeps
    BY <1>12, <2>1, ConsumerMoves DEF Bound
  <2>3. G("in")' = G("in") /\ G("full")' = G("full") /\ G("free")' = G("free")
    BY <2>2, PCNames DEF Keeps
  <2>4. t - c > 0 /\ Counted(n, t - c - 1)'
    BY <1>1, <1>2, <1>5, <1>6, <1>12, <2>2, <2>3, ConsumerCountsDown
  <2>5. c < t /\ t - (c + 1) = t - c - 1
    BY <1>5, <2>4
  <2>6. Buf(o) = c + 1 /\ Ring(n, t, c + 1, i, s)'
    BY <1>5, <1>6, <1>8, <2>5, RingTake
  <2>7. /\ ConsumerCopy(p, n, c + 1, s)' /\ V(p, "argv[1]")' = V(p, "argv[1]")
        /\ V(p, "item")' = c + 1
    BY <1>5, <1>6, <1>12, <2>6, ConsumerTakes
  <2> HIDE DEF s
  <2>8. \A r \in Users(Consumer)' : ConsumerCopy(r, n, c + 1, s)'
    <3>1. \A r \in Users(Consumer) : r # p => line[r] \notin 9 .. 12
      BY <1>1, <1>12 DEF PCLockInv, ConsumerIn
    <3>2. \A r \in Users(Consumer) : r # p => ConsumerCopy(r, n, c + 1, s)'
      BY <1>2, <1>3, <1>5, <1>6, <3>1 DEF ConsumerCopy
    <3> QED
      BY <1>2, <2>7, <3>2
  <2>9. \A r \in Users(Consumer)' : Users(Consumer)' = {r} => V(r, "item")' = c + 1
    BY <1>1, <1>2, <2>7
  <2>10. Written(i, s)'
    BY <1>1, <1>2, <1>6, <1>10, <2>2, <2>3 DEF Written
  <2>11. Counted(n, t - (c + 1))'
    BY <2>4, <2>5
  <2>12. Prepared(t, c + 1, i, s)'
    BY <1>2, <1>4 DEF Prepared
  <2>13. Sizes(n)'
    BY <1>6, <1>9, <2>7
  <2>14. BufferAt(n, t, c + 1, i, s)'
    BY <1>2, <1>7, <2>6, <2>8, <2>9, <2>10, <2>11, <2>12, <2>13 DEF BufferAt
  <2> QED
    BY <2>7, <2>14 DEF s
<1> QED
  BY <1>11, <1>12

LEMMA InitPCBuffer ==
  ASSUME MachineInv, Users(Consumer) # {}, NEW n, NEW t, NEW c, NEW i, NEW o,
         BufferAt(n, t, c, i, o), NEW p \in Programs, Text(p) = InitPC, Step(p)
  PROVE  BufferAt(n, t, c, i, o)'
<1>1. p \in Users(InitPC) /\ p \notin Users(Producer) /\ p \notin Users(Consumer)
  <2>1. p \in Users(InitPC)
    BY DEF Users, Executing
  <2> QED
    BY <2>1, PCUsers
<1>2. /\ Users(Producer)' = Users(Producer) /\ Users(Consumer)' = Users(Consumer)
      /\ Users(InitPC)' = Users(InitPC)
      /\ \A q \in Programs : q # p => line'[q] = line[q] /\ waiting'[q] = waiting[q]
      /\ \A q \in Programs : q # p => \A x : V(q, x)' = V(q, x)
  BY StepFrame
<1>3. \A q \in Users(Producer) \cup Users(Consumer) : q \in Programs /\ q # p
  BY <1>1 DEF Users
<1>4. /\ line[p] # 0 /\ Own(p)
      /\ G("in")' \in {G("in"), 0} /\ G("out")' \in {G("out"), 0}
      /\ G("full")' \in {G("full"), 0} /\ G("free")' \in {G("free"), V(p, "argv[1]")}
  BY InitPCStep
<1>5. /\ n \in Nat \ {0} /\ n \in Nat /\ 0 .. (n - 1) \subseteq Indices
  BY BufferTypes
<1>6. /\ t = 0 /\ c = 0 /\ i = 0 /\ o = 0
      /\ \A q \in Users(Producer) \cup Users(Consumer) : line[q] = 1
  BY <1>1, <1>4 DEF BufferAt, Prepared
<1>7. /\ Sizes(n) /\ Ring(n, t, c, i, o) /\ Written(i, o) /\ Counted(n, t - c) /\ V(p, "argv[1]") = n
      /\ \A w \in Users(Producer) : ProducerCopy(w, n, t, i)
      /\ \A r \in Users(Consumer) : ConsumerCopy(r, n, c, o)
      /\ \A r \in Users(Consumer) : Users(Consumer) = {r} => V(r, "item") = c
  BY <1>1 DEF BufferAt, Sizes
<1>8. \A q \in Users(Producer) \cup Users(Consumer) :
        line'[q] = 1 /\ \A x : V(q, x)' = V(q, x)
  BY <1>2, <1>3, <1>6
<1>9. /\ \A w \in Users(Producer)' : ProducerCopy(w, n, t, i)'
      /\ \A r \in Users(Consumer)' : ConsumerCopy(r, n, c, o)'
      /\ \A r \in Users(Consumer)' : Users(Consumer)' = {r} => V(r, "item")' = c
  <2>1. \A w \in Users(Producer) : ProducerCopy(w, n, t, i)'
    BY <1>6, <1>8 DEF ProducerCopy
  <2>2. \A r \in Users(Consumer) : ConsumerCopy(r, n, c, o)'
    BY <1>7, <1>8 DEF ConsumerCopy
  <2> QED
    BY <1>2, <1>7, <1>8, <2>1, <2>2
<1>10. Ring(n, t, c, i, o)'
  BY <1>5, <1>7, InitPCUnfilled, RingKept
<1>11. Written(i, o)'
  <2>1. G("in") = 0 /\ G("out") = 0
    BY <1>6, <1>7 DEF Written
  <2> QED
    BY <1>4, <1>6, <2>1 DEF Written
<1>12. Counted(n, t - c)'
  <2>1. Filling' = {} /\ Stored' = {} /\ Fetching' = {} /\ Emptied' = {}
    BY <1>2, <1>8 DEF Filling, Stored, Fetching, Emptied
  <2>2. /\ Cardinality(Filling)' = 0 /\ Cardinality(Stored)' = 0
        /\ Cardinality(Fetching)' = 0 /\ Cardinality(Emptied)' = 0
    BY <2>1, FS_EmptySet
  <2>3. /\ Cardinality(Filling) \in Nat /\ Cardinality(Stored) \in Nat
        /\ Cardinality(Fetching) \in Nat /\ Cardinality(Emptied) \in Nat
    BY <1>2, ClaimsMove DEF Moved
  <2>4. G("full") = 0 /\ G("free") \in 0 .. n
    BY <1>5, <1>6, <1>7, <2>3 DEF Counted
  <2> QED
    BY <1>4, <1>5, <1>6, <1>7, <2>2, <2>4 DEF Counted
<1>13. Prepared(t, c, i, o)'
  BY <1>2, <1>6, <1>8 DEF Prepared
<1>14. Sizes(n)'
  <2>1. \A q \in Users(InitPC) \cup Users(Producer) \cup Users(Consumer) : V(q, "argv[1]")' = n
    <3>1. \A q \in Programs : V(q, "argv[1]")' = V(q, "argv[1]")
      BY <1>2, <1>4 DEF Own, V
    <3>2. \A q \in Users(InitPC) \cup Users(Producer) \cup Users(Consumer) : q \in Programs
      BY DEF Users
    <3> QED
      BY <1>7, <3>1, <3>2 DEF Sizes
  <2> QED
    BY <1>2, <1>5, <2>1 DEF Sizes
<1> QED
  BY <1>9, <1>10, <1>11, <1>12, <1>13, <1>14 DEF BufferAt

\* a step that neither the globals nor the programs of the buffer see
LEMMA BufferKept ==
  ASSUME NEW n, NEW t, NEW c, NEW i, NEW o, BufferAt(n, t, c, i, o),
         Users(Producer)' = Users(Producer), Users(Consumer)' = Users(Consumer),
         Users(InitPC)' = Users(InitPC), Unfilled,
         \A q \in Users(InitPC) \cup Users(Producer) \cup Users(Consumer) :
           line'[q] = line[q] /\ waiting'[q] = waiting[q] /\ \A x : V(q, x)' = V(q, x),
         G("in")' = G("in"), G("out")' = G("out"), G("full")' = G("full"), G("free")' = G("free")
  PROVE  BufferAt(n, t, c, i, o)'
<1>1. /\ n \in Nat \ {0} /\ 0 .. (n - 1) \subseteq Indices
  BY BufferTypes
<1>2. /\ Sizes(n) /\ Ring(n, t, c, i, o) /\ Written(i, o) /\ Counted(n, t - c)
      /\ Prepared(t, c, i, o)
      /\ \A w \in Users(Producer) : ProducerCopy(w, n, t, i)
      /\ \A r \in Users(Consumer) : ConsumerCopy(r, n, c, o)
      /\ \A r \in Users(Consumer) : Users(Consumer) = {r} => V(r, "item") = c
  BY DEF BufferAt
<1>3. Ring(n, t, c, i, o)'
  BY <1>1, <1>2, RingKept
<1>4. \A w \in Users(Producer)' : ProducerCopy(w, n, t, i)'
  <2>1. \A w \in Users(Producer) : ProducerCopy(w, n, t, i)'
    BY <1>2 DEF ProducerCopy
  <2> QED
    BY <2>1
<1>5. \A r \in Users(Consumer)' : ConsumerCopy(r, n, c, o)'
  <2>1. \A r \in Users(Consumer) : ConsumerCopy(r, n, c, o)'
    BY <1>2 DEF ConsumerCopy
  <2> QED
    BY <2>1
<1>6. \A r \in Users(Consumer)' : Users(Consumer)' = {r} => V(r, "item")' = c
  BY <1>2
<1>7. Written(i, o)'
  BY <1>2 DEF Written
<1>8. Counted(n, t - c)'
  <2>1. Filling' = Filling /\ Stored' = Stored /\ Fetching' = Fetching /\ Emptied' = Emptied
    BY DEF Filling, Stored, Fetching, Emptied
  <2> QED
    BY <1>2, <2>1 DEF Counted
<1>9. Prepared(t, c, i, o)'
  BY <1>2 DEF Prepared
<1>10. Sizes(n)'
  BY <1>2 DEF Sizes
<1> QED
  BY <1>3, <1>4, <1>5, <1>6, <1>7, <1>8, <1>9, <1>10 DEF BufferAt

\* Any step keeps the invariant, and gives a consumer the next item if any.
LEMMA NextBuffer ==
  ASSUME MachineInv, Users(Consumer) # {}, PCLockInv, NEW n, NEW t, NEW c, NEW i, NEW o,
         BufferAt(n, t, c, i, o), NEW p \in Programs, Step(p)
  PROVE  /\ PCLockInv'
         /\ \/ BufferAt(n, t, c, i, o)'
            \/ Text(p) = Producer /\ line[p] = 13 /\ BufferAt(n, t + 1, c, Slot(n, i, 1), o)'
            \/ BufferAt(n, t, c + 1, i, Slot(n, o, 1))'
         /\ \A r \in Users(Consumer) : V(r, "item")' \in {V(r, "item"), c + 1}
<1>1. PCLockInv'
  BY NextPCLock
<1>2. /\ \A t_1 : Users(t_1)' = Users(t_1)
      /\ \A q \in Programs : q # p => line'[q] = line[q] /\ waiting'[q] = waiting[q]
      /\ \A q \in Programs : q # p => \A x : V(q, x)' = V(q, x)
  BY StepFrame
<1>3. /\ \A q \in Users(Consumer) : q \in Programs
      /\ \A q \in Users(InitPC) \cup Users(Producer) \cup Users(Consumer) : q \in Programs
  BY DEF Users
<1>4. ASSUME p \notin Users(Consumer)
      PROVE  \A r \in Users(Consumer) : V(r, "item")' \in {V(r, "item"), c + 1}
  BY <1>2, <1>3, <1>4
<1>5. CASE Text(p) = InitPC /\ p \notin Users(Consumer)
  BY <1>1, <1>4, <1>5, InitPCBuffer
<1>6. CASE Text(p) = Producer /\ p \notin Users(Consumer)
  BY <1>1, <1>4, <1>6, ProducerBuffer
<1>7. CASE Text(p) = Consumer
  <2>1. \/ V(p, "item")' = V(p, "item") /\ BufferAt(n, t, c, i, o)'
        \/ V(p, "item")' = c + 1 /\ BufferAt(n, t, c + 1, i, Slot(n, o, 1))'
    BY <1>7, ConsumerBuffer
  <2>2. \A r \in Users(Consumer) : V(r, "item")' \in {V(r, "item"), c + 1}
    BY <1>2, <1>3, <2>1
  <2> QED
    BY <1>1, <2>1, <2>2
<1>8. CASE /\ LeavesAlone(Text(p), PCKeys)
           /\ p \notin Users(InitPC) /\ p \notin Users(Producer) /\ p \notin Users(Consumer)
  <2>1. /\ G("in")' = G("in") /\ G("out")' = G("out")
        /\ G("full")' = G("full") /\ G("free")' = G("free")
    BY <1>8, PCNames, Elsewhere DEF PCKeys
  <2>2. Unfilled
    BY <1>8, PCNames, ElementsElsewhere DEF PCKeys, Unfilled, Buf
  <2>3. \A q \in Users(InitPC) \cup Users(Producer) \cup Users(Consumer) :
          line'[q] = line[q] /\ waiting'[q] = waiting[q] /\ \A x : V(q, x)' = V(q, x)
    BY <1>2, <1>3, <1>8
  <2>4. BufferAt(n, t, c, i, o)'
    BY <1>2, <2>1, <2>2, <2>3, BufferKept
  <2> QED
    BY <1>1, <1>4, <1>8, <2>4
<1> QED
  BY <1>5, <1>6, <1>7, <1>8, PCUsers

LEMMA InitBuffer == Init => BufferInv
<1> SUFFICES ASSUME Init PROVE BufferInv
  OBVIOUS
<1>0. MachineInv /\ extent \in [Keys -> Nat]
  BY InitMachine, MachineAssumption DEF Init
<1> SUFFICES ASSUME Users(Consumer) # {}
             PROVE  PCLockInv /\ \E n, t, c, i, o : BufferAt(n, t, c, i, o) /\ Room(n, t, c, i, o)
  BY <1>0 DEF BufferInv
<1>1. /\ \A k \in Keys : G(k) = 0
      /\ \A q \in Programs : line[q] \in {0, 1}
  BY InitGlobals
<1>2. \A q \in Users(InitPC) \cup Users(Producer) \cup Users(Consumer) : q \in Programs
  BY DEF Users
<1>3. G("mtx") = 0 /\ G("in") = 0 /\ G("out") = 0 /\ G("full") = 0 /\ G("free") = 0
  BY <1>1, PCNames
<1>4. \A q \in Users(InitPC) \cup Users(Producer) \cup Users(Consumer) : line[q] = 1
  <2>1. \A q \in Programs : Text(q) # <<>> => line[q] = 1
    BY DEF Init
  <2>2. InitPC # <<>> /\ Producer # <<>> /\ Consumer # <<>>
    BY DEF InitPC, Producer, Consumer
  <2> QED
    BY <2>1, <2>2 DEF Users, Executing
<1>5. PCLockInv
  BY <1>3, <1>4 DEF PCLockInv, ProducerIn, ConsumerIn
<1>6. Plays(scenario, Consumer) # {} /\ scenario \in Scenarios
  BY <1>0 DEF Users, Executing, Plays, Text, MachineInv
<1>7. PICK last \in Indices \cap Nat :
        /\ 0 .. last \subseteq Indices
        /\ \A p \in Plays(scenario, InitPC) \cup Plays(scenario, Producer) \cup Plays(scenario, Consumer) :
             /\ "argv[1]" \in DOMAIN Given(scenario, p) /\ Given(scenario, p)["argv[1]"] = last + 1
             /\ "item" \notin DOMAIN Given(scenario, p)
  BY <1>6, BufferAssumption
<1>8. \A q \in Users(InitPC) \cup Users(Producer) \cup Users(Consumer) :
        V(q, "argv[1]") = last + 1 /\ V(q, "item") = 0
  <2> SUFFICES ASSUME NEW q \in Users(InitPC) \cup Users(Producer) \cup Users(Consumer)
               PROVE  V(q, "argv[1]") = last + 1 /\ V(q, "item") = 0
    OBVIOUS
  <2>1. /\ "argv[1]" \in DOMAIN Given(scenario, q) /\ Given(scenario, q)["argv[1]"] = last + 1
        /\ "item" \notin DOMAIN Given(scenario, q)
    BY <1>7 DEF Plays, Users, Executing, Text
  <2>2. \A v \in Locals : vartable[q][v] =
          IF v \in DOMAIN Given(scenario, q) THEN Given(scenario, q)[v] ELSE 0
    BY <1>2 DEF Init
  <2> QED
    BY <2>1, <2>2, PCNames DEF V
<1> DEFINE n == last + 1
<1>9. n \in Nat \ {0} /\ n - 1 = last /\ n \in Nat
  OBVIOUS
<1>10. Sizes(n)
  BY <1>7, <1>8, <1>9 DEF Sizes
<1> HIDE DEF n
<1>11. Ring(n, 0, 0, 0, 0)
  BY <1>9 DEF Ring, Slot
<1>12. /\ \A w \in Users(Producer) : ProducerCopy(w, n, 0, 0)
       /\ \A r \in Users(Consumer) : ConsumerCopy(r, n, 0, 0)
       /\ \A r \in Users(Consumer) : Users(Consumer) = {r} => V(r, "item") = 0
  BY <1>4, <1>8 DEF ProducerCopy, ConsumerCopy
<1>13. Written(0, 0) /\ Prepared(0, 0, 0, 0)
  BY <1>3, <1>4 DEF Written, Prepared
<1>14. Counted(n, 0 - 0)
  <2>1. Filling = {} /\ Stored = {} /\ Fetching = {} /\ Emptied = {}
    BY <1>4 DEF Filling, Stored, Fetching, Emptied
  <2>2. /\ Cardinality(Filling) = 0 /\ Cardinality(Stored) = 0
        /\ Cardinality(Fetching) = 0 /\ Cardinality(Emptied) = 0
    BY <2>1, FS_EmptySet
  <2> QED
    BY <1>3, <1>9, <2>2 DEF Counted
<1>15. BufferAt(n, 0, 0, 0, 0)
  BY <1>10, <1>11, <1>12, <1>13, <1>14 DEF BufferAt
<1>16. Room(n, 0, 0, 0, 0)
  BY <1>0, PCNames DEF Room
<1> QED
  BY <1>5, <1>15, <1>16

LEMMA SameBuffer ==
  ASSUME UNCHANGED <<system, extent>>
  PROVE  BufferInv => BufferInv'
<1> SUFFICES ASSUME BufferInv PROVE BufferInv'
  OBVIOUS
<1>1. /\ \A p : line'[p] = line[p] /\ waiting'[p] = waiting[p]
      /\ \A p, x : V(p, x)' = V(p, x)
      /\ \A k : G(k)' = G(k)
      /\ \A j : Buf(j)' = Buf(j)
      /\ \A t : Users(t)' = Users(t)
  BY SameUsers DEF system, V, G, Buf
<1>2. CASE Users(Consumer) = {}
  BY <1>1, <1>2 DEF BufferInv
<1>3. CASE Users(Consumer) # {}
  <2>1. PICK n, t, c, i, o : PCLockInv /\ BufferAt(n, t, c, i, o) /\ Room(n, t, c, i, o)
    BY <1>3 DEF BufferInv
  <2>2. PCLockInv'
    BY <1>1, <2>1 DEF PCLockInv, ProducerIn, ConsumerIn
  <2>3. BufferAt(n, t, c, i, o)'
    BY <1>1, <2>1, BufferKept DEF Unfilled
  <2>4. Room(n, t, c, i, o)'
    BY <2>1 DEF Room
  <2> QED
    BY <2>2, <2>3, <2>4 DEF BufferInv
<1> QED
  BY <1>2, <1>3

-----------------------------------------------------------------------------
(***************************************************************************)
(* The length of the buffer.                                               *)
(***************************************************************************)
\* the line of the producer or of a consumer that uses the buffer
AtBuffer(p) ==
  /\ Users(Consumer) # {}
  /\ \/ Text(p) = Producer /\ line[p] = 13
     \/ Text(p) = Consumer /\ line[p] = 9

LEMMA OnFirst ==
  /\ \A l, k : Is(l, DOWN(k)) => l.idx = "0"
  /\ \A l, k : Is(l, UP(k)) => l.idx = "0"
  /\ \A l, k, x : Is(l, LOAD(x, k)) => l.idx = "0"
  /\ \A l, k, x : Is(l, STORE(k, x)) => l.idx = "0"
<1>1. \A k : DOWN(k).idx = "0"
  BY DEF DOWN, Line
<1>2. \A k : UP(k).idx = "0"
  BY DEF UP, Line
<1>3. \A k, x : LOAD(x, k).idx = "0"
  BY DEF LOAD, Line
<1>4. \A k, x : STORE(k, x).idx = "0"
  BY DEF STORE, Line
<1> QED
  BY <1>1, <1>2, <1>3, <1>4 DEF Is

\* Only there an index is not 0.
LEMMA OnlyTheBuffer ==
  ASSUME MachineInv, NEW p \in Programs, line[p] \in DOMAIN Text(p), Here(p).op \in OnGlobals
  PROVE  /\ Here(p).src[1] \in Keys
         /\ Index(p) = 0 \/ (AtBuffer(p) /\ Here(p).src[1] = "buf" /\ Index(p) = V(p, "k"))
<1>1. /\ Here(p).src[1] \in Keys
      /\ Here(p).idx = "0" \/ (Text(p) \in {Producer, Consumer} /\ Plays(scenario, Consumer) # {})
  BY IndexAssumption DEF MachineInv, Text, Here
<1>2. CASE Here(p).idx = "0"
  BY <1>1, <1>2, Operand DEF Index
<1>3. CASE Here(p).idx # "0" /\ Text(p) = Producer
  <2>1. Users(Consumer) # {}
    BY <1>1, <1>3 DEF Users, Executing, Plays, Text
  <2>2. line[p] \in 1 .. 20 /\ Here(p) = Producer[line[p]]
    BY <1>3, ProducerLines DEF Here
  <2>3. line[p] = 13
    <3>0. /\ Is(Producer[9], DOWN("free")) /\ Is(Producer[11], DOWN("mtx"))
          /\ Is(Producer[12], LOAD("k", "in")) /\ Is(Producer[16], STORE("in", "k"))
          /\ Is(Producer[17], UP("mtx")) /\ Is(Producer[19], UP("full"))
      BY ProducerLines, LineFacts
    <3>1. /\ Producer[9].idx = "0" /\ Producer[11].idx = "0" /\ Producer[12].idx = "0"
          /\ Producer[16].idx = "0" /\ Producer[17].idx = "0" /\ Producer[19].idx = "0"
      BY <3>0, OnFirst
    <3>2. /\ Producer[1].op = "SET" /\ Producer[2].op = "BREQ" /\ Producer[3].op = "PRINT"
          /\ Producer[4].op = "RETURN" /\ Producer[5].op = "ADD" /\ Producer[6].op = "PRINT"
          /\ Producer[7].op = "SLEEP" /\ Producer[8].op = "PRINT" /\ Producer[10].op = "PRINT"
          /\ Producer[14].op = "ADD" /\ Producer[15].op = "MOD" /\ Producer[18].op = "PRINT"
          /\ Producer[20].op = "BRA"
      BY ProducerLines, LineFacts
    <3> QED
      BY <1>3, <2>2, <3>1, <3>2 DEF OnGlobals
  <2>4. Here(p).src[1] = "buf" /\ Here(p).idx = "k"
    <3>1. STOREAT("buf", "k", "item").src = <<"buf", "item">> /\ STOREAT("buf", "k", "item").idx = "k"
      BY DEF STOREAT, Line
    <3>2. Is(Here(p), STOREAT("buf", "k", "item"))
      BY <2>2, <2>3, ProducerLines, LineFacts
    <3> QED
      BY <3>1, <3>2 DEF Is
  <2> QED
    BY <1>1, <1>3, <2>1, <2>3, <2>4, Operand, PCNames DEF AtBuffer, Index, V
<1>4. CASE Here(p).idx # "0" /\ Text(p) = Consumer
  <2>1. Users(Consumer) # {}
    BY <1>4 DEF Users, Executing
  <2>2. line[p] \in 1 .. 18 /\ Here(p) = Consumer[line[p]]
    BY <1>4, ConsumerLines DEF Here
  <2>3. line[p] = 9
    <3>0. /\ Is(Consumer[5], DOWN("full")) /\ Is(Consumer[7], DOWN("mtx"))
          /\ Is(Consumer[8], LOAD("k", "out")) /\ Is(Consumer[12], STORE("out", "k"))
          /\ Is(Consumer[13], UP("mtx")) /\ Is(Consumer[15], UP("free"))
      BY ConsumerLines, LineFacts
    <3>1. /\ Consumer[5].idx = "0" /\ Consumer[7].idx = "0" /\ Consumer[8].idx = "0"
          /\ Consumer[12].idx = "0" /\ Consumer[13].idx = "0" /\ Consumer[15].idx = "0"
      BY <3>0, OnFirst
    <3>2. /\ Consumer[1].op = "BREQ" /\ Consumer[2].op = "PRINT" /\ Consumer[3].op = "RETURN"
          /\ Consumer[4].op = "PRINT" /\ Consumer[6].op = "PRINT" /\ Consumer[10].op = "ADD"
          /\ Consumer[11].op = "MOD" /\ Consumer[14].op = "PRINT" /\ Consumer[16].op = "PRINT"
          /\ Consumer[17].op = "SLEEP" /\ Consumer[18].op = "BRA"
      BY ConsumerLines, LineFacts
    <3> QED
      BY <1>4, <2>2, <3>1, <3>2 DEF OnGlobals
  <2>4. Here(p).src[1] = "buf" /\ Here(p).idx = "k"
    <3>1. LOADAT("item", "buf", "k").src = <<"buf">> /\ LOADAT("item", "buf", "k").idx = "k"
      BY DEF LOADAT, Line
    <3>2. Is(Here(p), LOADAT("item", "buf", "k"))
      BY <2>2, <2>3, ConsumerLines, LineFacts
    <3> QED
      BY <3>1, <3>2 DEF Is
  <2> QED
    BY <1>1, <1>4, <2>1, <2>3, <2>4, Operand, PCNames DEF AtBuffer, Index, V
<1> QED
  BY <1>1, <1>2, <1>3, <1>4

\* The index there is a slot of the buffer.
LEMMA BufferIndex ==
  ASSUME MachineInv, NEW n, NEW t, NEW c, NEW i, NEW o, BufferAt(n, t, c, i, o),
         NEW p \in Programs, AtBuffer(p)
  PROVE  /\ \/ Text(p) = Producer /\ V(p, "k") = i /\ V(p, "item") = t + 1
            \/ Text(p) = Consumer /\ V(p, "k") = o /\ c < t
         /\ V(p, "argv[1]") = n
<1>1. CASE Text(p) = Producer
  <2>1. p \in Users(Producer) /\ line[p] = 13
    <3>1. Producer # Consumer
      BY ProducerLines, ConsumerLines
    <3> QED
      BY <1>1, <3>1 DEF AtBuffer, Users, Executing
  <2>2. ProducerCopy(p, n, t, i) /\ V(p, "argv[1]") = n
    BY <2>1 DEF BufferAt, Sizes
  <2> QED
    BY <1>1, <2>1, <2>2 DEF ProducerCopy
<1>2. CASE Text(p) = Consumer
  <2>1. p \in Users(Consumer) /\ line[p] = 9
    <3>1. Producer # Consumer
      BY ProducerLines, ConsumerLines
    <3> QED
      BY <1>2, <3>1 DEF AtBuffer, Users, Executing
  <2>2. c < t
    <3>1. p \in Fetching /\ Fetching \subseteq Programs /\ Stored \subseteq Programs
      BY <2>1 DEF Fetching, Stored, Users
    <3>2. IsFiniteSet(Fetching) /\ IsFiniteSet(Stored)
      BY <3>1, MachineAssumption, FS_Subset
    <3>3. Cardinality(Fetching) \in Nat /\ Cardinality(Fetching) # 0 /\ Cardinality(Stored) \in Nat
      BY <3>1, <3>2, FS_CardinalityType, FS_EmptySet
    <3>4. c \in Nat /\ t \in Nat
      BY BufferTypes
    <3>5. /\ G("full") \in Nat
          /\ G("full") + Cardinality(Fetching) + Cardinality(Stored) <= t - c
      BY DEF BufferAt, Counted
    <3> QED
      BY <3>3, <3>4, <3>5
  <2>3. ConsumerCopy(p, n, c, o) /\ V(p, "argv[1]") = n
    BY <2>1 DEF BufferAt, Sizes
  <2> QED
    BY <1>2, <2>1, <2>2, <2>3 DEF ConsumerCopy
<1> QED
  BY <1>1, <1>2 DEF AtBuffer

\* A variable keeps its length once it is made, and it is made long enough.
LEMMA StepExtent ==
  ASSUME MachineInv, BufferInv, NEW p \in Programs, Step(p)
  PROVE  /\ extent' \in [Keys -> Nat]
         /\ \A k \in Keys : extent'[k] >= extent[k]
         /\ AtBuffer(p) => extent'["buf"] > V(p, "k")
<1>0. extent \in [Keys -> Nat]
  BY DEF BufferInv
<1>1. CASE Global(p)
  <2>0. waiting[p] = Idle /\ Here(p).op \in OnGlobals /\ Within(p)
    BY <1>1 DEF Global, Runs
  <2>1. line[p] \in DOMAIN Text(p)
    BY <2>0, StepLine
  <2>2. /\ Here(p).src[1] \in Keys
        /\ Index(p) = 0 \/ (AtBuffer(p) /\ Here(p).src[1] = "buf" /\ Index(p) = V(p, "k"))
    BY <2>0, <2>1, OnlyTheBuffer
  <2>3. extent' = [extent EXCEPT ![Here(p).src[1]] = IF @ = 0 THEN Index(p) + 1 ELSE @]
    BY <1>1 DEF Global
  <2>4. Index(p) \in Nat
    <3>1. CASE AtBuffer(p) /\ Index(p) = V(p, "k")
      <4>1. PICK n, t, c, i, o : BufferAt(n, t, c, i, o)
        BY <3>1 DEF AtBuffer, BufferInv
      <4> QED
        BY <3>1, <4>1, BufferIndex, BufferTypes
    <3> QED
      BY <2>2, <3>1
  <2>5. extent' \in [Keys -> Nat] /\ \A k \in Keys : extent'[k] >= extent[k]
    BY <1>0, <2>2, <2>3, <2>4
  <2>6. ASSUME AtBuffer(p) PROVE extent'["buf"] > V(p, "k")
    <3>1. Here(p).src[1] = "buf" /\ Here(p).idx = "k"
      <4>1. STOREAT("buf", "k", "item").src = <<"buf", "item">> /\ STOREAT("buf", "k", "item").idx = "k"
        BY DEF STOREAT, Line
      <4>2. LOADAT("item", "buf", "k").src = <<"buf">> /\ LOADAT("item", "buf", "k").idx = "k"
        BY DEF LOADAT, Line
      <4>3. Is(Here(p), STOREAT("buf", "k", "item")) \/ Is(Here(p), LOADAT("item", "buf", "k"))
        BY <2>6, ProducerLines, ConsumerLines, LineFacts DEF AtBuffer, Here
      <4> QED
        BY <4>1, <4>2, <4>3 DEF Is
    <3>2. Index(p) = V(p, "k")
      BY <3>1, Operand, PCNames DEF Index, V
    <3>3. extent["buf"] = 0 \/ Index(p) < extent["buf"]
      BY <2>0, <3>1 DEF Within, Length
    <3>4. "buf" \in DOMAIN extent
      BY <1>0, PCNames
    <3>5. extent'["buf"] = IF extent["buf"] = 0 THEN Index(p) + 1 ELSE extent["buf"]
      BY <2>3, <3>1, <3>4
    <3> QED
      BY <2>4, <3>2, <3>3, <3>5
  <2> QED
    BY <2>5, <2>6
<1>2. CASE ~Global(p)
  <2>1. extent' = extent
    BY <1>2 DEF Step, Compute, Branch, Show, Return, Take
  <2>2. ~AtBuffer(p)
    <3> SUFFICES ASSUME AtBuffer(p) PROVE FALSE
      OBVIOUS
    <3>1. Here(p).op \in OnGlobals
      BY ProducerLines, ConsumerLines, LineFacts DEF AtBuffer, Here, OnGlobals
    <3>2. waiting[p] = Idle
      BY ProducerWaits, ConsumerWaits DEF AtBuffer
    <3> QED
      BY <1>2, <3>1, <3>2 DEF Step, Compute, Branch, Show, Return, Take, Store!Take,
                              OnGlobals, Arithmetic, Branches
  <2> QED
    BY <1>0, <2>1, <2>2
<1> QED
  BY <1>1, <1>2

LEMMA RoomKept ==
  ASSUME NEW n, NEW t, NEW c, NEW i, NEW o, BufferAt(n, t, c, i, o), Room(n, t, c, i, o),
         extent["buf"] \in Nat, extent'["buf"] \in Nat, extent'["buf"] >= extent["buf"]
  PROVE  /\ Room(n, t, c, i, o)'
         /\ Room(n, t, c + 1, i, Slot(n, o, 1))'
         /\ extent'["buf"] > i => Room(n, t + 1, c, Slot(n, i, 1), o)'
<1>1. /\ n \in Nat /\ t \in Nat /\ c \in Nat
      /\ i \in 0 .. (n - 1) /\ o \in 0 .. (n - 1)
  BY BufferTypes
<1>2. Room(n, t, c, i, o)'
  BY <1>1 DEF Room
<1>3. Room(n, t, c + 1, i, Slot(n, o, 1))'
  BY <1>1 DEF Room, Slot
<1>4. ASSUME extent'["buf"] > i PROVE Room(n, t + 1, c, Slot(n, i, 1), o)'
  BY <1>1, <1>4 DEF Room, Slot
<1> QED
  BY <1>2, <1>3, <1>4

LEMMA StepInOrder ==
  ASSUME MachineInv, BufferInv, NEW p \in Programs, Step(p)
  PROVE  BufferInv' /\ \A r \in Users(Consumer) : InOrder(r)
<1>1. Users(Consumer)' = Users(Consumer)
  BY StepFrame
<1>2. extent \in [Keys -> Nat] /\ extent' \in [Keys -> Nat]
  BY StepExtent DEF BufferInv
<1>3. CASE Users(Consumer) = {}
  BY <1>1, <1>2, <1>3 DEF BufferInv
<1>4. CASE Users(Consumer) # {}
  <2>1. PICK n, t, c, i, o : PCLockInv /\ BufferAt(n, t, c, i, o) /\ Room(n, t, c, i, o)
    BY <1>4 DEF BufferInv
  <2>2. /\ PCLockInv'
        /\ \/ BufferAt(n, t, c, i, o)'
           \/ Text(p) = Producer /\ line[p] = 13 /\ BufferAt(n, t + 1, c, Slot(n, i, 1), o)'
           \/ BufferAt(n, t, c + 1, i, Slot(n, o, 1))'
        /\ \A r \in Users(Consumer) : V(r, "item")' \in {V(r, "item"), c + 1}
    BY <1>4, <2>1, NextBuffer
  <2>3. /\ extent["buf"] \in Nat /\ extent'["buf"] \in Nat /\ extent'["buf"] >= extent["buf"]
    BY <1>2, StepExtent, PCNames
  <2>4. ASSUME Text(p) = Producer, line[p] = 13 PROVE extent'["buf"] > i
    <3>1. AtBuffer(p)
      BY <1>4, <2>4 DEF AtBuffer
    <3>2. Producer # Consumer
      BY ProducerLines, ConsumerLines
    <3> QED
      BY <2>1, <2>4, <3>1, <3>2, StepExtent, BufferIndex
  <2>5. BufferInv'
    BY <1>2, <2>1, <2>2, <2>3, <2>4, RoomKept DEF BufferInv
  <2>6. /\ c \in Nat
        /\ \A r \in Users(Consumer) : V(r, "item") \in 0 .. c
        /\ \A r \in Users(Consumer) : Users(Consumer) = {r} => V(r, "item") = c
    BY <2>1, BufferTypes DEF BufferAt, ConsumerCopy
  <2>7. ASSUME NEW r \in Users(Consumer) PROVE InOrder(r)
    <3>1. /\ vartable'[r]["item"] \in {vartable[r]["item"], c + 1}
          /\ \A q \in Users(Consumer) : vartable[q]["item"] \in 0 .. c
          /\ Users(Consumer) = {r} => vartable[r]["item"] = c
      BY <2>2, <2>6 DEF V
    <3> QED
      BY <2>6, <3>1 DEF InOrder
  <2> QED
    BY <2>5, <2>7
<1> QED
  BY <1>3, <1>4

(***************************************************************************)
(* What the producer and the consumers (Producer.txt, Consumer.txt) have   *)
(* stored, taken and counted agrees with what is in the buffer, as long as *)
(* the process is not lost.                                                *)
(***************************************************************************)
THEOREM BufferInvariant == Spec => []BufferInv
<1>1. MachineInv /\ BufferInv /\ [Next]_vars => BufferInv'
  BY StepInOrder, SameBuffer, NextSteps DEF Overrun, vars
<1> QED
  BY <1>1, InitBuffer, MachineInvariant, PTL DEF Spec

(***************************************************************************)
(* As long as the process is not lost every item is consumed once and in   *)
(* the order in which it was produced (Producer.txt, Consumer.txt): for    *)
(* one producer, any number of consumers, a buffer of any size, and any    *)
(* length of $buf that was made before.                                    *)
(***************************************************************************)
THEOREM ItemsAreInOrder == Spec => ItemsInOrder
<1>1. MachineInv /\ BufferInv /\ [Next]_vars => [\A p \in Users(Consumer) : InOrder(p)]_vars
  <2> SUFFICES ASSUME MachineInv, BufferInv, [Next]_vars
               PROVE  (\A p \in Users(Consumer) : InOrder(p)) \/ UNCHANGED vars
    OBVIOUS
  <2>1. CASE \E p \in Programs : Step(p)
    BY <2>1, StepInOrder
  <2>2. CASE \E p \in Programs : Overrun(p)
    BY <2>2 DEF Overrun, system, InOrder
  <2> QED
    BY <2>1, <2>2, NextSteps
<1> QED
  BY <1>1, BufferInvariant, MachineInvariant, PTL DEF Spec, ItemsInOrder

\* Who overruns a variable is the producer, with the item that comes behind
\* all that was made.
LEMMA OverrunIsBehind ==
  ASSUME MachineInv, BufferInv, NEW p \in Programs, Overrun(p)
  PROVE  LostBehindTheBuffer'
<1>1. /\ waiting[p] = Idle /\ line[p] # 0 /\ Here(p).op \in OnGlobals /\ ~Within(p)
      /\ UNCHANGED <<system, extent>>
  BY DEF Overrun, Runs
<1>2. line[p] \in DOMAIN Text(p)
  BY <1>1, TextTyped, LineBounds
<1>3. /\ Here(p).src[1] \in Keys
      /\ Index(p) = 0 \/ (AtBuffer(p) /\ Here(p).src[1] = "buf" /\ Index(p) = V(p, "k"))
  BY <1>1, <1>2, OnlyTheBuffer
<1>4. Length(p) \in Nat /\ Length(p) # 0 /\ ~(Index(p) < Length(p))
  BY <1>1, <1>3 DEF BufferInv, Within, Length
<1>5. AtBuffer(p) /\ Length(p) = extent["buf"] /\ Index(p) = V(p, "k")
  BY <1>3, <1>4 DEF Length
<1>6. PICK n, t, c, i, o : BufferAt(n, t, c, i, o) /\ Room(n, t, c, i, o)
  BY <1>5 DEF AtBuffer, BufferInv
<1>7. /\ n \in Nat /\ t \in Nat /\ c \in Nat /\ i \in 0 .. (n - 1) /\ o \in 0 .. (n - 1)
  BY <1>6, BufferTypes
<1>8. Text(p) = Producer /\ V(p, "item") = extent["buf"] + 1 /\ extent["buf"] < V(p, "argv[1]")
  BY <1>4, <1>5, <1>6, <1>7, BufferIndex DEF Room
<1>9. p \in Users(Producer)'
  BY <1>1, <1>8, SameUsers DEF Users, Executing, system
<1> QED
  BY <1>1, <1>8, <1>9 DEF LostBehindTheBuffer, V, system

(***************************************************************************)
(* The process is lost only where the producer stores the first item       *)
(* behind the buffer there is, and the buffer is shorter than the programs *)
(* were told (global.c:278): no other use of a global in the samples goes  *)
(* beyond its length, whoever runs beside them.                            *)
(***************************************************************************)
THEOREM LostOnlyBehindTheBuffer == Spec => []LostBehindTheBuffer
<1>1. Init => LostBehindTheBuffer
  BY DEF Init, LostBehindTheBuffer
<1>2. MachineInv /\ BufferInv /\ LostBehindTheBuffer /\ [Next]_vars => LostBehindTheBuffer'
  <2> SUFFICES ASSUME MachineInv, BufferInv, LostBehindTheBuffer, [Next]_vars
               PROVE  LostBehindTheBuffer'
    OBVIOUS
  <2>1. CASE \E p \in Programs : ~lost /\ Step(p) /\ lost' = lost
    BY <2>1 DEF LostBehindTheBuffer
  <2>2. CASE \E p \in Programs : Overrun(p)
    BY <2>2, OverrunIsBehind
  <2>3. CASE UNCHANGED vars
    <3>1. \A t : Users(t)' = Users(t)
      BY <2>3, SameUsers DEF vars, system
    <3> QED
      BY <2>3, <3>1 DEF LostBehindTheBuffer, vars, system
  <2> QED
    BY <2>1, <2>2, <2>3, NextSteps
<1> QED
  BY <1>1, <1>2, BufferInvariant, MachineInvariant, PTL DEF Spec

=============================================================================
