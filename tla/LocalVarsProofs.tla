-------------------------- MODULE LocalVarsProofs --------------------------
(***************************************************************************)
(* The invariants and the action properties of LocalVars, for any names,   *)
(* operands and instructions and any size of int.                          *)
(***************************************************************************)
EXTENDS LocalVars, TLAPS

-----------------------------------------------------------------------------
(***************************************************************************)
(* The inductive invariant.                                                *)
(***************************************************************************)
\* where the handler is: between instructions nothing is under way, a call
\* waits for its index only while one works or has returned, and the values
\* read with those still to read are the operands of the instruction
Progress ==
  /\ instr = None => Quiet /\ calls = <<>>
  /\ Quiet => frames = <<>> /\ how = "get"
  /\ tok # None => ret = None
  /\ how = "set" => calls = <<>> /\ Len(vals) = 1
  /\ instr # None /\ how = "get" =>
        Len(vals) + Len(calls) + (IF Quiet THEN 0 ELSE 1) = Len(instr.args)

\* a call that waits has found no label, and an array it has found is there
Waiting ==
  \A f \in 1 .. Len(frames) :
     /\ frames[f].operand.type = "INT_ARR"
     /\ frames[f].set => how = "set"
     /\ frames[f].operand.name # "argv" =>
           /\ vartable[frames[f].operand.name].type # "LABEL"
           /\ frames[f].len <= LenOf(frames[f].operand.name)

\* a call works on a part of the index of each call that waits
WithinIndex ==
  \A f \in 1 .. Len(frames) :
     LET index == frames[f].operand.idx IN
     /\ tok # None => NamesIn[tok] \subseteq NamesIn[index]
     /\ \A g \in f + 1 .. Len(frames) : NamesIn[frames[g].operand] \subseteq NamesIn[index]

\* a name of the index that is not in the table was not there before
StillNew ==
  \A f \in 1 .. Len(frames) : NewNames(frames[f].operand.idx) \subseteq frames[f].new

IInv ==
  /\ TypeOK /\ Progress /\ Waiting /\ WithinIndex /\ StillNew
  /\ OwnValueOrZero /\ ArrayStaysFound

-----------------------------------------------------------------------------
(***************************************************************************)
(* Integers, entries of the table and arrays.                              *)
(***************************************************************************)
LEMMA IntsFacts ==
  /\ Ints \subseteq Int /\ 0 \in Ints
  /\ IntMax \in Nat \ {0} /\ IntMin \in Int /\ IntMin = -IntMax - 1
BY LocalVarsAssumption DEF Ints

\* Wrapping gives an int whatever the exact result is.
LEMMA WrapInts == ASSUME NEW x \in Int PROVE Wrap(x) \in Ints
<1> DEFINE m == IntMax - IntMin + 1
<1>1. m \in Nat \ {0}
  BY IntsFacts
<1>2. (x - IntMin) % m \in 0 .. m - 1
  BY <1>1, IntsFacts
<1> QED
  BY <1>2, IntsFacts DEF Wrap, Ints

LEMMA Distribute == \A b, p \in Int : b * (-1 - p) = -b - b * p
OBVIOUS

\* A quotient is not larger than the dividend, and smaller for a divisor over 1.
LEMMA QuotientBound ==
  ASSUME NEW a \in Nat, NEW b \in Nat \ {0}
  PROVE  /\ a \div b \in 0 .. a /\ a % b \in 0 .. b - 1
         /\ a > 0 /\ b > 1 => a \div b < a
<1> DEFINE q == a \div b
           r == a % b
<1>1. q \in Int /\ r \in 0 .. b - 1 /\ a = b * q + r
  OBVIOUS
<1> HIDE DEF q, r
<1>2. q >= 0
  <2> SUFFICES ASSUME q <= -1 PROVE FALSE
    BY <1>1
  <2> DEFINE p == -1 - q
  <2>1. p \in Nat /\ q = -1 - p
    BY <1>1
  <2> HIDE DEF p
  <2>2. b * p \in Nat
    BY <2>1
  <2>3. b * q = -b - b * p
    BY <2>1, Distribute
  <2> QED
    BY <1>1, <2>2, <2>3
<1>3. q <= b * q
  BY <1>1, <1>2
<1>4. b > 1 => 2 * q <= b * q
  BY <1>1, <1>2
<1> QED
  BY <1>1, <1>2, <1>3, <1>4 DEF q, r

\* Every operation gives an int, but for the divisions that trap.
LEMMA ApplyInts ==
  ASSUME NEW op \in Binary, NEW x \in Ints, NEW y \in Ints,
         op \in {"DIV", "MOD"} => ~(y = 0 \/ (x = IntMin /\ y = -1))
  PROVE  Apply(op, x, y) \in Ints
<1>1. x \in Int /\ y \in Int
  BY IntsFacts
<1>2. CASE op = "ADD"
  BY <1>1, <1>2, WrapInts DEF Apply
<1>3. CASE op = "SUB"
  BY <1>1, <1>3, WrapInts DEF Apply
<1>4. CASE op = "MUL"
  BY <1>1, <1>4, WrapInts DEF Apply
<1>5. CASE op \in {"DIV", "MOD"}
  <2> DEFINE q == Abs(x) \div Abs(y)
             r == Abs(x) % Abs(y)
  <2>1. /\ Abs(x) \in 0 .. IntMax + 1 /\ Abs(y) \in 1 .. IntMax + 1
        /\ Abs(x) = IntMax + 1 => x = IntMin
        /\ Abs(y) = 1 => y \in {1, -1}
    BY <1>1, <1>5, IntsFacts DEF Abs, Ints
  <2>2. /\ q \in 0 .. Abs(x) /\ r \in 0 .. Abs(y) - 1
        /\ Abs(x) > 0 /\ Abs(y) # 1 => q < Abs(x)
    <3>1. Abs(x) \in Nat /\ Abs(y) \in Nat \ {0}
      BY <2>1, IntsFacts
    <3>2. Abs(y) > 1 <=> Abs(y) # 1
      BY <3>1
    <3> QED
      BY <3>1, <3>2, QuotientBound
  <2>3. Sign(x) \in {1, -1} /\ Sign(y) \in {1, -1} /\ (x = IntMin => Sign(x) = -1)
        /\ (y = 1 => Sign(y) = 1)
    BY <1>1, IntsFacts DEF Sign
  <2>4. r \in 0 .. IntMax
    BY <2>1, <2>2, IntsFacts
  <2>5. q \in 0 .. IntMax \/ (q = IntMax + 1 /\ x = IntMin /\ y = 1)
    BY <1>5, <2>1, <2>2, IntsFacts
  <2> HIDE DEF q, r
  <2>6. Sign(x) * Sign(y) * q \in Ints
    BY <2>3, <2>5, IntsFacts DEF Ints
  <2>7. Sign(x) * r \in Ints
    BY <2>3, <2>4, IntsFacts DEF Ints
  <2> QED
    BY <1>5, <2>6, <2>7 DEF Apply, q, r
<1> QED
  BY <1>2, <1>3, <1>4, <1>5 DEF Binary

-----------------------------------------------------------------------------
\* Nothing, an array, a label and a value differ in their type.
LEMMA Kinds ==
  /\ None.type = "NONE"
  /\ \A a : Array(a).type = "ARRAY" /\ Array(a).arr = a
  /\ \A o : Label(o).type = "LABEL"
  /\ \A v : Value(v) # None /\ Value(v).value = v
BY DEF None, Array, Label, Value

LEMMA OperandKinds == ASSUME NEW t \in Operands PROVE t # None /\ OperandOK(t)
BY LocalVarsAssumption, Kinds DEF OperandOK

\* What the table can have under a name.
LEMMA EntryFacts ==
  ASSUME TypeOK, NEW n \in Names
  PROVE  /\ vartable[n] = None \/ (\E o \in Offsets : vartable[n] = Label(o)) \/ IsArray(n)
         /\ IsArray(n) => /\ vartable[n].arr \in Seq(Ints)
                          /\ LenOf(n) = Len(vartable[n].arr) /\ LenOf(n) \in 1 .. IntMax
         /\ ~IsArray(n) => LenOf(n) = 0
         /\ LenOf(n) \in 0 .. IntMax
<1>1. vartable[n] \in Entry
  BY DEF TypeOK
<1>2. \/ vartable[n] = None \/ (\E o \in Offsets : vartable[n] = Label(o))
      \/ IsArray(n) /\ vartable[n].arr \in Seq(Ints)
  BY <1>1 DEF Entry, IsArray
<1>3. IsArray(n) => vartable[n].arr \in Seq(Ints)
  BY <1>2, Kinds DEF IsArray
<1>4. IsArray(n) => LenOf(n) = Len(vartable[n].arr) /\ LenOf(n) \in 1 .. IntMax
  BY DEF LenOf, TypeOK
<1>5. ~IsArray(n) => LenOf(n) = 0
  BY DEF LenOf
<1> QED
  BY <1>2, <1>3, <1>4, <1>5, IntsFacts

\* What the table is after array b was put under the name n.
LEMMA PutArray ==
  ASSUME TypeOK, NEW n \in Names, NEW b \in Seq(Ints), Len(b) \in 1 .. IntMax,
         vartable' = [vartable EXCEPT ![n] = Array(b)]
  PROVE  /\ vartable' \in [Names -> Entry]
         /\ vartable'[n] = Array(b) /\ IsArray(n)' /\ LenOf(n)' = Len(b)
         /\ \A m \in Names \ {n} : /\ vartable'[m] = vartable[m]
                                   /\ IsArray(m)' = IsArray(m) /\ LenOf(m)' = LenOf(m)
         /\ \A m \in Names : IsArray(m)' => LenOf(m)' \in 1 .. IntMax
<1>1. Array(b) \in Entry
  BY DEF Array, Entry
<1>2. vartable' \in [Names -> Entry]
  BY <1>1 DEF TypeOK
<1>3. vartable'[n] = Array(b) /\ \A m \in Names \ {n} : vartable'[m] = vartable[m]
  BY DEF TypeOK
<1>4. IsArray(n)' /\ LenOf(n)' = Len(b)
  BY <1>3, Kinds DEF IsArray, LenOf
<1>5. \A m \in Names \ {n} : IsArray(m)' = IsArray(m) /\ LenOf(m)' = LenOf(m)
  BY <1>3 DEF IsArray, LenOf
<1>6. \A m \in Names : IsArray(m)' => LenOf(m)' \in 1 .. IntMax
  BY <1>4, <1>5, EntryFacts
<1> QED
  BY <1>2, <1>3, <1>4, <1>5, <1>6

\* The array as it grows keeps its elements but the last, and has the index.
LEMMA GrownFacts ==
  ASSUME NEW a \in Seq(Ints), NEW i \in 0 .. IntMax - 1, Len(a) \in 1 .. IntMax
  PROVE  /\ Grown(a, i) \in Seq(Ints) /\ Len(Grown(a, i)) \in i + 1 .. IntMax
         /\ Len(Grown(a, i)) >= Len(a)
         /\ \A k \in 1 .. Len(Grown(a, i)) :
               \/ k \in 1 .. Len(a) /\ Grown(a, i)[k] = a[k]
               \/ Grown(a, i)[k] = 0 /\ k >= Len(a) /\ Len(Grown(a, i)) > Len(a)
<1> DEFINE g == [k \in 1 .. i + 1 |-> IF k < Len(a) THEN a[k] ELSE 0]
<1>1. CASE i + 1 > Len(a)
  <2>1. Grown(a, i) = g
    BY <1>1 DEF Grown
  <2>2. \A k \in 1 .. i + 1 : g[k] \in Ints
    BY IntsFacts
  <2>3. i + 1 \in Nat
    BY IntsFacts
  <2>4. g \in Seq(Ints) /\ Len(g) = i + 1
    BY <2>2, <2>3
  <2>5. \A k \in 1 .. i + 1 : \/ k \in 1 .. Len(a) /\ g[k] = a[k]
                              \/ g[k] = 0 /\ k >= Len(a)
    OBVIOUS
  <2> HIDE DEF g
  <2> QED
    BY <1>1, <2>1, <2>4, <2>5, IntsFacts
<1>2. CASE ~(i + 1 > Len(a))
  BY <1>2, IntsFacts DEF Grown
<1> QED
  BY <1>1, <1>2

\* An array of zeros, as it is made for an index.
LEMMA ZerosFacts ==
  ASSUME NEW i \in 0 .. IntMax - 1
  PROVE  /\ [k \in 1 .. i + 1 |-> 0] \in Seq(Ints)
         /\ Len([k \in 1 .. i + 1 |-> 0]) = i + 1
<1>1. i + 1 \in Nat
  BY IntsFacts
<1> QED
  BY <1>1, IntsFacts

\* One element is written.
LEMMA WrittenFacts ==
  ASSUME NEW a \in Seq(Ints), NEW i \in 0 .. Len(a) - 1, NEW v \in Ints
  PROVE  /\ Written(a, i, v) \in Seq(Ints) /\ Len(Written(a, i, v)) = Len(a)
         /\ \A k \in 1 .. Len(a) : Written(a, i, v)[k] = IF k = i + 1 THEN v ELSE a[k]
BY DEF Written

LEMMA PrefixFacts ==
  ASSUME NEW S, NEW s \in Seq(S), NEW n \in 0 .. Len(s)
  PROVE  /\ SubSeq(s, 1, n) \in Seq(S) /\ Len(SubSeq(s, 1, n)) = n
         /\ \A k \in 1 .. n : SubSeq(s, 1, n)[k] = s[k]
OBVIOUS

\* The calls that wait, with the innermost taken off.
LEMMA FrontFacts ==
  ASSUME NEW S, NEW s \in Seq(S), s # <<>>
  PROVE  /\ Front(s) \in Seq(S) /\ Len(Front(s)) = Len(s) - 1
         /\ Len(s) \in Nat \ {0} /\ s[Len(s)] \in S
         /\ \A k \in 1 .. Len(s) - 1 : Front(s)[k] = s[k]
<1>1. Len(s) \in Nat \ {0} /\ Len(s) - 1 \in 0 .. Len(s) /\ s[Len(s)] \in S
  OBVIOUS
<1> QED
  BY <1>1, PrefixFacts DEF Front

-----------------------------------------------------------------------------
(***************************************************************************)
(* Initial states, and steps that only end the program.                    *)
(***************************************************************************)
LEMMA InitIInv == Init => IInv
<1> SUFFICES ASSUME Init PROVE IInv
  OBVIOUS
<1> USE DEF Init
<1>1. \A n \in Names : ~IsArray(n) /\ LenOf(n) = 0
  BY Kinds DEF IsArray, LenOf
<1>2. TypeOK
  <2>1. vartable \in [Names -> Entry] /\ assigned \in [Names -> [1 .. IntMax -> Ints]]
    BY IntsFacts DEF Entry
  <2> QED
    BY <1>1, <2>1 DEF TypeOK, Statuses
<1>3. Progress
  BY DEF Progress, Quiet
<1>4. Waiting /\ WithinIndex /\ StillNew /\ ArrayStaysFound
  BY DEF Waiting, WithinIndex, StillNew, ArrayStaysFound
<1>5. OwnValueOrZero
  BY <1>1 DEF OwnValueOrZero
<1> QED
  BY <1>2, <1>3, <1>4, <1>5 DEF IInv

LEMMA LostStep ==
  ASSUME IInv, UNCHANGED <<vartable, evalVars, assigned>>, status' \in Statuses
  PROVE  IInv'
<1>1. UNCHANGED <<vartable, instr, calls, how, tok, frames, ret, vals, assigned>>
  BY DEF evalVars
<1>2. \A n : IsArray(n)' = IsArray(n) /\ LenOf(n)' = LenOf(n)
  BY <1>1 DEF IsArray, LenOf
<1>3. TypeOK'
  BY <1>1, <1>2 DEF IInv, TypeOK
<1>4. Progress'
  BY <1>1 DEF IInv, Progress, Quiet
<1>5. Waiting' /\ WithinIndex' /\ StillNew'
  BY <1>1, <1>2 DEF IInv, Waiting, WithinIndex, StillNew, NewNames
<1>6. OwnValueOrZero' /\ ArrayStaysFound'
  BY <1>1, <1>2 DEF IInv, OwnValueOrZero, ArrayStaysFound
<1> QED
  BY <1>3, <1>4, <1>5, <1>6 DEF IInv

\* A step that leaves the table alone while no call waits, before and after.
LEMMA NoCallStep ==
  ASSUME IInv, UNCHANGED <<vartable, frames, status, assigned>>, frames = <<>>,
         instr' \in Instructions \cup {None},
         calls' \in Seq(Operands), tok' \in Operands \cup {None}, how' \in {"get", "set"},
         ret' \in {None} \cup [type : {"VALUE"}, value : Ints], vals' \in Seq(Ints),
         Progress'
  PROVE  IInv'
<1>1. \A n : IsArray(n)' = IsArray(n) /\ LenOf(n)' = LenOf(n)
  BY DEF IsArray, LenOf
<1>2. TypeOK'
  BY <1>1 DEF IInv, TypeOK
<1>3. Waiting' /\ WithinIndex' /\ StillNew' /\ ArrayStaysFound'
  BY DEF Waiting, WithinIndex, StillNew, ArrayStaysFound
<1>4. OwnValueOrZero'
  BY <1>1 DEF IInv, OwnValueOrZero
<1> QED
  BY <1>2, <1>3, <1>4 DEF IInv

\* The variables as they are in a state of the program.
LEMMA StateTypes ==
  ASSUME IInv
  PROVE  /\ instr \in Instructions \cup {None} /\ calls \in Seq(Operands)
         /\ tok \in Operands \cup {None} /\ how \in {"get", "set"}
         /\ frames \in Seq(FrameSet)
         /\ ret \in {None} \cup [type : {"VALUE"}, value : Ints]
         /\ ret # None => ret.value \in Ints
         /\ vals \in Seq(Ints) /\ status \in Statuses
         /\ vartable \in [Names -> Entry]
         /\ assigned \in [Names -> [1 .. IntMax -> Ints]]
BY DEF IInv, TypeOK

\* A destination is written with the one value there is.
LEMMA ValueToWrite == ASSUME IInv, how = "set" PROVE vals[1] \in Ints
<1>1. Len(vals) = 1
  BY DEF IInv, Progress
<1>2. vals \in Seq(Ints)
  BY StateTypes
<1> QED
  BY <1>1, <1>2

LEMMA StartInstructionIInv == ASSUME IInv, StartInstruction PROVE IInv'
<1>1. PICK i \in Instructions : instr' = i /\ calls' = i.args
  BY DEF StartInstruction
<1>2. /\ instr = None /\ vals' = <<>>
      /\ UNCHANGED <<vartable, how, tok, frames, ret, status, assigned>>
  BY DEF StartInstruction
<1>3. Quiet /\ frames = <<>> /\ how = "get"
  BY <1>2 DEF IInv, Progress
<1>4. i.args \in Seq(Operands)
  BY LocalVarsAssumption DEF InstructionOK
<1>5. Progress'
  <2>1. Quiet' /\ how' = "get" /\ frames' = <<>> /\ ret' = None
    BY <1>2, <1>3 DEF Quiet
  <2>2. Len(vals') + Len(calls') = Len(instr'.args)
    BY <1>1, <1>2, <1>4
  <2>3. i # None
    BY LocalVarsAssumption
  <2> QED
    BY <1>1, <1>4, <2>1, <2>2, <2>3 DEF Progress
<1> QED
  BY <1>1, <1>2, <1>3, <1>4, <1>5, StateTypes, NoCallStep


LEMMA ReadOperandIInv == ASSUME IInv, ReadOperand PROVE IInv'
<1>1. /\ Quiet /\ calls # <<>> /\ how' = "get" /\ tok' = Head(calls) /\ calls' = Tail(calls)
      /\ UNCHANGED <<vartable, instr, frames, ret, vals, status, assigned>>
  BY DEF ReadOperand
<1>2. frames = <<>> /\ instr # None /\ how = "get"
  BY <1>1 DEF IInv, Progress
<1>3. calls \in Seq(Operands) /\ vals \in Seq(Ints)
  BY StateTypes
<1>4. tok' \in Operands /\ calls' \in Seq(Operands) /\ Len(calls) = Len(calls') + 1
  BY <1>1, <1>3
<1>5. tok' # None /\ ret' = None
  BY <1>1, <1>4, OperandKinds DEF Quiet
<1>6. Progress'
  <2>1. Len(vals) + Len(calls) = Len(instr.args)
    BY <1>1, <1>2 DEF IInv, Progress
  <2>2. Len(vals') + Len(calls') + 1 = Len(instr'.args)
    BY <1>1, <1>3, <1>4, <2>1
  <2> QED
    BY <1>1, <1>2, <1>5, <2>2 DEF Progress, Quiet
<1> QED
  BY <1>1, <1>2, <1>4, <1>6, StateTypes, NoCallStep

LEMMA TakeValueIInv == ASSUME IInv, TakeValue PROVE IInv'
<1>1. /\ ret # None /\ frames = <<>> /\ how' = "get" /\ ret' = None
      /\ UNCHANGED <<vartable, calls, tok, frames, status, assigned>>
  BY DEF TakeValue
<1>2. tok = None /\ instr # None
  BY <1>1 DEF IInv, Progress, Quiet
<1>3. vals \in Seq(Ints) /\ ret.value \in Ints /\ calls \in Seq(Operands)
  BY <1>1, StateTypes
<1>4. CASE how = "get"
  <2>1. vals' = Append(vals, ret.value) /\ instr' = instr
    BY <1>4 DEF TakeValue
  <2>2. vals' \in Seq(Ints) /\ Len(vals') = Len(vals) + 1
    BY <1>3, <2>1
  <2>3. Len(vals) + Len(calls) + 1 = Len(instr.args)
    BY <1>1, <1>2, <1>4 DEF IInv, Progress, Quiet
  <2>4. Len(vals') + Len(calls') = Len(instr'.args)
    BY <1>1, <1>3, <2>1, <2>2, <2>3
  <2>5. Progress'
    BY <1>1, <1>2, <2>1, <2>4, <1>3, <2>2 DEF Progress, Quiet
  <2> QED
    BY <1>1, <2>1, <2>2, <2>5, StateTypes, NoCallStep
<1>5. CASE how # "get"
  <2>1. instr' = None /\ vals' = vals
    BY <1>5 DEF TakeValue
  <2>2. calls = <<>>
    BY <1>5, StateTypes DEF IInv, Progress
  <2>3. Progress'
    BY <1>1, <1>2, <2>1, <2>2 DEF Progress, Quiet
  <2> QED
    BY <1>1, <2>1, <2>3, StateTypes, NoCallStep
<1> QED
  BY <1>4, <1>5

\* When all operands are read, their values are there.
LEMMA AllReadFacts ==
  ASSUME IInv, AllRead
  PROVE  /\ instr \in Instructions /\ InstructionOK(instr) /\ frames = <<>> /\ how = "get"
         /\ Len(vals) = Len(instr.args) /\ vals \in Seq(Ints)
<1>1. /\ frames = <<>> /\ how = "get" /\ instr # None /\ Quiet /\ calls = <<>>
      /\ Len(vals) + Len(calls) = Len(instr.args)
  BY DEF IInv, Progress, AllRead
<1>2. instr \in Instructions /\ vals \in Seq(Ints)
  BY <1>1, StateTypes
<1>3. Len(vals) = Len(instr.args)
  BY <1>1, <1>2
<1> QED
  BY <1>1, <1>2, <1>3, LocalVarsAssumption

LEMMA EndReadingIInv == ASSUME IInv, EndReading PROVE IInv'
<1>1. /\ AllRead /\ instr' = None
      /\ UNCHANGED <<vartable, calls, how, tok, frames, ret, vals, status, assigned>>
  BY DEF EndReading
<1>2. frames = <<>> /\ how = "get"
  BY <1>1, AllReadFacts
<1>3. Progress'
  BY <1>1, <1>2 DEF Progress, AllRead, Quiet
<1> QED
  BY <1>1, <1>2, <1>3, StateTypes, NoCallStep

LEMMA WriteDestinationIInv == ASSUME IInv, WriteDestination PROVE IInv'
<1>1. /\ AllRead /\ ~Traps /\ how' = "set" /\ tok' = instr.dst
      /\ instr.op \in {"SET", "LOAD"} \cup Binary
      /\ UNCHANGED <<vartable, instr, calls, frames, ret, status, assigned>>
  BY DEF WriteDestination
<1>2. /\ instr \in Instructions /\ InstructionOK(instr) /\ frames = <<>>
      /\ Len(vals) = Len(instr.args) /\ vals \in Seq(Ints)
  BY <1>1, AllReadFacts
<1>3. /\ instr.dst \in Operands
      /\ instr.op = "SET" => Len(vals) = 1
      /\ instr.op \in Binary => Len(vals) = 2
  BY <1>1, <1>2 DEF InstructionOK, Binary
<1>4. PICK v \in CASE instr.op = "SET" -> {vals[1]}
                   [] instr.op = "LOAD" -> Loaded
                   [] OTHER -> {Apply(instr.op, vals[1], vals[2])} : vals' = <<v>>
  BY DEF WriteDestination
<1>5. v \in Ints
  <2>1. CASE instr.op = "SET"
    <3>1. v = vals[1]
      BY <1>4, <2>1
    <3> QED
      BY <1>2, <1>3, <2>1, <3>1
  <2>2. CASE instr.op = "LOAD"
    BY <1>4, <2>2, LocalVarsAssumption
  <2>3. CASE instr.op \in Binary
    <3>1. vals[1] \in Ints /\ vals[2] \in Ints
      BY <1>2, <1>3, <2>3
    <3>2. instr.op \in {"DIV", "MOD"} => ~(vals[2] = 0 \/ (vals[1] = IntMin /\ vals[2] = -1))
      BY <1>1 DEF Traps
    <3>3. v = Apply(instr.op, vals[1], vals[2])
      BY <1>4, <2>3 DEF Binary
    <3> QED
      BY <2>3, <3>1, <3>2, <3>3, ApplyInts
  <2> QED
    BY <1>1, <2>1, <2>2, <2>3
<1>6. vals' \in Seq(Ints) /\ Len(vals') = 1
  BY <1>4, <1>5
<1>7. tok' # None /\ tok' \in Operands
  BY <1>1, <1>3, OperandKinds
<1>8. Progress'
  <2>1. instr' # None /\ calls' = <<>> /\ ret' = None
    BY <1>1 DEF AllRead, Quiet
  <2> QED
    BY <1>1, <1>6, <1>7, <2>1 DEF Progress, Quiet
<1> QED
  BY <1>1, <1>2, <1>6, <1>7, <1>8, StateTypes, NoCallStep

(***************************************************************************)
(* Labels enter the table between instructions, where no call waits.       *)
(***************************************************************************)
LEMMA InsertLabelFacts ==
  ASSUME IInv, NEW n \in Names, NEW o \in Offsets, InsertLabel(n, o),
         status = "ok"
  PROVE  /\ vartable' \in [Names -> Entry] /\ status' \in Statuses
         /\ \A m \in Names : vartable[m] # None => vartable'[m] = vartable[m]
         /\ \A m \in Names : vartable[m] = None => ~IsArray(m)'
<1>1. vartable \in [Names -> Entry]
  BY StateTypes
<1>2. CASE vartable[n] = None /\ vartable' = [vartable EXCEPT ![n] = Label(o)]
           /\ UNCHANGED status
  <2>1. Label(o) \in Entry
    BY DEF Entry
  <2>2. \A m \in Names : vartable'[m] = IF m = n THEN Label(o) ELSE vartable[m]
    BY <1>1, <1>2
  <2> QED
    BY <1>1, <1>2, <2>1, <2>2, Kinds DEF IsArray, Statuses
<1>3. CASE vartable' = vartable /\ status' \in {"ok", "stopped"}
  BY <1>1, <1>3, Kinds DEF IsArray, Statuses
<1> QED
  BY <1>2, <1>3 DEF InsertLabel

LEMMA LabelStep ==
  ASSUME IInv, frames = <<>>, vartable' \in [Names -> Entry], status' \in Statuses,
         \A m \in Names : vartable[m] # None => vartable'[m] = vartable[m],
         \A m \in Names : vartable[m] = None => ~IsArray(m)',
         UNCHANGED <<calls, how, tok, frames, ret, vals, assigned>>,
         instr' \in Instructions \cup {None}, Progress'
  PROVE  IInv'
<1>1. \A m \in Names : IsArray(m)' = IsArray(m) /\ (IsArray(m) => vartable'[m] = vartable[m])
  BY Kinds DEF IsArray
<1>2. \A m \in Names : LenOf(m)' = LenOf(m)
  BY <1>1 DEF LenOf
<1>3. TypeOK'
  BY <1>1, <1>2 DEF IInv, TypeOK
<1>4. Waiting' /\ WithinIndex' /\ StillNew' /\ ArrayStaysFound'
  BY DEF Waiting, WithinIndex, StillNew, ArrayStaysFound
<1>5. OwnValueOrZero'
  <2> SUFFICES ASSUME NEW m \in Names, NEW k \in 1 .. LenOf(m)'
               PROVE  vartable'[m].arr[k] \in {assigned'[m][k], 0}
    BY DEF OwnValueOrZero
  <2>1. IsArray(m) /\ k \in 1 .. LenOf(m)
    BY <1>2 DEF LenOf
  <2> QED
    BY <1>1, <2>1 DEF IInv, OwnValueOrZero
<1> QED
  BY <1>3, <1>4, <1>5 DEF IInv

LEMMA LabelLineIInv == ASSUME IInv, LabelLine PROVE IInv'
<1>1. PICK n \in Names, o \in Offsets : InsertLabel(n, o)
  BY DEF LabelLine
<1>2. /\ status = "ok" /\ instr = None
      /\ UNCHANGED <<instr, calls, how, tok, frames, ret, vals, assigned>>
  BY DEF LabelLine, evalVars
<1>3. frames = <<>>
  BY <1>2 DEF IInv, Progress
<1>4. Progress'
  BY <1>2 DEF IInv, Progress, Quiet
<1> QED
  BY <1>1, <1>2, <1>3, <1>4, InsertLabelFacts, StateTypes, LabelStep

LEMMA BranchIInv == ASSUME IInv, Branch PROVE IInv'
<1>1. /\ AllRead /\ instr.op = "BRANCH" /\ instr' = None
      /\ UNCHANGED <<calls, how, tok, frames, ret, vals, assigned>>
  BY DEF Branch
<1>2. frames = <<>> /\ how = "get" /\ instr.label \in Names
  BY <1>1, AllReadFacts DEF InstructionOK, Binary
<1>3. Progress'
  BY <1>1, <1>2 DEF Progress, AllRead, Quiet
<1>4. /\ vartable' \in [Names -> Entry] /\ status' \in Statuses
      /\ \A m \in Names : vartable[m] # None => vartable'[m] = vartable[m]
      /\ \A m \in Names : vartable[m] = None => ~IsArray(m)'
  <2>1. CASE vartable' = vartable /\ status' \in {status, "stopped"}
    BY <2>1, StateTypes, Kinds DEF IsArray, Statuses
  <2>2. CASE \E o \in Offsets : InsertLabel(instr.label, o)
    BY <1>1, <1>2, <2>2, InsertLabelFacts DEF AllRead
  <2> QED
    BY <2>1, <2>2 DEF Branch
<1> QED
  BY <1>1, <1>2, <1>3, <1>4, LabelStep

-----------------------------------------------------------------------------
(***************************************************************************)
(* The calls: a value returned, a variable, an array looked up.            *)
(***************************************************************************)
\* The calls that still wait after a return are those that waited before.
LEMMA FramesKept ==
  ASSUME NEW S, frames \in Seq(S),
         NEW fs, fs = frames \/ (frames # <<>> /\ fs = Front(frames))
  PROVE  /\ fs \in Seq(S)
         /\ Len(frames) \in Nat /\ Len(fs) \in Nat /\ Len(fs) <= Len(frames)
         /\ \A f \in 1 .. Len(fs) : fs[f] = frames[f]
<1>1. CASE fs = frames
  BY <1>1
<1>2. CASE frames # <<>> /\ fs = Front(frames)
  <2>1. /\ Front(frames) \in Seq(S) /\ Len(Front(frames)) = Len(frames) - 1
        /\ Len(frames) \in Nat \ {0}
        /\ \A k \in 1 .. Len(frames) - 1 : Front(frames)[k] = frames[k]
    BY <1>2, FrontFacts
  <2> QED
    BY <1>2, <2>1
<1> QED
  BY <1>1, <1>2

\* A call that waits differs, after another one has returned, at most in that
\* the table has moved since.
SameFrame(c, d) ==
  /\ d.operand = c.operand /\ d.set = c.set /\ d.len = c.len /\ d.new = c.new
  /\ c.stale => d.stale

LEMMA MovedFacts ==
  ASSUME NEW fs \in Seq(FrameSet)
  PROVE  /\ Moved(fs) \in Seq(FrameSet) /\ Len(Moved(fs)) = Len(fs)
         /\ \A f \in 1 .. Len(fs) : SameFrame(fs[f], Moved(fs)[f])
<1>1. \A f \in 1 .. Len(fs) :
         /\ [fs[f] EXCEPT !.stale = TRUE] \in FrameSet
         /\ SameFrame(fs[f], [fs[f] EXCEPT !.stale = TRUE])
  <2> SUFFICES ASSUME NEW c \in FrameSet
               PROVE  /\ [c EXCEPT !.stale = TRUE] \in FrameSet
                      /\ SameFrame(c, [c EXCEPT !.stale = TRUE])
    OBVIOUS
  <2> QED
    BY DEF FrameSet, SameFrame
<1>2. Len(fs) \in Nat
  OBVIOUS
<1> DEFINE e(f) == [fs[f] EXCEPT !.stale = TRUE]
<1>3. \A f \in 1 .. Len(fs) : e(f) \in FrameSet /\ SameFrame(fs[f], e(f))
  BY <1>1
<1> HIDE DEF e
<1>4. /\ [f \in 1 .. Len(fs) |-> e(f)] \in Seq(FrameSet)
      /\ Len([f \in 1 .. Len(fs) |-> e(f)]) = Len(fs)
  BY <1>2, <1>3
<1>5. Moved(fs) = [f \in 1 .. Len(fs) |-> e(f)]
  BY DEF Moved, e
<1> QED
  BY <1>3, <1>4, <1>5

\* A call that returns without a change of the table.
LEMMA ReturnStep ==
  ASSUME IInv, tok # None \/ ret # None, NEW v \in Ints, tok' = None, ret' = Value(v),
         frames' = frames \/ (frames # <<>> /\ frames' = Front(frames)),
         UNCHANGED <<vartable, instr, calls, how, vals, status, assigned>>
  PROVE  IInv'
<1>1. \A n : IsArray(n)' = IsArray(n) /\ LenOf(n)' = LenOf(n)
  BY DEF IsArray, LenOf
<1>2. /\ frames' \in Seq(FrameSet)
      /\ Len(frames) \in Nat /\ Len(frames') \in Nat /\ Len(frames') <= Len(frames)
      /\ \A f \in 1 .. Len(frames') : frames'[f] = frames[f]
  BY StateTypes, FramesKept
<1>3. ret' \in [type : {"VALUE"}, value : Ints] /\ ret' # None
  BY Kinds DEF Value
<1>4. TypeOK'
  BY <1>1, <1>2, <1>3 DEF IInv, TypeOK
<1>5. Progress'
  BY <1>3 DEF IInv, Progress, Quiet
<1>6. Waiting' /\ StillNew'
  BY <1>1, <1>2 DEF IInv, Waiting, StillNew, NewNames
<1>7. WithinIndex'
  <2> SUFFICES ASSUME NEW f \in 1 .. Len(frames'), NEW g \in f + 1 .. Len(frames')
               PROVE  NamesIn[frames'[g].operand] \subseteq NamesIn[frames'[f].operand.idx]
    BY DEF WithinIndex
  <2>1. f \in 1 .. Len(frames) /\ g \in f + 1 .. Len(frames) /\ g \in 1 .. Len(frames')
    BY <1>2
  <2>2. frames'[f] = frames[f] /\ frames'[g] = frames[g]
    BY <1>2, <2>1
  <2> QED
    BY <2>1, <2>2 DEF IInv, WithinIndex
<1>8. ArrayStaysFound'
  BY <1>1, <1>2 DEF IInv, ArrayStaysFound
<1>9. OwnValueOrZero'
  BY <1>1 DEF IInv, OwnValueOrZero
<1> QED
  BY <1>4, <1>5, <1>6, <1>7, <1>8, <1>9 DEF IInv

LEMMA ConstantIInv == ASSUME IInv, Constant PROVE IInv'
<1>1. /\ tok # None /\ tok.type = "INT_VAL" /\ tok' = None /\ ret' = Value(tok.value)
      /\ UNCHANGED <<vartable, instr, calls, how, frames, vals, status, assigned>>
  BY DEF Constant, Working, Return
<1>2. tok.value \in Ints
  BY <1>1, StateTypes, OperandKinds DEF OperandOK
<1> QED
  BY <1>1, <1>2, ReturnStep

LEMMA ArgcIInv == ASSUME IInv, Argc PROVE IInv'
<1>1. CASE Setting
  <2>1. UNCHANGED <<vartable, evalVars, assigned>> /\ status' = "stopped"
    BY <1>1 DEF Argc, Fail, Lost
  <2> QED
    BY <2>1, LostStep DEF Statuses
<1>2. CASE ~Setting
  <2>1. /\ tok # None /\ tok' = None /\ ret' = Value(Len(Argv))
        /\ UNCHANGED <<vartable, instr, calls, how, frames, vals, status, assigned>>
    BY <1>2 DEF Argc, Working, Return
  <2>2. Len(Argv) \in Ints
    BY LocalVarsAssumption
  <2> QED
    BY <2>1, <2>2, ReturnStep
<1> QED
  BY <1>1, <1>2

\* A call that returns with array b under the name n: calls whose index does
\* not use n are not disturbed.
LEMMA PutStep ==
  ASSUME IInv, tok # None \/ ret # None, NEW v \in Ints, tok' = None, ret' = Value(v),
         NEW n \in Names, NEW b \in Seq(Ints), Len(b) \in 1 .. IntMax,
         vartable' = [vartable EXCEPT ![n] = Array(b)],
         vartable[n].type # "LABEL", Len(b) >= LenOf(n),
         NEW fs, fs = frames \/ (frames # <<>> /\ fs = Front(frames)),
         \A f \in 1 .. Len(fs) : n \in NamesIn[frames[f].operand.idx],
         frames' = fs \/ (~IsArray(n) /\ Inserted(fs)),
         assigned' \in [Names -> [1 .. IntMax -> Ints]],
         \A m \in Names \ {n} : assigned'[m] = assigned[m],
         \A k \in 1 .. Len(b) : b[k] \in {assigned'[n][k], 0},
         UNCHANGED <<instr, calls, how, vals, status>>
  PROVE  IInv'
<1>1. /\ vartable' \in [Names -> Entry]
      /\ vartable'[n] = Array(b) /\ IsArray(n)' /\ LenOf(n)' = Len(b)
      /\ \A m \in Names \ {n} : /\ vartable'[m] = vartable[m]
                                /\ IsArray(m)' = IsArray(m) /\ LenOf(m)' = LenOf(m)
      /\ \A m \in Names : IsArray(m)' => LenOf(m)' \in 1 .. IntMax
  BY PutArray DEF IInv
<1>2. /\ frames' \in Seq(FrameSet)
      /\ Len(frames) \in Nat /\ Len(frames') \in Nat /\ Len(frames') <= Len(frames)
      /\ \A f \in 1 .. Len(frames') : /\ SameFrame(frames[f], frames'[f])
                                      /\ IsArray(n) => frames'[f].stale = frames[f].stale
                                      /\ n \in NamesIn[frames[f].operand.idx]
  <2>1. /\ fs \in Seq(FrameSet)
        /\ Len(frames) \in Nat /\ Len(fs) \in Nat /\ Len(fs) <= Len(frames)
        /\ \A f \in 1 .. Len(fs) : fs[f] = frames[f]
    BY StateTypes, FramesKept
  <2>2. CASE frames' = fs
    BY <2>1, <2>2 DEF SameFrame
  <2>3. CASE ~IsArray(n) /\ frames' = Moved(fs)
    <3>1. /\ Moved(fs) \in Seq(FrameSet) /\ Len(Moved(fs)) = Len(fs)
          /\ \A f \in 1 .. Len(fs) : SameFrame(fs[f], Moved(fs)[f])
      BY <2>1, MovedFacts
    <3> QED
      BY <2>1, <2>3, <3>1
  <2> QED
    BY <2>2, <2>3 DEF Inserted
<1>3. ret' \in [type : {"VALUE"}, value : Ints] /\ ret' # None
  BY Kinds DEF Value
<1>4. TypeOK'
  BY <1>1, <1>2, <1>3 DEF IInv, TypeOK
<1>5. Progress'
  BY <1>3 DEF IInv, Progress, Quiet
<1>6. \A f \in 1 .. Len(frames') : f \in 1 .. Len(frames) /\ frames[f] \in FrameSet
  <2>1. frames \in Seq(FrameSet)
    BY StateTypes
  <2> QED
    BY <1>2, <2>1
<1>7. Waiting'
  <2> SUFFICES ASSUME NEW f \in 1 .. Len(frames'), NEW m, m = frames[f].operand.name
               PROVE  /\ frames[f].operand.type = "INT_ARR"
                      /\ frames[f].set => how = "set"
                      /\ m # "argv" => vartable'[m].type # "LABEL" /\ frames[f].len <= LenOf(m)'
    BY <1>2 DEF Waiting, SameFrame
  <2>1. /\ frames[f].operand.type = "INT_ARR"
        /\ frames[f].set => how = "set"
        /\ m # "argv" => vartable[m].type # "LABEL" /\ frames[f].len <= LenOf(m)
    BY <1>6 DEF IInv, Waiting
  <2>2. CASE m # "argv"
    <3>1. m \in Names
      BY <1>6, <2>1, <2>2, OperandKinds DEF FrameSet, OperandOK
    <3>2. CASE m = n
      <4>1. vartable'[m].type # "LABEL" /\ LenOf(m)' >= LenOf(m)
        BY <1>1, <3>2, Kinds
      <4>2. LenOf(m) \in Int /\ LenOf(m)' \in Int /\ frames[f].len \in Int
        BY <1>1, <1>6, <3>1, <3>2, EntryFacts, IntsFacts DEF IInv, FrameSet
      <4> QED
        BY <2>1, <2>2, <4>1, <4>2
    <3>3. CASE m # n
      BY <1>1, <2>1, <3>1, <3>3
    <3> QED
      BY <3>2, <3>3
  <2> QED
    BY <2>1, <2>2
<1>8. WithinIndex'
  <2> SUFFICES ASSUME NEW f \in 1 .. Len(frames'), NEW g \in f + 1 .. Len(frames')
               PROVE  NamesIn[frames'[g].operand] \subseteq NamesIn[frames'[f].operand.idx]
    BY DEF WithinIndex
  <2>1. f \in 1 .. Len(frames) /\ g \in f + 1 .. Len(frames) /\ g \in 1 .. Len(frames')
    BY <1>2
  <2>2. frames'[f].operand = frames[f].operand /\ frames'[g].operand = frames[g].operand
    BY <1>2, <2>1 DEF SameFrame
  <2> QED
    BY <2>1, <2>2 DEF IInv, WithinIndex
<1>9. ArrayStaysFound'
  <2> SUFFICES ASSUME NEW f \in 1 .. Len(frames'), NEW m, m = frames[f].operand.name
               PROVE  /\ m \notin NamesIn[frames[f].operand.idx] \cup {"argv"}
                            => LenOf(m)' = frames[f].len
                      /\ frames'[f].stale => \E l \in frames[f].new : IsArray(l)'
    BY <1>2 DEF ArrayStaysFound, SameFrame
  <2>1. ASSUME m \notin NamesIn[frames[f].operand.idx] \cup {"argv"}
        PROVE  LenOf(m)' = frames[f].len
    <3>1. m # n
      BY <1>2, <2>1
    <3>2. m \in Names
      BY <1>6, <2>1, OperandKinds DEF FrameSet, OperandOK, IInv, Waiting
    <3>3. LenOf(m) = frames[f].len
      BY <1>6, <2>1 DEF IInv, ArrayStaysFound
    <3> QED
      BY <1>1, <3>1, <3>2, <3>3
  <2>2. ASSUME frames'[f].stale
        PROVE  \E l \in frames[f].new : IsArray(l)'
    <3>1. CASE IsArray(n)
      <4>1. PICK l \in frames[f].new : IsArray(l)
        BY <1>2, <1>6, <2>2, <3>1 DEF IInv, ArrayStaysFound
      <4>2. l \in Names
        BY <1>6 DEF FrameSet
      <4> QED
        BY <1>1, <4>1, <4>2
    <3>2. CASE ~IsArray(n)
      <4>1. vartable[n] = None
        BY <3>2, EntryFacts, Kinds DEF IInv
      <4>2. n \in NewNames(frames[f].operand.idx)
        BY <1>2, <4>1 DEF NewNames
      <4>3. n \in frames[f].new
        BY <1>6, <4>2 DEF IInv, StillNew
      <4> QED
        BY <1>1, <4>3
    <3> QED
      BY <3>1, <3>2
  <2> QED
    BY <2>1, <2>2
<1>11. StillNew'
  <2> SUFFICES ASSUME NEW f \in 1 .. Len(frames'), NEW l \in Names,
                      l \in NamesIn[frames[f].operand.idx], vartable'[l] = None
               PROVE  l \in frames[f].new
    BY <1>2 DEF StillNew, SameFrame, NewNames
  <2>1. IsArray(n)' /\ vartable'[n] # None
    BY <1>1, Kinds
  <2>2. l # n
    BY <2>1
  <2>3. l \in NewNames(frames[f].operand.idx)
    BY <1>1, <2>2 DEF NewNames
  <2> QED
    BY <1>6, <2>3 DEF IInv, StillNew
<1>10. OwnValueOrZero'
  <2> SUFFICES ASSUME NEW m \in Names, NEW k \in 1 .. LenOf(m)'
               PROVE  vartable'[m].arr[k] \in {assigned'[m][k], 0}
    BY DEF OwnValueOrZero
  <2>1. CASE m = n
    BY <1>1, <2>1, Kinds
  <2>2. CASE m # n
    BY <1>1, <2>2 DEF IInv, OwnValueOrZero
  <2> QED
    BY <2>1, <2>2
<1> QED
  BY <1>4, <1>5, <1>7, <1>8, <1>9, <1>10, <1>11 DEF IInv

\* A step puts an array under a name that is no label: one not shorter than
\* what was there, with its elements but for the one assigned and, when the
\* array grows, its last.
Puts(n, b) ==
  /\ vartable' = [vartable EXCEPT ![n] = Array(b)]
  /\ vartable[n].type # "LABEL"
  /\ Len(b) \in 1 .. IntMax /\ Len(b) >= LenOf(n)
  /\ \A k \in 1 .. LenOf(n) : \/ b[k] \in {vartable[n].arr[k], assigned'[n][k]}
                              \/ b[k] = 0 /\ k = LenOf(n) /\ Len(b) > LenOf(n)

TableStep == vartable' = vartable \/ \E n \in Names, b \in Seq(Ints) : Puts(n, b)

\* The names in an operand, and in the index of an array.
LEMMA NamesInFacts ==
  ASSUME NEW t \in Operands
  PROVE  /\ t.type = "INT_VAR" => NamesIn[t] = {t.name}
         /\ t.type = "INT_ARR" => NamesIn[t] = {t.name} \cup NamesIn[t.idx]
BY OperandsAreFinite DEF NamesOf

LEMMA VariableIInv == ASSUME IInv, Variable PROVE IInv' /\ TableStep
<1>1. PICK n : n = tok.name
  OBVIOUS
<1>2. /\ tok # None /\ tok.type = "INT_VAR" /\ n # "argc" /\ status = "ok"
  BY <1>1 DEF Variable, Working
<1>3. tok \in Operands /\ n \in Names
  BY <1>1, <1>2, StateTypes, OperandKinds DEF OperandOK
<1>4. CASE vartable[n].type = "LABEL" \/ LenOf(n) > 1
  <2>1. UNCHANGED <<vartable, evalVars, assigned>> /\ status' = "stopped"
    BY <1>1, <1>4 DEF Variable, Fail, Lost
  <2> QED
    BY <2>1, LostStep DEF Statuses, TableStep
<1>5. CASE ~(vartable[n].type = "LABEL" \/ LenOf(n) > 1)
  <2> DEFINE v == IF Setting THEN vals[1] ELSE IF IsArray(n) THEN vartable[n].arr[1] ELSE 0
  <2>1. /\ vartable' = [vartable EXCEPT ![n] = Array(<<v>>)]
        /\ tok' = None /\ ret' = Value(v)
        /\ frames' = frames \/ (~IsArray(n) /\ Inserted(frames))
        /\ assigned' = IF Setting THEN [assigned EXCEPT ![n][1] = v] ELSE assigned
        /\ UNCHANGED <<instr, calls, how, vals, status>>
    BY <1>1, <1>5 DEF Variable, Return, Assign
  <2>2. Setting => vals[1] \in Ints
    BY ValueToWrite DEF Setting
  <2>3. IsArray(n) => /\ LenOf(n) = 1 /\ vartable[n].arr[1] \in Ints
                      /\ vartable[n].arr[1] \in {assigned[n][1], 0}
    <3>1. IsArray(n) => LenOf(n) = 1 /\ vartable[n].arr \in Seq(Ints) /\ Len(vartable[n].arr) = 1
      <4>1. IsArray(n) => /\ vartable[n].arr \in Seq(Ints)
                          /\ LenOf(n) = Len(vartable[n].arr) /\ LenOf(n) \in 1 .. IntMax
        BY <1>3, EntryFacts DEF IInv
      <4>2. IsArray(n) => LenOf(n) \in Int /\ LenOf(n) >= 1
        BY <4>1, IntsFacts
      <4>3. IsArray(n) => LenOf(n) = 1
        BY <1>5, <4>2
      <4> QED
        BY <4>1, <4>3
    <3> QED
      BY <1>3, <3>1 DEF IInv, OwnValueOrZero
  <2>4. v \in Ints
    BY <2>2, <2>3, IntsFacts
  <2>5. /\ assigned' \in [Names -> [1 .. IntMax -> Ints]]
        /\ \A m \in Names \ {n} : assigned'[m] = assigned[m]
        /\ Setting => assigned'[n][1] = v
        /\ ~Setting => assigned'[n][1] = assigned[n][1]
    <3> HIDE DEF v
    <3> QED
      BY <1>3, <2>1, <2>4, StateTypes, IntsFacts
  <2>6. v \in {assigned'[n][1], 0}
    BY <2>3, <2>5
  <2>7. \A f \in 1 .. Len(frames) : n \in NamesIn[frames[f].operand.idx]
    BY <1>1, <1>3, <1>2, NamesInFacts DEF IInv, WithinIndex
  <2> DEFINE b == <<v>>
  <2> HIDE DEF v
  <2>8. /\ b \in Seq(Ints) /\ Len(b) = 1 /\ b[1] = v
    BY <2>4
  <2>9. /\ Len(b) \in 1 .. IntMax /\ Len(b) >= LenOf(n)
        /\ \A k \in 1 .. Len(b) : b[k] \in {assigned'[n][k], 0}
    BY <1>3, <1>5, <2>6, <2>8, EntryFacts, IntsFacts DEF IInv
  <2>10. \A k \in 1 .. LenOf(n) : k = 1 /\ v \in {vartable[n].arr[k], assigned'[n][k]}
    <3> SUFFICES ASSUME NEW k \in 1 .. LenOf(n)
                 PROVE  k = 1 /\ v \in {vartable[n].arr[k], assigned'[n][k]}
      OBVIOUS
    <3>1. IsArray(n)
      BY <1>3, EntryFacts DEF IInv
    <3>2. k = 1
      BY <2>3, <3>1
    <3>3. v = vartable[n].arr[1] \/ v = assigned'[n][1]
      BY <2>5, <3>1 DEF v
    <3> QED
      BY <3>2, <3>3
  <2>11. Puts(n, b)
    BY <1>5, <2>1, <2>8, <2>9, <2>10 DEF Puts
  <2> QED
    BY <1>2, <1>3, <1>5, <2>1, <2>4, <2>5, <2>7, <2>8, <2>9, <2>11, PutStep DEF TableStep
<1> QED
  BY <1>4, <1>5

LEMMA AppendFacts ==
  ASSUME NEW S, NEW s \in Seq(S), NEW e \in S
  PROVE  /\ Append(s, e) \in Seq(S) /\ Len(Append(s, e)) = Len(s) + 1 /\ Len(s) \in Nat
         /\ Append(s, e)[Len(s) + 1] = e
         /\ \A k \in 1 .. Len(s) : Append(s, e)[k] = s[k]
OBVIOUS

LEMMA LookupIInv == ASSUME IInv, Lookup PROVE IInv'
<1>1. PICK t : t = tok
  OBVIOUS
<1>2. /\ t # None /\ t.type = "INT_ARR" /\ t \in Operands /\ status = "ok"
      /\ t.name \in Names \cup {"argv"} /\ t.idx \in Operands /\ t.idx # None
      /\ ret = None
  <2>1. tok # None /\ tok.type = "INT_ARR" /\ status = "ok"
    BY DEF Lookup, Working
  <2>2. t \in Operands /\ ret = None
    BY <1>1, <2>1, StateTypes DEF IInv, Progress
  <2>3. t.name \in Names \cup {"argv"} /\ t.idx \in Operands
    BY <1>1, <2>1, <2>2, OperandKinds DEF OperandOK
  <2> QED
    BY <1>1, <2>1, <2>2, <2>3, OperandKinds
<1>3. CASE Refused(t.name)
  <2>1. UNCHANGED <<vartable, evalVars, assigned>> /\ status' = "stopped"
    BY <1>1, <1>3 DEF Lookup, Fail, Lost
  <2> QED
    BY <2>1, LostStep DEF Statuses
<1>4. CASE ~Refused(t.name)
  <2> DEFINE c == [operand |-> t, set |-> Setting,
                   len |-> IF t.name = "argv" THEN 0 ELSE LenOf(t.name),
                   stale |-> FALSE, new |-> NewNames(t.idx)]
  <2>1. PICK n : n = t.name
    OBVIOUS
  <2>2. /\ frames' = Append(frames, c) /\ tok' = t.idx
        /\ UNCHANGED <<vartable, instr, calls, how, ret, vals, status, assigned>>
    BY <1>1, <1>4 DEF Lookup, Found
  <2>3. n # "argv" => n \in Names /\ vartable[n].type # "LABEL" /\ LenOf(n) \in 0 .. IntMax
    BY <1>2, <1>4, <2>1, EntryFacts DEF IInv, Refused
  <2>4. /\ c.operand = t /\ (c.set => how = "set")
        /\ c.len = IF n = "argv" THEN 0 ELSE LenOf(n)
        /\ c.stale = FALSE /\ c.new = NewNames(t.idx)
    BY <2>1 DEF Setting
  <2>5. c \in FrameSet
    <3>1. (IF t.name = "argv" THEN 0 ELSE LenOf(t.name)) \in 0 .. IntMax
      BY <2>1, <2>3, IntsFacts
    <3>2. Setting \in BOOLEAN
      BY DEF Setting
    <3>3. NewNames(t.idx) \in SUBSET Names
      BY DEF NewNames
    <3> QED
      BY <1>2, <3>1, <3>2, <3>3 DEF FrameSet
  <2> HIDE DEF c
  <2>6. /\ frames \in Seq(FrameSet) /\ frames' \in Seq(FrameSet) /\ Len(frames) \in Nat
        /\ Len(frames') = Len(frames) + 1 /\ frames'[Len(frames) + 1] = c
        /\ \A f \in 1 .. Len(frames) : frames'[f] = frames[f]
    BY <2>2, <2>5, StateTypes, AppendFacts
  <2>7. \A m : IsArray(m)' = IsArray(m) /\ LenOf(m)' = LenOf(m)
    BY <2>2 DEF IsArray, LenOf
  <2>8. TypeOK'
    BY <1>2, <2>2, <2>6, <2>7 DEF IInv, TypeOK
  <2>9. Progress'
    BY <1>1, <1>2, <2>2 DEF IInv, Progress, Quiet
  <2>10. \A f \in 1 .. Len(frames') : f \in 1 .. Len(frames) \/ f = Len(frames) + 1
    BY <2>6
  <2>11. Waiting'
    BY <1>2, <2>1, <2>2, <2>3, <2>4, <2>6, <2>7, <2>10, IntsFacts DEF IInv, Waiting
  <2>12. ArrayStaysFound'
    BY <2>1, <2>4, <2>6, <2>7, <2>10 DEF IInv, ArrayStaysFound
  <2>13. WithinIndex'
    <3>1. NamesIn[t.idx] \subseteq NamesIn[t]
      BY <1>2, NamesInFacts
    <3>2. \A f \in 1 .. Len(frames) : /\ NamesIn[t] \subseteq NamesIn[frames'[f].operand.idx]
                                      /\ NamesIn[t.idx] \subseteq NamesIn[frames'[f].operand.idx]
      BY <1>1, <1>2, <2>6, <3>1 DEF IInv, WithinIndex
    <3>3. \A f \in 1 .. Len(frames') : NamesIn[tok'] \subseteq NamesIn[frames'[f].operand.idx]
      BY <2>2, <2>4, <2>6, <2>10, <3>2
    <3>4. ASSUME NEW f \in 1 .. Len(frames'), NEW g \in f + 1 .. Len(frames')
          PROVE  NamesIn[frames'[g].operand] \subseteq NamesIn[frames'[f].operand.idx]
      <4>1. f \in 1 .. Len(frames) /\ frames'[f] = frames[f]
        BY <2>6
      <4>2. CASE g = Len(frames) + 1
        BY <2>4, <2>6, <3>2, <4>1, <4>2
      <4>3. CASE g # Len(frames) + 1
        <5>1. g \in f + 1 .. Len(frames) /\ frames'[g] = frames[g]
          BY <2>6, <4>3
        <5> QED
          BY <4>1, <5>1 DEF IInv, WithinIndex
      <4> QED
        BY <4>2, <4>3
    <3> QED
      BY <3>3, <3>4 DEF WithinIndex
  <2>15. StillNew'
    <3>1. \A x : NewNames(x)' = NewNames(x)
      BY <2>2 DEF NewNames
    <3> QED
      BY <2>4, <2>6, <2>10, <3>1 DEF IInv, StillNew
  <2>14. OwnValueOrZero'
    BY <2>2, <2>7 DEF IInv, OwnValueOrZero
  <2> QED
    BY <2>8, <2>9, <2>11, <2>12, <2>13, <2>14, <2>15 DEF IInv
<1> QED
  BY <1>3, <1>4

-----------------------------------------------------------------------------
(***************************************************************************)
(* The index has been evaluated.                                           *)
(***************************************************************************)
LEMMA IndexingFacts ==
  ASSUME IInv, Indexing
  PROVE  /\ tok = None /\ ret # None /\ ret.value \in Ints /\ frames # <<>>
         /\ Frame.len \in 0 .. IntMax /\ Frame.operand.name \in Names \cup {"argv"}
         /\ Frame.set => vals[1] \in Ints
         /\ Frame.operand.name # "argv" =>
               /\ vartable[Frame.operand.name].type # "LABEL"
               /\ Frame.len <= LenOf(Frame.operand.name)
         /\ \A f \in 1 .. Len(Front(frames)) :
               Frame.operand.name \in NamesIn[frames[f].operand.idx]
<1>1. /\ frames \in Seq(FrameSet) /\ frames # <<>> /\ ret # None /\ ret.value \in Ints
      /\ tok = None /\ vals \in Seq(Ints)
  BY StateTypes DEF Indexing, IInv, Progress
<1>2. /\ Len(frames) \in Nat \ {0} /\ Frame \in FrameSet
      /\ Len(Front(frames)) = Len(frames) - 1
  BY <1>1, FrontFacts DEF Frame
<1>3. /\ Frame.operand.type = "INT_ARR"
      /\ Frame.set => how = "set"
      /\ Frame.operand.name # "argv" =>
            /\ vartable[Frame.operand.name].type # "LABEL"
            /\ Frame.len <= LenOf(Frame.operand.name)
  BY <1>2 DEF IInv, Waiting, Frame
<1>4. /\ Frame.operand \in Operands /\ Frame.len \in 0 .. IntMax
      /\ Frame.operand.name \in Names \cup {"argv"}
  BY <1>2, <1>3, OperandKinds DEF FrameSet, OperandOK
<1>5. Frame.set => vals[1] \in Ints
  BY <1>3, ValueToWrite
<1>6. ASSUME NEW f \in 1 .. Len(Front(frames))
      PROVE  Frame.operand.name \in NamesIn[frames[f].operand.idx]
  <2>1. f \in 1 .. Len(frames) /\ Len(frames) \in f + 1 .. Len(frames)
    BY <1>2
  <2>2. NamesIn[Frame.operand] \subseteq NamesIn[frames[f].operand.idx]
    BY <2>1 DEF IInv, WithinIndex, Frame
  <2> QED
    BY <1>3, <1>4, <2>2, NamesInFacts
<1> QED
  BY <1>1, <1>3, <1>4, <1>5, <1>6

LEMMA FailIInv ==
  ASSUME IInv, NEW s \in Statuses, Lost(s)
  PROVE  IInv'
BY LostStep DEF Lost

LEMMA IndexArgvIInv == ASSUME IInv, IndexArgv PROVE IInv'
<1> DEFINE i == ret.value
           argv == <<Id, Len(Argv)>> \o Argv
<1>1. Indexing
  BY DEF IndexArgv
<1>2. CASE \E s \in {"stopped", "double free", "out of bounds"} : Lost(s)
  BY <1>2, FailIInv DEF Statuses
<1>3. CASE /\ i \in -2 .. Len(Argv) - 1
           /\ ret' = Value(argv[i + 3])
           /\ frames' = Front(frames)
           /\ UNCHANGED <<vartable, instr, calls, how, tok, vals, status, assigned>>
  <2>1. Argv \in Seq(Ints) /\ Id \in Ints /\ Len(Argv) \in Ints
    BY LocalVarsAssumption
  <2>2. <<Id, Len(Argv)>> \in Seq(Ints)
    BY <2>1
  <2>3. argv \in Seq(Ints) /\ Len(argv) = Len(Argv) + 2
    BY <2>1, <2>2
  <2>4. i \in Int /\ Len(Argv) \in Nat
    <3>1. i \in Ints
      BY <1>1, IndexingFacts
    <3>2. Len(Argv) \in Nat
      BY <2>1
    <3> QED
      BY <3>1, <3>2, IntsFacts
  <2> HIDE DEF argv
  <2>5. argv[i + 3] \in Ints
    BY <1>3, <2>3, <2>4
  <2>6. tok = None /\ ret # None /\ frames # <<>>
    BY <1>1, IndexingFacts
  <2> QED
    BY <1>3, <2>5, <2>6, ReturnStep
<1> QED
  BY <1>2, <1>3 DEF IndexArgv, Fail

\* The element of the array a under the name n is used.
LEMMA UseElementIInv ==
  ASSUME IInv, Indexing, NEW n \in Names, n = Frame.operand.name,
         NEW i \in 0 .. IntMax - 1, NEW a \in Seq(Ints), UseElement(n, a, i),
         vartable[n].type # "LABEL", Len(a) \in i + 1 .. IntMax, Len(a) >= LenOf(n),
         \A k \in 1 .. Len(a) : a[k] \in {assigned[n][k], 0},
         \A k \in 1 .. LenOf(n) : \/ a[k] = vartable[n].arr[k]
                                  \/ a[k] = 0 /\ k = LenOf(n) /\ Len(a) > LenOf(n),
         frames' = Front(frames) \/ (~IsArray(n) /\ Inserted(Front(frames)))
  PROVE  IInv' /\ TableStep
<1> DEFINE b == IF Frame.set THEN Written(a, i, vals[1]) ELSE a
<1>1. /\ vartable' = [vartable EXCEPT ![n] = Array(b)]
      /\ ret' = Value(b[i + 1])
      /\ assigned' = IF Frame.set THEN [assigned EXCEPT ![n][i + 1] = vals[1]] ELSE assigned
      /\ UNCHANGED <<instr, calls, how, tok, vals, status>>
  BY DEF UseElement, Assign
<1>2. /\ tok = None /\ ret # None /\ frames # <<>>
      /\ Frame.set => vals[1] \in Ints
      /\ \A f \in 1 .. Len(Front(frames)) : n \in NamesIn[frames[f].operand.idx]
  BY IndexingFacts
<1>3. i + 1 \in 1 .. Len(a) /\ i \in 0 .. Len(a) - 1 /\ Len(a) \in 1 .. IntMax
      /\ i + 1 \in 1 .. IntMax
  BY IntsFacts
<1>4. /\ b \in Seq(Ints) /\ Len(b) = Len(a)
      /\ \A k \in 1 .. Len(a) : b[k] = IF Frame.set /\ k = i + 1 THEN vals[1] ELSE a[k]
  <2>1. CASE Frame.set
    <3>1. PICK v \in Ints : v = vals[1]
      BY <1>2, <2>1
    <3>2. b = Written(a, i, v)
      BY <2>1, <3>1
    <3>3. /\ Written(a, i, v) \in Seq(Ints) /\ Len(Written(a, i, v)) = Len(a)
          /\ \A k \in 1 .. Len(a) : Written(a, i, v)[k] = IF k = i + 1 THEN v ELSE a[k]
      BY <1>3, WrittenFacts
    <3> HIDE DEF b
    <3> QED
      BY <2>1, <3>1, <3>2, <3>3
  <2>2. CASE ~Frame.set
    BY <2>2
  <2> QED
    BY <2>1, <2>2
<1>5. b[i + 1] \in Ints
  BY <1>3, <1>4
<1>6. /\ assigned' \in [Names -> [1 .. IntMax -> Ints]]
      /\ \A m \in Names \ {n} : assigned'[m] = assigned[m]
      /\ \A k \in 1 .. IntMax :
            assigned'[n][k] = IF Frame.set /\ k = i + 1 THEN vals[1] ELSE assigned[n][k]
  BY <1>1, <1>2, <1>3, StateTypes
<1> HIDE DEF b
<1>7. \A k \in 1 .. Len(b) : b[k] \in {assigned'[n][k], 0}
  <2> SUFFICES ASSUME NEW k \in 1 .. Len(a) PROVE b[k] \in {assigned'[n][k], 0}
    BY <1>4
  <2>1. k \in 1 .. IntMax
    BY <1>3, IntsFacts
  <2> QED
    BY <1>4, <1>6, <2>1
<1>8. Puts(n, b)
  <2>1. \A k \in 1 .. LenOf(n) : k \in 1 .. Len(a) /\ k \in 1 .. IntMax
    BY <1>3, EntryFacts, IntsFacts DEF IInv
  <2>2. \A k \in 1 .. LenOf(n) : b[k] = a[k] \/ b[k] = assigned'[n][k]
    BY <1>4, <1>6, <2>1
  <2> QED
    BY <1>1, <1>3, <1>4, <2>2 DEF Puts
<1> QED
  BY <1>1, <1>2, <1>3, <1>4, <1>5, <1>6, <1>7, <1>8, PutStep DEF TableStep

LEMMA IndexFoundIInv == ASSUME IInv, IndexFound PROVE IInv' /\ TableStep
<1> DEFINE i == ret.value
<1>1. PICK n : n = Frame.operand.name
  OBVIOUS
<1>2. Indexing /\ n # "argv" /\ Frame.len > 0
  BY <1>1 DEF IndexFound
<1>3. CASE \E s \in {"stopped", "double free", "freed array", "moved pair", "out of bounds"} :
              Lost(s)
  BY <1>3, FailIInv DEF Statuses, Lost, TableStep
<1>4. CASE /\ i \in 0 .. IntMax - 1 /\ UseElement(n, Grown(vartable[n].arr, i), i)
           /\ frames' = Front(frames)
  <2>1. n \in Names /\ vartable[n].type # "LABEL" /\ LenOf(n) > 0
    <3>1. /\ n \in Names /\ vartable[n].type # "LABEL"
          /\ Frame.len \in 0 .. IntMax /\ Frame.len <= LenOf(n)
      BY <1>1, <1>2, IndexingFacts
    <3>2. LenOf(n) \in 0 .. IntMax
      BY <3>1, EntryFacts DEF IInv
    <3> QED
      BY <1>2, <3>1, <3>2, IntsFacts
  <2> DEFINE a == vartable[n].arr
  <2>2. /\ IsArray(n) /\ a \in Seq(Ints) /\ LenOf(n) = Len(a) /\ Len(a) \in 1 .. IntMax
    BY <2>1, EntryFacts DEF IInv
  <2>3. \A k \in 1 .. Len(a) : a[k] \in {assigned[n][k], 0}
    BY <2>1, <2>2 DEF IInv, OwnValueOrZero
  <2> HIDE DEF a, i
  <2> DEFINE g == Grown(a, i)
  <2>4. /\ g \in Seq(Ints) /\ Len(g) \in i + 1 .. IntMax /\ Len(g) >= Len(a)
        /\ \A k \in 1 .. Len(g) : \/ k \in 1 .. Len(a) /\ g[k] = a[k]
                                  \/ g[k] = 0 /\ k >= Len(a) /\ Len(g) > Len(a)
    BY <1>4, <2>2, GrownFacts
  <2>5. \A k \in 1 .. Len(g) : g[k] \in {assigned[n][k], 0}
    BY <2>3, <2>4
  <2>6. UseElement(n, g, i) /\ i \in 0 .. IntMax - 1
    BY <1>4 DEF a
  <2>7. \A k \in 1 .. LenOf(n) : \/ g[k] = vartable[n].arr[k]
                                 \/ g[k] = 0 /\ k = LenOf(n) /\ Len(g) > LenOf(n)
    <3> SUFFICES ASSUME NEW k \in 1 .. Len(a)
                 PROVE  g[k] = a[k] \/ (g[k] = 0 /\ k = Len(a) /\ Len(g) > Len(a))
      BY <2>2 DEF a
    <3>1. k \in 1 .. Len(g)
      BY <2>2, <2>4
    <3> QED
      BY <2>2, <2>4, <3>1
  <2>8. Len(g) >= LenOf(n)
    BY <2>2, <2>4
  <2> HIDE DEF g
  <2> QED
    BY <1>1, <1>2, <1>4, <2>1, <2>4, <2>5, <2>6, <2>7, <2>8, UseElementIInv
<1> QED
  BY <1>1, <1>3, <1>4 DEF IndexFound, Fail

LEMMA IndexNewIInv == ASSUME IInv, IndexNew PROVE IInv' /\ TableStep
<1> DEFINE i == ret.value
<1>1. PICK n : n = Frame.operand.name
  OBVIOUS
<1>2. Indexing /\ n # "argv"
  BY <1>1 DEF IndexNew
<1>3. CASE \E s \in {"stopped", "double free", "exited"} : Lost(s)
  BY <1>3, FailIInv DEF Statuses, Lost, TableStep
<1>4. CASE /\ i \in 0 .. IntMax - 1 /\ ~IsArray(n) /\ UseElement(n, [k \in 1 .. i + 1 |-> 0], i)
           /\ Inserted(Front(frames))
  <2>1. n \in Names /\ vartable[n].type # "LABEL" /\ LenOf(n) = 0
    BY <1>1, <1>2, <1>4, IndexingFacts, EntryFacts DEF IInv
  <2> HIDE DEF i
  <2> DEFINE z == [k \in 1 .. i + 1 |-> 0]
  <2>2. /\ z \in Seq(Ints) /\ Len(z) = i + 1
        /\ \A k \in 1 .. i + 1 : z[k] = 0
    BY <1>4, ZerosFacts
  <2>3. Len(z) \in i + 1 .. IntMax /\ Len(z) >= LenOf(n) /\ i \in 0 .. IntMax - 1
    BY <1>4, <2>1, <2>2, IntsFacts
  <2>4. \A k \in 1 .. Len(z) : z[k] \in {assigned[n][k], 0}
    BY <2>2
  <2>5. UseElement(n, z, i)
    BY <1>4
  <2>6. \A k \in 1 .. LenOf(n) : FALSE
    BY <2>1
  <2> HIDE DEF z
  <2> QED
    BY <1>1, <1>2, <1>4, <2>1, <2>2, <2>3, <2>4, <2>5, <2>6, UseElementIInv
<1> QED
  BY <1>1, <1>3, <1>4 DEF IndexNew, Fail

-----------------------------------------------------------------------------
LEMMA NextIInv == IInv /\ [Next]_vars => IInv'
<1> SUFFICES ASSUME IInv, [Next]_vars PROVE IInv'
  OBVIOUS
<1>1. CASE UNCHANGED vars
  BY <1>1, LostStep, StateTypes DEF vars
<1>2. CASE Trap
  BY <1>2, FailIInv DEF Trap, Statuses
<1>3. CASE Next
  BY <1>1, <1>2, <1>3, StartInstructionIInv, LabelLineIInv, ReadOperandIInv, TakeValueIInv,
     WriteDestinationIInv, EndReadingIInv, BranchIInv, ConstantIInv, ArgcIInv,
     VariableIInv, LookupIInv, IndexArgvIInv, IndexFoundIInv, IndexNewIInv DEF Next, Ended
<1> QED
  BY <1>1, <1>3

\* The table, the handler, the calls that wait and the arrays they have found
\* agree after every call of exec.c:69-433.
THEOREM LocalVarsInvariant == Spec => []IInv
<1> QED
  BY InitIInv, NextIInv, PTL DEF Spec

\* The table, the operands in work and the calls that wait are always what
\* exec.c takes them for, and every value is an int (exec.c:69-433, 636-677).
THEOREM LocalVarsTyped == Spec => []TypeOK
<1>1. IInv => TypeOK
  BY DEF IInv
<1> QED
  BY <1>1, LocalVarsInvariant, PTL

\* An element has the value last assigned to it, or 0, wherever arrays have
\* grown and moved meanwhile (exec.c:157-187, 326-347).
THEOREM ElementsKeepTheirOwn == Spec => []OwnValueOrZero
<1>1. IInv => OwnValueOrZero
  BY DEF IInv
<1> QED
  BY <1>1, LocalVarsInvariant, PTL

\* What was found before an index is evaluated stays valid: the array unless
\* the index uses it too, its place in the table unless the index makes a
\* variable under a new name (exec.c:132-179, 285-335).
THEOREM FoundArraysStay == Spec => []ArrayStaysFound
<1>1. IInv => ArrayStaysFound
  BY DEF IInv
<1> QED
  BY <1>1, LocalVarsInvariant, PTL

\* Only labels enter the table without an array, where there was nothing.
LEMMA LabelsEnter ==
  ASSUME IInv, LabelLine \/ Branch
  PROVE  \A m \in Names : vartable[m] # None => vartable'[m] = vartable[m]
<1>1. CASE vartable' = vartable
  BY <1>1
<1>2. CASE \E n \in Names, o \in Offsets : status = "ok" /\ InsertLabel(n, o)
  BY <1>2, InsertLabelFacts
<1>3. CASE Branch
  <2>1. AllRead /\ instr.op = "BRANCH"
    BY <1>3 DEF Branch
  <2>2. instr.label \in Names /\ status = "ok"
    BY <2>1, AllReadFacts DEF InstructionOK, Binary, AllRead
  <2> QED
    BY <1>1, <1>2, <1>3, <2>2 DEF Branch
<1> QED
  BY <1>2, <1>3 DEF LabelLine

\* What a step makes of the table.
LEMMA NextTable ==
  ASSUME IInv, [Next]_vars
  PROVE  \/ TableStep
         \/ \A m \in Names : vartable[m] # None => vartable'[m] = vartable[m]
<1>1. CASE vartable' = vartable
  BY <1>1 DEF TableStep
<1>2. CASE LabelLine \/ Branch
  BY <1>2, LabelsEnter
<1>3. CASE Variable \/ IndexFound \/ IndexNew
  BY <1>3, VariableIInv, IndexFoundIInv, IndexNewIInv
<1>4. CASE StartInstruction \/ ReadOperand \/ TakeValue \/ WriteDestination \/ Trap \/ EndReading
  BY <1>1, <1>4 DEF StartInstruction, ReadOperand, TakeValue, WriteDestination, Trap, Lost,
     EndReading
<1>5. CASE Constant \/ Argc \/ Lookup \/ IndexArgv
  BY <1>1, <1>5 DEF Constant, Argc, Lookup, IndexArgv, Fail, Lost
<1> QED
  BY <1>1, <1>2, <1>3, <1>4, <1>5 DEF Next, Ended, vars

\* A name keeps its meaning and its length in every step.
LEMMA NextKeepsMeaning ==
  ASSUME IInv, [Next]_vars, NEW m \in Names
  PROVE  KeepsMeaning(m) /\ KeepsTheRest(m)
<1>1. CASE vartable[m] # None => vartable'[m] = vartable[m]
  <2>1. IsArray(m) => vartable'[m] = vartable[m] /\ LenOf(m)' = LenOf(m)
    BY <1>1, Kinds DEF IsArray, LenOf
  <2>2. LenOf(m) \in Int
    BY EntryFacts, IntsFacts DEF IInv
  <2> QED
    BY <1>1, <2>1, <2>2 DEF KeepsMeaning, KeepsTheRest
<1>2. CASE \E n \in Names, b \in Seq(Ints) : Puts(n, b)
  <2>1. PICK n \in Names, b \in Seq(Ints) : Puts(n, b)
    BY <1>2
  <2>2. /\ vartable'[n] = Array(b) /\ LenOf(n)' = Len(b)
        /\ m # n => vartable'[m] = vartable[m]
    BY <2>1, PutArray DEF IInv, Puts
  <2>3. CASE m = n
    <3>1. vartable'[m].type = "ARRAY" /\ vartable'[m].arr = b
      BY <2>2, <2>3, Kinds
    <3>2. vartable[m] # None => IsArray(m)
      BY <2>1, <2>3, EntryFacts, Kinds DEF IInv, Puts
    <3>3. KeepsMeaning(m)
      BY <2>1, <2>2, <2>3, <3>1, <3>2 DEF KeepsMeaning, Puts, IsArray
    <3>4. KeepsTheRest(m)
      BY <2>1, <2>2, <2>3, <3>1 DEF KeepsTheRest, Puts
    <3> QED
      BY <3>3, <3>4
  <2> QED
    BY <1>1, <2>2, <2>3
<1> QED
  BY <1>1, <1>2, NextTable DEF TableStep

\* A variable never turns into a label nor a label into a variable, an array
\* never gets shorter, a label never moves (exec.c:128-182, 281-347, 435-462).
THEOREM NamesKeepMeaning == Spec => NamesKeepTheirMeaning
<1>1. IInv /\ [Next]_vars => [\A n \in Names : KeepsMeaning(n)]_vars
  BY NextKeepsMeaning
<1> QED
  BY <1>1, LocalVarsInvariant, PTL DEF Spec, NamesKeepTheirMeaning

\* A step changes no element but the one it assigns and, of an array that
\* grows, the last (exec.c:170-182, 332-347).
THEOREM GrowthKeepsElements == Spec => GrowthKeepsTheRest
<1>1. IInv /\ [Next]_vars => [\A n \in Names : KeepsTheRest(n)]_vars
  BY NextKeepsMeaning
<1> QED
  BY <1>1, LocalVarsInvariant, PTL DEF Spec, GrowthKeepsTheRest

=============================================================================
