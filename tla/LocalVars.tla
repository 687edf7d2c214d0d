----------------------------- MODULE LocalVars -----------------------------
(***************************************************************************)
(* The local variables of one program: __varval_get_value and              *)
(* __varval_set_value of src/exec.c with the handlers that call them, and  *)
(* the labels, which live in the same table.  An index is an operand of    *)
(* its own: the functions look the array up, call themselves for the       *)
(* index, and go on with the array they found before.                      *)
(***************************************************************************)
EXTENDS Integers, Sequences

CONSTANTS
  Names,          \* bound: the names of variables and labels
  Operands,       \* bound: the operands of the instructions
  Instructions,   \* bound: [op, args, dst], or [op, args, label] for branches
  Offsets,        \* bound: the places of labels in the file
  Loaded,         \* bound: the values LOAD finds in a global
  Argv,           \* the arguments of the program, after ID and argc
  Id,             \* argv[0]
  IntMin, IntMax  \* INT_MIN and INT_MAX

VARIABLES
  vartable,   \* name -> nothing, an array (arr[0] is its length), or a label
  instr,      \* the instruction that is executed
  calls,      \* the operands it has still to read or write
  how,        \* the call under way is __varval_"get"_value or "set"
  tok,        \* the operand the innermost call works on
  frames,     \* the calls that wait for their index, innermost last
  ret,        \* what the innermost call has returned
  vals,       \* the values the instruction has read
  status,     \* "ok", "stopped" by program_stop, or how the process was lost
  assigned    \* history: the value last assigned to each element

None == [type |-> "NONE"]       \* no operand, no value, nothing in the table

Ints == IntMin .. IntMax

\* an operand is an integer, a variable, or an array with an index
OperandOK(t) ==
  \/ t.type = "INT_VAL" /\ t.value \in Ints
  \/ t.type = "INT_VAR" /\ t.name \in Names \cup {"argc"}
  \/ t.type = "INT_ARR" /\ t.name \in Names \cup {"argv"} /\ t.idx \in Operands

Binary == {"ADD", "SUB", "MUL", "DIV", "MOD"}

\* what the instruction table of src/exec.c makes the scanner ask for
InstructionOK(i) ==
  /\ i.args \in Seq(Operands)
  /\ \/ i.op = "PRINT"
     \/ i.op = "BRANCH" /\ i.label \in Names
     \/ i.op = "LOAD" /\ i.dst \in Operands
     \/ i.op = "SET" /\ i.dst \in Operands /\ Len(i.args) = 1
     \/ i.op \in Binary /\ i.dst \in Operands /\ Len(i.args) = 2

ASSUME LocalVarsAssumption ==
  /\ IntMax \in Nat \ {0} /\ IntMin = -IntMax - 1
  /\ Loaded \subseteq Ints /\ Argv \in Seq(Ints) /\ Len(Argv) \in Ints /\ Id \in Ints
  /\ \A t \in Operands : OperandOK(t)
  /\ \A i \in Instructions : i # None /\ InstructionOK(i)

NamesOf(t, index) ==
  CASE t.type = "INT_VAL" -> {}
    [] t.type = "INT_VAR" -> {t.name}
    [] t.type = "INT_ARR" -> {t.name} \cup index

NamesIn[t \in Operands] ==
  NamesOf(t, IF t.type = "INT_ARR" THEN NamesIn[t.idx] ELSE {})

\* the scanner makes operands from finite text: none is part of its own index,
\* and the names in it are those the recursion collects
ASSUME OperandsAreFinite ==
  \A t \in Operands :
     NamesIn[t] = NamesOf(t, IF t.type = "INT_ARR" THEN NamesIn[t.idx] ELSE {})

evalVars == <<instr, calls, how, tok, frames, ret, vals>>
vars == <<vartable, evalVars, status, assigned>>

Value(v) == [type |-> "VALUE", value |-> v]
Array(a) == [type |-> "ARRAY", arr |-> a]
Label(o) == [type |-> "LABEL", offset |-> o]

IsArray(n) == vartable[n].type = "ARRAY"
LenOf(n) == IF IsArray(n) THEN Len(vartable[n].arr) ELSE 0

\* the result of an int operation, as the machine wraps it
Wrap(x) == ((x - IntMin) % (IntMax - IntMin + 1)) + IntMin

Abs(x) == IF x < 0 THEN -x ELSE x
Sign(x) == IF x < 0 THEN -1 ELSE 1

\* the switch of primitive_op_handler, for a divisor other than 0
Apply(op, x, y) ==
  CASE op = "ADD" -> Wrap(x + y)
    [] op = "SUB" -> Wrap(x - y)
    [] op = "MUL" -> Wrap(x * y)
    [] op = "DIV" -> Sign(x) * Sign(y) * (Abs(x) \div Abs(y))
    [] op = "MOD" -> Sign(x) * (Abs(x) % Abs(y))

Init ==
  /\ vartable = [n \in Names |-> None]
  /\ instr = None /\ calls = <<>> /\ how = "get" /\ tok = None
  /\ frames = <<>> /\ ret = None /\ vals = <<>>
  /\ status = "ok"
  /\ assigned = [n \in Names |-> [k \in 1 .. IntMax |-> 0]]

-----------------------------------------------------------------------------
(***************************************************************************)
(* The handlers: read the operands in turn, then write the destination.    *)
(***************************************************************************)
Quiet == tok = None /\ ret = None

StartInstruction ==
  /\ status = "ok" /\ instr = None
  /\ \E i \in Instructions : instr' = i /\ calls' = i.args
  /\ vals' = <<>>
  /\ UNCHANGED <<vartable, how, tok, frames, ret, status, assigned>>

ReadOperand ==
  /\ status = "ok" /\ Quiet /\ calls # <<>>
  /\ how' = "get" /\ tok' = Head(calls) /\ calls' = Tail(calls)
  /\ UNCHANGED <<vartable, instr, frames, ret, vals, status, assigned>>

\* a call of the handler itself has returned
TakeValue ==
  /\ status = "ok" /\ ret # None /\ frames = <<>>
  /\ IF how = "get" THEN vals' = Append(vals, ret.value) /\ UNCHANGED instr
                    ELSE instr' = None /\ UNCHANGED vals
  /\ how' = "get" /\ ret' = None
  /\ UNCHANGED <<vartable, calls, tok, frames, status, assigned>>

AllRead == status = "ok" /\ instr # None /\ Quiet /\ calls = <<>>

\* DIV and MOD by 0, and of INT_MIN by -1, raise SIGFPE
Traps == /\ instr.op \in {"DIV", "MOD"}
         /\ vals[2] = 0 \/ (vals[1] = IntMin /\ vals[2] = -1)

\* SET, LOAD (the value of the global is any), and the arithmetic
WriteDestination ==
  /\ AllRead /\ instr.op \in {"SET", "LOAD"} \cup Binary
  /\ ~Traps
  /\ \E v \in CASE instr.op = "SET" -> {vals[1]}
                [] instr.op = "LOAD" -> Loaded
                [] OTHER -> {Apply(instr.op, vals[1], vals[2])} :
        vals' = <<v>>
  /\ how' = "set" /\ tok' = instr.dst
  /\ UNCHANGED <<vartable, instr, calls, frames, ret, status, assigned>>

\* the process is lost with all its programs, or anything may follow
Lost(s) == status' = s /\ UNCHANGED <<vartable, evalVars, assigned>>

Trap == AllRead /\ Traps /\ Lost("trapped")

\* PRINT, SLEEP and the operand of STORE only read
EndReading ==
  /\ AllRead /\ instr.op = "PRINT"
  /\ instr' = None
  /\ UNCHANGED <<vartable, calls, how, tok, frames, ret, vals, status, assigned>>

(***************************************************************************)
(* program_stop(prog, 1), and return 0 all the way to the handler.  On the *)
(* way out varval_get_value and varval_set_value free the operand that     *)
(* failed, with its index: a second time when the index had been used.     *)
(***************************************************************************)
Fail(indexUsed) == Lost(IF indexUsed THEN "double free" ELSE "stopped")

\* insert_label_to_vartable.  Of a variable it reads the offset of a label
\* past the end of int[2]: equal or not.
InsertLabel(n, o) ==
  \/ /\ vartable[n] = None
     /\ vartable' = [vartable EXCEPT ![n] = Label(o)]
     /\ UNCHANGED status
  \/ /\ vartable[n] = Label(o) \/ IsArray(n)
     /\ UNCHANGED <<vartable, status>>
  \/ /\ vartable[n] \notin {None, Label(o)}
     /\ status' = "stopped" /\ UNCHANGED vartable

\* a line that begins with a label
LabelLine ==
  /\ status = "ok" /\ instr = None
  /\ \E n \in Names, o \in Offsets : InsertLabel(n, o)
  /\ UNCHANGED <<evalVars, assigned>>

\* the end of branch_handler: not taken, or the label is looked up, and
\* searched for in the rest of the file when it is not in the table
Branch ==
  /\ AllRead /\ instr.op = "BRANCH"
  /\ \/ UNCHANGED <<vartable, status>>
     \/ IsArray(instr.label) /\ status' = "stopped" /\ UNCHANGED vartable
     \/ /\ vartable[instr.label] = None
        /\ \/ \E o \in Offsets : InsertLabel(instr.label, o)
           \/ status' = "stopped" /\ UNCHANGED vartable
  /\ instr' = None
  /\ UNCHANGED <<calls, how, tok, frames, ret, vals, assigned>>

-----------------------------------------------------------------------------
(***************************************************************************)
(* __varval_get_value and __varval_set_value.  Only the outermost call of  *)
(* a set writes; an index is always read.                                  *)
(***************************************************************************)
Setting == how = "set" /\ frames = <<>>
Return(v) == tok' = None /\ ret' = Value(v)
Assign(n, k, v) == assigned' = [assigned EXCEPT ![n][k] = v]
Working(type) == status = "ok" /\ tok # None /\ tok.type = type

Constant ==
  /\ Working("INT_VAL")
  /\ Return(tok.value)
  /\ UNCHANGED <<vartable, instr, calls, how, frames, vals, status, assigned>>

\* $argc is constant
Argc ==
  /\ Working("INT_VAR") /\ tok.name = "argc"
  /\ IF Setting THEN Fail(FALSE)
     ELSE /\ Return(Len(Argv))
          /\ UNCHANGED <<vartable, instr, calls, how, frames, vals, status, assigned>>

(***************************************************************************)
(* QuadHash_insert may move the whole table, when it gets too full for the *)
(* library: table_data of a call that waits is then no longer in it.  fs   *)
(* are the calls that wait after the insertion.                            *)
(***************************************************************************)
Moved(fs) == [f \in 1 .. Len(fs) |-> [fs[f] EXCEPT !.stale = TRUE]]
Inserted(fs) == frames' \in {fs, Moved(fs)}

\* a variable that does not exist is made; one of length 1 is arr[1]
Variable ==
  /\ Working("INT_VAR") /\ tok.name # "argc"
  /\ LET n == tok.name
         v == IF Setting THEN vals[1]
              ELSE IF IsArray(n) THEN vartable[n].arr[1] ELSE 0
     IN  IF vartable[n].type = "LABEL" \/ LenOf(n) > 1 THEN Fail(FALSE)
         ELSE /\ vartable' = [vartable EXCEPT ![n] = Array(<<v>>)]
              /\ Return(v)
              /\ IF Setting THEN Assign(n, 1, v) ELSE UNCHANGED assigned
              /\ IF IsArray(n) THEN UNCHANGED frames ELSE Inserted(frames)
              /\ UNCHANGED <<instr, calls, how, vals, status>>

\* mutant: the array is always taken for a new one
FoundNothing(n) == 0

\* the length the array has when it is looked up, 0 when it is not found
Found(n) == LenOf(n)

\* argv is constant, a label is no array
Refused(n) == IF n = "argv" THEN Setting ELSE vartable[n].type = "LABEL"

\* names of the index for which there is nothing in the table
NewNames(index) == {n \in NamesIn[index] \cap Names : vartable[n] = None}

\* look the array up, then evaluate its index.  The new names are history.
Lookup ==
  /\ Working("INT_ARR")
  /\ IF Refused(tok.name)
     THEN Fail(FALSE)
     ELSE /\ frames' = Append(frames,
                [operand |-> tok, set |-> Setting,
                 len |-> IF tok.name = "argv" THEN 0 ELSE Found(tok.name),
                 stale |-> FALSE, new |-> NewNames(tok.idx)])
          /\ tok' = tok.idx
          /\ UNCHANGED <<vartable, instr, calls, how, ret, vals, status, assigned>>

Front(s) == SubSeq(s, 1, Len(s) - 1)
Frame == frames[Len(frames)]
Indexing == status = "ok" /\ ret # None /\ frames # <<>>
IndexUsed == Frame.operand.idx.type # "INT_VAL"

\* argv[-2] and argv[-1] are ID and argc
IndexArgv ==
  /\ Indexing /\ Frame.operand.name = "argv"
  /\ LET i == ret.value
         argv == <<Id, Len(Argv)>> \o Argv
     IN  \/ i >= Len(Argv) /\ Fail(IndexUsed)
         \/ i < -2 /\ Lost("out of bounds")
         \/ /\ i \in -2 .. Len(Argv) - 1
            /\ ret' = Value(argv[i + 3])
            /\ frames' = Front(frames)
            /\ UNCHANGED <<vartable, instr, calls, how, tok, vals, status, assigned>>

\* mutant: the array is made as long as the index asks for in any case
GrownOrCut(a, i) ==
  [k \in 1 .. i + 1 |-> IF k < Len(a) THEN a[k] ELSE 0]

\* mutant: one element too many
GrownTooLong(a, i) ==
  IF i + 1 > Len(a)
  THEN [k \in 1 .. i + 2 |-> IF k < Len(a) THEN a[k] ELSE 0]
  ELSE a

\* mutant: one element more is cleared
GrownClearsTwo(a, i) ==
  IF i + 1 > Len(a)
  THEN [k \in 1 .. i + 1 |-> IF k < Len(a) - 1 THEN a[k] ELSE 0]
  ELSE a

\* realloc, and clear the elements from arr[arr[0]] on: the last one that
\* was there too
Grown(a, i) ==
  IF i + 1 > Len(a)
  THEN [k \in 1 .. i + 1 |-> IF k < Len(a) THEN a[k] ELSE 0]
  ELSE a

\* mutant: the element before
WrittenBefore(a, i, v) == [a EXCEPT ![i] = v]

Written(a, i, v) == [a EXCEPT ![i + 1] = v]

\* the element is there or is made, and is read or written
UseElement(n, a, i) ==
  LET b == IF Frame.set THEN Written(a, i, vals[1]) ELSE a IN
  /\ vartable' = [vartable EXCEPT ![n] = Array(b)]
  /\ ret' = Value(b[i + 1])
  /\ IF Frame.set THEN Assign(n, i + 1, vals[1]) ELSE UNCHANGED assigned
  /\ UNCHANGED <<instr, calls, how, tok, vals, status>>

\* the name was found.  The index may have made the array move (realloc may
\* also leave it in its place), or the table, where the place of an array that
\* grows is written to; tmp++ of INT_MAX gives an index below it.
IndexFound ==
  LET n == Frame.operand.name
      i == ret.value
      moved == LenOf(n) # Frame.len
      grows == i + 1 > LenOf(n)
  IN
  /\ Indexing /\ n # "argv" /\ Frame.len > 0
  /\ \/ i < 0 /\ Fail(IndexUsed)
     \/ i >= 0 /\ moved /\ Lost("freed array")
     \/ i = IntMax /\ Lost("out of bounds")
     \/ i \in 0 .. IntMax - 1 /\ grows /\ Frame.stale /\ Lost("moved pair")
     \/ /\ i \in 0 .. IntMax - 1 /\ ~(grows /\ Frame.stale)
        /\ UseElement(n, Grown(vartable[n].arr, i), i)
        /\ frames' = Front(frames)

\* the name was not found: a new array, unless the index has made one.
\* malloc refuses the size that tmp++ of INT_MAX gives.
IndexNew ==
  LET n == Frame.operand.name
      i == ret.value
  IN
  /\ Indexing /\ n # "argv" /\ Frame.len = 0
  /\ \/ i < 0 /\ Fail(IndexUsed)
     \/ (i = IntMax \/ (i >= 0 /\ IsArray(n))) /\ Lost("exited")
     \/ /\ i \in 0 .. IntMax - 1 /\ ~IsArray(n)
        /\ UseElement(n, [k \in 1 .. i + 1 |-> 0], i)
        /\ Inserted(Front(frames))

Ended == status # "ok" /\ UNCHANGED vars

Next ==
  \/ StartInstruction \/ LabelLine \/ ReadOperand \/ TakeValue
  \/ WriteDestination \/ Trap \/ EndReading \/ Branch
  \/ Constant \/ Argc \/ Variable \/ Lookup
  \/ IndexArgv \/ IndexFound \/ IndexNew
  \/ Ended

Spec == Init /\ [][Next]_vars

-----------------------------------------------------------------------------
Statuses == {"ok", "stopped", "double free", "freed array", "moved pair",
             "out of bounds", "exited", "trapped"}

Entry == {None} \cup {Label(o) : o \in Offsets} \cup [type : {"ARRAY"}, arr : Seq(Ints)]

FrameSet == [operand : Operands, set : BOOLEAN, len : 0 .. IntMax,
             stale : BOOLEAN, new : SUBSET Names]

TypeOK ==
  /\ vartable \in [Names -> Entry]
  /\ \A n \in Names : IsArray(n) => LenOf(n) \in 1 .. IntMax
  /\ instr \in Instructions \cup {None}
  /\ calls \in Seq(Operands) /\ tok \in Operands \cup {None}
  /\ how \in {"get", "set"}
  /\ frames \in Seq(FrameSet)
  /\ ret \in {None} \cup [type : {"VALUE"}, value : Ints]
  /\ vals \in Seq(Ints)
  /\ assigned \in [Names -> [1 .. IntMax -> Ints]]
  /\ status \in Statuses

\* An element shows the value last assigned to it, or 0: never the value of
\* another element, of another variable or of before the last assignment,
\* wherever arrays have grown and moved meanwhile.
OwnValueOrZero ==
  \A n \in Names : \A k \in 1 .. LenOf(n) :
     vartable[n].arr[k] \in {assigned[n][k], 0}

KeepsMeaning(n) ==
  vartable[n] # None =>
     /\ vartable'[n].type = vartable[n].type
     /\ IF IsArray(n) THEN LenOf(n)' >= LenOf(n) ELSE vartable'[n] = vartable[n]

\* A name means the same for ever: a variable never turns into a label nor a
\* label into a variable, though they share the table; an array never gets
\* shorter, a label never moves.
NamesKeepTheirMeaning == [][\A n \in Names : KeepsMeaning(n)]_vars

\* While the index of an array is evaluated, what the outer call has found
\* stays valid: arr, unless the index uses the array itself, and table_data,
\* unless the index makes a variable whose name was new when the array was
\* looked up.
ArrayStaysFound ==
  \A f \in 1 .. Len(frames) :
     LET t == frames[f].operand IN
     /\ t.name \notin NamesIn[t.idx] \cup {"argv"} => LenOf(t.name) = frames[f].len
     /\ frames[f].stale => \E n \in frames[f].new : IsArray(n)

KeepsTheRest(n) ==
  IsArray(n) => \A k \in 1 .. LenOf(n) :
     LET now == vartable'[n].arr[k] IN
     now # vartable[n].arr[k] =>
       \/ now = assigned'[n][k]
       \/ now = 0 /\ k = LenOf(n) /\ LenOf(n)' > LenOf(n)

\* A step changes no element but the one it assigns and, when the array
\* grows, the one that was its last: exec.c:174 clears that one too, though
\* README.md:13 only lets a variable be 0 until a value is assigned to it.
GrowthKeepsTheRest == [][\A n \in Names : KeepsTheRest(n)]_vars

=============================================================================
