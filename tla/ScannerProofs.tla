--------------------------- MODULE ScannerProofs ---------------------------
(***************************************************************************)
(* The invariants of Scanner, for files of any length and any labels.      *)
(***************************************************************************)
EXTENDS Scanner, WellFoundedInduction, SequenceTheorems, TLAPS

-----------------------------------------------------------------------------
(***************************************************************************)
(* The inductive invariant.                                                *)
(***************************************************************************)
\* q is the first word at p or behind it
NextIs(p, q) ==
  q \in p .. Len(text) /\ IsWord(q) /\ \A r \in p .. q - 1 : ~IsWord(r)

Quiet(p, q) == \A r \in p .. q - 1 : ~IsWord(r)    \* only blanks from p to q

\* q is behind the label s of a line
Behind(s, q) == IsLabel(s) /\ StartsLine(s) /\ Quiet(s + 1, q)

\* the tokens of a line may begin at q: its first word, or its instruction when
\* its label was read before
Opens(q) ==
  StartsLine(q) \/ (text[q] \in Instructions /\ \E s \in 1 .. q - 1 : Behind(s, q))

\* at p a line may be read
AtLine(p) == \A q \in p .. Len(text) : NextIs(p, q) => Opens(q)

\* what is behind a label is an instruction
Follows(p) == \A q \in p .. Len(text) : NextIs(p, q) => text[q] \in Instructions

Ready == {"INSTRUCTION_LINE", "LAST_LINE"}
Scanning == {"labelled", "operands", "prints"}
Branches == {"BRA", "BREQ"}

(***************************************************************************)
(* The parts are predicates on the place c of the interpreter, the state s *)
(* of the program, the items p that have been read, the tokens l and the   *)
(* table t, so that they can be said of the values after a step.           *)
(***************************************************************************)
\* TypeOK of them, with the error flag e and the label g that is searched for
Typed(c, s, p, l, t, e, g) ==
  /\ p \in 0 .. Eof /\ g \in 0 .. Len(text)
  /\ s \in {"MAGIC_LINE", "INSTRUCTION_LINE", "LAST_LINE", "SLEEPING", "BLOCKED", "FINISHED"}
  /\ e \in BOOLEAN
  /\ l \in Seq(1 .. Len(text))
  /\ t \in [Labels -> 0 .. Eof]
  /\ c \in {"turn", "line", "labelled", "operands", "prints", "execute", "found", "ended", "lost"}

\* the state by the place, and where tokens may be left over
Control(c, s, p, l) ==
  /\ c \in Scanning \cup {"line"} => s \in Ready
  /\ c \in {"execute", "found"} => s \in Ready \cup {"FINISHED"}
  /\ s # "MAGIC_LINE" => p >= 2
  /\ c = "line" \/ (c = "turn" /\ s # "FINISHED") => l = <<>>

\* between lines the scanner stands where a line may be read
Between(c, s) ==
  \/ c = "line"
  \/ c = "turn" /\ s \notin {"MAGIC_LINE", "FINISHED"}
  \/ c \in {"execute", "found"} /\ s \in Ready

Place(c, s, p) == Between(c, s) => AtLine(p)

\* within a line, the last token is the last word that was read
Final(l) == l[Len(l)]

TokensRead(c, p, l) ==
  /\ c \in Scanning =>
        /\ l # <<>> /\ Final(l) \in 3 .. p - 1 /\ Final(l) <= Len(text) /\ IsWord(Final(l))
        /\ \A r \in Final(l) + 1 .. p - 1 : ~IsWord(r)
        /\ c # "prints" => p = Final(l) + 1
        /\ c = "prints" => text[Final(l)] # "PRINT"
  /\ c = "labelled" => Len(l) = 1 /\ IsLabel(l[1])

\* the operands are read one by one, and those of a branch end with a label
Body(l) == IF IsLabel(l[1]) THEN Tail(l) ELSE l
Word1(l) == text[Body(l)[1]]

OperandsRead(c, s, l) ==
  /\ c \in {"operands", "prints"} => Body(l) # <<>> /\ Word1(l) \in Instructions
  /\ c = "operands" =>
        /\ Len(Body(l)) <= Len(Operands[Word1(l)]) + 1
        /\ Word1(l) = "PRINT" => Len(Body(l)) = 1
        /\ Len(Body(l)) > 1 => text[Final(l)] # "PRINT"
        /\ Word1(l) \in Branches /\ Len(Body(l)) > Len(Operands[Word1(l)]) =>
              text[Final(l)] \in Labels
  /\ c = "prints" => Word1(l) \notin Branches
  /\ c = "execute" /\ s \in Ready /\ l # <<>> /\ Word1(l) \in Branches =>
        text[Final(l)] \in Labels

\* the labels of the table, and the one of the line that is read
LabelsRead(c, s, l, t) ==
  /\ \A n \in Labels : t[n] # 0 => t[n] > 1 /\ text[t[n] - 1] = n /\ StartsLine(t[n] - 1)
  /\ s # "FINISHED" => \A n \in Labels : t[n] # 0 => Follows(t[n])
  /\ c \in Scanning \cup {"execute", "found"} /\ l # <<>> /\ IsLabel(l[1]) =>
       /\ l[1] > 1 /\ StartsLine(l[1])
       /\ c # "labelled" /\ s # "FINISHED" => Follows(l[1] + 1)

\* all that is safe to say of the values
Safe(c, s, p, l, t) ==
  Control(c, s, p, l) /\ Place(c, s, p) /\ TokensRead(c, p, l)
  /\ OperandsRead(c, s, l) /\ LabelsRead(c, s, l, t)

IInv ==
  /\ text \in Texts /\ TypeOK
  /\ Safe(pc, state, pos, translated_line, vartable)

-----------------------------------------------------------------------------
(***************************************************************************)
(* Numbers, words and files.                                               *)
(***************************************************************************)
LEMMA SmallestNat ==
  ASSUME NEW S \in SUBSET Nat, S # {}
  PROVE  \E x \in S : \A y \in S : x <= y
<1>1. PICK x \in S : \A y \in S : <<y, x>> \notin OpToRel(<, Nat)
  BY WFMin, NatLessThanWellFounded
<1>2. ASSUME NEW y \in S PROVE x <= y
  <2>1. <<y, x>> \notin OpToRel(<, Nat) /\ <<y, x>> \in Nat \X Nat
    BY <1>1
  <2>2. ~(y < x)
    BY <2>1 DEF OpToRel
  <2> QED
    BY <2>2
<1> QED
  BY <1>1, <1>2

LEMMA MinIsSmallest ==
  ASSUME NEW S \in SUBSET Nat, S # {}
  PROVE  Min(S) \in S /\ \A y \in S : Min(S) <= y
BY SmallestNat DEF Min

LEMMA InstructionsAre ==
  Instructions = {"LOAD", "STORE", "SET", "ADD", "DOWN", "SLEEP", "BREQ", "BRA", "PRINT", "RETURN"}
BY DEF Instructions, Operands

Kinds == {"variable", "operand", "label", "string"}

OfInstruction(i, kinds) ==
  /\ Len(kinds) \in 0 .. 3
  /\ \A k \in 1 .. Len(kinds) : kinds[k] \in Kinds /\ (i # "PRINT" => kinds[k] # "string")
  /\ i = "RETURN" => Len(kinds) = 0
  /\ i \in Branches => Len(kinds) > 0 /\ kinds[Len(kinds)] = "label"

LEMMA OperandsAre ==
  ASSUME NEW i \in Instructions
  PROVE  OfInstruction(i, Operands[i])
<1> USE DEF OfInstruction, Kinds, Branches
<1>1. CASE i \in {"LOAD", "STORE", "SET"}
  <2>1. Operands[i] = <<"variable", "operand">>
    BY <1>1 DEF Operands
  <2> QED
    BY <2>1, <1>1
<1>2. CASE i = "ADD"
  <2>1. Operands[i] = <<"variable", "operand", "operand">>
    BY <1>2 DEF Operands
  <2> QED
    BY <2>1, <1>2
<1>3. CASE i \in {"DOWN", "SLEEP", "BRA", "PRINT"}
  <2>1. Operands[i] = <<CASE i = "DOWN" -> "variable" [] i = "SLEEP" -> "operand"
                         [] i = "BRA" -> "label" [] i = "PRINT" -> "string">>
    BY <1>3 DEF Operands
  <2> QED
    BY <2>1, <1>3
<1>4. CASE i = "BREQ"
  <2>1. Operands[i] = <<"operand", "operand", "label">>
    BY <1>4 DEF Operands
  <2> QED
    BY <2>1, <1>4
<1>5. CASE i = "RETURN"
  <2>1. Operands[i] = <<>>
    BY <1>5 DEF Operands
  <2> QED
    BY <2>1, <1>5
<1> QED
  BY <1>1, <1>2, <1>3, <1>4, <1>5, InstructionsAre

LEMMA FileFacts ==
  ASSUME text \in Texts
  PROVE  /\ Len(text) \in Nat \ {0} /\ Eof \in Nat \ {0} /\ Eof = Len(text) + 1
         /\ text \in Seq(STRING) /\ IsWord(1)
         /\ Len(text) > 1 => text[2] \notin Labels \cup Instructions
         /\ \A p \in 3 .. Len(text) - 1 : IsWord(p) => ~IsWord(p + 1)
         /\ \A p \in 1 .. Len(text) : text[p] # "EOF"
<1>1. /\ text \in Seq(STRING) /\ text # <<>> /\ text[1] \notin Spaces
      /\ Len(text) > 1 => text[2] \notin Labels \cup Instructions
      /\ \A p \in 1 .. Len(text) : text[p] # "EOF"
      /\ \A p \in 3 .. Len(text) - 1 : text[p] \in Spaces \/ text[p + 1] \in Spaces
  BY ScannerAssumption
<1>2. Len(text) \in Nat \ {0}
  <2> DEFINE S == STRING
  <2>1. text \in Seq(S) /\ text # <<>>
    BY <1>1
  <2> HIDE DEF S
  <2> QED
    BY <2>1, EmptySeq
<1>3. Eof \in Nat \ {0} /\ Eof = Len(text) + 1
  BY <1>2 DEF Eof
<1>4. \A p \in 3 .. Len(text) - 1 : IsWord(p) => ~IsWord(p + 1)
  BY <1>1 DEF IsWord, Spaces
<1>5. IsWord(1)
  BY <1>1 DEF IsWord, Spaces
<1> QED
  BY <1>1, <1>2, <1>3, <1>4, <1>5

-----------------------------------------------------------------------------
(***************************************************************************)
(* What the functions that read find.                                      *)
(***************************************************************************)
\* Only blanks and newlines are no words; nothing else is worth knowing.
LEMMA BlankFacts ==
  \A p : /\ text[p] = "\n" => ~IsWord(p)
         /\ ~IsWord(p) => text[p] \in {Blank, "\n"}
         /\ text[p] = Blank => ~IsWord(p)
BY DEF IsWord, Spaces

LEMMA FlushesToChar ==
  ASSUME text \in Texts, NEW p \in 0 .. Eof
  PROVE  /\ FlushToChar(p) \in p .. Eof /\ Quiet(p + 1, FlushToChar(p))
         /\ p # Eof => FlushToChar(p) > p
         /\ FlushToChar(p) # Eof => IsWord(FlushToChar(p))
<1> DEFINE S == {q \in p + 1 .. Len(text) : text[q] \notin Spaces} \cup {Eof}
<1>1. S \in SUBSET Nat /\ S # {} /\ FlushToChar(p) = Min(S)
  <2>1. Len(text) \in Nat /\ Eof \in Nat /\ p \in Nat
    BY FileFacts
  <2>2. S \in SUBSET Nat /\ S # {}
    BY <2>1
  <2> QED
    BY <2>2 DEF FlushToChar
<1>2. FlushToChar(p) \in S /\ \A y \in S : FlushToChar(p) <= y
  <2> HIDE DEF S
  <2> QED
    BY <1>1, MinIsSmallest
<1>3. FlushToChar(p) \in p .. Eof /\ (p # Eof => FlushToChar(p) > p)
  <2>1. Len(text) \in Nat /\ Eof = Len(text) + 1 /\ Eof \in Nat
    BY FileFacts
  <2>2. FlushToChar(p) = Eof \/ FlushToChar(p) \in p + 1 .. Len(text)
    BY <1>2
  <2> QED
    BY <2>1, <2>2
<1>4. ASSUME NEW r \in p + 1 .. FlushToChar(p) - 1 PROVE ~IsWord(r)
  <2>1. r \in p + 1 .. Len(text) /\ r < FlushToChar(p)
    BY <1>3, FileFacts
  <2>2. r \notin S
    BY <1>2, <1>3, <2>1
  <2> QED
    BY <2>1, <2>2 DEF IsWord, Spaces
<1>5. FlushToChar(p) # Eof => IsWord(FlushToChar(p))
  BY <1>2, FileFacts DEF IsWord, Spaces
<1> QED
  BY <1>3, <1>4, <1>5 DEF Quiet

LEMMA FlushesToNewline ==
  ASSUME text \in Texts, pos \in 1 .. Eof
  PROVE  /\ FlushToNewline \in pos .. Eof /\ Quiet(pos + 1, FlushToNewline)
         /\ pos # Eof => (FlushToNewline = pos /\ text[pos] = "\n") \/ FlushToNewline > pos
<1> DEFINE S == {q \in pos + 1 .. Len(text) : text[q] # Blank} \cup {Eof}
<1>0. pos \in Nat \ {0} /\ pos <= Eof /\ Len(text) \in Nat /\ Eof = Len(text) + 1
  BY FileFacts
<1>1. CASE Char(pos) = "\n" /\ pos # Eof
  BY <1>1, <1>0 DEF FlushToNewline, Quiet, Char
<1>2. CASE Char(pos) # "\n"
  <2>0. FlushToNewline = Min(S)
    BY <1>2 DEF FlushToNewline
  <2>1. S \in SUBSET Nat /\ S # {}
    BY <1>0
  <2>2. FlushToNewline \in S /\ \A y \in S : FlushToNewline <= y
    <3> HIDE DEF S
    <3> QED
      BY <2>0, <2>1, MinIsSmallest
  <2>3. FlushToNewline \in pos .. Eof /\ (pos # Eof => FlushToNewline > pos)
    BY <2>2, <1>0
  <2>4. ASSUME NEW r \in pos + 1 .. FlushToNewline - 1 PROVE ~IsWord(r)
    <3>1. r \in pos + 1 .. Len(text) /\ r < FlushToNewline
      BY <2>3, <1>0
    <3>2. r \notin S
      BY <2>2, <2>3, <3>1
    <3> QED
      BY <3>1, <3>2, BlankFacts
  <2> QED
    BY <2>3, <2>4 DEF Quiet
<1>3. pos = Eof => Char(pos) # "\n"
  BY DEF Char
<1> QED
  BY <1>1, <1>2, <1>3

LEMMA NotSameLine ==
  ASSUME text \in Texts, NEW p \in 1 .. Eof, NEW q \in p .. Eof, ~SameLine(p, q)
  PROVE  \E r \in p + 1 .. q : r <= Len(text) /\ text[r] = "\n"
<1>1. PICK r \in p + 1 .. q : Char(r) = "\n"
  BY DEF SameLine
<1>2. r # Eof /\ r <= Eof
  BY <1>1, FileFacts DEF Char
<1> QED
  BY <1>1, <1>2, FileFacts DEF Char

\* What get_next_word returns: a word of the file, its end, or none.
Vocabulary == Labels \cup Instructions \cup Variables \cup Numbers \cup HalfArrays \cup {"string"}

LEMMA NoOddWords ==
  Vocabulary \cap (Spaces \cup {"EOF", "none"}) = {}
<1>1. ASSUME NEW i \in Instructions PROVE i # " " /\ i # "\n" /\ i # "EOF" /\ i # "none"
  BY <1>1, InstructionsAre, Zenon
<1>2. "string" # " " /\ "string" # "\n" /\ "string" # "EOF" /\ "string" # "none"
  BY Zenon
<1> QED
  BY <1>1, <1>2, ScannerAssumption, Zenon DEF Vocabulary, Spaces, Blank

\* get_next_word returns a word of the file, its end, or none: then a newline
\* or the end was met.
WordRead(w) ==
  /\ w.at \in pos .. Len(text) /\ IsWord(w.at) /\ Quiet(pos, w.at)
  /\ w.word = text[w.at] /\ w.pos = w.at + 1

NoneRead(w) ==
  /\ w.at = 0 /\ w.word = "none" /\ w.pos \in pos .. Eof /\ Quiet(pos, w.pos)
  /\ w.pos = Eof \/ \E r \in pos .. w.pos : r <= Len(text) /\ text[r] = "\n"

EndRead(w) == w.at = Eof /\ w.word = "EOF" /\ w.pos = Eof

LEMMA NextWordFacts ==
  ASSUME text \in Texts, pos \in 1 .. Eof, NEW thisLine \in BOOLEAN
  PROVE  LET w == NextWord(thisLine) IN
         /\ WordRead(w) \/ NoneRead(w) \/ EndRead(w)
         /\ ~thisLine /\ w.at = 0 => w.pos = Eof
<1> DEFINE p == IF Char(pos) \in Spaces THEN FlushToChar(pos) ELSE pos
<1>0. pos \in Nat \ {0} /\ pos <= Eof /\ Len(text) \in Nat /\ Eof = Len(text) + 1
  BY FileFacts
<1>1. /\ p \in pos .. Eof /\ Quiet(pos, p) /\ (p # Eof => IsWord(p))
      /\ pos # Eof /\ Char(pos) \in Spaces => p > pos
  <2>1. CASE Char(pos) \in Spaces
    <3>1. pos # Eof => ~IsWord(pos)
      BY <2>1 DEF IsWord, Char
    <3> QED
      BY <2>1, <1>0, <3>1, FlushesToChar DEF Quiet
  <2>2. CASE Char(pos) \notin Spaces
    BY <2>2, <1>0 DEF Quiet, IsWord, Char
  <2> QED
    BY <2>1, <2>2
<1>2. Char(Eof) = "EOF" /\ \A q \in 1 .. Len(text) : Char(q) = text[q]
  BY <1>0 DEF Char
<1>3. "EOF" \notin Spaces
  BY Zenon DEF Spaces, Blank
<1> HIDE DEF p
<1>4. CASE NextWord(thisLine) = NoWord(pos) /\ thisLine /\ Char(pos) = "\n"
  <2>1. NoneRead(NoWord(pos))
    BY <1>4, <1>0, <1>2 DEF NoneRead, NoWord, Quiet
  <2> QED
    BY <1>4, <2>1
<1>5. CASE NextWord(thisLine) = NoWord(p) /\ p = Eof
  <2>1. NoneRead(NoWord(p)) /\ NoWord(p).pos = Eof
    BY <1>5, <1>0, <1>1 DEF NoneRead, NoWord
  <2> QED
    BY <1>5, <2>1
<1>6. CASE NextWord(thisLine) = NoWord(p) /\ thisLine /\ ~SameLine(pos, p)
  <2>1. NoneRead(NoWord(p))
    BY <1>6, <1>0, <1>1, NotSameLine DEF NoneRead, NoWord
  <2> QED
    BY <1>6, <2>1
<1>7. CASE NextWord(thisLine) = Word(p)
  <2>1. p = Eof => EndRead(Word(p))
    BY <1>2 DEF EndRead, Word, After
  <2>2. p # Eof => WordRead(Word(p))
    BY <1>0, <1>1, <1>2 DEF WordRead, Word, After
  <2>3. Word(p).at # 0
    BY <1>0, <1>1 DEF Word
  <2> QED
    BY <1>7, <2>1, <2>2, <2>3
<1>8. \/ NextWord(thisLine) = NoWord(pos) /\ thisLine /\ Char(pos) = "\n"
      \/ NextWord(thisLine) = NoWord(p) /\ p = Eof
      \/ NextWord(thisLine) = NoWord(p) /\ thisLine /\ ~SameLine(pos, p)
      \/ NextWord(thisLine) = Word(p)
  BY DEF NextWord, p
<1> QED
  BY <1>4, <1>5, <1>6, <1>7, <1>8

\* A word the scanner knows is a word of the file.
LEMMA KnownWord ==
  ASSUME text \in Texts, pos \in 1 .. Eof, NEW thisLine \in BOOLEAN,
         NextWord(thisLine).word \in Vocabulary
  PROVE  WordRead(NextWord(thisLine))
BY NextWordFacts, NoOddWords DEF NoneRead, EndRead

-----------------------------------------------------------------------------
(***************************************************************************)
(* Where lines start.                                                      *)
(***************************************************************************)
LEMMA NothingAtEof == ASSUME text \in Texts PROVE AtLine(Eof) /\ Follows(Eof)
BY FileFacts DEF AtLine, Follows

\* What ends the line of the last word has all words behind it start a line.
LEMMA EndStartsNext ==
  ASSUME text \in Texts, NEW last \in 1 .. Len(text), NEW p \in last + 1 .. Eof,
         Quiet(last + 1, p), NEW e \in last .. Len(text), e <= p, EndsLine(e), ~IsWord(e) \/ e = last
  PROVE  AtLine(p)
<1>0. Len(text) \in Nat /\ Eof = Len(text) + 1
  BY FileFacts
<1>1. SUFFICES ASSUME NEW q \in p .. Len(text), NextIs(p, q) PROVE StartsLine(q)
  BY DEF AtLine, Opens
<1>2. e \in last .. q - 1
  BY <1>0, <1>1 DEF NextIs
<1>3. ASSUME NEW w \in 1 .. q - 1, IsWord(w) PROVE w <= e
  <2>1. w < p
    BY <1>3, <1>1, <1>0 DEF NextIs
  <2>2. w <= last
    BY <1>3, <2>1, <1>0 DEF Quiet
  <2> QED
    BY <2>2, <1>2, <1>0
<1> QED
  BY <1>0, <1>1, <1>2, <1>3 DEF StartsLine, NextIs

\* A newline ends the line of the last word before it, unless that is PRINT.
LEMMA NewlineIsEnd ==
  ASSUME text \in Texts, NEW last \in 1 .. Len(text), IsWord(last),
         last = 1 \/ text[last] # "PRINT",
         NEW p \in last + 1 .. Eof, Quiet(last + 1, p),
         NEW nl \in last + 1 .. Len(text), nl <= p, text[nl] = "\n"
  PROVE  EndsLine(nl) /\ ~IsWord(nl)
<1>0. Len(text) \in Nat /\ Eof = Len(text) + 1
  BY FileFacts
<1>1. ASSUME NEW x \in 2 .. nl - 1, text[x] = "PRINT", \A r \in x + 1 .. nl - 1 : ~IsWord(r)
      PROVE  FALSE
  <2>1. IsWord(x)
    BY <1>1 DEF IsWord, Spaces, Blank
  <2>2. x <= last
    BY <1>0, <1>1, <2>1 DEF Quiet
  <2>3. last <= x
    BY <1>0, <1>1
  <2> QED
    BY <1>0, <1>1, <2>2, <2>3
<1> QED
  BY <1>1, BlankFacts DEF EndsLine, AwaitsString

LEMMA NewlineEnds ==
  ASSUME text \in Texts, NEW last \in 1 .. Len(text), IsWord(last),
         last = 1 \/ text[last] # "PRINT",
         NEW p \in last + 1 .. Eof, Quiet(last + 1, p),
         NEW nl \in last + 1 .. Len(text), nl <= p, text[nl] = "\n"
  PROVE  AtLine(p)
<1>1. Len(text) \in Nat /\ Eof = Len(text) + 1
  BY FileFacts
<1>2. EndsLine(nl) /\ ~IsWord(nl)
  BY NewlineIsEnd
<1> QED
  BY <1>1, <1>2, EndStartsNext

LEMMA ReturnEnds ==
  ASSUME text \in Texts, NEW last \in 2 .. Len(text), text[last] = "RETURN",
         NEW p \in last + 1 .. Eof, Quiet(last + 1, p)
  PROVE  AtLine(p)
<1>0. Len(text) \in Nat /\ Eof = Len(text) + 1
  BY FileFacts
<1>1. EndsLine(last)
  BY <1>0 DEF EndsLine
<1> QED
  BY <1>0, <1>1, EndStartsNext

\* A jump to a label goes on behind it, with the instruction of its line.
LEMMA JumpLands ==
  ASSUME text \in Texts, NEW s \in 1 .. Len(text), IsLabel(s), StartsLine(s), Follows(s + 1)
  PROVE  AtLine(s + 1)
<1>1. SUFFICES ASSUME NEW q \in s + 1 .. Len(text), NextIs(s + 1, q) PROVE Opens(q)
  BY DEF AtLine
<1>2. s \in 1 .. q - 1 /\ Behind(s, q) /\ text[q] \in Instructions
  BY <1>1, FileFacts DEF Follows, NextIs, Behind, Quiet
<1> QED
  BY <1>2 DEF Opens

-----------------------------------------------------------------------------
(***************************************************************************)
(* The invariant before and after a step, and the tokens.                  *)
(***************************************************************************)
\* The file does not change, so that what is said of new values with the text
\* as it is now holds of them in the next state.
LEMMA NextIInv ==
  ASSUME text' = text, text \in Texts,
         Typed(pc', state', pos', translated_line', vartable', error_flag', goal'),
         Safe(pc', state', pos', translated_line', vartable')
  PROVE  IInv'
<1>1. TypeOK'
  BY DEF Typed, TypeOK, Eof
<1>2. Control(pc, state, pos, translated_line)'
  BY DEF Safe, Control
<1>3. Place(pc, state, pos)'
  BY DEF Safe, Place, Between, AtLine, NextIs, Opens, Behind, Quiet, IsLabel, StartsLine,
         EndsLine, AwaitsString, IsWord
<1>4. TokensRead(pc, pos, translated_line)'
  BY DEF Safe, TokensRead, IsLabel, IsWord, Final
<1>5. OperandsRead(pc, state, translated_line)'
  BY DEF Safe, OperandsRead, Word1, Body, IsLabel, Final
<1>6. LabelsRead(pc, state, translated_line, vartable)'
  BY DEF Safe, LabelsRead, Follows, NextIs, StartsLine, EndsLine, AwaitsString, IsWord, IsLabel
<1> QED
  BY <1>1, <1>2, <1>3, <1>4, <1>5, <1>6 DEF IInv, Safe

\* The parts of the invariant in the state as it is.
LEMMA Now ==
  ASSUME IInv
  PROVE  /\ text \in Texts
         /\ Typed(pc, state, pos, translated_line, vartable, error_flag, goal)
         /\ Safe(pc, state, pos, translated_line, vartable)
BY DEF IInv, TypeOK, Typed

LEMMA OfTail ==
  ASSUME NEW S, NEW l \in Seq(S), l # <<>>
  PROVE  /\ Len(l) \in Nat \ {0} /\ l[1] \in S /\ l[Len(l)] \in S
         /\ Tail(l) \in Seq(S) /\ Len(Tail(l)) = Len(l) - 1
         /\ Len(l) > 1 => Tail(l) # <<>> /\ Tail(l)[1] = l[2]
<1>1. Len(l) \in Nat \ {0}
  BY EmptySeq
<1>2. Tail(l) \in Seq(S) /\ Len(Tail(l)) = Len(l) - 1
  BY HeadTailProperties
<1>3. Len(l) > 1 => Tail(l)[1] = l[2]
  <2>1. \A i \in 1 .. Len(Tail(l)) : Tail(l)[i] = l[i + 1]
    BY HeadTailProperties
  <2> QED
    BY <1>1, <1>2, <2>1
<1>4. l[1] \in S /\ l[Len(l)] \in S
  <2>1. 1 \in 1 .. Len(l) /\ Len(l) \in 1 .. Len(l)
    BY <1>1
  <2>2. \A i \in 1 .. Len(l) : l[i] \in S
    BY LenProperties
  <2> QED
    BY <2>1, <2>2
<1>5. Len(l) > 1 => Tail(l) # <<>>
  <2>1. Tail(l) = <<>> => Len(Tail(l)) = 0
    BY EmptySeq
  <2> QED
    BY <1>1, <1>2, <2>1
<1> QED
  BY <1>1, <1>2, <1>3, <1>4, <1>5

LEMMA OfAppend ==
  ASSUME NEW S, NEW l \in Seq(S), NEW p \in S
  PROVE  /\ Append(l, p) \in Seq(S) /\ Append(l, p) # <<>> /\ Len(Append(l, p)) = Len(l) + 1
         /\ Final(Append(l, p)) = p /\ Len(l) \in Nat
         /\ l = <<>> => Append(l, p)[1] = p
         /\ l # <<>> => Append(l, p)[1] = l[1] /\ Len(l) > 0
         /\ Len(l) > 1 => Append(l, p)[2] = l[2]
         /\ Len(l) = 1 => Append(l, p)[2] = p
<1>1. /\ Append(l, p) \in Seq(S) /\ Len(Append(l, p)) = Len(l) + 1 /\ Len(l) \in Nat
      /\ Append(l, p)[Len(l) + 1] = p
      /\ \A i \in 1 .. Len(l) : Append(l, p)[i] = l[i]
  BY AppendProperties, LenProperties
<1>2. Append(l, p) # <<>>
  BY <1>1, EmptySeq
<1>3. l # <<>> => Len(l) > 0
  BY <1>1, EmptySeq
<1>4. l = <<>> => Len(l) = 0
  BY EmptySeq
<1> QED
  BY <1>1, <1>2, <1>3, <1>4 DEF Final

LEMMA BodyFacts ==
  ASSUME NEW S, NEW l \in Seq(S), l # <<>>
  PROVE  /\ Len(l) \in Nat \ {0} /\ Final(l) \in S /\ l[1] \in S
         /\ Len(Body(l)) = IF IsLabel(l[1]) THEN Len(l) - 1 ELSE Len(l)
         /\ Body(l) # <<>> => Len(Body(l)) > 0 /\ Word1(l) = IF IsLabel(l[1]) THEN text[l[2]] ELSE text[l[1]]
         /\ Len(l) > 1 => Body(l) # <<>>
<1>1. CASE IsLabel(l[1])
  <2>1. Body(l) = Tail(l)
    BY <1>1 DEF Body
  <2>2. Tail(l) # <<>> => Len(Tail(l)) > 0
    BY OfTail, EmptySeq
  <2> QED
    BY <1>1, <2>1, <2>2, OfTail DEF Final, Word1
<1>2. CASE ~IsLabel(l[1])
  BY <1>2, OfTail DEF Body, Final, Word1
<1> QED
  BY <1>1, <1>2

LEMMA Growing ==
  ASSUME NEW S, NEW l \in Seq(S), NEW p \in S, l # <<>>
  PROVE  LET m == Append(l, p) IN
         /\ m[1] = l[1] /\ Len(Body(m)) = Len(Body(l)) + 1 /\ Body(m) # <<>>
         /\ Body(l) # <<>> => Word1(m) = Word1(l)
         /\ Len(l) = 1 /\ IsLabel(l[1]) => Word1(m) = text[p] /\ Len(Body(m)) = 1
<1> DEFINE m == Append(l, p)
<1>1. m \in Seq(S) /\ m # <<>> /\ Len(m) = Len(l) + 1 /\ m[1] = l[1] /\ Len(l) \in Nat \ {0}
      /\ (Len(l) > 1 => m[2] = l[2]) /\ (Len(l) = 1 => m[2] = p)
  BY OfAppend
<1> HIDE DEF m
<1>2. /\ Len(Body(m)) = IF IsLabel(m[1]) THEN Len(m) - 1 ELSE Len(m)
      /\ Body(m) # <<>> => Word1(m) = IF IsLabel(m[1]) THEN text[m[2]] ELSE text[m[1]]
      /\ Len(m) > 1 => Body(m) # <<>>
  BY <1>1, BodyFacts
<1>3. /\ Len(Body(l)) = IF IsLabel(l[1]) THEN Len(l) - 1 ELSE Len(l)
      /\ Body(l) # <<>> => Len(Body(l)) > 0 /\ Word1(l) = IF IsLabel(l[1]) THEN text[l[2]] ELSE text[l[1]]
  BY BodyFacts
<1>4. Len(m) > 1 /\ Body(m) # <<>>
  BY <1>1, <1>2
<1>5. Body(l) # <<>> => Word1(m) = Word1(l)
  BY <1>1, <1>2, <1>3, <1>4
<1>6. Len(l) = 1 /\ IsLabel(l[1]) => Word1(m) = text[p] /\ Len(Body(m)) = 1
  BY <1>1, <1>2, <1>4
<1>7. m[1] = l[1] /\ Len(Body(m)) = Len(Body(l)) + 1
  BY <1>1, <1>2, <1>3
<1> QED
  BY <1>4, <1>5, <1>6, <1>7 DEF m

-----------------------------------------------------------------------------
(***************************************************************************)
(* The steps that read nothing.                                            *)
(***************************************************************************)
LEMMA InitIInv == ASSUME Init PROVE IInv
<1>1. text \in Texts /\ Len(text) \in Nat /\ Eof = Len(text) + 1
  BY FileFacts DEF Init
<1>2. TypeOK
  <2>1. translated_line \in Seq(1 .. Len(text))
    BY EmptySeq DEF Init
  <2>2. vartable \in [Labels -> 0 .. Eof]
    BY <1>1 DEF Init
  <2>3. pos \in 0 .. Eof /\ goal \in 0 .. Len(text)
    BY <1>1 DEF Init
  <2>4. error_flag = FALSE /\ state = "MAGIC_LINE" /\ pc = "turn"
    BY DEF Init
  <2> QED
    BY <2>1, <2>2, <2>3, <2>4 DEF TypeOK
<1>3. Control(pc, state, pos, translated_line) /\ Place(pc, state, pos)
  BY DEF Init, Control, Place, Between, Scanning, Ready
<1>4. TokensRead(pc, pos, translated_line) /\ OperandsRead(pc, state, translated_line)
  BY DEF Init, TokensRead, OperandsRead, Scanning
<1>5. LabelsRead(pc, state, translated_line, vartable)
  BY DEF Init, LabelsRead, Scanning
<1> QED
  BY <1>1, <1>2, <1>3, <1>4, <1>5 DEF IInv, Safe

LEMMA InterpretLineIInv == ASSUME IInv, InterpretLine PROVE IInv'
<1> USE Now
<1> USE DEF InterpretLine, Goto
<1>1. Typed(pc', state', pos', translated_line', vartable', error_flag', goal')
  BY DEF Typed
<1>2. Control(pc', state', pos', translated_line')
  BY DEF Safe, Control, Scanning, Ready
<1>3. Place(pc', state', pos')
  BY DEF Safe, Place, Between
<1>4. TokensRead(pc', pos', translated_line') /\ OperandsRead(pc', state', translated_line')
  BY DEF TokensRead, OperandsRead, Scanning
<1>5. LabelsRead(pc', state', translated_line', vartable')
  BY DEF Safe, LabelsRead, Scanning
<1> QED
  BY <1>1, <1>2, <1>3, <1>4, <1>5, NextIInv DEF Safe

LEMMA ResumeIInv == ASSUME IInv, Resume PROVE IInv'
<1> USE Now
<1> USE DEF Resume
<1>1. Typed(pc', state', pos', translated_line', vartable', error_flag', goal')
  BY DEF Typed
<1>2. Control(pc', state', pos', translated_line')
  BY DEF Safe, Control, Scanning, Ready
<1>3. Place(pc', state', pos')
  BY DEF Safe, Place, Between
<1>4. TokensRead(pc', pos', translated_line') /\ OperandsRead(pc', state', translated_line')
  BY DEF TokensRead, OperandsRead, Scanning
<1>5. LabelsRead(pc', state', translated_line', vartable')
  BY DEF Safe, LabelsRead, Scanning
<1> QED
  BY <1>1, <1>2, <1>3, <1>4, <1>5, NextIInv DEF Safe

\* The program has ended, or the process is lost: only the labels matter.
LEMMA Stopped ==
  ASSUME IInv, text' = text, goal' \in 0 .. Len(text), error_flag' \in BOOLEAN,
         \/ pc' \in {"ended", "lost"} /\ state' = state
         \/ pc' = "turn" /\ state' = "FINISHED",
         pos' = pos \/ pos' \in 2 .. Eof, state' # "MAGIC_LINE" => pos' >= 2,
         translated_line' \in Seq(1 .. Len(text)),
         vartable' \in [Labels -> 0 .. Eof],
         \A n \in Labels : vartable'[n] # 0 =>
            /\ vartable'[n] > 1 /\ text[vartable'[n] - 1] = n /\ StartsLine(vartable'[n] - 1)
            /\ state' # "FINISHED" => Follows(vartable'[n])
  PROVE  IInv'
<1> USE Now
<1>1. Typed(pc', state', pos', translated_line', vartable', error_flag', goal')
  BY FileFacts DEF Typed
<1>2. Control(pc', state', pos', translated_line') /\ Place(pc', state', pos')
  BY DEF Control, Scanning, Place, Between
<1>3. TokensRead(pc', pos', translated_line') /\ OperandsRead(pc', state', translated_line')
  BY DEF TokensRead, OperandsRead, Scanning
<1>4. LabelsRead(pc', state', translated_line', vartable')
  BY DEF LabelsRead, Scanning
<1> QED
  BY <1>1, <1>2, <1>3, <1>4, NextIInv DEF Safe

\* What the table says stays true as long as it does not change.
LEMMA SameTable ==
  ASSUME IInv, vartable' = vartable
  PROVE  /\ vartable' \in [Labels -> 0 .. Eof]
         /\ \A n \in Labels : vartable'[n] # 0 =>
               /\ vartable'[n] > 1 /\ text[vartable'[n] - 1] = n /\ StartsLine(vartable'[n] - 1)
               /\ state # "FINISHED" => Follows(vartable'[n])
BY Now DEF Safe, LabelsRead, Typed

LEMMA DetachIInv == ASSUME IInv, Detach PROVE IInv'
<1>1. /\ text' = text /\ goal' = goal /\ error_flag' = error_flag /\ state' = state
      /\ pc' \in {"ended", "lost"} /\ pos' = pos /\ translated_line' = translated_line
      /\ vartable' = vartable
  BY DEF Detach, Goto
<1> QED
  BY <1>1, Now, SameTable, Stopped DEF Typed, Safe, Control

LEMMA SearchFailsIInv == ASSUME IInv, SearchFails PROVE IInv'
<1>1. /\ text' = text /\ goal' = goal /\ error_flag' = error_flag /\ state' = state
      /\ pc' \in {"ended", "lost"} /\ pos' = pos /\ translated_line' = translated_line
      /\ vartable' = vartable
  BY DEF SearchFails, Goto
<1> QED
  BY <1>1, Now, SameTable, Stopped DEF Typed, Safe, Control

-----------------------------------------------------------------------------
(***************************************************************************)
(* The steps that read a word.                                             *)
(***************************************************************************)
LEMMA Reads ==
  ASSUME IInv, pc \in Scanning \cup {"line"}
  PROVE  /\ text \in Texts /\ state \in Ready /\ pos \in 2 .. Eof
         /\ Len(text) \in Nat /\ Eof = Len(text) + 1
         /\ translated_line \in Seq(1 .. Len(text)) /\ error_flag \in BOOLEAN
         /\ goal \in 0 .. Len(text)
         /\ pc \in Scanning => pos >= 4
         /\ pc = "line" => translated_line = <<>> /\ AtLine(pos)
         /\ Tokenized \in {"execute", "found"}
<1>1. text \in Texts /\ state \in Ready /\ pos >= 2
  BY Now DEF Safe, Control, Scanning, Ready
<1>2. pos \in 0 .. Eof /\ Len(text) \in Nat /\ Eof = Len(text) + 1
  BY <1>1, Now, FileFacts DEF Typed
<1>3. pc = "line" => translated_line = <<>> /\ AtLine(pos)
  BY Now DEF Safe, Control, Place, Between
<1>4. pc \in Scanning => pos >= 4
  BY <1>2, Now DEF Safe, TokensRead
<1> QED
  BY <1>1, <1>2, <1>3, <1>4, Now DEF Typed, Tokenized

\* The line is refused: the tokens so far stay, and perhaps half an array.
LEMMA Refused ==
  ASSUME IInv, pc \in Scanning \cup {"line"}, text' = text, goal' = goal,
         pc' \in {"execute", "found"}, state' = "FINISHED", error_flag' \in BOOLEAN,
         vartable' = vartable, pos' \in 2 .. Eof, translated_line' \in Seq(1 .. Len(text)),
         translated_line' # <<>> => translated_line # <<>> /\ translated_line'[1] = translated_line[1]
  PROVE  IInv'
<1> USE Now
<1>1. Typed(pc', state', pos', translated_line', vartable', error_flag', goal')
  BY FileFacts DEF Typed
<1>2. Control(pc', state', pos', translated_line') /\ Place(pc', state', pos')
  BY FileFacts DEF Control, Scanning, Place, Between, Ready
<1>3. TokensRead(pc', pos', translated_line') /\ OperandsRead(pc', state', translated_line')
  BY DEF TokensRead, OperandsRead, Scanning, Ready
<1>4. pc = "line" => translated_line = <<>>
  BY Reads
<1>5. LabelsRead(pc', state', translated_line', vartable')
  BY <1>4 DEF Safe, LabelsRead, Scanning
<1> QED
  BY <1>1, <1>2, <1>3, <1>5, NextIInv DEF Safe

\* A word has been read as the next token of the line.
LEMMA WordAdded ==
  ASSUME IInv, pc \in Scanning \cup {"line"}, NEW thisLine \in BOOLEAN,
         NEW w, w = NextWord(thisLine), w.word \in Vocabulary, pos' = w.pos, Add(w.at),
         pc = "line" => w.word \in Labels \cup Instructions
  PROVE  /\ WordRead(w) /\ w.at \in 3 .. Len(text) /\ pos' \in 2 .. Eof
         /\ translated_line' \in Seq(1 .. Len(text)) /\ Final(translated_line') = w.at
         /\ translated_line' = Append(translated_line, w.at)
         /\ TokensRead("operands", pos', translated_line')
         /\ text[w.at] # "PRINT" => TokensRead("prints", pos', translated_line')
<1>0. /\ text \in Texts /\ pos \in 2 .. Eof /\ Len(text) \in Nat /\ Eof = Len(text) + 1
      /\ translated_line \in Seq(1 .. Len(text))
  BY Reads
<1>1. WordRead(w)
  BY <1>0, KnownWord
<1>2. w.at \in 3 .. Len(text) /\ pos' \in 2 .. Eof /\ pos' = w.at + 1 /\ IsWord(w.at)
  <2>1. w.at \in 2 .. Len(text) /\ pos' = w.at + 1 /\ IsWord(w.at) /\ w.word = text[w.at]
        /\ w.at >= pos
    BY <1>0, <1>1 DEF WordRead
  <2>2. w.at # 2
    <3>1. CASE pc = "line"
      BY <1>0, <2>1, <3>1, FileFacts
    <3>2. CASE pc \in Scanning
      BY <1>0, <2>1, <3>2, Reads
    <3> QED
      BY <3>1, <3>2
  <2> QED
    BY <1>0, <2>1, <2>2
<1>3. /\ translated_line' \in Seq(1 .. Len(text)) /\ Final(translated_line') = w.at
      /\ translated_line' = Append(translated_line, w.at) /\ translated_line' # <<>>
  <2>1. w.at \in 1 .. Len(text) /\ translated_line' = Append(translated_line, w.at)
    BY <1>0, <1>2 DEF Add
  <2> QED
    BY <1>0, <2>1, OfAppend
<1>4. /\ TokensRead("operands", pos', translated_line')
      /\ text[w.at] # "PRINT" => TokensRead("prints", pos', translated_line')
  <2>1. /\ w.at \in 3 .. pos' - 1 /\ w.at <= Len(text) /\ pos' = w.at + 1
        /\ \A q \in w.at + 1 .. pos' - 1 : ~IsWord(q)
    BY <1>0, <1>2
  <2> QED
    BY <1>2, <1>3, <2>1 DEF TokensRead
<1> QED
  BY <1>1, <1>2, <1>3, <1>4

\* What another token does to the line.
LEMMA TokenAdded ==
  ASSUME translated_line \in Seq(1 .. Len(text)), translated_line # <<>>,
         NEW p \in 1 .. Len(text), translated_line' = Append(translated_line, p)
  PROVE  /\ translated_line' \in Seq(1 .. Len(text)) /\ translated_line' # <<>>
         /\ translated_line'[1] = translated_line[1] /\ Final(translated_line') = p
         /\ Body(translated_line') # <<>>
         /\ Len(Body(translated_line')) = Len(Body(translated_line)) + 1
         /\ Body(translated_line) # <<>> => Word1(translated_line') = Word1(translated_line)
         /\ Len(translated_line) = 1 /\ IsLabel(translated_line[1]) =>
               Word1(translated_line') = text[p] /\ Len(Body(translated_line')) = 1
<1>1. /\ translated_line' \in Seq(1 .. Len(text)) /\ translated_line' # <<>>
      /\ Final(translated_line') = p
  BY OfAppend
<1>2. /\ translated_line'[1] = translated_line[1] /\ Body(translated_line') # <<>>
      /\ Len(Body(translated_line')) = Len(Body(translated_line)) + 1
  BY Growing
<1>3. Body(translated_line) # <<>> => Word1(translated_line') = Word1(translated_line)
  BY Growing
<1>4. Len(translated_line) = 1 /\ IsLabel(translated_line[1]) =>
        Word1(translated_line') = text[p] /\ Len(Body(translated_line')) = 1
  BY Growing
<1> QED
  BY <1>1, <1>2, <1>3, <1>4

\* A word of the file that is read next is an instruction behind a label, or
\* starts a line.
LEMMA NextStarts ==
  ASSUME IInv, pc = "line", NEW w, WordRead(w)
  PROVE  Opens(w.at)
BY Reads DEF WordRead, AtLine, NextIs, Quiet

LEMMA FirstWordIInv == ASSUME IInv, FirstWord PROVE IInv'
<1>1. PICK w : w = NextWord(FALSE)
  OBVIOUS
<1>2. /\ pc = "line" /\ text' = text /\ vartable' = vartable /\ goal' = goal /\ pos' = w.pos
      /\ pc \in Scanning \cup {"line"}
  BY <1>1 DEF FirstWord, Scanning
<1>3. /\ text \in Texts /\ state \in Ready /\ pos \in 2 .. Eof /\ error_flag \in BOOLEAN
      /\ Len(text) \in Nat /\ Eof = Len(text) + 1 /\ goal \in 0 .. Len(text)
      /\ translated_line = <<>> /\ translated_line \in Seq(1 .. Len(text))
      /\ Tokenized \in {"execute", "found"}
  BY <1>2, Reads
<1>4. vartable \in [Labels -> 0 .. Eof] /\ LabelsRead("line", state, <<>>, vartable)
  BY <1>2, <1>3, Now DEF Typed, Safe
<1>5. (WordRead(w) \/ NoneRead(w) \/ EndRead(w)) /\ (w.at = 0 => w.pos = Eof)
  <2>1. pos \in 1 .. Eof /\ FALSE \in BOOLEAN
    BY <1>3
  <2> QED
    BY <1>1, <1>3, <2>1, NextWordFacts
<1>6. pos' \in 2 .. Eof
  BY <1>2, <1>3, <1>5 DEF WordRead, NoneRead, EndRead
<1>7. CASE w.at = 0 /\ Goto(Tokenized) /\ UNCHANGED <<state, error_flag, translated_line>>
  <2>1. pos' = Eof /\ AtLine(pos')
    BY <1>2, <1>3, <1>5, <1>7, NothingAtEof
  <2>2. Typed(pc', state', pos', translated_line', vartable', error_flag', goal')
    BY <1>2, <1>3, <1>4, <1>6, <1>7 DEF Typed, Goto, Ready
  <2>3. Control(pc', state', pos', translated_line') /\ Place(pc', state', pos')
    BY <1>3, <1>6, <1>7, <2>1 DEF Control, Scanning, Place, Goto
  <2>4. TokensRead(pc', pos', translated_line') /\ OperandsRead(pc', state', translated_line')
    BY <1>3, <1>7 DEF TokensRead, OperandsRead, Scanning, Goto
  <2>5. LabelsRead(pc', state', translated_line', vartable')
    BY <1>2, <1>3, <1>4, <1>7 DEF LabelsRead, Goto
  <2> QED
    BY <1>2, <1>3, <2>2, <2>3, <2>4, <2>5, NextIInv DEF Safe
<1>8. CASE Refuse /\ UNCHANGED translated_line
  BY <1>2, <1>3, <1>6, <1>8, Refused DEF Refuse, Stop, Goto
<1>9. ASSUME w.word \in Vocabulary, w.word \in Labels \cup Instructions, Add(w.at),
             state' = IF LastLine(w) THEN "LAST_LINE" ELSE state, UNCHANGED error_flag
      PROVE  /\ w.at \in 3 .. Len(text) /\ w.word = text[w.at] /\ state' \in Ready
             /\ translated_line' \in Seq(1 .. Len(text)) /\ translated_line' = <<w.at>>
             /\ translated_line' # <<>> /\ Final(translated_line') = w.at
             /\ TokensRead("operands", pos', translated_line')
             /\ StartsLine(w.at) \/ text[w.at] \in Instructions
  <2>1. /\ WordRead(w) /\ w.at \in 3 .. Len(text) /\ Final(translated_line') = w.at
        /\ translated_line' \in Seq(1 .. Len(text))
        /\ TokensRead("operands", pos', translated_line')
    BY <1>1, <1>2, <1>9, WordAdded
  <2>2. translated_line' = <<w.at>>
    BY <1>3, <1>9 DEF Add
  <2>3. StartsLine(w.at) \/ text[w.at] \in Instructions
    BY <1>2, <2>1, NextStarts DEF Opens
  <2>4. state' \in Ready
    BY <1>3, <1>9 DEF Ready
  <2> QED
    BY <2>1, <2>2, <2>3, <2>4 DEF WordRead
<1>10. CASE /\ w.word \in Labels /\ Add(w.at) /\ Goto("labelled")
            /\ state' = (IF LastLine(w) THEN "LAST_LINE" ELSE state) /\ UNCHANGED error_flag
  <2>1. w.word \in Vocabulary /\ w.word \notin Instructions
    BY <1>10, ScannerAssumption DEF Vocabulary
  <2>2. /\ w.at \in 3 .. Len(text) /\ w.word = text[w.at] /\ state' \in Ready
        /\ translated_line' \in Seq(1 .. Len(text)) /\ translated_line' = <<w.at>>
        /\ translated_line' # <<>>
        /\ TokensRead("operands", pos', translated_line') /\ StartsLine(w.at)
    BY <1>9, <1>10, <2>1
  <2>3. Len(translated_line') = 1 /\ translated_line'[1] = w.at /\ IsLabel(w.at)
    BY <1>10, <2>2 DEF IsLabel
  <2>4. Typed(pc', state', pos', translated_line', vartable', error_flag', goal')
    BY <1>2, <1>3, <1>4, <1>6, <1>10, <2>2 DEF Typed, Goto, Ready
  <2>5. Control(pc', state', pos', translated_line') /\ Place(pc', state', pos')
    BY <1>6, <1>10, <2>2 DEF Control, Scanning, Place, Between, Goto, Ready
  <2>6. TokensRead(pc', pos', translated_line') /\ OperandsRead(pc', state', translated_line')
    BY <1>10, <2>2, <2>3 DEF TokensRead, OperandsRead, Scanning, Goto
  <2>7. LabelsRead(pc', state', translated_line', vartable')
    BY <1>2, <1>3, <1>4, <1>10, <2>2, <2>3 DEF LabelsRead, Goto, Ready, Scanning
  <2> QED
    BY <1>2, <1>3, <2>4, <2>5, <2>6, <2>7, NextIInv DEF Safe
<1>11. CASE /\ w.word \in Instructions /\ Add(w.at) /\ Goto("operands")
            /\ state' = (IF LastLine(w) THEN "LAST_LINE" ELSE state) /\ UNCHANGED error_flag
  <2>1. w.word \in Vocabulary /\ w.word \notin Labels
    BY <1>11, ScannerAssumption DEF Vocabulary
  <2>2. /\ w.at \in 3 .. Len(text) /\ w.word = text[w.at] /\ state' \in Ready
        /\ translated_line' \in Seq(1 .. Len(text)) /\ translated_line' = <<w.at>>
        /\ translated_line' # <<>> /\ Final(translated_line') = w.at
        /\ TokensRead("operands", pos', translated_line')
    BY <1>9, <1>11, <2>1
  <2>3. Len(translated_line') = 1 /\ translated_line'[1] = w.at /\ ~IsLabel(w.at)
    BY <2>1, <2>2 DEF IsLabel
  <2>4. /\ Body(translated_line') # <<>> /\ Len(Body(translated_line')) = 1
        /\ Word1(translated_line') = w.word
    BY <2>2, <2>3 DEF Body, Word1
  <2>5. Typed(pc', state', pos', translated_line', vartable', error_flag', goal')
    BY <1>2, <1>3, <1>4, <1>6, <1>11, <2>2 DEF Typed, Goto, Ready
  <2>6. Control(pc', state', pos', translated_line') /\ Place(pc', state', pos')
    BY <1>6, <1>11, <2>2 DEF Control, Scanning, Place, Between, Goto, Ready
  <2>7. Len(Operands[w.word]) \in Nat /\ (w.word \in Branches => Len(Operands[w.word]) > 0)
    BY <1>11, OperandsAre DEF OfInstruction
  <2>8. OperandsRead(pc', state', translated_line')
    BY <1>11, <2>4, <2>7 DEF OperandsRead, Goto
  <2>9. LabelsRead(pc', state', translated_line', vartable')
    BY <1>2, <1>3, <1>4, <1>11, <2>2, <2>3 DEF LabelsRead, Goto, Ready, Scanning
  <2> QED
    BY <1>2, <1>3, <1>11, <2>2, <2>5, <2>6, <2>8, <2>9, NextIInv DEF Safe, Goto
<1> QED
  BY <1>1, <1>7, <1>8, <1>10, <1>11 DEF FirstWord

\* What is known within a line, when the next word is read.
LEMMA WithinLine ==
  ASSUME IInv, pc \in Scanning
  PROVE  /\ text \in Texts /\ state \in Ready /\ pos \in 2 .. Eof /\ pos \in 1 .. Eof /\ pos >= 4
         /\ Len(text) \in Nat /\ Eof = Len(text) + 1 /\ error_flag \in BOOLEAN
         /\ goal \in 0 .. Len(text) /\ Tokenized \in {"execute", "found"}
         /\ translated_line \in Seq(1 .. Len(text)) /\ translated_line # <<>>
         /\ vartable \in [Labels -> 0 .. Eof]
         /\ TokensRead(pc, pos, translated_line)
         /\ OperandsRead(pc, state, translated_line)
         /\ LabelsRead(pc, state, translated_line, vartable)
<1>1. TokensRead(pc, pos, translated_line) /\ translated_line # <<>>
  BY Now DEF Safe, TokensRead
<1>2. OperandsRead(pc, state, translated_line)
      /\ LabelsRead(pc, state, translated_line, vartable)
  BY Now DEF Safe
<1>3. vartable \in [Labels -> 0 .. Eof]
  BY Now DEF Typed
<1>4. /\ text \in Texts /\ state \in Ready /\ pos \in 2 .. Eof /\ Len(text) \in Nat /\ pos >= 4
      /\ Eof = Len(text) + 1 /\ error_flag \in BOOLEAN /\ goal \in 0 .. Len(text)
      /\ translated_line \in Seq(1 .. Len(text)) /\ Tokenized \in {"execute", "found"}
  BY Reads
<1> QED
  BY <1>1, <1>2, <1>3, <1>4

\* w is what get_next_word returns on this line
IsNext(w) == w = NextWord(TRUE)

LEMMA NextOnLine ==
  ASSUME IInv, pc \in Scanning, NEW w, IsNext(w)
  PROVE  /\ WordRead(w) \/ NoneRead(w) \/ EndRead(w)
         /\ w.pos \in 2 .. Eof
<1>1. WordRead(w) \/ NoneRead(w) \/ EndRead(w)
  BY WithinLine, NextWordFacts DEF IsNext
<1>2. pos \in 2 .. Eof /\ Len(text) \in Nat /\ Eof = Len(text) + 1
  BY WithinLine
<1>3. WordRead(w) => w.pos \in 2 .. Eof
  BY <1>2 DEF WordRead
<1>4. NoneRead(w) => w.pos \in 2 .. Eof
  BY <1>2 DEF NoneRead
<1>5. EndRead(w) => w.pos \in 2 .. Eof
  BY <1>2 DEF EndRead
<1> QED
  BY <1>1, <1>3, <1>4, <1>5

\* Between labels and lines nothing changes while a line is read.
LEMMA LabelsReadOn ==
  ASSUME IInv, pc \in Scanning, pc # "labelled", vartable' = vartable,
         pc' \in Scanning \cup {"execute", "found"}, state' \in Ready,
         translated_line' # <<>>, translated_line'[1] = translated_line[1]
  PROVE  LabelsRead(pc', state', translated_line', vartable')
<1>1. LabelsRead(pc, state, translated_line, vartable) /\ translated_line # <<>> /\ state # "FINISHED"
  BY WithinLine DEF Ready
<1> QED
  BY <1>1 DEF LabelsRead

LEMMA LabelledWordIInv == ASSUME IInv, LabelledWord PROVE IInv'
<1>1. PICK w : IsNext(w)
  BY DEF IsNext
<1>2. /\ pc = "labelled" /\ text' = text /\ vartable' = vartable /\ goal' = goal /\ pos' = w.pos
      /\ pc \in Scanning /\ pc \in Scanning \cup {"line"}
  BY <1>1 DEF LabelledWord, Scanning, IsNext
<1>3. /\ text \in Texts /\ state \in Ready /\ pos \in 2 .. Eof /\ error_flag \in BOOLEAN
      /\ Len(text) \in Nat /\ Eof = Len(text) + 1 /\ goal \in 0 .. Len(text)
      /\ translated_line # <<>> /\ translated_line \in Seq(1 .. Len(text))
      /\ Tokenized \in {"execute", "found"} /\ vartable \in [Labels -> 0 .. Eof]
  BY <1>2, WithinLine
<1>4. pos' \in 2 .. Eof
  BY <1>1, <1>2, NextOnLine
<1>5. CASE Refuse /\ UNCHANGED translated_line
  BY <1>2, <1>3, <1>4, <1>5, Refused DEF Refuse, Stop, Goto
<1>6. CASE /\ w.word \in Instructions /\ Add(w.at) /\ Goto("operands")
           /\ state' = (IF LastLine(w) THEN "LAST_LINE" ELSE state) /\ UNCHANGED error_flag
  <2>1. w.word \in Vocabulary
    BY <1>6 DEF Vocabulary
  <2>2. /\ WordRead(w) /\ w.at \in 3 .. Len(text) /\ w.word = text[w.at]
        /\ translated_line' \in Seq(1 .. Len(text)) /\ Final(translated_line') = w.at
        /\ translated_line' = Append(translated_line, w.at)
        /\ TokensRead("operands", pos', translated_line')
    BY <1>1, <1>2, <1>6, <2>1, WordAdded DEF WordRead, IsNext
  <2>3. Len(translated_line) = 1 /\ IsLabel(translated_line[1]) /\ pos = translated_line[1] + 1
        /\ StartsLine(translated_line[1])
    BY <1>2, <1>3, WithinLine DEF TokensRead, Final, LabelsRead
  <2>4. /\ translated_line' # <<>> /\ translated_line'[1] = translated_line[1]
        /\ Body(translated_line') # <<>> /\ Len(Body(translated_line')) = 1
        /\ Word1(translated_line') = w.word
    <3>1. w.at \in 1 .. Len(text)
      BY <1>3, <2>2
    <3> QED
      BY <1>3, <2>2, <2>3, <3>1, TokenAdded
  <2>5. state' \in Ready
    BY <1>3, <1>6 DEF Ready
  <2>6. Follows(pos)
    <3>1. ASSUME NEW q \in pos .. Len(text), NextIs(pos, q) PROVE q = w.at
      BY <1>3, <2>2, <3>1 DEF NextIs, WordRead, Quiet
    <3> QED
      BY <1>6, <2>2, <3>1 DEF Follows
  <2>7. Typed(pc', state', pos', translated_line', vartable', error_flag', goal')
    BY <1>2, <1>3, <1>4, <1>6, <2>2, <2>5 DEF Typed, Goto, Ready
  <2>8. Control(pc', state', pos', translated_line') /\ Place(pc', state', pos')
    BY <1>4, <1>6, <2>5 DEF Control, Scanning, Place, Between, Goto, Ready
  <2>9. OperandsRead(pc', state', translated_line')
    <3>1. Len(Operands[w.word]) \in Nat /\ (w.word \in Branches => Len(Operands[w.word]) > 0)
      BY <1>6, OperandsAre DEF OfInstruction
    <3> QED
      BY <1>6, <2>4, <3>1 DEF OperandsRead, Goto
  <2>10. LabelsRead(pc', state', translated_line', vartable')
    BY <1>2, <1>3, <1>6, <2>3, <2>4, <2>5, <2>6, WithinLine DEF LabelsRead, Goto, Ready
  <2> QED
    BY <1>2, <1>3, <1>6, <2>2, <2>7, <2>8, <2>9, <2>10, NextIInv DEF Safe, Goto
<1> QED
  BY <1>1, <1>5, <1>6 DEF LabelledWord, IsNext

LEMMA FitsKnown ==
  ASSUME NEW kind \in Kinds, NEW word, Fits(word, kind)
  PROVE  /\ word \in Vocabulary
         /\ kind # "string" => word \notin Instructions /\ word # "PRINT"
         /\ kind = "label" => word \in Labels
<1>1. CASE kind = "string"
  BY <1>1 DEF Fits, Vocabulary
<1>2. CASE kind # "string"
  <2>1. word \in Labels \cup Variables \cup Numbers /\ (kind = "label" => word \in Labels)
    BY <1>2 DEF Kinds, Fits
  <2>2. word \notin Instructions
    BY <2>1, ScannerAssumption
  <2>3. "PRINT" \in Instructions
    BY InstructionsAre
  <2> QED
    BY <1>2, <2>1, <2>2, <2>3 DEF Vocabulary
<1> QED
  BY <1>1, <1>2

LEMMA InstructionIsBody == Instruction = Body(translated_line)
BY DEF Instruction, Body, IsLabel

\* An operand is refused, and freed with the line if it is half an array.
LEMMA OperandRefused ==
  ASSUME IInv, pc \in Scanning, NEW w, IsNext(w), pos' = w.pos, Refuse,
         (w.word \in HalfArrays /\ Add(w.at)) \/ UNCHANGED translated_line,
         UNCHANGED <<text, vartable, goal>>
  PROVE  IInv'
<1>1. /\ text \in Texts /\ translated_line # <<>> /\ translated_line \in Seq(1 .. Len(text))
      /\ Tokenized \in {"execute", "found"} /\ pos' \in 2 .. Eof
  BY WithinLine, NextOnLine
<1>2. translated_line' \in Seq(1 .. Len(text)) /\ translated_line'[1] = translated_line[1]
  <2>1. CASE w.word \in HalfArrays /\ Add(w.at)
    <3>1. w.word \in Vocabulary /\ TRUE \in BOOLEAN
      BY <2>1 DEF Vocabulary
    <3>2. /\ translated_line' \in Seq(1 .. Len(text)) /\ w.at \in 3 .. Len(text)
          /\ translated_line' = Append(translated_line, w.at)
      BY <2>1, <3>1, WordAdded DEF IsNext, Scanning
    <3>3. w.at \in 1 .. Len(text)
      BY <3>2, WithinLine
    <3> QED
      BY <1>1, <3>2, <3>3, OfAppend
  <2>2. CASE UNCHANGED translated_line
    BY <1>1, <2>2
  <2> QED
    BY <2>1, <2>2
<1> QED
  BY <1>1, <1>2, Refused DEF Refuse, Stop, Goto

LEMMA OperandIInv == ASSUME IInv, Operand PROVE IInv'
<1>1. PICK w : IsNext(w)
  BY DEF IsNext
<1>2. PICK word : word = Word1(translated_line)
  OBVIOUS
<1>3. PICK n : n = Len(Body(translated_line))
  OBVIOUS
<1>4. /\ pc = "operands" /\ text' = text /\ vartable' = vartable /\ goal' = goal /\ pos' = w.pos
      /\ word # "PRINT" /\ n <= Len(Operands[word])
      /\ pc \in Scanning /\ pc \in Scanning \cup {"line"} /\ pc # "labelled"
  BY <1>1, <1>2, <1>3, InstructionIsBody DEF Operand, Word1, Scanning, IsNext
<1>5. /\ text \in Texts /\ state \in Ready /\ error_flag \in BOOLEAN /\ Len(text) \in Nat
      /\ goal \in 0 .. Len(text) /\ translated_line # <<>>
      /\ translated_line \in Seq(1 .. Len(text)) /\ vartable \in [Labels -> 0 .. Eof]
      /\ OperandsRead(pc, state, translated_line)
  BY <1>4, WithinLine
<1>6. pos' \in 2 .. Eof
  BY <1>1, <1>4, NextOnLine
<1>7. /\ Body(translated_line) # <<>> /\ word \in Instructions /\ n \in Nat \ {0}
      /\ OfInstruction(word, Operands[word])
  BY <1>2, <1>3, <1>4, <1>5, BodyFacts, OperandsAre DEF OperandsRead
<1>8. CASE /\ ~Fits(w.word, Operands[word][n]) /\ Refuse
           /\ (w.word \in HalfArrays /\ Add(w.at)) \/ UNCHANGED translated_line
  BY <1>1, <1>4, <1>8, OperandRefused
<1>9. CASE /\ Fits(w.word, Operands[word][n]) /\ Add(w.at)
           /\ state' = (IF LastLine(w) THEN "LAST_LINE" ELSE state) /\ UNCHANGED <<error_flag, pc>>
  <2>1. /\ Operands[word][n] \in Kinds /\ Operands[word][n] # "string"
        /\ word \in Branches /\ n = Len(Operands[word]) => Operands[word][n] = "label"
    BY <1>4, <1>7 DEF OfInstruction
  <2>2. /\ w.word \in Vocabulary /\ w.word # "PRINT"
        /\ word \in Branches /\ n = Len(Operands[word]) => w.word \in Labels
    BY <1>9, <2>1, FitsKnown
  <2>3. /\ WordRead(w) /\ w.at \in 3 .. Len(text) /\ w.word = text[w.at]
        /\ translated_line' \in Seq(1 .. Len(text)) /\ Final(translated_line') = w.at
        /\ translated_line' = Append(translated_line, w.at)
        /\ TokensRead("operands", pos', translated_line')
    BY <1>1, <1>4, <1>9, <2>2, WordAdded DEF WordRead, IsNext
  <2>4. w.at \in 1 .. Len(text)
    BY <2>3
  <2>5. /\ translated_line' # <<>> /\ translated_line'[1] = translated_line[1]
        /\ Body(translated_line') # <<>> /\ Len(Body(translated_line')) = n + 1
        /\ Word1(translated_line') = word
    BY <1>2, <1>3, <1>5, <1>7, <2>3, <2>4, TokenAdded
  <2>6. state' \in Ready /\ pc' = "operands"
    BY <1>4, <1>5, <1>9 DEF Ready
  <2>7. Typed(pc', state', pos', translated_line', vartable', error_flag', goal')
    BY <1>4, <1>5, <1>6, <1>9, <2>3, <2>6 DEF Typed, Ready
  <2>8. Control(pc', state', pos', translated_line') /\ Place(pc', state', pos')
    BY <1>6, <2>6 DEF Control, Scanning, Place, Between, Ready
  <2>9. OperandsRead(pc', state', translated_line')
    BY <1>4, <1>7, <2>2, <2>3, <2>5, <2>6 DEF OperandsRead, OfInstruction
  <2>10. LabelsRead(pc', state', translated_line', vartable')
    BY <1>4, <2>5, <2>6, LabelsReadOn DEF Scanning
  <2> QED
    BY <1>4, <1>5, <2>3, <2>6, <2>7, <2>8, <2>9, <2>10, NextIInv DEF Safe
<1> QED
  BY <1>1, <1>2, <1>3, <1>8, <1>9, InstructionIsBody DEF Operand, Word1, IsNext

\* What the last word and the newline that was found say of the next line.
LEMMA LineEnds ==
  ASSUME IInv, pc \in Scanning, text[Final(translated_line)] # "PRINT",
         NEW p \in pos .. Eof, Quiet(pos, p),
         p = Eof \/ \E r \in pos .. p : r <= Len(text) /\ text[r] = "\n"
  PROVE  AtLine(p)
<1>1. PICK last : last = Final(translated_line)
  OBVIOUS
<1>2. /\ text \in Texts /\ pos \in 2 .. Eof /\ Len(text) \in Nat /\ Eof = Len(text) + 1
      /\ last \in 3 .. pos - 1 /\ last <= Len(text) /\ IsWord(last) /\ text[last] # "PRINT"
      /\ \A r \in last + 1 .. pos - 1 : ~IsWord(r)
  BY <1>1, WithinLine DEF TokensRead
<1>3. CASE p = Eof
  BY <1>2, <1>3, NothingAtEof
<1>4. ASSUME NEW nl \in pos .. p, nl <= Len(text), text[nl] = "\n" PROVE AtLine(p)
  <2>1. last \in 1 .. Len(text) /\ p \in last + 1 .. Eof /\ nl \in last + 1 .. Len(text) /\ nl <= p
    BY <1>2, <1>4
  <2>2. Quiet(last + 1, p)
    BY <1>2 DEF Quiet
  <2> QED
    BY <1>2, <1>4, <2>1, <2>2, NewlineEnds
<1> QED
  BY <1>3, <1>4

\* The line has been read up to its end: it is executed, or it is looked at by
\* the search.
LEMMA LineRead ==
  ASSUME IInv, pc \in Scanning, pc # "labelled", UNCHANGED <<text, vartable, goal, error_flag>>,
         pc' = Tokenized, state' \in Ready, pos' \in 2 .. Eof, AtLine(pos'),
         translated_line' \in Seq(1 .. Len(text)), translated_line' # <<>>,
         translated_line'[1] = translated_line[1],
         Word1(translated_line') \in Branches => text[Final(translated_line')] \in Labels
  PROVE  IInv'
<1>1. /\ text \in Texts /\ pc' \in {"execute", "found"} /\ error_flag \in BOOLEAN
      /\ goal \in 0 .. Len(text) /\ vartable \in [Labels -> 0 .. Eof]
      /\ Len(text) \in Nat /\ Eof = Len(text) + 1
  BY WithinLine
<1>2. Typed(pc', state', pos', translated_line', vartable', error_flag', goal')
  BY <1>1 DEF Typed, Ready
<1>3. Control(pc', state', pos', translated_line') /\ Place(pc', state', pos')
  BY <1>1 DEF Control, Scanning, Place, Between, Ready
<1>4. TokensRead(pc', pos', translated_line') /\ OperandsRead(pc', state', translated_line')
  BY <1>1 DEF TokensRead, OperandsRead, Scanning
<1>5. LabelsRead(pc', state', translated_line', vartable')
  BY <1>1, LabelsReadOn
<1> QED
  BY <1>1, <1>2, <1>3, <1>4, <1>5, NextIInv DEF Safe

LEMMA EndOfLineIInv == ASSUME IInv, EndOfLine PROVE IInv'
<1>1. PICK p : p = FlushToNewline
  OBVIOUS
<1>2. PICK word : word = Word1(translated_line)
  OBVIOUS
<1>3. PICK n : n = Len(Body(translated_line))
  OBVIOUS
<1>4. /\ pc = "operands" /\ pos' = p /\ Operands[word] # <<>> /\ word # "PRINT"
      /\ n > Len(Operands[word]) /\ UNCHANGED <<text, vartable, goal, translated_line>>
      /\ pc \in Scanning /\ pc \in Scanning \cup {"line"} /\ pc # "labelled"
  BY <1>1, <1>2, <1>3, InstructionIsBody DEF EndOfLine, Word1, Scanning
<1>5. /\ text \in Texts /\ state \in Ready /\ error_flag \in BOOLEAN /\ Len(text) \in Nat
      /\ Eof = Len(text) + 1 /\ pos \in 2 .. Eof /\ pos \in 1 .. Eof
      /\ translated_line \in Seq(1 .. Len(text)) /\ translated_line # <<>>
      /\ Tokenized \in {"execute", "found"}
      /\ TokensRead(pc, pos, translated_line) /\ OperandsRead(pc, state, translated_line)
  BY <1>4, WithinLine
<1>6. /\ p \in pos .. Eof /\ Quiet(pos + 1, p) /\ p \in 2 .. Eof
      /\ pos # Eof => (p = pos /\ text[pos] = "\n") \/ p > pos
  <2>1. /\ p \in pos .. Eof /\ Quiet(pos + 1, p)
        /\ pos # Eof => (p = pos /\ text[pos] = "\n") \/ p > pos
    BY <1>1, <1>5, FlushesToNewline
  <2> QED
    BY <1>5, <2>1
<1>7. CASE Char(p) \notin {"\n", "EOF"} /\ Refuse
  BY <1>4, <1>5, <1>6, <1>7, Refused DEF Refuse, Stop, Goto
<1>8. CASE /\ Char(p) \in {"\n", "EOF"} /\ Goto(Tokenized) /\ UNCHANGED error_flag
           /\ state' = IF word \in {"BRA", "BREQ"} /\ p = Eof
                       THEN "INSTRUCTION_LINE" ELSE state
  <2>1. /\ word \in Instructions /\ n \in Nat \ {0} /\ OfInstruction(word, Operands[word])
        /\ Len(Operands[word]) > 0
    <3>1. Body(translated_line) # <<>> /\ word \in Instructions
      BY <1>2, <1>4, <1>5 DEF OperandsRead
    <3>2. n \in Nat \ {0}
      BY <1>3, <1>5, <3>1, BodyFacts
    <3>3. OfInstruction(word, Operands[word])
      BY <3>1, OperandsAre
    <3>4. Len(Operands[word]) # 0
      BY <1>4, <3>1, InstructionsAre DEF Operands
    <3> QED
      BY <3>1, <3>2, <3>3, <3>4 DEF OfInstruction
  <2>2. /\ text[Final(translated_line)] # "PRINT"
        /\ word \in Branches => text[Final(translated_line)] \in Labels
    <3>1. n > 1
      BY <1>4, <2>1 DEF OfInstruction
    <3> QED
      BY <1>2, <1>3, <1>4, <1>5, <3>1 DEF OperandsRead
  <2>3. pos # Eof => ~IsWord(pos)
    BY <1>4, <1>5, FileFacts DEF TokensRead
  <2>4. Quiet(pos, p)
    BY <1>5, <1>6, <2>3 DEF Quiet
  <2>5. p = Eof \/ \E r \in pos .. p : r <= Len(text) /\ text[r] = "\n"
    BY <1>5, <1>6, <1>8, FileFacts DEF Char
  <2>6. AtLine(p)
    BY <1>4, <1>6, <2>2, <2>4, <2>5, LineEnds
  <2>7. state' \in Ready
    BY <1>5, <1>8 DEF Ready
  <2> QED
    BY <1>2, <1>4, <1>5, <1>6, <1>8, <2>2, <2>6, <2>7, LineRead DEF Goto
<1> QED
  BY <1>1, <1>2, <1>7, <1>8, InstructionIsBody DEF EndOfLine, Word1

\* RETURN has no operand: it is the last token.
LEMMA ReturnIsLast ==
  ASSUME IInv, pc = "operands", Word1(translated_line) = "RETURN"
  PROVE  text[Final(translated_line)] = "RETURN"
<1>1. /\ translated_line \in Seq(1 .. Len(text)) /\ translated_line # <<>>
      /\ OperandsRead(pc, state, translated_line)
  BY WithinLine DEF Scanning
<1>2. Len(Operands["RETURN"]) = 0
  BY InstructionsAre, OperandsAre DEF OfInstruction
<1>3. Body(translated_line) # <<>> /\ Len(Body(translated_line)) <= 1
  BY <1>1, <1>2 DEF OperandsRead
<1>4. /\ Len(translated_line) \in Nat \ {0} /\ Len(Body(translated_line)) > 0
      /\ Len(Body(translated_line)) =
           IF IsLabel(translated_line[1]) THEN Len(translated_line) - 1 ELSE Len(translated_line)
      /\ Word1(translated_line) =
           IF IsLabel(translated_line[1]) THEN text[translated_line[2]] ELSE text[translated_line[1]]
  BY <1>1, <1>3, BodyFacts
<1> QED
  BY <1>3, <1>4 DEF Final

LEMMA NothingToReadIInv == ASSUME IInv, NothingToRead PROVE IInv'
<1>1. /\ pc = "operands" /\ Word1(translated_line) = "RETURN"
      /\ UNCHANGED <<text, vartable, goal, translated_line, pos, state, error_flag>>
      /\ pc' = Tokenized /\ pc \in Scanning /\ pc # "labelled"
  BY InstructionIsBody DEF NothingToRead, Word1, Scanning, Goto
<1>2. /\ text \in Texts /\ state \in Ready /\ Len(text) \in Nat /\ Eof = Len(text) + 1
      /\ pos \in 2 .. Eof /\ translated_line \in Seq(1 .. Len(text)) /\ translated_line # <<>>
      /\ TokensRead(pc, pos, translated_line) /\ OperandsRead(pc, state, translated_line)
  BY <1>1, WithinLine
<1>3. text[Final(translated_line)] = "RETURN"
  BY <1>1, ReturnIsLast
<1>4. AtLine(pos)
  <2>1. /\ Final(translated_line) \in 3 .. Len(text) /\ pos = Final(translated_line) + 1
        /\ pos \in Final(translated_line) + 1 .. Eof
    BY <1>1, <1>2 DEF TokensRead
  <2>2. Quiet(Final(translated_line) + 1, pos)
    BY <2>1 DEF Quiet
  <2> QED
    BY <1>2, <1>3, <2>1, <2>2, ReturnEnds
<1> QED
  BY <1>1, <1>2, <1>4, LineRead DEF Branches


LEMMA PrintStringIInv == ASSUME IInv, PrintString PROVE IInv'
<1>1. PICK p : p = FlushToChar(pos)
  OBVIOUS
<1>2. PICK q : q = FlushToChar(After(p))
  OBVIOUS
<1>3. /\ pc = "operands" /\ Word1(translated_line) = "PRINT"
      /\ UNCHANGED <<text, vartable, goal>> /\ pc \in Scanning /\ pc \in Scanning \cup {"line"}
      /\ pc # "labelled"
  BY InstructionIsBody DEF PrintString, Word1, Scanning
<1>4. /\ text \in Texts /\ state \in Ready /\ error_flag \in BOOLEAN /\ Len(text) \in Nat
      /\ Eof = Len(text) + 1 /\ pos \in 2 .. Eof /\ pos \in 0 .. Eof /\ goal \in 0 .. Len(text)
      /\ translated_line \in Seq(1 .. Len(text)) /\ translated_line # <<>>
      /\ Tokenized \in {"execute", "found"} /\ vartable \in [Labels -> 0 .. Eof]
      /\ TokensRead(pc, pos, translated_line) /\ OperandsRead(pc, state, translated_line)
      /\ pos >= 4
  BY <1>3, WithinLine
<1>5. p \in pos .. Eof /\ (pos # Eof => p > pos) /\ (p # Eof => IsWord(p)) /\ p \in 3 .. Eof
  <2>1. p \in pos .. Eof /\ (pos # Eof => p > pos) /\ (p # Eof => IsWord(p))
    BY <1>1, <1>4, FlushesToChar
  <2> QED
    BY <1>4, <2>1
<1>6. CASE /\ UNCHANGED translated_line /\ Refuse
           /\ pos' = p \/ pos' = Eof
  BY <1>3, <1>4, <1>5, <1>6, Refused DEF Refuse, Stop, Goto
<1>7. CASE /\ Char(p) = "string" /\ After(p) # Eof
           /\ Add(p) /\ pos' = q /\ UNCHANGED error_flag
           /\ state' = (IF q = Eof THEN "LAST_LINE" ELSE state)
           /\ Goto(IF q # Eof /\ SameLine(p, q) THEN "prints" ELSE Tokenized)
  <2>1. /\ p \in 3 .. Len(text) /\ After(p) = p + 1 /\ p + 1 \in 0 .. Eof /\ p + 1 <= Len(text)
        /\ text[p] = "string" /\ p \in 1 .. Eof
    BY <1>4, <1>5, <1>7 DEF After, Char
  <2>2. /\ q \in p + 1 .. Eof /\ q > p + 1 /\ Quiet(p + 2, q)
        /\ q \in 2 .. Eof /\ q \in p .. Eof
    <3>1. /\ q \in After(p) .. Eof /\ (After(p) # Eof => q > After(p))
          /\ Quiet(After(p) + 1, q)
      BY <1>2, <1>4, <2>1, FlushesToChar
    <3>2. After(p) + 1 = p + 2 /\ After(p) # Eof
      BY <1>4, <2>1
    <3> QED
      BY <1>4, <2>1, <3>1, <3>2
  <2>3. Quiet(p + 1, q)
    <3>1. ~IsWord(p + 1)
      BY <1>4, <1>5, <2>1, FileFacts
    <3> QED
      BY <1>4, <2>1, <2>2, <3>1 DEF Quiet
  <2>4. /\ translated_line' \in Seq(1 .. Len(text)) /\ translated_line' # <<>>
        /\ translated_line'[1] = translated_line[1] /\ Final(translated_line') = p
        /\ Word1(translated_line') = "PRINT" /\ Body(translated_line') # <<>>
    <3>1. p \in 1 .. Len(text) /\ translated_line' = Append(translated_line, p)
      BY <1>4, <1>7, <2>1 DEF Add
    <3>2. Body(translated_line) # <<>>
      BY <1>3, <1>4 DEF OperandsRead
    <3> QED
      BY <1>3, <1>4, <3>1, <3>2, TokenAdded
  <2>5. state' \in Ready
    BY <1>4, <1>7 DEF Ready
  <2>6. CASE q = Eof \/ ~SameLine(p, q)
    <3>1. AtLine(q)
      <4>1. CASE q = Eof
        BY <1>4, <4>1, NothingAtEof
      <4>2. CASE ~SameLine(p, q)
        <5>1. PICK r \in p + 1 .. q : r <= Len(text) /\ text[r] = "\n"
          BY <1>4, <2>1, <2>2, <4>2, NotSameLine
        <5>2. p \in 1 .. Len(text) /\ r \in p + 1 .. Len(text) /\ r <= q /\ text[p] # "PRINT"
          BY <1>4, <2>1, <2>2, <5>1
        <5>3. IsWord(p)
          BY <1>4, <1>5, <2>1
        <5> QED
          BY <1>4, <2>2, <2>3, <5>1, <5>2, <5>3, NewlineEnds
      <4> QED
        BY <2>6, <4>1, <4>2
    <3>2. pc' = Tokenized
      BY <1>7, <2>6 DEF Goto
    <3> QED
      BY <1>3, <1>4, <1>7, <2>2, <2>4, <2>5, <3>1, <3>2, LineRead DEF Branches
  <2>7. CASE q # Eof /\ SameLine(p, q)
    <3>1. pc' = "prints"
      BY <1>7, <2>7 DEF Goto
    <3>2. Typed(pc', state', pos', translated_line', vartable', error_flag', goal')
      BY <1>3, <1>4, <1>7, <2>2, <2>4, <2>5, <3>1 DEF Typed, Ready
    <3>3. Control(pc', state', pos', translated_line') /\ Place(pc', state', pos')
      BY <1>4, <1>7, <2>2, <2>5, <3>1 DEF Control, Scanning, Place, Between, Ready
    <3>4. TokensRead(pc', pos', translated_line')
      <4>1. p \in 3 .. q - 1 /\ p <= Len(text) /\ IsWord(p) /\ text[p] # "PRINT"
        BY <1>4, <1>5, <2>1, <2>2
      <4>2. \A r \in p + 1 .. q - 1 : ~IsWord(r)
        BY <2>3 DEF Quiet
      <4> QED
        BY <1>7, <2>4, <3>1, <4>1, <4>2 DEF TokensRead
    <3>5. OperandsRead(pc', state', translated_line')
      BY <2>4, <3>1, InstructionsAre DEF OperandsRead, Branches
    <3>6. LabelsRead(pc', state', translated_line', vartable')
      BY <1>3, <2>4, <2>5, <3>1, LabelsReadOn DEF Scanning
    <3> QED
      BY <1>3, <1>4, <3>2, <3>3, <3>4, <3>5, <3>6, NextIInv DEF Safe
  <2> QED
    BY <2>6, <2>7
<1> QED
  BY <1>1, <1>2, <1>6, <1>7 DEF PrintString

LEMMA PrintOperandIInv == ASSUME IInv, PrintOperand PROVE IInv'
<1>1. PICK w : IsNext(w)
  BY DEF IsNext
<1>2. /\ pc = "prints" /\ text' = text /\ vartable' = vartable /\ goal' = goal /\ pos' = w.pos
      /\ pc \in Scanning /\ pc \in Scanning \cup {"line"} /\ pc # "labelled"
  BY <1>1 DEF PrintOperand, Scanning, IsNext
<1>3. /\ text \in Texts /\ state \in Ready /\ error_flag \in BOOLEAN /\ Len(text) \in Nat
      /\ Eof = Len(text) + 1 /\ pos \in 2 .. Eof
      /\ goal \in 0 .. Len(text) /\ translated_line # <<>>
      /\ translated_line \in Seq(1 .. Len(text)) /\ vartable \in [Labels -> 0 .. Eof]
      /\ TokensRead(pc, pos, translated_line) /\ OperandsRead(pc, state, translated_line)
  BY <1>2, WithinLine
<1>4. pos' \in 2 .. Eof /\ (WordRead(w) \/ NoneRead(w) \/ EndRead(w))
  BY <1>1, <1>2, NextOnLine
<1>5. /\ Body(translated_line) # <<>> /\ Word1(translated_line) \notin Branches
      /\ Word1(translated_line) \in Instructions /\ text[Final(translated_line)] # "PRINT"
  BY <1>2, <1>3 DEF OperandsRead, TokensRead
<1>6. CASE w.at = 0 /\ Goto(Tokenized) /\ UNCHANGED <<state, error_flag, translated_line>>
  <2>1. NoneRead(w)
    <3>1. WordRead(w) => w.at # 0
      BY <1>3 DEF WordRead
    <3>2. EndRead(w) => w.at # 0
      BY <1>3 DEF EndRead
    <3> QED
      BY <1>4, <1>6, <3>1, <3>2
  <2>2. AtLine(pos')
    BY <1>2, <1>5, <2>1, LineEnds DEF NoneRead
  <2> QED
    BY <1>2, <1>3, <1>4, <1>5, <1>6, <2>2, LineRead DEF Goto
<1>7. CASE /\ ~Fits(w.word, "operand") /\ Refuse
           /\ IF w.word \in HalfArrays THEN Add(w.at) ELSE UNCHANGED translated_line
  BY <1>1, <1>2, <1>7, OperandRefused
<1>8. CASE /\ Fits(w.word, "operand") /\ Add(w.at)
           /\ state' = (IF LastLine(w) THEN "LAST_LINE" ELSE state) /\ UNCHANGED <<error_flag, pc>>
  <2>1. w.word \in Vocabulary /\ w.word # "PRINT"
    BY <1>8, FitsKnown DEF Kinds
  <2>2. /\ w.at \in 3 .. Len(text)
        /\ translated_line' \in Seq(1 .. Len(text))
        /\ translated_line' = Append(translated_line, w.at)
        /\ TokensRead("prints", pos', translated_line')
    BY <1>1, <1>2, <1>8, <2>1, WordAdded DEF WordRead, IsNext
  <2>3. w.at \in 1 .. Len(text)
    BY <1>3, <2>2
  <2>4. /\ translated_line' # <<>> /\ translated_line'[1] = translated_line[1]
        /\ Body(translated_line') # <<>> /\ Word1(translated_line') = Word1(translated_line)
    BY <1>3, <1>5, <2>2, <2>3, TokenAdded
  <2>5. state' \in Ready /\ pc' = "prints"
    BY <1>2, <1>3, <1>8 DEF Ready
  <2>6. Typed(pc', state', pos', translated_line', vartable', error_flag', goal')
    BY <1>2, <1>3, <1>4, <1>8, <2>2, <2>5 DEF Typed, Ready
  <2>7. Control(pc', state', pos', translated_line') /\ Place(pc', state', pos')
    BY <1>4, <2>5 DEF Control, Scanning, Place, Between, Ready
  <2>8. OperandsRead(pc', state', translated_line')
    BY <1>5, <2>4, <2>5 DEF OperandsRead
  <2>9. LabelsRead(pc', state', translated_line', vartable')
    BY <1>2, <2>4, <2>5, LabelsReadOn DEF Scanning
  <2> QED
    BY <1>2, <1>3, <2>2, <2>5, <2>6, <2>7, <2>8, <2>9, NextIInv DEF Safe
<1> QED
  BY <1>1, <1>6, <1>7, <1>8 DEF PrintOperand, IsNext

-----------------------------------------------------------------------------
(***************************************************************************)
(* The steps of the handlers of exec.c.                                    *)
(***************************************************************************)
\* What is known when a line has been tokenized.
LEMMA LineDone ==
  ASSUME IInv, pc \in {"execute", "found"}
  PROVE  /\ text \in Texts /\ state \in Ready \cup {"FINISHED"} /\ pos \in 2 .. Eof
         /\ Len(text) \in Nat /\ Eof = Len(text) + 1 /\ error_flag \in BOOLEAN
         /\ goal \in 0 .. Len(text) /\ translated_line \in Seq(1 .. Len(text))
         /\ vartable \in [Labels -> 0 .. Eof]
         /\ state # "FINISHED" => AtLine(pos)
         /\ OperandsRead(pc, state, translated_line)
         /\ LabelsRead(pc, state, translated_line, vartable)
<1>1. /\ text \in Texts /\ state \in Ready \cup {"FINISHED"} /\ pos >= 2
      /\ OperandsRead(pc, state, translated_line)
      /\ LabelsRead(pc, state, translated_line, vartable)
  BY Now DEF Safe, Control, Ready
<1>2. /\ pos \in 0 .. Eof /\ error_flag \in BOOLEAN /\ goal \in 0 .. Len(text)
      /\ translated_line \in Seq(1 .. Len(text)) /\ vartable \in [Labels -> 0 .. Eof]
  BY Now DEF Typed
<1>3. Len(text) \in Nat /\ Eof = Len(text) + 1
  BY <1>1, FileFacts
<1>4. state # "FINISHED" => AtLine(pos)
  BY <1>1, Now DEF Safe, Place, Between
<1> QED
  BY <1>1, <1>2, <1>3, <1>4

\* The label of the line that was tokenized goes into the table.
LEMMA InsertedLabel ==
  ASSUME IInv, pc \in {"execute", "found"}, translated_line # <<>>,
         IsLabel(translated_line[1])
  PROVE  LET t == Inserted(translated_line[1]) IN
         /\ t \in [Labels -> 0 .. Eof]
         /\ \A n \in Labels : t[n] # 0 =>
               /\ t[n] > 1 /\ text[t[n] - 1] = n /\ StartsLine(t[n] - 1)
               /\ state # "FINISHED" => Follows(t[n])
         /\ translated_line[1] \in 2 .. Len(text)
         /\ After(translated_line[1]) = translated_line[1] + 1
<1>1. PICK first : first = translated_line[1]
  OBVIOUS
<1>2. PICK t : t = Inserted(first)
  OBVIOUS
<1>3. /\ first \in 1 .. Len(text) /\ Len(text) \in Nat /\ Eof = Len(text) + 1
      /\ vartable \in [Labels -> 0 .. Eof] /\ text[first] \in Labels
      /\ LabelsRead(pc, state, translated_line, vartable)
  BY <1>1, LineDone, OfTail DEF IsLabel
<1>4. first > 1 /\ StartsLine(first) /\ (state # "FINISHED" => Follows(first + 1))
  BY <1>1, <1>3 DEF LabelsRead
<1>5. After(first) = first + 1 /\ first + 1 \in 0 .. Eof /\ first + 1 > 1 /\ first + 1 - 1 = first
  BY <1>3 DEF After
<1>6. t = [vartable EXCEPT ![text[first]] = first + 1]
  BY <1>2, <1>5 DEF Inserted
<1>7. t \in [Labels -> 0 .. Eof]
  BY <1>3, <1>5, <1>6
<1>8. ASSUME NEW n \in Labels, t[n] # 0
      PROVE  /\ t[n] > 1 /\ text[t[n] - 1] = n /\ StartsLine(t[n] - 1)
             /\ state # "FINISHED" => Follows(t[n])
  <2>1. CASE n = text[first]
    <3>1. t[n] = first + 1
      BY <1>3, <1>6, <2>1
    <3>2. t[n] > 1 /\ t[n] - 1 = first /\ t[n] = first + 1
      BY <1>3, <1>5, <3>1
    <3> QED
      BY <1>4, <2>1, <3>2
  <2>2. CASE n # text[first]
    <3>1. t[n] = vartable[n]
      BY <1>3, <1>6, <2>2
    <3> QED
      BY <1>3, <1>8, <3>1 DEF LabelsRead
  <2> QED
    BY <2>1, <2>2
<1> QED
  BY <1>1, <1>2, <1>3, <1>4, <1>5, <1>7, <1>8

LEMMA TableOfLineFacts ==
  ASSUME IInv, pc \in {"execute", "found"}, translated_line # <<>>
  PROVE  /\ TableOfLine \in [Labels -> 0 .. Eof]
         /\ \A n \in Labels : TableOfLine[n] # 0 =>
               /\ TableOfLine[n] > 1 /\ text[TableOfLine[n] - 1] = n
               /\ StartsLine(TableOfLine[n] - 1)
               /\ state # "FINISHED" => Follows(TableOfLine[n])
<1>1. CASE IsLabel(translated_line[1])
  BY <1>1, InsertedLabel DEF TableOfLine
<1>2. CASE ~IsLabel(translated_line[1])
  BY <1>2, LineDone DEF TableOfLine, LabelsRead
<1> QED
  BY <1>1, <1>2

\* The interpreter goes on between two lines, its ring buffer empty.
LEMMA GoesOn ==
  ASSUME IInv, text' = text, goal' \in 0 .. Len(text), error_flag' \in BOOLEAN,
         \/ pc' = "turn" /\ state' \in {"INSTRUCTION_LINE", "BLOCKED", "SLEEPING"}
         \/ pc' = "line" /\ state' \in Ready,
         pos' \in 2 .. Eof, AtLine(pos'), translated_line' = <<>>,
         vartable' \in [Labels -> 0 .. Eof],
         \A n \in Labels : vartable'[n] # 0 =>
            /\ vartable'[n] > 1 /\ text[vartable'[n] - 1] = n /\ StartsLine(vartable'[n] - 1)
            /\ Follows(vartable'[n])
  PROVE  IInv'
<1>1. text \in Texts /\ Len(text) \in Nat /\ Eof = Len(text) + 1
  BY Now, FileFacts
<1>2. translated_line' \in Seq(1 .. Len(text))
  BY EmptySeq
<1>3. Typed(pc', state', pos', translated_line', vartable', error_flag', goal')
  BY <1>1, <1>2 DEF Typed, Ready
<1>4. Control(pc', state', pos', translated_line') /\ Place(pc', state', pos')
  BY <1>1 DEF Control, Scanning, Place, Between, Ready
<1>5. TokensRead(pc', pos', translated_line') /\ OperandsRead(pc', state', translated_line')
  BY DEF TokensRead, OperandsRead, Scanning
<1>6. LabelsRead(pc', state', translated_line', vartable')
  BY DEF LabelsRead, Scanning
<1> QED
  BY <1>1, <1>3, <1>4, <1>5, <1>6, NextIInv DEF Safe

LEMMA NotExecutedIInv == ASSUME IInv, NotExecuted PROVE IInv'
<1>1. /\ pc = "execute" /\ pc \in {"execute", "found"} /\ pc' = "turn"
      /\ UNCHANGED <<text, pos, vartable, goal>>
  BY DEF NotExecuted, Goto
<1>2. /\ state \in Ready \cup {"FINISHED"} /\ pos \in 2 .. Eof /\ error_flag \in BOOLEAN
      /\ goal \in 0 .. Len(text) /\ translated_line \in Seq(1 .. Len(text))
  BY <1>1, LineDone
<1>3. state' = "FINISHED" /\ error_flag' \in BOOLEAN
  <2>1. CASE ~Executes /\ UNCHANGED <<state, error_flag, translated_line>>
    BY <1>1, <1>2, <2>1 DEF Executes, Ready
  <2>2. CASE state' = "FINISHED" /\ UNCHANGED <<error_flag, translated_line>>
    BY <1>2, <2>2
  <2>3. CASE Stop
    BY <2>3 DEF Stop
  <2> QED
    BY <2>1, <2>2, <2>3 DEF NotExecuted
<1>4. translated_line' \in Seq(1 .. Len(text))
  <2>1. CASE translated_line' = translated_line
    BY <1>2, <2>1
  <2>2. CASE translated_line # <<>> /\ translated_line' = Tail(translated_line)
    BY <1>2, <2>2, OfTail
  <2> QED
    BY <2>1, <2>2 DEF NotExecuted
<1>5. /\ vartable' \in [Labels -> 0 .. Eof]
      /\ \A n \in Labels : vartable'[n] # 0 =>
            vartable'[n] > 1 /\ text[vartable'[n] - 1] = n /\ StartsLine(vartable'[n] - 1)
  BY <1>1, SameTable
<1> QED
  BY <1>1, <1>2, <1>3, <1>4, <1>5, Stopped

LEMMA ExecuteLineIInv == ASSUME IInv, ExecuteLine PROVE IInv'
<1>1. /\ pc = "execute" /\ pc \in {"execute", "found"} /\ state \in Ready
      /\ translated_line # <<>> /\ vartable' = TableOfLine /\ translated_line' = <<>>
      /\ UNCHANGED <<text, pos, goal>>
  BY DEF ExecuteLine, Executes, Ready
<1>2. /\ state # "FINISHED" /\ pos \in 2 .. Eof /\ error_flag \in BOOLEAN /\ AtLine(pos)
      /\ goal \in 0 .. Len(text)
  BY <1>1, LineDone DEF Ready
<1>3. translated_line' \in Seq(1 .. Len(text))
  BY <1>1, EmptySeq
<1>4. /\ vartable' \in [Labels -> 0 .. Eof]
      /\ \A n \in Labels : vartable'[n] # 0 =>
            /\ vartable'[n] > 1 /\ text[vartable'[n] - 1] = n /\ StartsLine(vartable'[n] - 1)
            /\ Follows(vartable'[n])
  BY <1>1, <1>2, TableOfLineFacts
<1>5. CASE pc' = "lost" /\ UNCHANGED <<state, error_flag>>
  BY <1>1, <1>2, <1>3, <1>4, <1>5, Stopped
<1>6. CASE pc' = "turn" /\ state' = "FINISHED" /\ error_flag' \in BOOLEAN
  BY <1>1, <1>2, <1>3, <1>4, <1>6, Stopped
<1>7. CASE /\ pc' = "turn" /\ state' \in {"INSTRUCTION_LINE", "BLOCKED", "SLEEPING"}
           /\ error_flag' \in BOOLEAN
  BY <1>1, <1>2, <1>4, <1>7, GoesOn
<1>8. Settled \in {"FINISHED", "INSTRUCTION_LINE"}
  BY <1>1 DEF Settled, Ready
<1>9. \/ pc' = "lost" /\ UNCHANGED <<state, error_flag>>
      \/ pc' = "turn" /\ state' \in {"FINISHED", "INSTRUCTION_LINE", "BLOCKED", "SLEEPING"}
         /\ error_flag' \in BOOLEAN
  BY <1>2, <1>8 DEF ExecuteLine, Stop, Goto
<1> QED
  BY <1>5, <1>6, <1>7, <1>9

LEMMA TakeBranchIInv == ASSUME IInv, TakeBranch PROVE IInv'
<1>1. PICK label : label = Final(translated_line)
  OBVIOUS
<1>2. /\ pc = "execute" /\ pc \in {"execute", "found"} /\ state \in Ready
      /\ translated_line # <<>> /\ vartable' = TableOfLine /\ translated_line' = <<>>
      /\ UNCHANGED <<text, error_flag>> /\ Word1(translated_line) \in Branches
  BY InstructionIsBody DEF TakeBranch, Executes, Ready, Word1, Branches
<1>3. /\ text \in Texts /\ state # "FINISHED" /\ pos \in 2 .. Eof /\ error_flag \in BOOLEAN
      /\ AtLine(pos) /\ goal \in 0 .. Len(text) /\ Len(text) \in Nat /\ Eof = Len(text) + 1
      /\ translated_line \in Seq(1 .. Len(text)) /\ OperandsRead(pc, state, translated_line)
  BY <1>2, LineDone DEF Ready
<1>4. label \in 1 .. Len(text) /\ label \in 0 .. Len(text) /\ text[label] \in Labels
  <2>1. label \in 1 .. Len(text)
    BY <1>1, <1>2, <1>3, BodyFacts
  <2> QED
    BY <1>1, <1>2, <1>3, <2>1 DEF OperandsRead
<1>5. /\ vartable' \in [Labels -> 0 .. Eof]
      /\ \A n \in Labels : vartable'[n] # 0 =>
            /\ vartable'[n] > 1 /\ text[vartable'[n] - 1] = n /\ StartsLine(vartable'[n] - 1)
            /\ Follows(vartable'[n])
  BY <1>2, <1>3, TableOfLineFacts
<1>6. CASE /\ vartable'[text[label]] # 0
           /\ pos' = vartable'[text[label]] /\ state' = Settled
           /\ Goto("turn") /\ UNCHANGED goal
  <2>1. pos' \in 2 .. Eof /\ Follows(pos')
    BY <1>3, <1>4, <1>5, <1>6
  <2>2. AtLine(pos')
    <3>1. PICK s : s = pos' - 1
      OBVIOUS
    <3>2. s \in 1 .. Len(text) /\ s + 1 = pos' /\ IsLabel(s) /\ StartsLine(s)
      BY <1>3, <1>4, <1>5, <1>6, <2>1, <3>1 DEF IsLabel
    <3> QED
      BY <1>3, <2>1, <3>2, JumpLands
  <2>3. pc' = "turn" /\ state' \in {"FINISHED", "INSTRUCTION_LINE"}
    BY <1>2, <1>6 DEF Settled, Ready, Goto
  <2>4. CASE state' = "FINISHED"
    <3>1. translated_line' \in Seq(1 .. Len(text))
      BY <1>2, EmptySeq
    <3> QED
      BY <1>2, <1>3, <1>5, <1>6, <2>1, <2>3, <2>4, <3>1, Stopped
  <2>5. CASE state' = "INSTRUCTION_LINE"
    BY <1>2, <1>3, <1>5, <1>6, <2>1, <2>2, <2>3, <2>5, GoesOn
  <2> QED
    BY <2>3, <2>4, <2>5
<1>7. CASE /\ vartable'[text[label]] = 0
           /\ goal' = label /\ Goto("line") /\ UNCHANGED <<pos, state>>
  BY <1>2, <1>3, <1>4, <1>5, <1>7, GoesOn DEF Goto
<1> QED
  BY <1>1, <1>6, <1>7 DEF TakeBranch, Final


LEMMA SearchedIInv == ASSUME IInv, Searched PROVE IInv'
<1>1. PICK first : first = translated_line[1]
  OBVIOUS
<1>2. /\ pc = "found" /\ pc \in {"execute", "found"} /\ translated_line # <<>>
      /\ translated_line' = <<>> /\ text' = text
  BY DEF Searched, Drained
<1>3. /\ text \in Texts /\ state \in Ready \cup {"FINISHED"} /\ pos \in 2 .. Eof
      /\ error_flag \in BOOLEAN /\ goal \in 0 .. Len(text) /\ Len(text) \in Nat
      /\ Eof = Len(text) + 1 /\ 0 \in 0 .. Len(text) /\ (state # "FINISHED" => AtLine(pos))
  BY <1>2, LineDone
<1>4. translated_line' \in Seq(1 .. Len(text))
  BY <1>2, EmptySeq
<1>5. CASE /\ IsLabel(first)
           /\ vartable' = Inserted(first) /\ pos' = After(first)
           /\ goal' = 0 /\ state' = Settled /\ Goto("turn") /\ UNCHANGED error_flag
  <2>1. /\ vartable' \in [Labels -> 0 .. Eof]
        /\ \A n \in Labels : vartable'[n] # 0 =>
              /\ vartable'[n] > 1 /\ text[vartable'[n] - 1] = n /\ StartsLine(vartable'[n] - 1)
              /\ state # "FINISHED" => Follows(vartable'[n])
        /\ first \in 2 .. Len(text) /\ After(first) = first + 1
    BY <1>1, <1>2, <1>5, InsertedLabel
  <2>2. pos' \in 2 .. Eof /\ pos' = first + 1
    BY <1>3, <1>5, <2>1
  <2>3. pc' = "turn" /\ state' \in {"FINISHED", "INSTRUCTION_LINE"}
        /\ (state = "FINISHED" => state' = "FINISHED")
    BY <1>3, <1>5 DEF Settled, Ready, Goto
  <2>4. CASE state' = "FINISHED"
    BY <1>2, <1>3, <1>4, <1>5, <2>1, <2>2, <2>3, <2>4, Stopped
  <2>5. CASE state' = "INSTRUCTION_LINE"
    <3>1. state # "FINISHED"
      BY <2>3, <2>5
    <3>2. LabelsRead(pc, state, translated_line, vartable)
      BY <1>2, LineDone
    <3>3. Follows(first + 1)
      BY <1>1, <1>2, <1>5, <3>1, <3>2 DEF LabelsRead
    <3>4. AtLine(pos')
      <4>1. first \in 1 .. Len(text) /\ StartsLine(first)
        BY <1>1, <1>2, <1>3, <1>5, <2>1, <3>2 DEF LabelsRead
      <4> QED
        BY <1>3, <1>5, <2>2, <3>3, <4>1, JumpLands
    <3> QED
      BY <1>2, <1>3, <1>5, <2>1, <2>2, <2>3, <2>5, <3>1, <3>4, GoesOn
  <2> QED
    BY <2>3, <2>4, <2>5
<1>6. CASE /\ state = "FINISHED" /\ Stop /\ goal' = 0 /\ Goto("turn") /\ UNCHANGED <<vartable, pos>>
  <2>1. pc' = "turn" /\ state' = "FINISHED" /\ error_flag' \in BOOLEAN
    BY <1>6 DEF Stop, Goto
  <2> QED
    BY <1>2, <1>3, <1>4, <1>6, <2>1, SameTable, Stopped
<1>7. CASE /\ state # "FINISHED" /\ Goto("line")
           /\ UNCHANGED <<vartable, pos, state, error_flag, goal>>
  <2>1. pc' = "line" /\ state' \in Ready
    BY <1>3, <1>7 DEF Goto
  <2> QED
    BY <1>2, <1>3, <1>7, <2>1, SameTable, GoesOn
<1>8. CASE Goto("lost") /\ UNCHANGED <<vartable, pos, state, error_flag, goal>>
  BY <1>2, <1>3, <1>4, <1>8, SameTable, Stopped DEF Goto
<1> QED
  BY <1>1, <1>5, <1>6, <1>7, <1>8 DEF Searched

\* The first line: the magic bytes, and the newline behind them.
LEMMA ParseMagicIInv == ASSUME IInv, ParseMagic PROVE IInv'
<1>1. PICK p : p = IF Char(2) = "\n" THEN 2 ELSE FlushToChar(2)
  OBVIOUS
<1>2. PICK wrong \in BOOLEAN : wrong = (text[1] # "#PROGRAM")
  BY Zenon
<1>3. /\ pc = "turn" /\ state = "MAGIC_LINE" /\ state # "FINISHED"
      /\ UNCHANGED <<text, translated_line, vartable, goal>>
  BY DEF ParseMagic
<1>4. /\ text \in Texts /\ Len(text) \in Nat \ {0} /\ Eof = Len(text) + 1
      /\ 2 \in 2 .. Eof /\ 2 \in 0 .. Eof /\ error_flag \in BOOLEAN /\ goal \in 0 .. Len(text)
      /\ translated_line = <<>> /\ translated_line \in Seq(1 .. Len(text))
  BY <1>3, Now, FileFacts DEF Typed, Safe, Control
<1>5. p \in 2 .. Eof
  BY <1>1, <1>4, FlushesToChar
<1>6. /\ vartable' \in [Labels -> 0 .. Eof]
      /\ \A n \in Labels : vartable'[n] # 0 =>
            /\ vartable'[n] > 1 /\ text[vartable'[n] - 1] = n /\ StartsLine(vartable'[n] - 1)
            /\ Follows(vartable'[n])
  BY <1>3, SameTable
<1>7. CASE pc' = "turn" /\ state' = "FINISHED" /\ error_flag' \in BOOLEAN /\ pos' \in 2 .. Eof
  BY <1>3, <1>4, <1>6, <1>7, Stopped
<1>8. CASE /\ Char(2) # "EOF" /\ (Char(2) = "\n" \/ ~SameLine(2, p))
           /\ pos' = p /\ error_flag' = wrong
           /\ p # Eof /\ state' = "INSTRUCTION_LINE" /\ Goto("line")
  <2>1. 2 <= Len(text) /\ 2 # Eof /\ Char(2) = text[2] /\ 1 \in 1 .. Len(text) /\ IsWord(1)
    BY <1>4, <1>8, FileFacts DEF Char
  <2>2. text[2] # "PRINT" /\ p \in 1 + 1 .. Eof
    BY <1>4, <1>5, <2>1, FileFacts, InstructionsAre
  <2>3. PICK last \in {1, 2} :
          /\ IsWord(last) /\ p \in last + 1 .. Eof /\ Quiet(last + 1, p)
          /\ \E nl \in last + 1 .. p : nl <= Len(text) /\ text[nl] = "\n"
    <3>1. CASE Char(2) = "\n"
      <4>1. p = 2 /\ text[2] = "\n"
        BY <1>1, <2>1, <3>1
      <4> QED
        BY <1>4, <2>1, <4>1 DEF Quiet
    <3>2. CASE Char(2) # "\n"
      <4>1. Quiet(2 + 1, p)
        BY <1>1, <1>4, <3>2, FlushesToChar
      <4>2. ~IsWord(2) => Quiet(1 + 1, p)
        BY <1>5, <1>4, <2>2, <4>1 DEF Quiet
      <4>3. \E nl \in 2 + 1 .. p : nl <= Len(text) /\ text[nl] = "\n"
        <5>1. 2 \in 1 .. Eof /\ p \in 2 .. Eof
          BY <1>4, <1>5
        <5> QED
          BY <1>4, <1>8, <3>2, <5>1, NotSameLine
      <4> QED
        <5>1. CASE IsWord(2)
          <6>1. p \in 2 + 1 .. Eof
            BY <1>4, <1>5, <4>3
          <6> QED
            BY <4>1, <4>3, <5>1, <6>1
        <5>2. CASE ~IsWord(2)
          <6>1. \E nl \in 1 + 1 .. p : nl <= Len(text) /\ text[nl] = "\n"
            BY <1>4, <1>5, <4>3
          <6> QED
            BY <2>1, <2>2, <4>2, <5>2, <6>1
        <5> QED
          BY <5>1, <5>2
    <3> QED
      BY <3>1, <3>2
  <2>4. AtLine(p)
    <3>1. PICK nl \in last + 1 .. p : nl <= Len(text) /\ text[nl] = "\n"
      BY <2>3
    <3>2. nl \in last + 1 .. Len(text) /\ nl <= p /\ last \in 1 .. Len(text)
      BY <1>4, <1>5, <2>1, <2>3, <3>1
    <3>3. last = 1 \/ text[last] # "PRINT"
      BY <2>2
    <3> QED
      BY <1>4, <2>3, <3>1, <3>2, <3>3, NewlineEnds
  <2>5. pc' = "line" /\ state' \in Ready /\ error_flag' \in BOOLEAN
    BY <1>2, <1>8 DEF Goto, Ready
  <2> QED
    BY <1>3, <1>4, <1>5, <1>6, <1>8, <2>4, <2>5, GoesOn
<1>9. CASE /\ Char(2) # "EOF" /\ (Char(2) = "\n" \/ ~SameLine(2, p))
           /\ pos' = p /\ error_flag' = wrong
           /\ p = Eof /\ state' = "FINISHED" /\ UNCHANGED pc
  BY <1>2, <1>3, <1>5, <1>7, <1>9
<1>10. CASE pos' = 2 /\ state' = "FINISHED" /\ UNCHANGED <<error_flag, pc>>
  BY <1>3, <1>4, <1>7, <1>10
<1>11. CASE pos' = p /\ Stop /\ UNCHANGED pc
  BY <1>3, <1>5, <1>7, <1>11 DEF Stop
<1> QED
  BY <1>1, <1>2, <1>8, <1>9, <1>10, <1>11, Zenon DEF ParseMagic

LEMMA OverIInv == ASSUME IInv, UNCHANGED vars PROVE IInv'
<1>1. /\ text' = text /\ pos' = pos /\ state' = state /\ error_flag' = error_flag
      /\ translated_line' = translated_line /\ vartable' = vartable /\ pc' = pc /\ goal' = goal
  BY DEF vars
<1> QED
  BY <1>1, Now, NextIInv

-----------------------------------------------------------------------------
(***************************************************************************)
(* The theorems.                                                           *)
(***************************************************************************)
\* What the handlers of scanner.c and the search of exec.c need from one
\* another holds in every state: where the scanner stands between two lines a
\* line may be read, within a line the last token is the last word read, and
\* what is behind a label of the table is an instruction (tokenize_next_line,
\* flush_up_to_newline, return_handler; find_label_in_src in exec.c).
THEOREM ScannerInvariant == Spec => []IInv
<1>1. Init => IInv
  BY InitIInv
<1>2. IInv /\ [Next]_vars => IInv'
  BY ParseMagicIInv, InterpretLineIInv, ResumeIInv, DetachIInv, FirstWordIInv,
     LabelledWordIInv, OperandIInv, EndOfLineIInv, NothingToReadIInv, PrintStringIInv,
     PrintOperandIInv, NotExecutedIInv, ExecuteLineIInv, TakeBranchIInv, SearchedIInv,
     SearchFailsIInv, OverIInv
  DEF Next, Step, Over
<1> QED
  BY <1>1, <1>2, PTL DEF Spec

\* The lookahead and the offsets of labels stay inside the file, and the ring
\* buffer holds places of its words.
THEOREM ScannerTyped == Spec => []TypeOK
<1>1. IInv => TypeOK
  BY DEF IInv
<1> QED
  BY <1>1, ScannerInvariant, PTL

\* insert_label_to_vartable (exec.c) is only given words that start a line, so
\* that the fseek of a jump goes behind the first word of a line.
THEOREM LabelsStartLines == Spec => []LabelsAreLines
<1>1. IInv => LabelsAreLines
  BY DEF IInv, Safe, LabelsRead, LabelsAreLines
<1> QED
  BY <1>1, ScannerInvariant, PTL

-----------------------------------------------------------------------------
(***************************************************************************)
(* The tokens of a line.  IInv says what the last token is and where the   *)
(* scanner stands; what the ring buffer holds is an invariant beside it.   *)
(***************************************************************************)
\* the tokens are the words from the first to the last of them, in the order of
\* the file, and no line ends between them
OneLine(l) ==
  /\ Opens(l[1])
  /\ \A i, j \in 1 .. Len(l) : i < j => l[i] < l[j]
  /\ \A i \in 1 .. Len(l) : IsWord(l[i])
  /\ \A q \in l[1] .. Final(l) : IsWord(q) => \E i \in 1 .. Len(l) : l[i] = q
  /\ \A r \in l[1] .. Final(l) - 1 : ~EndsLine(r)

\* behind the last word there is none on the line
LineOver(last) ==
  \/ Quiet(last + 1, Eof)
  \/ \E e \in last .. Len(text) : EndsLine(e) /\ Quiet(last + 1, e) /\ (e = last \/ ~IsWord(e))

\* while a line is read, its end has not been passed
Unbroken(c, p, l) ==
  c \in Scanning =>
    /\ OneLine(l)
    /\ \A r \in Final(l) + 1 .. p - 1 : text[r] # "\n"
    /\ text[Final(l)] = "RETURN" => c = "operands" /\ Word1(l) = "RETURN"

\* when it has been read, no word of it is missing
Whole(c, s, l) ==
  c \in {"execute", "found"} /\ s \in Ready /\ l # <<>> => OneLine(l) /\ LineOver(Final(l))

LineInv ==
  Unbroken(pc, pos, translated_line) /\ Whole(pc, state, translated_line)

LEMMA NextLineInv ==
  ASSUME text' = text, Unbroken(pc', pos', translated_line'),
         Whole(pc', state', translated_line')
  PROVE  LineInv'
<1>1. OneLine(translated_line') => OneLine(translated_line)'
  BY DEF OneLine, Opens, Behind, Quiet, IsLabel, StartsLine, EndsLine, AwaitsString, IsWord, Final
<1>2. LineOver(Final(translated_line')) => LineOver(Final(translated_line))'
  BY DEF LineOver, Quiet, EndsLine, AwaitsString, IsWord, Final, Eof
<1>3. Unbroken(pc, pos, translated_line)'
  BY <1>1 DEF Unbroken, Final, Word1, Body, IsLabel
<1>4. Whole(pc, state, translated_line)'
  BY <1>1, <1>2 DEF Whole
<1> QED
  BY <1>3, <1>4 DEF LineInv

\* Where no line is in the ring buffer nothing is to be shown.
LEMMA NoLine ==
  ASSUME text' = text,
         \/ pc' \in {"turn", "line", "ended", "lost"}
         \/ pc' \in {"execute", "found"} /\ (state' = "FINISHED" \/ translated_line' = <<>>)
  PROVE  LineInv'
<1>1. pc' \notin Scanning
  BY DEF Scanning
<1>2. Unbroken(pc', pos', translated_line')
  BY <1>1 DEF Unbroken
<1>3. Whole(pc', state', translated_line')
  BY DEF Whole, Ready
<1> QED
  BY <1>2, <1>3, NextLineInv

LEMMA OtherSteps ==
  ASSUME \/ ParseMagic \/ InterpretLine \/ Resume \/ Detach \/ NotExecuted \/ ExecuteLine
         \/ TakeBranch \/ Searched \/ SearchFails
  PROVE  LineInv'
<1>1. CASE ParseMagic \/ InterpretLine \/ Resume \/ Detach
  <2>1. text' = text /\ pc' \in {"turn", "line", "ended", "lost"}
    BY <1>1 DEF ParseMagic, InterpretLine, Resume, Detach, Goto
  <2> QED
    BY <2>1, NoLine
<1>2. CASE NotExecuted \/ ExecuteLine \/ TakeBranch \/ Searched \/ SearchFails
  <2>1. text' = text /\ pc' \in {"turn", "line", "ended", "lost"}
    BY <1>2 DEF NotExecuted, ExecuteLine, TakeBranch, Searched, SearchFails, Goto
  <2> QED
    BY <2>1, NoLine
<1> QED
  BY <1>1, <1>2

\* Between a word that is not RETURN and the next one no line ends, when no
\* newline is there or PRINT waits for its string.
LEMMA NoEnd ==
  ASSUME text \in Texts, NEW last \in 2 .. Len(text), IsWord(last), text[last] # "RETURN",
         NEW q \in last + 1 .. Len(text), Quiet(last + 1, q),
         text[last] = "PRINT" \/ \A r \in last + 1 .. q - 1 : text[r] # "\n"
  PROVE  \A r \in last .. q - 1 : ~EndsLine(r)
<1>0. Len(text) \in Nat
  BY FileFacts
<1>1. SUFFICES ASSUME NEW r \in last .. q - 1, EndsLine(r) PROVE FALSE
  OBVIOUS
<1>2. r # last
  BY <1>1, BlankFacts DEF EndsLine
<1>3. r \in last + 1 .. q - 1 /\ ~IsWord(r)
  BY <1>0, <1>1, <1>2 DEF Quiet
<1>4. text[r] = "\n" /\ ~AwaitsString(r)
  <2>1. text[r] # "RETURN"
    BY <1>3, BlankFacts DEF Blank
  <2> QED
    BY <1>1, <2>1 DEF EndsLine
<1>5. text[last] = "PRINT"
  BY <1>3, <1>4
<1>6. last \in 2 .. r - 1 /\ \A x \in last + 1 .. r - 1 : ~IsWord(x)
  BY <1>0, <1>3 DEF Quiet
<1> QED
  BY <1>4, <1>5, <1>6 DEF AwaitsString

LEMMA OneToken ==
  ASSUME NEW q \in 1 .. Len(text), Len(text) \in Nat, IsWord(q), Opens(q)
  PROVE  OneLine(<<q>>)
<1>1. PICK l : l = <<q>>
  OBVIOUS
<1>2. Len(l) = 1 /\ l[1] = q /\ Final(l) = q
  BY <1>1 DEF Final
<1>3. OneLine(l)
  BY <1>2 DEF OneLine
<1> QED
  BY <1>1, <1>3

\* The next word of the line goes to the tokens.
LEMMA OneMore ==
  ASSUME text \in Texts, NEW l \in Seq(1 .. Len(text)), l # <<>>, OneLine(l),
         NEW q \in Final(l) + 1 .. Len(text), IsWord(q), Quiet(Final(l) + 1, q),
         \A r \in Final(l) .. q - 1 : ~EndsLine(r)
  PROVE  OneLine(Append(l, q))
<1>1. PICK m : m = Append(l, q)
  OBVIOUS
<1>2. PICK n : n = Len(l)
  OBVIOUS
<1>3. Len(text) \in Nat /\ n \in Nat \ {0} /\ Final(l) = l[n] /\ Final(l) \in 1 .. Len(text)
  BY <1>2, FileFacts, OfTail DEF Final
<1>4. \A i \in 1 .. n : l[i] \in 1 .. Len(text)
  BY <1>2, LenProperties
<1>5. q \in 1 .. Len(text)
  BY <1>3
<1>6. /\ Len(m) = n + 1 /\ m[n + 1] = q /\ Final(m) = q
      /\ \A i \in 1 .. n : m[i] = l[i]
  BY <1>1, <1>2, <1>5, AppendProperties DEF Final
<1>7. m[1] = l[1] /\ l[1] \in 1 .. Len(text) /\ 1 \in 1 .. n /\ n \in 1 .. n
  BY <1>3, <1>4, <1>6
<1>8. \A i \in 1 .. n : l[i] <= Final(l)
  BY <1>2, <1>3, <1>4, <1>7 DEF OneLine
<1>9. ASSUME NEW i \in 1 .. Len(m), NEW j \in 1 .. Len(m), i < j PROVE m[i] < m[j]
  <2>1. CASE j = n + 1
    <3>1. i \in 1 .. n
      BY <1>3, <1>6, <1>9, <2>1
    <3>2. m[i] = l[i] /\ m[j] = q /\ l[i] <= Final(l) /\ l[i] \in 1 .. Len(text)
      BY <1>4, <1>6, <1>8, <2>1, <3>1
    <3>3. Final(l) < q
      BY <1>3
    <3> QED
      BY <1>3, <1>5, <3>2, <3>3
  <2>2. CASE j # n + 1
    <3>1. i \in 1 .. n /\ j \in 1 .. n
      BY <1>3, <1>6, <1>9, <2>2
    <3> QED
      BY <1>2, <1>6, <1>9, <3>1 DEF OneLine
  <2> QED
    BY <2>1, <2>2
<1>10. ASSUME NEW i \in 1 .. Len(m) PROVE IsWord(m[i])
  <2>1. i = n + 1 \/ i \in 1 .. n
    BY <1>3, <1>6
  <2> QED
    BY <1>2, <1>6, <2>1 DEF OneLine
<1>11. ASSUME NEW x \in m[1] .. Final(m), IsWord(x) PROVE \E i \in 1 .. Len(m) : m[i] = x
  <2>1. CASE x = q
    BY <1>3, <1>6, <2>1
  <2>2. CASE x # q
    <3>1. x \in l[1] .. Final(l)
      BY <1>3, <1>6, <1>7, <1>11, <2>2 DEF Quiet
    <3>2. PICK i \in 1 .. n : l[i] = x
      BY <1>2, <1>11, <3>1 DEF OneLine
    <3>3. i \in 1 .. Len(m) /\ m[i] = x
      BY <1>3, <1>6, <3>2
    <3> QED
      BY <3>3
  <2> QED
    BY <2>1, <2>2
<1>12. ASSUME NEW r \in m[1] .. Final(m) - 1 PROVE ~EndsLine(r)
  <2>1. r \in l[1] .. Final(l) - 1 \/ r \in Final(l) .. q - 1
    BY <1>3, <1>6, <1>7
  <2> QED
    BY <2>1 DEF OneLine
<1>13. Opens(m[1])
  BY <1>7 DEF OneLine
<1> QED
  BY <1>1, <1>9, <1>10, <1>11, <1>12, <1>13 DEF OneLine

\* The word that get_next_word finds on this line has no newline before it.
LEMMA WordOnLine ==
  ASSUME text \in Texts, pos \in 1 .. Eof, NEW thisLine \in BOOLEAN,
         NEW w, w = NextWord(thisLine), WordRead(w)
  PROVE  thisLine => \A r \in pos .. w.at : text[r] # "\n"
<1>1. PICK p : p = IF Char(pos) \in Spaces THEN FlushToChar(pos) ELSE pos
  OBVIOUS
<1>2. pos \in Nat \ {0} /\ Len(text) \in Nat /\ Eof = Len(text) + 1 /\ w.at # 0
  BY FileFacts DEF WordRead
<1>3. thisLine => \/ w = NoWord(pos)
                  \/ w = NoWord(p)
                  \/ w = Word(p) /\ Char(pos) # "\n" /\ SameLine(pos, p)
  BY <1>1 DEF NextWord
<1>4. NoWord(pos).at = 0 /\ NoWord(p).at = 0
  BY DEF NoWord
<1>5. ASSUME w = Word(p), Char(pos) # "\n", SameLine(pos, p)
      PROVE  \A r \in pos .. w.at : text[r] # "\n"
  <2>1. w.at = p /\ p \in pos .. Len(text)
    BY <1>5 DEF Word, WordRead
  <2>2. \A r \in pos .. p : Char(r) = text[r]
    BY <1>2, <2>1 DEF Char
  <2>3. \A r \in pos .. p : r = pos \/ r \in pos + 1 .. p
    BY <1>2, <2>1
  <2> QED
    BY <1>5, <2>1, <2>2, <2>3 DEF SameLine
<1> QED
  BY <1>2, <1>3, <1>4, <1>5

\* What is known of the tokens within a line.
LEMMA LineSoFar ==
  ASSUME IInv, LineInv, pc \in Scanning, NEW last, last = Final(translated_line)
  PROVE  /\ text \in Texts /\ pos \in 2 .. Eof /\ pos \in 1 .. Eof
         /\ Len(text) \in Nat /\ Eof = Len(text) + 1
         /\ translated_line \in Seq(1 .. Len(text)) /\ translated_line # <<>>
         /\ last \in 3 .. pos - 1 /\ last \in 3 .. Len(text) /\ IsWord(last)
         /\ \A r \in last + 1 .. pos - 1 : ~IsWord(r) /\ text[r] # "\n"
         /\ pc # "prints" => pos = last + 1
         /\ pc = "prints" => text[last] # "PRINT"
         /\ OneLine(translated_line)
         /\ text[last] = "RETURN" => pc = "operands" /\ Word1(translated_line) = "RETURN"
<1>1. /\ OneLine(translated_line)
      /\ \A r \in last + 1 .. pos - 1 : text[r] # "\n"
      /\ text[last] = "RETURN" => pc = "operands" /\ Word1(translated_line) = "RETURN"
  BY DEF LineInv, Unbroken
<1>2. /\ text \in Texts /\ pos \in 2 .. Eof /\ pos \in 1 .. Eof
      /\ Len(text) \in Nat /\ Eof = Len(text) + 1
      /\ translated_line \in Seq(1 .. Len(text)) /\ translated_line # <<>>
      /\ TokensRead(pc, pos, translated_line)
  BY WithinLine
<1>3. /\ last \in 3 .. pos - 1 /\ last <= Len(text) /\ IsWord(last)
      /\ \A r \in last + 1 .. pos - 1 : ~IsWord(r)
      /\ pc # "prints" => pos = last + 1
      /\ pc = "prints" => text[last] # "PRINT"
  BY <1>2 DEF TokensRead
<1>4. last \in 3 .. Len(text)
  BY <1>2, <1>3
<1> QED
  BY <1>1, <1>2, <1>3, <1>4

\* Another word of this line is read: no line has ended.
LEMMA WordMore ==
  ASSUME IInv, LineInv, pc \in Scanning, NEW w, IsNext(w), w.word \in Vocabulary,
         pos' = w.pos, Add(w.at), text[Final(translated_line)] # "RETURN"
  PROVE  /\ OneLine(translated_line') /\ Final(translated_line') = w.at /\ w.word = text[w.at]
         /\ \A r \in Final(translated_line') + 1 .. pos' - 1 : text[r] # "\n"
<1>1. PICK last : last = Final(translated_line)
  OBVIOUS
<1>2. /\ text \in Texts /\ pos \in 2 .. Eof /\ pos \in 1 .. Eof
      /\ Len(text) \in Nat /\ Eof = Len(text) + 1
      /\ translated_line \in Seq(1 .. Len(text)) /\ translated_line # <<>>
      /\ last \in 3 .. pos - 1 /\ last \in 3 .. Len(text) /\ IsWord(last)
      /\ \A r \in last + 1 .. pos - 1 : ~IsWord(r) /\ text[r] # "\n"
      /\ OneLine(translated_line)
  BY <1>1, LineSoFar
<1>3. TRUE \in BOOLEAN /\ pc \in Scanning \cup {"line"}
  OBVIOUS
<1>4. /\ WordRead(w) /\ Final(translated_line') = w.at
      /\ translated_line' = Append(translated_line, w.at)
  BY <1>3, WordAdded DEF IsNext, Scanning
<1>5. /\ w.at \in pos .. Len(text) /\ IsWord(w.at) /\ Quiet(pos, w.at)
      /\ w.word = text[w.at] /\ w.pos = w.at + 1
  BY <1>4 DEF WordRead
<1>6. \A r \in pos .. w.at : text[r] # "\n"
  BY <1>2, <1>3, <1>4, WordOnLine DEF IsNext
<1>7. w.at \in last + 1 .. Len(text) /\ \A r \in last + 1 .. w.at - 1 : ~IsWord(r) /\ text[r] # "\n"
  <2>1. \A r \in last + 1 .. w.at - 1 : r \in last + 1 .. pos - 1 \/ (r \in pos .. w.at - 1 /\ r \in pos .. w.at)
    BY <1>2, <1>5
  <2> QED
    BY <1>2, <1>5, <1>6, <2>1 DEF Quiet
<1>8. \A r \in last .. w.at - 1 : ~EndsLine(r)
  <2>1. last \in 2 .. Len(text)
    BY <1>2
  <2> QED
    BY <1>1, <1>2, <1>7, <2>1, NoEnd DEF Quiet
<1>9. OneLine(translated_line')
  BY <1>1, <1>2, <1>4, <1>5, <1>7, <1>8, OneMore DEF Quiet
<1>10. \A r \in Final(translated_line') + 1 .. pos' - 1 : text[r] # "\n"
  BY <1>2, <1>4, <1>5
<1> QED
  BY <1>4, <1>5, <1>9, <1>10

\* The line of the last token is over at a newline or at the end of the file.
LEMMA OverAt ==
  ASSUME IInv, LineInv, pc \in Scanning, NEW last, last = Final(translated_line),
         text[last] # "PRINT", NEW p \in pos .. Eof, Quiet(pos, p),
         p = Eof \/ \E r \in pos .. p : r <= Len(text) /\ text[r] = "\n"
  PROVE  LineOver(last)
<1>1. /\ text \in Texts /\ pos \in 2 .. Eof /\ Len(text) \in Nat /\ Eof = Len(text) + 1
      /\ last \in 3 .. pos - 1 /\ last \in 3 .. Len(text) /\ IsWord(last)
      /\ \A r \in last + 1 .. pos - 1 : ~IsWord(r)
  BY LineSoFar
<1>2. Quiet(last + 1, p)
  BY <1>1 DEF Quiet
<1>3. CASE p = Eof
  BY <1>2, <1>3 DEF LineOver
<1>4. ASSUME NEW nl \in pos .. p, nl <= Len(text), text[nl] = "\n" PROVE LineOver(last)
  <2>1. last \in 1 .. Len(text) /\ p \in last + 1 .. Eof /\ nl \in last + 1 .. Len(text) /\ nl <= p
    BY <1>1, <1>4
  <2>2. EndsLine(nl) /\ ~IsWord(nl)
    BY <1>1, <1>2, <1>4, <2>1, NewlineIsEnd
  <2>3. nl \in last .. Len(text) /\ Quiet(last + 1, nl)
    BY <1>1, <1>2, <2>1 DEF Quiet
  <2> QED
    BY <2>2, <2>3 DEF LineOver
<1> QED
  BY <1>3, <1>4

LEMMA FirstWordLine == ASSUME IInv, FirstWord PROVE LineInv'
<1>1. PICK w : w = NextWord(FALSE)
  OBVIOUS
<1>2. pc = "line" /\ text' = text /\ pos' = w.pos /\ pc \in Scanning \cup {"line"}
  BY <1>1 DEF FirstWord, Scanning
<1>3. /\ text \in Texts /\ Len(text) \in Nat /\ translated_line = <<>>
      /\ Tokenized \in {"execute", "found"}
  BY <1>2, Reads
<1>4. CASE Goto(Tokenized) /\ UNCHANGED translated_line
  BY <1>2, <1>3, <1>4, NoLine DEF Goto
<1>5. CASE Refuse
  BY <1>2, <1>3, <1>5, NoLine DEF Refuse, Stop, Goto
<1>6. CASE /\ Add(w.at)
           /\ \/ w.word \in Labels /\ Goto("labelled")
              \/ w.word \in Instructions /\ Goto("operands")
  <2>1. w.word \in Vocabulary /\ FALSE \in BOOLEAN
    BY <1>6 DEF Vocabulary
  <2>2. WordRead(w) /\ w.at \in 3 .. Len(text) /\ pos' = w.at + 1
    BY <1>1, <1>2, <1>6, <2>1, WordAdded DEF WordRead
  <2>3. translated_line' = <<w.at>> /\ Final(translated_line') = w.at
    BY <1>3, <1>6 DEF Add, Final
  <2>4. w.at \in 1 .. Len(text) /\ IsWord(w.at) /\ Opens(w.at) /\ w.word = text[w.at]
    BY <1>2, <1>3, <2>2, NextStarts DEF WordRead
  <2>5. OneLine(translated_line')
    BY <1>3, <2>3, <2>4, OneToken
  <2>6. \A r \in Final(translated_line') + 1 .. pos' - 1 : text[r] # "\n"
    BY <2>2, <2>3
  <2>7. ASSUME text[w.at] = "RETURN"
        PROVE  pc' = "operands" /\ Word1(translated_line') = "RETURN"
    <3>1. w.word \in Instructions /\ w.word \notin Labels
      BY <2>4, <2>7, InstructionsAre, ScannerAssumption
    <3>2. ~IsLabel(w.at) /\ translated_line'[1] = w.at
      BY <2>3, <2>4, <3>1 DEF IsLabel
    <3> QED
      BY <1>6, <2>3, <2>7, <3>1, <3>2 DEF Word1, Body, Goto
  <2>8. Unbroken(pc', pos', translated_line')
    BY <2>3, <2>5, <2>6, <2>7 DEF Unbroken
  <2>9. Whole(pc', state', translated_line')
    BY <1>6 DEF Whole, Goto
  <2> QED
    BY <1>2, <2>8, <2>9, NextLineInv
<1> QED
  BY <1>1, <1>4, <1>5, <1>6 DEF FirstWord

\* A line that is refused is not executed.
LEMMA RefusedLine ==
  ASSUME IInv, pc \in Scanning, text' = text, Refuse
  PROVE  LineInv'
<1>1. Tokenized \in {"execute", "found"}
  BY WithinLine
<1> QED
  BY <1>1, NoLine DEF Refuse, Stop, Goto

\* A line that is whole when the scanner returns it.
LEMMA WholeLine ==
  ASSUME IInv, pc \in Scanning, text' = text, pc' = Tokenized,
         OneLine(translated_line'), LineOver(Final(translated_line'))
  PROVE  LineInv'
<1>1. pc' \in {"execute", "found"} /\ pc' \notin Scanning
  BY WithinLine DEF Scanning
<1> QED
  BY <1>1, NextLineInv DEF Unbroken, Whole

LEMMA LabelledWordLine == ASSUME IInv, LineInv, LabelledWord PROVE LineInv'
<1>1. PICK w : IsNext(w)
  BY DEF IsNext
<1>2. pc = "labelled" /\ text' = text /\ pos' = w.pos /\ pc \in Scanning /\ pc # "operands"
  BY <1>1 DEF LabelledWord, Scanning, IsNext
<1>3. CASE Refuse
  BY <1>2, <1>3, RefusedLine
<1>4. CASE w.word \in Instructions /\ Add(w.at) /\ Goto("operands")
  <2>1. w.word \in Vocabulary
    BY <1>4 DEF Vocabulary
  <2>2. text[Final(translated_line)] # "RETURN"
    BY <1>2, LineSoFar
  <2>3. /\ OneLine(translated_line') /\ Final(translated_line') = w.at /\ w.word = text[w.at]
        /\ \A r \in Final(translated_line') + 1 .. pos' - 1 : text[r] # "\n"
    BY <1>1, <1>2, <1>4, <2>1, <2>2, WordMore
  <2>4. Word1(translated_line') = w.word
    <3>1. /\ translated_line # <<>> /\ translated_line \in Seq(1 .. Len(text))
          /\ TokensRead(pc, pos, translated_line)
      BY <1>2, WithinLine
    <3>2. Len(translated_line) = 1 /\ IsLabel(translated_line[1])
      BY <1>2, <3>1 DEF TokensRead
    <3>3. /\ WordRead(w) /\ w.at \in 3 .. Len(text)
          /\ translated_line' = Append(translated_line, w.at)
      BY <1>1, <1>2, <1>4, <2>1, WordAdded DEF IsNext
    <3>4. w.at \in 1 .. Len(text)
      BY <1>2, <3>3, WithinLine
    <3> QED
      BY <2>3, <3>1, <3>2, <3>3, <3>4, TokenAdded
  <2>5. Unbroken(pc', pos', translated_line')
    BY <1>4, <2>3, <2>4 DEF Unbroken, Goto
  <2>6. Whole(pc', state', translated_line')
    BY <1>4 DEF Whole, Goto
  <2> QED
    BY <1>2, <2>5, <2>6, NextLineInv
<1> QED
  BY <1>1, <1>3, <1>4 DEF LabelledWord, IsNext

\* An operand goes to the tokens of its line.
LEMMA OperandMore ==
  ASSUME IInv, LineInv, pc \in Scanning, NEW w, IsNext(w), w.word \in Vocabulary,
         w.word \notin Instructions, pos' = w.pos, Add(w.at), text' = text, pc' = pc,
         text[Final(translated_line)] # "RETURN"
  PROVE  LineInv'
<1>1. /\ OneLine(translated_line') /\ Final(translated_line') = w.at /\ w.word = text[w.at]
      /\ \A r \in Final(translated_line') + 1 .. pos' - 1 : text[r] # "\n"
  BY WordMore
<1>2. text[Final(translated_line')] # "RETURN"
  BY <1>1, InstructionsAre
<1>3. Unbroken(pc', pos', translated_line')
  BY <1>1, <1>2 DEF Unbroken
<1>4. Whole(pc', state', translated_line')
  BY DEF Whole, Scanning
<1> QED
  BY <1>3, <1>4, NextLineInv

LEMMA OperandLine == ASSUME IInv, LineInv, Operand PROVE LineInv'
<1>1. PICK w : IsNext(w)
  BY DEF IsNext
<1>2. PICK word : word = Word1(translated_line)
  OBVIOUS
<1>3. PICK n : n = Len(Body(translated_line))
  OBVIOUS
<1>4. /\ pc = "operands" /\ text' = text /\ pos' = w.pos /\ word # "PRINT"
      /\ n <= Len(Operands[word]) /\ pc \in Scanning
  BY <1>1, <1>2, <1>3, InstructionIsBody DEF Operand, Word1, Scanning, IsNext
<1>5. /\ Body(translated_line) # <<>> /\ word \in Instructions /\ n \in Nat \ {0}
      /\ OfInstruction(word, Operands[word])
  <2>1. /\ translated_line # <<>> /\ translated_line \in Seq(1 .. Len(text))
        /\ OperandsRead(pc, state, translated_line)
    BY <1>4, WithinLine
  <2> QED
    BY <1>2, <1>3, <1>4, <2>1, BodyFacts, OperandsAre DEF OperandsRead
<1>6. CASE Refuse
  BY <1>4, <1>6, RefusedLine
<1>7. CASE Fits(w.word, Operands[word][n]) /\ Add(w.at) /\ UNCHANGED pc
  <2>1. Operands[word][n] \in Kinds /\ Operands[word][n] # "string" /\ word # "RETURN"
    BY <1>4, <1>5 DEF OfInstruction
  <2>2. w.word \in Vocabulary /\ w.word \notin Instructions
    BY <1>7, <2>1, FitsKnown
  <2>3. text[Final(translated_line)] # "RETURN"
    BY <1>2, <1>4, <2>1, LineSoFar
  <2> QED
    BY <1>1, <1>4, <1>7, <2>2, <2>3, OperandMore
<1> QED
  BY <1>1, <1>2, <1>3, <1>6, <1>7, InstructionIsBody DEF Operand, Word1, IsNext

LEMMA EndOfLineLine == ASSUME IInv, LineInv, EndOfLine PROVE LineInv'
<1>1. PICK p : p = FlushToNewline
  OBVIOUS
<1>2. PICK word : word = Word1(translated_line)
  OBVIOUS
<1>3. PICK n : n = Len(Body(translated_line))
  OBVIOUS
<1>4. /\ pc = "operands" /\ Operands[word] # <<>> /\ word # "PRINT"
      /\ n > Len(Operands[word]) /\ UNCHANGED <<text, translated_line>>
      /\ pc \in Scanning /\ pc # "prints"
  BY <1>2, <1>3, InstructionIsBody DEF EndOfLine, Word1, Scanning
<1>5. PICK last : last = Final(translated_line)
  OBVIOUS
<1>6. /\ text \in Texts /\ pos \in 2 .. Eof /\ pos \in 1 .. Eof /\ Len(text) \in Nat
      /\ Eof = Len(text) + 1 /\ pos = last + 1 /\ last \in 3 .. Len(text) /\ IsWord(last)
      /\ OneLine(translated_line)
  BY <1>4, <1>5, LineSoFar
<1>7. /\ translated_line # <<>> /\ translated_line \in Seq(1 .. Len(text))
      /\ OperandsRead(pc, state, translated_line)
  BY <1>4, WithinLine
<1>8. text[last] # "PRINT"
  <2>1. Body(translated_line) # <<>> /\ word \in Instructions
    BY <1>2, <1>4, <1>7 DEF OperandsRead
  <2>2. Len(Operands[word]) \in Nat /\ Len(Operands[word]) # 0
    BY <1>4, <2>1, OperandsAre, InstructionsAre DEF OfInstruction, Operands
  <2>3. n \in Nat /\ n > 1
    BY <1>3, <1>4, <1>7, <2>1, <2>2, BodyFacts
  <2> QED
    BY <1>3, <1>4, <1>5, <1>7, <2>3 DEF OperandsRead
<1>9. CASE Refuse
  BY <1>4, <1>9, RefusedLine
<1>10. CASE Char(p) \in {"\n", "EOF"} /\ Goto(Tokenized)
  <2>1. p \in pos .. Eof /\ Quiet(pos + 1, p)
    BY <1>1, <1>6, FlushesToNewline
  <2>2. pos # Eof => ~IsWord(pos)
    BY <1>6, FileFacts
  <2>3. Quiet(pos, p)
    BY <1>6, <2>1, <2>2 DEF Quiet
  <2>4. p = Eof \/ \E r \in pos .. p : r <= Len(text) /\ text[r] = "\n"
    BY <1>6, <1>10, <2>1, FileFacts DEF Char
  <2>5. LineOver(last)
    BY <1>4, <1>5, <1>8, <2>1, <2>3, <2>4, OverAt
  <2> QED
    BY <1>4, <1>5, <1>6, <1>10, <2>5, WholeLine DEF Goto
<1> QED
  BY <1>1, <1>9, <1>10 DEF EndOfLine

LEMMA NothingToReadLine == ASSUME IInv, LineInv, NothingToRead PROVE LineInv'
<1>1. PICK last : last = Final(translated_line)
  OBVIOUS
<1>2. /\ pc = "operands" /\ Word1(translated_line) = "RETURN"
      /\ UNCHANGED <<text, translated_line>> /\ pc' = Tokenized /\ pc \in Scanning
  BY InstructionIsBody DEF NothingToRead, Word1, Scanning, Goto
<1>3. /\ OneLine(translated_line) /\ last \in 3 .. Len(text) /\ Len(text) \in Nat
  BY <1>1, <1>2, LineSoFar
<1>4. text[last] = "RETURN"
  BY <1>1, <1>2, ReturnIsLast
<1>5. EndsLine(last) /\ last \in last .. Len(text) /\ Quiet(last + 1, last)
  BY <1>3, <1>4 DEF EndsLine, Quiet
<1>6. LineOver(last)
  BY <1>5 DEF LineOver
<1> QED
  BY <1>1, <1>2, <1>3, <1>6, WholeLine

\* PRINT is the last token when its string is read.
LEMMA PrintIsLast ==
  ASSUME IInv, pc = "operands", Word1(translated_line) = "PRINT"
  PROVE  text[Final(translated_line)] = "PRINT"
<1>1. /\ translated_line \in Seq(1 .. Len(text)) /\ translated_line # <<>>
      /\ OperandsRead(pc, state, translated_line)
  BY WithinLine DEF Scanning
<1>2. Body(translated_line) # <<>> /\ Len(Body(translated_line)) <= 1
  <2>1. Body(translated_line) # <<>> /\ Len(Body(translated_line)) = 1
    BY <1>1 DEF OperandsRead
  <2> QED
    BY <2>1
<1>3. /\ Len(translated_line) \in Nat \ {0} /\ Len(Body(translated_line)) > 0
      /\ Len(Body(translated_line)) =
           IF IsLabel(translated_line[1]) THEN Len(translated_line) - 1 ELSE Len(translated_line)
      /\ Word1(translated_line) =
           IF IsLabel(translated_line[1]) THEN text[translated_line[2]] ELSE text[translated_line[1]]
  BY <1>1, <1>2, BodyFacts
<1> QED
  BY <1>2, <1>3 DEF Final

LEMMA PrintStringLine == ASSUME IInv, LineInv, PrintString PROVE LineInv'
<1>1. PICK p : p = FlushToChar(pos)
  OBVIOUS
<1>2. PICK q : q = FlushToChar(After(p))
  OBVIOUS
<1>3. PICK last : last = Final(translated_line)
  OBVIOUS
<1>4. pc = "operands" /\ Word1(translated_line) = "PRINT" /\ text' = text /\ pc \in Scanning
  BY InstructionIsBody DEF PrintString, Word1, Scanning
<1>5. /\ text \in Texts /\ pos \in 0 .. Eof /\ Len(text) \in Nat /\ Eof = Len(text) + 1
      /\ pos = last + 1 /\ last \in 3 .. Len(text) /\ IsWord(last)
      /\ translated_line \in Seq(1 .. Len(text)) /\ translated_line # <<>>
      /\ OneLine(translated_line)
  BY <1>3, <1>4, LineSoFar
<1>6. text[last] = "PRINT"
  BY <1>3, <1>4, PrintIsLast
<1>7. CASE Refuse
  BY <1>4, <1>7, RefusedLine
<1>8. CASE /\ Char(p) = "string" /\ After(p) # Eof /\ Add(p) /\ pos' = q
           /\ Goto(IF q # Eof /\ SameLine(p, q) THEN "prints" ELSE Tokenized)
  <2>1. p \in pos .. Eof /\ Quiet(pos + 1, p) /\ (pos # Eof => p > pos) /\ (p # Eof => IsWord(p))
    BY <1>1, <1>5, FlushesToChar
  <2>2. p # Eof /\ p \in 1 .. Len(text) /\ After(p) = p + 1 /\ p + 1 \in 0 .. Eof /\ p + 1 # Eof
    BY <1>5, <1>8, <2>1 DEF After, Char
  <2>3. text[p] = "string" /\ IsWord(p) /\ p > pos
    <3>1. Char(p) = text[p]
      BY <2>2 DEF Char
    <3>2. pos # Eof
      BY <1>5, <2>1, <2>2
    <3> QED
      BY <1>8, <2>1, <2>2, <3>1, <3>2
  <2>4. ~IsWord(pos) /\ ~IsWord(p + 1)
    <3>1. last \in 1 .. Len(text) - 1 /\ p \in 1 .. Len(text) - 1
      <4>1. p > pos /\ p \in 1 .. Len(text) /\ p + 1 # Eof
        BY <2>2, <2>3
      <4>2. Len(text) \in Nat /\ Eof = Len(text) + 1 /\ pos = last + 1 /\ last \in 3 .. Len(text)
        BY <1>5
      <4> QED
        BY <4>1, <4>2
    <3> QED
      BY <1>5, <2>3, <3>1, FileFacts
  <2>5. p \in last + 1 .. Len(text) /\ Quiet(last + 1, p)
    BY <1>5, <2>1, <2>2, <2>3, <2>4 DEF Quiet
  <2>6. \A r \in last .. p - 1 : ~EndsLine(r)
    BY <1>5, <1>6, <2>5, NoEnd, InstructionsAre
  <2>7. translated_line' = Append(translated_line, p) /\ Final(translated_line') = p
    BY <1>5, <1>8, <2>2, OfAppend DEF Add
  <2>8. OneLine(translated_line')
    BY <1>3, <1>5, <2>3, <2>5, <2>6, <2>7, OneMore
  <2>9. q \in p + 1 .. Eof /\ q > p + 1 /\ Quiet(p + 2, q)
    <3>1. q \in p + 1 .. Eof /\ (p + 1 # Eof => q > p + 1) /\ Quiet(p + 1 + 1, q)
      BY <1>2, <1>5, <2>2, FlushesToChar
    <3>2. p + 1 + 1 = p + 2
      BY <2>2
    <3> QED
      BY <2>2, <3>1, <3>2
  <2>10. Quiet(p + 1, q)
    BY <1>5, <2>2, <2>4, <2>9 DEF Quiet
  <2>11. CASE q # Eof /\ SameLine(p, q)
    <3>1. pc' = "prints"
      BY <1>8, <2>11 DEF Goto
    <3>2. \A r \in p + 1 .. q - 1 : text[r] # "\n"
      BY <1>5, <2>2, <2>9, <2>11 DEF SameLine, Char
    <3>3. Unbroken(pc', pos', translated_line')
      BY <1>8, <2>3, <2>7, <2>8, <3>2 DEF Unbroken
    <3>4. Whole(pc', state', translated_line')
      BY <3>1 DEF Whole
    <3> QED
      BY <1>4, <3>3, <3>4, NextLineInv
  <2>12. CASE q = Eof \/ ~SameLine(p, q)
    <3>1. pc' = Tokenized
      BY <1>8, <2>12 DEF Goto
    <3>2. LineOver(p)
      <4>1. CASE q = Eof
        BY <2>10, <4>1 DEF LineOver
      <4>2. CASE ~SameLine(p, q)
        <5>1. p \in 1 .. Eof /\ q \in p .. Eof
          BY <1>5, <2>2, <2>9
        <5>2. PICK r \in p + 1 .. q : r <= Len(text) /\ text[r] = "\n"
          BY <1>5, <4>2, <5>1, NotSameLine
        <5>3. r \in p + 1 .. Len(text) /\ r <= q /\ text[p] # "PRINT"
          BY <1>5, <2>2, <2>3, <2>9, <5>2
        <5>4. EndsLine(r) /\ ~IsWord(r)
          BY <1>5, <2>2, <2>3, <2>9, <2>10, <5>2, <5>3, NewlineIsEnd
        <5>5. r \in p .. Len(text) /\ Quiet(p + 1, r)
          BY <1>5, <2>2, <2>9, <2>10, <5>3 DEF Quiet
        <5> QED
          BY <5>4, <5>5 DEF LineOver
      <4> QED
        BY <2>12, <4>1, <4>2
    <3> QED
      BY <1>4, <2>7, <2>8, <3>1, <3>2, WholeLine
  <2> QED
    BY <2>11, <2>12
<1> QED
  BY <1>1, <1>2, <1>7, <1>8 DEF PrintString

LEMMA PrintOperandLine == ASSUME IInv, LineInv, PrintOperand PROVE LineInv'
<1>1. PICK w : IsNext(w)
  BY DEF IsNext
<1>2. PICK last : last = Final(translated_line)
  OBVIOUS
<1>3. pc = "prints" /\ text' = text /\ pos' = w.pos /\ pc \in Scanning /\ pc # "operands"
  BY <1>1 DEF PrintOperand, Scanning, IsNext
<1>4. /\ pos \in 2 .. Eof /\ text[last] # "RETURN" /\ text[last] # "PRINT"
      /\ OneLine(translated_line)
  BY <1>2, <1>3, LineSoFar
<1>5. CASE Refuse
  BY <1>3, <1>5, RefusedLine
<1>6. CASE w.at = 0 /\ Goto(Tokenized) /\ UNCHANGED translated_line
  <2>1. NoneRead(w)
    <3>1. Len(text) \in Nat /\ Eof = Len(text) + 1
      BY <1>3, WithinLine
    <3>2. WordRead(w) => w.at # 0
      BY <1>4, <3>1 DEF WordRead
    <3>3. EndRead(w) => w.at # 0
      BY <3>1 DEF EndRead
    <3> QED
      BY <1>1, <1>3, <1>6, <3>2, <3>3, NextOnLine
  <2>2. LineOver(last)
    BY <1>2, <1>3, <1>4, <2>1, OverAt DEF NoneRead
  <2> QED
    BY <1>2, <1>3, <1>4, <1>6, <2>2, WholeLine DEF Goto
<1>7. CASE Fits(w.word, "operand") /\ Add(w.at) /\ UNCHANGED pc
  <2>1. w.word \in Vocabulary /\ w.word \notin Instructions
    BY <1>7, FitsKnown DEF Kinds
  <2> QED
    BY <1>1, <1>2, <1>3, <1>4, <1>7, <2>1, OperandMore
<1> QED
  BY <1>1, <1>5, <1>6, <1>7 DEF PrintOperand, IsNext

LEMMA OverLine == ASSUME LineInv, UNCHANGED vars PROVE LineInv'
<1>1. text' = text /\ pos' = pos /\ state' = state /\ translated_line' = translated_line /\ pc' = pc
  BY DEF vars
<1> QED
  BY <1>1, NextLineInv DEF LineInv

LEMMA InitLineInv == ASSUME Init PROVE LineInv
BY DEF Init, LineInv, Unbroken, Whole, Scanning

LEMMA NextLine == ASSUME IInv, LineInv, [Next]_vars PROVE LineInv'
BY OtherSteps, FirstWordLine, LabelledWordLine, OperandLine, EndOfLineLine, NothingToReadLine,
   PrintStringLine, PrintOperandLine, OverLine
   DEF Next, Step, Over

-----------------------------------------------------------------------------
(***************************************************************************)
(* What the tokens of a whole line are.                                    *)
(***************************************************************************)
LEMMA MaxIs ==
  ASSUME NEW S \in SUBSET Nat, NEW m \in S, \A y \in S : y <= m
  PROVE  Max(S) = m
<1>1. \A x \in S : (\A y \in S : x >= y) => x = m
  OBVIOUS
<1>2. \A y \in S : m >= y
  OBVIOUS
<1> QED
  BY <1>1, <1>2 DEF Max

\* The line of a place where tokens begin: it starts there, or with the label
\* just before it; no line ends between them.
LEMMA StartOfLine ==
  ASSUME text \in Texts, NEW f \in 1 .. Len(text), IsWord(f), Opens(f),
         NEW start, start = LineStart(f)
  PROVE  /\ start \in 1 .. f /\ Quiet(start + 1, f)
         /\ \A r \in start .. f - 1 : ~EndsLine(r)
         /\ start # f => IsLabel(start) /\ IsWord(start) /\ ~IsLabel(f)
<1> DEFINE S == {q \in 1 .. f : StartsLine(q)}
<1>0. Len(text) \in Nat /\ f \in Nat \ {0} /\ S \in SUBSET Nat /\ start = Max(S)
  BY FileFacts DEF LineStart
<1>1. CASE StartsLine(f)
  <2>1. f \in S /\ \A y \in S : y <= f
    BY <1>1
  <2>2. start = f
    <3> HIDE DEF S
    <3> QED
      BY <1>0, <2>1, MaxIs
  <2>3. f \in 1 .. f /\ Quiet(f + 1, f) /\ \A r \in f .. f - 1 : ~EndsLine(r)
    BY DEF Quiet
  <2> QED
    BY <2>2, <2>3
<1>2. CASE ~StartsLine(f)
  <2>1. PICK s \in 1 .. f - 1 : Behind(s, f)
    BY <1>2 DEF Opens
  <2>2. text[f] \in Instructions /\ IsLabel(s) /\ StartsLine(s) /\ Quiet(s + 1, f)
    BY <1>2, <2>1 DEF Behind, Opens
  <2>3. ASSUME NEW y \in S PROVE y <= s
    <3>1. y # f /\ IsWord(y)
      BY <1>2, <2>3 DEF StartsLine
    <3> QED
      BY <1>0, <2>1, <2>2, <2>3, <3>1 DEF Quiet
  <2>4. s \in S
    BY <1>0, <2>1, <2>2
  <2>5. start = s
    <3> HIDE DEF S
    <3> QED
      BY <1>0, <2>3, <2>4, MaxIs
  <2>6. ASSUME NEW r \in s .. f - 1, EndsLine(r) PROVE FALSE
    <3>1. ASSUME NEW p \in 1 .. f - 1, IsWord(p) PROVE r \in p .. f - 1
      BY <1>0, <2>1, <2>2, <2>6, <3>1 DEF Quiet
    <3>2. StartsLine(f)
      BY <2>6, <3>1 DEF StartsLine
    <3> QED
      BY <1>2, <3>2
  <2>7. ~IsLabel(f) /\ IsWord(s)
    <3>1. text[f] \notin Labels
      BY <2>2, ScannerAssumption
    <3> QED
      BY <2>2, <3>1 DEF IsLabel, StartsLine
  <2>8. start \in 1 .. f
    BY <1>0, <2>1, <2>5
  <2>9. Quiet(start + 1, f) /\ IsLabel(start) /\ IsWord(start)
    BY <2>2, <2>5, <2>7
  <2>10. \A r \in start .. f - 1 : ~EndsLine(r)
    BY <2>5, <2>6
  <2> QED
    BY <2>7, <2>8, <2>9, <2>10
<1> QED
  BY <1>1, <1>2

\* The words of the line up to its end are those up to the last token.
LEMMA EndOfTokens ==
  ASSUME text \in Texts, NEW start \in 1 .. Len(text), NEW last \in start .. Len(text),
         \A r \in start .. last - 1 : ~EndsLine(r), LineOver(last)
  PROVE  /\ LineEnd(start) \in last .. Eof
         /\ \A q \in last + 1 .. Len(text) : q <= LineEnd(start) => ~IsWord(q)
<1>1. PICK E : E = LineEnd(start)
  OBVIOUS
<1> DEFINE S == {q \in start .. Len(text) : EndsLine(q)} \cup {Eof}
<1>2. Len(text) \in Nat /\ Eof = Len(text) + 1 /\ S \in SUBSET Nat /\ S # {} /\ E = Min(S)
  BY <1>1, FileFacts DEF LineEnd
<1>3. E \in S /\ \A y \in S : E <= y
  <2> HIDE DEF S
  <2> QED
    BY <1>2, MinIsSmallest
<1>4. E \in last .. Eof
  BY <1>2, <1>3
<1>5. ASSUME NEW q \in last + 1 .. Len(text), q <= E, IsWord(q) PROVE FALSE
  <2>1. CASE Quiet(last + 1, Eof)
    BY <1>2, <1>5, <2>1 DEF Quiet
  <2>2. CASE \E e \in last .. Len(text) :
               EndsLine(e) /\ Quiet(last + 1, e) /\ (e = last \/ ~IsWord(e))
    <3>1. PICK e \in last .. Len(text) :
            EndsLine(e) /\ Quiet(last + 1, e) /\ (e = last \/ ~IsWord(e))
      BY <2>2
    <3>2. e \in S
      BY <1>2, <3>1
    <3>3. q <= e
      BY <1>2, <1>3, <1>4, <1>5, <3>1, <3>2
    <3> QED
      BY <1>2, <1>5, <3>1, <3>3 DEF Quiet
  <2> QED
    BY <2>1, <2>2 DEF LineOver
<1> QED
  BY <1>1, <1>4, <1>5

LEMMA WholeTokens ==
  ASSUME text \in Texts, NEW l \in Seq(1 .. Len(text)), l # <<>>, OneLine(l), LineOver(Final(l))
  PROVE  LET start == LineStart(l[1])
             words == {q \in start .. Len(text) : IsWord(q) /\ q <= LineEnd(start)} IN
         /\ \A i, j \in DOMAIN l : i < j => l[i] < l[j]
         /\ {l[i] : i \in DOMAIN l} =
              IF IsLabel(start) /\ ~IsLabel(l[1]) THEN words \ {start} ELSE words
<1>1. PICK n : n = Len(l)
  OBVIOUS
<1>2. PICK f : f = l[1]
  OBVIOUS
<1>3. PICK last : last = Final(l)
  OBVIOUS
<1>4. PICK start : start = LineStart(f)
  OBVIOUS
<1> DEFINE words == {q \in start .. Len(text) : IsWord(q) /\ q <= LineEnd(start)}
           tokens == {l[i] : i \in DOMAIN l}
<1>5. /\ Len(text) \in Nat /\ n \in Nat \ {0} /\ last = l[n] /\ 1 \in 1 .. n /\ n \in 1 .. n
      /\ DOMAIN l = 1 .. n /\ \A i \in 1 .. n : l[i] \in 1 .. Len(text)
  BY <1>1, <1>3, FileFacts, OfTail, LenProperties DEF Final
<1>6. /\ Opens(f) /\ f \in 1 .. Len(text) /\ last \in 1 .. Len(text) /\ IsWord(f)
      /\ \A i \in 1 .. n : IsWord(l[i]) /\ l[i] \in f .. last
  BY <1>1, <1>2, <1>5 DEF OneLine
<1>7. /\ start \in 1 .. f /\ Quiet(start + 1, f)
      /\ \A r \in start .. f - 1 : ~EndsLine(r)
      /\ start # f => IsLabel(start) /\ IsWord(start) /\ ~IsLabel(f)
  BY <1>4, <1>6, StartOfLine
<1>8. f <= last
  BY <1>5, <1>6
<1>9. \A r \in start .. last - 1 : ~EndsLine(r)
  <2>1. \A r \in start .. last - 1 : r \in start .. f - 1 \/ r \in f .. last - 1
    BY <1>5, <1>6, <1>7
  <2> QED
    BY <1>2, <1>3, <1>7, <2>1 DEF OneLine
<1>10. start \in 1 .. Len(text) /\ last \in start .. Len(text)
  BY <1>5, <1>6, <1>7, <1>8
<1>11. /\ LineEnd(start) \in last .. Eof
       /\ \A q \in last + 1 .. Len(text) : q <= LineEnd(start) => ~IsWord(q)
  BY <1>3, <1>9, <1>10, EndOfTokens
<1>12. ASSUME NEW q \in words PROVE q \in tokens \/ (q = start /\ start # f)
  <2>1. q \in start .. last /\ IsWord(q)
    BY <1>5, <1>10, <1>11, <1>12
  <2>2. CASE q < f
    BY <1>6, <1>7, <2>1, <2>2 DEF Quiet
  <2>3. CASE ~(q < f)
    <3>1. q \in l[1] .. Final(l)
      BY <1>2, <1>3, <1>6, <1>10, <2>1, <2>3
    <3>2. PICK i \in 1 .. n : l[i] = q
      BY <1>1, <2>1, <3>1 DEF OneLine
    <3> QED
      BY <1>5, <3>2
  <2> QED
    BY <2>2, <2>3
<1>13. ASSUME NEW q \in tokens PROVE q \in words /\ (start # f => q # start)
  <2>1. PICK i \in 1 .. n : q = l[i]
    BY <1>5, <1>13
  <2>2. q \in f .. last /\ IsWord(q) /\ q \in 1 .. Len(text)
    BY <1>5, <1>6, <2>1
  <2>3. LineEnd(start) \in last .. Len(text) + 1
    BY <1>11 DEF Eof
  <2>4. q \in start .. Len(text) /\ q <= LineEnd(start)
    BY <1>5, <1>6, <1>7, <2>2, <2>3
  <2>5. start # f => q # start
    BY <1>6, <1>7, <2>2
  <2> QED
    BY <2>2, <2>4, <2>5
<1>14. tokens = IF IsLabel(start) /\ ~IsLabel(f) THEN words \ {start} ELSE words
  <2>1. CASE start = f
    <3>1. tokens = words
      BY <1>12, <1>13, <2>1
    <3> QED
      BY <2>1, <3>1
  <2>2. CASE start # f
    <3>1. tokens = words \ {start}
      <4> HIDE DEF tokens, words
      <4> QED
        BY <1>12, <1>13, <2>2
    <3> QED
      BY <1>7, <2>2, <3>1
  <2> QED
    BY <2>1, <2>2
<1>15. \A i, j \in DOMAIN l : i < j => l[i] < l[j]
  BY <1>1, <1>5 DEF OneLine
<1> QED
  BY <1>2, <1>4, <1>14, <1>15

\* The ring buffer holds all the words of one line, in their order, whenever a
\* handler of exec.c runs (add_new_token, get_next_word, flush_up_to_newline).
THEOREM TokensAreTheLine == Spec => []TokensOfTheLine
<1>1. Init => LineInv
  BY InitLineInv
<1>2. IInv /\ LineInv /\ [Next]_vars => LineInv'
  BY NextLine
<1>3. IInv /\ LineInv => TokensOfTheLine
  <2>1. SUFFICES ASSUME IInv, LineInv, Executes, translated_line # <<>> PROVE TokensOfTheLine
    BY DEF TokensOfTheLine
  <2>2. pc = "execute" /\ state \in Ready
    BY <2>1 DEF Executes, Ready
  <2>3. /\ text \in Texts /\ translated_line \in Seq(1 .. Len(text))
        /\ OneLine(translated_line) /\ LineOver(Final(translated_line))
    BY <2>1, <2>2, LineDone DEF LineInv, Whole
  <2> QED
    BY <2>1, <2>3, WholeTokens DEF TokensOfTheLine
<1> QED
  BY <1>1, <1>2, <1>3, ScannerInvariant, PTL DEF Spec

=============================================================================
