------------------------------ MODULE Scanner ------------------------------
(***************************************************************************)
(* The scanner of src/scanner.c and the part of src/exec.c that drives it: *)
(* the file is read word by word, with one character of lookahead that     *)
(* stays in prog->c from one line to the next; the tokens of a line go     *)
(* through a ring buffer to the handler of its instruction; a branch to a  *)
(* label that is not in the table tokenizes the lines that follow until it *)
(* finds it.                                                               *)
(*                                                                         *)
(* The file is its first eight bytes as one item (all of it, if it is      *)
(* shorter than nine bytes), its ninth byte, and then a sequence of words  *)
(* and blanks; a word, also a string of PRINT, is one item.  prog->c is    *)
(* the item at pos, so that it is a word's first character as long as the  *)
(* word has not been read.                                                 *)
(***************************************************************************)
EXTENDS TextLines

CONSTANTS
  Texts,        \* the files of this instance
  Labels,       \* words that are labels
  Variables,    \* operands that are variables or elements
  Numbers,      \* operands that are integers
  HalfArrays    \* operands that are arrays whose index cannot be parsed

VARIABLES
  pos,              \* how many of its items have been read, end of file too
  state, error_flag,
  translated_line,  \* the tokens, each as the place of its word
  vartable,         \* the offset of each label in the table, 0 for none
  pc,               \* where the interpreter is; "lost" once NULL, or memory
                    \* nobody wrote, was used as a pointer
  goal              \* the place of the label a branch searches for, or 0

vars == <<text, pos, state, error_flag, translated_line, vartable, pc, goal>>

\* instruction_array: what the handler of each instruction reads; the words
\* ADD, DOWN, BREQ stand for the others with the same handler
Operands ==
  [LOAD |-> <<"variable", "operand">>, STORE |-> <<"variable", "operand">>,
   SET |-> <<"variable", "operand">>,
   ADD |-> <<"variable", "operand", "operand">>, DOWN |-> <<"variable">>,
   SLEEP |-> <<"operand">>, BREQ |-> <<"operand", "operand", "label">>,
   BRA |-> <<"label">>, PRINT |-> <<"string">>, RETURN |-> <<>>]
Instructions == DOMAIN Operands

Fits(word, kind) ==
  CASE kind = "variable" -> word \in Variables
    [] kind = "operand"  -> word \in Variables \cup Numbers
    [] kind = "label"    -> word \in Labels
    [] kind = "string"   -> word = "string"

\* a file begins with its magic bytes and one byte, which is no word by itself;
\* then there is a blank between any two words, and no word is a blank, the
\* end, or of two kinds the scanner tells apart
ASSUME ScannerAssumption ==
  /\ \A t \in Texts :
        /\ t \in Seq(STRING) /\ t # <<>> /\ t[1] \notin Spaces
        /\ Len(t) > 1 => t[2] \notin Labels \cup Instructions
        /\ \A p \in 1 .. Len(t) : t[p] \notin {"EOF", "none"}
        /\ \A p \in 3 .. Len(t) - 1 : t[p] \in Spaces \/ t[p + 1] \in Spaces
  /\ (Labels \cup Variables \cup Numbers \cup HalfArrays)
        \cap (Instructions \cup Spaces \cup {"EOF", "none"}) = {}

Char(p) == IF p = Eof THEN "EOF" ELSE text[p]

\* mutant: the file is read on behind its end
AfterEof(p) == p + 1

After(p) == IF p = Eof THEN Eof ELSE p + 1     \* NEXT_CHAR

Init ==
  /\ text \in Texts
  /\ pos = 0 /\ state = "MAGIC_LINE" /\ error_flag = FALSE
  /\ translated_line = <<>>
  /\ vartable = [l \in Labels |-> 0]
  /\ pc = "turn" /\ goal = 0

-----------------------------------------------------------------------------
(***************************************************************************)
(* Reading.                                                                *)
(***************************************************************************)
\* flush_up_to_char
FlushToChar(p) == Min({q \in p + 1 .. Len(text) : text[q] \notin Spaces} \cup {Eof})

\* prog->line changes with every newline read
SameLine(p, q) == \A r \in p + 1 .. q : Char(r) # "\n"

\* what get_next_word finds and where it is, and what has been read then
Word(p) == [at |-> p, word |-> Char(p), pos |-> After(p)]
NoWord(p) == [at |-> 0, word |-> "none", pos |-> p]

\* mutant: the word may come from the next line
NextWordAnywhere(thisLine) ==
  LET p == IF Char(pos) \in Spaces THEN FlushToChar(pos) ELSE pos IN
  IF p = Eof /\ Char(pos) \in Spaces THEN NoWord(p) ELSE Word(p)

\* get_next_word; at the end of the file the word is the character EOF
NextWord(thisLine) ==
  LET p == IF Char(pos) \in Spaces THEN FlushToChar(pos) ELSE pos IN
  IF thisLine /\ Char(pos) = "\n" THEN NoWord(pos)
  ELSE IF (p = Eof /\ Char(pos) \in Spaces) \/ (thisLine /\ ~SameLine(pos, p))
  THEN NoWord(p)
  ELSE Word(p)

\* a word that ends with the file makes its line the last one
LastLine(w) == w.at # 0 /\ w.pos = Eof

\* flush_up_to_newline: what has been read when it returns
FlushToNewline ==
  IF Char(pos) = "\n" THEN pos
  ELSE Min({q \in pos + 1 .. Len(text) : text[q] # Blank} \cup {Eof})

Goto(l) == pc' = l
Stop == state' = "FINISHED" /\ error_flag' = TRUE        \* program_stop(prog, 1)
Add(p) == translated_line' = Append(translated_line, p)  \* add_new_token

\* where a line that has been tokenized is needed
Tokenized == IF goal = 0 THEN "execute" ELSE "found"

\* the line is refused
Refuse == Stop /\ Goto(Tokenized)

\* free_token follows an index nobody wrote
HalfParsed == \E i \in DOMAIN translated_line : text[translated_line[i]] \in HalfArrays

\* the words of the instruction that are in the ring buffer
Instruction ==
  LET l == translated_line IN IF text[l[1]] \in Labels THEN Tail(l) ELSE l

-----------------------------------------------------------------------------
(***************************************************************************)
(* A turn of the runtime: interpret_next_line, or the end.                 *)
(***************************************************************************)
\* parse_magic: nine bytes, whatever they are, and up to the newline; a file
\* that has not as many ends without an error.  The ninth is only compared
\* with the newline.
ParseMagic ==
  /\ pc = "turn" /\ state = "MAGIC_LINE"
  /\ LET wrong == text[1] # "#PROGRAM"
         p == IF Char(2) = "\n" THEN 2 ELSE FlushToChar(2) IN
     \/ Char(2) = "EOF" /\ pos' = 2 /\ state' = "FINISHED" /\ UNCHANGED <<error_flag, pc>>
     \/ /\ Char(2) # "EOF" /\ Char(2) # "\n" /\ SameLine(2, p)
        /\ pos' = p /\ Stop /\ UNCHANGED pc
     \/ /\ Char(2) # "EOF" /\ (Char(2) = "\n" \/ ~SameLine(2, p))
        /\ pos' = p
        /\ error_flag' = wrong
        /\ IF p = Eof THEN state' = "FINISHED" /\ UNCHANGED pc
                      ELSE state' = "INSTRUCTION_LINE" /\ Goto("line")
  /\ UNCHANGED <<text, translated_line, vartable, goal>>

InterpretLine ==
  /\ pc = "turn" /\ state = "INSTRUCTION_LINE"
  /\ Goto("line")
  /\ UNCHANGED <<text, pos, state, error_flag, translated_line, vartable, goal>>

\* the runtime has slept for the program, or taken its token
Resume ==
  /\ pc = "turn" /\ state \in {"SLEEPING", "BLOCKED"}
  /\ state' = "INSTRUCTION_LINE"
  /\ UNCHANGED <<text, pos, error_flag, translated_line, vartable, pc, goal>>

\* the runtime detaches the program; program_free frees the tokens left
Detach ==
  /\ pc = "turn" /\ (state = "FINISHED" \/ error_flag)
  /\ Goto("ended") \/ (HalfParsed /\ Goto("lost"))
  /\ UNCHANGED <<text, pos, state, error_flag, translated_line, vartable, goal>>

-----------------------------------------------------------------------------
(***************************************************************************)
(* tokenize_next_line, and the handlers of the scanner.                    *)
(***************************************************************************)
\* get_next_word, in tokenize_next_line: a label, or the instruction
FirstWord ==
  /\ pc = "line"
  /\ LET w == NextWord(FALSE) IN
     /\ pos' = w.pos
     /\ \/ w.at = 0 /\ Goto(Tokenized) /\ UNCHANGED <<state, error_flag, translated_line>>
        \/ /\ w.word \in Labels
           /\ Add(w.at) /\ Goto("labelled")
           /\ state' = IF LastLine(w) THEN "LAST_LINE" ELSE state
           /\ UNCHANGED error_flag
        \/ /\ w.word \in Instructions
           /\ Add(w.at) /\ Goto("operands")
           /\ state' = IF LastLine(w) THEN "LAST_LINE" ELSE state
           /\ UNCHANGED error_flag
        \/ /\ w.at # 0 /\ w.word \notin Labels \cup Instructions
           /\ Refuse /\ UNCHANGED translated_line
  /\ UNCHANGED <<text, vartable, goal>>

LabelledWord ==
  /\ pc = "labelled"
  /\ LET w == NextWord(TRUE) IN
     /\ pos' = w.pos
     /\ \/ /\ w.word \in Instructions
           /\ Add(w.at) /\ Goto("operands")
           /\ state' = IF LastLine(w) THEN "LAST_LINE" ELSE state
           /\ UNCHANGED error_flag
        \/ /\ w.word \notin Instructions
           /\ Refuse /\ UNCHANGED translated_line
  /\ UNCHANGED <<text, vartable, goal>>

\* the handlers of all instructions but PRINT and RETURN, one operand
Operand ==
  LET ins == Instruction
      expected == Operands[text[ins[1]]]
      w == NextWord(TRUE) IN
  /\ pc = "operands" /\ text[ins[1]] # "PRINT" /\ Len(ins) <= Len(expected)
  /\ pos' = w.pos
  /\ \/ /\ Fits(w.word, expected[Len(ins)])
        /\ Add(w.at)
        /\ state' = IF LastLine(w) THEN "LAST_LINE" ELSE state
        /\ UNCHANGED <<error_flag, pc>>
     \/ /\ ~Fits(w.word, expected[Len(ins)])
        /\ Refuse
        /\ IF w.word \in HalfArrays /\ expected[Len(ins)] # "label"
           THEN Add(w.at) ELSE UNCHANGED translated_line
  /\ UNCHANGED <<text, vartable, goal>>

\* flush_up_to_newline; a branch may go on from the end of the file
EndOfLine ==
  LET ins == Instruction
      expected == Operands[text[ins[1]]]
      branch == text[ins[1]] \in {"BRA", "BREQ"}
      p == FlushToNewline IN
  /\ pc = "operands" /\ expected # <<>> /\ text[ins[1]] # "PRINT"
  /\ Len(ins) > Len(expected)
  /\ pos' = p
  /\ \/ Char(p) \in {"\n", "EOF"} /\ Goto(Tokenized) /\ UNCHANGED error_flag
        /\ state' = IF branch /\ p = Eof THEN "INSTRUCTION_LINE" ELSE state
     \/ Char(p) \notin {"\n", "EOF"} /\ Refuse
  /\ UNCHANGED <<text, translated_line, vartable, goal>>

\* return_handler reads nothing
NothingToRead ==
  /\ pc = "operands" /\ text[Instruction[1]] = "RETURN"
  /\ Goto(Tokenized)
  /\ UNCHANGED <<text, pos, state, error_flag, translated_line, vartable, goal>>

\* print_handler: the string, which may be on a later line, and a blank
PrintString ==
  LET p == FlushToChar(pos)
      q == FlushToChar(After(p)) IN
  /\ pc = "operands" /\ text[Instruction[1]] = "PRINT"
  /\ \/ Char(p) # "string" /\ pos' = p /\ Refuse /\ UNCHANGED translated_line
     \/ /\ Char(p) = "string" /\ After(p) = Eof
        /\ pos' = Eof /\ Refuse /\ UNCHANGED translated_line
     \/ /\ Char(p) = "string" /\ After(p) # Eof
        /\ Add(p) /\ pos' = q /\ UNCHANGED error_flag
        /\ state' = IF q = Eof THEN "LAST_LINE" ELSE state
        /\ Goto(IF q # Eof /\ SameLine(p, q) THEN "prints" ELSE Tokenized)
  /\ UNCHANGED <<text, vartable, goal>>

PrintOperand ==
  /\ pc = "prints"
  /\ LET w == NextWord(TRUE) IN
     /\ pos' = w.pos
     /\ \/ w.at = 0 /\ Goto(Tokenized) /\ UNCHANGED <<state, error_flag, translated_line>>
        \/ /\ Fits(w.word, "operand")
           /\ Add(w.at)
           /\ state' = IF LastLine(w) THEN "LAST_LINE" ELSE state
           /\ UNCHANGED <<error_flag, pc>>
        \/ /\ w.at # 0 /\ ~Fits(w.word, "operand")
           /\ Refuse
           /\ IF w.word \in HalfArrays THEN Add(w.at) ELSE UNCHANGED translated_line
  /\ UNCHANGED <<text, vartable, goal>>

-----------------------------------------------------------------------------
(***************************************************************************)
(* exec_instruction_line, and the handlers of src/exec.c.                  *)
(***************************************************************************)
Executes == pc = "execute" /\ state \in {"INSTRUCTION_LINE", "LAST_LINE"}

\* insert_label_to_vartable: the offset is that of the blank after the label
InTable(p) == vartable[text[p]] # 0
Inserted(p) == [vartable EXCEPT ![text[p]] = After(p)]
IsLabel(p) == text[p] \in Labels

\* the table when the instruction runs, if its label is no other line's
TableOfLine == IF IsLabel(translated_line[1]) THEN Inserted(translated_line[1]) ELSE vartable

\* mutant: the last line with a label is the one it names
NeverRedefines == FALSE

Redefines ==
  /\ IsLabel(translated_line[1]) /\ InTable(translated_line[1])
  /\ vartable # TableOfLine

\* interpret_next_line, after the line
Settled == IF state = "LAST_LINE" THEN "FINISHED" ELSE state

NotExecuted ==
  /\ pc = "execute"
  /\ \/ ~Executes /\ UNCHANGED <<state, error_flag, translated_line>>
     \/ Executes /\ translated_line = <<>> /\ state' = "FINISHED" /\ UNCHANGED <<error_flag, translated_line>>
     \/ /\ Executes /\ translated_line # <<>> /\ Redefines
        /\ Stop /\ translated_line' = Tail(translated_line)
  /\ Goto("turn")
  /\ UNCHANGED <<text, pos, vartable, goal>>

ExecuteLine ==
  LET word == text[Instruction[1]]
      words == {text[Instruction[i]] : i \in DOMAIN Instruction} IN
  /\ Executes /\ translated_line # <<>> /\ ~Redefines
  /\ vartable' = TableOfLine /\ translated_line' = <<>>
  /\ \/ /\ Goto("turn") /\ UNCHANGED error_flag
        /\ \/ word = "RETURN" /\ state' = "FINISHED"
           \/ word = "DOWN" /\ state' = "BLOCKED"
           \/ word = "SLEEP" /\ state' = "SLEEPING"
           \/ word \notin {"RETURN", "BRA"} /\ state' = Settled
     \/ words \cap Variables # {} /\ Stop /\ Goto("turn")
     \* load_handler takes a second operand that is a number as a name
     \/ word = "LOAD" /\ words \cap Numbers # {} /\ Goto("lost") /\ UNCHANGED <<state, error_flag>>
  /\ UNCHANGED <<text, pos, goal>>

\* branch_handler, when the branch is taken
TakeBranch ==
  LET label == translated_line[Len(translated_line)] IN
  /\ Executes /\ translated_line # <<>> /\ ~Redefines
  /\ text[Instruction[1]] \in {"BRA", "BREQ"}
  /\ vartable' = TableOfLine /\ translated_line' = <<>>
  /\ \/ /\ vartable'[text[label]] # 0
        /\ pos' = vartable'[text[label]] /\ state' = Settled
        /\ Goto("turn") /\ UNCHANGED goal
     \/ /\ vartable'[text[label]] = 0
        /\ goal' = label /\ Goto("line") /\ UNCHANGED <<pos, state>>
  /\ UNCHANGED <<text, error_flag>>

\* mutant: the other tokens of the line stay
NotDrained == Tail(translated_line)

\* the ring after a line of the search: its other tokens are freed
Drained == <<>>

\* one line of the search: only its first token is looked at
Searched ==
  LET first == translated_line[1]
      arrives == IsLabel(first) /\ text[first] = text[goal] IN
  /\ pc = "found" /\ translated_line # <<>>
  /\ translated_line' = Drained
  /\ \/ /\ arrives
        /\ vartable' = Inserted(first) /\ pos' = After(first)
        /\ goal' = 0 /\ state' = Settled /\ Goto("turn") /\ UNCHANGED error_flag
     \/ /\ ~arrives /\ state = "FINISHED"
        /\ Stop /\ goal' = 0 /\ Goto("turn") /\ UNCHANGED <<vartable, pos>>
     \/ /\ ~arrives /\ state # "FINISHED"
        /\ Goto("line") /\ UNCHANGED <<vartable, pos, state, error_flag, goal>>
     \/ HalfParsed /\ Goto("lost") /\ UNCHANGED <<vartable, pos, state, error_flag, goal>>
  /\ UNCHANGED text

\* mutant: a line without a token is skipped
SkipEmpty ==
  /\ pc = "found" /\ translated_line = <<>>
  /\ Goto("line")
  /\ UNCHANGED <<text, pos, state, error_flag, translated_line, vartable, goal>>

\* the line had no token: the type of NULL is read
SearchFails ==
  /\ pc = "found" /\ translated_line = <<>>
  /\ Goto("lost")
  /\ UNCHANGED <<text, pos, state, error_flag, translated_line, vartable, goal>>

Over == pc \in {"ended", "lost"} /\ UNCHANGED vars

Step ==
  \/ ParseMagic \/ InterpretLine \/ Resume \/ Detach
  \/ FirstWord \/ LabelledWord \/ Operand \/ EndOfLine \/ NothingToRead
  \/ PrintString \/ PrintOperand
  \/ NotExecuted \/ ExecuteLine \/ TakeBranch \/ Searched \/ SearchFails

Next == Step \/ Over

Spec == Init /\ [][Next]_vars

\* the thread of the program goes on
FairSpec == Spec /\ WF_vars(Step)

-----------------------------------------------------------------------------
(***************************************************************************)
(* The lines the scanner executes, as ProgramText has them.                *)
(***************************************************************************)
LineStart(p) == Max({q \in 1 .. p : StartsLine(q)})

\* the first word that has not been read; a jump leaves the label behind
Ahead ==
  IF pos \in 2 .. Len(text) + 1 /\ IsLabel(pos - 1) /\ StartsLine(pos - 1) THEN pos - 1
  ELSE IF pos # Eof /\ Char(pos) \in Spaces THEN FlushToChar(pos)
  ELSE pos

outcome ==
  IF pc = "lost" THEN "lost"
  ELSE IF pc = "ended" \/ (state = "FINISHED" /\ pc # "found" /\ ~HalfParsed)
  THEN (IF error_flag THEN "stopped" ELSE "finished")
  ELSE "running"

at ==
  CASE outcome # "running"     -> 0
    [] outcome = "running" /\ state = "MAGIC_LINE"  -> 1
    [] outcome = "running" /\ state # "MAGIC_LINE" /\ goal # 0 -> LineStart(goal)
    [] outcome = "running" /\ state # "MAGIC_LINE" /\ goal = 0 /\ translated_line # <<>>
                               -> LineStart(translated_line[1])
    [] OTHER                   -> Ahead

known == [l \in Labels |-> IF vartable[l] = 0 THEN 0 ELSE vartable[l] - 1]
refused == state # "MAGIC_LINE" /\ text[1] # "#PROGRAM" /\ Len(text) > 1

\* half an array is freed, or a number is taken as a name
Perilous(words) ==
  LET Has(set) == \E i \in DOMAIN words : words[i] \in set IN
  Has(HalfArrays) \/ (Has({"LOAD"}) /\ Has(Numbers))

Program == INSTANCE ProgramText

-----------------------------------------------------------------------------
(***************************************************************************)
(* Properties.                                                             *)
(***************************************************************************)
\* The scanner reads forward inside the file and its tokens are places there.
TypeOK ==
  /\ pos \in 0 .. Eof /\ goal \in 0 .. Len(text)
  /\ state \in {"MAGIC_LINE", "INSTRUCTION_LINE", "LAST_LINE", "SLEEPING", "BLOCKED", "FINISHED"}
  /\ error_flag \in BOOLEAN
  /\ translated_line \in Seq(1 .. Len(text))
  /\ vartable \in [Labels -> 0 .. Eof]
  /\ pc \in {"turn", "line", "labelled", "operands", "prints", "execute", "found", "ended", "lost"}

\* When a handler of exec.c runs, the ring buffer holds the words of one line
\* of the file, all of them and in order, whatever blanks were between them;
\* only a line jumped to comes without its label.  The handlers read the ring
\* without asking if it is empty.
TokensOfTheLine ==
  Executes /\ translated_line # <<>> =>
    LET l == translated_line
        start == LineStart(l[1])
        words == {q \in start .. Len(text) : IsWord(q) /\ q <= LineEnd(start)} IN
    /\ \A i, j \in DOMAIN l : i < j => l[i] < l[j]
    /\ {l[i] : i \in DOMAIN l} =
         IF IsLabel(start) /\ ~IsLabel(l[1]) THEN words \ {start} ELSE words

\* A label of the table is the first word of a line, and the offset kept with
\* it is the blank behind it: a jump never ends inside another line.
LabelsAreLines ==
  \A l \in Labels : vartable[l] # 0 =>
    text[vartable[l] - 1] = l /\ StartsLine(vartable[l] - 1)

\* Reading with one character of lookahead, jumping by fseek and searching for
\* labels executes the lines of the file in the order ProgramText says.
ImplementsText == Program!Spec

\* interpret_next_line returns: the search for a label stops at the end of the
\* file at the latest, unless the process is lost.
ScanEnds == (pc # "turn") ~> (pc \in {"turn", "ended", "lost"})

\* "couldn't jump to undefined label" (exec.c): the search for a label that no
\* line has ends in that message.
UndefinedLabelIsReported == pc = "lost" => goal = 0

=============================================================================
