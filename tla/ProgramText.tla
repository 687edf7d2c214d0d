---------------------------- MODULE ProgramText ----------------------------
(***************************************************************************)
(* What a program does, line by line.  A line is the words up to a newline *)
(* or RETURN, an optional label first; the lines are executed one after    *)
(* the other, a branch that is taken goes on with the line of its label,   *)
(* and the first malformed line stops the program.  A line is named by the *)
(* place of its first word in the text.                                    *)
(*                                                                         *)
(* Some things are as the code has them and not as one would wish: a label *)
(* is known once its line was executed or jumped to, every other is only   *)
(* looked for in the lines that follow the branch, and where there is no   *)
(* such line the process is lost; a last line without a newline may be     *)
(* refused or skipped; wrong magic bytes do not stop the program at once.  *)
(***************************************************************************)
EXTENDS TextLines

CONSTANTS
  Labels,       \* the words that are labels
  Operands,     \* what the operands of each instruction must be
  Fits(_, _),   \* whether a word is such an operand
  Perilous(_)   \* whether a line, as words, may have the process lost

VARIABLES
  at,           \* the line executed next, 0 after the end
  known,        \* the line of each label known, 0 for none
  refused,      \* the magic bytes were wrong
  outcome       \* "running", "finished", "stopped" with an error, or "lost"

textVars == <<text, at, known, refused, outcome>>

Labelled(p) == p # Eof /\ text[p] \in Labels
Body(p) == IF Labelled(p) THEN Tail(WordsFrom(p)) ELSE WordsFrom(p)

\* PRINT takes any number of operands after its string
WellFormed(p) ==
  LET body == Body(p) IN
  /\ body # <<>> /\ body[1] \in DOMAIN Operands
  /\ LET expected == Operands[body[1]] IN
     /\ Len(body) >= 1 + Len(expected)
     /\ \A i \in 1 .. Len(expected) : Fits(body[i + 1], expected[i])
     /\ Len(body) > 1 + Len(expected) => body[1] = "PRINT"
     /\ \A i \in Len(expected) + 2 .. Len(body) : Fits(body[i], "operand")

-----------------------------------------------------------------------------
Init ==
  /\ at = 1 /\ refused = FALSE /\ outcome = "running"
  /\ known = [l \in Labels |-> 0]

End(o) ==
  /\ outcome' = IF refused' /\ o = "finished" THEN "stopped" ELSE o
  /\ at' = 0

Refuse(p) == End("stopped") \/ (Perilous(WordsFrom(p)) /\ End("lost"))

MagicAlone == \A q \in 3 .. LineEnd(1) : ~IsWord(q)

\* the first line: the magic bytes and another one, which is not looked at if
\* it does not end the line; nothing else.  A shorter file is empty.
Start ==
  /\ at = 1 /\ outcome = "running"
  /\ refused' = (text[1] # "#PROGRAM" /\ Len(text) > 1)
  /\ \/ Len(text) = 1 /\ End("finished")
     \/ Len(text) > 1 /\ ~Terminated(1) /\ End("stopped")
     \/ Len(text) > 1 /\ Terminated(1) /\ ~MagicAlone /\ End("stopped")
     \/ /\ Len(text) > 1 /\ Terminated(1) /\ MagicAlone
        /\ \/ at' = Following(1) /\ UNCHANGED outcome
           \/ Following(1) = Eof /\ End("finished")
  /\ UNCHANGED <<text, known>>

\* where a search that starts at p ends: at the label, or at the first line
\* that it cannot pass
Search(p, label) ==
  Min({q \in p .. Len(text) :
         StartsLine(q) /\ (text[q] = label \/ ~WellFormed(q) \/ ~Terminated(q))}
      \cup {Eof})

Jump(label, labels) ==
  LET p == Search(Following(at), label) IN
  \/ labels[label] # 0 /\ at' = labels[label] /\ known' = labels /\ UNCHANGED outcome
  \/ /\ labels[label] = 0 /\ p # Eof /\ text[p] = label
     /\ known' = [labels EXCEPT ![label] = p]
     /\ \/ WellFormed(p) /\ at' = p /\ UNCHANGED outcome
        \/ ~WellFormed(p) /\ Refuse(p)
        \/ ~Terminated(p) /\ (End("stopped") \/ End("finished"))
  \/ /\ labels[label] = 0 /\ (p = Eof \/ text[p] # label)
     /\ known' = labels
     /\ End("lost") \/ (p # Eof /\ End("stopped"))

\* a branch has its own label in the table before it searches for another
Learn ==
  /\ at > 1 /\ at # Eof /\ WellFormed(at) /\ Labelled(at) /\ known[text[at]] = 0
  /\ known' = [known EXCEPT ![text[at]] = at]
  /\ UNCHANGED <<text, at, refused, outcome>>

Execute(body, labels) ==
  \/ known' = labels /\ body[1] = "RETURN" /\ End("finished")
  \/ known' = labels /\ body[1] # "RETURN" /\ Refuse(at)
  \/ /\ known' = labels /\ body[1] \notin {"RETURN", "BRA"}
     /\ \/ at' = Following(at) /\ UNCHANGED outcome
        \/ Following(at) = Eof /\ End("finished")
  \/ body[1] \in {"BRA", "BREQ"} /\ Jump(body[Len(body)], labels)

Run ==
  /\ at > 1 /\ at # Eof
  /\ \/ ~WellFormed(at) /\ Refuse(at) /\ UNCHANGED known
     \/ ~Terminated(at) /\ End("stopped") /\ UNCHANGED known
     \/ /\ WellFormed(at) /\ Labelled(at) /\ known[text[at]] \notin {0, at}
        /\ End("stopped") /\ UNCHANGED known
     \/ /\ WellFormed(at) /\ (Labelled(at) => known[text[at]] \in {0, at})
        /\ Execute(Body(at), IF Labelled(at) THEN [known EXCEPT ![text[at]] = at] ELSE known)
  /\ UNCHANGED <<text, refused>>

Finish ==
  /\ \/ at = Eof /\ End("finished")
     \/ at = Eof /\ (\E q \in 1 .. Len(text) : IsWord(q) /\ ~Terminated(q)) /\ End("stopped")
     \/ at > 1 /\ refused /\ End("stopped")
  /\ UNCHANGED <<text, known, refused>>

Next == Start \/ Learn \/ Run \/ Finish

Spec == Init /\ [][Next]_textVars

=============================================================================
