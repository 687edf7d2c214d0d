----------------------------- MODULE TextLines -----------------------------
(***************************************************************************)
(* Which words of a program make a line.                                   *)
(***************************************************************************)
EXTENDS Integers, Sequences, FiniteSetsExt

VARIABLE text    \* the magic bytes, the byte behind them, and the words and
                 \* blanks of the file, each one an item

Eof == Len(text) + 1
Blank == " "
Spaces == {Blank, "\n"}
IsWord(p) == text[p] \notin Spaces

\* the first word at p or after it
WordFrom(p) == Min({q \in p .. Len(text) : IsWord(q)} \cup {Eof})

\* the last word before q is PRINT, which waits for its string
AwaitsString(q) ==
  \E p \in 2 .. q - 1 : text[p] = "PRINT" /\ \A r \in p + 1 .. q - 1 : ~IsWord(r)

\* a newline ends the line, but not between PRINT and its string; RETURN ends
\* it too: what follows RETURN is never looked at by its handler
EndsLine(q) ==
  \/ text[q] = "\n" /\ ~AwaitsString(q)
  \/ text[q] = "RETURN" /\ q > 1

LineEnd(p) == Min({q \in p .. Len(text) : EndsLine(q)} \cup {Eof})

\* the file goes on behind the line, or ends with its newline
Terminated(p) ==
  LET q == LineEnd(p) IN q < Len(text) \/ (q = Len(text) /\ text[q] = "\n")

Following(p) == IF Terminated(p) THEN WordFrom(LineEnd(p) + 1) ELSE Eof

StartsLine(q) ==
  /\ IsWord(q)
  /\ \A p \in 1 .. q - 1 : IsWord(p) => \E r \in p .. q - 1 : EndsLine(r)

\* the words from p to the end of its line
WordsFrom(p) ==
  LET Word(w) == w \notin Spaces IN
  SelectSeq(SubSeq(text, p, Min({LineEnd(p), Len(text)})), Word)

=============================================================================
