----------------------------- MODULE MCScanner -----------------------------
(***************************************************************************)
(* Files of the magic bytes and some lines, with and without a newline at  *)
(* the end: two lines of any shape, MaxLines where all that matters is     *)
(* which labels were executed and which were skipped.                      *)
(***************************************************************************)
EXTENDS Scanner, SequencesExt

CONSTANT MaxLines

Magic == <<"#PROGRAM">>
OddMagics ==
  {<<"#program">>, <<"RETURN\nX">>, <<"#PROGRAM", " ">>, <<"#PROGRAM", " ", "RETURN">>,
   <<"#PROGRAM", "X">>, <<"#PROGRAM", "X", "Y">>, <<"#program", "X", " ", "PRINT">>}

Line(words) == FoldLeft(LAMBDA l, w : l \o <<" ", w>>, <<Head(words)>>, Tail(words))

Lines ==
  {Line(w) : w \in
     {<<"BRA", "L1">>, <<"BREQ", "$x", "1", "L2">>, <<"L1", "BRA", "L2">>,
      <<"L1", "RETURN">>, <<"L2", "SET", "$x", "1">>, <<"SET", "$a[">>,
      <<"L1", "SET", "$x", "1", "1">>, <<"L1">>, <<"LOAD", "$x", "1">>,
      <<"STORE", "$x", "1">>, <<"BRA", "$a[">>, <<"DOWN", "$x">>, <<"SLEEP", "1">>, <<"RETURN", "1">>, <<"RETURN", "L1", "SET", "$x", "1">>,
      <<"PRINT", "string", "$x">>, <<"PRINT", "string">>, <<"SET", "RETURN">>,
      <<"SLEEP", "PRINT">>}}
  \cup {<<"PRINT", "\n", "string">>, <<" ">>, <<"ADD", " ", "$x", " ", "1", " ", "\n", "1">>}

Jumps ==
  {Line(w) : w \in
     {<<"BRA", "L1">>, <<"BREQ", "$x", "1", "L2">>, <<"L1", "BRA", "L2">>,
      <<"L1", "RETURN">>, <<"RETURN", "BRA", "L2">>,
      <<"L2", "SET", "$x", "1">>, <<"L2", "BREQ", "1", "$x", "L1">>}}

Bodies(lines, n) == UNION {[1 .. k -> lines] : k \in 0 .. n}

File(magic, body) ==
  magic \o <<"\n">> \o FlattenSeq([i \in DOMAIN body |-> Append(body[i], "\n")])

Files ==
  {File(Magic, b) : b \in Bodies(Lines, 2) \cup Bodies(Jumps, MaxLines)}
  \cup {File(m, b) : m \in OddMagics, b \in Bodies(Lines, 1)}

\* shorter than the magic bytes and one more
ShortFiles == {<<"#PROGRAM">>, <<"PRINT\n">>}

MCTexts ==
  ShortFiles \cup Files
  \cup {Front(f) : f \in Files} \cup {Front(f) \o <<" ">> : f \in Files}

\* files that begin with a line of the magic bytes alone
MCPrograms == {File(Magic, b) : b \in Bodies(Jumps, 2)}

=============================================================================
