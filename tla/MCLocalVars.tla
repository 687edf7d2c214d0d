---------------------------- MODULE MCLocalVars ----------------------------
(***************************************************************************)
(* LocalVars with an array a, a variable i and integers from -4 to 3.      *)
(***************************************************************************)
EXTENDS LocalVars

Val(v) == [type |-> "INT_VAL", value |-> v]
Var(n) == [type |-> "INT_VAR", name |-> n]
Arr(n, idx) == [type |-> "INT_ARR", name |-> n, idx |-> idx]

Plain == {Val(v) : v \in {0, 1, 2}} \cup {Var("i"), Var("argc")}
Indexed == {Arr("a", t) : t \in {Val(0), Val(1), Val(2), Var("i")}}
Nested == {Arr("a", Arr("a", Val(1))), Arr("a", Arr("argv", Var("i"))),
           Arr("a", Arr("i", Val(1))), Arr("argv", Var("i"))}

MCOperands == Plain \cup Indexed \cup Nested
              \cup {Arr("a", Var("a")), Var("a"), Arr("i", Val(1))}

Set(d, s) == [op |-> "SET", args |-> <<s>>, dst |-> d]
PrintOf(s) == [op |-> "PRINT", args |-> <<s>>]

MCInstructions ==
  {Set(Arr("a", Var("i")), Var("i")), Set(Var("i"), Arr("a", Val(1))),
   Set(Var("argc"), Val(1)), Set(Var("a"), Val(2)), Set(Arr("a", Val(2)), Val(1)),
   Set(Arr("argv", Var("i")), Val(1)),
   [op |-> "LOAD", args |-> <<>>, dst |-> Var("i")],
   [op |-> "ADD", args |-> <<Var("i"), Val(1)>>, dst |-> Var("i")],
   [op |-> "DIV", args |-> <<Var("argc"), Var("i")>>, dst |-> Arr("a", Val(0))],
   [op |-> "BRANCH", args |-> <<Var("i"), Val(1)>>, label |-> "a"],
   [op |-> "BRANCH", args |-> <<>>, label |-> "i"]}
  \cup {PrintOf(t) : t \in Nested \cup {Arr("a", Var("a")), Arr("a", Val(0))}}

MCNames   == {"a", "i"}
MCOffsets == {10, 20}
MCLoaded  == {-2, -1, 2, 3}
MCArgv    == <<1>>
MCIntMin  == -4
=============================================================================
