----------------------------- MODULE MCSamples -----------------------------
(***************************************************************************)
(* The sample programs in the combinations the README names: rendezvous,   *)
(* barber with three customers, one producer and one or two consumers,     *)
(* writers and readers.  The buffer has two slots and was made before, or  *)
(* one slot, or two of which the first item makes only one.                *)
(***************************************************************************)
EXTENDS Samples, TLC

CONSTANTS p1, p2, p3, p4

Assigned == p1 :> 1 @@ p2 :> 2 @@ p3 :> 3 @@ p4 :> 4

Cast ==
  [rendezvous |-> <<Rend1, Rend2, <<>>, <<>>>>,
   barber     |-> <<Barber, Customer, Customer, Customer>>,
   buffer     |-> <<InitPC, Producer, Consumer, <<>>>>,
   consumers  |-> <<InitPC, Producer, Consumer, Consumer>>,
   slot       |-> <<InitPC, Producer, Consumer, Consumer>>,
   short      |-> <<InitPC, Producer, Consumer, Consumer>>,
   writer     |-> <<InitRW, Writer, Reader, Reader>>,
   writers    |-> <<InitRW, Writer, Writer, Reader>>]

MCTextOf(s, p) == Cast[s][Assigned[p]]

MCGiven(s, p) ==
  [argc |-> IF p = p1 THEN 2 ELSE 3] @@ ("argv[1]" :> IF s = "slot" THEN 1 ELSE 2)

MCFirst(s) == IF s \in {"rendezvous", "barber"} THEN {} ELSE {p1}

MCMade(s) ==
  [k \in Keys |-> IF k = "buf" /\ s \in {"buffer", "consumers"} THEN 2 ELSE 0]

MCLocals == {"tmp", "item", "k", "eax", "ebx", "argc", "argv[1]"}
MCLiterals == "0" :> 0 @@ "1" :> 1 @@ "2" :> 2 @@ "3" :> 3
MCKeys == {"SEMA", "SEMB", "mtx", "sleep", "avl", "in", "out", "free", "full", "buf",
           "wrs", "ww", "rds", "rw", "rq", "wq"}
=============================================================================
