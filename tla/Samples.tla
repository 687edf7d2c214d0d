------------------------------ MODULE Samples ------------------------------
(***************************************************************************)
(* What the sample programs are for (README.md: the rendezvous, the        *)
(* producer/consumer, the sleeping barber and the reader/writer problem).  *)
(***************************************************************************)
EXTENDS Machine, SamplePrograms

\* the sample programs find their variables, literals and globals
ASSUME NamesAssumption ==
  /\ {"tmp", "eax", "ebx", "item", "k", "argv[1]"} \subseteq Locals
  /\ {"0", "1"} \subseteq DOMAIN Literals /\ Literals["0"] = 0 /\ Literals["1"] = 1
  /\ {"SEMA", "SEMB", "mtx", "sleep", "avl", "wrs", "ww", "rds", "rw", "rq", "wq",
       "in", "out", "free", "full", "buf"} \subseteq Keys
  /\ 0 \in Indices

Plays(s, t) == {p \in Programs : TextOf(s, p) = t}
Once(s, t) == \A p, q \in Plays(s, t) : p = q

\* a program that uses none of these globals
LeavesAlone(t, keys) == \A n \in DOMAIN t : t[n].op \in OnGlobals => t[n].src[1] \notin keys

Among(s, texts, keys) ==
  \A p \in Programs : TextOf(s, p) \in texts \/ LeavesAlone(TextOf(s, p), keys)

\* the samples are executed as README.md says: two that meet, one barber and
\* any customers, readers and writers that are prepared once; other programs
\* do not use their globals
ASSUME CastAssumption ==
  \A s \in Scenarios :
    /\ Plays(s, Rend1) # {} /\ Plays(s, Rend2) # {} =>
         Once(s, Rend1) /\ Once(s, Rend2) /\ Among(s, {Rend1, Rend2}, {"SEMA", "SEMB"})
    /\ Plays(s, Barber) # {} =>
         Once(s, Barber) /\ Among(s, {Barber, Customer}, {"mtx", "sleep", "avl"})
    /\ Plays(s, Writer) # {} =>
         /\ Once(s, InitRW)
         /\ Among(s, {InitRW, Reader, Writer}, {"mtx", "wrs", "ww", "rds", "rw", "rq", "wq"})
         /\ \A p \in Programs : TextOf(s, p) \in {Reader, Writer} \/
               \A n \in DOMAIN TextOf(s, p) : TextOf(s, p)[n].op # "SLEEP"

\* the buffer: Init.txt has ended when the one producer and any consumers
\* start, and all of them are given the same size, which the buffer has
ASSUME BufferAssumption ==
  \A s \in Scenarios : Plays(s, Consumer) # {} =>
    /\ Once(s, Producer) /\ Plays(s, InitPC) \subseteq First(s)
    /\ Among(s, {InitPC, Producer, Consumer}, {"in", "out", "mtx", "free", "full", "buf"})
    /\ \E last \in Indices \cap Nat :
         /\ 0 .. last \subseteq Indices
         /\ \A p \in Plays(s, InitPC) \cup Plays(s, Producer) \cup Plays(s, Consumer) :
              /\ "argv[1]" \in DOMAIN Given(s, p) /\ Given(s, p)["argv[1]"] = last + 1
              /\ "item" \notin DOMAIN Given(s, p)

\* every program names globals that are there, and only the buffer is used
\* with an index, by a producer that has a consumer
ASSUME IndexAssumption ==
  \A s \in Scenarios, p \in Programs :
    LET t == TextOf(s, p)
        uses == {n \in DOMAIN t : t[n].op \in OnGlobals} IN
    /\ \A n \in uses : t[n].src[1] \in Keys
    /\ \/ \A n \in uses : t[n].idx = "0"
       \/ t \in {Producer, Consumer} /\ Plays(s, Consumer) # {}

Executing(p, t) == Text(p) = t
Users(t) == {p \in Programs : Executing(p, t)}
Passed(p, n) == line[p] = 0 \/ line[p] > n
Free(g) == value[<<g, 0>>] = 1

\* "Statement a2 shouldn't print before" b1, nor b2 before a1: the last line
\* of Rend1 and of Rend2 is executed after the first of the other.
Rendezvous ==
  \A p \in Users(Rend1), q \in Users(Rend2) :
    /\ Passed(p, 4) => Passed(q, 1)
    /\ Passed(q, 4) => Passed(p, 1)

\* As long as the process is not lost every item is consumed once and in the
\* order it was produced in: a consumer gets an item later than its last one
\* and no other consumer's, the next one if it is the only consumer.
InOrder(p) ==
  LET item == vartable[p]["item"]
      next == vartable'[p]["item"] IN
  next # item =>
    /\ next > item
    /\ \A q \in Users(Consumer) \ {p} : next # vartable[q]["item"]
    /\ Users(Consumer) = {p} => next = item + 1

ItemsInOrder == [][\A p \in Users(Consumer) : InOrder(p)]_vars

\* The process is lost only where the producer stores the first item behind
\* the buffer there is: STORE of the first item makes it one element long, and
\* no later one can make it longer.  A buffer of one, or one that was made as
\* long as the programs are told, is never outgrown, and no consumer reads
\* behind it; of the other globals the samples use only the first element.
LostBehindTheBuffer ==
  lost => \E p \in Users(Producer) :
            /\ vartable[p]["item"] = extent["buf"] + 1
            /\ extent["buf"] < vartable[p]["argv[1]"]

\* The barber sleeps only when every customer that has left the critical
\* section was counted off: $avl is then -1 and nobody is owed a wakeup.
BarberSleepsAlone ==
  \A p \in Users(Barber) :
    /\ value[<<"sleep", 0>>] > 0 => waiting[p] = <<"sleep", 0>> \/ (Runs(p) /\ Here(p) = DOWN("sleep"))
    /\ waiting[p] = <<"sleep", 0>> /\ ~(value[<<"sleep", 0>>] > 0) /\ Free("mtx")
         => value[<<"avl", 0>>] = -1

\* A writer in the critical section is there alone, which holds as long as
\* there is only one writer: Writer.txt ends without $mtx and yet raises it.
WritersExclude ==
  \A p \in Users(Writer), q \in Programs :
    Runs(p) /\ Here(p) = SLEEP /\ Runs(q) /\ Here(q) = SLEEP => p = q

TooShort == \E p \in Users(Producer) : extent["buf"] < vartable[p]["argv[1]"]

\* In the end everybody was served: the rendezvous is over, the barber has
\* counted off every customer and sleeps, the one writer has left, and every
\* item was consumed, unless the buffer is too short for the items: then the
\* process is lost, whatever the schedule.  A reader may wait in its queue for
\* ever: Writer.txt looks for waiting readers without $mtx, and goes.
EverybodyServed ==
  <>[]/\ \A p \in Users(Rend1) \cup Users(Rend2) \cup Users(Customer) : line[p] = 0
      /\ \A p \in Users(Barber) : waiting[p] = <<"sleep", 0>> /\ value[<<"avl", 0>>] = -1
      /\ \A p \in Users(Writer) : line[p] = 0
      /\ \A p \in Users(Reader) : line[p] = 0 \/ waiting[p] = <<"rq", 0>>
      /\ Users(Consumer) # {} =>
           IF TooShort THEN lost
           ELSE \E p \in Users(Consumer) : vartable[p]["item"] = MaxValue

=============================================================================
