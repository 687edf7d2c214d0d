--------------------------- MODULE SamplePrograms ---------------------------
(***************************************************************************)
(* The programs of src/test_programs, as lines of Machine: what PRINT says *)
(* and how long SLEEP takes is left out.                                   *)
(***************************************************************************)
EXTENDS Sequences

Line(op, dst, src, idx) == [label |-> "", op |-> op, dst |-> dst, src |-> src, idx |-> idx]
At(label, l) == [l EXCEPT !.label = label]

LOAD(x, g) == Line("LOAD", x, <<g>>, "0")
LOADAT(x, g, k) == Line("LOAD", x, <<g>>, k)
STORE(g, x) == Line("STORE", "", <<g, x>>, "0")
STOREAT(g, k, x) == Line("STORE", "", <<g, x>>, k)
DOWN(g) == Line("DOWN", "", <<g>>, "0")
UP(g) == Line("UP", "", <<g>>, "0")
SET(x, a) == Line("SET", x, <<a>>, "0")
ADD(x, a, b) == Line("ADD", x, <<a, b>>, "0")
SUB(x, a, b) == Line("SUB", x, <<a, b>>, "0")
MOD(x, a, b) == Line("MOD", x, <<a, b>>, "0")
BRA(l) == Line("BRA", l, <<>>, "0")
BREQ(a, b, l) == Line("BREQ", l, <<a, b>>, "0")
BRGT(a, b, l) == Line("BRGT", l, <<a, b>>, "0")
BRGE(a, b, l) == Line("BRGE", l, <<a, b>>, "0")
BRLE(a, b, l) == Line("BRLE", l, <<a, b>>, "0")
SAY == Line("PRINT", "", <<>>, "0")
SLEEP == Line("SLEEP", "", <<>>, "0")
RETURN == Line("RETURN", "", <<>>, "0")

-----------------------------------------------------------------------------
\* Rend1.txt
Rend1 ==
  <<SAY, UP("SEMB"), DOWN("SEMA"), SAY>>

\* Rend2.txt
Rend2 ==
  <<SAY, UP("SEMA"), DOWN("SEMB"), SAY>>

\* Barber.txt
Barber ==
  <<STORE("mtx", "1"), STORE("sleep", "0"), At("LBARBERLOOP", DOWN("mtx")),
    LOAD("tmp", "avl"), SUB("tmp", "tmp", "1"), STORE("avl", "tmp"),
    BRGE("tmp", "0", "LCUSTOMERISHERE"), SAY, UP("mtx"), DOWN("sleep"),
    DOWN("mtx"), At("LCUSTOMERISHERE", SAY), UP("mtx"), SAY, SLEEP,
    BRA("LBARBERLOOP")>>

\* mutant: the customer wakes the barber even if he does not sleep
CustomerAlwaysWakes ==
  <<DOWN("mtx"), SAY, LOAD("tmp", "avl"), ADD("tmp", "tmp", "1"),
    STORE("avl", "tmp"), SAY, UP("sleep"), UP("mtx"), RETURN>>

\* Customer.txt
Customer ==
  <<DOWN("mtx"), SAY, LOAD("tmp", "avl"), ADD("tmp", "tmp", "1"),
    STORE("avl", "tmp"), BRGT("tmp", "0", "LNOWAKEUP"), SAY, UP("sleep"),
    At("LNOWAKEUP", UP("mtx")), RETURN>>

\* Init.txt
InitPC ==
  <<BREQ("argc", "2", "LSTART"), SAY, RETURN, At("LSTART", SAY),
    STORE("in", "0"), SAY, STORE("out", "0"), SAY, STORE("mtx", "1"), SAY,
    STORE("free", "argv[1]"), SAY, STORE("full", "0"), RETURN>>

\* mutant: full is raised before the item is in the buffer
ProducerUpsEarly ==
  <<SET("item", "0"), BREQ("argc", "3", "LOOP"), SAY, RETURN,
    At("LOOP", ADD("item", "item", "1")), SAY, SLEEP, SAY, DOWN("free"), SAY,
    UP("full"), DOWN("mtx"), LOAD("k", "in"), STOREAT("buf", "k", "item"),
    ADD("k", "k", "1"), MOD("k", "k", "argv[1]"), STORE("in", "k"),
    UP("mtx"), SAY, BRA("LOOP")>>

\* mutant: the producer does not come back to the first slot
ProducerStraight ==
  <<SET("item", "0"), BREQ("argc", "3", "LOOP"), SAY, RETURN,
    At("LOOP", ADD("item", "item", "1")), SAY, SLEEP, SAY, DOWN("free"), SAY,
    DOWN("mtx"), LOAD("k", "in"), STOREAT("buf", "k", "item"),
    ADD("k", "k", "1"), STORE("in", "k"),
    UP("mtx"), SAY, UP("full"), BRA("LOOP")>>

\* Producer.txt
Producer ==
  <<SET("item", "0"), BREQ("argc", "3", "LOOP"), SAY, RETURN,
    At("LOOP", ADD("item", "item", "1")), SAY, SLEEP, SAY, DOWN("free"), SAY,
    DOWN("mtx"), LOAD("k", "in"), STOREAT("buf", "k", "item"),
    ADD("k", "k", "1"), MOD("k", "k", "argv[1]"), STORE("in", "k"),
    UP("mtx"), SAY, UP("full"), BRA("LOOP")>>

\* mutant: the item is taken before the mutex
ConsumerUnlocked ==
  <<BREQ("argc", "3", "LOOP"), SAY, RETURN, At("LOOP", SAY), DOWN("full"),
    SAY, LOAD("k", "out"), LOADAT("item", "buf", "k"), DOWN("mtx"),
    ADD("k", "k", "1"), MOD("k", "k", "argv[1]"), STORE("out", "k"),
    UP("mtx"), SAY, UP("free"), SAY, SLEEP, BRA("LOOP")>>

\* Consumer.txt
Consumer ==
  <<BREQ("argc", "3", "LOOP"), SAY, RETURN, At("LOOP", SAY), DOWN("full"),
    SAY, DOWN("mtx"), LOAD("k", "out"), LOADAT("item", "buf", "k"),
    ADD("k", "k", "1"), MOD("k", "k", "argv[1]"), STORE("out", "k"),
    UP("mtx"), SAY, UP("free"), SAY, SLEEP, BRA("LOOP")>>

\* InitRW.txt
InitRW ==
  <<STORE("mtx", "1")>>

\* Reader.txt
Reader ==
  <<DOWN("mtx"), LOAD("eax", "wrs"), LOAD("ebx", "ww"),
    ADD("eax", "ebx", "eax"), BRLE("eax", "0", "LNOWAITINQUEUE"),
    LOAD("eax", "rw"), ADD("eax", "eax", "1"), STORE("rw", "eax"), UP("mtx"),
    DOWN("rq"), LOAD("eax", "rw"), BRLE("eax", "0", "LNOWAKEUPREADER"),
    SUB("eax", "eax", "1"), STORE("rw", "eax"), LOAD("eax", "rds"),
    ADD("eax", "eax", "1"), STORE("rds", "eax"), UP("rq"), BRA("LENTERCS"),
    At("LNOWAKEUPREADER", UP("mtx")), BRA("LENTERCS"),
    At("LNOWAITINQUEUE", LOAD("eax", "rds")), ADD("eax", "eax", "1"),
    STORE("rds", "eax"), UP("mtx"), At("LENTERCS", SAY), SLEEP, DOWN("mtx"),
    LOAD("eax", "rds"), SUB("eax", "eax", "1"), STORE("rds", "eax"),
    BREQ("eax", "0", "LNOREADERSLEFT"), UP("mtx"), RETURN,
    At("LNOREADERSLEFT", LOAD("eax", "ww")),
    BRGT("eax", "0", "LWAKEUPWRITER"), UP("mtx"), RETURN,
    At("LWAKEUPWRITER", SUB("eax", "eax", "1")), STORE("ww", "eax"),
    LOAD("eax", "wrs"), ADD("eax", "eax", "1"), STORE("wrs", "eax"),
    UP("wq")>>

\* Writer.txt
Writer ==
  <<DOWN("mtx"), LOAD("eax", "rds"), LOAD("ebx", "wrs"),
    ADD("eax", "eax", "ebx"), BRLE("eax", "0", "LNOWAITINQUEUE"),
    LOAD("eax", "ww"), ADD("eax", "eax", "1"), STORE("ww", "eax"), UP("mtx"),
    DOWN("wq"), BRA("LENTERCS"), At("LNOWAITINQUEUE", LOAD("eax", "wrs")),
    ADD("eax", "eax", "1"), STORE("wrs", "eax"), UP("mtx"),
    At("LENTERCS", SAY), SLEEP, LOAD("eax", "wrs"), SUB("eax", "eax", "1"),
    STORE("wrs", "eax"), LOAD("eax", "rw"),
    BRLE("eax", "0", "LNOWAKEUPREADER"), LOAD("eax", "rw"),
    SUB("eax", "eax", "1"), STORE("rw", "eax"), LOAD("eax", "rds"),
    ADD("eax", "eax", "1"), STORE("rds", "eax"), UP("rq"), RETURN,
    At("LNOWAKEUPREADER", LOAD("eax", "ww")),
    BRLE("eax", "0", "LNOWAKEUPWRITER"), SUB("eax", "eax", "1"),
    STORE("ww", "eax"), LOAD("eax", "wrs"), ADD("eax", "eax", "1"),
    STORE("wrs", "eax"), UP("wq"), RETURN, At("LNOWAKEUPWRITER", UP("mtx"))>>

=============================================================================
