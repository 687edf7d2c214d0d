--------------------------- MODULE GlobalsProofs ---------------------------
(***************************************************************************)
(* The table of globals and its locks implement the atomic store, and the  *)
(* safety properties of Globals, for any number of programs, names,        *)
(* elements and values.                                                    *)
(***************************************************************************)
EXTENDS Globals, TLAPS

InTable == {"found", "mtx", "read", "write", "blocked", "test", "take"}

\* who holds the lock of the table, and what its search has found
TableHeld ==
  \A p \in Programs :
     /\ pc[p] \in {"find", "insert"} => tableLock = p
     /\ pc[p] = "insert" => Key(p) \notin table
     /\ pc[p] \in InTable => Key(p) \in table

\* who holds the lock of a variable, and that what was read is still there
VarHeld ==
  \A p \in Programs :
     /\ pc[p] \in {"read", "write", "test", "take"} => mtx[Key(p)] = p
     /\ pc[p] \in {"write", "take"} => seen[p] = count[Key(p)][Idx(p) + 1]
     /\ pc[p] = "take" => seen[p] > 0

\* a program in an operation has one, and one that waits is in DOWN
InOperation ==
  \A p \in Programs :
     /\ pc[p] # "idle" => op[p] \in Operations
     /\ pc[p] \in {"blocked", "test", "take"} => op[p].name = "DOWN"
     /\ pc[p] # "idle" => result[p] = 0

IInv == TypeOK /\ TableHeld /\ VarHeld /\ InOperation /\ FirstUseOnce

-----------------------------------------------------------------------------
\* What is assumed of the constants.
LEMMA OperationFields == ASSUME NEW o \in Operations
                         PROVE  o.idx \in Int /\ o.val \in Int /\ o.key \in Keys
BY GlobalsAssumption DEF Keys

LEMMA NobodyIsOther == Nobody \notin Programs /\ Nobody \notin Operations
BY GlobalsAssumption

LEMMA InitIInv == Init => IInv
<1> SUFFICES ASSUME Init PROVE IInv
  OBVIOUS
<1>1. TypeOK
  BY DEF Init, TypeOK, OnElement, PcLabel
<1> QED
  BY <1>1 DEF Init, IInv, TableHeld, VarHeld, InOperation, InTable, FirstUseOnce

\* When only one program moves, and no variable changes under it, what is
\* known of the others stays.
LEMMA LostIInv == ASSUME IInv, NEW s \in {"negative index", "moved pair", "variable reallocated"}, Lost(s)
                  PROVE  IInv'
BY DEF IInv, Lost, TypeOK, OnElement, InRange, TableHeld, VarHeld, InOperation, FirstUseOnce, Key, Idx

LEMMA CallIInv == ASSUME IInv, NEW p \in Programs, Call(p)
                  PROVE  IInv'
<1>1. PICK o \in Operations : op' = [op EXCEPT ![p] = o]
  BY DEF Call
<1>2. TypeOK'
  BY <1>1 DEF IInv, Call, At, Goto, TypeOK, OnElement, PcLabel, InRange, Key, Idx
<1>3. TableHeld' /\ VarHeld' /\ InOperation'
  BY <1>1 DEF IInv, Call, At, Goto, TypeOK, TableHeld, VarHeld, InOperation, InTable, Key, Idx
<1> QED
  BY <1>2, <1>3 DEF IInv, Call, FirstUseOnce

LEMMA LockTableIInv == ASSUME IInv, NEW p \in Programs, LockTable(p)
                       PROVE  IInv'
<1>1. TypeOK'
  BY DEF IInv, LockTable, At, Goto, TypeOK, OnElement, PcLabel, InRange, Key, Idx
<1>2. TableHeld' /\ VarHeld' /\ InOperation'
  BY NobodyIsOther DEF IInv, LockTable, At, Goto, TypeOK, TableHeld, VarHeld, InOperation, InTable, Key, Idx
<1> QED
  BY <1>1, <1>2 DEF IInv, LockTable, FirstUseOnce

LEMMA FindIInv == ASSUME IInv, NEW p \in Programs, Find(p)
                  PROVE  IInv'
<1>1. TypeOK'
  BY DEF IInv, Find, At, Goto, TypeOK, OnElement, PcLabel, InRange, Key, Idx
<1>2. TableHeld' /\ VarHeld' /\ InOperation'
  BY DEF IInv, Find, At, Goto, TypeOK, TableHeld, VarHeld, InOperation, InTable, Key, Idx
<1> QED
  BY <1>1, <1>2 DEF IInv, Find, FirstUseOnce

\* The array of a new variable ends with the element of the operation.
LEMMA NewArrayEnds == ASSUME NEW o \in Operations, o.idx >= -1
                      PROVE  /\ NewArray(o) \in Seq(Int)
                             /\ Len(NewArray(o)) = o.idx + 1
                             /\ \A j \in 1 .. o.idx + 1 :
                                  NewArray(o)[j] = IF j = o.idx + 1 THEN Initial(o) ELSE 0
<1>1. o.idx + 1 \in Nat /\ Initial(o) \in Int
  BY OperationFields DEF Initial
<1> QED
  BY <1>1 DEF NewArray

LEMMA InsertIInv == ASSUME IInv, NEW p \in Programs, Insert(p)
                    PROVE  IInv'
<1> DEFINE o == op[p]
<1>1. /\ o \in Operations /\ o.idx >= -1 /\ o.key \in Keys /\ o.key \notin table
      /\ pc[p] = "insert" /\ tableLock = p /\ status = "ok"
  BY OperationFields DEF IInv, Insert, Makes, At, InOperation, TableHeld, Key, Keys
<1>2. /\ NewArray(o) \in Seq(Int) /\ Len(NewArray(o)) = o.idx + 1
  BY <1>1, NewArrayEnds
<1>3. /\ count' = [count EXCEPT ![o.key] = NewArray(o)]
      /\ table' = table \cup {o.key} /\ tableLock' = Nobody
      /\ seen' = [seen EXCEPT ![p] = 0]
      /\ UNCHANGED <<mtx, result, status>>
  BY DEF Insert, Key, Return
<1>4. \/ /\ o.name # "DOWN"
         /\ pc' = [pc EXCEPT ![p] = "idle"] /\ op' = [op EXCEPT ![p] = Nobody]
      \/ /\ o.name = "DOWN"
         /\ pc' = [pc EXCEPT ![p] = "blocked"] /\ op' = op
  BY <1>1 DEF Insert, Return, At, Goto
<1>5. count' \in [Keys -> Seq(Int)]
  BY <1>1, <1>2, <1>3 DEF IInv, TypeOK
<1>6. \A q \in Programs : q # p => /\ pc'[q] = pc[q] /\ op'[q] = op[q] /\ seen'[q] = seen[q]
                                   /\ pc[q] \in InTable => count'[op[q].key] = count[op[q].key]
  BY <1>1, <1>3, <1>4 DEF IInv, TypeOK, TableHeld, Key
<1>7. \A q \in Programs : OnElement(q)'
  <2> SUFFICES ASSUME NEW q \in Programs
               PROVE  OnElement(q)'
    OBVIOUS
  <2>1. CASE q = p
    <3>1. pc'[p] \in {"blocked", "idle"} /\ (pc'[p] = "blocked" => op'[p] = o)
      BY <1>1, <1>4 DEF IInv, TypeOK
    <3>2. count'[o.key] = NewArray(o) /\ o.idx \in Int
      BY <1>1, <1>3, OperationFields DEF IInv, TypeOK
    <3>3. o.idx = -1 => NewArray(o) = <<>>
      BY <1>2
    <3> HIDE DEF o
    <3> QED
      BY <2>1, <3>1, <3>2, <3>3, <1>1, <1>2 DEF OnElement, InRange, Key, Idx
  <2>2. CASE q # p
    BY <2>2, <1>6 DEF IInv, TypeOK, OnElement, InRange, Key, Idx, InTable
  <2> QED
    BY <2>1, <2>2
<1>8. stale' \subseteq Programs
  BY DEF IInv, TypeOK, Insert
<1>9. TypeOK'
  <2>1. pc' \in [Programs -> PcLabel] /\ op' \in [Programs -> Operations \cup {Nobody}]
    BY <1>4 DEF IInv, TypeOK, PcLabel
  <2>2. table' \subseteq Keys /\ tableLock' \in Programs \cup {Nobody} /\ seen' \in [Programs -> Int]
    BY <1>1, <1>3 DEF IInv, TypeOK
  <2> QED
    BY <2>1, <2>2, <1>3, <1>5, <1>7, <1>8 DEF IInv, TypeOK
<1>10. TableHeld'
  BY <1>1, <1>3, <1>4, <1>6 DEF IInv, TypeOK, TableHeld, InTable, Key
<1>11. VarHeld'
  BY <1>1, <1>3, <1>4, <1>6 DEF IInv, TypeOK, VarHeld, InTable, Key, Idx
<1>12. InOperation'
  BY <1>1, <1>3, <1>4 DEF IInv, TypeOK, InOperation
<1> QED
  BY <1>9, <1>10, <1>11, <1>12, <1>1, <1>3 DEF IInv, FirstUseOnce

LEMMA InsertFailsIInv == ASSUME IInv, NEW p \in Programs, InsertFails(p)
                         PROVE  IInv'
<1>1. Lost("negative index")
  BY DEF IInv, InsertFails, At, TableHeld
<1> QED
  BY <1>1, LostIInv

LEMMA ReadPairIInv == ASSUME IInv, NEW p \in Programs, ReadPair(p)
                      PROVE  IInv'
<1>1. CASE p \notin stale
  <2>1. TypeOK'
    BY <1>1 DEF IInv, ReadPair, At, Goto, TypeOK, OnElement, PcLabel, InRange, Key, Idx
  <2>2. /\ pc[p] = "found"
        /\ UNCHANGED <<table, tableLock, count, mtx, op, seen, result>>
        /\ \A q \in Programs : pc'[q] = IF q = p THEN "mtx" ELSE pc[q]
    BY <1>1 DEF IInv, ReadPair, At, Goto, TypeOK
  <2>3. TableHeld'
    BY <2>2 DEF IInv, TableHeld, InTable, Key
  <2>4. VarHeld'
    BY <2>2 DEF IInv, VarHeld, Key, Idx
  <2>5. InOperation'
    BY <2>2 DEF IInv, InOperation
  <2> QED
    BY <1>1, <2>1, <2>3, <2>4, <2>5 DEF IInv, ReadPair, FirstUseOnce
<1>2. CASE p \in stale
  BY <1>2 DEF IInv, ReadPair, Lost, TypeOK, OnElement, InRange, TableHeld, VarHeld, InOperation,
     FirstUseOnce, Key, Idx
<1> QED
  BY <1>1, <1>2

LEMMA LockVarIInv ==
  ASSUME IInv, NEW p \in Programs,
         LockVar(p, "mtx", "read") \/ LockVar(p, "blocked", "test")
  PROVE  IInv'
<1> DEFINE k == op[p].key
<1>1. /\ op[p] \in Operations /\ k \in Keys /\ mtx[k] = Nobody /\ count[k] # <<>>
      /\ mtx' = [mtx EXCEPT ![k] = p]
      /\ UNCHANGED <<table, tableLock, count, op, stale, seen, result, status>>
  BY DEF IInv, LockVar, At, InOperation, Key, Keys
<1>2. \/ pc[p] = "mtx" /\ pc' = [pc EXCEPT ![p] = "read"]
      \/ pc[p] = "blocked" /\ pc' = [pc EXCEPT ![p] = "test"]
  BY DEF LockVar, At, Goto
<1>3. TypeOK'
  BY <1>1, <1>2 DEF IInv, TypeOK, OnElement, PcLabel, InRange, Key, Idx
<1>4. TableHeld' /\ InOperation'
  BY <1>1, <1>2 DEF IInv, TypeOK, TableHeld, InOperation, InTable, Key
<1>5. VarHeld'
  <2> SUFFICES ASSUME NEW q \in Programs
               PROVE  /\ pc'[q] \in {"read", "write", "test", "take"} => mtx'[op[q].key] = q
                      /\ pc'[q] \in {"write", "take"} => pc[q] = pc'[q]
                      /\ pc'[q] = "take" => pc[q] = pc'[q]
    BY <1>1 DEF IInv, VarHeld, Key, Idx
  <2>1. CASE q = p
    BY <2>1, <1>1, <1>2 DEF IInv, TypeOK
  <2>2. CASE q # p
    <3>1. pc'[q] = pc[q]
      BY <2>2, <1>2 DEF IInv, TypeOK
    <3>2. pc[q] \in {"read", "write", "test", "take"} => mtx[op[q].key] = q /\ op[q].key # k
      BY <1>1, NobodyIsOther DEF IInv, VarHeld, Key
    <3> HIDE DEF k
    <3> QED
      BY <3>1, <3>2, <1>1
  <2> QED
    BY <2>1, <2>2
<1> QED
  BY <1>1, <1>3, <1>4, <1>5 DEF IInv, FirstUseOnce

LEMMA LockNullIInv ==
  ASSUME IInv, NEW p \in Programs, LockNull(p, "mtx") \/ LockNull(p, "blocked")
  PROVE  IInv'
BY LostIInv DEF LockNull

\* An element that is read is an integer.
LEMMA ElementIsInt == ASSUME TypeOK, NEW p \in Programs, op[p] \in Operations, InRange(p)
                      PROVE  count[Key(p)][Idx(p) + 1] \in Int
<1>1. count[Key(p)] \in Seq(Int)
  BY DEF TypeOK, Key, Keys
<1>2. Idx(p) + 1 \in 1 .. Len(count[Key(p)])
  BY <1>1 DEF InRange, Idx
<1> QED
  BY <1>1, <1>2

LEMMA ReadElementIInv == ASSUME IInv, NEW p \in Programs, ReadElement(p)
                         PROVE  IInv'
<1>1. CASE InRange(p)
  <2>1. count[Key(p)][Idx(p) + 1] \in Int
    BY <1>1, ElementIsInt DEF IInv, InOperation, ReadElement, At
  <2>2. /\ pc[p] = "read" /\ pc' = [pc EXCEPT ![p] = "write"]
        /\ seen' = [seen EXCEPT ![p] = count[Key(p)][Idx(p) + 1]]
        /\ UNCHANGED <<table, tableLock, count, mtx, op, stale, result, status>>
    BY <1>1 DEF ReadElement, At, Goto
  <2>3. TypeOK'
    BY <1>1, <2>1, <2>2 DEF IInv, TypeOK, OnElement, PcLabel, InRange, Key, Idx
  <2>4. TableHeld' /\ InOperation'
    BY <2>2 DEF IInv, TypeOK, TableHeld, InOperation, InTable, Key
  <2>5. VarHeld'
    BY <2>2 DEF IInv, TypeOK, VarHeld, Key, Idx
  <2> QED
    BY <2>2, <2>3, <2>4, <2>5 DEF IInv, FirstUseOnce
<1>2. CASE ~InRange(p)
  <2>1. Lost("negative index") \/ Lost("variable reallocated")
    BY <1>2 DEF ReadElement
  <2> QED
    BY <2>1, LostIInv
<1> QED
  BY <1>1, <1>2

\* What SetElement, Unlock and Return leave when the holder of a variable is
\* done with it: the others still hold theirs, and every array its length.
LEMMA LeaveIInv ==
  ASSUME IInv, NEW p \in Programs, pc[p] \in {"write", "take"}, status = "ok",
         count' = count \/ (\E v \in Int : SetElement(p, v)),
         Leave(p),
         \/ UNCHANGED result
         \/ op[p].name = "LOAD" /\ \E v \in Int : result' = [result EXCEPT ![p] = v],
         UNCHANGED <<table, tableLock, stale, status>>
  PROVE  IInv'
<1> DEFINE k == op[p].key
<1>1. /\ op[p] \in Operations /\ k \in Keys /\ mtx[k] = p
      /\ op[p].idx + 1 \in 1 .. Len(count[k]) /\ count[k] \in Seq(Int)
  BY DEF IInv, TypeOK, InOperation, VarHeld, OnElement, InRange, Key, Idx, Keys
<1>2. /\ mtx' = [mtx EXCEPT ![k] = Nobody]
      /\ seen' = [seen EXCEPT ![p] = 0]
      /\ \/ pc' = [pc EXCEPT ![p] = "idle"] /\ op' = [op EXCEPT ![p] = Nobody]
         \/ pc' = [pc EXCEPT ![p] = "blocked"] /\ op' = op /\ op[p].name = "DOWN"
  BY DEF Leave, Unlock, Return, Goto, Key
<1>3. /\ count' \in [Keys -> Seq(Int)]
      /\ \A j \in Keys : Len(count'[j]) = Len(count[j]) /\ (j # k => count'[j] = count[j])
  <2>1. CASE count' = count
    BY <2>1 DEF IInv, TypeOK
  <2>2. ASSUME NEW v \in Int, SetElement(p, v)
        PROVE  /\ count' \in [Keys -> Seq(Int)]
               /\ \A j \in Keys : Len(count'[j]) = Len(count[j]) /\ (j # k => count'[j] = count[j])
    <3>1. count' = [count EXCEPT ![k] = [count[k] EXCEPT ![op[p].idx + 1] = v]]
      BY <2>2, <1>1 DEF SetElement, Key, Idx, IInv, TypeOK
    <3>2. /\ [count[k] EXCEPT ![op[p].idx + 1] = v] \in Seq(Int)
          /\ Len([count[k] EXCEPT ![op[p].idx + 1] = v]) = Len(count[k])
      BY <1>1
    <3> HIDE DEF k
    <3> QED
      BY <3>1, <3>2, <1>1 DEF IInv, TypeOK
  <2> QED
    BY <2>1, <2>2
<1>4. \A q \in Programs : q # p => /\ pc'[q] = pc[q] /\ op'[q] = op[q] /\ seen'[q] = seen[q]
                                   /\ pc[q] \in {"read", "write", "test", "take"} => op[q].key # k
  BY <1>1, <1>2 DEF IInv, TypeOK, VarHeld, Key
<1>5. \A q \in Programs : OnElement(q)'
  <2> SUFFICES ASSUME NEW q \in Programs, pc'[q] \in {"blocked", "test", "take", "write"}
               PROVE  OnElement(q)'
    BY DEF OnElement
  <2>1. op'[q] = op[q] /\ op[q] \in Operations /\ op[q].key \in Keys
    BY <1>1, <1>2, <1>4 DEF IInv, TypeOK, InOperation, Keys
  <2>2. /\ Len(count'[op[q].key]) = Len(count[op[q].key])
        /\ count[op[q].key] \in Seq(Int) /\ count'[op[q].key] \in Seq(Int)
    BY <2>1, <1>3 DEF IInv, TypeOK
  <2>3. q # p => OnElement(q) /\ pc'[q] = pc[q]
    BY <1>4 DEF IInv, TypeOK
  <2>4. q = p => pc[p] \in {"write", "take"} /\ OnElement(p)
    BY DEF IInv, TypeOK
  <2> QED
    BY <2>1, <2>2, <2>3, <2>4 DEF OnElement, InRange, Key, Idx
<1>6. TypeOK'
  <2>0. result' \in [Programs -> Int]
    BY DEF IInv, TypeOK
  <2>1. pc' \in [Programs -> PcLabel] /\ op' \in [Programs -> Operations \cup {Nobody}]
    <3>1. pc \in [Programs -> PcLabel] /\ op \in [Programs -> Operations \cup {Nobody}]
      BY DEF IInv, TypeOK
    <3> HIDE DEF k
    <3> QED
      BY <3>1, <1>2 DEF PcLabel
  <2>2. mtx' \in [Keys -> Programs \cup {Nobody}] /\ seen' \in [Programs -> Int]
    <3>1. mtx \in [Keys -> Programs \cup {Nobody}] /\ seen \in [Programs -> Int]
      BY DEF IInv, TypeOK
    <3>2. mtx' = [mtx EXCEPT ![k] = Nobody] /\ seen' = [seen EXCEPT ![p] = 0] /\ k \in Keys
      BY <1>1, <1>2
    <3> HIDE DEF k
    <3> QED
      BY <3>1, <3>2
  <2> QED
    BY <2>0, <2>1, <2>2, <1>3, <1>5 DEF IInv, TypeOK
<1>7. TableHeld' /\ InOperation'
  <2>1. \A q \in Programs : pc'[q] # "idle" =>
           /\ op'[q] = op[q] /\ pc[q] # "idle"
           /\ result'[q] = result[q]
           /\ pc'[q] # "blocked" => pc'[q] = pc[q]
           /\ pc'[q] \in InTable => pc[q] \in InTable
           /\ pc'[q] \in {"blocked", "test", "take"} =>
                pc[q] \in {"blocked", "test", "take"} \/ op[q].name = "DOWN"
    BY <1>1, <1>2 DEF IInv, TypeOK, InTable
  <2> QED
    BY <2>1 DEF IInv, TableHeld, InOperation, InTable, Key
<1>8. VarHeld'
  <2> SUFFICES ASSUME NEW q \in Programs, pc'[q] \in {"read", "write", "test", "take"}
               PROVE  /\ q # p /\ mtx'[op'[q].key] = mtx[op[q].key]
                      /\ count'[op'[q].key] = count[op[q].key]
    BY <1>4 DEF IInv, VarHeld, Key, Idx
  <2>1. q # p
    BY <1>2 DEF IInv, TypeOK
  <2>2. op[q].key \in Keys /\ op[q].key # k /\ op'[q] = op[q]
    BY <2>1, <1>4 DEF IInv, InOperation, Keys
  <2> HIDE DEF k
  <2> QED
    BY <2>1, <2>2, <1>2, <1>3 DEF IInv, TypeOK
<1> QED
  BY <1>6, <1>7, <1>8 DEF IInv, FirstUseOnce

LEMMA WriteElementIInv == ASSUME IInv, NEW p \in Programs, WriteElement(p)
                          PROVE  IInv'
<1>1. pc[p] = "write" /\ op[p] \in Operations /\ status = "ok"
  BY DEF IInv, WriteElement, At, InOperation
<1>2. seen[p] \in Int /\ op[p].val \in Int
  BY <1>1, OperationFields DEF IInv, TypeOK
<1>3. count' = count \/ \E v \in Int : SetElement(p, v)
  BY <1>2 DEF WriteElement
<1>4. \/ UNCHANGED result
      \/ op[p].name = "LOAD" /\ \E v \in Int : result' = [result EXCEPT ![p] = v]
  BY <1>2 DEF WriteElement
<1> QED
  BY <1>1, <1>3, <1>4, LeaveIInv DEF WriteElement

LEMMA TestTokenIInv == ASSUME IInv, NEW p \in Programs, TestToken(p)
                       PROVE  IInv'
<1> DEFINE k == op[p].key
<1>1. /\ pc[p] = "test" /\ op[p] \in Operations /\ k \in Keys /\ mtx[k] = p /\ InRange(p)
      /\ count[k][op[p].idx + 1] \in Int
  BY ElementIsInt DEF IInv, TypeOK, TestToken, At, InOperation, VarHeld, OnElement, Key, Idx, Keys
<1>2. UNCHANGED <<table, tableLock, count, op, stale, result, status>>
  BY DEF TestToken
<1>3. \/ /\ pc' = [pc EXCEPT ![p] = "blocked"] /\ mtx' = [mtx EXCEPT ![k] = Nobody]
         /\ UNCHANGED seen
      \/ /\ pc' = [pc EXCEPT ![p] = "take"] /\ UNCHANGED mtx
         /\ seen' = [seen EXCEPT ![p] = count[k][op[p].idx + 1]]
         /\ count[k][op[p].idx + 1] > 0
  BY DEF TestToken, Unlock, Goto, Key, Idx
<1>4. TypeOK'
  BY <1>1, <1>2, <1>3 DEF IInv, TypeOK, OnElement, PcLabel, InRange, Key, Idx
<1>5. TableHeld' /\ InOperation'
  BY <1>1, <1>2, <1>3 DEF IInv, TypeOK, TableHeld, InOperation, InTable, Key
<1>6. VarHeld'
  <2> SUFFICES ASSUME NEW q \in Programs
               PROVE  /\ pc'[q] \in {"read", "write", "test", "take"} => mtx'[op[q].key] = q
                      /\ pc'[q] \in {"write", "take"} => seen'[q] = count[op[q].key][op[q].idx + 1]
                      /\ pc'[q] = "take" => seen'[q] > 0
    BY <1>2 DEF VarHeld, Key, Idx
  <2>1. CASE q = p
    BY <2>1, <1>1, <1>2, <1>3 DEF IInv, TypeOK
  <2>2. CASE q # p
    <3>1. pc'[q] = pc[q] /\ seen'[q] = seen[q]
      BY <2>2, <1>3 DEF IInv, TypeOK
    <3>2. pc[q] \in {"read", "write", "test", "take"} => mtx[op[q].key] = q /\ op[q].key \in Keys
      BY DEF IInv, VarHeld, InOperation, Key, Keys
    <3>3. pc[q] \in {"read", "write", "test", "take"} => mtx'[op[q].key] = q
      <4> HIDE DEF k
      <4> QED
        BY <2>2, <3>2, <1>1, <1>3 DEF IInv, TypeOK
    <3> QED
      BY <3>1, <3>3 DEF IInv, VarHeld, Key, Idx
  <2> QED
    BY <2>1, <2>2
<1> QED
  BY <1>2, <1>4, <1>5, <1>6 DEF IInv, FirstUseOnce

LEMMA TakeTokenIInv == ASSUME IInv, NEW p \in Programs, TakeToken(p)
                       PROVE  IInv'
<1>1. pc[p] = "take" /\ status = "ok" /\ seen[p] - 1 \in Int
  BY DEF IInv, TypeOK, TakeToken, At
<1>2. SetElement(p, seen[p] - 1) /\ UNCHANGED result
  BY DEF TakeToken
<1> QED
  BY <1>1, <1>2, LeaveIInv DEF TakeToken

\* The steps of a program keep the invariant.
LEMMA NextIInv == ASSUME IInv, [Next]_vars
                  PROVE  IInv'
<1>1. CASE UNCHANGED vars
  BY <1>1 DEF vars, IInv, TypeOK, OnElement, InRange, TableHeld, VarHeld, InOperation, FirstUseOnce,
     Key, Idx
<1>2. CASE Ended
  BY <1>1, <1>2 DEF Ended
<1>3. ASSUME NEW p \in Programs, Call(p) \/ Step(p)
      PROVE  IInv'
  BY <1>3, CallIInv, LockTableIInv, FindIInv, InsertIInv, InsertFailsIInv, ReadPairIInv,
     LockVarIInv, LockNullIInv, ReadElementIInv, WriteElementIInv, TestTokenIInv, TakeTokenIInv
     DEF Step
<1> QED
  BY <1>1, <1>2, <1>3 DEF Next

\* Who holds which lock, and what each program knows of the table and of its
\* element, in every reachable state.
THEOREM GlobalsInvariant == Spec => []IInv
BY InitIInv, NextIInv, PTL DEF Spec

\* Every variable keeps its type, and a program that waits for a token or
\* writes an element does so within the array.
THEOREM GlobalsTypeCorrect == Spec => []TypeOK
BY GlobalsInvariant, PTL DEF IInv

\* No name is ever inserted twice.
THEOREM FirstUseIsOnce == Spec => []FirstUseOnce
BY GlobalsInvariant, PTL DEF IInv

-----------------------------------------------------------------------------
(***************************************************************************)
(* Every step is one of the store, or none of its steps.                   *)
(***************************************************************************)
LEMMA StoreInit == Init => Store!Init
<1> SUFFICES ASSUME Init PROVE Store!Init
  OBVIOUS
<1>1. value = [e \in Store!Elements |-> 0]
  BY DEF Init, value, Element, Store!Elements, Store!ElementOf
<1>2. pending = [p \in Programs |-> Nobody] /\ waiting = [p \in Programs |-> Nobody]
  BY DEF Init, pending, waiting
<1> QED
  BY <1>1, <1>2 DEF Init, Store!Init

\* What the mapping makes of the programs when one of them moves.
LEMMA MappedIdle ==
  ASSUME TypeOK, NEW p \in Programs,
         pc' = [pc EXCEPT ![p] = "idle"], op' = [op EXCEPT ![p] = Nobody]
  PROVE  /\ pending' = [pending EXCEPT ![p] = Nobody]
         /\ waiting' = [waiting EXCEPT ![p] = Nobody]
BY DEF TypeOK, pending, waiting, Key, Idx

LEMMA MappedCall ==
  ASSUME TypeOK, NEW p \in Programs, NEW o \in Operations,
         pc' = [pc EXCEPT ![p] = "lock"], op' = [op EXCEPT ![p] = o]
  PROVE  /\ pending' = [pending EXCEPT ![p] = o]
         /\ waiting' = [waiting EXCEPT ![p] = Nobody]
BY DEF TypeOK, pending, waiting, Key, Idx

LEMMA MappedStep ==
  ASSUME TypeOK, NEW p \in Programs, NEW l, pc' = [pc EXCEPT ![p] = l], op' = op
  PROVE  /\ pending' = [pending EXCEPT ![p] = IF l \in {"idle", "blocked", "test", "take"}
                                              THEN Nobody ELSE op[p]]
         /\ waiting' = [waiting EXCEPT ![p] = IF l \in {"blocked", "test", "take"}
                                              THEN <<op[p].key, op[p].idx>> ELSE Nobody]
BY DEF TypeOK, pending, waiting, Key, Idx

\* What a write of one element makes of the values.
LEMMA MappedWrite ==
  ASSUME IInv, NEW p \in Programs, op[p] \in Operations, InRange(p), Key(p) \in table,
         NEW v \in Int, SetElement(p, v), table' = table
  PROVE  value' = [value EXCEPT ![Store!ElementOf(op[p])] = v]
<1> DEFINE k == op[p].key
           i == op[p].idx
<1>1. /\ k \in Keys /\ count[k] \in Seq(Int) /\ i \in 0 .. Len(count[k]) - 1 /\ i \in Int
      /\ count' = [count EXCEPT ![k] = [count[k] EXCEPT ![i + 1] = v]] /\ k \in table
      /\ count \in [Keys -> Seq(Int)] /\ table \subseteq Keys
  BY OperationFields DEF IInv, TypeOK, OnElement, InRange, SetElement, Key, Idx
<1> DEFINE c == [count[k] EXCEPT ![i + 1] = v]
<1>2. Len(c) = Len(count[k]) /\ \A j \in 1 .. Len(count[k]) : c[j] = IF j = i + 1 THEN v ELSE count[k][j]
  BY <1>1
<1>3. count'[k] = c /\ \A j \in Keys : j # k => count'[j] = count[j]
  BY <1>1
<1>4. ASSUME NEW o \in Operations
      PROVE  Element(o.key, o.idx)' = IF o.key = k /\ o.idx = i THEN v
                                      ELSE Element(o.key, o.idx)
  <2>1. o.key \in Keys /\ o.idx \in Int
    BY OperationFields
  <2>2. CASE o.key # k
    BY <2>1, <2>2, <1>3 DEF Element
  <2>3. CASE o.key = k
    <3> HIDE DEF c, k, i
    <3>1. ASSUME o.idx \in 0 .. Len(count[k]) - 1
          PROVE  c[o.idx + 1] = IF o.idx = i THEN v ELSE count[k][o.idx + 1]
      <4>1. /\ o.idx + 1 \in 1 .. Len(count[k])
            /\ o.idx + 1 = i + 1 <=> o.idx = i
        <5>1. Len(count[k]) \in Nat /\ i \in Int
          BY <1>1
        <5> QED
          BY <2>1, <3>1, <5>1
      <4> QED
        BY <4>1, <1>2
    <3> QED
      BY <3>1, <2>1, <2>3, <1>1, <1>2, <1>3 DEF Element
  <2> QED
    BY <2>2, <2>3
<1>5. \A e \in {<<o.key, o.idx>> : o \in Operations} :
         Element(e[1], e[2])' = IF e = <<k, i>> THEN v ELSE Element(e[1], e[2])
  <2> SUFFICES ASSUME NEW o \in Operations
               PROVE  Element(o.key, o.idx)' = IF <<o.key, o.idx>> = <<k, i>> THEN v
                                               ELSE Element(o.key, o.idx)
    OBVIOUS
  <2> QED
    BY <1>4
<1> QED
  BY <1>5 DEF value, Store!ElementOf

\* A step from one label to another that the mapping does not tell apart.
MovesWithin(p) ==
  \E l \in PcLabel : /\ pc' = [pc EXCEPT ![p] = l] /\ l # "idle" /\ pc[p] # "idle"
                     /\ pc[p] \in {"blocked", "test", "take"}
                          <=> l \in {"blocked", "test", "take"}

\* A step that leaves arrays, names and results alone, and moves its program
\* within the same part of the mapping, is no step of the store.
LEMMA Stutter ==
  ASSUME TypeOK, NEW p \in Programs, UNCHANGED <<table, count, op, result>>, MovesWithin(p)
  PROVE  UNCHANGED Store!store
<1>1. value' = value
  BY DEF value, Element
<1>2. PICK l \in PcLabel :
         /\ pc' = [pc EXCEPT ![p] = l] /\ l # "idle" /\ pc[p] # "idle"
         /\ pc[p] \in {"blocked", "test", "take"} <=> l \in {"blocked", "test", "take"}
  BY DEF MovesWithin
<1>3. \A q \in Programs :
         /\ pc'[q] = "idle" <=> pc[q] = "idle"
         /\ pc'[q] \in {"blocked", "test", "take"} <=> pc[q] \in {"blocked", "test", "take"}
  BY <1>2 DEF TypeOK
<1>4. pending' = pending
  BY <1>3 DEF pending
<1>5. waiting' = waiting
  BY <1>3 DEF waiting, Key, Idx
<1> QED
  BY <1>1, <1>4, <1>5 DEF Store!store

\* The mapped programs when p leaves its operation, as Return has it.
LEMMA MappedReturn ==
  ASSUME TypeOK, NEW p \in Programs, op[p] \in Operations,
         pc[p] \in {"insert", "write"}, Return(p)
  PROVE  /\ pending[p] = op[p]
         /\ pending' = [pending EXCEPT ![p] = Nobody]
         /\ waiting' = IF op[p].name = "DOWN"
                       THEN [waiting EXCEPT ![p] = Store!ElementOf(op[p])] ELSE waiting
<1>1. pending[p] = op[p] /\ waiting[p] = Nobody
  BY DEF pending, waiting
<1>2. CASE op[p].name = "DOWN"
  <2>1. pc' = [pc EXCEPT ![p] = "blocked"] /\ op' = op
    BY <1>2 DEF Return, At, Goto
  <2> QED
    BY <2>1, <1>1, <1>2, MappedStep DEF Store!ElementOf
<1>3. CASE op[p].name # "DOWN"
  <2>1. pc' = [pc EXCEPT ![p] = "idle"] /\ op' = [op EXCEPT ![p] = Nobody]
    BY <1>3 DEF Return, At, Goto
  <2>2. /\ pending' = [pending EXCEPT ![p] = Nobody]
        /\ waiting' = [waiting EXCEPT ![p] = Nobody]
    BY <2>1, MappedIdle
  <2>3. waiting' = waiting
    BY <1>1, <2>2 DEF waiting
  <2> QED
    BY <1>1, <1>3, <2>2, <2>3
<1> QED
  BY <1>2, <1>3

LEMMA WritePerforms == ASSUME IInv, NEW p \in Programs, WriteElement(p)
                       PROVE  Store!Perform(p)
<1> DEFINE o == op[p]
           e == Store!ElementOf(o)
<1>1. /\ TypeOK /\ o \in Operations /\ pc[p] = "write" /\ InRange(p) /\ Key(p) \in table
      /\ o \in Operations \cup {Nobody} /\ o # Nobody
      /\ seen[p] \in Int /\ o.val \in Int /\ e \in Store!Elements
  BY OperationFields, NobodyIsOther
     DEF IInv, TypeOK, OnElement, InOperation, TableHeld, InTable, WriteElement, At, Store!Elements
<1>2. value[e] = seen[p]
  <2>1. seen[p] = Element(o.key, o.idx)
    BY <1>1 DEF IInv, VarHeld, Element, InRange, Key, Idx
  <2> QED
    BY <2>1, <1>1 DEF value, Store!ElementOf, Store!Elements
<1>3. /\ pending[p] = o /\ pending' = [pending EXCEPT ![p] = Nobody]
      /\ waiting' = IF o.name = "DOWN" THEN [waiting EXCEPT ![p] = e] ELSE waiting
  BY <1>1, MappedReturn DEF WriteElement, Leave
<1>4. CASE o.name = "UP" /\ SetElement(p, seen[p] + 1) /\ UNCHANGED result
  <2>1. value' = [value EXCEPT ![e] = seen[p] + 1]
    BY <1>1, <1>4, MappedWrite DEF WriteElement
  <2> QED
    BY <2>1, <1>1, <1>2, <1>3, <1>4 DEF Store!Perform, Store!Effect
<1>5. CASE o.name = "STORE" /\ SetElement(p, o.val) /\ UNCHANGED result
  <2>1. value' = [value EXCEPT ![e] = o.val]
    BY <1>1, <1>5, MappedWrite DEF WriteElement
  <2> QED
    BY <2>1, <1>1, <1>3, <1>5 DEF Store!Perform, Store!Effect
<1>6. CASE o.name = "LOAD" /\ result' = [result EXCEPT ![p] = seen[p]] /\ UNCHANGED count
  <2>1. value' = value
    BY <1>6 DEF WriteElement, value, Element
  <2> QED
    BY <2>1, <1>1, <1>2, <1>3, <1>6 DEF Store!Perform, Store!Effect
<1>7. CASE o.name = "DOWN" /\ UNCHANGED <<count, result>>
  <2>1. value' = value
    BY <1>7 DEF WriteElement, value, Element
  <2>2. waiting' = [waiting EXCEPT ![p] = <<o.key, o.idx>>]
    BY <1>3, <1>7 DEF Store!ElementOf
  <2> QED
    BY <2>1, <2>2, <1>1, <1>3, <1>7 DEF Store!Perform, Store!Effect, Store!ElementOf
<1> QED
  BY <1>4, <1>5, <1>6, <1>7 DEF WriteElement

LEMMA InsertPerforms == ASSUME IInv, NEW p \in Programs, Insert(p)
                        PROVE  Store!Perform(p)
<1> DEFINE o == op[p]
           e == Store!ElementOf(o)
<1>1. /\ TypeOK /\ o \in Operations /\ pc[p] = "insert" /\ o.key \notin table /\ o.idx >= -1
      /\ o.val \in Int /\ (o.idx = -1 => Initial(o) = 0)
      /\ o.key \in Keys /\ o # Nobody /\ e \in Store!Elements /\ o.idx \in Int
  BY OperationFields, NobodyIsOther
     DEF IInv, InOperation, TableHeld, InTable, Insert, Makes, Initial, At, Key, Store!Elements
<1>2. value[e] = 0
  BY <1>1 DEF value, Element, Store!ElementOf, Store!Elements
<1>3. /\ pending[p] = o /\ pending' = [pending EXCEPT ![p] = Nobody]
      /\ waiting' = IF o.name = "DOWN" THEN [waiting EXCEPT ![p] = e] ELSE waiting
  BY <1>1, MappedReturn DEF Insert
<1>4. value' = [value EXCEPT ![e] = Initial(o)]
  <2>1. /\ count' = [count EXCEPT ![o.key] = NewArray(o)] /\ table' = table \cup {o.key}
        /\ count \in [Keys -> Seq(Int)]
    BY <1>1 DEF Insert, Key, TypeOK
  <2>2. ASSUME NEW x \in Operations
        PROVE  Element(x.key, x.idx)' = IF x.key = o.key /\ x.idx = o.idx THEN Initial(o)
                                        ELSE Element(x.key, x.idx)
    <3>1. x.key \in Keys /\ x.idx \in Int
      BY OperationFields
    <3>2. CASE x.key # o.key
      BY <3>1, <3>2, <2>1 DEF Element
    <3>3. CASE x.key = o.key
      <4>1. /\ Len(NewArray(o)) = o.idx + 1
            /\ \A j \in 1 .. o.idx + 1 : NewArray(o)[j] = IF j = o.idx + 1 THEN Initial(o) ELSE 0
        BY <1>1, NewArrayEnds
      <4>2. count'[x.key] = NewArray(o) /\ x.key \in table' /\ x.key \notin table
        BY <1>1, <2>1, <3>3
      <4>3. x.idx \in 0 .. o.idx => x.idx + 1 \in 1 .. o.idx + 1 /\ (x.idx + 1 = o.idx + 1 <=> x.idx = o.idx)
        BY <1>1, <3>1
      <4> HIDE DEF o
      <4> QED
        BY <4>1, <4>2, <4>3, <1>1, <3>1, <3>3 DEF Element
    <3> QED
      BY <3>2, <3>3
  <2>3. \A y \in {<<x.key, x.idx>> : x \in Operations} :
           Element(y[1], y[2])' = IF y = <<o.key, o.idx>> THEN Initial(o) ELSE Element(y[1], y[2])
    <3> SUFFICES ASSUME NEW x \in Operations
                 PROVE  Element(x.key, x.idx)' = IF <<x.key, x.idx>> = <<o.key, o.idx>>
                                                 THEN Initial(o) ELSE Element(x.key, x.idx)
      OBVIOUS
    <3> QED
      BY <2>2
  <2> QED
    BY <2>3 DEF value, Store!ElementOf
<1>5. result' = result /\ o.name \in {"LOAD", "STORE", "UP", "DOWN"}
  BY <1>1, GlobalsAssumption DEF Insert
<1>6. CASE o.name = "UP"
  <2>1. value' = [value EXCEPT ![e] = value[e] + 1]
    BY <1>2, <1>4, <1>6 DEF Initial
  <2> QED
    BY <2>1, <1>1, <1>3, <1>5, <1>6 DEF Store!Perform, Store!Effect
<1>7. CASE o.name = "STORE"
  BY <1>1, <1>3, <1>4, <1>5, <1>7 DEF Initial, Store!Perform, Store!Effect
<1>8. CASE o.name = "LOAD"
  <2>1. value' = value
    BY <1>2, <1>4, <1>8 DEF Initial, value
  <2>2. result[p] = 0
    BY <1>1 DEF IInv, InOperation
  <2>3. result' = [result EXCEPT ![p] = value[e]]
    BY <2>2, <1>1, <1>2, <1>5 DEF TypeOK
  <2> QED
    BY <2>1, <2>3, <1>1, <1>3, <1>8 DEF Store!Perform, Store!Effect
<1>9. CASE o.name = "DOWN"
  <2>1. value' = value
    BY <1>2, <1>4, <1>9 DEF Initial, value
  <2> QED
    BY <2>1, <1>1, <1>3, <1>5, <1>9 DEF Store!Perform, Store!Effect
<1> QED
  BY <1>5, <1>6, <1>7, <1>8, <1>9

LEMMA TakeTakes == ASSUME IInv, NEW p \in Programs, TakeToken(p)
                   PROVE  Store!Take(p)
<1> DEFINE o == op[p]
           e == Store!ElementOf(o)
<1>1. /\ TypeOK /\ o \in Operations /\ pc[p] = "take" /\ InRange(p) /\ Key(p) \in table
      /\ seen[p] \in Int /\ seen[p] > 0 /\ e \in Store!Elements
  BY DEF IInv, TypeOK, OnElement, InOperation, TableHeld, VarHeld, InTable, TakeToken, At,
     Store!Elements
<1>2. value[e] = seen[p]
  <2>1. seen[p] = Element(o.key, o.idx)
    BY <1>1 DEF IInv, VarHeld, Element, InRange, Key, Idx
  <2> QED
    BY <2>1, <1>1 DEF value, Store!ElementOf, Store!Elements
<1>3. waiting[p] = e /\ e # Nobody /\ pending[p] = Nobody
  <2>1. waiting[p] = e /\ pending[p] = Nobody
    BY <1>1 DEF waiting, pending, Key, Idx, Store!ElementOf
  <2> QED
    BY <2>1, <1>1, GlobalsAssumption DEF Store!ElementOf
<1>4. value' = [value EXCEPT ![e] = seen[p] - 1]
  BY <1>1, MappedWrite DEF TakeToken
<1>5. pc' = [pc EXCEPT ![p] = "idle"] /\ op' = [op EXCEPT ![p] = Nobody] /\ result' = result
  BY DEF TakeToken, Leave, Return, Goto, At
<1>6. pending' = [pending EXCEPT ![p] = Nobody] /\ waiting' = [waiting EXCEPT ![p] = Nobody]
  BY <1>1, <1>5, MappedIdle
<1>7. pending' = pending
  BY <1>3, <1>6 DEF pending
<1> QED
  BY <1>1, <1>2, <1>3, <1>4, <1>5, <1>6, <1>7 DEF Store!Take

LEMMA StepRefines == ASSUME IInv, [Next]_vars
                     PROVE  [Store!Next]_(Store!store)
<1>1. ASSUME UNCHANGED <<table, count, pc, op, result>>
      PROVE  UNCHANGED Store!store
  BY <1>1 DEF Store!store, value, Element, pending, waiting, Key, Idx
<1>2. ASSUME NEW p \in Programs, Call(p)
      PROVE  Store!Call(p)
  <2>1. PICK o \in Operations : op' = [op EXCEPT ![p] = o]
    BY <1>2 DEF Call
  <2>2. /\ pc[p] = "idle" /\ pc' = [pc EXCEPT ![p] = "lock"]
        /\ result' = [result EXCEPT ![p] = 0] /\ UNCHANGED <<table, count>>
    BY <1>2 DEF Call, At, Goto
  <2>3. value' = value
    BY <2>2 DEF value, Element
  <2>4. pending[p] = Nobody /\ waiting[p] = Nobody
    BY <2>2 DEF pending, waiting
  <2>5. pending' = [pending EXCEPT ![p] = o] /\ waiting' = [waiting EXCEPT ![p] = Nobody]
    <3>1. TypeOK
      BY DEF IInv
    <3> QED
      BY <3>1, <2>1, <2>2, MappedCall
  <2>6. waiting' = waiting
    BY <2>4, <2>5 DEF waiting
  <2> QED
    BY <2>2, <2>3, <2>4, <2>5, <2>6 DEF Store!Call
<1>3. ASSUME NEW p \in Programs, LockTable(p) \/ Find(p) \/ InsertFails(p) \/ ReadPair(p)
                                 \/ LockVar(p, "mtx", "read") \/ LockVar(p, "blocked", "test")
                                 \/ LockNull(p, "mtx") \/ LockNull(p, "blocked")
                                 \/ ReadElement(p) \/ TestToken(p)
      PROVE  UNCHANGED Store!store
  <2>1. CASE UNCHANGED <<table, count, pc, op, result>>
    BY <2>1, <1>1
  <2>2. CASE ~ UNCHANGED <<table, count, pc, op, result>>
    <3>1. UNCHANGED <<table, count, op, result>>
      BY <1>3, <2>2 DEF LockTable, Find, InsertFails, ReadPair, LockVar, LockNull,
         ReadElement,
         TestToken, Lost
    <3>2. MovesWithin(p)
      BY <1>3, <2>2 DEF LockTable, Find, InsertFails, ReadPair, LockVar, LockNull,
         ReadElement,
         TestToken, At, Goto, Lost, PcLabel, MovesWithin
    <3>3. TypeOK
      BY DEF IInv
    <3> QED
      BY <3>1, <3>2, <3>3, Stutter
  <2> QED
    BY <2>1, <2>2
<1>4. ASSUME NEW p \in Programs, Insert(p)
      PROVE  Store!Perform(p)
  BY <1>4, InsertPerforms
<1>5. ASSUME NEW p \in Programs, WriteElement(p)
      PROVE  Store!Perform(p)
  BY <1>5, WritePerforms
<1>6. ASSUME NEW p \in Programs, TakeToken(p)
      PROVE  Store!Take(p)
  BY <1>6, TakeTakes
<1>7. CASE UNCHANGED vars
  BY <1>1, <1>7 DEF vars
<1>8. CASE Ended
  BY <1>7, <1>8 DEF Ended
<1>9. ASSUME NEW p \in Programs, Step(p)
      PROVE  [Store!Next]_(Store!store)
  BY <1>3, <1>4, <1>5, <1>6, <1>9 DEF Step, Store!Next
<1> QED
  BY <1>2, <1>7, <1>8, <1>9 DEF Next, Store!Next

\* The table of globals, its lock and the lock of each variable implement the
\* atomic store.
THEOREM GlobalsImplementStore == Spec => ImplementsStore
BY StoreInit, GlobalsInvariant, StepRefines, PTL DEF Spec, ImplementsStore, Store!Spec

=============================================================================
