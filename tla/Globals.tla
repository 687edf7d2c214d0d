------------------------------ MODULE Globals ------------------------------
(***************************************************************************)
(* The global variables of src/global.c: one table of names under          *)
(* global_table_lock, and in each variable an array of counts under the    *)
(* variable's own mtx.  Every operation looks its name up under the table  *)
(* lock; when it is there it lets the lock go, follows the pair it has     *)
(* found to the variable and works under mtx; when it is not it makes the  *)
(* variable with the operation already done and inserts it, under the      *)
(* table lock still.                                                       *)
(***************************************************************************)
EXTENDS Integers, Sequences, FiniteSets

CONSTANTS
  Programs,     \* programs of different runtime threads
  Operations,   \* what they call: records [name, key, idx, val]
  MaxCount,     \* bound: no UP begins on an element that has reached it
  Nobody        \* no holder of a lock, no operation

Keys == {o.key : o \in Operations}

ASSUME GlobalsAssumption ==
  /\ \A o \in Operations :
        o.name \in {"LOAD", "STORE", "UP", "DOWN"} /\ o.idx \in Int /\ o.val \in Int
  /\ MaxCount \in Int
  /\ Nobody \notin Programs /\ Nobody \notin Operations
  /\ Nobody \notin {<<o.key, o.idx>> : o \in Operations}

VARIABLES
  table,        \* the names in global_table
  tableLock,    \* who holds global_table_lock
  count,        \* count[k]: the array of variable k, its length is len; the
                \* array of no element is the variable NULL
  mtx,          \* who holds the mtx of variable k
  pc,           \* where each program is
  op,           \* the operation it is in
  stale,        \* the programs whose pair was found before the table moved
  seen,         \* the element it has read under mtx
  result,       \* *val, for LOAD
  status        \* "ok", or how the process was lost

vars == <<table, tableLock, count, mtx, pc, op, stale, seen, result, status>>

Init ==
  /\ table = {} /\ tableLock = Nobody
  /\ count = [k \in Keys |-> <<>>]
  /\ mtx = [k \in Keys |-> Nobody]
  /\ pc = [p \in Programs |-> "idle"]
  /\ op = [p \in Programs |-> Nobody]
  /\ stale = {}
  /\ seen = [p \in Programs |-> 0]
  /\ result = [p \in Programs |-> 0]
  /\ status = "ok"

At(p, l) == pc[p] = l /\ status = "ok"
Goto(p, l) == pc' = [pc EXCEPT ![p] = l]
Key(p) == op[p].key
Idx(p) == op[p].idx

\* element i of variable k; what is not there counts as 0
Element(k, i) == IF k \in table /\ i \in 0 .. Len(count[k]) - 1
                 THEN count[k][i + 1] ELSE 0

\* where an operation leaves its program: DOWN in state BLOCKED, with
\* blocked_idx and sem
Return(p) ==
  /\ seen' = [seen EXCEPT ![p] = 0]
  /\ IF At(p, "take") \/ op[p].name # "DOWN"
     THEN Goto(p, "idle") /\ op' = [op EXCEPT ![p] = Nobody]
     ELSE Goto(p, "blocked") /\ UNCHANGED op

\* the process is lost with all its programs, or anything may follow
Lost(s) ==
  /\ status' = s
  /\ UNCHANGED <<table, tableLock, count, mtx, pc, op, stale, seen, result>>

-----------------------------------------------------------------------------
(***************************************************************************)
(* global_var_load, _store, _up and _down: finding the variable.           *)
(***************************************************************************)
Call(p) ==
  /\ At(p, "idle")
  /\ \E o \in Operations :
        /\ o.name = "UP" => Element(o.key, o.idx) < MaxCount
        /\ op' = [op EXCEPT ![p] = o]
  /\ result' = [result EXCEPT ![p] = 0]
  /\ Goto(p, "lock")
  /\ UNCHANGED <<table, tableLock, count, mtx, stale, seen, status>>

LockTable(p) ==
  /\ At(p, "lock") /\ tableLock = Nobody
  /\ tableLock' = p
  /\ Goto(p, "find")
  /\ UNCHANGED <<table, count, mtx, op, stale, seen, result, status>>

\* mutant: the lock is let go in any case
FindUnlocks(p) ==
  /\ At(p, "find")
  /\ tableLock' = Nobody
  /\ Goto(p, IF Key(p) \in table THEN "found" ELSE "insert")
  /\ UNCHANGED <<table, count, mtx, op, stale, seen, result, status>>

\* QuadHash_find, and pthread_mutex_unlock only when it is there
Find(p) ==
  /\ At(p, "find")
  /\ \/ Key(p) \in table /\ tableLock' = Nobody /\ Goto(p, "found")
     \/ Key(p) \notin table /\ Goto(p, "insert") /\ UNCHANGED tableLock
  /\ UNCHANGED <<table, count, mtx, op, stale, seen, result, status>>

\* what the operation leaves in its element of a new variable
Initial(o) == IF o.name = "UP" THEN 1 ELSE IF o.name = "STORE" THEN o.val ELSE 0

\* mutant: the array is one too short, and the last element is cut off
NewArrayShort(o) == [j \in 1 .. o.idx |-> 0]

\* global_var_init(idx + 1)
NewArray(o) == [j \in 1 .. o.idx + 1 |-> IF j = o.idx + 1 THEN Initial(o) ELSE 0]

\* global_var_init(0) is NULL: LOAD and DOWN insert it as it is, UP and STORE
\* write to its element
Makes(o) == o.idx >= 0 \/ (o.idx = -1 /\ o.name \in {"LOAD", "DOWN"})

\* global_var_init and QuadHash_insert, which may move the whole table
Insert(p) ==
  /\ At(p, "insert") /\ Key(p) \notin table /\ Makes(op[p])
  /\ count' = [count EXCEPT ![Key(p)] = NewArray(op[p])]
  /\ stale' \in {stale, {q \in Programs : pc[q] = "found"}}
  /\ table' = table \cup {Key(p)}
  /\ tableLock' = Nobody
  /\ Return(p)
  /\ UNCHANGED <<mtx, result, status>>

\* VDS ends the process when the key exists; the element of NULL is written,
\* or calloc refuses the size that an index below -1 gives
InsertFails(p) ==
  /\ At(p, "insert")
  /\ \/ Key(p) \in table /\ Lost("exited")
     \/ Key(p) \notin table /\ ~Makes(op[p]) /\ Lost("negative index")

\* var = pair->pData, read after the table lock was let go
ReadPair(p) ==
  /\ At(p, "found")
  /\ \/ /\ p \notin stale
        /\ Goto(p, "mtx")
        /\ UNCHANGED <<table, tableLock, count, mtx, op, stale, seen, result, status>>
     \/ p \in stale /\ Lost("moved pair")

-----------------------------------------------------------------------------
(***************************************************************************)
(* Working on the variable, under mtx.                                     *)
(***************************************************************************)
InRange(p) == Idx(p) \in 0 .. Len(count[Key(p)]) - 1

\* mutant: without the lock
LockVarUnlocked(p, from, to) ==
  /\ At(p, from) /\ count[Key(p)] # <<>>
  /\ Goto(p, to)
  /\ UNCHANGED <<table, tableLock, count, mtx, op, stale, seen, result, status>>

LockVar(p, from, to) ==
  /\ At(p, from) /\ count[Key(p)] # <<>> /\ mtx[Key(p)] = Nobody
  /\ mtx' = [mtx EXCEPT ![Key(p)] = p]
  /\ Goto(p, to)
  /\ UNCHANGED <<table, tableLock, count, op, stale, seen, result, status>>

\* the mtx of the variable NULL, of the operation or of the DOWN before it
LockNull(p, from) == At(p, from) /\ count[Key(p)] = <<>> /\ Lost("negative index")

\* var->count = realloc(var, ...) of an index beyond the length: the variable
\* itself is moved, and its array becomes what was its structure
ReadElement(p) ==
  /\ At(p, "read")
  /\ \/ /\ InRange(p)
        /\ seen' = [seen EXCEPT ![p] = count[Key(p)][Idx(p) + 1]]
        /\ Goto(p, "write")
        /\ UNCHANGED <<table, tableLock, count, mtx, op, stale, result, status>>
     \/ ~InRange(p) /\ Idx(p) < 0 /\ Lost("negative index")
     \/ ~InRange(p) /\ Idx(p) >= 0 /\ Lost("variable reallocated")

Unlock(p) == mtx' = [mtx EXCEPT ![Key(p)] = Nobody]
SetElement(p, v) ==
  count' = [count EXCEPT ![Key(p)] = [@ EXCEPT ![Idx(p) + 1] = v]]

\* mutant: DOWN waits for its token inside the instruction
LeaveWaiting(p) ==
  /\ Unlock(p)
  /\ IF op[p].name = "DOWN" /\ seen[p] <= 0
     THEN Goto(p, "mtx") /\ UNCHANGED <<op, seen>>
     ELSE Return(p)

Leave(p) == Unlock(p) /\ Return(p)

\* the operation itself, and unlock
WriteElement(p) ==
  /\ At(p, "write")
  /\ \/ op[p].name = "UP" /\ SetElement(p, seen[p] + 1) /\ UNCHANGED result
     \/ op[p].name = "STORE" /\ SetElement(p, op[p].val) /\ UNCHANGED result
     \/ op[p].name = "LOAD" /\ result' = [result EXCEPT ![p] = seen[p]] /\ UNCHANGED count
     \/ op[p].name = "DOWN" /\ UNCHANGED <<count, result>>
  /\ Leave(p)
  /\ UNCHANGED <<table, tableLock, stale, status>>

(***************************************************************************)
(* program_state_blocked, in every turn of a program that waits.  The      *)
(* timed wait in the middle lets mtx go and takes it again; it looks like  *)
(* one more turn.                                                          *)
(***************************************************************************)
TestToken(p) ==
  /\ At(p, "test")
  /\ \/ /\ count[Key(p)][Idx(p) + 1] <= 0
        /\ Unlock(p)
        /\ Goto(p, "blocked") /\ UNCHANGED seen
     \/ /\ count[Key(p)][Idx(p) + 1] > 0
        /\ seen' = [seen EXCEPT ![p] = count[Key(p)][Idx(p) + 1]]
        /\ Goto(p, "take") /\ UNCHANGED mtx
  /\ UNCHANGED <<table, tableLock, count, op, stale, result, status>>

TakeToken(p) ==
  /\ At(p, "take")
  /\ SetElement(p, seen[p] - 1)
  /\ Leave(p)
  /\ UNCHANGED <<table, tableLock, stale, result, status>>

-----------------------------------------------------------------------------
Step(p) ==
  \/ LockTable(p) \/ Find(p) \/ Insert(p) \/ InsertFails(p) \/ ReadPair(p)
  \/ LockVar(p, "mtx", "read") \/ LockNull(p, "mtx")
  \/ ReadElement(p) \/ WriteElement(p)
  \/ LockVar(p, "blocked", "test") \/ LockNull(p, "blocked")
  \/ TestToken(p) \/ TakeToken(p)

Ended == status # "ok" /\ UNCHANGED vars

Next == Ended \/ \E p \in Programs : Call(p) \/ Step(p)

Spec == Init /\ [][Next]_vars

\* every thread is scheduled, and gets the locks that are free again and again
FairSpec == Spec /\ \A p \in Programs : SF_vars(Step(p))

-----------------------------------------------------------------------------
PcLabel == {"idle", "lock", "find", "insert", "found", "mtx", "read", "write",
            "blocked", "test", "take"}

\* a program that works or waits does so on an element that is there, or on
\* the variable NULL, which an index of -1 has made
OnElement(p) ==
  /\ pc[p] \in {"test", "take", "write"} => InRange(p)
  /\ pc[p] = "blocked" => InRange(p) \/ (Idx(p) = -1 /\ count[Key(p)] = <<>>)

TypeOK ==
  /\ table \subseteq Keys
  /\ tableLock \in Programs \cup {Nobody}
  /\ count \in [Keys -> Seq(Int)]
  /\ mtx \in [Keys -> Programs \cup {Nobody}]
  /\ pc \in [Programs -> PcLabel]
  /\ op \in [Programs -> Operations \cup {Nobody}]
  /\ stale \subseteq Programs
  /\ seen \in [Programs -> Int]
  /\ result \in [Programs -> Int]
  /\ status \in {"ok", "exited", "negative index", "moved pair", "variable reallocated"}
  /\ \A p \in Programs : OnElement(p)

\* Two programs that use a global first at the same time make it once: no
\* name is inserted a second time, which would end the process, because the
\* table lock is held from the search to the insertion.
FirstUseOnce == status # "exited"

\* Every operation ends, and so does every turn of a program that waits for a
\* token: no lock is kept on any way out, and nobody holds one lock while
\* asking for another.
CallEnds ==
  \A p \in Programs :
     pc[p] \notin {"idle", "blocked"} ~> (pc[p] \in {"idle", "blocked"} \/ status # "ok")

(***************************************************************************)
(* The refinement mapping: an operation is performed by the write under    *)
(* mtx, or by the insertion of a variable with the operation done.         *)
(***************************************************************************)
value   == [e \in {<<o.key, o.idx>> : o \in Operations} |-> Element(e[1], e[2])]
pending == [p \in Programs |->
              IF pc[p] \in {"idle", "blocked", "test", "take"} THEN Nobody ELSE op[p]]
waiting == [p \in Programs |->
              IF pc[p] \in {"blocked", "test", "take"} THEN <<Key(p), Idx(p)>> ELSE Nobody]

Store == INSTANCE GlobalStore WITH Idle <- Nobody

\* The table, its lock and the lock of each variable implement the atomic
\* store, also when two programs use a global first at the same time.
ImplementsStore == Store!Spec

-----------------------------------------------------------------------------
\* README.md has globals "that all programs can read and write to, sort of
\* like a RAM": no operation with an index that is not negative moves the
\* variable itself.
GlobalsGrow == status # "variable reallocated"

=============================================================================
