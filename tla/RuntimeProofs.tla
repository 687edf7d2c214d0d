--------------------------- MODULE RuntimeProofs ---------------------------
(***************************************************************************)
(* For any number of runtime threads, programs and semaphores: the threads *)
(* and the shell only work on programs that are listed and alive, and no   *)
(* wakeup is lost.                                                         *)
(***************************************************************************)
EXTENDS RuntimeProperties, TLAPS

-----------------------------------------------------------------------------
(***************************************************************************)
(* The circular list.                                                      *)
(***************************************************************************)
LEMMA RangeOfList ==
  ASSUME NEW l \in Seq(Prog), NEW p
  PROVE  p \in Range(l) <=> \E k \in 1 .. Len(l) : l[k] = p
BY DEF Range

LEMMA IndexOfListed ==
  ASSUME NEW l \in Seq(Prog), NEW p \in Range(l)
  PROVE  IndexOf(l, p) \in 1 .. Len(l) /\ l[IndexOf(l, p)] = p /\ Len(l) > 0
<1>1. \E k \in DOMAIN l : l[k] = p
  BY DEF Range
<1>2. IndexOf(l, p) \in DOMAIN l /\ l[IndexOf(l, p)] = p
  BY <1>1 DEF IndexOf
<1> QED
  BY <1>2

\* The successor of a node is on the list.
LEMMA NextNodeListed ==
  ASSUME NEW l \in Seq(Prog), NEW p \in Range(l)
  PROVE  NextNode(l, p) \in Range(l) /\ NextNode(l, p) \in Prog
<1> DEFINE k == (IndexOf(l, p) % Len(l)) + 1
<1>1. IndexOf(l, p) \in Nat /\ Len(l) \in Nat \ {0}
  BY IndexOfListed
<1>2. k \in 1 .. Len(l)
  BY <1>1
<1>3. l[k] \in Prog
  BY <1>2
<1> QED
  BY <1>2, <1>3, RangeOfList DEF NextNode

\* What two parts of a list make, joined.
LEMMA JoinList ==
  ASSUME NEW S, NEW a \in Seq(S), NEW b \in Seq(S)
  PROVE  /\ a \o b \in Seq(S) /\ Len(a \o b) = Len(a) + Len(b)
         /\ \A k \in 1 .. Len(a) + Len(b) :
               (a \o b)[k] = IF k <= Len(a) THEN a[k] ELSE b[k - Len(a)]
OBVIOUS

\* A part of a list.
LEMMA PartOfList ==
  ASSUME NEW S, NEW l \in Seq(S), NEW m \in 1 .. Len(l) + 1, NEW n \in 0 .. Len(l),
         m <= n + 1
  PROVE  /\ SubSeq(l, m, n) \in Seq(S) /\ Len(SubSeq(l, m, n)) = n - m + 1
         /\ \A k \in 1 .. n - m + 1 : SubSeq(l, m, n)[k] = l[m + k - 1]
OBVIOUS

\* Removing an element: those before it stay, those after it move down by one.
LEMMA RemoveAtList ==
  ASSUME NEW S, NEW l \in Seq(S), NEW i \in 1 .. Len(l)
  PROVE  /\ RemoveAt(l, i) \in Seq(S) /\ Len(RemoveAt(l, i)) = Len(l) - 1
         /\ \A k \in 1 .. Len(l) - 1 :
               RemoveAt(l, i)[k] = IF k < i THEN l[k] ELSE l[k + 1]
<1> DEFINE a == SubSeq(l, 1, i - 1)
           b == SubSeq(l, i + 1, Len(l))
           n == Len(l)
<1>1. n \in Nat /\ i \in 1 .. n
  OBVIOUS
<1>2. /\ a \in Seq(S) /\ Len(a) = i - 1
      /\ \A k \in 1 .. i - 1 : a[k] = l[k]
  BY <1>1, PartOfList
<1>3. /\ b \in Seq(S) /\ Len(b) = n - i
      /\ \A k \in 1 .. n - i : b[k] = l[k + i]
  BY <1>1, PartOfList
<1>4. RemoveAt(l, i) = a \o b
  BY DEF RemoveAt
<1> HIDE DEF a, b, n
<1>5. a \o b \in Seq(S) /\ Len(a \o b) = n - 1
  <2>1. a \o b \in Seq(S) /\ Len(a \o b) = Len(a) + Len(b)
    BY <1>2, <1>3, JoinList
  <2>2. (i - 1) + (n - i) = n - 1
    BY <1>1
  <2> QED
    BY <1>2, <1>3, <2>1, <2>2
<1>6. ASSUME NEW k \in 1 .. n - 1
      PROVE  (a \o b)[k] = IF k < i THEN l[k] ELSE l[k + 1]
  <2>1. (a \o b)[k] = IF k < i THEN a[k] ELSE b[k - (i - 1)]
    BY <1>1, <1>2, <1>3, JoinList
  <2>2. k < i => a[k] = l[k]
    BY <1>1, <1>2
  <2>3. ~(k < i) => k - (i - 1) \in 1 .. n - i /\ (k - (i - 1)) + i = k + 1
    BY <1>1
  <2>4. ~(k < i) => b[k - (i - 1)] = l[k + 1]
    BY <1>3, <2>3
  <2> QED
    BY <2>1, <2>2, <2>4
<1> QED
  BY <1>4, <1>5, <1>6 DEF n

\* Deleting a node of a list without duplicates takes exactly it away.
LEMMA DeleteNodeList ==
  ASSUME NEW l \in Seq(Prog), IsInjective(l), NEW p \in Range(l)
  PROVE  /\ DeleteNode(l, p) \in Seq(Prog)
         /\ Len(DeleteNode(l, p)) = Len(l) - 1
         /\ IsInjective(DeleteNode(l, p))
         /\ Range(DeleteNode(l, p)) = Range(l) \ {p}
<1> DEFINE i == IndexOf(l, p)
           d == DeleteNode(l, p)
<1>1. i \in 1 .. Len(l) /\ l[i] = p /\ Len(l) \in Nat
  BY IndexOfListed
<1>2. d = RemoveAt(l, i)
  BY DEF DeleteNode
<1>3. d \in Seq(Prog) /\ Len(d) = Len(l) - 1
  BY <1>1, <1>2, RemoveAtList
<1>4. \A k \in 1 .. Len(d) : d[k] = IF k < i THEN l[k] ELSE l[k + 1]
  BY <1>1, <1>2, <1>3, RemoveAtList
<1>5. \A a, b \in 1 .. Len(l) : l[a] = l[b] => a = b
  BY DEF IsInjective
<1>6. \A a, b \in 1 .. Len(d) : d[a] = d[b] => a = b
  <2> SUFFICES ASSUME NEW a \in 1 .. Len(d), NEW b \in 1 .. Len(d), d[a] = d[b]
               PROVE  a = b
    OBVIOUS
  <2> DEFINE f(k) == IF k < i THEN k ELSE k + 1
  <2>1. f(a) \in 1 .. Len(l) /\ f(b) \in 1 .. Len(l)
    BY <1>1, <1>3
  <2>2. d[a] = l[f(a)] /\ d[b] = l[f(b)]
    BY <1>4
  <2>3. f(a) = f(b)
    BY <1>5, <2>1, <2>2
  <2> QED
    BY <1>1, <1>3, <2>3
<1>7. IsInjective(d)
  BY <1>3, <1>6 DEF IsInjective
<1>8. ASSUME NEW q \in Range(d) PROVE q \in Range(l) \ {p}
  <2>1. PICK k \in 1 .. Len(d) : d[k] = q
    BY <1>3, <1>8, RangeOfList
  <2>2. CASE k < i
    BY <1>1, <1>3, <1>4, <1>5, <2>1, <2>2, RangeOfList
  <2>3. CASE ~(k < i)
    BY <1>1, <1>3, <1>4, <1>5, <2>1, <2>3, RangeOfList
  <2> QED
    BY <2>2, <2>3
<1>9. ASSUME NEW q \in Range(l) \ {p} PROVE q \in Range(d)
  <2>1. PICK k \in 1 .. Len(l) : l[k] = q
    BY <1>9, RangeOfList
  <2>2. CASE k < i
    <3>1. k \in 1 .. Len(d) /\ d[k] = q
      BY <1>1, <1>3, <1>4, <2>1, <2>2
    <3> QED
      BY <1>3, <3>1, RangeOfList
  <2>3. CASE k > i
    <3>1. k - 1 \in 1 .. Len(d) /\ d[k - 1] = q
      BY <1>1, <1>3, <1>4, <2>1, <2>3
    <3> QED
      BY <1>3, <3>1, RangeOfList
  <2>4. k # i
    BY <1>1, <1>9, <2>1
  <2> QED
    BY <1>1, <2>2, <2>3, <2>4
<1> QED
  BY <1>3, <1>7, <1>8, <1>9

\* Appending a new node adds exactly it.
LEMMA AppendList ==
  ASSUME NEW l \in Seq(Prog), IsInjective(l), NEW p \in Prog, p \notin Range(l)
  PROVE  /\ Append(l, p) \in Seq(Prog)
         /\ Len(Append(l, p)) = Len(l) + 1
         /\ IsInjective(Append(l, p))
         /\ Range(Append(l, p)) = Range(l) \cup {p}
<1> DEFINE a == Append(l, p)
<1>1. a \in Seq(Prog) /\ Len(a) = Len(l) + 1 /\ Len(l) \in Nat
  OBVIOUS
<1>2. \A k \in 1 .. Len(a) : a[k] = IF k <= Len(l) THEN l[k] ELSE p
  BY <1>1
<1>3. \A k \in 1 .. Len(l) : l[k] # p
  BY RangeOfList
<1>4. IsInjective(a)
  BY <1>1, <1>2, <1>3 DEF IsInjective
<1>5. ASSUME NEW q \in Range(a) PROVE q \in Range(l) \cup {p}
  <2>1. PICK k \in 1 .. Len(a) : a[k] = q
    BY <1>1, RangeOfList
  <2>2. CASE k <= Len(l)
    <3>1. k \in 1 .. Len(l) /\ l[k] = q
      BY <1>1, <1>2, <2>1, <2>2
    <3> QED
      BY <3>1, RangeOfList
  <2>3. CASE ~(k <= Len(l))
    BY <1>2, <2>1, <2>3
  <2> QED
    BY <2>2, <2>3
<1>6. ASSUME NEW q \in Range(l) \cup {p} PROVE q \in Range(a)
  <2>1. CASE q = p
    <3>1. Len(a) \in 1 .. Len(a) /\ a[Len(a)] = p
      BY <1>1, <1>2
    <3> QED
      BY <1>1, <2>1, <3>1, RangeOfList
  <2>2. CASE q \in Range(l)
    <3>1. PICK k \in 1 .. Len(l) : l[k] = q
      BY <2>2, RangeOfList
    <3>2. k \in 1 .. Len(a) /\ a[k] = q
      BY <1>1, <1>2, <3>1
    <3> QED
      BY <1>1, <3>2, RangeOfList
  <2>3. q \in Range(l) \/ q = p
    OBVIOUS
  <2> QED
    BY <2>1, <2>2, <2>3
<1> QED
  BY <1>1, <1>4, <1>5, <1>6

-----------------------------------------------------------------------------
(***************************************************************************)
(* The inductive invariant.                                                *)
(***************************************************************************)
\* who holds rt->lock
LockInv ==
  \A r \in Rt : /\ lock[r] = "thread" <=> pc[r] \in {"test", "wait"}
                /\ lock[r] = "shell" <=> sh.at \in KillLabel /\ sh.i = r

\* the lists hold the programs that are alive; once a thread is done its
\* counter is no longer kept
ListInv ==
  /\ \A r \in Rt : IsInjective(program_list[r])
  /\ \A r1, r2 \in Rt : r1 # r2 => Listed(r1) \cap Listed(r2) = {}
  /\ \A p \in Prog : state[p] \in ProgState <=> \E r \in Rt : p \in Listed(r)
  /\ \A r \in Rt : pc[r] # "done" => program_cnt[r] = Len(program_list[r])

\* the places of a thread inside global_var_up, global_var_store and
\* global_var_down: it has the element named by the instruction
GlobalPc == {"up", "store", "down", "downblock", "downsem"}

ThreadInv ==
  \A r \in Rt : /\ pc[r] \in TurnPc => curr[r] \in Listed(r)
                /\ pc[r] = "endwrite" => seen[r] \in ProgState
                /\ pc[r] \in GlobalPc => arg[r] \in Sems
                /\ pc[r] = "done" => ~running[r]

ShellInv ==
  /\ sh.at = "run" => id_cnt \in Prog
  /\ sh.at \in KillLabel => sh.i \in Rt /\ sh.prog \in Listed(sh.i)
  /\ sh.at \in {"signal", "join"} => sh.i \in Rt /\ ~running[sh.i]
  /\ \A p \in Prog : p >= id_cnt => state[p] = "UNBORN"

IInv == TypeOK /\ LockInv /\ ListInv /\ ThreadInv /\ ShellInv /\ NoLostWakeup

-----------------------------------------------------------------------------
(***************************************************************************)
(* The steps of a thread.  A step inside a turn touches the thread's own   *)
(* place, the program at its cursor and the semaphores, nothing else.      *)
(***************************************************************************)
\* the part of the type invariant a step inside a turn may touch
TurnTypes ==
  /\ error_flag \in [Prog -> BOOLEAN]
  /\ sem \in [Prog -> Globals \cup {Uninit}]
  /\ blocked_idx \in [Prog -> Nat \cup {Uninit}]
  /\ count \in [Sems -> Int]
  /\ mtx \in [Globals -> Rt \cup {NoRt}]
  /\ seen \in [Rt -> ProgState \cup {"none"}]
  /\ arg \in [Rt -> Sems \cup {Uninit}]
  /\ crashed \in BOOLEAN

LEMMA TurnPcLabels ==
  /\ TurnPc \subseteq PcLabel
  /\ TurnPc \cap {"test", "wait", "waiting", "done"} = {}
BY DEF TurnPc, PcLabel

LEMMA TurnStep ==
  ASSUME IInv, NEW r \in Rt, pc[r] \in TurnPc, NEW l \in TurnPc,
         pc' = [pc EXCEPT ![r] = l],
         UNCHANGED <<rtVars, sh, id_cnt>>,
         state' = state \/ \E s \in ProgState : state' = [state EXCEPT ![curr[r]] = s],
         TurnTypes',
         l = "endwrite" => seen'[r] \in ProgState,
         l \in GlobalPc => arg'[r] \in Sems,
         \A t \in Rt \ {r} : seen'[t] = seen[t] /\ arg'[t] = arg[t]
  PROVE  IInv'
<1> USE DEF IInv
<1>1. UNCHANGED <<running, program_list, curr, program_cnt, lock, sh, id_cnt>>
  BY DEF rtVars
<1>2. curr[r] \in Listed(r) /\ curr[r] \in Prog /\ state[curr[r]] \in ProgState
  BY DEF ThreadInv, ListInv, TypeOK, Listed, Range
<1>3. \A p \in Prog : \/ state'[p] = state[p]
                      \/ p = curr[r] /\ state'[p] \in ProgState
  BY <1>2 DEF TypeOK
<1>4. \A t \in Rt : pc'[t] = IF t = r THEN l ELSE pc[t]
  BY DEF TypeOK
<1>5. TypeOK'
  <2>1. state' \in [Prog -> ProgState \cup {"UNBORN", "FREED"}]
    BY <1>2 DEF TypeOK
  <2>2. pc' \in [Rt -> PcLabel]
    BY TurnPcLabels DEF TypeOK
  <2> QED
    BY <1>1, <2>1, <2>2 DEF TypeOK, TurnTypes
<1>6. LockInv'
  BY <1>1, <1>4, TurnPcLabels DEF LockInv
<1>7. ListInv'
  <2>1. \A p \in Prog : state'[p] \in ProgState <=> state[p] \in ProgState
    BY <1>2, <1>3
  <2> QED
    BY <1>1, <1>4, <2>1, TurnPcLabels DEF ListInv, Listed
<1>8. ThreadInv'
  BY <1>1, <1>2, <1>4, TurnPcLabels DEF ThreadInv, Listed
<1>9. ShellInv'
  <2>1. \A p \in Prog : p >= id_cnt => state'[p] = "UNBORN"
    BY <1>2, <1>3 DEF ShellInv, ProgState
  <2> QED
    BY <1>1, <2>1 DEF ShellInv, Listed
<1>10. NoLostWakeup'
  BY <1>1, <1>4, TurnPcLabels DEF NoLostWakeup, ShellAt
<1> QED
  BY <1>5, <1>6, <1>7, <1>8, <1>9, <1>10

LEMMA ChangeCount ==
  ASSUME TurnTypes, NEW s, NEW v, s \in Sems => v \in Int,
         count' = [count EXCEPT ![s] = v]
  PROVE  count' \in [Sems -> Int]
<1>1. CASE s \in Sems
  BY <1>1 DEF TurnTypes
<1>2. CASE s \notin Sems
  BY <1>2 DEF TurnTypes
<1> QED
  BY <1>1, <1>2

\* The steps of the do-while, of Sleep and of program_state_blocked, and the
\* test at the end, are of that kind.
LEMMA InTurn ==
  ASSUME IInv, NEW r \in Rt,
         InstructionTurn(r) \/ Sleep(r) \/ BlockedTurn(r) \/ Check(r)
  PROVE  IInv'
<1> USE DEF IInv, At, Goto, TurnPc, GlobalPc, ProgState
<1>1. TypeOK /\ TurnTypes /\ curr[r] \in Prog \cup {Null}
  BY DEF TypeOK, TurnTypes
<1>2. CASE Scan(r)
  <2>1. state' = state \/ \E s \in ProgState : state' = [state EXCEPT ![curr[r]] = s]
    BY <1>2 DEF Scan, StopWithError, SetState
  <2>2. error_flag' \in [Prog -> BOOLEAN]
    BY <1>1, <1>2 DEF Scan, StopWithError, TurnTypes
  <2>3. seen' = [seen EXCEPT ![r] = "none"] /\ UNCHANGED <<sem, blocked_idx, count, mtx, arg, crashed>>
    BY <1>2 DEF Scan, semVars
  <2>4. TurnTypes'
    BY <1>1, <2>2, <2>3 DEF TurnTypes
  <2>5. \A t \in Rt \ {r} : seen'[t] = seen[t] /\ arg'[t] = arg[t]
    BY <1>1, <2>3 DEF TurnTypes
  <2>6. pc[r] \in TurnPc /\ pc' = [pc EXCEPT ![r] = "ready"] /\ UNCHANGED <<rtVars, sh, id_cnt>>
    BY <1>2 DEF Scan
  <2> QED
    BY <2>1, <2>4, <2>5, <2>6, TurnStep
<1>3. CASE TestReady(r) \/ SliceOver(r) \/ Check(r)
  <2>1. PICK l \in {"exec", "slice", "check", "detach", "advance"} :
           pc' = [pc EXCEPT ![r] = l]
    BY <1>3 DEF TestReady, SliceOver, Check
  <2>2. UNCHANGED <<rtVars, progVars, semVars, seen, arg, sh, id_cnt, crashed>>
    BY <1>3 DEF TestReady, SliceOver, Check
  <2>3. TurnTypes' /\ state' = state
    BY <1>1, <2>2 DEF TurnTypes, progVars, semVars
  <2>4. pc[r] \in TurnPc
    BY <1>3 DEF TestReady, SliceOver, Check
  <2> QED
    BY <2>1, <2>2, <2>3, <2>4, TurnStep
<1>4. CASE ExecHere(r)
  <2>1. state' = state \/ \E s \in ProgState : state' = [state EXCEPT ![curr[r]] = s]
    BY <1>4 DEF ExecHere, StopWithError, SetState
  <2>2. error_flag' \in [Prog -> BOOLEAN]
    BY <1>1, <1>4 DEF ExecHere, StopWithError, TurnTypes
  <2>3. UNCHANGED <<sem, blocked_idx, count, mtx, seen, arg, crashed>>
    BY <1>4 DEF ExecHere, semVars
  <2>4. TurnTypes'
    BY <1>1, <2>2, <2>3 DEF TurnTypes
  <2> QED
    BY <1>4, <2>1, <2>3, <2>4, TurnStep DEF ExecHere
<1>5. CASE ExecGlobal(r)
  <2>1. PICK op \in {"up", "down", "store"}, s \in Sems :
           arg' = [arg EXCEPT ![r] = s] /\ pc' = [pc EXCEPT ![r] = op]
    BY <1>5 DEF ExecGlobal
  <2>2. TurnTypes' /\ UNCHANGED <<rtVars, state, seen, sh, id_cnt>>
    BY <1>1, <1>5, <2>1 DEF ExecGlobal, TurnTypes, progVars, semVars
  <2>3. arg'[r] \in Sems /\ \A t \in Rt \ {r} : arg'[t] = arg[t]
    BY <1>1, <2>1 DEF TurnTypes
  <2>4. pc[r] \in TurnPc /\ op \in TurnPc /\ op # "endwrite"
    BY <1>5, <2>1 DEF ExecGlobal
  <2> QED
    BY <2>1, <2>2, <2>3, <2>4, TurnStep
<1>6. CASE Up(r) \/ Store(r)
  <2>1. count' \in [Sems -> Int]
    <3>1. CASE Up(r)
      <4> DEFINE v == count[arg[r]] + 1
      <4>1. count' = [count EXCEPT ![arg[r]] = v]
        BY <3>1 DEF Up
      <4>2. arg[r] \in Sems => v \in Int
        BY <1>1 DEF TurnTypes
      <4> HIDE DEF v
      <4> QED
        BY <1>1, <4>1, <4>2, ChangeCount
    <3>2. CASE Store(r)
      <4>1. PICK v \in 0 .. MaxCount : count' = [count EXCEPT ![arg[r]] = v]
        BY <3>2 DEF Store
      <4>2. v \in Int
        BY <4>1, RuntimeAssumption
      <4> QED
        BY <1>1, <4>1, <4>2 DEF TurnTypes
    <3> QED
      BY <1>6, <3>1, <3>2
  <2>2. TurnTypes' /\ UNCHANGED <<rtVars, state, seen, sh, id_cnt>>
    BY <1>1, <1>6, <2>1 DEF Up, Store, TurnTypes, progVars
  <2>3. pc[r] \in TurnPc /\ pc' = [pc EXCEPT ![r] = "endline"]
    BY <1>6 DEF Up, Store
  <2>4. \A t \in Rt \ {r} : arg'[t] = arg[t]
    BY <1>1, <1>6 DEF Up, Store, TurnTypes
  <2> QED
    BY <2>2, <2>3, <2>4, TurnStep
<1>7. CASE DownIdx(r) \/ DownBlock(r)
  <2>1. arg[r] \in Sems /\ IdxOf(arg[r]) \in Nat
    BY <1>7, RuntimeAssumption DEF DownIdx, DownBlock, ThreadInv, IdxOf
  <2>2. blocked_idx' \in [Prog -> Nat \cup {Uninit}]
    BY <1>1, <1>7, <2>1 DEF DownIdx, DownBlock, TurnTypes
  <2>3. TurnTypes' /\ UNCHANGED <<rtVars, seen, arg, sh, id_cnt>>
    BY <1>1, <1>7, <2>2 DEF DownIdx, DownBlock, TurnTypes, semVars
  <2>4. state' = state \/ \E s \in ProgState : state' = [state EXCEPT ![curr[r]] = s]
    BY <1>7 DEF DownIdx, DownBlock, SetState
  <2>5. /\ pc[r] \in TurnPc
        /\ pc' = [pc EXCEPT ![r] = "downblock"] \/ pc' = [pc EXCEPT ![r] = "downsem"]
    BY <1>7 DEF DownIdx, DownBlock
  <2> QED
    BY <2>1, <2>3, <2>4, <2>5, TurnStep
<1>8. CASE DownSem(r)
  <2>1. VarOf(arg[r]) \in Globals
    BY <1>8, RuntimeAssumption DEF DownSem, ThreadInv, VarOf
  <2>2. sem' \in [Prog -> Globals \cup {Uninit}] /\ arg' \in [Rt -> Sems \cup {Uninit}]
    BY <1>1, <1>8, <2>1 DEF DownSem, TurnTypes
  <2>3. TurnTypes' /\ UNCHANGED <<rtVars, state, seen, sh, id_cnt>>
    BY <1>1, <1>8, <2>2 DEF DownSem, TurnTypes, semVars
  <2>4. \A t \in Rt \ {r} : arg'[t] = arg[t]
    BY <1>1, <1>8 DEF DownSem, TurnTypes
  <2> QED
    BY <1>8, <2>3, <2>4, TurnStep DEF DownSem
<1>15. CASE SearchKilled(r)
  <2>1. /\ TurnTypes' /\ UNCHANGED <<rtVars, state, seen, arg, sh, id_cnt>>
        /\ pc' = pc /\ pc[r] = "exec"
    BY <1>1, <1>15 DEF SearchKilled, TurnTypes, progVars, semVars, thrVars
  <2>2. pc' = [pc EXCEPT ![r] = "exec"]
    BY <1>1, <2>1 DEF TypeOK
  <2> QED
    BY <2>1, <2>2, TurnStep
<1>9. CASE EndLineRead(r)
  <2>1. state[curr[r]] \in ProgState
    BY <1>9 DEF EndLineRead, ThreadInv, ListInv, TypeOK, Listed, Range
  <2>2. TurnTypes' /\ UNCHANGED <<rtVars, state, sh, id_cnt>>
    BY <1>1, <1>9, <2>1 DEF EndLineRead, TurnTypes, progVars, semVars
  <2>3. seen' = [seen EXCEPT ![r] = state[curr[r]]] /\ seen \in [Rt -> ProgState \cup {"none"}]
    BY <1>1, <1>9 DEF EndLineRead, TurnTypes
  <2>4. seen'[r] \in ProgState /\ \A t \in Rt \ {r} : seen'[t] = seen[t]
    BY <2>1, <2>3
  <2> QED
    BY <1>9, <2>2, <2>4, TurnStep DEF EndLineRead
<1>10. CASE EndLineWrite(r)
  <2>1. seen[r] \in ProgState
    BY <1>10 DEF EndLineWrite, ThreadInv
  <2>2. state' = state \/ \E s \in ProgState : state' = [state EXCEPT ![curr[r]] = s]
    BY <1>10, <2>1 DEF EndLineWrite, SetState
  <2>3. TurnTypes' /\ UNCHANGED <<rtVars, sh, id_cnt>>
    BY <1>1, <1>10 DEF EndLineWrite, TurnTypes, semVars
  <2>4. \A t \in Rt \ {r} : seen'[t] = seen[t]
    BY <1>10 DEF EndLineWrite, TypeOK
  <2> QED
    BY <1>10, <2>2, <2>3, <2>4, TurnStep DEF EndLineWrite
<1>11. CASE SliceGoesOn(r)
  <2>1. TurnTypes' /\ UNCHANGED <<rtVars, state, sh, id_cnt>>
    BY <1>1, <1>11 DEF SliceGoesOn, TurnTypes, progVars, semVars
  <2>2. \A t \in Rt \ {r} : seen'[t] = seen[t]
    BY <1>11 DEF SliceGoesOn, TypeOK
  <2> QED
    BY <1>11, <2>1, <2>2, TurnStep DEF SliceGoesOn
<1>12. CASE Sleep(r)
  <2>1. TurnTypes' /\ UNCHANGED <<rtVars, seen, sh, id_cnt>>
    BY <1>1, <1>12 DEF Sleep, TurnTypes, semVars
  <2>2. state' = state \/ \E s \in ProgState : state' = [state EXCEPT ![curr[r]] = s]
    BY <1>12 DEF Sleep, SetState
  <2> QED
    BY <1>12, <2>1, <2>2, TurnStep DEF Sleep
<1>13. CASE Blocked(r) \/ TimedWaitEnds(r)
  <2>1. PICK l \in {"unblock", "timedwait", "check"} : pc' = [pc EXCEPT ![r] = l]
    BY <1>13 DEF Blocked, TimedWaitEnds, TakeToken
  <2>2. count' \in [Sems -> Int] /\ mtx' \in [Globals -> Rt \cup {NoRt}]
    <3>1. CASE TakeToken(r, Waited(curr[r]))
      <4> DEFINE s == Waited(curr[r])
                 v == count[s] - 1
      <4>1. count' = [count EXCEPT ![s] = v]
        BY <3>1 DEF TakeToken
      <4>2. s \in Sems => v \in Int
        BY <1>1 DEF TurnTypes
      <4>3. mtx' \in [Globals -> Rt \cup {NoRt}]
        BY <1>1, <3>1 DEF TakeToken, TurnTypes
      <4> HIDE DEF s, v
      <4> QED
        BY <1>1, <4>1, <4>2, <4>3, ChangeCount
    <3>2. CASE UNCHANGED semVars
      BY <1>1, <3>2 DEF semVars, TurnTypes
    <3> QED
      BY <1>13, <3>1, <3>2 DEF Blocked, TimedWaitEnds
  <2>3. TurnTypes' /\ UNCHANGED <<rtVars, state, seen, arg, sh, id_cnt>>
    BY <1>1, <1>13, <2>2 DEF Blocked, TimedWaitEnds, TurnTypes, progVars
  <2>4. pc[r] \in TurnPc
    BY <1>13 DEF Blocked, TimedWaitEnds
  <2> QED
    BY <2>1, <2>3, <2>4, TurnStep
<1>14. CASE UnblockTest(r) \/ UnblockWrite(r)
  <2>1. PICK l \in {"unblockwrite", "check"} : pc' = [pc EXCEPT ![r] = l]
    BY <1>14 DEF UnblockTest, UnblockWrite
  <2>2. mtx' \in [Globals -> Rt \cup {NoRt}]
    BY <1>1, <1>14 DEF UnblockTest, UnblockWrite, ReleaseMtx, TurnTypes
  <2>3. TurnTypes' /\ UNCHANGED <<rtVars, seen, arg, sh, id_cnt>>
    BY <1>1, <1>14, <2>2 DEF UnblockTest, UnblockWrite, TurnTypes, progVars
  <2>4. state' = state \/ \E s \in ProgState : state' = [state EXCEPT ![curr[r]] = s]
    BY <1>14 DEF UnblockTest, UnblockWrite, SetState, progVars
  <2>5. pc[r] \in TurnPc
    BY <1>14 DEF UnblockTest, UnblockWrite
  <2> QED
    BY <2>1, <2>3, <2>4, <2>5, TurnStep
<1> QED
  BY <1>2, <1>3, <1>4, <1>5, <1>6, <1>7, <1>8, <1>9, <1>10, <1>11, <1>12, <1>13, <1>14,
     <1>15 DEF InstructionTurn, BlockedTurn

\* A step between two turns moves the thread to l, its hold on the lock to k and
\* its cursor to c, and leaves the lists and the programs alone.
LoopMove(r, l, k, c) ==
  /\ pc' = [pc EXCEPT ![r] = l]
  /\ lock' = [lock EXCEPT ![r] = k]
  /\ curr' = [curr EXCEPT ![r] = c]
  /\ UNCHANGED <<running, program_list, program_cnt, progVars, semVars, arg, sh, id_cnt>>
  /\ seen' \in [Rt -> ProgState \cup {"none"}]
  /\ \A t \in Rt \ {r} : seen'[t] = seen[t]
  /\ crashed' \in BOOLEAN

\* Where such a step may lead: the lock goes with the label, a turn needs a
\* listed program, and a wait needs an empty list.
LoopTarget(r, l, k, c) ==
  /\ l \in PcLabel /\ k \in {"free", "thread", "shell"} /\ c \in Prog \cup {Null}
  /\ k = "thread" <=> l \in {"test", "wait"}
  /\ k = "shell" <=> lock[r] = "shell"
  /\ l \in TurnPc => l \notin GlobalPc \cup {"endwrite"} /\ c \in Listed(r)
  /\ l = "done" => ~running[r]
  /\ l \in {"wait", "waiting"} =>
        program_list[r] = <<>> /\ (running[r] \/ (ShellAt("signal") /\ sh.i = r))

LEMMA LoopStep ==
  ASSUME IInv, NEW r \in Rt, pc[r] # "done", NEW l, NEW k, NEW c,
         LoopMove(r, l, k, c), LoopTarget(r, l, k, c)
  PROVE  IInv'
<1> USE DEF IInv
<1>1. UNCHANGED <<running, program_list, program_cnt, state, error_flag, sem, blocked_idx,
                  count, mtx, arg, sh, id_cnt>>
  BY DEF LoopMove, progVars, semVars
<1>2. \A t \in Rt : /\ pc'[t] = IF t = r THEN l ELSE pc[t]
                    /\ lock'[t] = IF t = r THEN k ELSE lock[t]
                    /\ curr'[t] = IF t = r THEN c ELSE curr[t]
  BY DEF TypeOK, LoopMove
<1>3. TypeOK'
  <2>1. /\ pc' \in [Rt -> PcLabel] /\ lock' \in [Rt -> {"free", "thread", "shell"}]
        /\ curr' \in [Rt -> Prog \cup {Null}]
    BY DEF TypeOK, LoopMove, LoopTarget
  <2>2. seen' \in [Rt -> ProgState \cup {"none"}] /\ crashed' \in BOOLEAN
    BY DEF LoopMove
  <2> QED
    BY <1>1, <2>1, <2>2 DEF TypeOK
<1>4. LockInv'
  BY <1>1, <1>2 DEF LockInv, LoopTarget
<1>5. ListInv'
  <2>1. \A t \in Rt : pc'[t] # "done" => program_cnt[t] = Len(program_list[t])
    BY <1>2 DEF ListInv
  <2> QED
    BY <1>1, <2>1 DEF ListInv, Listed
<1>6. ThreadInv'
  <2>1. \A t \in Rt \ {r} : seen'[t] = seen[t]
    BY DEF LoopMove
  <2> QED
    BY <1>1, <1>2, <2>1 DEF ThreadInv, Listed, TurnPc, GlobalPc, LoopTarget
<1>7. ShellInv'
  BY <1>1 DEF ShellInv, Listed
<1>8. NoLostWakeup'
  BY <1>1, <1>2 DEF NoLostWakeup, ShellAt, LoopTarget
<1> QED
  BY <1>3, <1>4, <1>5, <1>6, <1>7, <1>8

LEMMA BetweenTurns ==
  ASSUME IInv, NEW r \in Rt,
         \/ TestRunning(r) \/ Acquire(r) \/ MustWait(r) \/ TakeHead(r) \/ CondWait(r)
         \/ SpuriousWakeup(r) \/ LeaveLoop(r) \/ Dispatch(r) \/ ClearCursor(r)
         \/ Advance(r)
  PROVE  IInv'
<1> DEFINE k == lock[r]
           c == curr[r]
<1>1. /\ c \in Prog \cup {Null} /\ k \in {"free", "thread", "shell"}
      /\ lock = [lock EXCEPT ![r] = k] /\ curr = [curr EXCEPT ![r] = c]
      /\ seen \in [Rt -> ProgState \cup {"none"}] /\ crashed \in BOOLEAN
      /\ k = "thread" <=> pc[r] \in {"test", "wait"}
  BY DEF IInv, TypeOK, LockInv
<1> USE DEF At, Goto
<1>2. CASE TestRunning(r)
  <2>1. PICK l \in {"acquire", "done"} :
           pc' = [pc EXCEPT ![r] = l] /\ (l = "done" => ~running[r])
    BY <1>2 DEF TestRunning
  <2>2. pc[r] = "running" /\ LoopMove(r, l, k, c)
    BY <1>1, <1>2, <2>1 DEF TestRunning, rtVars, LoopMove
  <2>3. LoopTarget(r, l, k, c)
    BY <1>1, <2>1, <2>2 DEF LoopTarget, TurnPc, GlobalPc, PcLabel
  <2> QED
    BY <2>2, <2>3, LoopStep
<1>3. CASE Acquire(r)
  <2>1. pc[r] = "acquire" /\ lock[r] = "free" /\ LoopMove(r, "test", "thread", c)
    BY <1>1, <1>3 DEF Acquire, LoopMove
  <2>2. LoopTarget(r, "test", "thread", c)
    BY <1>1, <2>1 DEF LoopTarget, TurnPc, GlobalPc, PcLabel
  <2> QED
    BY <2>1, <2>2, LoopStep
<1>4. CASE MustWait(r)
  <2>1. /\ pc[r] = "test" /\ running[r] /\ program_list[r] = <<>>
        /\ LoopMove(r, "wait", k, c)
    BY <1>1, <1>4 DEF MustWait, rtVars, LoopMove
  <2>2. LoopTarget(r, "wait", k, c)
    BY <1>1, <2>1 DEF LoopTarget, TurnPc, GlobalPc, PcLabel
  <2> QED
    BY <2>1, <2>2, LoopStep
<1>5. CASE TakeHead(r)
  <2> DEFINE h == HeadNode(program_list[r])
  <2>1. program_list[r] \in Seq(Prog)
    BY DEF IInv, TypeOK
  <2>2. h \in Prog \cup {Null}
    BY <2>1 DEF HeadNode
  <2>3. pc[r] = "test" /\ LoopMove(r, "loop", "free", h)
    BY <1>1, <1>5 DEF TakeHead, LoopMove
  <2>4. LoopTarget(r, "loop", "free", h)
    BY <1>1, <2>2, <2>3 DEF LoopTarget, TurnPc, GlobalPc, PcLabel
  <2> QED
    BY <2>3, <2>4, LoopStep
<1>6. CASE CondWait(r)
  <2>1. program_list[r] = <<>> /\ (running[r] \/ (ShellAt("signal") /\ sh.i = r))
    BY <1>6 DEF CondWait, IInv, NoLostWakeup
  <2>2. pc[r] = "wait" /\ LoopMove(r, "waiting", "free", c)
    BY <1>1, <1>6 DEF CondWait, LoopMove
  <2>3. LoopTarget(r, "waiting", "free", c)
    BY <1>1, <2>1, <2>2 DEF LoopTarget, TurnPc, GlobalPc, PcLabel
  <2> QED
    BY <2>2, <2>3, LoopStep
<1>7. CASE SpuriousWakeup(r)
  <2>1. pc[r] = "waiting" /\ LoopMove(r, "acquire", k, c)
    BY <1>1, <1>7 DEF SpuriousWakeup, rtVars, LoopMove
  <2>2. LoopTarget(r, "acquire", k, c)
    BY <1>1, <2>1 DEF LoopTarget, TurnPc, GlobalPc, PcLabel
  <2> QED
    BY <2>1, <2>2, LoopStep
<1>8. CASE LeaveLoop(r)
  <2>1. pc[r] = "loop" /\ LoopMove(r, "running", k, c)
    BY <1>1, <1>8 DEF LeaveLoop, rtVars, LoopMove
  <2>2. LoopTarget(r, "running", k, c)
    BY <1>1, <2>1 DEF LoopTarget, TurnPc, GlobalPc, PcLabel
  <2> QED
    BY <2>1, <2>2, LoopStep
<1>9. CASE Dispatch(r)
  <2>1. PICK l \in {"scan", "sleep", "blocked", "check"} : pc' = [pc EXCEPT ![r] = l]
    BY <1>9 DEF Dispatch
  <2>2. /\ seen' \in [Rt -> ProgState \cup {"none"}]
        /\ \A t \in Rt \ {r} : seen'[t] = seen[t]
    BY <1>1, <1>9 DEF Dispatch, ProgState
  <2>3. /\ UNCHANGED <<running, program_list, program_cnt, lock, curr, crashed,
                       progVars, semVars, arg, sh, id_cnt>>
        /\ pc[r] = "loop" /\ c \in Listed(r)
    BY <1>9 DEF Dispatch, rtVars
  <2>4. LoopMove(r, l, k, c)
    BY <1>1, <2>1, <2>2, <2>3 DEF LoopMove
  <2>5. LoopTarget(r, l, k, c)
    BY <1>1, <2>1, <2>3 DEF LoopTarget, TurnPc, GlobalPc, PcLabel
  <2> QED
    BY <2>3, <2>4, <2>5, LoopStep
<1>10. CASE ClearCursor(r)
  <2>1. PICK d \in {c, Null} : curr' = [curr EXCEPT ![r] = d]
    BY <1>1, <1>10 DEF ClearCursor
  <2>2. pc[r] = "detached" /\ LoopMove(r, "loop", k, d)
    BY <1>1, <1>10, <2>1 DEF ClearCursor, LoopMove
  <2>3. LoopTarget(r, "loop", k, d)
    BY <1>1, <2>1, <2>2 DEF LoopTarget, TurnPc, GlobalPc, PcLabel
  <2> QED
    BY <2>2, <2>3, LoopStep
<1>11. CASE Advance(r)
  <2> DEFINE n == NextNode(program_list[r], curr[r])
  <2>1. program_list[r] \in Seq(Prog) /\ curr[r] \in Range(program_list[r])
    BY <1>11 DEF Advance, IInv, TypeOK, ThreadInv, Listed, TurnPc
  <2>2. n \in Prog
    BY <2>1, NextNodeListed
  <2>3. pc[r] = "advance" /\ LoopMove(r, "loop", k, n)
    BY <1>1, <1>11 DEF Advance, MoveCursor, LoopMove
  <2>4. LoopTarget(r, "loop", k, n)
    BY <1>1, <2>2, <2>3 DEF LoopTarget, TurnPc, GlobalPc, PcLabel
  <2> QED
    BY <2>3, <2>4, LoopStep
<1> QED
  BY <1>2, <1>3, <1>4, <1>5, <1>6, <1>7, <1>8, <1>9, <1>10, <1>11

LEMMA DetachStep ==
  ASSUME IInv, NEW r \in Rt, Detach(r)
  PROVE  IInv'
<1> USE DEF IInv
<1> DEFINE p == curr[r]
           l == program_list[r]
<1>1. /\ pc[r] = "detach" /\ pc' = [pc EXCEPT ![r] = "detached"]
      /\ lock[r] = "free"
      /\ curr' = [curr EXCEPT ![r] = NextNode(l, p)]
      /\ program_cnt' = [program_cnt EXCEPT ![r] = @ - 1]
      /\ program_list' = [program_list EXCEPT ![r] = DeleteNode(l, p)]
      /\ UNCHANGED <<running, lock, count, mtx, seen, arg, sh, id_cnt, crashed>>
  BY DEF Detach, MoveCursor, Unlist, At, Goto, semVars
<1>2. /\ state' = [q \in Prog |-> IF q = p THEN "FREED" ELSE state[q]]
      /\ error_flag' = [q \in Prog |-> q # p /\ error_flag[q]]
      /\ sem' = [q \in Prog |-> IF q = p THEN Uninit ELSE sem[q]]
      /\ blocked_idx' = [q \in Prog |-> IF q = p THEN Uninit ELSE blocked_idx[q]]
  BY DEF Detach, FreePrograms
<1>3. /\ l \in Seq(Prog) /\ IsInjective(l) /\ p \in Range(l) /\ p \in Prog
      /\ program_cnt[r] = Len(l)
  BY <1>1 DEF TypeOK, ListInv, ThreadInv, Listed, TurnPc, Range
<1>4. /\ DeleteNode(l, p) \in Seq(Prog) /\ Len(DeleteNode(l, p)) = Len(l) - 1
      /\ IsInjective(DeleteNode(l, p))
      /\ Range(DeleteNode(l, p)) = Range(l) \ {p}
      /\ NextNode(l, p) \in Prog
      /\ Len(l) \in Nat \ {0}
  BY <1>3, DeleteNodeList, NextNodeListed, IndexOfListed
<1>5. \A t \in Rt : /\ pc'[t] = IF t = r THEN "detached" ELSE pc[t]
                    /\ curr'[t] = IF t = r THEN NextNode(l, p) ELSE curr[t]
                    /\ program_list'[t] = IF t = r THEN DeleteNode(l, p) ELSE program_list[t]
                    /\ program_cnt'[t] = IF t = r THEN Len(l) - 1 ELSE program_cnt[t]
  BY <1>1, <1>3 DEF TypeOK
<1>6. \A t \in Rt : Listed(t)' = Listed(t) \ {p}
  <2>1. \A t \in Rt \ {r} : p \notin Listed(t)
    BY <1>3 DEF ListInv, Listed
  <2> QED
    BY <1>4, <1>5, <2>1 DEF Listed
<1>7. TypeOK'
  <2>1. program_list' \in [Rt -> Seq(Prog)] /\ curr' \in [Rt -> Prog \cup {Null}]
    BY <1>1, <1>4 DEF TypeOK
  <2>2. program_cnt' \in [Rt -> Nat]
    BY <1>1, <1>3, <1>4 DEF TypeOK
  <2>3. pc' \in [Rt -> PcLabel]
    BY <1>1 DEF TypeOK, PcLabel
  <2>4. /\ state' \in [Prog -> ProgState \cup {"UNBORN", "FREED"}]
        /\ sem' \in [Prog -> Globals \cup {Uninit}]
        /\ blocked_idx' \in [Prog -> Nat \cup {Uninit}]
    BY <1>2 DEF TypeOK
  <2>5. error_flag' \in [Prog -> BOOLEAN]
    BY <1>2 DEF TypeOK
  <2> QED
    BY <1>1, <2>1, <2>2, <2>3, <2>4, <2>5 DEF TypeOK
<1>8. LockInv'
  BY <1>1, <1>5 DEF LockInv
<1>9. ListInv'
  <2>1. \A t \in Rt : IsInjective(program_list'[t])
    BY <1>4, <1>5 DEF ListInv
  <2>2. \A t1, t2 \in Rt : t1 # t2 => Listed(t1)' \cap Listed(t2)' = {}
    BY <1>6 DEF ListInv
  <2>3. \A q \in Prog : state'[q] \in ProgState <=> \E t \in Rt : q \in Listed(t)'
    BY <1>2, <1>6 DEF ListInv, ProgState
  <2>4. \A t \in Rt : pc'[t] # "done" => program_cnt'[t] = Len(program_list'[t])
    BY <1>4, <1>5 DEF ListInv
  <2> QED
    BY <2>1, <2>2, <2>3, <2>4 DEF ListInv
<1>10. ThreadInv'
  <2>1. \A t \in Rt \ {r} : pc[t] \in TurnPc => curr[t] # p
    BY <1>3 DEF ThreadInv, ListInv, Listed
  <2> QED
    BY <1>1, <1>5, <1>6, <2>1 DEF ThreadInv, TurnPc, GlobalPc
<1>11. ShellInv'
  <2>1. sh.at \in KillLabel => sh.i # r
    BY <1>1 DEF LockInv
  <2>2. sh.at \in KillLabel => sh.prog # p
    BY <1>3, <2>1 DEF ShellInv, ListInv, Listed
  <2>3. \A q \in Prog : q >= id_cnt => q # p
    BY <1>3 DEF ShellInv, ListInv, ProgState, Listed
  <2>4. \A q \in Prog : q >= id_cnt => state'[q] = "UNBORN"
    BY <1>2, <2>3 DEF ShellInv
  <2> QED
    BY <1>1, <1>6, <2>2, <2>4 DEF ShellInv
<1>12. NoLostWakeup'
  BY <1>1, <1>5 DEF NoLostWakeup, ShellAt
<1> QED
  BY <1>7, <1>8, <1>9, <1>10, <1>11, <1>12

LEMMA ThreadStep ==
  ASSUME IInv, NEW r \in Rt, Thread(r) \/ SpuriousWakeup(r)
  PROVE  IInv'
<1>1. CASE DispatchFreed(r)
  BY <1>1 DEF DispatchFreed, IInv, TypeOK, LockInv, ListInv, ThreadInv, ShellInv,
     NoLostWakeup, Listed, ShellAt, rtVars, progVars, semVars, thrVars
<1> QED
  BY <1>1, InTurn, BetweenTurns, DetachStep DEF Thread

-----------------------------------------------------------------------------
(***************************************************************************)
(* The steps of the shell.  Most of them move the shell, its hold on one   *)
(* lock, and at most the program it kills.                                 *)
(***************************************************************************)
LEMMA ShellStep ==
  ASSUME IInv,
         UNCHANGED <<running, program_list, curr, program_cnt, sem, blocked_idx, mtx, thrVars, id_cnt>>,
         \/ state' = state
         \/ /\ sh.prog \in Prog /\ state[sh.prog] \in ProgState
            /\ state' = [state EXCEPT ![sh.prog] = "FINISHED"],
         error_flag' \in [Prog -> BOOLEAN],
         count' \in [Sems -> Int],
         crashed' \in BOOLEAN,
         lock' \in [Rt -> {"free", "thread", "shell"}],
         \A r \in Rt : /\ lock'[r] = "thread" <=> lock[r] = "thread"
                       /\ lock'[r] = "shell" <=> sh'.at \in KillLabel /\ sh'.i = r,
         sh' \in ShellRecord,
         sh'.at = "run" => id_cnt \in Prog,
         sh'.at \in KillLabel => sh'.i \in Rt /\ sh'.prog \in Listed(sh'.i),
         sh'.at \in {"signal", "join"} => sh'.i \in Rt /\ ~running[sh'.i],
         sh.at = "signal" => sh' = sh
  PROVE  IInv'
<1> USE DEF IInv
<1>1. UNCHANGED <<running, program_list, curr, program_cnt, sem, blocked_idx, mtx, pc, seen, arg, id_cnt>>
  BY DEF thrVars
<1>2. \A p \in Prog : /\ state'[p] \in ProgState <=> state[p] \in ProgState
                      /\ state[p] = "UNBORN" => state'[p] = "UNBORN"
  BY DEF TypeOK, ProgState
<1>3. TypeOK'
  <2>1. TypeOK
    OBVIOUS
  <2>2. state \in [Prog -> ProgState \cup {"UNBORN", "FREED"}]
    BY <2>1 DEF TypeOK
  <2>3. state' \in [Prog -> ProgState \cup {"UNBORN", "FREED"}]
    <3>1. CASE state' = state
      BY <2>2, <3>1
    <3>2. CASE state' = [state EXCEPT ![sh.prog] = "FINISHED"]
      <4>1. "FINISHED" \in ProgState \cup {"UNBORN", "FREED"}
        BY DEF ProgState
      <4> HIDE DEF IInv
      <4> QED
        BY <2>2, <3>2, <4>1
    <3> QED
      BY <3>1, <3>2
  <2> HIDE DEF IInv
  <2>4. /\ running' \in [Rt -> BOOLEAN] /\ program_list' \in [Rt -> Seq(Prog)]
        /\ curr' \in [Rt -> Prog \cup {Null}] /\ program_cnt' \in [Rt -> Nat]
        /\ sem' \in [Prog -> Globals \cup {Uninit}]
        /\ blocked_idx' \in [Prog -> Nat \cup {Uninit}]
        /\ mtx' \in [Globals -> Rt \cup {NoRt}]
    BY <1>1, <2>1 DEF TypeOK
  <2>5. /\ pc' \in [Rt -> PcLabel] /\ seen' \in [Rt -> ProgState \cup {"none"}]
        /\ arg' \in [Rt -> Sems \cup {Uninit}] /\ id_cnt' \in 1 .. MaxProgs + 1
    BY <1>1, <2>1 DEF TypeOK
  <2> QED
    BY <2>3, <2>4, <2>5 DEF TypeOK
<1>4. LockInv'
  BY <1>1 DEF LockInv
<1>5. ListInv'
  <2>1. ListInv /\ \A t \in Rt : Listed(t)' = Listed(t)
    BY <1>1 DEF Listed
  <2> HIDE DEF IInv
  <2> QED
    BY <1>1, <1>2, <2>1 DEF ListInv
<1>6. ThreadInv'
  BY <1>1 DEF ThreadInv, Listed
<1>7. ShellInv'
  BY <1>1, <1>2 DEF ShellInv, Listed
<1>8. NoLostWakeup'
  BY <1>1 DEF NoLostWakeup, ShellAt
<1> QED
  BY <1>3, <1>4, <1>5, <1>6, <1>7, <1>8

LEMMA ShellTypes ==
  ASSUME IInv
  PROVE  /\ error_flag \in [Prog -> BOOLEAN] /\ count \in [Sems -> Int]
         /\ crashed \in BOOLEAN /\ lock \in [Rt -> {"free", "thread", "shell"}]
         /\ sh \in ShellRecord /\ sem \in [Prog -> Globals \cup {Uninit}]
         /\ \A r \in Rt : lock[r] = "shell" <=> sh.at \in KillLabel /\ sh.i = r
         /\ RtCnt \in Nat \ {0} /\ 0 \in 0 .. RtCnt /\ 0 \in Rt
BY RuntimeAssumption DEF IInv, TypeOK, LockInv, Rt

LEMMA ShellIdleType == ShellIdle \in ShellRecord
<1>1. 0 \in 0 .. RtCnt /\ 0 \in Rt
  BY RuntimeAssumption DEF Rt
<1> QED
  BY <1>1 DEF ShellIdle, ShellRecord, ShLabel, Null

LEMMA CommandSteps ==
  ASSUME IInv, StartCommand \/ EndCommand \/ ReadCount \/ ListRuntime \/ ListFreed \/ Exit
  PROVE  IInv'
<1> USE DEF ShellAt, ShellGoto, NextRuntime, KillLabel, ShLabel
<1>1. CASE StartCommand
  <2>1. sh' \in ShellRecord /\ sh.at = "idle"
    BY <1>1, ShellTypes DEF StartCommand, ShellRecord
  <2>2. sh'.at \in {"run", "kill", "list", "stop"}
    BY <1>1, <2>1, ShellTypes DEF StartCommand, ShellRecord
  <2>3. sh'.at = "run" => id_cnt \in Prog
    <3>1. sh'.at = "run" => id_cnt <= MaxProgs
      BY <1>1, ShellTypes DEF StartCommand, ShellRecord
    <3>2. id_cnt \in 1 .. MaxProgs + 1 /\ MaxProgs \in Nat
      BY RuntimeAssumption DEF IInv, TypeOK
    <3> QED
      BY <3>1, <3>2 DEF Prog
  <2>4. /\ UNCHANGED <<running, program_list, curr, program_cnt, sem, blocked_idx, mtx, thrVars, id_cnt>>
        /\ UNCHANGED <<lock, state, error_flag, count, crashed>>
    BY <1>1 DEF StartCommand, rtVars, progVars, semVars
  <2> QED
    BY <2>1, <2>2, <2>3, <2>4, ShellTypes, ShellStep
<1>2. CASE EndCommand
  <2>1. sh' \in ShellRecord /\ sh'.at = "idle" /\ sh.at \in {"kill", "list"}
    BY <1>2, ShellIdleType DEF EndCommand, ShellIdle
  <2>2. /\ UNCHANGED <<running, program_list, curr, program_cnt, sem, blocked_idx, mtx, thrVars, id_cnt>>
        /\ UNCHANGED <<lock, state, error_flag, count, crashed>>
    BY <1>2 DEF EndCommand, rtVars, progVars, semVars
  <2> QED
    BY <2>1, <2>2, ShellTypes, ShellStep
<1>3. CASE ReadCount
  <2>1. sh.i \in Rt /\ sh.i + 1 \in 0 .. RtCnt /\ sh.at = "run"
    BY <1>3, ShellTypes DEF ReadCount, ShellRecord, Rt
  <2>2. program_cnt[sh.i] \in Nat
    BY <2>1 DEF IInv, TypeOK
  <2>3. sh' \in ShellRecord /\ sh'.at = "run"
    BY <1>3, <2>1, <2>2, ShellTypes DEF ReadCount, ShellRecord
  <2>4. /\ UNCHANGED <<running, program_list, curr, program_cnt, sem, blocked_idx, mtx, thrVars, id_cnt>>
        /\ UNCHANGED <<lock, state, error_flag, count, crashed>>
    BY <1>3 DEF ReadCount, rtVars, progVars, semVars
  <2>5. id_cnt \in Prog
    BY <2>1 DEF IInv, ShellInv
  <2> QED
    BY <2>1, <2>3, <2>4, <2>5, ShellTypes, ShellStep
<1>4. CASE ListRuntime \/ ListFreed
  <2>1. sh.i \in Rt /\ sh.i + 1 \in 0 .. RtCnt /\ sh.at = "list"
    BY <1>4, ShellTypes DEF ListRuntime, ListFreed, ShellRecord, Rt
  <2>2. sh' \in ShellRecord /\ sh'.at = "list" /\ crashed' \in BOOLEAN
    BY <1>4, <2>1, ShellTypes DEF ListRuntime, ListFreed, ShellRecord
  <2>3. /\ UNCHANGED <<running, program_list, curr, program_cnt, sem, blocked_idx, mtx, thrVars, id_cnt>>
        /\ UNCHANGED <<lock, state, error_flag, count>>
    BY <1>4 DEF ListRuntime, ListFreed, rtVars, progVars, semVars
  <2> QED
    BY <2>1, <2>2, <2>3, ShellTypes, ShellStep
<1>5. CASE Exit
  <2>1. sh' \in ShellRecord /\ sh'.at = "exit" /\ sh.at = "stop"
    BY <1>5, ShellTypes DEF Exit, ShellRecord
  <2>2. /\ UNCHANGED <<running, program_list, curr, program_cnt, sem, blocked_idx, mtx, thrVars, id_cnt>>
        /\ UNCHANGED <<lock, state, error_flag, count, crashed>>
    BY <1>5 DEF Exit, rtVars, progVars, semVars
  <2> QED
    BY <2>1, <2>2, ShellTypes, ShellStep
<1> QED
  BY <1>1, <1>2, <1>3, <1>4, <1>5

LEMMA KillSteps ==
  ASSUME IInv, \/ KillSearch \/ KillReadSem \/ KillPost \/ KillPostOutside
               \/ KillSetState \/ KillSetFlag
  PROVE  IInv'
<1> USE DEF ShellAt, ShellGoto, NextRuntime, KillLabel, ShLabel
<1>1. CASE KillSearch
  <2>1. sh.i \in Rt /\ sh.i + 1 \in 0 .. RtCnt /\ sh.at = "kill" /\ lock[sh.i] = "free"
    BY <1>1, ShellTypes DEF KillSearch, ShellRecord, Rt
  <2>2. /\ UNCHANGED <<running, program_list, curr, program_cnt, sem, blocked_idx, mtx, thrVars, id_cnt>>
        /\ UNCHANGED <<state, error_flag, count, crashed>>
    BY <1>1 DEF KillSearch, progVars, semVars
  <2>3. CASE sh.id \in Listed(sh.i)
    <3>1. sh.id \in Prog
      BY <2>1, <2>3 DEF Listed, Range, IInv, TypeOK
    <3>2. PICK l \in {"killsem", "killstop"} :
             sh' = [sh EXCEPT !.id = -1, !.prog = sh.id, !.at = l]
      BY <1>1, <2>3 DEF KillSearch
    <3>3. /\ sh' \in ShellRecord /\ sh'.at \in {"killsem", "killstop"}
          /\ sh'.i = sh.i /\ sh'.prog = sh.id
      BY <3>1, <3>2, ShellTypes DEF ShellRecord
    <3>4. lock' = [lock EXCEPT ![sh.i] = "shell"]
      BY <1>1, <2>3 DEF KillSearch
    <3>5. /\ lock' \in [Rt -> {"free", "thread", "shell"}]
          /\ \A r \in Rt : /\ lock'[r] = "thread" <=> lock[r] = "thread"
                           /\ lock'[r] = "shell" <=> r = sh.i
      BY <2>1, <3>4, ShellTypes
    <3> QED
      BY <2>1, <2>2, <2>3, <3>3, <3>5, ShellTypes, ShellStep
  <2>4. CASE sh.id \notin Listed(sh.i)
    <3>1. sh' = [sh EXCEPT !.at = "kill", !.i = @ + 1] /\ lock' = lock
      BY <1>1, <2>4 DEF KillSearch
    <3>2. sh' \in ShellRecord /\ sh'.at = "kill"
      BY <2>1, <3>1, ShellTypes DEF ShellRecord
    <3> QED
      BY <2>1, <2>2, <3>1, <3>2, ShellTypes, ShellStep
  <2> QED
    BY <2>3, <2>4
<1>2. CASE KillReadSem
  <2>1. sh.at = "killsem" /\ sh.prog \in Prog /\ sh.i \in Rt /\ sh.prog \in Listed(sh.i)
    BY <1>2 DEF KillReadSem, IInv, ShellInv, TypeOK, Listed, Range
  <2>2. /\ sh' \in ShellRecord /\ sh'.at = "killpost" /\ sh'.i = sh.i /\ sh'.prog = sh.prog
    BY <1>2, <2>1, ShellTypes DEF KillReadSem, ShellRecord
  <2>3. /\ UNCHANGED <<running, program_list, curr, program_cnt, sem, blocked_idx, mtx, thrVars, id_cnt>>
        /\ UNCHANGED <<lock, state, error_flag, count, crashed>>
    BY <1>2 DEF KillReadSem, rtVars, progVars, semVars
  <2> QED
    BY <2>1, <2>2, <2>3, ShellTypes, ShellStep
<1>3. CASE KillPost
  <2>1. sh.at = "killpost" /\ sh.i \in Rt /\ sh.prog \in Listed(sh.i)
    BY <1>3 DEF KillPost, IInv, ShellInv
  <2>2. /\ sh' \in ShellRecord /\ sh'.at = "killstop" /\ sh'.i = sh.i /\ sh'.prog = sh.prog
    BY <1>3, ShellTypes DEF KillPost, ShellRecord
  <2>3. /\ UNCHANGED <<running, program_list, curr, program_cnt, sem, blocked_idx, mtx, thrVars, id_cnt>>
        /\ UNCHANGED <<lock, state, error_flag, crashed>>
    BY <1>3 DEF KillPost, rtVars, progVars
  <2>4. count' \in [Sems -> Int]
    <3>1. count' = [count EXCEPT ![Posted] = 1]
      BY <1>3 DEF KillPost
    <3>2. PICK v \in Int : v = 1
      OBVIOUS
    <3>3. count' = [count EXCEPT ![Posted] = v]
      BY <3>1, <3>2
    <3> QED
      BY <3>3, ShellTypes
  <2> QED
    BY <2>1, <2>2, <2>3, <2>4, ShellTypes, ShellStep
<1>4. CASE KillPostOutside
  <2>1. sh.at = "killpost" /\ sh.i \in Rt /\ sh.prog \in Listed(sh.i)
    BY <1>4 DEF KillPostOutside, IInv, ShellInv
  <2>2. /\ UNCHANGED <<running, program_list, curr, program_cnt, sem, blocked_idx, mtx, thrVars, id_cnt>>
        /\ UNCHANGED <<lock, state, error_flag, count, sh>>
        /\ crashed' \in BOOLEAN
    BY <1>4 DEF KillPostOutside, rtVars, progVars, semVars
  <2> QED
    BY <2>1, <2>2, ShellTypes, ShellStep
<1>5. CASE KillSetState
  <2>1. /\ sh.at = "killstop" /\ sh.i \in Rt /\ sh.prog \in Listed(sh.i)
        /\ sh.prog \in Prog /\ state[sh.prog] \in ProgState
    BY <1>5 DEF KillSetState, IInv, ShellInv, ListInv, TypeOK, Listed, Range
  <2>2. /\ sh' \in ShellRecord /\ sh'.at = "killflag" /\ sh'.i = sh.i /\ sh'.prog = sh.prog
    BY <1>5, ShellTypes DEF KillSetState, ShellRecord
  <2>3. /\ UNCHANGED <<running, program_list, curr, program_cnt, sem, blocked_idx, mtx, thrVars, id_cnt>>
        /\ UNCHANGED <<lock, error_flag, count, crashed>>
        /\ state' = [state EXCEPT ![sh.prog] = "FINISHED"]
    BY <1>5 DEF KillSetState, SetState, rtVars, semVars
  <2> QED
    BY <2>1, <2>2, <2>3, ShellTypes, ShellStep
<1>6. CASE KillSetFlag
  <2>1. sh.at = "killflag" /\ sh.i \in Rt /\ sh.i + 1 \in 0 .. RtCnt
    BY <1>6, ShellTypes DEF KillSetFlag, IInv, ShellInv, Rt
  <2>2. sh' \in ShellRecord /\ sh'.at = "kill"
    BY <1>6, <2>1, ShellTypes DEF KillSetFlag, ShellRecord, Null
  <2>3. /\ UNCHANGED <<running, program_list, curr, program_cnt, sem, blocked_idx, mtx, thrVars, id_cnt>>
        /\ UNCHANGED <<state, count, crashed>>
        /\ error_flag' \in [Prog -> BOOLEAN]
    BY <1>6, ShellTypes DEF KillSetFlag, semVars
  <2>4. /\ lock' \in [Rt -> {"free", "thread", "shell"}]
        /\ \A r \in Rt : /\ lock'[r] = "thread" <=> lock[r] = "thread"
                         /\ lock'[r] # "shell"
    BY <1>6, <2>1, ShellTypes DEF KillSetFlag
  <2> QED
    BY <2>1, <2>2, <2>3, <2>4, ShellTypes, ShellStep
<1> QED
  BY <1>1, <1>2, <1>3, <1>4, <1>5, <1>6

LEMMA SignalTypes ==
  ASSUME TypeOK, NEW r \in Rt, SignalIfEmpty(r)
  PROVE  pc' \in [Rt -> PcLabel]
<1>1. pc \in [Rt -> PcLabel] /\ "acquire" \in PcLabel
  BY DEF TypeOK, PcLabel
<1>2. CASE pc' = pc
  BY <1>1, <1>2
<1>3. CASE pc' = [pc EXCEPT ![r] = "acquire"]
  BY <1>1, <1>3
<1>4. pc = [pc EXCEPT ![r] = pc[r]]
  BY <1>1
<1> QED
  BY <1>2, <1>3, <1>4 DEF SignalIfEmpty, Signal

LEMMA AttachStep ==
  ASSUME IInv, Attach
  PROVE  IInv'
<1> USE DEF IInv
<1> DEFINE r == sh.minIdx
           p == id_cnt
           l == program_list[r]
<1>1. /\ sh.at = "run" /\ lock[r] = "free" /\ sh' = ShellIdle /\ id_cnt' = p + 1
      /\ state' = [state EXCEPT ![p] = "MAGIC_LINE"]
      /\ program_cnt' = [program_cnt EXCEPT ![r] = @ + 1]
      /\ program_list' = [program_list EXCEPT ![r] = Append(l, p)]
      /\ UNCHANGED <<running, curr, lock, error_flag, sem, blocked_idx, count, mtx, seen, arg, crashed>>
  BY DEF Attach, ShellAt, SignalIfEmpty, Enlist, semVars
<1>2. r \in Rt /\ p \in Prog /\ state[p] = "UNBORN"
  BY <1>1, ShellTypes DEF ShellInv, ShellRecord, Prog
<1>3. l \in Seq(Prog) /\ IsInjective(l) /\ p \notin Range(l)
  BY <1>2 DEF TypeOK, ListInv, Listed, ProgState
<1>4. /\ Append(l, p) \in Seq(Prog) /\ Len(Append(l, p)) = Len(l) + 1
      /\ IsInjective(Append(l, p)) /\ Range(Append(l, p)) = Range(l) \cup {p}
  BY <1>2, <1>3, AppendList
<1>5. \A t \in Rt : /\ program_list'[t] = IF t = r THEN Append(l, p) ELSE program_list[t]
                    /\ program_cnt'[t] = IF t = r THEN program_cnt[t] + 1 ELSE program_cnt[t]
  BY <1>1 DEF TypeOK
<1>6. \A t \in Rt : Listed(t)' = IF t = r THEN Listed(t) \cup {p} ELSE Listed(t)
  BY <1>4, <1>5 DEF Listed
<1>7. \A t \in Rt : \/ pc'[t] = pc[t]
                    \/ t = r /\ pc[t] = "waiting" /\ pc'[t] = "acquire"
  BY <1>2 DEF Attach, SignalIfEmpty, Signal, TypeOK
<1>8. pc'[r] \notin {"wait", "waiting"}
  <2>1. pc[r] # "wait"
    BY <1>1, <1>2 DEF LockInv
  <2>2. CASE l = <<>>
    BY <1>2, <2>1, <2>2 DEF Attach, SignalIfEmpty, Signal, TypeOK
  <2>3. CASE l # <<>>
    BY <1>2, <1>7, <2>1, <2>3 DEF NoLostWakeup
  <2> QED
    BY <2>2, <2>3
<1>9. TypeOK'
  <2>1. program_list' \in [Rt -> Seq(Prog)]
    BY <1>1, <1>4 DEF TypeOK
  <2>2. program_cnt' \in [Rt -> Nat] /\ pc' \in [Rt -> PcLabel]
    <3>1. program_cnt[r] + 1 \in Nat
      BY <1>2 DEF TypeOK
    <3>2. program_cnt' \in [Rt -> Nat]
      BY <1>1, <3>1 DEF TypeOK
    <3> QED
      BY <1>2, <3>2, SignalTypes DEF Attach
  <2>3. state' \in [Prog -> ProgState \cup {"UNBORN", "FREED"}]
    BY <1>1 DEF TypeOK, ProgState
  <2>4. id_cnt' \in 1 .. MaxProgs + 1
    BY <1>1, <1>2, RuntimeAssumption DEF Prog
  <2> QED
    BY <1>1, <2>1, <2>2, <2>3, <2>4, ShellIdleType DEF TypeOK
<1>10. LockInv'
  BY <1>1, <1>7 DEF LockInv, KillLabel, ShellIdle
<1>11. ListInv'
  <2>1. \A t \in Rt : IsInjective(program_list'[t])
    BY <1>4, <1>5 DEF ListInv
  <2>2. \A t \in Rt : p \notin Listed(t)
    BY <1>2 DEF ListInv, ProgState
  <2>3. \A t1, t2 \in Rt : t1 # t2 => Listed(t1)' \cap Listed(t2)' = {}
    BY <1>6, <2>2 DEF ListInv
  <2>4. \A q \in Prog : state'[q] \in ProgState <=> \E t \in Rt : q \in Listed(t)'
    <3>1. \A q \in Prog : state'[q] = IF q = p THEN "MAGIC_LINE" ELSE state[q]
      BY <1>1 DEF TypeOK
    <3> QED
      BY <1>2, <1>6, <3>1 DEF ListInv, ProgState
  <2>5. \A t \in Rt : pc'[t] # "done" => program_cnt'[t] = Len(program_list'[t])
    BY <1>4, <1>5, <1>7 DEF ListInv
  <2> QED
    BY <2>1, <2>3, <2>4, <2>5 DEF ListInv
<1>12. ThreadInv'
  BY <1>1, <1>6, <1>7 DEF ThreadInv, TurnPc, GlobalPc
<1>13. ShellInv'
  <2>1. \A q \in Prog : q >= p + 1 => q # p /\ q >= p
    BY <1>2 DEF Prog
  <2>2. \A q \in Prog : q >= p + 1 => state'[q] = "UNBORN"
    BY <1>1, <2>1 DEF ShellInv, TypeOK
  <2> QED
    BY <1>1, <2>2 DEF ShellInv, ShellIdle, KillLabel
<1>14. NoLostWakeup'
  BY <1>1, <1>5, <1>7, <1>8 DEF NoLostWakeup, ShellAt
<1> QED
  BY <1>9, <1>10, <1>11, <1>12, <1>13, <1>14

LEMMA StopSteps ==
  ASSUME IInv, StopFlag \/ StopSignal
  PROVE  IInv'
<1> USE DEF IInv, ShellAt, ShellGoto
<1>1. CASE StopFlag
  <2>1. sh.i \in Rt /\ sh.at = "stop" /\ running' = [running EXCEPT ![sh.i] = FALSE]
    BY <1>1, ShellTypes DEF StopFlag, ShellRecord, Rt
  <2>2. sh' \in ShellRecord /\ sh'.at = "signal" /\ sh'.i = sh.i
    BY <1>1, ShellTypes DEF StopFlag, ShellRecord, ShLabel
  <2>3. /\ UNCHANGED <<program_list, curr, program_cnt, lock, state, error_flag, sem, blocked_idx,
                       count, mtx, pc, seen, arg, id_cnt, crashed>>
    BY <1>1 DEF StopFlag, progVars, semVars, thrVars
  <2>4. \A t \in Rt : running'[t] = IF t = sh.i THEN FALSE ELSE running[t]
    BY <2>1 DEF TypeOK
  <2>5. TypeOK'
    BY <2>1, <2>2, <2>3 DEF TypeOK
  <2>6. LockInv' /\ ListInv'
    BY <2>1, <2>2, <2>3 DEF LockInv, ListInv, Listed, KillLabel
  <2>7. ThreadInv'
    BY <2>3, <2>4 DEF ThreadInv, Listed
  <2>8. ShellInv'
    BY <2>1, <2>2, <2>3, <2>4 DEF ShellInv, KillLabel
  <2>9. NoLostWakeup'
    BY <2>1, <2>2, <2>3, <2>4 DEF NoLostWakeup
  <2> QED
    BY <2>5, <2>6, <2>7, <2>8, <2>9
<1>2. CASE StopSignal
  <2> DEFINE r == sh.i
  <2>1. sh.at = "signal" /\ r \in Rt /\ ~running[r] /\ lock[r] = "free"
    BY <1>2 DEF StopSignal, SignalIfEmpty, ShellInv
  <2>2. sh' \in ShellRecord /\ sh'.at = "join" /\ sh'.i = r
    BY <1>2, ShellTypes DEF StopSignal, ShellRecord, ShLabel
  <2>3. /\ UNCHANGED <<running, program_list, curr, program_cnt, lock, state, error_flag,
                       sem, blocked_idx, count, mtx, seen, arg, id_cnt, crashed>>
    BY <1>2 DEF StopSignal, rtVars, progVars, semVars
  <2>4. \A t \in Rt : \/ pc'[t] = pc[t]
                      \/ t = r /\ pc[t] = "waiting" /\ pc'[t] = "acquire"
    BY <1>2, <2>1 DEF StopSignal, SignalIfEmpty, Signal, TypeOK
  <2>5. pc'[r] \notin {"wait", "waiting"}
    <3>1. pc[r] # "wait"
      BY <2>1 DEF LockInv
    <3>2. CASE program_list[r] = <<>>
      BY <1>2, <2>1, <3>1, <3>2 DEF StopSignal, SignalIfEmpty, Signal, TypeOK
    <3>3. CASE program_list[r] # <<>>
      BY <2>1, <2>4, <3>1, <3>3 DEF NoLostWakeup
    <3> QED
      BY <3>2, <3>3
  <2>6. TypeOK'
    <3>1. pc' \in [Rt -> PcLabel]
      BY <1>2, <2>1, SignalTypes DEF StopSignal
    <3> QED
      BY <2>2, <2>3, <3>1 DEF TypeOK
  <2>7. LockInv' /\ ListInv'
    BY <2>1, <2>2, <2>3, <2>4 DEF LockInv, ListInv, Listed, KillLabel
  <2>8. ThreadInv'
    BY <2>3, <2>4 DEF ThreadInv, Listed, TurnPc, GlobalPc
  <2>9. ShellInv'
    BY <2>1, <2>2, <2>3 DEF ShellInv, KillLabel
  <2>10. NoLostWakeup'
    BY <2>1, <2>2, <2>3, <2>4, <2>5 DEF NoLostWakeup
  <2> QED
    BY <2>6, <2>7, <2>8, <2>9, <2>10
<1> QED
  BY <1>1, <1>2

\* quit frees the programs of a runtime only when its thread is done.
LEMMA JoinStep ==
  ASSUME IInv, Join
  PROVE  IInv'
<1> USE DEF IInv
<1> DEFINE r == sh.i
<1>1. /\ sh.at = "join" /\ r \in Rt /\ ~running[r] /\ pc[r] = "done"
      /\ program_list' = [program_list EXCEPT ![r] = <<>>]
      /\ UNCHANGED <<running, curr, program_cnt, lock, count, mtx, pc, seen, arg, id_cnt, crashed>>
  BY DEF Join, ShellAt, At, ShellInv, semVars, thrVars
<1>2. /\ state' = [p \in Prog |-> IF p \in Listed(r) THEN "FREED" ELSE state[p]]
      /\ error_flag' = [p \in Prog |-> p \notin Listed(r) /\ error_flag[p]]
      /\ sem' = [p \in Prog |-> IF p \in Listed(r) THEN Uninit ELSE sem[p]]
      /\ blocked_idx' = [p \in Prog |-> IF p \in Listed(r) THEN Uninit ELSE blocked_idx[p]]
  BY DEF Join, FreePrograms
<1>3. sh' \in ShellRecord /\ sh'.at = "stop"
  <2>1. sh.i + 1 \in 0 .. RtCnt
    BY <1>1, ShellTypes DEF Rt
  <2> QED
    BY <2>1, ShellTypes DEF Join, NextRuntime, ShellRecord, ShLabel
<1>4. \A t \in Rt : program_list'[t] = IF t = r THEN <<>> ELSE program_list[t]
  BY <1>1 DEF TypeOK
<1>5. \A t \in Rt : Listed(t)' = IF t = r THEN {} ELSE Listed(t)
  BY <1>4 DEF Listed, Range
<1>6. TypeOK'
  <2>1. program_list' \in [Rt -> Seq(Prog)]
    BY <1>1 DEF TypeOK
  <2>2. /\ state' \in [Prog -> ProgState \cup {"UNBORN", "FREED"}]
        /\ sem' \in [Prog -> Globals \cup {Uninit}]
        /\ blocked_idx' \in [Prog -> Nat \cup {Uninit}]
    BY <1>2 DEF TypeOK
  <2>3. error_flag' \in [Prog -> BOOLEAN]
    BY <1>2 DEF TypeOK
  <2> QED
    BY <1>1, <1>3, <2>1, <2>2, <2>3 DEF TypeOK
<1>7. LockInv'
  BY <1>1, <1>3 DEF LockInv, KillLabel
<1>8. ListInv'
  <2>1. \A t \in Rt : IsInjective(program_list'[t])
    BY <1>4 DEF ListInv, IsInjective
  <2>2. \A t1, t2 \in Rt : t1 # t2 => Listed(t1)' \cap Listed(t2)' = {}
    BY <1>5 DEF ListInv
  <2>3. \A p \in Prog : state'[p] \in ProgState <=> \E t \in Rt : p \in Listed(t)'
    <3> SUFFICES ASSUME NEW p \in Prog
                 PROVE  state'[p] \in ProgState <=> \E t \in Rt : p \in Listed(t)'
      OBVIOUS
    <3>1. CASE p \in Listed(r)
      BY <1>1, <1>2, <1>5, <3>1 DEF ListInv, ProgState
    <3>2. CASE p \notin Listed(r)
      BY <1>1, <1>2, <1>5, <3>2 DEF ListInv
    <3> QED
      BY <3>1, <3>2
  <2>4. \A t \in Rt : pc'[t] # "done" => program_cnt'[t] = Len(program_list'[t])
    BY <1>1, <1>4 DEF ListInv
  <2> QED
    BY <2>1, <2>2, <2>3, <2>4 DEF ListInv
<1>9. ThreadInv'
  BY <1>1, <1>5 DEF ThreadInv, TurnPc
<1>10. ShellInv'
  <2>1. \A p \in Prog : p >= id_cnt => p \notin Listed(r)
    BY <1>1 DEF ShellInv, ListInv, ProgState
  <2>2. \A p \in Prog : p >= id_cnt => state'[p] = "UNBORN"
    BY <1>2, <2>1 DEF ShellInv
  <2> QED
    BY <1>1, <1>3, <2>2 DEF ShellInv, KillLabel
<1>11. NoLostWakeup'
  <2>1. \A t \in Rt \ {r} : pc[t] \in {"wait", "waiting"} => running[t]
    BY <1>1 DEF NoLostWakeup, ShellAt
  <2> QED
    BY <1>1, <1>4, <2>1 DEF NoLostWakeup, ShellAt
<1> QED
  BY <1>6, <1>7, <1>8, <1>9, <1>10, <1>11

-----------------------------------------------------------------------------
(***************************************************************************)
(* The theorems.                                                           *)
(***************************************************************************)
LEMMA InitIInv == Init => IInv
<1> SUFFICES ASSUME Init PROVE IInv
  OBVIOUS
<1>1. TypeOK
  <2>1. 1 \in 1 .. MaxProgs + 1 /\ <<>> \in Seq(Prog) /\ 0 \in Nat /\ 0 \in Int
    BY RuntimeAssumption
  <2>2. /\ running \in [Rt -> BOOLEAN] /\ program_list \in [Rt -> Seq(Prog)]
        /\ curr \in [Rt -> Prog \cup {Null}] /\ program_cnt \in [Rt -> Nat]
        /\ lock \in [Rt -> {"free", "thread", "shell"}]
    BY <2>1 DEF Init
  <2>3. /\ state \in [Prog -> ProgState \cup {"UNBORN", "FREED"}]
        /\ error_flag \in [Prog -> BOOLEAN] /\ sem \in [Prog -> Globals \cup {Uninit}]
        /\ blocked_idx \in [Prog -> Nat \cup {Uninit}]
        /\ count \in [Sems -> Int] /\ mtx \in [Globals -> Rt \cup {NoRt}]
    BY <2>1 DEF Init
  <2>4. /\ pc \in [Rt -> PcLabel] /\ seen \in [Rt -> ProgState \cup {"none"}]
        /\ arg \in [Rt -> Sems \cup {Uninit}] /\ sh \in ShellRecord
        /\ id_cnt \in 1 .. MaxProgs + 1 /\ crashed \in BOOLEAN
    BY <2>1, ShellIdleType DEF Init, PcLabel
  <2> QED
    BY <2>2, <2>3, <2>4 DEF TypeOK
<1>2. LockInv /\ ThreadInv /\ NoLostWakeup
  BY DEF Init, LockInv, ThreadInv, NoLostWakeup, ShellIdle, KillLabel, TurnPc, GlobalPc
<1>3. ListInv
  <2>1. \A r \in Rt : program_list[r] = <<>> /\ Listed(r) = {} /\ program_cnt[r] = 0
    BY DEF Init, Listed, Range
  <2>2. \A p \in Prog : state[p] \notin ProgState
    BY DEF Init, ProgState
  <2>3. IsInjective(<<>>)
    BY DEF IsInjective
  <2> QED
    BY <2>1, <2>2, <2>3 DEF ListInv
<1>4. ShellInv
  BY DEF Init, ShellInv, ShellIdle, KillLabel
<1> QED
  BY <1>1, <1>2, <1>3, <1>4 DEF IInv

LEMMA NextIInv == IInv /\ [Next]_vars => IInv'
<1> SUFFICES ASSUME IInv, [Next]_vars PROVE IInv'
  OBVIOUS
<1>1. CASE \E r \in Rt : Thread(r) \/ SpuriousWakeup(r)
  BY <1>1, ThreadStep
<1>2. CASE StartCommand \/ ShellGoesOn
  BY <1>2, CommandSteps, AttachStep, KillSteps, StopSteps, JoinStep DEF ShellGoesOn
<1>3. CASE UNCHANGED vars
  BY <1>3 DEF vars, rtVars, progVars, semVars, thrVars, IInv, TypeOK, LockInv, ListInv,
     ThreadInv, ShellInv, NoLostWakeup, Listed, ShellAt
<1> QED
  BY <1>1, <1>2, <1>3 DEF Next, Ended

\* All the parts of the inductive invariant hold in every reachable state.
THEOREM RuntimeInvariant == Spec => []IInv
BY InitIInv, NextIInv, PTL DEF Spec

\* Every variable keeps its type: in particular program_cnt, which is a
\* counter of its own beside the list, never goes below zero.
THEOREM TypeCorrect == Spec => []TypeOK
<1>1. IInv => TypeOK
  BY DEF IInv
<1> QED
  BY <1>1, RuntimeInvariant, PTL

\* No thread works on a program that somebody else has detached or freed,
\* though the turn in runtime.c reads and writes *prog without a lock.
THEOREM TurnsAreSafe == Spec => []TurnOnLiveProgram
<1>1. IInv => TurnOnLiveProgram
  BY DEF IInv, TypeOK, ThreadInv, ListInv, TurnOnLiveProgram, Listed, Range
<1> QED
  BY <1>1, RuntimeInvariant, PTL

\* The program mark_program_as_finished has found is not detached or freed
\* before kill is done with it.
THEOREM KillIsSafe == Spec => []KillVictimLive
<1>1. IInv => KillVictimLive
  BY DEF IInv, TypeOK, LockInv, ShellInv, ListInv, KillVictimLive, Listed, Range
<1> QED
  BY <1>1, RuntimeInvariant, PTL

\* Neither the signal of runtime_attach_program nor that of runtime_stop is
\* lost, whatever the thread was doing when it was sent.
THEOREM WakeupsArrive == Spec => []NoLostWakeup
<1>1. IInv => NoLostWakeup
  BY DEF IInv
<1> QED
  BY <1>1, RuntimeInvariant, PTL

\* The lists, the program states and the counters agree, though
\* program_finished and runtime_attach_program change them from two threads.
THEOREM ListsAgree == Spec => []ListedOnce
<1>1. IInv => ListedOnce
  BY DEF IInv, ListInv, ThreadInv, ListedOnce
<1> QED
  BY <1>1, RuntimeInvariant, PTL

=============================================================================
