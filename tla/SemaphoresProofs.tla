-------------------------- MODULE SemaphoresProofs --------------------------
(***************************************************************************)
(* For any number of runtime threads, programs and semaphores: as long as  *)
(* nobody kills, the runtime implements GlobalSemaphores.  A DOWN is       *)
(* passed with exactly one token, or the program is freed for good.        *)
(***************************************************************************)
EXTENDS RaceProofs

-----------------------------------------------------------------------------
(***************************************************************************)
(* What is true without kill: nobody but the thread writes prog->state, so *)
(* the thread's place tells whether its program is BLOCKED.                *)
(***************************************************************************)
BlockInv(r) ==
  LET p == curr[r] IN
  /\ pc[r] \in {"scan", "ready", "exec", "up", "down", "downblock", "store", "sleep"} =>
        state[p] # "BLOCKED"
  /\ pc[r] \in {"downsem", "blocked", "timedwait", "unblock", "unblockwrite"} =>
        state[p] = "BLOCKED"
  /\ pc[r] = "endwrite" => seen[r] = state[p]
  /\ pc[r] = "store" => "store" \in Instructions

NoKill == sh.at \notin KillLabel \cup {"kill"}

SemInv == NoKill /\ \A r \in Rt : BlockInv(r)

\* a step of the semaphores, or none
SemStep == [Semaphores!Next]_(Semaphores!semaphores)

-----------------------------------------------------------------------------
(***************************************************************************)
(* The mapping.                                                            *)
(***************************************************************************)
MidPc == {"downsem", "unblock", "unblockwrite"}

\* In the middle of a turn the place of the thread decides.
LEMMA WaitingInTurn ==
  ASSUME IInv, NEW r \in Rt, pc[r] \in TurnPc
  PROVE  waiting[curr[r]] = IF state[curr[r]] = "BLOCKED" /\ pc[r] \notin MidPc
                            THEN Waited(curr[r]) ELSE Uninit
<1>1. curr[r] \in Prog /\ curr[r] \in Listed(r) /\ \A t \in Rt \ {r} : curr[r] \notin Listed(t)
  BY OwnProgram
<1>2. InMidStep(curr[r]) <=> pc[r] \in MidPc
  <2>1. \A t \in Rt : pc[t] \in MidPc => pc[t] \in TurnPc /\ curr[t] \in Listed(t)
    BY DEF MidPc, TurnPc, IInv, ThreadInv
  <2> QED
    BY <1>1, <2>1 DEF InMidStep, MidPc
<1> QED
  BY <1>1, <1>2 DEF waiting

LEMMA WaitingKept ==
  ASSUME NEW q \in Prog,
         state'[q] = state[q] \/ (state[q] # "BLOCKED" /\ state'[q] # "BLOCKED"),
         sem'[q] = sem[q], blocked_idx'[q] = blocked_idx[q],
         \A t \in Rt : (curr[t] = q /\ pc[t] \in MidPc) <=> (curr'[t] = q /\ pc'[t] \in MidPc)
  PROVE  waiting'[q] = waiting[q]
<1>1. InMidStep(q)' <=> InMidStep(q)
  BY DEF InMidStep, MidPc
<1> QED
  BY <1>1 DEF waiting, Waited

LEMMA WaitingIsFunction ==
  /\ waiting = [q \in Prog |-> waiting[q]]
  /\ waiting' = [q \in Prog |-> waiting'[q]]
BY DEF waiting

\* A step that changes no count and nobody's waiting and frees nobody is a
\* stutter.
LEMMA Stutters ==
  ASSUME count' = count, freed' = freed, \A q \in Prog : waiting'[q] = waiting[q]
  PROVE  SemStep
<1>1. [q \in Prog |-> waiting'[q]] = [q \in Prog |-> waiting[q]]
  OBVIOUS
<1>2. waiting' = waiting
  BY <1>1, WaitingIsFunction
<1> QED
  BY <1>2 DEF SemStep, Semaphores!semaphores

\* A step that frees programs makes them leave.
LEMMA Leaves ==
  ASSUME NEW C \in SUBSET Prog, count' = count, freed' = freed \cup C,
         \A q \in Prog \ C : waiting'[q] = waiting[q],
         \A q \in C : waiting'[q] = Uninit
  PROVE  SemStep
<1>1. [q \in Prog |-> waiting'[q]] = [q \in Prog |-> IF q \in C THEN Uninit ELSE waiting[q]]
  OBVIOUS
<1>2. waiting' = [q \in Prog |-> IF q \in C THEN Uninit ELSE waiting[q]]
  BY <1>1, WaitingIsFunction
<1>3. Semaphores!Leave(C)
  BY <1>2 DEF Semaphores!Leave
<1> QED
  BY <1>3 DEF SemStep, Semaphores!Next

-----------------------------------------------------------------------------
(***************************************************************************)
(* The steps of a thread.                                                  *)
(***************************************************************************)
\* A step of thread r leaves the other threads and their programs alone.
LEMMA OtherThreads ==
  ASSUME IInv, SemInv, NEW r \in Rt, NEW l,
         pc' = [pc EXCEPT ![r] = l],
         UNCHANGED sh,
         \A t \in Rt \ {r} : curr'[t] = curr[t] /\ seen'[t] = seen[t],
         \A q \in Prog : q \notin Listed(r) => state'[q] = state[q],
         BlockInv(r)'
  PROVE  SemInv'
<1>1. \A t \in Rt \ {r} : pc'[t] = pc[t]
  BY DEF IInv, TypeOK
<1>2. ASSUME NEW t \in Rt \ {r} PROVE BlockInv(t)'
  <2>1. CASE pc[t] \in TurnPc
    <3>1. curr[t] \in Prog /\ curr[t] \notin Listed(r)
      BY <2>1, OwnProgram
    <3> QED
      BY <1>1, <3>1 DEF SemInv, BlockInv
  <2>2. CASE pc[t] \notin TurnPc
    BY <1>1, <2>2 DEF BlockInv, TurnPc
  <2> QED
    BY <2>1, <2>2
<1> QED
  BY <1>2 DEF SemInv, NoKill

\* What a step in a turn does to the program's waiting.
LEMMA TurnSem ==
  ASSUME IInv, SemInv, NEW r \in Rt, pc[r] \in TurnPc, NEW l \in TurnPc,
         pc' = [pc EXCEPT ![r] = l],
         UNCHANGED <<rtVars, sh>>,
         \A q \in Prog \ {curr[r]} : /\ state'[q] = state[q] /\ sem'[q] = sem[q]
                                    /\ blocked_idx'[q] = blocked_idx[q],
         \A t \in Rt \ {r} : seen'[t] = seen[t],
         BlockInv(r)', IInv'
  PROVE  /\ SemInv' /\ freed' = freed
         /\ \A q \in Prog \ {curr[r]} : waiting'[q] = waiting[q]
         /\ waiting'[curr[r]] = IF state'[curr[r]] = "BLOCKED" /\ l \notin MidPc
                                THEN <<sem'[curr[r]], blocked_idx'[curr[r]]>> ELSE Uninit
<1> DEFINE p == curr[r]
<1>1. /\ curr' = curr /\ p \in Prog /\ p \in Listed(r)
      /\ \A t \in Rt : pc'[t] = IF t = r THEN l ELSE pc[t]
  BY OwnProgram DEF rtVars, IInv, TypeOK
<1>2. SemInv'
  BY <1>1, OtherThreads
<1>3. ASSUME NEW q \in Prog \ {p} PROVE waiting'[q] = waiting[q]
  BY <1>1, WaitingKept
<1>4. waiting'[p] = IF state'[p] = "BLOCKED" /\ l \notin MidPc
                 THEN <<sem'[p], blocked_idx'[p]>> ELSE Uninit
  <2>1. curr'[r] = p /\ pc'[r] = l
    BY <1>1
  <2>2. InMidStep(p)' <=> l \in MidPc
    <3>1. \A t \in Rt \ {r} : pc[t] \in MidPc => curr[t] # p
      BY OwnProgram DEF MidPc, TurnPc
    <3> QED
      BY <1>1, <3>1 DEF InMidStep, MidPc
  <2> QED
    BY <1>1, <2>2 DEF waiting, Waited
<1>5. freed' = freed
  <2>1. state[p] \in ProgState
    BY OwnProgram
  <2>2. state'[p] \in ProgState
    <3>1. \E t \in Rt : p \in Listed(t)'
      BY <1>1 DEF rtVars, Listed
    <3> QED
      BY <1>1, <3>1 DEF IInv, ListInv
  <2> QED
    BY <2>1, <2>2 DEF freed, ProgState
<1> QED
  BY <1>2, <1>3, <1>4, <1>5

LEMMA InTurnSem ==
  ASSUME IInv, IInv', RaceInv, SemInv, NEW r \in Rt,
         InstructionTurn(r) \/ Sleep(r) \/ BlockedTurn(r) \/ Check(r)
  PROVE  SemInv' /\ SemStep
<1> DEFINE p == curr[r]
<1> USE DEF At, Goto
<1>0. pc[r] \in TurnPc
  BY DEF InstructionTurn, Sleep, BlockedTurn, Check, Scan, TestReady, ExecHere, ExecGlobal,
     SearchKilled, Up, Store, DownIdx, DownBlock, DownSem, EndLineRead, EndLineWrite,
     SliceGoesOn, SliceOver, Blocked, TimedWaitEnds, UnblockTest, UnblockWrite, TurnPc
<1>1. /\ p \in Prog
      /\ pc \in [Rt -> PcLabel] /\ seen \in [Rt -> ProgState \cup {"none"}]
      /\ arg \in [Rt -> Sems \cup {Uninit}] /\ Uninit \notin Sems
      /\ state \in [Prog -> ProgState \cup {"UNBORN", "FREED"}]
      /\ sem \in [Prog -> Globals \cup {Uninit}] /\ count \in [Sems -> Int]
      /\ blocked_idx \in [Prog -> Nat \cup {Uninit}]
      /\ pc[r] \in GlobalPc => arg[r] \in Sems /\ arg[r] = <<VarOf(arg[r]), IdxOf(arg[r])>>
  BY <1>0, OwnProgram, RuntimeAssumption DEF IInv, TypeOK, ThreadInv, VarOf, IdxOf
<1>2. /\ TurnInv(r) /\ BlockInv(r)
      /\ \A l : pc' = [pc EXCEPT ![r] = l] => pc'[r] = l
      /\ rtVars' = rtVars => curr' = curr
  BY <1>1 DEF RaceInv, SemInv, rtVars
<1>3. waiting[p] = IF state[p] = "BLOCKED" /\ pc[r] \notin MidPc THEN Waited(p) ELSE Uninit
  BY <1>0, WaitingInTurn
<1>4. CASE Scan(r)
  <2>1. /\ pc[r] = "scan" /\ pc' = [pc EXCEPT ![r] = "ready"]
        /\ UNCHANGED <<rtVars, sh, sem, blocked_idx, count>>
        /\ seen' = [seen EXCEPT ![r] = "none"]
    BY <1>4 DEF Scan, semVars
  <2>2. \/ state' = state
        \/ \E s \in {"FINISHED", "INSTRUCTION_LINE", "LAST_LINE"} :
              state' = [state EXCEPT ![p] = s]
    BY <1>4 DEF Scan, StopWithError, SetState
  <2>3. BlockInv(r)'
    BY <1>1, <1>2, <2>1, <2>2 DEF BlockInv
  <2>4. \A q \in Prog \ {p} : state'[q] = state[q]
    BY <1>1, <2>2
  <2>5. \A t \in Rt \ {r} : seen'[t] = seen[t]
    BY <1>1, <2>1
  <2>6. /\ SemInv' /\ freed' = freed /\ \A q \in Prog \ {p} : waiting'[q] = waiting[q]
        /\ waiting'[p] = IF state'[p] = "BLOCKED" /\ pc'[r] \notin MidPc
                         THEN <<sem'[p], blocked_idx'[p]>> ELSE Uninit
    BY <1>0, <1>2, <2>1, <2>3, <2>4, <2>5, TurnSem DEF TurnPc
  <2>7. waiting'[p] = waiting[p]
    BY <1>1, <1>2, <1>3, <2>1, <2>2, <2>6 DEF BlockInv, MidPc, Waited
  <2> QED
    BY <2>1, <2>6, <2>7, Stutters
<1>5. CASE ExecHere(r)
  <2>1. /\ pc[r] = "exec" /\ pc' = [pc EXCEPT ![r] = "endline"]
        /\ UNCHANGED <<rtVars, sh, sem, blocked_idx, count, seen>>
    BY <1>5 DEF ExecHere, semVars
  <2>2. \/ state' = state
        \/ \E s \in {"FINISHED", "SLEEPING", "INSTRUCTION_LINE", "LAST_LINE"} :
              state' = [state EXCEPT ![p] = s]
    BY <1>5 DEF ExecHere, StopWithError, SetState
  <2>3. BlockInv(r)'
    BY <1>1, <1>2, <2>1, <2>2 DEF BlockInv
  <2>4. \A q \in Prog \ {p} : state'[q] = state[q]
    BY <1>1, <2>2
  <2>5. \A t \in Rt \ {r} : seen'[t] = seen[t]
    BY <1>1, <2>1
  <2>6. /\ SemInv' /\ freed' = freed /\ \A q \in Prog \ {p} : waiting'[q] = waiting[q]
        /\ waiting'[p] = IF state'[p] = "BLOCKED" /\ pc'[r] \notin MidPc
                         THEN <<sem'[p], blocked_idx'[p]>> ELSE Uninit
    BY <1>0, <1>2, <2>1, <2>3, <2>4, <2>5, TurnSem DEF TurnPc
  <2>7. waiting'[p] = waiting[p]
    BY <1>1, <1>2, <1>3, <2>1, <2>2, <2>6 DEF BlockInv, MidPc, Waited
  <2> QED
    BY <2>1, <2>6, <2>7, Stutters
<1>6. CASE EndLineWrite(r)
  <2>1. /\ pc[r] = "endwrite" /\ pc' = [pc EXCEPT ![r] = "slice"]
        /\ UNCHANGED <<rtVars, sh, sem, blocked_idx, count>>
        /\ seen' = [seen EXCEPT ![r] = "none"]
    BY <1>6 DEF EndLineWrite, semVars
  <2>2. \/ seen[r] = "LAST_LINE" /\ state' = [state EXCEPT ![p] = "FINISHED"]
        \/ state' = [state EXCEPT ![p] = seen[r]]
        \/ state' = state
    BY <1>6 DEF EndLineWrite, SetState
  <2>3. BlockInv(r)'
    BY <1>1, <1>2, <2>1, <2>2 DEF BlockInv
  <2>4. \A q \in Prog \ {p} : state'[q] = state[q]
    BY <1>1, <2>2
  <2>5. \A t \in Rt \ {r} : seen'[t] = seen[t]
    BY <1>1, <2>1
  <2>6. /\ SemInv' /\ freed' = freed /\ \A q \in Prog \ {p} : waiting'[q] = waiting[q]
        /\ waiting'[p] = IF state'[p] = "BLOCKED" /\ pc'[r] \notin MidPc
                         THEN <<sem'[p], blocked_idx'[p]>> ELSE Uninit
    BY <1>0, <1>2, <2>1, <2>3, <2>4, <2>5, TurnSem DEF TurnPc
  <2>7. waiting'[p] = waiting[p]
    BY <1>1, <1>2, <1>3, <2>1, <2>2, <2>6 DEF BlockInv, MidPc, Waited
  <2> QED
    BY <2>1, <2>6, <2>7, Stutters
<1>7. CASE DownBlock(r)
  <2>1. /\ pc[r] = "downblock" /\ pc' = [pc EXCEPT ![r] = "downsem"]
        /\ UNCHANGED <<rtVars, sh, sem, blocked_idx, count, seen>>
    BY <1>7 DEF DownBlock, semVars
  <2>2. state' = [state EXCEPT ![p] = "BLOCKED"]
    BY <1>7 DEF DownBlock, SetState
  <2>3. BlockInv(r)'
    BY <1>1, <1>2, <2>1, <2>2 DEF BlockInv
  <2>4. \A q \in Prog \ {p} : state'[q] = state[q]
    BY <1>1, <2>2
  <2>5. \A t \in Rt \ {r} : seen'[t] = seen[t]
    BY <1>1, <2>1
  <2>6. /\ SemInv' /\ freed' = freed /\ \A q \in Prog \ {p} : waiting'[q] = waiting[q]
        /\ waiting'[p] = IF state'[p] = "BLOCKED" /\ pc'[r] \notin MidPc
                         THEN <<sem'[p], blocked_idx'[p]>> ELSE Uninit
    BY <1>0, <1>2, <2>1, <2>3, <2>4, <2>5, TurnSem DEF TurnPc
  <2>7. waiting'[p] = waiting[p]
    BY <1>1, <1>2, <1>3, <2>1, <2>2, <2>6 DEF BlockInv, MidPc, Waited
  <2> QED
    BY <2>1, <2>6, <2>7, Stutters
<1>13. CASE DownIdx(r) \/ SearchKilled(r)
  <2>1. /\ pc[r] \in {"down", "exec"}
        /\ UNCHANGED <<rtVars, sh, state, sem, count, seen>>
    BY <1>13 DEF DownIdx, SearchKilled, semVars, progVars, thrVars
  <2>2. PICK l \in {"downblock", "exec"} : pc' = [pc EXCEPT ![r] = l]
    <3>1. pc = [pc EXCEPT ![r] = pc[r]]
      BY <1>1
    <3> QED
      BY <1>13, <2>1, <3>1 DEF DownIdx, SearchKilled, thrVars
  <2>3. \A q \in Prog \ {p} : blocked_idx'[q] = blocked_idx[q]
    BY <1>1, <1>13 DEF DownIdx, SearchKilled, progVars
  <2>4. BlockInv(r)' /\ state[p] # "BLOCKED"
    BY <1>1, <1>2, <2>1, <2>2 DEF BlockInv
  <2>5. /\ SemInv' /\ freed' = freed /\ \A q \in Prog \ {p} : waiting'[q] = waiting[q]
        /\ waiting'[p] = IF state'[p] = "BLOCKED" /\ l \notin MidPc
                         THEN <<sem'[p], blocked_idx'[p]>> ELSE Uninit
    BY <1>0, <2>1, <2>2, <2>3, <2>4, TurnSem DEF TurnPc
  <2>6. waiting'[p] = waiting[p]
    BY <1>3, <2>1, <2>4, <2>5
  <2> QED
    BY <2>1, <2>5, <2>6, Stutters
<1>8. CASE Sleep(r) \/ UnblockWrite(r)
  <2>1. /\ pc[r] \in {"sleep", "unblockwrite"} /\ pc' = [pc EXCEPT ![r] = "check"]
        /\ UNCHANGED <<rtVars, sh, sem, blocked_idx, count, seen>>
    BY <1>8 DEF Sleep, UnblockWrite, semVars
  <2>2. \/ pc[r] = "sleep" /\ state' = state
        \/ state' = [state EXCEPT ![p] = "INSTRUCTION_LINE"]
    BY <1>8 DEF Sleep, UnblockWrite, SetState
  <2>3. BlockInv(r)'
    BY <1>1, <1>2, <2>1, <2>2 DEF BlockInv
  <2>4. \A q \in Prog \ {p} : state'[q] = state[q]
    BY <1>1, <2>2
  <2>5. \A t \in Rt \ {r} : seen'[t] = seen[t]
    BY <1>1, <2>1
  <2>6. /\ SemInv' /\ freed' = freed /\ \A q \in Prog \ {p} : waiting'[q] = waiting[q]
        /\ waiting'[p] = IF state'[p] = "BLOCKED" /\ pc'[r] \notin MidPc
                         THEN <<sem'[p], blocked_idx'[p]>> ELSE Uninit
    BY <1>0, <1>2, <2>1, <2>3, <2>4, <2>5, TurnSem DEF TurnPc
  <2>7. waiting'[p] = waiting[p]
    BY <1>1, <1>2, <1>3, <2>1, <2>2, <2>6 DEF BlockInv, MidPc, Waited
  <2> QED
    BY <2>1, <2>6, <2>7, Stutters
<1>9. CASE \/ TestReady(r) \/ SliceOver(r) \/ Check(r) \/ ExecGlobal(r) \/ EndLineRead(r)
           \/ SliceGoesOn(r) \/ UnblockTest(r)
  <2>1. UNCHANGED <<rtVars, sh, state, sem, blocked_idx, count>>
    BY <1>9 DEF TestReady, SliceOver, Check, ExecGlobal, EndLineRead, SliceGoesOn,
       UnblockTest, progVars, semVars
  <2>2. \A t \in Rt \ {r} : seen'[t] = seen[t]
    BY <1>1, <1>9 DEF TestReady, SliceOver, Check, ExecGlobal, EndLineRead, SliceGoesOn,
       UnblockTest
  <2>3. PICK l \in TurnPc : /\ pc' = [pc EXCEPT ![r] = l]
                            /\ l \in MidPc <=> pc[r] \in MidPc /\ state[p] = "BLOCKED"
                            /\ BlockInv(r)'
    <3>1. CASE TestReady(r)
      BY <1>1, <1>2, <2>1, <3>1 DEF TestReady, BlockInv, TurnPc, MidPc
    <3>2. CASE SliceOver(r) \/ Check(r)
      BY <1>1, <1>2, <2>1, <3>2 DEF SliceOver, Check, BlockInv, TurnPc, MidPc
    <3>3. CASE ExecGlobal(r)
      BY <1>1, <1>2, <2>1, <3>3 DEF ExecGlobal, BlockInv, TurnPc, MidPc
    <3>4. CASE EndLineRead(r)
      BY <1>1, <1>2, <2>1, <3>4 DEF EndLineRead, BlockInv, TurnPc, MidPc
    <3>5. CASE SliceGoesOn(r)
      BY <1>1, <1>2, <2>1, <3>5 DEF SliceGoesOn, BlockInv, TurnPc, MidPc
    <3>6. CASE UnblockTest(r)
      BY <1>1, <1>2, <2>1, <3>6 DEF UnblockTest, BlockInv, TurnPc, MidPc
    <3> QED
      BY <1>9, <3>1, <3>2, <3>3, <3>4, <3>5, <3>6
  <2>4. /\ SemInv' /\ freed' = freed /\ \A q \in Prog \ {p} : waiting'[q] = waiting[q]
        /\ waiting'[p] = IF state'[p] = "BLOCKED" /\ l \notin MidPc THEN <<sem'[p], blocked_idx'[p]>> ELSE Uninit
    BY <1>0, <2>1, <2>2, <2>3, TurnSem
  <2>5. waiting'[p] = waiting[p]
    BY <1>2, <1>3, <2>1, <2>3, <2>4 DEF BlockInv, MidPc, Waited
  <2> QED
    BY <2>1, <2>4, <2>5, Stutters
<1>10. CASE Up(r) \/ Store(r)
  <2>1. /\ pc[r] \in {"up", "store"} /\ pc' = [pc EXCEPT ![r] = "endline"]
        /\ UNCHANGED <<rtVars, sh, state, sem, blocked_idx, seen>>
    BY <1>10 DEF Up, Store, progVars
  <2>2. BlockInv(r)'
    BY <1>2, <2>1 DEF BlockInv
  <2>3. /\ SemInv' /\ freed' = freed /\ \A q \in Prog \ {p} : waiting'[q] = waiting[q]
        /\ waiting'[p] = IF state'[p] = "BLOCKED" THEN <<sem'[p], blocked_idx'[p]>> ELSE Uninit
    BY <1>0, <2>1, <2>2, TurnSem DEF TurnPc, MidPc
  <2>4. waiting'[p] = waiting[p]
    BY <1>2, <1>3, <2>1, <2>3 DEF BlockInv
  <2>5. waiting' = waiting
    <3>1. [q \in Prog |-> waiting'[q]] = [q \in Prog |-> waiting[q]]
      BY <2>3, <2>4
    <3> QED
      BY <3>1, WaitingIsFunction
  <2>6. arg[r] \in Sems
    BY <1>1, <2>1 DEF GlobalPc
  <2>7. CASE Up(r)
    <3>1. Semaphores!Up(arg[r])
      BY <2>3, <2>5, <2>7 DEF Up, Semaphores!Up
    <3> QED
      BY <2>3, <2>6, <3>1 DEF SemStep, Semaphores!Next
  <2>8. CASE Store(r)
    <3>1. "store" \in Instructions
      BY <1>2, <2>8 DEF Store, BlockInv
    <3>2. PICK v \in 0 .. MaxCount : Semaphores!Store(arg[r], v)
      BY <2>3, <2>5, <2>8 DEF Store, Semaphores!Store
    <3> QED
      BY <2>3, <2>6, <3>1, <3>2 DEF SemStep, Semaphores!Next
  <2> QED
    BY <1>10, <2>7, <2>8
<1>11. CASE DownSem(r)
  <2>1. /\ pc[r] = "downsem" /\ pc' = [pc EXCEPT ![r] = "endline"]
        /\ UNCHANGED <<rtVars, sh, state, blocked_idx, seen, count>>
        /\ sem' = [sem EXCEPT ![p] = VarOf(arg[r])]
    BY <1>11 DEF DownSem, semVars
  <2>2. /\ BlockInv(r)' /\ state[p] = "BLOCKED" /\ arg[r] \in Sems
        /\ <<sem'[p], blocked_idx'[p]>> = arg[r]
    BY <1>1, <1>2, <2>1 DEF BlockInv, TurnInv, GlobalPc
  <2>3. \A q \in Prog \ {p} : sem'[q] = sem[q]
    BY <1>1, <2>1
  <2>4. /\ SemInv' /\ freed' = freed /\ \A q \in Prog \ {p} : waiting'[q] = waiting[q]
        /\ waiting'[p] = IF state'[p] = "BLOCKED" THEN <<sem'[p], blocked_idx'[p]>> ELSE Uninit
    BY <1>0, <2>1, <2>2, <2>3, TurnSem DEF TurnPc, MidPc
  <2>5. waiting[p] = Uninit /\ waiting'[p] = arg[r]
    BY <1>1, <1>3, <2>1, <2>2, <2>4 DEF MidPc
  <2>6. waiting' = [waiting EXCEPT ![p] = arg[r]]
    <3>1. [q \in Prog |-> waiting'[q]] = [q \in Prog |-> IF q = p THEN arg[r] ELSE waiting[q]]
      BY <2>4, <2>5
    <3> QED
      BY <3>1, WaitingIsFunction
  <2>7. Semaphores!Request(p, arg[r])
    BY <2>1, <2>2, <2>4, <2>5, <2>6 DEF Semaphores!Request, freed
  <2> QED
    BY <1>1, <2>2, <2>4, <2>7 DEF SemStep, Semaphores!Next
<1>12. CASE Blocked(r) \/ TimedWaitEnds(r)
  <2> DEFINE s == Waited(p)
  <2>1. /\ pc[r] \in {"blocked", "timedwait"}
        /\ UNCHANGED <<rtVars, sh, state, sem, blocked_idx, seen>>
    BY <1>12 DEF Blocked, TimedWaitEnds, progVars
  <2>2. state[p] = "BLOCKED" /\ s # Uninit /\ waiting[p] = s
    BY <1>0, <1>1, <1>2, <1>3, <2>1 DEF BlockInv, TurnInv, MidPc
  <2>3. CASE TakeToken(r, s)
    <3>1. pc' = [pc EXCEPT ![r] = "unblock"] /\ count[s] > 0
          /\ count' = [count EXCEPT ![s] = @ - 1]
      BY <2>3 DEF TakeToken
    <3>2. BlockInv(r)'
      BY <1>2, <2>1, <2>2, <3>1 DEF BlockInv
    <3>3. /\ SemInv' /\ freed' = freed /\ \A q \in Prog \ {p} : waiting'[q] = waiting[q]
          /\ waiting'[p] = Uninit
      BY <1>0, <2>1, <3>1, <3>2, TurnSem DEF TurnPc, MidPc
    <3>4. waiting' = [waiting EXCEPT ![p] = Uninit]
      <4>1. [q \in Prog |-> waiting'[q]] = [q \in Prog |-> IF q = p THEN Uninit ELSE waiting[q]]
        BY <3>3
      <4> QED
        BY <4>1, WaitingIsFunction
    <3>5. Semaphores!Take(p)
      BY <2>2, <3>1, <3>3, <3>4 DEF Semaphores!Take
    <3> QED
      BY <1>1, <3>3, <3>5 DEF SemStep, Semaphores!Next
  <2>4. CASE ~TakeToken(r, s)
    <3>1. PICK l \in {"timedwait", "check"} : pc' = [pc EXCEPT ![r] = l]
      BY <1>12, <2>4 DEF Blocked, TimedWaitEnds
    <3>2. count' = count
      BY <1>12, <2>4 DEF Blocked, TimedWaitEnds, semVars
    <3>3. BlockInv(r)'
      BY <1>2, <2>1, <2>2, <3>1 DEF BlockInv
    <3>4. /\ SemInv' /\ freed' = freed /\ \A q \in Prog \ {p} : waiting'[q] = waiting[q]
          /\ waiting'[p] = <<sem'[p], blocked_idx'[p]>>
      BY <1>0, <2>1, <2>2, <3>1, <3>3, TurnSem DEF TurnPc, MidPc
    <3> QED
      BY <2>1, <2>2, <3>2, <3>4, Stutters DEF Waited
  <2> QED
    BY <2>3, <2>4
<1> QED
  BY <1>4, <1>5, <1>6, <1>7, <1>8, <1>9, <1>10, <1>11, <1>12, <1>13
     DEF InstructionTurn, BlockedTurn

LEMMA BetweenTurnsSem ==
  ASSUME IInv, SemInv, NEW r \in Rt,
         \/ TestRunning(r) \/ Acquire(r) \/ MustWait(r) \/ TakeHead(r) \/ CondWait(r)
         \/ SpuriousWakeup(r) \/ LeaveLoop(r) \/ Dispatch(r) \/ DispatchFreed(r)
         \/ ClearCursor(r) \/ Advance(r)
  PROVE  SemInv' /\ SemStep
<1> USE DEF At, Goto
<1>1. /\ pc \in [Rt -> PcLabel] /\ curr \in [Rt -> Prog \cup {Null}]
      /\ seen \in [Rt -> ProgState \cup {"none"}]
  BY DEF IInv, TypeOK
<1>2. UNCHANGED <<state, sem, blocked_idx, count, sh>>
  BY DEF TestRunning, Acquire, MustWait, TakeHead, CondWait, SpuriousWakeup, LeaveLoop,
     Dispatch, DispatchFreed, ClearCursor, Advance, progVars, semVars
<1>3. \A t \in Rt \ {r} : curr'[t] = curr[t] /\ seen'[t] = seen[t]
  <2>1. CASE Dispatch(r)
    BY <1>1, <2>1 DEF Dispatch, rtVars
  <2>2. CASE ~Dispatch(r)
    BY <1>1, <2>2 DEF TestRunning, Acquire, MustWait, TakeHead, CondWait, SpuriousWakeup,
       LeaveLoop, DispatchFreed, ClearCursor, Advance, MoveCursor, rtVars, thrVars
  <2> QED
    BY <2>1, <2>2
<1>4. PICK l \in PcLabel : /\ pc' = [pc EXCEPT ![r] = l]
                           /\ pc[r] \notin MidPc /\ l \notin MidPc
                           /\ BlockInv(r)'
  <2>1. CASE Dispatch(r)
    <3>1. PICK l \in {"scan", "sleep", "blocked", "check"} :
             /\ pc' = [pc EXCEPT ![r] = l]
             /\ l \in {"scan", "sleep"} => state[curr[r]] # "BLOCKED"
             /\ l = "blocked" => state[curr[r]] = "BLOCKED"
      BY <2>1 DEF Dispatch
    <3>2. pc[r] = "loop" /\ curr' = curr
      BY <2>1 DEF Dispatch, rtVars
    <3>3. BlockInv(r)'
      BY <1>1, <1>2, <3>1, <3>2 DEF BlockInv
    <3> QED
      BY <3>1, <3>2, <3>3 DEF PcLabel, TurnPc, MidPc
  <2>2. CASE ~Dispatch(r)
    <3>1. PICK l \in {"running", "acquire", "done", "test", "wait", "waiting", "loop"} :
             pc' = [pc EXCEPT ![r] = l]
      <4>1. CASE DispatchFreed(r)
        <5>1. pc' = [pc EXCEPT ![r] = "loop"]
          BY <1>1, <4>1 DEF DispatchFreed, thrVars
        <5> QED
          BY <5>1
      <4> QED
        BY <2>2, <4>1 DEF TestRunning, Acquire, MustWait, TakeHead, CondWait, SpuriousWakeup,
           LeaveLoop, ClearCursor, Advance
    <3>2. pc[r] \notin MidPc
      BY <2>2 DEF TestRunning, Acquire, MustWait, TakeHead, CondWait, SpuriousWakeup,
         LeaveLoop, DispatchFreed, ClearCursor, Advance, MidPc
    <3>3. BlockInv(r)'
      BY <1>1, <3>1 DEF BlockInv
    <3> QED
      BY <3>1, <3>2, <3>3 DEF PcLabel, MidPc
  <2> QED
    BY <2>1, <2>2
<1>5. SemInv'
  BY <1>2, <1>3, <1>4, OtherThreads
<1>6. \A t \in Rt : pc'[t] = IF t = r THEN l ELSE pc[t]
  BY <1>1, <1>4
<1>7. ASSUME NEW q \in Prog PROVE waiting'[q] = waiting[q]
  BY <1>2, <1>3, <1>4, <1>6, WaitingKept
<1>8. freed' = freed
  BY <1>2 DEF freed
<1> QED
  BY <1>2, <1>5, <1>7, <1>8, Stutters

LEMMA DetachSem ==
  ASSUME IInv, SemInv, NEW r \in Rt, Detach(r)
  PROVE  SemInv' /\ SemStep
<1> DEFINE p == curr[r]
<1>1. /\ pc[r] = "detach" /\ pc' = [pc EXCEPT ![r] = "detached"]
      /\ curr' = [curr EXCEPT ![r] = NextNode(program_list[r], p)]
      /\ UNCHANGED <<count, seen, sh>>
  BY DEF Detach, MoveCursor, At, Goto, semVars
<1>2. p \in Prog /\ p \in Listed(r)
  BY <1>1, OwnProgram DEF TurnPc
<1>3. /\ \A q \in Prog \ {p} : /\ state'[q] = state[q] /\ sem'[q] = sem[q]
                              /\ blocked_idx'[q] = blocked_idx[q]
      /\ state'[p] = "FREED"
  BY <1>2 DEF Detach, FreePrograms
<1>4. \A t \in Rt : /\ pc'[t] = IF t = r THEN "detached" ELSE pc[t]
                    /\ t # r => curr'[t] = curr[t]
  BY <1>1 DEF IInv, TypeOK
<1>5. BlockInv(r)'
  BY <1>4 DEF BlockInv
<1>6. SemInv'
  BY <1>1, <1>2, <1>3, <1>4, <1>5, OtherThreads
<1>7. ASSUME NEW q \in Prog \ {p} PROVE waiting'[q] = waiting[q]
  BY <1>1, <1>3, <1>4, WaitingKept DEF MidPc
<1>8. waiting'[p] = Uninit
  BY <1>2, <1>3 DEF waiting
<1>9. {p} \in SUBSET Prog /\ freed' = freed \cup {p}
  BY <1>2, <1>3 DEF freed
<1> QED
  BY <1>1, <1>6, <1>7, <1>8, <1>9, Leaves

-----------------------------------------------------------------------------
(***************************************************************************)
(* The steps of the shell, none of them a step of kill.                    *)
(***************************************************************************)
\* A step of the shell that leaves every turn and every waiting alone.
LEMMA ShellSem ==
  ASSUME IInv, SemInv,
         UNCHANGED <<curr, count, seen>>, NoKill',
         \A t \in Rt : pc'[t] = pc[t] \/ (pc[t] = "waiting" /\ pc'[t] = "acquire"),
         \A q \in Prog : sem'[q] = sem[q] /\ blocked_idx'[q] = blocked_idx[q],
         \A q \in Prog : \/ state'[q] = state[q]
                         \/ state'[q] # "BLOCKED" /\ \A t \in Rt : q \notin Listed(t)
  PROVE  /\ SemInv'
         /\ \A q \in Prog : state'[q] = state[q] => waiting'[q] = waiting[q]
<1>1. ASSUME NEW t \in Rt PROVE BlockInv(t)'
  <2>1. CASE pc[t] \in TurnPc
    <3>1. curr[t] \in Prog /\ curr[t] \in Listed(t)
      BY <2>1, OwnProgram
    <3> QED
      BY <2>1, <3>1 DEF SemInv, BlockInv, TurnPc
  <2>2. CASE pc[t] \notin TurnPc
    BY <2>2 DEF BlockInv, TurnPc
  <2> QED
    BY <2>1, <2>2
<1>2. ASSUME NEW q \in Prog, state'[q] = state[q]
      PROVE  waiting'[q] = waiting[q]
  BY <1>2, WaitingKept DEF MidPc
<1> QED
  BY <1>1, <1>2 DEF SemInv

LEMMA ShellStepsSem ==
  ASSUME "kill" \notin Commands, IInv, SemInv, StartCommand \/ ShellGoesOn, ~Join, ~Attach
  PROVE  SemInv' /\ SemStep
<1> USE DEF ShellAt, ShellGoto, NextRuntime
<1>1. ~(KillSearch \/ KillReadSem \/ KillPost \/ KillPostOutside \/ KillSetState \/ KillSetFlag)
  BY DEF SemInv, NoKill, KillLabel, KillSearch, KillReadSem, KillPost, KillPostOutside,
     KillSetState, KillSetFlag
<1>2. \/ StartCommand \/ EndCommand \/ ReadCount \/ ListRuntime \/ ListFreed \/ StopFlag
      \/ StopSignal \/ Exit
  BY <1>1 DEF ShellGoesOn
<1>3. UNCHANGED <<curr, state, sem, blocked_idx, count, seen>>
  BY <1>2 DEF StartCommand, EndCommand, ReadCount, ListRuntime, ListFreed, StopFlag,
     StopSignal, Exit, rtVars, progVars, semVars, thrVars
<1>4. \A t \in Rt : pc'[t] = pc[t] \/ (pc[t] = "waiting" /\ pc'[t] = "acquire")
  <2>1. CASE StopSignal
    BY <2>1 DEF StopSignal, SignalIfEmpty, Signal, IInv, TypeOK
  <2>2. CASE ~StopSignal
    BY <1>2, <2>2 DEF StartCommand, EndCommand, ReadCount, ListRuntime, ListFreed, StopFlag,
       Exit, thrVars
  <2> QED
    BY <2>1, <2>2
<1>5. NoKill'
  <2>1. sh \in ShellRecord
    BY ShellTypes
  <2>2. CASE StartCommand
    BY <2>1, <2>2 DEF StartCommand, ShellRecord, NoKill, KillLabel
  <2>3. CASE EndCommand \/ ListFreed
    BY <2>3 DEF EndCommand, ListFreed, ShellIdle, SemInv, NoKill, KillLabel
  <2>4. CASE ReadCount \/ ListRuntime \/ Exit \/ StopFlag \/ StopSignal
    BY <2>1, <2>4 DEF ReadCount, ListRuntime, Exit, StopFlag, StopSignal, ShellRecord,
       NoKill, KillLabel
  <2> QED
    BY <1>2, <2>2, <2>3, <2>4
<1>6. freed' = freed
  BY <1>3 DEF freed
<1> QED
  BY <1>3, <1>4, <1>5, <1>6, ShellSem, Stutters

LEMMA AttachSem ==
  ASSUME IInv, SemInv, Attach
  PROVE  SemInv' /\ SemStep
<1>1. /\ sh.minIdx \in Rt /\ id_cnt \in Prog /\ state[id_cnt] = "UNBORN"
      /\ UNCHANGED <<curr, count, seen, sem, blocked_idx>> /\ NoKill'
  BY ShellTypes DEF Attach, ShellAt, IInv, ShellInv, ShellRecord, Prog, semVars, ShellIdle,
     NoKill, KillLabel
<1>2. \A t \in Rt : pc'[t] = pc[t] \/ (pc[t] = "waiting" /\ pc'[t] = "acquire")
  BY <1>1 DEF Attach, SignalIfEmpty, Signal, IInv, TypeOK
<1>3. \A q \in Prog : state'[q] = IF q = id_cnt THEN "MAGIC_LINE" ELSE state[q]
  BY <1>1 DEF Attach, IInv, TypeOK
<1>4. \A t \in Rt : id_cnt \notin Listed(t)
  BY <1>1 DEF IInv, ListInv, ProgState
<1>5. /\ SemInv'
      /\ \A q \in Prog : state'[q] = state[q] => waiting'[q] = waiting[q]
  BY <1>1, <1>2, <1>3, <1>4, ShellSem
<1>6. waiting[id_cnt] = Uninit /\ waiting'[id_cnt] = Uninit
  BY <1>1, <1>3 DEF waiting
<1>7. \A q \in Prog : waiting'[q] = waiting[q]
  BY <1>1, <1>3, <1>5, <1>6
<1>8. freed' = freed
  BY <1>1, <1>3 DEF freed
<1> QED
  BY <1>1, <1>5, <1>7, <1>8, Stutters

LEMMA JoinSem ==
  ASSUME IInv, SemInv, Join
  PROVE  SemInv' /\ SemStep
<1> DEFINE C == Listed(sh.i)
<1>1. /\ sh.i \in Rt /\ pc[sh.i] = "done" /\ sh \in ShellRecord
      /\ UNCHANGED <<curr, pc, seen, count>>
  BY ShellTypes DEF Join, ShellAt, At, IInv, ShellInv, thrVars, semVars
<1>2. sh'.at = "stop"
  BY <1>1 DEF Join, NextRuntime, ShellRecord
<1>3. /\ \A q \in Prog \ C : /\ state'[q] = state[q] /\ sem'[q] = sem[q]
                              /\ blocked_idx'[q] = blocked_idx[q]
      /\ \A q \in Prog : q \in C => state'[q] = "FREED"
  BY DEF Join, FreePrograms
<1>4. ASSUME NEW t \in Rt PROVE BlockInv(t)'
  <2>1. CASE pc[t] \in TurnPc
    <3>1. curr[t] \in Prog \ C
      BY <1>1, <2>1, OwnProgram DEF TurnPc
    <3> QED
      BY <1>1, <1>3, <3>1 DEF SemInv, BlockInv
  <2>2. CASE pc[t] \notin TurnPc
    BY <1>1, <2>2 DEF BlockInv, TurnPc
  <2> QED
    BY <2>1, <2>2
<1>5. SemInv'
  BY <1>2, <1>4 DEF SemInv, NoKill, KillLabel
<1>6. ASSUME NEW q \in Prog \ C PROVE waiting'[q] = waiting[q]
  BY <1>1, <1>3, WaitingKept
<1>7. C \in SUBSET Prog
  BY <1>1 DEF IInv, TypeOK, Listed, Range
<1>8. \A q \in C : waiting'[q] = Uninit
  BY <1>3, <1>7 DEF waiting
<1>9. freed' = freed \cup C
  BY <1>3, <1>7 DEF freed
<1> QED
  BY <1>1, <1>5, <1>6, <1>7, <1>8, <1>9, Leaves

-----------------------------------------------------------------------------
(***************************************************************************)
(* The theorem.                                                            *)
(***************************************************************************)
LEMMA InitSem == Init => SemInv /\ Semaphores!Init
<1> SUFFICES ASSUME Init PROVE SemInv /\ Semaphores!Init
  OBVIOUS
<1>1. SemInv
  BY DEF Init, SemInv, NoKill, KillLabel, ShellIdle, BlockInv
<1>2. \A q \in Prog : waiting[q] = Uninit
  BY DEF Init, waiting
<1>3. waiting = [q \in Prog |-> Uninit]
  BY <1>2, WaitingIsFunction
<1>4. freed = {}
  BY DEF Init, freed
<1> QED
  BY <1>1, <1>3, <1>4 DEF Init, Semaphores!Init

LEMMA NextSem ==
  ASSUME "kill" \notin Commands, IInv, IInv', RaceInv, SemInv, [Next]_vars
  PROVE  SemInv' /\ SemStep
<1>1. ASSUME NEW r \in Rt, Thread(r) \/ SpuriousWakeup(r)
      PROVE  SemInv' /\ SemStep
  BY <1>1, InTurnSem, BetweenTurnsSem, DetachSem DEF Thread
<1>2. CASE StartCommand \/ ShellGoesOn
  BY <1>2, ShellStepsSem, AttachSem, JoinSem
<1>3. CASE UNCHANGED vars
  <2>1. UNCHANGED <<curr, state, sem, blocked_idx, count, pc, seen, sh>>
    BY <1>3 DEF vars, rtVars, progVars, semVars, thrVars
  <2>2. SemInv'
    BY <2>1 DEF SemInv, NoKill, BlockInv
  <2>3. \A q \in Prog : waiting'[q] = waiting[q]
    BY <2>1, WaitingKept
  <2>4. freed' = freed
    BY <2>1 DEF freed
  <2> QED
    BY <2>1, <2>2, <2>3, <2>4, Stutters
<1> QED
  BY <1>1, <1>2, <1>3 DEF Next, Ended

\* Without kill, the polling of program_state_blocked and the writes of
\* global_var_down implement semaphores: a DOWN is passed with exactly one
\* token of its element, or the program is freed and never asks again,
\* whatever the threads, the programs and the turns.
THEOREM RuntimeImplementsSemaphores ==
  ASSUME "kill" \notin Commands
  PROVE  Spec => ImplementsSemaphores
<1>1. IInv /\ IInv' /\ RaceInv /\ SemInv /\ [Next]_vars => SemInv' /\ SemStep
  BY NextSem
<1> QED
  BY <1>1, InitSem, RaceInvariant, PTL
     DEF Spec, ImplementsSemaphores, Semaphores!Spec, SemStep

=============================================================================
