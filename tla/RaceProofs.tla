----------------------------- MODULE RaceProofs -----------------------------
(***************************************************************************)
(* For any number of runtime threads, programs and semaphores: where the   *)
(* races of the shell with a turn end, that a last line is executed, that  *)
(* only a program that is done is freed, and that run spreads the programs *)
(* evenly, though it reads the counts of the runtimes one after the other  *)
(* while the threads detach programs.                                      *)
(***************************************************************************)
EXTENDS RuntimeProofs, FiniteSetTheorems

-----------------------------------------------------------------------------
(***************************************************************************)
(* The inductive invariant, beside IInv of RuntimeProofs.                  *)
(***************************************************************************)
\* the places between the scan of a last line and the end of its execution
LastLinePc == {"ready", "exec", "up", "down", "downblock", "store", "endline", "endwrite"}

\* the state of a program in the middle of a turn, by the place of its thread
TurnInv(r) ==
  LET p == curr[r] IN
  /\ pc[r] = "detach" => state[p] = "FINISHED" \/ error_flag[p]
  /\ pc[r] \in TurnPc /\ state[p] = "LAST_LINE" => pc[r] \in LastLinePc
  /\ pc[r] = "endwrite" /\ state[p] = "LAST_LINE" => seen[r] = "LAST_LINE"
  /\ pc[r] \in {"blocked", "timedwait"} =>
        \/ state[p] = "BLOCKED"
        \/ state[p] = "FINISHED" /\ (error_flag[p] \/ (sh.at = "killflag" /\ sh.prog = p))
  /\ pc[r] \in {"exec", "down", "downblock"} => state[p] # "BLOCKED"
  /\ pc[r] \in {"downblock", "downsem"} => blocked_idx[p] = IdxOf(arg[r])
  /\ pc[r] = "endwrite" /\ seen[r] = "BLOCKED" => Waited(p) \in Sems
  /\ pc[r] \in TurnPc /\ state[p] = "BLOCKED" /\ Waited(p) \notin Sems => pc[r] = "downsem"

\* the cursor, as CursorGap has it
CursorInv(r) ==
  curr[r] \notin Listed(r) \cup {Null} /\ running[r] =>
     /\ state[curr[r]] = "FREED"
     /\ pc[r] = "detached" \/ (pc[r] = "loop" /\ program_list[r] # <<>>)

InTurnOf(r, p) == pc[r] \in TurnPc /\ curr[r] = p

\* what is true of a program between two turns
Idle(p) == state[p] # "LAST_LINE" /\ (state[p] = "BLOCKED" => Waited(p) \in Sems)

ProgInv == \A p \in Prog : Idle(p) \/ \E r \in Rt : InTurnOf(r, p)

RaceInv ==
  /\ \A r \in Rt : TurnInv(r) /\ CursorInv(r)
  /\ ProgInv
  /\ KillFindsSemaphore

-----------------------------------------------------------------------------
(***************************************************************************)
(* What a step leaves of the invariant of a thread it is not a step of.    *)
(***************************************************************************)
\* A thread in a turn has its program for itself.
LEMMA OwnProgram ==
  ASSUME IInv, NEW r \in Rt, pc[r] \in TurnPc
  PROVE  /\ curr[r] \in Listed(r) /\ curr[r] \in Prog /\ state[curr[r]] \in ProgState
         /\ \A t \in Rt \ {r} : curr[r] \notin Listed(t)
<1>1. curr[r] \in Listed(r)
  BY DEF IInv, ThreadInv
<1>2. curr[r] \in Prog
  BY <1>1 DEF IInv, TypeOK, Listed, Range
<1>3. \A t \in Rt \ {r} : Listed(r) \cap Listed(t) = {}
  BY DEF IInv, ListInv
<1> QED
  BY <1>1, <1>2, <1>3 DEF IInv, ListInv

LEMMA TurnInvKept ==
  ASSUME NEW t \in Rt, TurnInv(t),
         pc'[t] = pc[t] \/ pc'[t] \notin TurnPc,
         curr'[t] = curr[t], seen'[t] = seen[t], arg'[t] = arg[t],
         pc[t] \in TurnPc => /\ state'[curr[t]] = state[curr[t]]
                            /\ error_flag'[curr[t]] = error_flag[curr[t]]
                            /\ sem'[curr[t]] = sem[curr[t]]
                            /\ blocked_idx'[curr[t]] = blocked_idx[curr[t]],
         sh' = sh \/ sh.at # "killflag"
  PROVE  TurnInv(t)'
<1>1. CASE pc'[t] \notin TurnPc
  BY <1>1 DEF TurnInv, TurnPc
<1>2. CASE pc[t] \notin TurnPc
  BY <1>2 DEF TurnInv, TurnPc
<1>3. CASE pc[t] \in TurnPc /\ pc'[t] = pc[t]
  BY <1>3 DEF TurnInv, TurnPc, Waited
<1> QED
  BY <1>1, <1>2, <1>3

\* The cursor of another thread may dangle only to a program that is on no
\* list, and such a program stays as it is.
LEMMA CursorInvKept ==
  ASSUME IInv, NEW t \in Rt, CursorInv(t),
         pc'[t] = pc[t] \/ pc[t] \notin {"loop", "detached"},
         curr'[t] = curr[t], program_list'[t] = program_list[t],
         running'[t] => running[t],
         state[curr[t]] = "FREED" => state'[curr[t]] = "FREED"
  PROVE  CursorInv(t)'
BY DEF CursorInv, Listed

-----------------------------------------------------------------------------
(***************************************************************************)
(* The steps of a thread.                                                  *)
(***************************************************************************)
LEMMA TurnRace ==
  ASSUME IInv, RaceInv, NEW r \in Rt, pc[r] \in TurnPc, NEW l \in TurnPc,
         pc' = [pc EXCEPT ![r] = l],
         UNCHANGED <<rtVars, sh>>,
         \A q \in Prog \ {curr[r]} : /\ state'[q] = state[q] /\ sem'[q] = sem[q]
                                    /\ blocked_idx'[q] = blocked_idx[q]
                                    /\ error_flag'[q] = error_flag[q],
         \A t \in Rt \ {r} : seen'[t] = seen[t] /\ arg'[t] = arg[t],
         Waited(curr[r]) \in Sems \/ pc[r] \in {"downblock", "downsem"} =>
            \/ <<sem'[curr[r]], blocked_idx'[curr[r]]>> \in Sems \/ l = "downsem"
            \/ l = "downblock" /\ sem'[curr[r]] # Uninit,
         TurnInv(r)'
  PROVE  RaceInv'
<1> USE DEF RaceInv
<1> DEFINE p == curr[r]
<1>1. UNCHANGED <<running, program_list, curr, program_cnt, lock, sh>>
  BY DEF rtVars
<1>2. /\ p \in Listed(r) /\ p \in Prog /\ state[p] \in ProgState
      /\ \A t \in Rt \ {r} : p \notin Listed(t)
  BY OwnProgram
<1>3. \A t \in Rt : pc'[t] = IF t = r THEN l ELSE pc[t]
  BY DEF IInv, TypeOK
<1>4. ASSUME NEW t \in Rt PROVE TurnInv(t)'
  <2>1. CASE t = r
    BY <2>1
  <2>2. CASE t # r
    <3>1. pc[t] \in TurnPc => curr[t] \in Prog \ {p}
      BY <1>2, <2>2, OwnProgram
    <3>2. /\ TurnInv(t) /\ pc'[t] = pc[t] /\ curr'[t] = curr[t]
          /\ seen'[t] = seen[t] /\ arg'[t] = arg[t]
      BY <1>1, <1>3, <2>2
    <3> QED
      BY <1>1, <3>1, <3>2, TurnInvKept
  <2> QED
    BY <2>1, <2>2
<1>5. ASSUME NEW t \in Rt PROVE CursorInv(t)'
  <2>1. CASE t = r
    BY <1>1, <1>2, <2>1 DEF CursorInv, Listed
  <2>2. CASE t # r
    <3>1. curr[t] \in Prog \cup {Null}
      BY DEF IInv, TypeOK
    <3>2. CASE curr[t] = Null
      BY <1>1, <3>2 DEF CursorInv
    <3>3. CASE curr[t] = p
      BY <1>1, <1>2, <2>2, <3>3 DEF CursorInv, ProgState
    <3>4. CASE curr[t] \in Prog \ {p}
      BY <1>1, <1>3, <2>2, <3>4, CursorInvKept
    <3> QED
      BY <3>1, <3>2, <3>3, <3>4
  <2> QED
    BY <2>1, <2>2
<1>6. ProgInv'
  <2> SUFFICES ASSUME NEW q \in Prog
               PROVE  Idle(q)' \/ \E t \in Rt : InTurnOf(t, q)'
    BY DEF ProgInv
  <2>1. CASE q = p
    BY <1>1, <1>3, <2>1 DEF InTurnOf
  <2>2. CASE q # p
    <3>1. Idle(q)' <=> Idle(q)
      BY <2>2 DEF Idle, Waited
    <3>2. \A t \in Rt : InTurnOf(t, q) => InTurnOf(t, q)'
      BY <1>1, <1>3, <2>2 DEF InTurnOf
    <3> QED
      BY <3>1, <3>2 DEF ProgInv
  <2> QED
    BY <2>1, <2>2
<1>7. KillFindsSemaphore'
  <2> SUFFICES ASSUME sh.at = "killsem", Waited(sh.prog)' \notin Sems
               PROVE  /\ curr'[sh.i] = sh.prog
                      /\ \/ pc'[sh.i] = "downsem"
                         \/ pc'[sh.i] = "downblock" /\ sem'[sh.prog] # Uninit
    BY <1>1 DEF KillFindsSemaphore, ShellAt, At, Waited
  <2>1. sh.i \in Rt /\ sh.prog \in Prog /\ sh.prog \in Listed(sh.i)
    BY DEF IInv, ShellInv, KillLabel, TypeOK, Listed, Range
  <2>2. CASE sh.prog = p
    <3>1. sh.i = r
      BY <1>2, <2>1, <2>2
    <3>2. Waited(p) \in Sems \/ pc[r] \in {"downblock", "downsem"}
      BY <2>2, <3>1 DEF KillFindsSemaphore, ShellAt, At
    <3> QED
      BY <1>1, <1>3, <2>2, <3>1, <3>2 DEF Waited
  <2>3. CASE sh.prog # p
    <3>1. Waited(sh.prog) \notin Sems /\ sem'[sh.prog] = sem[sh.prog]
      BY <2>1, <2>3 DEF Waited
    <3>2. /\ curr[sh.i] = sh.prog
          /\ pc[sh.i] = "downsem" \/ (pc[sh.i] = "downblock" /\ sem[sh.prog] # Uninit)
      BY <3>1 DEF KillFindsSemaphore, ShellAt, At
    <3> QED
      BY <1>1, <1>3, <2>1, <2>3, <3>1, <3>2
  <2> QED
    BY <2>2, <2>3
<1> QED
  BY <1>4, <1>5, <1>6, <1>7

\* A step between two turns: the programs stay as they are, and the thread
\* that goes on to the next program leaves an idle one behind.
LEMMA LoopRace ==
  ASSUME IInv, RaceInv, NEW r \in Rt, NEW l \in PcLabel, NEW c \in Prog \cup {Null},
         pc[r] \notin TurnPc \/ pc[r] = "advance",
         pc' = [pc EXCEPT ![r] = l],
         curr' = [curr EXCEPT ![r] = c],
         UNCHANGED <<running, program_list, progVars, arg, sh>>,
         \A t \in Rt \ {r} : seen'[t] = seen[t],
         TurnInv(r)', CursorInv(r)'
  PROVE  RaceInv'
<1> USE DEF RaceInv
<1>1. UNCHANGED <<running, program_list, state, error_flag, sem, blocked_idx, arg, sh>>
  BY DEF progVars
<1>2. \A t \in Rt : /\ pc'[t] = IF t = r THEN l ELSE pc[t]
                    /\ curr'[t] = IF t = r THEN c ELSE curr[t]
  BY DEF IInv, TypeOK
<1>3. ASSUME NEW t \in Rt PROVE TurnInv(t)'
  BY <1>1, <1>2, TurnInvKept
<1>4. ASSUME NEW t \in Rt PROVE CursorInv(t)'
  BY <1>1, <1>2, CursorInvKept
<1>5. ProgInv'
  <2> SUFFICES ASSUME NEW q \in Prog
               PROVE  Idle(q)' \/ \E t \in Rt : InTurnOf(t, q)'
    BY DEF ProgInv
  <2>1. Idle(q)' <=> Idle(q)
    BY <1>1 DEF Idle, Waited
  <2>2. CASE Idle(q)
    BY <2>1, <2>2
  <2>3. CASE InTurnOf(r, q)
    BY <2>1, <2>3 DEF InTurnOf, TurnInv, Idle, TurnPc, LastLinePc
  <2>4. ASSUME NEW t \in Rt \ {r}, InTurnOf(t, q)
        PROVE  InTurnOf(t, q)'
    BY <1>2, <2>4 DEF InTurnOf
  <2> QED
    BY <2>2, <2>3, <2>4 DEF ProgInv
<1>6. KillFindsSemaphore'
  <2>1. pc[r] \notin {"downblock", "downsem"}
    BY DEF TurnPc
  <2>2. sh.at = "killsem" => sh.i \in Rt
    BY DEF IInv, ShellInv, KillLabel
  <2> QED
    BY <1>1, <1>2, <2>1, <2>2 DEF KillFindsSemaphore, Waited, ShellAt, At
<1> QED
  BY <1>3, <1>4, <1>5, <1>6

\* The steps of the do-while, of Sleep and of program_state_blocked, and the
\* test at the end.
LEMMA InTurnRace ==
  ASSUME IInv, RaceInv, NEW r \in Rt,
         InstructionTurn(r) \/ Sleep(r) \/ BlockedTurn(r) \/ Check(r)
  PROVE  RaceInv'
<1> DEFINE p == curr[r]
<1> USE DEF At, Goto
<1>0. pc[r] \in TurnPc
  BY DEF InstructionTurn, Sleep, BlockedTurn, Check, Scan, TestReady, ExecHere, ExecGlobal,
     SearchKilled, Up, Store, DownIdx, DownBlock, DownSem, EndLineRead, EndLineWrite,
     SliceGoesOn, SliceOver, Blocked, TimedWaitEnds, UnblockTest, UnblockWrite, TurnPc
<1>1. /\ p \in Prog /\ r \in Rt
      /\ pc \in [Rt -> PcLabel] /\ seen \in [Rt -> ProgState \cup {"none"}]
      /\ arg \in [Rt -> Sems \cup {Uninit}]
      /\ state \in [Prog -> ProgState \cup {"UNBORN", "FREED"}]
      /\ error_flag \in [Prog -> BOOLEAN] /\ sem \in [Prog -> Globals \cup {Uninit}]
      /\ blocked_idx \in [Prog -> Nat \cup {Uninit}]
      /\ pc[r] \in GlobalPc => arg[r] \in Sems /\ arg[r] = <<VarOf(arg[r]), IdxOf(arg[r])>>
      /\ \A s \in Sems : s[1] # Uninit
  BY <1>0, OwnProgram, RuntimeAssumption DEF IInv, TypeOK, ThreadInv, VarOf, IdxOf
<1>2. /\ TurnInv(r)
      /\ \A l : pc' = [pc EXCEPT ![r] = l] => pc'[r] = l
      /\ rtVars' = rtVars => curr' = curr
  BY <1>1 DEF RaceInv, rtVars
<1>3. CASE Scan(r)
  <2>1. /\ pc[r] = "scan" /\ pc' = [pc EXCEPT ![r] = "ready"]
        /\ UNCHANGED <<rtVars, sh, sem, blocked_idx, arg>>
        /\ seen' = [seen EXCEPT ![r] = "none"]
    BY <1>3 DEF Scan
  <2>2. \/ state' = state
        \/ \E s \in {"FINISHED", "INSTRUCTION_LINE", "LAST_LINE"} :
              state' = [state EXCEPT ![p] = s]
    BY <1>3 DEF Scan, StopWithError, SetState
  <2>3. error_flag' = error_flag \/ error_flag' = [error_flag EXCEPT ![p] = TRUE]
    BY <1>3 DEF Scan, StopWithError
  <2>4. TurnInv(r)'
    BY <1>1, <1>2, <2>1, <2>2 DEF TurnInv, TurnPc, LastLinePc, Waited
  <2>5. \A q \in Prog \ {p} : state'[q] = state[q] /\ error_flag'[q] = error_flag[q]
    BY <1>1, <2>2, <2>3
  <2>6. \A t \in Rt \ {r} : seen'[t] = seen[t] /\ arg'[t] = arg[t]
    BY <1>1, <2>1
  <2>7. sem'[p] = sem[p] /\ blocked_idx'[p] = blocked_idx[p]
    BY <2>1
  <2> QED
    BY <1>0, <2>1, <2>4, <2>5, <2>6, <2>7, TurnRace DEF TurnPc, Waited
<1>4. CASE TestReady(r) \/ SliceOver(r) \/ Check(r)
  <2>1. /\ UNCHANGED <<rtVars, sh, state, error_flag, sem, blocked_idx, seen, arg>>
        /\ pc[r] \in {"ready", "slice", "check"}
    BY <1>4 DEF TestReady, SliceOver, Check, progVars
  <2>2. PICK l \in {"exec", "slice", "check", "detach", "advance"} :
           /\ pc' = [pc EXCEPT ![r] = l]
           /\ l # "exec" => pc[r] # "ready" \/ state[p] # "LAST_LINE"
           /\ l = "detach" => state[p] = "FINISHED" \/ error_flag[p]
           /\ l = "exec" => pc[r] = "ready" /\ state[p] # "BLOCKED"
    <3>1. CASE TestReady(r)
      BY <3>1 DEF TestReady
    <3>2. CASE SliceOver(r)
      BY <3>2 DEF SliceOver
    <3>3. CASE Check(r)
      BY <3>3 DEF Check
    <3> QED
      BY <1>4, <3>1, <3>2, <3>3
  <2>3. TurnInv(r)'
    BY <1>1, <1>2, <2>1, <2>2 DEF TurnInv, TurnPc, LastLinePc, Waited
  <2> QED
    BY <1>0, <2>1, <2>2, <2>3, TurnRace DEF TurnPc, Waited
<1>5. CASE ExecHere(r)
  <2>1. /\ pc[r] = "exec" /\ pc' = [pc EXCEPT ![r] = "endline"]
        /\ UNCHANGED <<rtVars, sh, sem, blocked_idx, seen, arg>>
    BY <1>5 DEF ExecHere
  <2>2. \/ state' = state
        \/ \E s \in {"FINISHED", "SLEEPING", "INSTRUCTION_LINE", "LAST_LINE"} :
              state' = [state EXCEPT ![p] = s]
    BY <1>5 DEF ExecHere, StopWithError, SetState
  <2>3. error_flag' = error_flag \/ error_flag' = [error_flag EXCEPT ![p] = TRUE]
    BY <1>5 DEF ExecHere, StopWithError
  <2>4. TurnInv(r)'
    BY <1>1, <1>2, <2>1, <2>2 DEF TurnInv, TurnPc, LastLinePc, Waited
  <2>5. \A q \in Prog \ {p} : state'[q] = state[q] /\ error_flag'[q] = error_flag[q]
    BY <1>1, <2>2, <2>3
  <2>6. sem'[p] = sem[p] /\ blocked_idx'[p] = blocked_idx[p]
    BY <2>1
  <2> QED
    BY <1>0, <2>1, <2>4, <2>5, <2>6, TurnRace DEF TurnPc, Waited
<1>6. CASE ExecGlobal(r)
  <2>1. PICK op \in {"up", "down", "store"}, s \in Sems :
           arg' = [arg EXCEPT ![r] = s] /\ pc' = [pc EXCEPT ![r] = op]
    BY <1>6 DEF ExecGlobal
  <2>2. pc[r] = "exec" /\ UNCHANGED <<rtVars, sh, state, error_flag, sem, blocked_idx, seen>>
    BY <1>6 DEF ExecGlobal, progVars
  <2>3. TurnInv(r)'
    BY <1>1, <1>2, <2>1, <2>2 DEF TurnInv, TurnPc, LastLinePc, Waited
  <2>4. \A t \in Rt \ {r} : arg'[t] = arg[t]
    BY <1>1, <2>1
  <2> QED
    BY <1>0, <2>1, <2>2, <2>3, <2>4, TurnRace DEF TurnPc, Waited
<1>7. CASE Up(r) \/ Store(r)
  <2>1. /\ pc[r] \in {"up", "store"} /\ pc' = [pc EXCEPT ![r] = "endline"]
        /\ UNCHANGED <<rtVars, sh, state, error_flag, sem, blocked_idx, seen>>
        /\ arg' = [arg EXCEPT ![r] = Uninit]
    BY <1>7 DEF Up, Store, progVars
  <2>2. TurnInv(r)'
    BY <1>1, <1>2, <2>1 DEF TurnInv, TurnPc, LastLinePc, Waited
  <2>3. \A t \in Rt \ {r} : arg'[t] = arg[t]
    BY <1>1, <2>1
  <2> QED
    BY <1>0, <2>1, <2>2, <2>3, TurnRace DEF TurnPc, Waited
<1>8. CASE DownIdx(r)
  <2>1. /\ pc[r] = "down" /\ pc' = [pc EXCEPT ![r] = "downblock"]
        /\ UNCHANGED <<rtVars, sh, state, error_flag, sem, seen, arg>>
        /\ blocked_idx' = [blocked_idx EXCEPT ![p] = IdxOf(arg[r])]
    BY <1>8 DEF DownIdx
  <2>2. TurnInv(r)'
    BY <1>1, <1>2, <2>1 DEF TurnInv, TurnPc, LastLinePc
  <2>3. \A q \in Prog \ {p} : blocked_idx'[q] = blocked_idx[q]
    BY <1>1, <2>1
  <2>4. Waited(p) \in Sems => sem'[p] # Uninit
    BY <1>1, <2>1 DEF Waited
  <2> QED
    BY <1>0, <2>1, <2>2, <2>3, <2>4, TurnRace DEF TurnPc
<1>15. CASE DownBlock(r)
  <2>1. /\ pc[r] = "downblock" /\ pc' = [pc EXCEPT ![r] = "downsem"]
        /\ UNCHANGED <<rtVars, sh, error_flag, sem, blocked_idx, seen, arg>>
        /\ state' = [state EXCEPT ![p] = "BLOCKED"]
    BY <1>15 DEF DownBlock, SetState
  <2>2. TurnInv(r)'
    BY <1>1, <1>2, <2>1 DEF TurnInv, TurnPc, LastLinePc
  <2>3. \A q \in Prog \ {p} : state'[q] = state[q]
    BY <1>1, <2>1
  <2> QED
    BY <1>0, <2>1, <2>2, <2>3, TurnRace DEF TurnPc
<1>9. CASE DownSem(r)
  <2>1. /\ pc[r] = "downsem" /\ pc' = [pc EXCEPT ![r] = "endline"]
        /\ UNCHANGED <<rtVars, sh, state, error_flag, blocked_idx, seen>>
        /\ sem' = [sem EXCEPT ![p] = VarOf(arg[r])]
        /\ arg' = [arg EXCEPT ![r] = Uninit]
    BY <1>9 DEF DownSem
  <2>2. <<sem'[p], blocked_idx'[p]>> \in Sems
    BY <1>1, <1>2, <2>1 DEF TurnInv, GlobalPc
  <2>3. TurnInv(r)'
    BY <1>1, <1>2, <2>1, <2>2 DEF TurnInv, TurnPc, LastLinePc, Waited
  <2>4. \A q \in Prog \ {p} : sem'[q] = sem[q]
    BY <1>1, <2>1
  <2>5. \A t \in Rt \ {r} : arg'[t] = arg[t]
    BY <1>1, <2>1
  <2> QED
    BY <1>0, <2>1, <2>2, <2>3, <2>4, <2>5, TurnRace DEF TurnPc
<1>16. CASE SearchKilled(r)
  <2>1. /\ pc[r] = "exec" /\ pc' = [pc EXCEPT ![r] = "exec"]
        /\ UNCHANGED <<rtVars, sh, state, error_flag, sem, blocked_idx, seen, arg>>
    BY <1>1, <1>16 DEF SearchKilled, progVars, thrVars
  <2>2. TurnInv(r)'
    BY <1>1, <1>2, <2>1 DEF TurnInv, TurnPc, LastLinePc, Waited
  <2> QED
    BY <1>0, <2>1, <2>2, TurnRace DEF TurnPc, Waited
<1>10. CASE EndLineRead(r)
  <2>1. /\ pc[r] = "endline" /\ pc' = [pc EXCEPT ![r] = "endwrite"]
        /\ UNCHANGED <<rtVars, sh, state, error_flag, sem, blocked_idx, arg>>
        /\ seen' = [seen EXCEPT ![r] = state[p]]
    BY <1>10 DEF EndLineRead, progVars
  <2>2. seen'[r] = state[p] /\ \A t \in Rt \ {r} : seen'[t] = seen[t]
    BY <1>1, <2>1
  <2>3. TurnInv(r)'
    BY <1>1, <1>2, <2>1, <2>2 DEF TurnInv, TurnPc, LastLinePc, Waited
  <2> QED
    BY <1>0, <2>1, <2>2, <2>3, TurnRace DEF TurnPc, Waited
<1>11. CASE EndLineWrite(r)
  <2>1. /\ pc[r] = "endwrite" /\ pc' = [pc EXCEPT ![r] = "slice"]
        /\ UNCHANGED <<rtVars, sh, error_flag, sem, blocked_idx, arg>>
        /\ seen' = [seen EXCEPT ![r] = "none"]
    BY <1>11 DEF EndLineWrite
  <2>2. \/ seen[r] = "LAST_LINE" /\ state' = [state EXCEPT ![p] = "FINISHED"]
        \/ seen[r] # "LAST_LINE" /\ state' = [state EXCEPT ![p] = seen[r]]
        \/ seen[r] # "LAST_LINE" /\ state' = state
    BY <1>11 DEF EndLineWrite, SetState
  <2>3. TurnInv(r)'
    BY <1>1, <1>2, <2>1, <2>2 DEF TurnInv, TurnPc, LastLinePc, Waited
  <2>4. \A q \in Prog \ {p} : state'[q] = state[q]
    BY <1>1, <2>2
  <2>5. \A t \in Rt \ {r} : seen'[t] = seen[t]
    BY <1>1, <2>1
  <2> QED
    BY <1>0, <2>1, <2>3, <2>4, <2>5, TurnRace DEF TurnPc, Waited
<1>12. CASE SliceGoesOn(r)
  <2>1. /\ pc[r] = "slice" /\ pc' = [pc EXCEPT ![r] = "scan"]
        /\ UNCHANGED <<rtVars, sh, state, error_flag, sem, blocked_idx, arg>>
        /\ seen' = [seen EXCEPT ![r] = "INSTRUCTION_LINE"]
    BY <1>12 DEF SliceGoesOn, progVars
  <2>2. TurnInv(r)'
    BY <1>1, <1>2, <2>1 DEF TurnInv, TurnPc, LastLinePc, Waited
  <2>3. \A t \in Rt \ {r} : seen'[t] = seen[t]
    BY <1>1, <2>1
  <2> QED
    BY <1>0, <2>1, <2>2, <2>3, TurnRace DEF TurnPc, Waited
<1>13. CASE Sleep(r) \/ UnblockTest(r) \/ UnblockWrite(r)
  <2>1. PICK l \in {"unblockwrite", "check"} : pc' = [pc EXCEPT ![r] = l]
    BY <1>13 DEF Sleep, UnblockTest, UnblockWrite
  <2>2. /\ pc[r] \in {"sleep", "unblock", "unblockwrite"}
        /\ UNCHANGED <<rtVars, sh, error_flag, sem, blocked_idx, seen, arg>>
        /\ state' = state \/ state' = [state EXCEPT ![p] = "INSTRUCTION_LINE"]
    BY <1>13 DEF Sleep, UnblockTest, UnblockWrite, SetState, progVars
  <2>3. TurnInv(r)'
    BY <1>1, <1>2, <2>1, <2>2 DEF TurnInv, TurnPc, LastLinePc, Waited
  <2>4. \A q \in Prog \ {p} : state'[q] = state[q]
    BY <1>1, <2>2
  <2> QED
    BY <1>0, <2>1, <2>2, <2>3, <2>4, TurnRace DEF TurnPc, Waited
<1>14. CASE Blocked(r) \/ TimedWaitEnds(r)
  <2>1. PICK l \in {"unblock", "timedwait", "check"} : pc' = [pc EXCEPT ![r] = l]
    BY <1>14 DEF Blocked, TimedWaitEnds, TakeToken
  <2>2. /\ pc[r] \in {"blocked", "timedwait"}
        /\ UNCHANGED <<rtVars, sh, state, error_flag, sem, blocked_idx, seen, arg>>
    BY <1>14 DEF Blocked, TimedWaitEnds, progVars
  <2>3. TurnInv(r)'
    BY <1>1, <1>2, <2>1, <2>2 DEF TurnInv, TurnPc, LastLinePc, Waited
  <2> QED
    BY <1>0, <2>1, <2>2, <2>3, TurnRace DEF TurnPc, Waited
<1> QED
  BY <1>3, <1>4, <1>5, <1>6, <1>7, <1>8, <1>9, <1>10, <1>11, <1>12, <1>13, <1>14,
     <1>15, <1>16 DEF InstructionTurn, BlockedTurn

\* The steps between two turns, and those that begin and end one.
LEMMA BetweenTurnsRace ==
  ASSUME IInv, RaceInv, NEW r \in Rt,
         \/ TestRunning(r) \/ Acquire(r) \/ MustWait(r) \/ TakeHead(r) \/ CondWait(r)
         \/ SpuriousWakeup(r) \/ LeaveLoop(r) \/ Dispatch(r) \/ ClearCursor(r)
         \/ Advance(r)
  PROVE  RaceInv'
<1> USE DEF At, Goto
<1>1. /\ curr[r] \in Prog \cup {Null} /\ curr = [curr EXCEPT ![r] = curr[r]]
      /\ curr \in [Rt -> Prog \cup {Null}] /\ pc \in [Rt -> PcLabel]
      /\ seen \in [Rt -> ProgState \cup {"none"}] /\ program_list[r] \in Seq(Prog)
      /\ TurnInv(r) /\ CursorInv(r)
  BY DEF IInv, TypeOK, RaceInv
<1>2. CASE TestRunning(r) \/ Acquire(r) \/ MustWait(r) \/ CondWait(r) \/ SpuriousWakeup(r)
           \/ LeaveLoop(r)
  <2>1. PICK l \in {"running", "acquire", "done", "test", "wait", "waiting"} :
           pc' = [pc EXCEPT ![r] = l]
    BY <1>2 DEF TestRunning, Acquire, MustWait, CondWait, SpuriousWakeup, LeaveLoop
  <2>2. /\ UNCHANGED <<running, program_list, curr, progVars, seen, arg, sh>>
        /\ pc[r] \in {"running", "acquire", "test", "wait", "waiting", "loop"}
        /\ pc[r] = "loop" => curr[r] = Null \/ ~running[r]
    BY <1>2 DEF TestRunning, Acquire, MustWait, CondWait, SpuriousWakeup, LeaveLoop, rtVars
  <2>3. pc'[r] = l /\ l \in PcLabel \ TurnPc /\ pc[r] \notin TurnPc
    BY <1>1, <2>1, <2>2 DEF PcLabel, TurnPc
  <2>4. TurnInv(r)'
    BY <2>3 DEF TurnInv, TurnPc
  <2>5. CursorInv(r)'
    BY <1>1, <2>2 DEF CursorInv, Listed
  <2> QED
    BY <1>1, <2>1, <2>2, <2>3, <2>4, <2>5, LoopRace
<1>3. CASE TakeHead(r)
  <2> DEFINE c == HeadNode(program_list[r])
  <2>1. c \in Prog \cup {Null} /\ (c # Null => c \in Listed(r))
    <3>1. CASE program_list[r] = <<>>
      BY <3>1 DEF HeadNode
    <3>2. CASE program_list[r] # <<>>
      <4>1. 1 \in 1 .. Len(program_list[r]) /\ program_list[r][1] \in Prog
        BY <1>1, <3>2
      <4> QED
        BY <1>1, <3>2, <4>1, RangeOfList DEF HeadNode, Listed
    <3> QED
      BY <3>1, <3>2
  <2>2. /\ pc[r] = "test" /\ pc' = [pc EXCEPT ![r] = "loop"]
        /\ curr' = [curr EXCEPT ![r] = c]
        /\ UNCHANGED <<running, program_list, progVars, seen, arg, sh>>
    BY <1>3 DEF TakeHead
  <2>3. pc'[r] = "loop" /\ curr'[r] = c
    BY <1>1, <2>2
  <2>4. TurnInv(r)' /\ CursorInv(r)'
    BY <2>1, <2>2, <2>3 DEF TurnInv, CursorInv, Listed, TurnPc
  <2> HIDE DEF c
  <2> QED
    BY <2>1, <2>2, <2>4, LoopRace DEF PcLabel, TurnPc
<1>4. CASE Dispatch(r)
  <2>1. /\ UNCHANGED <<running, program_list, curr, progVars, arg, sh>>
        /\ pc[r] = "loop" /\ curr[r] \in Listed(r)
    BY <1>4 DEF Dispatch, rtVars
  <2>2. PICK l \in {"scan", "sleep", "blocked", "check"} :
           /\ pc' = [pc EXCEPT ![r] = l]
           /\ l = "blocked" => state[curr[r]] = "BLOCKED"
    BY <1>4 DEF Dispatch
  <2>3. \A t \in Rt \ {r} : seen'[t] = seen[t]
    BY <1>1, <1>4 DEF Dispatch
  <2>4. Idle(curr[r])
    <3>1. curr[r] \in Prog /\ \A t \in Rt \ {r} : curr[r] \notin Listed(t)
      <4>1. \A t \in Rt \ {r} : Listed(r) \cap Listed(t) = {}
        BY DEF IInv, ListInv
      <4>2. curr[r] \in Prog
        BY <1>1, <2>1 DEF Listed, Range
      <4> QED
        BY <2>1, <4>1, <4>2
    <3>2. \A t \in Rt : ~InTurnOf(t, curr[r])
      BY <2>1, <3>1 DEF InTurnOf, IInv, ThreadInv, TurnPc
    <3> QED
      BY <3>1, <3>2 DEF RaceInv, ProgInv
  <2>5. pc'[r] = l
    BY <1>1, <2>2
  <2>6. TurnInv(r)' /\ CursorInv(r)'
    BY <2>1, <2>2, <2>4, <2>5 DEF TurnInv, CursorInv, Idle, Listed, progVars, Waited
  <2> QED
    BY <1>1, <2>1, <2>2, <2>3, <2>6, LoopRace DEF PcLabel, TurnPc
<1>5. CASE ClearCursor(r)
  <2>1. /\ UNCHANGED <<running, program_list, progVars, seen, arg, sh>>
        /\ pc[r] = "detached" /\ pc' = [pc EXCEPT ![r] = "loop"]
    BY <1>5 DEF ClearCursor
  <2>2. PICK c \in {curr[r], Null} :
           /\ curr' = [curr EXCEPT ![r] = c]
           /\ program_list[r] = <<>> => c = Null
    BY <1>1, <1>5 DEF ClearCursor
  <2>3. pc'[r] = "loop" /\ curr'[r] = c
    BY <1>1, <2>1, <2>2
  <2>4. TurnInv(r)' /\ CursorInv(r)'
    BY <1>1, <2>1, <2>2, <2>3 DEF TurnInv, CursorInv, Listed, progVars, TurnPc
  <2> QED
    BY <1>1, <2>1, <2>2, <2>4, LoopRace DEF PcLabel, TurnPc
<1>6. CASE Advance(r)
  <2> DEFINE c == NextNode(program_list[r], curr[r])
  <2>1. /\ UNCHANGED <<running, program_list, progVars, seen, arg, sh>>
        /\ pc[r] = "advance" /\ pc' = [pc EXCEPT ![r] = "loop"]
        /\ curr' = [curr EXCEPT ![r] = c]
    BY <1>6 DEF Advance, MoveCursor
  <2>2. curr[r] \in Range(program_list[r])
    BY <2>1, OwnProgram DEF TurnPc, Listed
  <2>3. c \in Listed(r) /\ c \in Prog
    BY <1>1, <2>2, NextNodeListed DEF Listed
  <2>4. pc'[r] = "loop" /\ curr'[r] = c
    BY <1>1, <2>1
  <2>5. TurnInv(r)' /\ CursorInv(r)'
    BY <2>1, <2>3, <2>4 DEF TurnInv, CursorInv, Listed, TurnPc
  <2> HIDE DEF c
  <2> QED
    BY <2>1, <2>3, <2>5, LoopRace DEF PcLabel
<1> QED
  BY <1>2, <1>3, <1>4, <1>5, <1>6

\* The cursor of a thread that has detached its last program dangles to
\* that program.
LEMMA DetachRace ==
  ASSUME IInv, RaceInv, NEW r \in Rt, Detach(r)
  PROVE  RaceInv'
<1> USE DEF RaceInv
<1> DEFINE p == curr[r]
           l == program_list[r]
<1>1. /\ pc[r] = "detach" /\ pc' = [pc EXCEPT ![r] = "detached"] /\ lock[r] = "free"
      /\ curr' = [curr EXCEPT ![r] = NextNode(l, p)]
      /\ program_list' = [program_list EXCEPT ![r] = DeleteNode(l, p)]
      /\ UNCHANGED <<running, seen, arg, sh>>
  BY DEF Detach, MoveCursor, Unlist, At, Goto
<1>2. /\ \A q \in Prog \ {p} : /\ state'[q] = state[q] /\ sem'[q] = sem[q]
                              /\ blocked_idx'[q] = blocked_idx[q]
                              /\ error_flag'[q] = error_flag[q]
      /\ p \in Prog => state'[p] = "FREED"
  BY DEF Detach, FreePrograms, IInv, TypeOK
<1>3. /\ p \in Listed(r) /\ p \in Prog /\ l \in Seq(Prog) /\ IsInjective(l)
      /\ \A t \in Rt \ {r} : p \notin Listed(t)
  BY <1>1, OwnProgram DEF IInv, TypeOK, ListInv, TurnPc
<1>4. /\ Range(DeleteNode(l, p)) = Listed(r) \ {p}
      /\ NextNode(l, p) \in Listed(r)
  BY <1>3, DeleteNodeList, NextNodeListed DEF Listed
<1>5. \A t \in Rt : /\ pc'[t] = IF t = r THEN "detached" ELSE pc[t]
                    /\ curr'[t] = IF t = r THEN NextNode(l, p) ELSE curr[t]
                    /\ program_list'[t] = IF t = r THEN DeleteNode(l, p) ELSE program_list[t]
  BY <1>1 DEF IInv, TypeOK
<1>6. ASSUME NEW t \in Rt PROVE TurnInv(t)'
  <2>1. CASE t = r
    BY <1>5, <2>1 DEF TurnInv, TurnPc
  <2>2. CASE t # r
    <3>1. pc[t] \in TurnPc => curr[t] \in Prog \ {p}
      BY <1>3, <2>2, OwnProgram
    <3> QED
      BY <1>1, <1>2, <1>5, <2>2, <3>1, TurnInvKept
  <2> QED
    BY <2>1, <2>2
<1>7. ASSUME NEW t \in Rt PROVE CursorInv(t)'
  <2>1. CASE t = r
    <3>1. Listed(r)' = Listed(r) \ {p}
      BY <1>4, <1>5 DEF Listed
    <3> QED
      BY <1>2, <1>3, <1>4, <1>5, <2>1, <3>1 DEF CursorInv
  <2>2. CASE t # r
    <3>1. curr[t] \in Prog \cup {Null}
      BY DEF IInv, TypeOK
    <3>2. CASE curr[t] = Null
      BY <1>5, <2>2, <3>2 DEF CursorInv
    <3>3. CASE curr[t] \in Prog
      <4>1. state[curr[t]] = "FREED" => state'[curr[t]] = "FREED"
        BY <1>2, <3>3
      <4> QED
        BY <1>1, <1>5, <2>2, <4>1, CursorInvKept
    <3> QED
      BY <3>1, <3>2, <3>3
  <2> QED
    BY <2>1, <2>2
<1>8. ProgInv'
  <2> SUFFICES ASSUME NEW q \in Prog
               PROVE  Idle(q)' \/ \E t \in Rt : InTurnOf(t, q)'
    BY DEF ProgInv
  <2>1. CASE q = p
    BY <1>2, <2>1 DEF Idle
  <2>2. CASE q # p
    <3>1. Idle(q)' <=> Idle(q)
      BY <1>2, <2>2 DEF Idle, Waited
    <3>2. \A t \in Rt : InTurnOf(t, q) => InTurnOf(t, q)'
      BY <1>5, <2>2 DEF InTurnOf
    <3> QED
      BY <3>1, <3>2 DEF ProgInv
  <2> QED
    BY <2>1, <2>2
<1>9. KillFindsSemaphore'
  <2> SUFFICES ASSUME sh.at = "killsem", Waited(sh.prog)' \notin Sems
               PROVE  /\ curr'[sh.i] = sh.prog
                      /\ \/ pc'[sh.i] = "downsem"
                         \/ pc'[sh.i] = "downblock" /\ sem'[sh.prog] # Uninit
    BY <1>1 DEF KillFindsSemaphore, ShellAt, At, Waited
  <2>1. sh.i \in Rt /\ sh.prog \in Listed(sh.i) /\ sh.prog \in Prog /\ sh.i # r
    BY <1>1 DEF IInv, LockInv, ShellInv, KillLabel, TypeOK, Listed, Range
  <2>2. Waited(sh.prog) \notin Sems /\ sem'[sh.prog] = sem[sh.prog]
    <3>1. sh.prog \in Prog \ {p} /\ sh' = sh
      BY <1>1, <1>3, <2>1
    <3>2. sem'[sh.prog] = sem[sh.prog] /\ blocked_idx'[sh.prog] = blocked_idx[sh.prog]
      BY <1>2, <3>1
    <3> QED
      BY <3>1, <3>2 DEF Waited
  <2> QED
    BY <1>5, <2>1, <2>2 DEF KillFindsSemaphore, ShellAt, At
<1> QED
  BY <1>6, <1>7, <1>8, <1>9

LEMMA ThreadRace ==
  ASSUME IInv, RaceInv, NEW r \in Rt, Thread(r) \/ SpuriousWakeup(r)
  PROVE  RaceInv'
<1>1. CASE DispatchFreed(r)
  BY <1>1 DEF DispatchFreed, rtVars, progVars, thrVars, RaceInv, TurnInv, CursorInv, ProgInv,
     Idle, InTurnOf, KillFindsSemaphore, Waited, Listed, ShellAt, At
<1> QED
  BY <1>1, InTurnRace, BetweenTurnsRace, DetachRace DEF Thread

-----------------------------------------------------------------------------
(***************************************************************************)
(* The steps of the shell.  Only run, kill and quit touch the programs.    *)
(***************************************************************************)
LEMMA ShellRace ==
  ASSUME IInv, RaceInv,
         UNCHANGED <<program_list, curr, progVars, seen, arg>>,
         \A t \in Rt : /\ running'[t] => running[t]
                       /\ \/ pc'[t] = pc[t]
                          \/ pc[t] = "waiting" /\ pc'[t] = "acquire",
         sh.at # "killflag",
         KillFindsSemaphore'
  PROVE  RaceInv'
<1> USE DEF RaceInv
<1>1. UNCHANGED <<program_list, curr, state, error_flag, sem, blocked_idx, seen, arg>>
  BY DEF progVars
<1>2. ASSUME NEW t \in Rt PROVE TurnInv(t)' /\ CursorInv(t)'
  BY <1>1, TurnInvKept, CursorInvKept DEF TurnPc
<1>3. ProgInv'
  BY <1>1 DEF ProgInv, Idle, Waited, InTurnOf, TurnPc
<1> QED
  BY <1>2, <1>3

LEMMA CommandRaces ==
  ASSUME IInv, RaceInv,
         \/ StartCommand \/ EndCommand \/ ReadCount \/ ListRuntime \/ ListFreed \/ Exit
         \/ KillReadSem \/ KillPost \/ KillPostOutside \/ StopFlag
  PROVE  RaceInv'
<1> USE DEF ShellAt, ShellGoto, NextRuntime
<1>1. /\ UNCHANGED <<program_list, curr, progVars, pc, seen, arg>>
      /\ sh.at # "killflag"
  BY DEF StartCommand, EndCommand, ReadCount, ListRuntime, ListFreed, Exit, KillReadSem,
     KillPost, KillPostOutside, StopFlag, rtVars, thrVars
<1>2. \A t \in Rt : running'[t] => running[t]
  <2>1. CASE StopFlag
    BY <2>1 DEF StopFlag, IInv, TypeOK
  <2>2. CASE ~StopFlag
    BY <2>2 DEF StartCommand, EndCommand, ReadCount, ListRuntime, ListFreed, Exit,
       KillReadSem, KillPost, KillPostOutside, rtVars
  <2> QED
    BY <2>1, <2>2
<1>3. sh'.at # "killsem"
  <2>1. sh \in ShellRecord
    BY ShellTypes
  <2>2. CASE StartCommand
    BY <2>1, <2>2 DEF StartCommand, ShellRecord
  <2>3. CASE EndCommand \/ KillPostOutside \/ ListFreed
    BY <2>3 DEF EndCommand, KillPostOutside, ListFreed, ShellIdle
  <2>4. CASE ReadCount \/ ListRuntime \/ Exit \/ KillReadSem \/ KillPost \/ StopFlag
    BY <2>1, <2>4 DEF ReadCount, ListRuntime, Exit, KillReadSem, KillPost, StopFlag,
       ShellRecord
  <2> QED
    BY <2>2, <2>3, <2>4
<1>4. KillFindsSemaphore'
  BY <1>3 DEF KillFindsSemaphore
<1> QED
  BY <1>1, <1>2, <1>4, ShellRace

\* kill finds a BLOCKED program idle, or in the turn that has just blocked it.
LEMMA KillSearchRace ==
  ASSUME IInv, RaceInv, KillSearch
  PROVE  RaceInv'
<1>1. /\ sh.at = "kill" /\ sh.i \in Rt /\ sh \in ShellRecord
      /\ UNCHANGED <<running, program_list, curr, progVars, pc, seen, arg>>
  BY ShellTypes DEF KillSearch, ShellAt, ShellRecord, Rt, thrVars
<1>2. KillFindsSemaphore'
  <2> SUFFICES ASSUME sh'.at = "killsem", Waited(sh'.prog) \notin Sems
               PROVE  pc[sh'.i] = "downsem" /\ curr[sh'.i] = sh'.prog
    BY <1>1 DEF KillFindsSemaphore, ShellAt, At, progVars, Waited
  <2>1. sh.id \in Listed(sh.i)
    BY <1>1 DEF KillSearch, NextRuntime, ShellRecord
  <2>2. PICK l \in {"killsem", "killstop"} :
           /\ sh' = [sh EXCEPT !.id = -1, !.prog = sh.id, !.at = l]
           /\ l = "killsem" => state[sh.id] = "BLOCKED"
    BY <2>1 DEF KillSearch
  <2>3. sh'.at = l /\ sh'.prog = sh.id /\ sh'.i = sh.i
    BY <1>1, <2>2 DEF ShellRecord
  <2>4. sh.id \in Prog /\ ~Idle(sh.id)
    <3>1. sh.id \in Prog
      BY <1>1, <2>1 DEF IInv, TypeOK, Listed, Range
    <3> QED
      BY <2>2, <2>3, <3>1 DEF Idle
  <2>5. PICK t \in Rt : InTurnOf(t, sh.id)
    BY <2>4 DEF RaceInv, ProgInv
  <2>6. t = sh.i
    BY <1>1, <2>1, <2>5, OwnProgram DEF InTurnOf
  <2> QED
    BY <2>2, <2>3, <2>5, <2>6 DEF InTurnOf, RaceInv, TurnInv
<1> QED
  BY <1>1, <1>2, ShellRace

\* program_stop writes FINISHED in the middle of a turn, and then the flag.
LEMMA KillWritesRace ==
  ASSUME IInv, RaceInv, KillSetState \/ KillSetFlag
  PROVE  RaceInv'
<1> USE DEF RaceInv
<1>1. /\ sh.prog \in Prog /\ sh \in ShellRecord /\ sh.prog \in Listed(sh.i)
      /\ state[sh.prog] \in ProgState
      /\ UNCHANGED <<running, program_list, curr, sem, blocked_idx, pc, seen, arg>>
  BY ShellTypes DEF KillSetState, KillSetFlag, ShellAt, KillLabel, IInv, ShellInv, ListInv,
     TypeOK, Listed, Range, rtVars, thrVars
<1>2. CASE KillSetState
  <2>1. /\ sh.at = "killstop" /\ sh'.at = "killflag" /\ sh'.prog = sh.prog
        /\ UNCHANGED error_flag
    BY <1>1, <1>2 DEF KillSetState, ShellAt, ShellGoto, ShellRecord
  <2>2. \A p \in Prog : state'[p] = IF p = sh.prog THEN "FINISHED" ELSE state[p]
    BY <1>2 DEF KillSetState, SetState, IInv, TypeOK
  <2>3. ASSUME NEW t \in Rt PROVE TurnInv(t)'
    <3>1. CASE pc[t] \notin TurnPc
      BY <1>1, <3>1 DEF TurnInv, TurnPc
    <3>2. CASE pc[t] \in TurnPc /\ curr[t] = sh.prog
      BY <1>1, <2>1, <2>2, <3>2 DEF TurnInv, Waited
    <3>3. CASE pc[t] \in TurnPc /\ curr[t] # sh.prog
      <4>1. curr[t] \in Prog
        BY <3>3, OwnProgram
      <4> QED
        BY <1>1, <2>1, <2>2, <3>3, <4>1 DEF TurnInv, Waited
    <3> QED
      BY <3>1, <3>2, <3>3
  <2>4. ASSUME NEW t \in Rt PROVE CursorInv(t)'
    <3>1. curr[t] \in Prog \cup {Null}
      BY DEF IInv, TypeOK
    <3>2. CASE curr[t] = Null
      BY <1>1, <3>2 DEF CursorInv
    <3>3. CASE curr[t] \in Prog
      BY <1>1, <2>2, <3>3, CursorInvKept DEF ProgState
    <3> QED
      BY <3>1, <3>2, <3>3
  <2>5. ProgInv'
    BY <1>1, <2>2 DEF ProgInv, Idle, Waited, InTurnOf
  <2>6. KillFindsSemaphore'
    BY <2>1 DEF KillFindsSemaphore, ShellAt
  <2> QED
    BY <2>3, <2>4, <2>5, <2>6
<1>3. CASE KillSetFlag
  <2>1. /\ sh.at = "killflag" /\ sh'.at = "kill" /\ UNCHANGED state
    BY <1>1, <1>3 DEF KillSetFlag, ShellAt, ShellRecord
  <2>2. \A p \in Prog : error_flag'[p] <=> p = sh.prog \/ error_flag[p]
    BY <1>3 DEF KillSetFlag, IInv, TypeOK
  <2>3. ASSUME NEW t \in Rt PROVE TurnInv(t)'
    <3>1. CASE pc[t] \notin TurnPc
      BY <1>1, <3>1 DEF TurnInv, TurnPc
    <3>2. CASE pc[t] \in TurnPc
      <4>1. curr[t] \in Prog
        BY <3>2, OwnProgram
      <4> QED
        BY <1>1, <2>1, <2>2, <4>1 DEF TurnInv, Waited
    <3> QED
      BY <3>1, <3>2
  <2>4. ASSUME NEW t \in Rt PROVE CursorInv(t)'
    BY <1>1, <2>1, CursorInvKept
  <2>5. ProgInv'
    BY <1>1, <2>1 DEF ProgInv, Idle, Waited, InTurnOf
  <2>6. KillFindsSemaphore'
    BY <2>1 DEF KillFindsSemaphore, ShellAt
  <2> QED
    BY <2>3, <2>4, <2>5, <2>6
<1> QED
  BY <1>2, <1>3

LEMMA SignalRace ==
  ASSUME IInv, RaceInv, StopSignal
  PROVE  RaceInv'
<1>1. /\ sh.at = "signal" /\ sh.i \in Rt /\ sh \in ShellRecord /\ sh'.at = "join"
      /\ UNCHANGED <<running, program_list, curr, progVars, seen, arg>>
  BY ShellTypes DEF StopSignal, ShellAt, ShellGoto, ShellRecord, IInv, ShellInv, rtVars
<1>2. \A t \in Rt : pc'[t] = pc[t] \/ (pc[t] = "waiting" /\ pc'[t] = "acquire")
  BY <1>1 DEF StopSignal, SignalIfEmpty, Signal, IInv, TypeOK
<1>3. KillFindsSemaphore'
  BY <1>1 DEF KillFindsSemaphore, ShellAt
<1> QED
  BY <1>1, <1>2, <1>3, ShellRace

\* A cursor that dangles when a program is attached goes on dangling.
LEMMA AttachRace ==
  ASSUME IInv, RaceInv, Attach
  PROVE  RaceInv'
<1> USE DEF RaceInv
<1> DEFINE r == sh.minIdx
           p == id_cnt
           l == program_list[r]
<1>1. /\ sh.at = "run" /\ sh'.at = "idle"
      /\ program_list' = [program_list EXCEPT ![r] = Append(l, p)]
      /\ UNCHANGED <<running, curr, error_flag, sem, blocked_idx, seen, arg>>
  BY DEF Attach, ShellAt, SignalIfEmpty, Enlist, ShellIdle
<1>2. r \in Rt /\ p \in Prog /\ state[p] = "UNBORN"
  BY <1>1, ShellTypes DEF IInv, ShellInv, ShellRecord, Prog
<1>3. \A q \in Prog : state'[q] = IF q = p THEN "MAGIC_LINE" ELSE state[q]
  BY <1>2 DEF Attach, IInv, TypeOK
<1>4. \A t \in Rt : pc'[t] = pc[t] \/ (pc[t] = "waiting" /\ pc'[t] = "acquire")
  BY <1>2 DEF Attach, SignalIfEmpty, Signal, IInv, TypeOK
<1>5. \A t \in Rt : Listed(t) \subseteq Listed(t)' /\ (program_list[t] # <<>> => program_list'[t] # <<>>)
  <2>1. l \in Seq(Prog) /\ IsInjective(l) /\ p \notin Range(l)
    BY <1>2 DEF IInv, TypeOK, ListInv, Listed, ProgState
  <2>2. Range(Append(l, p)) = Range(l) \cup {p} /\ Append(l, p) # <<>>
    BY <1>2, <2>1, AppendList
  <2>3. \A t \in Rt : program_list'[t] = IF t = r THEN Append(l, p) ELSE program_list[t]
    BY <1>1 DEF IInv, TypeOK
  <2> QED
    BY <2>2, <2>3 DEF Listed
<1>6. ASSUME NEW t \in Rt PROVE TurnInv(t)'
  <2>1. pc[t] \in TurnPc => curr[t] \in Prog \ {p}
    BY <1>2, OwnProgram DEF ProgState
  <2>2. pc'[t] = pc[t] \/ pc'[t] \notin TurnPc
    BY <1>4 DEF TurnPc
  <2> QED
    BY <1>1, <1>3, <2>1, <2>2, TurnInvKept
<1>7. ASSUME NEW t \in Rt PROVE CursorInv(t)'
  <2> SUFFICES ASSUME curr[t] \notin Listed(t)' \cup {Null}, running[t]
               PROVE  /\ state'[curr[t]] = "FREED"
                      /\ \/ pc'[t] = "detached"
                         \/ pc'[t] = "loop" /\ program_list'[t] # <<>>
    BY <1>1 DEF CursorInv
  <2>1. /\ state[curr[t]] = "FREED"
        /\ pc[t] = "detached" \/ (pc[t] = "loop" /\ program_list[t] # <<>>)
    BY <1>5 DEF CursorInv
  <2>2. curr[t] \in Prog
    BY DEF IInv, TypeOK
  <2> QED
    BY <1>2, <1>3, <1>4, <1>5, <2>1, <2>2
<1>8. ProgInv'
  BY <1>1, <1>3, <1>4 DEF ProgInv, Idle, Waited, InTurnOf, TurnPc
<1>9. KillFindsSemaphore'
  BY <1>1 DEF KillFindsSemaphore, ShellAt
<1> QED
  BY <1>6, <1>7, <1>8, <1>9

LEMMA JoinRace ==
  ASSUME IInv, RaceInv, Join
  PROVE  RaceInv'
<1> USE DEF RaceInv
<1> DEFINE r == sh.i
<1>1. /\ sh.at = "join" /\ r \in Rt /\ pc[r] = "done" /\ ~running[r] /\ sh \in ShellRecord
      /\ program_list' = [program_list EXCEPT ![r] = <<>>]
      /\ UNCHANGED <<running, curr, pc, seen, arg>>
  BY ShellTypes DEF Join, ShellAt, At, IInv, ShellInv, thrVars
<1>2. \A q \in Prog : /\ q \in Listed(r) => state'[q] = "FREED"
                      /\ q \notin Listed(r) => /\ state'[q] = state[q] /\ sem'[q] = sem[q]
                                              /\ blocked_idx'[q] = blocked_idx[q]
                                              /\ error_flag'[q] = error_flag[q]
  BY DEF Join, FreePrograms, IInv, TypeOK
<1>3. sh'.at = "stop"
  BY <1>1 DEF Join, NextRuntime, ShellRecord
<1>4. \A t \in Rt \ {r} : program_list'[t] = program_list[t]
  BY <1>1 DEF IInv, TypeOK
<1>5. ASSUME NEW t \in Rt PROVE TurnInv(t)'
  <2>1. pc[t] \in TurnPc => curr[t] \in Prog /\ curr[t] \notin Listed(r)
    BY <1>1, OwnProgram DEF TurnPc
  <2> QED
    BY <1>1, <1>2, <2>1, TurnInvKept
<1>6. ASSUME NEW t \in Rt PROVE CursorInv(t)'
  <2>1. CASE t = r
    BY <1>1, <2>1 DEF CursorInv
  <2>2. CASE t # r
    <3>1. curr[t] \in Prog \cup {Null}
      BY DEF IInv, TypeOK
    <3>2. CASE curr[t] = Null
      BY <1>1, <3>2 DEF CursorInv
    <3>3. CASE curr[t] \in Prog
      BY <1>1, <1>2, <1>4, <2>2, <3>3, CursorInvKept
    <3> QED
      BY <3>1, <3>2, <3>3
  <2> QED
    BY <2>1, <2>2
<1>7. ProgInv'
  <2> SUFFICES ASSUME NEW q \in Prog
               PROVE  Idle(q)' \/ \E t \in Rt : InTurnOf(t, q)'
    BY DEF ProgInv
  <2>1. CASE q \in Listed(r)
    BY <1>2, <2>1 DEF Idle
  <2>2. CASE q \notin Listed(r)
    BY <1>1, <1>2, <2>2 DEF ProgInv, Idle, Waited, InTurnOf
  <2> QED
    BY <2>1, <2>2
<1>8. KillFindsSemaphore'
  BY <1>3 DEF KillFindsSemaphore, ShellAt
<1> QED
  BY <1>5, <1>6, <1>7, <1>8

-----------------------------------------------------------------------------
(***************************************************************************)
(* The theorems.                                                           *)
(***************************************************************************)
LEMMA InitRaceInv == Init => RaceInv
<1> SUFFICES ASSUME Init PROVE RaceInv
  OBVIOUS
<1>1. \A r \in Rt : pc[r] = "running" /\ curr[r] = Null
  BY DEF Init
<1>2. \A r \in Rt : TurnInv(r) /\ CursorInv(r)
  BY <1>1 DEF TurnInv, CursorInv, TurnPc
<1>3. ProgInv /\ KillFindsSemaphore
  BY DEF Init, ProgInv, Idle, KillFindsSemaphore, ShellAt, ShellIdle
<1> QED
  BY <1>2, <1>3 DEF RaceInv

LEMMA NextRaceInv == IInv /\ RaceInv /\ [Next]_vars => RaceInv'
<1> SUFFICES ASSUME IInv, RaceInv, [Next]_vars PROVE RaceInv'
  OBVIOUS
<1>1. CASE \E r \in Rt : Thread(r) \/ SpuriousWakeup(r)
  BY <1>1, ThreadRace
<1>2. CASE StartCommand \/ ShellGoesOn
  BY <1>2, CommandRaces, KillSearchRace, KillWritesRace, SignalRace, AttachRace, JoinRace
     DEF ShellGoesOn
<1>3. CASE UNCHANGED vars
  BY <1>3 DEF vars, rtVars, progVars, thrVars, RaceInv, TurnInv, CursorInv, ProgInv,
     Idle, InTurnOf, KillFindsSemaphore, Waited, Listed, ShellAt, At
<1> QED
  BY <1>1, <1>2, <1>3 DEF Next, Ended

\* Both parts of the inductive invariant hold in every reachable state.
THEOREM RaceInvariant == Spec => [](IInv /\ RaceInv)
<1>1. Init => IInv /\ RaceInv
  BY InitIInv, InitRaceInv
<1>2. IInv /\ RaceInv /\ [Next]_vars => (IInv /\ RaceInv)'
  BY NextIInv, NextRaceInv
<1> QED
  BY <1>1, <1>2, PTL DEF Spec

\* A last line is always in the middle of its execution: no program is left
\* in the state LAST_LINE, which runtime_thread neither runs nor detaches.
THEOREM LastLinesRun == Spec => []LastLineIsExecuted
<1>1. IInv /\ RaceInv => LastLineIsExecuted
  <2> SUFFICES ASSUME IInv, RaceInv, NEW r \in Rt, NEW p \in Listed(r),
                      state[p] = "LAST_LINE"
               PROVE  curr[r] = p /\ pc[r] \in LastLinePc
    BY DEF LastLineIsExecuted, LastLinePc
  <2>1. p \in Prog /\ ~Idle(p)
    BY DEF Idle, IInv, TypeOK, Listed, Range
  <2>2. PICK t \in Rt : InTurnOf(t, p)
    BY <2>1 DEF RaceInv, ProgInv
  <2>3. t = r
    BY <2>2, OwnProgram DEF InTurnOf
  <2> QED
    BY <2>2, <2>3 DEF InTurnOf, RaceInv, TurnInv
<1> QED
  BY <1>1, RaceInvariant, PTL

\* program_state_blocked runs for a BLOCKED program, or for one that kill has
\* finished since the dispatch.
THEOREM BlockedTurns == Spec => []BlockedOrKilled
<1>1. IInv /\ RaceInv => BlockedOrKilled
  BY DEF RaceInv, TurnInv, BlockedOrKilled, ShellAt
<1> QED
  BY <1>1, RaceInvariant, PTL

\* kill meets a BLOCKED program that names no element only between the
\* writes of global_var_down.
THEOREM KillPostsSemaphore == Spec => []KillFindsSemaphore
<1>1. IInv /\ RaceInv => KillFindsSemaphore
  BY DEF RaceInv
<1> QED
  BY <1>1, RaceInvariant, PTL

\* The cursor of a runtime dangles only in the gap of runtime_thread between
\* program_finished and the write of NULL, or after run has filled the gap.
THEOREM CursorDangles == Spec => []CursorGap
<1>1. IInv /\ RaceInv => CursorGap
  BY DEF RaceInv, CursorInv, CursorGap, At
<1> QED
  BY <1>1, RaceInvariant, PTL

-----------------------------------------------------------------------------
(***************************************************************************)
(* Who frees a program, and when.                                          *)
(***************************************************************************)
LEMMA TurnKeepsProgram ==
  ASSUME IInv, NEW r \in Rt, InstructionTurn(r) \/ Sleep(r) \/ BlockedTurn(r) \/ Check(r)
  PROVE  state' = state \/ \E s \in ProgState : state' = [state EXCEPT ![curr[r]] = s]
<1> USE DEF SetState, ProgState
<1>1. CASE Scan(r) \/ ExecHere(r)
  BY <1>1 DEF Scan, ExecHere, StopWithError
<1>2. CASE DownBlock(r) \/ Sleep(r) \/ UnblockWrite(r)
  BY <1>2 DEF DownBlock, Sleep, UnblockWrite
<1>3. CASE EndLineWrite(r)
  <2>1. seen[r] \in ProgState
    BY <1>3 DEF EndLineWrite, At, IInv, ThreadInv
  <2> QED
    BY <1>3, <2>1 DEF EndLineWrite
<1>4. CASE \/ TestReady(r) \/ SearchKilled(r) \/ ExecGlobal(r) \/ Up(r) \/ Store(r)
           \/ DownIdx(r) \/ DownSem(r)
           \/ EndLineRead(r) \/ SliceGoesOn(r) \/ SliceOver(r) \/ Check(r)
           \/ Blocked(r) \/ TimedWaitEnds(r) \/ UnblockTest(r)
  BY <1>4 DEF TestReady, SearchKilled, ExecGlobal, Up, Store, DownIdx, DownSem, EndLineRead, SliceGoesOn, SliceOver,
     Check, Blocked, TimedWaitEnds, UnblockTest, progVars
<1> QED
  BY <1>1, <1>2, <1>3, <1>4 DEF InstructionTurn, BlockedTurn

LEMMA WhoFrees ==
  ASSUME IInv, [Next]_vars, NEW p \in Prog, state[p] # "FREED", state'[p] = "FREED"
  PROVE  Join \/ \E r \in Rt : Detach(r) /\ curr[r] = p
<1>1. state \in [Prog -> ProgState \cup {"UNBORN", "FREED"}]
  BY DEF IInv, TypeOK
<1>2. state' # state
  OBVIOUS
<1>3. ASSUME NEW r \in Rt, Thread(r) \/ SpuriousWakeup(r)
      PROVE  Detach(r) /\ curr[r] = p
  <2>1. CASE InstructionTurn(r) \/ Sleep(r) \/ BlockedTurn(r) \/ Check(r)
    <3>1. \A s \in ProgState : state' # [state EXCEPT ![curr[r]] = s]
      BY <1>1 DEF ProgState
    <3> QED
      BY <1>2, <2>1, <3>1, TurnKeepsProgram
  <2>2. CASE Detach(r)
    BY <2>2 DEF Detach, FreePrograms
  <2>3. CASE \/ TestRunning(r) \/ Acquire(r) \/ MustWait(r) \/ TakeHead(r) \/ CondWait(r)
             \/ SpuriousWakeup(r) \/ LeaveLoop(r) \/ Dispatch(r) \/ DispatchFreed(r)
             \/ ClearCursor(r) \/ Advance(r)
    BY <1>2, <2>3 DEF TestRunning, Acquire, MustWait, TakeHead, CondWait, SpuriousWakeup,
       LeaveLoop, Dispatch, DispatchFreed, ClearCursor, Advance, progVars
  <2> QED
    BY <1>3, <2>1, <2>2, <2>3 DEF Thread
<1>4. CASE StartCommand \/ ShellGoesOn
  <2>1. ~Attach
    <3>1. ASSUME Attach PROVE state' = [state EXCEPT ![id_cnt] = "MAGIC_LINE"]
      BY <3>1 DEF Attach
    <3> QED
      BY <1>1, <3>1
  <2>2. ~KillSetState
    BY <1>1 DEF KillSetState, SetState
  <2>3. CASE \/ StartCommand \/ EndCommand \/ ReadCount \/ KillSearch \/ KillReadSem
             \/ KillPost \/ KillPostOutside \/ KillSetFlag \/ ListRuntime \/ ListFreed
             \/ StopFlag \/ StopSignal \/ Exit
    BY <1>2, <2>3 DEF StartCommand, EndCommand, ReadCount, KillSearch, KillReadSem, KillPost,
       KillPostOutside, KillSetFlag, ListRuntime, ListFreed, StopFlag, StopSignal, Exit,
       progVars
  <2> QED
    BY <1>4, <2>1, <2>2, <2>3 DEF ShellGoesOn
<1>5. CASE UNCHANGED vars
  BY <1>2, <1>5 DEF vars, progVars
<1> QED
  BY <1>3, <1>4, <1>5 DEF Next, Ended

\* The decision to detach a program still holds when the lock has been taken,
\* and quit frees the programs of a runtime only after its thread has ended.
THEOREM FreedPrograms == Spec => FreedWhenDone
<1> DEFINE Freed == \A p \in Prog :
             state[p] # "FREED" /\ state'[p] = "FREED" =>
                \/ state[p] = "FINISHED" \/ error_flag[p]
                \/ ShellAt("join") /\ At(sh.i, "done")
<1>1. ASSUME IInv, RaceInv, [Next]_vars PROVE Freed
  <2> SUFFICES ASSUME NEW p \in Prog, state[p] # "FREED", state'[p] = "FREED"
               PROVE  \/ state[p] = "FINISHED" \/ error_flag[p]
                      \/ ShellAt("join") /\ At(sh.i, "done")
    OBVIOUS
  <2>1. CASE Join
    BY <2>1 DEF Join
  <2>2. ASSUME NEW r \in Rt, Detach(r), curr[r] = p
        PROVE  state[p] = "FINISHED" \/ error_flag[p]
    BY <1>1, <2>2 DEF Detach, At, RaceInv, TurnInv
  <2> QED
    BY <1>1, <2>1, <2>2, WhoFrees
<1>2. IInv /\ RaceInv /\ [Next]_vars => [Freed]_vars
  BY <1>1
<1> QED
  BY <1>2, RaceInvariant, PTL DEF Spec, FreedWhenDone

-----------------------------------------------------------------------------
(***************************************************************************)
(* Arithmetic and counting.                                                *)
(***************************************************************************)
\* What a number has to be for m times as much to fit.
LEMMA EvenShare ==
  ASSUME NEW m \in Nat \ {0}, NEW n \in Nat, NEW k \in Nat
  PROVE  k <= n \div m <=> k * m <= n
<1> DEFINE q == n \div m
           d == n % m
<1>1. q \in Nat /\ d \in 0 .. m - 1 /\ n = m * q + d
  OBVIOUS
<1> HIDE DEF q, d
<1>2. ASSUME k <= q PROVE k * m <= n
  <2>1. PICK e \in Nat : q = k + e
    <3>1. q - k \in Nat /\ q = k + (q - k)
      BY <1>1, <1>2
    <3> QED
      BY <3>1
  <2>2. m * (k + e) = k * m + m * e /\ m * e \in Nat /\ k * m \in Nat
    OBVIOUS
  <2> QED
    BY <1>1, <2>1, <2>2
<1>3. ASSUME k > q PROVE k * m > n
  <2>1. PICK e \in Nat : k = q + 1 + e
    <3>1. k - q - 1 \in Nat /\ k = q + 1 + (k - q - 1)
      BY <1>1, <1>3
    <3> QED
      BY <3>1
  <2>2. (q + 1 + e) * m = m * q + m + e * m /\ e * m \in Nat /\ m * q \in Nat
    BY <1>1
  <2> QED
    BY <1>1, <2>1, <2>2
<1>4. k <= q \/ k > q
  BY <1>1
<1>5. k * m \in Nat
  OBVIOUS
<1>6. ~(k <= q /\ k > q) /\ ~(k * m <= n /\ k * m > n)
  BY <1>1, <1>5
<1> QED
  BY <1>2, <1>3, <1>4, <1>6 DEF q

LEMMA SmallerFactor ==
  ASSUME NEW i \in Nat, NEW a \in Nat, NEW b \in Nat, a <= b
  PROVE  i * a <= i * b /\ i * a \in Nat /\ i * b \in Nat
<1>1. PICK e \in Nat : b = a + e
  <2>1. b - a \in Nat /\ b = a + (b - a)
    OBVIOUS
  <2> QED
    BY <2>1
<1>2. i * (a + e) = i * a + i * e /\ i * e \in Nat /\ i * a \in Nat
  OBVIOUS
<1> QED
  BY <1>1, <1>2

\* A list without duplicates is as long as it has members.
LEMMA LengthCounts ==
  ASSUME NEW l \in Seq(Prog), IsInjective(l)
  PROVE  Cardinality(Range(l)) = Len(l)
<1>1. Len(l) \in Nat /\ DOMAIN l = 1 .. Len(l)
  OBVIOUS
<1>2. l \in Bijection(1 .. Len(l), Range(l))
  BY <1>1 DEF Bijection, Injection, Surjection, IsInjective, Range
<1> QED
  BY <1>1, <1>2, FS_CountingElements DEF ExistsBijection

-----------------------------------------------------------------------------
(***************************************************************************)
(* The inductive invariant, beside IInv of RuntimeProofs.  While run reads *)
(* the counts, the programs of the runtimes it has not read yet and the    *)
(* least count times the number of those it has read are, together, not    *)
(* more than the programs started: what it has read may have become less   *)
(* since, but no program is attached before the command ends.              *)
(***************************************************************************)
\* the programs on the lists of the runtimes from i on
ListedFrom(i) == {p \in Prog : \E r \in Rt : r >= i /\ p \in Listed(r)}

ScanInv ==
  /\ sh.i * sh.minCnt + Cardinality(ListedFrom(sh.i)) < id_cnt
  /\ sh.i > 0 => program_cnt[sh.minIdx] <= sh.minCnt

Quitting == {"stop", "signal", "join", "exit"}

LoadInv ==
  /\ BalancedLoad
  /\ sh.at = "idle" => sh = ShellIdle
  /\ sh.at \notin Quitting => \A r \in Rt : running[r]
  /\ sh.at = "run" => ScanInv

LEMMA ListedFromFinite ==
  ASSUME NEW i
  PROVE  IsFiniteSet(ListedFrom(i)) /\ Cardinality(ListedFrom(i)) \in Nat
<1>1. IsFiniteSet(Prog)
  BY FS_Interval, RuntimeAssumption DEF Prog
<1>2. ListedFrom(i) \in SUBSET Prog
  BY DEF ListedFrom
<1> QED
  BY <1>1, <1>2, FS_Subset, FS_CardinalityType

\* A step of a thread, and a step of the shell that neither begins nor goes on
\* with a run: the lists and the counts only shrink.
LEMMA LoadShrinks ==
  ASSUME IInv, IInv', LoadInv,
         id_cnt' = id_cnt,
         \A r \in Rt : program_cnt'[r] <= program_cnt[r] /\ Listed(r)' \subseteq Listed(r),
         sh'.at = "run" => sh' = sh,
         sh'.at = "idle" => sh' = sh \/ sh' = ShellIdle,
         sh'.at \notin Quitting => sh.at \notin Quitting /\ running' = running
  PROVE  LoadInv'
<1>1. BalancedLoad'
  <2>1. \A r \in Rt : program_cnt[r] <= (id_cnt + RtCnt - 2) \div RtCnt
    BY DEF LoadInv, BalancedLoad
  <2>2. \A r \in Rt : program_cnt[r] \in Nat /\ program_cnt'[r] \in Nat
    BY DEF IInv, TypeOK
  <2>3. (id_cnt + RtCnt - 2) \div RtCnt \in Int
    BY RuntimeAssumption DEF IInv, TypeOK
  <2> DEFINE b == (id_cnt + RtCnt - 2) \div RtCnt
  <2>4. \A r \in Rt : program_cnt'[r] <= b
    <3> HIDE DEF b
    <3>1. b \in Int /\ \A r \in Rt : program_cnt[r] <= b
      BY <2>1, <2>3 DEF b
    <3> QED
      BY <2>2, <3>1
  <2> QED
    BY <2>4 DEF BalancedLoad
<1>2. ASSUME sh'.at = "run" PROVE ScanInv'
  <2>1. sh' = sh /\ ScanInv
    BY <1>2 DEF LoadInv
  <2>2. ListedFrom(sh.i)' \in SUBSET ListedFrom(sh.i)
    BY <2>1 DEF ListedFrom
  <2>3. /\ Cardinality(ListedFrom(sh.i)') <= Cardinality(ListedFrom(sh.i))
        /\ Cardinality(ListedFrom(sh.i)') \in Nat /\ Cardinality(ListedFrom(sh.i)) \in Nat
    BY <2>2, ListedFromFinite, FS_Subset, FS_CardinalityType
  <2>4. /\ sh.minIdx \in Rt /\ sh.i \in Nat /\ sh.minCnt \in Nat /\ id_cnt \in Nat
        /\ program_cnt[sh.minIdx] \in Nat /\ program_cnt'[sh.minIdx] \in Nat
    BY RuntimeAssumption DEF IInv, TypeOK, ShellRecord
  <2>5. program_cnt'[sh.minIdx] <= program_cnt[sh.minIdx]
    BY <2>4
  <2>6. sh.i * sh.minCnt \in Nat
    BY <2>4
  <2> QED
    BY <2>1, <2>3, <2>4, <2>5, <2>6 DEF ScanInv
<1> QED
  BY <1>1, <1>2 DEF LoadInv


\* Only Detach changes a list or a count, of all the steps of a thread.
LEMMA ThreadKeepsLists ==
  ASSUME NEW r \in Rt, Thread(r) \/ SpuriousWakeup(r)
  PROVE  /\ UNCHANGED <<running, sh, id_cnt>>
         /\ Detach(r) \/ UNCHANGED <<program_list, program_cnt>>
<1>1. CASE InstructionTurn(r)
  BY <1>1 DEF InstructionTurn, Scan, TestReady, ExecHere, SearchKilled, ExecGlobal, Up, Store,
     DownIdx, DownBlock, DownSem, EndLineRead, EndLineWrite, SliceGoesOn, SliceOver, rtVars
<1>2. CASE Sleep(r) \/ BlockedTurn(r) \/ Check(r)
  BY <1>2 DEF Sleep, BlockedTurn, Blocked, TimedWaitEnds, UnblockTest, UnblockWrite, Check,
     rtVars
<1>3. CASE Detach(r)
  BY <1>3 DEF Detach
<1>4. CASE \/ TestRunning(r) \/ Acquire(r) \/ MustWait(r) \/ TakeHead(r) \/ CondWait(r)
           \/ SpuriousWakeup(r) \/ LeaveLoop(r) \/ Dispatch(r) \/ DispatchFreed(r)
           \/ ClearCursor(r) \/ Advance(r)
  BY <1>4 DEF TestRunning, Acquire, MustWait, TakeHead, CondWait, SpuriousWakeup, LeaveLoop,
     Dispatch, DispatchFreed, ClearCursor, Advance, MoveCursor, rtVars
<1> QED
  BY <1>1, <1>2, <1>3, <1>4 DEF Thread

LEMMA ThreadLoad ==
  ASSUME IInv, IInv', LoadInv, NEW r \in Rt, Thread(r) \/ SpuriousWakeup(r)
  PROVE  LoadInv'
<1>1. UNCHANGED <<running, sh, id_cnt>>
  BY ThreadKeepsLists
<1>2. \A t \in Rt : program_cnt[t] \in Nat
  BY DEF IInv, TypeOK
<1>3. CASE UNCHANGED <<program_list, program_cnt>>
  BY <1>1, <1>2, <1>3, LoadShrinks DEF Listed
<1>4. CASE Detach(r)
  <2> DEFINE l == program_list[r]
             p == curr[r]
  <2>1. /\ pc[r] = "detach"
        /\ program_cnt' = [program_cnt EXCEPT ![r] = @ - 1]
        /\ program_list' = [program_list EXCEPT ![r] = DeleteNode(l, p)]
    BY <1>4 DEF Detach, Unlist, At
  <2>2. l \in Seq(Prog) /\ IsInjective(l) /\ p \in Range(l)
    BY <2>1 DEF IInv, TypeOK, ListInv, ThreadInv, Listed, TurnPc
  <2>3. Range(DeleteNode(l, p)) = Range(l) \ {p}
    BY <2>2, DeleteNodeList
  <2>4. \A t \in Rt : /\ program_list'[t] = IF t = r THEN DeleteNode(l, p) ELSE program_list[t]
                      /\ program_cnt'[t] = IF t = r THEN program_cnt[t] - 1 ELSE program_cnt[t]
    BY <2>1 DEF IInv, TypeOK
  <2>5. \A t \in Rt : program_cnt'[t] <= program_cnt[t]
    BY <1>2, <2>4
  <2>6. \A t \in Rt : Listed(t)' \subseteq Listed(t)
    BY <2>3, <2>4 DEF Listed
  <2> QED
    BY <1>1, <2>5, <2>6, LoadShrinks
<1> QED
  BY <1>3, <1>4, ThreadKeepsLists


\* The commands but run: none goes on with a run, and quit never ends.
LEMMA OtherCommands ==
  ASSUME IInv, \/ KillSearch \/ KillReadSem \/ KillPost \/ KillPostOutside
               \/ KillSetState \/ KillSetFlag \/ EndCommand \/ ListRuntime \/ ListFreed
               \/ StopFlag \/ StopSignal \/ Join \/ Exit
  PROVE  /\ sh'.at # "run"
         /\ sh'.at = "idle" => sh' = ShellIdle
         /\ sh'.at \notin Quitting => sh.at \notin Quitting /\ running' = running
         /\ UNCHANGED <<program_cnt, id_cnt>>
<1> USE DEF ShellAt, ShellGoto, NextRuntime, Quitting
<1>1. sh \in ShellRecord
  BY ShellTypes
<1>2. CASE KillSearch
  <2>1. sh.at = "kill" /\ UNCHANGED <<running, program_cnt, id_cnt>>
    BY <1>2 DEF KillSearch
  <2>2. sh'.at \in {"kill", "killsem", "killstop"}
    BY <1>1, <1>2 DEF KillSearch, ShellRecord
  <2> QED
    BY <2>1, <2>2
<1>3. CASE KillReadSem \/ KillPost \/ KillPostOutside \/ KillSetState \/ KillSetFlag
  <2>1. sh.at \in {"killsem", "killpost", "killstop", "killflag"}
    BY <1>3 DEF KillReadSem, KillPost, KillPostOutside, KillSetState, KillSetFlag
  <2>2. sh'.at \in {"kill", "killpost", "killstop", "killflag"}
    BY <1>1, <1>3 DEF KillReadSem, KillPost, KillPostOutside, KillSetState, KillSetFlag,
       ShellRecord
  <2>3. UNCHANGED <<running, program_cnt, id_cnt>>
    BY <1>3 DEF KillReadSem, KillPost, KillPostOutside, KillSetState, KillSetFlag, rtVars
  <2> QED
    BY <2>1, <2>2, <2>3
<1>4. CASE EndCommand
  <2>1. sh' = ShellIdle /\ sh.at \in {"kill", "list"}
        /\ UNCHANGED <<running, program_cnt, id_cnt>>
    BY <1>4 DEF EndCommand, rtVars
  <2> QED
    BY <2>1 DEF ShellIdle
<1>5. CASE ListRuntime \/ ListFreed
  <2>1. sh.at = "list" /\ UNCHANGED <<running, program_cnt, id_cnt>>
    BY <1>5 DEF ListRuntime, ListFreed, rtVars
  <2>2. sh'.at = "list"
    BY <1>1, <1>5 DEF ListRuntime, ListFreed, ShellRecord
  <2> QED
    BY <2>1, <2>2
<1>6. CASE StopFlag \/ StopSignal \/ Join \/ Exit
  <2>1. sh'.at \in {"signal", "join", "stop", "exit"}
    BY <1>1, <1>6 DEF StopFlag, StopSignal, Join, Exit, ShellRecord
  <2>2. UNCHANGED <<program_cnt, id_cnt>>
    BY <1>6 DEF StopFlag, StopSignal, Join, Exit, rtVars
  <2> QED
    BY <2>1, <2>2
<1> QED
  BY <1>2, <1>3, <1>4, <1>5, <1>6

LEMMA OtherLists ==
  ASSUME IInv, \/ KillSearch \/ KillReadSem \/ KillPost \/ KillPostOutside
               \/ KillSetState \/ KillSetFlag \/ EndCommand \/ ListRuntime \/ ListFreed
               \/ StopFlag \/ StopSignal \/ Join \/ Exit,
         NEW r \in Rt
  PROVE  Listed(r)' \subseteq Listed(r)
<1>1. CASE Join
  <2>1. program_list' = [program_list EXCEPT ![sh.i] = <<>>]
    BY <1>1 DEF Join
  <2>2. program_list'[r] \in {program_list[r], <<>>}
    BY <2>1 DEF IInv, TypeOK
  <2>3. Range(<<>>) = {}
    BY DEF Range
  <2> QED
    BY <2>2, <2>3 DEF Listed
<1>2. CASE \/ KillSearch \/ KillReadSem \/ KillPost \/ KillPostOutside
           \/ KillSetState \/ KillSetFlag \/ EndCommand \/ ListRuntime \/ ListFreed
           \/ StopFlag \/ StopSignal \/ Exit
  <2>1. UNCHANGED program_list
    BY <1>2 DEF KillSearch, KillReadSem, KillPost, KillPostOutside, KillSetState, KillSetFlag,
       EndCommand, ListRuntime, ListFreed, StopFlag, StopSignal, Exit, rtVars
  <2> QED
    BY <2>1 DEF Listed
<1> QED
  BY <1>1, <1>2

LEMMA OtherLoad ==
  ASSUME IInv, IInv', LoadInv,
         \/ KillSearch \/ KillReadSem \/ KillPost \/ KillPostOutside
         \/ KillSetState \/ KillSetFlag \/ EndCommand \/ ListRuntime \/ ListFreed
         \/ StopFlag \/ StopSignal \/ Join \/ Exit
  PROVE  LoadInv'
<1>1. \A r \in Rt : program_cnt[r] \in Nat
  BY DEF IInv, TypeOK
<1>2. \A r \in Rt : program_cnt'[r] <= program_cnt[r]
  BY <1>1, OtherCommands
<1>3. \A r \in Rt : Listed(r)' \subseteq Listed(r)
  BY OtherLists
<1> QED
  BY <1>2, <1>3, OtherCommands, LoadShrinks


\* Listed programs have been started.
LEMMA StartedCount ==
  ASSUME IInv, NEW i
  PROVE  Cardinality(ListedFrom(i)) < id_cnt
<1>1. id_cnt \in Nat /\ id_cnt > 0
  BY RuntimeAssumption DEF IInv, TypeOK
<1>2. ASSUME NEW p \in ListedFrom(i) PROVE p \in 1 .. id_cnt - 1
  <2>1. p \in Prog /\ state[p] \in ProgState
    BY DEF ListedFrom, IInv, ListInv
  <2>2. ~(p >= id_cnt)
    BY <2>1 DEF IInv, ShellInv, ProgState
  <2> QED
    BY <1>1, <2>1, <2>2 DEF Prog
<1>3. IsFiniteSet(1 .. id_cnt - 1) /\ Cardinality(1 .. id_cnt - 1) = id_cnt - 1
  BY <1>1, FS_Interval
<1>4. ListedFrom(i) \in SUBSET (1 .. id_cnt - 1)
  BY <1>2
<1>5. Cardinality(ListedFrom(i)) <= Cardinality(1 .. id_cnt - 1)
  BY <1>3, <1>4, FS_Subset
<1> QED
  BY <1>1, <1>3, <1>5, ListedFromFinite

\* Reading the count of runtime i takes its programs out of those to be read.
LEMMA ListedFromNext ==
  ASSUME IInv, NEW i \in Rt, pc[i] # "done"
  PROVE  Cardinality(ListedFrom(i)) = program_cnt[i] + Cardinality(ListedFrom(i + 1))
<1>1. program_list[i] \in Seq(Prog) /\ IsInjective(program_list[i])
  BY DEF IInv, TypeOK, ListInv
<1>2. Cardinality(Listed(i)) = program_cnt[i] /\ Listed(i) \subseteq Prog
  BY <1>1, LengthCounts, RangeOfList DEF IInv, ListInv, Listed, Range
<1>3. ListedFrom(i) = Listed(i) \cup ListedFrom(i + 1)
  <2>1. \A r \in Rt : r >= i <=> r = i \/ r >= i + 1
    BY DEF Rt
  <2>2. i >= i
    BY DEF Rt
  <2> QED
    BY <1>2, <2>1, <2>2 DEF ListedFrom
<1>4. Listed(i) \cap ListedFrom(i + 1) = {}
  <2>1. \A r \in Rt : r >= i + 1 => r # i
    BY DEF Rt
  <2>2. \A r \in Rt : r # i => Listed(r) \cap Listed(i) = {}
    BY DEF IInv, ListInv
  <2> QED
    BY <2>1, <2>2 DEF ListedFrom
<1>5. IsFiniteSet(Listed(i))
  <2>1. Listed(i) \in SUBSET Prog /\ IsFiniteSet(Prog)
    BY <1>2, FS_Interval, RuntimeAssumption DEF Prog
  <2> QED
    BY <2>1, FS_Subset
<1>6. IsFiniteSet(ListedFrom(i + 1)) /\ Cardinality(ListedFrom(i + 1)) \in Nat
  BY ListedFromFinite
<1>7. Cardinality(ListedFrom(i)) =
        Cardinality(Listed(i)) + Cardinality(ListedFrom(i + 1)) - Cardinality({})
  BY <1>3, <1>4, <1>5, <1>6, FS_Union
<1>8. program_cnt[i] \in Nat
  BY DEF IInv, TypeOK
<1> QED
  BY <1>2, <1>6, <1>7, <1>8, FS_EmptySet

LEMMA StartLoad ==
  ASSUME IInv, IInv', LoadInv, StartCommand
  PROVE  LoadInv'
<1>1. sh = ShellIdle /\ \A r \in Rt : running[r]
  BY DEF StartCommand, ShellAt, LoadInv, Quitting
<1>2. UNCHANGED <<running, program_list, program_cnt, id_cnt>>
  BY DEF StartCommand, rtVars
<1>3. sh'.at \in {"run", "kill", "list", "stop"} /\ sh'.i = 0 /\ sh'.minCnt = 0
  BY <1>1 DEF StartCommand, ShellGoto, ShellIdle
<1>4. BalancedLoad'
  BY <1>2 DEF LoadInv, BalancedLoad
<1>5. ScanInv'
  <2>1. Cardinality(ListedFrom(0)') < id_cnt'
    BY StartedCount, <1>2 DEF ListedFrom, Listed
  <2>2. ListedFrom(sh.i)' = ListedFrom(0)'
    BY <1>3 DEF ListedFrom
  <2>3. Cardinality(ListedFrom(0)') \in Nat
    BY ListedFromFinite, <1>2 DEF ListedFrom, Listed
  <2> QED
    BY <1>3, <2>1, <2>2, <2>3 DEF ScanInv
<1> QED
  BY <1>1, <1>2, <1>3, <1>4, <1>5 DEF LoadInv

LEMMA ReadCountLoad ==
  ASSUME IInv, IInv', LoadInv, ReadCount
  PROVE  LoadInv'
<1> DEFINE i == sh.i
           m == sh.minCnt
           c == program_cnt[i]
           rest == Cardinality(ListedFrom(i + 1))
<1>1. sh.at = "run" /\ sh \in ShellRecord /\ i \in Rt /\ i \in Nat /\ m \in Nat /\ i + 1 > 0
  BY ShellTypes DEF ReadCount, ShellAt, ShellRecord, Rt
<1>2. UNCHANGED <<running, program_list, program_cnt, id_cnt>>
  BY DEF ReadCount, rtVars
<1>3. \A r \in Rt : running[r]
  BY <1>1 DEF LoadInv, Quitting
<1>4. pc[i] # "done"
  BY <1>1, <1>3 DEF IInv, ThreadInv
<1>5. c \in Nat /\ rest \in Nat /\ id_cnt \in Nat
  BY <1>1, ListedFromFinite, RuntimeAssumption DEF IInv, TypeOK
<1>6. i * m + (c + rest) < id_cnt
  BY <1>1, <1>4, ListedFromNext DEF LoadInv, ScanInv
<1>7. sh'.at = "run" /\ sh'.i = i + 1
  BY <1>1 DEF ReadCount, ShellRecord
<1>8. /\ sh'.minCnt \in Nat /\ sh'.minCnt <= c /\ (i > 0 => sh'.minCnt <= m)
      /\ program_cnt[sh'.minIdx] <= sh'.minCnt
  <2>1. CASE i = 0 \/ c < m
    BY <1>1, <1>5, <2>1 DEF ReadCount, ShellRecord
  <2>2. CASE ~(i = 0 \/ c < m)
    <3>1. sh'.minCnt = m /\ sh'.minIdx = sh.minIdx
      BY <1>1, <2>2 DEF ReadCount, ShellRecord
    <3>2. program_cnt[sh.minIdx] <= m
      BY <1>1, <2>2 DEF LoadInv, ScanInv
    <3> QED
      BY <1>1, <1>5, <2>2, <3>1, <3>2
  <2> QED
    BY <2>1, <2>2
<1> DEFINE n == sh'.minCnt
<1>9. (i + 1) * n + rest < id_cnt
  <2>1. i * n <= i * m /\ i * n \in Nat /\ i * m \in Nat
    <3>1. CASE i = 0
      BY <1>1, <1>8, <3>1
    <3>2. CASE i > 0
      BY <1>1, <1>8, <3>2, SmallerFactor
    <3> QED
      BY <1>1, <3>1, <3>2
  <2>2. (i + 1) * n = i * n + n
    BY <1>1, <1>8
  <2> QED
    BY <1>5, <1>6, <1>8, <2>1, <2>2
<1>10. ScanInv'
  <2>1. ListedFrom(sh.i)' = ListedFrom(i + 1)
    BY <1>2, <1>7 DEF ListedFrom, Listed
  <2> QED
    BY <1>2, <1>7, <1>8, <1>9, <2>1 DEF ScanInv
<1>11. BalancedLoad'
  BY <1>2 DEF LoadInv, BalancedLoad
<1> QED
  BY <1>2, <1>3, <1>7, <1>10, <1>11 DEF LoadInv

\* The runtime that gets the program has at most the even share of the
\* programs started before it.
LEMMA AttachLoad ==
  ASSUME IInv, IInv', LoadInv, Attach
  PROVE  LoadInv'
<1> DEFINE r == sh.minIdx
           m == sh.minCnt
           n == id_cnt + RtCnt - 2
<1>1. /\ sh.at = "run" /\ sh.i = RtCnt /\ sh' = ShellIdle /\ id_cnt' = id_cnt + 1
      /\ program_cnt' = [program_cnt EXCEPT ![r] = @ + 1] /\ UNCHANGED running
  BY DEF Attach, ShellAt, Enlist
<1>2. /\ RtCnt \in Nat \ {0} /\ r \in Rt /\ m \in Nat /\ id_cnt \in Nat \ {0}
      /\ \A t \in Rt : program_cnt[t] \in Nat
  BY ShellTypes, RuntimeAssumption DEF IInv, TypeOK, ShellRecord
<1>3. RtCnt * m < id_cnt /\ program_cnt[r] <= m
  <2>1. RtCnt * m + Cardinality(ListedFrom(RtCnt)) < id_cnt
    BY <1>1 DEF LoadInv, ScanInv
  <2>2. RtCnt * m \in Nat
    BY <1>2
  <2> QED
    BY <1>1, <1>2, <2>1, <2>2, ListedFromFinite DEF LoadInv, ScanInv
<1>4. n \in Nat /\ n + 1 \in Nat /\ id_cnt + 1 + RtCnt - 2 = n + 1
  BY <1>2
<1>5. (program_cnt[r] + 1) * RtCnt <= n + 1
  <2>1. program_cnt[r] \in Nat /\ RtCnt * program_cnt[r] <= RtCnt * m
        /\ RtCnt * program_cnt[r] \in Nat /\ RtCnt * m \in Nat
    BY <1>2, <1>3, SmallerFactor
  <2>2. (program_cnt[r] + 1) * RtCnt = RtCnt * program_cnt[r] + RtCnt
    BY <1>2, <2>1
  <2> QED
    BY <1>2, <1>3, <2>1, <2>2
<1>6. ASSUME NEW t \in Rt \ {r} PROVE program_cnt[t] * RtCnt <= n + 1
  <2>1. program_cnt[t] <= n \div RtCnt
    BY DEF LoadInv, BalancedLoad
  <2>2. program_cnt[t] * RtCnt <= n
    BY <1>2, <1>4, <2>1, EvenShare
  <2> QED
    BY <1>2, <1>4, <2>2
<1>7. ASSUME NEW t \in Rt PROVE program_cnt'[t] <= (n + 1) \div RtCnt
  <2>1. program_cnt'[t] = IF t = r THEN program_cnt[t] + 1 ELSE program_cnt[t]
    BY <1>1 DEF IInv, TypeOK
  <2>2. program_cnt'[t] \in Nat /\ program_cnt'[t] * RtCnt <= n + 1
    BY <1>2, <1>5, <1>6, <2>1
  <2> QED
    BY <1>2, <1>4, <2>2, EvenShare
<1>8. BalancedLoad'
  BY <1>1, <1>4, <1>7 DEF BalancedLoad
<1>9. \A t \in Rt : running[t]
  BY <1>1 DEF LoadInv, Quitting
<1> QED
  BY <1>1, <1>8, <1>9 DEF LoadInv, ShellIdle

-----------------------------------------------------------------------------
(***************************************************************************)
(* The theorem.                                                            *)
(***************************************************************************)
LEMMA InitLoadInv == Init => LoadInv
<1> SUFFICES ASSUME Init PROVE LoadInv
  OBVIOUS
<1>1. sh = ShellIdle /\ id_cnt = 1 /\ \A r \in Rt : running[r] /\ program_cnt[r] = 0
  BY DEF Init
<1>2. RtCnt \in Nat \ {0}
  BY RuntimeAssumption
<1>3. 0 <= (RtCnt - 1) \div RtCnt
  <2>1. 0 * RtCnt = 0 /\ RtCnt - 1 \in Nat /\ 0 <= RtCnt - 1
    BY <1>2
  <2> QED
    BY <1>2, <2>1, EvenShare
<1>4. BalancedLoad
  <2>1. 1 + RtCnt - 2 = RtCnt - 1
    BY <1>2
  <2> QED
    BY <1>1, <1>3, <2>1 DEF BalancedLoad
<1> QED
  BY <1>1, <1>4 DEF LoadInv, ShellIdle

LEMMA NextLoadInv == IInv /\ IInv' /\ LoadInv /\ [Next]_vars => LoadInv'
<1> SUFFICES ASSUME IInv, IInv', LoadInv, [Next]_vars PROVE LoadInv'
  OBVIOUS
<1>1. CASE \E r \in Rt : Thread(r) \/ SpuriousWakeup(r)
  BY <1>1, ThreadLoad
<1>2. CASE StartCommand \/ ShellGoesOn
  BY <1>2, StartLoad, ReadCountLoad, AttachLoad, OtherLoad DEF ShellGoesOn
<1>3. CASE UNCHANGED vars
  BY <1>3 DEF vars, rtVars, LoadInv, BalancedLoad, ScanInv, ListedFrom, Listed
<1> QED
  BY <1>1, <1>2, <1>3 DEF Next, Ended

\* No runtime gets more programs than an even distribution of all programs
\* ever started would give it, for any number of runtimes, though run reads
\* the counts one after the other while programs end.
THEOREM LoadIsBalanced == Spec => []BalancedLoad
<1>1. LoadInv => BalancedLoad
  BY DEF LoadInv
<1> QED
  BY <1>1, InitIInv, NextIInv, InitLoadInv, NextLoadInv, PTL DEF Spec


=============================================================================
