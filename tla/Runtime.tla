------------------------------ MODULE Runtime ------------------------------
(***************************************************************************)
(* The concurrent core of simbly: the runtime threads of src/runtime.c,    *)
(* which take turns at the programs of their circular list, and the shell  *)
(* thread of src/main.c, which attaches, kills and lists programs and      *)
(* stops the runtimes.  The threads share the runtime_s structures (under  *)
(* rt->lock, except the flag running), the program_s structures (under no  *)
(* lock at all) and the global variables used as semaphores (under their   *)
(* own mtx).                                                               *)
(*                                                                         *)
(* A step is the longest stretch of code no other thread can observe the   *)
(* middle of.  What a program's text says is left open: every line may be  *)
(* any instruction of Instructions.                                        *)
(***************************************************************************)
EXTENDS Integers, SequencesExt

CONSTANTS
  RtCnt,         \* rt_cnt: the number of runtime threads
  MaxProgs,      \* bound: programs the shell ever starts
  Globals,       \* the global variables
  Sems,          \* their elements, <<global, index>>: each is a semaphore
  MaxCount,      \* bound: no UP begins and no STORE stores above it
  Commands,      \* the shell commands of this instance
  Instructions,  \* the kinds of instructions of this instance
  Uninit         \* the content of a pointer nobody has written yet

ASSUME RuntimeAssumption ==
  /\ RtCnt \in Nat \ {0}
  /\ MaxProgs \in Nat
  /\ MaxCount \in Nat
  /\ Commands \subseteq {"run", "kill", "list", "quit"}
  /\ Instructions \subseteq {"local", "return", "error", "sleep", "branch",
                            "up", "down", "store"}
  /\ Sems \subseteq Globals \X Nat
  /\ Uninit \notin Globals /\ Uninit \notin Sems

Rt   == 0 .. RtCnt - 1
Prog == 1 .. MaxProgs     \* a program is named by its ID, argv[0]
Null == 0                 \* the NULL list node
NoRt == RtCnt             \* a mtx nobody holds

VARIABLES
  \* runtime_s, one per runtime thread
  running, program_list, curr, program_cnt, lock,
  \* program_s, one per program: freed memory has the state FREED
  state, error_flag, sem, blocked_idx,
  \* global_var_s: a count for every element, a mtx for every global
  count, mtx,
  \* where each runtime thread is, and its locals
  pc, seen, arg,
  \* the shell thread: where it is and its locals
  sh,
  id_cnt,    \* the ID generate_program_id hands out next
  crashed    \* a pointer to no live object was followed: anything may follow

rtVars   == <<running, program_list, curr, program_cnt, lock>>
progVars == <<state, error_flag, sem, blocked_idx>>
semVars  == <<count, mtx>>
thrVars  == <<pc, seen, arg>>
vars == <<rtVars, progVars, semVars, thrVars, sh, id_cnt, crashed>>

ProgState == {"MAGIC_LINE", "INSTRUCTION_LINE", "LAST_LINE",
              "SLEEPING", "BLOCKED", "FINISHED"}

(***************************************************************************)
(* The circular list of libvoids, as far as runtime.c uses it: its head    *)
(* first, one node for each program, so a node is named by its program.    *)
(***************************************************************************)
IndexOf(l, p) == CHOOSE k \in DOMAIN l : l[k] = p
NextNode(l, p) == l[(IndexOf(l, p) % Len(l)) + 1]
DeleteNode(l, p) == RemoveAt(l, IndexOf(l, p))
HeadNode(l) == IF l = <<>> THEN Null ELSE l[1]

Listed(r) == Range(program_list[r])

VarOf(s) == s[1]
IdxOf(s) == s[2]

\* the element a program waits for: prog->sem, prog->blocked_idx
Waited(p) == <<sem[p], blocked_idx[p]>>

ShellIdle == [at |-> "idle", i |-> 0, id |-> -1, prog |-> Null,
              var |-> Uninit, minCnt |-> 0, minIdx |-> 0]

Init ==
  /\ running = [r \in Rt |-> TRUE]
  /\ program_list = [r \in Rt |-> <<>>]
  /\ curr = [r \in Rt |-> Null]
  /\ program_cnt = [r \in Rt |-> 0]
  /\ lock = [r \in Rt |-> "free"]
  /\ state = [p \in Prog |-> "UNBORN"]
  /\ error_flag = [p \in Prog |-> FALSE]
  /\ sem = [p \in Prog |-> Uninit]
  /\ blocked_idx = [p \in Prog |-> Uninit]
  /\ count = [s \in Sems |-> 0]
  /\ mtx = [g \in Globals |-> NoRt]
  /\ pc = [r \in Rt |-> "running"]
  /\ seen = [r \in Rt |-> "none"]
  /\ arg = [r \in Rt |-> Uninit]
  /\ sh = ShellIdle
  /\ id_cnt = 1
  /\ crashed = FALSE

-----------------------------------------------------------------------------
(***************************************************************************)
(* runtime_thread, the outer loop: wait for a program to be attached.      *)
(***************************************************************************)
At(r, l) == pc[r] = l
Goto(r, l) == pc' = [pc EXCEPT ![r] = l]

\* while (rt->running), read without the lock
TestRunning(r) ==
  /\ At(r, "running")
  /\ Goto(r, IF running[r] THEN "acquire" ELSE "done")
  /\ UNCHANGED <<rtVars, progVars, semVars, seen, arg, sh, id_cnt, crashed>>

\* pthread_mutex_lock, also on the way out of pthread_cond_wait
Acquire(r) ==
  /\ At(r, "acquire")
  /\ lock[r] = "free"
  /\ lock' = [lock EXCEPT ![r] = "thread"]
  /\ Goto(r, "test")
  /\ UNCHANGED <<running, program_list, curr, program_cnt, progVars, semVars,
                 seen, arg, sh, id_cnt, crashed>>

\* while (rt->running && !rt->program_list)
MustWait(r) ==
  /\ At(r, "test")
  /\ running[r] /\ program_list[r] = <<>>
  /\ Goto(r, "wait")
  /\ UNCHANGED <<rtVars, progVars, semVars, seen, arg, sh, id_cnt, crashed>>

\* rt->curr = rt->program_list, then unlock
TakeHead(r) ==
  /\ At(r, "test")
  /\ ~(running[r] /\ program_list[r] = <<>>)
  /\ curr' = [curr EXCEPT ![r] = HeadNode(program_list[r])]
  /\ lock' = [lock EXCEPT ![r] = "free"]
  /\ Goto(r, "loop")
  /\ UNCHANGED <<running, program_list, program_cnt, progVars, semVars,
                 seen, arg, sh, id_cnt, crashed>>

\* pthread_cond_wait: release the lock and wait, in one step
CondWait(r) ==
  /\ At(r, "wait")
  /\ lock' = [lock EXCEPT ![r] = "free"]
  /\ Goto(r, "waiting")
  /\ UNCHANGED <<running, program_list, curr, program_cnt, progVars, semVars,
                 seen, arg, sh, id_cnt, crashed>>

\* POSIX lets pthread_cond_wait return though nobody signalled
SpuriousWakeup(r) ==
  /\ At(r, "waiting")
  /\ Goto(r, "acquire")
  /\ UNCHANGED <<rtVars, progVars, semVars, seen, arg, sh, id_cnt, crashed>>

(***************************************************************************)
(* The inner loop: one turn of the program at the cursor.                  *)
(***************************************************************************)
LeaveLoop(r) ==
  /\ At(r, "loop")
  /\ curr[r] = Null \/ ~running[r]
  /\ Goto(r, "running")
  /\ UNCHANGED <<rtVars, progVars, semVars, seen, arg, sh, id_cnt, crashed>>

\* switch (prog->state); seen keeps what the switch read
Dispatch(r) ==
  LET p == curr[r] IN
  /\ At(r, "loop")
  /\ p \in Listed(r) /\ running[r]
  /\ \/ /\ state[p] \in {"MAGIC_LINE", "INSTRUCTION_LINE"}
        /\ Goto(r, "scan")
        /\ seen' = [seen EXCEPT ![r] = state[p]]
     \/ /\ state[p] = "SLEEPING" /\ Goto(r, "sleep") /\ UNCHANGED seen
     \/ /\ state[p] = "BLOCKED" /\ Goto(r, "blocked") /\ UNCHANGED seen
     \/ /\ state[p] \in {"LAST_LINE", "FINISHED"}
        /\ Goto(r, "check") /\ UNCHANGED seen
  /\ UNCHANGED <<rtVars, progVars, semVars, arg, sh, id_cnt, crashed>>

\* rt->curr->pData of a node that was deleted
DispatchFreed(r) ==
  /\ At(r, "loop")
  /\ curr[r] # Null /\ running[r] /\ curr[r] \notin Listed(r)
  /\ crashed' = TRUE
  /\ UNCHANGED <<rtVars, progVars, semVars, thrVars, sh, id_cnt>>

SetState(p, s) == state' = [state EXCEPT ![p] = s]

\* program_stop(p, 1) by the thread that runs p
StopWithError(p) ==
  /\ SetState(p, "FINISHED")
  /\ error_flag' = [error_flag EXCEPT ![p] = TRUE]

(***************************************************************************)
(* parse_magic and tokenize_next_line.  The scanner leaves the state       *)
(* alone, marks the last line, puts INSTRUCTION_LINE back after a branch   *)
(* on the last line, or stops the program.  After the magic line           *)
(* INSTRUCTION_LINE is written even when the magic bytes were wrong and    *)
(* program_stop has already raised the error flag.                         *)
(***************************************************************************)
Scan(r) ==
  LET p == curr[r] IN
  /\ At(r, "scan")
  /\ \/ StopWithError(p)
     \/ /\ seen[r] = "MAGIC_LINE"
        /\ SetState(p, "FINISHED") /\ UNCHANGED error_flag
     \/ \E s \in {"INSTRUCTION_LINE", "LAST_LINE"} :
           /\ SetState(p, s)
           /\ \/ UNCHANGED error_flag
              \/ /\ seen[r] = "MAGIC_LINE"
                 /\ error_flag' = [error_flag EXCEPT ![p] = TRUE]
     \/ seen[r] = "INSTRUCTION_LINE" /\ UNCHANGED <<state, error_flag>>
  /\ seen' = [seen EXCEPT ![r] = "none"]
  /\ Goto(r, "ready")
  /\ UNCHANGED <<rtVars, sem, blocked_idx, semVars, arg, sh, id_cnt, crashed>>

\* if (prog->state == INSTRUCTION_LINE || prog->state == LAST_LINE)
TestReady(r) ==
  /\ At(r, "ready")
  /\ Goto(r, IF state[curr[r]] \in {"INSTRUCTION_LINE", "LAST_LINE"}
             THEN "exec" ELSE "slice")
  /\ UNCHANGED <<rtVars, progVars, semVars, seen, arg, sh, id_cnt, crashed>>

(***************************************************************************)
(* exec_instruction_line, one disjunct per kind of instruction.            *)
(***************************************************************************)
\* the instructions that end in the handler call itself: arithmetic, LOAD,
\* PRINT and taken backward branches leave the state alone; RETURN and the
\* empty line end the program; a forward branch scans lines on its way
ExecHere(r) ==
  LET p == curr[r] IN
  /\ At(r, "exec")
  /\ \/ "local" \in Instructions /\ UNCHANGED <<state, error_flag>>
     \/ "return" \in Instructions /\ SetState(p, "FINISHED") /\ UNCHANGED error_flag
     \/ "error" \in Instructions /\ StopWithError(p)
     \/ "sleep" \in Instructions /\ SetState(p, "SLEEPING") /\ UNCHANGED error_flag
     \/ /\ "branch" \in Instructions
        /\ \E s \in {"INSTRUCTION_LINE", "LAST_LINE"} : SetState(p, s)
        /\ UNCHANGED error_flag
  /\ Goto(r, "endline")
  /\ UNCHANGED <<rtVars, sem, blocked_idx, semVars, seen, arg, sh, id_cnt, crashed>>

\* a forward branch of a program kill has finished after TestReady: the
\* search reads a line tokenize_next_line has put no token of, through NULL
SearchKilled(r) ==
  /\ At(r, "exec")
  /\ "branch" \in Instructions
  /\ state[curr[r]] = "FINISHED"
  /\ crashed' = TRUE
  /\ UNCHANGED <<rtVars, progVars, semVars, thrVars, sh, id_cnt>>

\* semaphore_handler and store_handler, up to the global_var_* call
ExecGlobal(r) ==
  /\ At(r, "exec")
  /\ \E op \in {"up", "down", "store"} \cap Instructions, s \in Sems :
        /\ op = "up" => count[s] < MaxCount
        /\ arg' = [arg EXCEPT ![r] = s]
        /\ Goto(r, op)
  /\ UNCHANGED <<rtVars, progVars, semVars, seen, sh, id_cnt, crashed>>

\* global_var_up: a global that does not exist yet counts as 0
Up(r) ==
  LET s == arg[r] IN
  /\ At(r, "up")
  /\ mtx[VarOf(s)] = NoRt
  /\ count' = [count EXCEPT ![s] = @ + 1]
  /\ arg' = [arg EXCEPT ![r] = Uninit]
  /\ Goto(r, "endline")
  /\ UNCHANGED <<rtVars, progVars, mtx, seen, sh, id_cnt, crashed>>

\* global_var_store
Store(r) ==
  LET s == arg[r] IN
  /\ At(r, "store")
  /\ mtx[VarOf(s)] = NoRt
  /\ \E v \in 0 .. MaxCount : count' = [count EXCEPT ![s] = v]
  /\ arg' = [arg EXCEPT ![r] = Uninit]
  /\ Goto(r, "endline")
  /\ UNCHANGED <<rtVars, progVars, mtx, seen, sh, id_cnt, crashed>>

\* global_var_down writes prog->blocked_idx, then prog->state = BLOCKED, then
\* prog->sem
DownIdx(r) ==
  /\ At(r, "down")
  /\ mtx[VarOf(arg[r])] = NoRt
  /\ blocked_idx' = [blocked_idx EXCEPT ![curr[r]] = IdxOf(arg[r])]
  /\ Goto(r, "downblock")
  /\ UNCHANGED <<rtVars, state, error_flag, sem, semVars, seen, arg, sh, id_cnt, crashed>>

DownBlock(r) ==
  /\ At(r, "downblock")
  /\ SetState(curr[r], "BLOCKED")
  /\ Goto(r, "downsem")
  /\ UNCHANGED <<rtVars, error_flag, sem, blocked_idx, semVars, seen, arg, sh, id_cnt,
                 crashed>>

\* mutant: the semaphore is kept where it is
DownSemNotWritten(r) ==
  /\ At(r, "downsem")
  /\ arg' = [arg EXCEPT ![r] = Uninit]
  /\ Goto(r, "endline")
  /\ UNCHANGED <<rtVars, progVars, semVars, seen, sh, id_cnt, crashed>>

DownSem(r) ==
  /\ At(r, "downsem")
  /\ sem' = [sem EXCEPT ![curr[r]] = VarOf(arg[r])]
  /\ arg' = [arg EXCEPT ![r] = Uninit]
  /\ Goto(r, "endline")
  /\ UNCHANGED <<rtVars, state, error_flag, blocked_idx, semVars, seen, sh, id_cnt,
                 crashed>>

\* prog->state = (prog->state == LAST_LINE) ? FINISHED : prog->state,
\* a read and a write; the compiler may drop the write of the same value
EndLineRead(r) ==
  /\ At(r, "endline")
  /\ seen' = [seen EXCEPT ![r] = state[curr[r]]]
  /\ Goto(r, "endwrite")
  /\ UNCHANGED <<rtVars, progVars, semVars, arg, sh, id_cnt, crashed>>

\* mutant: the last line is not marked as executed
EndLineWriteKeepsState(r) ==
  /\ At(r, "endwrite")
  /\ SetState(curr[r], seen[r])
  /\ seen' = [seen EXCEPT ![r] = "none"]
  /\ Goto(r, "slice")
  /\ UNCHANGED <<rtVars, error_flag, sem, blocked_idx, semVars, arg, sh, id_cnt, crashed>>

EndLineWrite(r) ==
  /\ At(r, "endwrite")
  /\ IF seen[r] = "LAST_LINE"
     THEN SetState(curr[r], "FINISHED")
     ELSE SetState(curr[r], seen[r]) \/ UNCHANGED state
  /\ seen' = [seen EXCEPT ![r] = "none"]
  /\ Goto(r, "slice")
  /\ UNCHANGED <<rtVars, error_flag, sem, blocked_idx, semVars, arg, sh, id_cnt, crashed>>

\* while ((time_slice > 0) && (prog->state == INSTRUCTION_LINE))
SliceGoesOn(r) ==
  /\ At(r, "slice")
  /\ state[curr[r]] = "INSTRUCTION_LINE"
  /\ seen' = [seen EXCEPT ![r] = "INSTRUCTION_LINE"]
  /\ Goto(r, "scan")
  /\ UNCHANGED <<rtVars, progVars, semVars, arg, sh, id_cnt, crashed>>

\* mutant: the time slice is not tested
SliceOverWhenDone(r) ==
  /\ At(r, "slice")
  /\ state[curr[r]] # "INSTRUCTION_LINE"
  /\ Goto(r, "check")
  /\ UNCHANGED <<rtVars, progVars, semVars, seen, arg, sh, id_cnt, crashed>>

SliceOver(r) ==
  /\ At(r, "slice")
  /\ Goto(r, "check")
  /\ UNCHANGED <<rtVars, progVars, semVars, seen, arg, sh, id_cnt, crashed>>

\* case SLEEPING: part of the time left is slept, or all of it
Sleep(r) ==
  /\ At(r, "sleep")
  /\ UNCHANGED state \/ SetState(curr[r], "INSTRUCTION_LINE")
  /\ Goto(r, "check")
  /\ UNCHANGED <<rtVars, error_flag, sem, blocked_idx, semVars, seen, arg, sh, id_cnt, crashed>>

(***************************************************************************)
(* case BLOCKED: program_state_blocked.  The deadline handed to            *)
(* pthread_cond_timedwait may have passed, so the wait may end at any      *)
(* time; it releases mtx and takes it again.                               *)
(***************************************************************************)
\* mutant: the last token is left
TakeTokenButLast(r, s) ==
  /\ count[s] > 1
  /\ count' = [count EXCEPT ![s] = @ - 1]
  /\ mtx' = [mtx EXCEPT ![VarOf(s)] = r]
  /\ Goto(r, "unblock")

\* mutant: the program goes on and the token stays
TakeTokenKept(r, s) ==
  /\ count[s] > 0
  /\ mtx' = [mtx EXCEPT ![VarOf(s)] = r]
  /\ Goto(r, "unblock")
  /\ UNCHANGED count

TakeToken(r, s) ==
  /\ count[s] > 0
  /\ count' = [count EXCEPT ![s] = @ - 1]
  /\ mtx' = [mtx EXCEPT ![VarOf(s)] = r]
  /\ Goto(r, "unblock")

Blocked(r) ==
  LET s == Waited(curr[r]) IN
  /\ At(r, "blocked")
  /\ mtx[VarOf(s)] = NoRt
  /\ \/ TakeToken(r, s)
     \/ count[s] <= 0 /\ Goto(r, "timedwait") /\ UNCHANGED semVars
  /\ UNCHANGED <<rtVars, progVars, seen, arg, sh, id_cnt, crashed>>

TimedWaitEnds(r) ==
  LET s == Waited(curr[r]) IN
  /\ At(r, "timedwait")
  /\ mtx[VarOf(s)] = NoRt
  /\ \/ TakeToken(r, s)
     \/ count[s] <= 0 /\ Goto(r, "check") /\ UNCHANGED semVars
  /\ UNCHANGED <<rtVars, progVars, seen, arg, sh, id_cnt, crashed>>

ReleaseMtx(r) == mtx' = [mtx EXCEPT ![sem[curr[r]]] = NoRt]

\* mutant: a way out that keeps mtx
UnblockTestKeepsMtx(r) ==
  /\ At(r, "unblock")
  /\ Goto(r, IF state[curr[r]] = "BLOCKED" THEN "unblockwrite" ELSE "check")
  /\ UNCHANGED <<rtVars, progVars, semVars, seen, arg, sh, id_cnt, crashed>>

\* if (prog->state == BLOCKED) prog->state = INSTRUCTION_LINE, then unlock
UnblockTest(r) ==
  /\ At(r, "unblock")
  /\ IF state[curr[r]] = "BLOCKED"
     THEN Goto(r, "unblockwrite") /\ UNCHANGED mtx
     ELSE Goto(r, "check") /\ ReleaseMtx(r)
  /\ UNCHANGED <<rtVars, progVars, count, seen, arg, sh, id_cnt, crashed>>

UnblockWrite(r) ==
  /\ At(r, "unblockwrite")
  /\ SetState(curr[r], "INSTRUCTION_LINE")
  /\ ReleaseMtx(r)
  /\ Goto(r, "check")
  /\ UNCHANGED <<rtVars, error_flag, sem, blocked_idx, count, seen, arg, sh, id_cnt, crashed>>

(***************************************************************************)
(* The end of a turn: detach the program, or move on to the next one.      *)
(***************************************************************************)
\* mutant: the error flag is not looked at
CheckStateOnly(r) ==
  /\ At(r, "check")
  /\ Goto(r, IF state[curr[r]] = "FINISHED" THEN "detach" ELSE "advance")
  /\ UNCHANGED <<rtVars, progVars, semVars, seen, arg, sh, id_cnt, crashed>>

\* mutant: a runtime that stops detaches the program it is at
CheckStopping(r) ==
  /\ At(r, "check")
  /\ Goto(r, IF state[curr[r]] = "FINISHED" \/ error_flag[curr[r]] \/ ~running[r]
             THEN "detach" ELSE "advance")
  /\ UNCHANGED <<rtVars, progVars, semVars, seen, arg, sh, id_cnt, crashed>>

Check(r) ==
  /\ At(r, "check")
  /\ Goto(r, IF state[curr[r]] = "FINISHED" \/ error_flag[curr[r]]
             THEN "detach" ELSE "advance")
  /\ UNCHANGED <<rtVars, progVars, semVars, seen, arg, sh, id_cnt, crashed>>

\* what program_free leaves of the programs P
FreePrograms(P) ==
  /\ state' = [p \in Prog |-> IF p \in P THEN "FREED" ELSE state[p]]
  /\ error_flag' = [p \in Prog |-> p \notin P /\ error_flag[p]]
  /\ sem' = [p \in Prog |-> IF p \in P THEN Uninit ELSE sem[p]]
  /\ blocked_idx' = [p \in Prog |-> IF p \in P THEN Uninit ELSE blocked_idx[p]]

\* mutant: without rt->lock
MoveCursorUnlocked(r) ==
  curr' = [curr EXCEPT ![r] = NextNode(program_list[r], @)]

\* rt->curr = rt->curr->nxt, under rt->lock
MoveCursor(r) ==
  /\ lock[r] = "free"
  /\ curr' = [curr EXCEPT ![r] = NextNode(program_list[r], @)]

\* mutant: rt->curr is deleted after it has moved, not rt->curr->prv
UnlistNext(r, p) ==
  /\ program_cnt' = [program_cnt EXCEPT ![r] = @ - 1]
  /\ program_list' = [program_list EXCEPT ![r] = DeleteNode(@, NextNode(@, p))]

Unlist(r, p) ==
  /\ program_cnt' = [program_cnt EXCEPT ![r] = @ - 1]
  /\ program_list' = [program_list EXCEPT ![r] = DeleteNode(@, p)]

\* the node of a list of one is its own successor, so curr dangles then
Detach(r) ==
  /\ At(r, "detach")
  /\ MoveCursor(r)
  /\ Unlist(r, curr[r])
  /\ FreePrograms({curr[r]})
  /\ Goto(r, "detached")
  /\ UNCHANGED <<running, lock, semVars, seen, arg, sh, id_cnt, crashed>>

\* mutant: the cursor is not cleared
ClearCursorNever(r) ==
  /\ At(r, "detached")
  /\ Goto(r, "loop")
  /\ UNCHANGED <<rtVars, progVars, semVars, seen, arg, sh, id_cnt, crashed>>

\* if (!rt->program_list) rt->curr = NULL, after the lock was released
ClearCursor(r) ==
  /\ At(r, "detached")
  /\ curr' = IF program_list[r] = <<>> THEN [curr EXCEPT ![r] = Null] ELSE curr
  /\ Goto(r, "loop")
  /\ UNCHANGED <<running, program_list, program_cnt, lock, progVars, semVars,
                 seen, arg, sh, id_cnt, crashed>>

Advance(r) ==
  /\ At(r, "advance")
  /\ MoveCursor(r)
  /\ Goto(r, "loop")
  /\ UNCHANGED <<running, program_list, program_cnt, lock, progVars, semVars,
                 seen, arg, sh, id_cnt, crashed>>

-----------------------------------------------------------------------------
(***************************************************************************)
(* The shell thread: main, one command at a time.                          *)
(***************************************************************************)
ShellAt(l) == sh.at = l
ShellGoto(l) == sh' = [sh EXCEPT !.at = l]
NextRuntime(l) == sh' = [sh EXCEPT !.at = l, !.i = @ + 1]
Signal(r) == pc' = [pc EXCEPT ![r] = IF @ = "waiting" THEN "acquire" ELSE @]

\* mutant: without rt->lock
SignalIfEmptyUnlocked(r) ==
  IF program_list[r] = <<>> THEN Signal(r) ELSE UNCHANGED pc

\* under rt->lock: signal the runtime that may be waiting for a program
SignalIfEmpty(r) ==
  /\ lock[r] = "free"
  /\ IF program_list[r] = <<>> THEN Signal(r) ELSE UNCHANGED pc

StartCommand ==
  /\ ShellAt("idle")
  /\ \/ "run" \in Commands /\ id_cnt <= MaxProgs /\ ShellGoto("run")
     \/ /\ "kill" \in Commands
        /\ \E id \in Prog : sh' = [sh EXCEPT !.at = "kill", !.id = id]
     \/ "list" \in Commands /\ ShellGoto("list")
     \/ "quit" \in Commands /\ ShellGoto("stop")
  /\ UNCHANGED <<rtVars, progVars, semVars, thrVars, id_cnt, crashed>>

EndCommand ==
  /\ sh.at \in {"kill", "list"} /\ sh.i = RtCnt
  /\ sh' = ShellIdle
  /\ UNCHANGED <<rtVars, progVars, semVars, thrVars, id_cnt, crashed>>

\* mutant: the greatest is kept
ReadCountGreatest ==
  /\ ShellAt("run") /\ sh.i < RtCnt
  /\ lock[sh.i] = "free"
  /\ sh' = IF sh.i = 0 \/ program_cnt[sh.i] > sh.minCnt
           THEN [sh EXCEPT !.i = @ + 1, !.minCnt = program_cnt[sh.i], !.minIdx = sh.i]
           ELSE [sh EXCEPT !.i = @ + 1]
  /\ UNCHANGED <<rtVars, progVars, semVars, thrVars, id_cnt, crashed>>

\* run: read the program_cnt of one runtime under its lock, keep the least
ReadCount ==
  /\ ShellAt("run") /\ sh.i < RtCnt
  /\ lock[sh.i] = "free"
  /\ sh' = IF sh.i = 0 \/ program_cnt[sh.i] < sh.minCnt
           THEN [sh EXCEPT !.i = @ + 1, !.minCnt = program_cnt[sh.i], !.minIdx = sh.i]
           ELSE [sh EXCEPT !.i = @ + 1]
  /\ UNCHANGED <<rtVars, progVars, semVars, thrVars, id_cnt, crashed>>

\* mutant: program_cnt is not incremented
EnlistUncounted(r, p) ==
  /\ program_list' = [program_list EXCEPT ![r] = Append(@, p)]
  /\ UNCHANGED program_cnt

Enlist(r, p) ==
  /\ program_cnt' = [program_cnt EXCEPT ![r] = @ + 1]
  /\ program_list' = [program_list EXCEPT ![r] = Append(@, p)]

\* program_init and runtime_attach_program; sem stays unwritten
Attach ==
  LET r == sh.minIdx IN
  /\ ShellAt("run") /\ sh.i = RtCnt
  /\ SignalIfEmpty(r)
  /\ state' = [state EXCEPT ![id_cnt] = "MAGIC_LINE"]
  /\ id_cnt' = id_cnt + 1
  /\ Enlist(r, id_cnt)
  /\ sh' = ShellIdle
  /\ UNCHANGED <<running, curr, lock, error_flag, sem, blocked_idx, semVars, seen,
                 arg, crashed>>

\* kill, mark_program_as_finished: search one runtime; when the program is
\* found its rt->lock stays taken and no later runtime is searched for it
KillSearch ==
  /\ ShellAt("kill") /\ sh.i < RtCnt
  /\ lock[sh.i] = "free"
  /\ IF sh.id \in Listed(sh.i)
     THEN /\ lock' = [lock EXCEPT ![sh.i] = "shell"]
          /\ sh' = [sh EXCEPT !.id = -1, !.prog = sh.id,
                       !.at = IF state[sh.id] = "BLOCKED" THEN "killsem" ELSE "killstop"]
     ELSE NextRuntime("kill") /\ UNCHANGED lock
  /\ UNCHANGED <<running, program_list, curr, program_cnt, progVars, semVars,
                 thrVars, id_cnt, crashed>>

\* var = prog->sem
KillReadSem ==
  /\ ShellAt("killsem")
  /\ sh' = [sh EXCEPT !.at = "killpost", !.var = sem[sh.prog]]
  /\ UNCHANGED <<rtVars, progVars, semVars, thrVars, id_cnt, crashed>>

\* the element kill posts: the global it has read, the index of the moment
Posted == <<sh.var, blocked_idx[sh.prog]>>

\* var->count[prog->blocked_idx] = 1, under var->mtx
KillPost ==
  /\ ShellAt("killpost")
  /\ Posted \in Sems /\ mtx[sh.var] = NoRt
  /\ count' = [count EXCEPT ![Posted] = 1]
  /\ ShellGoto("killstop")
  /\ UNCHANGED <<rtVars, progVars, mtx, thrVars, id_cnt, crashed>>

\* the same through a pointer nobody has written, or past the end of the
\* counts of another global
KillPostOutside ==
  /\ ShellAt("killpost")
  /\ Posted \notin Sems
  /\ sh.var \in Globals => mtx[sh.var] = NoRt
  /\ crashed' = TRUE
  /\ UNCHANGED <<rtVars, progVars, semVars, thrVars, sh, id_cnt>>

\* mutant: the program is woken and not finished
KillSetStateReady ==
  /\ ShellAt("killstop")
  /\ SetState(sh.prog, "INSTRUCTION_LINE")
  /\ ShellGoto("killflag")
  /\ UNCHANGED <<rtVars, error_flag, sem, blocked_idx, semVars, thrVars, id_cnt, crashed>>

\* program_stop(prog, 1): two writes, no lock the runtime thread knows of
KillSetState ==
  /\ ShellAt("killstop")
  /\ SetState(sh.prog, "FINISHED")
  /\ ShellGoto("killflag")
  /\ UNCHANGED <<rtVars, error_flag, sem, blocked_idx, semVars, thrVars, id_cnt, crashed>>

KillSetFlag ==
  /\ ShellAt("killflag")
  /\ error_flag' = [error_flag EXCEPT ![sh.prog] = TRUE]
  /\ lock' = [lock EXCEPT ![sh.i] = "free"]
  /\ sh' = [sh EXCEPT !.at = "kill", !.i = @ + 1, !.prog = Null, !.var = Uninit]
  /\ UNCHANGED <<running, program_list, curr, program_cnt, state, sem, blocked_idx, semVars,
                 thrVars, id_cnt, crashed>>

\* list: the argv[0] of the program at the cursor of one runtime
ListRuntime ==
  /\ ShellAt("list") /\ sh.i < RtCnt
  /\ lock[sh.i] = "free"
  /\ curr[sh.i] = Null \/ curr[sh.i] \in Listed(sh.i)
  /\ NextRuntime("list")
  /\ UNCHANGED <<rtVars, progVars, semVars, thrVars, id_cnt, crashed>>

\* the same through a node that was deleted
ListFreed ==
  /\ ShellAt("list") /\ sh.i < RtCnt
  /\ lock[sh.i] = "free"
  /\ curr[sh.i] # Null /\ curr[sh.i] \notin Listed(sh.i)
  /\ crashed' = TRUE
  /\ UNCHANGED <<rtVars, progVars, semVars, thrVars, sh, id_cnt>>

\* quit, runtime_stop for one runtime after the other: the flag is
\* cleared without the lock
StopFlag ==
  /\ ShellAt("stop") /\ sh.i < RtCnt
  /\ running' = [running EXCEPT ![sh.i] = FALSE]
  /\ ShellGoto("signal")
  /\ UNCHANGED <<program_list, curr, program_cnt, lock, progVars, semVars, thrVars,
                 id_cnt, crashed>>

StopSignal ==
  /\ ShellAt("signal")
  /\ SignalIfEmpty(sh.i)
  /\ ShellGoto("join")
  /\ UNCHANGED <<rtVars, progVars, semVars, seen, arg, id_cnt, crashed>>

\* mutant: the list is destroyed before the thread is joined
JoinEarly ==
  /\ ShellAt("join")
  /\ FreePrograms(Listed(sh.i))
  /\ program_list' = [program_list EXCEPT ![sh.i] = <<>>]
  /\ NextRuntime("stop")
  /\ UNCHANGED <<running, curr, program_cnt, lock, semVars, thrVars, id_cnt, crashed>>

\* pthread_join returns; the programs left on the list are freed
Join ==
  /\ ShellAt("join")
  /\ At(sh.i, "done")
  /\ FreePrograms(Listed(sh.i))
  /\ program_list' = [program_list EXCEPT ![sh.i] = <<>>]
  /\ NextRuntime("stop")
  /\ UNCHANGED <<running, curr, program_cnt, lock, semVars, thrVars, id_cnt, crashed>>

Exit ==
  /\ ShellAt("stop") /\ sh.i = RtCnt
  /\ ShellGoto("exit")
  /\ UNCHANGED <<rtVars, progVars, semVars, thrVars, id_cnt, crashed>>

-----------------------------------------------------------------------------
\* the code of program_state_blocked
BlockedTurn(r) == \/ Blocked(r) \/ TimedWaitEnds(r) \/ UnblockTest(r) \/ UnblockWrite(r)

\* the do-while of one time slice
InstructionTurn(r) ==
  \/ Scan(r) \/ TestReady(r) \/ ExecHere(r) \/ SearchKilled(r) \/ ExecGlobal(r)
  \/ Up(r) \/ Store(r) \/ DownIdx(r) \/ DownBlock(r) \/ DownSem(r)
  \/ EndLineRead(r) \/ EndLineWrite(r) \/ SliceGoesOn(r) \/ SliceOver(r)

Thread(r) ==
  \/ TestRunning(r) \/ Acquire(r) \/ MustWait(r) \/ TakeHead(r) \/ CondWait(r)
  \/ LeaveLoop(r) \/ Dispatch(r) \/ DispatchFreed(r)
  \/ InstructionTurn(r) \/ Sleep(r) \/ BlockedTurn(r)
  \/ Check(r) \/ Detach(r) \/ ClearCursor(r) \/ Advance(r)

ShellGoesOn ==
  \/ EndCommand \/ ReadCount \/ Attach
  \/ KillSearch \/ KillReadSem \/ KillPost \/ KillPostOutside
  \/ KillSetState \/ KillSetFlag
  \/ ListRuntime \/ ListFreed
  \/ StopFlag \/ StopSignal \/ Join \/ Exit

\* the process has ended
Ended == (crashed \/ ShellAt("exit")) /\ UNCHANGED vars

Next ==
  \/ ~crashed /\ \E r \in Rt : Thread(r) \/ SpuriousWakeup(r)
  \/ ~crashed /\ (StartCommand \/ ShellGoesOn)
  \/ Ended

Spec == Init /\ [][Next]_vars

(***************************************************************************)
(* Fairness: every runtime thread and a shell command that has begun are   *)
(* scheduled and get the locks they ask for (no critical section waits for *)
(* more than another mutex, and the shell goes back to reading a line      *)
(* between two commands); a time slice runs out.  Nobody has to type.      *)
(***************************************************************************)
Fairness ==
  /\ \A r \in Rt : SF_vars(~crashed /\ Thread(r)) /\ SF_vars(~crashed /\ SliceOver(r))
  /\ SF_vars(~crashed /\ ShellGoesOn)

FairSpec == Spec /\ Fairness

=============================================================================
