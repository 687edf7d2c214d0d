------------------------- MODULE RuntimeProperties -------------------------
(***************************************************************************)
(* What the runtime threads and the shell must never do to each other, and *)
(* what must happen in the end.                                            *)
(***************************************************************************)
EXTENDS Runtime

\* the places of a thread in the middle of the turn of the program at curr
TurnPc == {"scan", "ready", "exec", "up", "down", "store", "downblock", "downsem",
           "endline", "endwrite", "slice", "sleep", "blocked", "timedwait",
           "unblock", "unblockwrite", "check", "detach", "advance"}
PcLabel == TurnPc \cup {"running", "acquire", "test", "wait", "waiting",
                        "loop", "detached", "done"}
KillLabel == {"killsem", "killpost", "killstop", "killflag"}
ShLabel == KillLabel \cup {"idle", "run", "kill", "list", "stop", "signal",
                           "join", "exit"}

ShellRecord == [at : ShLabel, i : 0 .. RtCnt, id : Prog \cup {-1},
                prog : Prog \cup {Null}, var : Globals \cup {Uninit},
                minCnt : Nat, minIdx : Rt]

TypeOK ==
  /\ running \in [Rt -> BOOLEAN]
  /\ program_list \in [Rt -> Seq(Prog)]
  /\ curr \in [Rt -> Prog \cup {Null}]
  /\ program_cnt \in [Rt -> Nat]
  /\ lock \in [Rt -> {"free", "thread", "shell"}]
  /\ state \in [Prog -> ProgState \cup {"UNBORN", "FREED"}]
  /\ error_flag \in [Prog -> BOOLEAN]
  /\ sem \in [Prog -> Globals \cup {Uninit}]
  /\ blocked_idx \in [Prog -> Nat \cup {Uninit}]
  /\ count \in [Sems -> Int]
  /\ mtx \in [Globals -> Rt \cup {NoRt}]
  /\ pc \in [Rt -> PcLabel]
  /\ seen \in [Rt -> ProgState \cup {"none"}]
  /\ arg \in [Rt -> Sems \cup {Uninit}]
  /\ sh \in ShellRecord
  /\ id_cnt \in 1 .. MaxProgs + 1
  /\ crashed \in BOOLEAN

-----------------------------------------------------------------------------
(***************************************************************************)
(* Safety.                                                                 *)
(***************************************************************************)
\* The program a thread is in the middle of a turn of is on the thread's own
\* list and is not freed: runtime.c reads and writes *prog without a lock all
\* through the turn, so nobody else may detach or free it.
TurnOnLiveProgram ==
  \A r \in Rt : pc[r] \in TurnPc =>
     curr[r] \in Listed(r) /\ state[curr[r]] \in ProgState

\* The program kill has found stays on its list, alive, until kill is done
\* with it: mark_program_as_finished keeps rt->lock over the whole search, so
\* that the thread cannot free the program under it.
KillVictimLive ==
  sh.at \in KillLabel =>
     /\ sh.prog \in Listed(sh.i) /\ state[sh.prog] \in ProgState
     /\ lock[sh.i] = "shell"

\* A thread waits for a program only while its list is empty, and once it has
\* been told to stop only as long as the signal is still to come: neither the
\* signal of an attached program nor that of runtime_stop, which clears
\* rt->running without the lock, can be lost.
NoLostWakeup ==
  \A r \in Rt : pc[r] \in {"wait", "waiting"} =>
     /\ program_list[r] = <<>>
     /\ running[r] \/ (ShellAt("signal") /\ sh.i = r)

\* A program is on one list, once, exactly while it is alive, and program_cnt,
\* which run balances the load by, counts the programs of the list.
ListedOnce ==
  /\ \A r \in Rt : IsInjective(program_list[r])
  /\ \A r1, r2 \in Rt : r1 # r2 => Listed(r1) \cap Listed(r2) = {}
  /\ \A p \in Prog : state[p] \in ProgState <=> \E r \in Rt : p \in Listed(r)
  /\ \A r \in Rt : running[r] => program_cnt[r] = Len(program_list[r])

\* A program on its last line is in the middle of that line: between turns
\* it would be dispatched to the default case for ever, neither executed nor
\* detached.
LastLineIsExecuted ==
  \A r \in Rt : \A p \in Listed(r) : state[p] = "LAST_LINE" =>
     /\ curr[r] = p
     /\ pc[r] \in {"ready", "exec", "up", "down", "downblock", "store", "endline",
                    "endwrite"}

\* run spreads the programs: though the counts are read one runtime after the
\* other, with programs finishing in between, no runtime gets more programs
\* than an even distribution of all programs ever started would give it.
BalancedLoad ==
  \A r \in Rt : program_cnt[r] <= (id_cnt + RtCnt - 2) \div RtCnt

\* A program is freed only when it has finished or was stopped with an error,
\* or when its runtime was stopped: the decision to detach, made without the
\* lock, still holds when the lock has been taken.
FreedWhenDone ==
  [][\A p \in Prog :
        state[p] # "FREED" /\ state'[p] = "FREED" =>
           \/ state[p] = "FINISHED" \/ error_flag[p]
           \/ ShellAt("join") /\ At(sh.i, "done")]_vars

-----------------------------------------------------------------------------
(***************************************************************************)
(* Liveness, under FairSpec.  A crash ends all obligations.                *)
(***************************************************************************)
\* A killed program is detached and freed in the end, though the thread that
\* runs it may write its state over the FINISHED of program_stop.
KilledIsFreed ==
  \A p \in Prog : error_flag[p] ~> (state[p] = "FREED" \/ crashed)

\* Round robin: a program on a list gets its next turn, however long the
\* other programs run, sleep or wait, unless its runtime is stopped.
RoundRobin ==
  \A r \in Rt : \A p \in Prog :
     p \in Listed(r) ~> \/ At(r, "loop") /\ curr[r] = p
                        \/ state[p] = "FREED" \/ ~running[r] \/ crashed

\* Every command ends, also kill, which waits for a mutex while it holds
\* another one, and quit, which joins every thread.
CommandEnds == ~ShellAt("idle") ~> (sh.at \in {"idle", "exit"} \/ crashed)

\* A program that waits on a semaphore with tokens left for good gets one:
\* the timed wait may miss every broadcast, the next turn looks again.
TokenIsTaken ==
  \A p \in Prog : \A s \in Sems :
     <>[](state[p] = "BLOCKED" /\ Waited(p) = s /\ count[s] > 0) => <>crashed

-----------------------------------------------------------------------------
(***************************************************************************)
(* Without kill, the globals are semaphores.  A program waits from the     *)
(* moment its DOWN is complete until a token has been taken for it.        *)
(***************************************************************************)
InMidStep(p) == \E r \in Rt : curr[r] = p /\ pc[r] \in {"downsem", "unblock", "unblockwrite"}

waiting == [p \in Prog |-> IF state[p] = "BLOCKED" /\ ~InMidStep(p)
                           THEN Waited(p) ELSE Uninit]

\* the programs that are gone for good
freed == {p \in Prog : state[p] = "FREED"}

Semaphores == INSTANCE GlobalSemaphores WITH
                Clients <- Prog, NotWaiting <- Uninit, gone <- freed,
                Storable <- IF "store" \in Instructions THEN 0 .. MaxCount ELSE {}

\* The runtime implements the semaphores of GlobalSemaphores: a program goes
\* on behind a DOWN only with exactly one token, taken from the element it
\* named, or is freed there and never runs again, though it is woken by
\* polling and the token and the program's state are written one after the
\* other.
ImplementsSemaphores == Semaphores!Spec

-----------------------------------------------------------------------------
(***************************************************************************)
(* Three races of the shell with a turn, and that they end where they do.  *)
(* The comments at runtime.c:144, main.c:104 and global.c:164 say or imply *)
(* that they do not happen.                                                *)
(***************************************************************************)
\* The cursor points to a deleted node only from the deletion of the last
\* program of a list to the write of NULL (runtime.c:138-141, not under
\* rt->lock), or for good if run attaches a program in between.
CursorGap ==
  \A r \in Rt : curr[r] \notin Listed(r) \cup {Null} /\ running[r] =>
     /\ state[curr[r]] = "FREED"
     /\ \/ At(r, "detached")
        \/ At(r, "loop") /\ program_list[r] # <<>>

\* kill finds a program whose sem and blocked_idx name no element, or none
\* together, only if the thread is between the writes of global_var_down
\* (global.c:159-161): behind the second one, or, for a program that had been
\* BLOCKED before, behind the first.  Any other kill has an element to post,
\* though perhaps not the one the program waits on.
KillFindsSemaphore ==
  ShellAt("killsem") /\ Waited(sh.prog) \notin Sems =>
     /\ curr[sh.i] = sh.prog
     /\ \/ At(sh.i, "downsem")
        \/ At(sh.i, "downblock") /\ sem[sh.prog] # Uninit

\* program_state_blocked, "only when the program is in BLOCKED state", is
\* also entered for a program kill has finished after the dispatch, and for
\* no other: the thread's own writes never come between.
BlockedOrKilled ==
  \A r \in Rt : pc[r] \in {"blocked", "timedwait"} =>
     LET p == curr[r] IN
     \/ state[p] = "BLOCKED"
     \/ state[p] = "FINISHED" /\ (error_flag[p] \/ (ShellAt("killflag") /\ sh.prog = p))

=============================================================================
