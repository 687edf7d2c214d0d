# Verification of simbly

simbly runs small assembly-like programs: a shell (the main thread) starts and
kills them, a fixed number of runtime threads execute them in turns, and the
programs synchronise through global variables used as semaphores. This
directory holds TLA+ models of that program, the TLC instances that check
them, and TLAPS proofs of what matters most about them.

## Inventory

| component | source | state | operations | modelled in |
|---|---|---|---|---|
| runtime threads | `runtime.c`, `program.c` | per thread: `running`, `program_list`, `curr`, `program_cnt`, `lock`, `list_not_empty`; per program: `state`, `error_flag`, `sem`, `blocked_idx`, `sleep_left` | wait for a program, a turn of a program, detach a finished program, attach, stop | `Runtime` |
| time slices and sleeping | `runtime.c:44-117`, `exec.c:837` | `time_slice`, `sleep_left` | draw a slice, sleep a portion | `TimeSlices` |
| shell | `main.c` | the runtimes, `id_cnt`, the line read | `run`, `kill`, `list`, `quit`, `help`, `clear` | `Runtime`; reading the line is not |
| global variables | `global.c` | hash table of names, `global_table_lock`; per variable `count[]`, `len`, `mtx`, `cond` | `UP`, `DOWN`, `LOAD`, `STORE`, `program_state_blocked` | `Globals`, `GlobalStore`; together with `kill`: `Runtime`, `GlobalSemaphores` |
| local variables, labels | `exec.c:69-462` | `vartable` | read and write a variable or array element, insert a label | `LocalVars`; labels and jumps: `Scanner` |
| instructions | `exec.c:464-900` | the variables above | one handler per instruction | their effect on the program's state: `Runtime`; on local variables: `LocalVars`; what they compute: `Machine` |
| scanner | `scanner.c` | `c`, `line`, `column`, `input`, `translated_line`, the file position | magic line, tokens, labels, forward branches | `Scanner`, `ProgramText` |
| sample programs | `test_programs/*.txt` | their local variables and the globals they share | rendezvous, barber, producer and consumer, readers and writers | `SamplePrograms`, `Samples` on `Machine` |
| messages, fatal errors | `error.c` | `print_lock` | print, exit | not modelled |
| libvoids | absent submodule | lists, tables, ring buffers | | external, from how the code uses it |

**How they interact.** The shell and the threads share `runtime_s` under
`rt->lock`, with two exceptions: `running` is written by the shell and `curr` is
written by the thread (`runtime.c:141`) without it. They share `program_s` under no
lock at all: the thread reads and writes `prog->state` all through a turn,
`kill` reads it and overwrites it. Threads share the global variables, each
under its own `mtx`; `kill` writes into one while it holds a `rt->lock`.

**What is hard.** Interleavings of the shell with the turn of a program
(`kill`, `list`, `run` in the gap between two critical sections), the wakeup of a
waiting thread, the timed wait whose deadline is in 1970 (the code fills in a
relative time, so a blocked program polls), state written in two steps
(`blocked_idx`, `state`, `sem`), the pair of a global followed after the table lock was let go,
the character of lookahead that survives from one line to the next, the search of a
branch for a label that was not executed yet, and the arithmetic of slices. `hazards` in
`PROJECT.json` lists each one at its line.

## The modules

`Runtime.tla` is the core: one action per stretch of code nobody else can observe
the middle of. `pc[r]` is the place of runtime thread `r`, `sh` is the record of
the shell's place and its locals. `seen[r]` is a value of `prog->state` the thread
has read and will act on (the `switch` of the dispatch and the read of
`exec.c:512`), `arg[r]` the global an instruction works on. A program is named
by its ID `argv[0]`, a list node by its program (every program has one node), and
memory that was freed has the state `FREED`. Following a pointer to no live
object sets `crashed`, after which the system stops. The condition variable is
the place `waiting`: `pthread_cond_wait` releases `rt->lock` and waits in one step,
the signal moves the thread on to take the lock again, and a spurious wakeup may happen
at any time. A data race on a flag or on `state` is the interleaving of the single reads
and writes, and the write back of an unchanged state (`exec.c:512`) may happen or be
left out, as the compiler chooses. What the lines of a program say is
open: `Scan` leaves the program in any state the scanner can leave it in, and
`ExecHere` and `ExecGlobal` choose any instruction. `SearchKilled` is a branch whose program was
killed: the search adds no token for a `FINISHED` program, and the first one is a `NULL` pointer (`exec.c:759`).
A `DOWN` writes `blocked_idx`, `state` and `sem` in three steps (`DownIdx`, `DownBlock`, `DownSem`), and `kill` posts the
element `sem` and `blocked_idx` name together, which may be a `sem` of before with the index of now:
another element, or one that global does not have (`KillPostOutside`). `MCRuntime.tla` gives the elements.

    shell:   idle -> run -> (read the counts) -> attach -> idle
                  -> kill -> (search) -> killsem -> killpost -> killstop -> killflag -> ...
                  -> list -> ...
                  -> stop -> signal -> join -> ... -> exit
    thread:  running -> acquire -> test -> wait -> waiting -> acquire
                                        -> loop -> (a turn) -> check -> detach -> detached -> loop
                                                                     -> advance -> loop

`RuntimeProperties.tla` states what must hold of it and the refinement mapping. Its last
three properties are about races the comments at `runtime.c:144`, `main.c:104` and
`global.c:164` say or imply do not happen; they happen, and the properties say exactly when:
`CursorGap` (the cursor points to a freed node between the unlock at `runtime.c:138` and the
write at line 141, or for good if `run` attaches a program in between),
`KillFindsSemaphore` (`kill` posts through a `sem` and a `blocked_idx` that name no element only between the
three writes of a `DOWN`), `BlockedOrKilled` (`program_state_blocked` runs for a program
that is not `BLOCKED` only if `kill` has just finished it). `GlobalSemaphores.tla` is the abstract
specification: a client that executes `DOWN` waits until it takes one token. The only other way out is to be
taken away for good: a client in `gone` (in the mapping, a program that was freed) never asks again.
A program *waits* in the mapping from the moment its `DOWN` is complete until
its token was taken and its state written.

`Globals.tla` is `global.c` with both of its locks: an operation looks its name up under
`global_table_lock`, lets that lock go, follows the pair (`ReadPair`) and works under `mtx`, or makes
the variable with the operation already done under the table lock. `stale` holds the programs
whose pair was found before an insertion moved the table; when the library moves it is not in the tree, so any
insertion may. An update is a read and a
write (`ReadElement`, `WriteElement`), so that a missing lock would lose one. `status` is how the
process is lost: `"exited"` (a key inserted twice), `"negative index"`, `"moved pair"`,
`"variable reallocated"` (`global.c:84`). An index of -1 on a new name makes the variable `NULL`: `UP` and `STORE` write
through it at once, `LOAD` and `DOWN` insert it and return (`Makes`), and the process is lost when the next operation,
or the `DOWN` itself in its next turn, locks its `mtx` (`LockNull`). `GlobalStore.tla` is the promise: every call takes effect
once, at one moment between its call and its return, on one element. In the mapping a
call is `pending` until the write under `mtx` or the insertion, and a program `waiting` from its
`DOWN` until its token is taken.

`TimeSlices.tla` is the sequential arithmetic of one program's turns: the slice
from a random `long` (with the negation of `LONG_MIN` as the machine does it and the
`%` of C) and the portions a `SLEEP` is cut into. After how many lines a slice is used up is left open, so
nothing here depends on what a line is charged. `MCTimeSlices.tla` gives it its values for TLC.

`LocalVars.tla` is one program's `vartable`: variables, arrays and labels share
it, as in the code. An instruction reads its operands in the handler's order and
writes its destination; one step is one call of `__varval_get_value` or
`__varval_set_value` up to the call for its index. `frames` are the calls that
wait for an index, each with the length of the array it has looked up (0: not found),
which is what goes stale when the index uses the same array, and with `stale`: `table_data` points into the table, which
any insertion by the index may move. The array that grows is then written to a pair that is no longer there
(status `"moved pair"`). `ret` is what the
innermost call has returned, `vals` what the handler has read. `status` is
`"stopped"` after `program_stop`; its other values are the ways the whole process is lost
(`"double free"`, `"freed array"`, `"moved pair"`, `"out of bounds"`, `"exited"` through `fatal_handler`,
`"trapped"` by a division): nothing is claimed about what follows. `assigned` is
a history of the values written, which only properties read. The comparison of
a branch is left open. `LocalVarsAssumption` says that operands and instructions are what the scanner makes of the
instruction table and that `int` is in two's complement, `OperandsAreFinite` that no operand is a part of its
own index. `MCLocalVars.tla` gives the instance.

`Scanner.tla` is `scanner.c` with the part of `exec.c` that drives it. A file is a sequence of words and
blanks, each one item: `pos` counts the items read, and `prog->c` is the item at `pos`, the first character of
a word that has not been read, or a blank. A token is the place of its word, so that
`translated_line` can be compared with the text. One action is one call of `get_next_word` with what
its caller does with the word, or one handler of `exec.c`; `goal` is the label a branch searches for.
`"lost"` is a `NULL` or unwritten pointer that is followed.
`ParseMagic` reads nine bytes whatever they are, the magic word and the character behind it, then up to the newline: a file that has
not as many ends without an error, and whatever else is on that line stops the program. The second operand of
`STORE` may be a number (its value); that of `LOAD` is taken for a name, and a number there for a pointer to one. An array without its
closing bracket leaves tokens in the ring where an operand is expected, and none where a label is. `ScannerAssumption` says what a file is: it begins with a
word, has a blank between two words, and no word is of two kinds the scanner tells apart. `TextLines.tla` says which words
make a line: those up to the newline, except that the newline between `PRINT` and its string ends nothing, and that `RETURN` ends its
line. `return_handler` reads nothing (`scanner.c:877`), so that a search for a label tokenizes what follows `RETURN` as a
line of its own and may even find its label there. The attempt to prove `LabelsAreLines` showed it. `ProgramText.tla` says what a program does, line by line: the abstract specification, in
which a line is named by its first word, `known` are the labels that were executed or jumped to,
and `Search` is where a search ends. It promises what the code does and not what one would wish: its header
lists the differences.

`Machine.tla` runs programs side by side on the variables of `GlobalStore`: one instruction is one step, which
`ImplementsStore` of `Globals` and `ImplementsText` of `Scanner` justify as long as no global outgrows its array. `extent` is
the length of each global, which its first use gives it (or `Made`, a use before the samples start), and an index
beyond it loses the process (`Overrun`), as `GrowGlobal` shows. `SamplePrograms.tla` has the
programs of `test_programs` line by line, without the texts they print, and `Samples.tla` what
they are for. `MCGlobals`, `MCScanner` and `MCSamples` give the instances.

`RuntimeProofs.tla`, `RaceProofs.tla` and `SemaphoresProofs.tla` (each on the one before), `TimeSlicesProofs.tla`,
`GlobalsProofs.tla`, `LocalVarsProofs.tla`, `ScannerProofs.tla` and `SamplesProofs.tla` hold the theorems.

Mutated forms of an action stand right before it, with a comment that says
what is wrong with them; they are no part of the specification and serve to show that
each property can fail.

## The runs

| run | instance | what it shows |
|---|---|---|
| `RuntimeSafety` | 1 thread, 2 programs, a global and an array of two, all commands and instructions | type invariant; a last line is always executed; only finished programs are freed; when `kill` meets a `DOWN` half written, and a turn a killed program |
| `RuntimeLists` | 2 threads, 5 programs, all commands | lists of three and of changing length: lists, states and counters agree, nobody works on a dead program (`TurnOnLiveProgram`, `KillVictimLive`), no wakeup is lost, the cursor dangles only in its gap, and `run` balances although counts are read one after the other and programs finish meanwhile |
| `RuntimeLiveness` | 1 thread, 2 programs, fair | killed programs are freed, round robin, every command ends, tokens are taken |
| `RuntimeRefinement` | 2 threads, 2 programs, an array of two, no `kill` | `Runtime` implements `GlobalSemaphores`: behind a `DOWN` a program goes on with one token of its element, or is freed |
| `TimeSlices` | a second of 16 ns, slices below 4 ns, 5-bit `long` | a `SLEEP` takes exactly its time and ends; `nanosleep` never refuses |
| `LocalVars` | an array, a variable, a label, integers -4 to 3, programs of any length over seventeen instructions | elements never show another element's value; names keep their meaning; growing an array loses at most the element that was its last; what was found before an index was evaluated is still there, the array unless the index uses it, the pair unless the index makes a new name |
| `Globals` | 2 programs, 3 names, an array of two, a table that is moved | first use by both at once, lost updates, locks: `Globals` implements `GlobalStore`, every call ends |
| `Scanner` | 3,111 files of up to three lines, each with a newline, none, or a blank at its end, and two shorter than the magic bytes need | `Scanner` implements `ProgramText`; handlers get the tokens of one line; jumps lead to lines; every call returns |
| `Samples` | rendezvous; barber and 3 customers; a producer, 1 or 2 consumers, and a buffer of two made before (`buffer`, `consumers`), of one (`slot`), or of two that the first item makes only one long (`short`); a writer and 2 readers | the rendezvous, every item once and in order, the sleeping barber wakes, one writer excludes readers, the process is lost only with the first item behind a buffer too short (`LostBehindTheBuffer`), and who is served in the end |

Three runs end in a violation: they show behaviour the documentation or a message of the code
excludes.

| run | what happens |
|---|---|
| `GrowGlobal` | `var->count = realloc(var, ...)` (`global.c:84`, 137, 225, 278): an index beyond the length of a global gives up the variable itself; `Producer.txt` does it with its second item, `STORE $buf[1]`, when the buffer is to have more than one slot |
| `UndefinedLabel` | in a file that begins with `#PROGRAM` on a line of its own, a branch to a label that no later line has reads the type of a `NULL` token (`exec.c:759`) before it comes to "couldn't jump to undefined label" |
| `WritersExclude` | `Writer.txt` changes the counts after its critical section without `DOWN $mtx` and raises it at the end: with two writers, two programs are in the critical section. With one writer a reader may wait in its queue for ever, which `EverybodyServed` allows |

Four more faults are part of the models and kept out of the claims: `LONG_MIN` as the random
number leaves a negative slice (`TimeSlices`, excluded from `Longs` and by a hypothesis of the theorems); growing an array clears
from `arr[arr[0]]` on, the last element that was there (`exec.c:174`, `GrowthKeepsTheRest` says that no other is
lost); an index that is a variable is freed when it is read and again when it is refused (`exec.c:166`,
status `"double free"`); an index of `argv` that is negative reads before the array. Division by zero ends the
process (`Trap`).

In the gap of `CursorGap` a program that is attached makes the thread itself go on
with the freed node; that behaviour is part of the model too.

**Bounds.** `RtCnt`, `MaxProgs` and `Sems` size the instance: two threads meet on the elements
of one array, and one thread is enough for the races of `kill` with a turn; two programs on one list are enough for deletion with a
successor and for the emptied list; five on two threads give lists of three, with a middle to delete from, and
something to balance. `MaxCount`
bounds the semaphore: no `UP` begins above it and no `STORE` stores above it; with 1, a
semaphore is empty, has a token, or (two `UP`s begun together) has two. `Commands` and
`Instructions` select what an instance contains; the safety run has them
all. The IDs `kill` is called with are those of programs that exist, have existed
or do not yet exist. In `TimeSlices` a second is 16 ns so that slices of up to 3 ns,
which do not divide it evenly, cross it,
and `Durations` includes a negative one, zero and three seconds. The run leaves out `LONG_MIN`. In `LocalVars`, an `int` has three bits and `INT_MAX` is 3, so that arrays have up to three
elements, addition wraps, and an index can be negative, `INT_MAX`, or refused; the operands nest
indices up to two deep, among them `$a[$a[1]]` and `$a[$a]`, which use the array they index, and `$a[$i[1]]`, which may make `$i`.

In `Globals`, `MaxCount` 1 lets two `UP`s begin together, any insertion may move the table, and of the three names one is an array
(`LOAD`, `STORE`, `UP`, `DOWN`), one a semaphore that is also used with the indices -1 and -2, and one is only inserted. In `Scanner` the files have two lines
of any of 22 shapes, each handler's and each mistake's, and `MaxLines` (3) lines of the seven that jump or are
jumped to; the first line is the magic bytes, other bytes (a newline among the eight too), or the bytes with a blank or a word behind them. A search needs a branch, a line to pass and the
label: three lines. In `Samples`, `MaxValue` (3) bounds what a program counts up to: the producer makes three items, which
fill a buffer of one or two and go round it.

**Deadlock** is checked in every run but those of `Samples`, in which programs end or wait for
ever, as they should (the barber without customers): `EverybodyServed` says that they end
where they should, except that a reader may stay in its queue and that the process is lost when the buffer is too short. A process that has ended (or crashed) stutters
by the action `Ended` or `Over`.

**Fairness.** `FairSpec` of `Runtime` is strongly fair to each runtime thread and to a
shell command that has begun: the operating system schedules every thread and, since
no critical section waits for anything but another mutex, each lock is free again and again and is
given to every thread that asks often enough. Nobody has to type a command:
`StartCommand` is not fair. It is strongly fair to `SliceOver`: a time slice is a number below
10 ms, and each line takes CPU time. In `TimeSlices` the slices of
a program's turns are not zero for ever (they are random), and the program gets its turns. `Globals` is
strongly fair to each program's next step, for the locks as above; nobody has to call. `Scanner` is
weakly fair to the one program's thread, `Machine` to each program: the runtimes are fair to
their programs (`RoundRobin`), and a token that stays is taken (`TokenIsTaken`).

## What is proved

For every number of threads, programs and semaphores (`RuntimeProofs`, `RaceProofs` and `SemaphoresProofs`, from
`RuntimeAssumption` alone), first from `RuntimeProofs`:

- `TypeCorrect`, `TurnsAreSafe`, `KillIsSafe`, `WakeupsArrive` and `ListsAgree`, which state
  the invariants of `RuntimeSafety` of the same subjects,
- all of them from `RuntimeInvariant`: `Spec => []IInv`.

The inductive invariant `IInv` is the conjunction of `TypeOK`, `LockInv` (who holds
`rt->lock` is where the code says), `ListInv` (lists without duplicates, disjoint,
holding exactly the programs alive, with correct counters), `ThreadInv` (in a turn the
cursor is listed; a thread that is done was told to stop), `ShellInv` (the
victim of `kill` is listed, the ID `run` hands out is fresh) and `NoLostWakeup`. Each
safety property alone is not inductive: that a program in a turn is not
freed needs that lists are disjoint (another thread frees only its own), that `kill`
frees nothing, and that `quit` frees only after the thread is done; that the
victim of `kill` stays needs that the shell holds the lock `Detach` takes; that a
wakeup is not lost needs that a thread between its test and its wait holds the lock.
The steps fall into three groups, each with one lemma that does the work:
`TurnStep` (a step within a turn touches only the thread's own program),
`LoopStep` (a step between turns) and `ShellStep` (a step that moves the shell);
`DetachStep`, `AttachStep`, `StopSteps` and `JoinStep` are done one by one.
Lemmas about lists (`NextNodeListed`, `DeleteNodeList`, `AppendList`) say what
the operators do for every list.

`RaceProofs` proves `LastLinesRun`, `BlockedTurns`, `KillPostsSemaphore`, `CursorDangles` and the action property
`FreedPrograms` from a second inductive invariant, `RaceInv`, which holds together with `IInv`. Its `TurnInv` says for
each place of a thread what the program's state can be there although `kill` may write `FINISHED` between any two steps:
a program about to be detached is done, a last line is between its scan and its end, what `exec.c:512` has read is
`LAST_LINE` if the state is, a program without a semaphore is `BLOCKED` only between the two writes. `ProgInv` says what is
true of a program nobody has a turn of (`Idle`); `kill` finds such programs too, which is why `KillFindsSemaphore`
needs it. `CursorInv` is `CursorGap` for one thread, and inductive as it is. `TurnRace`, `LoopRace` and
`ShellRace` correspond to the three lemmas above.

`LoadIsBalanced` (`BalancedLoad`) is proved there too. `run` reads the counts one after the other while programs finish, so the
least count it has seen says nothing of one moment. What is true at every step of its scan is `ScanInv`: the runtimes
before `sh.i` had each at least `minCnt` programs when they were read, which together with the programs still listed
on the runtimes from `sh.i` on (`ListedFrom`) are fewer than all programs started, since a program that was counted and
has finished was started too, and none is attached before the command ends. At the end of the scan `sh.i` is `RtCnt`, and
`RtCnt * minCnt < id_cnt` is the bound. The sum of the counters is never formed: a set of listed programs stands for
the counts not yet read, and `LoadInv` loses the members of one list at a time.

`SemaphoresProofs` proves `RuntimeImplementsSemaphores`: if `"kill" \notin Commands`, every step of the runtime maps to a
step of `GlobalSemaphores` or to none. Without `kill` the place of the thread decides whether its program is `BLOCKED`
(`BlockInv`); `DownSem` is then `Request`, taking a token `Take`, `Detach` and `Join` are `Leave` (a program that was freed is gone,
and what is freed is never `Request`ed for again), and every other step leaves the mapping alone, `UnblockTest` and `UnblockWrite` because the program stopped waiting when its token was taken.
A program may leave while it waits: wrong magic bytes raise the error flag and let the first line still run.

For every second, slice and width of `long` (`TimeSlicesProofs`, assuming that the
generator does not return `LONG_MIN`): `TimesAreTyped`, `SleepIsExact` and `NoSleepExits`, from the
inductive `TimeInvariant`.

For every set of programs and operations and every `MaxCount`
(`GlobalsProofs`, from `GlobalsAssumption`): `GlobalsTypeCorrect`, `FirstUseIsOnce`, and
`GlobalsImplementStore`, that `Globals` implements `GlobalStore`. The inductive invariant of
`GlobalsInvariant` says who holds which lock at which place, that a program past its search has its
variable in the table, and that what was read under `mtx` is still the element's value while the lock is
held (without which the write would not be the effect of an atomic operation). The refinement goes action by action: a write under `mtx` or an insertion is
`Perform`, `TakeToken` is `Take`, `Call` is `Call`, every other step leaves the abstract variables as they
are; an insertion extends an array nobody could see, whose other elements count as 0 before and after.

For every set of names, operands and instructions, and every size of `int`
(`LocalVarsProofs`, from `LocalVarsAssumption` and `OperandsAreFinite`): `LocalVarsTyped`, `ElementsKeepTheirOwn`,
`FoundArraysStay`, and the action properties `NamesKeepMeaning` and `GrowthKeepsElements`, all from `LocalVarsInvariant`.
`OwnValueOrZero` and `ArrayStaysFound` are not inductive alone. `Progress` says where the handler is: without it a
call that returns could find no value to write, or an index could be taken for the value of the instruction.
`Waiting` says that a call that waits has found no label and an array no longer than it is now, so that writing
through it hits the array. `WithinIndex` is the reason an array found stays: a call works on a part of the index of
every call that waits, so it can only make or move an array that this index names, and move the table only by making one of its new names. The two action properties follow
from one lemma about the table, `NextTable`: a step leaves it, puts an array that extends the one
that was there under one name, or adds a label where nothing was.

For every set of files of any length, every set of labels and all operands (`ScannerProofs`, from `ScannerAssumption`):
`ScannerTyped` and `LabelsStartLines` (`LabelsAreLines`), from `ScannerInvariant`. That a label of the table starts a line
depends on everything that is read before: it enters the table as the first token of a line, and it is the first token only because
the scanner stood at the start of a line when it read it. `Place` says so for the
places between two lines (what is read next starts a line, or is the instruction behind a label that was jumped to), and
the other parts carry it through a line: `TokensRead` (the last token is the last word read, with only blanks behind
it), `OperandsRead` (how many operands were read, so that a line ends with `RETURN`, or with a newline that no `PRINT`
waits behind; the last token of a branch is a label) and `LabelsRead` (what is behind a label of the table is an
instruction, or else the line was refused and the program is about to end: a jump may land there). The parts are
predicates on values, and the lemma `NextIInv` takes them from the values after a step to the next state.
`EndStartsNext` is the lemma about files: what ends the line of the last word makes the next word start one.
`FlushesToChar`, `FlushesToNewline` and `NextWordFacts` say what the functions that read return.

`TokensAreTheLine` (`TokensOfTheLine`) holds because of `LineInv`, which goes with the invariant above: the tokens in the ring are
the words of the text from the first one on, with nothing between two of them but blanks and none of a further line
(`Unbroken`), and when a handler runs, the line is over behind the last one (`Whole`). The set of words of a line is
never computed: that no word is left out follows from the gaps between neighbours.

For every set of programs and scenarios (`SamplesProofs`, from `MachineAssumption`, `NamesAssumption`, `CastAssumption`, `BufferAssumption` and `IndexAssumption`):
`RendezvousHolds`, `BarberSleepsWell` for any number of customers, `WriterIsAlone` for any number of readers and
`OneWriter` (the run `WritersExclude` shows what two do), the action property `ItemsAreInOrder` (`ItemsInOrder`) for one producer, any
number of consumers, a buffer of any size and any length `$buf` has before, as long as the process is not lost, and
`LostOnlyBehindTheBuffer` (`LostBehindTheBuffer`), which says when it is: with the first item behind the length of `$buf`, and only if that
is less than the programs were told. Any other programs may run beside them if
they leave the globals of the sample alone; the lines of the samples are looked up once, in lemmas that say for each
line where the program goes on and what it changes (`BarberMoves`, `ReaderMoves`, ...), and that it waits nowhere else than behind
its `DOWN`s (`MachineInvariant`). What carries each theorem:

- `MeetInv`: the token a program waits for is raised by the other after its first line.
- `BarberInv`: who is in the critical section (`LockInv`; the barber may also set up `$mtx` while customers wait), and
  `SeatInv`: while the barber is asleep, or past the test that sends him to sleep, either he has counted everybody, or `$avl` is 0 and one customer is on his way to
  wake him, or the wakeup has been given (`SleepInv`). The copies of `$avl` in `$tmp` are exact because of the lock.
- `RWInv`: `$mtx` is handed over by the reader that wakes the writer, so that nobody may be in the critical section although
  `$mtx` is 0 (`RWLockInv`). `$rds` is the number of readers between their two counts (`Active`, a set of any size), and `PhaseInv` says
  how far a writer that waits is: counted in `$ww`, being moved to `$wrs` by the last reader, or granted.
  A reader that has queued at `$rq` is not let in before the writer was, which is a part of the invariant (`Queued`).
  Nothing is needed of the writer's lines after its critical section: it does not start again, and `RWInv` is about the time before.
- `BufferInv`: there are numbers `t` of items stored, `c` of items taken, and the slots `i` and `o` of the next ones, such that the items
  `c + 1` to `t` are in the slots from `o` on (`Ring`, `Slot`). They are not variables of the model: the proof gives the next four for every
  line. `$in` and `$out` are `i` and `o`, unless somebody is between using a slot and writing them (`Written`). What `$full` and `$free` still offer,
  together with the programs that have claimed an item or a slot and not told the others (`Fetching`, `Emptied`, ...), is no more than
  what the buffer holds or has room for (`Counted`); so an item is stored over no other and taken only when it is there.
  `Init.txt` has the globals for itself before the others start (`Prepared`). The lock alone (`PCLockInv`) would not do.
  `Room` relates the length of `$buf` to the items: no consumer can ask for one that was not stored.
  `% argv[1]` is taken apart in `NextSlot`; the rest is linear.

Only model-checked: the liveness properties (fairness is out of the prover's reach);
`ImplementsText` of `Scanner` (`ProgramText` filters the words of a line with `SelectSeq` and
finds a line by recursion over the text: an induction over data).

## Plan

1. `Runtime`, `RuntimeProperties`, `GlobalSemaphores`, `RuntimeProofs`, `RaceProofs`,
   `SemaphoresProofs`: done.
2. `TimeSlices`, `TimeSlicesProofs`: done.
3. `Globals`, `GlobalStore`, `GlobalsProofs`: done.
4. `LocalVars`, `LocalVarsProofs`: done.
5. `Scanner`, `ProgramText`, `ScannerProofs`: done.
6. `Machine`, `SamplePrograms`, `Samples`, `SamplesProofs`: done.
7. The line buffer of the shell and its words, should they ever hold more than they do now.

## What is not modelled and why

The text of a command: `read_line` and the splitting into words (`main.c:24-87`, 176-256) are sequential string
handling without state that survives a command. `Runtime` starts from commands as a whole; that the end of the input gives
a `NULL` line, and that numbers are cut to an `int`, is not in the models.

Characters: words, strings and numbers are single items in `Scanner`; how a word of an array is split into names and
indices (`parse_varval_token`) is abstracted to whether it can be parsed (`Fits`, `HalfArrays`), and the longest word is
not a case of its own. `LocalVars` starts from the parsed operands.

Printing and wording (`error.c`, `PRINT`), `help` and `clear`: no state. `print_lock` is
only held while printing and nothing is asked for under it. Failing system
calls (`ENO`, `PTH`, `VDS`) end the process in `fatal_handler`; modelled are those that depend on the program: `nanosleep`
in `TimeSlices`, a key inserted twice or a refused size in `Globals` and `LocalVars`. libvoids is not in the tree: its
lists, tables and random numbers are modelled from how the code uses them. `SumN.txt` and `Test.txt` show single instructions of one
program.
