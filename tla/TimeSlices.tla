----------------------------- MODULE TimeSlices -----------------------------
(***************************************************************************)
(* The arithmetic of SLEEP in the turns of one program in runtime_thread:  *)
(* the random time slice, and the SLEEPING case, which takes a SLEEP in    *)
(* portions of one slice.  How many lines a slice lasts for is left open.  *)
(* Times are in nanoseconds; NsecPerSec and SliceMax are 1000000000 and    *)
(* TIME_SLICE_MAX_NSEC in the code.                                        *)
(***************************************************************************)
EXTENDS Integers

CONSTANTS
  NsecPerSec, SliceMax,
  LongMin,      \* LONG_MIN
  Longs,        \* what RandomState_genLong returns
  Durations     \* bound: the arguments of SLEEP, in seconds

ASSUME TimeAssumption ==
  /\ NsecPerSec \in Nat \ {0}
  /\ SliceMax \in 1 .. NsecPerSec
  /\ LongMin \in Int /\ LongMin < 0
  /\ Longs \subseteq LongMin .. -(LongMin + 1)
  /\ Durations \subseteq Int

VARIABLES
  state, tv_sec, tv_nsec,   \* prog->state and prog->sleep_left
  at,                       \* "turn": a turn begins, "line": do-while
  exited,                   \* fatal_handler has ended the process
  asked, slept              \* history: the duration of the last SLEEP and
                            \* the time slept of it

sleepVars == <<tv_sec, tv_nsec, asked, slept>>
vars == <<state, sleepVars, at, exited>>

\* 0 - x of a long; for LONG_MIN the result the machine gives is LONG_MIN
Negate(x) == IF x = LongMin THEN x ELSE -x

\* the % of C
CMod(a, b) == IF a >= 0 THEN a % b ELSE -((-a) % b)

\* mutant: the random number may stay negative
TimeSliceSigned(x) == CMod(x, SliceMax)

TimeSlice(x) == CMod(IF x < 0 THEN Negate(x) ELSE x, SliceMax)

Init ==
  /\ state = "INSTRUCTION_LINE" /\ tv_sec = 0 /\ tv_nsec = 0
  /\ at = "turn" /\ exited = FALSE
  /\ asked = 0 /\ slept = 0

StartTurn ==
  /\ at = "turn" /\ state = "INSTRUCTION_LINE"
  /\ at' = "line"
  /\ UNCHANGED <<state, sleepVars, exited>>

\* sleep_handler: SLEEP with d seconds
SleepInstruction(d) ==
  IF d > 0
  THEN /\ state' = "SLEEPING"
       /\ tv_sec' = d /\ tv_nsec' = 0
       /\ asked' = d * NsecPerSec /\ slept' = 0
  ELSE UNCHANGED <<state, sleepVars>>

\* one round of the do-while; whether the slice is used up then depends on
\* the CPU time of the line
Line ==
  /\ at = "line"
  /\ UNCHANGED <<state, sleepVars>> \/ \E d \in Durations : SleepInstruction(d)
  /\ at' = "turn" \/ (at' = "line" /\ state' = "INSTRUCTION_LINE")
  /\ UNCHANGED exited

\* nanosleep for the given time, and ENO around it
Nanosleep(sec, nsec) ==
  IF nsec \in 0 .. NsecPerSec - 1
  THEN slept' = slept + sec * NsecPerSec + nsec /\ UNCHANGED exited
  ELSE exited' = TRUE /\ UNCHANGED slept

\* mutant: the nanoseconds are not filled up
BorrowNothing(diff, slice) ==
  /\ tv_sec' = tv_sec - 1
  /\ tv_nsec' = diff
  /\ Nanosleep(0, slice)
  /\ UNCHANGED state

\* mutant: the second taken for the nanoseconds is not given back
BorrowForFree(diff, slice) ==
  /\ tv_nsec' = diff + NsecPerSec /\ UNCHANGED tv_sec
  /\ Nanosleep(0, slice)
  /\ UNCHANGED state

Borrow(diff, slice) ==
  /\ tv_sec' = tv_sec - 1
  /\ tv_nsec' = diff + NsecPerSec
  /\ Nanosleep(0, slice)
  /\ UNCHANGED state

\* mutant: sleeping goes on with nothing left
FinishSleepAsleep == Nanosleep(tv_sec, tv_nsec) /\ UNCHANGED <<state, tv_sec, tv_nsec>>

\* the rest is slept in one piece; sleep_left keeps its value
FinishSleep ==
  /\ Nanosleep(tv_sec, tv_nsec)
  /\ state' = IF exited' THEN state ELSE "INSTRUCTION_LINE"
  /\ UNCHANGED <<tv_sec, tv_nsec>>

\* case SLEEPING
SleepTurn(x) ==
  LET slice == TimeSlice(x)
      diff == tv_nsec - slice
  IN
  /\ at = "turn" /\ state = "SLEEPING"
  /\ \/ diff < 0 /\ tv_sec = 0 /\ FinishSleep
     \/ diff < 0 /\ tv_sec # 0 /\ Borrow(diff, slice)
     \/ /\ diff >= 0
        /\ tv_nsec' = diff
        /\ Nanosleep(0, slice)
        /\ UNCHANGED <<state, tv_sec>>
  /\ UNCHANGED <<at, asked>>

Next ==
  /\ ~exited
  /\ \/ StartTurn \/ Line
     \/ \E x \in Longs : SleepTurn(x)

Spec == Init /\ [][Next]_vars

(***************************************************************************)
(* Fairness: the program gets its turns, and the random time slices of its *)
(* turns do not stay zero for ever.                                        *)
(***************************************************************************)
PositiveTurn == ~exited /\ \E x \in Longs : TimeSlice(x) > 0 /\ SleepTurn(x)
FairSpec == Spec /\ WF_vars(Next) /\ SF_vars(PositiveTurn)

-----------------------------------------------------------------------------
TypeOK ==
  /\ state \in {"INSTRUCTION_LINE", "SLEEPING"}
  /\ tv_sec \in Nat /\ tv_nsec \in 0 .. NsecPerSec - 1
  /\ at \in {"turn", "line"}
  /\ exited \in BOOLEAN
  /\ asked \in Nat /\ slept \in Nat

\* A SLEEP takes exactly its time: what was slept and what is left make up
\* the duration all along, however the slices cut it, also where a slice
\* crosses a second, and a program that is awake has slept it all.
SleepsExactly ==
  IF state = "SLEEPING" THEN slept + tv_sec * NsecPerSec + tv_nsec = asked
                        ELSE slept = asked

\* nanosleep is never called with a time it refuses, which would end the
\* whole interpreter through ENO.
NanosleepAccepts == ~exited

\* Every SLEEP ends.
SleepEnds == state = "SLEEPING" ~> (state = "INSTRUCTION_LINE" \/ exited)

=============================================================================
