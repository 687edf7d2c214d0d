-------------------------- MODULE TimeSlicesProofs --------------------------
(***************************************************************************)
(* For every second, slice bound and width of a long: a SLEEP takes        *)
(* exactly its time, and no time slice makes nanosleep fail, as long as    *)
(* the random generator does not return LONG_MIN.                          *)
(***************************************************************************)
EXTENDS TimeSlices, TLAPS

TimeInv == TypeOK /\ SleepsExactly /\ NanosleepAccepts

\* A time slice is a remainder: non-negative and below the bound, unless the
\* random number has no negation.
LEMMA TimeSliceRange ==
  ASSUME LongMin \notin Longs, NEW x \in Longs
  PROVE  TimeSlice(x) \in 0 .. SliceMax - 1
<1> DEFINE y == IF x < 0 THEN Negate(x) ELSE x
<1>1. x \in Int /\ SliceMax \in Nat \ {0}
  BY TimeAssumption
<1>2. y \in Nat
  BY <1>1 DEF Negate
<1>3. y % SliceMax \in 0 .. SliceMax - 1
  BY <1>1, <1>2
<1> QED
  BY <1>2, <1>3 DEF TimeSlice, CMod

\* A duration given in seconds is as long as the same duration with one
\* second less and its nanoseconds more.
LEMMA OneSecondLess ==
  ASSUME NEW s \in Nat, NEW b \in Nat
  PROVE  /\ (s - 1) * b = s * b - b
         /\ s * b \in Nat
OBVIOUS

LEMMA SleepTurnKeepsInv ==
  ASSUME LongMin \notin Longs, TimeInv, NEW x \in Longs, SleepTurn(x)
  PROVE  TimeInv'
<1> DEFINE slice == TimeSlice(x)
           diff == tv_nsec - slice
<1>1. slice \in 0 .. SliceMax - 1
  BY TimeSliceRange
<1>2. NsecPerSec \in Nat \ {0} /\ SliceMax \in 1 .. NsecPerSec
  BY TimeAssumption
<1>3. /\ state = "SLEEPING" /\ ~exited
      /\ slept + tv_sec * NsecPerSec + tv_nsec = asked
      /\ tv_sec \in Nat /\ tv_nsec \in 0 .. NsecPerSec - 1
      /\ slept \in Nat /\ asked \in Nat
  BY DEF TimeInv, TypeOK, SleepsExactly, NanosleepAccepts, SleepTurn
<1>4. diff \in Int /\ slice \in 0 .. NsecPerSec - 1 /\ slice \in Int
  BY <1>1, <1>2, <1>3
<1>5. UNCHANGED <<at, asked>>
  BY DEF SleepTurn
<1>6. 0 * NsecPerSec = 0
  BY <1>2
<1>7. CASE diff < 0 /\ tv_sec = 0 /\ FinishSleep
  <2>1. slept' = slept + tv_sec * NsecPerSec + tv_nsec /\ UNCHANGED exited
    BY <1>3, <1>7 DEF FinishSleep, Nanosleep
  <2>2. /\ state' = "INSTRUCTION_LINE" /\ UNCHANGED <<tv_sec, tv_nsec>>
        /\ slept' = asked'
    BY <1>3, <1>5, <1>7, <2>1 DEF FinishSleep
  <2> QED
    BY <1>1, <1>3, <1>5, <2>1, <2>2 DEF TimeInv, TypeOK, SleepsExactly, NanosleepAccepts
<1>8. CASE diff < 0 /\ tv_sec # 0 /\ Borrow(diff, slice)
  <2>1. slept' = slept + slice /\ UNCHANGED exited
    BY <1>3, <1>4, <1>6, <1>8 DEF Borrow, Nanosleep
  <2>2. /\ tv_sec' = tv_sec - 1 /\ tv_nsec' = diff + NsecPerSec /\ UNCHANGED state
    BY <1>8 DEF Borrow
  <2>3. tv_sec' \in Nat /\ tv_nsec' \in 0 .. NsecPerSec - 1 /\ slept' \in Nat
    BY <1>2, <1>3, <1>4, <1>8, <2>1, <2>2
  <2>4. tv_sec' * NsecPerSec = tv_sec * NsecPerSec - NsecPerSec /\ tv_sec * NsecPerSec \in Nat
    BY <1>2, <1>3, <2>2, OneSecondLess
  <2>5. PICK left \in Nat : left = tv_sec * NsecPerSec
    BY <2>4
  <2>6. slept + left + tv_nsec = asked /\ tv_sec' * NsecPerSec = left - NsecPerSec
    BY <1>3, <2>4, <2>5
  <2>7. slept \in Int /\ tv_nsec \in Int /\ NsecPerSec \in Int /\ slice \in Int
    BY <1>2, <1>3, <1>4
  <2>8. (slept + slice) + (left - NsecPerSec) + ((tv_nsec - slice) + NsecPerSec) = asked
    BY <2>6, <2>7
  <2>9. slept' + tv_sec' * NsecPerSec + tv_nsec' = asked'
    BY <1>5, <2>1, <2>2, <2>6, <2>8
  <2> QED
    BY <1>1, <1>3, <1>5, <2>1, <2>2, <2>3, <2>9
    DEF TimeInv, TypeOK, SleepsExactly, NanosleepAccepts
<1>9. CASE /\ diff >= 0 /\ tv_nsec' = diff
           /\ Nanosleep(0, slice) /\ UNCHANGED <<state, tv_sec>>
  <2>1. slept' = slept + slice /\ UNCHANGED exited
    BY <1>3, <1>4, <1>6, <1>9 DEF Nanosleep
  <2>2. tv_nsec' \in 0 .. NsecPerSec - 1 /\ slept' \in Nat
    BY <1>1, <1>2, <1>3, <1>4, <1>9, <2>1
  <2>3. tv_sec * NsecPerSec \in Nat
    BY <1>2, <1>3, OneSecondLess
  <2>4. slept' + tv_sec' * NsecPerSec + tv_nsec' = asked'
    BY <1>3, <1>4, <1>5, <1>9, <2>1, <2>3
  <2> QED
    BY <1>1, <1>3, <1>5, <1>9, <2>1, <2>2, <2>4
    DEF TimeInv, TypeOK, SleepsExactly, NanosleepAccepts
<1> QED
  BY <1>7, <1>8, <1>9 DEF SleepTurn

LEMMA LineKeepsInv ==
  ASSUME TimeInv, Line
  PROVE  TimeInv'
<1>1. NsecPerSec \in Nat \ {0} /\ ~exited
  BY TimeAssumption DEF TimeInv, NanosleepAccepts
<1>2. at' \in {"turn", "line"} /\ UNCHANGED exited
  BY DEF Line
<1>3. ASSUME NEW d \in Durations, SleepInstruction(d), d > 0
      PROVE  /\ state' = "SLEEPING" /\ tv_sec' = d /\ tv_nsec' = 0
             /\ asked' = d * NsecPerSec /\ slept' = 0
             /\ d \in Nat /\ d * NsecPerSec \in Nat
  <2>1. d \in Nat
    BY <1>3, TimeAssumption
  <2> QED
    BY <1>1, <1>3, <2>1, OneSecondLess DEF SleepInstruction
<1>4. CASE UNCHANGED <<state, sleepVars>>
  <2>1. UNCHANGED <<state, tv_sec, tv_nsec, asked, slept>>
    BY <1>4 DEF sleepVars
  <2>2. SleepsExactly'
    BY <2>1 DEF TimeInv, SleepsExactly
  <2>3. TypeOK'
    BY <1>2, <2>1 DEF TimeInv, TypeOK
  <2> QED
    BY <1>1, <1>2, <2>2, <2>3 DEF TimeInv, NanosleepAccepts
<1>5. ASSUME NEW d \in Durations, SleepInstruction(d), d > 0
      PROVE  TimeInv'
  <2>1. 0 + d * NsecPerSec + 0 = d * NsecPerSec /\ 0 \in 0 .. NsecPerSec - 1
    BY <1>1, <1>3, <1>5
  <2>2. SleepsExactly'
    BY <1>3, <1>5, <2>1 DEF SleepsExactly
  <2>3. TypeOK'
    BY <1>1, <1>2, <1>3, <1>5, <2>1 DEF TimeInv, TypeOK
  <2> QED
    BY <1>1, <1>2, <2>2, <2>3 DEF TimeInv, NanosleepAccepts
<1>6. ASSUME NEW d \in Durations, SleepInstruction(d), ~(d > 0)
      PROVE  UNCHANGED <<state, sleepVars>>
  BY <1>6 DEF SleepInstruction
<1>7. UNCHANGED <<state, sleepVars>> \/ \E d \in Durations : SleepInstruction(d)
  BY DEF Line
<1>8. CASE \E d \in Durations : SleepInstruction(d)
  <2>1. PICK d \in Durations : SleepInstruction(d)
    BY <1>8
  <2>2. CASE d > 0
    BY <1>5, <2>1, <2>2
  <2>3. CASE ~(d > 0)
    BY <1>4, <1>6, <2>1, <2>3
  <2> QED
    BY <2>2, <2>3
<1> QED
  BY <1>4, <1>7, <1>8

LEMMA InitTimeInv == Init => TimeInv
<1> SUFFICES ASSUME Init PROVE TimeInv
  OBVIOUS
<1>1. NsecPerSec \in Nat \ {0}
  BY TimeAssumption
<1>2. 0 \in 0 .. NsecPerSec - 1
  BY <1>1
<1>3. exited \in BOOLEAN
  BY DEF Init
<1>4. TypeOK
  BY <1>2, <1>3 DEF Init, TypeOK
<1> QED
  BY <1>4 DEF Init, TimeInv, SleepsExactly, NanosleepAccepts

LEMMA StartTurnKeepsInv ==
  ASSUME TimeInv, StartTurn
  PROVE  TimeInv'
BY DEF StartTurn, TimeInv, TypeOK, SleepsExactly, NanosleepAccepts, sleepVars

\* The inductive invariant: types, the account of the sleep, and no exit.
THEOREM TimeInvariant == LongMin \notin Longs => (Spec => []TimeInv)
<1> SUFFICES ASSUME LongMin \notin Longs PROVE Spec => []TimeInv
  OBVIOUS
<1>1. TimeInv /\ [Next]_vars => TimeInv'
  <2> SUFFICES ASSUME TimeInv, [Next]_vars PROVE TimeInv'
    OBVIOUS
  <2>1. CASE UNCHANGED vars
    BY <2>1 DEF vars, sleepVars, TimeInv, TypeOK, SleepsExactly, NanosleepAccepts
  <2>2. CASE Next
    BY <2>2, SleepTurnKeepsInv, StartTurnKeepsInv, LineKeepsInv DEF Next
  <2> QED
    BY <2>1, <2>2
<1> QED
  BY InitTimeInv, <1>1, PTL DEF Spec

\* Every variable keeps its type: in particular what is left of a sleep never
\* has a negative second, nor a second or more of nanoseconds.
THEOREM TimesAreTyped == LongMin \notin Longs => (Spec => []TypeOK)
<1>1. TimeInv => TypeOK
  BY DEF TimeInv
<1> QED
  BY <1>1, TimeInvariant, PTL

\* What was slept and what is left of a SLEEP always make up its duration,
\* and a program that is awake has slept all of it (runtime.c:90-117).
THEOREM SleepIsExact == LongMin \notin Longs => (Spec => []SleepsExactly)
<1>1. TimeInv => SleepsExactly
  BY DEF TimeInv
<1> QED
  BY <1>1, TimeInvariant, PTL

\* nanosleep is never refused, so that no SLEEP ends the interpreter
\* (runtime.c:97, 107, 115 and error.c:49).
THEOREM NoSleepExits == LongMin \notin Longs => (Spec => []NanosleepAccepts)
<1>1. TimeInv => NanosleepAccepts
  BY DEF TimeInv
<1> QED
  BY <1>1, TimeInvariant, PTL

=============================================================================
