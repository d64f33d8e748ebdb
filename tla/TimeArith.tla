------------------------------ MODULE TimeArith ------------------------------
(***************************************************************************)
(* compare_time of debug_tools.c: the time between two gettimeofday, in    *)
(* microseconds.  The parts of both are subtracted as unsigned longs, so a *)
(* microsecond part that is smaller at the end than at the start makes the *)
(* subtraction wrap around, and the sum has to bring it back.              *)
(***************************************************************************)
EXTENDS Integers

CONSTANTS Word,     \* values of an unsigned long
          Second    \* microseconds in a second

ASSUME TimeArithAssumption == Word \in Nat \ {0} /\ Second \in Nat \ {0}

\* gettimeofday, when the clock shows t microseconds.
Timeval(t) == [sec |-> t \div Second, usec |-> t % Second]

\* The moment a timeval stands for.
Moment(tv) == tv.sec * Second + tv.usec

\* Mutant: the microseconds that wrapped around are taken as they are.
CompareTime_Unwrapped(start, stop) ==
  Second * ((stop.sec - start.sec) % Word) + ((stop.usec - start.usec) % Word)

\* compare_time: every result is an unsigned long.
CompareTime(start, stop) ==
  LET sec_res == (stop.sec - start.sec) % Word
      usec_res == (stop.usec - start.usec) % Word
  IN  (((Second * sec_res) % Word) + usec_res) % Word

=============================================================================
