----------------------------- MODULE Benchmark -----------------------------
(***************************************************************************)
(* What slg_master promises whoever reads its table: a benchmark is a      *)
(* sequence of loads, in waves of an optional warm-up and Iterations       *)
(* measured ones, and a load is put on the server by all slaves.  The next *)
(* load starts only when every slave has ended the one before, and only    *)
(* loads that all slaves have ended are counted, under their own wave.     *)
(*                                                                         *)
(* A benchmark may stop at any time: nothing here has to happen.           *)
(* Campaign.tla implements it with orders and reports over connections.    *)
(***************************************************************************)
EXTENDS Integers

CONSTANTS Slaves,
          NbWaves, Iterations,    \* at least 1
          Warmup     \* does a wave start with a load that is not measured?

VARIABLES
  done,      \* the loads that are over
  loading,   \* the slaves that put the present load on the server
  ended,     \* the slaves that have ended it
  counted    \* the measured loads of each wave

vars == <<done, loading, ended, counted>>

LoadsPerWave == Iterations + (IF Warmup THEN 1 ELSE 0)

Wave == done \div LoadsPerWave
IsWarmup == Warmup /\ done % LoadsPerWave = 0

Init == /\ done = 0
        /\ loading = {}
        /\ ended = {}
        /\ counted = [w \in 0 .. NbWaves - 1 |-> 0]

Begin(s) == /\ Wave < NbWaves
            /\ s \notin loading \cup ended
            /\ loading' = loading \cup {s}
            /\ UNCHANGED <<done, ended, counted>>

End(s) == /\ s \in loading
          /\ loading' = loading \ {s}
          /\ ended' = ended \cup {s}
          /\ UNCHANGED <<done, counted>>

\* A slave is lost: this load will never be complete.
Lose(s) == /\ loading' = loading \ {s}
           /\ ended' = ended \ {s}
           /\ UNCHANGED <<done, counted>>

Complete == /\ ended = Slaves
            /\ done' = done + 1
            /\ ended' = {}
            /\ counted' = IF IsWarmup THEN counted
                          ELSE [counted EXCEPT ![Wave] = @ + 1]
            /\ UNCHANGED loading

Next == Complete \/ \E s \in Slaves : Begin(s) \/ End(s) \/ Lose(s)

Spec == Init /\ [][Next]_vars
=============================================================================
