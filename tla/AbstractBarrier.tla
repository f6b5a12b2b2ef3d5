--------------------------- MODULE AbstractBarrier ---------------------------
(***************************************************************************)
(* What barrier() and s_barrier() of memtest86/smp.c promise to their      *)
(* callers: a CPU that has arrived stays until every CPU has arrived, all  *)
(* are released by one event, and no CPU arrives for the next round before *)
(* every CPU has got away from this one.                                   *)
(***************************************************************************)

CONSTANT CPU            \* the CPUs that take part in the barrier

VARIABLE at             \* at[c]: how far CPU c is with its call

Init == at = [c \in CPU |-> "running"]

\* CPU c arrives; nobody may still be on the way out of the previous round.
Arrive(c) ==
  /\ at[c] = "running"
  /\ \A d \in CPU : at[d] # "released"
  /\ at' = [at EXCEPT ![c] = "waiting"]

\* The last arrival frees everybody at once.
Release ==
  /\ \A c \in CPU : at[c] = "waiting"
  /\ at' = [c \in CPU |-> "released"]

\* CPU c returns from its call.
Resume(c) ==
  /\ at[c] = "released"
  /\ at' = [at EXCEPT ![c] = "running"]

Next == Release \/ \E c \in CPU : Arrive(c) \/ Resume(c)

Spec == Init /\ [][Next]_at

=============================================================================
