---------------------------- MODULE JobHandling ----------------------------
(***************************************************************************)
(* What the queue and the workers promise about a job, whatever the        *)
(* process that runs it: it is taken at most once, a taken job is answered *)
(* at most once, no process holds more than it can run, and a job nobody   *)
(* answers was either dropped before it was taken or in the hands of a     *)
(* process that failed.  WorkerPool implements this for one worker, and    *)
(* Pipeline for the whole system.                                          *)
(***************************************************************************)
EXTENDS Integers, FiniteSets

CONSTANTS Jobs, Capacity

VARIABLE state

In(s) == {j \in Jobs : state[j] = s}

Init == state = [j \in Jobs |-> "waiting"]

Move(S, to) == state' = [j \in Jobs |-> IF j \in S THEN to ELSE state[j]]

Take(S)   == Cardinality(In("held") \cup S) =< Capacity /\ Move(S, "held")
Answer(j) == Move({j}, "answered")

Next ==
  \/ \E S \in (SUBSET In("waiting")) \ {{}} : Take(S) \/ Move(S, "lost")
  \/ \E j \in In("held") : Answer(j)
  \/ \E S \in (SUBSET In("held")) \ {{}} : Move(S, "lost")

Spec == Init /\ [][Next]_state
=============================================================================
