----------------------------- MODULE AtomicTick ------------------------------
(***************************************************************************)
(* What Simulation.step() does, seen from outside: every part of the world *)
(* advances by exactly one tick together with the clock, or nothing does.  *)
(***************************************************************************)
EXTENDS Naturals

CONSTANT Partitions   \* the parts of the world

VARIABLES
  clock,   \* clock.tick
  world    \* how many ticks each part of the world has advanced

Init == clock = 0 /\ world = [p \in Partitions |-> 0]

Step ==
  /\ clock' = clock + 1
  /\ world' = [p \in Partitions |-> clock + 1]

Spec == Init /\ [][Step]_<<clock, world>>

=============================================================================
