--------------------------- MODULE MCLifecycleGrid ---------------------------
(***************************************************************************)
(* Finite instances of LifecycleGrid: three experts, two of them of the    *)
(* same size so that the key decides, two profiles that rank bandwidth and *)
(* setup differently, and two plans.                                       *)
(***************************************************************************)
EXTENDS LifecycleGrid

MCExperts == 1 .. 3

\* Rank 2 takes the place of both others.
MCSize == <<1, 2, 1>>

\* The smallest capacity does not hold every event the cache replays.
MCConfig ==
  [version    |-> 2,
   capacities |-> {2, 3, 4},
   policies   |-> {"lru", "lfu"},
   profiles   |-> {[name |-> "fast", bandwidth |-> 3, setup |-> 5],
                   [name |-> "slow", bandwidth |-> 1, setup |-> 0]},
   plans      |-> {DefaultPlan, [name |-> "two", operations |-> 2]}]

=============================================================================
