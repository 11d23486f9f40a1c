----------------------------- MODULE TakeProfitMC -----------------------------
(* The instance of TakeProfit for TLC. *)
EXTENDS TakeProfit, TLC

CONSTANTS a, b
Tasks == {a, b}
SymmetryOfTasks == Permutations(Tasks)

\* What goes wrong together: any two things but the user's own SELLs, which go with
\* overlapping fills and a slow channel, and the groups whose members feed each other.
Mixes ==
  {S \in SUBSET (Faults \ {"manual_sell"}) : Cardinality(S) <= 2}
    \cup {{"manual_sell"} \cup S : S \in SUBSET {"overlap", "slow_channel"}}
    \cup { {"overlap", "slow_channel", "crossing"},
           {"overlap", "slow_channel", "stop_loss"},
           {"overlap", "cancel_fails", "post_fails"},
           {"overlap", "fast_channel", "crossing"},
           {"crossing", "slow_channel", "lost_response"} }
===============================================================================
