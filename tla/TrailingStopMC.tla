--------------------------- MODULE TrailingStopMC ---------------------------
(* Instances of TrailingStop for TLC: percent and absolute trails, long and short,
   armed at once or at a price. *)
EXTENDS TrailingStop, TLC

CONSTANTS h1, h2, h3

Threads  == {h1, h2, h3}
Symmetry == Permutations(Thread)

New(long, immediate, percent, trail) ==
  [long |-> long, entry |-> 50, immediate |-> immediate, level |-> IF long THEN 51 ELSE 49,
   percent |-> percent, trail |-> trail]

\* A percent trail of 3% is two ticks at 50 and 51, an absolute one is one tick, and a
\* trail of nothing stands on the best print itself.
Some == {New(l, i, TRUE, 300) : l \in BOOLEAN, i \in BOOLEAN}
        \cup {New(l, i, FALSE, w) : l \in BOOLEAN, i \in BOOLEAN, w \in {0, 1}}
Prints == 48..52
=============================================================================
