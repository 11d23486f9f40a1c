----------------------------- MODULE FillSyncMC -----------------------------
(* Instances of FillSync for TLC. *)
EXTENDS FillSync, TLC

CONSTANTS t1, t2, t3, t4, t5, o1, o2, o3, o4

\* o1 buys: t1 at once and later, as a maker, the equal lot t2; o2 sells t3 at once, o3
\* sells t4 as a maker; o4 buys t5 in the next window.
MCTrade      == {t1, t2, t3, t4, t5}
MCOrder      == {o1, o2, o3, o4}
MCOrderOf    == (t1 :> o1) @@ (t2 :> o1) @@ (t3 :> o2) @@ (t4 :> o3) @@ (t5 :> o4)
MCQty        == (t1 :> 1) @@ (t2 :> 1) @@ (t3 :> 1) @@ (t4 :> 1) @@ (t5 :> 2)
MCSide       == (o1 :> "BUY") @@ (o2 :> "SELL") @@ (o3 :> "SELL") @@ (o4 :> "BUY")
MCWindow     == (o1 :> 1) @@ (o2 :> 1) @@ (o3 :> 1) @@ (o4 :> 2)
MCTakerTrade == (o1 :> t1) @@ (o2 :> t3) @@ (o3 :> NoTrade) @@ (o4 :> t5)

Surroundings == [faults |-> {}, orders |-> {}, resting |-> {}, log |-> <<>>,
                 deliveries |-> 2, fills_cap |-> 5]

\* Two windows in which the user only buys; the panel keeps one row.
Buys == [Surroundings EXCEPT !.orders = {o1, o4}, !.fills_cap = 1]

\* One window and a restart while o1 rests, partly filled; two SELLs, or one and each
\* report twice.
RoundTrip == [Surroundings EXCEPT !.orders = {o1, o2, o3}, !.resting = {o1}, !.log = <<t1>>]
Sales == {[RoundTrip EXCEPT !.deliveries = 1]} \cup {[RoundTrip EXCEPT !.orders = {o1, o}] : o \in {o2, o3}}

\* With one fault, each report delivered once.
Faulty(s, f) == [s EXCEPT !.faults = {f}, !.deliveries = 1, !.fills_cap = 5]

\* POSTs during the REST load of the first window, and of the second.
DuringLoad == {Faulty([Buys EXCEPT !.orders = {o}], "rest_covers_acked") : o \in {o1, o4}}

MCScenarios == {Buys, Faulty(RoundTrip, "sell_unseen")} \cup Sales \cup DuringLoad
               \cup {Faulty(Buys, f) : f \in {"ttl", "rest_outlives_window", "balance_fallback"}}
=============================================================================
