--------------------------- MODULE AutoTradingMC ---------------------------
(* Instances of AutoTrading for TLC: two tokens in the first window, one in the
   next. *)
EXTENDS AutoTrading, TLC

CONSTANTS up1, down1, up2

Tokens  == {up1, down1, up2}
Windows == (up1 :> 1) @@ (down1 :> 1) @@ (up2 :> 2)

\* Two windows without faults.
Clean == [faults |-> {}, tokens |-> Tokens, sells |-> 2]

\* One window with one fault.
Faulty(f, tokens) == [faults |-> {f}, tokens |-> tokens, sells |-> 1]

\* A user channel that may be ahead of the order task.
SellsOverlap == {Faulty("sell_ws_first", {up1, down1})}

ReportFaults == {"sell_early", "close_first", "ws_outage"}
OrderFaults  == {"partial", "manual_maker"}
\* They void the properties of the ledger, not its types.
OtherFaults  == {"lost_response", "straddle"}

MCScenarios ==
  {Clean} \cup SellsOverlap
  \cup {Faulty(f, {up1, down1}) : f \in ReportFaults} \cup {Faulty(f, {up1}) : f \in OrderFaults}
  \cup {[Faulty(f, {up1}) EXCEPT !.sells = 0] : f \in OtherFaults}
=============================================================================
