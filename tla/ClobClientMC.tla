----------------------------- MODULE ClobClientMC -----------------------------
(* The instance of ClobClient for TLC: three callers, of which one derives the
   credentials, loads or lists, and the others do one of everything. *)
EXTENDS ClobClient

CONSTANTS c1, c2, c3
MCCallers == {c1, c2, c3}

Resting2 == <<<<"old", 1>>, <<"old", 2>>>>

Ask(kind) == [kind |-> kind, negRisk |-> FALSE, expiration |-> 0, amounts |-> <<2, 1>>, fast |-> TRUE,
              order |-> None, waits |-> FALSE]
Limit(kind) == [Ask(kind) EXCEPT !.expiration = 9]

Buy == [Ask("buy") EXCEPT !.waits = TRUE]
Sell == [Ask("sell") EXCEPT !.negRisk = TRUE]
LimitBuy == [Limit("limit_buy") EXCEPT !.waits = TRUE]
LimitSell == Limit("limit_sell")
TakeProfit == [LimitSell EXCEPT !.fast = FALSE]
CancelOld == [Ask("cancel") EXCEPT !.order = <<"old", 1>>]

Of(a, b, c) == [u \in MCCallers |-> CASE u = c1 -> a [] u = c2 -> b [] u = c3 -> c]
Scripted(calls, wallet, open) == [calls |-> calls, sigType |-> wallet, resting |-> open]

\* Orders next to each other, and to a task that warms the balance.
Buying == {Scripted(Of(Ask("cancel"), Buy, c), "Poly1271", <<>>) : c \in {LimitBuy, TakeProfit}}
Selling == {Scripted(Of(Ask("startup"), Sell, LimitSell), "Poly1271", <<>>)}
\* Lists read while orders join and leave them.
Reading ==
  {Scripted(Of(Ask("orders"), CancelOld, c), "PolyGnosisSafe", Resting2) : c \in {Ask("cancel_all"), Buy}}
  \cup {Scripted(Of(Ask(a), Ask("cancel"), LimitBuy), "PolyGnosisSafe", Resting2) : a \in {"orders", "trades"}}
\* Requests that are wrong, and the diagnostic.
Odd == {Scripted(Of(Ask(a), b, Ask("load")), "Eoa", <<>>) :
          a \in {"debug", "warm", "cancel"},
          b \in {Ask("limit_buy"), Limit("sell"), [Buy EXCEPT !.amounts = <<1, 0>>], Sell}}

MCScripts == Buying \cup Selling \cup Reading \cup Odd
===============================================================================
