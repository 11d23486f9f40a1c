------------------------------ MODULE AutoTrading ------------------------------
(* The auto-trading ledger: which outcome tokens are reserved or held, and when
   the bot may start another BUY.

   Actors: the event loop (every handler ends by publishing the signal snapshot
   and perhaps starting a buy runner), the runners that place one GTD limit BUY
   each with retries, the exchange, and the user WebSocket, whose reports arrive
   in order.  What a runner or an order task reports travels separately from
   the WebSocket, so the two may overtake each other.

   Abstractions: an order is for LotsPerOrder equal lots; prices, sizes, the
   buy-time window and the entry-price cap decide whether a strong signal is
   bought at all, which is left open.  That one SELL or one maker lot is reported
   once to the ledger by the user channel is what FillSync is about. *)
EXTENDS Integers, Sequences, FiniteSets

CONSTANTS
  Token,        \* outcome tokens
  NoToken,
  WindowOf,     \* token |-> the market window it belongs to
  MaxPositions, \* AUTOTRADING_MAX_POSITIONS
  LotsPerOrder, \* lots in one BUY
  Inner,        \* LIMIT_ORDER_MAX_ATTEMPTS
  Outer,        \* AUTOTRADING_LIMIT_BUY_OUTER_ATTEMPTS
  Scenarios,    \* what surrounds a run of the program, see ScenarioType
  MaxRunners,   \* bound: buy runners started in one run of the program
  MaxSells,     \* bound: SELLs executed in any scenario
  MaxReports,   \* bound: reports waiting in the user channel
  MaxWindow     \* bound: market windows

FaultNames ==
  { "partial",        \* an order may be filled in part
    "lost_response",  \* POST /order may fail after the exchange took the order
    "straddle",       \* a window may roll while reports of it are under way
    "sell_ws_first",  \* the user channel may report a SELL before its OrderAck
    "sell_early",     \* a SELL may run before the BUY it sells is in the ledger
    "close_first",    \* an order may close before the runner's report is handled
    "manual_maker",   \* resting BUYs the user placed by hand may fill
    "ws_outage" }     \* the user channel may lose reports

ScenarioType ==
  [ faults : SUBSET FaultNames,
    tokens : SUBSET Token,     \* the tokens the market may offer and signal
    sells  : 0..MaxSells ]     \* bound: SELLs executed

ASSUME AutoTradingAssumption ==
  /\ IsFiniteSet(Token) /\ NoToken \notin Token
  /\ WindowOf \in [Token -> Nat \ {0}]
  /\ MaxPositions \in Nat /\ LotsPerOrder \in Nat \ {0}
  /\ Inner \in Nat \ {0} /\ Outer \in Nat \ {0}
  /\ Scenarios \subseteq ScenarioType
  /\ MaxRunners \in Nat /\ MaxSells \in Nat /\ MaxReports \in Nat /\ MaxWindow \in Nat

VARIABLES
  scenario,   \* the surroundings of this run
  market,     \* AppState.market: its window, 0 for None
  window,     \* the last window discovered
  signal,     \* the strong signal of the last published AutoTradingSnapshot
  in_flight,  \* autotrading_in_flight
  open,       \* autotrading_open: token |-> lots
  resting,    \* autotrading_resting_buy_orders: order |-> token, NoToken when absent
  runner,     \* the buy runners
  done,       \* AutoTradingBuyDone events on their way
  live,       \* exchange: resting auto-trading orders |-> lots left, 0 when not resting
  held,       \* exchange: lots in the wallet
  sells,      \* SELLs executed so far
  acks,       \* OrderAcks of SELLs on their way
  acked,      \* SELLs whose OrderAck was applied: ack_wait of UserTradeSync
  wsq         \* user channel: reports not yet handled, oldest first

ledger   == <<in_flight, open, resting>>
exchange == <<live, held, sells>>
vars == <<scenario, market, window, signal, ledger, runner, done, exchange, acks, acked, wsq>>

Runner  == 1..MaxRunners
OrderId == Runner \X (1..Inner * Outer)     \* the runner and its POST
Lots    == 1..(LotsPerOrder * (MaxRunners * Inner * Outer + 1))
Sell    == 1..MaxSells

-------------------------------------------------------------------------------
(* The ledger of AppState. *)

Reserved(inf, opn) == inf \cup {t \in Token : opn[t] > 0}
ReservedCount(inf, opn) == Cardinality(Reserved(inf, opn))     \* autotrading_reserved_count

Cap == IF MaxPositions > 1 THEN MaxPositions ELSE 1

\* autotrading_can_buy
CanBuyHeld(t, inf, opn) ==                                      \* mutant of CanBuy
  t \notin inf /\ Cardinality(inf) < Cap
CanBuy(t, inf, opn) ==
  t \notin inf /\ opn[t] = 0 /\ ReservedCount(inf, opn) < Cap

\* autotrading_apply_fill
Bought(t, q) ==
  [ inf |-> in_flight \ {t},
    opn |-> [open EXCEPT ![t] = @ + q],
    rst |-> [o \in OrderId |-> IF resting[o] = t THEN NoToken ELSE resting[o]] ]
SoldWhole(t, q)     == [open EXCEPT ![t] = 0]                   \* mutant of Sold
Sold(t, q) == [open EXCEPT ![t] = IF @ > q THEN @ - q ELSE 0]

\* What AutoTradingBuyDone does: booked, released, or remembered as resting.
ReleasedWhenResting(m) ==                                       \* mutant of DoneEffect
  IF m.filled > 0 THEN Bought(m.token, m.filled)
  ELSE [inf |-> in_flight \ {m.token}, opn |-> open, rst |-> resting]
KeptOnError(m) ==                                               \* mutant of DoneEffect
  IF m.filled > 0 THEN Bought(m.token, m.filled)
  ELSE [inf |-> in_flight, opn |-> open, rst |-> resting]
DoneEffect(m) ==
  IF m.filled > 0 THEN Bought(m.token, m.filled)
  ELSE IF m.error THEN [inf |-> in_flight \ {m.token}, opn |-> open, rst |-> resting]
  ELSE [inf |-> in_flight, opn |-> open, rst |-> [resting EXCEPT ![m.order] = m.token]]

\* autotrading_clear_resting_buy_order
Closed(o) ==
  IF resting[o] = NoToken
  THEN [inf |-> in_flight, opn |-> open, rst |-> resting]
  ELSE [inf |-> in_flight \ {resting[o]}, opn |-> open, rst |-> [resting EXCEPT ![o] = NoToken]]

Unchanged == [inf |-> in_flight, opn |-> open, rst |-> resting]
Empty     == [inf |-> {}, opn |-> [t \in Token |-> 0], rst |-> [o \in OrderId |-> NoToken]]

-------------------------------------------------------------------------------
(* Every handler of the event loop leaves a ledger l and a market m behind, then
   publishes the snapshot and, on a strong signal that passes its other
   conditions, reserves the token and starts a runner. *)

Off == [pc |-> "off", token |-> NoToken, tries |-> 0]
Unused == {r \in Runner : runner[r] = Off}
FirstUnused == CHOOSE r \in Unused : \A x \in Unused : r <= x

Start(t, l, m) ==
  /\ CanBuy(t, l.inf, l.opn) /\ WindowOf[t] = m /\ Unused # {}
  /\ in_flight' = l.inf \cup {t}
  /\ runner' = [runner EXCEPT ![FirstUnused] = [pc |-> "check", token |-> t, tries |-> 0]]

Publish(l, m) ==
  /\ market' = m /\ open' = l.opn /\ resting' = l.rst
  /\ signal' \in {t \in Token : t \in scenario.tokens /\ WindowOf[t] = m} \cup {NoToken}
  /\ \/ in_flight' = l.inf /\ UNCHANGED runner
     \/ signal' # NoToken /\ Start(signal', l, m)

-------------------------------------------------------------------------------
Init ==
  /\ scenario \in Scenarios
  /\ market = 0 /\ window = 0 /\ signal = NoToken
  /\ in_flight = {} /\ open = [t \in Token |-> 0]
  /\ resting = [o \in OrderId |-> NoToken]
  /\ runner = [r \in Runner |-> Off] /\ done = {}
  /\ live = [o \in OrderId |-> 0] /\ held = [t \in Token |-> 0]
  /\ sells = 0 /\ acks = {} /\ acked = {} /\ wsq = <<>>

-------------------------------------------------------------------------------
(* A buy runner: run_autotrading_limit_buy_with_retries. *)

TokenOf(o) == runner[o[1]].token
Report(t, o, q, failed) ==
  done' = done \cup {[token |-> t, order |-> o, filled |-> q, error |-> failed]}
Stop(r) == runner' = [runner EXCEPT ![r].pc = "stopped"]

\* Before each outer attempt the snapshot must still show the signal.
Check(r) ==
  /\ runner[r].pc = "check"
  /\ IF signal = runner[r].token
     THEN runner' = [runner EXCEPT ![r].pc = "post"] /\ UNCHANGED done
     ELSE Stop(r) /\ Report(runner[r].token, <<r, 1>>, 0, TRUE)
  /\ UNCHANGED <<scenario, market, window, signal, ledger, exchange, acks, acked, wsq>>

\* One POST.  A rejected or failed one is repeated: Inner times, then, after a new
\* check, up to Outer times that.
Retry(r) ==
  LET n == runner[r].tries + 1 IN
  IF n = Inner * Outer
  THEN Stop(r) /\ Report(runner[r].token, <<r, 1>>, 0, TRUE)
  ELSE /\ runner' = [runner EXCEPT ![r].tries = n,
                                   ![r].pc = IF n % Inner = 0 THEN "check" ELSE "post"]
       /\ UNCHANGED done

Rejected(r) ==
  /\ runner[r].pc = "post"
  /\ Retry(r)
  /\ UNCHANGED <<scenario, market, window, signal, ledger, exchange, acks, acked, wsq>>

\* The exchange fills q lots at once; the rest, if any, stays in the book.
Accept(r, q) ==
  LET o == <<r, runner[r].tries + 1>> IN
  /\ runner[r].pc = "post"
  /\ q \in {0, LotsPerOrder} \/ "partial" \in scenario.faults
  /\ live' = [live EXCEPT ![o] = LotsPerOrder - q]
  /\ held' = [held EXCEPT ![runner[r].token] = @ + q]
  /\ UNCHANGED sells

Accepted(r) ==
  /\ \E q \in 0..LotsPerOrder :
       /\ Accept(r, q)
       /\ Report(runner[r].token, <<r, runner[r].tries + 1>>, q, FALSE)
  /\ Stop(r)
  /\ UNCHANGED <<scenario, market, window, signal, ledger, acks, acked, wsq>>

\* The response is lost on the network: to the runner the POST has failed.  (Bound:
\* of a runner's POSTs, only the first.)
Unheard(r) ==
  /\ "lost_response" \in scenario.faults /\ runner[r].tries = 0
  /\ \E q \in 0..LotsPerOrder : Accept(r, q)
  /\ Retry(r)
  /\ UNCHANGED <<scenario, market, window, signal, ledger, acks, acked, wsq>>

-------------------------------------------------------------------------------
(* The exchange and the user channel. *)

Tell(m) == Len(wsq) < MaxReports /\ wsq' = Append(wsq, m)
Waiting(o) == \E m \in done : m.order = o

\* A resting order is matched: a maker fill.
MakerFill(o) ==
  /\ \E q \in 1..live[o] :
       /\ q = live[o] \/ "partial" \in scenario.faults
       /\ live' = [live EXCEPT ![o] = @ - q]
       /\ held' = [held EXCEPT ![TokenOf(o)] = @ + q]
       /\ Tell([type |-> "BUY", token |-> TokenOf(o), lots |-> q, order |-> o, sell |-> 0])
  /\ UNCHANGED <<scenario, market, window, signal, ledger, runner, done, sells, acks, acked>>

\* A resting order is cancelled or expires (a GTD order lives at least a minute).
Close(o) ==
  /\ live[o] > 0
  /\ "close_first" \in scenario.faults \/ ~Waiting(o)
  /\ live' = [live EXCEPT ![o] = 0]
  /\ Tell([type |-> "CLOSED", token |-> TokenOf(o), lots |-> 0, order |-> o, sell |-> 0])
  /\ UNCHANGED <<scenario, market, window, signal, ledger, runner, done, held, sells, acks, acked>>

\* A resting BUY the user placed by hand fills.
ManualFill(t) ==
  /\ "manual_maker" \in scenario.faults
  /\ t \in scenario.tokens /\ WindowOf[t] = market /\ held[t] = 0
  /\ held' = [held EXCEPT ![t] = @ + LotsPerOrder]
  /\ Tell([type |-> "BUY", token |-> t, lots |-> LotsPerOrder, order |-> <<0, 0>>, sell |-> 0])
  /\ UNCHANGED <<scenario, market, window, signal, ledger, runner, done, live, sells, acks, acked>>

\* A BUY of t that the ledger has yet to hear of.
Unbooked(t) ==
  \/ \E m \in done : m.token = t /\ m.filled > 0
  \/ \E i \in 1..Len(wsq) : wsq[i].type = "BUY" /\ wsq[i].token = t

\* The user, a trailing exit or a stop loss sells; a taker SELL is also reported by
\* its POST response.
SellLots(t, q, taker) ==
  /\ sells < scenario.sells /\ q <= held[t]
  /\ "sell_early" \in scenario.faults \/ (q <= open[t] /\ ~Unbooked(t))
  /\ sells' = sells + 1
  /\ held' = [held EXCEPT ![t] = @ - q]
  /\ acks' = IF taker THEN acks \cup {[sell |-> sells', token |-> t, lots |-> q]} ELSE acks
  /\ Tell([type |-> "SELL", token |-> t, lots |-> q, order |-> <<0, 0>>, sell |-> sells'])
  /\ UNCHANGED <<scenario, market, window, signal, ledger, runner, done, live, acked>>

LoseReport ==
  /\ "ws_outage" \in scenario.faults /\ wsq # <<>>
  /\ wsq' = Tail(wsq)
  /\ UNCHANGED <<scenario, market, window, signal, ledger, runner, done, exchange, acks, acked>>

-------------------------------------------------------------------------------
(* The handlers of the event loop that touch the ledger. *)

\* Tick, and every event that leaves the ledger alone.
Tick ==
  /\ Publish(Unchanged, market)
  /\ UNCHANGED <<scenario, window, done, exchange, acks, acked, wsq>>

AutoTradingBuyDone(m) ==
  /\ m \in done
  /\ done' = done \ {m}
  /\ Publish(DoneEffect(m), market)
  /\ UNCHANGED <<scenario, window, exchange, acks, acked, wsq>>

\* OrderAck: a SELL leaves the ledger before before_order_ack_apply is asked.
SellAck(a) ==
  /\ a \in acks
  /\ acks' = acks \ {a}
  /\ acked' = acked \cup {a.sell}
  /\ Publish([Unchanged EXCEPT !.opn = Sold(a.token, a.lots)], market)
  /\ UNCHANGED <<scenario, window, done, exchange, wsq>>

\* UserChannelFill, where a SELL its OrderAck already booked is dropped, and
\* AutoTradingBuyOrderClosed.
Reported(m) ==
  CASE m.type = "BUY"    -> Bought(m.token, m.lots)
    [] m.type = "CLOSED" -> Closed(m.order)
    [] m.type = "SELL"   -> IF m.sell \in acked THEN Unchanged
                            ELSE [Unchanged EXCEPT !.opn = Sold(m.token, m.lots)]

UserChannel ==
  /\ wsq # <<>>
  /\ "sell_ws_first" \in scenario.faults \/ \A a \in acks : a.sell # Head(wsq).sell
  /\ wsq' = Tail(wsq)
  /\ Publish(Reported(Head(wsq)), market)
  /\ UNCHANGED <<scenario, window, done, exchange, acks, acked>>

\* Nothing is under way: no buy runs, no order rests, no report is still to come.
Reports == done # {} \/ acks # {} \/ wsq # <<>>
Running == \E r \in Runner : runner[r].pc \in {"check", "post"}
Quiet == ~Reports /\ ~Running /\ \A o \in OrderId : live[o] = 0

\* A new window, or, for a market the user left and picks again, the same one.
MarketRoll(w) ==
  /\ w = window + 1 \/ (w = window /\ market = 0)
  /\ w \in 1..MaxWindow /\ \E t \in scenario.tokens : WindowOf[t] = w
  /\ "straddle" \in scenario.faults \/ (Quiet /\ w # window)
  /\ window' = w
  /\ Publish(Empty, w)
  /\ UNCHANGED <<scenario, done, exchange, acks, acked, wsq>>

\* The user leaves the market for another: the ledger is kept until it rolls.
StartTrading ==
  /\ market # 0
  /\ Publish(Unchanged, 0)
  /\ UNCHANGED <<scenario, window, done, exchange, acks, acked, wsq>>

Next ==
  \/ \E r \in Runner : Check(r) \/ Rejected(r) \/ Accepted(r) \/ Unheard(r)
  \/ \E o \in OrderId : MakerFill(o) \/ Close(o)
  \/ \E t \in Token : ManualFill(t) \/ \E q \in Lots, taker \in BOOLEAN : SellLots(t, q, taker)
  \/ LoseReport
  \/ Tick \/ StartTrading \/ UserChannel
  \/ \E w \in 1..MaxWindow : MarketRoll(w)
  \/ \E m \in done : AutoTradingBuyDone(m)
  \/ \E a \in acks : SellAck(a)

Spec == Init /\ [][Next]_vars

(* The runtime runs every task: a runner goes on until it has reported, and the
   event loop handles every event.  An order that rests is filled or expires. *)
Fairness ==
  /\ \A r \in Runner : WF_vars(Check(r)) /\ WF_vars(Rejected(r) \/ Accepted(r))
  /\ WF_vars(\E m \in done : AutoTradingBuyDone(m))
  /\ WF_vars(\E a \in acks : SellAck(a))
  /\ WF_vars(UserChannel)
  /\ \A o \in OrderId : WF_vars(Close(o))

FairSpec == Spec /\ Fairness

-------------------------------------------------------------------------------
(* Properties that hold whatever the network, the exchange and the user do. *)

\* The state keeps its shape; the ledger never holds less than nothing of a token.
TypeOK ==
  /\ market \in 0..MaxWindow /\ window \in 0..MaxWindow
  /\ signal \in Token \cup {NoToken}
  /\ in_flight \subseteq Token
  /\ open \in [Token -> Nat]
  /\ resting \in [OrderId -> Token \cup {NoToken}]
  /\ runner \in [Runner -> [pc : {"off", "check", "post", "stopped"},
                            token : Token \cup {NoToken}, tries : Nat]]
  /\ done \subseteq [token : Token, order : OrderId, filled : Nat, error : BOOLEAN]
  /\ live \in [OrderId -> Nat] /\ held \in [Token -> Nat]

\* autotrading_apply_fill, autotrading_mark_in_flight: a token is reserved for a BUY
\* under way or held from an earlier one, never both, so it is counted once.
ReservedOrHeld == \A t \in in_flight : open[t] = 0

\* autotrading_mark_in_flight: whatever fills, fails, closes or is sold meanwhile, no
\* more tokens are reserved for BUYs under way than AUTOTRADING_MAX_POSITIONS.
InFlightWithinCapacity == Cardinality(in_flight) <= Cap

-------------------------------------------------------------------------------
(* Properties of the runs without a fault, or with one that does no harm to them. *)

Only(F) == scenario.faults \subseteq F

\* autotrading_reserved_count: open and reserved positions together stay within
\* AUTOTRADING_MAX_POSITIONS, also when SELLs are reported twice, before their BUY or
\* not at all, or an order closes early.
WithinCapacity ==
  Only({"sell_ws_first", "sell_early", "close_first", "ws_outage"}) =>
    ReservedCount(in_flight, open) <= Cap

OfMarket == {t \in Token : WindowOf[t] = market}
LiveOf(t) == {o \in OrderId : live[o] > 0 /\ TokenOf(o) = t}
Exposed == {t \in OfMarket : held[t] > 0 \/ LiveOf(t) # {}}

\* The ledger never loses sight of the exchange: a token of the market with lots in the
\* wallet or an order in the book is reserved or held; a report that is lost or early
\* does not hide it.
ExposureReserved ==
  Only({"sell_early", "close_first", "ws_outage"}) => Exposed \subseteq Reserved(in_flight, open)

\* AUTOTRADING_MAX_POSITIONS bounds what is really bought and on order at the exchange.
ExposureWithinCapacity == Cardinality(Exposed) <= Cap

\* Once nothing is under way, the ledger holds what the wallet holds, partial and manual
\* fills included.
LedgerSettled ==
  Only({"partial", "close_first", "manual_maker"}) /\ Quiet =>
    \A t \in OfMarket : open[t] = held[t]

\* A reservation is not kept for ever: the BUY fills, fails, is cancelled or expires.
ReservationReleased ==
  \A t \in Token : Only({}) /\ t \in in_flight ~> t \notin in_flight
=============================================================================
