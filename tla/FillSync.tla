------------------------------- MODULE FillSync -------------------------------
(* How one execution on the exchange reaches the position panel exactly once.

   The same fill is reported over three paths: the POST /order response (an
   OrderAck event, which carries an order id but no trade id), the user
   WebSocket (a UserChannelFill event, which carries both, and is sent once when
   the trade is MINED and again when it is CONFIRMED), and the one-shot REST
   load after a market roll (a PositionsLoaded event).  UserTradeSync and the
   trade ids kept by AppState decide which of them changes the position.

   Actors: the exchange, the order tasks, the user-WebSocket task, the market
   supervisor, and the single event loop that drains the event channel.  Every
   lock acquisition of UserTradeSync is a step of its own, because the other
   actors may take the lock in between.

   Abstractions: one outcome token (the two outcomes are independent copies);
   one price per order, so two lots of an order differ by quantity only; ids,
   timestamps and prices are model values.  f64 shares are naturals. *)
EXTENDS Integers, Sequences, FiniteSets, FiniteSetsExt

CONSTANTS
  Trade,          \* exchange trade ids
  Order,          \* CLOB order ids of the user
  NoTrade,        \* no trade: an empty slot of the WebSocket task, or no match
  OrderOf,        \* trade |-> the user's order it executes (the order leg id)
  Qty,            \* trade |-> shares
  SideOf,         \* order |-> "BUY" or "SELL"
  WindowOf,       \* order |-> the market window (1, 2, ...) it trades in
  TakerTrade,     \* order |-> the trade its POST matches at once, or NoTrade
  Scenarios,      \* what surrounds a run of the program, see ScenarioType
  MaxWindow,      \* bound: market windows
  ChanCap,        \* bound: length of the event channel (2048 in the code)
  MaxWait         \* MAX_WAIT, 32 in the code

FaultNames ==
  { "ttl",                 \* a report may come later than MATCH_TTL
    "rest_covers_acked",   \* orders are posted while the REST load is under way
    "rest_outlives_window",\* the next roll may come before the REST load
    "sell_unseen",         \* a SELL may execute before the panel shows its BUYs
    "balance_fallback" }   \* GET /data/trades may fail where the balance does not

ScenarioType ==
  [ faults     : SUBSET FaultNames,
    orders     : SUBSET Order,    \* the orders the user may place
    resting    : SUBSET Order,    \* those already resting when the program starts
    log        : Seq(Trade),      \* the trades executed before it starts
    deliveries : Nat,             \* bound: WebSocket deliveries of one trade
    fills_cap  : Nat \ {0} ]      \* rows kept in AppState.fills, 64 in the code

\* What can have happened before the program starts: a trade executes once, a
\* restart does not place an order again that has traded, and without the fault
\* nothing was sold that the panel has yet to show.
Past(s) ==
  /\ \A i, j \in DOMAIN s.log : s.log[i] = s.log[j] => i = j
  /\ \A i \in DOMAIN s.log : OrderOf[s.log[i]] \in s.resting \cup (Order \ s.orders)
  /\ "sell_unseen" \in s.faults \/ \A i \in DOMAIN s.log : SideOf[OrderOf[s.log[i]]] = "BUY"

ASSUME FillSyncAssumption ==
  /\ IsFiniteSet(Trade) /\ IsFiniteSet(Order)
  /\ OrderOf \in [Trade -> Order]
  /\ Qty \in [Trade -> Nat \ {0}]
  /\ SideOf \in [Order -> {"BUY", "SELL"}]
  /\ WindowOf \in [Order -> Nat \ {0}]
  /\ NoTrade \notin Trade
  /\ Trade \cap Order = {}
  /\ TakerTrade \in [Order -> Trade \cup {NoTrade}]
  /\ \A o \in Order : TakerTrade[o] # NoTrade => OrderOf[TakerTrade[o]] = o
  /\ Scenarios \subseteq ScenarioType /\ \A s \in Scenarios : Past(s)
  /\ MaxWindow \in Nat /\ ChanCap \in Nat \ {0} /\ MaxWait \in Nat \ {0}

VARIABLES
  scenario,           \* the surroundings of this run
  log,                \* exchange: trades in execution order
  posted,             \* exchange: orders it has accepted
  responses,          \* order tasks holding a fill they have yet to report
  deliveries,         \* trade |-> times the user channel delivered it
  wsPending,          \* the WebSocket task's fill between pre-check and send
  seen_trades,        \* UserTradeSync
  pretask_claimed,    \* UserTradeSync
  ack_wait,           \* UserTradeSync: fills applied from an OrderAck
  ws_wait,            \* UserTradeSync: fills applied from the user channel
  serial,             \* Instant::now(): rank of the next wait slot
  expired,            \* wait slots created before this rank are past MATCH_TTL
  window,             \* supervisor: the window it last rolled to
  supPc,              \* supervisor: "idle", or "cleared" before it sends MarketRoll
  fetching,           \* windows whose REST load is under way
  chan,               \* the event channel, oldest first
  pc,                 \* event loop: "idle" or the point inside a handler
  ev,                 \* event loop: the trade, order or window being handled
  market,             \* AppState.market: its window, 0 for None (nothing chosen yet)
  bundle,             \* user_bundle_tx: the window the WebSocket task maps fills to
  pos,                \* AppState.position.shares
  fills,              \* AppState.fills as a bag: trade id or (id-less) order |-> rows
  seen_fill_trade_ids \* AppState.seen_fill_trade_ids

exchange   == <<log, posted, responses, deliveries>>
sync       == <<seen_trades, pretask_claimed, ack_wait, ws_wait, serial, expired>>
supervisor == <<window, supPc, fetching>>
app        == <<market, bundle, pos, fills, seen_fill_trade_ids>>
loop       == <<pc, ev>>
vars == <<scenario, exchange, wsPending, sync, supervisor, chan, loop, app>>

-------------------------------------------------------------------------------
(* What the exchange knows. *)

Executed(t) == \E i \in DOMAIN log : log[i] = t
Signed(t)   == IF SideOf[OrderOf[t]] = "BUY" THEN Qty[t] ELSE -Qty[t]
InWindow(t, w) == WindowOf[OrderOf[t]] = w

\* Shares the trades of S leave in a wallet that starts empty.
NetOf(S) == MapThenSumSet(Signed, S)

\* Shares of window w held after the first n executions.
HeldAfter(n, w) == NetOf({t \in {log[i] : i \in 1..n} : InWindow(t, w)})
Held(w) == HeldAfter(Len(log), w)

\* The order's fill in its POST response; 0 when it rests ("live").
AckQty(o) == IF TakerTrade[o] = NoTrade THEN 0 ELSE Qty[TakerTrade[o]]

LoadQueued(w) == \E i \in DOMAIN chan : chan[i].type = "PositionsLoaded" /\ chan[i].window = w
LoadPending(w) == w \in fetching \/ LoadQueued(w)
Queued(m) == \E i \in DOMAIN chan : chan[i] = m

-------------------------------------------------------------------------------
(* Messages of the event channel. *)

Fill(t)         == [type |-> "UserChannelFill", trade |-> t]
Ack(o)          == [type |-> "OrderAck", order |-> o]
Roll(w)         == [type |-> "MarketRoll", window |-> w]
Start           == [type |-> "StartTrading"]
Loaded(w, n, T) == [type |-> "PositionsLoaded", window |-> w, upto |-> n, trades |-> T]

TrySend(m) == chan' = IF Len(chan) < ChanCap THEN Append(chan, m) ELSE chan \* mutant of Send
Send(m) == Len(chan) < ChanCap /\ chan' = Append(chan, m)

-------------------------------------------------------------------------------
(* UserTradeSync: bounded wait lists of (order, quantity) with a time to live. *)

Fresh(wait) == {s \in wait : s.created >= expired}          \* prune_stale
Matching(wait, o, q) == {s \in Fresh(wait) : s.order = o /\ s.qty = q}
Oldest(S) == CHOOSE s \in S : \A r \in S : s.created <= r.created
ConsumeNothing(wait, twins) == Fresh(wait)                 \* mutant of Consume
Consume(wait, twins) == Fresh(wait) \ {Oldest(twins)}
NewSlot(o, q) == [order |-> o, qty |-> q, created |-> serial]
PushCap(wait, s) ==
  LET all == wait \cup {s}
  IN  IF Cardinality(all) > MaxWait THEN all \ {Oldest(all)} ELSE all

\* The slots a user-channel fill, or an OrderAck, finds its twin in.
AckTwinsSwapped(t) == Matching(ws_wait, OrderOf[t], Qty[t])  \* mutant of AckTwins
AckTwins(t) == Matching(ack_wait, OrderOf[t], Qty[t])
WsTwins(o)  == Matching(ws_wait, o, AckQty(o))

-------------------------------------------------------------------------------
(* AppState: shares and the fills deque.  Rows are sorted by timestamp and cut
   to fills_cap; timestamps are abstracted, so any surplus row may be the one cut. *)

Row == Trade \cup Order
RowCount(f) == MapThenSumSet(LAMBDA x : f[x], Row)
SignedRow(x) == IF x \in Trade THEN Signed(x)
                ELSE IF SideOf[x] = "BUY" THEN AckQty(x) ELSE -AckQty(x)

\* net_shares_from_fills
NetShares(f) == MapThenSumSet(LAMBDA x : f[x] * SignedRow(x), Row)

\* trim_fills_to_cap
Trimmed(f) ==
  IF RowCount(f) <= scenario.fills_cap THEN {f}
  ELSE LET shown == {x \in Row : f[x] > 0}
           cuts  == {[x \in Row |-> IF x \in shown THEN h[x] ELSE 0] :
                       h \in [shown -> 0..RowCount(f)]}
       IN  {g \in cuts : (\A x \in Row : g[x] <= f[x]) /\ RowCount(g) = scenario.fills_cap}

\* The trades of a REST load that claim_fill_trade_id lets through.
Claimed(T)   == T                                            \* mutant of Unclaimed
Unclaimed(T) == T \ seen_fill_trade_ids

\* The rows a new window starts with.
ClearedRows == [x \in Row |-> 0]

\* push_back of one row per member of R
Pushed(R) == [x \in Row |-> IF x \in R THEN fills[x] + 1 ELSE fills[x]]

\* Position::apply_fill; a SELL closes at most the shares held
ApplyFill(p, side, q) == IF side = "BUY" THEN p + q ELSE IF q <= p THEN p - q ELSE 0

\* reconcile_position_shares_with_fill_deque only ever raises the position
NoReconcile(p, f) == p                                       \* mutant of Reconcile
Reconcile(p, f) == IF NetShares(f) > p THEN NetShares(f) ELSE p

\* A fill of the active window: position, row, trim, reconcile.
Book(row, side, q) ==
  /\ fills' \in Trimmed(Pushed({row}))
  /\ pos' = Reconcile(ApplyFill(pos, side, q), fills')

-------------------------------------------------------------------------------
Init ==
  /\ scenario \in Scenarios
  /\ posted = scenario.resting /\ log = scenario.log
  /\ responses = {}
  /\ deliveries = [t \in Trade |-> 0]
  /\ wsPending = NoTrade
  /\ seen_trades = {} /\ pretask_claimed = {}
  /\ ack_wait = {} /\ ws_wait = {} /\ serial = 0 /\ expired = 0
  /\ window = 0 /\ supPc = "idle" /\ fetching = {}
  /\ chan = <<>> /\ pc = "idle" /\ ev = NoTrade
  /\ market = 0 /\ bundle = 0 /\ pos = 0
  /\ fills = [x \in Row |-> 0]
  /\ seen_fill_trade_ids = {}

-------------------------------------------------------------------------------
(* The exchange and the order tasks. *)

Sells(o) == SideOf[o] = "SELL"
Size(o)  == MapThenSumSet(LAMBDA t : Qty[t], {t \in Trade : OrderOf[t] = o})

\* The panel shows window w and has a row for every share bought in it.
BuysBooked(w) ==
  /\ market = w
  /\ MapThenSumSet(LAMBDA x : fills[x] * SignedRow(x), {x \in Row : SignedRow(x) > 0})
       = NetOf({t \in Trade : Executed(t) /\ InWindow(t, w) /\ ~Sells(OrderOf[t])})

\* Nobody sells shares they do not hold, nor, without the fault, shares the panel
\* has yet to show.
MayTrade(t, w) ==
  Sells(OrderOf[t]) =>
    /\ Qty[t] <= Held(w)
    /\ "sell_unseen" \in scenario.faults \/ (~LoadPending(w) /\ BuysBooked(w))

\* The event loop spawns an order task whose POST is accepted.  The user sells no
\* more than the position shown.
Post(o) ==
  /\ pc = "idle" /\ o \in scenario.orders \ posted /\ market = WindowOf[o]
  /\ Sells(o) => Size(o) <= pos
  /\ IF TakerTrade[o] = NoTrade
     THEN UNCHANGED <<log, responses>>
     ELSE /\ MayTrade(TakerTrade[o], market)
          /\ "rest_covers_acked" \in scenario.faults \/ ~LoadPending(market)
          /\ log' = Append(log, TakerTrade[o])
          /\ responses' = responses \cup {o}
  /\ posted' = posted \cup {o}
  /\ UNCHANGED <<scenario, deliveries, wsPending, sync, supervisor, chan, loop, app>>

\* A resting order is matched by somebody else.
MakerMatch(t) ==
  /\ ~Executed(t) /\ OrderOf[t] \in posted /\ TakerTrade[OrderOf[t]] # t
  /\ MayTrade(t, WindowOf[OrderOf[t]])
  /\ log' = Append(log, t)
  /\ UNCHANGED <<scenario, posted, responses, deliveries, wsPending, sync, supervisor, chan, loop, app>>

\* The order task reports the fill of its POST response.
SendAck(o) ==
  /\ o \in responses
  /\ Send(Ack(o))
  /\ responses' = responses \ {o}
  /\ UNCHANGED <<scenario, log, posted, deliveries, wsPending, sync, supervisor, loop, app>>

-------------------------------------------------------------------------------
(* The user-WebSocket task: before_ws_user_fill_apply, then the send. *)

WsReceive(t) ==
  /\ wsPending = NoTrade
  /\ Executed(t) /\ InWindow(t, bundle) /\ deliveries[t] < scenario.deliveries
  /\ deliveries' = [deliveries EXCEPT ![t] = @ + 1]
  /\ IF t \in seen_trades \cup pretask_claimed
     THEN UNCHANGED <<wsPending, sync>>
     ELSE LET twins == AckTwins(t) IN
          /\ pretask_claimed' = pretask_claimed \cup {t}
          /\ ws_wait' = Fresh(ws_wait)
          /\ IF twins # {}
             THEN ack_wait' = Consume(ack_wait, twins) /\ UNCHANGED wsPending
             ELSE ack_wait' = Fresh(ack_wait) /\ wsPending' = t
          /\ UNCHANGED <<seen_trades, serial, expired>>
  /\ UNCHANGED <<scenario, log, posted, responses, supervisor, chan, loop, app>>

WsSend ==
  /\ wsPending # NoTrade
  /\ Send(Fill(wsPending))
  /\ wsPending' = NoTrade
  /\ UNCHANGED <<scenario, exchange, sync, supervisor, loop, app>>

-------------------------------------------------------------------------------
(* The market supervisor and the load task it spawns. *)

\* Bound: a run ends with the last window the user trades in.
MoreWindows == window < MaxWindow /\ \E o \in scenario.orders : WindowOf[o] > window

\* on_market_roll runs here, before the event loop hears of the roll.
RollBegin ==
  /\ supPc = "idle" /\ MoreWindows
  /\ "rest_outlives_window" \in scenario.faults \/ \A w \in 1..window : ~LoadPending(w)
  /\ window' = window + 1
  /\ supPc' = "cleared"
  /\ seen_trades' = {} /\ pretask_claimed' = {} /\ ack_wait' = {} /\ ws_wait' = {}
  /\ UNCHANGED <<scenario, exchange, wsPending, serial, expired, fetching, chan, loop, app>>

RollSend ==
  /\ supPc = "cleared"
  /\ Send(Roll(window))
  /\ supPc' = "idle"
  /\ fetching' = fetching \cup {window}
  /\ UNCHANGED <<scenario, exchange, wsPending, sync, window, loop, app>>

\* fills_bootstrap: the newest fills_cap trades of window w among the first n executed.
Bootstrap(w, n) ==
  {log[i] : i \in {j \in 1..n :
     /\ InWindow(log[j], w)
     /\ Cardinality({k \in j..n : InWindow(log[k], w)}) <= scenario.fills_cap}}

\* The trade list may lag, so the load sees a prefix of the log; when the list fails
\* and the balance does not, the position comes without trades.  Without CLOB
\* credentials the task ends and sends nothing.
LoadPositions(w) ==
  /\ w \in fetching
  /\ fetching' = fetching \ {w}
  /\ \/ \E n \in 0..Len(log) :
          \/ Send(Loaded(w, n, Bootstrap(w, n)))
          \/ "balance_fallback" \in scenario.faults /\ Send(Loaded(w, n, {}))
     \/ UNCHANGED chan
  /\ UNCHANGED <<scenario, exchange, wsPending, sync, window, supPc, loop, app>>

-------------------------------------------------------------------------------
(* The event loop: one event at a time, one lock acquisition per step. *)

Receives(type) == pc = "idle" /\ chan # <<>> /\ Head(chan).type = type /\ chan' = Tail(chan)
Goto(point, subject) == pc' = point /\ ev' = subject
Done == Goto("idle", NoTrade)

\* UserChannelFill: claim_fill_trade_id, then fill_already_committed.
ReceiveFill ==
  /\ Receives("UserChannelFill")
  /\ LET t == Head(chan).trade IN
     /\ seen_fill_trade_ids' = seen_fill_trade_ids \cup {t}
     /\ IF t \in seen_fill_trade_ids \cup seen_trades THEN Done ELSE Goto("guard", t)
  /\ UNCHANGED <<scenario, exchange, wsPending, sync, supervisor, market, bundle, pos, fills>>

\* UserChannelFill: ack_claimed_for_ws_fill.
GuardFill ==
  /\ pc = "guard"
  /\ LET twins == AckTwins(ev) IN
     IF twins # {}
     THEN /\ ack_wait' = Consume(ack_wait, twins)
          /\ seen_trades' = seen_trades \cup {ev}
          /\ Done
     ELSE /\ ack_wait' = Fresh(ack_wait)
          /\ Goto("commit", ev)
          /\ UNCHANGED seen_trades
  /\ UNCHANGED <<scenario, exchange, wsPending, pretask_claimed, ws_wait, serial, expired,
                 supervisor, chan, app>>

\* UserChannelFill: the position block, then after_ws_user_fill_committed.  A fill
\* of another window goes to apply_background_trailing_fill, which does nothing.
CommitFill ==
  /\ pc = "commit"
  /\ IF InWindow(ev, market)
     THEN Book(ev, SideOf[OrderOf[ev]], Qty[ev])
     ELSE UNCHANGED <<pos, fills>>
  /\ pretask_claimed' = pretask_claimed \ {ev}
  /\ seen_trades' = seen_trades \cup {ev}
  /\ ack_wait' = Fresh(ack_wait)
  /\ ws_wait' = PushCap(ws_wait, NewSlot(OrderOf[ev], Qty[ev]))
  /\ serial' = serial + 1
  /\ Done
  /\ UNCHANGED <<scenario, exchange, wsPending, expired, supervisor, chan, market, bundle,
                 seen_fill_trade_ids>>

\* OrderAck: before_order_ack_apply.
ReceiveAck ==
  /\ Receives("OrderAck")
  /\ LET o     == Head(chan).order
         twins == WsTwins(o) IN
     /\ ack_wait' = Fresh(ack_wait)
     /\ IF twins # {}
        THEN ws_wait' = Consume(ws_wait, twins) /\ Done
        ELSE ws_wait' = Fresh(ws_wait) /\ Goto("ack", o)
  /\ UNCHANGED <<scenario, exchange, wsPending, seen_trades, pretask_claimed, serial, expired,
                 supervisor, app>>

\* OrderAck: the position block and after_order_ack_applied.
ApplyAck ==
  /\ pc = "ack"
  /\ IF WindowOf[ev] = market
     THEN Book(ev, SideOf[ev], AckQty(ev))
     ELSE fills' \in Trimmed(fills) /\ UNCHANGED pos
  /\ ack_wait' = PushCap(Fresh(ack_wait), NewSlot(ev, AckQty(ev)))
  /\ serial' = serial + 1
  /\ Done
  /\ UNCHANGED <<scenario, exchange, wsPending, seen_trades, pretask_claimed, ws_wait, expired,
                 supervisor, chan, market, bundle, seen_fill_trade_ids>>

\* PositionsLoaded: seed_seen_trades_from_rest, bootstrap rows, position, reconcile.
\* Nothing in the message or the handler names the window it was loaded for.
ApplyLoaded ==
  /\ Receives("PositionsLoaded")
  /\ LET m == Head(chan) IN
     /\ seen_trades' = seen_trades \cup m.trades
     /\ seen_fill_trade_ids' = seen_fill_trade_ids \cup m.trades
     /\ IF m.trades = {}
        THEN UNCHANGED fills
        ELSE fills' \in Trimmed(Pushed(Unclaimed(m.trades)))
     /\ LET rest == HeldAfter(m.upto, m.window)
        IN  pos' = Reconcile(IF rest >= pos THEN rest ELSE pos, fills')
  /\ UNCHANGED <<scenario, exchange, wsPending, pretask_claimed, ack_wait, ws_wait, serial, expired,
                 supervisor, loop, market, bundle>>

\* MarketRoll: AppState starts the window afresh ...
ApplyRoll ==
  /\ Receives("MarketRoll")
  /\ market' = Head(chan).window
  /\ pos' = 0
  /\ fills' = ClearedRows
  /\ seen_fill_trade_ids' = {}
  /\ Goto("publish", NoTrade)
  /\ UNCHANGED <<scenario, exchange, wsPending, sync, supervisor, bundle>>

\* ... and apply_app_event then publishes the bundle the WebSocket task reads.
PublishBundle ==
  /\ pc = "publish"
  /\ bundle' = market
  /\ Done
  /\ UNCHANGED <<scenario, exchange, wsPending, sync, supervisor, chan, market, pos, fills,
                 seen_fill_trade_ids>>

\* The user picks another market in the wizard.  The key handler runs in the event
\* loop; a REST load under way is not cancelled.  (MoreWindows: a roll is left to answer.)
PickMarket ==
  /\ pc = "idle" /\ market # 0 /\ MoreWindows /\ ~Queued(Start)
  /\ "rest_outlives_window" \in scenario.faults \/ \A w \in 1..window : ~LoadPending(w)
  /\ Send(Start)
  /\ UNCHANGED <<scenario, exchange, wsPending, sync, supervisor, loop, app>>

\* StartTrading: no market until the next roll; fills and claimed ids stay.
ApplyStart ==
  /\ Receives("StartTrading")
  /\ market' = 0
  /\ pos' = 0
  /\ Goto("publish", NoTrade)
  /\ UNCHANGED <<scenario, exchange, wsPending, sync, supervisor, bundle, fills, seen_fill_trade_ids>>

-------------------------------------------------------------------------------
(* Time.  Eight seconds pass for the oldest slots; without the "ttl" fault, only
   for slots whose order has no report left to come. *)

ReportPending(o) ==
  \/ o \in responses \/ Queued(Ack(o)) \/ ev = o
  \/ LET t == TakerTrade[o] IN
       t # NoTrade /\ (deliveries[t] = 0 \/ wsPending = t \/ Queued(Fill(t)) \/ ev = t)

TtlElapses ==
  /\ \E n \in expired + 1 .. serial :
       /\ \/ "ttl" \in scenario.faults
          \/ \A s \in ack_wait \cup ws_wait : s.created < n => ~ReportPending(s.order)
       /\ expired' = n
  /\ UNCHANGED <<scenario, exchange, wsPending, seen_trades, pretask_claimed, ack_wait, ws_wait,
                 serial, supervisor, chan, loop, app>>

\* Nothing is left to do within the bounds: the program waits for its next event.
Idle ==
  /\ chan = <<>> /\ pc = "idle" /\ wsPending = NoTrade /\ responses = {}
  /\ supPc = "idle" /\ fetching = {}
  /\ UNCHANGED vars

Next ==
  \/ \E o \in Order : Post(o) \/ SendAck(o)
  \/ \E t \in Trade : MakerMatch(t) \/ WsReceive(t)
  \/ WsSend
  \/ RollBegin \/ RollSend
  \/ \E w \in 1..MaxWindow : LoadPositions(w)
  \/ ReceiveFill \/ GuardFill \/ CommitFill
  \/ ReceiveAck \/ ApplyAck
  \/ ApplyLoaded
  \/ ApplyRoll \/ PublishBundle
  \/ PickMarket \/ ApplyStart
  \/ TtlElapses
  \/ Idle

Spec == Init /\ [][Next]_vars

\* The event loop always takes its next step.  Tokio hands channel permits out in
\* order, so an order task that keeps finding room in the channel does get to send;
\* nothing is asked of the other senders.
EventLoop == ReceiveFill \/ GuardFill \/ CommitFill \/ ReceiveAck \/ ApplyAck
             \/ ApplyLoaded \/ ApplyRoll \/ PublishBundle \/ ApplyStart
Taken == {o \in Order : TakerTrade[o] # NoTrade}
Fairness == WF_vars(EventLoop) /\ \A o \in Taken : SF_vars(SendAck(o))
FairSpec == Spec /\ Fairness

-------------------------------------------------------------------------------
(* Properties. *)

Slot == [order : Order, qty : Nat, created : Nat]

Message ==
  [type : {"UserChannelFill"}, trade : Trade]
  \cup [type : {"OrderAck"}, order : Order]
  \cup [type : {"MarketRoll"}, window : 1..MaxWindow]
  \cup [type : {"StartTrading"}]
  \cup [type : {"PositionsLoaded"}, window : 1..MaxWindow, upto : Nat, trades : SUBSET Trade]

\* Type invariant: what UserTradeSync, the event channel and the event loop hold.
SyncTypeOK ==
  /\ seen_trades \subseteq Trade /\ pretask_claimed \subseteq Trade
  /\ ack_wait \subseteq Slot /\ ws_wait \subseteq Slot
  /\ serial \in Nat /\ expired \in 0..serial
  /\ wsPending \in Trade \cup {NoTrade}
  /\ pc \in {"idle", "guard", "commit", "ack", "publish"}
  /\ pc \in {"guard", "commit"} => ev \in Trade
  /\ pc = "ack" => ev \in Order

\* AppState::claim_fill_trade_id: within a window the fills deque never holds two
\* rows of one exchange trade, whatever the WebSocket repeats and whatever the REST
\* load lists (round log, realized PnL and reconcile all read these rows).
FillRowsOnce == \A t \in Trade : fills[t] <= 1

\* UserTradeSync: an OrderAck and a user-channel fill of the same lot are never both
\* waiting for their twin; if they were, both would already have been applied.
NoCrossedSlots ==
  \A a \in Fresh(ack_wait), s \in Fresh(ws_wait) : ~(a.order = s.order /\ a.qty = s.qty)

\* The program heard of the trade: the user channel delivered it or REST listed it.
Heard(t) == deliveries[t] > 0 \/ t \in seen_trades
Mine     == {t \in Trade : Executed(t) /\ InWindow(t, market)}

\* Every report is processed, and no POST response speaks for a trade that the user
\* channel has yet to deliver (an equal lot of the same order may have used it up).
Settled ==
  /\ chan = <<>> /\ pc = "idle" /\ wsPending = NoTrade /\ responses = {}
  /\ supPc = "idle" /\ ~LoadPending(market)
  /\ \A t \in Mine : t = TakerTrade[OrderOf[t]] => Heard(t)

\* Without the faults: once everything reported has been processed, the position is
\* the net of the trades heard of, each counted once, none swallowed by the
\* de-duplication, whether the program was restarted or the market rolled before.
SettledExact == scenario.faults = {} /\ Settled => pos = NetOf({t \in Mine : Heard(t)})

\* Nothing was sold in the window, nor in an earlier one whose REST load may still
\* bring a SELL into the panel (the BUYs it sold from may be claimed already).
LateSells == {"sell_unseen", "rest_outlives_window"} \subseteq scenario.faults
NothingSold ==
  \A t \in Trade : Executed(t) /\ Sells(OrderOf[t]) => ~InWindow(t, market) /\ ~LateSells

\* With them (reports later than MATCH_TTL, a REST load that covers a fill the POST
\* reports too, outlives its window or comes without trades) a BUY may be counted
\* twice but is never lost, as long as nothing was sold.
SettledNotShort == Settled /\ NothingSold => pos >= NetOf({t \in Mine : Heard(t)})

\* The fill a BUY's POST response reports reaches the position of its window, unless
\* the market rolls first or shares are sold.
AckBooked ==
  \A o \in {b \in Taken : ~Sells(b)} :
    o \in responses ~> \/ pos >= AckQty(o)
                       \/ market # WindowOf[o]
                       \/ \E t \in Mine : Sells(OrderOf[t])
=============================================================================
