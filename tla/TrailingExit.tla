----------------------------- MODULE TrailingExit -----------------------------
(* How a position is given back: the trailing stop from its pending arm to the
   FAK SELL, beside the stop loss and the SELLs of the user.

   Actors: the event loop, one task per order, the exchange and the user
   WebSocket.  The reports of one task are handled in the order it sent them;
   those of different tasks, and the user channel, overtake each other.

   Abstractions: prices.  A Book event may arm a trail, trip one, trip the stop
   loss, or price a queued exit or not, as if the bid were chosen freely; entry
   prices are below the 0.99 above which nothing is trailed.  Shares are whole
   lots, one lot is no dust.  A trade is applied once, by its OrderAck or by its
   UserChannelFill, which is what FillSync is about, and the open-order rows
   follow the exchange. *)
EXTENDS Integers, Sequences, FiniteSets

CONSTANTS
  Token,       \* the outcome tokens of one market
  NoToken,
  MaxParallel, \* TRAILING_SELL_MAX_PARALLEL
  Attempts,    \* TRAILING_EXIT_FAK_ATTEMPTS
  Scenarios,   \* what surrounds a run of the program, see ScenarioType
  Lot,         \* lots in one BUY
  MaxTasks     \* bound: order tasks at a time in any scenario

FaultNames ==
  { "buy_in_exit",   \* a BUY may be booked, or ask for its trail, while an exit is
                     \* queued or runs
    "manual_fails",  \* the user's market SELL may be refused
    "sells_overlap", \* a stop loss or a SELL of the user may start beside another
    "late_fill",     \* an exit may be accepted without a fill, and fill later
    "lost_response", \* POST /order may fail after the order was executed
    "reload",        \* the market may be left and picked again with orders out
    "cancel_stop",   \* a resting stop-loss SELL may be cancelled
    "worthless" }    \* the shares may be worth less than a cent

ScenarioType ==
  [ faults : SUBSET FaultNames,
    trades : Nat,              \* bound: trades executed
    tasks  : 0..MaxTasks ]     \* bound: order tasks at a time

ASSUME TrailingExitAssumption ==
  /\ NoToken \notin Token
  /\ MaxParallel \in Nat \ {0} /\ Attempts \in Nat \ {0} /\ Lot \in Nat \ {0}
  /\ Scenarios \subseteq ScenarioType
  /\ MaxTasks \in Nat

VARIABLES
  scenario, \* the surroundings of this run
  market,  \* AppState.market is this market, not None
  loading, \* its PositionsLoaded is still to come
  tok,     \* AppState, token by token, see TokenState
  task,    \* the order tasks
  trades,  \* trades executed by the exchange, oldest first
  held,    \* exchange: lots in the wallet
  rest     \* exchange: the resting SELL, its lots and who placed it

vars == <<scenario, market, loading, tok, task, trades, held, rest>>

Task  == 1..MaxTasks
Kinds == {"buy", "exit", "stop", "manual"}
Points == {"post", "ack", "arm", "done", "fail"}

-------------------------------------------------------------------------------
(* What AppState holds of one token. *)

TokenState ==
  [ pos : Nat,             \* position().shares
    arm : Nat,             \* pending_trail_arms: plan_sell_shares, 0 for no entry
    plan : Nat,            \* trailing: plan_sell_shares, 0 for no session
    tracked : Nat,         \* trailing: tracked_shares
    triggered : BOOLEAN,   \* trailing: stop.is_triggered()
    queue : Seq(Nat),      \* pending_trailing_sells: sell_shares of its entries
    in_flight : BOOLEAN,   \* trailing_sell_in_flight
    grace : BOOLEAN,       \* trailing_sell_partial_fill_grace_until not yet over
    manual : Nat,          \* manual_fak_sell_in_flight_depth
    stop : BOOLEAN ]       \* stop_loss_sell_in_flight

Fresh == [pos |-> 0, arm |-> 0, plan |-> 0, tracked |-> 0, triggered |-> FALSE, queue |-> <<>>,
          in_flight |-> FALSE, grace |-> FALSE, manual |-> 0, stop |-> FALSE]

Lower(a, b)  == IF a < b THEN a ELSE b
Higher(a, b) == IF a < b THEN b ELSE a
Minus(a, b)  == IF a < b THEN 0 ELSE a - b

\* remove_trailing_and_pending_arm_for_token
NoSession(x) == [x EXCEPT !.plan = 0, !.tracked = 0, !.triggered = FALSE]
Unarmed(x)   == [NoSession(x) EXCEPT !.arm = 0, !.grace = FALSE]

\* clear_trailing_on_sell_token
Cleared(x) == [Unarmed(x) EXCEPT !.queue = <<>>, !.in_flight = FALSE]

\* install_trailing_session: a new stop, merged with the session before it.
Installed(x, plan, tracked) ==
  [x EXCEPT !.plan = @ + plan, !.tracked = Higher(@, tracked), !.triggered = FALSE]

\* try_promote_pending_trail_token: the bid reached the activation price.
Promoted(x) == Installed([x EXCEPT !.arm = 0], x.arm, x.arm)
MayPromote(x) == {x} \cup (IF x.arm > 0 THEN {Promoted(x)} ELSE {})

\* trail_live_shares
Live(x) == IF market THEN x.pos ELSE x.tracked

\* rearm_trailing_after_partial_sell, or else clear_trailing_on_sell_token.
ClearedBySell(x, q) == Cleared(x)                               \* mutant of AfterSell
AfterSell(x, q) ==
  LET left == Lower(Minus(x.plan, q), Live(x)) IN
  IF x.in_flight /\ left > 0
  THEN [Installed(NoSession(x), left, Live(x)) EXCEPT !.grace = TRUE]
  ELSE Cleared(x)

\* The books of a SELL or a BUY: position, bump_trailing_tracked_shares, then the
\* trail; with the market gone, and buy_trail_bps with it, a BUY registers none.
Sold(x, q) ==
  AfterSell([x EXCEPT !.pos = Minus(@, q),
                      !.tracked = IF x.plan > 0 THEN Minus(@, q) ELSE @], q)
Bought(x, q) ==                                  \* refresh_buy_trailing_from_position
  IF market
  THEN LET p == x.pos + q IN [Unarmed(x) EXCEPT !.pos = p, !.arm = p]
  ELSE [x EXCEPT !.tracked = IF x.plan > 0 THEN @ + q ELSE @]

-------------------------------------------------------------------------------
Off == [kind |-> "none", pc |-> "post", token |-> NoToken, lots |-> 0, tries |-> 0, trade |-> 0]
Free == {k \in Task : k <= scenario.tasks /\ task[k] = Off}
Started(kind, pc, t, lots, trade) ==
  \E k \in Free :
    /\ \A j \in Free : k <= j
    /\ task' = [task EXCEPT ![k] = [kind |-> kind, pc |-> pc, token |-> t, lots |-> lots,
                                    tries |-> 0, trade |-> trade]]

NoOrder == [by |-> "none", lots |-> 0]
Filled(o, q) == IF q = o.lots THEN NoOrder ELSE [o EXCEPT !.lots = o.lots - q]
Tasks(t, kind) == {k \in Task : task[k].kind = kind /\ task[k].token = t}
Exiting(t) == tok[t].queue # <<>> \/ Tasks(t, "exit") # {}
Reported(t) == \A n \in DOMAIN trades : trades[n].token = t => trades[n].told
SellUnderWay(t) ==
  \/ rest[t] # NoOrder
  \/ \E k \in Task : task[k].token = t /\ task[k].kind # "buy"
  \/ \E n \in DOMAIN trades : trades[n].token = t /\ trades[n].by # "buy" /\ ~trades[n].told
Idle(t) == Reported(t) /\ \A k \in Task : task[k].token # t

Init ==
  /\ scenario \in Scenarios
  /\ market = TRUE /\ loading = FALSE
  /\ tok = [t \in Token |-> Fresh]
  /\ task = [k \in Task |-> Off]
  /\ trades = <<>>
  /\ held = [t \in Token |-> 0]
  /\ rest = [t \in Token |-> NoOrder]

-------------------------------------------------------------------------------
(* The exchange. *)

Trade(t, by, q) ==
  [token |-> t, by |-> by, lots |-> q, applied |-> FALSE, told |-> FALSE]

Execute(t, by, q) ==
  /\ Len(trades) < scenario.trades
  /\ trades' = Append(trades, Trade(t, by, q))
  /\ held' = [held EXCEPT ![t] = IF by = "buy" THEN @ + q ELSE @ - q]

\* A BUY of the user or of auto-trading fills, from its POST or as a maker.
BuyFilled(t, atOnce) ==
  /\ market
  /\ Execute(t, "buy", Lot)
  /\ IF atOnce THEN Started("buy", "ack", t, Lot, Len(trades')) ELSE UNCHANGED task
  /\ UNCHANGED <<scenario, market, loading, tok, rest>>

\* The user places a limit SELL, which rests.
LimitSell(t) ==
  /\ market /\ rest[t] = NoOrder
  /\ "sells_overlap" \in scenario.faults \/ (~SellUnderWay(t) /\ tok[t].queue = <<>>)
  /\ \E q \in 1..held[t] : rest' = [rest EXCEPT ![t] = [by |-> "user", lots |-> q]]
  /\ UNCHANGED <<scenario, market, loading, tok, task, trades, held>>

\* A resting SELL is filled or cancelled.
RestFilled(t) ==
  /\ \E q \in 1..Lower(rest[t].lots, held[t]) :
       /\ Execute(t, rest[t].by, q)
       /\ rest' = [rest EXCEPT ![t] = Filled(@, q)]
  /\ UNCHANGED <<scenario, market, loading, tok, task>>

RestCancelled(t) ==
  /\ rest[t] # NoOrder
  /\ rest[t].by = "stop" => "cancel_stop" \in scenario.faults
  /\ rest' = [rest EXCEPT ![t] = NoOrder]
  /\ UNCHANGED <<scenario, market, loading, tok, task, trades, held>>

-------------------------------------------------------------------------------
(* The order tasks, up to the report of their POST. *)

At(k, kind, pc) == task[k].kind = kind /\ task[k].pc = pc
Goto(k, pc) == task' = [task EXCEPT ![k].pc = pc]

\* run_trailing_exit_fak_sell: a POST that failed is repeated.
Repeat(k) ==
  IF task[k].tries + 1 < Attempts
  THEN task' = [task EXCEPT ![k].tries = @ + 1]
  ELSE Goto(k, "fail")

ExitRefused(k) ==
  /\ At(k, "exit", "post")
  /\ Repeat(k)
  /\ UNCHANGED <<scenario, market, loading, tok, trades, held, rest>>

ExitFilled(k) ==
  /\ At(k, "exit", "post")
  /\ \E q \in 1..Lower(task[k].lots, held[task[k].token]) :
       /\ Execute(task[k].token, "exit", q)
       /\ \/ task' = [task EXCEPT ![k].pc = "ack", ![k].lots = q, ![k].trade = Len(trades')]
          \/ "lost_response" \in scenario.faults /\ Repeat(k)
  /\ UNCHANGED <<scenario, market, loading, tok, rest>>

\* Accepted as live: neither retried nor acknowledged.
ExitRests(k) ==
  /\ At(k, "exit", "post") /\ "late_fill" \in scenario.faults
  /\ rest[task[k].token] = NoOrder
  /\ rest' = [rest EXCEPT ![task[k].token] = [by |-> "exit", lots |-> task[k].lots]]
  /\ Goto(k, "done")
  /\ UNCHANGED <<scenario, market, loading, tok, trades, held>>

\* run_stop_loss_gtd_sell: the resting SELLs are cancelled, then one is posted.
StopPosted(k) ==
  /\ At(k, "stop", "post")
  /\ \/ /\ \E q \in 1..Lower(task[k].lots, held[task[k].token]) :
             /\ Execute(task[k].token, "stop", q)
             /\ task' = [task EXCEPT ![k].pc = "ack", ![k].lots = q, ![k].trade = Len(trades')]
             /\ rest' = [rest EXCEPT ![task[k].token] =
                          Filled([by |-> "stop", lots |-> task[k].lots], q)]
     \/ /\ rest' = [rest EXCEPT ![task[k].token] = [by |-> "stop", lots |-> task[k].lots]]
        /\ Goto(k, "done")
        /\ UNCHANGED <<trades, held>>
  /\ UNCHANGED <<scenario, market, loading, tok>>

\* A cancel fails and the order stays, or the POST is refused.
StopRefused(k) ==
  /\ At(k, "stop", "post")
  /\ rest' \in {rest, [rest EXCEPT ![task[k].token] = NoOrder]}
  /\ Goto(k, "fail")
  /\ UNCHANGED <<scenario, market, loading, tok, trades, held>>

\* spawn_order for the user's market SELL.
ManualPosted(k) ==
  /\ At(k, "manual", "post")
  /\ \/ \E q \in 1..Lower(task[k].lots, held[task[k].token]) :
          /\ Execute(task[k].token, "user", q)
          /\ task' = [task EXCEPT ![k].pc = "ack", ![k].lots = q, ![k].trade = Len(trades')]
     \/ /\ "manual_fails" \in scenario.faults
        /\ Goto(k, "done")
        /\ UNCHANGED <<trades, held>>
  /\ UNCHANGED <<scenario, market, loading, tok, rest>>

-------------------------------------------------------------------------------
(* The event loop: fills. *)

\* A fill is booked once.  A SELL also ends the stop loss's claim on the token.
Booked(n, settledStop) ==
  LET t == trades[n].token
      x == IF settledStop THEN [tok[t] EXCEPT !.stop = FALSE] ELSE tok[t] IN
  IF trades[n].applied THEN tok' = [tok EXCEPT ![t] = x]
  ELSE IF trades[n].by # "buy" THEN tok' = [tok EXCEPT ![t] = Sold(x, trades[n].lots)]
  ELSE \E y \in MayPromote(Bought(x, trades[n].lots)) : tok' = [tok EXCEPT ![t] = y]

\* Without the faults, an exit is not disturbed by other fills of its token.
Undisturbed(n) ==
  \/ ~Exiting(trades[n].token)
  \/ trades[n].by = "exit"
  \/ trades[n].by = "buy" /\ "buy_in_exit" \in scenario.faults
  \/ trades[n].by \in {"stop", "user"} /\ "sells_overlap" \in scenario.faults

\* OrderAck: clear_stop_loss_sell_in_flight comes before before_order_ack_apply.
OrderAck(k) ==
  /\ task[k].pc = "ack"
  /\ Undisturbed(task[k].trade)
  /\ Booked(task[k].trade, task[k].kind # "buy")
  /\ trades' = [trades EXCEPT ![task[k].trade].applied = TRUE]
  /\ Goto(k, IF task[k].kind = "buy" THEN "arm" ELSE "done")
  /\ UNCHANGED <<scenario, market, loading, held, rest>>

\* UserChannelFill: a fill already booked is dropped before anything else.
UserChannelFill(n) ==
  /\ ~trades[n].told
  /\ Undisturbed(n)
  /\ Booked(n, trades[n].by # "buy" /\ ~trades[n].applied)
  /\ trades' = [trades EXCEPT ![n].applied = TRUE, ![n].told = TRUE]
  /\ UNCHANGED <<scenario, market, loading, task, held, rest>>

\* RequestTrailingArm, which the task of a BUY sends some seconds after its OrderAck:
\* merge_pending_trailing_buy_arm.
RequestTrailingArm(k) ==
  /\ At(k, "buy", "arm")
  /\ ~Exiting(task[k].token) \/ "buy_in_exit" \in scenario.faults
  /\ LET t == task[k].token IN
     \E y \in MayPromote([tok[t] EXCEPT !.arm = @ + task[k].lots]) : tok' = [tok EXCEPT ![t] = y]
  /\ task' = [task EXCEPT ![k] = Off]
  /\ UNCHANGED <<scenario, market, loading, trades, held, rest>>

-------------------------------------------------------------------------------
(* The event loop: ticks and exits. *)

\* trailing_sell_queued_or_in_flight
BusyButStop(t, x) ==                                            \* mutant of Busy
  x.queue # <<>> \/ x.in_flight \/ x.manual > 0 \/ x.grace \/ (market /\ rest[t] # NoOrder)
Busy(t, x) ==
  \/ x.queue # <<>> \/ x.in_flight \/ x.manual > 0 \/ x.stop \/ x.grace
  \/ market /\ rest[t] # NoOrder

\* apply_trailing_book_tick
Tripped(t, x) ==
  LET y  == [x EXCEPT !.triggered = TRUE]
      sh == Lower(Live(x), x.plan) IN
  IF x.plan = 0 \/ x.triggered \/ Busy(t, x) THEN {}
  ELSE IF sh = 0 THEN {Unarmed(y)}
  ELSE {[y EXCEPT !.queue = Append(@, sh)]} \cup (IF "worthless" \in scenario.faults THEN {Cleared(y)} ELSE {})

\* try_dispatch_stop_loss_sell
StopLoss(s) ==
  \E u \in Token :
    /\ market /\ ~s[u].stop /\ s[u].pos > 0
    /\ "sells_overlap" \in scenario.faults \/ (~SellUnderWay(u) /\ s[u].queue = <<>>)
    /\ tok' = [s EXCEPT ![u] = [@ EXCEPT !.stop = TRUE]]
    /\ Started("stop", "post", u, s[u].pos, 0)

\* try_dispatch_trailing_sell, one entry at a time: more entries are dispatched by
\* more events.  An entry the book cannot price, or not well enough, stays queued.
Dispatched(x) == [x EXCEPT !.queue = Tail(@), !.in_flight = TRUE]

MayDispatch(u, s) ==
  /\ s[u].queue # <<>> /\ ~s[u].in_flight /\ s[u].manual = 0
  /\ Cardinality({v \in Token : s[v].in_flight}) < MaxParallel

Dispatch(s) ==
  \E u \in Token :
    /\ MayDispatch(u, s)
    /\ \/ /\ tok' = [s EXCEPT ![u] = Dispatched(@)]
          /\ Started("exit", "post", u, Head(s[u].queue), 0)
       \/ /\ "worthless" \in scenario.faults
          /\ tok' = [s EXCEPT ![u] = Cleared(@)]
          /\ UNCHANGED task

\* Book: try_promote_pending_trail_any, the tick, then the dispatchers.  The bid
\* that arms a trail is above its stop.
Book(t) ==
  /\ \E P \in SUBSET {u \in Token : tok[u].arm > 0 /\ (market \/ u = t)} :
       LET armed(u) == IF u \in P THEN Promoted(tok[u]) ELSE tok[u] IN
       \E x \in {armed(t)} \cup (IF t \in P THEN {} ELSE Tripped(t, armed(t))) :
         LET s == [u \in Token |-> IF u = t THEN x ELSE armed(u)] IN
           \/ tok' = s /\ UNCHANGED task
           \/ StopLoss(s)
           \/ Dispatch(s)
  /\ UNCHANGED <<scenario, market, loading, trades, held, rest>>

\* TrailingExitDispatchDone
DoneStuck(x, success) == [x EXCEPT !.queue = <<>>]              \* mutant of ExitDone
DoneUntried(x, success) ==                                      \* mutant of ExitDone
  LET y == [x EXCEPT !.queue = <<>>, !.in_flight = FALSE] IN
  IF success /\ (x.triggered \/ Live(x) = 0) THEN NoSession(y) ELSE y
ExitDone(x, success) ==
  LET y == [x EXCEPT !.queue = <<>>, !.in_flight = FALSE] IN
  IF success
  THEN IF x.plan > 0 /\ (x.triggered \/ Live(x) = 0)
       THEN [NoSession(y) EXCEPT !.grace = FALSE]
       ELSE y
  ELSE IF x.plan > 0 /\ Live(x) > 0
       THEN Installed(NoSession(y), x.plan, Live(x))
       ELSE [NoSession(y) EXCEPT !.grace = FALSE]

TrailingExitDispatchDone(k) ==
  /\ task[k].kind = "exit" /\ task[k].pc \in {"done", "fail"}
  /\ tok' = [tok EXCEPT ![task[k].token] = ExitDone(@, task[k].pc = "done")]
  /\ task' = [task EXCEPT ![k] = Off]
  /\ UNCHANGED <<scenario, market, loading, trades, held, rest>>

\* StopLossSellDone: on success the marker stays, until a SELL fills or the market rolls.
StopDone(x, success) == IF success THEN x ELSE [x EXCEPT !.stop = FALSE]

StopLossSellDone(k) ==
  /\ task[k].kind = "stop" /\ task[k].pc \in {"done", "fail"}
  /\ tok' = [tok EXCEPT ![task[k].token] = StopDone(@, task[k].pc = "done")]
  /\ task' = [task EXCEPT ![k] = Off]
  /\ UNCHANGED <<scenario, market, loading, trades, held, rest>>

\* The user's market SELL of the whole position: manual_fak_sell_begin, then the task.
Manual(t) ==
  /\ market
  /\ "sells_overlap" \in scenario.faults \/ ~SellUnderWay(t)
  /\ \E q \in 1..Higher(tok[t].pos, held[t]) :
       /\ tok[t].pos > 0 => q = tok[t].pos
       /\ Started("manual", "post", t, q, 0)
  /\ tok' = [tok EXCEPT ![t].manual = @ + 1, ![t].queue = <<>>]
  /\ UNCHANGED <<scenario, market, loading, trades, held, rest>>

ManualFakSellDispatchDone(k) ==
  /\ At(k, "manual", "done")
  /\ tok' = [tok EXCEPT ![task[k].token].manual = Minus(@, 1)]
  /\ task' = [task EXCEPT ![k] = Off]
  /\ UNCHANGED <<scenario, market, loading, trades, held, rest>>

\* TRAILING_PARTIAL_FILL_GRACE is over.
GraceEnds(t) ==
  /\ tok[t].grace
  /\ tok' = [tok EXCEPT ![t].grace = FALSE]
  /\ UNCHANGED <<scenario, market, loading, task, trades, held, rest>>

-------------------------------------------------------------------------------
(* The event loop: the market is left, and picked again. *)

MayReload == "reload" \in scenario.faults \/ \A t \in Token : Idle(t)

StartTrading ==
  /\ market /\ MayReload
  /\ market' = FALSE /\ loading' = FALSE
  /\ tok' = [t \in Token |-> [tok[t] EXCEPT !.pos = 0]]
  /\ UNCHANGED <<scenario, task, trades, held, rest>>

MarketRoll ==
  /\ ~market /\ MayReload
  /\ market' = TRUE /\ loading' = TRUE
  /\ tok' = [t \in Token |-> Fresh]
  /\ UNCHANGED <<scenario, task, trades, held, rest>>

\* PositionsLoaded: the trails of tokens sold meanwhile go, the others start again:
\* sync_trailing_inventory_with_positions, rehydrate_trailing_from_positions_after_rest.
Rehydrated(x) ==
  IF x.pos = 0
  THEN IF x.plan > 0 THEN Cleared(x) ELSE [x EXCEPT !.arm = 0]
  ELSE [Cleared(x) EXCEPT !.arm = x.pos]

PositionsLoaded ==
  /\ loading /\ market /\ MayReload
  /\ loading' = FALSE
  /\ \E P \in SUBSET Token :
       tok' = [t \in Token |->
                LET x == Rehydrated([tok[t] EXCEPT !.pos = Higher(@, held[t])]) IN
                IF t \in P /\ x.arm > 0 THEN Promoted(x) ELSE x]
  /\ trades' = [n \in DOMAIN trades |-> [trades[n] EXCEPT !.applied = TRUE]]
  /\ UNCHANGED <<scenario, market, task, held, rest>>

-------------------------------------------------------------------------------
Next ==
  \/ \E t \in Token, atOnce \in BOOLEAN : BuyFilled(t, atOnce)
  \/ \E t \in Token : \/ LimitSell(t) \/ RestFilled(t) \/ RestCancelled(t)
                      \/ Book(t) \/ Manual(t) \/ GraceEnds(t)
  \/ \E k \in Task : \/ ExitRefused(k) \/ ExitFilled(k) \/ ExitRests(k)
                     \/ StopPosted(k) \/ StopRefused(k) \/ ManualPosted(k)
                     \/ OrderAck(k) \/ RequestTrailingArm(k) \/ TrailingExitDispatchDone(k)
                     \/ StopLossSellDone(k) \/ ManualFakSellDispatchDone(k)
  \/ \E n \in DOMAIN trades : UserChannelFill(n)
  \/ StartTrading \/ MarketRoll \/ PositionsLoaded

Spec == Init /\ [][Next]_vars

(* Every task goes on until it has reported, and the event loop handles every event. *)
Fairness ==
  \A k \in Task :
    /\ WF_vars(ExitRefused(k) \/ ExitFilled(k) \/ ExitRests(k))
    /\ WF_vars(OrderAck(k))
    /\ WF_vars(TrailingExitDispatchDone(k))

FairSpec == Spec /\ Fairness

-------------------------------------------------------------------------------
(* Properties that hold whatever the network, the exchange and the user do. *)

TypeOK ==
  /\ market \in BOOLEAN /\ loading \in BOOLEAN
  /\ tok \in [Token -> TokenState]
  /\ task \in [Task -> [kind : Kinds \cup {"none"}, pc : Points, token : Token \cup {NoToken},
                        lots : Nat, tries : Nat, trade : Nat]]
  /\ trades \in Seq([token : Token, by : {"buy", "exit", "stop", "user"}, lots : Nat,
                     applied : BOOLEAN, told : BOOLEAN])
  /\ held \in [Token -> Nat]
  /\ rest \in [Token -> [by : {"exit", "stop", "user"}, lots : Nat] \cup {NoOrder}]

\* pending_trailing_sells: "the same token_id is not enqueued while already queued or
\* in-flight", so one trip of the trail never sells the position twice.
QueuedOnce == \A t \in Token : tok[t].queue # <<>> => Len(tok[t].queue) = 1 /\ ~tok[t].in_flight

\* trailing_sell_in_flight: a token marked as being sold has a task that will report;
\* a marker left behind would switch its trail off until the next market.
InFlightBacked == \A t \in Token : tok[t].in_flight => Tasks(t, "exit") # {}

\* pending_trailing_sells, TrailingExitDispatchDone: a queued exit never asks for more
\* than the position, whatever was sold since it was queued.
QueuedWithinPosition ==
  market => \A t \in Token : \A i \in DOMAIN tok[t].queue : tok[t].queue[i] <= tok[t].pos

\* TrailingExitDispatchDone is always sent: no token stays marked for ever.
ExitReported == \A t \in Token : tok[t].in_flight ~> ~tok[t].in_flight

-------------------------------------------------------------------------------
(* Properties of the runs without a fault, or with one that does no harm to them. *)

Only(F) == scenario.faults \subseteq F

StartsAlone ==
  \A k \in Task : task[k] = Off /\ task'[k].kind = "exit" =>
    LET t == task'[k].token IN
    /\ \A j \in Task : task[j].token = t /\ task[j].kind # "buy" => task[j].pc # "post"
    /\ market => rest[t] = NoOrder

\* trailing_sell_queued_or_in_flight, try_dispatch_trailing_sell: an exit starts only
\* when nothing else is selling the same shares: no other exit, no stop loss at work or
\* resting, no SELL of the user; provided those keep out of each other's way, the
\* market is not picked again with orders out and no BUY rebuilds the trail while an
\* exit runs.  (Then the report of an exit whose fill ended the trail may take away the
\* marker of the next exit.)
ExitStartsAlone ==
  [][Only(FaultNames \ {"sells_overlap", "reload", "buy_in_exit"}) => StartsAlone]_vars

\* What a test of the ledger asks for (app.rs:5319): also when the stop loss trips while
\* an exit is queued.
StopLossOwnsExit == [][StartsAlone]_vars

\* apply_trailing_book_tick: a stop triggers once, so a trail that tripped must lead to
\* a SELL; with none queued or under way the shares left are never sold.  (A market SELL
\* of the user that is refused leaves just that behind, and so does the report of one
\* that is older than the market, next to a new one.)
TrippedExits ==
  Only(FaultNames \ {"manual_fails"}) /\ ~({"sells_overlap", "reload"} \subseteq scenario.faults) =>
    \A t \in Token : tok[t].triggered /\ held[t] > 0 =>
      tok[t].queue # <<>> \/ tok[t].in_flight \/ tok[t].manual > 0

\* refresh_buy_trailing_from_position, rearm_trailing_after_partial_sell: while nothing
\* but exits has sold, all the shares of a token are under its trail, armed or running,
\* whatever else was tried and however far its exit has come.  (A BUY booked while an
\* exit runs leaves a pending arm, which the fill of the exit clears.)
Protected ==
  Only({"manual_fails", "sells_overlap", "cancel_stop"}) /\ market =>
    \A t \in Token :
      (\A n \in DOMAIN trades : trades[n].token = t => trades[n].by \in {"buy", "exit"})
        => tok[t].arm + tok[t].plan >= tok[t].pos
=============================================================================
