------------------------------- MODULE OrderLife -------------------------------
(* One order of the user from the intent to the position a restart finds: it is priced
   and sized (OrderMath), signed for two amounts, matched by the exchange as a taker and
   then, resting, as a maker, answered, reported by the user channel and replayed from
   the REST trades (TradeRows).

   The exchange is external: it fills a taker at the price of the book and a maker at
   the maker's own price, and reports every trade as MATCHED, then as MINED and
   CONFIRMED, or as FAILED. *)
EXTENDS TradeRows

CONSTANTS
  Intents,      \* what the user, auto-trading or a stop may ask for, see Resolve
  QuirkSets     \* what the exchange may do besides, see Quirks

Quirks ==
  { "no_amounts",     \* the answer of a POST does not say what was filled
    "echoed_side",    \* a maker's leg carries the taker's side
    "no_leg_side",    \* a maker's leg carries no side
    "two_own_legs",   \* a trade fills two orders of the user
    "no_key",         \* the api key is not known to the REST reading
    "chain_fails",    \* a trade that was matched fails on the chain
    "rest_lags" }     \* the REST trades do not have the last trades yet

\* Counts are not negative, a tick is one of the four, and the book has a price.
IntentOK(i) ==
  /\ i.kind \in {"buy", "sell", "auto", "trail", "stop", "tp"}
  /\ i.token \in Pair /\ i.held \in Nat /\ i.book \in Nat /\ i.tick \in TickSizes
  /\ 0 < i.book /\ i.book < Dollar
  /\ i.kind \in {"buy", "sell", "auto"} => i.usd \in Nat
  /\ i.kind \in {"buy", "sell", "trail"} => i.slip \in Nat
  /\ i.kind \in {"trail", "stop", "tp"} => i.entry \in Nat /\ i.bps \in Nat

ASSUME OrderLifeAssumption ==
  /\ QuirkSets \subseteq SUBSET Quirks
  /\ \A i \in Intents : IntentOK(i)

VARIABLES
  quirks,
  intent,
  stage,     \* "intent", "sized", "signed", "live", "closed", "loaded"
  order,
  amounts,   \* what the order is signed for
  answer,    \* of the POST
  left,      \* shares of the order that rest, a function from the user's order ids
  listed,    \* the orders UserOpenOrdersLedger lists
  trades,    \* the exchange's trades, oldest first: their rows and the user's share
  booked,    \* fills taken from the user channel
  wallet,    \* shares the user has of each token, resting SELLs included
  pos        \* the positions of a REST load, NoValue before

vars == <<quirks, intent, stage, order, amounts, answer, left, listed, trades, booked, wallet, pos>>

Me == "me"
Mine == {"mine", "mine2"}
NoAnswer == [success |-> FALSE, status |-> "none", amounts |-> <<>>]

Init ==
  /\ quirks \in QuirkSets /\ intent \in Intents
  /\ stage = "intent" /\ order = NoOrder /\ amounts = NoAmounts /\ answer = NoAnswer
  /\ left = [o \in Mine |-> 0] /\ listed = {}
  /\ trades = <<>> /\ booked = {} /\ pos = NoValue
  /\ wallet = [t \in Pair |-> IF t = intent.token THEN intent.held ELSE 0]

-------------------------------------------------------------------------------
(* The order. *)

Sized(i) ==
  CASE i.kind = "buy"   -> MarketBuy(i.usd, i.book, i.slip, i.tick)
    [] i.kind = "sell"  -> MarketSell({i.held}, i.usd, i.book, i.slip, i.tick)
    [] i.kind = "auto"  -> IF InLastSecs(i.left, i.last) \/ EarlyBypass(i.left, i.last, i.gap, i.bps)
                           THEN AutoBuy(i.usd, i.book, i.cap, i.tick) ELSE NoOrder
    [] i.kind = "trail" -> TrailingSell(i.held, i.book, i.slip, i.entry, i.bps, i.tick)
    [] i.kind = "stop"  -> StopLossSell({i.held}, {i.entry}, 0, i.book, i.bps, i.tick)
    [] i.kind = "tp"    -> TakeProfitSell(i.held, i.entry, i.bps, i.tick)

Resolve ==
  /\ stage = "intent"
  /\ order' = Sized(intent)
  /\ stage' = IF order' = NoOrder THEN "closed" ELSE "sized"
  /\ UNCHANGED <<quirks, intent, amounts, answer, left, listed, trades, booked, wallet, pos>>

\* place_order: two positive amounts, or no order at all.
Sign ==
  /\ stage = "sized"
  /\ amounts' = Amounts(order)
  /\ stage' = IF 0 \in {amounts'[1], amounts'[2]} THEN "closed" ELSE "signed"
  /\ UNCHANGED <<quirks, intent, order, answer, left, listed, trades, booked, wallet, pos>>

\* Of the amounts: the lots, in 1/1000 shares, and the dollars.
SignedShares == Lot * (IF order.side = "BUY" THEN amounts[2] ELSE amounts[1])
SignedDollars == IF order.side = "BUY" THEN amounts[1] ELSE amounts[2]

-------------------------------------------------------------------------------
(* The exchange. *)

Signed(side, q) == IF side = "BUY" THEN q ELSE -q
Sibling(token) == CHOOSE t \in Pair : t # token

\* A share in a trade: what it does to the wallet and what it costs the user.
Share_(o, side, q, cost) == [order |-> o, asset |-> intent.token, side |-> side, qty |-> q, cost |-> cost]

Row(side, price, asset, taker, role, q, dollars, legs) ==
  [id |-> Len(trades) + 1, status |-> "MATCHED", side |-> side, price |-> price, asset |-> asset,
   taker |-> taker, role |-> role, size |-> q, amounts |-> dollars, legs |-> legs]

Leg(o, owner, q, asset, price, side) ==
  [order |-> o, owner |-> owner, qty |-> q, asset |-> asset, price |-> price, side |-> side]

Moved(side, q) == [wallet EXCEPT ![intent.token] = @ + Signed(side, q)]

\* The book the order meets is the one it was sized with.
Crosses == IF order.side = "BUY" THEN SignedDollars >= SignedShares * intent.book
           ELSE SignedDollars <= SignedShares * intent.book

\* POST /order fills q at once; a limit order then rests, a FAK does not.  A SELL of more
\* than the wallet has is refused.
Backed == order.side = "SELL" => SignedShares <= wallet[intent.token]
Post(q) ==
  /\ stage = "signed"
  /\ q # 0 => Crosses /\ Backed
  /\ LET dollars == q * intent.book
         rests == order.type # "FAK" /\ q < SignedShares /\ Backed
         status == CASE rests -> "live"
                     [] ~rests /\ q > 0 -> "matched"
                     [] ~rests /\ q = 0 -> "none"
         told == IF order.side = "BUY" THEN <<dollars, q>> ELSE <<q, dollars>>
     IN  /\ answer' = [success |-> status # "none", status |-> status,
                       amounts |-> IF q = 0 \/ "no_amounts" \in quirks THEN <<>> ELSE told]
         /\ left' = [left EXCEPT !["mine"] = IF rests THEN SignedShares - q ELSE 0]
         /\ listed' = IF rests THEN {"mine"} ELSE {}
         /\ stage' = IF rests THEN "live" ELSE "closed"
         /\ IF q = 0 THEN UNCHANGED <<trades, wallet>>
            ELSE /\ trades' = Append(trades,
                      [row |-> Row(order.side, intent.book, intent.token, "mine", "TAKER", q,
                                   IF order.side = "BUY" THEN <<dollars, q>> ELSE <<>>, <<>>),
                       mine |-> {Share_("mine", order.side, q, dollars)}])
                 /\ wallet' = Moved(order.side, q)
  /\ UNCHANGED <<quirks, intent, order, amounts, booked, pos>>

LegSide(side, taker) ==
  CASE "no_leg_side" \in quirks -> NoValue
    [] "no_leg_side" \notin quirks /\ "echoed_side" \in quirks -> taker
    [] "no_leg_side" \notin quirks /\ "echoed_side" \notin quirks -> side

\* A taker meets q of the resting order, on its own token or (a mint or a merge) on the
\* sibling with the same side; another maker's leg may come first, of the same token or,
\* with a taker of the sibling, of the sibling on the other side.  Filled up, the order
\* leaves the ledger before the trade is reported.
MakerMatch(q, mint, crowd) ==
  /\ stage = "live" /\ q \in 1..left["mine"] /\ Len(trades) < 2
  /\ LET side  == order.side
         price == SignedDollars \div SignedShares
         takes == IF mint THEN side ELSE Opposite(side)
         token == IF mint THEN Sibling(intent.token) ELSE intent.token
         own   == Leg("mine", Me, q, intent.token, price, LegSide(side, takes))
         own2  == Leg("mine2", Me, q, intent.token, price, LegSide(side, takes))
         met   == IF mint THEN Dollar - price ELSE price
         other == Leg("theirs", "them", 2 * q, token, met, LegSide(Opposite(takes), takes))
         legs  == CASE crowd = "alone" -> <<own>> [] crowd = "other" -> <<other, own>>
                    [] crowd = "own" -> <<own2, own>>
         mine  == {Share_("mine", side, q, q * price)}
                    \cup (IF crowd = "own" THEN {Share_("mine2", side, q, q * price)} ELSE {})
     IN  /\ crowd = "own" => "two_own_legs" \in quirks /\ side = "BUY"
         /\ trades' = Append(trades,
              [row |-> Row(takes, met, token, "theirs2", "MAKER",
                           MapThenSumSet(LAMBDA i : legs[i].qty, DOMAIN legs), <<>>, legs),
               mine |-> mine])
         /\ wallet' = Moved(side, q * Cardinality(mine))
         /\ left' = [left EXCEPT !["mine"] = @ - q]
  /\ stage' = IF left'["mine"] = 0 THEN "closed" ELSE "live"
  /\ listed' = {o \in Mine : left'[o] > 0}
  /\ UNCHANGED <<quirks, intent, order, amounts, answer, booked, pos>>

Taken == UNION {trades[i].mine : i \in DOMAIN trades}

-------------------------------------------------------------------------------
(* What the program makes of it. *)

Plausible(said, asked) == said > 0 /\ (asked >= 100 => said >= 1)

\* matched_buy_fill_shares_and_avg_price, matched_sell_fill_shares_and_avg_price
Said == IF answer.amounts = <<>> THEN 0
        ELSE IF order.side = "BUY" THEN answer.amounts[2] ELSE answer.amounts[1]

\* fill_for_position_ack and fak_fill_for_position_ack: the shares booked, 0 for none.
\* mutant of Acked
AckedWhole == IF answer.status \in {"matched", "delayed", "live"} THEN order.size ELSE 0
Acked ==
  CASE Said # 0 /\ (order.type = "FAK" \/ Plausible(Said, order.size)) -> Said
    [] OTHER -> IF answer.status \in {"matched", "delayed"} \/ (answer.success /\ order.type = "FAK")
                THEN order.size ELSE 0

\* take_profit_fill_for_market_buy: what the take-profit of a BUY is for.
TakeProfitShares ==
  CASE Said # 0 /\ Plausible(Said, order.size) -> Said
    [] OTHER -> IF answer.status # "live" /\ (answer.success \/ answer.status \in {"matched", "delayed"})
                THEN order.size ELSE 0

\* The exchange gets on with trade i.
Progress(i, status) ==
  /\ stage # "loaded"
  /\ <<trades[i].row.status, status>> \in {<<"MATCHED", "MINED">>, <<"MINED", "CONFIRMED">>, <<"MATCHED", "FAILED">>}
  /\ status = "FAILED" => "chain_fails" \in quirks
  /\ trades' = [trades EXCEPT ![i].row.status = status]
  /\ wallet' = IF status # "FAILED" THEN wallet
               ELSE [wallet EXCEPT ![intent.token] =
                       @ - MapThenSumSet(LAMBDA f : Signed(f.side, f.qty), trades[i].mine)]
  /\ UNCHANGED <<quirks, intent, stage, order, amounts, answer, left, listed, booked, pos>>

\* run_session: a frame with trade i.  Its order event may be in the frame, so that the
\* sides of before it still have the order.  UserTradeSync books an id once.
Frame(i, together) ==
  /\ stage # "loaded"
  /\ LET sides == [o \in listed \cup (IF together THEN {"mine"} ELSE {}) |-> order.side]
         fills == {f \in WsFills(trades[i].row, listed, sides, Me) :
                     f.asset \in Pair /\ \A g \in booked : g.id # f.id}
     IN  fills # {} /\ booked' = booked \cup fills
  /\ UNCHANGED <<quirks, intent, stage, order, amounts, answer, left, listed, trades, wallet, pos>>

OpenOrders == [o \in {p \in Mine : left[p] > 0} |->
                 [side |-> order.side, asset |-> intent.token, left |-> left[o]]]

\* What the user held before the order, bought in one trade at 0.50.
Past == IF intent.held = 0 THEN <<>>
        ELSE <<[id |-> 0, status |-> "CONFIRMED", side |-> "BUY", price |-> 5000, asset |-> intent.token,
                taker |-> "past", role |-> "TAKER", size |-> intent.held,
                amounts |-> <<5000 * intent.held, intent.held>>, legs |-> <<>>]>>

\* The program is restarted, and the load task of the market has trades, open orders and
\* balances, then hydrate_positions_from_trades.  A row may be listed once for each status; the Data
\* API may have the position of the token, or none.
Load(twice, seen, api) ==
  /\ stage \in {"live", "closed"}
  /\ \A i \in DOMAIN trades : trades[i].row.status # "MATCHED"
  /\ seen # Len(trades) => "rest_lags" \in quirks
  /\ LET rows == [i \in 1..seen |-> trades[i].row]
         data(t) == IF api THEN [shares |-> wallet[t], cost |-> 5000 * wallet[t]] ELSE Flat
         key == IF "no_key" \in quirks THEN NoValue ELSE Me
         fills == Replayed(Past \o rows \o (IF twice THEN rows ELSE <<>>), OpenOrders, key)
     IN  pos' = [t \in Pair |->
                   Merged(Position(fills, t), wallet[t] - Escrow(OpenOrders, t), Escrow(OpenOrders, t), data(t))]
  /\ stage' = "loaded" /\ booked' = {}
  /\ UNCHANGED <<quirks, intent, order, amounts, answer, left, listed, trades, wallet>>

Next ==
  \/ Resolve \/ Sign
  \/ stage = "signed" /\ \E q \in {0, SignedShares \div 2, SignedShares} : Post(q)
  \/ stage = "live" /\ \E q \in {left["mine"] \div 2, left["mine"]}, mint \in BOOLEAN,
                          crowd \in {"alone", "other", "own"} : MakerMatch(q, mint, crowd)
  \/ \E i \in DOMAIN trades : \/ \E status \in {"MINED", "CONFIRMED", "FAILED"} : Progress(i, status)
                              \/ \E together \in BOOLEAN : Frame(i, together)
  \/ \E twice, api \in BOOLEAN, seen \in 0..Len(trades) : Load(twice, seen, api)

Spec == Init /\ [][Next]_vars

-------------------------------------------------------------------------------
(* Properties. *)

HasAmounts == amounts[1] > 0 /\ amounts[2] > 0
SignedFor(side, type) == HasAmounts /\ order.side = side /\ order.type = type

\* The exchange takes a limit order only if dollars over shares, and not the price the
\* order was made for, is a multiple of the market's tick: snap_limit_price_micros and
\* amounts_for agree, after every clamp, on the one in the market's range that is nearest,
\* as neither of its neighbours is nearer.
MarketPrice(p, tick) == p % tick = 0 /\ p \in 100..9900
Apart(a, b) == Max({a - b, b - a})
TickRule ==
  HasAmounts /\ order.type = "GTD" =>
    LET p == SignedDollars \div SignedShares
    IN  /\ SignedDollars = SignedShares * p /\ MarketPrice(p, order.tick)
        /\ \A other \in {p - order.tick, p + order.tick} :
             MarketPrice(other, order.tick) => Apart(p, order.price) <= Apart(other, order.price)

\* What a market order is signed for is not worse than its limit by more than the tick
\* and the cent of its rounding, and meets the book to within a cent.
LimitKept ==
  /\ SignedFor("BUY", "FAK") =>
       /\ SignedDollars + Cent >= SignedShares * order.price
       /\ SignedDollars <= SignedShares * (order.price + 2 * order.tick) + 2 * Cent
  /\ SignedFor("SELL", "FAK") =>
       /\ SignedDollars <= Max({SignedShares * order.price, Cent})
       /\ SignedDollars + 2 * Cent >= SignedShares * (order.price - 2 * order.tick)

\* A BUY spends what was asked for, to a cent, and more only for its limit being over the
\* price it was sized at, the rounding of that limit and one lot.
NotionalKept ==
  HasAmounts /\ order.side = "BUY" =>
    /\ SignedDollars + 2 * Cent >= Cent * order.notional
    /\ SignedDollars <= Max({Cent * order.notional, order.size * order.price})
                        + SignedShares * 2 * order.tick + Lot * order.price + 2 * Cent

\* A SELL of the position leaves less than two lots of it, and never asks for more.
WholePosition ==
  HasAmounts /\ order.side = "SELL" /\ intent.held > 0 =>
    /\ SignedShares <= intent.held
    /\ intent.held - SignedShares < 2 * Lot

\* The two amounts that resolve_market_order, the automatic BUY and SELLs and amounts_for
\* arrive at through five roundings are those of the intent, at a price of the market.
AsAsked == TickRule /\ LimitKept /\ NotionalKept /\ WholePosition

\* A take-profit (fees.rs) that is hit earns its basis points after both taker's fees, but
\* for the half tick its price may be rounded down by, unless there is no higher price.
TakeProfitEarns ==
  HasAmounts /\ order.kind = "tp" =>
    LET sold == SignedDollars \div SignedShares
        e == ClampProb(intent.entry)
    IN  \/ Net(sold + order.tick \div 2) >= e * Dollar + Fee(e) + intent.bps * e
        \/ sold + order.tick > 9900

\* What the answer of a POST books (fill_for_position_ack), and what a take-profit is
\* posted for, is what the POST filled: a resting limit order books nothing, a partial
\* fill its part.
FilledAtOnce == MapThenSumSet(LAMBDA f : f.qty,
                  UNION {trades[i].mine : i \in {j \in DOMAIN trades : trades[j].row.role = "TAKER"}})
AckIsFill ==
  answer.success /\ "no_amounts" \notin quirks =>
    /\ Acked = FilledAtOnce
    /\ order.side = "BUY" => TakeProfitShares = FilledAtOnce

\* Of a trade that counts, try_parse_user_channel_trade takes the user's own leg, with its
\* order, token and shares, whoever else is in the trade, and, if legs say their maker's
\* side or the order is still listed, its side.
RowsRight ==
  /\ \A f \in booked : \E s \in trades[f.id].mine :
       /\ <<s.order, s.asset, s.qty>> = <<f.order, f.asset, f.qty>>
       /\ {"echoed_side", "no_leg_side"} \cap quirks = {} => s.side = f.side
  /\ "two_own_legs" \notin quirks =>
       \A i \in DOMAIN trades : CountsAsFill(trades[i].row.status) =>
         WsFills(trades[i].row, listed, <<>>, Me) # {}

\* A restart (hydrate_positions_from_trades) finds the shares the wallet has, resting SELLs
\* included: never fewer, and no more once the REST trades are complete and say whose leg
\* is whose.
PositionIsWallet ==
  pos # NoValue => \A t \in Pair :
    /\ pos[t].shares >= wallet[t]
    /\ {"no_leg_side", "two_own_legs", "no_key", "rest_lags"} \cap quirks = {} =>
         pos[t].shares = wallet[t]
===============================================================================
