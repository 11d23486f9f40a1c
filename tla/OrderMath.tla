------------------------------ MODULE OrderMath ------------------------------
(* From an intent to the two amounts an order is signed with: the price and size of
   each kind of order (app.rs, main.rs, fees.rs, stop_loss.rs) and amounts_for of
   trading.rs.

   Abstractions: prices are whole 1/10000 of a dollar and shares whole 1/1000, so
   their product, an amount of dollars, is in 1/10^7; a quotient of two of them is
   rounded up to the next unit.  Floats are exact, but for the one step whose error
   decides the result: a whole number of cents times 100.0, see Below and Above. *)
EXTENDS Integers, FiniteSets, FiniteSetsExt

CONSTANTS
  MinShares,       \* MIN_LIMIT_ORDER_SHARES, in 1/1000
  BumpLimit,       \* how far the share ticks of a BUY are searched (50000 in the code)
  Below, Above     \* the c for which the float c/100.0 * 100.0 is less, or more, than c

ASSUME OrderMathAssumption == MinShares \in Nat /\ BumpLimit \in Nat
ASSUME FloatMisses == Below \subseteq Nat \ {0} /\ Above \subseteq Nat \ {0}

Dollar == 10000                \* the unit of prices
Share  == 1000                 \* the unit of shares
Cent   == Share * (Dollar \div 100)

CeilDiv(a, b) == (a + b - 1) \div b
Clamp(x, low, high) == Min({Max({x, low}), high})
Opposite(side) == IF side = "BUY" THEN "SELL" ELSE "BUY"
NoOrder == [kind |-> "none"]

\* clamp_prob
ClampProb(p) == Clamp(p, 100, 9900)

-------------------------------------------------------------------------------
(* Rounding.  c/100 is not a binary fraction: floor and ceil of c/100 * 100.0 miss c by
   one where the product is in Below or Above. *)

\* round_down_f64(x, 2) and round_up_f64(x, 2), in hundredths: unit is what a hundredth is of x.
DownToHundredth(x, unit) ==
  x \div unit - (IF x % unit = 0 /\ x \div unit \in Below THEN 1 ELSE 0)
UpToHundredth(x, unit) ==
  CeilDiv(x, unit) + (IF x % unit = 0 /\ x \div unit \in Above THEN 1 ELSE 0)

\* usdc_human_to_wire_micros: the cents of a whole number of cents.
WireCents(c) == c - (IF c \in Below THEN 1 ELSE 0)

\* The ticks a market may have (OrderMinTickSize).
TickSizes == {1000, 100, 10, 1}

\* round_cfg_from_tick gives the decimals of a price; all sizes have two.
PriceUnit(tick) == IF tick \in TickSizes THEN tick ELSE 100

\* snap_limit_price_micros, snap_limit_order_price_to_tick
\* mutant of SnapPrice
SnapPriceToNearest(price, tick) == tick * ((ClampProb(price) + tick \div 2) \div tick)
SnapPrice(price, tick) ==
  LET n == Max({(ClampProb(price) + tick \div 2) \div tick, 1})
      least == CeilDiv(100, tick)
      most  == Max({9900 \div tick, 1})
  IN  tick * Clamp(n, Min({least, most}), most)

\* The price a FAK is signed for: up for a BUY and down for a SELL.
\* mutant of BookPrice
BookPriceInward(side, price, tick) == (price \div PriceUnit(tick)) * PriceUnit(tick)
BookPrice(side, price, tick) ==
  LET unit == PriceUnit(tick)
      n == CASE tick = 100 /\ side = "BUY"  -> UpToHundredth(price, unit)
             [] tick = 100 /\ side = "SELL" -> DownToHundredth(price, unit)
             [] tick # 100 /\ side = "BUY"  -> CeilDiv(price, unit)
             [] tick # 100 /\ side = "SELL" -> price \div unit
  IN  n * unit

-------------------------------------------------------------------------------
(* amounts_for: what the maker gives and what the taker gives, <<maker, taker>>.
   Shares are in hundredths, dollars in 1/10^7. *)
NoAmounts == <<0, 0>>
Lot == Share \div 100
Lots(size) == size \div Lot

\* The dollars a BUY has to spend at least: what was asked for, else size at the price.
Notional(order, price) ==
  Cent * (IF order.notional # 0 THEN WireCents(order.notional)
          ELSE UpToHundredth(order.size * price, Cent))

\* The fewest lots, from the size asked for, that spend the notional.
Bumped(order, Spent(_), least) ==
  LET first == Max({CeilDiv(order.size, Lot), 1})
      enough == {k \in first..(first + BumpLimit) : Spent(k) >= least}
  IN  IF enough = {} THEN 0 ELSE Min(enough)

\* get_order_raw_amounts_official: a limit order is exact, lots times the snapped price.
LimitAmounts(order) ==
  LET price == PriceUnit(order.tick) * ((order.price + PriceUnit(order.tick) \div 2) \div PriceUnit(order.tick))
      Spent(k) == k * Lot * price
      k == Bumped(order, Spent, Notional(order, price))
  IN  CASE order.side = "BUY"  -> IF k = 0 THEN NoAmounts ELSE <<Spent(k), k>>
        [] order.side = "SELL" ->
             IF Lots(order.size) = 0 THEN NoAmounts ELSE <<Lots(order.size), Spent(Lots(order.size))>>

\* A FAK: dollars in whole cents, up for a BUY and down for a SELL, though not to none.
\* mutant of BookAmounts
BookAmountsRoundedDown(order) ==
  LET price == BookPrice(order.side, order.price, order.tick)
      k == Max({CeilDiv(order.size, Lot), 1})
  IN  IF order.side = "BUY" THEN <<Cent * ((k * Lot * price) \div Cent), k>>
      ELSE <<CeilDiv(order.size, Lot), Cent * Max({(Lots(order.size) * Lot * price) \div Cent, 1})>>
BookAmounts(order) ==
  LET price == BookPrice(order.side, order.price, order.tick)
      Spent(k) == Cent * UpToHundredth(k * Lot * price, Cent)
      enough == Bumped(order, Spent, Notional(order, price))
      k == IF enough = 0 THEN Max({CeilDiv(order.size, Lot), 1}) + BumpLimit ELSE enough
      sold == DownToHundredth(order.size, Lot)
      got == DownToHundredth(sold * Lot * price, Cent)
  IN  CASE order.side = "BUY"  -> <<Cent * WireCents(Spent(k) \div Cent), k>>
        [] order.side = "SELL" ->
             IF sold <= 0 \/ price <= 0 THEN NoAmounts
             ELSE <<sold, Cent * Max({WireCents(Max({got, 1})), 1})>>

\* amounts_for, after place_order has snapped the price of a limit order.
Amounts(order) ==
  IF order.type = "FAK" THEN BookAmounts(order)
  ELSE LimitAmounts([order EXCEPT !.price = SnapPrice(@, order.tick)])

-------------------------------------------------------------------------------
(* The orders.  basis points are 1/10000. *)
Up(p, bps) == CeilDiv(p * (10000 + bps), 10000)
Down(p, bps) == (p * (10000 - bps)) \div 10000

\* resolve_market_order, BUY: usd in cents
MarketBuy(usd, ask, slip, tick) ==
  [kind |-> "buy", side |-> "BUY", type |-> "FAK", tick |-> tick, notional |-> usd,
   price |-> ClampProb(Up(ask, slip)), size |-> Max({CeilDiv(usd * Cent, ask), Lot})]

\* resolve_market_order, SELL: the largest of the three counts of the position, if any.
MarketSell(counts, usd, bid, slip, tick) ==
  LET inventory == Max(counts \cup {0}) IN
  [kind |-> "sell", side |-> "SELL", type |-> "FAK", tick |-> tick, notional |-> 0,
   price |-> ClampProb(Down(bid, slip)),
   size |-> IF inventory > 0 THEN inventory ELSE Max({CeilDiv(usd * Cent, bid), Lot})]

\* CLOB_ORDER_REMAINING_DUST
Dust == 5
\* trailing_exit_fak_sell_is_dust
IsDust(shares, price) == shares <= Dust \/ shares * price < Cent
\* trailing_exit_sell_meets_min_gross_profit_bps
MeetsMinProfit(floor, entry, bps) ==
  bps = 0 \/ entry = 0 \/ floor * 10000 >= entry * (10000 + bps)

\* resolve_trailing_sell and the checks of run_trailing_exit_fak_sell
TrailingSell(held, bid, slip, entry, bps, tick) ==
  LET price == ClampProb(Down(bid, slip)) IN
  IF IsDust(held, price) \/ ~MeetsMinProfit(price, entry, bps) THEN NoOrder
  ELSE [kind |-> "trail", side |-> "SELL", type |-> "FAK", tick |-> tick, notional |-> 0,
        price |-> price, size |-> held]

\* stop_loss_triggered
StopTriggered(ref, bid, bps) == bps # 0 /\ ref > 0 /\ (ref - bid) * 10000 >= bps * ref
\* stop_loss_reference_price: the dearest BUY, else the average entry
StopReference(buys, avg) == IF buys # {} THEN Max(buys) ELSE avg

\* stop_loss_sell_candidate_for_outcome, stop_loss_sell_limit_price
StopLossSell(counts, buys, avg, bid, bps, tick) ==
  LET shares == Max(counts \cup {0}) IN
  IF shares < MinShares \/ ~StopTriggered(StopReference(buys, avg), bid, bps) THEN NoOrder
  ELSE [kind |-> "stop", side |-> "SELL", type |-> "GTD", tick |-> tick, notional |-> 0,
        price |-> ClampProb(bid - 100), size |-> shares]

\* autotrading_buy_time_window_allows; left is the time to the close, last is 0 if unset
InLastSecs(left, last) == last = 0 \/ (left > 0 /\ left <= last)
\* autotrading_buy_last_secs_blocked_only_too_early, autotrading_buy_early_ptb_gap_bypasses
EarlyBypass(left, last, gap, threshold) ==
  last # 0 /\ left > last /\ threshold # 0 /\ gap >= threshold

\* try_spawn_autotrading_buy and resolve_autotrading_limit_buy_at_signal; cap is 0 if unset
AutoBuy(usd, ask, cap, tick) ==
  LET price == ClampProb(ask) IN
  IF (cap # 0 /\ price > cap) \/ usd * Cent < MinShares * price THEN NoOrder
  ELSE [kind |-> "auto", side |-> "BUY", type |-> "GTD", tick |-> tick, notional |-> usd,
        price |-> price, size |-> CeilDiv(usd * Cent, price)]

-------------------------------------------------------------------------------
(* fees.rs: the taker's fee of one share is 0.072 p (1 - p), here in 1/10^8 dollars,
   and the take-profit price the root of net proceeds = target, rounded up. *)
Fee(p) == (72 * p * (Dollar - p)) \div 1000
Net(p) == p * Dollar - Fee(p)
\* mutant of TakeProfitPrice
TakeProfitPriceBeforeFees(entry, bps) == ClampProb(Up(entry, bps))
TakeProfitPrice(entry, bps) ==
  LET e == ClampProb(entry)
      target == e * Dollar + Fee(e) + bps * e
      reach == {c \in 1..99 : Net(100 * c) >= target}
      fine == IF reach = {} THEN {}
              ELSE LET c == 100 * Min(reach) IN {p \in (c - 99)..c : Net(p) >= target}
  IN  IF fine = {} THEN 9900 ELSE ClampProb(Min(fine))

TakeProfitSell(held, entry, bps, tick) ==
  LET price == TakeProfitPrice(entry, bps) IN
  IF held < MinShares \/ price >= 9900 THEN NoOrder
  ELSE [kind |-> "tp", side |-> "SELL", type |-> "GTD", tick |-> tick, notional |-> 0,
        price |-> price, size |-> held]
===============================================================================
