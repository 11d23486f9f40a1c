------------------------------ MODULE TradeRows ------------------------------
(* What the program takes a trade row for: the user channel's reading
   (try_parse_user_channel_trade), the REST reading (rest_trade_user_fill and the
   replay of hydrate_positions_from_trades) and the merge with the wallet's balance.

   A row is [id, status, side, price, asset, taker, role, size, amounts, legs]: side,
   price and asset are the taker's; amounts is <<dollars, shares>> or <<>>; a leg is
   [order, owner, qty, asset, price, side] with side and asset possibly NoValue.
   Abstractions: ids, owners and tokens are canonical (norm_order_id_key,
   clob_asset_ids_match); numbers parse and are positive; an average price is kept as
   the cost of the position. *)
EXTENDS OrderMath, Sequences, SequencesExt

CONSTANTS
  NoValue,
  Pair      \* the two outcome tokens of the market

\* No value is None, which no side, role or token is.
ASSUME TradeRowsAssumption == NoValue \notin Pair \cup {"BUY", "SELL", "TAKER", "MAKER"}

\* clob_trade_status_counts_as_fill, is_valid_fill
CountsAsFill(status) == status \in {"MINED", "CONFIRMED"}

LegAsset(t, leg) == IF leg.asset = NoValue THEN t.asset ELSE leg.asset
Numbers(s, P(_)) == {i \in DOMAIN s : P(s[i])}
Only(S) == CHOOSE i \in S : TRUE

-------------------------------------------------------------------------------
(* The user channel.  known is the orders UserOpenOrdersLedger lists once it has
   taken the frame's order events, sides a function from those it listed before to
   their sides, key the L2 api key. *)

\* The leg that is taken for the user's: a listed order's, else the one leg of the
\* owner, else the only leg.  0 if there is none.
\* mutant of WsLeg
WsFirstLeg(t, known, key) == IF t.legs = <<>> THEN 0 ELSE 1
WsLeg(t, known, key) ==
  LET Listed(leg) == leg.order \in known
      Owned(leg)  == leg.owner = key
      listed == Numbers(t.legs, Listed)
      owned  == Numbers(t.legs, Owned)
  IN  CASE listed # {} -> Min(listed)
        [] listed = {} /\ Cardinality(owned) = 1 -> Only(owned)
        [] listed = {} /\ Cardinality(owned) # 1 -> IF Len(t.legs) = 1 THEN 1 ELSE 0

\* The side of the fill: the listed order's, else the leg's, else against the taker.
WsSide(t, sides, order, side, maker) ==
  CASE order \in DOMAIN sides -> sides[order]
    [] order \notin DOMAIN sides /\ ~maker -> t.side
    [] order \notin DOMAIN sides /\ maker  -> IF side # NoValue THEN side ELSE Opposite(t.side)

WsMakerFill(t, sides, leg) ==
  [id |-> t.id, order |-> leg.order, asset |-> LegAsset(t, leg), qty |-> leg.qty,
   side |-> WsSide(t, sides, leg.order, leg.side, TRUE)]
WsTakerFill(t, sides) ==
  [id |-> t.id, order |-> t.taker, asset |-> t.asset, qty |-> t.size,
   side |-> WsSide(t, sides, t.taker, NoValue, FALSE)]

\* try_parse_user_channel_trade: the set of fills a row stands for, none or one.
WsFills(t, known, sides, key) ==
  CASE ~CountsAsFill(t.status) \/ t.role = NoValue -> {}
    [] CountsAsFill(t.status) /\ t.role = "TAKER" -> {WsTakerFill(t, sides)}
    [] CountsAsFill(t.status) /\ t.role = "MAKER" ->
         LET i == WsLeg(t, known, key) IN
         IF i = 0 THEN {} ELSE {WsMakerFill(t, sides, t.legs[i])}

-------------------------------------------------------------------------------
(* The REST trades.  open is HydrateOrderSnap: a function from the ids of the open
   orders to [side, asset, left]; key is NoValue while the api key is not known. *)

\* Position::add: a BUY without an amount of dollars costs its price and a taker's fee.
Cost(qty, price) == qty * price + qty * (Fee(price) \div Dollar)

InMarket(t, leg) == LegAsset(t, leg) \in Pair
OnTop(t, leg) == LegAsset(t, leg) = t.asset

\* No leg is on a token of the market.
ForeignLeg(t) ==
  LET On(leg) == OnTop(t, leg)
      on == Numbers(t.legs, On)
  IN  IF on # {} THEN Min(on) ELSE IF Len(t.legs) = 1 THEN 1 ELSE 0

\* maker_leg_for_trade_row: each test settles it when one candidate passes.
\* mutant of RestLeg
RestOffTopLeg(t, open, key) ==
  LET Off(leg) == InMarket(t, leg) /\ ~OnTop(t, leg)
      off == Numbers(t.legs, Off)
  IN  IF off # {} THEN Min(off) ELSE IF t.legs = <<>> THEN 0 ELSE 1
RestLeg(t, open, key) ==
  LET Candidate(leg) == InMarket(t, leg)
      Listed(leg) == Candidate(leg) /\ leg.order \in DOMAIN open
      Owned(leg)  == Candidate(leg) /\ key # NoValue /\ leg.owner = key
      Off(leg)    == Candidate(leg) /\ ~OnTop(t, leg)
      On(leg)     == Candidate(leg) /\ OnTop(t, leg)
      tests == <<Numbers(t.legs, Listed), Numbers(t.legs, Owned), Numbers(t.legs, Candidate),
                 Numbers(t.legs, Off), Numbers(t.legs, On)>>
      settled == {i \in DOMAIN tests : Cardinality(tests[i]) = 1}
  IN  CASE tests[3] = {} -> ForeignLeg(t)
        [] tests[3] # {} /\ settled # {} -> Only(tests[Min(settled)])
        [] tests[3] # {} /\ settled = {} -> Min(IF tests[5] # {} THEN tests[5] ELSE tests[3])

\* The side of a maker's fill: the open order's; on the taker's own token it is never
\* the taker's side (rest_maker_side_sanitize_taker_echo).
RestSide(t, open, leg) ==
  LET said == IF leg.side # NoValue THEN leg.side ELSE Opposite(t.side) IN
  CASE leg.order \in DOMAIN open -> open[leg.order].side
    [] leg.order \notin DOMAIN open /\ OnTop(t, leg)  -> Opposite(t.side)
    [] leg.order \notin DOMAIN open /\ ~OnTop(t, leg) -> said

RestMakerFill(t, open, leg) ==
  [id |-> t.id, qty |-> leg.qty, side |-> RestSide(t, open, leg),
   cost |-> Cost(leg.qty, IF leg.price = NoValue THEN t.price ELSE leg.price),
   asset |-> IF leg.order \in DOMAIN open THEN open[leg.order].asset ELSE LegAsset(t, leg)]

\* taker_trade_fill_shares prefers the amount of shares, hydrate_apply_position_fill the
\* amount of dollars of a BUY, when the row has them.
RestTakerFill(t, open) ==
  LET side  == IF t.taker \in DOMAIN open THEN open[t.taker].side ELSE t.side
      asset == IF t.taker \in DOMAIN open THEN open[t.taker].asset ELSE t.asset
      qty   == IF t.amounts = <<>> THEN t.size ELSE t.amounts[2]
  IN  [id |-> t.id, qty |-> qty, side |-> side, asset |-> asset,
       cost |-> IF side = "BUY" /\ t.amounts # <<>> THEN t.amounts[1] ELSE Cost(qty, t.price)]

\* Without a leg: the whole row, against the taker.
SparseFill(t) ==
  [id |-> t.id, qty |-> t.size, side |-> Opposite(t.side), asset |-> t.asset, cost |-> Cost(t.size, t.price)]

\* rest_trade_user_fill
RestFill(t, open, key) ==
  CASE t.role # "MAKER" -> RestTakerFill(t, open)
    [] t.role = "MAKER" ->
         LET i == RestLeg(t, open, key) IN
         IF i = 0 THEN SparseFill(t) ELSE RestMakerFill(t, open, t.legs[i])

\* trade_touches_market_tokens
Touches(t) ==
  \/ t.asset \in Pair
  \/ t.role = "MAKER" /\ \E i \in DOMAIN t.legs : InMarket(t, t.legs[i])

-------------------------------------------------------------------------------
(* The replay.  A position is [shares, cost]. *)
Flat == [shares |-> 0, cost |-> 0]

\* Position::apply_fill: a SELL takes shares out at the average cost.
Apply(pos, f) ==
  CASE f.side = "BUY"  -> [shares |-> pos.shares + f.qty, cost |-> pos.cost + f.cost]
    [] f.side = "SELL" ->
         LET sold == Min({f.qty, pos.shares}) IN
         IF pos.shares = sold THEN Flat
         ELSE [shares |-> pos.shares - sold,
               cost |-> pos.cost - (pos.cost \div pos.shares) * sold]

\* hydrate_positions_from_trades: the rows that count, oldest first, each id once.
\* mutant of Replayed
ReplayedTwice(rows, open, key) ==
  LET Counts(t) == CountsAsFill(t.status) /\ t.role # NoValue /\ Touches(t)
      Fill(t) == RestFill(t, open, key)
  IN  SelectSeq([i \in DOMAIN SelectSeq(rows, Counts) |-> Fill(SelectSeq(rows, Counts)[i])],
                LAMBDA f : f.asset \in Pair)
Replayed(rows, open, key) ==
  LET Counts(t) == CountsAsFill(t.status) /\ t.role # NoValue /\ Touches(t)
      counted == SelectSeq(rows, Counts)
      fills == SelectSeq([i \in DOMAIN counted |-> RestFill(counted[i], open, key)],
                         LAMBDA f : f.asset \in Pair)
      first == {i \in DOMAIN fills : \A j \in 1..(i - 1) : fills[j].id # fills[i].id}
  IN  [n \in 1..Cardinality(first) |->
         fills[CHOOSE i \in first : Cardinality({j \in first : j <= i}) = n]]

Position(fills, token) ==
  FoldLeft(LAMBDA pos, f : IF f.asset = token THEN Apply(pos, f) ELSE pos, Flat, fills)

\* merge_chain_balance: the larger of the replay and the wallet with what resting SELLs
\* escrow, else what the Data API says; data is its [shares, cost], Flat if it has none.
\* The Data API's average is taken for a position without one, or that is much larger
\* than the replay, when the API's size is within 5 per cent.
Near(a, b) == 20 * (Max({a, b}) - Min({a, b})) <= Max({a, b})
Merged(replay, wallet, escrow, data) ==
  LET held == wallet + escrow
      shares == CASE replay.shares > 0 -> Max({replay.shares, held})
                  [] replay.shares = 0 /\ held > 0 -> held
                  [] replay.shares = 0 /\ held = 0 -> data.shares
      basis == data.shares > 0 /\ data.cost > 0 /\ Near(shares, data.shares)
      gap == shares - replay.shares
      far == gap > 20 /\ 200 * gap > Max({shares, replay.shares})
  IN  [shares |-> shares,
       cost |-> CASE shares = 0 -> 0
                  [] shares > 0 /\ basis /\ (replay.cost = 0 \/ far) -> (data.cost \div data.shares) * shares
                  [] shares > 0 /\ ~(basis /\ (replay.cost = 0 \/ far)) ->
                       IF replay.shares = 0 THEN 0 ELSE (replay.cost \div replay.shares) * shares]

\* escrow_sell_shares_from_clob_orders: what the open SELLs of a token still hold back.
Escrow(open, token) ==
  MapThenSumSet(LAMBDA o : open[o].left,
                {o \in DOMAIN open : /\ open[o].side = "SELL" /\ open[o].asset = token
                                      /\ open[o].left > Dust})
===============================================================================
