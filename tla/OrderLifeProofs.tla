---------------------------- MODULE OrderLifeProofs ----------------------------
(* Proofs about OrderLife for every intent, price, size and tick, whatever the exchange
   does besides: the two signed amounts are those of the intent, a take-profit earns what
   it is to earn, an answer is booked for what was filled, and the user's own leg is taken
   from a trade. *)
EXTENDS OrderLife, FiniteSetTheorems, NaturalsInduction, SequenceTheorems, WellFoundedInduction, TLAPS

-------------------------------------------------------------------------------
(* Least and largest of a few numbers. *)

LEMMA MaxOfTwo == ASSUME NEW a \in Int, NEW b \in Int PROVE Max({a, b}) = IF a >= b THEN a ELSE b
<1>1. \E x \in {a, b} : \A y \in {a, b} : x >= y
  OBVIOUS
<1>2. Max({a, b}) \in {a, b} /\ \A y \in {a, b} : Max({a, b}) >= y
  BY <1>1 DEF Max
<1> QED BY <1>2

LEMMA MinOfTwo == ASSUME NEW a \in Int, NEW b \in Int PROVE Min({a, b}) = IF a <= b THEN a ELSE b
<1>1. \E x \in {a, b} : \A y \in {a, b} : x <= y
  OBVIOUS
<1>2. Min({a, b}) \in {a, b} /\ \A y \in {a, b} : Min({a, b}) <= y
  BY <1>1 DEF Min
<1> QED BY <1>2

\* Every non-empty set of naturals has a least member.
LEMMA LeastNatural ==
  ASSUME NEW T \in SUBSET Nat, T # {}
  PROVE  Min(T) \in T /\ \A y \in T : Min(T) <= y
<1> DEFINE R == OpToRel(<, Nat)
<1>1. IsWellFoundedOn(R, Nat)
  BY NatLessThanWellFounded
<1>2. \A x, y \in Nat : x < y => <<x, y>> \in R
  BY DEF OpToRel
<1> HIDE DEF R
<1>3. PICK x \in T : \A y \in T : ~(<<y, x>> \in R)
  BY <1>1, WFMin
<1>4. \A y \in T : ~(y < x)
  BY <1>2, <1>3
<1>5. \A y \in T : x <= y
  BY <1>4
<1> QED BY <1>5 DEF Min

\* A price between 0.01 and 0.99 stays as it is, any other becomes the nearer of the two.
LEMMA Clamped ==
  ASSUME NEW p \in Int
  PROVE  ClampProb(p) = IF p < 100 THEN 100 ELSE IF p > 9900 THEN 9900 ELSE p
<1>1. Max({p, 100}) = IF p >= 100 THEN p ELSE 100
  BY MaxOfTwo
<1>2. Min({Max({p, 100}), 9900}) = IF Max({p, 100}) <= 9900 THEN Max({p, 100}) ELSE 9900
  BY <1>1, MinOfTwo
<1>3. ClampProb(p) = Min({Max({p, 100}), 9900})
  BY DEF ClampProb, Clamp
<1>4. ClampProb(p) = IF p < 100 THEN 100 ELSE IF p > 9900 THEN 9900 ELSE p
  BY <1>1, <1>2, <1>3
<1> QED BY <1>4

Priced(p) == p \in Nat /\ 100 <= p /\ p <= 9900

LEMMA ClampedIn == ASSUME NEW p \in Int PROVE Priced(ClampProb(p))
  BY Clamped DEF Priced

-------------------------------------------------------------------------------
(* The order an intent comes to. *)

OrderFields == {"kind", "side", "type", "tick", "notional", "price", "size"}
WellFormed(o) ==
  /\ o = [f \in OrderFields |-> o[f]]
  /\ o.side \in {"BUY", "SELL"} /\ o.type \in {"FAK", "GTD"} /\ o.tick \in TickSizes
  /\ Priced(o.price) /\ o.size \in Nat /\ o.notional \in Nat

LEMMA UpWhole == ASSUME NEW a \in Int, NEW b \in Nat \ {0} PROVE CeilDiv(a, b) \in Int
  BY DEF CeilDiv

LEMMA RaisedPrice == ASSUME NEW p \in Int, NEW bps \in Int PROVE Up(p, bps) \in Int /\ Down(p, bps) \in Int
<1>1. p * (10000 + bps) \in Int /\ p * (10000 - bps) \in Int
  OBVIOUS
<1> QED BY <1>1 DEF Up, Down, CeilDiv

LEMMA LimitPriced ==
  ASSUME NEW p \in Int, NEW bps \in Int
  PROVE  Priced(ClampProb(Up(p, bps))) /\ Priced(ClampProb(Down(p, bps)))
<1>1. Up(p, bps) \in Int /\ Down(p, bps) \in Int
  BY RaisedPrice
<1> QED BY <1>1, ClampedIn

LEMMA Units == Dollar = 10000 /\ Share = 1000 /\ Cent = 100000 /\ Lot = 10 /\ TickSizes = {1000, 100, 10, 1}
  BY DEF Dollar, Share, Cent, Lot, TickSizes

LEMMA HeldShares == ASSUME NEW h \in Nat PROVE Max({h} \cup {0}) = h
<1>1. {h} \cup {0} = {h, 0}
  OBVIOUS
<1> QED BY <1>1, MaxOfTwo

-------------------------------------------------------------------------------
(* The take-profit: its price is one at which the target is reached. *)

LEMMA FeeWhole == ASSUME NEW p \in Int PROVE 72 * p * (10000 - p) \in Int /\ Fee(p) \in Int /\ Net(p) \in Int
<1>1. 72 * p * (10000 - p) \in Int
  OBVIOUS
<1> QED BY <1>1, Units DEF Fee, Net

LEMMA TimesLess == ASSUME NEW k \in Nat, NEW a \in Int, NEW b \in Int, a <= b PROVE k * a \in Int /\ k * a <= k * b
  OBVIOUS

LEMMA TimesUpTo == ASSUME NEW k \in Nat, NEW a \in Int, a <= 10000 PROVE k * a \in Int /\ k * a <= 10000 * k
  BY TimesLess

\* What a share earns grows with its price: the fee never grows as fast.
LEMMA NetGrows ==
  ASSUME NEW p \in Nat, NEW q \in Nat, p <= q
  PROVE  Net(p) <= Net(q)
<1>1. CASE p = q
  BY <1>1, FeeWhole
<1>2. CASE p < q
  <2> DEFINE A == 72 * p * (10000 - p)
             B == 72 * q * (10000 - q)
             d == q - p
  <2>1. A \in Int /\ B \in Int /\ d \in Nat /\ d >= 1
    BY <1>2
  <2>2. B - A = 72 * (d * (10000 - p - q))
    OBVIOUS
  <2>3. d * (10000 - p - q) <= 10000 * d /\ d * (10000 - p - q) \in Int
    <3>1. 10000 - p - q \in Int /\ 10000 - p - q <= 10000
      OBVIOUS
    <3> HIDE DEF d
    <3> QED BY <2>1, <3>1, TimesUpTo
  <2>4. B <= A + 720000 * d
    BY <2>1, <2>2, <2>3
  <2> HIDE DEF A, B
  <2>5. B \div 1000 <= A \div 1000 + 720 * d + 1
    BY <2>1, <2>4
  <2>6. Fee(p) = A \div 1000 /\ Fee(q) = B \div 1000 /\ Net(p) = p * 10000 - Fee(p) /\ Net(q) = q * 10000 - Fee(q)
    BY Units DEF Fee, Net, A, B
  <2> QED BY <2>1, <2>5, <2>6 DEF d
<1> QED BY <1>1, <1>2

LEMMA ProfitPrice ==
  ASSUME NEW entry \in Nat, NEW bps \in Nat
  PROVE  LET e == ClampProb(entry) price == TakeProfitPrice(entry, bps)
         IN  /\ Priced(price)
             /\ price < 9900 => Net(price) >= e * Dollar + Fee(e) + bps * e
<1> DEFINE e == ClampProb(entry)
           target == e * Dollar + Fee(e) + bps * e
           reach == {c \in 1..99 : Net(100 * c) >= target}
           top == 100 * Min(reach)
           fine == {p \in (top - 99)..top : Net(p) >= target}
<1>1. Priced(e) /\ target \in Int
  <2>1. Priced(e)
    BY ClampedIn
  <2>2. Fee(e) \in Int /\ e * Dollar \in Int /\ bps * e \in Int
    BY <2>1, FeeWhole DEF Dollar, Priced
  <2> QED BY <2>1, <2>2
<1> HIDE DEF e, target
<1>2. TakeProfitPrice(entry, bps) = IF reach = {} \/ fine = {} THEN 9900 ELSE ClampProb(Min(fine))
  BY DEF TakeProfitPrice, e, target
<1>3. reach # {} => Min(reach) \in Nat /\ 1 <= Min(reach) /\ Min(reach) <= 99
  <2>1. reach \in SUBSET Nat /\ \A c \in reach : 1 <= c /\ c <= 99
    OBVIOUS
  <2> HIDE DEF reach
  <2> QED BY <2>1, LeastNatural
<1>4. reach # {} /\ fine # {} => Min(fine) \in Nat /\ Min(fine) <= 9900 /\ Net(Min(fine)) >= target
  <2> SUFFICES ASSUME reach # {}, fine # {} PROVE Min(fine) \in Nat /\ Min(fine) <= 9900 /\ Net(Min(fine)) >= target
    OBVIOUS
  <2> HIDE DEF reach
  <2>1. top \in Nat /\ top >= 100 /\ top <= 9900
    BY <1>3
  <2> HIDE DEF top
  <2>2. fine \in SUBSET Nat /\ \A p \in fine : p \in Nat /\ p <= 9900 /\ Net(p) >= target
    BY <2>1
  <2> HIDE DEF fine
  <2> DEFINE m == Min(fine)
  <2>3. m \in fine
    BY <2>2, LeastNatural
  <2> HIDE DEF m
  <2>4. m \in Nat /\ m <= 9900 /\ Net(m) >= target
    BY <2>2, <2>3
  <2> QED BY <2>4 DEF m
<1> HIDE DEF reach, fine
<1>5. CASE reach = {} \/ fine = {}
  <2>1. TakeProfitPrice(entry, bps) = 9900
    BY <1>2, <1>5
  <2> QED BY <2>1 DEF Priced, e
<1>6. CASE reach # {} /\ fine # {}
  <2> DEFINE m == Min(fine)
  <2>1. m \in Nat /\ m <= 9900 /\ Net(m) >= target
    BY <1>4, <1>6
  <2>2. TakeProfitPrice(entry, bps) = ClampProb(m)
    BY <1>2, <1>6
  <2> HIDE DEF m
  <2>3. Priced(ClampProb(m)) /\ m <= ClampProb(m)
    BY <2>1, Clamped, ClampedIn
  <2>4. Net(m) <= Net(ClampProb(m)) /\ Net(m) \in Int /\ Net(ClampProb(m)) \in Int
    BY <2>1, <2>3, NetGrows, FeeWhole DEF Priced
  <2>5. Net(ClampProb(m)) >= target
    BY <1>1, <2>1, <2>4
  <2> QED BY <2>2, <2>3, <2>5 DEF e, target
<1> QED BY <1>5, <1>6

LEMMA SizedWell ==
  ASSUME NEW i, IntentOK(i), Sized(i) # NoOrder
  PROVE  WellFormed(Sized(i))
<1> DEFINE o == Sized(i)
<1>1. /\ i.held \in Nat /\ i.book \in Int /\ i.book > 0 /\ i.tick \in TickSizes
      /\ i.kind \in {"buy", "sell", "auto", "trail", "stop", "tp"}
  BY DEF IntentOK, Dollar
<1>2. CASE i.kind = "buy"
  <2>1. i.usd \in Nat /\ i.slip \in Nat
    BY <1>2 DEF IntentOK
  <2>2. CeilDiv(i.usd * Cent, i.book) \in Int
    BY <1>1, <2>1, Units, UpWhole
  <2>3. Max({CeilDiv(i.usd * Cent, i.book), Lot}) \in Nat
    BY <2>2, MaxOfTwo, Units
  <2>4. Priced(ClampProb(Up(i.book, i.slip)))
    BY <1>1, <2>1, LimitPriced
  <2>5. o = MarketBuy(i.usd, i.book, i.slip, i.tick)
    BY <1>2 DEF Sized
  <2> QED BY <1>1, <2>1, <2>3, <2>4, <2>5 DEF MarketBuy, WellFormed, OrderFields
<1>3. CASE i.kind = "sell"
  <2>1. i.usd \in Nat /\ i.slip \in Nat
    BY <1>3 DEF IntentOK
  <2>2. CeilDiv(i.usd * Cent, i.book) \in Int
    BY <1>1, <2>1, Units, UpWhole
  <2>3. Max({CeilDiv(i.usd * Cent, i.book), Lot}) \in Nat /\ Max({i.held} \cup {0}) \in Nat
    BY <1>1, <2>2, MaxOfTwo, Units, HeldShares
  <2>4. Priced(ClampProb(Down(i.book, i.slip)))
    BY <1>1, <2>1, LimitPriced
  <2>5. o = MarketSell({i.held}, i.usd, i.book, i.slip, i.tick)
    BY <1>3 DEF Sized
  <2>6. o = [f \in OrderFields |-> o[f]] /\ o.tick = i.tick /\ o.notional = 0
    BY <2>5 DEF MarketSell, OrderFields
  <2>7. o.kind = "sell" /\ o.side = "SELL" /\ o.type = "FAK" /\ Priced(o.price)
    BY <2>4, <2>5 DEF MarketSell
  <2>8. o.size \in Nat
    BY <2>3, <2>5 DEF MarketSell
  <2> QED BY <1>1, <2>6, <2>7, <2>8 DEF WellFormed
<1>4. CASE i.kind = "auto"
  <2>1. i.usd \in Nat
    BY <1>4 DEF IntentOK
  <2>2. Priced(ClampProb(i.book))
    BY <1>1, ClampedIn
  <2>3. CeilDiv(i.usd * Cent, ClampProb(i.book)) \in Nat
    BY <2>1, <2>2, Units DEF CeilDiv, Priced
  <2>4. o = AutoBuy(i.usd, i.book, i.cap, i.tick)
    BY <1>4 DEF Sized
  <2> QED BY <1>1, <2>1, <2>2, <2>3, <2>4 DEF AutoBuy, WellFormed, OrderFields
<1>5. CASE i.kind = "trail"
  <2>1. i.slip \in Nat
    BY <1>5 DEF IntentOK
  <2>2. Priced(ClampProb(Down(i.book, i.slip)))
    BY <1>1, <2>1, LimitPriced
  <2>3. o = TrailingSell(i.held, i.book, i.slip, i.entry, i.bps, i.tick)
    BY <1>5 DEF Sized
  <2> QED BY <1>1, <2>1, <2>2, <2>3 DEF TrailingSell, WellFormed, OrderFields
<1>6. CASE i.kind = "stop"
  <2>1. Max({i.held} \cup {0}) \in Nat
    BY <1>1, HeldShares
  <2>2. Priced(ClampProb(i.book - 100))
    BY <1>1, ClampedIn
  <2>3. o = StopLossSell({i.held}, {i.entry}, 0, i.book, i.bps, i.tick)
    BY <1>6 DEF Sized
  <2> DEFINE shares == Max({i.held} \cup {0})
             price == ClampProb(i.book - 100)
  <2>4. o = [kind |-> "stop", side |-> "SELL", type |-> "GTD", tick |-> i.tick, notional |-> 0,
             price |-> price, size |-> shares]
    BY <2>3 DEF StopLossSell
  <2> HIDE DEF o, shares, price
  <2>5. shares \in Nat /\ Priced(price)
    BY <2>1, <2>2 DEF shares, price
  <2>6. WellFormed(o)
    BY <1>1, <2>4, <2>5 DEF WellFormed, OrderFields
  <2> QED BY <2>6 DEF o
<1>7. CASE i.kind = "tp"
  <2>1. o = TakeProfitSell(i.held, i.entry, i.bps, i.tick)
    BY <1>7 DEF Sized
  <2>2. Priced(TakeProfitPrice(i.entry, i.bps))
    BY <1>7, ProfitPrice DEF IntentOK
  <2> QED BY <1>1, <2>1, <2>2 DEF TakeProfitSell, WellFormed, OrderFields
<1> QED BY <1>1, <1>2, <1>3, <1>4, <1>5, <1>6, <1>7

-------------------------------------------------------------------------------
(* Limit orders: the price on the tick. *)

\* The prices a limit order may have in a market.
MarketPrices(tick) == {n * tick : n \in 1..(Dollar \div tick)} \cap 100..9900

LEMMA ApartIs == ASSUME NEW a \in Int, NEW b \in Int PROVE Apart(a, b) = IF a >= b THEN a - b ELSE b - a
<1>1. a - b \in Int /\ b - a \in Int
  OBVIOUS
<1>2. Max({a - b, b - a}) = IF a - b >= b - a THEN a - b ELSE b - a
  BY <1>1, MaxOfTwo
<1> QED BY <1>2 DEF Apart

\* The nearest tick, counted from 0, cut to the least and the most there are.
Nearest(p, tick, least, most) ==
  LET x == (p + tick \div 2) \div tick IN IF x < least THEN least ELSE IF x > most THEN most ELSE x

LEMMA SnapIs ==
  ASSUME NEW p, Priced(p), NEW tick \in Nat \ {0}, NEW least \in Nat, NEW most \in Nat, 1 <= least, least <= most,
         CeilDiv(100, tick) = least, 9900 \div tick = most
  PROVE  SnapPrice(p, tick) = tick * Nearest(p, tick, least, most)
<1> DEFINE x == (p + tick \div 2) \div tick
<1>1. ClampProb(p) = p
  BY Clamped DEF Priced
<1>2. x \in Nat
  BY DEF Priced
<1> HIDE DEF x
<1>3. Max({x, 1}) = (IF x >= 1 THEN x ELSE 1) /\ Max({most, 1}) = most /\ Min({least, most}) = least
  BY <1>2, MaxOfTwo, MinOfTwo
<1> DEFINE n == Max({x, 1})
           y == Max({n, least})
<1>4. n \in Nat /\ y = IF n >= least THEN n ELSE least
  BY <1>2, <1>3, MaxOfTwo
<1> HIDE DEF y
<1>5. Min({y, most}) = IF y <= most THEN y ELSE most
  BY <1>4, MinOfTwo
<1>6. SnapPrice(p, tick) = tick * Clamp(n, Min({least, most}), most)
  <2> DEFINE z == (ClampProb(p) + tick \div 2) \div tick
             u == 9900 \div tick
             v == CeilDiv(100, tick)
  <2>1. SnapPrice(p, tick) = tick * Clamp(Max({z, 1}), Min({v, Max({u, 1})}), Max({u, 1}))
    BY DEF SnapPrice
  <2>2. z = x /\ u = most /\ v = least
    BY <1>1 DEF x
  <2> HIDE DEF z, u, v
  <2>3. SnapPrice(p, tick) = tick * Clamp(Max({x, 1}), Min({least, Max({most, 1})}), Max({most, 1}))
    BY <2>1, <2>2
  <2>4. Max({most, 1}) = most
    BY <1>3
  <2> QED BY <2>3, <2>4
<1>7. Clamp(n, least, most) = Min({y, most})
  BY DEF Clamp, y
<1> HIDE DEF n
<1>8. Clamp(n, least, most) = IF x < least THEN least ELSE IF x > most THEN most ELSE x
  BY <1>2, <1>3, <1>4, <1>5, <1>7 DEF n
<1> QED BY <1>3, <1>6, <1>8 DEF Nearest, x

Snapped(p, tick) ==
  /\ SnapPrice(p, tick) \in MarketPrices(tick)
  /\ \A other \in MarketPrices(tick) : Apart(SnapPrice(p, tick), p) <= Apart(other, p)
  /\ \E n \in Nat : SnapPrice(p, tick) = tick * n

NearestOf(p, t, least, most) ==
  LET c == Nearest(p, t, least, most)
  IN  /\ c \in Nat /\ least <= c /\ c <= most
      /\ \A m \in Nat : least <= m /\ m <= most => Apart(t * c, p) <= Apart(t * m, p)

\* No other multiple of the tick between the least and the most is nearer.
LEMMA NearestIs ==
  ASSUME NEW p \in Nat, NEW t \in Nat \ {0}, NEW least \in Nat, NEW most \in Nat, least <= most
  PROVE  NearestOf(p, t, least, most)
<1> DEFINE h == t \div 2
           x == (p + h) \div t
           c == Nearest(p, t, least, most)
<1>1. h \in Nat /\ 2 * h <= t /\ t <= 2 * h + 1
  OBVIOUS
<1> HIDE DEF h
<1>2. x \in Nat /\ t * x <= p + h /\ p + h < t * x + t
  BY <1>1
<1>3. c = IF x < least THEN least ELSE IF x > most THEN most ELSE x
  BY DEF Nearest, h
<1> HIDE DEF x, c
<1>4. c \in Nat /\ least <= c /\ c <= most
  BY <1>2, <1>3
<1>m. SUFFICES ASSUME NEW m \in Nat, least <= m, m <= most PROVE Apart(t * c, p) <= Apart(t * m, p)
  BY <1>4 DEF NearestOf, c
<1> DEFINE s == t * c
           o == t * m
<1>5. s \in Nat /\ o \in Nat /\ t * x \in Nat
  BY <1>2, <1>4
<1>6. /\ m < c => o + t <= s /\ s <= t * x
      /\ m > c => s + t <= o /\ t * x <= s
  <2>1. ASSUME m < c PROVE o + t <= s /\ s <= t * x
    <3>1. m + 1 <= c /\ c <= x
      BY <1>m, <1>2, <1>3, <1>4, <2>1
    <3>2. t * (m + 1) <= t * c /\ t * c <= t * x
      BY <1>2, <1>4, <3>1, TimesLess
    <3> QED BY <3>2
  <2>2. ASSUME m > c PROVE s + t <= o /\ t * x <= s
    <3>1. c + 1 <= m /\ x <= c
      BY <1>m, <1>2, <1>3, <1>4, <2>2
    <3>2. t * (c + 1) <= t * m /\ t * x <= t * c
      BY <1>2, <1>4, <3>1, TimesLess
    <3> QED BY <1>4, <3>2
  <2> QED BY <2>1, <2>2
<1>7. Apart(s, p) = (IF s >= p THEN s - p ELSE p - s) /\ Apart(o, p) = IF o >= p THEN o - p ELSE p - o
  BY <1>5, ApartIs
<1>8. m = c => s = o
  OBVIOUS
<1> DEFINE y == t * x
<1> HIDE DEF s, o, y
<1>9. y \in Nat /\ y <= p + h /\ p + h < y + t /\ (m < c => o + t <= s /\ s <= y) /\ (m > c => s + t <= o /\ y <= s)
  BY <1>2, <1>5, <1>6 DEF y
<1>10. Apart(s, p) <= Apart(o, p)
  BY <1>1, <1>4, <1>5, <1>7, <1>8, <1>9
<1> QED BY <1>10 DEF s, o

\* What a price is snapped to, for one tick.
LEMMA SnapAt ==
  ASSUME NEW p, Priced(p), NEW tick \in Nat \ {0}, NEW least \in Nat, NEW most \in Nat, 1 <= least, least <= most,
         CeilDiv(100, tick) = least, 9900 \div tick = most,
         \A n \in Int : n * tick >= 100 /\ n * tick <= 9900 <=> least <= n /\ n <= most,
         most <= Dollar \div tick
  PROVE  Snapped(p, tick)
<1> DEFINE c == Nearest(p, tick, least, most)
<1>1. SnapPrice(p, tick) = tick * c
  BY SnapIs
<1>n. NearestOf(p, tick, least, most)
  BY NearestIs DEF Priced
<1>2. c \in Nat /\ least <= c /\ c <= most
  BY <1>n DEF NearestOf
<1>3. ASSUME NEW other \in MarketPrices(tick) PROVE Apart(tick * c, p) <= Apart(other, p)
  <2>1. PICK m \in 1..(Dollar \div tick) : other = m * tick
    BY DEF MarketPrices
  <2>2. m \in Nat /\ least <= m /\ m <= most
    <3>1. m \in Int /\ m * tick \in 100..9900
      BY <2>1 DEF MarketPrices, Dollar
    <3>2. m * tick >= 100 /\ m * tick <= 9900
      BY <3>1
    <3> QED BY <3>1, <3>2
  <2>3. Apart(tick * c, p) <= Apart(tick * m, p)
    BY <1>n, <2>2 DEF NearestOf
  <2>4. other = tick * m
    BY <2>1, <2>2
  <2> QED BY <2>3, <2>4
<1> HIDE DEF c
<1>4. tick * c = c * tick /\ c * tick \in Nat
  BY <1>2
<1>5. c * tick \in MarketPrices(tick)
  <2>1. c * tick >= 100 /\ c * tick <= 9900
    BY <1>2
  <2>2. c \in 1..(Dollar \div tick)
    BY <1>2, Units
  <2> QED BY <1>4, <2>1, <2>2 DEF MarketPrices
<1>6. \E n \in Nat : SnapPrice(p, tick) = tick * n
  BY <1>1, <1>2
<1> QED BY <1>1, <1>3, <1>4, <1>5, <1>6 DEF Snapped

LEMMA SnapNearest ==
  ASSUME NEW p, Priced(p), NEW tick \in TickSizes
  PROVE  Snapped(p, tick)
<1>1. Snapped(p, 1000)
  BY SnapAt, Units DEF CeilDiv
<1>2. Snapped(p, 100)
  BY SnapAt, Units DEF CeilDiv
<1>3. Snapped(p, 10)
  BY SnapAt, Units DEF CeilDiv
<1>4. Snapped(p, 1)
  BY SnapAt, Units DEF CeilDiv
<1> QED BY <1>1, <1>2, <1>3, <1>4 DEF TickSizes

-------------------------------------------------------------------------------
(* Limit orders: the amounts. *)

\* What a BUY has to spend at least at price p.
Asked(o, p) ==
  Cent * (IF o.notional # 0 THEN WireCents(o.notional) ELSE UpToHundredth(o.size * p, Cent))
\* The lots the search starts from, and where it ends.
First(o) == Max({CeilDiv(o.size, Lot), 1})
Found(o, enough) == IF enough = {} THEN 0 ELSE Min(enough)
EnoughLimit(o, p) == {k \in First(o)..(First(o) + BumpLimit) : k * Lot * p >= Asked(o, p)}

LEMMA FirstLots ==
  ASSUME NEW o, WellFormed(o)
  PROVE  /\ CeilDiv(o.size, Lot) \in Nat /\ CeilDiv(o.size, Lot) * Lot >= o.size
         /\ CeilDiv(o.size, Lot) * Lot < o.size + Lot
         /\ First(o) = IF CeilDiv(o.size, Lot) >= 1 THEN CeilDiv(o.size, Lot) ELSE 1
<1>1. o.size \in Nat
  BY DEF WellFormed
<1>2. CeilDiv(o.size, Lot) = (o.size + 9) \div 10
  BY Units DEF CeilDiv
<1>3. (o.size + 9) \div 10 \in Nat /\ 10 * ((o.size + 9) \div 10) >= o.size /\ 10 * ((o.size + 9) \div 10) < o.size + 10
  BY <1>1
<1>4. CeilDiv(o.size, Lot) \in Nat /\ CeilDiv(o.size, Lot) * Lot >= o.size /\ CeilDiv(o.size, Lot) * Lot < o.size + Lot
  BY <1>2, <1>3, Units
<1> QED BY <1>4, MaxOfTwo DEF First

LEMMA FoundIs ==
  ASSUME NEW o, NEW first \in Nat, 1 <= first, NEW enough \in SUBSET Nat, \A k \in enough : first <= k
  PROVE  LET k == Found(o, enough)
         IN  /\ k \in Nat
             /\ k # 0 => k \in enough /\ k >= 1
             /\ k = 0 => enough = {}
             /\ first \in enough => k = first
<1>1. CASE enough = {}
  BY <1>1 DEF Found
<1>2. CASE enough # {}
  <2> DEFINE m == Min(enough)
  <2>1. m \in enough /\ \A k \in enough : m <= k
    BY <1>2, LeastNatural
  <2>2. Found(o, enough) = m
    BY <1>2 DEF Found
  <2> HIDE DEF m
  <2>3. m \in Nat /\ m >= 1 /\ (first \in enough => m = first)
    BY <2>1
  <2> QED BY <1>2, <2>1, <2>2, <2>3
<1> QED BY <1>1, <1>2

LEMMA LimitLots ==
  ASSUME NEW o, WellFormed(o), NEW p
  PROVE  LET k == Found(o, EnoughLimit(o, p))
         IN  k \in Nat /\ (k # 0 => k \in EnoughLimit(o, p)) /\ (First(o) \in EnoughLimit(o, p) => k = First(o))
<1>1. First(o) \in Nat /\ First(o) >= 1
  BY FirstLots
<1> DEFINE enough == EnoughLimit(o, p)
<1>2. enough \in SUBSET Nat /\ \A j \in enough : First(o) <= j
  BY <1>1, OrderMathAssumption DEF EnoughLimit
<1> HIDE DEF enough
<1> QED BY <1>1, <1>2, FoundIs DEF enough

LEMMA OnTick == ASSUME NEW tick \in TickSizes, NEW n \in Nat PROVE tick * ((tick * n + tick \div 2) \div tick) = tick * n
<1>1. (1000 * n + 1000 \div 2) \div 1000 = n /\ (100 * n + 100 \div 2) \div 100 = n
      /\ (10 * n + 10 \div 2) \div 10 = n /\ (1 * n + 1 \div 2) \div 1 = n
  OBVIOUS
<1> QED BY <1>1 DEF TickSizes

LEMMA LimitSigned ==
  ASSUME NEW o, WellFormed(o), o.type = "GTD"
  PROVE  LET p == SnapPrice(o.price, o.tick)
             k == Found(o, EnoughLimit(o, p))
         IN  /\ o.side = "BUY" => Amounts(o) = IF k = 0 THEN NoAmounts ELSE <<k * Lot * p, k>>
             /\ o.side = "SELL" => Amounts(o) = IF Lots(o.size) = 0 THEN NoAmounts
                                                ELSE <<Lots(o.size), Lots(o.size) * Lot * p>>
<1> DEFINE p == SnapPrice(o.price, o.tick)
           q == [o EXCEPT !.price = p]
           unit == PriceUnit(o.tick)
           k == Found(o, EnoughLimit(o, p))
<1>1. /\ q.side = o.side /\ q.size = o.size /\ q.notional = o.notional /\ q.tick = o.tick /\ q.price = p
  BY DEF WellFormed, OrderFields
<1>2. unit = o.tick
  BY DEF PriceUnit, WellFormed
<1>3. unit * ((p + unit \div 2) \div unit) = p
  <2>1. PICK n \in Nat : p = o.tick * n
    BY SnapNearest DEF WellFormed, Snapped
  <2> HIDE DEF p
  <2> QED BY <1>2, <2>1, OnTick DEF WellFormed
<1>4. Amounts(o) = LimitAmounts(q)
  BY DEF Amounts
<1> HIDE DEF p, q
<1>5. Notional(q, p) = Asked(o, p)
  BY <1>1 DEF Notional, Asked
<1>6. q.side = "BUY" => LimitAmounts(q) = IF k = 0 THEN NoAmounts ELSE <<k * Lot * p, k>>
  BY <1>1, <1>2, <1>3, <1>5 DEF LimitAmounts, Bumped, Found, EnoughLimit, First
<1>7. q.side = "SELL" => LimitAmounts(q) = IF Lots(o.size) = 0 THEN NoAmounts ELSE <<Lots(o.size), Lots(o.size) * Lot * p>>
  BY <1>1, <1>2, <1>3 DEF LimitAmounts
<1> QED BY <1>1, <1>4, <1>6, <1>7 DEF p

-------------------------------------------------------------------------------
(* Market orders: what each rounding does. *)

LEMMA RoundedUp ==
  ASSUME NEW x \in Nat, NEW unit \in {10, 100, 100000}
  PROVE  LET u == UpToHundredth(x, unit) IN u \in Nat /\ unit * u >= x /\ unit * u <= x + unit
<1> DEFINE c == CeilDiv(x, unit)
           u == UpToHundredth(x, unit)
<1>1. /\ c \in Nat /\ unit * c >= x /\ unit * c < x + unit
      /\ x % unit = 0 => unit * c = x
  BY DEF CeilDiv
<1>2. u = c + (IF x % unit = 0 /\ x \div unit \in Above THEN 1 ELSE 0)
  BY DEF UpToHundredth
<1> HIDE DEF c, u
<1>3. CASE x % unit = 0
  <2>1. u = c \/ u = c + 1
    BY <1>1, <1>2
  <2> QED BY <1>1, <1>3, <2>1 DEF u
<1>4. CASE x % unit # 0
  BY <1>1, <1>2, <1>4 DEF u
<1> QED BY <1>3, <1>4

LEMMA CentsUp ==
  ASSUME NEW x \in Nat
  PROVE  LET u == UpToHundredth(x, Cent) IN u \in Nat /\ Cent * u >= x /\ Cent * u <= x + Cent
<1>1. LET u == UpToHundredth(x, 100000) IN u \in Nat /\ 100000 * u >= x /\ 100000 * u <= x + 100000
  BY RoundedUp
<1> QED BY <1>1, Units

LEMMA RoundedDown ==
  ASSUME NEW x \in Nat, NEW unit \in {10, 100, 100000}
  PROVE  LET d == DownToHundredth(x, unit) IN d \in Int /\ unit * d <= x /\ unit * d + unit >= x
<1> DEFINE f == x \div unit
           d == DownToHundredth(x, unit)
<1>1. /\ f \in Nat /\ unit * f <= x /\ unit * f + unit > x
      /\ x % unit = 0 => unit * f = x
  OBVIOUS
<1>2. d = f - (IF x % unit = 0 /\ f \in Below THEN 1 ELSE 0)
  BY DEF DownToHundredth
<1> HIDE DEF f, d
<1>3. CASE x % unit = 0
  <2>1. d = f \/ d = f - 1
    BY <1>1, <1>2
  <2> QED BY <1>1, <1>3, <2>1 DEF d
<1>4. CASE x % unit # 0
  BY <1>1, <1>2, <1>4 DEF d
<1> QED BY <1>3, <1>4

LEMMA Wired == ASSUME NEW c \in Int PROVE WireCents(c) \in Int /\ (WireCents(c) = c \/ WireCents(c) = c - 1)
  BY DEF WireCents

\* A market order's price is rounded away from the limit by a tick at most.
LEMMA BookPriced ==
  ASSUME NEW o, WellFormed(o)
  PROVE  LET p == BookPrice(o.side, o.price, o.tick)
         IN  /\ p \in Nat
             /\ o.side = "BUY" => p >= o.price /\ p <= o.price + o.tick
             /\ o.side = "SELL" => p <= o.price /\ p + o.tick >= o.price
<1> DEFINE p == BookPrice(o.side, o.price, o.tick)
<1>1. o.price \in Nat /\ o.tick \in {1000, 100, 10, 1} /\ o.side \in {"BUY", "SELL"}
  BY Units DEF WellFormed, Priced
<1>2. PriceUnit(o.tick) = o.tick
  BY <1>1, Units DEF PriceUnit
<1>3. CASE o.tick = 100
  <2>1. o.side = "BUY" => p = UpToHundredth(o.price, 100) * 100
    BY <1>2, <1>3 DEF BookPrice
  <2>2. o.side = "SELL" => p = DownToHundredth(o.price, 100) * 100
    BY <1>2, <1>3 DEF BookPrice
  <2>3. UpToHundredth(o.price, 100) \in Nat /\ 100 * UpToHundredth(o.price, 100) >= o.price
        /\ 100 * UpToHundredth(o.price, 100) <= o.price + 100
    <3>1. PICK x \in Nat : x = o.price
      BY <1>1
    <3>2. UpToHundredth(x, 100) \in Nat /\ 100 * UpToHundredth(x, 100) >= x /\ 100 * UpToHundredth(x, 100) <= x + 100
      BY RoundedUp
    <3> QED BY <3>1, <3>2
  <2>4. DownToHundredth(o.price, 100) \in Int /\ 100 * DownToHundredth(o.price, 100) <= o.price
        /\ 100 * DownToHundredth(o.price, 100) + 100 >= o.price
    BY <1>1, RoundedDown
  <2>5. o.price >= 100
    BY DEF WellFormed, Priced
  <2> HIDE DEF p
  <2>6. p \in Nat
    BY <1>1, <2>1, <2>2, <2>3, <2>4, <2>5
  <2> QED BY <1>1, <1>3, <2>1, <2>2, <2>3, <2>4, <2>6 DEF p
<1>4. CASE o.tick # 100
  <2>1. o.side = "BUY" => p = CeilDiv(o.price, o.tick) * o.tick
    BY <1>2, <1>4 DEF BookPrice
  <2>2. o.side = "SELL" => p = (o.price \div o.tick) * o.tick
    BY <1>2, <1>4 DEF BookPrice
  <2>3. \A t \in {1000, 10, 1} : CeilDiv(o.price, t) * t \in Nat /\ CeilDiv(o.price, t) * t >= o.price
                                 /\ CeilDiv(o.price, t) * t <= o.price + t
    BY <1>1 DEF CeilDiv
  <2>4. \A t \in {1000, 10, 1} : (o.price \div t) * t \in Nat /\ (o.price \div t) * t <= o.price
                                 /\ (o.price \div t) * t + t >= o.price
    BY <1>1
  <2> HIDE DEF p
  <2>5. o.tick \in {1000, 10, 1}
    BY <1>1, <1>4
  <2> QED BY <1>1, <2>1, <2>2, <2>3, <2>4, <2>5 DEF p
<1> QED BY <1>3, <1>4

-------------------------------------------------------------------------------
(* Market orders: the amounts. *)

SpentOn(k, p) == Cent * UpToHundredth(k * Lot * p, Cent)
EnoughBook(o, p) == {k \in First(o)..(First(o) + BumpLimit) : SpentOn(k, p) >= Asked(o, p)}
BookLots(o, p) == IF Found(o, EnoughBook(o, p)) = 0 THEN First(o) + BumpLimit ELSE Found(o, EnoughBook(o, p))
SoldLots(o) == DownToHundredth(o.size, Lot)
GotCents(o, p) == DownToHundredth(SoldLots(o) * Lot * p, Cent)

LEMMA BookSigned ==
  ASSUME NEW o, WellFormed(o), o.type = "FAK"
  PROVE  LET p == BookPrice(o.side, o.price, o.tick)
             k == BookLots(o, p)
         IN  /\ o.side = "BUY" => Amounts(o) = <<Cent * WireCents(SpentOn(k, p) \div Cent), k>>
             /\ o.side = "SELL" => Amounts(o) = IF SoldLots(o) <= 0 \/ p <= 0 THEN NoAmounts
                                   ELSE <<SoldLots(o), Cent * Max({WireCents(Max({GotCents(o, p), 1})), 1})>>
<1> DEFINE p == BookPrice(o.side, o.price, o.tick)
           k == BookLots(o, p)
<1>1. Amounts(o) = BookAmounts(o)
  BY DEF Amounts
<1>2. Notional(o, p) = Asked(o, p)
  BY DEF Notional, Asked
<1>3. o.side = "SELL" => BookAmounts(o) = IF SoldLots(o) <= 0 \/ p <= 0 THEN NoAmounts
                                   ELSE <<SoldLots(o), Cent * Max({WireCents(Max({GotCents(o, p), 1})), 1})>>
  BY DEF BookAmounts, SoldLots, GotCents
<1>4. o.side = "BUY" => BookAmounts(o) = <<Cent * WireCents(SpentOn(k, p) \div Cent), k>>
  BY <1>2 DEF BookAmounts, BookLots, SpentOn, Bumped, Found, EnoughBook, First
<1> QED BY <1>1, <1>3, <1>4

\* A BUY of k lots costs what they are worth at the order's price, to a cent.
LEMMA BookBuy ==
  ASSUME NEW o, WellFormed(o), o.type = "FAK", o.side = "BUY"
  PROVE  LET p == BookPrice(o.side, o.price, o.tick)
             k == Amounts(o)[2]
             d == Amounts(o)[1]
         IN  /\ k = BookLots(o, p) /\ k \in Nat /\ k >= 1 /\ d \in Int
             /\ d + Cent >= SpentOn(k, p) /\ d <= SpentOn(k, p) /\ SpentOn(k, p) \in Nat
             /\ SpentOn(k, p) >= k * Lot * p /\ SpentOn(k, p) <= k * Lot * p + Cent
<1> DEFINE p == BookPrice(o.side, o.price, o.tick)
           k == BookLots(o, p)
           u == UpToHundredth(k * Lot * p, Cent)
<1>1. Amounts(o) = <<Cent * WireCents(SpentOn(k, p) \div Cent), k>>
  BY BookSigned
<1>2. p \in Nat
  BY BookPriced
<1>3. First(o) \in Nat /\ First(o) >= 1
  BY FirstLots
<1> HIDE DEF p
<1>4. k \in Nat /\ k >= 1
  <2> DEFINE enough == EnoughBook(o, p)
  <2>1. enough \in SUBSET Nat /\ \A j \in enough : First(o) <= j
    BY <1>3, OrderMathAssumption DEF EnoughBook
  <2> HIDE DEF enough
  <2>2. Found(o, enough) \in Nat
    BY <1>3, <2>1, FoundIs
  <2>3. Found(o, enough) # 0 => Found(o, enough) >= 1
    BY <2>2
  <2> QED BY <1>3, <2>2, <2>3, OrderMathAssumption DEF BookLots, enough
<1> HIDE DEF k
<1>5. k * Lot * p \in Nat
  BY <1>2, <1>4, Units
<1>6. u \in Nat /\ Cent * u >= k * Lot * p /\ Cent * u <= k * Lot * p + Cent
  BY <1>5, RoundedUp, Units
<1> HIDE DEF u
<1>7. SpentOn(k, p) = Cent * u
  BY DEF SpentOn, u
<1>8. SpentOn(k, p) \div Cent = u
  BY <1>6, <1>7, Units
<1>9. WireCents(u) \in Int /\ (WireCents(u) = u \/ WireCents(u) = u - 1)
  BY <1>6, Wired
<1>10. Cent * WireCents(u) \in Int /\ Cent * WireCents(u) + Cent >= Cent * u /\ Cent * WireCents(u) <= Cent * u
  BY <1>6, <1>9, Units
<1> QED BY <1>1, <1>4, <1>6, <1>7, <1>8, <1>10, Units DEF p, k

\* A SELL asks for what its lots are worth at the order's price, to two cents.
LEMMA BookSell ==
  ASSUME NEW o, WellFormed(o), o.type = "FAK", o.side = "SELL", Amounts(o)[1] > 0
  PROVE  LET p == BookPrice(o.side, o.price, o.tick)
             k == Amounts(o)[1]
             d == Amounts(o)[2]
         IN  /\ k \in Nat /\ k = SoldLots(o) /\ k >= 1 /\ d \in Int
             /\ d + 2 * Cent >= k * Lot * p
             /\ d <= k * Lot * p \/ d = Cent
<1> DEFINE p == BookPrice(o.side, o.price, o.tick)
           k == SoldLots(o)
           g == GotCents(o, p)
           x == k * Lot * p
<1>1. k > 0 /\ Amounts(o) = <<k, Cent * Max({WireCents(Max({g, 1})), 1})>>
  <2>1. CASE k <= 0 \/ p <= 0
    <3>1. Amounts(o) = NoAmounts
      BY <2>1, BookSigned
    <3> QED BY <3>1 DEF NoAmounts
  <2>2. CASE ~(k <= 0 \/ p <= 0)
    <3>1. k \in Int
      BY RoundedDown, Units DEF SoldLots, WellFormed
    <3>2. Amounts(o) = IF k <= 0 \/ p <= 0 THEN NoAmounts
                       ELSE <<k, Cent * Max({WireCents(Max({g, 1})), 1})>>
      BY BookSigned
    <3> HIDE DEF k, p, g
    <3> QED BY <2>2, <3>1, <3>2
  <2> QED BY <2>1, <2>2
<1>2. p \in Nat
  BY BookPriced
<1>3. k \in Nat
  BY <1>1, RoundedDown, Units DEF SoldLots, WellFormed
<1> HIDE DEF p, k
<1>4. x \in Nat
  BY <1>2, <1>3, Units
<1> HIDE DEF x
<1>5. g = DownToHundredth(x, Cent)
  BY DEF GotCents, k, x
<1>6. g \in Int /\ Cent * g <= x /\ Cent * g + Cent >= x
  BY <1>4, <1>5, RoundedDown, Units
<1> HIDE DEF g
<1> DEFINE m == Max({g, 1})
           w == WireCents(m)
           v == Max({w, 1})
<1>7. m = IF g >= 1 THEN g ELSE 1
  BY <1>6, MaxOfTwo
<1> HIDE DEF m
<1>8. w \in Int /\ (w = m \/ w = m - 1)
  BY <1>6, <1>7, Wired
<1> HIDE DEF w
<1>9. v = IF w >= 1 THEN w ELSE 1
  BY <1>8, MaxOfTwo
<1> HIDE DEF v
<1>10. v \in Int /\ Cent * v + 2 * Cent >= x /\ (Cent * v <= x \/ Cent * v = Cent)
  BY <1>4, <1>6, <1>7, <1>8, <1>9, Units
<1>11. Amounts(o) = <<k, Cent * v>>
  BY <1>1 DEF g, m, w, v
<1> QED BY <1>1, <1>3, <1>10, <1>11, Units DEF x, p, k

-------------------------------------------------------------------------------
(* The signed amounts are those of the intent. *)

SignedAs(o) == WellFormed(o) /\ order = o /\ amounts = Amounts(o) /\ HasAmounts

LEMMA PriceOfShares ==
  ASSUME NEW n \in Nat, n >= 1, NEW p \in Nat
  PROVE  (n * p) \div n = p
<1>1. n * p \in Nat /\ n > 0
  OBVIOUS
<1> DEFINE x == n * p
           y == x \div n
<1> HIDE DEF x
<1>2. y \in Int /\ n * y <= x /\ x < n * (y + 1)
  BY <1>1 DEF x
<1> HIDE DEF y
<1>3. CASE y <= p - 1
  <2>1. n * (y + 1) <= n * p
    BY <1>2, <1>3, TimesLess
  <2> QED BY <1>1, <1>2, <2>1 DEF x
<1>4. CASE y >= p + 1
  <2>1. n * (p + 1) <= n * y /\ n * (p + 1) = n * p + n
    BY <1>2, <1>4, TimesLess
  <2> QED BY <1>1, <1>2, <2>1 DEF x
<1>5. CASE y = p
  BY <1>5 DEF x, y
<1> QED BY <1>2, <1>3, <1>4, <1>5

LEMMA PricesAre ==
  ASSUME NEW tick \in TickSizes, NEW p \in Int
  PROVE  MarketPrice(p, tick) <=> p \in MarketPrices(tick)
<1>1. ASSUME MarketPrice(p, tick) PROVE p \in MarketPrices(tick)
  <2> DEFINE n == p \div tick
  <2>1. p = n * tick /\ n \in Int
    BY <1>1, Units DEF MarketPrice
  <2>2. n \in 1..(Dollar \div tick)
    <3>1. p \in 100..9900
      BY <1>1 DEF MarketPrice
    <3>2. CASE tick = 1000 BY <2>1, <3>1, <3>2, Units
    <3>3. CASE tick = 100 BY <2>1, <3>1, <3>3, Units
    <3>4. CASE tick = 10 BY <2>1, <3>1, <3>4, Units
    <3>5. CASE tick = 1 BY <2>1, <3>1, <3>5, Units
    <3> QED BY <3>2, <3>3, <3>4, <3>5, Units
  <2> QED BY <1>1, <2>1, <2>2 DEF MarketPrice, MarketPrices
<1>2. ASSUME p \in MarketPrices(tick) PROVE MarketPrice(p, tick)
  <2>1. PICK n \in 1..(Dollar \div tick) : p = n * tick
    BY <1>2 DEF MarketPrices
  <2>2. p % tick = 0
    BY <2>1, Units
  <2> QED BY <1>2, <2>2 DEF MarketPrice, MarketPrices
<1> QED BY <1>1, <1>2

LEMMA TickKept ==
  ASSUME NEW o, SignedAs(o)
  PROVE  TickRule
<1> SUFFICES ASSUME o.type = "GTD" PROVE TickRule
  BY DEF TickRule, SignedAs
<1> DEFINE p == SnapPrice(o.price, o.tick)
           k == Found(o, EnoughLimit(o, p))
<1>1. Snapped(o.price, o.tick)
  BY SnapNearest DEF SignedAs, WellFormed
<1>2. p \in Int
  <2>1. \E n \in Nat : p = o.tick * n
    BY <1>1 DEF Snapped
  <2>2. o.tick \in Nat
    BY Units DEF SignedAs, WellFormed
  <2> HIDE DEF p
  <2> QED BY <2>1, <2>2
<1>3. SignedDollars = SignedShares * p /\ SignedShares \in Nat /\ SignedShares >= 1
  <2>1. CASE o.side = "BUY"
    <3>1. amounts = IF k = 0 THEN NoAmounts ELSE <<k * Lot * p, k>>
      BY <2>1, LimitSigned DEF SignedAs
    <3> HIDE DEF p, k
    <3>2. amounts[1] = k * Lot * p /\ amounts[2] = k
      BY <3>1 DEF SignedAs, HasAmounts, NoAmounts
    <3>3. k \in Nat
      BY LimitLots, <2>1 DEF SignedAs, k, p
    <3>4. k * Lot * p = Lot * k * p
      BY <1>2, <3>3, Units
    <3> QED BY <2>1, <3>2, <3>3, <3>4, Units DEF SignedDollars, SignedShares, SignedAs, HasAmounts
  <2>2. CASE o.side = "SELL"
    <3> DEFINE n == Lots(o.size)
    <3>1. amounts = IF n = 0 THEN NoAmounts ELSE <<n, n * Lot * p>>
      BY <2>2, LimitSigned DEF SignedAs
    <3>2. n \in Nat
      BY Units DEF Lots, SignedAs, WellFormed
    <3> HIDE DEF p, n
    <3>3. amounts[1] = n /\ amounts[2] = n * Lot * p
      BY <3>1 DEF SignedAs, HasAmounts, NoAmounts
    <3>4. n * Lot * p = Lot * n * p
      BY <1>2, <3>2, Units
    <3> QED BY <2>2, <3>2, <3>3, <3>4, Units DEF SignedDollars, SignedShares, SignedAs, HasAmounts
  <2> QED BY <2>1, <2>2 DEF SignedAs, WellFormed
<1>4. o.tick \in TickSizes /\ o.tick \in Int
  BY Units DEF SignedAs, WellFormed
<1>5. MarketPrice(p, o.tick)
  BY <1>1, <1>2, <1>4, PricesAre DEF Snapped
<1>6. SignedDollars \div SignedShares = p
  <2> HIDE DEF p
  <2>1. p \in Nat
    BY <1>5 DEF MarketPrice
  <2> QED BY <1>3, <2>1, PriceOfShares
<1>7. ASSUME NEW other \in {p - o.tick, p + o.tick}, MarketPrice(other, o.tick)
      PROVE  Apart(p, o.price) <= Apart(other, o.price)
  <2>1. other \in Int
    BY <1>2, <1>4
  <2>2. other \in MarketPrices(o.tick)
    BY <1>4, <1>7, <2>1, PricesAre
  <2> QED BY <1>1, <2>2 DEF Snapped
<1>8. o = order
  BY DEF SignedAs
<1> HIDE DEF p
<1> QED BY <1>3, <1>5, <1>6, <1>7, <1>8 DEF TickRule

LEMMA LimitIsKept ==
  ASSUME NEW o, SignedAs(o)
  PROVE  LimitKept
<1> DEFINE p == BookPrice(o.side, o.price, o.tick)
           d == SignedDollars
           n == SignedShares
<1>1. o.price \in Nat /\ o.tick \in Nat
  BY Units DEF SignedAs, WellFormed, Priced
<1>2. CASE o.side = "BUY" /\ o.type = "FAK"
  <2> DEFINE k == amounts[2]
             s == SpentOn(k, p)
  <2>1. /\ k \in Nat /\ d \in Int /\ n = Lot * k
        /\ d + Cent >= s /\ d <= s /\ s \in Nat /\ s >= k * Lot * p /\ s <= k * Lot * p + Cent
    BY <1>2, BookBuy DEF SignedAs, SignedDollars, SignedShares
  <2>2. p \in Nat /\ p >= o.price /\ p <= o.price + o.tick
    BY <1>2, BookPriced DEF SignedAs
  <2> HIDE DEF p, d, n, s
  <2>3. n \in Nat /\ k * Lot * p = n * p
    BY <2>1, <2>2, Units
  <2>4. n * p >= n * o.price /\ n * p <= n * (o.price + 2 * o.tick) /\ n * p \in Nat
        /\ n * o.price \in Nat /\ n * (o.price + 2 * o.tick) \in Nat
    BY <1>1, <2>2, <2>3, TimesLess
  <2>5. d + Cent >= n * o.price /\ d <= n * (o.price + 2 * o.tick) + 2 * Cent
    BY <2>1, <2>3, <2>4, Units
  <2> QED BY <1>2, <2>5 DEF LimitKept, SignedFor, SignedAs, d, n
<1>3. CASE o.side = "SELL" /\ o.type = "FAK"
  <2> DEFINE k == amounts[1]
  <2>1. /\ k \in Nat /\ d \in Int /\ n = Lot * k
        /\ d + 2 * Cent >= k * Lot * p
        /\ d <= k * Lot * p \/ d = Cent
    BY <1>3, BookSell DEF SignedAs, HasAmounts, SignedDollars, SignedShares
  <2>2. p \in Nat /\ p <= o.price /\ p + o.tick >= o.price
    BY <1>3, BookPriced DEF SignedAs
  <2> HIDE DEF p, d, n
  <2>3. n \in Nat /\ k * Lot * p = n * p
    BY <2>1, <2>2, Units
  <2>4. n * p <= n * o.price /\ n * p >= n * (o.price - 2 * o.tick) /\ n * p \in Nat
        /\ n * o.price \in Nat /\ n * (o.price - 2 * o.tick) \in Int
    BY <1>1, <2>2, <2>3, TimesLess
  <2> DEFINE x == n * o.price
             y == n * (o.price - 2 * o.tick)
             z == n * p
  <2> HIDE DEF x, y, z
  <2>5. z <= x /\ z >= y /\ z \in Nat /\ x \in Nat /\ y \in Int
    BY <2>4 DEF x, y, z
  <2>6. d + 2 * Cent >= z /\ (d <= z \/ d = Cent)
    BY <2>1, <2>3 DEF z
  <2>7. Max({x, Cent}) = IF x >= Cent THEN x ELSE Cent
    BY <2>5, MaxOfTwo, Units
  <2>8. d <= Max({x, Cent}) /\ d + 2 * Cent >= y
    BY <2>1, <2>5, <2>6, <2>7, Units
  <2> QED BY <1>3, <2>8 DEF LimitKept, SignedFor, SignedAs, d, n, x, y
<1>4. CASE o.type # "FAK"
  BY <1>4 DEF LimitKept, SignedFor, SignedAs
<1> QED BY <1>2, <1>3, <1>4 DEF SignedAs, WellFormed

LEMMA WholeSold ==
  ASSUME NEW i, IntentOK(i), i = intent, Sized(i) # NoOrder, SignedAs(Sized(i))
  PROVE  WholePosition
<1> DEFINE o == Sized(i)
<1> SUFFICES ASSUME o.side = "SELL", i.held > 0
             PROVE  SignedShares <= i.held /\ i.held - SignedShares < 2 * Lot
  BY DEF WholePosition, SignedAs
<1>1. o.size = i.held
  <2>1. i.held \in Nat /\ Max({i.held} \cup {0}) = i.held
    BY HeldShares DEF IntentOK
  <2>2. i.kind \in {"sell", "trail", "stop", "tp"}
    BY DEF IntentOK, Sized, MarketBuy, AutoBuy
  <2>3. CASE i.kind = "sell"
    BY <2>1, <2>3 DEF Sized, MarketSell
  <2>4. CASE i.kind = "trail"
    BY <2>1, <2>4 DEF Sized, TrailingSell
  <2>5. CASE i.kind = "stop"
    BY <2>1, <2>5 DEF Sized, StopLossSell
  <2>6. CASE i.kind = "tp"
    BY <2>1, <2>6 DEF Sized, TakeProfitSell
  <2> QED BY <2>2, <2>3, <2>4, <2>5, <2>6
<1>2. SignedShares = Lot * amounts[1] /\ o.size \in Nat /\ amounts[1] > 0
  BY DEF SignedShares, SignedAs, WellFormed, HasAmounts
<1>3. CASE o.type = "FAK"
  <2>1. amounts[1] = SoldLots(o)
    BY <1>2, <1>3, BookSell DEF SignedAs
  <2>2. SoldLots(o) \in Int /\ 10 * SoldLots(o) <= o.size /\ 10 * SoldLots(o) + 10 >= o.size
    BY <1>2, RoundedDown, Units DEF SoldLots
  <2> QED BY <1>1, <1>2, <2>1, <2>2, Units
<1>4. CASE o.type = "GTD"
  <2>1. amounts[1] = Lots(o.size)
    BY <1>2, <1>4, LimitSigned DEF SignedAs, NoAmounts
  <2> QED BY <1>1, <1>2, <2>1, Units DEF Lots
<1> QED BY <1>3, <1>4 DEF SignedAs, WellFormed

-------------------------------------------------------------------------------
(* A BUY spends what was asked for. *)

\* A snapped price is at most a tick over, and at most half a tick under unless it is the highest.
LEMMA SnapClose ==
  ASSUME NEW p, Priced(p), NEW tick \in TickSizes
  PROVE  LET s == SnapPrice(p, tick)
         IN  s \in Nat /\ s >= 1 /\ s <= p + tick /\ (s + tick \div 2 >= p \/ s + tick > 9900)
<1>0. p \in Nat /\ 100 <= p /\ p <= 9900
  BY DEF Priced
<1>1. SnapPrice(p, 1000) = 1000 * Nearest(p, 1000, 1, 9)
  BY SnapIs DEF CeilDiv
<1>2. SnapPrice(p, 100) = 100 * Nearest(p, 100, 1, 99)
  BY SnapIs DEF CeilDiv
<1>3. SnapPrice(p, 10) = 10 * Nearest(p, 10, 10, 990)
  BY SnapIs DEF CeilDiv
<1>4. SnapPrice(p, 1) = 1 * Nearest(p, 1, 100, 9900)
  BY SnapIs DEF CeilDiv
<1>5. CASE tick = 1000
  BY <1>0, <1>1, <1>5 DEF Nearest
<1>6. CASE tick = 100
  BY <1>0, <1>2, <1>6 DEF Nearest
<1>7. CASE tick = 10
  BY <1>0, <1>3, <1>7 DEF Nearest
<1>8. CASE tick = 1
  BY <1>0, <1>4, <1>8 DEF Nearest
<1> QED BY <1>5, <1>6, <1>7, <1>8 DEF TickSizes

\* What a BUY asks for: the dollars of its intent less a cent at most, else what its size costs.
LEMMA AskedFor ==
  ASSUME NEW o, WellFormed(o), NEW p \in Nat
  PROVE  LET a == Asked(o, p)
         IN  /\ a \in Int
             /\ o.notional # 0 => a <= Cent * o.notional /\ a + Cent >= Cent * o.notional
             /\ o.notional = 0 => a <= o.size * p + Cent /\ a >= 0
<1>1. o.notional \in Nat /\ o.size \in Nat /\ o.size * p \in Nat
  BY DEF WellFormed
<1>2. CASE o.notional # 0
  <2> DEFINE w == WireCents(o.notional)
  <2>1. w \in Int /\ (w = o.notional \/ w = o.notional - 1)
    BY <1>1, Wired
  <2>2. Asked(o, p) = Cent * w
    BY <1>2 DEF Asked
  <2> HIDE DEF w
  <2> QED BY <1>1, <1>2, <2>1, <2>2, Units
<1>3. CASE o.notional = 0
  <2> DEFINE u == UpToHundredth(o.size * p, Cent)
  <2>1. u \in Nat /\ Cent * u <= o.size * p + Cent
    BY <1>1, CentsUp
  <2>2. Asked(o, p) = Cent * u
    BY <1>3 DEF Asked
  <2> HIDE DEF u
  <2> QED BY <1>1, <1>3, <2>1, <2>2, Units
<1> QED BY <1>2, <1>3

\* The lots a BUY is sized at, and those the search ends at, cost no more than the bound.
LEMMA LotsCost ==
  ASSUME NEW o, WellFormed(o), NEW p \in Nat, p <= o.price + o.tick, NEW k \in Nat, k >= First(o),
         k = First(o) \/ (k - 1) * Lot * p < Asked(o, p)
  PROVE  k * Lot * p <= Max({Cent * o.notional, o.size * o.price}) + Lot * k * 2 * o.tick + Lot * o.price + Cent
<1> DEFINE size == o.size
           price == o.price
           tick == o.tick
           a == Asked(o, p)
           asked == Cent * o.notional
           first == First(o)
           m == Max({asked, size * price})
           n == Lot * k
<1>1. /\ size \in Nat /\ price \in Nat /\ tick \in Nat /\ o.notional \in Nat /\ asked \in Nat /\ asked >= 0
  BY Units DEF WellFormed, Priced
<1>2. first \in Nat /\ first >= 1 /\ Lot * first >= size /\ Lot * first <= size + Lot
  BY <1>1, FirstLots, Units
<1>3. a \in Int /\ (o.notional # 0 => a <= asked) /\ (o.notional = 0 => a <= size * p + Cent)
  BY AskedFor
<1> HIDE DEF size, price, tick, a, asked, first
<1>4. size * price \in Nat
  BY <1>1
<1>5. m \in Nat /\ m >= asked /\ m >= size * price
  <2> DEFINE y == size * price
  <2> HIDE DEF y
  <2>1. y \in Nat
    BY <1>4 DEF y
  <2>2. Max({asked, y}) = IF asked >= y THEN asked ELSE y
    BY <1>1, <2>1, MaxOfTwo
  <2> QED BY <1>1, <2>1, <2>2 DEF y
<1> HIDE DEF m
<1>6. n \in Nat /\ k * Lot * p = n * p /\ n >= Lot * first /\ n >= Lot
  BY <1>2, Units DEF first
<1>7. p <= price + tick
  BY DEF price, tick
<1>8. Lot * k * 2 * tick = n * (2 * tick)
  BY <1>1, Units
<1>9. CASE k = first
  <2>1. n <= size + Lot
    BY <1>2, <1>9
  <2> HIDE DEF n
  <2>2. n * p <= n * (price + tick)
    BY <1>1, <1>6, <1>7, TimesLess
  <2>3. n * (price + tick) = n * price + n * tick
    BY <1>1, <1>6
  <2>4. price * n <= price * (size + Lot)
    BY <1>1, <1>6, <2>1, TimesLess, Units
  <2>5. price * n = n * price /\ price * (size + Lot) = size * price + Lot * price
    BY <1>1, <1>6, Units
  <2>6. n * tick \in Nat /\ n * (2 * tick) = n * tick + n * tick
    BY <1>1, <1>6
  <2>7. n * p \in Nat /\ n * price \in Nat /\ Lot * price \in Nat
    BY <1>1, <1>6, Units
  <2>8. n * p <= m + n * (2 * tick) + Lot * price + Cent
    BY <1>4, <1>5, <2>2, <2>3, <2>4, <2>5, <2>6, <2>7, Units
  <2> QED BY <1>6, <1>8, <2>8 DEF size, price, tick, m, asked
<1>10. CASE k # first
  <2>1. (k - 1) * Lot * p < a /\ k > first
    BY <1>2, <1>10 DEF first, a
  <2>2. n >= Lot * first + Lot
    BY <1>2, <2>1, Units
  <2>3. (k - 1) * Lot * p = n * p - Lot * p
    BY Units
  <2> HIDE DEF n
  <2>4. Lot * p <= Lot * (price + tick) /\ Lot * (price + tick) = Lot * price + Lot * tick /\ Lot * p \in Nat
        /\ Lot * price \in Nat /\ Lot * tick \in Nat
    BY <1>1, <1>7, TimesLess, Units
  <2>5. n * p \in Nat /\ n * (2 * tick) \in Nat
    BY <1>1, <1>6
  <2>6. CASE o.notional # 0
    <3>1. n * p < m + Lot * price + Lot * tick
      BY <1>3, <1>5, <2>1, <2>3, <2>4, <2>5, <2>6, <1>1
    <3>2. tick * Lot <= tick * n /\ tick * Lot = Lot * tick /\ tick * n = n * tick /\ n * (2 * tick) = 2 * (n * tick)
          /\ n * tick \in Nat
      BY <1>1, <1>6, TimesLess, Units
    <3> QED BY <1>5, <1>6, <1>8, <2>4, <2>5, <3>1, <3>2, Units DEF size, price, tick, m, asked
  <2>7. CASE o.notional = 0
    <3>1. n * p < size * p + Cent + Lot * price + Lot * tick
      BY <1>1, <1>3, <2>1, <2>3, <2>4, <2>5, <2>7, Units
    <3>2. size * p <= size * (price + tick) /\ size * (price + tick) = size * price + size * tick /\ size * tick \in Nat
          /\ size * p \in Nat
      BY <1>1, <1>7, TimesLess
    <3>3. size + Lot <= n
      BY <1>1, <1>2, <1>6, <2>2, Units
    <3>4. tick * (size + Lot) <= tick * n
      BY <1>1, <1>6, <3>3, TimesLess, Units
    <3>5. tick * (size + Lot) = size * tick + Lot * tick /\ tick * n = n * tick /\ n * (2 * tick) = 2 * (n * tick)
          /\ n * tick \in Nat
      BY <1>1, <1>6, Units
    <3> QED BY <1>4, <1>5, <1>6, <1>8, <2>4, <2>5, <3>1, <3>2, <3>4, <3>5, Units DEF size, price, tick, m, asked
  <2> QED BY <2>6, <2>7
<1> QED BY <1>9, <1>10 DEF first

\* The first lots a market BUY tries already spend what was asked for, unless the book is above the
\* highest price the program signs for.
LEMMA FirstSpends ==
  ASSUME NEW i, IntentOK(i), i.kind = "buy", i.book <= 9900
  PROVE  LET o == Sized(i)
             p == BookPrice(o.side, o.price, o.tick)
         IN  SpentOn(First(o), p) >= Asked(o, p)
<1> DEFINE o == Sized(i)
           p == BookPrice(o.side, o.price, o.tick)
           ask == i.book
           c == CeilDiv(i.usd * Cent, ask)
           f == First(o)
           u == UpToHundredth(f * Lot * p, Cent)
<1>1. ask \in Nat /\ ask > 0 /\ ask <= 9900 /\ i.usd \in Nat /\ i.slip \in Nat
  BY DEF IntentOK
<1>2. /\ o = MarketBuy(i.usd, i.book, i.slip, i.tick)
      /\ o.side = "BUY" /\ o.notional = i.usd /\ o.price = ClampProb(Up(ask, i.slip)) /\ o.size = Max({c, Lot})
  BY DEF Sized, MarketBuy
<1>3. WellFormed(o)
  <2>1. o # NoOrder
    BY <1>2 DEF MarketBuy, NoOrder
  <2> QED BY <2>1, SizedWell
<1>4. p \in Nat /\ p >= o.price
  BY <1>2, <1>3, BookPriced
<1>5. f \in Nat /\ f >= 1 /\ Lot * f >= o.size /\ (o.size <= Lot => f = 1) /\ o.size \in Nat
  <2>1. o.size \in Nat
    BY <1>3 DEF WellFormed
  <2> QED BY <1>3, <2>1, FirstLots, Units
<1>6. Asked(o, p) \in Int /\ (o.notional # 0 => Asked(o, p) <= Cent * o.notional)
  BY <1>3, <1>4, AskedFor
<1>7. o.price >= ask
  <2> DEFINE raised == Up(ask, i.slip)
  <2>1. raised \in Int /\ raised >= ask
    <3>1. ask * (10000 + i.slip) = 10000 * ask + ask * i.slip /\ ask * i.slip \in Nat
      BY <1>1
    <3>2. PICK x \in Nat : x = ask * i.slip
      BY <3>1
    <3>3. raised = (10000 * ask + x + 10000 - 1) \div 10000
      BY <3>1, <3>2 DEF Up, CeilDiv
    <3> HIDE DEF raised
    <3> QED BY <1>1, <3>2, <3>3
  <2> HIDE DEF raised
  <2>2. ClampProb(raised) = IF raised < 100 THEN 100 ELSE IF raised > 9900 THEN 9900 ELSE raised
    BY <2>1, Clamped
  <2> QED BY <1>1, <1>2, <2>1, <2>2 DEF raised
<1>8. c \in Nat /\ c * ask >= i.usd * Cent /\ (i.usd = 0 => c = 0)
  <2>1. PICK x \in Nat : x = i.usd * Cent
    BY <1>1, Units
  <2>2. c = (x + ask - 1) \div ask
    BY <2>1 DEF CeilDiv
  <2>3. i.usd = 0 => x = 0
    BY <2>1, Units
  <2> HIDE DEF c, ask
  <2>4. c \in Nat /\ c * ask >= x
    BY <1>1, <2>2
  <2>5. x = 0 => c = 0
    BY <1>1, <2>2
  <2> QED BY <2>1, <2>3, <2>4, <2>5
<1>9. o.size = IF c >= Lot THEN c ELSE Lot
  BY <1>2, <1>8, MaxOfTwo, Units
<1> HIDE DEF o, p, ask, c, f
<1>10. f * Lot * p \in Nat
  BY <1>4, <1>5, Units
<1>11. u \in Nat /\ Cent * u >= f * Lot * p
  BY <1>10, CentsUp
<1>12. SpentOn(f, p) = Cent * u
  BY DEF SpentOn
<1>13. CASE i.usd = 0
  <2>1. f = 1 /\ o.size = Lot /\ o.notional = 0
    BY <1>2, <1>5, <1>8, <1>9, <1>13, Units
  <2>2. Asked(o, p) = Cent * UpToHundredth(Lot * p, Cent)
    BY <2>1 DEF Asked
  <2>3. f * Lot * p = Lot * p
    BY <1>4, <2>1, Units
  <2>4. SpentOn(f, p) = Asked(o, p)
    BY <1>12, <2>2, <2>3
  <2> QED BY <1>6, <2>4 DEF o, p, f
<1>14. CASE i.usd # 0
  <2> HIDE DEF u
  <2>1. f * Lot * p >= c * ask
    <3>1. PICK n \in Nat : n = f * Lot
      BY <1>5, Units
    <3>2. n >= c
      BY <1>5, <1>8, <1>9, <3>1, Units
    <3>3. n * p >= n * ask
      BY <1>1, <1>4, <1>7, <3>1, <1>3, TimesLess DEF WellFormed, Priced
    <3>4. ask * n >= ask * c /\ ask * n = n * ask /\ ask * c = c * ask
      BY <1>1, <1>8, <3>1, <3>2, TimesLess
    <3>5. n * p \in Nat /\ n * ask \in Nat /\ c * ask \in Nat
      BY <1>1, <1>4, <1>8, <3>1
    <3> QED BY <3>1, <3>3, <3>4, <3>5
  <2>2. c * ask \in Nat /\ i.usd * Cent = Cent * i.usd /\ Cent * i.usd \in Nat
    BY <1>1, <1>8, Units
  <2>3. Asked(o, p) <= Cent * i.usd
    BY <1>2, <1>6, <1>14
  <2> QED BY <1>6, <1>8, <1>10, <1>11, <1>12, <2>1, <2>2, <2>3, Units DEF o, p, f
<1> QED BY <1>1, <1>13, <1>14

LEMMA NotionalIsKept ==
  ASSUME NEW i, IntentOK(i), i.kind = "buy" => i.book <= 9900, Sized(i) # NoOrder, SignedAs(Sized(i))
  PROVE  NotionalKept
<1> DEFINE o == Sized(i)
           d == SignedDollars
           k == amounts[2]
<1> SUFFICES ASSUME o.side = "BUY"
             PROVE  /\ d + 2 * Cent >= Cent * o.notional
                    /\ d <= Max({Cent * o.notional, o.size * o.price})
                            + SignedShares * 2 * o.tick + Lot * o.price + 2 * Cent
  BY DEF NotionalKept, SignedAs
<1>1. WellFormed(o) /\ amounts = Amounts(o) /\ d = amounts[1] /\ SignedShares = Lot * k /\ d > 0 /\ k > 0
  BY DEF SignedAs, SignedDollars, SignedShares, HasAmounts
<1>2. o.notional \in Nat /\ o.price \in Nat /\ o.tick \in Nat /\ o.size \in Nat
  BY <1>1, Units DEF WellFormed, Priced
<1> DEFINE m == Max({Cent * o.notional, o.size * o.price})
           most == m + Lot * k * 2 * o.tick + Lot * o.price
<1>3. m \in Nat
  <2> DEFINE x == Cent * o.notional
             y == o.size * o.price
  <2>1. x \in Nat /\ y \in Nat
    BY <1>2, Units
  <2> HIDE DEF x, y
  <2>2. Max({x, y}) \in Nat
    BY <2>1, MaxOfTwo
  <2> QED BY <2>2 DEF x, y
<1> HIDE DEF m
<1>4. CASE o.type = "GTD"
  <2> DEFINE p == SnapPrice(o.price, o.tick)
             first == First(o)
  <2>1. amounts = IF Found(o, EnoughLimit(o, p)) = 0 THEN NoAmounts
                  ELSE <<Found(o, EnoughLimit(o, p)) * Lot * p, Found(o, EnoughLimit(o, p))>>
    BY <1>1, <1>4, LimitSigned
  <2>2. k = Found(o, EnoughLimit(o, p)) /\ d = k * Lot * p /\ k # 0
    BY <1>1, <2>1 DEF NoAmounts
  <2>3. k \in Nat /\ k \in EnoughLimit(o, p)
    BY <1>1, <2>2, LimitLots
  <2>4. p \in Nat /\ p <= o.price + o.tick
    BY <1>1, SnapClose DEF WellFormed
  <2>5. first \in Nat /\ first >= 1
    BY <1>1, FirstLots
  <2> HIDE DEF p, first, k, d
  <2>6. k >= first /\ k <= first + BumpLimit /\ k * Lot * p >= Asked(o, p)
    BY <2>3, <2>5, OrderMathAssumption DEF EnoughLimit, first
  <2>7. k = first \/ (k - 1) * Lot * p < Asked(o, p)
    <3> SUFFICES ASSUME k # first PROVE (k - 1) * Lot * p < Asked(o, p)
      OBVIOUS
    <3> DEFINE enough == EnoughLimit(o, p)
    <3>1. enough \in SUBSET Nat /\ enough # {}
      BY <2>3, <2>5, OrderMathAssumption DEF EnoughLimit, first
    <3>2. k = Min(enough)
      BY <2>2, <3>1 DEF Found
    <3>3. \A j \in enough : k <= j
      BY <3>1, <3>2, LeastNatural
    <3>4. ~(k - 1 \in enough)
      BY <2>3, <3>3
    <3>5. k - 1 \in first..(first + BumpLimit)
      BY <2>3, <2>5, <2>6, OrderMathAssumption
    <3>6. ~((k - 1) * Lot * p >= Asked(o, p))
      BY <3>4, <3>5 DEF EnoughLimit, first
    <3>7. (k - 1) * Lot * p \in Int
      BY <2>3, <2>4, Units
    <3>8. Asked(o, p) \in Int
      BY <1>1, <2>4, AskedFor
    <3> QED BY <3>6, <3>7, <3>8
  <2>8. d <= most + Cent
    BY <1>1, <2>2, <2>3, <2>4, <2>6, <2>7, LotsCost DEF m, first
  <2>9. d \in Nat /\ most \in Nat
    BY <1>2, <1>3, <2>2, <2>3, <2>4, Units
  <2>10. d + 2 * Cent >= Cent * o.notional
    <3>1. Asked(o, p) \in Int /\ (o.notional # 0 => Asked(o, p) + Cent >= Cent * o.notional)
      BY <1>1, <2>4, AskedFor
    <3>2. o.notional = 0 => Cent * o.notional = 0
      BY Units
    <3> QED BY <1>2, <2>2, <2>6, <2>9, <3>1, <3>2, Units
  <2> HIDE DEF most
  <2>11. d <= most + 2 * Cent
    BY <2>8, <2>9, Units
  <2> QED BY <1>1, <2>10, <2>11 DEF most, m
<1>5. CASE o.type = "FAK"
  <2> DEFINE p == BookPrice(o.side, o.price, o.tick)
             first == First(o)
             s == SpentOn(k, p)
  <2>1. /\ k = BookLots(o, p) /\ k \in Nat /\ d \in Int /\ d + Cent >= s /\ d <= s /\ s \in Nat
        /\ s <= k * Lot * p + Cent
    BY <1>1, <1>5, BookBuy
  <2>2. p \in Nat /\ p <= o.price + o.tick
    BY <1>1, BookPriced
  <2>3. i.kind = "buy"
    BY <1>5 DEF Sized, IntentOK, AutoBuy, MarketSell, TrailingSell, StopLossSell, TakeProfitSell
  <2>4. SpentOn(first, p) >= Asked(o, p)
    BY <2>3, FirstSpends
  <2>5. first \in Nat /\ first >= 1
    BY <1>1, FirstLots
  <2> HIDE DEF p, first
  <2>6. k = first
    <3> DEFINE enough == EnoughBook(o, p)
    <3>1. enough \in SUBSET Nat /\ \A j \in enough : first <= j
      BY <2>5, OrderMathAssumption DEF EnoughBook, first
    <3>2. first \in enough
      <4>1. first \in first..(first + BumpLimit)
        BY <2>5, OrderMathAssumption
      <4> QED BY <2>4, <4>1 DEF EnoughBook, first
    <3> HIDE DEF enough
    <3>3. Found(o, enough) = first
      BY <2>5, <3>1, <3>2, FoundIs
    <3>4. first # 0
      BY <2>5
    <3> QED BY <2>1, <3>3, <3>4 DEF BookLots, enough, first
  <2> HIDE DEF k, d, s
  <2>7. k * Lot * p <= most + Cent
    BY <1>1, <2>1, <2>2, <2>5, <2>6, LotsCost DEF m, first
  <2>8. most \in Nat /\ k * Lot * p \in Nat
    BY <1>2, <1>3, <2>1, <2>2, Units
  <2>9. d + 2 * Cent >= Cent * o.notional
    <3>1. Asked(o, p) \in Int /\ (o.notional # 0 => Asked(o, p) + Cent >= Cent * o.notional)
          /\ (o.notional = 0 => Asked(o, p) >= 0)
      BY <1>1, <2>2, AskedFor
    <3>2. s >= Asked(o, p)
      BY <2>4, <2>6 DEF s
    <3>3. o.notional = 0 => Cent * o.notional = 0
      BY Units
    <3> QED BY <1>2, <2>1, <3>1, <3>2, <3>3, Units
  <2> HIDE DEF most
  <2>10. d <= most + 2 * Cent
    BY <2>1, <2>7, <2>8, Units
  <2> QED BY <1>1, <2>9, <2>10 DEF most, m
<1> QED BY <1>1, <1>4, <1>5 DEF WellFormed

-------------------------------------------------------------------------------
(* A take-profit earns its basis points. *)

\* The price a number of shares is sold at, from the dollars they are sold for.
LEMMA ProfitEarned ==
  ASSUME NEW i, IntentOK(i), i = intent, Sized(i) # NoOrder, SignedAs(Sized(i))
  PROVE  TakeProfitEarns
<1> DEFINE o == Sized(i)
           sold == SignedDollars \div SignedShares
           e == ClampProb(i.entry)
           target == e * Dollar + Fee(e) + i.bps * e
           p == SnapPrice(o.price, o.tick)
           n == Lots(o.size)
<1> SUFFICES ASSUME o.kind = "tp"
             PROVE  Net(sold + o.tick \div 2) >= target \/ sold + o.tick > 9900
  BY DEF TakeProfitEarns, SignedAs
<1>1. i.kind = "tp"
  BY DEF IntentOK, Sized, MarketBuy, MarketSell, AutoBuy, TrailingSell, StopLossSell
<1>2. i.entry \in Nat /\ i.bps \in Nat
  BY <1>1 DEF IntentOK
<1>3. /\ o.price = TakeProfitPrice(i.entry, i.bps) /\ o.price < 9900
      /\ o.side = "SELL" /\ o.type = "GTD"
  <2>1. o = TakeProfitSell(i.held, i.entry, i.bps, i.tick)
    BY <1>1 DEF Sized
  <2>2. Priced(TakeProfitPrice(i.entry, i.bps))
    BY <1>2, ProfitPrice
  <2>3. ~(TakeProfitPrice(i.entry, i.bps) >= 9900)
    BY <2>1 DEF TakeProfitSell
  <2>4. o.price = TakeProfitPrice(i.entry, i.bps) /\ o.side = "SELL" /\ o.type = "GTD"
    BY <2>1 DEF TakeProfitSell
  <2> HIDE DEF o
  <2> QED BY <2>2, <2>3, <2>4 DEF Priced
<1>4. Net(o.price) >= target
  BY <1>2, <1>3, ProfitPrice
<1>5. WellFormed(o) /\ Priced(o.price) /\ o.tick \in TickSizes /\ o.size \in Nat
  BY DEF SignedAs, WellFormed
<1>6. /\ p \in Nat /\ p >= 1
      /\ p + o.tick \div 2 >= o.price \/ p + o.tick > 9900
  BY <1>5, SnapClose
<1>7. sold = p
  <2>1. amounts = IF n = 0 THEN NoAmounts ELSE <<n, n * Lot * p>>
    BY <1>3, LimitSigned DEF SignedAs
  <2>2. n \in Nat
    BY <1>5, Units DEF Lots
  <2> HIDE DEF p, n
  <2>3. amounts[1] = n /\ amounts[2] = n * Lot * p /\ n > 0
    BY <2>1 DEF SignedAs, HasAmounts, NoAmounts
  <2>4. SignedShares = Lot * n /\ SignedDollars = n * Lot * p
    BY <1>3, <2>3 DEF SignedDollars, SignedShares, SignedAs
  <2>5. PICK x \in Nat : x = Lot * n
    BY <2>2, Units
  <2>6. x >= 1 /\ n * Lot * p = x * p
    BY <1>6, <2>2, <2>3, <2>5, Units
  <2>7. (x * p) \div x = p
    BY <1>6, <2>6, PriceOfShares
  <2> QED BY <2>4, <2>5, <2>6, <2>7
<1>8. CASE p + o.tick \div 2 >= o.price
  <2> DEFINE q == p + o.tick \div 2
  <2>1. q \in Nat
    BY <1>5, <1>6, Units
  <2> HIDE DEF q
  <2>2. Net(o.price) <= Net(q)
    BY <1>5, <1>8, <2>1, NetGrows DEF Priced, q
  <2>3. Net(o.price) \in Int /\ Net(q) \in Int
    BY <1>5, <2>1, FeeWhole DEF Priced
  <2>4. target \in Int
    <3>1. Priced(e)
      BY <1>2, ClampedIn
    <3>2. e \in Int /\ Fee(e) \in Int
      BY <3>1, FeeWhole DEF Priced
    <3> QED BY <1>2, <3>2, Units
  <2> HIDE DEF target
  <2>5. Net(q) >= target
    BY <1>4, <2>2, <2>3, <2>4
  <2> QED BY <1>7, <2>5 DEF q
<1> QED BY <1>6, <1>7, <1>8

-------------------------------------------------------------------------------
(* The order and its amounts stay what the intent came to. *)

OrderInv ==
  /\ intent \in Intents
  /\ stage \in {"intent", "sized", "signed", "live", "closed", "loaded"}
  /\ stage = "intent" => order = NoOrder /\ amounts = NoAmounts
  /\ stage = "sized" => order = Sized(intent) /\ order # NoOrder /\ amounts = NoAmounts
  /\ amounts # NoAmounts => order = Sized(intent) /\ order # NoOrder /\ amounts = Amounts(order)

LEMMA OrderInit == Init => OrderInv
  BY DEF Init, OrderInv

LEMMA OrderStep == OrderInv /\ [Next]_vars => OrderInv'
<1> SUFFICES ASSUME OrderInv, [Next]_vars PROVE OrderInv'
  OBVIOUS
<1> USE DEF OrderInv
<1>1. CASE Resolve
  BY <1>1 DEF Resolve
<1>2. CASE Sign
  BY <1>2 DEF Sign
<1>3. ASSUME NEW q, Post(q) PROVE OrderInv'
  BY <1>3 DEF Post
<1>4. ASSUME NEW q, NEW mint, NEW crowd, MakerMatch(q, mint, crowd) PROVE OrderInv'
  BY <1>4 DEF MakerMatch
<1>5. ASSUME NEW i, NEW status, Progress(i, status) PROVE OrderInv'
  BY <1>5 DEF Progress
<1>6. ASSUME NEW i, NEW together, Frame(i, together) PROVE OrderInv'
  BY <1>6 DEF Frame
<1>7. ASSUME NEW twice, NEW seen, NEW api, Load(twice, seen, api) PROVE OrderInv'
  BY <1>7 DEF Load
<1>8. CASE UNCHANGED vars
  BY <1>8 DEF vars
<1> QED BY <1>1, <1>2, <1>3, <1>4, <1>5, <1>6, <1>7, <1>8 DEF Next

LEMMA OrderKept == Spec => []OrderInv
  BY OrderInit, OrderStep, PTL DEF Spec

LEMMA SignedForIntent ==
  ASSUME OrderInv, HasAmounts
  PROVE  IntentOK(intent) /\ Sized(intent) # NoOrder /\ SignedAs(Sized(intent))
<1>1. amounts # NoAmounts
  BY DEF HasAmounts, NoAmounts
<1>2. IntentOK(intent) /\ order = Sized(intent) /\ Sized(intent) # NoOrder /\ amounts = Amounts(Sized(intent))
  BY <1>1, OrderLifeAssumption DEF OrderInv
<1> QED BY <1>2, SizedWell DEF SignedAs

\* What AsAsked says when the order has amounts; without, it says nothing.
LEMMA AsAskedFromInv ==
  ASSUME OrderInv, intent.kind = "buy" => intent.book <= 9900
  PROVE  AsAsked
<1>1. CASE HasAmounts
  <2> DEFINE o == Sized(intent)
  <2>1. IntentOK(intent) /\ o # NoOrder /\ SignedAs(o)
    BY <1>1, SignedForIntent
  <2>2. TickRule /\ LimitKept
    BY <2>1, TickKept, LimitIsKept
  <2>3. NotionalKept /\ WholePosition
    BY <2>1, NotionalIsKept, WholeSold
  <2> QED BY <2>2, <2>3 DEF AsAsked
<1>2. CASE ~HasAmounts
  BY <1>2 DEF AsAsked, TickRule, LimitKept, SignedFor, NotionalKept, WholePosition
<1> QED BY <1>1, <1>2

\* No market BUY meets a book above the highest price the program signs for.
BookSignable == \A i \in Intents : i.kind = "buy" => i.book <= 9900

\* AsAsked, unless a market BUY meets a book it may not be signed for: what resolve_market_order,
\* the automatic BUY and SELLs and amounts_for (trading.rs) sign is the intent's, at a price of
\* the market, for every tick, price, size, slippage and bound on the search for a BUY's lots.
THEOREM AsAskedHolds ==
  ASSUME BookSignable
  PROVE  Spec => []AsAsked
<1>1. OrderInv => AsAsked
  BY AsAskedFromInv DEF BookSignable, OrderInv
<1> QED BY <1>1, OrderKept, PTL

\* TakeProfitEarns: a take-profit (fees.rs) that is hit earns its basis points after both
\* taker's fees, for every entry, basis points, tick and size.
THEOREM TakeProfitEarnsHolds == Spec => []TakeProfitEarns
<1>1. OrderInv => TakeProfitEarns
  <2> SUFFICES ASSUME OrderInv PROVE TakeProfitEarns
    OBVIOUS
  <2>1. CASE HasAmounts
    BY <2>1, SignedForIntent, ProfitEarned
  <2>2. CASE ~HasAmounts
    BY <2>2 DEF TakeProfitEarns
  <2> QED BY <2>1, <2>2
<1> QED BY <1>1, OrderKept, PTL

-------------------------------------------------------------------------------
(* Sequences of anything. *)

IsSeq(s) == \E S : s \in Seq(S)

LEMMA Lengths == ASSUME NEW s, IsSeq(s) PROVE Len(s) \in Nat /\ DOMAIN s = 1..Len(s)
  BY DEF IsSeq

LEMMA SeqAppend ==
  ASSUME NEW s, IsSeq(s), NEW e
  PROVE  LET t == Append(s, e)
         IN  /\ IsSeq(t) /\ DOMAIN t = 1..(Len(s) + 1) /\ t[Len(s) + 1] = e
             /\ \A i \in DOMAIN s : t[i] = s[i]
<1>1. PICK S : s \in Seq(S)
  BY DEF IsSeq
<1> DEFINE T == S \cup {e}
<1>2. s \in Seq(T)
  <2>1. Len(s) \in Nat /\ DOMAIN s = 1..Len(s) /\ \A i \in 1..Len(s) : s[i] \in T
    BY <1>1
  <2>2. s = [i \in 1..Len(s) |-> s[i]]
    BY <1>1
  <2>3. s \in [1..Len(s) -> T]
    BY <2>1, <2>2
  <2> QED BY <2>1, <2>3
<1>3. e \in T
  OBVIOUS
<1> HIDE DEF T
<1>4. /\ Append(s, e) \in Seq(T) /\ Len(Append(s, e)) = Len(s) + 1
      /\ \A i \in 1..Len(s) : Append(s, e)[i] = s[i]
      /\ Append(s, e)[Len(s) + 1] = e
  BY <1>2, <1>3, AppendProperties
<1>5. DOMAIN Append(s, e) = 1..(Len(s) + 1) /\ DOMAIN s = 1..Len(s)
  BY <1>2, <1>4
<1> QED BY <1>4, <1>5 DEF IsSeq

LEMMA SeqExcept ==
  ASSUME NEW s, IsSeq(s), NEW i \in DOMAIN s, NEW v
  PROVE  LET t == [s EXCEPT ![i] = v]
         IN  IsSeq(t) /\ DOMAIN t = DOMAIN s /\ t[i] = v /\ \A j \in DOMAIN s : j # i => t[j] = s[j]
<1> DEFINE t == [s EXCEPT ![i] = v]
<1>1. PICK S : s \in Seq(S)
  BY DEF IsSeq
<1> DEFINE T == S \cup {v}
<1>2. Len(s) \in Nat /\ DOMAIN s = 1..Len(s) /\ \A j \in 1..Len(s) : s[j] \in T
  BY <1>1
<1>3. t = [j \in 1..Len(s) |-> IF j = i THEN v ELSE s[j]]
  BY <1>2
<1>4. t \in [1..Len(s) -> T]
  BY <1>2, <1>3
<1>5. t \in Seq(T)
  BY <1>2, <1>4
<1> QED BY <1>2, <1>3, <1>5 DEF IsSeq

-------------------------------------------------------------------------------
(* The trades of the exchange. *)

RowFields == {"id", "status", "side", "price", "asset", "taker", "role", "size", "amounts", "legs"}
IsTrade(t) == DOMAIN t = {"row", "mine"} /\ DOMAIN t.row = RowFields

\* A leg is the user's when an order of the user's is in it, and then says its share.
LegRight(leg, mine, token, side, plain) ==
  /\ leg.order \in Mine => leg.owner = Me
  /\ leg.owner = Me =>
       /\ leg.asset = token
       /\ plain => leg.side = side
       /\ \E s \in mine : s.order = leg.order /\ s.asset = token /\ s.qty = leg.qty /\ s.side = side

TakerRight(t, token, side) ==
  /\ t.row.role = "TAKER" /\ t.row.taker = "mine" /\ t.row.asset = token /\ t.row.side = side
  /\ \E cost : t.mine = {[order |-> "mine", asset |-> token, side |-> side, qty |-> t.row.size, cost |-> cost]}

MakerRight(t, token, side, plain, single) ==
  /\ t.row.role = "MAKER" /\ IsSeq(t.row.legs)
  /\ \A k \in DOMAIN t.row.legs : LegRight(t.row.legs[k], t.mine, token, side, plain)
  /\ Len(t.row.legs) = 1 => t.row.legs[1].owner = Me
  /\ single => \E k \in DOMAIN t.row.legs : \A j \in DOMAIN t.row.legs : t.row.legs[j].owner = Me <=> j = k

TradeRight(t, n, token, side, plain, single) ==
  /\ IsTrade(t) /\ t.row.id = n
  /\ TakerRight(t, token, side) \/ MakerRight(t, token, side, plain, single)

Plain == {"echoed_side", "no_leg_side"} \cap quirks = {}
Single == "two_own_legs" \notin quirks

\* What the status of a row says changes nothing of this.
LEMMA StatusIsAll ==
  ASSUME NEW t, NEW n, NEW token, NEW side, NEW plain, NEW single, TradeRight(t, n, token, side, plain, single),
         NEW status
  PROVE  LET u == [t EXCEPT !.row.status = status]
         IN  /\ TradeRight(u, n, token, side, plain, single)
             /\ u.mine = t.mine /\ u.row.role = t.row.role
<1> DEFINE r == [t.row EXCEPT !.status = status]
           u == [t EXCEPT !.row.status = status]
<1>1. DOMAIN t = {"row", "mine"} /\ DOMAIN t.row = RowFields
  BY DEF TradeRight, IsTrade
<1>2. u = [t EXCEPT !.row = r]
  OBVIOUS
<1>3. /\ DOMAIN r = RowFields /\ r.id = t.row.id /\ r.role = t.row.role /\ r.taker = t.row.taker
      /\ r.asset = t.row.asset /\ r.side = t.row.side /\ r.size = t.row.size /\ r.legs = t.row.legs
  BY <1>1 DEF RowFields
<1> HIDE DEF r
<1>4. DOMAIN u = {"row", "mine"} /\ u.row = r /\ u.mine = t.mine
  BY <1>1, <1>2
<1> HIDE DEF u
<1>5. TakerRight(t, token, side) => TakerRight(u, token, side)
  BY <1>3, <1>4 DEF TakerRight
<1>6. MakerRight(t, token, side, plain, single) => MakerRight(u, token, side, plain, single)
  BY <1>3, <1>4 DEF MakerRight
<1>7. TradeRight(u, n, token, side, plain, single)
  BY <1>1, <1>3, <1>4, <1>5, <1>6 DEF TradeRight, IsTrade
<1> QED BY <1>3, <1>4, <1>7 DEF u

TradesInv ==
  /\ IsSeq(trades)
  /\ stage \in {"intent", "sized", "signed"} => trades = <<>> /\ booked = {}
  /\ trades # <<>> \/ stage \in {"signed", "live"} => amounts # NoAmounts
  /\ DOMAIN left = Mine /\ left["mine2"] = 0 /\ listed \subseteq {"mine"}
  /\ \A n \in DOMAIN trades : TradeRight(trades[n], n, intent.token, order.side, Plain, Single)

LEMMA NothingIsSeq == IsSeq(<<>>) /\ DOMAIN <<>> = {} /\ Len(<<>>) = 0
<1>1. <<>> \in Seq({})
  OBVIOUS
<1> QED BY <1>1 DEF IsSeq

LEMMA TradesInit == Init => TradesInv
<1> SUFFICES ASSUME Init PROVE TradesInv
  OBVIOUS
<1>1. DOMAIN left = Mine /\ left["mine2"] = 0
  BY DEF Init, Mine
<1> QED BY <1>1, NothingIsSeq DEF Init, TradesInv

\* The trade of a POST that is filled.
LEMMA TakenRight ==
  ASSUME NEW q, NEW n, NEW price, NEW dollars, NEW cost, NEW token, NEW side, NEW plain, NEW single
  PROVE  LET t == [row |-> [id |-> n, status |-> "MATCHED", side |-> side, price |-> price, asset |-> token,
                            taker |-> "mine", role |-> "TAKER", size |-> q, amounts |-> dollars, legs |-> <<>>],
                   mine |-> {[order |-> "mine", asset |-> token, side |-> side, qty |-> q, cost |-> cost]}]
         IN  TradeRight(t, n, token, side, plain, single)
  BY DEF TradeRight, IsTrade, RowFields, TakerRight

\* The trade a resting order is in, alone, behind another maker's leg or behind the user's second.
LEMMA MatchedRight ==
  ASSUME NEW t, NEW n, NEW token, NEW side, NEW plain, NEW single, NEW own, NEW own2, NEW other,
         IsTrade(t), t.row.id = n, t.row.role = "MAKER",
         NEW crowd \in {"alone", "other", "own"}, crowd = "own" => ~single,
         t.row.legs = CASE crowd = "alone" -> <<own>> [] crowd = "other" -> <<other, own>>
                        [] crowd = "own" -> <<own2, own>>,
         LegRight(own, t.mine, token, side, plain), own.owner = Me,
         crowd = "own" => LegRight(own2, t.mine, token, side, plain),
         other.order = "theirs", other.owner = "them"
  PROVE  TradeRight(t, n, token, side, plain, single)
<1> DEFINE legs == t.row.legs
<1>0. LegRight(other, t.mine, token, side, plain) /\ other.owner # Me
  BY DEF LegRight, Mine, Me
<1> SUFFICES /\ IsSeq(legs)
             /\ \A k \in DOMAIN legs : LegRight(legs[k], t.mine, token, side, plain)
             /\ Len(legs) = 1 => legs[1].owner = Me
             /\ single => \E k \in DOMAIN legs : \A j \in DOMAIN legs : legs[j].owner = Me <=> j = k
  BY DEF TradeRight, MakerRight
<1>1. CASE crowd = "alone"
  <2>1. legs = <<own>>
    BY <1>1
  <2> HIDE DEF legs
  <2>2. legs \in Seq({own}) /\ DOMAIN legs = {1} /\ legs[1] = own
    BY <2>1
  <2>3. \A j \in DOMAIN legs : legs[j].owner = Me <=> j = 1
    BY <2>2
  <2>4. \E k \in DOMAIN legs : \A j \in DOMAIN legs : legs[j].owner = Me <=> j = k
    BY <2>2, <2>3
  <2> QED BY <2>2, <2>4 DEF IsSeq, legs
<1>2. CASE crowd = "other"
  <2>1. legs = <<other, own>>
    BY <1>2
  <2> HIDE DEF legs
  <2>2. legs \in Seq({other, own}) /\ DOMAIN legs = {1, 2} /\ legs[1] = other /\ legs[2] = own /\ Len(legs) = 2
    BY <2>1
  <2>3. \A j \in DOMAIN legs : legs[j].owner = Me <=> j = 2
    BY <1>0, <2>2
  <2>4. \E k \in DOMAIN legs : \A j \in DOMAIN legs : legs[j].owner = Me <=> j = k
    BY <2>2, <2>3
  <2> QED BY <1>0, <2>2, <2>4 DEF IsSeq, legs
<1>3. CASE crowd = "own"
  <2>1. legs = <<own2, own>> /\ ~single
    BY <1>3
  <2> HIDE DEF legs
  <2>2. legs \in Seq({own2, own}) /\ DOMAIN legs = {1, 2} /\ legs[1] = own2 /\ legs[2] = own /\ Len(legs) = 2
    BY <2>1
  <2> QED BY <1>3, <2>1, <2>2 DEF IsSeq, legs
<1> QED BY <1>1, <1>2, <1>3

LEMMA TradesPost ==
  ASSUME TradesInv, NEW q, Post(q)
  PROVE  TradesInv'
<1> USE DEF TradesInv
<1>1. stage = "signed" /\ trades = <<>> /\ amounts # NoAmounts /\ stage' \in {"live", "closed"}
  BY DEF Post
<1>2. intent' = intent /\ order' = order /\ quirks' = quirks /\ amounts' = amounts /\ booked' = booked
  BY DEF Post
<1>3. DOMAIN left' = Mine /\ left'["mine2"] = 0 /\ listed' \subseteq {"mine"}
  BY DEF Post
<1> DEFINE dollars == q * intent.book
           t == [row |-> Row(order.side, intent.book, intent.token, "mine", "TAKER", q,
                             IF order.side = "BUY" THEN <<dollars, q>> ELSE <<>>, <<>>),
                 mine |-> {Share_("mine", order.side, q, dollars)}]
<1>4. trades' = <<>> \/ trades' = Append(trades, t)
  BY <1>1 DEF Post
<1>5. TradeRight(t, 1, intent.token, order.side, Plain, Single)
  <2>1. Len(trades) + 1 = 1
    BY <1>1
  <2> QED BY <2>1, TakenRight DEF Row, Share_
<1> HIDE DEF t
<1>6. IsSeq(trades') /\ \A n \in DOMAIN trades' : TradeRight(trades'[n], n, intent.token, order.side, Plain, Single)
  <2>1. CASE trades' = <<>>
    BY <2>1, NothingIsSeq
  <2>2. CASE trades' = Append(trades, t)
    <3>1. IsSeq(trades') /\ DOMAIN trades' = 1..1 /\ trades'[1] = t
      <4>1. IsSeq(trades') /\ DOMAIN trades' = 1..(Len(trades) + 1) /\ trades'[Len(trades) + 1] = t
        BY <2>2, SeqAppend
      <4>2. Len(trades) + 1 = 1
        BY <1>1
      <4> QED BY <4>1, <4>2
    <3> QED BY <1>5, <3>1
  <2> QED BY <1>4, <2>1, <2>2
<1> QED BY <1>1, <1>2, <1>3, <1>6 DEF Plain, Single

LEMMA TradesMatch ==
  ASSUME OrderInv, TradesInv, NEW q, NEW mint, NEW crowd \in {"alone", "other", "own"}, MakerMatch(q, mint, crowd)
  PROVE  /\ TradesInv'
         /\ \E t : trades' = Append(trades, t) /\ t.row.role = "MAKER"
<1> USE DEF TradesInv
<1>1. stage = "live" /\ amounts # NoAmounts /\ stage' \in {"live", "closed"}
  BY DEF MakerMatch
<1>2. intent' = intent /\ order' = order /\ quirks' = quirks /\ amounts' = amounts /\ booked' = booked
  BY DEF MakerMatch
<1>3. DOMAIN left' = Mine /\ left'["mine2"] = 0 /\ listed' \subseteq {"mine"}
  BY DEF MakerMatch, Mine
<1> DEFINE side  == order.side
           price == SignedDollars \div SignedShares
           takes == IF mint THEN side ELSE Opposite(side)
           token == IF mint THEN Sibling(intent.token) ELSE intent.token
           own   == Leg("mine", Me, q, intent.token, price, LegSide(side, takes))
           own2  == Leg("mine2", Me, q, intent.token, price, LegSide(side, takes))
           met   == IF mint THEN Dollar - price ELSE price
           other == Leg("theirs", "them", 2 * q, token, met, LegSide(Opposite(takes), takes))
           legs  == CASE crowd = "alone" -> <<own>> [] crowd = "other" -> <<other, own>>
                      [] crowd = "own" -> <<own2, own>>
           mine  == {Share_("mine", side, q, q * price)}
                      \cup (IF crowd = "own" THEN {Share_("mine2", side, q, q * price)} ELSE {})
           all   == MapThenSumSet(LAMBDA i : legs[i].qty, DOMAIN legs)
           t     == [row |-> Row(takes, met, token, "theirs2", "MAKER", all, <<>>, legs), mine |-> mine]
<1>4. trades' = Append(trades, t)
  BY DEF MakerMatch
<1>5. crowd = "own" => ~Single
  BY DEF MakerMatch, Single
<1>6. /\ own.owner = Me /\ own.order = "mine" /\ own.asset = intent.token /\ own.qty = q
      /\ own2.owner = Me /\ own2.order = "mine2" /\ own2.asset = intent.token /\ own2.qty = q
      /\ own.side = LegSide(side, takes) /\ own2.side = LegSide(side, takes)
      /\ other.order = "theirs" /\ other.owner = "them"
  BY DEF Leg
<1>7. Plain => LegSide(side, takes) = side
  BY DEF Plain, LegSide
<1> HIDE DEF all, own, own2, other, takes
<1>8. t.row.id = Len(trades) + 1 /\ t.row.role = "MAKER" /\ t.row.legs = legs /\ t.mine = mine /\ IsTrade(t)
  BY DEF Row, IsTrade, RowFields
<1>9. LegRight(own, mine, intent.token, side, Plain)
  <2>1. \E s \in mine : s.order = "mine" /\ s.asset = intent.token /\ s.qty = q /\ s.side = side
    <3> DEFINE s == Share_("mine", side, q, q * price)
    <3>1. s \in mine
      OBVIOUS
    <3>2. s.order = "mine" /\ s.asset = intent.token /\ s.qty = q /\ s.side = side
      BY DEF Share_
    <3> HIDE DEF s, mine
    <3> QED BY <3>1, <3>2
  <2> HIDE DEF mine
  <2> QED BY <1>6, <1>7, <2>1 DEF LegRight
<1>10. crowd = "own" => LegRight(own2, mine, intent.token, side, Plain)
  <2>1. crowd = "own" => \E s \in mine : s.order = "mine2" /\ s.asset = intent.token /\ s.qty = q /\ s.side = side
    <3> DEFINE s == Share_("mine2", side, q, q * price)
    <3>1. crowd = "own" => s \in mine
      OBVIOUS
    <3>2. s.order = "mine2" /\ s.asset = intent.token /\ s.qty = q /\ s.side = side
      BY DEF Share_
    <3> HIDE DEF s, mine
    <3> QED BY <3>1, <3>2
  <2> HIDE DEF mine
  <2> QED BY <1>6, <1>7, <2>1 DEF LegRight
<1> HIDE DEF mine, t
<1>11. TradeRight(t, Len(trades) + 1, intent.token, side, Plain, Single)
  BY <1>5, <1>6, <1>8, <1>9, <1>10, MatchedRight
<1>12. /\ IsSeq(trades') /\ DOMAIN trades' = 1..(Len(trades) + 1) /\ trades'[Len(trades) + 1] = t
       /\ \A n \in DOMAIN trades : trades'[n] = trades[n]
  BY <1>4, SeqAppend
<1>13. Len(trades) \in Nat /\ DOMAIN trades = 1..Len(trades)
  BY Lengths
<1>14. \A n \in DOMAIN trades' : TradeRight(trades'[n], n, intent.token, order.side, Plain, Single)
  <2> TAKE n \in DOMAIN trades'
  <2>1. CASE n \in DOMAIN trades
    BY <1>12, <2>1
  <2>2. CASE n = Len(trades) + 1
    BY <1>11, <1>12, <2>2
  <2> QED BY <1>12, <1>13, <2>1, <2>2
<1> QED BY <1>1, <1>2, <1>3, <1>4, <1>8, <1>12, <1>14 DEF Plain, Single

-------------------------------------------------------------------------------
(* What the user channel takes from a row. *)

\* The leg that is taken for the user's is one.
LEMMA LegPicked ==
  ASSUME NEW t, NEW token, NEW side, NEW plain, NEW single, MakerRight(t, token, side, plain, single),
         NEW known, known \subseteq {"mine"}
  PROVE  LET i == WsLeg(t.row, known, Me)
         IN  /\ i # 0 => i \in DOMAIN t.row.legs /\ t.row.legs[i].owner = Me
             /\ single => i # 0
<1> DEFINE legs == t.row.legs
           inLedger == {k \in DOMAIN legs : legs[k].order \in known}
           owned == {k \in DOMAIN legs : legs[k].owner = Me}
           i == WsLeg(t.row, known, Me)
<1>1. Len(legs) \in Nat /\ DOMAIN legs = 1..Len(legs)
  BY Lengths DEF MakerRight
<1>2. \A k \in DOMAIN legs : legs[k].order \in known => legs[k].owner = Me
  BY DEF MakerRight, LegRight, Mine
<1>3. i = CASE inLedger # {} -> Min(inLedger)
            [] inLedger = {} /\ Cardinality(owned) = 1 -> Only(owned)
            [] inLedger = {} /\ Cardinality(owned) # 1 -> IF Len(legs) = 1 THEN 1 ELSE 0
  BY DEF WsLeg, Numbers
<1>4. IsFiniteSet(owned)
  <2>1. IsFiniteSet(1..Len(legs))
    BY <1>1, FS_Interval
  <2> QED BY <1>1, <2>1, FS_Subset
<1>5. CASE inLedger # {}
  <2>1. inLedger \in SUBSET Nat
    BY <1>1
  <2>2. Min(inLedger) \in inLedger
    BY <1>5, <2>1, LeastNatural
  <2> HIDE DEF i
  <2>3. i \in inLedger
    BY <1>3, <1>5, <2>2
  <2> QED BY <1>1, <1>2, <2>3 DEF i
<1>6. CASE inLedger = {} /\ Cardinality(owned) = 1
  <2>1. owned # {}
    BY <1>6, FS_EmptySet
  <2>2. Only(owned) \in owned
    BY <2>1 DEF Only
  <2> HIDE DEF i
  <2>3. i \in owned
    BY <1>3, <1>6, <2>2
  <2> QED BY <1>1, <2>3 DEF i
<1>7. CASE inLedger = {} /\ Cardinality(owned) # 1
  <2> HIDE DEF i
  <2>1. i = IF Len(legs) = 1 THEN 1 ELSE 0
    BY <1>3, <1>7
  <2>2. ~single
    <3> SUFFICES ASSUME single PROVE FALSE
      OBVIOUS
    <3>1. PICK k \in DOMAIN legs : \A j \in DOMAIN legs : legs[j].owner = Me <=> j = k
      BY DEF MakerRight
    <3>2. owned = {k}
      BY <3>1
    <3> QED BY <1>7, <3>2, FS_Singleton
  <2>3. Len(legs) = 1 => legs[1].owner = Me
    BY DEF MakerRight
  <2> QED BY <1>1, <2>1, <2>2, <2>3 DEF i
<1> QED BY <1>5, <1>6, <1>7

\* The fill a row is read as is the user's share of the trade.
IsShare(f, mine, plain) ==
  \E s \in mine : <<s.order, s.asset, s.qty>> = <<f.order, f.asset, f.qty>> /\ (plain => s.side = f.side)

\* What the ledger says of the user's orders when a row is read.
Ledger(known, sides, side) == known \subseteq {"mine"} /\ \A o \in DOMAIN sides : sides[o] = side

LEMMA FillRight ==
  ASSUME NEW t, NEW n, NEW token, token \in Pair, NEW side, side \in {"BUY", "SELL"}, NEW plain, NEW single,
         TradeRight(t, n, token, side, plain, single),
         NEW known, NEW sides, Ledger(known, sides, side),
         NEW f, f \in WsFills(t.row, known, sides, Me)
  PROVE  f.id = n /\ IsShare(f, t.mine, plain)
<1> USE DEF Ledger
<1>1. token # NoValue /\ side # NoValue /\ t.row.id = n
  BY TradeRowsAssumption DEF TradeRight
<1>2. CASE TakerRight(t, token, side)
  <2>1. f = WsTakerFill(t.row, sides)
    BY <1>2 DEF WsFills, TakerRight
  <2>2. f.id = n /\ f.order = "mine" /\ f.asset = token /\ f.qty = t.row.size /\ f.side = side
    BY <1>1, <1>2, <2>1 DEF WsTakerFill, WsSide, TakerRight
  <2>3. \E s \in t.mine : s.order = "mine" /\ s.asset = token /\ s.qty = t.row.size /\ s.side = side
    <3>1. PICK cost : t.mine = {[order |-> "mine", asset |-> token, side |-> side, qty |-> t.row.size, cost |-> cost]}
      BY <1>2 DEF TakerRight
    <3> QED BY <3>1
  <2> QED BY <2>2, <2>3 DEF IsShare
<1>3. CASE MakerRight(t, token, side, plain, single)
  <2> DEFINE i == WsLeg(t.row, known, Me)
             leg == t.row.legs[i]
  <2>1. i # 0 /\ f = WsMakerFill(t.row, sides, leg)
    BY <1>3 DEF WsFills, MakerRight
  <2>2. i \in DOMAIN t.row.legs /\ leg.owner = Me
    BY <1>3, <2>1, LegPicked
  <2>3. LegRight(leg, t.mine, token, side, plain)
    BY <1>3, <2>2 DEF MakerRight
  <2> HIDE DEF leg
  <2>4. leg.asset = token /\ (plain => leg.side = side)
        /\ \E s \in t.mine : s.order = leg.order /\ s.asset = token /\ s.qty = leg.qty /\ s.side = side
    BY <2>2, <2>3 DEF LegRight
  <2>5. f.id = n /\ f.order = leg.order /\ f.asset = token /\ f.qty = leg.qty
    BY <1>1, <2>1, <2>4 DEF WsMakerFill, LegAsset
  <2>6. plain => f.side = side
    BY <1>1, <2>1, <2>4 DEF WsMakerFill, WsSide
  <2> QED BY <2>4, <2>5, <2>6 DEF IsShare
<1> QED BY <1>2, <1>3 DEF TradeRight

LEMMA FillFound ==
  ASSUME NEW t, NEW n, NEW token, NEW side, NEW plain, NEW single, TradeRight(t, n, token, side, plain, single),
         NEW known, known \subseteq {"mine"}, single, CountsAsFill(t.row.status)
  PROVE  WsFills(t.row, known, <<>>, Me) # {}
<1>1. CASE TakerRight(t, token, side)
  BY <1>1, TradeRowsAssumption DEF WsFills, TakerRight
<1>2. CASE MakerRight(t, token, side, plain, single)
  <2>1. WsLeg(t.row, known, Me) # 0
    BY <1>2, LegPicked
  <2> QED BY <1>2, <2>1, TradeRowsAssumption DEF WsFills, MakerRight
<1> QED BY <1>1, <1>2 DEF TradeRight

-------------------------------------------------------------------------------
(* Trades and fills, step by step. *)

BookedInv == \A f \in booked : f.id \in DOMAIN trades /\ IsShare(f, trades[f.id].mine, Plain)

\* A trade moves on: its row's status, and nothing else of it.
LEMMA TradesProgress ==
  ASSUME TradesInv, BookedInv, NEW i \in DOMAIN trades, NEW status, Progress(i, status)
  PROVE  /\ TradesInv' /\ BookedInv'
         /\ DOMAIN trades' = DOMAIN trades
         /\ \A n \in DOMAIN trades : trades'[n].mine = trades[n].mine /\ trades'[n].row.role = trades[n].row.role
<1> USE DEF TradesInv
<1>1. /\ intent' = intent /\ order' = order /\ quirks' = quirks /\ amounts' = amounts /\ booked' = booked
      /\ stage' = stage /\ left' = left /\ listed' = listed
  BY DEF Progress
<1> DEFINE u == [trades[i] EXCEPT !.row.status = status]
<1>2. trades' = [trades EXCEPT ![i] = u]
  BY DEF Progress
<1>3. /\ TradeRight(u, i, intent.token, order.side, Plain, Single)
      /\ u.mine = trades[i].mine /\ u.row.role = trades[i].row.role
  BY StatusIsAll
<1> HIDE DEF u
<1>4. /\ IsSeq(trades') /\ DOMAIN trades' = DOMAIN trades /\ trades'[i] = u
      /\ \A n \in DOMAIN trades : n # i => trades'[n] = trades[n]
  BY <1>2, SeqExcept
<1>5. \A n \in DOMAIN trades : trades'[n].mine = trades[n].mine /\ trades'[n].row.role = trades[n].row.role
  BY <1>3, <1>4
<1>6. \A n \in DOMAIN trades' : TradeRight(trades'[n], n, intent.token, order.side, Plain, Single)
  BY <1>3, <1>4
<1>7. trades # <<>>
  BY NothingIsSeq
<1>8. TradesInv'
  BY <1>1, <1>4, <1>6, <1>7 DEF Plain, Single
<1>9. BookedInv'
  BY <1>1, <1>4, <1>5 DEF BookedInv, Plain
<1> QED BY <1>4, <1>5, <1>8, <1>9

\* A frame books the user's share of its trade.
LEMMA TradesFrame ==
  ASSUME OrderInv, TradesInv, BookedInv, NEW i \in DOMAIN trades, NEW together \in BOOLEAN, Frame(i, together)
  PROVE  TradesInv' /\ BookedInv'
<1> USE DEF TradesInv
<1>1. /\ intent' = intent /\ order' = order /\ quirks' = quirks /\ amounts' = amounts /\ trades' = trades
      /\ stage' = stage /\ left' = left /\ listed' = listed
  BY DEF Frame
<1>2. trades # <<>>
  BY NothingIsSeq
<1>3. TradesInv'
  BY <1>1, <1>2 DEF Plain, Single
<1>4. intent.token \in Pair /\ order.side \in {"BUY", "SELL"}
  <2>1. IntentOK(intent) /\ order = Sized(intent) /\ order # NoOrder
    BY <1>2, OrderLifeAssumption DEF OrderInv
  <2>2. WellFormed(order)
    BY <2>1, SizedWell
  <2> QED BY <2>1, <2>2 DEF IntentOK, WellFormed
<1> DEFINE sides == [o \in listed \cup (IF together THEN {"mine"} ELSE {}) |-> order.side]
           fills == {f \in WsFills(trades[i].row, listed, sides, Me) :
                       f.asset \in Pair /\ \A g \in booked : g.id # f.id}
<1>5. booked' = booked \cup fills
  BY DEF Frame
<1>6. \A f \in fills : f.id = i /\ IsShare(f, trades[i].mine, Plain)
  <2> TAKE f \in fills
  <2>1. f \in WsFills(trades[i].row, listed, sides, Me) /\ \A o \in DOMAIN sides : sides[o] = order.side
    OBVIOUS
  <2> HIDE DEF sides, fills
  <2>2. TradeRight(trades[i], i, intent.token, order.side, Plain, Single)
    OBVIOUS
  <2>3. Ledger(listed, sides, order.side)
    BY <2>1 DEF Ledger
  <2> QED BY <1>4, <2>1, <2>2, <2>3, FillRight
<1> HIDE DEF fills
<1>7. BookedInv'
  BY <1>1, <1>5, <1>6 DEF BookedInv, Plain
<1> QED BY <1>3, <1>7

\* A resting order is met: the trades before, and what was booked of them, stay.
LEMMA BookedAppend ==
  ASSUME BookedInv, IsSeq(trades), NEW t, trades' = Append(trades, t), booked' = booked, quirks' = quirks
  PROVE  BookedInv'
<1>1. /\ DOMAIN trades' = 1..(Len(trades) + 1) /\ \A n \in DOMAIN trades : trades'[n] = trades[n]
      /\ DOMAIN trades = 1..Len(trades) /\ Len(trades) \in Nat
  BY SeqAppend, Lengths
<1> QED BY <1>1 DEF BookedInv, Plain

LEMMA TradesStep ==
  ASSUME OrderInv, TradesInv, BookedInv, [Next]_vars
  PROVE  TradesInv' /\ BookedInv'
<1>1. CASE Resolve
  <2>1. stage = "intent" /\ trades = <<>> /\ trades' = <<>> /\ booked' = {} /\ left' = left /\ listed' = listed
        /\ stage' \in {"sized", "closed"}
    BY <1>1 DEF Resolve, TradesInv
  <2> QED BY <2>1, NothingIsSeq DEF TradesInv, BookedInv
<1>2. CASE Sign
  <2>1. stage = "sized" /\ trades = <<>> /\ trades' = <<>> /\ booked' = {} /\ left' = left /\ listed' = listed
        /\ stage' \in {"signed", "closed"}
    BY <1>2 DEF Sign, TradesInv
  <2>2. stage' = "signed" => amounts' # NoAmounts
    BY <1>2 DEF Sign, NoAmounts
  <2> QED BY <2>1, <2>2, NothingIsSeq DEF TradesInv, BookedInv
<1>3. ASSUME NEW q, Post(q) PROVE TradesInv' /\ BookedInv'
  <2>1. booked' = {}
    BY <1>3 DEF Post, TradesInv
  <2> QED BY <1>3, <2>1, TradesPost DEF BookedInv
<1>4. ASSUME NEW q, NEW mint, NEW crowd \in {"alone", "other", "own"}, MakerMatch(q, mint, crowd)
      PROVE  TradesInv' /\ BookedInv'
  <2>1. TradesInv' /\ \E t : trades' = Append(trades, t)
    BY <1>4, TradesMatch
  <2>2. booked' = booked /\ quirks' = quirks
    BY <1>4 DEF MakerMatch
  <2>3. IsSeq(trades)
    BY DEF TradesInv
  <2> QED BY <2>1, <2>2, <2>3, BookedAppend
<1>5. ASSUME NEW i \in DOMAIN trades, NEW status, Progress(i, status) PROVE TradesInv' /\ BookedInv'
  BY <1>5, TradesProgress
<1>6. ASSUME NEW i \in DOMAIN trades, NEW together \in BOOLEAN, Frame(i, together) PROVE TradesInv' /\ BookedInv'
  BY <1>6, TradesFrame
<1>7. ASSUME NEW twice, NEW seen, NEW api, Load(twice, seen, api) PROVE TradesInv' /\ BookedInv'
  <2>1. /\ intent' = intent /\ order' = order /\ quirks' = quirks /\ amounts' = amounts /\ trades' = trades
        /\ left' = left /\ listed' = listed /\ booked' = {} /\ stage' = "loaded"
    BY <1>7 DEF Load
  <2> QED BY <2>1 DEF TradesInv, BookedInv, Plain, Single
<1>8. CASE UNCHANGED vars
  BY <1>8 DEF vars, TradesInv, BookedInv, Plain, Single
<1> QED BY <1>1, <1>2, <1>3, <1>4, <1>5, <1>6, <1>7, <1>8 DEF Next

LEMMA TradesKept == Spec => [](OrderInv /\ TradesInv /\ BookedInv)
<1>1. Init => OrderInv /\ TradesInv /\ BookedInv
  BY OrderInit, TradesInit DEF Init, BookedInv
<1>2. OrderInv /\ TradesInv /\ BookedInv /\ [Next]_vars => (OrderInv /\ TradesInv /\ BookedInv)'
  BY OrderStep, TradesStep
<1> QED BY <1>1, <1>2, PTL DEF Spec

\* RowsRight: of a trade that counts, try_parse_user_channel_trade takes the user's own leg, with
\* its order, token and shares, and its side where the rows say it, whoever else is in the trade,
\* for every order, every sequence of matches and every order of the frames.
THEOREM RowsRightHolds == Spec => []RowsRight
<1>1. TradesInv /\ BookedInv => RowsRight
  <2> SUFFICES ASSUME TradesInv, BookedInv PROVE RowsRight
    OBVIOUS
  <2>1. ASSUME NEW f \in booked
        PROVE  \E s \in trades[f.id].mine :
                 /\ <<s.order, s.asset, s.qty>> = <<f.order, f.asset, f.qty>>
                 /\ {"echoed_side", "no_leg_side"} \cap quirks = {} => s.side = f.side
    BY <2>1 DEF BookedInv, IsShare, Plain
  <2>2. ASSUME "two_own_legs" \notin quirks, NEW i \in DOMAIN trades, CountsAsFill(trades[i].row.status)
        PROVE  WsFills(trades[i].row, listed, <<>>, Me) # {}
    <3>1. TradeRight(trades[i], i, intent.token, order.side, Plain, Single) /\ Single /\ listed \subseteq {"mine"}
      BY <2>2 DEF TradesInv, Single
    <3> QED BY <2>2, <3>1, FillFound
  <2> QED BY <2>1, <2>2 DEF RowsRight
<1> QED BY <1>1, TradesKept, PTL

-------------------------------------------------------------------------------
(* What the answer of a POST books. *)

Chosen(s) == CHOOSE f \in s : TRUE
QtyIter(S) == CHOOSE h : h = [s \in SUBSET S |-> IF s = {} THEN 0 ELSE Chosen(s).qty + h[s \ {Chosen(s)}]]

\* The shares of no fill, and of one.
LEMMA QtyOfNone == MapThenSumSet(LAMBDA f : f.qty, {}) = 0
<1>1. MapThenSumSet(LAMBDA f : f.qty, {}) = QtyIter({})[{}]
  BY DEF MapThenSumSet, MapThenFoldSet, QtyIter, Chosen
<1> DEFINE g == [s \in SUBSET {} |-> 0]
<1>2. \A s \in SUBSET {} : s = {}
  OBVIOUS
<1>3. ASSUME NEW h
      PROVE  [s \in SUBSET {} |-> IF s = {} THEN 0 ELSE Chosen(s).qty + h[s \ {Chosen(s)}]] = g
  BY <1>2
<1> HIDE DEF g
<1>4. QtyIter({}) = g
  BY <1>3 DEF QtyIter
<1> QED BY <1>1, <1>4 DEF g

LEMMA QtyOfOne == ASSUME NEW x, x.qty \in Int PROVE MapThenSumSet(LAMBDA f : f.qty, {x}) = x.qty
<1> DEFINE S == {x}
           g == [s \in SUBSET S |-> IF s = {} THEN 0 ELSE x.qty]
           Eq(h) == h = [s \in SUBSET S |-> IF s = {} THEN 0 ELSE Chosen(s).qty + h[s \ {Chosen(s)}]]
<1>1. MapThenSumSet(LAMBDA f : f.qty, S) = QtyIter(S)[S]
  BY DEF MapThenSumSet, MapThenFoldSet, QtyIter, Chosen
<1>2. \A s \in SUBSET S : s = {} \/ s = S
  OBVIOUS
<1>3. Chosen(S) = x /\ S \ {x} = {} /\ S # {} /\ {} \in SUBSET S /\ S \in SUBSET S
  BY DEF Chosen
<1> HIDE DEF S
<1>4. g[{}] = 0 /\ g[S] = x.qty
  BY <1>3
<1>5. \A s \in SUBSET S : (IF s = {} THEN 0 ELSE x.qty) = (IF s = {} THEN 0 ELSE Chosen(s).qty + g[s \ {Chosen(s)}])
  <2> TAKE s \in SUBSET S
  <2>1. CASE s = {}
    BY <2>1
  <2>2. CASE s = S
    <3> HIDE DEF g
    <3>1. Chosen(s).qty + g[s \ {Chosen(s)}] = x.qty + 0
      BY <1>3, <1>4, <2>2
    <3> QED BY <1>3, <2>2, <3>1
  <2> QED BY <1>2, <2>1, <2>2
<1>6. Eq(g)
  BY <1>5
<1> DEFINE h == QtyIter(S)
<1>7. Eq(h)
  BY <1>6 DEF QtyIter
<1> HIDE DEF h
<1>8. h[{}] = 0 /\ h[S] = x.qty
  <2>1. h[{}] = 0
    BY <1>3, <1>7
  <2>2. h[S] = Chosen(S).qty + h[S \ {Chosen(S)}]
    BY <1>3, <1>7
  <2> QED BY <1>3, <2>1, <2>2
<1> QED BY <1>1, <1>8 DEF h, S

\* The shares an order is signed for are a number.
LEMMA SharesWhole ==
  ASSUME OrderInv, amounts # NoAmounts
  PROVE  SignedShares \in Nat
<1> DEFINE o == order
<1>1. WellFormed(o) /\ amounts = Amounts(o)
  BY OrderLifeAssumption, SizedWell DEF OrderInv
<1> HIDE DEF o
<1>2. CASE o.type = "FAK" /\ o.side = "BUY"
  BY <1>1, <1>2, BookBuy, Units DEF SignedShares, o
<1>3. CASE o.type = "FAK" /\ o.side = "SELL"
  <2>1. SoldLots(o) > 0 /\ amounts[1] = SoldLots(o)
    <3>1. amounts = IF SoldLots(o) <= 0 THEN NoAmounts
                    ELSE <<SoldLots(o), Cent * Max({WireCents(Max({GotCents(o, BookPrice(o.side, o.price, o.tick)), 1})), 1})>>
      BY <1>1, <1>3, BookSigned
    <3>2. ~(SoldLots(o) <= 0)
      BY <3>1
    <3>3. SoldLots(o) \in Int
      BY <1>1, RoundedDown, Units DEF SoldLots, WellFormed
    <3> QED BY <3>1, <3>2, <3>3
  <2>2. SoldLots(o) \in Int
    BY <1>1, RoundedDown, Units DEF SoldLots, WellFormed
  <2> QED BY <1>3, <2>1, <2>2, Units DEF SignedShares, o
<1>4. CASE o.type = "GTD" /\ o.side = "BUY"
  <2> DEFINE p == SnapPrice(o.price, o.tick)
             k == Found(o, EnoughLimit(o, p))
  <2>1. amounts = IF k = 0 THEN NoAmounts ELSE <<k * Lot * p, k>>
    BY <1>1, <1>4, LimitSigned
  <2>2. k \in Nat
    BY <1>1, LimitLots
  <2> HIDE DEF k, p
  <2>3. amounts[2] = k
    BY <2>1
  <2> QED BY <1>4, <2>2, <2>3, Units DEF SignedShares, o
<1>5. CASE o.type = "GTD" /\ o.side = "SELL"
  <2> DEFINE p == SnapPrice(o.price, o.tick)
             n == Lots(o.size)
  <2>1. amounts = IF n = 0 THEN NoAmounts ELSE <<n, n * Lot * p>>
    BY <1>1, <1>5, LimitSigned
  <2>2. n \in Nat
    BY <1>1, Units DEF Lots, WellFormed
  <2> HIDE DEF n, p
  <2>3. amounts[1] = n
    BY <2>1
  <2> QED BY <1>5, <2>2, <2>3, Units DEF SignedShares, o
<1> QED BY <1>1, <1>2, <1>3, <1>4, <1>5 DEF WellFormed

\* The user's shares of the trade of a POST, and what its answer says of it.
AtOnce == UNION {trades[i].mine : i \in {j \in DOMAIN trades : trades[j].row.role = "TAKER"}}
AnswerRight(shares, token, side, type, told) ==
  \/ shares = {} /\ answer.amounts = <<>> /\ answer.status = "live" /\ type # "FAK"
  \/ /\ answer.status \in {"live", "matched"}
     /\ \E q \in Nat \ {0} : \E cost :
          /\ shares = {[order |-> "mine", asset |-> token, side |-> side, qty |-> q, cost |-> cost]}
          /\ told => answer.amounts = IF side = "BUY" THEN <<cost, q>> ELSE <<q, cost>>
Told == "no_amounts" \notin quirks
AnswerInv ==
  /\ stage \in {"intent", "sized", "signed"} => ~answer.success
  /\ answer.success => AnswerRight(AtOnce, intent.token, order.side, order.type, Told)


LEMMA AnswerPost ==
  ASSUME OrderInv, TradesInv, NEW q, q \in {0, SignedShares \div 2, SignedShares}, Post(q)
  PROVE  AnswerInv'
<1>1. stage = "signed" /\ trades = <<>> /\ amounts # NoAmounts /\ stage' \in {"live", "closed"}
  BY DEF Post, TradesInv
<1>2. q \in Nat
  BY <1>1, SharesWhole
<1>3. intent' = intent /\ order' = order /\ quirks' = quirks
  BY DEF Post
<1> DEFINE dollars == q * intent.book
           rests == order.type # "FAK" /\ q < SignedShares /\ Backed
           status == CASE rests -> "live"
                       [] ~rests /\ q > 0 -> "matched"
                       [] ~rests /\ q = 0 -> "none"
           told == IF order.side = "BUY" THEN <<dollars, q>> ELSE <<q, dollars>>
           t == [row |-> Row(order.side, intent.book, intent.token, "mine", "TAKER", q,
                             IF order.side = "BUY" THEN <<dollars, q>> ELSE <<>>, <<>>),
                 mine |-> {Share_("mine", order.side, q, dollars)}]
<1>4. answer' = [success |-> status # "none", status |-> status,
                 amounts |-> IF q = 0 \/ "no_amounts" \in quirks THEN <<>> ELSE told]
  BY DEF Post
<1>5. q = 0 => trades' = <<>>
  BY <1>1 DEF Post
<1>6. q # 0 => trades' = Append(trades, t)
  BY DEF Post
<1>7. t.mine = {[order |-> "mine", asset |-> intent.token, side |-> order.side, qty |-> q, cost |-> dollars]}
      /\ t.row.role = "TAKER"
  BY DEF Share_, Row
<1> HIDE DEF t
<1>8. CASE q = 0
  <2>1. AtOnce' = {}
    BY <1>5, <1>8, NothingIsSeq DEF AtOnce
  <2>2. answer'.success => rests /\ answer'.status = "live" /\ answer'.amounts = <<>>
    <3> HIDE DEF rests, told
    <3>1. status = IF rests THEN "live" ELSE "none"
      BY <1>8
    <3> HIDE DEF status
    <3>2. answer'.success = (status # "none") /\ answer'.status = status /\ answer'.amounts = <<>>
      BY <1>4, <1>8
    <3> QED BY <3>1, <3>2
  <2> QED BY <1>1, <1>3, <2>1, <2>2 DEF AnswerInv, AnswerRight
<1>9. CASE q # 0
  <2>1. DOMAIN trades' = 1..(Len(trades) + 1) /\ trades'[Len(trades) + 1] = t
    BY <1>1, <1>6, <1>9, SeqAppend, NothingIsSeq
  <2>2. Len(trades) + 1 = 1
    BY <1>1
  <2>3. DOMAIN trades' = {1} /\ trades'[1] = t
    BY <2>1, <2>2
  <2>4. AtOnce' = t.mine
    <3>1. {j \in DOMAIN trades' : trades'[j].row.role = "TAKER"} = {1}
      BY <1>7, <2>3
    <3> QED BY <2>3, <3>1 DEF AtOnce
  <2>5. answer'.status \in {"live", "matched"}
    BY <1>2, <1>4, <1>9
  <2>6. Told => answer'.amounts = told
    BY <1>4, <1>9 DEF Told
  <2>7. q \in Nat \ {0}
    BY <1>2, <1>9
  <2> HIDE DEF dollars
  <2>8. AnswerRight(AtOnce, intent.token, order.side, order.type, Told)'
    BY <1>3, <1>7, <2>4, <2>5, <2>6, <2>7 DEF AnswerRight, Told
  <2> QED BY <1>1, <2>8 DEF AnswerInv
<1> QED BY <1>8, <1>9

LEMMA AnswerStep ==
  ASSUME OrderInv, TradesInv, BookedInv, AnswerInv, [Next]_vars
  PROVE  AnswerInv'
<1>1. CASE Resolve
  BY <1>1 DEF Resolve, AnswerInv
<1>2. CASE Sign
  BY <1>2 DEF Sign, AnswerInv
<1>3. ASSUME NEW q \in {0, SignedShares \div 2, SignedShares}, Post(q) PROVE AnswerInv'
  BY <1>3, AnswerPost
<1>4. ASSUME NEW q, NEW mint, NEW crowd \in {"alone", "other", "own"}, MakerMatch(q, mint, crowd) PROVE AnswerInv'
  <2>1. PICK t : trades' = Append(trades, t) /\ t.row.role = "MAKER"
    BY <1>4, TradesMatch
  <2>2. /\ intent' = intent /\ order' = order /\ quirks' = quirks /\ answer' = answer
        /\ stage = "live" /\ stage' \in {"live", "closed"}
    BY <1>4 DEF MakerMatch
  <2>3. IsSeq(trades)
    BY DEF TradesInv
  <2>4. /\ DOMAIN trades' = 1..(Len(trades) + 1) /\ DOMAIN trades = 1..Len(trades) /\ Len(trades) \in Nat
        /\ trades'[Len(trades) + 1] = t /\ \A n \in DOMAIN trades : trades'[n] = trades[n]
    BY <2>1, <2>3, SeqAppend, Lengths
  <2>5. AtOnce' = AtOnce
    <3> DEFINE P == {j \in DOMAIN trades : trades[j].row.role = "TAKER"}
    <3>1. {j \in DOMAIN trades' : trades'[j].row.role = "TAKER"} = P
      BY <2>1, <2>4
    <3>2. \A j \in P : trades'[j].mine = trades[j].mine
      BY <2>4
    <3>3. {trades'[j].mine : j \in P} = {trades[j].mine : j \in P}
      BY <3>2
    <3> QED BY <3>1, <3>3 DEF AtOnce
  <2> QED BY <2>2, <2>5 DEF AnswerInv, AnswerRight, Told
<1>5. ASSUME NEW i \in DOMAIN trades, NEW status, Progress(i, status) PROVE AnswerInv'
  <2>1. /\ DOMAIN trades' = DOMAIN trades
        /\ \A n \in DOMAIN trades : trades'[n].mine = trades[n].mine /\ trades'[n].row.role = trades[n].row.role
    BY <1>5, TradesProgress
  <2>2. intent' = intent /\ order' = order /\ quirks' = quirks /\ answer' = answer /\ stage' = stage
    BY <1>5 DEF Progress
  <2>3. AtOnce' = AtOnce
    <3> DEFINE P == {j \in DOMAIN trades : trades[j].row.role = "TAKER"}
    <3>1. {j \in DOMAIN trades' : trades'[j].row.role = "TAKER"} = P
      BY <2>1
    <3>2. {trades'[j].mine : j \in P} = {trades[j].mine : j \in P}
      BY <2>1
    <3> QED BY <3>1, <3>2 DEF AtOnce
  <2> QED BY <2>2, <2>3 DEF AnswerInv, AnswerRight, Told
<1>6. ASSUME NEW i, NEW together, Frame(i, together) PROVE AnswerInv'
  <2>1. /\ intent' = intent /\ order' = order /\ quirks' = quirks /\ answer' = answer /\ trades' = trades
        /\ stage' = stage
    BY <1>6 DEF Frame
  <2>2. AtOnce' = AtOnce
    BY <2>1 DEF AtOnce
  <2> QED BY <2>1, <2>2 DEF AnswerInv, AnswerRight, Told
<1>7. ASSUME NEW twice, NEW seen, NEW api, Load(twice, seen, api) PROVE AnswerInv'
  <2>1. /\ intent' = intent /\ order' = order /\ quirks' = quirks /\ answer' = answer /\ trades' = trades
        /\ stage' = "loaded"
    BY <1>7 DEF Load
  <2>2. AtOnce' = AtOnce
    BY <2>1 DEF AtOnce
  <2> QED BY <2>1, <2>2 DEF AnswerInv, AnswerRight, Told
<1>8. CASE UNCHANGED vars
  <2>1. /\ intent' = intent /\ order' = order /\ quirks' = quirks /\ answer' = answer /\ trades' = trades
        /\ stage' = stage
    BY <1>8 DEF vars
  <2>2. AtOnce' = AtOnce
    BY <2>1 DEF AtOnce
  <2> QED BY <2>1, <2>2 DEF AnswerInv, AnswerRight, Told
<1> QED BY <1>1, <1>2, <1>3, <1>4, <1>5, <1>6, <1>7, <1>8 DEF Next

\* AckIsFill: what the answer of a POST books (fill_for_position_ack), and what a take-profit is
\* posted for, is what the POST filled, for every order and every part of it that is filled at
\* once, whatever becomes of its trades since.
THEOREM AckIsFillHolds == Spec => []AckIsFill
<1>1. AnswerInv => AckIsFill
  <2> SUFFICES ASSUME AnswerInv, answer.success, Told
               PROVE  Acked = FilledAtOnce /\ (order.side = "BUY" => TakeProfitShares = FilledAtOnce)
    BY DEF AckIsFill, Told
  <2>1. FilledAtOnce = MapThenSumSet(LAMBDA f : f.qty, AtOnce)
    BY DEF FilledAtOnce, AtOnce
  <2>2. CASE AtOnce = {} /\ answer.amounts = <<>> /\ answer.status = "live" /\ order.type # "FAK"
    <3>1. FilledAtOnce = 0
      BY <2>1, <2>2, QtyOfNone
    <3>2. Said = 0
      BY <2>2 DEF Said
    <3> QED BY <2>2, <3>1, <3>2 DEF Acked, TakeProfitShares
  <2>3. ASSUME NEW q \in Nat \ {0}, NEW cost,
               AtOnce = {[order |-> "mine", asset |-> intent.token, side |-> order.side, qty |-> q, cost |-> cost]},
               answer.amounts = IF order.side = "BUY" THEN <<cost, q>> ELSE <<q, cost>>
        PROVE  Acked = FilledAtOnce /\ (order.side = "BUY" => TakeProfitShares = FilledAtOnce)
    <3> DEFINE x == [order |-> "mine", asset |-> intent.token, side |-> order.side, qty |-> q, cost |-> cost]
    <3>1. x.qty = q
      OBVIOUS
    <3> HIDE DEF x
    <3>2. MapThenSumSet(LAMBDA f : f.qty, {x}) = q
      BY <3>1, QtyOfOne
    <3>3. FilledAtOnce = q
      BY <2>1, <2>3, <3>2 DEF x
    <3>4. Said = q
      <4>1. answer.amounts # <<>>
        BY <2>3
      <4> QED BY <2>3, <4>1 DEF Said
    <3>5. Plausible(q, order.size)
      BY DEF Plausible
    <3> QED BY <3>3, <3>4, <3>5 DEF Acked, TakeProfitShares
  <2> QED BY <2>2, <2>3 DEF AnswerInv, AnswerRight
<1>2. Init => AnswerInv
  BY DEF Init, AnswerInv, NoAnswer
<1>3. OrderInv /\ TradesInv /\ BookedInv /\ AnswerInv /\ [Next]_vars => AnswerInv'
  BY AnswerStep
<1> QED BY <1>1, <1>2, <1>3, TradesKept, PTL DEF Spec
===============================================================================
