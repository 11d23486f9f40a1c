-------------------------- MODULE MarketWatchProofs --------------------------
(* Proofs about MarketWatch for every set of profiles, every length of the channels and
   every scenario.  A market keeps its shape wherever it is on its way (TypeOK), the sums of
   the top holders belong to the market that is shown (HoldersInv: each report in the
   channel is behind the roll of its market), and a market with a rolling window is never
   replaced by an earlier one of its profile (ForwardInv: the markets on their way are in
   the order of their windows, and none of them begins in the future). *)
EXTENDS MarketWatch, FiniteSetTheorems, SequenceTheorems, TLAPS

-------------------------------------------------------------------------------
(* The types. The books, whose tokens come and go, have none here. *)

Tokens == [slug : Slug, outcome : {"Up", "Down"}]

Market == {m \in [slug : Slug, up : Tokens, down : Tokens, ptb : PriceToBeat, opens : Int, closes : Int] :
             m.closes = EndDate(m.slug)}

Turns == {"off", "find", "next", "emit", "refresh", "sleep"}

IsApp(a) ==
  /\ a = [phase |-> a.phase, profile |-> a.profile, market |-> a.market, trailing |-> a.trailing,
          books |-> a.books, spot |-> a.spot, holders |-> a.holders, latched |-> a.latched]
  /\ a.phase \in {"wizard", "trading"}
  /\ a.profile \in Profile \cup {None}
  /\ a.market \in Market \cup {None}
  /\ a.trailing \in SUBSET Tokens
  /\ a.spot \in Assets \cup {None}
  /\ a.holders \in Slug \cup {None}
  /\ a.latched \in Assets \cup {None}

IsEvent(e) ==
  \/ e \in [kind : {"start"}, profile : Profile]
  \/ e \in [kind : {"roll"}, market : Market]
  \/ e \in [kind : {"ptb"}, slug : Slug, ptb : PriceToBeat]
  \/ e \in [kind : {"price"}, asset : Assets, at : Nat]
  \/ e \in [kind : {"holders"}, slug : Slug]
  \/ e.kind = "book"

SeqOf(s) == s \in Seq({s[i] : i \in DOMAIN s})

Answering == [listed : SUBSET Slug, closed : SUBSET Slug, price : PriceToBeat, down : BOOLEAN]

DiscoveryTyped ==
  /\ left \in Scenario
  /\ now \in Nat
  /\ gamma \in Answering
  /\ watch \in [profile : Profile \cup {None}, unseen : BOOLEAN]
  /\ disc \in [at : Turns, seen : Profile \cup {None}, profile : Profile \cup {None},
               emitted : [slug : Slug, ptb : PriceToBeat] \cup {None}, end : Int \cup {None},
               market : Market \cup {None}]
  /\ IF disc.at = "off" THEN disc = NoDiscovery ELSE disc.profile \in Profile /\ watch.profile \in Profile
  /\ disc.at \in {"emit", "refresh"} => disc.market \in Market
  /\ disc.at = "next" => disc.end # None /\ disc.end \in Int /\ disc.end <= now
  /\ marketTx \in Seq(Market)

ChannelTyped == SeqOf(tx) /\ \A i \in 1 .. Len(tx) : IsEvent(tx[i])

AppTyped ==
  /\ IsApp(app)
  /\ tokenW \in [tokens : SUBSET Tokens, unseen : BOOLEAN]
  /\ bundleW \in [active : Slug \cup {None}, extras : SUBSET Slug, unseen : BOOLEAN]
  /\ symbolW \in [asset : Assets \cup {None}, unseen : BOOLEAN]
  /\ sup \in [ui : SUBSET Tokens, spawned : SUBSET Tokens, roll : Market \cup {None}]
  /\ holders \in Slug \cup {None}
  /\ session \in [up : BOOLEAN, subscribed : SUBSET Slug, handshake : BOOLEAN, synced : BOOLEAN,
                  server : SUBSET Slug]
  /\ feed \in [asset : Assets \cup {None}, tick : [asset : Assets, at : Nat] \cup {None}]

TypeOK == DiscoveryTyped /\ ChannelTyped /\ AppTyped

-------------------------------------------------------------------------------
(* The holders' sums. A report in the channel is for the market of the last roll before
   it, for the shown one when there is none; the poll is for the market of the last roll
   that was sent. *)

IsRoll(i) == tx[i].kind = "roll"

\* The market that is shown when the first n events of the channel are applied has the slug,
\* unless none is shown.
ShownAfter(n, slug) ==
  \/ \E i \in 1 .. n : /\ IsRoll(i) /\ tx[i].market.slug = slug
                       /\ \A j \in i + 1 .. n : ~IsRoll(j)
  \/ /\ \A i \in 1 .. n : ~IsRoll(i)
     /\ app.market = None \/ app.market.slug = slug

HoldersInv ==
  /\ HoldersOfShown
  /\ holders # None => sup.roll = None /\ ShownAfter(Len(tx), holders)
  /\ \A n \in 1 .. Len(tx) : tx[n].kind = "holders" => ShownAfter(n, tx[n].slug)

-------------------------------------------------------------------------------
(* The rolls of a profile with rolling windows. *)

\* A window begins at a multiple of its length and not in the future.
Begun(m) ==
  IsRolling(m.slug) =>
    /\ m.slug.key <= now
    /\ \E n \in Nat : m.slug.key = n * Window[m.slug.timeframe]

Behind(a, b) == IsRolling(a.slug) /\ SameProfile(a, b) => a.closes <= b.closes

\* The markets on their way, each with its place: the shown one, the rolls in the event
\* channel, what the supervisor is sending, the markets queued for it and the one that
\* discovery has found.
At(m, place) ==
  \/ place = 0 /\ m = app.market /\ m # None
  \/ place \in 1 .. Len(tx) /\ IsRoll(place) /\ m = tx[place].market
  \/ place = Len(tx) + 1 /\ m = sup.roll /\ m # None
  \/ \E i \in 1 .. Len(marketTx) : place = Len(tx) + 1 + i /\ m = marketTx[i]
  \/ place = Len(tx) + Len(marketTx) + 2 /\ disc.at = "emit" /\ m = disc.market

OrderInv ==
  /\ \A m, place : At(m, place) => Begun(m)
  /\ \A m, n, place, later : At(m, place) /\ At(n, later) /\ place < later => Behind(m, n)

\* Gamma lists the windows in order, and closes a market when it is over.
GammaInv ==
  /\ InOrder(gamma.listed, now)
  /\ \A slug \in gamma.closed : EndDate(slug) <= now

\* What discovery asks for next begins when the last one of the profile has ended.
OfProfile(m, p) == m.slug.asset = p.asset /\ m.slug.timeframe = p.timeframe

DiscoveryInv ==
  disc.at # "off" =>
    /\ disc.seen = disc.profile
    /\ disc.end # None /\ IsRolling(disc.profile) =>
         /\ \E n \in Nat : disc.end = n * Window[disc.profile.timeframe]
         /\ \A m, place : At(m, place) /\ OfProfile(m, disc.profile) => m.closes <= disc.end

ForwardInv == GammaInv /\ OrderInv /\ DiscoveryInv

-------------------------------------------------------------------------------
(* Lemmas about the operators. *)

\* A set of natural numbers that is not empty has a least element.
LEMMA LeastNatural ==
  ASSUME NEW T \in SUBSET Nat, T # {}
  PROVE  \E x \in T : \A y \in T : x <= y
<1> DEFINE R == OpToRel(<, Nat)
<1>1. IsWellFoundedOn(R, Nat)
  BY NatLessThanWellFounded
<1>2. \A x, y \in Nat : x < y => <<x, y>> \in R
  BY DEF OpToRel
<1> HIDE DEF R
<1>3. PICK x \in T : \A y \in T : ~(<<y, x>> \in R)
  BY <1>1, WFMin
<1>4. \A y \in T : ~(y < x)
  BY <1>2, <1>3
<1> QED BY <1>3, <1>4

\* Of some keys the slug of the least one is taken.
LEMMA EarliestLeast ==
  ASSUME NEW p, NEW keys \in SUBSET Nat
  PROVE  \/ Earliest(p, keys) = None /\ keys = {}
         \/ \E k \in keys : Earliest(p, keys) = SlugOf(p, k) /\ \A other \in keys : k <= other
<1>1. CASE keys = {}
  BY <1>1 DEF Earliest
<1>2. CASE keys # {}
  <2>1. Min(keys) \in keys /\ \A other \in keys : Min(keys) <= other
    BY <1>2, LeastNatural DEF Min
  <2> QED BY <1>2, <2>1 DEF Earliest
<1> QED BY <1>1, <1>2

LEMMA WindowLength ==
  ASSUME NEW p, p \in Profile \/ p \in Slug, IsRolling(p)
  PROVE  Window[p.timeframe] \in Nat \ {0}
  BY GammaAssumption DEF Profile, Slug, IsRolling

\* The slug of a profile has its asset and its timeframe.
LEMMA SlugFields ==
  ASSUME NEW p, NEW k
  PROVE  /\ SlugOf(p, k).asset = p.asset /\ SlugOf(p, k).timeframe = p.timeframe /\ SlugOf(p, k).key = k
         /\ p \in Profile /\ k \in Nat => SlugOf(p, k) \in Slug
         /\ SlugOf(p, k) \in Slug => k \in Nat
         /\ IsRolling(SlugOf(p, k)) = IsRolling(p)
  BY DEF SlugOf, Slug, Profile, IsRolling

\* What Gamma is asked for is a slug of the profile that is open.
LEMMA AnswerOfProfile ==
  ASSUME NEW p \in Profile, NEW open \in SUBSET Slug, NEW K,
         NEW slug, slug = Earliest(p, {k \in K : SlugOf(p, k) \in open}), slug # None
  PROVE  \E k \in K : k \in Nat /\ slug = SlugOf(p, k) /\ slug \in open
<1>1. {k \in K : SlugOf(p, k) \in open} \in SUBSET Nat
  BY SlugFields
<1> QED BY <1>1, EarliestLeast

LEMMA FindRollingAnswer ==
  ASSUME NEW p \in Profile, NEW open \in SUBSET Slug, NEW t, FindRolling(p, t, open) # None
  PROVE  \E k \in Nat : FindRolling(p, t, open) = SlugOf(p, k) /\ SlugOf(p, k) \in open
<1> DEFINE starts == {k \in TriedStarts(p, t) : SlugOf(p, k) \in open}
           running == {k \in starts : k <= t /\ t < EndDate(SlugOf(p, k))}
           taken == IF running # {} THEN running ELSE {k \in starts : k >= t}
<1>1. FindRolling(p, t, open) = Earliest(p, taken)
  BY DEF FindRolling
<1>2. taken \in SUBSET Nat /\ \A k \in taken : SlugOf(p, k) \in open
  BY SlugFields
<1> HIDE DEF taken
<1> QED BY <1>1, <1>2, EarliestLeast

LEMMA FindCurrentAnswer ==
  ASSUME NEW p \in Profile, NEW open \in SUBSET Slug, NEW t, FindCurrent(p, t, open) # None
  PROVE  \E k \in Nat : FindCurrent(p, t, open) = SlugOf(p, k) /\ SlugOf(p, k) \in open
<1>1. CASE IsRolling(p)
  <2>1. FindCurrent(p, t, open) = FindRolling(p, t, open)
    BY <1>1 DEF FindCurrent
  <2> QED BY <2>1, FindRollingAnswer
<1>2. CASE ~IsRolling(p)
  <2> DEFINE K == (t \div Day) .. (t \div Day) + 4
  <2>1. FindCurrent(p, t, open) = Earliest(p, {k \in K : SlugOf(p, k) \in open})
    BY <1>2 DEF FindCurrent, FindDaily
  <2> HIDE DEF K
  <2> QED BY <2>1, AnswerOfProfile
<1> QED BY <1>1, <1>2

LEMMA FetchNextAnswer ==
  ASSUME NEW p \in Profile, NEW open \in SUBSET Slug, NEW end, FetchNext(p, end, open) # None
  PROVE  \E k \in Nat : /\ FetchNext(p, end, open) = SlugOf(p, k) /\ SlugOf(p, k) \in open
                        /\ IsRolling(p) => k = end
<1>1. FetchNext(p, end, open) = Earliest(p, {k \in NextSlugs(p, end) : SlugOf(p, k) \in open})
  BY DEF FetchNext
<1>2. PICK k \in NextSlugs(p, end) : k \in Nat /\ FetchNext(p, end, open) = SlugOf(p, k) /\ SlugOf(p, k) \in open
  BY <1>1, AnswerOfProfile
<1> QED BY <1>2 DEF NextSlugs

\* The market that is made of a slug and a price.
LEMMA MarketOf ==
  ASSUME NEW slug \in Slug, NEW ptb \in PriceToBeat
  PROVE  /\ ActiveMarket(slug, ptb) \in Market
         /\ ActiveMarket(slug, ptb).slug = slug /\ ActiveMarket(slug, ptb).ptb = ptb
         /\ ActiveMarket(slug, ptb).closes = EndDate(slug)
<1>1. Window["M5"] \in Nat /\ Window["M15"] \in Nat /\ Day \in Nat /\ Noon \in Nat
  BY GammaAssumption
<1>2. EventStart(slug) \in Int /\ EndDate(slug) \in Int
  BY <1>1, GammaAssumption DEF Slug, EventStart, EndDate, IsRolling
<1>3. \A i \in 1 .. 2 : ClobTokenIds(slug)[i] \in Tokens
  BY DEF ClobTokenIds, Token, Outcomes, Tokens
<1> QED BY <1>2, <1>3 DEF ActiveMarket, Market

\* A refreshed price leaves the slug and the window of a market alone.
LEMMA Repriced ==
  ASSUME NEW m \in Market, NEW ptb \in PriceToBeat
  PROVE  /\ [m EXCEPT !.ptb = ptb] \in Market
         /\ [m EXCEPT !.ptb = ptb].slug = m.slug /\ [m EXCEPT !.ptb = ptb].closes = m.closes
  BY DEF Market

\* A channel's contents, whatever they are.
LEMMA OwnRange ==
  ASSUME NEW S, NEW s \in Seq(S)
  PROVE  SeqOf(s)
<1> DEFINE T == {s[i] : i \in DOMAIN s}
<1>1. Len(s) \in Nat /\ s \in [1 .. Len(s) -> S] /\ DOMAIN s = 1 .. Len(s)
  BY LenProperties
<1>2. s \in [1 .. Len(s) -> T]
  BY <1>1
<1>3. \E n \in Nat : s \in [1 .. n -> T]
  BY <1>1, <1>2
<1>4. s \in Seq(T)
  BY <1>3, SeqDef
<1> QED BY <1>4 DEF SeqOf

LEMMA Longer ==
  ASSUME NEW s, SeqOf(s), NEW e
  PROVE  /\ SeqOf(Append(s, e))
         /\ Len(Append(s, e)) = Len(s) + 1 /\ Len(s) \in Nat
         /\ \A i \in 1 .. Len(s) : Append(s, e)[i] = s[i]
         /\ Append(s, e)[Len(s) + 1] = e
<1> DEFINE S == {s[i] : i \in DOMAIN s} \cup {e}
<1>1. s \in Seq({s[i] : i \in DOMAIN s}) /\ DOMAIN s = 1 .. Len(s) /\ Len(s) \in Nat
  BY DEF SeqOf
<1>2. s \in Seq(S)
  BY <1>1
<1>3. Len(Append(s, e)) = Len(s) + 1 /\ \A i \in 1 .. Len(s) + 1 : Append(s, e)[i] = IF i <= Len(s) THEN s[i] ELSE e
  BY <1>1, <1>2
<1>4. Append(s, e) \in Seq(S) /\ DOMAIN Append(s, e) = 1 .. Len(s) + 1
  BY <1>2, <1>3
<1>5. SeqOf(Append(s, e))
  BY <1>4, OwnRange
<1> QED BY <1>1, <1>3, <1>5

LEMMA Shorter ==
  ASSUME NEW s, SeqOf(s), s # <<>>
  PROVE  /\ SeqOf(Tail(s))
         /\ Len(Tail(s)) = Len(s) - 1 /\ Len(s) \in Nat \ {0}
         /\ \A i \in 1 .. Len(s) - 1 : Tail(s)[i] = s[i + 1]
         /\ Head(s) = s[1]
<1> DEFINE S == {s[i] : i \in DOMAIN s}
<1>1. s \in Seq(S) /\ DOMAIN s = 1 .. Len(s) /\ Len(s) \in Nat \ {0}
  BY DEF SeqOf
<1>2. Len(Tail(s)) = Len(s) - 1 /\ \A i \in 1 .. Len(s) - 1 : Tail(s)[i] = s[i + 1]
  BY <1>1
<1>3. Tail(s) \in Seq(S) /\ DOMAIN Tail(s) = 1 .. Len(s) - 1
  BY <1>1, <1>2
<1>4. SeqOf(Tail(s))
  BY <1>3, OwnRange
<1> QED BY <1>1, <1>2, <1>4

-------------------------------------------------------------------------------
(* The types are kept. *)

Counters == {"starts", "clock", "refines", "unpriced", "outages", "quotes", "drops", "arms"}

LEMMA SpendTyped ==
  ASSUME left \in Scenario, NEW what \in Counters, May(what), Spend(what)
  PROVE  left' \in Scenario
  BY DEF Scenario, Counters, May, Spend

LEMMA GoesDown ==
  ASSUME gamma \in Answering, NEW down \in BOOLEAN
  PROVE  [gamma EXCEPT !.down = down] \in Answering
  BY DEF Answering

LEMMA SurroundingsTyped ==
  ASSUME DiscoveryTyped, Surroundings
  PROVE  DiscoveryTyped' /\ UNCHANGED <<watch, disc, marketTx, tx>> /\ now' >= now
<1>1. CASE Lists
  <2>1. PICK slug \in Awaited(disc.profile) \ gamma.listed : gamma' = [gamma EXCEPT !.listed = @ \cup {slug}]
    BY <1>1 DEF Lists
  <2>2. disc.profile \in Profile
    BY <1>1 DEF Lists, DiscoveryTyped
  <2>3. slug \in Slug
    <3>1. CASE IsRolling(disc.profile)
      BY <2>1, <2>2, <3>1, SlugFields DEF Awaited
    <3>2. CASE ~IsRolling(disc.profile)
      <4>1. PICK d \in (now \div Day) .. (now \div Day) + 1 : slug = SlugOf(disc.profile, d)
        BY <2>1, <3>2 DEF Awaited
      <4>2. now \in Nat /\ Day \in Nat \ {0}
        BY GammaAssumption DEF DiscoveryTyped
      <4>3. d \in Nat
        BY <4>1, <4>2
      <4> QED BY <4>1, <4>3, <2>2, SlugFields
    <3> QED BY <3>1, <3>2
  <2> QED BY <1>1, <2>1, <2>3 DEF Lists, DiscoveryTyped, Answering
<1>2. CASE Closes
  BY <1>2 DEF Closes, DiscoveryTyped, Answering
<1>3. CASE Refines
  <2>1. left' \in Scenario
    BY <1>3, SpendTyped DEF Refines, DiscoveryTyped, Counters
  <2> QED BY <1>3, <2>1 DEF Refines, DiscoveryTyped, Answering, PriceToBeat
<1>4. CASE Outage
  <2>1. left' \in Scenario
    BY <1>4, SpendTyped DEF Outage, DiscoveryTyped, Counters
  <2>2. gamma' \in Answering
    BY <1>4, GoesDown DEF Outage, DiscoveryTyped
  <2> QED BY <1>4, <2>1, <2>2 DEF Outage, DiscoveryTyped
<1>5. CASE Recovers
  <2>1. gamma' \in Answering
    BY <1>5, GoesDown DEF Recovers, DiscoveryTyped
  <2> QED BY <1>5, <2>1 DEF Recovers, DiscoveryTyped
<1>6. CASE Tick
  <2>1. left' \in Scenario
    BY <1>6, SpendTyped DEF Tick, DiscoveryTyped, Counters
  <2> QED BY <1>6, <2>1 DEF Tick, DiscoveryTyped
<1> QED BY <1>1, <1>2, <1>3, <1>4, <1>5, <1>6 DEF Surroundings

\* What discovery makes of a market that was found.
LEMMA ResolvedMarket ==
  ASSUME DiscoveryTyped, NEW m \in Market, Resolved(m)
  PROVE  /\ disc' \in [at : {"emit", "refresh", "sleep"}, seen : {disc.seen}, profile : {disc.profile},
                       emitted : [slug : Slug, ptb : PriceToBeat] \cup {None}, end : {m.closes},
                       market : {m} \cup {None}]
         /\ disc'.at \in {"emit", "refresh"} => disc'.market = m
<1>1. m.slug \in Slug /\ m.ptb \in PriceToBeat
  BY DEF Market
<1> QED BY <1>1 DEF Resolved, DiscoveryTyped

LEMMA PricedMarket ==
  ASSUME DiscoveryTyped, NEW slug \in Slug, Priced(slug)
  PROVE  /\ \E m \in Market : m.slug = slug /\ m.closes = EndDate(slug) /\ Resolved(m)
         /\ left' \in Scenario
<1>1. gamma.price \in PriceToBeat /\ None \in PriceToBeat /\ left \in Scenario
  BY DEF DiscoveryTyped, Answering, PriceToBeat
<1>2. CASE (\E m \in {ActiveMarket(slug, gamma.price)} : Resolved(m)) /\ UNCHANGED left
  BY <1>1, <1>2, MarketOf
<1>3. CASE /\ gamma.price # None /\ May("unpriced") /\ Spend("unpriced")
           /\ \E m \in {ActiveMarket(slug, None)} : Resolved(m)
  BY <1>1, <1>3, MarketOf, SpendTyped DEF Counters
<1> QED BY <1>2, <1>3 DEF Priced

\* A find or a turn to the next window finds nothing, or a market of the profile that is open.
LEMMA AnsweredTyped ==
  ASSUME DiscoveryTyped, Answers
  PROVE  /\ DiscoveryTyped'
         /\ UNCHANGED <<now, gamma, watch, marketTx, tx>>
         /\ disc.at \in {"find", "next"} /\ disc.profile \in Profile
         /\ \/ disc' = [disc EXCEPT !.at = "sleep"]
            \/ \E k \in Nat, m \in Market :
                 /\ SlugOf(disc.profile, k) \in Open /\ SlugOf(disc.profile, k) # None
                 /\ m.slug = SlugOf(disc.profile, k) /\ m.closes = EndDate(m.slug)
                 /\ Resolved(m)
                 /\ \/ disc.at = "next" /\ (IsRolling(disc.profile) => k = disc.end)
                    \/ disc.at = "find" /\ SlugOf(disc.profile, k) = FindCurrent(disc.profile, now, Open)
<1>1. Open \in SUBSET Slug
  BY DEF Open, DiscoveryTyped, Answering
<1>2. disc.at \in {"find", "next"} /\ UNCHANGED <<now, gamma, watch, marketTx, tx>>
  BY DEF Answers, FindAnswered, FindFails, NextAnswered
<1>3. disc.profile \in Profile /\ watch.profile \in Profile
  BY <1>2 DEF DiscoveryTyped
<1>4. ASSUME NEW m \in Market, Resolved(m), left' \in Scenario
      PROVE  DiscoveryTyped'
  <2>1. m.closes \in Int
    BY DEF Market
  <2> QED BY <1>2, <1>3, <1>4, <2>1, ResolvedMarket DEF DiscoveryTyped, Turns
<1>5. ASSUME disc' = [disc EXCEPT !.at = "sleep"], UNCHANGED left
      PROVE  DiscoveryTyped'
  BY <1>2, <1>3, <1>5 DEF DiscoveryTyped, Turns
<1>6. CASE FindAnswered
  <2> DEFINE slug == FindCurrent(disc.profile, now, Open)
  <2>1. \/ slug # None /\ Priced(slug)
        \/ disc' = [disc EXCEPT !.at = "sleep"] /\ UNCHANGED left
    BY <1>6 DEF FindAnswered
  <2>2. CASE slug # None /\ Priced(slug)
    <3>1. PICK k \in Nat : slug = SlugOf(disc.profile, k) /\ SlugOf(disc.profile, k) \in Open
      BY <1>1, <1>3, <2>2, FindCurrentAnswer
    <3> HIDE DEF slug
    <3>2. PICK m \in Market : m.slug = slug /\ m.closes = EndDate(slug) /\ Resolved(m)
      BY <1>1, <2>2, <3>1, PricedMarket
    <3>3. left' \in Scenario
      BY <1>1, <2>2, <3>1, PricedMarket
    <3> QED BY <1>2, <1>3, <1>4, <1>6, <3>1, <3>2, <3>3 DEF slug, FindAnswered
  <2> QED BY <1>2, <1>3, <1>5, <2>1, <2>2
<1>7. CASE FindFails
  BY <1>2, <1>3, <1>5, <1>7 DEF FindFails
<1>8. CASE NextAnswered
  <2>1. PICK slug \in {FetchNext(disc.profile, disc.end, Open)} \ {None} : Priced(slug)
    BY <1>8 DEF NextAnswered
  <2>2. PICK k \in Nat : /\ slug = SlugOf(disc.profile, k) /\ SlugOf(disc.profile, k) \in Open
                         /\ IsRolling(disc.profile) => k = disc.end
    BY <1>1, <1>3, <2>1, FetchNextAnswer
  <2>3. PICK m \in Market : m.slug = slug /\ m.closes = EndDate(slug) /\ Resolved(m)
    BY <1>1, <2>1, <2>2, PricedMarket
  <2>4. left' \in Scenario
    BY <1>1, <2>1, <2>2, PricedMarket
  <2> QED BY <1>2, <1>3, <1>4, <1>8, <2>2, <2>3, <2>4 DEF NextAnswered
<1> QED BY <1>6, <1>7, <1>8 DEF Answers

LEMMA TurnTyped ==
  ASSUME DiscoveryTyped, disc.at = "sleep", Turn(watch.profile),
         UNCHANGED <<left, now, gamma, marketTx, tx>>,
         watch' \in {watch, [watch EXCEPT !.unseen = FALSE]}
  PROVE  /\ DiscoveryTyped' /\ watch.profile \in Profile
         /\ disc'.at \in {"find", "next"}
         /\ disc'.profile = watch.profile /\ disc'.seen = watch.profile
         /\ disc'.end \in {None} \cup {e \in {disc.end} : disc.seen = watch.profile}
<1>1. watch.profile \in Profile /\ watch'.profile = watch.profile /\ now \in Nat
  BY DEF DiscoveryTyped
<1>2. PICK end \in Int \cup {None} : /\ end = IF disc.seen = watch.profile THEN disc.end ELSE None
                                     /\ disc'.at = IF AfterClose(end) THEN "next" ELSE "find"
                                     /\ disc'.end = end
  BY DEF Turn, DiscoveryTyped
<1>3. disc' \in [at : {"find", "next"}, seen : {watch.profile}, profile : {watch.profile},
                 emitted : [slug : Slug, ptb : PriceToBeat] \cup {None}, end : {end},
                 market : Market \cup {None}]
  BY <1>1, <1>2 DEF Turn, DiscoveryTyped
<1>4. disc'.at = "next" => disc'.end # None /\ disc'.end \in Int /\ disc'.end <= now
  BY <1>1, <1>2 DEF AfterClose
<1> QED BY <1>1, <1>2, <1>3, <1>4 DEF DiscoveryTyped, Turns

LEMMA AppendTyped ==
  ASSUME ChannelTyped, NEW e, IsEvent(e), tx' = Append(tx, e)
  PROVE  ChannelTyped'
<1>1. /\ SeqOf(tx') /\ Len(tx') = Len(tx) + 1 /\ Len(tx) \in Nat /\ tx'[Len(tx) + 1] = e
      /\ \A i \in 1 .. Len(tx) : tx'[i] = tx[i]
  BY Longer DEF ChannelTyped
<1>2. \A i \in 1 .. Len(tx') : i = Len(tx) + 1 \/ i \in 1 .. Len(tx)
  BY <1>1
<1>3. ASSUME NEW i \in 1 .. Len(tx') PROVE IsEvent(tx'[i])
  <2>1. CASE i = Len(tx) + 1
    BY <1>1, <2>1
  <2>2. CASE i \in 1 .. Len(tx)
    <3>1. tx'[i] = tx[i] /\ IsEvent(tx[i])
      BY <1>1, <2>2 DEF ChannelTyped
    <3> QED BY <3>1
  <2> QED BY <1>2, <2>1, <2>2
<1> QED BY <1>1, <1>3 DEF ChannelTyped

LEMMA TakesTyped ==
  ASSUME ChannelTyped, tx # <<>>, tx' = Tail(tx)
  PROVE  ChannelTyped' /\ IsEvent(Event)
<1>1. /\ SeqOf(tx') /\ Len(tx') = Len(tx) - 1 /\ Len(tx) \in Nat \ {0} /\ Event = tx[1]
      /\ \A i \in 1 .. Len(tx) - 1 : tx'[i] = tx[i + 1]
  BY Shorter DEF ChannelTyped, Event
<1>2. ASSUME NEW i \in 1 .. Len(tx') PROVE IsEvent(tx'[i])
  <2>1. i + 1 \in 1 .. Len(tx) /\ tx'[i] = tx[i + 1]
    BY <1>1
  <2> QED BY <2>1 DEF ChannelTyped
<1>3. IsEvent(tx[1])
  BY <1>1 DEF ChannelTyped
<1> QED BY <1>1, <1>2, <1>3 DEF ChannelTyped

\* What the kind of an event says of its other fields.
LEMMA EventFields ==
  ASSUME NEW e, IsEvent(e)
  PROVE  /\ e.kind = "start" => e.profile \in Profile
         /\ e.kind = "roll" => e.market \in Market
         /\ e.kind = "ptb" => e.slug \in Slug /\ e.ptb \in PriceToBeat
         /\ e.kind = "price" => e.asset \in Assets
         /\ e.kind = "holders" => e.slug \in Slug
  BY DEF IsEvent

LEMMA DiscoveryTypedNext ==
  ASSUME DiscoveryTyped, ChannelTyped, DiscoveryStep
  PROVE  DiscoveryTyped' /\ ChannelTyped'
<1>1. CASE Answers
  <2>1. DiscoveryTyped' /\ tx' = tx
    BY <1>1, AnsweredTyped
  <2> QED BY <2>1 DEF ChannelTyped
<1>2. CASE Emit
  <2>1. disc.market \in Market
    BY <1>2 DEF Emit, DiscoveryTyped
  <2>2. marketTx' \in Seq(Market)
    BY <1>2, <2>1 DEF Emit, DiscoveryTyped
  <2>3. DiscoveryTyped'
    BY <1>2, <2>2 DEF Emit, DiscoveryTyped, Turns
  <2> QED BY <1>2, <2>3 DEF Emit, ChannelTyped
<1>3. CASE Refresh(RollInFlight)
  <2> DEFINE e == [kind |-> "ptb", slug |-> disc.market.slug, ptb |-> disc.market.ptb]
  <2>1. disc.market \in Market
    BY <1>3 DEF Refresh, DiscoveryTyped
  <2>2. IsEvent(e)
    BY <2>1 DEF Market, IsEvent
  <2>3. tx' = Append(tx, e)
    BY <1>3 DEF Refresh
  <2>4. ChannelTyped'
    BY <2>2, <2>3, AppendTyped
  <2>5. DiscoveryTyped'
    BY <1>3 DEF Refresh, DiscoveryTyped, Turns
  <2> QED BY <2>4, <2>5
<1>4. CASE WakeAfterDelay(RollInFlight) \/ WakeByProfile
  <2>1. /\ disc.at = "sleep" /\ Turn(watch.profile)
        /\ UNCHANGED <<left, now, gamma, marketTx, tx>>
        /\ watch' \in {watch, [watch EXCEPT !.unseen = FALSE]}
    BY <1>4 DEF WakeAfterDelay, WakeByProfile
  <2>2. DiscoveryTyped'
    BY <2>1, TurnTyped
  <2> QED BY <2>1, <2>2 DEF ChannelTyped
<1> QED BY <1>1, <1>2, <1>3, <1>4 DEF DiscoveryStep

LEMMA BookTypedNext ==
  ASSUME DiscoveryTyped, ChannelTyped, BookStep
  PROVE  /\ DiscoveryTyped' /\ ChannelTyped'
         /\ UNCHANGED <<now, gamma, watch, disc, marketTx>>
         /\ \/ tx' = tx
            \/ \E e : e.kind = "book" /\ tx' = Append(tx, e)
<1>1. CASE Quotes \/ TaskDrops
  <2>1. left' \in Scenario /\ UNCHANGED <<now, gamma, watch, disc, marketTx, tx>>
    BY <1>1, SpendTyped DEF Quotes, TaskDrops, DiscoveryTyped, Counters
  <2> QED BY <2>1 DEF DiscoveryTyped, ChannelTyped
<1>2. CASE TaskConnects(sup.roll # None) \/ TaskReads \/ Drain
  <2>1. UNCHANGED discVars
    BY <1>2 DEF TaskConnects, TaskReads, Drain
  <2> QED BY <2>1 DEF discVars, DiscoveryTyped, ChannelTyped
<1>3. CASE SendBook
  <2>1. PICK t : tx' = Append(tx, [kind |-> "book", token |-> t, levels |-> batch[t]])
    BY <1>3 DEF SendBook
  <2>2. PICK e : e.kind = "book" /\ tx' = Append(tx, e)
    BY <2>1
  <2>3. IsEvent(e)
    BY <2>2 DEF IsEvent
  <2>4. ChannelTyped'
    BY <2>2, <2>3, AppendTyped
  <2>5. UNCHANGED <<left, now, gamma, watch, disc, marketTx>>
    BY <1>3 DEF SendBook
  <2> QED BY <2>2, <2>4, <2>5 DEF DiscoveryTyped
<1> QED BY <1>1, <1>2, <1>3 DEF BookStep

\* The end of an event's handler leaves the market, the holders and the profile as they
\* were made, and the lists are of tokens and of slugs.
LEMMA Published ==
  ASSUME AppTyped, NEW a, IsApp(a), Publish(a)
  PROVE  /\ IsApp(app)'
         /\ app'.market = a.market /\ app'.holders = a.holders /\ app'.profile = a.profile
         /\ tokenW' \in [tokens : SUBSET Tokens, unseen : BOOLEAN]
         /\ bundleW' \in [active : Slug \cup {None}, extras : SUBSET Slug, unseen : BOOLEAN]
<1>1. PICK books : app' = [a EXCEPT !.books = books]
  BY DEF Publish
<1>2. /\ IsApp(app)' /\ app'.market = a.market /\ app'.holders = a.holders /\ app'.profile = a.profile
  BY <1>1 DEF IsApp
<1>3. Pair(a.market) \in SUBSET Tokens
  BY DEF IsApp, Pair, Market
<1>4. WatchTokens(a) \in SUBSET Tokens
  BY <1>3 DEF WatchTokens, IsApp
<1>5. tokenW' \in [tokens : SUBSET Tokens, unseen : BOOLEAN]
  BY <1>4 DEF Publish, AppTyped
<1>6. {t.slug : t \in a.trailing} \in SUBSET Slug
  BY DEF IsApp, Tokens
<1>7. BundleOf(a).active \in Slug \cup {None} /\ BundleOf(a).extras \in SUBSET Slug
  BY <1>6 DEF BundleOf, IsApp, Market
<1>8. bundleW' \in [active : Slug \cup {None}, extras : SUBSET Slug, unseen : BOOLEAN]
  BY <1>7 DEF Publish, AppTyped
<1> QED BY <1>2, <1>5, <1>8

\* What an event changes of the market and the holders that are shown.
SameMarket(m, n) ==
  \/ m = n
  \/ m \in Market /\ n \in Market /\ m # None /\ m.slug = n.slug /\ m.closes = n.closes

EventEffect ==
  /\ tx # <<>> /\ tx' = Tail(tx)
  /\ UNCHANGED <<left, now, gamma, marketTx, sup, holders, session, feed>>
  /\ \/ Event.kind = "start" /\ StartTrading /\ app'.market = None /\ app'.holders = None
     \/ /\ Event.kind = "roll" /\ Event.market \in Market
        /\ app'.market = Event.market /\ app'.holders = None
        /\ UNCHANGED <<watch, disc>>
     \/ /\ Event.kind = "holders" /\ Event.slug \in Slug
        /\ app'.market = app.market /\ app'.holders = Event.slug
        /\ UNCHANGED <<watch, disc>>
     \/ /\ Event.kind \notin {"start", "roll", "holders"}
        /\ SameMarket(app.market, app'.market) /\ app'.holders = app.holders
        /\ UNCHANGED <<watch, disc>>

\* Nothing happens to the AppState but what an event's handler publishes.
LEMMA PublishedTyped ==
  ASSUME AppTyped, NEW a, IsApp(a), Publish(a),
         UNCHANGED <<sup, holders, session, feed>>,
         symbolW' \in [asset : Assets \cup {None}, unseen : BOOLEAN]
  PROVE  AppTyped' /\ app'.market = a.market /\ app'.holders = a.holders
  BY Published DEF AppTyped

LEMMA EventTyped ==
  ASSUME TypeOK, EventLoop
  PROVE  TypeOK' /\ EventEffect
<1>1. PICK kind : Takes(kind)
  BY DEF EventLoop, StartTrading, MarketRoll, PriceToBeatRefresh, Price, BookShown, TopHoldersSentiment
<1>2. ChannelTyped' /\ IsEvent(Event)
  BY <1>1, TakesTyped DEF Takes, TypeOK
<1>3. DiscoveryTyped /\ AppTyped /\ IsApp(app)
  BY DEF TypeOK, AppTyped
<1> DEFINE Quiet == UNCHANGED <<left, now, gamma, watch, disc, marketTx, symbolW, sup, holders, session, feed>>
<1>4. ASSUME Quiet, NEW a, IsApp(a), Publish(a)
      PROVE  TypeOK' /\ app'.market = a.market /\ app'.holders = a.holders
  <2>1. symbolW' \in [asset : Assets \cup {None}, unseen : BOOLEAN]
    BY <1>3, <1>4 DEF AppTyped
  <2>2. AppTyped' /\ app'.market = a.market /\ app'.holders = a.holders
    BY <1>3, <1>4, <2>1, PublishedTyped
  <2>3. DiscoveryTyped'
    BY <1>3, <1>4 DEF DiscoveryTyped
  <2> QED BY <1>2, <2>2, <2>3 DEF TypeOK
<1>5. CASE StartTrading
  <2>1. PICK p : p = Event.profile
    OBVIOUS
  <2>2. p \in Profile /\ Event.kind = "start"
    BY <1>2, <1>5, <2>1, EventFields DEF StartTrading, Takes
  <2>3. PICK a : a = [app EXCEPT !.phase = "trading", !.profile = p, !.market = None, !.books = <<>>,
                                 !.spot = None, !.holders = None, !.latched = None]
    OBVIOUS
  <2>4. IsApp(a) /\ a.market = None /\ a.holders = None
    BY <1>3, <2>2, <2>3 DEF IsApp
  <2>5. Publish(a) /\ UNCHANGED <<sup, holders, session, feed>>
    BY <1>5, <2>1, <2>3 DEF StartTrading
  <2>6. symbolW' \in [asset : Assets \cup {None}, unseen : BOOLEAN]
    BY <1>5, <2>1, <2>2 DEF StartTrading, Profile
  <2>7. AppTyped' /\ app'.market = None /\ app'.holders = None
    BY <1>3, <2>4, <2>5, <2>6, PublishedTyped
  <2>8. DiscoveryTyped'
    <3>1. watch' = [profile |-> p, unseen |-> TRUE] /\ UNCHANGED <<left, now, gamma, marketTx>>
      BY <1>5, <2>1 DEF StartTrading
    <3>2. disc' = IF disc.at = "off" THEN [disc EXCEPT !.at = "find", !.seen = p, !.profile = p] ELSE disc
      BY <1>5, <2>1 DEF StartTrading
    <3> QED BY <1>3, <2>2, <3>1, <3>2 DEF DiscoveryTyped, Turns
  <2>9. EventEffect
    BY <1>5, <2>2, <2>7 DEF StartTrading, Takes, EventEffect
  <2> QED BY <1>2, <2>7, <2>8, <2>9 DEF TypeOK
<1>6. CASE MarketRoll
  <2>1. PICK m : m = Event.market
    OBVIOUS
  <2>2. m \in Market /\ Event.kind = "roll"
    BY <1>2, <1>6, <2>1, EventFields DEF MarketRoll, Takes
  <2>3. PICK a : a = [app EXCEPT !.market = m, !.trailing = {}, !.books = <<>>, !.holders = None, !.latched = None]
    OBVIOUS
  <2>4. IsApp(a) /\ a.market = m /\ a.holders = None
    BY <1>3, <2>2, <2>3 DEF IsApp
  <2>5. Publish(a) /\ Quiet
    BY <1>6, <2>1, <2>3 DEF MarketRoll
  <2>6. TypeOK' /\ app'.market = m /\ app'.holders = None
    BY <1>4, <2>4, <2>5
  <2> QED BY <1>6, <2>1, <2>2, <2>6 DEF MarketRoll, Takes, EventEffect
<1>7. CASE PriceToBeatRefresh
  <2>1. Event.ptb \in PriceToBeat /\ Event.kind = "ptb"
    BY <1>2, <1>7, EventFields DEF PriceToBeatRefresh, Takes
  <2>2. PICK ptb \in PriceToBeat : ptb = Event.ptb
    BY <2>1
  <2> DEFINE known == app.market # None /\ app.market.slug = Event.slug /\ Event.ptb # None
  <2>3. PICK a : a = IF known THEN [app EXCEPT !.market.ptb = ptb, !.latched = None] ELSE app
    OBVIOUS
  <2>4. IsApp(a) /\ SameMarket(app.market, a.market) /\ a.holders = app.holders
    <3>1. CASE known
      <4>1. app.market \in Market /\ app.market # None
        BY <1>3, <3>1 DEF IsApp
      <4>2. a = [app EXCEPT !.market = [app.market EXCEPT !.ptb = ptb], !.latched = None]
        BY <1>3, <2>3, <3>1 DEF IsApp
      <4>3. PICK m \in Market : /\ m = [app.market EXCEPT !.ptb = ptb]
                                /\ m.slug = app.market.slug /\ m.closes = app.market.closes
        BY <4>1, Repriced
      <4>4. a = [app EXCEPT !.market = m, !.latched = None]
        BY <4>2, <4>3
      <4>5. IsApp(a) /\ a.market = m /\ a.holders = app.holders
        BY <1>3, <4>4 DEF IsApp
      <4> QED BY <4>1, <4>3, <4>5 DEF SameMarket
    <3>2. CASE ~known
      BY <1>3, <2>3, <3>2 DEF SameMarket
    <3> QED BY <3>1, <3>2
  <2>5. Publish(a) /\ Quiet
    BY <1>7, <2>2, <2>3 DEF PriceToBeatRefresh
  <2>6. TypeOK' /\ app'.market = a.market /\ app'.holders = a.holders
    BY <1>4, <2>4, <2>5
  <2> QED BY <1>7, <2>1, <2>4, <2>6 DEF PriceToBeatRefresh, Takes, EventEffect
<1>8. CASE Price
  <2>1. Event.asset \in Assets /\ Event.kind = "price"
    BY <1>2, <1>8, EventFields DEF Price, Takes
  <2>2. PICK asset \in Assets : asset = Event.asset
    BY <2>1
  <2>3. PICK latched \in Assets \cup {None} :
          Publish([app EXCEPT !.spot = asset, !.latched = latched]) /\ Quiet
    <3>1. app.latched \in Assets \cup {None}
      BY <1>3 DEF IsApp
    <3> QED BY <1>3, <1>8, <2>2, <3>1 DEF Price, IsApp
  <2>4. PICK a : a = [app EXCEPT !.spot = asset, !.latched = latched]
    OBVIOUS
  <2>5. IsApp(a) /\ a.market = app.market /\ a.holders = app.holders
    BY <1>3, <2>4 DEF IsApp
  <2>6. TypeOK' /\ app'.market = a.market /\ app'.holders = a.holders
    BY <1>4, <2>3, <2>4, <2>5
  <2> QED BY <1>8, <2>1, <2>5, <2>6 DEF Price, Takes, EventEffect, SameMarket
<1>9. CASE BookShown
  <2>1. PICK books : Publish([app EXCEPT !.books = books]) /\ Quiet
    <3>1. app = [app EXCEPT !.books = app.books]
      BY <1>3 DEF IsApp
    <3> QED BY <1>9, <3>1 DEF BookShown
  <2>2. PICK a : a = [app EXCEPT !.books = books]
    OBVIOUS
  <2>3. IsApp(a) /\ a.market = app.market /\ a.holders = app.holders
    BY <1>3, <2>2 DEF IsApp
  <2>4. TypeOK' /\ app'.market = a.market /\ app'.holders = a.holders
    BY <1>4, <2>1, <2>2, <2>3
  <2> QED BY <1>9, <2>3, <2>4 DEF BookShown, Takes, EventEffect, SameMarket
<1>10. CASE TopHoldersSentiment
  <2>1. Event.slug \in Slug /\ Event.kind = "holders"
    BY <1>2, <1>10, EventFields DEF TopHoldersSentiment, Takes
  <2>2. PICK slug \in Slug : slug = Event.slug
    BY <2>1
  <2>3. PICK a : a = [app EXCEPT !.holders = slug]
    OBVIOUS
  <2>4. IsApp(a) /\ a.market = app.market /\ a.holders = slug
    BY <1>3, <2>3 DEF IsApp
  <2>5. Publish(a) /\ Quiet
    BY <1>10, <2>2, <2>3 DEF TopHoldersSentiment
  <2>6. TypeOK' /\ app'.market = a.market /\ app'.holders = a.holders
    BY <1>4, <2>4, <2>5
  <2> QED BY <1>10, <2>1, <2>2, <2>4, <2>6 DEF TopHoldersSentiment, Takes, EventEffect
<1> QED BY <1>5, <1>6, <1>7, <1>8, <1>9, <1>10 DEF EventLoop

LEMMA DesiredSlugs == AppTyped => Desired \in SUBSET Slug
  BY DEF AppTyped, Desired

LEMMA SupervisorTyped ==
  ASSUME TypeOK, Supervisor
  PROVE  TypeOK'
<1>1. DiscoveryTyped /\ ChannelTyped /\ AppTyped
  BY DEF TypeOK
<1>2. CASE TakesMarket
  <2>1. PICK m : m = Head(marketTx)
    OBVIOUS
  <2>2. m \in Market /\ marketTx' \in Seq(Market)
    BY <1>1, <1>2, <2>1 DEF TakesMarket, DiscoveryTyped
  <2>3. Pair(m) \in SUBSET Tokens
    BY <2>2 DEF Pair, Market
  <2>4. sup' = [ui |-> Pair(m), spawned |-> Pair(m) \cup tokenW.tokens, roll |-> m]
    BY <1>2, <2>1 DEF TakesMarket
  <2>5. sup' \in [ui : SUBSET Tokens, spawned : SUBSET Tokens, roll : Market \cup {None}]
    BY <1>1, <2>2, <2>3, <2>4 DEF AppTyped
  <2>6. holders' = None /\ UNCHANGED <<left, now, gamma, watch, disc, tx, appVars, session, feed>>
    BY <1>2 DEF TakesMarket
  <2>7. AppTyped'
    BY <1>1, <2>5, <2>6 DEF AppTyped, appVars
  <2> QED BY <1>1, <2>2, <2>6, <2>7 DEF DiscoveryTyped, ChannelTyped, TypeOK
<1>3. CASE SendsRoll
  <2>1. sup.roll \in Market
    BY <1>1, <1>3 DEF SendsRoll, AppTyped
  <2>2. PICK e : e = [kind |-> "roll", market |-> sup.roll]
    OBVIOUS
  <2>3. IsEvent(e)
    BY <2>1, <2>2 DEF IsEvent
  <2>4. ChannelTyped'
    BY <1>1, <1>3, <2>2, <2>3, AppendTyped DEF SendsRoll
  <2>5. AppTyped'
    BY <1>1, <1>3, <2>1 DEF SendsRoll, AppTyped, appVars, Market
  <2> QED BY <1>1, <1>3, <2>4, <2>5 DEF SendsRoll, DiscoveryTyped, TypeOK
<1>4. CASE TakesTokens
  <2>1. UNCHANGED <<discVars, app, bundleW, symbolW, holders, session, feed>>
    BY <1>4 DEF TakesTokens
  <2>2. tokenW' = [tokenW EXCEPT !.unseen = FALSE] /\ sup' = [sup EXCEPT !.spawned = sup.ui \cup tokenW.tokens]
    BY <1>4 DEF TakesTokens
  <2>3. AppTyped'
    BY <1>1, <2>1, <2>2 DEF AppTyped
  <2> QED BY <1>1, <2>1, <2>3 DEF discVars, DiscoveryTyped, ChannelTyped, TypeOK
<1> QED BY <1>2, <1>3, <1>4 DEF Supervisor

LEMMA SessionTyped ==
  ASSUME TypeOK, SessionStep
  PROVE  TypeOK' /\ UNCHANGED <<now, gamma, watch, disc, marketTx, tx, app, sup, holders>>
<1>1. DiscoveryTyped /\ ChannelTyped /\ AppTyped
  BY DEF TypeOK
<1> DEFINE Session == [up : BOOLEAN, subscribed : SUBSET Slug, handshake : BOOLEAN, synced : BOOLEAN,
                       server : SUBSET Slug]
<1>2. CASE SessionConnects
  <2>1. session' \in Session
    BY <1>2 DEF SessionConnects, NoSession
  <2>2. UNCHANGED <<discVars, appVars, sup, holders, feed>>
    BY <1>2 DEF SessionConnects
  <2> QED BY <1>1, <2>1, <2>2 DEF discVars, appVars, DiscoveryTyped, ChannelTyped, AppTyped, TypeOK
<1>3. CASE SessionSyncs
  <2>1. UNCHANGED <<discVars, app, tokenW, symbolW, sup, holders, feed>>
    BY <1>3 DEF SessionSyncs
  <2>2. PICK desired \in SUBSET Slug : desired = Desired
    BY <1>1, DesiredSlugs
  <2>3. PICK server \in SUBSET Slug :
          session' = [session EXCEPT !.synced = TRUE, !.subscribed = desired, !.handshake = desired # {},
                                     !.server = server]
    <3> DEFINE server == (session.server \ (session.subscribed \ desired))
                           \cup (IF session.handshake THEN desired \ session.subscribed ELSE desired)
    <3>1. server \in SUBSET Slug
      BY <1>1 DEF AppTyped
    <3>2. session' = [session EXCEPT !.synced = TRUE, !.subscribed = desired, !.handshake = desired # {},
                                     !.server = server]
      BY <1>1, <1>3, <2>2 DEF SessionSyncs, AppTyped
    <3> QED BY <3>1, <3>2
  <2>4. session' \in Session
    BY <1>1, <2>3 DEF AppTyped
  <2>5. bundleW' = [bundleW EXCEPT !.unseen = FALSE]
    BY <1>3 DEF SessionSyncs
  <2>6. AppTyped'
    BY <1>1, <2>1, <2>4, <2>5 DEF AppTyped
  <2> QED BY <1>1, <2>1, <2>6 DEF discVars, DiscoveryTyped, ChannelTyped, TypeOK
<1>4. CASE SessionDrops
  <2>1. left' \in Scenario
    BY <1>1, <1>4, SpendTyped DEF SessionDrops, DiscoveryTyped, Counters
  <2>2. session' \in Session
    BY <1>4 DEF SessionDrops, NoSession
  <2>3. UNCHANGED <<now, gamma, watch, disc, marketTx, tx, appVars, sup, holders, feed>>
    BY <1>4 DEF SessionDrops
  <2>4. DiscoveryTyped'
    BY <1>1, <2>1, <2>3 DEF DiscoveryTyped
  <2> QED BY <1>1, <2>2, <2>3, <2>4 DEF appVars, ChannelTyped, AppTyped, TypeOK
<1> QED BY <1>2, <1>3, <1>4 DEF SessionStep

LEMMA FeedTyped ==
  ASSUME TypeOK, FeedStep
  PROVE  /\ TypeOK' /\ UNCHANGED <<now, gamma, watch, disc, marketTx, app, sup, holders>>
         /\ \/ tx' = tx
            \/ \E e : e.kind = "price" /\ tx' = Append(tx, e)
<1>1. DiscoveryTyped /\ ChannelTyped /\ AppTyped
  BY DEF TypeOK
<1> DEFINE Feed == [asset : Assets \cup {None}, tick : [asset : Assets, at : Nat] \cup {None}]
           Symbol == [asset : Assets \cup {None}, unseen : BOOLEAN]
<1>2. CASE FeedConnects
  <2>1. feed' \in Feed
    BY <1>1, <1>2 DEF FeedConnects, AppTyped
  <2>2. UNCHANGED <<discVars, appVars, sup, holders, session>>
    BY <1>2 DEF FeedConnects
  <2> QED BY <1>1, <2>1, <2>2 DEF discVars, appVars, DiscoveryTyped, ChannelTyped, AppTyped, TypeOK
<1>3. CASE FeedSeesSymbol
  <2>1. feed' \in Feed
    BY <1>1, <1>3 DEF FeedSeesSymbol, AppTyped
  <2>2. symbolW' \in Symbol
    BY <1>1, <1>3 DEF FeedSeesSymbol, AppTyped
  <2>3. UNCHANGED <<discVars, app, tokenW, bundleW, sup, holders, session>>
    BY <1>3 DEF FeedSeesSymbol
  <2> QED BY <1>1, <2>1, <2>2, <2>3 DEF discVars, DiscoveryTyped, ChannelTyped, AppTyped, TypeOK
<1>4. CASE FeedReads
  <2>1. now \in Nat
    BY <1>1 DEF DiscoveryTyped
  <2>2. feed' \in Feed
    BY <1>1, <1>4, <2>1 DEF FeedReads, AppTyped
  <2>3. UNCHANGED <<discVars, appVars, sup, holders, session>>
    BY <1>4 DEF FeedReads
  <2> QED BY <1>1, <2>2, <2>3 DEF discVars, appVars, DiscoveryTyped, ChannelTyped, AppTyped, TypeOK
<1>5. CASE FeedDrops
  <2>1. left' \in Scenario
    BY <1>1, <1>5, SpendTyped DEF FeedDrops, DiscoveryTyped, Counters
  <2>2. feed' \in Feed
    BY <1>1, <1>5 DEF FeedDrops, AppTyped
  <2>3. UNCHANGED <<now, gamma, watch, disc, marketTx, tx, appVars, sup, holders, session>>
    BY <1>5 DEF FeedDrops
  <2>4. DiscoveryTyped'
    BY <1>1, <2>1, <2>3 DEF DiscoveryTyped
  <2> QED BY <1>1, <2>2, <2>3, <2>4 DEF appVars, ChannelTyped, AppTyped, TypeOK
<1>6. CASE Forwards
  <2>1. feed.tick \in [asset : Assets, at : Nat]
    BY <1>1, <1>6 DEF Forwards, AppTyped
  <2>2. PICK e : e = [kind |-> "price", asset |-> feed.tick.asset, at |-> feed.tick.at]
    OBVIOUS
  <2>3. IsEvent(e) /\ e.kind = "price"
    BY <2>1, <2>2 DEF IsEvent
  <2>4. tx' = tx \/ tx' = Append(tx, e)
    BY <1>6, <2>2 DEF Forwards
  <2>5. ChannelTyped'
    BY <1>1, <2>3, <2>4, AppendTyped DEF ChannelTyped
  <2>6. feed' \in Feed
    BY <1>1, <1>6 DEF Forwards, AppTyped
  <2>7. UNCHANGED <<left, now, gamma, watch, disc, marketTx, appVars, sup, holders, session>>
    BY <1>6 DEF Forwards
  <2>8. AppTyped'
    BY <1>1, <2>6, <2>7 DEF appVars, AppTyped
  <2>9. DiscoveryTyped'
    BY <1>1, <2>7 DEF DiscoveryTyped
  <2> QED BY <2>3, <2>4, <2>5, <2>7, <2>8, <2>9 DEF appVars, TypeOK
<1> QED BY <1>2, <1>3, <1>4, <1>5, <1>6 DEF FeedStep

\* The user, and the trailing sessions that start and end.
UserStep == ToWizard \/ Enter \/ Arms \/ Exits

LEMMA UserTyped ==
  ASSUME TypeOK, UserStep
  PROVE  /\ TypeOK' /\ UNCHANGED <<now, gamma, watch, disc, marketTx, sup, holders>>
         /\ app'.market = app.market /\ app'.holders = app.holders
         /\ \/ tx' = tx
            \/ \E e : e.kind = "start" /\ tx' = Append(tx, e)
<1>1. DiscoveryTyped /\ ChannelTyped /\ AppTyped /\ IsApp(app)
  BY DEF TypeOK, AppTyped
<1>2. CASE ToWizard
  <2>1. IsApp(app)' /\ app'.market = app.market /\ app'.holders = app.holders
    BY <1>1, <1>2 DEF ToWizard, IsApp
  <2>2. UNCHANGED <<discVars, tokenW, bundleW, symbolW, sup, holders, session, feed>>
    BY <1>2 DEF ToWizard
  <2> QED BY <1>1, <2>1, <2>2 DEF discVars, DiscoveryTyped, ChannelTyped, AppTyped, TypeOK
<1>3. CASE Enter
  <2>1. left' \in Scenario
    BY <1>1, <1>3, SpendTyped DEF Enter, DiscoveryTyped, Counters
  <2>2. PICK p \in left.profiles : tx' = tx \/ tx' = Append(tx, [kind |-> "start", profile |-> p])
    BY <1>3 DEF Enter
  <2>3. p \in Profile
    BY <1>1, <2>2 DEF DiscoveryTyped, Scenario
  <2>4. PICK e : e = [kind |-> "start", profile |-> p]
    OBVIOUS
  <2>5. IsEvent(e) /\ e.kind = "start"
    BY <2>3, <2>4 DEF IsEvent
  <2>6. ChannelTyped'
    BY <1>1, <2>2, <2>4, <2>5, AppendTyped DEF ChannelTyped
  <2>7. UNCHANGED <<now, gamma, watch, disc, marketTx, appVars, sup, holders, session, feed>>
    BY <1>3 DEF Enter
  <2>8. DiscoveryTyped'
    BY <1>1, <2>1, <2>7 DEF DiscoveryTyped
  <2>9. AppTyped'
    BY <1>1, <2>7 DEF appVars, AppTyped
  <2> QED BY <2>2, <2>4, <2>5, <2>6, <2>7, <2>8, <2>9 DEF appVars, TypeOK
<1>4. ASSUME NEW trailing \in SUBSET Tokens, Publish([app EXCEPT !.trailing = trailing]),
             left' \in Scenario,
             UNCHANGED <<now, gamma, watch, disc, marketTx, tx, symbolW, sup, holders, session, feed>>
      PROVE  TypeOK' /\ app'.market = app.market /\ app'.holders = app.holders
  <2>1. PICK a : a = [app EXCEPT !.trailing = trailing]
    OBVIOUS
  <2>2. IsApp(a) /\ a.market = app.market /\ a.holders = app.holders
    BY <1>1, <2>1 DEF IsApp
  <2>3. symbolW' \in [asset : Assets \cup {None}, unseen : BOOLEAN]
    BY <1>1, <1>4 DEF AppTyped
  <2>4. AppTyped' /\ app'.market = a.market /\ app'.holders = a.holders
    BY <1>1, <1>4, <2>1, <2>2, <2>3, PublishedTyped
  <2>5. DiscoveryTyped' /\ ChannelTyped'
    BY <1>1, <1>4 DEF DiscoveryTyped, ChannelTyped
  <2> QED BY <2>2, <2>4, <2>5 DEF TypeOK
<1>5. CASE Arms
  <2>1. left' \in Scenario
    BY <1>1, <1>5, SpendTyped DEF Arms, DiscoveryTyped, Counters
  <2>2. PICK t \in Pair(app.market) : Publish([app EXCEPT !.trailing = app.trailing \cup {t}])
    BY <1>1, <1>5 DEF Arms, IsApp
  <2>3. app.trailing \cup {t} \in SUBSET Tokens
    BY <1>1, <2>2 DEF IsApp, Pair, Market
  <2>4. UNCHANGED <<now, gamma, watch, disc, marketTx, tx, symbolW, sup, holders, session, feed>>
    BY <1>5 DEF Arms
  <2> QED BY <1>4, <2>1, <2>2, <2>3, <2>4
<1>6. CASE Exits
  <2>1. PICK t \in app.trailing : Publish([app EXCEPT !.trailing = app.trailing \ {t}])
    BY <1>1, <1>6 DEF Exits, IsApp
  <2>2. app.trailing \ {t} \in SUBSET Tokens
    BY <1>1 DEF IsApp
  <2>3. UNCHANGED <<discVars, symbolW, sup, holders, session, feed>>
    BY <1>6 DEF Exits
  <2> QED BY <1>1, <1>4, <2>1, <2>2, <2>3 DEF discVars, DiscoveryTyped
<1> QED BY <1>2, <1>3, <1>5, <1>6 DEF UserStep

LEMMA PollTyped ==
  ASSUME TypeOK, PollsHolders
  PROVE  TypeOK'
<1>1. DiscoveryTyped /\ ChannelTyped /\ AppTyped
  BY DEF TypeOK
<1>2. PICK e : e = [kind |-> "holders", slug |-> holders]
  OBVIOUS
<1>3. IsEvent(e)
  BY <1>1, <1>2 DEF PollsHolders, AppTyped, IsEvent
<1>4. ChannelTyped'
  BY <1>1, <1>2, <1>3, AppendTyped DEF PollsHolders
<1>5. UNCHANGED <<left, now, gamma, watch, disc, marketTx, appVars, sup, holders, session, feed>>
  BY DEF PollsHolders
<1> QED BY <1>1, <1>4, <1>5 DEF appVars, DiscoveryTyped, AppTyped, TypeOK

LEMMA TypeInit == Init => TypeOK
<1> SUFFICES ASSUME Init PROVE TypeOK
  OBVIOUS
<1>1. left \in Scenario
  BY ScenariosAssumption DEF Init
<1>2. DiscoveryTyped
  BY <1>1 DEF Init, DiscoveryTyped, Scenario, Answering, NoDiscovery, Turns
<1>3. ChannelTyped
  <2>1. CASE left.preset = None
    <3>1. tx = <<>>
      BY <2>1 DEF Init
    <3>2. tx \in Seq({}) /\ Len(tx) = 0
      BY <3>1
    <3>3. PICK S : tx \in Seq(S)
      BY <3>2
    <3>4. SeqOf(tx)
      BY <3>3, OwnRange
    <3> QED BY <3>2, <3>4 DEF ChannelTyped
  <2>2. CASE left.preset # None
    <3>1. PICK e : e = [kind |-> "start", profile |-> left.preset]
      OBVIOUS
    <3>2. tx = <<e>> /\ IsEvent(e)
      BY <1>1, <2>2, <3>1 DEF Init, Scenario, IsEvent
    <3>3. tx \in Seq({e}) /\ Len(tx) = 1 /\ tx[1] = e
      BY <3>2
    <3>4. PICK S : tx \in Seq(S)
      BY <3>3
    <3>5. SeqOf(tx)
      BY <3>4, OwnRange
    <3> QED BY <3>2, <3>3, <3>5 DEF ChannelTyped
  <2> QED BY <2>1, <2>2
<1>4. AppTyped
  BY DEF Init, AppTyped, IsApp, NoSession
<1> QED BY <1>2, <1>3, <1>4 DEF TypeOK

LEMMA TypeNext == TypeOK /\ [Next]_vars => TypeOK'
<1> SUFFICES ASSUME TypeOK, [Next]_vars PROVE TypeOK'
  OBVIOUS
<1>1. DiscoveryTyped /\ ChannelTyped /\ AppTyped
  BY DEF TypeOK
<1>2. CASE Surroundings /\ Elsewhere
  BY <1>1, <1>2, SurroundingsTyped DEF Elsewhere, appVars, ChannelTyped, AppTyped, TypeOK
<1>3. CASE DiscoveryStep /\ Elsewhere
  BY <1>1, <1>3, DiscoveryTypedNext DEF Elsewhere, appVars, AppTyped, TypeOK
<1>4. CASE BookStep /\ Elsewhere
  BY <1>1, <1>4, BookTypedNext DEF Elsewhere, appVars, AppTyped, TypeOK
<1>5. CASE UNCHANGED vars
  BY <1>1, <1>5 DEF vars, discVars, appVars, DiscoveryTyped, ChannelTyped, AppTyped, TypeOK
<1>6. CASE UserStep
  BY <1>6, UserTyped
<1>7. CASE EventLoop
  BY <1>7, EventTyped
<1>8. CASE Supervisor
  BY <1>8, SupervisorTyped
<1>9. CASE PollsHolders
  BY <1>9, PollTyped
<1>10. CASE SessionStep
  BY <1>10, SessionTyped
<1>11. CASE FeedStep
  BY <1>11, FeedTyped
<1> QED BY <1>2, <1>3, <1>4, <1>5, <1>6, <1>7, <1>8, <1>9, <1>10, <1>11 DEF Next, UserStep

\* Markets, profiles, slugs and tokens keep their shape on every channel and in every task.
THEOREM TypeCorrect == Spec => []TypeOK
  BY TypeInit, TypeNext, PTL DEF Spec

-------------------------------------------------------------------------------
(* The holders' sums that are shown. *)

\* An event that is no roll, at the end of the channel, changes nothing before it.
LEMMA ShownLonger ==
  ASSUME ChannelTyped, NEW e, e.kind # "roll", tx' = Append(tx, e), app'.market = app.market,
         NEW n \in 0 .. Len(tx), NEW slug, ShownAfter(n, slug)
  PROVE  ShownAfter(n, slug)' /\ (n = Len(tx) => ShownAfter(n + 1, slug)')
<1>1. /\ Len(tx) \in Nat /\ Len(tx') = Len(tx) + 1
      /\ \A i \in 1 .. Len(tx) : tx'[i] = tx[i]
      /\ tx'[Len(tx) + 1] = e
  BY Longer DEF ChannelTyped
<1>2. ASSUME NEW k \in {n, n + 1}, k = n + 1 => n = Len(tx)
      PROVE  ShownAfter(k, slug)'
  <2>1. \A i \in 1 .. n : IsRoll(i)' = IsRoll(i) /\ tx'[i] = tx[i]
    BY <1>1 DEF IsRoll
  <2>2. \A j \in 1 .. k : j \notin 1 .. n => ~IsRoll(j)'
    BY <1>1, <1>2 DEF IsRoll
  <2>3. CASE \E i \in 1 .. n : IsRoll(i) /\ tx[i].market.slug = slug /\ \A j \in i + 1 .. n : ~IsRoll(j)
    <3>1. PICK i \in 1 .. n : IsRoll(i) /\ tx[i].market.slug = slug /\ \A j \in i + 1 .. n : ~IsRoll(j)
      BY <2>3
    <3>2. i \in 1 .. k /\ IsRoll(i)' /\ tx'[i].market.slug = slug
      BY <2>1, <3>1
    <3>3. ASSUME NEW j \in i + 1 .. k PROVE ~IsRoll(j)'
      <4>1. CASE j \in 1 .. n
        BY <2>1, <3>1, <4>1
      <4>2. CASE j \notin 1 .. n
        BY <2>2, <4>2
      <4> QED BY <4>1, <4>2
    <3> QED BY <3>2, <3>3 DEF ShownAfter
  <2>4. CASE (\A i \in 1 .. n : ~IsRoll(i)) /\ (app.market = None \/ app.market.slug = slug)
    <3>1. \A i \in 1 .. k : ~IsRoll(i)'
      BY <2>1, <2>2, <2>4
    <3> QED BY <2>4, <3>1 DEF ShownAfter
  <2> QED BY <2>3, <2>4 DEF ShownAfter
<1> QED BY <1>1, <1>2

\* The first event is taken: a roll shows its market, any other leaves the market alone or
\* shows none.
LEMMA ShownShorter ==
  ASSUME ChannelTyped, tx # <<>>, tx' = Tail(tx),
         NEW n \in 1 .. Len(tx), NEW slug, ShownAfter(n, slug),
         \/ IsRoll(1) /\ app'.market = tx[1].market
         \/ ~IsRoll(1) /\ (app'.market = None \/ SameMarket(app.market, app'.market))
  PROVE  ShownAfter(n - 1, slug)'
<1>1. /\ Len(tx) \in Nat \ {0} /\ Len(tx') = Len(tx) - 1
      /\ \A i \in 1 .. Len(tx) - 1 : tx'[i] = tx[i + 1]
  BY Shorter DEF ChannelTyped
<1>2. \A i \in 1 .. n - 1 : IsRoll(i)' = IsRoll(i + 1) /\ tx'[i] = tx[i + 1]
  BY <1>1 DEF IsRoll
<1>3. CASE \E i \in 1 .. n : IsRoll(i) /\ tx[i].market.slug = slug /\ \A j \in i + 1 .. n : ~IsRoll(j)
  <2>1. PICK i \in 1 .. n : IsRoll(i) /\ tx[i].market.slug = slug /\ \A j \in i + 1 .. n : ~IsRoll(j)
    BY <1>3
  <2>2. CASE i = 1
    <3>1. app'.market.slug = slug
      BY <2>1, <2>2
    <3>2. ASSUME NEW j \in 1 .. n - 1 PROVE ~IsRoll(j)'
      <4>1. j + 1 \in i + 1 .. n
        BY <2>2
      <4> QED BY <1>2, <2>1, <4>1
    <3> QED BY <3>1, <3>2 DEF ShownAfter
  <2>3. CASE i # 1
    <3>1. i - 1 \in 1 .. n - 1 /\ IsRoll(i - 1)' /\ tx'[i - 1].market.slug = slug
      <4>1. i - 1 \in 1 .. n - 1 /\ (i - 1) + 1 = i
        BY <2>3
      <4> QED BY <1>2, <2>1, <4>1
    <3>2. ASSUME NEW j \in (i - 1) + 1 .. n - 1 PROVE ~IsRoll(j)'
      <4>1. j + 1 \in i + 1 .. n /\ j \in 1 .. n - 1
        BY <2>1
      <4> QED BY <1>2, <2>1, <4>1
    <3> QED BY <3>1, <3>2 DEF ShownAfter
  <2> QED BY <2>2, <2>3
<1>4. CASE (\A i \in 1 .. n : ~IsRoll(i)) /\ (app.market = None \/ app.market.slug = slug)
  <2>1. ~IsRoll(1)
    BY <1>1, <1>4
  <2>2. app'.market = None \/ app'.market.slug = slug
    BY <1>4, <2>1 DEF SameMarket
  <2>3. ASSUME NEW j \in 1 .. n - 1 PROVE ~IsRoll(j)'
    <3>1. j + 1 \in 1 .. n
      OBVIOUS
    <3> QED BY <1>2, <1>4, <3>1
  <2> QED BY <2>2, <2>3 DEF ShownAfter
<1> QED BY <1>3, <1>4 DEF ShownAfter

\* The holders and the market that are shown stay, and what comes is no report and no roll.
LEMMA HoldersQuiet ==
  ASSUME ChannelTyped, HoldersInv,
         app'.market = app.market, app'.holders = app.holders, UNCHANGED <<sup, holders>>,
         tx' = tx \/ \E e : e.kind \notin {"roll", "holders"} /\ tx' = Append(tx, e)
  PROVE  HoldersInv'
<1>1. CASE tx' = tx
  BY <1>1 DEF HoldersInv, HoldersOfShown, ShownAfter, IsRoll
<1>2. CASE \E e : e.kind \notin {"roll", "holders"} /\ tx' = Append(tx, e)
  <2>1. PICK e : e.kind \notin {"roll", "holders"} /\ tx' = Append(tx, e)
    BY <1>2
  <2>2. /\ Len(tx) \in Nat /\ Len(tx') = Len(tx) + 1 /\ tx'[Len(tx) + 1] = e
        /\ \A i \in 1 .. Len(tx) : tx'[i] = tx[i]
    BY <2>1, Longer DEF ChannelTyped
  <2>3. HoldersOfShown'
    BY DEF HoldersInv, HoldersOfShown
  <2>4. ASSUME holders' # None PROVE sup'.roll = None /\ ShownAfter(Len(tx), holders)'
    <3>1. sup.roll = None /\ ShownAfter(Len(tx), holders) /\ Len(tx) \in 0 .. Len(tx)
      BY <2>2, <2>4 DEF HoldersInv
    <3>2. PICK slug : slug = holders
      OBVIOUS
    <3>3. ShownAfter(Len(tx), slug)
      BY <3>1, <3>2
    <3>4. PICK n \in 0 .. Len(tx) : n = Len(tx)
      BY <2>2
    <3>5. ShownAfter(n + 1, slug)'
      BY <2>1, <3>3, <3>4, ShownLonger
    <3>6. n + 1 = Len(tx') /\ slug = holders'
      BY <2>2, <3>2, <3>4
    <3> QED BY <3>1, <3>5, <3>6
  <2>5. ASSUME NEW n \in 1 .. Len(tx'), tx'[n].kind = "holders" PROVE ShownAfter(n, tx[n].slug)'
    <3>1. n \in 1 .. Len(tx) /\ tx'[n] = tx[n]
      BY <2>1, <2>2, <2>5
    <3>2. PICK slug : slug = tx[n].slug
      OBVIOUS
    <3>3. ShownAfter(n, slug) /\ n \in 0 .. Len(tx)
      BY <2>2, <2>5, <3>1, <3>2 DEF HoldersInv
    <3>4. ShownAfter(n, slug)'
      BY <2>1, <3>3, ShownLonger
    <3> QED BY <3>1, <3>2, <3>4
  <2> QED BY <2>3, <2>4, <2>5 DEF HoldersInv
<1> QED BY <1>1, <1>2

\* An event is taken.
LEMMA HoldersTaken ==
  ASSUME ChannelTyped, HoldersInv, EventEffect
  PROVE  HoldersInv'
<1>1. /\ SeqOf(tx') /\ Len(tx') = Len(tx) - 1 /\ Len(tx) \in Nat \ {0} /\ Event = tx[1]
      /\ \A i \in 1 .. Len(tx) - 1 : tx'[i] = tx[i + 1]
      /\ tx # <<>> /\ tx' = Tail(tx)
  BY Shorter DEF ChannelTyped, EventEffect, Event
<1>2. \/ IsRoll(1) /\ app'.market = tx[1].market
      \/ ~IsRoll(1) /\ (app'.market = None \/ SameMarket(app.market, app'.market))
  BY <1>1 DEF EventEffect, IsRoll, SameMarket
<1>3. ASSUME NEW n \in 1 .. Len(tx), NEW slug, ShownAfter(n, slug) PROVE ShownAfter(n - 1, slug)'
  BY <1>1, <1>2, <1>3, ShownShorter
<1>4. UNCHANGED <<sup, holders>>
  BY DEF EventEffect
<1>5. ASSUME holders' # None PROVE sup'.roll = None /\ ShownAfter(Len(tx), holders)'
  <2>1. PICK slug : slug = holders
    OBVIOUS
  <2>2. PICK n \in 1 .. Len(tx) : n = Len(tx)
    <3>1. Len(tx) \in Nat \ {0}
      BY <1>1
    <3> QED BY <3>1
  <2>3. sup.roll = None /\ ShownAfter(n, slug)
    BY <1>4, <1>5, <2>1, <2>2 DEF HoldersInv
  <2>4. ShownAfter(n - 1, slug)' /\ n - 1 = Len(tx')
    BY <1>1, <1>3, <2>2, <2>3
  <2> QED BY <1>4, <2>1, <2>3, <2>4
<1>6. ASSUME NEW n \in 1 .. Len(tx'), tx'[n].kind = "holders" PROVE ShownAfter(n, tx[n].slug)'
  <2>1. n + 1 \in 1 .. Len(tx) /\ tx'[n] = tx[n + 1]
    BY <1>1
  <2>2. PICK slug : slug = tx[n + 1].slug
    OBVIOUS
  <2>3. PICK k \in 1 .. Len(tx) : k = n + 1
    BY <2>1
  <2>4. ShownAfter(k, slug)
    BY <1>6, <2>1, <2>2, <2>3 DEF HoldersInv
  <2>5. ShownAfter(k - 1, slug)' /\ k - 1 = n
    BY <1>3, <2>3, <2>4
  <2> QED BY <2>1, <2>2, <2>5
<1>7. HoldersOfShown'
  <2>1. CASE Event.kind = "holders" /\ app'.market = app.market /\ app'.holders = Event.slug
    <3>1. ShownAfter(1, tx[1].slug) /\ ~IsRoll(1)
      BY <1>1, <2>1 DEF HoldersInv, IsRoll
    <3>2. app.market = None \/ app.market.slug = tx[1].slug
      BY <3>1 DEF ShownAfter
    <3> QED BY <1>1, <2>1, <3>2 DEF HoldersOfShown
  <2>2. CASE app'.holders = None
    BY <2>2 DEF HoldersOfShown
  <2>3. CASE SameMarket(app.market, app'.market) /\ app'.holders = app.holders
    BY <2>3 DEF SameMarket, HoldersInv, HoldersOfShown
  <2> QED BY <2>1, <2>2, <2>3 DEF EventEffect
<1> QED BY <1>5, <1>6, <1>7 DEF HoldersInv

LEMMA InitHoldersInv == Init => HoldersInv
<1> SUFFICES ASSUME Init PROVE HoldersInv
  OBVIOUS
<1>1. \A i \in 1 .. Len(tx) : tx[i].kind = "start"
  BY DEF Init
<1> QED BY <1>1 DEF Init, HoldersInv, HoldersOfShown

LEMMA HoldersInvNext == TypeOK /\ HoldersInv /\ [Next]_vars => HoldersInv'
<1> SUFFICES ASSUME TypeOK, HoldersInv, [Next]_vars PROVE HoldersInv'
  OBVIOUS
<1>1. DiscoveryTyped /\ ChannelTyped /\ AppTyped
  BY DEF TypeOK
<1>2. CASE Surroundings /\ Elsewhere
  BY <1>1, <1>2, SurroundingsTyped, HoldersQuiet DEF Elsewhere, appVars
<1>3. CASE DiscoveryStep /\ Elsewhere
  <2>1. tx' = tx \/ \E e : e.kind \notin {"roll", "holders"} /\ tx' = Append(tx, e)
    <3>1. CASE Refresh(RollInFlight)
      <4>1. PICK e : /\ e = [kind |-> "ptb", slug |-> disc.market.slug, ptb |-> disc.market.ptb]
                     /\ tx' = Append(tx, e)
        BY <3>1 DEF Refresh
      <4>2. e.kind \notin {"roll", "holders"}
        BY <4>1
      <4> QED BY <4>1, <4>2
    <3>2. CASE ~Refresh(RollInFlight)
      BY <1>3, <3>2 DEF DiscoveryStep, Answers, FindAnswered, FindFails, NextAnswered, Emit, WakeAfterDelay,
                        WakeByProfile
    <3> QED BY <3>1, <3>2
  <2> QED BY <1>1, <1>3, <2>1, HoldersQuiet DEF Elsewhere, appVars
<1>4. CASE BookStep /\ Elsewhere
  <2>1. tx' = tx \/ \E e : e.kind = "book" /\ tx' = Append(tx, e)
    BY <1>1, <1>4, BookTypedNext
  <2>2. tx' = tx \/ \E e : e.kind \notin {"roll", "holders"} /\ tx' = Append(tx, e)
    BY <2>1
  <2> QED BY <1>1, <1>4, <2>2, HoldersQuiet DEF Elsewhere, appVars
<1>5. CASE UNCHANGED vars
  BY <1>1, <1>5, HoldersQuiet DEF vars, discVars, appVars
<1>6. CASE UserStep
  <2>1. /\ UNCHANGED <<sup, holders>> /\ app'.market = app.market /\ app'.holders = app.holders
        /\ tx' = tx \/ \E e : e.kind = "start" /\ tx' = Append(tx, e)
    BY <1>6, UserTyped
  <2>2. tx' = tx \/ \E e : e.kind \notin {"roll", "holders"} /\ tx' = Append(tx, e)
    BY <2>1
  <2> QED BY <1>1, <2>1, <2>2, HoldersQuiet
<1>7. CASE EventLoop
  BY <1>1, <1>7, EventTyped, HoldersTaken
<1>8. CASE TakesMarket
  <2>1. holders' = None /\ UNCHANGED <<tx, app>>
    BY <1>8 DEF TakesMarket, appVars
  <2> QED BY <2>1 DEF HoldersInv, HoldersOfShown, ShownAfter, IsRoll
<1>9. CASE SendsRoll
  <2>1. PICK e : e = [kind |-> "roll", market |-> sup.roll] /\ tx' = Append(tx, e)
    BY <1>9 DEF SendsRoll
  <2>2. /\ Len(tx) \in Nat /\ Len(tx') = Len(tx) + 1 /\ tx'[Len(tx) + 1] = e
        /\ \A i \in 1 .. Len(tx) : tx'[i] = tx[i]
    BY <1>1, <2>1, Longer DEF ChannelTyped
  <2>3. app' = app /\ sup'.roll = None /\ holders' = sup.roll.slug
    BY <1>1, <1>9 DEF SendsRoll, appVars, AppTyped
  <2>4. ShownAfter(Len(tx), holders)'
    <3>1. PICK n \in 1 .. Len(tx') : n = Len(tx')
      BY <2>2
    <3>2. IsRoll(n)' /\ tx'[n].market.slug = holders' /\ \A j \in n + 1 .. n : ~IsRoll(j)'
      BY <2>1, <2>2, <2>3, <3>1 DEF IsRoll
    <3> QED BY <3>1, <3>2 DEF ShownAfter
  <2>5. ASSUME NEW n \in 1 .. Len(tx'), tx'[n].kind = "holders" PROVE ShownAfter(n, tx[n].slug)'
    <3>1. n \in 1 .. Len(tx) /\ tx'[n] = tx[n]
      BY <2>1, <2>2, <2>5
    <3>2. ShownAfter(n, tx[n].slug)
      BY <2>5, <3>1 DEF HoldersInv
    <3>3. \A i \in 1 .. n : i \in 1 .. Len(tx) /\ tx'[i] = tx[i] /\ IsRoll(i)' = IsRoll(i)
      BY <2>2, <3>1 DEF IsRoll
    <3>4. PICK slug : slug = tx[n].slug
      OBVIOUS
    <3>5. ShownAfter(n, slug)'
      <4>1. \A i \in 1 .. n : \A j \in i + 1 .. n : j \in 1 .. n
        OBVIOUS
      <4> QED BY <2>3, <3>2, <3>3, <3>4, <4>1 DEF ShownAfter
    <3> QED BY <3>1, <3>4, <3>5
  <2>6. HoldersOfShown'
    BY <2>3 DEF HoldersInv, HoldersOfShown
  <2> QED BY <2>3, <2>4, <2>5, <2>6 DEF HoldersInv
<1>10. CASE TakesTokens
  <2>1. UNCHANGED <<tx, app, holders>> /\ sup'.roll = sup.roll
    BY <1>1, <1>10 DEF TakesTokens, discVars, AppTyped
  <2> QED BY <2>1 DEF HoldersInv, HoldersOfShown, ShownAfter, IsRoll
<1>11. CASE PollsHolders
  <2>1. PICK e : e = [kind |-> "holders", slug |-> holders] /\ tx' = Append(tx, e)
    BY <1>11 DEF PollsHolders
  <2>2. /\ Len(tx) \in Nat /\ Len(tx') = Len(tx) + 1 /\ tx'[Len(tx) + 1] = e
        /\ \A i \in 1 .. Len(tx) : tx'[i] = tx[i]
    BY <1>1, <2>1, Longer DEF ChannelTyped
  <2>3. UNCHANGED <<app, sup, holders>> /\ holders # None
    BY <1>11 DEF PollsHolders, appVars
  <2>4. e.kind # "roll" /\ e.slug = holders
    BY <2>1
  <2>5. ASSUME NEW n \in 0 .. Len(tx), NEW slug, ShownAfter(n, slug)
        PROVE  ShownAfter(n, slug)' /\ (n = Len(tx) => ShownAfter(n + 1, slug)')
    BY <1>1, <2>1, <2>3, <2>4, <2>5, ShownLonger
  <2>6. sup'.roll = None /\ ShownAfter(Len(tx), holders)'
    <3>1. PICK slug : slug = holders
      OBVIOUS
    <3>2. PICK n \in 0 .. Len(tx) : n = Len(tx)
      BY <2>2
    <3>3. ShownAfter(n, slug) /\ sup.roll = None
      BY <2>3, <3>1, <3>2 DEF HoldersInv
    <3>4. ShownAfter(n + 1, slug)' /\ n + 1 = Len(tx') /\ slug = holders'
      BY <2>2, <2>3, <2>5, <3>1, <3>2, <3>3
    <3> QED BY <2>3, <3>3, <3>4
  <2>7. ASSUME NEW n \in 1 .. Len(tx'), tx'[n].kind = "holders" PROVE ShownAfter(n, tx[n].slug)'
    <3>1. CASE n = Len(tx')
      BY <2>2, <2>3, <2>4, <2>6, <3>1
    <3>2. CASE n # Len(tx')
      <4>1. n \in 1 .. Len(tx) /\ n \in 0 .. Len(tx) /\ tx'[n] = tx[n]
        BY <2>2, <3>2
      <4>2. PICK slug : slug = tx[n].slug
        OBVIOUS
      <4>3. ShownAfter(n, slug)
        BY <2>7, <4>1, <4>2 DEF HoldersInv
      <4>4. ShownAfter(n, slug)'
        BY <2>5, <4>1, <4>3
      <4> QED BY <4>1, <4>2, <4>4
    <3> QED BY <3>1, <3>2
  <2>8. HoldersOfShown'
    BY <2>3 DEF HoldersInv, HoldersOfShown
  <2> QED BY <2>6, <2>7, <2>8 DEF HoldersInv
<1>12. CASE SessionStep
  BY <1>1, <1>12, SessionTyped, HoldersQuiet
<1>13. CASE FeedStep
  <2>1. /\ UNCHANGED <<app, sup, holders>>
        /\ tx' = tx \/ \E e : e.kind = "price" /\ tx' = Append(tx, e)
    BY <1>13, FeedTyped
  <2>2. tx' = tx \/ \E e : e.kind \notin {"roll", "holders"} /\ tx' = Append(tx, e)
    BY <2>1
  <2> QED BY <1>1, <2>1, <2>2, HoldersQuiet
<1> QED BY <1>2, <1>3, <1>4, <1>5, <1>6, <1>7, <1>8, <1>9, <1>10, <1>11, <1>12, <1>13
        DEF Next, UserStep, Supervisor

\* The holders' sums that are shown with a market are that market's (main.rs 2268, app.rs
\* 2043), with any number of profiles, rolls and reports on their way.
THEOREM HoldersOfShownHolds == Spec => []HoldersOfShown
<1>1. HoldersInv => HoldersOfShown
  BY DEF HoldersInv
<1> QED BY TypeInit, TypeNext, InitHoldersInv, HoldersInvNext, <1>1, PTL DEF Spec

-------------------------------------------------------------------------------
(* The windows that Gamma lists, and the one that is found. *)

LEMMA Multiples ==
  ASSUME NEW step \in Nat \ {0}, NEW a \in Nat, NEW b \in Nat
  PROVE  /\ a * step \in Nat /\ a <= a * step
         /\ (a + 1) * step = a * step + step
         /\ a < b => a * step + step <= b * step
<1>1. a * step \in Nat /\ b * step \in Nat /\ (a + 1) * step = a * step + step
  OBVIOUS
<1>2. a <= a * step
  <2>1. a * step = a + a * (step - 1) /\ step - 1 \in Nat
    OBVIOUS
  <2>2. a * (step - 1) \in Nat
    BY <2>1
  <2> QED BY <2>1, <2>2
<1>3. ASSUME a < b PROVE a * step + step <= b * step
  <2>1. PICK d \in Nat : b = a + 1 + d
    <3>1. b - a - 1 \in Nat /\ b = a + 1 + (b - a - 1)
      BY <1>3
    <3> QED BY <3>1
  <2>2. b * step = a * step + step + d * step /\ d * step \in Nat
    BY <2>1
  <2> QED BY <1>1, <2>2
<1> QED BY <1>1, <1>2, <1>3

\* The window of an instant, and the multiples of its length around it.
LEMMA WindowOf ==
  ASSUME NEW step \in Nat \ {0}, NEW t \in Nat
  PROVE  /\ t \div step \in Nat
         /\ (t \div step) * step <= t /\ t < (t \div step) * step + step
         /\ \A n \in Nat : n * step <= t => n * step <= (t \div step) * step
<1>1. t \div step \in Nat /\ (t \div step) * step <= t /\ t < (t \div step) * step + step
  <2>1. t = (t \div step) * step + (t % step) /\ t % step \in 0 .. step - 1 /\ t \div step \in Int
    OBVIOUS
  <2>2. PICK q \in Int : q = t \div step
    BY <2>1
  <2>3. t = q * step + (t % step) /\ q * step \in Int
    BY <2>1, <2>2
  <2>4. q >= 0
    <3>1. SUFFICES ASSUME ~(q >= 0) PROVE FALSE
      OBVIOUS
    <3>2. PICK d \in Nat : q = 0 - 1 - d
      <4>1. 0 - 1 - q \in Nat /\ q = 0 - 1 - (0 - 1 - q)
        BY <2>2, <3>1
      <4> QED BY <4>1
    <3>3. q * step = 0 - step - d * step /\ d * step \in Nat
      BY <3>2
    <3> QED BY <2>1, <2>3, <3>2, <3>3
  <2> QED BY <2>1, <2>2, <2>3, <2>4
<1>2. ASSUME NEW n \in Nat, n * step <= t PROVE n * step <= (t \div step) * step
  <2>1. PICK q \in Nat : q = t \div step
    BY <1>1
  <2>2. t < q * step + step /\ q * step \in Nat
    BY <1>1, <2>1
  <2>3. CASE n <= q
    <3>1. n = q \/ n * step + step <= q * step
      BY <2>3, Multiples
    <3> QED BY <2>1, <2>2, <3>1
  <2>4. CASE q < n
    <3>1. q * step + step <= n * step /\ n * step \in Nat
      BY <2>4, Multiples
    <3> QED BY <1>2, <2>2, <3>1
  <2> QED BY <2>3, <2>4
<1> QED BY <1>1, <1>2

\* When the windows are listed in order the window of now is taken or none.
LEMMA FindRollingRunning ==
  ASSUME NEW p \in Profile, IsRolling(p), NEW t \in Nat,
         NEW listed \in SUBSET Slug, InOrder(listed, t),
         NEW closed, \A slug \in closed : EndDate(slug) <= t,
         FindRolling(p, t, listed \ closed) # None
  PROVE  FindRolling(p, t, listed \ closed)
           = SlugOf(p, (t \div Window[p.timeframe]) * Window[p.timeframe])
<1>1. PICK step \in Nat \ {0} : step = Window[p.timeframe]
  BY WindowLength
<1>2. PICK q \in Nat : q = t \div step
  BY WindowOf
<1>3. PICK base \in Nat : base = q * step
  BY Multiples
<1>4. base <= t /\ t < base + step /\ q <= base
  BY <1>2, <1>3, WindowOf, Multiples
<1>5. TriedStarts(p, t) = {base, base + step, base - step, base + 2 * step, base - 2 * step}
  BY <1>1, <1>2, <1>3 DEF TriedStarts
<1> DEFINE open == listed \ closed
           starts == {k \in TriedStarts(p, t) : SlugOf(p, k) \in open}
           running == {k \in starts : k <= t /\ t < EndDate(SlugOf(p, k))}
           taken == IF running # {} THEN running ELSE {k \in starts : k >= t}
<1>6. FindRolling(p, t, open) = Earliest(p, taken)
  BY DEF FindRolling
<1>7. \A k : EndDate(SlugOf(p, k)) = k + step
  BY <1>1 DEF EndDate, SlugOf, IsRolling
<1>8. running \in SUBSET {base}
  BY <1>4, <1>5, <1>7
<1>9. ASSUME NEW k \in starts, k >= t, running = {} PROVE FALSE
  <2>1. k \in {base, base + step, base + 2 * step} /\ SlugOf(p, k) \in listed
    BY <1>4, <1>5, <1>9
  <2>2. k # base
    BY <1>4, <1>7, <1>9
  <2>3. base < k /\ k \in Nat
    BY <2>1, <2>2
  <2>4. PICK slug \in listed : slug = SlugOf(p, k)
    BY <2>1
  <2>5. IsRolling(slug) /\ Window[slug.timeframe] = step /\ slug.key = k /\ SlugOf(slug, base) = SlugOf(p, base)
    BY <1>1, <2>4, SlugFields DEF SlugOf
  <2>6. \A n \in 0 .. k : (n * step < k /\ t < n * step + step) => SlugOf(slug, n * step) \in listed
    BY <2>5 DEF InOrder
  <2>7. q \in 0 .. k
    BY <1>4, <2>3
  <2>8. SlugOf(p, base) \in listed
    BY <1>3, <1>4, <2>3, <2>5, <2>6, <2>7
  <2>9. ~(SlugOf(p, base) \in closed)
    <3>1. EndDate(SlugOf(p, base)) = base + step
      BY <1>7
    <3>2. ~(base + step <= t)
      BY <1>4
    <3> QED BY <3>1, <3>2
  <2>10. base \in running
    BY <1>4, <1>5, <1>7, <2>8, <2>9
  <2> QED BY <1>9, <2>10
<1>10. taken \in SUBSET {base}
  BY <1>8, <1>9
<1> HIDE DEF taken, open
<1>11. FindRolling(p, t, open) = SlugOf(p, base)
  <2>1. taken \in SUBSET Nat
    BY <1>10
  <2>2. FindRolling(p, t, open) # None
    BY DEF open
  <2>3. PICK k \in taken : Earliest(p, taken) = SlugOf(p, k)
    BY <1>6, <2>1, <2>2, EarliestLeast
  <2> QED BY <1>6, <1>10, <2>3
<1> QED BY <1>1, <1>2, <1>3, <1>11 DEF open

LEMMA GammaInvNext ==
  ASSUME DiscoveryTyped, GammaInv, Surroundings
  PROVE  GammaInv'
<1>1. now \in Nat /\ gamma.listed \in SUBSET Slug
  BY DEF DiscoveryTyped, Answering
<1>2. CASE Lists
  <2>1. PICK unlisted : unlisted = {slug \in Awaited(disc.profile) \ gamma.listed : now < EndDate(slug)}
    OBVIOUS
  <2>2. PICK new \in unlisted : /\ \A other \in unlisted : new.key <= other.key
                                /\ gamma' = [gamma EXCEPT !.listed = @ \cup {new}]
    BY <1>2, <2>1 DEF Lists
  <2>3. PICK p \in Profile : p = disc.profile
    BY <1>2 DEF Lists, DiscoveryTyped
  <2>4. gamma'.listed = gamma.listed \cup {new} /\ gamma'.closed = gamma.closed /\ now' = now
    BY <1>2, <2>2 DEF Lists, DiscoveryTyped, Answering
  <2>5. ASSUME IsRolling(new), NEW n \in 0 .. new.key,
               n * Window[new.timeframe] < new.key, now < n * Window[new.timeframe] + Window[new.timeframe],
               SlugOf(new, n * Window[new.timeframe]) \notin gamma.listed
        PROVE  FALSE
    <3>1. IsRolling(p)
      <4>1. SUFFICES ASSUME ~IsRolling(p) PROVE FALSE
        OBVIOUS
      <4>2. \E d : new = SlugOf(p, d)
        BY <2>1, <2>2, <2>3, <4>1 DEF Awaited
      <4> QED BY <2>5, <4>1, <4>2, SlugFields
    <3>2. PICK key \in TriedStarts(p, now) \cap Nat : new = SlugOf(p, key)
      BY <2>1, <2>2, <2>3, <3>1 DEF Awaited
    <3>3. new.key = key /\ new.timeframe = p.timeframe
      BY <3>2, SlugFields
    <3>4. PICK step \in Nat \ {0} : step = Window[p.timeframe]
      BY <3>1, WindowLength
    <3>5. PICK q \in Nat : q = now \div step
      BY <1>1, WindowOf
    <3>6. q * step <= now /\ now < q * step + step /\ q * step \in Nat
      BY <1>1, <3>5, WindowOf, Multiples
    <3>7. TriedStarts(p, now)
            = {q * step, q * step + step, q * step - step, q * step + 2 * step, q * step - 2 * step}
      BY <3>4, <3>5 DEF TriedStarts
    <3>8. n \in Nat /\ n * step < key /\ now < n * step + step /\ n * step \in Nat
      BY <2>5, <3>2, <3>3, <3>4, Multiples
    <3>9. q <= n
      <4>1. SUFFICES ASSUME n < q PROVE FALSE
        BY <3>8
      <4>2. n * step + step <= q * step
        BY <3>8, <4>1, Multiples
      <4> QED BY <1>1, <3>6, <3>8, <4>2
    <3>10. n <= q + 1
      <4>1. SUFFICES ASSUME q + 2 <= n PROVE FALSE
        BY <3>8
      <4>2. (q + 1) * step + step <= n * step /\ (q + 1) * step = q * step + step
        BY <3>8, <4>1, Multiples
      <4>3. key <= q * step + 2 * step
        BY <3>2, <3>6, <3>7
      <4> QED BY <3>2, <3>6, <3>8, <4>2, <4>3
    <3>11. n * step \in TriedStarts(p, now)
      <4>1. n = q \/ n = q + 1
        BY <3>8, <3>9, <3>10
      <4>2. (q + 1) * step = q * step + step
        BY Multiples
      <4> QED BY <3>7, <4>1, <4>2
    <3>12. PICK k \in Nat : k = n * step
      BY <3>8
    <3>13. SlugOf(new, k) = SlugOf(p, k)
      BY <3>2, SlugFields DEF SlugOf
    <3>14. EndDate(SlugOf(p, k)) = k + step /\ SlugOf(p, k).key = k
      BY <3>1, <3>4, SlugFields DEF EndDate
    <3>15. SlugOf(p, k) \in unlisted
      <4>1. SlugOf(p, k) \in Awaited(p)
        BY <3>1, <3>11, <3>12 DEF Awaited
      <4>2. SlugOf(p, k) \notin gamma.listed
        BY <2>5, <3>3, <3>4, <3>12, <3>13
      <4>3. now < EndDate(SlugOf(p, k))
        BY <3>8, <3>12, <3>14
      <4> QED BY <2>1, <2>3, <4>1, <4>2, <4>3
    <3>16. key <= k
      BY <2>2, <3>3, <3>14, <3>15
    <3> QED BY <3>2, <3>8, <3>12, <3>16
  <2>6. InOrder(gamma.listed \cup {new}, now)
    BY <2>5 DEF InOrder, GammaInv
  <2> QED BY <2>4, <2>6 DEF GammaInv
<1>3. CASE Closes
  <2>1. gamma'.listed = gamma.listed /\ now' = now /\ \A slug \in gamma'.closed : EndDate(slug) <= now
    BY <1>3 DEF Closes, DiscoveryTyped, Answering
  <2> QED BY <2>1 DEF GammaInv
<1>4. CASE Refines \/ Outage \/ Recovers
  <2>1. gamma'.listed = gamma.listed /\ gamma'.closed = gamma.closed /\ now' = now
    BY <1>4 DEF Refines, Outage, Recovers, DiscoveryTyped, Answering
  <2> QED BY <2>1 DEF GammaInv
<1>5. CASE Tick
  <2>1. gamma' = gamma /\ now' = now + 1
    BY <1>5 DEF Tick
  <2>2. InOrder(gamma.listed, now + 1)
    <3>1. ASSUME NEW slug \in gamma.listed, IsRolling(slug), NEW n \in 0 .. slug.key,
                 n * Window[slug.timeframe] < slug.key,
                 now + 1 < n * Window[slug.timeframe] + Window[slug.timeframe]
          PROVE  SlugOf(slug, n * Window[slug.timeframe]) \in gamma.listed
      <4>1. PICK step \in Nat \ {0} : step = Window[slug.timeframe]
        BY <1>1, <3>1, WindowLength
      <4>2. slug.key \in Nat
        BY <1>1 DEF Slug
      <4>3. PICK k \in Nat : k = n * step
        BY <4>2, Multiples
      <4>4. now < n * step + step
        BY <1>1, <3>1, <4>1, <4>3
      <4> QED BY <3>1, <4>1, <4>4 DEF GammaInv, InOrder
    <3> QED BY <3>1 DEF InOrder
  <2>3. \A slug \in gamma.closed : EndDate(slug) <= now + 1
    <3>1. gamma.closed \in SUBSET Slug
      BY DEF DiscoveryTyped, Answering
    <3>2. \A slug \in Slug : EndDate(slug) \in Int
      BY GammaAssumption DEF Slug, EndDate, IsRolling
    <3> QED BY <1>1, <3>1, <3>2 DEF GammaInv
  <2> QED BY <2>1, <2>2, <2>3 DEF GammaInv
<1> QED BY <1>2, <1>3, <1>4, <1>5 DEF Surroundings

-------------------------------------------------------------------------------
(* The order of the markets on their way. *)

Like(m, n) == m.slug = n.slug /\ m.closes = n.closes

AtMarket == \A m, place : At(m, place) => m \in Market /\ place \in Nat

LEMMA AtTyped == TypeOK => AtMarket
<1> SUFFICES ASSUME TypeOK, NEW m, NEW place, At(m, place) PROVE m \in Market /\ place \in Nat
  BY DEF AtMarket
<1>1. Len(tx) \in Nat /\ Len(marketTx) \in Nat
  <2>1. marketTx \in Seq(Market)
    BY DEF TypeOK, DiscoveryTyped
  <2>2. tx \in Seq({tx[i] : i \in DOMAIN tx})
    BY DEF TypeOK, ChannelTyped, SeqOf
  <2> QED BY <2>1, <2>2
<1>2. CASE place \in 1 .. Len(tx) /\ IsRoll(place) /\ m = tx[place].market
  <2>1. IsEvent(tx[place]) /\ tx[place].kind = "roll"
    BY <1>2 DEF TypeOK, ChannelTyped, IsRoll
  <2> QED BY <1>1, <1>2, <2>1, EventFields
<1>3. CASE \E i \in 1 .. Len(marketTx) : place = Len(tx) + 1 + i /\ m = marketTx[i]
  BY <1>1, <1>3 DEF TypeOK, DiscoveryTyped
<1> QED BY <1>1, <1>2, <1>3 DEF At, TypeOK, DiscoveryTyped, AppTyped, IsApp

LEMMA AtTypedNext == TypeOK' => AtMarket'
  BY AtTyped, PTL

\* A market of two that are alike has the same window.
LEMMA LikeBehind ==
  ASSUME NEW m, NEW n, NEW m0, NEW n0, Like(m0, m), Like(n0, n)
  PROVE  Behind(m0, n0) => Behind(m, n)
  BY DEF Like, Behind, SameProfile

\* The order is kept when every market was on its way before, and none overtakes another.
LEMMA OrderKept ==
  ASSUME OrderInv, now \in Nat, now' \in Nat, now <= now', NEW old,
         \A m, place : At(m, place)' => \E m0 : At(m0, old[place]) /\ Like(m0, m),
         \A m, n, place, later : At(m, place)' /\ At(n, later)' /\ place < later => old[place] < old[later],
         \A m, place : At(m, place)' => m \in Market
  PROVE  OrderInv'
<1>1. ASSUME NEW m, NEW place, At(m, place)' PROVE Begun(m)'
  <2>1. PICK m0 : At(m0, old[place]) /\ Like(m0, m)
    BY <1>1
  <2>2. Begun(m0)
    BY <2>1 DEF OrderInv
  <2>3. m.slug = m0.slug /\ (IsRolling(m.slug) => m.slug.key \in Nat)
    BY <1>1, <2>1 DEF Like, Market, Slug
  <2>4. IsRolling(m.slug) => m.slug.key <= now' /\ \E n \in Nat : m.slug.key = n * Window[m.slug.timeframe]
    BY <2>2, <2>3 DEF Begun
  <2> QED BY <2>4 DEF Begun
<1>2. ASSUME NEW m, NEW n, NEW place, NEW later, At(m, place)', At(n, later)', place < later
      PROVE  Behind(m, n)
  <2>1. PICK m0 : At(m0, old[place]) /\ Like(m0, m)
    BY <1>2
  <2>2. PICK n0 : At(n0, old[later]) /\ Like(n0, n)
    BY <1>2
  <2>3. old[place] < old[later]
    BY <1>2
  <2>4. Behind(m0, n0)
    BY <2>1, <2>2, <2>3 DEF OrderInv
  <2> QED BY <2>1, <2>2, <2>4, LikeBehind
<1> QED BY <1>1, <1>2 DEF OrderInv

\* So is what discovery knows of them.
LEMMA DiscoveryKept ==
  ASSUME DiscoveryInv,
         \A m, place : At(m, place)' => \E m0, place0 : At(m0, place0) /\ Like(m0, m),
         disc'.at # "off" =>
           /\ disc'.seen = disc'.profile
           /\ disc'.end = None \/ (disc.at # "off" /\ disc'.end = disc.end /\ disc'.profile = disc.profile)
  PROVE  DiscoveryInv'
<1> SUFFICES ASSUME disc'.at # "off", disc'.end # None, IsRolling(disc'.profile)
             PROVE  /\ \E n \in Nat : disc'.end = n * Window[disc'.profile.timeframe]
                    /\ \A m, place : At(m, place)' /\ OfProfile(m, disc'.profile) => m.closes <= disc'.end
  BY DEF DiscoveryInv
<1>1. disc.at # "off" /\ disc'.end = disc.end /\ disc'.profile = disc.profile
  OBVIOUS
<1>2. /\ \E n \in Nat : disc.end = n * Window[disc.profile.timeframe]
      /\ \A m, place : At(m, place) /\ OfProfile(m, disc.profile) => m.closes <= disc.end
  BY <1>1 DEF DiscoveryInv
<1>3. ASSUME NEW m, NEW place, At(m, place)', OfProfile(m, disc'.profile) PROVE m.closes <= disc'.end
  <2>1. PICK m0, place0 : At(m0, place0) /\ Like(m0, m)
    BY <1>3
  <2>2. OfProfile(m0, disc.profile) /\ m0.closes = m.closes
    BY <1>1, <1>3, <2>1 DEF OfProfile, Like
  <2> QED BY <1>1, <1>2, <2>1, <2>2
<1> QED BY <1>1, <1>2, <1>3

\* Both at once. Discovery keeps its last window or forgets it.
LEMMA MovedOn ==
  ASSUME TypeOK, TypeOK', OrderInv, DiscoveryInv, now <= now',
         NEW old,
         \A m, place : At(m, place)' => \E m0 : At(m0, old[place]) /\ Like(m0, m),
         \A m, n, place, later : At(m, place)' /\ At(n, later)' /\ place < later => old[place] < old[later],
         disc'.at # "off" =>
           /\ disc'.seen = disc'.profile
           /\ disc'.end = None \/ (disc.at # "off" /\ disc'.end = disc.end /\ disc'.profile = disc.profile)
  PROVE  OrderInv' /\ DiscoveryInv'
<1>1. now \in Nat /\ now' \in Nat
  BY DEF TypeOK, DiscoveryTyped
<1>2. \A m, place : At(m, place)' => m \in Market
  BY AtTypedNext DEF AtMarket
<1>3. OrderInv'
  BY <1>1, <1>2, OrderKept
<1>4. \A m, place : At(m, place)' => \E m0, place0 : At(m0, place0) /\ Like(m0, m)
  OBVIOUS
<1>5. DiscoveryInv'
  BY <1>4, DiscoveryKept
<1> QED BY <1>3, <1>5

\* Nothing of the flow moves: at most an event that is no roll is sent, discovery forgets
\* what it has found or turns to a profile.
LEMMA StandsStill ==
  ASSUME TypeOK, TypeOK', OrderInv, DiscoveryInv, now <= now',
         app'.market = app.market, sup'.roll = sup.roll, marketTx' = marketTx,
         tx' = tx \/ \E e : e.kind # "roll" /\ tx' = Append(tx, e),
         disc'.at = "emit" => disc.at = "emit" /\ disc'.market = disc.market,
         disc'.at # "off" =>
           /\ disc'.seen = disc'.profile
           /\ disc'.end = None \/ (disc.at # "off" /\ disc'.end = disc.end /\ disc'.profile = disc.profile)
  PROVE  OrderInv' /\ DiscoveryInv'
<1>1. ChannelTyped /\ Len(marketTx) \in Nat
  BY DEF TypeOK, DiscoveryTyped
<1>2. \A m : Like(m, m)
  BY DEF Like
<1>3. CASE tx' = tx
  <2>1. PICK old : old = [i \in Nat |-> i]
    OBVIOUS
  <2>2. ASSUME NEW m, NEW place, At(m, place)' PROVE place \in Nat /\ At(m, place)
    <3>1. place \in Nat
      BY <2>2, AtTypedNext DEF AtMarket
    <3> QED BY <1>3, <2>2, <3>1 DEF At, IsRoll
  <2>3. \A m, place : At(m, place)' => \E m0 : At(m0, old[place]) /\ Like(m0, m)
    BY <1>2, <2>1, <2>2
  <2>4. \A m, n, place, later : At(m, place)' /\ At(n, later)' /\ place < later => old[place] < old[later]
    BY <2>1, <2>2
  <2> QED BY <2>3, <2>4, MovedOn
<1>4. CASE \E e : e.kind # "roll" /\ tx' = Append(tx, e)
  <2>1. PICK e : e.kind # "roll" /\ tx' = Append(tx, e)
    BY <1>4
  <2>2. /\ Len(tx) \in Nat /\ Len(tx') = Len(tx) + 1 /\ tx'[Len(tx) + 1] = e
        /\ \A i \in 1 .. Len(tx) : tx'[i] = tx[i]
    BY <1>1, <2>1, Longer DEF ChannelTyped
  <2>3. PICK old : old = [i \in Nat |-> IF i <= Len(tx) THEN i ELSE i - 1]
    OBVIOUS
  <2>4. ASSUME NEW m, NEW place, At(m, place)'
        PROVE  place \in Nat /\ place # Len(tx) + 1 /\ At(m, old[place])
    <3>1. place \in Nat
      BY <2>4, AtTypedNext DEF AtMarket
    <3>2. CASE place = 0 /\ m = app'.market /\ m # None
      BY <2>2, <2>3, <3>1, <3>2 DEF At
    <3>3. CASE place \in 1 .. Len(tx') /\ IsRoll(place)' /\ m = tx'[place].market
      BY <2>1, <2>2, <2>3, <3>1, <3>3 DEF At, IsRoll
    <3>4. CASE place = Len(tx') + 1 /\ m = sup'.roll /\ m # None
      BY <2>2, <2>3, <3>1, <3>4 DEF At
    <3>5. CASE \E i \in 1 .. Len(marketTx') : place = Len(tx') + 1 + i /\ m = marketTx'[i]
      <4>1. PICK i \in 1 .. Len(marketTx) : place = Len(tx') + 1 + i /\ m = marketTx[i]
        BY <3>5
      <4>2. old[place] = Len(tx) + 1 + i /\ place # Len(tx) + 1
        BY <1>1, <2>2, <2>3, <3>1, <4>1
      <4> QED BY <3>1, <4>1, <4>2 DEF At
    <3>6. CASE place = Len(tx') + Len(marketTx') + 2 /\ disc'.at = "emit" /\ m = disc'.market
      BY <1>1, <2>2, <2>3, <3>1, <3>6 DEF At
    <3> QED BY <2>4, <3>2, <3>3, <3>4, <3>5, <3>6 DEF At
  <2>5. \A m, place : At(m, place)' => \E m0 : At(m0, old[place]) /\ Like(m0, m)
    BY <1>2, <2>4
  <2>6. \A m, n, place, later : At(m, place)' /\ At(n, later)' /\ place < later => old[place] < old[later]
    <3>1. ASSUME NEW m, NEW n, NEW place, NEW later, At(m, place)', At(n, later)', place < later
          PROVE  old[place] < old[later]
      <4>1. place \in Nat /\ later \in Nat /\ later # Len(tx) + 1
        BY <2>4, <3>1
      <4> QED BY <2>2, <2>3, <3>1, <4>1
    <3> QED BY <3>1
  <2> QED BY <2>5, <2>6, MovedOn
<1> QED BY <1>3, <1>4

\* An event is taken: a roll becomes the shown market.
LEMMA EventTaken ==
  ASSUME TypeOK, TypeOK', OrderInv, DiscoveryInv, EventEffect
  PROVE  OrderInv' /\ DiscoveryInv'
<1>1. /\ SeqOf(tx') /\ Len(tx') = Len(tx) - 1 /\ Len(tx) \in Nat \ {0} /\ Event = tx[1]
      /\ \A i \in 1 .. Len(tx) - 1 : tx'[i] = tx[i + 1]
  BY Shorter DEF TypeOK, ChannelTyped, EventEffect, Event
<1>2. /\ UNCHANGED <<marketTx, sup>> /\ now' = now /\ now \in Nat /\ Len(marketTx) \in Nat
      /\ disc'.at = "emit" => disc.at = "emit" /\ disc'.market = disc.market
  <2>1. CASE StartTrading
    <3>1. PICK p : disc' = IF disc.at = "off" THEN [disc EXCEPT !.at = "find", !.seen = p, !.profile = p] ELSE disc
      BY <2>1 DEF StartTrading
    <3>2. disc'.at = "emit" => disc.at = "emit" /\ disc'.market = disc.market
      BY <3>1 DEF TypeOK, DiscoveryTyped
    <3> QED BY <3>2 DEF EventEffect, TypeOK, DiscoveryTyped
  <2>2. CASE disc' = disc
    BY <2>2 DEF EventEffect, TypeOK, DiscoveryTyped
  <2> QED BY <2>1, <2>2 DEF EventEffect
<1>3. disc'.at # "off" =>
        /\ disc'.seen = disc'.profile
        /\ disc'.end = None \/ (disc.at # "off" /\ disc'.end = disc.end /\ disc'.profile = disc.profile)
  <2>1. CASE StartTrading
    <3>1. CASE disc.at = "off"
      <4>1. PICK p : disc' = [disc EXCEPT !.at = "find", !.seen = p, !.profile = p]
        BY <2>1, <3>1 DEF StartTrading
      <4>2. disc = NoDiscovery
        BY <3>1 DEF TypeOK, DiscoveryTyped
      <4> QED BY <4>1, <4>2 DEF NoDiscovery
    <3>2. CASE disc.at # "off"
      BY <2>1, <3>2 DEF StartTrading, DiscoveryInv
    <3> QED BY <3>1, <3>2
  <2>2. CASE disc' = disc
    BY <2>2 DEF DiscoveryInv
  <2> QED BY <2>1, <2>2 DEF EventEffect
<1>4. PICK old : old = [i \in Nat |-> IF i = 0 /\ ~IsRoll(1) THEN 0 ELSE i + 1]
  OBVIOUS
<1>5. ASSUME NEW m, NEW place, At(m, place)'
      PROVE  place \in Nat /\ \E m0 : At(m0, old[place]) /\ Like(m0, m)
  <2>1. place \in Nat
    BY <1>5, AtTypedNext DEF AtMarket
  <2> DEFINE next == place + 1
  <2>2. next \in Nat /\ (place # 0 => old[place] = next)
    BY <1>4, <2>1
  <2> HIDE DEF next
  <2>8. ASSUME place # 0, At(m, next) PROVE \E m0 : At(m0, old[place]) /\ Like(m0, m)
    BY <2>2, <2>8 DEF Like
  <2>3. CASE place = 0 /\ m = app'.market /\ m # None
    <3>1. CASE IsRoll(1)
      <4>1. m = tx[1].market /\ 1 \in 1 .. Len(tx)
        BY <1>1, <2>3, <3>1 DEF EventEffect, IsRoll
      <4>2. At(m, 1)
        BY <3>1, <4>1 DEF At
      <4> QED BY <1>4, <2>3, <3>1, <4>2 DEF Like
    <3>2. CASE ~IsRoll(1)
      <4>1. SameMarket(app.market, m) /\ app.market # None
        BY <1>1, <2>3, <3>2 DEF EventEffect, IsRoll, SameMarket
      <4>2. At(app.market, 0) /\ Like(app.market, m)
        BY <4>1 DEF At, SameMarket, Like
      <4> QED BY <1>4, <2>3, <3>2, <4>2
    <3> QED BY <3>1, <3>2
  <2>4. CASE place \in 1 .. Len(tx') /\ IsRoll(place)' /\ m = tx'[place].market
    <3>1. next \in 1 .. Len(tx) /\ tx'[place] = tx[next] /\ place # 0
      BY <1>1, <2>4 DEF next
    <3>2. At(m, next)
      BY <2>4, <3>1 DEF At, IsRoll
    <3> QED BY <2>1, <2>8, <3>1, <3>2
  <2>5. CASE place = Len(tx') + 1 /\ m = sup'.roll /\ m # None
    <3>1. next = Len(tx) + 1 /\ place # 0
      BY <1>1, <2>1, <2>5 DEF next
    <3>2. At(m, next)
      BY <1>2, <2>5, <3>1 DEF At
    <3> QED BY <2>1, <2>8, <3>1, <3>2
  <2>6. CASE \E i \in 1 .. Len(marketTx') : place = Len(tx') + 1 + i /\ m = marketTx'[i]
    <3>1. PICK i \in 1 .. Len(marketTx) : place = Len(tx') + 1 + i /\ m = marketTx[i]
      BY <1>2, <2>6
    <3>2. next = Len(tx) + 1 + i /\ place # 0
      BY <1>1, <1>2, <3>1 DEF next
    <3>3. At(m, next)
      BY <3>1, <3>2 DEF At
    <3> QED BY <2>1, <2>8, <3>2, <3>3
  <2>7. CASE place = Len(tx') + Len(marketTx') + 2 /\ disc'.at = "emit" /\ m = disc'.market
    <3>1. next = Len(tx) + Len(marketTx) + 2 /\ place # 0
      BY <1>1, <1>2, <2>7 DEF next
    <3>2. At(m, next)
      BY <1>2, <2>7, <3>1 DEF At
    <3> QED BY <2>1, <2>8, <3>1, <3>2
  <2> QED BY <1>5, <2>1, <2>3, <2>4, <2>5, <2>6, <2>7 DEF At
<1>6. \A m, n, place, later : At(m, place)' /\ At(n, later)' /\ place < later => old[place] < old[later]
  BY <1>4, <1>5
<1> QED BY <1>2, <1>3, <1>5, <1>6, MovedOn

\* A market moves on: from discovery into the queue, from there to the supervisor, and
\* from the supervisor into the event channel.
LEMMA Emitted ==
  ASSUME TypeOK, TypeOK', OrderInv, DiscoveryInv, Emit, UNCHANGED <<app, sup>>
  PROVE  OrderInv' /\ DiscoveryInv'
<1>1. /\ disc.at = "emit" /\ marketTx' = Append(marketTx, disc.market) /\ disc'.at = "sleep"
      /\ UNCHANGED <<now, tx>> /\ now \in Nat
      /\ disc'.seen = disc.seen /\ disc'.profile = disc.profile /\ disc'.end = disc.end
  BY DEF Emit, TypeOK, DiscoveryTyped
<1>2. /\ Len(marketTx) \in Nat /\ Len(marketTx') = Len(marketTx) + 1
      /\ marketTx'[Len(marketTx) + 1] = disc.market
      /\ \A i \in 1 .. Len(marketTx) : marketTx'[i] = marketTx[i]
  <2>1. marketTx \in Seq(Market) /\ disc.market \in Market
    BY <1>1 DEF TypeOK, DiscoveryTyped
  <2> QED BY <1>1, <2>1
<1>3. PICK old : old = [i \in Nat |-> i]
  OBVIOUS
<1>4. Len(tx) \in Nat
  BY Longer DEF TypeOK, ChannelTyped
<1>5. ASSUME NEW m, NEW place, At(m, place)' PROVE place \in Nat /\ At(m, place)
  <2>1. place \in Nat
    BY <1>5, AtTypedNext DEF AtMarket
  <2>2. CASE \E i \in 1 .. Len(marketTx') : place = Len(tx') + 1 + i /\ m = marketTx'[i]
    <3>1. PICK i \in 1 .. Len(marketTx') : place = Len(tx') + 1 + i /\ m = marketTx'[i]
      BY <2>2
    <3>2. CASE i \in 1 .. Len(marketTx)
      BY <1>1, <1>2, <2>1, <3>1, <3>2 DEF At
    <3>3. CASE i = Len(marketTx) + 1
      <4>1. place = Len(tx) + Len(marketTx) + 2 /\ m = disc.market
        BY <1>1, <1>2, <1>4, <3>1, <3>3
      <4> QED BY <1>1, <2>1, <4>1 DEF At
    <3> QED BY <1>2, <3>1, <3>2, <3>3
  <2>3. CASE ~(\E i \in 1 .. Len(marketTx') : place = Len(tx') + 1 + i /\ m = marketTx'[i])
    BY <1>1, <1>5, <2>1, <2>3 DEF At, IsRoll
  <2> QED BY <2>2, <2>3
<1>6. \A m, place : At(m, place)' => \E m0 : At(m0, old[place]) /\ Like(m0, m)
  BY <1>3, <1>5 DEF Like
<1>7. \A m, n, place, later : At(m, place)' /\ At(n, later)' /\ place < later => old[place] < old[later]
  BY <1>3, <1>5
<1>8. disc.at # "off" => disc'.seen = disc'.profile
  BY <1>1 DEF DiscoveryInv
<1> QED BY <1>1, <1>6, <1>7, <1>8, MovedOn

LEMMA MarketTaken ==
  ASSUME TypeOK, TypeOK', OrderInv, DiscoveryInv, TakesMarket
  PROVE  OrderInv' /\ DiscoveryInv'
<1>1. /\ marketTx # <<>> /\ sup.roll = None /\ sup'.roll = Head(marketTx) /\ marketTx' = Tail(marketTx)
      /\ UNCHANGED <<now, tx, disc, app>> /\ now \in Nat
  BY DEF TakesMarket, appVars, TypeOK, DiscoveryTyped
<1>2. /\ Len(marketTx) \in Nat \ {0} /\ Len(marketTx') = Len(marketTx) - 1
      /\ Head(marketTx) = marketTx[1]
      /\ \A i \in 1 .. Len(marketTx) - 1 : marketTx'[i] = marketTx[i + 1]
  <2>1. marketTx \in Seq(Market)
    BY DEF TypeOK, DiscoveryTyped
  <2> QED BY <1>1, <2>1
<1>3. Len(tx) \in Nat
  BY Longer DEF TypeOK, ChannelTyped
<1>4. PICK old : old = [i \in Nat |-> IF i <= Len(tx) THEN i ELSE i + 1]
  OBVIOUS
<1>5. ASSUME NEW m, NEW place, At(m, place)' PROVE place \in Nat /\ At(m, old[place])
  <2>1. place \in Nat
    BY <1>5, AtTypedNext DEF AtMarket
  <2>2. CASE place = 0 /\ m = app'.market /\ m # None
    BY <1>1, <1>3, <1>4, <2>1, <2>2 DEF At
  <2>3. CASE place \in 1 .. Len(tx') /\ IsRoll(place)' /\ m = tx'[place].market
    BY <1>1, <1>3, <1>4, <2>1, <2>3 DEF At, IsRoll
  <2>4. CASE place = Len(tx') + 1 /\ m = sup'.roll /\ m # None
    <3>1. old[place] = Len(tx) + 1 + 1 /\ m = marketTx[1] /\ 1 \in 1 .. Len(marketTx)
      BY <1>1, <1>2, <1>3, <1>4, <2>1, <2>4
    <3> QED BY <2>1, <3>1 DEF At
  <2>5. CASE \E i \in 1 .. Len(marketTx') : place = Len(tx') + 1 + i /\ m = marketTx'[i]
    <3>1. PICK i \in 1 .. Len(marketTx') : place = Len(tx') + 1 + i /\ m = marketTx'[i]
      BY <2>5
    <3>2. i + 1 \in 1 .. Len(marketTx) /\ m = marketTx[i + 1] /\ old[place] = Len(tx) + 1 + (i + 1)
      BY <1>1, <1>2, <1>3, <1>4, <2>1, <3>1
    <3> QED BY <2>1, <3>2 DEF At
  <2>6. CASE place = Len(tx') + Len(marketTx') + 2 /\ disc'.at = "emit" /\ m = disc'.market
    <3>1. old[place] = Len(tx) + Len(marketTx) + 2
      BY <1>1, <1>2, <1>3, <1>4, <2>1, <2>6
    <3> QED BY <1>1, <2>1, <2>6, <3>1 DEF At
  <2> QED BY <1>5, <2>2, <2>3, <2>4, <2>5, <2>6 DEF At
<1>6. \A m, place : At(m, place)' => \E m0 : At(m0, old[place]) /\ Like(m0, m)
  BY <1>5 DEF Like
<1>7. \A m, n, place, later : At(m, place)' /\ At(n, later)' /\ place < later => old[place] < old[later]
  BY <1>3, <1>4, <1>5
<1>8. now <= now' /\ (disc'.at # "off" => disc'.seen = disc'.profile)
  BY <1>1 DEF DiscoveryInv
<1> QED BY <1>1, <1>6, <1>7, <1>8, MovedOn

LEMMA RollSent ==
  ASSUME TypeOK, TypeOK', OrderInv, DiscoveryInv, SendsRoll
  PROVE  OrderInv' /\ DiscoveryInv'
<1>1. PICK e : e = [kind |-> "roll", market |-> sup.roll] /\ tx' = Append(tx, e)
  BY DEF SendsRoll
<1>2. /\ Len(tx) \in Nat /\ Len(tx') = Len(tx) + 1 /\ tx'[Len(tx) + 1] = e
      /\ \A i \in 1 .. Len(tx) : tx'[i] = tx[i]
  BY <1>1, Longer DEF TypeOK, ChannelTyped
<1>3. /\ sup.roll # None /\ sup'.roll = None /\ UNCHANGED <<now, marketTx, disc, app>>
      /\ now \in Nat /\ Len(marketTx) \in Nat
  BY DEF SendsRoll, appVars, TypeOK, DiscoveryTyped, AppTyped
<1>4. PICK old : old = [i \in Nat |-> IF i <= Len(tx) + 1 THEN i ELSE i - 1]
  OBVIOUS
<1>5. ASSUME NEW m, NEW place, At(m, place)'
      PROVE  place \in Nat /\ place # Len(tx) + 2 /\ At(m, old[place])
  <2>1. place \in Nat
    BY <1>5, AtTypedNext DEF AtMarket
  <2>2. CASE place = 0 /\ m = app'.market /\ m # None
    BY <1>2, <1>3, <1>4, <2>1, <2>2 DEF At
  <2>3. CASE place \in 1 .. Len(tx') /\ IsRoll(place)' /\ m = tx'[place].market
    <3>1. CASE place \in 1 .. Len(tx)
      BY <1>2, <1>4, <2>1, <2>3, <3>1 DEF At, IsRoll
    <3>2. CASE place = Len(tx) + 1
      <4>1. m = sup.roll /\ old[place] = Len(tx) + 1 /\ place # Len(tx) + 2
        BY <1>1, <1>2, <1>4, <2>1, <2>3, <3>2
      <4> QED BY <1>3, <2>1, <4>1 DEF At
    <3> QED BY <1>2, <2>3, <3>1, <3>2
  <2>4. CASE place = Len(tx') + 1 /\ m = sup'.roll /\ m # None
    BY <1>3, <2>4
  <2>5. CASE \E i \in 1 .. Len(marketTx') : place = Len(tx') + 1 + i /\ m = marketTx'[i]
    <3>1. PICK i \in 1 .. Len(marketTx) : place = Len(tx') + 1 + i /\ m = marketTx[i]
      BY <1>3, <2>5
    <3>2. old[place] = Len(tx) + 1 + i /\ place # Len(tx) + 2
      BY <1>2, <1>3, <1>4, <2>1, <3>1
    <3> QED BY <2>1, <3>1, <3>2 DEF At
  <2>6. CASE place = Len(tx') + Len(marketTx') + 2 /\ disc'.at = "emit" /\ m = disc'.market
    <3>1. old[place] = Len(tx) + Len(marketTx) + 2 /\ place # Len(tx) + 2
      BY <1>2, <1>3, <1>4, <2>1, <2>6
    <3> QED BY <1>3, <2>1, <2>6, <3>1 DEF At
  <2> QED BY <1>5, <2>2, <2>3, <2>4, <2>5, <2>6 DEF At
<1>6. \A m, place : At(m, place)' => \E m0 : At(m0, old[place]) /\ Like(m0, m)
  BY <1>5 DEF Like
<1>7. \A m, n, place, later : At(m, place)' /\ At(n, later)' /\ place < later => old[place] < old[later]
  BY <1>2, <1>4, <1>5
<1>8. disc'.at # "off" => disc'.seen = disc'.profile
  BY <1>3 DEF DiscoveryInv
<1> QED BY <1>3, <1>6, <1>7, <1>8, MovedOn

\* What discovery finds is not behind any market of its profile that is on its way.
LEMMA NewMarket ==
  ASSUME TypeOK, ForwardInv, disc.at \in {"find", "next"}, disc.profile \in Profile,
         NEW k \in Nat, NEW m \in Market,
         SlugOf(disc.profile, k) \in Open, SlugOf(disc.profile, k) # None,
         m.slug = SlugOf(disc.profile, k), m.closes = EndDate(m.slug),
         \/ disc.at = "next" /\ (IsRolling(disc.profile) => k = disc.end)
         \/ disc.at = "find" /\ SlugOf(disc.profile, k) = FindCurrent(disc.profile, now, Open),
         IsRolling(disc.profile)
  PROVE  /\ Begun(m) /\ IsRolling(m.slug) /\ OfProfile(m, disc.profile)
         /\ \E n \in Nat : m.closes = n * Window[disc.profile.timeframe]
         /\ \A other, place : At(other, place) /\ OfProfile(other, disc.profile) => other.closes <= m.closes
<1>1. PICK p \in Profile : p = disc.profile
  OBVIOUS
<1>2. PICK step \in Nat \ {0} : step = Window[p.timeframe]
  BY <1>1, WindowLength
<1>3. /\ m.slug.key = k /\ m.slug.asset = p.asset /\ m.slug.timeframe = p.timeframe
      /\ IsRolling(m.slug)
  BY <1>1, SlugFields
<1>4. m.closes = k + step
  BY <1>2, <1>3 DEF EndDate
<1>5. now \in Nat /\ gamma.listed \in SUBSET Slug /\ disc.at # "off"
  BY DEF TypeOK, DiscoveryTyped, Answering
\* A market of the profile that is on its way has begun.
<1>6. ASSUME NEW other, NEW place, At(other, place), OfProfile(other, p)
      PROVE  \E n \in Nat : other.slug.key = n * step /\ n * step <= now /\ other.closes = n * step + step
  <2>1. other \in Market
    BY <1>6, AtTyped DEF AtMarket
  <2>2. other.slug.timeframe = p.timeframe /\ IsRolling(other.slug)
    BY <1>1, <1>6 DEF OfProfile, IsRolling
  <2>3. Begun(other)
    BY <1>6 DEF ForwardInv, OrderInv
  <2>4. other.closes = other.slug.key + step
    BY <1>2, <2>1, <2>2 DEF Market, EndDate
  <2> QED BY <1>2, <2>2, <2>3, <2>4 DEF Begun
<1>7. CASE disc.at = "next" /\ (IsRolling(disc.profile) => k = disc.end)
  <2>1. k = disc.end /\ disc.end \in Int /\ disc.end <= now /\ disc.end # None
    BY <1>7 DEF TypeOK, DiscoveryTyped
  <2>2. /\ \E n \in Nat : disc.end = n * step
        /\ \A other, place : At(other, place) /\ OfProfile(other, p) => other.closes <= disc.end
    BY <1>1, <1>2, <1>5, <2>1 DEF ForwardInv, DiscoveryInv
  <2>3. Begun(m)
    BY <1>2, <1>3, <2>1, <2>2 DEF Begun
  <2>4. \E n \in Nat : m.closes = n * step
    <3>1. PICK n \in Nat : k = n * step
      BY <2>1, <2>2
    <3>2. m.closes = (n + 1) * step
      BY <1>4, <3>1, Multiples
    <3> QED BY <3>2
  <2>5. ASSUME NEW other, NEW place, At(other, place), OfProfile(other, p) PROVE other.closes <= m.closes
    <3>1. PICK n \in Nat : other.closes = n * step + step
      BY <1>6, <2>5
    <3>2. other.closes <= k
      BY <2>1, <2>2, <2>5
    <3>3. n * step \in Nat
      BY Multiples
    <3> QED BY <1>4, <3>1, <3>2, <3>3
  <2> QED BY <1>1, <1>2, <1>3, <2>3, <2>4, <2>5 DEF OfProfile
<1>8. CASE disc.at = "find" /\ SlugOf(disc.profile, k) = FindCurrent(disc.profile, now, Open)
  <2>1. FindRolling(p, now, Open) = SlugOf(p, k)
    BY <1>1, <1>8 DEF FindCurrent
  <2>2. SlugOf(p, k) # None
    BY <1>1
  <2>3. k = (now \div step) * step
    <3>1. PICK listed, closed : listed = gamma.listed /\ closed = gamma.closed /\ listed \in SUBSET Slug
      BY <1>5
    <3>2. InOrder(listed, now) /\ \A slug \in closed : EndDate(slug) <= now
      BY <3>1 DEF ForwardInv, GammaInv
    <3>3. FindRolling(p, now, listed \ closed) = SlugOf(p, k)
      BY <2>1, <3>1 DEF Open
    <3>4. SlugOf(p, k) = SlugOf(p, (now \div step) * step)
      <4>1. IsRolling(p) /\ listed \in SUBSET Slug /\ FindRolling(p, now, listed \ closed) # None
        BY <1>1, <2>2, <3>1, <3>3
      <4> QED BY <1>2, <1>5, <3>2, <3>3, <4>1, FindRollingRunning
    <3> QED BY <3>4, SlugFields
  <2>4. PICK q \in Nat : q = now \div step
    BY <1>5, WindowOf
  <2>5. k = q * step /\ k <= now /\ \A n \in Nat : n * step <= now => n * step <= k
    BY <1>5, <2>3, <2>4, WindowOf
  <2>6. Begun(m)
    BY <1>2, <1>3, <2>5 DEF Begun
  <2>7. \E n \in Nat : m.closes = n * step
    <3>1. m.closes = (q + 1) * step
      BY <1>4, <2>5, Multiples
    <3> QED BY <3>1
  <2>8. ASSUME NEW other, NEW place, At(other, place), OfProfile(other, p) PROVE other.closes <= m.closes
    <3>1. PICK n \in Nat : n * step <= now /\ other.closes = n * step + step
      BY <1>6, <2>8
    <3>2. n * step <= k /\ n * step \in Nat
      BY <2>5, <3>1, Multiples
    <3> QED BY <1>4, <3>1, <3>2
  <2> QED BY <1>1, <1>2, <1>3, <2>6, <2>7, <2>8 DEF OfProfile
<1> QED BY <1>7, <1>8

\* So discovery, when it finds a market, puts it behind all that are on their way.
LEMMA AnswerOrdered ==
  ASSUME TypeOK, TypeOK', ForwardInv, Answers, UNCHANGED <<app, sup>>
  PROVE  OrderInv' /\ DiscoveryInv'
<1>1. /\ UNCHANGED <<now, marketTx, tx>> /\ disc.at \in {"find", "next"} /\ disc.profile \in Profile
      /\ disc.seen = disc.profile /\ OrderInv /\ DiscoveryInv /\ now \in Nat /\ Len(marketTx) \in Nat
  BY AnsweredTyped DEF TypeOK, DiscoveryTyped, ForwardInv, DiscoveryInv
<1>2. CASE disc' = [disc EXCEPT !.at = "sleep"]
  <2>1. /\ disc'.at = "sleep" /\ disc'.seen = disc.seen /\ disc'.profile = disc.profile
        /\ disc'.end = disc.end
    BY <1>2 DEF TypeOK, DiscoveryTyped
  <2>2. now <= now'
    BY <1>1
  <2> QED BY <1>1, <2>1, <2>2, StandsStill
<1>3. CASE \E k \in Nat, m \in Market :
             /\ SlugOf(disc.profile, k) \in Open /\ SlugOf(disc.profile, k) # None
             /\ m.slug = SlugOf(disc.profile, k) /\ m.closes = EndDate(m.slug)
             /\ Resolved(m)
             /\ \/ disc.at = "next" /\ (IsRolling(disc.profile) => k = disc.end)
                \/ disc.at = "find" /\ SlugOf(disc.profile, k) = FindCurrent(disc.profile, now, Open)
  <2>1. PICK k \in Nat, m \in Market :
          /\ SlugOf(disc.profile, k) \in Open /\ SlugOf(disc.profile, k) # None
          /\ m.slug = SlugOf(disc.profile, k) /\ m.closes = EndDate(m.slug)
          /\ Resolved(m)
          /\ \/ disc.at = "next" /\ (IsRolling(disc.profile) => k = disc.end)
             \/ disc.at = "find" /\ SlugOf(disc.profile, k) = FindCurrent(disc.profile, now, Open)
    BY <1>3
  <2>2. /\ disc'.seen = disc.seen /\ disc'.profile = disc.profile /\ disc'.end = m.closes
        /\ disc'.at = "emit" => disc'.market = m
    BY <2>1, ResolvedMarket DEF TypeOK
  <2>3. IsRolling(disc.profile) =>
          /\ Begun(m) /\ IsRolling(m.slug) /\ OfProfile(m, disc.profile)
          /\ \E n \in Nat : m.closes = n * Window[disc.profile.timeframe]
          /\ \A other, place : At(other, place) /\ OfProfile(other, disc.profile) => other.closes <= m.closes
    BY <1>1, <2>1, NewMarket
  <2>4. /\ IsRolling(m.slug) = IsRolling(disc.profile)
        /\ m.slug.asset = disc.profile.asset /\ m.slug.timeframe = disc.profile.timeframe
    BY <2>1, SlugFields
  <2>5. PICK last \in Nat : last = Len(tx) + Len(marketTx) + 2
    <3>1. Len(tx) \in Nat
      BY Longer DEF TypeOK, ChannelTyped
    <3> QED BY <1>1, <3>1
  <2>6. ASSUME NEW other, NEW place, At(other, place)'
        PROVE  place \in Nat /\ (At(other, place) \/ (place = last /\ other = m))
    <3>1. place \in Nat
      BY <2>6, AtTypedNext DEF AtMarket
    <3>2. CASE place = Len(tx') + Len(marketTx') + 2 /\ disc'.at = "emit" /\ other = disc'.market
      BY <1>1, <2>2, <2>5, <3>1, <3>2
    <3>3. CASE ~(place = Len(tx') + Len(marketTx') + 2 /\ disc'.at = "emit" /\ other = disc'.market)
      BY <1>1, <2>6, <3>1, <3>3 DEF At, IsRoll
    <3> QED BY <3>2, <3>3
  <2>7. ASSUME NEW other, NEW place, At(other, place) PROVE place < last /\ other \in Market
    <3>1. place \in Nat /\ other \in Market
      BY <2>7, AtTyped DEF AtMarket
    <3>2. Len(tx) \in Nat
      BY Longer DEF TypeOK, ChannelTyped
    <3> QED BY <1>1, <2>5, <2>7, <3>1, <3>2 DEF At
  <2>8. ASSUME NEW other, NEW place, At(other, place)' PROVE Begun(other)'
    <3>1. Begun(other)
      <4>1. CASE At(other, place)
        BY <1>1, <4>1 DEF OrderInv
      <4>2. CASE other = m
        BY <2>3, <2>4, <4>2 DEF Begun
      <4> QED BY <2>6, <2>8, <4>1, <4>2
    <3> QED BY <1>1, <3>1 DEF Begun
  <2>9. ASSUME NEW a, NEW b, NEW place, NEW later, At(a, place)', At(b, later)', place < later
        PROVE  Behind(a, b)
    <3>1. CASE At(a, place) /\ At(b, later)
      BY <1>1, <2>9, <3>1 DEF OrderInv
    <3>2. CASE At(a, place) /\ b = m
      <4>1. SUFFICES ASSUME IsRolling(a.slug), SameProfile(a, m) PROVE a.closes <= m.closes
        BY <3>2 DEF Behind
      <4>2. OfProfile(a, disc.profile) /\ IsRolling(disc.profile)
        BY <2>4, <4>1 DEF SameProfile, OfProfile, IsRolling
      <4> QED BY <2>3, <3>2, <4>2
    <3>3. CASE place = last
      <4>1. later \in Nat /\ (At(b, later) \/ later = last)
        BY <2>6, <2>9
      <4>2. later <= last
        BY <2>7, <4>1
      <4> QED BY <2>9, <3>3, <4>1, <4>2
    <3> QED BY <2>6, <2>9, <3>1, <3>2, <3>3
  <2>10. OrderInv'
    BY <2>8, <2>9 DEF OrderInv
  <2>11. DiscoveryInv'
    <3>1. ASSUME IsRolling(disc'.profile)
          PROVE  /\ \E n \in Nat : disc'.end = n * Window[disc'.profile.timeframe]
                 /\ \A other, place : At(other, place)' /\ OfProfile(other, disc'.profile)
                                        => other.closes <= disc'.end
      <4>1. ASSUME NEW other, NEW place, At(other, place)', OfProfile(other, disc.profile)
            PROVE  other.closes <= m.closes
        <5>1. CASE At(other, place)
          BY <2>2, <2>3, <3>1, <4>1, <5>1
        <5>2. CASE other = m
          <6>1. m.closes \in Int
            BY DEF Market
          <6> QED BY <5>2, <6>1
        <5> QED BY <2>6, <4>1, <5>1, <5>2
      <4> QED BY <2>2, <2>3, <3>1, <4>1
    <3> QED BY <1>1, <2>2, <3>1 DEF DiscoveryInv
  <2> QED BY <2>10, <2>11
<1> QED BY <1>2, <1>3, AnsweredTyped DEF TypeOK

LEMMA InitForwardInv == Init => ForwardInv
<1> SUFFICES ASSUME Init PROVE ForwardInv
  OBVIOUS
<1>1. GammaInv
  BY ScenariosAssumption DEF Init, GammaInv
<1>2. ~\E m, place : At(m, place)
  <2>1. \A i \in 1 .. Len(tx) : tx[i].kind = "start"
    BY DEF Init
  <2> QED BY <2>1 DEF Init, At, IsRoll, NoDiscovery
<1>3. OrderInv /\ DiscoveryInv
  BY <1>2 DEF Init, OrderInv, DiscoveryInv, NoDiscovery
<1> QED BY <1>1, <1>3 DEF ForwardInv

LEMMA ForwardInvNext == TypeOK /\ ForwardInv /\ [Next]_vars => ForwardInv'
<1> SUFFICES ASSUME TypeOK, ForwardInv, [Next]_vars PROVE ForwardInv'
  OBVIOUS
<1>1. DiscoveryTyped /\ ChannelTyped /\ AppTyped /\ TypeOK' /\ GammaInv /\ OrderInv /\ DiscoveryInv /\ now \in Nat
  BY TypeNext DEF TypeOK, ForwardInv, DiscoveryTyped
\* Discovery keeps to itself in the steps of the others.
<1>2. ASSUME UNCHANGED <<now, gamma>>, OrderInv', DiscoveryInv' PROVE ForwardInv'
  BY <1>1, <1>2 DEF ForwardInv, GammaInv, InOrder
<1>3. ASSUME UNCHANGED <<now, gamma, marketTx, disc>>, app'.market = app.market, sup'.roll = sup.roll,
             tx' = tx \/ \E e : e.kind # "roll" /\ tx' = Append(tx, e)
      PROVE  ForwardInv'
  <2>1. now <= now' /\ (disc'.at # "off" => disc'.seen = disc'.profile)
    BY <1>1, <1>3 DEF DiscoveryInv
  <2>2. OrderInv' /\ DiscoveryInv'
    BY <1>1, <1>3, <2>1, StandsStill
  <2> QED BY <1>2, <1>3, <2>2
<1>4. CASE Surroundings /\ Elsewhere
  <2>1. UNCHANGED <<disc, marketTx, tx, app, sup>> /\ now <= now'
    BY <1>1, <1>4, SurroundingsTyped DEF Elsewhere, appVars, DiscoveryTyped
  <2>2. disc'.at # "off" => disc'.seen = disc'.profile
    BY <1>1, <2>1 DEF DiscoveryInv
  <2>3. OrderInv' /\ DiscoveryInv'
    BY <1>1, <2>1, <2>2, StandsStill
  <2> QED BY <1>1, <1>4, <2>3, GammaInvNext DEF ForwardInv
<1>5. CASE DiscoveryStep /\ Elsewhere
  <2>1. UNCHANGED <<app, sup>>
    BY <1>5 DEF Elsewhere, appVars
  <2>2. CASE Answers
    BY <1>1, <1>2, <2>1, <2>2, AnsweredTyped, AnswerOrdered
  <2>3. CASE Emit
    BY <1>1, <1>2, <2>1, <2>3, Emitted DEF Emit
  <2>4. CASE Refresh(RollInFlight)
    <3>1. PICK e : /\ e = [kind |-> "ptb", slug |-> disc.market.slug, ptb |-> disc.market.ptb]
                   /\ tx' = Append(tx, e)
      BY <2>4 DEF Refresh
    <3>2. /\ UNCHANGED <<now, gamma, marketTx>> /\ e.kind # "roll" /\ now <= now'
          /\ disc'.at = "sleep" /\ disc'.seen = disc.seen /\ disc'.profile = disc.profile
          /\ disc'.end = disc.end /\ disc.at = "refresh"
      BY <1>1, <2>4, <3>1 DEF Refresh, DiscoveryTyped
    <3>3. disc.seen = disc.profile
      BY <1>1, <3>2 DEF DiscoveryInv
    <3>4. OrderInv' /\ DiscoveryInv'
      BY <1>1, <2>1, <3>1, <3>2, <3>3, StandsStill
    <3> QED BY <1>2, <3>2, <3>4
  <2>5. CASE WakeAfterDelay(RollInFlight) \/ WakeByProfile
    <3>1. /\ disc.at = "sleep" /\ Turn(watch.profile)
          /\ UNCHANGED <<left, now, gamma, marketTx, tx>>
          /\ watch' \in {watch, [watch EXCEPT !.unseen = FALSE]}
      BY <2>5 DEF WakeAfterDelay, WakeByProfile
    <3>2. /\ disc'.at \in {"find", "next"}
          /\ disc'.profile = watch.profile /\ disc'.seen = watch.profile
          /\ disc'.end \in {None} \cup {e \in {disc.end} : disc.seen = watch.profile}
      BY <1>1, <3>1, TurnTyped
    <3>3. disc.seen = disc.profile /\ now <= now'
      BY <1>1, <3>1 DEF DiscoveryInv
    <3>4. disc'.at # "emit" /\ (disc'.end = None \/ (disc'.end = disc.end /\ disc'.profile = disc.profile))
      BY <3>2, <3>3
    <3>5. OrderInv' /\ DiscoveryInv'
      BY <1>1, <2>1, <3>1, <3>2, <3>3, <3>4, StandsStill
    <3> QED BY <1>2, <3>1, <3>5
  <2> QED BY <1>5, <2>2, <2>3, <2>4, <2>5 DEF DiscoveryStep
<1>6. CASE BookStep /\ Elsewhere
  <2>1. UNCHANGED <<app, sup, now, gamma, disc, marketTx>>
    BY <1>1, <1>6, BookTypedNext DEF Elsewhere, appVars
  <2>2. tx' = tx \/ \E e : e.kind # "roll" /\ tx' = Append(tx, e)
    <3>1. tx' = tx \/ \E e : e.kind = "book" /\ tx' = Append(tx, e)
      BY <1>1, <1>6, BookTypedNext
    <3> QED BY <3>1
  <2> QED BY <1>3, <2>1, <2>2
<1>7. CASE UNCHANGED vars
  BY <1>3, <1>7 DEF vars, discVars, appVars
<1>8. CASE UserStep
  <2>1. /\ UNCHANGED <<sup, now, gamma, disc, marketTx>> /\ app'.market = app.market
        /\ tx' = tx \/ \E e : e.kind = "start" /\ tx' = Append(tx, e)
    BY <1>8, UserTyped
  <2>2. tx' = tx \/ \E e : e.kind # "roll" /\ tx' = Append(tx, e)
    BY <2>1
  <2> QED BY <1>3, <2>1, <2>2
<1>9. CASE EventLoop
  <2>1. EventEffect
    BY <1>9, EventTyped
  <2>2. OrderInv' /\ DiscoveryInv' /\ UNCHANGED <<now, gamma>>
    BY <1>1, <2>1, EventTaken DEF EventEffect
  <2> QED BY <1>2, <2>2
<1>10. CASE TakesMarket
  BY <1>1, <1>2, <1>10, MarketTaken DEF TakesMarket
<1>11. CASE SendsRoll
  BY <1>1, <1>2, <1>11, RollSent DEF SendsRoll
<1>12. CASE TakesTokens
  <2>1. UNCHANGED <<now, gamma, disc, marketTx, tx, app>> /\ sup'.roll = sup.roll
    BY <1>1, <1>12 DEF TakesTokens, discVars, AppTyped
  <2> QED BY <1>3, <2>1
<1>13. CASE PollsHolders
  <2>1. PICK e : e = [kind |-> "holders", slug |-> holders] /\ tx' = Append(tx, e)
    BY <1>13 DEF PollsHolders
  <2>2. UNCHANGED <<now, gamma, disc, marketTx, app, sup>> /\ e.kind # "roll"
    BY <1>13, <2>1 DEF PollsHolders, appVars
  <2> QED BY <1>3, <2>1, <2>2
<1>14. CASE SessionStep
  <2>1. UNCHANGED <<now, gamma, disc, marketTx, tx, app, sup>>
    BY <1>14 DEF SessionStep, SessionConnects, SessionSyncs, SessionDrops, discVars, appVars
  <2> QED BY <1>3, <2>1
<1>15. CASE FeedStep
  <2>1. /\ UNCHANGED <<app, sup>>
        /\ tx' = tx \/ \E e : e.kind = "price" /\ tx' = Append(tx, e)
    BY <1>15, FeedTyped
  <2>2. tx' = tx \/ \E e : e.kind # "roll" /\ tx' = Append(tx, e)
    BY <2>1
  <2>3. UNCHANGED <<now, gamma, disc, marketTx>>
    BY <1>15 DEF FeedStep, FeedConnects, FeedSeesSymbol, FeedReads, FeedDrops, Forwards, discVars
  <2> QED BY <1>3, <2>1, <2>2, <2>3
<1> QED BY <1>4, <1>5, <1>6, <1>7, <1>8, <1>9, <1>10, <1>11, <1>12, <1>13, <1>14, <1>15
        DEF Next, UserStep, Supervisor

\* A step that shows another market of a profile with rolling windows leads forward.
LEMMA StepForward ==
  ASSUME TypeOK, ForwardInv, [Next]_vars, app.market # None, IsRolling(app.market.slug),
         app'.market # None, SameProfile(app.market, app'.market)
  PROVE  app.market.closes <= app'.market.closes
<1>1. DiscoveryTyped /\ ChannelTyped /\ AppTyped /\ OrderInv
  BY DEF TypeOK, ForwardInv
<1>2. app.market \in Market /\ app.market.closes \in Int
  BY <1>1 DEF AppTyped, IsApp, Market
<1>3. CASE app'.market = app.market
  BY <1>2, <1>3
<1>4. CASE EventLoop
  <2>1. EventEffect
    BY <1>4, EventTyped
  <2>2. CASE Event.kind = "roll" /\ app'.market = Event.market
    <3>1. Len(tx) \in Nat \ {0} /\ Event = tx[1]
      BY <1>1, <2>1, Shorter DEF ChannelTyped, EventEffect, Event
    <3>2. 1 \in 1 .. Len(tx) /\ IsRoll(1)
      BY <2>2, <3>1 DEF IsRoll
    <3>3. At(app.market, 0) /\ At(tx[1].market, 1)
      BY <3>2 DEF At
    <3>4. Behind(app.market, tx[1].market)
      BY <1>1, <3>3 DEF OrderInv
    <3> QED BY <2>2, <3>1, <3>4 DEF Behind
  <2>3. CASE SameMarket(app.market, app'.market)
    BY <1>2, <2>3 DEF SameMarket
  <2>4. CASE app'.market = None
    BY <2>4
  <2> QED BY <1>3, <2>1, <2>2, <2>3, <2>4 DEF EventEffect
<1>5. CASE UserStep
  BY <1>3, <1>5, UserTyped
<1>6. CASE UNCHANGED app
  BY <1>3, <1>6
<1>7. CASE FeedStep
  BY <1>6, <1>7, FeedTyped
<1>8. CASE \/ (Surroundings \/ DiscoveryStep \/ BookStep) /\ Elsewhere
           \/ Supervisor \/ PollsHolders \/ SessionStep \/ UNCHANGED vars
  <2>1. UNCHANGED app
    BY <1>8 DEF Elsewhere, appVars, vars, Supervisor, TakesMarket, SendsRoll, TakesTokens, PollsHolders,
                SessionStep, SessionConnects, SessionSyncs, SessionDrops
  <2> QED BY <1>6, <2>1
<1> QED BY <1>4, <1>5, <1>7, <1>8 DEF Next, UserStep

\* A market with a rolling window is never replaced by an earlier one of its profile, also
\* while Gamma still calls the window that ended open, and whatever rolls of other profiles
\* are on their way (market_discovery_gamma.rs 3-8, gamma.rs 252, app.rs 1906).
THEOREM RollingNeverBack ==
  Spec => [][(app.market # None /\ IsRolling(app.market.slug) /\ app'.market # None
                /\ SameProfile(app.market, app'.market))
               => app.market.closes <= app'.market.closes]_vars
<1>1. TypeOK /\ ForwardInv /\ [Next]_vars
        => [(app.market # None /\ IsRolling(app.market.slug) /\ app'.market # None
               /\ SameProfile(app.market, app'.market))
              => app.market.closes <= app'.market.closes]_vars
  BY StepForward
<1> QED BY TypeInit, TypeNext, InitForwardInv, ForwardInvNext, <1>1, PTL DEF Spec

\* So the rolls lead forward in every behaviour that shows no daily market; with one they
\* do not (run watch_daily).
THEOREM RollsForwardHolds == Spec => ([](app.market # None => IsRolling(app.market.slug)) => RollsForward)
<1>1. /\ (app.market # None => IsRolling(app.market.slug))
      /\ TypeOK /\ ForwardInv /\ [Next]_vars
      => [(app.market # None /\ app'.market # None /\ SameProfile(app.market, app'.market))
            => app.market.closes <= app'.market.closes]_vars
  BY StepForward
<1> QED BY TypeInit, TypeNext, InitForwardInv, ForwardInvNext, <1>1, PTL DEF Spec, RollsForward
=============================================================================
