-------------------------------- MODULE Gamma --------------------------------
(* What the program asks Gamma for and what it makes of an answer: the slugs of a
   market profile, the window of a slug, the market of now, the market after a window,
   and the ActiveMarket built from the record Gamma sends. A slug is its asset, its
   timeframe and its key: the start of the window for a rolling market, the calendar
   day in New York for a daily one. *)
EXTENDS Integers, FiniteSets, FiniteSetsExt

CONSTANTS
  Assets,      \* CRYPTO_ASSETS
  Window,      \* Timeframe::window_sec_rolling of "M5" and of "M15"
  Day, Noon,   \* a calendar day of New York, and the hour at which daily markets change
  DownFirst,   \* the assets whose markets Gamma lists with the outcomes ["Down","Up"]
  None

ASSUME GammaAssumption ==
  /\ DOMAIN Window = {"M5", "M15"}
  /\ \A tf \in DOMAIN Window : Window[tf] \in Nat \ {0}
  /\ Noon \in Nat /\ Day \in Nat /\ Noon < Day

Profile == [asset : Assets, timeframe : DOMAIN Window \cup {"D1"}]

\* A slug names the market of a profile by its key.
Slug == [asset : Assets, timeframe : DOMAIN Window \cup {"D1"}, key : Nat]

IsRolling(p) == p.timeframe # "D1"

SlugOf(p, key) == [asset |-> p.asset, timeframe |-> p.timeframe, key |-> key]

\* The dates of Gamma's record; a daily market runs from noon to noon.
EventStart(slug) == IF IsRolling(slug) THEN slug.key ELSE (slug.key - 1) * Day + Noon
EndDate(slug) == IF IsRolling(slug) THEN slug.key + Window[slug.timeframe] ELSE slug.key * Day + Noon

\* The outcome tokens in the order of clobTokenIds and of outcomes.
Token(slug, outcome) == [slug |-> slug, outcome |-> outcome]
Outcomes(slug) == IF slug.asset \in DownFirst THEN <<"Down", "Up">> ELSE <<"Up", "Down">>
ClobTokenIds(slug) == [i \in 1 .. 2 |-> Token(slug, Outcomes(slug)[i])]

ActiveMarket(slug, ptb) ==
  LET upFirst == Outcomes(slug)[1] = "Up"
  IN [slug |-> slug,
      up |-> ClobTokenIds(slug)[IF upFirst THEN 1 ELSE 2],
      down |-> ClobTokenIds(slug)[IF upFirst THEN 2 ELSE 1],
      ptb |-> ptb, opens |-> EventStart(slug), closes |-> EndDate(slug)]

\* The slug of the least key in keys, None when there is none.
Earliest(p, keys) == IF keys = {} THEN None ELSE SlugOf(p, Min(keys))

\* The windows around now that are asked for, and the one that is taken.
TriedStarts(p, now) ==
  LET step == Window[p.timeframe]
      base == (now \div step) * step
  IN {base, base + step, base - step, base + 2 * step, base - 2 * step}

\* mutant of FindRolling
FindRollingOpen(p, now, open) == Earliest(p, {k \in TriedStarts(p, now) : SlugOf(p, k) \in open})
FindRolling(p, now, open) ==
  LET starts == {k \in TriedStarts(p, now) : SlugOf(p, k) \in open}
      running == {k \in starts : k <= now /\ now < EndDate(SlugOf(p, k))}
  IN Earliest(p, IF running # {} THEN running ELSE {k \in starts : k >= now})

FindDaily(p, now, open) ==
  Earliest(p, {d \in (now \div Day) .. (now \div Day) + 4 : SlugOf(p, d) \in open})

FindCurrent(p, now, open) == IF IsRolling(p) THEN FindRolling(p, now, open) ELSE FindDaily(p, now, open)

\* The keys asked for once the window that ended at `end` is over.
NextSlugs(p, end) ==
  IF IsRolling(p) THEN {end} ELSE LET first == (end \div Day) + 1 IN first .. first + 9

FetchNext(p, end, open) == Earliest(p, {k \in NextSlugs(p, end) : SlugOf(p, k) \in open})
===============================================================================
