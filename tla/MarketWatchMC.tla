---------------------------- MODULE MarketWatchMC ----------------------------
(* The instance of MarketWatch for TLC: a window of 5 minutes is one unit of time, one of
   15 minutes two. *)
EXTENDS MarketWatch

MCWindow == "M5" :> 1 @@ "M15" :> 2

P(asset, timeframe) == [asset |-> asset, timeframe |-> timeframe]
SlugsOf(p, keys) == {SlugOf(p, k) : k \in keys}

CONSTANTS btc, eth

Grid == [tf \in {"M5", "M15"} |-> IF tf = "M5" THEN 0 .. 3 ELSE {0, 2}]
Listed(ps) == UNION {SlugsOf(p, Grid[p.timeframe]) : p \in ps}

Calm == [starts |-> 0, clock |-> 0, refines |-> 0, unpriced |-> 0, outages |-> 0, quotes |-> 0, drops |-> 0,
         arms |-> 0, reach |-> {}, profiles |-> {}, preset |-> None, price |-> 2, listed |-> {}]

Chosen(ps) == [Calm EXCEPT !.profiles = ps, !.listed = Listed(ps)]
Given(p) == [Calm EXCEPT !.preset = p]
Switched(p, other) == [Chosen({other}) EXCEPT !.preset = p, !.starts = 1, !.listed = Listed({p, other})]

\* The wizard: a profile from the command line and then another, or both in the wizard.
Wizard ==
  { [Chosen({P(btc, "M5"), P(eth, "M15")}) EXCEPT !.starts = 3],
    [Switched(P(btc, "M5"), P(eth, "M15")) EXCEPT !.clock = 2],
    [Switched(P(btc, "M5"), P(eth, "M15")) EXCEPT !.reach = {"clob"}],
    [Switched(P(btc, "M5"), P(eth, "M5")) EXCEPT !.clock = 1, !.reach = {"holders"}],
    [Switched(P(btc, "M5"), P(eth, "M5")) EXCEPT !.reach = {"spot"}, !.drops = 1],
    [Switched(P(btc, "M5"), P(eth, "M15")) EXCEPT !.reach = {"user"}, !.drops = 1, !.arms = 1] }

\* One profile from the command line.
Preset ==
  { [Given(P(btc, "M15")) EXCEPT !.clock = 3, !.outages = 1],
    [Given(P(btc, "M5")) EXCEPT !.listed = Listed({P(btc, "M5")}), !.clock = 1, !.refines = 1, !.unpriced = 1],
    [Given(P(btc, "M5")) EXCEPT !.listed = Listed({P(btc, "M5")}), !.clock = 1, !.reach = {"clob"}],
    [Given(P(eth, "M5")) EXCEPT !.listed = Listed({P(eth, "M5")}), !.reach = {"clob"}, !.quotes = 2],
    [Given(P(eth, "M5")) EXCEPT !.listed = Listed({P(eth, "M5")}), !.reach = {"clob"}, !.quotes = 1, !.drops = 1] }

MCScenarios == Wizard \cup Preset

\* A daily market.
Daily == {[Given(P(eth, "D1")) EXCEPT !.clock = 3]}
===============================================================================
