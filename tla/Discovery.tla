------------------------------ MODULE Discovery ------------------------------
(* Market discovery: the task that asks Gamma which market is open for the profile of
   the watch channel, sends a new one to the supervisor and tells the event loop when
   only the price to beat of the known one has changed. Gamma is external: it lists a
   market some time before its window ends, marks it closed some time after, may be out
   of reach for a while, and the site's price API may fail or answer a refined price. *)
EXTENDS Gamma, Sequences

CONSTANTS
  Scenarios,   \* what the surroundings of the program do: see left
  EventCap,    \* capacity of the event channel
  MarketCap    \* capacity of the channel from discovery to the supervisor

ASSUME DiscoveryAssumption == EventCap \in Nat \ {0} /\ MarketCap \in Nat \ {0}

\* A price to beat.
PriceToBeat == Nat \cup {None}

\* How often each thing may happen, which servers can be reached, the profiles of the wizard
\* and of the command line, the first price and the markets listed in the beginning.
Scenario == [starts : Nat, clock : Nat, refines : Nat, unpriced : Nat, outages : Nat, quotes : Nat,
             drops : Nat, arms : Nat, reach : SUBSET {"clob", "holders", "spot", "user"},
             profiles : SUBSET Profile, preset : Profile \cup {None}, price : PriceToBeat, listed : SUBSET Slug]

\* Gamma lists the windows of a profile in order: with a window also those before it that
\* are not over.
InOrder(listed, time) ==
  \A slug \in listed : IsRolling(slug) =>
    LET step == Window[slug.timeframe]
    IN \A n \in 0 .. slug.key :
         (n * step < slug.key /\ time < n * step + step) => SlugOf(slug, n * step) \in listed

ASSUME ScenariosAssumption ==
  Scenarios \subseteq Scenario /\ \A s \in Scenarios : InOrder(s.listed, 0)

VARIABLES
  left,        \* the scenario and how much of it is left to happen
  now,         \* the clock
  gamma,       \* what Gamma answers: the slugs listed, those closed, the open price, is it down
  watch,       \* the watch channel of the profile: its value, and is it unseen by discovery
  disc,        \* the discovery task
  marketTx,    \* the channel of markets to the supervisor
  tx           \* the channel of events to the event loop

discVars == <<left, now, gamma, watch, disc, marketTx, tx>>

May(what) == left[what] > 0
Spend(what) == left' = [left EXCEPT ![what] = @ - 1]

-------------------------------------------------------------------------------
(* Gamma and the clock. *)

Open == gamma.listed \ gamma.closed
Reachable == ~gamma.down

\* The markets of a profile that the task could be waiting for.
Awaited(p) ==
  IF IsRolling(p) THEN {SlugOf(p, k) : k \in TriedStarts(p, now) \cap Nat}
                  ELSE {SlugOf(p, d) : d \in (now \div Day) .. (now \div Day) + 1}

Lists ==
  /\ disc.at # "off"
  /\ LET unlisted == {slug \in Awaited(disc.profile) \ gamma.listed : now < EndDate(slug)}
     IN \E slug \in unlisted :
          /\ \A other \in unlisted : slug.key <= other.key
          /\ gamma' = [gamma EXCEPT !.listed = @ \cup {slug}]
  /\ UNCHANGED <<left, now, watch, disc, marketTx, tx>>

Closes ==
  /\ \E slug \in Open : EndDate(slug) <= now
  /\ gamma' = [gamma EXCEPT !.closed = {slug \in gamma.listed : EndDate(slug) <= now}]
  /\ UNCHANGED <<left, now, watch, disc, marketTx, tx>>

Refines ==
  /\ May("refines") /\ Spend("refines")
  /\ \E price \in {1, 2, 4} \ {gamma.price} : gamma' = [gamma EXCEPT !.price = price]
  /\ UNCHANGED <<now, watch, disc, marketTx, tx>>

Outage ==
  /\ May("outages") /\ Reachable /\ Spend("outages")
  /\ gamma' = [gamma EXCEPT !.down = TRUE]
  /\ UNCHANGED <<now, watch, disc, marketTx, tx>>

Recovers ==
  /\ gamma.down
  /\ gamma' = [gamma EXCEPT !.down = FALSE]
  /\ UNCHANGED <<left, now, watch, disc, marketTx, tx>>

\* A window is long against the polls of a second: unless Gamma is out of reach the task
\* learns the next market before that one's window ends too.
Tick ==
  /\ May("clock") /\ Spend("clock")
  /\ (Reachable /\ disc.end # None) => now < disc.end
  /\ now' = now + 1
  /\ UNCHANGED <<gamma, watch, disc, marketTx, tx>>

-------------------------------------------------------------------------------
(* The task. disc.emitted is last_emitted, disc.end last_window_end, disc.seen
   seen_profile, disc.profile the profile of this turn, disc.market what is being sent. *)

NoDiscovery == [at |-> "off", seen |-> None, profile |-> None, emitted |-> None, end |-> None, market |-> None]

PriceClose(a, b) ==
  \/ a = None /\ b = None
  \/ a # None /\ b # None /\ a - b \in -1 .. 1

AfterClose(end) == end # None /\ now >= end

\* mutant of Turn
TurnKeepingRollState(profile) ==
  disc' = [disc EXCEPT !.profile = profile, !.seen = profile, !.at = IF AfterClose(disc.end) THEN "next" ELSE "find"]
\* The top of the loop, and the branch try_roll_market takes.
Turn(profile) ==
  LET known == disc.seen = profile
      end == IF known THEN disc.end ELSE None
  IN disc' = [disc EXCEPT !.profile = profile, !.seen = profile,
                          !.emitted = IF known THEN @ ELSE None, !.end = end,
                          !.at = IF AfterClose(end) THEN "next" ELSE "find"]

\* mutant of Resolved
ResolvedBySlugOnly(m) ==
  disc' = [disc EXCEPT !.end = m.closes,
                       !.emitted = IF @ = None \/ @.slug # m.slug THEN [slug |-> m.slug, ptb |-> m.ptb] ELSE @,
                       !.market = IF disc.emitted = None \/ disc.emitted.slug # m.slug THEN m ELSE None,
                       !.at = IF disc.emitted = None \/ disc.emitted.slug # m.slug THEN "emit" ELSE "sleep"]
\* apply_resolved_market: a new slug is a full roll, a moved price only a refresh.
Resolved(m) ==
  LET roll == disc.emitted = None \/ disc.emitted.slug # m.slug
      same == ~roll /\ PriceClose(disc.emitted.ptb, m.ptb)
  IN disc' = [disc EXCEPT !.end = m.closes,
                          !.emitted = IF same THEN @ ELSE [slug |-> m.slug, ptb |-> m.ptb],
                          !.market = IF same THEN None ELSE m,
                          !.at = IF roll THEN "emit" ELSE IF same THEN "sleep" ELSE "refresh"]

\* The price API is asked after the market; its failure leaves no price.
Priced(slug) ==
  \/ (\E m \in {ActiveMarket(slug, gamma.price)} : Resolved(m)) /\ UNCHANGED left
  \/ /\ gamma.price # None /\ May("unpriced") /\ Spend("unpriced")
     /\ \E m \in {ActiveMarket(slug, None)} : Resolved(m)

FindAnswered ==
  /\ disc.at = "find" /\ Reachable
  /\ \E slug \in {FindCurrent(disc.profile, now, Open)} :
       IF slug # None THEN Priced(slug) ELSE disc' = [disc EXCEPT !.at = "sleep"] /\ UNCHANGED left
  /\ UNCHANGED <<now, gamma, watch, marketTx, tx>>

FindFails ==
  /\ disc.at = "find" /\ ~Reachable
  /\ disc' = [disc EXCEPT !.at = "sleep"]
  /\ UNCHANGED <<left, now, gamma, watch, marketTx, tx>>

\* After the window: the same slug is asked for until it is open. Any other answer,
\* and an error, sleeps a second and asks again.
NextAnswered ==
  /\ disc.at = "next" /\ Reachable
  /\ \E slug \in {FetchNext(disc.profile, disc.end, Open)} \ {None} : Priced(slug)
  /\ UNCHANGED <<now, gamma, watch, marketTx, tx>>

Emit ==
  /\ disc.at = "emit" /\ Len(marketTx) < MarketCap
  /\ marketTx' = Append(marketTx, disc.market)
  /\ disc' = [disc EXCEPT !.at = "sleep", !.market = None]
  /\ UNCHANGED <<left, now, gamma, watch, tx>>

\* The refresh goes straight to the event channel. A roll still on its way through the
\* supervisor was sent a round trip to Gamma earlier and is taken to be ahead of it.
Refresh(rolling) ==
  /\ disc.at = "refresh" /\ ~rolling /\ Len(tx) < EventCap
  /\ tx' = Append(tx, [kind |-> "ptb", slug |-> disc.market.slug, ptb |-> disc.market.ptb])
  /\ disc' = [disc EXCEPT !.at = "sleep", !.market = None]
  /\ UNCHANGED <<left, now, gamma, watch, marketTx>>

\* The sleep ends after 15 s or at the close; meanwhile a roll has long reached the event
\* channel. It also ends when the profile is sent again, the same one included.
WakeAfterDelay(rolling) ==
  /\ disc.at = "sleep" /\ ~rolling
  /\ Turn(watch.profile)
  /\ UNCHANGED <<left, now, gamma, watch, marketTx, tx>>

WakeByProfile ==
  /\ disc.at = "sleep" /\ watch.unseen
  /\ Turn(watch.profile)
  /\ watch' = [watch EXCEPT !.unseen = FALSE]
  /\ UNCHANGED <<left, now, gamma, marketTx, tx>>
===============================================================================
