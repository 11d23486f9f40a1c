----------------------------- MODULE MarketWatch -----------------------------
(* The market that is shown and everything that follows it: the wizard and the event
   loop's handlers, the supervisor with the book task and the poll of the top holders,
   the user channel's subscriptions and the spot price feed, composed with discovery and
   the book feed. The supervisor is told of a new market by discovery, of the tokens to
   watch by the event loop; the user channel and the price feed by the event loop. *)
EXTENDS BookFeed

VARIABLES
  app,         \* AppState: phase, profile, market, trailing sessions, books, spot, holders, latch
  tokenW,      \* book_token_tx: the watched tokens, and are they unseen by the supervisor
  bundleW,     \* user_bundle_tx: the markets, and are they unseen by the user channel
  symbolW,     \* rtds_sym_tx: the asset, and is it unseen by the price feed
  sup,         \* the supervisor: the shown pair, the last spawned tokens, the MarketRoll it sends
  holders,     \* the market the holders poll asks for
  session,     \* the user channel's session and what the server has of it
  feed         \* the price feed: the asset it is subscribed to, the latest tick

appVars == <<app, tokenW, bundleW, symbolW>>
vars == <<discVars, bookVars, appVars, sup, holders, session, feed>>

NoSession == [up |-> FALSE, subscribed |-> {}, handshake |-> FALSE, synced |-> FALSE, server |-> {}]

Init ==
  /\ left \in Scenarios
  /\ now = 0
  /\ gamma = [listed |-> left.listed, closed |-> {}, price |-> left.price, down |-> FALSE]
  /\ watch = [profile |-> None, unseen |-> FALSE]
  /\ disc = NoDiscovery
  /\ marketTx = <<>>
  /\ tx = IF left.preset = None THEN <<>> ELSE <<[kind |-> "start", profile |-> left.preset]>>
  /\ exchange = <<>> /\ task = None /\ latest = <<>> /\ batch = <<>>
  /\ app = [phase |-> "wizard", profile |-> None, market |-> None, trailing |-> {}, books |-> <<>>,
            spot |-> None, holders |-> None, latched |-> None]
  /\ tokenW = [tokens |-> {}, unseen |-> FALSE]
  /\ bundleW = [active |-> None, extras |-> {}, unseen |-> FALSE]
  /\ symbolW = [asset |-> None, unseen |-> FALSE]
  /\ sup = [ui |-> {}, spawned |-> {}, roll |-> None]
  /\ holders = None
  /\ session = NoSession
  /\ feed = [asset |-> None, tick |-> None]

-------------------------------------------------------------------------------
(* The user. *)

Pair(market) == IF market = None THEN {} ELSE {market.up, market.down}

\* Esc on the trading screen goes back to the wizard's list of timeframes.
ToWizard ==
  /\ app.phase = "trading" /\ May("starts")
  /\ app' = [app EXCEPT !.phase = "wizard"]
  /\ UNCHANGED <<discVars, bookVars, tokenW, bundleW, symbolW, sup, holders, session, feed>>

\* Enter sends StartTrading; the wizard stays until the event is applied, and a full
\* channel loses the event.
Enter ==
  /\ app.phase = "wizard" /\ May("starts") /\ Spend("starts")
  /\ \E p \in {p \in left.profiles : IsRolling(p)} :
       tx' = IF Len(tx) < EventCap THEN Append(tx, [kind |-> "start", profile |-> p]) ELSE tx
  /\ UNCHANGED <<now, gamma, watch, disc, marketTx, bookVars, appVars, sup, holders, session, feed>>

-------------------------------------------------------------------------------
(* The event loop. *)

WatchTokens(a) == Pair(a.market) \cup a.trailing

BundleOf(a) ==
  [active |-> IF a.market = None THEN None ELSE a.market.slug,
   extras |-> {t.slug : t \in a.trailing} \ (IF a.market = None THEN {} ELSE {a.market.slug})]

\* mutant of Publish
PublishTokensOnly(a) ==
  /\ app' = a
  /\ tokenW' = IF WatchTokens(a) = tokenW.tokens THEN tokenW ELSE [tokens |-> WatchTokens(a), unseen |-> TRUE]
  /\ UNCHANGED bundleW
\* The end of every event: the watch list prunes the books, changed lists are sent.
Publish(a) ==
  /\ app' = [a EXCEPT !.books = Restrict(@, DOMAIN @ \cap WatchTokens(a))]
  /\ tokenW' = IF WatchTokens(a) = tokenW.tokens THEN tokenW ELSE [tokens |-> WatchTokens(a), unseen |-> TRUE]
  /\ LET b == BundleOf(a)
     IN bundleW' = IF b.active = bundleW.active /\ b.extras = bundleW.extras THEN bundleW
                   ELSE [active |-> b.active, extras |-> b.extras, unseen |-> TRUE]

Event == Head(tx)
Takes(kind) == tx # <<>> /\ Event.kind = kind /\ tx' = Tail(tx)

StartTrading ==
  /\ Takes("start")
  /\ symbolW' = [asset |-> Event.profile.asset, unseen |-> TRUE]
  /\ watch' = [profile |-> Event.profile, unseen |-> TRUE]
  /\ disc' = IF disc.at = "off" THEN [disc EXCEPT !.at = "find", !.seen = Event.profile, !.profile = Event.profile]
             ELSE disc
  /\ Publish([app EXCEPT !.phase = "trading", !.profile = Event.profile, !.market = None, !.books = <<>>,
                         !.spot = None, !.holders = None, !.latched = None])
  /\ UNCHANGED <<left, now, gamma, marketTx, bookVars, sup, holders, session, feed>>

\* mutant of MarketRoll
MarketRollKeepingHolders ==
  /\ Takes("roll")
  /\ Publish([app EXCEPT !.market = Event.market, !.trailing = {}, !.books = <<>>, !.latched = None])
  /\ UNCHANGED <<left, now, gamma, watch, disc, marketTx, bookVars, symbolW, sup, holders, session, feed>>
MarketRoll ==
  /\ Takes("roll")
  /\ Publish([app EXCEPT !.market = Event.market, !.trailing = {}, !.books = <<>>, !.holders = None,
                         !.latched = None])
  /\ UNCHANGED <<left, now, gamma, watch, disc, marketTx, bookVars, symbolW, sup, holders, session, feed>>

PriceToBeatRefresh ==
  /\ Takes("ptb")
  /\ LET known == app.market # None /\ app.market.slug = Event.slug /\ Event.ptb # None
     IN Publish(IF known THEN [app EXCEPT !.market.ptb = Event.ptb, !.latched = None] ELSE app)
  /\ UNCHANGED <<left, now, gamma, watch, disc, marketTx, bookVars, symbolW, sup, holders, session, feed>>

\* A price is latched as the price to beat of a market that came without one.
Price ==
  /\ Takes("price")
  /\ LET latches == app.market # None /\ app.market.ptb = None /\ app.latched = None /\ Event.at >= app.market.opens
     IN Publish([app EXCEPT !.spot = Event.asset, !.latched = IF latches THEN Event.asset ELSE @])
  /\ UNCHANGED <<left, now, gamma, watch, disc, marketTx, bookVars, symbolW, sup, holders, session, feed>>

BookShown ==
  /\ Takes("book")
  /\ Publish(IF Event.token \in WatchTokens(app)
             THEN [app EXCEPT !.books = (Event.token :> Event.levels) @@ @] ELSE app)
  /\ UNCHANGED <<left, now, gamma, watch, disc, marketTx, bookVars, symbolW, sup, holders, session, feed>>

TopHoldersSentiment ==
  /\ Takes("holders")
  /\ Publish([app EXCEPT !.holders = Event.slug])
  /\ UNCHANGED <<left, now, gamma, watch, disc, marketTx, bookVars, symbolW, sup, holders, session, feed>>

\* A fill of the shown market starts a trailing session, an exit ends it.
Arms ==
  /\ May("arms") /\ Spend("arms")
  /\ \E t \in Pair(app.market) \ app.trailing : Publish([app EXCEPT !.trailing = @ \cup {t}])
  /\ UNCHANGED <<now, gamma, watch, disc, marketTx, tx, bookVars, symbolW, sup, holders, session, feed>>

Exits ==
  /\ \E t \in app.trailing : Publish([app EXCEPT !.trailing = @ \ {t}])
  /\ UNCHANGED <<discVars, bookVars, symbolW, sup, holders, session, feed>>

EventLoop ==
  \/ StartTrading \/ MarketRoll \/ PriceToBeatRefresh \/ Price \/ BookShown \/ TopHoldersSentiment

-------------------------------------------------------------------------------
(* The supervisor. *)

\* restart_book_ws: the same tokens change nothing, whatever became of the task.  The lists
\* that are compared are sorted and have no duplicates (merge_ui_and_extra_book_tokens).
RestartBooks(old, tokens) ==
  IF tokens = sup.spawned THEN task' = old
  ELSE task' = IF tokens = {} THEN None ELSE BookTask(tokens)

\* A market comes: the tasks of the old one are aborted, its books are asked for, and
\* MarketRoll is sent.
TakesMarket ==
  /\ marketTx # <<>> /\ sup.roll = None
  /\ LET m == Head(marketTx)
         tokens == Pair(m) \cup tokenW.tokens
     IN /\ RestartBooks(None, tokens)
        /\ sup' = [ui |-> Pair(m), spawned |-> tokens, roll |-> m]
  /\ marketTx' = Tail(marketTx)
  /\ holders' = None
  /\ UNCHANGED <<left, now, gamma, watch, disc, tx, exchange, latest, batch, appVars, session, feed>>

SendsRoll ==
  /\ sup.roll # None /\ Len(tx) < EventCap
  /\ tx' = Append(tx, [kind |-> "roll", market |-> sup.roll])
  /\ sup' = [sup EXCEPT !.roll = None]
  /\ holders' = sup.roll.slug
  /\ UNCHANGED <<left, now, gamma, watch, disc, marketTx, bookVars, appVars, session, feed>>

TakesTokens ==
  /\ tokenW.unseen /\ sup.roll = None
  /\ tokenW' = [tokenW EXCEPT !.unseen = FALSE]
  /\ LET tokens == sup.ui \cup tokenW.tokens
     IN RestartBooks(task, tokens) /\ sup' = [sup EXCEPT !.spawned = tokens]
  /\ UNCHANGED <<discVars, exchange, latest, batch, app, bundleW, symbolW, holders, session, feed>>

PollsHolders ==
  /\ "holders" \in left.reach /\ holders # None /\ Len(tx) < EventCap
  /\ tx' = Append(tx, [kind |-> "holders", slug |-> holders])
  /\ UNCHANGED <<left, now, gamma, watch, disc, marketTx, bookVars, appVars, sup, holders, session, feed>>

Supervisor == TakesMarket \/ SendsRoll \/ TakesTokens

-------------------------------------------------------------------------------
(* The user channel's session. *)

Desired == (IF bundleW.active = None THEN {} ELSE {bundleW.active}) \cup bundleW.extras

SessionConnects ==
  /\ "user" \in left.reach /\ ~session.up
  /\ session' = [NoSession EXCEPT !.up = TRUE]
  /\ UNCHANGED <<discVars, bookVars, appVars, sup, holders, feed>>

\* sync_condition_subscriptions, before every wait: unsubscribe what is no longer wanted,
\* then the handshake with the whole list, or one subscription per new market.
SessionSyncs ==
  /\ session.up /\ (bundleW.unseen \/ ~session.synced)
  /\ session.synced \/ Desired # {}
  /\ session' = [session EXCEPT !.synced = TRUE, !.subscribed = Desired, !.handshake = Desired # {},
                                !.server = (@ \ (session.subscribed \ Desired))
                                             \cup (IF session.handshake THEN Desired \ session.subscribed ELSE Desired)]
  /\ bundleW' = [bundleW EXCEPT !.unseen = FALSE]
  /\ UNCHANGED <<discVars, bookVars, app, tokenW, symbolW, sup, holders, feed>>

SessionDrops ==
  /\ May("drops") /\ session.up /\ Spend("drops")
  /\ session' = NoSession
  /\ UNCHANGED <<now, gamma, watch, disc, marketTx, tx, bookVars, appVars, sup, holders, feed>>

-------------------------------------------------------------------------------
(* The spot price feed and its forwarder. *)

FeedConnects ==
  /\ "spot" \in left.reach /\ feed.asset = None /\ symbolW.asset # None
  /\ feed' = [feed EXCEPT !.asset = symbolW.asset]
  /\ UNCHANGED <<discVars, bookVars, appVars, sup, holders, session>>

\* The watch is looked at before the socket; another symbol ends the connection.
FeedSeesSymbol ==
  /\ feed.asset # None /\ symbolW.unseen
  /\ symbolW' = [symbolW EXCEPT !.unseen = FALSE]
  /\ feed' = IF symbolW.asset = feed.asset THEN feed ELSE [feed EXCEPT !.asset = None]
  /\ UNCHANGED <<discVars, bookVars, app, tokenW, bundleW, sup, holders, session>>

\* mutant of Expected
ExpectedAny(asset) == TRUE
Expected(asset) == asset = feed.asset

\* The server may send another symbol's price; the newest price of a burst is kept.
FeedReads ==
  /\ feed.asset # None /\ ~symbolW.unseen
  /\ \E asset \in Assets : Expected(asset) /\ feed' = [feed EXCEPT !.tick = [asset |-> asset, at |-> now]]
  /\ UNCHANGED <<discVars, bookVars, appVars, sup, holders, session>>

FeedDrops ==
  /\ May("drops") /\ feed.asset # None /\ Spend("drops")
  /\ feed' = [feed EXCEPT !.asset = None]
  /\ UNCHANGED <<now, gamma, watch, disc, marketTx, tx, bookVars, appVars, sup, holders, session>>

\* try_send: a full channel loses the tick.
Forwards ==
  /\ feed.tick # None
  /\ feed' = [feed EXCEPT !.tick = None]
  /\ tx' = IF Len(tx) < EventCap THEN Append(tx, [kind |-> "price", asset |-> feed.tick.asset, at |-> feed.tick.at])
           ELSE tx
  /\ UNCHANGED <<left, now, gamma, watch, disc, marketTx, bookVars, appVars, sup, holders, session>>

-------------------------------------------------------------------------------
(* The composition. *)

RollInFlight == marketTx # <<>> \/ sup.roll # None
Elsewhere == UNCHANGED <<appVars, sup, holders, session, feed>>

Surroundings == Lists \/ Closes \/ Refines \/ Outage \/ Recovers \/ Tick
Answers == FindAnswered \/ FindFails \/ NextAnswered
DiscoveryStep == Answers \/ Emit \/ Refresh(RollInFlight) \/ WakeAfterDelay(RollInFlight) \/ WakeByProfile
BookStep == Quotes \/ TaskConnects(sup.roll # None) \/ TaskDrops \/ TaskReads \/ Drain \/ SendBook
SessionStep == SessionConnects \/ SessionSyncs \/ SessionDrops
FeedStep == FeedConnects \/ FeedSeesSymbol \/ FeedReads \/ FeedDrops \/ Forwards

Next ==
  \/ (Surroundings \/ DiscoveryStep) /\ UNCHANGED bookVars /\ Elsewhere
  \/ BookStep /\ Elsewhere
  \/ ToWizard \/ Enter \/ EventLoop \/ Arms \/ Exits
  \/ Supervisor \/ PollsHolders
  \/ SessionStep \/ FeedStep

\* Every task is scheduled: discovery, the book task, the flusher, the event loop, the
\* supervisor, the session and the price feed each take a step when they can, one that
\* waits for room in a channel when there is room again and again. Gamma lists its markets
\* and comes back, the servers accept connections and send prices, the clock goes on. A
\* tick may find the event channel full again and again: only one that gets through is
\* owed. No user, no drop, no change of a book and no poll of the holders is owed.
Alone(step) == step /\ UNCHANGED bookVars /\ Elsewhere
Fairness ==
  /\ WF_vars(Alone(Lists \/ Recovers \/ Tick))
  /\ SF_vars(Alone(DiscoveryStep))
  /\ WF_vars((TaskConnects(sup.roll # None) \/ TaskReads) /\ Elsewhere) /\ SF_vars((Drain \/ SendBook) /\ Elsewhere)
  /\ WF_vars(EventLoop)
  /\ SF_vars(Supervisor)
  /\ WF_vars(SessionConnects \/ SessionSyncs)
  /\ WF_vars(FeedConnects \/ FeedSeesSymbol \/ FeedReads)
  /\ SF_vars(Forwards /\ Len(tx) < EventCap)

Spec == Init /\ [][Next]_vars /\ Fairness

-------------------------------------------------------------------------------
(* Properties. *)

\* The screen ends up with the market of the chosen profile whose window is not over,
\* across closes, a switch of profile, and an answer for the old profile that arrives after
\* the switch (market_discovery_gamma.rs 175, main.rs 2261, app.rs 2387). A profile that is
\* chosen again is left out: its market was emitted already and is not sent again.
ChosenOnce == left.preset # None /\ left.preset \notin left.profiles
Current == /\ app.market # None /\ now < app.market.closes
           /\ SlugOf(app.profile, app.market.slug.key) = app.market.slug
MarketShown == <>[](ChosenOnce => app.profile # None /\ Current)

\* A market is never replaced by an earlier one of its profile: a roll leads forward, also
\* while Gamma still calls the window that ended open
\* (market_discovery_gamma.rs 3-8, gamma.rs 252, app.rs 1906).
SameProfile(a, b) == a.slug.asset = b.slug.asset /\ a.slug.timeframe = b.slug.timeframe
RollsForward ==
  [][(app.market # None /\ app'.market # None /\ SameProfile(app.market, app'.market))
       => app.market.closes <= app'.market.closes]_vars

\* When the exchange is quiet the books shown are those of the exchange for both tokens
\* of the shown market, through changes, reconnects, rolls and a switch of profile
\* (clob_ws.rs, market_data_coalescer.rs, main.rs 2244, app.rs 1857).
BooksAreExchange(t) == t \in DOMAIN app.books /\ app.books[t] = Book(t)
BooksFollow ==
  <>[]("clob" \in left.reach /\ app.market # None => \A t \in Pair(app.market) : BooksAreExchange(t))

\* The holders' sums that are shown with a market are that market's: the event carries no
\* market, so an old poll must not send after the roll (main.rs 2268, 2573, app.rs 2043).
HoldersOfShown == app.market # None /\ app.holders # None => app.holders = app.market.slug

\* The server of the user channel ends up with exactly the markets the program needs: the
\* shown one and those of trailing sessions (clob_user_ws.rs 458).
UserChannelFollows ==
  <>[]("user" \in left.reach
         => session.server = {t.slug : t \in Pair(app.market) \cup app.trailing})

\* The spot price ends up as the chosen asset's, whatever ticks of the old one were on
\* their way (chainlink.rs, main.rs 3210).
SpotFollows ==
  <>[]("spot" \in left.reach /\ app.profile # None => app.spot = app.profile.asset)

\* A run with one choice ends up with the price to beat the site answers, within the
\* noise that is ignored, and a failed answer takes none away
\* (market_discovery_gamma.rs 27, 60, app.rs 1960).
PriceToBeatFollows ==
  <>[](left.profiles = {} /\ app.market # None => PriceClose(app.market.ptb, gamma.price))
===============================================================================
