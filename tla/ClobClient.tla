------------------------------ MODULE ClobClient ------------------------------
(* TradingClient of src/src/trading.rs: concurrent callers share one set of API
   credentials, post and cancel orders, list them page by page, and wait for the user
   channel to report a fill.

   The exchange is external: it knows one API key, keeps the open orders in a list that
   is served in pages by offset, caches the balances, and may lose any answer.  A caller
   is one task of the program; it makes the one call Scripts gives it. *)
EXTENDS OrderSign, SequencesExt

CONSTANTS
  Callers,
  Scripts,       \* who calls what, from which type of wallet, with which orders open
  PageSize,      \* rows in a page of the exchange's lists
  LimitTries,    \* LIMIT_ORDER_MAX_ATTEMPTS
  SellTries,     \* SELL_ORDER_PREP_SETTLE_MS.len()
  MaxFaults,     \* answers that may be lost, or refused for no reason
  None

ASSUME ClobClientAssumption ==
  /\ PageSize \in Nat \ {0} /\ LimitTries \in Nat \ {0} /\ SellTries \in Nat \ {0}
  /\ MaxFaults \in Nat /\ None \notin Callers \cup {"ok", "no_creds", "bad_signature"}
  /\ \A s \in Scripts : DOMAIN s.calls = Callers /\ s.sigType \in SigTypes

\* An order of this program: its caller, the attempt and the POST in it.
OrderIds == Callers \X Nat \X Nat

\* The list of open orders is a list, and the orders a script names are older than its calls.
ASSUME OlderOrdersAssumption ==
  \A s \in Scripts :
    /\ s.resting \in Seq(Range(s.resting)) /\ Range(s.resting) \cap OrderIds = {}
    /\ \A u \in Callers : s.calls[u].order \notin OrderIds

VARIABLES
  script,
  sigType,
  creds,      \* TradingState.creds is set
  lock,       \* creds_derive_lock: who holds it
  task,       \* what each caller is doing, see Idle
  pending,    \* FillWaitRegistry: the waiters that are registered, by order
  exchange

vars == <<script, sigType, creds, lock, task, pending, exchange>>

Held == 2     \* shares of the token in the wallet

Idle == [at |-> "idle", tries |-> 0, posts |-> 0, answer |-> None, result |-> None,
         faults |-> 0, used |-> 0, page |-> 0, got |-> <<>>, began |-> <<>>, moved |-> FALSE]

Init ==
  /\ creds = FALSE /\ lock = None /\ pending = {}
  /\ task = [u \in Callers |-> Idle]
  /\ \E s \in Scripts :
       /\ script = s.calls /\ sigType = s.sigType
       /\ exchange \in [key : BOOLEAN, settled : BOOLEAN, open : {s.resting}, trades : {<<>>}, hashes : {{}},
                        orders : {{}}, frames : {{}}, filled : {<<>>}, faults : {MaxFaults}]

Call(u) == script[u]
At(u, where) == task[u].at = where
Goes(u, where) == task' = [task EXCEPT ![u].at = where]
Ends(u, result) == task' = [task EXCEPT ![u].at = "done", ![u].result = result]

\* Every request may be refused without a reason, or its answer lost (a timeout of 15 s).
CanFail == exchange.faults > 0
Fault(u, t) == [t EXCEPT ![u].faults = @ + 1]
Spent(x) == [x EXCEPT !.faults = @ - 1]
Posts == {"buy", "sell", "limit_buy", "limit_sell"}

-------------------------------------------------------------------------------
(* ensure_creds. *)

Begin(u) ==
  /\ At(u, "idle")
  /\ CASE Call(u).kind = "cancel" /\ Call(u).order = None -> Ends(u, "bad_args")
       [] Call(u).kind = "debug" -> Goes(u, "derive")
       [] OTHER -> Goes(u, "creds")
  /\ UNCHANGED <<script, sigType, creds, lock, pending, exchange>>

Creds(u) ==
  /\ At(u, "creds")
  /\ Goes(u, IF creds THEN "ready" ELSE "lock")
  /\ UNCHANGED <<script, sigType, creds, lock, pending, exchange>>

\* mutant of Serialises
SerialisesNothing == TRUE
\* creds_derive_lock is free.
Serialises == lock = None
Lock(u) ==
  /\ At(u, "lock")
  /\ Serialises
  /\ IF creds THEN Goes(u, "ready") /\ UNCHANGED lock
     ELSE Goes(u, "derive") /\ lock' = u
  /\ UNCHANGED <<script, sigType, creds, pending, exchange>>

\* `polymarket-crypto debug-auth` is a process of its own: no lock, no cache.
Shares(u) == Call(u).kind # "debug"

\* mutant of Released
ReleasedOnSuccess(u, ok) == IF Shares(u) /\ lock = u /\ ok THEN None ELSE lock
Released(u, ok) == IF Shares(u) /\ lock = u THEN None ELSE lock

HasCreds(u) ==
  /\ creds' = (creds \/ Shares(u))
  /\ lock' = Released(u, TRUE)
  /\ IF Shares(u) THEN Goes(u, "ready") ELSE Ends(u, "ok")

NoCreds(u, t) ==
  /\ task' = [t EXCEPT ![u].at = "done", ![u].result = "no_creds"]
  /\ lock' = Released(u, FALSE)
  /\ UNCHANGED creds

\* GET /auth/derive-api-key
Derive(u) ==
  /\ At(u, "derive") /\ AuthVerifies(ClobAuth("eoa"))
  /\ \/ exchange.key /\ HasCreds(u) /\ UNCHANGED exchange
     \/ ~exchange.key /\ Goes(u, "create") /\ UNCHANGED <<creds, lock, exchange>>
  /\ UNCHANGED <<script, sigType, pending>>

DeriveFails(u) ==
  /\ At(u, "derive") /\ CanFail
  /\ \/ task' = Fault(u, [task EXCEPT ![u].at = "create"]) /\ UNCHANGED <<creds, lock>>
     \/ NoCreds(u, Fault(u, task))
  /\ exchange' = Spent(exchange)
  /\ UNCHANGED <<script, sigType, pending>>

\* POST /auth/api-key: refused when there is a key.
Create(u) ==
  /\ At(u, "create") /\ AuthVerifies(ClobAuth("eoa"))
  /\ IF exchange.key THEN NoCreds(u, task) /\ UNCHANGED exchange
     ELSE HasCreds(u) /\ exchange' = [exchange EXCEPT !.key = TRUE]
  /\ UNCHANGED <<script, sigType, pending>>

CreateFails(u) ==
  /\ At(u, "create") /\ CanFail
  /\ NoCreds(u, Fault(u, task))
  /\ \E key \in {exchange.key, TRUE} : exchange' = Spent([exchange EXCEPT !.key = key])
  /\ UNCHANGED <<script, sigType, pending>>

-------------------------------------------------------------------------------
(* place_order. *)

IsSell(call) == call.kind \in {"sell", "limit_sell"}
IsLimit(call) == call.kind \in {"limit_buy", "limit_sell"}     \* GTD, place_limit_with_retries

\* sell_post_attempt_limit.
Attempts(call) ==
  CASE ~IsSell(call) -> 1
    [] IsSell(call) /\ ~IsLimit(call) -> 2
    [] IsSell(call) /\ IsLimit(call) /\ call.fast -> 3
    [] IsSell(call) /\ IsLimit(call) /\ ~call.fast -> SellTries

\* A GTD order has an expiration and no other has one, and both amounts are positive.
BadArgs(call) == \/ IsLimit(call) # (call.expiration # 0)
                 \/ 0 \in {call.amounts[1], call.amounts[2]}

\* The salt is random: no two attempts share one.
Body(u) ==
  LET call == Call(u)
      args == [token |-> "token", amounts |-> call.amounts, negRisk |-> call.negRisk,
               side |-> IF IsSell(call) THEN "SELL" ELSE "BUY"]
  IN  Wire(sigType, args, <<u, task[u].tries, task[u].posts>>, call.expiration)

Refuse(u) ==
  /\ At(u, "ready") /\ Call(u).kind \in Posts
  /\ BadArgs(Call(u))
  /\ Goes(u, "refused")
  /\ UNCHANGED <<script, sigType, creds, lock, pending, exchange>>

\* What the exchange makes of a POST that reaches it: the order is filled by trades and
\* rests, when it is a limit order, with what is left.
OrderId(u) == <<u, task[u].tries, task[u].posts>>
Leg(id, size) == [order |-> id, size |-> size]
Frame(taker, size, makers) == [taker |-> taker, size |-> size, makers |-> makers]
Fills == {<<>>, <<1>>, <<1, 1>>, <<2>>}
Total(fills) == FoldSeq(+, 0, fills)
\* n shares of order id are filled.
Fill(filled, id, n) == [o \in DOMAIN filled \cup {id} |-> IF o = id THEN n ELSE filled[o]]

Accept(u, fills) ==
  LET id == OrderId(u)
  IN  exchange' =
        [exchange EXCEPT
           !.hashes = @ \cup {Hash(Body(u).order)},
           !.orders = @ \cup {id},
           !.open = IF IsLimit(Call(u)) /\ Total(fills) < Held THEN Append(@, id) ELSE @,
           !.trades = IF fills = <<>> THEN @ ELSE Append(@, id),
           !.filled = Fill(@, id, Total(fills)),
           !.frames = @ \cup {Frame(id, fills[k], <<Leg(<<"other", k>>, fills[k])>>) : k \in DOMAIN fills}]

Answered(t, u, answer) == [t EXCEPT ![u].at = "answered", ![u].answer = answer, ![u].posts = @ + 1]
\* The lists other callers are reading move when an order joins or leaves them.
Moves(t) == [v \in Callers |-> [t[v] EXCEPT !.moved = @ \/ t[v].at = "page"]]

CanPost(u) == At(u, "ready") /\ Call(u).kind \in Posts /\ ~BadArgs(Call(u))
Valid(u) == Verifies(Body(u), Call(u).negRisk) /\ Hash(Body(u).order) \notin exchange.hashes
Backed(u) == IsSell(Call(u)) => exchange.settled

PostAccepted(u) ==
  /\ CanPost(u) /\ Valid(u) /\ Backed(u)
  /\ \E fills \in {f \in Fills : IsLimit(Call(u)) \/ f # <<>>} :
       /\ Accept(u, fills)
       /\ task' = Moves(Answered(task, u, [says |-> "ok", filled |-> Total(fills)]))
  /\ UNCHANGED <<script, sigType, creds, lock, pending>>

PostRefused(u) ==
  /\ CanPost(u) /\ ~(Valid(u) /\ Backed(u))
  /\ task' = Answered(task, u, [says |-> IF Valid(u) THEN "balance" ELSE "bad_signature", filled |-> 0])
  /\ UNCHANGED <<script, sigType, creds, lock, pending, exchange>>

\* No answer: the order may have been accepted, and an accepted FAK has been filled.
PostLost(u) ==
  /\ CanPost(u) /\ CanFail
  /\ LET t == Fault(u, Answered(task, u, [says |-> "lost", filled |-> 0]))
     IN  \/ task' = t /\ exchange' = Spent(exchange)
         \/ /\ Valid(u) /\ Backed(u)
            /\ LET id == OrderId(u)
               IN  exchange' = Spent([exchange EXCEPT
                     !.hashes = @ \cup {Hash(Body(u).order)},
                     !.orders = @ \cup {id},
                     !.open = IF IsLimit(Call(u)) THEN Append(@, id) ELSE @,
                     !.filled = Fill(@, id, IF IsLimit(Call(u)) THEN 0 ELSE Held)])
            /\ task' = Moves(t)
  /\ UNCHANGED <<script, sigType, creds, lock, pending>>

\* balance_allowance_error_text, and an attempt is left: POST again, at once.
\* mutant of PostsAgain
PostsAgainOnAnyError(u) == /\ IsSell(Call(u)) /\ task[u].posts < Attempts(Call(u))
                           /\ task[u].answer.says # "ok"
PostsAgain(u) == /\ IsSell(Call(u)) /\ task[u].posts < Attempts(Call(u))
                 /\ task[u].answer.says = "balance"
PostAgain(u) ==
  /\ At(u, "answered")
  /\ PostsAgain(u)
  /\ Goes(u, "ready")
  /\ UNCHANGED <<script, sigType, creds, lock, pending, exchange>>

\* A limit order is placed again after any failure, a FAK never.
Returned(u) == \/ At(u, "refused")
               \/ At(u, "answered") /\ ~PostsAgain(u) /\ task[u].answer.says # "ok"
PlacesAgain(u) == IsLimit(Call(u)) /\ task[u].tries + 1 < LimitTries

PlaceAgain(u) ==
  /\ Returned(u) /\ PlacesAgain(u)
  /\ task' = [task EXCEPT ![u].at = "creds", ![u].tries = @ + 1, ![u].posts = 0]
  /\ UNCHANGED <<script, sigType, creds, lock, pending, exchange>>

PlaceFails(u) ==
  /\ Returned(u) /\ ~PlacesAgain(u)
  /\ Ends(u, IF At(u, "refused") THEN "bad_args" ELSE task[u].answer.says)
  /\ UNCHANGED <<script, sigType, creds, lock, pending, exchange>>

-------------------------------------------------------------------------------
(* The wait for the fill: take profit and trailing stop size their SELL with it. *)

Posted(u) == [order |-> <<u, task[u].tries, task[u].posts - 1>>, waiter |-> u]

\* The estimate of the answer stands until the user channel says better.
Placed(u) ==
  /\ At(u, "answered") /\ task[u].answer.says = "ok"
  /\ LET waits == Call(u).waits /\ ~IsSell(Call(u)) /\ task[u].answer.filled > 0
     IN  /\ task' = [task EXCEPT ![u].used = @ + task[u].answer.filled,
                                 ![u].at = IF waits THEN "wait" ELSE "done",
                                 ![u].result = IF waits THEN @ ELSE "ok"]
         /\ pending' = IF waits THEN pending \cup {Posted(u)} ELSE pending
  /\ UNCHANGED <<script, sigType, creds, lock, exchange>>

\* USER_WS_TP_FILL_WAIT; the registry keeps the entry.
WaitTimesOut(u) ==
  /\ At(u, "wait")
  /\ Ends(u, "ok")
  /\ UNCHANGED <<script, sigType, creds, lock, pending, exchange>>

\* mutant of LegsOf
LegsOfTrade(f) == {Leg(id, f.size) : id \in {f.taker} \cup {m.order : m \in Range(f.makers)}}
\* dispatch_trade_value: the taker's leg with the size of the trade, every maker's with its own.
LegsOf(f) == {Leg(f.taker, f.size)} \cup Range(f.makers)

\* A trade that is MINED is reported; the report may come before the answer.
Report(f) ==
  /\ f \in exchange.frames
  /\ LET Legs(w) == {l \in LegsOf(f) : l.order = w.order}
         woken == {w \in pending : Legs(w) # {}}
     IN  /\ pending' = pending \ woken
         /\ task' = [u \in Callers |->
              IF At(u, "wait") /\ \E w \in woken : w.waiter = u
              THEN LET w == CHOOSE w \in woken : w.waiter = u
                   IN  [task[u] EXCEPT !.at = "done", !.result = "ok",
                                       !.used = (CHOOSE l \in Legs(w) : TRUE).size]
              ELSE task[u]]
  /\ exchange' = [exchange EXCEPT !.frames = @ \ {f}]
  /\ UNCHANGED <<script, sigType, creds, lock>>

\* The list without the orders ids (SelectSeq, which no prover can expand).
Remaining(list, ids) ==
  LET kept[n \in 0 .. Len(list)] ==
        IF n = 0 THEN <<>>
        ELSE IF list[n] \in ids THEN kept[n - 1] ELSE Append(kept[n - 1], list[n])
  IN  kept[Len(list)]

\* A resting order is filled by a trade of somebody else, next to another maker's order.
MakerMatch(id) ==
  /\ id \in Range(exchange.open)
  /\ LET rest == IF id \in DOMAIN exchange.filled THEN Held - exchange.filled[id] ELSE Held
     IN  exchange' = [exchange EXCEPT
           !.open = Remaining(@, {id}),
           !.filled = Fill(@, id, Held),
           !.frames = @ \cup {Frame(<<"other", 0>>, Held + 1, 
             <<Leg(<<"other", 1>>, Held + 1 - rest), Leg(id, rest)>>)}]
  /\ task' = Moves(task)
  /\ UNCHANGED <<script, sigType, creds, lock, pending>>

-------------------------------------------------------------------------------
(* The other requests. *)

\* GET /balance-allowance/update: the exchange reads the balance again.
Warms(kind) == kind \in {"warm", "load", "startup"}
Warmed(x) == [x EXCEPT !.settled = TRUE]
AfterWarm(u) == IF Call(u).kind = "load" THEN "read" ELSE "done"

Warm(u) ==
  /\ At(u, "ready") /\ Warms(Call(u).kind)
  /\ task' = [task EXCEPT ![u].at = AfterWarm(u), ![u].result = IF Call(u).kind = "load" THEN @ ELSE "ok"]
  /\ exchange' = Warmed(exchange)
  /\ UNCHANGED <<script, sigType, creds, lock, pending>>

\* prewarm_order_context goes on when the exchange does not answer.
WarmFails(u) ==
  /\ At(u, "ready") /\ Warms(Call(u).kind) /\ CanFail
  /\ LET t == Fault(u, task)
     IN  task' = [t EXCEPT ![u].at = AfterWarm(u), ![u].result = IF Call(u).kind = "load" THEN @ ELSE "lost"]
  /\ exchange' = Spent(exchange)
  /\ UNCHANGED <<script, sigType, creds, lock, pending>>

\* GET /balance-allowance, out of the exchange's cache.
ReadBalance(u) ==
  /\ At(u, "read")
  /\ task' = [task EXCEPT ![u].at = "done", ![u].result = "ok",
                          ![u].used = IF exchange.settled THEN Held ELSE 0]
  /\ UNCHANGED <<script, sigType, creds, lock, pending, exchange>>

ReadFails(u) ==
  /\ At(u, "read") /\ CanFail
  /\ LET t == Fault(u, task) IN task' = [t EXCEPT ![u].at = "done", ![u].result = "lost"]
  /\ exchange' = Spent(exchange)
  /\ UNCHANGED <<script, sigType, creds, lock, pending>>

\* GET /data/orders and GET /data/trades: page after page until the last cursor.
Rows(kind) == IF kind = "trades" THEN exchange.trades ELSE exchange.open
Lists(u) == Call(u).kind \in {"orders", "trades"}
Listing(u) == At(u, "page") \/ (At(u, "ready") /\ Lists(u))
\* mutant of LastPage
FirstIsLastPage(s, n) == TRUE
LastPage(s, n) == n + PageSize >= Len(s)
PageOf(s, n) == SubSeq(s, n + 1, IF n + PageSize >= Len(s) THEN Len(s) ELSE n + PageSize)

Page(u) ==
  /\ Listing(u)
  /\ LET rows == Rows(Call(u).kind)
         from == task[u].page
         first == At(u, "ready")
     IN  task' = [task EXCEPT
           ![u].got = @ \o PageOf(rows, from),
           ![u].page = @ + PageSize,
           ![u].began = IF first THEN rows ELSE @,
           ![u].at = IF LastPage(rows, from) THEN "done" ELSE "page",
           ![u].result = IF LastPage(rows, from) THEN "ok" ELSE @]
  /\ UNCHANGED <<script, sigType, creds, lock, pending, exchange>>

\* One page that fails fails the whole list.
PageFails(u) ==
  /\ Listing(u) /\ CanFail
  /\ LET t == Fault(u, task)
     IN  task' = [t EXCEPT ![u].at = "done", ![u].result = "lost", ![u].got = <<>>]
  /\ exchange' = Spent(exchange)
  /\ UNCHANGED <<script, sigType, creds, lock, pending>>

Without(ids) == [exchange EXCEPT !.open = Remaining(@, ids)]
Open == Range(exchange.open)

\* DELETE /order: canceled, or not canceled with a reason, which may be that a match of
\* the order is under way.
CancelSays(answer) == IF answer = "not_canceled" THEN "not_canceled" ELSE "ok"
Cancel(u) ==
  /\ At(u, "ready") /\ Call(u).kind = "cancel"
  /\ \E answer \in IF Call(u).order \in Open THEN {"canceled", "not_canceled"} ELSE {"unlisted", "not_canceled"} :
       /\ exchange' = IF answer = "canceled" THEN Without({Call(u).order}) ELSE exchange
       /\ LET t == IF answer = "canceled" THEN Moves(task) ELSE task
          IN  task' = [t EXCEPT ![u].at = "done", ![u].result = CancelSays(answer)]
  /\ UNCHANGED <<script, sigType, creds, lock, pending>>

CancelAll(u) ==
  /\ At(u, "ready") /\ Call(u).kind = "cancel_all"
  /\ exchange' = Without(Open)
  /\ LET t == Moves(task) IN task' = [t EXCEPT ![u].at = "done", ![u].result = "ok"]
  /\ UNCHANGED <<script, sigType, creds, lock, pending>>

CancelLost(u) ==
  /\ At(u, "ready") /\ Call(u).kind \in {"cancel", "cancel_all"} /\ CanFail
  /\ \E gone \in {{}, IF Call(u).kind = "cancel" THEN {Call(u).order} ELSE Open} :
       /\ exchange' = Spent(Without(gone))
       /\ LET t == Fault(u, IF gone = {} THEN task ELSE Moves(task))
          IN  task' = [t EXCEPT ![u].at = "done", ![u].result = "lost"]
  /\ UNCHANGED <<script, sigType, creds, lock, pending>>

-------------------------------------------------------------------------------
\* What the program does for one caller; the answer to a request may be a failure, but
\* one comes.
Step(u) ==
  \/ Begin(u) \/ Creds(u) \/ Lock(u) \/ Derive(u) \/ Create(u)
  \/ Refuse(u) \/ PostAccepted(u) \/ PostRefused(u) \/ PostAgain(u) \/ PlaceAgain(u) \/ PlaceFails(u)
  \/ Placed(u) \/ WaitTimesOut(u)
  \/ Warm(u) \/ ReadBalance(u) \/ Page(u) \/ Cancel(u) \/ CancelAll(u)

Fails(u) == DeriveFails(u) \/ CreateFails(u) \/ PostLost(u) \/ WarmFails(u) \/ ReadFails(u)
            \/ PageFails(u) \/ CancelLost(u)

Next ==
  \/ \E u \in Callers : Step(u) \/ Fails(u)
  \/ \E f \in exchange.frames : Report(f)
  \/ \E id \in Open : MakerMatch(id)

\* The runtime polls every task; an order is matched or reported when somebody pleases.
Spec == Init /\ [][Next]_vars /\ \A u \in Callers : WF_vars(Step(u))

-------------------------------------------------------------------------------
Done(u) == At(u, "done")

\* One intent, one order: a POST is repeated only when the exchange said it refused the
\* last one, or, a limit order, when its answer was lost.
AtMostOnce ==
  \A u \in Callers :
    LET mine == {id \in exchange.orders : id[1] = u}
    IN  Cardinality(mine) <= 1 + (IF IsLimit(Call(u)) THEN task[u].faults ELSE 0)

\* Callers that need credentials at the same time do not spoil each other's: a call that
\* ends without them met a failure, or the diagnostic ran next to it.
CredsFailWithCause ==
  (\A u \in Callers : Shares(u)) =>
    \A u \in Callers : task[u].result = "no_creds" => task[u].faults > 0

\* What is sent is what was signed: the exchange never refuses a signature, whatever the
\* wallet's type and the market's contract, nor an attempt as one it has seen.
SignedAsSent == \A u \in Callers : task[u].result # "bad_signature"

\* The shares a take profit or a trailing stop is sized with were bought by that order.
UsedWasFilled ==
  \A u \in Callers : Call(u).kind \in Posts /\ task[u].result = "ok" =>
    task[u].used <= exchange.filled[<<u, task[u].tries, task[u].posts - 1>>]

\* A load sees the shares of the wallet, a list that did not move while it was read is read
\* whole, no row twice, and an order that was cancelled does not rest.
ListingHolds ==
  \A u \in Callers : Done(u) /\ task[u].result = "ok" =>
    /\ Lists(u) /\ ~task[u].moved => task[u].got = task[u].began
    /\ Call(u).kind = "load" /\ task[u].faults = 0 => task[u].used = Held
    /\ Call(u).kind = "cancel" => Call(u).order \notin Open

\* What a call that has ended tells the program is so, whoever else calls meanwhile.
AnswersHold == CredsFailWithCause /\ UsedWasFilled /\ ListingHolds

\* No caller waits for ever, neither for the lock nor for a fill that is not reported.
CallsEnd == \A u \in Callers : <>Done(u)
===============================================================================
