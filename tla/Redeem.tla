-------------------------------- MODULE Redeem --------------------------------
(* Redeeming resolved positions: the x key and the auto-redeem of the balance panel
   start a task that reads the Data API, signs chunks of calls with the wallet's nonce
   and submits them to Polymarket's relayer; the b key submits a batch of approvals in
   the same way; `deploy-wallet` creates the wallet from a process of its own.

   External are the Data API, which lists positions late and keeps those it listed for
   a while after they were redeemed, the relayer, which executes what it accepted later
   and refuses a deposit wallet that is busy, and the chain. *)
EXTENDS Claims

CONSTANTS
  Scenarios,   \* the wallets, their positions, the keys that are pressed, the answers that are lost
  BusyTries,   \* MAX_ATTEMPTS of submit_relayer_json_retry_on_wallet_busy
  None

\* The chain knows the condition of every row and of every token of the wallet.
RowsOK(rows, payout) ==
  /\ IsFiniteSet(rows)
  /\ \A r \in rows : (r.value \in Nat \/ r.value = NotFinite) /\ (r.cond \in DOMAIN payout \/ r.cond = BadId)
PayoutOK(payout) == \A c \in DOMAIN payout : \A i \in 1..3 : payout[c][i] \in Nat
BalanceOK(balance, payout) ==
  /\ IsFiniteSet(DOMAIN balance)
  /\ \A k \in DOMAIN balance : k[1] \in DOMAIN payout /\ k \in PositionIds(k[1]) /\ balance[k] \in Nat

ASSUME RedeemAssumption ==
  /\ BusyTries \in Nat \ {0}
  /\ \A s \in Scenarios :
       /\ {"sigType", "late"} \subseteq DOMAIN s
       /\ RowsOK(s.rows, s.payout) /\ RowsOK(s.late, s.payout)
       /\ PayoutOK(s.payout) /\ BalanceOK(s.balance, s.payout)

VARIABLES
  env,       \* Config and the keys that are left: see Scenarios
  app,       \* AppState: redeem_in_flight, last_redeem_started_at
  task,      \* the spawned tasks
  poll,      \* the balance panel task and the event it has sent
  relayer,   \* what was accepted and not yet executed; the lock of the deposit wallet
  chain,
  api        \* the rows the Data API lists

vars == <<env, app, task, poll, relayer, chain, api>>

Me == "me"
Claimers == {"claim1", "claim2"}
Slots == Claimers \cup {"approvals", "deploy"}

\* A nonce is told apart only by whether it still is the wallet's next one.
NoTask == [at |-> "none", ops |-> <<>>, chunk |-> 1, nonce |-> "next", spenders |-> {}, tries |-> 0,
           tx |-> None, ok |-> FALSE]

Init ==
  \E s \in Scenarios :
    /\ env = s
    /\ app = [inFlight |-> FALSE, cooling |-> FALSE]
    /\ task = [t \in Slots |-> NoTask]
    /\ poll = [at |-> "sleep", rows |-> {}, last |-> None, due |-> TRUE, panel |-> None]
    /\ relayer = [queue |-> <<>>, busy |-> FALSE]
    /\ chain = [allowed |-> s.allowed, deployed |-> s.deployed, balance |-> s.balance,
                payout |-> s.payout, cash |-> [c \in Collaterals |-> 0]]
    /\ api = s.rows \ s.late

Wallet == env.sigType = "Poly1271"
CanFail == env.faults > 0
Fault == env' = [env EXCEPT !.faults = @ - 1]

Goes(t, where) == task' = [task EXCEPT ![t].at = where]
Ends(t, ok) == task' = [task EXCEPT ![t].at = "sent", ![t].ok = ok]

-------------------------------------------------------------------------------
(* The gate, and what starts a task. *)

\* mutant of CanRedeem
CanRedeemOnceCool == ~app.cooling
CanRedeem == ~app.inFlight /\ ~app.cooling

\* redeem_mark_in_flight and spawn_claim.
Claim ==
  /\ CanRedeem
  /\ app' = [app EXCEPT !.inFlight = TRUE, !.cooling = TRUE]
  /\ \E t \in Claimers :
       /\ task[t].at = "none" /\ (t = "claim2" => task["claim1"].at # "none")
       /\ task' = [task EXCEPT ![t] = [NoTask EXCEPT !.at = "fetch"]]

PressX ==
  /\ env.x > 0
  /\ IF CanRedeem THEN Claim ELSE UNCHANGED <<app, task>>
  /\ env' = [env EXCEPT !.x = @ - 1]
  /\ UNCHANGED <<poll, relayer, chain, api>>

PressB ==
  /\ env.b > 0 /\ task["approvals"].at = "none"
  /\ task' = [task EXCEPT !["approvals"] = [NoTask EXCEPT !.at = "nonce", !.spenders = Spenders]]
  /\ env' = [env EXCEPT !.b = @ - 1]
  /\ UNCHANGED <<app, poll, relayer, chain, api>>

Deploy ==
  /\ env.deploy > 0 /\ env.key
  /\ task' = [task EXCEPT !["deploy"] = [NoTask EXCEPT !.at = "submit"]]
  /\ env' = [env EXCEPT !.deploy = @ - 1]
  /\ UNCHANGED <<app, poll, relayer, chain, api>>

\* AUTO_REDEEM_MIN_INTERVAL has passed.
Cool ==
  /\ app.cooling
  /\ app' = [app EXCEPT !.cooling = FALSE]
  /\ UNCHANGED <<env, task, poll, relayer, chain, api>>

\* mutant of Done
DoneWhenOk(t) ==
  /\ task[t].at = "sent"
  /\ task' = [task EXCEPT ![t] = NoTask]
  /\ app' = IF t \in Claimers /\ task[t].ok THEN [app EXCEPT !.inFlight = FALSE] ELSE app
  /\ UNCHANGED <<env, poll, relayer, chain, api>>
\* RedeemDone is applied whatever the result is; the other tasks only report.
Done(t) ==
  /\ task[t].at = "sent"
  /\ task' = [task EXCEPT ![t] = NoTask]
  /\ app' = IF t \in Claimers THEN [app EXCEPT !.inFlight = FALSE] ELSE app
  /\ UNCHANGED <<env, poll, relayer, chain, api>>

-------------------------------------------------------------------------------
(* run_claim and redeem_resolved_positions. *)

Supported ==
  /\ env.key /\ env.sigType \in {"PolyGnosisSafe", "Poly1271"}
  /\ env.sigType = "PolyGnosisSafe" => env.funder = SafeOf(Me)

Fetch(t) ==
  /\ task[t].at = "fetch"
  /\ LET ops == RedeemOps(Fetched(api))
     IN IF Supported /\ ops # <<>> THEN task' = [task EXCEPT ![t].at = "check", ![t].ops = ops] ELSE Ends(t, FALSE)
  /\ UNCHANGED <<env, app, poll, relayer, chain, api>>

\* GET /deployed for a Safe; eth_getCode and the operator approvals for a deposit wallet.
Deployed == env.funder \in chain.deployed
AdaptersOf(ops) == {ops[i].adapter : i \in DOMAIN ops}
Operators == {a \in Adapters : [kind |-> "operator", target |-> "CTF", of |-> a] \in chain.allowed}
\* mutant of Missing
MissingOfFirst(ops) == {ops[1].adapter} \ Operators
Missing(ops) == AdaptersOf(ops) \ Operators

Check(t) ==
  /\ task[t].at = "check"
  /\ IF ~Deployed THEN Ends(t, FALSE)
     ELSE IF ~Wallet \/ Missing(task[t].ops) = {} THEN Goes(t, "nonce")
     ELSE task' = [task EXCEPT ![t].at = "nonce", ![t].spenders = Missing(task[t].ops)]
  /\ UNCHANGED <<env, app, poll, relayer, chain, api>>

Recheck(t) ==
  /\ task[t].at = "recheck"
  /\ IF Missing(task[t].ops) = {} THEN Goes(t, "nonce") ELSE Ends(t, FALSE)
  /\ UNCHANGED <<env, app, poll, relayer, chain, api>>

\* A request of the task fails, times out or cannot be decoded.
Fails(t) ==
  /\ task[t].at \in {"fetch", "check", "recheck", "nonce", "submit", "wait"} /\ CanFail
  /\ Ends(t, FALSE) /\ Fault
  /\ UNCHANGED <<app, poll, relayer, chain, api>>

-------------------------------------------------------------------------------
(* One submission: the nonce, the signature, the POST and its answer.  The approvals
   come in a batch that is waited for, the redeems in chunks that are not. *)

Approves(t) == task[t].spenders # {}

MayApprove == Wallet /\ env.key
Nonce(t) ==
  /\ task[t].at = "nonce"
  /\ IF Approves(t) /\ ~MayApprove THEN Ends(t, FALSE)
     ELSE task' = [task EXCEPT ![t].at = "submit", ![t].nonce = "next", ![t].tries = 0]
  /\ UNCHANGED <<env, app, poll, relayer, chain, api>>

Batch(t) ==
  IF Approves(t) THEN AllowCalls(task[t].spenders)
  ELSE RedeemCalls(ChunkOf(task[t].ops, task[t].chunk))

SafeBody(t) ==
  LET tx == SafeTx(Batch(t))
  IN [type |-> "SAFE", from |-> Me, wallet |-> env.funder, tx |-> tx, nonce |-> task[t].nonce,
      sig |-> PackSafe(SignMessage(Me, SafeDigest(env.funder, tx, task[t].nonce)))]
WalletBody(t) ==
  [type |-> "WALLET", from |-> Me, wallet |-> env.funder, tx |-> Batch(t), nonce |-> task[t].nonce,
   sig |-> SignHash(Me, BatchDigest(env.funder, Batch(t), task[t].nonce))]
CreateBody == [type |-> "WALLET-CREATE", from |-> Me]
Body(t) == CASE t = "deploy" -> CreateBody
             [] Wallet \/ Approves(t) -> WalletBody(t)
             [] OTHER -> SafeBody(t)

\* The relayer took it: wait until it is mined, go on with the next chunk, or be done.
Accepted(t) ==
  IF t \notin Claimers \/ Approves(t) THEN [task EXCEPT ![t].at = "wait", ![t].tx = "pending"]
  ELSE IF task[t].chunk = NumChunks(task[t].ops) THEN [task EXCEPT ![t].at = "sent", ![t].ok = TRUE]
  ELSE [task EXCEPT ![t].at = "nonce", ![t].chunk = @ + 1]

CallsOf(body) ==
  CASE body.type = "SAFE" -> body.tx.calls
    [] body.type = "WALLET" -> body.tx
    [] OTHER -> {}
Redeems(calls) == {c \in calls : c.kind = "redeem"}

Signed(body) ==
  CASE body.type = "SAFE" -> SafeAccepts(body.sig, Me, SafeDigest(body.wallet, body.tx, body.nonce))
    [] body.type = "WALLET" -> WalletAccepts(body.sig, Me, BatchDigest(body.wallet, body.tx, body.nonce))
    [] OTHER -> TRUE
Takes(body) == Signed(body) /\ (body.type = "WALLET" => Deployed /\ ~relayer.busy)
Queued(t, by) ==
  [relayer EXCEPT !.queue = Append(@, [type |-> Body(t).type, calls |-> CallsOf(Body(t)), nonce |-> task[t].nonce, by |-> by]),
                  !.busy = @ \/ Body(t).type = "WALLET"]

\* More than that many transactions that wait to be executed are not looked at.
MaxQueue == 3
Submits(t) == task[t].at = "submit" /\ Len(relayer.queue) < MaxQueue

Submit(t) ==
  /\ Submits(t) /\ Takes(Body(t))
  /\ relayer' = Queued(t, t)
  /\ task' = Accepted(t)
  /\ UNCHANGED <<env, app, poll, chain, api>>

\* "wallet busy", "active action": the redeem posts the same body again, the approvals do not.
TriesAgain(t) == t \in Claimers /\ ~Approves(t) /\ task[t].tries + 1 < BusyTries

\* Refused: the wallet is busy, is not there, the signature is wrong, or the nonce is old.
Refused(t) ==
  /\ Submits(t)
  /\ ~Takes(Body(t)) \/ task[t].nonce = "used"
  /\ IF Body(t).type = "WALLET" /\ relayer.busy /\ TriesAgain(t)
     THEN task' = [task EXCEPT ![t].tries = @ + 1]
     ELSE Ends(t, FALSE)
  /\ UNCHANGED <<env, app, poll, relayer, chain, api>>

\* Accepted, but the answer is lost: the task ends, the transaction does not.
Lost(t) ==
  /\ Submits(t) /\ Takes(Body(t)) /\ CanFail
  /\ relayer' = Queued(t, None) /\ Ends(t, FALSE) /\ Fault
  /\ UNCHANGED <<app, poll, chain, api>>

\* wait_relayer_transaction; Fails is the poll that is the last one, or that fails.
Wait(t) ==
  /\ task[t].at = "wait"
  /\ \/ /\ task[t].tx = "mined"
        /\ IF t \in Claimers THEN task' = [task EXCEPT ![t].at = "recheck", ![t].spenders = {}] ELSE Ends(t, TRUE)
     \/ task[t].tx = "failed" /\ Ends(t, FALSE)
  /\ UNCHANGED <<env, app, poll, relayer, chain, api>>

-------------------------------------------------------------------------------
(* The relayer, the chain and the Data API. *)

\* The tokens of a condition are burnt for their payout.
Payout(conds) ==
  LET burnt == {k \in DOMAIN chain.balance : k[1] \in conds /\ chain.balance[k] > 0}
  IN [chain EXCEPT
       !.balance = [k \in DOMAIN chain.balance |-> IF k \in burnt THEN 0 ELSE chain.balance[k]],
       !.cash["pUSD"] = @ + MapThenSumSet(LAMBDA k : Pays(k, chain.payout[k[1]], chain.balance[k]), burnt)]

\* The wallet checks the nonce; an adapter that is not approved, or a condition that is not
\* reported yet, reverts everything.
Executes(tx) ==
  \/ tx.type = "WALLET-CREATE"
  \/ /\ tx.nonce = "next"
     /\ \A c \in Redeems(tx.calls) : c.target \in Operators /\ Reported(chain.payout[c.of])
Executed(tx) ==
  IF tx.type = "WALLET-CREATE" THEN [chain EXCEPT !.deployed = @ \cup {WalletOf(Me)}]
  ELSE [Payout({c.of : c \in Redeems(tx.calls)}) EXCEPT !.allowed = @ \cup (tx.calls \ Redeems(tx.calls))]

Reports(tasks, tx, state) ==
  IF tx.by # None /\ tasks[tx.by].at = "wait" THEN [tasks EXCEPT ![tx.by].tx = state] ELSE tasks

\* With it the nonce that the others have read, or are signed with, is used up.
Mine ==
  /\ relayer.queue # <<>>
  /\ LET tx == Head(relayer.queue)
         waiting == Tail(relayer.queue)
         uses == Executes(tx) /\ tx.type # "WALLET-CREATE"
     IN /\ chain' = IF Executes(tx) THEN Executed(tx) ELSE chain
        /\ task' = Reports(IF uses THEN [t \in Slots |-> IF task[t].at = "submit" THEN [task[t] EXCEPT !.nonce = "used"] ELSE task[t]]
                           ELSE task, tx, IF Executes(tx) THEN "mined" ELSE "failed")
        /\ relayer' = [relayer EXCEPT !.queue = IF uses THEN [i \in DOMAIN waiting |-> [waiting[i] EXCEPT !.nonce = "used"]]
                                               ELSE waiting]
  /\ UNCHANGED <<env, app, poll, api>>

\* Out of gas, past its deadline, reverted for another reason.
MineFails ==
  /\ relayer.queue # <<>> /\ CanFail
  /\ task' = Reports(task, Head(relayer.queue), "failed")
  /\ relayer' = [relayer EXCEPT !.queue = Tail(@)]
  /\ Fault
  /\ UNCHANGED <<app, poll, chain, api>>

Unlock ==
  /\ relayer.busy /\ relayer.queue = <<>>
  /\ relayer' = [relayer EXCEPT !.busy = FALSE]
  /\ UNCHANGED <<env, app, task, poll, chain, api>>

Lists ==
  /\ env.late # {}
  /\ api' = api \cup env.late
  /\ env' = [env EXCEPT !.late = {}]
  /\ UNCHANGED <<app, task, poll, relayer, chain>>

Redeemed(row) == ~\E k \in DOMAIN chain.balance : k[1] = row.cond /\ chain.balance[k] > 0
Drops ==
  /\ \E r \in api : r.cond # BadId /\ Redeemed(r)
  /\ api' = {r \in api : r.cond = BadId \/ ~Redeemed(r)}
  /\ UNCHANGED <<env, app, task, poll, relayer, chain>>

-------------------------------------------------------------------------------
(* The balance panel: cash on every tick, the claimable amount when it is due, and the
   auto-redeem of the event loop. *)

PollRows ==
  /\ poll.at = "sleep"
  /\ poll' = [poll EXCEPT !.at = "chain", !.rows = IF poll.due THEN Fetched(api) ELSE {}]
  /\ UNCHANGED <<env, app, task, relayer, chain, api>>

\* The Data API fails: there is nothing to claim, and the panel says so.
PollRowsFails ==
  /\ poll.at = "sleep" /\ poll.due /\ CanFail
  /\ poll' = [poll EXCEPT !.at = "chain", !.rows = {}]
  /\ Fault
  /\ UNCHANGED <<app, task, relayer, chain, api>>

Panel(failed) ==
  IF poll.due THEN [cash |-> Cash(chain, failed), claimable |-> Claimable(poll.rows, chain, failed),
                    refreshed |-> TRUE]
  ELSE [cash |-> Cash(chain, {}), claimable |-> poll.last, refreshed |-> FALSE]

PollChain ==
  /\ poll.at = "chain"
  /\ poll' = [poll EXCEPT !.at = "sent", !.last = Panel({}).claimable, !.due = FALSE, !.panel = Panel({})]
  /\ UNCHANGED <<env, app, task, relayer, chain, api>>

\* One call of the multicall fails; or the whole request does, and nothing is sent.
PollChainFails ==
  /\ poll.at = "chain" /\ CanFail
  /\ \/ /\ poll.due
        /\ \E call \in Calls(poll.rows) :
             poll' = [poll EXCEPT !.at = "sent", !.last = Panel({call}).claimable, !.due = FALSE,
                                  !.panel = Panel({call})]
     \/ poll' = [poll EXCEPT !.at = "sleep", !.rows = {}]
  /\ Fault
  /\ UNCHANGED <<app, task, relayer, chain, api>>

Due ==
  /\ poll.at = "sleep" /\ ~poll.due
  /\ poll' = [poll EXCEPT !.due = TRUE]
  /\ UNCHANGED <<env, app, task, relayer, chain, api>>

AutoRedeems(panel) == panel.refreshed /\ env.auto /\ panel.claimable >= Threshold

\* BalancePanelLoaded, then maybe_spawn_auto_redeem.
PanelLoaded ==
  /\ poll.at = "sent"
  /\ IF AutoRedeems(poll.panel) /\ CanRedeem THEN Claim ELSE UNCHANGED <<app, task>>
  /\ poll' = [poll EXCEPT !.at = "sleep", !.rows = {}, !.panel = None]
  /\ UNCHANGED <<env, relayer, chain, api>>

-------------------------------------------------------------------------------
TaskStep(t) ==
  Fetch(t) \/ Check(t) \/ Recheck(t) \/ Nonce(t) \/ Submit(t) \/ Refused(t) \/ Wait(t) \/ Done(t)
World == Mine \/ Unlock \/ Lists \/ Drops \/ Cool \/ Due
Balance == PollRows \/ PollChain \/ PanelLoaded

Next ==
  \/ PressX \/ PressB \/ Deploy
  \/ \E t \in Slots : TaskStep(t) \/ Fails(t) \/ Lost(t)
  \/ MineFails \/ World
  \/ Balance \/ PollRowsFails \/ PollChainFails

Fairness ==
  /\ \A t \in Slots : WF_vars(TaskStep(t))
  /\ WF_vars(Mine) /\ WF_vars(Unlock) /\ WF_vars(Lists) /\ WF_vars(Drops) /\ WF_vars(Cool) /\ SF_vars(Due)
  /\ WF_vars(Balance)

Spec == Init /\ [][Next]_vars /\ Fairness
-------------------------------------------------------------------------------
(* Properties. *)

Running(t) == task[t].at # "none"

\* redeem_in_flight is set from the moment a claim is spawned until its RedeemDone is
\* applied, so that the key and the balance panel never have two claims at work, which
\* would sign with one nonce.
OneRedeem ==
  /\ app.inFlight <=> \E t \in Claimers : Running(t)
  /\ \A t, u \in Claimers : Running(t) /\ Running(u) => t = u

\* No batch of redeems is submitted for a deposit wallet that has not yet allowed the
\* adapters of all its calls: it would be reverted as a whole.
ApprovedFirst ==
  \A i \in DOMAIN relayer.queue :
    LET tx == relayer.queue[i]
    IN tx.type = "WALLET" => {c.target : c \in Redeems(tx.calls)} \subseteq Operators

\* The claimable amount that the panel reads by a multicall of which every call succeeded is
\* at least what the chain pays for the tokens of the rows it read, whatever value the Data
\* API gives them; a failed call (PollChainFails) may make it less.
PaidOut(rows) ==
  MapThenSumSet(LAMBDA k : Pays(k, chain.payout[k[1]], chain.balance[k]),
                {k \in DOMAIN chain.balance : \E r \in Standard(rows) : r.asset = k /\ r.cond = k[1]})
PanelCovers ==
  [][PollChain /\ poll.due => poll'.panel.claimable >= PaidOut(poll.rows)]_vars

\* A claim ends, and the gate opens again, whatever the relayer, the Data API and the
\* chain answer.
GateReleased == app.inFlight ~> ~app.inFlight

\* With auto-trading on, all that can be redeemed is redeemed in the end: a chunk whose
\* nonce was taken, a claim that failed and a position that was listed late are found
\* again by the balance panel.
CanBeRedeemed ==
  /\ env.key
  /\ \/ env.sigType = "PolyGnosisSafe" /\ env.funder = SafeOf(Me)
     \/ Wallet /\ env.funder = WalletOf(Me)
Worthwhile == {r.cond : r \in {s \in env.rows : s.redeemable /\ s.value >= Threshold}}
AllRedeemed ==
  env.auto /\ CanBeRedeemed =>
    <>[](env.funder \in chain.deployed => \A k \in DOMAIN chain.balance : k[1] \in Worthwhile => chain.balance[k] = 0)
===============================================================================
