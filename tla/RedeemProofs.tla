----------------------------- MODULE RedeemProofs -----------------------------
(* Proofs about Redeem for every set of scenarios, every chunk size and any number of
   retries: there is one claim at a time, and redeem_in_flight tells whether there is; a
   deposit wallet approves an adapter before it redeems through it; the panel's claimable
   amount leaves nothing out that the chain pays for. *)
EXTENDS Redeem, FiniteSetTheorems, NaturalsInduction, SequenceTheorems, WellFoundedInduction, TLAPS

(* A task is a record with the fields of NoTask. *)
Fields == {"at", "ops", "chunk", "nonce", "spenders", "tries", "tx", "ok"}
TaskFields(x) == x = [f \in Fields |-> x[f]]

TaskShape == task = [t \in Slots |-> task[t]] /\ \A t \in Slots : TaskFields(task[t])
AppShape == app = [inFlight |-> app.inFlight, cooling |-> app.cooling] /\ app.inFlight \in BOOLEAN
Shape == TaskShape /\ AppShape

GateInv == Shape /\ OneRedeem

LEMMA SlotsOf == Claimers \subseteq Slots /\ "claim1" \in Claimers /\ "claim2" \in Claimers
                 /\ "approvals" \notin Claimers /\ "deploy" \notin Claimers
  BY DEF Slots, Claimers

LEMMA NoTaskShape == TaskFields(NoTask) /\ NoTask.at = "none"
  BY DEF TaskFields, Fields, NoTask

\* A step that neither starts nor ends a claim.
LEMMA Unmoved ==
  ASSUME GateInv, app'.inFlight = app.inFlight, Shape',
         \A t \in Claimers : task'[t].at = "none" <=> task[t].at = "none"
  PROVE  GateInv'
  BY DEF GateInv, OneRedeem, Running

\* The changes of one task.
LEMMA Change ==
  ASSUME TaskShape, NEW t \in Slots, NEW x, TaskFields(x), task' = [task EXCEPT ![t] = x]
  PROVE  TaskShape' /\ task'[t] = x /\ \A u \in Slots : u # t => task'[u] = task[u]
  BY DEF TaskShape

\* A task that runs goes on, or ends with an answer, and the gate stays as it is.
LEMMA GoesOn ==
  ASSUME GateInv, NEW t \in Slots, task[t].at # "none", UNCHANGED app,
         NEW x, TaskFields(x), x.at # "none", task' = [task EXCEPT ![t] = x]
  PROVE  GateInv'
<1>1. TaskShape' /\ task'[t] = x /\ \A u \in Slots : u # t => task'[u] = task[u]
  BY Change DEF GateInv, Shape
<1>2. Shape'
  BY <1>1 DEF GateInv, Shape, AppShape
<1>3. \A u \in Claimers : task'[u].at = "none" <=> task[u].at = "none"
  BY <1>1, SlotsOf
<1> QED BY <1>2, <1>3, Unmoved

LEMMA GoesOK ==
  ASSUME GateInv, NEW t \in Slots, task[t].at # "none", UNCHANGED app, NEW where, where # "none", Goes(t, where)
  PROVE  GateInv'
<1> DEFINE x == [task[t] EXCEPT !.at = where]
<1>1. TaskFields(x) /\ x.at = where /\ task' = [task EXCEPT ![t] = x]
  BY DEF Goes, GateInv, Shape, TaskShape, TaskFields, Fields
<1> QED BY <1>1, GoesOn

LEMMA EndsOK ==
  ASSUME GateInv, NEW t \in Slots, task[t].at # "none", UNCHANGED app, NEW ok, Ends(t, ok)
  PROVE  GateInv'
<1> DEFINE x == [task[t] EXCEPT !.at = "sent", !.ok = ok]
<1>1. TaskFields(x) /\ x.at = "sent" /\ task' = [task EXCEPT ![t] = x]
  BY DEF Ends, GateInv, Shape, TaskShape, TaskFields, Fields
<1> QED BY <1>1, GoesOn

\* Nothing of the gate or the tasks changes.
LEMMA StandsStill ==
  ASSUME GateInv, UNCHANGED <<app, task>>
  PROVE  GateInv'
  BY DEF GateInv, Shape, TaskShape, AppShape, OneRedeem, Running

\* The relayer marks nonces as used and reports what became of a transaction.
LEMMA Marked ==
  ASSUME GateInv, UNCHANGED app, TaskShape', \A t \in Slots : task'[t].at = task[t].at
  PROVE  GateInv'
<1>1. Shape'
  BY DEF GateInv, Shape, AppShape
<1> QED BY <1>1, SlotsOf, Unmoved

-------------------------------------------------------------------------------
(* The gate. *)

LEMMA ClaimOK ==
  ASSUME GateInv, Claim
  PROVE  GateInv'
<1>1. PICK t \in Claimers : /\ task[t].at = "none"
                            /\ task' = [task EXCEPT ![t] = [NoTask EXCEPT !.at = "fetch"]]
  BY DEF Claim
<1> DEFINE x == [NoTask EXCEPT !.at = "fetch"]
<1>2. TaskFields(x) /\ x.at = "fetch"
  BY DEF TaskFields, Fields, NoTask
<1>3. TaskShape' /\ task'[t] = x /\ \A u \in Slots : u # t => task'[u] = task[u]
  BY <1>1, <1>2, SlotsOf, Change DEF GateInv, Shape
<1>4. app.inFlight = FALSE /\ \A u \in Claimers : task[u].at = "none"
  BY DEF Claim, CanRedeem, GateInv, OneRedeem, Running, Shape, AppShape
<1>5. app' = [app EXCEPT !.inFlight = TRUE, !.cooling = TRUE]
  BY DEF Claim
<1>6. AppShape' /\ app'.inFlight = TRUE
  BY <1>5 DEF GateInv, Shape, AppShape
<1>7. \A u \in Claimers : u # t => task'[u].at = "none"
  BY <1>3, <1>4, SlotsOf
<1> QED BY <1>1, <1>2, <1>3, <1>6, <1>7 DEF GateInv, Shape, OneRedeem, Running

LEMMA DoneOK ==
  ASSUME GateInv, NEW t \in Slots, Done(t)
  PROVE  GateInv'
<1>1. TaskShape' /\ task'[t].at = "none" /\ \A u \in Slots : u # t => task'[u] = task[u]
  BY NoTaskShape, Change DEF GateInv, Shape, Done
<1>2. CASE t \in Claimers
  <2>1. AppShape' /\ app'.inFlight = FALSE
    BY <1>2 DEF Done, GateInv, Shape, AppShape
  <2>2. \A u \in Claimers : u # t => task[u].at = "none"
    BY <1>2 DEF Done, GateInv, OneRedeem, Running
  <2> QED BY <1>1, <2>1, <2>2, SlotsOf DEF GateInv, Shape, OneRedeem, Running
<1>3. CASE t \notin Claimers
  <2>1. app' = app /\ Shape'
    BY <1>1, <1>3 DEF Done, GateInv, Shape, AppShape
  <2>2. \A u \in Claimers : task'[u].at = "none" <=> task[u].at = "none"
    BY <1>1, <1>3, SlotsOf
  <2> QED BY <2>1, <2>2, Unmoved
<1> QED BY <1>2, <1>3

\* A task that is none of the claims starts.
LEMMA OtherStarts ==
  ASSUME GateInv, UNCHANGED app, NEW t \in Slots \ Claimers, NEW x, TaskFields(x), task' = [task EXCEPT ![t] = x]
  PROVE  GateInv'
<1>1. TaskShape' /\ \A u \in Slots : u # t => task'[u] = task[u]
  BY Change DEF GateInv, Shape
<1>2. Shape'
  BY <1>1 DEF GateInv, Shape, AppShape
<1>3. \A u \in Claimers : task'[u].at = "none" <=> task[u].at = "none"
  BY <1>1, SlotsOf
<1> QED BY <1>2, <1>3, Unmoved

LEMMA KeysOK ==
  ASSUME GateInv, PressX \/ PressB \/ Deploy
  PROVE  GateInv'
<1>1. CASE PressX
  BY <1>1, ClaimOK, StandsStill DEF PressX
<1>2. CASE PressB
  <2> DEFINE x == [NoTask EXCEPT !.at = "nonce", !.spenders = Spenders]
  <2>1. TaskFields(x)
    BY DEF TaskFields, Fields, NoTask
  <2> QED BY <1>2, <2>1, SlotsOf, OtherStarts DEF PressB, Slots
<1>3. CASE Deploy
  <2> DEFINE x == [NoTask EXCEPT !.at = "submit"]
  <2>1. TaskFields(x)
    BY DEF TaskFields, Fields, NoTask
  <2> QED BY <1>3, <2>1, SlotsOf, OtherStarts DEF Deploy, Slots
<1> QED BY <1>1, <1>2, <1>3

-------------------------------------------------------------------------------
(* What the tasks do. *)

LEMMA FetchOK ==
  ASSUME GateInv, NEW t \in Slots, Fetch(t)
  PROVE  GateInv'
<1> DEFINE ops == RedeemOps(Fetched(api))
           x == [task[t] EXCEPT !.at = "check", !.ops = ops]
<1>1. task[t].at # "none" /\ UNCHANGED app
  BY DEF Fetch
<1>2. Ends(t, FALSE) \/ task' = [task EXCEPT ![t].at = "check", ![t].ops = ops]
  BY DEF Fetch
<1> HIDE DEF ops
<1>3. TaskFields(x) /\ x.at = "check"
  BY DEF GateInv, Shape, TaskShape, TaskFields, Fields
<1>4. task' = [task EXCEPT ![t].at = "check", ![t].ops = ops] => task' = [task EXCEPT ![t] = x]
  BY DEF GateInv, Shape, TaskShape
<1> QED BY <1>1, <1>2, <1>3, <1>4, EndsOK, GoesOn

LEMMA CheckOK ==
  ASSUME GateInv, NEW t \in Slots, Check(t)
  PROVE  GateInv'
<1> DEFINE m == Missing(task[t].ops)
           x == [task[t] EXCEPT !.at = "nonce", !.spenders = m]
<1>1. task[t].at # "none" /\ UNCHANGED app
  BY DEF Check
<1>2. Ends(t, FALSE) \/ Goes(t, "nonce") \/ task' = [task EXCEPT ![t].at = "nonce", ![t].spenders = m]
  BY DEF Check
<1> HIDE DEF m
<1>3. TaskFields(x) /\ x.at = "nonce"
  BY DEF GateInv, Shape, TaskShape, TaskFields, Fields
<1>4. task' = [task EXCEPT ![t].at = "nonce", ![t].spenders = m] => task' = [task EXCEPT ![t] = x]
  BY DEF GateInv, Shape, TaskShape
<1> QED BY <1>1, <1>2, <1>3, <1>4, EndsOK, GoesOK, GoesOn

LEMMA NonceOK ==
  ASSUME GateInv, NEW t \in Slots, Nonce(t)
  PROVE  GateInv'
<1> DEFINE x == [task[t] EXCEPT !.at = "submit", !.nonce = "next", !.tries = 0]
<1>1. task[t].at # "none" /\ UNCHANGED app
  BY DEF Nonce
<1>2. TaskFields(x) /\ x.at = "submit"
  BY DEF GateInv, Shape, TaskShape, TaskFields, Fields
<1>3. Ends(t, FALSE) \/ task' = [task EXCEPT ![t] = x]
  BY DEF Nonce, GateInv, Shape, TaskShape
<1> QED BY <1>1, <1>2, <1>3, EndsOK, GoesOn

LEMMA SubmitOK ==
  ASSUME GateInv, NEW t \in Slots, Submit(t)
  PROVE  GateInv'
<1> DEFINE w == [task[t] EXCEPT !.at = "wait", !.tx = "pending"]
           d == [task[t] EXCEPT !.at = "sent", !.ok = TRUE]
           n == [task[t] EXCEPT !.at = "nonce", !.chunk = @ + 1]
<1>1. task[t].at # "none" /\ UNCHANGED app
  BY DEF Submit, Submits
<1>2. /\ TaskFields(w) /\ w.at # "none" /\ TaskFields(d) /\ d.at # "none" /\ TaskFields(n) /\ n.at # "none"
  BY DEF GateInv, Shape, TaskShape, TaskFields, Fields
<1>3. \/ task' = [task EXCEPT ![t] = w] \/ task' = [task EXCEPT ![t] = d] \/ task' = [task EXCEPT ![t] = n]
  BY DEF Submit, Accepted, GateInv, Shape, TaskShape
<1> QED BY <1>1, <1>2, <1>3, GoesOn

LEMMA RefusedOK ==
  ASSUME GateInv, NEW t \in Slots, Refused(t)
  PROVE  GateInv'
<1> DEFINE x == [task[t] EXCEPT !.tries = @ + 1]
<1>1. task[t].at # "none" /\ UNCHANGED app
  BY DEF Refused, Submits
<1>2. TaskFields(x) /\ x.at = task[t].at
  BY DEF GateInv, Shape, TaskShape, TaskFields, Fields
<1>3. Ends(t, FALSE) \/ task' = [task EXCEPT ![t] = x]
  BY DEF Refused, GateInv, Shape, TaskShape
<1> QED BY <1>1, <1>2, <1>3, EndsOK, GoesOn

LEMMA WaitOK ==
  ASSUME GateInv, NEW t \in Slots, Wait(t)
  PROVE  GateInv'
<1> DEFINE x == [task[t] EXCEPT !.at = "recheck", !.spenders = {}]
<1>1. task[t].at # "none" /\ UNCHANGED app
  BY DEF Wait
<1>2. TaskFields(x) /\ x.at = "recheck"
  BY DEF GateInv, Shape, TaskShape, TaskFields, Fields
<1>3. Ends(t, TRUE) \/ Ends(t, FALSE) \/ task' = [task EXCEPT ![t] = x]
  BY DEF Wait, GateInv, Shape, TaskShape
<1> QED BY <1>1, <1>2, <1>3, EndsOK, GoesOn

LEMMA TaskOK ==
  ASSUME GateInv, NEW t \in Slots, TaskStep(t) \/ Fails(t) \/ Lost(t)
  PROVE  GateInv'
<1>1. CASE Recheck(t)
  BY <1>1, GoesOK, EndsOK DEF Recheck
<1>2. CASE Fails(t)
  BY <1>2, EndsOK DEF Fails
<1>3. CASE Lost(t)
  BY <1>3, EndsOK DEF Lost, Submits
<1> QED BY <1>1, <1>2, <1>3, FetchOK, CheckOK, NonceOK, SubmitOK, RefusedOK, WaitOK, DoneOK DEF TaskStep

-------------------------------------------------------------------------------
(* The relayer. *)

LEMMA ReportsOK ==
  ASSUME GateInv, NEW ts, ts = [t \in Slots |-> ts[t]],
         \A t \in Slots : TaskFields(ts[t]) /\ ts[t].at = task[t].at,
         NEW tx, NEW state, task' = Reports(ts, tx, state), UNCHANGED app
  PROVE  GateInv'
<1>1. task' = ts \/ task' = [ts EXCEPT ![tx.by].tx = state]
  BY DEF Reports
<1>2. CASE task' = ts
  BY <1>2, Marked DEF TaskShape
<1>3. CASE task' = [ts EXCEPT ![tx.by].tx = state]
  <2>1. \A t \in Slots : task'[t] = ts[t] \/ task'[t] = [ts[t] EXCEPT !.tx = state]
    BY <1>3
  <2>2. \A t \in Slots : TaskFields(task'[t]) /\ task'[t].at = task[t].at
    BY <2>1 DEF TaskFields, Fields
  <2>3. task' = [t \in Slots |-> task'[t]]
    BY <1>3
  <2> QED BY <2>2, <2>3, Marked DEF TaskShape
<1> QED BY <1>1, <1>2, <1>3

LEMMA MineOK ==
  ASSUME GateInv, Mine
  PROVE  GateInv'
<1> DEFINE used == [t \in Slots |-> IF task[t].at = "submit" THEN [task[t] EXCEPT !.nonce = "used"] ELSE task[t]]
<1>1. UNCHANGED app
  BY DEF Mine
<1>2. \E tx, state : task' = Reports(used, tx, state) \/ task' = Reports(task, tx, state)
  BY DEF Mine
<1>3. \A t \in Slots : TaskFields(used[t]) /\ used[t].at = task[t].at
  BY DEF GateInv, Shape, TaskShape, TaskFields, Fields
<1>4. used = [t \in Slots |-> used[t]]
  OBVIOUS
<1> HIDE DEF used
<1>5. task = [t \in Slots |-> task[t]] /\ \A t \in Slots : TaskFields(task[t])
  BY DEF GateInv, Shape, TaskShape
<1> QED BY <1>1, <1>2, <1>3, <1>4, <1>5, ReportsOK

LEMMA MineFailsOK ==
  ASSUME GateInv, MineFails
  PROVE  GateInv'
<1>1. task = [t \in Slots |-> task[t]] /\ \A t \in Slots : TaskFields(task[t])
  BY DEF GateInv, Shape, TaskShape
<1> QED BY <1>1, ReportsOK DEF MineFails

LEMMA WorldOK ==
  ASSUME GateInv, World \/ Balance \/ PollRowsFails \/ PollChainFails
  PROVE  GateInv'
<1>1. CASE Cool
  <2>1. AppShape' /\ app'.inFlight = app.inFlight
    BY <1>1 DEF Cool, GateInv, Shape, AppShape
  <2> QED BY <1>1, <2>1, Unmoved DEF Cool, GateInv, Shape, TaskShape
<1>2. CASE PanelLoaded
  BY <1>2, ClaimOK, StandsStill DEF PanelLoaded
<1>3. CASE Unlock \/ Lists \/ Drops \/ Due \/ PollRows \/ PollChain \/ PollRowsFails \/ PollChainFails
  BY <1>3, StandsStill DEF Unlock, Lists, Drops, Due, PollRows, PollChain, PollRowsFails, PollChainFails
<1> QED BY <1>1, <1>2, <1>3, MineOK DEF World, Balance

-------------------------------------------------------------------------------
LEMMA GateInit == Init => GateInv
<1> SUFFICES ASSUME Init PROVE GateInv
  OBVIOUS
<1>1. app = [inFlight |-> FALSE, cooling |-> FALSE] /\ task = [t \in Slots |-> NoTask]
  BY DEF Init
<1> QED BY <1>1, NoTaskShape, SlotsOf DEF GateInv, Shape, TaskShape, AppShape, OneRedeem, Running

LEMMA GateStep == GateInv /\ [Next]_vars => GateInv'
<1> SUFFICES ASSUME GateInv, [Next]_vars PROVE GateInv'
  OBVIOUS
<1>1. CASE UNCHANGED vars
  BY <1>1, StandsStill DEF vars
<1> QED BY <1>1, KeysOK, TaskOK, MineFailsOK, WorldOK DEF Next

(* There is never more than one claim at work, and redeem_in_flight is set exactly while
   there is one, whoever starts it and however it ends (app.rs 1121-1139, main.rs 423). *)
THEOREM OneRedeemHolds == Spec => []OneRedeem
<1>1. GateInv => OneRedeem
  BY DEF GateInv
<1> QED BY <1>1, GateInit, GateStep, PTL DEF Spec

-------------------------------------------------------------------------------
(* Approvals come before redeems. *)

IsSeq(q) == \E S : q \in Seq(S)
TxFields == {"type", "calls", "nonce", "by"}
ChainFields == {"allowed", "deployed", "balance", "payout", "cash"}

(* What a task is about to submit for a deposit wallet has its adapters approved, w being
   whether there is such a wallet and a the adapters that are approved. *)
Asked(x, w, a) ==
  /\ x.chunk \in Nat \ {0} /\ IsSeq(x.ops)
  /\ w /\ x.at \in {"nonce", "submit"} /\ x.spenders = {} => AdaptersOf(x.ops) \subseteq a

(* What the relayer has accepted of such a wallet has them approved, too. *)
TxApproved(tx, a) == tx.type = "WALLET" => {c.target : c \in Redeems(tx.calls)} \subseteq a
TxOK(tx, a) == tx = [f \in TxFields |-> tx[f]] /\ TxApproved(tx, a)
QueueOK(q, a) == IsSeq(q) /\ \A i \in DOMAIN q : TxOK(q[i], a)

EnvOK == {"sigType", "late"} \subseteq DOMAIN env /\ IsFiniteSet(env.late) /\ IsFiniteSet(api)
RelayerOK == relayer = [f \in {"queue", "busy"} |-> relayer[f]] /\ QueueOK(relayer.queue, Operators)
ChainOK == chain = [f \in ChainFields |-> chain[f]]
AskedInv == \A t \in Slots : Asked(task[t], Wallet, Operators)
AllowInv == EnvOK /\ RelayerOK /\ ChainOK /\ TaskShape /\ AskedInv

\* Approvals are only ever added.
LEMMA Monotone ==
  ASSUME NEW a, NEW b, a \subseteq b, NEW w, NEW x
  PROVE  /\ Asked(x, w, a) => Asked(x, w, b)
         /\ TxOK(x, a) => TxOK(x, b)
         /\ QueueOK(x, a) => QueueOK(x, b)
  BY DEF Asked, TxOK, TxApproved, QueueOK

EnvSame == env'.sigType = env.sigType /\ DOMAIN env' = DOMAIN env /\ env'.late = env.late

\* A step of the tasks alone.
LEMMA TasksOnly ==
  ASSUME AllowInv, UNCHANGED <<relayer, chain, api>>, EnvSame,
         TaskShape', \A t \in Slots : Asked(task'[t], Wallet, Operators)
  PROVE  AllowInv'
<1>1. Operators' = Operators /\ Wallet' = Wallet
  BY DEF Operators, Wallet, EnvSame
<1>2. EnvOK' /\ ChainOK'
  BY DEF AllowInv, EnvOK, ChainOK, EnvSame
<1> QED BY <1>1, <1>2 DEF AllowInv, RelayerOK, AskedInv

\* The counts of keys and faults that are left.
LEMMA EnvCounts ==
  ASSUME EnvOK, NEW f \in {"x", "b", "deploy", "faults"}, NEW v, env' = [env EXCEPT ![f] = v]
  PROVE  EnvSame
  BY DEF EnvOK, EnvSame

LEMMA EnvKept == ASSUME UNCHANGED env PROVE EnvSame
  BY DEF EnvSame

\* One task goes on.
LEMMA OneOnly ==
  ASSUME AllowInv, UNCHANGED <<relayer, chain, api>>, EnvSame, NEW t \in Slots, NEW x, TaskFields(x),
         Asked(x, Wallet, Operators), task' = [task EXCEPT ![t] = x]
  PROVE  AllowInv'
<1>1. TaskShape' /\ task'[t] = x /\ \A u \in Slots : u # t => task'[u] = task[u]
  BY Change DEF AllowInv
<1>2. \A u \in Slots : Asked(task'[u], Wallet, Operators)
  BY <1>1 DEF AllowInv, AskedInv
<1> QED BY <1>1, <1>2, TasksOnly

LEMMA EmptyOps == IsSeq(<<>>) /\ AdaptersOf(<<>>) = {}
<1>1. <<>> \in Seq({})
  OBVIOUS
<1> QED BY <1>1 DEF IsSeq, AdaptersOf

\* A task that starts has nothing to redeem yet.
LEMMA FreshAsked ==
  ASSUME NEW x, x.chunk = 1, x.ops = <<>>, NEW w, NEW a
  PROVE  Asked(x, w, a)
  BY EmptyOps DEF Asked

\* A task that is not about to submit redeems.
LEMMA IdleAsked ==
  ASSUME NEW y, NEW w, NEW a, Asked(y, w, a), NEW x, x.chunk = y.chunk, x.ops = y.ops,
         x.at \notin {"nonce", "submit"} \/ x.spenders # {}
  PROVE  Asked(x, w, a)
  BY DEF Asked

\* One that is, and was, or has seen that nothing is missing.
LEMMA StillAsked ==
  ASSUME NEW y, NEW w, NEW a, Asked(y, w, a), NEW x, x.chunk \in Nat \ {0}, x.ops = y.ops,
         x.spenders = y.spenders, y.at \in {"nonce", "submit"}
  PROVE  Asked(x, w, a)
  BY DEF Asked

LEMMA EndsAsked ==
  ASSUME AllowInv, UNCHANGED <<relayer, chain, api>>, EnvSame, NEW t \in Slots, NEW ok, Ends(t, ok)
  PROVE  AllowInv'
<1> DEFINE x == [task[t] EXCEPT !.at = "sent", !.ok = ok]
<1>1. TaskFields(x) /\ x.at = "sent" /\ x.chunk = task[t].chunk /\ x.ops = task[t].ops
  BY DEF AllowInv, TaskShape, TaskFields, Fields
<1>2. task' = [task EXCEPT ![t] = x]
  BY DEF Ends, AllowInv, TaskShape
<1>3. Asked(x, Wallet, Operators)
  BY <1>1, IdleAsked DEF AllowInv, AskedInv
<1> QED BY <1>1, <1>2, <1>3, OneOnly

LEMMA StartsAsked ==
  ASSUME AllowInv, UNCHANGED <<relayer, chain, api>>, EnvSame, NEW t \in Slots, NEW x,
         TaskFields(x), x.chunk = 1, x.ops = <<>>, task' = [task EXCEPT ![t] = x]
  PROVE  AllowInv'
<1>1. Asked(x, Wallet, Operators)
  BY FreshAsked
<1> QED BY <1>1, OneOnly

LEMMA FreshFields ==
  ASSUME NEW where, NEW spenders
  PROVE  LET x == [NoTask EXCEPT !.at = where]
             y == [NoTask EXCEPT !.at = where, !.spenders = spenders]
         IN  /\ TaskFields(x) /\ x.chunk = 1 /\ x.ops = <<>>
             /\ TaskFields(y) /\ y.chunk = 1 /\ y.ops = <<>>
  BY DEF NoTask, TaskFields, Fields

LEMMA ClaimAsked ==
  ASSUME AllowInv, UNCHANGED <<relayer, chain, api>>, EnvSame, Claim
  PROVE  AllowInv'
  BY FreshFields, StartsAsked, SlotsOf DEF Claim

LEMMA SameAsked ==
  ASSUME AllowInv, UNCHANGED <<task, relayer, chain, api>>, EnvSame
  PROVE  AllowInv'
  BY TasksOnly DEF AllowInv, TaskShape, AskedInv

LEMMA KeysAsked ==
  ASSUME AllowInv, PressX \/ PressB \/ Deploy
  PROVE  AllowInv'
<1>1. EnvOK
  BY DEF AllowInv
<1>2. CASE PressX
  <2>1. EnvSame /\ UNCHANGED <<relayer, chain, api>>
    BY <1>1, <1>2, EnvCounts DEF PressX
  <2> QED BY <1>2, <2>1, ClaimAsked, SameAsked DEF PressX
<1>3. CASE PressB
  <2>1. EnvSame
    BY <1>1, <1>3, EnvCounts DEF PressB
  <2> QED BY <1>3, <2>1, FreshFields, StartsAsked DEF PressB, Slots
<1>4. CASE Deploy
  <2>1. EnvSame
    BY <1>1, <1>4, EnvCounts DEF Deploy
  <2> QED BY <1>4, <2>1, FreshFields, StartsAsked DEF Deploy, Slots
<1> QED BY <1>2, <1>3, <1>4

LEMMA DoneAsked ==
  ASSUME AllowInv, NEW t \in Slots, Done(t)
  PROVE  AllowInv'
<1>1. NoTask.chunk = 1 /\ NoTask.ops = <<>>
  BY DEF NoTask
<1>2. Asked(NoTask, Wallet, Operators)
  BY <1>1, FreshAsked
<1> QED BY <1>2, NoTaskShape, EnvKept, OneOnly DEF Done

\* What collect_redeem_ops returns is a sequence.
LEMMA OpsSeq ==
  ASSUME NEW rows, IsFiniteSet(rows)
  PROVE  IsSeq(RedeemOps(rows))
<1> DEFINE conds == {r.cond : r \in Usable(rows)}
           sorted == Sorted(conds)
<1>1. IsFiniteSet(Usable(rows))
  <2>1. Usable(rows) \subseteq rows
    BY DEF Usable, Finite
  <2> QED BY <2>1, FS_Subset
<1>2. IsFiniteSet(conds)
  <2>1. [r \in Usable(rows) |-> r.cond] \in Surjection(Usable(rows), conds)
    BY DEF Surjection
  <2> QED BY <1>1, <2>1, FS_Surjection
<1>3. Cardinality(conds) \in Nat
  BY <1>2, FS_CardinalityType
<1>4. DOMAIN sorted = 1..Cardinality(conds)
  BY DEF Sorted
<1>5. DOMAIN RedeemOps(rows) = DOMAIN sorted
  BY DEF RedeemOps
<1>6. RedeemOps(rows) = [i \in DOMAIN RedeemOps(rows) |-> RedeemOps(rows)[i]]
  BY DEF RedeemOps
<1> DEFINE q == RedeemOps(rows)
           n == Cardinality(conds)
<1>7. n \in Nat /\ q = [i \in 1..n |-> q[i]]
  BY <1>3, <1>4, <1>5, <1>6
<1> HIDE DEF q, n
<1>8. q \in [1..n -> {q[i] : i \in 1..n}]
  BY <1>7
<1>9. q \in Seq({q[i] : i \in 1..n})
  BY <1>7, <1>8
<1> QED BY <1>9 DEF IsSeq, q

LEMMA FetchAsked ==
  ASSUME AllowInv, NEW t \in Slots, Fetch(t)
  PROVE  AllowInv'
<1> DEFINE ops == RedeemOps(Fetched(api))
           x == [task[t] EXCEPT !.at = "check", !.ops = ops]
<1>1. IsSeq(ops)
  <2>1. Fetched(api) \subseteq api /\ IsFiniteSet(api)
    BY DEF Fetched, AllowInv, EnvOK
  <2> QED BY <2>1, FS_Subset, OpsSeq
<1>2. Ends(t, FALSE) \/ task' = [task EXCEPT ![t].at = "check", ![t].ops = ops]
  BY DEF Fetch
<1>3. UNCHANGED <<relayer, chain, api>> /\ EnvSame
  BY EnvKept DEF Fetch
<1> HIDE DEF ops
<1>4. TaskFields(x) /\ x.at = "check" /\ x.ops = ops /\ x.chunk = task[t].chunk
  BY DEF AllowInv, TaskShape, TaskFields, Fields
<1>5. Asked(x, Wallet, Operators)
  BY <1>1, <1>4 DEF Asked, AllowInv, AskedInv
<1>6. task' = [task EXCEPT ![t].at = "check", ![t].ops = ops] => task' = [task EXCEPT ![t] = x]
  BY DEF AllowInv, TaskShape
<1> QED BY <1>2, <1>3, <1>4, <1>5, <1>6, EndsAsked, OneOnly

\* A task goes to sign the redeems when nothing is missing, or there is nothing to approve.
LEMMA GoesAsked ==
  ASSUME AllowInv, UNCHANGED <<relayer, chain, api>>, EnvSame, NEW t \in Slots, Goes(t, "nonce"),
         Wallet => Missing(task[t].ops) = {}
  PROVE  AllowInv'
<1> DEFINE x == [task[t] EXCEPT !.at = "nonce"]
<1>1. /\ TaskFields(x) /\ x.at = "nonce" /\ x.chunk = task[t].chunk /\ x.ops = task[t].ops
      /\ task' = [task EXCEPT ![t] = x]
  BY DEF Goes, AllowInv, TaskShape, TaskFields, Fields
<1>2. Asked(x, Wallet, Operators)
  <2>1. Wallet => AdaptersOf(task[t].ops) \subseteq Operators
    BY DEF Missing
  <2>2. task[t].chunk \in Nat \ {0} /\ IsSeq(task[t].ops)
    BY DEF AllowInv, AskedInv, Asked
  <2> QED BY <1>1, <2>1, <2>2 DEF Asked
<1> QED BY <1>1, <1>2, OneOnly

LEMMA CheckAsked ==
  ASSUME AllowInv, NEW t \in Slots, Check(t)
  PROVE  AllowInv'
<1> DEFINE m == Missing(task[t].ops)
           x == [task[t] EXCEPT !.at = "nonce", !.spenders = m]
<1>1. UNCHANGED <<relayer, chain, api>> /\ EnvSame
  BY EnvKept DEF Check
<1>2. \/ Ends(t, FALSE)
      \/ (Wallet => m = {}) /\ Goes(t, "nonce")
      \/ m # {} /\ task' = [task EXCEPT ![t].at = "nonce", ![t].spenders = m]
  BY DEF Check
<1>3. CASE m # {} /\ task' = [task EXCEPT ![t].at = "nonce", ![t].spenders = m]
  <2> HIDE DEF m
  <2>1. /\ TaskFields(x) /\ x.spenders = m /\ x.chunk = task[t].chunk /\ x.ops = task[t].ops
    BY DEF AllowInv, TaskShape, TaskFields, Fields
  <2>2. task' = [task EXCEPT ![t] = x]
    BY <1>3 DEF AllowInv, TaskShape
  <2>3. Asked(x, Wallet, Operators)
    BY <1>3, <2>1, IdleAsked DEF AllowInv, AskedInv
  <2> QED BY <1>1, <2>1, <2>2, <2>3, OneOnly
<1> QED BY <1>1, <1>2, <1>3, EndsAsked, GoesAsked

LEMMA NonceAsked ==
  ASSUME AllowInv, NEW t \in Slots, Nonce(t)
  PROVE  AllowInv'
<1> DEFINE x == [task[t] EXCEPT !.at = "submit", !.nonce = "next", !.tries = 0]
<1>1. UNCHANGED <<relayer, chain, api>> /\ EnvSame /\ task[t].at = "nonce"
  BY EnvKept DEF Nonce
<1>2. TaskFields(x) /\ x.chunk = task[t].chunk /\ x.ops = task[t].ops /\ x.spenders = task[t].spenders
  BY DEF AllowInv, TaskShape, TaskFields, Fields
<1>3. Ends(t, FALSE) \/ task' = [task EXCEPT ![t] = x]
  BY DEF Nonce, AllowInv, TaskShape
<1>4. Asked(task[t], Wallet, Operators)
  BY DEF AllowInv, AskedInv
<1>5. Asked(x, Wallet, Operators)
  BY <1>1, <1>2, <1>4, StillAsked DEF Asked
<1> QED BY <1>1, <1>2, <1>3, <1>5, EndsAsked, OneOnly

LEMMA RefusedAsked ==
  ASSUME AllowInv, NEW t \in Slots, Refused(t)
  PROVE  AllowInv'
<1> DEFINE x == [task[t] EXCEPT !.tries = @ + 1]
<1>1. UNCHANGED <<relayer, chain, api>> /\ EnvSame /\ task[t].at = "submit"
  BY EnvKept DEF Refused, Submits
<1>2. TaskFields(x) /\ x.chunk = task[t].chunk /\ x.ops = task[t].ops /\ x.spenders = task[t].spenders
  BY DEF AllowInv, TaskShape, TaskFields, Fields
<1>3. Ends(t, FALSE) \/ task' = [task EXCEPT ![t] = x]
  BY DEF Refused, AllowInv, TaskShape
<1>4. Asked(task[t], Wallet, Operators)
  BY DEF AllowInv, AskedInv
<1>5. Asked(x, Wallet, Operators)
  BY <1>1, <1>2, <1>4, StillAsked DEF Asked
<1> QED BY <1>1, <1>2, <1>3, <1>5, EndsAsked, OneOnly

LEMMA WaitAsked ==
  ASSUME AllowInv, NEW t \in Slots, Wait(t)
  PROVE  AllowInv'
<1> DEFINE x == [task[t] EXCEPT !.at = "recheck", !.spenders = {}]
<1>1. UNCHANGED <<relayer, chain, api>> /\ EnvSame
  BY EnvKept DEF Wait
<1>2. TaskFields(x) /\ x.at = "recheck" /\ x.chunk = task[t].chunk /\ x.ops = task[t].ops
  BY DEF AllowInv, TaskShape, TaskFields, Fields
<1>3. Ends(t, TRUE) \/ Ends(t, FALSE) \/ task' = [task EXCEPT ![t] = x]
  BY DEF Wait, AllowInv, TaskShape
<1>4. Asked(x, Wallet, Operators)
  BY <1>2, IdleAsked DEF AllowInv, AskedInv
<1> QED BY <1>1, <1>2, <1>3, <1>4, EndsAsked, OneOnly

LEMMA EndingAsked ==
  ASSUME AllowInv, NEW t \in Slots, Recheck(t) \/ Fails(t)
  PROVE  AllowInv'
<1>1. CASE Recheck(t)
  BY <1>1, EnvKept, GoesAsked, EndsAsked DEF Recheck
<1>2. CASE Fails(t)
  <2>1. EnvSame
    BY <1>2, EnvCounts DEF Fails, Fault, AllowInv
  <2> QED BY <1>2, <2>1, EndsAsked DEF Fails
<1> QED BY <1>1, <1>2

\* A chunk has calls of the operations only.
LEMMA ChunkAdapters ==
  ASSUME NEW ops, IsSeq(ops), NEW k \in Nat \ {0}
  PROVE  {c.target : c \in RedeemCalls(ChunkOf(ops, k))} \subseteq AdaptersOf(ops)
<1> DEFINE m == (k - 1) * RedeemChunk + 1
           n == IF k * RedeemChunk < Len(ops) THEN k * RedeemChunk ELSE Len(ops)
           S == {ops[i] : i \in DOMAIN ops}
           chunk == ChunkOf(ops, k)
<1>1. DOMAIN ops = 1..Len(ops) /\ Len(ops) \in Nat
  BY DEF IsSeq
<1>2. RedeemChunk \in Nat /\ k - 1 \in Nat
  BY ClaimsAssumption
<1>3. m \in Nat /\ m >= 1
  <2>1. \A x, y \in Nat : x * y \in Nat
    OBVIOUS
  <2>2. (k - 1) * RedeemChunk \in Nat
    BY <1>2, <2>1
  <2> QED BY <2>2
<1>4. n \in Int /\ n <= Len(ops)
  <2>1. \A x, y \in Nat : x * y \in Nat
    OBVIOUS
  <2>2. k * RedeemChunk \in Nat
    BY <1>2, <2>1
  <2> QED BY <1>1, <2>2
<1>5. chunk = SubSeq(ops, m, n)
  BY DEF ChunkOf
<1> HIDE DEF m, n, chunk
<1>6. \A i \in m..n : ops[i] \in S
  BY <1>1, <1>3, <1>4
<1>7. chunk \in Seq(S)
  BY <1>3, <1>4, <1>5, <1>6, SubSeqProperties
<1>8. \A i \in DOMAIN chunk : chunk[i] \in S
  BY <1>7
<1>9. \A i \in DOMAIN chunk : chunk[i].adapter \in AdaptersOf(ops)
  BY <1>8 DEF AdaptersOf
<1>10. RedeemCalls(chunk) = {[kind |-> "redeem", target |-> chunk[i].adapter, of |-> chunk[i].cond] : i \in DOMAIN chunk}
  BY DEF RedeemCalls
<1>11. \A c \in RedeemCalls(chunk) : c.target \in AdaptersOf(ops)
  BY <1>9, <1>10
<1> QED BY <1>11 DEF chunk

\* What a task submits for a deposit wallet is approved.
LEMMA BodyApproved ==
  ASSUME AllowInv, NEW t \in Slots, task[t].at = "submit", Body(t).type = "WALLET"
  PROVE  {c.target : c \in Redeems(CallsOf(Body(t)))} \subseteq Operators
<1>1. (Wallet \/ Approves(t)) /\ Body(t) = WalletBody(t)
  BY DEF Body, CreateBody, SafeBody
<1>2. CallsOf(Body(t)) = Batch(t)
  BY <1>1 DEF CallsOf, WalletBody
<1>3. CASE Approves(t)
  <2>1. \A c \in AllowCalls(task[t].spenders) : c.kind # "redeem"
    BY DEF AllowCalls
  <2>2. Redeems(Batch(t)) = {}
    BY <1>3, <2>1 DEF Redeems, Batch
  <2> QED BY <1>2, <2>2
<1>4. CASE ~Approves(t)
  <2>1. Asked(task[t], Wallet, Operators)
    BY DEF AllowInv, AskedInv
  <2>2. AdaptersOf(task[t].ops) \subseteq Operators /\ IsSeq(task[t].ops) /\ task[t].chunk \in Nat \ {0}
    BY <1>1, <1>4, <2>1 DEF Asked, Approves
  <2>3. Batch(t) = RedeemCalls(ChunkOf(task[t].ops, task[t].chunk))
    BY <1>4 DEF Batch
  <2>4. {c.target : c \in Batch(t)} \subseteq Operators
    BY <2>2, <2>3, ChunkAdapters
  <2> QED BY <1>2, <2>4 DEF Redeems
<1> QED BY <1>3, <1>4

LEMMA Appended ==
  ASSUME NEW q, NEW a, QueueOK(q, a), NEW tx, TxOK(tx, a)
  PROVE  QueueOK(Append(q, tx), a)
<1>1. PICK S : q \in Seq(S)
  BY DEF QueueOK, IsSeq
<1>2. q \in Seq(S \cup {tx})
  BY <1>1, SeqMonotonic
<1>3. Append(q, tx) \in Seq(S \cup {tx})
  BY <1>2
<1>4. \A i \in DOMAIN Append(q, tx) : TxOK(Append(q, tx)[i], a)
  BY <1>2, <1>3 DEF QueueOK
<1> QED BY <1>3, <1>4 DEF QueueOK, IsSeq

LEMMA QueuedOK ==
  ASSUME AllowInv, NEW t \in Slots, task[t].at = "submit", NEW by, relayer' = Queued(t, by), UNCHANGED chain
  PROVE  RelayerOK'
<1> DEFINE tx == [type |-> Body(t).type, calls |-> CallsOf(Body(t)), nonce |-> task[t].nonce, by |-> by]
<1>1. TxOK(tx, Operators)
  <2>1. tx = [f \in TxFields |-> tx[f]]
    BY DEF TxFields
  <2>2. tx.type = Body(t).type /\ tx.calls = CallsOf(Body(t))
    OBVIOUS
  <2>3. TxApproved(tx, Operators)
    BY <2>2, BodyApproved DEF TxApproved
  <2> QED BY <2>1, <2>3 DEF TxOK
<1>2. relayer' = [relayer EXCEPT !.queue = Append(@, tx), !.busy = @ \/ Body(t).type = "WALLET"]
  BY DEF Queued
<1> HIDE DEF tx
<1>3. /\ relayer' = [f \in {"queue", "busy"} |-> relayer'[f]] /\ relayer'.queue = Append(relayer.queue, tx)
  BY <1>2 DEF AllowInv, RelayerOK
<1>4. QueueOK(Append(relayer.queue, tx), Operators)
  BY <1>1, Appended DEF AllowInv, RelayerOK
<1>5. Operators' = Operators
  BY DEF Operators
<1> QED BY <1>3, <1>4, <1>5 DEF RelayerOK

\* A step of a task that submits.
LEMMA SubmitsOnly ==
  ASSUME AllowInv, UNCHANGED <<chain, api>>, EnvSame, RelayerOK', NEW t \in Slots, NEW x, TaskFields(x),
         Asked(x, Wallet, Operators), task' = [task EXCEPT ![t] = x]
  PROVE  AllowInv'
<1>1. TaskShape' /\ task'[t] = x /\ \A u \in Slots : u # t => task'[u] = task[u]
  BY Change DEF AllowInv
<1>2. \A u \in Slots : Asked(task'[u], Wallet, Operators)
  BY <1>1 DEF AllowInv, AskedInv
<1>3. Operators' = Operators /\ Wallet' = Wallet
  BY DEF Operators, Wallet, EnvSame
<1>4. EnvOK' /\ ChainOK'
  BY DEF AllowInv, EnvOK, ChainOK, EnvSame
<1> QED BY <1>1, <1>2, <1>3, <1>4 DEF AllowInv, AskedInv

LEMMA SubmitAsked ==
  ASSUME AllowInv, NEW t \in Slots, Submit(t)
  PROVE  AllowInv'
<1> DEFINE w == [task[t] EXCEPT !.at = "wait", !.tx = "pending"]
           d == [task[t] EXCEPT !.at = "sent", !.ok = TRUE]
           n == [task[t] EXCEPT !.at = "nonce", !.chunk = @ + 1]
<1>1. task[t].at = "submit" /\ UNCHANGED <<chain, api>> /\ EnvSame /\ relayer' = Queued(t, t)
  BY EnvKept DEF Submit, Submits
<1>2. RelayerOK'
  BY <1>1, QueuedOK
<1>3. \/ task' = [task EXCEPT ![t] = w] \/ task' = [task EXCEPT ![t] = d] \/ task' = [task EXCEPT ![t] = n]
  BY DEF Submit, Accepted, AllowInv, TaskShape
<1>4. /\ TaskFields(w) /\ w.at = "wait" /\ w.ops = task[t].ops /\ w.chunk = task[t].chunk
      /\ TaskFields(d) /\ d.at = "sent" /\ d.ops = task[t].ops /\ d.chunk = task[t].chunk
  BY DEF AllowInv, TaskShape, TaskFields, Fields
<1>5. TaskFields(n) /\ n.spenders = task[t].spenders /\ n.ops = task[t].ops /\ n.chunk = task[t].chunk + 1
  BY DEF AllowInv, TaskShape, TaskFields, Fields
<1>6. Asked(task[t], Wallet, Operators) /\ task[t].chunk \in Nat \ {0}
  BY DEF AllowInv, AskedInv, Asked
<1>7. Asked(w, Wallet, Operators) /\ Asked(d, Wallet, Operators)
  BY <1>4, <1>6, IdleAsked
<1>8. Asked(n, Wallet, Operators)
  <2>1. n.chunk \in Nat \ {0}
    BY <1>5, <1>6
  <2> QED BY <1>1, <1>5, <1>6, <2>1, StillAsked
<1> HIDE DEF w, d, n
<1> QED BY <1>1, <1>2, <1>3, <1>4, <1>5, <1>7, <1>8, SubmitsOnly

LEMMA LostAsked ==
  ASSUME AllowInv, NEW t \in Slots, Lost(t)
  PROVE  AllowInv'
<1> DEFINE x == [task[t] EXCEPT !.at = "sent", !.ok = FALSE]
<1>1. task[t].at = "submit" /\ UNCHANGED <<chain, api>> /\ relayer' = Queued(t, None)
  BY DEF Lost, Submits
<1>2. EnvSame
  BY EnvCounts DEF Lost, Fault, AllowInv
<1>3. TaskFields(x) /\ x.at = "sent" /\ x.chunk = task[t].chunk /\ x.ops = task[t].ops
  BY DEF AllowInv, TaskShape, TaskFields, Fields
<1>4. task' = [task EXCEPT ![t] = x]
  BY DEF Lost, Ends, AllowInv, TaskShape
<1>5. Asked(x, Wallet, Operators)
  BY <1>3, IdleAsked DEF AllowInv, AskedInv
<1>6. RelayerOK'
  BY <1>1, QueuedOK
<1> HIDE DEF x
<1> QED BY <1>1, <1>2, <1>3, <1>4, <1>5, <1>6, SubmitsOnly

LEMMA TaskAsked ==
  ASSUME AllowInv, NEW t \in Slots, TaskStep(t) \/ Fails(t) \/ Lost(t)
  PROVE  AllowInv'
  BY FetchAsked, CheckAsked, EndingAsked, NonceAsked, SubmitAsked, RefusedAsked, WaitAsked, DoneAsked, LostAsked
     DEF TaskStep

-------------------------------------------------------------------------------
(* The relayer and the chain under the approvals. *)

\* The queue without its head, its nonces marked or not.
LEMMA Shortened ==
  ASSUME NEW q, NEW a, QueueOK(q, a), q # <<>>
  PROVE  /\ QueueOK(Tail(q), a)
         /\ QueueOK([i \in DOMAIN Tail(q) |-> [Tail(q)[i] EXCEPT !.nonce = "used"]], a)
         /\ TxOK(Head(q), a)
<1>1. PICK S : q \in Seq(S)
  BY DEF QueueOK, IsSeq
<1>2. Tail(q) \in Seq(S) /\ Len(Tail(q)) = Len(q) - 1 /\ \A i \in 1..Len(Tail(q)) : Tail(q)[i] = q[i + 1]
  BY <1>1, HeadTailProperties
<1>3. \A i \in DOMAIN Tail(q) : TxOK(Tail(q)[i], a)
  BY <1>1, <1>2 DEF QueueOK
<1>4. QueueOK(Tail(q), a)
  BY <1>2, <1>3 DEF QueueOK, IsSeq
<1>5. TxOK(Head(q), a)
  BY <1>1 DEF QueueOK
<1> DEFINE w == Tail(q)
           used == [i \in DOMAIN w |-> [w[i] EXCEPT !.nonce = "used"]]
<1>6. \A i \in DOMAIN used : TxOK(used[i], a)
  <2> SUFFICES ASSUME NEW i \in DOMAIN w PROVE TxOK([w[i] EXCEPT !.nonce = "used"], a)
    OBVIOUS
  <2> DEFINE y == [w[i] EXCEPT !.nonce = "used"]
  <2>1. w[i] = [f \in TxFields |-> w[i][f]] /\ TxApproved(w[i], a)
    BY <1>3 DEF TxOK
  <2> HIDE DEF w
  <2>2. y = [f \in TxFields |-> y[f]] /\ y.type = w[i].type /\ y.calls = w[i].calls
    BY <2>1 DEF TxFields
  <2> QED BY <2>1, <2>2 DEF TxOK, TxApproved
<1>7. DOMAIN w = 1..Len(w) /\ Len(w) \in Nat
  BY <1>2
<1>8. used \in Seq({used[i] : i \in DOMAIN w})
  <2> HIDE DEF w
  <2>1. used \in [1..Len(w) -> {used[i] : i \in DOMAIN w}]
    BY <1>7
  <2> QED BY <1>7, <2>1
<1>9. QueueOK(used, a)
  BY <1>6, <1>8 DEF QueueOK, IsSeq
<1> QED BY <1>4, <1>5, <1>9

\* A transaction adds approvals and takes none away.
LEMMA ExecutedKeeps ==
  ASSUME ChainOK, NEW tx, chain' = Executed(tx) \/ chain' = chain
  PROVE  ChainOK' /\ Operators \subseteq Operators'
<1>1. ChainOK' /\ chain.allowed \subseteq chain'.allowed
  <2>1. CASE chain' = [chain EXCEPT !.deployed = @ \cup {WalletOf(Me)}]
    BY <2>1 DEF ChainOK, ChainFields
  <2>2. CASE chain' = chain
    BY <2>2 DEF ChainOK
  <2>3. ASSUME NEW p, p = [f \in ChainFields |-> p[f]], p.allowed = chain.allowed, NEW d,
               chain' = [p EXCEPT !.allowed = @ \cup d]
        PROVE  ChainOK' /\ chain.allowed \subseteq chain'.allowed
    BY <2>3 DEF ChainOK, ChainFields
  <2>4. ASSUME NEW conds
        PROVE  LET p == Payout(conds) IN p = [f \in ChainFields |-> p[f]] /\ p.allowed = chain.allowed
    <3> DEFINE burnt == {k \in DOMAIN chain.balance : k[1] \in conds /\ chain.balance[k] > 0}
               b == [k \in DOMAIN chain.balance |-> IF k \in burnt THEN 0 ELSE chain.balance[k]]
               v == chain.cash["pUSD"] + MapThenSumSet(LAMBDA k : Pays(k, chain.payout[k[1]], chain.balance[k]), burnt)
    <3>1. Payout(conds) = [chain EXCEPT !.balance = b, !.cash["pUSD"] = v]
      BY DEF Payout
    <3> HIDE DEF b, v
    <3> QED BY <3>1 DEF ChainOK, ChainFields
  <2>5. chain' = Executed(tx) =>
          \/ chain' = [chain EXCEPT !.deployed = @ \cup {WalletOf(Me)}]
          \/ \E conds, d : chain' = [Payout(conds) EXCEPT !.allowed = @ \cup d]
    BY DEF Executed
  <2> QED BY <2>1, <2>2, <2>3, <2>4, <2>5
<1> QED BY <1>1 DEF Operators

\* A step of the relayer, the chain or the Data API: tasks keep what they have to submit.
LEMMA RelayerSteps ==
  ASSUME AllowInv, EnvOK', ChainOK', Operators \subseteq Operators', Wallet' = Wallet,
         relayer' = [f \in {"queue", "busy"} |-> relayer'[f]], QueueOK(relayer'.queue, Operators),
         TaskShape',
         \A t \in Slots : /\ task'[t].at = task[t].at /\ task'[t].chunk = task[t].chunk
                          /\ task'[t].ops = task[t].ops /\ task'[t].spenders = task[t].spenders
  PROVE  AllowInv'
<1>1. QueueOK(relayer'.queue, Operators')
  BY Monotone
<1>2. \A t \in Slots : Asked(task'[t], Wallet, Operators)
  BY DEF AllowInv, AskedInv, Asked
<1>3. \A t \in Slots : Asked(task'[t], Wallet, Operators')
  BY <1>2, Monotone
<1> QED BY <1>1, <1>3 DEF AllowInv, RelayerOK, AskedInv

LEMMA ReportsAsked ==
  ASSUME TaskShape, NEW ts, ts = [t \in Slots |-> ts[t]],
         \A t \in Slots : /\ TaskFields(ts[t]) /\ ts[t].at = task[t].at /\ ts[t].chunk = task[t].chunk
                          /\ ts[t].ops = task[t].ops /\ ts[t].spenders = task[t].spenders,
         NEW tx, NEW state, task' = Reports(ts, tx, state)
  PROVE  /\ TaskShape'
         /\ \A t \in Slots : /\ task'[t].at = task[t].at /\ task'[t].chunk = task[t].chunk
                             /\ task'[t].ops = task[t].ops /\ task'[t].spenders = task[t].spenders
<1>1. task' = ts \/ task' = [ts EXCEPT ![tx.by].tx = state]
  BY DEF Reports
<1>2. CASE task' = ts
  BY <1>2 DEF TaskShape
<1>3. CASE task' = [ts EXCEPT ![tx.by].tx = state]
  <2>1. \A t \in Slots : task'[t] = ts[t] \/ task'[t] = [ts[t] EXCEPT !.tx = state]
    BY <1>3
  <2>2. ASSUME NEW y, TaskFields(y), NEW z, z = [y EXCEPT !.tx = state]
        PROVE  /\ TaskFields(z) /\ z.at = y.at /\ z.chunk = y.chunk /\ z.ops = y.ops /\ z.spenders = y.spenders
    BY <2>2 DEF TaskFields, Fields
  <2>3. task' = [t \in Slots |-> task'[t]]
    BY <1>3
  <2>4. ASSUME NEW t \in Slots
        PROVE  /\ TaskFields(task'[t]) /\ task'[t].at = task[t].at /\ task'[t].chunk = task[t].chunk
               /\ task'[t].ops = task[t].ops /\ task'[t].spenders = task[t].spenders
    <3>1. CASE task'[t] = ts[t]
      BY <3>1
    <3>2. CASE task'[t] = [ts[t] EXCEPT !.tx = state]
      BY <2>2, <3>2
    <3> QED BY <2>1, <3>1, <3>2
  <2> QED BY <2>3, <2>4 DEF TaskShape
<1> QED BY <1>1, <1>2, <1>3

LEMMA MineAsked ==
  ASSUME AllowInv, Mine
  PROVE  AllowInv'
<1> DEFINE used == [t \in Slots |-> IF task[t].at = "submit" THEN [task[t] EXCEPT !.nonce = "used"] ELSE task[t]]
           tx == Head(relayer.queue)
           waiting == Tail(relayer.queue)
           marked == [i \in DOMAIN waiting |-> [waiting[i] EXCEPT !.nonce = "used"]]
<1>1. UNCHANGED <<env, api>> /\ relayer.queue # <<>>
  BY DEF Mine
<1>2. chain' = Executed(tx) \/ chain' = chain
  BY DEF Mine
<1>3. \E state : task' = Reports(used, tx, state) \/ task' = Reports(task, tx, state)
  BY DEF Mine
<1>4. relayer' = [relayer EXCEPT !.queue = marked] \/ relayer' = [relayer EXCEPT !.queue = waiting]
  BY DEF Mine
<1>5. QueueOK(marked, Operators) /\ QueueOK(waiting, Operators)
  BY <1>1, Shortened DEF AllowInv, RelayerOK
<1>6. ChainOK' /\ Operators \subseteq Operators'
  BY <1>2, ExecutedKeeps DEF AllowInv
<1>7. \A t \in Slots : /\ TaskFields(used[t]) /\ used[t].at = task[t].at /\ used[t].chunk = task[t].chunk
                       /\ used[t].ops = task[t].ops /\ used[t].spenders = task[t].spenders
  BY DEF AllowInv, TaskShape, TaskFields, Fields
<1>8. used = [t \in Slots |-> used[t]]
  OBVIOUS
<1>9. task = [t \in Slots |-> task[t]] /\ \A t \in Slots : TaskFields(task[t])
  BY DEF AllowInv, TaskShape
<1> HIDE DEF used, tx, waiting, marked
<1>10. /\ TaskShape'
       /\ \A t \in Slots : /\ task'[t].at = task[t].at /\ task'[t].chunk = task[t].chunk
                           /\ task'[t].ops = task[t].ops /\ task'[t].spenders = task[t].spenders
  BY <1>3, <1>7, <1>8, <1>9, ReportsAsked DEF AllowInv
<1>11. relayer' = [f \in {"queue", "busy"} |-> relayer'[f]] /\ QueueOK(relayer'.queue, Operators)
  BY <1>4, <1>5 DEF AllowInv, RelayerOK
<1>12. EnvOK' /\ Wallet' = Wallet
  BY <1>1 DEF AllowInv, EnvOK, Wallet
<1> QED BY <1>6, <1>10, <1>11, <1>12, RelayerSteps

LEMMA MineFailsAsked ==
  ASSUME AllowInv, MineFails
  PROVE  AllowInv'
<1>1. relayer.queue # <<>> /\ UNCHANGED <<chain, api>>
  BY DEF MineFails
<1>2. task = [t \in Slots |-> task[t]] /\ \A t \in Slots : TaskFields(task[t])
  BY DEF AllowInv, TaskShape
<1>3. /\ TaskShape'
      /\ \A t \in Slots : /\ task'[t].at = task[t].at /\ task'[t].chunk = task[t].chunk
                          /\ task'[t].ops = task[t].ops /\ task'[t].spenders = task[t].spenders
  BY <1>2, ReportsAsked DEF MineFails, AllowInv
<1>4. QueueOK(Tail(relayer.queue), Operators)
  BY <1>1, Shortened DEF AllowInv, RelayerOK
<1>5. relayer' = [f \in {"queue", "busy"} |-> relayer'[f]] /\ QueueOK(relayer'.queue, Operators)
  BY <1>4 DEF MineFails, AllowInv, RelayerOK
<1>6. EnvSame
  BY EnvCounts DEF MineFails, Fault, AllowInv
<1>7. EnvOK' /\ Wallet' = Wallet
  BY <1>1, <1>6 DEF AllowInv, EnvOK, EnvSame, Wallet
<1>8. ChainOK' /\ Operators' = Operators
  BY <1>1 DEF AllowInv, ChainOK, Operators
<1> QED BY <1>3, <1>5, <1>7, <1>8, RelayerSteps

LEMMA SurroundingsAsked ==
  ASSUME AllowInv, Unlock \/ Lists \/ Drops
  PROVE  AllowInv'
<1>1. UNCHANGED <<task, chain>>
  BY DEF Unlock, Lists, Drops
<1>2. ChainOK' /\ Operators' = Operators /\ TaskShape'
  BY <1>1 DEF AllowInv, ChainOK, Operators, TaskShape
<1>3. relayer' = [f \in {"queue", "busy"} |-> relayer'[f]] /\ QueueOK(relayer'.queue, Operators)
  BY DEF AllowInv, RelayerOK, Unlock, Lists, Drops
<1>4. EnvOK' /\ Wallet' = Wallet
  <2>1. CASE Unlock
    BY <2>1 DEF Unlock, AllowInv, EnvOK, Wallet
  <2>2. CASE Lists
    <3>1. IsFiniteSet(api \cup env.late) /\ IsFiniteSet({})
      BY FS_Union, FS_EmptySet DEF AllowInv, EnvOK
    <3> QED BY <2>2, <3>1 DEF Lists, AllowInv, EnvOK, Wallet
  <2>3. CASE Drops
    <3>1. api' \subseteq api
      BY <2>3 DEF Drops
    <3>2. IsFiniteSet(api')
      BY <3>1, FS_Subset DEF AllowInv, EnvOK
    <3> QED BY <2>3, <3>2 DEF Drops, AllowInv, EnvOK, Wallet
  <2> QED BY <2>1, <2>2, <2>3
<1> QED BY <1>1, <1>2, <1>3, <1>4, RelayerSteps

LEMMA PanelAsked ==
  ASSUME AllowInv, Cool \/ Due \/ Balance \/ PollRowsFails \/ PollChainFails
  PROVE  AllowInv'
<1>1. CASE Cool \/ Due \/ PollRows \/ PollChain
  BY <1>1, EnvKept, SameAsked DEF Cool, Due, PollRows, PollChain
<1>2. CASE PanelLoaded
  BY <1>2, EnvKept, ClaimAsked, SameAsked DEF PanelLoaded
<1>3. CASE PollRowsFails \/ PollChainFails
  <2>1. EnvSame
    BY <1>3, EnvCounts DEF PollRowsFails, PollChainFails, Fault, AllowInv
  <2> QED BY <1>3, <2>1, SameAsked DEF PollRowsFails, PollChainFails
<1> QED BY <1>1, <1>2, <1>3 DEF Balance

-------------------------------------------------------------------------------
LEMMA AllowInit == Init => AllowInv
<1> SUFFICES ASSUME Init PROVE AllowInv
  OBVIOUS
<1>1. PICK s \in Scenarios :
        /\ env = s /\ task = [t \in Slots |-> NoTask] /\ relayer = [queue |-> <<>>, busy |-> FALSE]
        /\ chain = [allowed |-> s.allowed, deployed |-> s.deployed, balance |-> s.balance,
                    payout |-> s.payout, cash |-> [c \in Collaterals |-> 0]]
        /\ api = s.rows \ s.late
  BY DEF Init
<1>2. IsFiniteSet(s.rows \ s.late)
  BY RedeemAssumption, FS_Subset DEF RowsOK
<1>3. EnvOK
  BY <1>1, <1>2, RedeemAssumption DEF EnvOK, RowsOK
<1>4. QueueOK(<<>>, Operators)
  <2>1. <<>> \in Seq({})
    OBVIOUS
  <2> QED BY <2>1 DEF QueueOK, IsSeq
<1>5. RelayerOK
  BY <1>1, <1>4 DEF RelayerOK
<1>6. ChainOK
  BY <1>1 DEF ChainOK, ChainFields
<1>7. NoTask.chunk = 1 /\ NoTask.ops = <<>>
  BY DEF NoTask
<1>8. TaskShape /\ AskedInv
  BY <1>1, <1>7, NoTaskShape, FreshAsked DEF TaskShape, AskedInv
<1> QED BY <1>3, <1>5, <1>6, <1>8 DEF AllowInv

LEMMA AllowStep == AllowInv /\ [Next]_vars => AllowInv'
<1> SUFFICES ASSUME AllowInv, [Next]_vars PROVE AllowInv'
  OBVIOUS
<1>1. CASE UNCHANGED vars
  BY <1>1, EnvKept, SameAsked DEF vars
<1>2. CASE World
  BY <1>2, MineAsked, SurroundingsAsked, PanelAsked DEF World
<1> QED BY <1>1, <1>2, KeysAsked, TaskAsked, MineFailsAsked, PanelAsked DEF Next

(* A batch of redeems that the relayer has accepted for a deposit wallet only calls adapters
   the wallet has allowed: the check, the wait for the approvals and the check again come
   before it for every chunk, and nobody takes an approval back (redeem.rs 650-690). *)
THEOREM ApprovedFirstHolds == Spec => []ApprovedFirst
<1>1. AllowInv => ApprovedFirst
  BY DEF AllowInv, RelayerOK, QueueOK, TxOK, TxApproved, ApprovedFirst
<1> QED BY <1>1, AllowInit, AllowStep, PTL DEF Spec

-------------------------------------------------------------------------------
(* Sums over finite sets. *)

\* The sums of f over the subsets of D, added up in the order in which CHOOSE takes
\* the elements.
First(s) == CHOOSE x \in s : TRUE

IsSums(h, f, D) ==
  h = [s \in D |-> IF s = {} THEN 0 ELSE f[First(s)] + h[s \ {First(s)}]]

Sums(f, D) == CHOOSE h : IsSums(h, f, SUBSET D)

\* The sum of f over S.
SumOf(f, S) == Sums(f, S)[S]

\* Every non-empty set of naturals has a least member.
LEMMA LeastNatural ==
  ASSUME NEW T \in SUBSET Nat, T # {}
  PROVE  \E x \in T : \A y \in T : x <= y
<1> DEFINE R == OpToRel(<, Nat)
<1>1. IsWellFoundedOn(R, Nat)
  BY NatLessThanWellFounded
<1>2. \A x, y \in Nat : x < y => <<x, y>> \in R
  BY DEF OpToRel
<1> HIDE DEF R
<1>3. PICK x \in T : \A y \in T : ~(<<y, x>> \in R)
  BY <1>1, WFMin
<1>4. \A y \in T : ~(y < x)
  BY <1>2, <1>3
<1> QED BY <1>3, <1>4

\* Induction over the subsets of a finite set, with the set of those for which the
\* claim holds in the place of the claim.
LEMMA SubsetInduction ==
  ASSUME NEW s, IsFiniteSet(s), NEW Good,
         {} \in Good,
         \A u \in SUBSET s : u # {} /\ (\A x \in u : u \ {x} \in Good) => u \in Good
  PROVE  \A u \in SUBSET s : u \in Good
<1> DEFINE Bad == {n \in Nat : \E u \in SUBSET s : Cardinality(u) = n /\ u \notin Good}
<1>1. \A u \in SUBSET s : IsFiniteSet(u) /\ Cardinality(u) \in Nat
  BY FS_Subset, FS_CardinalityType
<1>2. Bad = {}
  <2>1. SUFFICES ASSUME Bad # {} PROVE FALSE
    OBVIOUS
  <2>2. PICK n \in Bad : \A m \in Bad : n <= m
    <3> HIDE DEF Bad
    <3>1. Bad \in SUBSET Nat
      BY DEF Bad
    <3> QED BY <2>1, <3>1, LeastNatural
  <2>3. PICK u \in SUBSET s : Cardinality(u) = n /\ u \notin Good
    BY <2>2
  <2>4. n \in Nat
    BY <2>2
  <2>5. ASSUME NEW x \in u PROVE u \ {x} \in Good
    <3>1. u \ {x} \in SUBSET s /\ Cardinality(u \ {x}) = n - 1 /\ Cardinality(u \ {x}) \in Nat
      BY <1>1, <2>3, FS_RemoveElement
    <3>2. Cardinality(u \ {x}) \notin Bad
      <4> HIDE DEF Bad
      <4> QED BY <2>2, <2>4, <3>1
    <3> QED BY <3>1, <3>2
  <2> QED BY <2>3, <2>5
<1>3. ASSUME NEW u \in SUBSET s PROVE u \in Good
  <2>1. Cardinality(u) \in Nat /\ Cardinality(u) \notin Bad
    BY <1>1, <1>2
  <2> QED BY <2>1
<1> QED BY <1>3

\* CHOOSE takes a member.
LEMMA FirstIn == ASSUME NEW s, s # {} PROVE First(s) \in s
  BY DEF First

\* Of a set without its first element there is one element less.
LEMMA WithoutFirst ==
  ASSUME NEW s, IsFiniteSet(s), NEW x \in s
  PROVE  IsFiniteSet(s \ {x}) /\ Cardinality(s \ {x}) = Cardinality(s) - 1 /\ Cardinality(s) \in Nat \ {0}
  BY FS_RemoveElement, FS_CardinalityType, FS_EmptySet

\* The definition by recursion over the subsets has a solution,
LEMMA SumsExist ==
  ASSUME NEW f, NEW D, IsFiniteSet(D)
  PROVE  IsSums(Sums(f, D), f, SUBSET D)
<1> DEFINE Upto(n) == {s \in SUBSET D : Cardinality(s) <= n}
           Lacking == {n \in Nat : ~\E h : IsSums(h, f, Upto(n))}
<1>1. \A s \in SUBSET D : IsFiniteSet(s) /\ Cardinality(s) \in Nat /\ Cardinality(s) <= Cardinality(D)
  BY FS_Subset, FS_CardinalityType
<1>2. Cardinality(D) \in Nat
  BY FS_CardinalityType
<1>3. Lacking = {}
  <2>1. SUFFICES ASSUME Lacking # {} PROVE FALSE
    OBVIOUS
  <2>2. PICK n \in Lacking : \A m \in Lacking : n <= m
    BY <2>1, LeastNatural
  <2>3. CASE n = 0
    <3>1. \A s \in Upto(0) : s = {}
      BY <1>1, FS_EmptySet
    <3>2. IsSums([s \in Upto(0) |-> 0], f, Upto(0))
      BY <3>1 DEF IsSums
    <3> QED BY <2>3, <3>2
  <2>4. CASE n # 0
    <3>1. PICK m \in Nat : m = n - 1
      BY <2>4
    <3>2. PICK h : IsSums(h, f, Upto(m))
      <4>1. n \in Nat
        OBVIOUS
      <4> HIDE DEF Lacking
      <4>2. m \notin Lacking
        BY <2>2, <3>1, <4>1
      <4> QED BY <4>2 DEF Lacking
    <3>3. PICK g : g = [s \in Upto(n) |-> IF s = {} THEN 0 ELSE f[First(s)] + h[s \ {First(s)}]]
      OBVIOUS
    <3>4. ASSUME NEW s \in Upto(m) PROVE s \in Upto(n) /\ g[s] = h[s]
      <4>1. s \in SUBSET D /\ Cardinality(s) <= m /\ Cardinality(s) \in Nat
        BY <1>1
      <4>2. Cardinality(s) <= n
        BY <2>2, <3>1, <4>1
      <4>3. s \in Upto(n)
        BY <4>1, <4>2
      <4>4. h[s] = IF s = {} THEN 0 ELSE f[First(s)] + h[s \ {First(s)}]
        BY <3>2 DEF IsSums
      <4> HIDE DEF Upto
      <4> QED BY <3>3, <4>3, <4>4
    <3>5. ASSUME NEW s \in Upto(n), s # {} PROVE g[s \ {First(s)}] = h[s \ {First(s)}]
      <4>1. s \ {First(s)} \in Upto(m)
        BY <1>1, <3>1, <3>5, FirstIn, WithoutFirst
      <4> QED BY <3>4, <4>1
    <3>6. IsSums(g, f, Upto(n))
      <4> HIDE DEF Upto
      <4> QED BY <3>3, <3>5 DEF IsSums
    <3> QED BY <3>6
  <2> QED BY <2>3, <2>4
<1>4. PICK h : IsSums(h, f, Upto(Cardinality(D)))
  BY <1>2, <1>3
<1>5. Upto(Cardinality(D)) = SUBSET D
  BY <1>1
<1> HIDE DEF Upto, Lacking
<1>6. \E g : IsSums(g, f, SUBSET D)
  BY <1>4, <1>5
<1> QED BY <1>6 DEF Sums

\* and only one.
LEMMA SumsUnique ==
  ASSUME NEW f, NEW D, IsFiniteSet(D), NEW s \in SUBSET D, NEW h, IsSums(h, f, SUBSET s)
  PROVE  Sums(f, D)[s] = h[s]
<1>1. PICK k : k = Sums(f, D)
  OBVIOUS
<1>2. \A t \in SUBSET D : k[t] = IF t = {} THEN 0 ELSE f[First(t)] + k[t \ {First(t)}]
  <2>1. IsSums(k, f, SUBSET D)
    BY <1>1, SumsExist
  <2> QED BY <2>1 DEF IsSums
<1>3. \A t \in SUBSET s : h[t] = IF t = {} THEN 0 ELSE f[First(t)] + h[t \ {First(t)}]
  BY DEF IsSums
<1> DEFINE Good == {t \in SUBSET s : k[t] = h[t]}
<1>4. {} \in Good
  BY <1>2, <1>3
<1>5. ASSUME NEW u \in SUBSET s, u # {}, \A x \in u : u \ {x} \in Good PROVE u \in Good
  <2>1. k[u \ {First(u)}] = h[u \ {First(u)}]
    BY <1>5, FirstIn
  <2> QED BY <1>2, <1>3, <1>5, <2>1
<1>6. IsFiniteSet(s)
  BY FS_Subset
<1> HIDE DEF Good
<1>7. s \in Good
  BY <1>4, <1>5, <1>6, SubsetInduction
<1> QED BY <1>1, <1>7 DEF Good

\* A sum over a subset does not depend on the superset.
LEMMA SumsAre ==
  ASSUME NEW f, NEW D, IsFiniteSet(D), NEW s \in SUBSET D
  PROVE  Sums(f, D)[s] = SumOf(f, s)
<1>1. IsFiniteSet(s)
  BY FS_Subset
<1>2. IsSums(Sums(f, s), f, SUBSET s)
  BY <1>1, SumsExist
<1> QED BY <1>2, SumsUnique DEF SumOf

\* The empty sum, and the sum with its first element apart.
LEMMA SumFirst ==
  ASSUME NEW f, NEW s, IsFiniteSet(s)
  PROVE  SumOf(f, s) = IF s = {} THEN 0 ELSE f[First(s)] + SumOf(f, s \ {First(s)})
<1>1. IsSums(Sums(f, s), f, SUBSET s)
  BY SumsExist
<1>2. s \in SUBSET s /\ (s # {} => s \ {First(s)} \in SUBSET s)
  OBVIOUS
<1>3. Sums(f, s)[s] = IF s = {} THEN 0 ELSE f[First(s)] + Sums(f, s)[s \ {First(s)}]
  BY <1>1, <1>2 DEF IsSums
<1>4. s # {} => Sums(f, s)[s \ {First(s)}] = SumOf(f, s \ {First(s)})
  BY <1>2, SumsAre
<1> QED BY <1>3, <1>4 DEF SumOf

\* A sum of integers is an integer,
LEMMA SumInt ==
  ASSUME NEW s, IsFiniteSet(s), NEW f, \A x \in s : f[x] \in Int
  PROVE  SumOf(f, s) \in Int
<1> DEFINE Good == {t \in SUBSET s : SumOf(f, t) \in Int}
<1>1. \A t \in SUBSET s : IsFiniteSet(t)
  BY FS_Subset
<1>2. {} \in Good
  <2>1. SumOf(f, {}) = 0
    BY <1>1, SumFirst
  <2> QED BY <2>1
<1>3. ASSUME NEW u \in SUBSET s, u # {}, \A x \in u : u \ {x} \in Good PROVE u \in Good
  <2>1. PICK c \in u : c = First(u)
    BY <1>3, FirstIn
  <2>2. SumOf(f, u) = f[c] + SumOf(f, u \ {c})
    BY <1>1, <1>3, <2>1, SumFirst
  <2> QED BY <1>3, <2>2
<1> HIDE DEF Good
<1>4. s \in Good
  BY <1>2, <1>3, SubsetInduction
<1> QED BY <1>4 DEF Good

\* and any element can be taken apart.
LEMMA SumRemove ==
  ASSUME NEW s, IsFiniteSet(s), NEW f, \A x \in s : f[x] \in Int
  PROVE  \A x \in s : SumOf(f, s) = f[x] + SumOf(f, s \ {x})
<1> DEFINE Good == {t \in SUBSET s : \A x \in t : SumOf(f, t) = f[x] + SumOf(f, t \ {x})}
<1>1. \A t \in SUBSET s : IsFiniteSet(t) /\ SumOf(f, t) \in Int
  <2>1. \A t \in SUBSET s : IsFiniteSet(t)
    BY FS_Subset
  <2> QED BY <2>1, SumInt
<1>2. {} \in Good
  OBVIOUS
<1>3. ASSUME NEW u \in SUBSET s, u # {}, \A x \in u : u \ {x} \in Good PROVE u \in Good
  <2>1. PICK c \in u : c = First(u)
    BY <1>3, FirstIn
  <2>2. SumOf(f, u) = f[c] + SumOf(f, u \ {c})
    BY <1>1, <1>3, <2>1, SumFirst
  <2>3. ASSUME NEW x \in u, x # c PROVE SumOf(f, u) = f[x] + SumOf(f, u \ {x})
    <3>1. PICK v \in SUBSET s : v = (u \ {c}) \ {x} /\ v = (u \ {x}) \ {c}
      OBVIOUS
    <3>2. SumOf(f, u \ {c}) = f[x] + SumOf(f, v)
      BY <1>3, <2>3, <3>1
    <3>3. SumOf(f, u \ {x}) = f[c] + SumOf(f, v)
      BY <1>3, <2>3, <3>1
    <3>4. f[x] \in Int /\ f[c] \in Int /\ SumOf(f, v) \in Int
      BY <1>1
    <3> QED BY <2>2, <3>2, <3>3, <3>4
  <2> QED BY <2>2, <2>3
<1> HIDE DEF Good
<1>4. s \in Good
  BY <1>2, <1>3, SubsetInduction
<1> QED BY <1>4 DEF Good

\* The empty sum.
LEMMA SumEmpty == \A f : SumOf(f, {}) = 0
  BY SumFirst, FS_EmptySet

\* A sum of naturals is a natural.
LEMMA SumNat ==
  ASSUME NEW s, IsFiniteSet(s), NEW f, \A x \in s : f[x] \in Nat
  PROVE  SumOf(f, s) \in Nat
<1> DEFINE Good == {t \in SUBSET s : SumOf(f, t) \in Nat}
<1>1. \A t \in SUBSET s : IsFiniteSet(t)
  BY FS_Subset
<1>2. {} \in Good
  BY SumEmpty
<1>3. ASSUME NEW u \in SUBSET s, u # {}, \A x \in u : u \ {x} \in Good PROVE u \in Good
  <2>1. PICK c \in u : c = First(u)
    BY <1>3, FirstIn
  <2>2. SumOf(f, u) = f[c] + SumOf(f, u \ {c})
    BY <1>1, <1>3, <2>1, SumFirst
  <2> QED BY <1>3, <2>2
<1> HIDE DEF Good
<1>4. \A u \in SUBSET s : u \in Good
  BY <1>2, <1>3, SubsetInduction, SMT
<1> QED BY <1>4 DEF Good

\* A sum is at most another one if each of its terms has a term of its own there that is
\* as large, and the other terms are not negative.
LEMMA SumCovered ==
  ASSUME NEW s, IsFiniteSet(s), NEW t, IsFiniteSet(t), NEW f, NEW g, NEW m,
         \A x \in s : f[x] \in Int /\ m[x] \in t /\ f[x] <= g[m[x]],
         \A y \in t : g[y] \in Nat,
         \A x, y \in s : m[x] = m[y] => x = y
  PROVE  SumOf(f, s) <= SumOf(g, t)
<1> DEFINE Good == {u \in SUBSET s :
                      \A v \in SUBSET t : (\A x \in u : m[x] \in v) => SumOf(f, u) <= SumOf(g, v)}
<1>1. /\ \A u \in SUBSET s : IsFiniteSet(u) /\ SumOf(f, u) \in Int
      /\ \A v \in SUBSET t : IsFiniteSet(v) /\ SumOf(g, v) \in Nat
  <2>1. (\A u \in SUBSET s : IsFiniteSet(u)) /\ \A v \in SUBSET t : IsFiniteSet(v)
    BY FS_Subset
  <2> QED BY <2>1, SumInt, SumNat
<1>2. {} \in Good
  BY <1>1, SumEmpty
<1>3. ASSUME NEW u \in SUBSET s, u # {}, \A x \in u : u \ {x} \in Good PROVE u \in Good
  <2> SUFFICES ASSUME NEW v \in SUBSET t, \A x \in u : m[x] \in v PROVE SumOf(f, u) <= SumOf(g, v)
    OBVIOUS
  <2>1. PICK c \in u : TRUE
    BY <1>3
  <2>2. PICK w \in SUBSET t : w = v \ {m[c]}
    OBVIOUS
  <2>3. SumOf(f, u \ {c}) <= SumOf(g, w)
    <3>1. \A x \in u \ {c} : m[x] \in w
      BY <2>2
    <3> QED BY <1>3, <3>1
  <2>4. SumOf(f, u) = f[c] + SumOf(f, u \ {c})
    BY <1>1, SumRemove
  <2>5. SumOf(g, v) = g[m[c]] + SumOf(g, w)
    BY <1>1, <2>2, SumRemove
  <2>6. f[c] \in Int /\ g[m[c]] \in Nat /\ f[c] <= g[m[c]] /\ SumOf(f, u \ {c}) \in Int /\ SumOf(g, w) \in Nat
    BY <1>1
  <2> QED BY <2>3, <2>4, <2>5, <2>6
<1> HIDE DEF Good
<1>4. s \in Good
  BY <1>2, <1>3, SubsetInduction
<1>5. t \in SUBSET t /\ \A x \in s : m[x] \in t
  OBVIOUS
<1> QED BY <1>4, <1>5 DEF Good

-------------------------------------------------------------------------------
(* The sums of the balance panel. *)

\* The images of a finite set are finitely many.
LEMMA ImageFinite ==
  ASSUME NEW S, IsFiniteSet(S), NEW f, NEW T, T = {f[x] : x \in S}
  PROVE  IsFiniteSet(T)
<1> DEFINE g == [x \in S |-> f[x]]
<1>1. g \in [S -> T] /\ \A y \in T : \E x \in S : g[x] = y
  OBVIOUS
<1>2. g \in Surjection(S, T)
  BY <1>1 DEF Surjection
<1> QED BY <1>2, FS_Surjection

\* The greatest member of a finite set of naturals.
LEMMA MaxNat ==
  ASSUME NEW T, IsFiniteSet(T), T \in SUBSET Nat, T # {}
  PROVE  Max(T) \in T /\ \A y \in T : Max(T) >= y
<1> DEFINE Good == {t \in SUBSET T : t # {} => \E x \in t : \A y \in t : x >= y}
<1>1. {} \in Good
  OBVIOUS
<1>2. ASSUME NEW u \in SUBSET T, u # {}, \A x \in u : u \ {x} \in Good PROVE u \in Good
  <2>1. PICK c \in u : c \in Nat
    BY <1>2
  <2>2. CASE u \ {c} = {}
    <3>1. \A y \in u : c >= y
      BY <2>1, <2>2
    <3> QED BY <3>1
  <2>3. CASE u \ {c} # {}
    <3>1. PICK x \in u \ {c} : \A y \in u \ {c} : x >= y
      BY <1>2, <2>3
    <3>2. x \in Nat
      OBVIOUS
    <3>3. CASE x >= c
      <4>1. \A y \in u : x >= y
        BY <3>1, <3>3
      <4> QED BY <4>1
    <3>4. CASE c >= x
      <4>1. \A y \in u : y \in Nat
        OBVIOUS
      <4>2. \A y \in u : c >= y
        BY <2>1, <3>1, <3>2, <3>4, <4>1
      <4> QED BY <4>2
    <3> QED BY <2>1, <3>2, <3>3, <3>4
  <2> QED BY <2>2, <2>3
<1> HIDE DEF Good
<1>3. \A u \in SUBSET T : u \in Good
  <2>1. \A u \in SUBSET T : u # {} /\ (\A x \in u : u \ {x} \in Good) => u \in Good
    BY <1>2
  <2> QED BY <1>1, <2>1, SubsetInduction, Zenon
<1>4. T \in Good
  BY <1>3, Zenon
<1>5. \E x \in T : \A y \in T : x >= y
  BY <1>4 DEF Good
<1> QED BY <1>5 DEF Max

\* The conditions and the tokens of the rows.
CondsOf(rows)  == {k[1] : k \in Keys(rows)}
TokensOf(rows) == {k[2] : k \in Keys(rows)}

\* The terms of the three sums.
ValueOf(S)   == [r \in S |-> r.value]
PaysOf(ch)   == [k \in DOMAIN ch.balance |-> Pays(k, ch.payout[k[1]], ch.balance[k])]
WorthOf(rows, ch) ==
  [k \in Keys(rows) |->
     Worth(k, ApiValue(rows, k), Payouts(ch, CondsOf(rows), {})[k[1]],
           Balances(ch, TokensOf(rows), {})[k[2]])]

\* The recursions MapThenSumSet unfolds to.
ValueIter(S) ==
  CHOOSE h : h = [s \in SUBSET S |-> IF s = {} THEN 0 ELSE First(s).value + h[s \ {First(s)}]]
PaysIter(S, ch) ==
  CHOOSE h : h = [s \in SUBSET S |->
                    IF s = {} THEN 0
                    ELSE Pays(First(s), ch.payout[First(s)[1]], ch.balance[First(s)]) + h[s \ {First(s)}]]
WorthIter(S, rows, ch) ==
  CHOOSE h : h = [s \in SUBSET S |->
                    IF s = {} THEN 0
                    ELSE Worth(First(s), ApiValue(rows, First(s)),
                               Payouts(ch, CondsOf(rows), {})[First(s)[1]],
                               Balances(ch, TokensOf(rows), {})[First(s)[2]]) + h[s \ {First(s)}]]

\* The values of a set of rows, added up.
LEMMA ValuesAre ==
  ASSUME NEW S, IsFiniteSet(S)
  PROVE  MapThenSumSet(LAMBDA r : r.value, S) = SumOf(ValueOf(S), S)
<1>1. MapThenSumSet(LAMBDA r : r.value, S) = ValueIter(S)[S]
  BY DEF MapThenSumSet, MapThenFoldSet, ValueIter, First
<1>2. ASSUME NEW h
      PROVE  IsSums(h, ValueOf(S), SUBSET S) <=>
               h = [s \in SUBSET S |-> IF s = {} THEN 0 ELSE First(s).value + h[s \ {First(s)}]]
  <2>1. \A s \in SUBSET S : s # {} => ValueOf(S)[First(s)] = First(s).value
    BY FirstIn DEF ValueOf
  <2>2. [s \in SUBSET S |-> IF s = {} THEN 0 ELSE ValueOf(S)[First(s)] + h[s \ {First(s)}]]
          = [s \in SUBSET S |-> IF s = {} THEN 0 ELSE First(s).value + h[s \ {First(s)}]]
    BY <2>1
  <2> QED BY <2>2 DEF IsSums
<1>3. IsSums(Sums(ValueOf(S), S), ValueOf(S), SUBSET S)
  BY SumsExist
<1>4. \E h : h = [s \in SUBSET S |-> IF s = {} THEN 0 ELSE First(s).value + h[s \ {First(s)}]]
  BY <1>2, <1>3
<1>5. IsSums(ValueIter(S), ValueOf(S), SUBSET S)
  BY <1>2, <1>4 DEF ValueIter
<1>6. Sums(ValueOf(S), S)[S] = ValueIter(S)[S]
  BY <1>5, SumsUnique
<1> QED BY <1>1, <1>6 DEF SumOf

\* What the chain pays for a set of tokens.
LEMMA PaysAre ==
  ASSUME NEW ch, NEW S, S \in SUBSET DOMAIN ch.balance, IsFiniteSet(S)
  PROVE  MapThenSumSet(LAMBDA k : Pays(k, ch.payout[k[1]], ch.balance[k]), S) = SumOf(PaysOf(ch), S)
<1> DEFINE Term(k) == Pays(k, ch.payout[k[1]], ch.balance[k])
<1>1. MapThenSumSet(LAMBDA k : Pays(k, ch.payout[k[1]], ch.balance[k]), S) = PaysIter(S, ch)[S]
  BY DEF MapThenSumSet, MapThenFoldSet, PaysIter, First
<1>2. ASSUME NEW h
      PROVE  IsSums(h, PaysOf(ch), SUBSET S) <=>
               h = [s \in SUBSET S |-> IF s = {} THEN 0 ELSE Term(First(s)) + h[s \ {First(s)}]]
  <2>1. \A s \in SUBSET S : s # {} => PaysOf(ch)[First(s)] = Term(First(s))
    BY FirstIn DEF PaysOf
  <2> HIDE DEF Term
  <2>2. [s \in SUBSET S |-> IF s = {} THEN 0 ELSE PaysOf(ch)[First(s)] + h[s \ {First(s)}]]
          = [s \in SUBSET S |-> IF s = {} THEN 0 ELSE Term(First(s)) + h[s \ {First(s)}]]
    BY <2>1
  <2> QED BY <2>2 DEF IsSums
<1>3. IsSums(Sums(PaysOf(ch), S), PaysOf(ch), SUBSET S)
  BY SumsExist
<1>4. PaysIter(S, ch) = CHOOSE h : h = [s \in SUBSET S |-> IF s = {} THEN 0 ELSE Term(First(s)) + h[s \ {First(s)}]]
  BY DEF PaysIter
<1> HIDE DEF Term
<1>5. \E h : h = [s \in SUBSET S |-> IF s = {} THEN 0 ELSE Term(First(s)) + h[s \ {First(s)}]]
  BY <1>2, <1>3
<1>6. IsSums(PaysIter(S, ch), PaysOf(ch), SUBSET S)
  BY <1>2, <1>4, <1>5
<1>7. Sums(PaysOf(ch), S)[S] = PaysIter(S, ch)[S]
  BY <1>6, SumsUnique
<1> QED BY <1>1, <1>7 DEF SumOf

\* What the panel reads for the tokens of the rows.
LEMMA WorthsAre ==
  ASSUME NEW rows, NEW ch, IsFiniteSet(Keys(rows))
  PROVE  ClaimStandard(rows, ch, {}) = SumOf(WorthOf(rows, ch), Keys(rows))
<1> DEFINE S == Keys(rows)
           Term(k) == Worth(k, ApiValue(rows, k), Payouts(ch, CondsOf(rows), {})[k[1]],
                            Balances(ch, TokensOf(rows), {})[k[2]])
<1>1. ClaimStandard(rows, ch, {}) = WorthIter(S, rows, ch)[S]
  BY DEF ClaimStandard, MapThenSumSet, MapThenFoldSet, WorthIter, First, CondsOf, TokensOf
<1>2. WorthOf(rows, ch) = [k \in S |-> Term(k)]
  BY DEF WorthOf
<1>3. WorthIter(S, rows, ch) = CHOOSE h : h = [s \in SUBSET S |-> IF s = {} THEN 0 ELSE Term(First(s)) + h[s \ {First(s)}]]
  BY DEF WorthIter
<1> HIDE DEF Term, S
<1>4. ASSUME NEW h
      PROVE  IsSums(h, WorthOf(rows, ch), SUBSET S) <=>
               h = [s \in SUBSET S |-> IF s = {} THEN 0 ELSE Term(First(s)) + h[s \ {First(s)}]]
  <2>1. \A s \in SUBSET S : s # {} => WorthOf(rows, ch)[First(s)] = Term(First(s))
    BY <1>2, FirstIn
  <2>2. [s \in SUBSET S |-> IF s = {} THEN 0 ELSE WorthOf(rows, ch)[First(s)] + h[s \ {First(s)}]]
          = [s \in SUBSET S |-> IF s = {} THEN 0 ELSE Term(First(s)) + h[s \ {First(s)}]]
    BY <2>1
  <2> QED BY <2>2 DEF IsSums
<1>5. IsFiniteSet(S)
  BY DEF S
<1>6. IsSums(Sums(WorthOf(rows, ch), S), WorthOf(rows, ch), SUBSET S)
  BY <1>5, SumsExist
<1>7. \E h : h = [s \in SUBSET S |-> IF s = {} THEN 0 ELSE Term(First(s)) + h[s \ {First(s)}]]
  BY <1>4, <1>6
<1>8. IsSums(WorthIter(S, rows, ch), WorthOf(rows, ch), SUBSET S)
  BY <1>3, <1>4, <1>7
<1>9. Sums(WorthOf(rows, ch), S)[S] = WorthIter(S, rows, ch)[S]
  BY <1>5, <1>8, SumsUnique
<1>10. ClaimStandard(rows, ch, {}) = SumOf(WorthOf(rows, ch), S)
  BY <1>1, <1>9 DEF SumOf
<1> QED BY <1>10 DEF S

\* What the sums are taken over: finitely many rows and tokens, and values that are naturals.
LEMMA RowsCounted ==
  ASSUME NEW payout, NEW rows, RowsOK(rows, payout)
  PROVE  /\ IsFiniteSet(Finite(rows)) /\ IsFiniteSet(Standard(rows)) /\ IsFiniteSet(Keys(rows))
         /\ \A r \in Finite(rows) : r.value \in Nat
         /\ Standard(rows) \in SUBSET Finite(rows)
         /\ \A k \in Keys(rows) : k[1] \in DOMAIN payout /\ ApiValue(rows, k) \in Nat
<1>1. Finite(rows) \in SUBSET rows /\ Standard(rows) \in SUBSET Finite(rows)
  BY DEF Finite, Standard
<1>2. IsFiniteSet(Finite(rows)) /\ IsFiniteSet(Standard(rows))
  BY <1>1, FS_Subset DEF RowsOK
<1>3. \A r \in Finite(rows) : r.value \in Nat
  BY DEF RowsOK, Finite
<1>4. IsFiniteSet(Keys(rows))
  <2> DEFINE f == [r \in Standard(rows) |-> <<r.cond, r.asset>>]
  <2>1. Keys(rows) = {f[r] : r \in Standard(rows)}
    BY DEF Keys
  <2> HIDE DEF f
  <2> QED BY <1>2, <2>1, ImageFinite
<1>5. ASSUME NEW k \in Keys(rows) PROVE k[1] \in DOMAIN payout /\ ApiValue(rows, k) \in Nat
  <2> DEFINE S == {s \in Standard(rows) : <<s.cond, s.asset>> = k}
             T == {r.value : r \in S}
             f == [r \in S |-> r.value]
  <2>1. PICK r \in Standard(rows) : k = <<r.cond, r.asset>>
    BY DEF Keys
  <2>2. r.cond \in DOMAIN payout
    BY <1>1 DEF RowsOK, Standard
  <2>3. IsFiniteSet(S) /\ r \in S /\ S \in SUBSET Finite(rows)
    BY <1>1, <1>2, <2>1, FS_Subset
  <2>4. ApiValue(rows, k) = Max(T)
    BY DEF ApiValue
  <2>5. T = {f[x] : x \in S}
    OBVIOUS
  <2>6. T # {} /\ T \in SUBSET Nat
    BY <1>3, <2>3
  <2> HIDE DEF S, T, f
  <2>7. IsFiniteSet(T)
    BY <2>3, <2>5, ImageFinite
  <2> QED BY <2>1, <2>2, <2>4, <2>6, <2>7, MaxNat
<1> QED BY <1>1, <1>2, <1>3, <1>4, <1>5

\* A share of an amount is a natural.
LEMMA ShareNat ==
  ASSUME NEW a \in Nat, NEW b \in Nat, NEW d \in Nat, d # 0
  PROVE  (a * b) \div d \in Nat
<1>1. a * b \in Nat
  OBVIOUS
<1> QED BY <1>1

\* What is known of a chain: see RedeemAssumption.
PaysOK(ch) == PayoutOK(ch.payout) /\ BalanceOK(ch.balance, ch.payout)

\* The tokens of the rows, see PaidOut.
Held(rows, ch) == {k \in DOMAIN ch.balance : \E r \in Standard(rows) : r.asset = k /\ r.cond = k[1]}

\* What a multicall reads that does not fail.
LEMMA AllRead ==
  ASSUME NEW rows, NEW ch, PaysOK(ch), RowsOK(rows, ch.payout), NEW k \in Keys(rows)
  PROVE  LET p == Payouts(ch, CondsOf(rows), {})[k[1]]
             b == Balances(ch, TokensOf(rows), {})[k[2]]
         IN  /\ \A i \in 1..3 : p[i] = ch.payout[k[1]][i] /\ p[i] \in Nat
             /\ b \in Nat
             /\ k[2] \in DOMAIN ch.balance => b = ch.balance[k[2]]
<1>1. k[1] \in CondsOf(rows) /\ k[2] \in TokensOf(rows)
  BY DEF CondsOf, TokensOf
<1>2. k[1] \in DOMAIN ch.payout
  BY RowsCounted
<1>3. \A c : c \notin {}
  OBVIOUS
<1>4. Payouts(ch, CondsOf(rows), {})[k[1]] = [i \in 1..3 |-> ch.payout[k[1]][i]]
  BY <1>1 DEF Payouts, Read
<1>5. Balances(ch, TokensOf(rows), {})[k[2]] = IF k[2] \in DOMAIN ch.balance THEN ch.balance[k[2]] ELSE 0
  BY <1>1 DEF Balances, Read
<1>6. \A i \in 1..3 : ch.payout[k[1]][i] \in Nat
  BY <1>2 DEF PaysOK, PayoutOK
<1>7. k[2] \in DOMAIN ch.balance => ch.balance[k[2]] \in Nat
  BY DEF PaysOK, BalanceOK
<1> QED BY <1>4, <1>5, <1>6, <1>7

\* What a token is worth is a natural, whatever the chain says of it.
LEMMA WorthNat ==
  ASSUME NEW k, NEW value \in Nat, NEW p, \A i \in 1..3 : p[i] \in Nat, NEW b \in Nat
  PROVE  Worth(k, value, p, b) \in Nat
<1>1. p[1] \in Nat /\ p[2] \in Nat /\ p[3] \in Nat
  OBVIOUS
<1>2. p[1] # 0 => (b * p[2]) \div p[1] \in Nat /\ (b * p[3]) \div p[1] \in Nat
  BY <1>1, ShareNat
<1>3. p[1] # 0 => Slot(k[2], p, b) \in Nat
  BY <1>2 DEF Slot
<1> QED BY <1>3 DEF Worth

\* It is at least what the chain pays for it.
LEMMA WorthPaid ==
  ASSUME NEW c, NEW t \in PositionIds(c), NEW value \in Nat, NEW p, \A i \in 1..3 : p[i] \in Nat, NEW b \in Nat,
         NEW q, \A i \in 1..3 : q[i] = p[i]
  PROVE  Pays(t, p, b) \in Nat /\ Pays(t, p, b) <= Worth(<<c, t>>, value, q, b)
<1>1. p[1] \in Nat /\ p[2] \in Nat /\ p[3] \in Nat /\ q[1] = p[1] /\ q[2] = p[2] /\ q[3] = p[3]
  OBVIOUS
<1>2. t[2] \in {1, 2}
  BY DEF PositionIds, Outcomes
<1>3. p[1] # 0 => (b * p[2]) \div p[1] \in Nat /\ (b * p[3]) \div p[1] \in Nat
  BY <1>1, ShareNat
<1>4. CASE p[1] = 0
  <2>1. Pays(t, p, b) = 0
    BY <1>4 DEF Pays, Reported
  <2>2. Worth(<<c, t>>, value, q, b) = value
    BY <1>1, <1>4 DEF Worth
  <2> QED BY <2>1, <2>2
<1>5. CASE p[1] # 0
  <2>1. p[t[2] + 1] = IF t[2] = 1 THEN p[2] ELSE p[3]
    BY <1>2
  <2>2. Pays(t, p, b) = Slot(t, q, b)
    BY <1>1, <1>5, <2>1 DEF Pays, Reported, Slot, IsOutcomeOne
  <2>3. Slot(t, q, b) \in Nat
    BY <1>1, <1>3, <1>5 DEF Slot
  <2>4. Worth(<<c, t>>, value, q, b) = IF Slot(t, q, b) = 0 THEN value ELSE Slot(t, q, b)
    BY <1>1, <1>5 DEF Worth
  <2> HIDE DEF Slot
  <2> QED BY <2>2, <2>3, <2>4
<1> QED BY <1>4, <1>5

\* What the panel reads of the chain covers what the chain pays.
LEMMA StandardCovers ==
  ASSUME NEW rows, NEW ch, PaysOK(ch), RowsOK(rows, ch.payout)
  PROVE  /\ ClaimStandard(rows, ch, {}) \in Nat
         /\ MapThenSumSet(LAMBDA k : Pays(k, ch.payout[k[1]], ch.balance[k]), Held(rows, ch)) \in Nat
         /\ MapThenSumSet(LAMBDA k : Pays(k, ch.payout[k[1]], ch.balance[k]), Held(rows, ch))
              <= ClaimStandard(rows, ch, {})
<1> DEFINE m == [k \in Held(rows, ch) |-> <<k[1], k>>]
<1>1. IsFiniteSet(Keys(rows)) /\ \A k \in Keys(rows) : ApiValue(rows, k) \in Nat
  BY RowsCounted
<1>2. Held(rows, ch) \in SUBSET DOMAIN ch.balance /\ IsFiniteSet(Held(rows, ch))
  <2>1. Held(rows, ch) \in SUBSET DOMAIN ch.balance
    BY DEF Held
  <2> QED BY <2>1, FS_Subset DEF PaysOK, BalanceOK
<1>3. \A k \in Keys(rows) : WorthOf(rows, ch)[k] = Worth(k, ApiValue(rows, k), Payouts(ch, CondsOf(rows), {})[k[1]], Balances(ch, TokensOf(rows), {})[k[2]])
  BY DEF WorthOf
<1>4. ASSUME NEW k \in Keys(rows)
      PROVE  /\ \A i \in 1..3 : Payouts(ch, CondsOf(rows), {})[k[1]][i] = ch.payout[k[1]][i]
             /\ k[2] \in DOMAIN ch.balance => Balances(ch, TokensOf(rows), {})[k[2]] = ch.balance[k[2]]
             /\ WorthOf(rows, ch)[k] \in Nat
  <2>1. /\ \A i \in 1..3 : Payouts(ch, CondsOf(rows), {})[k[1]][i] = ch.payout[k[1]][i] /\ Payouts(ch, CondsOf(rows), {})[k[1]][i] \in Nat
        /\ Balances(ch, TokensOf(rows), {})[k[2]] \in Nat
        /\ k[2] \in DOMAIN ch.balance => Balances(ch, TokensOf(rows), {})[k[2]] = ch.balance[k[2]]
    BY AllRead
  <2>2. WorthOf(rows, ch)[k] \in Nat
    BY <1>1, <1>3, <2>1, WorthNat
  <2> QED BY <2>1, <2>2
<1>5. ASSUME NEW k \in Held(rows, ch)
      PROVE  /\ <<k[1], k>> \in Keys(rows)
             /\ PaysOf(ch)[k] \in Nat
             /\ PaysOf(ch)[k] <= WorthOf(rows, ch)[<<k[1], k>>]
  <2>1. PICK q \in Keys(rows) : q = <<k[1], k>>
    BY DEF Held, Keys
  <2>2. k \in DOMAIN ch.balance /\ k \in PositionIds(k[1]) /\ k[1] \in DOMAIN ch.payout
    BY <1>2 DEF PaysOK, BalanceOK
  <2>3. /\ \A i \in 1..3 : Payouts(ch, CondsOf(rows), {})[k[1]][i] = ch.payout[k[1]][i]
        /\ Balances(ch, TokensOf(rows), {})[k] = ch.balance[k]
    <3>1. q[1] = k[1] /\ q[2] = k
      BY <2>1
    <3> QED BY <1>4, <2>2, <3>1
  <2>4. (\A i \in 1..3 : ch.payout[k[1]][i] \in Nat) /\ ch.balance[k] \in Nat
    BY <2>2 DEF PaysOK, PayoutOK, BalanceOK
  <2>5. PaysOf(ch)[k] = Pays(k, ch.payout[k[1]], ch.balance[k])
    BY <2>2 DEF PaysOf
  <2>6. WorthOf(rows, ch)[q] = Worth(q, ApiValue(rows, q), Payouts(ch, CondsOf(rows), {})[k[1]], Balances(ch, TokensOf(rows), {})[k])
    <3>1. q[1] = k[1] /\ q[2] = k
      BY <2>1
    <3> QED BY <1>3, <3>1
  <2>7. ApiValue(rows, q) \in Nat
    BY <1>1
  <2>8. Pays(k, ch.payout[k[1]], ch.balance[k]) \in Nat
        /\ Pays(k, ch.payout[k[1]], ch.balance[k]) <= Worth(q, ApiValue(rows, q), Payouts(ch, CondsOf(rows), {})[k[1]], ch.balance[k])
    BY <2>1, <2>2, <2>3, <2>4, <2>7, WorthPaid
  <2> QED BY <2>1, <2>3, <2>5, <2>6, <2>8
<1>6. SumOf(WorthOf(rows, ch), Keys(rows)) \in Nat
  BY <1>1, <1>4, SumNat
<1>7. SumOf(PaysOf(ch), Held(rows, ch)) \in Nat
  BY <1>2, <1>5, SumNat
<1>8. SumOf(PaysOf(ch), Held(rows, ch)) <= SumOf(WorthOf(rows, ch), Keys(rows))
  <2>1. \A k \in Held(rows, ch) : m[k] = <<k[1], k>>
    OBVIOUS
  <2> HIDE DEF m
  <2>2. \A k \in Held(rows, ch) : PaysOf(ch)[k] \in Int /\ m[k] \in Keys(rows) /\ PaysOf(ch)[k] <= WorthOf(rows, ch)[m[k]]
    BY <1>5, <2>1
  <2>3. \A k, q \in Held(rows, ch) : m[k] = m[q] => k = q
    BY <2>1
  <2>4. \A k \in Keys(rows) : WorthOf(rows, ch)[k] \in Nat
    BY <1>4
  <2> QED BY <1>1, <1>2, <2>2, <2>3, <2>4, SumCovered
<1>9. ClaimStandard(rows, ch, {}) = SumOf(WorthOf(rows, ch), Keys(rows))
  BY <1>1, WorthsAre
<1>10. MapThenSumSet(LAMBDA k : Pays(k, ch.payout[k[1]], ch.balance[k]), Held(rows, ch)) = SumOf(PaysOf(ch), Held(rows, ch))
  BY <1>2, PaysAre, Zenon
<1>11. MapThenSumSet(LAMBDA k : Pays(k, ch.payout[k[1]], ch.balance[k]), Held(rows, ch)) \in Nat
  BY <1>7, <1>10, Zenon
<1>12. PICK total : total = MapThenSumSet(LAMBDA k : Pays(k, ch.payout[k[1]], ch.balance[k]), Held(rows, ch))
  OBVIOUS
<1>13. total = SumOf(PaysOf(ch), Held(rows, ch))
  BY <1>10, <1>12, Zenon
<1>14. total <= ClaimStandard(rows, ch, {})
  BY <1>8, <1>9, <1>13
<1>15. ClaimStandard(rows, ch, {}) \in Nat
  BY <1>6, <1>9
<1> QED BY <1>11, <1>12, <1>14, <1>15, Zenon

\* The panel shows at least what it reads of the chain.
LEMMA ClaimableCovers ==
  ASSUME NEW rows, NEW ch, PaysOK(ch), RowsOK(rows, ch.payout)
  PROVE  /\ Claimable(rows, ch, {}) \in Nat
         /\ ClaimStandard(rows, ch, {}) <= Claimable(rows, ch, {})
<1> DEFINE neg == {r \in Finite(rows) : r.neg}
<1>1. IsFiniteSet(Finite(rows)) /\ \A r \in Finite(rows) : r.value \in Nat
  BY RowsCounted
<1>2. ASSUME NEW S \in SUBSET Finite(rows) PROVE SumOf(ValueOf(S), S) \in Nat
  <2>1. IsFiniteSet(S)
    BY <1>1, FS_Subset
  <2>2. \A r \in S : ValueOf(S)[r] \in Nat
    BY <1>1 DEF ValueOf
  <2> QED BY <2>1, <2>2, SumNat
<1>3. ApiTotal(rows) \in Nat
  <2>1. ApiTotal(rows) = SumOf(ValueOf(Finite(rows)), Finite(rows))
    BY <1>1, ValuesAre, Zenon DEF ApiTotal
  <2> QED BY <1>2, <2>1
<1>4. ClaimNegRisk(rows) \in Nat
  <2>1. neg \in SUBSET Finite(rows) /\ IsFiniteSet(neg)
    BY <1>1, FS_Subset
  <2>2. ClaimNegRisk(rows) = SumOf(ValueOf(neg), neg)
    <3>1. MapThenSumSet(LAMBDA r : r.value, neg) = SumOf(ValueOf(neg), neg)
      <4> HIDE DEF neg
      <4> QED BY <2>1, ValuesAre, Zenon
    <3> QED BY <3>1, Zenon DEF ClaimNegRisk
  <2> HIDE DEF neg
  <2> QED BY <1>2, <2>1, <2>2
<1>5. PICK a : a = ClaimStandard(rows, ch, {})
  OBVIOUS
<1>6. a \in Nat
  BY <1>5, StandardCovers, Zenon
<1>7. PICK b \in Nat : b = ClaimNegRisk(rows)
  BY <1>4
<1>8. PICK c \in Nat : c = ApiTotal(rows)
  BY <1>3
<1>9. Claimable(rows, ch, {}) = Max({a + b, c})
  BY <1>5, <1>7, <1>8 DEF Claimable
<1>10. Max({a + b, c}) \in {a + b, c} /\ \A y \in {a + b, c} : Max({a + b, c}) >= y
  <2>1. {a + b, c} \in SUBSET Nat /\ {a + b, c} # {}
    BY <1>6
  <2>2. IsFiniteSet({a + b, c})
    <3>1. IsFiniteSet({a + b}) /\ {a + b, c} = {a + b} \cup {c}
      BY FS_Singleton
    <3> QED BY <3>1, FS_AddElement
  <2> QED BY <2>1, <2>2, MaxNat
<1>11. Max({a + b, c}) \in Nat /\ a <= Max({a + b, c})
  BY <1>6, <1>10
<1> QED BY <1>5, <1>9, <1>11

-------------------------------------------------------------------------------
(* What the panel reads is always well-formed. *)

PollFields == {"at", "rows", "last", "due", "panel"}
PollShape == poll = [f \in PollFields |-> poll[f]]

\* The rows the Data API lists, has yet to list, and has answered with; the chain.
PanelInv ==
  /\ PaysOK(chain) /\ PollShape
  /\ RowsOK(api, chain.payout) /\ RowsOK(env.late, chain.payout) /\ RowsOK(poll.rows, chain.payout)

\* Some of the rows, or none.
LEMMA FewerRows ==
  ASSUME NEW rows, NEW payout, RowsOK(rows, payout), NEW fewer \in SUBSET rows
  PROVE  RowsOK(fewer, payout)
<1>1. IsFiniteSet(fewer)
  BY FS_Subset DEF RowsOK
<1> QED BY <1>1 DEF RowsOK

LEMMA NoRows == ASSUME NEW payout PROVE RowsOK({}, payout)
  BY FS_EmptySet DEF RowsOK

\* A step that leaves the chain and the Data API alone, and the rows of the panel but for
\* the answer it may get.
LEMMA PanelSteps ==
  ASSUME PanelInv, UNCHANGED <<chain, api>>, env'.late = env.late, PollShape',
         poll'.rows \in {poll.rows, {}, Fetched(api)}
  PROVE  PanelInv'
<1>1. Fetched(api) \in SUBSET api
  BY DEF Fetched
<1> HIDE DEF Fetched
<1>2. RowsOK(Fetched(api), chain.payout)
  BY <1>1, FewerRows DEF PanelInv
<1>3. RowsOK(poll'.rows, chain.payout)
  BY <1>2, NoRows DEF PanelInv
<1>4. RowsOK(env'.late, chain.payout)
  BY DEF PanelInv
<1>5. chain' = chain /\ api' = api
  OBVIOUS
<1>6. PaysOK(chain') /\ RowsOK(api', chain'.payout) /\ RowsOK(env'.late, chain'.payout) /\ RowsOK(poll'.rows, chain'.payout)
  BY <1>3, <1>4, <1>5 DEF PanelInv
<1> QED BY <1>6 DEF PanelInv

\* A step that leaves the panel alone, too.
LEMMA PanelRests ==
  ASSUME PanelInv, UNCHANGED <<chain, api, poll>>, env'.late = env.late
  PROVE  PanelInv'
<1>1. PollShape'
  BY DEF PanelInv, PollShape
<1> QED BY <1>1, PanelSteps

\* The keys and the tasks.
LEMMA TasksPanel ==
  ASSUME AllowInv, PanelInv,
         \/ PressX \/ PressB \/ Deploy \/ MineFails \/ Unlock \/ Cool
         \/ \E t \in Slots : TaskStep(t) \/ Fails(t) \/ Lost(t)
  PROVE  PanelInv'
<1>1. UNCHANGED <<chain, api, poll>>
  BY DEF PressX, PressB, Deploy, MineFails, Unlock, Cool, TaskStep, Fails, Lost, Fetch, Check, Recheck, Nonce,
         Submit, Refused, Wait, Done
<1>2. CASE UNCHANGED env
  BY <1>1, <1>2, PanelRests
<1>3. ASSUME NEW f \in {"x", "b", "deploy", "faults"}, NEW v, env' = [env EXCEPT ![f] = v] PROVE PanelInv'
  <2>1. env'.late = env.late
    BY <1>3, EnvCounts DEF AllowInv, EnvSame
  <2> QED BY <1>1, <2>1, PanelRests
<1>4. \/ UNCHANGED env
      \/ \E v : \E f \in {"x", "b", "deploy", "faults"} : env' = [env EXCEPT ![f] = v]
  <2>1. CASE PressX \/ PressB \/ Deploy
    BY <2>1 DEF PressX, PressB, Deploy
  <2>2. CASE MineFails \/ Unlock \/ Cool
    BY <2>2 DEF MineFails, Unlock, Cool, Fault
  <2>3. ASSUME NEW t \in Slots, TaskStep(t) \/ Fails(t) \/ Lost(t)
        PROVE  UNCHANGED env \/ env' = [env EXCEPT !["faults"] = env["faults"] - 1]
    BY <2>3 DEF TaskStep, Fails, Lost, Fetch, Check, Recheck, Nonce, Submit, Refused, Wait, Done, Fault
  <2> QED BY <2>1, <2>2, <2>3
<1> QED BY <1>2, <1>3, <1>4

\* The balance panel itself.
LEMMA PollPanel ==
  ASSUME AllowInv, PanelInv, Balance \/ PollRowsFails \/ PollChainFails \/ Due
  PROVE  PanelInv'
<1>1. UNCHANGED <<chain, api>>
  BY DEF Balance, PollRows, PollChain, PanelLoaded, PollRowsFails, PollChainFails, Due
<1>2. env'.late = env.late
  <2>1. UNCHANGED env \/ Fault
    BY DEF Balance, PollRows, PollChain, PanelLoaded, PollRowsFails, PollChainFails, Due
  <2> QED BY <2>1, EnvCounts DEF Fault, AllowInv, EnvSame
<1>3. PollShape' /\ poll'.rows \in {poll.rows, {}, Fetched(api)}
  <2> DEFINE all == Fetched(api)
  <2>1. /\ poll = [f \in PollFields |-> poll[f]]
        /\ PollFields = {"at", "rows", "last", "due", "panel"}
    BY DEF PanelInv, PollShape, PollFields
  <2>2. CASE PollRows \/ PollRowsFails
    <3>1. \E r \in {{}, all} : poll' = [poll EXCEPT !.at = "chain", !.rows = r]
      BY <2>2 DEF PollRows, PollRowsFails
    <3> HIDE DEF all
    <3>2. poll' = [f \in PollFields |-> poll'[f]] /\ poll'.rows \in {{}, all}
      BY <2>1, <3>1
    <3> QED BY <3>2 DEF PollShape, all
  <2>3. ASSUME NEW p, poll' = [poll EXCEPT !.at = "sent", !.last = p.claimable, !.due = FALSE, !.panel = p]
        PROVE  PollShape' /\ poll'.rows = poll.rows
    BY <2>1, <2>3 DEF PollShape
  <2>4. CASE PollChain
    <3>1. PICK p : p = Panel({})
      OBVIOUS
    <3>2. poll' = [poll EXCEPT !.at = "sent", !.last = p.claimable, !.due = FALSE, !.panel = p]
      BY <2>4, <3>1 DEF PollChain
    <3> QED BY <2>3, <3>2
  <2>5. CASE PollChainFails
    <3>1. CASE poll' = [poll EXCEPT !.at = "sleep", !.rows = {}]
      BY <2>1, <3>1 DEF PollShape
    <3>2. ASSUME NEW call, poll' = [poll EXCEPT !.at = "sent", !.last = Panel({call}).claimable, !.due = FALSE,
                                              !.panel = Panel({call})]
          PROVE  PollShape' /\ poll'.rows = poll.rows
      <4>1. PICK p : p = Panel({call})
        OBVIOUS
      <4>2. poll' = [poll EXCEPT !.at = "sent", !.last = p.claimable, !.due = FALSE, !.panel = p]
        BY <3>2, <4>1
      <4> QED BY <2>3, <4>2
    <3> QED BY <2>5, <3>1, <3>2 DEF PollChainFails
  <2>6. CASE Due
    BY <2>1, <2>6 DEF Due, PollShape
  <2>7. CASE PanelLoaded
    BY <2>1, <2>7 DEF PanelLoaded, PollShape
  <2> QED BY <2>2, <2>4, <2>5, <2>6, <2>7 DEF Balance
<1> QED BY <1>1, <1>2, <1>3, PanelSteps

\* The Data API lists what was late, and drops what is redeemed.
LEMMA ListsPanel ==
  ASSUME AllowInv, PanelInv, Lists \/ Drops
  PROVE  PanelInv'
<1>1. chain' = chain /\ poll' = poll
  BY DEF Lists, Drops
<1>2. RowsOK(api', chain.payout) /\ RowsOK(env'.late, chain.payout)
  <2>1. CASE Lists
    <3>1. api' = api \cup env.late /\ env'.late = {}
      BY <2>1 DEF Lists, AllowInv, EnvOK
    <3>2. IsFiniteSet(api \cup env.late)
      BY FS_Union DEF PanelInv, RowsOK
    <3>3. RowsOK(api \cup env.late, chain.payout)
      BY <3>2 DEF PanelInv, RowsOK
    <3> QED BY <3>1, <3>3, NoRows
  <2>2. CASE Drops
    <3>1. api' \in SUBSET api /\ env' = env
      BY <2>2 DEF Drops
    <3> QED BY <3>1, FewerRows DEF PanelInv
  <2> QED BY <2>1, <2>2
<1>3. PollShape'
  BY <1>1 DEF PanelInv, PollShape
<1>4. PaysOK(chain') /\ RowsOK(api', chain'.payout) /\ RowsOK(env'.late, chain'.payout) /\ RowsOK(poll'.rows, chain'.payout)
  BY <1>1, <1>2 DEF PanelInv
<1> QED BY <1>3, <1>4 DEF PanelInv

\* A transaction burns tokens, and no condition is reported.
LEMMA MinePanel ==
  ASSUME AllowInv, PanelInv, Mine
  PROVE  PanelInv'
<1>1. UNCHANGED <<env, api, poll>>
  BY DEF Mine
<1>2. \/ chain' = [chain EXCEPT !.deployed = @ \cup {WalletOf(Me)}]
      \/ chain' = chain
      \/ \E conds, d : chain' = [Payout(conds) EXCEPT !.allowed = @ \cup d]
  BY DEF Mine, Executed
<1>3. chain = [f \in ChainFields |-> chain[f]]
  BY DEF AllowInv, ChainOK
<1>4. PaysOK(chain') /\ chain'.payout = chain.payout
  <2>1. CASE chain' = [chain EXCEPT !.deployed = @ \cup {WalletOf(Me)}] \/ chain' = chain
    <3>1. chain'.payout = chain.payout /\ chain'.balance = chain.balance
      BY <1>3, <2>1 DEF ChainFields
    <3> QED BY <3>1 DEF PanelInv, PaysOK
  <2>2. ASSUME NEW conds, NEW d, chain' = [Payout(conds) EXCEPT !.allowed = @ \cup d]
        PROVE  PaysOK(chain') /\ chain'.payout = chain.payout
    <3> DEFINE burnt == {k \in DOMAIN chain.balance : k[1] \in conds /\ chain.balance[k] > 0}
               b == [k \in DOMAIN chain.balance |-> IF k \in burnt THEN 0 ELSE chain.balance[k]]
               v == chain.cash["pUSD"] + MapThenSumSet(LAMBDA k : Pays(k, chain.payout[k[1]], chain.balance[k]), burnt)
    <3>1. Payout(conds) = [chain EXCEPT !.balance = b, !.cash["pUSD"] = v]
      BY DEF Payout
    <3>2. DOMAIN b = DOMAIN chain.balance /\ \A k \in DOMAIN b : b[k] = 0 \/ b[k] = chain.balance[k]
      OBVIOUS
    <3> HIDE DEF b, v
    <3>3. chain'.payout = chain.payout /\ chain'.balance = b
      BY <1>3, <2>2, <3>1 DEF ChainFields
    <3>4. BalanceOK(b, chain.payout)
      BY <3>2 DEF PanelInv, PaysOK, BalanceOK
    <3> QED BY <3>3, <3>4 DEF PanelInv, PaysOK
  <2> QED BY <1>2, <2>1, <2>2
<1>5. PollShape'
  BY <1>1 DEF PanelInv, PollShape
<1>6. RowsOK(api', chain'.payout) /\ RowsOK(env'.late, chain'.payout) /\ RowsOK(poll'.rows, chain'.payout)
  BY <1>1, <1>4 DEF PanelInv
<1> QED BY <1>4, <1>5, <1>6 DEF PanelInv

LEMMA PanelInit == Init => PanelInv
<1> SUFFICES ASSUME Init PROVE PanelInv
  OBVIOUS
<1>1. PICK s \in Scenarios :
        /\ env = s /\ api = s.rows \ s.late
        /\ poll = [at |-> "sleep", rows |-> {}, last |-> None, due |-> TRUE, panel |-> None]
        /\ chain = [allowed |-> s.allowed, deployed |-> s.deployed, balance |-> s.balance,
                    payout |-> s.payout, cash |-> [c \in Collaterals |-> 0]]
  BY DEF Init
<1>2. PaysOK(chain)
  BY <1>1, RedeemAssumption DEF PaysOK
<1>3. RowsOK(api, chain.payout)
  BY <1>1, FewerRows, RedeemAssumption
<1>4. RowsOK(env.late, chain.payout)
  BY <1>1, RedeemAssumption
<1>5. PollShape /\ poll.rows = {}
  BY <1>1 DEF PollShape, PollFields
<1> QED BY <1>2, <1>3, <1>4, <1>5, NoRows DEF PanelInv

LEMMA PanelStep == AllowInv /\ PanelInv /\ [Next]_vars => PanelInv'
<1> SUFFICES ASSUME AllowInv, PanelInv, [Next]_vars PROVE PanelInv'
  OBVIOUS
<1>1. CASE UNCHANGED vars
  <2>1. UNCHANGED <<chain, api, poll>> /\ env'.late = env.late
    BY <1>1 DEF vars
  <2> QED BY <2>1, PanelRests
<1>2. CASE World
  BY <1>2, TasksPanel, MinePanel, ListsPanel, PollPanel DEF World
<1> QED BY <1>1, <1>2, TasksPanel, PollPanel DEF Next

\* What the panel is about to show.
LEMMA PanelShows ==
  ASSUME PanelInv, PollChain, poll.due
  PROVE  poll'.panel.claimable >= PaidOut(poll.rows)
<1>1. PICK p : p = Panel({})
  OBVIOUS
<1>2. p.claimable = Claimable(poll.rows, chain, {})
  BY <1>1 DEF Panel
<1>3. poll' = [poll EXCEPT !.at = "sent", !.last = p.claimable, !.due = FALSE, !.panel = p]
  BY <1>1 DEF PollChain
<1>4. poll'.panel = p
  BY <1>3 DEF PanelInv, PollShape, PollFields
<1>5. PaysOK(chain) /\ RowsOK(poll.rows, chain.payout)
  BY DEF PanelInv
<1>6. /\ ClaimStandard(poll.rows, chain, {}) \in Nat
      /\ PaidOut(poll.rows) \in Nat
      /\ PaidOut(poll.rows) <= ClaimStandard(poll.rows, chain, {})
  BY <1>5, StandardCovers, Zenon DEF PaidOut, Held
<1>7. /\ Claimable(poll.rows, chain, {}) \in Nat
      /\ ClaimStandard(poll.rows, chain, {}) <= Claimable(poll.rows, chain, {})
  BY <1>5, ClaimableCovers
<1> QED BY <1>2, <1>4, <1>6, <1>7

(* The claimable amount the panel shows after a read that did not fail is at least what the
   chain pays for the tokens of the rows it read, whatever the Data API says they are worth
   and however much of it the chain has reported (balances.rs, claimable_usdc). *)
THEOREM PanelCoversHolds == Spec => PanelCovers
<1>1. PanelInv => [PollChain /\ poll.due => poll'.panel.claimable >= PaidOut(poll.rows)]_vars
  BY PanelShows
<1> QED BY <1>1, AllowInit, AllowStep, PanelInit, PanelStep, PTL DEF Spec, PanelCovers
===============================================================================
