------------------------------ MODULE TakeProfit ------------------------------
(* The fixed take-profit: one resting SELL for the whole position of one outcome.
   Every fill of a BUY starts a task that cancels the resting SELLs it finds in
   UserOpenOrdersLedger and posts one for their sum and the fill; the user channel
   has duplicate rows merged; the stop loss replaces them all.  The tasks exclude
   each other by the outcome's lock, the ledger is also written by the user channel.

   Abstractions: shares are whole lots; prices are left out, except that a limit of
   0.99 or more ends a task; a fill is booked once, whichever report comes first. *)
EXTENDS Integers, Sequences, FiniteSets, FiniteSetsExt, Functions

CONSTANTS
  Task,         \* tasks that may be under way at once
  Free,         \* nobody holds the lock
  MinShares,    \* MIN_LIMIT_ORDER_SHARES
  Attempts,     \* LIMIT_ORDER_MAX_ATTEMPTS
  MaxOrders, MaxBuys, MaxLot,
  FaultSets     \* what may go wrong, see Faults; a behaviour picks one of them

Order == 1..MaxOrders

Faults ==
  { "overlap",          \* a BUY fills while something is under way
    "busy_fill",        \* a resting SELL fills while something is under way
    "crossing",         \* a posted SELL is filled at once
    "slow_channel",     \* the user channel takes longer than 80 ms to report a cancel
    "fast_channel",     \* the user channel reports an order before the POST's answer
    "split_trades",     \* the trade the task waits for is a part of the fill
    "cancel_fails", "post_fails", "lost_response",
    "priced_out",       \* the limit would be 0.99 or more
    "manual_sell", "stop_loss", "cancel_all",
    "late_rest" }       \* the window begins with the REST snapshot under way

ASSUME TakeProfitAssumption ==
  /\ Free \notin Task
  /\ MinShares \in Nat \ {0} /\ Attempts \in Nat \ {0}
  /\ MaxOrders \in Nat /\ MaxBuys \in Nat /\ MaxLot \in Nat
  /\ FaultSets \subseteq SUBSET Faults

VARIABLES
  faults,
  held,     \* shares in the wallet
  open,     \* open SELLs at the exchange: what remains of each, 0 if it is not open
  made,     \* what posted each order
  wire,     \* the user channel's reports that are under way
  rest,     \* the REST snapshot that is under way
  ledger,   \* UserOpenOrdersLedger: the remaining size of each row, 0 if there is none
  lock,     \* TP_RESTING_SELL_OP_LOCK: the task that holds it
  pos,      \* AppState, position of the outcome
  chan,     \* events for the loop
  task,
  clearing, \* a cancel_all has been answered, its clear_resting_orders is to come
  buys

exchange == <<held, open, made, wire>>
rows == <<ledger, rest, clearing>>
app == <<pos, chan>>
vars == <<faults, exchange, rows, lock, app, task, buys>>

-------------------------------------------------------------------------------
May(f) == f \in faults
Total(f) == FoldFunction(+, 0, f)
OpenIn(f) == {o \in Order : f[o] > 0}
AtLeast(a, b) == IF a < b THEN b ELSE a

None == [o \in Order |-> 0]
NoLoad == [at |-> "none", rows |-> None]
Loading == [at |-> "loading", rows |-> None]
Loaded(f) == [at |-> "loaded", rows |-> f]

\* A task: kind, where it is, and its local variables.
Idle == [kind |-> "none", pc |-> "idle", qty |-> 0, pos |-> 0, cancel |-> {},
         found |-> {}, failed |-> FALSE, want |-> 0, tries |-> 0, order |-> 0]
Running(kind, pc, qty) == [Idle EXCEPT !.kind = kind, !.pc = pc, !.qty = qty]
At(t, pc) == task[t].pc = pc

\* Reports of the user channel: the state of an order, and what of it was just filled.
Report(o, rem, sold) == [order |-> o, rem |-> rem, sold |-> sold, bought |-> 0]
Bought(q) == [order |-> 0, rem |-> 0, sold |-> 0, bought |-> q]
Event(type, qty) == [type |-> type, qty |-> qty]

Init ==
  /\ faults \in FaultSets
  /\ held = 0 /\ open = None /\ made = <<>> /\ wire = <<>>
  /\ rest = IF May("late_rest") THEN Loading ELSE NoLoad
  /\ ledger = None /\ clearing = FALSE
  /\ lock = Free
  /\ pos = 0 /\ chan = <<>>
  /\ task = [t \in Task |-> Idle]
  /\ buys = 0

Quiet ==
  /\ \A t \in Task : At(t, "idle")
  /\ chan = <<>> /\ wire = <<>> /\ ~clearing /\ rest = NoLoad

-------------------------------------------------------------------------------
(* The exchange. *)

Unescrowed == held - Total(open)

\* A resting BUY of the user fills; the user channel reports it as a maker's.
MakerBuy ==
  /\ buys < MaxBuys /\ (Quiet \/ May("overlap"))
  /\ buys' = buys + 1
  /\ \E q \in 1..MaxLot : held' = held + q /\ wire' = Append(wire, Bought(q))
  /\ UNCHANGED <<faults, open, made, rows, lock, app, task>>

RestFilled ==
  /\ Quiet \/ May("busy_fill")
  /\ \E o \in OpenIn(open) : \E m \in 1..open[o] :
       /\ held' = held - m
       /\ open' = [open EXCEPT ![o] = @ - m]
       /\ wire' = Append(wire, Report(o, open[o] - m, m))
  /\ UNCHANGED <<faults, made, rows, lock, app, task, buys>>

\* An order for want shares, of which m match at once.
Placed(kind, want, m) ==
  LET o == Len(made) + 1 IN
  /\ o \in Order
  /\ want <= Unescrowed
  /\ made' = Append(made, kind)
  /\ open' = [open EXCEPT ![o] = want - m]
  /\ held' = held - m
  /\ wire' = Append(wire, Report(o, want - m, m))

-------------------------------------------------------------------------------
(* The user. *)

\* A market or limit BUY that fills when it is posted, see spawn_order.
Buy(t) ==
  /\ buys < MaxBuys /\ (Quiet \/ May("overlap"))
  /\ At(t, "idle")
  /\ buys' = buys + 1
  /\ \E q \in 1..MaxLot :
       /\ held' = held + q
       /\ task' = [task EXCEPT ![t] = Running("buy", "ack", q)]
  /\ UNCHANGED <<faults, open, made, wire, rows, lock, app>>

\* A limit SELL of the user, posted beside the lock.
ManualSell ==
  /\ May("manual_sell")
  /\ \E q \in MinShares..held : Placed("manual", q, 0)
  /\ UNCHANGED <<faults, rows, lock, app, task, buys>>

\* Action::CancelAll: the exchange's answer, then the clear of the ledger.
CancelAll ==
  /\ May("cancel_all") /\ ~clearing
  /\ OpenIn(open) # {}
  /\ open' = None
  /\ \E s \in Bijection(1..Cardinality(OpenIn(open)), OpenIn(open)) :
       wire' = wire \o [i \in DOMAIN s |-> Report(s[i], 0, 0)]
  /\ clearing' = TRUE
  /\ UNCHANGED <<faults, held, made, ledger, rest, lock, app, task, buys>>

ClearRestingOrders ==
  /\ clearing
  /\ clearing' = FALSE
  /\ ledger' = None
  /\ UNCHANGED <<faults, exchange, rest, lock, app, task, buys>>

\* GET /data/orders of the window's first load, no rows if it fails, then
\* replace_from_rest.
FetchOrders ==
  /\ rest = Loading
  /\ \/ rest' = Loaded(open)
     \/ rest' = Loaded(None)
  /\ UNCHANGED <<faults, exchange, ledger, clearing, lock, app, task, buys>>

ReplaceFromRest ==
  /\ rest.at = "loaded"
  /\ ledger' = rest.rows
  /\ rest' = NoLoad
  /\ UNCHANGED <<faults, exchange, clearing, lock, app, task, buys>>

-------------------------------------------------------------------------------
(* The order task of a BUY, after its POST: spawn_order. *)

SendAck(t) ==
  /\ At(t, "ack")
  /\ chan' = Append(chan, Event("ack", task[t].qty))
  /\ task' = [task EXCEPT ![t].pc = "report"]
  /\ UNCHANGED <<faults, exchange, rows, lock, pos, buys>>

\* RunTakeProfitAfterBuy carries what the awaited trade filled, not what the order did.
SendTakeProfit(t) ==
  /\ At(t, "report")
  /\ \/ \E q \in 1..task[t].qty :
          /\ q = task[t].qty \/ May("split_trades")
          /\ chan' = Append(chan, Event("take_profit", q))
     \/ May("priced_out") /\ UNCHANGED chan
  /\ task' = [task EXCEPT ![t] = Idle]
  /\ UNCHANGED <<faults, exchange, rows, lock, pos, buys>>

-------------------------------------------------------------------------------
(* The user channel's task. *)

\* A consolidation waits for the answer to its POST, its insert is to come.
Inserting(o) == \E t \in Task : At(t, "insert") /\ task[t].order = o

AppliedKnown(r) ==                                             \* mutant of Applied
  [ledger EXCEPT ![r.order] = IF @ > 0 THEN r.rem ELSE 0]
\* apply_one_order_value_locked on the ledger's rows.
Applied(r) == [ledger EXCEPT ![r.order] = r.rem]

\* run_session: the ledger first, then the fill, then the request to merge.
UserChannel ==
  /\ wire # <<>>
  /\ wire' = Tail(wire)
  /\ LET r == Head(wire) IN
     IF r.bought > 0
     THEN chan' = Append(chan, Event("maker", r.bought)) /\ UNCHANGED ledger
     ELSE /\ ~Inserting(r.order) \/ May("fast_channel")
          /\ ledger' = Applied(r)
          /\ chan' = chan
               \o (IF r.sold > 0 THEN <<Event("sold", r.sold)>> ELSE <<>>)
               \o (IF (r.rem > 0 \/ ledger[r.order] > 0) /\ Cardinality(OpenIn(Applied(r))) >= 2
                   THEN <<Event("merge", 0)>> ELSE <<>>)
  /\ UNCHANGED <<faults, held, open, made, rest, clearing, lock, pos, task, buys>>

-------------------------------------------------------------------------------
(* The event loop. *)

Spawn(t, kind, qty, shares) ==
  /\ At(t, "idle")
  /\ task' = [task EXCEPT ![t] = [Running(kind, "lock", qty) EXCEPT !.pos = shares]]

Handle ==
  /\ chan # <<>>
  /\ chan' = Tail(chan)
  /\ LET e == Head(chan) IN
     CASE e.type = "ack"  -> pos' = pos + e.qty /\ UNCHANGED task
       [] e.type = "sold" -> pos' = AtLeast(pos - e.qty, 0) /\ UNCHANGED task
       [] e.type = "maker" ->
            /\ pos' = pos + e.qty
            /\ \E t \in Task : Spawn(t, "consolidate", e.qty, pos + e.qty)
       [] e.type = "take_profit" ->
            /\ UNCHANGED pos
            /\ \E t \in Task : Spawn(t, "consolidate", e.qty, pos)
       [] e.type = "merge" ->
            /\ UNCHANGED pos
            /\ IF pos > 0 THEN \E t \in Task : Spawn(t, "merge", 0, pos) ELSE UNCHANGED task
  /\ UNCHANGED <<faults, exchange, rows, lock, buys>>

\* A book tick trips the stop loss; its marker lets one sell at a time.  One of its
\* orders is enough here.
StopLoss ==
  /\ May("stop_loss")
  /\ pos >= MinShares
  /\ \A t \in Task : task[t].kind # "stop"
  /\ \A o \in DOMAIN made : made[o] # "stop"
  /\ \E t \in Task : Spawn(t, "stop", 0, pos)
  /\ UNCHANGED <<faults, exchange, rows, lock, app, buys>>

-------------------------------------------------------------------------------
(* run_take_profit_consolidate_after_buy, run_merge_resting_tp_sells_from_ws and
   run_stop_loss_gtd_sell. *)

WantUnsummed(k, f) ==                                          \* mutant of Want
  IF k.kind = "merge" THEN Total(f)
  ELSE IF k.kind = "stop" THEN k.pos
  ELSE IF OpenIn(f) # {} THEN k.qty ELSE AtLeast(k.pos, k.qty)
\* What a task that finds the rows f in the ledger will ask for.
Want(k, f) ==
  CASE k.kind = "merge" -> Total(f)
    [] k.kind = "stop"  -> k.pos
    [] k.kind = "consolidate" ->
         IF OpenIn(f) # {} THEN Total(f) + k.qty ELSE AtLeast(k.pos, k.qty)

MoreThanTwo(k, f) ==                                           \* mutant of NothingToDo
  \/ k.kind = "consolidate" /\ OpenIn(f) = {} /\ k.pos < MinShares
  \/ k.kind = "merge" /\ (Cardinality(OpenIn(f)) <= 2 \/ Total(f) < MinShares)
\* It ends before it has cancelled anything.
NothingToDo(k, f) ==
  \/ k.kind = "consolidate" /\ OpenIn(f) = {} /\ k.pos < MinShares
  \/ k.kind = "merge" /\ (Cardinality(OpenIn(f)) < 2 \/ Total(f) < MinShares)

LockFree(t) == lock = Free
Lock(t) ==
  /\ At(t, "lock") /\ LockFree(t)
  /\ LET k == task[t] IN
     IF NothingToDo(k, ledger)
     THEN task' = [task EXCEPT ![t] = Idle] /\ UNCHANGED lock
     ELSE /\ lock' = t
          /\ task' = [task EXCEPT ![t] =
               [k EXCEPT !.pc = "cancel", !.want = Want(k, ledger),
                         !.cancel = OpenIn(ledger), !.found = OpenIn(ledger)]]
  /\ UNCHANGED <<faults, exchange, rows, app, buys>>

\* One of the cancels, which are under way together.  An order that is no longer
\* open is reported as not cancelled.
Cancel(t) ==
  /\ At(t, "cancel")
  /\ \E o \in task[t].cancel :
       \/ /\ open[o] > 0
          /\ open' = [open EXCEPT ![o] = 0]
          /\ wire' = Append(wire, Report(o, 0, 0))
          /\ task' = [task EXCEPT ![t].cancel = @ \ {o}]
       \/ /\ open[o] = 0 \/ May("cancel_fails")
          /\ task' = [task EXCEPT ![t].cancel = @ \ {o}, ![t].failed = TRUE]
          /\ UNCHANGED <<open, wire>>
  /\ UNCHANGED <<faults, held, made, rows, lock, app, buys>>

\* The task gives the lock back, and ends or goes on without it.
Release(t) == lock' = IF lock = t THEN Free ELSE lock
End(t) == Release(t) /\ task' = [task EXCEPT ![t] = Idle]

\* The wait of 80 ms: the ledger has heard of the cancels, unless the channel is slow.
Settled(t) ==
  May("slow_channel") \/ \A i \in DOMAIN wire : wire[i].order \notin task[t].found

FailureLogged(t) == FALSE                                       \* mutant of Failed
Failed(t) == task[t].failed
\* A failed cancel, a want below the minimum and a price of 0.99 or more all end the
\* task after its cancels.
Cancelled(t) ==
  /\ At(t, "cancel") /\ task[t].cancel = {}
  /\ LET k == task[t] IN
     \/ Failed(t) /\ End(t)
     \/ /\ ~Failed(t) /\ Settled(t)
        /\ \/ k.kind = "consolidate" /\ k.want < MinShares /\ End(t)
           \/ k.kind # "stop" /\ May("priced_out") /\ End(t)
           \/ /\ k.kind # "consolidate" \/ k.want >= MinShares
              /\ task' = [task EXCEPT ![t].pc = "post"]
              /\ IF k.kind = "merge" THEN Release(t) ELSE UNCHANGED lock
  /\ UNCHANGED <<faults, exchange, rows, app, buys>>

\* An attempt failed, for all the task can tell.
Again(t) ==
  IF task[t].tries + 1 < Attempts
  THEN task' = [task EXCEPT ![t].tries = @ + 1] /\ UNCHANGED lock
  ELSE End(t)

\* place_limit_with_retries, one attempt.  The order task of a merge ends with the
\* answer; a consolidation inserts its row, a stop loss when it is not filled at all.
Post(t) ==
  /\ At(t, "post")
  /\ LET k == task[t]
         o == Len(made) + 1
     IN \/ \E m \in 0..k.want :
             /\ m = 0 \/ May("crossing")
             /\ Placed(k.kind, k.want, m)
             /\ \/ IF k.kind = "merge" \/ (k.kind = "stop" /\ m > 0)
                   THEN End(t)
                   ELSE /\ task' = [task EXCEPT ![t].pc = "insert", ![t].order = o]
                        /\ UNCHANGED lock
                \/ May("lost_response") /\ Again(t)
        \/ /\ k.want > Unescrowed \/ May("post_fails")
           /\ Again(t) /\ UNCHANGED exchange
  /\ UNCHANGED <<faults, rows, app, buys>>

RowLeftToChannel(t) == UNCHANGED ledger                         \* mutant of InsertRow
InsertRow(t) == ledger' = [ledger EXCEPT ![task[t].order] = task[t].want]
\* insert_resting_order with nothing matched yet, under the lock.
Insert(t) ==
  /\ At(t, "insert")
  /\ InsertRow(t)
  /\ End(t)
  /\ UNCHANGED <<faults, exchange, rest, clearing, app, buys>>

-------------------------------------------------------------------------------
Next ==
  \/ MakerBuy \/ RestFilled
  \/ ManualSell \/ CancelAll \/ ClearRestingOrders \/ FetchOrders \/ ReplaceFromRest
  \/ UserChannel \/ Handle \/ StopLoss
  \/ \E t \in Task :
       \/ Buy(t) \/ SendAck(t) \/ SendTakeProfit(t)
       \/ Lock(t) \/ Cancel(t) \/ Cancelled(t) \/ Post(t) \/ Insert(t)

Spec == Init /\ [][Next]_vars

-------------------------------------------------------------------------------
(* Properties. *)

\* A position is not offered twice: at most one order that a consolidation posted is
\* open, whatever fills, fails or comes late meanwhile, and the task that takes the lock
\* next finds it: its row is inserted before the lock is given back, and no late report
\* removes the row of an open order.  The lock, the end of the task
\* at a failed cancel and the want, which counts what it cancelled once, see to it.  It
\* is lost with the rows (cancel_all, late_rest) or with the answer to a POST.
OneTakeProfit ==
  faults \cap {"cancel_all", "late_rest", "lost_response"} = {}
    => LET kept == {o \in OpenIn(open) : made[o] = "consolidate"}
       IN  Cardinality(kept) <= 1 /\ \A o \in kept : ledger[o] > 0 \/ Inserting(o)

\* The ledger and the reports under way are never out of step with the exchange: once
\* the reports are applied each order has the row it should have, whatever the tasks
\* inserted, cancelled and retried on the way.
LedgerInStep ==
  faults \cap {"cancel_all", "late_rest", "fast_channel"} = {}
    => \A o \in Order :
         LET R == {i \in DOMAIN wire : wire[i].order = o} IN
         open[o] = IF R = {} THEN ledger[o] ELSE wire[Max(R)].rem

\* With one fill at a time the whole position rests in one SELL as soon as it has the
\* size of an order, however it came about, even if the channel is slow, SELLs match at
\* once or the answer of a POST is lost.
Covered ==
  (Quiet /\ faults \subseteq {"crossing", "slow_channel", "lost_response"}
     /\ held >= MinShares)
    => Total(open) = held

\* Two SELLs that together have the size of an order never stay: the user channel's
\* request to merge them is not lost to a task that holds the lock, or to rows that
\* change under it.
DuplicatesMerged ==
  (Quiet /\ faults \cap {"cancel_all", "late_rest", "cancel_fails", "priced_out"} = {}
     /\ Total(open) >= MinShares)
    => Cardinality(OpenIn(open)) <= 1
===============================================================================
