--------------------------- MODULE ClobClientProofs ---------------------------
(* Proofs about ClobClient for every set of callers, every script, and any number of
   attempts, lost answers and rows of a page: an order of the program is placed once, it is
   never refused for its signature, and what a call tells when it ends is so. *)
EXTENDS ClobClient, FiniteSetTheorems, SequenceTheorems, WellFoundedInduction, TLAPS

(* A task is a record with the fields of Idle. *)
Fields == {"at", "tries", "posts", "answer", "result", "faults", "used", "page", "got", "began", "moved"}
TaskFields(x) == x = [f \in Fields |-> x[f]]

Mine(u) == {id \in exchange.orders : id[1] = u}

(* The exchange has no order of this attempt: nothing was posted, or it was refused. *)
Calm(x) ==
  \/ x.at \in {"idle", "creds", "lock", "derive", "create", "ready", "refused"}
  \/ x.at = "answered" /\ x.answer.says \notin {"ok", "lost"}
(* It may have one, and the caller does not know. *)
InDoubt(x) == x.at = "answered" /\ x.answer.says = "lost"

(* The orders n of a caller, lim telling whether it places limit orders. *)
Counted(x, lim, n) ==
  /\ x.faults \in Nat
  /\ n <= 1 + (IF lim THEN x.faults ELSE 0)
  /\ Calm(x) => n <= (IF lim THEN x.faults ELSE 0)
  /\ InDoubt(x) => n <= (IF lim THEN x.faults ELSE 1)

TaskShape == task = [u \in Callers |-> task[u]] /\ \A u \in Callers : TaskFields(task[u])
OrdersInv ==
  \A u \in Callers : IsFiniteSet(Mine(u)) /\ Counted(task[u], IsLimit(Call(u)), Cardinality(Mine(u)))
IInv == TaskShape /\ "orders" \in DOMAIN exchange /\ OrdersInv

(* What a step that places no order makes of a task. *)
Follows(x, y, lim) ==
  /\ TaskFields(y)
  /\ y.faults \in {x.faults, x.faults + 1}
  /\ Calm(y) => Calm(x) \/ (InDoubt(x) /\ lim)
  /\ InDoubt(y) => InDoubt(x) \/ Calm(x)

LEMMA FollowsCounted ==
  ASSUME NEW x, NEW y, NEW lim \in BOOLEAN, NEW n \in Nat, Counted(x, lim, n), Follows(x, y, lim)
  PROVE  Counted(y, lim, n)
<1>1. y.faults \in Nat /\ y.faults >= x.faults
  BY DEF Counted, Follows
<1>2. Calm(y) => n <= (IF lim THEN y.faults ELSE 0)
  BY <1>1 DEF Counted, Follows
<1>3. InDoubt(y) => n <= (IF lim THEN y.faults ELSE 1)
  BY <1>1 DEF Counted, Follows
<1>4. n <= 1 + (IF lim THEN y.faults ELSE 0)
  BY <1>1 DEF Counted
<1> QED BY <1>1, <1>2, <1>3, <1>4 DEF Counted

LEMMA LimitBool == ASSUME NEW c PROVE IsLimit(c) \in BOOLEAN
  BY DEF IsLimit

\* A step that places no order.
LEMMA Quiet ==
  ASSUME IInv, UNCHANGED script, exchange'.orders = exchange.orders, "orders" \in DOMAIN exchange',
         task' = [u \in Callers |-> task'[u]],
         \A u \in Callers : Follows(task[u], task'[u], IsLimit(Call(u)))
  PROVE  IInv'
<1> SUFFICES ASSUME NEW u \in Callers
             PROVE  IsFiniteSet(Mine(u)) /\ Counted(task'[u], IsLimit(Call(u)), Cardinality(Mine(u)))
  BY DEF IInv, TaskShape, OrdersInv, Follows, Mine, Call
<1>1. IsFiniteSet(Mine(u)) /\ Counted(task[u], IsLimit(Call(u)), Cardinality(Mine(u)))
  BY DEF IInv, OrdersInv
<1>2. Cardinality(Mine(u)) \in Nat
  BY <1>1, FS_CardinalityType
<1> QED BY <1>1, <1>2, FollowsCounted, LimitBool

\* What a task of another caller becomes: itself, or told that its list moved.
LEMMA Same ==
  ASSUME NEW x, TaskFields(x), NEW lim, NEW m
  PROVE  Follows(x, x, lim) /\ Follows(x, [x EXCEPT !.moved = m], lim)
  BY DEF TaskFields, Fields, Follows, Calm, InDoubt

\* One task goes on.
LEMMA OneGoesOn ==
  ASSUME IInv, UNCHANGED script, exchange'.orders = exchange.orders, "orders" \in DOMAIN exchange',
         NEW u \in Callers, NEW x, Follows(task[u], x, IsLimit(Call(u))), task' = [task EXCEPT ![u] = x]
  PROVE  IInv'
<1>1. task' = [v \in Callers |-> task'[v]] /\ task'[u] = x /\ \A v \in Callers : v # u => task'[v] = task[v]
  BY DEF IInv, TaskShape
<1>2. \A v \in Callers : Follows(task[v], task'[v], IsLimit(Call(v)))
  BY <1>1, Same DEF IInv, TaskShape
<1> QED BY <1>1, <1>2, Quiet

Unplaced(u) == Calm(task[u]) \/ (InDoubt(task[u]) /\ IsLimit(Call(u)))
Leads(u, where) == where # "answered"
                   /\ (where \in {"idle", "creds", "lock", "derive", "create", "ready", "refused"} => Unplaced(u))

\* Goes and Ends, with nothing else of the exchange than its faults or its key.
LEMMA GoesOK ==
  ASSUME IInv, UNCHANGED script, exchange'.orders = exchange.orders, "orders" \in DOMAIN exchange',
         NEW u \in Callers, NEW where, Leads(u, where), Goes(u, where)
  PROVE  IInv'
<1> DEFINE x == [task[u] EXCEPT !.at = where]
<1>1. task' = [task EXCEPT ![u] = x]
  BY DEF Goes, IInv, TaskShape
<1>2. TaskFields(task[u])
  BY DEF IInv, TaskShape
<1>3. TaskFields(x) /\ x.at = where /\ x.faults = task[u].faults
  BY <1>2 DEF TaskFields, Fields
<1> HIDE DEF x
<1>4. Follows(task[u], x, IsLimit(Call(u)))
  BY <1>3 DEF Follows, Calm, InDoubt, Leads, Unplaced
<1> QED BY <1>1, <1>4, OneGoesOn

LEMMA EndsOK ==
  ASSUME IInv, UNCHANGED script, exchange'.orders = exchange.orders, "orders" \in DOMAIN exchange',
         NEW u \in Callers, NEW result, Ends(u, result)
  PROVE  IInv'
<1> DEFINE x == [task[u] EXCEPT !.at = "done", !.result = result]
<1>1. task' = [task EXCEPT ![u] = x]
  BY DEF Ends, IInv, TaskShape
<1>2. TaskFields(task[u])
  BY DEF IInv, TaskShape
<1>3. TaskFields(x) /\ x.at = "done" /\ x.faults = task[u].faults
  BY <1>2 DEF TaskFields, Fields
<1> HIDE DEF x
<1>4. Follows(task[u], x, IsLimit(Call(u)))
  BY <1>3 DEF Follows, Calm, InDoubt
<1> QED BY <1>1, <1>4, OneGoesOn

\* The task ends after a fault.
LEMMA FaultEndsOK ==
  ASSUME IInv, UNCHANGED script, exchange'.orders = exchange.orders, "orders" \in DOMAIN exchange',
         NEW u \in Callers, NEW where, Leads(u, where), NEW result,
         \/ task' = [Fault(u, task) EXCEPT ![u].at = where, ![u].result = result]
         \/ task' = Fault(u, [task EXCEPT ![u].at = where])
  PROVE  IInv'
<1> DEFINE x == [task[u] EXCEPT !.at = where, !.result = result, !.faults = task[u].faults + 1]
           y == [task[u] EXCEPT !.at = where, !.faults = task[u].faults + 1]
<1>1. TaskFields(task[u])
  BY DEF IInv, TaskShape
<1>2. task' = [task EXCEPT ![u] = x] \/ task' = [task EXCEPT ![u] = y]
  <2>1. TaskFields(task[u]) /\ u \in DOMAIN task
    BY DEF IInv, TaskShape
  <2>2. [Fault(u, task) EXCEPT ![u].at = where, ![u].result = result]
          = [task EXCEPT ![u] = [[task[u] EXCEPT !.faults = @ + 1] EXCEPT !.at = where, !.result = result]]
    BY <2>1 DEF Fault
  <2>3. [[task[u] EXCEPT !.faults = @ + 1] EXCEPT !.at = where, !.result = result] = x
    BY <1>1 DEF TaskFields, Fields
  <2>4. Fault(u, [task EXCEPT ![u].at = where]) = [task EXCEPT ![u] = y]
    BY <2>1 DEF Fault, TaskFields, Fields
  <2> QED BY <2>1, <2>2, <2>3, <2>4
<1>3. /\ TaskFields(x) /\ x.at = where /\ x.faults = task[u].faults + 1
      /\ TaskFields(y) /\ y.at = where /\ y.faults = task[u].faults + 1
  BY <1>1 DEF TaskFields, Fields
<1> HIDE DEF x, y
<1>4. Follows(task[u], x, IsLimit(Call(u))) /\ Follows(task[u], y, IsLimit(Call(u)))
  BY <1>3 DEF Follows, Calm, InDoubt, Leads, Unplaced
<1> QED BY <1>2, <1>4, OneGoesOn

\* The callers that read a list are told that it moved.
LEMMA MovesOK ==
  ASSUME IInv, UNCHANGED script, exchange'.orders = exchange.orders, "orders" \in DOMAIN exchange',
         NEW ts, \A v \in Callers : Follows(task[v], ts[v], IsLimit(Call(v))), task' = Moves(ts)
  PROVE  IInv'
<1>1. task' = [v \in Callers |-> task'[v]]
  BY DEF Moves
<1>2. ASSUME NEW v \in Callers PROVE Follows(task[v], task'[v], IsLimit(Call(v)))
  <2> DEFINE x == ts[v]
             y == [x EXCEPT !.moved = @ \/ x.at = "page"]
  <2>1. task'[v] = y
    BY DEF Moves
  <2>2. Follows(task[v], x, IsLimit(Call(v)))
    OBVIOUS
  <2> HIDE DEF x
  <2>3. TaskFields(y) /\ y.at = x.at /\ y.answer = x.answer /\ y.faults = x.faults
    BY <2>2 DEF Follows, TaskFields, Fields
  <2> HIDE DEF y
  <2> QED BY <2>1, <2>2, <2>3 DEF Follows, Calm, InDoubt
<1> QED BY <1>1, <1>2, Quiet

\* One task goes on or ends, and the others may be told that their list moved.
LEMMA StepsOK ==
  ASSUME IInv, UNCHANGED script, exchange'.orders = exchange.orders, "orders" \in DOMAIN exchange',
         NEW u \in Callers, NEW x, TaskFields(x), x.faults \in {task[u].faults, task[u].faults + 1},
         Leads(u, x.at), NEW ts, ts = [task EXCEPT ![u] = x], task' = ts \/ task' = Moves(ts)
  PROVE  IInv'
<1>1. Follows(task[u], x, IsLimit(Call(u)))
  BY DEF Follows, Calm, InDoubt, Leads, Unplaced
<1>2. CASE task' = ts
  BY <1>1, <1>2, OneGoesOn
<1>3. CASE task' = Moves(ts)
  <2>1. ts[u] = x /\ \A v \in Callers : v # u => ts[v] = task[v]
    BY DEF IInv, TaskShape
  <2>2. \A v \in Callers : Follows(task[v], ts[v], IsLimit(Call(v)))
    BY <1>1, <2>1, Same DEF IInv, TaskShape
  <2> QED BY <1>3, <2>2, MovesOK
<1> QED BY <1>2, <1>3

-------------------------------------------------------------------------------
(* Credentials. *)

LEMMA ExchangeKept ==
  ASSUME IInv, NEW v,
         \/ exchange' = exchange
         \/ exchange' = [exchange EXCEPT !.key = v]
         \/ exchange' = Spent(exchange)
         \/ exchange' = Spent([exchange EXCEPT !.key = v])
         \/ exchange' = Warmed(exchange)
         \/ exchange' = Without(v)
         \/ exchange' = Spent(Without(v))
  PROVE  exchange'.orders = exchange.orders /\ "orders" \in DOMAIN exchange'
<1>1. "orders" \in DOMAIN exchange
  BY DEF IInv
<1> DEFINE left == Remaining(exchange.open, v)
           without == [exchange EXCEPT !.open = left]
<1>2. Without(v) = without
  BY DEF Without
<1> HIDE DEF left
<1>3. without.orders = exchange.orders /\ "orders" \in DOMAIN without
  BY <1>1
<1> HIDE DEF without
<1>4. CASE exchange' = Without(v) \/ exchange' = Spent(Without(v))
  BY <1>2, <1>3, <1>4 DEF Spent
<1>5. CASE exchange' = exchange \/ exchange' = [exchange EXCEPT !.key = v]
  BY <1>1, <1>5
<1>6. CASE exchange' = Spent(exchange) \/ exchange' = Spent([exchange EXCEPT !.key = v]) \/ exchange' = Warmed(exchange)
  BY <1>1, <1>6 DEF Spent, Warmed
<1> QED BY <1>4, <1>5, <1>6

LEMMA CredsOK ==
  ASSUME IInv, NEW u \in Callers, Begin(u) \/ Creds(u) \/ Lock(u) \/ Derive(u) \/ Create(u)
  PROVE  IInv'
<1>1. CASE Begin(u)
  <2>1. Leads(u, "derive") /\ Leads(u, "creds")
    BY <1>1 DEF Begin, At, Leads, Unplaced, Calm
  <2>2. UNCHANGED <<script, exchange>> /\ (Goes(u, "derive") \/ Goes(u, "creds") \/ Ends(u, "bad_args"))
    BY <1>1 DEF Begin
  <2> QED BY <2>1, <2>2, ExchangeKept, GoesOK, EndsOK
<1>2. CASE Creds(u)
  <2>1. Leads(u, "ready") /\ Leads(u, "lock")
    BY <1>2 DEF Creds, At, Leads, Unplaced, Calm
  <2>2. UNCHANGED <<script, exchange>> /\ (Goes(u, "ready") \/ Goes(u, "lock"))
    BY <1>2 DEF Creds
  <2> QED BY <2>1, <2>2, ExchangeKept, GoesOK
<1>3. CASE Lock(u)
  <2>1. Leads(u, "ready") /\ Leads(u, "derive")
    BY <1>3 DEF Lock, At, Leads, Unplaced, Calm
  <2>2. UNCHANGED <<script, exchange>> /\ (Goes(u, "ready") \/ Goes(u, "derive"))
    BY <1>3 DEF Lock
  <2> QED BY <2>1, <2>2, ExchangeKept, GoesOK
<1>4. CASE Derive(u)
  <2>1. Leads(u, "ready") /\ Leads(u, "create")
    BY <1>4 DEF Derive, At, Leads, Unplaced, Calm
  <2>2. UNCHANGED <<script, exchange>> /\ (Goes(u, "ready") \/ Goes(u, "create") \/ Ends(u, "ok"))
    BY <1>4 DEF Derive, HasCreds
  <2> QED BY <2>1, <2>2, ExchangeKept, GoesOK, EndsOK
<1>5. CASE Create(u)
  <2>1. Leads(u, "ready")
    BY <1>5 DEF Create, At, Leads, Unplaced, Calm
  <2>2. /\ UNCHANGED script /\ (exchange' = exchange \/ exchange' = [exchange EXCEPT !.key = TRUE])
        /\ Goes(u, "ready") \/ Ends(u, "ok") \/ Ends(u, "no_creds")
    BY <1>5 DEF Create, HasCreds, NoCreds, Ends
  <2> QED BY <2>1, <2>2, ExchangeKept, GoesOK, EndsOK
<1> QED BY <1>1, <1>2, <1>3, <1>4, <1>5

LEMMA CredsFailOK ==
  ASSUME IInv, NEW u \in Callers, DeriveFails(u) \/ CreateFails(u)
  PROVE  IInv'
<1>1. Leads(u, "create") /\ Leads(u, "done")
  BY DEF DeriveFails, CreateFails, At, Leads, Unplaced, Calm
<1>2. CASE DeriveFails(u)
  <2>1. exchange'.orders = exchange.orders /\ "orders" \in DOMAIN exchange' /\ UNCHANGED script
    BY <1>2, ExchangeKept DEF DeriveFails
  <2> QED BY <1>1, <1>2, <2>1, FaultEndsOK DEF DeriveFails, NoCreds
<1>3. CASE CreateFails(u)
  <2>1. exchange'.orders = exchange.orders /\ "orders" \in DOMAIN exchange' /\ UNCHANGED script
    BY <1>3, ExchangeKept DEF CreateFails
  <2> QED BY <1>1, <1>3, <2>1, FaultEndsOK DEF CreateFails, NoCreds
<1> QED BY <1>2, <1>3

-------------------------------------------------------------------------------
(* Placing an order. *)

\* An order more of caller u, none of the others.
LEMMA OneMore ==
  ASSUME IInv, UNCHANGED script, NEW u \in Callers, NEW id, id[1] = u,
         exchange'.orders = exchange.orders \cup {id}, "orders" \in DOMAIN exchange',
         task' = [v \in Callers |-> task'[v]], \A v \in Callers : TaskFields(task'[v]),
         \A v \in Callers : v # u => Follows(task[v], task'[v], IsLimit(Call(v))),
         ~Calm(task'[u]), task'[u].faults \in Nat,
         Cardinality(Mine(u)) <= (IF IsLimit(Call(u)) THEN task[u].faults ELSE 0),
         task'[u].faults = task[u].faults \/ task'[u].faults = task[u].faults + 1,
         InDoubt(task'[u]) => task'[u].faults = task[u].faults + 1
  PROVE  IInv'
<1> DEFINE now(v) == {i \in exchange.orders \cup {id} : i[1] = v}
<1>1. \A v \in Callers : IsFiniteSet(Mine(v)) /\ Cardinality(Mine(v)) \in Nat
                        /\ Counted(task[v], IsLimit(Call(v)), Cardinality(Mine(v)))
  BY FS_CardinalityType DEF IInv, OrdersInv
<1>2. ASSUME NEW v \in Callers
      PROVE  IsFiniteSet(now(v)) /\ Counted(task'[v], IsLimit(Call(v)), Cardinality(now(v)))
  <2>1. CASE v # u
    <3>1. now(v) = Mine(v)
      BY <2>1 DEF Mine
    <3> HIDE DEF now
    <3> QED BY <1>1, <2>1, <3>1, FollowsCounted, LimitBool
  <2>2. CASE v = u
    <3>1. now(u) = Mine(u) \cup {id}
      BY DEF Mine
    <3>2. IsFiniteSet(now(u)) /\ Cardinality(now(u)) \in Nat /\ Cardinality(now(u)) <= Cardinality(Mine(u)) + 1
      BY <1>1, <3>1, FS_AddElement, FS_CardinalityType
    <3>3. task[u].faults \in Nat
      BY <1>1 DEF Counted
    <3> HIDE DEF now
    <3>4. Counted(task'[u], IsLimit(Call(u)), Cardinality(now(u)))
      BY <1>1, <3>2, <3>3 DEF Counted
    <3> QED BY <2>2, <3>2, <3>4
  <2> QED BY <2>1, <2>2
<1>3. OrdersInv'
  BY <1>2 DEF OrdersInv, Mine, Call
<1> QED BY <1>3 DEF IInv, TaskShape

\* What the caller has placed when it may post.
LEMMA ReadyCount ==
  ASSUME IInv, NEW u \in Callers, CanPost(u)
  PROVE  /\ Cardinality(Mine(u)) <= (IF IsLimit(Call(u)) THEN task[u].faults ELSE 0)
         /\ task[u].faults \in Nat /\ TaskFields(task[u]) /\ OrderId(u)[1] = u
  BY DEF IInv, TaskShape, OrdersInv, Counted, Calm, CanPost, At, OrderId

\* The order was accepted.
LEMMA PlacedOK ==
  ASSUME IInv, UNCHANGED script, NEW u \in Callers, CanPost(u),
         exchange'.orders = exchange.orders \cup {OrderId(u)}, "orders" \in DOMAIN exchange',
         NEW x, TaskFields(x), x.at = "answered",
         \/ x.answer.says = "ok" /\ x.faults = task[u].faults
         \/ x.answer.says = "lost" /\ x.faults = task[u].faults + 1,
         task' = Moves([task EXCEPT ![u] = x])
  PROVE  IInv'
<1> DEFINE ts == [task EXCEPT ![u] = x]
           id == OrderId(u)
<1>1. ts[u] = x /\ \A v \in Callers : v # u => ts[v] = task[v]
  BY DEF IInv, TaskShape
<1>2. \A v \in Callers : TaskFields(task[v])
  BY DEF IInv, TaskShape
<1>3. \A v \in Callers : TaskFields(ts[v])
  BY <1>1, <1>2
<1> HIDE DEF ts
<1>4. task' = [v \in Callers |-> task'[v]]
  BY DEF Moves, ts
<1>5. ASSUME NEW v \in Callers
      PROVE  /\ TaskFields(task'[v]) /\ task'[v].at = ts[v].at /\ task'[v].answer = ts[v].answer
             /\ task'[v].faults = ts[v].faults
    <2>1. task'[v] = [ts[v] EXCEPT !.moved = @ \/ ts[v].at = "page"]
      BY DEF Moves, ts
    <2> QED BY <1>3, <2>1 DEF TaskFields, Fields
<1>6. ASSUME NEW v \in Callers, v # u PROVE Follows(task[v], task'[v], IsLimit(Call(v)))
  BY <1>1, <1>5, <1>6 DEF Follows, Calm, InDoubt
<1>7. /\ task'[u].at = "answered"
      /\ \/ task'[u].answer.says = "ok" /\ task'[u].faults = task[u].faults
         \/ task'[u].answer.says = "lost" /\ task'[u].faults = task[u].faults + 1
  BY <1>1, <1>5
<1>8. ~Calm(task'[u]) /\ (InDoubt(task'[u]) => task'[u].faults = task[u].faults + 1)
  BY <1>7 DEF Calm, InDoubt
<1>9. id[1] = u /\ task'[u].faults \in Nat
      /\ Cardinality(Mine(u)) <= (IF IsLimit(Call(u)) THEN task[u].faults ELSE 0)
  BY <1>7, ReadyCount
<1> HIDE DEF id
<1>10. exchange'.orders = exchange.orders \cup {id}
  BY DEF id
<1> QED BY <1>4, <1>5, <1>6, <1>7, <1>8, <1>9, <1>10, OneMore

\* It was refused, or it never reached the exchange.
LEMMA UnplacedOK ==
  ASSUME IInv, UNCHANGED script, NEW u \in Callers, CanPost(u),
         exchange'.orders = exchange.orders, "orders" \in DOMAIN exchange',
         NEW x, TaskFields(x), x.at = "answered", x.faults \in {task[u].faults, task[u].faults + 1},
         task' = [task EXCEPT ![u] = x]
  PROVE  IInv'
<1>1. Follows(task[u], x, IsLimit(Call(u)))
  BY DEF Follows, Calm, InDoubt, CanPost, At
<1> QED BY <1>1, OneGoesOn

LEMMA PostOK ==
  ASSUME IInv, NEW u \in Callers, PostAccepted(u) \/ PostRefused(u) \/ PostLost(u)
  PROVE  IInv'
<1> DEFINE x(a) == [task[u] EXCEPT !.at = "answered", !.answer = a, !.posts = task[u].posts + 1]
           y(a) == [task[u] EXCEPT !.at = "answered", !.answer = a, !.posts = task[u].posts + 1,
                                   !.faults = task[u].faults + 1]
<1>1. CanPost(u) /\ UNCHANGED script /\ "orders" \in DOMAIN exchange /\ TaskFields(task[u])
  BY DEF PostAccepted, PostRefused, PostLost, IInv, TaskShape
<1>2. \A a : /\ TaskFields(x(a)) /\ x(a).at = "answered" /\ x(a).answer = a /\ x(a).faults = task[u].faults
             /\ TaskFields(y(a)) /\ y(a).at = "answered" /\ y(a).answer = a /\ y(a).faults = task[u].faults + 1
  BY <1>1 DEF TaskFields, Fields
<1>3. \A a : Answered(task, u, a) = [task EXCEPT ![u] = x(a)]
  BY DEF Answered, IInv, TaskShape
<1>4. \A a : Fault(u, Answered(task, u, a)) = [task EXCEPT ![u] = y(a)]
  <2> SUFFICES ASSUME NEW a PROVE Fault(u, Answered(task, u, a)) = [task EXCEPT ![u] = y(a)]
    OBVIOUS
  <2>1. u \in DOMAIN task
    BY DEF IInv, TaskShape
  <2>2. Fault(u, [task EXCEPT ![u] = x(a)]) = [task EXCEPT ![u] = [x(a) EXCEPT !.faults = @ + 1]]
    <3> HIDE DEF x
    <3> QED BY <2>1 DEF Fault
  <2>3. [x(a) EXCEPT !.faults = @ + 1] = y(a)
    BY <1>1 DEF TaskFields, Fields
  <2> QED BY <1>3, <2>2, <2>3
<1> HIDE DEF x, y
<1>5. CASE PostAccepted(u)
  <2>1. PICK fills : Accept(u, fills) /\ task' = Moves(Answered(task, u, [says |-> "ok", filled |-> Total(fills)]))
    BY <1>5 DEF PostAccepted
  <2>2. exchange'.orders = exchange.orders \cup {OrderId(u)} /\ "orders" \in DOMAIN exchange'
    <3> DEFINE hashes == exchange.hashes \cup {Hash(Body(u).order)}
               open == IF IsLimit(Call(u)) /\ Total(fills) < Held THEN Append(exchange.open, OrderId(u)) ELSE exchange.open
               trades == IF fills = <<>> THEN exchange.trades ELSE Append(exchange.trades, OrderId(u))
               filled == Fill(exchange.filled, OrderId(u), Total(fills))
               frames == exchange.frames \cup {Frame(OrderId(u), fills[k], <<Leg(<<"other", k>>, fills[k])>>) : k \in DOMAIN fills}
    <3>1. exchange' = [exchange EXCEPT !.hashes = hashes, !.orders = @ \cup {OrderId(u)}, !.open = open,
                                       !.trades = trades, !.filled = filled, !.frames = frames]
      BY <2>1 DEF Accept
    <3> HIDE DEF hashes, open, trades, filled, frames
    <3> QED BY <1>1, <3>1
  <2> DEFINE a == [says |-> "ok", filled |-> Total(fills)]
  <2>3. a.says = "ok"
    OBVIOUS
  <2> HIDE DEF a
  <2>4. task' = Moves([task EXCEPT ![u] = x(a)])
    BY <1>3, <2>1 DEF a
  <2> QED BY <1>1, <1>2, <2>2, <2>3, <2>4, PlacedOK
<1>6. CASE PostRefused(u)
  <2>1. exchange'.orders = exchange.orders /\ "orders" \in DOMAIN exchange'
    BY <1>1, <1>6 DEF PostRefused
  <2>2. \E a : task' = [task EXCEPT ![u] = x(a)]
    BY <1>3, <1>6 DEF PostRefused
  <2> QED BY <1>1, <1>2, <2>1, <2>2, UnplacedOK
<1>7. CASE PostLost(u)
  <2> DEFINE a == [says |-> "lost", filled |-> 0]
  <2>1. a.says = "lost"
    OBVIOUS
  <2>2. CASE task' = Fault(u, Answered(task, u, a)) /\ exchange' = Spent(exchange)
    <3>1. exchange'.orders = exchange.orders /\ "orders" \in DOMAIN exchange'
      BY <2>2, ExchangeKept
    <3> HIDE DEF a
    <3> QED BY <1>1, <1>2, <1>4, <2>2, <3>1, UnplacedOK
  <2>3. CASE /\ task' = Moves(Fault(u, Answered(task, u, a)))
             /\ LET id == OrderId(u)
                IN  exchange' = Spent([exchange EXCEPT
                       !.hashes = @ \cup {Hash(Body(u).order)},
                       !.orders = @ \cup {id},
                       !.open = IF IsLimit(Call(u)) THEN Append(@, id) ELSE @,
                       !.filled = Fill(@, id, IF IsLimit(Call(u)) THEN 0 ELSE Held)])
    <3> DEFINE hashes == exchange.hashes \cup {Hash(Body(u).order)}
               open == IF IsLimit(Call(u)) THEN Append(exchange.open, OrderId(u)) ELSE exchange.open
               filled == Fill(exchange.filled, OrderId(u), IF IsLimit(Call(u)) THEN 0 ELSE Held)
               e == [exchange EXCEPT !.hashes = hashes, !.orders = @ \cup {OrderId(u)}, !.open = open, !.filled = filled]
    <3>1. exchange' = Spent(e)
      BY <2>3
    <3> HIDE DEF hashes, open, filled
    <3>2. e.orders = exchange.orders \cup {OrderId(u)} /\ "orders" \in DOMAIN e
      BY <1>1
    <3> HIDE DEF e
    <3>3. exchange'.orders = exchange.orders \cup {OrderId(u)} /\ "orders" \in DOMAIN exchange'
      BY <3>1, <3>2 DEF Spent
    <3>4. task' = Moves([task EXCEPT ![u] = y(a)])
      BY <1>4, <2>3
    <3> HIDE DEF a
    <3>5. /\ TaskFields(y(a)) /\ y(a).at = "answered" /\ y(a).answer.says = "lost"
          /\ y(a).faults = task[u].faults + 1
      BY <1>2, <2>1
    <3> QED BY <1>1, <3>3, <3>4, <3>5, PlacedOK
  <2> QED BY <1>7, <2>2, <2>3 DEF PostLost
<1> QED BY <1>5, <1>6, <1>7

LEMMA RefuseOK ==
  ASSUME IInv, NEW u \in Callers, Refuse(u) \/ PostAgain(u) \/ PlaceFails(u)
  PROVE  IInv'
<1>1. UNCHANGED <<script, exchange>>
  BY DEF Refuse, PostAgain, PlaceFails
<1>2. CASE Refuse(u)
  BY <1>1, <1>2, ExchangeKept, GoesOK DEF Refuse, At, Leads, Unplaced, Calm
<1>3. CASE PostAgain(u)
  BY <1>1, <1>3, ExchangeKept, GoesOK DEF PostAgain, PostsAgain, At, Leads, Unplaced, Calm
<1>4. CASE PlaceFails(u)
  <2>1. \E r : Ends(u, r)
    BY <1>4 DEF PlaceFails
  <2> QED BY <1>1, <2>1, ExchangeKept, EndsOK
<1> QED BY <1>2, <1>3, <1>4

\* A limit order is tried again, once for each answer that was lost.
LEMMA PlaceAgainOK ==
  ASSUME IInv, NEW u \in Callers, PlaceAgain(u)
  PROVE  IInv'
<1> DEFINE x == [task[u] EXCEPT !.at = "creds", !.tries = @ + 1, !.posts = 0]
<1>1. UNCHANGED <<script, exchange>>
  BY DEF PlaceAgain
<1>2. TaskFields(x) /\ x.at = "creds" /\ x.faults = task[u].faults
  BY DEF IInv, TaskShape, TaskFields, Fields
<1>3. task' = [task EXCEPT ![u] = x]
  BY DEF PlaceAgain, IInv, TaskShape
<1>4. Unplaced(u)
  BY DEF PlaceAgain, Returned, PlacesAgain, Unplaced, Calm, InDoubt, At
<1> HIDE DEF x
<1> QED BY <1>1, <1>2, <1>3, <1>4, ExchangeKept, StepsOK DEF Leads

LEMMA PlacedWaits ==
  ASSUME IInv, NEW u \in Callers, Placed(u) \/ WaitTimesOut(u)
  PROVE  IInv'
<1>1. UNCHANGED <<script, exchange>>
  BY DEF Placed, WaitTimesOut
<1>2. CASE WaitTimesOut(u)
  BY <1>1, <1>2, ExchangeKept, EndsOK DEF WaitTimesOut
<1>3. CASE Placed(u)
  <2> DEFINE waits == Call(u).waits /\ ~IsSell(Call(u)) /\ task[u].answer.filled > 0
             used == task[u].used + task[u].answer.filled
             where == IF waits THEN "wait" ELSE "done"
             result == IF waits THEN task[u].result ELSE "ok"
  <2>1. task' = [task EXCEPT ![u].used = used, ![u].at = where, ![u].result = result]
    BY <1>3 DEF Placed
  <2>2. where \in {"wait", "done"}
    OBVIOUS
  <2> HIDE DEF waits, used, where, result
  <2> DEFINE x == [task[u] EXCEPT !.used = used, !.at = where, !.result = result]
  <2>3. TaskFields(x) /\ x.at = where /\ x.faults = task[u].faults
    BY DEF IInv, TaskShape, TaskFields, Fields
  <2>4. task' = [task EXCEPT ![u] = x]
    BY <2>1 DEF IInv, TaskShape
  <2> HIDE DEF x
  <2> QED BY <1>1, <2>2, <2>3, <2>4, ExchangeKept, StepsOK DEF Leads
<1> QED BY <1>2, <1>3

-------------------------------------------------------------------------------
(* The reports of fills, and the other requests. *)

LEMMA ReportOK ==
  ASSUME IInv, NEW f \in exchange.frames, Report(f)
  PROVE  IInv'
<1>1. UNCHANGED script /\ exchange' = [exchange EXCEPT !.frames = @ \ {f}]
  BY DEF Report
<1>2. exchange'.orders = exchange.orders /\ "orders" \in DOMAIN exchange'
  BY <1>1 DEF IInv
<1>3. task' = [v \in Callers |-> task'[v]]
  BY DEF Report
<1>4. ASSUME NEW v \in Callers
      PROVE  \/ task'[v] = task[v]
             \/ \E n : task'[v] = [task[v] EXCEPT !.at = "done", !.result = "ok", !.used = n]
  BY DEF Report
<1>5. ASSUME NEW v \in Callers PROVE Follows(task[v], task'[v], IsLimit(Call(v)))
  <2>1. TaskFields(task[v])
    BY DEF IInv, TaskShape
  <2>2. CASE task'[v] = task[v]
    BY <2>1, <2>2, Same
  <2>3. ASSUME NEW n, task'[v] = [task[v] EXCEPT !.at = "done", !.result = "ok", !.used = n]
        PROVE  Follows(task[v], task'[v], IsLimit(Call(v)))
    <3>1. TaskFields(task'[v]) /\ task'[v].at = "done" /\ task'[v].faults = task[v].faults
      BY <2>1, <2>3 DEF TaskFields, Fields
    <3> QED BY <3>1 DEF Follows, Calm, InDoubt
  <2> QED BY <1>4, <2>2, <2>3
<1> QED BY <1>1, <1>2, <1>3, <1>5, Quiet

LEMMA MakerMatchOK ==
  ASSUME IInv, NEW id, MakerMatch(id)
  PROVE  IInv'
<1>1. UNCHANGED script /\ task' = Moves(task)
  BY DEF MakerMatch
<1>2. \E open, filled, frames : exchange' = [exchange EXCEPT !.open = open, !.filled = filled, !.frames = frames]
  <2> DEFINE open == Remaining(exchange.open, {id})
             rest == IF id \in DOMAIN exchange.filled THEN Held - exchange.filled[id] ELSE Held
             filled == Fill(exchange.filled, id, Held)
             frames == exchange.frames \cup
               {Frame(<<"other", 0>>, Held + 1, <<Leg(<<"other", 1>>, Held + 1 - rest), Leg(id, rest)>>)}
  <2>1. exchange' = [exchange EXCEPT !.open = open, !.filled = filled, !.frames = frames]
    BY DEF MakerMatch
  <2> HIDE DEF open, filled, frames
  <2> QED BY <2>1
<1>3. exchange'.orders = exchange.orders /\ "orders" \in DOMAIN exchange'
  BY <1>2 DEF IInv
<1>4. \A v \in Callers : Follows(task[v], task[v], IsLimit(Call(v)))
  BY Same DEF IInv, TaskShape
<1> QED BY <1>1, <1>3, <1>4, MovesOK

\* A cancelled order: the lists moved before the call ends.
LEMMA CancelledOK ==
  ASSUME IInv, UNCHANGED script, exchange'.orders = exchange.orders, "orders" \in DOMAIN exchange',
         NEW u \in Callers, NEW r, NEW ts, ts = Moves(task) \/ ts = Fault(u, Moves(task)),
         task' = [ts EXCEPT ![u].at = "done", ![u].result = r]
  PROVE  IInv'
<1>1. ASSUME NEW v \in Callers
      PROVE  /\ TaskFields(Moves(task)[v]) /\ Moves(task)[v].at = task[v].at
             /\ Moves(task)[v].answer = task[v].answer /\ Moves(task)[v].faults = task[v].faults
  <2>1. Moves(task)[v] = [task[v] EXCEPT !.moved = @ \/ task[v].at = "page"] /\ TaskFields(task[v])
    BY DEF Moves, IInv, TaskShape
  <2> QED BY <2>1 DEF TaskFields, Fields
<1>2. Moves(task) = [v \in Callers |-> Moves(task)[v]]
  BY DEF Moves
<1> DEFINE m == Moves(task)
<1> HIDE DEF m
<1>3. /\ m = [v \in Callers |-> m[v]]
      /\ \A v \in Callers : /\ TaskFields(m[v]) /\ m[v].at = task[v].at
                            /\ m[v].answer = task[v].answer /\ m[v].faults = task[v].faults
  BY <1>1, <1>2 DEF m
<1>4. ts = m \/ ts = [m EXCEPT ![u].faults = m[u].faults + 1]
  BY DEF m, Fault
<1>5. /\ ts = [v \in Callers |-> ts[v]] /\ \A v \in Callers : v # u => ts[v] = m[v]
      /\ TaskFields(ts[u]) /\ ts[u].faults \in {task[u].faults, task[u].faults + 1}
  <2>1. CASE ts = m
    BY <1>3, <2>1
  <2>2. CASE ts = [m EXCEPT ![u].faults = m[u].faults + 1]
    <3>1. ts = [v \in Callers |-> ts[v]] /\ \A v \in Callers : v # u => ts[v] = m[v]
      BY <1>3, <2>2
    <3>2. ts[u] = [m[u] EXCEPT !.faults = m[u].faults + 1]
      BY <1>3, <2>2
    <3>3. TaskFields(ts[u]) /\ ts[u].faults = task[u].faults + 1
      BY <1>3, <3>2 DEF TaskFields, Fields
    <3> QED BY <3>1, <3>3
  <2> QED BY <1>4, <2>1, <2>2
<1>6. /\ task' = [v \in Callers |-> task'[v]] /\ \A v \in Callers : v # u => task'[v] = m[v]
      /\ task'[u] = [ts[u] EXCEPT !.at = "done", !.result = r]
  BY <1>5
<1>7. TaskFields(task'[u]) /\ task'[u].at = "done" /\ task'[u].faults = ts[u].faults
  BY <1>5, <1>6 DEF TaskFields, Fields
<1>8. Follows(task[u], task'[u], IsLimit(Call(u)))
  BY <1>5, <1>7 DEF Follows, Calm, InDoubt
<1>9. ASSUME NEW v \in Callers, v # u PROVE Follows(task[v], task'[v], IsLimit(Call(v)))
  <2> DEFINE x == task[v]
             y == task'[v]
             lim == IsLimit(Call(v))
  <2>1. y = m[v]
    BY <1>6, <1>9
  <2>2. TaskFields(y) /\ y.at = x.at /\ y.answer = x.answer /\ y.faults = x.faults
    BY <1>3, <2>1
  <2> HIDE DEF x, y, lim
  <2>3. Follows(x, y, lim)
    BY <2>2 DEF Follows, Calm, InDoubt
  <2> QED BY <2>3 DEF x, y, lim
<1> QED BY <1>6, <1>8, <1>9, Quiet

\* A request that ends the call, or leads to the next page or to the read.
LEMMA RequestsOK ==
  ASSUME IInv, NEW u \in Callers, Warm(u) \/ ReadBalance(u) \/ Page(u) \/ Cancel(u) \/ CancelAll(u)
  PROVE  IInv'
<1>1. UNCHANGED script /\ TaskFields(task[u])
  BY DEF Warm, ReadBalance, Page, Cancel, CancelAll, IInv, TaskShape
<1> DEFINE Ending(x) == TaskFields(x) /\ x.faults = task[u].faults /\ x.at \in {"done", "read", "page"}
<1>2. ASSUME NEW x, Ending(x), exchange'.orders = exchange.orders, "orders" \in DOMAIN exchange',
             task' = [task EXCEPT ![u] = x]
      PROVE  IInv'
  BY <1>1, <1>2, StepsOK DEF Leads
<1>3. CASE Warm(u)
  <2> DEFINE result == IF Call(u).kind = "load" THEN task[u].result ELSE "ok"
             x == [task[u] EXCEPT !.at = AfterWarm(u), !.result = result]
  <2>1. task' = [task EXCEPT ![u] = x]
    BY <1>3 DEF Warm, IInv, TaskShape
  <2>2. AfterWarm(u) \in {"done", "read"}
    BY DEF AfterWarm
  <2> HIDE DEF result
  <2>3. Ending(x)
    BY <1>1, <2>2 DEF TaskFields, Fields
  <2>4. exchange'.orders = exchange.orders /\ "orders" \in DOMAIN exchange'
    BY <1>3, ExchangeKept DEF Warm
  <2> HIDE DEF x, Ending
  <2> QED BY <1>2, <2>1, <2>3, <2>4
<1>4. CASE ReadBalance(u)
  <2> DEFINE n == IF exchange.settled THEN Held ELSE 0
             x == [task[u] EXCEPT !.at = "done", !.result = "ok", !.used = n]
  <2>1. task' = [task EXCEPT ![u] = x]
    BY <1>4 DEF ReadBalance, IInv, TaskShape
  <2> HIDE DEF n
  <2>2. Ending(x)
    BY <1>1 DEF TaskFields, Fields
  <2>3. exchange'.orders = exchange.orders /\ "orders" \in DOMAIN exchange'
    BY <1>4, ExchangeKept DEF ReadBalance
  <2> HIDE DEF x, Ending
  <2> QED BY <1>2, <2>1, <2>2, <2>3
<1>5. CASE Page(u)
  <2> DEFINE rows == Rows(Call(u).kind)
             from == task[u].page
             got == task[u].got \o PageOf(rows, from)
             began == IF At(u, "ready") THEN rows ELSE task[u].began
             last == LastPage(rows, from)
             where == IF last THEN "done" ELSE "page"
             result == IF last THEN "ok" ELSE task[u].result
             x == [task[u] EXCEPT !.got = got, !.page = task[u].page + PageSize, !.began = began, !.at = where,
                                  !.result = result]
  <2>1. task' = [task EXCEPT ![u].got = got, ![u].page = @ + PageSize, ![u].began = began, ![u].at = where,
                             ![u].result = result]
    BY <1>5 DEF Page
  <2>2. where \in {"done", "page"}
    OBVIOUS
  <2> HIDE DEF got, began, where, result
  <2>3. task' = [task EXCEPT ![u] = x]
    BY <2>1 DEF IInv, TaskShape
  <2>4. Ending(x)
    BY <1>1, <2>2 DEF TaskFields, Fields
  <2>5. exchange'.orders = exchange.orders /\ "orders" \in DOMAIN exchange'
    BY <1>5, ExchangeKept DEF Page
  <2> HIDE DEF x, Ending
  <2> QED BY <1>2, <2>3, <2>4, <2>5
<1>6. CASE Cancel(u) \/ CancelAll(u)
  <2>1. exchange'.orders = exchange.orders /\ "orders" \in DOMAIN exchange'
    BY <1>6, ExchangeKept DEF Cancel, CancelAll
  <2>2. \E r : \/ task' = [task EXCEPT ![u].at = "done", ![u].result = r]
               \/ task' = [Moves(task) EXCEPT ![u].at = "done", ![u].result = r]
    BY <1>6 DEF Cancel, CancelAll
  <2> QED BY <1>1, <2>1, <2>2, EndsOK, CancelledOK DEF Ends
<1> QED BY <1>3, <1>4, <1>5, <1>6

\* A request whose answer is lost ends the call; a warm-up that is lost may go on to the read.
LEMMA LostOK ==
  ASSUME IInv, NEW u \in Callers, WarmFails(u) \/ ReadFails(u) \/ PageFails(u) \/ CancelLost(u)
  PROVE  IInv'
<1>1. UNCHANGED script /\ TaskFields(task[u])
  BY DEF WarmFails, ReadFails, PageFails, CancelLost, IInv, TaskShape
<1>2. exchange'.orders = exchange.orders /\ "orders" \in DOMAIN exchange'
  BY ExchangeKept DEF WarmFails, ReadFails, PageFails, CancelLost
<1>3. CASE WarmFails(u)
  <2>1. AfterWarm(u) \in {"done", "read"}
    BY DEF AfterWarm
  <2>2. Leads(u, AfterWarm(u))
    BY <2>1 DEF Leads
  <2> DEFINE result == IF Call(u).kind = "load" THEN Fault(u, task)[u].result ELSE "lost"
  <2>3. task' = [Fault(u, task) EXCEPT ![u].at = AfterWarm(u), ![u].result = result]
    BY <1>3 DEF WarmFails
  <2> HIDE DEF result
  <2> QED BY <1>1, <1>2, <2>2, <2>3, FaultEndsOK
<1>4. CASE ReadFails(u)
  BY <1>1, <1>2, <1>4, FaultEndsOK DEF ReadFails, Leads
<1>5. CASE PageFails(u)
  <2> DEFINE x == [task[u] EXCEPT !.faults = task[u].faults + 1, !.at = "done", !.result = "lost", !.got = <<>>]
  <2>1. task' = [Fault(u, task) EXCEPT ![u].at = "done", ![u].result = "lost", ![u].got = <<>>]
    BY <1>5 DEF PageFails
  <2>2. task' = [task EXCEPT ![u] = x]
    BY <2>1 DEF Fault, IInv, TaskShape
  <2>3. TaskFields(x) /\ x.at = "done" /\ x.faults = task[u].faults + 1
    BY <1>1 DEF TaskFields, Fields
  <2> HIDE DEF x
  <2> QED BY <1>1, <1>2, <2>2, <2>3, StepsOK DEF Leads
<1>6. CASE CancelLost(u)
  <2>1. \/ task' = [Fault(u, task) EXCEPT ![u].at = "done", ![u].result = "lost"]
        \/ task' = [Fault(u, Moves(task)) EXCEPT ![u].at = "done", ![u].result = "lost"]
    BY <1>6 DEF CancelLost
  <2>2. Leads(u, "done")
    BY DEF Leads
  <2> QED BY <1>1, <1>2, <2>1, <2>2, FaultEndsOK, CancelledOK
<1> QED BY <1>3, <1>4, <1>5, <1>6

-------------------------------------------------------------------------------
LEMMA InitOK == Init => IInv
<1> SUFFICES ASSUME Init PROVE IInv
  OBVIOUS
<1>1. task = [u \in Callers |-> Idle] /\ exchange.orders = {} /\ "orders" \in DOMAIN exchange
  BY DEF Init
<1>2. TaskFields(Idle) /\ Idle.at = "idle" /\ Idle.faults = 0
  BY DEF Idle, TaskFields, Fields
<1>3. \A u \in Callers : Mine(u) = {}
  BY <1>1 DEF Mine
<1>4. IsFiniteSet({}) /\ Cardinality({}) = 0
  BY FS_EmptySet
<1>5. OrdersInv
  BY <1>1, <1>2, <1>3, <1>4 DEF OrdersInv, Counted, InDoubt
<1> QED BY <1>1, <1>2, <1>5 DEF IInv, TaskShape

LEMMA StepOK == IInv /\ [Next]_vars => IInv'
<1> SUFFICES ASSUME IInv, [Next]_vars PROVE IInv'
  OBVIOUS
<1>1. CASE UNCHANGED vars
  <2>1. UNCHANGED <<script, exchange, task>>
    BY <1>1 DEF vars
  <2> QED BY <2>1 DEF IInv, TaskShape, OrdersInv, Mine, Call
<1>2. ASSUME NEW u \in Callers, Step(u) \/ Fails(u) PROVE IInv'
  BY <1>2, CredsOK, CredsFailOK, PostOK, RefuseOK, PlaceAgainOK, PlacedWaits, RequestsOK, LostOK DEF Step, Fails
<1> QED BY <1>1, <1>2, ReportOK, MakerMatchOK DEF Next

(* A call places one order, and a limit order one more for each of its answers that was
   lost: a POST is repeated after a refusal only, which is what place_order and
   place_limit_with_retries tell apart (trading.rs:2395, main.rs:1565). *)
THEOREM AtMostOnceHolds == Spec => []AtMostOnce
<1>1. IInv => AtMostOnce
  BY DEF IInv, OrdersInv, Counted, AtMostOnce, Mine
<1> QED BY <1>1, InitOK, StepOK, PTL DEF Spec

-------------------------------------------------------------------------------
(* Lists. *)

\* A set of natural numbers that is not empty has a least element.
LEMMA LeastNatural ==
  ASSUME NEW T \in SUBSET Nat, T # {}
  PROVE  \E x \in T : \A y \in T : x <= y
<1> DEFINE R == OpToRel(<, Nat)
<1>1. IsWellFoundedOn(R, Nat)
  BY NatLessThanWellFounded
<1>2. \A x, y \in Nat : x < y => <<x, y>> \in R
  BY DEF OpToRel
<1> HIDE DEF R
<1>3. PICK x \in T : \A y \in T : ~(<<y, x>> \in R)
  BY <1>1, WFMin
<1>4. \A y \in T : ~(y < x)
  BY <1>2, <1>3
<1> QED BY <1>3, <1>4

\* What Remaining computes of the first n rows.
IsKept(k, s, ids, n) ==
  k = [m \in 0 .. n |-> IF m = 0 THEN <<>> ELSE IF s[m] \in ids THEN k[m - 1] ELSE Append(k[m - 1], s[m])]

Kept(s, ids) ==
  CHOOSE k : k = [m \in 0 .. Len(s) |->
                    IF m = 0 THEN <<>> ELSE IF s[m] \in ids THEN k[m - 1] ELSE Append(k[m - 1], s[m])]

LEMMA KeptExists ==
  ASSUME NEW s, NEW ids, NEW n \in Nat
  PROVE  \E k : IsKept(k, s, ids, n)
<1> DEFINE Lacking == {m \in Nat : ~\E k : IsKept(k, s, ids, m)}
<1>1. SUFFICES Lacking = {}
  OBVIOUS
<1>2. SUFFICES ASSUME Lacking # {} PROVE FALSE
  OBVIOUS
<1>3. PICK m \in Lacking : \A j \in Lacking : m <= j
  BY <1>2, LeastNatural
<1>4. CASE m = 0
  <2>1. IsKept([j \in 0 .. 0 |-> <<>>], s, ids, 0)
    BY DEF IsKept
  <2> QED BY <1>4, <2>1
<1>5. CASE m # 0
  <2>1. m \in Nat /\ m - 1 \in Nat /\ m - 1 \notin Lacking
    BY <1>3, <1>5
  <2>2. PICK k : IsKept(k, s, ids, m - 1)
    BY <2>1
  <2>3. PICK g : g = [j \in 0 .. m |-> IF j = m THEN IF s[m] \in ids THEN k[m - 1] ELSE Append(k[m - 1], s[m])
                                       ELSE k[j]]
    OBVIOUS
  <2>4. ASSUME NEW j \in 0 .. m
        PROVE  g[j] = IF j = 0 THEN <<>> ELSE IF s[j] \in ids THEN g[j - 1] ELSE Append(g[j - 1], s[j])
    <3> HIDE DEF Lacking
    <3>1. CASE j = m
      <4>1. m - 1 \in 0 .. m /\ m - 1 # m /\ j # 0
        BY <1>5, <2>1, <3>1
      <4> QED BY <2>3, <3>1, <4>1
    <3>2. CASE j # m /\ j # 0
      <4>1. j \in 0 .. (m - 1) /\ j - 1 \in 0 .. m /\ j - 1 # m /\ g[j] = k[j] /\ g[j - 1] = k[j - 1]
        BY <2>1, <2>3, <3>2
      <4>2. k[j] = IF j = 0 THEN <<>> ELSE IF s[j] \in ids THEN k[j - 1] ELSE Append(k[j - 1], s[j])
        BY <2>2, <4>1 DEF IsKept
      <4> QED BY <4>1, <4>2
    <3>3. CASE j = 0
      <4>1. 0 \in 0 .. (m - 1) /\ g[0] = k[0]
        BY <1>5, <2>1, <2>3
      <4>2. k[0] = <<>>
        BY <2>2, <4>1 DEF IsKept
      <4> QED BY <3>3, <4>1, <4>2
    <3> QED BY <3>1, <3>2, <3>3
  <2>5. g = [j \in 0 .. m |-> g[j]]
    BY <2>3
  <2>6. IsKept(g, s, ids, m)
    BY <2>4, <2>5 DEF IsKept
  <2> QED BY <2>6
<1> QED BY <1>4, <1>5

LEMMA RemainingIs ==
  ASSUME NEW s, NEW ids, Len(s) \in Nat
  PROVE  IsKept(Kept(s, ids), s, ids, Len(s)) /\ Remaining(s, ids) = Kept(s, ids)[Len(s)]
<1>1. \E k : IsKept(k, s, ids, Len(s))
  BY KeptExists
<1>2. IsKept(Kept(s, ids), s, ids, Len(s))
  BY <1>1 DEF IsKept, Kept
<1> QED BY <1>2 DEF Remaining, Kept

\* What remains are the rows that are not dropped; all do when none is.
LEMMA RemainingRows ==
  ASSUME NEW S, NEW s \in Seq(S), NEW ids
  PROVE  /\ Remaining(s, ids) \in Seq(Range(s) \ ids)
         /\ Range(s) \cap ids = {} => Remaining(s, ids) = s
<1> DEFINE k == Kept(s, ids)
           Right(m) == /\ k[m] \in Seq(Range(s) \ ids)
                       /\ Range(s) \cap ids = {} => k[m] = SubSeq(s, 1, m)
           Wrong == {m \in 0 .. Len(s) : ~Right(m)}
<1>1. Len(s) \in Nat /\ \A i \in 1 .. Len(s) : s[i] \in Range(s)
  BY DEF Range
<1>2. IsKept(k, s, ids, Len(s)) /\ Remaining(s, ids) = k[Len(s)]
  BY <1>1, RemainingIs
<1> HIDE DEF k
<1>3. \A m \in 0 .. Len(s) :
        k[m] = IF m = 0 THEN <<>> ELSE IF s[m] \in ids THEN k[m - 1] ELSE Append(k[m - 1], s[m])
  BY <1>2 DEF IsKept
<1>4. Wrong = {}
  <2>1. SUFFICES ASSUME Wrong # {} PROVE FALSE
    OBVIOUS
  <2>2. Wrong \in SUBSET Nat
    OBVIOUS
  <2>3. PICK m \in Wrong : \A j \in Wrong : m <= j
    BY <2>1, <2>2, LeastNatural
  <2>4. m \in 0 .. Len(s) /\ ~Right(m)
    BY <2>3
  <2>5. CASE m = 0
    <3>1. k[0] = <<>> /\ SubSeq(s, 1, 0) = <<>>
      BY <1>1, <1>3, SubSeqEmpty
    <3> QED BY <2>4, <2>5, <3>1
  <2>6. CASE m # 0
    <3>1. m \in Nat /\ m \in 1 .. Len(s) /\ m - 1 \in 0 .. Len(s)
      BY <1>1, <2>4, <2>6
    <3>2. m - 1 \notin Wrong
      <4> HIDE DEF Wrong
      <4> QED BY <2>3, <3>1
    <3>3. Right(m - 1)
      BY <3>1, <3>2
    <3>4. k[m] = IF s[m] \in ids THEN k[m - 1] ELSE Append(k[m - 1], s[m])
      BY <1>3, <2>6, <3>1
    <3>5. s[m] \in Range(s)
      BY <1>1, <3>1
    <3>6. k[m] \in Seq(Range(s) \ ids)
      BY <3>3, <3>4, <3>5, AppendProperties
    <3>7. Range(s) \cap ids = {} => k[m] = SubSeq(s, 1, m)
      <4>1. SubSeq(s, 1, m) = Append(SubSeq(s, 1, m - 1), s[m])
        BY <3>1, SubSeqRecursiveSecond
      <4> QED BY <3>3, <3>4, <3>5, <4>1
    <3> QED BY <2>4, <3>6, <3>7
  <2> QED BY <2>5, <2>6
<1>5. Right(Len(s))
  BY <1>1, <1>4
<1>6. SubSeq(s, 1, Len(s)) = s
  BY SubSeqFull
<1> QED BY <1>2, <1>5, <1>6

\* The sum of a POST's trades, as the fold computes it.
First(s) == CHOOSE x \in s : TRUE
Sums(f, D) ==
  CHOOSE h : h = [s \in SUBSET D |-> IF s = {} THEN 0
                                     ELSE f[CHOOSE x \in s : TRUE] + h[s \ {CHOOSE x \in s : TRUE}]]
IsSums(h, f, D) ==
  h = [s \in SUBSET D |-> IF s = {} THEN 0 ELSE f[First(s)] + h[s \ {First(s)}]]

LEMMA TotalIs ==
  ASSUME NEW f
  PROVE  Total(f) = Sums(f, DOMAIN f)[DOMAIN f]
  BY DEF Total, FoldSeq, FoldFunction, FoldFunctionOnSet, MapThenFoldSet, Sums

LEMMA SumsAre ==
  ASSUME NEW f, NEW D, NEW g, IsSums(g, f, D)
  PROVE  IsSums(Sums(f, D), f, D)
  BY DEF IsSums, Sums, First

\* One trade.
LEMMA TotalOne ==
  ASSUME NEW n \in Nat
  PROVE  Total(<<n>>) = n
<1> DEFINE f == <<n>>
           g == [s \in SUBSET {1} |-> IF s = {} THEN 0 ELSE n]
           h == Sums(f, {1})
<1>1. DOMAIN f = {1} /\ f[1] = n
  OBVIOUS
<1>2. ASSUME NEW s \in SUBSET {1}, s # {} PROVE s = {1} /\ First(s) = 1 /\ s \ {First(s)} = {}
  BY <1>2 DEF First
<1>3. IsSums(g, f, {1})
  <2>1. \A s \in SUBSET {1} : g[s] = IF s = {} THEN 0 ELSE f[First(s)] + g[s \ {First(s)}]
    BY <1>1, <1>2
  <2> HIDE DEF f
  <2> QED BY <2>1 DEF IsSums
<1> HIDE DEF f, g
<1>4. IsSums(h, f, {1})
  BY <1>3, SumsAre
<1>5. Total(f) = h[{1}]
  BY <1>1, TotalIs
<1> HIDE DEF h
<1>6. h[{}] = 0 /\ h[{1}] = f[First({1})] + h[{1} \ {First({1})}]
  BY <1>4 DEF IsSums
<1>7. h[{1}] = n
  BY <1>1, <1>2, <1>6
<1> QED BY <1>5, <1>7 DEF f

\* Two trades of one share.
LEMMA TotalTwo == Total(<<1, 1>>) = 2
<1> DEFINE f == <<1, 1>>
           g == [s \in SUBSET {1, 2} |-> IF s = {} THEN 0 ELSE IF s = {1, 2} THEN 2 ELSE 1]
           h == Sums(f, {1, 2})
<1>1. DOMAIN f = {1, 2} /\ f[1] = 1 /\ f[2] = 1
  OBVIOUS
<1>2. \A s \in SUBSET {1, 2} : s # {} => First(s) \in s
  BY DEF First
<1>3. ASSUME NEW s \in SUBSET {1, 2}, s # {}
      PROVE  f[First(s)] = 1 /\ s \ {First(s)} \in SUBSET {1, 2}
  BY <1>1, <1>2, <1>3
<1>4. ASSUME NEW s \in SUBSET {1, 2}, s # {}, s # {1, 2} PROVE s \ {First(s)} = {}
  <2>1. s = {1} \/ s = {2}
    BY <1>4
  <2> QED BY <1>2, <2>1
<1>5. {1, 2} \ {First({1, 2})} \in {{1}, {2}}
  BY <1>2
<1>6. IsSums(g, f, {1, 2})
  <2>1. ASSUME NEW s \in SUBSET {1, 2}
        PROVE  g[s] = IF s = {} THEN 0 ELSE f[First(s)] + g[s \ {First(s)}]
    <3>1. CASE s = {}
      BY <3>1
    <3>2. CASE s # {} /\ s # {1, 2}
      <4>1. g[s] = 1 /\ g[s \ {First(s)}] = 0
        BY <1>4, <3>2
      <4> QED BY <1>3, <3>2, <4>1
    <3>3. CASE s = {1, 2}
      <4>1. g[{1}] = 1 /\ g[{2}] = 1 /\ g[{1, 2}] = 2
        OBVIOUS
      <4>2. g[s \ {First(s)}] = 1
        BY <1>5, <3>3, <4>1
      <4> QED BY <1>3, <3>3, <4>1, <4>2
    <3> QED BY <3>1, <3>2, <3>3
  <2> HIDE DEF f
  <2> QED BY <2>1 DEF IsSums
<1> HIDE DEF f, g
<1>7. IsSums(h, f, {1, 2})
  BY <1>6, SumsAre
<1>8. Total(f) = h[{1, 2}]
  BY <1>1, TotalIs
<1> HIDE DEF h
<1>9. /\ h[{}] = 0
      /\ \A s \in SUBSET {1, 2} : s # {} => h[s] = 1 + h[s \ {First(s)}]
  BY <1>3, <1>7 DEF IsSums
<1>10. h[{1}] = 1 /\ h[{2}] = 1
  <2>1. h[{1}] = 1 + h[{1} \ {First({1})}] /\ h[{2}] = 1 + h[{2} \ {First({2})}]
    BY <1>9
  <2>2. {1} \ {First({1})} = {} /\ {2} \ {First({2})} = {}
    BY <1>4
  <2> QED BY <1>9, <2>1, <2>2
<1>11. h[{1, 2}] = 2
  <2>1. h[{1, 2}] = 1 + h[{1, 2} \ {First({1, 2})}]
    BY <1>9
  <2> QED BY <1>5, <1>10, <2>1
<1> QED BY <1>8, <1>11 DEF f

\* No trade of a POST is for more than all of them, nor all of them for more than is held.
LEMMA TotalOfFills ==
  ASSUME NEW fills \in Fills
  PROVE  /\ Total(fills) \in Nat /\ Total(fills) <= Held
         /\ \A k \in DOMAIN fills : fills[k] <= Total(fills)
<1>1. CASE fills = <<>>
  <2>1. DOMAIN <<>> = {} /\ SUBSET (DOMAIN <<>>) = {{}}
    OBVIOUS
  <2>2. Total(<<>>) = 0
    BY <2>1 DEF Total, FoldSeq, FoldFunction, FoldFunctionOnSet, MapThenFoldSet
  <2> QED BY <1>1, <2>1, <2>2 DEF Held
<1>2. CASE fills = <<1>>
  BY <1>2, TotalOne DEF Held
<1>3. CASE fills = <<2>>
  BY <1>3, TotalOne DEF Held
<1>4. CASE fills = <<1, 1>>
  BY <1>4, TotalTwo DEF Held
<1> QED BY <1>1, <1>2, <1>3, <1>4 DEF Fills

-------------------------------------------------------------------------------
(* What the attempts of a caller leave behind.  The invariant speaks of callers u with
   their calls c and tasks x, of all the tasks ts, and of the exchange e. *)

EFields == {"key", "settled", "open", "trades", "hashes", "orders", "frames", "filled", "faults"}

\* The order of an attempt that was made.
Past(id, ts) ==
  \E v \in Callers, i, j \in Nat :
    id = <<v, i, j>> /\ (i < ts[v].tries \/ (i = ts[v].tries /\ j < ts[v].posts))
Latest(u, x) == <<u, x.tries, x.posts - 1>>
Known(id, n, e) == id \in DOMAIN e.filled /\ n \in Nat /\ n <= e.filled[id]

\* The orders and the signatures that the exchange has are those of attempts that were
\* made, and no report tells of more than was filled.
ExchangeOK(e, ts) ==
  /\ e = [f \in EFields |-> e[f]]
  /\ e.open \in Seq(Range(e.open)) /\ e.trades \in Seq(Range(e.trades))
  /\ \A h \in e.hashes : Past(h.hashOf.salt, ts)
  /\ \A id \in Range(e.open) : id \in OrderIds => Past(id, ts)
  /\ \A id \in DOMAIN e.filled : /\ e.filled[id] \in Nat /\ e.filled[id] <= Held
                                 /\ id \in OrderIds => Past(id, ts)
  /\ \A f \in e.frames : \A l \in LegsOf(f) : l.order \in OrderIds => Known(l.order, l.size, e)

\* A waiter waits for the order of its caller's last POST.
PendingOK(p, ts) ==
  \A w \in p : /\ w.waiter \in Callers /\ ts[w.waiter].at \in {"wait", "done"}
               /\ w.order = Latest(w.waiter, ts[w.waiter])

Answers == {"ok", "balance", "lost"}
StageOK(c, x) ==
  /\ TaskFields(x) /\ x.tries \in Nat /\ x.posts \in Nat /\ x.faults \in Nat
  /\ x.at \in {"refused", "answered", "wait"} => c.kind \in Posts
  /\ x.at \in {"answered", "wait"} => x.posts > 0
  /\ x.at = "answered" => x.answer.says \in Answers
  /\ x.at = "read" => c.kind = "load"
  /\ x.at = "page" => c.kind \in {"orders", "trades"}
  /\ x.at # "done" => x.result = None
  /\ x.result # "bad_signature"

\* What is told of fills.
FillOK(u, c, x, e) ==
  c.kind \in Posts =>
    /\ x.at \notin {"wait", "done"} => x.used = 0
    /\ x.at = "answered" /\ x.answer.says = "ok" => Known(Latest(u, x), x.answer.filled, e)
    /\ x.at = "wait" \/ x.result = "ok" => Known(Latest(u, x), x.used, e)

\* What is told of lists: the pages read so far are the beginning of the list.
ListOf(c, e) == IF c.kind = "trades" THEN e.trades ELSE e.open
ListOK(c, x, e) ==
  c.kind \in {"orders", "trades"} =>
    /\ x.at \notin {"page", "done"} => x.page = 0 /\ x.got = <<>>
    /\ x.at = "page" /\ ~x.moved =>
         /\ x.page \in 0 .. Len(ListOf(c, e)) /\ x.began = ListOf(c, e)
         /\ x.got = SubSeq(ListOf(c, e), 1, x.page)
    /\ x.result = "ok" /\ ~x.moved => x.got = x.began

\* What is told of the balance, and of a cancelled order.
RestOK(c, x, e) ==
  /\ c.kind = "load" /\ x.faults = 0 => /\ x.at = "read" => e.settled = TRUE
                                        /\ x.result = "ok" => x.used = Held
  /\ c.kind = "cancel" /\ x.result = "ok" => c.order \notin Range(e.open)

TaskOK(u, c, x, e) == StageOK(c, x) /\ FillOK(u, c, x, e) /\ ListOK(c, x, e) /\ RestOK(c, x, e)

AnswerInv ==
  /\ sigType \in SigTypes /\ \A u \in Callers : Call(u).order \notin OrderIds
  /\ task = [u \in Callers |-> task[u]] /\ \A u \in Callers : TaskOK(u, Call(u), task[u], exchange)
  /\ ExchangeOK(exchange, task) /\ PendingOK(pending, task)

\* Where all callers share the credentials: one at a time derives them, and is refused
\* only after a failure of its own.
CredsOnce ==
  (\A u \in Callers : Shares(u)) =>
    \A u \in Callers :
      /\ task[u].at \in {"derive", "create"} => lock = u
      /\ task[u].at = "create" /\ task[u].faults = 0 => exchange.key = FALSE
      /\ task[u].result = "no_creds" => task[u].faults > 0

Stirred(x) == [x EXCEPT !.moved = x.moved \/ x.at = "page"]
Later(x, y) == x.tries < y.tries \/ (x.tries = y.tries /\ x.posts <= y.posts)

\* What no step takes back.
Grows(e, f) ==
  /\ \A id \in DOMAIN e.filled : id \in DOMAIN f.filled /\ f.filled[id] \in Nat /\ e.filled[id] <= f.filled[id]
  /\ e.settled = TRUE => f.settled = TRUE
  /\ Range(f.open) \subseteq Range(e.open) \cup OrderIds
SameLists(e, f) == f.open = e.open /\ f.trades = e.trades

\* A step that tells the exchange nothing of an order.
Similar(e, f) ==
  /\ f = [g \in EFields |-> f[g]]
  /\ f.open = e.open /\ f.trades = e.trades /\ f.hashes = e.hashes /\ f.frames = e.frames /\ f.filled = e.filled
  /\ e.settled = TRUE => f.settled = TRUE

LEMMA StirredFields ==
  ASSUME NEW x, TaskFields(x)
  PROVE  LET y == Stirred(x) IN
         /\ TaskFields(y) /\ y.at = x.at /\ y.tries = x.tries /\ y.posts = x.posts /\ y.answer = x.answer
         /\ y.result = x.result /\ y.faults = x.faults /\ y.used = x.used /\ y.page = x.page
         /\ y.got = x.got /\ y.began = x.began /\ (~y.moved => ~x.moved /\ x.at # "page")
  BY DEF Stirred, TaskFields, Fields

LEMMA KnownGrows ==
  ASSUME NEW e, NEW f, Grows(e, f), NEW id, NEW n, \A o \in DOMAIN e.filled : e.filled[o] \in Nat, Known(id, n, e)
  PROVE  Known(id, n, f)
<1>1. /\ id \in DOMAIN e.filled /\ n \in Nat /\ n <= e.filled[id] /\ e.filled[id] \in Nat
      /\ id \in DOMAIN f.filled /\ f.filled[id] \in Nat /\ e.filled[id] <= f.filled[id]
  BY DEF Known, Grows
<1>2. n <= f.filled[id]
  BY <1>1
<1> QED BY <1>1, <1>2 DEF Known

\* A task that takes no part, and one whose list moves.
LEMMA TaskStays ==
  ASSUME NEW u, NEW c, c.order \notin OrderIds, NEW x, NEW e, NEW f, TaskOK(u, c, x, e), Grows(e, f), SameLists(e, f),
         \A o \in DOMAIN e.filled : e.filled[o] \in Nat
  PROVE  TaskOK(u, c, x, f)
<1>1. StageOK(c, x) /\ FillOK(u, c, x, e) /\ ListOK(c, x, e) /\ RestOK(c, x, e)
  BY DEF TaskOK
<1>2. FillOK(u, c, x, f)
  BY <1>1, KnownGrows DEF FillOK
<1>3. ListOK(c, x, f)
  BY <1>1 DEF ListOK, ListOf, SameLists
<1>4. RestOK(c, x, f)
  BY <1>1 DEF RestOK, Grows
<1> QED BY <1>1, <1>2, <1>3, <1>4 DEF TaskOK

LEMMA TaskStirred ==
  ASSUME NEW u, NEW c, c.order \notin OrderIds, NEW x, NEW e, NEW f, TaskOK(u, c, x, e), Grows(e, f),
         \A o \in DOMAIN e.filled : e.filled[o] \in Nat
  PROVE  TaskOK(u, c, Stirred(x), f)
<1> DEFINE y == Stirred(x)
<1>1. StageOK(c, x) /\ FillOK(u, c, x, e) /\ ListOK(c, x, e) /\ RestOK(c, x, e) /\ TaskFields(x)
  BY DEF TaskOK, StageOK
<1>2. /\ TaskFields(y) /\ y.at = x.at /\ y.tries = x.tries /\ y.posts = x.posts /\ y.answer = x.answer
      /\ y.result = x.result /\ y.faults = x.faults /\ y.used = x.used /\ y.page = x.page
      /\ y.got = x.got /\ y.began = x.began /\ (~y.moved => ~x.moved /\ x.at # "page")
  BY <1>1, StirredFields
<1> HIDE DEF y
<1>3. StageOK(c, y)
  BY <1>1, <1>2 DEF StageOK
<1>4. FillOK(u, c, y, f)
  <2>1. Latest(u, y) = Latest(u, x)
    BY <1>2 DEF Latest
  <2> QED BY <1>1, <1>2, <2>1, KnownGrows DEF FillOK
<1>5. ListOK(c, y, f)
  BY <1>1, <1>2 DEF ListOK
<1>6. RestOK(c, y, f)
  BY <1>1, <1>2 DEF RestOK, Grows
<1> QED BY <1>3, <1>4, <1>5, <1>6 DEF TaskOK, y

LEMMA GrowsSelf ==
  ASSUME NEW e, \A o \in DOMAIN e.filled : e.filled[o] \in Nat
  PROVE  Grows(e, e)
  BY DEF Grows

LEMMA SimilarGrows ==
  ASSUME NEW e, NEW f, Similar(e, f), \A o \in DOMAIN e.filled : e.filled[o] \in Nat
  PROVE  Grows(e, f) /\ SameLists(e, f)
  BY DEF Grows, Similar, SameLists

\* An attempt that was made stays made.
LEMMA PastLater ==
  ASSUME NEW ts, NEW tt,
         \A v \in Callers : /\ ts[v].tries \in Nat /\ ts[v].posts \in Nat /\ tt[v].tries \in Nat /\ tt[v].posts \in Nat
                            /\ Later(ts[v], tt[v]),
         NEW id, Past(id, ts)
  PROVE  Past(id, tt)
<1>1. PICK v \in Callers, i \in Nat, j \in Nat :
        id = <<v, i, j>> /\ (i < ts[v].tries \/ (i = ts[v].tries /\ j < ts[v].posts))
  BY DEF Past
<1>2. i < tt[v].tries \/ (i = tt[v].tries /\ j < tt[v].posts)
  BY <1>1 DEF Later
<1> QED BY <1>1, <1>2 DEF Past

LEMMA ExchangeSimilar ==
  ASSUME NEW e, NEW f, Similar(e, f), NEW ts, NEW tt, ExchangeOK(e, ts),
         \A id : Past(id, ts) => Past(id, tt)
  PROVE  ExchangeOK(f, tt)
  BY DEF ExchangeOK, Similar, Known

LEMMA SimilarSteps ==
  ASSUME NEW e, e = [g \in EFields |-> e[g]], NEW k, NEW f,
         \/ f = e \/ f = Spent(e) \/ f = Warmed(e) \/ f = [e EXCEPT !.key = k] \/ f = Spent([e EXCEPT !.key = k])
  PROVE  Similar(e, f)
<1>1. CASE f = e
  BY <1>1 DEF Similar, EFields
<1>2. CASE f = Spent(e)
  BY <1>2 DEF Similar, EFields, Spent
<1>3. CASE f = Warmed(e)
  BY <1>3 DEF Similar, EFields, Warmed
<1>4. CASE f = [e EXCEPT !.key = k]
  BY <1>4 DEF Similar, EFields
<1>5. CASE f = Spent([e EXCEPT !.key = k])
  BY <1>5 DEF Similar, EFields, Spent
<1> QED BY <1>1, <1>2, <1>3, <1>4, <1>5

\* A task and the orders placed so far.
LEMMA AnswerParts ==
  ASSUME AnswerInv, NEW u \in Callers
  PROVE  /\ TaskOK(u, Call(u), task[u], exchange) /\ Call(u).order \notin OrderIds
         /\ TaskFields(task[u]) /\ task[u].tries \in Nat /\ task[u].posts \in Nat
         /\ u \in DOMAIN task /\ exchange = [g \in EFields |-> exchange[g]]
         /\ \A o \in DOMAIN exchange.filled : exchange.filled[o] \in Nat
  BY DEF AnswerInv, TaskOK, StageOK, ExchangeOK

LEMMA TasksLater ==
  ASSUME AnswerInv, NEW tt, \A v \in Callers : tt[v].tries \in Nat /\ tt[v].posts \in Nat /\ Later(task[v], tt[v])
  PROVE  \A id : Past(id, task) => Past(id, tt)
<1>1. \A v \in Callers : task[v].tries \in Nat /\ task[v].posts \in Nat
  BY AnswerParts
<1> QED BY <1>1, PastLater

\* Tasks that are as they were, or whose list moved.
LEMMA Others ==
  ASSUME AnswerInv, UNCHANGED <<script, sigType>>, NEW u \in Callers, NEW x, Grows(exchange, exchange'),
         TaskOK(u, Call(u), x, exchange'), Later(task[u], x),
         \/ task' = [task EXCEPT ![u] = x] /\ SameLists(exchange, exchange')
         \/ task' = [v \in Callers |-> IF v = u THEN x ELSE Stirred(task[v])]
  PROVE  /\ sigType' \in SigTypes /\ \A v \in Callers : Call(v)'.order \notin OrderIds
         /\ task' = [v \in Callers |-> task'[v]]
         /\ \A v \in Callers : TaskOK(v, Call(v)', task'[v], exchange')
         /\ task'[u] = x
         /\ \A v \in Callers : v # u => /\ task'[v].at = task[v].at /\ task'[v].tries = task[v].tries
                                        /\ task'[v].posts = task[v].posts
         /\ \A v \in Callers : task'[v].tries \in Nat /\ task'[v].posts \in Nat /\ Later(task[v], task'[v])
<1>1. \A v \in Callers : Call(v)' = Call(v) /\ Call(v).order \notin OrderIds
  BY DEF AnswerInv, Call
<1>2. task' = [v \in Callers |-> task'[v]] /\ task'[u] = x
  BY DEF AnswerInv
<1>3. ASSUME NEW v \in Callers, v # u
      PROVE  \/ task'[v] = task[v] /\ SameLists(exchange, exchange')
             \/ task'[v] = Stirred(task[v])
  BY <1>3 DEF AnswerInv
<1>4. ASSUME NEW v \in Callers, v # u
      PROVE  /\ TaskOK(v, Call(v), task'[v], exchange') /\ task'[v].at = task[v].at
             /\ task'[v].tries = task[v].tries /\ task'[v].posts = task[v].posts
  <2>1. /\ TaskOK(v, Call(v), task[v], exchange) /\ Call(v).order \notin OrderIds /\ TaskFields(task[v])
        /\ \A o \in DOMAIN exchange.filled : exchange.filled[o] \in Nat
    BY AnswerParts
  <2>2. CASE task'[v] = task[v] /\ SameLists(exchange, exchange')
    BY <2>1, <2>2, TaskStays
  <2>3. CASE task'[v] = Stirred(task[v])
    <3>1. TaskOK(v, Call(v), Stirred(task[v]), exchange')
      BY <2>1, TaskStirred
    <3>2. /\ Stirred(task[v]).at = task[v].at /\ Stirred(task[v]).tries = task[v].tries
          /\ Stirred(task[v]).posts = task[v].posts
      BY <2>1, StirredFields
    <3> QED BY <2>3, <3>1, <3>2
  <2> QED BY <1>3, <1>4, <2>2, <2>3
<1>5. \A v \in Callers : TaskOK(v, Call(v), task'[v], exchange')
  BY <1>2, <1>4
<1>6. ASSUME NEW v \in Callers
      PROVE  task'[v].tries \in Nat /\ task'[v].posts \in Nat /\ Later(task[v], task'[v])
  <2>1. task'[v].tries \in Nat /\ task'[v].posts \in Nat /\ task[v].tries \in Nat /\ task[v].posts \in Nat
    BY <1>5, AnswerParts DEF TaskOK, StageOK
  <2> QED BY <1>2, <1>4, <2>1 DEF Later
<1>7. sigType' \in SigTypes
  BY DEF AnswerInv
<1> QED BY <1>1, <1>2, <1>4, <1>5, <1>6, <1>7

\* One task goes on, nothing is told of an order.
LEMMA OneAnswers ==
  ASSUME AnswerInv, UNCHANGED <<script, sigType, pending>>, NEW u \in Callers, NEW x,
         task' = [task EXCEPT ![u] = x], Similar(exchange, exchange'),
         TaskOK(u, Call(u), x, exchange'), Later(task[u], x),
         task[u].at \in {"wait", "done"} => x.at \in {"wait", "done"} /\ Latest(u, x) = Latest(u, task[u])
  PROVE  AnswerInv'
<1>1. Grows(exchange, exchange') /\ SameLists(exchange, exchange')
  BY AnswerParts, SimilarGrows
<1>2. /\ sigType' \in SigTypes /\ \A v \in Callers : Call(v)'.order \notin OrderIds
      /\ task' = [v \in Callers |-> task'[v]]
      /\ \A v \in Callers : TaskOK(v, Call(v)', task'[v], exchange')
      /\ task'[u] = x
      /\ \A v \in Callers : v # u => /\ task'[v].at = task[v].at /\ task'[v].tries = task[v].tries
                                     /\ task'[v].posts = task[v].posts
      /\ \A v \in Callers : task'[v].tries \in Nat /\ task'[v].posts \in Nat /\ Later(task[v], task'[v])
  BY <1>1, Others
<1>3. ExchangeOK(exchange', task')
  <2>1. \A id : Past(id, task) => Past(id, task')
    BY <1>2, TasksLater
  <2> QED BY <2>1, ExchangeSimilar DEF AnswerInv
<1>4. PendingOK(pending', task')
  <2>1. PendingOK(pending, task)
    BY DEF AnswerInv
  <2> QED BY <1>2, <2>1 DEF PendingOK, Latest
<1> QED BY <1>2, <1>3, <1>4 DEF AnswerInv

-------------------------------------------------------------------------------
(* What a task may become. *)

Early == {"idle", "creds", "lock", "derive", "create", "ready"}

\* On the way to its request a task has learned nothing.
LEMMA EarlyOK ==
  ASSUME NEW u, NEW c, NEW x, NEW e, NEW f, TaskOK(u, c, x, e), x.at \in Early,
         NEW y, TaskFields(y), y.at \in Early, y.tries = x.tries, y.posts = x.posts, y.answer = x.answer,
         y.result = x.result, y.used = x.used, y.page = x.page, y.got = x.got, y.began = x.began,
         y.moved = x.moved, y.faults \in {x.faults, x.faults + 1}
  PROVE  TaskOK(u, c, y, f)
<1>1. StageOK(c, x) /\ FillOK(u, c, x, e) /\ ListOK(c, x, e)
  BY DEF TaskOK
<1>2. y.result = None /\ None # "ok"
  BY <1>1, ClobClientAssumption DEF StageOK, Early
<1>3. StageOK(c, y)
  BY <1>1 DEF StageOK, Early
<1>4. FillOK(u, c, y, f)
  BY <1>1, <1>2 DEF FillOK, Early
<1>5. ListOK(c, y, f)
  BY <1>1, <1>2 DEF ListOK, Early
<1>6. RestOK(c, y, f)
  BY <1>2 DEF RestOK, Early
<1> QED BY <1>3, <1>4, <1>5, <1>6 DEF TaskOK

\* A call that ends without what it asked for, or that asked for nothing that is told here.
LEMMA EndedOK ==
  ASSUME NEW u, NEW c, NEW y, NEW f, TaskFields(y), y.at = "done", y.tries \in Nat, y.posts \in Nat,
         y.faults \in Nat, y.result # "bad_signature",
         y.result # "ok" \/ c.kind \notin Posts \cup {"orders", "trades", "load", "cancel"}
  PROVE  TaskOK(u, c, y, f)
  BY DEF TaskOK, StageOK, FillOK, ListOK, RestOK, Posts

-------------------------------------------------------------------------------
(* The steps. *)

\* The forms in which the actions change the task of their caller.
LEMMA FormsAt ==
  ASSUME NEW ts, ts = [v \in Callers |-> ts[v]], NEW u \in Callers, TaskFields(ts[u]), NEW w
  PROVE  /\ [ts EXCEPT ![u].at = w] = [ts EXCEPT ![u] = [ts[u] EXCEPT !.at = w]]
         /\ Fault(u, [ts EXCEPT ![u].at = w])
              = [ts EXCEPT ![u] = [ts[u] EXCEPT !.at = w, !.faults = ts[u].faults + 1]]
<1> DEFINE x == ts[u]
<1>1. u \in DOMAIN ts
  OBVIOUS
<1>2. Fault(u, [ts EXCEPT ![u].at = w])
        = [ts EXCEPT ![u] = [[x EXCEPT !.at = w] EXCEPT !.faults = @ + 1]]
  BY <1>1 DEF Fault
<1>3. [[x EXCEPT !.at = w] EXCEPT !.faults = @ + 1] = [x EXCEPT !.at = w, !.faults = x.faults + 1]
  BY DEF TaskFields, Fields
<1> QED BY <1>1, <1>2, <1>3

\* A task on the way to its request.
LEMMA EarlyAnswers ==
  ASSUME AnswerInv, UNCHANGED <<script, sigType, pending>>, NEW u \in Callers, task[u].at \in Early,
         NEW w \in Early, task' = [task EXCEPT ![u].at = w] \/ task' = Fault(u, [task EXCEPT ![u].at = w]),
         Similar(exchange, exchange')
  PROVE  AnswerInv'
<1>1. /\ TaskOK(u, Call(u), task[u], exchange) /\ TaskFields(task[u])
      /\ task[u].tries \in Nat /\ task[u].posts \in Nat /\ task = [v \in Callers |-> task[v]]
  BY AnswerParts DEF AnswerInv
<1>2. ASSUME NEW x, task' = [task EXCEPT ![u] = x],
             \/ x = [task[u] EXCEPT !.at = w]
             \/ x = [task[u] EXCEPT !.at = w, !.faults = task[u].faults + 1]
      PROVE  AnswerInv'
  <2>1. /\ TaskFields(x) /\ x.at = w /\ x.tries = task[u].tries /\ x.posts = task[u].posts
        /\ x.answer = task[u].answer /\ x.result = task[u].result /\ x.used = task[u].used
        /\ x.page = task[u].page /\ x.got = task[u].got /\ x.began = task[u].began
        /\ x.moved = task[u].moved /\ x.faults \in {task[u].faults, task[u].faults + 1}
    BY <1>1, <1>2 DEF TaskFields, Fields
  <2>2. TaskOK(u, Call(u), x, exchange')
    BY <1>1, <2>1, EarlyOK
  <2>3. Later(task[u], x)
    BY <1>1, <2>1 DEF Later
  <2>4. task[u].at \notin {"wait", "done"}
    BY DEF Early
  <2> QED BY <1>2, <2>2, <2>3, <2>4, OneAnswers
<1>3. CASE task' = [task EXCEPT ![u].at = w]
  <2>1. task' = [task EXCEPT ![u] = [task[u] EXCEPT !.at = w]]
    BY <1>1, <1>3, FormsAt
  <2> QED BY <1>2, <2>1
<1>4. CASE task' = Fault(u, [task EXCEPT ![u].at = w])
  <2>1. task' = [task EXCEPT ![u] = [task[u] EXCEPT !.at = w, !.faults = task[u].faults + 1]]
    BY <1>1, <1>4, FormsAt
  <2> QED BY <1>2, <2>1
<1> QED BY <1>3, <1>4

\* A call that ends without what it asked for.
EndsLost(ts, tt, u, r) ==
  \/ tt = [ts EXCEPT ![u].at = "done", ![u].result = r]
  \/ tt = [Fault(u, ts) EXCEPT ![u].at = "done", ![u].result = r]
  \/ tt = [Fault(u, ts) EXCEPT ![u].at = "done", ![u].result = r, ![u].got = <<>>]

LEMMA EndForms ==
  ASSUME NEW ts, NEW tt, ts = [v \in Callers |-> ts[v]], NEW u \in Callers, TaskFields(ts[u]), NEW r,
         EndsLost(ts, tt, u, r)
  PROVE  \E x : /\ tt = [ts EXCEPT ![u] = x] /\ TaskFields(x) /\ x.at = "done"
                /\ x.tries = ts[u].tries /\ x.posts = ts[u].posts
                /\ x.result = r /\ x.faults \in {ts[u].faults, ts[u].faults + 1}
<1> DEFINE y == [ts[u] EXCEPT !.faults = ts[u].faults + 1]
           g == Fault(u, ts)
<1>1. /\ u \in DOMAIN ts /\ g = [ts EXCEPT ![u] = y] /\ g[u] = y
      /\ TaskFields(y) /\ y.tries = ts[u].tries /\ y.posts = ts[u].posts /\ y.faults = ts[u].faults + 1
  BY DEF Fault, TaskFields, Fields
<1> HIDE DEF y, g
<1>2. PICK x : /\ tt = [ts EXCEPT ![u] = x]
               /\ \/ x = [ts[u] EXCEPT !.at = "done", !.result = r]
                  \/ x = [y EXCEPT !.at = "done", !.result = r]
                  \/ x = [y EXCEPT !.at = "done", !.result = r, !.got = <<>>]
  <2>1. CASE tt = [ts EXCEPT ![u].at = "done", ![u].result = r]
    BY <1>1, <2>1
  <2>2. CASE tt = [g EXCEPT ![u].at = "done", ![u].result = r]
    <3>1. tt = [ts EXCEPT ![u] = [y EXCEPT !.at = "done", !.result = r]]
      BY <1>1, <2>2
    <3> QED BY <3>1
  <2>3. CASE tt = [g EXCEPT ![u].at = "done", ![u].result = r, ![u].got = <<>>]
    <3>1. tt = [ts EXCEPT ![u] = [y EXCEPT !.at = "done", !.result = r, !.got = <<>>]]
      BY <1>1, <2>3
    <3> QED BY <3>1
  <2> QED BY <2>1, <2>2, <2>3 DEF EndsLost, g
<1>3. /\ TaskFields(x) /\ x.at = "done" /\ x.tries = ts[u].tries /\ x.posts = ts[u].posts
      /\ x.result = r /\ x.faults \in {ts[u].faults, ts[u].faults + 1}
  BY <1>1, <1>2 DEF TaskFields, Fields
<1> QED BY <1>2, <1>3

LEMMA EndAnswers ==
  ASSUME AnswerInv, UNCHANGED <<script, sigType, pending>>, NEW u \in Callers,
         task[u].at \notin {"wait", "done"}, NEW r, r # "bad_signature",
         r # "ok" \/ Call(u).kind \notin Posts \cup {"orders", "trades", "load", "cancel"},
         EndsLost(task, task', u, r), Similar(exchange, exchange')
  PROVE  AnswerInv'
<1>1. /\ TaskOK(u, Call(u), task[u], exchange) /\ TaskFields(task[u])
      /\ task[u].tries \in Nat /\ task[u].posts \in Nat /\ task[u].faults \in Nat
      /\ task = [v \in Callers |-> task[v]]
  BY AnswerParts DEF AnswerInv, TaskOK, StageOK
<1>2. PICK x : /\ task' = [task EXCEPT ![u] = x] /\ TaskFields(x) /\ x.at = "done"
               /\ x.tries = task[u].tries /\ x.posts = task[u].posts
               /\ x.result = r /\ x.faults \in {task[u].faults, task[u].faults + 1}
  BY <1>1, EndForms
<1>3. TaskOK(u, Call(u), x, exchange')
  BY <1>1, <1>2, EndedOK
<1>4. Later(task[u], x)
  BY <1>1, <1>2 DEF Later
<1> QED BY <1>2, <1>3, <1>4, OneAnswers

LEMMA CredsAnswers ==
  ASSUME AnswerInv, NEW u \in Callers,
         Begin(u) \/ Creds(u) \/ Lock(u) \/ Derive(u) \/ Create(u) \/ DeriveFails(u) \/ CreateFails(u)
  PROVE  AnswerInv'
<1>1. exchange = [g \in EFields |-> exchange[g]] /\ UNCHANGED <<script, sigType, pending>>
  BY AnswerParts DEF Begin, Creds, Lock, Derive, Create, DeriveFails, CreateFails
<1>2. task[u].at \in Early /\ task[u].at \notin {"wait", "done"}
  BY DEF Begin, Creds, Lock, Derive, Create, DeriveFails, CreateFails, At, Early
<1>3. Similar(exchange, exchange')
  <2>1. \/ exchange' = exchange \/ exchange' = Spent(exchange) \/ exchange' = [exchange EXCEPT !.key = TRUE]
        \/ \E k : exchange' = Spent([exchange EXCEPT !.key = k])
    BY DEF Begin, Creds, Lock, Derive, Create, DeriveFails, CreateFails
  <2>2. CASE exchange' = exchange \/ exchange' = Spent(exchange) \/ exchange' = [exchange EXCEPT !.key = TRUE]
    BY <1>1, <2>2, SimilarSteps
  <2>3. CASE \E k : exchange' = Spent([exchange EXCEPT !.key = k])
    <3>1. PICK k : exchange' = Spent([exchange EXCEPT !.key = k])
      BY <2>3
    <3> QED BY <1>1, <3>1, SimilarSteps
  <2> QED BY <2>1, <2>2, <2>3
<1>4. {"derive", "creds", "ready", "lock", "create"} \subseteq Early
  BY DEF Early
<1>5. ASSUME NEW w \in {"derive", "creds", "ready", "lock", "create"}, Goes(u, w) PROVE AnswerInv'
  BY <1>1, <1>2, <1>3, <1>4, <1>5, EarlyAnswers DEF Goes
<1>6. ASSUME NEW r \in {"bad_args", "no_creds"}, Ends(u, r) PROVE AnswerInv'
  BY <1>1, <1>2, <1>3, <1>6, EndAnswers DEF Ends, EndsLost
<1>7. ASSUME Call(u).kind = "debug", Ends(u, "ok") PROVE AnswerInv'
  BY <1>1, <1>2, <1>3, <1>7, EndAnswers DEF Ends, EndsLost, Posts
<1>8. CASE Begin(u)
  BY <1>5, <1>6, <1>8 DEF Begin
<1>9. CASE Creds(u)
  BY <1>5, <1>9 DEF Creds
<1>10. CASE Lock(u)
  BY <1>5, <1>10 DEF Lock
<1>11. CASE Derive(u)
  BY <1>5, <1>7, <1>11 DEF Derive, HasCreds, Shares
<1>12. CASE Create(u)
  BY <1>5, <1>6, <1>7, <1>12 DEF Create, HasCreds, NoCreds, Ends, Shares
<1>13. CASE DeriveFails(u)
  <2>1. CASE task' = Fault(u, [task EXCEPT ![u].at = "create"])
    BY <1>1, <1>2, <1>3, <1>4, <2>1, EarlyAnswers
  <2>2. CASE NoCreds(u, Fault(u, task))
    <3>1. EndsLost(task, task', u, "no_creds")
      BY <2>2 DEF NoCreds, EndsLost
    <3> QED BY <1>1, <1>2, <1>3, <3>1, EndAnswers
  <2> QED BY <1>13, <2>1, <2>2 DEF DeriveFails
<1>14. CASE CreateFails(u)
  <2>1. EndsLost(task, task', u, "no_creds")
    BY <1>14 DEF CreateFails, NoCreds, EndsLost
  <2> QED BY <1>1, <1>2, <1>3, <2>1, EndAnswers
<1> QED BY <1>8, <1>9, <1>10, <1>11, <1>12, <1>13, <1>14


\* Before its POST, and between two of them, a call has learned nothing of a fill.
LEMMA PostingOK ==
  ASSUME NEW u, NEW c, c.kind \in Posts, NEW x, NEW e, NEW f, TaskOK(u, c, x, e), x.at \in {"ready", "refused", "answered"},
         NEW y, TaskFields(y), y.at \in {"creds", "ready", "refused"}, y.tries \in Nat, y.posts \in Nat,
         y.used = x.used, y.result = x.result, y.faults = x.faults
  PROVE  TaskOK(u, c, y, f)
<1>1. StageOK(c, x) /\ FillOK(u, c, x, e)
  BY DEF TaskOK
<1>2. y.result = None /\ None # "ok" /\ None # "bad_signature"
  BY <1>1, ClobClientAssumption DEF StageOK
<1>3. StageOK(c, y)
  BY <1>1, <1>2 DEF StageOK
<1>4. FillOK(u, c, y, f)
  BY <1>1, <1>2 DEF FillOK
<1>5. ListOK(c, y, f) /\ RestOK(c, y, f)
  BY DEF ListOK, RestOK, Posts
<1> QED BY <1>3, <1>4, <1>5 DEF TaskOK

\* An attempt that is refused here, repeated, or given up.
LEMMA RetryAnswers ==
  ASSUME AnswerInv, NEW u \in Callers, Refuse(u) \/ PostAgain(u) \/ PlaceAgain(u) \/ PlaceFails(u)
  PROVE  AnswerInv'
<1>1. /\ TaskOK(u, Call(u), task[u], exchange) /\ TaskFields(task[u])
      /\ task[u].tries \in Nat /\ task[u].posts \in Nat /\ task[u].faults \in Nat
      /\ task = [v \in Callers |-> task[v]] /\ StageOK(Call(u), task[u])
  BY AnswerParts DEF AnswerInv, TaskOK, StageOK
<1>2. /\ UNCHANGED <<script, sigType, pending>> /\ Similar(exchange, exchange')
      /\ task[u].at \in {"ready", "refused", "answered"} /\ Call(u).kind \in Posts
  <2>1. UNCHANGED <<script, sigType, pending, exchange>>
    BY DEF Refuse, PostAgain, PlaceAgain, PlaceFails
  <2>2. task[u].at \in {"ready", "refused", "answered"} /\ Call(u).kind \in Posts
    BY <1>1 DEF Refuse, PostAgain, PlaceAgain, PlaceFails, Returned, At, StageOK
  <2> QED BY <2>1, <2>2, AnswerParts, SimilarSteps
<1>3. ASSUME NEW y, task' = [task EXCEPT ![u] = y], TaskFields(y), y.at \in {"creds", "ready", "refused"},
             y.tries \in Nat, y.posts \in Nat, y.used = task[u].used, y.result = task[u].result,
             y.faults = task[u].faults, Later(task[u], y)
      PROVE  AnswerInv'
  <2>1. TaskOK(u, Call(u), y, exchange')
    BY <1>1, <1>2, <1>3, PostingOK
  <2> QED BY <1>2, <1>3, <2>1, OneAnswers
<1>4. ASSUME NEW w \in {"ready", "refused"}, Goes(u, w) PROVE AnswerInv'
  <2> DEFINE y == [task[u] EXCEPT !.at = w]
  <2>1. task' = [task EXCEPT ![u] = y]
    BY <1>1, <1>4 DEF Goes
  <2>2. /\ TaskFields(y) /\ y.at = w /\ y.tries = task[u].tries /\ y.posts = task[u].posts
        /\ y.used = task[u].used /\ y.result = task[u].result /\ y.faults = task[u].faults
    BY <1>1 DEF TaskFields, Fields
  <2> HIDE DEF y
  <2>3. Later(task[u], y)
    BY <1>1, <2>2 DEF Later
  <2> QED BY <1>1, <1>3, <2>1, <2>2, <2>3
<1>5. CASE Refuse(u) \/ PostAgain(u)
  BY <1>4, <1>5 DEF Refuse, PostAgain
<1>6. CASE PlaceAgain(u)
  <2> DEFINE y == [task[u] EXCEPT !.at = "creds", !.tries = task[u].tries + 1, !.posts = 0]
  <2>1. task' = [task EXCEPT ![u] = y]
    BY <1>1, <1>6 DEF PlaceAgain
  <2>2. /\ TaskFields(y) /\ y.at = "creds" /\ y.tries = task[u].tries + 1 /\ y.posts = 0
        /\ y.used = task[u].used /\ y.result = task[u].result /\ y.faults = task[u].faults
    BY <1>1 DEF TaskFields, Fields
  <2> HIDE DEF y
  <2>3. Later(task[u], y)
    BY <1>1, <2>2 DEF Later
  <2> QED BY <1>1, <1>3, <2>1, <2>2, <2>3
<1>7. CASE PlaceFails(u)
  <2>1. PICK r : r = IF At(u, "refused") THEN "bad_args" ELSE task[u].answer.says
    OBVIOUS
  <2>2. r # "ok" /\ r # "bad_signature"
    BY <1>1, <1>7, <2>1 DEF PlaceFails, Returned, StageOK, Answers, At
  <2>3. EndsLost(task, task', u, r)
    BY <1>7, <2>1 DEF PlaceFails, Ends, EndsLost
  <2> QED BY <1>2, <2>2, <2>3, EndAnswers
<1> QED BY <1>5, <1>6, <1>7

\* The wait ends with the estimate of the answer.
LEMMA TimeoutAnswers ==
  ASSUME AnswerInv, NEW u \in Callers, WaitTimesOut(u)
  PROVE  AnswerInv'
<1>1. /\ TaskOK(u, Call(u), task[u], exchange) /\ TaskFields(task[u])
      /\ task[u].tries \in Nat /\ task[u].posts \in Nat
      /\ task = [v \in Callers |-> task[v]]
  BY AnswerParts DEF AnswerInv
<1>2. /\ UNCHANGED <<script, sigType, pending, exchange>> /\ task[u].at = "wait"
      /\ task' = [task EXCEPT ![u].at = "done", ![u].result = "ok"]
  BY DEF WaitTimesOut, At, Ends
<1> DEFINE y == [task[u] EXCEPT !.at = "done", !.result = "ok"]
<1>3. task' = [task EXCEPT ![u] = y]
  BY <1>1, <1>2
<1>4. /\ TaskFields(y) /\ y.at = "done" /\ y.tries = task[u].tries /\ y.posts = task[u].posts
      /\ y.used = task[u].used /\ y.result = "ok" /\ y.faults = task[u].faults
  BY <1>1 DEF TaskFields, Fields
<1> HIDE DEF y
<1>5. Latest(u, y) = Latest(u, task[u]) /\ Later(task[u], y)
  BY <1>1, <1>4 DEF Latest, Later
<1>6. TaskOK(u, Call(u), y, exchange')
  <2>1. StageOK(Call(u), task[u]) /\ FillOK(u, Call(u), task[u], exchange) /\ Call(u).kind \in Posts
    BY <1>1, <1>2 DEF TaskOK, StageOK
  <2>2. StageOK(Call(u), y)
    BY <1>1, <1>4, <2>1 DEF StageOK
  <2>3. FillOK(u, Call(u), y, exchange')
    BY <1>2, <1>4, <1>5, <2>1 DEF FillOK
  <2>4. ListOK(Call(u), y, exchange') /\ RestOK(Call(u), y, exchange')
    BY <2>1 DEF ListOK, RestOK, Posts
  <2> QED BY <2>2, <2>3, <2>4 DEF TaskOK
<1>7. Similar(exchange, exchange')
  BY <1>2, AnswerParts, SimilarSteps
<1> QED BY <1>2, <1>3, <1>4, <1>5, <1>6, <1>7, OneAnswers


\* What is sent verifies, whatever the wallet's type and the market's contract.
LEMMA WireVerifies ==
  ASSUME NEW type \in SigTypes, NEW args, NEW salt, NEW expiration
  PROVE  Verifies(Wire(type, args, salt, expiration), args.negRisk)
<1> DEFINE order == Order(type, args, salt)
           domain == Domain(Contract(args.negRisk))
           wire == Wire(type, args, salt, expiration)
<1>1. /\ order.signatureType = type /\ order.maker = Funder(type) /\ order.signer = Signer(type)
      /\ DOMAIN order = {"salt", "maker", "signer", "token", "makerAmount", "takerAmount", "side", "signatureType"}
      /\ order = [f \in DOMAIN order |-> order[f]]
  BY DEF Order
<1>2. wire.order = order /\ wire.signature = Signature(type, order, Contract(args.negRisk))
  BY DEF Wire
<1>3. domain = Domain(IF args.negRisk THEN "NegRiskCtfExchangeV2" ELSE "CtfExchangeV2")
  BY DEF Contract
<1> HIDE DEF order, domain, wire
<1>4. CASE type = "Poly1271"
  <2>1. order.maker = "wallet" /\ order.signer = "wallet"
    BY <1>1, <1>4 DEF Funder, Signer
  <2>2. Contents("wallet", order) = order
    BY <1>1, <1>4, <2>1 DEF Contents
  <2>3. /\ wire.signature.contents = Hash(order) /\ wire.signature.app = Hash(domain)
        /\ wire.signature.inner = Sign(Hash(<<domain, TypedDataSign("wallet", order)>>))
    BY <1>2, <1>4, <2>2 DEF Signature, Wrapped, Funder, domain
  <2> QED BY <1>1, <1>2, <1>3, <1>4, <2>1, <2>3 DEF Verifies, wire
<1>5. CASE type # "Poly1271"
  <2>1. wire.signature = Sign(Hash(<<domain, order>>))
    BY <1>2, <1>5 DEF Signature, domain
  <2> QED BY <1>1, <1>2, <1>3, <1>5, <2>1 DEF Verifies, wire, SigTypes, Funder, Signer
<1> QED BY <1>4, <1>5

\* The attempt at hand has not been made yet, so no order and no signature of it is known.
LEMMA FreshAttempt ==
  ASSUME AnswerInv, NEW u \in Callers
  PROVE  /\ OrderId(u) \in OrderIds /\ ~Past(OrderId(u), task) /\ Hash(Body(u).order) \notin exchange.hashes
         /\ OrderId(u) \notin DOMAIN exchange.filled /\ OrderId(u) \notin Range(exchange.open)
         /\ Hash(Body(u).order).hashOf.salt = OrderId(u) /\ Valid(u)
<1>1. task[u].tries \in Nat /\ task[u].posts \in Nat
  BY AnswerParts
<1>2. OrderId(u) \in OrderIds /\ OrderId(u) = <<u, task[u].tries, task[u].posts>>
  BY <1>1 DEF OrderId, OrderIds
<1>3. ~Past(OrderId(u), task)
  <2>1. SUFFICES ASSUME NEW v \in Callers, NEW i \in Nat, NEW j \in Nat, OrderId(u) = <<v, i, j>>,
                        i < task[v].tries \/ (i = task[v].tries /\ j < task[v].posts)
                 PROVE  FALSE
    BY DEF Past
  <2>2. v = u /\ i = task[u].tries /\ j = task[u].posts
    BY <1>2, <2>1
  <2> QED BY <1>1, <2>1, <2>2
<1>4. Hash(Body(u).order).hashOf.salt = OrderId(u)
  BY DEF Body, Wire, Order, Hash, OrderId
<1>5. /\ OrderId(u) \notin DOMAIN exchange.filled /\ OrderId(u) \notin Range(exchange.open)
      /\ Hash(Body(u).order) \notin exchange.hashes
  BY <1>2, <1>3, <1>4 DEF AnswerInv, ExchangeOK
<1>6. Verifies(Body(u), Call(u).negRisk)
  <2>1. sigType \in SigTypes
    BY DEF AnswerInv
  <2> DEFINE args == [token |-> "token", amounts |-> Call(u).amounts, negRisk |-> Call(u).negRisk,
                      side |-> IF IsSell(Call(u)) THEN "SELL" ELSE "BUY"]
  <2>2. Body(u) = Wire(sigType, args, <<u, task[u].tries, task[u].posts>>, Call(u).expiration)
    BY DEF Body
  <2>3. args.negRisk = Call(u).negRisk
    OBVIOUS
  <2> HIDE DEF args
  <2>4. Verifies(Wire(sigType, args, <<u, task[u].tries, task[u].posts>>, Call(u).expiration), args.negRisk)
    BY <2>1, WireVerifies
  <2> QED BY <2>2, <2>3, <2>4
<1> QED BY <1>2, <1>3, <1>4, <1>5, <1>6 DEF Valid

\* The estimate of the answer is no more than was filled.
LEMMA PlacedAnswers ==
  ASSUME AnswerInv, NEW u \in Callers, Placed(u)
  PROVE  AnswerInv'
<1>1. /\ TaskOK(u, Call(u), task[u], exchange) /\ TaskFields(task[u])
      /\ task[u].tries \in Nat /\ task[u].posts \in Nat /\ task[u].faults \in Nat
      /\ task = [v \in Callers |-> task[v]] /\ Similar(exchange, exchange)
  BY AnswerParts, SimilarSteps DEF AnswerInv, TaskOK, StageOK
<1>2. UNCHANGED <<script, sigType, exchange>> /\ task[u].at = "answered" /\ task[u].answer.says = "ok"
  BY DEF Placed, At
<1>3. StageOK(Call(u), task[u]) /\ FillOK(u, Call(u), task[u], exchange) /\ Call(u).kind \in Posts
  BY <1>1, <1>2 DEF TaskOK, StageOK
<1> DEFINE waits == Call(u).waits /\ ~IsSell(Call(u)) /\ task[u].answer.filled > 0
           used == task[u].used + task[u].answer.filled
           where == IF waits THEN "wait" ELSE "done"
           result == IF waits THEN task[u].result ELSE "ok"
           y == [task[u] EXCEPT !.used = used, !.at = where, !.result = result]
<1>4. /\ task' = [task EXCEPT ![u].used = used, ![u].at = where, ![u].result = result]
      /\ pending' = IF waits THEN pending \cup {Posted(u)} ELSE pending
  BY DEF Placed
<1>5. /\ used = task[u].answer.filled /\ Known(Latest(u, task[u]), task[u].answer.filled, exchange)
      /\ task[u].result = None
      /\ (where = "wait" /\ result = None) \/ (where = "done" /\ result = "ok" /\ pending' = pending)
  <2>1. task[u].used = 0 /\ Known(Latest(u, task[u]), task[u].answer.filled, exchange) /\ task[u].result = None
    BY <1>2, <1>3 DEF FillOK, StageOK
  <2>2. task[u].answer.filled \in Nat
    BY <2>1 DEF Known
  <2> QED BY <1>4, <2>1, <2>2
<1> HIDE DEF waits, used, where, result
<1>6. task' = [task EXCEPT ![u] = y]
  BY <1>1, <1>4
<1>7. /\ TaskFields(y) /\ y.at = where /\ y.tries = task[u].tries /\ y.posts = task[u].posts
      /\ y.used = used /\ y.result = result /\ y.faults = task[u].faults
  BY <1>1 DEF TaskFields, Fields
<1> HIDE DEF y
<1>8. Latest(u, y) = Latest(u, task[u]) /\ Later(task[u], y)
  BY <1>1, <1>7 DEF Latest, Later
<1>9. TaskOK(u, Call(u), y, exchange')
  <2>1. StageOK(Call(u), y)
    BY <1>1, <1>2, <1>3, <1>5, <1>7, ClobClientAssumption DEF StageOK
  <2>2. FillOK(u, Call(u), y, exchange')
    BY <1>2, <1>5, <1>7, <1>8, ClobClientAssumption DEF FillOK
  <2>3. ListOK(Call(u), y, exchange') /\ RestOK(Call(u), y, exchange')
    BY <1>3 DEF ListOK, RestOK, Posts
  <2> QED BY <2>1, <2>2, <2>3 DEF TaskOK
<1>10. Grows(exchange, exchange') /\ SameLists(exchange, exchange')
  BY <1>1, <1>2, AnswerParts, SimilarGrows
<1>11. /\ sigType' \in SigTypes /\ \A v \in Callers : Call(v)'.order \notin OrderIds
       /\ task' = [v \in Callers |-> task'[v]]
       /\ \A v \in Callers : TaskOK(v, Call(v)', task'[v], exchange')
       /\ task'[u] = y
       /\ \A v \in Callers : v # u => /\ task'[v].at = task[v].at /\ task'[v].tries = task[v].tries
                                      /\ task'[v].posts = task[v].posts
       /\ \A v \in Callers : task'[v].tries \in Nat /\ task'[v].posts \in Nat /\ Later(task[v], task'[v])
  BY <1>2, <1>6, <1>8, <1>9, <1>10, Others
<1>12. ExchangeOK(exchange', task')
  <2>1. \A id : Past(id, task) => Past(id, task')
    BY <1>11, TasksLater
  <2> QED BY <1>1, <1>2, <2>1, ExchangeSimilar DEF AnswerInv
<1>13. PendingOK(pending', task')
  <2>1. PendingOK(pending, task)
    BY DEF AnswerInv
  <2>2. ASSUME NEW w \in pending
        PROVE  w.waiter \in Callers /\ task'[w.waiter].at \in {"wait", "done"} /\ w.order = Latest(w.waiter, task'[w.waiter])
    <3>1. w.waiter # u /\ w.waiter \in Callers
      BY <1>2, <2>1 DEF PendingOK
    <3> QED BY <1>11, <2>1, <3>1 DEF PendingOK, Latest
  <2>3. CASE pending' = pending
    BY <2>2, <2>3 DEF PendingOK
  <2>4. CASE pending' = pending \cup {Posted(u)} /\ where = "wait"
    <3>1. Posted(u).waiter = u /\ Posted(u).order = Latest(u, task'[u]) /\ task'[u].at = "wait"
      BY <1>7, <1>8, <1>11, <2>4 DEF Posted, Latest
    <3> QED BY <2>2, <2>4, <3>1 DEF PendingOK
  <2> QED BY <1>4, <1>5, <2>3, <2>4 DEF where
<1> QED BY <1>11, <1>12, <1>13 DEF AnswerInv


\* A balance that is read after a warm-up that was answered is the wallet's.
LEMMA LoadAnswers ==
  ASSUME AnswerInv, NEW u \in Callers, Warm(u) \/ WarmFails(u) \/ ReadBalance(u) \/ ReadFails(u)
  PROVE  AnswerInv'
<1>1. /\ TaskOK(u, Call(u), task[u], exchange) /\ TaskFields(task[u])
      /\ task[u].tries \in Nat /\ task[u].posts \in Nat /\ task[u].faults \in Nat
      /\ task = [v \in Callers |-> task[v]] /\ exchange = [g \in EFields |-> exchange[g]]
      /\ StageOK(Call(u), task[u]) /\ RestOK(Call(u), task[u], exchange)
  BY AnswerParts DEF AnswerInv, TaskOK, StageOK
<1>2. /\ UNCHANGED <<script, sigType, pending>> /\ task[u].at \in {"ready", "read"} /\ Similar(exchange, exchange')
      /\ task[u].result = None /\ Call(u).kind \in {"warm", "load", "startup"}
  <2>1. /\ UNCHANGED <<script, sigType, pending>> /\ task[u].at \in {"ready", "read"}
        /\ exchange' = exchange \/ exchange' = Spent(exchange) \/ exchange' = Warmed(exchange)
    BY DEF Warm, WarmFails, ReadBalance, ReadFails, At
  <2>2. Call(u).kind \in {"warm", "load", "startup"}
    BY <1>1, <2>1 DEF Warm, WarmFails, ReadBalance, ReadFails, At, Warms, StageOK
  <2> QED BY <1>1, <2>1, <2>2, SimilarSteps DEF StageOK
<1>3. ASSUME NEW y, task' = [task EXCEPT ![u] = y], TaskFields(y), y.tries = task[u].tries, y.posts = task[u].posts,
             y.faults \in Nat, y.result # "bad_signature",
             \/ y.at = "read" /\ y.result = None /\ Call(u).kind = "load"
             \/ y.at = "done",
             RestOK(Call(u), y, exchange')
      PROVE  AnswerInv'
  <2>1. TaskOK(u, Call(u), y, exchange')
    <3>1. StageOK(Call(u), y)
      BY <1>1, <1>3 DEF StageOK
    <3>2. FillOK(u, Call(u), y, exchange') /\ ListOK(Call(u), y, exchange')
      BY <1>2 DEF FillOK, ListOK, Posts
    <3> QED BY <1>3, <3>1, <3>2 DEF TaskOK
  <2>2. Later(task[u], y)
    BY <1>1, <1>3 DEF Later
  <2>3. task[u].at \notin {"wait", "done"}
    BY <1>2
  <2> QED BY <1>2, <1>3, <2>1, <2>2, <2>3, OneAnswers
<1>4. CASE Warm(u)
  <2> DEFINE result == IF Call(u).kind = "load" THEN task[u].result ELSE "ok"
             y == [task[u] EXCEPT !.at = AfterWarm(u), !.result = result]
  <2>1. task' = [task EXCEPT ![u].at = AfterWarm(u), ![u].result = result] /\ exchange' = Warmed(exchange)
    BY <1>4 DEF Warm
  <2>2. \/ Call(u).kind = "load" /\ AfterWarm(u) = "read" /\ result = None
        \/ Call(u).kind \in {"warm", "startup"} /\ AfterWarm(u) = "done" /\ result = "ok"
    BY <1>2 DEF AfterWarm
  <2>3. exchange'.settled = TRUE
    BY <1>1, <2>1 DEF Warmed, EFields
  <2> HIDE DEF result
  <2>4. task' = [task EXCEPT ![u] = y]
    BY <1>1, <2>1
  <2>5. /\ TaskFields(y) /\ y.at = AfterWarm(u) /\ y.tries = task[u].tries /\ y.posts = task[u].posts
        /\ y.result = result /\ y.faults = task[u].faults
    BY <1>1 DEF TaskFields, Fields
  <2> HIDE DEF y
  <2>6. RestOK(Call(u), y, exchange')
    BY <2>2, <2>3, <2>5, ClobClientAssumption DEF RestOK
  <2>7. y.result # "bad_signature"
    BY <2>2, <2>5, ClobClientAssumption
  <2> QED BY <1>1, <1>3, <2>2, <2>4, <2>5, <2>6, <2>7
<1>5. CASE WarmFails(u)
  <2> DEFINE z == [task[u] EXCEPT !.faults = task[u].faults + 1]
             t == Fault(u, task)
             result == IF Call(u).kind = "load" THEN z.result ELSE "lost"
             y == [z EXCEPT !.at = AfterWarm(u), !.result = result]
  <2>1. /\ t = [task EXCEPT ![u] = z] /\ t[u] = z /\ TaskFields(z) /\ z.result = None
        /\ z.tries = task[u].tries /\ z.posts = task[u].posts /\ z.faults = task[u].faults + 1
    BY <1>1, <1>2 DEF Fault, TaskFields, Fields
  <2>2. task' = [t EXCEPT ![u].at = AfterWarm(u), ![u].result = IF Call(u).kind = "load" THEN @ ELSE "lost"]
    BY <1>5 DEF WarmFails
  <2> HIDE DEF t, z
  <2>3. task' = [t EXCEPT ![u].at = AfterWarm(u), ![u].result = result]
    BY <2>1, <2>2
  <2>4. \/ Call(u).kind = "load" /\ AfterWarm(u) = "read" /\ result = None
        \/ Call(u).kind \in {"warm", "startup"} /\ AfterWarm(u) = "done" /\ result = "lost"
    BY <1>2, <2>1 DEF AfterWarm
  <2> HIDE DEF result
  <2>5. task' = [task EXCEPT ![u] = y]
    BY <1>1, <2>1, <2>3
  <2>6. /\ TaskFields(y) /\ y.at = AfterWarm(u) /\ y.tries = task[u].tries /\ y.posts = task[u].posts
        /\ y.result = result /\ y.faults = task[u].faults + 1
    BY <2>1 DEF TaskFields, Fields
  <2> HIDE DEF y
  <2>7. y.faults \in Nat /\ y.faults # 0
    BY <1>1, <2>6
  <2>8. RestOK(Call(u), y, exchange')
    BY <2>4, <2>7 DEF RestOK
  <2>9. y.result # "bad_signature"
    BY <2>4, <2>6, ClobClientAssumption
  <2> QED BY <1>3, <2>4, <2>5, <2>6, <2>7, <2>8, <2>9
<1>6. CASE ReadBalance(u)
  <2> DEFINE n == IF exchange.settled THEN Held ELSE 0
             y == [task[u] EXCEPT !.at = "done", !.result = "ok", !.used = n]
  <2>1. /\ task' = [task EXCEPT ![u].at = "done", ![u].result = "ok", ![u].used = n]
        /\ exchange' = exchange /\ task[u].at = "read"
    BY <1>6 DEF ReadBalance, At
  <2>2. Call(u).kind = "load" /\ (task[u].faults = 0 => n = Held)
    BY <1>1, <2>1 DEF StageOK, RestOK
  <2> HIDE DEF n
  <2>3. task' = [task EXCEPT ![u] = y]
    BY <1>1, <2>1
  <2>4. /\ TaskFields(y) /\ y.at = "done" /\ y.tries = task[u].tries /\ y.posts = task[u].posts
        /\ y.result = "ok" /\ y.faults = task[u].faults /\ y.used = n
    BY <1>1 DEF TaskFields, Fields
  <2> HIDE DEF y
  <2>5. RestOK(Call(u), y, exchange')
    BY <2>2, <2>4 DEF RestOK
  <2>6. y.result # "bad_signature"
    BY <2>4
  <2> QED BY <1>1, <1>3, <2>3, <2>4, <2>5, <2>6
<1>7. CASE ReadFails(u)
  <2>1. EndsLost(task, task', u, "lost")
    BY <1>7 DEF ReadFails, EndsLost
  <2>2. task[u].at \notin {"wait", "done"}
    BY <1>2
  <2> QED BY <1>2, <2>1, <2>2, EndAnswers
<1> QED BY <1>4, <1>5, <1>6, <1>7

\* The pages of a list that stays as it is make the list.
LEMMA PageExtends ==
  ASSUME NEW S, NEW rows \in Seq(S), NEW n \in 0 .. Len(rows)
  PROVE  /\ LastPage(rows, n) => SubSeq(rows, 1, n) \o PageOf(rows, n) = rows
         /\ ~LastPage(rows, n) => /\ n + PageSize \in 0 .. Len(rows)
                                  /\ SubSeq(rows, 1, n) \o PageOf(rows, n) = SubSeq(rows, 1, n + PageSize)
<1> DEFINE m == IF n + PageSize >= Len(rows) THEN Len(rows) ELSE n + PageSize
<1>1. Len(rows) \in Nat /\ n \in Nat /\ PageSize \in Nat /\ m \in n .. Len(rows)
  BY ClobClientAssumption
<1>2. \/ m = Len(rows) /\ LastPage(rows, n)
      \/ m = n + PageSize /\ m \in 0 .. Len(rows) /\ ~LastPage(rows, n)
  BY <1>1 DEF LastPage
<1>3. PageOf(rows, n) = SubSeq(rows, n + 1, m)
  BY DEF PageOf
<1> HIDE DEF m
<1>4. SubSeq(rows, 1, n) \o SubSeq(rows, n + 1, m) = SubSeq(rows, 1, m)
  <2>1. 1 \in 1 .. Len(rows) + 1 /\ n \in 1 - 1 .. Len(rows) /\ m \in n .. Len(rows)
    BY <1>1
  <2> QED BY <2>1, ConcatAdjacentSubSeq
<1>5. SubSeq(rows, 1, Len(rows)) = rows
  BY SubSeqFull
<1>6. CASE LastPage(rows, n)
  BY <1>2, <1>3, <1>4, <1>5, <1>6
<1>7. CASE ~LastPage(rows, n)
  BY <1>2, <1>3, <1>4, <1>7
<1> QED BY <1>6, <1>7

LEMMA PageAnswers ==
  ASSUME AnswerInv, NEW u \in Callers, Page(u) \/ PageFails(u)
  PROVE  AnswerInv'
<1>1. /\ TaskOK(u, Call(u), task[u], exchange) /\ TaskFields(task[u])
      /\ task[u].tries \in Nat /\ task[u].posts \in Nat /\ task[u].faults \in Nat
      /\ task = [v \in Callers |-> task[v]] /\ exchange = [g \in EFields |-> exchange[g]]
      /\ StageOK(Call(u), task[u]) /\ ListOK(Call(u), task[u], exchange)
  BY AnswerParts DEF AnswerInv, TaskOK, StageOK
<1>2. /\ UNCHANGED <<script, sigType, pending>> /\ task[u].at \in {"ready", "page"} /\ Similar(exchange, exchange')
      /\ task[u].result = None /\ Call(u).kind \in {"orders", "trades"}
  <2>1. /\ UNCHANGED <<script, sigType, pending>> /\ task[u].at \in {"ready", "page"}
        /\ exchange' = exchange \/ exchange' = Spent(exchange)
    BY DEF Page, PageFails, Listing, At
  <2>2. Call(u).kind \in {"orders", "trades"}
    BY <1>1, <2>1 DEF Page, PageFails, Listing, Lists, At, StageOK
  <2> QED BY <1>1, <2>1, <2>2, SimilarSteps DEF StageOK
<1>3. CASE PageFails(u)
  <2>1. EndsLost(task, task', u, "lost")
    BY <1>3 DEF PageFails, EndsLost
  <2>2. task[u].at \notin {"wait", "done"}
    BY <1>2
  <2> QED BY <1>2, <2>1, <2>2, EndAnswers
<1>4. CASE Page(u)
  <2> DEFINE rows == ListOf(Call(u), exchange)
             from == task[u].page
             got == task[u].got \o PageOf(rows, from)
             began == IF At(u, "ready") THEN rows ELSE task[u].began
             last == LastPage(rows, from)
             where == IF last THEN "done" ELSE "page"
             result == IF last THEN "ok" ELSE task[u].result
             y == [task[u] EXCEPT !.got = got, !.page = task[u].page + PageSize, !.began = began, !.at = where,
                                  !.result = result]
  <2>1. rows = Rows(Call(u).kind)
    BY DEF ListOf, Rows
  <2>2. exchange' = exchange /\ rows \in Seq(Range(rows))
    BY <1>4 DEF Page, AnswerInv, ExchangeOK, ListOf
  <2>3. (where = "done" /\ result = "ok" /\ last) \/ (where = "page" /\ result = None /\ ~last)
    BY <1>2
  <2>4. ~task[u].moved => from \in 0 .. Len(rows) /\ task[u].got = SubSeq(rows, 1, from) /\ began = rows
    <3>1. CASE task[u].at = "page"
      BY <1>1, <1>2, <3>1 DEF ListOK, At
    <3>2. CASE task[u].at = "ready"
      <4>1. from = 0 /\ task[u].got = <<>> /\ Len(rows) \in Nat
        BY <1>1, <1>2, <2>2, <3>2 DEF ListOK
      <4>2. SubSeq(rows, 1, 0) = <<>>
        BY <2>2, SubSeqEmpty
      <4> QED BY <3>2, <4>1, <4>2 DEF At
    <3> QED BY <1>2, <3>1, <3>2
  <2>5. ~task[u].moved => /\ last => got = rows
                          /\ ~last => from + PageSize \in 0 .. Len(rows) /\ got = SubSeq(rows, 1, from + PageSize)
    <3> HIDE DEF rows, from
    <3> QED BY <2>2, <2>4, PageExtends
  <2>6. task' = [task EXCEPT ![u].got = got, ![u].page = @ + PageSize, ![u].began = began, ![u].at = where,
                             ![u].result = result]
    BY <1>4, <2>1 DEF Page
  <2> HIDE DEF got, began, where, result, last
  <2>7. task' = [task EXCEPT ![u] = y]
    BY <1>1, <2>6
  <2>8. /\ TaskFields(y) /\ y.at = where /\ y.tries = task[u].tries /\ y.posts = task[u].posts
        /\ y.result = result /\ y.faults = task[u].faults /\ y.moved = task[u].moved
        /\ y.got = got /\ y.began = began /\ y.page = from + PageSize
    BY <1>1 DEF TaskFields, Fields
  <2> HIDE DEF y
  <2>9. TaskOK(u, Call(u), y, exchange')
    <3>1. StageOK(Call(u), y)
      BY <1>1, <1>2, <2>3, <2>8, ClobClientAssumption DEF StageOK
    <3>2. FillOK(u, Call(u), y, exchange') /\ RestOK(Call(u), y, exchange')
      BY <1>2 DEF FillOK, RestOK, Posts
    <3>3. ListOK(Call(u), y, exchange')
      <4> HIDE DEF rows, from
      <4>1. ListOf(Call(u), exchange') = rows
        BY <2>2 DEF rows
      <4> QED BY <2>3, <2>4, <2>5, <2>8, <4>1, ClobClientAssumption DEF ListOK
    <3> QED BY <3>1, <3>2, <3>3 DEF TaskOK
  <2>10. Later(task[u], y)
    BY <1>1, <2>8 DEF Later
  <2>11. task[u].at \notin {"wait", "done"}
    BY <1>2
  <2> QED BY <1>2, <2>7, <2>9, <2>10, <2>11, OneAnswers
<1> QED BY <1>3, <1>4


-------------------------------------------------------------------------------
(* Steps after which the lists are not what they were. *)

\* One task goes on, and the lists that others read move.
MovedTo(ts, u, x) == [v \in Callers |-> IF v = u THEN x ELSE Stirred(ts[v])]

LEMMA ChangeAnswers ==
  ASSUME AnswerInv, UNCHANGED <<script, sigType, pending>>, NEW u \in Callers, NEW x,
         task' = MovedTo(task, u, x), Grows(exchange, exchange'),
         (\A id : Past(id, task) => Past(id, task')) => ExchangeOK(exchange', task'),
         TaskOK(u, Call(u), x, exchange'), Later(task[u], x), task[u].at \notin {"wait", "done"}
  PROVE  AnswerInv'
<1>1. /\ sigType' \in SigTypes /\ \A v \in Callers : Call(v)'.order \notin OrderIds
      /\ task' = [v \in Callers |-> task'[v]]
      /\ \A v \in Callers : TaskOK(v, Call(v)', task'[v], exchange')
      /\ task'[u] = x
      /\ \A v \in Callers : v # u => /\ task'[v].at = task[v].at /\ task'[v].tries = task[v].tries
                                     /\ task'[v].posts = task[v].posts
      /\ \A v \in Callers : task'[v].tries \in Nat /\ task'[v].posts \in Nat /\ Later(task[v], task'[v])
  <2>1. task' = [v \in Callers |-> IF v = u THEN x ELSE Stirred(task[v])]
    BY DEF MovedTo
  <2> QED BY <2>1, Others
<1>2. \A id : Past(id, task) => Past(id, task')
  BY <1>1, TasksLater
<1>3. PendingOK(pending', task')
  <2>1. PendingOK(pending, task)
    BY DEF AnswerInv
  <2> QED BY <1>1, <2>1 DEF PendingOK, Latest
<1> QED BY <1>1, <1>2, <1>3 DEF AnswerInv

\* Orders leave the list.
Shrinks(e, f, ids) ==
  /\ f = [g \in EFields |-> f[g]] /\ f.open = Remaining(e.open, ids)
  /\ f.trades = e.trades /\ f.hashes = e.hashes /\ f.frames = e.frames /\ f.filled = e.filled
  /\ f.settled = e.settled

LEMMA ShrinkSteps ==
  ASSUME NEW e, e = [g \in EFields |-> e[g]], NEW ids, NEW f,
         f = [e EXCEPT !.open = Remaining(@, ids)] \/ f = Spent([e EXCEPT !.open = Remaining(@, ids)])
  PROVE  Shrinks(e, f, ids)
<1>1. CASE f = [e EXCEPT !.open = Remaining(@, ids)]
  BY <1>1 DEF Shrinks, EFields
<1>2. CASE f = Spent([e EXCEPT !.open = Remaining(@, ids)])
  BY <1>2 DEF Shrinks, EFields, Spent
<1> QED BY <1>1, <1>2

LEMMA RowsOfSeq ==
  ASSUME NEW S, NEW s \in Seq(S)
  PROVE  Range(s) \subseteq S /\ s \in Seq(Range(s))
<1>1. \A i \in 1 .. Len(s) : s[i] \in S /\ s[i] \in Range(s)
  BY DEF Range
<1>2. Range(s) \subseteq S
  BY <1>1 DEF Range
<1>3. s \in Seq(Range(s))
  BY <1>1
<1> QED BY <1>2, <1>3

LEMMA ShrinkOK ==
  ASSUME NEW e, NEW ts, ExchangeOK(e, ts), NEW f, NEW ids, Shrinks(e, f, ids)
  PROVE  /\ Grows(e, f) /\ Range(f.open) \subseteq Range(e.open) \ ids
         /\ Range(e.open) \cap ids = {} => SameLists(e, f)
         /\ \A tt : (\A id : Past(id, ts) => Past(id, tt)) => ExchangeOK(f, tt)
<1>1. e.open \in Seq(Range(e.open))
  BY DEF ExchangeOK
<1>2. /\ f.open \in Seq(Range(e.open) \ ids)
      /\ Range(e.open) \cap ids = {} => f.open = e.open
  BY <1>1, RemainingRows DEF Shrinks
<1>3. Range(f.open) \subseteq Range(e.open) \ ids /\ f.open \in Seq(Range(f.open))
  BY <1>2, RowsOfSeq
<1>4. Grows(e, f)
  <2>1. f.filled = e.filled /\ f.settled = e.settled /\ \A id \in DOMAIN e.filled : e.filled[id] \in Nat
    BY DEF Shrinks, ExchangeOK
  <2> QED BY <1>3, <2>1 DEF Grows
<1>5. Range(e.open) \cap ids = {} => SameLists(e, f)
  BY <1>2 DEF SameLists, Shrinks
<1>6. ASSUME NEW tt, \A id : Past(id, ts) => Past(id, tt) PROVE ExchangeOK(f, tt)
  <2>1. /\ f = [g \in EFields |-> f[g]] /\ f.open \in Seq(Range(f.open))
        /\ \A id \in Range(f.open) : id \in Range(e.open)
    BY <1>3 DEF Shrinks
  <2>2. /\ f.trades = e.trades /\ f.hashes = e.hashes /\ f.frames = e.frames /\ f.filled = e.filled
    BY DEF Shrinks
  <2> QED BY <1>6, <2>1, <2>2 DEF ExchangeOK, Known
<1> QED BY <1>3, <1>4, <1>5, <1>6

\* A request to cancel that was answered, or whose answer was lost.
LEMMA CancelForms ==
  ASSUME NEW ts, NEW tt, ts = [v \in Callers |-> ts[v]], NEW u \in Callers, TaskFields(ts[u]), NEW r,
         EndsLost(Moves(ts), tt, u, r)
  PROVE  \E x : /\ tt = MovedTo(ts, u, x) /\ TaskFields(x) /\ x.at = "done"
                /\ x.tries = ts[u].tries /\ x.posts = ts[u].posts
                /\ x.result = r /\ x.faults \in {ts[u].faults, ts[u].faults + 1}
<1> DEFINE m == Moves(ts)
<1>1. m = [v \in Callers |-> Stirred(ts[v])]
  BY DEF Moves, Stirred
<1>2. /\ TaskFields(m[u]) /\ m[u].tries = ts[u].tries /\ m[u].posts = ts[u].posts /\ m[u].faults = ts[u].faults
  BY <1>1, StirredFields
<1>3. m = [v \in Callers |-> m[v]] /\ EndsLost(m, tt, u, r)
  BY <1>1
<1> HIDE DEF m
<1>4. PICK x : /\ tt = [m EXCEPT ![u] = x] /\ TaskFields(x) /\ x.at = "done"
               /\ x.tries = m[u].tries /\ x.posts = m[u].posts
               /\ x.result = r /\ x.faults \in {m[u].faults, m[u].faults + 1}
  BY <1>2, <1>3, EndForms
<1>5. tt = MovedTo(ts, u, x)
  BY <1>1, <1>4 DEF MovedTo
<1> QED BY <1>2, <1>4, <1>5

LEMMA CancelAnswers ==
  ASSUME AnswerInv, NEW u \in Callers, Cancel(u) \/ CancelAll(u) \/ CancelLost(u)
  PROVE  AnswerInv'
<1>1. /\ TaskOK(u, Call(u), task[u], exchange) /\ TaskFields(task[u])
      /\ task[u].tries \in Nat /\ task[u].posts \in Nat /\ task[u].faults \in Nat
      /\ task = [v \in Callers |-> task[v]] /\ exchange = [g \in EFields |-> exchange[g]]
      /\ Similar(exchange, exchange) /\ ExchangeOK(exchange, task)
  BY AnswerParts, SimilarSteps DEF AnswerInv, TaskOK, StageOK
<1>2. /\ UNCHANGED <<script, sigType, pending>> /\ task[u].at = "ready" /\ Call(u).kind \in {"cancel", "cancel_all"}
  BY DEF Cancel, CancelAll, CancelLost, At
<1>3. PICK r, ids :
        /\ \/ Shrinks(exchange, exchange', ids) /\ EndsLost(Moves(task), task', u, r)
           \/ Similar(exchange, exchange') /\ EndsLost(task, task', u, r) /\ ids = {}
        /\ r # "bad_signature"
        /\ r = "ok" /\ Call(u).kind = "cancel" => Call(u).order \in ids \/ Call(u).order \notin Range(exchange.open)
  <2> DEFINE X(r, ids) ==
        /\ \/ Shrinks(exchange, exchange', ids) /\ EndsLost(Moves(task), task', u, r)
           \/ Similar(exchange, exchange') /\ EndsLost(task, task', u, r) /\ ids = {}
        /\ r # "bad_signature"
        /\ r = "ok" /\ Call(u).kind = "cancel" => Call(u).order \in ids \/ Call(u).order \notin Range(exchange.open)
  <2>1. CASE Cancel(u)
    <3>1. PICK answer \in IF Call(u).order \in Open THEN {"canceled", "not_canceled"} ELSE {"unlisted", "not_canceled"} :
             /\ exchange' = IF answer = "canceled" THEN Without({Call(u).order}) ELSE exchange
             /\ LET t == IF answer = "canceled" THEN Moves(task) ELSE task
                IN  task' = [t EXCEPT ![u].at = "done", ![u].result = CancelSays(answer)]
      BY <2>1 DEF Cancel
    <3>2. CancelSays(answer) # "bad_signature"
      BY DEF CancelSays
    <3>3. CASE answer = "canceled"
      <4>1. exchange' = [exchange EXCEPT !.open = Remaining(@, {Call(u).order})]
        BY <3>1, <3>3 DEF Without
      <4>2. Shrinks(exchange, exchange', {Call(u).order})
        BY <1>1, <4>1, ShrinkSteps
      <4>3. EndsLost(Moves(task), task', u, CancelSays(answer))
        BY <3>1, <3>3 DEF EndsLost
      <4>4. X(CancelSays(answer), {Call(u).order})
        BY <3>2, <4>2, <4>3
      <4> QED BY <4>4
    <3>4. CASE answer # "canceled"
      <4>1. exchange' = exchange /\ EndsLost(task, task', u, CancelSays(answer))
        BY <3>1, <3>4 DEF EndsLost
      <4>2. CancelSays(answer) = "ok" => Call(u).order \notin Range(exchange.open)
        BY <3>1, <3>4 DEF CancelSays, Open
      <4>3. X(CancelSays(answer), {})
        BY <1>1, <3>2, <4>1, <4>2
      <4> QED BY <4>3
    <3> QED BY <3>3, <3>4
  <2>2. CASE CancelAll(u)
    <3>1. exchange' = [exchange EXCEPT !.open = Remaining(@, Open)] /\ Call(u).kind = "cancel_all"
      BY <2>2 DEF CancelAll, Without
    <3>2. Shrinks(exchange, exchange', Open)
      BY <1>1, <3>1, ShrinkSteps
    <3>3. EndsLost(Moves(task), task', u, "ok")
      BY <2>2 DEF CancelAll, EndsLost
    <3>4. X("ok", Open)
      BY <3>1, <3>2, <3>3
    <3> QED BY <3>4
  <2>3. CASE CancelLost(u)
    <3>1. PICK gone : /\ exchange' = Spent(Without(gone))
                      /\ LET t == Fault(u, IF gone = {} THEN task ELSE Moves(task))
                         IN  task' = [t EXCEPT ![u].at = "done", ![u].result = "lost"]
      BY <2>3 DEF CancelLost
    <3>2. exchange' = Spent([exchange EXCEPT !.open = Remaining(@, gone)])
      BY <3>1 DEF Without
    <3>3. Shrinks(exchange, exchange', gone)
      BY <1>1, <3>2, ShrinkSteps
    <3>4. CASE gone # {}
      <4>1. EndsLost(Moves(task), task', u, "lost")
        BY <3>1, <3>4 DEF EndsLost
      <4>2. X("lost", gone)
        BY <3>3, <4>1
      <4> QED BY <4>2
    <3>5. CASE gone = {}
      <4>1. EndsLost(task, task', u, "lost")
        BY <3>1, <3>5 DEF EndsLost
      <4>2. SameLists(exchange, exchange')
        BY <1>1, <3>3, <3>5, ShrinkOK
      <4>3. Similar(exchange, exchange')
        BY <3>3, <4>2 DEF Similar, Shrinks, SameLists
      <4>4. X("lost", {})
        BY <4>1, <4>3
      <4> QED BY <4>4
    <3> QED BY <3>4, <3>5
  <2> QED BY <2>1, <2>2, <2>3
<1>4. CASE Shrinks(exchange, exchange', ids) /\ EndsLost(Moves(task), task', u, r)
  <2>1. PICK x : /\ task' = MovedTo(task, u, x) /\ TaskFields(x) /\ x.at = "done"
                 /\ x.tries = task[u].tries /\ x.posts = task[u].posts
                 /\ x.result = r /\ x.faults \in {task[u].faults, task[u].faults + 1}
    BY <1>1, <1>4, CancelForms
  <2>2. /\ Grows(exchange, exchange') /\ Range(exchange'.open) \subseteq Range(exchange.open) \ ids
        /\ (\A id : Past(id, task) => Past(id, task')) => ExchangeOK(exchange', task')
    BY <1>1, <1>4, ShrinkOK
  <2>3. TaskOK(u, Call(u), x, exchange')
    <3>1. StageOK(Call(u), x) /\ FillOK(u, Call(u), x, exchange') /\ ListOK(Call(u), x, exchange')
      BY <1>1, <1>2, <1>3, <2>1 DEF StageOK, FillOK, ListOK, Posts
    <3>2. RestOK(Call(u), x, exchange')
      BY <1>2, <1>3, <2>1, <2>2 DEF RestOK
    <3> QED BY <3>1, <3>2 DEF TaskOK
  <2>4. Later(task[u], x)
    BY <1>1, <2>1 DEF Later
  <2> QED BY <1>2, <2>1, <2>2, <2>3, <2>4, ChangeAnswers
<1>5. CASE Similar(exchange, exchange') /\ EndsLost(task, task', u, r) /\ ids = {}
  <2>1. PICK x : /\ task' = [task EXCEPT ![u] = x] /\ TaskFields(x) /\ x.at = "done"
                 /\ x.tries = task[u].tries /\ x.posts = task[u].posts
                 /\ x.result = r /\ x.faults \in {task[u].faults, task[u].faults + 1}
    BY <1>1, <1>5, EndForms
  <2>2. TaskOK(u, Call(u), x, exchange')
    <3>1. StageOK(Call(u), x) /\ FillOK(u, Call(u), x, exchange') /\ ListOK(Call(u), x, exchange')
      BY <1>1, <1>2, <1>3, <2>1 DEF StageOK, FillOK, ListOK, Posts
    <3>2. RestOK(Call(u), x, exchange')
      BY <1>2, <1>3, <1>5, <2>1 DEF RestOK, Similar
    <3> QED BY <3>1, <3>2 DEF TaskOK
  <2>3. Later(task[u], x)
    BY <1>1, <2>1 DEF Later
  <2> QED BY <1>2, <1>5, <2>1, <2>2, <2>3, OneAnswers
<1> QED BY <1>3, <1>4, <1>5


-------------------------------------------------------------------------------
(* A POST that reaches the exchange. *)

LEMMA AppendRows ==
  ASSUME NEW S, NEW s \in Seq(S), NEW x
  PROVE  Range(Append(s, x)) \subseteq Range(s) \cup {x} /\ Append(s, x) \in Seq(Range(Append(s, x)))
<1>1. s \in Seq(Range(s)) /\ Range(s) \subseteq Range(s) \cup {x}
  BY RowsOfSeq
<1>2. s \in Seq(Range(s) \cup {x})
  BY <1>1
<1>3. Append(s, x) \in Seq(Range(s) \cup {x})
  BY <1>2, AppendProperties
<1> QED BY <1>3, RowsOfSeq

\* An order joins those the exchange knows.
Adds(e, f, id, n, h) ==
  /\ f = [g \in EFields |-> f[g]] /\ f.settled = e.settled
  /\ f.hashes = e.hashes \cup {h} /\ h.hashOf.salt = id
  /\ f.open = e.open \/ f.open = Append(e.open, id)
  /\ f.trades = e.trades \/ f.trades = Append(e.trades, id)
  /\ f.filled = Fill(e.filled, id, n) /\ n \in Nat /\ n <= Held
  /\ \A w \in f.frames : \/ w \in e.frames
                         \/ \A l \in LegsOf(w) : l.order \in OrderIds =>
                              l.order = id /\ l.size \in Nat /\ l.size <= n

LEMMA AddsOK ==
  ASSUME NEW e, NEW ts, ExchangeOK(e, ts), NEW f, NEW id \in OrderIds, id \notin DOMAIN e.filled, NEW n, NEW h,
         Adds(e, f, id, n, h)
  PROVE  /\ Grows(e, f) /\ \A k \in Nat : k <= n => Known(id, k, f)
         /\ \A tt : (\A o : Past(o, ts) => Past(o, tt)) /\ Past(id, tt) => ExchangeOK(f, tt)
<1>1. /\ DOMAIN f.filled = DOMAIN e.filled \cup {id} /\ f.filled[id] = n /\ n \in Nat /\ n <= Held
      /\ \A o \in DOMAIN e.filled : /\ f.filled[o] = e.filled[o] /\ e.filled[o] \in Nat /\ e.filled[o] <= Held
                                    /\ e.filled[o] <= f.filled[o]
  <2>1. f.filled = Fill(e.filled, id, n) /\ n \in Nat /\ n <= Held
    BY DEF Adds
  <2>2. \A o \in DOMAIN e.filled : o # id /\ e.filled[o] \in Nat /\ e.filled[o] <= Held /\ e.filled[o] <= e.filled[o]
    BY DEF ExchangeOK
  <2>3. /\ DOMAIN f.filled = DOMAIN e.filled \cup {id} /\ f.filled[id] = n
        /\ \A o \in DOMAIN e.filled : o # id => f.filled[o] = e.filled[o]
    <3>1. PICK d, g : d = e.filled /\ g = Fill(d, id, n) /\ f.filled = g
      BY <2>1
    <3>2. DOMAIN g = DOMAIN d \cup {id} /\ g[id] = n /\ \A o \in DOMAIN d : o # id => g[o] = d[o]
      BY <3>1 DEF Fill
    <3> QED BY <3>1, <3>2
  <2> QED BY <2>1, <2>2, <2>3
<1>2. /\ e.open \in Seq(Range(e.open)) /\ e.trades \in Seq(Range(e.trades))
      /\ f.open = e.open \/ f.open = Append(e.open, id)
      /\ f.trades = e.trades \/ f.trades = Append(e.trades, id)
  BY DEF ExchangeOK, Adds
<1>3. Range(f.open) \subseteq Range(e.open) \cup {id} /\ f.open \in Seq(Range(f.open))
  <2>1. /\ Range(Append(e.open, id)) \subseteq Range(e.open) \cup {id}
        /\ Append(e.open, id) \in Seq(Range(Append(e.open, id)))
    BY <1>2, AppendRows
  <2> QED BY <1>2, <2>1
<1>4. f.trades \in Seq(Range(f.trades))
  <2>1. Append(e.trades, id) \in Seq(Range(Append(e.trades, id)))
    BY <1>2, AppendRows
  <2> QED BY <1>2, <2>1
<1>5. Grows(e, f)
  <2>1. f.settled = e.settled
    BY DEF Adds
  <2> QED BY <1>1, <1>3, <2>1 DEF Grows
<1>6. \A k \in Nat : k <= n => Known(id, k, f)
  BY <1>1 DEF Known
<1>7. ASSUME NEW tt, \A o : Past(o, ts) => Past(o, tt), Past(id, tt) PROVE ExchangeOK(f, tt)
  <2>1. \A g \in f.hashes : Past(g.hashOf.salt, tt)
    BY <1>7 DEF Adds, ExchangeOK
  <2>2. \A o \in Range(f.open) : o \in OrderIds => Past(o, tt)
    BY <1>3, <1>7 DEF ExchangeOK
  <2>3. \A o \in DOMAIN f.filled : /\ f.filled[o] \in Nat /\ f.filled[o] <= Held
                                   /\ o \in OrderIds => Past(o, tt)
    BY <1>1, <1>7 DEF ExchangeOK
  <2>4. ASSUME NEW w \in f.frames, NEW l \in LegsOf(w), l.order \in OrderIds PROVE Known(l.order, l.size, f)
    <3>1. CASE w \in e.frames
      <4>1. Known(l.order, l.size, e)
        BY <2>4, <3>1 DEF ExchangeOK
      <4> QED BY <1>1, <1>5, <4>1, KnownGrows
    <3>2. CASE w \notin e.frames
      <4>1. l.order = id /\ l.size \in Nat /\ l.size <= n
        BY <2>4, <3>2 DEF Adds
      <4> QED BY <1>6, <4>1
    <3> QED BY <3>1, <3>2
  <2>5. f = [g \in EFields |-> f[g]]
    BY DEF Adds
  <2> QED BY <1>3, <1>4, <2>1, <2>2, <2>3, <2>4, <2>5 DEF ExchangeOK
<1> QED BY <1>5, <1>6, <1>7

\* The task after a POST, whose answer may be lost.
PostedTask(x, a, k) ==
  [x EXCEPT !.at = "answered", !.answer = a, !.posts = x.posts + 1, !.faults = x.faults + k]

LEMMA PostForms ==
  ASSUME NEW ts, ts = [v \in Callers |-> ts[v]], NEW u \in Callers, TaskFields(ts[u]), ts[u].faults \in Nat, NEW a
  PROVE  /\ Answered(ts, u, a) = [ts EXCEPT ![u] = PostedTask(ts[u], a, 0)]
         /\ Fault(u, Answered(ts, u, a)) = [ts EXCEPT ![u] = PostedTask(ts[u], a, 1)]
<1> DEFINE x == ts[u]
           y == [x EXCEPT !.at = "answered", !.answer = a, !.posts = x.posts + 1]
<1>1. Answered(ts, u, a) = [ts EXCEPT ![u] = y]
  BY DEF Answered
<1>2. Fault(u, Answered(ts, u, a)) = [ts EXCEPT ![u] = [y EXCEPT !.faults = y.faults + 1]]
  BY <1>1 DEF Fault
<1>3. x.faults + 0 = x.faults
  OBVIOUS
<1>4. PostedTask(x, a, 0) = y
  BY <1>3 DEF PostedTask, TaskFields, Fields
<1>5. PostedTask(x, a, 1) = [y EXCEPT !.faults = y.faults + 1]
  BY DEF PostedTask, TaskFields, Fields
<1> QED BY <1>1, <1>2, <1>4, <1>5

LEMMA MovesIs ==
  ASSUME NEW ts, ts = [v \in Callers |-> ts[v]], NEW u \in Callers, NEW x
  PROVE  Moves([ts EXCEPT ![u] = x]) = MovedTo(ts, u, Stirred(x))
<1>1. \A v \in Callers : [ts EXCEPT ![u] = x][v] = IF v = u THEN x ELSE ts[v]
  OBVIOUS
<1>2. PICK g : g = [ts EXCEPT ![u] = x]
  OBVIOUS
<1>3. \A v \in Callers : g[v] = IF v = u THEN x ELSE ts[v]
  BY <1>1, <1>2
<1>4. Moves(g) = [v \in Callers |-> Stirred(g[v])]
  BY DEF Moves, Stirred
<1> QED BY <1>2, <1>3, <1>4 DEF MovedTo

LEMMA PostedOK ==
  ASSUME NEW u, NEW c, c.kind \in Posts, NEW x, NEW e, NEW f, TaskOK(u, c, x, e), x.at = "ready",
         NEW a, a.says \in Answers, NEW k \in {0, 1},
         a.says = "ok" => Known(<<u, x.tries, x.posts>>, a.filled, f),
         NEW y, y = PostedTask(x, a, k) \/ y = Stirred(PostedTask(x, a, k))
  PROVE  TaskOK(u, c, y, f) /\ Later(x, y) /\ y.tries = x.tries /\ y.posts = x.posts + 1
<1>1. StageOK(c, x) /\ FillOK(u, c, x, e) /\ TaskFields(x) /\ x.tries \in Nat /\ x.posts \in Nat /\ x.faults \in Nat
  BY DEF TaskOK, StageOK
<1> DEFINE z == PostedTask(x, a, k)
<1>2. /\ TaskFields(z) /\ z.at = "answered" /\ z.answer = a /\ z.posts = x.posts + 1 /\ z.tries = x.tries
      /\ z.faults = x.faults + k /\ z.result = x.result /\ z.used = x.used
  BY <1>1 DEF PostedTask, TaskFields, Fields
<1> HIDE DEF z
<1>3. /\ TaskFields(y) /\ y.at = "answered" /\ y.answer = a /\ y.posts = x.posts + 1 /\ y.tries = x.tries
      /\ y.faults = x.faults + k /\ y.result = x.result /\ y.used = x.used
  <2>1. y = z \/ y = Stirred(z)
    BY DEF z
  <2> QED BY <1>2, <2>1, StirredFields
<1>4. /\ y.posts \in Nat /\ y.posts > 0 /\ y.faults \in Nat
      /\ y.posts - 1 = x.posts /\ Latest(u, y) = <<u, x.tries, x.posts>>
  <2>1. y.posts \in Nat /\ y.posts > 0 /\ y.posts - 1 = x.posts /\ y.faults \in Nat
    BY <1>1, <1>3
  <2> QED BY <1>3, <2>1 DEF Latest
<1>5. x.result = None /\ None # "ok" /\ x.used = 0
  BY <1>1, ClobClientAssumption DEF StageOK, FillOK
<1>6. StageOK(c, y)
  BY <1>1, <1>3, <1>4, <1>5 DEF StageOK
<1>7. FillOK(u, c, y, f)
  BY <1>3, <1>4, <1>5 DEF FillOK
<1>8. ListOK(c, y, f) /\ RestOK(c, y, f)
  BY DEF ListOK, RestOK, Posts
<1>9. Later(x, y)
  BY <1>1, <1>3 DEF Later
<1> QED BY <1>3, <1>6, <1>7, <1>8, <1>9 DEF TaskOK


\* A leg of somebody else's order tells nothing of an order of this program.
LEMMA OtherLegs ==
  ASSUME NEW id, NEW n \in Nat, NEW k, NEW size \in Nat, size <= n
  PROVE  \A l \in LegsOf(Frame(id, size, <<Leg(<<"other", k>>, size)>>)) :
           l.order \in OrderIds => l.order = id /\ l.size \in Nat /\ l.size <= n
<1>1. <<"other", k>> \notin OrderIds
  BY DEF OrderIds
<1>2. Range(<<Leg(<<"other", k>>, size)>>) = {Leg(<<"other", k>>, size)}
  BY DEF Range
<1>3. Frame(id, size, <<Leg(<<"other", k>>, size)>>).taker = id
      /\ Frame(id, size, <<Leg(<<"other", k>>, size)>>).size = size
      /\ Frame(id, size, <<Leg(<<"other", k>>, size)>>).makers = <<Leg(<<"other", k>>, size)>>
  BY DEF Frame
<1>4. LegsOf(Frame(id, size, <<Leg(<<"other", k>>, size)>>)) = {Leg(id, size), Leg(<<"other", k>>, size)}
  BY <1>2, <1>3 DEF LegsOf
<1>5. /\ Leg(id, size).order = id /\ Leg(id, size).size = size
      /\ Leg(<<"other", k>>, size).order = <<"other", k>>
  BY DEF Leg
<1> QED BY <1>1, <1>4, <1>5

\* What an accepted POST does to the exchange, answered or not.
LEMMA AcceptAdds ==
  ASSUME AnswerInv, NEW u \in Callers, NEW fills \in Fills, Accept(u, fills)
  PROVE  Adds(exchange, exchange', OrderId(u), Total(fills), Hash(Body(u).order))
<1>1. PICK e, id, h, n, open, trades, frames :
        /\ e = exchange /\ id = OrderId(u) /\ h = Hash(Body(u).order) /\ n = Total(fills)
        /\ open \in {e.open, Append(e.open, id)} /\ trades \in {e.trades, Append(e.trades, id)}
        /\ frames = {Frame(id, fills[k], <<Leg(<<"other", k>>, fills[k])>>) : k \in DOMAIN fills}
        /\ exchange' = [e EXCEPT !.hashes = e.hashes \cup {h}, !.orders = e.orders \cup {id}, !.open = open,
                                 !.trades = trades, !.filled = Fill(e.filled, id, n),
                                 !.frames = e.frames \cup frames]
  BY DEF Accept
<1>2. e = [g \in EFields |-> e[g]] /\ h.hashOf.salt = id
  BY <1>1, AnswerParts, FreshAttempt
<1>3. n \in Nat /\ n <= Held /\ \A k \in DOMAIN fills : fills[k] \in Nat /\ fills[k] <= n
  <2>1. \A k \in DOMAIN fills : fills[k] \in Nat
    BY DEF Fills
  <2> QED BY <1>1, <2>1, TotalOfFills
<1>4. ASSUME NEW w \in frames
      PROVE  \A l \in LegsOf(w) : l.order \in OrderIds => l.order = id /\ l.size \in Nat /\ l.size <= n
  <2>1. PICK k \in DOMAIN fills : w = Frame(id, fills[k], <<Leg(<<"other", k>>, fills[k])>>)
    BY <1>1
  <2> QED BY <1>3, <2>1, OtherLegs
<1>5. PICK f : f = exchange'
  OBVIOUS
<1>6. /\ f = [g \in EFields |-> f[g]] /\ f.settled = e.settled /\ f.hashes = e.hashes \cup {h}
      /\ f.open = open /\ f.trades = trades /\ f.filled = Fill(e.filled, id, n) /\ f.frames = e.frames \cup frames
  BY <1>1, <1>2, <1>5 DEF EFields
<1>7. Adds(e, f, id, n, h)
  BY <1>1, <1>2, <1>3, <1>4, <1>6 DEF Adds
<1> QED BY <1>1, <1>5, <1>7

LEMMA LostAdds ==
  ASSUME AnswerInv, NEW u \in Callers, NEW n \in {0, Held}, NEW open \in {exchange.open, Append(exchange.open, OrderId(u))},
         exchange' = Spent([exchange EXCEPT
                       !.hashes = @ \cup {Hash(Body(u).order)}, !.orders = @ \cup {OrderId(u)},
                       !.open = open, !.filled = Fill(@, OrderId(u), n)])
  PROVE  Adds(exchange, exchange', OrderId(u), n, Hash(Body(u).order))
<1>1. PICK e, id, h :
        /\ e = exchange /\ id = OrderId(u) /\ h = Hash(Body(u).order)
        /\ open \in {e.open, Append(e.open, id)}
        /\ exchange' = Spent([e EXCEPT !.hashes = e.hashes \cup {h}, !.orders = e.orders \cup {id}, !.open = open,
                                       !.filled = Fill(e.filled, id, n)])
  OBVIOUS
<1>2. e = [g \in EFields |-> e[g]] /\ h.hashOf.salt = id
  BY <1>1, AnswerParts, FreshAttempt
<1>3. PICK f : f = exchange'
  OBVIOUS
<1>4. /\ f = [g \in EFields |-> f[g]] /\ f.settled = e.settled /\ f.hashes = e.hashes \cup {h}
      /\ f.open = open /\ f.trades = e.trades /\ f.filled = Fill(e.filled, id, n) /\ f.frames = e.frames
  BY <1>1, <1>2, <1>3 DEF EFields, Spent
<1>5. n \in Nat /\ n <= Held
  BY DEF Held
<1>6. Adds(e, f, id, n, h)
  BY <1>1, <1>2, <1>4, <1>5 DEF Adds
<1> QED BY <1>1, <1>3, <1>6

\* An order that is accepted, whether its answer arrives or not.
LEMMA AddedAnswers ==
  ASSUME AnswerInv, UNCHANGED <<script, sigType, pending>>, NEW u \in Callers, task[u].at = "ready",
         Call(u).kind \in Posts, NEW n, Adds(exchange, exchange', OrderId(u), n, Hash(Body(u).order)),
         NEW a, a.says \in Answers, a.says = "ok" => a.filled = n, NEW k \in {0, 1},
         task' = Moves([task EXCEPT ![u] = PostedTask(task[u], a, k)])
  PROVE  AnswerInv'
<1>1. /\ TaskOK(u, Call(u), task[u], exchange) /\ TaskFields(task[u])
      /\ task[u].tries \in Nat /\ task[u].posts \in Nat
      /\ task = [v \in Callers |-> task[v]] /\ ExchangeOK(exchange, task)
      /\ OrderId(u) = <<u, task[u].tries, task[u].posts>>
  BY AnswerParts DEF AnswerInv, OrderId
<1>2. OrderId(u) \in OrderIds /\ OrderId(u) \notin DOMAIN exchange.filled
  BY FreshAttempt
<1>3. n \in Nat /\ n <= n
  BY DEF Adds
<1>4. PICK id, h : id = OrderId(u) /\ h = Hash(Body(u).order)
  OBVIOUS
<1>5. /\ Grows(exchange, exchange') /\ Known(id, n, exchange')
      /\ \A tt : (\A o : Past(o, task) => Past(o, tt)) /\ Past(id, tt) => ExchangeOK(exchange', tt)
  BY <1>1, <1>2, <1>3, <1>4, AddsOK
<1> DEFINE y == Stirred(PostedTask(task[u], a, k))
<1>6. task' = MovedTo(task, u, y)
  BY <1>1, MovesIs
<1>7. TaskOK(u, Call(u), y, exchange') /\ Later(task[u], y) /\ y.tries = task[u].tries /\ y.posts = task[u].posts + 1
  <2>1. a.says = "ok" => Known(<<u, task[u].tries, task[u].posts>>, a.filled, exchange')
    BY <1>1, <1>4, <1>5
  <2> QED BY <1>1, <2>1, PostedOK
<1> HIDE DEF y
<1>8. task'[u] = y
  BY <1>6 DEF MovedTo
<1>9. Past(id, task')
  <2>1. task[u].tries = task'[u].tries /\ task[u].posts < task'[u].posts
    BY <1>1, <1>7, <1>8
  <2> QED BY <1>1, <1>4, <2>1 DEF Past
<1>10. (\A o : Past(o, task) => Past(o, task')) => ExchangeOK(exchange', task')
  BY <1>5, <1>9
<1>11. task[u].at \notin {"wait", "done"}
  OBVIOUS
<1> QED BY <1>5, <1>6, <1>7, <1>10, <1>11, ChangeAnswers

\* Every answer to a POST.
LEMMA PostAnswers ==
  ASSUME AnswerInv, NEW u \in Callers, PostAccepted(u) \/ PostRefused(u) \/ PostLost(u)
  PROVE  AnswerInv'
<1>1. /\ TaskOK(u, Call(u), task[u], exchange) /\ TaskFields(task[u])
      /\ task[u].tries \in Nat /\ task[u].posts \in Nat /\ task[u].faults \in Nat
      /\ task = [v \in Callers |-> task[v]] /\ exchange = [g \in EFields |-> exchange[g]]
  BY AnswerParts DEF AnswerInv, TaskOK, StageOK
<1>2. /\ UNCHANGED <<script, sigType, pending>> /\ task[u].at = "ready" /\ Call(u).kind \in Posts
  BY DEF PostAccepted, PostRefused, PostLost, CanPost, At
<1> DEFINE NotPlaced(a, y) == /\ a.says \in {"balance", "lost"} /\ Similar(exchange, exchange')
                              /\ y = PostedTask(task[u], a, 0) \/ y = PostedTask(task[u], a, 1)
                              /\ task' = [task EXCEPT ![u] = y]
<1>3. ASSUME NEW a, NEW y, NotPlaced(a, y) PROVE AnswerInv'
  <2>1. a.says \in Answers /\ a.says # "ok"
    BY <1>3 DEF Answers
  <2>2. PICK c, x, e, f : c = Call(u) /\ x = task[u] /\ e = exchange /\ f = exchange'
    OBVIOUS
  <2>3. TaskOK(u, c, y, f) /\ Later(x, y)
    <3>1. TaskOK(u, c, x, e) /\ x.at = "ready" /\ c.kind \in Posts
      BY <1>1, <1>2, <2>2
    <3>2. PICK k \in {0, 1} : y = PostedTask(x, a, k)
      BY <1>3, <2>2
    <3> QED BY <2>1, <3>1, <3>2, PostedOK
  <2>4. TaskOK(u, Call(u), y, exchange') /\ Later(task[u], y)
    BY <2>2, <2>3
  <2>5. task[u].at \notin {"wait", "done"}
    BY <1>2
  <2> QED BY <1>2, <1>3, <2>4, <2>5, OneAnswers
<1> HIDE DEF NotPlaced
<1>4. CASE PostAccepted(u)
  <2>1. PICK fills \in Fills :
          /\ Accept(u, fills)
          /\ task' = Moves(Answered(task, u, [says |-> "ok", filled |-> Total(fills)]))
    BY <1>4 DEF PostAccepted
  <2>2. PICK a : a = [says |-> "ok", filled |-> Total(fills)]
    OBVIOUS
  <2>3. a.says = "ok" /\ a.says \in Answers /\ a.filled = Total(fills)
    BY <2>2 DEF Answers
  <2>4. task' = Moves([task EXCEPT ![u] = PostedTask(task[u], a, 0)])
    BY <1>1, <2>1, <2>2, PostForms
  <2>5. Adds(exchange, exchange', OrderId(u), Total(fills), Hash(Body(u).order))
    BY <2>1, AcceptAdds
  <2> QED BY <1>2, <2>3, <2>4, <2>5, AddedAnswers
<1>5. CASE PostRefused(u)
  <2>1. Valid(u)
    BY FreshAttempt
  <2>2. PICK a : a = [says |-> "balance", filled |-> 0]
    OBVIOUS
  <2>3. task' = Answered(task, u, a) /\ exchange' = exchange
    BY <1>5, <2>1, <2>2 DEF PostRefused
  <2>4. task' = [task EXCEPT ![u] = PostedTask(task[u], a, 0)]
    BY <1>1, <2>3, PostForms
  <2>5. PICK y : y = PostedTask(task[u], a, 0)
    OBVIOUS
  <2>6. a.says \in {"balance", "lost"} /\ Similar(exchange, exchange') /\ task' = [task EXCEPT ![u] = y]
    BY <1>1, <2>2, <2>3, <2>4, <2>5, SimilarSteps
  <2>7. NotPlaced(a, y)
    BY <2>5, <2>6 DEF NotPlaced
  <2> QED BY <1>3, <2>7
<1>6. CASE PostLost(u)
  <2>1. PICK a : a = [says |-> "lost", filled |-> 0]
    OBVIOUS
  <2>2. PICK t : t = Fault(u, Answered(task, u, a))
    OBVIOUS
  <2>3. t = [task EXCEPT ![u] = PostedTask(task[u], a, 1)] /\ a.says = "lost" /\ "lost" # "ok" /\ a.says \in Answers
    BY <1>1, <2>1, <2>2, PostForms DEF Answers
  <2>4. CASE task' = t /\ exchange' = Spent(exchange)
    <3>1. Similar(exchange, exchange')
      BY <1>1, <2>4, SimilarSteps
    <3>2. PICK y : y = PostedTask(task[u], a, 1) /\ task' = [task EXCEPT ![u] = y]
      BY <2>3, <2>4
    <3>3. a.says \in {"balance", "lost"}
      BY <2>3
    <3>4. NotPlaced(a, y)
      BY <3>1, <3>2, <3>3 DEF NotPlaced
    <3> QED BY <1>3, <3>4
  <2>5. CASE /\ task' = Moves(t)
             /\ exchange' = Spent([exchange EXCEPT
                     !.hashes = @ \cup {Hash(Body(u).order)},
                     !.orders = @ \cup {OrderId(u)},
                     !.open = IF IsLimit(Call(u)) THEN Append(@, OrderId(u)) ELSE @,
                     !.filled = Fill(@, OrderId(u), IF IsLimit(Call(u)) THEN 0 ELSE Held)])
    <3>1. PICK n \in {0, Held}, open \in {exchange.open, Append(exchange.open, OrderId(u))} :
            exchange' = Spent([exchange EXCEPT
                     !.hashes = @ \cup {Hash(Body(u).order)},
                     !.orders = @ \cup {OrderId(u)}, !.open = open, !.filled = Fill(@, OrderId(u), n)])
      BY <2>5
    <3>2. Adds(exchange, exchange', OrderId(u), n, Hash(Body(u).order))
      BY <3>1, LostAdds
    <3>3. task' = Moves([task EXCEPT ![u] = PostedTask(task[u], a, 1)])
      BY <2>3, <2>5
    <3> QED BY <1>2, <2>3, <3>2, <3>3, AddedAnswers
  <2> QED BY <1>6, <2>1, <2>2, <2>4, <2>5 DEF PostLost
<1> QED BY <1>4, <1>5, <1>6


-------------------------------------------------------------------------------
(* Trades. *)

\* A report wakes the waiters of its orders with what was filled.
LEMMA ReportAnswers ==
  ASSUME AnswerInv, NEW f \in exchange.frames, Report(f)
  PROVE  AnswerInv'
<1>1. /\ UNCHANGED <<script, sigType>> /\ exchange' = [exchange EXCEPT !.frames = @ \ {f}]
      /\ exchange = [g \in EFields |-> exchange[g]] /\ ExchangeOK(exchange, task) /\ PendingOK(pending, task)
      /\ task = [v \in Callers |-> task[v]]
  BY DEF Report, AnswerInv, ExchangeOK
<1> DEFINE Legs(w) == {l \in LegsOf(f) : l.order = w.order}
           woken == {w \in pending : Legs(w) # {}}
<1>2. /\ pending' = pending \ woken
      /\ task' = [u \in Callers |->
              IF At(u, "wait") /\ \E w \in woken : w.waiter = u
              THEN LET w == CHOOSE w \in woken : w.waiter = u
                   IN  [task[u] EXCEPT !.at = "done", !.result = "ok",
                                       !.used = (CHOOSE l \in Legs(w) : TRUE).size]
              ELSE task[u]]
  BY DEF Report
<1>3. /\ exchange' = [g \in EFields |-> exchange'[g]] /\ exchange'.frames \subseteq exchange.frames
      /\ exchange'.open = exchange.open /\ exchange'.trades = exchange.trades /\ exchange'.hashes = exchange.hashes
      /\ exchange'.filled = exchange.filled /\ exchange'.settled = exchange.settled
  BY <1>1 DEF EFields
<1>4. /\ Grows(exchange, exchange') /\ SameLists(exchange, exchange')
      /\ \A o \in DOMAIN exchange.filled : exchange.filled[o] \in Nat
  <2>1. \A o \in DOMAIN exchange.filled : exchange.filled[o] \in Nat
    BY <1>1 DEF ExchangeOK
  <2> QED BY <1>3, <2>1 DEF Grows, SameLists
<1>5. ASSUME NEW u \in Callers
      PROVE  /\ TaskOK(u, Call(u), task'[u], exchange') /\ task'[u].tries = task[u].tries
             /\ task'[u].posts = task[u].posts
             /\ task[u].at \in {"wait", "done"} => task'[u].at \in {"wait", "done"}
  <2>1. /\ TaskOK(u, Call(u), task[u], exchange) /\ Call(u).order \notin OrderIds /\ TaskFields(task[u])
        /\ task[u].tries \in Nat /\ task[u].posts \in Nat /\ task[u].faults \in Nat
    BY AnswerParts DEF TaskOK, StageOK
  <2>2. CASE ~(At(u, "wait") /\ \E w \in woken : w.waiter = u)
    <3>1. task'[u] = task[u]
      BY <1>2, <2>2
    <3> QED BY <1>4, <2>1, <3>1, TaskStays
  <2>3. CASE At(u, "wait") /\ \E w \in woken : w.waiter = u
    <3>1. \E w \in woken : \E l \in Legs(w) :
            w.waiter = u /\ task'[u] = [task[u] EXCEPT !.at = "done", !.result = "ok", !.used = l.size]
      <4> DEFINE w == CHOOSE w \in woken : w.waiter = u
                 l == CHOOSE l \in Legs(w) : TRUE
      <4>1. w \in woken /\ w.waiter = u
        BY <2>3
      <4>2. l \in Legs(w)
        BY <4>1
      <4>3. task'[u] = [task[u] EXCEPT !.at = "done", !.result = "ok", !.used = l.size]
        BY <1>2, <2>3
      <4> HIDE DEF w, l, woken, Legs
      <4> QED BY <4>1, <4>2, <4>3
    <3>2. PICK w \in woken : \E l \in Legs(w) :
            w.waiter = u /\ task'[u] = [task[u] EXCEPT !.at = "done", !.result = "ok", !.used = l.size]
      BY <3>1
    <3>3. PICK l \in Legs(w) :
            w.waiter = u /\ task'[u] = [task[u] EXCEPT !.at = "done", !.result = "ok", !.used = l.size]
      BY <3>2
    <3>4. PICK y : y = task'[u]
      OBVIOUS
    <3>5. /\ TaskFields(y) /\ y.at = "done" /\ y.tries = task[u].tries /\ y.posts = task[u].posts
          /\ y.result = "ok" /\ y.faults = task[u].faults /\ y.used = l.size
      BY <2>1, <3>3, <3>4 DEF TaskFields, Fields
    <3>6. /\ StageOK(Call(u), task[u]) /\ Call(u).kind \in Posts /\ task[u].posts > 0
      BY <2>1, <2>3 DEF TaskOK, StageOK, At
    <3>7. l \in LegsOf(f) /\ l.order = Latest(u, task[u])
      BY <1>1, <3>3 DEF PendingOK
    <3>8. Latest(u, task[u]) \in OrderIds
      BY <2>1, <3>6 DEF Latest, OrderIds
    <3>9. Known(Latest(u, task[u]), l.size, exchange)
      BY <1>1, <3>7, <3>8 DEF ExchangeOK
    <3>10. Known(Latest(u, y), y.used, exchange')
      <4>1. Latest(u, y) = Latest(u, task[u])
        BY <3>5 DEF Latest
      <4> QED BY <1>4, <3>5, <3>9, <4>1, KnownGrows
    <3>11. StageOK(Call(u), y)
      BY <2>1, <3>5, <3>6 DEF StageOK
    <3>12. FillOK(u, Call(u), y, exchange')
      BY <3>5, <3>10 DEF FillOK
    <3>13. ListOK(Call(u), y, exchange') /\ RestOK(Call(u), y, exchange')
      BY <3>6 DEF ListOK, RestOK, Posts
    <3>14. TaskOK(u, Call(u), y, exchange')
      BY <3>11, <3>12, <3>13 DEF TaskOK
    <3> QED BY <3>4, <3>5, <3>14
  <2> QED BY <2>2, <2>3
<1>6. \A id : Past(id, task) => Past(id, task')
  <2>1. \A v \in Callers : task'[v].tries \in Nat /\ task'[v].posts \in Nat /\ Later(task[v], task'[v])
    BY <1>5, AnswerParts DEF Later
  <2> QED BY <2>1, TasksLater
<1>7. ExchangeOK(exchange', task')
  BY <1>1, <1>3, <1>6 DEF ExchangeOK, Known
<1>8. PendingOK(pending', task')
  <2>1. \A w \in pending' : w \in pending
    BY <1>2
  <2> QED BY <1>1, <1>5, <2>1 DEF PendingOK, Latest
<1>9. task' = [v \in Callers |-> task'[v]]
  BY <1>2
<1>10. sigType' \in SigTypes /\ \A v \in Callers : Call(v)' = Call(v) /\ Call(v).order \notin OrderIds
  BY <1>1 DEF AnswerInv, Call
<1> QED BY <1>5, <1>7, <1>8, <1>9, <1>10 DEF AnswerInv

\* A trade fills what is left of a resting order.
LEMMA MatchAnswers ==
  ASSUME AnswerInv, NEW id \in Open, MakerMatch(id)
  PROVE  AnswerInv'
<1> DEFINE rest == IF id \in DOMAIN exchange.filled THEN Held - exchange.filled[id] ELSE Held
           other == Leg(<<"other", 1>>, Held + 1 - rest)
           frame == Frame(<<"other", 0>>, Held + 1, <<other, Leg(id, rest)>>)
<1>1. PICK e, f : e = exchange /\ f = exchange'
  OBVIOUS
<1>2. /\ UNCHANGED <<script, sigType, pending>> /\ task' = Moves(task)
      /\ f = [e EXCEPT !.open = Remaining(e.open, {id}), !.filled = Fill(e.filled, id, Held),
                       !.frames = e.frames \cup {frame}]
  BY <1>1 DEF MakerMatch
<1>3. e = [g \in EFields |-> e[g]] /\ ExchangeOK(e, task) /\ id \in Range(e.open)
  BY <1>1 DEF AnswerInv, ExchangeOK, Open
<1>4. /\ f = [g \in EFields |-> f[g]] /\ f.settled = e.settled /\ f.trades = e.trades /\ f.hashes = e.hashes
      /\ f.open = Remaining(e.open, {id}) /\ f.filled = Fill(e.filled, id, Held) /\ f.frames = e.frames \cup {frame}
  BY <1>2, <1>3 DEF EFields
<1>5. Range(f.open) \subseteq Range(e.open) /\ f.open \in Seq(Range(f.open))
  <2>1. Remaining(e.open, {id}) \in Seq(Range(e.open) \ {id})
    BY <1>3, RemainingRows DEF ExchangeOK
  <2> QED BY <1>4, <2>1, RowsOfSeq
<1>6. /\ DOMAIN f.filled = DOMAIN e.filled \cup {id} /\ f.filled[id] = Held
      /\ \A o \in DOMAIN e.filled : /\ e.filled[o] \in Nat /\ e.filled[o] <= Held /\ e.filled[o] <= f.filled[o]
                                    /\ f.filled[o] \in Nat /\ f.filled[o] <= Held
  <2>1. \A o \in DOMAIN e.filled : e.filled[o] \in Nat /\ e.filled[o] <= Held
    BY <1>3 DEF ExchangeOK
  <2> QED BY <1>4, <2>1 DEF Fill, Held
<1>7. Grows(e, f)
  BY <1>4, <1>5, <1>6 DEF Grows
<1>8. rest \in Nat /\ rest <= Held
  BY <1>1, <1>6 DEF Held
<1>9. \A l \in LegsOf(frame) : l.order \in OrderIds => Known(l.order, l.size, f)
  <2>1. <<"other", 0>> \notin OrderIds /\ <<"other", 1>> \notin OrderIds
    BY DEF OrderIds
  <2> HIDE DEF rest
  <2>2. LegsOf(frame) = {Leg(<<"other", 0>>, Held + 1), other, Leg(id, rest)}
    BY DEF LegsOf, Frame, Range
  <2>3. Known(id, rest, f)
    BY <1>6, <1>8 DEF Known
  <2> QED BY <2>1, <2>2, <2>3 DEF Leg
<1> HIDE DEF rest, other, frame
<1>10. task' = [v \in Callers |-> Stirred(task[v])]
  BY <1>2 DEF Moves, Stirred
<1>11. ASSUME NEW v \in Callers
       PROVE  /\ TaskOK(v, Call(v), task'[v], f) /\ task'[v].at = task[v].at
              /\ task'[v].tries = task[v].tries /\ task'[v].posts = task[v].posts
  <2>1. /\ TaskOK(v, Call(v), task[v], e) /\ Call(v).order \notin OrderIds /\ TaskFields(task[v])
        /\ \A o \in DOMAIN e.filled : e.filled[o] \in Nat
    BY <1>1, AnswerParts
  <2>2. TaskOK(v, Call(v), Stirred(task[v]), f)
    BY <1>7, <2>1, TaskStirred
  <2>3. /\ Stirred(task[v]).at = task[v].at /\ Stirred(task[v]).tries = task[v].tries
        /\ Stirred(task[v]).posts = task[v].posts
    BY <2>1, StirredFields
  <2> QED BY <1>10, <2>2, <2>3
<1>12. \A o : Past(o, task) => Past(o, task')
  <2>1. \A v \in Callers : task'[v].tries \in Nat /\ task'[v].posts \in Nat /\ Later(task[v], task'[v])
    BY <1>11, AnswerParts DEF Later
  <2> QED BY <2>1, TasksLater
<1>13. ExchangeOK(f, task')
  <2>1. \A h \in f.hashes : Past(h.hashOf.salt, task')
    BY <1>3, <1>4, <1>12 DEF ExchangeOK
  <2>2. \A o \in Range(f.open) : o \in OrderIds => Past(o, task')
    BY <1>3, <1>5, <1>12 DEF ExchangeOK
  <2>3. \A o \in DOMAIN f.filled : /\ f.filled[o] \in Nat /\ f.filled[o] <= Held
                                   /\ o \in OrderIds => Past(o, task')
    BY <1>3, <1>6, <1>12 DEF ExchangeOK, Held
  <2>4. ASSUME NEW w \in f.frames, NEW l \in LegsOf(w), l.order \in OrderIds PROVE Known(l.order, l.size, f)
    <3>1. CASE w \in e.frames
      <4>1. Known(l.order, l.size, e)
        BY <1>3, <2>4, <3>1 DEF ExchangeOK
      <4> QED BY <1>6, <1>7, <4>1, KnownGrows
    <3>2. CASE w = frame
      BY <1>9, <2>4, <3>2
    <3> QED BY <1>4, <3>1, <3>2
  <2>5. f.trades \in Seq(Range(f.trades))
    BY <1>3, <1>4 DEF ExchangeOK
  <2> QED BY <1>4, <1>5, <2>1, <2>2, <2>3, <2>4, <2>5 DEF ExchangeOK
<1>14. PendingOK(pending', task')
  <2>1. PendingOK(pending, task)
    BY DEF AnswerInv
  <2> QED BY <1>2, <1>11, <2>1 DEF PendingOK, Latest
<1>15. sigType' \in SigTypes /\ \A v \in Callers : Call(v)' = Call(v) /\ Call(v).order \notin OrderIds
  BY <1>2 DEF AnswerInv, Call
<1>16. task' = [v \in Callers |-> task'[v]]
  BY <1>10
<1> QED BY <1>1, <1>11, <1>13, <1>14, <1>15, <1>16 DEF AnswerInv


-------------------------------------------------------------------------------
LEMMA InitAnswers == Init => AnswerInv
<1> SUFFICES ASSUME Init PROVE AnswerInv
  OBVIOUS
<1>1. PICK s \in Scripts :
        /\ script = s.calls /\ sigType = s.sigType
        /\ exchange \in [key : BOOLEAN, settled : BOOLEAN, open : {s.resting}, trades : {<<>>}, hashes : {{}},
                         orders : {{}}, frames : {{}}, filled : {<<>>}, faults : {MaxFaults}]
  BY DEF Init
<1>2. /\ exchange = [f \in EFields |-> exchange[f]] /\ exchange.open = s.resting /\ exchange.trades = <<>>
      /\ exchange.hashes = {} /\ exchange.frames = {} /\ exchange.filled = <<>>
  BY <1>1 DEF EFields
<1>3. /\ sigType \in SigTypes /\ s.resting \in Seq(Range(s.resting)) /\ Range(s.resting) \cap OrderIds = {}
      /\ \A u \in Callers : Call(u).order \notin OrderIds
  BY <1>1, ClobClientAssumption, OlderOrdersAssumption DEF Call
<1>4. ExchangeOK(exchange, task)
  <2>1. <<>> \in Seq(Range(<<>>)) /\ DOMAIN exchange.filled = {}
    BY <1>2
  <2> QED BY <1>2, <1>3, <2>1 DEF ExchangeOK
<1>5. \A u \in Callers : TaskOK(u, Call(u), Idle, exchange)
  <2>1. /\ TaskFields(Idle) /\ Idle.at = "idle" /\ Idle.tries = 0 /\ Idle.posts = 0 /\ Idle.faults = 0
        /\ Idle.result = None /\ Idle.used = 0 /\ Idle.page = 0 /\ Idle.got = <<>>
    BY DEF Idle, TaskFields, Fields
  <2>2. None # "ok" /\ None # "bad_signature"
    BY ClobClientAssumption
  <2> HIDE DEF Idle
  <2> QED BY <2>1, <2>2 DEF TaskOK, StageOK, FillOK, ListOK, RestOK
<1>6. task = [u \in Callers |-> Idle] /\ pending = {}
  BY DEF Init
<1>7. PendingOK(pending, task)
  BY <1>6 DEF PendingOK
<1> QED BY <1>3, <1>4, <1>5, <1>6, <1>7 DEF AnswerInv

LEMMA StepAnswers == AnswerInv /\ [Next]_vars => AnswerInv'
<1> SUFFICES ASSUME AnswerInv, [Next]_vars PROVE AnswerInv'
  OBVIOUS
<1>1. CASE UNCHANGED vars
  BY <1>1 DEF vars, AnswerInv, Call
<1>2. ASSUME NEW u \in Callers, Step(u) \/ Fails(u) PROVE AnswerInv'
  BY <1>2, CredsAnswers, RetryAnswers, PostAnswers, PlacedAnswers, TimeoutAnswers, LoadAnswers, PageAnswers,
     CancelAnswers DEF Step, Fails
<1> QED BY <1>1, <1>2, ReportAnswers, MatchAnswers DEF Next

(* No order is refused for its signature or as one that was sent before: what is sent is
   what was signed, for every type of wallet and either contract (place_order, trading.rs:2280, poly1271.rs:119),
   and no two attempts share a salt. *)
THEOREM SignedAsSentHolds == Spec => []SignedAsSent
<1>1. AnswerInv => SignedAsSent
  BY AnswerParts DEF SignedAsSent, TaskOK, StageOK
<1> QED BY <1>1, InitAnswers, StepAnswers, PTL DEF Spec


-------------------------------------------------------------------------------
(* The credentials. *)

\* A step that has nothing to do with them.
Aside(x, y) ==
  /\ y.at \in {"derive", "create"} => y.at = x.at /\ y.faults = x.faults
  /\ y.result = "no_creds" => x.result = "no_creds"
  /\ x.faults \in Nat /\ y.faults \in Nat /\ x.faults <= y.faults

LEMMA AsideOK ==
  ASSUME CredsOnce, UNCHANGED <<script, lock>>, exchange'.key = exchange.key,
         \A v \in Callers : Aside(task[v], task'[v])
  PROVE  CredsOnce'
<1>1. SUFFICES ASSUME \A v \in Callers : Shares(v), NEW u \in Callers
               PROVE  /\ task'[u].at \in {"derive", "create"} => lock' = u
                      /\ task'[u].at = "create" /\ task'[u].faults = 0 => exchange'.key = FALSE
                      /\ task'[u].result = "no_creds" => task'[u].faults > 0
  BY DEF CredsOnce, Shares, Call
<1>2. /\ task[u].at \in {"derive", "create"} => lock = u
      /\ task[u].at = "create" /\ task[u].faults = 0 => exchange.key = FALSE
      /\ task[u].result = "no_creds" => task[u].faults > 0
  BY <1>1 DEF CredsOnce
<1>3. Aside(task[u], task'[u])
  OBVIOUS
<1> QED BY <1>2, <1>3 DEF Aside

LEMMA AsideStirred ==
  ASSUME AnswerInv, NEW v \in Callers
  PROVE  Aside(task[v], task[v]) /\ Aside(task[v], Stirred(task[v]))
<1>1. TaskFields(task[v]) /\ task[v].faults \in Nat
  BY AnswerParts DEF TaskOK, StageOK
<1> QED BY <1>1, StirredFields DEF Aside

LEMMA AsideTasks ==
  ASSUME AnswerInv, NEW u \in Callers, NEW y, Aside(task[u], y),
         task' = [task EXCEPT ![u] = y] \/ task' = MovedTo(task, u, y)
  PROVE  \A v \in Callers : Aside(task[v], task'[v])
<1>1. task = [v \in Callers |-> task[v]]
  BY DEF AnswerInv
<1>2. CASE task' = [task EXCEPT ![u] = y]
  BY <1>1, <1>2, AsideStirred
<1>3. CASE task' = MovedTo(task, u, y)
  BY <1>3, AsideStirred DEF MovedTo
<1> QED BY <1>2, <1>3

\* A call that ends.
LEMMA AsideEnds ==
  ASSUME AnswerInv, NEW u \in Callers, NEW r, r # "no_creds",
         EndsLost(task, task', u, r) \/ EndsLost(Moves(task), task', u, r)
  PROVE  \A v \in Callers : Aside(task[v], task'[v])
<1>1. TaskFields(task[u]) /\ task[u].faults \in Nat /\ task = [v \in Callers |-> task[v]]
  BY AnswerParts DEF AnswerInv, TaskOK, StageOK
<1>2. PICK x : /\ task' = [task EXCEPT ![u] = x] \/ task' = MovedTo(task, u, x)
               /\ x.at = "done" /\ x.result = r /\ x.faults \in {task[u].faults, task[u].faults + 1}
  <2>1. CASE EndsLost(task, task', u, r)
    <3>1. \E x : /\ task' = [task EXCEPT ![u] = x] /\ TaskFields(x) /\ x.at = "done"
                 /\ x.tries = task[u].tries /\ x.posts = task[u].posts
                 /\ x.result = r /\ x.faults \in {task[u].faults, task[u].faults + 1}
      BY <1>1, <2>1, EndForms
    <3> QED BY <3>1
  <2>2. CASE EndsLost(Moves(task), task', u, r)
    <3>1. \E x : /\ task' = MovedTo(task, u, x) /\ TaskFields(x) /\ x.at = "done"
                 /\ x.tries = task[u].tries /\ x.posts = task[u].posts
                 /\ x.result = r /\ x.faults \in {task[u].faults, task[u].faults + 1}
      BY <1>1, <2>2, CancelForms
    <3> QED BY <3>1
  <2> QED BY <2>1, <2>2
<1>3. Aside(task[u], x)
  BY <1>1, <1>2 DEF Aside
<1> QED BY <1>2, <1>3, AsideTasks

\* A POST.
LEMMA AsidePosts ==
  ASSUME AnswerInv, NEW u \in Callers, PostAccepted(u) \/ PostRefused(u) \/ PostLost(u)
  PROVE  \A v \in Callers : Aside(task[v], task'[v])
<1>1. TaskFields(task[u]) /\ task[u].faults \in Nat /\ task = [v \in Callers |-> task[v]]
  BY AnswerParts DEF AnswerInv, TaskOK, StageOK
<1>2. PICK a : \/ task' = Answered(task, u, a) \/ task' = Moves(Answered(task, u, a))
               \/ task' = Fault(u, Answered(task, u, a)) \/ task' = Moves(Fault(u, Answered(task, u, a)))
  BY DEF PostAccepted, PostRefused, PostLost
<1>3. /\ Answered(task, u, a) = [task EXCEPT ![u] = PostedTask(task[u], a, 0)]
      /\ Fault(u, Answered(task, u, a)) = [task EXCEPT ![u] = PostedTask(task[u], a, 1)]
  BY <1>1, PostForms
<1>4. ASSUME NEW k \in {0, 1}, NEW t, t = [task EXCEPT ![u] = PostedTask(task[u], a, k)],
             task' = t \/ task' = Moves(t)
      PROVE  \A v \in Callers : Aside(task[v], task'[v])
  <2> DEFINE x == PostedTask(task[u], a, k)
  <2>1. /\ TaskFields(x) /\ x.at = "answered" /\ x.result = task[u].result /\ x.faults = task[u].faults + k
    BY <1>1 DEF PostedTask, TaskFields, Fields
  <2>2. /\ Stirred(x).at = "answered" /\ Stirred(x).result = task[u].result /\ Stirred(x).faults = task[u].faults + k
    BY <2>1, StirredFields
  <2>3. Aside(task[u], x) /\ Aside(task[u], Stirred(x))
    BY <1>1, <2>1, <2>2 DEF Aside
  <2>4. task' = [task EXCEPT ![u] = x] \/ task' = MovedTo(task, u, Stirred(x))
    BY <1>1, <1>4, MovesIs
  <2> HIDE DEF x
  <2> QED BY <2>3, <2>4, AsideTasks
<1>5. PICK s, t : s = Answered(task, u, a) /\ t = Fault(u, Answered(task, u, a))
  OBVIOUS
<1>6. CASE task' = s \/ task' = Moves(s)
  BY <1>3, <1>4, <1>5, <1>6
<1>7. CASE task' = t \/ task' = Moves(t)
  BY <1>3, <1>4, <1>5, <1>7
<1> QED BY <1>2, <1>5, <1>6, <1>7

\* The other steps of a call.
LEMMA AsideSteps ==
  ASSUME AnswerInv, NEW u \in Callers,
         \/ Refuse(u) \/ PostAgain(u) \/ PlaceAgain(u) \/ Placed(u)
         \/ Warm(u) \/ WarmFails(u) \/ ReadBalance(u) \/ Page(u)
  PROVE  \A v \in Callers : Aside(task[v], task'[v])
<1>1. TaskFields(task[u]) /\ task[u].faults \in Nat /\ task = [v \in Callers |-> task[v]]
  BY AnswerParts DEF AnswerInv, TaskOK, StageOK
<1>2. ASSUME NEW v \in Callers, v # u PROVE task'[v] = task[v]
  BY <1>1, <1>2 DEF Refuse, PostAgain, PlaceAgain, Placed, Warm, WarmFails, ReadBalance, Page, Goes, Fault
<1>3. /\ task'[u].at \notin {"derive", "create"} /\ task'[u].result \in {"ok", "lost", task[u].result}
      /\ task'[u].faults \in {task[u].faults, task[u].faults + 1}
  <2>1. CASE Refuse(u) \/ PostAgain(u) \/ PlaceAgain(u)
    BY <1>1, <2>1 DEF Refuse, PostAgain, PlaceAgain, Goes, TaskFields, Fields
  <2>2. CASE Placed(u)
    BY <1>1, <2>2 DEF Placed, TaskFields, Fields
  <2>3. CASE Warm(u)
    BY <1>1, <2>3 DEF Warm, AfterWarm, TaskFields, Fields
  <2>4. CASE WarmFails(u)
    BY <1>1, <2>4 DEF WarmFails, AfterWarm, Fault, TaskFields, Fields
  <2>5. CASE ReadBalance(u)
    BY <1>1, <2>5 DEF ReadBalance, TaskFields, Fields
  <2>6. CASE Page(u)
    BY <1>1, <2>6 DEF Page, TaskFields, Fields
  <2> QED BY <2>1, <2>2, <2>3, <2>4, <2>5, <2>6
<1>4. Aside(task[u], task'[u])
  BY <1>1, <1>3 DEF Aside
<1> QED BY <1>2, <1>4, AsideStirred


\* A trade.
LEMMA AsideTrades ==
  ASSUME AnswerInv, \/ \E f \in exchange.frames : Report(f)
                    \/ \E id \in Open : MakerMatch(id)
  PROVE  (\A v \in Callers : Aside(task[v], task'[v])) /\ UNCHANGED <<script, lock>> /\ exchange'.key = exchange.key
<1>1. exchange = [g \in EFields |-> exchange[g]]
  BY DEF AnswerInv, ExchangeOK
<1>2. UNCHANGED <<script, lock>> /\ exchange'.key = exchange.key
  BY <1>1 DEF Report, MakerMatch, EFields
<1>3. ASSUME NEW v \in Callers PROVE Aside(task[v], task'[v])
  <2>1. TaskFields(task[v]) /\ task[v].faults \in Nat
    BY AnswerParts DEF TaskOK, StageOK
  <2>2. \/ task'[v] = task[v] \/ task'[v] = Stirred(task[v])
        \/ \E n : task'[v] = [task[v] EXCEPT !.at = "done", !.result = "ok", !.used = n]
    <3>1. CASE \E f \in exchange.frames : Report(f)
      BY <3>1 DEF Report
    <3>2. CASE \E id \in Open : MakerMatch(id)
      BY <3>2 DEF MakerMatch, Moves, Stirred
    <3> QED BY <3>1, <3>2
  <2>3. ASSUME NEW n, task'[v] = [task[v] EXCEPT !.at = "done", !.result = "ok", !.used = n]
        PROVE  Aside(task[v], task'[v])
    <3>1. task'[v].at = "done" /\ task'[v].result = "ok" /\ task'[v].faults = task[v].faults
      BY <2>1, <2>3 DEF TaskFields, Fields
    <3> QED BY <2>1, <3>1 DEF Aside
  <2> QED BY <2>2, <2>3, AsideStirred
<1> QED BY <1>2, <1>3

\* The derivation itself: the caller that holds the lock, and those that wait for it.
LEMMA CredsOnceDerives ==
  ASSUME AnswerInv, CredsOnce, NEW u \in Callers,
         Begin(u) \/ Creds(u) \/ Lock(u) \/ Derive(u) \/ Create(u) \/ DeriveFails(u) \/ CreateFails(u)
  PROVE  CredsOnce'
<1>1. SUFFICES ASSUME \A v \in Callers : Shares(v), NEW v \in Callers
               PROVE  /\ task'[v].at \in {"derive", "create"} => lock' = v
                      /\ task'[v].at = "create" /\ task'[v].faults = 0 => exchange'.key = FALSE
                      /\ task'[v].result = "no_creds" => task'[v].faults > 0
  <2>1. UNCHANGED script
    BY DEF Begin, Creds, Lock, Derive, Create, DeriveFails, CreateFails
  <2> QED BY <2>1 DEF CredsOnce, Shares, Call
<1>2. \A w \in Callers : /\ task[w].at \in {"derive", "create"} => lock = w
                         /\ task[w].at = "create" /\ task[w].faults = 0 => exchange.key = FALSE
                         /\ task[w].result = "no_creds" => task[w].faults > 0
  BY <1>1 DEF CredsOnce
<1>3. /\ TaskFields(task[u]) /\ task[u].faults \in Nat /\ task = [w \in Callers |-> task[w]]
      /\ task[u].at # "done" => task[u].result = None
      /\ exchange = [g \in EFields |-> exchange[g]] /\ None \notin Callers
      /\ Call(u).kind # "debug" /\ Shares(u)
  BY <1>1, AnswerParts, ClobClientAssumption DEF AnswerInv, TaskOK, StageOK, Shares
<1>4. None # "no_creds"
  BY ClobClientAssumption
<1>5. CASE v # u
  <2>1. task'[v] = task[v]
    BY <1>3, <1>5 DEF Begin, Creds, Lock, Derive, Create, DeriveFails, CreateFails, HasCreds, NoCreds, Goes, Ends, Fault
  <2>2. task[v].at \in {"derive", "create"} => lock' = lock
    <3>1. SUFFICES ASSUME task[v].at \in {"derive", "create"} PROVE lock' = lock
      OBVIOUS
    <3>2. lock = v /\ lock # u /\ lock # None
      BY <1>2, <1>3, <1>5, <3>1
    <3> QED BY <3>2 DEF Begin, Creds, Lock, Derive, Create, DeriveFails, CreateFails, HasCreds, NoCreds, Released,
                        Serialises
  <2>3. task[v].at = "create" => exchange'.key = exchange.key
    <3>1. SUFFICES ASSUME task[v].at = "create" PROVE exchange'.key = exchange.key
      OBVIOUS
    <3>2. lock = v /\ task[u].at # "create"
      BY <1>2, <1>5, <3>1
    <3>3. exchange' = exchange \/ exchange' = Spent(exchange)
      BY <3>2 DEF Begin, Creds, Lock, Derive, Create, DeriveFails, CreateFails, At
    <3> QED BY <1>3, <3>3 DEF Spent, EFields
  <2> QED BY <1>2, <2>1, <2>2, <2>3
<1>6. CASE v = u
  <2>1. CASE Begin(u) \/ Creds(u)
    <3>1. /\ task'[u].at \notin {"derive", "create"} /\ task'[u].result # "no_creds"
      BY <1>3, <1>4, <2>1 DEF Begin, Creds, Goes, Ends, At, TaskFields, Fields
    <3> QED BY <1>6, <3>1
  <2>2. CASE Lock(u)
    <3>1. /\ task'[u].at \in {"ready", "derive"} /\ task'[u].result # "no_creds"
          /\ task'[u].at = "derive" => lock' = u
      BY <1>3, <1>4, <2>2 DEF Lock, Goes, At, TaskFields, Fields
    <3> QED BY <1>6, <3>1
  <2>3. CASE Derive(u)
    <3>1. lock = u /\ task[u].result = None
      BY <1>2, <1>3, <2>3 DEF Derive, At
    <3>2. CASE HasCreds(u)
      <4>1. task'[u].at = "ready" /\ task'[u].result = None
        BY <1>3, <3>1, <3>2 DEF HasCreds, Goes, TaskFields, Fields
      <4> QED BY <1>4, <1>6, <4>1
    <3>3. CASE ~exchange.key /\ Goes(u, "create") /\ UNCHANGED <<creds, lock, exchange>>
      <4>1. task'[u].at = "create" /\ task'[u].result = None
        BY <1>3, <3>1, <3>3 DEF Goes, TaskFields, Fields
      <4> QED BY <1>4, <1>6, <3>1, <3>3, <4>1
    <3> QED BY <2>3, <3>2, <3>3 DEF Derive
  <2>4. CASE Create(u)
    <3>1. lock = u /\ task[u].result = None /\ task[u].at = "create"
      BY <1>2, <1>3, <2>4 DEF Create, At
    <3>2. CASE exchange.key
      <4>1. EndsLost(task, task', u, "no_creds")
        BY <2>4, <3>2 DEF Create, NoCreds, EndsLost
      <4>2. PICK x : /\ task' = [task EXCEPT ![u] = x] /\ TaskFields(x) /\ x.at = "done"
                     /\ x.tries = task[u].tries /\ x.posts = task[u].posts
                     /\ x.result = "no_creds" /\ x.faults \in {task[u].faults, task[u].faults + 1}
        BY <1>3, <4>1, EndForms
      <4>3. task[u].faults > 0
        BY <1>2, <1>3, <3>1, <3>2
      <4>4. task'[u].at = "done" /\ task'[u].faults > 0
        BY <1>3, <4>2, <4>3
      <4> QED BY <1>6, <4>4
    <3>3. CASE ~exchange.key
      <4>1. task'[u].at = "ready" /\ task'[u].result = None
        BY <1>3, <2>4, <3>1, <3>3 DEF Create, HasCreds, Goes, TaskFields, Fields
      <4> QED BY <1>4, <1>6, <4>1
    <3> QED BY <3>2, <3>3
  <2>5. CASE DeriveFails(u)
    <3>1. lock = u
      BY <1>2, <2>5 DEF DeriveFails, At
    <3>2. CASE task' = Fault(u, [task EXCEPT ![u].at = "create"]) /\ UNCHANGED <<creds, lock>>
      <4>1. task'[u].faults = task[u].faults + 1
        BY <1>3, <3>2 DEF Fault, TaskFields, Fields
      <4> QED BY <1>3, <1>6, <3>1, <3>2, <4>1
    <3>3. CASE NoCreds(u, Fault(u, task))
      <4>1. task'[u].faults = task[u].faults + 1 /\ task'[u].at = "done"
        BY <1>3, <3>3 DEF NoCreds, Fault, TaskFields, Fields
      <4> QED BY <1>3, <1>6, <4>1
    <3> QED BY <2>5, <3>2, <3>3 DEF DeriveFails
  <2>6. CASE CreateFails(u)
    <3>1. task'[u].faults = task[u].faults + 1 /\ task'[u].at = "done"
      BY <1>3, <2>6 DEF CreateFails, NoCreds, Fault, TaskFields, Fields
    <3> QED BY <1>3, <1>6, <3>1
  <2> QED BY <2>1, <2>2, <2>3, <2>4, <2>5, <2>6
<1> QED BY <1>5, <1>6

LEMMA CredsOnceSteps == AnswerInv /\ CredsOnce /\ [Next]_vars => CredsOnce'
<1> SUFFICES ASSUME AnswerInv, CredsOnce, [Next]_vars PROVE CredsOnce'
  OBVIOUS
<1>1. CASE UNCHANGED vars
  BY <1>1 DEF vars, CredsOnce, Shares, Call
<1>2. ASSUME NEW u \in Callers,
             \/ Refuse(u) \/ PostAccepted(u) \/ PostRefused(u) \/ PostLost(u) \/ PostAgain(u) \/ PlaceAgain(u)
             \/ PlaceFails(u) \/ Placed(u) \/ WaitTimesOut(u) \/ Warm(u) \/ WarmFails(u) \/ ReadBalance(u)
             \/ ReadFails(u) \/ Page(u) \/ PageFails(u) \/ Cancel(u) \/ CancelAll(u) \/ CancelLost(u)
      PROVE  CredsOnce'
  <2>1. exchange = [g \in EFields |-> exchange[g]] /\ UNCHANGED <<script, lock>>
    BY <1>2, AnswerParts DEF Refuse, PostAccepted, PostRefused, PostLost, PostAgain, PlaceAgain, PlaceFails, Placed,
       WaitTimesOut, Warm, WarmFails, ReadBalance, ReadFails, Page, PageFails, Cancel, CancelAll, CancelLost
  <2>2. exchange'.key = exchange.key
    BY <1>2, <2>1 DEF Refuse, PostAccepted, PostRefused, PostLost, PostAgain, PlaceAgain, PlaceFails, Placed,
       WaitTimesOut, Warm, WarmFails, ReadBalance, ReadFails, Page, PageFails, Cancel, CancelAll, CancelLost,
       Accept, Spent, Warmed, Without, EFields
  <2>3. ASSUME NEW r, r # "no_creds", EndsLost(task, task', u, r) \/ EndsLost(Moves(task), task', u, r)
        PROVE  CredsOnce'
    BY <2>1, <2>2, <2>3, AsideEnds, AsideOK
  <2>4. CASE PlaceFails(u)
    <3>1. PICK r : r = IF At(u, "refused") THEN "bad_args" ELSE task[u].answer.says
      OBVIOUS
    <3>2. r # "no_creds"
      BY <2>4, <3>1, AnswerParts DEF PlaceFails, Returned, TaskOK, StageOK, Answers, At
    <3>3. EndsLost(task, task', u, r)
      BY <2>4, <3>1 DEF PlaceFails, Ends, EndsLost
    <3> QED BY <2>3, <3>2, <3>3
  <2>5. CASE WaitTimesOut(u)
    <3>1. EndsLost(task, task', u, "ok")
      BY <2>5 DEF WaitTimesOut, Ends, EndsLost
    <3> QED BY <2>3, <3>1
  <2>6. CASE ReadFails(u) \/ PageFails(u)
    <3>1. EndsLost(task, task', u, "lost")
      BY <2>6 DEF ReadFails, PageFails, EndsLost
    <3> QED BY <2>3, <3>1
  <2>7. CASE Cancel(u)
    <3>1. PICK answer : task' = [(IF answer = "canceled" THEN Moves(task) ELSE task)
                                   EXCEPT ![u].at = "done", ![u].result = CancelSays(answer)]
      BY <2>7 DEF Cancel
    <3>2. EndsLost(task, task', u, CancelSays(answer)) \/ EndsLost(Moves(task), task', u, CancelSays(answer))
      BY <3>1 DEF EndsLost
    <3>3. CancelSays(answer) # "no_creds"
      BY DEF CancelSays
    <3> QED BY <2>3, <3>2, <3>3
  <2>8. CASE CancelAll(u)
    <3>1. EndsLost(Moves(task), task', u, "ok")
      BY <2>8 DEF CancelAll, EndsLost
    <3> QED BY <2>3, <3>1
  <2>9. CASE CancelLost(u)
    <3>1. EndsLost(task, task', u, "lost") \/ EndsLost(Moves(task), task', u, "lost")
      BY <2>9 DEF CancelLost, EndsLost
    <3> QED BY <2>3, <3>1
  <2>10. CASE PostAccepted(u) \/ PostRefused(u) \/ PostLost(u)
    BY <2>1, <2>2, <2>10, AsidePosts, AsideOK
  <2>11. CASE \/ Refuse(u) \/ PostAgain(u) \/ PlaceAgain(u) \/ Placed(u)
              \/ Warm(u) \/ WarmFails(u) \/ ReadBalance(u) \/ Page(u)
    BY <2>1, <2>2, <2>11, AsideSteps, AsideOK
  <2> QED BY <1>2, <2>4, <2>5, <2>6, <2>7, <2>8, <2>9, <2>10, <2>11
<1>3. ASSUME NEW u \in Callers, Step(u) \/ Fails(u) PROVE CredsOnce'
  BY <1>2, <1>3, CredsOnceDerives DEF Step, Fails
<1>4. ASSUME \/ \E f \in exchange.frames : Report(f)
             \/ \E id \in Open : MakerMatch(id)
      PROVE  CredsOnce'
  BY <1>4, AsideTrades, AsideOK
<1> QED BY <1>1, <1>3, <1>4 DEF Next

LEMMA InitCredsOnce == Init => CredsOnce
<1> SUFFICES ASSUME Init PROVE CredsOnce
  OBVIOUS
<1>1. \A u \in Callers : task[u].at = "idle" /\ task[u].result = None
  BY DEF Init, Idle
<1> QED BY <1>1, ClobClientAssumption DEF CredsOnce

(* What a call tells when it ends is so, whoever else calls meanwhile: credentials are
   missing only after a failure (ensure_creds, trading.rs:1434), the shares a sale is sized
   with were bought by that order (FillWaitRegistry, trading.rs:844), a list that did not
   move is read whole (trading.rs:2023), a load sees the wallet (trading.rs:1858) and an
   order that was cancelled does not rest (trading.rs:2504). *)
THEOREM AnswersHoldProved == Spec => []AnswersHold
<1>1. AnswerInv /\ CredsOnce => AnswersHold
  <2> SUFFICES ASSUME AnswerInv, CredsOnce PROVE AnswersHold
    OBVIOUS
  <2>1. CredsFailWithCause
    BY DEF CredsOnce, CredsFailWithCause
  <2>2. ASSUME NEW u \in Callers
        PROVE  /\ FillOK(u, Call(u), task[u], exchange) /\ ListOK(Call(u), task[u], exchange)
               /\ RestOK(Call(u), task[u], exchange)
    BY AnswerParts DEF TaskOK
  <2>3. UsedWasFilled
    BY <2>2 DEF UsedWasFilled, FillOK, Known, Latest
  <2>4. ListingHolds
    BY <2>2 DEF ListingHolds, ListOK, RestOK, Lists, Open
  <2> QED BY <2>1, <2>3, <2>4 DEF AnswersHold
<1>2. Init => AnswerInv /\ CredsOnce
  BY InitAnswers, InitCredsOnce
<1>3. AnswerInv /\ CredsOnce /\ [Next]_vars => AnswerInv' /\ CredsOnce'
  BY StepAnswers, CredsOnceSteps
<1> QED BY <1>1, <1>2, <1>3, PTL DEF Spec
===============================================================================
