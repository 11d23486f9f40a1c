------------------------- MODULE TrailingExitProofs -------------------------
(* Proofs about TrailingExit for every set of tokens and every bound.  Under every
   combination of faults: the state keeps its types, a token is queued once and not
   while its exit runs, a queued exit never asks for more than the position, and a
   token marked as being sold has a task that will say so.  Under the faults that the
   properties allow: a trail that tripped has its exit (TripInv), arm and session cover
   the position (CoverInv), and an exit starts with no other SELL at work (AloneInv).
   At the end: the lock-free ratchet under a session, TrailingStop. *)
EXTENDS TrailingExit, TrailingStop, SequenceTheorems, FiniteSetTheorems, TLAPS

TaskType == [kind : Kinds \cup {"none"}, pc : Points, token : Token \cup {NoToken},
             lots : Nat, tries : Nat, trade : Nat]
TradeType == [token : Token, by : {"buy", "exit", "stop", "user"}, lots : Nat,
              applied : BOOLEAN, told : BOOLEAN]
RestType == [by : {"exit", "stop", "user"}, lots : Nat] \cup {NoOrder}

(* What each token's record satisfies, m telling whether the market is on. *)
Good(x, m) ==
  /\ x \in TokenState
  /\ x.queue # <<>> => Len(x.queue) = 1 /\ ~x.in_flight
  /\ m => \A i \in DOMAIN x.queue : x.queue[i] <= x.pos

(* What a handler that starts no exit makes of the record of a token. *)
Keeps(x, y, m) == Good(y, m) /\ (y.in_flight => x.in_flight)

(* A task at work has a token, one that reports a fill has its trade. *)
TaskInv ==
  \A k \in Task :
    /\ task[k].kind # "none" => task[k].token \in Token
    /\ task[k].kind = "none" => task[k].pc = "post"
    /\ task[k].pc = "ack" => task[k].trade \in DOMAIN trades

TokInv == \A t \in Token : Good(tok[t], market)

IInv == TypeOK /\ TaskInv /\ TokInv /\ InFlightBacked

-------------------------------------------------------------------------------
(* Lemmas about the operators. *)

LEMMA NatOps ==
  ASSUME NEW a \in Nat, NEW b \in Nat
  PROVE  /\ Lower(a, b) \in Nat /\ Lower(a, b) <= a /\ Lower(a, b) <= b
         /\ Higher(a, b) \in Nat /\ Higher(a, b) >= a
         /\ Minus(a, b) \in Nat /\ Minus(a, b) <= a
  BY DEF Lower, Higher, Minus

\* The fields of a record of AppState.
LEMMA Fields ==
  ASSUME NEW x \in TokenState
  PROVE  /\ x.pos \in Nat /\ x.arm \in Nat /\ x.plan \in Nat /\ x.tracked \in Nat
         /\ x.triggered \in BOOLEAN /\ x.queue \in Seq(Nat) /\ x.in_flight \in BOOLEAN
         /\ x.grace \in BOOLEAN /\ x.manual \in Nat /\ x.stop \in BOOLEAN
         /\ Live(x) \in Nat
         /\ market => Live(x) = x.pos
  BY DEF TokenState, Live

\* A change of the trail alone, of its session and its pending arm.
LEMMA TrailOnly ==
  ASSUME NEW m, NEW x, Good(x, m), NEW y \in TokenState,
         y.queue = x.queue, y.pos >= x.pos, y.in_flight = x.in_flight
  PROVE  Keeps(x, y, m)
<1>1. x.queue \in Seq(Nat) /\ x.pos \in Nat /\ y.pos \in Nat
  BY Fields DEF Good
<1>2. m => \A i \in DOMAIN x.queue : x.queue[i] \in Nat /\ x.queue[i] <= x.pos
  BY <1>1 DEF Good
<1> QED BY <1>1, <1>2 DEF Good, Keeps

\* A record whose queue is empty.
LEMMA NoQueue ==
  ASSUME NEW m, NEW x, NEW y \in TokenState, y.queue = <<>>
  PROVE  /\ Good(y, m)
         /\ (y.in_flight => x.in_flight) => Keeps(x, y, m)
  BY DEF Good, Keeps

\* remove_trailing_and_pending_arm_for_token leaves the position and the queue alone.
LEMMA NoSessionType ==
  ASSUME NEW x \in TokenState
  PROVE  /\ NoSession(x) \in TokenState
         /\ NoSession(x).queue = x.queue /\ NoSession(x).pos = x.pos
         /\ NoSession(x).in_flight = x.in_flight
  BY DEF NoSession, TokenState

LEMMA UnarmedType ==
  ASSUME NEW x \in TokenState
  PROVE  /\ Unarmed(x) \in TokenState
         /\ Unarmed(x).queue = x.queue /\ Unarmed(x).pos = x.pos
         /\ Unarmed(x).in_flight = x.in_flight
<1> DEFINE n == NoSession(x)
<1>1. n \in TokenState /\ n.queue = x.queue /\ n.pos = x.pos /\ n.in_flight = x.in_flight
  BY NoSessionType
<1>2. Unarmed(x) = [n EXCEPT !.arm = 0, !.grace = FALSE]
  BY DEF Unarmed
<1> HIDE DEF n
<1>3. ASSUME NEW u, u = [n EXCEPT !.arm = 0, !.grace = FALSE]
      PROVE  /\ u \in TokenState
             /\ u.queue = n.queue /\ u.pos = n.pos /\ u.in_flight = n.in_flight
  BY <1>1, <1>3 DEF TokenState
<1> QED BY <1>1, <1>2, <1>3

LEMMA UnarmedOK ==
  ASSUME NEW m, NEW x, Good(x, m)
  PROVE  Keeps(x, Unarmed(x), m) /\ Keeps(x, NoSession(x), m)
<1>1. x \in TokenState /\ x.pos \in Nat
  BY Fields DEF Good
<1> QED BY <1>1, NoSessionType, UnarmedType, TrailOnly

LEMMA ClearedType ==
  ASSUME NEW x \in TokenState
  PROVE  Cleared(x) \in TokenState /\ Cleared(x).queue = <<>> /\ Cleared(x).in_flight = FALSE
<1> DEFINE u == Unarmed(x)
<1>1. u \in TokenState /\ Cleared(x) = [u EXCEPT !.queue = <<>>, !.in_flight = FALSE]
  BY UnarmedType DEF Cleared
<1> HIDE DEF u
<1>2. ASSUME NEW q \in Seq(Nat), NEW c, c = [u EXCEPT !.queue = q, !.in_flight = FALSE]
      PROVE  c \in TokenState /\ c.queue = q /\ c.in_flight = FALSE
  BY <1>1, <1>2 DEF TokenState
<1>3. <<>> \in Seq(Nat)
  OBVIOUS
<1> QED BY <1>1, <1>2, <1>3, Zenon

LEMMA ClearedOK ==
  ASSUME NEW m, NEW x \in TokenState
  PROVE  Good(Cleared(x), m) /\ Cleared(x).in_flight = FALSE
  BY ClearedType, NoQueue

\* install_trailing_session.
LEMMA InstalledType ==
  ASSUME NEW x \in TokenState, NEW p \in Nat, NEW n \in Nat
  PROVE  /\ Installed(x, p, n) \in TokenState
         /\ Installed(x, p, n).queue = x.queue /\ Installed(x, p, n).pos = x.pos
         /\ Installed(x, p, n).in_flight = x.in_flight
<1> DEFINE a == x.plan + p
           b == Higher(x.tracked, n)
<1>1. x.plan \in Nat /\ x.tracked \in Nat
  BY Fields
<1>2. a \in Nat /\ b \in Nat
  BY <1>1 DEF Higher
<1>3. Installed(x, p, n) = [x EXCEPT !.plan = a, !.tracked = b, !.triggered = FALSE]
  BY DEF Installed
<1> HIDE DEF a, b
<1> QED BY <1>2, <1>3 DEF TokenState

LEMMA InstalledOK ==
  ASSUME NEW m, NEW x, Good(x, m), NEW p \in Nat, NEW n \in Nat
  PROVE  Keeps(x, Installed(x, p, n), m)
<1>1. x \in TokenState /\ x.pos \in Nat
  BY Fields DEF Good
<1> QED BY <1>1, InstalledType, TrailOnly

\* try_promote_pending_trail_token.
LEMMA PromotedOK ==
  ASSUME NEW m, NEW x, Good(x, m)
  PROVE  /\ Keeps(x, Promoted(x), m)
         /\ \A y \in MayPromote(x) : Keeps(x, y, m)
<1>1. x \in TokenState /\ x.arm \in Nat /\ x.pos \in Nat /\ x.pos >= x.pos
  BY Fields DEF Good
<1> DEFINE z == [x EXCEPT !.arm = 0]
<1>2. z \in TokenState /\ z.queue = x.queue /\ z.pos = x.pos /\ z.in_flight = x.in_flight
  BY <1>1 DEF TokenState
<1>3. Promoted(x) = Installed(z, x.arm, x.arm)
  BY DEF Promoted
<1> HIDE DEF z
<1>4. Keeps(x, Promoted(x), m)
  <2> DEFINE r == Installed(z, x.arm, x.arm)
  <2>1. r \in TokenState /\ r.queue = z.queue /\ r.pos = z.pos /\ r.in_flight = z.in_flight
    BY <1>1, <1>2, InstalledType
  <2> HIDE DEF r
  <2>2. Keeps(x, r, m)
    BY <1>1, <1>2, <2>1, TrailOnly
  <2> QED BY <1>3, <2>2 DEF r
<1>5. Keeps(x, x, m)
  BY DEF Keeps
<1> QED BY <1>4, <1>5 DEF MayPromote

\* Records whose queue is empty satisfy what a queue must.
LEMMA AfterSellOK ==
  ASSUME NEW x \in TokenState, NEW q \in Nat, x.in_flight => x.queue = <<>>
  PROVE  Keeps(x, AfterSell(x, q), market)
<1> DEFINE left == Lower(Minus(x.plan, q), Live(x))
           y == Installed(NoSession(x), left, Live(x))
<1>0. left \in Nat /\ Live(x) \in Nat /\ x.in_flight \in BOOLEAN
  BY Fields, NatOps
<1>1. CASE x.in_flight /\ left > 0
  <2>1. y \in TokenState /\ y.queue = <<>>
    BY <1>0, <1>1, NoSessionType, InstalledType
  <2>2. AfterSell(x, q) = [y EXCEPT !.grace = TRUE]
    BY <1>1 DEF AfterSell
  <2> HIDE DEF y
  <2>3. [y EXCEPT !.grace = TRUE] \in TokenState /\ [y EXCEPT !.grace = TRUE].queue = <<>>
    BY <2>1 DEF TokenState
  <2> QED BY <1>1, <2>2, <2>3, NoQueue
<1>2. CASE ~(x.in_flight /\ left > 0)
  <2>1. AfterSell(x, q) = Cleared(x)
    BY <1>2 DEF AfterSell
  <2> QED BY <2>1, ClearedOK DEF Keeps
<1> QED BY <1>1, <1>2

LEMMA SoldOK ==
  ASSUME NEW x, Good(x, market), NEW q \in Nat
  PROVE  Keeps(x, Sold(x, q), market)
<1>1. x \in TokenState /\ x.pos \in Nat /\ x.tracked \in Nat
  BY Fields DEF Good
<1>2. x.in_flight => x.queue = <<>>
  BY DEF Good
<1> DEFINE a == Minus(x.pos, q)
           b == IF x.plan > 0 THEN Minus(x.tracked, q) ELSE x.tracked
           y == [x EXCEPT !.pos = a, !.tracked = b]
<1>3. a \in Nat /\ b \in Nat
  BY <1>1, NatOps
<1>6. Sold(x, q) = AfterSell(y, q)
  BY DEF Sold
<1> HIDE DEF a, b
<1>5. y \in TokenState /\ y.queue = x.queue /\ y.in_flight = x.in_flight
  BY <1>1, <1>3 DEF TokenState
<1> HIDE DEF y
<1>7. Keeps(y, AfterSell(y, q), market)
  BY <1>2, <1>5, AfterSellOK
<1> QED BY <1>5, <1>6, <1>7 DEF Keeps

LEMMA BoughtOK ==
  ASSUME NEW x, Good(x, market), NEW q \in Nat
  PROVE  Keeps(x, Bought(x, q), market)
<1>1. x \in TokenState /\ x.pos \in Nat /\ x.tracked \in Nat
  BY Fields DEF Good
<1>2. CASE market
  <2> DEFINE p == x.pos + q
             u == Unarmed(x)
  <2>1. p \in Nat /\ p >= x.pos
    BY <1>1
  <2>2. u \in TokenState /\ u.queue = x.queue /\ u.in_flight = x.in_flight
    BY <1>1, UnarmedType
  <2>3. Bought(x, q) = [u EXCEPT !.pos = p, !.arm = p]
    BY <1>2 DEF Bought
  <2> HIDE DEF u, p
  <2>4. ASSUME NEW y, y = [u EXCEPT !.pos = p, !.arm = p]
        PROVE  y \in TokenState /\ y.queue = u.queue /\ y.pos = p /\ y.in_flight = u.in_flight
    BY <2>1, <2>2, <2>4 DEF TokenState
  <2> QED BY <2>1, <2>2, <2>3, <2>4, TrailOnly
<1>3. CASE ~market
  <2> DEFINE n == IF x.plan > 0 THEN x.tracked + q ELSE x.tracked
  <2>1. n \in Nat
    BY <1>1
  <2>2. Bought(x, q) = [x EXCEPT !.tracked = n]
    BY <1>3 DEF Bought
  <2> HIDE DEF n
  <2>3. ASSUME NEW y, y = [x EXCEPT !.tracked = n]
        PROVE  y \in TokenState /\ y.queue = x.queue /\ y.pos = x.pos /\ y.in_flight = x.in_flight
    BY <1>1, <2>1, <2>3 DEF TokenState
  <2> QED BY <1>1, <2>2, <2>3, TrailOnly
<1> QED BY <1>2, <1>3

\* apply_trailing_book_tick.
LEMMA TrippedOK ==
  ASSUME NEW t \in Token, NEW x, Good(x, market), NEW z \in Tripped(t, x)
  PROVE  Keeps(x, z, market)
<1> DEFINE y == [x EXCEPT !.triggered = TRUE]
           sh == Lower(Live(x), x.plan)
           w == [y EXCEPT !.queue = Append(y.queue, sh)]
<1>1. /\ x \in TokenState /\ x.pos \in Nat /\ x.pos >= x.pos /\ x.queue \in Seq(Nat)
      /\ Live(x) \in Nat /\ x.plan \in Nat /\ (market => Live(x) = x.pos)
  BY Fields DEF Good
<1>2. /\ y \in TokenState /\ y.queue = x.queue /\ y.pos = x.pos /\ y.in_flight = x.in_flight
  BY <1>1 DEF TokenState
<1>3. /\ z \in {Unarmed(y), Cleared(y), w}
      /\ x.queue = <<>> /\ ~x.in_flight
  BY DEF Tripped, Busy
<1>4. sh \in Nat /\ (market => sh <= x.pos)
  BY <1>1, NatOps
<1> HIDE DEF sh
<1>5. Keeps(x, w, market)
  <2> DEFINE q == Append(y.queue, sh)
  <2>1. q \in Seq(Nat) /\ Len(q) = 1 /\ DOMAIN q = {1} /\ q[1] = sh /\ q # <<>>
    <3>1. y.queue \in Seq(Nat) /\ Len(y.queue) = 0
      BY <1>1, <1>2, <1>3, EmptySeq
    <3>2. q \in Seq(Nat) /\ q # <<>> /\ Len(q) = 1 /\ q[1] = sh
      <4> HIDE DEF y
      <4> QED BY <1>4, <3>1, AppendProperties
    <3> QED BY <3>2, LenProperties
  <2> HIDE DEF q, y
  <2>2. ASSUME NEW r, r = [y EXCEPT !.queue = q]
        PROVE  r \in TokenState /\ r.queue = q /\ r.pos = y.pos /\ r.in_flight = y.in_flight
    BY <1>2, <2>1, <2>2 DEF TokenState
  <2>3. w \in TokenState /\ w.queue = q /\ w.pos = x.pos /\ w.in_flight = x.in_flight
    BY <1>2, <2>2 DEF q
  <2> HIDE DEF w
  <2> QED BY <1>3, <1>4, <2>1, <2>3 DEF Good, Keeps
<1>6. Keeps(x, Unarmed(y), market)
  <2>1. Unarmed(y) \in TokenState /\ Unarmed(y).queue = x.queue /\ Unarmed(y).pos = x.pos
        /\ Unarmed(y).in_flight = x.in_flight
    BY <1>2, UnarmedType
  <2> QED BY <1>1, <2>1, TrailOnly
<1>7. Keeps(x, Cleared(y), market)
  BY <1>2, ClearedOK DEF Keeps
<1> QED BY <1>3, <1>5, <1>6, <1>7

\* An entry leaves the queue as its exit starts.
LEMMA DispatchedOK ==
  ASSUME NEW m, NEW x, Good(x, m), x.queue # <<>>
  PROVE  Good(Dispatched(x), m) /\ Head(x.queue) \in Nat
<1>1. x \in TokenState /\ x.queue \in Seq(Nat) /\ Len(x.queue) = 1
  BY Fields DEF Good
<1> DEFINE q == Tail(x.queue)
<1>2. q \in Seq(Nat) /\ Len(q) = 0 /\ Head(x.queue) \in Nat
  BY <1>1, HeadTailProperties
<1>3. q = <<>>
  BY <1>2, EmptySeq
<1> HIDE DEF q
<1>4. ASSUME NEW y, y = [x EXCEPT !.queue = q, !.in_flight = TRUE]
      PROVE  y \in TokenState /\ y.queue = q
  BY <1>1, <1>2, <1>4 DEF TokenState
<1>5. Dispatched(x) \in TokenState /\ Dispatched(x).queue = <<>>
  BY <1>3, <1>4 DEF Dispatched, q
<1> QED BY <1>2, <1>5, NoQueue

\* TrailingExitDispatchDone.
LEMMA ExitDoneOK ==
  ASSUME NEW m, NEW x, Good(x, m), NEW success \in BOOLEAN
  PROVE  Good(ExitDone(x, success), m) /\ ExitDone(x, success).in_flight = FALSE
<1> DEFINE y == [x EXCEPT !.queue = <<>>, !.in_flight = FALSE]
           n == [NoSession(y) EXCEPT !.grace = FALSE]
           i == Installed(NoSession(y), x.plan, Live(x))
<1>1. x \in TokenState /\ x.plan \in Nat /\ Live(x) \in Nat
  BY Fields DEF Good
<1>2. ASSUME NEW q \in Seq(Nat), NEW r, r = [x EXCEPT !.queue = q, !.in_flight = FALSE]
      PROVE  r \in TokenState /\ r.queue = q /\ r.in_flight = FALSE
  BY <1>1, <1>2 DEF TokenState
<1>3. <<>> \in Seq(Nat)
  OBVIOUS
<1>4. y \in TokenState /\ y.queue = <<>> /\ y.in_flight = FALSE
  BY <1>2, <1>3, Zenon
<1>5. ExitDone(x, success) \in {n, y, i}
  BY DEF ExitDone
<1> HIDE DEF y
<1>6. /\ NoSession(y) \in TokenState /\ NoSession(y).queue = <<>>
      /\ NoSession(y).in_flight = FALSE
  BY <1>4, NoSessionType
<1>7. i \in TokenState /\ i.queue = <<>> /\ i.in_flight = FALSE
  BY <1>1, <1>6, InstalledType
<1>8. n \in TokenState /\ n.queue = <<>> /\ n.in_flight = FALSE
  <2> DEFINE s == NoSession(y)
  <2>1. s \in TokenState /\ s.queue = <<>> /\ s.in_flight = FALSE
    BY <1>6
  <2> HIDE DEF s
  <2>2. ASSUME NEW r, r = [s EXCEPT !.grace = FALSE]
        PROVE  r \in TokenState /\ r.queue = s.queue /\ r.in_flight = s.in_flight
    BY <2>1, <2>2 DEF TokenState
  <2> QED BY <2>1, <2>2 DEF s
<1> HIDE DEF n, i
<1> QED BY <1>4, <1>5, <1>7, <1>8, NoQueue

\* PositionsLoaded: the position grows at most, and the trail starts again.
LEMMA RehydratedOK ==
  ASSUME NEW m, NEW x, Good(x, m)
  PROVE  Keeps(x, Rehydrated(x), m)
<1>1. x \in TokenState /\ x.pos \in Nat /\ x.pos >= x.pos
  BY Fields DEF Good
<1>2. Keeps(x, Cleared(x), m)
  BY <1>1, ClearedOK DEF Keeps
<1>3. Keeps(x, [x EXCEPT !.arm = 0], m)
  <2>1. ASSUME NEW r, r = [x EXCEPT !.arm = 0]
        PROVE  r \in TokenState /\ r.queue = x.queue /\ r.pos = x.pos /\ r.in_flight = x.in_flight
    BY <1>1, <2>1 DEF TokenState
  <2> QED BY <1>1, <2>1, TrailOnly
<1>4. Keeps(x, [Cleared(x) EXCEPT !.arm = x.pos], m)
  <2> DEFINE c == Cleared(x)
  <2>1. c \in TokenState /\ c.queue = <<>> /\ c.in_flight = FALSE
    BY <1>1, ClearedType DEF c
  <2> HIDE DEF c
  <2>2. ASSUME NEW r, r = [c EXCEPT !.arm = x.pos]
        PROVE  r \in TokenState /\ r.queue = c.queue /\ r.in_flight = c.in_flight
    BY <1>1, <2>1, <2>2 DEF TokenState
  <2> QED BY <2>1, <2>2, NoQueue DEF c
<1> QED BY <1>2, <1>3, <1>4 DEF Rehydrated

-------------------------------------------------------------------------------
(* Lemmas about the steps. *)

ExitsStay ==
  \A j \in Task : task[j].kind = "exit" => task'[j].kind = "exit" /\ task'[j].token = task[j].token

LEMMA Parts ==
  TypeOK <=> /\ market \in BOOLEAN /\ loading \in BOOLEAN
             /\ tok \in [Token -> TokenState]
             /\ task \in [Task -> TaskType]
             /\ trades \in Seq(TradeType)
             /\ held \in [Token -> Nat]
             /\ rest \in [Token -> RestType]
  BY DEF TypeOK, TaskType, TradeType, RestType

\* One task changes.
LEMMA TaskChange ==
  ASSUME task \in [Task -> TaskType], TaskInv, DOMAIN trades \subseteq DOMAIN trades',
         NEW k \in Task, NEW r \in TaskType, task' = [task EXCEPT ![k] = r],
         r.kind # "none" => r.token \in Token,
         r.kind = "none" => r.pc = "post",
         r.pc = "ack" => r.trade \in DOMAIN trades'
  PROVE  /\ task' \in [Task -> TaskType] /\ TaskInv'
         /\ (task[k].kind = "exit" => r.kind = "exit" /\ r.token = task[k].token) => ExitsStay
<1>1. task' \in [Task -> TaskType] /\ task'[k] = r /\ \A j \in Task \ {k} : task'[j] = task[j]
  OBVIOUS
<1>2. TaskInv'
  <2> SUFFICES ASSUME NEW j \in Task
               PROVE  /\ task'[j].kind # "none" => task'[j].token \in Token
                      /\ task'[j].kind = "none" => task'[j].pc = "post"
                      /\ task'[j].pc = "ack" => task'[j].trade \in DOMAIN trades'
    BY DEF TaskInv, Task
  <2> QED BY <1>1 DEF TaskInv
<1>3. (task[k].kind = "exit" => r.kind = "exit" /\ r.token = task[k].token) => ExitsStay
  BY <1>1 DEF ExitsStay
<1> QED BY <1>1, <1>2, <1>3

\* No task changes, while trades may come.
LEMMA TaskSame ==
  ASSUME TypeOK, TaskInv, DOMAIN trades \subseteq DOMAIN trades', UNCHANGED task
  PROVE  task' \in [Task -> TaskType] /\ TaskInv' /\ ExitsStay
<1>1. task' \in [Task -> TaskType]
  BY Parts
<1> QED BY <1>1 DEF TaskInv, ExitsStay, Task

\* A task of a given kind starts.
LEMMA StartedOK ==
  ASSUME TypeOK, TaskInv, DOMAIN trades \subseteq DOMAIN trades',
         NEW kind \in Kinds, NEW pc \in Points, NEW t \in Token, NEW n \in Nat, NEW tr \in Nat,
         pc = "ack" => tr \in DOMAIN trades',
         Started(kind, pc, t, n, tr)
  PROVE  /\ task' \in [Task -> TaskType] /\ TaskInv' /\ ExitsStay
         /\ \E k \in Task : task'[k].kind = kind /\ task'[k].token = t
<1> DEFINE r == [kind |-> kind, pc |-> pc, token |-> t, lots |-> n, tries |-> 0, trade |-> tr]
<1>1. PICK k \in Free : task' = [task EXCEPT ![k] = r]
  BY DEF Started
<1>2. k \in Task /\ task[k].kind = "none"
  BY <1>1 DEF Free, Off
<1>3. r \in TaskType /\ r.kind = kind /\ r.token = t /\ r.pc = pc /\ r.trade = tr /\ kind # "none"
  BY DEF TaskType, Kinds
<1>4. task \in [Task -> TaskType]
  BY Parts
<1> HIDE DEF r
<1>5. task'[k] = r
  BY <1>1, <1>2, <1>4
<1>6. task' \in [Task -> TaskType] /\ TaskInv' /\ ExitsStay
  BY <1>1, <1>2, <1>3, <1>4, TaskChange
<1> QED BY <1>2, <1>3, <1>5, <1>6

\* A task goes on, or repeats its POST.
LEMMA MovedOK ==
  ASSUME TypeOK, TaskInv, DOMAIN trades \subseteq DOMAIN trades', NEW k \in Task,
         task[k].kind # "none", NEW pc \in Points \ {"ack"},
         Goto(k, pc) \/ (Repeat(k) /\ task[k].pc = "post")
  PROVE  task' \in [Task -> TaskType] /\ TaskInv' /\ ExitsStay
<1>1. task \in [Task -> TaskType] /\ task[k] \in TaskType /\ task[k].token \in Token
  BY Parts DEF TaskInv
<1>2. PICK r : /\ task' = [task EXCEPT ![k] = r]
               /\ \/ \E p \in Points \ {"ack"} : r = [task[k] EXCEPT !.pc = p]
                  \/ r = [task[k] EXCEPT !.tries = task[k].tries + 1] /\ task[k].pc = "post"
  BY DEF Goto, Repeat, Points
<1>3. r \in TaskType /\ r.kind = task[k].kind /\ r.token = task[k].token /\ r.pc # "ack"
  BY <1>1, <1>2 DEF TaskType, Points
<1> QED BY <1>1, <1>2, <1>3, TaskChange

\* A task is told of the trade its order made.
LEMMA AckOK ==
  ASSUME TypeOK, TaskInv, DOMAIN trades \subseteq DOMAIN trades', NEW k \in Task,
         task[k].kind # "none", NEW q \in Nat, NEW n \in Nat, n \in DOMAIN trades',
         task' = [task EXCEPT ![k].pc = "ack", ![k].lots = q, ![k].trade = n]
  PROVE  task' \in [Task -> TaskType] /\ TaskInv' /\ ExitsStay
<1>1. task \in [Task -> TaskType] /\ task[k] \in TaskType /\ task[k].token \in Token
  BY Parts DEF TaskInv
<1> DEFINE r == [task[k] EXCEPT !.pc = "ack", !.lots = q, !.trade = n]
<1>2. task' = [task EXCEPT ![k] = r]
  BY <1>1
<1>3. r \in TaskType /\ r.kind = task[k].kind /\ r.token = task[k].token /\ r.trade = n
  BY <1>1 DEF TaskType, Points
<1> HIDE DEF r
<1> QED BY <1>1, <1>2, <1>3, TaskChange

LEMMA ExecuteOK ==
  ASSUME TypeOK, NEW t \in Token, NEW by \in {"buy", "exit", "stop", "user"}, NEW q \in Nat,
         by # "buy" => q <= held[t], Execute(t, by, q)
  PROVE  /\ trades' \in Seq(TradeType) /\ held' \in [Token -> Nat]
         /\ Len(trades') \in Nat /\ Len(trades') \in DOMAIN trades'
         /\ DOMAIN trades \subseteq DOMAIN trades'
<1>1. trades \in Seq(TradeType) /\ held \in [Token -> Nat]
  BY Parts
<1> DEFINE e == Trade(t, by, q)
<1>2. e \in TradeType
  BY DEF Trade, TradeType
<1>3. trades' = Append(trades, e) /\ held' = [held EXCEPT ![t] = IF by = "buy" THEN @ + q ELSE @ - q]
  BY DEF Execute
<1> HIDE DEF e
<1>4. trades' \in Seq(TradeType) /\ Len(trades') = Len(trades) + 1
  BY <1>1, <1>2, <1>3, AppendProperties
<1>5. /\ Len(trades) \in Nat /\ DOMAIN trades = 1..Len(trades)
      /\ DOMAIN trades' = 1..Len(trades')
  BY <1>1, <1>4, LenProperties
<1>6. held' \in [Token -> Nat]
  BY <1>1, <1>3
<1> QED BY <1>4, <1>5, <1>6

LEMMA FilledOK ==
  ASSUME NEW o \in RestType \ {NoOrder}, NEW q \in Nat, q <= o.lots
  PROVE  Filled(o, q) \in RestType
<1> DEFINE n == o.lots - q
<1>1. n \in Nat
  BY DEF RestType
<1>2. Filled(o, q) = IF q = o.lots THEN NoOrder ELSE [o EXCEPT !.lots = n]
  BY DEF Filled
<1> HIDE DEF n
<1> QED BY <1>1, <1>2 DEF RestType

\* A step that leaves AppState alone.
LEMMA Elsewhere ==
  ASSUME IInv, UNCHANGED <<market, loading, tok>>,
         task' \in [Task -> TaskType], TaskInv', ExitsStay,
         trades' \in Seq(TradeType), held' \in [Token -> Nat], rest' \in [Token -> RestType]
  PROVE  IInv'
<1>1. TypeOK' <=> /\ market' \in BOOLEAN /\ loading' \in BOOLEAN
                  /\ tok' \in [Token -> TokenState]
                  /\ task' \in [Task -> TaskType]
                  /\ trades' \in Seq(TradeType)
                  /\ held' \in [Token -> Nat]
                  /\ rest' \in [Token -> RestType]
  BY DEF TypeOK, TaskType, TradeType, RestType
<1>2. TypeOK'
  BY <1>1, Parts DEF IInv
<1>3. TokInv'
  BY DEF IInv, TokInv
<1>4. InFlightBacked'
  BY DEF IInv, InFlightBacked, Tasks, ExitsStay, Task
<1> QED BY <1>2, <1>3, <1>4 DEF IInv

\* A step of the event loop within a market.
LEMMA Handled ==
  ASSUME IInv, UNCHANGED <<market, loading, held, rest>>,
         tok' \in [Token -> TokenState],
         \A t \in Token :
           /\ Good(tok'[t], market)
           /\ tok'[t].in_flight =>
                \/ tok[t].in_flight
                \/ \E k \in Task : task'[k].kind = "exit" /\ task'[k].token = t,
         task' \in [Task -> TaskType], TaskInv', ExitsStay, trades' \in Seq(TradeType)
  PROVE  IInv'
<1>1. TypeOK' <=> /\ market' \in BOOLEAN /\ loading' \in BOOLEAN
                  /\ tok' \in [Token -> TokenState]
                  /\ task' \in [Task -> TaskType]
                  /\ trades' \in Seq(TradeType)
                  /\ held' \in [Token -> Nat]
                  /\ rest' \in [Token -> RestType]
  BY DEF TypeOK, TaskType, TradeType, RestType
<1>2. TypeOK'
  BY <1>1, Parts DEF IInv
<1>3. TokInv'
  BY DEF IInv, TokInv
<1>4. InFlightBacked'
  BY DEF IInv, InFlightBacked, Tasks, ExitsStay, Task
<1> QED BY <1>2, <1>3, <1>4 DEF IInv

-------------------------------------------------------------------------------
(* The steps, one by one. *)

\* The exchange.
LEMMA ExchangeKeeps ==
  ASSUME IInv, NEW t \in Token,
         \/ \E atOnce \in BOOLEAN : BuyFilled(t, atOnce)
         \/ LimitSell(t) \/ RestFilled(t) \/ RestCancelled(t)
  PROVE  IInv'
<1>0. /\ TypeOK /\ TaskInv /\ trades \in Seq(TradeType)
      /\ held \in [Token -> Nat] /\ rest \in [Token -> RestType]
  BY Parts DEF IInv
<1>1. CASE \E atOnce \in BOOLEAN : BuyFilled(t, atOnce)
  <2>1. PICK atOnce \in BOOLEAN : BuyFilled(t, atOnce)
    BY <1>1
  <2>2. Execute(t, "buy", Lot) /\ Lot \in Nat
    BY <2>1, TrailingExitAssumption DEF BuyFilled
  <2>3. /\ trades' \in Seq(TradeType) /\ held' \in [Token -> Nat] /\ Len(trades') \in Nat
        /\ Len(trades') \in DOMAIN trades' /\ DOMAIN trades \subseteq DOMAIN trades'
    BY <1>0, <2>2, ExecuteOK
  <2>4. task' \in [Task -> TaskType] /\ TaskInv' /\ ExitsStay
    <3>1. CASE atOnce
      <4>1. Started("buy", "ack", t, Lot, Len(trades'))
        BY <2>1, <3>1 DEF BuyFilled
      <4> QED BY <1>0, <2>2, <2>3, <4>1, StartedOK DEF Kinds, Points
    <3>2. CASE ~atOnce
      BY <1>0, <2>1, <2>3, <3>2, TaskSame DEF BuyFilled
    <3> QED BY <3>1, <3>2
  <2> QED BY <1>0, <2>1, <2>3, <2>4, Elsewhere DEF BuyFilled
<1>2. CASE LimitSell(t)
  <2>1. PICK q \in 1..held[t] : rest' = [rest EXCEPT ![t] = [by |-> "user", lots |-> q]]
    BY <1>2 DEF LimitSell
  <2>2. q \in Nat
    BY <1>0, <2>1
  <2>3. rest' \in [Token -> RestType]
    BY <1>0, <2>1, <2>2 DEF RestType
  <2>4. UNCHANGED <<market, loading, tok, task, trades, held>>
    BY <1>2 DEF LimitSell
  <2> QED BY <1>0, <2>3, <2>4, TaskSame, Elsewhere
<1>3. CASE RestFilled(t)
  <2>1. PICK q \in 1..Lower(rest[t].lots, held[t]) :
          /\ Execute(t, rest[t].by, q)
          /\ rest' = [rest EXCEPT ![t] = Filled(@, q)]
    BY <1>3 DEF RestFilled
  <2>2. rest[t] \in RestType /\ rest[t].lots \in Nat /\ held[t] \in Nat
    BY <1>0 DEF RestType, NoOrder
  <2>3. q \in Nat /\ q > 0 /\ q <= rest[t].lots /\ q <= held[t]
    <3> DEFINE l == Lower(rest[t].lots, held[t])
    <3>1. l \in Nat /\ l <= rest[t].lots /\ l <= held[t]
      BY <2>2, NatOps
    <3>2. q \in 1..l
      BY <2>1
    <3> HIDE DEF l
    <3> QED BY <2>2, <3>1, <3>2
  <2>4. rest' \in [Token -> RestType]
    <3>1. rest[t] # NoOrder
      BY <2>2, <2>3 DEF NoOrder
    <3>2. Filled(rest[t], q) \in RestType
      BY <2>2, <2>3, <3>1, FilledOK
    <3> QED BY <1>0, <2>1, <3>2
  <2>5. rest[t].by \in {"buy", "exit", "stop", "user"}
    BY <2>2, <2>3, <2>1 DEF RestType, NoOrder
  <2>6. /\ trades' \in Seq(TradeType) /\ held' \in [Token -> Nat]
        /\ DOMAIN trades \subseteq DOMAIN trades'
    BY <1>0, <2>1, <2>3, <2>5, ExecuteOK
  <2>7. UNCHANGED <<market, loading, tok, task>>
    BY <1>3 DEF RestFilled
  <2> QED BY <1>0, <2>4, <2>6, <2>7, TaskSame, Elsewhere
<1>4. CASE RestCancelled(t)
  <2>1. rest' \in [Token -> RestType]
    BY <1>0, <1>4 DEF RestCancelled, RestType, NoOrder
  <2>2. UNCHANGED <<market, loading, tok, task, trades, held>>
    BY <1>4 DEF RestCancelled
  <2> QED BY <1>0, <2>1, <2>2, TaskSame, Elsewhere
<1> QED BY <1>1, <1>2, <1>3, <1>4

\* The order tasks, up to the report of their POST.
LEMMA TasksKeep ==
  ASSUME IInv, NEW k \in Task,
         \/ ExitRefused(k) \/ ExitFilled(k) \/ ExitRests(k)
         \/ StopPosted(k) \/ StopRefused(k) \/ ManualPosted(k)
  PROVE  IInv'
<1> DEFINE t == task[k].token
<1>0. /\ TypeOK /\ TaskInv /\ trades \in Seq(TradeType)
      /\ held \in [Token -> Nat] /\ rest \in [Token -> RestType]
      /\ task \in [Task -> TaskType] /\ task[k] \in TaskType
  BY Parts DEF IInv
<1>1. /\ task[k].kind # "none" /\ task[k].pc = "post" /\ t \in Token
      /\ task[k].lots \in Nat /\ held[t] \in Nat
      /\ UNCHANGED <<market, loading, tok>>
  <2>1. /\ task[k].kind # "none" /\ task[k].pc = "post" /\ UNCHANGED <<market, loading, tok>>
    BY DEF ExitRefused, ExitFilled, ExitRests, StopPosted, StopRefused, ManualPosted, At
  <2>2. t \in Token /\ task[k].lots \in Nat
    BY <1>0, <2>1 DEF TaskInv, TaskType
  <2> QED BY <1>0, <2>1, <2>2
<1> HIDE DEF t
\* What a fill at the POST leaves behind.
<1>2. ASSUME NEW q \in 1..Lower(task[k].lots, held[t]), NEW by \in {"exit", "stop", "user"},
             Execute(t, by, q)
      PROVE  /\ q \in Nat /\ q <= task[k].lots
             /\ trades' \in Seq(TradeType) /\ held' \in [Token -> Nat] /\ Len(trades') \in Nat
             /\ Len(trades') \in DOMAIN trades' /\ DOMAIN trades \subseteq DOMAIN trades'
  <2>1. q \in Nat /\ q <= held[t] /\ q <= task[k].lots
    BY <1>1, <1>2, NatOps
  <2> QED BY <1>0, <1>1, <1>2, <2>1, ExecuteOK
<1>3. ASSUME NEW n \in Nat, NEW by \in {"exit", "stop"}
      PROVE  [rest EXCEPT ![t] = [by |-> by, lots |-> n]] \in [Token -> RestType]
  BY <1>0 DEF RestType
<1>4. [rest EXCEPT ![t] = NoOrder] \in [Token -> RestType]
  BY <1>0 DEF RestType, NoOrder
<1>5. CASE ExitRefused(k)
  <2>1. Repeat(k) /\ UNCHANGED <<trades, held, rest>>
    BY <1>5 DEF ExitRefused
  <2>2. task' \in [Task -> TaskType] /\ TaskInv' /\ ExitsStay
    BY <1>0, <1>1, <2>1, MovedOK DEF Points
  <2> QED BY <1>0, <1>1, <2>1, <2>2, Elsewhere
<1>6. CASE ExitFilled(k)
  <2>1. PICK q \in 1..Lower(task[k].lots, held[t]) :
          /\ Execute(t, "exit", q)
          /\ \/ task' = [task EXCEPT ![k].pc = "ack", ![k].lots = q, ![k].trade = Len(trades')]
             \/ "lost_response" \in scenario.faults /\ Repeat(k)
    BY <1>6 DEF ExitFilled, t
  <2>2. /\ q \in Nat
        /\ trades' \in Seq(TradeType) /\ held' \in [Token -> Nat] /\ Len(trades') \in Nat
        /\ Len(trades') \in DOMAIN trades' /\ DOMAIN trades \subseteq DOMAIN trades'
    BY <1>2, <2>1
  <2>3. task' \in [Task -> TaskType] /\ TaskInv' /\ ExitsStay
    <3>1. CASE task' = [task EXCEPT ![k].pc = "ack", ![k].lots = q, ![k].trade = Len(trades')]
      BY <1>0, <1>1, <2>2, <3>1, AckOK
    <3>2. CASE Repeat(k)
      BY <1>0, <1>1, <2>2, <3>2, MovedOK DEF Points
    <3> QED BY <2>1, <3>1, <3>2
  <2>4. UNCHANGED rest
    BY <1>6 DEF ExitFilled
  <2> QED BY <1>0, <1>1, <2>2, <2>3, <2>4, Elsewhere
<1>7. CASE ExitRests(k)
  <2>1. /\ rest' = [rest EXCEPT ![t] = [by |-> "exit", lots |-> task[k].lots]]
        /\ Goto(k, "done") /\ UNCHANGED <<trades, held>>
    BY <1>7 DEF ExitRests, t
  <2>2. task' \in [Task -> TaskType] /\ TaskInv' /\ ExitsStay
    BY <1>0, <1>1, <2>1, MovedOK DEF Points
  <2>3. rest' \in [Token -> RestType]
    BY <1>1, <1>3, <2>1
  <2> QED BY <1>0, <1>1, <2>1, <2>2, <2>3, Elsewhere
<1>8. CASE StopPosted(k)
  <2>1. CASE \E q \in 1..Lower(task[k].lots, held[t]) :
               /\ Execute(t, "stop", q)
               /\ task' = [task EXCEPT ![k].pc = "ack", ![k].lots = q, ![k].trade = Len(trades')]
               /\ rest' = [rest EXCEPT ![t] =
                             Filled([by |-> "stop", lots |-> task[k].lots], q)]
    <3>1. PICK q \in 1..Lower(task[k].lots, held[t]) :
               /\ Execute(t, "stop", q)
               /\ task' = [task EXCEPT ![k].pc = "ack", ![k].lots = q, ![k].trade = Len(trades')]
               /\ rest' = [rest EXCEPT ![t] =
                             Filled([by |-> "stop", lots |-> task[k].lots], q)]
      BY <2>1
    <3>2. /\ q \in Nat /\ q <= task[k].lots
          /\ trades' \in Seq(TradeType) /\ held' \in [Token -> Nat] /\ Len(trades') \in Nat
          /\ Len(trades') \in DOMAIN trades' /\ DOMAIN trades \subseteq DOMAIN trades'
      BY <1>2, <3>1
    <3>3. task' \in [Task -> TaskType] /\ TaskInv' /\ ExitsStay
      BY <1>0, <1>1, <3>1, <3>2, AckOK
    <3>4. rest' \in [Token -> RestType]
      <4> DEFINE o == [by |-> "stop", lots |-> task[k].lots]
      <4>1. o \in RestType \ {NoOrder} /\ q <= o.lots
        BY <1>1, <3>2 DEF RestType, NoOrder
      <4>2. rest' = [rest EXCEPT ![t] = Filled(o, q)]
        BY <3>1
      <4> HIDE DEF o
      <4>3. Filled(o, q) \in RestType
        BY <3>2, <4>1, FilledOK
      <4> QED BY <1>0, <4>2, <4>3
    <3> QED BY <1>0, <1>1, <3>2, <3>3, <3>4, Elsewhere
  <2>2. CASE /\ rest' = [rest EXCEPT ![t] = [by |-> "stop", lots |-> task[k].lots]]
             /\ Goto(k, "done") /\ UNCHANGED <<trades, held>>
    <3>1. task' \in [Task -> TaskType] /\ TaskInv' /\ ExitsStay
      BY <1>0, <1>1, <2>2, MovedOK DEF Points
    <3>2. rest' \in [Token -> RestType]
      BY <1>1, <1>3, <2>2
    <3> QED BY <1>0, <1>1, <2>2, <3>1, <3>2, Elsewhere
  <2> QED BY <1>8, <2>1, <2>2 DEF StopPosted, t
<1>9. CASE StopRefused(k)
  <2>1. /\ rest' \in {rest, [rest EXCEPT ![t] = NoOrder]}
        /\ Goto(k, "fail") /\ UNCHANGED <<trades, held>>
    BY <1>9 DEF StopRefused, t
  <2>2. task' \in [Task -> TaskType] /\ TaskInv' /\ ExitsStay
    BY <1>0, <1>1, <2>1, MovedOK DEF Points
  <2> QED BY <1>0, <1>1, <1>4, <2>1, <2>2, Elsewhere
<1>10. CASE ManualPosted(k)
  <2>1. UNCHANGED rest
    BY <1>10 DEF ManualPosted
  <2>2. CASE \E q \in 1..Lower(task[k].lots, held[t]) :
               /\ Execute(t, "user", q)
               /\ task' = [task EXCEPT ![k].pc = "ack", ![k].lots = q, ![k].trade = Len(trades')]
    <3>1. PICK q \in 1..Lower(task[k].lots, held[t]) :
               /\ Execute(t, "user", q)
               /\ task' = [task EXCEPT ![k].pc = "ack", ![k].lots = q, ![k].trade = Len(trades')]
      BY <2>2
    <3>2. /\ q \in Nat
          /\ trades' \in Seq(TradeType) /\ held' \in [Token -> Nat] /\ Len(trades') \in Nat
          /\ Len(trades') \in DOMAIN trades' /\ DOMAIN trades \subseteq DOMAIN trades'
      BY <1>2, <3>1
    <3>3. task' \in [Task -> TaskType] /\ TaskInv' /\ ExitsStay
      BY <1>0, <1>1, <3>1, <3>2, AckOK
    <3> QED BY <1>0, <1>1, <2>1, <3>2, <3>3, Elsewhere
  <2>3. CASE Goto(k, "done") /\ UNCHANGED <<trades, held>>
    <3>1. task' \in [Task -> TaskType] /\ TaskInv' /\ ExitsStay
      BY <1>0, <1>1, <2>3, MovedOK DEF Points
    <3> QED BY <1>0, <1>1, <2>1, <2>3, <3>1, Elsewhere
  <2> QED BY <1>10, <2>2, <2>3 DEF ManualPosted, t
<1> QED BY <1>5, <1>6, <1>7, <1>8, <1>9, <1>10

\* The record of one token changes.
LEMMA TokenSet ==
  ASSUME IInv, NEW t \in Token, NEW y, Keeps(tok[t], y, market), tok' = [tok EXCEPT ![t] = y]
  PROVE  /\ tok' \in [Token -> TokenState]
         /\ \A v \in Token : Good(tok'[v], market) /\ (tok'[v].in_flight => tok[v].in_flight)
<1>1. tok \in [Token -> TokenState] /\ \A v \in Token : Good(tok[v], market)
  BY Parts DEF IInv, TokInv
<1>2. Good(y, market) /\ y \in TokenState /\ (y.in_flight => tok[t].in_flight)
  BY DEF Keeps, Good
<1>3. tok'[t] = y /\ \A v \in Token \ {t} : tok'[v] = tok[v]
  BY <1>1
<1> QED BY <1>1, <1>2, <1>3

\* A trade is marked as handled.
LEMMA MarkedOK ==
  ASSUME TypeOK, NEW n \in DOMAIN trades, NEW r \in TradeType, trades' = [trades EXCEPT ![n] = r]
  PROVE  trades' \in Seq(TradeType) /\ DOMAIN trades \subseteq DOMAIN trades'
<1>1. trades \in Seq(TradeType)
  BY Parts
<1>2. n \in 1..Len(trades)
  BY <1>1, LenProperties
<1> QED BY <1>1, <1>2, ExceptSeq

LEMMA TradeFacts ==
  ASSUME TypeOK, NEW n \in DOMAIN trades
  PROVE  trades[n] \in TradeType /\ trades[n].token \in Token /\ trades[n].lots \in Nat
<1>1. trades \in Seq(TradeType)
  BY Parts
<1>2. n \in 1..Len(trades)
  BY <1>1, LenProperties
<1>3. trades[n] \in TradeType
  BY <1>1, <1>2, ElementOfSeq
<1> QED BY <1>3 DEF TradeType

LEMMA BookedOK ==
  ASSUME IInv, NEW n \in DOMAIN trades, NEW settled \in BOOLEAN, Booked(n, settled)
  PROVE  /\ tok' \in [Token -> TokenState]
         /\ \A v \in Token : Good(tok'[v], market) /\ (tok'[v].in_flight => tok[v].in_flight)
<1> DEFINE t == trades[n].token
           q == trades[n].lots
           x == IF settled THEN [tok[t] EXCEPT !.stop = FALSE] ELSE tok[t]
<1>1. t \in Token /\ q \in Nat
  BY TradeFacts DEF IInv
<1>2. tok[t] \in TokenState /\ Good(tok[t], market) /\ tok[t].pos \in Nat
  BY <1>1, Parts, Fields DEF IInv, TokInv
<1>3. Keeps(tok[t], x, market)
  <2>1. ASSUME NEW r, r = [tok[t] EXCEPT !.stop = FALSE]
        PROVE  /\ r \in TokenState /\ r.queue = tok[t].queue /\ r.pos = tok[t].pos
               /\ r.in_flight = tok[t].in_flight
    BY <1>2, <2>1 DEF TokenState
  <2>2. Keeps(tok[t], [tok[t] EXCEPT !.stop = FALSE], market)
    BY <1>2, <2>1, TrailOnly
  <2> QED BY <1>2, <2>2 DEF Keeps
<1>4. \/ tok' = [tok EXCEPT ![t] = x]
      \/ tok' = [tok EXCEPT ![t] = Sold(x, q)]
      \/ \E y \in MayPromote(Bought(x, q)) : tok' = [tok EXCEPT ![t] = y]
  BY DEF Booked
<1> HIDE DEF t, q, x
<1>5. Keeps(tok[t], Sold(x, q), market)
  BY <1>1, <1>3, SoldOK DEF Keeps
<1>6. \A y \in MayPromote(Bought(x, q)) : Keeps(tok[t], y, market)
  <2>1. Keeps(x, Bought(x, q), market)
    BY <1>1, <1>3, BoughtOK DEF Keeps
  <2>2. \A y \in MayPromote(Bought(x, q)) : Keeps(Bought(x, q), y, market)
    BY <2>1, PromotedOK DEF Keeps
  <2> QED BY <1>3, <2>1, <2>2 DEF Keeps
<1> QED BY <1>1, <1>3, <1>4, <1>5, <1>6, TokenSet

\* OrderAck and UserChannelFill.
LEMMA FillsKeep ==
  ASSUME IInv,
         \/ \E k \in Task : OrderAck(k)
         \/ \E n \in DOMAIN trades : UserChannelFill(n)
  PROVE  IInv'
<1>0. TypeOK /\ TaskInv /\ task \in [Task -> TaskType]
  BY Parts DEF IInv
<1>1. ASSUME NEW k \in Task, OrderAck(k)
      PROVE  IInv'
  <2> DEFINE n == task[k].trade
             r == [trades[n] EXCEPT !.applied = TRUE]
  <2>1. /\ task[k].pc = "ack" /\ Booked(n, task[k].kind # "buy")
        /\ trades' = [trades EXCEPT ![n].applied = TRUE]
        /\ UNCHANGED <<market, loading, held, rest>>
    BY <1>1 DEF OrderAck
  <2>2. n \in DOMAIN trades /\ task[k].kind # "none"
    BY <1>0, <2>1 DEF TaskInv
  <2>3. /\ tok' \in [Token -> TokenState]
        /\ \A v \in Token : Good(tok'[v], market) /\ (tok'[v].in_flight => tok[v].in_flight)
    BY <2>1, <2>2, BookedOK
  <2>4. r \in TradeType
    BY <1>0, <2>2, TradeFacts DEF TradeType
  <2>5. trades' \in Seq(TradeType) /\ DOMAIN trades \subseteq DOMAIN trades'
    <3>1. trades' = [trades EXCEPT ![n] = r]
      BY <2>1
    <3> HIDE DEF r, n
    <3> QED BY <1>0, <2>2, <2>4, <3>1, MarkedOK
  <2>6. task' \in [Task -> TaskType] /\ TaskInv' /\ ExitsStay
    <3>1. \E pc \in {"arm", "done"} : Goto(k, pc)
      BY <1>1 DEF OrderAck
    <3> QED BY <1>0, <2>2, <2>5, <3>1, MovedOK DEF Points
  <2> QED BY <2>1, <2>3, <2>5, <2>6, Handled
<1>2. ASSUME NEW n \in DOMAIN trades, UserChannelFill(n)
      PROVE  IInv'
  <2> DEFINE b == trades[n].by # "buy" /\ ~trades[n].applied
             r == [trades[n] EXCEPT !.applied = TRUE, !.told = TRUE]
  <2>1. /\ Booked(n, b)
        /\ trades' = [trades EXCEPT ![n].applied = TRUE, ![n].told = TRUE]
        /\ UNCHANGED <<market, loading, task, held, rest>>
    BY <1>2 DEF UserChannelFill
  <2>2. trades[n] \in TradeType
    BY <1>0, TradeFacts
  <2>3. b \in BOOLEAN /\ r \in TradeType
    BY <2>2 DEF TradeType
  <2>4. trades' = [trades EXCEPT ![n] = r]
    BY <2>1
  <2> HIDE DEF b, r
  <2>5. /\ tok' \in [Token -> TokenState]
        /\ \A v \in Token : Good(tok'[v], market) /\ (tok'[v].in_flight => tok[v].in_flight)
    BY <2>1, <2>3, BookedOK
  <2>6. trades' \in Seq(TradeType) /\ DOMAIN trades \subseteq DOMAIN trades'
    BY <1>0, <2>3, <2>4, MarkedOK
  <2>7. task' \in [Task -> TaskType] /\ TaskInv' /\ ExitsStay
    BY <1>0, <2>1, <2>6, TaskSame
  <2> QED BY <2>1, <2>5, <2>6, <2>7, Handled
<1> QED BY <1>1, <1>2

\* What the ticks make of AppState, before the dispatchers.
KeepsAll(s) == s \in [Token -> TokenState] /\ \A v \in Token : Keeps(tok[v], s[v], market)

LEMMA StopLossKeeps ==
  ASSUME IInv, NEW s, KeepsAll(s), StopLoss(s), UNCHANGED <<market, loading, trades, held, rest>>
  PROVE  IInv'
<1>0. TypeOK /\ TaskInv /\ trades \in Seq(TradeType)
  BY Parts DEF IInv
<1>1. PICK u \in Token : /\ tok' = [s EXCEPT ![u] = [s[u] EXCEPT !.stop = TRUE]]
                         /\ Started("stop", "post", u, s[u].pos, 0)
  BY DEF StopLoss
<1>2. s[u] \in TokenState /\ s[u].pos \in Nat /\ s[u].pos >= s[u].pos /\ Good(s[u], market)
  BY Fields DEF KeepsAll, Keeps
<1>3. ASSUME NEW r, r = [s[u] EXCEPT !.stop = TRUE]
      PROVE  Keeps(s[u], r, market)
  <2>1. /\ r \in TokenState /\ r.queue = s[u].queue /\ r.pos = s[u].pos
        /\ r.in_flight = s[u].in_flight
    BY <1>2, <1>3 DEF TokenState
  <2> QED BY <1>2, <2>1, TrailOnly
<1> DEFINE y == [s[u] EXCEPT !.stop = TRUE]
<1>4. Keeps(s[u], y, market)
  BY <1>3
<1>5. tok' = [s EXCEPT ![u] = y]
  BY <1>1
<1> HIDE DEF y
<1>6. /\ tok' \in [Token -> TokenState]
      /\ \A v \in Token : Good(tok'[v], market) /\ (tok'[v].in_flight => tok[v].in_flight)
  BY <1>4, <1>5 DEF KeepsAll, Keeps, Good
<1>7. task' \in [Task -> TaskType] /\ TaskInv' /\ ExitsStay
  BY <1>0, <1>1, <1>2, StartedOK DEF Kinds, Points
<1> QED BY <1>0, <1>6, <1>7, Handled

LEMMA DispatchKeeps ==
  ASSUME IInv, NEW s, KeepsAll(s), Dispatch(s), UNCHANGED <<market, loading, trades, held, rest>>
  PROVE  IInv'
<1>0. TypeOK /\ TaskInv /\ trades \in Seq(TradeType)
  BY Parts DEF IInv
<1>1. PICK u \in Token :
        /\ MayDispatch(u, s)
        /\ \/ /\ tok' = [s EXCEPT ![u] = Dispatched(s[u])]
              /\ Started("exit", "post", u, Head(s[u].queue), 0)
           \/ /\ tok' = [s EXCEPT ![u] = Cleared(s[u])]
              /\ UNCHANGED task
  BY DEF Dispatch
<1>2. s[u] \in TokenState /\ Good(s[u], market) /\ s[u].queue # <<>>
  BY <1>1 DEF KeepsAll, Keeps, MayDispatch
<1>3. CASE /\ tok' = [s EXCEPT ![u] = Dispatched(s[u])]
           /\ Started("exit", "post", u, Head(s[u].queue), 0)
  <2>1. Good(Dispatched(s[u]), market) /\ Head(s[u].queue) \in Nat
    BY <1>2, DispatchedOK
  <2>2. /\ task' \in [Task -> TaskType] /\ TaskInv' /\ ExitsStay
        /\ \E k \in Task : task'[k].kind = "exit" /\ task'[k].token = u
    BY <1>0, <1>3, <2>1, StartedOK DEF Kinds, Points
  <2>3. tok' \in [Token -> TokenState]
    BY <1>3, <2>1 DEF KeepsAll, Good
  <2>4. ASSUME NEW v \in Token
        PROVE  /\ Good(tok'[v], market)
               /\ tok'[v].in_flight =>
                    \/ tok[v].in_flight
                    \/ \E k \in Task : task'[k].kind = "exit" /\ task'[k].token = v
    <3>1. CASE v = u
      BY <1>3, <2>1, <2>2, <3>1 DEF KeepsAll
    <3>2. CASE v # u
      BY <1>3, <3>2 DEF KeepsAll, Keeps
    <3> QED BY <3>1, <3>2
  <2> QED BY <1>0, <2>2, <2>3, <2>4, Handled
<1>4. CASE tok' = [s EXCEPT ![u] = Cleared(s[u])] /\ UNCHANGED task
  <2>1. Good(Cleared(s[u]), market) /\ Cleared(s[u]).in_flight = FALSE
    BY <1>2, ClearedOK
  <2>2. /\ tok' \in [Token -> TokenState]
        /\ \A v \in Token : Good(tok'[v], market) /\ (tok'[v].in_flight => tok[v].in_flight)
    BY <1>4, <2>1 DEF KeepsAll, Keeps, Good
  <2>3. task' \in [Task -> TaskType] /\ TaskInv' /\ ExitsStay
    BY <1>0, <1>4, TaskSame
  <2> QED BY <1>0, <2>2, <2>3, Handled
<1> QED BY <1>1, <1>3, <1>4

LEMMA BookKeeps ==
  ASSUME IInv, NEW t \in Token, Book(t)
  PROVE  IInv'
<1>0. /\ TypeOK /\ TaskInv /\ trades \in Seq(TradeType)
      /\ UNCHANGED <<market, loading, trades, held, rest>>
  BY Parts DEF IInv, Book
<1>1. PICK P \in SUBSET {u \in Token : tok[u].arm > 0 /\ (market \/ u = t)} :
        LET ready(u) == IF u \in P THEN Promoted(tok[u]) ELSE tok[u] IN
        \E x \in {ready(t)} \cup (IF t \in P THEN {} ELSE Tripped(t, ready(t))) :
          LET s == [u \in Token |-> IF u = t THEN x ELSE ready(u)] IN
            \/ tok' = s /\ UNCHANGED task
            \/ StopLoss(s)
            \/ Dispatch(s)
  BY DEF Book
<1> DEFINE ready(u) == IF u \in P THEN Promoted(tok[u]) ELSE tok[u]
<1>2. PICK x \in {ready(t)} \cup (IF t \in P THEN {} ELSE Tripped(t, ready(t))) :
        LET s == [u \in Token |-> IF u = t THEN x ELSE ready(u)] IN
          \/ tok' = s /\ UNCHANGED task
          \/ StopLoss(s)
          \/ Dispatch(s)
  BY <1>1
<1> DEFINE s == [u \in Token |-> IF u = t THEN x ELSE ready(u)]
<1>3. \A u \in Token : Good(tok[u], market)
  BY DEF IInv, TokInv
<1>4. \A u \in Token : Keeps(tok[u], ready(u), market)
  BY <1>3, PromotedOK DEF Keeps
<1>5. Keeps(tok[t], x, market)
  <2> HIDE DEF ready
  <2>1. CASE x = ready(t)
    BY <1>4, <2>1
  <2>2. CASE x \in Tripped(t, ready(t))
    <3>1. Good(ready(t), market)
      BY <1>4 DEF Keeps
    <3>2. Keeps(ready(t), x, market)
      BY <2>2, <3>1, TrippedOK
    <3> QED BY <1>4, <3>2 DEF Keeps
  <2> QED BY <1>2, <2>1, <2>2
<1>6. KeepsAll(s)
  <2> HIDE DEF ready
  <2> QED BY <1>4, <1>5 DEF KeepsAll, Keeps, Good
<1>7. (tok' = s /\ UNCHANGED task) \/ StopLoss(s) \/ Dispatch(s)
  BY <1>2
<1> HIDE DEF s
<1>8. CASE tok' = s /\ UNCHANGED task
  <2>1. task' \in [Task -> TaskType] /\ TaskInv' /\ ExitsStay
    BY <1>0, <1>8, TaskSame
  <2> QED BY <1>0, <1>6, <1>8, <2>1, Handled DEF KeepsAll, Keeps
<1> QED BY <1>0, <1>6, <1>7, <1>8, StopLossKeeps, DispatchKeeps

\* RequestTrailingArm.
LEMMA ArmKeeps ==
  ASSUME IInv, NEW k \in Task, RequestTrailingArm(k)
  PROVE  IInv'
<1> DEFINE t == task[k].token
           n == tok[t].arm + task[k].lots
           z == [tok[t] EXCEPT !.arm = n]
<1>0. /\ TypeOK /\ TaskInv /\ trades \in Seq(TradeType) /\ task \in [Task -> TaskType]
      /\ tok \in [Token -> TokenState]
  BY Parts DEF IInv
<1>1. At(k, "buy", "arm") /\ UNCHANGED <<market, loading, trades, held, rest>>
  BY DEF RequestTrailingArm
<1>2. t \in Token /\ task[k].kind = "buy" /\ task[k].lots \in Nat
  BY <1>0, <1>1 DEF At, TaskInv, TaskType
<1>3. PICK y \in MayPromote(z) : tok' = [tok EXCEPT ![t] = y]
  BY DEF RequestTrailingArm
<1>4. tok[t] \in TokenState /\ Good(tok[t], market)
  BY <1>0, <1>2 DEF IInv, TokInv
<1>5. tok[t].pos \in Nat /\ tok[t].pos >= tok[t].pos /\ n \in Nat
  BY <1>2, <1>4, Fields
<1> HIDE DEF n
<1>6. Keeps(tok[t], z, market)
  <2>1. /\ z \in TokenState /\ z.queue = tok[t].queue /\ z.pos = tok[t].pos
        /\ z.in_flight = tok[t].in_flight
    BY <1>4, <1>5 DEF TokenState
  <2> HIDE DEF z
  <2> QED BY <1>4, <1>5, <2>1, TrailOnly
<1> HIDE DEF z
<1>7. Keeps(tok[t], y, market)
  BY <1>3, <1>6, PromotedOK DEF Keeps
<1>8. /\ tok' \in [Token -> TokenState]
      /\ \A v \in Token : Good(tok'[v], market) /\ (tok'[v].in_flight => tok[v].in_flight)
  <2> HIDE DEF t
  <2> QED BY <1>2, <1>3, <1>7, TokenSet
<1>9. task' \in [Task -> TaskType] /\ TaskInv' /\ ExitsStay
  <2>1. task' = [task EXCEPT ![k] = Off]
    BY DEF RequestTrailingArm
  <2>2. Off \in TaskType /\ Off.kind = "none" /\ Off.pc = "post"
    BY DEF Off, TaskType, Kinds, Points
  <2> QED BY <1>0, <1>1, <1>2, <2>1, <2>2, TaskChange
<1> QED BY <1>0, <1>1, <1>8, <1>9, Handled

\* TrailingExitDispatchDone: the only task that clears a marker of an exit goes with it.
LEMMA ExitDoneKeeps ==
  ASSUME IInv, NEW k \in Task, TrailingExitDispatchDone(k)
  PROVE  IInv'
<1> DEFINE t == task[k].token
           b == task[k].pc = "done"
           y == ExitDone(tok[t], b)
<1>0. /\ TypeOK /\ TaskInv /\ trades \in Seq(TradeType) /\ task \in [Task -> TaskType]
      /\ tok \in [Token -> TokenState]
  BY Parts DEF IInv
<1>1. /\ task[k].kind = "exit" /\ tok' = [tok EXCEPT ![t] = y] /\ task' = [task EXCEPT ![k] = Off]
      /\ UNCHANGED <<market, loading, trades, held, rest>>
  BY DEF TrailingExitDispatchDone
<1>2. t \in Token /\ b \in BOOLEAN
  BY <1>0, <1>1 DEF TaskInv
<1> HIDE DEF b
<1>3. Good(y, market) /\ y.in_flight = FALSE
  <2>1. Good(tok[t], market)
    BY <1>2 DEF IInv, TokInv
  <2> QED BY <1>2, <2>1, ExitDoneOK
<1>4. task' \in [Task -> TaskType] /\ TaskInv'
  <2>1. Off \in TaskType /\ Off.kind = "none" /\ Off.pc = "post"
    BY DEF Off, TaskType, Kinds, Points
  <2> QED BY <1>0, <1>1, <2>1, TaskChange
<1> HIDE DEF y
<1>5. /\ tok' \in [Token -> TokenState]
      /\ \A v \in Token : Good(tok'[v], market)
      /\ tok'[t].in_flight = FALSE /\ \A v \in Token \ {t} : tok'[v] = tok[v]
  BY <1>0, <1>1, <1>2, <1>3 DEF IInv, TokInv, Good
<1>6. \A j \in Task : task[j].token # t => task'[j] = task[j]
  BY <1>0, <1>1
<1>7. InFlightBacked'
  <2> SUFFICES ASSUME NEW v \in Token, tok'[v].in_flight
               PROVE  \E j \in Task : task'[j].kind = "exit" /\ task'[j].token = v
    BY DEF InFlightBacked, Tasks, Task
  <2>1. v # t /\ tok[v].in_flight
    BY <1>5
  <2>2. PICK j \in Task : task[j].kind = "exit" /\ task[j].token = v
    BY <2>1 DEF IInv, InFlightBacked, Tasks
  <2> QED BY <1>6, <2>1, <2>2
<1>8. TypeOK'
  <2>1. TypeOK' <=> /\ market' \in BOOLEAN /\ loading' \in BOOLEAN
                    /\ tok' \in [Token -> TokenState]
                    /\ task' \in [Task -> TaskType]
                    /\ trades' \in Seq(TradeType)
                    /\ held' \in [Token -> Nat]
                    /\ rest' \in [Token -> RestType]
    BY DEF TypeOK, TaskType, TradeType, RestType
  <2> QED BY <1>0, <1>1, <1>4, <1>5, <2>1, Parts
<1>9. TokInv'
  BY <1>1, <1>5 DEF TokInv
<1> QED BY <1>4, <1>7, <1>8, <1>9 DEF IInv

\* StopLossSellDone, ManualFakSellDispatchDone.
LEMMA ReportsKeep ==
  ASSUME IInv, NEW k \in Task, StopLossSellDone(k) \/ ManualFakSellDispatchDone(k)
  PROVE  IInv'
<1> DEFINE t == task[k].token
           x == tok[t]
<1>0. /\ TypeOK /\ TaskInv /\ trades \in Seq(TradeType) /\ task \in [Task -> TaskType]
      /\ tok \in [Token -> TokenState]
  BY Parts DEF IInv
<1>1. PICK y \in {x, [x EXCEPT !.stop = FALSE], [x EXCEPT !.manual = Minus(x.manual, 1)]} :
        /\ tok' = [tok EXCEPT ![t] = y] /\ task' = [task EXCEPT ![k] = Off]
        /\ task[k].kind \in {"stop", "manual"}
        /\ UNCHANGED <<market, loading, trades, held, rest>>
  BY DEF StopLossSellDone, StopDone, ManualFakSellDispatchDone, At
<1>2. t \in Token
  BY <1>0, <1>1 DEF TaskInv
<1>3. x \in TokenState /\ Good(x, market)
  BY <1>0, <1>2 DEF IInv, TokInv
<1>4. Minus(x.manual, 1) \in Nat /\ x.pos \in Nat /\ x.pos >= x.pos
  BY <1>3, Fields, NatOps
<1> DEFINE n == Minus(x.manual, 1)
<1>5. y \in {x, [x EXCEPT !.stop = FALSE], [x EXCEPT !.manual = n]} /\ n \in Nat
  BY <1>1, <1>4
<1> HIDE DEF x, t, n
<1>6. /\ y \in TokenState /\ y.queue = x.queue /\ y.pos = x.pos /\ y.in_flight = x.in_flight
  BY <1>3, <1>5 DEF TokenState
<1>7. Keeps(x, y, market)
  BY <1>3, <1>4, <1>6, TrailOnly
<1>8. /\ tok' \in [Token -> TokenState]
      /\ \A v \in Token : Good(tok'[v], market) /\ (tok'[v].in_flight => tok[v].in_flight)
  BY <1>1, <1>2, <1>7, TokenSet DEF x
<1>9. task' \in [Task -> TaskType] /\ TaskInv' /\ ExitsStay
  <2>1. Off \in TaskType /\ Off.kind = "none" /\ Off.pc = "post"
    BY DEF Off, TaskType, Kinds, Points
  <2> QED BY <1>0, <1>1, <2>1, TaskChange
<1> QED BY <1>0, <1>1, <1>8, <1>9, Handled

\* The user's SELL begins, and the grace of a partial SELL ends.
LEMMA ManualKeeps ==
  ASSUME IInv, NEW t \in Token, Manual(t) \/ GraceEnds(t)
  PROVE  IInv'
<1> DEFINE x == tok[t]
<1>0. /\ TypeOK /\ TaskInv /\ trades \in Seq(TradeType) /\ task \in [Task -> TaskType]
      /\ x \in TokenState /\ Good(x, market) /\ held[t] \in Nat
  BY Parts DEF IInv, TokInv
<1>1. x.manual + 1 \in Nat /\ x.pos \in Nat /\ x.pos >= x.pos
  BY <1>0, Fields
<1>2. CASE Manual(t)
  <2> DEFINE n == x.manual + 1
  <2>1. PICK q \in 1..Higher(x.pos, held[t]) : Started("manual", "post", t, q, 0)
    BY <1>2 DEF Manual
  <2>2. q \in Nat
    BY <2>1
  <2>3. ASSUME NEW e \in Seq(Nat), NEW y, y = [x EXCEPT !.manual = n, !.queue = e]
        PROVE  y \in TokenState /\ y.queue = e /\ y.in_flight = x.in_flight
    <3>1. n \in Nat
      BY <1>1
    <3> HIDE DEF n, x
    <3> QED BY <1>0, <2>3, <3>1 DEF TokenState
  <2> DEFINE y == [x EXCEPT !.manual = n, !.queue = <<>>]
  <2>4. y \in TokenState /\ y.queue = <<>> /\ y.in_flight = x.in_flight
    <3>1. <<>> \in Seq(Nat)
      BY EmptySeq
    <3> HIDE DEF x, n
    <3> QED BY <2>3, <3>1, Zenon
  <2>5. tok' = [tok EXCEPT ![t] = y]
    BY <1>2 DEF Manual
  <2> HIDE DEF y
  <2>6. Keeps(tok[t], y, market)
    BY <2>4, NoQueue
  <2>7. /\ tok' \in [Token -> TokenState]
        /\ \A v \in Token : Good(tok'[v], market) /\ (tok'[v].in_flight => tok[v].in_flight)
    BY <2>5, <2>6, TokenSet
  <2>8. UNCHANGED <<market, loading, trades, held, rest>>
    BY <1>2 DEF Manual
  <2>9. task' \in [Task -> TaskType] /\ TaskInv' /\ ExitsStay
    BY <1>0, <2>1, <2>2, <2>8, StartedOK DEF Kinds, Points
  <2> QED BY <1>0, <2>7, <2>8, <2>9, Handled
<1>3. CASE GraceEnds(t)
  <2>1. ASSUME NEW y, y = [x EXCEPT !.grace = FALSE]
        PROVE  Keeps(x, y, market)
    <3>1. /\ y \in TokenState /\ y.queue = x.queue /\ y.pos = x.pos /\ y.in_flight = x.in_flight
      BY <1>0, <2>1 DEF TokenState
    <3> QED BY <1>0, <1>1, <3>1, TrailOnly
  <2> DEFINE y == [x EXCEPT !.grace = FALSE]
  <2>2. Keeps(x, y, market) /\ tok' = [tok EXCEPT ![t] = y]
    BY <1>3, <2>1 DEF GraceEnds
  <2> HIDE DEF y
  <2>3. /\ tok' \in [Token -> TokenState]
        /\ \A v \in Token : Good(tok'[v], market) /\ (tok'[v].in_flight => tok[v].in_flight)
    BY <2>2, TokenSet
  <2>4. UNCHANGED <<market, loading, task, trades, held, rest>>
    BY <1>3 DEF GraceEnds
  <2> QED BY <1>0, <2>3, <2>4, TaskSame, Handled
<1> QED BY <1>2, <1>3

\* A step that leaves or enters the market, or loads its positions.
LEMMA Switched ==
  ASSUME IInv, market' \in BOOLEAN, loading' \in BOOLEAN, UNCHANGED <<task, held, rest>>,
         trades' \in Seq(TradeType), DOMAIN trades \subseteq DOMAIN trades',
         tok' \in [Token -> TokenState],
         \A t \in Token : Good(tok'[t], market') /\ (tok'[t].in_flight => tok[t].in_flight)
  PROVE  IInv'
<1>1. TypeOK' <=> /\ market' \in BOOLEAN /\ loading' \in BOOLEAN
                  /\ tok' \in [Token -> TokenState]
                  /\ task' \in [Task -> TaskType]
                  /\ trades' \in Seq(TradeType)
                  /\ held' \in [Token -> Nat]
                  /\ rest' \in [Token -> RestType]
  BY DEF TypeOK, TaskType, TradeType, RestType
<1>2. TypeOK'
  BY <1>1, Parts DEF IInv
<1>3. TaskInv'
  BY TaskSame DEF IInv
<1>4. TokInv'
  BY DEF TokInv
<1>5. InFlightBacked'
  BY DEF IInv, InFlightBacked, Tasks, Task
<1> QED BY <1>2, <1>3, <1>4, <1>5 DEF IInv

LEMMA FreshOK == \A m : Good(Fresh, m) /\ Fresh.in_flight = FALSE
<1>1. <<>> \in Seq(Nat)
  BY EmptySeq
<1>2. Fresh \in TokenState /\ Fresh.queue = <<>> /\ Fresh.in_flight = FALSE
  BY <1>1 DEF Fresh, TokenState
<1> QED BY <1>2, NoQueue

LEMMA MarketKeeps ==
  ASSUME IInv, StartTrading \/ MarketRoll \/ PositionsLoaded
  PROVE  IInv'
<1>0. /\ TypeOK /\ TaskInv /\ trades \in Seq(TradeType) /\ market \in BOOLEAN
      /\ tok \in [Token -> TokenState] /\ held \in [Token -> Nat]
      /\ \A t \in Token : tok[t] \in TokenState /\ Good(tok[t], market) /\ tok[t].pos \in Nat
  BY Parts, Fields DEF IInv, TokInv
<1>1. CASE StartTrading
  <2>1. /\ market' = FALSE /\ loading' = FALSE /\ UNCHANGED <<task, trades, held, rest>>
        /\ tok' = [t \in Token |-> [tok[t] EXCEPT !.pos = 0]]
    BY <1>1 DEF StartTrading
  <2>2. ASSUME NEW t \in Token
        PROVE  /\ tok'[t] \in TokenState /\ Good(tok'[t], market')
               /\ (tok'[t].in_flight => tok[t].in_flight)
    <3> DEFINE x == tok[t]
               y == tok'[t]
    <3>1. y = [x EXCEPT !.pos = 0] /\ x \in TokenState
      BY <1>0, <2>1
    <3>2. x.queue # <<>> => Len(x.queue) = 1 /\ ~x.in_flight
      BY <1>0 DEF Good
    <3> HIDE DEF x, y
    <3>3. y \in TokenState /\ y.queue = x.queue /\ y.in_flight = x.in_flight
      BY <3>1 DEF TokenState
    <3>4. Good(y, FALSE)
      BY <3>2, <3>3 DEF Good
    <3> QED BY <2>1, <3>3, <3>4 DEF x, y
  <2>3. tok' \in [Token -> TokenState]
    BY <2>1, <2>2
  <2> QED BY <1>0, <2>1, <2>2, <2>3, Switched
<1>2. CASE MarketRoll
  <2>1. /\ market' = TRUE /\ loading' = TRUE /\ UNCHANGED <<task, trades, held, rest>>
        /\ tok' = [t \in Token |-> Fresh]
    BY <1>2 DEF MarketRoll
  <2>2. \A t \in Token : /\ tok'[t] \in TokenState /\ Good(tok'[t], market')
                          /\ (tok'[t].in_flight => tok[t].in_flight)
    BY <2>1, FreshOK DEF Good
  <2>3. tok' \in [Token -> TokenState]
    BY <2>1, <2>2
  <2> QED BY <1>0, <2>1, <2>2, <2>3, Switched
<1>3. CASE PositionsLoaded
  <2>1. PICK P \in SUBSET Token :
          tok' = [t \in Token |->
                   LET x == Rehydrated([tok[t] EXCEPT !.pos = Higher(@, held[t])]) IN
                   IF t \in P /\ x.arm > 0 THEN Promoted(x) ELSE x]
    BY <1>3 DEF PositionsLoaded
  <2>2. /\ market' = market /\ loading' = FALSE /\ UNCHANGED <<task, held, rest>>
        /\ trades' = [n \in DOMAIN trades |-> [trades[n] EXCEPT !.applied = TRUE]]
    BY <1>3 DEF PositionsLoaded
  <2>3. ASSUME NEW t \in Token
        PROVE  /\ tok'[t] \in TokenState /\ Good(tok'[t], market)
               /\ (tok'[t].in_flight => tok[t].in_flight)
    <3> DEFINE h == Higher(tok[t].pos, held[t])
               z == [tok[t] EXCEPT !.pos = h]
               x == Rehydrated(z)
    <3>1. h \in Nat /\ h >= tok[t].pos
      BY <1>0, NatOps
    <3>2. tok'[t] = IF t \in P /\ x.arm > 0 THEN Promoted(x) ELSE x
      BY <2>1
    <3>3. Keeps(tok[t], z, market)
      <4> HIDE DEF h
      <4>1. z \in TokenState /\ z.queue = tok[t].queue /\ z.pos = h /\ z.in_flight = tok[t].in_flight
        BY <1>0, <3>1 DEF TokenState
      <4> HIDE DEF z
      <4> QED BY <1>0, <3>1, <4>1, TrailOnly
    <3> HIDE DEF z
    <3>4. Keeps(z, x, market)
      BY <3>3, RehydratedOK DEF Keeps
    <3> HIDE DEF x
    <3>5. Keeps(x, Promoted(x), market)
      BY <3>4, PromotedOK DEF Keeps
    <3> QED BY <3>2, <3>3, <3>4, <3>5 DEF Keeps, Good
  <2>4. tok' \in [Token -> TokenState]
    <3>1. tok' = [t \in Token |-> tok'[t]]
      BY <2>1
    <3> QED BY <2>3, <3>1
  <2>5. trades' \in Seq(TradeType) /\ DOMAIN trades \subseteq DOMAIN trades'
    <3>1. \A n \in DOMAIN trades : [trades[n] EXCEPT !.applied = TRUE] \in TradeType
      BY <1>0, TradeFacts DEF TradeType
    <3>2. Len(trades) \in Nat /\ DOMAIN trades = 1..Len(trades)
      BY <1>0, LenProperties
    <3>3. trades' \in [1..Len(trades) -> TradeType]
      BY <2>2, <3>1, <3>2
    <3> QED BY <2>2, <3>2, <3>3, SeqDef
  <2> QED BY <1>0, <2>2, <2>3, <2>4, <2>5, Switched
<1> QED BY <1>1, <1>2, <1>3

LEMMA InitIInv == Init => IInv
<1> SUFFICES ASSUME Init PROVE IInv
  OBVIOUS
<1>1. \A t \in Token : tok[t] = Fresh
  BY DEF Init
<1>2. TokInv /\ InFlightBacked /\ tok \in [Token -> TokenState]
  BY <1>1, FreshOK DEF Init, TokInv, InFlightBacked, Good
<1>3. \A k \in Task : task[k] = Off
  BY DEF Init
<1>4. Off \in TaskType /\ Off.kind = "none" /\ Off.pc = "post"
  BY DEF Off, TaskType, Kinds, Points
<1>5. TaskInv /\ task \in [Task -> TaskType]
  BY <1>3, <1>4 DEF Init, TaskInv
<1>6. TypeOK
  <2>1. trades \in Seq(TradeType)
    BY EmptySeq DEF Init
  <2>2. rest \in [Token -> RestType] /\ held \in [Token -> Nat]
    BY DEF Init, RestType
  <2>3. market \in BOOLEAN /\ loading \in BOOLEAN
    BY DEF Init
  <2> QED BY <1>2, <1>5, <2>1, <2>2, <2>3, Parts
<1> QED BY <1>2, <1>5, <1>6 DEF IInv

LEMMA IInvNext == IInv /\ [Next]_vars => IInv'
<1> SUFFICES ASSUME IInv, [Next]_vars PROVE IInv'
  OBVIOUS
<1>1. CASE UNCHANGED vars
  BY <1>1 DEF vars, IInv, TypeOK, TaskInv, TokInv, InFlightBacked, Tasks, Task
<1>2. CASE Next
  <2>1. CASE \E t \in Token, atOnce \in BOOLEAN : BuyFilled(t, atOnce)
    BY <2>1, ExchangeKeeps
  <2>2. ASSUME NEW t \in Token,
               \/ LimitSell(t) \/ RestFilled(t) \/ RestCancelled(t)
               \/ Book(t) \/ Manual(t) \/ GraceEnds(t)
        PROVE  IInv'
    BY <2>2, ExchangeKeeps, BookKeeps, ManualKeeps
  <2>3. ASSUME NEW k \in Task,
               \/ ExitRefused(k) \/ ExitFilled(k) \/ ExitRests(k)
               \/ StopPosted(k) \/ StopRefused(k) \/ ManualPosted(k)
               \/ OrderAck(k) \/ RequestTrailingArm(k) \/ TrailingExitDispatchDone(k)
               \/ StopLossSellDone(k) \/ ManualFakSellDispatchDone(k)
        PROVE  IInv'
    BY <2>3, TasksKeep, FillsKeep, ArmKeeps, ExitDoneKeeps, ReportsKeep
  <2>4. CASE \E n \in DOMAIN trades : UserChannelFill(n)
    BY <2>4, FillsKeep
  <2>5. CASE StartTrading \/ MarketRoll \/ PositionsLoaded
    BY <2>5, MarketKeeps
  <2> QED BY <1>2, <2>1, <2>2, <2>3, <2>4, <2>5 DEF Next
<1> QED BY <1>1, <1>2

-------------------------------------------------------------------------------
(* The theorems. *)

\* The state keeps its types, whatever the faults: a position or what a trail tracks
\* never falls below nothing (app.rs OrderAck, bump_trailing_tracked_shares).
THEOREM TrailTypeCorrect == Spec => []TypeOK
<1>1. IInv => TypeOK
  BY DEF IInv
<1> QED BY InitIInv, IInvNext, <1>1, PTL DEF Spec

\* A token is queued once, and not while its exit runs (app.rs pending_trailing_sells,
\* trailing_sell_queued_or_in_flight), whatever orders overlap or reports overtake.
THEOREM QueuedOnceHolds == Spec => []QueuedOnce
<1>1. IInv => QueuedOnce
  BY DEF IInv, TokInv, Good, QueuedOnce
<1> QED BY InitIInv, IInvNext, <1>1, PTL DEF Spec

\* A token marked as being sold always has an exit task that will clear the marker
\* (app.rs trailing_sell_in_flight, TrailingExitDispatchDone).
THEOREM InFlightBackedHolds == Spec => []InFlightBacked
<1>1. IInv => InFlightBacked
  BY DEF IInv
<1> QED BY InitIInv, IInvNext, <1>1, PTL DEF Spec

\* A queued exit never asks for more than the position, whatever was sold since it was
\* queued (app.rs apply_trailing_book_tick, clear_trailing_on_sell_token).
THEOREM QueuedWithinPositionHolds == Spec => []QueuedWithinPosition
<1>1. IInv => QueuedWithinPosition
  BY DEF IInv, TokInv, Good, QueuedWithinPosition
<1> QED BY InitIInv, IInvNext, <1>1, PTL DEF Spec

-------------------------------------------------------------------------------
(* What the operators do to the fields of a record. *)

\* The fields no handler of the trail touches.
Aside(x, y) == y.manual = x.manual /\ y.stop = x.stop
\* All that is known of a record whose trail was given up.
Bare(y) == y.plan = 0 /\ y.arm = 0 /\ y.triggered = FALSE

LEMMA NoSessionFields ==
  ASSUME NEW x \in TokenState
  PROVE  /\ NoSession(x).plan = 0 /\ NoSession(x).tracked = 0 /\ NoSession(x).triggered = FALSE
         /\ NoSession(x).arm = x.arm /\ Aside(x, NoSession(x))
  BY DEF NoSession, TokenState, Aside

LEMMA UnarmedFields ==
  ASSUME NEW x \in TokenState
  PROVE  Bare(Unarmed(x)) /\ Aside(x, Unarmed(x))
<1> DEFINE n == NoSession(x)
<1>1. n \in TokenState /\ n.plan = 0 /\ n.triggered = FALSE /\ Aside(x, n)
  BY NoSessionType, NoSessionFields
<1>2. Unarmed(x) = [n EXCEPT !.arm = 0, !.grace = FALSE]
  BY DEF Unarmed
<1> HIDE DEF n
<1>3. ASSUME NEW u, u = [n EXCEPT !.arm = 0, !.grace = FALSE]
      PROVE  u.arm = 0 /\ u.plan = n.plan /\ u.triggered = n.triggered /\ Aside(n, u)
  BY <1>1, <1>3 DEF TokenState, Aside
<1> QED BY <1>1, <1>2, <1>3 DEF Bare, Aside

LEMMA ClearedFields ==
  ASSUME NEW x \in TokenState
  PROVE  Bare(Cleared(x)) /\ Aside(x, Cleared(x)) /\ Cleared(x).pos = x.pos
<1> DEFINE u == Unarmed(x)
<1>1. u \in TokenState /\ Bare(u) /\ Aside(x, u) /\ u.pos = x.pos
  BY UnarmedType, UnarmedFields
<1>2. Cleared(x) = [u EXCEPT !.queue = <<>>, !.in_flight = FALSE]
  BY DEF Cleared
<1> HIDE DEF u
<1>3. ASSUME NEW q, NEW c, c = [u EXCEPT !.queue = q, !.in_flight = FALSE]
      PROVE  /\ c.plan = u.plan /\ c.arm = u.arm /\ c.triggered = u.triggered
             /\ c.pos = u.pos /\ Aside(u, c)
  BY <1>1, <1>3 DEF TokenState, Aside
<1> DEFINE y == Cleared(x)
<1>4. /\ y.plan = u.plan /\ y.arm = u.arm /\ y.triggered = u.triggered
      /\ y.pos = u.pos /\ Aside(u, y)
  BY <1>2, <1>3, Zenon
<1> HIDE DEF y
<1>5. Bare(y) /\ Aside(x, y) /\ y.pos = x.pos
  BY <1>1, <1>4 DEF Bare, Aside
<1> QED BY <1>5 DEF y

LEMMA InstalledFields ==
  ASSUME NEW x \in TokenState, NEW p \in Nat, NEW n \in Nat
  PROVE  /\ Installed(x, p, n).plan = x.plan + p /\ Installed(x, p, n).triggered = FALSE
         /\ Installed(x, p, n).arm = x.arm /\ Aside(x, Installed(x, p, n))
<1> DEFINE a == x.plan + p
           b == Higher(x.tracked, n)
<1>3. Installed(x, p, n) = [x EXCEPT !.plan = a, !.tracked = b, !.triggered = FALSE]
  BY DEF Installed
<1> HIDE DEF a, b
<1>4. ASSUME NEW c, c = [x EXCEPT !.plan = a, !.tracked = b, !.triggered = FALSE]
      PROVE  c.plan = a /\ c.triggered = FALSE /\ c.arm = x.arm /\ Aside(x, c)
  BY <1>4 DEF TokenState, Aside
<1> QED BY <1>3, <1>4 DEF a

LEMMA PromotedFields ==
  ASSUME NEW x \in TokenState
  PROVE  /\ Promoted(x) \in TokenState
         /\ Promoted(x).plan = x.plan + x.arm /\ Promoted(x).triggered = FALSE
         /\ Promoted(x).arm = 0 /\ Aside(x, Promoted(x))
         /\ Promoted(x).queue = x.queue /\ Promoted(x).in_flight = x.in_flight
         /\ Promoted(x).pos = x.pos
<1> DEFINE z == [x EXCEPT !.arm = 0]
<1>1. x.arm \in Nat
  BY Fields
<1>2. /\ z \in TokenState /\ z.queue = x.queue /\ z.pos = x.pos /\ z.in_flight = x.in_flight
      /\ z.arm = 0 /\ z.plan = x.plan /\ Aside(x, z)
  BY DEF TokenState, Aside
<1>3. Promoted(x) = Installed(z, x.arm, x.arm)
  BY DEF Promoted
<1> DEFINE y == Installed(z, x.arm, x.arm)
<1> HIDE DEF z
<1>4. /\ y \in TokenState /\ y.queue = z.queue /\ y.pos = z.pos /\ y.in_flight = z.in_flight
  BY <1>1, <1>2, InstalledType
<1>5. /\ y.plan = z.plan + x.arm /\ y.triggered = FALSE /\ y.arm = z.arm /\ Aside(z, y)
  BY <1>1, <1>2, InstalledFields
<1>6. y = Promoted(x)
  BY <1>3
<1> HIDE DEF y
<1>7. /\ y \in TokenState /\ y.plan = x.plan + x.arm /\ y.triggered = FALSE /\ y.arm = 0
      /\ Aside(x, y) /\ y.queue = x.queue /\ y.in_flight = x.in_flight /\ y.pos = x.pos
  BY <1>2, <1>4, <1>5 DEF Aside
<1> QED BY <1>6, <1>7

\* What is left after a SELL.
LEMMA AfterSellFields ==
  ASSUME NEW x \in TokenState, NEW q \in Nat
  PROVE  LET y == AfterSell(x, q)
             left == Lower(Minus(x.plan, q), Live(x)) IN
         /\ y.triggered = FALSE /\ y.pos = x.pos /\ Aside(x, y)
         /\ x.in_flight /\ left > 0 =>
              y.in_flight = TRUE /\ y.plan = left /\ y.arm = x.arm /\ y.queue = x.queue
         /\ ~(x.in_flight /\ left > 0) =>
              y.in_flight = FALSE /\ Bare(y) /\ y.queue = <<>>
<1> DEFINE left == Lower(Minus(x.plan, q), Live(x))
           n == NoSession(x)
           i == Installed(n, left, Live(x))
<1>0. left \in Nat /\ Live(x) \in Nat /\ x.in_flight \in BOOLEAN
  BY Fields, NatOps
<1>1. CASE x.in_flight /\ left > 0
  <2>1. /\ n \in TokenState /\ n.plan = 0 /\ n.arm = x.arm /\ Aside(x, n)
        /\ n.queue = x.queue /\ n.pos = x.pos /\ n.in_flight = TRUE
    BY <1>0, <1>1, NoSessionType, NoSessionFields
  <2>2. AfterSell(x, q) = [i EXCEPT !.grace = TRUE]
    BY <1>1 DEF AfterSell
  <2> HIDE DEF n, left
  <2>3. /\ i \in TokenState /\ i.plan = 0 + left /\ i.arm = x.arm /\ Aside(x, i)
        /\ i.queue = x.queue /\ i.pos = x.pos /\ i.in_flight = TRUE /\ i.triggered = FALSE
    <3>1. /\ i \in TokenState /\ i.queue = n.queue /\ i.pos = n.pos /\ i.in_flight = n.in_flight
      BY <1>0, <2>1, InstalledType
    <3>2. /\ i.plan = n.plan + left /\ i.triggered = FALSE /\ i.arm = n.arm /\ Aside(n, i)
      BY <1>0, <2>1, InstalledFields
    <3> QED BY <2>1, <3>1, <3>2 DEF Aside
  <2> HIDE DEF i
  <2>4. ASSUME NEW y, y = [i EXCEPT !.grace = TRUE]
        PROVE  /\ y.plan = i.plan /\ y.arm = i.arm /\ y.triggered = i.triggered /\ y.pos = i.pos
               /\ y.queue = i.queue /\ y.in_flight = i.in_flight /\ Aside(i, y)
    BY <2>3, <2>4 DEF TokenState, Aside
  <2>5. 0 + left = left
    BY <1>0
  <2> QED BY <1>1, <2>2, <2>3, <2>4, <2>5 DEF Aside, left
<1>2. CASE ~(x.in_flight /\ left > 0)
  <2>1. AfterSell(x, q) = Cleared(x)
    BY <1>2 DEF AfterSell
  <2> QED BY <1>2, <2>1, ClearedType, ClearedFields DEF Bare
<1> QED BY <1>1, <1>2

\* A SELL: its exit goes on with what is left of the plan, or the trail is given up.
LEMMA SoldFields ==
  ASSUME NEW x \in TokenState, NEW q \in Nat, NEW y, y = Sold(x, q)
  PROVE  /\ y.triggered = FALSE /\ y.pos = Minus(x.pos, q) /\ Aside(x, y)
         /\ \/ /\ x.in_flight /\ y.in_flight = TRUE /\ y.plan > 0 /\ y.arm = x.arm
               /\ y.queue = x.queue
               /\ market => y.plan = Lower(Minus(x.plan, q), y.pos)
            \/ /\ y.in_flight = FALSE /\ Bare(y) /\ y.queue = <<>>
               /\ x.in_flight /\ market => Lower(Minus(x.plan, q), y.pos) = 0
<1>1. /\ x.pos \in Nat /\ x.tracked \in Nat /\ x.plan \in Nat
  BY Fields
<1> DEFINE a == Minus(x.pos, q)
           b == IF x.plan > 0 THEN Minus(x.tracked, q) ELSE x.tracked
           z == [x EXCEPT !.pos = a, !.tracked = b]
           left == Lower(Minus(z.plan, q), Live(z))
<1>2. a \in Nat /\ b \in Nat
  BY <1>1, NatOps
<1>3. y = AfterSell(z, q)
  BY DEF Sold
<1>4. /\ z \in TokenState /\ z.queue = x.queue /\ z.in_flight = x.in_flight /\ z.pos = a
      /\ z.plan = x.plan /\ z.arm = x.arm /\ Aside(x, z)
  <2> HIDE DEF a, b
  <2> QED BY <1>2 DEF TokenState, Aside
<1> HIDE DEF z
<1>5. /\ left \in Nat /\ (market => left = Lower(Minus(x.plan, q), a))
  <2>1. z.plan \in Nat /\ Live(z) \in Nat /\ (market => Live(z) = z.pos)
    BY <1>4, Fields
  <2>2. left \in Nat
    BY <2>1, NatOps
  <2> QED BY <1>4, <2>1, <2>2
<1>6. /\ y.triggered = FALSE /\ y.pos = z.pos /\ Aside(z, y)
      /\ z.in_flight /\ left > 0 =>
           y.in_flight = TRUE /\ y.plan = left /\ y.arm = z.arm /\ y.queue = z.queue
      /\ ~(z.in_flight /\ left > 0) =>
           y.in_flight = FALSE /\ Bare(y) /\ y.queue = <<>>
  <2> DEFINE w == AfterSell(z, q)
  <2>1. /\ w.triggered = FALSE /\ w.pos = z.pos /\ Aside(z, w)
        /\ z.in_flight /\ left > 0 =>
             w.in_flight = TRUE /\ w.plan = left /\ w.arm = z.arm /\ w.queue = z.queue
        /\ ~(z.in_flight /\ left > 0) =>
             w.in_flight = FALSE /\ Bare(w) /\ w.queue = <<>>
    BY <1>4, AfterSellFields
  <2>2. y = w
    BY <1>3
  <2> HIDE DEF w, left
  <2> QED BY <2>1, <2>2
<1> HIDE DEF left, a
<1>7. y.triggered = FALSE /\ y.pos = a /\ Aside(x, y)
  BY <1>4, <1>6 DEF Aside
<1>8. CASE z.in_flight /\ left > 0
  <2>1. y.in_flight = TRUE /\ y.plan = left /\ y.arm = x.arm /\ y.queue = x.queue
    BY <1>4, <1>6, <1>8
  <2>2. x.in_flight /\ y.plan > 0
    BY <1>4, <1>5, <1>8, <2>1
  <2>3. market => y.plan = Lower(Minus(x.plan, q), y.pos)
    BY <1>5, <1>7, <2>1
  <2> QED BY <1>7, <2>1, <2>2, <2>3 DEF a
<1>9. CASE ~(z.in_flight /\ left > 0)
  <2>1. x.in_flight => left = 0
    BY <1>4, <1>5, <1>9
  <2>2. x.in_flight /\ market => Lower(Minus(x.plan, q), y.pos) = 0
    BY <1>5, <1>7, <2>1
  <2> QED BY <1>6, <1>7, <1>9, <2>2 DEF a
<1> QED BY <1>8, <1>9

\* A BUY.
LEMMA BoughtFields ==
  ASSUME NEW x \in TokenState, NEW q \in Nat, NEW y, y = Bought(x, q)
  PROVE  /\ y \in TokenState /\ Aside(x, y) /\ y.queue = x.queue /\ y.in_flight = x.in_flight
         /\ market => y.pos = x.pos + q /\ y.arm = y.pos /\ y.plan = 0 /\ y.triggered = FALSE
         /\ ~market => /\ y.pos = x.pos /\ y.arm = x.arm /\ y.plan = x.plan
                       /\ y.triggered = x.triggered
<1>1. x.pos \in Nat /\ x.tracked \in Nat
  BY Fields
<1>2. CASE market
  <2> DEFINE p == x.pos + q
             u == Unarmed(x)
  <2>1. p \in Nat
    BY <1>1
  <2>2. /\ u \in TokenState /\ u.queue = x.queue /\ u.in_flight = x.in_flight
        /\ Bare(u) /\ Aside(x, u)
    BY UnarmedType, UnarmedFields
  <2>3. y = [u EXCEPT !.pos = p, !.arm = p]
    BY <1>2 DEF Bought
  <2> HIDE DEF u, p
  <2>4. /\ y \in TokenState /\ y.queue = u.queue /\ y.in_flight = u.in_flight
        /\ y.pos = p /\ y.arm = p /\ y.plan = u.plan /\ y.triggered = u.triggered /\ Aside(u, y)
    BY <2>1, <2>2, <2>3 DEF TokenState, Aside
  <2> QED BY <1>2, <2>2, <2>4 DEF p, Bare, Aside
<1>3. CASE ~market
  <2> DEFINE n == IF x.plan > 0 THEN x.tracked + q ELSE x.tracked
  <2>1. n \in Nat
    BY <1>1
  <2>2. y = [x EXCEPT !.tracked = n]
    BY <1>3 DEF Bought
  <2> HIDE DEF n
  <2> QED BY <1>3, <2>1, <2>2 DEF TokenState, Aside
<1> QED BY <1>2, <1>3

\* A tick that trips a trail.
LEMMA TrippedFields ==
  ASSUME NEW t \in Token, NEW x \in TokenState, NEW z \in Tripped(t, x)
  PROVE  /\ x.plan > 0 /\ ~x.triggered /\ ~Busy(t, x)
         /\ z \in TokenState /\ Aside(x, z) /\ z.pos = x.pos /\ z.in_flight = FALSE
         /\ \/ /\ z.triggered = TRUE /\ z.queue # <<>> /\ z.plan = x.plan /\ z.arm = x.arm
            \/ /\ Bare(z) /\ z.queue = <<>>
               /\ market /\ x.pos > 0 => "worthless" \in scenario.faults
<1> DEFINE y == [x EXCEPT !.triggered = TRUE]
           sh == Lower(Live(x), x.plan)
           q == Append(y.queue, sh)
           w == [y EXCEPT !.queue = q]
<1>1. /\ x.queue \in Seq(Nat) /\ Live(x) \in Nat /\ x.plan \in Nat /\ x.in_flight \in BOOLEAN
      /\ (market => Live(x) = x.pos) /\ x.pos \in Nat
  BY Fields
<1>2. /\ y \in TokenState /\ y.queue = x.queue /\ y.pos = x.pos /\ y.in_flight = x.in_flight
      /\ y.plan = x.plan /\ y.arm = x.arm /\ y.triggered = TRUE /\ Aside(x, y)
  BY DEF TokenState, Aside
<1>3. /\ x.plan # 0 /\ ~x.triggered /\ ~Busy(t, x)
      /\ z \in {Unarmed(y), Cleared(y), w}
      /\ z # w => sh = 0 \/ "worthless" \in scenario.faults
  BY DEF Tripped
<1>4. x.queue = <<>> /\ x.in_flight = FALSE
  BY <1>1, <1>3 DEF Busy
<1>5. sh \in Nat /\ (market /\ x.pos > 0 => sh > 0)
  BY <1>1, <1>3 DEF Lower
<1> HIDE DEF sh
<1>6. CASE z = w
  <2>1. q \in Seq(Nat) /\ q # <<>>
    <3>1. y.queue \in Seq(Nat)
      BY <1>1, <1>2
    <3> HIDE DEF y
    <3> QED BY <1>5, <3>1, AppendProperties
  <2> HIDE DEF q, y
  <2>2. /\ z \in TokenState /\ z.queue = q /\ z.pos = y.pos /\ z.in_flight = y.in_flight
        /\ z.plan = y.plan /\ z.arm = y.arm /\ z.triggered = y.triggered /\ Aside(y, z)
    BY <1>2, <1>6, <2>1 DEF TokenState, Aside
  <2> QED BY <1>1, <1>2, <1>3, <1>4, <2>1, <2>2 DEF Aside
<1> HIDE DEF y, w
<1>7. CASE z # w
  <2>1. /\ z \in TokenState /\ Bare(z) /\ Aside(y, z) /\ z.pos = y.pos
        /\ z.queue = <<>> /\ z.in_flight = FALSE
    <3>1. CASE z = Unarmed(y)
      BY <1>2, <1>4, <3>1, UnarmedType, UnarmedFields
    <3>2. CASE z = Cleared(y)
      BY <1>2, <3>2, ClearedType, ClearedFields
    <3> QED BY <1>3, <1>7, <3>1, <3>2
  <2>2. market /\ x.pos > 0 => "worthless" \in scenario.faults
    BY <1>3, <1>5, <1>7
  <2> QED BY <1>1, <1>2, <1>3, <2>1, <2>2 DEF Aside
<1> QED BY <1>6, <1>7

\* An entry leaves the queue as its exit starts.
LEMMA DispatchedFields ==
  ASSUME NEW m, NEW x, Good(x, m), x.queue # <<>>, NEW y, y = Dispatched(x)
  PROVE  /\ y \in TokenState /\ Aside(x, y) /\ y.queue = <<>> /\ y.in_flight = TRUE
         /\ y.plan = x.plan /\ y.arm = x.arm /\ y.triggered = x.triggered /\ y.pos = x.pos
<1>1. x \in TokenState /\ x.queue \in Seq(Nat) /\ Len(x.queue) = 1
  BY Fields DEF Good
<1> DEFINE q == Tail(x.queue)
<1>2. q \in Seq(Nat) /\ Len(q) = 0
  BY <1>1, HeadTailProperties
<1>3. q = <<>>
  BY <1>2, EmptySeq
<1>4. y = [x EXCEPT !.queue = q, !.in_flight = TRUE]
  BY DEF Dispatched
<1> HIDE DEF q
<1>5. /\ y \in TokenState /\ Aside(x, y) /\ y.queue = q /\ y.in_flight = TRUE
      /\ y.plan = x.plan /\ y.arm = x.arm /\ y.triggered = x.triggered /\ y.pos = x.pos
  BY <1>1, <1>2, <1>4 DEF TokenState, Aside
<1> QED BY <1>3, <1>5

\* TrailingExitDispatchDone: the marker and the queue go; a session that tripped ends
\* or is renewed.
LEMMA ExitDoneFields ==
  ASSUME NEW x \in TokenState, NEW b \in BOOLEAN, NEW y, y = ExitDone(x, b)
  PROVE  /\ y.queue = <<>> /\ y.in_flight = FALSE /\ Aside(x, y) /\ y.pos = x.pos
         /\ y.arm = x.arm
         /\ y.plan \in {0, x.plan}
         /\ y.triggered = TRUE => x.triggered /\ x.plan = 0
         /\ y.plan = 0 => x.plan = 0 \/ Live(x) = 0 \/ (b /\ x.triggered)
<1> DEFINE e == [x EXCEPT !.queue = <<>>, !.in_flight = FALSE]
           s == NoSession(e)
           n == [s EXCEPT !.grace = FALSE]
           i == Installed(s, x.plan, Live(x))
<1>1. x.plan \in Nat /\ Live(x) \in Nat /\ x.triggered \in BOOLEAN
  BY Fields
<1>2. ASSUME NEW q \in Seq(Nat), NEW r, r = [x EXCEPT !.queue = q, !.in_flight = FALSE]
      PROVE  /\ r \in TokenState /\ r.queue = q /\ r.in_flight = FALSE /\ Aside(x, r)
             /\ r.pos = x.pos /\ r.arm = x.arm /\ r.plan = x.plan /\ r.triggered = x.triggered
  BY <1>2 DEF TokenState, Aside
<1>3. <<>> \in Seq(Nat)
  OBVIOUS
<1>4. /\ e \in TokenState /\ e.queue = <<>> /\ e.in_flight = FALSE /\ Aside(x, e)
      /\ e.pos = x.pos /\ e.arm = x.arm /\ e.plan = x.plan /\ e.triggered = x.triggered
  BY <1>2, <1>3, Zenon
<1>5. /\ y \in {e, n, i}
      /\ y = e => ~(x.plan > 0 /\ (x.triggered \/ Live(x) = 0)) \/ y \in {n, i}
      /\ y = n => y = e \/ y = i \/ x.plan = 0 \/ Live(x) = 0 \/ (b /\ x.triggered)
  BY <1>1 DEF ExitDone
<1> HIDE DEF e
<1>6. /\ s \in TokenState /\ s.plan = 0 /\ s.triggered = FALSE /\ s.arm = x.arm /\ Aside(x, s)
      /\ s.queue = <<>> /\ s.pos = x.pos /\ s.in_flight = FALSE
  BY <1>4, NoSessionType, NoSessionFields DEF Aside
<1> HIDE DEF s
<1>7. /\ n.plan = 0 /\ n.triggered = FALSE /\ n.arm = x.arm /\ Aside(x, n)
      /\ n.queue = <<>> /\ n.pos = x.pos /\ n.in_flight = FALSE
  <2>1. ASSUME NEW r, r = [s EXCEPT !.grace = FALSE]
        PROVE  /\ r.plan = s.plan /\ r.triggered = s.triggered /\ r.arm = s.arm /\ Aside(s, r)
               /\ r.queue = s.queue /\ r.pos = s.pos /\ r.in_flight = s.in_flight
    BY <1>6, <2>1 DEF TokenState, Aside
  <2> HIDE DEF n
  <2> QED BY <1>6, <2>1 DEF n, Aside
<1>8. /\ i.plan = x.plan /\ i.triggered = FALSE /\ i.arm = x.arm /\ Aside(x, i)
      /\ i.queue = <<>> /\ i.pos = x.pos /\ i.in_flight = FALSE
  <2>1. i.queue = s.queue /\ i.pos = s.pos /\ i.in_flight = s.in_flight
    BY <1>1, <1>6, InstalledType
  <2>2. i.plan = s.plan + x.plan /\ i.triggered = FALSE /\ i.arm = s.arm /\ Aside(s, i)
    BY <1>1, <1>6, InstalledFields
  <2> QED BY <1>1, <1>6, <2>1, <2>2 DEF Aside
<1> HIDE DEF n, i
<1>9. CASE y = n
  BY <1>5, <1>7, <1>8, <1>9, <1>1, <1>4
<1>10. CASE y = i
  BY <1>1, <1>8, <1>10
<1>11. CASE y = e /\ y \notin {n, i}
  BY <1>1, <1>4, <1>5, <1>11
<1> QED BY <1>5, <1>9, <1>10, <1>11

\* PositionsLoaded.
LEMMA RehydratedFields ==
  ASSUME NEW x \in TokenState, NEW y, y = Rehydrated(x)
  PROVE  /\ y \in TokenState /\ Aside(x, y) /\ y.pos = x.pos
         /\ x.plan > 0 \/ x.pos > 0 =>
              y.plan = 0 /\ y.triggered = FALSE /\ y.queue = <<>> /\ y.in_flight = FALSE
         /\ ~(x.plan > 0 \/ x.pos > 0) =>
              /\ y.plan = x.plan /\ y.triggered = x.triggered
              /\ y.queue = x.queue /\ y.in_flight = x.in_flight
         /\ y.arm = x.pos
<1>1. x.plan \in Nat /\ x.pos \in Nat
  BY Fields
<1> DEFINE c == Cleared(x)
<1>2. /\ c \in TokenState /\ Bare(c) /\ Aside(x, c) /\ c.pos = x.pos
      /\ c.queue = <<>> /\ c.in_flight = FALSE
  BY ClearedType, ClearedFields
<1>3. CASE x.pos = 0 /\ x.plan > 0
  BY <1>1, <1>2, <1>3 DEF Rehydrated, Bare
<1>4. CASE x.pos = 0 /\ ~(x.plan > 0)
  <2>1. y = [x EXCEPT !.arm = 0]
    BY <1>4 DEF Rehydrated
  <2>2. /\ y \in TokenState /\ Aside(x, y) /\ y.pos = x.pos /\ y.plan = x.plan
        /\ y.triggered = x.triggered /\ y.queue = x.queue /\ y.in_flight = x.in_flight /\ y.arm = 0
    BY <2>1 DEF TokenState, Aside
  <2> QED BY <1>1, <1>4, <2>2
<1>5. CASE x.pos # 0
  <2> HIDE DEF c
  <2>1. y = [c EXCEPT !.arm = x.pos]
    BY <1>5 DEF Rehydrated, c
  <2>2. /\ y \in TokenState /\ Aside(c, y) /\ y.pos = c.pos /\ y.plan = c.plan
        /\ y.triggered = c.triggered /\ y.queue = c.queue /\ y.in_flight = c.in_flight
        /\ y.arm = x.pos
    BY <1>1, <1>2, <2>1 DEF TokenState, Aside
  <2> QED BY <1>1, <1>2, <1>5, <2>2 DEF Aside, Bare
<1> QED BY <1>3, <1>4, <1>5

-------------------------------------------------------------------------------
(* TrippedExits: a trail that tripped without an exit queued or under way has a SELL of
   the user whose fill is still to come, and that SELL is counted. *)

Unbooked(v) ==
  {k \in Tasks(v, "manual") :
     task[k].pc = "post" \/ (task[k].pc = "ack" /\ ~trades[task[k].trade].applied)}

Stuck(x) == x.triggered /\ x.queue = <<>> /\ ~x.in_flight

\* What the task of a SELL of the user is told of is its own trade.
ManualInv ==
  \A k \in Task : At(k, "manual", "ack") =>
    trades[task[k].trade].token = task[k].token /\ trades[task[k].trade].by = "user"

TripOK(v) ==
  /\ tok[v].triggered => tok[v].plan > 0
  /\ "reload" \notin scenario.faults => tok[v].manual >= Cardinality(Tasks(v, "manual"))
  /\ "sells_overlap" \notin scenario.faults => \A j, k \in Tasks(v, "manual") : j = k
  /\ Stuck(tok[v]) => Unbooked(v) # {} /\ tok[v].manual >= Cardinality(Tasks(v, "manual"))

NoRefusal ==
  Only(FaultNames \ {"manual_fails"}) /\ ~({"sells_overlap", "reload"} \subseteq scenario.faults)

TripInv == ManualInv /\ (NoRefusal => \A v \in Token : TripOK(v))

\* What one task's change leaves alone.
LEMMA OneTask ==
  ASSUME task \in [Task -> TaskType], NEW k \in Task, NEW r, task' = [task EXCEPT ![k] = r]
  PROVE  /\ task'[k] = r
         /\ \A j \in Task \ {k} : task'[j] = task[j]
  OBVIOUS

\* A task that starts was off.
LEMMA StartedTask ==
  ASSUME task \in [Task -> TaskType], NEW kind \in Kinds, NEW pc, NEW t, NEW n, NEW tr,
         Started(kind, pc, t, n, tr)
  PROVE  \E k \in Task :
           /\ task[k].kind = "none" /\ task[k].pc = "post"
           /\ task'[k].kind = kind /\ task'[k].pc = pc /\ task'[k].token = t
           /\ task'[k].lots = n /\ task'[k].trade = tr
           /\ \A j \in Task \ {k} : task'[j] = task[j]
<1> DEFINE r == [kind |-> kind, pc |-> pc, token |-> t, lots |-> n, tries |-> 0, trade |-> tr]
<1>1. PICK k \in Free : task' = [task EXCEPT ![k] = r]
  BY DEF Started
<1>2. k \in Task /\ task[k].kind = "none" /\ task[k].pc = "post"
  BY <1>1 DEF Free, Off
<1>3. r.kind = kind /\ r.token = t /\ r.pc = pc /\ r.trade = tr /\ r.lots = n
  OBVIOUS
<1> HIDE DEF r
<1>4. task'[k] = r /\ \A j \in Task \ {k} : task'[j] = task[j]
  BY <1>1, <1>2, OneTask
<1> QED BY <1>2, <1>3, <1>4

\* Tasks are finitely many.
LEMMA TasksFinite ==
  ASSUME NEW v, NEW kind
  PROVE  /\ IsFiniteSet(Tasks(v, kind)) /\ Cardinality(Tasks(v, kind)) \in Nat
         /\ Cardinality(Tasks(v, kind)) = 0 <=> Tasks(v, kind) = {}
<1>1. IsFiniteSet(Task)
  BY TrailingExitAssumption, FS_Interval DEF Task
<1>2. Tasks(v, kind) \subseteq Task
  BY DEF Tasks
<1>3. IsFiniteSet(Tasks(v, kind))
  BY <1>1, <1>2, FS_Subset
<1> QED BY <1>3, FS_CardinalityType, FS_EmptySet

\* The fields the trail is decided by are the same.
Same(x, y) ==
  /\ y.plan = x.plan /\ y.arm = x.arm /\ y.triggered = x.triggered /\ y.queue = x.queue
  /\ y.in_flight = x.in_flight /\ y.pos = x.pos /\ y.manual = x.manual

\* What OrderAck and UserChannelFill do with a trade.
LEMMA BookedFields ==
  ASSUME TypeOK, NEW n \in DOMAIN trades, NEW settled \in BOOLEAN, Booked(n, settled)
  PROVE  LET t == trades[n].token
             q == trades[n].lots IN
         \E x \in TokenState :
           /\ Same(tok[t], x) /\ x.stop = IF settled THEN FALSE ELSE tok[t].stop
           /\ \A v \in Token \ {t} : tok'[v] = tok[v]
           /\ trades[n].applied => tok'[t] = x
           /\ ~trades[n].applied /\ trades[n].by # "buy" => tok'[t] = Sold(x, q)
           /\ ~trades[n].applied /\ trades[n].by = "buy" => tok'[t] \in MayPromote(Bought(x, q))
<1> DEFINE t == trades[n].token
           q == trades[n].lots
           x == IF settled THEN [tok[t] EXCEPT !.stop = FALSE] ELSE tok[t]
<1>1. t \in Token /\ tok \in [Token -> TokenState] /\ tok[t] \in TokenState
  BY TradeFacts, Parts
<1>2. x \in TokenState /\ Same(tok[t], x) /\ x.stop = IF settled THEN FALSE ELSE tok[t].stop
  <2>1. ASSUME NEW r, r = [tok[t] EXCEPT !.stop = FALSE]
        PROVE  r \in TokenState /\ Same(tok[t], r) /\ r.stop = FALSE
    BY <1>1, <2>1 DEF TokenState, Same
  <2> QED BY <1>1, <2>1 DEF Same
<1>3. \E y : /\ tok' = [tok EXCEPT ![t] = y]
             /\ trades[n].applied => y = x
             /\ ~trades[n].applied /\ trades[n].by # "buy" => y = Sold(x, q)
             /\ ~trades[n].applied /\ trades[n].by = "buy" => y \in MayPromote(Bought(x, q))
  BY DEF Booked
<1> HIDE DEF x
<1> QED BY <1>1, <1>2, <1>3

\* What a handler may make of a record without a new trail that tripped and is not sold.
Calm(x, y) ==
  (x.triggered => x.plan > 0) =>
    y.manual = x.manual /\ (y.triggered => y.plan > 0) /\ (Stuck(y) => Stuck(x))

\* The SELLs of the user are the same, and those of a stuck trail still to be booked.
LEMMA TripKept ==
  ASSUME TripInv, NoRefusal, NEW v \in Token, UNCHANGED scenario,
         Tasks(v, "manual")' = Tasks(v, "manual"),
         Calm(tok[v], tok'[v]),
         Stuck(tok'[v]) => Unbooked(v) \subseteq Unbooked(v)'
  PROVE  TripOK(v)'
<1>1. TripOK(v)
  BY DEF TripInv
<1>2. /\ tok'[v].manual = tok[v].manual
      /\ tok'[v].triggered => tok'[v].plan > 0
      /\ Stuck(tok'[v]) => Stuck(tok[v])
  BY <1>1 DEF TripOK, Calm
<1> QED BY <1>1, <1>2 DEF TripOK

\* What is known of a trade stays known.
TradesStay ==
  \A n \in DOMAIN trades :
    n \in DOMAIN trades' /\ trades'[n].token = trades[n].token /\ trades'[n].by = trades[n].by

\* The user's tasks go on unchanged.
ManualsStay ==
  \A j \in Task : (task[j].kind = "manual" \/ task'[j].kind = "manual") => task'[j] = task[j]

LEMMA ManualsStayed ==
  ASSUME TaskInv, ManualInv, ManualsStay, TradesStay
  PROVE  /\ ManualInv'
         /\ \A v \in Token :
              /\ Tasks(v, "manual")' = Tasks(v, "manual")
              /\ (\A n \in DOMAIN trades : trades[n].token = v /\ ~trades[n].applied =>
                    trades[n].by = "buy" \/ ~trades'[n].applied)
                 => Unbooked(v) \subseteq Unbooked(v)'
<1>0. \A j \in Task : task[j].pc = "ack" => task[j].trade \in DOMAIN trades
  BY DEF TaskInv
<1>1. ManualInv'
  <2> SUFFICES ASSUME NEW k \in Task, At(k, "manual", "ack")'
               PROVE  /\ trades'[task'[k].trade].token = task'[k].token
                      /\ trades'[task'[k].trade].by = "user"
    BY DEF ManualInv, Task
  <2>1. task'[k] = task[k] /\ At(k, "manual", "ack")
    BY DEF ManualsStay, At
  <2> QED BY <1>0, <2>1 DEF ManualInv, TradesStay, At
<1>2. ASSUME NEW v \in Token
      PROVE  /\ Tasks(v, "manual")' = Tasks(v, "manual")
             /\ (\A n \in DOMAIN trades : trades[n].token = v /\ ~trades[n].applied =>
                   trades[n].by = "buy" \/ ~trades'[n].applied)
                => Unbooked(v) \subseteq Unbooked(v)'
  <2>1. Tasks(v, "manual")' = Tasks(v, "manual")
    BY DEF Tasks, Task, ManualsStay
  <2>2. ASSUME \A n \in DOMAIN trades : trades[n].token = v /\ ~trades[n].applied =>
                 trades[n].by = "buy" \/ ~trades'[n].applied,
               NEW k \in Unbooked(v)
        PROVE  k \in Unbooked(v)'
    <3>1. k \in Task /\ task[k].kind = "manual" /\ task[k].token = v /\ task'[k] = task[k]
      BY <2>2 DEF Unbooked, Tasks, ManualsStay
    <3>2. k \in Tasks(v, "manual")'
      BY <2>1, <2>2 DEF Unbooked
    <3>3. CASE task[k].pc = "post"
      BY <3>1, <3>2, <3>3 DEF Unbooked
    <3>4. CASE task[k].pc = "ack" /\ ~trades[task[k].trade].applied
      <4>1. /\ task[k].trade \in DOMAIN trades /\ trades[task[k].trade].token = v
            /\ trades[task[k].trade].by = "user"
        BY <1>0, <3>1, <3>4 DEF ManualInv, At
      <4>2. ~trades'[task'[k].trade].applied /\ task'[k].pc = "ack"
        BY <2>2, <3>1, <3>4, <4>1
      <4> QED BY <3>2, <4>2 DEF Unbooked
    <3> QED BY <2>2, <3>3, <3>4 DEF Unbooked
  <2> QED BY <2>1, <2>2
<1> QED BY <1>1, <1>2

\* A step that only starts, moves or ends the orders of others.
LEMMA OthersTrip ==
  ASSUME TaskInv, TripInv, UNCHANGED scenario, ManualsStay, TradesStay,
         \A n \in DOMAIN trades : trades'[n].applied = trades[n].applied,
         \A v \in Token : Calm(tok[v], tok'[v])
  PROVE  TripInv'
<1>1. ManualInv' /\ \A v \in Token : /\ Tasks(v, "manual")' = Tasks(v, "manual")
                                     /\ Unbooked(v) \subseteq Unbooked(v)'
  BY ManualsStayed DEF TripInv
<1>2. ASSUME NoRefusal', NEW v \in Token
      PROVE  TripOK(v)'
  <2>1. NoRefusal
    BY <1>2 DEF NoRefusal, Only
  <2> QED BY <1>1, <2>1, TripKept
<1> QED BY <1>1, <1>2 DEF TripInv

\* The exchange adds a trade and changes none.
LEMMA ExecuteAdds ==
  ASSUME TypeOK, NEW t \in Token, NEW by \in {"buy", "exit", "stop", "user"}, NEW q \in Nat,
         Execute(t, by, q)
  PROVE  /\ \A n \in DOMAIN trades : n \in DOMAIN trades' /\ trades'[n] = trades[n]
         /\ Len(trades') \in DOMAIN trades' /\ Len(trades') \notin DOMAIN trades
         /\ DOMAIN trades' = DOMAIN trades \cup {Len(trades')}
         /\ trades'[Len(trades')].token = t /\ trades'[Len(trades')].by = by
         /\ trades'[Len(trades')].applied = FALSE /\ trades'[Len(trades')].told = FALSE
         /\ TradesStay
<1> DEFINE e == Trade(t, by, q)
<1>1. trades \in Seq(TradeType) /\ e \in TradeType
  BY Parts DEF Trade, TradeType
<1>2. trades' = Append(trades, e)
  BY DEF Execute
<1>3. e.token = t /\ e.by = by /\ e.applied = FALSE /\ e.told = FALSE
  BY DEF Trade
<1> HIDE DEF e
<1>4. /\ trades' \in Seq(TradeType) /\ Len(trades') = Len(trades) + 1
      /\ \A i \in 1..Len(trades) : trades'[i] = trades[i]
      /\ trades'[Len(trades) + 1] = e
  BY <1>1, <1>2, AppendProperties
<1>5. /\ Len(trades) \in Nat /\ DOMAIN trades = 1..Len(trades)
      /\ DOMAIN trades' = 1..Len(trades')
  BY <1>1, <1>4, LenProperties
<1>6. \A n \in DOMAIN trades : n \in DOMAIN trades' /\ trades'[n] = trades[n]
  BY <1>4, <1>5
<1>7. TradesStay
  BY <1>6 DEF TradesStay
<1>8. /\ Len(trades') \in DOMAIN trades' /\ Len(trades') \notin DOMAIN trades
      /\ DOMAIN trades' = DOMAIN trades \cup {Len(trades')}
  BY <1>4, <1>5
<1>9. trades'[Len(trades')] = e
  BY <1>4
<1> QED BY <1>3, <1>6, <1>7, <1>8, <1>9

LEMMA StillThere == UNCHANGED trades => TradesStay
  BY DEF TradesStay

\* One of the tasks that are not the user's moves, starts or ends.
LEMMA ManualsAside ==
  ASSUME task \in [Task -> TaskType], NEW k \in Task, task[k].kind # "manual",
         task'[k].kind # "manual", \A j \in Task \ {k} : task'[j] = task[j]
  PROVE  ManualsStay
  BY DEF ManualsStay

\* A task that goes on keeps its kind and its token.
LEMMA MovedTask ==
  ASSUME task \in [Task -> TaskType], NEW k \in Task, NEW pc, Goto(k, pc) \/ Repeat(k)
  PROVE  /\ task'[k].kind = task[k].kind /\ task'[k].token = task[k].token
         /\ task'[k].trade = task[k].trade
         /\ Goto(k, pc) => task'[k].pc = pc
         /\ Repeat(k) => task'[k].pc \in {task[k].pc, "fail"}
         /\ \A j \in Task \ {k} : task'[j] = task[j]
<1>1. task[k] \in TaskType
  OBVIOUS
<1>2. CASE Goto(k, pc) /\ ~Repeat(k)
  <2> DEFINE r == [task[k] EXCEPT !.pc = pc]
  <2>1. task' = [task EXCEPT ![k] = r]
    BY <1>2 DEF Goto
  <2>2. r.kind = task[k].kind /\ r.token = task[k].token /\ r.pc = pc /\ r.trade = task[k].trade
    BY <1>1 DEF TaskType
  <2> HIDE DEF r
  <2> QED BY <1>2, <2>1, <2>2, OneTask
<1>3. CASE Repeat(k)
  <2>1. PICK r : /\ task' = [task EXCEPT ![k] = r]
                 /\ \/ r = [task[k] EXCEPT !.pc = "fail"]
                    \/ r = [task[k] EXCEPT !.tries = task[k].tries + 1]
    BY <1>3 DEF Repeat, Goto
  <2>2. /\ r.kind = task[k].kind /\ r.token = task[k].token /\ r.pc \in {task[k].pc, "fail"}
        /\ r.trade = task[k].trade
    BY <1>1, <2>1 DEF TaskType
  <2>3. Goto(k, pc) => task'[k].pc = pc
    BY <1>1 DEF Goto, TaskType
  <2> QED BY <2>1, <2>2, <2>3, OneTask
<1> QED BY <1>2, <1>3

LEMMA AckedTask ==
  ASSUME task \in [Task -> TaskType], NEW k \in Task, NEW q, NEW n,
         task' = [task EXCEPT ![k].pc = "ack", ![k].lots = q, ![k].trade = n]
  PROVE  /\ task'[k].kind = task[k].kind /\ task'[k].token = task[k].token
         /\ task'[k].pc = "ack" /\ task'[k].trade = n
         /\ \A j \in Task \ {k} : task'[j] = task[j]
<1> DEFINE r == [task[k] EXCEPT !.pc = "ack", !.lots = q, !.trade = n]
<1>1. task[k] \in TaskType /\ task' = [task EXCEPT ![k] = r]
  OBVIOUS
<1>2. r.kind = task[k].kind /\ r.token = task[k].token /\ r.pc = "ack" /\ r.trade = n
  BY <1>1 DEF TaskType
<1> HIDE DEF r
<1> QED BY <1>1, <1>2, OneTask

LEMMA CalmSame == \A x : Calm(x, x)
  BY DEF Calm

\* The exchange, and the order tasks of the others.
LEMMA ExchangeTrip ==
  ASSUME IInv, TripInv, NEW t \in Token,
         \/ \E atOnce \in BOOLEAN : BuyFilled(t, atOnce)
         \/ LimitSell(t) \/ RestFilled(t) \/ RestCancelled(t)
  PROVE  TripInv'
<1>0. /\ TypeOK /\ TaskInv /\ task \in [Task -> TaskType] /\ held \in [Token -> Nat]
      /\ rest \in [Token -> RestType] /\ UNCHANGED <<scenario, tok>>
  BY Parts DEF IInv, BuyFilled, LimitSell, RestFilled, RestCancelled
<1>1. TradesStay /\ \A n \in DOMAIN trades : trades'[n].applied = trades[n].applied
  <2>1. CASE UNCHANGED trades
    BY <2>1, StillThere
  <2>2. CASE \E q \in Nat, by \in {"buy", "exit", "stop", "user"} : Execute(t, by, q)
    BY <1>0, <2>2, ExecuteAdds
  <2>3. CASE \E atOnce \in BOOLEAN : BuyFilled(t, atOnce)
    BY <2>2, <2>3, TrailingExitAssumption DEF BuyFilled
  <2>4. CASE RestFilled(t)
    <3>1. PICK q \in 1..Lower(rest[t].lots, held[t]) : Execute(t, rest[t].by, q)
      BY <2>4 DEF RestFilled
    <3>2. rest[t] \in RestType /\ rest[t].lots \in Nat /\ held[t] \in Nat
      BY <1>0 DEF RestType, NoOrder
    <3>3. Lower(rest[t].lots, held[t]) <= rest[t].lots /\ Lower(rest[t].lots, held[t]) \in Nat
      BY <3>2, NatOps
    <3>4. q \in Nat /\ rest[t].lots > 0
      <4> DEFINE l == Lower(rest[t].lots, held[t])
      <4>1. q \in 1..l /\ l \in Nat /\ l <= rest[t].lots
        BY <3>1, <3>3
      <4> HIDE DEF l
      <4> QED BY <3>2, <4>1
    <3>5. rest[t].by \in {"exit", "stop", "user"}
      BY <3>2, <3>4 DEF RestType, NoOrder
    <3> QED BY <2>2, <3>1, <3>4, <3>5
  <2>5. CASE LimitSell(t) \/ RestCancelled(t)
    BY <2>1, <2>5 DEF LimitSell, RestCancelled
  <2> QED BY <2>3, <2>4, <2>5
<1>2. ManualsStay
  <2>1. CASE UNCHANGED task
    BY <2>1 DEF ManualsStay
  <2>2. CASE Started("buy", "ack", t, Lot, Len(trades'))
    <3>1. "buy" \in Kinds
      BY DEF Kinds
    <3>2. PICK k \in Task : task[k].kind = "none" /\ task'[k].kind = "buy"
                            /\ \A j \in Task \ {k} : task'[j] = task[j]
      BY <1>0, <2>2, <3>1, StartedTask
    <3> QED BY <1>0, <3>2, ManualsAside
  <2> QED BY <2>1, <2>2 DEF BuyFilled, LimitSell, RestFilled, RestCancelled
<1>3. \A v \in Token : Calm(tok[v], tok'[v])
  BY <1>0, CalmSame
<1> QED BY <1>0, <1>1, <1>2, <1>3, OthersTrip

\* What a task's fill at its POST adds.
LEMMA PostedFill ==
  ASSUME IInv, NEW k \in Task, task[k].kind # "none",
         NEW by \in {"exit", "stop", "user"}, NEW q \in 1..Lower(task[k].lots, held[task[k].token]),
         Execute(task[k].token, by, q)
  PROVE  /\ task[k].token \in Token /\ q \in Nat
         /\ \A n \in DOMAIN trades : n \in DOMAIN trades' /\ trades'[n] = trades[n]
         /\ Len(trades') \in DOMAIN trades' /\ Len(trades') \notin DOMAIN trades
         /\ DOMAIN trades' = DOMAIN trades \cup {Len(trades')}
         /\ trades'[Len(trades')].token = task[k].token /\ trades'[Len(trades')].by = by
         /\ trades'[Len(trades')].applied = FALSE /\ trades'[Len(trades')].told = FALSE
         /\ TradesStay
<1>1. /\ TypeOK /\ held \in [Token -> Nat] /\ task[k] \in TaskType /\ task[k].token \in Token
  BY Parts DEF IInv, TaskInv
<1>2. task[k].lots \in Nat /\ held[task[k].token] \in Nat
  BY <1>1 DEF TaskType
<1>3. q \in Nat
  BY <1>2
<1> QED BY <1>1, <1>3, ExecuteAdds

LEMMA OrdersTrip ==
  ASSUME IInv, TripInv, NEW k \in Task,
         \/ ExitRefused(k) \/ ExitFilled(k) \/ ExitRests(k) \/ StopPosted(k) \/ StopRefused(k)
  PROVE  TripInv'
<1>0. /\ TypeOK /\ TaskInv /\ task \in [Task -> TaskType] /\ UNCHANGED <<scenario, tok>>
      /\ task[k].kind \notin {"none", "manual"}
  BY Parts DEF IInv, ExitRefused, ExitFilled, ExitRests, StopPosted, StopRefused, At
<1> DEFINE Fills(by) == \E q \in 1..Lower(task[k].lots, held[task[k].token]) :
                           Execute(task[k].token, by, q)
           Acked == \E q, n : task' = [task EXCEPT ![k].pc = "ack", ![k].lots = q, ![k].trade = n]
           Moved == Repeat(k) \/ \E pc \in {"done", "fail"} : Goto(k, pc)
<1>1. (UNCHANGED trades \/ Fills("exit") \/ Fills("stop")) /\ (Acked \/ Moved)
  <2>1. CASE ExitRefused(k) \/ ExitRests(k) \/ StopRefused(k)
    BY <2>1 DEF ExitRefused, ExitRests, StopRefused
  <2>2. CASE ExitFilled(k)
    BY <2>2 DEF ExitFilled
  <2>3. CASE StopPosted(k)
    BY <2>3 DEF StopPosted
  <2> QED BY <2>1, <2>2, <2>3
<1>2. TradesStay /\ \A n \in DOMAIN trades : trades'[n].applied = trades[n].applied
  <2>1. CASE UNCHANGED trades
    BY <2>1, StillThere
  <2>2. ASSUME NEW by \in {"exit", "stop"}, Fills(by)
        PROVE  TradesStay /\ \A n \in DOMAIN trades : trades'[n].applied = trades[n].applied
    BY <1>0, <2>2, PostedFill
  <2> QED BY <1>1, <2>1, <2>2
<1>3. ManualsStay
  <2>1. task'[k].kind = task[k].kind /\ \A j \in Task \ {k} : task'[j] = task[j]
    <3>1. CASE Acked
      <4>1. PICK q, n : task' = [task EXCEPT ![k].pc = "ack", ![k].lots = q, ![k].trade = n]
        BY <3>1
      <4> QED BY <1>0, <4>1, AckedTask
    <3>2. CASE Moved
      BY <1>0, <3>2, MovedTask
    <3> QED BY <1>1, <3>1, <3>2
  <2> QED BY <1>0, <2>1, ManualsAside
<1>4. \A v \in Token : Calm(tok[v], tok'[v])
  BY <1>0, CalmSame
<1> QED BY <1>0, <1>2, <1>3, <1>4, OthersTrip

\* The POST of a SELL of the user: its task is told of the trade, or of nothing.
LEMMA ManualPostTrip ==
  ASSUME IInv, TripInv, NEW k \in Task, ManualPosted(k)
  PROVE  TripInv'
<1>0. /\ TypeOK /\ TaskInv /\ task \in [Task -> TaskType] /\ UNCHANGED <<scenario, tok>>
      /\ task[k].kind = "manual" /\ task[k].pc = "post"
  BY Parts DEF IInv, ManualPosted, At
<1>1. CASE \E q \in 1..Lower(task[k].lots, held[task[k].token]) :
             /\ Execute(task[k].token, "user", q)
             /\ task' = [task EXCEPT ![k].pc = "ack", ![k].lots = q, ![k].trade = Len(trades')]
  <2>1. PICK q \in 1..Lower(task[k].lots, held[task[k].token]) :
          /\ Execute(task[k].token, "user", q)
          /\ task' = [task EXCEPT ![k].pc = "ack", ![k].lots = q, ![k].trade = Len(trades')]
    BY <1>1
  <2>2. /\ \A n \in DOMAIN trades : trades'[n] = trades[n]
        /\ trades'[Len(trades')].token = task[k].token /\ trades'[Len(trades')].by = "user"
        /\ trades'[Len(trades')].applied = FALSE
    BY <1>0, <2>1, PostedFill
  <2>3. /\ task'[k].kind = "manual" /\ task'[k].token = task[k].token
        /\ task'[k].pc = "ack" /\ task'[k].trade = Len(trades')
        /\ \A j \in Task \ {k} : task'[j] = task[j]
    BY <1>0, <2>1, AckedTask
  <2>4. ManualInv'
    <3> SUFFICES ASSUME NEW j \in Task, At(j, "manual", "ack")'
                 PROVE  /\ trades'[task'[j].trade].token = task'[j].token
                        /\ trades'[task'[j].trade].by = "user"
      BY DEF ManualInv, Task
    <3>1. CASE j = k
      BY <2>2, <2>3, <3>1
    <3>2. CASE j # k
      <4>1. task'[j] = task[j] /\ At(j, "manual", "ack") /\ task[j].trade \in DOMAIN trades
        BY <1>0, <2>3, <3>2 DEF At, TaskInv
      <4> QED BY <2>2, <4>1 DEF TripInv, ManualInv
    <3> QED BY <3>1, <3>2
  <2>5. ASSUME NoRefusal', NEW v \in Token
        PROVE  TripOK(v)'
    <3>1. NoRefusal
      BY <1>0, <2>5 DEF NoRefusal, Only
    <3>2. Tasks(v, "manual")' = Tasks(v, "manual")
      BY <1>0, <2>3 DEF Tasks, Task
    <3>3. Unbooked(v) \subseteq Unbooked(v)'
      <4> SUFFICES ASSUME NEW j \in Unbooked(v) PROVE j \in Unbooked(v)'
        OBVIOUS
      <4>1. j \in Tasks(v, "manual")' /\ j \in Task
        BY <3>2 DEF Unbooked, Tasks
      <4>2. CASE j = k
        BY <2>2, <2>3, <4>1, <4>2 DEF Unbooked
      <4>3. CASE j # k
        <5>1. task'[j] = task[j] /\ (task[j].pc = "ack" => task[j].trade \in DOMAIN trades)
          BY <1>0, <2>3, <4>1, <4>3 DEF TaskInv
        <5> QED BY <2>2, <4>1, <5>1 DEF Unbooked
      <4> QED BY <4>2, <4>3
    <3>4. Calm(tok[v], tok'[v])
      BY <1>0, CalmSame
    <3> QED BY <1>0, <3>1, <3>2, <3>3, <3>4, TripKept
  <2> QED BY <2>4, <2>5 DEF TripInv
<1>2. CASE "manual_fails" \in scenario.faults /\ Goto(k, "done") /\ UNCHANGED trades
  <2>1. ~NoRefusal'
    BY <1>0, <1>2 DEF NoRefusal, Only
  <2>2. task'[k].pc = "done" /\ \A j \in Task \ {k} : task'[j] = task[j]
    BY <1>0, <1>2, MovedTask
  <2>3. ManualInv'
    <3> SUFFICES ASSUME NEW j \in Task, At(j, "manual", "ack")'
                 PROVE  /\ trades'[task'[j].trade].token = task'[j].token
                        /\ trades'[task'[j].trade].by = "user"
      BY DEF ManualInv, Task
    <3>1. task'[j] = task[j] /\ At(j, "manual", "ack")
      BY <2>2 DEF At
    <3> QED BY <1>2, <3>1 DEF TripInv, ManualInv
  <2> QED BY <2>1, <2>3 DEF TripInv
<1> QED BY <1>1, <1>2 DEF ManualPosted

LEMMA CalmFields ==
  ASSUME NEW x \in TokenState
  PROVE  /\ \A y \in MayPromote(x) : Calm(x, y) /\ y \in TokenState
         /\ \A q \in Nat : Calm(x, Sold(x, q)) /\ ~Stuck(Sold(x, q))
         /\ \A q \in Nat : \A y \in MayPromote(Bought(x, q)) : Calm(x, y)
<1>1. ASSUME NEW z \in TokenState, NEW y \in MayPromote(z)
      PROVE  Calm(z, y) /\ y \in TokenState
  <2>1. y = z \/ y = Promoted(z)
    BY DEF MayPromote
  <2> QED BY <2>1, PromotedFields, CalmSame DEF Calm, Stuck, Aside
<1>2. ASSUME NEW q \in Nat PROVE Calm(x, Sold(x, q)) /\ ~Stuck(Sold(x, q))
  <2>1. Sold(x, q).triggered = FALSE /\ Aside(x, Sold(x, q))
    BY SoldFields
  <2> QED BY <2>1 DEF Calm, Stuck, Aside
<1>3. ASSUME NEW q \in Nat, NEW y \in MayPromote(Bought(x, q)) PROVE Calm(x, y)
  <2> DEFINE z == Bought(x, q)
  <2>1. /\ z \in TokenState /\ Aside(x, z) /\ z.queue = x.queue /\ z.in_flight = x.in_flight
        /\ z.triggered = FALSE \/ (z.plan = x.plan /\ z.triggered = x.triggered)
    BY BoughtFields
  <2> HIDE DEF z
  <2>2. Calm(x, z)
    BY <2>1 DEF Calm, Stuck, Aside
  <2>3. Calm(z, y)
    BY <1>1, <1>3, <2>1 DEF z
  <2> QED BY <2>2, <2>3 DEF Calm
<1> QED BY <1>1, <1>2, <1>3

LEMMA BookedCalm ==
  ASSUME TypeOK, NEW n \in DOMAIN trades, NEW settled \in BOOLEAN, Booked(n, settled)
  PROVE  /\ \A v \in Token : Calm(tok[v], tok'[v])
         /\ Stuck(tok'[trades[n].token]) => trades[n].applied \/ trades[n].by = "buy"
<1> DEFINE t == trades[n].token
           q == trades[n].lots
<1>0. t \in Token /\ q \in Nat
  BY TradeFacts
<1>1. PICK x \in TokenState :
         /\ Same(tok[t], x)
         /\ \A v \in Token \ {t} : tok'[v] = tok[v]
         /\ trades[n].applied => tok'[t] = x
         /\ ~trades[n].applied /\ trades[n].by # "buy" => tok'[t] = Sold(x, q)
         /\ ~trades[n].applied /\ trades[n].by = "buy" => tok'[t] \in MayPromote(Bought(x, q))
  BY BookedFields
<1> HIDE DEF t, q
<1>2. Calm(tok[t], x)
  BY <1>1 DEF Same, Calm, Stuck
<1>3. Calm(x, tok'[t])
  BY <1>0, <1>1, CalmFields, CalmSame
<1>4. Calm(tok[t], tok'[t])
  BY <1>2, <1>3 DEF Calm
<1>5. Stuck(tok'[t]) => trades[n].applied \/ trades[n].by = "buy"
  BY <1>0, <1>1, CalmFields
<1> QED BY <1>0, <1>1, <1>4, <1>5, CalmSame DEF t

\* The trade handled is the only one marked.
LEMMA Marked ==
  ASSUME TypeOK, NEW n \in DOMAIN trades,
         \/ trades' = [trades EXCEPT ![n].applied = TRUE]
         \/ trades' = [trades EXCEPT ![n].applied = TRUE, ![n].told = TRUE]
  PROVE  /\ TradesStay /\ DOMAIN trades' = DOMAIN trades
         /\ trades'[n].applied = TRUE /\ trades'[n].by = trades[n].by
         /\ trades'[n].token = trades[n].token
         /\ trades[n].told => trades'[n].told
         /\ \A m \in DOMAIN trades \ {n} : trades'[m] = trades[m]
<1>1. trades[n] \in TradeType
  BY TradeFacts
<1>2. PICK r \in {[trades[n] EXCEPT !.applied = TRUE],
                  [trades[n] EXCEPT !.applied = TRUE, !.told = TRUE]} :
        trades' = [trades EXCEPT ![n] = r]
  OBVIOUS
<1>3. /\ r.applied = TRUE /\ r.by = trades[n].by /\ r.token = trades[n].token
      /\ (trades[n].told => r.told)
  BY <1>1, <1>2 DEF TradeType
<1>4. /\ DOMAIN trades' = DOMAIN trades /\ trades'[n] = r
      /\ \A m \in DOMAIN trades \ {n} : trades'[m] = trades[m]
  BY <1>2
<1>5. TradesStay
  BY <1>3, <1>4 DEF TradesStay
<1> QED BY <1>3, <1>4, <1>5

LEMMA FillsTrip ==
  ASSUME IInv, TripInv,
         \/ \E k \in Task : OrderAck(k)
         \/ \E n \in DOMAIN trades : UserChannelFill(n)
  PROVE  TripInv'
<1>0. TypeOK /\ TaskInv /\ task \in [Task -> TaskType] /\ ManualInv
  BY Parts DEF IInv, TripInv
\* The trade of a stuck trail's token was booked before, or is a BUY.
<1>1. ASSUME NEW n \in DOMAIN trades, NEW b \in BOOLEAN, Booked(n, b),
             \/ trades' = [trades EXCEPT ![n].applied = TRUE]
             \/ trades' = [trades EXCEPT ![n].applied = TRUE, ![n].told = TRUE],
             NEW v \in Token, Stuck(tok'[v]), NEW m \in DOMAIN trades,
             trades[m].token = v, ~trades[m].applied
      PROVE  trades[m].by = "buy" \/ ~trades'[m].applied
  BY <1>0, <1>1, BookedCalm, Marked
<1>2. ASSUME UNCHANGED scenario, ManualsStay, NEW n \in DOMAIN trades, NEW b \in BOOLEAN,
             Booked(n, b),
             \/ trades' = [trades EXCEPT ![n].applied = TRUE]
             \/ trades' = [trades EXCEPT ![n].applied = TRUE, ![n].told = TRUE]
      PROVE  TripInv'
  <2>1. TradesStay /\ \A v \in Token : Calm(tok[v], tok'[v])
    BY <1>0, <1>2, BookedCalm, Marked
  <2>2. ManualInv'
    BY <1>0, <1>2, <2>1, ManualsStayed
  <2>3. ASSUME NoRefusal', NEW v \in Token
        PROVE  TripOK(v)'
    <3>1. NoRefusal
      BY <1>2, <2>3 DEF NoRefusal, Only
    <3>2. Tasks(v, "manual")' = Tasks(v, "manual")
      BY <1>0, <1>2, <2>1, ManualsStayed
    <3>3. Stuck(tok'[v]) => Unbooked(v) \subseteq Unbooked(v)'
      BY <1>0, <1>1, <1>2, <2>1, ManualsStayed
    <3> QED BY <1>2, <2>1, <3>1, <3>2, <3>3, TripKept
  <2> QED BY <2>2, <2>3 DEF TripInv
<1>3. ASSUME NEW n \in DOMAIN trades, UserChannelFill(n)
      PROVE  TripInv'
  <2> DEFINE b == trades[n].by # "buy" /\ ~trades[n].applied
  <2>1. Booked(n, b) /\ trades' = [trades EXCEPT ![n].applied = TRUE, ![n].told = TRUE]
        /\ UNCHANGED <<scenario, task>>
    BY <1>3 DEF UserChannelFill
  <2>2. b \in BOOLEAN
    <3>1. trades[n].applied \in BOOLEAN
      BY <1>0, TradeFacts DEF TradeType
    <3> QED BY <3>1
  <2>3. ManualsStay
    BY <2>1 DEF ManualsStay
  <2> HIDE DEF b
  <2> QED BY <1>2, <2>1, <2>2, <2>3
<1>4. ASSUME NEW k \in Task, OrderAck(k)
      PROVE  TripInv'
  <2> DEFINE n == task[k].trade
             b == task[k].kind # "buy"
  <2>1. /\ task[k].pc = "ack" /\ Booked(n, b) /\ b \in BOOLEAN
        /\ trades' = [trades EXCEPT ![n].applied = TRUE]
        /\ UNCHANGED scenario
        /\ \E pc \in {"arm", "done"} : Goto(k, pc)
    BY <1>4 DEF OrderAck
  <2>2. n \in DOMAIN trades
    BY <1>0, <2>1 DEF TaskInv
  <2>3. /\ task'[k].kind = task[k].kind /\ task'[k].token = task[k].token
        /\ task'[k].pc # "ack" /\ \A j \in Task \ {k} : task'[j] = task[j]
    <3>1. PICK pc \in {"arm", "done"} : Goto(k, pc)
      BY <2>1
    <3>2. task'[k].pc = pc
      BY <1>0, <3>1, MovedTask
    <3> QED BY <1>0, <3>1, <3>2, MovedTask
  <2> HIDE DEF n, b
  <2>4. CASE task[k].kind # "manual"
    <3>1. ManualsStay
      BY <1>0, <2>3, <2>4, ManualsAside
    <3> QED BY <1>2, <2>1, <2>2, <3>1
  <2>5. CASE task[k].kind = "manual"
    <3>1. TradesStay /\ \A v \in Token : Calm(tok[v], tok'[v])
      BY <1>0, <2>1, <2>2, BookedCalm, Marked
    <3>2. \A j \in Task \ {k} : At(j, "manual", "ack") => task[j].trade \in DOMAIN trades
      BY <1>0 DEF At, TaskInv
    <3>3. ManualInv'
      <4> SUFFICES ASSUME NEW j \in Task, At(j, "manual", "ack")'
                   PROVE  /\ trades'[task'[j].trade].token = task'[j].token
                          /\ trades'[task'[j].trade].by = "user"
        BY DEF ManualInv, Task
      <4>1. task'[j] = task[j] /\ At(j, "manual", "ack") /\ task[j].trade \in DOMAIN trades
        BY <2>3, <3>2 DEF At
      <4> QED BY <1>0, <3>1, <4>1 DEF ManualInv, TradesStay
    <3>4. ASSUME NoRefusal', NEW v \in Token
          PROVE  TripOK(v)'
      <4>1. NoRefusal
        BY <2>1, <3>4 DEF NoRefusal, Only
      <4>2. Tasks(v, "manual")' = Tasks(v, "manual")
        BY <2>3 DEF Tasks, Task
      <4>3. ASSUME Stuck(tok'[v]), NEW j \in Unbooked(v)
            PROVE  j \in Unbooked(v)'
        <5>1. j \in Task /\ j \in Tasks(v, "manual")' /\ task[j].kind = "manual" /\ task[j].token = v
          BY <4>2, <4>3 DEF Unbooked, Tasks
        <5>2. j # k
          <6>1. SUFFICES ASSUME j = k PROVE FALSE
            OBVIOUS
          <6>2. ~trades[n].applied
            BY <2>1, <4>3, <6>1 DEF Unbooked, n
          <6>3. trades[n].token = v /\ trades[n].by = "user"
            BY <1>0, <2>1, <2>5, <5>1, <6>1 DEF ManualInv, At, n
          <6> QED BY <1>0, <2>1, <2>2, <4>3, <6>2, <6>3, BookedCalm
        <5>3. task'[j] = task[j]
          BY <2>3, <5>1, <5>2
        <5>4. CASE task[j].pc = "post"
          BY <5>1, <5>3, <5>4 DEF Unbooked
        <5>5. CASE task[j].pc = "ack" /\ ~trades[task[j].trade].applied
          <6>1. /\ task[j].trade \in DOMAIN trades /\ trades[task[j].trade].token = v
                /\ trades[task[j].trade].by = "user"
            BY <1>0, <3>2, <5>1, <5>2, <5>5 DEF ManualInv, At
          <6>2. ~trades'[task[j].trade].applied
            BY <1>1, <2>1, <2>2, <4>3, <5>5, <6>1
          <6> QED BY <5>1, <5>3, <5>5, <6>2 DEF Unbooked
        <5> QED BY <4>3, <5>4, <5>5 DEF Unbooked
      <4> QED BY <2>1, <3>1, <4>1, <4>2, <4>3, TripKept
    <3> QED BY <3>3, <3>4 DEF TripInv
  <2> QED BY <2>4, <2>5
<1> QED BY <1>3, <1>4

\* RequestTrailingArm and the reports of the exits and of the stop losses.
LEMMA ReportsTrip ==
  ASSUME IInv, TripInv, NEW k \in Task,
         \/ RequestTrailingArm(k) \/ TrailingExitDispatchDone(k) \/ StopLossSellDone(k)
  PROVE  TripInv'
<1> DEFINE t == task[k].token
           x == tok[t]
<1>0. /\ TypeOK /\ TaskInv /\ task \in [Task -> TaskType] /\ tok \in [Token -> TokenState]
      /\ task[k] \in TaskType /\ task[k].kind \in {"buy", "exit", "stop"} /\ t \in Token
      /\ task' = [task EXCEPT ![k] = Off] /\ UNCHANGED <<scenario, trades>>
  BY Parts DEF IInv, TaskInv, RequestTrailingArm, TrailingExitDispatchDone, StopLossSellDone, At
<1>1. x \in TokenState /\ x.arm \in Nat /\ task[k].lots \in Nat
  BY <1>0, Fields DEF TaskType
<1>2. ManualsStay
  <2>1. task'[k] = Off /\ \A j \in Task \ {k} : task'[j] = task[j]
    BY <1>0, OneTask
  <2>2. task'[k].kind # "manual"
    BY <2>1 DEF Off
  <2> QED BY <1>0, <2>1, <2>2, ManualsAside
<1>3. \E y : tok' = [tok EXCEPT ![t] = y] /\ Calm(x, y)
  <2>1. CASE RequestTrailingArm(k)
    <3> DEFINE n == x.arm + task[k].lots
               z == [x EXCEPT !.arm = n]
    <3>1. PICK y \in MayPromote(z) : tok' = [tok EXCEPT ![t] = y]
      BY <2>1 DEF RequestTrailingArm
    <3>2. n \in Nat
      BY <1>1
    <3> HIDE DEF n, x
    <3>3. z \in TokenState
      BY <1>1, <3>2 DEF TokenState
    <3>4. z.triggered = x.triggered /\ z.plan = x.plan /\ z.queue = x.queue
          /\ z.in_flight = x.in_flight /\ z.manual = x.manual
      BY <1>1, <3>2 DEF TokenState
    <3>5. Calm(x, z)
      BY <3>4 DEF Calm, Stuck
    <3> HIDE DEF z
    <3>6. Calm(z, y)
      BY <3>1, <3>3, CalmFields
    <3>7. Calm(x, y)
      BY <3>5, <3>6 DEF Calm
    <3> QED BY <3>1, <3>7
  <2>2. CASE TrailingExitDispatchDone(k)
    <3> DEFINE b == task[k].pc = "done"
               y == ExitDone(x, b)
    <3>1. tok' = [tok EXCEPT ![t] = y]
      BY <2>2 DEF TrailingExitDispatchDone
    <3>2. b \in BOOLEAN
      OBVIOUS
    <3>3. Good(x, market)
      BY <1>0 DEF IInv, TokInv
    <3> HIDE DEF b, x
    <3>5. y.triggered \in BOOLEAN
      BY <3>2, <3>3, ExitDoneOK, Fields DEF Good
    <3>6. y.manual = x.manual /\ (y.triggered = TRUE => x.triggered /\ x.plan = 0)
      BY <1>1, <3>2, ExitDoneFields DEF Aside
    <3> HIDE DEF y
    <3>4. x.plan \in Nat
      BY <1>1, Fields
    <3>7. Calm(x, y)
      BY <3>4, <3>5, <3>6 DEF Calm, Stuck
    <3> QED BY <3>1, <3>7
  <2>3. CASE StopLossSellDone(k)
    <3>1. PICK y \in {x, [x EXCEPT !.stop = FALSE]} : tok' = [tok EXCEPT ![t] = y]
      BY <2>3 DEF StopLossSellDone, StopDone
    <3> HIDE DEF x
    <3>2. Same(x, y)
      BY <1>1, <3>1 DEF TokenState, Same
    <3>3. Calm(x, y)
      BY <3>2 DEF Calm, Same, Stuck
    <3> QED BY <3>1, <3>3
  <2> QED BY <2>1, <2>2, <2>3
<1>4. \A v \in Token : Calm(tok[v], tok'[v])
  <2>1. PICK y : tok' = [tok EXCEPT ![t] = y] /\ Calm(x, y)
    BY <1>3
  <2> QED BY <1>0, <2>1, CalmSame
<1>5. TradesStay /\ \A n \in DOMAIN trades : trades'[n].applied = trades[n].applied
  BY <1>0, StillThere
<1> QED BY <1>0, <1>2, <1>4, <1>5, OthersTrip

\* A SELL of the user begins: the queue gives way to it and it is counted.
LEMMA ManualTrip ==
  ASSUME IInv, TripInv, NEW t \in Token, Manual(t)
  PROVE  TripInv'
<1> DEFINE x == tok[t]
           n == x.manual + 1
           y == [x EXCEPT !.manual = n, !.queue = <<>>]
<1>0. /\ TypeOK /\ TaskInv /\ task \in [Task -> TaskType] /\ tok \in [Token -> TokenState]
      /\ UNCHANGED <<scenario, trades>> /\ tok' = [tok EXCEPT ![t] = y] /\ x \in TokenState
      /\ "sells_overlap" \in scenario.faults \/ ~SellUnderWay(t)
  BY Parts DEF IInv, Manual
<1>1. PICK q : Started("manual", "post", t, q, 0)
  BY DEF Manual
<1>2. PICK k \in Task : /\ task[k].kind = "none" /\ task'[k].kind = "manual"
                        /\ task'[k].token = t /\ task'[k].pc = "post"
                        /\ \A j \in Task \ {k} : task'[j] = task[j]
  <2>1. "manual" \in Kinds
    BY DEF Kinds
  <2> QED BY <1>0, <1>1, <2>1, StartedTask
<1>3. ManualInv'
  <2> SUFFICES ASSUME NEW j \in Task, At(j, "manual", "ack")'
               PROVE  /\ trades'[task'[j].trade].token = task'[j].token
                      /\ trades'[task'[j].trade].by = "user"
    BY DEF ManualInv, Task
  <2>1. task'[j] = task[j] /\ At(j, "manual", "ack")
    BY <1>2 DEF At
  <2> QED BY <1>0, <2>1 DEF TripInv, ManualInv
<1>4. ASSUME NoRefusal', NEW v \in Token
      PROVE  TripOK(v)'
  <2>1. NoRefusal /\ TripOK(v)
    BY <1>0, <1>4 DEF NoRefusal, Only, TripInv
  <2>2. CASE v # t
    <3>1. Tasks(v, "manual")' = Tasks(v, "manual")
      BY <1>2, <2>2 DEF Tasks, Task
    <3>2. Unbooked(v) \subseteq Unbooked(v)'
      <4> SUFFICES ASSUME NEW j \in Unbooked(v) PROVE j \in Unbooked(v)'
        OBVIOUS
      <4>1. j \in Task /\ j # k /\ j \in Tasks(v, "manual")'
        BY <1>2, <3>1 DEF Unbooked, Tasks
      <4> QED BY <1>0, <1>2, <4>1 DEF Unbooked
    <3>3. Calm(tok[v], tok'[v])
      BY <1>0, <2>2, CalmSame
    <3> QED BY <1>0, <2>1, <3>1, <3>2, <3>3, TripKept
  <2>3. CASE v = t
    <3>1. Tasks(t, "manual")' = Tasks(t, "manual") \cup {k} /\ k \notin Tasks(t, "manual")
      BY <1>2 DEF Tasks, Task
    <3>2. Cardinality(Tasks(t, "manual")') = Cardinality(Tasks(t, "manual")) + 1
      <4>1. Cardinality(Tasks(t, "manual") \cup {k}) = Cardinality(Tasks(t, "manual")) + 1
        BY <3>1, TasksFinite, FS_AddElement
      <4> QED BY <3>1, <4>1
    <3>3. k \in Unbooked(t)'
      BY <1>2, <3>1 DEF Unbooked
    <3>4. x.manual \in Nat /\ n \in Nat
      BY <1>0, Fields
    <3>5. tok'[t].manual = n /\ tok'[t].triggered = x.triggered /\ tok'[t].plan = x.plan
      <4>1. tok'[t] = y
        BY <1>0
      <4>2. ASSUME NEW s, NEW z, z = [x EXCEPT !.manual = n, !.queue = s]
            PROVE  z.manual = n /\ z.triggered = x.triggered /\ z.plan = x.plan
        <5> HIDE DEF n, x
        <5> QED BY <1>0, <4>2 DEF TokenState
      <4> HIDE DEF n, x
      <4>3. y.manual = n /\ y.triggered = x.triggered /\ y.plan = x.plan
        BY <4>2
      <4> QED BY <4>1, <4>3
    <3>6. "sells_overlap" \notin scenario.faults => Tasks(t, "manual") = {}
      BY <1>0 DEF SellUnderWay, Tasks
    <3>7. Cardinality(Tasks(t, "manual")) \in Nat
          /\ (Tasks(t, "manual") = {} => Cardinality(Tasks(t, "manual")) = 0)
      BY TasksFinite
    <3>8. tok'[t].manual >= Cardinality(Tasks(t, "manual")')
      <4>1. CASE "reload" \notin scenario.faults
        BY <2>1, <2>3, <3>2, <3>4, <3>5, <3>7, <4>1 DEF TripOK
      <4>2. CASE "reload" \in scenario.faults
        <5>1. Tasks(t, "manual") = {}
          BY <2>1, <3>6, <4>2 DEF NoRefusal
        <5> QED BY <3>2, <3>4, <3>5, <3>7, <5>1
      <4> QED BY <4>1, <4>2
    <3>9. "sells_overlap" \notin scenario.faults => \A i, j \in Tasks(t, "manual")' : i = j
      BY <3>1, <3>6
    <3>10. tok'[t].triggered => tok'[t].plan > 0
      BY <2>1, <2>3, <3>5 DEF TripOK
    <3> QED BY <1>0, <2>3, <3>3, <3>8, <3>9, <3>10 DEF TripOK
  <2> QED BY <2>2, <2>3
<1> QED BY <1>3, <1>4 DEF TripInv

\* The SELL of the user reports.
LEMMA ManualDoneTrip ==
  ASSUME IInv, TripInv, NEW k \in Task, ManualFakSellDispatchDone(k)
  PROVE  TripInv'
<1>a. PICK t \in Token : task[k].token = t
  BY DEF IInv, TaskInv, ManualFakSellDispatchDone, At
<1> DEFINE x == tok[t]
           n == Minus(x.manual, 1)
           y == [x EXCEPT !.manual = n]
<1>0. /\ TypeOK /\ TaskInv /\ task \in [Task -> TaskType] /\ tok \in [Token -> TokenState]
      /\ UNCHANGED <<scenario, trades>> /\ tok' = [tok EXCEPT ![t] = y]
      /\ task[k].kind = "manual" /\ task[k].pc = "done"
      /\ task' = [task EXCEPT ![k] = Off] /\ x \in TokenState
  BY <1>a, Parts DEF IInv, TaskInv, ManualFakSellDispatchDone, At
<1>1. task'[k].kind = "none" /\ \A j \in Task \ {k} : task'[j] = task[j]
  BY <1>0, OneTask DEF Off
<1>2. ManualInv'
  <2> SUFFICES ASSUME NEW j \in Task, At(j, "manual", "ack")'
               PROVE  /\ trades'[task'[j].trade].token = task'[j].token
                      /\ trades'[task'[j].trade].by = "user"
    BY DEF ManualInv, Task
  <2>1. task'[j] = task[j] /\ At(j, "manual", "ack")
    BY <1>1 DEF At
  <2> QED BY <1>0, <2>1 DEF TripInv, ManualInv
<1>3. ASSUME NEW v \in Token, NEW j \in Unbooked(v)
      PROVE  j \in Unbooked(v)' /\ j \in Tasks(v, "manual") /\ j # k
  <2>1. j \in Task /\ j # k /\ task'[j] = task[j]
    BY <1>0, <1>1, <1>3 DEF Unbooked, Tasks
  <2>2. j \in Tasks(v, "manual") /\ j \in Tasks(v, "manual")'
    BY <1>3, <2>1 DEF Unbooked, Tasks
  <2> QED BY <1>0, <1>3, <2>1, <2>2 DEF Unbooked
<1>4. ASSUME NoRefusal', NEW v \in Token
      PROVE  TripOK(v)'
  <2>1. NoRefusal /\ TripOK(v)
    BY <1>0, <1>4 DEF NoRefusal, Only, TripInv
  <2>2. CASE v # t
    <3>1. Tasks(v, "manual")' = Tasks(v, "manual")
      BY <1>a, <1>1, <2>2 DEF Tasks, Task
    <3>2. Unbooked(v) \subseteq Unbooked(v)'
      BY <1>3
    <3>3. Calm(tok[v], tok'[v])
      BY <1>0, <2>2, CalmSame
    <3> QED BY <1>0, <2>1, <3>1, <3>2, <3>3, TripKept
  <2>3. CASE v = t
    <3>1. k \in Tasks(t, "manual") /\ Tasks(t, "manual")' = Tasks(t, "manual") \ {k}
      BY <1>0, <1>1, <1>a DEF Tasks, Task
    <3>2. /\ Cardinality(Tasks(t, "manual")') = Cardinality(Tasks(t, "manual")) - 1
          /\ Cardinality(Tasks(t, "manual")) \in Nat /\ Cardinality(Tasks(t, "manual")) # 0
      <4>1. Cardinality(Tasks(t, "manual") \ {k}) = Cardinality(Tasks(t, "manual")) - 1
        BY <3>1, TasksFinite, FS_RemoveElement
      <4> QED BY <3>1, <4>1, TasksFinite
    <3>3. x.manual \in Nat /\ n \in Nat /\ (x.manual > 0 => n = x.manual - 1)
      BY <1>0, Fields DEF Minus
    <3>4. /\ tok'[t].manual = n /\ tok'[t].triggered = x.triggered /\ tok'[t].plan = x.plan
          /\ tok'[t].queue = x.queue /\ tok'[t].in_flight = x.in_flight
      <4>1. tok'[t] = y
        BY <1>0
      <4> HIDE DEF n, x
      <4> QED BY <1>0, <4>1 DEF TokenState
    <3>5. x.manual >= Cardinality(Tasks(t, "manual"))
          => tok'[t].manual >= Cardinality(Tasks(t, "manual")')
      BY <3>2, <3>3, <3>4
    <3>6. "reload" \notin scenario'.faults => tok'[t].manual >= Cardinality(Tasks(t, "manual")')
      BY <1>0, <2>1, <2>3, <3>5 DEF TripOK
    <3>7. "sells_overlap" \notin scenario'.faults => \A i, j \in Tasks(t, "manual")' : i = j
      BY <1>0, <2>1, <2>3, <3>1 DEF TripOK
    <3>8. Stuck(tok'[t]) => /\ Unbooked(t)' # {}
                            /\ tok'[t].manual >= Cardinality(Tasks(t, "manual")')
      <4> SUFFICES ASSUME Stuck(tok'[t])
                   PROVE  /\ Unbooked(t)' # {}
                          /\ tok'[t].manual >= Cardinality(Tasks(t, "manual")')
        OBVIOUS
      <4>1. Unbooked(t) # {} /\ x.manual >= Cardinality(Tasks(t, "manual"))
        BY <2>1, <2>3, <3>4 DEF TripOK, Stuck
      <4> QED BY <1>3, <3>5, <4>1
    <3>9. tok'[t].triggered => tok'[t].plan > 0
      BY <2>1, <2>3, <3>4 DEF TripOK
    <3> QED BY <2>3, <3>6, <3>7, <3>8, <3>9 DEF TripOK
  <2> QED BY <2>2, <2>3
<1> QED BY <1>2, <1>4 DEF TripInv

\* A tick: trails are armed, that of its token may trip instead.
LEMMA BookRecords ==
  ASSUME IInv, NEW t \in Token, Book(t)
  PROVE  \E s \in [Token -> TokenState] :
           /\ KeepsAll(s)
           /\ \A v \in Token : \/ s[v] = tok[v]
                               \/ tok[v].arm > 0 /\ s[v] = Promoted(tok[v])
                               \/ s[v] \in Tripped(v, tok[v])
           /\ (tok' = s /\ UNCHANGED task) \/ StopLoss(s) \/ Dispatch(s)
<1>1. PICK P \in SUBSET {u \in Token : tok[u].arm > 0 /\ (market \/ u = t)} :
        LET ready(u) == IF u \in P THEN Promoted(tok[u]) ELSE tok[u] IN
        \E x \in {ready(t)} \cup (IF t \in P THEN {} ELSE Tripped(t, ready(t))) :
          LET s == [u \in Token |-> IF u = t THEN x ELSE ready(u)] IN
            \/ tok' = s /\ UNCHANGED task
            \/ StopLoss(s)
            \/ Dispatch(s)
  BY DEF Book
<1> DEFINE ready(u) == IF u \in P THEN Promoted(tok[u]) ELSE tok[u]
<1>2. PICK x \in {ready(t)} \cup (IF t \in P THEN {} ELSE Tripped(t, ready(t))) :
        LET s == [u \in Token |-> IF u = t THEN x ELSE ready(u)] IN
          \/ tok' = s /\ UNCHANGED task
          \/ StopLoss(s)
          \/ Dispatch(s)
  BY <1>1
<1> DEFINE s == [u \in Token |-> IF u = t THEN x ELSE ready(u)]
<1>3. \A u \in Token : Good(tok[u], market) /\ tok[u] \in TokenState
  BY DEF IInv, TokInv, Good
<1>4. \A u \in Token : \/ s[u] = tok[u]
                       \/ tok[u].arm > 0 /\ s[u] = Promoted(tok[u])
                       \/ s[u] \in Tripped(u, tok[u])
  <2>1. \A u \in P : tok[u].arm > 0
    BY <1>1
  <2>2. \A u \in Token : ready(u) = tok[u] \/ (tok[u].arm > 0 /\ ready(u) = Promoted(tok[u]))
    BY <2>1
  <2>3. x = ready(t) \/ x \in Tripped(t, tok[t])
    BY <1>2
  <2> HIDE DEF ready
  <2>4. \A u \in Token : s[u] = IF u = t THEN x ELSE ready(u)
    OBVIOUS
  <2> HIDE DEF s
  <2>5. s[t] = x /\ \A u \in Token \ {t} : s[u] = ready(u)
    BY <2>4
  <2>6. \/ s[t] = tok[t]
        \/ tok[t].arm > 0 /\ s[t] = Promoted(tok[t])
        \/ s[t] \in Tripped(t, tok[t])
    BY <2>2, <2>3, <2>5
  <2>7. ASSUME NEW u \in Token, u # t
        PROVE  s[u] = tok[u] \/ (tok[u].arm > 0 /\ s[u] = Promoted(tok[u]))
    BY <2>2, <2>5, <2>7
  <2> QED BY <2>6, <2>7
<1>5. \A u \in Token : Keeps(tok[u], s[u], market)
  <2> SUFFICES ASSUME NEW u \in Token PROVE Keeps(tok[u], s[u], market)
    OBVIOUS
  <2> HIDE DEF s
  <2>1. Keeps(tok[u], Promoted(tok[u]), market) /\ Keeps(tok[u], tok[u], market)
    BY <1>3, PromotedOK DEF Keeps
  <2>2. s[u] \in Tripped(u, tok[u]) => Keeps(tok[u], s[u], market)
    BY <1>3, TrippedOK
  <2> QED BY <1>4, <2>1, <2>2
<1>6. s \in [Token -> TokenState]
  <2>1. \A u \in Token : s[u] \in TokenState
    <3> HIDE DEF s
    <3> QED BY <1>5 DEF Keeps, Good
  <2> HIDE DEF ready
  <2> QED BY <2>1
<1>7. (tok' = s /\ UNCHANGED task) \/ StopLoss(s) \/ Dispatch(s)
  BY <1>2
<1> HIDE DEF s
<1> QED BY <1>4, <1>5, <1>6, <1>7 DEF KeepsAll

\* A trail that trips queues its exit.
LEMMA BookCalm ==
  ASSUME IInv, NEW t \in Token, Book(t)
  PROVE  \E s \in [Token -> TokenState] :
           /\ KeepsAll(s) /\ \A v \in Token : Calm(tok[v], s[v])
           /\ (tok' = s /\ UNCHANGED task) \/ StopLoss(s) \/ Dispatch(s)
<1>1. PICK s \in [Token -> TokenState] :
        /\ KeepsAll(s)
        /\ \A v \in Token : \/ s[v] = tok[v]
                            \/ tok[v].arm > 0 /\ s[v] = Promoted(tok[v])
                            \/ s[v] \in Tripped(v, tok[v])
        /\ (tok' = s /\ UNCHANGED task) \/ StopLoss(s) \/ Dispatch(s)
  BY BookRecords
<1>2. ASSUME NEW v \in Token PROVE Calm(tok[v], s[v])
  <2>1. tok[v] \in TokenState
    BY DEF IInv, TokInv, Good
  <2>2. Calm(tok[v], Promoted(tok[v])) /\ Calm(tok[v], tok[v])
    BY <2>1, PromotedFields, CalmSame DEF Calm, Stuck, Aside
  <2>3. s[v] \in Tripped(v, tok[v]) => Calm(tok[v], s[v])
    BY <2>1, TrippedFields DEF Calm, Stuck, Aside, Bare
  <2> QED BY <1>1, <2>2, <2>3
<1> QED BY <1>1, <1>2

\* What the dispatchers make of a token, and the task they start.
LEMMA StopLossFields ==
  ASSUME IInv, NEW s \in [Token -> TokenState], StopLoss(s)
  PROVE  \E u \in Token, k \in Task :
           /\ market /\ ~s[u].stop /\ s[u].pos > 0
           /\ "sells_overlap" \in scenario.faults \/ (~SellUnderWay(u) /\ s[u].queue = <<>>)
           /\ Same(s[u], tok'[u]) /\ tok'[u].stop = TRUE
           /\ \A v \in Token \ {u} : tok'[v] = s[v]
           /\ task[k].kind = "none" /\ task[k].pc = "post" /\ task'[k].kind = "stop"
           /\ task'[k].pc = "post" /\ task'[k].token = u
           /\ \A j \in Task \ {k} : task'[j] = task[j]
<1>0. task \in [Task -> TaskType]
  BY Parts DEF IInv
<1>1. PICK u \in Token :
        /\ market /\ ~s[u].stop /\ s[u].pos > 0
        /\ "sells_overlap" \in scenario.faults \/ (~SellUnderWay(u) /\ s[u].queue = <<>>)
        /\ tok' = [s EXCEPT ![u] = [s[u] EXCEPT !.stop = TRUE]]
        /\ Started("stop", "post", u, s[u].pos, 0)
  BY DEF StopLoss
<1>2. PICK k \in Task :
        /\ task[k].kind = "none" /\ task[k].pc = "post" /\ task'[k].kind = "stop"
        /\ task'[k].pc = "post" /\ task'[k].token = u
        /\ \A j \in Task \ {k} : task'[j] = task[j]
  <2>1. "stop" \in Kinds
    BY DEF Kinds
  <2> QED BY <1>0, <1>1, <2>1, StartedTask
<1>3. tok'[u] = [s[u] EXCEPT !.stop = TRUE] /\ \A v \in Token \ {u} : tok'[v] = s[v]
  BY <1>1
<1>4. Same(s[u], tok'[u]) /\ tok'[u].stop = TRUE
  BY <1>3 DEF Same, TokenState
<1> QED BY <1>1, <1>2, <1>3, <1>4

LEMMA DispatchFields ==
  ASSUME IInv, NEW s \in [Token -> TokenState], KeepsAll(s), Dispatch(s)
  PROVE  \E u \in Token :
           /\ s[u].queue # <<>> /\ ~s[u].in_flight /\ s[u].manual = 0
           /\ \A v \in Token \ {u} : tok'[v] = s[v]
           /\ \/ /\ tok'[u] = Dispatched(s[u])
                 /\ \E k \in Task : /\ task[k].kind = "none" /\ task[k].pc = "post"
                                    /\ task'[k].kind = "exit" /\ task'[k].pc = "post"
                                    /\ task'[k].token = u
                                    /\ \A j \in Task \ {k} : task'[j] = task[j]
              \/ "worthless" \in scenario.faults /\ tok'[u] = Cleared(s[u]) /\ UNCHANGED task
<1>0. task \in [Task -> TaskType]
  BY Parts DEF IInv
<1>1. PICK u \in Token :
        /\ MayDispatch(u, s)
        /\ \/ /\ tok' = [s EXCEPT ![u] = Dispatched(s[u])]
              /\ Started("exit", "post", u, Head(s[u].queue), 0)
           \/ /\ "worthless" \in scenario.faults
              /\ tok' = [s EXCEPT ![u] = Cleared(s[u])]
              /\ UNCHANGED task
  BY DEF Dispatch
<1>2. s[u].queue # <<>> /\ ~s[u].in_flight /\ s[u].manual = 0
  BY <1>1 DEF MayDispatch
<1>3. CASE /\ tok' = [s EXCEPT ![u] = Dispatched(s[u])]
           /\ Started("exit", "post", u, Head(s[u].queue), 0)
  <2>1. "exit" \in Kinds
    BY DEF Kinds
  <2>2. \E k \in Task : /\ task[k].kind = "none" /\ task[k].pc = "post"
                        /\ task'[k].kind = "exit" /\ task'[k].pc = "post"
                        /\ task'[k].token = u
                        /\ \A j \in Task \ {k} : task'[j] = task[j]
    BY <1>0, <1>3, <2>1, StartedTask
  <2>3. tok'[u] = Dispatched(s[u]) /\ \A v \in Token \ {u} : tok'[v] = s[v]
    BY <1>3
  <2> QED BY <1>2, <2>2, <2>3
<1>4. CASE /\ "worthless" \in scenario.faults
           /\ tok' = [s EXCEPT ![u] = Cleared(s[u])]
           /\ UNCHANGED task
  <2>1. tok'[u] = Cleared(s[u]) /\ \A v \in Token \ {u} : tok'[v] = s[v]
    BY <1>4
  <2> QED BY <1>2, <1>4, <2>1
<1> QED BY <1>1, <1>3, <1>4

LEMMA BookTrip ==
  ASSUME IInv, TripInv, NEW t \in Token, Book(t)
  PROVE  TripInv'
<1>0. TypeOK /\ TaskInv /\ task \in [Task -> TaskType] /\ UNCHANGED <<scenario, trades>>
  BY Parts DEF IInv, Book
<1>1. PICK s \in [Token -> TokenState] :
        /\ KeepsAll(s) /\ \A v \in Token : Calm(tok[v], s[v])
        /\ (tok' = s /\ UNCHANGED task) \/ StopLoss(s) \/ Dispatch(s)
  BY BookCalm
<1>2. (\A v \in Token : Calm(s[v], tok'[v])) /\ ManualsStay
  <2>1. CASE tok' = s /\ UNCHANGED task
    BY <2>1, CalmSame DEF ManualsStay
  <2>2. CASE StopLoss(s)
    <3>1. PICK u \in Token, k \in Task :
            /\ Same(s[u], tok'[u]) /\ \A v \in Token \ {u} : tok'[v] = s[v]
            /\ task[k].kind = "none" /\ task'[k].kind = "stop"
            /\ \A j \in Task \ {k} : task'[j] = task[j]
      BY <2>2, StopLossFields
    <3>2. Calm(s[u], tok'[u])
      BY <3>1 DEF Calm, Same, Stuck
    <3>3. ManualsStay
      BY <1>0, <3>1, ManualsAside
    <3> QED BY <3>1, <3>2, <3>3, CalmSame
  <2>3. CASE Dispatch(s)
    <3>1. PICK u \in Token :
            /\ s[u].queue # <<>>
            /\ \A v \in Token \ {u} : tok'[v] = s[v]
            /\ \/ /\ tok'[u] = Dispatched(s[u])
                  /\ \E k \in Task : /\ task[k].kind = "none" /\ task'[k].kind = "exit"
                                     /\ \A j \in Task \ {k} : task'[j] = task[j]
               \/ tok'[u] = Cleared(s[u]) /\ UNCHANGED task
      BY <1>1, <2>3, DispatchFields
    <3>2. Good(s[u], market) /\ s[u] \in TokenState
      BY <1>1 DEF KeepsAll, Keeps, Good
    <3>3. CASE /\ tok'[u] = Dispatched(s[u])
               /\ \E k \in Task : /\ task[k].kind = "none" /\ task'[k].kind = "exit"
                                  /\ \A j \in Task \ {k} : task'[j] = task[j]
      <4> DEFINE y == Dispatched(s[u])
      <4>3. Aside(s[u], y) /\ y.in_flight = TRUE /\ y.plan = s[u].plan /\ y.triggered = s[u].triggered
        BY <3>1, <3>2, DispatchedFields
      <4>4. tok'[u] = y
        BY <3>3
      <4> HIDE DEF y
      <4>1. Calm(s[u], tok'[u])
        BY <4>3, <4>4 DEF Calm, Stuck, Aside
      <4>2. ManualsStay
        BY <1>0, <3>3, ManualsAside
      <4> QED BY <3>1, <4>1, <4>2, CalmSame
    <3>4. CASE tok'[u] = Cleared(s[u]) /\ UNCHANGED task
      <4> DEFINE y == Cleared(s[u])
      <4>1. y.triggered = FALSE /\ y.manual = s[u].manual
        BY <3>2, ClearedFields DEF Bare, Aside
      <4>2. tok'[u] = y
        BY <3>4
      <4> HIDE DEF y
      <4>3. Calm(s[u], tok'[u])
        BY <4>1, <4>2 DEF Calm, Stuck
      <4> QED BY <3>1, <3>4, <4>3, CalmSame DEF ManualsStay
    <3> QED BY <3>1, <3>3, <3>4
  <2> QED BY <1>1, <2>1, <2>2, <2>3
<1>3. \A v \in Token : Calm(tok[v], tok'[v])
  BY <1>1, <1>2 DEF Calm
<1>4. TradesStay /\ \A n \in DOMAIN trades : trades'[n].applied = trades[n].applied
  BY <1>0, StillThere
<1> QED BY <1>0, <1>2, <1>3, <1>4, OthersTrip

LEMMA GraceTrip ==
  ASSUME IInv, TripInv, NEW t \in Token, GraceEnds(t)
  PROVE  TripInv'
<1>0. /\ TypeOK /\ TaskInv /\ tok \in [Token -> TokenState] /\ UNCHANGED <<scenario, task, trades>>
      /\ tok' = [tok EXCEPT ![t] = [tok[t] EXCEPT !.grace = FALSE]]
  BY Parts DEF IInv, GraceEnds
<1>1. Same(tok[t], tok'[t]) /\ \A v \in Token \ {t} : tok'[v] = tok[v]
  <2> DEFINE x == tok[t]
             y == [x EXCEPT !.grace = FALSE]
  <2>1. x \in TokenState /\ tok'[t] = y /\ \A v \in Token \ {t} : tok'[v] = tok[v]
    BY <1>0
  <2> HIDE DEF x
  <2>2. Same(x, y)
    BY <2>1 DEF TokenState, Same
  <2> QED BY <2>1, <2>2 DEF x
<1>2. \A v \in Token : Calm(tok[v], tok'[v])
  BY <1>1, CalmSame DEF Calm, Same, Stuck
<1>3. ManualsStay /\ TradesStay /\ \A n \in DOMAIN trades : trades'[n].applied = trades[n].applied
  BY <1>0, StillThere DEF ManualsStay
<1> QED BY <1>0, <1>2, <1>3, OthersTrip

\* Leaving a market and picking one.
LEMMA MarketTrip ==
  ASSUME IInv, TripInv, StartTrading \/ MarketRoll \/ PositionsLoaded
  PROVE  TripInv'
<1>0. /\ TypeOK /\ TaskInv /\ tok \in [Token -> TokenState] /\ trades \in Seq(TradeType)
      /\ held \in [Token -> Nat] /\ UNCHANGED <<scenario, task>> /\ MayReload
  BY Parts DEF IInv, StartTrading, MarketRoll, PositionsLoaded
<1>1. TradesStay /\ ManualsStay
  <2>1. CASE UNCHANGED trades
    BY <1>0, <2>1, StillThere DEF ManualsStay
  <2>2. CASE PositionsLoaded
    <3>1. \A n \in DOMAIN trades : trades[n] \in TradeType
      BY <1>0, TradeFacts
    <3>2. trades' = [n \in DOMAIN trades |-> [trades[n] EXCEPT !.applied = TRUE]]
      BY <2>2 DEF PositionsLoaded
    <3>3. TradesStay
      BY <3>1, <3>2 DEF TradesStay, TradeType
    <3> QED BY <1>0, <3>3 DEF ManualsStay
  <2> QED BY <2>1, <2>2 DEF StartTrading, MarketRoll
<1>2. ManualInv' /\ \A v \in Token : Tasks(v, "manual")' = Tasks(v, "manual")
  BY <1>0, <1>1, ManualsStayed DEF TripInv
<1>3. ASSUME NoRefusal', NEW v \in Token
      PROVE  TripOK(v)'
  <2>1. NoRefusal /\ TripOK(v)
    BY <1>0, <1>3 DEF NoRefusal, Only, TripInv
  <2> DEFINE x == tok[v]
  <2>2. x \in TokenState /\ x.plan \in Nat /\ x.pos \in Nat /\ held[v] \in Nat
    BY <1>0, Fields
  <2>3. CASE StartTrading
    <3>1. tok'[v] = [x EXCEPT !.pos = 0] /\ UNCHANGED trades
      BY <2>3 DEF StartTrading
    <3> HIDE DEF x
    <3>2. /\ tok'[v].manual = x.manual /\ tok'[v].triggered = x.triggered
          /\ tok'[v].plan = x.plan /\ tok'[v].queue = x.queue /\ tok'[v].in_flight = x.in_flight
      BY <2>2, <3>1 DEF TokenState
    <3>3. Calm(x, tok'[v])
      BY <3>2 DEF Calm, Stuck
    <3>4. Unbooked(v) \subseteq Unbooked(v)'
      BY <1>0, <3>1 DEF Unbooked, Tasks, Task
    <3> QED BY <1>0, <1>2, <2>1, <3>3, <3>4, TripKept DEF x
  <2>4. CASE MarketRoll
    <3>1. /\ tok'[v] = Fresh
      BY <2>4 DEF MarketRoll
    <3>2. tok'[v].triggered = FALSE /\ tok'[v].manual = 0
      BY <3>1 DEF Fresh
    <3>3. "reload" \notin scenario.faults => Tasks(v, "manual") = {}
      BY <1>0 DEF MayReload, Idle, Tasks
    <3>4. "reload" \notin scenario'.faults => tok'[v].manual >= Cardinality(Tasks(v, "manual")')
      BY <1>0, <1>2, <3>2, <3>3, TasksFinite
    <3>5. "sells_overlap" \notin scenario'.faults => \A j, k \in Tasks(v, "manual")' : j = k
      BY <1>0, <1>2, <2>1 DEF TripOK
    <3> QED BY <3>2, <3>4, <3>5 DEF TripOK, Stuck
  <2>5. CASE PositionsLoaded
    <3> DEFINE h == Higher(x.pos, held[v])
               z == [x EXCEPT !.pos = h]
               r == Rehydrated(z)
    <3>1. tok'[v] \in {r, Promoted(r)}
      BY <2>5 DEF PositionsLoaded
    <3>2. h \in Nat
      BY <2>2, NatOps
    <3> HIDE DEF h, x
    <3>3. /\ z \in TokenState /\ z.manual = x.manual /\ z.triggered = x.triggered
          /\ z.plan = x.plan /\ z.pos = h
      BY <2>2, <3>2 DEF TokenState
    <3>4. x.triggered => x.plan > 0
      BY <2>1 DEF TripOK, x
    <3> HIDE DEF z
    <3>5. /\ r \in TokenState /\ r.manual = x.manual
          /\ z.plan > 0 \/ z.pos > 0 => r.triggered = FALSE
          /\ ~(z.plan > 0 \/ z.pos > 0) => r.triggered = z.triggered
      BY <3>3, RehydratedFields DEF Aside
    <3>6. ~r.triggered
      BY <3>3, <3>4, <3>5
    <3> HIDE DEF r
    <3>7. ~tok'[v].triggered /\ tok'[v].manual = x.manual
      BY <3>1, <3>5, <3>6, PromotedFields DEF Aside
    <3>8. Calm(x, tok'[v]) /\ ~Stuck(tok'[v])
      BY <3>7 DEF Calm, Stuck
    <3> QED BY <1>0, <1>2, <2>1, <3>8, TripKept DEF x
  <2> QED BY <2>3, <2>4, <2>5
<1> QED BY <1>2, <1>3 DEF TripInv

LEMMA TripInit == Init => TripInv
<1> SUFFICES ASSUME Init PROVE TripInv
  OBVIOUS
<1>1. \A k \in Task : task[k].kind = "none"
  BY DEF Init, Off
<1>2. ManualInv /\ \A v \in Token : Tasks(v, "manual") = {}
  BY <1>1 DEF ManualInv, At, Tasks
<1>3. \A v \in Token : tok[v].triggered = FALSE /\ tok[v].manual = 0
  BY DEF Init, Fresh
<1>4. \A v \in Token : TripOK(v)
  BY <1>2, <1>3, TasksFinite DEF TripOK, Stuck
<1> QED BY <1>2, <1>4 DEF TripInv

LEMMA TripNext == IInv /\ TripInv /\ [Next]_vars => TripInv'
<1> SUFFICES ASSUME IInv, TripInv, [Next]_vars PROVE TripInv'
  OBVIOUS
<1>1. CASE UNCHANGED vars
  BY <1>1 DEF vars, TripInv, ManualInv, NoRefusal, Only, TripOK, Stuck, Unbooked, Tasks, Task, At
<1>2. CASE Next
  <2>1. CASE \E t \in Token, atOnce \in BOOLEAN : BuyFilled(t, atOnce)
    BY <2>1, ExchangeTrip
  <2>2. ASSUME NEW t \in Token,
               \/ LimitSell(t) \/ RestFilled(t) \/ RestCancelled(t)
               \/ Book(t) \/ Manual(t) \/ GraceEnds(t)
        PROVE  TripInv'
    BY <2>2, ExchangeTrip, BookTrip, ManualTrip, GraceTrip
  <2>3. ASSUME NEW k \in Task,
               \/ ExitRefused(k) \/ ExitFilled(k) \/ ExitRests(k)
               \/ StopPosted(k) \/ StopRefused(k) \/ ManualPosted(k)
               \/ OrderAck(k) \/ RequestTrailingArm(k) \/ TrailingExitDispatchDone(k)
               \/ StopLossSellDone(k) \/ ManualFakSellDispatchDone(k)
        PROVE  TripInv'
    BY <2>3, OrdersTrip, ManualPostTrip, FillsTrip, ReportsTrip, ManualDoneTrip
  <2>4. CASE \E n \in DOMAIN trades : UserChannelFill(n)
    BY <2>4, FillsTrip
  <2>5. CASE StartTrading \/ MarketRoll \/ PositionsLoaded
    BY <2>5, MarketTrip
  <2> QED BY <1>2, <2>1, <2>2, <2>3, <2>4, <2>5 DEF Next
<1> QED BY <1>1, <1>2

\* A stop triggers once: with no exit queued or under way and no SELL of the user counted,
\* no trail has tripped (app.rs apply_trailing_book_tick, manual_fak_sell_begin,
\* TrailingExitDispatchDone).
THEOREM TrippedExitsHolds == Spec => []TrippedExits
<1>1. IInv /\ TripInv => TrippedExits
  <2> SUFFICES ASSUME IInv, TripInv, NoRefusal, NEW t \in Token, tok[t].triggered
               PROVE  tok[t].queue # <<>> \/ tok[t].in_flight \/ tok[t].manual > 0
    BY DEF TrippedExits, NoRefusal
  <2> SUFFICES ASSUME Stuck(tok[t]) PROVE tok[t].manual > 0
    BY DEF Stuck
  <2>1. Unbooked(t) # {} /\ tok[t].manual >= Cardinality(Tasks(t, "manual"))
    BY DEF TripInv, TripOK
  <2>2. Tasks(t, "manual") # {}
    BY <2>1 DEF Unbooked
  <2>3. Cardinality(Tasks(t, "manual")) \in Nat /\ Cardinality(Tasks(t, "manual")) # 0
    BY <2>2, TasksFinite
  <2>4. tok[t].manual \in Nat
    BY Parts, Fields DEF IInv
  <2> QED BY <2>1, <2>3, <2>4
<1> QED BY InitIInv, IInvNext, TripInit, TripNext, <1>1, PTL DEF Spec

-------------------------------------------------------------------------------
(* Protected: the plan of a session, or the pending arm without one, covers the
   position, and an exit that runs is backed by a session until its fill is booked. *)

Faultless == Only({"manual_fails", "sells_overlap", "cancel_stop"})

\* Nothing but exits has sold shares of the token.
OnlyExits(v) == \A n \in DOMAIN trades : trades[n].token = v => trades[n].by \in {"buy", "exit"}

\* m tells whether the market is on.
Trailed(x, m) ==
  /\ x.queue # <<>> => x.plan > 0
  /\ ~m => x.pos = 0
  /\ m => (x.plan > 0 => x.plan >= x.pos) /\ (x.plan = 0 => x.arm >= x.pos)

\* The record of a token whose exit runs; b tells whether the exit's fill is booked.
Running(x, b) ==
  /\ x.queue = <<>>
  /\ \/ x.in_flight /\ x.plan > 0 /\ (b => ~x.triggered)
     \/ b /\ x.plan = 0 /\ x.arm = 0 /\ x.pos = 0

BookedExit(k) ==
  \/ task[k].pc = "done"
  \/ task[k].pc = "ack" /\ trades[task[k].trade].applied

CoverOK(v) ==
  /\ Trailed(tok[v], market)
  /\ \A j, k \in Tasks(v, "exit") : j = k
  /\ \A k \in Tasks(v, "exit") :
       /\ Running(tok[v], BookedExit(k))
       /\ task[k].pc = "ack" => trades[task[k].trade].token = v
  /\ \A n \in DOMAIN trades :
       trades[n].token = v /\ trades[n].by = "exit" /\ ~trades[n].applied =>
         \E k \in Tasks(v, "exit") : task[k].pc = "ack" /\ task[k].trade = n

CoverInv ==
  Faultless => \A v \in Token : rest[v].by # "exit" /\ (OnlyExits(v) => CoverOK(v))

\* What a handler may make of a record without uncovering the position.
Safe(x, y, m) ==
  Trailed(x, m) => Trailed(y, m) /\ \A b \in BOOLEAN : Running(x, b) => Running(y, b)

LEMMA SafeSame ==
  ASSUME NEW x, NEW y, Same(x, y), NEW m
  PROVE  Safe(x, y, m)
  BY DEF Same, Safe, Trailed, Running

LEMMA SafePromoted ==
  ASSUME NEW x \in TokenState, x.arm > 0, NEW m
  PROVE  Safe(x, Promoted(x), m)
<1> DEFINE y == Promoted(x)
<1>1. x.arm \in Nat /\ x.plan \in Nat /\ x.pos \in Nat
  BY Fields
<1>2. /\ y.plan = x.plan + x.arm /\ y.triggered = FALSE /\ y.arm = 0
      /\ y.queue = x.queue /\ y.in_flight = x.in_flight /\ y.pos = x.pos
  BY PromotedFields
<1> HIDE DEF y
<1>3. y.plan > 0 /\ y.plan >= x.plan /\ y.plan >= x.arm
  BY <1>1, <1>2
<1>4. ASSUME Trailed(x, m) PROVE Trailed(y, m)
  <2>1. m => y.plan >= y.pos
    BY <1>1, <1>2, <1>3, <1>4 DEF Trailed
  <2> QED BY <1>1, <1>2, <1>3, <1>4, <2>1 DEF Trailed
<1>5. ASSUME NEW b, Running(x, b) PROVE Running(y, b)
  BY <1>1, <1>2, <1>3, <1>5 DEF Running
<1> QED BY <1>4, <1>5 DEF Safe, y

LEMMA SafeTripped ==
  ASSUME NEW t \in Token, NEW x \in TokenState, NEW z \in Tripped(t, x),
         "worthless" \notin scenario.faults
  PROVE  Safe(x, z, market)
<1>1. x.plan \in Nat /\ x.pos \in Nat /\ z.arm \in Nat /\ x.in_flight \in BOOLEAN
  BY TrippedFields, Fields
<1>2. x.plan > 0 /\ ~x.in_flight
  BY TrippedFields DEF Busy
<1>3. /\ z.pos = x.pos
      /\ \/ z.plan = x.plan /\ z.arm = x.arm
         \/ Bare(z) /\ z.queue = <<>> /\ (market => ~(x.pos > 0))
  BY TrippedFields
<1>4. ASSUME Trailed(x, market) PROVE Trailed(z, market)
  <2>1. CASE z.plan = x.plan /\ z.arm = x.arm
    BY <1>1, <1>2, <1>3, <1>4, <2>1 DEF Trailed
  <2>2. CASE Bare(z) /\ z.queue = <<>> /\ (market => ~(x.pos > 0))
    BY <1>1, <1>3, <1>4, <2>2 DEF Trailed, Bare
  <2> QED BY <1>3, <2>1, <2>2
<1>5. \A b : ~Running(x, b)
  BY <1>1, <1>2 DEF Running
<1> QED BY <1>4, <1>5 DEF Safe

\* The fill of an exit is booked: what is left stays under its session.
LEMMA SafeSold ==
  ASSUME NEW x \in TokenState, NEW q \in Nat, Trailed(x, market), Running(x, FALSE)
  PROVE  Trailed(Sold(x, q), market) /\ Running(Sold(x, q), TRUE)
<1> DEFINE y == Sold(x, q)
<1>2. /\ y.triggered = FALSE /\ y.pos = Minus(x.pos, q) /\ Aside(x, y)
      /\ \/ /\ x.in_flight /\ y.in_flight = TRUE /\ y.plan > 0 /\ y.arm = x.arm
            /\ y.queue = x.queue
            /\ market => y.plan = Lower(Minus(x.plan, q), y.pos)
         \/ /\ y.in_flight = FALSE /\ Bare(y) /\ y.queue = <<>>
            /\ x.in_flight /\ market => Lower(Minus(x.plan, q), y.pos) = 0
  <2>1. y.triggered = FALSE /\ y.pos = Minus(x.pos, q) /\ Aside(x, y)
    BY SoldFields
  <2>2. \/ /\ x.in_flight /\ y.in_flight = TRUE /\ y.plan > 0 /\ y.arm = x.arm
           /\ y.queue = x.queue
           /\ market => y.plan = Lower(Minus(x.plan, q), y.pos)
        \/ /\ y.in_flight = FALSE /\ Bare(y) /\ y.queue = <<>>
           /\ x.in_flight /\ market => Lower(Minus(x.plan, q), y.pos) = 0
    BY SoldFields
  <2> QED BY <2>1, <2>2
<1> HIDE DEF y
<1>3. x.queue = <<>> /\ x.in_flight /\ x.plan > 0
  BY DEF Running
<1>4. x.plan \in Nat /\ x.pos \in Nat
  BY Fields
<1>5. market => Lower(Minus(x.plan, q), y.pos) = y.pos
  <2>1. market => x.plan >= x.pos
    BY <1>3 DEF Trailed
  <2> QED BY <1>2, <1>4, <2>1 DEF Lower, Minus
<1>6. ~market => y.pos = 0
  BY <1>2, <1>4 DEF Trailed, Minus
<1>7. y.pos \in Nat
  BY <1>2, <1>4, NatOps
<1>8. CASE y.in_flight = TRUE /\ y.plan > 0 /\ y.queue = x.queue
           /\ (market => y.plan = Lower(Minus(x.plan, q), y.pos))
  <2>1. market => y.plan >= y.pos
    BY <1>5, <1>7, <1>8
  <2>2. Trailed(y, market)
    <3>1. y.plan # 0
      BY <1>8
    <3> QED BY <1>3, <1>6, <1>8, <2>1, <3>1 DEF Trailed
  <2>3. Running(y, TRUE)
    BY <1>2, <1>3, <1>8 DEF Running
  <2> QED BY <2>2, <2>3 DEF y
<1>9. CASE Bare(y) /\ y.queue = <<>> /\ (market => Lower(Minus(x.plan, q), y.pos) = 0)
  <2>1. y.pos = 0
    BY <1>5, <1>6, <1>9
  <2> QED BY <1>9, <2>1 DEF Trailed, Running, Bare, y
<1> QED BY <1>2, <1>3, <1>8, <1>9

\* A BUY is booked while nothing of the token is being sold.
LEMMA SafeBought ==
  ASSUME NEW x \in TokenState, NEW q \in Nat, Trailed(x, market), x.queue = <<>>,
         NEW y \in MayPromote(Bought(x, q))
  PROVE  Trailed(y, market) /\ y.queue = <<>>
<1> DEFINE z == Bought(x, q)
<1>1. /\ z \in TokenState /\ z.queue = <<>>
      /\ market => z.arm = z.pos /\ z.plan = 0
      /\ ~market => z.pos = x.pos
  BY BoughtFields
<1>2. z.pos \in Nat /\ z.arm \in Nat
  BY <1>1, Fields
<1>3. (y = z) \/ (z.arm > 0 /\ y = Promoted(z))
  BY DEF MayPromote
<1> HIDE DEF z
<1>4. Trailed(z, market)
  BY <1>1, <1>2 DEF Trailed
<1>5. CASE y = Promoted(z) /\ z.arm > 0
  <2>1. Trailed(y, market)
    BY <1>1, <1>4, <1>5, SafePromoted DEF Safe
  <2>2. y.queue = <<>>
    BY <1>1, <1>5, PromotedFields
  <2> QED BY <2>1, <2>2
<1> QED BY <1>1, <1>3, <1>4, <1>5

\* The exit reports.
LEMMA SafeDone ==
  ASSUME NEW x \in TokenState, NEW success \in BOOLEAN, NEW b \in BOOLEAN, success => b,
         Trailed(x, market), Running(x, b)
  PROVE  Trailed(ExitDone(x, success), market)
<1> DEFINE y == ExitDone(x, success)
<1>1. /\ y.queue = <<>> /\ y.pos = x.pos /\ y.arm = x.arm
      /\ y.plan \in {0, x.plan}
      /\ y.plan = 0 => x.plan = 0 \/ Live(x) = 0 \/ (success /\ x.triggered)
  BY ExitDoneFields
<1> HIDE DEF y
<1>2. x.plan \in Nat /\ x.pos \in Nat /\ x.arm \in Nat /\ (market => Live(x) = x.pos)
  BY Fields
<1>3. market /\ y.plan = 0 => x.pos = 0
  BY <1>1, <1>2 DEF Running
<1>4. market => (y.plan > 0 => y.plan >= y.pos) /\ (y.plan = 0 => y.arm >= y.pos)
  BY <1>1, <1>2, <1>3 DEF Trailed
<1> QED BY <1>1, <1>4 DEF Trailed, y

LEMMA SafeDispatched ==
  ASSUME NEW x, Good(x, market), x.queue # <<>>, Trailed(x, market)
  PROVE  Trailed(Dispatched(x), market) /\ Running(Dispatched(x), FALSE)
<1> DEFINE y == Dispatched(x)
<1>1. /\ y.queue = <<>> /\ y.in_flight = TRUE
      /\ y.plan = x.plan /\ y.arm = x.arm /\ y.pos = x.pos
  BY DispatchedFields
<1> HIDE DEF y
<1> QED BY <1>1 DEF Trailed, Running, y

\* PositionsLoaded.
LEMMA SafeRehydrated ==
  ASSUME NEW x \in TokenState, x.queue # <<>> => x.plan > 0, market,
         NEW y, y = Rehydrated(x)
  PROVE  /\ Trailed(y, market)
         /\ y.arm > 0 => Trailed(Promoted(y), market)
<1>1. x.plan \in Nat /\ x.pos \in Nat
  BY Fields
<1>2. /\ y \in TokenState /\ y.pos = x.pos /\ y.arm = x.pos
      /\ x.plan > 0 \/ x.pos > 0 => y.plan = 0 /\ y.queue = <<>>
      /\ ~(x.plan > 0 \/ x.pos > 0) => y.plan = x.plan /\ y.queue = x.queue
  BY RehydratedFields
<1>3. Trailed(y, market)
  BY <1>1, <1>2 DEF Trailed
<1> QED BY <1>2, <1>3, SafePromoted DEF Safe

\* The exits of a token go on unchanged.
ExitsKeep(v) ==
  \A j \in Task :
    (task[j].kind = "exit" /\ task[j].token = v) \/ (task'[j].kind = "exit" /\ task'[j].token = v)
      => task'[j] = task[j]

\* Trades are added, none changes.
TradesKeep == \A n \in DOMAIN trades : n \in DOMAIN trades' /\ trades'[n] = trades[n]

LEMMA CoverKept ==
  ASSUME TaskInv, NEW v \in Token, CoverOK(v), ExitsKeep(v), TradesKeep,
         \A n \in DOMAIN trades' \ DOMAIN trades : trades'[n].token = v => trades'[n].by # "exit",
         Trailed(tok'[v], market'),
         \A k \in Tasks(v, "exit") :
           Running(tok[v], BookedExit(k)) => Running(tok'[v], BookedExit(k))
  PROVE  CoverOK(v)'
<1>1. Tasks(v, "exit")' = Tasks(v, "exit")
  BY DEF Tasks, Task, ExitsKeep
<1>2. ASSUME NEW k \in Tasks(v, "exit")
      PROVE  /\ task'[k] = task[k]
             /\ task[k].pc = "ack" => task[k].trade \in DOMAIN trades
             /\ BookedExit(k)' <=> BookedExit(k)
  <2>1. task'[k] = task[k] /\ (task[k].pc = "ack" => task[k].trade \in DOMAIN trades)
    BY <1>2 DEF Tasks, ExitsKeep, TaskInv
  <2> QED BY <2>1 DEF BookedExit, TradesKeep
<1>3. \A j, k \in Tasks(v, "exit")' : j = k
  BY <1>1 DEF CoverOK
<1>4. ASSUME NEW k \in Tasks(v, "exit")'
      PROVE  /\ Running(tok'[v], BookedExit(k)')
             /\ task'[k].pc = "ack" => trades'[task'[k].trade].token = v
  <2>1. k \in Tasks(v, "exit") /\ Running(tok[v], BookedExit(k))
        /\ (task[k].pc = "ack" => trades[task[k].trade].token = v)
    BY <1>1 DEF CoverOK
  <2>2. Running(tok'[v], BookedExit(k))
    BY <2>1
  <2>3. Running(tok'[v], BookedExit(k)')
    BY <1>2, <2>1, <2>2 DEF Running
  <2> QED BY <1>2, <2>1, <2>3 DEF TradesKeep
<1>5. ASSUME NEW n \in DOMAIN trades', trades'[n].token = v, trades'[n].by = "exit",
             ~trades'[n].applied
      PROVE  \E k \in Tasks(v, "exit")' : task'[k].pc = "ack" /\ task'[k].trade = n
  <2>1. n \in DOMAIN trades /\ trades'[n] = trades[n]
    BY <1>5 DEF TradesKeep
  <2>2. PICK k \in Tasks(v, "exit") : task[k].pc = "ack" /\ task[k].trade = n
    BY <1>5, <2>1 DEF CoverOK
  <2> QED BY <1>1, <1>2, <2>2
<1> QED BY <1>3, <1>4, <1>5 DEF CoverOK, Running

\* The invariant token by token: what a trade is known to be stays known.
LEMMA CoverByToken ==
  ASSUME CoverInv, TradesStay, UNCHANGED scenario,
         Faultless => \A v \in Token : rest'[v].by # "exit",
         \A v \in Token : Faultless /\ OnlyExits(v) /\ OnlyExits(v)' /\ CoverOK(v) => CoverOK(v)'
  PROVE  CoverInv'
<1> SUFFICES ASSUME Faultless, NEW v \in Token, OnlyExits(v)' PROVE CoverOK(v)'
  BY DEF CoverInv, Faultless, Only
<1>1. OnlyExits(v)
  BY DEF OnlyExits, TradesStay
<1> QED BY <1>1 DEF CoverInv

LEMMA RestBy ==
  ASSUME rest \in [Token -> RestType], \A v \in Token : rest[v].by # "exit",
         NEW t, NEW o, o.by # "exit", rest' = [rest EXCEPT ![t] = o]
  PROVE  \A v \in Token : rest'[v].by # "exit"
  OBVIOUS

LEMMA FaultlessHas ==
  ASSUME Faultless
  PROVE  /\ "buy_in_exit" \notin scenario.faults /\ "late_fill" \notin scenario.faults
         /\ "lost_response" \notin scenario.faults /\ "reload" \notin scenario.faults
         /\ "worthless" \notin scenario.faults
  BY DEF Faultless, Only

\* A step that leaves AppState and the exits of the token alone.
LEMMA CoverAside ==
  ASSUME TaskInv, NEW v \in Token, CoverOK(v), ExitsKeep(v), TradesKeep,
         \A n \in DOMAIN trades' \ DOMAIN trades : trades'[n].token = v => trades'[n].by # "exit",
         UNCHANGED <<tok, market>>
  PROVE  CoverOK(v)'
<1>1. Trailed(tok'[v], market')
  BY DEF CoverOK
<1> QED BY <1>1, CoverKept

LEMMA ExitsKeepSame == UNCHANGED task => \A v : ExitsKeep(v)
  BY DEF ExitsKeep

\* Another task than an exit of the token changes, and does not become one.
LEMMA ExitsKeepOther ==
  ASSUME NEW v, NEW k \in Task, \A j \in Task \ {k} : task'[j] = task[j],
         task[k].kind # "exit" \/ task[k].token # v,
         task'[k].kind # "exit" \/ task'[k].token # v
  PROVE  ExitsKeep(v)
  BY DEF ExitsKeep

LEMMA ExchangeCover ==
  ASSUME IInv, CoverInv, NEW t \in Token,
         \/ \E atOnce \in BOOLEAN : BuyFilled(t, atOnce)
         \/ LimitSell(t) \/ RestFilled(t) \/ RestCancelled(t)
  PROVE  CoverInv'
<1>0. /\ TypeOK /\ TaskInv /\ task \in [Task -> TaskType] /\ held \in [Token -> Nat]
      /\ rest \in [Token -> RestType] /\ UNCHANGED <<scenario, market, tok>>
  BY Parts DEF IInv, BuyFilled, LimitSell, RestFilled, RestCancelled
<1>1. CASE \E atOnce \in BOOLEAN : BuyFilled(t, atOnce)
  <2>1. PICK atOnce \in BOOLEAN : BuyFilled(t, atOnce)
    BY <1>1
  <2>2. Execute(t, "buy", Lot) /\ Lot \in Nat /\ UNCHANGED rest
    BY <2>1, TrailingExitAssumption DEF BuyFilled
  <2>3. /\ TradesStay /\ TradesKeep
        /\ \A n \in DOMAIN trades' \ DOMAIN trades : trades'[n].by # "exit"
    BY <1>0, <2>2, ExecuteAdds DEF TradesKeep
  <2>4. \A v \in Token : ExitsKeep(v)
    <3>1. CASE UNCHANGED task
      BY <3>1, ExitsKeepSame
    <3>2. CASE Started("buy", "ack", t, Lot, Len(trades'))
      <4>1. "buy" \in Kinds
        BY DEF Kinds
      <4>2. PICK k \in Task : task[k].kind = "none" /\ task'[k].kind = "buy"
                              /\ \A j \in Task \ {k} : task'[j] = task[j]
        BY <1>0, <3>2, <4>1, StartedTask
      <4> QED BY <4>2, ExitsKeepOther
    <3> QED BY <2>1, <3>1, <3>2 DEF BuyFilled
  <2>5. \A v \in Token : CoverOK(v) => CoverOK(v)'
    BY <1>0, <2>3, <2>4, CoverAside
  <2>6. Faultless => \A v \in Token : rest'[v].by # "exit"
    BY <2>2 DEF CoverInv
  <2> QED BY <1>0, <2>3, <2>5, <2>6, CoverByToken
<1>2. CASE LimitSell(t) \/ RestCancelled(t)
  <2>1. UNCHANGED <<trades, task>> /\ TradesStay /\ TradesKeep
    BY <1>2, StillThere DEF LimitSell, RestCancelled, TradesKeep
  <2>2. Faultless => \A v \in Token : rest'[v].by # "exit"
    <3>1. \E o : o.by # "exit" /\ rest' = [rest EXCEPT ![t] = o]
      BY <1>2 DEF LimitSell, RestCancelled, NoOrder
    <3> QED BY <1>0, <3>1, RestBy DEF CoverInv
  <2>3. \A v \in Token : CoverOK(v) => CoverOK(v)'
    BY <1>0, <2>1, ExitsKeepSame, CoverAside
  <2> QED BY <1>0, <2>1, <2>2, <2>3, CoverByToken
<1>3. CASE RestFilled(t)
  <2>1. PICK q \in 1..Lower(rest[t].lots, held[t]) :
          Execute(t, rest[t].by, q) /\ rest' = [rest EXCEPT ![t] = Filled(rest[t], q)]
    BY <1>3 DEF RestFilled
  <2>2. rest[t] \in RestType /\ rest[t].lots \in Nat /\ held[t] \in Nat /\ UNCHANGED task
    BY <1>0, <1>3 DEF RestType, NoOrder, RestFilled
  <2>3. q \in Nat /\ rest[t].lots > 0
    <3> DEFINE l == Lower(rest[t].lots, held[t])
    <3>1. q \in 1..l /\ l \in Nat /\ l <= rest[t].lots
      BY <2>1, <2>2, NatOps
    <3> HIDE DEF l
    <3> QED BY <2>2, <3>1
  <2>4. rest[t].by \in {"exit", "stop", "user"}
    BY <2>2, <2>3 DEF RestType, NoOrder
  <2>5. /\ TradesStay /\ TradesKeep
        /\ \A n \in DOMAIN trades' \ DOMAIN trades : trades'[n].by = rest[t].by
    BY <1>0, <2>1, <2>3, <2>4, ExecuteAdds DEF TradesKeep
  <2>6. Filled(rest[t], q).by \in {"none", rest[t].by}
    BY <2>2, <2>3 DEF Filled, NoOrder, RestType
  <2>7. Faultless => \A v \in Token : rest'[v].by # "exit"
    <3>1. Faultless => Filled(rest[t], q).by # "exit"
      BY <2>6 DEF CoverInv
    <3> QED BY <1>0, <2>1, <3>1, RestBy DEF CoverInv
  <2>8. \A v \in Token : Faultless /\ CoverOK(v) => CoverOK(v)'
    <3> SUFFICES ASSUME NEW v \in Token, Faultless, CoverOK(v) PROVE CoverOK(v)'
      OBVIOUS
    <3>1. \A n \in DOMAIN trades' \ DOMAIN trades : trades'[n].by # "exit"
      BY <2>5 DEF CoverInv
    <3> QED BY <1>0, <2>2, <2>5, <3>1, ExitsKeepSame, CoverAside
  <2> QED BY <1>0, <2>5, <2>7, <2>8, CoverByToken
<1> QED BY <1>1, <1>2, <1>3

\* An exit goes on from its POST, told of its trade or of a failure.
LEMMA ExitMoves ==
  ASSUME NEW v \in Token, CoverOK(v), NEW k \in Task, At(k, "exit", "post"), task[k].token = v,
         task'[k].kind = "exit", task'[k].token = v, \A j \in Task \ {k} : task'[j] = task[j],
         TradesKeep, UNCHANGED <<tok, market>>,
         \/ task'[k].pc \in {"post", "fail"} /\ UNCHANGED trades
         \/ /\ task'[k].pc = "ack" /\ DOMAIN trades' = DOMAIN trades \cup {task'[k].trade}
            /\ trades'[task'[k].trade].token = v /\ trades'[task'[k].trade].applied = FALSE
  PROVE  CoverOK(v)'
<1>1. k \in Tasks(v, "exit") /\ Tasks(v, "exit")' = Tasks(v, "exit")
  BY DEF Tasks, Task, At
<1>2. \A j \in Tasks(v, "exit") : j = k
  BY <1>1 DEF CoverOK
<1>3. BookedExit(k) = FALSE /\ BookedExit(k)' = FALSE
  BY DEF BookedExit, At
<1>4. Running(tok[v], FALSE)
  <2>1. Running(tok[v], BookedExit(k))
    BY <1>1 DEF CoverOK
  <2> QED BY <1>3, <2>1 DEF Running
<1>5. \A j \in Tasks(v, "exit")' : /\ Running(tok'[v], BookedExit(j)')
                                   /\ task'[j].pc = "ack" => trades'[task'[j].trade].token = v
  <2> SUFFICES ASSUME NEW j \in Tasks(v, "exit")'
               PROVE  /\ Running(tok'[v], BookedExit(j)')
                      /\ task'[j].pc = "ack" => trades'[task'[j].trade].token = v
    OBVIOUS
  <2>1. j = k
    BY <1>1, <1>2
  <2>2. Running(tok'[v], BookedExit(k)')
    BY <1>3, <1>4 DEF Running
  <2> QED BY <2>1, <2>2
<1>6. ASSUME NEW n \in DOMAIN trades', trades'[n].token = v, trades'[n].by = "exit",
             ~trades'[n].applied
      PROVE  \E j \in Tasks(v, "exit")' : task'[j].pc = "ack" /\ task'[j].trade = n
  <2>1. CASE n \in DOMAIN trades
    <3>1. trades'[n] = trades[n]
      BY <2>1 DEF TradesKeep
    <3>2. PICK j \in Tasks(v, "exit") : task[j].pc = "ack"
      BY <1>6, <2>1, <3>1 DEF CoverOK
    <3> QED BY <1>2, <3>2 DEF At
  <2>2. CASE n \notin DOMAIN trades
    BY <1>1, <2>2
  <2> QED BY <2>1, <2>2
<1>7. Trailed(tok'[v], market')
  BY DEF CoverOK
<1>8. \A i, j \in Tasks(v, "exit")' : i = j
  BY <1>1, <1>2
<1> QED BY <1>5, <1>6, <1>7, <1>8 DEF CoverOK, Running

LEMMA ExitsCover ==
  ASSUME IInv, CoverInv, NEW k \in Task, ExitRefused(k) \/ ExitFilled(k) \/ ExitRests(k)
  PROVE  CoverInv'
<1>0. /\ TypeOK /\ TaskInv /\ task \in [Task -> TaskType] /\ At(k, "exit", "post")
      /\ UNCHANGED <<scenario, market, tok>>
  BY Parts DEF IInv, ExitRefused, ExitFilled, ExitRests
<1>1. CASE ExitRests(k)
  <2>1. ~Faultless /\ UNCHANGED scenario
    BY <1>1, FaultlessHas DEF ExitRests
  <2> QED BY <2>1 DEF CoverInv, Faultless, Only
<1>2. CASE ExitRefused(k) \/ ExitFilled(k)
  <2>1. \/ Repeat(k) /\ UNCHANGED trades
        \/ ExitFilled(k)
    BY <1>2 DEF ExitRefused
  <2>2. UNCHANGED rest
    BY <1>2 DEF ExitRefused, ExitFilled
  <2>3. CASE Repeat(k) /\ UNCHANGED trades
    <3>1. /\ task'[k].kind = "exit" /\ task'[k].token = task[k].token
          /\ task'[k].pc \in {"post", "fail"} /\ \A j \in Task \ {k} : task'[j] = task[j]
      BY <1>0, <2>3, MovedTask DEF At
    <3>2. TradesStay /\ TradesKeep
      BY <2>3, StillThere DEF TradesKeep
    <3>3. \A v \in Token : CoverOK(v) => CoverOK(v)'
      <4> SUFFICES ASSUME NEW v \in Token, CoverOK(v) PROVE CoverOK(v)'
        OBVIOUS
      <4>1. CASE task[k].token = v
        BY <1>0, <2>3, <3>1, <3>2, <4>1, ExitMoves
      <4>2. CASE task[k].token # v
        <5>1. ExitsKeep(v)
          BY <3>1, <4>2, ExitsKeepOther
        <5> QED BY <1>0, <2>3, <3>2, <5>1, CoverAside
      <4> QED BY <4>1, <4>2
    <3>4. Faultless => \A v \in Token : rest'[v].by # "exit"
      BY <2>2 DEF CoverInv
    <3> QED BY <1>0, <3>2, <3>3, <3>4, CoverByToken
  <2>4. CASE ExitFilled(k)
    <3>1. PICK q, n : /\ q \in 1..Lower(task[k].lots, held[task[k].token])
                      /\ Execute(task[k].token, "exit", q) /\ n = Len(trades')
                      /\ \/ task' = [task EXCEPT ![k].pc = "ack", ![k].lots = q, ![k].trade = n]
                         \/ "lost_response" \in scenario.faults
      BY <2>4 DEF ExitFilled
    <3>2. /\ TradesStay /\ TradesKeep
          /\ DOMAIN trades' = DOMAIN trades \cup {n}
          /\ trades'[n].token = task[k].token
          /\ trades'[n].applied = FALSE
      BY <1>0, <3>1, PostedFill DEF TradesKeep, At
    <3>5. \/ "lost_response" \in scenario.faults
          \/ /\ task'[k].kind = "exit" /\ task'[k].token = task[k].token
             /\ task'[k].pc = "ack" /\ task'[k].trade = n
             /\ \A j \in Task \ {k} : task'[j] = task[j]
      <4>1. CASE task' = [task EXCEPT ![k].pc = "ack", ![k].lots = q, ![k].trade = n]
        <5>1. task[k] \in TaskType /\ task[k].kind = "exit"
          BY <1>0 DEF At
        <5>2. PICK r : /\ task' = [task EXCEPT ![k] = r]
                       /\ r = [task[k] EXCEPT !.pc = "ack", !.lots = q, !.trade = n]
          BY <4>1
        <5>3. r.kind = "exit" /\ r.token = task[k].token /\ r.pc = "ack" /\ r.trade = n
          BY <5>1, <5>2 DEF TaskType
        <5> QED BY <1>0, <5>2, <5>3, OneTask
      <4> QED BY <3>1, <4>1
    <3>3. \A v \in Token : Faultless /\ CoverOK(v) => CoverOK(v)'
      <4> SUFFICES ASSUME NEW v \in Token, Faultless, CoverOK(v) PROVE CoverOK(v)'
        OBVIOUS
      <4>1. /\ task'[k].kind = "exit" /\ task'[k].token = task[k].token
            /\ task'[k].pc = "ack" /\ task'[k].trade = n
            /\ \A j \in Task \ {k} : task'[j] = task[j]
        BY <3>5, FaultlessHas
      <4>2. CASE task[k].token = v
        BY <1>0, <3>2, <4>1, <4>2, ExitMoves
      <4>3. CASE task[k].token # v
        <5>1. ExitsKeep(v)
          BY <4>1, <4>3, ExitsKeepOther
        <5>2. \A m \in DOMAIN trades' \ DOMAIN trades : trades'[m].token # v
          BY <3>2, <4>3
        <5> QED BY <1>0, <3>2, <5>1, <5>2, CoverAside
      <4> QED BY <4>2, <4>3
    <3>4. Faultless => \A v \in Token : rest'[v].by # "exit"
      BY <2>2 DEF CoverInv
    <3> QED BY <1>0, <3>2, <3>3, <3>4, CoverByToken
  <2> QED BY <2>1, <2>3, <2>4
<1> QED BY <1>1, <1>2

\* The POST of a stop loss or of a SELL of the user.
LEMMA SellsCover ==
  ASSUME IInv, CoverInv, NEW k \in Task, StopPosted(k) \/ StopRefused(k) \/ ManualPosted(k)
  PROVE  CoverInv'
<1>0. /\ TypeOK /\ TaskInv /\ task \in [Task -> TaskType] /\ task[k].kind \in {"stop", "manual"}
      /\ task[k].token \in Token /\ rest \in [Token -> RestType]
      /\ UNCHANGED <<scenario, market, tok>>
  BY Parts DEF IInv, TaskInv, StopPosted, StopRefused, ManualPosted, At
<1> DEFINE t == task[k].token
           Fills(by) == \E q \in 1..Lower(task[k].lots, held[t]) :
                           Execute(t, by, q)
           Acked == \E q, n : task' = [task EXCEPT ![k].pc = "ack", ![k].lots = q, ![k].trade = n]
           Moved == \E pc : Goto(k, pc)
<1>1. /\ UNCHANGED trades \/ Fills("stop") \/ Fills("user")
      /\ Acked \/ Moved
      /\ UNCHANGED rest \/ \E o : o.by # "exit" /\ rest' = [rest EXCEPT ![t] = o]
  <2>1. CASE StopRefused(k)
    <3>1. NoOrder.by # "exit"
      BY DEF NoOrder
    <3> QED BY <2>1, <3>1 DEF StopRefused
  <2>2. CASE ManualPosted(k)
    BY <2>2 DEF ManualPosted
  <2>3. CASE StopPosted(k)
    <3> DEFINE p == [by |-> "stop", lots |-> task[k].lots]
    <3>1. p.by = "stop" /\ \A q : Filled(p, q).by # "exit"
      <4>1. ASSUME NEW q PROVE Filled(p, q).by # "exit"
        <5>1. CASE q = p.lots
          BY <5>1 DEF Filled, NoOrder
        <5>2. CASE q # p.lots
          <6>1. Filled(p, q) = [p EXCEPT !.lots = p.lots - q]
            BY <5>2 DEF Filled
          <6> QED BY <6>1
        <5> QED BY <5>1, <5>2
      <4> QED BY <4>1
    <3> HIDE DEF p
    <3> QED BY <2>3, <3>1 DEF StopPosted, p
  <2> QED BY <2>1, <2>2, <2>3
<1>2. /\ TradesStay /\ TradesKeep
      /\ \A n \in DOMAIN trades' \ DOMAIN trades : trades'[n].by # "exit"
  <2>1. CASE UNCHANGED trades
    BY <2>1, StillThere DEF TradesKeep
  <2>2. ASSUME NEW by \in {"stop", "user"}, Fills(by)
        PROVE  /\ TradesStay /\ TradesKeep
               /\ \A n \in DOMAIN trades' \ DOMAIN trades : trades'[n].by # "exit"
    BY <1>0, <2>2, PostedFill DEF TradesKeep
  <2> QED BY <1>1, <2>1, <2>2
<1>3. \A v \in Token : ExitsKeep(v)
  <2>1. task'[k].kind = task[k].kind /\ \A j \in Task \ {k} : task'[j] = task[j]
    <3>1. CASE Acked
      <4>1. PICK q, n : task' = [task EXCEPT ![k].pc = "ack", ![k].lots = q, ![k].trade = n]
        BY <3>1
      <4> QED BY <1>0, <4>1, AckedTask
    <3>2. CASE Moved
      BY <1>0, <3>2, MovedTask
    <3> QED BY <1>1, <3>1, <3>2
  <2> QED BY <1>0, <2>1, ExitsKeepOther
<1>4. Faultless => \A v \in Token : rest'[v].by # "exit"
  <2>1. CASE UNCHANGED rest
    BY <2>1 DEF CoverInv
  <2>2. CASE \E o : o.by # "exit" /\ rest' = [rest EXCEPT ![t] = o]
    BY <1>0, <2>2, RestBy DEF CoverInv
  <2> QED BY <1>1, <2>1, <2>2
<1>5. \A v \in Token : CoverOK(v) => CoverOK(v)'
  BY <1>0, <1>2, <1>3, CoverAside
<1> QED BY <1>0, <1>2, <1>4, <1>5, CoverByToken


\* A trade is booked: that of the exit that runs, that of no exit, or one booked before.
LEMMA FillCover ==
  ASSUME IInv, Faultless, NEW v \in Token, OnlyExits(v), CoverOK(v),
         NEW n \in DOMAIN trades, NEW settled \in BOOLEAN, Booked(n, settled), Undisturbed(n),
         \/ trades' = [trades EXCEPT ![n].applied = TRUE]
         \/ trades' = [trades EXCEPT ![n].applied = TRUE, ![n].told = TRUE],
         UNCHANGED market,
         \A j \in Task : \/ task'[j] = task[j]
                         \/ /\ task'[j].kind = task[j].kind /\ task'[j].token = task[j].token
                            /\ task[j].pc = "ack" /\ task[j].trade = n
                            /\ task[j].kind = "exit" => task'[j].pc = "done"
  PROVE  CoverOK(v)'
<1> DEFINE t == trades[n].token
           q == trades[n].lots
           E == Tasks(v, "exit")
<1>0. /\ TypeOK /\ TaskInv /\ t \in Token /\ q \in Nat /\ tok \in [Token -> TokenState]
      /\ trades[n].applied \in BOOLEAN
  BY TradeFacts, Parts DEF IInv, TradeType
<1>1. PICK x \in TokenState :
         /\ Same(tok[t], x)
         /\ \A w \in Token \ {t} : tok'[w] = tok[w]
         /\ trades[n].applied => tok'[t] = x
         /\ ~trades[n].applied /\ trades[n].by # "buy" => tok'[t] = Sold(x, q)
         /\ ~trades[n].applied /\ trades[n].by = "buy" => tok'[t] \in MayPromote(Bought(x, q))
  BY <1>0, BookedFields
<1>2. /\ DOMAIN trades' = DOMAIN trades
      /\ trades'[n].applied = TRUE /\ trades'[n].by = trades[n].by
      /\ trades'[n].token = trades[n].token
      /\ \A m \in DOMAIN trades \ {n} : trades'[m] = trades[m]
  BY <1>0, Marked
<1>3. E' = E
  BY DEF Tasks, Task
<1>4. ASSUME NEW k \in E
      PROVE  /\ k \in Task /\ task[k].kind = "exit" /\ task[k].token = v
             /\ Running(tok[v], BookedExit(k))
             /\ task[k].pc = "ack" => task[k].trade \in DOMAIN trades
                                      /\ trades[task[k].trade].token = v
             /\ task'[k] = task[k] \/ (task[k].pc = "ack" /\ task[k].trade = n /\ task'[k].pc = "done")
  BY <1>0, <1>4 DEF Tasks, TaskInv, CoverOK
<1>5. \A i, j \in E' : i = j
  BY <1>3 DEF CoverOK
<1>6. ASSUME NEW k \in E, task'[k].pc = "ack" PROVE trades'[task'[k].trade].token = v
  <2>1. task'[k] = task[k] /\ task[k].trade \in DOMAIN trades /\ trades[task[k].trade].token = v
    BY <1>4, <1>6
  <2> QED BY <1>2, <2>1
<1>7. ASSUME NEW m \in DOMAIN trades', trades'[m].token = v, trades'[m].by = "exit",
             ~trades'[m].applied
      PROVE  m # n /\ \E k \in E : task'[k].pc = "ack" /\ task'[k].trade = m
  <2>1. m # n /\ m \in DOMAIN trades /\ trades'[m] = trades[m]
    BY <1>2, <1>7
  <2>2. PICK k \in E : task[k].pc = "ack" /\ task[k].trade = m
    BY <1>7, <2>1 DEF CoverOK
  <2> QED BY <1>4, <2>1, <2>2
<1>8. /\ Trailed(tok'[v], market)
      /\ \A k \in E : Running(tok'[v], BookedExit(k)')
  <2>0. Trailed(tok[v], market)
    BY DEF CoverOK
  <2>1. CASE t # v
    <3>1. tok'[v] = tok[v]
      BY <1>1, <2>1
    <3>2. ASSUME NEW k \in E PROVE BookedExit(k)' <=> BookedExit(k)
      <4>1. task'[k] = task[k]
        BY <1>4, <2>1
      <4>2. task[k].pc = "ack" => trades'[task[k].trade] = trades[task[k].trade]
        BY <1>2, <1>4, <2>1
      <4> QED BY <4>1, <4>2 DEF BookedExit
    <3> QED BY <1>4, <2>0, <3>1, <3>2 DEF Running
  <2>2. CASE t = v /\ trades[n].applied
    <3>1. tok'[v] = x /\ Safe(tok[v], x, market)
      BY <1>1, <2>2, SafeSame
    <3>2. ASSUME NEW k \in E PROVE BookedExit(k)' <=> BookedExit(k)
      <4>1. CASE task'[k] = task[k]
        <5>1. task[k].pc = "ack" => (trades'[task[k].trade].applied <=> trades[task[k].trade].applied)
          BY <1>2, <1>4, <2>2
        <5> QED BY <4>1, <5>1 DEF BookedExit
      <4>2. CASE task[k].pc = "ack" /\ task[k].trade = n /\ task'[k].pc = "done"
        BY <2>2, <4>2 DEF BookedExit
      <4> QED BY <1>4, <4>1, <4>2
    <3>3. ASSUME NEW k \in E PROVE Running(x, BookedExit(k))
      <4>1. BookedExit(k) \in BOOLEAN
        BY DEF BookedExit
      <4> QED BY <1>4, <2>0, <3>1, <4>1 DEF Safe
    <3> QED BY <2>0, <3>1, <3>2, <3>3 DEF Safe, Running
  <2>3. CASE t = v /\ ~trades[n].applied /\ trades[n].by # "buy"
    <3>1. trades[n].by = "exit"
      BY <2>3 DEF OnlyExits
    <3>2. PICK k \in E : task[k].pc = "ack" /\ task[k].trade = n
      BY <2>3, <3>1 DEF CoverOK
    <3>3. BookedExit(k) = FALSE
      BY <2>3, <3>2 DEF BookedExit
    <3>4. Running(tok[v], FALSE)
      BY <1>4, <3>3 DEF Running
    <3>5. Trailed(x, market) /\ Running(x, FALSE)
      BY <1>1, <2>0, <2>3, <3>4, SafeSame DEF Safe
    <3>6. tok'[v] = Sold(x, q)
      BY <1>1, <2>3
    <3>7. Trailed(tok'[v], market) /\ Running(tok'[v], TRUE)
      BY <1>0, <3>5, <3>6, SafeSold
    <3>8. BookedExit(k)' = TRUE
      BY <1>2, <1>4, <3>2 DEF BookedExit
    <3>9. ASSUME NEW j \in E PROVE Running(tok'[v], BookedExit(j)')
      <4>1. j = k
        BY DEF CoverOK
      <4> QED BY <3>7, <3>8, <4>1 DEF Running
    <3> QED BY <3>7, <3>9
  <2>4. CASE t = v /\ ~trades[n].applied /\ trades[n].by = "buy"
    <3>1. ~Exiting(v)
      BY <2>4, FaultlessHas DEF Undisturbed
    <3>2. tok[v].queue = <<>> /\ E = {}
      BY <3>1 DEF Exiting
    <3>3. x.queue = <<>> /\ Trailed(x, market)
      BY <1>1, <2>0, <2>4, <3>2, SafeSame DEF Same, Safe
    <3>4. PICK y \in MayPromote(Bought(x, q)) : tok'[v] = y
      BY <1>1, <2>4
    <3>5. Trailed(y, market)
      BY <1>0, <3>3, SafeBought
    <3> QED BY <3>2, <3>4, <3>5
  <2> QED BY <1>0, <2>1, <2>2, <2>3, <2>4
<1>9. \A k \in E' : /\ Running(tok'[v], BookedExit(k)')
                    /\ task'[k].pc = "ack" => trades'[task'[k].trade].token = v
  BY <1>3, <1>6, <1>8
<1>10. \A m \in DOMAIN trades' :
         trades'[m].token = v /\ trades'[m].by = "exit" /\ ~trades'[m].applied =>
           \E k \in E' : task'[k].pc = "ack" /\ task'[k].trade = m
  BY <1>3, <1>7
<1> QED BY <1>5, <1>8, <1>9, <1>10 DEF CoverOK, Running

LEMMA FillsCover ==
  ASSUME IInv, CoverInv,
         \/ \E k \in Task : OrderAck(k)
         \/ \E n \in DOMAIN trades : UserChannelFill(n)
  PROVE  CoverInv'
<1>0. TypeOK /\ TaskInv /\ task \in [Task -> TaskType]
  BY Parts DEF IInv
<1>1. PICK n \in DOMAIN trades, b \in BOOLEAN :
        /\ Booked(n, b) /\ Undisturbed(n)
        /\ \/ trades' = [trades EXCEPT ![n].applied = TRUE]
           \/ trades' = [trades EXCEPT ![n].applied = TRUE, ![n].told = TRUE]
        /\ UNCHANGED <<scenario, market, rest>>
        /\ \A j \in Task : \/ task'[j] = task[j]
                           \/ /\ task'[j].kind = task[j].kind /\ task'[j].token = task[j].token
                              /\ task[j].pc = "ack" /\ task[j].trade = n
                              /\ task[j].kind = "exit" => task'[j].pc = "done"
  <2>1. ASSUME NEW n \in DOMAIN trades, UserChannelFill(n)
        PROVE  \E b \in BOOLEAN :
                 /\ Booked(n, b) /\ Undisturbed(n)
                 /\ trades' = [trades EXCEPT ![n].applied = TRUE, ![n].told = TRUE]
                 /\ UNCHANGED <<scenario, market, rest, task>>
    <3> DEFINE b == trades[n].by # "buy" /\ ~trades[n].applied
    <3>1. trades[n].applied \in BOOLEAN
      BY <1>0, TradeFacts DEF TradeType
    <3>2. b \in BOOLEAN
      BY <3>1
    <3>3. /\ Booked(n, b) /\ Undisturbed(n)
          /\ trades' = [trades EXCEPT ![n].applied = TRUE, ![n].told = TRUE]
          /\ UNCHANGED <<scenario, market, rest, task>>
      BY <2>1 DEF UserChannelFill
    <3> HIDE DEF b
    <3> QED BY <3>2, <3>3
  <2>2. ASSUME NEW k \in Task, OrderAck(k)
        PROVE  /\ task[k].trade \in DOMAIN trades
               /\ Booked(task[k].trade, task[k].kind # "buy") /\ Undisturbed(task[k].trade)
               /\ trades' = [trades EXCEPT ![task[k].trade].applied = TRUE]
               /\ UNCHANGED <<scenario, market, rest>>
               /\ task[k].pc = "ack"
               /\ task'[k].kind = task[k].kind /\ task'[k].token = task[k].token
               /\ task[k].kind = "exit" => task'[k].pc = "done"
               /\ \A j \in Task \ {k} : task'[j] = task[j]
    <3>1. /\ task[k].pc = "ack" /\ Booked(task[k].trade, task[k].kind # "buy")
          /\ Undisturbed(task[k].trade)
          /\ trades' = [trades EXCEPT ![task[k].trade].applied = TRUE]
          /\ UNCHANGED <<scenario, market, rest>>
      BY <2>2 DEF OrderAck
    <3>2. PICK pc : Goto(k, pc) /\ (task[k].kind = "exit" => pc = "done")
      BY <2>2 DEF OrderAck
    <3>3. /\ task'[k].kind = task[k].kind /\ task'[k].token = task[k].token /\ task'[k].pc = pc
          /\ \A j \in Task \ {k} : task'[j] = task[j]
      BY <1>0, <3>2, MovedTask
    <3>4. task[k].trade \in DOMAIN trades
      BY <1>0, <3>1 DEF TaskInv
    <3> QED BY <3>1, <3>2, <3>3, <3>4
  <2>3. CASE \E k \in Task : OrderAck(k)
    <3>1. PICK k \in Task : OrderAck(k)
      BY <2>3
    <3>2. PICK n, b : n = task[k].trade /\ b = (task[k].kind # "buy")
      OBVIOUS
    <3>3. n \in DOMAIN trades /\ b \in BOOLEAN
      BY <2>2, <3>1, <3>2
    <3>4. /\ Booked(n, b) /\ Undisturbed(n)
          /\ trades' = [trades EXCEPT ![n].applied = TRUE]
          /\ UNCHANGED <<scenario, market, rest>>
      BY <2>2, <3>1, <3>2
    <3>5. \A j \in Task : \/ task'[j] = task[j]
                           \/ /\ task'[j].kind = task[j].kind /\ task'[j].token = task[j].token
                              /\ task[j].pc = "ack" /\ task[j].trade = n
                              /\ task[j].kind = "exit" => task'[j].pc = "done"
      BY <2>2, <3>1, <3>2
    <3> QED BY <3>3, <3>4, <3>5
  <2>4. CASE \E n \in DOMAIN trades : UserChannelFill(n)
    BY <2>1, <2>4
  <2> QED BY <2>3, <2>4
<1>2. TradesStay
  BY <1>0, <1>1, Marked
<1>3. Faultless => \A v \in Token : rest'[v].by # "exit"
  BY <1>1 DEF CoverInv
<1>4. \A v \in Token : Faultless /\ OnlyExits(v) /\ OnlyExits(v)' /\ CoverOK(v) => CoverOK(v)'
  BY <1>1, FillCover
<1> QED BY <1>1, <1>2, <1>3, <1>4, CoverByToken

\* A step that leaves the trades, the orders and the exits alone.
LEMMA CoverStep ==
  ASSUME TaskInv, CoverInv, UNCHANGED <<scenario, market, trades, rest>>,
         \A v \in Token : ExitsKeep(v),
         Faultless => \A v \in Token :
           \/ Safe(tok[v], tok'[v], market)
           \/ /\ Tasks(v, "exit") = {}
              /\ Trailed(tok[v], market) => Trailed(tok'[v], market)
  PROVE  CoverInv'
<1>1. TradesStay /\ TradesKeep /\ DOMAIN trades' \ DOMAIN trades = {}
  BY StillThere DEF TradesKeep
<1>2. ASSUME NEW v \in Token, Faultless, CoverOK(v)
      PROVE  CoverOK(v)'
  <2>1. Trailed(tok[v], market)
    BY <1>2 DEF CoverOK
  <2>2. Trailed(tok'[v], market')
    BY <1>2, <2>1 DEF Safe
  <2>3. \A k \in Tasks(v, "exit") :
          Running(tok[v], BookedExit(k)) => Running(tok'[v], BookedExit(k))
    <3>1. \A k : BookedExit(k) \in BOOLEAN
      BY DEF BookedExit
    <3> QED BY <1>2, <2>1, <3>1 DEF Safe
  <2> QED BY <1>1, <1>2, <2>2, <2>3, CoverKept
<1>3. Faultless => \A v \in Token : rest'[v].by # "exit"
  BY DEF CoverInv
<1> QED BY <1>1, <1>2, <1>3, CoverByToken

\* RequestTrailingArm: no exit runs.
LEMMA ArmCover ==
  ASSUME IInv, CoverInv, NEW k \in Task, RequestTrailingArm(k)
  PROVE  CoverInv'
<1>a. PICK t \in Token : task[k].token = t
  BY DEF IInv, TaskInv, RequestTrailingArm, At
<1> DEFINE x == tok[t]
           n == x.arm + task[k].lots
           z == [x EXCEPT !.arm = n]
<1>0. /\ TaskInv /\ task \in [Task -> TaskType] /\ tok \in [Token -> TokenState]
      /\ x \in TokenState /\ task[k].kind = "buy" /\ task[k].lots \in Nat
      /\ task' = [task EXCEPT ![k] = Off] /\ UNCHANGED <<scenario, market, trades, rest>>
      /\ ~Exiting(t) \/ "buy_in_exit" \in scenario.faults
  BY <1>a, Parts DEF IInv, RequestTrailingArm, At, TaskType
<1>1. PICK y \in MayPromote(z) : tok' = [tok EXCEPT ![t] = y]
  BY <1>a DEF RequestTrailingArm
<1>2. x.arm \in Nat /\ x.pos \in Nat /\ n \in Nat /\ n >= x.arm
  <2> HIDE DEF x
  <2>1. x.arm \in Nat /\ x.pos \in Nat
    BY <1>0, Fields
  <2> QED BY <1>0, <2>1
<1> HIDE DEF n, x
<1>3. /\ z \in TokenState /\ z.arm = n /\ z.plan = x.plan /\ z.pos = x.pos /\ z.queue = x.queue
  BY <1>0, <1>2 DEF TokenState
<1>4. y = z \/ (z.arm > 0 /\ y = Promoted(z))
  BY <1>1 DEF MayPromote
<1> HIDE DEF z
<1>5. ASSUME Trailed(x, market) PROVE Trailed(y, market)
  <2>1. Trailed(z, market)
    BY <1>2, <1>3, <1>5 DEF Trailed
  <2> QED BY <1>3, <1>4, <2>1, SafePromoted DEF Safe
<1>6. \A v \in Token : ExitsKeep(v)
  <2>1. task'[k] = Off /\ \A j \in Task \ {k} : task'[j] = task[j]
    BY <1>0, OneTask
  <2>2. task'[k].kind # "exit"
    BY <2>1 DEF Off
  <2> QED BY <1>0, <2>1, <2>2, ExitsKeepOther
<1>7. Faultless => \A v \in Token :
           \/ Safe(tok[v], tok'[v], market)
           \/ /\ Tasks(v, "exit") = {}
              /\ Trailed(tok[v], market) => Trailed(tok'[v], market)
  <2> SUFFICES ASSUME Faultless, NEW v \in Token
               PROVE  \/ Safe(tok[v], tok'[v], market)
                      \/ /\ Tasks(v, "exit") = {}
                         /\ Trailed(tok[v], market) => Trailed(tok'[v], market)
    OBVIOUS
  <2>1. CASE v = t
    <3>1. Tasks(v, "exit") = {}
      BY <1>0, <2>1, FaultlessHas DEF Exiting
    <3> QED BY <1>0, <1>1, <1>5, <2>1, <3>1 DEF x
  <2>2. CASE v # t
    BY <1>0, <1>1, <2>2 DEF Safe
  <2> QED BY <2>1, <2>2
<1> QED BY <1>0, <1>6, <1>7, CoverStep

\* The exit reports: no trade of it is left to be booked.
LEMMA ExitDoneCover ==
  ASSUME IInv, CoverInv, NEW k \in Task, TrailingExitDispatchDone(k)
  PROVE  CoverInv'
<1>a. PICK t \in Token : task[k].token = t
  BY DEF IInv, TaskInv, TrailingExitDispatchDone
<1>b. PICK success \in BOOLEAN : success = (task[k].pc = "done")
  OBVIOUS
<1>0. /\ TaskInv /\ task \in [Task -> TaskType] /\ tok \in [Token -> TokenState]
      /\ task[k].kind = "exit" /\ task[k].pc \in {"done", "fail"}
      /\ tok' = [tok EXCEPT ![t] = ExitDone(tok[t], success)]
      /\ task' = [task EXCEPT ![k] = Off] /\ UNCHANGED <<scenario, market, trades, rest>>
  BY <1>a, <1>b, Parts DEF IInv, TrailingExitDispatchDone
<1>1. task'[k].kind = "none" /\ \A j \in Task \ {k} : task'[j] = task[j]
  BY <1>0, OneTask DEF Off
<1>2. TradesStay /\ TradesKeep /\ DOMAIN trades' \ DOMAIN trades = {}
  BY <1>0, StillThere DEF TradesKeep
<1>3. Faultless => \A v \in Token : rest'[v].by # "exit"
  BY <1>0 DEF CoverInv
<1>4. ASSUME NEW v \in Token, CoverOK(v)
      PROVE  CoverOK(v)'
  <2>1. CASE v # t
    <3>1. ExitsKeep(v)
      BY <1>a, <1>1, <2>1, ExitsKeepOther
    <3>2. tok'[v] = tok[v] /\ Trailed(tok'[v], market')
      BY <1>0, <1>4, <2>1 DEF CoverOK
    <3> QED BY <1>0, <1>2, <1>4, <3>1, <3>2, CoverKept
  <2>2. CASE v = t
    <3>1. k \in Tasks(v, "exit") /\ \A j \in Tasks(v, "exit") : j = k
      <4>1. k \in Tasks(v, "exit")
        BY <1>0, <1>a, <2>2 DEF Tasks
      <4> QED BY <1>4, <4>1 DEF CoverOK
    <3>2. Tasks(v, "exit")' = {}
      BY <1>1, <3>1 DEF Tasks, Task
    <3>3. \A n \in DOMAIN trades : trades[n].token = v /\ trades[n].by = "exit" => trades[n].applied
      BY <1>0, <1>4, <3>1 DEF CoverOK
    <3>4. PICK b \in BOOLEAN : b = BookedExit(k)
      BY DEF BookedExit
    <3>5. (success => b) /\ Trailed(tok[v], market) /\ Running(tok[v], b)
      BY <1>b, <1>4, <3>1, <3>4 DEF BookedExit, CoverOK
    <3>6. tok[v] \in TokenState
      BY <1>0
    <3>7. Trailed(ExitDone(tok[v], success), market)
      BY <3>5, <3>6, SafeDone
    <3>8. tok'[v] = ExitDone(tok[v], success)
      BY <1>0, <2>2
    <3>9. Trailed(tok'[v], market')
      BY <1>0, <3>7, <3>8
    <3> QED BY <1>0, <3>2, <3>3, <3>9 DEF CoverOK
  <2> QED BY <2>1, <2>2
<1> QED BY <1>0, <1>2, <1>3, <1>4, CoverByToken

\* A SELL of the user begins and reports, a stop loss reports, a grace period ends.
LEMMA OthersCover ==
  ASSUME IInv, CoverInv,
         \/ \E k \in Task : StopLossSellDone(k) \/ ManualFakSellDispatchDone(k)
         \/ \E t \in Token : Manual(t) \/ GraceEnds(t)
  PROVE  CoverInv'
<1>0. /\ TaskInv /\ task \in [Task -> TaskType] /\ tok \in [Token -> TokenState]
      /\ UNCHANGED <<scenario, market, trades, rest>>
  BY Parts DEF IInv, StopLossSellDone, ManualFakSellDispatchDone, Manual, GraceEnds
<1>1. \A v \in Token : ExitsKeep(v)
  <2>1. CASE \E t \in Token : GraceEnds(t)
    BY <2>1, ExitsKeepSame DEF GraceEnds
  <2>2. CASE \E t \in Token : Manual(t)
    <3>1. PICK t, q : Started("manual", "post", t, q, 0)
      BY <2>2 DEF Manual
    <3>2. "manual" \in Kinds
      BY DEF Kinds
    <3>3. PICK k \in Task : task[k].kind = "none" /\ task'[k].kind = "manual"
                            /\ \A j \in Task \ {k} : task'[j] = task[j]
      BY <1>0, <3>1, <3>2, StartedTask
    <3> QED BY <3>3, ExitsKeepOther
  <2>3. CASE \E k \in Task : StopLossSellDone(k) \/ ManualFakSellDispatchDone(k)
    <3>1. PICK k \in Task : task[k].kind # "exit" /\ task' = [task EXCEPT ![k] = Off]
      BY <2>3 DEF StopLossSellDone, ManualFakSellDispatchDone, At
    <3>2. task'[k] = Off /\ \A j \in Task \ {k} : task'[j] = task[j]
      BY <1>0, <3>1, OneTask
    <3>3. task'[k].kind # "exit"
      BY <3>2 DEF Off
    <3> QED BY <3>1, <3>2, <3>3, ExitsKeepOther
  <2> QED BY <2>1, <2>2, <2>3
<1>2. ASSUME NEW x \in TokenState
      PROVE  /\ Safe(x, x, market)
             /\ \A b : Safe(x, StopDone(x, b), market)
             /\ Safe(x, [x EXCEPT !.grace = FALSE], market)
             /\ \A n : Safe(x, [x EXCEPT !.manual = n], market)
             /\ \A n : Safe(x, [x EXCEPT !.manual = n, !.queue = <<>>], market)
  <2>1. Safe(x, x, market) /\ \A b : Safe(x, StopDone(x, b), market)
    BY DEF TokenState, StopDone, Safe, Trailed, Running
  <2>2. Safe(x, [x EXCEPT !.grace = FALSE], market)
    BY DEF TokenState, Safe, Trailed, Running
  <2>3. ASSUME NEW n PROVE Safe(x, [x EXCEPT !.manual = n], market)
    BY DEF TokenState, Safe, Trailed, Running
  <2>4. ASSUME NEW n PROVE Safe(x, [x EXCEPT !.manual = n, !.queue = <<>>], market)
    BY DEF TokenState, Safe, Trailed, Running
  <2> QED BY <2>1, <2>2, <2>3, <2>4
<1>3. \E y : \E t \in Token : tok' = [tok EXCEPT ![t] = y] /\ Safe(tok[t], y, market)
  <2>1. CASE \E t \in Token : Manual(t)
    <3>1. PICK t \in Token : Manual(t)
      BY <2>1
    <3>2. PICK n : tok' = [tok EXCEPT ![t] = [tok[t] EXCEPT !.manual = n, !.queue = <<>>]]
      BY <3>1 DEF Manual
    <3>3. tok[t] \in TokenState
      BY <1>0
    <3> QED BY <1>2, <3>2, <3>3
  <2>2. CASE \E t \in Token : GraceEnds(t)
    <3>1. PICK t \in Token : tok' = [tok EXCEPT ![t] = [tok[t] EXCEPT !.grace = FALSE]]
      BY <2>2 DEF GraceEnds
    <3> QED BY <1>0, <1>2, <3>1
  <2>3. CASE \E k \in Task : StopLossSellDone(k)
    <3>1. PICK k \in Task : StopLossSellDone(k)
      BY <2>3
    <3>2. PICK t \in Token : task[k].token = t
      BY <3>1 DEF IInv, TaskInv, StopLossSellDone
    <3>3. PICK b : tok' = [tok EXCEPT ![t] = StopDone(tok[t], b)]
      BY <3>1, <3>2 DEF StopLossSellDone
    <3> QED BY <1>0, <1>2, <3>3
  <2>4. CASE \E k \in Task : ManualFakSellDispatchDone(k)
    <3>1. PICK k \in Task : ManualFakSellDispatchDone(k)
      BY <2>4
    <3>2. PICK t \in Token : task[k].token = t
      BY <3>1 DEF IInv, TaskInv, ManualFakSellDispatchDone, At
    <3>3. PICK n : tok' = [tok EXCEPT ![t] = [tok[t] EXCEPT !.manual = n]]
      BY <3>1, <3>2 DEF ManualFakSellDispatchDone
    <3> QED BY <1>0, <1>2, <3>3
  <2> QED BY <2>1, <2>2, <2>3, <2>4
<1>4. \A v \in Token : Safe(tok[v], tok'[v], market)
  <2>1. PICK y : \E t \in Token : tok' = [tok EXCEPT ![t] = y] /\ Safe(tok[t], y, market)
    BY <1>3
  <2>3. PICK t \in Token : tok' = [tok EXCEPT ![t] = y] /\ Safe(tok[t], y, market)
    BY <2>1
  <2>2. \A v \in Token : tok'[v] = IF v = t THEN y ELSE tok[v]
    BY <1>0, <2>3
  <2> QED BY <1>0, <1>2, <2>2, <2>3
<1> QED BY <1>0, <1>1, <1>4, CoverStep

LEMMA SafeTwice ==
  ASSUME NEW m, NEW x, NEW y, NEW z, Safe(x, y, m), Safe(y, z, m)
  PROVE  Safe(x, z, m)
  BY DEF Safe

\* An exit starts: none ran, and none of its token has a trade to be booked.
LEMMA StartCover ==
  ASSUME IInv, Faultless, NEW v \in Token, CoverOK(v), UNCHANGED <<market, trades>>,
         NEW x, Safe(tok[v], x, market), Good(x, market), x.queue # <<>>,
         tok'[v] = Dispatched(x),
         NEW k \in Task, task'[k].kind = "exit", task'[k].pc = "post", task'[k].token = v,
         task[k].kind = "none", \A j \in Task \ {k} : task'[j] = task[j]
  PROVE  CoverOK(v)'
<1>1. Tasks(v, "exit") = {}
  <2> SUFFICES ASSUME NEW j \in Tasks(v, "exit") PROVE FALSE
    OBVIOUS
  <2>1. PICK b \in BOOLEAN : Running(tok[v], b)
    BY DEF CoverOK, BookedExit
  <2>2. Running(x, b)
    BY <2>1 DEF CoverOK, Safe
  <2> QED BY <2>2 DEF Running
<1>2. Tasks(v, "exit")' = {k}
  BY <1>1 DEF Tasks, Task
<1>3. Trailed(x, market)
  BY DEF CoverOK, Safe
<1>4. Trailed(Dispatched(x), market) /\ Running(Dispatched(x), FALSE)
  BY <1>3, SafeDispatched
<1>5. BookedExit(k)' = FALSE
  BY DEF BookedExit
<1>6. Running(tok'[v], BookedExit(k)')
  BY <1>4, <1>5 DEF Running
<1>7. \A n \in DOMAIN trades : trades[n].token = v /\ trades[n].by = "exit" => trades[n].applied
  BY <1>1 DEF CoverOK
<1>8. \A j \in Tasks(v, "exit")' : /\ Running(tok'[v], BookedExit(j)')
                                   /\ task'[j].pc = "ack" => trades'[task'[j].trade].token = v
  BY <1>2, <1>6
<1>9. Trailed(tok'[v], market')
  BY <1>4
<1> QED BY <1>2, <1>7, <1>8, <1>9 DEF CoverOK, Running

LEMMA BookCover ==
  ASSUME IInv, CoverInv, NEW t \in Token, Book(t)
  PROVE  CoverInv'
<1>0. /\ TypeOK /\ TaskInv /\ task \in [Task -> TaskType]
      /\ UNCHANGED <<scenario, market, trades, rest>>
  BY Parts DEF IInv, Book
<1>1. PICK s \in [Token -> TokenState] :
        /\ KeepsAll(s)
        /\ \A v \in Token : \/ s[v] = tok[v]
                            \/ tok[v].arm > 0 /\ s[v] = Promoted(tok[v])
                            \/ s[v] \in Tripped(v, tok[v])
        /\ (tok' = s /\ UNCHANGED task) \/ StopLoss(s) \/ Dispatch(s)
  BY BookRecords
<1>2. \A v \in Token : Good(s[v], market) /\ s[v] \in TokenState
  BY <1>1 DEF KeepsAll, Keeps, Good
<1>3. Faultless => \A v \in Token : Safe(tok[v], s[v], market)
  <2> SUFFICES ASSUME Faultless, NEW v \in Token PROVE Safe(tok[v], s[v], market)
    OBVIOUS
  <2>1. tok[v] \in TokenState
    BY DEF IInv, TokInv, Good
  <2>2. CASE s[v] = tok[v]
    BY <2>2 DEF Safe
  <2>3. CASE tok[v].arm > 0 /\ s[v] = Promoted(tok[v])
    BY <2>1, <2>3, SafePromoted
  <2>4. CASE s[v] \in Tripped(v, tok[v])
    BY <2>1, <2>4, FaultlessHas, SafeTripped
  <2> QED BY <1>1, <2>2, <2>3, <2>4
<1>4. CASE tok' = s /\ UNCHANGED task
  BY <1>0, <1>3, <1>4, ExitsKeepSame, CoverStep
<1>5. CASE StopLoss(s)
  <2>1. PICK u \in Token, k \in Task :
          /\ Same(s[u], tok'[u]) /\ \A v \in Token \ {u} : tok'[v] = s[v]
          /\ task[k].kind = "none" /\ task'[k].kind = "stop"
          /\ \A j \in Task \ {k} : task'[j] = task[j]
    BY <1>5, StopLossFields
  <2>2. \A v \in Token : ExitsKeep(v)
    BY <2>1, ExitsKeepOther
  <2>3. Safe(s[u], tok'[u], market)
    BY <2>1, SafeSame
  <2>4. Faultless => \A v \in Token : Safe(tok[v], tok'[v], market)
    BY <1>3, <2>1, <2>3, SafeTwice
  <2> QED BY <1>0, <2>2, <2>4, CoverStep
<1>6. CASE Dispatch(s)
  <2>1. PICK u \in Token :
          /\ s[u].queue # <<>> /\ \A v \in Token \ {u} : tok'[v] = s[v]
          /\ \/ /\ tok'[u] = Dispatched(s[u])
                /\ \E k \in Task : /\ task[k].kind = "none"
                                   /\ task'[k].kind = "exit" /\ task'[k].pc = "post"
                                   /\ task'[k].token = u
                                   /\ \A j \in Task \ {k} : task'[j] = task[j]
             \/ "worthless" \in scenario.faults
    BY <1>1, <1>6, DispatchFields
  <2>2. CASE "worthless" \in scenario.faults
    <3>1. ~Faultless
      BY <2>2, FaultlessHas
    <3> QED BY <1>0, <3>1 DEF CoverInv, Faultless, Only
  <2>3. CASE "worthless" \notin scenario.faults
    <3>1. PICK k \in Task : /\ task[k].kind = "none"
                            /\ task'[k].kind = "exit" /\ task'[k].pc = "post"
                            /\ task'[k].token = u
                            /\ \A j \in Task \ {k} : task'[j] = task[j]
      BY <2>1, <2>3
    <3>2. TradesStay /\ TradesKeep /\ DOMAIN trades' \ DOMAIN trades = {}
      BY <1>0, StillThere DEF TradesKeep
    <3>3. ASSUME Faultless, NEW v \in Token, CoverOK(v) PROVE CoverOK(v)'
      <4>1. CASE v = u
        <5>1. tok'[v] = Dispatched(s[v]) /\ Safe(tok[v], s[v], market) /\ s[v].queue # <<>>
          BY <1>3, <2>1, <2>3, <3>3, <4>1
        <5> QED BY <1>0, <1>2, <3>1, <3>3, <4>1, <5>1, StartCover
      <4>2. CASE v # u
        <5>1. ExitsKeep(v)
          BY <3>1, <4>2, ExitsKeepOther
        <5>2. tok'[v] = s[v] /\ Safe(tok[v], s[v], market)
          BY <1>3, <2>1, <3>3, <4>2
        <5>3. Trailed(tok'[v], market') /\ \A b \in BOOLEAN : Running(tok[v], b) => Running(tok'[v], b)
          BY <1>0, <3>3, <5>2 DEF Safe, CoverOK
        <5>4. \A k1 \in Tasks(v, "exit") : Running(tok[v], BookedExit(k1)) => Running(tok'[v], BookedExit(k1))
          BY <5>3 DEF BookedExit
        <5> QED BY <1>0, <3>2, <3>3, <5>1, <5>3, <5>4, CoverKept
      <4> QED BY <4>1, <4>2
    <3>4. Faultless => \A v \in Token : rest'[v].by # "exit"
      BY <1>0 DEF CoverInv
    <3> QED BY <1>0, <3>2, <3>3, <3>4, CoverByToken
  <2> QED BY <2>2, <2>3
<1> QED BY <1>1, <1>4, <1>5, <1>6

\* Leaving a market and picking one, with no order out.
LEMMA MarketCover ==
  ASSUME IInv, CoverInv, StartTrading \/ MarketRoll \/ PositionsLoaded
  PROVE  CoverInv'
<1>0. /\ tok \in [Token -> TokenState] /\ trades \in Seq(TradeType) /\ TypeOK
      /\ held \in [Token -> Nat] /\ UNCHANGED <<scenario, task, rest>> /\ MayReload
  BY Parts DEF IInv, StartTrading, MarketRoll, PositionsLoaded
<1>1. /\ TradesStay /\ DOMAIN trades' = DOMAIN trades
      /\ \A n \in DOMAIN trades : trades[n].applied => trades'[n].applied
  <2>1. CASE UNCHANGED trades
    BY <1>0, <2>1, StillThere
  <2>2. CASE PositionsLoaded
    <3>1. \A n \in DOMAIN trades : trades[n] \in TradeType
      BY <1>0, TradeFacts
    <3>2. trades' = [n \in DOMAIN trades |-> [trades[n] EXCEPT !.applied = TRUE]]
      BY <2>2 DEF PositionsLoaded
    <3> QED BY <3>1, <3>2 DEF TradesStay, TradeType
  <2> QED BY <2>1, <2>2 DEF StartTrading, MarketRoll
<1>2. ASSUME Faultless, NEW v \in Token, CoverOK(v), Trailed(tok'[v], market')
      PROVE  CoverOK(v)'
  <2>1. Tasks(v, "exit") = {} /\ Tasks(v, "exit")' = {}
    BY <1>0, <1>2, FaultlessHas DEF MayReload, Idle, Tasks, Task
  <2>2. \A n \in DOMAIN trades : trades[n].token = v /\ trades[n].by = "exit" => trades[n].applied
    BY <1>2, <2>1 DEF CoverOK
  <2>3. \A n \in DOMAIN trades' :
          trades'[n].token = v /\ trades'[n].by = "exit" => trades'[n].applied
    BY <1>1, <2>2 DEF TradesStay
  <2> QED BY <1>2, <2>1, <2>3 DEF CoverOK
<1>3. ASSUME Faultless, NEW v \in Token, Trailed(tok[v], market)
      PROVE  Trailed(tok'[v], market')
  <2> DEFINE x == tok[v]
  <2>1. x \in TokenState /\ x.pos \in Nat /\ x.plan \in Nat /\ held[v] \in Nat
    BY <1>0, Fields
  <2>2. CASE StartTrading
    <3>1. tok'[v] = [x EXCEPT !.pos = 0] /\ market' = FALSE
      BY <2>2 DEF StartTrading
    <3>2. tok'[v].pos = 0 /\ tok'[v].queue = x.queue /\ tok'[v].plan = x.plan
      <4> HIDE DEF x
      <4> QED BY <2>1, <3>1 DEF TokenState
    <3> QED BY <1>3, <3>1, <3>2 DEF Trailed
  <2>3. CASE MarketRoll
    <3>1. tok'[v] = Fresh
      BY <2>3 DEF MarketRoll
    <3> QED BY <3>1 DEF Fresh, Trailed
  <2>4. CASE PositionsLoaded
    <3> DEFINE h == Higher(x.pos, held[v])
               z == [x EXCEPT !.pos = h]
               r == Rehydrated(z)
    <3>1. tok'[v] = r \/ (r.arm > 0 /\ tok'[v] = Promoted(r))
      BY <2>4 DEF PositionsLoaded
    <3>2. h \in Nat
      BY <2>1, NatOps
    <3>3. market /\ market' = market /\ (x.queue # <<>> => x.plan > 0)
      BY <1>3, <2>4 DEF PositionsLoaded, Trailed
    <3> HIDE DEF h, x
    <3>4. z \in TokenState /\ (z.queue # <<>> => z.plan > 0)
      BY <2>1, <3>2, <3>3 DEF TokenState
    <3> HIDE DEF z
    <3>5. Trailed(r, market) /\ (r.arm > 0 => Trailed(Promoted(r), market))
      BY <3>3, <3>4, SafeRehydrated
    <3> HIDE DEF r
    <3> QED BY <3>1, <3>3, <3>5
  <2> QED BY <2>2, <2>3, <2>4
<1>4. \A v \in Token : Faultless /\ CoverOK(v) => CoverOK(v)'
  BY <1>2, <1>3 DEF CoverOK
<1>5. Faultless => \A v \in Token : rest'[v].by # "exit"
  BY <1>0 DEF CoverInv
<1> QED BY <1>0, <1>1, <1>4, <1>5, CoverByToken

LEMMA CoverInit == Init => CoverInv
<1> SUFFICES ASSUME Init PROVE CoverInv
  OBVIOUS
<1>1. \A k \in Task : task[k].kind = "none"
  BY DEF Init, Off
<1>2. \A v \in Token : Tasks(v, "exit") = {} /\ DOMAIN trades = {}
  BY <1>1 DEF Init, Tasks
<1>3. \A v \in Token : Trailed(tok[v], market)
  BY DEF Init, Fresh, Trailed
<1>4. \A v \in Token : rest[v].by # "exit"
  BY DEF Init, NoOrder
<1> QED BY <1>2, <1>3, <1>4 DEF CoverInv, CoverOK

LEMMA CoverNext == IInv /\ CoverInv /\ [Next]_vars => CoverInv'
<1> SUFFICES ASSUME IInv, CoverInv, [Next]_vars PROVE CoverInv'
  OBVIOUS
<1>1. CASE UNCHANGED vars
  <2>1. UNCHANGED <<scenario, market, trades, rest, task, tok>> /\ TaskInv
    BY <1>1 DEF vars, IInv
  <2>2. \A v \in Token : Safe(tok[v], tok'[v], market) /\ ExitsKeep(v)
    BY <2>1, ExitsKeepSame DEF Safe
  <2> QED BY <2>1, <2>2, CoverStep
<1>2. CASE Next
  <2>1. CASE \E t \in Token, atOnce \in BOOLEAN : BuyFilled(t, atOnce)
    BY <2>1, ExchangeCover
  <2>2. ASSUME NEW t \in Token,
               \/ LimitSell(t) \/ RestFilled(t) \/ RestCancelled(t)
               \/ Book(t) \/ Manual(t) \/ GraceEnds(t)
        PROVE  CoverInv'
    BY <2>2, ExchangeCover, BookCover, OthersCover
  <2>3. ASSUME NEW k \in Task,
               \/ ExitRefused(k) \/ ExitFilled(k) \/ ExitRests(k)
               \/ StopPosted(k) \/ StopRefused(k) \/ ManualPosted(k)
               \/ OrderAck(k) \/ RequestTrailingArm(k) \/ TrailingExitDispatchDone(k)
               \/ StopLossSellDone(k) \/ ManualFakSellDispatchDone(k)
        PROVE  CoverInv'
    BY <2>3, ExitsCover, SellsCover, FillsCover, ArmCover, ExitDoneCover, OthersCover
  <2>4. CASE \E n \in DOMAIN trades : UserChannelFill(n)
    BY <2>4, FillsCover
  <2>5. CASE StartTrading \/ MarketRoll \/ PositionsLoaded
    BY <2>5, MarketCover
  <2> QED BY <1>2, <2>1, <2>2, <2>3, <2>4, <2>5 DEF Next
<1> QED BY <1>1, <1>2

\* While nothing but exits has sold, the session of a token covers its position, or the
\* pending arm does where there is none (app.rs refresh_buy_trailing_from_position,
\* rearm_trailing_after_partial_sell, TrailingExitDispatchDone).
THEOREM ProtectedHolds == Spec => []Protected
<1>1. IInv /\ CoverInv => Protected
  <2> SUFFICES ASSUME IInv, CoverInv, Faultless, market, NEW t \in Token, OnlyExits(t)
               PROVE  tok[t].arm + tok[t].plan >= tok[t].pos
    BY DEF Protected, Faultless, OnlyExits
  <2>1. Trailed(tok[t], market)
    BY DEF CoverInv, CoverOK
  <2>2. tok[t].arm \in Nat /\ tok[t].plan \in Nat /\ tok[t].pos \in Nat
    <3>1. tok[t] \in TokenState
      BY DEF IInv, TokInv, Good
    <3> QED BY <3>1, Fields
  <2> QED BY <2>1, <2>2 DEF Trailed
<1> QED BY InitIInv, IInvNext, CoverInit, CoverNext, <1>1, PTL DEF Spec

-------------------------------------------------------------------------------
(* ExitStartsAlone: what blocks a trail, and what an exit waits for, outlasts the
   orders it stands for. *)

Apart == Only(FaultNames \ {"sells_overlap", "reload", "buy_in_exit"})

Sells(v) == {k \in Task : task[k].token = v /\ task[k].kind # "buy"}
Posting(v) == {k \in Tasks(v, "stop") : task[k].pc = "post"}

\* The record of a token whose exit runs: nothing can trip, nothing is queued.
Backed(x) == x.queue = <<>> /\ (x.in_flight \/ (x.plan = 0 /\ x.arm = 0))

\* A task at rest is nobody's, and what the task of a SELL is told of is its own trade.
TasksOwn ==
  \A k \in Task :
    /\ task[k].kind = "none" => task[k].token = NoToken
    /\ task[k].pc = "ack" /\ task[k].kind # "buy" =>
         trades[task[k].trade].token = task[k].token

\* Nothing of a token is left to be told of but its BUYs.
SellsTold(v) ==
  \A n \in DOMAIN trades : trades[n].token = v /\ trades[n].by # "buy" => trades[n].told

AloneOK(v) ==
  /\ \A j, k \in Tasks(v, "manual") : j = k
  /\ Tasks(v, "manual") # {} => tok[v].manual > 0
  /\ \A j, k \in Tasks(v, "exit") : j = k
  /\ Tasks(v, "exit") # {} => Backed(tok[v])
  /\ \A k \in Posting(v) : /\ tok[v].stop /\ tok[v].queue = <<>> /\ rest[v] = NoOrder
                           /\ \A j \in Sells(v) : j = k
                           /\ SellsTold(v)
  /\ market /\ tok[v].queue # <<>> => rest[v] = NoOrder

AloneInv == TasksOwn /\ (Apart => \A v \in Token : AloneOK(v))

\* No exit starts.
NoStart == \A k \in Task : task[k].kind = "none" => task'[k].kind # "exit"

\* The SELLs of a token go on unchanged.
SellsKeep(v) == \A j \in Task : j \in Sells(v) \/ j \in Sells(v)' => task'[j] = task[j]

LEMMA ApartHas ==
  ASSUME Apart
  PROVE  /\ "sells_overlap" \notin scenario.faults /\ "reload" \notin scenario.faults
         /\ "buy_in_exit" \notin scenario.faults
  BY DEF Apart, Only

LEMMA AloneKept ==
  ASSUME NEW v \in Token, AloneOK(v), SellsKeep(v),
         Tasks(v, "manual") # {} => tok'[v].manual > 0,
         Tasks(v, "exit") # {} => Backed(tok'[v]),
         Posting(v) # {} => /\ tok'[v].stop /\ tok'[v].queue = <<>> /\ rest'[v] = NoOrder
                            /\ SellsTold(v)',
         market' /\ tok'[v].queue # <<>> => rest'[v] = NoOrder
  PROVE  AloneOK(v)'
<1>1. ASSUME NEW kind \in {"exit", "stop", "manual"}
      PROVE  Tasks(v, kind)' = Tasks(v, kind)
  BY DEF Tasks, Task, SellsKeep, Sells
<1>2. Tasks(v, "exit")' = Tasks(v, "exit") /\ Tasks(v, "manual")' = Tasks(v, "manual")
      /\ Tasks(v, "stop")' = Tasks(v, "stop")
  BY <1>1
<1>3. Sells(v)' = Sells(v)
  BY DEF Sells, Task, SellsKeep
<1>4. \A k \in Tasks(v, "stop") : task'[k] = task[k]
  BY DEF SellsKeep, Sells, Tasks
<1>5. Posting(v)' = Posting(v)
  BY <1>2, <1>4 DEF Posting
<1> QED BY <1>2, <1>3, <1>5 DEF AloneOK, Backed

\* The trades of a token are the same but for BUYs.
LEMMA ToldKept ==
  ASSUME NEW v, SellsTold(v), TradesKeep,
         \A n \in DOMAIN trades' \ DOMAIN trades :
           trades'[n].token # v \/ trades'[n].by = "buy"
  PROVE  SellsTold(v)'
  BY DEF SellsTold, TradesKeep

LEMMA AloneAside ==
  ASSUME NEW v \in Token, AloneOK(v), SellsKeep(v), TradesKeep,
         \A n \in DOMAIN trades' \ DOMAIN trades :
           trades'[n].token # v \/ trades'[n].by = "buy",
         tok'[v] = tok[v], rest'[v] = rest[v], market' = market
  PROVE  AloneOK(v)'
<1>1. Posting(v) # {} => SellsTold(v)'
  BY ToldKept DEF AloneOK
<1> QED BY <1>1, AloneKept DEF AloneOK, Backed

LEMMA OwnKept ==
  ASSUME TaskInv, TasksOwn, TradesStay, NEW k \in Task, \A j \in Task \ {k} : task'[j] = task[j],
         task'[k].kind = "none" => task'[k].token = NoToken,
         task'[k].pc = "ack" /\ task'[k].kind # "buy" =>
           trades'[task'[k].trade].token = task'[k].token
  PROVE  TasksOwn'
<1> SUFFICES ASSUME NEW j \in Task
             PROVE  /\ task'[j].kind = "none" => task'[j].token = NoToken
                    /\ task'[j].pc = "ack" /\ task'[j].kind # "buy" =>
                         trades'[task'[j].trade].token = task'[j].token
  BY DEF TasksOwn, Task
<1>1. CASE j # k
  <2>1. task'[j] = task[j] /\ (task[j].pc = "ack" => task[j].trade \in DOMAIN trades)
    BY <1>1 DEF TaskInv
  <2> QED BY <2>1 DEF TasksOwn, TradesStay
<1> QED BY <1>1

\* The SELLs of the other tokens do not notice.
LEMMA SellsAside ==
  ASSUME NEW k \in Task, \A j \in Task \ {k} : task'[j] = task[j], NEW v,
         k \notin Sells(v), task'[k].kind = "buy" \/ task'[k].token # v
  PROVE  SellsKeep(v)
  BY DEF SellsKeep, Sells, Task

LEMMA SameTasks ==
  ASSUME UNCHANGED task, TaskInv, TasksOwn, TradesStay
  PROVE  TasksOwn' /\ NoStart /\ \A v : SellsKeep(v)
<1>1. NoStart /\ \A v : SellsKeep(v)
  BY DEF NoStart, SellsKeep
<1>2. ASSUME NEW j \in Task, task[j].pc = "ack"
      PROVE  trades'[task[j].trade].token = trades[task[j].trade].token
  BY <1>2 DEF TaskInv, TradesStay
<1> QED BY <1>1, <1>2 DEF TasksOwn, Task

LEMMA ExchangeAlone ==
  ASSUME IInv, AloneInv, NEW t \in Token,
         \/ \E atOnce \in BOOLEAN : BuyFilled(t, atOnce)
         \/ LimitSell(t) \/ RestFilled(t) \/ RestCancelled(t)
  PROVE  AloneInv' /\ NoStart
<1>0. /\ TypeOK /\ TaskInv /\ task \in [Task -> TaskType] /\ held \in [Token -> Nat]
      /\ rest \in [Token -> RestType] /\ UNCHANGED <<scenario, market, tok>> /\ TasksOwn
  BY Parts DEF IInv, BuyFilled, LimitSell, RestFilled, RestCancelled, AloneInv
<1>1. CASE \E atOnce \in BOOLEAN : BuyFilled(t, atOnce)
  <2>1. PICK atOnce \in BOOLEAN : BuyFilled(t, atOnce)
    BY <1>1
  <2>2. Execute(t, "buy", Lot) /\ Lot \in Nat /\ UNCHANGED rest
    BY <2>1, TrailingExitAssumption DEF BuyFilled
  <2>3. /\ TradesStay /\ TradesKeep
        /\ \A n \in DOMAIN trades' \ DOMAIN trades : trades'[n].by = "buy"
    BY <1>0, <2>2, ExecuteAdds DEF TradesKeep
  <2>4. TasksOwn' /\ NoStart /\ \A v \in Token : SellsKeep(v)
    <3>1. CASE UNCHANGED task
      BY <1>0, <2>3, <3>1, SameTasks
    <3>2. CASE Started("buy", "ack", t, Lot, Len(trades'))
      <4>1. "buy" \in Kinds
        BY DEF Kinds
      <4>2. PICK k \in Task : task[k].kind = "none" /\ task'[k].kind = "buy"
                              /\ \A j \in Task \ {k} : task'[j] = task[j]
        BY <1>0, <3>2, <4>1, StartedTask
      <4>3. \A v \in Token : k \notin Sells(v)
        BY <1>0, <4>2, TrailingExitAssumption DEF Sells, TasksOwn
      <4> QED BY <1>0, <2>3, <4>2, <4>3, OwnKept, SellsAside DEF NoStart
    <3> QED BY <2>1, <3>1, <3>2 DEF BuyFilled
  <2>5. \A v \in Token : AloneOK(v) => AloneOK(v)'
    BY <1>0, <2>2, <2>3, <2>4, AloneAside
  <2> QED BY <1>0, <2>4, <2>5 DEF AloneInv, Apart, Only
<1>2. CASE LimitSell(t) \/ RestCancelled(t)
  <2>1. UNCHANGED <<trades, task>> /\ TradesStay /\ TradesKeep
    BY <1>2, StillThere DEF LimitSell, RestCancelled, TradesKeep
  <2>2. TasksOwn' /\ NoStart /\ \A v : SellsKeep(v)
    BY <1>0, <2>1, SameTasks
  <2>3. \A v \in Token \ {t} : rest'[v] = rest[v]
    <3>1. PICK o : rest' = [rest EXCEPT ![t] = o]
      BY <1>2 DEF LimitSell, RestCancelled
    <3> QED BY <1>0, <3>1
  <2>4. ASSUME NEW v \in Token, Apart, AloneOK(v)
        PROVE  AloneOK(v)'
    <3>1. CASE v # t
      BY <1>0, <2>1, <2>2, <2>3, <2>4, <3>1, AloneAside
    <3>2. CASE v = t /\ LimitSell(t)
      <4>1. ~SellUnderWay(t) /\ tok[t].queue = <<>>
        BY <2>4, <3>2, ApartHas DEF LimitSell
      <4>2. Tasks(t, "manual") = {} /\ Tasks(t, "exit") = {} /\ Posting(t) = {}
        BY <4>1 DEF SellUnderWay, Tasks, Posting
      <4> QED BY <1>0, <2>2, <2>4, <3>2, <4>1, <4>2, AloneKept
    <3>3. CASE v = t /\ RestCancelled(t)
      <4>1. rest'[t] = NoOrder
        BY <1>0, <3>3 DEF RestCancelled
      <4>2. Posting(t) # {} => SellsTold(t)'
        BY <2>1, <2>4, <3>3 DEF AloneOK, SellsTold
      <4> QED BY <1>0, <2>2, <2>4, <3>3, <4>1, <4>2, AloneKept DEF AloneOK, Backed
    <3> QED BY <1>2, <3>1, <3>2, <3>3
  <2> QED BY <1>0, <2>2, <2>4 DEF AloneInv, Apart, Only
<1>3. CASE RestFilled(t)
  <2>1. PICK q \in 1..Lower(rest[t].lots, held[t]) :
          Execute(t, rest[t].by, q) /\ rest' = [rest EXCEPT ![t] = Filled(rest[t], q)]
    BY <1>3 DEF RestFilled
  <2>2. rest[t] \in RestType /\ rest[t].lots \in Nat /\ held[t] \in Nat /\ UNCHANGED task
    BY <1>0, <1>3 DEF RestType, NoOrder, RestFilled
  <2>3. q \in Nat /\ rest[t].lots > 0
    <3> DEFINE l == Lower(rest[t].lots, held[t])
    <3>1. q \in 1..l /\ l \in Nat /\ l <= rest[t].lots
      BY <2>1, <2>2, NatOps
    <3> HIDE DEF l
    <3> QED BY <2>2, <3>1
  <2>4. rest[t].by \in {"exit", "stop", "user"} /\ rest[t] # NoOrder
    BY <2>2, <2>3 DEF RestType, NoOrder
  <2>5. /\ TradesStay /\ TradesKeep
        /\ \A n \in DOMAIN trades' \ DOMAIN trades : trades'[n].token = t
    BY <1>0, <2>1, <2>3, <2>4, ExecuteAdds DEF TradesKeep
  <2>6. TasksOwn' /\ NoStart /\ \A v : SellsKeep(v)
    BY <1>0, <2>2, <2>5, SameTasks
  <2>7. \A v \in Token \ {t} : rest'[v] = rest[v]
    BY <1>0, <2>1
  <2>8. ASSUME NEW v \in Token, Apart, AloneOK(v)
        PROVE  AloneOK(v)'
    <3>1. CASE v # t
      BY <1>0, <2>5, <2>6, <2>7, <2>8, <3>1, AloneAside
    <3>2. CASE v = t
      <4>1. Posting(t) = {} /\ (market => tok[t].queue = <<>>)
        BY <2>4, <2>8, <3>2 DEF AloneOK
      <4> QED BY <1>0, <2>6, <2>8, <3>2, <4>1, AloneKept DEF AloneOK, Backed
    <3> QED BY <3>1, <3>2
  <2> QED BY <1>0, <2>6, <2>8 DEF AloneInv, Apart, Only
<1> QED BY <1>1, <1>2, <1>3

\* A SELL of the token goes on: no other stop loss is about to be posted.
LEMMA SellMoves ==
  ASSUME NEW v \in Token, AloneOK(v), NEW k \in Task, \A j \in Task \ {k} : task'[j] = task[j],
         task[k].token = v, task[k].kind \in {"exit", "stop", "manual"},
         task'[k].kind = task[k].kind, task'[k].token = v,
         task[k].kind = "stop" => task'[k].pc # "post",
         Tasks(v, "manual") # {} => tok'[v].manual > 0,
         Tasks(v, "exit") # {} => Backed(tok'[v]),
         market' /\ tok'[v].queue # <<>> => rest'[v] = NoOrder
  PROVE  AloneOK(v)'
<1>1. ASSUME NEW kind
      PROVE  Tasks(v, kind)' = Tasks(v, kind)
  BY DEF Tasks, Task
<1>2. Tasks(v, "exit")' = Tasks(v, "exit") /\ Tasks(v, "manual")' = Tasks(v, "manual")
      /\ Tasks(v, "stop")' = Tasks(v, "stop")
  BY <1>1
<1>3. k \in Sells(v)
  BY DEF Sells
<1>4. Posting(v) \subseteq {k}
  BY <1>3 DEF AloneOK
<1>5. Posting(v)' = {}
  <2> SUFFICES ASSUME NEW j \in Tasks(v, "stop")', task'[j].pc = "post" PROVE FALSE
    BY DEF Posting
  <2>1. j # k /\ j \in Task
    BY <1>2 DEF Tasks
  <2>2. j \in Posting(v)
    BY <1>2, <2>1 DEF Posting
  <2> QED BY <1>4, <2>1, <2>2
<1> QED BY <1>2, <1>5 DEF AloneOK, Backed

LEMMA OrdersAlone ==
  ASSUME IInv, AloneInv, NEW k \in Task,
         \/ ExitRefused(k) \/ ExitFilled(k) \/ ExitRests(k)
         \/ StopPosted(k) \/ StopRefused(k) \/ ManualPosted(k)
  PROVE  AloneInv' /\ NoStart
<1>a. PICK t \in Token : task[k].token = t
  BY DEF IInv, TaskInv, ExitRefused, ExitFilled, ExitRests, StopPosted, StopRefused,
         ManualPosted, At
<1>0. /\ TypeOK /\ TaskInv /\ task \in [Task -> TaskType] /\ task[k].pc = "post"
      /\ task[k].kind \in {"exit", "stop", "manual"} /\ rest \in [Token -> RestType]
      /\ UNCHANGED <<scenario, market, tok>> /\ TasksOwn
  BY Parts DEF IInv, AloneInv, ExitRefused, ExitFilled, ExitRests, StopPosted, StopRefused,
               ManualPosted, At
<1> DEFINE Fills(by) == \E q, n : /\ q \in 1..Lower(task[k].lots, held[task[k].token])
                                 /\ Execute(task[k].token, by, q) /\ n = Len(trades')
                                 /\ \/ task' = [task EXCEPT ![k].pc = "ack", ![k].lots = q,
                                                            ![k].trade = n]
                                    \/ task[k].kind = "exit" /\ Repeat(k)
           Moves == UNCHANGED trades /\ \/ \E pc \in {"done", "fail"} : Goto(k, pc)
                                        \/ task[k].kind = "exit" /\ Repeat(k)
<1>1. /\ Fills("exit") \/ Fills("stop") \/ Fills("user") \/ Moves
      /\ \E o : rest' = [rest EXCEPT ![t] = o]
      /\ task[k].kind = "manual" => UNCHANGED rest
  <2>0. \E o : rest = [rest EXCEPT ![t] = o]
    <3>1. rest = [rest EXCEPT ![t] = rest[t]]
      BY <1>0
    <3> QED BY <3>1
  <2>1. CASE ExitRefused(k) \/ ExitRests(k)
    <3>1. Moves
      BY <2>1 DEF ExitRefused, ExitRests, At
    <3>2. task[k].kind = "exit" /\ \E o : rest' = [rest EXCEPT ![t] = o]
      BY <1>a, <2>0, <2>1 DEF ExitRefused, ExitRests, At
    <3> QED BY <3>1, <3>2
  <2>2. CASE ExitFilled(k)
    <3>1. Fills("exit")
      BY <2>2 DEF ExitFilled, At
    <3>2. task[k].kind = "exit" /\ \E o : rest' = [rest EXCEPT ![t] = o]
      BY <2>0, <2>2 DEF ExitFilled, At
    <3> QED BY <3>1, <3>2
  <2>3. CASE StopPosted(k)
    <3>1. Fills("stop") \/ Moves
      BY <2>3 DEF StopPosted
    <3>2. task[k].kind = "stop" /\ \E o : rest' = [rest EXCEPT ![t] = o]
      BY <1>a, <2>3 DEF StopPosted, At
    <3> QED BY <3>1, <3>2
  <2>4. CASE StopRefused(k)
    <3>1. Moves
      BY <2>4 DEF StopRefused
    <3>2. task[k].kind = "stop" /\ \E o : rest' = [rest EXCEPT ![t] = o]
      BY <1>a, <2>0, <2>4 DEF StopRefused, At
    <3> QED BY <3>1, <3>2
  <2>5. CASE ManualPosted(k)
    <3>1. Fills("user") \/ Moves
      BY <2>5 DEF ManualPosted
    <3>2. UNCHANGED rest /\ \E o : rest' = [rest EXCEPT ![t] = o]
      BY <2>0, <2>5 DEF ManualPosted
    <3> QED BY <3>1, <3>2
  <2> QED BY <2>1, <2>2, <2>3, <2>4, <2>5
<1> DEFINE Effect == /\ TradesStay /\ TradesKeep
                     /\ \A n \in DOMAIN trades' \ DOMAIN trades : trades'[n].token = t
                     /\ task'[k].kind = task[k].kind /\ task'[k].token = t
                     /\ task[k].kind = "stop" => task'[k].pc # "post"
                     /\ task'[k].pc = "ack" => trades'[task'[k].trade].token = t
                     /\ \A j \in Task \ {k} : task'[j] = task[j]
<1>2. Effect
  <2>1. CASE Moves
    <3>1. TradesStay /\ TradesKeep /\ DOMAIN trades' \ DOMAIN trades = {}
      BY <2>1, StillThere DEF TradesKeep
    <3>2. /\ task'[k].kind = task[k].kind /\ task'[k].token = t
          /\ task'[k].pc \in {"post", "done", "fail"}
          /\ task[k].kind = "stop" => task'[k].pc # "post"
          /\ \A j \in Task \ {k} : task'[j] = task[j]
      <4>1. CASE \E pc \in {"done", "fail"} : Goto(k, pc)
        <5>1. PICK pc \in {"done", "fail"} : Goto(k, pc)
          BY <4>1
        <5> QED BY <1>a, <1>0, <5>1, MovedTask
      <4>2. CASE task[k].kind = "exit" /\ Repeat(k)
        BY <1>a, <1>0, <4>2, MovedTask
      <4> QED BY <2>1, <4>1, <4>2
    <3> QED BY <3>1, <3>2
  <2>2. ASSUME NEW by \in {"exit", "stop", "user"}, Fills(by)
        PROVE  Effect
    <3>1. PICK q, n : /\ q \in 1..Lower(task[k].lots, held[task[k].token])
                      /\ Execute(task[k].token, by, q) /\ n = Len(trades')
                      /\ \/ task' = [task EXCEPT ![k].pc = "ack", ![k].lots = q, ![k].trade = n]
                         \/ task[k].kind = "exit" /\ Repeat(k)
      BY <2>2
    <3>2. /\ TradesStay /\ TradesKeep /\ trades'[n].token = t
          /\ DOMAIN trades' = DOMAIN trades \cup {n}
      BY <1>a, <1>0, <3>1, PostedFill DEF TradesKeep
    <3>3. /\ task'[k].kind = task[k].kind /\ task'[k].token = t
          /\ task[k].kind = "stop" => task'[k].pc # "post"
          /\ task'[k].pc = "ack" => task'[k].trade = n
          /\ \A j \in Task \ {k} : task'[j] = task[j]
      <4>1. CASE task' = [task EXCEPT ![k].pc = "ack", ![k].lots = q, ![k].trade = n]
        <5>1. task[k] \in TaskType
          BY <1>0
        <5>2. PICK r : /\ task' = [task EXCEPT ![k] = r]
                       /\ r = [task[k] EXCEPT !.pc = "ack", !.lots = q, !.trade = n]
          BY <4>1
        <5>3. r.kind = task[k].kind /\ r.token = task[k].token /\ r.pc = "ack" /\ r.trade = n
          BY <5>1, <5>2 DEF TaskType
        <5> QED BY <1>0, <1>a, <5>2, <5>3, OneTask
      <4>2. CASE task[k].kind = "exit" /\ Repeat(k)
        <5>1. /\ task'[k].kind = task[k].kind /\ task'[k].token = t
              /\ task'[k].pc \in {"post", "fail"}
              /\ \A j \in Task \ {k} : task'[j] = task[j]
          BY <1>a, <1>0, <4>2, MovedTask
        <5> QED BY <4>2, <5>1
      <4> QED BY <3>1, <4>1, <4>2
    <3> HIDE DEF Fills
    <3> QED BY <3>2, <3>3
  <2> HIDE DEF Effect, Fills, Moves
  <2> QED BY <1>1, <2>1, <2>2
<1> HIDE DEF Fills, Moves
<1>3. TasksOwn' /\ NoStart
  <2>1. task'[k].kind # "none"
    BY <1>0, <1>2
  <2>2. TasksOwn'
    BY <1>0, <1>2, <2>1, OwnKept
  <2> QED BY <1>0, <1>2, <2>2 DEF NoStart
<1>4. \A v \in Token \ {t} : rest'[v] = rest[v]
  BY <1>0, <1>1
<1>5. ASSUME NEW v \in Token, AloneOK(v)
      PROVE  AloneOK(v)'
  <2>1. CASE v # t
    <3>1. k \notin Sells(v)
      BY <1>a, <2>1 DEF Sells
    <3>2. SellsKeep(v)
      BY <1>2, <2>1, <3>1, SellsAside
    <3>3. rest'[v] = rest[v] /\ tok'[v] = tok[v] /\ market' = market
      BY <1>0, <1>4, <2>1
    <3>4. TradesKeep /\ \A n \in DOMAIN trades' \ DOMAIN trades : trades'[n].token # v
      BY <1>2, <2>1
    <3> QED BY <1>5, <3>2, <3>3, <3>4, AloneAside
  <2>2. CASE v = t
    <3>1. task[k].kind # "manual" => tok[v].queue = <<>>
      <4>1. CASE task[k].kind = "exit"
        <5>1. k \in Tasks(v, "exit")
          BY <1>a, <2>2, <4>1 DEF Tasks
        <5> QED BY <1>5, <5>1 DEF AloneOK, Backed
      <4>2. CASE task[k].kind = "stop"
        <5>1. k \in Posting(v)
          BY <1>a, <1>0, <2>2, <4>2 DEF Posting, Tasks
        <5> QED BY <1>5, <5>1 DEF AloneOK
      <4> QED BY <1>0, <4>1, <4>2
    <3>2. market' /\ tok'[v].queue # <<>> => rest'[v] = NoOrder
      BY <1>0, <1>1, <1>5, <3>1 DEF AloneOK
    <3>3. /\ task[k].token = v /\ task[k].kind \in {"exit", "stop", "manual"}
          /\ task'[k].kind = task[k].kind /\ task'[k].token = v
          /\ task[k].kind = "stop" => task'[k].pc # "post"
          /\ \A j \in Task \ {k} : task'[j] = task[j]
      BY <1>a, <1>0, <1>2, <2>2
    <3>4. /\ Tasks(v, "manual") # {} => tok'[v].manual > 0
          /\ Tasks(v, "exit") # {} => Backed(tok'[v])
      BY <1>0, <1>5 DEF AloneOK, Backed
    <3> QED BY <1>5, <3>2, <3>3, <3>4, SellMoves
  <2> QED BY <2>1, <2>2
<1> QED BY <1>0, <1>3, <1>5 DEF AloneInv, Apart, Only

\* A fill neither queues an exit nor takes away what backs one.
LEMMA BookedAlone ==
  ASSUME TypeOK, NEW n \in DOMAIN trades, NEW settled \in BOOLEAN, Booked(n, settled),
         NEW t, t = trades[n].token
  PROVE  /\ \A v \in Token \ {t} : tok'[v] = tok[v]
         /\ tok'[t].manual = tok[t].manual
         /\ ~settled => tok'[t].stop = tok[t].stop
         /\ tok'[t].queue # <<>> => tok[t].queue # <<>>
         /\ Backed(tok[t]) /\ (trades[n].applied \/ trades[n].by # "buy") => Backed(tok'[t])
<1> DEFINE q == trades[n].lots
<1>0. t \in Token /\ q \in Nat
  BY TradeFacts
<1>1. PICK x \in TokenState :
         /\ Same(tok[t], x) /\ x.stop = (IF settled THEN FALSE ELSE tok[t].stop)
         /\ \A v \in Token \ {t} : tok'[v] = tok[v]
         /\ trades[n].applied => tok'[t] = x
         /\ ~trades[n].applied /\ trades[n].by # "buy" => tok'[t] = Sold(x, q)
         /\ ~trades[n].applied /\ trades[n].by = "buy" => tok'[t] \in MayPromote(Bought(x, q))
  BY BookedFields
<1> HIDE DEF q
<1> DEFINE Kept(y) == /\ y.manual = x.manual /\ y.stop = x.stop
                      /\ y.queue # <<>> => x.queue # <<>>
<1>2. CASE trades[n].applied
  <2>1. Kept(tok'[t]) /\ (Backed(x) => Backed(tok'[t]))
    BY <1>1, <1>2
  <2> HIDE DEF Kept
  <2>2. Kept(tok'[t]) /\ (Backed(x) => Backed(tok'[t]))
    BY <2>1
  <2> QED BY <1>1, <2>2 DEF Same, Backed, Kept
<1>3. CASE ~trades[n].applied /\ trades[n].by # "buy"
  <2> DEFINE y == Sold(x, q)
  <2>1. /\ Aside(x, y)
        /\ \/ x.in_flight /\ y.in_flight = TRUE /\ y.queue = x.queue
           \/ Bare(y) /\ y.queue = <<>>
    BY <1>0, SoldFields
  <2>2. tok'[t] = y
    BY <1>1, <1>3
  <2> HIDE DEF y
  <2>3. Kept(y) /\ (Backed(x) => Backed(y))
    BY <2>1 DEF Aside, Bare, Backed
  <2> QED BY <1>1, <2>2, <2>3 DEF Same, Backed
<1>4. CASE ~trades[n].applied /\ trades[n].by = "buy"
  <2> DEFINE z == Bought(x, q)
  <2>1. z \in TokenState /\ Aside(x, z) /\ z.queue = x.queue
    BY <1>0, BoughtFields
  <2>2. tok'[t] = z \/ tok'[t] = Promoted(z)
    BY <1>1, <1>4 DEF MayPromote
  <2> HIDE DEF z
  <2>3. Kept(tok'[t])
    BY <2>1, <2>2, PromotedFields DEF Aside
  <2> QED BY <1>1, <1>4, <2>3 DEF Same
<1> QED BY <1>1, <1>2, <1>3, <1>4

LEMMA ToldStays ==
  ASSUME TypeOK, NEW n \in DOMAIN trades, NEW v, SellsTold(v),
         \/ trades' = [trades EXCEPT ![n].applied = TRUE]
         \/ trades' = [trades EXCEPT ![n].applied = TRUE, ![n].told = TRUE]
  PROVE  SellsTold(v)'
<1>1. /\ TradesStay /\ DOMAIN trades' = DOMAIN trades
      /\ trades'[n].by = trades[n].by /\ trades'[n].token = trades[n].token
      /\ trades[n].told => trades'[n].told
      /\ \A m \in DOMAIN trades \ {n} : trades'[m] = trades[m]
  BY Marked
<1> SUFFICES ASSUME NEW m \in DOMAIN trades', trades'[m].token = v, trades'[m].by # "buy"
             PROVE  trades'[m].told
  BY DEF SellsTold
<1>2. CASE m = n
  BY <1>1, <1>2 DEF SellsTold
<1>3. CASE m # n
  BY <1>1, <1>3 DEF SellsTold
<1> QED BY <1>2, <1>3

LEMMA FillsAlone ==
  ASSUME IInv, AloneInv,
         \/ \E k \in Task : OrderAck(k)
         \/ \E n \in DOMAIN trades : UserChannelFill(n)
  PROVE  AloneInv' /\ NoStart
<1>0. TypeOK /\ TaskInv /\ TasksOwn /\ task \in [Task -> TaskType]
  BY Parts DEF IInv, AloneInv
\* The records and the trades, whichever of the two it is.
<1>1. ASSUME NEW n \in DOMAIN trades, NEW b \in BOOLEAN, Booked(n, b), Undisturbed(n),
             \/ trades' = [trades EXCEPT ![n].applied = TRUE]
             \/ trades' = [trades EXCEPT ![n].applied = TRUE, ![n].told = TRUE],
             UNCHANGED <<market, rest>>, Apart, NEW v \in Token, AloneOK(v)
      PROVE  /\ Tasks(v, "manual") # {} => tok'[v].manual > 0
             /\ Tasks(v, "exit") # {} => Backed(tok'[v])
             /\ market' /\ tok'[v].queue # <<>> => rest'[v] = NoOrder
             /\ Posting(v) # {} => /\ tok'[v].queue = <<>> /\ rest'[v] = NoOrder /\ SellsTold(v)'
                                   /\ trades[n].token # v \/ ~b => tok'[v].stop
  <2>1. PICK t \in Token : t = trades[n].token
    BY <1>0, TradeFacts
  <2>2. /\ \A w \in Token \ {t} : tok'[w] = tok[w]
        /\ tok'[t].manual = tok[t].manual
        /\ ~b => tok'[t].stop = tok[t].stop
        /\ tok'[t].queue # <<>> => tok[t].queue # <<>>
        /\ Backed(tok[t]) /\ (trades[n].applied \/ trades[n].by # "buy") => Backed(tok'[t])
    BY <1>0, <1>1, <2>1, BookedAlone
  <2>3. Posting(v) # {} => SellsTold(v)'
    BY <1>0, <1>1, ToldStays DEF AloneOK
  <2>4. Tasks(v, "exit") # {} => Backed(tok'[v])
    <3>1. CASE v # t
      BY <1>1, <2>2, <3>1 DEF AloneOK, Backed
    <3>2. CASE v = t /\ Tasks(v, "exit") # {}
      <4>1. Exiting(t)
        BY <3>2 DEF Exiting
      <4>2. trades[n].by # "buy"
        BY <1>1, <2>1, <4>1, ApartHas DEF Undisturbed
      <4> QED BY <1>1, <2>2, <3>2, <4>2 DEF AloneOK
    <3> QED BY <3>1, <3>2
  <2>5. CASE v # t
    BY <1>1, <2>1, <2>2, <2>3, <2>4, <2>5 DEF AloneOK
  <2>6. CASE v = t
    BY <1>1, <2>1, <2>2, <2>3, <2>4, <2>6 DEF AloneOK
  <2> QED BY <2>5, <2>6
<1>2. ASSUME NEW n \in DOMAIN trades, UserChannelFill(n)
      PROVE  AloneInv' /\ NoStart
  <2> DEFINE b == trades[n].by # "buy" /\ ~trades[n].applied
  <2>1. /\ Booked(n, b) /\ Undisturbed(n) /\ ~trades[n].told
        /\ trades' = [trades EXCEPT ![n].applied = TRUE, ![n].told = TRUE]
        /\ UNCHANGED <<scenario, task, market, rest>>
    BY <1>2 DEF UserChannelFill
  <2>2. b \in BOOLEAN
    <3>1. trades[n].applied \in BOOLEAN
      BY <1>0, TradeFacts DEF TradeType
    <3> QED BY <3>1
  <2>3. TasksOwn' /\ NoStart /\ \A v : SellsKeep(v)
    <3>1. TradesStay
      BY <1>0, <2>1, Marked
    <3> QED BY <1>0, <2>1, <3>1, SameTasks
  <2>4. \A v \in Token : SellsTold(v) => trades[n].token # v \/ ~b
    BY <2>1 DEF SellsTold
  <2> HIDE DEF b
  <2>5. ASSUME NEW v \in Token, Apart, AloneOK(v)
        PROVE  AloneOK(v)'
    <3>1. /\ Tasks(v, "manual") # {} => tok'[v].manual > 0
          /\ Tasks(v, "exit") # {} => Backed(tok'[v])
          /\ market' /\ tok'[v].queue # <<>> => rest'[v] = NoOrder
          /\ Posting(v) # {} => /\ tok'[v].queue = <<>> /\ rest'[v] = NoOrder /\ SellsTold(v)'
                                /\ trades[n].token # v \/ ~b => tok'[v].stop
      BY <1>1, <2>1, <2>2, <2>5
    <3>2. Posting(v) # {} => SellsTold(v)
      BY <2>5 DEF AloneOK
    <3> QED BY <2>3, <2>4, <2>5, <3>1, <3>2, AloneKept
  <2> QED BY <2>1, <2>3, <2>5 DEF AloneInv, Apart, Only
<1>3. ASSUME NEW k \in Task, OrderAck(k)
      PROVE  AloneInv' /\ NoStart
  <2>0. PICK n, b : n = task[k].trade /\ b = (task[k].kind # "buy")
    OBVIOUS
  <2>1. /\ n \in DOMAIN trades /\ b \in BOOLEAN /\ Booked(n, b) /\ Undisturbed(n)
        /\ trades' = [trades EXCEPT ![n].applied = TRUE]
        /\ UNCHANGED <<scenario, market, rest>> /\ task[k].pc = "ack"
        /\ \E pc \in {"arm", "done"} : Goto(k, pc)
    BY <1>0, <1>3, <2>0 DEF OrderAck, TaskInv
  <2>2. /\ task'[k].kind = task[k].kind /\ task'[k].token = task[k].token
        /\ task'[k].pc \in {"arm", "done"}
        /\ \A j \in Task \ {k} : task'[j] = task[j]
    <3>1. PICK pc \in {"arm", "done"} : Goto(k, pc)
      BY <2>1
    <3> QED BY <1>0, <3>1, MovedTask
  <2>3. task[k].kind \in {"buy", "exit", "stop", "manual"}
    <3>1. task[k].kind \in Kinds \cup {"none"} /\ task[k].kind # "none"
      BY <1>0, <2>1 DEF TaskType, TaskInv
    <3> QED BY <3>1 DEF Kinds
  <2>4. TasksOwn' /\ NoStart
    <3>1. TradesStay
      BY <1>0, <2>1, Marked
    <3>2. TasksOwn'
      BY <1>0, <2>2, <2>3, <3>1, OwnKept
    <3> QED BY <2>2, <3>2 DEF NoStart
  <2>5. ASSUME NEW v \in Token, Apart, AloneOK(v)
        PROVE  AloneOK(v)'
    <3>1. /\ Tasks(v, "manual") # {} => tok'[v].manual > 0
          /\ Tasks(v, "exit") # {} => Backed(tok'[v])
          /\ market' /\ tok'[v].queue # <<>> => rest'[v] = NoOrder
          /\ Posting(v) # {} => /\ tok'[v].queue = <<>> /\ rest'[v] = NoOrder /\ SellsTold(v)'
                                /\ trades[n].token # v \/ ~b => tok'[v].stop
      BY <1>1, <2>1, <2>5
    <3>2. CASE k \in Sells(v)
      <4>1. task[k].token = v /\ task[k].kind \in {"exit", "stop", "manual"}
        BY <2>3, <3>2 DEF Sells
      <4> QED BY <2>2, <2>5, <3>1, <4>1, SellMoves
    <3>3. CASE k \notin Sells(v)
      <4>1. SellsKeep(v)
        BY <2>2, <3>3, SellsAside DEF Sells
      <4>2. trades[n].token # v \/ ~b
        BY <1>0, <2>0, <2>1, <3>3 DEF TasksOwn, Sells
      <4> QED BY <2>5, <3>1, <4>1, <4>2, AloneKept
    <3> QED BY <3>2, <3>3
  <2> QED BY <2>1, <2>4, <2>5 DEF AloneInv, Apart, Only
<1> QED BY <1>2, <1>3


\* The task of a SELL ends: it was the only one of its kind, and no stop loss was
\* about to be posted.
LEMMA AloneGone ==
  ASSUME NEW v \in Token, AloneOK(v), UNCHANGED <<market, trades, rest>>,
         NEW k \in Task, task[k].token = v, task[k].kind \in {"exit", "stop", "manual"},
         task[k].pc # "post", task'[k].kind = "none",
         \A j \in Task \ {k} : task'[j] = task[j],
         task[k].kind # "manual" => tok'[v].manual = tok[v].manual,
         task[k].kind # "exit" /\ Backed(tok[v]) => Backed(tok'[v]),
         tok'[v].queue # <<>> => tok[v].queue # <<>>
  PROVE  AloneOK(v)'
<1>1. ASSUME NEW kind \in {"exit", "stop", "manual"}
      PROVE  Tasks(v, kind)' = Tasks(v, kind) \ {k}
  BY DEF Tasks, Task
<1>2. /\ Tasks(v, "exit")' = Tasks(v, "exit") \ {k}
      /\ Tasks(v, "manual")' = Tasks(v, "manual") \ {k}
      /\ Tasks(v, "stop")' = Tasks(v, "stop") \ {k}
  BY <1>1
<1>3. Posting(v) = {}
  BY DEF AloneOK, Posting, Sells, Tasks
<1>4. Posting(v)' = {}
  BY <1>2, <1>3 DEF Posting, Tasks
<1>5. Tasks(v, "manual")' # {} => task[k].kind # "manual"
  BY <1>2 DEF AloneOK, Tasks
<1>6. Tasks(v, "exit")' # {} => task[k].kind # "exit"
  BY <1>2 DEF AloneOK, Tasks
<1> QED BY <1>2, <1>4, <1>5, <1>6 DEF AloneOK, Backed

\* An exit, a stop loss or a SELL of the user reports.
LEMMA DoneAlone ==
  ASSUME IInv, AloneInv, NEW k \in Task,
         \/ TrailingExitDispatchDone(k) \/ StopLossSellDone(k) \/ ManualFakSellDispatchDone(k)
  PROVE  AloneInv' /\ NoStart
<1>a. PICK t \in Token : task[k].token = t
  BY DEF IInv, TaskInv, TrailingExitDispatchDone, StopLossSellDone, ManualFakSellDispatchDone, At
<1>0. /\ TypeOK /\ TaskInv /\ TasksOwn /\ task \in [Task -> TaskType]
      /\ tok \in [Token -> TokenState] /\ tok[t] \in TokenState
      /\ UNCHANGED <<scenario, market, trades, rest>> /\ task' = [task EXCEPT ![k] = Off]
      /\ task[k].kind \in {"exit", "stop", "manual"} /\ task[k].pc \in {"done", "fail"}
  BY Parts DEF IInv, AloneInv, TrailingExitDispatchDone, StopLossSellDone,
               ManualFakSellDispatchDone, At
<1>1. task'[k] = Off /\ \A j \in Task \ {k} : task'[j] = task[j]
  BY <1>0, OneTask
<1>2. task'[k].kind = "none" /\ task'[k].token = NoToken /\ task'[k].pc = "post"
  BY <1>1 DEF Off
<1>3. TasksOwn' /\ NoStart
  <2>1. TasksOwn'
    BY <1>0, <1>1, <1>2, StillThere, OwnKept
  <2> QED BY <1>1, <1>2, <2>1 DEF NoStart
<1> DEFINE x == tok[t]
           Left(y) == /\ task[k].kind # "manual" => y.manual = x.manual
                      /\ task[k].kind # "exit" /\ Backed(x) => Backed(y)
                      /\ y.queue # <<>> => x.queue # <<>>
<1>4. PICK y : tok' = [tok EXCEPT ![t] = y] /\ Left(y)
  <2>1. CASE TrailingExitDispatchDone(k)
    <3>1. PICK b \in BOOLEAN : b = (task[k].pc = "done")
      OBVIOUS
    <3> DEFINE y == ExitDone(x, b)
    <3>2. tok' = [tok EXCEPT ![t] = y] /\ task[k].kind = "exit"
      BY <1>a, <2>1, <3>1 DEF TrailingExitDispatchDone
    <3>3. y.queue = <<>> /\ y.manual = x.manual
      BY <1>0, ExitDoneFields DEF Aside
    <3> HIDE DEF y
    <3> QED BY <3>2, <3>3
  <2>2. CASE StopLossSellDone(k)
    <3>1. PICK b \in BOOLEAN : b = (task[k].pc = "done")
      OBVIOUS
    <3> DEFINE y == StopDone(x, b)
    <3>2. tok' = [tok EXCEPT ![t] = y]
      BY <1>a, <2>2, <3>1 DEF StopLossSellDone
    <3>3. /\ y.queue = x.queue /\ y.manual = x.manual /\ y.in_flight = x.in_flight
          /\ y.plan = x.plan /\ y.arm = x.arm
      <4> HIDE DEF x
      <4> QED BY <1>0 DEF StopDone, TokenState, x
    <3> HIDE DEF y
    <3> QED BY <3>2, <3>3 DEF Backed
  <2>3. CASE ManualFakSellDispatchDone(k)
    <3>1. PICK n : n = Minus(x.manual, 1)
      OBVIOUS
    <3> DEFINE y == [x EXCEPT !.manual = n]
    <3>2. tok' = [tok EXCEPT ![t] = y] /\ task[k].kind = "manual"
      BY <1>a, <2>3, <3>1 DEF ManualFakSellDispatchDone, At
    <3>3. /\ y.queue = x.queue /\ y.in_flight = x.in_flight /\ y.plan = x.plan /\ y.arm = x.arm
      <4> HIDE DEF x
      <4> QED BY <1>0 DEF TokenState, x
    <3> HIDE DEF y
    <3> QED BY <3>2, <3>3 DEF Backed
  <2> QED BY <2>1, <2>2, <2>3
<1>5. tok'[t] = y /\ \A v \in Token \ {t} : tok'[v] = tok[v]
  BY <1>0, <1>4
<1>6. ASSUME NEW v \in Token, AloneOK(v)
      PROVE  AloneOK(v)'
  <2>1. CASE v # t
    <3>1. SellsKeep(v)
      BY <1>a, <1>1, <1>2, <2>1, TrailingExitAssumption, SellsAside DEF Sells
    <3>2. TradesKeep /\ \A n \in DOMAIN trades' \ DOMAIN trades : trades'[n].by = "buy"
      BY <1>0, StillThere DEF TradesKeep
    <3> QED BY <1>0, <1>5, <1>6, <2>1, <3>1, <3>2, AloneAside
  <2>2. CASE v = t
    <3>1. /\ task[k].kind # "manual" => tok'[v].manual = tok[v].manual
          /\ task[k].kind # "exit" /\ Backed(tok[v]) => Backed(tok'[v])
          /\ tok'[v].queue # <<>> => tok[v].queue # <<>>
      BY <1>4, <1>5, <2>2
    <3> QED BY <1>a, <1>0, <1>1, <1>2, <1>6, <2>2, <3>1, AloneGone
  <2> QED BY <2>1, <2>2
<1> QED BY <1>0, <1>3, <1>6 DEF AloneInv, Apart, Only


\* RequestTrailingArm: no exit of its token is queued or runs.
LEMMA ArmAlone ==
  ASSUME IInv, AloneInv, NEW k \in Task, RequestTrailingArm(k)
  PROVE  AloneInv' /\ NoStart
<1>a. PICK t \in Token : task[k].token = t
  BY DEF IInv, TaskInv, RequestTrailingArm, At
<1> DEFINE x == tok[t]
           n == x.arm + task[k].lots
           z == [x EXCEPT !.arm = n]
<1>0. /\ TaskInv /\ TasksOwn /\ task \in [Task -> TaskType] /\ tok \in [Token -> TokenState]
      /\ x \in TokenState /\ task[k].kind = "buy" /\ task[k].lots \in Nat
      /\ task' = [task EXCEPT ![k] = Off] /\ UNCHANGED <<scenario, market, trades, rest>>
      /\ ~Exiting(t) \/ "buy_in_exit" \in scenario.faults
  BY <1>a, Parts DEF IInv, AloneInv, RequestTrailingArm, At, TaskType
<1>1. PICK y \in MayPromote(z) : tok' = [tok EXCEPT ![t] = y]
  BY <1>a DEF RequestTrailingArm
<1>2. n \in Nat
  <2>1. x.arm \in Nat
    BY <1>0, Fields
  <2> QED BY <1>0, <2>1
<1> HIDE DEF n, x
<1>3. z \in TokenState /\ z.queue = x.queue /\ Aside(x, z)
  BY <1>0, <1>2 DEF TokenState, Aside
<1>4. y = z \/ y = Promoted(z)
  BY <1>1 DEF MayPromote
<1> HIDE DEF z
<1>5. y.queue = x.queue /\ y.manual = x.manual /\ y.stop = x.stop
  BY <1>3, <1>4, PromotedFields DEF Aside
<1>6. tok'[t] = y /\ \A v \in Token \ {t} : tok'[v] = tok[v]
  BY <1>0, <1>1
<1>7. task'[k].kind = "none" /\ task'[k].token = NoToken /\ task'[k].pc = "post"
      /\ \A j \in Task \ {k} : task'[j] = task[j]
  BY <1>0, OneTask DEF Off
<1>8. TasksOwn' /\ NoStart /\ \A v \in Token : SellsKeep(v)
  <2>1. TasksOwn'
    BY <1>0, <1>7, StillThere, OwnKept
  <2>2. ASSUME NEW v \in Token PROVE SellsKeep(v)
    BY <1>0, <1>7, TrailingExitAssumption, SellsAside DEF Sells
  <2> QED BY <1>7, <2>1, <2>2 DEF NoStart
<1>9. ASSUME NEW v \in Token, Apart, AloneOK(v)
      PROVE  AloneOK(v)'
  <2>1. SellsTold(v) => SellsTold(v)'
    BY <1>0 DEF SellsTold
  <2>2. CASE v # t
    <3>1. TradesKeep /\ \A m \in DOMAIN trades' \ DOMAIN trades : trades'[m].by = "buy"
      BY <1>0, StillThere DEF TradesKeep
    <3> QED BY <1>0, <1>6, <1>8, <1>9, <2>2, <3>1, AloneAside
  <2>3. CASE v = t
    <3>1. Tasks(v, "exit") = {} /\ x.queue = <<>>
      BY <1>0, <1>9, <2>3, ApartHas DEF Exiting, x
    <3>2. /\ Tasks(v, "manual") # {} => tok'[v].manual > 0
          /\ Posting(v) # {} => tok'[v].stop /\ rest'[v] = NoOrder /\ SellsTold(v)'
          /\ tok'[v].queue = <<>>
      BY <1>0, <1>5, <1>6, <1>9, <2>1, <2>3, <3>1 DEF AloneOK, x
    <3> QED BY <1>8, <1>9, <3>1, <3>2, AloneKept
  <2> QED BY <2>2, <2>3
<1> QED BY <1>0, <1>8, <1>9 DEF AloneInv, Apart, Only

\* The user sells: nothing else of the token is being sold.
LEMMA ManualAlone ==
  ASSUME IInv, AloneInv, NEW t \in Token, Manual(t)
  PROVE  AloneInv' /\ NoStart
<1> DEFINE x == tok[t]
           n == x.manual + 1
           y == [x EXCEPT !.manual = n, !.queue = <<>>]
<1>0. /\ TaskInv /\ TasksOwn /\ task \in [Task -> TaskType] /\ tok \in [Token -> TokenState]
      /\ UNCHANGED <<scenario, market, trades, rest>> /\ tok' = [tok EXCEPT ![t] = y]
      /\ x \in TokenState
      /\ "sells_overlap" \in scenario.faults \/ ~SellUnderWay(t)
  BY Parts DEF IInv, AloneInv, Manual
<1>1. PICK q : Started("manual", "post", t, q, 0)
  BY DEF Manual
<1>2. PICK k \in Task : /\ task[k].kind = "none" /\ task'[k].kind = "manual"
                        /\ task'[k].token = t /\ task'[k].pc = "post"
                        /\ \A j \in Task \ {k} : task'[j] = task[j]
  <2>1. "manual" \in Kinds
    BY DEF Kinds
  <2> QED BY <1>0, <1>1, <2>1, StartedTask
<1>3. task[k].token = NoToken
  BY <1>0, <1>2 DEF TasksOwn
<1>4. TasksOwn' /\ NoStart
  <2>1. TasksOwn'
    BY <1>0, <1>2, StillThere, OwnKept
  <2> QED BY <1>2, <2>1 DEF NoStart
<1>5. /\ tok'[t].manual = n /\ n > 0 /\ tok'[t].queue = <<>>
      /\ \A v \in Token \ {t} : tok'[v] = tok[v]
  <2>1. x.manual \in Nat
    BY <1>0, Fields
  <2>2. n > 0
    BY <2>1
  <2>3. ASSUME NEW s, NEW r, r = [x EXCEPT !.manual = n, !.queue = s]
        PROVE  r.manual = n /\ r.queue = s
    <3> HIDE DEF n, x
    <3> QED BY <1>0, <2>3 DEF TokenState
  <2>4. tok'[t] = y /\ \A v \in Token \ {t} : tok'[v] = tok[v]
    BY <1>0
  <2> HIDE DEF n, x
  <2>5. y.manual = n /\ y.queue = <<>>
    BY <2>3
  <2> QED BY <2>2, <2>4, <2>5
<1>6. ASSUME NEW v \in Token, Apart, AloneOK(v)
      PROVE  AloneOK(v)'
  <2>1. CASE v # t
    <3>1. SellsKeep(v)
      BY <1>2, <1>3, <2>1, TrailingExitAssumption, SellsAside DEF Sells
    <3>2. TradesKeep /\ \A m \in DOMAIN trades' \ DOMAIN trades : trades'[m].by = "buy"
      BY <1>0, StillThere DEF TradesKeep
    <3> QED BY <1>0, <1>5, <1>6, <2>1, <3>1, <3>2, AloneAside
  <2>2. CASE v = t
    <3>1. Sells(t) = {}
      BY <1>0, <1>6, ApartHas DEF SellUnderWay, Sells
    <3>2. Sells(t)' = {k}
      BY <1>2, <3>1 DEF Sells, Task
    <3>3. /\ Tasks(t, "exit")' = {} /\ Tasks(t, "stop")' = {} /\ Tasks(t, "manual")' = {k}
      BY <1>2, <3>2 DEF Tasks, Sells
    <3> QED BY <1>5, <2>2, <3>3 DEF AloneOK, Posting
  <2> QED BY <2>1, <2>2
<1> QED BY <1>0, <1>4, <1>6 DEF AloneInv, Apart, Only

LEMMA GraceAlone ==
  ASSUME IInv, AloneInv, NEW t \in Token, GraceEnds(t)
  PROVE  AloneInv' /\ NoStart
<1>0. /\ TaskInv /\ TasksOwn /\ tok \in [Token -> TokenState]
      /\ UNCHANGED <<scenario, market, task, trades, rest>>
      /\ tok' = [tok EXCEPT ![t] = [tok[t] EXCEPT !.grace = FALSE]]
  BY Parts DEF IInv, AloneInv, GraceEnds
<1>1. \A v \in Token : Same(tok[v], tok'[v]) /\ tok'[v].stop = tok[v].stop
  <2>1. ASSUME NEW x \in TokenState, NEW y, y = [x EXCEPT !.grace = FALSE]
        PROVE  Same(x, y) /\ y.stop = x.stop
    BY <2>1 DEF TokenState, Same
  <2>2. tok[t] \in TokenState /\ tok'[t] = [tok[t] EXCEPT !.grace = FALSE]
        /\ \A v \in Token \ {t} : tok'[v] = tok[v]
    BY <1>0
  <2> QED BY <2>1, <2>2 DEF Same
<1>2. TasksOwn' /\ NoStart /\ \A v \in Token : SellsKeep(v)
  BY <1>0, StillThere, SameTasks
<1>3. ASSUME NEW v \in Token, AloneOK(v)
      PROVE  AloneOK(v)'
  <2>1. SellsTold(v) => SellsTold(v)'
    BY <1>0 DEF SellsTold
  <2>2. Same(tok[v], tok'[v]) /\ tok'[v].stop = tok[v].stop
    BY <1>1
  <2>3. Backed(tok[v]) => Backed(tok'[v])
    BY <2>2 DEF Same, Backed
  <2> QED BY <1>0, <1>2, <1>3, <2>1, <2>2, <2>3, AloneKept DEF AloneOK, Same
<1> QED BY <1>0, <1>2, <1>3 DEF AloneInv, Apart, Only


\* A tick arms or trips a trail only where nothing that blocks it is about: a stop loss
\* at work, a resting SELL, an exit under way.
LEMMA TickBlocked ==
  ASSUME NEW v \in Token, NEW x, x \in TokenState, NEW y,
         \/ y = x
         \/ x.arm > 0 /\ y = Promoted(x)
         \/ y \in Tripped(v, x)
  PROVE  /\ Aside(x, y) /\ (Backed(x) => Backed(y))
         /\ x.stop /\ x.queue = <<>> => y.queue = <<>>
         /\ market /\ y.queue # <<>> => x.queue # <<>> \/ rest[v] = NoOrder
<1>1. CASE y = x
  BY <1>1 DEF Aside
<1>2. CASE x.arm > 0 /\ y = Promoted(x)
  <2>1. y.queue = x.queue /\ y.in_flight = x.in_flight /\ Aside(x, y)
    BY <1>2, PromotedFields
  <2>2. Backed(x) => Backed(y)
    BY <1>2, <2>1 DEF Backed
  <2> QED BY <2>1, <2>2
<1>3. CASE y \in Tripped(v, x)
  <2>1. x.plan > 0 /\ ~Busy(v, x) /\ Aside(x, y)
    BY <1>3, TrippedFields
  <2>2. ~x.in_flight /\ ~x.stop /\ (market => rest[v] = NoOrder)
    BY <2>1 DEF Busy
  <2> QED BY <2>1, <2>2 DEF Backed
<1> QED BY <1>1, <1>2, <1>3

\* A stop loss starts: no SELL of its token is out.
LEMMA StopStartAlone ==
  ASSUME NEW u \in Token, ~SellUnderWay(u), UNCHANGED <<trades, rest>>,
         tok'[u].stop = TRUE, tok'[u].queue = <<>>,
         NEW k \in Task, task'[k].kind = "stop", task'[k].token = u,
         \A j \in Task \ {k} : task'[j] = task[j]
  PROVE  AloneOK(u)'
<1>1. Sells(u) = {} /\ SellsTold(u) /\ rest[u] = NoOrder
  BY DEF SellUnderWay, Sells, SellsTold
<1>2. Sells(u)' = {k}
  BY <1>1 DEF Sells, Task
<1>3. Tasks(u, "exit")' = {} /\ Tasks(u, "manual")' = {}
  BY <1>2 DEF Tasks, Sells
<1>4. Posting(u)' \subseteq {k}
  BY <1>2 DEF Posting, Tasks, Sells
<1>5. SellsTold(u)'
  BY <1>1 DEF SellsTold
<1> QED BY <1>1, <1>2, <1>3, <1>4, <1>5 DEF AloneOK

\* An exit may start: nothing else sells its token.
LEMMA ExitFree ==
  ASSUME NEW u \in Token, AloneOK(u), NEW x, x.queue # <<>>, x.manual = 0,
         Aside(tok[u], x), Backed(tok[u]) => Backed(x),
         tok[u].stop /\ tok[u].queue = <<>> => x.queue = <<>>,
         market /\ x.queue # <<>> => tok[u].queue # <<>> \/ rest[u] = NoOrder
  PROVE  /\ Tasks(u, "exit") = {} /\ Tasks(u, "manual") = {} /\ Posting(u) = {}
         /\ market => rest[u] = NoOrder
<1>1. Tasks(u, "exit") = {}
  BY DEF AloneOK, Backed
<1>2. Tasks(u, "manual") = {}
  BY DEF AloneOK, Aside
<1>3. Posting(u) = {}
  BY DEF AloneOK
<1>4. market => rest[u] = NoOrder
  BY DEF AloneOK
<1> QED BY <1>1, <1>2, <1>3, <1>4

LEMMA ExitStartAlone ==
  ASSUME NEW u \in Token, Tasks(u, "exit") = {}, Tasks(u, "manual") = {}, Posting(u) = {},
         tok'[u].queue = <<>>, tok'[u].in_flight = TRUE,
         NEW k \in Task, task[k].kind = "none", task'[k].kind = "exit", task'[k].token = u,
         \A j \in Task \ {k} : task'[j] = task[j]
  PROVE  AloneOK(u)'
<1>1. Tasks(u, "exit")' = {k} /\ Tasks(u, "manual")' = {}
  BY DEF Tasks, Task
<1>2. Posting(u)' = {}
  BY DEF Posting, Tasks, Task
<1> QED BY <1>1, <1>2 DEF AloneOK, Backed

\* Book, the one handler that starts exits.
LEMMA BookAlone ==
  ASSUME IInv, AloneInv, NEW t \in Token, Book(t)
  PROVE  AloneInv' /\ (Apart => StartsAlone)
<1>0. /\ TaskInv /\ TasksOwn /\ task \in [Task -> TaskType]
      /\ UNCHANGED <<scenario, market, trades, rest>> /\ TradesStay
  BY Parts, StillThere DEF IInv, AloneInv, Book
<1>1. PICK s \in [Token -> TokenState] :
        /\ KeepsAll(s)
        /\ \A v \in Token : \/ s[v] = tok[v]
                            \/ tok[v].arm > 0 /\ s[v] = Promoted(tok[v])
                            \/ s[v] \in Tripped(v, tok[v])
        /\ (tok' = s /\ UNCHANGED task) \/ StopLoss(s) \/ Dispatch(s)
  BY BookRecords
<1>2. ASSUME NEW v \in Token
      PROVE  /\ Aside(tok[v], s[v]) /\ (Backed(tok[v]) => Backed(s[v]))
             /\ tok[v].stop /\ tok[v].queue = <<>> => s[v].queue = <<>>
             /\ market /\ s[v].queue # <<>> => tok[v].queue # <<>> \/ rest[v] = NoOrder
  <2>1. tok[v] \in TokenState
    BY DEF IInv, TokInv, Good
  <2> QED BY <1>1, <2>1, TickBlocked
<1>3. \A v \in Token : Good(s[v], market) /\ s[v] \in TokenState
  BY <1>1 DEF KeepsAll, Keeps, Good
\* A token the dispatchers leave alone, or whose queued exit they give up.
<1>4. ASSUME NEW v \in Token, Apart, AloneOK(v), SellsKeep(v),
             \/ tok'[v] = s[v]
             \/ Aside(s[v], tok'[v]) /\ Bare(tok'[v]) /\ tok'[v].queue = <<>>
      PROVE  AloneOK(v)'
  <2>1. SellsTold(v) => SellsTold(v)'
    BY <1>0 DEF SellsTold
  <2>2. /\ tok'[v].manual = tok[v].manual /\ tok'[v].stop = tok[v].stop
        /\ Backed(s[v]) => Backed(tok'[v])
        /\ tok'[v].queue # <<>> => s[v].queue # <<>>
    BY <1>2, <1>4 DEF Aside, Bare, Backed
  <2>3. /\ Tasks(v, "manual") # {} => tok'[v].manual > 0
        /\ Tasks(v, "exit") # {} => Backed(tok'[v])
    BY <1>2, <1>4, <2>2 DEF AloneOK
  <2>4. Posting(v) # {} => /\ tok'[v].stop /\ tok'[v].queue = <<>> /\ rest'[v] = NoOrder
                           /\ SellsTold(v)'
    BY <1>0, <1>2, <1>4, <2>1, <2>2 DEF AloneOK
  <2>5. market' /\ tok'[v].queue # <<>> => rest'[v] = NoOrder
    BY <1>0, <1>2, <1>4, <2>2 DEF AloneOK
  <2> QED BY <1>4, <2>3, <2>4, <2>5, AloneKept
<1>5. CASE UNCHANGED task /\ \A v \in Token :
             \/ tok'[v] = s[v]
             \/ Aside(s[v], tok'[v]) /\ Bare(tok'[v]) /\ tok'[v].queue = <<>>
  <2>1. TasksOwn' /\ NoStart /\ \A v : SellsKeep(v)
    BY <1>0, <1>5, SameTasks
  <2>2. StartsAlone
    BY <2>1 DEF StartsAlone, NoStart, Off
  <2> QED BY <1>0, <1>4, <1>5, <2>1, <2>2 DEF AloneInv, Apart, Only
<1>6. CASE StopLoss(s)
  <2>1. PICK u \in Token, k \in Task :
          /\ "sells_overlap" \in scenario.faults \/ (~SellUnderWay(u) /\ s[u].queue = <<>>)
          /\ Same(s[u], tok'[u]) /\ tok'[u].stop = TRUE
          /\ \A v \in Token \ {u} : tok'[v] = s[v]
          /\ task[k].kind = "none" /\ task[k].pc = "post" /\ task'[k].kind = "stop"
          /\ task'[k].pc = "post" /\ task'[k].token = u
          /\ \A j \in Task \ {k} : task'[j] = task[j]
    BY <1>6, StopLossFields
  <2>2. TasksOwn' /\ NoStart
    <3>1. TasksOwn'
      BY <1>0, <2>1, OwnKept
    <3> QED BY <2>1, <3>1 DEF NoStart
  <2>3. ASSUME NEW v \in Token, Apart, AloneOK(v)
        PROVE  AloneOK(v)'
    <3>1. CASE v # u
      <4>1. k \notin Sells(v)
        BY <1>0, <2>1, TrailingExitAssumption DEF TasksOwn, Sells
      <4>2. SellsKeep(v)
        BY <2>1, <3>1, <4>1, SellsAside
      <4> QED BY <1>4, <2>1, <2>3, <3>1, <4>2
    <3>2. CASE v = u
      <4>1. ~SellUnderWay(u) /\ tok'[u].queue = <<>>
        BY <2>1, <2>3, ApartHas DEF Same
      <4> QED BY <1>0, <2>1, <3>2, <4>1, StopStartAlone
    <3> QED BY <3>1, <3>2
  <2>4. StartsAlone
    BY <2>2 DEF StartsAlone, NoStart, Off
  <2> QED BY <1>0, <2>2, <2>3, <2>4 DEF AloneInv, Apart, Only
<1>7. CASE Dispatch(s)
  <2>1. PICK u \in Token :
          /\ s[u].queue # <<>> /\ ~s[u].in_flight /\ s[u].manual = 0
          /\ \A v \in Token \ {u} : tok'[v] = s[v]
          /\ \/ /\ tok'[u] = Dispatched(s[u])
                /\ \E k \in Task : /\ task[k].kind = "none" /\ task[k].pc = "post"
                                   /\ task'[k].kind = "exit" /\ task'[k].pc = "post"
                                   /\ task'[k].token = u
                                   /\ \A j \in Task \ {k} : task'[j] = task[j]
             \/ tok'[u] = Cleared(s[u]) /\ UNCHANGED task
    BY <1>1, <1>7, DispatchFields
  <2>2. CASE tok'[u] = Cleared(s[u]) /\ UNCHANGED task
    <3> DEFINE y == Cleared(s[u])
    <3>1. Aside(s[u], y) /\ Bare(y) /\ y.queue = <<>>
      BY <1>3, ClearedType, ClearedFields
    <3>2. tok'[u] = y
      BY <2>2
    <3> HIDE DEF y
    <3>3. Aside(s[u], tok'[u]) /\ Bare(tok'[u]) /\ tok'[u].queue = <<>>
      BY <3>1, <3>2
    <3> QED BY <1>5, <2>1, <2>2, <3>3
  <2>3. CASE tok'[u] = Dispatched(s[u]) /\ ~UNCHANGED task
    <3>1. PICK k \in Task : /\ task[k].kind = "none" /\ task[k].pc = "post"
                            /\ task'[k].kind = "exit" /\ task'[k].pc = "post"
                            /\ task'[k].token = u
                            /\ \A j \in Task \ {k} : task'[j] = task[j]
      BY <2>1, <2>3
    <3>2. TasksOwn'
      BY <1>0, <3>1, OwnKept
    <3>3. tok'[u].queue = <<>> /\ tok'[u].in_flight = TRUE
      <4> DEFINE y == Dispatched(s[u])
      <4>1. y.queue = <<>> /\ y.in_flight = TRUE
        BY <1>3, <2>1, DispatchedFields
      <4>2. tok'[u] = y
        BY <2>3
      <4> HIDE DEF y
      <4> QED BY <4>1, <4>2
    <3>4. ASSUME AloneOK(u)
          PROVE  /\ Tasks(u, "exit") = {} /\ Tasks(u, "manual") = {} /\ Posting(u) = {}
                 /\ market => rest[u] = NoOrder
      BY <1>2, <2>1, <3>4, ExitFree
    <3>5. ASSUME NEW v \in Token, Apart, AloneOK(v)
          PROVE  AloneOK(v)'
      <4>1. CASE v # u
        <5>1. k \notin Sells(v)
          BY <1>0, <3>1, TrailingExitAssumption DEF TasksOwn, Sells
        <5>2. SellsKeep(v)
          BY <3>1, <4>1, <5>1, SellsAside
        <5> QED BY <1>4, <2>1, <3>5, <4>1, <5>2
      <4>2. CASE v = u
        BY <3>1, <3>3, <3>4, <3>5, <4>2, ExitStartAlone
      <4> QED BY <4>1, <4>2
    <3>6. ASSUME Apart PROVE StartsAlone
      <4> SUFFICES ASSUME NEW i \in Task, task[i] = Off, task'[i].kind = "exit"
                   PROVE  LET w == task'[i].token IN
                          /\ \A j \in Task : task[j].token = w /\ task[j].kind # "buy"
                                               => task[j].pc # "post"
                          /\ market => rest[w] = NoOrder
        BY DEF StartsAlone
      <4>1. i = k
        BY <3>1 DEF Off
      <4>2. AloneOK(u)
        BY <3>6 DEF AloneInv
      <4>3. ASSUME NEW j \in Task, task[j].token = u, task[j].kind # "buy"
            PROVE  task[j].pc # "post"
        <5>1. task[j].kind \in {"exit", "stop", "manual"}
          <6>1. task[j].kind # "none"
            BY <1>0, <4>3, TrailingExitAssumption DEF TasksOwn
          <6>2. task[j].kind \in Kinds \cup {"none"}
            BY <1>0 DEF TaskType
          <6> QED BY <4>3, <6>1, <6>2 DEF Kinds
        <5>2. j \notin Tasks(u, "exit") /\ j \notin Tasks(u, "manual") /\ j \notin Posting(u)
          BY <3>4, <4>2
        <5> QED BY <4>3, <5>1, <5>2 DEF Tasks, Posting
      <4> QED BY <3>1, <3>4, <4>1, <4>2, <4>3
    <3> QED BY <1>0, <3>2, <3>5, <3>6 DEF AloneInv, Apart, Only
  <2> QED BY <1>5, <2>1, <2>2, <2>3
<1>8. CASE tok' = s /\ UNCHANGED task
  BY <1>5, <1>8
<1> QED BY <1>1, <1>6, <1>7, <1>8


\* Leaving a market and picking one, with no order out.
LEMMA MarketAlone ==
  ASSUME IInv, AloneInv, StartTrading \/ MarketRoll \/ PositionsLoaded
  PROVE  AloneInv' /\ NoStart
<1>0. /\ tok \in [Token -> TokenState] /\ trades \in Seq(TradeType) /\ TypeOK /\ TaskInv
      /\ held \in [Token -> Nat] /\ UNCHANGED <<scenario, task, rest>> /\ MayReload /\ TasksOwn
  BY Parts DEF IInv, AloneInv, StartTrading, MarketRoll, PositionsLoaded
<1>1. TradesStay
  <2>1. CASE UNCHANGED trades
    BY <1>0, <2>1, StillThere
  <2>2. CASE PositionsLoaded
    <3>1. \A n \in DOMAIN trades : trades[n] \in TradeType
      BY <1>0, TradeFacts
    <3>2. trades' = [n \in DOMAIN trades |-> [trades[n] EXCEPT !.applied = TRUE]]
      BY <2>2 DEF PositionsLoaded
    <3> QED BY <3>1, <3>2 DEF TradesStay, TradeType
  <2> QED BY <2>1, <2>2 DEF StartTrading, MarketRoll
<1>2. TasksOwn' /\ NoStart
  BY <1>0, <1>1, SameTasks
<1>3. ASSUME NEW v \in Token, Apart, AloneOK(v)
      PROVE  AloneOK(v)'
  <2>1. \A k \in Task : task[k].token # v /\ task'[k].token # v
    BY <1>0, <1>3, ApartHas DEF MayReload, Idle
  <2>2. \A kind : Tasks(v, kind)' = {}
    BY <2>1 DEF Tasks, Task
  <2>3. market' /\ tok'[v].queue # <<>> => market /\ tok[v].queue # <<>>
    <3>1. CASE StartTrading
      BY <3>1 DEF StartTrading
    <3>2. CASE MarketRoll
      BY <3>2 DEF MarketRoll, Fresh
    <3>3. CASE PositionsLoaded
      <4> DEFINE x == tok[v]
                 h == Higher(x.pos, held[v])
                 z == [x EXCEPT !.pos = h]
                 r == Rehydrated(z)
      <4>1. x \in TokenState /\ x.pos \in Nat /\ held[v] \in Nat
        BY <1>0, Fields
      <4>2. tok'[v] \in {r, Promoted(r)} /\ market
        BY <3>3 DEF PositionsLoaded
      <4>3. h \in Nat
        BY <4>1, NatOps
      <4> HIDE DEF h, x
      <4>4. z \in TokenState /\ z.queue = x.queue
        BY <4>1, <4>3 DEF TokenState
      <4> HIDE DEF z
      <4>5. r \in TokenState /\ (r.queue = <<>> \/ r.queue = z.queue)
        BY <4>4, RehydratedFields
      <4> HIDE DEF r
      <4>6. tok'[v].queue = r.queue
        BY <4>2, <4>5, PromotedFields
      <4> QED BY <4>2, <4>4, <4>5, <4>6 DEF x
    <3> QED BY <3>1, <3>2, <3>3
  <2>4. market' /\ tok'[v].queue # <<>> => rest'[v] = NoOrder
    BY <1>0, <1>3, <2>3 DEF AloneOK
  <2> QED BY <2>2, <2>4 DEF AloneOK, Posting
<1> QED BY <1>0, <1>2, <1>3 DEF AloneInv, Apart, Only

LEMMA AloneInit == Init => AloneInv
<1> SUFFICES ASSUME Init PROVE AloneInv
  OBVIOUS
<1>1. \A k \in Task : task[k].kind = "none" /\ task[k].token = NoToken /\ task[k].pc = "post"
  BY DEF Init, Off
<1>2. TasksOwn
  BY <1>1 DEF TasksOwn
<1>3. ASSUME NEW v \in Token PROVE AloneOK(v)
  <2>1. Tasks(v, "exit") = {} /\ Tasks(v, "manual") = {} /\ Tasks(v, "stop") = {}
    BY <1>1 DEF Tasks
  <2>2. rest[v] = NoOrder
    BY DEF Init
  <2> QED BY <2>1, <2>2 DEF AloneOK, Posting
<1> QED BY <1>2, <1>3 DEF AloneInv

LEMMA AloneNext ==
  IInv /\ AloneInv /\ [Next]_vars => AloneInv' /\ (Next => NoStart \/ (Apart => StartsAlone))
<1> SUFFICES ASSUME IInv, AloneInv, [Next]_vars
             PROVE  AloneInv' /\ (Next => NoStart \/ (Apart => StartsAlone))
  OBVIOUS
<1>1. CASE UNCHANGED vars
  <2>1. UNCHANGED <<scenario, market, tok, task, trades, rest>> /\ TaskInv /\ TasksOwn
    BY <1>1 DEF vars, IInv, AloneInv
  <2>2. TasksOwn' /\ NoStart /\ \A v : SellsKeep(v)
    BY <2>1, StillThere, SameTasks
  <2>3. TradesKeep /\ \A n \in DOMAIN trades' \ DOMAIN trades : trades'[n].by = "buy"
    BY <2>1, StillThere DEF TradesKeep
  <2>4. \A v \in Token : AloneOK(v) => AloneOK(v)'
    BY <2>1, <2>2, <2>3, AloneAside
  <2> QED BY <2>1, <2>2, <2>4 DEF AloneInv, Apart, Only
<1>2. CASE \E t \in Token : \/ \E atOnce \in BOOLEAN : BuyFilled(t, atOnce)
                           \/ LimitSell(t) \/ RestFilled(t) \/ RestCancelled(t)
  BY <1>2, ExchangeAlone
<1>3. CASE \E t \in Token : Manual(t) \/ GraceEnds(t)
  BY <1>3, ManualAlone, GraceAlone
<1>4. CASE \E t \in Token : Book(t)
  BY <1>4, BookAlone
<1>5. CASE \E k \in Task : \/ ExitRefused(k) \/ ExitFilled(k) \/ ExitRests(k)
                           \/ StopPosted(k) \/ StopRefused(k) \/ ManualPosted(k)
  BY <1>5, OrdersAlone
<1>6. CASE \/ \E k \in Task : OrderAck(k)
           \/ \E n \in DOMAIN trades : UserChannelFill(n)
  BY <1>6, FillsAlone
<1>7. CASE \E k \in Task : \/ RequestTrailingArm(k) \/ TrailingExitDispatchDone(k)
                           \/ StopLossSellDone(k) \/ ManualFakSellDispatchDone(k)
  BY <1>7, ArmAlone, DoneAlone
<1>8. CASE StartTrading \/ MarketRoll \/ PositionsLoaded
  BY <1>8, MarketAlone
<1> QED BY <1>1, <1>2, <1>3, <1>4, <1>5, <1>6, <1>7, <1>8 DEF Next

\* An exit starts only when nothing else is selling the same shares: no other exit, no
\* stop loss at work or resting, no SELL of the user (app.rs trailing_sell_queued_or_in_flight,
\* try_dispatch_trailing_sell), provided those SELLs keep out of each other's way, no BUY is
\* booked beside an exit and no market is picked with orders out; refusals, lost
\* responses, late fills and cancels do it no harm.
THEOREM ExitStartsAloneHolds == Spec => ExitStartsAlone
<1>1. IInv /\ AloneInv /\ [Next]_vars => [Apart => StartsAlone]_vars
  <2> SUFFICES ASSUME IInv, AloneInv, Next PROVE Apart => StartsAlone
    OBVIOUS
  <2>1. NoStart \/ (Apart => StartsAlone)
    BY AloneNext
  <2>2. NoStart => StartsAlone
    BY DEF NoStart, StartsAlone, Off
  <2> QED BY <2>1, <2>2
<1>2. IInv /\ AloneInv /\ [Next]_vars => AloneInv'
  BY AloneNext
<1>3. Spec => [][Apart => StartsAlone]_vars
  BY InitIInv, IInvNext, AloneInit, <1>1, <1>2, PTL DEF Spec
<1> QED BY <1>3 DEF ExitStartsAlone, Apart

-------------------------------------------------------------------------------
(* The trailing stop itself (TrailingStop): on_price implements Ratchet, and no breach is
   missed, for any number of threads, any prices and any trail, as long as nobody disturbs
   the two stores that arm a stop. *)

Ratcheting == {"cas_best", "load_stop", "cas_stop", "breach", "trigger"}
AtMost(a, b) == a = UNSET \/ (b # UNSET /\ ~Better(a, b))
BeyondFrom(h) == tick[h].from # UNSET => Better(tick[h].price, tick[h].from)

\* Before the stop is armed nothing is set and nobody ratchets; while it is being armed
\* the one thread that won the race is alone; from then on the stop is set.
ArmInv ==
  /\ ~armed => stop = UNSET /\ best = UNSET
  /\ \A h \in Thread :
       /\ tick[h].pc \in {"idle", "gate", "arm"} \/ armed
       /\ tick[h].pc = "store_best" => stop = UNSET /\ best = UNSET
       /\ tick[h].pc = "store_stop" => stop = UNSET /\ best = tick[h].price
       /\ tick[h].pc \in {"store_best", "store_stop"} =>
            \A j \in Thread : j # h => tick[j].pc \in {"idle", "gate", "arm", "load_best"}
  /\ armed /\ ~Arming => stop # UNSET /\ best # UNSET

\* What a call has loaded and moved, against what is published by now.
TickInv ==
  /\ AtMost(stop, best)
  /\ \A h \in Thread :
       /\ tick[h].pc # "idle" => tick[h].price \in Price
       /\ AtMost(tick[h].from, stop)
       /\ tick[h].pc \in Ratcheting => stop # UNSET
       /\ tick[h].pc = "cas_best" =>
            /\ tick[h].seen # UNSET
            /\ AtMost(tick[h].from, tick[h].seen) /\ Better(tick[h].price, tick[h].seen)
       /\ tick[h].pc \in {"load_stop", "cas_stop"} =>
            AtMost(tick[h].price, best) /\ BeyondFrom(h)
       /\ tick[h].pc = "cas_stop" =>
            tick[h].seen # UNSET /\ Better(StopFor(tick[h].price), tick[h].seen)
       /\ tick[h].pc \in {"breach", "trigger"} /\ tick[h].moved # UNSET => BeyondFrom(h)
       /\ tick[h].pc \in {"gate", "arm", "load_best", "cas_best", "load_stop", "cas_stop"} =>
            tick[h].moved = UNSET

FireInv == fires = IF triggered THEN 1 ELSE 0

StopInv == StopTypeOK /\ ArmInv /\ TickInv /\ FireInv /\ NoMissedBreach

-------------------------------------------------------------------------------
(* A stop is a tick, on the losing side of the print it trails, whatever the trail. *)
LEMMA StopIsTick ==
  ASSUME it \in Stops, NEW b \in Int
  PROVE  StopFor(b) \in Int /\ AtMost(StopFor(b), b)
<1>1. it.trail \in Int BY TrailingStopAssumption DEF StopOf
<1>2. Magnitude(b) \in Int BY DEF Magnitude
<1>3. Magnitude(b) * it.trail \in Int BY <1>1, <1>2
<1>4. CeilDiv(Magnitude(b) * it.trail, 10000) \in Int BY <1>3 DEF CeilDiv
<1>5. DistTicks(b) \in Int /\ DistTicks(b) >= 0 BY <1>1, <1>4 DEF DistTicks, HigherTick
<1>6. it.long \in BOOLEAN BY TrailingStopAssumption DEF StopOf
<1> QED BY <1>5, <1>6, TrailingStopAssumption DEF StopFor, AtMost, Better

(* Every step preserves StopInv when the arming of a stop is not disturbed. *)
LEMMA StepKeepsInv ==
  ASSUME ~ArmDisturbed, StopInv, [StopNext]_stopVars
  PROVE  StopInv'
<1> USE TrailingStopAssumption
<1>t. StopTypeOK /\ ArmInv /\ TickInv /\ FireInv /\ NoMissedBreach BY DEF StopInv
<1>u. CASE UNCHANGED stopVars
  BY <1>t, <1>u DEF StopInv, stopVars, shared, StopTypeOK, Calls, ArmInv, TickInv, FireInv, NoMissedBreach,
     AtMost, BeyondFrom, Better, Breached, Arming, CallAt, StopFor, DistTicks
<1>n. CASE StopNext
  <2> PICK h \in Thread :
    \/ Call(h) \/ Gate(h) \/ ArmRace(h) \/ StoreBest(h) \/ StoreStop(h)
    \/ LoadBest(h) \/ CasBest(h) \/ LoadStop(h) \/ CasStop(h)
    \/ Breach(h) \/ TriggerRace(h)
    BY <1>n DEF StopNext
  <2>s. \A b \in Int : StopFor(b) \in Int /\ AtMost(StopFor(b), b)
    BY <1>t, StopIsTick DEF StopTypeOK
  <2>1. CASE Call(h)
    <3>1. StopTypeOK'
      BY <1>t, <2>s, <2>1 DEF Call, StopTypeOK, ArmInv, TickInv, FireInv, CallPoints, Calls, CallAt, CallGoto,
         Return, shared, FirstTrigger
    <3>2. ArmInv'
      BY <1>t, <2>s, <2>1 DEF Call, StopTypeOK, Calls, ArmInv, CallAt, CallGoto, Return, shared, Arming
    <3>3. TickInv'
      BY <1>t, <2>s, <2>1 DEF Call, StopTypeOK, Calls, ArmInv, TickInv, CallAt, CallGoto, Return, shared,
         AtMost, BeyondFrom, Better, Ratcheting, StopFor, DistTicks
    <3>4. FireInv' BY <1>t, <2>1 DEF Call, FireInv, shared, FirstTrigger
    <3>5. NoMissedBreach'
      BY <1>t, <2>1 DEF Call, StopTypeOK, Calls, TickInv, NoMissedBreach, CallAt, CallGoto, Return,
         shared, Breached
    <3> QED BY <3>1, <3>2, <3>3, <3>4, <3>5 DEF StopInv
  <2>2. CASE Gate(h)
    <3>1. StopTypeOK'
      BY <1>t, <2>s, <2>2 DEF Gate, StopTypeOK, ArmInv, TickInv, FireInv, CallPoints, Calls, CallAt, CallGoto,
         Return, shared, FirstTrigger
    <3>2. ArmInv'
      BY <1>t, <2>s, <2>2 DEF Gate, StopTypeOK, Calls, ArmInv, CallAt, CallGoto, Return, shared, Arming
    <3>3. TickInv'
      BY <1>t, <2>s, <2>2 DEF Gate, StopTypeOK, Calls, ArmInv, TickInv, CallAt, CallGoto, Return, shared,
         AtMost, BeyondFrom, Better, Ratcheting, StopFor, DistTicks
    <3>4. FireInv' BY <1>t, <2>2 DEF Gate, FireInv, shared, FirstTrigger
    <3>5. NoMissedBreach'
      BY <1>t, <2>2 DEF Gate, StopTypeOK, Calls, TickInv, NoMissedBreach, CallAt, CallGoto, Return,
         shared, Breached
    <3> QED BY <3>1, <3>2, <3>3, <3>4, <3>5 DEF StopInv
  <2>3. CASE ArmRace(h)
    <3>1. StopTypeOK'
      BY <1>t, <2>s, <2>3 DEF ArmRace, StopTypeOK, ArmInv, TickInv, FireInv, CallPoints, Calls, CallAt,
         CallGoto, Return, shared, FirstTrigger
    <3>2. ArmInv'
      BY <1>t, <2>s, <2>3 DEF ArmRace, StopTypeOK, Calls, ArmInv, CallAt, CallGoto, Return, shared, Arming
    <3>3. TickInv'
      BY <1>t, <2>s, <2>3 DEF ArmRace, StopTypeOK, Calls, ArmInv, TickInv, CallAt, CallGoto, Return,
         shared, AtMost, BeyondFrom, Better, Ratcheting, StopFor, DistTicks
    <3>4. FireInv' BY <1>t, <2>3 DEF ArmRace, FireInv, shared, FirstTrigger
    <3>5. NoMissedBreach'
      BY <1>t, <2>3 DEF ArmRace, StopTypeOK, Calls, TickInv, NoMissedBreach, CallAt, CallGoto, Return,
         shared, Breached
    <3> QED BY <3>1, <3>2, <3>3, <3>4, <3>5 DEF StopInv
  <2>4. CASE StoreBest(h)
    <3>1. StopTypeOK'
      BY <1>t, <2>s, <2>4 DEF StoreBest, StopTypeOK, ArmInv, TickInv, FireInv, CallPoints, Calls, CallAt,
         CallGoto, Return, shared, FirstTrigger
    <3>2. ArmInv'
      BY <1>t, <2>s, <2>4 DEF StoreBest, StopTypeOK, Calls, ArmInv, CallAt, CallGoto, Return, shared,
         Arming
    <3>3. TickInv'
      BY <1>t, <2>s, <2>4 DEF StoreBest, StopTypeOK, Calls, ArmInv, TickInv, CallAt, CallGoto, Return,
         shared, AtMost, BeyondFrom, Better, Ratcheting, StopFor, DistTicks
    <3>4. FireInv' BY <1>t, <2>4 DEF StoreBest, FireInv, shared, FirstTrigger
    <3>5. NoMissedBreach'
      BY <1>t, <2>4 DEF StoreBest, StopTypeOK, Calls, TickInv, NoMissedBreach, CallAt, CallGoto, Return,
         shared, Breached
    <3> QED BY <3>1, <3>2, <3>3, <3>4, <3>5 DEF StopInv
  <2>5. CASE StoreStop(h)
    <3>p. tick[h].price \in Int BY <1>t, <2>5 DEF StoreStop, CallAt, TickInv
    <3>q. StopFor(tick[h].price) \in Int /\ AtMost(StopFor(tick[h].price), tick[h].price)
      BY <2>s, <3>p
    <3>x. stop' \in Int BY <2>5, <3>q DEF StoreStop
    <3>y. tick' = [tick EXCEPT ![h].pc = "idle", ![h].out = "Armed"]
      BY <2>5 DEF StoreStop, Return
    <3>z. UNCHANGED <<it, best, armed, triggered, fires>> BY <2>5 DEF StoreStop
    <3>w. tick \in [Thread -> Calls] /\ tick[h] \in Calls BY <1>t DEF StopTypeOK
    <3>r. [tick[h] EXCEPT !.pc = "idle", !.out = "Armed"] \in Calls BY <3>w DEF CallPoints, Calls
    <3>o. tick' = [tick EXCEPT ![h] = [tick[h] EXCEPT !.pc = "idle", !.out = "Armed"]]
      BY <3>w, <3>y
    <3>v. tick' \in [Thread -> Calls] BY <3>w, <3>r, <3>o
    <3>1. StopTypeOK' BY <1>t, <3>x, <3>v, <3>z DEF StopTypeOK
    <3>2. ArmInv'
      BY <1>t, <2>s, <2>5, <3>p DEF StoreStop, StopTypeOK, Calls, ArmInv, CallAt, CallGoto, Return,
         shared, Arming
    <3>l. it.long \in BOOLEAN BY <1>t, TrailingStopAssumption DEF StopTypeOK, StopOf
    <3>a. AtMost(stop', best')
        BY <1>t, <2>5, <3>l, <3>p, <3>q DEF StoreStop, StopTypeOK, Calls, ArmInv, TickInv, CallAt,
           AtMost, Better, BestAsSeen, StopAsSeen
    <3>b. it' = it /\ \A j \in Thread : j # h => tick'[j] = tick[j]
      BY <1>t, <2>5 DEF StoreStop, StopTypeOK, Calls, CallGoto, Return
    <3>c. AtMost(tick[h].from, stop')
        BY <1>t, <2>5, <3>l, <3>p, <3>q DEF StoreStop, StopTypeOK, Calls, ArmInv, TickInv, CallAt,
           AtMost, Better, StopAsSeen
    <3>3. TickInv'
        BY <1>t, <2>5, <3>l, <3>p, <3>q, <3>a, <3>b, <3>c DEF StoreStop, StopTypeOK, Calls,
           ArmInv, TickInv, CallAt, CallGoto, Return, AtMost, BeyondFrom, Better, Ratcheting, StopFor,
           DistTicks, BestAsSeen, StopAsSeen
    <3>4. FireInv' BY <1>t, <2>5 DEF StoreStop, FireInv, shared, FirstTrigger
    <3>5. NoMissedBreach'
      BY <1>t, <2>5 DEF StoreStop, StopTypeOK, Calls, TickInv, NoMissedBreach, CallAt, CallGoto, Return,
         shared, Breached
    <3> QED BY <3>1, <3>2, <3>3, <3>4, <3>5 DEF StopInv
  <2>6. CASE LoadBest(h)
    <3>1. StopTypeOK'
      BY <1>t, <2>s, <2>6 DEF LoadBest, StopTypeOK, ArmInv, TickInv, FireInv, CallPoints, Calls, CallAt,
         CallGoto, Return, shared, FirstTrigger
    <3>2. ArmInv'
      BY <1>t, <2>s, <2>6 DEF LoadBest, StopTypeOK, Calls, ArmInv, CallAt, CallGoto, Return, shared,
         Arming
    <3>3. TickInv'
      BY <1>t, <2>s, <2>6 DEF LoadBest, StopTypeOK, Calls, ArmInv, TickInv, CallAt, CallGoto, Return,
         shared, AtMost, BeyondFrom, Better, Ratcheting, StopFor, DistTicks
    <3>4. FireInv' BY <1>t, <2>6 DEF LoadBest, FireInv, shared, FirstTrigger
    <3>5. NoMissedBreach'
      BY <1>t, <2>6 DEF LoadBest, StopTypeOK, Calls, TickInv, NoMissedBreach, CallAt, CallGoto, Return,
         shared, Breached
    <3> QED BY <3>1, <3>2, <3>3, <3>4, <3>5 DEF StopInv
  <2>7. CASE CasBest(h)
    <3>p. tick[h].price \in Int BY <1>t, <2>7 DEF CasBest, CallAt, TickInv
    <3>1. StopTypeOK'
      BY <1>t, <2>s, <2>7, <3>p DEF CasBest, StopTypeOK, ArmInv, TickInv, FireInv, CallPoints, Calls,
         CallAt, CallGoto, Return, shared, FirstTrigger
    <3>2. ArmInv'
      BY <1>t, <2>s, <2>7, <3>p DEF CasBest, StopTypeOK, Calls, ArmInv, CallAt, CallGoto, Return, shared,
         Arming
    <3>l. it.long \in BOOLEAN BY <1>t, TrailingStopAssumption DEF StopTypeOK, StopOf
    <3>a. AtMost(stop', best')
        BY <1>t, <2>7, <3>l, <3>p DEF CasBest, StopTypeOK, Calls, ArmInv, TickInv, CallAt, AtMost,
           Better, BestAsSeen, StopAsSeen
    <3>b. it' = it /\ \A j \in Thread : j # h => tick'[j] = tick[j]
      BY <1>t, <2>7 DEF CasBest, StopTypeOK, Calls, CallGoto, Return
    <3>c. AtMost(tick[h].from, stop')
        BY <1>t, <2>7, <3>l, <3>p DEF CasBest, StopTypeOK, Calls, ArmInv, TickInv, CallAt, AtMost,
           Better, StopAsSeen
    <3>3. TickInv'
        BY <1>t, <2>7, <3>l, <3>p, <3>a, <3>b, <3>c DEF CasBest, StopTypeOK, Calls, ArmInv,
           TickInv, CallAt, CallGoto, Return, AtMost, BeyondFrom, Better, Ratcheting, StopFor,
           DistTicks, BestAsSeen, StopAsSeen
    <3>4. FireInv' BY <1>t, <2>7 DEF CasBest, FireInv, shared, FirstTrigger
    <3>5. NoMissedBreach'
      BY <1>t, <2>7 DEF CasBest, StopTypeOK, Calls, TickInv, NoMissedBreach, CallAt, CallGoto, Return,
         shared, Breached
    <3> QED BY <3>1, <3>2, <3>3, <3>4, <3>5 DEF StopInv
  <2>8. CASE LoadStop(h)
    <3>1. StopTypeOK'
      BY <1>t, <2>s, <2>8 DEF LoadStop, StopTypeOK, ArmInv, TickInv, FireInv, CallPoints, Calls, CallAt,
         CallGoto, Return, shared, FirstTrigger
    <3>2. ArmInv'
      BY <1>t, <2>s, <2>8 DEF LoadStop, StopTypeOK, Calls, ArmInv, CallAt, CallGoto, Return, shared,
         Arming
    <3>3. TickInv'
      BY <1>t, <2>s, <2>8 DEF LoadStop, StopTypeOK, Calls, ArmInv, TickInv, CallAt, CallGoto, Return,
         shared, AtMost, BeyondFrom, Better, Ratcheting, StopFor, DistTicks
    <3>4. FireInv' BY <1>t, <2>8 DEF LoadStop, FireInv, shared, FirstTrigger
    <3>5. NoMissedBreach'
      BY <1>t, <2>8 DEF LoadStop, StopTypeOK, Calls, TickInv, NoMissedBreach, CallAt, CallGoto, Return,
         shared, Breached
    <3> QED BY <3>1, <3>2, <3>3, <3>4, <3>5 DEF StopInv
  <2>9. CASE CasStop(h)
    <3>p. tick[h].price \in Int BY <1>t, <2>9 DEF CasStop, CallAt, TickInv
    <3>q. StopFor(tick[h].price) \in Int /\ AtMost(StopFor(tick[h].price), tick[h].price)
      BY <2>s, <3>p
    <3>1. StopTypeOK'
      BY <1>t, <2>9, <3>q DEF CasStop, StopTypeOK, ArmInv, TickInv, FireInv, CallPoints, Calls, CallAt,
         CallGoto, Return, shared, FirstTrigger
    <3>2. ArmInv'
      BY <1>t, <2>s, <2>9, <3>p DEF CasStop, StopTypeOK, Calls, ArmInv, CallAt, CallGoto, Return, shared,
         Arming
    <3>l. it.long \in BOOLEAN BY <1>t, TrailingStopAssumption DEF StopTypeOK, StopOf
    <3>a. AtMost(stop', best')
        BY <1>t, <2>9, <3>l, <3>p, <3>q DEF CasStop, StopTypeOK, Calls, ArmInv, TickInv, CallAt,
           AtMost, Better, BestAsSeen, StopAsSeen
    <3>b. it' = it /\ \A j \in Thread : j # h => tick'[j] = tick[j]
      BY <1>t, <2>9 DEF CasStop, StopTypeOK, Calls, CallGoto, Return
    <3>c. AtMost(tick[h].from, stop')
        BY <1>t, <2>9, <3>l, <3>p, <3>q DEF CasStop, StopTypeOK, Calls, ArmInv, TickInv, CallAt,
           AtMost, Better, StopAsSeen
    <3>3. TickInv'
        BY <1>t, <2>9, <3>l, <3>p, <3>q, <3>a, <3>b, <3>c DEF CasStop, StopTypeOK, Calls, ArmInv,
           TickInv, CallAt, CallGoto, Return, AtMost, BeyondFrom, Better, Ratcheting, StopFor,
           DistTicks, BestAsSeen, StopAsSeen
    <3>4. FireInv' BY <1>t, <2>9 DEF CasStop, FireInv, shared, FirstTrigger
    <3>5. NoMissedBreach'
      BY <1>t, <2>9 DEF CasStop, StopTypeOK, Calls, TickInv, NoMissedBreach, CallAt, CallGoto, Return,
         shared, Breached
    <3> QED BY <3>1, <3>2, <3>3, <3>4, <3>5 DEF StopInv
  <2>10. CASE Breach(h)
    <3>1. StopTypeOK'
      BY <1>t, <2>s, <2>10 DEF Breach, OwnStop, StopTypeOK, ArmInv, TickInv, FireInv, CallPoints, Calls, CallAt,
         CallGoto, Return, shared, FirstTrigger
    <3>2. ArmInv'
      BY <1>t, <2>s, <2>10 DEF Breach, OwnStop, StopTypeOK, Calls, ArmInv, CallAt, CallGoto, Return, shared, Arming
    <3>3. TickInv'
      BY <1>t, <2>s, <2>10 DEF Breach, OwnStop, StopTypeOK, Calls, ArmInv, TickInv, CallAt, CallGoto, Return,
         shared, AtMost, BeyondFrom, Better, Ratcheting, StopFor, DistTicks
    <3>4. FireInv' BY <1>t, <2>10 DEF Breach, OwnStop, FireInv, shared, FirstTrigger
    <3>5. NoMissedBreach'
      BY <1>t, <2>10 DEF Breach, OwnStop, StopTypeOK, Calls, TickInv, NoMissedBreach, CallAt, CallGoto, Return,
         shared, Breached
    <3> QED BY <3>1, <3>2, <3>3, <3>4, <3>5 DEF StopInv
  <2>11. CASE TriggerRace(h)
    <3>1. StopTypeOK'
      BY <1>t, <2>s, <2>11 DEF TriggerRace, StopTypeOK, ArmInv, TickInv, FireInv, CallPoints, Calls,
         CallAt, CallGoto, Return, shared, FirstTrigger
    <3>2. ArmInv'
      BY <1>t, <2>s, <2>11 DEF TriggerRace, StopTypeOK, Calls, ArmInv, CallAt, CallGoto, Return, shared,
         Arming
    <3>3. TickInv'
      BY <1>t, <2>s, <2>11 DEF TriggerRace, StopTypeOK, Calls, ArmInv, TickInv, CallAt, CallGoto, Return,
         shared, AtMost, BeyondFrom, Better, Ratcheting, StopFor, DistTicks
    <3>4. FireInv' BY <1>t, <2>11 DEF TriggerRace, FireInv, shared, FirstTrigger
    <3>5. NoMissedBreach'
      BY <1>t, <2>11 DEF TriggerRace, StopTypeOK, Calls, TickInv, NoMissedBreach, CallAt, CallGoto,
         Return, shared, Breached
    <3> QED BY <3>1, <3>2, <3>3, <3>4, <3>5 DEF StopInv
  <2> QED BY <2>1, <2>2, <2>3, <2>4, <2>5, <2>6, <2>7, <2>8, <2>9, <2>10, <2>11
<1> QED BY <1>u, <1>n

LEMMA InitHasInv ==
  ASSUME StopInit
  PROVE  StopInv
<1> USE TrailingStopAssumption
<1>1. it \in StopOf BY DEF StopInit
<1>2. StopFor(it.entry) \in Int /\ AtMost(StopFor(it.entry), it.entry)
  BY <1>1, StopIsTick DEF StopInit, StopOf
<1>3. best \in Int \cup {UNSET} /\ stop \in Int \cup {UNSET} /\ AtMost(stop, best)
  BY <1>1, <1>2 DEF StopInit, StopOf, AtMost
<1>4. StopTypeOK
  <2>1. tick \in [Thread -> Calls] BY DEF StopInit, Calls, CallPoints, NoCall
  <2>2. it.immediate \in BOOLEAN BY <1>1 DEF StopOf
  <2>3. armed \in BOOLEAN /\ triggered \in BOOLEAN BY <2>2 DEF StopInit
  <2>4. it \in Stops /\ fires \in 0..1 BY DEF StopInit
  <2> QED BY <1>3, <2>1, <2>3, <2>4 DEF StopTypeOK
<1>5. ArmInv BY <1>1, <1>2 DEF StopInit, ArmInv, Arming, CallAt, NoCall, StopOf
<1>6. TickInv BY <1>3 DEF StopInit, TickInv, Ratcheting, AtMost, NoCall
<1>7. FireInv /\ NoMissedBreach BY DEF StopInit, FireInv, NoMissedBreach, Breached, NoCall
<1> QED BY <1>4, <1>5, <1>6, <1>7 DEF StopInv

(* The invariant of the lock-free code, for any number of threads. *)
LEMMA StopInvHolds ==
  ASSUME ~ArmDisturbed
  PROVE  StopSpec => []StopInv
<1>1. StopInit => StopInv BY InitHasInv
<1>2. StopInv /\ [StopNext]_stopVars => StopInv' BY StepKeepsInv
<1> QED BY <1>1, <1>2, PTL DEF StopSpec

(* Every call is told to sell at most once, however many threads print (on_price, the
   compare_exchange of triggered). *)
THEOREM StopTypeCorrect ==
  ASSUME ~ArmDisturbed
  PROVE  StopSpec => []StopTypeOK
<1>1. StopInv => StopTypeOK BY DEF StopInv
<1> QED BY <1>1, StopInvHolds, PTL

(* A print at or through the stop published when its call began is never answered with
   NoOp or Trailed (on_price, step 3). *)
THEOREM NoMissedBreachHolds ==
  ASSUME ~ArmDisturbed
  PROVE  StopSpec => []NoMissedBreach
<1>1. StopInv => NoMissedBreach BY DEF StopInv
<1> QED BY <1>1, StopInvHolds, PTL

-------------------------------------------------------------------------------
LEMMA StepRefines ==
  ASSUME StopInv, [StopNext]_stopVars
  PROVE  [Abstract!Next]_(Abstract!vars)
<1> USE TrailingStopAssumption DEF Abstract!vars
<1>t. StopTypeOK /\ ArmInv /\ TickInv /\ FireInv BY DEF StopInv
<1>l. it.long \in BOOLEAN BY <1>t, TrailingStopAssumption DEF StopTypeOK, StopOf
<1>u. CASE UNCHANGED stopVars BY <1>u DEF stopVars, shared
<1>n. CASE StopNext
  <2> PICK h \in Thread :
    \/ Call(h) \/ Gate(h) \/ ArmRace(h) \/ StoreBest(h) \/ StoreStop(h)
    \/ LoadBest(h) \/ CasBest(h) \/ LoadStop(h) \/ CasStop(h)
    \/ Breach(h) \/ TriggerRace(h)
    BY <1>n DEF StopNext
  <2>1. CASE Call(h) \/ Gate(h) \/ ArmRace(h) \/ StoreBest(h) \/ LoadBest(h) \/ CasBest(h)
             \/ LoadStop(h) \/ Breach(h)
    BY <2>1 DEF Call, Gate, ArmRace, StoreBest, LoadBest, CasBest, LoadStop, Breach, shared
  <2>2. CASE StoreStop(h)
    <3>1. stop = UNSET /\ tick[h].price \in Int BY <1>t, <2>2 DEF StoreStop, CallAt, ArmInv, TickInv
    <3>2. stop' \in Int BY <1>t, <2>2, <3>1, StopIsTick DEF StoreStop, StopTypeOK
    <3>3. UNCHANGED <<it.long, triggered, fires>> BY <2>2 DEF StoreStop
    <3> QED BY <3>1, <3>2, <3>3 DEF Abstract!Next, Abstract!Arm
  <2>3. CASE CasStop(h)
    <3>1. CASE UNCHANGED stop BY <2>3, <3>1 DEF CasStop
    <3>2. CASE StopAsSeen(h) /\ stop' = StopFor(tick[h].price)
      <4>1. tick[h].price \in Int /\ stop # UNSET /\ Better(StopFor(tick[h].price), stop)
        BY <1>t, <2>3, <3>2 DEF CasStop, CallAt, TickInv, StopAsSeen, Ratcheting
      <4>2. stop' \in Int BY <1>t, <3>2, <4>1, StopIsTick DEF StopTypeOK
      <4>3. UNCHANGED <<it.long, triggered, fires>> BY <2>3 DEF CasStop
      <4>4. Abstract!Better(stop', stop) BY <1>l, <3>2, <4>1 DEF Better, Abstract!Better
      <4> QED BY <4>1, <4>2, <4>3, <4>4 DEF Abstract!Next, Abstract!Trail
    <3> QED BY <2>3, <3>1, <3>2 DEF CasStop
  <2>4. CASE TriggerRace(h)
    <3>1. stop # UNSET BY <1>t, <2>4 DEF TriggerRace, CallAt, TickInv, Ratcheting
    <3>2. CASE triggered BY <2>4, <3>2 DEF TriggerRace, FirstTrigger
    <3>3. CASE ~triggered
      BY <2>4, <3>1, <3>3 DEF TriggerRace, FirstTrigger, Abstract!Next, Abstract!Trigger
    <3> QED BY <3>2, <3>3
  <2> QED BY <2>1, <2>2, <2>3, <2>4
<1> QED BY <1>u, <1>n

(* The lock-free on_price keeps what a trailing stop promises: published once, moved in
   favour of the position only, tripped once. *)
THEOREM RatchetImplemented ==
  ASSUME ~ArmDisturbed
  PROVE  StopSpec => RatchetSpec
<1>1. StopInit => Abstract!Init
  BY InitHasInv, TrailingStopAssumption DEF StopInv, StopTypeOK, StopOf, StopInit, Abstract!Init
<1>2. StopInv /\ [StopNext]_stopVars => [Abstract!Next]_(Abstract!vars) BY StepRefines
<1> QED BY <1>1, <1>2, StopInvHolds, PTL DEF StopSpec, RatchetSpec, Abstract!Spec
=============================================================================
