------------------------- MODULE AutoTradingProofs -------------------------
(* Proofs about AutoTrading for every set of tokens and every bound.  Whatever the
   faults, the ledger keeps its types, a token is never both reserved and held, and
   no more tokens are reserved than the capacity allows.  Without the faults that the
   ledger cannot bear, reserved and held tokens together stay within the capacity
   (BuyInv: each BUY claims its reservation at one stage), and so does what the
   exchange really has (ExposureInv: the ledger accounts for all of it).  Where no
   report is lost, doubled or ahead of its time, ledger and wallet balance up to the
   reports still to be booked (BalanceInv). *)
EXTENDS AutoTrading, FiniteSetTheorems, FunctionTheorems, TLAPS

Message == [type : {"BUY", "SELL", "CLOSED"}, token : Token, lots : Nat,
            order : OrderId \cup {<<0, 0>>}, sell : Nat]
Ack == [sell : Nat, token : Token, lots : Nat]

(* What the types rest on: a runner that was started has a token and POSTs left,
   and an order in the book belongs to a started runner. *)
RunnerInv ==
  /\ \A r \in Runner :
       /\ runner[r].pc # "off" => runner[r].token \in Token
       /\ runner[r].pc \in {"check", "post"} => runner[r].tries < Inner * Outer
  /\ \A o \in OrderId : live[o] > 0 => runner[o[1]].pc # "off"

MessageInv ==
  /\ wsq \in Seq(Message)
  /\ \A i \in 1..Len(wsq) : wsq[i].type = "CLOSED" => wsq[i].order \in OrderId
  /\ acks \subseteq Ack
  /\ sells \in Nat

TypeInv == TypeOK /\ RunnerInv /\ MessageInv
LedgerInv == ReservedOrHeld /\ InFlightWithinCapacity
IInv == TypeInv /\ LedgerInv

\* What every handler owes the ledger it leaves behind.
LedgerOK(l) ==
  /\ l.inf \subseteq Token
  /\ l.opn \in [Token -> Nat]
  /\ l.rst \in [OrderId -> Token \cup {NoToken}]
  /\ \A t \in l.inf : l.opn[t] = 0
  /\ Cardinality(l.inf) <= Cap

-------------------------------------------------------------------------------
(* Lemmas about the operators. *)

LEMMA CapType == Cap \in Nat \ {0}
  BY AutoTradingAssumption DEF Cap

\* A smaller set of reservations is within capacity when the larger one is.
LEMMA FewerReserved ==
  ASSUME NEW S \in SUBSET Token, NEW T \in SUBSET S, Cardinality(S) <= Cap
  PROVE  Cardinality(T) <= Cap
<1>1. IsFiniteSet(S)
  BY AutoTradingAssumption, FS_Subset
<1>2. Cardinality(S) \in Nat /\ Cardinality(T) \in Nat /\ Cardinality(T) <= Cardinality(S)
  BY <1>1, FS_Subset, FS_CardinalityType
<1> QED BY <1>2, CapType

\* The ledger as it is, and the empty one, are in order.
LEMMA UnchangedOK == IInv => LedgerOK(Unchanged)
  BY DEF IInv, TypeInv, TypeOK, LedgerInv, ReservedOrHeld, InFlightWithinCapacity, LedgerOK, Unchanged

LEMMA EmptyOK == LedgerOK(Empty)
<1>1. Cardinality({}) = 0
  BY FS_EmptySet
<1> QED BY <1>1, CapType DEF LedgerOK, Empty

\* Booking a BUY ends its reservation.
LEMMA BoughtOK ==
  ASSUME IInv, NEW t \in Token, NEW q \in Nat
  PROVE  LedgerOK(Bought(t, q))
<1> DEFINE l == Bought(t, q)
<1>1. /\ l.inf = in_flight \ {t}
      /\ l.opn = [open EXCEPT ![t] = @ + q]
      /\ l.rst = [o \in OrderId |-> IF resting[o] = t THEN NoToken ELSE resting[o]]
  BY DEF Bought
<1>2. /\ in_flight \subseteq Token /\ open \in [Token -> Nat]
      /\ resting \in [OrderId -> Token \cup {NoToken}]
      /\ \A s \in in_flight : open[s] = 0
      /\ Cardinality(in_flight) <= Cap
  BY DEF IInv, TypeInv, TypeOK, LedgerInv, ReservedOrHeld, InFlightWithinCapacity
<1>3. Cardinality(l.inf) <= Cap
  <2>1. in_flight \ {t} \in SUBSET in_flight
    OBVIOUS
  <2> QED BY <1>1, <1>2, <2>1, FewerReserved
<1>4. l.opn \in [Token -> Nat] /\ l.rst \in [OrderId -> Token \cup {NoToken}]
  BY <1>1, <1>2
<1>5. \A s \in l.inf : l.opn[s] = 0
  BY <1>1, <1>2
<1>6. l.inf \subseteq Token
  BY <1>1, <1>2
<1> QED BY <1>3, <1>4, <1>5, <1>6 DEF LedgerOK

\* Ending reservations, and remembering resting orders, leaves the ledger in order.
LEMMA ReleasedOK ==
  ASSUME IInv, NEW S \in SUBSET in_flight, NEW f \in [OrderId -> Token \cup {NoToken}]
  PROVE  LedgerOK([inf |-> S, opn |-> open, rst |-> f])
<1>1. /\ in_flight \subseteq Token /\ open \in [Token -> Nat]
      /\ \A s \in in_flight : open[s] = 0
      /\ Cardinality(in_flight) <= Cap
  BY DEF IInv, TypeInv, TypeOK, LedgerInv, ReservedOrHeld, InFlightWithinCapacity
<1>2. Cardinality(S) <= Cap
  BY <1>1, FewerReserved
<1> QED BY <1>1, <1>2 DEF LedgerOK

\* A SELL takes from what is held, never below nothing.
LEMMA SoldOK ==
  ASSUME IInv, NEW t \in Token, NEW q \in Nat
  PROVE  LedgerOK([Unchanged EXCEPT !.opn = Sold(t, q)])
<1> DEFINE l == [Unchanged EXCEPT !.opn = Sold(t, q)]
<1>1. l.inf = in_flight /\ l.opn = Sold(t, q) /\ l.rst = resting
  BY DEF Unchanged
<1>2. /\ in_flight \subseteq Token /\ open \in [Token -> Nat]
      /\ resting \in [OrderId -> Token \cup {NoToken}]
      /\ \A s \in in_flight : open[s] = 0
      /\ Cardinality(in_flight) <= Cap
  BY DEF IInv, TypeInv, TypeOK, LedgerInv, ReservedOrHeld, InFlightWithinCapacity
<1>3. Sold(t, q) \in [Token -> Nat] /\ \A s \in in_flight : Sold(t, q)[s] = 0
  BY <1>2 DEF Sold
<1> QED BY <1>1, <1>2, <1>3 DEF LedgerOK

\* AutoTradingBuyDone, an order's close and the user channel's reports.
LEMMA DoneOK ==
  ASSUME IInv, NEW m \in done
  PROVE  LedgerOK(DoneEffect(m))
<1>1. m \in [token : Token, order : OrderId, filled : Nat, error : BOOLEAN]
  BY DEF IInv, TypeInv, TypeOK
<1>2. CASE m.filled > 0
  BY <1>1, <1>2, BoughtOK DEF DoneEffect
<1>3. resting \in [OrderId -> Token \cup {NoToken}]
  BY DEF IInv, TypeInv, TypeOK
<1>4. CASE ~(m.filled > 0) /\ m.error
  <2>1. in_flight \ {m.token} \in SUBSET in_flight
    OBVIOUS
  <2> QED BY <1>3, <1>4, <2>1, ReleasedOK DEF DoneEffect
<1>5. CASE ~(m.filled > 0) /\ ~m.error
  <2>1. [resting EXCEPT ![m.order] = m.token] \in [OrderId -> Token \cup {NoToken}]
    BY <1>1, <1>3
  <2> QED BY <1>5, <2>1, ReleasedOK DEF DoneEffect
<1> QED BY <1>2, <1>4, <1>5

LEMMA ClosedOK ==
  ASSUME IInv, NEW o \in OrderId
  PROVE  LedgerOK(Closed(o))
<1>1. CASE resting[o] = NoToken
  BY <1>1, UnchangedOK DEF Closed, Unchanged
<1>2. CASE resting[o] # NoToken
  <2>1. [resting EXCEPT ![o] = NoToken] \in [OrderId -> Token \cup {NoToken}]
    BY DEF IInv, TypeInv, TypeOK
  <2>2. in_flight \ {resting[o]} \in SUBSET in_flight
    OBVIOUS
  <2> QED BY <1>2, <2>1, <2>2, ReleasedOK DEF Closed
<1> QED BY <1>1, <1>2

LEMMA ReportedOK ==
  ASSUME IInv, wsq # <<>>
  PROVE  LedgerOK(Reported(Head(wsq)))
<1> DEFINE m == Head(wsq)
<1>1. m \in Message /\ (m.type = "CLOSED" => m.order \in OrderId)
  BY DEF IInv, TypeInv, MessageInv
<1>2. CASE m.type = "BUY"
  BY <1>1, <1>2, BoughtOK DEF Message, Reported
<1>3. CASE m.type = "CLOSED"
  BY <1>1, <1>3, ClosedOK DEF Message, Reported
<1>4. CASE m.type = "SELL"
  BY <1>1, <1>4, SoldOK, UnchangedOK DEF Message, Reported
<1> QED BY <1>1, <1>2, <1>3, <1>4 DEF Message

-------------------------------------------------------------------------------
(* Publishing keeps the ledger in order: what Start adds was free, and there was
   room for it. *)

LEMMA PublishKeeps ==
  ASSUME NEW l, NEW m \in 0..MaxWindow, LedgerOK(l), Publish(l, m)
  PROVE  /\ market' \in 0..MaxWindow /\ signal' \in Token \cup {NoToken}
         /\ in_flight' \subseteq Token
         /\ open' \in [Token -> Nat]
         /\ resting' \in [OrderId -> Token \cup {NoToken}]
         /\ LedgerInv'
<1>1. /\ market' = m /\ open' = l.opn /\ resting' = l.rst
      /\ signal' \in Token \cup {NoToken}
  BY DEF Publish
<1>2. CASE in_flight' = l.inf
  BY <1>1, <1>2 DEF LedgerOK, LedgerInv, ReservedOrHeld, InFlightWithinCapacity
<1>3. CASE signal' # NoToken /\ Start(signal', l, m)
  <2> DEFINE t == signal'
  <2>1. t \in Token /\ in_flight' = l.inf \cup {t} /\ CanBuy(t, l.inf, l.opn)
    BY <1>1, <1>3 DEF Start
  <2>2. /\ t \notin l.inf /\ l.opn[t] = 0
        /\ Cardinality(Reserved(l.inf, l.opn)) < Cap
    BY <2>1 DEF CanBuy, ReservedCount
  <2>3. IsFiniteSet(Reserved(l.inf, l.opn)) /\ l.inf \in SUBSET Reserved(l.inf, l.opn)
    <3>1. Reserved(l.inf, l.opn) \in SUBSET Token
      BY DEF LedgerOK, Reserved
    <3> QED BY <3>1, AutoTradingAssumption, FS_Subset DEF Reserved
  <2>4. /\ IsFiniteSet(l.inf)
        /\ Cardinality(l.inf) \in Nat /\ Cardinality(Reserved(l.inf, l.opn)) \in Nat
        /\ Cardinality(l.inf) <= Cardinality(Reserved(l.inf, l.opn))
    BY <2>3, FS_Subset, FS_CardinalityType
  <2>5. Cardinality(in_flight') = Cardinality(l.inf) + 1
    BY <2>1, <2>2, <2>4, FS_AddElement
  <2>6. Cardinality(in_flight') <= Cap
    BY <2>2, <2>4, <2>5, CapType
  <2>7. \A s \in in_flight' : open'[s] = 0
    BY <1>1, <2>1, <2>2 DEF LedgerOK
  <2> QED
    BY <1>1, <2>1, <2>6, <2>7 DEF LedgerOK, LedgerInv, ReservedOrHeld, InFlightWithinCapacity, Cap
<1> QED BY <1>2, <1>3 DEF Publish

\* Starting a runner touches an unused one only.
LEMMA PublishRunner ==
  ASSUME TypeInv, NEW l, NEW m, Publish(l, m)
  PROVE  /\ runner' \in [Runner -> [pc : {"off", "check", "post", "stopped"},
                                    token : Token \cup {NoToken}, tries : Nat]]
         /\ \A r \in Runner :
              /\ runner'[r].pc # "off" => runner'[r].token \in Token
              /\ runner'[r].pc \in {"check", "post"} => runner'[r].tries < Inner * Outer
              /\ runner[r].pc # "off" => runner'[r].pc # "off"
<1>0. Inner * Outer \in Nat \ {0}
  BY AutoTradingAssumption
<1>1. CASE UNCHANGED runner
  BY <1>1 DEF TypeInv, TypeOK, RunnerInv
<1>2. CASE signal' # NoToken /\ Start(signal', l, m)
  <2>1. signal' \in Token
    BY <1>2 DEF Publish
  <2>2. runner' = [runner EXCEPT ![FirstUnused] = [pc |-> "check", token |-> signal', tries |-> 0]]
    BY <1>2 DEF Start
  <2> DEFINE started == [pc |-> "check", token |-> signal', tries |-> 0]
             State == [pc : {"off", "check", "post", "stopped"},
                       token : Token \cup {NoToken}, tries : Nat]
  <2>3. started \in State /\ started.token \in Token /\ started.tries < Inner * Outer
    BY <1>0, <2>1
  <2>4. runner \in [Runner -> State]
    BY DEF TypeInv, TypeOK
  <2>5. \A r \in Runner : runner'[r] = IF r = FirstUnused THEN started ELSE runner[r]
    BY <2>2, <2>4
  <2>6. runner' \in [Runner -> State]
    BY <2>2, <2>3, <2>4
  <2> HIDE DEF State
  <2>7. ASSUME NEW r \in Runner
        PROVE  /\ runner'[r].pc # "off" => runner'[r].token \in Token
               /\ runner'[r].pc \in {"check", "post"} => runner'[r].tries < Inner * Outer
               /\ runner[r].pc # "off" => runner'[r].pc # "off"
    <3>1. CASE r = FirstUnused
      BY <2>3, <2>5, <3>1
    <3>2. CASE r # FirstUnused
      BY <2>5, <3>2 DEF TypeInv, RunnerInv
    <3> QED BY <3>1, <3>2
  <2> QED BY <2>6, <2>7 DEF State
<1> QED BY <1>1, <1>2 DEF Publish

-------------------------------------------------------------------------------
(* The inductive invariant. *)

LEMMA InitIInv == Init => IInv
<1> SUFFICES ASSUME Init PROVE IInv
  OBVIOUS
<1>1. TypeOK
  BY AutoTradingAssumption DEF Init, TypeOK, Off
<1>2. RunnerInv /\ MessageInv
  BY DEF Init, RunnerInv, MessageInv, Off
<1>3. LedgerInv
  BY FS_EmptySet, CapType DEF Init, LedgerInv, ReservedOrHeld, InFlightWithinCapacity
<1> QED BY <1>1, <1>2, <1>3 DEF IInv, TypeInv

\* A handler keeps the invariant: it publishes a ledger in order and takes messages away.
LEMMA HandlerKeeps ==
  ASSUME IInv, NEW l, NEW m \in 0..MaxWindow, LedgerOK(l), Publish(l, m),
         window' \in 0..MaxWindow, done' \subseteq done, acks' \subseteq acks,
         wsq' \in Seq(Message),
         \A i \in 1..Len(wsq') : wsq'[i].type = "CLOSED" => wsq'[i].order \in OrderId,
         UNCHANGED exchange
  PROVE  IInv'
<1>1. TypeOK'
  BY PublishKeeps, PublishRunner DEF IInv, TypeInv, TypeOK, exchange
<1>2. RunnerInv'
  <2>1. ASSUME NEW o \in OrderId, live'[o] > 0 PROVE runner'[o[1]].pc # "off"
    <3>1. runner[o[1]].pc # "off" /\ o[1] \in Runner
      BY <2>1 DEF IInv, TypeInv, RunnerInv, exchange, OrderId
    <3> QED BY <3>1, PublishRunner DEF IInv
  <2> QED BY <2>1, PublishRunner DEF RunnerInv, IInv
<1>3. MessageInv'
  BY DEF IInv, TypeInv, MessageInv, exchange
<1> QED BY <1>1, <1>2, <1>3, PublishKeeps DEF IInv, TypeInv

LEMMA HandlersKeep ==
  ASSUME IInv,
         \/ Tick \/ StartTrading \/ UserChannel
         \/ \E w \in 1..MaxWindow : MarketRoll(w)
         \/ \E m \in done : AutoTradingBuyDone(m)
         \/ \E a \in acks : SellAck(a)
  PROVE  IInv'
<1>0. /\ market \in 0..MaxWindow /\ window \in 0..MaxWindow /\ MaxWindow \in Nat
      /\ wsq \in Seq(Message) /\ acks \subseteq Ack
      /\ \A i \in 1..Len(wsq) : wsq[i].type = "CLOSED" => wsq[i].order \in OrderId
  BY AutoTradingAssumption DEF IInv, TypeInv, TypeOK, MessageInv
<1>1. CASE Tick
  BY <1>0, <1>1, UnchangedOK, HandlerKeeps DEF Tick
<1>2. CASE StartTrading
  BY <1>0, <1>2, UnchangedOK, HandlerKeeps DEF StartTrading
<1>3. CASE UserChannel
  <2>1. /\ wsq # <<>> /\ wsq' = Tail(wsq)
        /\ Publish(Reported(Head(wsq)), market)
        /\ UNCHANGED <<window, done, exchange, acks>>
    BY <1>3 DEF UserChannel
  <2>2. /\ Tail(wsq) \in Seq(Message)
        /\ \A i \in 1..Len(Tail(wsq)) :
             Tail(wsq)[i].type = "CLOSED" => Tail(wsq)[i].order \in OrderId
    BY <1>0, <2>1
  <2> QED BY <1>0, <2>1, <2>2, ReportedOK, HandlerKeeps
<1>4. ASSUME NEW w \in 1..MaxWindow, MarketRoll(w) PROVE IInv'
  <2>1. w \in 0..MaxWindow
    BY <1>0
  <2> QED BY <1>0, <1>4, <2>1, EmptyOK, HandlerKeeps DEF MarketRoll
<1>5. ASSUME NEW m \in done, AutoTradingBuyDone(m) PROVE IInv'
  BY <1>0, <1>5, DoneOK, HandlerKeeps DEF AutoTradingBuyDone
<1>6. ASSUME NEW a \in acks, SellAck(a) PROVE IInv'
  <2>1. a.token \in Token /\ a.lots \in Nat
    BY <1>0 DEF Ack
  <2> QED BY <1>0, <1>6, <2>1, SoldOK, HandlerKeeps DEF SellAck
<1> QED BY <1>1, <1>2, <1>3, <1>4, <1>5, <1>6

RunnerState == [pc : {"off", "check", "post", "stopped"},
                token : Token \cup {NoToken}, tries : Nat]
DoneEvent == [token : Token, order : OrderId, filled : Nat, error : BOOLEAN]

\* What a runner's step may do: go on, or stop, with its token and its count of POSTs,
\* report, and put an order of its own in the book.
RunnerStep(r, s) ==
  /\ runner' = [runner EXCEPT ![r] = s]
  /\ s \in RunnerState /\ s.pc # "off" /\ s.token = runner[r].token
  /\ s.pc \in {"check", "post"} => s.tries < Inner * Outer
  /\ done' \subseteq done \cup DoneEvent
  /\ live' \in [OrderId -> Nat] /\ held' \in [Token -> Nat]
  /\ \A o \in OrderId : live'[o] > 0 => live[o] > 0 \/ o[1] = r
  /\ UNCHANGED <<market, window, signal, ledger, sells, acks, wsq>>

LEMMA RunnerStepKeeps ==
  ASSUME IInv, NEW r \in Runner, runner[r].token \in Token, NEW s, RunnerStep(r, s)
  PROVE  IInv'
<1>1. runner \in [Runner -> RunnerState]
  BY DEF IInv, TypeInv, TypeOK, RunnerState
<1>2. \A x \in Runner : runner'[x] = IF x = r THEN s ELSE runner[x]
  BY <1>1 DEF RunnerStep
<1>3. runner' \in [Runner -> RunnerState]
  BY <1>1 DEF RunnerStep
<1>4. TypeOK'
  BY <1>3 DEF IInv, TypeInv, TypeOK, RunnerStep, ledger, RunnerState, DoneEvent
<1>5. RunnerInv'
  <2>1. ASSUME NEW x \in Runner
        PROVE  /\ runner'[x].pc # "off" => runner'[x].token \in Token
               /\ runner'[x].pc \in {"check", "post"} => runner'[x].tries < Inner * Outer
               /\ runner[x].pc # "off" => runner'[x].pc # "off"
    <3>1. CASE x = r
      BY <1>2, <3>1 DEF RunnerStep
    <3>2. CASE x # r
      BY <1>2, <3>2 DEF IInv, TypeInv, RunnerInv
    <3> QED BY <3>1, <3>2
  <2>2. ASSUME NEW o \in OrderId, live'[o] > 0 PROVE runner'[o[1]].pc # "off"
    <3>1. o[1] \in Runner
      BY DEF OrderId
    <3>2. CASE o[1] = r
      BY <1>2, <3>1, <3>2 DEF RunnerStep
    <3>3. CASE o[1] # r
      BY <2>1, <2>2, <3>1, <3>3 DEF RunnerStep, IInv, TypeInv, RunnerInv
    <3> QED BY <3>2, <3>3
  <2> QED BY <2>1, <2>2 DEF RunnerInv
<1>6. MessageInv' /\ LedgerInv'
  BY DEF IInv, TypeInv, MessageInv, LedgerInv, ReservedOrHeld, InFlightWithinCapacity,
         RunnerStep, ledger
<1> QED BY <1>4, <1>5, <1>6 DEF IInv, TypeInv

\* Every action of a runner is such a step.
LEMMA RunnersKeep ==
  ASSUME IInv, NEW r \in Runner, Check(r) \/ Rejected(r) \/ Accepted(r) \/ Unheard(r)
  PROVE  IInv'
<1> DEFINE P == Inner * Outer
           old == runner[r]
           n == old.tries + 1
           stop == [old EXCEPT !.pc = "stopped"]
<1>0. P \in Nat \ {0} /\ LotsPerOrder \in Nat
  BY AutoTradingAssumption
<1>1. /\ runner \in [Runner -> RunnerState] /\ old \in RunnerState
      /\ old.pc \in {"check", "post"} /\ old.token \in Token /\ old.tries < P
  <2>1. old.pc \in {"check", "post"}
    BY DEF Check, Rejected, Accepted, Unheard, Accept
  <2> QED BY <2>1 DEF IInv, TypeInv, TypeOK, RunnerInv, RunnerState
<1>2. /\ old.tries \in Nat /\ n \in 1..P
      /\ <<r, 1>> \in OrderId /\ <<r, n>> \in OrderId
  BY <1>0, <1>1 DEF OrderId, RunnerState
<1>3. /\ live \in [OrderId -> Nat] /\ held \in [Token -> Nat]
  BY DEF IInv, TypeInv, TypeOK
<1>4. stop \in RunnerState /\ stop.pc = "stopped" /\ stop.token = old.token
  BY <1>1 DEF RunnerState
<1>5. ASSUME Stop(r) PROVE runner' = [runner EXCEPT ![r] = stop]
  BY <1>5 DEF Stop
<1>6. ASSUME NEW o \in OrderId, NEW q \in Nat, NEW b \in BOOLEAN, Report(old.token, o, q, b)
      PROVE  done' \subseteq done \cup DoneEvent
  BY <1>1, <1>6 DEF Report, DoneEvent
<1>7. ASSUME Retry(r)
      PROVE  \E s \in RunnerState :
               /\ runner' = [runner EXCEPT ![r] = s]
               /\ s.pc # "off" /\ s.token = old.token
               /\ s.pc \in {"check", "post"} => s.tries < P
               /\ done' \subseteq done \cup DoneEvent
  <2>1. CASE n = P
    <3>1. Stop(r) /\ Report(old.token, <<r, 1>>, 0, TRUE)
      BY <1>7, <2>1 DEF Retry
    <3>2. runner' = [runner EXCEPT ![r] = stop] /\ done' \subseteq done \cup DoneEvent
      BY <1>2, <1>5, <1>6, <3>1
    <3> QED BY <1>4, <3>2
  <2>2. CASE n # P
    <3> DEFINE pc == IF n % Inner = 0 THEN "check" ELSE "post"
               next == [old EXCEPT !.tries = n, !.pc = pc]
    <3>1. runner' = [runner EXCEPT ![r] = next] /\ UNCHANGED done
      BY <1>1, <1>7, <2>2 DEF Retry
    <3>1a. pc \in {"check", "post"}
      OBVIOUS
    <3> HIDE DEF pc
    <3>2. /\ next \in RunnerState /\ next.pc # "off" /\ next.token = old.token
          /\ next.tries = n
      <4>1. n \in Nat
        BY <1>2 DEF RunnerState
      <4> HIDE DEF n
      <4>2. old \in RunnerState
        BY <1>1
      <4> QED BY <1>1, <3>1a, <4>1, <4>2 DEF RunnerState
    <3>3. n < P
      BY <1>0, <1>2, <2>2
    <3> QED BY <3>1, <3>2, <3>3
  <2> QED BY <2>1, <2>2
<1>8. ASSUME NEW q \in 0..LotsPerOrder, Accept(r, q)
      PROVE  /\ live' \in [OrderId -> Nat] /\ held' \in [Token -> Nat]
             /\ \A o \in OrderId : live'[o] > 0 => live[o] > 0 \/ o[1] = r
             /\ UNCHANGED sells
  <2>1. /\ live' = [live EXCEPT ![<<r, n>>] = LotsPerOrder - q]
        /\ held' = [held EXCEPT ![old.token] = @ + q]
        /\ UNCHANGED sells
    BY <1>8 DEF Accept
  <2>2. LotsPerOrder - q \in Nat /\ q \in Nat
    BY <1>0
  <2>3. live' \in [OrderId -> Nat] /\ held' \in [Token -> Nat]
    <3>1. \A f \in [OrderId -> Nat], k \in Nat : [f EXCEPT ![<<r, n>>] = k] \in [OrderId -> Nat]
      OBVIOUS
    <3>2. \A f \in [Token -> Nat], t \in Token : [f EXCEPT ![t] = @ + q] \in [Token -> Nat]
      BY <2>2
    <3> QED BY <1>1, <1>3, <2>1, <2>2, <3>1, <3>2
  <2>4. ASSUME NEW o \in OrderId, o # <<r, n>> PROVE live'[o] = live[o]
    BY <1>3, <2>1, <2>4
  <2> QED BY <2>1, <2>3, <2>4
<1>9. CASE Check(r)
  <2>1. CASE signal = old.token
    <3> DEFINE next == [old EXCEPT !.pc = "post"]
    <3>1. /\ runner' = [runner EXCEPT ![r] = next] /\ UNCHANGED done
          /\ UNCHANGED <<market, window, signal, ledger, exchange, acks, wsq>>
      BY <1>9, <2>1 DEF Check
    <3>2. next \in RunnerState /\ next.pc = "post" /\ next.token = old.token /\ next.tries = old.tries
      BY <1>1 DEF RunnerState
    <3>3. RunnerStep(r, next)
      BY <1>1, <1>3, <3>1, <3>2 DEF RunnerStep, exchange
    <3> QED BY <1>1, <3>3, RunnerStepKeeps
  <2>2. CASE signal # old.token
    <3>1. /\ Stop(r) /\ Report(old.token, <<r, 1>>, 0, TRUE)
          /\ UNCHANGED <<market, window, signal, ledger, exchange, acks, wsq>>
      BY <1>9, <2>2 DEF Check
    <3>2. RunnerStep(r, stop)
      BY <1>1, <1>2, <1>3, <1>4, <1>5, <1>6, <3>1 DEF RunnerStep, exchange
    <3> QED BY <1>1, <3>2, RunnerStepKeeps
  <2> QED BY <2>1, <2>2
<1>10. CASE Rejected(r)
  <2>1. Retry(r) /\ UNCHANGED <<market, window, signal, ledger, exchange, acks, wsq>>
    BY <1>10 DEF Rejected
  <2>2. \E s \in RunnerState : RunnerStep(r, s)
    BY <1>1, <1>3, <1>7, <2>1 DEF RunnerStep, exchange
  <2> QED BY <1>1, <2>2, RunnerStepKeeps
<1>11. CASE Accepted(r)
  <2>1. PICK q \in 0..LotsPerOrder :
          Accept(r, q) /\ Report(old.token, <<r, n>>, q, FALSE)
    BY <1>11 DEF Accepted
  <2>2. Stop(r) /\ UNCHANGED <<market, window, signal, ledger, acks, wsq>>
    BY <1>11 DEF Accepted
  <2>3. q \in Nat
    BY <1>0
  <2>4. RunnerStep(r, stop)
    BY <1>1, <1>2, <1>4, <1>5, <1>6, <1>8, <2>1, <2>2, <2>3 DEF RunnerStep
  <2> QED BY <1>1, <2>4, RunnerStepKeeps
<1>12. CASE Unheard(r)
  <2>1. PICK q \in 0..LotsPerOrder : Accept(r, q)
    BY <1>12 DEF Unheard
  <2>2. Retry(r) /\ UNCHANGED <<market, window, signal, ledger, acks, wsq>>
    BY <1>12 DEF Unheard
  <2>3. \E s \in RunnerState : RunnerStep(r, s)
    BY <1>1, <1>7, <1>8, <2>1, <2>2 DEF RunnerStep
  <2> QED BY <1>1, <2>3, RunnerStepKeeps
<1> QED BY <1>9, <1>10, <1>11, <1>12

\* The exchange moves lots and reports them; the ledger does not see it yet.
LEMMA ExchangeKeeps ==
  ASSUME IInv,
         \/ \E o \in OrderId : MakerFill(o) \/ Close(o)
         \/ \E t \in Token : ManualFill(t) \/ \E q \in Lots, taker \in BOOLEAN : SellLots(t, q, taker)
         \/ LoseReport
  PROVE  IInv'
<1>0. /\ live \in [OrderId -> Nat] /\ held \in [Token -> Nat]
      /\ wsq \in Seq(Message) /\ acks \subseteq Ack /\ sells \in Nat
      /\ \A i \in 1..Len(wsq) : wsq[i].type = "CLOSED" => wsq[i].order \in OrderId
      /\ \A o \in OrderId : live[o] > 0 => TokenOf(o) \in Token
      /\ LotsPerOrder \in Nat
  <2>1. ASSUME NEW o \in OrderId, live[o] > 0 PROVE TokenOf(o) \in Token
    BY <2>1 DEF IInv, TypeInv, RunnerInv, TokenOf, OrderId
  <2> QED BY <2>1, AutoTradingAssumption DEF IInv, TypeInv, TypeOK, MessageInv
<1>1. ASSUME NEW m \in Message, m.type = "CLOSED" => m.order \in OrderId, Tell(m)
      PROVE  /\ wsq' \in Seq(Message)
             /\ \A i \in 1..Len(wsq') : wsq'[i].type = "CLOSED" => wsq'[i].order \in OrderId
  <2>1. wsq' = Append(wsq, m)
    BY <1>1 DEF Tell
  <2> QED BY <1>0, <1>1, <2>1
<1>2. ASSUME live' \in [OrderId -> Nat], held' \in [Token -> Nat],
             \A o \in OrderId : live'[o] > 0 => live[o] > 0,
             wsq' \in Seq(Message), acks' \subseteq Ack, sells' \in Nat,
             \A i \in 1..Len(wsq') : wsq'[i].type = "CLOSED" => wsq'[i].order \in OrderId,
             UNCHANGED <<market, window, signal, ledger, runner, done>>
      PROVE  IInv'
  BY <1>2 DEF IInv, TypeInv, TypeOK, RunnerInv, MessageInv, LedgerInv, ReservedOrHeld,
              InFlightWithinCapacity, ledger
<1>3. ASSUME NEW o \in OrderId, MakerFill(o) PROVE IInv'
  <2>1. PICK q \in 1..live[o] :
          /\ live' = [live EXCEPT ![o] = @ - q]
          /\ held' = [held EXCEPT ![TokenOf(o)] = @ + q]
          /\ Tell([type |-> "BUY", token |-> TokenOf(o), lots |-> q, order |-> o, sell |-> 0])
    BY <1>3 DEF MakerFill
  <2>2. live[o] > 0 /\ q \in Nat /\ live[o] - q \in Nat /\ TokenOf(o) \in Token
    BY <1>0, <2>1
  <2>3. /\ live' \in [OrderId -> Nat] /\ held' \in [Token -> Nat]
        /\ \A x \in OrderId : live'[x] > 0 => live[x] > 0
    BY <1>0, <2>1, <2>2
  <2>4. [type |-> "BUY", token |-> TokenOf(o), lots |-> q, order |-> o, sell |-> 0] \in Message
    BY <2>2 DEF Message
  <2>5. /\ wsq' \in Seq(Message)
        /\ \A i \in 1..Len(wsq') : wsq'[i].type = "CLOSED" => wsq'[i].order \in OrderId
    BY <1>1, <2>1, <2>4
  <2> QED BY <1>0, <1>2, <1>3, <2>3, <2>5 DEF MakerFill
<1>4. ASSUME NEW o \in OrderId, Close(o) PROVE IInv'
  <2>1. /\ live[o] > 0 /\ live' = [live EXCEPT ![o] = 0] /\ UNCHANGED held
        /\ Tell([type |-> "CLOSED", token |-> TokenOf(o), lots |-> 0, order |-> o, sell |-> 0])
    BY <1>4 DEF Close
  <2>2. [type |-> "CLOSED", token |-> TokenOf(o), lots |-> 0, order |-> o, sell |-> 0] \in Message
    BY <1>0, <2>1 DEF Message
  <2>3. /\ wsq' \in Seq(Message)
        /\ \A i \in 1..Len(wsq') : wsq'[i].type = "CLOSED" => wsq'[i].order \in OrderId
    BY <1>1, <2>1, <2>2
  <2>4. /\ live' \in [OrderId -> Nat]
        /\ \A x \in OrderId : live'[x] > 0 => live[x] > 0
    BY <1>0, <2>1
  <2> QED BY <1>0, <1>2, <1>4, <2>1, <2>3, <2>4 DEF Close
<1>5. ASSUME NEW t \in Token, ManualFill(t) PROVE IInv'
  <2>1. /\ held' = [held EXCEPT ![t] = @ + LotsPerOrder]
        /\ Tell([type |-> "BUY", token |-> t, lots |-> LotsPerOrder, order |-> <<0, 0>>, sell |-> 0])
    BY <1>5 DEF ManualFill
  <2>2. [type |-> "BUY", token |-> t, lots |-> LotsPerOrder, order |-> <<0, 0>>, sell |-> 0] \in Message
    BY <1>0 DEF Message
  <2>3. /\ wsq' \in Seq(Message)
        /\ \A i \in 1..Len(wsq') : wsq'[i].type = "CLOSED" => wsq'[i].order \in OrderId
    BY <1>1, <2>1, <2>2
  <2>4. held' \in [Token -> Nat]
    BY <1>0, <2>1
  <2> QED BY <1>0, <1>2, <1>5, <2>3, <2>4 DEF ManualFill
<1>6. ASSUME NEW t \in Token, NEW q \in Lots, NEW taker \in BOOLEAN, SellLots(t, q, taker)
      PROVE  IInv'
  <2>0. q \in Nat
    BY DEF Lots
  <2>1. /\ q <= held[t] /\ sells' = sells + 1
        /\ held' = [held EXCEPT ![t] = @ - q]
        /\ acks' = IF taker THEN acks \cup {[sell |-> sells', token |-> t, lots |-> q]} ELSE acks
        /\ Tell([type |-> "SELL", token |-> t, lots |-> q, order |-> <<0, 0>>, sell |-> sells'])
    BY <1>6 DEF SellLots
  <2>2. sells' \in Nat /\ held' \in [Token -> Nat]
    BY <1>0, <2>0, <2>1
  <2>3. acks' \subseteq Ack
    BY <1>0, <2>0, <2>1, <2>2 DEF Ack
  <2>4. [type |-> "SELL", token |-> t, lots |-> q, order |-> <<0, 0>>, sell |-> sells'] \in Message
    BY <2>0, <2>2 DEF Message
  <2>5. /\ wsq' \in Seq(Message)
        /\ \A i \in 1..Len(wsq') : wsq'[i].type = "CLOSED" => wsq'[i].order \in OrderId
    BY <1>1, <2>1, <2>4
  <2> QED BY <1>0, <1>2, <1>6, <2>2, <2>3, <2>5 DEF SellLots
<1>7. CASE LoseReport
  <2>1. wsq # <<>> /\ wsq' = Tail(wsq)
    BY <1>7 DEF LoseReport
  <2>2. /\ wsq' \in Seq(Message)
        /\ \A i \in 1..Len(wsq') : wsq'[i].type = "CLOSED" => wsq'[i].order \in OrderId
    BY <1>0, <2>1
  <2> QED BY <1>0, <1>2, <1>7, <2>2 DEF LoseReport, exchange
<1> QED BY <1>3, <1>4, <1>5, <1>6, <1>7

LEMMA IInvNext == IInv /\ [Next]_vars => IInv'
<1> SUFFICES ASSUME IInv, [Next]_vars PROVE IInv'
  OBVIOUS
<1>1. CASE UNCHANGED vars
  BY <1>1 DEF vars, ledger, exchange, IInv, TypeInv, TypeOK, RunnerInv, MessageInv, LedgerInv,
              ReservedOrHeld, InFlightWithinCapacity
<1>2. CASE Next
  BY <1>2, HandlersKeep, RunnersKeep, ExchangeKeeps DEF Next
<1> QED BY <1>1, <1>2

-------------------------------------------------------------------------------
(* One BUY of a token at a time.  Without partial fills, lost responses, manual BUYs
   and windows that roll over reports, the BUY of a runner is at one stage at a time:
   it is being posted, or a report of it that ends the reservation is on its way, or its
   order rests, or the user channel has a report of it.  Each of these claims the
   reservation of its token, and nobody else does. *)

Calm == Only({"sell_ws_first", "sell_early", "close_first", "ws_outage"})

Posts(r)      == runner[r].pc \in {"check", "post"}
Answers(r, m) == m \in done /\ m.order[1] = r
Rests(r, o)   == o \in OrderId /\ live[o] > 0 /\ o[1] = r
OfOrder(m)    == m.type \in {"BUY", "CLOSED"}
Tells(r, i)   == i \in 1..Len(wsq) /\ OfOrder(wsq[i]) /\ wsq[i].order[1] = r
Final(m)      == m.filled > 0 \/ m.error

\* The reports name the runner's token, and fills are whole orders.
Labelled ==
  /\ \A m \in done : m.token = TokenOf(m.order) /\ m.filled \in {0, LotsPerOrder}
                     /\ (m.error => m.filled = 0)
  /\ \A i \in 1..Len(wsq) : OfOrder(wsq[i]) =>
       /\ wsq[i].order \in OrderId /\ wsq[i].token = TokenOf(wsq[i].order)
       /\ wsq[i].type = "BUY" => wsq[i].lots = LotsPerOrder
  /\ \A o \in OrderId : resting[o] \in {NoToken, TokenOf(o)}
  /\ \A o \in OrderId : live[o] \in {0, LotsPerOrder}

\* A runner that was not started, or still posts, has nothing out.
Early == \A r \in Runner : runner[r].pc # "stopped" =>
  /\ \A m : ~Answers(r, m)
  /\ \A o : ~Rests(r, o)
  /\ \A i : ~Tells(r, i)
  /\ \A o \in OrderId : o[1] = r => resting[o] = NoToken

Late ==
  /\ \A r \in Runner : \A m, n : Answers(r, m) /\ Answers(r, n) => m = n
  /\ \A r \in Runner : \A m, o : Answers(r, m) /\ Final(m) => ~Rests(r, o)
  /\ \A r \in Runner : \A m, i : Answers(r, m) /\ Final(m) => ~Tells(r, i)
  /\ \A r \in Runner : \A o, p : Rests(r, o) /\ Rests(r, p) => o = p
  /\ \A r \in Runner : \A o, i : Rests(r, o) => ~Tells(r, i)
  /\ \A r \in Runner : \A i, j : Tells(r, i) /\ Tells(r, j) => i = j

Claims(r) ==
  \/ Posts(r)
  \/ \E m : Answers(r, m) /\ Final(m)
  \/ \E o : Rests(r, o)
  \/ \E i : Tells(r, i)

Claimed ==
  /\ \A r \in Runner : Claims(r) => runner[r].token \in in_flight
  /\ \A r, s \in Runner : Claims(r) /\ Claims(s) /\ runner[r].token = runner[s].token => r = s

BuyInv == Calm => Labelled /\ Early /\ Late /\ Claimed /\ ReservedCount(in_flight, open) <= Cap

\* Of the numbers in a set one is the least.
LEMMA LeastNatural ==
  ASSUME NEW T \in SUBSET Nat, T # {}
  PROVE  \E x \in T : \A y \in T : x <= y
<1> DEFINE R == OpToRel(<, Nat)
<1>1. IsWellFoundedOn(R, Nat)
  BY NatLessThanWellFounded
<1>2. \A x, y \in Nat : x < y => <<x, y>> \in R
  BY DEF OpToRel
<1> HIDE DEF R
<1>3. PICK x \in T : \A y \in T : ~(<<y, x>> \in R)
  BY <1>1, WFMin
<1>4. \A y \in T : ~(y < x)
  BY <1>2, <1>3
<1> QED BY <1>3, <1>4

\* A handler starts at most one runner, which had not run, for a token that was free.
LEMMA PublishStarts ==
  ASSUME TypeInv, NEW l, NEW m, Publish(l, m)
  PROVE  /\ \A r \in Runner : \/ runner'[r] = runner[r]
                              \/ /\ runner[r] = Off /\ runner'[r].pc = "check"
                                 /\ runner'[r].token = signal' /\ signal' \notin l.inf
                                 /\ in_flight' = l.inf \cup {signal'}
                                 /\ signal' \in Token /\ WindowOf[signal'] = m
                                 /\ l.opn[signal'] = 0
         /\ \A r, s \in Runner : runner'[r] # runner[r] /\ runner'[s] # runner[s] => r = s
         /\ l.inf \subseteq in_flight'
<1>1. CASE in_flight' = l.inf /\ UNCHANGED runner
  BY <1>1
<1>2. CASE signal' # NoToken /\ Start(signal', l, m)
  <2> DEFINE started == [pc |-> "check", token |-> signal', tries |-> 0]
  <2>1. /\ signal' \notin l.inf /\ in_flight' = l.inf \cup {signal'} /\ Unused # {}
        /\ runner' = [runner EXCEPT ![FirstUnused] = started]
        /\ signal' \in Token /\ WindowOf[signal'] = m /\ l.opn[signal'] = 0
    BY <1>2 DEF Publish, Start, CanBuy
  <2>2. FirstUnused \in Unused
    <3>1. Unused \in SUBSET Nat
      BY DEF Unused, Runner
    <3>2. \E r \in Unused : \A x \in Unused : r <= x
      BY <2>1, <3>1, LeastNatural
    <3> QED BY <3>2 DEF FirstUnused
  <2>3. FirstUnused \in Runner /\ runner[FirstUnused] = Off
    BY <2>2 DEF Unused
  <2>4. \A r \in Runner : runner'[r] = IF r = FirstUnused THEN started ELSE runner[r]
    BY <2>1 DEF TypeInv, TypeOK
  <2> QED BY <2>1, <2>3, <2>4
<1> QED BY <1>1, <1>2 DEF Publish

-------------------------------------------------------------------------------
(* Taking a report away, and starting runners, leaves each BUY at one stage. *)

\* The messages of this step: k reports of the user channel are gone, none is new.
Taken(k) ==
  /\ k \in {0, 1}
  /\ done' \subseteq done
  /\ Len(wsq') = Len(wsq) - k
  /\ \A i \in 1..Len(wsq') : wsq'[i] = wsq[i + k]

\* What a runner still claims when those messages are gone.
Remains(r) ==
  \/ Posts(r)
  \/ \E m : Answers(r, m) /\ m \in done' /\ Final(m)
  \/ \E o : Rests(r, o)
  \/ \E i : Tells(r, i)'

LEMMA TakenMessages ==
  ASSUME IInv, IInv', NEW k, Taken(k), UNCHANGED live
  PROVE  /\ \A r, m : Answers(r, m)' => Answers(r, m) /\ m \in done'
         /\ \A r, o : Rests(r, o)' <=> Rests(r, o)
         /\ \A r, i : Tells(r, i)' => i \in Nat /\ Tells(r, i + k) /\ wsq'[i] = wsq[i + k]
<1>1. Len(wsq) \in Nat /\ Len(wsq') \in Nat
  BY DEF IInv, TypeInv, MessageInv
<1>2. ASSUME NEW i \in 1..Len(wsq')
      PROVE  i \in Nat /\ i + k \in 1..Len(wsq) /\ wsq'[i] = wsq[i + k]
  BY <1>1 DEF Taken
<1>3. ASSUME NEW r, NEW i, Tells(r, i)'
      PROVE  i \in Nat /\ Tells(r, i + k) /\ wsq'[i] = wsq[i + k]
  BY <1>2, <1>3 DEF Tells
<1>4. \A r, m : Answers(r, m)' => Answers(r, m) /\ m \in done'
  BY DEF Answers, Taken
<1>5. \A r, o : Rests(r, o)' <=> Rests(r, o)
  BY DEF Rests
<1> QED BY <1>3, <1>4, <1>5

LEMMA TakenClaims ==
  ASSUME IInv, IInv', NEW k, Taken(k), UNCHANGED live,
         \A r \in Runner : runner'[r] = runner[r] \/ (runner[r] = Off /\ runner'[r].pc = "check")
  PROVE  \A r \in Runner : Claims(r)' =>
           Remains(r) \/ (runner[r] = Off /\ runner'[r].pc = "check")
<1>1. ASSUME NEW r \in Runner, Claims(r)'
      PROVE  Remains(r) \/ (runner[r] = Off /\ runner'[r].pc = "check")
  <2>1. CASE Posts(r)'
    BY <2>1 DEF Posts, Remains
  <2>2. CASE ~Posts(r)'
    BY <1>1, <2>2, TakenMessages DEF Claims, Remains
  <2> QED BY <2>1, <2>2
<1> QED BY <1>1

LEMMA TakenKeepsStages ==
  ASSUME IInv, IInv', Labelled, Early, Late, NEW k, Taken(k), UNCHANGED live,
         \A r \in Runner : runner'[r] = runner[r] \/ (runner[r] = Off /\ runner'[r].pc = "check"),
         \A o \in OrderId : resting'[o] # NoToken =>
           resting'[o] = TokenOf(o) /\ runner[o[1]].pc = "stopped"
  PROVE  /\ Labelled' /\ Early' /\ Late'
         /\ \A r \in Runner : Claims(r)' =>
              Remains(r) \/ (runner[r] = Off /\ runner'[r].pc = "check")
<1>1. /\ \A r, m : Answers(r, m)' => Answers(r, m) /\ m \in done'
      /\ \A r, o : Rests(r, o)' <=> Rests(r, o)
      /\ \A r, i : Tells(r, i)' => i \in Nat /\ Tells(r, i + k) /\ wsq'[i] = wsq[i + k]
  BY TakenMessages
<1>2. \A r \in Runner : runner'[r].pc # "stopped" => runner[r].pc # "stopped"
  BY DEF Off
<1>2a. k \in Nat
  BY DEF Taken
<1>3. ASSUME NEW r \in Runner, runner[r].pc = "stopped" PROVE runner'[r] = runner[r]
  BY <1>3 DEF Off
<1>4. Early'
  <2>1. ASSUME NEW r \in Runner, runner'[r].pc # "stopped"
        PROVE  /\ \A m : ~Answers(r, m)'
               /\ \A o : ~Rests(r, o)'
               /\ \A i : ~Tells(r, i)'
               /\ \A o \in OrderId : o[1] = r => resting'[o] = NoToken
    BY <1>1, <1>2, <2>1 DEF Early
  <2> QED BY <2>1 DEF Early
<1>5. Late'
  <2>1. ASSUME NEW r \in Runner
        PROVE  \A i, j : Tells(r, i)' /\ Tells(r, j)' => i = j
    <3>1. ASSUME NEW i, NEW j, Tells(r, i)', Tells(r, j)' PROVE i = j
      <4>1. i \in Nat /\ j \in Nat /\ Tells(r, i + k) /\ Tells(r, j + k)
        BY <1>1, <3>1
      <4>2. i + k = j + k
        BY <4>1 DEF Late
      <4> QED BY <1>2a, <4>1, <4>2
    <3> QED BY <3>1
  <2> QED BY <1>1, <2>1 DEF Late
<1>6. Labelled'
  <2>1. \A m \in done' : m \in done /\ m.order \in OrderId /\ m.order[1] \in Runner /\ Answers(m.order[1], m)
    BY DEF Taken, IInv, TypeInv, TypeOK, OrderId, Answers
  <2>2. \A m \in done' : runner[m.order[1]].pc = "stopped"
    BY <2>1 DEF Early
  <2>3. \A m \in done' : TokenOf(m.order)' = TokenOf(m.order)
    BY <1>3, <2>1, <2>2 DEF TokenOf
  <2>4. \A m \in done' : m.token = TokenOf(m.order)' /\ m.filled \in {0, LotsPerOrder}
                         /\ (m.error => m.filled = 0)
    BY <2>1, <2>3 DEF Labelled
  <2>5. ASSUME NEW i \in 1..Len(wsq'), OfOrder(wsq'[i])
        PROVE  /\ wsq'[i].order \in OrderId /\ wsq'[i].token = runner'[wsq'[i].order[1]].token
               /\ wsq'[i].type = "BUY" => wsq'[i].lots = LotsPerOrder
    <3>1. PICK r : r = wsq'[i].order[1]
      OBVIOUS
    <3>2. Tells(r, i)'
      BY <2>5, <3>1 DEF Tells, OfOrder
    <3>3. Tells(r, i + k) /\ wsq'[i] = wsq[i + k]
      BY <1>1, <3>2
    <3>4. /\ wsq'[i].order \in OrderId /\ wsq'[i].token = runner[r].token
          /\ wsq'[i].type = "BUY" => wsq'[i].lots = LotsPerOrder
      BY <3>1, <3>3 DEF Tells, Labelled, TokenOf
    <3>5. r \in Runner
      BY <3>1, <3>4 DEF OrderId
    <3>6. runner'[r] = runner[r]
      BY <1>3, <3>3, <3>5 DEF Early
    <3> QED BY <3>1, <3>4, <3>6
  <2>6. \A o \in OrderId : resting'[o] \in {NoToken, TokenOf(o)'}
    BY <1>3 DEF OrderId, TokenOf
  <2>7. \A o \in OrderId : live'[o] \in {0, LotsPerOrder}
    BY DEF Labelled
  <2> QED BY <2>4, <2>5, <2>6, <2>7 DEF Labelled, TokenOf, OfOrder
<1> QED BY <1>4, <1>5, <1>6, TakenClaims

-------------------------------------------------------------------------------
(* Handlers: what still claims a token finds it reserved, and the capacity is kept. *)

LEMMA ReservedFinite ==
  ASSUME NEW l, LedgerOK(l)
  PROVE  IsFiniteSet(Reserved(l.inf, l.opn)) /\ Cardinality(Reserved(l.inf, l.opn)) \in Nat
<1>1. Reserved(l.inf, l.opn) \in SUBSET Token
  BY DEF LedgerOK, Reserved
<1> QED BY <1>1, AutoTradingAssumption, FS_Subset, FS_CardinalityType

\* A ledger that reserves and holds no other tokens is within capacity too.
LEMMA ShrinksWithin ==
  ASSUME IInv, ReservedCount(in_flight, open) <= Cap, NEW l, LedgerOK(l),
         Reserved(l.inf, l.opn) \subseteq Reserved(in_flight, open)
  PROVE  ReservedCount(l.inf, l.opn) <= Cap
<1>1. Reserved(in_flight, open) \in SUBSET Token
  BY DEF IInv, TypeInv, TypeOK, Reserved
<1> QED BY <1>1, FewerReserved DEF ReservedCount

LEMMA PublishWithin ==
  ASSUME NEW l, LedgerOK(l), ReservedCount(l.inf, l.opn) <= Cap, NEW m, Publish(l, m)
  PROVE  ReservedCount(in_flight', open') <= Cap
<1>1. open' = l.opn
  BY DEF Publish
<1>2. CASE in_flight' = l.inf
  BY <1>1, <1>2
<1>3. CASE Start(signal', l, m)
  <2>1. in_flight' = l.inf \cup {signal'} /\ Cardinality(Reserved(l.inf, l.opn)) < Cap
    BY <1>3 DEF Start, CanBuy, ReservedCount
  <2>2. Reserved(in_flight', open') = Reserved(l.inf, l.opn) \cup {signal'}
    BY <1>1, <2>1 DEF Reserved
  <2>3. IsFiniteSet(Reserved(l.inf, l.opn)) /\ Cardinality(Reserved(l.inf, l.opn)) \in Nat
    BY ReservedFinite
  <2> HIDE DEF Cap
  <2>4. \/ Cardinality(Reserved(in_flight', open')) = Cardinality(Reserved(l.inf, l.opn))
        \/ Cardinality(Reserved(in_flight', open')) = Cardinality(Reserved(l.inf, l.opn)) + 1
    BY <2>2, <2>3, FS_AddElement
  <2> QED BY <2>1, <2>3, <2>4, CapType DEF ReservedCount
<1> QED BY <1>2, <1>3 DEF Publish

LEMMA HandlerKeepsBuys ==
  ASSUME IInv, IInv', Calm, BuyInv, NEW k, Taken(k), UNCHANGED <<scenario, live>>,
         NEW l, NEW m, LedgerOK(l), Publish(l, m),
         \A o \in OrderId : l.rst[o] # NoToken =>
           l.rst[o] = TokenOf(o) /\ runner[o[1]].pc = "stopped",
         ReservedCount(l.inf, l.opn) <= Cap,
         \A r \in Runner : Remains(r) => runner[r].token \in l.inf
  PROVE  BuyInv'
<1>1. Labelled /\ Early /\ Late /\ Claimed
  BY DEF BuyInv
<1>2. /\ \A r \in Runner : \/ runner'[r] = runner[r]
                           \/ /\ runner[r] = Off /\ runner'[r].pc = "check"
                              /\ runner'[r].token = signal' /\ signal' \notin l.inf
                              /\ in_flight' = l.inf \cup {signal'}
      /\ \A r, s \in Runner : runner'[r] # runner[r] /\ runner'[s] # runner[s] => r = s
      /\ l.inf \subseteq in_flight'
  BY PublishStarts DEF IInv
<1>3. resting' = l.rst
  BY DEF Publish
<1>4. /\ Labelled' /\ Early' /\ Late'
      /\ \A r \in Runner : Claims(r)' =>
           Remains(r) \/ (runner[r] = Off /\ runner'[r].pc = "check")
  BY <1>1, <1>2, <1>3, TakenKeepsStages
<1>5. \A r \in Runner : Remains(r) => Claims(r)
  BY TakenMessages DEF Remains, Claims
<1>6. Off.pc = "off"
  BY DEF Off
<1>7. \A r \in Runner : Claims(r)' /\ runner'[r] = runner[r] => Remains(r)
  BY <1>4, <1>6
<1>8. Claimed'
  <2>1. ASSUME NEW r \in Runner, Claims(r)' PROVE runner'[r].token \in in_flight'
    BY <1>2, <1>7, <2>1
  <2>2. ASSUME NEW r \in Runner, NEW s \in Runner, Claims(r)', Claims(s)',
               runner'[r].token = runner'[s].token
        PROVE  r = s
    <3>1. CASE runner'[r] = runner[r] /\ runner'[s] = runner[s]
      BY <1>1, <1>5, <1>7, <2>2, <3>1 DEF Claimed
    <3>2. CASE runner'[r] = runner[r] /\ runner'[s] # runner[s]
      BY <1>2, <1>7, <2>2, <3>2
    <3>3. CASE runner'[r] # runner[r] /\ runner'[s] = runner[s]
      BY <1>2, <1>7, <2>2, <3>3
    <3>4. CASE runner'[r] # runner[r] /\ runner'[s] # runner[s]
      BY <1>2, <3>4
    <3> QED BY <3>1, <3>2, <3>3, <3>4
  <2> QED BY <2>1, <2>2 DEF Claimed
<1>9. ReservedCount(in_flight', open') <= Cap
  BY PublishWithin
<1> QED BY <1>4, <1>8, <1>9 DEF BuyInv, ReservedCount, Reserved

\* No message is taken.
LEMMA NothingTaken ==
  ASSUME IInv, UNCHANGED <<done, wsq, live>>
  PROVE  Taken(0) /\ \A r : Remains(r) => Claims(r)
<1>1. Taken(0)
  <2>1. wsq \in Seq(Message) /\ Len(wsq) \in Nat
    BY DEF IInv, TypeInv, MessageInv
  <2> QED BY <2>1 DEF Taken
<1>2. \A r, i : Tells(r, i)' => Tells(r, i)
  BY DEF Tells, OfOrder
<1> QED BY <1>1, <1>2 DEF Remains, Claims

\* A report that ends a BUY is the last its runner claims anything by.
LEMMA LastAnswer ==
  ASSUME IInv, IInv', Early, Late, NEW r \in Runner, NEW m, Answers(r, m), Final(m),
         done' = done \ {m}, UNCHANGED <<wsq, live>>
  PROVE  ~Remains(r)
<1>1. ~Posts(r)
  BY DEF Early, Posts
<1>2. \A i : ~Tells(r, i)'
  <2>1. \A i : Tells(r, i)' => Tells(r, i)
    BY DEF Tells, OfOrder
  <2> QED BY <2>1 DEF Late
<1>3. \A n : Answers(r, n) /\ n \in done' => FALSE
  BY DEF Late
<1> QED BY <1>1, <1>2, <1>3 DEF Remains, Late

LEMMA HeadTaken ==
  ASSUME IInv, wsq # <<>>, wsq' = Tail(wsq), done' \subseteq done
  PROVE  Taken(1)
<1>1. wsq \in Seq(Message)
  BY DEF IInv, TypeInv, MessageInv
<1> QED BY <1>1 DEF Taken

LEMMA LastReport ==
  ASSUME IInv, IInv', Early, Late, NEW r \in Runner, wsq # <<>>, Tells(r, 1),
         wsq' = Tail(wsq), UNCHANGED <<done, live>>
  PROVE  ~Remains(r)
<1>1. ~Posts(r)
  BY DEF Early, Posts
<1>2. \A i : Tells(r, i)' => i \in 1..Len(wsq') /\ i \in Nat /\ Tells(r, i + 1)
  BY HeadTaken, TakenMessages DEF Tells
<1>3. \A i : ~Tells(r, i)'
  <2>1. ASSUME NEW i, Tells(r, i)' PROVE FALSE
    <3>1. i \in 1..Len(wsq') /\ Len(wsq') \in Nat /\ i + 1 = 1
      BY <1>2, <2>1 DEF Late, IInv, TypeInv, MessageInv
    <3> QED BY <3>1
  <2> QED BY <2>1
<1> QED BY <1>1, <1>3 DEF Remains, Late

\* A runner that claims another runner's token does not exist, so booking or releasing
\* the token takes it from nobody else.
LEMMA ReleasedClaims ==
  ASSUME IInv, Claimed, NEW r \in Runner, Claims(r), ~Remains(r),
         \A s \in Runner : Remains(s) => Claims(s)
  PROVE  \A s \in Runner : Remains(s) => runner[s].token \in in_flight \ {runner[r].token}
BY DEF Claimed

\* Every entry of a resting order names its runner's token; the runner has stopped.
LEMMA RestingLabels ==
  ASSUME IInv, Labelled, Early
  PROVE  \A o \in OrderId : resting[o] # NoToken =>
           resting[o] = TokenOf(o) /\ runner[o[1]].pc = "stopped"
BY DEF Labelled, Early, OrderId

LEMMA SoldReserves ==
  ASSUME IInv, NEW t \in Token, NEW q \in Nat
  PROVE  Reserved(in_flight, Sold(t, q)) \subseteq Reserved(in_flight, open)
<1>1. open \in [Token -> Nat]
  BY DEF IInv, TypeInv, TypeOK
<1>2. ASSUME NEW s \in Token, Sold(t, q)[s] > 0 PROVE open[s] > 0
  BY <1>1, <1>2 DEF Sold
<1> QED BY <1>2 DEF Reserved

LEMMA BoughtReserves ==
  ASSUME IInv, NEW t \in in_flight, NEW q \in Nat
  PROVE  Reserved(Bought(t, q).inf, Bought(t, q).opn) \subseteq Reserved(in_flight, open)
<1>1. open \in [Token -> Nat] /\ in_flight \subseteq Token
  BY DEF IInv, TypeInv, TypeOK
<1>2. ASSUME NEW s \in Token, s # t, Bought(t, q).opn[s] > 0 PROVE open[s] > 0
  BY <1>1, <1>2 DEF Bought
<1> QED BY <1>2 DEF Reserved, Bought

LEMMA BoughtLabels ==
  ASSUME IInv, Labelled, Early, NEW t, NEW q
  PROVE  \A o \in OrderId : Bought(t, q).rst[o] # NoToken =>
           Bought(t, q).rst[o] = TokenOf(o) /\ runner[o[1]].pc = "stopped"
BY RestingLabels DEF Bought

LEMMA DoneKeepsBuys ==
  ASSUME IInv, IInv', Calm, BuyInv, NEW m \in done, AutoTradingBuyDone(m)
  PROVE  BuyInv'
<1> DEFINE r == m.order[1]
           l == DoneEffect(m)
<1>1. /\ Labelled /\ Early /\ Late /\ Claimed /\ ReservedCount(in_flight, open) <= Cap
      /\ done' = done \ {m} /\ UNCHANGED <<scenario, wsq, live>> /\ Publish(l, market)
  BY DEF BuyInv, AutoTradingBuyDone, exchange
<1>2. /\ m \in DoneEvent /\ r \in Runner /\ m.order \in OrderId
      /\ Answers(r, m) /\ m.token = runner[r].token /\ runner[r].pc = "stopped"
  <2>1. m \in DoneEvent
    BY DEF IInv, TypeInv, TypeOK, DoneEvent
  <2>2. m.order \in OrderId /\ r \in Runner
    BY <2>1 DEF DoneEvent, OrderId
  <2> QED BY <1>1, <2>1, <2>2 DEF Answers, Labelled, TokenOf, Early
<1>3. LedgerOK(l)
  BY DoneOK
<1>4. Taken(0)
  <2>1. wsq \in Seq(Message) /\ Len(wsq) \in Nat
    BY DEF IInv, TypeInv, MessageInv
  <2> QED BY <1>1, <2>1 DEF Taken
<1>5. \A s : Remains(s) => Claims(s)
  <2>1. \A s, i : Tells(s, i)' => Tells(s, i)
    BY <1>1 DEF Tells, OfOrder
  <2> QED BY <2>1 DEF Remains, Claims
<1>6. CASE Final(m)
  <2>1. ~Remains(r) /\ Claims(r)
    BY <1>1, <1>2, <1>6, LastAnswer DEF Claims
  <2>2. \A s \in Runner : Remains(s) => runner[s].token \in in_flight \ {m.token}
    BY <1>1, <1>2, <1>5, <2>1, ReleasedClaims
  <2>3. m.token \in in_flight
    BY <1>1, <1>2, <2>1 DEF Claimed
  <2>4. CASE m.filled > 0
    <3>1. l = Bought(m.token, m.filled) /\ m.filled \in Nat
      BY <1>2, <2>4 DEF DoneEffect, DoneEvent
    <3>2. l.inf = in_flight \ {m.token}
      BY <3>1 DEF Bought
    <3>3. ReservedCount(l.inf, l.opn) <= Cap
      BY <1>1, <1>3, <2>3, <3>1, BoughtReserves, ShrinksWithin
    <3>4. \A o \in OrderId : l.rst[o] # NoToken =>
            l.rst[o] = TokenOf(o) /\ runner[o[1]].pc = "stopped"
      BY <1>1, <3>1, BoughtLabels
    <3> HIDE DEF l, r
    <3> QED BY <1>1, <1>3, <1>4, <2>2, <3>2, <3>3, <3>4, HandlerKeepsBuys
  <2>5. CASE ~(m.filled > 0)
    <3>1. l = [inf |-> in_flight \ {m.token}, opn |-> open, rst |-> resting]
      BY <1>6, <2>5 DEF DoneEffect, Final
    <3>2. Reserved(l.inf, l.opn) \subseteq Reserved(in_flight, open)
      BY <3>1 DEF Reserved
    <3>3. ReservedCount(l.inf, l.opn) <= Cap
      BY <1>1, <1>3, <3>2, ShrinksWithin
    <3>4. \A o \in OrderId : l.rst[o] # NoToken =>
            l.rst[o] = TokenOf(o) /\ runner[o[1]].pc = "stopped"
      BY <1>1, <3>1, RestingLabels
    <3>5. l.inf = in_flight \ {m.token}
      BY <3>1
    <3> HIDE DEF l, r
    <3> QED BY <1>1, <1>3, <1>4, <2>2, <3>3, <3>4, <3>5, HandlerKeepsBuys
  <2> QED BY <2>4, <2>5
<1>7. CASE ~Final(m)
  <2>1. l = [inf |-> in_flight, opn |-> open, rst |-> [resting EXCEPT ![m.order] = m.token]]
    BY <1>7 DEF DoneEffect, Final
  <2>2. resting \in [OrderId -> Token \cup {NoToken}]
    BY DEF IInv, TypeInv, TypeOK
  <2>3. \A o \in OrderId : l.rst[o] # NoToken =>
          l.rst[o] = TokenOf(o) /\ runner[o[1]].pc = "stopped"
    <3>1. TokenOf(m.order) = m.token
      BY <1>2 DEF TokenOf
    <3>2. \A o \in OrderId : l.rst[o] = IF o = m.order THEN m.token ELSE resting[o]
      BY <2>1, <2>2
    <3> QED BY <1>1, <1>2, <3>1, <3>2, RestingLabels
  <2>4. l.inf = in_flight /\ l.opn = open
    BY <2>1
  <2>5. \A s \in Runner : Remains(s) => runner[s].token \in l.inf
    BY <1>1, <1>5, <2>4 DEF Claimed
  <2>6. ReservedCount(l.inf, l.opn) <= Cap
    BY <1>1, <2>4
  <2> HIDE DEF l, r
  <2> QED BY <1>1, <1>3, <1>4, <2>3, <2>5, <2>6, HandlerKeepsBuys
<1> QED BY <1>6, <1>7

LEMMA ChannelKeepsBuys ==
  ASSUME IInv, IInv', Calm, BuyInv, UserChannel
  PROVE  BuyInv'
<1> DEFINE m == Head(wsq)
           r == m.order[1]
           l == Reported(m)
<1>1. /\ Labelled /\ Early /\ Late /\ Claimed /\ ReservedCount(in_flight, open) <= Cap
      /\ wsq # <<>> /\ wsq' = Tail(wsq) /\ UNCHANGED <<scenario, done, live>>
      /\ Publish(l, market)
  BY DEF BuyInv, UserChannel, exchange
<1>2. /\ m \in Message /\ m = wsq[1] /\ 1 \in 1..Len(wsq)
  BY <1>1 DEF IInv, TypeInv, MessageInv
<1>3. LedgerOK(l)
  BY <1>1, ReportedOK
<1>4. Taken(1)
  BY <1>1, HeadTaken
<1>5. \A s : Remains(s) => Claims(s)
  BY <1>1, <1>4, TakenMessages DEF Remains, Claims
<1>6. CASE OfOrder(m)
  <2>1. /\ m.order \in OrderId /\ r \in Runner /\ m.token = runner[r].token
        /\ Tells(r, 1) /\ runner[r].pc = "stopped"
    <3>1. m.order \in OrderId /\ m.token = TokenOf(m.order)
      BY <1>1, <1>2, <1>6 DEF Labelled
    <3>2. r \in Runner
      BY <3>1 DEF OrderId
    <3>3. Tells(r, 1)
      BY <1>2, <1>6 DEF Tells
    <3> QED BY <1>1, <3>1, <3>2, <3>3 DEF TokenOf, Early
  <2>2. ~Remains(r) /\ Claims(r)
    BY <1>1, <2>1, LastReport DEF Claims
  <2>3. \A s \in Runner : Remains(s) => runner[s].token \in in_flight \ {m.token}
    BY <1>1, <1>5, <2>1, <2>2, ReleasedClaims
  <2>4. m.token \in in_flight
    BY <1>1, <2>1, <2>2 DEF Claimed
  <2>5. CASE m.type = "BUY"
    <3>1. l = Bought(m.token, m.lots) /\ m.lots \in Nat
      BY <1>2, <2>5 DEF Reported, Message
    <3>2. l.inf = in_flight \ {m.token}
      BY <3>1 DEF Bought
    <3>3. ReservedCount(l.inf, l.opn) <= Cap
      BY <1>1, <1>3, <2>4, <3>1, BoughtReserves, ShrinksWithin
    <3>4. \A o \in OrderId : l.rst[o] # NoToken =>
            l.rst[o] = TokenOf(o) /\ runner[o[1]].pc = "stopped"
      BY <1>1, <3>1, BoughtLabels
    <3> HIDE DEF l, r, m
    <3> QED BY <1>1, <1>3, <1>4, <2>3, <3>2, <3>3, <3>4, HandlerKeepsBuys
  <2>6. CASE m.type = "CLOSED"
    <3>1. l = Closed(m.order)
      BY <2>6 DEF Reported
    <3>2. resting \in [OrderId -> Token \cup {NoToken}]
      BY DEF IInv, TypeInv, TypeOK
    <3>3. /\ in_flight \ {m.token} \subseteq l.inf /\ l.inf \subseteq in_flight /\ l.opn = open
          /\ \A o \in OrderId : l.rst[o] \in {NoToken, resting[o]}
      <4>1. CASE resting[m.order] = NoToken
        BY <3>1, <4>1 DEF Closed
      <4>2. CASE resting[m.order] # NoToken
        <5>1. resting[m.order] = m.token
          BY <1>1, <2>1, <4>2, RestingLabels DEF TokenOf
        <5> QED BY <3>1, <3>2, <4>2, <5>1 DEF Closed
      <4> QED BY <4>1, <4>2
    <3>4. Reserved(l.inf, l.opn) \subseteq Reserved(in_flight, open)
      BY <3>3 DEF Reserved
    <3>5. ReservedCount(l.inf, l.opn) <= Cap
      BY <1>1, <1>3, <3>4, ShrinksWithin
    <3>6. \A o \in OrderId : l.rst[o] # NoToken =>
            l.rst[o] = TokenOf(o) /\ runner[o[1]].pc = "stopped"
      BY <1>1, <3>3, RestingLabels
    <3>7. \A s \in Runner : Remains(s) => runner[s].token \in l.inf
      BY <2>3, <3>3
    <3> HIDE DEF l, r, m
    <3> QED BY <1>1, <1>3, <1>4, <3>5, <3>6, <3>7, HandlerKeepsBuys
  <2> QED BY <1>6, <2>5, <2>6 DEF OfOrder
<1>7. CASE ~OfOrder(m)
  <2>1. m.type = "SELL" /\ m.token \in Token /\ m.lots \in Nat
    BY <1>2, <1>7 DEF OfOrder, Message
  <2>2. l = Unchanged \/ l = [Unchanged EXCEPT !.opn = Sold(m.token, m.lots)]
    BY <2>1 DEF Reported
  <2>3. /\ l.inf = in_flight /\ l.rst = resting
        /\ l.opn = open \/ l.opn = Sold(m.token, m.lots)
    BY <2>2 DEF Unchanged
  <2>4. Reserved(l.inf, l.opn) \subseteq Reserved(in_flight, open)
    BY <2>1, <2>3, SoldReserves
  <2>5. ReservedCount(l.inf, l.opn) <= Cap
    BY <1>1, <1>3, <2>4, ShrinksWithin
  <2>6. \A o \in OrderId : l.rst[o] # NoToken =>
          l.rst[o] = TokenOf(o) /\ runner[o[1]].pc = "stopped"
    BY <1>1, <2>3, RestingLabels
  <2>7. \A s \in Runner : Remains(s) => runner[s].token \in l.inf
    BY <1>1, <1>5, <2>3 DEF Claimed
  <2> HIDE DEF l, r, m
  <2> QED BY <1>1, <1>3, <1>4, <2>5, <2>6, <2>7, HandlerKeepsBuys
<1> QED BY <1>6, <1>7

\* The other handlers: only a roll, when nothing is under way, gives reservations up.
LEMMA HandlersKeepBuys ==
  ASSUME IInv, IInv', Calm, BuyInv,
         \/ Tick \/ StartTrading \/ UserChannel
         \/ \E w \in 1..MaxWindow : MarketRoll(w)
         \/ \E m \in done : AutoTradingBuyDone(m)
         \/ \E a \in acks : SellAck(a)
  PROVE  BuyInv'
<1>1. Labelled /\ Early /\ Late /\ Claimed /\ ReservedCount(in_flight, open) <= Cap
  BY DEF BuyInv
<1>2. ASSUME NEW l, NEW m, LedgerOK(l), Publish(l, m), l.inf = in_flight, l.rst = resting,
             Reserved(l.inf, l.opn) \subseteq Reserved(in_flight, open),
             UNCHANGED <<scenario, done, wsq, live>>
      PROVE  BuyInv'
  <2>1. Taken(0) /\ \A r : Remains(r) => Claims(r)
    BY <1>2, NothingTaken
  <2>2. ReservedCount(l.inf, l.opn) <= Cap
    BY <1>1, <1>2, ShrinksWithin
  <2>3. \A o \in OrderId : l.rst[o] # NoToken =>
          l.rst[o] = TokenOf(o) /\ runner[o[1]].pc = "stopped"
    BY <1>1, <1>2, RestingLabels
  <2>4. \A r \in Runner : Remains(r) => runner[r].token \in l.inf
    BY <1>1, <1>2, <2>1 DEF Claimed
  <2> QED BY <1>2, <2>1, <2>2, <2>3, <2>4, HandlerKeepsBuys
<1>3. CASE Tick
  BY <1>2, <1>3, UnchangedOK DEF Tick, Unchanged, exchange
<1>4. CASE StartTrading
  BY <1>2, <1>4, UnchangedOK DEF StartTrading, Unchanged, exchange
<1>5. ASSUME NEW w \in 1..MaxWindow, MarketRoll(w) PROVE BuyInv'
  <2>1. /\ Quiet /\ Publish(Empty, w) /\ UNCHANGED <<scenario, done, wsq, live>>
    BY <1>5 DEF MarketRoll, Calm, Only, exchange
  <2>2. Taken(0)
    BY <2>1, NothingTaken
  <2>3. \A r \in Runner : ~Remains(r)
    <3>1. done = {} /\ wsq = <<>> /\ ~Running /\ \A o \in OrderId : live[o] = 0
      BY <2>1 DEF Quiet, Reports
    <3>2. \A r, i : ~Tells(r, i)'
      BY <2>1, <3>1 DEF Tells
    <3> QED BY <3>1, <3>2 DEF Remains, Posts, Answers, Rests, Running
  <2>4. ReservedCount(Empty.inf, Empty.opn) <= Cap
    <3>1. Reserved(Empty.inf, Empty.opn) = {}
      BY DEF Reserved, Empty
    <3> QED BY <3>1, FS_EmptySet, CapType DEF ReservedCount
  <2>5. \A o \in OrderId : Empty.rst[o] = NoToken
    BY DEF Empty
  <2> QED BY <2>1, <2>2, <2>3, <2>4, <2>5, EmptyOK, HandlerKeepsBuys
<1>6. ASSUME NEW a \in acks, SellAck(a) PROVE BuyInv'
  <2>1. a.token \in Token /\ a.lots \in Nat
    BY DEF IInv, TypeInv, MessageInv, Ack
  <2> DEFINE l == [Unchanged EXCEPT !.opn = Sold(a.token, a.lots)]
  <2>2. l.inf = in_flight /\ l.rst = resting /\ l.opn = Sold(a.token, a.lots)
    BY DEF Unchanged
  <2>3. LedgerOK(l) /\ Reserved(l.inf, l.opn) \subseteq Reserved(in_flight, open)
    BY <2>1, <2>2, SoldOK, SoldReserves
  <2>4. Publish(l, market) /\ UNCHANGED <<scenario, done, wsq, live>>
    BY <1>6 DEF SellAck, exchange
  <2> HIDE DEF l
  <2> QED BY <1>2, <2>2, <2>3, <2>4
<1> QED BY <1>3, <1>4, <1>5, <1>6, DoneKeepsBuys, ChannelKeepsBuys

-------------------------------------------------------------------------------
(* Runners and the exchange: a BUY passes from one stage to the next. *)

\* The ledger is left alone, and nobody claims what he did not claim before.
LEMMA ClaimsPassOn ==
  ASSUME IInv, Claimed, ReservedCount(in_flight, open) <= Cap, UNCHANGED ledger,
         \A r \in Runner : runner'[r].token = runner[r].token,
         \A r \in Runner : Claims(r)' => Claims(r)
  PROVE  Claimed' /\ ReservedCount(in_flight', open') <= Cap
BY DEF Claimed, ReservedCount, Reserved, ledger

\* A runner goes on to its check or its next POST.
LEMMA GoesOnKeepsBuys ==
  ASSUME IInv, Calm, BuyInv, NEW r \in Runner, Posts(r), NEW s \in RunnerState,
         runner' = [runner EXCEPT ![r] = s], s.token = runner[r].token, s.pc \in {"check", "post"},
         UNCHANGED <<scenario, ledger, done, live, wsq>>
  PROVE  BuyInv' /\ \A x \in Runner : Claims(x)' => Claims(x)
<1>1. Labelled /\ Early /\ Late /\ Claimed /\ ReservedCount(in_flight, open) <= Cap
  BY DEF BuyInv
<1>2. \A x \in Runner : runner'[x] = IF x = r THEN s ELSE runner[x]
  BY DEF IInv, TypeInv, TypeOK
<1>3. /\ \A x, m : Answers(x, m)' <=> Answers(x, m)
      /\ \A x, o : Rests(x, o)' <=> Rests(x, o)
      /\ \A x, i : Tells(x, i)' <=> Tells(x, i)
  BY DEF Answers, Rests, Tells, OfOrder
<1>4. \A x \in Runner : runner'[x].token = runner[x].token /\ (Posts(x)' => Posts(x))
  BY <1>2 DEF Posts
<1>5. \A x \in Runner : Claims(x)' => Claims(x)
  BY <1>3, <1>4 DEF Claims
<1>6. \A o \in OrderId : TokenOf(o)' = TokenOf(o)
  BY <1>4 DEF TokenOf, OrderId
<1>7. Labelled'
  <2>1. \A m \in done : m.order \in OrderId
    BY DEF IInv, TypeInv, TypeOK
  <2>2. \A m \in done' : m.token = TokenOf(m.order)' /\ m.filled \in {0, LotsPerOrder}
                         /\ (m.error => m.filled = 0)
    BY <1>1, <1>6, <2>1 DEF Labelled
  <2>3. \A i \in 1..Len(wsq) : OfOrder(wsq[i]) =>
          /\ wsq[i].order \in OrderId /\ wsq[i].token = runner'[wsq[i].order[1]].token
          /\ wsq[i].type = "BUY" => wsq[i].lots = LotsPerOrder
    BY <1>1, <1>6 DEF Labelled, TokenOf
  <2>4. \A o \in OrderId : resting'[o] \in {NoToken, TokenOf(o)'} /\ live'[o] \in {0, LotsPerOrder}
    BY <1>1, <1>6 DEF Labelled, ledger
  <2> QED BY <2>2, <2>3, <2>4 DEF Labelled, OfOrder, TokenOf
<1>8. Early'
  <2>1. \A x \in Runner : runner'[x].pc # "stopped" => runner[x].pc # "stopped"
    BY <1>2 DEF Posts
  <2> QED BY <1>1, <1>3, <2>1 DEF Early, ledger
<1>9. Late'
  BY <1>1, <1>3 DEF Late
<1> QED BY <1>1, <1>4, <1>5, <1>7, <1>8, <1>9, ClaimsPassOn DEF BuyInv

\* A runner stops and reports: an error, a fill, or an order it leaves in the book.
LEMMA StopKeepsBuys ==
  ASSUME IInv, Calm, BuyInv, NEW r \in Runner, Posts(r), Stop(r),
         NEW m \in DoneEvent, m.order[1] = r, m.token = runner[r].token,
         m.filled \in {0, LotsPerOrder}, m.error => m.filled = 0,
         done' = done \cup {m}, live' \in [OrderId -> Nat],
         \A o \in OrderId : \/ live'[o] = live[o]
                            \/ o = m.order /\ live'[o] = LotsPerOrder /\ ~Final(m),
         UNCHANGED <<scenario, ledger, wsq>>
  PROVE  BuyInv' /\ \A x \in Runner : Claims(x)' => Claims(x)
<1>1. Labelled /\ Early /\ Late /\ Claimed /\ ReservedCount(in_flight, open) <= Cap
  BY DEF BuyInv
<1>2. \A x \in Runner : runner'[x] = IF x = r THEN [runner[r] EXCEPT !.pc = "stopped"] ELSE runner[x]
  BY DEF IInv, TypeInv, TypeOK, Stop
<1>3. runner[r].pc # "stopped"
  BY DEF Posts
<1>4. /\ \A n : ~Answers(r, n)
      /\ \A o : ~Rests(r, o)
      /\ \A i : ~Tells(r, i)
  BY <1>1, <1>3 DEF Early
<1>5. /\ \A x, n : Answers(x, n)' => Answers(x, n) \/ (x = r /\ n = m)
      /\ \A x, o : Rests(x, o)' => Rests(x, o) \/ (x = r /\ o = m.order /\ ~Final(m))
      /\ \A x, i : Tells(x, i)' <=> Tells(x, i)
  <2>1. \A x, n : Answers(x, n)' => Answers(x, n) \/ (x = r /\ n = m)
    BY DEF Answers
  <2>2. \A x, o : Rests(x, o)' => Rests(x, o) \/ (x = r /\ o = m.order /\ ~Final(m))
    BY DEF Rests
  <2>3. \A x, i : Tells(x, i)' <=> Tells(x, i)
    BY DEF Tells, OfOrder
  <2> QED BY <2>1, <2>2, <2>3
<1>6. \A x \in Runner : runner'[x].token = runner[x].token /\ (x # r => runner'[x] = runner[x])
  <2>1. [runner[r] EXCEPT !.pc = "stopped"].token = runner[r].token
    BY DEF IInv, TypeInv, TypeOK
  <2> QED BY <1>2, <2>1
<1>7. \A x \in Runner : Claims(x)' => Claims(x)
  <2>1. ASSUME NEW x \in Runner, x # r, Claims(x)' PROVE Claims(x)
    <3>1. Posts(x)' => Posts(x)
      BY <1>6, <2>1 DEF Posts
    <3> QED BY <1>5, <2>1, <3>1 DEF Claims
  <2> QED BY <2>1 DEF Claims
<1>8. \A o \in OrderId : TokenOf(o)' = TokenOf(o)
  BY <1>6 DEF TokenOf, OrderId
<1>9. Labelled'
  <2>1. \A n \in done' : n.order \in OrderId
    BY DEF IInv, TypeInv, TypeOK, DoneEvent
  <2>2. ASSUME NEW n \in done'
        PROVE  n.token = TokenOf(n.order)' /\ n.filled \in {0, LotsPerOrder}
               /\ (n.error => n.filled = 0)
    <3>1. CASE n = m
      BY <1>8, <2>1, <3>1 DEF TokenOf
    <3>2. CASE n \in done
      BY <1>1, <1>8, <2>1, <3>2 DEF Labelled
    <3> QED BY <3>1, <3>2
  <2>3. \A i \in 1..Len(wsq) : OfOrder(wsq[i]) =>
          /\ wsq[i].order \in OrderId /\ wsq[i].token = runner'[wsq[i].order[1]].token
          /\ wsq[i].type = "BUY" => wsq[i].lots = LotsPerOrder
    BY <1>1, <1>8 DEF Labelled, TokenOf
  <2>4. \A o \in OrderId : resting'[o] \in {NoToken, TokenOf(o)'} /\ live'[o] \in {0, LotsPerOrder}
    BY <1>1, <1>8 DEF Labelled, ledger
  <2> QED BY <2>2, <2>3, <2>4 DEF Labelled, OfOrder, TokenOf
<1>10. Early'
  <2>1. ASSUME NEW x \in Runner, runner'[x].pc # "stopped"
        PROVE  x # r /\ runner[x].pc # "stopped"
    <3>1. [runner[r] EXCEPT !.pc = "stopped"].pc = "stopped"
      BY DEF IInv, TypeInv, TypeOK
    <3> QED BY <1>2, <2>1, <3>1
  <2> QED BY <1>1, <1>5, <2>1 DEF Early, ledger
<1>11. Late'
  <2>1. \A x \in Runner : \A n, p : Answers(x, n)' /\ Answers(x, p)' => n = p
    BY <1>1, <1>4, <1>5 DEF Late
  <2>2. \A x \in Runner : \A n, o : Answers(x, n)' /\ Final(n) => ~Rests(x, o)'
    BY <1>1, <1>4, <1>5 DEF Late
  <2>3. \A x \in Runner : \A n, i : Answers(x, n)' /\ Final(n) => ~Tells(x, i)'
    BY <1>1, <1>4, <1>5 DEF Late
  <2>4. \A x \in Runner : \A o, p : Rests(x, o)' /\ Rests(x, p)' => o = p
    BY <1>1, <1>4, <1>5 DEF Late
  <2>5. \A x \in Runner : \A o, i : Rests(x, o)' => ~Tells(x, i)'
    BY <1>1, <1>4, <1>5 DEF Late
  <2>6. \A x \in Runner : \A i, j : Tells(x, i)' /\ Tells(x, j)' => i = j
    BY <1>1, <1>5 DEF Late
  <2> QED BY <2>1, <2>2, <2>3, <2>4, <2>5, <2>6 DEF Late
<1> QED BY <1>1, <1>6, <1>7, <1>9, <1>10, <1>11, ClaimsPassOn DEF BuyInv

\* What the user channel is told comes last.
LEMMA Told ==
  ASSUME IInv, NEW m \in Message, Tell(m)
  PROVE  /\ Len(wsq) \in Nat /\ Len(wsq') = Len(wsq) + 1
         /\ \A i \in 1..Len(wsq') : wsq'[i] = IF i <= Len(wsq) THEN wsq[i] ELSE m
         /\ \A i \in 1..Len(wsq') : i \in 1..Len(wsq) \/ i = Len(wsq) + 1
BY DEF IInv, TypeInv, MessageInv, Tell

\* An order leaves the book, and the user channel is told.
LEMMA LeavesKeepsBuys ==
  ASSUME IInv, IInv', Calm, BuyInv, NEW o \in OrderId, live[o] > 0, live' = [live EXCEPT ![o] = 0],
         NEW m \in Message, Tell(m), OfOrder(m), m.order = o, m.token = TokenOf(o),
         m.type = "BUY" => m.lots = LotsPerOrder,
         UNCHANGED <<scenario, ledger, runner, done>>
  PROVE  BuyInv' /\ \A x \in Runner : Claims(x)' => Claims(x)
<1> DEFINE r == o[1]
<1>1. Labelled /\ Early /\ Late /\ Claimed /\ ReservedCount(in_flight, open) <= Cap
  BY DEF BuyInv
<1>2. r \in Runner /\ Rests(r, o)
  BY DEF OrderId, Rests
<1>3. /\ Len(wsq) \in Nat /\ Len(wsq') = Len(wsq) + 1
      /\ \A i \in 1..Len(wsq') : wsq'[i] = IF i <= Len(wsq) THEN wsq[i] ELSE m
      /\ \A i \in 1..Len(wsq') : i \in 1..Len(wsq) \/ i = Len(wsq) + 1
  BY Told
<1>4. \A p \in OrderId : live'[p] = IF p = o THEN 0 ELSE live[p]
  BY DEF IInv, TypeInv, TypeOK
<1>5. /\ \A x, n : Answers(x, n)' <=> Answers(x, n)
      /\ \A x, p : Rests(x, p)' => Rests(x, p) /\ p # o
      /\ \A x, i : Tells(x, i)' => Tells(x, i) \/ (x = r /\ i = Len(wsq) + 1)
  <2>1. \A x, n : Answers(x, n)' <=> Answers(x, n)
    BY DEF Answers
  <2>2. \A x, p : Rests(x, p)' => Rests(x, p) /\ p # o
    BY <1>4 DEF Rests
  <2>3. ASSUME NEW x, NEW i, Tells(x, i)' PROVE Tells(x, i) \/ (x = r /\ i = Len(wsq) + 1)
    <3>1. i \in 1..Len(wsq') /\ OfOrder(wsq'[i]) /\ wsq'[i].order[1] = x
      BY <2>3 DEF Tells, OfOrder
    <3>2. CASE i \in 1..Len(wsq)
      BY <1>3, <3>1, <3>2 DEF Tells
    <3>3. CASE i = Len(wsq) + 1
      BY <1>3, <3>1, <3>3
    <3> QED BY <1>3, <3>1, <3>2, <3>3
  <2> QED BY <2>1, <2>2, <2>3
<1>6. /\ \A i : ~Tells(r, i)
      /\ \A n : Answers(r, n) => ~Final(n)
      /\ \A p : Rests(r, p) => p = o
      /\ runner[r].pc = "stopped"
  BY <1>1, <1>2 DEF Late, Early
<1>7. Labelled'
  <2>1. \A n \in done' : n.token = TokenOf(n.order)' /\ n.filled \in {0, LotsPerOrder}
                         /\ (n.error => n.filled = 0)
    BY <1>1 DEF Labelled, TokenOf
  <2>2. ASSUME NEW i \in 1..Len(wsq'), OfOrder(wsq'[i])
        PROVE  /\ wsq'[i].order \in OrderId /\ wsq'[i].token = runner'[wsq'[i].order[1]].token
               /\ wsq'[i].type = "BUY" => wsq'[i].lots = LotsPerOrder
    <3>1. CASE i \in 1..Len(wsq)
      BY <1>1, <1>3, <2>2, <3>1 DEF Labelled, TokenOf
    <3>2. CASE i = Len(wsq) + 1
      BY <1>3, <3>2 DEF TokenOf
    <3> QED BY <1>3, <3>1, <3>2
  <2>3. \A p \in OrderId : resting'[p] \in {NoToken, TokenOf(p)'} /\ live'[p] \in {0, LotsPerOrder}
    BY <1>1, <1>4 DEF Labelled, ledger, TokenOf
  <2> QED BY <2>1, <2>2, <2>3 DEF Labelled, OfOrder, TokenOf
<1>8. Early'
  BY <1>1, <1>5, <1>6 DEF Early, ledger
<1>9. Late'
  <2>1. \A x \in Runner : \A n, p : Answers(x, n)' /\ Answers(x, p)' => n = p
    BY <1>1, <1>5 DEF Late
  <2>2. \A x \in Runner : \A n, p : Answers(x, n)' /\ Final(n) => ~Rests(x, p)'
    BY <1>1, <1>5 DEF Late
  <2>3. \A x \in Runner : \A n, i : Answers(x, n)' /\ Final(n) => ~Tells(x, i)'
    BY <1>1, <1>5, <1>6 DEF Late
  <2>4. \A x \in Runner : \A p, q : Rests(x, p)' /\ Rests(x, q)' => p = q
    BY <1>1, <1>5 DEF Late
  <2>5. \A x \in Runner : \A p, i : Rests(x, p)' => ~Tells(x, i)'
    BY <1>1, <1>5, <1>6 DEF Late
  <2>6. \A x \in Runner : \A i, j : Tells(x, i)' /\ Tells(x, j)' => i = j
    BY <1>1, <1>5, <1>6 DEF Late
  <2> QED BY <2>1, <2>2, <2>3, <2>4, <2>5, <2>6 DEF Late
<1>10. \A x \in Runner : Claims(x)' => Claims(x)
  <2>1. Claims(r)
    BY <1>2 DEF Claims
  <2>2. \A x : Posts(x)' <=> Posts(x)
    BY DEF Posts
  <2> HIDE DEF r
  <2> QED BY <1>5, <2>1, <2>2 DEF Claims
<1> QED BY <1>1, <1>7, <1>8, <1>9, <1>10, ClaimsPassOn DEF BuyInv

\* The user channel is told of a SELL, or loses a report.
LEMMA OthersKeepBuys ==
  ASSUME IInv, IInv', Calm, BuyInv, UNCHANGED <<scenario, ledger, runner, done, live>>,
         \/ wsq' = wsq
         \/ wsq # <<>> /\ wsq' = Tail(wsq)
         \/ \E m \in Message : Tell(m) /\ ~OfOrder(m)
  PROVE  BuyInv' /\ \A x \in Runner : Claims(x)' => Claims(x)
<1>1. Labelled /\ Early /\ Late /\ Claimed /\ ReservedCount(in_flight, open) <= Cap
  BY DEF BuyInv
<1>2. ASSUME NEW k, Taken(k) PROVE BuyInv' /\ \A x \in Runner : Claims(x)' => Claims(x)
  <2>1. /\ Labelled' /\ Early' /\ Late'
        /\ \A r \in Runner : Claims(r)' =>
             Remains(r) \/ (runner[r] = Off /\ runner'[r].pc = "check")
    BY <1>1, <1>2, RestingLabels, TakenKeepsStages DEF ledger
  <2>2. \A r \in Runner : Remains(r) => Claims(r)
    BY <1>2, TakenMessages DEF Remains, Claims
  <2>3. \A r \in Runner : Claims(r)' => Claims(r)
    BY <2>1, <2>2 DEF Off
  <2> QED BY <1>1, <2>1, <2>3, ClaimsPassOn DEF BuyInv
<1>3. CASE wsq' = wsq
  <2>1. Taken(0)
    BY <1>3, NothingTaken
  <2> QED BY <1>2, <2>1
<1>4. CASE wsq # <<>> /\ wsq' = Tail(wsq)
  <2>1. Taken(1)
    BY <1>4, HeadTaken
  <2> QED BY <1>2, <2>1
<1>5. ASSUME NEW m \in Message, Tell(m), ~OfOrder(m)
      PROVE  BuyInv' /\ \A x \in Runner : Claims(x)' => Claims(x)
  <2>1. /\ Len(wsq) \in Nat /\ Len(wsq') = Len(wsq) + 1
        /\ \A i \in 1..Len(wsq') : wsq'[i] = IF i <= Len(wsq) THEN wsq[i] ELSE m
        /\ \A i \in 1..Len(wsq') : i \in 1..Len(wsq) \/ i = Len(wsq) + 1
    BY <1>5, Told
  <2>2. \A i \in 1..Len(wsq') : OfOrder(wsq'[i]) => i \in 1..Len(wsq) /\ wsq'[i] = wsq[i]
    BY <1>5, <2>1
  <2>3. /\ \A x, n : Answers(x, n)' <=> Answers(x, n)
        /\ \A x, o : Rests(x, o)' <=> Rests(x, o)
        /\ \A x, i : Tells(x, i)' => Tells(x, i)
        /\ \A x : Posts(x)' <=> Posts(x)
    BY <2>2 DEF Answers, Rests, Tells, OfOrder, Posts
  <2>4. Labelled'
    <3>1. \A n \in done' : n.token = TokenOf(n.order)' /\ n.filled \in {0, LotsPerOrder}
                           /\ (n.error => n.filled = 0)
      BY <1>1 DEF Labelled, TokenOf
    <3>2. \A i \in 1..Len(wsq') : OfOrder(wsq'[i]) =>
            /\ wsq'[i].order \in OrderId /\ wsq'[i].token = runner'[wsq'[i].order[1]].token
            /\ wsq'[i].type = "BUY" => wsq'[i].lots = LotsPerOrder
      BY <1>1, <2>2 DEF Labelled, TokenOf
    <3>3. \A p \in OrderId : resting'[p] \in {NoToken, TokenOf(p)'} /\ live'[p] \in {0, LotsPerOrder}
      BY <1>1 DEF Labelled, ledger, TokenOf
    <3> QED BY <3>1, <3>2, <3>3 DEF Labelled, OfOrder, TokenOf
  <2>5. Early' /\ Late'
    BY <1>1, <2>3 DEF Early, Late, ledger
  <2>6. \A r \in Runner : Claims(r)' => Claims(r)
    BY <2>3 DEF Claims
  <2> QED BY <1>1, <2>4, <2>5, <2>6, ClaimsPassOn DEF BuyInv
<1> QED BY <1>3, <1>4, <1>5

LEMMA RunnersKeepBuys ==
  ASSUME IInv, IInv', Calm, BuyInv, NEW r \in Runner,
         Check(r) \/ Rejected(r) \/ Accepted(r) \/ Unheard(r)
  PROVE  BuyInv'
<1> DEFINE P == Inner * Outer
           old == runner[r]
           n == old.tries + 1
<1>0. P \in Nat \ {0} /\ LotsPerOrder \in Nat \ {0}
  BY AutoTradingAssumption
<1>1. /\ runner \in [Runner -> RunnerState] /\ old \in RunnerState
      /\ Posts(r) /\ old.token \in Token /\ old.tries < P
      /\ live \in [OrderId -> Nat]
  <2>1. old.pc \in {"check", "post"}
    BY DEF Check, Rejected, Accepted, Unheard, Accept
  <2> QED BY <2>1 DEF IInv, TypeInv, TypeOK, RunnerInv, RunnerState, Posts
<1>2. /\ n \in 1..P /\ n \in Nat
      /\ <<r, 1>> \in OrderId /\ <<r, n>> \in OrderId
  BY <1>0, <1>1 DEF OrderId, RunnerState
<1>3. ASSUME Stop(r), Report(old.token, <<r, 1>>, 0, TRUE), UNCHANGED <<scenario, ledger, live, wsq>>
      PROVE  BuyInv'
  <2> DEFINE m == [token |-> old.token, order |-> <<r, 1>>, filled |-> 0, error |-> TRUE]
  <2>1. /\ m \in DoneEvent /\ m.order[1] = r /\ m.token = old.token
        /\ m.filled \in {0, LotsPerOrder} /\ (m.error => m.filled = 0)
    BY <1>1, <1>2 DEF DoneEvent
  <2>2. done' = done \cup {m}
    BY <1>3 DEF Report
  <2> HIDE DEF m
  <2> QED BY <1>1, <1>3, <2>1, <2>2, StopKeepsBuys
<1>4. ASSUME Retry(r), UNCHANGED <<scenario, ledger, live, wsq>>
      PROVE  BuyInv'
  <2>1. CASE n = P
    BY <1>3, <1>4, <2>1 DEF Retry
  <2>2. CASE n # P
    <3> DEFINE pc == IF n % Inner = 0 THEN "check" ELSE "post"
               next == [old EXCEPT !.tries = n, !.pc = pc]
    <3>1. runner' = [runner EXCEPT ![r] = next] /\ UNCHANGED done
      BY <1>1, <1>4, <2>2 DEF Retry
    <3>2. pc \in {"check", "post"}
      OBVIOUS
    <3> HIDE DEF pc
    <3>3. next \in RunnerState /\ next.pc = pc /\ next.token = old.token
      <4> HIDE DEF n
      <4>1. old \in RunnerState
        BY <1>1
      <4> HIDE DEF old
      <4> QED BY <1>2, <3>2, <4>1 DEF RunnerState
    <3> HIDE DEF next
    <3> QED BY <1>1, <1>4, <3>1, <3>2, <3>3, GoesOnKeepsBuys
  <2> QED BY <2>1, <2>2
<1>5. CASE Check(r)
  <2>1. CASE signal = old.token
    <3> DEFINE next == [old EXCEPT !.pc = "post"]
    <3>1. /\ runner' = [runner EXCEPT ![r] = next]
          /\ UNCHANGED <<scenario, ledger, done, live, wsq>>
      BY <1>5, <2>1 DEF Check, exchange
    <3>2. next \in RunnerState /\ next.pc = "post" /\ next.token = old.token
      BY <1>1 DEF RunnerState
    <3> HIDE DEF next
    <3> QED BY <1>1, <3>1, <3>2, GoesOnKeepsBuys
  <2>2. CASE signal # old.token
    BY <1>3, <1>5, <2>2 DEF Check, exchange
  <2> QED BY <2>1, <2>2
<1>6. CASE Rejected(r)
  BY <1>4, <1>6 DEF Rejected, exchange
<1>7. CASE Accepted(r)
  <2>1. PICK q \in 0..LotsPerOrder :
          Accept(r, q) /\ Report(old.token, <<r, n>>, q, FALSE)
    BY <1>7 DEF Accepted
  <2>2. Stop(r) /\ UNCHANGED <<scenario, ledger, wsq>>
    BY <1>7 DEF Accepted
  <2> DEFINE m == [token |-> old.token, order |-> <<r, n>>, filled |-> q, error |-> FALSE]
  <2>3. q \in {0, LotsPerOrder} /\ live' = [live EXCEPT ![<<r, n>>] = LotsPerOrder - q]
    BY <2>1 DEF Accept, Calm, Only
  <2>4. /\ m \in DoneEvent /\ m.order[1] = r /\ m.order = <<r, n>> /\ m.token = old.token
        /\ m.filled = q /\ m.filled \in {0, LotsPerOrder} /\ ~m.error
    BY <1>0, <1>1, <1>2, <2>3 DEF DoneEvent
  <2>5. done' = done \cup {m}
    BY <2>1 DEF Report
  <2>6. live[<<r, n>>] = 0
    BY <1>1, <1>2 DEF BuyInv, Early, Posts, Rests
  <2>7. LotsPerOrder - q \in Nat /\ (q = LotsPerOrder => LotsPerOrder - q = 0)
        /\ (q = 0 => LotsPerOrder - q = LotsPerOrder)
    BY <1>0, <2>3
  <2>8. live' \in [OrderId -> Nat]
    BY <1>1, <2>3, <2>7
  <2>9. ASSUME NEW o \in OrderId
        PROVE  \/ live'[o] = live[o]
               \/ o = m.order /\ live'[o] = LotsPerOrder /\ ~Final(m)
    <3>1. CASE o # <<r, n>>
      BY <1>1, <2>3, <3>1
    <3>2. CASE o = <<r, n>> /\ q = LotsPerOrder
      BY <1>1, <2>3, <2>6, <2>7, <3>2
    <3>3. CASE o = <<r, n>> /\ q = 0
      BY <1>1, <2>3, <2>4, <2>7, <3>3 DEF Final
    <3> QED BY <2>3, <3>1, <3>2, <3>3
  <2>10. m.error => m.filled = 0
    BY <2>4
  <2> HIDE DEF m
  <2> QED BY <1>1, <2>2, <2>4, <2>5, <2>8, <2>9, <2>10, StopKeepsBuys
<1>8. CASE Unheard(r)
  BY <1>8 DEF Unheard, Calm, Only
<1> QED BY <1>5, <1>6, <1>7, <1>8

LEMMA ExchangeKeepsBuys ==
  ASSUME IInv, IInv', Calm, BuyInv,
         \/ \E o \in OrderId : MakerFill(o) \/ Close(o)
         \/ \E t \in Token : ManualFill(t) \/ \E q \in Lots, taker \in BOOLEAN : SellLots(t, q, taker)
         \/ LoseReport
  PROVE  BuyInv' /\ \A x \in Runner : Claims(x)' => Claims(x)
<1>0. /\ live \in [OrderId -> Nat] /\ sells \in Nat /\ LotsPerOrder \in Nat \ {0}
      /\ \A o \in OrderId : live[o] > 0 => TokenOf(o) \in Token
  BY AutoTradingAssumption DEF IInv, TypeInv, TypeOK, MessageInv, RunnerInv, OrderId, TokenOf
<1>1. ASSUME NEW o \in OrderId, MakerFill(o)
      PROVE  BuyInv' /\ \A x \in Runner : Claims(x)' => Claims(x)
  <2>1. PICK q \in 1..live[o] :
          /\ q = live[o]
          /\ live' = [live EXCEPT ![o] = @ - q]
          /\ Tell([type |-> "BUY", token |-> TokenOf(o), lots |-> q, order |-> o, sell |-> 0])
    BY <1>1 DEF MakerFill, Calm, Only
  <2>2. live[o] > 0 /\ live[o] = LotsPerOrder /\ live' = [live EXCEPT ![o] = 0]
    <3>1. live[o] > 0 /\ live[o] - q = 0
      BY <1>0, <2>1
    <3>2. live[o] \in {0, LotsPerOrder}
      BY DEF BuyInv, Labelled
    <3>3. live[o] = LotsPerOrder
      BY <3>1, <3>2
    <3>4. [live EXCEPT ![o] = @ - q] = [live EXCEPT ![o] = 0]
      BY <3>1
    <3> QED BY <2>1, <3>1, <3>3, <3>4
  <2> DEFINE m == [type |-> "BUY", token |-> TokenOf(o), lots |-> q, order |-> o, sell |-> 0]
  <2>3. /\ m \in Message /\ OfOrder(m) /\ m.order = o /\ m.token = TokenOf(o)
        /\ m.lots = LotsPerOrder
    BY <1>0, <2>1, <2>2 DEF Message, OfOrder
  <2>4. Tell(m) /\ UNCHANGED <<scenario, ledger, runner, done>>
    BY <1>1, <2>1 DEF MakerFill
  <2> HIDE DEF m
  <2> QED BY <2>2, <2>3, <2>4, LeavesKeepsBuys
<1>2. ASSUME NEW o \in OrderId, Close(o)
      PROVE  BuyInv' /\ \A x \in Runner : Claims(x)' => Claims(x)
  <2>1. /\ live[o] > 0 /\ live' = [live EXCEPT ![o] = 0]
        /\ Tell([type |-> "CLOSED", token |-> TokenOf(o), lots |-> 0, order |-> o, sell |-> 0])
        /\ UNCHANGED <<scenario, ledger, runner, done>>
    BY <1>2 DEF Close
  <2> DEFINE m == [type |-> "CLOSED", token |-> TokenOf(o), lots |-> 0, order |-> o, sell |-> 0]
  <2>2. /\ m \in Message /\ OfOrder(m) /\ m.order = o /\ m.token = TokenOf(o) /\ m.type # "BUY"
    BY <1>0, <2>1 DEF Message, OfOrder
  <2>3. Tell(m)
    BY <2>1
  <2> HIDE DEF m
  <2> QED BY <2>1, <2>2, <2>3, LeavesKeepsBuys
<1>3. ASSUME NEW t \in Token, ManualFill(t)
      PROVE  BuyInv' /\ \A x \in Runner : Claims(x)' => Claims(x)
  BY <1>3 DEF ManualFill, Calm, Only
<1>4. ASSUME NEW t \in Token, NEW q \in Lots, NEW taker \in BOOLEAN, SellLots(t, q, taker)
      PROVE  BuyInv' /\ \A x \in Runner : Claims(x)' => Claims(x)
  <2> DEFINE m == [type |-> "SELL", token |-> t, lots |-> q, order |-> <<0, 0>>, sell |-> sells']
  <2>1. Tell(m) /\ sells' = sells + 1 /\ UNCHANGED <<scenario, ledger, runner, done, live>>
    BY <1>4 DEF SellLots
  <2>2. m \in Message /\ ~OfOrder(m)
    BY <1>0, <2>1 DEF Message, OfOrder, Lots
  <2> HIDE DEF m
  <2> QED BY <2>1, <2>2, OthersKeepBuys
<1>5. CASE LoseReport
  BY <1>5, OthersKeepBuys DEF LoseReport, exchange
<1> QED BY <1>1, <1>2, <1>3, <1>4, <1>5

LEMMA InitBuyInv == Init => BuyInv
<1> SUFFICES ASSUME Init PROVE BuyInv
  OBVIOUS
<1>1. /\ \A r, m : ~Answers(r, m)
      /\ \A r, o : ~Rests(r, o)
      /\ \A r, i : ~Tells(r, i)
      /\ \A r \in Runner : ~Posts(r)
  BY DEF Init, Answers, Rests, Tells, Posts, Off
<1>2. Labelled
  BY DEF Init, Labelled
<1>3. Early /\ Late
  BY <1>1 DEF Init, Early, Late
<1>4. Claimed
  BY <1>1 DEF Claimed, Claims
<1>5. ReservedCount(in_flight, open) <= Cap
  <2>1. Reserved(in_flight, open) = {}
    BY DEF Init, Reserved
  <2> QED BY <2>1, FS_EmptySet, CapType DEF ReservedCount
<1> QED BY <1>2, <1>3, <1>4, <1>5 DEF BuyInv

LEMMA BuyInvNext == IInv /\ BuyInv /\ [Next]_vars => BuyInv'
<1> SUFFICES ASSUME IInv, BuyInv, [Next]_vars PROVE BuyInv'
  OBVIOUS
<1>1. IInv'
  BY IInvNext
<1>2. Calm' <=> Calm
  <2>1. UNCHANGED scenario
    BY DEF Next, vars, Check, Rejected, Accepted, Unheard, MakerFill, Close, ManualFill, SellLots,
           LoseReport, Tick, StartTrading, UserChannel, MarketRoll, AutoTradingBuyDone, SellAck
  <2> QED BY <2>1 DEF Calm, Only
<1>3. CASE ~Calm
  BY <1>2, <1>3 DEF BuyInv
<1>4. CASE Calm /\ UNCHANGED vars
  BY <1>1, <1>4, OthersKeepBuys DEF vars, ledger, exchange
<1>5. CASE Calm /\ Next
  BY <1>1, <1>5, HandlersKeepBuys, RunnersKeepBuys, ExchangeKeepsBuys DEF Next
<1> QED BY <1>3, <1>4, <1>5

-------------------------------------------------------------------------------
(* What the exchange has of a token, the ledger accounts for.  Sold lots whose SELL is
   still to be booked are numbered, so that their count is a cardinality. *)

Gentle == Only({"sell_early", "close_first", "ws_outage"})

\* Windows only go forward; nothing is bought before its window.
WindowInv ==
  /\ market \in {0, window}
  /\ \A t \in Token : held[t] > 0 => WindowOf[t] <= window
  /\ \A r \in Runner : runner[r].pc # "off" => WindowOf[runner[r].token] <= window

Sale(m) == m.type = "SELL"

\* Both reports of a SELL tell the same, and the OrderAck is applied first.
SellInv ==
  /\ acked \subseteq 1..sells
  /\ \A a \in acks : a.sell \in 1..sells /\ a.sell \notin acked /\ a.lots \in Lots
  /\ \A a, b \in acks : a.sell = b.sell => a = b
  /\ \A i \in 1..Len(wsq) : Sale(wsq[i]) => wsq[i].sell \in 1..sells /\ wsq[i].lots \in Lots
  /\ \A i, j \in 1..Len(wsq) : Sale(wsq[i]) /\ Sale(wsq[j]) /\ wsq[i].sell = wsq[j].sell => i = j
  /\ \A a \in acks, i \in 1..Len(wsq) :
       Sale(wsq[i]) /\ wsq[i].sell = a.sell => wsq[i].token = a.token /\ wsq[i].lots = a.lots

\* SELL s of q lots of t is still to be booked.
Owed(s, t, q) ==
  \/ \E a \in acks : a.sell = s /\ a.token = t /\ a.lots = q
  \/ s \notin acked /\ \E i \in 1..Len(wsq) :
       Sale(wsq[i]) /\ wsq[i].sell = s /\ wsq[i].token = t /\ wsq[i].lots = q
OwedLots(t) == {x \in (1..sells) \X Lots : \E q \in Lots : Owed(x[1], t, q) /\ x[2] <= q}
Out(t) == held[t] + Cardinality(OwedLots(t))

\* The BUY is filled and the ledger has yet to book it.
Filled(r) ==
  \/ \E m : Answers(r, m) /\ m.filled > 0
  \/ \E i : Tells(r, i) /\ wsq[i].type = "BUY"

Accounted ==
  /\ \A t \in OfMarket : t \notin in_flight => Out(t) <= open[t]
  /\ \A r \in Runner : Claims(r) /\ runner[r].token \in OfMarket =>
       Out(runner[r].token) <= IF Filled(r) THEN LotsPerOrder ELSE 0

ExposureInv == Gentle => WindowInv /\ SellInv /\ Accounted

-------------------------------------------------------------------------------
(* Lots still to be booked. *)

SellTypes == sells \in Nat /\ held \in [Token -> Nat]

\* q lots of one SELL are q elements.
LEMMA LotsOfSell ==
  ASSUME NEW s, NEW q \in Lots
  PROVE  /\ q \in Nat /\ 1..q \subseteq Lots
         /\ IsFiniteSet({s} \X (1..q)) /\ Cardinality({s} \X (1..q)) = q
<1>1. LotsPerOrder * (MaxRunners * Inner * Outer + 1) \in Int
  BY AutoTradingAssumption
<1>2. q \in Nat /\ q >= 1 /\ 1..q \subseteq Lots
  BY <1>1 DEF Lots
<1>3. IsFiniteSet(1..q) /\ Cardinality(1..q) = q
  BY <1>2, FS_Interval
<1>4. IsFiniteSet({s}) /\ Cardinality({s}) = 1
  BY FS_Singleton
<1>5. IsFiniteSet({s} \X (1..q)) /\ Cardinality({s} \X (1..q)) = 1 * q
  BY <1>3, <1>4, FS_Product
<1> QED BY <1>2, <1>5

LEMMA OwedFinite ==
  ASSUME sells \in Nat, NEW t
  PROVE  IsFiniteSet(OwedLots(t)) /\ Cardinality(OwedLots(t)) \in Nat
<1>1. IsFiniteSet(1..sells)
  BY FS_Interval
<1>2. IsFiniteSet(Lots)
  <2>1. LotsPerOrder * (MaxRunners * Inner * Outer + 1) \in Int
    BY AutoTradingAssumption
  <2> QED BY <2>1, FS_Interval DEF Lots
<1>3. IsFiniteSet((1..sells) \X Lots)
  BY <1>1, <1>2, FS_Product
<1>4. OwedLots(t) \in SUBSET ((1..sells) \X Lots)
  BY DEF OwedLots
<1> QED BY <1>3, <1>4, FS_Subset, FS_CardinalityType

\* Nothing new is owed: a report is lost, or tells of something else.
LEMMA OwesNoMore ==
  ASSUME SellTypes, NEW t \in Token, sells' = sells, held' = held,
         \A s, q : Owed(s, t, q)' => Owed(s, t, q)
  PROVE  /\ OwedLots(t)' \subseteq OwedLots(t)
         /\ Out(t)' \in Nat /\ Out(t) \in Nat /\ Out(t)' <= Out(t)
<1>1. OwedLots(t)' \subseteq OwedLots(t)
  BY DEF OwedLots
<1>2. IsFiniteSet(OwedLots(t)) /\ Cardinality(OwedLots(t)) \in Nat
  BY OwedFinite DEF SellTypes
<1>3. OwedLots(t)' \in SUBSET OwedLots(t)
  BY <1>1
<1>4. IsFiniteSet(OwedLots(t)') /\ Cardinality(OwedLots(t)') <= Cardinality(OwedLots(t))
  BY <1>2, <1>3, FS_Subset
<1>5. Cardinality(OwedLots(t)') \in Nat
  BY <1>4, FS_CardinalityType
<1> QED BY <1>1, <1>2, <1>4, <1>5 DEF Out, SellTypes

\* A SELL is booked: its lots are owed no longer.
LEMMA OwesLess ==
  ASSUME SellTypes, NEW t \in Token, NEW s \in 1..sells, NEW q \in Lots, Owed(s, t, q),
         sells' = sells, held' = held,
         \A x, p : Owed(x, t, p)' => Owed(x, t, p) /\ x # s
  PROVE  Out(t)' \in Nat /\ Out(t) \in Nat /\ q \in Nat /\ Out(t)' + q <= Out(t)
<1> DEFINE L == {s} \X (1..q)
<1>1. q \in Nat /\ 1..q \subseteq Lots /\ IsFiniteSet(L) /\ Cardinality(L) = q
  BY LotsOfSell
<1>2. OwedLots(t)' \subseteq OwedLots(t) /\ L \subseteq OwedLots(t)
  BY <1>1 DEF OwedLots
<1>3. OwedLots(t)' \cap L = {}
  BY DEF OwedLots
<1>4. IsFiniteSet(OwedLots(t)) /\ Cardinality(OwedLots(t)) \in Nat
  BY OwedFinite DEF SellTypes
<1>5. OwedLots(t)' \in SUBSET OwedLots(t) /\ (OwedLots(t)' \cup L) \in SUBSET OwedLots(t)
  BY <1>2
<1> HIDE DEF L
<1>6. IsFiniteSet(OwedLots(t)') /\ Cardinality(OwedLots(t)') \in Nat
  BY <1>4, <1>5, FS_Subset, FS_CardinalityType
<1>7. Cardinality(OwedLots(t)' \cup L)
        = Cardinality(OwedLots(t)') + q - Cardinality(OwedLots(t)' \cap L)
  BY <1>1, <1>6, FS_Union
<1>8. Cardinality(OwedLots(t)' \cap L) = 0
  BY <1>3, FS_EmptySet
<1>9. Cardinality(OwedLots(t)' \cup L) <= Cardinality(OwedLots(t))
  BY <1>4, <1>5, FS_Subset
<1>10. Cardinality(OwedLots(t)') + q <= Cardinality(OwedLots(t))
  BY <1>1, <1>6, <1>7, <1>8, <1>9
<1> QED BY <1>1, <1>4, <1>6, <1>10 DEF Out, SellTypes

\* A SELL takes lots from the wallet and owes as many.
LEMMA OwesAsSold ==
  ASSUME SellTypes, NEW t \in Token, NEW q \in Lots, q <= held[t],
         sells' = sells + 1, held' = [held EXCEPT ![t] = @ - q],
         \A x, p : Owed(x, t, p) => x \in 1..sells,
         \A x, p : Owed(x, t, p)' => Owed(x, t, p) \/ (x = sells + 1 /\ p = q)
  PROVE  Out(t)' \in Nat /\ Out(t) \in Nat /\ Out(t)' <= Out(t)
<1> DEFINE L == {sells + 1} \X (1..q)
<1>1. q \in Nat /\ IsFiniteSet(L) /\ Cardinality(L) = q
  BY LotsOfSell
<1>2. ASSUME NEW x \in OwedLots(t)' PROVE x \in OwedLots(t) \cup L
  <2>1. x \in (1..(sells + 1)) \X Lots /\ \E p \in Lots : Owed(x[1], t, p)' /\ x[2] <= p
    BY <1>2 DEF OwedLots
  <2>2. PICK p \in Lots : Owed(x[1], t, p)' /\ x[2] <= p
    BY <2>1
  <2>3. CASE x[1] = sells + 1 /\ p = q
    <3>1. x[2] \in Nat /\ x[2] >= 1
      BY <2>1 DEF Lots
    <3>2. x[2] \in 1..q
      BY <1>1, <2>2, <2>3, <3>1
    <3> QED BY <2>1, <2>3, <3>2
  <2>4. CASE Owed(x[1], t, p)
    <3>1. x[1] \in 1..sells
      BY <2>4
    <3> QED BY <2>1, <2>2, <2>4, <3>1 DEF OwedLots
  <2> QED BY <2>2, <2>3, <2>4
<1> HIDE DEF L
<1>3. IsFiniteSet(OwedLots(t)) /\ Cardinality(OwedLots(t)) \in Nat
  BY OwedFinite DEF SellTypes
<1>4. /\ IsFiniteSet(OwedLots(t) \cup L)
      /\ Cardinality(OwedLots(t) \cup L)
           = Cardinality(OwedLots(t)) + q - Cardinality(OwedLots(t) \cap L)
  BY <1>1, <1>3, FS_Union
<1>5. Cardinality(OwedLots(t) \cap L) \in Nat
  <2>1. (OwedLots(t) \cap L) \in SUBSET L
    OBVIOUS
  <2> QED BY <1>1, <2>1, FS_Subset, FS_CardinalityType
<1>6. OwedLots(t)' \in SUBSET (OwedLots(t) \cup L)
  BY <1>2
<1>7. /\ Cardinality(OwedLots(t)') \in Nat
      /\ Cardinality(OwedLots(t)') <= Cardinality(OwedLots(t) \cup L)
  BY <1>4, <1>6, FS_Subset, FS_CardinalityType
<1>8. held'[t] = held[t] - q /\ held[t] \in Nat /\ held'[t] \in Nat
  BY <1>1 DEF SellTypes
<1> QED BY <1>1, <1>3, <1>4, <1>5, <1>7, <1>8 DEF Out

\* Lots are bought, and nothing more is owed.
LEMMA OwesAsBought ==
  ASSUME SellTypes, NEW t \in Token, NEW q \in Nat, sells' = sells,
         held' = [held EXCEPT ![t] = @ + q],
         \A s \in Token : \A x, p : Owed(x, s, p)' => Owed(x, s, p)
  PROVE  \A s \in Token : /\ Out(s)' \in Nat /\ Out(s) \in Nat
                          /\ Out(s)' <= Out(s) + (IF s = t THEN q ELSE 0)
<1> SUFFICES ASSUME NEW s \in Token
             PROVE  /\ Out(s)' \in Nat /\ Out(s) \in Nat
                    /\ Out(s)' <= Out(s) + (IF s = t THEN q ELSE 0)
  OBVIOUS
<1>1. OwedLots(s)' \in SUBSET OwedLots(s)
  BY DEF OwedLots
<1>2. IsFiniteSet(OwedLots(s)) /\ Cardinality(OwedLots(s)) \in Nat
  BY OwedFinite DEF SellTypes
<1>3. Cardinality(OwedLots(s)') \in Nat /\ Cardinality(OwedLots(s)') <= Cardinality(OwedLots(s))
  BY <1>1, <1>2, FS_Subset, FS_CardinalityType
<1>4. held'[s] = held[s] + (IF s = t THEN q ELSE 0) /\ held[s] \in Nat /\ held'[s] \in Nat
  BY DEF SellTypes
<1> QED BY <1>2, <1>3, <1>4 DEF Out

-------------------------------------------------------------------------------
(* SELLs and windows. *)

\* Both reports of a SELL only come nearer.
LEMMA SellInvTaken ==
  ASSUME IInv, IInv', SellInv, NEW k, Taken(k), acks' \subseteq acks, sells' = sells,
         acked' \subseteq 1..sells, \A a \in acks' : a.sell \notin acked'
  PROVE  SellInv'
<1>1. Len(wsq) \in Nat /\ Len(wsq') \in Nat /\ k \in Nat
  BY DEF IInv, TypeInv, MessageInv, Taken
<1>2. ASSUME NEW i \in 1..Len(wsq')
      PROVE  i \in Nat /\ i + k \in 1..Len(wsq) /\ wsq'[i] = wsq[i + k]
  BY <1>1 DEF Taken
<1>3. \A i \in 1..Len(wsq') : Sale(wsq'[i]) => wsq'[i].sell \in 1..sells /\ wsq'[i].lots \in Lots
  BY <1>2 DEF SellInv
<1>4. ASSUME NEW i \in 1..Len(wsq'), NEW j \in 1..Len(wsq'), Sale(wsq'[i]), Sale(wsq'[j]),
             wsq'[i].sell = wsq'[j].sell
      PROVE  i = j
  <2>1. i + k = j + k
    BY <1>2, <1>4 DEF SellInv
  <2> QED BY <1>1, <1>2, <2>1
<1>5. ASSUME NEW a \in acks', NEW i \in 1..Len(wsq'), Sale(wsq'[i]), wsq'[i].sell = a.sell
      PROVE  wsq'[i].token = a.token /\ wsq'[i].lots = a.lots
  BY <1>2, <1>5 DEF SellInv
<1>6. \A a \in acks' : a.sell \in 1..sells /\ a.lots \in Lots
  BY DEF SellInv
<1>7. \A a, b \in acks' : a.sell = b.sell => a = b
  BY DEF SellInv
<1> QED BY <1>3, <1>4, <1>5, <1>6, <1>7 DEF SellInv, Sale

\* A report that is no SELL changes nothing about SELLs.
LEMMA SellInvTold ==
  ASSUME IInv, SellInv, NEW m \in Message, Tell(m), ~Sale(m), UNCHANGED <<acks, acked, sells>>
  PROVE  /\ SellInv'
         /\ \A s, t, q : Owed(s, t, q)' => Owed(s, t, q)
<1>1. /\ Len(wsq) \in Nat /\ Len(wsq') = Len(wsq) + 1
      /\ \A i \in 1..Len(wsq') : wsq'[i] = IF i <= Len(wsq) THEN wsq[i] ELSE m
      /\ \A i \in 1..Len(wsq') : i \in 1..Len(wsq) \/ i = Len(wsq) + 1
  BY Told
<1>2. \A i \in 1..Len(wsq') : Sale(wsq'[i]) => i \in 1..Len(wsq) /\ wsq'[i] = wsq[i]
  BY <1>1
<1>3. SellInv'
  BY <1>2 DEF SellInv, Sale
<1>4. \A s, t, q : Owed(s, t, q)' => Owed(s, t, q)
  BY <1>2 DEF Owed, Sale
<1> QED BY <1>3, <1>4

\* A SELL has a number of its own.
LEMMA SellInvSold ==
  ASSUME IInv, SellInv, NEW t \in Token, NEW q \in Lots, sells' = sells + 1,
         NEW m \in Message, Tell(m), Sale(m), m.sell = sells + 1, m.token = t, m.lots = q,
         \/ acks' = acks
         \/ acks' = acks \cup {[sell |-> sells + 1, token |-> t, lots |-> q]},
         acked' = acked
  PROVE  /\ SellInv'
         /\ \A s, x, p : Owed(s, x, p)' =>
              Owed(s, x, p) \/ (s = sells + 1 /\ x = t /\ p = q)
         /\ \A s, x, p : Owed(s, x, p) => s \in 1..sells
<1>0. sells \in Nat /\ \A i \in 1..sells : i \in 1..(sells + 1) /\ i # sells + 1
  BY DEF IInv, TypeInv, MessageInv
<1>1. /\ Len(wsq) \in Nat /\ Len(wsq') = Len(wsq) + 1
      /\ \A i \in 1..Len(wsq') : wsq'[i] = IF i <= Len(wsq) THEN wsq[i] ELSE m
      /\ \A i \in 1..Len(wsq') : i \in 1..Len(wsq) \/ i = Len(wsq) + 1
  BY Told
<1>2. \A i \in 1..Len(wsq') :
        \/ i \in 1..Len(wsq) /\ wsq'[i] = wsq[i]
        \/ i = Len(wsq) + 1 /\ wsq'[i] = m
  BY <1>1
<1> DEFINE new == [sell |-> sells + 1, token |-> t, lots |-> q]
<1>3. new.sell = sells + 1 /\ new.token = t /\ new.lots = q
  OBVIOUS
<1>4. \A a \in acks' : a \in acks \/ a = new
  OBVIOUS
<1> HIDE DEF new
<1>5. acked' \subseteq 1..sells'
  BY <1>0 DEF SellInv
<1>6. \A a \in acks' : a.sell \in 1..sells' /\ a.sell \notin acked' /\ a.lots \in Lots
  <2>1. \A a \in acks : a.sell \in 1..sells' /\ a.sell \notin acked' /\ a.lots \in Lots
    BY <1>0 DEF SellInv
  <2>2. new.sell \in 1..sells' /\ new.sell \notin acked' /\ new.lots \in Lots
    BY <1>0, <1>3 DEF SellInv
  <2> QED BY <1>4, <2>1, <2>2
<1>7. \A a, b \in acks' : a.sell = b.sell => a = b
  <2>1. \A a \in acks : a.sell # new.sell
    BY <1>0, <1>3 DEF SellInv
  <2> QED BY <1>4, <2>1 DEF SellInv
<1>8. \A i \in 1..Len(wsq') : Sale(wsq'[i]) => wsq'[i].sell \in 1..sells' /\ wsq'[i].lots \in Lots
  BY <1>0, <1>2 DEF SellInv
<1>9. \A i, j \in 1..Len(wsq') : Sale(wsq'[i]) /\ Sale(wsq'[j]) /\ wsq'[i].sell = wsq'[j].sell => i = j
  <2>1. \A i \in 1..Len(wsq) : Sale(wsq[i]) => wsq[i].sell # m.sell
    BY <1>0 DEF SellInv
  <2> QED BY <1>2, <2>1 DEF SellInv
<1>10. \A a \in acks', i \in 1..Len(wsq') :
         Sale(wsq'[i]) /\ wsq'[i].sell = a.sell => wsq'[i].token = a.token /\ wsq'[i].lots = a.lots
  <2>1. ASSUME NEW a \in acks', NEW i \in 1..Len(wsq'), Sale(wsq'[i]), wsq'[i].sell = a.sell
        PROVE  wsq'[i].token = a.token /\ wsq'[i].lots = a.lots
    <3>1. CASE a \in acks /\ i \in 1..Len(wsq) /\ wsq'[i] = wsq[i]
      BY <2>1, <3>1 DEF SellInv
    <3>2. CASE a \in acks /\ wsq'[i] = m
      BY <1>0, <2>1, <3>2 DEF SellInv
    <3>3. CASE a = new /\ i \in 1..Len(wsq) /\ wsq'[i] = wsq[i]
      BY <1>0, <1>3, <2>1, <3>3 DEF SellInv
    <3>4. CASE a = new /\ wsq'[i] = m
      BY <1>3, <3>4
    <3> QED BY <1>2, <1>4, <3>1, <3>2, <3>3, <3>4
  <2> QED BY <2>1
<1>11. SellInv'
  BY <1>5, <1>6, <1>7, <1>8, <1>9, <1>10 DEF SellInv, Sale
<1>12. \A s, x, p : Owed(s, x, p)' => Owed(s, x, p) \/ (s = sells + 1 /\ x = t /\ p = q)
  <2>1. ASSUME NEW s, NEW x, NEW p, Owed(s, x, p)'
        PROVE  Owed(s, x, p) \/ (s = sells + 1 /\ x = t /\ p = q)
    <3>1. CASE \E a \in acks' : a.sell = s /\ a.token = x /\ a.lots = p
      BY <1>3, <1>4, <3>1 DEF Owed
    <3>2. CASE s \notin acked' /\ \E i \in 1..Len(wsq') :
                 Sale(wsq'[i]) /\ wsq'[i].sell = s /\ wsq'[i].token = x /\ wsq'[i].lots = p
      BY <1>2, <3>2 DEF Owed
    <3> QED BY <2>1, <3>1, <3>2 DEF Owed, Sale
  <2> QED BY <2>1
<1>13. \A s, x, p : Owed(s, x, p) => s \in 1..sells
  BY DEF Owed, SellInv
<1> QED BY <1>11, <1>12, <1>13

\* The reports taken from the user channel owe nothing new.
LEMMA OwedTaken ==
  ASSUME IInv, IInv', NEW k, Taken(k), acks' \subseteq acks, acked \subseteq acked'
  PROVE  \A s, t, q : Owed(s, t, q)' => Owed(s, t, q)
<1>1. Len(wsq) \in Nat /\ Len(wsq') \in Nat
  BY DEF IInv, TypeInv, MessageInv
<1>2. \A i \in 1..Len(wsq') : i + k \in 1..Len(wsq) /\ wsq'[i] = wsq[i + k]
  BY <1>1 DEF Taken
<1> QED BY <1>2 DEF Owed, Sale

\* A handler starts a runner in the market's window only.
LEMMA WindowInvPublish ==
  ASSUME IInv, WindowInv, NEW l, NEW m, Publish(l, m), m \in {0, window'},
         window' \in Nat, window' >= window, UNCHANGED held
  PROVE  WindowInv'
<1>0. window \in Nat /\ \A t \in Token : WindowOf[t] \in Nat \ {0}
  BY AutoTradingAssumption DEF IInv, TypeInv, TypeOK
<1>1. market' = m
  BY DEF Publish
<1>2. \A r \in Runner : \/ runner'[r] = runner[r]
                        \/ runner'[r].token = signal' /\ signal' \in Token /\ WindowOf[signal'] = m
  BY PublishStarts DEF IInv
<1>3. \A r \in Runner : runner[r].pc # "off" => runner[r].token \in Token
  BY DEF IInv, TypeInv, RunnerInv
<1>4. \A t \in Token : held'[t] > 0 => WindowOf[t] <= window'
  BY <1>0 DEF WindowInv
<1>5. ASSUME NEW r \in Runner, runner'[r].pc # "off" PROVE WindowOf[runner'[r].token] <= window'
  BY <1>0, <1>2, <1>3, <1>5 DEF WindowInv
<1> QED BY <1>1, <1>4, <1>5 DEF WindowInv

LEMMA WindowInvStays ==
  ASSUME IInv, WindowInv, UNCHANGED <<market, window>>,
         \A r \in Runner : runner'[r].pc # "off" =>
           runner[r].pc # "off" /\ runner'[r].token = runner[r].token,
         \A t \in Token : held'[t] > 0 => held[t] > 0 \/ \E r \in Runner :
           runner[r].pc # "off" /\ runner[r].token = t
  PROVE  WindowInv'
BY DEF WindowInv

-------------------------------------------------------------------------------
(* Handlers keep the account. *)

LEMMA HandlerAccounts ==
  ASSUME IInv, IInv', NEW k, Taken(k), UNCHANGED live, NEW l, NEW m, Publish(l, m),
         \A t \in Token : Out(t)' \in Nat,
         \A t \in Token : WindowOf[t] = m /\ t \notin l.inf => Out(t)' <= l.opn[t],
         \A r \in Runner : \A t \in Token :
           Remains(r) /\ runner[r].token = t /\ WindowOf[t] = m =>
             Out(t)' <= IF Filled(r)' THEN LotsPerOrder ELSE 0
  PROVE  Accounted'
<1>0. LotsPerOrder \in Nat
  BY AutoTradingAssumption
<1>1. /\ \A r \in Runner : \/ runner'[r] = runner[r]
                           \/ /\ runner[r] = Off /\ runner'[r].pc = "check"
                              /\ runner'[r].token = signal' /\ signal' \notin l.inf
                              /\ in_flight' = l.inf \cup {signal'}
                              /\ signal' \in Token /\ WindowOf[signal'] = m
                              /\ l.opn[signal'] = 0
      /\ l.inf \subseteq in_flight'
  BY PublishStarts DEF IInv
<1>2. \A r \in Runner : Claims(r)' =>
        Remains(r) \/ (runner[r] = Off /\ runner'[r].pc = "check")
  BY <1>1, TakenClaims
<1>3. market' = m /\ open' = l.opn
  BY DEF Publish
<1>4. ASSUME NEW t \in Token, WindowOf[t] = m, t \notin in_flight' PROVE Out(t)' <= open'[t]
  BY <1>1, <1>3, <1>4
<1>5. ASSUME NEW r \in Runner, Claims(r)', NEW t \in Token, runner'[r].token = t, WindowOf[t] = m
      PROVE  Out(t)' <= IF Filled(r)' THEN LotsPerOrder ELSE 0
  <2>1. CASE runner'[r] = runner[r]
    <3>1. Remains(r)
      BY <1>2, <1>5, <2>1 DEF Off
    <3> QED BY <1>5, <2>1, <3>1
  <2>2. CASE runner'[r] # runner[r]
    <3>1. t \notin l.inf /\ l.opn[t] = 0
      BY <1>1, <1>5, <2>2
    <3>2. Out(t)' <= 0
      BY <1>5, <3>1
    <3> QED BY <1>0, <3>2
  <2> QED BY <2>1, <2>2
<1>6. \A t \in OfMarket' : t \notin in_flight' => Out(t)' <= open'[t]
  BY <1>3, <1>4 DEF OfMarket
<1>7. ASSUME NEW r \in Runner, Claims(r)', runner'[r].token \in OfMarket'
      PROVE  Out(runner[r].token)' <= IF Filled(r)' THEN LotsPerOrder ELSE 0
  <2>1. PICK t \in Token : t = runner'[r].token /\ WindowOf[t] = m
    BY <1>3, <1>7 DEF OfMarket
  <2>2. Out(t)' <= IF Filled(r)' THEN LotsPerOrder ELSE 0
    BY <1>5, <1>7, <2>1
  <2>3. Out(t)' = Out(runner[r].token)'
    BY <2>1 DEF Out, OwedLots, Owed
  <2> QED BY <2>2, <2>3
<1> QED BY <1>6, <1>7 DEF Accounted

\* The report of a fill stays until its runner's claim goes with it.
LEMMA FilledStays ==
  ASSUME IInv, IInv', Early, Late, UNCHANGED live,
         \/ UNCHANGED <<done, wsq>>
         \/ UNCHANGED wsq /\ \E m \in done : done' = done \ {m}
         \/ UNCHANGED done /\ wsq # <<>> /\ wsq' = Tail(wsq),
         NEW r \in Runner, Remains(r), Filled(r)
  PROVE  Filled(r)'
<1>1. CASE UNCHANGED <<done, wsq>>
  BY <1>1 DEF Filled, Answers, Tells, OfOrder
<1>2. ASSUME UNCHANGED wsq, NEW m \in done, done' = done \ {m} PROVE Filled(r)'
  <2>1. CASE \E i : Tells(r, i) /\ wsq[i].type = "BUY"
    BY <1>2, <2>1 DEF Filled, Tells, OfOrder
  <2>2. ASSUME NEW n, Answers(r, n), n.filled > 0 PROVE Filled(r)'
    <3>1. n # m
      <4>1. ASSUME n = m PROVE FALSE
        <5>1. Answers(r, m) /\ Final(m)
          BY <2>2, <4>1 DEF Final
        <5> QED BY <1>2, <5>1, LastAnswer
      <4> QED BY <4>1
    <3>2. Answers(r, n)'
      BY <1>2, <2>2, <3>1 DEF Answers
    <3> QED BY <2>2, <3>2 DEF Filled
  <2> QED BY <2>1, <2>2 DEF Filled
<1>3. CASE UNCHANGED done /\ wsq # <<>> /\ wsq' = Tail(wsq)
  <2>0. wsq \in Seq(Message)
    BY DEF IInv, TypeInv, MessageInv
  <2>1. CASE \E m : Answers(r, m) /\ m.filled > 0
    BY <1>3, <2>1 DEF Filled, Answers
  <2>2. ASSUME NEW i, Tells(r, i), wsq[i].type = "BUY" PROVE Filled(r)'
    <3>1. i # 1
      BY <1>3, <2>2, LastReport
    <3>2. i - 1 \in 1..Len(wsq') /\ wsq'[i - 1] = wsq[i]
      BY <1>3, <2>0, <2>2, <3>1 DEF Tells
    <3>3. Tells(r, i - 1)'
      BY <2>2, <3>2 DEF Tells, OfOrder
    <3> QED BY <2>2, <3>2, <3>3 DEF Filled
  <2> QED BY <2>1, <2>2 DEF Filled
<1> QED BY <1>1, <1>2, <1>3

\* With less owed than before, only the tokens that are given up or sold need care.
LEMMA HandlerAccountsLess ==
  ASSUME IInv, IInv', Early, Late, Claimed, Accounted, NEW k, Taken(k),
         UNCHANGED <<live, held, sells>>,
         \/ UNCHANGED <<done, wsq>>
         \/ UNCHANGED wsq /\ \E m \in done : done' = done \ {m}
         \/ UNCHANGED done /\ wsq # <<>> /\ wsq' = Tail(wsq),
         \A s, t, q : Owed(s, t, q)' => Owed(s, t, q),
         NEW l, Publish(l, market),
         \A t \in OfMarket : t \notin l.inf => Out(t)' <= l.opn[t]
  PROVE  Accounted'
<1>1. SellTypes
  BY DEF SellTypes, IInv, TypeInv, TypeOK, MessageInv
<1>2. \A t \in Token : Out(t)' \in Nat /\ Out(t) \in Nat /\ Out(t)' <= Out(t)
  BY <1>1, OwesNoMore
<1>3. \A t \in Token : WindowOf[t] = market /\ t \notin l.inf => Out(t)' <= l.opn[t]
  BY DEF OfMarket
<1>4. ASSUME NEW r \in Runner, NEW t \in Token, Remains(r), runner[r].token = t, WindowOf[t] = market
      PROVE  Out(t)' <= IF Filled(r)' THEN LotsPerOrder ELSE 0
  <2>1. Claims(r)
    BY <1>4, TakenMessages DEF Remains, Claims
  <2>2. Out(t) <= IF Filled(r) THEN LotsPerOrder ELSE 0
    BY <1>4, <2>1 DEF Accounted, OfMarket
  <2>3. Filled(r) => Filled(r)'
    BY <1>4, FilledStays
  <2>4. LotsPerOrder \in Nat
    BY AutoTradingAssumption
  <2> HIDE DEF Out
  <2> QED BY <1>2, <2>2, <2>3, <2>4
<1> QED BY <1>2, <1>3, <1>4, HandlerAccounts

\* The token of a runner whose claim goes may be given up: nothing is out beyond what is
\* booked with it.
LEMMA GivenUp ==
  ASSUME Accounted, NEW r \in Runner, Claims(r), NEW t \in OfMarket, runner[r].token = t
  PROVE  Out(t) <= IF Filled(r) THEN LotsPerOrder ELSE 0
BY DEF Accounted

LEMMA DoneKeepsExposure ==
  ASSUME IInv, IInv', Gentle, BuyInv, ExposureInv, NEW m \in done, AutoTradingBuyDone(m)
  PROVE  ExposureInv'
<1> DEFINE r == m.order[1]
           l == DoneEffect(m)
<1>1. /\ Labelled /\ Early /\ Late /\ Claimed /\ WindowInv /\ SellInv /\ Accounted
      /\ done' = done \ {m} /\ Publish(l, market)
      /\ UNCHANGED <<scenario, window, wsq, live, held, sells, acks, acked>>
  BY DEF BuyInv, ExposureInv, AutoTradingBuyDone, exchange, Gentle, Calm, Only
<1>2. /\ m \in DoneEvent /\ r \in Runner /\ Answers(r, m) /\ m.token = runner[r].token
      /\ m.filled \in {0, LotsPerOrder} /\ (m.error => m.filled = 0)
  <2>1. m \in DoneEvent
    BY DEF IInv, TypeInv, TypeOK, DoneEvent
  <2>2. m.order \in OrderId /\ r \in Runner
    BY <2>1 DEF DoneEvent, OrderId
  <2> QED BY <1>1, <2>1, <2>2 DEF Answers, Labelled, TokenOf
<1>3. Taken(0)
  <2>1. wsq \in Seq(Message) /\ Len(wsq) \in Nat
    BY DEF IInv, TypeInv, MessageInv
  <2> QED BY <1>1, <2>1 DEF Taken
<1>4. /\ open \in [Token -> Nat] /\ in_flight \subseteq Token /\ LotsPerOrder \in Nat \ {0}
      /\ market \in 0..MaxWindow /\ window \in 0..MaxWindow /\ MaxWindow \in Nat
      /\ \A t \in in_flight : open[t] = 0
  BY AutoTradingAssumption DEF IInv, TypeInv, TypeOK, LedgerInv, ReservedOrHeld
<1>5. SellInv'
  BY <1>1, <1>3, SellInvTaken DEF SellInv
<1>6. WindowInv'
  BY <1>1, <1>4, WindowInvPublish DEF WindowInv
<1>7. \A s, t, q : Owed(s, t, q)' => Owed(s, t, q)
  BY <1>1, <1>3, OwedTaken
<1>8. \A t \in Token : Out(t)' \in Nat /\ Out(t) \in Nat /\ Out(t)' <= Out(t)
  <2>1. SellTypes
    BY DEF SellTypes, IInv, TypeInv, TypeOK, MessageInv
  <2> QED BY <1>1, <1>7, <2>1, OwesNoMore
<1>9. ASSUME NEW t \in OfMarket, t \notin l.inf PROVE Out(t)' <= l.opn[t]
  <2>0. t \in Token
    BY DEF OfMarket
  <2> HIDE DEF Out
  <2>1. CASE t \notin in_flight
    <3>1. Out(t) <= open[t]
      BY <1>1, <1>9, <2>1 DEF Accounted
    <3>2. l.opn[t] >= open[t] /\ open[t] \in Nat /\ l.opn[t] \in Nat
      BY <1>2, <1>4, <2>0 DEF DoneEffect, Bought, DoneEvent
    <3> QED BY <1>8, <2>0, <3>1, <3>2
  <2>2. CASE t \in in_flight
    <3>1. t = m.token /\ Final(m)
      BY <1>9, <2>2 DEF DoneEffect, Bought, Final
    <3>2. Claims(r) /\ runner[r].token = t
      BY <1>2, <3>1 DEF Claims
    <3>3. Out(t) <= IF Filled(r) THEN LotsPerOrder ELSE 0
      BY <1>1, <1>2, <3>2, GivenUp
    <3>4. CASE m.filled > 0
      <4>1. l.opn[t] = open[t] + LotsPerOrder
        BY <1>2, <1>4, <2>0, <3>1, <3>4 DEF DoneEffect, Bought
      <4>2. l.opn[t] = LotsPerOrder
        BY <1>4, <2>2, <4>1
      <4>3. Out(t) <= LotsPerOrder
        BY <1>4, <1>8, <2>0, <3>3
      <4> HIDE DEF l
      <4> QED BY <1>4, <1>8, <2>0, <4>2, <4>3
    <3>5. CASE ~(m.filled > 0)
      <4>1. ~Filled(r)
        BY <1>1, <1>2, <3>1, <3>5 DEF Filled, Late
      <4>2. l.opn[t] = open[t]
        BY <3>1, <3>5 DEF DoneEffect, Final
      <4>3. l.opn[t] = 0
        BY <1>4, <2>2, <4>2
      <4> HIDE DEF l
      <4> QED BY <1>8, <2>0, <3>3, <4>1, <4>3
    <3> QED BY <3>4, <3>5
  <2> QED BY <2>1, <2>2
<1>10. Accounted'
  <2> HIDE DEF l, r
  <2> QED BY <1>1, <1>3, <1>7, <1>9, HandlerAccountsLess
<1> QED BY <1>5, <1>6, <1>10 DEF ExposureInv

LEMMA ChannelKeepsExposure ==
  ASSUME IInv, IInv', Gentle, BuyInv, ExposureInv, UserChannel
  PROVE  ExposureInv'
<1> DEFINE m == Head(wsq)
           l == Reported(m)
<1>1. /\ Labelled /\ Early /\ Late /\ Claimed /\ WindowInv /\ SellInv /\ Accounted
      /\ wsq # <<>> /\ wsq' = Tail(wsq) /\ Publish(l, market)
      /\ \A a \in acks : a.sell # m.sell
      /\ UNCHANGED <<scenario, window, done, live, held, sells, acks, acked>>
  BY DEF BuyInv, ExposureInv, UserChannel, exchange, Gentle, Calm, Only
<1>2. /\ wsq \in Seq(Message) /\ m \in Message /\ m = wsq[1] /\ 1 \in 1..Len(wsq)
  BY <1>1 DEF IInv, TypeInv, MessageInv
<1>3. Taken(1)
  BY <1>1, HeadTaken
<1>4. /\ open \in [Token -> Nat] /\ in_flight \subseteq Token /\ LotsPerOrder \in Nat \ {0}
      /\ market \in 0..MaxWindow /\ window \in 0..MaxWindow /\ MaxWindow \in Nat
      /\ \A t \in in_flight : open[t] = 0
  BY AutoTradingAssumption DEF IInv, TypeInv, TypeOK, LedgerInv, ReservedOrHeld
<1>5. SellInv'
  BY <1>1, <1>3, SellInvTaken DEF SellInv
<1>6. WindowInv'
  BY <1>1, <1>4, WindowInvPublish DEF WindowInv
<1>7. \A s, t, q : Owed(s, t, q)' => Owed(s, t, q)
  BY <1>1, <1>3, OwedTaken
<1>8. SellTypes
  BY DEF SellTypes, IInv, TypeInv, TypeOK, MessageInv
<1>9. \A t \in Token : Out(t)' \in Nat /\ Out(t) \in Nat /\ Out(t)' <= Out(t)
  BY <1>1, <1>7, <1>8, OwesNoMore
<1>10. ASSUME NEW t \in OfMarket, t \notin l.inf PROVE Out(t)' <= l.opn[t]
  <2>0. t \in Token
    BY DEF OfMarket
  <2> HIDE DEF Out
  <2>1. CASE OfOrder(m)
    <3> DEFINE r == m.order[1]
    <3>1. r \in Runner /\ m.token = runner[r].token /\ Tells(r, 1) /\ Claims(r)
      <4>1. m.order \in OrderId /\ m.token = TokenOf(m.order)
        BY <1>1, <1>2, <2>1 DEF Labelled
      <4>2. r \in Runner
        BY <4>1 DEF OrderId
      <4>3. Tells(r, 1)
        BY <1>2, <2>1 DEF Tells
      <4> QED BY <4>1, <4>2, <4>3 DEF TokenOf, Claims
    <3>2. CASE t \notin in_flight
      <4>1. Out(t) <= open[t]
        BY <1>1, <3>2 DEF Accounted
      <4>2. l.opn[t] >= open[t] /\ open[t] \in Nat /\ l.opn[t] \in Nat
        <5>1. CASE m.type = "BUY"
          BY <1>2, <1>4, <2>0, <5>1 DEF Reported, Bought, Message
        <5>2. CASE m.type = "CLOSED"
          BY <1>4, <2>0, <5>2 DEF Reported, Closed
        <5> QED BY <2>1, <5>1, <5>2 DEF OfOrder
      <4> HIDE DEF l
      <4> QED BY <1>9, <2>0, <4>1, <4>2
    <3>3. CASE t \in in_flight
      <4>1. t = m.token
        <5>1. CASE m.type = "BUY"
          BY <1>10, <3>3, <5>1 DEF Reported, Bought
        <5>2. CASE m.type = "CLOSED"
          <6>1. resting[m.order] # NoToken /\ t = resting[m.order]
            BY <1>10, <3>3, <5>2 DEF Reported, Closed
          <6>2. m.order \in OrderId /\ m.token = TokenOf(m.order)
            BY <1>1, <1>2, <2>1 DEF Labelled
          <6> QED BY <1>1, <6>1, <6>2 DEF Labelled
        <5> QED BY <2>1, <5>1, <5>2 DEF OfOrder
      <4>2. Out(t) <= IF Filled(r) THEN LotsPerOrder ELSE 0
        BY <1>1, <3>1, <4>1, GivenUp
      <4>3. open[t] = 0
        BY <1>4, <3>3
      <4>4. CASE m.type = "BUY"
        <5>1. m.lots = LotsPerOrder
          BY <1>1, <1>2, <2>1, <4>4 DEF Labelled
        <5>2. l.opn[t] = open[t] + LotsPerOrder
          BY <1>4, <2>0, <4>1, <4>4, <5>1 DEF Reported, Bought
        <5>3. l.opn[t] = LotsPerOrder
          BY <1>4, <4>3, <5>2
        <5> HIDE DEF l
        <5> QED BY <1>4, <1>9, <2>0, <4>2, <5>3
      <4>5. CASE m.type = "CLOSED"
        <5>1. ~Filled(r)
          <6>1. \A n : ~(Answers(r, n) /\ n.filled > 0)
            BY <1>1, <3>1 DEF Late, Final
          <6>2. \A i : ~(Tells(r, i) /\ wsq[i].type = "BUY")
            BY <1>1, <1>2, <3>1, <4>5 DEF Late
          <6> QED BY <6>1, <6>2 DEF Filled
        <5>2. l.opn[t] = open[t]
          BY <4>5 DEF Reported, Closed
        <5> HIDE DEF l
        <5> QED BY <1>9, <2>0, <4>2, <4>3, <5>1, <5>2
      <4> QED BY <2>1, <4>4, <4>5 DEF OfOrder
    <3> QED BY <3>2, <3>3
  <2>2. CASE ~OfOrder(m)
    <3>1. m.type = "SELL" /\ m.token \in Token /\ m.lots \in Nat /\ Sale(m)
      BY <1>2, <2>2 DEF OfOrder, Message, Sale
    <3>2. m.sell \in 1..sells /\ m.lots \in Lots
      BY <1>1, <1>2, <3>1 DEF SellInv
    <3>3. t \notin in_flight
      BY <1>10, <3>1 DEF Reported, Unchanged
    <3>4. Out(t) <= open[t]
      BY <1>1, <3>3 DEF Accounted
    <3>5. CASE m.sell \in acked \/ t # m.token
      <4>1. l.opn[t] = open[t]
        BY <1>4, <2>0, <3>1, <3>5 DEF Reported, Unchanged, Sold
      <4> HIDE DEF l
      <4> QED BY <1>4, <1>9, <2>0, <3>4, <4>1
    <3>6. CASE m.sell \notin acked /\ t = m.token
      <4>1. Owed(m.sell, t, m.lots)
        BY <1>2, <3>1, <3>6 DEF Owed
      <4>2. \A x, p : Owed(x, t, p)' => x # m.sell
        <5>1. \A i \in 1..Len(wsq') : Sale(wsq'[i]) => wsq'[i].sell # m.sell
          <6>1. ASSUME NEW i \in 1..Len(wsq'), Sale(wsq'[i]), wsq'[i].sell = m.sell PROVE FALSE
            <7>1. i \in Nat /\ i >= 1 /\ i + 1 \in 1..Len(wsq) /\ wsq'[i] = wsq[i + 1]
              BY <1>1, <1>2
            <7>2. i + 1 = 1
              BY <1>1, <1>2, <3>1, <6>1, <7>1 DEF SellInv
            <7> QED BY <7>1, <7>2
          <6> QED BY <6>1
        <5>2. \A a \in acks' : a.sell # m.sell
          BY <1>1
        <5> HIDE DEF m
        <5> QED BY <5>1, <5>2 DEF Owed, Sale
      <4>3. m.lots \in Nat /\ Out(t)' + m.lots <= Out(t)
        BY <1>1, <1>7, <1>8, <2>0, <3>2, <4>1, <4>2, OwesLess
      <4>4. l.opn[t] = IF open[t] > m.lots THEN open[t] - m.lots ELSE 0
        BY <1>4, <2>0, <3>1, <3>6 DEF Reported, Unchanged, Sold
      <4> HIDE DEF l, m
      <4> QED BY <1>4, <1>9, <2>0, <3>4, <4>3, <4>4
    <3> QED BY <3>5, <3>6
  <2> QED BY <2>1, <2>2
<1>11. Accounted'
  <2> HIDE DEF l
  <2> QED BY <1>1, <1>3, <1>7, <1>10, HandlerAccountsLess
<1> QED BY <1>5, <1>6, <1>11 DEF ExposureInv

LEMMA AckKeepsExposure ==
  ASSUME IInv, IInv', Gentle, BuyInv, ExposureInv, NEW a \in acks, SellAck(a)
  PROVE  ExposureInv'
<1> DEFINE l == [Unchanged EXCEPT !.opn = Sold(a.token, a.lots)]
<1>1. /\ Labelled /\ Early /\ Late /\ Claimed /\ WindowInv /\ SellInv /\ Accounted
      /\ acks' = acks \ {a} /\ acked' = acked \cup {a.sell} /\ Publish(l, market)
      /\ UNCHANGED <<scenario, window, done, wsq, live, held, sells>>
  BY DEF BuyInv, ExposureInv, SellAck, exchange, Gentle, Calm, Only
<1>2. /\ a.token \in Token /\ a.lots \in Nat
      /\ open \in [Token -> Nat] /\ in_flight \subseteq Token
      /\ market \in 0..MaxWindow /\ window \in 0..MaxWindow /\ MaxWindow \in Nat
  BY AutoTradingAssumption DEF IInv, TypeInv, TypeOK, MessageInv, Ack
<1>3. a.sell \in 1..sells /\ a.lots \in Lots
  BY <1>1 DEF SellInv
<1>4. Taken(0)
  BY <1>1, NothingTaken
<1>5. SellInv'
  <2>1. acked' \subseteq 1..sells /\ \A b \in acks' : b.sell \notin acked'
    BY <1>1, <1>3 DEF SellInv
  <2> QED BY <1>1, <1>4, <2>1, SellInvTaken
<1>6. WindowInv'
  BY <1>1, <1>2, WindowInvPublish DEF WindowInv
<1>7. \A s, t, q : Owed(s, t, q)' => Owed(s, t, q)
  BY <1>1, <1>4, OwedTaken
<1>8. SellTypes
  BY DEF SellTypes, IInv, TypeInv, TypeOK, MessageInv
<1>9. \A t \in Token : Out(t)' \in Nat /\ Out(t) \in Nat /\ Out(t)' <= Out(t)
  BY <1>1, <1>7, <1>8, OwesNoMore
<1>10. l.inf = in_flight /\ l.opn = Sold(a.token, a.lots)
  BY DEF Unchanged
<1>11. ASSUME NEW t \in OfMarket, t \notin l.inf PROVE Out(t)' <= l.opn[t]
  <2>0. t \in Token
    BY DEF OfMarket
  <2> HIDE DEF Out
  <2>1. Out(t) <= open[t]
    BY <1>1, <1>10, <1>11 DEF Accounted
  <2>2. CASE t # a.token
    <3>1. l.opn[t] = open[t]
      BY <1>2, <1>10, <2>0, <2>2 DEF Sold
    <3> HIDE DEF l
    <3> QED BY <1>2, <1>9, <2>0, <2>1, <3>1
  <2>3. CASE t = a.token
    <3>1. Owed(a.sell, t, a.lots)
      BY <2>3 DEF Owed
    <3>2. \A x, p : Owed(x, t, p)' => x # a.sell
      <4>1. \A b \in acks' : b.sell # a.sell
        BY <1>1 DEF SellInv
      <4> QED BY <1>1, <4>1 DEF Owed
    <3>3. Out(t)' + a.lots <= Out(t)
      BY <1>1, <1>3, <1>7, <1>8, <2>0, <3>1, <3>2, OwesLess
    <3>4. l.opn[t] = IF open[t] > a.lots THEN open[t] - a.lots ELSE 0
      BY <1>2, <1>10, <2>0, <2>3 DEF Sold
    <3> HIDE DEF l
    <3> QED BY <1>2, <1>9, <2>0, <2>1, <3>3, <3>4
  <2> QED BY <2>2, <2>3
<1>12. Accounted'
  <2> HIDE DEF l
  <2> QED BY <1>1, <1>4, <1>7, <1>11, HandlerAccountsLess
<1> QED BY <1>5, <1>6, <1>12 DEF ExposureInv

LEMMA HandlersKeepExposure ==
  ASSUME IInv, IInv', Gentle, BuyInv, ExposureInv,
         \/ Tick \/ StartTrading \/ UserChannel
         \/ \E w \in 1..MaxWindow : MarketRoll(w)
         \/ \E m \in done : AutoTradingBuyDone(m)
         \/ \E a \in acks : SellAck(a)
  PROVE  ExposureInv'
<1>1. Labelled /\ Early /\ Late /\ Claimed /\ WindowInv /\ SellInv /\ Accounted
  BY DEF BuyInv, ExposureInv, Gentle, Calm, Only
<1>2. /\ open \in [Token -> Nat] /\ held \in [Token -> Nat]
      /\ market \in 0..MaxWindow /\ window \in 0..MaxWindow /\ MaxWindow \in Nat
      /\ WindowOf \in [Token -> Nat \ {0}] /\ sells \in Nat
  BY AutoTradingAssumption DEF IInv, TypeInv, TypeOK, MessageInv
<1>3. SellTypes
  BY <1>2 DEF SellTypes
<1>4. ASSUME UNCHANGED <<window, done, live, held, sells, acks, acked, wsq>>,
             Tick \/ StartTrading
      PROVE  SellInv' /\ WindowInv' /\ Taken(0)
             /\ \A t \in Token : Out(t)' \in Nat /\ Out(t) \in Nat /\ Out(t)' <= Out(t)
  <2>1. Taken(0)
    BY <1>4, NothingTaken
  <2>2. SellInv'
    BY <1>1, <1>4, <2>1, SellInvTaken DEF SellInv
  <2>3. WindowInv'
    BY <1>1, <1>2, <1>4, WindowInvPublish DEF WindowInv, Tick, StartTrading
  <2>4. \A s, t, q : Owed(s, t, q)' => Owed(s, t, q)
    BY <1>4, <2>1, OwedTaken
  <2> QED BY <1>3, <1>4, <2>1, <2>2, <2>3, <2>4, OwesNoMore
<1>5. CASE Tick
  <2>1. /\ Publish(Unchanged, market)
        /\ UNCHANGED <<window, done, live, held, sells, acks, acked, wsq>>
    BY <1>5 DEF Tick, exchange
  <2>2. /\ SellInv' /\ WindowInv' /\ Taken(0)
        /\ \A t \in Token : Out(t)' \in Nat /\ Out(t) \in Nat /\ Out(t)' <= Out(t)
    BY <1>4, <1>5, <2>1
  <2>2a. \A s, t, q : Owed(s, t, q)' => Owed(s, t, q)
    BY <2>1, <2>2, OwedTaken
  <2>3. ASSUME NEW t \in OfMarket, t \notin Unchanged.inf PROVE Out(t)' <= Unchanged.opn[t]
    <3>1. t \in Token /\ t \notin in_flight /\ Unchanged.opn[t] = open[t]
      BY <2>3 DEF OfMarket, Unchanged
    <3>2. Out(t) <= open[t]
      BY <1>1, <3>1 DEF Accounted
    <3> HIDE DEF Out
    <3> QED BY <1>2, <2>2, <3>1, <3>2
  <2>4. Accounted'
    BY <1>1, <2>1, <2>2, <2>2a, <2>3, HandlerAccountsLess
  <2> QED BY <2>2, <2>4 DEF ExposureInv
<1>6. CASE StartTrading
  <2>1. /\ Publish(Unchanged, 0)
        /\ UNCHANGED <<window, done, live, held, sells, acks, acked, wsq>>
    BY <1>6 DEF StartTrading, exchange
  <2>2. /\ SellInv' /\ WindowInv' /\ Taken(0)
        /\ \A t \in Token : Out(t)' \in Nat
    BY <1>4, <1>6, <2>1
  <2>3. \A t \in Token : WindowOf[t] # 0
    BY <1>2
  <2>4. Accounted'
    BY <2>1, <2>2, <2>3, HandlerAccounts
  <2> QED BY <2>2, <2>4 DEF ExposureInv
<1>7. ASSUME NEW w \in 1..MaxWindow, MarketRoll(w) PROVE ExposureInv'
  <2>1. /\ w = window + 1 /\ window' = w /\ Quiet /\ Publish(Empty, w)
        /\ UNCHANGED <<scenario, done, live, held, sells, acks, acked, wsq>>
    BY <1>7 DEF MarketRoll, Gentle, Only, exchange
  <2>2. Taken(0)
    BY <2>1, NothingTaken
  <2>3. /\ done = {} /\ wsq = <<>> /\ acks = {} /\ ~Running
        /\ \A o \in OrderId : live[o] = 0
    BY <2>1 DEF Quiet, Reports
  <2>4. SellInv'
    BY <1>1, <2>1, <2>2, SellInvTaken DEF SellInv
  <2>5. WindowInv'
    BY <1>1, <1>2, <2>1, WindowInvPublish
  <2>6. \A r \in Runner : ~Remains(r)
    <3>1. \A r, i : ~Tells(r, i)'
      BY <2>1, <2>3 DEF Tells
    <3> QED BY <2>3, <3>1 DEF Remains, Posts, Answers, Rests, Running
  <2>7. ASSUME NEW t \in Token
        PROVE  Out(t)' = held[t] /\ Out(t)' \in Nat
    <3>1. \A s, q : ~Owed(s, t, q)'
      BY <2>1, <2>3 DEF Owed
    <3>2. OwedLots(t)' = {}
      BY <3>1 DEF OwedLots
    <3>3. Cardinality(OwedLots(t)') = 0
      BY <3>2, FS_EmptySet
    <3> QED BY <1>2, <2>1, <3>3 DEF Out
  <2>8. ASSUME NEW t \in Token, WindowOf[t] = w PROVE Out(t)' <= Empty.opn[t]
    <3>1. ~(held[t] > 0)
      BY <1>1, <1>2, <2>1, <2>8 DEF WindowInv
    <3>2. held[t] = 0 /\ Empty.opn[t] = 0
      BY <1>2, <3>1 DEF Empty
    <3> HIDE DEF Out
    <3> QED BY <2>7, <3>2
  <2>9. Accounted'
    BY <2>1, <2>2, <2>6, <2>7, <2>8, HandlerAccounts
  <2> QED BY <2>4, <2>5, <2>9 DEF ExposureInv
<1> QED BY <1>5, <1>6, <1>7, DoneKeepsExposure, ChannelKeepsExposure, AckKeepsExposure

-------------------------------------------------------------------------------
(* Runners and the exchange keep the account: what is bought was claimed. *)

LEMMA ExposureStays ==
  ASSUME IInv, IInv', SellInv', WindowInv', UNCHANGED <<market, open, in_flight>>,
         \A t \in Token : t \notin in_flight => Out(t)' <= Out(t),
         \A t \in Token : Out(t) \in Nat /\ Out(t)' \in Nat,
         Accounted,
         \A r \in Runner : runner'[r].token = runner[r].token,
         \A r \in Runner : \A t \in Token : Claims(r)' /\ runner[r].token = t /\ t \in OfMarket =>
           Out(t)' <= IF Filled(r)' THEN LotsPerOrder ELSE 0
  PROVE  ExposureInv'
<1>1. OfMarket' = OfMarket /\ OfMarket \subseteq Token
  BY DEF OfMarket
<1>2. open \in [Token -> Nat]
  BY DEF IInv, TypeInv, TypeOK
<1>3. ASSUME NEW t \in OfMarket, t \notin in_flight PROVE Out(t)' <= open[t]
  <2>1. Out(t) <= open[t]
    BY <1>3 DEF Accounted
  <2> HIDE DEF Out
  <2> QED BY <1>1, <1>2, <1>3, <2>1
<1>4. ASSUME NEW r \in Runner, Claims(r)', runner'[r].token \in OfMarket
      PROVE  Out(runner[r].token)' <= IF Filled(r)' THEN LotsPerOrder ELSE 0
  <2>1. PICK t \in Token : t = runner[r].token /\ t = runner'[r].token
    BY <1>1, <1>4
  <2>2. Out(t)' <= IF Filled(r)' THEN LotsPerOrder ELSE 0
    BY <1>4, <2>1
  <2>3. Out(t)' = Out(runner[r].token)'
    BY <2>1 DEF Out, OwedLots, Owed
  <2> QED BY <2>2, <2>3
<1>5. Accounted'
  BY <1>1, <1>3, <1>4 DEF Accounted
<1> QED BY <1>5 DEF ExposureInv

\* Nothing more is out, and every report of a fill whose runner claims still stands.
LEMMA ExposureStaysLess ==
  ASSUME IInv, IInv', SellInv', WindowInv', UNCHANGED <<market, open, in_flight>>, Accounted,
         \A t \in Token : Out(t)' \in Nat /\ Out(t) \in Nat /\ Out(t)' <= Out(t),
         \A r \in Runner : runner'[r].token = runner[r].token,
         \A r \in Runner : Claims(r)' => Claims(r),
         \A r \in Runner : Claims(r)' /\ Filled(r) => Filled(r)'
  PROVE  ExposureInv'
<1>1. LotsPerOrder \in Nat
  BY AutoTradingAssumption
<1>2. ASSUME NEW r \in Runner, NEW t \in Token, Claims(r)', runner[r].token = t, t \in OfMarket
      PROVE  Out(t)' <= IF Filled(r)' THEN LotsPerOrder ELSE 0
  <2>1. Out(t) <= IF Filled(r) THEN LotsPerOrder ELSE 0
    BY <1>2 DEF Accounted
  <2>2. Filled(r) => Filled(r)'
    BY <1>2
  <2> HIDE DEF Out
  <2> QED BY <1>1, <1>2, <2>1, <2>2
<1> QED BY <1>2, ExposureStays

LEMMA RunnersKeepExposure ==
  ASSUME IInv, IInv', BuyInv', Gentle, BuyInv, ExposureInv, NEW r \in Runner,
         Check(r) \/ Rejected(r) \/ Accepted(r) \/ Unheard(r)
  PROVE  ExposureInv'
<1> DEFINE old == runner[r]
           n == old.tries + 1
<1>0. LotsPerOrder \in Nat \ {0} /\ SellTypes /\ live \in [OrderId -> Nat]
  BY AutoTradingAssumption DEF SellTypes, IInv, TypeInv, TypeOK, MessageInv
<1>1. /\ Labelled /\ Early /\ Late /\ Claimed /\ WindowInv /\ SellInv /\ Accounted
  BY DEF BuyInv, ExposureInv, Gentle, Calm, Only
<1>2. /\ runner \in [Runner -> RunnerState] /\ Posts(r) /\ old.token \in Token
      /\ old.pc # "stopped" /\ old.pc # "off"
  <2>1. old.pc \in {"check", "post"}
    BY DEF Check, Rejected, Accepted, Unheard, Accept
  <2> QED BY <2>1 DEF IInv, TypeInv, TypeOK, RunnerInv, RunnerState, Posts
<1>3. UNCHANGED <<market, window, open, in_flight, sells, acks, acked, wsq>>
  BY DEF Check, Rejected, Accepted, Unheard, Accept, ledger, exchange
<1>4. SellInv' /\ \A s, t, q : Owed(s, t, q)' <=> Owed(s, t, q)
  BY <1>1, <1>3 DEF SellInv, Sale, Owed
<1>5. \A x \in Runner : x # r => runner'[x] = runner[x]
  BY <1>2 DEF Check, Rejected, Accepted, Unheard, Retry, Stop
<1>6. runner'[r].token = old.token /\ runner'[r].pc # "off"
  <2>1. ASSUME Stop(r) PROVE runner'[r].token = old.token /\ runner'[r].pc # "off"
    BY <1>2, <2>1 DEF Stop, RunnerState
  <2>2. CASE Check(r)
    BY <1>2, <2>1, <2>2 DEF Check, RunnerState
  <2>3. ASSUME Retry(r) PROVE runner'[r].token = old.token /\ runner'[r].pc # "off"
    <3> DEFINE pc == IF n % Inner = 0 THEN "check" ELSE "post"
    <3>1. pc # "off"
      OBVIOUS
    <3>2. CASE n # Inner * Outer
      <4>1. runner' = [runner EXCEPT ![r].tries = n, ![r].pc = pc]
        BY <2>3, <3>2 DEF Retry
      <4> HIDE DEF pc, n
      <4> QED BY <1>2, <3>1, <4>1 DEF RunnerState
    <3> QED BY <2>1, <2>3, <3>2 DEF Retry
  <2> QED BY <2>1, <2>2, <2>3 DEF Rejected, Accepted, Unheard
<1>7. \A x \in Runner : runner'[x].token = runner[x].token
  BY <1>5, <1>6
<1>8. done \subseteq done' /\ \A x \in Runner : Filled(x) => Filled(x)'
  <2>1. done \subseteq done'
    BY DEF Check, Rejected, Accepted, Unheard, Retry, Report
  <2> QED BY <1>3, <2>1 DEF Filled, Answers, Tells, OfOrder
<1>9. ~Filled(r)
  BY <1>1, <1>2 DEF Early, Filled
<1>10. \A x \in Runner : x # r /\ Claims(x)' => Claims(x)
  <2>1. \A x : x # r => (\A m : Answers(x, m)' => Answers(x, m))
    <3>1. \A m \in done' : m \in done \/ m.order[1] = r
      BY DEF Check, Rejected, Accepted, Unheard, Retry, Report
    <3> QED BY <3>1 DEF Answers
  <2>2. \A x : x # r => (\A o : Rests(x, o)' => Rests(x, o))
    <3>0. ASSUME NEW q, Accept(r, q), NEW o \in OrderId, o[1] # r PROVE live'[o] = live[o]
      <4>1. \E k : live' = [live EXCEPT ![<<r, n>>] = k]
        BY <3>0 DEF Accept
      <4>2. o # <<r, n>>
        BY <3>0
      <4> HIDE DEF n
      <4> QED BY <1>0, <4>1, <4>2
    <3>1. \A o \in OrderId : live'[o] > 0 => live[o] > 0 \/ o[1] = r
      BY <3>0 DEF Check, Rejected, Accepted, Unheard, exchange
    <3> QED BY <3>1 DEF Rests
  <2>3. \A x, i : Tells(x, i)' => Tells(x, i)
    BY <1>3 DEF Tells, OfOrder
  <2>4. \A x \in Runner : x # r /\ Posts(x)' => Posts(x)
    BY <1>5 DEF Posts
  <2> QED BY <2>1, <2>2, <2>3, <2>4 DEF Claims
<1>11. Claims(r)
  BY <1>2 DEF Claims
<1>12. CASE UNCHANGED held
  <2>1. \A t \in Token : Out(t)' \in Nat /\ Out(t) \in Nat /\ Out(t)' <= Out(t)
    BY <1>0, <1>3, <1>4, <1>12, OwesNoMore
  <2>2. \A x \in Runner : Claims(x)' => Claims(x)
    BY <1>10, <1>11
  <2>3. WindowInv'
    BY <1>1, <1>2, <1>3, <1>5, <1>6, <1>12, WindowInvStays
  <2> QED BY <1>1, <1>3, <1>4, <1>7, <1>8, <2>1, <2>2, <2>3, ExposureStaysLess
<1>13. CASE Accepted(r)
  <2>1. PICK q \in 0..LotsPerOrder :
          Accept(r, q) /\ Report(old.token, <<r, n>>, q, FALSE)
    BY <1>13 DEF Accepted
  <2>2. /\ q \in {0, LotsPerOrder} /\ q \in Nat
        /\ held' = [held EXCEPT ![old.token] = @ + q]
    BY <1>0, <2>1 DEF Accept, Gentle, Only
  <2>3. \A s \in Token : /\ Out(s)' \in Nat /\ Out(s) \in Nat
                         /\ Out(s)' <= Out(s) + (IF s = old.token THEN q ELSE 0)
    BY <1>0, <1>2, <1>3, <1>4, <2>2, OwesAsBought
  <2>4. q > 0 => Filled(r)'
    <3> DEFINE report == [token |-> old.token, order |-> <<r, n>>, filled |-> q, error |-> FALSE]
    <3>0. report \in done' /\ report.order[1] = r /\ report.filled = q
      BY <2>1 DEF Report
    <3> HIDE DEF report
    <3>1. PICK m \in done' : m.order[1] = r /\ m.filled = q
      BY <3>0
    <3>2. Answers(r, m)'
      BY <3>1 DEF Answers
    <3> QED BY <3>1, <3>2 DEF Filled
  <2>5. WindowInv'
    <3>1. \A t \in Token : held'[t] > 0 => held[t] > 0 \/ t = old.token
      BY <1>0, <1>2, <2>2 DEF SellTypes
    <3>2. \A t \in Token : held'[t] > 0 => held[t] > 0 \/ \E x \in Runner :
            runner[x].pc # "off" /\ runner[x].token = t
      BY <1>2, <3>1
    <3> QED BY <1>1, <1>2, <1>3, <1>5, <1>6, <3>2, WindowInvStays
  <2>6. old.token \in in_flight
    BY <1>1, <1>11 DEF Claimed
  <2>7. ASSUME NEW t \in Token, t \notin in_flight PROVE Out(t)' <= Out(t)
    <3>1. t # old.token
      BY <2>6, <2>7
    <3> HIDE DEF Out
    <3> QED BY <2>3, <3>1
  <2>8. ASSUME NEW x \in Runner, NEW t \in Token, Claims(x)', runner[x].token = t, t \in OfMarket
        PROVE  Out(t)' <= IF Filled(x)' THEN LotsPerOrder ELSE 0
    <3> HIDE DEF Out
    <3>1. CASE x = r
      <4>1. Out(t) <= 0
        BY <1>1, <1>9, <1>11, <2>8, <3>1 DEF Accounted
      <4>2. Out(t)' <= q
        BY <2>2, <2>3, <2>8, <3>1, <4>1
      <4>3. CASE q = 0
        BY <1>0, <2>3, <4>2, <4>3
      <4>4. CASE q = LotsPerOrder
        BY <1>0, <2>4, <3>1, <4>2, <4>4
      <4> QED BY <2>2, <4>3, <4>4
    <3>2. CASE x # r
      <4>1. Claims(x)
        BY <1>10, <2>8, <3>2
      <4>2. t # old.token
        BY <1>1, <1>11, <2>8, <3>2, <4>1 DEF Claimed
      <4>3. Out(t)' <= Out(t) /\ Out(t) \in Nat /\ Out(t)' \in Nat
        BY <2>3, <4>2
      <4>4. Out(t) <= IF Filled(x) THEN LotsPerOrder ELSE 0
        BY <1>1, <2>8, <4>1 DEF Accounted
      <4>5. Filled(x) => Filled(x)'
        BY <1>8
      <4> QED BY <1>0, <4>3, <4>4, <4>5
    <3> QED BY <3>1, <3>2
  <2> QED BY <1>1, <1>3, <1>4, <1>7, <2>3, <2>5, <2>7, <2>8, ExposureStays
<1>14. CASE Unheard(r)
  BY <1>14 DEF Unheard, Gentle, Only
<1> QED BY <1>12, <1>13, <1>14 DEF Check, Rejected, exchange

LEMMA FilledKept ==
  ASSUME IInv, NEW m \in Message, Tell(m), UNCHANGED done
  PROVE  \A r : Filled(r) => Filled(r)'
<1>1. /\ Len(wsq) \in Nat /\ Len(wsq') = Len(wsq) + 1
      /\ \A i \in 1..Len(wsq') : wsq'[i] = IF i <= Len(wsq) THEN wsq[i] ELSE m
  BY Told
<1>2. \A i \in 1..Len(wsq) : i \in 1..Len(wsq') /\ wsq'[i] = wsq[i]
  BY <1>1
<1>3. \A r, i : Tells(r, i) => Tells(r, i)' /\ wsq'[i] = wsq[i]
  BY <1>2 DEF Tells, OfOrder
<1>4. \A r, n : Answers(r, n) => Answers(r, n)'
  BY DEF Answers
<1>5. ASSUME NEW r, Filled(r) PROVE Filled(r)'
  <2>1. CASE \E n : Answers(r, n) /\ n.filled > 0
    BY <1>4, <2>1 DEF Filled
  <2>2. CASE \E i : Tells(r, i) /\ wsq[i].type = "BUY"
    <3>1. PICK i : Tells(r, i) /\ wsq[i].type = "BUY"
      BY <2>2
    <3>2. Tells(r, i)' /\ wsq'[i].type = "BUY"
      BY <1>3, <3>1
    <3> QED BY <3>2 DEF Filled
  <2> QED BY <1>5, <2>1, <2>2 DEF Filled
<1> QED BY <1>5

LEMMA FillKeepsExposure ==
  ASSUME IInv, IInv', Gentle, BuyInv, ExposureInv, NEW o \in OrderId, MakerFill(o),
         \A x \in Runner : Claims(x)' => Claims(x)
  PROVE  ExposureInv'
<1> DEFINE r == o[1]
<1>0. LotsPerOrder \in Nat \ {0} /\ SellTypes /\ live \in [OrderId -> Nat]
  BY AutoTradingAssumption DEF SellTypes, IInv, TypeInv, TypeOK, MessageInv
<1>1. /\ Labelled /\ Early /\ Late /\ Claimed /\ WindowInv /\ SellInv /\ Accounted
  BY DEF BuyInv, ExposureInv, Gentle, Calm, Only
<1>2. PICK q \in 1..live[o] :
        /\ q = live[o]
        /\ held' = [held EXCEPT ![TokenOf(o)] = @ + q]
        /\ Tell([type |-> "BUY", token |-> TokenOf(o), lots |-> q, order |-> o, sell |-> 0])
  BY DEF MakerFill, Gentle, Only
<1>3. /\ r \in Runner /\ live[o] > 0 /\ q = LotsPerOrder /\ q \in Nat
      /\ Rests(r, o) /\ Claims(r) /\ runner[r].pc # "off"
      /\ TokenOf(o) = runner[r].token /\ runner[r].token \in Token
  <2>1. r \in Runner /\ live[o] > 0 /\ q \in Nat
    BY <1>0, <1>2 DEF OrderId
  <2>2. q = LotsPerOrder
    BY <1>1, <1>2, <2>1 DEF Labelled
  <2>3. Rests(r, o)
    BY <2>1 DEF Rests
  <2>4. runner[r].pc # "off" /\ runner[r].token \in Token
    BY <2>1 DEF IInv, TypeInv, RunnerInv
  <2> QED BY <2>1, <2>2, <2>3, <2>4 DEF Claims, TokenOf
<1> DEFINE m == [type |-> "BUY", token |-> TokenOf(o), lots |-> q, order |-> o, sell |-> 0]
           tok == runner[r].token
<1>4. m \in Message /\ ~Sale(m) /\ Tell(m)
  BY <1>2, <1>3 DEF Message, Sale
<1>5. UNCHANGED <<market, window, open, in_flight, runner, done, sells, acks, acked>>
  BY DEF MakerFill, ledger
<1>6. SellInv' /\ \A s, t, p : Owed(s, t, p)' => Owed(s, t, p)
  <2> HIDE DEF m
  <2> QED BY <1>1, <1>4, <1>5, SellInvTold
<1>7. \A x : Filled(x) => Filled(x)'
  <2> HIDE DEF m
  <2> QED BY <1>4, <1>5, FilledKept
<1>8. Filled(r)'
  <2>1. /\ Len(wsq) + 1 \in 1..Len(wsq') /\ wsq'[Len(wsq) + 1] = m
    <3>1. m \in Message
      BY <1>4
    <3> HIDE DEF m
    <3> QED BY <1>4, Told
  <2>2. m.type = "BUY" /\ m.order[1] = r
    OBVIOUS
  <2> HIDE DEF m
  <2>3. PICK i \in 1..Len(wsq') : wsq'[i].type = "BUY" /\ wsq'[i].order[1] = r
    BY <2>1, <2>2
  <2>4. Tells(r, i)'
    BY <2>3 DEF Tells, OfOrder
  <2> QED BY <2>3, <2>4 DEF Filled
<1>9. ~Filled(r)
  BY <1>1, <1>3 DEF Late, Filled, Final
<1>10. \A s \in Token : /\ Out(s)' \in Nat /\ Out(s) \in Nat
                        /\ Out(s)' <= Out(s) + (IF s = tok THEN q ELSE 0)
  BY <1>0, <1>2, <1>3, <1>5, <1>6, OwesAsBought
<1>11. WindowInv'
  <2>1. \A t \in Token : held'[t] > 0 => held[t] > 0 \/ t = tok
    BY <1>0, <1>2, <1>3 DEF SellTypes
  <2>2. \A t \in Token : held'[t] > 0 => held[t] > 0 \/ \E x \in Runner :
          runner[x].pc # "off" /\ runner[x].token = t
    BY <1>3, <2>1
  <2> QED BY <1>1, <1>5, <2>2, WindowInvStays
<1>12. tok \in in_flight
  BY <1>1, <1>3 DEF Claimed
<1>13. ASSUME NEW t \in Token, t \notin in_flight PROVE Out(t)' <= Out(t)
  <2>1. t # tok
    BY <1>12, <1>13
  <2> HIDE DEF Out, tok
  <2> QED BY <1>10, <2>1
<1>14. ASSUME NEW x \in Runner, NEW t \in Token, Claims(x)', runner[x].token = t, t \in OfMarket
       PROVE  Out(t)' <= IF Filled(x)' THEN LotsPerOrder ELSE 0
  <2>0. Claims(x)
    BY <1>14
  <2>1. Out(t) <= IF Filled(x) THEN LotsPerOrder ELSE 0
    BY <1>1, <1>14, <2>0 DEF Accounted
  <2> HIDE DEF Out
  <2>2. CASE x = r
    <3>1. Out(t) <= 0
      BY <1>9, <2>1, <2>2
    <3>2. Out(t)' <= q
      BY <1>3, <1>10, <1>14, <2>2, <3>1
    <3> QED BY <1>0, <1>3, <1>8, <2>2, <3>2
  <2>3. CASE x # r
    <3>1. t # tok
      BY <1>1, <1>3, <1>14, <2>0, <2>3 DEF Claimed
    <3> HIDE DEF tok
    <3>2. Out(t)' <= Out(t) /\ Out(t) \in Nat /\ Out(t)' \in Nat
      BY <1>10, <3>1
    <3> QED BY <1>0, <1>7, <2>1, <3>2
  <2> QED BY <2>2, <2>3
<1> QED BY <1>1, <1>5, <1>6, <1>10, <1>11, <1>13, <1>14, ExposureStays

LEMMA CloseKeepsExposure ==
  ASSUME IInv, IInv', Gentle, BuyInv, ExposureInv, NEW o \in OrderId, Close(o),
         \A x \in Runner : Claims(x)' => Claims(x)
  PROVE  ExposureInv'
<1>1. /\ WindowInv /\ SellInv /\ Accounted /\ SellTypes
  BY DEF ExposureInv, SellTypes, IInv, TypeInv, TypeOK, MessageInv
<1> DEFINE m == [type |-> "CLOSED", token |-> TokenOf(o), lots |-> 0, order |-> o, sell |-> 0]
<1>2. m \in Message /\ ~Sale(m) /\ Tell(m)
  <2>1. live[o] > 0 /\ Tell(m)
    BY DEF Close
  <2>2. TokenOf(o) \in Token
    BY <2>1 DEF IInv, TypeInv, RunnerInv, TokenOf, OrderId
  <2> QED BY <2>1, <2>2 DEF Message, Sale
<1>3. UNCHANGED <<market, window, open, in_flight, runner, done, held, sells, acks, acked>>
  BY DEF Close, ledger
<1> HIDE DEF m
<1>4. SellInv' /\ \A s, t, p : Owed(s, t, p)' => Owed(s, t, p)
  BY <1>1, <1>2, <1>3, SellInvTold
<1>5. \A x : Filled(x) => Filled(x)'
  BY <1>2, <1>3, FilledKept
<1>6. WindowInv'
  BY <1>1, <1>3 DEF WindowInv
<1>7. \A t \in Token : Out(t)' \in Nat /\ Out(t) \in Nat /\ Out(t)' <= Out(t)
  BY <1>1, <1>3, <1>4, OwesNoMore
<1> QED BY <1>1, <1>3, <1>4, <1>5, <1>6, <1>7, ExposureStaysLess

LEMMA SellKeepsExposure ==
  ASSUME IInv, IInv', Gentle, BuyInv, ExposureInv, NEW t \in Token, NEW q \in Lots,
         NEW taker \in BOOLEAN, SellLots(t, q, taker),
         \A x \in Runner : Claims(x)' => Claims(x)
  PROVE  ExposureInv'
<1>1. /\ WindowInv /\ SellInv /\ Accounted /\ SellTypes
  BY DEF ExposureInv, SellTypes, IInv, TypeInv, TypeOK, MessageInv
<1>2. /\ q <= held[t] /\ sells' = sells + 1 /\ held' = [held EXCEPT ![t] = @ - q]
      /\ \/ acks' = acks
         \/ acks' = acks \cup {[sell |-> sells + 1, token |-> t, lots |-> q]}
      /\ UNCHANGED <<market, window, open, in_flight, runner, done, acked>>
  BY DEF SellLots, ledger
<1> DEFINE m == [type |-> "SELL", token |-> t, lots |-> q, order |-> <<0, 0>>, sell |-> sells']
<1>3. /\ m \in Message /\ Sale(m) /\ Tell(m)
      /\ m.sell = sells + 1 /\ m.token = t /\ m.lots = q
  <2>1. q \in Nat /\ sells' \in Nat
    BY <1>1, <1>2 DEF Lots, SellTypes
  <2> QED BY <1>2, <2>1 DEF Message, Sale, SellLots
<1>4. \E n \in Message : /\ Sale(n) /\ Tell(n) /\ n.sell = sells + 1 /\ n.token = t /\ n.lots = q
  <2> HIDE DEF m
  <2> QED BY <1>3
<1> HIDE DEF m
<1>5. PICK n \in Message : Sale(n) /\ Tell(n) /\ n.sell = sells + 1 /\ n.token = t /\ n.lots = q
  BY <1>4
<1>6. /\ SellInv'
      /\ \A s, x, p : Owed(s, x, p)' => Owed(s, x, p) \/ (s = sells + 1 /\ x = t /\ p = q)
      /\ \A s, x, p : Owed(s, x, p) => s \in 1..sells
  BY <1>1, <1>2, <1>5, SellInvSold
<1>7. \A x : Filled(x) => Filled(x)'
  BY <1>2, <1>5, FilledKept
<1>8. WindowInv'
  <2>1. \A x \in Token : held'[x] > 0 => held[x] > 0
    BY <1>1, <1>2 DEF SellTypes, Lots
  <2> QED BY <1>1, <1>2, <2>1 DEF WindowInv
<1>9. ASSUME NEW x \in Token
      PROVE  Out(x)' \in Nat /\ Out(x) \in Nat /\ Out(x)' <= Out(x)
  <2>1. CASE x = t
    BY <1>1, <1>2, <1>6, <2>1, OwesAsSold
  <2>2. CASE x # t
    <3>1. OwedLots(x)' \in SUBSET OwedLots(x)
      <4>1. \A s, p : Owed(s, x, p)' => Owed(s, x, p)
        BY <1>6, <2>2
      <4> QED BY <1>6, <4>1 DEF OwedLots
    <3>2. IsFiniteSet(OwedLots(x)) /\ Cardinality(OwedLots(x)) \in Nat
      BY <1>1, OwedFinite DEF SellTypes
    <3>3. Cardinality(OwedLots(x)') \in Nat /\ Cardinality(OwedLots(x)') <= Cardinality(OwedLots(x))
      BY <3>1, <3>2, FS_Subset, FS_CardinalityType
    <3>4. held'[x] = held[x] /\ held[x] \in Nat
      BY <1>1, <1>2, <2>2 DEF SellTypes
    <3> QED BY <3>2, <3>3, <3>4 DEF Out
  <2> QED BY <2>1, <2>2
<1> QED BY <1>1, <1>2, <1>6, <1>7, <1>8, <1>9, ExposureStaysLess

LEMMA LossKeepsExposure ==
  ASSUME IInv, IInv', Gentle, BuyInv, ExposureInv, LoseReport,
         \A x \in Runner : Claims(x)' => Claims(x)
  PROVE  ExposureInv'
<1>1. /\ Labelled /\ Early /\ Late /\ WindowInv /\ SellInv /\ Accounted /\ SellTypes
  BY DEF BuyInv, ExposureInv, Gentle, Calm, Only, SellTypes, IInv, TypeInv, TypeOK, MessageInv
<1>2. /\ wsq # <<>> /\ wsq' = Tail(wsq)
      /\ UNCHANGED <<market, window, open, in_flight, runner, done, live, held, sells, acks, acked>>
  BY DEF LoseReport, ledger, exchange
<1>3. Taken(1)
  BY <1>2, HeadTaken
<1>4. SellInv'
  BY <1>1, <1>2, <1>3, SellInvTaken DEF SellInv
<1>5. WindowInv'
  BY <1>1, <1>2 DEF WindowInv
<1>6. \A s, t, p : Owed(s, t, p)' => Owed(s, t, p)
  BY <1>2, <1>3, OwedTaken
<1>7. \A t \in Token : Out(t)' \in Nat /\ Out(t) \in Nat /\ Out(t)' <= Out(t)
  BY <1>1, <1>2, <1>6, OwesNoMore
<1>8. ASSUME NEW r \in Runner, Claims(r)', Filled(r) PROVE Filled(r)'
  <2>1. Remains(r)
    BY <1>2, <1>3, <1>8, TakenClaims DEF Off
  <2> QED BY <1>1, <1>2, <1>8, <2>1, FilledStays
<1> QED BY <1>1, <1>2, <1>4, <1>5, <1>7, <1>8, ExposureStaysLess

LEMMA InitExposureInv == Init => ExposureInv
<1> SUFFICES ASSUME Init PROVE ExposureInv
  OBVIOUS
<1>1. WindowInv
  BY DEF Init, WindowInv, Off
<1>2. SellInv
  BY DEF Init, SellInv
<1>3. Accounted
  <2>1. \A t \in Token : WindowOf[t] # 0
    BY AutoTradingAssumption
  <2>2. OfMarket = {}
    BY <2>1 DEF Init, OfMarket
  <2> QED BY <2>2 DEF Accounted
<1> QED BY <1>1, <1>2, <1>3 DEF ExposureInv

LEMMA ExposureInvNext == IInv /\ BuyInv /\ ExposureInv /\ [Next]_vars => ExposureInv'
<1> SUFFICES ASSUME IInv, BuyInv, ExposureInv, [Next]_vars PROVE ExposureInv'
  OBVIOUS
<1>1. IInv' /\ BuyInv'
  BY IInvNext, BuyInvNext
<1>2. Gentle' <=> Gentle
  <2>1. UNCHANGED scenario
    BY DEF Next, vars, Check, Rejected, Accepted, Unheard, MakerFill, Close, ManualFill, SellLots,
           LoseReport, Tick, StartTrading, UserChannel, MarketRoll, AutoTradingBuyDone, SellAck
  <2> QED BY <2>1 DEF Gentle, Only
<1>3. CASE ~Gentle
  BY <1>2, <1>3 DEF ExposureInv
<1>4. CASE Gentle /\ UNCHANGED vars
  <2>1. UNCHANGED <<market, window, in_flight, open, runner, done, live, held, sells, acks, acked, wsq>>
    BY <1>4 DEF vars, ledger, exchange
  <2>2. WindowInv /\ SellInv /\ Accounted
    BY <1>4 DEF ExposureInv
  <2>3. WindowInv' /\ SellInv'
    BY <2>1, <2>2 DEF WindowInv, SellInv, Sale
  <2>4. \A x : (Claims(x)' <=> Claims(x)) /\ (Filled(x)' <=> Filled(x))
    BY <2>1 DEF Claims, Filled, Posts, Answers, Rests, Tells, OfOrder, Final
  <2>5. \A t \in Token : Out(t)' \in Nat /\ Out(t) \in Nat /\ Out(t)' <= Out(t)
    <3>1. \A s, t, q : Owed(s, t, q)' => Owed(s, t, q)
      BY <2>1 DEF Owed, Sale
    <3>2. SellTypes
      BY DEF SellTypes, IInv, TypeInv, TypeOK, MessageInv
    <3> QED BY <2>1, <3>1, <3>2, OwesNoMore
  <2> QED BY <1>1, <2>1, <2>2, <2>3, <2>4, <2>5, ExposureStaysLess
<1>5. CASE Gentle /\ Next
  <2>0. Calm
    BY <1>5 DEF Gentle, Calm, Only
  <2>1. ASSUME NEW r \in Runner, Check(r) \/ Rejected(r) \/ Accepted(r) \/ Unheard(r)
        PROVE  ExposureInv'
    BY <1>1, <1>5, <2>1, RunnersKeepExposure
  <2>2. ASSUME \/ \E o \in OrderId : MakerFill(o) \/ Close(o)
               \/ \E t \in Token :
                    ManualFill(t) \/ \E q \in Lots, taker \in BOOLEAN : SellLots(t, q, taker)
               \/ LoseReport
        PROVE  ExposureInv'
    <3>1. \A x \in Runner : Claims(x)' => Claims(x)
      BY <1>1, <2>0, <2>2, ExchangeKeepsBuys
    <3>2. ASSUME NEW t \in Token, ManualFill(t) PROVE FALSE
      BY <1>5, <3>2 DEF ManualFill, Gentle, Only
    <3> QED
      BY <1>1, <1>5, <2>2, <3>1, <3>2, FillKeepsExposure, CloseKeepsExposure, SellKeepsExposure,
         LossKeepsExposure
  <2>3. ASSUME \/ Tick \/ StartTrading \/ UserChannel
               \/ \E w \in 1..MaxWindow : MarketRoll(w)
               \/ \E m \in done : AutoTradingBuyDone(m)
               \/ \E a \in acks : SellAck(a)
        PROVE  ExposureInv'
    BY <1>1, <1>5, <2>3, HandlersKeepExposure
  <2> QED BY <1>5, <2>1, <2>2, <2>3 DEF Next
<1> QED BY <1>3, <1>4, <1>5

\* What the exchange has of a token of the market is reserved or held in the ledger.
LEMMA ExposedReserved ==
  ASSUME IInv, BuyInv, ExposureInv, Gentle
  PROVE  Exposed \subseteq Reserved(in_flight, open)
<1>1. Claimed /\ Accounted
  BY DEF BuyInv, ExposureInv, Gentle, Calm, Only
<1>2. SellTypes /\ open \in [Token -> Nat] /\ live \in [OrderId -> Nat]
  BY DEF SellTypes, IInv, TypeInv, TypeOK, MessageInv
<1>3. ASSUME NEW t \in OfMarket, held[t] > 0 PROVE t \in Reserved(in_flight, open)
  <2>0. t \in Token
    BY DEF OfMarket
  <2>1. CASE t \notin in_flight
    <3>1. Out(t) <= open[t]
      BY <1>1, <2>1 DEF Accounted
    <3>2. Cardinality(OwedLots(t)) \in Nat
      BY <1>2, OwedFinite DEF SellTypes
    <3>3. open[t] > 0
      BY <1>2, <1>3, <2>0, <3>1, <3>2 DEF Out, SellTypes
    <3> QED BY <2>0, <3>3 DEF Reserved
  <2> QED BY <2>1 DEF Reserved
<1>4. ASSUME NEW t \in OfMarket, NEW o \in LiveOf(t) PROVE t \in Reserved(in_flight, open)
  <2>1. o \in OrderId /\ live[o] > 0 /\ t = runner[o[1]].token /\ o[1] \in Runner
    BY DEF LiveOf, TokenOf, OrderId
  <2>2. Claims(o[1])
    BY <2>1 DEF Claims, Rests
  <2> QED BY <1>1, <2>1, <2>2 DEF Claimed, Reserved
<1> QED BY <1>3, <1>4 DEF Exposed

-------------------------------------------------------------------------------
(* What is not booked yet: when no report is lost, doubled or ahead of its time, the
   ledger plus the BUYs still to be booked is the wallet plus the SELLs still to be
   booked, for every token of the window. *)

Settling == Only({"partial", "close_first", "manual_maker"})

\* The lots bought that a runner's report, or one of the user channel, will book.
DoneLots(t) ==
  {x \in done \X (1..LotsPerOrder) : x[1].token = t /\ x[2] <= x[1].filled}
ToldLots(t) ==
  {x \in (1..Len(wsq)) \X (1..LotsPerOrder) :
     wsq[x[1]].type = "BUY" /\ wsq[x[1]].token = t /\ x[2] <= wsq[x[1]].lots}
Due(t)  == Cardinality(DoneLots(t)) + Cardinality(ToldLots(t))
Owes(t) == Cardinality(OwedLots(t))

\* A runner reports once, when it stops, and no report tells of more than an order.
ReportInv ==
  /\ IsFiniteSet(done)
  /\ \A m \in done : m.filled <= LotsPerOrder /\ runner[m.order[1]].pc = "stopped"
  /\ \A i \in 1..Len(wsq) : wsq[i].type = "BUY" => wsq[i].lots <= LotsPerOrder
  /\ \A o \in OrderId : live[o] <= LotsPerOrder

Balanced ==
  \A t \in Token : WindowOf[t] = window =>
    /\ open[t] + Due(t) = held[t] + Owes(t)
    /\ Owes(t) <= open[t]

BalanceInv == Settling => WindowInv /\ SellInv /\ ReportInv /\ Balanced

\* q lots of one report are q elements.
LEMMA LotsOf ==
  ASSUME NEW x, NEW q \in Nat
  PROVE  IsFiniteSet({x} \X (1..q)) /\ Cardinality({x} \X (1..q)) = q
<1>1. IsFiniteSet(1..q) /\ Cardinality(1..q) = q
  BY FS_Interval
<1>2. IsFiniteSet({x}) /\ Cardinality({x}) = 1
  BY FS_Singleton
<1>3. IsFiniteSet({x} \X (1..q)) /\ Cardinality({x} \X (1..q)) = 1 * q
  BY <1>1, <1>2, FS_Product
<1> QED BY <1>3

\* Adding the q lots of a report that was not there adds q.
LEMMA LotsAdded ==
  ASSUME NEW S, IsFiniteSet(S), NEW x, NEW q \in Nat, \A y \in S : y[1] # x
  PROVE  /\ IsFiniteSet(S \cup ({x} \X (1..q)))
         /\ Cardinality(S) \in Nat
         /\ Cardinality(S \cup ({x} \X (1..q))) = Cardinality(S) + q
<1> DEFINE L == {x} \X (1..q)
<1>1. IsFiniteSet(L) /\ Cardinality(L) = q
  BY LotsOf
<1>2. S \cap L = {}
  OBVIOUS
<1> HIDE DEF L
<1>3. IsFiniteSet(S \cup L) /\ Cardinality(S \cup L) = Cardinality(S) + q - Cardinality(S \cap L)
  BY <1>1, FS_Union
<1>4. Cardinality(S \cap L) = 0
  BY <1>2, FS_EmptySet
<1>5. Cardinality(S) \in Nat
  BY FS_CardinalityType
<1>6. IsFiniteSet(S \cup L) /\ Cardinality(S \cup L) = Cardinality(S) + q
  BY <1>3, <1>4, <1>5
<1> QED BY <1>5, <1>6 DEF L

\* A set of reports and lots is finite when the reports are.
LEMMA DueFinite ==
  ASSUME IInv, IsFiniteSet(done), NEW t
  PROVE  /\ IsFiniteSet(DoneLots(t)) /\ IsFiniteSet(ToldLots(t))
         /\ Cardinality(DoneLots(t)) \in Nat /\ Cardinality(ToldLots(t)) \in Nat
         /\ Due(t) \in Nat
<1>0. LotsPerOrder \in Nat /\ Len(wsq) \in Nat
  BY AutoTradingAssumption DEF IInv, TypeInv, MessageInv
<1>1. IsFiniteSet(1..LotsPerOrder) /\ IsFiniteSet(1..Len(wsq))
  BY <1>0, FS_Interval
<1>2. IsFiniteSet(done \X (1..LotsPerOrder)) /\ IsFiniteSet((1..Len(wsq)) \X (1..LotsPerOrder))
  BY <1>1, FS_Product
<1>3. /\ DoneLots(t) \in SUBSET (done \X (1..LotsPerOrder))
      /\ ToldLots(t) \in SUBSET ((1..Len(wsq)) \X (1..LotsPerOrder))
  BY DEF DoneLots, ToldLots
<1>4. IsFiniteSet(DoneLots(t)) /\ IsFiniteSet(ToldLots(t))
  BY <1>2, <1>3, FS_Subset
<1> QED BY <1>4, FS_CardinalityType DEF Due


\* What the messages of the other side leave alone stays due.
LEMMA DueSame ==
  ASSUME UNCHANGED <<done, wsq>>
  PROVE  \A t : Due(t)' = Due(t)
BY DEF Due, DoneLots, ToldLots

\* A runner reports what its order was filled with.
LEMMA DueReported ==
  ASSUME IInv, ReportInv, NEW m, m \notin done, m.filled \in Nat, m.filled <= LotsPerOrder,
         done' = done \cup {m}, wsq' = wsq
  PROVE  \A t : /\ Due(t) \in Nat
                /\ Due(t)' = Due(t) + (IF m.token = t THEN m.filled ELSE 0)
<1> SUFFICES ASSUME NEW t
             PROVE  /\ Due(t) \in Nat
                    /\ Due(t)' = Due(t) + (IF m.token = t THEN m.filled ELSE 0)
  OBVIOUS
<1>0. LotsPerOrder \in Nat
  BY AutoTradingAssumption
<1>1. /\ IsFiniteSet(DoneLots(t)) /\ Cardinality(DoneLots(t)) \in Nat
      /\ Cardinality(ToldLots(t)) \in Nat
      /\ Due(t) \in Nat
  BY DueFinite DEF ReportInv
<1>2. ToldLots(t)' = ToldLots(t)
  BY DEF ToldLots
<1>3. CASE m.token # t
  <2>1. DoneLots(t)' = DoneLots(t)
    BY <1>3 DEF DoneLots
  <2> QED BY <1>1, <1>2, <1>3, <2>1 DEF Due
<1>4. CASE m.token = t
  <2>1. DoneLots(t)' = DoneLots(t) \cup ({m} \X (1..m.filled))
    BY <1>0, <1>4 DEF DoneLots
  <2>2. \A y \in DoneLots(t) : y[1] # m
    BY DEF DoneLots
  <2>3. PICK T : T = DoneLots(t)'
    OBVIOUS
  <2>4. Cardinality(T) = Cardinality(DoneLots(t)) + m.filled
    <3>1. PICK S : S = DoneLots(t)
      OBVIOUS
    <3>2. T = S \cup ({m} \X (1..m.filled)) /\ (\A y \in S : y[1] # m) /\ IsFiniteSet(S)
      BY <1>1, <2>1, <2>2, <2>3, <3>1
    <3>3. Cardinality(T) = Cardinality(S) + m.filled
      BY <3>2, LotsAdded, Zenon
    <3> QED BY <3>1, <3>3
  <2> QED BY <1>1, <1>2, <1>4, <2>3, <2>4 DEF Due
<1> QED BY <1>3, <1>4

\* A runner's report is handled.
LEMMA DueHandled ==
  ASSUME IInv, ReportInv, NEW m \in done, done' = done \ {m}, wsq' = wsq
  PROVE  \A t : /\ Due(t) \in Nat /\ Due(t)' \in Nat
                /\ Due(t) = Due(t)' + (IF m.token = t THEN m.filled ELSE 0)
<1> SUFFICES ASSUME NEW t
             PROVE  /\ Due(t) \in Nat /\ Due(t)' \in Nat
                    /\ Due(t) = Due(t)' + (IF m.token = t THEN m.filled ELSE 0)
  OBVIOUS
<1>0. LotsPerOrder \in Nat /\ m.filled \in Nat /\ m.filled <= LotsPerOrder
  BY AutoTradingAssumption DEF IInv, TypeInv, TypeOK, ReportInv
<1>1. /\ IsFiniteSet(DoneLots(t)) /\ Cardinality(DoneLots(t)) \in Nat
      /\ Cardinality(ToldLots(t)) \in Nat
      /\ Due(t) \in Nat
  BY DueFinite DEF ReportInv
<1>2. ToldLots(t)' = ToldLots(t)
  BY DEF ToldLots
<1>3. CASE m.token # t
  <2>1. DoneLots(t)' = DoneLots(t)
    BY <1>3 DEF DoneLots
  <2> QED BY <1>1, <1>2, <1>3, <2>1 DEF Due
<1>4. CASE m.token = t
  <2>1. DoneLots(t) = DoneLots(t)' \cup ({m} \X (1..m.filled))
    BY <1>0, <1>4 DEF DoneLots
  <2>2. \A y \in DoneLots(t)' : y[1] # m
    BY DEF DoneLots
  <2>3. PICK S : S = DoneLots(t)'
    OBVIOUS
  <2>4. IsFiniteSet(S)
    <3>1. S \in SUBSET DoneLots(t)
      BY <2>1, <2>3
    <3> QED BY <1>1, <3>1, FS_Subset
  <2>5. Cardinality(S) \in Nat /\ Cardinality(DoneLots(t)) = Cardinality(S) + m.filled
    <3>1. PICK T : T = DoneLots(t)
      OBVIOUS
    <3>2. T = S \cup ({m} \X (1..m.filled)) /\ \A y \in S : y[1] # m
      BY <2>1, <2>2, <2>3, <3>1
    <3>3. Cardinality(S) \in Nat /\ Cardinality(T) = Cardinality(S) + m.filled
      <4>1. m.filled \in Nat
        BY <1>0
      <4> QED BY <2>4, <3>2, <4>1, LotsAdded, Zenon
    <3> QED BY <3>1, <3>3
  <2> QED BY <1>0, <1>1, <1>2, <1>4, <2>3, <2>5 DEF Due
<1> QED BY <1>3, <1>4

\* What one report of the user channel tells is bought of token t.
Lots1(m, t) == IF m.type = "BUY" /\ m.token = t THEN m.lots ELSE 0

LEMMA DueTold ==
  ASSUME IInv, ReportInv, NEW m \in Message, Tell(m), done' = done,
         m.type = "BUY" => m.lots <= LotsPerOrder
  PROVE  \A t : /\ Due(t) \in Nat /\ Lots1(m, t) \in Nat
                /\ Due(t)' = Due(t) + Lots1(m, t)
<1> SUFFICES ASSUME NEW t
             PROVE  /\ Due(t) \in Nat /\ Lots1(m, t) \in Nat
                    /\ Due(t)' = Due(t) + Lots1(m, t)
  OBVIOUS
<1>0. LotsPerOrder \in Nat /\ m.lots \in Nat
  BY AutoTradingAssumption DEF Message
<1>1. /\ IsFiniteSet(ToldLots(t)) /\ Cardinality(DoneLots(t)) \in Nat
      /\ Cardinality(ToldLots(t)) \in Nat
      /\ Due(t) \in Nat
  BY DueFinite DEF ReportInv
<1>2. DoneLots(t)' = DoneLots(t)
  BY DEF DoneLots
<1>5. /\ Len(wsq) \in Nat /\ Len(wsq') = Len(wsq) + 1
      /\ \A i \in 1..Len(wsq') : wsq'[i] = IF i <= Len(wsq) THEN wsq[i] ELSE m
      /\ \A i \in 1..Len(wsq') : i \in 1..Len(wsq) \/ i = Len(wsq) + 1
  BY Told
<1>6. /\ \A i \in 1..Len(wsq) : i \in 1..Len(wsq') /\ wsq'[i] = wsq[i]
      /\ Len(wsq) + 1 \in 1..Len(wsq') /\ wsq'[Len(wsq) + 1] = m
      /\ Len(wsq) + 1 \notin 1..Len(wsq)
  BY <1>5
<1>3. CASE ~(m.type = "BUY" /\ m.token = t)
  <2>1. ToldLots(t)' = ToldLots(t)
    BY <1>3, <1>5, <1>6 DEF ToldLots
  <2> QED BY <1>1, <1>2, <1>3, <2>1 DEF Due, Lots1
<1>4. CASE m.type = "BUY" /\ m.token = t
  <2>0. 1..m.lots \subseteq 1..LotsPerOrder
    BY <1>0, <1>4
  <2>1. ToldLots(t)' = ToldLots(t) \cup ({Len(wsq) + 1} \X (1..m.lots))
    <3>1. ASSUME NEW x \in ToldLots(t)' PROVE x \in ToldLots(t) \cup ({Len(wsq) + 1} \X (1..m.lots))
      <4>1. /\ x \in (1..Len(wsq')) \X (1..LotsPerOrder)
            /\ wsq'[x[1]].type = "BUY" /\ wsq'[x[1]].token = t /\ x[2] <= wsq'[x[1]].lots
        BY DEF ToldLots
      <4>2. CASE x[1] \in 1..Len(wsq)
        BY <1>6, <4>1, <4>2 DEF ToldLots
      <4>3. CASE x[1] = Len(wsq) + 1
        <5>1. x[2] \in 1..m.lots
          BY <1>0, <1>6, <4>1, <4>3
        <5> QED BY <4>1, <4>3, <5>1
      <4> QED BY <1>5, <4>1, <4>2, <4>3
    <3>2. ASSUME NEW x \in ToldLots(t) PROVE x \in ToldLots(t)'
      BY <1>6 DEF ToldLots
    <3>3. ASSUME NEW x \in {Len(wsq) + 1} \X (1..m.lots) PROVE x \in ToldLots(t)'
      <4>1. x \in (1..Len(wsq')) \X (1..LotsPerOrder) /\ x[1] = Len(wsq) + 1 /\ x[2] <= m.lots
        BY <1>0, <1>6, <2>0
      <4> QED BY <1>4, <1>6, <4>1 DEF ToldLots
    <3> QED BY <3>1, <3>2, <3>3
  <2>2. \A y \in ToldLots(t) : y[1] # Len(wsq) + 1
    BY <1>6 DEF ToldLots
  <2>3. PICK T : T = ToldLots(t)'
    OBVIOUS
  <2>4. Cardinality(T) = Cardinality(ToldLots(t)) + m.lots
    <3>1. PICK S, x : S = ToldLots(t) /\ x = Len(wsq) + 1
      OBVIOUS
    <3>2. T = S \cup ({x} \X (1..m.lots)) /\ (\A y \in S : y[1] # x) /\ IsFiniteSet(S)
      BY <1>1, <2>1, <2>2, <2>3, <3>1
    <3>3. Cardinality(T) = Cardinality(S) + m.lots
      <4>1. m.lots \in Nat
        BY <1>0
      <4> QED BY <3>2, <4>1, LotsAdded, Zenon
    <3> QED BY <3>1, <3>3
  <2> QED BY <1>0, <1>1, <1>2, <1>4, <2>3, <2>4 DEF Due, Lots1
<1> QED BY <1>3, <1>4


\* The first report of the user channel is handled: the others move up.
LEMMA DueHead ==
  ASSUME IInv, ReportInv, wsq # <<>>, wsq' = Tail(wsq), done' = done
  PROVE  \A t : /\ Due(t) \in Nat /\ Due(t)' \in Nat /\ Lots1(wsq[1], t) \in Nat
                /\ Due(t) = Due(t)' + Lots1(wsq[1], t)
<1> SUFFICES ASSUME NEW t
             PROVE  /\ Due(t) \in Nat /\ Due(t)' \in Nat /\ Lots1(wsq[1], t) \in Nat
                    /\ Due(t) = Due(t)' + Lots1(wsq[1], t)
  OBVIOUS
<1>0. /\ wsq \in Seq(Message) /\ Len(wsq) \in Nat /\ 1 \in 1..Len(wsq)
      /\ wsq[1] \in Message /\ LotsPerOrder \in Nat
  BY AutoTradingAssumption DEF IInv, TypeInv, MessageInv
<1>1. /\ wsq[1].lots \in Nat
      /\ wsq[1].type = "BUY" => wsq[1].lots <= LotsPerOrder
  BY <1>0 DEF ReportInv, Message
<1>2. /\ IsFiniteSet(ToldLots(t)) /\ Cardinality(DoneLots(t)) \in Nat
      /\ Cardinality(ToldLots(t)) \in Nat
      /\ Due(t) \in Nat
  BY DueFinite DEF ReportInv
<1>3. DoneLots(t)' = DoneLots(t)
  BY DEF DoneLots
<1>4. /\ Len(wsq') \in Nat
      /\ \A i \in 1..Len(wsq') : i + 1 \in 1..Len(wsq) /\ i + 1 # 1 /\ wsq'[i] = wsq[i + 1]
      /\ \A i \in 1..Len(wsq) : i # 1 => i - 1 \in 1..Len(wsq') /\ (i - 1) + 1 = i
                                         /\ wsq'[i - 1] = wsq[i]
  BY <1>0
\* The lots of the other reports, where they were.
<1> DEFINE Rest == {x \in ToldLots(t) : x[1] # 1}
           up == [x \in Rest |-> <<x[1] - 1, x[2]>>]
<1>5. IsFiniteSet(Rest)
  <2>1. Rest \in SUBSET ToldLots(t)
    OBVIOUS
  <2> QED BY <1>2, <2>1, FS_Subset
<1>6. \A x \in Rest : /\ x \in (1..Len(wsq)) \X (1..LotsPerOrder) /\ x = <<x[1], x[2]>>
                      /\ x[1] # 1 /\ x[1] \in Int
                      /\ wsq[x[1]].type = "BUY" /\ wsq[x[1]].token = t /\ x[2] <= wsq[x[1]].lots
  BY DEF ToldLots
<1>7. up \in [Rest -> ToldLots(t)']
  <2>1. ASSUME NEW x \in Rest PROVE <<x[1] - 1, x[2]>> \in ToldLots(t)'
    <3>1. x[1] - 1 \in 1..Len(wsq') /\ wsq'[x[1] - 1] = wsq[x[1]] /\ x[2] \in 1..LotsPerOrder
      BY <1>4, <1>6
    <3> QED BY <1>6, <3>1 DEF ToldLots
  <2> QED BY <2>1
<1>8. ASSUME NEW x \in Rest, NEW y \in Rest, up[x] = up[y] PROVE x = y
  <2>1. x[1] - 1 = y[1] - 1 /\ x[2] = y[2]
    BY <1>8
  <2>2. x[1] = y[1]
    BY <1>6, <2>1
  <2> QED BY <1>6, <2>1, <2>2
<1>9. ASSUME NEW y \in ToldLots(t)' PROVE \E x \in Rest : up[x] = y
  <2>1. /\ y \in (1..Len(wsq')) \X (1..LotsPerOrder) /\ y = <<y[1], y[2]>>
        /\ wsq'[y[1]].type = "BUY" /\ wsq'[y[1]].token = t /\ y[2] <= wsq'[y[1]].lots
    BY DEF ToldLots
  <2>2. /\ y[1] + 1 \in 1..Len(wsq) /\ y[1] + 1 # 1 /\ wsq'[y[1]] = wsq[y[1] + 1]
        /\ (y[1] + 1) - 1 = y[1] /\ y[2] \in 1..LotsPerOrder
    BY <1>4, <2>1
  <2>3. <<y[1] + 1, y[2]>> \in Rest
    BY <2>1, <2>2 DEF ToldLots
  <2>4. up[<<y[1] + 1, y[2]>>] = <<y[1], y[2]>>
    BY <2>2, <2>3
  <2> QED BY <2>1, <2>3, <2>4
<1>10. /\ IsFiniteSet(ToldLots(t)')
       /\ Cardinality(ToldLots(t)') = Cardinality(Rest)
  <2>1. PICK S, T, f : S = Rest /\ T = ToldLots(t)' /\ f = up
    OBVIOUS
  <2>2. f \in [S -> T] /\ (\A x, y \in S : f[x] = f[y] => x = y) /\ \A y \in T : \E x \in S : f[x] = y
    <3> HIDE DEF up, Rest
    <3> QED BY <1>7, <1>8, <1>9, <2>1
  <2>3. f \in Bijection(S, T)
    BY <2>2, Fun_IsBij
  <2>4. ExistsBijection(S, T)
    BY <2>3 DEF ExistsBijection
  <2>5. IsFiniteSet(T) /\ Cardinality(T) = Cardinality(S)
    BY <1>5, <2>1, <2>4, FS_Bijection
  <2> QED BY <2>1, <2>5
<1>11. Cardinality(Rest) \in Nat
  BY <1>5, FS_CardinalityType
<1>12. CASE ~(wsq[1].type = "BUY" /\ wsq[1].token = t)
  <2>1. Rest = ToldLots(t)
    BY <1>12 DEF ToldLots
  <2> HIDE DEF Rest
  <2> QED BY <1>2, <1>3, <1>10, <1>12, <2>1 DEF Due, Lots1
<1>13. CASE wsq[1].type = "BUY" /\ wsq[1].token = t
  <2>1. PICK S, T, q : S = Rest /\ T = ToldLots(t) /\ q = wsq[1].lots
    OBVIOUS
  <2>2. T = S \cup ({1} \X (1..q))
    <3>1. ASSUME NEW x \in ToldLots(t), x[1] = 1 PROVE x \in {1} \X (1..q)
      BY <1>1, <2>1, <3>1 DEF ToldLots
    <3>2. ASSUME NEW x \in {1} \X (1..q) PROVE x \in ToldLots(t)
      <4>1. x[1] = 1 /\ x[2] \in 1..LotsPerOrder /\ x[2] <= q /\ x = <<x[1], x[2]>>
        BY <1>0, <1>1, <1>13, <2>1
      <4>2. x \in (1..Len(wsq)) \X (1..LotsPerOrder)
        BY <1>0, <4>1
      <4> QED BY <1>13, <2>1, <4>1, <4>2 DEF ToldLots
    <3> QED BY <2>1, <3>1, <3>2
  <2>3. \A y \in S : y[1] # 1
    BY <2>1
  <2>4. IsFiniteSet(S) /\ q \in Nat
    BY <1>1, <1>5, <2>1
  <2>5. Cardinality(T) = Cardinality(S) + q
    <3>1. IsFiniteSet(S)
      BY <2>4
    <3>2. q \in Nat
      BY <2>4
    <3> QED BY <2>2, <2>3, <3>1, <3>2, LotsAdded, Zenon
  <2> HIDE DEF Rest
  <2> QED BY <1>1, <1>2, <1>3, <1>10, <1>11, <1>13, <2>1, <2>4, <2>5 DEF Due, Lots1
<1> QED BY <1>12, <1>13


LEMMA OwesSame ==
  ASSUME sells' = sells, NEW t, \A s, q : Owed(s, t, q)' <=> Owed(s, t, q)
  PROVE  Owes(t)' = Owes(t)
<1>1. OwedLots(t)' = OwedLots(t)
  BY DEF OwedLots
<1> QED BY <1>1 DEF Owes

\* A SELL s of q lots of t is booked: no other report of it is left.
LEMMA OwesBooked ==
  ASSUME sells \in Nat, sells' = sells, NEW s \in 1..sells, NEW t, NEW q \in Lots, Owed(s, t, q),
         \A u, p : Owed(s, u, p) => u = t /\ p = q,
         \A x, u, p : Owed(x, u, p)' <=> Owed(x, u, p) /\ x # s
  PROVE  \A u : /\ Owes(u) \in Nat /\ Owes(u)' \in Nat /\ q \in Nat
                /\ Owes(u) = Owes(u)' + (IF u = t THEN q ELSE 0)
<1> SUFFICES ASSUME NEW u
             PROVE  /\ Owes(u) \in Nat /\ Owes(u)' \in Nat /\ q \in Nat
                    /\ Owes(u) = Owes(u)' + (IF u = t THEN q ELSE 0)
  OBVIOUS
<1>1. IsFiniteSet(OwedLots(u)) /\ Cardinality(OwedLots(u)) \in Nat
  BY OwedFinite
<1>2. q \in Nat /\ 1..q \subseteq Lots
  BY LotsOfSell
<1>3. CASE u # t
  <2>1. OwedLots(u)' = OwedLots(u)
    BY <1>3 DEF OwedLots
  <2> QED BY <1>1, <1>2, <1>3, <2>1 DEF Owes
<1>4. CASE u = t
  <2>1. PICK S, T : S = OwedLots(u)' /\ T = OwedLots(u)
    OBVIOUS
  <2>2. S \subseteq T
    BY <2>1 DEF OwedLots
  <2>3. \A y \in S : y[1] # s
    BY <2>1 DEF OwedLots
  <2>4. T = S \cup ({s} \X (1..q))
    <3>1. ASSUME NEW x \in T PROVE x \in S \cup ({s} \X (1..q))
      <4>1. x \in (1..sells) \X Lots /\ \E p \in Lots : Owed(x[1], u, p) /\ x[2] <= p
        BY <2>1 DEF OwedLots
      <4>2. PICK p \in Lots : Owed(x[1], u, p) /\ x[2] <= p
        BY <4>1
      <4>3. CASE x[1] # s
        BY <2>1, <4>1, <4>2, <4>3 DEF OwedLots
      <4>4. CASE x[1] = s
        <5>1. p = q
          BY <4>2, <4>4
        <5>2. x[2] \in Nat /\ x[2] >= 1
          BY <4>1 DEF Lots
        <5>3. x[2] \in 1..q
          BY <1>2, <4>2, <5>1, <5>2
        <5> QED BY <4>1, <4>4, <5>3
      <4> QED BY <4>3, <4>4
    <3>2. ASSUME NEW x \in {s} \X (1..q) PROVE x \in T
      <4>1. x \in (1..sells) \X Lots /\ x[1] = s /\ x[2] <= q
        BY <1>2
      <4>2. Owed(x[1], u, q)
        BY <1>4, <4>1
      <4> QED BY <2>1, <4>1, <4>2 DEF OwedLots
    <3> QED BY <2>2, <3>1, <3>2
  <2>5. IsFiniteSet(S)
    <3>1. S \in SUBSET T
      BY <2>2
    <3> QED BY <1>1, <2>1, <3>1, FS_Subset
  <2>6. q \in Nat
    BY <1>2
  <2>7. Cardinality(S) \in Nat /\ Cardinality(T) = Cardinality(S) + q
    BY <2>3, <2>4, <2>5, <2>6, LotsAdded, Zenon
  <2> QED BY <1>1, <1>2, <1>4, <2>1, <2>7 DEF Owes
<1> QED BY <1>3, <1>4

\* A new SELL of q lots of t.
LEMMA OwesSold ==
  ASSUME sells \in Nat, sells' = sells + 1, NEW t, NEW q \in Lots,
         \A x, u, p : Owed(x, u, p) => x \in 1..sells,
         \A x, u, p : Owed(x, u, p)' <=>
           Owed(x, u, p) \/ (x = sells + 1 /\ u = t /\ p = q)
  PROVE  \A u : /\ Owes(u) \in Nat /\ q \in Nat
                /\ Owes(u)' = Owes(u) + (IF u = t THEN q ELSE 0)
<1> SUFFICES ASSUME NEW u
             PROVE  /\ Owes(u) \in Nat /\ q \in Nat
                    /\ Owes(u)' = Owes(u) + (IF u = t THEN q ELSE 0)
  OBVIOUS
<1>1. IsFiniteSet(OwedLots(u)) /\ Cardinality(OwedLots(u)) \in Nat
  BY OwedFinite
<1>2. q \in Nat /\ 1..q \subseteq Lots
  BY LotsOfSell
<1>3. 1..sells \subseteq 1..(sells + 1) /\ sells + 1 \in 1..(sells + 1) /\ sells + 1 \notin 1..sells
  OBVIOUS
<1>4. ASSUME NEW x \in OwedLots(u)'
      PROVE  x \in OwedLots(u) \/ (u = t /\ x \in {sells + 1} \X (1..q))
  <2>1. x \in (1..(sells + 1)) \X Lots /\ \E p \in Lots : Owed(x[1], u, p)' /\ x[2] <= p
    BY DEF OwedLots
  <2>2. PICK p \in Lots : Owed(x[1], u, p)' /\ x[2] <= p
    BY <2>1
  <2>3. CASE Owed(x[1], u, p)
    <3>1. x[1] \in 1..sells
      BY <2>3
    <3> QED BY <2>1, <2>2, <2>3, <3>1 DEF OwedLots
  <2>4. CASE x[1] = sells + 1 /\ u = t /\ p = q
    <3>1. x[2] \in Nat /\ x[2] >= 1
      BY <2>1 DEF Lots
    <3>2. x[2] \in 1..q
      BY <1>2, <2>2, <2>4, <3>1
    <3> QED BY <2>1, <2>4, <3>2
  <2> QED BY <2>2, <2>3, <2>4
<1>5. ASSUME NEW x \in OwedLots(u) PROVE x \in OwedLots(u)'
  BY <1>3 DEF OwedLots
<1>6. CASE u # t
  <2>1. OwedLots(u)' = OwedLots(u)
    BY <1>4, <1>5, <1>6
  <2> QED BY <1>1, <1>2, <1>6, <2>1 DEF Owes
<1>7. CASE u = t
  <2>1. PICK S, T, s : S = OwedLots(u) /\ T = OwedLots(u)' /\ s = sells + 1
    OBVIOUS
  <2>2. ASSUME NEW x \in {s} \X (1..q) PROVE x \in T
    <3>1. x \in (1..(sells + 1)) \X Lots /\ x[1] = sells + 1 /\ x[2] <= q
      BY <1>2, <1>3, <2>1
    <3>2. Owed(x[1], u, q)'
      BY <1>7, <3>1
    <3> QED BY <2>1, <3>1, <3>2 DEF OwedLots
  <2>3. T = S \cup ({s} \X (1..q))
    <3>1. T \subseteq S \cup ({s} \X (1..q))
      BY <1>4, <1>7, <2>1
    <3>2. S \subseteq T
      BY <1>5, <2>1
    <3> HIDE DEF OwedLots
    <3> QED BY <2>2, <3>1, <3>2
  <2>4. \A y \in S : y[1] # s
    BY <1>3, <2>1 DEF OwedLots
  <2>5. IsFiniteSet(S)
    BY <1>1, <2>1
  <2>6. q \in Nat
    BY <1>2
  <2>7. Cardinality(S) \in Nat /\ Cardinality(T) = Cardinality(S) + q
    BY <2>3, <2>4, <2>5, <2>6, LotsAdded, Zenon
  <2>8. Owes(u)' = Cardinality(T) /\ Owes(u) = Cardinality(S)
    BY <2>1 DEF Owes
  <2> QED BY <1>1, <1>2, <1>7, <2>1, <2>7, <2>8
<1> QED BY <1>6, <1>7


\* The SELLs owed depend on their own reports alone.
LEMMA OwedKept ==
  ASSUME UNCHANGED <<acks, acked>>,
         \A m : Sale(m) =>
           ((\E i \in 1..Len(wsq') : wsq'[i] = m) <=> \E i \in 1..Len(wsq) : wsq[i] = m)
  PROVE  \A s, t, q : Owed(s, t, q)' <=> Owed(s, t, q)
BY DEF Owed, Sale

\* A report that is no SELL, added at the end, ...
LEMMA OwedTold ==
  ASSUME IInv, NEW n \in Message, Tell(n), ~Sale(n), UNCHANGED <<acks, acked>>
  PROVE  \A s, t, q : Owed(s, t, q)' <=> Owed(s, t, q)
<1>1. /\ Len(wsq) \in Nat /\ Len(wsq') = Len(wsq) + 1
      /\ \A i \in 1..Len(wsq') : wsq'[i] = IF i <= Len(wsq) THEN wsq[i] ELSE n
      /\ \A i \in 1..Len(wsq') : i \in 1..Len(wsq) \/ i = Len(wsq) + 1
  BY Told
<1>2. \A i \in 1..Len(wsq) : i \in 1..Len(wsq') /\ wsq'[i] = wsq[i]
  BY <1>1
<1>3. \A i \in 1..Len(wsq') : wsq'[i] = n \/ (i \in 1..Len(wsq) /\ wsq'[i] = wsq[i])
  BY <1>1
<1> QED BY <1>2, <1>3, OwedKept

\* The first report gone, the others are as they were.
LEMMA HeadGone ==
  ASSUME IInv, wsq # <<>>, wsq' = Tail(wsq)
  PROVE  /\ wsq[1] \in Message /\ 1 \in 1..Len(wsq) /\ Head(wsq) = wsq[1]
         /\ \A i \in 1..Len(wsq') : i + 1 \in 1..Len(wsq) /\ i + 1 # 1 /\ wsq'[i] = wsq[i + 1]
         /\ \A i \in 1..Len(wsq) : i # 1 => i - 1 \in 1..Len(wsq') /\ wsq'[i - 1] = wsq[i]
         /\ \A m : (\E i \in 1..Len(wsq') : wsq'[i] = m)
                     <=> (\E i \in 1..Len(wsq) : i # 1 /\ wsq[i] = m)
<1>1. wsq \in Seq(Message) /\ Len(wsq) \in Nat
  BY DEF IInv, TypeInv, MessageInv
<1>2. wsq[1] \in Message /\ 1 \in 1..Len(wsq) /\ Head(wsq) = wsq[1]
  BY <1>1
<1>3. \A i \in 1..Len(wsq') : i + 1 \in 1..Len(wsq) /\ i + 1 # 1 /\ wsq'[i] = wsq[i + 1]
  BY <1>1
<1>4. \A i \in 1..Len(wsq) : i # 1 => i - 1 \in 1..Len(wsq') /\ wsq'[i - 1] = wsq[i]
  BY <1>1
<1>5. \A m : (\E i \in 1..Len(wsq') : wsq'[i] = m)
               <=> (\E i \in 1..Len(wsq) : i # 1 /\ wsq[i] = m)
  BY <1>3, <1>4
<1> QED BY <1>2, <1>3, <1>4, <1>5

\* ... and one taken from its front, owe and pay nothing.
LEMMA OwedHead ==
  ASSUME IInv, SellInv, wsq # <<>>, wsq' = Tail(wsq), UNCHANGED <<acks, acked>>,
         Sale(wsq[1]) => wsq[1].sell \in acked
  PROVE  \A s, t, q : Owed(s, t, q)' <=> Owed(s, t, q)
<1>1. \A m : (\E i \in 1..Len(wsq') : wsq'[i] = m)
               <=> (\E i \in 1..Len(wsq) : i # 1 /\ wsq[i] = m)
  BY HeadGone
<1>2. ASSUME NEW s, NEW t, NEW q PROVE Owed(s, t, q)' <=> Owed(s, t, q)
  <2>1. ASSUME Owed(s, t, q)' PROVE Owed(s, t, q)
    BY <1>1, <2>1 DEF Owed, Sale
  <2>2. ASSUME Owed(s, t, q) PROVE Owed(s, t, q)'
    <3>1. CASE \E a \in acks : a.sell = s /\ a.token = t /\ a.lots = q
      BY <3>1 DEF Owed
    <3>2. CASE s \notin acked /\ \E i \in 1..Len(wsq) :
                 Sale(wsq[i]) /\ wsq[i].sell = s /\ wsq[i].token = t /\ wsq[i].lots = q
      <4>1. PICK i \in 1..Len(wsq) :
              Sale(wsq[i]) /\ wsq[i].sell = s /\ wsq[i].token = t /\ wsq[i].lots = q
        BY <3>2
      <4>2. i # 1
        BY <3>2, <4>1
      <4>3. PICK j \in 1..Len(wsq') : wsq'[j] = wsq[i]
        BY <1>1, <4>2
      <4> QED BY <3>2, <4>1, <4>3 DEF Owed, Sale
    <3> QED BY <2>2, <3>1, <3>2 DEF Owed
  <2> QED BY <2>1, <2>2
<1> QED BY <1>2

\* A SELL of the user channel that no OrderAck tells of is owed by nothing else.
LEMMA OwedHeadSold ==
  ASSUME IInv, SellInv, wsq # <<>>, wsq' = Tail(wsq), UNCHANGED <<acks, acked>>,
         Sale(wsq[1]), wsq[1].sell \notin acked, \A a \in acks : a.sell # wsq[1].sell
  PROVE  /\ Owed(wsq[1].sell, wsq[1].token, wsq[1].lots)
         /\ \A u, p : Owed(wsq[1].sell, u, p) => u = wsq[1].token /\ p = wsq[1].lots
         /\ \A x, u, p : Owed(x, u, p)' <=> Owed(x, u, p) /\ x # wsq[1].sell
<1>1. /\ \A m : (\E i \in 1..Len(wsq') : wsq'[i] = m)
                  <=> (\E i \in 1..Len(wsq) : i # 1 /\ wsq[i] = m)
      /\ 1 \in 1..Len(wsq)
  BY HeadGone
<1>2. Owed(wsq[1].sell, wsq[1].token, wsq[1].lots)
  BY <1>1 DEF Owed
<1>3. \A i \in 1..Len(wsq) : Sale(wsq[i]) /\ wsq[i].sell = wsq[1].sell => i = 1
  BY <1>1 DEF SellInv
<1>4. \A u, p : Owed(wsq[1].sell, u, p) => u = wsq[1].token /\ p = wsq[1].lots
  BY <1>3 DEF Owed
<1>5. ASSUME NEW x, NEW u, NEW p PROVE Owed(x, u, p)' <=> Owed(x, u, p) /\ x # wsq[1].sell
  <2>1. ASSUME Owed(x, u, p)' PROVE Owed(x, u, p) /\ x # wsq[1].sell
    <3>1. CASE \E a \in acks : a.sell = x /\ a.token = u /\ a.lots = p
      BY <3>1 DEF Owed
    <3>2. CASE x \notin acked /\ \E i \in 1..Len(wsq') :
                 Sale(wsq'[i]) /\ wsq'[i].sell = x /\ wsq'[i].token = u /\ wsq'[i].lots = p
      <4>1. PICK i \in 1..Len(wsq) : i # 1 /\ Sale(wsq[i]) /\ wsq[i].sell = x
                                     /\ wsq[i].token = u /\ wsq[i].lots = p
        BY <1>1, <3>2
      <4> QED BY <1>3, <3>2, <4>1 DEF Owed
    <3> QED BY <2>1, <3>1, <3>2 DEF Owed, Sale
  <2>2. ASSUME Owed(x, u, p), x # wsq[1].sell PROVE Owed(x, u, p)'
    <3>1. CASE \E a \in acks : a.sell = x /\ a.token = u /\ a.lots = p
      BY <3>1 DEF Owed
    <3>2. CASE x \notin acked /\ \E i \in 1..Len(wsq) :
                 Sale(wsq[i]) /\ wsq[i].sell = x /\ wsq[i].token = u /\ wsq[i].lots = p
      <4>1. PICK i \in 1..Len(wsq) :
              Sale(wsq[i]) /\ wsq[i].sell = x /\ wsq[i].token = u /\ wsq[i].lots = p
        BY <3>2
      <4>2. PICK j \in 1..Len(wsq') : wsq'[j] = wsq[i]
        BY <1>1, <2>2, <4>1
      <4> QED BY <3>2, <4>1, <4>2 DEF Owed, Sale
    <3> QED BY <2>2, <3>1, <3>2 DEF Owed
  <2> QED BY <2>1, <2>2
<1> QED BY <1>2, <1>4, <1>5

\* An OrderAck is applied: neither report of its SELL counts any more.
LEMMA OwedAcked ==
  ASSUME IInv, SellInv, NEW a \in acks, acks' = acks \ {a}, acked' = acked \cup {a.sell},
         wsq' = wsq
  PROVE  /\ Owed(a.sell, a.token, a.lots)
         /\ \A u, p : Owed(a.sell, u, p) => u = a.token /\ p = a.lots
         /\ \A x, u, p : Owed(x, u, p)' <=> Owed(x, u, p) /\ x # a.sell
<1>1. Owed(a.sell, a.token, a.lots)
  BY DEF Owed
<1>2. \A u, p : Owed(a.sell, u, p) => u = a.token /\ p = a.lots
  BY DEF Owed, SellInv
<1>3. \A b \in acks : b = a \/ b.sell # a.sell
  BY DEF SellInv
<1>4. \A x, u, p : Owed(x, u, p)' <=> Owed(x, u, p) /\ x # a.sell
  BY <1>3 DEF Owed, Sale
<1> QED BY <1>1, <1>2, <1>4


\* A SELL is owed from the moment it runs.
LEMMA OwedSold ==
  ASSUME IInv, SellInv, NEW t \in Token, NEW q \in Lots, sells' = sells + 1,
         NEW n \in Message, Tell(n), Sale(n), n.sell = sells + 1, n.token = t, n.lots = q,
         \/ acks' = acks
         \/ acks' = acks \cup {[sell |-> sells + 1, token |-> t, lots |-> q]},
         acked' = acked
  PROVE  \A x, u, p : Owed(x, u, p)' <=> Owed(x, u, p) \/ (x = sells + 1 /\ u = t /\ p = q)
<1>1. /\ Len(wsq) \in Nat /\ Len(wsq') = Len(wsq) + 1
      /\ \A i \in 1..Len(wsq') : wsq'[i] = IF i <= Len(wsq) THEN wsq[i] ELSE n
      /\ \A i \in 1..Len(wsq') : i \in 1..Len(wsq) \/ i = Len(wsq) + 1
  BY Told
<1>2. /\ \A i \in 1..Len(wsq) : i \in 1..Len(wsq') /\ wsq'[i] = wsq[i]
      /\ Len(wsq) + 1 \in 1..Len(wsq') /\ wsq'[Len(wsq) + 1] = n
  BY <1>1
<1>3. \A x, u, p : Owed(x, u, p) => Owed(x, u, p)'
  BY <1>2 DEF Owed, Sale
<1>4. ASSUME NEW x, x = sells + 1 PROVE Owed(x, t, q)'
  <2>1. x \notin acked'
    BY <1>4 DEF SellInv, IInv, TypeInv, MessageInv
  <2> QED BY <1>2, <1>4, <2>1 DEF Owed, Sale
<1>5. \A x, u, p : Owed(x, u, p)' => Owed(x, u, p) \/ (x = sells + 1 /\ u = t /\ p = q)
  BY SellInvSold
<1> QED BY <1>3, <1>4, <1>5

-------------------------------------------------------------------------------
(* Handlers keep the balance. *)

LEMMA HandlerKeepsBalance ==
  ASSUME IInv, IInv', ReportInv, WindowInv', SellInv', NEW k, Taken(k), NEW l, NEW m,
         Publish(l, m), live' = live, IsFiniteSet(done'),
         \A t \in Token : WindowOf[t] = window' =>
           /\ l.opn[t] + Due(t)' = held'[t] + Owes(t)'
           /\ Owes(t)' <= l.opn[t]
  PROVE  BalanceInv'
<1>1. Len(wsq) \in Nat /\ Len(wsq') \in Nat
  BY DEF IInv, TypeInv, MessageInv
<1>2. \A i \in 1..Len(wsq') : i + k \in 1..Len(wsq) /\ wsq'[i] = wsq[i + k]
  BY <1>1 DEF Taken
<1>3. \A r \in Runner : runner'[r] = runner[r] \/ runner[r] = Off
  BY PublishStarts DEF IInv
<1>4. \A n \in done' : n \in done /\ n.order[1] \in Runner
  BY DEF Taken, IInv, TypeInv, TypeOK, OrderId
<1>5. ASSUME NEW n \in done'
      PROVE  n.filled <= LotsPerOrder /\ runner'[n.order[1]].pc = "stopped"
  <2>1. n.filled <= LotsPerOrder /\ runner[n.order[1]].pc = "stopped"
    BY <1>4 DEF ReportInv
  <2>2. runner[n.order[1]] # Off
    BY <2>1 DEF Off
  <2> QED BY <1>3, <1>4, <2>1, <2>2
<1>6. \A i \in 1..Len(wsq') : wsq'[i].type = "BUY" => wsq'[i].lots <= LotsPerOrder
  BY <1>2 DEF ReportInv
<1>7. \A o \in OrderId : live'[o] <= LotsPerOrder
  BY DEF ReportInv
<1>8. ReportInv'
  BY <1>5, <1>6, <1>7 DEF ReportInv
<1>9. Balanced'
  <2>1. open' = l.opn
    BY DEF Publish
  <2> QED BY <2>1 DEF Balanced
<1> QED BY <1>8, <1>9 DEF BalanceInv

\* What the arithmetic of a handler is about.
LEMMA BalanceTypes ==
  ASSUME IInv, ReportInv, NEW t \in Token
  PROVE  /\ open[t] \in Nat /\ held[t] \in Nat /\ Due(t) \in Nat /\ Owes(t) \in Nat
         /\ WindowOf[t] \in Nat \ {0} /\ window \in Nat /\ market \in Nat
<1>1. open[t] \in Nat /\ held[t] \in Nat /\ sells \in Nat /\ window \in Nat /\ market \in Nat
  BY AutoTradingAssumption DEF IInv, TypeInv, TypeOK, MessageInv
<1>2. Due(t) \in Nat
  BY DueFinite DEF ReportInv
<1>3. Owes(t) \in Nat
  BY <1>1, OwedFinite DEF Owes
<1> QED BY <1>1, <1>2, <1>3, AutoTradingAssumption

LEMMA IdleKeepsBalance ==
  ASSUME IInv, IInv', Settling, BalanceInv, Tick \/ StartTrading
  PROVE  BalanceInv'
<1>1. WindowInv /\ SellInv /\ ReportInv /\ Balanced
  BY DEF BalanceInv
<1>2. PICK m : /\ Publish(Unchanged, m) /\ m \in {0, market}
               /\ UNCHANGED <<window, done, live, held, sells, acks, acked, wsq>>
  BY DEF Tick, StartTrading, exchange
<1>3. Taken(0)
  BY <1>2, NothingTaken
<1>4. SellInv'
  BY <1>1, <1>2, <1>3, SellInvTaken DEF SellInv
<1>5. WindowInv'
  <2>1. window \in Nat /\ m \in {0, window'}
    BY <1>1, <1>2, AutoTradingAssumption DEF WindowInv, IInv, TypeInv, TypeOK
  <2> QED BY <1>1, <1>2, <2>1, WindowInvPublish
<1>6. ASSUME NEW t \in Token, WindowOf[t] = window'
      PROVE  /\ Unchanged.opn[t] + Due(t)' = held'[t] + Owes(t)'
             /\ Owes(t)' <= Unchanged.opn[t]
  <2>1. Due(t)' = Due(t)
    BY <1>2, DueSame
  <2>2. Owes(t)' = Owes(t)
    <3>1. \A s, q : Owed(s, t, q)' <=> Owed(s, t, q)
      BY <1>2, OwedKept
    <3> QED BY <1>2, <3>1, OwesSame
  <2>3. open[t] + Due(t) = held[t] + Owes(t) /\ Owes(t) <= open[t]
    BY <1>1, <1>2, <1>6 DEF Balanced
  <2> QED BY <1>2, <2>1, <2>2, <2>3 DEF Unchanged
<1>7. IsFiniteSet(done')
  BY <1>1, <1>2 DEF ReportInv
<1> QED BY <1>1, <1>2, <1>3, <1>4, <1>5, <1>6, <1>7, HandlerKeepsBalance


LEMMA DoneKeepsBalance ==
  ASSUME IInv, IInv', Settling, BalanceInv, NEW m \in done, AutoTradingBuyDone(m)
  PROVE  BalanceInv'
<1>1. WindowInv /\ SellInv /\ ReportInv /\ Balanced
  BY DEF BalanceInv
<1>2. /\ done' = done \ {m} /\ Publish(DoneEffect(m), market)
      /\ UNCHANGED <<window, live, held, sells, acks, acked, wsq>>
  BY DEF AutoTradingBuyDone, exchange
<1>3. Taken(0)
  <2>1. wsq \in Seq(Message) /\ Len(wsq) \in Nat
    BY DEF IInv, TypeInv, MessageInv
  <2> QED BY <1>2, <2>1 DEF Taken
<1>4. SellInv'
  BY <1>1, <1>2, <1>3, SellInvTaken DEF SellInv
<1>5. WindowInv'
  <2>1. window \in Nat /\ market \in {0, window'}
    BY <1>1, <1>2, AutoTradingAssumption DEF WindowInv, IInv, TypeInv, TypeOK
  <2> QED BY <1>1, <1>2, <2>1, WindowInvPublish
<1>6. m.token \in Token /\ m.filled \in Nat
  BY DEF IInv, TypeInv, TypeOK
<1>7. ASSUME NEW t \in Token, WindowOf[t] = window'
      PROVE  /\ DoneEffect(m).opn[t] + Due(t)' = held'[t] + Owes(t)'
             /\ Owes(t)' <= DoneEffect(m).opn[t]
  <2>1. open \in [Token -> Nat]
    BY DEF IInv, TypeInv, TypeOK
  <2>2. DoneEffect(m).opn[t] = open[t] + (IF m.token = t THEN m.filled ELSE 0)
    BY <1>6, <2>1 DEF DoneEffect, Bought
  <2>3. Due(t)' \in Nat /\ Due(t) = Due(t)' + (IF m.token = t THEN m.filled ELSE 0)
    BY <1>1, <1>2, DueHandled
  <2>4. Owes(t)' = Owes(t)
    <3>1. \A s, q : Owed(s, t, q)' <=> Owed(s, t, q)
      BY <1>2, OwedKept
    <3> QED BY <1>2, <3>1, OwesSame
  <2>5. open[t] + Due(t) = held[t] + Owes(t) /\ Owes(t) <= open[t]
    BY <1>1, <1>2, <1>7 DEF Balanced
  <2>6. /\ open[t] \in Nat /\ held[t] \in Nat /\ Due(t) \in Nat /\ Owes(t) \in Nat
        /\ held'[t] = held[t]
    BY <1>1, <1>2, BalanceTypes
  <2> QED BY <1>6, <2>2, <2>3, <2>4, <2>5, <2>6
<1>8. IsFiniteSet(done')
  <2>1. done' \in SUBSET done
    BY <1>2
  <2> QED BY <1>1, <2>1, FS_Subset DEF ReportInv
<1> HIDE DEF DoneEffect
<1> QED BY <1>1, <1>2, <1>3, <1>4, <1>5, <1>7, <1>8, HandlerKeepsBalance

\* Booking a SELL takes from the ledger what is owed, never more than it holds.
LEMMA SoldExactly ==
  ASSUME IInv, NEW u \in Token, NEW q \in Nat, NEW t \in Token, NEW n \in Nat,
         (IF t = u THEN q ELSE 0) + n <= open[t]
  PROVE  Sold(u, q)[t] = open[t] - (IF t = u THEN q ELSE 0)
BY DEF Sold, IInv, TypeInv, TypeOK

LEMMA AckKeepsBalance ==
  ASSUME IInv, IInv', Settling, BalanceInv, NEW a \in acks, SellAck(a)
  PROVE  BalanceInv'
<1> DEFINE l == [Unchanged EXCEPT !.opn = Sold(a.token, a.lots)]
<1>1. WindowInv /\ SellInv /\ ReportInv /\ Balanced
  BY DEF BalanceInv
<1>2. /\ acks' = acks \ {a} /\ acked' = acked \cup {a.sell} /\ Publish(l, market)
      /\ UNCHANGED <<window, done, wsq, live, held, sells>>
  BY DEF SellAck, exchange
<1>3. Taken(0)
  BY <1>2, NothingTaken
<1>4. a.sell \in 1..sells /\ a.lots \in Lots /\ a.token \in Token /\ a.lots \in Nat /\ sells \in Nat
  BY <1>1 DEF SellInv, IInv, TypeInv, MessageInv, Ack
<1>5. SellInv'
  <2>1. acked' \subseteq 1..sells /\ \A b \in acks' : b.sell \notin acked'
    BY <1>1, <1>2, <1>4 DEF SellInv
  <2> QED BY <1>1, <1>2, <1>3, <2>1, SellInvTaken
<1>6. WindowInv'
  <2>1. window \in Nat /\ market \in {0, window'}
    BY <1>1, <1>2, AutoTradingAssumption DEF WindowInv, IInv, TypeInv, TypeOK
  <2> QED BY <1>1, <1>2, <2>1, WindowInvPublish
<1>7. l.opn = Sold(a.token, a.lots)
  BY DEF Unchanged
<1> HIDE DEF l
<1>8. \A t \in Token : /\ Owes(t)' \in Nat
                       /\ Owes(t) = Owes(t)' + (IF t = a.token THEN a.lots ELSE 0)
  <2>1. /\ Owed(a.sell, a.token, a.lots)
        /\ \A u, p : Owed(a.sell, u, p) => u = a.token /\ p = a.lots
        /\ \A x, u, p : Owed(x, u, p)' <=> Owed(x, u, p) /\ x # a.sell
    BY <1>1, <1>2, OwedAcked
  <2> QED BY <1>2, <1>4, <2>1, OwesBooked
<1>9. ASSUME NEW t \in Token, WindowOf[t] = window'
      PROVE  l.opn[t] + Due(t)' = held'[t] + Owes(t)' /\ Owes(t)' <= l.opn[t]
  <2>1. Due(t)' = Due(t) /\ held'[t] = held[t]
    BY <1>2, DueSame
  <2>2. open[t] + Due(t) = held[t] + Owes(t) /\ Owes(t) <= open[t]
    BY <1>1, <1>2, <1>9 DEF Balanced
  <2>3. /\ open[t] \in Nat /\ held[t] \in Nat /\ Due(t) \in Nat /\ Owes(t) \in Nat
    BY <1>1, BalanceTypes
  <2>4. Owes(t)' \in Nat /\ Owes(t) = (IF t = a.token THEN a.lots ELSE 0) + Owes(t)'
    BY <1>4, <1>8
  <2>5. l.opn[t] = open[t] - (IF t = a.token THEN a.lots ELSE 0)
    <3>1. PICK n : n = Owes(t)'
      OBVIOUS
    <3>2. n \in Nat /\ (IF t = a.token THEN a.lots ELSE 0) + n <= open[t]
      BY <2>2, <2>4, <3>1
    <3> QED BY <1>4, <1>7, <3>2, SoldExactly
  <2> QED BY <1>4, <2>1, <2>2, <2>3, <2>4, <2>5
<1>10. IsFiniteSet(done')
  BY <1>1, <1>2 DEF ReportInv
<1> QED BY <1>1, <1>2, <1>3, <1>5, <1>6, <1>9, <1>10, HandlerKeepsBalance


LEMMA ChannelKeepsBalance ==
  ASSUME IInv, IInv', Settling, BalanceInv, UserChannel
  PROVE  BalanceInv'
<1> DEFINE m == wsq[1]
           l == Reported(Head(wsq))
<1>1. WindowInv /\ SellInv /\ ReportInv /\ Balanced
  BY DEF BalanceInv
<1>2. /\ wsq # <<>> /\ wsq' = Tail(wsq) /\ Publish(l, market)
      /\ \A a \in acks : a.sell # Head(wsq).sell
      /\ UNCHANGED <<window, done, live, held, sells, acks, acked>>
  BY DEF UserChannel, exchange, Settling, Only
<1>3. Taken(1)
  BY <1>2, HeadTaken
<1>4. m \in Message /\ Head(wsq) = m /\ 1 \in 1..Len(wsq)
  BY <1>2, HeadGone
<1>5. SellInv'
  BY <1>1, <1>2, <1>3, SellInvTaken DEF SellInv
<1>6. WindowInv'
  <2>1. window \in Nat /\ market \in {0, window'}
    BY <1>1, <1>2, AutoTradingAssumption DEF WindowInv, IInv, TypeInv, TypeOK
  <2> QED BY <1>1, <1>2, <2>1, WindowInvPublish
<1>7. /\ m.type \in {"BUY", "SELL", "CLOSED"} /\ m.token \in Token /\ m.lots \in Nat
      /\ open \in [Token -> Nat] /\ sells \in Nat
  BY <1>4 DEF Message, IInv, TypeInv, TypeOK, MessageInv
<1>8. IsFiniteSet(done')
  BY <1>1, <1>2 DEF ReportInv
<1>9. \A t \in Token : /\ Due(t)' \in Nat /\ Due(t) = Due(t)' + Lots1(m, t)
                       /\ held'[t] = held[t]
  BY <1>1, <1>2, DueHead
<1>10. CASE ~Sale(m) \/ m.sell \in acked
  <2>1. \A t \in Token : Owes(t)' = Owes(t)
    <3>1. \A s, t, q : Owed(s, t, q)' <=> Owed(s, t, q)
      BY <1>1, <1>2, <1>10, OwedHead
    <3> QED BY <1>2, <3>1, OwesSame
  <2>2. \A t \in Token : l.opn[t] = open[t] + Lots1(m, t) /\ Lots1(m, t) \in Nat
    BY <1>4, <1>7, <1>10 DEF Reported, Bought, Closed, Unchanged, Lots1, Sale
  <2> HIDE DEF l, m
  <2>3. ASSUME NEW t \in Token, WindowOf[t] = window'
        PROVE  l.opn[t] + Due(t)' = held'[t] + Owes(t)' /\ Owes(t)' <= l.opn[t]
    <3>1. open[t] + Due(t) = held[t] + Owes(t) /\ Owes(t) <= open[t]
      BY <1>1, <1>2, <2>3 DEF Balanced
    <3>2. open[t] \in Nat /\ held[t] \in Nat /\ Due(t) \in Nat /\ Owes(t) \in Nat
      BY <1>1, BalanceTypes
    <3> QED BY <1>9, <2>1, <2>2, <3>1, <3>2
  <2> QED BY <1>1, <1>2, <1>3, <1>5, <1>6, <1>8, <2>3, HandlerKeepsBalance
<1>11. CASE Sale(m) /\ m.sell \notin acked
  <2>1. m.sell \in 1..sells /\ m.lots \in Lots
    BY <1>1, <1>4, <1>11 DEF SellInv
  <2>2. \A t \in Token : /\ Owes(t)' \in Nat
                         /\ Owes(t) = Owes(t)' + (IF t = m.token THEN m.lots ELSE 0)
    <3>1. /\ Owed(m.sell, m.token, m.lots)
          /\ \A u, p : Owed(m.sell, u, p) => u = m.token /\ p = m.lots
          /\ \A x, u, p : Owed(x, u, p)' <=> Owed(x, u, p) /\ x # m.sell
      BY <1>1, <1>2, <1>4, <1>11, OwedHeadSold
    <3>2. PICK s, t, q : s = m.sell /\ t = m.token /\ q = m.lots
      OBVIOUS
    <3> HIDE DEF m
    <3>3. /\ s \in 1..sells /\ q \in Lots /\ Owed(s, t, q)
          /\ \A u, p : Owed(s, u, p) => u = t /\ p = q
          /\ \A x, u, p : Owed(x, u, p)' <=> Owed(x, u, p) /\ x # s
      BY <2>1, <3>1, <3>2
    <3>4. \A u : Owes(u)' \in Nat /\ Owes(u) = Owes(u)' + (IF u = t THEN q ELSE 0)
      BY <1>2, <1>7, <3>3, OwesBooked
    <3> QED BY <3>2, <3>4
  <2>3. l.opn = Sold(m.token, m.lots)
    BY <1>4, <1>11 DEF Reported, Unchanged, Sale
  <2>4. \A t \in Token : Due(t)' = Due(t) /\ Due(t) \in Nat
    BY <1>9, <1>11 DEF Lots1, Sale
  <2> HIDE DEF l, m
  <2>5. ASSUME NEW t \in Token, WindowOf[t] = window'
        PROVE  l.opn[t] + Due(t)' = held'[t] + Owes(t)' /\ Owes(t)' <= l.opn[t]
    <3>1. open[t] + Due(t) = held[t] + Owes(t) /\ Owes(t) <= open[t]
      BY <1>1, <1>2, <2>5 DEF Balanced
    <3>2. open[t] \in Nat /\ held[t] \in Nat /\ Due(t) \in Nat /\ Owes(t) \in Nat
      BY <1>1, BalanceTypes
    <3>3. l.opn[t] = open[t] - (IF t = m.token THEN m.lots ELSE 0)
      <4>1. PICK n, u, q : n = Owes(t)' /\ u = m.token /\ q = m.lots
        OBVIOUS
      <4>2. n \in Nat /\ u \in Token /\ q \in Nat /\ Owes(t) = n + (IF t = u THEN q ELSE 0)
        BY <1>7, <2>2, <4>1
      <4>3. (IF t = u THEN q ELSE 0) + n <= open[t]
        BY <3>1, <3>2, <4>2
      <4>4. Sold(u, q)[t] = open[t] - (IF t = u THEN q ELSE 0)
        BY <4>2, <4>3, SoldExactly
      <4> QED BY <2>3, <4>1, <4>4
    <3>4. (IF t = m.token THEN m.lots ELSE 0) \in Nat
      BY <1>7
    <3> QED BY <1>9, <2>2, <2>4, <3>1, <3>2, <3>3, <3>4
  <2> QED BY <1>1, <1>2, <1>3, <1>5, <1>6, <1>8, <2>5, HandlerKeepsBalance
<1> QED BY <1>10, <1>11

LEMMA RollKeepsBalance ==
  ASSUME IInv, IInv', Settling, BalanceInv, NEW w \in 1..MaxWindow, MarketRoll(w)
  PROVE  BalanceInv'
<1>1. WindowInv /\ SellInv /\ ReportInv /\ Balanced
  BY DEF BalanceInv
<1>2. /\ w = window + 1 /\ window' = w /\ Quiet /\ Publish(Empty, w)
      /\ UNCHANGED <<scenario, done, live, held, sells, acks, acked, wsq>>
  BY DEF MarketRoll, Settling, Only, exchange
<1>3. Taken(0)
  BY <1>2, NothingTaken
<1>4. done = {} /\ wsq = <<>> /\ acks = {}
  BY <1>2 DEF Quiet, Reports
<1>5. SellInv'
  BY <1>1, <1>2, <1>3, SellInvTaken DEF SellInv
<1>6. window \in Nat /\ held \in [Token -> Nat]
  BY AutoTradingAssumption DEF IInv, TypeInv, TypeOK
<1>7. WindowInv'
  BY <1>1, <1>2, <1>6, WindowInvPublish
<1>8. ASSUME NEW t \in Token PROVE Due(t)' = 0 /\ Owes(t)' = 0
  <2>1. \A s, q : ~Owed(s, t, q)'
    BY <1>2, <1>4 DEF Owed
  <2>2. OwedLots(t)' = {}
    BY <2>1 DEF OwedLots
  <2>3. DoneLots(t)' = {}
    BY <1>2, <1>4 DEF DoneLots
  <2>4. ToldLots(t)' = {}
    BY <1>2, <1>4 DEF ToldLots
  <2>5. Cardinality(OwedLots(t)') = 0 /\ Cardinality(DoneLots(t)') = 0 /\ Cardinality(ToldLots(t)') = 0
    BY <2>2, <2>3, <2>4, FS_EmptySet
  <2> QED BY <2>5 DEF Due, Owes
<1>9. ASSUME NEW t \in Token, WindowOf[t] = window'
      PROVE  Empty.opn[t] + Due(t)' = held'[t] + Owes(t)' /\ Owes(t)' <= Empty.opn[t]
  <2>1. ~(held[t] > 0)
    BY <1>1, <1>2, <1>6, <1>9 DEF WindowInv
  <2>2. held'[t] = 0 /\ Empty.opn[t] = 0
    BY <1>2, <1>6, <2>1 DEF Empty
  <2> QED BY <1>8, <2>2
<1>10. IsFiniteSet(done')
  BY <1>1, <1>2 DEF ReportInv
<1> HIDE DEF Empty
<1> QED BY <1>1, <1>2, <1>3, <1>5, <1>7, <1>9, <1>10, HandlerKeepsBalance


-------------------------------------------------------------------------------
(* Runners and the exchange keep the balance: what is bought is due, what is sold is
   owed. *)

LEMMA BoughtKeepsBalance ==
  ASSUME IInv, ReportInv, ReportInv', WindowInv', SellInv', Balanced,
         UNCHANGED <<window, open, sells>>, \A s, t, q : Owed(s, t, q)' <=> Owed(s, t, q),
         NEW u, NEW q \in Nat,
         \A t \in Token : /\ Due(t)' = Due(t) + (IF u = t THEN q ELSE 0)
                          /\ held'[t] = held[t] + (IF u = t THEN q ELSE 0)
  PROVE  BalanceInv'
<1>1. ASSUME NEW t \in Token, WindowOf[t] = window'
      PROVE  open'[t] + Due(t)' = held'[t] + Owes(t)' /\ Owes(t)' <= open'[t]
  <2>1. Owes(t)' = Owes(t)
    BY OwesSame
  <2>2. open[t] + Due(t) = held[t] + Owes(t) /\ Owes(t) <= open[t] /\ open'[t] = open[t]
    BY <1>1 DEF Balanced
  <2>3. open[t] \in Nat /\ held[t] \in Nat /\ Due(t) \in Nat /\ Owes(t) \in Nat
    BY BalanceTypes
  <2> QED BY <2>1, <2>2, <2>3
<1> QED BY <1>1 DEF BalanceInv, Balanced

LEMMA RunnersKeepBalance ==
  ASSUME IInv, IInv', Settling, BalanceInv, NEW r \in Runner,
         Check(r) \/ Rejected(r) \/ Accepted(r) \/ Unheard(r)
  PROVE  BalanceInv'
<1> DEFINE old == runner[r]
           n == old.tries + 1
<1>0. /\ LotsPerOrder \in Nat \ {0} /\ live \in [OrderId -> Nat] /\ held \in [Token -> Nat]
      /\ done \subseteq DoneEvent
  BY AutoTradingAssumption DEF IInv, TypeInv, TypeOK, DoneEvent
<1>1. WindowInv /\ SellInv /\ ReportInv /\ Balanced
  BY DEF BalanceInv
<1>2. /\ runner \in [Runner -> RunnerState] /\ old.token \in Token
      /\ old.pc # "stopped" /\ old.pc # "off"
  <2>1. old.pc \in {"check", "post"}
    BY DEF Check, Rejected, Accepted, Unheard, Accept
  <2> QED BY <2>1 DEF IInv, TypeInv, TypeOK, RunnerInv, RunnerState
<1>3. UNCHANGED <<market, window, open, sells, acks, acked, wsq>>
  BY DEF Check, Rejected, Accepted, Unheard, Accept, ledger, exchange
<1>4. SellInv' /\ \A s, t, q : Owed(s, t, q)' <=> Owed(s, t, q)
  BY <1>1, <1>3 DEF SellInv, Sale, Owed
<1>5. \A x \in Runner : x # r => runner'[x] = runner[x]
  BY <1>2 DEF Check, Rejected, Accepted, Unheard, Retry, Stop
<1>6. Stop(r) => runner'[r].pc = "stopped" /\ runner'[r].token = old.token
  BY <1>2 DEF Stop, RunnerState
<1>7. ASSUME Retry(r) PROVE runner'[r].token = old.token /\ runner'[r].pc # "off"
  <2> DEFINE pc == IF n % Inner = 0 THEN "check" ELSE "post"
  <2>1. pc # "off"
    OBVIOUS
  <2>2. CASE n # Inner * Outer
    <3>1. runner' = [runner EXCEPT ![r].tries = n, ![r].pc = pc]
      BY <1>7, <2>2 DEF Retry
    <3> HIDE DEF pc, n
    <3> QED BY <1>2, <2>1, <3>1 DEF RunnerState
  <2> QED BY <1>6, <1>7, <2>2 DEF Retry
<1>8. runner'[r].token = old.token /\ runner'[r].pc # "off"
  <2>1. CASE Check(r)
    BY <1>2, <1>6, <2>1 DEF Check, RunnerState
  <2> QED BY <1>6, <1>7, <2>1 DEF Rejected, Accepted, Unheard
<1>9. ~Unheard(r)
  BY DEF Unheard, Settling, Only
\* A report, or nothing, and what it tells of has come into the wallet.
<1>10. ASSUME NEW q \in Nat, q <= LotsPerOrder, NEW failed,
              Stop(r), Report(old.token, <<r, failed[1]>>, q, failed[2]),
              held' = [held EXCEPT ![old.token] = @ + q],
              \A o \in OrderId : live'[o] <= LotsPerOrder
       PROVE  BalanceInv'
  <2> DEFINE m == [token |-> old.token, order |-> <<r, failed[1]>>, filled |-> q,
                   error |-> failed[2]]
  <2>1. m.order[1] = r /\ m.filled = q /\ m.token = old.token /\ done' = done \cup {m}
    BY <1>10 DEF Report
  <2> HIDE DEF m
  <2>2. m \notin done
    BY <1>1, <1>2, <2>1 DEF ReportInv
  <2>3. \A t : Due(t)' = Due(t) + (IF old.token = t THEN q ELSE 0)
    BY <1>1, <1>3, <1>10, <2>1, <2>2, DueReported
  <2>4. ReportInv'
    <3>1. IsFiniteSet(done')
      BY <1>1, <2>1, FS_AddElement DEF ReportInv
    <3>2. ASSUME NEW x \in done' PROVE x.filled <= LotsPerOrder /\ runner'[x.order[1]].pc = "stopped"
      <4>1. CASE x = m
        BY <1>6, <1>10, <2>1, <4>1
      <4>2. CASE x \in done
        <5>1. x.filled <= LotsPerOrder /\ runner[x.order[1]].pc = "stopped" /\ x.order[1] \in Runner
          BY <1>0, <1>1, <4>2 DEF ReportInv, DoneEvent, OrderId
        <5> QED BY <1>2, <1>5, <5>1
      <4> QED BY <2>1, <4>1, <4>2
    <3> QED BY <1>1, <1>3, <1>10, <3>1, <3>2 DEF ReportInv
  <2>5. \A t \in Token : held'[t] = held[t] + (IF old.token = t THEN q ELSE 0)
    BY <1>0, <1>2, <1>10
  <2>6. WindowInv'
    <3>1. \A t \in Token : held'[t] > 0 => held[t] > 0 \/ t = old.token
      BY <1>0, <2>5
    <3> QED BY <1>1, <1>2, <1>3, <1>5, <1>8, <3>1, WindowInvStays
  <2> QED BY <1>1, <1>2, <1>3, <1>4, <2>3, <2>4, <2>5, <2>6, BoughtKeepsBalance
<1>11. ASSUME UNCHANGED <<done, live, held>> PROVE BalanceInv'
  <2>1. \A t : Due(t)' = Due(t)
    BY <1>3, <1>11, DueSame
  <2>2. ReportInv'
    <3>1. ASSUME NEW x \in done PROVE runner'[x.order[1]].pc = "stopped"
      <4>1. runner[x.order[1]].pc = "stopped" /\ x.order[1] \in Runner
        BY <1>0, <1>1 DEF ReportInv, DoneEvent, OrderId
      <4> QED BY <1>2, <1>5, <4>1
    <3> QED BY <1>1, <1>3, <1>11, <3>1 DEF ReportInv
  <2>3. WindowInv'
    BY <1>1, <1>2, <1>3, <1>5, <1>8, <1>11, WindowInvStays
  <2>4. \A t \in Token : /\ Due(t)' = Due(t) + (IF old.token = t THEN 0 ELSE 0)
                         /\ held'[t] = held[t] + (IF old.token = t THEN 0 ELSE 0)
    BY <1>1, <1>11, <2>1, BalanceTypes
  <2> QED BY <1>1, <1>3, <1>4, <2>2, <2>3, <2>4, BoughtKeepsBalance
\* Giving up reports that nothing was bought.
<1>12. ASSUME Stop(r), Report(old.token, <<r, 1>>, 0, TRUE), UNCHANGED <<live, held>>
       PROVE  BalanceInv'
  <2>1. PICK failed : failed = <<1, TRUE>>
    OBVIOUS
  <2>2. failed[1] = 1 /\ failed[2] = TRUE
    BY <2>1
  <2>3. held' = [held EXCEPT ![old.token] = @ + 0]
    BY <1>0, <1>2, <1>12
  <2>4. \A o \in OrderId : live'[o] <= LotsPerOrder
    BY <1>1, <1>12 DEF ReportInv
  <2>5. Report(old.token, <<r, failed[1]>>, 0, failed[2])
    BY <1>12, <2>2 DEF Report
  <2>6. 0 \in Nat /\ 0 <= LotsPerOrder
    BY <1>0
  <2> HIDE DEF old, n
  <2> QED BY <1>10, <1>12, <2>3, <2>4, <2>5, <2>6
<1>13. CASE Check(r)
  <2>1. UNCHANGED <<live, held>>
    BY <1>13 DEF Check, exchange
  <2> QED BY <1>11, <1>12, <1>13, <2>1 DEF Check
<1>14. CASE Rejected(r)
  <2>1. UNCHANGED <<live, held>>
    BY <1>14 DEF Rejected, exchange
  <2> QED BY <1>11, <1>12, <1>14, <2>1 DEF Rejected, Retry
<1>15. CASE Accepted(r)
  <2>1. PICK q \in 0..LotsPerOrder :
          Accept(r, q) /\ Report(old.token, <<r, n>>, q, FALSE)
    BY <1>15 DEF Accepted
  <2>2. q \in Nat /\ q <= LotsPerOrder /\ LotsPerOrder - q <= LotsPerOrder /\ LotsPerOrder - q \in Nat
    BY <1>0
  <2>3. held' = [held EXCEPT ![old.token] = @ + q] /\ Stop(r)
    BY <1>15, <2>1 DEF Accept, Accepted
  <2>4. ASSUME NEW o \in OrderId PROVE live'[o] <= LotsPerOrder
    <3>1. PICK p : live' = [live EXCEPT ![p] = LotsPerOrder - q]
      BY <2>1 DEF Accept
    <3> QED BY <1>0, <1>1, <2>2, <3>1 DEF ReportInv
  <2>5. PICK failed : failed = <<n, FALSE>>
    OBVIOUS
  <2>6. failed[1] = n /\ failed[2] = FALSE
    BY <2>5
  <2>7. Report(old.token, <<r, failed[1]>>, q, failed[2])
    BY <2>1, <2>6
  <2> HIDE DEF old, n
  <2> QED BY <1>10, <2>2, <2>3, <2>4, <2>7
<1> QED BY <1>9, <1>13, <1>14, <1>15


\* A report of the user channel joins the others; runners and their reports stay.
LEMMA ToldReports ==
  ASSUME IInv, ReportInv, NEW m \in Message, Tell(m), UNCHANGED <<done, runner>>,
         m.type = "BUY" => m.lots <= LotsPerOrder,
         \A o \in OrderId : live'[o] <= LotsPerOrder
  PROVE  ReportInv'
<1>1. /\ \A i \in 1..Len(wsq') : wsq'[i] = IF i <= Len(wsq) THEN wsq[i] ELSE m
      /\ \A i \in 1..Len(wsq') : i \in 1..Len(wsq) \/ i = Len(wsq) + 1
      /\ Len(wsq) \in Nat
  BY Told
<1>2. \A i \in 1..Len(wsq') : wsq'[i] = m \/ (i \in 1..Len(wsq) /\ wsq'[i] = wsq[i])
  BY <1>1
<1> QED BY <1>2 DEF ReportInv

\* A maker fill, of an order of the bot's or of one placed by hand.
LEMMA FillBalance ==
  ASSUME IInv, IInv', BalanceInv, Settling, NEW t \in Token, NEW q \in Nat, q <= LotsPerOrder,
         NEW m \in Message, Tell(m), m.type = "BUY", m.token = t, m.lots = q,
         held' = [held EXCEPT ![t] = @ + q], WindowOf[t] <= window,
         \A o \in OrderId : live'[o] <= LotsPerOrder,
         UNCHANGED <<market, window, open, runner, done, sells, acks, acked>>
  PROVE  BalanceInv'
<1>1. WindowInv /\ SellInv /\ ReportInv /\ Balanced /\ held \in [Token -> Nat]
  BY DEF BalanceInv, IInv, TypeInv, TypeOK
<1>2. ~Sale(m)
  BY DEF Sale
<1>3. SellInv'
  BY <1>1, <1>2, SellInvTold
<1>4. \A s, u, p : Owed(s, u, p)' <=> Owed(s, u, p)
  BY <1>2, OwedTold
<1>5. ReportInv'
  BY <1>1, ToldReports
<1>6. \A u : Due(u)' = Due(u) + (IF t = u THEN q ELSE 0)
  BY <1>1, DueTold DEF Lots1
<1>7. \A u \in Token : held'[u] = held[u] + (IF t = u THEN q ELSE 0)
  BY <1>1
<1>8. WindowInv'
  <2>1. \A u \in Token : held'[u] > 0 => WindowOf[u] <= window
    BY <1>1, <1>7 DEF WindowInv
  <2> QED BY <1>1, <2>1 DEF WindowInv
<1> QED BY <1>1, <1>3, <1>4, <1>5, <1>6, <1>7, <1>8, BoughtKeepsBalance

LEMMA FillsKeepBalance ==
  ASSUME IInv, IInv', Settling, BalanceInv,
         \/ \E o \in OrderId : MakerFill(o)
         \/ \E t \in Token : ManualFill(t)
  PROVE  BalanceInv'
<1>0. LotsPerOrder \in Nat \ {0} /\ live \in [OrderId -> Nat] /\ window \in Nat
  BY AutoTradingAssumption DEF IInv, TypeInv, TypeOK
<1>1. WindowInv /\ ReportInv
  BY DEF BalanceInv
<1>2. ASSUME NEW o \in OrderId, MakerFill(o) PROVE BalanceInv'
  <2>1. PICK q \in 1..live[o] :
          /\ live' = [live EXCEPT ![o] = @ - q]
          /\ held' = [held EXCEPT ![TokenOf(o)] = @ + q]
          /\ Tell([type |-> "BUY", token |-> TokenOf(o), lots |-> q, order |-> o, sell |-> 0])
    BY <1>2 DEF MakerFill
  <2>2. q \in Nat /\ live[o] \in Nat /\ live[o] > 0 /\ q <= live[o] /\ live[o] <= LotsPerOrder
    BY <1>0, <1>1, <2>1 DEF ReportInv
  <2>3. \A x \in OrderId : live'[x] <= LotsPerOrder
    BY <1>0, <1>1, <2>1, <2>2 DEF ReportInv
  <2>4. PICK t : t = TokenOf(o)
    OBVIOUS
  <2>5. t \in Token /\ WindowOf[t] <= window
    <3>1. o[1] \in Runner /\ runner[o[1]].pc # "off" /\ runner[o[1]].token \in Token
      BY <2>2 DEF OrderId, IInv, TypeInv, RunnerInv
    <3> QED BY <1>1, <2>4, <3>1 DEF WindowInv, TokenOf
  <2>6. PICK m : m = [type |-> "BUY", token |-> t, lots |-> q, order |-> o, sell |-> 0]
    OBVIOUS
  <2>7. m \in Message /\ m.type = "BUY" /\ m.token = t /\ m.lots = q
    BY <2>2, <2>5, <2>6 DEF Message
  <2>8. Tell(m) /\ held' = [held EXCEPT ![t] = @ + q]
    BY <2>1, <2>4, <2>6
  <2>9. UNCHANGED <<market, window, open, runner, done, sells, acks, acked>>
    BY <1>2 DEF MakerFill, ledger
  <2>10. q <= LotsPerOrder
    BY <1>0, <2>2
  <2> QED BY <2>2, <2>3, <2>5, <2>7, <2>8, <2>9, <2>10, FillBalance
<1>3. ASSUME NEW t \in Token, ManualFill(t) PROVE BalanceInv'
  <2>1. /\ WindowOf[t] = market /\ held' = [held EXCEPT ![t] = @ + LotsPerOrder]
        /\ UNCHANGED <<market, window, open, runner, done, live, sells, acks, acked>>
    BY <1>3 DEF ManualFill, ledger
  <2>2. PICK m : m = [type |-> "BUY", token |-> t, lots |-> LotsPerOrder, order |-> <<0, 0>>,
                      sell |-> 0]
    OBVIOUS
  <2>3. Tell(m)
    BY <1>3, <2>2 DEF ManualFill
  <2>4. m \in Message /\ m.type = "BUY" /\ m.token = t /\ m.lots = LotsPerOrder
    BY <1>0, <2>2 DEF Message
  <2>5. WindowOf[t] <= window
    BY <1>0, <1>1, <2>1, AutoTradingAssumption DEF WindowInv
  <2>6. \A o \in OrderId : live'[o] <= LotsPerOrder
    BY <1>1, <2>1 DEF ReportInv
  <2>7. LotsPerOrder \in Nat /\ LotsPerOrder <= LotsPerOrder
    BY <1>0
  <2> QED BY <2>1, <2>3, <2>4, <2>5, <2>6, <2>7, FillBalance
<1> QED BY <1>2, <1>3

LEMMA CloseKeepsBalance ==
  ASSUME IInv, IInv', Settling, BalanceInv, NEW o \in OrderId, Close(o)
  PROVE  BalanceInv'
<1>1. WindowInv /\ SellInv /\ ReportInv /\ Balanced
  BY DEF BalanceInv
<1>2. /\ live[o] > 0 /\ live' = [live EXCEPT ![o] = 0]
      /\ UNCHANGED <<market, window, open, runner, done, held, sells, acks, acked>>
  BY DEF Close, ledger
<1>3. PICK m : m = [type |-> "CLOSED", token |-> TokenOf(o), lots |-> 0, order |-> o, sell |-> 0]
  OBVIOUS
<1>4. Tell(m)
  BY <1>3 DEF Close
<1>5. m \in Message /\ m.type = "CLOSED"
  <2>1. TokenOf(o) \in Token
    BY <1>2 DEF IInv, TypeInv, RunnerInv, TokenOf, OrderId
  <2> QED BY <1>3, <2>1 DEF Message
<1>6. SellInv'
  BY <1>1, <1>2, <1>4, <1>5, SellInvTold DEF Sale
<1>7. \A s, u, p : Owed(s, u, p)' <=> Owed(s, u, p)
  BY <1>2, <1>4, <1>5, OwedTold DEF Sale
<1>8. \A x \in OrderId : live'[x] <= LotsPerOrder
  BY <1>1, <1>2, AutoTradingAssumption DEF ReportInv, IInv, TypeInv, TypeOK
<1>9. ReportInv'
  BY <1>1, <1>2, <1>4, <1>5, <1>8, ToldReports
<1>10. \A t \in Token : /\ Due(t)' = Due(t) + (IF o = t THEN 0 ELSE 0)
                        /\ held'[t] = held[t] + (IF o = t THEN 0 ELSE 0)
  <2>1. \A t : Due(t)' = Due(t) + Lots1(m, t)
    BY <1>1, <1>2, <1>4, <1>5, DueTold
  <2>2. \A t : Lots1(m, t) = 0
    BY <1>5 DEF Lots1
  <2> QED BY <1>1, <1>2, <2>1, <2>2, BalanceTypes
<1>11. WindowInv'
  BY <1>1, <1>2 DEF WindowInv
<1> QED BY <1>1, <1>2, <1>6, <1>7, <1>9, <1>10, <1>11, BoughtKeepsBalance

\* A BUY that is due is one the ledger has yet to hear of.
LEMMA NothingDue ==
  ASSUME IInv, NEW t, ~Unbooked(t)
  PROVE  Due(t) = 0
<1>0. done \subseteq DoneEvent /\ LotsPerOrder \in Nat
  BY AutoTradingAssumption DEF IInv, TypeInv, TypeOK, DoneEvent
<1>1. DoneLots(t) = {}
  <2>1. ASSUME NEW x \in DoneLots(t) PROVE FALSE
    <3>1. x[1] \in done /\ x[2] \in 1..LotsPerOrder /\ x[1].token = t /\ x[2] <= x[1].filled
      BY DEF DoneLots
    <3>2. x[1].filled \in Nat
      BY <1>0, <3>1 DEF DoneEvent
    <3>3. x[1].filled > 0
      BY <1>0, <3>1, <3>2
    <3> QED BY <3>1, <3>3 DEF Unbooked
  <2> QED BY <2>1
<1>2. ToldLots(t) = {}
  BY DEF ToldLots, Unbooked
<1> QED BY <1>1, <1>2, FS_EmptySet DEF Due

LEMMA SellKeepsBalance ==
  ASSUME IInv, IInv', Settling, BalanceInv, NEW t \in Token, NEW q \in Lots,
         NEW taker \in BOOLEAN, SellLots(t, q, taker)
  PROVE  BalanceInv'
<1>1. WindowInv /\ SellInv /\ ReportInv /\ Balanced
  BY DEF BalanceInv
<1>2. /\ q <= held[t] /\ ~Unbooked(t)
      /\ sells' = sells + 1 /\ held' = [held EXCEPT ![t] = @ - q]
      /\ \/ acks' = acks
         \/ acks' = acks \cup {[sell |-> sells + 1, token |-> t, lots |-> q]}
      /\ UNCHANGED <<market, window, open, runner, done, live, acked>>
  BY DEF SellLots, ledger, Settling, Only
<1>3. sells \in Nat /\ q \in Nat /\ held \in [Token -> Nat]
  BY LotsOfSell DEF IInv, TypeInv, TypeOK, MessageInv
<1>4. PICK m : m = [type |-> "SELL", token |-> t, lots |-> q, order |-> <<0, 0>>, sell |-> sells']
  OBVIOUS
<1>5. /\ m \in Message /\ Sale(m) /\ Tell(m) /\ m.type = "SELL"
      /\ m.sell = sells + 1 /\ m.token = t /\ m.lots = q
  <2>1. Tell(m)
    BY <1>4 DEF SellLots
  <2> QED BY <1>2, <1>3, <1>4, <2>1 DEF Message, Sale
<1>6. SellInv'
  BY <1>1, <1>2, <1>5, SellInvSold
<1>7. \A u : /\ Owes(u) \in Nat /\ Owes(u)' = Owes(u) + (IF u = t THEN q ELSE 0)
  <2>1. \A x, u, p : Owed(x, u, p) => x \in 1..sells
    BY <1>1 DEF Owed, SellInv
  <2>2. \A x, u, p : Owed(x, u, p)' <=> Owed(x, u, p) \/ (x = sells + 1 /\ u = t /\ p = q)
    BY <1>1, <1>2, <1>5, OwedSold
  <2> QED BY <1>2, <1>3, <2>1, <2>2, OwesSold
<1>8. \A u : Due(u)' = Due(u)
  <2>1. \A u : Due(u) \in Nat /\ Due(u)' = Due(u) + Lots1(m, u)
    BY <1>1, <1>2, <1>5, DueTold
  <2>2. \A u : Lots1(m, u) = 0
    BY <1>5 DEF Lots1
  <2> QED BY <2>1, <2>2
<1>9. ReportInv'
  <2>1. \A x \in OrderId : live'[x] <= LotsPerOrder
    BY <1>1, <1>2 DEF ReportInv
  <2> QED BY <1>1, <1>2, <1>5, <2>1, ToldReports
<1>10. \A u \in Token : held'[u] = held[u] - (IF u = t THEN q ELSE 0)
  BY <1>2, <1>3
<1>11. WindowInv'
  <2>1. \A u \in Token : held'[u] > 0 => held[u] > 0
    BY <1>3, <1>10
  <2> QED BY <1>1, <1>2, <2>1 DEF WindowInv
<1>12. ASSUME NEW u \in Token, WindowOf[u] = window'
       PROVE  open'[u] + Due(u)' = held'[u] + Owes(u)' /\ Owes(u)' <= open'[u]
  <2>1. open[u] + Due(u) = held[u] + Owes(u) /\ Owes(u) <= open[u] /\ open'[u] = open[u]
    BY <1>1, <1>2, <1>12 DEF Balanced
  <2>2. open[u] \in Nat /\ held[u] \in Nat /\ Due(u) \in Nat /\ Owes(u) \in Nat
    BY <1>1, BalanceTypes
  <2>3. u = t => Due(u) = 0 /\ q <= held[u]
    BY <1>2, NothingDue
  <2>4. Owes(u)' = Owes(u) + (IF u = t THEN q ELSE 0) /\ Due(u)' = Due(u)
    BY <1>7, <1>8
  <2>5. held'[u] = held[u] - (IF u = t THEN q ELSE 0)
    BY <1>10
  <2> QED BY <1>3, <2>1, <2>2, <2>3, <2>4, <2>5
<1> QED BY <1>6, <1>9, <1>11, <1>12 DEF BalanceInv, Balanced

LEMMA InitBalanceInv == Init => BalanceInv
<1> SUFFICES ASSUME Init PROVE BalanceInv
  OBVIOUS
<1>1. WindowInv
  BY DEF Init, WindowInv, Off
<1>2. SellInv
  BY DEF Init, SellInv
<1>3. ReportInv
  BY FS_EmptySet, AutoTradingAssumption DEF Init, ReportInv
<1>4. Balanced
  BY AutoTradingAssumption DEF Init, Balanced
<1> QED BY <1>1, <1>2, <1>3, <1>4 DEF BalanceInv

LEMMA BalanceInvNext == IInv /\ BalanceInv /\ [Next]_vars => BalanceInv'
<1> SUFFICES ASSUME IInv, BalanceInv, [Next]_vars PROVE BalanceInv'
  OBVIOUS
<1>1. IInv'
  BY IInvNext
<1>2. Settling' <=> Settling
  <2>1. UNCHANGED scenario
    BY DEF Next, vars, Check, Rejected, Accepted, Unheard, MakerFill, Close, ManualFill, SellLots,
           LoseReport, Tick, StartTrading, UserChannel, MarketRoll, AutoTradingBuyDone, SellAck
  <2> QED BY <2>1 DEF Settling, Only
<1>3. CASE ~Settling
  BY <1>2, <1>3 DEF BalanceInv
<1>4. CASE Settling /\ UNCHANGED vars
  <2>1. UNCHANGED <<market, window, open, runner, done, live, held, sells, acks, acked, wsq>>
    BY <1>4 DEF vars, ledger, exchange
  <2>2. WindowInv /\ SellInv /\ ReportInv /\ Balanced
    BY <1>4 DEF BalanceInv
  <2>3. WindowInv' /\ SellInv' /\ ReportInv'
    BY <2>1, <2>2 DEF WindowInv, SellInv, Sale, ReportInv
  <2>4. \A s, t, q : Owed(s, t, q)' <=> Owed(s, t, q)
    BY <2>1 DEF Owed, Sale
  <2>5. \A t : Due(t)' = Due(t)
    BY <2>1, DueSame
  <2>6. \A t \in Token : /\ Due(t)' = Due(t) + (IF 0 = t THEN 0 ELSE 0)
                         /\ held'[t] = held[t] + (IF 0 = t THEN 0 ELSE 0)
    BY <2>1, <2>2, <2>5, BalanceTypes
  <2> QED BY <2>1, <2>2, <2>3, <2>4, <2>6, BoughtKeepsBalance
<1>5. CASE Settling /\ Next
  <2>1. ASSUME NEW r \in Runner, Check(r) \/ Rejected(r) \/ Accepted(r) \/ Unheard(r)
        PROVE  BalanceInv'
    BY <1>1, <1>5, <2>1, RunnersKeepBalance
  <2>2. ASSUME \/ \E o \in OrderId : MakerFill(o) \/ Close(o)
               \/ \E t \in Token :
                    ManualFill(t) \/ \E q \in Lots, taker \in BOOLEAN : SellLots(t, q, taker)
        PROVE  BalanceInv'
    BY <1>1, <1>5, <2>2, FillsKeepBalance, CloseKeepsBalance, SellKeepsBalance
  <2>3. ~LoseReport
    BY <1>5 DEF LoseReport, Settling, Only
  <2>4. ASSUME Tick \/ StartTrading \/ UserChannel PROVE BalanceInv'
    BY <1>1, <1>5, <2>4, IdleKeepsBalance, ChannelKeepsBalance
  <2>5. ASSUME NEW w \in 1..MaxWindow, MarketRoll(w) PROVE BalanceInv'
    BY <1>1, <1>5, <2>5, RollKeepsBalance
  <2>6. ASSUME NEW m \in done, AutoTradingBuyDone(m) PROVE BalanceInv'
    BY <1>1, <1>5, <2>6, DoneKeepsBalance
  <2>7. ASSUME NEW a \in acks, SellAck(a) PROVE BalanceInv'
    BY <1>1, <1>5, <2>7, AckKeepsBalance
  <2> QED BY <1>5, <2>1, <2>2, <2>3, <2>4, <2>5, <2>6, <2>7 DEF Next
<1> QED BY <1>3, <1>4, <1>5

\* With nothing under way, nothing is due and nothing owed.
LEMMA QuietSettled ==
  ASSUME IInv, BalanceInv, Settling, Quiet
  PROVE  \A t \in OfMarket : open[t] = held[t]
<1>1. WindowInv /\ ReportInv /\ Balanced /\ done = {} /\ acks = {} /\ wsq = <<>>
  BY DEF BalanceInv, Quiet, Reports
<1>2. ASSUME NEW t \in OfMarket PROVE open[t] = held[t]
  <2>1. t \in Token /\ WindowOf[t] = market
    BY DEF OfMarket
  <2>2. open[t] \in Nat /\ held[t] \in Nat /\ Due(t) \in Nat /\ Owes(t) \in Nat /\ WindowOf[t] # 0
    BY <1>1, <2>1, BalanceTypes
  <2>3. WindowOf[t] = window
    BY <1>1, <2>1, <2>2 DEF WindowInv
  <2>4. open[t] + Due(t) = held[t] + Owes(t)
    BY <1>1, <2>1, <2>3 DEF Balanced
  <2>5. Due(t) = 0
    BY <1>1, NothingDue DEF Unbooked
  <2>6. Owes(t) = 0
    <3>1. OwedLots(t) = {}
      BY <1>1 DEF OwedLots, Owed
    <3> QED BY <3>1, FS_EmptySet DEF Owes
  <2> QED BY <2>2, <2>4, <2>5, <2>6
<1> QED BY <1>2

-------------------------------------------------------------------------------
(* The theorems. *)

\* The state keeps its types: what the ledger holds of a token (app.rs autotrading_open)
\* never falls below nothing, whatever is sold and however often it is reported.
THEOREM LedgerTypeCorrect == Spec => []TypeOK
<1>1. IInv => TypeOK
  BY DEF IInv, TypeInv
<1> QED BY InitIInv, IInvNext, <1>1, PTL DEF Spec

\* For any faults a token is never both reserved for a BUY and held from an earlier one
\* (app.rs autotrading_mark_in_flight, autotrading_apply_fill).
THEOREM ReservedOrHeldHolds == Spec => []ReservedOrHeld
<1>1. IInv => ReservedOrHeld
  BY DEF IInv, LedgerInv
<1> QED BY InitIInv, IInvNext, <1>1, PTL DEF Spec

\* For any faults no more tokens are reserved for BUYs under way than
\* AUTOTRADING_MAX_POSITIONS (app.rs autotrading_can_buy).
THEOREM InFlightWithinCapacityHolds == Spec => []InFlightWithinCapacity
<1>1. IInv => InFlightWithinCapacity
  BY DEF IInv, LedgerInv
<1> QED BY InitIInv, IInvNext, <1>1, PTL DEF Spec

\* Whatever SELLs are reported twice, before their BUY or not at all, and whatever order
\* closes early, the tokens reserved or held stay within AUTOTRADING_MAX_POSITIONS (app.rs
\* autotrading_reserved_count): a token whose reservation a report ends is booked or given
\* up by nobody else, so booking it never takes a second place.
THEOREM WithinCapacityHolds == Spec => []WithinCapacity
<1>1. BuyInv => WithinCapacity
  BY DEF BuyInv, WithinCapacity, Calm
<1> QED BY InitIInv, IInvNext, InitBuyInv, BuyInvNext, <1>1, PTL DEF Spec

\* What the exchange has of a token of the market, in the wallet or in the book, the ledger
\* reserves or holds (app.rs autotrading_in_flight, autotrading_open), whatever is sold
\* early, closed early or never reported.
THEOREM ExposureReservedHolds == Spec => []ExposureReserved
<1>1. IInv /\ BuyInv /\ ExposureInv => ExposureReserved
  BY ExposedReserved DEF ExposureReserved, Gentle
<1> QED BY InitIInv, IInvNext, InitBuyInv, BuyInvNext, InitExposureInv, ExposureInvNext, <1>1,
           PTL DEF Spec

\* AUTOTRADING_MAX_POSITIONS bounds what is really bought and on order at the exchange (app.rs
\* autotrading_can_buy), as long as no SELL of a taker is reported ahead of its OrderAck, and
\* no BUY is filled in part, placed without an answer or by hand, or straddles a roll.
THEOREM ExposureBounded ==
  Spec => [](Only({"sell_early", "close_first", "ws_outage"}) => ExposureWithinCapacity)
<1>1. ASSUME IInv, BuyInv, ExposureInv, Gentle PROVE ExposureWithinCapacity
  <2>1. Exposed \in SUBSET Reserved(in_flight, open)
    BY <1>1, ExposedReserved
  <2>2. Reserved(in_flight, open) \in SUBSET Token
    BY <1>1 DEF IInv, TypeInv, TypeOK, Reserved
  <2>3. Cardinality(Reserved(in_flight, open)) <= Cap
    BY <1>1 DEF BuyInv, Gentle, Calm, Only, ReservedCount
  <2> QED BY <2>1, <2>2, <2>3, FewerReserved DEF ExposureWithinCapacity
<1>2. IInv /\ BuyInv /\ ExposureInv =>
        (Only({"sell_early", "close_first", "ws_outage"}) => ExposureWithinCapacity)
  BY <1>1 DEF Gentle
<1> QED BY InitIInv, IInvNext, InitBuyInv, BuyInvNext, InitExposureInv, ExposureInvNext, <1>2,
           PTL DEF Spec

\* Once nothing is under way, the ledger holds of each token of the market exactly what the
\* wallet holds (app.rs autotrading_apply_fill): each fill and each sale is booked once, partial
\* fills, fills of BUYs placed by hand, early closes and SELLs reported twice included.
THEOREM LedgerSettledHolds == Spec => []LedgerSettled
<1>1. IInv /\ BalanceInv => LedgerSettled
  BY QuietSettled DEF LedgerSettled, Settling
<1> QED BY InitIInv, IInvNext, InitBalanceInv, BalanceInvNext, <1>1, PTL DEF Spec
=============================================================================
